------------------------- MODULE HttpFederatedProtocol -------------------------
(***************************************************************************)
(* HttpFederatedProtocol (fcp/client/http/http_federated_protocol.cc): the *)
(* object state of one client session, the retry times chosen from the     *)
(* server's retry windows, the permanent-error handling, and the           *)
(* RetryWindow GetLatestRetryWindow returns.                              *)
(*                                                                         *)
(* The caller follows the FederatedProtocol contract from what the calls   *)
(* RETURN: EligibilityEvalCheckin first; Checkin only after an             *)
(* EligibilityEvalTask (with TaskEligibilityInfo) or EligibilityEvalDisabled *)
(* (without); GetLatestRetryWindow at any point.  The code's FCP_CHECKs    *)
(* look at object_state_ instead; a failing CHECK sets `crashed`.          *)
(* ReportCompleted/ReportNotCompleted require kCheckinAccepted, which      *)
(* Checkin never reaches, so a contract caller never calls them.           *)
(*                                                                         *)
(* Status codes are absl::StatusCode values.  A server response is a       *)
(* record; the retry time picked from a window is abstracted to which      *)
(* window it came from.                                                    *)
(***************************************************************************)
EXTENDS Integers, FiniteSets

CONSTANTS
    PermanentCodes,   \* federated_training_permanent_error_codes() flag
    TransportCodes,   \* codes a failed protocol request can end with
    FetchCodes,       \* codes a failed resource fetch can end with
    MaxDelay          \* retry window bounds range over 0..MaxDelay

OK == 0
INVALID_ARGUMENT == 3
UNIMPLEMENTED == 12

VARIABLES
    objectState,      \* object_state_
    retryTimes,       \* retry_times_: [set |-> FALSE] or [set |-> TRUE, rejected, accepted]
    baseUri,          \* next_request_base_uri_
    sessionId,        \* session_id_
    caller,           \* what the caller learned from the last result
    crashed,          \* an FCP_CHECK failed
    window,           \* the RetryWindow the last step returned, or "none":
                      \* [src |-> "server", time] or [src |-> "transient"]
                      \* or [src |-> "permanent"]
    permanentSeen     \* some call returned a code listed in PermanentCodes

vars == <<objectState, retryTimes, baseUri, sessionId, caller, crashed,
          window, permanentSeen>>

(***************************************************************************)
(* Inputs.                                                                 *)
(***************************************************************************)
\* A resource: an empty uri, or a uri or inline data whose fetch ends with
\* OK or a failure code.
Resources == {[emptyUri |-> TRUE, fetch |-> OK]}
             \cup {[emptyUri |-> FALSE, fetch |-> c] : c \in {OK} \cup FetchCodes}

\* A RetryWindow [delay_min, delay_max] of the response.
RetryWindows == {w \in [min : 0..MaxDelay, max : 0..MaxDelay] : w.min <= w.max}

\* A response to the eligibility eval task request.
Responses ==
    {[kind |-> "transport", code |-> c] : c \in TransportCodes}
    \cup {[kind |-> "unparsable"]}
    \cup [kind : {"parsed"}, rejection : BOOLEAN, targetUri : {"", "target"},
          result : {"task", "disabled", "unset"},
          ifRejected : RetryWindows, ifAccepted : RetryWindows,
          plan : Resources, checkpoint : Resources]

\* retry_times_ before it has a value.
NoRetryTimes == [set |-> FALSE]

\* The retry times PickRetryTimeFromRange can choose for a parsed response
\* (bit_gen_ is a nondeterministic choice within each window).
RetryTimeChoices(resp) ==
    IF resp.kind # "parsed" THEN {NoRetryTimes}
    ELSE [set : {TRUE}, rejected : resp.ifRejected.min..resp.ifRejected.max,
          accepted : resp.ifAccepted.min..resp.ifAccepted.max]

(***************************************************************************)
(* Helpers of the handlers.                                                *)
(***************************************************************************)
\* ConvertResourceToUriOrInlineData: an empty uri is INVALID_ARGUMENT.
ConvertResource(r) == IF r.emptyUri THEN INVALID_ARGUMENT ELSE OK

\* FetchTaskResources: both conversions, then the plan's and the
\* checkpoint's fetch results, each error forwarded with its code.
FetchTaskResources(plan, checkpoint) ==
    CASE ConvertResource(plan) # OK       -> ConvertResource(plan)
      [] ConvertResource(checkpoint) # OK -> ConvertResource(checkpoint)
      [] plan.fetch # OK                  -> plan.fetch
      [] checkpoint.fetch # OK            -> checkpoint.fetch
      [] OTHER                            -> OK

\* A bug for the checks to catch: retry_times_ is only set once the
\* response is known not to be a rejection.
HandleSetsRetryLate(resp, state, picked) ==
    LET fetched == FetchTaskResources(resp.plan, resp.checkpoint) IN
    CASE resp.kind = "transport"  -> [code |-> resp.code, state |-> state, retry |-> retryTimes,
                                     base |-> baseUri, session |-> sessionId, kind |-> "error"]
      [] resp.kind = "unparsable" -> [code |-> INVALID_ARGUMENT, state |-> state, retry |-> retryTimes,
                                     base |-> baseUri, session |-> sessionId, kind |-> "error"]
      [] resp.rejection           -> [code |-> OK, state |-> "EligibilityEvalCheckinRejected",
                                     retry |-> retryTimes, base |-> baseUri,
                                     session |-> sessionId, kind |-> "rejected"]
      [] resp.targetUri = ""      -> [code |-> UNIMPLEMENTED, state |-> state, retry |-> picked,
                                     base |-> baseUri, session |-> "server", kind |-> "error"]
      [] resp.result = "task" /\ fetched # OK ->
                                     [code |-> fetched, state |-> state, retry |-> picked,
                                      base |-> resp.targetUri, session |-> "server", kind |-> "error"]
      [] resp.result = "task"     -> [code |-> OK, state |-> "EligibilityEvalEnabled", retry |-> picked,
                                     base |-> resp.targetUri, session |-> "server", kind |-> "task"]
      [] resp.result = "disabled" -> [code |-> OK, state |-> "EligibilityEvalDisabled", retry |-> picked,
                                     base |-> resp.targetUri, session |-> "server", kind |-> "disabled"]
      [] OTHER                    -> [code |-> UNIMPLEMENTED, state |-> state, retry |-> picked,
                                     base |-> resp.targetUri, session |-> "server", kind |-> "error"]

\* HandleEligibilityEvalTaskResponse, entered with object state `state`:
\* the returned code, the new object state, retry_times_,
\* next_request_base_uri_, session_id_ and the kind of result.  The retry
\* times are chosen as soon as the response parses, before the rejection
\* and forwarding-info checks.
HandleEligibilityEvalTaskResponse(resp, state, picked) ==
    LET fetched == FetchTaskResources(resp.plan, resp.checkpoint) IN
    CASE resp.kind = "transport"  -> [code |-> resp.code, state |-> state, retry |-> retryTimes,
                                     base |-> baseUri, session |-> sessionId, kind |-> "error"]
      [] resp.kind = "unparsable" -> [code |-> INVALID_ARGUMENT, state |-> state, retry |-> retryTimes,
                                     base |-> baseUri, session |-> sessionId, kind |-> "error"]
      [] resp.rejection           -> [code |-> OK, state |-> "EligibilityEvalCheckinRejected",
                                     retry |-> picked, base |-> baseUri,
                                     session |-> sessionId, kind |-> "rejected"]
      [] resp.targetUri = ""      -> [code |-> UNIMPLEMENTED, state |-> state, retry |-> picked,
                                     base |-> baseUri, session |-> "server", kind |-> "error"]
      [] resp.result = "task" /\ fetched # OK ->
                                     [code |-> fetched, state |-> state, retry |-> picked,
                                      base |-> resp.targetUri, session |-> "server", kind |-> "error"]
      [] resp.result = "task"     -> [code |-> OK, state |-> "EligibilityEvalEnabled", retry |-> picked,
                                     base |-> resp.targetUri, session |-> "server", kind |-> "task"]
      [] resp.result = "disabled" -> [code |-> OK, state |-> "EligibilityEvalDisabled", retry |-> picked,
                                     base |-> resp.targetUri, session |-> "server", kind |-> "disabled"]
      [] OTHER                    -> [code |-> UNIMPLEMENTED, state |-> state, retry |-> picked,
                                     base |-> resp.targetUri, session |-> "server", kind |-> "error"]

\* UpdateObjectStateIfPermanentError: a code listed in the flag moves the
\* object to the given permanent-error state.
UpdateObjectStateIfPermanentError(code, state, permanentState) ==
    IF code \in PermanentCodes THEN permanentState ELSE state

\* GenerateRetryWindowFromRetryTime of one of the chosen retry times (the
\* time is only read when the CHECK before it holds).
Server(retry, which) ==
    IF ~retry.set THEN [src |-> "server", time |-> -1]
    ELSE [src |-> "server", time |-> retry[which]]

\* A bug for the checks to catch: the failed states ignore retry_times_.
RetryWindowIgnoringServer(state, retry) ==
    CASE state \in {"CheckinAccepted", "ReportCalled"} ->
           [check |-> retry.set, window |-> Server(retry, "accepted")]
      [] state \in {"EligibilityEvalCheckinRejected", "EligibilityEvalDisabled",
                    "EligibilityEvalEnabled", "CheckinRejected"} ->
           [check |-> retry.set, window |-> Server(retry, "rejected")]
      [] state \in {"Initialized", "EligibilityEvalCheckinFailed", "CheckinFailed"} ->
           [check |-> TRUE, window |-> [src |-> "transient"]]
      [] OTHER -> [check |-> TRUE, window |-> [src |-> "permanent"]]

\* The switch of GetLatestRetryWindow: whether its FCP_CHECK holds, and
\* the window: the server's (accepted or rejected) retry time, the flag's
\* transient-error delay, or the flag's permanent-error delay.
RetryWindowFor(state, retry) ==
    CASE state \in {"CheckinAccepted", "ReportCalled"} ->
           [check |-> retry.set, window |-> Server(retry, "accepted")]
      [] state \in {"EligibilityEvalCheckinRejected", "EligibilityEvalDisabled",
                    "EligibilityEvalEnabled", "CheckinRejected"} ->
           [check |-> retry.set, window |-> Server(retry, "rejected")]
      [] state \in {"Initialized", "EligibilityEvalCheckinFailed", "CheckinFailed"} ->
           [check |-> TRUE,
            window |-> IF retry.set THEN Server(retry, "rejected")
                                         ELSE [src |-> "transient"]]
      [] OTHER -> [check |-> TRUE, window |-> [src |-> "permanent"]]

(***************************************************************************)
(* Actions: one per public call the contract caller makes.                 *)
(***************************************************************************)
Init ==
    /\ objectState = "Initialized"
    /\ retryTimes = NoRetryTimes
    /\ baseUri = "entry"
    /\ sessionId = ""
    /\ caller = "start"
    /\ crashed = FALSE
    /\ window = [src |-> "none"]
    /\ permanentSeen = FALSE

\* EligibilityEvalCheckin: CHECK kInitialized, set
\* kEligibilityEvalCheckinFailed, send the request and handle the
\* response, then the permanent-error update.
EligibilityEvalCheckin(resp, picked) ==
    /\ ~crashed
    /\ caller = "start"
    /\ window' = [src |-> "none"]
    /\ IF objectState # "Initialized"
       THEN /\ crashed' = TRUE
            /\ UNCHANGED <<objectState, retryTimes, baseUri, sessionId, caller, permanentSeen>>
       ELSE LET h == HandleEligibilityEvalTaskResponse(resp, "EligibilityEvalCheckinFailed", picked) IN
            /\ objectState' = UpdateObjectStateIfPermanentError(
                                  h.code, h.state, "EligibilityEvalCheckinFailedPermanentError")
            /\ retryTimes' = h.retry
            /\ baseUri' = h.base
            /\ sessionId' = h.session
            /\ caller' = h.kind
            /\ permanentSeen' = (h.code \in PermanentCodes)
            /\ UNCHANGED crashed

\* Checkin(task_eligibility_info): the caller passes the info iff it got an
\* eligibility eval task.  CHECK the state is Disabled or Enabled and the
\* info matches it; set kCheckinFailed; return UNIMPLEMENTED.
Checkin ==
    /\ ~crashed
    /\ caller \in {"task", "disabled"}
    /\ window' = [src |-> "none"]
    /\ LET hasInfo == (caller = "task") IN
       IF \/ objectState \notin {"EligibilityEvalDisabled", "EligibilityEvalEnabled"}
          \/ hasInfo # (objectState = "EligibilityEvalEnabled")
       THEN /\ crashed' = TRUE
            /\ UNCHANGED <<objectState, caller, permanentSeen>>
       ELSE /\ objectState' = "CheckinFailed"
            /\ caller' = "error"
            /\ permanentSeen' = (permanentSeen \/ UNIMPLEMENTED \in PermanentCodes)
            /\ UNCHANGED crashed
    /\ UNCHANGED <<retryTimes, baseUri, sessionId>>

\* GetLatestRetryWindow: the switch over object_state_.
GetLatestRetryWindow ==
    /\ ~crashed
    /\ LET r == RetryWindowFor(objectState, retryTimes) IN
       IF r.check
       THEN window' = r.window /\ UNCHANGED crashed
       ELSE crashed' = TRUE /\ window' = [src |-> "none"]
    /\ UNCHANGED <<objectState, retryTimes, baseUri, sessionId, caller, permanentSeen>>

Next ==
    \/ \E resp \in Responses : \E picked \in RetryTimeChoices(resp) :
          EligibilityEvalCheckin(resp, picked)
    \/ Checkin
    \/ GetLatestRetryWindow

Spec == Init /\ [][Next]_vars

(***************************************************************************)
(* Properties.                                                             *)
(***************************************************************************)
\* A caller that follows the contract never trips an FCP_CHECK: Checkin
\* finds the state its precondition asks for, and GetLatestRetryWindow
\* finds retry_times_ set in every state that needs it.
NoCrashForContractCaller == ~crashed

\* Once a call of the session has returned a code listed in the
\* permanent-error flag, GetLatestRetryWindow returns the flag's
\* permanent-error delay (comment at lines 461-466).
PermanentErrorWindow ==
    (window.src # "none" /\ permanentSeen) => window.src = "permanent"

(***************************************************************************)
(* Refinement: the session implements RetryPolicy, the note on error      *)
(* handling at the top of the file.  The server's retry times are those   *)
(* in retry_times_; a permanent error is one a call returned.             *)
(***************************************************************************)
Policy == INSTANCE RetryPolicy WITH
    Times       <- 0..MaxDelay,
    serverTimes <- IF retryTimes.set THEN {retryTimes.rejected, retryTimes.accepted}
                                     ELSE {},
    permanent   <- permanentSeen,
    window      <- window

\* Every RetryWindow GetLatestRetryWindow returns follows the note: the
\* permanent-error period after a permanent error, else one of the
\* server's retry times once its response was read, else the
\* transient-error period.
RetryPolicyRefined == Policy!Spec
====
