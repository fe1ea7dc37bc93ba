----------------------------- MODULE RetryPolicy -----------------------------
(***************************************************************************)
(* What a federated protocol session promises about the RetryWindow it     *)
(* returns, as the note on error handling at the top of                    *)
(* http_federated_protocol.cc states it:                                  *)
(*   - once a permanent error has occurred, the window is always the       *)
(*     permanent-error retry period, whatever the server said before;      *)
(*   - otherwise, once the server's EligibilityEvalTaskResponse has been   *)
(*     received, it is one of the retry times chosen from that message;    *)
(*   - otherwise it is the transient-error retry period.                  *)
(* A call of the session may receive the server's retry times and may end *)
(* in a permanent error; a query returns the window.                      *)
(***************************************************************************)
CONSTANTS
    Times            \* the retry times the server's windows can yield

VARIABLES
    serverTimes,     \* the retry times of the server's response, {} before
    permanent,       \* a call has ended in a permanent error
    window           \* the window the last query returned, [src |-> "none"] after a call

vars == <<serverTimes, permanent, window>>

Init ==
    /\ serverTimes = {}
    /\ permanent = FALSE
    /\ window = [src |-> "none"]

\* A call: it may receive the server's response, once per session, with
\* its retry times, and it may end in a permanent error.
Call ==
    /\ \/ UNCHANGED serverTimes
       \/ serverTimes = {} /\ \E times \in SUBSET Times \ {{}} : serverTimes' = times
    /\ \E p \in BOOLEAN : permanent' = (permanent \/ p)
    /\ window' = [src |-> "none"]

\* A query of the retry window.
Query ==
    /\ CASE permanent        -> window' = [src |-> "permanent"]
         [] serverTimes # {} -> \E t \in serverTimes : window' = [src |-> "server", time |-> t]
         [] OTHER            -> window' = [src |-> "transient"]
    /\ UNCHANGED <<serverTimes, permanent>>

Next == Call \/ Query

Spec == Init /\ [][Next]_vars
====
