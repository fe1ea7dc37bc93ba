---------------------------- MODULE AggregatorSpec ----------------------------
(***************************************************************************)
(* What a grouping aggregator promises (spec sections 3, 4.4 and 8),      *)
(* independent of ordinals, key combiners and nested aggregators: each     *)
(* instance holds, per composite key it has seen, the vector of sums of   *)
(* the values contributed for that key, and a count of contributions.     *)
(*   Accumulate  folds one contribution (a sequence of rows);              *)
(*   Merge       folds another instance's sums and count and consumes it;  *)
(*   Report      emits one row per key (the named key components followed  *)
(*               by the sums) and consumes the instance.                   *)
(* A rejected call (bad input, consumed instance, incompatible peer) is a  *)
(* step that changes nothing, i.e. a stuttering step of this spec.         *)
(***************************************************************************)
EXTENDS Integers, Sequences, SequencesExt, Functions, FiniteSets

CONSTANTS
    Aggs,           \* the aggregator instances
    KeyNames,       \* KeyNames[a]: the output key column names of a ("" = anonymous)
    NumValues,      \* NumValues[a]: the number of value columns (nested intrinsics)
    AccInputs       \* AccInputs[a]: the contributions a may be given

VARIABLES sums, count, consumed, report

vars == <<sums, count, consumed, report>>

EmptySums == [k \in {} |-> <<>>]

\* The sums after adding the rows of one contribution.
AddRows(f, rows, n) ==
    LET D == DOMAIN f \cup {rows[j].key : j \in DOMAIN rows} IN
    [k \in D |-> [i \in 1..n |->
        (IF k \in DOMAIN f THEN f[k][i] ELSE 0)
        + SumFunctionOnSet([j \in DOMAIN rows |-> rows[j].vals[i]],
                           {j \in DOMAIN rows : rows[j].key = k})]]

\* The pointwise sum of two instances' sums.
AddSums(f, g, n) ==
    [k \in DOMAIN f \cup DOMAIN g |-> [i \in 1..n |->
        (IF k \in DOMAIN f THEN f[k][i] ELSE 0)
        + (IF k \in DOMAIN g THEN g[k][i] ELSE 0)]]

\* The key components that are emitted: those whose name is non-empty.
NamedPart(names, k) ==
    LET idx == SelectSeq([c \in DOMAIN names |-> c], LAMBDA c : names[c] # "")
    IN  [j \in DOMAIN idx |-> k[idx[j]]]

\* The report as a bag of rows: two keys that differ only in anonymous
\* components give two equal rows.
ReportBag(a, f) ==
    LET Row(k) == NamedPart(KeyNames[a], k) \o f[k] IN
    [x \in {Row(k) : k \in DOMAIN f} |->
        Cardinality({k \in DOMAIN f : Row(k) = x})]

Init ==
    /\ sums = [a \in Aggs |-> EmptySums]
    /\ count = [a \in Aggs |-> 0]
    /\ consumed = [a \in Aggs |-> FALSE]
    /\ report = [a \in Aggs |-> [done |-> FALSE, rows |-> EmptySums]]

Accumulate(a, rows) ==
    /\ ~consumed[a]
    /\ sums' = [sums EXCEPT ![a] = AddRows(@, rows, NumValues[a])]
    /\ count' = [count EXCEPT ![a] = @ + 1]
    /\ UNCHANGED <<consumed, report>>

Merge(a, b) ==
    /\ a # b
    /\ ~consumed[a] /\ ~consumed[b]
    /\ sums' = [sums EXCEPT ![a] = AddSums(sums[a], sums[b], NumValues[a]),
                            ![b] = EmptySums]
    /\ count' = [count EXCEPT ![a] = @ + count[b]]
    /\ consumed' = [consumed EXCEPT ![b] = TRUE]
    /\ UNCHANGED report

Report(a) ==
    /\ ~consumed[a]
    /\ report' = [report EXCEPT ![a] = [done |-> TRUE, rows |-> ReportBag(a, sums[a])]]
    /\ consumed' = [consumed EXCEPT ![a] = TRUE]
    /\ sums' = [sums EXCEPT ![a] = EmptySums]
    /\ UNCHANGED count

Next ==
    \/ \E a \in Aggs : \E rows \in AccInputs[a] : Accumulate(a, rows)
    \/ \E a, b \in Aggs : Merge(a, b)
    \/ \E a \in Aggs : Report(a)

Spec == Init /\ [][Next]_vars
=============================================================================
