------------------------------- MODULE SoftQuota -------------------------------
(***************************************************************************)
(* What the gateway promises about one caller's quota in one store: a soft *)
(* limit.  A place is granted only while both counters are below their     *)
(* limits, each charge uses up a place that was granted, and nothing else  *)
(* moves the counters except their loss as a whole.                        *)
(***************************************************************************)
EXTENDS Integers, FiniteSets

CONSTANTS Places,     \* the requests that can be under way at once
          CallLimit,  \* max_calls_per_session
          RowLimit,   \* max_records_per_session
          RowsAtOnce  \* the most rows one call brings

(* What the bounds need to be known of the constants.                      *)
QuotaAssumption ==
    /\ IsFiniteSet(Places)
    /\ CallLimit \in Nat \ {0}
    /\ RowLimit \in Nat \ {0}
    /\ RowsAtOnce \in Nat

VARIABLES used,     \* calls charged
          rowsUsed, \* rows charged
          held      \* places granted and not yet charged or given up

vars == <<used, rowsUsed, held>>

TypeOK == used \in Nat /\ rowsUsed \in Nat /\ held \subseteq Places

Init == used = 0 /\ rowsUsed = 0 /\ held = {}

(* A look at the counters finds both below their limits.                   *)
Grant(p) ==
    /\ p \notin held
    /\ used < CallLimit
    /\ rowsUsed < RowLimit
    /\ held' = held \cup {p}
    /\ UNCHANGED <<used, rowsUsed>>

(* A call that succeeded is counted, with its rows.                        *)
Charge(p) ==
    /\ p \in held
    /\ held' = held \ {p}
    /\ used' = used + 1
    /\ \E n \in 0..RowsAtOnce : rowsUsed' = rowsUsed + n

(* Calls end without being counted, several at once when a process ends.   *)
GiveUp(P) == held' = held \ P /\ UNCHANGED <<used, rowsUsed>>

(* The counters are lost, and with them perhaps the calls under way.       *)
Forget(P) == held' = held \ P /\ used' = 0 /\ rowsUsed' = 0

Next ==
    \/ \E p \in Places : Grant(p) \/ Charge(p)
    \/ \E P \in SUBSET held : GiveUp(P) \/ Forget(P)

Spec == Init /\ [][Next]_vars

(* The overshoot of a soft limit is at most the number of places: those    *)
(* granted below the limit and not yet charged (session.py 65-97).         *)
CallBound == used + Cardinality(held) < CallLimit + Cardinality(Places)

(* The same for rows, where each place may bring RowsAtOnce of them        *)
(* (session.py 65-97).                                                     *)
RowBound ==
    rowsUsed + RowsAtOnce * Cardinality(held) < RowLimit + RowsAtOnce * Cardinality(Places)
================================================================================
