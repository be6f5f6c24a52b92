--------------------------- MODULE FilteredChannel ---------------------------
(***************************************************************************)
(* What the stdio wrapper promises: a channel that takes the lines of its  *)
(* sender one after the other and passes each on or refuses it, according  *)
(* to its kind.  It may break, and then takes nothing any more.            *)
(***************************************************************************)
EXTENDS Integers, Sequences

CONSTANTS Kinds,      \* kinds of lines
          Passable    \* the kinds that may pass

VARIABLES sent,     \* the kinds of the lines sent; a line is its position
          taken,    \* how many lines were taken
          passed,   \* the lines passed on, in order
          refused,  \* the lines refused, in order
          broken    \* it takes no more lines

vars == <<sent, taken, passed, refused, broken>>

Init ==
    /\ sent = <<>>
    /\ taken = 0
    /\ passed = <<>>
    /\ refused = <<>>
    /\ broken = FALSE

Send(k) ==
    /\ sent' = Append(sent, k)
    /\ UNCHANGED <<taken, passed, refused, broken>>

Take ==
    /\ ~broken
    /\ taken < Len(sent)
    /\ taken' = taken + 1
    /\ UNCHANGED sent

Pass ==
    /\ Take
    /\ sent[taken + 1] \in Passable
    /\ passed' = Append(passed, taken + 1)
    /\ broken' \in BOOLEAN
    /\ UNCHANGED refused

Refuse ==
    /\ Take
    /\ sent[taken + 1] \notin Passable
    /\ refused' = Append(refused, taken + 1)
    /\ UNCHANGED <<passed, broken>>

(* It breaks on a line, which is lost, or between lines.                   *)
Break ==
    /\ \/ Take
       \/ UNCHANGED <<sent, taken>>
    /\ broken' = TRUE
    /\ UNCHANGED <<passed, refused>>

Next == (\E k \in Kinds : Send(k)) \/ Pass \/ Refuse \/ Break

Spec == Init /\ [][Next]_vars
-----------------------------------------------------------------------------
(* Every line that was taken is accounted for exactly once: passed on if   *)
(* it may pass, refused if not, both in the order of sending; only the     *)
(* line it broke on is missing.                                            *)
Lines(seq) == {seq[i] : i \in DOMAIN seq}
Increasing(seq) == \A i, j \in DOMAIN seq : i < j => seq[i] < seq[j]

Accounted ==
    /\ Increasing(passed) /\ Increasing(refused)
    /\ \A n \in Lines(passed) : n \in 1..taken /\ sent[n] \in Passable
    /\ \A n \in Lines(refused) : n \in 1..taken /\ sent[n] \notin Passable
    /\ \A n \in 1..taken :
          \/ n \in Lines(passed) \cup Lines(refused)
          \/ broken /\ n = taken
=============================================================================
