------------------------------ MODULE AuditTrail ------------------------------
(***************************************************************************)
(* What every audit sink promises (AuditSink, core/audit_sink.py: "a       *)
(* durable, append-only destination"), as far as the sinks keep it: events *)
(* are offered, and some of them are kept, each at most once, and, where   *)
(* the sink is local, in the order in which they were offered.  None has   *)
(* to be.  What is kept stays, but for the last event if it is not firm:   *)
(* its write has failed, it can be read nevertheless, and it is withdrawn  *)
(* before another is kept.                                                 *)
(***************************************************************************)
EXTENDS Integers, Sequences

CONSTANTS Events    \* events

VARIABLES ordered,  \* it keeps them in the order of offering; fixed at the start
          offered,  \* every event written, in order; an event is its position
          failed,   \* those whose write, commit or delivery failed
          stored,   \* those that are kept, in the order they can be read
          firm      \* how many of them are there for good

vars == <<ordered, offered, failed, stored, firm>>

Init ==
    /\ ordered \in BOOLEAN
    /\ offered = <<>> /\ failed = {}
    /\ stored = <<>> /\ firm = 0

Once(seq) == \A i, j \in DOMAIN seq : i # j => seq[i] # seq[j]
Increasing(seq) == \A i, j \in DOMAIN seq : i < j => seq[i] < seq[j]

(* Each event that is kept was offered, and is kept once; only the last    *)
(* can be less than firm, and only if its write failed.                    *)
Sound ==
    /\ \A i \in DOMAIN stored : stored[i] \in 1..Len(offered)
    /\ Once(stored)
    /\ ordered => Increasing(stored)
    /\ firm \in {Len(stored), Len(stored) - 1}
    /\ \A i \in DOMAIN stored : i > firm => stored[i] \in failed

Offer(e) == offered' = Append(offered, e)

(* More is kept, after what was, all of which was firm.                    *)
Keep ==
    /\ firm = Len(stored)
    /\ firm <= firm'
    /\ Len(stored) <= Len(stored')
    /\ \A i \in DOMAIN stored : stored'[i] = stored[i]
    /\ Sound'

(* The event that is not firm is withdrawn, and nothing else.              *)
Withdraw ==
    /\ firm < Len(stored)
    /\ stored' = SubSeq(stored, 1, firm)
    /\ firm' = firm

Next ==
    /\ (\E e \in Events : Offer(e)) \/ UNCHANGED offered
    /\ failed \subseteq failed'
    /\ UNCHANGED ordered
    /\ Keep \/ Withdraw \/ UNCHANGED <<stored, firm>>

Spec == Init /\ [][Next]_vars
=============================================================================
