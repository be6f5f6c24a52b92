------------------------ MODULE MCEnforcementPipeline ------------------------
(***************************************************************************)
(* Small instances of EnforcementPipeline: slots and workers, and sets of  *)
(* requests that take every gate and every way through the broker and the  *)
(* executor.                                                               *)
(***************************************************************************)
EXTENDS EnforcementPipeline, TLC

CONSTANTS s1, s2, s3, w1, w2, c1

(* Two slots on one worker, or three over two workers.                     *)
OneWorker == (s1 :> w1) @@ (s2 :> w1)
TwoWorkers == (s1 :> w1) @@ (s2 :> w2)
ThreeSlots == (s1 :> w1) @@ (s2 :> w1) @@ (s3 :> w2)

SlotSymmetry == Permutations({s1, s2})

Good(c) ==
    [caller |-> c, shape |-> "object", token |-> "expected", envelope |-> "valid",
     params |-> "object", policy |-> "allow", egress |-> "permitted",
     role |-> TRUE, target |-> TRUE]

Denied(c) == [Good(c) EXCEPT !.policy = "deny"]

(* One request per gate, requests with two faults that must be refused at  *)
(* the earlier gate, and the variants the broker and the executor tell     *)
(* apart.                                                                  *)
AllKinds(c) ==
    {[Good(c) EXCEPT !.shape = x] :
        x \in {"object", "parse", "batch", "not_object", "notification"}}
    \cup {[Good(c) EXCEPT !.token = "other"], [Good(c) EXCEPT !.envelope = "version"],
          [Good(c) EXCEPT !.params = "other"], [Good(c) EXCEPT !.policy = "raise"],
          [Good(c) EXCEPT !.egress = "refused"], Denied(c),
          [Denied(c) EXCEPT !.egress = "refused"], [Denied(c) EXCEPT !.token = "none"],
          [Good(c) EXCEPT !.role = FALSE], [Good(c) EXCEPT !.target = FALSE]}

AllKindsOfOne == AllKinds(c1)
GoodOfOne == {Good(c1)}
GoodAndDenied == {Good(c1), Denied(c1), [Denied(c1) EXCEPT !.egress = "refused"]}
ModeMatters ==
    GoodAndDenied \cup
    {[Good(c1) EXCEPT !.egress = "refused"], [Denied(c1) EXCEPT !.token = "none"]}
=============================================================================
