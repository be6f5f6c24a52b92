---------------------------- MODULE PipelineGates ----------------------------
(***************************************************************************)
(* The stages of the request path that come before the quota check: the    *)
(* JSON parser of handle_rpc (server/app.py) and the refusing stages of    *)
(* EnforcementPipeline._run (core/pipeline.py), in their fixed order, over *)
(* requests abstracted to what those stages look at.                       *)
(*                                                                         *)
(* A stage is a predicate Refuses(g, r); the request path runs Gates from  *)
(* the first to the last and answers at the first refusal.  How the policy *)
(* verdict of a request comes about is the subject of PolicyEngine: here a *)
(* request carries it as data.                                             *)
(*                                                                         *)
(* A definition marked [variant], here and in the other modules, is no     *)
(* part of the model: it is the next definition with a plausible mistake,  *)
(* there to show that the runs would notice it.                            *)
(***************************************************************************)
EXTENDS Integers, Sequences

CONSTANTS Callers,  \* caller ids: the token hashes of caller_id_from_token
          Mode,     \* "enforce" or "audit": ModeController._mode, fixed at startup
          Inputs    \* the requests clients send

(* What a request is to the request path.                                  *)
(*   shape     the body; a notification is an object without an id         *)
(*   token     the bearer token: the expected one, another, or none        *)
(*   envelope  jsonrpc and method are there, and the version is 2.0        *)
(*   params    params is an object (or absent)                             *)
(*   policy    what evaluate does: allow, deny, or raise (a method that is *)
(*             a list cannot be looked up in the tools map)                *)
(*   egress    there is no destination, or the tool's lists permit it, or  *)
(*             they refuse it                                              *)
(*   role      the tool has an aws_role and a session_policy               *)
(*   target    the tool has a target_url of its own                        *)
Requests ==
    [caller   : Callers,
     shape    : {"object", "parse", "batch", "not_object", "notification"},
     token    : {"expected", "other", "none"},
     envelope : {"valid", "incomplete", "version"},
     params   : {"object", "other"},
     policy   : {"allow", "deny", "raise"},
     egress   : {"none", "permitted", "refused"},
     role     : BOOLEAN,
     target   : BOOLEAN]

ASSUME GatesAssumption ==
    /\ Mode \in {"enforce", "audit"}
    /\ Inputs \subseteq Requests
    /\ Inputs # {}

(* The body is parsed, its shape checked, the caller authenticated, the    *)
(* envelope and params validated, and only then policy and egress asked.   *)
Gates == <<"parse", "batch", "not_object", "notification", "authentication",
           "schema", "params", "evaluator", "policy", "egress">>

(* [variant] any bearer token will do.                                     *)
AuthenticatedByPresence(r) == r.token # "none"

Authenticated(r) == r.token = "expected"

ValidEnvelope(r) == r.envelope = "valid"

ShouldBlockPolicyDenial == Mode = "enforce"

(* A denied request comes back from evaluate without a tool_config, so the *)
(* egress stage is skipped for it when audit mode lets it continue.        *)
HasToolConfig(r) == r.policy = "allow"

(* [variant] the mode switches egress control off, too.                    *)
EgressRefusesInEnforceMode(r) ==
    Mode = "enforce" /\ r.egress = "refused" /\ HasToolConfig(r)

EgressRefuses(r) == r.egress = "refused" /\ HasToolConfig(r)

Refuses(g, r) ==
    \/ g \in {"parse", "batch", "not_object", "notification"} /\ r.shape = g
    \/ g = "authentication" /\ ~Authenticated(r)
    \/ g = "schema" /\ ~ValidEnvelope(r)
    \/ g = "params" /\ r.params # "object"
    \/ g = "evaluator" /\ r.policy = "raise"
    \/ g = "policy" /\ r.policy = "deny" /\ ShouldBlockPolicyDenial
    \/ g = "egress" /\ EgressRefuses(r)

(* Gates[i] is the stage that answers r, or r gets through to the quota    *)
(* check.                                                                  *)
RefusedAt(i, r) ==
    /\ Refuses(Gates[i], r)
    /\ \A j \in 1..(i - 1) : ~Refuses(Gates[j], r)

Passes(r) == \A i \in DOMAIN Gates : ~Refuses(Gates[i], r)

(* The tool_config the later stages see: {} after a policy denial.         *)
HasRole(r) == HasToolConfig(r) /\ r.role
HasTarget(r) == HasToolConfig(r) /\ r.target
=============================================================================
