---------------------------- MODULE PolicyEngine ----------------------------
(***************************************************************************)
(* The decision on a tool call: PolicyEvaluator.evaluate (core/policy.py), *)
(* EgressController.check (core/egress.py), and the two places that put    *)
(* them together: evaluate_call (core/enforcement.py) for the proxies and  *)
(* the command line, and the request path of the gateway with gates of its *)
(* own (PipelineGates).                                                    *)
(*                                                                         *)
(* Parameters a call may leave out are sets of at most one value.  The     *)
(* order of the checks decides which rule is reported and nothing else, so *)
(* a decision is a conjunction here.                                       *)
(***************************************************************************)
EXTENDS Integers, SequencesExt

CONSTANTS Methods,   \* names of tools
          Ops,       \* operations, declared or parsed
          Tables,    \* resources, declared or parsed
          Values,    \* numbers a constrained parameter may have
          Keywords,  \* words a policy may deny
          Hosts,     \* host names: their labels, the top-level domain first
          LinkLocal  \* hosts that are link-local addresses, and the metadata host

ASSUME EngineAssumption ==
    /\ Values \subseteq Int
    /\ LinkLocal \subseteq Hosts

AtMostOne(S) == {{}} \cup {{x} : x \in S}

(* Entries of a destination_whitelist: a host, or *. and a host.           *)
Entries == [wildcard : BOOLEAN, name : Hosts]

(* ToolConfig, as far as decisions go.                                     *)
ToolConfigs ==
    [allow                 : BOOLEAN,
     operations            : SUBSET Ops,
     tables                : SUBSET Tables,
     limit                 : AtMostOne(Values),
     deny_keywords         : SUBSET Keywords,
     destination_whitelist : SUBSET Entries,
     deny_destinations     : SUBSET Hosts,
     sql                   : BOOLEAN]

(* What a policy says of a tool it does not list: the defaults of          *)
(* ToolConfig, which deny as the missing entry does.                       *)
DefaultTool ==
    [allow |-> FALSE, operations |-> {}, tables |-> {}, limit |-> {},
     deny_keywords |-> {}, destination_whitelist |-> {},
     deny_destinations |-> {}, sql |-> FALSE]

Policies == [Methods -> ToolConfigs]

(* A call, as far as decisions go: what it declares, the value of the      *)
(* parameter that may be constrained, if it is a number, the denied words  *)
(* in its text, what the parser makes of its SQL, and its destination: no  *)
(* value, one that is no text, a URL with scheme and host, one that starts *)
(* with //, a bare host name, or other text without a host; and whether    *)
(* the resolver finds the host at a link-local address at this moment.     *)
Calls ==
    [method      : Methods,
     op          : AtMostOne(Ops),
     table       : AtMostOne(Tables),
     value       : AtMostOne(Values),
     words       : SUBSET Keywords,
     sql         : {"none", "unparseable", "parsed"},
     sqlOps      : SUBSET Ops,
     sqlTables   : SUBSET Tables,
     destination : {"none", "not_text", "url", "relative", "bare", "opaque"},
     host        : Hosts,
     resolves    : BOOLEAN]
-----------------------------------------------------------------------------
(* PolicyEvaluator.                                                        *)

(* check_operation, check_resource_scope: an empty list is no restriction. *)
Permits(list, xs) == list = {} \/ xs \subseteq list

SqlPasses(t, c) ==
    t.sql => /\ c.sql # "unparseable"
             /\ c.sql = "parsed" => /\ Permits(t.operations, c.sqlOps)
                                    /\ Permits(t.tables, c.sqlTables)

WithinLimit(t, c) == \A max \in t.limit, v \in c.value : v <= max

NoDeniedWord(t, c) == t.deny_keywords \cap c.words = {}

Evaluate(t, c) ==
    /\ t.allow
    /\ SqlPasses(t, c)
    /\ Permits(t.operations, c.op)
    /\ Permits(t.tables, c.table)
    /\ WithinLimit(t, c)
    /\ NoDeniedWord(t, c)
-----------------------------------------------------------------------------
(* EgressController.                                                       *)

HasHost(c) == c.destination \in {"url", "relative"}

Denied(t, c) == c.host \in LinkLocal \cup t.deny_destinations \/ c.resolves

(* *.example.com matches what is below example.com, not itself.            *)
MatchesWhitelist(host, entry) ==
    IF entry.wildcard THEN IsStrictPrefix(entry.name, host) ELSE host = entry.name

Whitelisted(t, c) == \E entry \in t.destination_whitelist : MatchesWhitelist(c.host, entry)

(* An empty whitelist permits nothing.                                     *)
EgressPermits(t, c) == HasHost(c) /\ ~Denied(t, c) /\ Whitelisted(t, c)
-----------------------------------------------------------------------------
(* The two surfaces.                                                       *)

(* [variant] only a destination with a host is asked about.                *)
EvaluateCallWithHost(policy, c) ==
    /\ Evaluate(policy[c.method], c)
    /\ HasHost(c) => EgressPermits(policy[c.method], c)

(* evaluate_call: _destination ignores a value that is no text.            *)
EvaluateCall(policy, c) ==
    /\ Evaluate(policy[c.method], c)
    /\ c.destination \in {"none", "not_text"} \/ EgressPermits(policy[c.method], c)

(* The same call at the gateway, well-formed and authenticated: the        *)
(* request path asks egress control about any value that is there.         *)
RequestOf(policy, c) ==
    LET t == policy[c.method]
    IN  [caller   |-> "caller",
         shape    |-> "object",
         token    |-> "expected",
         envelope |-> "valid",
         params   |-> "object",
         policy   |-> IF Evaluate(t, c) THEN "allow" ELSE "deny",
         egress   |-> IF c.destination = "none" THEN "none"
                      ELSE IF EgressPermits(t, c) THEN "permitted" ELSE "refused",
         role     |-> FALSE,
         target   |-> TRUE]

Path == INSTANCE PipelineGates WITH Callers <- {"caller"}, Mode <- "enforce",
                                    Inputs <- {RequestOf(p, c) : p \in Policies, c \in Calls}

GatewayPasses(policy, c) == Path!Passes(RequestOf(policy, c))
=============================================================================
