------------------------------ MODULE Learning ------------------------------
(***************************************************************************)
(* Learning mode: a proxy in audit mode decides, logs and forwards         *)
(* (proxy_app.py); `apg policy suggest` mines its log for denials and      *)
(* proposes entries (core/learning.py, cli.py); the operator merges them   *)
(* into policy.json, which the proxy reads when it starts again.           *)
(*                                                                         *)
(* The log is a set of events: neither their order nor their number        *)
(* matters to a suggestion.                                                *)
(***************************************************************************)
EXTENDS PolicyEngine, FiniteSets

CONSTANTS Traffic,       \* the calls that agents make
          StartPolicies, \* the policies an operator may begin with
          MaxEvents      \* bound: different events in the log

ASSUME LearningAssumption ==
    /\ Traffic \subseteq Calls
    /\ StartPolicies \subseteq Policies
    /\ MaxEvents \in Nat

VARIABLES file,     \* the policy in policy.json
          policy,   \* the frozen policy of the running proxy
          log,      \* the audit file
          basis,    \* the denials that the last suggestion was made from
          snippet,  \* what it proposes: method -> entry
          learned   \* history: denials that were merged, or needed no entry

vars == <<file, policy, log, basis, snippet, learned>>

(* The fields an entry may have besides allow.                             *)
Fields == {"operations", "tables", "destination_whitelist"}

(* An event, as far as suggest_entries reads it.                           *)
Events ==
    [outcome : {"ALLOW", "DENY"}, method : Methods,
     op : AtMostOne(Ops), table : AtMostOne(Tables),
     destination : {"none", "url", "relative", "bare", "opaque"}, host : Hosts]

(* attempt_summary: only what is text is logged.                           *)
EventOf(c, outcome) ==
    [outcome |-> outcome, method |-> c.method,
     op |-> c.op, table |-> c.table,
     destination |-> IF c.destination = "not_text" THEN "none" ELSE c.destination,
     host |-> c.host]

(* An authentication failure is logged with its method and no summary, and *)
(* mined with the others, though learning.py:89 has it without a method.   *)
EventOfStranger(c) ==
    [outcome |-> "DENY", method |-> c.method,
     op |-> {}, table |-> {}, destination |-> "none", host |-> c.host]
-----------------------------------------------------------------------------
(* suggest_entries.                                                        *)

(* _normalize_destination: what has neither a scheme nor the form of a     *)
(* host name is dropped.                                                   *)
Origins(e) ==
    IF e.destination \in {"url", "bare"} THEN {[wildcard |-> FALSE, name |-> e.host]} ELSE {}

(* [variant] every event is mined.                                         *)
DenialsAndMore(events) == events

Denials(events) == {e \in events : e.outcome = "DENY"}

(* What the events observed of one method, field by field.                 *)
Observed(events, m) ==
    LET E == {e \in events : e.method = m}
    IN  [operations            |-> UNION {e.op : e \in E},
         tables                |-> UNION {e.table : e \in E},
         destination_whitelist |-> UNION {Origins(e) : e \in E}]

(* [variant] whatever was observed is proposed, new or not.                *)
ProposedAgain(events, doc, m, f) ==
    LET seen    == Observed(events, m)[f]
        current == IF doc[m].allow THEN doc[m][f] ELSE {}
    IN  IF seen = {} THEN {} ELSE current \cup seen

(* [variant] the new value is what was observed, without the current one.  *)
ProposedAlone(events, doc, m, f) ==
    LET seen    == Observed(events, m)[f]
        current == IF doc[m].allow THEN doc[m][f] ELSE {}
    IN  IF seen \subseteq current THEN {} ELSE seen

(* The new value of a field of an entry; {} leaves the field out.  For a   *)
(* tool that is not allowed it is what was observed, for one that is, the  *)
(* union with the current value, if that is more.                          *)
Proposed(events, doc, m, f) ==
    LET seen    == Observed(events, m)[f]
        current == IF doc[m].allow THEN doc[m][f] ELSE {}
    IN  IF seen \subseteq current THEN {} ELSE current \cup seen

Suggested(events, doc) ==
    {m \in {e.method : e \in events} :
        ~doc[m].allow \/ \E f \in Fields : Proposed(events, doc, m, f) # {}}

Suggestion(events, doc) ==
    [m \in Suggested(events, doc) |-> [f \in Fields |-> Proposed(events, doc, m, f)]]

New(value, old) == IF value = {} THEN old ELSE value

(* [variant] a tool that is disabled stays so.                             *)
MergedWithoutAllow(t, entry) ==
    [t EXCEPT !.operations = New(entry["operations"], @),
              !.tables = New(entry["tables"], @),
              !.destination_whitelist = New(entry["destination_whitelist"], @)]

(* Merging an entry into a ToolConfig: its fields replace the old ones; a  *)
(* delta has no allow and needs none.                                      *)
Merged(t, entry) ==
    [t EXCEPT !.allow = TRUE,
              !.operations = New(entry["operations"], @),
              !.tables = New(entry["tables"], @),
              !.destination_whitelist = New(entry["destination_whitelist"], @)]
-----------------------------------------------------------------------------
Init ==
    /\ file \in StartPolicies
    /\ policy = file
    /\ log = {}
    /\ basis = {}
    /\ snippet = Suggestion({}, file)
    /\ learned = {}

(* The sink appends.                                                       *)
Write(event) ==
    /\ Cardinality(log) < MaxEvents
    /\ log' = log \cup {event}

(* A call of an agent within its scope: decided, forwarded whatever the    *)
(* decision, logged.                                                       *)
Submit(c) ==
    /\ Write(EventOf(c, IF EvaluateCall(policy, c) THEN "ALLOW" ELSE "DENY"))
    /\ UNCHANGED <<file, policy, basis, snippet, learned>>

(* A call of an agent whose scope does not contain the tool.               *)
OutOfScope(c) ==
    /\ Write(EventOf(c, "DENY"))
    /\ UNCHANGED <<file, policy, basis, snippet, learned>>

Unauthenticated(c) ==
    /\ Write(EventOfStranger(c))
    /\ UNCHANGED <<file, policy, basis, snippet, learned>>

(* apg policy suggest: from the log and the file.                          *)
Suggest ==
    /\ log # {}
    /\ basis' = Denials(log)
    /\ snippet' = Suggestion(Denials(log), file)
    /\ learned' = learned \cup {e \in Denials(log) : e.method \notin Suggested(Denials(log), file)}
    /\ UNCHANGED <<file, policy, log>>

(* The operator takes over the entry of one tool.                          *)
Merge(m) ==
    /\ m \in DOMAIN snippet
    /\ file' = [file EXCEPT ![m] = Merged(file[m], snippet[m])]
    /\ learned' = learned \cup {e \in basis : e.method = m}
    /\ UNCHANGED <<policy, log, basis, snippet>>

Restart ==
    /\ policy' = file
    /\ UNCHANGED <<file, log, basis, snippet, learned>>

Next ==
    \/ \E c \in Traffic : Submit(c) \/ OutOfScope(c) \/ Unauthenticated(c)
    \/ Suggest
    \/ \E m \in Methods : Merge(m)
    \/ Restart

Spec == Init /\ [][Next]_vars
-----------------------------------------------------------------------------
(* The types of the variables; what was learned is behind the snippet, and *)
(* that is in the log.                                                     *)
TypeOK ==
    /\ file \in Policies
    /\ policy \in Policies
    /\ log \subseteq Events
    /\ basis \subseteq Denials(log)
    /\ learned \subseteq basis
    /\ DOMAIN snippet \subseteq Methods
    /\ \A m \in DOMAIN snippet :
          /\ DOMAIN snippet[m] = Fields
          /\ snippet[m]["operations"] \subseteq Ops
          /\ snippet[m]["tables"] \subseteq Tables
          /\ snippet[m]["destination_whitelist"] \subseteq Entries

(* What no suggestion relaxes: SQL, constraints, keywords, the denied      *)
(* destinations and those whose origin cannot be named.                    *)
RefusedRegardless(t, c) ==
    \/ ~SqlPasses(t, c)
    \/ ~WithinLimit(t, c)
    \/ ~NoDeniedWord(t, c)
    \/ c.destination \in {"relative", "bare", "opaque"}
    \/ c.destination = "url" /\ Denied(t, c)

(* Once the entries proposed for a denied call are merged, or none was     *)
(* proposed, the policy allows it from then on, unless it is refused for a *)
(* reason that suggestions leave alone.  (learning.py: "would have allowed *)
(* the denied calls it saw".)                                              *)
SuggestionsSuffice ==
    \A c \in Traffic :
        EventOf(c, "DENY") \in learned /\ ~RefusedRegardless(file[c.method], c)
            => EvaluateCall(file, c)

(* What was learned is not proposed again: as long as no other denial of a *)
(* tool is logged, its suggestion is empty.                                *)
Converges ==
    \A m \in Suggested(Denials(log), file) :
        \E e \in Denials(log) : e.method = m /\ e \notin learned

(* A logged denial of the tool with that property.                         *)
AskedFor(m, P(_)) == \E e \in log : e.outcome = "DENY" /\ e.method = m /\ P(e)

(* A merge adds to a list nothing but what a logged denial of the same     *)
(* tool asked for, however old the snippet: "only the minimal new          *)
(* permissions the observed traffic needed". (learning.py 68-134)          *)
NothingInvented ==
    [][\A m \in Methods :
          /\ \A o \in file'[m].operations \ file[m].operations :
                AskedFor(m, LAMBDA e : o \in e.op)
          /\ \A r \in file'[m].tables \ file[m].tables :
                AskedFor(m, LAMBDA e : r \in e.table)
          /\ \A d \in file'[m].destination_whitelist \ file[m].destination_whitelist :
                ~d.wildcard /\ AskedFor(m, LAMBDA e : e.host = d.name)]_vars

(* The lists of a tool that restrict nothing go on to restrict nothing.    *)
ListsStayEmpty(m) == \A f \in {"operations", "tables"} : file[m][f] = {} => file'[m][f] = {}

(* What a merge keeps: every call that the file allowed, if the lists of   *)
(* its tool that were empty, and so no restriction, stay empty.  Only the  *)
(* first entry of such a list revokes, however old the snippet.            *)
AdditiveWhereListed ==
    [][\A c \in Traffic :
          EvaluateCall(file, c) /\ ListsStayEmpty(c.method) => EvaluateCall(file', c)]_vars

(* There are two places that turn a method and its params into a decision, *)
(* evaluate_call and the request path of the gateway; they decide alike on *)
(* every call whose destination, if any, is text. (enforcement.py 36-67)   *)
SurfacesAgree ==
    \A c \in Traffic :
        c.destination # "not_text" => (EvaluateCall(policy, c) <=> GatewayPasses(policy, c))
-----------------------------------------------------------------------------
(* A statement of the documents that the code does not keep.               *)

(* "Suggestions are deterministic and additive": what the policy allowed   *)
(* it still allows after a merge.                                          *)
NothingRevoked ==
    [][\A c \in Traffic : EvaluateCall(file, c) => EvaluateCall(file', c)]_vars
=============================================================================
