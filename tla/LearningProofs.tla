--------------------------- MODULE LearningProofs ---------------------------
(***************************************************************************)
(* Theorems on the decision on a call and on learning mode, for any tools, *)
(* policies and traffic.                                                   *)
(***************************************************************************)
EXTENDS Learning, TLAPS

(* A decision of the gateway on a well-formed call is a decision of the    *)
(* policy and of egress control.                                           *)
LEMMA GatewayDecision ==
    ASSUME NEW doc, NEW c
    PROVE  GatewayPasses(doc, c) <=>
              /\ Evaluate(doc[c.method], c)
              /\ c.destination = "none" \/ EgressPermits(doc[c.method], c)
<1> DEFINE r == RequestOf(doc, c)
<1>1. /\ r.shape = "object" /\ r.token = "expected"
      /\ r.envelope = "valid" /\ r.params = "object"
  BY DEF RequestOf
<1>2. r.policy = "allow" <=> Evaluate(doc[c.method], c)
  BY DEF RequestOf
<1>3. r.policy \in {"allow", "deny"}
  BY DEF RequestOf
<1>4. r.egress = "refused" <=> ~(c.destination = "none" \/ EgressPermits(doc[c.method], c))
  BY DEF RequestOf
<1> HIDE DEF r
<1>5. Path!Passes(r) <=> r.policy = "allow" /\ r.egress # "refused"
  BY <1>1, <1>3 DEF Path!Passes, Path!Gates, Path!Refuses, Path!Authenticated,
     Path!ValidEnvelope, Path!ShouldBlockPolicyDenial, Path!EgressRefuses, Path!HasToolConfig
<1> QED
  BY <1>2, <1>4, <1>5 DEF r, GatewayPasses

(* The gateway and the proxies decide alike on a destination that is text. *)
THEOREM GatewayAgrees == Spec => []SurfacesAgree
<1>1. SurfacesAgree
  BY GatewayDecision DEF SurfacesAgree, EvaluateCall
<1> QED
  BY <1>1, PTL
-----------------------------------------------------------------------------
(* The type of an entry, and what an event asks of a field.                *)
EntryOK(entry) ==
    /\ DOMAIN entry = Fields
    /\ entry["operations"] \subseteq Ops
    /\ entry["tables"] \subseteq Tables
    /\ entry["destination_whitelist"] \subseteq Entries

Wanted(e) ==
    [operations |-> e.op, tables |-> e.table, destination_whitelist |-> Origins(e)]

LEMMA ObservedIsWanted ==
    ASSUME NEW E, NEW m, NEW f \in Fields
    PROVE  Observed(E, m)[f] = UNION {Wanted(e)[f] : e \in {d \in E : d.method = m}}
<1>1. CASE f = "operations"
  BY <1>1 DEF Observed, Wanted
<1>2. CASE f = "tables"
  BY <1>2 DEF Observed, Wanted
<1>3. CASE f = "destination_whitelist"
  BY <1>3 DEF Observed, Wanted
<1> QED
  BY <1>1, <1>2, <1>3 DEF Fields

LEMMA ObservedTyped ==
    ASSUME NEW E \in SUBSET Events, NEW m
    PROVE  /\ Observed(E, m)["operations"] \subseteq Ops
           /\ Observed(E, m)["tables"] \subseteq Tables
           /\ Observed(E, m)["destination_whitelist"] \subseteq Entries
<1>1. ASSUME NEW e \in E
      PROVE  /\ e.op \subseteq Ops /\ e.table \subseteq Tables
             /\ Origins(e) \subseteq Entries
  <2>1. e \in Events
    OBVIOUS
  <2>2. e.op \in AtMostOne(Ops) /\ e.table \in AtMostOne(Tables) /\ e.host \in Hosts
    BY <2>1 DEF Events
  <2>3. Origins(e) \subseteq Entries
    <3>1. [wildcard |-> FALSE, name |-> e.host] \in Entries
      BY <2>2 DEF Entries
    <3> QED
      BY <3>1 DEF Origins
  <2> QED
    BY <2>2, <2>3 DEF AtMostOne
<1> QED
  BY <1>1 DEF Observed

(* An entry proposed for a tool covers what was observed of it: a field    *)
(* that is left out holds it already.                                      *)
LEMMA ProposalCovers ==
    ASSUME NEW E, NEW doc, NEW m, NEW f
    PROVE  /\ Proposed(E, doc, m, f) = {} => Observed(E, m)[f] \subseteq doc[m][f]
           /\ Proposed(E, doc, m, f) # {} => Observed(E, m)[f] \subseteq Proposed(E, doc, m, f)
           /\ Proposed(E, doc, m, f) \subseteq doc[m][f] \cup Observed(E, m)[f]
BY DEF Proposed

LEMMA SuggestionTyped ==
    ASSUME NEW E \in SUBSET Events, NEW doc \in Policies
    PROVE  /\ DOMAIN Suggestion(E, doc) \subseteq Methods
           /\ \A m \in DOMAIN Suggestion(E, doc) : EntryOK(Suggestion(E, doc)[m])
<1>1. Suggested(E, doc) \subseteq Methods
  BY DEF Suggested, Events
<1>2. ASSUME NEW m \in Methods
      PROVE  /\ Proposed(E, doc, m, "operations") \subseteq Ops
             /\ Proposed(E, doc, m, "tables") \subseteq Tables
             /\ Proposed(E, doc, m, "destination_whitelist") \subseteq Entries
  <2>1. /\ doc[m].operations \subseteq Ops /\ doc[m].tables \subseteq Tables
        /\ doc[m].destination_whitelist \subseteq Entries
    BY DEF Policies, ToolConfigs
  <2> QED
    BY <2>1, ProposalCovers, ObservedTyped
<1> QED
  BY <1>1, <1>2 DEF Suggestion, EntryOK, Fields

LEMMA MergedTyped ==
    ASSUME NEW t \in ToolConfigs, NEW entry, EntryOK(entry)
    PROVE  /\ Merged(t, entry) \in ToolConfigs
           /\ Merged(t, entry).allow
           /\ \A f \in Fields : Merged(t, entry)[f] = New(entry[f], t[f])
<1>1. Merged(t, entry) \in ToolConfigs
  BY DEF Merged, ToolConfigs, EntryOK, New
<1>2. Merged(t, entry).allow
  BY DEF Merged, ToolConfigs
<1>3. /\ Merged(t, entry)["operations"] = New(entry["operations"], t["operations"])
      /\ Merged(t, entry)["tables"] = New(entry["tables"], t["tables"])
      /\ Merged(t, entry)["destination_whitelist"] =
             New(entry["destination_whitelist"], t["destination_whitelist"])
  BY DEF Merged, ToolConfigs
<1> QED
  BY <1>1, <1>2, <1>3 DEF Fields
-----------------------------------------------------------------------------
LEMMA EventsTyped ==
    ASSUME NEW c \in Calls, NEW outcome \in {"ALLOW", "DENY"}
    PROVE  EventOf(c, outcome) \in Events /\ EventOfStranger(c) \in Events
<1>1. {} \in AtMostOne(Ops) /\ {} \in AtMostOne(Tables)
  BY DEF AtMostOne
<1> QED
  BY <1>1 DEF EventOf, EventOfStranger, Events, Calls

(* What a step of the traffic does.                                        *)
LEMMA TrafficStep ==
    ASSUME TypeOK, LearningAssumption, NEW c \in Traffic,
           Submit(c) \/ OutOfScope(c) \/ Unauthenticated(c)
    PROVE  /\ log \subseteq log' /\ log' \subseteq Events
           /\ Denials(log) \subseteq Denials(log')
           /\ UNCHANGED <<file, policy, basis, snippet, learned>>
<1>1. c \in Calls
  BY DEF LearningAssumption
<1> QED
  BY <1>1, EventsTyped DEF TypeOK, Submit, OutOfScope, Unauthenticated, Write, Denials

(* TypeOK.                                                                 *)
THEOREM TypeCorrect == ASSUME LearningAssumption PROVE Spec => []TypeOK
<1>1. Init => TypeOK
  <2> SUFFICES ASSUME Init PROVE TypeOK
    OBVIOUS
  <2>1. file \in Policies
    BY DEF Init, LearningAssumption
  <2> QED
    BY <2>1, SuggestionTyped DEF Init, TypeOK, EntryOK
<1>2. TypeOK /\ [Next]_vars => TypeOK'
  <2> SUFFICES ASSUME TypeOK, [Next]_vars PROVE TypeOK'
    OBVIOUS
  <2>1. CASE \E c \in Traffic : Submit(c) \/ OutOfScope(c) \/ Unauthenticated(c)
    BY <2>1, TrafficStep DEF TypeOK
  <2>2. CASE Suggest
    <3>1. Denials(log) \subseteq log /\ Denials(log) \in SUBSET Events
      BY DEF TypeOK, Denials
    <3>2. learned' \subseteq basis'
      <4>1. learned \subseteq Denials(log)
        BY DEF TypeOK
      <4> QED
        BY <2>2, <4>1 DEF Suggest
    <3> QED
      BY <2>2, <3>1, <3>2, SuggestionTyped DEF Suggest, TypeOK, EntryOK
  <2>3. ASSUME NEW m \in Methods, Merge(m) PROVE TypeOK'
    <3>1. EntryOK(snippet[m]) /\ file[m] \in ToolConfigs
      BY <2>3 DEF Merge, TypeOK, EntryOK, Policies
    <3>2. file' \in Policies
      BY <2>3, <3>1, MergedTyped DEF Merge, TypeOK, Policies
    <3> QED
      BY <2>3, <3>2 DEF Merge, TypeOK
  <2>4. CASE Restart
    BY <2>4 DEF Restart, TypeOK
  <2>5. CASE UNCHANGED vars
    BY <2>5 DEF vars, TypeOK
  <2> QED
    BY <2>1, <2>2, <2>3, <2>4, <2>5 DEF Next
<1> QED
  BY <1>1, <1>2, PTL DEF Spec
-----------------------------------------------------------------------------
(* The inductive invariant behind the two properties below.  What was      *)
(* learned is granted by the file; and for every entry that may still be   *)
(* merged, the field has what the events behind it asked for, or the file  *)
(* has it already.  The second part is what makes merging a snippet safe   *)
(* after others were merged.                                               *)
Granted(doc, e) ==
    /\ doc[e.method].allow
    /\ \A f \in Fields : Wanted(e)[f] \subseteq doc[e.method][f]

Learnt == \A e \in learned : Granted(file, e)

Pending ==
    \A m \in DOMAIN snippet, f \in Fields, e \in basis :
        e.method = m => Wanted(e)[f] \subseteq New(snippet[m][f], file[m][f])

IInv == TypeOK /\ Learnt /\ Pending

LEMMA NothingProposed ==
    ASSUME NEW E, NEW doc, NEW e \in E, e.method \notin Suggested(E, doc)
    PROVE  Granted(doc, e)
<1>1. doc[e.method].allow /\ \A f \in Fields : Proposed(E, doc, e.method, f) = {}
  BY DEF Suggested
<1>2. ASSUME NEW f \in Fields PROVE Wanted(e)[f] \subseteq doc[e.method][f]
  <2>1. Wanted(e)[f] \subseteq Observed(E, e.method)[f]
    BY ObservedIsWanted
  <2> QED
    BY <1>1, <2>1, ProposalCovers
<1> QED
  BY <1>1, <1>2 DEF Granted

LEMMA SuggestStep == ASSUME IInv, Suggest PROVE Learnt' /\ Pending'
<1> DEFINE E == Denials(log)
<1>1. Learnt'
  BY NothingProposed DEF Suggest, IInv, Learnt
<1>2. ASSUME NEW m \in DOMAIN snippet', NEW f \in Fields, NEW e \in basis', e.method = m
      PROVE  Wanted(e)[f] \subseteq New(snippet'[m][f], file'[m][f])
  <2>1. snippet'[m][f] = Proposed(E, file, m, f) /\ e \in E /\ file' = file
    BY DEF Suggest, Suggestion
  <2>2. Wanted(e)[f] \subseteq Observed(E, m)[f]
    BY <1>2, <2>1, ObservedIsWanted
  <2> HIDE DEF E
  <2> QED
    BY <2>1, <2>2, ProposalCovers DEF New
<1> QED
  BY <1>1, <1>2 DEF Pending

LEMMA MergeStep ==
    ASSUME IInv, NEW m \in Methods, Merge(m)
    PROVE  /\ \A n \in Methods : n # m => file'[n] = file[n]
           /\ file'[m].allow
           /\ \A f \in Fields : file'[m][f] = New(snippet[m][f], file[m][f])
<1>1. EntryOK(snippet[m]) /\ file[m] \in ToolConfigs /\ file \in Policies
  BY DEF IInv, Merge, TypeOK, EntryOK, Policies
<1>2. file' = [file EXCEPT ![m] = Merged(file[m], snippet[m])]
  BY DEF Merge
<1>3. file'[m] = Merged(file[m], snippet[m]) /\ \A n \in Methods : n # m => file'[n] = file[n]
  BY <1>1, <1>2 DEF Policies
<1> QED
  BY <1>1, <1>3, MergedTyped

LEMMA MergeKeeps == ASSUME IInv, NEW m \in Methods, Merge(m) PROVE Learnt' /\ Pending'
<1>1. /\ m \in DOMAIN snippet /\ UNCHANGED <<basis, snippet>>
      /\ learned' = learned \cup {e \in basis : e.method = m}
  BY DEF Merge
<1>2. learned \subseteq basis /\ \A e \in basis : e.method \in Methods
  BY DEF IInv, TypeOK, Denials, Events
<1>3. ASSUME NEW e \in learned' PROVE Granted(file', e)
  <2>1. CASE e.method = m
    <3>1. e \in basis
      BY <1>1, <1>2
    <3>2. \A f \in Fields : Wanted(e)[f] \subseteq New(snippet[m][f], file[m][f])
      BY <1>1, <2>1, <3>1 DEF IInv, Pending
    <3> QED
      BY <2>1, <3>2, MergeStep DEF Granted
  <2>2. CASE e.method # m
    <3>1. e \in learned /\ e.method \in Methods
      BY <1>1, <1>2, <2>2
    <3>2. Granted(file, e)
      BY <3>1 DEF IInv, Learnt
    <3> QED
      BY <2>2, <3>1, <3>2, MergeStep DEF Granted
  <2> QED
    BY <2>1, <2>2
<1>4. ASSUME NEW n \in DOMAIN snippet', NEW f \in Fields, NEW e \in basis', e.method = n
      PROVE  Wanted(e)[f] \subseteq New(snippet'[n][f], file'[n][f])
  <2>1. Wanted(e)[f] \subseteq New(snippet[n][f], file[n][f])
    BY <1>1, <1>4 DEF IInv, Pending
  <2>2. CASE n = m
    <3>1. file'[m][f] = New(snippet[m][f], file[m][f])
      BY MergeStep
    <3> QED
      BY <1>1, <2>1, <2>2, <3>1 DEF New
  <2>3. CASE n # m
    <3>1. file'[n] = file[n]
      BY <1>1, <1>2, <1>4, <2>3, MergeStep
    <3> QED
      BY <1>1, <2>1, <3>1
  <2> QED
    BY <2>2, <2>3
<1> QED
  BY <1>3, <1>4 DEF Learnt, Pending

LEMMA Invariance == ASSUME LearningAssumption PROVE Spec => []IInv
<1>1. Init => Learnt /\ Pending
  BY DEF Init, Learnt, Pending
<1>2. IInv /\ [Next]_vars => (Learnt /\ Pending)'
  <2> SUFFICES ASSUME IInv, [Next]_vars PROVE Learnt' /\ Pending'
    OBVIOUS
  <2>1. CASE \E c \in Traffic : Submit(c) \/ OutOfScope(c) \/ Unauthenticated(c)
    <3>1. UNCHANGED <<file, policy, basis, snippet, learned>>
      BY <2>1 DEF Submit, OutOfScope, Unauthenticated
    <3> QED
      BY <3>1 DEF IInv, Learnt, Pending
  <2>2. CASE Suggest
    BY <2>2, SuggestStep
  <2>3. CASE \E m \in Methods : Merge(m)
    BY <2>3, MergeKeeps
  <2>4. CASE Restart \/ UNCHANGED vars
    BY <2>4 DEF Restart, vars, IInv, Learnt, Pending
  <2> QED
    BY <2>1, <2>2, <2>3, <2>4 DEF Next
<1> QED
  BY <1>1, <1>2, TypeCorrect, PTL DEF Spec, IInv
-----------------------------------------------------------------------------
LEMMA HostMatchesItself ==
    ASSUME NEW host PROVE MatchesWhitelist(host, [wildcard |-> FALSE, name |-> host])
BY DEF MatchesWhitelist

(* A denied call that is granted is allowed, unless it is refused for a    *)
(* reason that suggestions leave alone.                                    *)
LEMMA GrantedIsAllowed ==
    ASSUME NEW doc, NEW c \in Calls, Granted(doc, EventOf(c, "DENY")),
           ~RefusedRegardless(doc[c.method], c)
    PROVE  EvaluateCall(doc, c)
<1> DEFINE e == EventOf(c, "DENY")
           t == doc[c.method]
<1>1. /\ e.method = c.method /\ e.op = c.op /\ e.table = c.table /\ e.host = c.host
      /\ c.destination = "url" => e.destination = "url"
  BY DEF EventOf
<1>2. /\ Wanted(e)["operations"] = c.op /\ Wanted(e)["tables"] = c.table
      /\ Wanted(e)["destination_whitelist"] = Origins(e)
  BY <1>1 DEF Wanted
<1>3. /\ t.allow /\ c.op \subseteq t.operations /\ c.table \subseteq t.tables
      /\ Origins(e) \subseteq t.destination_whitelist
  BY <1>1, <1>2 DEF Granted, Fields
<1>4. Evaluate(t, c)
  BY <1>3 DEF Evaluate, Permits, RefusedRegardless
<1>5. ASSUME c.destination \notin {"none", "not_text"} PROVE EgressPermits(t, c)
  <2>1. c.destination = "url"
    BY <1>5 DEF Calls, RefusedRegardless
  <2>2. [wildcard |-> FALSE, name |-> c.host] \in t.destination_whitelist
    BY <1>1, <1>3, <2>1 DEF Origins
  <2>3. Whitelisted(t, c)
    BY <2>2, HostMatchesItself DEF Whitelisted
  <2> QED
    BY <2>1, <2>3 DEF EgressPermits, HasHost, RefusedRegardless
<1> QED
  BY <1>4, <1>5 DEF EvaluateCall

(* SuggestionsSuffice.                                                     *)
THEOREM Sufficient == ASSUME LearningAssumption PROVE Spec => []SuggestionsSuffice
<1>1. IInv => SuggestionsSuffice
  BY GrantedIsAllowed DEF IInv, Learnt, SuggestionsSuffice, LearningAssumption
<1> QED
  BY <1>1, Invariance, PTL

(* Converges.                                                              *)
THEOREM Convergent == ASSUME LearningAssumption PROVE Spec => []Converges
<1>1. ASSUME IInv, NEW m \in Suggested(Denials(log), file),
             \A e \in Denials(log) : e.method = m => e \in learned
      PROVE  FALSE
  <2> DEFINE E == {e \in Denials(log) : e.method = m}
  <2>1. \A e \in E : Granted(file, e)
    BY <1>1 DEF IInv, Learnt
  <2>2. file[m].allow
    BY <1>1, <2>1 DEF Suggested, Granted
  <2>3. ASSUME NEW f \in Fields PROVE Observed(Denials(log), m)[f] \subseteq file[m][f]
    BY <2>1, ObservedIsWanted DEF Granted
  <2>4. \A f \in Fields : Proposed(Denials(log), file, m, f) = {}
    BY <2>2, <2>3 DEF Proposed
  <2> QED
    BY <1>1, <2>2, <2>4 DEF Suggested
<1>2. IInv => Converges
  BY <1>1 DEF Converges
<1> QED
  BY <1>2, Invariance, PTL
-----------------------------------------------------------------------------
(* A snippet stays within what the file has and denials asked for, while   *)
(* the log grows and others of its entries are merged.                     *)
Within ==
    \A m \in DOMAIN snippet, f \in Fields :
        snippet[m][f] \subseteq file[m][f] \cup Observed(Denials(log), m)[f]

LEMMA ObservedGrows ==
    ASSUME NEW D, NEW E, D \subseteq E, NEW m, NEW f \in Fields
    PROVE  Observed(D, m)[f] \subseteq Observed(E, m)[f]
BY ObservedIsWanted

LEMMA StaysWithin == ASSUME LearningAssumption PROVE Spec => []Within
<1>1. Init => Within
  BY DEF Init, Within, Suggestion, Suggested
<1>2. IInv /\ Within /\ [Next]_vars => Within'
  <2> SUFFICES ASSUME IInv, Within, [Next]_vars PROVE Within'
    OBVIOUS
  <2>1. CASE \E c \in Traffic : Submit(c) \/ OutOfScope(c) \/ Unauthenticated(c)
    <3>1. UNCHANGED <<file, snippet>> /\ Denials(log) \subseteq Denials(log')
      BY <2>1, TrafficStep DEF IInv
    <3> QED
      BY <3>1, ObservedGrows DEF Within
  <2>2. CASE Suggest
    BY <2>2, ProposalCovers DEF Suggest, Within, Suggestion
  <2>3. ASSUME NEW m \in Methods, Merge(m) PROVE Within'
    <3>1. UNCHANGED <<snippet, log>> /\ DOMAIN snippet \subseteq Methods
      BY <2>3 DEF Merge, IInv, TypeOK
    <3>2. \A f \in Fields : snippet[m][f] \subseteq file'[m][f] \cup file[m][f]
                            /\ (snippet[m][f] # {} => file'[m][f] = snippet[m][f])
      BY <2>3, MergeStep DEF New
    <3>3. \A n \in Methods : n # m => file'[n] = file[n]
      BY <2>3, MergeStep
    <3>4. ASSUME NEW n \in DOMAIN snippet, NEW f \in Fields
          PROVE  snippet[n][f] \subseteq file'[n][f] \cup Observed(Denials(log), n)[f]
      BY <3>1, <3>2, <3>3 DEF Within
    <3> QED
      BY <3>1, <3>4 DEF Within
  <2>4. CASE Restart \/ UNCHANGED vars
    BY <2>4 DEF Restart, vars, Within
  <2> QED
    BY <2>1, <2>2, <2>3, <2>4 DEF Next
<1> QED
  BY <1>1, <1>2, Invariance, PTL DEF Spec

(* What was observed was asked for by an event.                            *)
LEMMA ObservedAskedFor ==
    ASSUME NEW m
    PROVE  /\ \A o \in Observed(Denials(log), m)["operations"] :
                 AskedFor(m, LAMBDA e : o \in e.op)
           /\ \A r \in Observed(Denials(log), m)["tables"] :
                 AskedFor(m, LAMBDA e : r \in e.table)
           /\ \A d \in Observed(Denials(log), m)["destination_whitelist"] :
                 ~d.wildcard /\ AskedFor(m, LAMBDA e : e.host = d.name)
BY DEF Observed, Denials, AskedFor, Origins

(* NothingInvented.                                                        *)
THEOREM Additions == ASSUME LearningAssumption PROVE Spec => NothingInvented
<1> DEFINE AddedTo(m) ==
              \A f \in Fields : file'[m][f] \subseteq file[m][f] \cup Observed(Denials(log), m)[f]
           Justified(m) ==
              /\ \A o \in file'[m].operations \ file[m].operations :
                    AskedFor(m, LAMBDA e : o \in e.op)
              /\ \A r \in file'[m].tables \ file[m].tables :
                    AskedFor(m, LAMBDA e : r \in e.table)
              /\ \A d \in file'[m].destination_whitelist \ file[m].destination_whitelist :
                    ~d.wildcard /\ AskedFor(m, LAMBDA e : e.host = d.name)
<1>1. ASSUME IInv, Within, [Next]_vars, NEW m \in Methods PROVE AddedTo(m)
  <2>1. CASE \E n \in Methods : Merge(n)
    <3>1. PICK n \in Methods : Merge(n)
      BY <2>1
    <3>2. ASSUME NEW f \in Fields
          PROVE  file'[n][f] \subseteq file[n][f] \cup Observed(Denials(log), n)[f]
      <4>1. n \in DOMAIN snippet /\ file'[n][f] = New(snippet[n][f], file[n][f])
        BY <1>1, <3>1, MergeStep DEF Merge
      <4> QED
        BY <1>1, <4>1 DEF Within, New
    <3> QED
      BY <1>1, <3>1, <3>2, MergeStep
  <2>2. CASE file' = file
    BY <2>2
  <2>3. file' = file \/ \E n \in Methods : Merge(n)
    BY <1>1 DEF Next, vars, Submit, OutOfScope, Unauthenticated, Suggest, Restart
  <2> QED
    BY <2>1, <2>2, <2>3
<1>2. ASSUME NEW m \in Methods, AddedTo(m) PROVE Justified(m)
  <2>1. /\ file'[m].operations \ file[m].operations \subseteq Observed(Denials(log), m)["operations"]
        /\ file'[m].tables \ file[m].tables \subseteq Observed(Denials(log), m)["tables"]
        /\ file'[m].destination_whitelist \ file[m].destination_whitelist
              \subseteq Observed(Denials(log), m)["destination_whitelist"]
    BY <1>2 DEF Fields
  <2> QED
    BY <2>1, ObservedAskedFor DEF AskedFor
<1>3. IInv /\ Within /\ [Next]_vars => [\A m \in Methods : Justified(m)]_vars
  BY <1>1, <1>2
<1>4. []IInv /\ []Within /\ [][Next]_vars => [][\A m \in Methods : Justified(m)]_vars
  BY <1>3, PTL
<1> QED
  BY <1>4, Invariance, StaysWithin, PTL DEF Spec, NothingInvented
-----------------------------------------------------------------------------
(* An entry for a tool that is allowed has what the file has: a list that  *)
(* it replaces is replaced by more, also when the snippet is old.          *)
NothingForgotten ==
    \A m \in DOMAIN snippet, f \in Fields :
        file[m].allow /\ snippet[m][f] # {} => file[m][f] \subseteq snippet[m][f]

LEMMA NeverForgets == ASSUME LearningAssumption PROVE Spec => []NothingForgotten
<1>1. Init => NothingForgotten
  BY DEF Init, NothingForgotten, Suggestion, Suggested
<1>2. IInv /\ NothingForgotten /\ [Next]_vars => NothingForgotten'
  <2> SUFFICES ASSUME IInv, NothingForgotten, [Next]_vars PROVE NothingForgotten'
    OBVIOUS
  <2>1. CASE Suggest
    BY <2>1 DEF Suggest, NothingForgotten, Suggestion, Proposed
  <2>2. ASSUME NEW m \in Methods, Merge(m) PROVE NothingForgotten'
    <3>1. snippet' = snippet /\ DOMAIN snippet \subseteq Methods
      BY <2>2 DEF Merge, IInv, TypeOK
    <3>2. ASSUME NEW n \in DOMAIN snippet, NEW f \in Fields, file'[n].allow, snippet[n][f] # {}
          PROVE  file'[n][f] \subseteq snippet[n][f]
      <4>1. CASE n = m
        <5>1. file'[m][f] = New(snippet[m][f], file[m][f])
          BY <2>2, MergeStep
        <5> QED
          BY <3>2, <4>1, <5>1 DEF New
      <4>2. CASE n # m
        BY <2>2, <3>1, <3>2, <4>2, MergeStep DEF NothingForgotten
      <4> QED
        BY <4>1, <4>2
    <3> QED
      BY <3>1, <3>2 DEF NothingForgotten
  <2>3. CASE UNCHANGED <<file, snippet>>
    BY <2>3 DEF NothingForgotten
  <2> QED
    BY <2>1, <2>2, <2>3 DEF Next, Submit, OutOfScope, Unauthenticated, Restart, vars
<1> QED
  BY <1>1, <1>2, Invariance, PTL DEF Spec

(* t grants what s grants: its lists are longer, where they are not empty  *)
(* in both, and the rest is the same.                                      *)
Extends(t, s) ==
    /\ t.allow
    /\ \A f \in {"operations", "tables"} : (s[f] = {} /\ t[f] = {}) \/ (s[f] # {} /\ s[f] \subseteq t[f])
    /\ s.destination_whitelist \subseteq t.destination_whitelist
    /\ t.limit = s.limit /\ t.deny_keywords = s.deny_keywords
    /\ t.deny_destinations = s.deny_destinations /\ t.sql = s.sql

LEMMA ExtendedAllowsMore ==
    ASSUME NEW doc, NEW more, NEW c, Extends(more[c.method], doc[c.method]), EvaluateCall(doc, c)
    PROVE  EvaluateCall(more, c)
<1> DEFINE s == doc[c.method]
           t == more[c.method]
<1>1. Evaluate(s, c) /\ (c.destination \in {"none", "not_text"} \/ EgressPermits(s, c))
  BY DEF EvaluateCall
<1>2. \A xs : /\ Permits(s.operations, xs) => Permits(t.operations, xs)
              /\ Permits(s.tables, xs) => Permits(t.tables, xs)
  <2>1. /\ (s.operations = {} /\ t.operations = {}) \/ (s.operations # {} /\ s.operations \subseteq t.operations)
        /\ (s.tables = {} /\ t.tables = {}) \/ (s.tables # {} /\ s.tables \subseteq t.tables)
    BY DEF Extends
  <2> QED
    BY <2>1 DEF Permits
<1>3. /\ t.allow /\ s.destination_whitelist \subseteq t.destination_whitelist
      /\ t.limit = s.limit /\ t.deny_keywords = s.deny_keywords
      /\ t.deny_destinations = s.deny_destinations /\ t.sql = s.sql
  BY DEF Extends
<1> HIDE DEF s, t
<1>4. Evaluate(t, c)
  BY <1>1, <1>2, <1>3 DEF Evaluate, SqlPasses, WithinLimit, NoDeniedWord
<1>5. EgressPermits(s, c) => EgressPermits(t, c)
  BY <1>3 DEF EgressPermits, Denied, Whitelisted
<1> QED
  BY <1>1, <1>4, <1>5 DEF EvaluateCall, t

LEMMA MergeExtends ==
    ASSUME IInv, NothingForgotten, NEW m \in Methods, Merge(m), file[m].allow, ListsStayEmpty(m)
    PROVE  Extends(file'[m], file[m])
<1>1. m \in DOMAIN snippet /\ file' = [file EXCEPT ![m] = Merged(file[m], snippet[m])]
      /\ file \in Policies /\ EntryOK(snippet[m])
  BY DEF Merge, IInv, TypeOK, EntryOK
<1>2. file[m] \in ToolConfigs /\ file'[m] = Merged(file[m], snippet[m])
  BY <1>1 DEF Policies
<1>3. \A f \in Fields : file[m][f] \subseteq file'[m][f]
  <2> SUFFICES ASSUME NEW f \in Fields PROVE file[m][f] \subseteq file'[m][f]
    OBVIOUS
  <2>1. file'[m][f] = New(snippet[m][f], file[m][f])
    BY MergeStep
  <2> QED
    BY <1>1, <2>1 DEF New, NothingForgotten
<1>4. /\ file'[m].limit = file[m].limit /\ file'[m].deny_keywords = file[m].deny_keywords
      /\ file'[m].deny_destinations = file[m].deny_destinations /\ file'[m].sql = file[m].sql
  BY <1>2 DEF Merged, ToolConfigs
<1>5. file'[m].allow
  BY MergeStep
<1>6. \A f \in {"operations", "tables"} :
          (file[m][f] = {} /\ file'[m][f] = {}) \/ (file[m][f] # {} /\ file[m][f] \subseteq file'[m][f])
  BY <1>3 DEF Fields, ListsStayEmpty
<1>7. file[m].destination_whitelist \subseteq file'[m].destination_whitelist
  BY <1>3 DEF Fields
<1> QED
  BY <1>4, <1>5, <1>6, <1>7 DEF Extends

(* AdditiveWhereListed: for any snippet, old or new, and any order of      *)
(* merges.                                                                 *)
THEOREM Additive == ASSUME LearningAssumption PROVE Spec => AdditiveWhereListed
<1> DEFINE Keeps(c) == EvaluateCall(file, c) /\ ListsStayEmpty(c.method) => EvaluateCall(file', c)
<1>1. ASSUME IInv, NothingForgotten, [Next]_vars, NEW c \in Traffic PROVE Keeps(c)
  <2>1. c.method \in Methods
    BY DEF LearningAssumption, Calls
  <2>2. ASSUME NEW m \in Methods, Merge(m) PROVE Keeps(c)
    <3>1. CASE m = c.method
      <4>1. EvaluateCall(file, c) => file[m].allow
        BY <3>1 DEF EvaluateCall, Evaluate
      <4> QED
        BY <1>1, <2>2, <3>1, <4>1, MergeExtends, ExtendedAllowsMore
    <3>2. CASE m # c.method
      <4>1. file'[c.method] = file[c.method]
        BY <1>1, <2>1, <2>2, <3>2, MergeStep
      <4> QED
        BY <4>1 DEF EvaluateCall
    <3> QED
      BY <3>1, <3>2
  <2>3. CASE file' = file
    BY <2>3
  <2>4. file' = file \/ \E m \in Methods : Merge(m)
    BY <1>1 DEF Next, vars, Submit, OutOfScope, Unauthenticated, Suggest, Restart
  <2> QED
    BY <2>2, <2>3, <2>4
<1>2. IInv /\ NothingForgotten /\ [Next]_vars => [\A c \in Traffic : Keeps(c)]_vars
  BY <1>1
<1>3. []IInv /\ []NothingForgotten /\ [][Next]_vars => [][\A c \in Traffic : Keeps(c)]_vars
  BY <1>2, PTL
<1> QED
  BY <1>3, Invariance, NeverForgets, PTL DEF Spec, AdditiveWhereListed
=============================================================================
