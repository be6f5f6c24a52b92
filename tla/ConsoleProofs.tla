---------------------------- MODULE ConsoleProofs ----------------------------
(***************************************************************************)
(* Theorems about Console, for every number of runs, every reply of the    *)
(* model, every limit and lifetime.                                        *)
(***************************************************************************)
EXTENDS Console, FiniteSetTheorems, TLAPS

LEMMA TenStages == Len(StageOrder) = 10 /\ Stages = 1..10
BY DEF StageOrder, Stages

LEMMA NamesOfStages ==
    {"", "Egress Ctrl", "Quota Check", "Execute", "Policy Eval"} \subseteq StageNames
<1>1. /\ StageOrder[3] = "Policy Eval" /\ StageOrder[4] = "Egress Ctrl"
      /\ StageOrder[5] = "Quota Check" /\ StageOrder[7] = "Execute"
  BY DEF StageOrder
<1>2. \A s \in 1..10 : StageOrder[s] \in StageNames
  BY TenStages DEF StageNames
<1>3. "" \in StageNames
  BY DEF StageNames, None
<1>4. {StageOrder[3], StageOrder[4], StageOrder[5], StageOrder[7]} \subseteq StageNames
  BY <1>2
<1> QED
  BY <1>1, <1>3, <1>4

(* A stage is one of the ten, or comes after them.                         *)
LEMMA PositionType == ASSUME NEW stage PROVE Position(stage) \in 1..11
<1>1. CASE \E s \in Stages : StageOrder[s] = stage
  <2>1. Position(stage) \in Stages
    BY <1>1 DEF Position
  <2> QED
    BY <2>1, TenStages
<1>2. CASE ~\E s \in Stages : StageOrder[s] = stage
  BY <1>2, TenStages DEF Position
<1> QED
  BY <1>1, <1>2

(* A denial of the pipeline has a stage, and what is let through has none. *)
LEMMA DeniedHasStage ==
    ASSUME NEW c \in Calls
    PROVE  /\ Denial(c) \in Reasons
           /\ FailedStage(Denial(c)) \in StageNames
           /\ FailedStage(Denial(c)) # None <=> Denial(c) # ""
<1>1. Denial(c) \in Reasons
  BY DEF Denial, Reasons
<1>2. FailedStage(Denial(c)) \in {"", "Egress Ctrl", "Quota Check", "Execute", "Policy Eval"}
  BY <1>1 DEF FailedStage, StageForDenial, None
<1>3. FailedStage(Denial(c)) \in StageNames
  BY <1>2, NamesOfStages
<1>4. FailedStage(Denial(c)) # None <=> Denial(c) # ""
  BY DEF FailedStage, StageForDenial, None
<1> QED
  BY <1>1, <1>3, <1>4

LEMMA RepliesAreCalls ==
    ASSUME NEW r \in Runs, NEW c \in Replies[r] \cup Fallback[r] PROVE c \in Calls
BY ConsoleAssumption

(* What one step may do to the figures: nothing, record a run, or start    *)
(* the process anew.                                                       *)
Recorded(r, stage, reason) ==
    /\ state[r] \in {"new", "generating"}
    /\ stage \in StageNames /\ reason \in Reasons
    /\ state' = [state EXCEPT ![r] = "answered"]
    /\ Record(r, stage, reason)
    /\ UNCHANGED <<mode, limits, reboots>>
    /\ \/ r \in Live /\ state[r] = "generating" /\ (stage # None <=> reason # "")
       \/ r \notin Live

LEMMA FinishRecords ==
    ASSUME NEW r \in Live, NEW c \in Calls, Finish(r, c)
    PROVE  Recorded(r, FailedStage(Denial(c)), Denial(c))
BY DeniedHasStage DEF Finish, Becomes, Recorded, process

LEMMA DemoRecords ==
    ASSUME NEW r \in Runs, NEW c \in Calls, RunDemo(r, c)
    PROVE  Recorded(r, DemoStage(c), "")
<1>1. DemoStage(c) \in {"", "Egress Ctrl", "Quota Check", "Policy Eval"}
  BY DEF DemoStage, None
<1>2. DemoStage(c) \in StageNames
  BY <1>1, NamesOfStages
<1> QED
  BY <1>2 DEF RunDemo, Starts, Becomes, Recorded, process, Reasons

(* Steps that leave the figures, the quota and the database alone.         *)
Quiet ==
    /\ UNCHANGED <<stats, demo, process, call>>
    /\ \/ UNCHANGED state
       \/ \E r \in Runs : \E s \in {"refused", "generating", "error"} :
             /\ state[r] \in {"new", "generating"} /\ state[r] # s
             /\ s = "generating" => r \in Live
             /\ state' = [state EXCEPT ![r] = s]

OnlyLiveWait == \A r \in Runs : state[r] = "generating" => r \in Live

(* Every step is one of five kinds.                                        *)
LEMMA StepKinds ==
    ASSUME OnlyLiveWait, [Next]_vars
    PROVE  \/ Quiet
           \/ Reset
           \/ Reboot
           \/ \E r \in Live, c \in Calls : r \in Runs /\ Finish(r, c)
           \/ \E r \in Runs, c \in Calls : RunDemo(r, c)
<1>1. ASSUME Operates, UNCHANGED <<runs, demo, stats, process>> PROVE Quiet
  BY <1>1 DEF Quiet, runs
<1>2. ASSUME NEW r \in Runs, Refuse(r) \/ StartScenario(r) \/ ModelRaises(r) PROVE Quiet
  BY <1>2 DEF Refuse, StartScenario, ModelRaises, Starts, Becomes, Quiet
<1>3. ASSUME NEW r \in Runs, ModelAnswers(r) \/ ModelGivesUp(r)
      PROVE  \E q \in Live, c \in Calls : q \in Runs /\ Finish(q, c)
  <2>1. PICK c \in Replies[r] \cup Fallback[r] : Finish(r, c)
    BY <1>3 DEF ModelAnswers, ModelGivesUp
  <2>2. r \in Live
    BY <2>1 DEF Finish, OnlyLiveWait
  <2> QED
    BY <2>1, <2>2, RepliesAreCalls
<1>4. CASE UNCHANGED vars
  BY <1>4 DEF vars, Quiet, runs
<1> QED
  BY <1>1, <1>2, <1>3, <1>4 DEF Next
-----------------------------------------------------------------------------
(* Types.                                                                  *)

LEMMA AuthTypes ==
    ASSUME AuthTypeOK, Operates \/ Redeploys \/ UNCHANGED authVars
    PROVE  AuthTypeOK'
<1> USE AuthAssumption DEF AuthTypeOK
<1>1. ASSUME NEW way \in {"login", "sso"}, NEW valid \in BOOLEAN, SignIn(way, valid)
      PROVE  AuthTypeOK'
  BY <1>1 DEF SignIn, CreateToken, Tokens
<1>2. CASE Tick
  BY <1>2 DEF Tick
<1>3. CASE Redeploys
  BY <1>3 DEF Redeploys
<1>4. CASE UNCHANGED authVars
  BY <1>4 DEF authVars
<1> QED
  BY <1>1, <1>2, <1>3, <1>4 DEF Operates

LEMMA PlusType ==
    ASSUME NEW f \in [Stages -> Nat], NEW S
    PROVE  /\ Plus(f, S) \in [Stages -> Nat]
           /\ \A s \in Stages : Plus(f, S)[s] = IF s \in S THEN f[s] + 1 ELSE f[s]
<1>1. ASSUME NEW s \in Stages
      PROVE  f[s] + (IF s \in S THEN 1 ELSE 0) = IF s \in S THEN f[s] + 1 ELSE f[s]
  OBVIOUS
<1>2. ASSUME NEW s \in Stages PROVE f[s] + (IF s \in S THEN 1 ELSE 0) \in Nat
  OBVIOUS
<1> QED
  BY <1>1, <1>2 DEF Plus

LEMMA RecordTypes ==
    ASSUME TypeOK, NEW r \in Runs, NEW stage, NEW reason, Recorded(r, stage, reason)
    PROVE  /\ requests' \in Nat /\ denies' \in Nat
           /\ passed' \in [Stages -> Nat] /\ failed' \in [Stages -> Nat]
           /\ log' \in Seq(Entries)
<1>1. passed' = Plus(passed, 1..(Position(stage) - 1)) /\ failed' = Plus(failed, {Position(stage)})
  BY DEF Recorded, Record
<1>2. passed \in [Stages -> Nat] /\ failed \in [Stages -> Nat]
  BY DEF TypeOK
<1>3. [run |-> r, denied |-> stage # None, stage |-> stage, reason |-> reason] \in Entries
  BY DEF Recorded, Entries
<1>4. log' \in Seq(Entries)
  <2>1. log' = Append(log, [run |-> r, denied |-> stage # None, stage |-> stage, reason |-> reason])
    BY DEF Recorded, Record
  <2>2. log \in Seq(Entries)
    BY DEF TypeOK
  <2> QED
    BY <1>3, <2>1, <2>2
<1>5. requests' \in Nat /\ denies' \in Nat
  <2>1. requests' = requests + 1 /\ denies' \in {denies, denies + 1}
    BY DEF Recorded, Record
  <2>2. requests \in Nat /\ denies \in Nat
    BY DEF TypeOK
  <2> QED
    BY <2>1, <2>2
<1>6. Plus(passed, 1..(Position(stage) - 1)) \in [Stages -> Nat]
  BY <1>2, PlusType
<1>7. Plus(failed, {Position(stage)}) \in [Stages -> Nat]
  BY <1>2, PlusType
<1> QED
  BY <1>1, <1>4, <1>5, <1>6, <1>7

LEMMA FinishTypes ==
    ASSUME TypeOK, NEW r \in Runs, NEW c \in Calls, Finish(r, c)
    PROVE  changes' \subseteq Runs /\ calls' \in Nat /\ rows' \in Nat
<1>1. c.rows \in Nat
  BY ConsoleAssumption
<1>2. calls \in Nat /\ rows \in Nat /\ changes \subseteq Runs
  BY DEF TypeOK
<1>3. Execute(r, c, Denial(c))
  BY DEF Finish
<1>4. CASE Denial(c) = ""
  <2>1. calls' = calls + 1 /\ rows' = rows + c.rows
    BY <1>3, <1>4 DEF Execute
  <2>2. changes' = IF c.effect = "writes" THEN changes \cup {r} ELSE changes
    BY <1>3, <1>4 DEF Execute
  <2>3. calls' \in Nat /\ rows' \in Nat
    BY <1>1, <1>2, <2>1
  <2> QED
    BY <1>2, <2>2, <2>3
<1>5. CASE Denial(c) # ""
  BY <1>2, <1>3, <1>5 DEF Execute, demo
<1> QED
  BY <1>4, <1>5

StatesOK == state \in [Runs -> {"new", "refused", "generating", "answered", "error", "lost", "forgotten"}]

CallsOK ==
    /\ call \in [Runs -> SUBSET Calls]
    /\ \A r \in Runs : (call[r] # {}) <=> (state[r] \in {"answered", "forgotten"})

LEMMA AnsweredTypes ==
    ASSUME TypeOK, NEW r \in Runs, NEW c \in Calls,
           state[r] \in {"new", "generating"}, Becomes(r, "answered"), ComesTo(r, c)
    PROVE  StatesOK' /\ CallsOK'
<1> USE DEF TypeOK, Becomes, ComesTo
<1>1. StatesOK'
  BY DEF StatesOK
<1>2. call' \in [Runs -> SUBSET Calls]
  OBVIOUS
<1>3. ASSUME NEW q \in Runs
      PROVE  (call'[q] # {}) <=> (state'[q] \in {"answered", "forgotten"})
  <2>1. CASE q = r
    BY <2>1
  <2>2. CASE q # r
    BY <2>2
  <2> QED
    BY <2>1, <2>2
<1> QED
  BY <1>1, <1>2, <1>3 DEF CallsOK

(* A step that only ends or begins a wait.                                 *)
LEMMA MovedTypes ==
    ASSUME TypeOK, NEW r \in Runs, NEW s \in {"refused", "generating", "error"},
           state[r] \in {"new", "generating"}, Becomes(r, s), UNCHANGED call
    PROVE  StatesOK' /\ CallsOK'
<1> USE DEF TypeOK, Becomes
<1>1. StatesOK'
  BY DEF StatesOK
<1>2. ASSUME NEW q \in Runs
      PROVE  (call'[q] # {}) <=> (state'[q] \in {"answered", "forgotten"})
  <2>1. CASE q = r
    BY <2>1
  <2>2. CASE q # r
    BY <2>2
  <2> QED
    BY <2>1, <2>2
<1> QED
  BY <1>1, <1>2 DEF CallsOK

LEMMA RebootTypes ==
    ASSUME TypeOK, Reboot PROVE StatesOK' /\ CallsOK'
<1>1. StatesOK'
  BY DEF TypeOK, Reboot, StatesOK
<1>2. ASSUME NEW q \in Runs
      PROVE  (call'[q] # {}) <=> (state'[q] \in {"answered", "forgotten"})
  <2>1. state'[q] \in {"answered", "forgotten"} <=> state[q] \in {"answered", "forgotten"}
    BY DEF TypeOK, Reboot
  <2> QED
    BY <2>1 DEF TypeOK, Reboot
<1> QED
  BY <1>1, <1>2 DEF CallsOK, TypeOK, Reboot

(* The parts of the type invariant.                                        *)
LEMMA TypeParts ==
    TypeOK <=>
        /\ AuthTypeOK /\ StatesOK /\ CallsOK
        /\ mode \in Modes /\ limits \in Limits
        /\ changes \subseteq Runs /\ calls \in Nat /\ rows \in Nat
        /\ requests \in Nat /\ denies \in Nat
        /\ passed \in [Stages -> Nat] /\ failed \in [Stages -> Nat]
        /\ log \in Seq(Entries)
        /\ reboots \in 0..MaxReboots
BY DEF TypeOK, StatesOK, CallsOK

LEMMA InitTypes == Init => TypeOK
<1> SUFFICES ASSUME Init PROVE TypeOK
  OBVIOUS
<1>1. AuthTypeOK
  BY AuthAssumption DEF Init, AuthInit, AuthTypeOK
<1>2. StatesOK /\ CallsOK
  BY DEF Init, StatesOK, CallsOK
<1>3. passed \in [Stages -> Nat] /\ failed \in [Stages -> Nat]
  BY DEF Init, Zeros
<1>4. log \in Seq(Entries)
  BY DEF Init
<1>5. reboots \in 0..MaxReboots
  BY ConsoleAssumption DEF Init
<1> QED
  BY <1>1, <1>2, <1>3, <1>4, <1>5, TypeParts DEF Init

LEMMA NextTypes ==
    ASSUME TypeOK, OnlyLiveWait, [Next]_vars PROVE TypeOK' /\ OnlyLiveWait'
<1>0. /\ AuthTypeOK /\ reboots \in 0..MaxReboots
      /\ changes \subseteq Runs /\ calls \in Nat /\ rows \in Nat
  BY DEF TypeOK
<1>1. ASSUME Operates, UNCHANGED <<runs, demo, stats, process>> PROVE TypeOK' /\ OnlyLiveWait'
  <2>1. AuthTypeOK'
    BY <1>0, <1>1, AuthTypes
  <2>2. UNCHANGED <<mode, limits, state, call, changes, calls, rows, requests, denies, passed, failed, log, reboots>>
    BY <1>1 DEF runs, demo, stats, process
  <2> QED
    BY <2>1, <2>2 DEF StatesOK, CallsOK, OnlyLiveWait, TypeOK
<1>2. ASSUME NEW r \in Runs, Refuse(r) \/ StartScenario(r) \/ ModelRaises(r)
      PROVE  TypeOK' /\ OnlyLiveWait'
  <2>1. PICK s \in {"refused", "generating", "error"} :
           Becomes(r, s) /\ (s = "generating" => r \in Live)
    BY <1>2 DEF Refuse, StartScenario, ModelRaises
  <2>2. state[r] \in {"new", "generating"}
        /\ UNCHANGED <<authVars, call, demo, stats, process>>
    BY <1>2 DEF Refuse, StartScenario, ModelRaises, Starts
  <2>3. StatesOK' /\ CallsOK'
    BY <2>1, <2>2, MovedTypes
  <2>4. OnlyLiveWait'
    BY <2>1 DEF OnlyLiveWait, Becomes, TypeOK
  <2>5. AuthTypeOK'
    BY <1>0, <2>2, AuthTypes
  <2>6. UNCHANGED <<mode, limits, changes, calls, rows, requests, denies, passed, failed, log, reboots>>
    BY <2>2 DEF demo, stats, process
  <2> QED
    BY <2>3, <2>4, <2>5, <2>6 DEF StatesOK, CallsOK, TypeOK
<1>3. ASSUME NEW r \in Runs, NEW c \in Calls, NEW stage, NEW reason,
             Recorded(r, stage, reason), ComesTo(r, c), UNCHANGED authVars,
             changes' \subseteq Runs /\ calls' \in Nat /\ rows' \in Nat
      PROVE  TypeOK' /\ OnlyLiveWait'
  <2>1. state[r] \in {"new", "generating"} /\ Becomes(r, "answered")
    BY <1>3 DEF Recorded, Becomes
  <2>2. StatesOK' /\ CallsOK'
    BY <1>3, <2>1, AnsweredTypes
  <2>3. OnlyLiveWait'
    BY <2>1 DEF OnlyLiveWait, Becomes, TypeOK
  <2>4. AuthTypeOK'
    BY <1>0, <1>3, AuthTypes
  <2>5. UNCHANGED <<mode, limits, reboots>>
    BY <1>3 DEF Recorded
  <2>6. /\ requests' \in Nat /\ denies' \in Nat
        /\ passed' \in [Stages -> Nat] /\ failed' \in [Stages -> Nat]
        /\ log' \in Seq(Entries)
    BY <1>3, RecordTypes
  <2> QED
    BY <1>3, <2>2, <2>3, <2>4, <2>5, <2>6 DEF StatesOK, CallsOK, TypeOK
<1>4. ASSUME NEW r \in Live, NEW c \in Calls, r \in Runs, Finish(r, c)
      PROVE  TypeOK' /\ OnlyLiveWait'
  BY <1>3, <1>4, FinishRecords, FinishTypes DEF Finish
<1>5. ASSUME NEW r \in Runs, NEW c \in Calls, RunDemo(r, c) PROVE TypeOK' /\ OnlyLiveWait'
  <2>1. changes' \subseteq Runs /\ calls' \in Nat /\ rows' \in Nat
    BY <1>0, <1>5 DEF RunDemo, demo
  <2> QED
    BY <1>3, <1>5, <2>1, DemoRecords DEF RunDemo
<1>6. CASE Reset
  <2>1. AuthTypeOK'
    BY <1>0, <1>6, AuthTypes DEF Reset
  <2>2. UNCHANGED <<mode, limits, state, call, calls, rows, requests, denies, passed, failed, log, reboots>>
    BY <1>6 DEF Reset, runs, stats, process
  <2>3. changes' \subseteq Runs
    BY <1>6 DEF Reset
  <2> QED
    BY <2>1, <2>2, <2>3 DEF StatesOK, CallsOK, OnlyLiveWait, TypeOK
<1>7. CASE Reboot
  <2>1. AuthTypeOK'
    BY <1>0, <1>7, AuthTypes DEF Reboot
  <2>2. StatesOK' /\ CallsOK'
    BY <1>7, RebootTypes
  <2>3. OnlyLiveWait'
    BY <1>7 DEF OnlyLiveWait, Reboot, TypeOK
  <2>4. reboots' \in 0..MaxReboots
    BY <1>0, <1>7, ConsoleAssumption DEF Reboot
  <2>5. passed' \in [Stages -> Nat] /\ failed' \in [Stages -> Nat]
    BY <1>7 DEF Reboot, Zeros
  <2>6. log' \in Seq(Entries)
    BY <1>7 DEF Reboot
  <2>7. /\ mode' \in Modes /\ limits' \in Limits
        /\ changes' \subseteq Runs /\ calls' \in Nat /\ rows' \in Nat
        /\ requests' \in Nat /\ denies' \in Nat
    BY <1>0, <1>7, ConsoleAssumption DEF Reboot
  <2> QED
    BY <2>1, <2>2, <2>3, <2>4, <2>5, <2>6, <2>7 DEF StatesOK, CallsOK, TypeOK
<1>8. CASE UNCHANGED vars
  <2>1. AuthTypeOK'
    BY <1>0, <1>8, AuthTypes DEF vars
  <2>2. UNCHANGED <<mode, limits, state, call, changes, calls, rows, requests, denies, passed, failed, log, reboots>>
    BY <1>8 DEF vars, runs, demo, stats, process
  <2> QED
    BY <2>1, <2>2 DEF StatesOK, CallsOK, OnlyLiveWait, TypeOK
<1>9. ASSUME NEW r \in Runs, ModelAnswers(r) \/ ModelGivesUp(r)
      PROVE  TypeOK' /\ OnlyLiveWait'
  <2>1. PICK c \in Replies[r] \cup Fallback[r] : Finish(r, c)
    BY <1>9 DEF ModelAnswers, ModelGivesUp
  <2>2. r \in Live
    BY <2>1 DEF Finish, OnlyLiveWait
  <2> QED
    BY <1>4, <2>1, <2>2, RepliesAreCalls
<1> QED
  BY <1>1, <1>2, <1>5, <1>6, <1>7, <1>8, <1>9 DEF Next

(* The variables of the console always have their types, and a run waits   *)
(* for the model only if it is one of the live demo.                       *)
THEOREM TypeCorrect == Spec => [](TypeOK /\ OnlyLiveWait)
<1>1. Init => TypeOK /\ OnlyLiveWait
  BY InitTypes DEF Init, OnlyLiveWait
<1>2. TypeOK /\ OnlyLiveWait /\ [Next]_vars => (TypeOK /\ OnlyLiveWait)'
  BY NextTypes
<1> QED
  BY <1>1, <1>2, PTL DEF Spec
-----------------------------------------------------------------------------
(* The funnel.                                                             *)

LEMMA PositionOfAName ==
    ASSUME NEW stage \in StageNames
    PROVE  Position(stage) \in 1..11 /\ (Position(stage) = 11 <=> stage = None)
<1>1. \A s \in Stages : StageOrder[s] # ""
  <2>1. /\ StageOrder[1] # "" /\ StageOrder[2] # "" /\ StageOrder[3] # "" /\ StageOrder[4] # ""
        /\ StageOrder[5] # "" /\ StageOrder[6] # "" /\ StageOrder[7] # "" /\ StageOrder[8] # ""
        /\ StageOrder[9] # "" /\ StageOrder[10] # ""
    BY DEF StageOrder
  <2>2. \A s \in 1..10 : s \in {1, 2, 3, 4, 5, 6, 7, 8, 9, 10}
    OBVIOUS
  <2> QED
    BY <2>1, <2>2, TenStages
<1>2. CASE stage = None
  <2>1. ~\E s \in Stages : StageOrder[s] = stage
    BY <1>1, <1>2 DEF None
  <2> QED
    BY <1>2, <2>1, TenStages DEF Position
<1>3. CASE stage # None
  <2>1. \E s \in Stages : StageOrder[s] = stage
    BY <1>3 DEF StageNames
  <2>2. Position(stage) \in Stages
    BY <2>1 DEF Position
  <2> QED
    BY <1>3, <2>2, TenStages
<1> QED
  BY <1>2, <1>3

LEMMA Appended ==
    ASSUME NEW S, NEW seq \in Seq(S), NEW e \in S
    PROVE  /\ Len(Append(seq, e)) = Len(seq) + 1
           /\ DOMAIN Append(seq, e) = DOMAIN seq \cup {Len(seq) + 1}
           /\ Len(seq) + 1 \notin DOMAIN seq
           /\ \A i \in DOMAIN seq : Append(seq, e)[i] = seq[i]
           /\ Append(seq, e)[Len(seq) + 1] = e
OBVIOUS

LEMMA FiniteDomain ==
    ASSUME NEW S, NEW seq \in Seq(S), NEW T \in SUBSET DOMAIN seq
    PROVE  IsFiniteSet(T) /\ Cardinality(T) \in Nat
<1>1. DOMAIN seq = 1..Len(seq) /\ Len(seq) \in Nat
  OBVIOUS
<1>2. IsFiniteSet(1..Len(seq))
  BY <1>1, FS_Interval
<1>3. IsFiniteSet(T)
  BY <1>1, <1>2, FS_Subset
<1> QED
  BY <1>3, FS_CardinalityType

(* The entry that a run adds to the log.                                   *)
Entry(r, stage, reason) ==
    [run |-> r, denied |-> stage # None, stage |-> stage, reason |-> reason]

LEMMA EntryFields ==
    ASSUME NEW r, NEW stage, NEW reason
    PROVE  /\ Entry(r, stage, reason).run = r
           /\ Entry(r, stage, reason).denied = (stage # None)
           /\ Entry(r, stage, reason).reason = reason
BY DEF Entry

LEMMA LogGrows ==
    ASSUME TypeOK, NEW r \in Runs, NEW stage, NEW reason, Recorded(r, stage, reason)
    PROVE  /\ log \in Seq(Entries) /\ Len(log) \in Nat
           /\ Entry(r, stage, reason) \in Entries
           /\ log' = Append(log, Entry(r, stage, reason))
           /\ Len(log') = Len(log) + 1
           /\ DOMAIN log' = DOMAIN log \cup {Len(log) + 1}
           /\ Len(log) + 1 \notin DOMAIN log
           /\ \A i \in DOMAIN log : log'[i] = log[i]
           /\ log'[Len(log) + 1] = Entry(r, stage, reason)
<1>1. log \in Seq(Entries)
  BY DEF TypeOK
<1>2. Len(log) \in Nat
  BY <1>1
<1>3. Entry(r, stage, reason) \in Entries
  BY DEF Recorded, Entries, Entry
<1>4. log' = Append(log, Entry(r, stage, reason))
  BY DEF Recorded, Record, Entry
<1> QED
  BY <1>1, <1>2, <1>3, <1>4, Appended

LEMMA DenialsGrow ==
    ASSUME TypeOK, NEW r \in Runs, NEW stage, NEW reason, Recorded(r, stage, reason)
    PROVE  Cardinality(DenialsIn(log')) =
               IF stage = None THEN Cardinality(DenialsIn(log)) ELSE Cardinality(DenialsIn(log)) + 1
<1> DEFINE n == Len(log) + 1
<1>1. log'[n].denied = (stage # None)
  <2>1. log'[n] = Entry(r, stage, reason)
    BY LogGrows
  <2>2. Entry(r, stage, reason).denied = (stage # None)
    BY EntryFields
  <2> QED
    BY <2>1, <2>2
<1>2. CASE stage = None
  <2>1. DenialsIn(log') = DenialsIn(log)
    BY <1>1, <1>2, LogGrows DEF DenialsIn
  <2> QED
    BY <1>2, <2>1
<1>3. CASE stage # None
  <2>1. DenialsIn(log') = DenialsIn(log) \cup {n}
    BY <1>1, <1>3, LogGrows DEF DenialsIn
  <2>2. n \notin DenialsIn(log)
    BY LogGrows DEF DenialsIn
  <2>3. IsFiniteSet(DenialsIn(log))
    BY LogGrows, FiniteDomain DEF DenialsIn
  <2> QED
    BY <1>3, <2>1, <2>2, <2>3, FS_AddElement
<1> QED
  BY <1>2, <1>3

LEMMA FunnelRecords ==
    ASSUME TypeOK, FunnelAdds, NEW r \in Runs, NEW stage, NEW reason, Recorded(r, stage, reason)
    PROVE  FunnelAdds'
<1> DEFINE k == Position(stage)
<1>1. k \in 1..11 /\ (k = 11 <=> stage = None)
  BY PositionOfAName DEF Recorded
<1>2. /\ requests \in Nat /\ denies \in Nat
      /\ passed \in [1..10 -> Nat] /\ failed \in [1..10 -> Nat]
  BY TenStages DEF TypeOK
<1>3. passed' = Plus(passed, 1..(k - 1)) /\ failed' = Plus(failed, {k})
      /\ requests' = requests + 1 /\ denies' = IF stage = None THEN denies ELSE denies + 1
  BY DEF Recorded, Record
<1>4. \A s \in 1..10 : passed'[s] = IF s < k THEN passed[s] + 1 ELSE passed[s]
  <2>1. \A s \in Stages : Plus(passed, 1..(k - 1))[s] =
                              IF s \in 1..(k - 1) THEN passed[s] + 1 ELSE passed[s]
    <3> HIDE DEF k
    <3>1. passed \in [Stages -> Nat]
      BY <1>2, TenStages
    <3> DEFINE S == 1..(k - 1)
    <3> HIDE DEF S
    <3>2. \A s \in Stages : Plus(passed, S)[s] = IF s \in S THEN passed[s] + 1 ELSE passed[s]
      BY <3>1, PlusType
    <3> QED
      BY <3>2 DEF S
  <2>2. \A s \in 1..10 : s \in 1..(k - 1) <=> s < k
    BY <1>1
  <2> HIDE DEF k
  <2> QED
    BY <1>3, <2>1, <2>2, TenStages
<1>5. \A s \in 1..10 : failed'[s] = IF s = k THEN failed[s] + 1 ELSE failed[s]
  <2>1. \A s \in Stages : Plus(failed, {k})[s] =
                              IF s \in {k} THEN failed[s] + 1 ELSE failed[s]
    BY <1>2, PlusType, TenStages
  <2> HIDE DEF k
  <2> QED
    BY <1>3, <2>1, TenStages
<1>6. /\ requests = passed[1] + failed[1]
      /\ \A s \in 2..10 : passed[s - 1] = passed[s] + failed[s]
      /\ requests - denies = passed[10]
      /\ requests = Len(log)
      /\ denies = Cardinality(DenialsIn(log))
  BY TenStages DEF FunnelAdds
<1> HIDE DEF k
<1>7. requests' = passed'[1] + failed'[1]
  <2>1. passed'[1] = (IF 1 < k THEN passed[1] + 1 ELSE passed[1]) /\ passed[1] \in Nat
    BY <1>2, <1>4
  <2>2. failed'[1] = (IF 1 = k THEN failed[1] + 1 ELSE failed[1]) /\ failed[1] \in Nat
    BY <1>2, <1>5
  <2>3. requests = passed[1] + failed[1] /\ requests' = requests + 1
    BY <1>3, <1>6
  <2>4. CASE k = 1
    <3>1. passed'[1] = passed[1] /\ failed'[1] = failed[1] + 1
      BY <2>1, <2>2, <2>4
    <3> QED
      BY <2>1, <2>2, <2>3, <3>1
  <2>5. CASE k # 1
    <3>1. passed'[1] = passed[1] + 1 /\ failed'[1] = failed[1]
      BY <1>1, <2>1, <2>2, <2>5
    <3> QED
      BY <2>1, <2>2, <2>3, <3>1
  <2> QED
    BY <2>4, <2>5
<1>8. ASSUME NEW s \in 2..10 PROVE passed'[s - 1] = passed'[s] + failed'[s]
  <2>1. s \in 1..10 /\ s - 1 \in 1..10
    OBVIOUS
  <2>2. passed[s - 1] = passed[s] + failed[s]
    BY <1>6
  <2>3. passed[s - 1] \in Nat /\ passed[s] \in Nat /\ failed[s] \in Nat
    BY <1>2, <2>1
  <2>4. CASE s < k
    BY <1>1, <1>4, <1>5, <2>1, <2>2, <2>3, <2>4
  <2>5. CASE s = k
    BY <1>1, <1>4, <1>5, <2>1, <2>2, <2>3, <2>5
  <2>6. CASE s > k
    BY <1>1, <1>4, <1>5, <2>1, <2>2, <2>3, <2>6
  <2> QED
    BY <1>1, <2>4, <2>5, <2>6
<1>9. requests' - denies' = passed'[10]
  <2>1. passed'[10] = (IF 10 < k THEN passed[10] + 1 ELSE passed[10]) /\ passed[10] \in Nat
    BY <1>2, <1>4
  <2>2. 10 < k <=> stage = None
    BY <1>1
  <2>3. requests - denies = passed[10]
    BY <1>6
  <2>4. CASE stage = None
    BY <1>2, <1>3, <2>1, <2>2, <2>3, <2>4
  <2>5. CASE stage # None
    BY <1>2, <1>3, <2>1, <2>2, <2>3, <2>5
  <2> QED
    BY <2>4, <2>5
<1>10. requests' = Len(log') /\ denies' = Cardinality(DenialsIn(log'))
  BY <1>3, <1>6, LogGrows, DenialsGrow
<1>11. \A s \in Stages \ {1} : passed'[s - 1] = passed'[s] + failed'[s]
  BY <1>8, TenStages
<1> QED
  BY <1>7, <1>9, <1>10, <1>11, TenStages DEF FunnelAdds

LEMMA FunnelStarts ==
    ASSUME requests = 0, denies = 0, passed = Zeros, failed = Zeros, log = <<>>
    PROVE  FunnelAdds
<1>1. \A s \in 1..10 : passed[s] = 0 /\ failed[s] = 0
  BY TenStages DEF Zeros
<1>2. DenialsIn(log) = {}
  BY DEF DenialsIn
<1>3. Cardinality(DenialsIn(log)) = 0
  BY <1>2, FS_EmptySet
<1>4. requests = Len(log)
  OBVIOUS
<1> QED
  BY <1>1, <1>3, <1>4, TenStages DEF FunnelAdds
-----------------------------------------------------------------------------
(* The log.                                                                *)

LEMMA LogRecords ==
    ASSUME TypeOK, LogIsOfTheAnswered,
           NEW r \in Runs, NEW stage, NEW reason, Recorded(r, stage, reason)
    PROVE  LogIsOfTheAnswered'
<1> DEFINE n == Len(log) + 1
<1>1. log'[n].run = r
  <2>1. log'[n] = Entry(r, stage, reason)
    BY LogGrows
  <2>2. Entry(r, stage, reason).run = r
    BY EntryFields
  <2> QED
    BY <2>1, <2>2
<1>2. /\ DOMAIN log' = DOMAIN log \cup {n} /\ n \notin DOMAIN log
      /\ \A i \in DOMAIN log : log'[i] = log[i]
  BY LogGrows
<1>3. {q \in Runs : state'[q] = "answered"} = {q \in Runs : state[q] = "answered"} \cup {r}
  BY DEF TypeOK, Recorded
<1>4. \A i \in DOMAIN log : log[i].run # r
  BY DEF LogIsOfTheAnswered, Recorded
<1> HIDE DEF n
<1>5. {log'[i].run : i \in DOMAIN log'} = {log[i].run : i \in DOMAIN log} \cup {r}
  <2>1. {log'[i].run : i \in DOMAIN log'} \subseteq {log[i].run : i \in DOMAIN log} \cup {r}
    BY <1>1, <1>2
  <2>2. \A i \in DOMAIN log : log[i].run \in {log'[j].run : j \in DOMAIN log'}
    BY <1>2
  <2>3. r \in {log'[j].run : j \in DOMAIN log'}
    BY <1>1, <1>2
  <2> QED
    BY <2>1, <2>2, <2>3
<1>6. \A i, j \in DOMAIN log' : log'[i].run = log'[j].run => i = j
  <2>1. \A i, j \in DOMAIN log : log[i].run = log[j].run => i = j
    BY DEF LogIsOfTheAnswered
  <2> QED
    BY <1>1, <1>2, <1>4, <2>1
<1>7. {log[i].run : i \in DOMAIN log} = {q \in Runs : state[q] = "answered"}
  BY DEF LogIsOfTheAnswered
<1> QED
  BY <1>3, <1>5, <1>6, <1>7 DEF LogIsOfTheAnswered

LEMMA SameAnswered ==
    ASSUME TypeOK, Quiet
    PROVE  \A q \in Runs : state'[q] = "answered" <=> state[q] = "answered"
BY DEF TypeOK, Quiet

LEMMA LogStays ==
    ASSUME LogIsOfTheAnswered, UNCHANGED log,
           \A q \in Runs : state'[q] = "answered" <=> state[q] = "answered"
    PROVE  LogIsOfTheAnswered'
<1>1. {q \in Runs : state'[q] = "answered"} = {q \in Runs : state[q] = "answered"}
  OBVIOUS
<1> QED
  BY <1>1 DEF LogIsOfTheAnswered

LEMMA LogStarts ==
    ASSUME log = <<>>, \A q \in Runs : state[q] # "answered" PROVE LogIsOfTheAnswered
BY DEF LogIsOfTheAnswered
-----------------------------------------------------------------------------
(* The demo's quota and its database.                                      *)

LEMMA CountedGrows ==
    ASSUME TypeOK, NEW r \in Runs, NEW stage, NEW reason, Recorded(r, stage, reason)
    PROVE  Cardinality(Counted') =
               IF r \in Live /\ stage = None THEN Cardinality(Counted) + 1 ELSE Cardinality(Counted)
<1> DEFINE n == Len(log) + 1
<1>1. log'[n].run = r /\ log'[n].denied = (stage # None)
  <2>1. log'[n] = Entry(r, stage, reason)
    BY LogGrows
  <2>2. Entry(r, stage, reason).run = r /\ Entry(r, stage, reason).denied = (stage # None)
    BY EntryFields
  <2> QED
    BY <2>1, <2>2
<1>2. CASE r \in Live /\ stage = None
  <2>1. Counted' = Counted \cup {n}
    BY <1>1, <1>2, LogGrows DEF Counted
  <2>2. n \notin Counted
    BY LogGrows DEF Counted
  <2>3. IsFiniteSet(Counted)
    BY LogGrows, FiniteDomain DEF Counted
  <2> QED
    BY <1>2, <2>1, <2>2, <2>3, FS_AddElement
<1>3. CASE ~(r \in Live /\ stage = None)
  <2>1. Counted' = Counted
    BY <1>1, <1>3, LogGrows DEF Counted
  <2> QED
    BY <1>3, <2>1
<1> QED
  BY <1>2, <1>3

LEMMA Admissible ==
    ASSUME NEW c \in Calls, Denial(c) = ""
    PROVE  ~OverQuota /\ (mode = "enforce" => c.permitted)
<1>1. mode = "enforce" => c.permitted
  BY DEF Denial
<1>2. ~OverQuota
  BY DEF Denial
<1> QED
  BY <1>1, <1>2

LEMMA QuotaFinishes ==
    ASSUME TypeOK, QuotaIsExact, NEW r \in Live, r \in Runs, NEW c \in Calls, Finish(r, c)
    PROVE  QuotaIsExact'
<1>1. Recorded(r, FailedStage(Denial(c)), Denial(c))
  BY FinishRecords
<1>2. FailedStage(Denial(c)) = None <=> Denial(c) = ""
  BY DeniedHasStage
<1>3. limits' = limits /\ limits.calls \in Nat /\ calls \in Nat
  BY ConsoleAssumption DEF TypeOK, Finish, process
<1>4. Execute(r, c, Denial(c))
  BY DEF Finish
<1>5. Cardinality(Counted') = IF Denial(c) = "" THEN Cardinality(Counted) + 1 ELSE Cardinality(Counted)
  <2>1. Cardinality(Counted') = IF r \in Live /\ FailedStage(Denial(c)) = None
                                THEN Cardinality(Counted) + 1 ELSE Cardinality(Counted)
    BY <1>1, CountedGrows
  <2> QED
    BY <1>2, <2>1
<1>6. CASE Denial(c) = ""
  <2>1. calls' = calls + 1
    BY <1>4, <1>6 DEF Execute
  <2>2. ~(calls >= limits.calls)
    BY <1>6, Admissible DEF OverQuota
  <2>3. calls' = Cardinality(Counted')
    BY <1>5, <1>6, <2>1 DEF QuotaIsExact
  <2>4. calls' <= limits'.calls
    BY <1>3, <2>1, <2>2
  <2> QED
    BY <2>3, <2>4 DEF QuotaIsExact
<1>7. CASE Denial(c) # ""
  <2>1. calls' = calls
    BY <1>4, <1>7 DEF Execute, demo
  <2> QED
    BY <1>3, <1>5, <1>7, <2>1 DEF QuotaIsExact
<1> QED
  BY <1>6, <1>7

LEMMA QuotaDemo ==
    ASSUME TypeOK, QuotaIsExact, NEW r \in Runs, NEW c \in Calls, RunDemo(r, c)
    PROVE  QuotaIsExact'
<1>1. Recorded(r, DemoStage(c), "") /\ r \notin Live
  BY DemoRecords DEF RunDemo
<1>2. Cardinality(Counted') = Cardinality(Counted)
  BY <1>1, CountedGrows
<1> QED
  BY <1>2 DEF RunDemo, demo, process, QuotaIsExact

LEMMA QuotaStarts ==
    ASSUME TypeOK, log = <<>>, calls = 0 PROVE QuotaIsExact
<1>1. Counted = {}
  BY DEF Counted
<1>2. Cardinality(Counted) = 0
  BY <1>1, FS_EmptySet
<1>3. limits.calls \in Nat
  BY ConsoleAssumption DEF TypeOK
<1> QED
  BY <1>2, <1>3 DEF QuotaIsExact

(* Only runs that were answered have changed the database: with the log it *)
(* makes OnlyPermittedWrites inductive.                                    *)
WritersAnswered == \A r \in changes : state[r] = "answered"

LEMMA WritesFinish ==
    ASSUME TypeOK, LogIsOfTheAnswered, WritersAnswered, OnlyPermittedWrites,
           NEW r \in Live, r \in Runs, NEW c \in Calls, Finish(r, c)
    PROVE  WritersAnswered' /\ OnlyPermittedWrites'
<1>1. /\ Recorded(r, FailedStage(Denial(c)), Denial(c))
      /\ FailedStage(Denial(c)) = None <=> Denial(c) = ""
  BY FinishRecords, DeniedHasStage
<1>2. /\ state' = [state EXCEPT ![r] = "answered"] /\ state[r] # "answered"
      /\ call' = [call EXCEPT ![r] = {c}] /\ mode' = mode
  BY DEF Finish, Becomes, ComesTo, process
<1>3. changes \subseteq Runs /\ r \notin changes
  BY <1>2 DEF TypeOK, WritersAnswered
<1>4. changes' \subseteq changes \cup {r} /\ (Denial(c) # "" => changes' = changes)
  BY DEF Finish, Execute, demo
<1>5. WritersAnswered'
  BY <1>2, <1>3, <1>4 DEF TypeOK, WritersAnswered
<1>6. ASSUME mode' = "enforce", NEW q \in changes', NEW d \in call'[q] PROVE d.permitted
  <2>1. CASE q = r
    <3>1. d = c
      BY <1>2, <1>6, <2>1 DEF TypeOK
    <3>2. Denial(c) = ""
      BY <1>3, <1>4, <1>6, <2>1
    <3> QED
      BY <1>2, <1>6, <3>1, <3>2, Admissible
  <2>2. CASE q # r
    <3>1. q \in changes /\ d \in call[q]
      BY <1>2, <1>3, <1>4, <1>6, <2>2 DEF TypeOK
    <3> QED
      BY <1>2, <1>6, <3>1 DEF OnlyPermittedWrites
  <2> QED
    BY <2>1, <2>2
<1>7. ASSUME NEW i \in DenialsIn(log') PROVE log'[i].run \notin changes'
  <2> DEFINE n == Len(log) + 1
  <2>1. CASE i = n
    <3>1. log'[i] = Entry(r, FailedStage(Denial(c)), Denial(c))
      BY <1>1, <2>1, LogGrows
    <3>2. Entry(r, FailedStage(Denial(c)), Denial(c)).run = r
      BY EntryFields
    <3>3. Entry(r, FailedStage(Denial(c)), Denial(c)).denied = (FailedStage(Denial(c)) # None)
      BY EntryFields
    <3>4. log'[i].denied
      BY <1>7 DEF DenialsIn
    <3>5. Denial(c) # ""
      BY <1>1, <3>1, <3>3, <3>4
    <3> QED
      BY <1>3, <1>4, <3>1, <3>2, <3>5
  <2>2. CASE i # n
    <3>1. i \in DOMAIN log /\ log'[i] = log[i]
      BY <1>1, <1>7, <2>2, LogGrows DEF DenialsIn
    <3>2. i \in DenialsIn(log)
      BY <1>7, <3>1 DEF DenialsIn
    <3>3. log[i].run \notin changes
      BY <3>2 DEF OnlyPermittedWrites
    <3>4. log[i].run # r
      BY <1>2, <3>1 DEF LogIsOfTheAnswered
    <3> QED
      BY <1>4, <3>1, <3>3, <3>4
  <2> QED
    BY <2>1, <2>2
<1> QED
  BY <1>5, <1>6, <1>7 DEF OnlyPermittedWrites

LEMMA WritesDemo ==
    ASSUME TypeOK, LogIsOfTheAnswered, WritersAnswered, OnlyPermittedWrites,
           NEW r \in Runs, NEW c \in Calls, RunDemo(r, c)
    PROVE  WritersAnswered' /\ OnlyPermittedWrites'
<1>1. Recorded(r, DemoStage(c), "")
  BY DemoRecords
<1>2. /\ state' = [state EXCEPT ![r] = "answered"] /\ state[r] # "answered"
      /\ call' = [call EXCEPT ![r] = {c}] /\ mode' = mode /\ changes' = changes
  BY DEF RunDemo, Starts, Becomes, ComesTo, process, demo
<1>3. changes \subseteq Runs /\ r \notin changes
  BY <1>2 DEF TypeOK, WritersAnswered
<1>4. WritersAnswered'
  BY <1>2, <1>3 DEF TypeOK, WritersAnswered
<1>5. mode' = "enforce" => \A q \in changes' : \A d \in call'[q] : d.permitted
  BY <1>2, <1>3 DEF TypeOK, OnlyPermittedWrites
<1>6. ASSUME NEW i \in DenialsIn(log') PROVE log'[i].run \notin changes'
  <2>1. CASE i = Len(log) + 1
    <3>1. log'[i] = Entry(r, DemoStage(c), "")
      BY <1>1, <2>1, LogGrows
    <3>2. Entry(r, DemoStage(c), "").run = r
      BY DEF Entry
    <3> QED
      BY <1>2, <1>3, <3>1, <3>2
  <2>2. CASE i # Len(log) + 1
    <3>1. i \in DOMAIN log /\ log'[i] = log[i]
      BY <1>1, <1>6, <2>2, LogGrows DEF DenialsIn
    <3>2. i \in DenialsIn(log)
      BY <1>6, <3>1 DEF DenialsIn
    <3> QED
      BY <1>2, <3>1, <3>2 DEF OnlyPermittedWrites
  <2> QED
    BY <2>1, <2>2
<1> QED
  BY <1>4, <1>5, <1>6 DEF OnlyPermittedWrites
-----------------------------------------------------------------------------
(* The inductive invariant.                                                *)
Consistent ==
    /\ TypeOK /\ OnlyLiveWait
    /\ FunnelAdds /\ LogIsOfTheAnswered
    /\ QuotaIsExact
    /\ WritersAnswered /\ OnlyPermittedWrites

LEMMA ConsistentInit == Init => Consistent
<1> SUFFICES ASSUME Init PROVE Consistent
  OBVIOUS
<1>1. TypeOK
  BY InitTypes
<1>2. OnlyLiveWait /\ LogIsOfTheAnswered
  BY LogStarts DEF Init, OnlyLiveWait
<1>3. FunnelAdds
  BY FunnelStarts DEF Init
<1>4. QuotaIsExact
  BY <1>1, QuotaStarts DEF Init
<1>5. WritersAnswered /\ OnlyPermittedWrites
  BY DEF Init, WritersAnswered, OnlyPermittedWrites, DenialsIn
<1> QED
  BY <1>1, <1>2, <1>3, <1>4, <1>5 DEF Consistent

LEMMA ConsistentQuiet ==
    ASSUME Consistent, TypeOK', OnlyLiveWait', Quiet PROVE Consistent'
<1> USE DEF Consistent
<1>1. UNCHANGED <<requests, denies, passed, failed, log, changes, calls, rows, mode, limits, call>>
  BY DEF Quiet, stats, demo, process
<1>2. \A q \in Runs : state'[q] = "answered" <=> state[q] = "answered"
  BY SameAnswered
<1>3. FunnelAdds'
  BY <1>1 DEF FunnelAdds, DenialsIn
<1>4. LogIsOfTheAnswered'
  BY <1>1, <1>2, LogStays
<1>5. QuotaIsExact'
  BY <1>1 DEF QuotaIsExact, Counted
<1>6. changes \subseteq Runs
  BY DEF TypeOK
<1>7. WritersAnswered' /\ OnlyPermittedWrites'
  BY <1>1, <1>2, <1>6 DEF WritersAnswered, OnlyPermittedWrites, DenialsIn
<1> QED
  BY <1>3, <1>4, <1>5, <1>7

LEMMA ConsistentReset ==
    ASSUME Consistent, TypeOK', OnlyLiveWait', Reset PROVE Consistent'
<1> USE DEF Consistent
<1>1. UNCHANGED <<requests, denies, passed, failed, log, calls, rows, mode, limits, state, call>>
  BY DEF Reset, stats, runs, process
<1>2. FunnelAdds'
  BY <1>1 DEF FunnelAdds, DenialsIn
<1>3. LogIsOfTheAnswered'
  BY <1>1, LogStays
<1>4. QuotaIsExact'
  BY <1>1 DEF QuotaIsExact, Counted
<1>5. WritersAnswered' /\ OnlyPermittedWrites'
  BY DEF Reset, WritersAnswered, OnlyPermittedWrites
<1> QED
  BY <1>2, <1>3, <1>4, <1>5

LEMMA ConsistentReboot ==
    ASSUME Consistent, TypeOK', OnlyLiveWait', Reboot PROVE Consistent'
<1>1. /\ requests' = 0 /\ denies' = 0 /\ passed' = Zeros /\ failed' = Zeros /\ log' = <<>>
      /\ calls' = 0 /\ changes' = {}
  BY DEF Reboot
<1>2. \A q \in Runs : state'[q] # "answered"
  BY DEF Reboot, Consistent, TypeOK
<1>3. FunnelAdds'
  <2>1. \A s \in 1..10 : passed'[s] = 0 /\ failed'[s] = 0
    BY <1>1, TenStages DEF Zeros
  <2>2. DenialsIn(log') = {}
    BY <1>1 DEF DenialsIn
  <2>3. Cardinality(DenialsIn(log')) = 0
    BY <2>2, FS_EmptySet
  <2>4. requests' = Len(log')
    BY <1>1
  <2> QED
    BY <1>1, <2>1, <2>3, <2>4, TenStages DEF FunnelAdds
<1>4. LogIsOfTheAnswered'
  BY <1>1, <1>2 DEF LogIsOfTheAnswered
<1>5. QuotaIsExact'
  <2>1. Counted' = {}
    BY <1>1 DEF Counted
  <2>2. Cardinality(Counted') = 0
    BY <2>1, FS_EmptySet
  <2>3. limits'.calls \in Nat
    BY ConsoleAssumption DEF TypeOK
  <2> QED
    BY <1>1, <2>2, <2>3 DEF QuotaIsExact
<1>6. WritersAnswered' /\ OnlyPermittedWrites'
  BY <1>1 DEF WritersAnswered, OnlyPermittedWrites, DenialsIn
<1> QED
  BY <1>3, <1>4, <1>5, <1>6 DEF Consistent

LEMMA ConsistentNext == Consistent /\ [Next]_vars => Consistent'
<1> SUFFICES ASSUME Consistent, [Next]_vars PROVE Consistent'
  OBVIOUS
<1>1. TypeOK' /\ OnlyLiveWait'
  BY NextTypes DEF Consistent
<1>2. CASE Quiet
  BY <1>1, <1>2, ConsistentQuiet
<1>3. CASE Reset
  BY <1>1, <1>3, ConsistentReset
<1>4. CASE Reboot
  BY <1>1, <1>4, ConsistentReboot
<1>5. ASSUME NEW r \in Live, NEW c \in Calls, r \in Runs, Finish(r, c) PROVE Consistent'
  <2>1. Recorded(r, FailedStage(Denial(c)), Denial(c))
    BY <1>5, FinishRecords
  <2>2. FunnelAdds' /\ LogIsOfTheAnswered'
    BY <1>5, <2>1, FunnelRecords, LogRecords DEF Consistent
  <2>3. QuotaIsExact'
    BY <1>5, QuotaFinishes DEF Consistent
  <2>4. WritersAnswered' /\ OnlyPermittedWrites'
    BY <1>5, WritesFinish DEF Consistent
  <2> QED
    BY <1>1, <2>2, <2>3, <2>4 DEF Consistent
<1>6. ASSUME NEW r \in Runs, NEW c \in Calls, RunDemo(r, c) PROVE Consistent'
  <2>1. Recorded(r, DemoStage(c), "")
    BY <1>6, DemoRecords
  <2>2. FunnelAdds' /\ LogIsOfTheAnswered'
    BY <1>6, <2>1, FunnelRecords, LogRecords DEF Consistent
  <2>3. QuotaIsExact'
    BY <1>6, QuotaDemo DEF Consistent
  <2>4. WritersAnswered' /\ OnlyPermittedWrites'
    BY <1>6, WritesDemo DEF Consistent
  <2> QED
    BY <1>1, <2>2, <2>3, <2>4 DEF Consistent
<1> QED
  BY <1>2, <1>3, <1>4, <1>5, <1>6, StepKinds DEF Consistent

LEMMA AlwaysConsistent == Spec => []Consistent
BY ConsistentInit, ConsistentNext, PTL DEF Spec

(* The dashboard's figures add up in every state, for any number of runs.  *)
THEOREM FiguresAddUp == Spec => []FunnelAdds
<1>1. Consistent => FunnelAdds
  BY DEF Consistent
<1> QED
  BY <1>1, AlwaysConsistent, PTL

(* The log of the process holds the runs it answered, each once.           *)
THEOREM LogIsComplete == Spec => []LogIsOfTheAnswered
<1>1. Consistent => LogIsOfTheAnswered
  BY DEF Consistent
<1> QED
  BY <1>1, AlwaysConsistent, PTL

(* The demo's quota counts the runs that were let through, and holds,      *)
(* however many wait for the model at once.                                *)
THEOREM QuotaHolds == Spec => []QuotaIsExact
<1>1. Consistent => QuotaIsExact
  BY DEF Consistent
<1> QED
  BY <1>1, AlwaysConsistent, PTL

(* While the demo enforces, only permitted statements have changed its     *)
(* database, and none that was reported as denied.                         *)
THEOREM DatabaseIsGuarded == Spec => []OnlyPermittedWrites
<1>1. Consistent => OnlyPermittedWrites
  BY DEF Consistent
<1> QED
  BY <1>1, AlwaysConsistent, PTL
-----------------------------------------------------------------------------
(* The sessions.                                                           *)

(* What the browser holds was signed at a sign-in, under its secret.       *)
SignedAtLogin ==
    \A t \in session : \E l \in login : t = [secret |-> l.secret, exp |-> l.at + Ttl]

LEMMA AdmittedLately ==
    ASSUME AuthTypeOK, SignedAtLogin, Admitted PROVE SignedInLately
<1>1. PICK t \in session : t.secret = secret /\ now < t.exp
  BY DEF Admitted, Verifies
<1>2. PICK l \in login : t = [secret |-> l.secret, exp |-> l.at + Ttl]
  BY <1>1 DEF SignedAtLogin
<1>3. l.at \in 0..now /\ now \in 0..MaxTime
  BY DEF AuthTypeOK
<1>4. l.at <= now
  BY <1>3, AuthAssumption
<1> QED
  BY <1>1, <1>2, <1>4 DEF SignedInLately

LEMMA SignedNext ==
    ASSUME SignedAtLogin, [Next]_vars PROVE SignedAtLogin'
<1>1. ASSUME NEW way \in {"login", "sso"}, NEW valid \in BOOLEAN, SignIn(way, valid)
      PROVE  SignedAtLogin'
  <2>1. /\ session' = {[secret |-> secret, exp |-> now + Ttl]}
        /\ login' = {[secret |-> secret, at |-> now]}
    BY <1>1 DEF SignIn, CreateToken
  <2> QED
    BY <2>1 DEF SignedAtLogin
<1>2. CASE UNCHANGED <<session, login>>
  BY <1>2 DEF SignedAtLogin
<1>3. ASSUME Operates PROVE SignedAtLogin'
  BY <1>1, <1>2, <1>3 DEF Operates, Tick
<1>4. CASE Reboot \/ Reset \/ UNCHANGED vars
  BY <1>2, <1>4 DEF Reboot, Redeploys, Reset, authVars, vars
<1>5. ASSUME NEW r \in Runs,
             \/ Refuse(r) \/ StartScenario(r) \/ ModelAnswers(r) \/ ModelGivesUp(r) \/ ModelRaises(r)
             \/ \E c \in Calls : RunDemo(r, c)
      PROVE  SignedAtLogin'
  BY <1>2, <1>5 DEF Refuse, StartScenario, ModelAnswers, ModelGivesUp, Finish, ModelRaises,
                    RunDemo, authVars
<1> QED
  BY <1>3, <1>4, <1>5 DEF Next

LEMMA ServedIsAdmitted ==
    ASSUME TypeOK, [Next]_vars, Served PROVE Admitted
<1>2. CASE UNCHANGED vars
  BY <1>2 DEF vars, runs, demo, Served
<1>3. ASSUME Operates, UNCHANGED <<runs, demo, stats, process>> PROVE Admitted
  BY <1>3 DEF runs, demo, Served
<1>4. ASSUME NEW r \in Runs, Refuse(r) PROVE Admitted
  BY <1>4 DEF Refuse, Becomes, TypeOK, Served, demo
<1>5. ASSUME NEW r \in Runs, ModelRaises(r) PROVE Admitted
  BY <1>5 DEF ModelRaises, Becomes, TypeOK, Served, demo
<1>6. ASSUME NEW r \in Runs, NEW c, Finish(r, c) PROVE Admitted
  <2>1. state[r] = "generating" /\ state' = [state EXCEPT ![r] = "answered"]
    BY <1>6 DEF Finish, Becomes
  <2>2. \A q \in Runs : state[q] = "new" => state'[q] = "new"
    BY <2>1 DEF TypeOK
  <2>3. changes' = changes \/ r \in changes'
    BY <1>6 DEF Finish, Execute, demo
  <2> QED
    BY <2>2, <2>3 DEF Served
<1>7. CASE Reboot
  <2>1. reboots' # reboots
    BY <1>7, ConsoleAssumption DEF Reboot, TypeOK
  <2>2. \A q \in Runs : state[q] = "new" => state'[q] = "new"
    BY <1>7 DEF Reboot
  <2> QED
    BY <2>1, <2>2 DEF Served
<1>8. CASE Reset
  BY <1>8 DEF Reset
<1>9. ASSUME NEW r \in Runs, StartScenario(r) \/ \E c \in Calls : RunDemo(r, c) PROVE Admitted
  BY <1>9 DEF StartScenario, RunDemo
<1>10. ASSUME NEW r \in Runs, ModelAnswers(r) \/ ModelGivesUp(r) PROVE Admitted
  BY <1>6, <1>10 DEF ModelAnswers, ModelGivesUp
<1> QED
  BY <1>2, <1>3, <1>4, <1>5, <1>7, <1>8, <1>9, <1>10 DEF Next

(* Nothing is started or reset by anybody who has not signed in under the  *)
(* secret of the process, within the lifetime of a token.                  *)
THEOREM SessionsExpire == Spec => AccessIsEarned
<1>1. Init => SignedAtLogin
  BY DEF Init, AuthInit, SignedAtLogin
<1>2. SignedAtLogin /\ [Next]_vars => SignedAtLogin'
  BY SignedNext
<1>3. Consistent /\ SignedAtLogin /\ [Next]_vars => [Served => SignedInLately]_vars
  <2>1. Consistent => TypeOK /\ AuthTypeOK
    BY DEF Consistent, TypeOK
  <2> QED
    BY <2>1, ServedIsAdmitted, AdmittedLately
<1> QED
  BY <1>1, <1>2, <1>3, AlwaysConsistent, PTL DEF Spec, AccessIsEarned
-----------------------------------------------------------------------------
(* The quota once it is used up.                                           *)
Spent ==
    /\ OverQuota'
    /\ \A r \in Live :
          state[r] # "answered" /\ state'[r] = "answered" => log'[Len(log')].denied

LEMMA SpentStays ==
    ASSUME OverQuota, UNCHANGED <<calls, rows, limits>>,
           \A r \in Runs : state'[r] = "answered" => state[r] = "answered" \/ r \notin Live
    PROVE  Spent
<1>1. OverQuota'
  BY DEF OverQuota
<1>2. Live \subseteq Runs
  BY ConsoleAssumption
<1> QED
  BY <1>1, <1>2 DEF Spent

LEMMA SpentDenies ==
    ASSUME TypeOK, OverQuota, NEW r \in Live, r \in Runs, NEW c \in Calls, Finish(r, c)
    PROVE  Spent
<1>1. Denial(c) # ""
  BY Admissible
<1>2. /\ Recorded(r, FailedStage(Denial(c)), Denial(c))
      /\ FailedStage(Denial(c)) # None
  BY <1>1, FinishRecords, DeniedHasStage
<1>3. UNCHANGED <<calls, rows, limits>>
  BY <1>1 DEF Finish, Execute, demo, process
<1>4. log'[Len(log')].denied
  <2>1. log'[Len(log')] = Entry(r, FailedStage(Denial(c)), Denial(c))
    BY <1>2, LogGrows
  <2>2. Entry(r, FailedStage(Denial(c)), Denial(c)).denied = (FailedStage(Denial(c)) # None)
    BY EntryFields
  <2> QED
    BY <1>2, <2>1, <2>2
<1>5. OverQuota'
  BY <1>3 DEF OverQuota
<1> QED
  BY <1>4, <1>5 DEF Spent

LEMMA SpentNext ==
    ASSUME Consistent, [Next]_vars, OverQuota, reboots' = reboots PROVE Spent
<1> USE DEF Consistent
<1>1. CASE Quiet
  BY <1>1, SpentStays, SameAnswered DEF Quiet, demo, process
<1>2. CASE Reset
  BY <1>2, SpentStays DEF Reset, runs, process
<1>3. CASE Reboot
  BY <1>3, ConsoleAssumption DEF Reboot, TypeOK
<1>4. ASSUME NEW r \in Live, NEW c \in Calls, r \in Runs, Finish(r, c) PROVE Spent
  BY <1>4, SpentDenies
<1>5. ASSUME NEW r \in Runs, NEW c \in Calls, RunDemo(r, c) PROVE Spent
  <2>1. r \notin Live /\ UNCHANGED <<calls, rows, limits>>
    BY <1>5 DEF RunDemo, demo, process
  <2>2. \A q \in Runs : state'[q] = "answered" => state[q] = "answered" \/ q = r
    BY <1>5 DEF RunDemo, Becomes, TypeOK
  <2> QED
    BY <2>1, <2>2, SpentStays
<1> QED
  BY <1>1, <1>2, <1>3, <1>4, <1>5, StepKinds

(* Once the demo's quota is used up it stays so, and every scenario is     *)
(* denied, until the process ends: a reset does not bring it back.         *)
THEOREM QuotaStaysSpent == Spec => SpentUntilReboot
<1>1. Consistent /\ [Next]_vars => [OverQuota /\ reboots' = reboots =>
          /\ OverQuota'
          /\ \A r \in Live : state[r] # "answered" /\ state'[r] = "answered" => log'[Len(log')].denied]_vars
  BY SpentNext DEF Spent
<1> QED
  BY <1>1, AlwaysConsistent, PTL DEF Spec, SpentUntilReboot
=============================================================================
