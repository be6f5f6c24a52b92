---------------------- MODULE EnforcementPipelineProofs ----------------------
(***************************************************************************)
(* Theorems about EnforcementPipeline, for every number of slots, workers  *)
(* and callers, every limit, either store, either broker, either mode.     *)
(***************************************************************************)
EXTENDS EnforcementPipeline, FiniteSetTheorems, TLAPS

-----------------------------------------------------------------------------
(* Type correctness of the pure steps on a task.                           *)

LEMMA FreshType ==
    ASSUME NEW r \in Inputs, NEW b \in BOOLEAN
    PROVE  Fresh(r, b) \in Tasks
BY PipelineAssumption DEF Fresh, Tasks, Ended, Reasons

LEMMA DiscardType ==
    ASSUME NEW t \in Tasks
    PROVE  Discard(t) \in Tasks
BY DEF Discard, Tasks

LEMMA EmitType ==
    ASSUME NEW t \in Tasks
    PROVE  Emit(t) \in Tasks
BY DEF Emit, Tasks

LEMMA AnsweredType ==
    ASSUME NEW t \in Tasks, NEW body \in {"success", "error"}
    PROVE  Answered(t, body) \in Tasks
BY DEF Answered, Tasks, Ended

LEMMA RefusedType ==
    ASSUME NEW t \in Tasks, NEW why \in Reasons
    PROVE  Refused(t, why) \in Tasks
<1> DEFINE u == Answered(Discard(t), "error")
<1>1. u \in Tasks
  BY DiscardType, AnsweredType
<1>2. [u EXCEPT !.reason = why] \in Tasks
  <2> HIDE DEF u
  <2> QED BY <1>1 DEF Tasks
<1> QED
  BY <1>2, EmitType DEF Refused

LEMMA SucceededType ==
    ASSUME NEW t \in Tasks
    PROVE  Succeeded(t) \in Tasks
<1> DEFINE u == Answered(Discard(t), "success")
<1>1. u \in Tasks
  BY DiscardType, AnsweredType
<1>2. [u EXCEPT !.decision = "ALLOW"] \in Tasks
  <2> HIDE DEF u
  <2> QED BY <1>1 DEF Tasks
<1> QED
  BY <1>2, EmitType DEF Succeeded

LEMMA AbortedType ==
    ASSUME NEW t \in Tasks
    PROVE  Aborted(t) \in Tasks
<1> DEFINE u == Discard(t)
<1>1. u \in Tasks
  BY DiscardType
<1>2. [u EXCEPT !.pc = "aborted"] \in Tasks
  <2> HIDE DEF u
  <2> QED BY <1>1 DEF Tasks, Ended
<1> QED
  BY <1>2, EmitType DEF Aborted

LEMMA ChargedType ==
    ASSUME NEW t \in Tasks
    PROVE  Charged(t) \in Tasks
BY DEF Charged, Tasks

LEMMA UnspentType ==
    ASSUME NEW t \in Tasks
    PROVE  Unspent(t) \in Tasks
BY DEF Unspent, Tasks

LEMMA LostType ==
    ASSUME NEW t \in Tasks
    PROVE  Lost(t) \in Tasks
BY DEF Lost, Tasks, Ended

LEMMA CheckedType ==
    ASSUME NEW t \in Tasks, NEW k
    PROVE  Checked(t, k) \in Tasks
BY DEF Checked, Tasks

LEMMA ReasonNames == {"quota", "mint", "execution", "unhandled"} \subseteq Reasons
BY DEF Reasons

LEMMA MintedType ==
    ASSUME NEW t \in Tasks
    PROVE  Minted(t) \in Tasks
BY DEF Minted, Tasks

LEMMA ExecutingType ==
    ASSUME NEW t \in Tasks
    PROVE  Executing(t) \in Tasks
<1> DEFINE u == Minted(t)
<1>1. u \in Tasks
  BY MintedType
<1>2. [u EXCEPT !.pc = "executing", !.target = "pending"] \in Tasks
  BY <1>1 DEF Tasks, Waiting
<1>3. Refused(u, "execution") \in Tasks
  BY <1>1, RefusedType, ReasonNames
<1> QED
  BY <1>2, <1>3 DEF Executing

LEMMA AfterCheckType ==
    ASSUME NEW t \in Tasks, NEW m \in {"ok", "mint", "unhandled"}
    PROVE  AfterCheck(t, m) \in Tasks
BY RefusedType, ReasonNames, ExecutingType DEF AfterCheck

LEMMA MintResultsType ==
    ASSUME NEW r
    PROVE  MintResults(r) \subseteq {"ok", "mint", "unhandled"}
BY DEF MintResults

LEMMA ReturnedType ==
    ASSUME NEW t \in Tasks, NEW u \in Returned(t)
    PROVE  u \in Tasks
BY PipelineAssumption DEF Returned, Tasks

LEMMA StoreOfType == \A s \in Slots : StoreOf(s) \in Stores
BY PipelineAssumption DEF StoreOf, Stores

LEMMA CallerType ==
    ASSUME NEW t \in Tasks
    PROVE  t.req \in Inputs /\ t.req.caller \in Callers
BY GatesAssumption DEF Tasks, Requests

LEMMA StartType ==
    ASSUME NEW s \in Slots, NEW r \in Inputs
    PROVE  Start(s, r) \in Tasks
BY FreshType DEF Start, OverQuota

LEMMA SetType ==
    ASSUME task \in [Slots -> Tasks], NEW s \in Slots, NEW t \in Tasks, Set(s, t)
    PROVE  task' \in [Slots -> Tasks]
BY DEF Set

LEMMA RecordType ==
    ASSUME TypeOK, NEW k \in Stores, NEW c \in Callers, NEW n \in 0..MaxRows,
           Record(k, c, n)
    PROVE  /\ calls' \in [Stores -> [Callers -> Nat]]
           /\ records' \in [Stores -> [Callers -> Nat]]
BY PipelineAssumption DEF Record, TypeOK

-----------------------------------------------------------------------------
(* Every reachable state is well typed.                                    *)

LEMMA InitType == Init => TypeOK
<1> SUFFICES ASSUME Init PROVE TypeOK
  OBVIOUS
<1>1. (CHOOSE r \in Inputs : TRUE) \in Inputs
  BY GatesAssumption
<1> QED
  BY <1>1, FreshType DEF Init, TypeOK

LEMMA NextType == TypeOK /\ [Next]_vars => TypeOK'
<1> SUFFICES ASSUME TypeOK, [Next]_vars PROVE TypeOK'
  OBVIOUS
<1>0. task \in [Slots -> Tasks]
  BY DEF TypeOK
<1>1. ASSUME NEW s \in Slots, NEW r \in Inputs, ReceiveRefused(s, r)
      PROVE  TypeOK'
  <2>1. PICK i \in DOMAIN Gates : Set(s, Refused(Start(s, r), Gates[i]))
    BY <1>1 DEF ReceiveRefused
  <2>2. Refused(Start(s, r), Gates[i]) \in Tasks
    BY StartType, RefusedType DEF Reasons
  <2> QED
    BY <1>0, <1>1, <2>1, <2>2, SetType DEF ReceiveRefused, TypeOK
<1>2. ASSUME NEW s \in Slots, NEW r \in Inputs, ReceiveMemory(s, r)
      PROVE  TypeOK'
  <2>1. PICK m \in MintResults(r) :
           Set(s, AfterCheck(Checked(Start(s, r), StoreOf(s)), m))
    BY <1>2 DEF ReceiveMemory
  <2>2. AfterCheck(Checked(Start(s, r), StoreOf(s)), m) \in Tasks
    BY StartType, CheckedType, AfterCheckType, MintResultsType
  <2> QED
    BY <1>0, <1>2, <2>1, <2>2, SetType DEF ReceiveMemory, TypeOK
<1>3. ASSUME NEW s \in Slots, NEW r \in Inputs, ReceiveRedis(s, r)
      PROVE  TypeOK'
  <2>1. [Start(s, r) EXCEPT !.pc = "checking"] \in Tasks
    BY StartType DEF Tasks, Waiting
  <2> QED
    BY <1>0, <1>3, <2>1, SetType DEF ReceiveRedis, TypeOK
<1>4. ASSUME NEW s \in Slots, RedisCheck(s)
      PROVE  TypeOK'
  <2>1. [Checked(task[s], StoreOf(s)) EXCEPT !.pc = "checked"] \in Tasks
    BY <1>0, CheckedType DEF Tasks, Waiting
  <2> QED
    BY <1>0, <1>4, <2>1, SetType DEF RedisCheck, TypeOK
<1>5. ASSUME NEW s \in Slots, CheckReturns(s)
      PROVE  TypeOK'
  <2>1. PICK m \in MintResults(task[s].req) : Set(s, AfterCheck(task[s], m))
    BY <1>5 DEF CheckReturns
  <2>2. AfterCheck(task[s], m) \in Tasks
    BY <1>0, AfterCheckType, MintResultsType
  <2> QED
    BY <1>0, <1>5, <2>1, <2>2, SetType DEF CheckReturns, TypeOK
<1>6. ASSUME NEW s \in Slots, CheckFails(s) \/ RecordFails(s)
      PROVE  TypeOK'
  <2>1. Refused(task[s], "unhandled") \in Tasks
    BY <1>0, RefusedType, ReasonNames
  <2> QED
    BY <1>0, <1>6, <2>1, SetType DEF CheckFails, RecordFails, TypeOK
<1>7. ASSUME NEW s \in Slots, TargetActs(s) \/ TargetRejects(s)
      PROVE  TypeOK'
  <2>1. /\ [task[s] EXCEPT !.target = "acted"] \in Tasks
        /\ [task[s] EXCEPT !.target = "rejected"] \in Tasks
    BY <1>0 DEF Tasks
  <2> QED
    BY <1>0, <1>7, <2>1, SetType DEF TargetActs, TargetRejects, TypeOK
<1>8. ASSUME NEW s \in Slots, ExecuteReturnsMemory(s)
      PROVE  TypeOK'
  <2>1. PICK t \in Returned(task[s]) :
           /\ Set(s, Succeeded(Charged(t)))
           /\ Record(StoreOf(s), t.req.caller, t.rows)
    BY <1>8 DEF ExecuteReturnsMemory
  <2>2. t \in Tasks
    BY <1>0, ReturnedType
  <2>3. Succeeded(Charged(t)) \in Tasks
    BY <2>2, ChargedType, SucceededType
  <2>4. t.req.caller \in Callers /\ t.rows \in 0..MaxRows
    BY <2>2, CallerType DEF Tasks
  <2> QED
    BY <1>0, <1>8, <2>1, <2>3, <2>4, SetType, RecordType, StoreOfType
       DEF ExecuteReturnsMemory, TypeOK
<1>9. ASSUME NEW s \in Slots, ExecuteReturnsRedis(s)
      PROVE  TypeOK'
  <2>1. PICK t \in Returned(task[s]) : Set(s, [t EXCEPT !.pc = "recording"])
    BY <1>9 DEF ExecuteReturnsRedis
  <2>2. t \in Tasks
    BY <1>0, ReturnedType
  <2>3. [t EXCEPT !.pc = "recording"] \in Tasks
    BY <2>2 DEF Tasks, Waiting
  <2> QED
    BY <1>0, <1>9, <2>1, <2>3, SetType DEF ExecuteReturnsRedis, TypeOK
<1>10. ASSUME NEW s \in Slots, ExecuteRaises(s)
       PROVE  TypeOK'
  <2>1. PICK why \in {"execution", "unhandled"} : Set(s, Refused(task[s], why))
    BY <1>10 DEF ExecuteRaises
  <2>2. Refused(task[s], why) \in Tasks
    BY <1>0, RefusedType, ReasonNames
  <2> QED
    BY <1>0, <1>10, <2>1, <2>2, SetType DEF ExecuteRaises, TypeOK
<1>11. ASSUME NEW s \in Slots, RedisRecord(s)
       PROVE  TypeOK'
  <2>1. [Charged(task[s]) EXCEPT !.pc = "recorded"] \in Tasks
    BY <1>0, ChargedType DEF Tasks, Waiting
  <2>2. task[s].req.caller \in Callers /\ task[s].rows \in 0..MaxRows
    BY <1>0, CallerType DEF Tasks
  <2> QED
    BY <1>0, <1>11, <2>1, <2>2, SetType, RecordType, StoreOfType
       DEF RedisRecord, TypeOK
<1>12. ASSUME NEW s \in Slots, RecordReturns(s)
       PROVE  TypeOK'
  BY <1>0, <1>12, SetType, SucceededType DEF RecordReturns, TypeOK
<1>13. ASSUME NEW s \in Slots, Cancel(s)
       PROVE  TypeOK'
  BY <1>0, <1>13, SetType, AbortedType DEF Cancel, TypeOK
<1>14. ASSUME NEW w \in Workers, StopWorker(w)
       PROVE  TypeOK'
  BY <1>14 DEF StopWorker, TypeOK
<1>15. ASSUME NEW w \in Workers, RestartWorker(w)
       PROVE  TypeOK'
  <2>1. task' \in [Slots -> Tasks]
    BY <1>0, <1>15, LostType, UnspentType DEF RestartWorker
  <2>2. Zeros \in [Callers -> Nat]
    BY DEF Zeros
  <2>3. calls' \in [Stores -> [Callers -> Nat]] /\ records' \in [Stores -> [Callers -> Nat]]
    BY <1>15, <2>2 DEF RestartWorker, TypeOK
  <2>4. stopping' \subseteq Workers /\ faults' \in Nat
    BY <1>15 DEF RestartWorker, TypeOK
  <2> QED
    BY <2>1, <2>3, <2>4 DEF TypeOK
<1>16. ASSUME NEW C \in SUBSET Callers, LoseCounters(C)
       PROVE  TypeOK'
  <2>1. task' \in [Slots -> Tasks]
    BY <1>0, <1>16, UnspentType DEF LoseCounters
  <2>2. calls' \in [Stores -> [Callers -> Nat]] /\ records' \in [Stores -> [Callers -> Nat]]
    BY <1>16 DEF LoseCounters, TypeOK
  <2> QED
    BY <1>16, <2>1, <2>2 DEF LoseCounters, TypeOK
<1>17. CASE UNCHANGED vars
  BY <1>17 DEF vars, TypeOK
<1> QED
  BY <1>1, <1>2, <1>3, <1>4, <1>5, <1>6, <1>7, <1>8, <1>9, <1>10, <1>11, <1>12,
     <1>13, <1>14, <1>15, <1>16, <1>17 DEF Next, RedisServes, ExecuteEnds

(* Type correctness of the request path (pipeline.py 144-295).             *)
THEOREM TypeCorrect == Spec => []TypeOK
BY InitType, NextType, PTL DEF Spec

-----------------------------------------------------------------------------
(* Every step is a step of the soft quota, for each store and caller.      *)

QuotaSteps ==
    \A k \in Stores, c \in Callers : [Quota(k, c)!Next]_(Quota(k, c)!vars)

(* What writing one slot does to the places held.                          *)
LEMMA SetHolders ==
    ASSUME task \in [Slots -> Tasks], NEW s \in Slots, NEW t \in Tasks, Set(s, t),
           NEW k, NEW c
    PROVE  Holders(k, c)' = IF StoreOf(s) = k /\ t.req.caller = c /\ Holds(t)
                            THEN Holders(k, c) \cup {s}
                            ELSE Holders(k, c) \ {s}
BY DEF Set, Holders, SlotsOf, Holds

(* A request that ends, or never held a place.                             *)
LEMMA GiveUpStep ==
    ASSUME TypeOK, NEW s \in Slots, NEW t \in Tasks, Set(s, t), ~Holds(t),
           UNCHANGED <<calls, records>>
    PROVE  QuotaSteps
<1> SUFFICES ASSUME NEW k \in Stores, NEW c \in Callers
             PROVE  [Quota(k, c)!Next]_(Quota(k, c)!vars)
  BY DEF QuotaSteps
<1>1. Holders(k, c)' = Holders(k, c) \ {s}
  BY SetHolders DEF TypeOK
<1>2. Quota(k, c)!GiveUp(Holders(k, c) \cap {s})
  BY <1>1 DEF Quota!GiveUp
<1> QED
  BY <1>2 DEF Quota!Next

(* A request that keeps what it holds.                                     *)
LEMMA KeepStep ==
    ASSUME TypeOK, NEW s \in Slots, NEW t \in Tasks, Set(s, t),
           t.req = task[s].req, Holds(t) <=> Holds(task[s]),
           UNCHANGED <<calls, records>>
    PROVE  QuotaSteps
<1> SUFFICES ASSUME NEW k \in Stores, NEW c \in Callers
             PROVE  [Quota(k, c)!Next]_(Quota(k, c)!vars)
  BY DEF QuotaSteps
<1>1. s \in Holders(k, c) <=> StoreOf(s) = k /\ t.req.caller = c /\ Holds(t)
  BY DEF Holders, SlotsOf
<1>2. Holders(k, c)' = IF s \in Holders(k, c) THEN Holders(k, c) \cup {s}
                                             ELSE Holders(k, c) \ {s}
  BY <1>1, SetHolders DEF TypeOK
<1>3. Holders(k, c)' = Holders(k, c)
  BY <1>2
<1> QED
  BY <1>3 DEF Quota!vars

(* A request whose caller's counters were just seen below their limits.    *)
LEMMA GrantStep ==
    ASSUME TypeOK, NEW s \in Slots, NEW t \in Tasks, Set(s, t),
           ~Holds(task[s]), ~OverQuota(StoreOf(s), t.req.caller),
           UNCHANGED <<calls, records>>
    PROVE  QuotaSteps
<1>1. CASE ~Holds(t)
  BY <1>1, GiveUpStep
<1>2. CASE Holds(t)
  <2> SUFFICES ASSUME NEW k \in Stores, NEW c \in Callers
               PROVE  [Quota(k, c)!Next]_(Quota(k, c)!vars)
    BY DEF QuotaSteps
  <2>1. s \notin Holders(k, c)
    BY DEF Holders
  <2>2. CASE StoreOf(s) = k /\ t.req.caller = c
    <3>1. Holders(k, c)' = Holders(k, c) \cup {s}
      BY <1>2, <2>2, SetHolders DEF TypeOK
    <3>2. calls[k][c] < MaxCalls /\ records[k][c] < MaxRecords
      BY <2>2, PipelineAssumption DEF OverQuota, TypeOK
    <3>3. s \in SlotsOf(k)
      BY <2>2 DEF SlotsOf
    <3>4. Quota(k, c)!Grant(s)
      BY <2>1, <3>1, <3>2 DEF Quota!Grant
    <3> QED
      BY <3>3, <3>4 DEF Quota!Next
  <2>3. CASE ~(StoreOf(s) = k /\ t.req.caller = c)
    <3>1. Holders(k, c)' = Holders(k, c) \ {s}
      BY <2>3, SetHolders DEF TypeOK
    <3> QED
      BY <2>1, <3>1 DEF Quota!vars
  <2> QED
    BY <2>2, <2>3
<1> QED
  BY <1>1, <1>2

(* A request whose increments are applied.                                 *)
LEMMA ChargeStep ==
    ASSUME TypeOK, NEW s \in Slots, NEW t \in Tasks, Set(s, t), NEW n \in 0..MaxRows,
           Holds(task[s]), ~Holds(t),
           Record(StoreOf(s), task[s].req.caller, n)
    PROVE  QuotaSteps
<1> SUFFICES ASSUME NEW k \in Stores, NEW c \in Callers
             PROVE  [Quota(k, c)!Next]_(Quota(k, c)!vars)
  BY DEF QuotaSteps
<1>1. Holders(k, c)' = Holders(k, c) \ {s}
  BY SetHolders DEF TypeOK
<1>2. CASE StoreOf(s) = k /\ task[s].req.caller = c
  <2>1. s \in SlotsOf(k) /\ s \in Holders(k, c)
    BY <1>2 DEF SlotsOf, Holders
  <2>2. calls'[k][c] = calls[k][c] + 1 /\ records'[k][c] = records[k][c] + n
    BY <1>2 DEF Record, TypeOK
  <2>3. Quota(k, c)!Charge(s)
    BY <1>1, <2>1, <2>2 DEF Quota!Charge
  <2> QED
    BY <2>1, <2>3 DEF Quota!Next
<1>3. CASE ~(StoreOf(s) = k /\ task[s].req.caller = c)
  <2>1. s \notin Holders(k, c)
    BY <1>3 DEF Holders, SlotsOf
  <2>2. calls'[k][c] = calls[k][c] /\ records'[k][c] = records[k][c]
    BY <1>3 DEF Record, TypeOK
  <2> QED
    BY <1>1, <2>1, <2>2 DEF Quota!vars
<1> QED
  BY <1>2, <1>3

(* What the pure steps do to the fields that matter here.                  *)
LEMMA EndingFields ==
    ASSUME NEW t \in Tasks, NEW body \in {"success", "error"}
    PROVE  /\ Discard(t).pc = t.pc /\ Discard(t).req = t.req
           /\ Emit(t).pc = t.pc /\ Emit(t).req = t.req
           /\ Answered(t, body).pc = "answered" /\ Answered(t, body).req = t.req
BY DEF Discard, Emit, Answered, Tasks

LEMMA RefusedFields ==
    ASSUME NEW t \in Tasks, NEW why \in Reasons
    PROVE  Refused(t, why).pc = "answered" /\ Refused(t, why).req = t.req
<1> DEFINE u == Answered(Discard(t), "error")
           v == [u EXCEPT !.reason = why]
<1>1. u \in Tasks /\ u.pc = "answered" /\ u.req = t.req
  BY DiscardType, AnsweredType, EndingFields
<1>2. v \in Tasks /\ v.pc = "answered" /\ v.req = t.req
  <2> HIDE DEF u
  <2> QED BY <1>1 DEF Tasks
<1> QED
  BY <1>2, EndingFields DEF Refused

LEMMA SucceededFields ==
    ASSUME NEW t \in Tasks
    PROVE  Succeeded(t).pc = "answered"
<1> DEFINE u == Answered(Discard(t), "success")
           v == [u EXCEPT !.decision = "ALLOW"]
<1>1. u \in Tasks /\ u.pc = "answered"
  BY DiscardType, AnsweredType, EndingFields
<1>2. v \in Tasks /\ v.pc = "answered"
  <2> HIDE DEF u
  <2> QED BY <1>1 DEF Tasks
<1> QED
  BY <1>2, EndingFields DEF Succeeded

LEMMA EndedHoldsNothing ==
    ASSUME NEW t \in Tasks, NEW why \in Reasons
    PROVE  ~Holds(Refused(t, why)) /\ ~Holds(Succeeded(t)) /\ ~Holds(Aborted(t))
<1>1. Aborted(t).pc = "aborted"
  BY DiscardType DEF Aborted, Emit, Tasks
<1> QED
  BY <1>1, RefusedFields, SucceededFields DEF Holds

LEMMA ExecutingReq ==
    ASSUME NEW t \in Tasks
    PROVE  Executing(t).req = t.req
<1>1. Minted(t) \in Tasks
  BY MintedType
<1>2. Minted(t).req = t.req
  BY DEF Minted, Tasks
<1>3. Refused(Minted(t), "execution").req = t.req
  BY <1>1, <1>2, RefusedFields, ReasonNames
<1>4. [Minted(t) EXCEPT !.pc = "executing", !.target = "pending"].req = t.req
  BY <1>1, <1>2 DEF Tasks
<1> QED
  BY <1>3, <1>4 DEF Executing

LEMMA AfterCheckFields ==
    ASSUME NEW t \in Tasks, NEW m \in {"ok", "mint", "unhandled"}
    PROVE  /\ AfterCheck(t, m).req = t.req
           /\ t.verdict = "over" => ~Holds(AfterCheck(t, m))
BY RefusedFields, ExecutingReq, EndedHoldsNothing, ReasonNames DEF AfterCheck

LEMMA CheckedFields ==
    ASSUME NEW t \in Tasks, NEW k
    PROVE  /\ Checked(t, k).req = t.req
           /\ Checked(t, k).verdict = IF OverQuota(k, t.req.caller) THEN "over" ELSE "under"
BY DEF Checked, Tasks

LEMMA LostFields ==
    ASSUME NEW t \in Tasks
    PROVE  /\ ~Holds(Lost(t)) /\ Lost(t).req = t.req
           /\ Holds(Unspent(t)) <=> Holds(t)
           /\ Unspent(t).req = t.req
<1>1. Lost(t).pc \notin Waiting /\ Lost(t).req = t.req
  BY DEF Lost, Tasks, Waiting, Ended
<1>2. Unspent(t).pc = t.pc /\ Unspent(t).verdict = t.verdict /\ Unspent(t).req = t.req
  BY DEF Unspent, Tasks
<1> QED
  BY <1>1, <1>2 DEF Holds, Waiting

LEMMA ReturnedFields ==
    ASSUME NEW t \in Tasks, NEW u \in Returned(t)
    PROVE  u.req = t.req /\ u.pc = t.pc /\ u.verdict = t.verdict
BY DEF Returned, Tasks

LEMMA RestartStep ==
    ASSUME TypeOK, NEW w \in Workers, RestartWorker(w)
    PROVE  QuotaSteps
<1> SUFFICES ASSUME NEW k \in Stores, NEW c \in Callers
             PROVE  [Quota(k, c)!Next]_(Quota(k, c)!vars)
  BY DEF QuotaSteps
<1> DEFINE gone == {s \in Holders(k, c) : WorkerOf[s] = w}
<1>1. ASSUME NEW s \in Slots
      PROVE  IF WorkerOf[s] = w THEN ~Holds(task'[s]) ELSE task'[s] = task[s]
  <2>1. Lost(task[s]) \in Tasks
    BY LostType DEF TypeOK
  <2>2. ~Holds(Lost(task[s])) /\ ~Holds(Unspent(Lost(task[s])))
    BY <2>1, LostFields DEF TypeOK
  <2> QED
    BY <2>2 DEF RestartWorker
<1>2. Holders(k, c)' = Holders(k, c) \ gone
  BY <1>1 DEF Holders, SlotsOf
<1>3. CASE Store = "redis"
  <2>1. Quota(k, c)!GiveUp(gone)
    BY <1>2, <1>3 DEF Quota!GiveUp, RestartWorker
  <2> QED
    BY <2>1 DEF Quota!Next
<1>4. CASE Store # "redis" /\ k = w
  <2>1. calls'[k][c] = 0 /\ records'[k][c] = 0
    BY <1>4, PipelineAssumption DEF RestartWorker, Zeros, TypeOK
  <2>2. Quota(k, c)!Forget(gone)
    BY <1>2, <2>1 DEF Quota!Forget
  <2> QED
    BY <2>2 DEF Quota!Next
<1>5. CASE Store # "redis" /\ k # w
  <2>1. calls'[k][c] = calls[k][c] /\ records'[k][c] = records[k][c]
    BY <1>5, PipelineAssumption DEF RestartWorker, Zeros, TypeOK
  <2>2. Quota(k, c)!GiveUp(gone)
    BY <1>2, <2>1 DEF Quota!GiveUp
  <2> QED
    BY <2>2 DEF Quota!Next
<1> QED
  BY <1>3, <1>4, <1>5

LEMMA LossStep ==
    ASSUME TypeOK, NEW C \in SUBSET Callers, LoseCounters(C)
    PROVE  QuotaSteps
<1> SUFFICES ASSUME NEW k \in Stores, NEW c \in Callers
             PROVE  [Quota(k, c)!Next]_(Quota(k, c)!vars)
  BY DEF QuotaSteps
<1>1. ASSUME NEW s \in Slots
      PROVE  task'[s].req = task[s].req /\ (Holds(task'[s]) <=> Holds(task[s]))
  BY LostFields DEF LoseCounters, TypeOK
<1>2. Holders(k, c)' = Holders(k, c)
  BY <1>1 DEF Holders, SlotsOf
<1>3. CASE c \in C
  <2>1. calls'[k][c] = 0 /\ records'[k][c] = 0
    BY <1>3 DEF LoseCounters
  <2>2. Quota(k, c)!Forget({})
    BY <1>2, <2>1 DEF Quota!Forget
  <2> QED
    BY <2>2 DEF Quota!Next
<1>4. CASE c \notin C
  <2>1. calls'[k][c] = calls[k][c] /\ records'[k][c] = records[k][c]
    BY <1>4 DEF LoseCounters
  <2> QED
    BY <1>2, <2>1 DEF Quota!vars
<1> QED
  BY <1>3, <1>4

(* One case per action: what it makes of its slot, and which of the steps  *)
(* above that is.                                                          *)
LEMMA NextQuota == TypeOK /\ [Next]_vars => QuotaSteps
<1> SUFFICES ASSUME TypeOK, [Next]_vars PROVE QuotaSteps
  OBVIOUS
<1>0. \A s \in Slots : task[s] \in Tasks
  BY DEF TypeOK
<1>1. ASSUME NEW s \in Slots, NEW r \in Inputs, ReceiveRefused(s, r)
      PROVE  QuotaSteps
  <2>1. PICK i \in DOMAIN Gates : Set(s, Refused(Start(s, r), Gates[i]))
    BY <1>1 DEF ReceiveRefused
  <2>2. Start(s, r) \in Tasks /\ Gates[i] \in Reasons
    BY StartType DEF Reasons
  <2> DEFINE t == Refused(Start(s, r), Gates[i])
  <2>3. t \in Tasks /\ ~Holds(t)
    BY <2>2, RefusedType, EndedHoldsNothing
  <2> QED
    BY <1>1, <2>1, <2>3, GiveUpStep DEF ReceiveRefused
<1>2. ASSUME NEW s \in Slots, NEW r \in Inputs, ReceiveMemory(s, r)
      PROVE  QuotaSteps
  <2> DEFINE u == Checked(Start(s, r), StoreOf(s))
  <2>1. PICK m \in MintResults(r) : Set(s, AfterCheck(u, m))
    BY <1>2 DEF ReceiveMemory
  <2>2. m \in {"ok", "mint", "unhandled"}
    BY MintResultsType
  <2>3. Start(s, r) \in Tasks /\ u \in Tasks
    BY StartType, CheckedType
  <2>4. u.verdict = IF OverQuota(StoreOf(s), u.req.caller) THEN "over" ELSE "under"
    BY <2>3, CheckedFields
  <2> DEFINE t == AfterCheck(u, m)
  <2>5. t \in Tasks /\ t.req = u.req /\ (u.verdict = "over" => ~Holds(t))
    <3> HIDE DEF u
    <3> QED BY <2>2, <2>3, AfterCheckType, AfterCheckFields
  <2>6. ~Holds(task[s]) /\ UNCHANGED <<calls, records>>
    BY <1>2 DEF ReceiveMemory, CanReceive, Ended, Holds
  <2> HIDE DEF t, u
  <2>7. CASE OverQuota(StoreOf(s), u.req.caller)
    <3>1. ~Holds(t)
      BY <2>4, <2>5, <2>7
    <3> QED
      BY <2>1, <2>5, <2>6, <3>1, GiveUpStep DEF t
  <2>8. CASE ~OverQuota(StoreOf(s), u.req.caller)
    <3>1. ~OverQuota(StoreOf(s), t.req.caller)
      BY <2>5, <2>8
    <3> QED
      BY <2>1, <2>5, <2>6, <3>1, GrantStep DEF t
  <2> QED
    BY <2>7, <2>8
<1>3. ASSUME NEW s \in Slots, NEW r \in Inputs, ReceiveRedis(s, r)
      PROVE  QuotaSteps
  <2> DEFINE t == [Start(s, r) EXCEPT !.pc = "checking"]
  <2>1. t \in Tasks /\ t.pc = "checking"
    BY StartType DEF Tasks, Waiting
  <2>2. ~Holds(t)
    BY <2>1 DEF Holds
  <2> QED
    BY <1>3, <2>1, <2>2, GiveUpStep DEF ReceiveRedis
<1>4. ASSUME NEW s \in Slots, RedisCheck(s)
      PROVE  QuotaSteps
  <2> DEFINE u == Checked(task[s], StoreOf(s))
             t == [u EXCEPT !.pc = "checked"]
  <2>1. u \in Tasks /\ u.req = task[s].req
        /\ u.verdict = IF OverQuota(StoreOf(s), u.req.caller) THEN "over" ELSE "under"
    BY <1>0, CheckedType, CheckedFields
  <2> HIDE DEF u
  <2>2. t \in Tasks /\ t.req = u.req /\ t.pc = "checked" /\ t.verdict = u.verdict
    BY <2>1 DEF Tasks, Waiting
  <2>3. ~Holds(task[s]) /\ UNCHANGED <<calls, records>> /\ Set(s, t)
    BY <1>4 DEF RedisCheck, Holds, u
  <2> HIDE DEF t
  <2>4. CASE OverQuota(StoreOf(s), u.req.caller)
    <3>1. ~Holds(t)
      BY <2>1, <2>2, <2>4 DEF Holds
    <3> QED
      BY <2>2, <2>3, <3>1, GiveUpStep
  <2>5. CASE ~OverQuota(StoreOf(s), u.req.caller)
    BY <2>2, <2>3, <2>5, GrantStep
  <2> QED
    BY <2>4, <2>5
<1>5. ASSUME NEW s \in Slots, CheckReturns(s)
      PROVE  QuotaSteps
  <2>1. PICK m \in MintResults(task[s].req) : Set(s, AfterCheck(task[s], m))
    BY <1>5 DEF CheckReturns
  <2> DEFINE t == AfterCheck(task[s], m)
  <2>2. m \in {"ok", "mint", "unhandled"}
    BY MintResultsType
  <2>3. /\ t \in Tasks /\ t.req = task[s].req
        /\ task[s].verdict = "over" => ~Holds(t)
    BY <1>0, <2>2, AfterCheckType, AfterCheckFields
  <2>4. task[s].pc = "checked" /\ UNCHANGED <<calls, records>> /\ Set(s, t)
    BY <1>5, <2>1 DEF CheckReturns
  <2> HIDE DEF t
  <2>5. CASE ~Holds(t)
    BY <2>3, <2>4, <2>5, GiveUpStep
  <2>6. CASE Holds(t)
    <3>1. Holds(task[s])
      BY <2>3, <2>4, <2>6 DEF Holds
    <3> QED
      BY <2>3, <2>4, <2>6, <3>1, KeepStep
  <2> QED
    BY <2>5, <2>6
<1>6. ASSUME NEW s \in Slots, CheckFails(s) \/ RecordFails(s)
      PROVE  QuotaSteps
  <2>1. Refused(task[s], "unhandled") \in Tasks /\ ~Holds(Refused(task[s], "unhandled"))
    BY <1>0, RefusedType, EndedHoldsNothing, ReasonNames
  <2> QED
    BY <1>6, <2>1, GiveUpStep DEF CheckFails, RecordFails
<1>7. ASSUME NEW s \in Slots, TargetActs(s) \/ TargetRejects(s)
      PROVE  QuotaSteps
  <2>1. PICK a \in {"acted", "rejected"} : Set(s, [task[s] EXCEPT !.target = a])
    BY <1>7 DEF TargetActs, TargetRejects
  <2> DEFINE t == [task[s] EXCEPT !.target = a]
  <2>2. /\ t \in Tasks /\ t.req = task[s].req
        /\ t.pc = task[s].pc /\ t.verdict = task[s].verdict
    BY <1>0 DEF Tasks
  <2>3. Holds(t) <=> Holds(task[s])
    BY <2>2 DEF Holds
  <2>4. UNCHANGED <<calls, records>>
    BY <1>7 DEF TargetActs, TargetRejects
  <2> QED
    BY <2>1, <2>2, <2>3, <2>4, KeepStep
<1>8. ASSUME NEW s \in Slots, ExecuteReturnsMemory(s)
      PROVE  QuotaSteps
  <2>1. PICK u \in Returned(task[s]) :
           /\ Set(s, Succeeded(Charged(u)))
           /\ Record(StoreOf(s), u.req.caller, u.rows)
    BY <1>8 DEF ExecuteReturnsMemory
  <2>2. u \in Tasks /\ u.req = task[s].req /\ u.rows \in 0..MaxRows
    BY <1>0, ReturnedType, ReturnedFields DEF Tasks
  <2>3. Succeeded(Charged(u)) \in Tasks /\ ~Holds(Succeeded(Charged(u)))
    BY <2>2, ChargedType, SucceededType, EndedHoldsNothing, ReasonNames
  <2>4. Holds(task[s])
    BY <1>8 DEF ExecuteReturnsMemory, Holds
  <2> QED
    BY <2>1, <2>2, <2>3, <2>4, ChargeStep
<1>9. ASSUME NEW s \in Slots, ExecuteReturnsRedis(s)
      PROVE  QuotaSteps
  <2>1. PICK u \in Returned(task[s]) : Set(s, [u EXCEPT !.pc = "recording"])
    BY <1>9 DEF ExecuteReturnsRedis
  <2> DEFINE t == [u EXCEPT !.pc = "recording"]
  <2>2. u \in Tasks /\ u.req = task[s].req
    BY <1>0, ReturnedType, ReturnedFields
  <2>3. t \in Tasks /\ t.req = u.req /\ t.pc = "recording"
    BY <2>2 DEF Tasks, Waiting
  <2>4. Holds(t) /\ Holds(task[s]) /\ UNCHANGED <<calls, records>>
    BY <1>9, <2>3 DEF ExecuteReturnsRedis, Holds
  <2> HIDE DEF t
  <2> QED
    BY <2>1, <2>2, <2>3, <2>4, KeepStep DEF t
<1>10. ASSUME NEW s \in Slots, ExecuteRaises(s)
       PROVE  QuotaSteps
  <2>1. PICK why \in {"execution", "unhandled"} : Set(s, Refused(task[s], why))
    BY <1>10 DEF ExecuteRaises
  <2>2. Refused(task[s], why) \in Tasks /\ ~Holds(Refused(task[s], why))
    BY <1>0, RefusedType, EndedHoldsNothing, ReasonNames
  <2> QED
    BY <1>10, <2>1, <2>2, GiveUpStep DEF ExecuteRaises
<1>11. ASSUME NEW s \in Slots, RedisRecord(s)
       PROVE  QuotaSteps
  <2> DEFINE u == Charged(task[s])
             t == [u EXCEPT !.pc = "recorded"]
  <2>1. u \in Tasks /\ task[s].rows \in 0..MaxRows
    BY <1>0, ChargedType DEF Tasks
  <2> HIDE DEF u
  <2>2. t \in Tasks /\ t.pc = "recorded"
    BY <2>1 DEF Tasks, Waiting
  <2>3. ~Holds(t) /\ Holds(task[s])
    BY <1>11, <2>2 DEF RedisRecord, Holds
  <2>4. Set(s, t) /\ Record(StoreOf(s), task[s].req.caller, task[s].rows)
    BY <1>11 DEF RedisRecord, u
  <2> HIDE DEF t
  <2> QED
    BY <2>1, <2>2, <2>3, <2>4, ChargeStep
<1>12. ASSUME NEW s \in Slots, RecordReturns(s) \/ Cancel(s)
       PROVE  QuotaSteps
  <2>1. /\ Succeeded(task[s]) \in Tasks /\ ~Holds(Succeeded(task[s]))
        /\ Aborted(task[s]) \in Tasks /\ ~Holds(Aborted(task[s]))
    BY <1>0, SucceededType, AbortedType, EndedHoldsNothing, ReasonNames
  <2> QED
    BY <1>12, <2>1, GiveUpStep DEF RecordReturns, Cancel
<1>13. CASE (\E w \in Workers : StopWorker(w)) \/ UNCHANGED vars
  <2>1. UNCHANGED <<task, calls, records>>
    BY <1>13 DEF StopWorker, vars
  <2> QED
    BY <2>1 DEF QuotaSteps, Quota!vars, Holders, SlotsOf
<1> QED
  BY <1>1, <1>2, <1>3, <1>4, <1>5, <1>6, <1>7, <1>8, <1>9, <1>10, <1>11, <1>12,
     <1>13, RestartStep, LossStep DEF Next, RedisServes, ExecuteEnds

LEMMA InitQuota == Init => \A k \in Stores, c \in Callers : Quota(k, c)!Init
<1> SUFFICES ASSUME Init, NEW k \in Stores, NEW c \in Callers
             PROVE  Quota(k, c)!Init
  OBVIOUS
<1>1. ASSUME NEW s \in Slots PROVE ~Holds(task[s])
  <2>1. task[s].pc = "idle"
    BY DEF Init, Fresh
  <2> QED
    BY <2>1 DEF Holds
<1>2. Holders(k, c) = {}
  BY <1>1 DEF Holders, SlotsOf
<1>3. calls[k][c] = 0 /\ records[k][c] = 0
  BY DEF Init
<1> QED
  BY <1>2, <1>3 DEF Quota!Init

(* The request path implements a soft quota (pipeline.py 233-262), however *)
(* many slots, workers and callers there are and whatever the limits.      *)
THEOREM Refinement == Spec => ImplementsSoftQuota
<1>1. Init => \A k \in Stores, c \in Callers : Quota(k, c)!Init
  BY InitQuota
<1>2. TypeOK /\ [Next]_vars
        => \A k \in Stores, c \in Callers : [Quota(k, c)!Next]_(Quota(k, c)!vars)
  BY NextQuota DEF QuotaSteps
<1> QED
  BY <1>1, <1>2, TypeCorrect, PTL DEF Spec, ImplementsSoftQuota

-----------------------------------------------------------------------------
(* The bounds of a soft quota, for the counters of the gateway.            *)

BoundsOf(k, c) ==
    /\ calls[k][c] + Cardinality(Holders(k, c)) < MaxCalls + Cardinality(SlotsOf(k))
    /\ records[k][c] + MaxRows * Cardinality(Holders(k, c))
          < MaxRecords + MaxRows * Cardinality(SlotsOf(k))

LEMMA SlotsCardinality ==
    ASSUME NEW k, NEW S \in SUBSET SlotsOf(k)
    PROVE  /\ IsFiniteSet(S)
           /\ Cardinality(S) \in Nat
           /\ Cardinality(SlotsOf(k)) \in Nat
           /\ Cardinality(S) <= Cardinality(SlotsOf(k))
           /\ \A T \in SUBSET S : Cardinality(T) \in Nat /\ Cardinality(T) <= Cardinality(S)
           /\ \A p \in S : Cardinality(S \ {p}) = Cardinality(S) - 1
<1>1. IsFiniteSet(SlotsOf(k))
  BY PipelineAssumption, FS_Subset DEF SlotsOf
<1> QED
  BY <1>1, FS_Subset, FS_CardinalityType, FS_RemoveElement

LEMMA Multiples ==
    ASSUME NEW m \in Nat, NEW a \in Nat, NEW b \in Nat, a <= b
    PROVE  /\ m * a \in Nat /\ m * b \in Nat
           /\ m * a <= m * b
           /\ m * (a - 1) = m * a - m
OBVIOUS

LEMMA BoundsStep ==
    ASSUME TypeOK, NEW k \in Stores, NEW c \in Callers, BoundsOf(k, c),
           [Quota(k, c)!Next]_(Quota(k, c)!vars)
    PROVE  BoundsOf(k, c)'
<1> DEFINE h == Cardinality(Holders(k, c))
           h2 == Cardinality(Holders(k, c)')
           all == Cardinality(SlotsOf(k))
<1>1. /\ calls[k][c] \in Nat /\ records[k][c] \in Nat
      /\ Holders(k, c) \subseteq SlotsOf(k)
      /\ calls[k][c] + h < MaxCalls + all
      /\ records[k][c] + MaxRows * h < MaxRecords + MaxRows * all
  BY DEF TypeOK, Holders, BoundsOf
<1>2. h \in Nat /\ all \in Nat
  BY <1>1, SlotsCardinality
<1>3. MaxCalls \in Nat \ {0} /\ MaxRecords \in Nat \ {0} /\ MaxRows \in Nat
  BY PipelineAssumption
<1>4. SUFFICES /\ calls'[k][c] + h2 < MaxCalls + all
               /\ records'[k][c] + MaxRows * h2 < MaxRecords + MaxRows * all
  BY DEF BoundsOf
<1>5. ASSUME NEW p \in SlotsOf(k), Quota(k, c)!Grant(p)
      PROVE  /\ calls'[k][c] + h2 < MaxCalls + all
             /\ records'[k][c] + MaxRows * h2 < MaxRecords + MaxRows * all
  <2>1. /\ Holders(k, c)' = Holders(k, c) \cup {p}
        /\ calls[k][c] < MaxCalls /\ records[k][c] < MaxRecords
        /\ calls'[k][c] = calls[k][c] /\ records'[k][c] = records[k][c]
    BY <1>5 DEF Quota!Grant
  <2>2. Holders(k, c)' \subseteq SlotsOf(k)
    BY <1>1, <2>1
  <2>3. h2 \in Nat /\ h2 <= all
    BY <2>2, SlotsCardinality
  <2>4. MaxRows * h2 \in Nat /\ MaxRows * all \in Nat /\ MaxRows * h2 <= MaxRows * all
    BY <1>2, <1>3, <2>3, Multiples
  <2> HIDE DEF h2, all
  <2> QED
    BY <1>1, <1>2, <1>3, <2>1, <2>3, <2>4
<1>6. ASSUME NEW p \in SlotsOf(k), Quota(k, c)!Charge(p)
      PROVE  /\ calls'[k][c] + h2 < MaxCalls + all
             /\ records'[k][c] + MaxRows * h2 < MaxRecords + MaxRows * all
  <2>1. PICK n \in 0..MaxRows : records'[k][c] = records[k][c] + n
    BY <1>6 DEF Quota!Charge
  <2>2. /\ p \in Holders(k, c) /\ Holders(k, c)' = Holders(k, c) \ {p}
        /\ calls'[k][c] = calls[k][c] + 1
    BY <1>6 DEF Quota!Charge
  <2>3. h2 = h - 1
    BY <1>1, <2>2, SlotsCardinality
  <2>4. /\ MaxRows * h2 = MaxRows * h - MaxRows
        /\ MaxRows * h \in Nat /\ MaxRows * all \in Nat
    BY <1>2, <1>3, <2>3, Multiples
  <2> HIDE DEF h, h2, all
  <2> QED
    BY <1>1, <1>2, <1>3, <2>1, <2>2, <2>3, <2>4
<1>7. ASSUME NEW P \in SUBSET Holders(k, c),
             Quota(k, c)!GiveUp(P) \/ Quota(k, c)!Forget(P)
      PROVE  /\ calls'[k][c] + h2 < MaxCalls + all
             /\ records'[k][c] + MaxRows * h2 < MaxRecords + MaxRows * all
  <2>1. /\ Holders(k, c)' = Holders(k, c) \ P
        /\ \/ calls'[k][c] = calls[k][c] /\ records'[k][c] = records[k][c]
           \/ calls'[k][c] = 0 /\ records'[k][c] = 0
    BY <1>7 DEF Quota!GiveUp, Quota!Forget
  <2>2. h2 \in Nat /\ h2 <= h /\ h2 <= all
    BY <1>1, <2>1, SlotsCardinality
  <2>3. /\ MaxRows * h2 <= MaxRows * h /\ MaxRows * h2 <= MaxRows * all
        /\ MaxRows * h \in Nat /\ MaxRows * h2 \in Nat /\ MaxRows * all \in Nat
    BY <1>2, <1>3, <2>2, Multiples
  <2> HIDE DEF h, h2, all
  <2> QED
    BY <1>1, <1>2, <1>3, <2>1, <2>2, <2>3
<1>8. CASE UNCHANGED Quota(k, c)!vars
  BY <1>1, <1>8 DEF Quota!vars
<1> QED
  BY <1>5, <1>6, <1>7, <1>8 DEF Quota!Next

BoundsInv == CallQuotaBound /\ RecordQuotaBound

LEMMA InitBounds == Init => BoundsInv
<1> SUFFICES ASSUME Init, NEW k \in Stores, NEW c \in Callers
             PROVE  BoundsOf(k, c)
  BY DEF BoundsInv, BoundsOf, CallQuotaBound, RecordQuotaBound
<1>1. Holders(k, c) = {} /\ calls[k][c] = 0 /\ records[k][c] = 0
  BY InitQuota DEF Quota!Init
<1>2. Cardinality({}) = 0 /\ Cardinality(SlotsOf(k)) \in Nat
  BY FS_EmptySet, SlotsCardinality
<1>3. MaxRows * 0 = 0 /\ MaxRows * Cardinality(SlotsOf(k)) \in Nat
  BY <1>2, PipelineAssumption, Multiples
<1> QED
  BY <1>1, <1>2, <1>3, PipelineAssumption DEF BoundsOf

LEMMA NextBounds == TypeOK /\ BoundsInv /\ [Next]_vars => BoundsInv'
<1> SUFFICES ASSUME TypeOK, BoundsInv, [Next]_vars PROVE BoundsInv'
  OBVIOUS
<1>1. ASSUME NEW k \in Stores, NEW c \in Callers
      PROVE  BoundsOf(k, c)'
  <2>1. BoundsOf(k, c)
    BY DEF BoundsInv, BoundsOf, CallQuotaBound, RecordQuotaBound
  <2>2. [Quota(k, c)!Next]_(Quota(k, c)!vars)
    BY NextQuota DEF QuotaSteps
  <2> QED
    BY <2>1, <2>2, BoundsStep
<1> QED
  BY <1>1 DEF BoundsInv, BoundsOf, CallQuotaBound, RecordQuotaBound, Stores

(* The quota is overshot by fewer calls than the slots that share its      *)
(* counters, with any number of them, in any interleaving of checks,       *)
(* replies, failures and restarts (pipeline.py 233-262).                   *)
THEOREM CallsBounded == Spec => []CallQuotaBound
<1>1. BoundsInv => CallQuotaBound
  BY DEF BoundsInv
<1> QED
  BY <1>1, InitBounds, NextBounds, TypeCorrect, PTL DEF Spec

(* The same for records, where each of those slots may bring MaxRows.      *)
THEOREM RecordsBounded == Spec => []RecordQuotaBound
<1>1. BoundsInv => RecordQuotaBound
  BY DEF BoundsInv
<1> QED
  BY <1>1, InitBounds, NextBounds, TypeCorrect, PTL DEF Spec

-----------------------------------------------------------------------------
(* Fail-closed: what must be true of a request before its target is tried. *)

Cleared(t) ==
    /\ Passes(t.req)
    /\ t.verdict = "under"
    /\ Broker = "aws_sts" => t.role /\ HasRole(t.req)

Closed(t) ==
    /\ t.pc \in Waiting => Passes(t.req)
    /\ t.pc \in {"checking", "checked"} => t.target = "none"
    /\ t.pc = "checked" => t.verdict # "unread"
    /\ t.target # "none" => Cleared(t)

(* Two records of the same request that differ in nothing the gates saw.   *)
Same(u, t) ==
    /\ u.req = t.req
    /\ u.verdict = t.verdict
    /\ u.role = t.role
    /\ u.target = t.target

LEMMA ClosedKept ==
    ASSUME NEW t \in Tasks, NEW u \in Tasks, Closed(t), Same(u, t),
           u.pc \notin Waiting \/ u.pc = t.pc
    PROVE  Closed(u)
BY DEF Closed, Cleared, Same, Waiting

LEMMA EndingSame ==
    ASSUME NEW t \in Tasks, NEW body \in {"success", "error"}
    PROVE  Same(Discard(t), t) /\ Same(Emit(t), t) /\ Same(Answered(t, body), t)
BY DEF Discard, Emit, Answered, Tasks, Same

LEMMA SameTransitive ==
    ASSUME NEW t, NEW u, NEW v, Same(u, t), Same(v, u)
    PROVE  Same(v, t)
BY DEF Same

LEMMA RefusedSame ==
    ASSUME NEW t \in Tasks, NEW why \in Reasons
    PROVE  Same(Refused(t, why), t)
<1> DEFINE u == Answered(Discard(t), "error")
           v == [u EXCEPT !.reason = why]
<1>1. u \in Tasks /\ Same(u, t)
  BY DiscardType, AnsweredType, EndingSame, SameTransitive
<1>2. v \in Tasks /\ Same(v, u)
  <2> HIDE DEF u
  <2> QED BY <1>1 DEF Tasks, Same
<1>3. Same(Emit(v), v)
  BY <1>2, EndingSame
<1>4. Refused(t, why) = Emit(v)
  BY DEF Refused
<1> HIDE DEF u, v
<1> QED
  BY <1>1, <1>2, <1>3, <1>4, SameTransitive

LEMMA SucceededSame ==
    ASSUME NEW t \in Tasks
    PROVE  Same(Succeeded(t), t)
<1> DEFINE u == Answered(Discard(t), "success")
           v == [u EXCEPT !.decision = "ALLOW"]
<1>1. u \in Tasks /\ Same(u, t)
  BY DiscardType, AnsweredType, EndingSame, SameTransitive
<1>2. v \in Tasks /\ Same(v, u)
  <2> HIDE DEF u
  <2> QED BY <1>1 DEF Tasks, Same
<1>3. Same(Emit(v), v)
  BY <1>2, EndingSame
<1>4. Succeeded(t) = Emit(v)
  BY DEF Succeeded
<1> HIDE DEF u, v
<1> QED
  BY <1>1, <1>2, <1>3, <1>4, SameTransitive

LEMMA AbortedSame ==
    ASSUME NEW t \in Tasks
    PROVE  Same(Aborted(t), t) /\ Aborted(t).pc = "aborted"
<1> DEFINE u == Discard(t)
           v == [u EXCEPT !.pc = "aborted"]
<1>1. u \in Tasks /\ Same(u, t)
  BY DiscardType, EndingSame
<1>2. v \in Tasks /\ Same(v, u) /\ v.pc = "aborted"
  <2> HIDE DEF u
  <2> QED BY <1>1 DEF Tasks, Same, Ended
<1>3. Same(Emit(v), v) /\ Emit(v).pc = "aborted"
  BY <1>2, EndingSame, EndingFields
<1>4. Aborted(t) = Emit(v)
  BY DEF Aborted
<1> HIDE DEF u, v
<1> QED
  BY <1>1, <1>2, <1>3, <1>4, SameTransitive

LEMMA EndedClosed ==
    ASSUME NEW t \in Tasks, Closed(t), NEW why \in Reasons
    PROVE  Closed(Refused(t, why)) /\ Closed(Succeeded(t)) /\ Closed(Aborted(t))
<1>1. Closed(Refused(t, why))
  BY RefusedType, RefusedSame, RefusedFields, ClosedKept DEF Waiting
<1>2. Closed(Succeeded(t))
  BY SucceededType, SucceededSame, SucceededFields, ClosedKept DEF Waiting
<1>3. Closed(Aborted(t))
  BY AbortedType, AbortedSame, ClosedKept DEF Waiting
<1> QED
  BY <1>1, <1>2, <1>3

LEMMA LostClosed ==
    ASSUME NEW t \in Tasks, Closed(t)
    PROVE  Closed(Lost(t)) /\ Closed(Unspent(t)) /\ Closed(Charged(t))
<1>1. Same(Lost(t), t) /\ Lost(t).pc \notin Waiting
  BY DEF Lost, Tasks, Same, Waiting, Ended
<1>2. Same(Unspent(t), t) /\ Unspent(t).pc = t.pc
  BY DEF Unspent, Tasks, Same
<1>3. Same(Charged(t), t) /\ Charged(t).pc = t.pc
  BY DEF Charged, Tasks, Same
<1> QED
  BY <1>1, <1>2, <1>3, LostType, UnspentType, ChargedType, ClosedKept

(* The mint is the last thing that can stop a request that was checked.    *)
LEMMA AfterCheckClosed ==
    ASSUME NEW t \in Tasks, NEW m \in MintResults(t.req), Passes(t.req),
           t.target = "none", t.verdict # "unread", Closed(t)
    PROVE  Closed(AfterCheck(t, m))
<1>1. m \in {"ok", "mint", "unhandled"}
  BY MintResultsType
<1>2. CASE t.verdict = "over" \/ m # "ok"
  BY <1>1, <1>2, EndedClosed, ReasonNames DEF AfterCheck
<1>3. CASE t.verdict # "over" /\ m = "ok"
  <2>1. t.verdict = "under" /\ (Broker = "aws_sts" => HasRole(t.req))
    BY <1>3 DEF Tasks, MintResults
  <2> DEFINE u == Minted(t)
             v == [u EXCEPT !.pc = "executing", !.target = "pending"]
  <2>2. /\ u \in Tasks /\ u.req = t.req /\ u.verdict = t.verdict
        /\ u.pc = t.pc /\ u.target = t.target
    <3>1. u \in Tasks
      BY MintedType
    <3>2. u.req = t.req /\ u.verdict = t.verdict /\ u.pc = t.pc /\ u.target = t.target
      BY DEF Minted, Tasks
    <3> QED
      BY <3>1, <3>2
  <2>3. Broker = "aws_sts" => u.role
    BY DEF Minted, Tasks
  <2>4. AfterCheck(t, m) = IF HasTarget(u.req) \/ DefaultTarget THEN v
                                                              ELSE Refused(u, "execution")
    BY <1>3, <2>2 DEF AfterCheck, Executing
  <2> HIDE DEF u
  <2>5. Closed(u)
    BY <2>1, <2>2 DEF Closed
  <2>6. Closed(Refused(u, "execution"))
    BY <2>2, <2>5, EndedClosed, ReasonNames
  <2>7. v.req = u.req /\ v.verdict = u.verdict /\ v.role = u.role /\ v.pc = "executing"
    BY <2>2 DEF Tasks
  <2>8. Closed(v)
    <3> HIDE DEF v
    <3>1. Cleared(v)
      BY <2>1, <2>2, <2>3, <2>7 DEF Cleared
    <3> QED
      BY <2>2, <2>7, <3>1 DEF Closed
  <2> QED
    BY <2>4, <2>6, <2>8
<1> QED
  BY <1>2, <1>3

AllClosed == \A s \in Slots : Closed(task[s])

LEMMA FreshClosed ==
    ASSUME NEW s \in Slots, NEW r \in Inputs
    PROVE  /\ Start(s, r) \in Tasks /\ Closed(Start(s, r))
           /\ Start(s, r).req = r /\ Start(s, r).target = "none"
BY StartType DEF Start, Fresh, Closed, Waiting

LEMMA SetClosed ==
    ASSUME TypeOK, AllClosed, NEW s \in Slots, NEW t, Set(s, t), Closed(t)
    PROVE  AllClosed'
BY DEF AllClosed, Set, TypeOK

LEMMA NextClosed == TypeOK /\ AllClosed /\ [Next]_vars => AllClosed'
<1> SUFFICES ASSUME TypeOK, AllClosed, [Next]_vars PROVE AllClosed'
  OBVIOUS
<1>0. \A s \in Slots : task[s] \in Tasks /\ Closed(task[s])
  BY DEF TypeOK, AllClosed
<1>1. ASSUME NEW s \in Slots, NEW r \in Inputs, ReceiveRefused(s, r)
      PROVE  AllClosed'
  <2>1. PICK i \in DOMAIN Gates : Set(s, Refused(Start(s, r), Gates[i]))
    BY <1>1 DEF ReceiveRefused
  <2>2. Gates[i] \in Reasons
    BY DEF Reasons
  <2> QED
    BY <2>1, <2>2, FreshClosed, EndedClosed, SetClosed
<1>2. ASSUME NEW s \in Slots, NEW r \in Inputs, ReceiveMemory(s, r)
      PROVE  AllClosed'
  <2> DEFINE u == Checked(Start(s, r), StoreOf(s))
  <2>1. PICK m \in MintResults(r) : Set(s, AfterCheck(u, m))
    BY <1>2 DEF ReceiveMemory
  <2>2. u \in Tasks
    BY FreshClosed, CheckedType
  <2>3. u.req = r /\ u.verdict # "unread"
    BY FreshClosed, CheckedFields
  <2>4. u.target = "none" /\ u.pc = "idle"
    BY DEF Checked, Start, Fresh
  <2>5. Passes(r)
    BY <1>2 DEF ReceiveMemory
  <2> HIDE DEF u
  <2>6. Closed(u)
    BY <2>4 DEF Closed, Waiting
  <2> QED
    BY <2>1, <2>2, <2>3, <2>4, <2>5, <2>6, AfterCheckClosed, SetClosed
<1>3. ASSUME NEW s \in Slots, NEW r \in Inputs, ReceiveRedis(s, r)
      PROVE  AllClosed'
  <2> DEFINE t == [Start(s, r) EXCEPT !.pc = "checking"]
  <2>1. t.pc = "checking" /\ t.req = r /\ t.target = "none"
    BY DEF Start, Fresh
  <2>2. Closed(t)
    BY <1>3, <2>1 DEF ReceiveRedis, Closed
  <2> QED
    BY <1>3, <2>2, SetClosed DEF ReceiveRedis
<1>4. ASSUME NEW s \in Slots, RedisCheck(s)
      PROVE  AllClosed'
  <2> DEFINE u == Checked(task[s], StoreOf(s))
             t == [u EXCEPT !.pc = "checked"]
  <2>1. u \in Tasks /\ u.req = task[s].req /\ u.verdict # "unread"
    BY <1>0, CheckedType, CheckedFields
  <2>2. u.target = task[s].target
    BY <1>0 DEF Checked, Tasks
  <2> HIDE DEF u
  <2>3. t.req = u.req /\ t.pc = "checked" /\ t.verdict = u.verdict /\ t.target = u.target
    BY <2>1 DEF Tasks
  <2>4. Passes(task[s].req) /\ task[s].target = "none"
    BY <1>0, <1>4 DEF RedisCheck, Closed, Waiting
  <2>5. Closed(t)
    BY <2>1, <2>2, <2>3, <2>4 DEF Closed
  <2> QED
    BY <1>4, <2>5, SetClosed DEF RedisCheck, u
<1>5. ASSUME NEW s \in Slots, CheckReturns(s)
      PROVE  AllClosed'
  <2>1. PICK m \in MintResults(task[s].req) : Set(s, AfterCheck(task[s], m))
    BY <1>5 DEF CheckReturns
  <2>2. Passes(task[s].req) /\ task[s].target = "none" /\ task[s].verdict # "unread"
    BY <1>0, <1>5 DEF CheckReturns, Closed, Waiting
  <2> QED
    BY <1>0, <2>1, <2>2, AfterCheckClosed, SetClosed
<1>6. ASSUME NEW s \in Slots,
             \/ CheckFails(s) \/ RecordFails(s) \/ ExecuteRaises(s)
             \/ RecordReturns(s) \/ Cancel(s)
      PROVE  AllClosed'
  <2>1. \/ \E why \in {"execution", "unhandled"} : Set(s, Refused(task[s], why))
        \/ Set(s, Succeeded(task[s])) \/ Set(s, Aborted(task[s]))
    BY <1>6 DEF CheckFails, RecordFails, ExecuteRaises, RecordReturns, Cancel
  <2> QED
    BY <1>0, <2>1, EndedClosed, SetClosed, ReasonNames
<1>7. ASSUME NEW s \in Slots, TargetActs(s) \/ TargetRejects(s)
      PROVE  AllClosed'
  <2>1. PICK a \in {"acted", "rejected"} : Set(s, [task[s] EXCEPT !.target = a])
    BY <1>7 DEF TargetActs, TargetRejects
  <2> DEFINE t == [task[s] EXCEPT !.target = a]
  <2>2. /\ t.req = task[s].req /\ t.pc = task[s].pc
        /\ t.verdict = task[s].verdict /\ t.role = task[s].role
    BY <1>0 DEF Tasks
  <2>3. task[s].target # "none"
    BY <1>7 DEF TargetActs, TargetRejects
  <2> HIDE DEF t
  <2>4. Closed(t)
    BY <1>0, <2>2, <2>3 DEF Closed, Cleared
  <2> QED
    BY <2>1, <2>4, SetClosed DEF t
<1>8. ASSUME NEW s \in Slots, NEW u \in Returned(task[s])
      PROVE  u \in Tasks /\ Closed(u) /\ Same(u, task[s])
  <2>1. u \in Tasks /\ u.req = task[s].req /\ u.pc = task[s].pc /\ u.verdict = task[s].verdict
    BY <1>0, ReturnedType, ReturnedFields
  <2>2. u.role = task[s].role /\ u.target = task[s].target
    BY <1>0 DEF Returned, Tasks
  <2> QED
    BY <1>0, <2>1, <2>2, ClosedKept DEF Same
<1>9. ASSUME NEW s \in Slots, ExecuteReturnsMemory(s)
      PROVE  AllClosed'
  <2>1. PICK u \in Returned(task[s]) : Set(s, Succeeded(Charged(u)))
    BY <1>9 DEF ExecuteReturnsMemory
  <2>2. Charged(u) \in Tasks /\ Closed(Charged(u))
    BY <1>8, ChargedType, LostClosed
  <2> QED
    BY <2>1, <2>2, EndedClosed, SetClosed, ReasonNames
<1>10. ASSUME NEW s \in Slots, ExecuteReturnsRedis(s)
       PROVE  AllClosed'
  <2>1. PICK u \in Returned(task[s]) : Set(s, [u EXCEPT !.pc = "recording"])
    BY <1>10 DEF ExecuteReturnsRedis
  <2> DEFINE t == [u EXCEPT !.pc = "recording"]
  <2>2. t.pc = "recording" /\ Same(t, u)
    BY <1>8 DEF Tasks, Same
  <2>3. Passes(task[s].req)
    BY <1>0, <1>10 DEF ExecuteReturnsRedis, Closed, Waiting
  <2> HIDE DEF t
  <2>4. Closed(t)
    BY <1>8, <2>2, <2>3 DEF Closed, Cleared, Same
  <2> QED
    BY <2>1, <2>4, SetClosed DEF t
<1>11. ASSUME NEW s \in Slots, RedisRecord(s)
       PROVE  AllClosed'
  <2> DEFINE u == Charged(task[s])
             t == [u EXCEPT !.pc = "recorded"]
  <2>1. u \in Tasks /\ Closed(u)
    BY <1>0, ChargedType, LostClosed
  <2>2. u.req = task[s].req
    BY <1>0 DEF Charged, Tasks
  <2>3. Passes(task[s].req)
    BY <1>0, <1>11 DEF RedisRecord, Closed, Waiting
  <2>4. Set(s, t)
    BY <1>11 DEF RedisRecord
  <2> HIDE DEF u
  <2>5. t.pc = "recorded" /\ Same(t, u)
    BY <2>1 DEF Tasks, Same
  <2> HIDE DEF t
  <2>6. Closed(t)
    BY <2>1, <2>2, <2>3, <2>5 DEF Closed, Cleared, Same
  <2> QED
    BY <2>4, <2>6, SetClosed
<1>12. ASSUME NEW w \in Workers, RestartWorker(w)
       PROVE  AllClosed'
  <2>1. ASSUME NEW s \in Slots
        PROVE  Closed(Lost(task[s])) /\ Closed(Unspent(Lost(task[s])))
    BY <1>0, LostType, LostClosed
  <2> QED
    BY <1>0, <1>12, <2>1 DEF RestartWorker, AllClosed
<1>13. ASSUME NEW C \in SUBSET Callers, LoseCounters(C)
       PROVE  AllClosed'
  <2>1. \A s \in Slots : Closed(Unspent(task[s]))
    BY <1>0, LostClosed
  <2> QED
    BY <1>0, <1>13, <2>1 DEF LoseCounters, AllClosed
<1>14. CASE (\E w \in Workers : StopWorker(w)) \/ UNCHANGED vars
  BY <1>14 DEF StopWorker, vars, AllClosed
<1> QED
  BY <1>1, <1>2, <1>3, <1>4, <1>5, <1>6, <1>7, <1>9, <1>10, <1>11, <1>12,
     <1>13, <1>14 DEF Next, RedisServes, ExecuteEnds

LEMMA InitClosed == Init => AllClosed
<1> SUFFICES ASSUME Init, NEW s \in Slots PROVE Closed(task[s])
  BY DEF AllClosed
<1>1. task[s].pc = "idle" /\ task[s].target = "none"
  BY DEF Init, Fresh
<1> QED
  BY <1>1 DEF Closed, Waiting

(* What a request is that no gate refuses.                                 *)
LEMMA PassesMeans ==
    ASSUME NEW r \in Requests, Passes(r)
    PROVE  /\ r.shape = "object" /\ r.token = "expected"
           /\ r.envelope = "valid" /\ r.params = "object"
           /\ \/ r.policy = "allow" /\ r.egress # "refused"
              \/ r.policy = "deny" /\ Mode = "audit"
<1>1. \A i \in 1..10 : ~Refuses(Gates[i], r)
  BY DEF Passes, Gates
<1>2. \A g \in {"parse", "batch", "not_object", "notification", "authentication",
               "schema", "params", "evaluator", "policy", "egress"} : ~Refuses(g, r)
  <2>1. /\ Gates[1] = "parse" /\ Gates[2] = "batch" /\ Gates[3] = "not_object"
        /\ Gates[4] = "notification" /\ Gates[5] = "authentication"
        /\ Gates[6] = "schema" /\ Gates[7] = "params" /\ Gates[8] = "evaluator"
        /\ Gates[9] = "policy" /\ Gates[10] = "egress"
    BY DEF Gates
  <2> QED
    BY <1>1, <2>1
<1>3. ~Refuses("parse", r) /\ ~Refuses("batch", r)
      /\ ~Refuses("not_object", r) /\ ~Refuses("notification", r)
  BY <1>2
<1>4. r.shape = "object"
  BY <1>3 DEF Refuses, Requests
<1>5. r.token = "expected" /\ r.envelope = "valid" /\ r.params = "object"
  BY <1>2 DEF Refuses, Authenticated, ValidEnvelope
<1>6. /\ ~Refuses("evaluator", r) /\ ~Refuses("policy", r) /\ ~Refuses("egress", r)
  BY <1>2
<1>7. /\ r.policy # "raise"
      /\ r.policy = "deny" => Mode # "enforce"
      /\ ~(r.egress = "refused" /\ r.policy = "allow")
  BY <1>6 DEF Refuses, ShouldBlockPolicyDenial, EgressRefuses, HasToolConfig
<1> QED
  BY <1>4, <1>5, <1>7, GatesAssumption DEF Requests

(* Nothing reaches a target but what every stage let through               *)
(* (pipeline.py 164-250): for every slot, mode, store and broker.          *)
THEOREM NothingUnchecked == Spec => []FailClosed
<1>1. TypeOK /\ AllClosed => FailClosed
  <2> SUFFICES ASSUME TypeOK, AllClosed PROVE FailClosed
    OBVIOUS
  <2>1. ASSUME NEW s \in Slots, task[s].target # "none"
        PROVE  /\ task[s].req \in Requests /\ Passes(task[s].req)
               /\ task[s].verdict = "under"
               /\ Broker = "aws_sts" => task[s].role /\ task[s].req.role
    <3>1. Cleared(task[s])
      BY <2>1 DEF AllClosed, Closed
    <3>2. task[s].req \in Requests
      BY CallerType, GatesAssumption DEF TypeOK
    <3> QED
      BY <3>1, <3>2 DEF Cleared, HasRole
  <2>2. ASSUME NEW s \in Slots, task[s].target # "none"
        PROVE  /\ task[s].req.shape = "object" /\ task[s].req.token = "expected"
               /\ task[s].req.envelope = "valid" /\ task[s].req.params = "object"
               /\ \/ task[s].req.policy = "allow" /\ task[s].req.egress # "refused"
                  \/ task[s].req.policy = "deny" /\ Mode = "audit"
    BY <2>1, <2>2, PassesMeans
  <2> QED
    BY <2>1, <2>2 DEF FailClosed
<1> QED
  BY <1>1, InitClosed, NextClosed, TypeCorrect, PTL DEF Spec

-----------------------------------------------------------------------------
(* A spent quota: from its arrival to the reply of Redis, a request that   *)
(* came too late is barred by counters that only a loss can bring down.    *)

Barred(t, k) ==
    t.spent => /\ t.target = "none"
               /\ t.pc = "checking" => OverQuota(k, t.req.caller)
               /\ t.pc = "checked" => t.verdict = "over"

AllBarred == \A s \in Slots : Barred(task[s], StoreOf(s))

(* Steps that move a request on without sending anything.                  *)
LEMMA BarredKept ==
    ASSUME NEW t, NEW u, NEW k, Barred(t, k), u.spent => t.spent, u.target = t.target,
           u.pc \notin {"checking", "checked"}
    PROVE  Barred(u, k)
BY DEF Barred

LEMMA EndingSpent ==
    ASSUME NEW t \in Tasks, NEW body \in {"success", "error"}
    PROVE  /\ Discard(t).spent = t.spent
           /\ Emit(t).spent = t.spent
           /\ Answered(t, body).spent = t.spent
BY DEF Discard, Emit, Answered, Tasks

LEMMA RefusedBarred ==
    ASSUME NEW t \in Tasks, NEW k, Barred(t, k), NEW why \in Reasons
    PROVE  Barred(Refused(t, why), k)
<1> DEFINE u == Answered(Discard(t), "error")
           v == [u EXCEPT !.reason = why]
<1>1. u \in Tasks /\ u.spent = t.spent
  BY DiscardType, AnsweredType, EndingSpent
<1>2. v \in Tasks /\ v.spent = u.spent
  <2> HIDE DEF u
  <2> QED BY <1>1 DEF Tasks
<1>3. Refused(t, why).spent = t.spent
  BY <1>1, <1>2, EndingSpent DEF Refused
<1>4. Refused(t, why).target = t.target /\ Refused(t, why).pc = "answered"
  BY RefusedSame, RefusedFields DEF Same
<1> QED
  BY <1>3, <1>4, BarredKept

LEMMA SucceededBarred ==
    ASSUME NEW t \in Tasks, NEW k, Barred(t, k)
    PROVE  Barred(Succeeded(t), k)
<1> DEFINE u == Answered(Discard(t), "success")
           v == [u EXCEPT !.decision = "ALLOW"]
<1>1. u \in Tasks /\ u.spent = t.spent
  BY DiscardType, AnsweredType, EndingSpent
<1>2. v \in Tasks /\ v.spent = u.spent
  <2> HIDE DEF u
  <2> QED BY <1>1 DEF Tasks
<1>3. Succeeded(t).spent = t.spent
  BY <1>1, <1>2, EndingSpent DEF Succeeded
<1>4. Succeeded(t).target = t.target /\ Succeeded(t).pc = "answered"
  BY SucceededSame, SucceededFields DEF Same
<1> QED
  BY <1>3, <1>4, BarredKept

LEMMA AbortedBarred ==
    ASSUME NEW t \in Tasks, NEW k, Barred(t, k)
    PROVE  Barred(Aborted(t), k)
<1> DEFINE u == Discard(t)
           v == [u EXCEPT !.pc = "aborted"]
<1>1. u \in Tasks /\ u.spent = t.spent
  BY DiscardType, EndingSpent
<1>2. v \in Tasks /\ v.spent = u.spent
  <2> HIDE DEF u
  <2> QED BY <1>1 DEF Tasks, Ended
<1>3. Aborted(t).spent = t.spent
  BY <1>1, <1>2, EndingSpent DEF Aborted
<1>4. Aborted(t).target = t.target /\ Aborted(t).pc = "aborted"
  BY AbortedSame DEF Same
<1> QED
  BY <1>3, <1>4, BarredKept

LEMMA UnspentBarred ==
    ASSUME NEW t \in Tasks, NEW k
    PROVE  /\ Barred(Unspent(t), k)
           /\ Barred(t, k) => Barred(Lost(t), k)
           /\ Barred(t, k) => Barred(Charged(t), k)
<1>1. ~Unspent(t).spent
  BY DEF Unspent, Tasks
<1>2. Lost(t).spent = t.spent /\ Lost(t).target = t.target
      /\ Lost(t).pc \notin {"checking", "checked"}
  BY DEF Lost, Tasks, Waiting, Ended
<1>3. /\ Charged(t).spent = t.spent /\ Charged(t).target = t.target
      /\ Charged(t).pc = t.pc /\ Charged(t).verdict = t.verdict /\ Charged(t).req = t.req
  BY DEF Charged, Tasks
<1> QED
  BY <1>1, <1>2, <1>3 DEF Barred

(* A request that is spent does not pass the check, whatever the mint says. *)
LEMMA AfterCheckBarred ==
    ASSUME NEW t \in Tasks, NEW k, NEW m \in {"ok", "mint", "unhandled"}, Barred(t, k),
           t.spent => t.verdict = "over"
    PROVE  Barred(AfterCheck(t, m), k)
<1>1. CASE t.verdict = "over" \/ m # "ok"
  BY <1>1, RefusedBarred, ReasonNames DEF AfterCheck
<1>2. CASE t.verdict # "over" /\ m = "ok"
  <2> DEFINE u == Minted(t)
             v == [u EXCEPT !.pc = "executing", !.target = "pending"]
  <2>1. ~t.spent
    BY <1>2
  <2>2. u \in Tasks
    BY MintedType
  <2>3. ~u.spent
    BY <2>1 DEF Minted, Tasks
  <2>4. AfterCheck(t, m) = IF HasTarget(t.req) \/ DefaultTarget THEN v
                                                              ELSE Refused(u, "execution")
    BY <1>2 DEF AfterCheck, Executing
  <2> HIDE DEF u
  <2>5. v.spent = u.spent
    BY <2>2 DEF Tasks
  <2>6. Barred(v, k) /\ Barred(u, k)
    BY <2>3, <2>5 DEF Barred
  <2> QED
    BY <2>2, <2>4, <2>6, RefusedBarred, ReasonNames
<1> QED
  BY <1>1, <1>2

(* Counters that are not lost only grow.                                   *)
LEMMA SetBarred ==
    ASSUME TypeOK, AllBarred, NEW s \in Slots, NEW t, Set(s, t),
           Barred(t, StoreOf(s)),
           UNCHANGED <<calls, records>>
    PROVE  AllBarred'
BY DEF AllBarred, Barred, OverQuota, Set, TypeOK

LEMMA RecordBarred ==
    ASSUME TypeOK, AllBarred, NEW s \in Slots, NEW t, Set(s, t),
           Barred(t, StoreOf(s)), t.pc \notin {"checking", "checked"},
           NEW k \in Stores, NEW c \in Callers, NEW n \in 0..MaxRows, Record(k, c, n)
    PROVE  AllBarred'
<1>1. ASSUME NEW l \in Stores, NEW d \in Callers, OverQuota(l, d)
      PROVE  OverQuota(l, d)'
  <2>1. /\ calls[l][d] \in Nat /\ records[l][d] \in Nat
        /\ calls'[l][d] \in Nat /\ records'[l][d] \in Nat
        /\ calls'[l][d] >= calls[l][d] /\ records'[l][d] >= records[l][d]
    BY PipelineAssumption DEF Record, TypeOK
  <2> QED
    BY <1>1, <2>1, PipelineAssumption DEF OverQuota
<1>2. \A q \in Slots : StoreOf(q) \in Stores /\ task[q].req.caller \in Callers
  BY StoreOfType, CallerType DEF TypeOK
<1>3. ASSUME NEW q \in Slots
      PROVE  Barred(task[q], StoreOf(q))'
  <2>1. CASE q = s
    BY <2>1 DEF Set, TypeOK, Barred
  <2>2. CASE q # s
    <3>1. task'[q] = task[q] /\ Barred(task[q], StoreOf(q))
      BY <2>2 DEF Set, TypeOK, AllBarred
    <3> QED
      BY <1>1, <1>2, <3>1 DEF Barred
  <2> QED
    BY <2>1, <2>2
<1> QED
  BY <1>3 DEF AllBarred

LEMMA NextBarred == TypeOK /\ AllBarred /\ [Next]_vars => AllBarred'
<1> SUFFICES ASSUME TypeOK, AllBarred, [Next]_vars PROVE AllBarred'
  OBVIOUS
<1>0. \A s \in Slots : task[s] \in Tasks /\ Barred(task[s], StoreOf(s))
  BY DEF TypeOK, AllBarred
<1>1. ASSUME NEW s \in Slots, NEW r \in Inputs
      PROVE  /\ Start(s, r) \in Tasks /\ Barred(Start(s, r), StoreOf(s))
             /\ Start(s, r).req = r /\ Start(s, r).pc = "idle"
             /\ Start(s, r).target = "none"
             /\ Start(s, r).spent = OverQuota(StoreOf(s), r.caller)
  BY StartType DEF Start, Fresh, Barred
<1>2. ASSUME NEW s \in Slots, NEW r \in Inputs, ReceiveRefused(s, r)
      PROVE  AllBarred'
  <2>1. PICK i \in DOMAIN Gates : Set(s, Refused(Start(s, r), Gates[i]))
    BY <1>2 DEF ReceiveRefused
  <2>2. Gates[i] \in Reasons
    BY DEF Reasons
  <2> QED
    BY <1>1, <1>2, <2>1, <2>2, RefusedBarred, SetBarred DEF ReceiveRefused
<1>3. ASSUME NEW s \in Slots, NEW r \in Inputs, ReceiveMemory(s, r)
      PROVE  AllBarred'
  <2> DEFINE u == Checked(Start(s, r), StoreOf(s))
  <2>1. PICK m \in MintResults(r) : Set(s, AfterCheck(u, m))
    BY <1>3 DEF ReceiveMemory
  <2>2. u \in Tasks /\ m \in {"ok", "mint", "unhandled"}
    BY <1>1, CheckedType, MintResultsType
  <2>3. u.verdict = IF OverQuota(StoreOf(s), r.caller) THEN "over" ELSE "under"
    BY <1>1, CheckedFields
  <2>4. u.spent = Start(s, r).spent /\ u.pc = "idle" /\ u.target = "none"
    BY <1>1 DEF Checked, Tasks
  <2>5. UNCHANGED <<calls, records>>
    BY <1>3 DEF ReceiveMemory
  <2> HIDE DEF u
  <2>6. u.spent => u.verdict = "over"
    BY <1>1, <2>3, <2>4
  <2>7. Barred(u, StoreOf(s))
    BY <2>4 DEF Barred
  <2> QED
    BY <2>1, <2>2, <2>5, <2>6, <2>7, AfterCheckBarred, SetBarred
<1>4. ASSUME NEW s \in Slots, NEW r \in Inputs, ReceiveRedis(s, r)
      PROVE  AllBarred'
  <2> DEFINE t == [Start(s, r) EXCEPT !.pc = "checking"]
  <2>1. /\ t.pc = "checking" /\ t.req = r /\ t.target = "none"
        /\ t.spent = OverQuota(StoreOf(s), r.caller)
    BY DEF Start, Fresh
  <2>2. Barred(t, StoreOf(s))
    <3> HIDE DEF t
    <3> QED BY <2>1 DEF Barred
  <2> QED
    BY <1>4, <2>2, SetBarred DEF ReceiveRedis
<1>5. ASSUME NEW s \in Slots, RedisCheck(s)
      PROVE  AllBarred'
  <2> DEFINE u == Checked(task[s], StoreOf(s))
             t == [u EXCEPT !.pc = "checked"]
  <2>1. /\ u \in Tasks
        /\ u.verdict = IF OverQuota(StoreOf(s), task[s].req.caller) THEN "over" ELSE "under"
    BY <1>0, CheckedType, CheckedFields
  <2>2. u.target = task[s].target /\ u.spent = task[s].spent
    BY <1>0 DEF Checked, Tasks
  <2>3. task[s].pc = "checking" /\ Set(s, t) /\ UNCHANGED <<calls, records>>
    BY <1>5 DEF RedisCheck
  <2> HIDE DEF u
  <2>4. /\ t.pc = "checked" /\ t.verdict = u.verdict
        /\ t.target = u.target /\ t.spent = u.spent
    BY <2>1 DEF Tasks
  <2> HIDE DEF t
  <2>5. Barred(t, StoreOf(s))
    BY <1>0, <2>1, <2>2, <2>3, <2>4 DEF Barred
  <2> QED
    BY <2>3, <2>5, SetBarred
<1>6. ASSUME NEW s \in Slots, CheckReturns(s)
      PROVE  AllBarred'
  <2>1. PICK m \in MintResults(task[s].req) : Set(s, AfterCheck(task[s], m))
    BY <1>6 DEF CheckReturns
  <2>2. m \in {"ok", "mint", "unhandled"}
    BY MintResultsType
  <2>3. task[s].pc = "checked" /\ UNCHANGED <<calls, records>>
    BY <1>6 DEF CheckReturns
  <2>4. task[s].spent => task[s].verdict = "over"
    BY <1>0, <2>3 DEF Barred
  <2> QED
    BY <1>0, <2>1, <2>2, <2>3, <2>4, AfterCheckBarred, SetBarred
<1>7. ASSUME NEW s \in Slots,
             \/ CheckFails(s) \/ RecordFails(s) \/ ExecuteRaises(s)
             \/ RecordReturns(s) \/ Cancel(s)
      PROVE  AllBarred'
  <2>1. \/ \E why \in {"execution", "unhandled"} : Set(s, Refused(task[s], why))
        \/ Set(s, Succeeded(task[s])) \/ Set(s, Aborted(task[s]))
    BY <1>7 DEF CheckFails, RecordFails, ExecuteRaises, RecordReturns, Cancel
  <2>2. UNCHANGED <<calls, records>>
    BY <1>7 DEF CheckFails, RecordFails, ExecuteRaises, RecordReturns, Cancel
  <2> QED
    BY <1>0, <2>1, <2>2, RefusedBarred, SucceededBarred, AbortedBarred, SetBarred,
       ReasonNames
<1>8. ASSUME NEW s \in Slots, TargetActs(s) \/ TargetRejects(s)
      PROVE  AllBarred'
  <2>1. PICK a \in {"acted", "rejected"} : Set(s, [task[s] EXCEPT !.target = a])
    BY <1>8 DEF TargetActs, TargetRejects
  <2> DEFINE t == [task[s] EXCEPT !.target = a]
  <2>2. t.spent = task[s].spent
    BY <1>0 DEF Tasks
  <2>3. task[s].target # "none" /\ UNCHANGED <<calls, records>>
    BY <1>8 DEF TargetActs, TargetRejects
  <2> HIDE DEF t
  <2>4. Barred(t, StoreOf(s))
    BY <1>0, <2>2, <2>3 DEF Barred
  <2> QED
    BY <2>1, <2>3, <2>4, SetBarred DEF t
<1>9. ASSUME NEW s \in Slots, NEW u \in Returned(task[s])
      PROVE  /\ u \in Tasks /\ u.req = task[s].req /\ u.pc = task[s].pc
             /\ u.spent = task[s].spent /\ u.target = task[s].target
  <2>1. u \in Tasks /\ u.req = task[s].req /\ u.pc = task[s].pc
    BY <1>0, ReturnedType, ReturnedFields
  <2>2. u.spent = task[s].spent /\ u.target = task[s].target
    BY <1>0 DEF Returned, Tasks
  <2> QED
    BY <2>1, <2>2
<1>10. ASSUME NEW s \in Slots, ExecuteReturnsMemory(s)
       PROVE  AllBarred'
  <2>1. PICK u \in Returned(task[s]) :
           /\ Set(s, Succeeded(Charged(u)))
           /\ Record(StoreOf(s), u.req.caller, u.rows)
    BY <1>10 DEF ExecuteReturnsMemory
  <2>2. u \in Tasks /\ Barred(u, StoreOf(s))
    BY <1>0, <1>9, <1>10, BarredKept DEF ExecuteReturnsMemory
  <2>3. Charged(u) \in Tasks /\ Barred(Charged(u), StoreOf(s))
    BY <2>2, ChargedType, UnspentBarred
  <2>4. /\ Barred(Succeeded(Charged(u)), StoreOf(s))
        /\ Succeeded(Charged(u)).pc = "answered"
    BY <2>3, SucceededBarred, SucceededFields
  <2>5. StoreOf(s) \in Stores /\ u.req.caller \in Callers /\ u.rows \in 0..MaxRows
    BY <2>2, StoreOfType, CallerType DEF Tasks
  <2> QED
    BY <2>1, <2>4, <2>5, RecordBarred
<1>11. ASSUME NEW s \in Slots, ExecuteReturnsRedis(s)
       PROVE  AllBarred'
  <2>1. PICK u \in Returned(task[s]) : Set(s, [u EXCEPT !.pc = "recording"])
    BY <1>11 DEF ExecuteReturnsRedis
  <2> DEFINE t == [u EXCEPT !.pc = "recording"]
  <2>2. t.pc = "recording" /\ t.spent = u.spent /\ t.target = u.target
    BY <1>9 DEF Tasks
  <2> HIDE DEF t
  <2>3. Barred(t, StoreOf(s))
    BY <1>0, <1>9, <2>2, BarredKept
  <2>4. UNCHANGED <<calls, records>>
    BY <1>11 DEF ExecuteReturnsRedis
  <2> QED
    BY <2>1, <2>3, <2>4, SetBarred DEF t
<1>12. ASSUME NEW s \in Slots, RedisRecord(s)
       PROVE  AllBarred'
  <2> DEFINE u == Charged(task[s])
             t == [u EXCEPT !.pc = "recorded"]
  <2>1. u \in Tasks /\ Barred(u, StoreOf(s))
    BY <1>0, ChargedType, UnspentBarred
  <2>2. Set(s, t) /\ Record(StoreOf(s), task[s].req.caller, task[s].rows)
    BY <1>12 DEF RedisRecord
  <2> HIDE DEF u
  <2>3. t.pc = "recorded" /\ t.spent = u.spent /\ t.target = u.target
    BY <2>1 DEF Tasks
  <2> HIDE DEF t
  <2>4. Barred(t, StoreOf(s))
    BY <2>1, <2>3, BarredKept
  <2>5. /\ StoreOf(s) \in Stores /\ task[s].req.caller \in Callers
        /\ task[s].rows \in 0..MaxRows
    BY <1>0, StoreOfType, CallerType DEF Tasks
  <2> QED
    BY <2>2, <2>3, <2>4, <2>5, RecordBarred
<1>13. ASSUME NEW w \in Workers, RestartWorker(w)
       PROVE  AllBarred'
  <2> SUFFICES ASSUME NEW s \in Slots PROVE Barred(task[s], StoreOf(s))'
    BY DEF AllBarred
  <2> DEFINE u == Lost(task[s])
  <2>0. u \in Tasks /\ Barred(u, StoreOf(s))
    BY <1>0, LostType, UnspentBarred
  <2>1. ~Unspent(u).spent /\ u.pc \notin {"checking", "checked"}
    <3>1. u.pc \notin {"checking", "checked"}
      BY <1>0 DEF Lost, Tasks, Waiting, Ended
    <3> HIDE DEF u
    <3>2. ~Unspent(u).spent
      BY <2>0 DEF Unspent, Tasks
    <3> QED
      BY <3>1, <3>2
  <2>2. CASE WorkerOf[s] = w
    <3>1. task'[s] = u \/ task'[s] = Unspent(u)
      BY <1>13, <2>2 DEF RestartWorker
    <3> HIDE DEF u
    <3> QED
      BY <2>0, <2>1, <3>1 DEF Barred
  <2>3. CASE WorkerOf[s] # w
    <3>1. task'[s] = task[s]
      BY <1>13, <2>3 DEF RestartWorker
    <3>2. calls'[StoreOf(s)] = calls[StoreOf(s)] /\ records'[StoreOf(s)] = records[StoreOf(s)]
      BY <1>13, <2>3, StoreOfType, PipelineAssumption DEF RestartWorker, StoreOf, TypeOK
    <3> QED
      BY <1>0, <3>1, <3>2 DEF Barred, OverQuota
  <2> QED
    BY <2>2, <2>3
<1>14. ASSUME NEW C \in SUBSET Callers, LoseCounters(C)
       PROVE  AllBarred'
  <2> SUFFICES ASSUME NEW s \in Slots PROVE Barred(task[s], StoreOf(s))'
    BY DEF AllBarred
  <2>1. ~Unspent(task[s]).spent
    BY <1>0 DEF Unspent, Tasks
  <2>2. CASE task[s].req.caller \in C
    BY <1>14, <2>1, <2>2 DEF LoseCounters, Barred
  <2>3. CASE task[s].req.caller \notin C
    <3> DEFINE c == task[s].req.caller
               k == StoreOf(s)
    <3>1. task'[s] = task[s]
      BY <1>14, <2>3 DEF LoseCounters
    <3>2. c \in Callers /\ k \in Stores
      BY <1>0, StoreOfType, CallerType
    <3>3. calls'[k][c] = calls[k][c] /\ records'[k][c] = records[k][c]
      BY <1>14, <2>3, <3>2 DEF LoseCounters
    <3> QED
      BY <1>0, <3>1, <3>3 DEF Barred, OverQuota
  <2> QED
    BY <2>2, <2>3
<1>15. CASE (\E w \in Workers : StopWorker(w)) \/ UNCHANGED vars
  BY <1>15 DEF StopWorker, vars, AllBarred, Barred, OverQuota
<1> QED
  BY <1>2, <1>3, <1>4, <1>5, <1>6, <1>7, <1>8, <1>10, <1>11, <1>12, <1>13,
     <1>14, <1>15 DEF Next, RedisServes, ExecuteEnds

LEMMA InitBarred == Init => AllBarred
<1> SUFFICES ASSUME Init, NEW s \in Slots PROVE Barred(task[s], StoreOf(s))
  BY DEF AllBarred
<1>1. ~task[s].spent
  BY DEF Init, Fresh
<1> QED
  BY <1>1 DEF Barred

(* A request that arrives on a quota already used up never reaches its     *)
(* target (pipeline.py 234-236), however old the reply of Redis is.        *)
THEOREM SpentIsRefused == Spec => []SpentNeverExecutes
<1>1. AllBarred => SpentNeverExecutes
  BY DEF AllBarred, Barred, SpentNeverExecutes
<1> QED
  BY <1>1, InitBarred, NextBarred, TypeCorrect, PTL DEF Spec
-----------------------------------------------------------------------------
(* Credentials and events: a request that is open has given no answer and  *)
(* no event yet, and what ends it does both at once.                       *)

Confined(t) ==
    t.creds = "live" <=> Broker = "aws_sts" /\ t.pc \in {"executing", "recording", "recorded"}

(* No answer and no event so far, and nothing counted in memory.           *)
Open(t) ==
    /\ t.answer = "none" /\ t.decision = "DENY" /\ t.reason = "" /\ t.emitted = 0
    /\ Store = "memory" => ~t.charged

(* What a request that is over has told its client and its auditor.        *)
Told(t) ==
    \/ /\ t.answer = "success" /\ t.decision = "ALLOW" /\ t.reason = "" /\ t.charged
    \/ /\ t.answer = "error" /\ t.decision = "DENY" /\ t.reason # ""
       /\ Store = "memory" => ~t.charged

Tidy(t) ==
    /\ Confined(t)
    /\ t.pc \notin {"answered", "aborted"} => Open(t)
    /\ t.pc = "answered" => t.emitted = 1 /\ Told(t)
    /\ t.pc = "aborted" => t.emitted = 1 /\ Open([t EXCEPT !.emitted = 0])
    /\ t.pc = "recorded" => t.charged
    /\ Store = "memory" => t.pc \notin {"checking", "checked", "recording", "recorded"}

LEMMA DiscardAudit ==
    ASSUME NEW t \in Tasks
    PROVE  /\ Discard(t).creds # "live" /\ Discard(t).emitted = t.emitted
           /\ Discard(t).answer = t.answer /\ Discard(t).decision = t.decision
           /\ Discard(t).reason = t.reason /\ Discard(t).charged = t.charged
BY DEF Discard, Tasks

LEMMA AnsweredAudit ==
    ASSUME NEW t \in Tasks, NEW body \in {"success", "error"}
    PROVE  /\ Answered(t, body).creds = t.creds /\ Answered(t, body).emitted = t.emitted
           /\ Answered(t, body).answer = body /\ Answered(t, body).decision = t.decision
           /\ Answered(t, body).reason = t.reason /\ Answered(t, body).charged = t.charged
BY DEF Answered, Tasks

LEMMA EmitAudit ==
    ASSUME NEW t \in Tasks
    PROVE  /\ Emit(t).creds = t.creds /\ Emit(t).emitted = t.emitted + 1
           /\ Emit(t).answer = t.answer /\ Emit(t).decision = t.decision
           /\ Emit(t).reason = t.reason /\ Emit(t).charged = t.charged
           /\ Emit(t).pc = t.pc
           /\ t.emitted = 0 => Emit(t).emitted = 1
BY DEF Emit, Tasks

LEMMA RefusedTidy ==
    ASSUME NEW t \in Tasks, Open(t), NEW why \in Reasons, why # ""
    PROVE  Tidy(Refused(t, why))
<1> DEFINE d == Discard(t)
           u == Answered(d, "error")
           v == [u EXCEPT !.reason = why]
           w == Emit(v)
<1>1. /\ d \in Tasks /\ d.creds # "live" /\ d.emitted = 0 /\ d.decision = "DENY"
      /\ d.charged = t.charged
  BY DiscardType, DiscardAudit DEF Open
<1> HIDE DEF d
<1>2. /\ u \in Tasks /\ u.creds # "live" /\ u.emitted = 0 /\ u.decision = "DENY"
      /\ u.answer = "error" /\ u.charged = t.charged /\ u.pc = "answered"
  BY <1>1, AnsweredType, AnsweredAudit, EndingFields
<1> HIDE DEF u
<1>3. /\ v \in Tasks /\ v.creds # "live" /\ v.emitted = 0 /\ v.decision = "DENY"
      /\ v.answer = "error" /\ v.charged = t.charged /\ v.pc = "answered"
      /\ v.reason = why
  BY <1>2 DEF Tasks
<1> HIDE DEF v
<1>4. /\ w.creds # "live" /\ w.emitted = 1 /\ w.decision = "DENY"
      /\ w.answer = "error" /\ w.charged = t.charged /\ w.pc = "answered"
      /\ w.reason = why
  BY <1>3, EmitAudit
<1>5. Refused(t, why) = w
  BY DEF Refused, d, u, v
<1> HIDE DEF w
<1> QED
  BY <1>4, <1>5 DEF Tidy, Confined, Told, Open

LEMMA SucceededTidy ==
    ASSUME NEW t \in Tasks, t.reason = "", t.emitted = 0, t.charged
    PROVE  Tidy(Succeeded(t))
<1> DEFINE d == Discard(t)
           u == Answered(d, "success")
           v == [u EXCEPT !.decision = "ALLOW"]
           w == Emit(v)
<1>1. d \in Tasks /\ d.creds # "live" /\ d.emitted = 0 /\ d.reason = "" /\ d.charged
  BY DiscardType, DiscardAudit
<1> HIDE DEF d
<1>2. /\ u \in Tasks /\ u.creds # "live" /\ u.emitted = 0 /\ u.reason = ""
      /\ u.answer = "success" /\ u.charged /\ u.pc = "answered"
  BY <1>1, AnsweredType, AnsweredAudit, EndingFields
<1> HIDE DEF u
<1>3. /\ v \in Tasks /\ v.creds # "live" /\ v.emitted = 0 /\ v.reason = ""
      /\ v.answer = "success" /\ v.charged /\ v.pc = "answered" /\ v.decision = "ALLOW"
  BY <1>2 DEF Tasks
<1> HIDE DEF v
<1>4. /\ w.creds # "live" /\ w.emitted = 1 /\ w.reason = ""
      /\ w.answer = "success" /\ w.charged /\ w.pc = "answered" /\ w.decision = "ALLOW"
  BY <1>3, EmitAudit
<1>5. Succeeded(t) = w
  BY DEF Succeeded, d, u, v
<1> HIDE DEF w
<1> QED
  BY <1>4, <1>5 DEF Tidy, Confined, Told

LEMMA OpenNow ==
    ASSUME NEW t \in Tasks
    PROVE  Open([t EXCEPT !.emitted = 0]) <=>
             /\ t.answer = "none" /\ t.decision = "DENY" /\ t.reason = ""
             /\ Store = "memory" => ~t.charged
<1> DEFINE u == [t EXCEPT !.emitted = 0]
<1>1. /\ u.answer = t.answer /\ u.decision = t.decision /\ u.reason = t.reason
      /\ u.charged = t.charged /\ u.emitted = 0
  BY DEF Tasks
<1> HIDE DEF u
<1>2. Open(u) <=> /\ t.answer = "none" /\ t.decision = "DENY" /\ t.reason = ""
                  /\ Store = "memory" => ~t.charged
  BY <1>1 DEF Open
<1> QED
  BY <1>2 DEF u

LEMMA AbortedTidy ==
    ASSUME NEW t \in Tasks, Open(t)
    PROVE  Tidy(Aborted(t))
<1> DEFINE d == Discard(t)
           v == [d EXCEPT !.pc = "aborted"]
           w == Emit(v)
<1>1. /\ d \in Tasks /\ d.creds # "live" /\ d.emitted = 0 /\ d.decision = "DENY"
      /\ d.charged = t.charged /\ d.answer = "none" /\ d.reason = ""
  BY DiscardType, DiscardAudit DEF Open
<1> HIDE DEF d
<1>2. /\ v \in Tasks /\ v.creds # "live" /\ v.emitted = 0 /\ v.decision = "DENY"
      /\ v.charged = t.charged /\ v.answer = "none" /\ v.reason = "" /\ v.pc = "aborted"
  BY <1>1 DEF Tasks, Ended
<1> HIDE DEF v
<1>3. /\ w \in Tasks /\ w.creds # "live" /\ w.emitted = 1 /\ w.decision = "DENY"
      /\ w.charged = t.charged /\ w.answer = "none" /\ w.reason = "" /\ w.pc = "aborted"
  BY <1>2, EmitType, EmitAudit
<1>4. Aborted(t) = w
  BY DEF Aborted, d, v
<1> HIDE DEF w
<1>5. Open([w EXCEPT !.emitted = 0])
  BY <1>3, OpenNow DEF Open
<1> QED
  BY <1>3, <1>4, <1>5 DEF Tidy, Confined

(* Nothing but the place of a request, its events, its answer, its count   *)
(* and its credentials matters.                                            *)
LEMMA SameTidy ==
    ASSUME NEW t \in Tasks, NEW u \in Tasks, Tidy(t), u.pc = t.pc,
           u.creds = t.creds, u.emitted = t.emitted, u.answer = t.answer,
           u.decision = t.decision, u.reason = t.reason, u.charged = t.charged
    PROVE  Tidy(u)
BY OpenNow DEF Tidy, Confined, Told, Open

LEMMA LostTidy ==
    ASSUME NEW t \in Tasks, Tidy(t)
    PROVE  Tidy(Lost(t)) /\ Tidy(Unspent(t))
<1> DEFINE l == Lost(t)
           p == Unspent(t)
<1>1. /\ l \in Tasks /\ p \in Tasks
  BY LostType, UnspentType
<1>2. /\ l.pc = IF t.pc \in Waiting THEN "lost" ELSE t.pc
      /\ l.creds = "none" /\ l.emitted = t.emitted /\ l.answer = t.answer
      /\ l.decision = t.decision /\ l.reason = t.reason /\ l.charged = t.charged
  BY DEF Lost, Tasks
<1>3. /\ p.pc = t.pc
      /\ p.creds = t.creds /\ p.emitted = t.emitted /\ p.answer = t.answer
      /\ p.decision = t.decision /\ p.reason = t.reason /\ p.charged = t.charged
  BY DEF Unspent, Tasks
<1> HIDE DEF l, p
<1>4. Tidy(p)
  BY <1>1, <1>3, SameTidy
<1>5. Tidy(l)
  <2>1. Confined(l)
    BY <1>2 DEF Confined, Waiting
  <2>2. CASE t.pc \in Waiting
    BY <1>2, <2>1, <2>2 DEF Tidy, Open, Waiting
  <2>3. CASE t.pc \notin Waiting
    <3>1. l.pc = t.pc
      BY <1>2, <2>3
    <3>2. Open(l) <=> Open(t)
      BY <1>2 DEF Open
    <3>3. Told(l) <=> Told(t)
      BY <1>2 DEF Told
    <3>4. Open([l EXCEPT !.emitted = 0]) <=> Open([t EXCEPT !.emitted = 0])
      BY <1>1, <1>2, OpenNow
    <3>5. t.pc # "recorded"
      BY <2>3 DEF Waiting
    <3> QED
      BY <1>2, <2>1, <3>1, <3>2, <3>3, <3>4, <3>5 DEF Tidy
  <2> QED
    BY <2>2, <2>3
<1> QED
  BY <1>4, <1>5 DEF l, p

(* Up to the POST: either an end, or the request is open and holds the     *)
(* credentials it needs.                                                   *)
LEMMA AfterCheckTidy ==
    ASSUME NEW t \in Tasks, NEW m \in {"ok", "mint", "unhandled"}, Open(t),
           t.creds # "live"
    PROVE  Tidy(AfterCheck(t, m))
<1>1. CASE t.verdict = "over" \/ m # "ok"
  BY <1>1, RefusedTidy, ReasonNames DEF AfterCheck
<1>2. CASE t.verdict # "over" /\ m = "ok"
  <2> DEFINE u == Minted(t)
             v == [u EXCEPT !.pc = "executing", !.target = "pending"]
  <2>1. /\ u \in Tasks /\ u.answer = t.answer /\ u.decision = t.decision
        /\ u.reason = t.reason /\ u.emitted = t.emitted /\ u.charged = t.charged
        /\ u.creds = "live" <=> Broker = "aws_sts"
    <3>1. u \in Tasks
      BY MintedType
    <3>2. /\ u.answer = t.answer /\ u.decision = t.decision
          /\ u.reason = t.reason /\ u.emitted = t.emitted /\ u.charged = t.charged
      BY DEF Minted, Tasks
    <3>3. u.creds = "live" <=> Broker = "aws_sts"
      BY PipelineAssumption DEF Minted, Tasks
    <3> QED
      BY <3>1, <3>2, <3>3
  <2>2. AfterCheck(t, m) = IF HasTarget(t.req) \/ DefaultTarget THEN v
                                                              ELSE Refused(u, "execution")
    BY <1>2 DEF AfterCheck, Executing
  <2> HIDE DEF u
  <2>3. Open(u)
    BY <2>1 DEF Open
  <2>4. Tidy(Refused(u, "execution"))
    BY <2>1, <2>3, RefusedTidy, ReasonNames
  <2>5. /\ v.answer = u.answer /\ v.decision = u.decision /\ v.reason = u.reason
        /\ v.emitted = u.emitted /\ v.charged = u.charged /\ v.creds = u.creds
        /\ v.pc = "executing"
    BY <2>1 DEF Tasks
  <2> HIDE DEF v
  <2>6. Tidy(v)
    BY <2>1, <2>3, <2>5 DEF Tidy, Confined, Open
  <2> QED
    BY <2>2, <2>4, <2>6
<1> QED
  BY <1>1, <1>2

AllTidy == \A s \in Slots : Tidy(task[s])

LEMMA FreshTidy ==
    ASSUME NEW s \in Slots, NEW r \in Inputs
    PROVE  /\ Start(s, r) \in Tasks /\ Open(Start(s, r))
           /\ Start(s, r).creds = "none"
BY StartType DEF Start, Fresh, Open

LEMMA SetTidy ==
    ASSUME TypeOK, AllTidy, NEW s \in Slots, NEW t, Set(s, t), Tidy(t)
    PROVE  AllTidy'
BY DEF AllTidy, Set, TypeOK

(* A step that takes a request from one await to the next.                 *)
LEMMA WaitingTidy ==
    ASSUME NEW u, Open(u), Confined(u), u.pc \in Waiting \cup {"idle"},
           u.pc = "recorded" => u.charged,
           Store = "memory" => u.pc \notin {"checking", "checked", "recording", "recorded"}
    PROVE  Tidy(u)
BY DEF Tidy, Waiting

LEMMA GateReasons == \A i \in DOMAIN Gates : Gates[i] \in Reasons /\ Gates[i] # ""
<1>1. \A i \in 1..10 : Gates[i] # ""
  <2>1. /\ Gates[1] = "parse" /\ Gates[2] = "batch" /\ Gates[3] = "not_object"
        /\ Gates[4] = "notification" /\ Gates[5] = "authentication"
        /\ Gates[6] = "schema" /\ Gates[7] = "params" /\ Gates[8] = "evaluator"
        /\ Gates[9] = "policy" /\ Gates[10] = "egress"
    BY DEF Gates
  <2>2. ASSUME NEW i \in 1..10
        PROVE  i \in {1, 2, 3, 4, 5, 6, 7, 8, 9, 10}
    OBVIOUS
  <2> QED
    BY <2>1, <2>2
<1>2. DOMAIN Gates = 1..10
  BY DEF Gates
<1> QED
  BY <1>1, <1>2 DEF Reasons

LEMMA NextTidy == TypeOK /\ AllTidy /\ [Next]_vars => AllTidy'
<1> SUFFICES ASSUME TypeOK, AllTidy, [Next]_vars PROVE AllTidy'
  OBVIOUS
<1>0. \A s \in Slots : task[s] \in Tasks /\ Tidy(task[s])
  BY DEF TypeOK, AllTidy
<1>a. \A s \in Slots : task[s].pc \in Waiting => Open(task[s])
  BY <1>0 DEF Tidy, Waiting
<1>1. ASSUME NEW s \in Slots, NEW r \in Inputs, ReceiveRefused(s, r)
      PROVE  AllTidy'
  <2>1. PICK i \in DOMAIN Gates : Set(s, Refused(Start(s, r), Gates[i]))
    BY <1>1 DEF ReceiveRefused
  <2>2. Tidy(Refused(Start(s, r), Gates[i]))
    BY GateReasons, FreshTidy, RefusedTidy
  <2> QED
    BY <2>1, <2>2, SetTidy
<1>2. ASSUME NEW s \in Slots, NEW r \in Inputs, ReceiveMemory(s, r)
      PROVE  AllTidy'
  <2> DEFINE u == Checked(Start(s, r), StoreOf(s))
  <2>1. PICK m \in MintResults(r) : Set(s, AfterCheck(u, m))
    BY <1>2 DEF ReceiveMemory
  <2>2. u \in Tasks /\ m \in {"ok", "mint", "unhandled"}
    BY FreshTidy, CheckedType, MintResultsType
  <2>3. u.creds = "none" /\ Open(u)
    BY DEF Checked, Start, Fresh, Open
  <2> HIDE DEF u
  <2>4. Tidy(AfterCheck(u, m))
    BY <2>2, <2>3, AfterCheckTidy
  <2> QED
    BY <2>1, <2>4, SetTidy
<1>3. ASSUME NEW s \in Slots, NEW r \in Inputs, ReceiveRedis(s, r)
      PROVE  AllTidy'
  <2> DEFINE t == [Start(s, r) EXCEPT !.pc = "checking"]
  <2>1. t.pc = "checking" /\ t.creds = "none" /\ Open(t)
    BY DEF Start, Fresh, Open
  <2>2. Store # "memory" /\ Set(s, t)
    BY <1>3 DEF ReceiveRedis
  <2> HIDE DEF t
  <2>3. Tidy(t)
    BY <2>1, <2>2, WaitingTidy DEF Confined, Waiting
  <2> QED
    BY <2>2, <2>3, SetTidy
<1>4. ASSUME NEW s \in Slots, RedisCheck(s)
      PROVE  AllTidy'
  <2> DEFINE u == Checked(task[s], StoreOf(s))
             t == [u EXCEPT !.pc = "checked"]
  <2>1. /\ u \in Tasks /\ u.answer = task[s].answer /\ u.decision = task[s].decision
        /\ u.reason = task[s].reason /\ u.emitted = task[s].emitted
        /\ u.charged = task[s].charged /\ u.creds = task[s].creds
    <3>1. u \in Tasks
      BY <1>0, CheckedType
    <3> QED
      BY <1>0, <3>1 DEF Checked, Tasks
  <2>2. task[s].pc = "checking" /\ Set(s, t)
    BY <1>4 DEF RedisCheck
  <2> HIDE DEF u
  <2>3. /\ t.answer = u.answer /\ t.decision = u.decision /\ t.reason = u.reason
        /\ t.emitted = u.emitted /\ t.charged = u.charged /\ t.creds = u.creds
        /\ t.pc = "checked"
    BY <2>1 DEF Tasks
  <2> HIDE DEF t
  <2>4. Open(t) /\ Confined(t) /\ Store # "memory"
    BY <1>0, <1>a, <2>1, <2>2, <2>3, PipelineAssumption DEF Tidy, Open, Confined, Waiting
  <2> QED
    BY <2>2, <2>3, <2>4, WaitingTidy, SetTidy DEF Waiting
<1>5. ASSUME NEW s \in Slots, CheckReturns(s)
      PROVE  AllTidy'
  <2>1. PICK m \in MintResults(task[s].req) : Set(s, AfterCheck(task[s], m))
    BY <1>5 DEF CheckReturns
  <2>2. Open(task[s]) /\ task[s].creds # "live"
    BY <1>0, <1>a, <1>5 DEF CheckReturns, Tidy, Confined, Waiting
  <2>3. m \in {"ok", "mint", "unhandled"}
    BY MintResultsType
  <2> QED
    BY <1>0, <2>1, <2>2, <2>3, AfterCheckTidy, SetTidy
<1>6. ASSUME NEW s \in Slots, CheckFails(s) \/ RecordFails(s) \/ ExecuteRaises(s)
      PROVE  AllTidy'
  <2>1. PICK why \in {"execution", "unhandled"} : Set(s, Refused(task[s], why))
    BY <1>6 DEF CheckFails, RecordFails, ExecuteRaises
  <2>2. Open(task[s])
    BY <1>a, <1>6 DEF CheckFails, RecordFails, ExecuteRaises, Waiting
  <2>3. Tidy(Refused(task[s], why))
    BY <1>0, <2>2, ReasonNames, RefusedTidy
  <2> QED
    BY <2>1, <2>3, SetTidy
<1>7. ASSUME NEW s \in Slots, RecordReturns(s)
      PROVE  AllTidy'
  <2>1. /\ task[s] \in Tasks /\ task[s].reason = "" /\ task[s].emitted = 0
        /\ task[s].charged /\ Set(s, Succeeded(task[s]))
    BY <1>0, <1>a, <1>7 DEF RecordReturns, Tidy, Open, Waiting
  <2> QED
    BY <2>1, SucceededTidy, SetTidy
<1>8. ASSUME NEW s \in Slots, Cancel(s)
      PROVE  AllTidy'
  <2>1. Open(task[s]) /\ Set(s, Aborted(task[s]))
    BY <1>a, <1>8 DEF Cancel
  <2> QED
    BY <1>0, <2>1, AbortedTidy, SetTidy
<1>9. ASSUME NEW s \in Slots, TargetActs(s) \/ TargetRejects(s)
      PROVE  AllTidy'
  <2>1. PICK a \in {"acted", "rejected"} : Set(s, [task[s] EXCEPT !.target = a])
    BY <1>9 DEF TargetActs, TargetRejects
  <2> DEFINE t == [task[s] EXCEPT !.target = a]
  <2>2. /\ t \in Tasks /\ t.answer = task[s].answer /\ t.decision = task[s].decision
        /\ t.reason = task[s].reason /\ t.emitted = task[s].emitted
        /\ t.charged = task[s].charged /\ t.creds = task[s].creds /\ t.pc = task[s].pc
    BY <1>0 DEF Tasks
  <2> HIDE DEF t
  <2>3. Tidy(t)
    BY <1>0, <2>2, SameTidy
  <2> QED
    BY <2>1, <2>3, SetTidy DEF t
<1>10. ASSUME NEW s \in Slots, NEW u \in Returned(task[s])
       PROVE  /\ u \in Tasks /\ u.answer = task[s].answer /\ u.decision = task[s].decision
              /\ u.reason = task[s].reason /\ u.emitted = task[s].emitted
              /\ u.charged = task[s].charged /\ u.creds = task[s].creds /\ u.pc = task[s].pc
  <2>1. u \in Tasks
    BY <1>0, ReturnedType
  <2> QED
    BY <1>0, <2>1 DEF Returned, Tasks
<1>11. ASSUME NEW s \in Slots, ExecuteReturnsMemory(s)
       PROVE  AllTidy'
  <2>1. PICK u \in Returned(task[s]) : Set(s, Succeeded(Charged(u)))
    BY <1>11 DEF ExecuteReturnsMemory
  <2>2. Open(task[s])
    BY <1>a, <1>11 DEF ExecuteReturnsMemory, Waiting
  <2>3. u \in Tasks /\ u.reason = "" /\ u.emitted = 0
    BY <1>10, <2>2 DEF Open
  <2>4. /\ Charged(u) \in Tasks /\ Charged(u).charged
        /\ Charged(u).reason = "" /\ Charged(u).emitted = 0
    BY <2>3, ChargedType DEF Charged, Tasks
  <2>5. Tidy(Succeeded(Charged(u)))
    BY <2>4, SucceededTidy
  <2> QED
    BY <2>1, <2>5, SetTidy
<1>12. ASSUME NEW s \in Slots, ExecuteReturnsRedis(s)
       PROVE  AllTidy'
  <2>1. PICK u \in Returned(task[s]) : Set(s, [u EXCEPT !.pc = "recording"])
    BY <1>12 DEF ExecuteReturnsRedis
  <2>2. Store # "memory" /\ task[s].pc = "executing" /\ Open(task[s])
    BY <1>a, <1>12 DEF ExecuteReturnsRedis, Waiting
  <2> DEFINE t == [u EXCEPT !.pc = "recording"]
  <2>3. /\ t.answer = u.answer /\ t.decision = u.decision /\ t.reason = u.reason
        /\ t.emitted = u.emitted /\ t.charged = u.charged /\ t.creds = u.creds
        /\ t.pc = "recording"
    BY <1>10 DEF Tasks
  <2> HIDE DEF t
  <2>4. /\ u.answer = task[s].answer /\ u.decision = task[s].decision
        /\ u.reason = task[s].reason /\ u.emitted = task[s].emitted
        /\ u.charged = task[s].charged /\ u.creds = task[s].creds
    BY <1>10
  <2>6. Open(t)
    BY <2>2, <2>3, <2>4 DEF Open
  <2>7. Confined(t)
    <3>1. Confined(task[s])
      BY <1>0 DEF Tidy
    <3> QED
      BY <2>2, <2>3, <2>4, <3>1 DEF Confined
  <2>5. Tidy(t)
    BY <2>2, <2>3, <2>6, <2>7, WaitingTidy DEF Waiting
  <2> QED
    BY <2>1, <2>5, SetTidy DEF t
<1>13. ASSUME NEW s \in Slots, RedisRecord(s)
       PROVE  AllTidy'
  <2> DEFINE u == Charged(task[s])
             t == [u EXCEPT !.pc = "recorded"]
  <2>1. /\ u \in Tasks /\ u.answer = task[s].answer /\ u.decision = task[s].decision
        /\ u.reason = task[s].reason /\ u.emitted = task[s].emitted
        /\ u.charged /\ u.creds = task[s].creds
    <3>1. u \in Tasks
      BY <1>0, ChargedType
    <3> QED
      BY <1>0, <3>1 DEF Charged, Tasks
  <2>2. task[s].pc = "recording" /\ Set(s, t)
    BY <1>13 DEF RedisRecord
  <2>3. Store # "memory" /\ Open(task[s])
    BY <1>0, <1>a, <2>2 DEF Tidy, Waiting
  <2> HIDE DEF u
  <2>4. /\ t.answer = u.answer /\ t.decision = u.decision /\ t.reason = u.reason
        /\ t.emitted = u.emitted /\ t.charged = u.charged /\ t.creds = u.creds
        /\ t.pc = "recorded"
    BY <2>1 DEF Tasks
  <2> HIDE DEF t
  <2>5. Open(t) /\ Confined(t)
    BY <1>0, <2>1, <2>2, <2>3, <2>4 DEF Tidy, Open, Confined
  <2>6. Tidy(t)
    BY <2>1, <2>3, <2>4, <2>5, WaitingTidy DEF Waiting
  <2> QED
    BY <2>2, <2>6, SetTidy
<1>14. ASSUME NEW w \in Workers, RestartWorker(w)
       PROVE  AllTidy'
  <2>1. ASSUME NEW s \in Slots
        PROVE  Tidy(Lost(task[s])) /\ Tidy(Unspent(Lost(task[s])))
    BY <1>0, LostType, LostTidy
  <2> QED
    BY <1>0, <1>14, <2>1 DEF RestartWorker, AllTidy
<1>15. ASSUME NEW C \in SUBSET Callers, LoseCounters(C)
       PROVE  AllTidy'
  <2>1. \A s \in Slots : Tidy(Unspent(task[s]))
    BY <1>0, LostTidy
  <2> QED
    BY <1>0, <1>15, <2>1 DEF LoseCounters, AllTidy
<1>16. CASE (\E w \in Workers : StopWorker(w)) \/ UNCHANGED vars
  BY <1>16 DEF StopWorker, vars, AllTidy
<1> QED
  BY <1>1, <1>2, <1>3, <1>4, <1>5, <1>6, <1>7, <1>8, <1>9, <1>11, <1>12,
     <1>13, <1>14, <1>15, <1>16 DEF Next, RedisServes, ExecuteEnds

LEMMA InitTidy == Init => AllTidy
<1> SUFFICES ASSUME Init, NEW s \in Slots PROVE Tidy(task[s])
  BY DEF AllTidy
<1>1. /\ task[s].pc = "idle" /\ task[s].creds = "none" /\ Open(task[s])
  BY DEF Init, Fresh, Open
<1> QED
  BY <1>1, WaitingTidy DEF Confined

(* No path leaves usable credentials behind, and none executes without     *)
(* the ones it needs (pipeline.py 239-272, aws_sts.py 111-133).            *)
THEOREM CredentialsAreConfined == Spec => []CredentialsConfined
<1>1. AllTidy => CredentialsConfined
  BY DEF AllTidy, Tidy, Confined, CredentialsConfined
<1> QED
  BY <1>1, InitTidy, NextTidy, TypeCorrect, PTL DEF Spec

(* One event for every request that ends in a running process, saying what *)
(* its client was told (pipeline.py 144-157, 255-268).                     *)
THEOREM AuditIsTrue == Spec => []AuditIsTruthful
<1>1. TypeOK /\ AllTidy => AuditIsTruthful
  <2> SUFFICES ASSUME TypeOK, AllTidy, NEW s \in Slots
               PROVE  LET t == task[s]
                      IN  /\ t.emitted = IF t.pc \in {"answered", "aborted"} THEN 1 ELSE 0
                          /\ t.decision = "ALLOW" <=> t.answer = "success"
                          /\ t.answer = "error" <=> t.reason # ""
                          /\ t.decision = "ALLOW" => t.charged
                          /\ Store = "memory" /\ t.charged => t.decision = "ALLOW"
    BY DEF AuditIsTruthful
  <2>1. task[s] \in Tasks /\ Tidy(task[s])
    BY DEF TypeOK, AllTidy
  <2>2. CASE task[s].pc = "answered"
    BY <2>1, <2>2 DEF Tidy, Told
  <2>3. CASE task[s].pc = "aborted"
    BY <2>1, <2>3, OpenNow DEF Tidy
  <2>4. CASE task[s].pc \notin {"answered", "aborted"}
    BY <2>1, <2>4 DEF Tidy, Open
  <2> QED
    BY <2>2, <2>3, <2>4
<1> QED
  BY <1>1, InitTidy, NextTidy, TypeCorrect, PTL DEF Spec
-----------------------------------------------------------------------------
(* The way of a request.  That it comes to its end needs fairness; that it *)
(* cannot go in circles does not.                                          *)

Later ==
    [checking  |-> {"checked", "executing", "recording", "recorded"},
     checked   |-> {"executing", "recording", "recorded"},
     executing |-> {"recording", "recorded"},
     recording |-> {"recorded"},
     recorded  |-> {}]

Advances(t, u) == u.pc \in Ended \/ (u.pc \in Later[t.pc] /\ u.req = t.req)

Stays(t, u) == u.pc = t.pc /\ u.req = t.req

(* A request under way meets each of its awaits once and in their order,   *)
(* whatever fails, is cancelled or restarts: no retry, no second execution *)
(* or charge; and each step that the fairness speaks of brings it on.      *)
(* (pipeline.py 232-272)                                                   *)
MovesOn ==
    \A s \in Slots : task[s].pc \in Waiting =>
        /\ Stays(task[s], task'[s]) \/ Advances(task[s], task'[s])
        /\ RedisServes(s) \/ CheckReturns(s) \/ ExecuteEnds(s) \/ RecordReturns(s)
              => Advances(task[s], task'[s])

LEMMA SetOther ==
    ASSUME task \in [Slots -> Tasks], NEW s \in Slots, NEW t, Set(s, t), NEW o \in Slots
    PROVE  task'[o] = IF o = s THEN t ELSE task[o]
BY DEF Set

LEMMA AbortedEnded ==
    ASSUME NEW t \in Tasks
    PROVE  Aborted(t).pc = "aborted"
BY DiscardType DEF Aborted, Emit, Tasks

LEMMA AfterCheckGoes ==
    ASSUME NEW t \in Tasks, t.pc = "checked", NEW m \in {"ok", "mint", "unhandled"}
    PROVE  Advances(t, AfterCheck(t, m))
<1>0. Minted(t) \in Tasks
  BY MintedType
<1>1. Minted(t) \in Tasks /\ Minted(t).req = t.req
  BY <1>0 DEF Minted, Tasks
<1>2. \A why \in Reasons : Refused(t, why).pc = "answered" /\ Refused(Minted(t), why).pc = "answered"
  BY <1>1, RefusedFields
<1>3. [Minted(t) EXCEPT !.pc = "executing", !.target = "pending"].pc = "executing"
  BY <1>1 DEF Tasks
<1>4. AfterCheck(t, m).pc = "answered" \/ AfterCheck(t, m).pc = "executing"
  BY <1>2, <1>3, ReasonNames DEF AfterCheck, Executing
<1>5. AfterCheck(t, m).req = t.req
  BY AfterCheckFields
<1> QED
  BY <1>4, <1>5 DEF Advances, Ended, Later

(* One step of one request.                                                *)
LEMMA OwnStep ==
    ASSUME TypeOK, NEW s \in Slots, task[s].pc \in Waiting,
           \/ RedisServes(s) \/ CheckReturns(s) \/ CheckFails(s) \/ ExecuteEnds(s)
           \/ RecordReturns(s) \/ RecordFails(s) \/ Cancel(s)
    PROVE  /\ Advances(task[s], task'[s])
           /\ \A o \in Slots \ {s} : task'[o] = task[o]
<1>0. task \in [Slots -> Tasks] /\ task[s] \in Tasks
  BY DEF TypeOK
<1>a. \A u : Set(s, u) => task'[s] = u /\ \A o \in Slots \ {s} : task'[o] = task[o]
  BY <1>0, SetOther
<1>b. ASSUME NEW why \in Reasons PROVE Advances(task[s], Refused(task[s], why))
  BY <1>0, RefusedFields DEF Advances, Ended
<1>c. Advances(task[s], Succeeded(task[s]))
  BY <1>0, SucceededFields DEF Advances, Ended
<1>1. CASE RedisCheck(s)
  <2> DEFINE u == [Checked(task[s], StoreOf(s)) EXCEPT !.pc = "checked"]
  <2>1. u.pc = "checked" /\ u.req = task[s].req
    BY <1>0 DEF Checked, Tasks
  <2>2. Set(s, u) /\ task[s].pc = "checking"
    BY <1>1 DEF RedisCheck
  <2>3. Advances(task[s], u)
    BY <2>1, <2>2 DEF Advances, Later
  <2> HIDE DEF u
  <2> QED
    BY <1>a, <2>2, <2>3
<1>2. CASE CheckReturns(s)
  <2>1. PICK m \in MintResults(task[s].req) : Set(s, AfterCheck(task[s], m)) /\ task[s].pc = "checked"
    BY <1>2 DEF CheckReturns
  <2>2. m \in {"ok", "mint", "unhandled"}
    BY DEF MintResults
  <2> QED
    BY <1>0, <1>a, <2>1, <2>2, AfterCheckGoes
<1>3. CASE CheckFails(s) \/ RecordFails(s)
  BY <1>3, <1>a, <1>b, ReasonNames DEF CheckFails, RecordFails
<1>4. CASE ExecuteReturnsMemory(s)
  <2>1. PICK v \in Returned(task[s]) : Set(s, Succeeded(Charged(v)))
    BY <1>4 DEF ExecuteReturnsMemory
  <2>2. Charged(v) \in Tasks
    BY <1>0, ReturnedType, ChargedType
  <2>3. Advances(task[s], Succeeded(Charged(v)))
    BY <2>2, SucceededFields DEF Advances, Ended
  <2> QED
    BY <1>a, <2>1, <2>3
<1>5. CASE ExecuteReturnsRedis(s)
  <2>1. PICK v \in Returned(task[s]) : Set(s, [v EXCEPT !.pc = "recording"]) /\ task[s].pc = "executing"
    BY <1>5 DEF ExecuteReturnsRedis
  <2> DEFINE u == [v EXCEPT !.pc = "recording"]
  <2>2. v \in Tasks /\ v.req = task[s].req
    BY <1>0, ReturnedType, ReturnedFields
  <2>3. u.pc = "recording" /\ u.req = task[s].req
    BY <2>2 DEF Tasks
  <2>4. Advances(task[s], u)
    BY <2>1, <2>3 DEF Advances, Later
  <2> HIDE DEF u
  <2>5. Set(s, u)
    BY <2>1 DEF u
  <2> QED
    BY <1>a, <2>4, <2>5
<1>6. CASE ExecuteRaises(s)
  <2>1. PICK why \in {"execution", "unhandled"} : Set(s, Refused(task[s], why))
    BY <1>6 DEF ExecuteRaises
  <2> QED
    BY <1>a, <1>b, <2>1, ReasonNames
<1>7. CASE RedisRecord(s)
  <2> DEFINE u == [Charged(task[s]) EXCEPT !.pc = "recorded"]
  <2>1. u.pc = "recorded" /\ u.req = task[s].req
    BY <1>0 DEF Charged, Tasks
  <2>2. Set(s, u) /\ task[s].pc = "recording"
    BY <1>7 DEF RedisRecord
  <2>3. Advances(task[s], u)
    BY <2>1, <2>2 DEF Advances, Later
  <2> HIDE DEF u
  <2> QED
    BY <1>a, <2>2, <2>3
<1>8. CASE RecordReturns(s)
  BY <1>8, <1>a, <1>c DEF RecordReturns
<1>9. CASE Cancel(s)
  <2>1. Advances(task[s], Aborted(task[s]))
    BY <1>0, AbortedEnded DEF Advances, Ended
  <2> QED
    BY <1>9, <1>a, <2>1 DEF Cancel
<1> QED
  BY <1>1, <1>2, <1>3, <1>4, <1>5, <1>6, <1>7, <1>8, <1>9 DEF RedisServes, ExecuteEnds

LEMMA NextMovesOn == TypeOK /\ [Next]_vars => MovesOn
<1> SUFFICES ASSUME TypeOK, [Next]_vars, NEW o \in Slots, task[o].pc \in Waiting
             PROVE  /\ Stays(task[o], task'[o]) \/ Advances(task[o], task'[o])
                    /\ RedisServes(o) \/ CheckReturns(o) \/ ExecuteEnds(o) \/ RecordReturns(o)
                          => Advances(task[o], task'[o])
  BY DEF MovesOn
<1>0. task \in [Slots -> Tasks] /\ task[o] \in Tasks
  BY DEF TypeOK
<1>1. RedisServes(o) \/ CheckReturns(o) \/ ExecuteEnds(o) \/ RecordReturns(o)
          => Advances(task[o], task'[o])
  BY OwnStep
<1>2. Stays(task[o], task[o])
  BY DEF Stays
<1>3. ASSUME NEW s \in Slots, NEW r \in Inputs,
             ReceiveRefused(s, r) \/ ReceiveMemory(s, r) \/ ReceiveRedis(s, r)
      PROVE  task'[o] = task[o]
  <2>1. s # o
    BY <1>3 DEF ReceiveRefused, ReceiveMemory, ReceiveRedis, CanReceive, Waiting, Ended
  <2>2. \E u : Set(s, u)
    BY <1>3 DEF ReceiveRefused, ReceiveMemory, ReceiveRedis
  <2> QED
    BY <1>0, <2>1, <2>2, SetOther
<1>4. ASSUME NEW s \in Slots, TargetActs(s) \/ TargetRejects(s)
      PROVE  Stays(task[o], task'[o])
  <2>1. PICK to : Set(s, [task[s] EXCEPT !.target = to])
    BY <1>4 DEF TargetActs, TargetRejects
  <2> DEFINE u == [task[s] EXCEPT !.target = to]
  <2>2. Stays(task[s], u)
    BY <1>0 DEF Stays, Tasks
  <2> HIDE DEF u
  <2>3. task'[o] = IF o = s THEN u ELSE task[o]
    BY <1>0, <2>1, SetOther DEF u
  <2> QED
    BY <1>2, <2>2, <2>3
<1>5. ASSUME NEW s \in Slots,
             \/ RedisServes(s) \/ CheckReturns(s) \/ CheckFails(s) \/ ExecuteEnds(s)
             \/ RecordReturns(s) \/ RecordFails(s) \/ Cancel(s)
      PROVE  Stays(task[o], task'[o]) \/ Advances(task[o], task'[o])
  <2>1. task[s].pc \in Waiting
    BY <1>5 DEF RedisServes, RedisCheck, RedisRecord, CheckReturns, CheckFails, ExecuteEnds,
                ExecuteReturnsMemory, ExecuteReturnsRedis, ExecuteRaises, RecordReturns,
                RecordFails, Cancel, Waiting
  <2>2. Advances(task[s], task'[s]) /\ \A x \in Slots \ {s} : task'[x] = task[x]
    BY <1>5, <2>1, OwnStep
  <2> QED
    BY <1>2, <2>2
<1>6. ASSUME NEW w \in Workers, RestartWorker(w)
      PROVE  Stays(task[o], task'[o]) \/ Advances(task[o], task'[o])
  <2>1. Lost(task[o]).pc \in Ended /\ Unspent(Lost(task[o])).pc \in Ended
    BY <1>0, LostType DEF Lost, Unspent, Tasks, Waiting, Ended
  <2>2. \/ task'[o] = task[o] \/ task'[o] = Lost(task[o]) \/ task'[o] = Unspent(Lost(task[o]))
    BY <1>6 DEF RestartWorker
  <2> QED
    BY <1>2, <2>1, <2>2 DEF Advances
<1>7. ASSUME NEW C \in SUBSET Callers, LoseCounters(C)
      PROVE  Stays(task[o], task'[o])
  <2>1. Stays(task[o], Unspent(task[o]))
    BY <1>0 DEF Stays, Unspent, Tasks
  <2>2. task'[o] = task[o] \/ task'[o] = Unspent(task[o])
    BY <1>7 DEF LoseCounters
  <2> QED
    BY <1>2, <2>1, <2>2
<1>8. ASSUME (\E w \in Workers : StopWorker(w)) \/ UNCHANGED vars
      PROVE  task'[o] = task[o]
  BY <1>8 DEF StopWorker, vars
<1> QED
  BY <1>1, <1>2, <1>3, <1>4, <1>5, <1>6, <1>7, <1>8 DEF Next

(* What liveness needs beside fairness: requests do not go in circles      *)
(* (pipeline.py 232-272).                                                  *)
THEOREM RequestsMoveOn == Spec => [][MovesOn]_vars
<1>1. TypeOK /\ [Next]_vars => [MovesOn]_vars
  BY NextMovesOn
<1> QED
  BY <1>1, TypeCorrect, PTL DEF Spec
=============================================================================
