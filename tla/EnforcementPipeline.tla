------------------------- MODULE EnforcementPipeline -------------------------
(***************************************************************************)
(* The request path of the gateway server: EnforcementPipeline.handle      *)
(* (core/pipeline.py) run by the asyncio workers of server/app.py, with    *)
(* the session store it counts quotas in (in memory, or Redis), the        *)
(* credential broker and the HTTP executor.                                *)
(*                                                                         *)
(* A slot is a place for one concurrent call of handle().  Code between    *)
(* two awaits of an event loop is one step, so with the in-memory store,   *)
(* whose coroutines never suspend, a request goes from its arrival to the  *)
(* start of its execution in one step, and from the end of its execution   *)
(* to its answer in another.  With Redis, check_quota and record_success   *)
(* are each a command that Redis applies and a reply that comes later.     *)
(***************************************************************************)
EXTENDS PipelineGates, FiniteSets

CONSTANTS Slots,         \* places for concurrent requests
          Workers,       \* server processes
          WorkerOf,      \* the process each slot belongs to
          Store,         \* "memory" or "redis": build_session_store
          Broker,        \* "none" or "aws_sts": credential_broker of the policy
          DefaultTarget, \* APG_TARGET_URL is set
          MaxCalls,      \* max_calls_per_session
          MaxRecords,    \* max_records_per_session
          MaxRows,       \* bound: rows in one answer of a target
          MaxFaults      \* bound: stops and crashes of workers, losses in Redis

ASSUME PipelineAssumption ==
    /\ IsFiniteSet(Slots)
    /\ WorkerOf \in [Slots -> Workers]
    /\ Store \in {"memory", "redis"}
    /\ Broker \in {"none", "aws_sts"}
    /\ DefaultTarget \in BOOLEAN
    /\ MaxCalls \in Nat \ {0}       \* Field(ge=1)
    /\ MaxRecords \in Nat \ {0}     \* Field(ge=1)
    /\ MaxRows \in Nat
    /\ MaxFaults \in Nat

VARIABLES task,      \* the request in each slot and how far it is
          calls,     \* calls counted, per store and caller
          records,   \* records counted, per store and caller
          stopping,  \* workers that are shutting down
          faults     \* stops, crashes and losses so far

vars == <<task, calls, records, stopping, faults>>

(* One dict of sessions per process, or the one Redis they share.          *)
Stores == IF Store = "redis" THEN {"redis"} ELSE Workers
StoreOf(s) == IF Store = "redis" THEN "redis" ELSE WorkerOf[s]
SlotsOf(k) == {s \in Slots : StoreOf(s) = k}

(* Where a slot is.  In Waiting the coroutine is suspended: on HMGET before *)
(* and after Redis applied it, on the target, on the HINCRBYs before and    *)
(* after Redis applied them.  "aborted": cancelled; "lost": process gone.   *)
Waiting == {"checking", "checked", "executing", "recording", "recorded"}
Ended == {"idle", "answered", "aborted", "lost"}

Reasons == {Gates[i] : i \in DOMAIN Gates} \cup {"", "quota", "mint", "execution", "unhandled"}

Tasks ==
    [pc      : Waiting \cup Ended,
     req     : Inputs,
     verdict : {"unread", "under", "over"},         \* what check_quota saw
     creds   : {"none", "live", "zeroed"},
     role    : BOOLEAN,                             \* event.role_assumed is set
     target  : {"none", "pending", "acted", "rejected"},
     rows    : 0..MaxRows,                          \* record_count
     decision: {"DENY", "ALLOW"},                   \* event.decision
     reason  : Reasons,                             \* event.denial_reason
     emitted : Nat,                                 \* events given to the sink
     answer  : {"none", "success", "error"},
     charged : BOOLEAN,  \* history: its increment was applied
     spent   : BOOLEAN]  \* history: the quota was already used up at arrival

-----------------------------------------------------------------------------
(* Pure steps on a task, composed in the order of the code.                *)

(* AuditEvent() and the locals of _run.                                    *)
Fresh(r, isSpent) ==
    [pc |-> "idle", req |-> r, verdict |-> "unread", creds |-> "none",
     role |-> FALSE, target |-> "none", rows |-> 0, decision |-> "DENY",
     reason |-> "", emitted |-> 0, answer |-> "none", charged |-> FALSE,
     spent |-> isSpent]

(* The inner finally: StsBroker.discard overwrites the fields of the        *)
(* credentials; there are none before the mint and with NullBroker.        *)
Discard(t) == [t EXCEPT !.creds = IF @ = "live" THEN "zeroed" ELSE @]

(* The outer finally: audit_sink.emit.                                     *)
Emit(t) == [t EXCEPT !.emitted = @ + 1]

(* _run returns a body for the client.                                     *)
Answered(t, body) == [t EXCEPT !.pc = "answered", !.answer = body]

(* [variant] only success discards the credentials.                        *)
RefusedKeepingCredentials(t, why) ==
    Emit([Answered(t, "error") EXCEPT !.reason = why])

(* An early return or an except clause gives the event its denial_reason   *)
(* and the client an error body.                                           *)
Refused(t, why) ==
    Emit([Answered(Discard(t), "error") EXCEPT !.reason = why])

(* The return of the success body.                                         *)
Succeeded(t) ==
    Emit([Answered(Discard(t), "success") EXCEPT !.decision = "ALLOW"])

(* [variant] the event is emitted where an answer is built.                *)
AbortedSilently(t) == [Discard(t) EXCEPT !.pc = "aborted"]

(* CancelledError is no Exception: both finally blocks run, no except      *)
(* clause does, and nobody is left to answer.                              *)
Aborted(t) == Emit([Discard(t) EXCEPT !.pc = "aborted"])

(* The process is gone, and with it the coroutine and the credentials.     *)
Lost(t) == [t EXCEPT !.pc = IF @ \in Waiting THEN "lost" ELSE @, !.creds = "none"]

(* For the history: the increment was applied; the counters were lost.     *)
Charged(t) == [t EXCEPT !.charged = TRUE]
Unspent(t) == [t EXCEPT !.spent = FALSE]

(* What mint_credentials may do: return, raise CredentialMintError (no     *)
(* role or session policy, or STS failed), or raise something else (a      *)
(* response without the expected fields).                                  *)
MintResults(r) ==
    IF Broker = "none" THEN {"ok"}
    ELSE IF HasRole(r) THEN {"ok", "mint", "unhandled"} ELSE {"mint"}

(* Steps 6 and 7 up to the POST: mint, then execute, which raises before   *)
(* it sends anything when the tool has no target.                          *)
Minted(t) ==
    IF Broker = "none" THEN t ELSE [t EXCEPT !.creds = "live", !.role = TRUE]

Executing(t) ==
    IF HasTarget(t.req) \/ DefaultTarget
    THEN [Minted(t) EXCEPT !.pc = "executing", !.target = "pending"]
    ELSE Refused(Minted(t), "execution")

(* Steps 5 to 7 once the counters have been read.                          *)
AfterCheck(t, m) ==
    IF t.verdict = "over" THEN Refused(t, "quota")
    ELSE IF m = "ok" THEN Executing(t) ELSE Refused(t, m)

(* [variant] only one of the two limits is looked at.                      *)
OverQuotaOfCalls(k, c) == calls[k][c] >= MaxCalls

(* SessionState.exceeds_limits and RedisSessionStore.check_quota.          *)
OverQuota(k, c) == calls[k][c] >= MaxCalls \/ records[k][c] >= MaxRecords

Checked(t, k) ==
    [t EXCEPT !.verdict = IF OverQuota(k, t.req.caller) THEN "over" ELSE "under"]

(* record_success of either store.                                         *)
Record(k, c, n) ==
    /\ calls' = [calls EXCEPT ![k][c] = @ + 1]
    /\ records' = [records EXCEPT ![k][c] = @ + n]

Set(s, t) == task' = [task EXCEPT ![s] = t]
-----------------------------------------------------------------------------
Init ==
    /\ task = [s \in Slots |-> Fresh(CHOOSE r \in Inputs : TRUE, FALSE)]
    /\ calls = [k \in Stores |-> [c \in Callers |-> 0]]
    /\ records = [k \in Stores |-> [c \in Callers |-> 0]]
    /\ stopping = {}
    /\ faults = 0

Start(s, r) == Fresh(r, OverQuota(StoreOf(s), r.caller))

CanReceive(s) == task[s].pc \in Ended /\ WorkerOf[s] \notin stopping

(* A request that one of the gates refuses.                                *)
ReceiveRefused(s, r) ==
    /\ CanReceive(s)
    /\ \E i \in DOMAIN Gates :
          /\ RefusedAt(i, r)
          /\ Set(s, Refused(Start(s, r), Gates[i]))
    /\ UNCHANGED <<calls, records, stopping, faults>>

(* A request that reaches the quota check of the in-memory store: check,   *)
(* mint and the start of execute follow without a suspension point.        *)
ReceiveMemory(s, r) ==
    /\ CanReceive(s)
    /\ Store = "memory"
    /\ Passes(r)
    /\ \E m \in MintResults(r) :
          Set(s, AfterCheck(Checked(Start(s, r), StoreOf(s)), m))
    /\ UNCHANGED <<calls, records, stopping, faults>>

(* A request that reaches the quota check of the Redis store: HMGET goes   *)
(* out and the coroutine is suspended.                                     *)
ReceiveRedis(s, r) ==
    /\ CanReceive(s)
    /\ Store = "redis"
    /\ Passes(r)
    /\ Set(s, [Start(s, r) EXCEPT !.pc = "checking"])
    /\ UNCHANGED <<calls, records, stopping, faults>>

(* Redis executes HMGET.                                                   *)
RedisCheck(s) ==
    /\ task[s].pc = "checking"
    /\ Set(s, [Checked(task[s], StoreOf(s)) EXCEPT !.pc = "checked"])
    /\ UNCHANGED <<calls, records, stopping, faults>>

(* The reply of HMGET resumes the coroutine, however old it is.            *)
CheckReturns(s) ==
    /\ task[s].pc = "checked"
    /\ \E m \in MintResults(task[s].req) : Set(s, AfterCheck(task[s], m))
    /\ UNCHANGED <<calls, records, stopping, faults>>

(* [variant] without an answer of Redis the request goes on.               *)
CheckFailsOpen(s) ==
    /\ task[s].pc \in {"checking", "checked"}
    /\ Set(s, Executing(task[s]))
    /\ UNCHANGED <<calls, records, stopping, faults>>

(* HMGET fails: the exception reaches the last except clause.              *)
CheckFails(s) ==
    /\ task[s].pc \in {"checking", "checked"}
    /\ Set(s, Refused(task[s], "unhandled"))
    /\ UNCHANGED <<calls, records, stopping, faults>>

(* The target does what the POST asks, also after the gateway gave up.     *)
TargetActs(s) ==
    /\ task[s].target = "pending"
    /\ Set(s, [task[s] EXCEPT !.target = "acted"])
    /\ UNCHANGED <<calls, records, stopping, faults>>

(* The target turns the POST down with a 4xx status and a JSON body.       *)
TargetRejects(s) ==
    /\ task[s].target = "pending"
    /\ Set(s, [task[s] EXCEPT !.target = "rejected"])
    /\ UNCHANGED <<calls, records, stopping, faults>>

(* execute returns the JSON body of the answer: up to MaxRows rows of a    *)
(* target that acted.  Below 500 it does not look at the status, so what a *)
(* target says in rejecting the POST is returned as its result.            *)
Returned(t) ==
    IF t.target = "acted" THEN {[t EXCEPT !.rows = n] : n \in 0..MaxRows} ELSE {t}

(* ... with the in-memory store: filter, count, answer.                    *)
ExecuteReturnsMemory(s) ==
    /\ task[s].pc = "executing"
    /\ task[s].target \in {"acted", "rejected"}
    /\ Store = "memory"
    /\ \E t \in Returned(task[s]) :
          /\ Set(s, Succeeded(Charged(t)))
          /\ Record(StoreOf(s), t.req.caller, t.rows)
    /\ UNCHANGED <<stopping, faults>>

(* ... with Redis: filter, then MULTI/EXEC goes out, still holding the     *)
(* credentials.                                                            *)
ExecuteReturnsRedis(s) ==
    /\ task[s].pc = "executing"
    /\ task[s].target \in {"acted", "rejected"}
    /\ Store = "redis"
    /\ \E t \in Returned(task[s]) : Set(s, [t EXCEPT !.pc = "recording"])
    /\ UNCHANGED <<calls, records, stopping, faults>>

(* [variant] the client has no timeout.                                    *)
ExecuteRaisesOnAnswer(s) ==
    /\ task[s].pc = "executing"
    /\ task[s].target # "pending"
    /\ \E why \in {"execution", "unhandled"} : Set(s, Refused(task[s], why))
    /\ UNCHANGED <<calls, records, stopping, faults>>

(* execute raises: ExecutionError (unreachable or too slow, a 5xx, not     *)
(* JSON, a JSON-RPC error), or AttributeError for an error member that is  *)
(* not an object.  The target may have acted, or may act later.            *)
ExecuteRaises(s) ==
    /\ task[s].pc = "executing"
    /\ \E why \in {"execution", "unhandled"} : Set(s, Refused(task[s], why))
    /\ UNCHANGED <<calls, records, stopping, faults>>

(* Redis executes the increments.                                          *)
RedisRecord(s) ==
    /\ task[s].pc = "recording"
    /\ Set(s, [Charged(task[s]) EXCEPT !.pc = "recorded"])
    /\ Record(StoreOf(s), task[s].req.caller, task[s].rows)
    /\ UNCHANGED <<stopping, faults>>

(* [variant] the increments are sent again.                                *)
RecordReturnsTwice(s) ==
    /\ task[s].pc = "recorded"
    /\ Set(s, Succeeded(task[s]))
    /\ Record(StoreOf(s), task[s].req.caller, task[s].rows)
    /\ UNCHANGED <<stopping, faults>>

RecordReturns(s) ==
    /\ task[s].pc = "recorded"
    /\ Set(s, Succeeded(task[s]))
    /\ UNCHANGED <<calls, records, stopping, faults>>

(* [variant] failing to count does not fail the request.                   *)
RecordFailsOpen(s) ==
    /\ task[s].pc \in {"recording", "recorded"}
    /\ Set(s, Succeeded(task[s]))
    /\ UNCHANGED <<calls, records, stopping, faults>>

(* The increments fail, before or after Redis applied them.                *)
RecordFails(s) ==
    /\ task[s].pc \in {"recording", "recorded"}
    /\ Set(s, Refused(task[s], "unhandled"))
    /\ UNCHANGED <<calls, records, stopping, faults>>
-----------------------------------------------------------------------------
(* A worker is told to stop: no new requests; its tasks finish or are      *)
(* cancelled at their await; then the process ends.                        *)
StopWorker(w) ==
    /\ w \notin stopping
    /\ faults < MaxFaults
    /\ faults' = faults + 1
    /\ stopping' = stopping \cup {w}
    /\ UNCHANGED <<task, calls, records>>

Cancel(s) ==
    /\ WorkerOf[s] \in stopping
    /\ task[s].pc \in Waiting
    /\ Set(s, Aborted(task[s]))
    /\ UNCHANGED <<calls, records, stopping, faults>>

Zeros == [c \in Callers |-> 0]

(* The process ends, by a stop or by a crash, and a new one takes its      *)
(* place: its coroutines and its in-memory sessions are gone.              *)
RestartWorker(w) ==
    /\ \/ w \in stopping /\ UNCHANGED faults
       \/ w \notin stopping /\ faults < MaxFaults /\ faults' = faults + 1
    /\ stopping' = stopping \ {w}
    /\ task' = [s \in Slots |->
                  IF WorkerOf[s] # w THEN task[s]
                  ELSE IF Store = "memory" THEN Unspent(Lost(task[s])) ELSE Lost(task[s])]
    /\ IF Store = "memory"
       THEN /\ calls' = [calls EXCEPT ![w] = Zeros]
            /\ records' = [records EXCEPT ![w] = Zeros]
       ELSE UNCHANGED <<calls, records>>

(* Redis loses the hashes of some callers: expiry of a key, eviction, or a *)
(* restart of the Redis that keeps nothing on disk.                        *)
LoseCounters(C) ==
    /\ Store = "redis"
    /\ faults < MaxFaults
    /\ faults' = faults + 1
    /\ calls' = [k \in Stores |-> [c \in Callers |-> IF c \in C THEN 0 ELSE calls[k][c]]]
    /\ records' = [k \in Stores |-> [c \in Callers |-> IF c \in C THEN 0 ELSE records[k][c]]]
    /\ task' = [s \in Slots |->
                  IF task[s].req.caller \in C THEN Unspent(task[s]) ELSE task[s]]
    /\ UNCHANGED stopping

RedisServes(s) == RedisCheck(s) \/ RedisRecord(s)

ExecuteEnds(s) == ExecuteReturnsMemory(s) \/ ExecuteReturnsRedis(s) \/ ExecuteRaises(s)

Next ==
    \/ \E s \in Slots :
          \/ \E r \in Inputs : ReceiveRefused(s, r) \/ ReceiveMemory(s, r) \/ ReceiveRedis(s, r)
          \/ RedisServes(s) \/ CheckReturns(s) \/ CheckFails(s)
          \/ TargetActs(s) \/ TargetRejects(s) \/ ExecuteEnds(s)
          \/ RecordReturns(s) \/ RecordFails(s) \/ Cancel(s)
    \/ \E w \in Workers : StopWorker(w) \/ RestartWorker(w)
    \/ \E C \in SUBSET Callers : C # {} /\ LoseCounters(C)

Spec == Init /\ [][Next]_vars

(* Redis serves its commands in the end, the event loop resumes a coroutine *)
(* whose await is over, and httpx gives up a silent target after 30 s.      *)
FairSpec ==
    /\ Spec
    /\ \A s \in Slots :
          /\ WF_vars(RedisServes(s)) /\ WF_vars(CheckReturns(s))
          /\ WF_vars(ExecuteEnds(s)) /\ WF_vars(RecordReturns(s))
-----------------------------------------------------------------------------
TypeOK ==
    /\ task \in [Slots -> Tasks]
    /\ calls \in [Stores -> [Callers -> Nat]]
    /\ records \in [Stores -> [Callers -> Nat]]
    /\ stopping \subseteq Workers
    /\ faults \in Nat

(* A request holds a place in the quota from the moment its counters were  *)
(* read as under the limit until its increment is applied or it ends.      *)
Holds(t) ==
    \/ t.pc \in {"executing", "recording"}
    \/ t.pc = "checked" /\ t.verdict # "over"

Holders(k, c) == {s \in SlotsOf(k) : task[s].req.caller = c /\ Holds(task[s])}

(* Check-then-act cannot lose more than the concurrency: what is counted   *)
(* and what is still to be counted stay below the limit plus one place per *)
(* slot that shares the counters, whatever interleaves, fails or restarts. *)
(* (pipeline.py 233-262, redis_store.py 12-15)                             *)
CallQuotaBound ==
    \A k \in Stores, c \in Callers :
        calls[k][c] + Cardinality(Holders(k, c)) < MaxCalls + Cardinality(SlotsOf(k))

(* The same for records, which are known only after execution, so each     *)
(* request under way may bring MaxRows of them. (pipeline.py 256-262)      *)
RecordQuotaBound ==
    \A k \in Stores, c \in Callers :
        records[k][c] + MaxRows * Cardinality(Holders(k, c))
            < MaxRecords + MaxRows * Cardinality(SlotsOf(k))

(* Each caller's counters in each store behave as a soft quota.            *)
Quota(k, c) ==
    INSTANCE SoftQuota WITH
        Places <- SlotsOf(k), CallLimit <- MaxCalls, RowLimit <- MaxRecords,
        RowsAtOnce <- MaxRows, used <- calls[k][c], rowsUsed <- records[k][c],
        held <- Holders(k, c)

(* Checking, then executing, then counting, with everything that can come  *)
(* in between, is a soft quota: a place is granted only by counters below  *)
(* their limits, and every charge pays for one place that was granted.     *)
(* (pipeline.py 233-262, session.py 65-97, redis_store.py 54-74)           *)
ImplementsSoftQuota ==
    /\ \A k \in Stores, c \in Callers : Quota(k, c)!Init
    /\ [][\A k \in Stores, c \in Callers : [Quota(k, c)!Next]_(Quota(k, c)!vars)]_vars

(* A request that arrives when its caller's quota is already used up never *)
(* reaches the target, however old the reply of Redis is when it is used;  *)
(* only losing the counters in between lets it through.                    *)
(* (pipeline.py 234-236)                                                   *)
SpentNeverExecutes == \A s \in Slots : task[s].spent => task[s].target = "none"

(* Whatever reached the target was authenticated, well formed, allowed (or *)
(* denied in audit mode), not refused by egress control, read as under     *)
(* quota, and had credentials if the policy asks for them: fail-closed.    *)
(* (pipeline.py 164-250)                                                   *)
FailClosed ==
    \A s \in Slots :
        LET t == task[s]
            r == t.req
        IN  t.target # "none" =>
                /\ r.shape = "object" /\ r.token = "expected"
                /\ r.envelope = "valid" /\ r.params = "object"
                /\ \/ r.policy = "allow" /\ r.egress # "refused"
                   \/ r.policy = "deny" /\ Mode = "audit"
                /\ t.verdict = "under"
                /\ Broker = "aws_sts" => t.role /\ r.role

(* Minted credentials are usable exactly while a request that needs them   *)
(* is between its mint and its answer: no path leaves them live behind,    *)
(* none executes without them. (pipeline.py 239-272, aws_sts.py 111-133)   *)
CredentialsConfined ==
    \A s \in Slots :
        task[s].creds = "live" <=>
            Broker = "aws_sts" /\ task[s].pc \in {"executing", "recording", "recorded"}

(* Every request that ends in a running process, also by cancellation, has *)
(* emitted exactly one event, and none before its end; the event says      *)
(* ALLOW exactly when the client got a result, and then the call was       *)
(* counted; a client that got an error has a reason in the event.  With    *)
(* the in-memory store nothing is counted without such an event.           *)
(* (pipeline.py 144-157, 255-268)                                          *)
AuditIsTruthful ==
    \A s \in Slots :
        LET t == task[s]
        IN  /\ t.emitted = IF t.pc \in {"answered", "aborted"} THEN 1 ELSE 0
            /\ t.decision = "ALLOW" <=> t.answer = "success"
            /\ t.answer = "error" <=> t.reason # ""
            /\ t.decision = "ALLOW" => t.charged
            /\ Store = "memory" /\ t.charged => t.decision = "ALLOW"

(* Every request ends: it is answered, cancelled, or lost with its         *)
(* process. (pipeline.py 164-295)                                          *)
EveryRequestEnds == \A s \in Slots : task[s].pc \in Waiting ~> task[s].pc \in Ended
=============================================================================
