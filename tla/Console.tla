------------------------------- MODULE Console -------------------------------
(***************************************************************************)
(* The operator console: the dashboard's API (dashboard_api/router.py) and *)
(* the live demo (live_demo/) in one process.                              *)
(*                                                                         *)
(* A run of the live demo waits for a language model; what follows, from   *)
(* the pipeline to the counters, awaits nothing that suspends and is one   *)
(* step.  A run of the dashboard is one step altogether.  Counters, log,   *)
(* database and quota are the process's own and end with it.               *)
(*                                                                         *)
(* The language model is external: it may answer anything, or fail.        *)
(***************************************************************************)
EXTENDS OperatorAuth, Sequences, FiniteSets

CONSTANTS Runs,      \* runs that operators start, each at most once
          Live,      \* those of the live demo; the others are the dashboard's
          Calls,     \* tool calls
          Replies,   \* the calls a run may come to
          Fallback,  \* those that its scenario has for a model that names none
          Modes,     \* of "enforce" and "audit"
          Limits,    \* session limits that the demo's policy may have
          MaxReboots \* bound: how often the process starts anew

(* What a statement does: it reads, writes, or fails, perhaps with a text  *)
(* in which the word quota occurs, as a name that does not exist.          *)
Effects == {"reads", "writes", "fails", "fails on quota"}

Tools == {"db", "http", "quota"}

ASSUME ConsoleAssumption ==
    /\ Live \subseteq Runs
    /\ \A c \in Calls : /\ c.tool \in Tools /\ c.effect \in Effects
                        /\ c.permitted \in BOOLEAN /\ c.whitelisted \in BOOLEAN
                        /\ c.rows \in Nat
    /\ Replies \in [Runs -> SUBSET Calls]
    /\ Fallback \in [Runs -> SUBSET Calls]
    /\ Modes \subseteq {"enforce", "audit"}
    /\ Limits \subseteq [calls : Nat, rows : Nat]
    /\ MaxReboots \in Nat

VARIABLES mode,      \* APG_MODE, of the demo's pipeline
          limits,    \* the session limits of its policy
          state,     \* where a run is, or how it ended
          call,      \* the call it came to, at most one
          changes,   \* runs whose writes are in the demo database
          calls,     \* calls counted against the demo's quota
          rows,      \* records counted
          requests,  \* _request_count
          denies,    \* _deny_count
          passed,    \* _pipeline_stats, "pass"
          failed,    \* _pipeline_stats, "fail"
          log,       \* _audit_log
          reboots    \* restarts so far

demo == <<changes, calls, rows>>
stats == <<requests, denies, passed, failed, log>>
runs == <<state, call>>
process == <<mode, limits, reboots>>
vars == <<authVars, runs, demo, stats, process>>

StageOrder == <<"Agent Auth", "Schema Valid", "Policy Eval", "Egress Ctrl", "Quota Check",
                "STS Mint", "Execute", "Resp Filter", "Audit Log", "Return">>

Stages == DOMAIN StageOrder

(* No failed stage.                                                        *)
None == ""

Zeros == [s \in Stages |-> 0]

Init ==
    /\ AuthInit
    /\ changes = {} /\ calls = 0 /\ rows = 0
    /\ requests = 0 /\ denies = 0 /\ passed = Zeros /\ failed = Zeros
    /\ log = <<>>
    /\ mode \in Modes /\ limits \in Limits
    /\ state = [r \in Runs |-> "new"] /\ call = [r \in Runs |-> {}]
    /\ reboots = 0
-----------------------------------------------------------------------------
(* The demo's pipeline, as far as its calls can get: the demo's token is   *)
(* the right one, and no credentials are minted.                           *)
OverQuota == calls >= limits.calls \/ rows >= limits.rows

Reasons == {"", "policy denied", "egress denied", "quota exceeded",
            "execution failed", "execution failed, quota"}

(* [variant] only the calls are checked.                                   *)
DenialByCalls(c) ==
    CASE ~c.permitted /\ mode = "enforce" -> "policy denied"
      [] c.permitted /\ c.tool = "http" /\ ~c.whitelisted -> "egress denied"
      [] calls >= limits.calls -> "quota exceeded"
      [] c.tool = "http" \/ c.effect = "fails" -> "execution failed"
      [] c.effect = "fails on quota" -> "execution failed, quota"
      [] OTHER -> ""

(* [variant] a denial of the policy does not end the call.                 *)
DenialByEgressAndQuota(c) ==
    CASE c.permitted /\ c.tool = "http" /\ ~c.whitelisted -> "egress denied"
      [] OverQuota -> "quota exceeded"
      [] c.tool = "http" \/ c.effect = "fails" -> "execution failed"
      [] c.effect = "fails on quota" -> "execution failed, quota"
      [] OTHER -> ""

(* The denial's reason.  Without a policy entry there is no egress check.  *)
Denial(c) ==
    CASE ~c.permitted /\ mode = "enforce" -> "policy denied"
      [] c.permitted /\ c.tool = "http" /\ ~c.whitelisted -> "egress denied"
      [] OverQuota -> "quota exceeded"
      [] c.tool = "http" \/ c.effect = "fails" -> "execution failed"
      [] c.effect = "fails on quota" -> "execution failed, quota"
      [] OTHER -> ""

(* _stage_for_denial looks for words in the reason, "quota" before         *)
(* "execution failed".                                                     *)
StageForDenial(reason) ==
    CASE reason = "egress denied" -> "Egress Ctrl"
      [] reason \in {"quota exceeded", "execution failed, quota"} -> "Quota Check"
      [] reason = "execution failed" -> "Execute"
      [] OTHER -> "Policy Eval"

FailedStage(reason) == IF reason = "" THEN None ELSE StageForDenial(reason)

(* record_success, which only an executed call reaches.                    *)
Execute(r, c, reason) ==
    IF reason = ""
    THEN /\ changes' = IF c.effect = "writes" THEN changes \cup {r} ELSE changes
         /\ calls' = calls + 1
         /\ rows' = rows + c.rows
    ELSE UNCHANGED demo

(* run_demo evaluates policy and egress only, and enforces in every mode;  *)
(* its quota scenario fills a session of its own.                          *)
DemoStage(c) ==
    CASE c.tool = "quota" -> "Quota Check"
      [] ~c.permitted -> "Policy Eval"
      [] c.tool = "http" /\ ~c.whitelisted -> "Egress Ctrl"
      [] OTHER -> None
-----------------------------------------------------------------------------
(* record_pipeline_event and record_audit_event.                           *)
Position(stage) ==
    IF \E s \in Stages : StageOrder[s] = stage
    THEN CHOOSE s \in Stages : StageOrder[s] = stage
    ELSE Len(StageOrder) + 1

Plus(counters, S) == [s \in Stages |-> counters[s] + IF s \in S THEN 1 ELSE 0]

(* [variant] the loop goes on behind the failed stage.                     *)
RecordWithoutBreak(r, stage, reason) ==
    /\ requests' = requests + 1
    /\ denies' = IF stage = None THEN denies ELSE denies + 1
    /\ passed' = Plus(passed, Stages \ {Position(stage)})
    /\ failed' = Plus(failed, {Position(stage)})
    /\ log' = Append(log, [run |-> r, denied |-> stage # None, stage |-> stage, reason |-> reason])

(* A stage of another name fails nowhere: all ten pass.                    *)
Record(r, stage, reason) ==
    /\ requests' = requests + 1
    /\ denies' = IF stage = None THEN denies ELSE denies + 1
    /\ passed' = Plus(passed, 1..(Position(stage) - 1))
    /\ failed' = Plus(failed, {Position(stage)})
    /\ log' = Append(log, [run |-> r, denied |-> stage # None, stage |-> stage, reason |-> reason])
-----------------------------------------------------------------------------
Becomes(r, s) == state' = [state EXCEPT ![r] = s]
ComesTo(r, c) == call' = [call EXCEPT ![r] = {c}]

Starts(r) == state[r] = "new"

(* A 401.                                                                  *)
Refuse(r) ==
    /\ Starts(r)
    /\ ~Admitted
    /\ Becomes(r, "refused")
    /\ UNCHANGED <<authVars, call, demo, stats, process>>

RunDemo(r, c) ==
    /\ Starts(r)
    /\ Admitted
    /\ r \notin Live
    /\ c \in Replies[r]
    /\ ComesTo(r, c)
    /\ Becomes(r, "answered")
    /\ Record(r, DemoStage(c), "")
    /\ UNCHANGED <<authVars, demo, process>>

(* [variant] the run is recorded when it starts.                           *)
StartScenarioRecorded(r) ==
    /\ Starts(r)
    /\ Admitted
    /\ r \in Live
    /\ Becomes(r, "generating")
    /\ Record(r, None, "")
    /\ UNCHANGED <<authVars, call, demo, process>>

StartScenario(r) ==
    /\ Starts(r)
    /\ Admitted
    /\ r \in Live
    /\ Becomes(r, "generating")
    /\ UNCHANGED <<authVars, call, demo, stats, process>>

(* [variant] a call that was denied is counted, too.                       *)
FinishCountingDenials(r, c) ==
    /\ state[r] = "generating"
    /\ ComesTo(r, c)
    /\ Becomes(r, "answered")
    /\ Execute(r, c, "")
    /\ Record(r, FailedStage(Denial(c)), Denial(c))
    /\ UNCHANGED <<authVars, process>>

Finish(r, c) ==
    /\ state[r] = "generating"
    /\ ComesTo(r, c)
    /\ Becomes(r, "answered")
    /\ Execute(r, c, Denial(c))
    /\ Record(r, FailedStage(Denial(c)), Denial(c))
    /\ UNCHANGED <<authVars, process>>

(* The model answers, with a call or without one.                          *)
ModelAnswers(r) == \E c \in Replies[r] \cup Fallback[r] : Finish(r, c)

(* Timeouts, errors and refused connections become a text, in which no     *)
(* call is found.                                                          *)
ModelGivesUp(r) == \E c \in Fallback[r] : Finish(r, c)

(* An answer of another shape: the exception ends the request.             *)
ModelRaises(r) ==
    /\ state[r] = "generating"
    /\ Becomes(r, "error")
    /\ UNCHANGED <<authVars, call, demo, stats, process>>

(* reset_demo: the database, and not the quota.                            *)
Reset ==
    /\ Admitted
    /\ changes' = {}
    /\ UNCHANGED <<authVars, runs, calls, rows, stats, process>>
-----------------------------------------------------------------------------
(* A crash or a deployment; the next process starts at once.  Requests     *)
(* under way are lost.                                                     *)
Reboot ==
    /\ reboots < MaxReboots
    /\ reboots' = reboots + 1
    /\ Redeploys
    /\ changes' = {} /\ calls' = 0 /\ rows' = 0
    /\ requests' = 0 /\ denies' = 0 /\ passed' = Zeros /\ failed' = Zeros
    /\ log' = <<>>
    /\ mode' \in Modes /\ limits' \in Limits
    /\ state' = [r \in Runs |-> CASE state[r] = "generating" -> "lost"
                                  [] state[r] = "answered" -> "forgotten"
                                  [] OTHER -> state[r]]
    /\ UNCHANGED call
-----------------------------------------------------------------------------
Next ==
    \/ Operates /\ UNCHANGED <<runs, demo, stats, process>>
    \/ \E r \in Runs : \/ Refuse(r) \/ StartScenario(r)
                       \/ \E c \in Calls : RunDemo(r, c)
                       \/ ModelAnswers(r) \/ ModelGivesUp(r) \/ ModelRaises(r)
    \/ Reset
    \/ Reboot

Spec == Init /\ [][Next]_vars
-----------------------------------------------------------------------------
(* Types.                                                                  *)
StageNames == {None} \cup {StageOrder[s] : s \in Stages}

Entries == [run : Runs, denied : BOOLEAN, stage : StageNames, reason : Reasons]

(* The types of all variables.                                             *)
TypeOK ==
    /\ AuthTypeOK
    /\ mode \in Modes /\ limits \in Limits
    /\ state \in [Runs -> {"new", "refused", "generating", "answered", "error", "lost", "forgotten"}]
    /\ call \in [Runs -> SUBSET Calls]
    /\ \A r \in Runs : (call[r] # {}) <=> (state[r] \in {"answered", "forgotten"})
    /\ changes \subseteq Runs
    /\ calls \in Nat /\ rows \in Nat
    /\ requests \in Nat /\ denies \in Nat
    /\ passed \in [Stages -> Nat] /\ failed \in [Stages -> Nat]
    /\ log \in Seq(Entries)
    /\ reboots \in 0..MaxReboots
-----------------------------------------------------------------------------
(* Properties.                                                             *)

DenialsIn(seq) == {i \in DOMAIN seq : seq[i].denied}

(* The dashboard's figures are those of one set of requests: what a stage  *)
(* passes on is what the next one gets, every request is passed by or      *)
(* fails at each stage it gets to, and the requests, the denials and the   *)
(* log, kept apart by three functions, agree with the funnel.              *)
FunnelAdds ==
    /\ requests = passed[1] + failed[1]
    /\ \A s \in Stages \ {1} : passed[s - 1] = passed[s] + failed[s]
    /\ requests - denies = passed[Len(StageOrder)]
    /\ requests = Len(log)
    /\ denies = Cardinality(DenialsIn(log))

(* The log of the process holds the runs that it answered and no other,    *)
(* each once: none whose model failed, whose caller was turned away, or    *)
(* that a former process had under way.                                    *)
LogIsOfTheAnswered ==
    /\ {log[i].run : i \in DOMAIN log} = {r \in Runs : state[r] = "answered"}
    /\ \A i, j \in DOMAIN log : log[i].run = log[j].run => i = j

Counted == {i \in DOMAIN log : log[i].run \in Live /\ ~log[i].denied}

(* Many runs may wait for the model at once, and each is checked only when *)
(* it resumes: the demo's quota is exact, counts just the runs that were   *)
(* let through, and cannot be overshot, as the gateway's can.              *)
QuotaIsExact ==
    /\ calls = Cardinality(Counted)
    /\ calls <= limits.calls

(* "APG blocks the DELETE", "No data was modified": while the demo         *)
(* enforces, the database differs from its seed by permitted writes only,  *)
(* whatever the model came up with, and a run that is reported as denied   *)
(* has changed nothing.                                                    *)
OnlyPermittedWrites ==
    /\ mode = "enforce" => \A r \in changes : \A c \in call[r] : c.permitted
    /\ \A i \in DenialsIn(log) : log[i].run \notin changes

(* A run is let in, or the demo is reset.                                  *)
Served ==
    \/ \E r \in Runs : state[r] = "new" /\ state'[r] \in {"generating", "answered"}
    \/ changes' # changes /\ changes' = {} /\ reboots' = reboots

(* Who is served signed in within the lifetime of a token, under the       *)
(* secret of the process that serves: with a token from before a change of *)
(* the secret, or from longer ago, nothing is run or reset.                *)
AccessIsEarned == [][Served => SignedInLately]_vars

(* Once the demo's quota is used up every scenario is denied, until the    *)
(* process ends: resetting the demo does not bring it back.                *)
SpentUntilReboot ==
    [][OverQuota /\ reboots' = reboots =>
          /\ OverQuota'
          /\ \A r \in Live : state[r] # "answered" /\ state'[r] = "answered" => log'[Len(log')].denied]_vars
=============================================================================
