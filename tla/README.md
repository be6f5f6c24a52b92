# Agent Policy Gateway: specifications and proofs

TLA+ modules that model the gateway's code, TLC configurations that check them
on small instances, and theorems that TLAPS proves for every instance. Line
numbers refer to `src/agent_policy_gateway/` unless a path says otherwise.

## The system

An agent sends a JSON-RPC call to the gateway, the gateway decides by a policy
whether the call may reach the tool's target, and, if so, executes it, filters
the result, counts it against the caller's quota and writes an audit event.

| Component | State it keeps | Operations | What makes it correct |
|---|---|---|---|
| Request path, `core/pipeline.py` | one coroutine per request: its event, its credentials | `handle`, `_run` | fail-closed: nothing reaches a target unless every stage let it through; one event per request that tells the truth; no credentials left live |
| Server and workers, `server/app.py`, `services/backend/Dockerfile` | singletons per process; the image starts four processes | start, `handle_rpc`, stop, crash | every request ends; a restart loses only what it must |
| Session store, `core/session.py`, `adapters/state/redis_store.py` | calls and records per caller, in a dict per process or in Redis | `check_quota`, `record_success` | the overshoot of the limits is bounded; a spent quota is not executed on |
| Brokers, `adapters/brokers/` | the minted credentials | `mint_credentials`, `discard` | live only between mint and answer |
| HTTP executor, `adapters/executors/http_jsonrpc.py` | none | `execute` | a failed call is not reported as done, as far as the gateway can know |
| Mode, identity, envelope, `core/mode.py`, `adapters/identity/shared_token.py`, `core/schemas.py` | fixed at start-up | predicates on a request | audit mode relaxes the policy's denial and nothing else |
| Policy engine and egress, `core/policy.py`, `core/sql.py`, `core/egress.py`, `core/enforcement.py` | the frozen policy | `evaluate`, `check`, `evaluate_call` | default deny; every surface decides alike |
| Filter and redaction, `core/filter.py`, `core/audit.py` | none | `filter_response`, `redact_params` | secrets masked down to the filter's depth, and at every depth in an event's `params_redacted`; nothing else changed |
| stdio wrapper, `adapters/transports/stdio.py` | the child process, three pumps, a write lock | `route_message`, the pumps, shutdown | a denied call never reaches the child, an answer is not lost, the wrapper ends when it should |
| HTTP proxy, `proxy_app.py`, `adapters/identity/providers.py` | the requests in flight, the sink | decide, forward, audit, shut down | no request of a stranger and, in enforce mode, no named call that is denied is forwarded; an event for every answer to a call, which tells the truth; a shutdown that ends |
| Audit sinks, `adapters/audit/` | file, table, queue and worker thread | `write`, `read`, `close` | a trail: nothing twice, local order kept, and nothing taken back but a line that was cut just before its end; losses only where the sink admits them; the queue is worked off |
| Learning mode, `core/learning.py` | none | `suggest_entries` | what it proposes allows the denied calls, adds nothing else and takes nothing away (the last is not so, see `learning_revokes`) |
| Operator authentication, `auth_service/` | signed tokens, the secret of the process | login, verify, logout | served is who signed in within a token's lifetime under the present secret |
| Dashboard and live demo, `dashboard_api/`, `live_demo/` | counters, log, quota and database per process; runs that wait for a language model | run, record, read, reset | the figures are of one set of requests; the quota is exact; a denied statement changes nothing |
| CLI, frontend, observability, deployment | none of their own | wiring | out of scope, but for what they set: workers and store |

How they interact. `handle_rpc` parses a body and awaits `pipeline.handle`,
which calls the policy, egress control, the store, the broker and the executor
in a fixed order and emits the event in a `finally`. The workers share nothing
but Redis, if it is configured. Everything in a worker runs on one event loop:
requests interleave only where a coroutine suspends. With the in-memory store
that is while the target is awaited and nowhere else; with Redis also around
`HMGET` and around the `MULTI` of the two `HINCRBY`. The stdio wrapper and the
HTTP proxy are processes of their own, without sessions and credentials: they
decide by `evaluate_call`, which puts policy and egress control together a second
time, forward, and append to the log that `apg policy suggest` mines and
`apg audit tail --follow` reads while it grows. The dashboard and the demo share
the counters of the process they run in; the demo has a pipeline, a quota and a
database of its own, and its runs suspend only while a language model is asked.

What is hard: the quota is checked long before it is charged; replies of Redis are
stale when used; a call can fail after its effect; a cancellation skips every
`except`; workers crash and counters vanish at any moment; the same quota is
counted in several processes; an event may be torn, held back, late or lost; a
follower reads a log that grows and may lose its last line. `PROJECT.json` lists
these hazards at their lines, with the properties that would catch them going
wrong.

## Modules

| Module | What it is |
|---|---|
| `PipelineGates` | the ten refusals that come before the quota check, in their order, as predicates on abstract requests |
| `EnforcementPipeline` | the request path: slots for concurrent requests, workers, the session store, mint, execution, charging, stop, crash, loss of counters; its properties |
| `SoftQuota` | the abstract specification of it: what a caller's quota promises |
| `StdioWrap` | the stdio wrapper between a client and a child: the lines, the three pumps, the pipes, the ends; its properties |
| `FilteredChannel` | the abstract specification of it: a channel that passes, refuses or breaks on a line |
| `PolicyEngine` | the decision on a call: the policy's checks, egress control, and the two places that compose them; an instance of `PipelineGates` stands for the gateway |
| `Learning` | a cycle of traffic, `apg policy suggest`, merge and restart over `PolicyEngine`; its properties |
| `ProxyApp` | the HTTP proxy, over `AuditSinks`: its requests, the target, the life of the process; its properties |
| `AuditSinks` | the JSONL, SQLite and Splunk sinks with their failures, and the follower of a log |
| `AuditTrail` | the abstract specification of a sink: a trail that is append-only, but for a last event that is not firm |
| `Console` | dashboard and live demo in one process, over `OperatorAuth`; its properties |
| `OperatorAuth` | sign-in, tokens, secret and clock |
| `ResponseFilter` | filter and redaction of a value, call by call; what they come to |
| `MCEnforcementPipeline`, `MCStdioWrap`, `MCLearning`, `MCProxyApp`, `MCConsole`, `MCResponseFilter` | small instances for TLC |
| `EnforcementPipelineProofs`, `SoftQuotaProofs`, `StdioWrapProofs`, `FilteredChannelProofs`, `LearningProofs`, `ProxyAppProofs`, `ConsoleProofs`, `ResponseFilterProofs` | theorems |

A definition marked `[variant]` is not part of the model: it is the definition
after it with a plausible mistake. Each property of each passing run is
violated when a variant takes the place of its original.

### From code to model: the request path

A *slot* is a place for one call of `handle`; `task[s]` holds where the
coroutine is (`pc`) and the locals and event fields that matter: the verdict of
`check_quota`, the credentials, `role_assumed`, what the target did,
`record_count`, `decision`, `denial_reason`, how often the event was emitted,
and the answer. A finished slot keeps its last request until the next one.
`charged` and `spent` are history: whether the increment of this request was
applied, and whether its caller's counters were used up when it arrived and
have not been lost since.

A request is a record of what the stages look at: the shape of the body, the
token, the envelope, `params`, the policy's verdict, the verdict on its
destination, and whether the tool has a role and a target. The verdicts are
data here; `PolicyEngine!RequestOf` computes them from a policy and a call.

Actions follow the suspension points. `ReceiveRefused` is everything from
arrival to the answer of the first refusing stage. `ReceiveMemory` runs from
arrival through `check_quota`, `mint_credentials` and the start of `execute`
in one step, since the in-memory coroutines never suspend (their lock is never
contended) and `assume_role` is a synchronous call. `ReceiveRedis`,
`RedisCheck` and `CheckReturns` are the same with the command sent, applied and
answered. `TargetActs` and `TargetRejects` are the target's, possible even
after the gateway gave up on it. `ExecuteReturnsMemory` filters, counts, discards and
answers in one step; `ExecuteReturnsRedis`, `RedisRecord` and `RecordReturns`
are the same with Redis. `CheckFails`, `ExecuteRaises` and `RecordFails` are
the exceptions, `Cancel` the `CancelledError` of a worker that stops, which
runs the two `finally` blocks and no `except`. `Refused`, `Succeeded` and
`Aborted` each contain the whole tail of the code: discard, reason, emit,
answer. `RestartWorker` ends a process, cleanly or by a crash, with its
coroutines and in-memory counters. `LoseCounters` is expiry, eviction or a
restart of Redis.

External, modelled from their use: the targets, STS, Redis.

### From code to model: the stdio wrapper

`pump_client_to_server` is the *feeder*, `pump_server_to_client` and
`pump_stderr` are the two other pumps, one per stream of the child. A pump runs
from one suspending `await` to the next in one step: the feeder from `readline`
through `route_message`, the audit event and the write to the child up to
`drain` (`Forward`, `Deny`, `FeederRaises`, then `Drained`), the others from
`readline` to the next. A line is its kind, which is all `route_message` looks
at. A pipe is a history and a count: `sent` and `taken` for the client's stdin,
`forwarded` and `consumed` for the child's, `wrote` and `pulled` for its two
outputs, `shown` and `received` for the client's stdout. The write to stdout is
blocking: while it cannot finish, `loop` names the pump it was called from and
no other pump moves (`Running`). `refused` and `audited` are histories.

`MainEnds` is what follows `proc.wait()`: the pumps are cancelled at once.
asyncio returns from it after both outputs are at their end (`WaitReturns`),
which is why no answer is lost. `Interrupted` is Ctrl-C. A pump that raises is
over and nobody looks (`"failed"`). The client may close its stdin, stop
reading, or die; the child may exit, crash, or stop reading when its output is
full.

### From code to model: policy, egress, learning

A call is a record of what the checks look at, parameters that may be absent
as sets of at most one value. What sqlglot makes of a text is part of the call.
A host is the sequence of its labels from the top-level domain down, so that a
wildcard entry is a strict prefix. The order of the checks decides only which
rule is reported, which nothing else depends on; `Evaluate` and
`EgressPermits` are conjunctions.

`Learning` has the policy file, the policy of the running proxy, the log, and
the snippet that `apg policy suggest` printed last. `Submit`, `OutOfScope` and
`Unauthenticated` are the three ways a call ends in the log of a proxy in audit
mode (a call that leaves no event is no step), `Suggest` is the command,
`Merge` the operator who takes over one entry of the snippet, `Restart` the
proxy that reads the file again. The log is a set, since order and number do not
matter to `suggest_entries`. `basis` and `learned` are history. A tool
that is not listed is one with the defaults of `ToolConfig`, which deny alike.

### From code to model: the HTTP proxy and the sinks

A request is what the handler looks at: its body, its token, its method, and
whether the policy permits the call. The handler awaits once for the body and
once for the target, so it runs in two steps: up to an answer or to the request
to the target (`Undecodable`, `Unauthorized`, `Refuse`, `Raise`, `Forward`), and
from the target's answer, or the failure to get one, to its own (`Respond`,
`ForwardRaises`). A request that was accepted is handled also when the process
drains (`Arrives`). An exception ends in the state `"error"`: which ones leave no
event is what the model is about. One of them is that of `hmac.compare_digest` on a
token that is not ASCII (`AuthenticationRaises`). Arguments that are no object raise where
`evaluate_call` or `attempt_summary` first touch them, which is before or after
the forwarding. `wire` and `reached` are the requests on their way to the target
and those it got, possibly after the proxy gave up. `MayCall` is the scope of the
last agent in the policy whose token the caller has (`adapters/identity/`).

The process drains, closes its sink and stops, or is cut off (`Drain`, `Close`,
`Stop`, `StopInVain`, `Crash`, `Restart`). `StopInVain` is the join of five
seconds that is over before the worker of the Splunk sink is.

`Write` is `sink.write` of the sink the process was started with. An event is its
position in `offered`. `AppendLine` is a write that succeeds, fails, or is cut:
`ending` is how the file ends. After a `"piece"` of a line the next one is glued
to it and lost too. A line that lacks only its newline (`"unended"`) is returned
by `read` like any other (`jsonl.py:62-69`), until the next write glues itself to
it (`Glue`): then both are gone from what a reader sees, though the first had been
read. `Firm` counts the events for which this cannot happen, `withdrawn` has those
to which it did. `InsertRow` is insert and commit; a failed commit leaves the row
in the open transaction or rolls it back. `Enqueue`, `PostStarts`, `PostFails`,
`PostReturns` are the Splunk queue and its thread; all failures of a POST are the
same to `_run`, which goes on with the next event, and the collector may get it
anyway (`Collect`). `TailShows`, `TailWatches` and `TailPolls` are the three reads
of `apg audit tail --follow`. The follower goes on from a number of events;
`known` is history: the events that were there when it took that number for the
first time.

External: the target, the collector, uvicorn.

### From code to model: the operator console

A *run* is a scenario of the live demo or of the dashboard. `StartScenario` runs
up to the await on the language model, `Finish` from there to the counters: the
demo's pipeline, its executor on SQLite and the recording never suspend. The
model may answer with any call of `Replies`; without one the scenario takes its
own (`Fallback`), which is also what a timeout comes to (`ModelGivesUp`), since
the providers turn HTTP errors into a text. `ModelRaises` is an answer of another
shape. `Denial` is the part of the gateway's stages that the demo's calls can
get to; it is written out again because the demo has one token, no credentials and
its own quota. `Record` is `record_pipeline_event` with `record_audit_event`.
`RunDemo` is `run_demo` of the dashboard, which evaluates and executes nothing.
`Reset` restores the database and not the quota. `Reboot` is a restart; with it
go counters, log, database and quota.

`OperatorAuth` has the clock, the secret of the process and the token that the
browser keeps. `login` is history.

External: the language model, the browser, the clock.

### From code to model: filter and redaction

A value is a function from ways to nodes: the root is at `<<>>`, the first part
of the second part at `<<2, 1>>`; a text holds no secret, one or several.
`filter_response` and `redact_params` recur over it, and each call of
`_filter_value` or `_redact_value` is a step (`FilterValue`, `RedactValue`), with
the depth it is called with: it masks a text, or leaves the calls for the parts
to be made, or stops at its depth. The calls have no effect on each other, so the
model leaves their order open; in the code it is that of the parts.
`RedactParams` is an agent that sends on what it got, or the same from elsewhere,
as parameters of another call. `Without` says in one line what should come out.

## Runs

| Run | Question | Instance |
|---|---|---|
| `memory_enforce` | In-memory sessions and STS: fail-closed, credentials confined, audit truthful, for every kind of request and fault? | 2 slots, 1 worker, 15 kinds of requests, 1 fault |
| `redis_quota` | Do the bounds, and the refinement of the soft quota, survive stale replies, lost replies, crashes and losses? | 3 slots, 2 workers, 1 fault |
| `audit_liveness` | Does audit mode relax the policy's denial only, and does every request end? | 2 slots, 2 workers, Redis, the requests to which the mode matters |
| `stdio_safety` | Every kind of line, every death: is the wrapper a filtered channel with bounded queues, an event per call and no lost answer? | 3 lines, 1 log line |
| `stdio_liveness` | Is every line settled, and does the wrapper end with its client and its child? | lines that can be routed, short answers, a client that reads |
| `learning` | Do suggestions suffice, settle and add only what was asked for? Do the surfaces agree? | 2 tools, 8 kinds of calls, 16 policies, 3 events |
| `proxy_audit` | The proxy with each sink: is nothing denied forwarded, is the trail true and complete but for the known losses, do shutdown and queue end? | 3 requests (see Bounds), 11 kinds, 4 agents, both modes, 3 sinks, 1 end of the process |
| `console` | Do figures, log and quota agree with what was run, is a denied statement without effect, is only a live session served? | 2 scenarios and a run of the dashboard, 8 calls, 2 limits, both modes, 1 restart |
| `response_filter` | Is a secret masked down to the depth, and in `params_redacted` at any? | all values of 3 levels, depth 2 |
| `stdio_malformed` | the wrapper ends with its client | one call whose params are no object, expects a violation |
| `learning_revokes` | suggestions are "additive" (`README.md:195`) | as `learning`, expects a violation |
| `follow_gap` | "Keep watching and print new events as they arrive" (`cli.py:175`) | as `proxy_audit` without an end, expects a violation |

What the last three show. In the wrapper, `route_message` raises on params that
are no object, the feeder is over, the child's stdin is never closed, and wrapper
and child wait for each other after the client is gone. A suggestion for an
allowed tool whose `operations` are empty (which permits all) is a list of the
denied operation alone, and merging it denies the rest. The follower reads the
log for what it prints and again for where it goes on; an event in between is
never printed.

Observed while modelling, without a run:

- Request path. Every request checked before any is counted passes, so a limit
  is overshot by the number of concurrent requests, which is what
  `CallQuotaBound` says, where `redis_store.py:13-14` has "a request or two". The
  image starts four workers and the compose file sets no `APG_REDIS_URL`, so a
  caller has its quota once per process, where the repository's `README.md:69-70`
  has "one backend process". In audit mode a denied call goes on without a
  `tool_config`, so with `aws_sts` it fails at the mint, where `README.md:286` has
  "logged but still executed". In audit mode the gateway still refuses what egress
  control refuses, the proxies forward it.
- Wrapper. A line of the child over 64 KiB ends its pump, and then `proc.wait()`
  never returns. A call whose name is null is decided but not audited (the kind
  `unnamed` of `StdioWrap`).
- Policy and learning. A destination that is no text is ignored by `evaluate_call`
  and refused by the request path (`SurfacesAgree` leaves it out). The proxy logs
  failed authentications with their method, so an entry is proposed for what only
  strangers called, where `learning.py:89` has "Auth failures have no method".
  `apg policy suggest` says that "every observed call is already permitted" when
  the denials were for keywords, constraints or SQL.
- Proxy. A call whose answer never comes, or that audit mode forwards with
  arguments that are no object, acts on the target without an event
  (`AnsweredIsLogged` says what remains true). A body that is a JSON array is no call
  to the handler (`proxy_app.py:160`): a batch is forwarded undecided and unaudited,
  whatever calls are in it, and so is a call whose name is missing or empty, undecided
  and logged as PASS_THROUGH (the bodies `plain` and `unnamed` of the model). A token
  that is not ASCII makes the comparison raise (`providers.py:48`, `74`): the client
  gets a 500, and there is no event of it.
- Sinks. The JSONL log is not "append-only" (`audit_sink.py:15`, `jsonl.py:48`) to a
  reader: an event whose line was cut just before its newline (`jsonl.py:24`) is read
  until the next event is written, and then both are gone. A follower that had counted
  it skips the event that comes after the two.
- Events. `redact_params` is applied to the parameters. `denial_reason` repeats the
  operation or the table as it was sent (`policy.py:287`, `pipeline.py:207`), a secret
  in it included.
- Console. A statement that fails with "quota" in its message is labelled "Quota
  Check", since `_stage_for_denial` looks for that word first. In audit mode the
  scenario executes the DELETE and still reports by its text "No data was
  modified". `get_pipeline_stats` says it counts every live request; `/rpc`
  never records. `get_provider` documents a fall back to the mock and ends in
  Ollama; the router passes "auto", so `LLM_PROVIDER` has no effect. Signing out
  is a link and leaves the token in the browser, where `auth_service/router.py:123`
  has "the client simply discards the token".

### The properties

- `FailClosed`: what reached a target passed every stage, was read as under
  quota, and has a role if the policy asks for credentials.
- `CredentialsConfined`: credentials are live exactly from the mint to the
  answer, on every path out, including cancellation and failures of Redis.
- `AuditIsTruthful`: one event per request that ended in a living process; ALLOW
  exactly when `handle` returned a result, and then the call was charged; with
  the in-memory store never charged otherwise. With Redis the last part fails by
  design (a lost reply is audited as DENY after the charge), so it is not stated.
- `CallQuotaBound`, `RecordQuotaBound`: counted plus still to be counted stays
  below the limit plus the slots that share the counters (times the rows a call
  may bring).
- `ImplementsSoftQuota`: for each store and caller, every step is a step of
  `SoftQuota` (grant below the limits, charge a granted place, give up, forget)
  or none. It is an action property because a loss of counters is a step of
  several callers' quotas at once.
- `SpentNeverExecutes`: a request that arrives on a used-up quota never reaches
  its target, unless the counters were lost meanwhile.
- `EveryRequestEnds`: with a live event loop every request leaves the pipeline.
- `LinesAccounted`: each line taken is forwarded, refused, or the one the feeder
  broke on; in order, once, and forwarded only if it may be.
- `ImplementsFilteredChannel`: every step is a step of `FilteredChannel` or none.
- `CallsAudited`: a named call is in the log before it acts or is refused.
- `Backpressure`: what is on the way to the child or to the client is bounded by
  the pipes and buffers. It speaks of a client that may stop reading.
- `NoAnswerLost`: when the wrapper ends of its own, every answer the child wrote
  was read by its pump, unless the pump had failed.
- `NoStandstill`: as long as the wrapper runs, the client can read, a pump can go
  on, the child can answer or exit, or main can end; or the client is to send its
  next line; or a pump broke, for which there are three causes: a line that cannot
  be routed, a line over the limit, a dead client.
- `EveryLineSettled`, `EndsWithClient`, `EndsWithChild`: liveness.
- `SuggestionsSuffice`: a denied call whose entry was merged is allowed by the
  file ever after, unless SQL, a constraint, a keyword or a denied destination
  refuses it.
- `Converges`: what was learned is not proposed again.
- `NothingInvented`: a merge adds to a list only what a logged denial of the same
  tool asked for, however old the snippet.
- `AdditiveWhereListed`: a merge takes no call away that the file allowed, if the
  lists of the tool that were empty stay empty. Only the first entry of such a
  list revokes, which is what `learning_revokes` shows.
- `SurfacesAgree`: the gateway's gates and `evaluate_call` give one answer under
  every policy that comes up.
- `NothingDeniedForwarded`: what is on its way to the target, or got there, is of
  a known agent, and in enforce mode within its scope and the policy, though
  tokens may coincide or be unset. It speaks of named calls: batches and calls
  without a name are forwarded undecided, see above.
- `EventsTellTheTruth`: one event per request at most; what is logged as refused
  never gets to the target, not even late; what is logged as passed did.
- `AnsweredIsLogged`: every refusal, and every answer to a call, has its event.
  An error may have none: see above.
- `EventsAccounted`: each event is kept, held in memory, or lost by a failure of
  its own, by the torn line before it, or with the process; an orderly stop
  takes none, and a torn line costs one more event and no second one.
- `ImplementsAuditTrail`: each sink implements `AuditTrail`: nothing is kept twice or
  made up, a local sink keeps the order of the writes, and nothing that can be read
  goes away, but for a last event whose write failed. That one exception is what the
  JSONL file comes to; `Withdraw` is the only step of `AuditTrail` that takes
  something back, and it takes the event after the firm ones.
- `FollowedOnce`: the follower prints nothing twice, out of order, or made up, and of
  what came since it began to watch it leaves out, up to its baseline, at most an event
  in the place of one that it had counted and that was withdrawn
  (`InPlaceOfAnother`). Without the exception it does not hold: after a line cut before
  its newline was counted, glued to the next and lost with it, the event that comes
  third takes the counted place. That nothing at all is missed is
  `FollowMissesNothing`, which fails already without a failing write.
- `DrainEnds`, `QueueIsWorkedOff`: liveness of shutdown and queue.
- `FunnelAdds`: requests, denials, the log and the ten stages, raised by three
  functions, agree with each other.
- `LogIsOfTheAnswered`: the log holds the runs this process answered, each once.
- `QuotaIsExact`: the demo's quota counts the runs that were let through and is
  never exceeded, because the check and the charge are one step after the await;
  the gateway's own quota has no such property.
- `OnlyPermittedWrites`: while the demo enforces, only permitted statements change
  its database, and a run reported as denied has changed nothing.
- `AccessIsEarned`: who is served signed in within a token's lifetime, under the
  secret of the process that serves. Tokens come from `login` only: nobody in the model
  can sign one, which in the code needs the secret. Without `APG_JWT_SECRET` that is
  a hash of `APG_AGENT_TOKEN` (`tokens.py:34-37`), which the agents have.
- `SpentUntilReboot`: a spent quota denies every scenario until the process ends.
- `MaskedToTheDepth`: what the agent gets is the answer with every text that holds
  a secret masked down to the depth, the last level included, and nothing else.
- `LoggedClean`: the same of the `params_redacted` of an event, at any depth, and whether
  or not the value had passed the filter before. It does not speak of `denial_reason`,
  see above.

### Bounds

Two slots are enough for one request to overtake another at every suspension
point, three for the quota to be overshot by more than the next request. The
limits are one to three, so that both are reached. `MaxRows` bounds the rows of
one answer. `MaxFaults` bounds stops, crashes and losses together: one fault per
behaviour at every point; `Cancel` and the failures of single commands are not
bounded. The counters need no bound: they stay finite by the quota itself.
`emitted` grows by one per request. Slots of one worker are symmetric.

In `StdioWrap`, `MaxLines` bounds the client's lines and `MaxLogs` the child's
lines on stderr. `PipeHolds`, `ReaderHolds` and `HighWater` are the capacities of
a pipe, of a StreamReader and of the writer to the child; they are one or two, so
that three lines fill them. `MaxEvents` of `Learning` bounds the different events
in the log: two of one tool and one of the other, or three of one; a tool's entry
depends on its own events only.

In `ProxyApp` each request is made once, and `MayBe` bounds what the three of them
are together: either one of any kind beside one that leaves an event, so that two
events meet in every sink, at every point of a shutdown; or three that leave an
event each, so that the log can lose a line that was read and go on beyond the
length it had. `Limit` is the follower's `--limit`. `MaxEnds` bounds how often the
process ends. In `Console` each run is made once; `MaxReboots` bounds restarts,
`MaxTime` the clock, which needs one tick for a token of `Ttl` one to expire. The
limits of one call, and of two with records, are reached by two scenarios.
`ResponseFilter` has values of one level more than `MaxDepth`, which stands for
the code's 50, so that a text is above, at, or below the limit; containers have up
to two parts on their first two levels.

### Fairness

`audit_liveness` assumes weak fairness of four things per slot: Redis executes what it
was sent or the command fails; the event loop resumes a coroutine whose reply is
there (`CheckReturns`, `RecordReturns`); and `execute` ends, because `httpx`
raises at its timeout of 30 s whatever the target does. Failures, cancellations,
crashes and the target itself are not fair: they may never happen. The second
assumption on Redis is a real one: the client has no socket timeout
(`redis_store.py:48`), so a server that accepts a command and hangs is outside
the property.

`stdio_liveness` assumes that the event loop serves each pump that can go on,
that the child works off its stdin and exits at its end, that the client reads
its stdin while it lives, and that main goes on when the child is dead. Deaths
are not fair. With a client that does not read or a long line the properties do
not hold, so the run has neither; `stdio_safety` has both.

`proxy_audit` assumes that the worker thread of the Splunk sink takes what is
queued and its POST ends (timeout of 5 s), that a request to the target ends
(timeout of 30 s, hence a target that does not trickle for ever), and that uvicorn
and `lifespan` go on with a shutdown, clients having sent the bodies they
announced (a request whose body never comes is none in the model). The target's
answer, the collector and the end of the process are not fair.

The other runs check safety and assume nothing.

## Proofs

Those on the request path hold for any finite set of slots, any workers and
callers, any limits, either store, broker and mode (`PipelineAssumption`,
`GatesAssumption`), so also for in-memory counters of many workers, which the
runs check only with one.

- `TypeCorrect`: `TypeOK`, by one lemma per pure step of a task and one case per
  action.
- `Refinement`: `ImplementsSoftQuota`. Each action is one of four things to the
  quotas: it gives up a place (`GiveUpStep`), keeps what it holds (`KeepStep`),
  takes a place whose counters were just seen below the limits (`GrantStep`) or
  pays for one (`ChargeStep`); restarts and losses have lemmas of their own.
  The refinement mapping: `used` and `rowsUsed` are the counters, `held` is the
  set of slots that were seen under quota and not yet charged.
- `CallsBounded`, `RecordsBounded`: `CallQuotaBound` and `RecordQuotaBound`.
  The bound on the counters alone is not inductive, since a charge raises them
  without looking; with the places held on the left side it is: a charge turns a
  held place into a count, a grant starts below the limit.
- `NothingUnchecked`: `FailClosed`, from the invariant `Closed` on each task: a
  waiting request passed the gates, a request before its check is done has no
  target, and one that has a target is `Cleared`.
- `CredentialsAreConfined`, `AuditIsTrue`: `CredentialsConfined`,
  `AuditIsTruthful`, from the invariant `Tidy` on each task: what its credentials,
  its event and its charge are at each point of its way.
- `SpentIsRefused`: `SpentNeverExecutes`, from the invariant `Barred`: a spent
  request that still waits for its check faces counters over their limits,
  which only grow, or has read them.
- `RequestsMoveOn`: the part of `EveryRequestEnds` that needs no fairness. A
  request under way meets its awaits once and in their order, whatever fails,
  restarts or is cancelled, and each step that the fairness speaks of brings it on;
  since every place in `Waiting` has such a step, fairness is all that is left to
  assume.
- `SoftQuotaProofs!Bounds`: the bounds of the abstract quota, for any limits
  (`QuotaAssumption`).

On the stdio wrapper, for any number of lines and any capacities:

- `TypeCorrect`, in three parts: client, feeder, streams.
- `Refinement`: `ImplementsFilteredChannel`. `FilteredChannelProofs!AllAccounted`
  proves of the channel that it accounts for each line, and `NoLineLost` carries
  it to the wrapper as `LinesAccounted`.
- `NoCallUnlogged`, `AnswersKept`, `NothingPilesUp`: `CallsAudited`,
  `NoAnswerLost`, `Backpressure`, each from an invariant of its own.
- `NoCircularWait`: `NoStandstill`, from `WaitInv`: a write that blocks is one the
  client can end, a pump at its end has closed the child's stdin or found the child
  dead, and any other pump that is over broke on one of the three things. From that,
  whoever waits does so for somebody that has something to do. `SomeoneMoves` is
  written with the guards of the steps, since `ENABLED` is out of the prover's
  reach; TLC finds it equivalent to `ENABLED` of those steps while the wrapper runs.

On policy and learning, for any tools, policies and traffic:

- `GatewayAgrees`: `SurfacesAgree`, by `GatewayDecision`: on a well-formed call
  the ten gates come down to policy and egress.
- `Sufficient`, `Convergent`: from the invariant `IInv`. What was learned is
  granted by the file (`Learnt`), and for each entry that may still be merged,
  every field has what the events behind it asked for, or the file has it
  already (`Pending`). The second part is needed because entries are merged one
  by one, after others.
- `Additions`: `NothingInvented`, with the invariant `Within`: a snippet stays
  within the file and the denials while both grow.
- `Additive`: `AdditiveWhereListed`, from `NothingForgotten`: a list that the snippet
  has for a tool which the file allows contains the list of the file, also after
  other entries were merged, so that an old snippet takes no member back.
  `ExtendedAllowsMore` then has it that a policy whose
  lists grow, empty ones aside, allows what it did.
- `TypeCorrect`.

On the HTTP proxy and the sinks, for any requests, agents and number of ends:

- `TypeCorrect`, from `Typed`, in parts for sink, follower, requests and process.
- `DeniedIsNotForwarded`: `NothingDeniedForwarded`.
- `TrailIsTrue`, `AnswersAreLogged`, `AgentsAreRight`: `EventsTellTheTruth`,
  `AnsweredIsLogged`, `AgentsAreNamed`, from `Truthful`: a request is logged
  exactly in the states that have an event, and with the event of its input.
- `NoEventVanishes`: `EventsAccounted`, from `Kept`: what is pending, posting or
  torn has its place among the events.
- `SinksAreTrails`: `ImplementsAuditTrail`, from `InOrder`: what a local sink has
  kept comes before what it still holds, in ascending order; and from `TrailMoves`: a
  step leaves the trail alone (`Still`), adds at its end when all of it is firm
  (`Grown`), or takes the event that is not (`Shrunk`). `TrailsAreSound` carries
  the soundness of the abstract trail over to them: nothing twice, local order kept,
  and what may go had failed (`Held`).
- `FollowerPrintsOnce`: `FollowedOnce`, with the strengthening `Watched`. A log that can
  become shorter than the baseline needs two parts that the property does not have:
  when it is shorter, an event that the follower had counted is withdrawn and is newer than
  all that is left (`PlaceIsLeft`), so that what comes next is in its place; and
  what is not counted yet is newer than everything printed (`UncountedIsNewer`), so
  that nothing is printed twice.
- `WorkMovesOn`: the part of `QueueIsWorkedOff` and `DrainEnds` that needs no
  fairness. An event in the queue gets nearer to its head with every POST and never
  goes back, also when a POST failed; a request waits for the target once.

On the console, for any runs, calls, limits, secrets and lifetimes:

- `TypeCorrect`, `FiguresAddUp`, `LogIsComplete`, `QuotaHolds`,
  `DatabaseIsGuarded`: `TypeOK`, `FunnelAdds`, `LogIsOfTheAnswered`,
  `QuotaIsExact`, `OnlyPermittedWrites`, from the one invariant `Consistent`.
  They need each other: that a run is logged once follows from its state, that
  the quota is exact from the log, and that the writers were answered from both.
- `SessionsExpire`: `AccessIsEarned`, from `SignedAtLogin`: the token in the
  browser is the one of the last sign-in.
- `QuotaStaysSpent`: `SpentUntilReboot`.

On filter and redaction, for values of any size and depth, and any `MaxDepth`:

- `FilterMasks`, `LogIsClean`: `MaskedToTheDepth`, `LoggedClean`, from `IInv`: a node
  is as it should be in the end, or a call for it, or for a container it is in, is
  still to come; and a call has the depth of its node. With no call left, all nodes
  are as they should be. The order of the calls does not matter to the argument. No
  induction over values is needed, which would be out of the prover's reach.

The runs do not check the `TypeOK` of the modules, since the theorems have it for
every instance; the same holds for `AgentsAreNamed` (the agent in an event has the
caller's token and, for an allowed call, the scope). TLC found no violation of
these either.

Every invariant and action property that a run checks is proved. Only
model-checked are the liveness properties, since liveness under fairness and
`ENABLED` are beyond the prover: `EveryRequestEnds`, `EveryLineSettled`,
`EndsWithClient`, `EndsWithChild`, `DrainEnds`, `QueueIsWorkedOff`. `RequestsMoveOn`,
`NoCircularWait` and `WorkMovesOn` are what can be said of them without fairness.

## Not modelled

The text and layout of answers and events, CEF among them; the rule that is
reported; the syslog sink, which sends a datagram and keeps nothing; the
rendering of a response that JSON cannot carry; what sqlglot makes of a text;
loading and validating a policy; parameters `op` and `table` that are no text;
destinations with a host the URL parser and `_normalize_destination` see
differently, other than those that start with `//`; method names that are no
text, and calls with an empty name and arguments that are no object; time, hence
the 30 s and the TTL (their effects happen at any moment instead), but for the
lifetime of a token; a Redis client that retries commands; increments that Redis
applies only after the gateway gave up on them; start-up refusals; the secret
patterns, prompts and SQL fixtures; the reads of the dashboard, which have no
effect; several processes behind one dashboard. Of whole components: the policy's
unit tests (a loop over `evaluate_call`), observability (no effect on
decisions) and the frontend (no protocol of its own).

## Plan

Done: the request path with its abstract quota, the stdio wrapper with its
abstract channel, policy, egress and learning, the HTTP proxy with sinks and
their abstract trail, the console with sign-in, filter and redaction.

Left, in this order:

1. Redis with a TTL clock and a retrying client, as a variant of the store.
2. Several processes behind one dashboard, and the frontend that polls it.
3. Start-up and the loading of a policy; the rendering of responses.
