------------------------------- MODULE ProxyApp -------------------------------
(***************************************************************************)
(* `apg proxy`: create_proxy_app (proxy_app.py) between HTTP clients and   *)
(* an MCP server, with the identities of a policy                          *)
(* (adapters/identity/providers.py) and an audit sink.  One process, one   *)
(* event loop: a request runs to the await on the target in one step, and  *)
(* from there to its answer in another.                                    *)
(*                                                                         *)
(* The target and the network to it are external: what was sent may be     *)
(* lost, or acted upon after the proxy gave up.                            *)
(***************************************************************************)
EXTENDS AuditSinks

CONSTANTS Requests,   \* requests; each is made at most once
          Inputs,     \* what requests may be
          MayBe,      \* bound: which of them the requests may be, together
          Modes,      \* of --mode "enforce" and "audit"
          Agents,     \* the agents of the policy, in its order: token and tools
          NonAscii,   \* the tokens that compare_digest does not take
          MaxEnds     \* bound: how often the process ends

(* Bodies: a tool call; one whose arguments are no object; one without a   *)
(* usable name (params that are no object, or a name that is empty or      *)
(* null); JSON that is no call, a batch among it; no JSON; no text.        *)
Bodies == {"call", "shapeless", "unnamed", "plain", "garbage", "undecodable"}

ASSUME ProxyAssumption ==
    /\ Modes \subseteq {"enforce", "audit"}
    /\ MayBe \subseteq [Requests -> SUBSET Inputs]
    /\ \A q \in Inputs : /\ q.body \in Bodies
                         /\ q.permitted \in BOOLEAN
    /\ Agents \in Seq([token : STRING, tools : SUBSET STRING])
    /\ NonAscii \subseteq STRING
    /\ MaxEnds \in Nat

VARIABLES mode,     \* --mode
          input,    \* the request that was made, at most one per identifier
          state,    \* where it is, or how it ended
          wire,     \* requests on their way to the target
          reached,  \* requests the target got
          proc,     \* "running", "draining", "closing", "stopped" or "cut"
          lost,     \* history: events that went with the process
          ends      \* how often it ended

requests == <<input, state, wire, reached>>
process == <<mode, proc, lost, ends>>
vars == <<sinkVars, requests, process>>

Init ==
    /\ SinkInit
    /\ mode \in Modes
    /\ input = [r \in Requests |-> {}]
    /\ state = [r \in Requests |-> "new"]
    /\ wire = {} /\ reached = {}
    /\ proc = "running" /\ lost = {} /\ ends = 0
-----------------------------------------------------------------------------
(* authenticate: the last agent whose token this is, if there is one; an   *)
(* agent whose variable is not set has the token "" and is never matched.  *)
Authenticate(token) ==
    {i \in DOMAIN Agents : /\ token # "" /\ Agents[i].token = token
                           /\ \A j \in i + 1..Len(Agents) : Agents[j].token # token}

(* compare_digest raises for a text that is not ASCII.                     *)
AuthenticationRaises(token) ==
    /\ token # ""
    /\ \E i \in DOMAIN Agents : /\ Agents[i].token # ""
                               /\ {token, Agents[i].token} \cap NonAscii # {}

IsCall(q) == q.body \in {"call", "shapeless", "unnamed"}
Named(q) == q.body \in {"call", "shapeless"}

(* [variant] the scopes of all agents with this token add up.              *)
MayCallAsAny(q) == \E i \in DOMAIN Agents : Agents[i].token = q.token /\ q.method \in Agents[i].tools

(* may_call: the identity's scope, before the policy is asked.             *)
MayCall(q) == \E i \in Authenticate(q.token) : q.method \in Agents[i].tools

Allowed(q) == MayCall(q) /\ q.permitted

(* The policy decides on the name before it looks at the arguments; then   *)
(* arguments that are no object raise, and so they do when the event of a  *)
(* call is put together (attempt_summary).                                 *)
EvaluationRaises(q) == q.body = "shapeless" /\ Allowed(q)

Outcome(q) == IF ~Named(q) THEN "PASS_THROUGH" ELSE IF Allowed(q) THEN "ALLOW" ELSE "DENIED"

Event(r, q, outcome) == [request |-> r, agent |-> Authenticate(q.token), outcome |-> outcome]

Outcomes == {"DENY", "DENIED", "ALLOW", "PASS_THROUGH"}
Events == [request : Requests, agent : SUBSET DOMAIN Agents, outcome : Outcomes]
-----------------------------------------------------------------------------
Alive == proc \in {"running", "draining"}

(* The body is there.  A request that was accepted before the process      *)
(* began to stop is still handled.                                         *)
Arrives(r, q) ==
    /\ Alive
    /\ state[r] = "new"
    /\ input' = [input EXCEPT ![r] = {q}]
    /\ \E load \in MayBe : \A p \in Requests : input'[p] \subseteq load[p]

Becomes(r, s) == state' = [state EXCEPT ![r] = s]

Unreadable(q) == q.body = "undecodable" \/ AuthenticationRaises(q.token)

(* json.loads or the comparison of tokens raises an exception that the     *)
(* handler does not expect.                                                *)
Undecodable(r, q) ==
    /\ Arrives(r, q)
    /\ Unreadable(q)
    /\ Becomes(r, "error")
    /\ UNCHANGED <<sinkVars, wire, reached, process>>

(* The event comes first; the answer needs the parsed body, and fails      *)
(* without it.                                                             *)
Unauthorized(r, q) ==
    /\ Arrives(r, q)
    /\ ~Unreadable(q)
    /\ Authenticate(q.token) = {}
    /\ Write(Event(r, q, "DENY"))
    /\ Becomes(r, IF q.body = "garbage" THEN "error" ELSE "unauthorized")
    /\ UNCHANGED <<wire, reached, process>>

Decides(r, q) ==
    /\ Arrives(r, q)
    /\ ~Unreadable(q)
    /\ Authenticate(q.token) # {}

(* [variant] a denied call is answered and not logged.                     *)
RefuseSilently(r, q) ==
    /\ Decides(r, q)
    /\ Named(q) /\ ~Allowed(q) /\ mode = "enforce"
    /\ Becomes(r, "refused")
    /\ UNCHANGED <<sinkVars, wire, reached, process>>

(* Refused by scope or policy, not forwarded; shapeless arguments raise    *)
(* before the event is written.                                            *)
Refuse(r, q) ==
    /\ Decides(r, q)
    /\ Named(q) /\ ~Allowed(q) /\ mode = "enforce"
    /\ IF q.body = "shapeless"
       THEN Becomes(r, "error") /\ UNCHANGED sinkVars
       ELSE Becomes(r, "refused") /\ Write(Event(r, q, "DENY"))
    /\ UNCHANGED <<wire, reached, process>>

Raise(r, q) ==
    /\ Decides(r, q)
    /\ EvaluationRaises(q)
    /\ Becomes(r, "error")
    /\ UNCHANGED <<sinkVars, wire, reached, process>>

(* Everything else goes to the target, denied calls too in audit mode.     *)
Forward(r, q) ==
    /\ Decides(r, q)
    /\ ~EvaluationRaises(q)
    /\ ~(Named(q) /\ ~Allowed(q) /\ mode = "enforce")
    /\ wire' = wire \cup {r}
    /\ Becomes(r, "forwarding")
    /\ UNCHANGED <<sinkVars, reached, process>>

TargetGets(r) ==
    /\ r \in wire
    /\ wire' = wire \ {r}
    /\ reached' = reached \cup {r}
    /\ UNCHANGED <<sinkVars, input, state, process>>

Awaited(r, q) ==
    /\ Alive
    /\ state[r] = "forwarding"
    /\ q \in input[r]

(* [variant] the event is written before the target has answered.          *)
RespondEarly(r, q) ==
    /\ Awaited(r, q)
    /\ IF IsCall(q) THEN Write(Event(r, q, Outcome(q))) ELSE UNCHANGED sinkVars
    /\ state' \in {[state EXCEPT ![r] = s] : s \in {"answered", "error"}}
    /\ UNCHANGED <<input, wire, reached, process>>

(* The target has answered: the event of a call, then the answer, which    *)
(* may fail to be rendered.                                                *)
Respond(r, q) ==
    /\ Awaited(r, q)
    /\ r \in reached
    /\ IF IsCall(q) /\ q.body # "shapeless"
       THEN Write(Event(r, q, Outcome(q))) ELSE UNCHANGED sinkVars
    /\ \/ q.body # "shapeless" /\ Becomes(r, "answered")
       \/ Becomes(r, "error")
    /\ UNCHANGED <<input, wire, reached, process>>

(* [variant] without a timeout.                                            *)
ForwardBreaksOff(r, q) ==
    /\ Awaited(r, q)
    /\ r \in reached
    /\ Becomes(r, "error")
    /\ UNCHANGED <<sinkVars, input, wire, reached, process>>

(* The target cannot be reached, breaks off, or is too slow: the exception *)
(* leaves the handler, and no event is written.                            *)
ForwardRaises(r, q) ==
    /\ Awaited(r, q)
    /\ Becomes(r, "error")
    /\ wire' \in {wire, wire \ {r}}
    /\ UNCHANGED <<sinkVars, input, reached, process>>
-----------------------------------------------------------------------------
(* A signal: no more requests are accepted; those in flight are finished.  *)
Drain ==
    /\ proc = "running"
    /\ ends < MaxEnds
    /\ proc' = "draining"
    /\ ends' = ends + 1
    /\ UNCHANGED <<sinkVars, requests, mode, lost>>

(* lifespan closes the sink.                                               *)
Close ==
    /\ proc = "draining"
    /\ \A r \in Requests : state[r] # "forwarding"
    /\ proc' = "closing"
    /\ UNCHANGED <<sinkVars, requests, mode, lost, ends>>

(* [variant] close does not wait for the worker.                           *)
StopAtOnce ==
    /\ proc = "closing"
    /\ proc' = "stopped"
    /\ SinkEnds
    /\ UNCHANGED <<requests, mode, lost, ends>>

Stop ==
    /\ proc = "closing"
    /\ Drained
    /\ proc' = "stopped"
    /\ SinkEnds
    /\ UNCHANGED <<requests, mode, lost, ends>>

(* close waited five seconds for the worker, a daemon thread, in vain.     *)
StopInVain ==
    /\ proc = "closing"
    /\ ~Drained
    /\ proc' = "cut"
    /\ lost' = lost \cup posting \cup Elements(pending)
    /\ SinkEnds
    /\ UNCHANGED <<requests, mode, ends>>

(* A crash, or a second signal.                                            *)
Crash ==
    /\ Alive
    /\ ends < MaxEnds
    /\ proc' = "cut"
    /\ ends' = ends + 1
    /\ lost' = lost \cup posting \cup Elements(pending)
    /\ SinkEnds
    /\ state' = [r \in Requests |-> IF state[r] = "forwarding" THEN "lost" ELSE state[r]]
    /\ UNCHANGED <<input, wire, reached, mode>>

Restart ==
    /\ proc \in {"stopped", "cut"}
    /\ proc' = "running"
    /\ UNCHANGED <<sinkVars, requests, mode, lost, ends>>
-----------------------------------------------------------------------------
Handles(r, q) ==
    \/ Undecodable(r, q)
    \/ Unauthorized(r, q)
    \/ Refuse(r, q)
    \/ Raise(r, q)
    \/ Forward(r, q)

Finishes(r, q) == Respond(r, q) \/ ForwardRaises(r, q)

Delivers ==
    \/ PostStarts
    \/ PostFails
    \/ PostReturns
    \/ \E n \in 1..Len(offered) : Collect(n)

Follows == TailShows \/ TailWatches \/ TailPolls

Ends == Drain \/ Close \/ Stop \/ StopInVain \/ Crash \/ Restart

Next ==
    \/ \E r \in Requests, q \in Inputs : Handles(r, q) \/ Finishes(r, q)
    \/ \E r \in Requests : TargetGets(r)
    \/ Delivers /\ UNCHANGED <<requests, process>>
    \/ Follows /\ UNCHANGED <<requests, process>>
    \/ Ends

Spec == Init /\ [][Next]_vars

(* What the code, httpx and the operating system see to: the worker thread *)
(* runs and its POST ends (timeout of 5 s); a request to the target ends   *)
(* (timeout of 30 s between bytes, so this is a target that does not       *)
(* trickle for ever); uvicorn and lifespan go on with a shutdown, once     *)
(* clients have sent the bodies they announced.                            *)
FairSpec ==
    /\ Spec
    /\ WF_vars(PostStarts /\ UNCHANGED <<requests, process>>)
    /\ WF_vars((PostFails \/ PostReturns) /\ UNCHANGED <<requests, process>>)
    /\ \A r \in Requests : WF_vars(\E q \in Inputs : Finishes(r, q))
    /\ WF_vars(Close)
    /\ WF_vars(Stop \/ StopInVain)
-----------------------------------------------------------------------------
(* Types.                                                                  *)
States == {"new", "forwarding", "unauthorized", "refused", "answered", "error", "lost"}

Positions == 1..Len(offered)

SinkTypeOK ==
    /\ sink \in Sinks
    /\ offered \in Seq(Events)
    /\ stored \in Seq(Positions)
    /\ ending \in Endings
    /\ ending = "unended" => stored # <<>>
    /\ sink # "jsonl" => ending = "whole" /\ withdrawn = {}
    /\ withdrawn \subseteq Positions
    /\ pending \in Seq(Positions)
    /\ posting \subseteq Positions /\ late \subseteq Positions
    /\ failed \subseteq Positions /\ spoilt \subseteq Positions

FollowerTypeOK ==
    /\ tail \in {"off", "shown", "watching"}
    /\ printed \in Seq(Positions)
    /\ baseline \in 0..Firm + 1
    /\ known \subseteq Positions

(* A request has an input once it was made, the wire carries only requests *)
(* that were forwarded, and a process that is stopping or gone has none    *)
(* left to finish.                                                         *)
RequestsTypeOK ==
    /\ mode \in Modes
    /\ input \in [Requests -> SUBSET Inputs]
    /\ state \in [Requests -> States]
    /\ \A r \in Requests : (state[r] = "new") <=> (input[r] = {})
    /\ \A r \in wire \cup reached : state[r] \in {"forwarding", "answered", "error", "lost"}
    /\ wire \subseteq Requests /\ reached \subseteq Requests
    /\ proc \in {"running", "draining", "closing", "stopped", "cut"}
    /\ proc \in {"closing", "stopped", "cut"} => \A r \in Requests : state[r] # "forwarding"
    /\ lost \subseteq Positions
    /\ ends \in 0..MaxEnds

(* The types of all variables.                                             *)
TypeOK == SinkTypeOK /\ FollowerTypeOK /\ RequestsTypeOK
-----------------------------------------------------------------------------
(* Properties.                                                             *)

(* "Blocks denied requests before they ever reach the server": whatever is *)
(* on its way to the target or got there was sent by a known agent, and in *)
(* enforce mode a named call is within that agent's scope and the policy.  *)
NothingDeniedForwarded ==
    \A r \in wire \cup reached : \A q \in input[r] :
        /\ Authenticate(q.token) # {}
        /\ Named(q) /\ mode = "enforce" =>
              /\ q.permitted
              /\ \E i \in Authenticate(q.token) : q.method \in Agents[i].tools

(* The trail agrees with what the target saw: a request has one event at   *)
(* most, a refused one never gets to the target, not even later, and one   *)
(* that is logged as passed on did.                                        *)
EventsTellTheTruth ==
    \A n \in DOMAIN offered :
        /\ \A m \in DOMAIN offered : offered[m].request = offered[n].request => m = n
        /\ offered[n].outcome = "DENY" => offered[n].request \notin wire \cup reached
        /\ offered[n].outcome # "DENY" => offered[n].request \in reached

(* "Logs everything": nobody gets an answer, be it a refusal or that of    *)
(* the target to a call, that has no event.  A call whose answer is lost   *)
(* has none: the client sees an error, and the target may have acted.      *)
AnsweredIsLogged ==
    \A r \in Requests : \A q \in input[r] :
        state[r] \in {"unauthorized", "refused"} \/ (state[r] = "answered" /\ IsCall(q)) =>
            \E n \in DOMAIN offered : offered[n].request = r

(* The event of a call names an agent whose token the caller has, and the  *)
(* scope that let it pass is that agent's, though tokens may coincide.     *)
AgentsAreNamed ==
    \A n \in DOMAIN offered : \A q \in input[offered[n].request] :
        LET e == offered[n]
        IN  /\ \A i \in e.agent : Agents[i].token = q.token /\ q.token # ""
            /\ e.outcome = "ALLOW" => \E i \in e.agent : q.method \in Agents[i].tools

Accounted ==
    /\ Positions \subseteq Elements(stored) \cup Elements(pending) \cup posting
                           \cup failed \cup spoilt \cup lost
    /\ proc = "stopped" => Positions \subseteq Elements(stored) \cup failed \cup spoilt \cup lost

SpoiltByATornLine == \A n \in spoilt : n > 1 /\ n - 1 \in failed

(* Every event is somewhere: kept, still held in memory, or lost by a      *)
(* failure of its own, by the torn line before it, or with the process.    *)
(* An orderly stop takes nothing with it.  A line is spoilt only by a      *)
(* failure of the very write before it, also across a restart: a torn line *)
(* costs one more event and no second one.                                 *)
EventsAccounted == Accounted /\ SpoiltByATornLine

(* "A durable, append-only destination", so far as it is one: no sink      *)
(* keeps an event twice or makes one up, and the local ones keep the order *)
(* of the writes; and of what can be read nothing goes away but a last     *)
(* line whose write failed just before its end.                            *)
Trail == INSTANCE AuditTrail WITH ordered <- sink # "splunk", firm <- Firm

ImplementsAuditTrail == Trail!Spec

(* Where the i-th event of the log now is, the follower had counted one    *)
(* that was withdrawn.                                                     *)
InPlaceOfAnother(i) ==
    \E w \in withdrawn \cap (known \cup Elements(printed)) :
        w < View[i] /\ \A j \in DOMAIN View : j < i => View[j] < w

(* The follower prints nothing twice, nothing out of order and nothing     *)
(* that was never in the log; and of what came into the log since it began *)
(* to watch, up to its baseline, it leaves out at most an event in the     *)
(* place of a line that it had counted and that was lost.                  *)
FollowedOnce ==
    tail = "watching" =>
        /\ Trail!Increasing(printed)
        /\ Elements(printed) \subseteq Elements(View) \cup withdrawn
        /\ \A i \in DOMAIN View :
              i <= baseline => View[i] \in known \cup Elements(printed) \/ InPlaceOfAnother(i)

(* "Keep watching and print new events as they arrive" (cli.py:175): the   *)
(* follower skips no event between those it prints and its baseline.       *)
FollowMissesNothing ==
    tail = "watching" /\ printed # <<>> =>
        \A n \in DOMAIN View :
            n <= baseline /\ View[n] > printed[1] => View[n] \in Elements(printed)

(* A shutdown comes to its end, whatever the target and the collector do.  *)
DrainEnds == proc = "draining" ~> proc \in {"stopped", "cut"}

(* An event in the worker's queue is posted or given up, or the process    *)
(* ends: the queue is worked off even if the collector is dead.            *)
QueueIsWorkedOff ==
    \A n \in 1..2 :
        n \in Elements(pending) \cup posting /\ sink = "splunk"
            ~> n \notin Elements(pending) \cup posting
=============================================================================
