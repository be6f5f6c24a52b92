------------------------------ MODULE StdioWrap ------------------------------
(***************************************************************************)
(* `apg wrap`: run_stdio_proxy (adapters/transports/stdio.py) between an   *)
(* MCP client and the MCP server it spawns as its child.  Three pumps of   *)
(* one event loop move lines: client to child, past the policy, and the    *)
(* child's stdout and stderr back.  Client, child and the pipes between    *)
(* them are external.                                                      *)
(*                                                                         *)
(* A pipe, with the buffers at its ends, is a history of what was written  *)
(* and a count of what was read.  A pump runs from one await that suspends *)
(* to the next; the write to the wrapper's own stdout is a blocking call,  *)
(* so while the client does not read, the whole loop stands still.         *)
(***************************************************************************)
EXTENDS Integers, Sequences

CONSTANTS Mode,        \* "enforce" or "audit": --mode
          Inputs,      \* kinds of lines the client sends
          Sizes,       \* sizes of lines the child writes
          MayQuit,     \* the client may die
          MayCrash,    \* the child may die, the wrapper may be interrupted
          PipeHolds,   \* lines that fit between two processes
          ReaderHolds, \* of those, lines that fit into a StreamReader
          HighWater,   \* lines written to the child before drain suspends
          MaxLines,    \* bound: lines the client sends
          MaxLogs      \* bound: lines the child writes to its stderr

(* Lines of the client: no tool call; a call the policy allows or denies;  *)
(* a call whose name is null, which it denies as unknown; a call whose     *)
(* params or arguments make route_message raise; a line over the limit of  *)
(* the StreamReader, 64 KiB.                                               *)
Kinds == {"plain", "allowed", "denied", "unnamed", "malformed", "long"}

ASSUME WrapAssumption ==
    /\ Mode \in {"enforce", "audit"}
    /\ Inputs \subseteq Kinds
    /\ Sizes \subseteq {"short", "long"}
    /\ MayQuit \in BOOLEAN
    /\ MayCrash \in BOOLEAN
    /\ PipeHolds \in Nat \ {0}
    /\ ReaderHolds \in Nat
    /\ HighWater \in Nat
    /\ MaxLines \in Nat
    /\ MaxLogs \in Nat

Streams == {"stdout", "stderr"}

VARIABLES sent,      \* kinds of the lines the client wrote; a line is its position
          closed,    \* the client closed its end of our stdin
          gone,      \* the client closed its end of our stdout: it is dead
          taken,     \* lines that pump_client_to_server read
          forwarded, \* lines it wrote to the child's stdin
          refused,   \* lines it answered with an error
          audited,   \* lines with an audit event
          feeder,    \* where pump_client_to_server is
          hungup,    \* the child's stdin is closed
          consumed,  \* lines the child read from its stdin
          wrote,     \* per stream, sizes of the lines the child wrote
          pulled,    \* per stream, lines its pump read
          pump,      \* per stream, where its pump is
          shown,     \* how many lines were written to our stdout
          received,  \* how many of them the client read
          loop,      \* "free", or the pump whose write to our stdout blocks
          child,     \* "running" or "exited"
          main       \* "running", "ended", or "interrupted"

client == <<sent, closed, gone, received>>
feeding == <<taken, forwarded, refused, audited, feeder, hungup>>
server == <<consumed, wrote, child>>
serving == <<pulled, pump>>
vars == <<client, feeding, server, serving, shown, loop, main>>

Init ==
    /\ sent = <<>> /\ closed = FALSE /\ gone = FALSE /\ received = 0
    /\ taken = 0 /\ forwarded = <<>> /\ refused = <<>> /\ audited = {}
    /\ feeder = "reading" /\ hungup = FALSE
    /\ consumed = 0 /\ wrote = [st \in Streams |-> <<>>] /\ child = "running"
    /\ pulled = [st \in Streams |-> 0] /\ pump = [st \in Streams |-> "reading"]
    /\ shown = 0 /\ loop = "free" /\ main = "running"

Running == main = "running" /\ loop = "free"
-----------------------------------------------------------------------------
(* The client.                                                             *)
ClientSends(k) ==
    /\ main = "running" /\ ~closed
    /\ Len(sent) < MaxLines
    /\ Len(sent) - taken < PipeHolds
    /\ sent' = Append(sent, k)
    /\ UNCHANGED <<closed, gone, received, feeding, server, serving, shown, loop, main>>

ClientCloses ==
    /\ main = "running" /\ ~closed
    /\ closed' = TRUE
    /\ UNCHANGED <<sent, gone, received, feeding, server, serving, shown, loop, main>>

ClientReads ==
    /\ ~gone
    /\ received < shown
    /\ received' = received + 1
    /\ loop' = "free"
    /\ UNCHANGED <<sent, closed, gone, feeding, server, serving, shown, main>>

(* Both its ends are closed; a write that waited for it to read raises in  *)
(* its pump.                                                               *)
ClientQuits ==
    /\ MayQuit /\ main = "running" /\ ~gone
    /\ gone' = TRUE
    /\ closed' = TRUE
    /\ loop' = "free"
    /\ feeder' = IF loop = "feeder" THEN "failed" ELSE feeder
    /\ pump' = IF loop = "stdout" THEN [pump EXCEPT !["stdout"] = "failed"] ELSE pump
    /\ UNCHANGED <<sent, received, taken, forwarded, refused, audited, hungup,
                   server, pulled, shown, main>>
-----------------------------------------------------------------------------
(* pump_client_to_server.                                                  *)

(* route_message: what is forwarded, and what carries a method to audit.   *)
Denied(k) == k \in {"denied", "unnamed"}
Forwards(k) == k \in {"plain", "allowed"} \/ (Denied(k) /\ Mode = "audit")
HasMethod(k) == k \in {"allowed", "denied"}

(* readline returns the next line.                                         *)
Take(k) ==
    /\ Running /\ feeder = "reading"
    /\ taken < Len(sent)
    /\ k = sent[taken + 1]
    /\ taken' = taken + 1

(* [variant] only what the policy denies is logged.                        *)
AuditDenials(k) == audited' = IF k = "denied" THEN audited \cup {taken + 1} ELSE audited

Audit(k) == audited' = IF HasMethod(k) THEN audited \cup {taken + 1} ELSE audited

(* [variant] the pump does not wait for the child.                         *)
ForwardWithoutDrain(k) ==
    /\ Take(k)
    /\ Forwards(k)
    /\ Audit(k)
    /\ forwarded' = Append(forwarded, taken + 1)
    /\ UNCHANGED <<refused, feeder, hungup, client, server, serving, shown, loop, main>>

(* The line is audited, if it has a method, and written to the child;      *)
(* drain suspends the pump while too much is waiting there, and may raise  *)
(* when the child is dead.                                                 *)
Forward(k) ==
    /\ Take(k)
    /\ Forwards(k)
    /\ Audit(k)
    /\ forwarded' = Append(forwarded, taken + 1)
    /\ \/ feeder' = IF Len(forwarded) - consumed < HighWater THEN "reading" ELSE "draining"
       \/ child = "exited" /\ feeder' = "failed"
    /\ UNCHANGED <<refused, hungup, client, server, serving, shown, loop, main>>

Drained ==
    /\ Running /\ feeder = "draining"
    /\ \/ Len(forwarded) - consumed <= HighWater /\ feeder' = "reading"
       \/ child = "exited" /\ feeder' = "failed"
    /\ UNCHANGED <<taken, forwarded, refused, audited, hungup,
                   client, server, serving, shown, loop, main>>

(* A line on our stdout: it blocks the loop when the client is behind.     *)
WriteClient(who) ==
    /\ shown' = shown + 1
    /\ loop' = IF shown - received < PipeHolds THEN "free" ELSE who

(* [variant] a denied line is dropped.                                     *)
DenySilently(k) ==
    /\ Take(k)
    /\ Denied(k) /\ ~Forwards(k)
    /\ Audit(k)
    /\ UNCHANGED <<forwarded, refused, feeder, hungup, client, server, serving, shown, loop, main>>

(* The line is audited, if it has a method, and answered with an error.    *)
Deny(k) ==
    /\ Take(k)
    /\ Denied(k) /\ ~Forwards(k)
    /\ Audit(k)
    /\ IF gone
       THEN feeder' = "failed" /\ UNCHANGED <<refused, shown, loop>>
       ELSE /\ refused' = Append(refused, taken + 1)
            /\ WriteClient("feeder")
            /\ UNCHANGED feeder
    /\ UNCHANGED <<forwarded, hungup, client, server, serving, main>>

(* [variant] a line that cannot be routed is passed over.                  *)
SkipLine(k) ==
    /\ Take(k)
    /\ k \in {"malformed", "long"}
    /\ UNCHANGED <<forwarded, refused, audited, feeder, hungup,
                   client, server, serving, shown, loop, main>>

(* [variant] ... or is passed through.                                     *)
PassThrough(k) ==
    /\ Take(k)
    /\ k \in {"malformed", "long"}
    /\ forwarded' = Append(forwarded, taken + 1)
    /\ UNCHANGED <<refused, audited, feeder, hungup,
                   client, server, serving, shown, loop, main>>

(* readline or route_message raises: the pump is over, nobody notices.     *)
FeederRaises(k) ==
    /\ Take(k)
    /\ k \in {"malformed", "long"}
    /\ feeder' = "failed"
    /\ UNCHANGED <<forwarded, refused, audited, hungup,
                   client, server, serving, shown, loop, main>>

(* [variant] the end of the input ends the pump and no more.               *)
EofKeepsStdinOpen ==
    /\ Running /\ feeder = "reading"
    /\ closed /\ taken = Len(sent)
    /\ feeder' = "done"
    /\ UNCHANGED <<taken, forwarded, refused, audited, hungup,
                   client, server, serving, shown, loop, main>>

(* End of the client's input: the child's stdin is closed behind the last  *)
(* line written to it.                                                     *)
FeederEof ==
    /\ Running /\ feeder = "reading"
    /\ closed /\ taken = Len(sent)
    /\ feeder' = "done"
    /\ hungup' = TRUE
    /\ UNCHANGED <<taken, forwarded, refused, audited,
                   client, server, serving, shown, loop, main>>

FeederStep ==
    \/ \E k \in Inputs : Forward(k) \/ Deny(k) \/ FeederRaises(k)
    \/ Drained \/ FeederEof
-----------------------------------------------------------------------------
(* pump_server_to_client and pump_stderr.                                  *)
PullLine(st, size) ==
    /\ Running /\ pump[st] = "reading"
    /\ pulled[st] < Len(wrote[st])
    /\ size = wrote[st][pulled[st] + 1]
    /\ pulled' = [pulled EXCEPT ![st] = @ + 1]

PumpAnswer ==
    /\ PullLine("stdout", "short")
    /\ IF gone
       THEN pump' = [pump EXCEPT !["stdout"] = "failed"] /\ UNCHANGED <<shown, loop>>
       ELSE WriteClient("stdout") /\ UNCHANGED pump
    /\ UNCHANGED <<client, feeding, server, main>>

PumpLog ==
    /\ PullLine("stderr", "short")
    /\ UNCHANGED <<pump, client, feeding, server, shown, loop, main>>

(* readline raises on a line over 64 KiB: the pump is over.                *)
PumpRaises(st) ==
    /\ PullLine(st, "long")
    /\ pump' = [pump EXCEPT ![st] = "failed"]
    /\ UNCHANGED <<client, feeding, server, shown, loop, main>>

PumpEof(st) ==
    /\ Running /\ pump[st] = "reading"
    /\ child = "exited" /\ pulled[st] = Len(wrote[st])
    /\ pump' = [pump EXCEPT ![st] = "done"]
    /\ UNCHANGED <<pulled, client, feeding, server, shown, loop, main>>

PumpStep(st) ==
    \/ st = "stdout" /\ PumpAnswer
    \/ st = "stderr" /\ PumpLog
    \/ PumpRaises(st) \/ PumpEof(st)
-----------------------------------------------------------------------------
(* The child: it answers one line after the other, writes to its stderr,   *)
(* exits at the end of its stdin, and waits when a pipe is full.           *)
HasRoom(st) == Len(wrote[st]) - pulled[st] < PipeHolds

ChildAnswers(size) ==
    /\ main = "running" /\ child = "running"
    /\ consumed < Len(forwarded)
    /\ HasRoom("stdout")
    /\ consumed' = consumed + 1
    /\ wrote' = [wrote EXCEPT !["stdout"] = Append(@, size)]
    /\ UNCHANGED <<child, client, feeding, serving, shown, loop, main>>

ChildLogs(size) ==
    /\ main = "running" /\ child = "running"
    /\ Len(wrote["stderr"]) < MaxLogs
    /\ HasRoom("stderr")
    /\ wrote' = [wrote EXCEPT !["stderr"] = Append(@, size)]
    /\ UNCHANGED <<consumed, child, client, feeding, serving, shown, loop, main>>

ChildExits ==
    /\ main = "running" /\ child = "running"
    /\ hungup /\ consumed = Len(forwarded)
    /\ child' = "exited"
    /\ UNCHANGED <<consumed, wrote, client, feeding, serving, shown, loop, main>>

ChildCrashes ==
    /\ MayCrash /\ main = "running" /\ child = "running"
    /\ child' = "exited"
    /\ UNCHANGED <<consumed, wrote, client, feeding, serving, shown, loop, main>>

ChildWorks == (\E size \in Sizes : ChildAnswers(size)) \/ ChildExits
-----------------------------------------------------------------------------
(* The main coroutine.                                                     *)

(* [variant] wait returns when the process is dead.                        *)
WaitReturnsAtOnce == child = "exited"

(* [variant] the wrapper waits for all three pumps.                        *)
WaitForPumps ==
    /\ child = "exited"
    /\ feeder \in {"done", "failed"}
    /\ \A st \in Streams : pump[st] \in {"done", "failed"}

(* proc.wait of asyncio returns when the process is dead and its pipes are *)
(* closed: the loop has read a stream to its end.  Where no pump reads any *)
(* more, it stops reading when the StreamReader is full.                   *)
WaitReturns ==
    /\ child = "exited"
    /\ \A st \in Streams :
          \/ pump[st] = "done"
          \/ pump[st] = "failed" /\ Len(wrote[st]) - pulled[st] <= ReaderHolds

CancelPumps ==
    /\ feeder' = IF feeder \in {"reading", "draining"} THEN "cancelled" ELSE feeder
    /\ pump' = [st \in Streams |-> IF pump[st] = "reading" THEN "cancelled" ELSE pump[st]]

MainEnds ==
    /\ Running
    /\ WaitReturns
    /\ main' = "ended"
    /\ hungup' = TRUE
    /\ CancelPumps
    /\ UNCHANGED <<taken, forwarded, refused, audited, pulled, client, server, shown, loop>>

(* SIGINT: main and the pumps are cancelled where they wait.               *)
Interrupted ==
    /\ MayCrash /\ Running
    /\ main' = "interrupted"
    /\ hungup' = TRUE
    /\ CancelPumps
    /\ UNCHANGED <<taken, forwarded, refused, audited, pulled, client, server, shown, loop>>

(* The wrapper is over.                                                    *)
Over ==
    /\ main # "running"
    /\ UNCHANGED vars

Next ==
    \/ \E k \in Inputs : ClientSends(k)
    \/ ClientCloses \/ ClientReads \/ ClientQuits
    \/ FeederStep
    \/ \E st \in Streams : PumpStep(st)
    \/ \E size \in Sizes : ChildLogs(size)
    \/ ChildWorks \/ ChildCrashes
    \/ MainEnds \/ Interrupted \/ Over

Spec == Init /\ [][Next]_vars

(* The event loop serves every pump that can go on, the client reads its   *)
(* stdin, and the child works off its own.                                 *)
FairSpec ==
    /\ Spec
    /\ WF_vars(FeederStep) /\ WF_vars(PumpStep("stdout")) /\ WF_vars(PumpStep("stderr"))
    /\ WF_vars(ChildWorks) /\ WF_vars(ClientReads) /\ WF_vars(MainEnds)
-----------------------------------------------------------------------------
(* The types of the variables; no count is ahead of its history.           *)
TypeOK ==
    /\ sent \in Seq(Inputs) /\ closed \in BOOLEAN /\ gone \in BOOLEAN
    /\ taken \in 0..Len(sent)
    /\ forwarded \in Seq(1..taken) /\ refused \in Seq(1..taken)
    /\ audited \subseteq 1..taken
    /\ feeder \in {"reading", "draining", "done", "failed", "cancelled"}
    /\ hungup \in BOOLEAN
    /\ consumed \in 0..Len(forwarded)
    /\ wrote \in [Streams -> Seq(Sizes)]
    /\ pulled \in [Streams -> Nat] /\ \A st \in Streams : pulled[st] <= Len(wrote[st])
    /\ pump \in [Streams -> {"reading", "done", "failed", "cancelled"}]
    /\ shown \in Nat /\ received \in 0..shown
    /\ loop \in {"free", "feeder", "stdout"}
    /\ child \in {"running", "exited"}
    /\ main \in {"running", "ended", "interrupted"}

(* Client, policy and child together are a channel that filters lines: all *)
(* that may pass reaches the child's stdin, once and in order, nothing     *)
(* else does, the rest is answered with an error, whatever dies, blocks or *)
(* is interrupted; only the line a pump broke on is missing.               *)
(* (stdio.py 166-184)                                                      *)
Channel ==
    INSTANCE FilteredChannel WITH
        Kinds <- Inputs, Passable <- {k \in Inputs : Forwards(k)},
        passed <- forwarded, broken <- feeder = "failed"

ImplementsFilteredChannel == Channel!Spec

(* Each line that was taken is forwarded, refused, or the one a pump broke *)
(* on; in the order they were sent, once. (stdio.py 166-184)               *)
LinesAccounted == Channel!Accounted

(* Every call of a named tool that was decided is in the audit log, and    *)
(* nothing else: none reaches the child, or is refused, without its event, *)
(* also when the wrapper is cancelled while it waits. (stdio.py 172-182)   *)
CallsAudited ==
    /\ audited = {n \in 1..taken : HasMethod(sent[n])}
    /\ \A i \in 1..consumed : HasMethod(sent[forwarded[i]]) => forwarded[i] \in audited

(* A slow child or client holds up the lines instead of piling them up in  *)
(* the wrapper. (stdio.py 159-164, 177-180)                                *)
Backpressure ==
    /\ Len(forwarded) - consumed <= HighWater + 1
    /\ shown - received <= PipeHolds + 1

(* When the wrapper ends of its own, everything the child wrote to its     *)
(* stdout was passed on, unless nobody could read it or a pump had broken: *)
(* cancelling the pumps cuts off no answer. (stdio.py 208-211)             *)
NoAnswerLost ==
    main = "ended" /\ pump["stdout"] # "failed"
        => pulled["stdout"] = Len(wrote["stdout"])

(* Someone in or around the wrapper has something to do: the client to     *)
(* read, a pump to go on, the child to answer or to exit, main to end.     *)
SomeoneMoves ==
    \/ ~gone /\ received < shown
    \/ child = "running" /\ consumed < Len(forwarded) /\ HasRoom("stdout")
    \/ child = "running" /\ consumed = Len(forwarded) /\ hungup
    \/ /\ loop = "free"
       /\ \/ feeder = "reading" /\ (taken < Len(sent) \/ closed)
          \/ feeder = "draining" /\ (Len(forwarded) - consumed <= HighWater \/ child = "exited")
          \/ \E st \in Streams : pump[st] = "reading" /\ (pulled[st] < Len(wrote[st]) \/ child = "exited")
          \/ WaitReturns

(* What a pump breaks on: a line that it cannot read or route, or the      *)
(* stdout of a client that is dead.                                        *)
FeederBroke ==
    feeder = "failed" /\ (gone \/ (taken > 0 /\ sent[taken] \in {"malformed", "long"}))

PumpBroke(st) ==
    pump[st] = "failed" /\ (gone \/ (pulled[st] > 0 /\ wrote[st][pulled[st]] = "long"))

(* Client, pumps and child, each of which may wait for another with a full *)
(* pipe before it, never wait for each other in a circle: as long as the   *)
(* wrapper runs, something can be done, or the client is to send its next  *)
(* line, or a pump broke on one of the things that break it.               *)
(* (stdio.py 149-211)                                                      *)
NoStandstill ==
    main = "running" =>
        \/ SomeoneMoves
        \/ feeder = "reading" /\ taken = Len(sent) /\ ~closed
        \/ FeederBroke \/ \E st \in Streams : PumpBroke(st)

(* Every line the client sends is forwarded or refused, unless the wrapper *)
(* is over before. (stdio.py 166-184)                                      *)
Settled(n) ==
    \/ \E i \in DOMAIN forwarded : forwarded[i] = n
    \/ \E i \in DOMAIN refused : refused[i] = n

EveryLineSettled ==
    \A n \in 1..MaxLines : n <= Len(sent) ~> (Settled(n) \/ main # "running")

(* "Run the stdio wrapper until the client or child server closes":        *)
(* when the client closes its end, the child gets to its end, and the      *)
(* wrapper ends. (stdio.py 141-147, 208)                                   *)
EndsWithClient == closed ~> main # "running"

(* The same when the child is dead. (stdio.py 141-147, 208)                *)
EndsWithChild == child = "exited" ~> main # "running"
=============================================================================
