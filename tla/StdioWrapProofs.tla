--------------------------- MODULE StdioWrapProofs ---------------------------
(***************************************************************************)
(* Theorems about StdioWrap, for every number of lines and size of pipe.   *)
(***************************************************************************)
EXTENDS StdioWrap, TLAPS

(* Every step of the wrapper and of what is around it is a step of the     *)
(* filtering channel, or none.                                             *)
LEMMA StepRefines == ASSUME [Next]_vars PROVE [Channel!Next]_(Channel!vars)
<1> USE DEF Channel!Next, Channel!vars
<1>1. ASSUME NEW k \in Inputs, ClientSends(k) PROVE Channel!Send(k)
  BY <1>1 DEF ClientSends, Channel!Send, feeding
<1>2. ASSUME ClientCloses \/ ClientReads PROVE UNCHANGED Channel!vars
  BY <1>2 DEF ClientCloses, ClientReads, feeding
<1>3. ASSUME ClientQuits PROVE UNCHANGED Channel!vars \/ Channel!Break
  BY <1>3 DEF ClientQuits, Channel!Break
<1>4. ASSUME NEW k \in Inputs, Forward(k) PROVE Channel!Pass
  BY <1>4 DEF Forward, Take, Channel!Pass, Channel!Take, client
<1>5. ASSUME NEW k \in Inputs, Deny(k) PROVE Channel!Refuse \/ Channel!Break
  <2>1. Channel!Take
    BY <1>5 DEF Deny, Take, Channel!Take, client
  <2>2. CASE gone
    BY <1>5, <2>1, <2>2 DEF Deny, Channel!Break
  <2>3. CASE ~gone
    <3>1. sent[taken + 1] \notin {j \in Inputs : Forwards(j)}
      BY <1>5 DEF Deny, Take
    <3> QED
      BY <1>5, <2>1, <2>3, <3>1 DEF Deny, Channel!Refuse
  <2> QED
    BY <2>2, <2>3
<1>6. ASSUME NEW k \in Inputs, FeederRaises(k) PROVE Channel!Break
  BY <1>6 DEF FeederRaises, Take, Channel!Break, Channel!Take, client
<1>7. ASSUME Drained PROVE UNCHANGED Channel!vars \/ Channel!Break
  BY <1>7 DEF Drained, Channel!Break, client
<1>8. ASSUME FeederEof PROVE UNCHANGED Channel!vars
  BY <1>8 DEF FeederEof, client
<1>9. ASSUME NEW st \in Streams, PumpStep(st) PROVE UNCHANGED Channel!vars
  BY <1>9 DEF PumpStep, PumpAnswer, PumpLog, PumpRaises, PumpEof, client, feeding
<1>10. ASSUME \/ \E size \in Sizes : ChildLogs(size)
              \/ ChildWorks \/ ChildCrashes
       PROVE  UNCHANGED Channel!vars
  BY <1>10 DEF ChildLogs, ChildWorks, ChildAnswers, ChildExits, ChildCrashes, client, feeding
<1>11. ASSUME MainEnds \/ Interrupted PROVE UNCHANGED Channel!vars
  BY <1>11 DEF MainEnds, Interrupted, CancelPumps, client
<1>12. ASSUME UNCHANGED vars PROVE UNCHANGED Channel!vars
  BY <1>12 DEF vars, client, feeding
<1> QED
  BY <1>1, <1>2, <1>3, <1>4, <1>5, <1>6, <1>7, <1>8, <1>9, <1>10, <1>11, <1>12
  DEF Next, FeederStep, Over

(* The wrapper is a channel that filters lines. (stdio.py 166-184)         *)
THEOREM Refinement == Spec => ImplementsFilteredChannel
<1>1. Init => Channel!Init
  BY DEF Init, Channel!Init
<1>2. [Next]_vars => [Channel!Next]_(Channel!vars)
  BY StepRefines
<1> QED
  BY <1>1, <1>2, PTL DEF Spec, ImplementsFilteredChannel, Channel!Spec
(* What is known of the filtering channel, for the lines of the wrapper.   *)
Theory ==
    INSTANCE FilteredChannelProofs WITH
        Kinds <- Inputs, Passable <- {k \in Inputs : Forwards(k)},
        passed <- forwarded, broken <- feeder = "failed"

(* All that may pass reaches the child's stdin once and in order, nothing  *)
(* else does, the rest is answered with an error; only a line that a pump  *)
(* broke on is missing. (stdio.py 166-184)                                 *)
THEOREM NoLineLost == Spec => []LinesAccounted
<1>1. Init => Theory!Init
  BY DEF Init, Theory!Init
<1>2. [Next]_vars => [Theory!Next]_(Theory!vars)
  <2>1. [Channel!Next]_(Channel!vars) => [Theory!Next]_(Theory!vars)
    BY DEF Channel!Next, Channel!vars, Channel!Send, Channel!Take, Channel!Pass,
           Channel!Refuse, Channel!Break, Theory!Next, Theory!vars, Theory!Send,
           Theory!Take, Theory!Pass, Theory!Refuse, Theory!Break
  <2> QED
    BY <2>1, StepRefines
<1>3. Theory!Accounted => LinesAccounted
  BY DEF LinesAccounted, Theory!Accounted, Channel!Accounted, Theory!Increasing,
         Channel!Increasing, Theory!Lines, Channel!Lines
<1>4. Theory!Spec => []Theory!Accounted
  BY Theory!AllAccounted
<1> QED
  BY <1>1, <1>2, <1>3, <1>4, PTL DEF Spec, Theory!Spec
-----------------------------------------------------------------------------
(* Type correctness, in parts: the client and the lines it sent ...        *)
ClientTypeOK ==
    /\ sent \in Seq(Inputs) /\ closed \in BOOLEAN /\ gone \in BOOLEAN
    /\ shown \in Nat /\ received \in 0..shown
    /\ loop \in {"free", "feeder", "stdout"}

(* ... what became of them ...                                             *)
FeederTypeOK ==
    /\ taken \in 0..Len(sent)
    /\ forwarded \in Seq(1..taken) /\ refused \in Seq(1..taken)
    /\ audited \subseteq 1..taken
    /\ feeder \in {"reading", "draining", "done", "failed", "cancelled"}
    /\ hungup \in BOOLEAN
    /\ consumed \in 0..Len(forwarded)

(* ... and what the child wrote.                                           *)
ServerTypeOK ==
    /\ wrote \in [Streams -> Seq(Sizes)]
    /\ pulled \in [Streams -> Nat] /\ \A st \in Streams : pulled[st] <= Len(wrote[st])
    /\ pump \in [Streams -> {"reading", "done", "failed", "cancelled"}]
    /\ child \in {"running", "exited"}
    /\ main \in {"running", "ended", "interrupted"}

LEMMA TypeParts == TypeOK <=> ClientTypeOK /\ FeederTypeOK /\ ServerTypeOK
BY DEF TypeOK, ClientTypeOK, FeederTypeOK, ServerTypeOK

(* Sequences of lines stay such when more lines were taken, and when the   *)
(* line just taken is appended.                                            *)
LEMMA TakenGrows ==
    ASSUME NEW n \in Nat, NEW seq \in Seq(1..n)
    PROVE  /\ seq \in Seq(1..(n + 1))
           /\ Append(seq, n + 1) \in Seq(1..(n + 1))
           /\ Len(Append(seq, n + 1)) = Len(seq) + 1
<1>1. 1..n \subseteq 1..(n + 1)
  OBVIOUS
<1>2. seq \in Seq(1..(n + 1))
  BY <1>1
<1> QED
  BY <1>2

LEMMA ClientTyped == ASSUME TypeOK, [Next]_vars PROVE ClientTypeOK'
<1> USE DEF ClientTypeOK, TypeOK
<1>1. CASE \E k \in Inputs : ClientSends(k)
  BY <1>1 DEF ClientSends
<1>2. CASE ClientCloses \/ ClientQuits
  BY <1>2 DEF ClientCloses, ClientQuits
<1>21. CASE ClientReads
  <2>1. received' \in 0..shown
    BY <1>21 DEF ClientReads
  <2> QED
    BY <1>21, <2>1 DEF ClientReads
<1>3. CASE FeederStep
  BY <1>3 DEF FeederStep, Forward, Deny, FeederRaises, Drained, FeederEof, WriteClient, client
<1>4. CASE \E st \in Streams : PumpStep(st)
  BY <1>4 DEF PumpStep, PumpAnswer, PumpLog, PumpRaises, PumpEof, WriteClient, client
<1>5. CASE (\E size \in Sizes : ChildLogs(size)) \/ ChildWorks \/ ChildCrashes
  BY <1>5 DEF ChildLogs, ChildWorks, ChildAnswers, ChildExits, ChildCrashes, client
<1>6. CASE MainEnds \/ Interrupted
  BY <1>6 DEF MainEnds, Interrupted, client
<1>7. CASE UNCHANGED vars
  BY <1>7 DEF vars, client
<1> QED
  BY <1>1, <1>2, <1>21, <1>3, <1>4, <1>5, <1>6, <1>7 DEF Next, Over

LEMMA FeederTyped == ASSUME TypeOK, [Next]_vars PROVE FeederTypeOK'
<1> USE DEF FeederTypeOK, TypeOK
<1>1. CASE \E k \in Inputs : ClientSends(k)
  BY <1>1 DEF ClientSends, feeding, server
<1>2. CASE ClientCloses \/ ClientReads \/ ClientQuits
  BY <1>2 DEF ClientCloses, ClientReads, ClientQuits, feeding, server
<1>3. ASSUME NEW k \in Inputs, Forward(k) \/ Deny(k) \/ FeederRaises(k)
      PROVE  FeederTypeOK'
  <2>1. taken \in Nat /\ taken' = taken + 1 /\ taken' \in 0..Len(sent)
    BY <1>3 DEF Forward, Deny, FeederRaises, Take
  <2>2. UNCHANGED <<sent, consumed, hungup>>
    BY <1>3 DEF Forward, Deny, FeederRaises, client, server
  <2>3. forwarded' = forwarded \/ forwarded' = Append(forwarded, taken + 1)
    BY <1>3 DEF Forward, Deny, FeederRaises
  <2>31. forwarded' \in Seq(1..taken') /\ Len(forwarded') \in Nat /\ Len(forwarded') >= Len(forwarded)
    <3>1. forwarded \in Seq(1..taken) /\ Len(forwarded) \in Nat
      OBVIOUS
    <3>2. /\ forwarded \in Seq(1..taken')
          /\ Append(forwarded, taken + 1) \in Seq(1..taken')
          /\ Len(Append(forwarded, taken + 1)) = Len(forwarded) + 1
      BY <2>1, <3>1, TakenGrows
    <3>3. CASE forwarded' = forwarded
      BY <3>1, <3>2, <3>3
    <3>4. CASE forwarded' = Append(forwarded, taken + 1)
      BY <3>1, <3>2, <3>4
    <3> QED
      BY <2>3, <3>3, <3>4
  <2>4. refused' \in Seq(1..taken')
    BY <1>3, <2>1, TakenGrows DEF Forward, Deny, FeederRaises
  <2>5. audited' \subseteq audited \cup {taken + 1}
    BY <1>3 DEF Forward, Deny, FeederRaises, Audit
  <2>51. audited' \subseteq 1..taken'
    BY <2>1, <2>5
  <2>6. feeder' \in {"reading", "draining", "done", "failed", "cancelled"}
    BY <1>3 DEF Forward, Deny, FeederRaises
  <2> QED
    BY <2>1, <2>2, <2>31, <2>4, <2>51, <2>6
<1>4. CASE Drained \/ FeederEof
  BY <1>4 DEF Drained, FeederEof, client, server
<1>5. CASE \E st \in Streams : PumpStep(st)
  BY <1>5 DEF PumpStep, PumpAnswer, PumpLog, PumpRaises, PumpEof, client, feeding, server
<1>6. CASE (\E size \in Sizes : ChildLogs(size)) \/ ChildExits \/ ChildCrashes
  BY <1>6 DEF ChildLogs, ChildExits, ChildCrashes, client, feeding
<1>61. CASE \E size \in Sizes : ChildAnswers(size)
  <2>1. consumed' \in 0..Len(forwarded)
    BY <1>61 DEF ChildAnswers
  <2> QED
    BY <1>61, <2>1 DEF ChildAnswers, client, feeding
<1>7. CASE MainEnds \/ Interrupted
  BY <1>7 DEF MainEnds, Interrupted, CancelPumps, client, server
<1>8. CASE UNCHANGED vars
  BY <1>8 DEF vars, client, feeding, server
<1> QED
  BY <1>1, <1>2, <1>3, <1>4, <1>5, <1>6, <1>61, <1>7, <1>8
  DEF Next, FeederStep, ChildWorks, Over

LEMMA ServerTyped == ASSUME TypeOK, [Next]_vars PROVE ServerTypeOK'
<1> USE DEF ServerTypeOK, TypeOK
<1>1. CASE (\E k \in Inputs : ClientSends(k)) \/ ClientCloses \/ ClientReads
  BY <1>1 DEF ClientSends, ClientCloses, ClientReads, server, serving
<1>2. CASE ClientQuits
  BY <1>2 DEF ClientQuits, server
<1>3. CASE FeederStep
  BY <1>3 DEF FeederStep, Forward, Deny, FeederRaises, Drained, FeederEof, server, serving
<1>4. ASSUME NEW st \in Streams, PumpStep(st) PROVE ServerTypeOK'
  <2>1. UNCHANGED <<wrote, child, main>>
    BY <1>4 DEF PumpStep, PumpAnswer, PumpLog, PumpRaises, PumpEof, server
  <2>2. \/ pump' = pump
        \/ pump' = [pump EXCEPT ![st] = "failed"]
        \/ pump' = [pump EXCEPT ![st] = "done"]
    BY <1>4 DEF PumpStep, PumpAnswer, PumpLog, PumpRaises, PumpEof
  <2>3. pump' \in [Streams -> {"reading", "done", "failed", "cancelled"}]
    BY <2>2
  <2>4. \/ pulled' = pulled
        \/ pulled[st] < Len(wrote[st]) /\ pulled' = [pulled EXCEPT ![st] = @ + 1]
    BY <1>4 DEF PumpStep, PumpAnswer, PumpLog, PumpRaises, PumpEof, PullLine
  <2>5. Len(wrote[st]) \in Nat /\ pulled[st] \in Nat
    OBVIOUS
  <2>6. pulled' \in [Streams -> Nat]
    <3>1. CASE pulled' = pulled
      BY <3>1
    <3>2. CASE pulled' = [pulled EXCEPT ![st] = @ + 1]
      <4>1. pulled[st] + 1 \in Nat
        BY <2>5
      <4> HIDE <1>4
      <4> QED
        BY <3>2, <4>1
    <3> QED
      BY <2>4, <3>1, <3>2
  <2>7. ASSUME NEW o \in Streams PROVE pulled'[o] <= Len(wrote[o])
    <3>1. CASE o = st
      BY <2>4, <2>5, <3>1
    <3>2. CASE o # st
      <4>1. pulled'[o] = pulled[o]
        BY <2>4, <3>2
      <4> QED
        BY <4>1
    <3> QED
      BY <3>1, <3>2
  <2> QED
    BY <2>1, <2>3, <2>6, <2>7
<1>5. ASSUME NEW size \in Sizes, ChildAnswers(size) \/ ChildLogs(size) PROVE ServerTypeOK'
  <2>1. PICK st \in Streams : wrote' = [wrote EXCEPT ![st] = Append(@, size)]
    BY <1>5 DEF ChildAnswers, ChildLogs, Streams
  <2>2. wrote' \in [Streams -> Seq(Sizes)]
    BY <2>1
  <2>3. \A o \in Streams : Len(wrote'[o]) \in Nat /\ Len(wrote'[o]) >= Len(wrote[o])
    BY <2>1
  <2>4. UNCHANGED <<pulled, pump, main>> /\ UNCHANGED child
    BY <1>5 DEF ChildAnswers, ChildLogs, serving
  <2> QED
    BY <2>2, <2>3, <2>4
<1>6. CASE ChildExits \/ ChildCrashes
  BY <1>6 DEF ChildExits, ChildCrashes, serving
<1>7. CASE MainEnds \/ Interrupted
  BY <1>7 DEF MainEnds, Interrupted, CancelPumps, server
<1>8. CASE UNCHANGED vars
  BY <1>8 DEF vars, server, serving
<1> QED
  BY <1>1, <1>2, <1>3, <1>4, <1>5, <1>6, <1>7, <1>8 DEF Next, ChildWorks, Over

(* Every reachable state of the wrapper is well typed.                     *)
THEOREM TypeCorrect == Spec => []TypeOK
<1>1. ASSUME Init PROVE TypeOK
  <2>1. <<>> \in Seq(Inputs) /\ <<>> \in Seq(1..0) /\ <<>> \in Seq(Sizes) /\ Len(<<>>) = 0
    OBVIOUS
  <2>2. wrote \in [Streams -> Seq(Sizes)] /\ \A st \in Streams : wrote[st] = <<>>
    BY <1>1 DEF Init
  <2>30. 0 \in Nat /\ 0 \in 0..0 /\ {} \subseteq 1..0 /\ FALSE \in BOOLEAN
    OBVIOUS
  <2>3. ClientTypeOK
    BY <1>1, <2>1, <2>30, Zenon DEF Init, ClientTypeOK
  <2>4. FeederTypeOK
    BY <1>1, <2>1, <2>30, Zenon DEF Init, FeederTypeOK
  <2>5. ServerTypeOK
    BY <1>1, <2>1, <2>2 DEF Init, ServerTypeOK
  <2> QED
    BY <2>3, <2>4, <2>5, TypeParts
<1>2. TypeOK /\ [Next]_vars => TypeOK'
  BY ClientTyped, FeederTyped, ServerTyped, TypeParts
  DEF TypeOK, ClientTypeOK, FeederTypeOK, ServerTypeOK
<1> QED
  BY <1>1, <1>2, PTL DEF Spec
-----------------------------------------------------------------------------
(* No call without its audit event. (stdio.py 172-182)                     *)
AuditInv == audited = {n \in 1..taken : HasMethod(sent[n])}

LEMMA AuditStep == ASSUME TypeOK, AuditInv, [Next]_vars PROVE AuditInv'
<1> USE DEF AuditInv
<1>0. taken \in Nat /\ taken <= Len(sent) /\ sent \in Seq(Inputs)
  BY DEF TypeOK
<1>1. ASSUME NEW k \in Inputs, ClientSends(k) PROVE AuditInv'
  <2>1. \A n \in 1..taken : sent'[n] = sent[n]
    BY <1>0, <1>1 DEF ClientSends
  <2>2. taken' = taken /\ audited' = audited
    BY <1>1 DEF ClientSends, feeding
  <2> QED
    BY <2>1, <2>2 DEF HasMethod
<1>2. ASSUME NEW k \in Inputs, Forward(k) \/ Deny(k) PROVE AuditInv'
  <2>1. taken' = taken + 1 /\ sent' = sent /\ k = sent[taken + 1]
    BY <1>2 DEF Forward, Deny, Take, client
  <2>2. audited' = IF HasMethod(k) THEN audited \cup {taken + 1} ELSE audited
    BY <1>2 DEF Forward, Deny, Audit
  <2>3. 1..(taken + 1) = 1..taken \cup {taken + 1}
    BY <1>0
  <2> QED
    BY <2>1, <2>2, <2>3
<1>3. ASSUME NEW k \in Inputs, FeederRaises(k) PROVE AuditInv'
  <2>1. taken' = taken + 1 /\ sent' = sent /\ k = sent[taken + 1] /\ audited' = audited
    BY <1>3 DEF FeederRaises, Take, client
  <2>2. ~HasMethod(sent[taken + 1])
    BY <1>3, <2>1 DEF FeederRaises, HasMethod
  <2>3. 1..(taken + 1) = 1..taken \cup {taken + 1}
    BY <1>0
  <2> QED
    BY <2>1, <2>2, <2>3
<1>4. ASSUME \/ ClientCloses \/ ClientReads \/ ClientQuits \/ Drained \/ FeederEof
             \/ \E st \in Streams : PumpStep(st)
             \/ \E size \in Sizes : ChildLogs(size)
             \/ ChildWorks \/ ChildCrashes \/ MainEnds \/ Interrupted \/ UNCHANGED vars
      PROVE  AuditInv'
  <2>1. sent' = sent /\ taken' = taken /\ audited' = audited
    BY <1>4 DEF ClientCloses, ClientReads, ClientQuits, Drained, FeederEof, PumpStep, PumpAnswer,
                PumpLog, PumpRaises, PumpEof, ChildLogs, ChildWorks, ChildAnswers, ChildExits,
                ChildCrashes, MainEnds, Interrupted, vars, client, feeding
  <2> QED
    BY <2>1
<1> QED
  BY <1>1, <1>2, <1>3, <1>4 DEF Next, FeederStep, Over

(* Whatever of it the child reads or the wrapper answers, a decided call   *)
(* is in the audit log. (stdio.py 172-182)                                 *)
THEOREM NoCallUnlogged == Spec => []CallsAudited
<1>1. Init => AuditInv
  BY DEF Init, AuditInv
<1>2. TypeOK /\ AuditInv /\ [Next]_vars => AuditInv'
  BY AuditStep
<1>3. ASSUME TypeOK, AuditInv PROVE CallsAudited
  <2>1. \A i \in 1..consumed : forwarded[i] \in 1..taken
    BY <1>3 DEF TypeOK
  <2> QED
    BY <1>3, <2>1 DEF AuditInv, CallsAudited
<1> QED
  BY <1>1, <1>2, <1>3, TypeCorrect, PTL DEF Spec
-----------------------------------------------------------------------------
(* A pump of a stream that is done has read all of it, for the child can   *)
(* add nothing; and the wrapper ends only behind such pumps, or broken     *)
(* ones.                                                                   *)
DoneInv ==
    /\ pump["stdout"] = "done" => child = "exited" /\ pulled["stdout"] = Len(wrote["stdout"])
    /\ main = "ended" => pump["stdout"] \in {"done", "failed"}

LEMMA DoneStep == ASSUME TypeOK, DoneInv, [Next]_vars PROVE DoneInv'
<1> USE DEF DoneInv
<1>0. /\ "stdout" \in Streams /\ "stderr" \in Streams /\ "stdout" # "stderr"
      /\ pump \in [Streams -> {"reading", "done", "failed", "cancelled"}]
  BY DEF Streams, TypeOK
<1>1. ASSUME \/ \E k \in Inputs : ClientSends(k)
             \/ ClientCloses \/ ClientReads \/ FeederStep \/ UNCHANGED vars
      PROVE  DoneInv'
  BY <1>1 DEF ClientSends, ClientCloses, ClientReads, FeederStep, Forward, Deny, FeederRaises,
              Drained, FeederEof, vars, serving, server
<1>2. CASE ClientQuits
  <2>1. pump'["stdout"] \in {pump["stdout"], "failed"}
    BY <1>0, <1>2 DEF ClientQuits
  <2> QED
    BY <1>2, <2>1 DEF ClientQuits, server
<1>3. ASSUME NEW st \in Streams, PumpStep(st) PROVE DoneInv'
  <2>1. main = "running" /\ main' = main /\ UNCHANGED server
    BY <1>3 DEF PumpStep, PumpAnswer, PumpLog, PumpRaises, PumpEof, PullLine, Running
  <2>2. CASE PumpAnswer \/ PumpLog \/ PumpRaises(st)
    <3>1. pump["stdout"] # "done" \/ pulled'["stdout"] = pulled["stdout"]
      BY <1>0, <2>2 DEF PumpAnswer, PumpLog, PumpRaises, PullLine, TypeOK, Streams
    <3>2. pump'["stdout"] \in {pump["stdout"], "failed"}
      BY <1>0, <2>2 DEF PumpAnswer, PumpLog, PumpRaises
    <3> QED
      BY <2>1, <3>1, <3>2 DEF server
  <2>3. CASE PumpEof(st)
    BY <1>0, <2>1, <2>3 DEF PumpEof, server, Streams
  <2> QED
    BY <1>3, <2>2, <2>3 DEF PumpStep
<1>4. ASSUME NEW size \in Sizes, ChildAnswers(size) \/ ChildLogs(size) PROVE DoneInv'
  BY <1>4 DEF ChildAnswers, ChildLogs, serving
<1>5. CASE ChildExits \/ ChildCrashes
  BY <1>5 DEF ChildExits, ChildCrashes, serving
<1>6. CASE MainEnds
  <2>1. pump["stdout"] \in {"done", "failed"}
    BY <1>0, <1>6 DEF MainEnds, WaitReturns
  <2>2. pump'["stdout"] = pump["stdout"]
    BY <1>0, <1>6, <2>1 DEF MainEnds, CancelPumps
  <2> QED
    BY <1>6, <2>1, <2>2 DEF MainEnds, server
<1>7. CASE Interrupted
  <2>1. pump'["stdout"] \in {pump["stdout"], "cancelled"}
    BY <1>0, <1>7 DEF Interrupted, CancelPumps
  <2> QED
    BY <1>7, <2>1 DEF Interrupted, server
<1> QED
  BY <1>1, <1>2, <1>3, <1>4, <1>5, <1>6, <1>7 DEF Next, ChildWorks, Over

(* Cancelling the pumps at the end cuts off no answer. (stdio.py 208-211)  *)
THEOREM AnswersKept == Spec => []NoAnswerLost
<1>1. Init => DoneInv
  BY DEF Init, DoneInv, Streams
<1>2. TypeOK /\ DoneInv /\ [Next]_vars => DoneInv'
  BY DoneStep
<1>3. DoneInv => NoAnswerLost
  BY DEF DoneInv, NoAnswerLost
<1> QED
  BY <1>1, <1>2, <1>3, TypeCorrect, PTL DEF Spec
-----------------------------------------------------------------------------
(* A pump that may write has not yet reached the mark that suspends it.    *)
RoomInv ==
    /\ Len(forwarded) - consumed <= HighWater + 1
    /\ feeder = "reading" => Len(forwarded) - consumed <= HighWater
    /\ shown - received <= PipeHolds + 1
    /\ loop = "free" /\ ~gone => shown - received <= PipeHolds

LEMMA RoomStep == ASSUME TypeOK, RoomInv, [Next]_vars PROVE RoomInv'
<1> USE DEF RoomInv
<1>0. /\ Len(forwarded) \in Nat /\ consumed \in Nat /\ shown \in Nat /\ received \in Nat
      /\ HighWater \in Nat /\ PipeHolds \in Nat
  BY WrapAssumption DEF TypeOK
<1>1. ASSUME \/ \E k \in Inputs : ClientSends(k)
             \/ ClientCloses \/ FeederEof \/ UNCHANGED vars
             \/ \E k \in Inputs : FeederRaises(k)
      PROVE  RoomInv'
  BY <1>1 DEF ClientSends, ClientCloses, FeederEof, FeederRaises, vars, client, feeding, server
<1>2. CASE ClientReads \/ ClientQuits
  BY <1>0, <1>2 DEF ClientReads, ClientQuits, feeding, server
<1>3. ASSUME NEW k \in Inputs, Forward(k) PROVE RoomInv'
  <2>1. Len(forwarded') = Len(forwarded) + 1 /\ feeder = "reading"
    BY <1>3 DEF Forward, Take, TypeOK
  <2>2. UNCHANGED <<consumed, shown, received, loop, gone>>
    BY <1>3 DEF Forward, client, server
  <2>3. feeder' = "reading" => Len(forwarded) - consumed < HighWater
    BY <1>3 DEF Forward
  <2> QED
    BY <1>0, <2>1, <2>2, <2>3
<1>4. CASE Drained
  BY <1>0, <1>4 DEF Drained, client, server
<1>5. ASSUME NEW k \in Inputs, Deny(k) PROVE RoomInv'
  BY <1>0, <1>5 DEF Deny, Take, Running, WriteClient, client, server
<1>6. ASSUME NEW st \in Streams, PumpStep(st) PROVE RoomInv'
  BY <1>0, <1>6 DEF PumpStep, PumpAnswer, PumpLog, PumpRaises, PumpEof, PullLine, Running,
                    WriteClient, client, feeding, server
<1>7. CASE (\E size \in Sizes : ChildLogs(size) \/ ChildAnswers(size)) \/ ChildExits \/ ChildCrashes
  BY <1>0, <1>7 DEF ChildLogs, ChildAnswers, ChildExits, ChildCrashes, client, feeding
<1>8. CASE MainEnds \/ Interrupted
  BY <1>0, <1>8 DEF MainEnds, Interrupted, CancelPumps, client, server
<1> QED
  BY <1>1, <1>2, <1>3, <1>4, <1>5, <1>6, <1>7, <1>8 DEF Next, FeederStep, ChildWorks, Over

(* Nothing piles up in the wrapper. (stdio.py 159-164, 177-180)            *)
THEOREM NothingPilesUp == Spec => []Backpressure
<1>1. Init => RoomInv
  BY WrapAssumption DEF Init, RoomInv
<1>2. TypeOK /\ RoomInv /\ [Next]_vars => RoomInv'
  BY RoomStep
<1>3. RoomInv => Backpressure
  BY DEF RoomInv, Backpressure
<1> QED
  BY <1>1, <1>2, <1>3, TypeCorrect, PTL DEF Spec
-----------------------------------------------------------------------------
(* Who may wait for whom: a write that blocks is one that the client can   *)
(* end, a pump that is at its end has told so to the child, or heard so of *)
(* it, and one that is over otherwise has broken on something.             *)
WaitInv ==
    /\ loop # "free" => ~gone /\ received < shown
    /\ main = "running" => feeder # "cancelled" /\ \A st \in Streams : pump[st] # "cancelled"
    /\ feeder = "done" => hungup
    /\ feeder = "failed" => child = "exited" \/ FeederBroke
    /\ \A st \in Streams : /\ pump[st] = "done" => child = "exited"
                           /\ pump[st] = "failed" => PumpBroke(st)

(* Lines are written behind those that are there.                          *)
LEMMA LinesStay ==
    ASSUME TypeOK, [Next]_vars
    PROVE  /\ \A n \in 1..Len(sent) : sent'[n] = sent[n]
           /\ \A st \in Streams : \A n \in 1..Len(wrote[st]) : wrote'[st][n] = wrote[st][n]
<1>0. /\ "stdout" \in Streams /\ "stderr" \in Streams
      /\ sent \in Seq(Inputs) /\ wrote \in [Streams -> Seq(Sizes)]
  BY DEF Streams, TypeOK
<1>1. ASSUME NEW k \in Inputs, ClientSends(k) PROVE \A n \in 1..Len(sent) : sent'[n] = sent[n]
  BY <1>0, <1>1 DEF ClientSends
<1>2. (\E k \in Inputs : ClientSends(k)) \/ sent' = sent
  BY DEF Next, ClientCloses, ClientReads, ClientQuits, FeederStep, Forward, Deny, FeederRaises, Drained,
         FeederEof, PumpStep, PumpAnswer, PumpLog, PumpRaises, PumpEof, ChildWorks, ChildAnswers,
         ChildLogs, ChildExits, ChildCrashes, MainEnds, Interrupted, Over, vars, client
<1>3. ASSUME NEW st \in Streams, NEW o \in Streams, NEW size \in Sizes, NEW n \in 1..Len(wrote[st]),
             wrote' = [wrote EXCEPT ![o] = Append(@, size)]
      PROVE  wrote'[st][n] = wrote[st][n]
  <2>1. CASE st = o
    BY <1>0, <1>3, <2>1
  <2>2. CASE st # o
    BY <1>0, <1>3, <2>2
  <2> QED
    BY <2>1, <2>2
<1>4. \/ \E o \in Streams, size \in Sizes : wrote' = [wrote EXCEPT ![o] = Append(@, size)]
      \/ wrote' = wrote
  BY <1>0 DEF Next, ClientSends, ClientCloses, ClientReads, ClientQuits, FeederStep, Forward, Deny,
         FeederRaises, Drained, FeederEof, PumpStep, PumpAnswer, PumpLog, PumpRaises, PumpEof, ChildWorks,
         ChildAnswers, ChildLogs, ChildExits, ChildCrashes, MainEnds, Interrupted, Over, vars, server
<1> QED
  BY <1>1, <1>2, <1>3, <1>4

(* What broke stays broken, and for its reason.                            *)
LEMMA BrokenStays ==
    ASSUME TypeOK, [Next]_vars, gone => gone'
    PROVE  /\ FeederBroke /\ taken' = taken /\ feeder' = "failed" => FeederBroke'
           /\ \A st \in Streams :
                 PumpBroke(st) /\ pulled'[st] = pulled[st] /\ pump'[st] = "failed" => PumpBroke(st)'
<1>1. taken \in 0..Len(sent) /\ Len(sent) \in Nat
  BY DEF TypeOK
<1>2. FeederBroke /\ taken' = taken /\ feeder' = "failed" => FeederBroke'
  BY <1>1, LinesStay DEF FeederBroke
<1>3. ASSUME NEW st \in Streams, PumpBroke(st), pulled'[st] = pulled[st], pump'[st] = "failed"
      PROVE  PumpBroke(st)'
  <2>1. pulled[st] \in Nat /\ pulled[st] <= Len(wrote[st]) /\ Len(wrote[st]) \in Nat
    BY DEF TypeOK
  <2>2. pulled[st] > 0 => wrote'[st][pulled[st]] = wrote[st][pulled[st]]
    BY <2>1, LinesStay
  <2> QED
    BY <1>3, <2>2 DEF PumpBroke
<1> QED
  BY <1>2, <1>3

LEMMA WaitStep == ASSUME TypeOK, WaitInv, [Next]_vars PROVE WaitInv'
<1>0. /\ "stdout" \in Streams /\ "stderr" \in Streams /\ "stdout" # "stderr"
      /\ pump \in [Streams -> {"reading", "done", "failed", "cancelled"}]
      /\ pulled \in [Streams -> Nat] /\ shown \in Nat /\ received \in Nat /\ received <= shown
      /\ PipeHolds \in Nat /\ taken \in Nat
  BY WrapAssumption DEF Streams, TypeOK
<1>g. gone => gone'
  BY DEF Next, ClientSends, ClientCloses, ClientReads, ClientQuits, FeederStep, Forward, Deny,
         FeederRaises, Drained, FeederEof, PumpStep, PumpAnswer, PumpLog, PumpRaises, PumpEof, ChildWorks,
         ChildAnswers, ChildLogs, ChildExits, ChildCrashes, MainEnds, Interrupted, Over, vars, client
<1>f. FeederBroke /\ taken' = taken /\ feeder' = "failed" => FeederBroke'
  BY <1>g, BrokenStays
<1>p. \A st \in Streams :
         PumpBroke(st) /\ pulled'[st] = pulled[st] /\ pump'[st] = "failed" => PumpBroke(st)'
  BY <1>g, BrokenStays
<1>1. ASSUME UNCHANGED <<loop, main, feeder, pump, hungup, taken, pulled, shown>>, gone' = gone,
             received' = received, child = "exited" => child' = "exited"
      PROVE  WaitInv'
  BY <1>1, <1>f, <1>p DEF WaitInv
<1>2. CASE (\E k \in Inputs : ClientSends(k)) \/ ClientCloses
  BY <1>1, <1>2 DEF ClientSends, ClientCloses, feeding, serving, server
<1>3. CASE (\E size \in Sizes : ChildLogs(size) \/ ChildAnswers(size)) \/ ChildExits \/ ChildCrashes
  BY <1>1, <1>3 DEF ChildLogs, ChildAnswers, ChildExits, ChildCrashes, client, feeding, serving
<1>4. CASE ClientReads
  BY <1>4, <1>f, <1>p DEF ClientReads, feeding, server, serving, WaitInv
<1>5. CASE ClientQuits
  <2>1. gone' /\ loop' = "free" /\ UNCHANGED <<taken, hungup, child, pulled, main>>
    BY <1>5 DEF ClientQuits, server
  <2>2. feeder' = feeder \/ feeder' = "failed"
    BY <1>5 DEF ClientQuits
  <2>3. \A st \in Streams : pump'[st] = pump[st] \/ pump'[st] = "failed"
    BY <1>0, <1>5 DEF ClientQuits
  <2>4. feeder' = "failed" => FeederBroke'
    BY <2>1 DEF FeederBroke
  <2>5. \A st \in Streams : pump'[st] = "failed" => PumpBroke(st)'
    BY <2>1 DEF PumpBroke
  <2> QED
    BY <2>1, <2>2, <2>3, <2>4, <2>5 DEF WaitInv
<1>6. ASSUME NEW k \in Inputs, Forward(k) PROVE WaitInv'
  <2>1. /\ UNCHANGED <<hungup, gone, received, child, pulled, pump, shown, loop, main>>
        /\ \/ feeder' \in {"reading", "draining"}
           \/ child = "exited" /\ feeder' = "failed"
    BY <1>6 DEF Forward, client, server, serving
  <2> QED
    BY <2>1, <1>p DEF WaitInv
<1>7. CASE Drained
  <2>1. /\ UNCHANGED <<hungup, gone, received, child, pulled, pump, shown, loop, main>>
        /\ \/ feeder' = "reading"
           \/ child = "exited" /\ feeder' = "failed"
    BY <1>7 DEF Drained, client, server, serving
  <2> QED
    BY <2>1, <1>p DEF WaitInv
<1>8. ASSUME NEW k \in Inputs, Deny(k) PROVE WaitInv'
  <2>1. /\ UNCHANGED <<hungup, gone, received, child, pulled, pump, main>>
        /\ feeder = "reading" /\ loop = "free"
    BY <1>8 DEF Deny, Take, Running, client, server, serving
  <2>2. CASE gone
    <3>1. feeder' = "failed" /\ UNCHANGED <<shown, loop>>
      BY <1>8, <2>2 DEF Deny
    <3>2. FeederBroke'
      BY <2>1, <2>2, <3>1 DEF FeederBroke
    <3> QED
      BY <2>1, <3>1, <3>2, <1>p DEF WaitInv
  <2>3. CASE ~gone
    <3>1. feeder' = "reading" /\ shown' = shown + 1
      BY <1>8, <2>1, <2>3 DEF Deny, WriteClient
    <3>2. received' < shown'
      BY <1>0, <2>1, <3>1
    <3> QED
      BY <2>1, <2>3, <3>1, <3>2, <1>p DEF WaitInv
  <2> QED
    BY <2>2, <2>3
<1>9. ASSUME NEW k \in Inputs, FeederRaises(k) PROVE WaitInv'
  <2>1. /\ UNCHANGED <<sent, hungup, gone, received, child, pulled, pump, shown, loop, main>>
        /\ feeder' = "failed" /\ taken' = taken + 1
        /\ sent[taken + 1] \in {"malformed", "long"}
    BY <1>9 DEF FeederRaises, Take, client, server, serving
  <2>2. FeederBroke'
    BY <1>0, <2>1 DEF FeederBroke
  <2> QED
    BY <2>1, <2>2, <1>p DEF WaitInv
<1>10. CASE FeederEof
  <2>1. /\ UNCHANGED <<gone, received, child, pulled, pump, shown, loop, main>>
        /\ feeder' = "done" /\ hungup'
    BY <1>10 DEF FeederEof, client, server, serving
  <2> QED
    BY <2>1, <1>p DEF WaitInv
<1>11. CASE PumpAnswer
  <2>1. /\ UNCHANGED <<gone, received, child, hungup, feeder, taken, main>>
        /\ loop = "free" /\ pump["stdout"] = "reading" /\ pulled'["stderr"] = pulled["stderr"]
    BY <1>0, <1>11 DEF PumpAnswer, PullLine, Running, client, feeding, server
  <2>2. CASE gone
    <3>1. UNCHANGED <<shown, loop>> /\ pump' = [pump EXCEPT !["stdout"] = "failed"]
      BY <1>11, <2>2 DEF PumpAnswer
    <3>2. PumpBroke("stdout")' /\ pump'["stderr"] = pump["stderr"] /\ pump'["stdout"] = "failed"
      BY <1>0, <2>1, <2>2, <3>1 DEF PumpBroke
    <3>3. \A st \in Streams : /\ pump'[st] = "done" => child' = "exited"
                              /\ pump'[st] = "failed" => PumpBroke(st)'
                              /\ pump'[st] = "cancelled" => pump[st] = "cancelled"
      BY <1>0, <1>p, <2>1, <3>2 DEF WaitInv, Streams
    <3> QED
      BY <2>1, <3>1, <3>3, <1>f DEF WaitInv
  <2>3. CASE ~gone
    <3>1. pump' = pump /\ shown' = shown + 1
      BY <1>11, <2>3 DEF PumpAnswer, WriteClient
    <3>2. received' < shown'
      BY <1>0, <2>1, <3>1
    <3>3. \A st \in Streams : pump[st] = "failed" => PumpBroke(st)'
      BY <1>0, <1>p, <2>1, <3>1 DEF WaitInv, Streams
    <3> QED
      BY <2>1, <2>3, <3>1, <3>2, <3>3, <1>f DEF WaitInv
  <2> QED
    BY <2>2, <2>3
<1>12. CASE PumpLog
  <2>1. /\ UNCHANGED <<gone, received, child, hungup, feeder, taken, main, pump, shown, loop>>
        /\ pump["stderr"] = "reading" /\ pulled'["stdout"] = pulled["stdout"]
    BY <1>0, <1>12 DEF PumpLog, PullLine, client, feeding, server
  <2>2. \A st \in Streams : pump[st] = "failed" => PumpBroke(st)'
    BY <1>0, <1>p, <2>1 DEF WaitInv, Streams
  <2> QED
    BY <2>1, <2>2, <1>f DEF WaitInv
<1>13. ASSUME NEW st \in Streams, PumpRaises(st) PROVE WaitInv'
  <2>1. /\ UNCHANGED <<gone, received, child, hungup, feeder, taken, main, shown, loop, wrote>>
        /\ pump' = [pump EXCEPT ![st] = "failed"]
        /\ pulled' = [pulled EXCEPT ![st] = @ + 1] /\ wrote[st][pulled[st] + 1] = "long"
    BY <1>13 DEF PumpRaises, PullLine, client, feeding, server
  <2>2. pulled'[st] = pulled[st] + 1 /\ pulled'[st] > 0
    BY <1>0, <2>1
  <2>3. PumpBroke(st)'
    BY <1>0, <2>1, <2>2 DEF PumpBroke
  <2>4. \A o \in Streams \ {st} : pump'[o] = pump[o] /\ pulled'[o] = pulled[o]
    BY <1>0, <2>1
  <2>5. \A o \in Streams : /\ pump'[o] = "done" => child' = "exited"
                           /\ pump'[o] = "failed" => PumpBroke(o)'
                           /\ pump'[o] = "cancelled" => pump[o] = "cancelled"
    BY <1>0, <1>p, <2>1, <2>3, <2>4 DEF WaitInv
  <2> QED
    BY <2>1, <2>5, <1>f DEF WaitInv
<1>14. ASSUME NEW st \in Streams, PumpEof(st) PROVE WaitInv'
  <2>1. /\ UNCHANGED <<gone, received, child, hungup, feeder, taken, main, shown, loop, pulled>>
        /\ pump' = [pump EXCEPT ![st] = "done"] /\ child = "exited"
    BY <1>14 DEF PumpEof, client, feeding, server
  <2>2. \A o \in Streams : /\ pump'[o] = "failed" => PumpBroke(o)'
                           /\ pump'[o] = "cancelled" => pump[o] = "cancelled"
    BY <1>0, <1>p, <2>1 DEF WaitInv
  <2> QED
    BY <2>1, <2>2, <1>f DEF WaitInv
<1>15. CASE MainEnds \/ Interrupted
  <2>1. /\ UNCHANGED <<gone, received, child, taken, shown, loop, pulled>>
        /\ main' # "running" /\ hungup' /\ CancelPumps
    BY <1>15 DEF MainEnds, Interrupted, client, server
  <2>2. /\ feeder' = feeder \/ feeder' = "cancelled"
        /\ \A st \in Streams : pump'[st] = pump[st] \/ pump'[st] = "cancelled"
    BY <2>1 DEF CancelPumps
  <2> QED
    BY <2>1, <2>2, <1>f, <1>p DEF WaitInv
<1>16. CASE UNCHANGED vars
  BY <1>1, <1>16 DEF vars, client, feeding, server, serving
<1> QED
  BY <1>2, <1>3, <1>4, <1>5, <1>6, <1>7, <1>8, <1>9, <1>10, <1>11, <1>12, <1>13, <1>14, <1>15, <1>16
  DEF Next, FeederStep, PumpStep, ChildWorks, Over

(* No circle: who waits does so for somebody that has something to do.     *)
LEMMA NoCircle == ASSUME TypeOK, WaitInv PROVE NoStandstill
<1> SUFFICES ASSUME main = "running", ~SomeoneMoves, ~FeederBroke, \A st \in Streams : ~PumpBroke(st)
             PROVE  feeder = "reading" /\ taken = Len(sent) /\ ~closed
  BY DEF NoStandstill
<1>0. /\ Len(forwarded) \in Nat /\ consumed \in Nat /\ consumed <= Len(forwarded)
      /\ Len(sent) \in Nat /\ taken \in Nat /\ taken <= Len(sent)
      /\ HighWater \in Nat /\ PipeHolds \in Nat \ {0}
      /\ \A st \in Streams : /\ pump[st] \in {"reading", "done", "failed", "cancelled"}
                             /\ Len(wrote[st]) \in Nat /\ pulled[st] \in Nat /\ pulled[st] <= Len(wrote[st])
      /\ feeder \in {"reading", "draining", "done", "failed", "cancelled"}
      /\ child \in {"running", "exited"} /\ "stdout" \in Streams
      /\ closed \in BOOLEAN /\ hungup \in BOOLEAN
  BY WrapAssumption DEF TypeOK, Streams
<1>1. loop = "free"
  BY DEF WaitInv, SomeoneMoves
<1>2. \A st \in Streams : pump[st] \in {"reading", "done"}
  BY <1>0 DEF WaitInv
<1>3. child = "running"
  <2> SUFFICES ASSUME child = "exited" PROVE FALSE
    BY <1>0
  <2>1. \A st \in Streams : pump[st] = "done"
    BY <1>1, <1>2 DEF SomeoneMoves
  <2> QED
    BY <1>1, <2>1 DEF WaitReturns, SomeoneMoves
<1>4. pump["stdout"] = "reading" /\ pulled["stdout"] = Len(wrote["stdout"])
  BY <1>0, <1>1, <1>2, <1>3 DEF WaitInv, SomeoneMoves
<1>5. HasRoom("stdout")
  BY <1>0, <1>4 DEF HasRoom
<1>6. consumed = Len(forwarded) /\ ~hungup
  BY <1>0, <1>3, <1>5 DEF SomeoneMoves
<1>7. feeder \in {"reading", "draining"}
  BY <1>0, <1>3, <1>6 DEF WaitInv
<1>8. feeder # "draining"
  BY <1>0, <1>1, <1>6 DEF SomeoneMoves
<1> QED
  BY <1>0, <1>1, <1>7, <1>8 DEF SomeoneMoves

(* The wrapper, its client and its child never wait for each other in a    *)
(* circle, however small the pipes. (stdio.py 149-211)                     *)
THEOREM NoCircularWait == Spec => []NoStandstill
<1>1. Init => WaitInv
  BY DEF Init, WaitInv
<1>2. TypeOK /\ WaitInv /\ [Next]_vars => WaitInv'
  BY WaitStep
<1>3. TypeOK /\ WaitInv => NoStandstill
  BY NoCircle
<1> QED
  BY <1>1, <1>2, <1>3, TypeCorrect, PTL DEF Spec
=============================================================================
