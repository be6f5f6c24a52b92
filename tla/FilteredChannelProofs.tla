------------------------ MODULE FilteredChannelProofs ------------------------
(***************************************************************************)
(* The filtering channel accounts for every line it took.                  *)
(***************************************************************************)
EXTENDS FilteredChannel, TLAPS

TypeOK ==
    /\ sent \in Seq(Kinds)
    /\ taken \in Nat /\ taken <= Len(sent)
    /\ passed \in Seq(1..taken) /\ refused \in Seq(1..taken)
    /\ broken \in BOOLEAN

(* Appending the line just taken keeps a sequence of lines increasing, and *)
(* adds that line to it.                                                   *)
LEMMA AppendTaken ==
    ASSUME NEW n \in Nat, NEW seq \in Seq(1..n), Increasing(seq)
    PROVE  /\ Append(seq, n + 1) \in Seq(1..(n + 1)) /\ seq \in Seq(1..(n + 1))
           /\ Increasing(Append(seq, n + 1))
           /\ Lines(Append(seq, n + 1)) = Lines(seq) \cup {n + 1}
<1> DEFINE longer == Append(seq, n + 1)
<1>1. /\ Len(seq) \in Nat /\ DOMAIN seq = 1..Len(seq) /\ \A i \in 1..Len(seq) : seq[i] \in 1..n
  OBVIOUS
<1>2. /\ DOMAIN longer = 1..(Len(seq) + 1)
      /\ \A i \in 1..Len(seq) : longer[i] = seq[i]
      /\ longer[Len(seq) + 1] = n + 1
  BY <1>1
<1>3. 1..n \subseteq 1..(n + 1) /\ n + 1 \in 1..(n + 1)
  OBVIOUS
<1>4. seq \in Seq(1..(n + 1)) /\ longer \in Seq(1..(n + 1))
  BY <1>3
<1> HIDE DEF longer
<1>5. Increasing(longer)
  BY <1>1, <1>2 DEF Increasing
<1>6. Lines(longer) = Lines(seq) \cup {n + 1}
  <2>1. 1..(Len(seq) + 1) = 1..Len(seq) \cup {Len(seq) + 1}
    BY <1>1
  <2> QED
    BY <1>1, <1>2, <2>1 DEF Lines
<1> QED
  BY <1>4, <1>5, <1>6 DEF longer

LEMMA StepAccounted == ASSUME TypeOK, Accounted, [Next]_vars PROVE TypeOK' /\ Accounted'
<1> USE DEF TypeOK, Accounted
<1>1. ASSUME NEW k \in Kinds, Send(k) PROVE TypeOK' /\ Accounted'
  <2>1. sent' \in Seq(Kinds) /\ Len(sent') = Len(sent) + 1 /\ \A n \in 1..taken : sent'[n] = sent[n]
    BY <1>1 DEF Send
  <2>2. UNCHANGED <<taken, passed, refused, broken>>
    BY <1>1 DEF Send
  <2>3. Len(sent) \in Nat
    OBVIOUS
  <2>4. TypeOK'
    BY <2>1, <2>2, <2>3
  <2>5. Accounted'
    BY <2>1, <2>2 DEF Increasing, Lines
  <2> QED
    BY <2>4, <2>5
<1>2. ASSUME Take PROVE /\ ~broken /\ taken' = taken + 1 /\ sent' = sent
                        /\ 1..taken' = 1..taken \cup {taken + 1}
                        /\ taken' \in Nat /\ taken' <= Len(sent)
  BY <1>2 DEF Take
<1>3. CASE Pass
  <2>1. passed' = Append(passed, taken + 1) /\ refused' = refused /\ broken' \in BOOLEAN
    BY <1>3 DEF Pass
  <2>2. /\ passed' \in Seq(1..taken') /\ Increasing(passed')
        /\ Lines(passed') = Lines(passed) \cup {taken + 1} /\ refused' \in Seq(1..taken')
    BY <1>2, <1>3, <2>1, AppendTaken DEF Pass
  <2>3. sent[taken + 1] \in Passable
    BY <1>3 DEF Pass
  <2>4. TypeOK'
    BY <1>2, <1>3, <2>1, <2>2 DEF Pass
  <2>5. Accounted'
    BY <1>2, <1>3, <2>1, <2>2, <2>3 DEF Pass, Lines, Increasing
  <2> QED
    BY <2>4, <2>5
<1>4. CASE Refuse
  <2>1. refused' = Append(refused, taken + 1) /\ passed' = passed /\ broken' = broken
    BY <1>4 DEF Refuse
  <2>2. /\ refused' \in Seq(1..taken') /\ Increasing(refused')
        /\ Lines(refused') = Lines(refused) \cup {taken + 1} /\ passed' \in Seq(1..taken')
    BY <1>2, <1>4, <2>1, AppendTaken DEF Refuse
  <2>3. sent[taken + 1] \notin Passable
    BY <1>4 DEF Refuse
  <2>4. TypeOK'
    BY <1>2, <1>4, <2>1, <2>2 DEF Refuse
  <2>5. Accounted'
    BY <1>2, <1>4, <2>1, <2>2, <2>3 DEF Refuse, Lines, Increasing
  <2> QED
    BY <2>4, <2>5
<1>5. CASE Break
  <2>1. passed' = passed /\ refused' = refused /\ broken' = TRUE
    BY <1>5 DEF Break
  <2>2. CASE Take
    <3>1. passed' \in Seq(1..taken') /\ refused' \in Seq(1..taken')
      BY <1>2, <2>1, <2>2, AppendTaken
    <3>2. TypeOK'
      BY <1>2, <2>1, <2>2, <3>1
    <3>3. Accounted'
      BY <1>2, <2>1, <2>2 DEF Lines, Increasing
    <3> QED
      BY <3>2, <3>3
  <2>3. CASE UNCHANGED <<sent, taken>>
    BY <2>1, <2>3 DEF Lines, Increasing
  <2> QED
    BY <1>5, <2>2, <2>3 DEF Break
<1>6. CASE UNCHANGED vars
  BY <1>6 DEF vars, Lines, Increasing
<1> QED
  BY <1>1, <1>3, <1>4, <1>5, <1>6 DEF Next

(* Nothing that may not pass is passed on, nothing that may is refused,    *)
(* and no line is lost, doubled or overtaken, except the one the channel   *)
(* breaks on.                                                              *)
THEOREM AllAccounted == Spec => []Accounted
<1>1. Init => TypeOK /\ Accounted
  <2> SUFFICES ASSUME Init PROVE TypeOK /\ Accounted
    OBVIOUS
  <2>1. <<>> \in Seq(Kinds) /\ <<>> \in Seq(1..0) /\ Len(<<>>) = 0 /\ DOMAIN <<>> = {} /\ 1..0 = {}
    OBVIOUS
  <2>2. 0 \in Nat /\ 0 <= 0 /\ FALSE \in BOOLEAN
    OBVIOUS
  <2>3. TypeOK
    BY <2>1, <2>2, Zenon DEF Init, TypeOK
  <2>4. Accounted
    BY <2>1 DEF Init, Accounted, Increasing, Lines
  <2> QED
    BY <2>3, <2>4
<1>2. TypeOK /\ Accounted /\ [Next]_vars => (TypeOK /\ Accounted)'
  BY StepAccounted
<1> QED
  BY <1>1, <1>2, PTL DEF Spec
=============================================================================
