---------------------------- MODULE ProxyAppProofs ----------------------------
(***************************************************************************)
(* Theorems about the HTTP proxy and its audit sinks, for every number of  *)
(* requests, every list of agents, and every failure of a write, a POST,   *)
(* the target or the process.                                              *)
(***************************************************************************)
EXTENDS ProxyApp, SequenceTheorems, TLAPS

(* Types of the sinks.  Positions grows with every write.                  *)

LEMMA Longer ==
    ASSUME NEW n \in Nat
    PROVE  /\ 1..n \subseteq 1..(n + 1) /\ n + 1 \in 1..(n + 1) /\ n + 1 \notin 1..n
           /\ 1..(n + 1) = 1..n \cup {n + 1}
OBVIOUS

LEMMA Offering ==
    ASSUME SinkTypeOK, NEW e \in Events, Write(e)
    PROVE  /\ Len(offered) \in Nat /\ Len(offered') = Len(offered) + 1
           /\ Positions = 1..Len(offered) /\ Positions' = 1..(Len(offered) + 1)
           /\ offered' \in Seq(Events)
           /\ DOMAIN offered' = DOMAIN offered \cup {Len(offered) + 1}
           /\ Len(offered) + 1 \notin DOMAIN offered
           /\ \A i \in DOMAIN offered : offered'[i] = offered[i]
           /\ offered'[Len(offered) + 1] = e
<1>1. offered \in Seq(Events) /\ offered' = Append(offered, e)
  BY DEF SinkTypeOK, Write
<1> QED
  BY <1>1 DEF Positions

LEMMA Elements_ ==
    ASSUME NEW S, NEW seq \in Seq(S), NEW x, NEW T
    PROVE  /\ Elements(seq) \subseteq S
           /\ Elements(<<>>) = {}
           /\ Elements(Append(seq, x)) = Elements(seq) \cup {x}
           /\ seq # <<>> => Elements(seq) = Elements(Tail(seq)) \cup {Head(seq)}
<1>1. Elements(seq) \subseteq S
  BY DEF Elements
<1>2. Elements(<<>>) = {}
  BY DEF Elements
<1>3. Elements(Append(seq, x)) = Elements(seq) \cup {x}
  <2>1. /\ DOMAIN seq = 1..Len(seq) /\ Len(seq) \in Nat
        /\ DOMAIN Append(seq, x) = 1..(Len(seq) + 1)
        /\ \A i \in 1..Len(seq) : Append(seq, x)[i] = seq[i]
        /\ Append(seq, x)[Len(seq) + 1] = x
    OBVIOUS
  <2>2. 1..(Len(seq) + 1) = 1..Len(seq) \cup {Len(seq) + 1}
    BY <2>1
  <2> QED
    BY <2>1, <2>2 DEF Elements
<1>4. ASSUME seq # <<>> PROVE Elements(seq) = Elements(Tail(seq)) \cup {Head(seq)}
  <2>1. /\ DOMAIN seq = 1..Len(seq) /\ Len(seq) \in Nat /\ Len(seq) >= 1
        /\ Head(seq) = seq[1]
        /\ DOMAIN Tail(seq) = 1..(Len(seq) - 1)
        /\ \A i \in 1..(Len(seq) - 1) : Tail(seq)[i] = seq[i + 1]
    BY <1>4
  <2>2. \A i \in 1..Len(seq) : i = 1 \/ (i - 1 \in 1..(Len(seq) - 1) /\ (i - 1) + 1 = i)
    BY <2>1
  <2>3. Elements(seq) \subseteq Elements(Tail(seq)) \cup {Head(seq)}
    <3>1. ASSUME NEW i \in 1..Len(seq) PROVE seq[i] \in Elements(Tail(seq)) \cup {Head(seq)}
      <4>1. CASE i = 1
        BY <2>1, <4>1
      <4>2. CASE i - 1 \in 1..(Len(seq) - 1) /\ (i - 1) + 1 = i
        <5>1. seq[i] = Tail(seq)[i - 1] /\ i - 1 \in DOMAIN Tail(seq)
          BY <2>1, <4>2
        <5> QED
          BY <5>1 DEF Elements
      <4> QED
        BY <2>2, <4>1, <4>2
    <3> QED
      BY <2>1, <3>1 DEF Elements
  <2>4. \A i \in 1..(Len(seq) - 1) : i + 1 \in 1..Len(seq)
    BY <2>1
  <2>5. Elements(Tail(seq)) \cup {Head(seq)} \subseteq Elements(seq)
    BY <2>1, <2>4 DEF Elements
  <2> QED
    BY <2>3, <2>5
<1> QED
  BY <1>1, <1>2, <1>3, <1>4

LEMMA ElementsOfBoth ==
    ASSUME NEW S, NEW s \in Seq(S), NEW t \in Seq(S)
    PROVE  Elements(s \o t) = Elements(s) \cup Elements(t)
<1>1. /\ DOMAIN s = 1..Len(s) /\ DOMAIN t = 1..Len(t) /\ Len(s) \in Nat /\ Len(t) \in Nat
      /\ DOMAIN (s \o t) = 1..(Len(s) + Len(t))
      /\ \A i \in 1..(Len(s) + Len(t)) : (s \o t)[i] = IF i <= Len(s) THEN s[i] ELSE t[i - Len(s)]
  BY ConcatProperties
<1>2. \A i \in 1..(Len(s) + Len(t)) : i \in 1..Len(s) \/ (i > Len(s) /\ i - Len(s) \in 1..Len(t))
  BY <1>1
<1>3. Elements(s \o t) \subseteq Elements(s) \cup Elements(t)
  BY <1>1, <1>2 DEF Elements
<1>4. \A i \in 1..Len(s) : i \in 1..(Len(s) + Len(t)) /\ i <= Len(s)
  BY <1>1
<1>5. \A i \in 1..Len(t) : /\ i + Len(s) \in 1..(Len(s) + Len(t))
                           /\ ~(i + Len(s) <= Len(s)) /\ (i + Len(s)) - Len(s) = i
  BY <1>1
<1>6. Elements(s) \subseteq Elements(s \o t)
  BY <1>1, <1>4 DEF Elements
<1>7. Elements(t) \subseteq Elements(s \o t)
  BY <1>1, <1>5 DEF Elements
<1> QED
  BY <1>3, <1>6, <1>7

(* All events are firm, or all but the last.                               *)
LEMMA FirmType ==
    ASSUME SinkTypeOK
    PROVE  /\ stored \in Seq(Positions) /\ Len(stored) \in Nat /\ DOMAIN stored = 1..Len(stored)
           /\ Firm \in Nat /\ Firm <= Len(stored) /\ Len(stored) <= Firm + 1
           /\ 1..Firm \subseteq DOMAIN stored
           /\ ending # "unended" => Firm = Len(stored)
           /\ ending = "unended" => Firm = Len(stored) - 1 /\ Len(stored) \in DOMAIN stored
<1> DEFINE len == Len(stored)
<1>1. stored \in Seq(Positions) /\ len \in Nat /\ DOMAIN stored = 1..len
  BY DEF SinkTypeOK
<1>2. ending = "unended" => len >= 1
  BY <1>1, EmptySeq DEF SinkTypeOK
<1>3. /\ ending = "unended" => Firm = len - 1
      /\ ending # "unended" => Firm = len
  BY DEF Firm
<1>4. len = Len(stored)
  OBVIOUS
<1> HIDE DEF len
<1>5. CASE ending = "unended"
  <2>1. Firm \in Nat /\ Firm <= len /\ len <= Firm + 1 /\ len \in 1..len
    BY <1>1, <1>2, <1>3, <1>5
  <2>2. 1..Firm \subseteq 1..len
    BY <1>1, <2>1
  <2> QED
    BY <1>1, <1>3, <1>4, <1>5, <2>1, <2>2, Zenon
<1>6. CASE ending # "unended"
  <2>1. Firm \in Nat /\ Firm <= len /\ len <= Firm + 1 /\ 1..Firm \subseteq 1..len
    BY <1>1, <1>3, <1>6
  <2> QED
    BY <1>1, <1>3, <1>4, <1>6, <2>1, Zenon
<1> QED
  BY <1>5, <1>6

(* What is glued to the last line takes away at most the last event.       *)
LEMMA Gluing ==
    ASSUME SinkTypeOK, Glue
    PROVE  /\ stored' \in Seq(Positions) /\ Len(stored') = Firm /\ DOMAIN stored' = 1..Firm
           /\ \A i \in 1..Firm : i \in DOMAIN stored /\ stored'[i] = stored[i]
           /\ ending # "unended" => stored' = stored /\ withdrawn' = withdrawn
           /\ ending = "unended" => withdrawn' = withdrawn \cup {stored[Len(stored)]}
           /\ withdrawn' \subseteq Positions
<1>1. /\ stored \in Seq(Positions) /\ Len(stored) \in Nat /\ DOMAIN stored = 1..Len(stored)
      /\ Firm \in Nat /\ 1..Firm \subseteq DOMAIN stored
      /\ ending # "unended" => Firm = Len(stored)
      /\ ending = "unended" => Firm = Len(stored) - 1 /\ Len(stored) \in DOMAIN stored
  BY FirmType
<1>2. \A i \in 1..Firm : i \in DOMAIN stored /\ stored[i] \in Positions
  <2>1. 1..Firm \subseteq DOMAIN stored /\ stored \in [DOMAIN stored -> Positions]
    BY <1>1
  <2> QED
    BY <2>1
<1>3. /\ SubSeq(stored, 1, Firm) \in Seq(Positions)
      /\ Len(SubSeq(stored, 1, Firm)) = Firm
      /\ \A i \in 1..Firm : SubSeq(stored, 1, Firm)[i] = stored[i]
  <2> DEFINE f == Firm
  <2>1. f \in Nat /\ stored \in Seq(Positions) /\ \A i \in 1..f : stored[i] \in Positions
    BY <1>1, <1>2
  <2> HIDE DEF f
  <2>2. 1 \in Int /\ f \in Int /\ f - 1 + 1 = f /\ (f < 1 => f = 0)
    BY <2>1
  <2>3. \A i \in 1..f : 1 + i - 1 = i
    BY <2>1
  <2>4. /\ SubSeq(stored, 1, f) \in Seq(Positions)
        /\ Len(SubSeq(stored, 1, f)) = IF 1 <= f THEN f - 1 + 1 ELSE 0
        /\ \A i \in 1..f - 1 + 1 : SubSeq(stored, 1, f)[i] = stored[1 + i - 1]
    BY <2>1, <2>2, SubSeqProperties
  <2>5. Len(SubSeq(stored, 1, f)) = f
    BY <2>2, <2>4
  <2>6. \A i \in 1..f : SubSeq(stored, 1, f)[i] = stored[i]
    BY <2>2, <2>3, <2>4
  <2> QED
    BY <2>4, <2>5, <2>6 DEF f
<1>4. /\ stored' \in Seq(Positions) /\ Len(stored') = Firm
      /\ \A i \in 1..Firm : stored'[i] = stored[i]
  BY <1>3 DEF Glue
<1>5. DOMAIN stored' = 1..Firm
  BY <1>4
<1>6. withdrawn' = withdrawn \cup {stored[i] : i \in Firm + 1..Len(stored)}
  BY DEF Glue
<1>7. ASSUME ending # "unended" PROVE stored' = stored /\ withdrawn' = withdrawn
  <2>1. stored' = stored
    BY <1>1, <1>4, <1>7, SeqEqual
  <2>2. Firm + 1..Len(stored) = {}
    BY <1>1, <1>7
  <2> QED
    BY <1>6, <2>1, <2>2
<1>8. ASSUME ending = "unended" PROVE withdrawn' = withdrawn \cup {stored[Len(stored)]}
  <2>1. Firm + 1..Len(stored) = {Len(stored)}
    BY <1>1, <1>8
  <2> QED
    BY <1>6, <2>1
<1>9. withdrawn' \subseteq Positions
  <2>1. withdrawn \subseteq Positions
    BY DEF SinkTypeOK
  <2>2. CASE ending = "unended"
    <3>1. stored[Len(stored)] \in Positions
      <4>1. stored \in [DOMAIN stored -> Positions] /\ Len(stored) \in DOMAIN stored
        BY <1>1, <2>2
      <4> QED
        BY <4>1
    <3> QED
      BY <1>8, <2>1, <2>2, <3>1
  <2> QED
    BY <1>7, <2>1, <2>2
<1> QED
  BY <1>2, <1>4, <1>5, <1>7, <1>8, <1>9

LEMMA WriteTypes ==
    ASSUME SinkTypeOK, NEW e \in Events, Write(e) PROVE SinkTypeOK'
<1> DEFINE n == Len(offered) + 1
<1>1. /\ offered' \in Seq(Events) /\ Positions \subseteq Positions' /\ n \in Positions'
      /\ sink' \in Sinks /\ posting' \subseteq Positions' /\ late' \subseteq Positions'
  BY Offering, Longer DEF SinkTypeOK, Write, splunk
<1>2. stored \in Seq(Positions') /\ pending \in Seq(Positions')
  BY <1>1, SeqMonotonic DEF SinkTypeOK
<1>3. /\ failed \subseteq Positions' /\ spoilt \subseteq Positions' /\ withdrawn \subseteq Positions'
      /\ ending \in Endings /\ (ending = "unended" => stored # <<>>)
      /\ (sink # "jsonl" => ending = "whole" /\ withdrawn = {}) /\ sink' = sink
  BY <1>1 DEF SinkTypeOK, Write
<1>4. AppendLine(n) \/ InsertRow(n) \/ Enqueue(n)
  BY DEF Write
<1>5. Append(stored, n) \in Seq(Positions') /\ Append(pending, n) \in Seq(Positions')
  BY <1>1, <1>2
<1>6. stored \o Append(pending, n) \in Seq(Positions')
  BY <1>2, <1>5, ConcatProperties
<1>7. <<>> \in Seq(Positions')
  BY EmptySeq
<1> HIDE DEF n
<1>8. CASE AppendLine(n)
  <2>1. sink = "jsonl" /\ pending' = pending /\ failed' \subseteq Positions'
        /\ spoilt' \subseteq Positions'
    BY <1>1, <1>3, <1>8 DEF AppendLine
  <2>2. CASE Glue /\ ending' \in {"whole", "piece"}
    <3>1. stored' \in Seq(Positions') /\ withdrawn' \subseteq Positions'
      BY <1>1, <2>2, Gluing, SeqMonotonic
    <3>2. /\ ending' \in Endings /\ (ending' = "unended" => stored' # <<>>)
          /\ (sink' # "jsonl" => ending' = "whole" /\ withdrawn' = {})
      BY <1>3, <2>1, <2>2 DEF Endings
    <3>3. pending' \in Seq(Positions')
      BY <1>2, <2>1
    <3> QED
      BY <1>1, <2>1, <3>1, <3>2, <3>3 DEF SinkTypeOK
  <2>3. CASE stored' = Append(stored, n) /\ ending' \in Endings /\ withdrawn' = withdrawn
    <3>1. stored' # <<>>
      BY <1>2, <2>3, AppendProperties
    <3> QED
      BY <1>1, <1>2, <1>3, <1>5, <2>1, <2>3, <3>1 DEF SinkTypeOK
  <2>4. CASE UNCHANGED <<stored, file>>
    BY <1>1, <1>2, <1>3, <2>1, <2>4 DEF SinkTypeOK, file
  <2> QED
    BY <1>8, <2>2, <2>3, <2>4 DEF AppendLine, Endings
<1>9. CASE InsertRow(n)
  <2>1. stored' \in Seq(Positions') /\ pending' \in Seq(Positions')
    BY <1>2, <1>5, <1>6, <1>7, <1>9 DEF InsertRow
  <2>2. failed' \subseteq Positions' /\ spoilt' \subseteq Positions' /\ UNCHANGED file
        /\ ending = "whole"
    BY <1>1, <1>3, <1>9 DEF InsertRow
  <2> QED
    BY <1>1, <1>3, <2>1, <2>2 DEF SinkTypeOK, file
<1>10. CASE Enqueue(n)
  <2>1. stored' \in Seq(Positions') /\ pending' \in Seq(Positions')
    BY <1>2, <1>5, <1>10 DEF Enqueue
  <2>2. failed' \subseteq Positions' /\ spoilt' \subseteq Positions' /\ UNCHANGED file
        /\ ending = "whole"
    BY <1>1, <1>3, <1>10 DEF Enqueue
  <2> QED
    BY <1>1, <1>3, <2>1, <2>2 DEF SinkTypeOK, file
<1> QED
  BY <1>4, <1>8, <1>9, <1>10

(* What happens to events that were written, and the follower, offer none. *)
Works == Delivers \/ Follows \/ SinkEnds

LEMMA WorkTypes ==
    ASSUME SinkTypeOK, Works PROVE SinkTypeOK' /\ UNCHANGED offered
<1> USE DEF SinkTypeOK, trail, splunk, file, Positions
<1>1. CASE PostStarts
  <2>1. Head(pending) \in Positions /\ Tail(pending) \in Seq(Positions)
    BY <1>1, HeadTailProperties DEF PostStarts
  <2> QED
    BY <1>1, <2>1 DEF PostStarts
<1>2. CASE PostFails \/ PostReturns
  BY <1>2 DEF PostFails, PostReturns
<1>3. ASSUME NEW n \in 1..Len(offered), Collect(n) PROVE SinkTypeOK' /\ UNCHANGED offered
  <2>1. Append(stored, n) \in Seq(Positions) /\ Append(stored, n) # <<>>
    <3>1. stored \in Seq(Positions) /\ n \in Positions
      OBVIOUS
    <3> HIDE DEF Positions
    <3> QED
      BY <3>1, AppendProperties
  <2> QED
    BY <1>3, <2>1 DEF Collect
<1>4. CASE Follows
  BY <1>4 DEF Follows, TailShows, TailWatches, TailPolls
<1>5. CASE SinkEnds
  <2>1. <<>> \in Seq(Positions)
    BY EmptySeq
  <2>2. pending' = <<>> /\ posting' = {} /\ late' \subseteq Positions
    BY <1>5 DEF SinkEnds
  <2>3. UNCHANGED <<sink, offered, stored, ending, withdrawn, failed, spoilt>>
    BY <1>5 DEF SinkEnds
  <2> QED
    BY <2>1, <2>2, <2>3
<1> QED
  BY <1>1, <1>2, <1>3, <1>4, <1>5 DEF Works, Delivers
-----------------------------------------------------------------------------
(* What a step does to the trail: nothing, or more is kept after what was  *)
(* there, which was all firm, or the one event that is not firm goes.      *)

Still == UNCHANGED <<stored, withdrawn>> /\ Firm' = Firm

Grown ==
    /\ Firm = Len(stored) /\ Firm <= Firm' /\ withdrawn' = withdrawn
    /\ Len(stored) \in Nat /\ Len(stored') \in Nat
    /\ Len(stored) < Len(stored')
    /\ \A i \in DOMAIN stored : stored'[i] = stored[i]

Shrunk == ending = "unended" /\ ending' # "unended" /\ Glue

LEMMA GrowsByOne ==
    ASSUME NEW S, stored \in Seq(S), NEW x, stored' = Append(stored, x),
           ending # "unended", withdrawn' = withdrawn
    PROVE  Grown
<1>1. /\ Len(stored) \in Nat /\ DOMAIN stored = 1..Len(stored)
      /\ Len(stored') = Len(stored) + 1
      /\ \A i \in 1..Len(stored) : stored'[i] = stored[i]
  OBVIOUS
<1>2. Firm = Len(stored) /\ Firm' \in {Len(stored') - 1, Len(stored')}
  BY DEF Firm
<1> QED
  BY <1>1, <1>2 DEF Grown

LEMMA GrowsByMany ==
    ASSUME NEW S, stored \in Seq(S), NEW t \in Seq(S), t # <<>>, stored' = stored \o t,
           ending = "whole", UNCHANGED file
    PROVE  Grown
<1>1. /\ Len(stored) \in Nat /\ Len(t) \in Nat /\ DOMAIN stored = 1..Len(stored)
      /\ Len(stored') = Len(stored) + Len(t)
      /\ \A i \in 1..Len(stored) + Len(t) : stored'[i] =
            IF i <= Len(stored) THEN stored[i] ELSE t[i - Len(stored)]
  BY ConcatProperties
<1>2. Len(t) > 0
  BY <1>1, EmptySeq
<1>3. Firm = Len(stored) /\ Firm' = Len(stored') /\ withdrawn' = withdrawn
  BY DEF Firm, file
<1> QED
  BY <1>1, <1>2, <1>3 DEF Grown

LEMMA TrailMoves ==
    ASSUME SinkTypeOK, (\E e \in Events : Write(e)) \/ Works \/ UNCHANGED sinkVars
    PROVE  Still \/ Grown \/ Shrunk
<1> DEFINE n == Len(offered) + 1
<1>1. stored \in Seq(Positions) /\ (sink # "jsonl" => ending = "whole")
  BY DEF SinkTypeOK
<1>2. ASSUME UNCHANGED <<stored, file>> PROVE Still
  BY <1>2 DEF Still, Firm, file
<1>3. ASSUME NEW e \in Events, Write(e) PROVE Still \/ Grown \/ Shrunk
  <2>1. Positions \subseteq Positions' /\ n \in Positions'
    BY <1>3, Offering, Longer
  <2>2. stored \in Seq(Positions') /\ pending \in Seq(Positions')
    BY <2>1, SeqMonotonic DEF SinkTypeOK
  <2>3. AppendLine(n) \/ InsertRow(n) \/ Enqueue(n)
    BY <1>3 DEF Write
  <2>4. Append(pending, n) \in Seq(Positions') /\ Append(pending, n) # <<>>
    BY <2>1, <2>2, AppendProperties
  <2> HIDE DEF n
  <2>5. CASE AppendLine(n)
    <3>1. CASE Glue /\ ending' \in {"whole", "piece"}
      <4>1. CASE ending = "unended"
        BY <3>1, <4>1 DEF Shrunk
      <4>2. CASE ending # "unended"
        BY <3>1, <4>2, Gluing DEF Still, Firm
      <4> QED
        BY <4>1, <4>2
    <3>2. CASE ending = "whole" /\ stored' = Append(stored, n) /\ withdrawn' = withdrawn
      BY <1>1, <3>2, GrowsByOne
    <3> QED
      BY <1>2, <2>5, <3>1, <3>2 DEF AppendLine
  <2>6. CASE InsertRow(n)
    <3>1. ending = "whole" /\ UNCHANGED file
      BY <1>1, <2>6 DEF InsertRow
    <3> QED
      BY <1>2, <2>2, <2>4, <2>6, <3>1, GrowsByMany DEF InsertRow
  <2>7. CASE Enqueue(n)
    BY <1>2, <2>7 DEF Enqueue
  <2> QED
    BY <2>3, <2>5, <2>6, <2>7
<1>4. ASSUME Works \/ UNCHANGED sinkVars PROVE Still \/ Grown
  <2>1. UNCHANGED <<stored, file>> \/ \E m \in Positions : Collect(m)
    BY <1>4 DEF Works, Delivers, PostStarts, PostFails, PostReturns, Follows, TailShows,
                TailWatches, TailPolls, SinkEnds, trail, sinkVars, Positions
  <2>2. ASSUME NEW m \in Positions, Collect(m) PROVE Grown \/ Still
    <3>1. stored' = Append(stored, m) /\ UNCHANGED file
      BY <2>2 DEF Collect
    <3> QED
      BY <1>1, <2>2, <3>1, GrowsByOne DEF Collect, file
  <2> QED
    BY <1>2, <2>1, <2>2
<1> QED
  BY <1>3, <1>4

LEMMA LastType ==
    ASSUME NEW S, NEW seq \in Seq(S), NEW n \in Nat PROVE Last(seq, n) \in Seq(S)
<1>1. CASE Len(seq) <= n
  BY <1>1 DEF Last
<1>2. CASE ~(Len(seq) <= n)
  <2>1. Len(seq) \in Nat /\ Len(seq) - n + 1 \in Int
    OBVIOUS
  <2>2. \A i \in (Len(seq) - n + 1)..Len(seq) : seq[i] \in S
    BY <1>2, <2>1
  <2>3. SubSeq(seq, Len(seq) - n + 1, Len(seq)) \in Seq(S)
    BY <2>1, <2>2, SubSeqProperties
  <2> QED
    BY <1>2, <2>3 DEF Last
<1> QED
  BY <1>1, <1>2

LEMMA FirmGrows ==
    ASSUME SinkTypeOK, SinkTypeOK', Still \/ Grown \/ Shrunk
    PROVE  Firm \in Nat /\ Firm' \in Nat /\ Firm <= Firm'
<1> DEFINE more == Len(stored')
<1>1. Firm \in Nat
  BY FirmType
<1>4. Firm' \in Nat
  <2>1. stored' \in Seq(Positions') /\ more \in Nat
    BY DEF SinkTypeOK
  <2>2. ending' = "unended" => more \in Nat \ {0}
    BY <2>1, EmptySeq DEF SinkTypeOK
  <2>3. Firm' = IF ending' = "unended" THEN more - 1 ELSE more
    BY DEF Firm
  <2> HIDE DEF more
  <2>4. ending' = "unended" => more - 1 \in Nat
    BY <2>2
  <2> QED
    BY <2>1, <2>3, <2>4
<1>2. CASE Still \/ Grown
  BY <1>1, <1>2, <1>4 DEF Still, Grown
<1>3. CASE Shrunk
  <2>1. Firm' = Len(stored') /\ Len(stored') = Firm
    BY <1>3, Gluing DEF Shrunk, Firm
  <2> QED
    BY <1>1, <2>1
<1> QED
  BY <1>1, <1>2, <1>3, <1>4

LEMMA StillWithin ==
    ASSUME NEW f \in Nat, NEW g \in Nat, f <= g
    PROVE  \A m \in Nat : m <= f + 1 => m \in 0..g + 1
OBVIOUS

LEMMA FollowerTypes ==
    ASSUME SinkTypeOK, SinkTypeOK', FollowerTypeOK,
           (\E e \in Events : Write(e)) \/ Works \/ UNCHANGED sinkVars
    PROVE  FollowerTypeOK'
<1>1. stored \in Seq(Positions) /\ Len(stored) \in Nat /\ Len(stored) <= Firm + 1
  BY FirmType
<1>9. Firm \in Nat /\ Firm' \in Nat /\ Firm <= Firm'
  BY TrailMoves, FirmGrows
<1>2. /\ tail \in {"off", "shown", "watching"} /\ printed \in Seq(Positions)
      /\ baseline \in 0..Firm + 1 /\ known \subseteq Positions
  BY DEF FollowerTypeOK
<1>0. \A m \in Nat : m <= Firm + 1 => m \in 0..Firm' + 1
  BY <1>9, StillWithin, Zenon
<1>3. ASSUME UNCHANGED follower, Positions \subseteq Positions' PROVE FollowerTypeOK'
  <2>1. printed' \in Seq(Positions')
    BY <1>2, <1>3, SeqMonotonic DEF follower
  <2>2. baseline' \in 0..Firm' + 1
    <3>1. baseline' = baseline /\ baseline \in Nat /\ baseline <= Firm + 1
      BY <1>9, <1>2, <1>3 DEF follower
    <3> QED
      BY <1>0, <3>1
  <2> QED
    BY <1>2, <1>3, <2>1, <2>2 DEF follower, FollowerTypeOK
<1>4. ASSUME NEW e \in Events, Write(e) PROVE FollowerTypeOK'
  <2>1. Positions \subseteq Positions'
    BY <1>4, Offering, Longer
  <2> QED
    BY <1>3, <1>4, <2>1 DEF Write
<1>5. CASE Delivers \/ SinkEnds \/ UNCHANGED sinkVars
  <2>1. UNCHANGED offered /\ UNCHANGED follower
    BY <1>5 DEF Delivers, PostStarts, PostFails, PostReturns, Collect, SinkEnds, trail, sinkVars
  <2> QED
    BY <1>3, <2>1 DEF Positions
<1>6. CASE TailShows
  <2>1. printed' \in Seq(Positions)
    BY <1>1, <1>6, LastType, SinkAssumption DEF TailShows, View
  <2>2. baseline' \in 0..Firm' + 1
    <3>1. baseline' = baseline /\ baseline \in Nat /\ baseline <= Firm + 1
      BY <1>9, <1>2, <1>6 DEF TailShows
    <3> QED
      BY <1>0, <3>1
  <2> QED
    BY <1>2, <1>6, <2>1, <2>2 DEF TailShows, FollowerTypeOK, trail, Positions
<1>7. CASE TailWatches
  <2>1. baseline' \in 0..Firm' + 1
    BY <1>0, <1>1, <1>7 DEF TailWatches, View
  <2>2. known' \subseteq Positions
    BY <1>1, <1>7, Elements_ DEF TailWatches, View
  <2> QED
    BY <1>2, <1>7, <2>1, <2>2 DEF TailWatches, FollowerTypeOK, trail, Positions
<1>8. CASE TailPolls
  <2>1. /\ baseline + 1 \in Int /\ Len(stored) \in Int
        /\ \A i \in (baseline + 1)..Len(stored) : stored[i] \in Positions
    BY <1>1, <1>2
  <2>2. SubSeq(stored, baseline + 1, Len(stored)) \in Seq(Positions)
    BY <2>1, SubSeqProperties
  <2>3. printed' \in Seq(Positions)
    BY <1>2, <1>8, <2>2, ConcatProperties DEF TailPolls, View
  <2>4. baseline' \in 0..Firm' + 1
    BY <1>0, <1>1, <1>8 DEF TailPolls, View
  <2> QED
    BY <1>2, <1>8, <2>3, <2>4 DEF TailPolls, FollowerTypeOK, trail, Positions
<1> QED
  BY <1>4, <1>5, <1>6, <1>7, <1>8 DEF Works, Follows
-----------------------------------------------------------------------------
(* What a step does to the requests.                                       *)

LEMMA EventType ==
    ASSUME NEW r \in Requests, NEW q \in Inputs, NEW o \in Outcomes
    PROVE  Event(r, q, o) \in Events
BY DEF Event, Events, Authenticate

LEMMA OutcomeType ==
    ASSUME NEW q \in Inputs PROVE Outcome(q) \in Outcomes \ {"DENY"}
BY DEF Outcome, Outcomes

LEMMA EventFields ==
    ASSUME NEW r, NEW q, NEW o
    PROVE  /\ Event(r, q, o).request = r
           /\ Event(r, q, o).agent = Authenticate(q.token)
           /\ Event(r, q, o).outcome = o
BY DEF Event

Passed(r, q) ==
    /\ Becomes(r, "forwarding")
    /\ wire' = wire \cup {r}
    /\ UNCHANGED sinkVars
    /\ Authenticate(q.token) # {}
    /\ Named(q) /\ mode = "enforce" => Allowed(q)

Failed(r) ==
    /\ Becomes(r, "error")
    /\ UNCHANGED <<sinkVars, wire>>

Denied(r, q) ==
    /\ \E s \in {"error", "unauthorized", "refused"} : Becomes(r, s)
    /\ Write(Event(r, q, "DENY"))
    /\ UNCHANGED wire

LEMMA HandlesEffect ==
    ASSUME NEW r \in Requests, NEW q \in Inputs, Handles(r, q)
    PROVE  /\ Alive /\ state[r] = "new"
           /\ input' = [input EXCEPT ![r] = {q}]
           /\ UNCHANGED <<reached, process>>
           /\ Passed(r, q) \/ Failed(r) \/ Denied(r, q)
<1>1. /\ Alive /\ state[r] = "new"
      /\ input' = [input EXCEPT ![r] = {q}]
      /\ UNCHANGED <<reached, process>>
  BY DEF Handles, Undecodable, Unauthorized, Refuse, Raise, Forward, Decides, Arrives
<1>2. CASE Undecodable(r, q)
  BY <1>1, <1>2 DEF Undecodable, Failed
<1>3. CASE Unauthorized(r, q)
  BY <1>1, <1>3 DEF Unauthorized, Denied
<1>4. CASE Refuse(r, q)
  BY <1>1, <1>4 DEF Refuse, Denied, Failed
<1>5. CASE Raise(r, q)
  BY <1>1, <1>5 DEF Raise, Failed
<1>6. CASE Forward(r, q)
  BY <1>1, <1>6 DEF Forward, Decides, Passed
<1> QED
  BY <1>1, <1>2, <1>3, <1>4, <1>5, <1>6 DEF Handles

LEMMA FinishesEffect ==
    ASSUME NEW r \in Requests, NEW q \in Inputs, Finishes(r, q)
    PROVE  /\ state[r] = "forwarding" /\ q \in input[r] /\ Alive
           /\ UNCHANGED <<input, reached, process>> /\ wire' \subseteq wire
           /\ \/ UNCHANGED sinkVars /\ Becomes(r, "error")
              \/ UNCHANGED sinkVars /\ ~IsCall(q) /\ Becomes(r, "answered")
              \/ /\ r \in reached /\ Write(Event(r, q, Outcome(q)))
                 /\ \E s \in {"answered", "error"} : Becomes(r, s)
<1>1. CASE ForwardRaises(r, q)
  BY <1>1 DEF ForwardRaises, Awaited
<1>2. CASE Respond(r, q)
  BY <1>2 DEF Respond, Awaited, IsCall
<1> QED
  BY <1>1, <1>2 DEF Finishes

LEMMA NextKinds ==
    ASSUME [Next]_vars
    PROVE  \/ \E r \in Requests, q \in Inputs : Handles(r, q)
           \/ \E r \in Requests, q \in Inputs : Finishes(r, q)
           \/ \E r \in Requests : TargetGets(r)
           \/ (Delivers \/ Follows \/ UNCHANGED sinkVars) /\ UNCHANGED <<requests, process>>
           \/ Ends
BY DEF Next, vars

LEMMA SinkKinds ==
    ASSUME [Next]_vars
    PROVE  (\E e \in Events : Write(e)) \/ Works \/ UNCHANGED sinkVars
<1>1. ASSUME NEW r \in Requests, NEW q \in Inputs, Handles(r, q)
      PROVE  UNCHANGED sinkVars \/ \E e \in Events : Write(e)
  <2>1. UNCHANGED sinkVars \/ Write(Event(r, q, "DENY"))
    BY <1>1, HandlesEffect DEF Passed, Failed, Denied
  <2>2. "DENY" \in Outcomes
    BY DEF Outcomes
  <2> QED
    BY <2>1, <2>2, EventType
<1>2. ASSUME NEW r \in Requests, NEW q \in Inputs, Finishes(r, q)
      PROVE  UNCHANGED sinkVars \/ \E e \in Events : Write(e)
  <2>1. UNCHANGED sinkVars \/ Write(Event(r, q, Outcome(q)))
    BY <1>2, FinishesEffect
  <2> QED
    BY <2>1, OutcomeType, EventType
<1>3. ASSUME NEW r \in Requests, TargetGets(r) PROVE UNCHANGED sinkVars
  BY <1>3 DEF TargetGets
<1>4. CASE Ends
  BY <1>4 DEF Ends, Drain, Close, Stop, StopInVain, Crash, Restart, Works
<1> QED
  BY <1>1, <1>2, <1>3, <1>4, NextKinds DEF Works

(* A step that ends or begins the process.                                 *)
LEMMA EndsEffect ==
    ASSUME Ends
    PROVE  /\ UNCHANGED <<input, wire, reached, mode, offered>>
           /\ \/ UNCHANGED state
              \/ state' = [r \in Requests |-> IF state[r] = "forwarding" THEN "lost" ELSE state[r]]
BY DEF Ends, Drain, Close, Stop, StopInVain, Crash, Restart, requests, sinkVars, trail, SinkEnds
-----------------------------------------------------------------------------
(* Types of the requests.                                                  *)

(* A request is made once.                                                 *)
MadeOnce == \A r \in Requests : \A p, q \in input[r] : p = q

(* What concerns the requests themselves, and the process.                 *)
MadeOK ==
    /\ input \in [Requests -> SUBSET Inputs]
    /\ state \in [Requests -> States]
    /\ \A r \in Requests : (state[r] = "new") <=> (input[r] = {})
    /\ \A r \in wire \cup reached : state[r] \in {"forwarding", "answered", "error", "lost"}
    /\ wire \subseteq Requests /\ reached \subseteq Requests
    /\ MadeOnce

ProcOK ==
    /\ mode \in Modes
    /\ proc \in {"running", "draining", "closing", "stopped", "cut"}
    /\ proc \in {"closing", "stopped", "cut"} => \A r \in Requests : state[r] # "forwarding"
    /\ ends \in 0..MaxEnds

LEMMA RequestParts ==
    RequestsTypeOK /\ MadeOnce <=> MadeOK /\ ProcOK /\ lost \subseteq Positions
BY DEF RequestsTypeOK, MadeOK, ProcOK

LEMMA HandlesMade ==
    ASSUME MadeOK, NEW r \in Requests, NEW q \in Inputs, Handles(r, q)
    PROVE  MadeOK' /\ \A p \in Requests \ {r} : state'[p] = state[p]
<1>1. /\ state[r] = "new" /\ input' = [input EXCEPT ![r] = {q}] /\ reached' = reached
      /\ Passed(r, q) \/ Failed(r) \/ Denied(r, q)
  BY HandlesEffect DEF process
<1>2. PICK s \in {"forwarding", "error", "unauthorized", "refused"} :
         /\ state' = [state EXCEPT ![r] = s]
         /\ wire' = wire \/ (s = "forwarding" /\ wire' = wire \cup {r})
  BY <1>1 DEF Passed, Failed, Denied, Becomes
<1>3. r \notin wire \cup reached
  BY <1>1 DEF MadeOK
<1>4. state' \in [Requests -> States] /\ input' \in [Requests -> SUBSET Inputs]
  BY <1>1, <1>2 DEF MadeOK, States
<1>5. /\ state'[r] = s /\ \A p \in Requests \ {r} : state'[p] = state[p]
      /\ input'[r] = {q} /\ \A p \in Requests \ {r} : input'[p] = input[p]
  BY <1>1, <1>2 DEF MadeOK
<1>6. \A p \in Requests : (state'[p] = "new") <=> (input'[p] = {})
  BY <1>5 DEF MadeOK
<1>7. \A p \in wire' \cup reached' : state'[p] \in {"forwarding", "answered", "error", "lost"}
  BY <1>1, <1>2, <1>3, <1>5 DEF MadeOK
<1>8. wire' \subseteq Requests /\ reached' \subseteq Requests
  BY <1>1, <1>2 DEF MadeOK
<1>9. MadeOnce'
  BY <1>5 DEF MadeOK, MadeOnce
<1> QED
  BY <1>4, <1>5, <1>6, <1>7, <1>8, <1>9 DEF MadeOK

LEMMA FinishesMade ==
    ASSUME MadeOK, NEW r \in Requests, NEW q \in Inputs, Finishes(r, q)
    PROVE  /\ MadeOK' /\ state'[r] \in {"answered", "error"}
           /\ \A p \in Requests \ {r} : state'[p] = state[p]
<1>1. /\ state[r] = "forwarding" /\ UNCHANGED <<input, reached>> /\ wire' \subseteq wire
      /\ \E s \in {"answered", "error"} : Becomes(r, s)
  BY FinishesEffect
<1>2. PICK s \in {"answered", "error"} : state' = [state EXCEPT ![r] = s]
  BY <1>1 DEF Becomes
<1>3. state' \in [Requests -> States]
  BY <1>2 DEF MadeOK, States
<1>4. state'[r] = s /\ \A p \in Requests \ {r} : state'[p] = state[p]
  BY <1>2 DEF MadeOK
<1>5. \A p \in Requests : (state'[p] = "new") <=> (input'[p] = {})
  BY <1>1, <1>4 DEF MadeOK
<1>6. \A p \in wire' \cup reached' : state'[p] \in {"forwarding", "answered", "error", "lost"}
  BY <1>1, <1>4 DEF MadeOK
<1> QED
  BY <1>1, <1>3, <1>4, <1>5, <1>6 DEF MadeOK, MadeOnce

LEMMA GetsMade ==
    ASSUME MadeOK, NEW r \in Requests, TargetGets(r) PROVE MadeOK'
BY DEF MadeOK, MadeOnce, TargetGets

LEMMA EndsMade ==
    ASSUME MadeOK, Ends PROVE MadeOK'
<1>1. /\ UNCHANGED <<input, wire, reached>>
      /\ \/ UNCHANGED state
         \/ state' = [r \in Requests |-> IF state[r] = "forwarding" THEN "lost" ELSE state[r]]
  BY EndsEffect
<1>2. CASE UNCHANGED state
  BY <1>1, <1>2 DEF MadeOK, MadeOnce
<1>3. CASE state' = [r \in Requests |-> IF state[r] = "forwarding" THEN "lost" ELSE state[r]]
  <2>1. state' \in [Requests -> States]
    BY <1>3 DEF MadeOK, States
  <2>2. \A r \in Requests : state'[r] = IF state[r] = "forwarding" THEN "lost" ELSE state[r]
    BY <1>3
  <2> QED
    BY <1>1, <2>1, <2>2 DEF MadeOK, MadeOnce
<1> QED
  BY <1>1, <1>2, <1>3

LEMMA NextMade == ASSUME MadeOK, [Next]_vars PROVE MadeOK'
<1>1. CASE UNCHANGED requests
  BY <1>1 DEF requests, MadeOK, MadeOnce
<1> QED
  BY <1>1, NextKinds, HandlesMade, FinishesMade, GetsMade, EndsMade

LEMMA NextProc == ASSUME MadeOK, ProcOK, [Next]_vars PROVE ProcOK'
<1>1. ASSUME NEW r \in Requests, NEW q \in Inputs, Handles(r, q) PROVE ProcOK'
  BY <1>1, HandlesEffect DEF ProcOK, process, Alive
<1>2. ASSUME NEW r \in Requests, NEW q \in Inputs, Finishes(r, q) PROVE ProcOK'
  BY <1>2, FinishesEffect, FinishesMade DEF ProcOK, process
<1>3. CASE UNCHANGED <<state, process>>
  BY <1>3 DEF ProcOK, process
<1>4. CASE Drain \/ Restart
  BY <1>4, ProxyAssumption DEF ProcOK, Drain, Restart, requests
<1>5. CASE Close \/ Stop \/ StopInVain
  BY <1>5 DEF ProcOK, Close, Stop, StopInVain, requests
<1>6. CASE Crash
  <2>1. ends' \in 0..MaxEnds /\ mode' = mode /\ proc' = "cut"
    BY <1>6, ProxyAssumption DEF ProcOK, Crash
  <2>2. \A r \in Requests : state'[r] # "forwarding"
    BY <1>6 DEF Crash
  <2> QED
    BY <2>1, <2>2 DEF ProcOK
<1> QED
  BY <1>1, <1>2, <1>3, <1>4, <1>5, <1>6, NextKinds DEF Ends, TargetGets, requests

LEMMA NextLost ==
    ASSUME SinkTypeOK, SinkTypeOK', lost \subseteq Positions, [Next]_vars
    PROVE  lost' \subseteq Positions' /\ Positions \subseteq Positions'
<1>1. Positions \subseteq Positions'
  <2>1. ASSUME NEW e \in Events, Write(e) PROVE Positions \subseteq Positions'
    BY <2>1, Offering, Longer
  <2>2. CASE Works
    BY <2>2, WorkTypes DEF Positions
  <2>3. CASE UNCHANGED sinkVars
    BY <2>3 DEF sinkVars, trail, Positions
  <2> QED
    BY <2>1, <2>2, <2>3, SinkKinds
<1>2. lost' \subseteq lost \cup posting \cup Elements(pending)
  <2>1. ASSUME NEW r \in Requests, NEW q \in Inputs, Handles(r, q) \/ Finishes(r, q) PROVE lost' = lost
    BY <2>1, HandlesEffect, FinishesEffect DEF process
  <2>2. CASE UNCHANGED process
    BY <2>2 DEF process
  <2>3. CASE Ends
    BY <2>3 DEF Ends, Drain, Close, Stop, StopInVain, Crash, Restart
  <2> QED
    BY <2>1, <2>2, <2>3, NextKinds DEF TargetGets
<1>3. posting \subseteq Positions /\ pending \in Seq(Positions)
  BY DEF SinkTypeOK
<1>4. Elements(pending) \subseteq Positions
  BY <1>3, Elements_
<1> QED
  BY <1>1, <1>2, <1>3, <1>4

Typed == SinkTypeOK /\ FollowerTypeOK /\ MadeOK /\ ProcOK /\ lost \subseteq Positions

LEMMA TypedInit == Init => Typed
<1> SUFFICES ASSUME Init PROVE Typed
  OBVIOUS
<1>1. SinkTypeOK /\ FollowerTypeOK
  <2>1. /\ offered \in Seq(Events) /\ stored \in Seq(Positions)
        /\ pending \in Seq(Positions) /\ printed \in Seq(Positions)
    BY EmptySeq DEF Init, SinkInit
  <2>2. Len(stored) = 0 /\ baseline = 0
    BY DEF Init, SinkInit
  <2>3. SinkTypeOK
    BY <2>1 DEF Init, SinkInit, SinkTypeOK, Endings
  <2>4. baseline \in 0..Firm + 1
    BY <2>2 DEF Init, SinkInit, Firm
  <2>5. FollowerTypeOK
    BY <2>1, <2>4 DEF Init, SinkInit, FollowerTypeOK
  <2> QED
    BY <2>3, <2>5
<1>2. MadeOK /\ ProcOK /\ lost \subseteq Positions
  BY ProxyAssumption DEF Init, MadeOK, MadeOnce, ProcOK, States
<1> QED
  BY <1>1, <1>2 DEF Typed

LEMMA TypedNext == Typed /\ [Next]_vars => Typed'
<1> SUFFICES ASSUME Typed, [Next]_vars PROVE Typed'
  OBVIOUS
<1> USE DEF Typed
<1>1. SinkTypeOK'
  <2>1. CASE UNCHANGED sinkVars
    BY <2>1 DEF sinkVars, trail, file, splunk, SinkTypeOK, Positions
  <2> QED
    BY <2>1, SinkKinds, WriteTypes, WorkTypes
<1>2. FollowerTypeOK'
  BY <1>1, SinkKinds, FollowerTypes
<1>3. MadeOK' /\ ProcOK'
  BY NextMade, NextProc
<1>4. lost' \subseteq Positions'
  BY <1>1, NextLost
<1> QED
  BY <1>1, <1>2, <1>3, <1>4

LEMMA AlwaysTyped == Spec => []Typed
BY TypedInit, TypedNext, PTL DEF Spec

(* The variables of the proxy and of its sinks always have their types: in *)
(* particular nothing is in flight in a process that is stopping.          *)
THEOREM TypeCorrect == Spec => []TypeOK
<1>1. Typed => TypeOK
  BY RequestParts DEF Typed, TypeOK
<1> QED
  BY <1>1, AlwaysTyped, PTL
-----------------------------------------------------------------------------
(* What the target gets.                                                   *)

LEMMA ForwardedNext ==
    ASSUME Typed, NothingDeniedForwarded, [Next]_vars PROVE NothingDeniedForwarded'
<1> DEFINE Right(q) == /\ Authenticate(q.token) # {}
                       /\ Named(q) /\ mode = "enforce" =>
                             /\ q.permitted
                             /\ \E i \in Authenticate(q.token) : q.method \in Agents[i].tools
<1>1. mode' = mode
  BY NextKinds, HandlesEffect, FinishesEffect, EndsEffect DEF process, TargetGets
<1>2. \A r \in wire \cup reached : \A q \in input[r] : Right(q)
  BY DEF NothingDeniedForwarded
<1> HIDE DEF Right
<1>3. ASSUME wire' \cup reached' \subseteq wire \cup reached,
             \A r \in wire \cup reached : input'[r] = input[r]
      PROVE  \A r \in wire' \cup reached' : \A q \in input'[r] : Right(q)
  BY <1>2, <1>3
<1>4. ASSUME NEW r \in Requests, NEW q \in Inputs, Handles(r, q)
      PROVE  \A p \in wire' \cup reached' : \A x \in input'[p] : Right(x)
  <2>1. /\ state[r] = "new" /\ input' = [input EXCEPT ![r] = {q}] /\ reached' = reached
        /\ Passed(r, q) \/ Failed(r) \/ Denied(r, q)
    BY <1>4, HandlesEffect
  <2>2. r \notin wire \cup reached /\ wire \cup reached \subseteq Requests
    BY <2>1 DEF Typed, MadeOK
  <2>3. input'[r] = {q} /\ \A p \in wire \cup reached : input'[p] = input[p]
    BY <2>1, <2>2 DEF Typed, MadeOK
  <2>4. CASE wire' = wire
    BY <1>3, <2>1, <2>3, <2>4
  <2>5. CASE Passed(r, q)
    <3>1. wire' = wire \cup {r}
      BY <2>5 DEF Passed
    <3>2. Right(q)
      BY <2>5 DEF Passed, Allowed, MayCall, Right
    <3> QED
      BY <1>2, <2>1, <2>3, <3>1, <3>2
  <2> QED
    BY <2>1, <2>4, <2>5 DEF Failed, Denied
<1>5. ASSUME NEW r \in Requests, NEW q \in Inputs, Finishes(r, q)
      PROVE  \A p \in wire' \cup reached' : \A x \in input'[p] : Right(x)
  BY <1>3, <1>5, FinishesEffect
<1>6. ASSUME NEW r \in Requests, TargetGets(r)
      PROVE  \A p \in wire' \cup reached' : \A x \in input'[p] : Right(x)
  BY <1>3, <1>6 DEF TargetGets
<1>7. ASSUME Ends \/ UNCHANGED requests
      PROVE  \A p \in wire' \cup reached' : \A x \in input'[p] : Right(x)
  BY <1>3, <1>7, EndsEffect DEF requests
<1>8. \A p \in wire' \cup reached' : \A x \in input'[p] : Right(x)
  BY <1>4, <1>5, <1>6, <1>7, NextKinds
<1> QED
  BY <1>1, <1>8 DEF NothingDeniedForwarded, Right

(* Nothing gets to the target, or is on its way there, that the caller's   *)
(* scope and the policy do not allow, in enforce mode; and in either mode  *)
(* nothing of a caller without an identity.                                *)
THEOREM DeniedIsNotForwarded == Spec => []NothingDeniedForwarded
<1>1. Init => NothingDeniedForwarded
  BY DEF Init, NothingDeniedForwarded
<1>2. Typed /\ NothingDeniedForwarded /\ [Next]_vars => NothingDeniedForwarded'
  BY ForwardedNext
<1> QED
  BY <1>1, <1>2, AlwaysTyped, PTL DEF Spec
-----------------------------------------------------------------------------
(* The events.                                                             *)

(* The event of a request is the last thing that happens to it.            *)
LoggedLast ==
    \A n \in DOMAIN offered :
        state[offered[n].request] \in {"unauthorized", "refused", "answered", "error"}

Truthful == LoggedLast /\ EventsTellTheTruth /\ AgentsAreNamed /\ AnsweredIsLogged

LEMMA EventsTyped ==
    ASSUME SinkTypeOK PROVE \A n \in DOMAIN offered : offered[n] \in Events /\ offered[n].request \in Requests
<1>1. \A n \in DOMAIN offered : offered[n] \in Events
  BY DEF SinkTypeOK
<1>2. \A e \in Events : e.request \in Requests
  BY DEF Events
<1> QED
  BY <1>1, <1>2

(* A step that logs nothing, and disturbs no request that is done.         *)
LEMMA Unlogged ==
    ASSUME Typed, Truthful, UNCHANGED offered,
           \A p \in Requests :
               state[p] \in {"unauthorized", "refused", "answered", "error"} =>
                   /\ state'[p] = state[p] /\ input'[p] = input[p]
                   /\ p \in wire' \cup reached' => p \in wire \cup reached
                   /\ p \in reached => p \in reached',
           \A p \in Requests :
               /\ state'[p] \in {"unauthorized", "refused"} => state[p] = state'[p]
               /\ state'[p] = "answered" =>
                     state[p] = "answered" \/ \A q \in input'[p] : ~IsCall(q)
    PROVE  Truthful'
<1>1. \A n \in DOMAIN offered : offered'[n] = offered[n] /\ offered[n].request \in Requests
  BY EventsTyped DEF Typed
<1>2. \A n \in DOMAIN offered :
          state[offered[n].request] \in {"unauthorized", "refused", "answered", "error"}
  BY DEF Truthful, LoggedLast
<1>3. LoggedLast'
  BY <1>1, <1>2 DEF LoggedLast
<1>4. EventsTellTheTruth'
  BY <1>1, <1>2 DEF Truthful, EventsTellTheTruth
<1>5. AgentsAreNamed'
  <2>1. \A n \in DOMAIN offered : input'[offered[n].request] = input[offered[n].request]
    BY <1>1, <1>2
  <2>2. AgentsAreNamed
    BY DEF Truthful
  <2> QED
    BY <2>1, <2>2 DEF AgentsAreNamed
<1>6. AnsweredIsLogged'
  <2>1. SUFFICES ASSUME NEW r \in Requests, NEW q \in input'[r],
                        \/ state'[r] \in {"unauthorized", "refused"}
                        \/ state'[r] = "answered" /\ IsCall(q)
                 PROVE  \E n \in DOMAIN offered : offered[n].request = r
    BY DEF AnsweredIsLogged
  <2>2. state[r] = state'[r] /\ input'[r] = input[r]
    BY <2>1
  <2> QED
    BY <2>1, <2>2 DEF Truthful, AnsweredIsLogged
<1> QED
  BY <1>3, <1>4, <1>5, <1>6 DEF Truthful

(* A step that logs the one request that it ends.                          *)
LEMMA LoggedStep ==
    ASSUME Typed, MadeOK', Truthful,
           NEW r \in Requests, NEW q \in Inputs, NEW o \in Outcomes,
           Write(Event(r, q, o)),
           state[r] \in {"new", "forwarding"},
           state'[r] \in {"unauthorized", "refused", "answered", "error"},
           input'[r] = {q},
           \A p \in Requests \ {r} : state'[p] = state[p] /\ input'[p] = input[p],
           reached' = reached, wire' \subseteq wire,
           o = "DENY" => r \notin wire \cup reached,
           o # "DENY" => r \in reached,
           o = "ALLOW" => \E i \in Authenticate(q.token) : q.method \in Agents[i].tools
    PROVE  Truthful'
<1> DEFINE n == Len(offered) + 1
<1>1. /\ DOMAIN offered' = DOMAIN offered \cup {n} /\ n \notin DOMAIN offered
      /\ \A i \in DOMAIN offered : offered'[i] = offered[i]
      /\ offered'[n] = Event(r, q, o)
  BY EventType, Offering DEF Typed
<1>2. /\ offered'[n].request = r /\ offered'[n].outcome = o
      /\ offered'[n].agent = Authenticate(q.token)
  BY <1>1, EventFields
<1> HIDE DEF n
<1>3. \A i \in DOMAIN offered :
          /\ state[offered[i].request] \in {"unauthorized", "refused", "answered", "error"}
          /\ offered[i].request \in Requests \ {r}
  BY EventsTyped DEF Truthful, LoggedLast, Typed
<1>4. LoggedLast'
  BY <1>1, <1>2, <1>3 DEF LoggedLast
<1>5. EventsTellTheTruth'
  <2>1. \A i \in DOMAIN offered' : \A j \in DOMAIN offered' :
            offered'[j].request = offered'[i].request => j = i
    BY <1>1, <1>2, <1>3 DEF Truthful, EventsTellTheTruth
  <2>2. \A i \in DOMAIN offered' :
            /\ offered'[i].outcome = "DENY" => offered'[i].request \notin wire' \cup reached'
            /\ offered'[i].outcome # "DENY" => offered'[i].request \in reached'
    BY <1>1, <1>2, <1>3 DEF Truthful, EventsTellTheTruth
  <2> QED
    BY <2>1, <2>2 DEF EventsTellTheTruth
<1>6. AgentsAreNamed'
  <2>1. \A i \in Authenticate(q.token) : Agents[i].token = q.token /\ q.token # ""
    BY DEF Authenticate
  <2>2. ASSUME NEW m \in DOMAIN offered, NEW x \in input'[offered'[m].request]
        PROVE  /\ \A i \in offered'[m].agent : Agents[i].token = x.token /\ x.token # ""
               /\ offered'[m].outcome = "ALLOW" =>
                      \E i \in offered'[m].agent : x.method \in Agents[i].tools
    <3>1. offered'[m] = offered[m] /\ x \in input[offered[m].request]
      BY <1>1, <1>3, <2>2
    <3> QED
      BY <3>1 DEF Truthful, AgentsAreNamed
  <2>3. ASSUME NEW x \in input'[offered'[n].request]
        PROVE  /\ \A i \in offered'[n].agent : Agents[i].token = x.token /\ x.token # ""
               /\ offered'[n].outcome = "ALLOW" =>
                      \E i \in offered'[n].agent : x.method \in Agents[i].tools
    <3>1. x = q
      BY <1>2, <2>3
    <3> QED
      BY <1>2, <2>1, <3>1
  <2> QED
    BY <1>1, <2>2, <2>3 DEF AgentsAreNamed
<1>7. AnsweredIsLogged'
  BY <1>1, <1>2 DEF Truthful, AnsweredIsLogged
<1> QED
  BY <1>4, <1>5, <1>6, <1>7 DEF Truthful

LEMMA TruthfulInit == Init => Truthful
<1> SUFFICES ASSUME Init PROVE Truthful
  OBVIOUS
<1>1. DOMAIN offered = {}
  BY DEF Init, SinkInit
<1>2. \A r \in Requests : input[r] = {}
  BY DEF Init
<1> QED
  BY <1>1, <1>2 DEF Truthful, LoggedLast, EventsTellTheTruth, AgentsAreNamed, AnsweredIsLogged

LEMMA TruthfulHandles ==
    ASSUME Typed, Typed', Truthful, NEW r \in Requests, NEW q \in Inputs, Handles(r, q)
    PROVE  Truthful'
<1>1. /\ state[r] = "new" /\ input' = [input EXCEPT ![r] = {q}] /\ reached' = reached
      /\ Passed(r, q) \/ Failed(r) \/ Denied(r, q)
  BY HandlesEffect
<1>2. r \notin wire \cup reached
  BY <1>1 DEF Typed, MadeOK
<1>3. input'[r] = {q} /\ \A p \in Requests \ {r} : input'[p] = input[p]
  BY <1>1 DEF Typed, MadeOK
<1>4. CASE Passed(r, q) \/ Failed(r)
  <2>1. UNCHANGED offered
    BY <1>4 DEF Passed, Failed, sinkVars, trail
  <2>2. PICK s \in {"forwarding", "error"} : state' = [state EXCEPT ![r] = s]
    BY <1>4 DEF Passed, Failed, Becomes
  <2>3. state'[r] = s /\ \A p \in Requests \ {r} : state'[p] = state[p]
    BY <2>2 DEF Typed, MadeOK
  <2>4. wire' = wire \/ wire' = wire \cup {r}
    BY <1>4 DEF Passed, Failed
  <2> QED
    BY <1>1, <1>3, <2>1, <2>3, <2>4, Unlogged
<1>5. CASE Denied(r, q)
  <2>1. PICK s \in {"error", "unauthorized", "refused"} : state' = [state EXCEPT ![r] = s]
    BY <1>5 DEF Denied, Becomes
  <2>2. state'[r] = s /\ \A p \in Requests \ {r} : state'[p] = state[p]
    BY <2>1 DEF Typed, MadeOK
  <2>3. Write(Event(r, q, "DENY")) /\ wire' = wire
    BY <1>5 DEF Denied
  <2>4. "DENY" \in Outcomes
    BY DEF Outcomes
  <2>5. MadeOK'
    BY DEF Typed
  <2> QED
    BY <1>1, <1>2, <1>3, <2>2, <2>3, <2>4, <2>5, LoggedStep
<1> QED
  BY <1>1, <1>4, <1>5

LEMMA TruthfulFinishes ==
    ASSUME Typed, Typed', Truthful, NEW r \in Requests, NEW q \in Inputs, Finishes(r, q)
    PROVE  Truthful'
<1>1. /\ state[r] = "forwarding" /\ q \in input[r]
      /\ UNCHANGED <<input, reached>> /\ wire' \subseteq wire
      /\ \/ UNCHANGED sinkVars /\ Becomes(r, "error")
         \/ UNCHANGED sinkVars /\ ~IsCall(q) /\ Becomes(r, "answered")
         \/ /\ r \in reached /\ Write(Event(r, q, Outcome(q)))
            /\ \E s \in {"answered", "error"} : Becomes(r, s)
  BY FinishesEffect
<1>2. input[r] = {q}
  BY <1>1 DEF Typed, MadeOK, MadeOnce
<1>3. /\ state'[r] \in {"answered", "error"}
      /\ \A p \in Requests \ {r} : state'[p] = state[p]
  BY FinishesMade DEF Typed
<1>4. CASE UNCHANGED sinkVars
  <2>1. UNCHANGED offered
    BY <1>4 DEF sinkVars, trail
  <2>2. state'[r] = "answered" => ~IsCall(q) \/ Write(Event(r, q, Outcome(q)))
    BY <1>1 DEF Becomes, Typed, MadeOK
  <2>3. ~Write(Event(r, q, Outcome(q)))
    BY <2>1, OutcomeType, EventType, Offering DEF Typed
  <2>4. \A p \in Requests : state[p] \in {"unauthorized", "refused", "answered", "error"} =>
            /\ state'[p] = state[p] /\ input'[p] = input[p]
            /\ p \in reached => p \in reached'
    BY <1>1, <1>3
  <2> QED
    BY <1>1, <1>2, <1>3, <2>1, <2>2, <2>3, <2>4, Unlogged
<1>5. CASE ~UNCHANGED sinkVars
  <2>1. Write(Event(r, q, Outcome(q))) /\ r \in reached
    BY <1>1, <1>5
  <2>2. Outcome(q) \in Outcomes /\ Outcome(q) # "DENY"
    BY OutcomeType
  <2>3. Outcome(q) = "ALLOW" => \E i \in Authenticate(q.token) : q.method \in Agents[i].tools
    BY DEF Outcome, Allowed, MayCall
  <2>4. MadeOK'
    BY DEF Typed
  <2> QED
    BY <1>1, <1>2, <1>3, <2>1, <2>2, <2>3, <2>4, LoggedStep
<1> QED
  BY <1>4, <1>5

LEMMA TruthfulNext == Typed /\ Truthful /\ [Next]_vars => Truthful'
<1> SUFFICES ASSUME Typed, Truthful, [Next]_vars PROVE Truthful'
  OBVIOUS
<1>1. Typed'
  BY TypedNext
<1>2. ASSUME NEW r \in Requests, TargetGets(r) PROVE Truthful'
  <2>1. UNCHANGED <<offered, input, state>> /\ wire' \cup reached' = wire \cup reached
        /\ reached \subseteq reached'
    BY <1>2 DEF TargetGets, sinkVars, trail
  <2> QED
    BY <2>1, Unlogged
<1>3. CASE (Delivers \/ Follows \/ UNCHANGED sinkVars) /\ UNCHANGED <<requests, process>>
  <2>1. UNCHANGED offered
    BY <1>3, WorkTypes DEF Works, Typed, sinkVars, trail
  <2>2. UNCHANGED <<input, state, wire, reached>>
    BY <1>3 DEF requests
  <2> QED
    BY <2>1, <2>2, Unlogged
<1>4. CASE Ends
  <2>1. UNCHANGED <<input, wire, reached, offered>>
    BY <1>4, EndsEffect
  <2>2. \A p \in Requests : state'[p] = state[p] \/ (state[p] = "forwarding" /\ state'[p] = "lost")
    BY <1>4, EndsEffect
  <2> QED
    BY <2>1, <2>2, Unlogged
<1> QED
  BY <1>1, <1>2, <1>3, <1>4, TruthfulHandles, TruthfulFinishes, NextKinds

LEMMA AlwaysTruthful == Spec => []Truthful
BY TruthfulInit, TruthfulNext, AlwaysTyped, PTL DEF Spec

(* A request has one event at most; one that is logged as denied is never  *)
(* on its way to the target, and one that is logged as passed on got there.*)
THEOREM TrailIsTrue == Spec => []EventsTellTheTruth
<1>1. Truthful => EventsTellTheTruth
  BY DEF Truthful
<1> QED
  BY <1>1, AlwaysTruthful, PTL

(* Whoever is refused, and whoever gets an answer to a call, has an event. *)
THEOREM AnswersAreLogged == Spec => []AnsweredIsLogged
<1>1. Truthful => AnsweredIsLogged
  BY DEF Truthful
<1> QED
  BY <1>1, AlwaysTruthful, PTL

(* Events name the agent whose token the caller has and whose scope let    *)
(* the call pass, for every list of agents, coinciding tokens included.    *)
THEOREM AgentsAreRight == Spec => []AgentsAreNamed
<1>1. Truthful => AgentsAreNamed
  BY DEF Truthful
<1> QED
  BY <1>1, AlwaysTruthful, PTL
-----------------------------------------------------------------------------
(* What becomes of the events.                                             *)

(* Only the queue of the Splunk sink and the open transaction of SQLite    *)
(* hold events back, the latter only events that failed to be committed;   *)
(* the file ends within a line only after a write that failed; and a       *)
(* process that has ended holds nothing.                                   *)
Held ==
    /\ sink = "jsonl" => pending = <<>>
    /\ sink = "sqlite" => Elements(pending) \subseteq failed
    /\ sink # "splunk" => posting = {} /\ late = {}
    /\ ending # "whole" => Len(offered) \in failed
    /\ ending = "unended" => stored[Len(stored)] \in failed
    /\ proc \in {"stopped", "cut"} => pending = <<>> /\ posting = {}

Kept == Held /\ Accounted /\ SpoiltByATornLine

LEMMA NoElements == Elements(<<>>) = {}
BY DEF Elements

(* The event that is glued away had failed.                                *)
LEMMA GluedAway ==
    ASSUME Typed, Held, Glue PROVE Elements(stored) \subseteq Elements(stored') \cup failed
<1>0. Len(stored) \in Nat /\ Firm \in Nat /\ Len(stored) <= Firm + 1
  BY FirmType DEF Typed
<1>1. DOMAIN stored = 1..Len(stored)
  BY FirmType DEF Typed
<1>2. /\ DOMAIN stored' = 1..Firm /\ \A i \in 1..Firm : stored'[i] = stored[i]
      /\ ending # "unended" => stored' = stored
  BY Gluing DEF Typed
<1>3. CASE ending # "unended"
  BY <1>2, <1>3
<1>4. CASE ending = "unended"
  <2>1. stored[Len(stored)] \in failed
    BY <1>4 DEF Held
  <2>2. ASSUME NEW i \in 1..Len(stored) PROVE stored[i] \in Elements(stored') \cup failed
    <3>1. i = Len(stored) \/ i \in 1..Firm
      BY <1>0
    <3>2. CASE i = Len(stored)
      BY <2>1, <3>2
    <3>3. CASE i \in 1..Firm
      <4>1. i \in DOMAIN stored' /\ stored'[i] = stored[i]
        BY <1>2, <3>3, Zenon
      <4> QED
        BY <4>1, Zenon DEF Elements
    <3> QED
      BY <3>1, <3>2, <3>3
  <2> QED
    BY <1>1, <2>2 DEF Elements
<1> QED
  BY <1>3, <1>4

LEMMA KeptWrite ==
    ASSUME Typed, Kept, NEW e \in Events, Write(e), proc \in {"running", "draining"},
           UNCHANGED process
    PROVE  Kept'
<1> DEFINE n == Len(offered) + 1
<1>1. /\ Len(offered) \in Nat /\ Positions' = Positions \cup {n} /\ n \notin Positions
      /\ Len(offered') = n /\ n \in Nat
  BY Offering, Longer DEF Typed
<1>2. /\ UNCHANGED <<sink, posting, late, proc, lost>>
      /\ AppendLine(n) \/ InsertRow(n) \/ Enqueue(n)
  BY DEF Write, splunk, process
<1>3. stored \in Seq(Positions) /\ pending \in Seq(Positions)
  BY DEF Typed, SinkTypeOK
<1>4. /\ Elements(Append(stored, n)) = Elements(stored) \cup {n}
      /\ Elements(Append(pending, n)) = Elements(pending) \cup {n}
  BY <1>3, Elements_
<1>5. failed \subseteq Positions /\ failed \subseteq failed' /\ Len(offered) = n - 1
  <2>1. failed \subseteq Positions
    BY DEF Typed, SinkTypeOK
  <2>2. failed \subseteq failed'
    BY <1>2 DEF AppendLine, InsertRow, Enqueue
  <2>3. Len(offered) = n - 1
    BY <1>1
  <2> QED
    BY <2>1, <2>2, <2>3
<1>6. /\ Positions \subseteq Elements(stored) \cup Elements(pending) \cup posting
                                 \cup failed \cup spoilt \cup lost
      /\ \A m \in spoilt : m > 1 /\ m - 1 \in failed
  BY DEF Kept, Accounted, SpoiltByATornLine
<1>7. (ending # "whole" => Len(offered) \in failed) /\ (sink # "jsonl" => ending = "whole")
  BY DEF Kept, Held, Typed, SinkTypeOK
<1>8. \A m \in failed : m >= 1
  BY <1>1, <1>5 DEF Positions
<1>9. proc' \notin {"stopped", "cut"}
  BY <1>2
<1> HIDE DEF n
<1>10. CASE AppendLine(n)
  <2>1. sink = "jsonl" /\ pending' = <<>> /\ pending = <<>>
    BY <1>10 DEF AppendLine, Kept, Held
  <2>2. n \in Elements(stored') \cup spoilt' \cup failed'
    BY <1>4, <1>10 DEF AppendLine
  <2>3. Elements(stored) \subseteq Elements(stored') \cup failed /\ spoilt \subseteq spoilt'
    BY <1>4, <1>10, GluedAway DEF AppendLine, Kept
  <2>4. ending' # "whole" => n \in failed'
    <3>1. CASE ending' = "whole"
      BY <3>1
    <3>2. CASE failed' = failed \cup {n}
      BY <3>2
    <3> QED
      BY <1>10, <3>1, <3>2 DEF AppendLine
  <2>5. \A m \in spoilt' : m \in spoilt \/ (m = n /\ ending # "whole")
    BY <1>10 DEF AppendLine
  <2>6. SpoiltByATornLine'
    BY <1>1, <1>5, <1>6, <1>7, <1>8, <2>5 DEF SpoiltByATornLine
  <2>7. Accounted'
    BY <1>1, <1>2, <1>5, <1>6, <1>9, <2>1, <2>2, <2>3, NoElements DEF Accounted
  <2>8. ASSUME ending' = "unended" PROVE stored'[Len(stored')] \in failed'
    <3>1. CASE stored' = Append(stored, n)
      <4>1. stored'[Len(stored')] = n
        BY <1>3, <3>1
      <4> QED
        BY <2>4, <2>8, <4>1
    <3>2. CASE UNCHANGED <<stored, ending>>
      BY <1>5, <2>8, <3>2 DEF Kept, Held
    <3> QED
      BY <1>10, <2>8, <3>1, <3>2 DEF AppendLine, file
  <2>9. Held'
    BY <1>1, <1>2, <1>9, <2>1, <2>4, <2>8 DEF Held, Kept
  <2> QED
    BY <2>6, <2>7, <2>9 DEF Kept
<1>11. CASE InsertRow(n)
  <2>1. sink = "sqlite" /\ ending' = "whole" /\ spoilt' = spoilt
    BY <1>7, <1>11 DEF InsertRow, file
  <2>2. Elements(pending) \subseteq failed /\ posting = {} /\ late = {}
    BY <2>1 DEF Kept, Held
  <2>3. SpoiltByATornLine'
    BY <1>5, <1>6, <2>1 DEF SpoiltByATornLine
  <2>4. CASE stored' = stored \o Append(pending, n) /\ pending' = <<>> /\ failed' = failed
    <3>1. stored \in Seq(Positions') /\ pending \in Seq(Positions') /\ n \in Positions'
      BY <1>1, <1>3, SeqMonotonic
    <3>2. Elements(stored') = Elements(stored) \cup Elements(pending) \cup {n}
      <4>1. Append(pending, n) \in Seq(Positions')
        BY <3>1
      <4>2. Elements(stored \o Append(pending, n)) = Elements(stored) \cup Elements(Append(pending, n))
        BY <3>1, <4>1, ElementsOfBoth
      <4> QED
        BY <1>4, <2>4, <4>2
    <3>3. Accounted'
      BY <1>1, <1>2, <1>6, <1>9, <2>1, <2>4, <3>2 DEF Accounted
    <3>4. Held'
      BY <1>2, <1>9, <2>1, <2>2, <2>4, NoElements DEF Held
    <3> QED
      BY <2>3, <3>3, <3>4 DEF Kept
  <2>5. CASE failed' = failed \cup {n} /\ stored' = stored
    <3>1. pending' \in {pending, Append(pending, n), <<>>}
      <4>1. n \notin failed
        BY <1>1, <1>5
      <4> QED
        BY <1>11, <2>5, <4>1 DEF InsertRow
    <3>2. Elements(pending') \subseteq failed'
      BY <1>4, <2>2, <2>5, <3>1, NoElements
    <3>3. Accounted'
      BY <1>1, <1>2, <1>6, <1>9, <2>1, <2>2, <2>5 DEF Accounted
    <3>4. Held'
      BY <1>2, <1>9, <2>1, <2>2, <3>2 DEF Held
    <3> QED
      BY <2>3, <3>3, <3>4 DEF Kept
  <2> QED
    BY <1>11, <2>4, <2>5 DEF InsertRow
<1>12. CASE Enqueue(n)
  <2>1. sink = "splunk" /\ pending' = Append(pending, n)
        /\ UNCHANGED <<stored, failed, spoilt>> /\ ending' = "whole"
    BY <1>7, <1>12 DEF Enqueue, file
  <2>2. SpoiltByATornLine'
    BY <1>6, <2>1 DEF SpoiltByATornLine
  <2>3. Accounted'
    BY <1>1, <1>2, <1>4, <1>6, <1>9, <2>1 DEF Accounted
  <2>4. Held'
    BY <1>2, <1>9, <2>1 DEF Held
  <2> QED
    BY <2>2, <2>3, <2>4 DEF Kept
<1> QED
  BY <1>2, <1>10, <1>11, <1>12

LEMMA KeptWorks ==
    ASSUME Typed, Kept, Delivers \/ Follows \/ UNCHANGED sinkVars,
           UNCHANGED <<proc, lost>> \/ (UNCHANGED sinkVars /\ lost' = lost /\ proc' \notin {"stopped", "cut"})
    PROVE  Kept'
<1> USE DEF trail, splunk
<1>1. UNCHANGED <<sink, offered, ending, spoilt>> /\ failed \subseteq failed'
  BY DEF Delivers, PostStarts, PostFails, PostReturns, Collect, Follows, TailShows, TailWatches,
         TailPolls, sinkVars, file
<1>2. SpoiltByATornLine'
  BY <1>1 DEF Kept, SpoiltByATornLine
<1>3. stored \in Seq(Positions) /\ pending \in Seq(Positions) /\ Positions' = Positions
  BY <1>1 DEF Typed, SinkTypeOK, Positions
<1>4. /\ Held /\ Accounted
      /\ sink = "splunk" => ending # "unended"
  BY DEF Kept, Typed, SinkTypeOK
<1>5. CASE PostStarts
  <2>1. pending # <<>> /\ posting = {} /\ posting' = {Head(pending)} /\ pending' = Tail(pending)
        /\ UNCHANGED <<stored, failed, late>> /\ sink = "splunk"
    BY <1>5 DEF PostStarts
  <2>2. Elements(pending) = Elements(pending') \cup posting'
    BY <1>3, <2>1, Elements_
  <2>3. proc \notin {"stopped", "cut"}
    BY <1>4, <2>1 DEF Held
  <2>4. proc' \notin {"stopped", "cut"} /\ lost' = lost
    BY <2>3
  <2>5. Accounted'
    BY <1>1, <1>3, <1>4, <2>1, <2>2, <2>4 DEF Accounted
  <2>6. Held'
    BY <1>1, <1>4, <2>1, <2>4 DEF Held
  <2> QED
    BY <1>2, <2>5, <2>6 DEF Kept
<1>6. CASE PostFails \/ PostReturns
  <2>1. posting # {} /\ posting' = {} /\ UNCHANGED <<stored, pending>>
        /\ posting \subseteq failed' \cup Elements(stored)
    BY <1>6 DEF PostFails, PostReturns
  <2>2. proc \notin {"stopped", "cut"} /\ sink = "splunk"
    BY <1>4, <2>1 DEF Held, Typed, SinkTypeOK, Sinks
  <2>3. proc' \notin {"stopped", "cut"} /\ lost' = lost
    BY <2>2
  <2>4. Accounted'
    BY <1>1, <1>3, <1>4, <2>1, <2>3 DEF Accounted
  <2>5. Held'
    BY <1>1, <1>4, <2>1, <2>2, <2>3 DEF Held
  <2> QED
    BY <1>2, <2>4, <2>5 DEF Kept
<1>7. ASSUME UNCHANGED <<pending, posting, late, failed>>, Elements(stored) \subseteq Elements(stored'),
             stored' = stored \/ sink = "splunk",
             UNCHANGED <<proc, lost>> \/ (lost' = lost /\ proc' \notin {"stopped", "cut"})
      PROVE  Kept'
  <2>1. Accounted'
    BY <1>1, <1>3, <1>4, <1>7 DEF Accounted
  <2>2. Held'
    BY <1>1, <1>4, <1>7 DEF Held
  <2> QED
    BY <1>2, <2>1, <2>2 DEF Kept
<1>8. ASSUME NEW n, Collect(n) PROVE Kept'
  <2>1. Elements(stored) \subseteq Elements(stored')
    BY <1>3, <1>8, Elements_ DEF Collect
  <2> QED
    BY <1>7, <1>8, <2>1 DEF Collect
<1>9. CASE Follows
  BY <1>7, <1>9 DEF Follows, TailShows, TailWatches, TailPolls
<1>10. CASE UNCHANGED sinkVars
  BY <1>7, <1>10 DEF sinkVars
<1> QED
  BY <1>5, <1>6, <1>8, <1>9, <1>10 DEF Delivers

LEMMA KeptEnds ==
    ASSUME Typed, Kept, SinkEnds, lost \subseteq lost',
           (Drained /\ proc = "closing") \/ posting \cup Elements(pending) \subseteq lost'
    PROVE  Kept'
<1>1. UNCHANGED <<sink, offered, stored, ending, failed, spoilt>> /\ pending' = <<>> /\ posting' = {}
      /\ late' = late \cup posting
  BY DEF SinkEnds, trail, file
<1>2. /\ sink \in Sinks /\ Positions' = Positions
      /\ Held /\ Accounted /\ SpoiltByATornLine
  BY <1>1 DEF Typed, SinkTypeOK, Kept, Positions
<1>3. Elements(pending) \cup posting \subseteq failed \cup lost'
  BY <1>2, NoElements DEF Held, Drained, Sinks
<1>4. SpoiltByATornLine'
  BY <1>1, <1>2 DEF SpoiltByATornLine
<1>5. Accounted'
  BY <1>1, <1>2, <1>3, NoElements DEF Accounted
<1>6. Held'
  BY <1>1, <1>2, NoElements DEF Held
<1> QED
  BY <1>4, <1>5, <1>6 DEF Kept

LEMMA KeptInit == Init => Kept
<1> SUFFICES ASSUME Init PROVE Kept
  OBVIOUS
<1>1. Positions = {}
  BY DEF Init, SinkInit, Positions
<1> QED
  BY <1>1, NoElements DEF Init, SinkInit, Kept, Held, Accounted, SpoiltByATornLine

LEMMA KeptNext == Typed /\ Kept /\ [Next]_vars => Kept'
<1> SUFFICES ASSUME Typed, Kept, [Next]_vars PROVE Kept'
  OBVIOUS
<1>1. ASSUME NEW r \in Requests, NEW q \in Inputs, Handles(r, q) PROVE Kept'
  <2>1. /\ proc \in {"running", "draining"} /\ UNCHANGED process
        /\ UNCHANGED sinkVars \/ Write(Event(r, q, "DENY"))
    BY <1>1, HandlesEffect DEF Passed, Failed, Denied, Alive
  <2>2. Event(r, q, "DENY") \in Events
    BY EventType DEF Outcomes
  <2> QED
    BY <2>1, <2>2, KeptWrite, KeptWorks DEF process
<1>2. ASSUME NEW r \in Requests, NEW q \in Inputs, Finishes(r, q) PROVE Kept'
  <2>1. /\ proc \in {"running", "draining"} /\ UNCHANGED process
        /\ UNCHANGED sinkVars \/ Write(Event(r, q, Outcome(q)))
    BY <1>2, FinishesEffect DEF Alive
  <2>2. Event(r, q, Outcome(q)) \in Events
    BY OutcomeType, EventType
  <2> QED
    BY <2>1, <2>2, KeptWrite, KeptWorks DEF process
<1>3. ASSUME NEW r \in Requests, TargetGets(r) PROVE Kept'
  BY <1>3, KeptWorks DEF TargetGets, process
<1>4. CASE (Delivers \/ Follows \/ UNCHANGED sinkVars) /\ UNCHANGED <<requests, process>>
  BY <1>4, KeptWorks DEF process
<1>5. CASE Drain \/ Close \/ Restart
  <2>1. UNCHANGED <<sinkVars, lost>> /\ proc' \notin {"stopped", "cut"}
    BY <1>5 DEF Drain, Close, Restart
  <2> QED
    BY <2>1, KeptWorks
<1>6. CASE Stop \/ StopInVain
  BY <1>6, KeptEnds DEF Stop, StopInVain
<1>7. CASE Crash
  BY <1>7, KeptEnds DEF Crash
<1> QED
  BY <1>1, <1>2, <1>3, <1>4, <1>5, <1>6, <1>7, NextKinds DEF Ends

LEMMA AlwaysKept == Spec => []Kept
BY KeptInit, KeptNext, AlwaysTyped, PTL DEF Spec

(* No event disappears without a failure of its own, a torn line before it *)
(* or the end of the process, an orderly stop takes none with it, and a    *)
(* line of the file is spoilt only by a failure of the write before it.    *)
THEOREM NoEventVanishes == Spec => []EventsAccounted
<1>1. Kept => EventsAccounted
  BY DEF Kept, EventsAccounted
<1> QED
  BY <1>1, AlwaysKept, PTL
-----------------------------------------------------------------------------
(* The sinks are trails.                                                   *)

Ascending(seq) == \A i, j \in DOMAIN seq : i < j => seq[i] < seq[j]
Distinct(seq) == \A i, j \in DOMAIN seq : i # j => seq[i] # seq[j]
Before(s, t) == \A i \in DOMAIN s, j \in DOMAIN t : s[i] < t[j]

(* The rows that wait for a commit come after those that were committed.   *)
InOrder ==
    /\ Distinct(stored)
    /\ sink # "splunk" => Ascending(stored)
    /\ sink = "sqlite" => Ascending(pending) /\ Before(stored, pending)

LEMMA AscendingDistinct ==
    ASSUME NEW n \in Nat, NEW seq \in Seq(1..n), Ascending(seq) PROVE Distinct(seq)
<1>1. DOMAIN seq \subseteq Nat /\ \A i \in DOMAIN seq : seq[i] \in 1..n
  OBVIOUS
<1>2. ASSUME NEW i \in DOMAIN seq, NEW j \in DOMAIN seq, i # j PROVE seq[i] # seq[j]
  <2>1. i < j \/ j < i
    BY <1>1, <1>2
  <2>2. seq[i] < seq[j] \/ seq[j] < seq[i]
    BY <2>1 DEF Ascending
  <2> QED
    BY <1>1, <2>2
<1> QED
  BY <1>2 DEF Distinct

LEMMA AscendingAppend ==
    ASSUME NEW n \in Nat, NEW seq \in Seq(1..n), Ascending(seq)
    PROVE  Append(seq, n + 1) \in Seq(1..(n + 1)) /\ Ascending(Append(seq, n + 1))
<1> DEFINE longer == Append(seq, n + 1)
<1>1. /\ Len(seq) \in Nat /\ DOMAIN seq = 1..Len(seq)
      /\ \A i \in 1..Len(seq) : seq[i] \in 1..n
      /\ DOMAIN longer = 1..(Len(seq) + 1)
      /\ \A i \in 1..Len(seq) : longer[i] = seq[i]
      /\ longer[Len(seq) + 1] = n + 1
  OBVIOUS
<1>2. longer \in Seq(1..(n + 1))
  BY Longer
<1> HIDE DEF longer
<1>3. Ascending(longer)
  BY <1>1 DEF Ascending
<1> QED
  BY <1>2, <1>3 DEF longer

LEMMA BeforeAppend ==
    ASSUME NEW n \in Nat, NEW s \in Seq(1..n), NEW seq \in Seq(1..n), Before(s, seq)
    PROVE  Before(s, Append(seq, n + 1))
<1> DEFINE longer == Append(seq, n + 1)
<1>1. /\ Len(seq) \in Nat /\ DOMAIN seq = 1..Len(seq)
      /\ DOMAIN longer = 1..(Len(seq) + 1)
      /\ \A i \in 1..Len(seq) : longer[i] = seq[i]
      /\ longer[Len(seq) + 1] = n + 1
      /\ \A i \in DOMAIN s : s[i] \in 1..n
  OBVIOUS
<1> HIDE DEF longer
<1>2. ASSUME NEW i \in DOMAIN s, NEW j \in DOMAIN longer PROVE s[i] < longer[j]
  <2>1. CASE j \in 1..Len(seq)
    BY <1>1, <2>1 DEF Before
  <2>2. CASE j = Len(seq) + 1
    BY <1>1, <2>2
  <2> QED
    BY <1>1, <2>1, <2>2
<1> QED
  BY <1>2 DEF Before, longer

LEMMA AscendingConcat ==
    ASSUME NEW n \in Nat, NEW s \in Seq(1..n), NEW t \in Seq(1..n),
           Ascending(s), Ascending(t), Before(s, t)
    PROVE  Ascending(s \o t)
<1> DEFINE u == s \o t
<1>1. /\ Len(s) \in Nat /\ Len(t) \in Nat /\ DOMAIN s = 1..Len(s) /\ DOMAIN t = 1..Len(t)
      /\ DOMAIN u = 1..(Len(s) + Len(t))
      /\ \A i \in 1..Len(s) : u[i] = s[i]
      /\ \A i \in DOMAIN u : i > Len(s) => u[i] = t[i - Len(s)] /\ i - Len(s) \in 1..Len(t)
  <2>1. /\ Len(s) \in Nat /\ Len(t) \in Nat /\ DOMAIN s = 1..Len(s) /\ DOMAIN t = 1..Len(t)
    OBVIOUS
  <2>2. /\ u \in Seq(1..n) /\ Len(u) = Len(s) + Len(t)
        /\ \A i \in 1..Len(s) + Len(t) : u[i] = IF i <= Len(s) THEN s[i] ELSE t[i - Len(s)]
    BY ConcatProperties
  <2>3. DOMAIN u = 1..(Len(s) + Len(t))
    BY <2>2
  <2> HIDE DEF u
  <2>4. \A i \in 1..Len(s) : u[i] = s[i]
    BY <2>1, <2>2
  <2>5. ASSUME NEW i \in 1..(Len(s) + Len(t)), i > Len(s)
        PROVE  u[i] = t[i - Len(s)] /\ i - Len(s) \in 1..Len(t)
    BY <2>1, <2>2, <2>5
  <2> QED
    BY <2>1, <2>3, <2>4, <2>5
<1> HIDE DEF u
<1>2. ASSUME NEW i \in DOMAIN u, NEW j \in DOMAIN u, i < j PROVE u[i] < u[j]
  <2>1. CASE j <= Len(s)
    <3>1. i \in 1..Len(s) /\ j \in 1..Len(s)
      BY <1>1, <1>2, <2>1
    <3>2. s[i] < s[j]
      BY <1>1, <1>2, <3>1 DEF Ascending
    <3> QED
      BY <1>1, <3>1, <3>2
  <2>2. CASE i <= Len(s) /\ j > Len(s)
    BY <1>1, <1>2, <2>2 DEF Before
  <2>3. CASE i > Len(s)
    <3>1. i - Len(s) < j - Len(s) /\ j > Len(s)
      BY <1>1, <1>2, <2>3
    <3> QED
      BY <1>1, <1>2, <2>3, <3>1 DEF Ascending
  <2> QED
    BY <1>1, <2>1, <2>2, <2>3
<1> QED
  BY <1>2 DEF Ascending, u

LEMMA AscendingStart ==
    ASSUME Ascending(stored), SinkTypeOK, Glue PROVE Ascending(stored')
<1>1. DOMAIN stored' = 1..Firm /\ \A i \in 1..Firm : i \in DOMAIN stored /\ stored'[i] = stored[i]
  BY Gluing
<1> QED
  BY <1>1 DEF Ascending

LEMMA NothingBefore ==
    Ascending(<<>>) /\ (\A s : Before(s, <<>>))
BY DEF Ascending, Before

LEMMA OrderedWrite ==
    ASSUME Typed, InOrder, Held, NEW e \in Events, Write(e) PROVE InOrder'
<1> DEFINE n == Len(offered)
<1>0. sink' = sink
  BY DEF Write
<1>1. n \in Nat /\ (AppendLine(n + 1) \/ InsertRow(n + 1) \/ Enqueue(n + 1))
  BY Offering DEF Typed, Write
<1>2. stored \in Seq(1..n) /\ pending \in Seq(1..n)
  <2>1. stored \in Seq(Positions) /\ pending \in Seq(Positions)
    BY DEF Typed, SinkTypeOK
  <2> QED
    BY <2>1 DEF Positions
<1>3. stored \in Seq(1..(n + 1)) /\ pending \in Seq(1..(n + 1))
  BY <1>1, <1>2, Longer, SeqMonotonic
<1>4. n + 1 \in Nat
  BY <1>1
<1> HIDE DEF n
<1>5. CASE AppendLine(n + 1)
  <2>1. sink = "jsonl" /\ (stored' = stored \/ stored' = Append(stored, n + 1) \/ Glue)
    BY <1>5 DEF AppendLine
  <2>2. Ascending(stored)
    BY <2>1 DEF InOrder
  <2>3. Ascending(Append(stored, n + 1)) /\ Append(stored, n + 1) \in Seq(1..(n + 1))
    BY <1>1, <1>2, <2>2, AscendingAppend
  <2>4. Ascending(stored') /\ stored' \in Seq(1..(n + 1))
    <3>1. CASE Glue
      <4>1. stored' \in Seq(Positions)
        BY <3>1, Gluing DEF Typed
      <4> QED
        BY <1>1, <2>2, <3>1, <4>1, AscendingStart, Longer, SeqMonotonic DEF Typed, Positions, n
    <3> QED
      BY <1>3, <2>1, <2>2, <2>3, <3>1
  <2>5. Distinct(stored')
    BY <1>4, <2>4, AscendingDistinct
  <2> QED
    BY <1>0, <2>1, <2>4, <2>5 DEF InOrder
<1>6. CASE InsertRow(n + 1)
  <2>1. sink = "sqlite" /\ Ascending(stored) /\ Ascending(pending) /\ Before(stored, pending)
        /\ Distinct(stored)
    BY <1>6 DEF InsertRow, InOrder
  <2> DEFINE rows == Append(pending, n + 1)
  <2>2. rows \in Seq(1..(n + 1)) /\ Ascending(rows) /\ Before(stored, rows)
    BY <1>1, <1>2, <2>1, AscendingAppend, BeforeAppend
  <2>3. /\ stored' = stored \/ (stored' = stored \o rows /\ pending' = <<>>)
        /\ pending' \in {pending, rows, <<>>}
    BY <1>6 DEF InsertRow
  <2> HIDE DEF rows
  <2>4. CASE stored' = stored
    BY <1>0, <2>1, <2>2, <2>3, <2>4, NothingBefore DEF InOrder
  <2>5. CASE stored' = stored \o rows /\ pending' = <<>>
    <3>1. Ascending(stored')
      BY <1>3, <1>4, <2>1, <2>2, <2>5, AscendingConcat
    <3>2. stored' \in Seq(1..(n + 1))
      BY <1>3, <2>2, <2>5, ConcatProperties
    <3>3. Distinct(stored')
      BY <1>4, <3>1, <3>2, AscendingDistinct
    <3> QED
      BY <1>0, <2>1, <2>5, <3>1, <3>3, NothingBefore DEF InOrder
  <2> QED
    BY <2>3, <2>4, <2>5
<1>7. CASE Enqueue(n + 1)
  BY <1>0, <1>7 DEF Enqueue, InOrder
<1> QED
  BY <1>1, <1>5, <1>6, <1>7

LEMMA OrderedWorks ==
    ASSUME Typed, InOrder, Held, Works \/ UNCHANGED sinkVars PROVE InOrder'
<1>1. ASSUME UNCHANGED <<sink, stored>>, pending' = pending \/ pending' = <<>> \/ sink = "splunk"
      PROVE  InOrder'
  BY <1>1, NothingBefore DEF InOrder
<1>2. ASSUME NEW n \in Positions, Collect(n) PROVE InOrder'
  <2>1. stored \in Seq(Positions) /\ n \notin Elements(stored) /\ stored' = Append(stored, n)
        /\ sink' = sink
    BY <1>2 DEF Collect, Typed, SinkTypeOK
  <2>2. sink = "splunk"
    BY <1>2 DEF Collect, Held
  <2>3. /\ DOMAIN stored = 1..Len(stored) /\ Len(stored) \in Nat
        /\ DOMAIN stored' = 1..(Len(stored) + 1)
        /\ \A i \in 1..Len(stored) : stored'[i] = stored[i]
        /\ stored'[Len(stored) + 1] = n
    BY <2>1
  <2>4. \A i \in 1..Len(stored) : stored[i] # n
    BY <2>1, <2>3 DEF Elements
  <2>5. Distinct(stored')
    BY <2>3, <2>4 DEF InOrder, Distinct
  <2> QED
    BY <2>1, <2>2, <2>5 DEF InOrder
<1>3. CASE PostStarts \/ PostFails \/ PostReturns \/ Follows
  BY <1>1, <1>3 DEF PostStarts, PostFails, PostReturns, Follows, TailShows, TailWatches, TailPolls, trail
<1>4. CASE SinkEnds
  BY <1>1, <1>4 DEF SinkEnds, trail
<1>5. CASE UNCHANGED sinkVars
  BY <1>1, <1>5 DEF sinkVars, trail
<1> QED
  BY <1>2, <1>3, <1>4, <1>5 DEF Works, Delivers, Positions

LEMMA OrderedNext == Typed /\ Kept /\ InOrder /\ [Next]_vars => InOrder'
BY SinkKinds, OrderedWrite, OrderedWorks DEF Kept

LEMMA OrderedInit == Init => InOrder
BY NothingBefore DEF Init, SinkInit, InOrder, Distinct, Ascending

LEMMA AlwaysInOrder == Spec => [](Typed /\ Held /\ InOrder)
<1>1. Kept => Held
  BY DEF Kept
<1> QED
  BY <1>1, OrderedInit, OrderedNext, AlwaysTyped, AlwaysKept, PTL DEF Spec

LEMMA TrailSound == ASSUME Typed, Held, InOrder PROVE Trail!Sound
<1>1. \A i \in DOMAIN stored : stored[i] \in 1..Len(offered)
  BY DEF Typed, SinkTypeOK, Positions
<1>2. Firm \in {Len(stored), Len(stored) - 1}
  BY DEF Firm
<1>3. ASSUME NEW i \in DOMAIN stored, i > Firm PROVE stored[i] \in failed
  <2>1. ending = "unended" /\ i = Len(stored)
    BY <1>3, FirmType DEF Typed
  <2> QED
    BY <2>1 DEF Held
<1> QED
  BY <1>1, <1>2, <1>3 DEF InOrder, Trail!Sound, Trail!Once, Trail!Increasing, Distinct, Ascending

(* Whatever fails, arrives late or is restarted, nothing is in the trail   *)
(* twice or without having been written, the local sinks keep the order of *)
(* the writes, and what may still go is a last event whose write failed.   *)
THEOREM TrailsAreSound == Spec => []Trail!Sound
<1>1. Typed /\ Held /\ InOrder => Trail!Sound
  BY TrailSound
<1> QED
  BY <1>1, AlwaysInOrder, PTL

LEMMA TrailStep ==
    ASSUME Typed, Typed', Trail!Sound', [Next]_vars PROVE Trail!Next
<1>1. SinkTypeOK /\ SinkTypeOK' /\ ((\E e \in Events : Write(e)) \/ Works \/ UNCHANGED sinkVars)
  BY SinkKinds DEF Typed
<1>2. ASSUME Still PROVE UNCHANGED <<stored, Firm>>
  BY <1>2 DEF Still
<1>3. ASSUME Grown PROVE Trail!Keep
  <2>1. Len(stored) <= Len(stored')
    BY <1>3 DEF Grown
  <2> QED
    BY <1>3, <2>1 DEF Grown, Trail!Keep
<1>4. ASSUME Shrunk PROVE Trail!Withdraw
  <2>1. Firm' = Firm /\ Firm < Len(stored)
    <3>1. Firm' = Len(stored') /\ Len(stored') = Firm
      BY <1>1, <1>4, Gluing DEF Shrunk, Firm
    <3> QED
      <4>1. ending = "unended"
        BY <1>4 DEF Shrunk
      <4>2. Firm = Len(stored) - 1 /\ Len(stored) \in Nat
        BY <1>1, <4>1, FirmType
      <4>3. Firm < Len(stored)
        BY <4>2
      <4> QED
        BY <3>1, <4>3
  <2>2. stored' = SubSeq(stored, 1, Firm)
    BY <1>4 DEF Shrunk, Glue
  <2> QED
    BY <2>1, <2>2 DEF Trail!Withdraw
<1>5. Trail!Keep \/ Trail!Withdraw \/ UNCHANGED <<stored, Firm>>
  <2>1. Still \/ Grown \/ Shrunk
    BY <1>1, TrailMoves
  <2> QED
    BY <1>2, <1>3, <1>4, <2>1
<1>6. (\E e \in Events : offered' = Append(offered, e)) \/ UNCHANGED offered
  BY <1>1, WorkTypes DEF Write, sinkVars, trail
<1>7. sink' = sink /\ failed \subseteq failed'
  BY <1>1 DEF Write, AppendLine, InsertRow, Enqueue, Works, Delivers, PostStarts, PostFails, PostReturns,
              Collect, Follows, TailShows, TailWatches, TailPolls, SinkEnds, sinkVars
<1> QED
  BY <1>5, <1>6, <1>7 DEF Trail!Next, Trail!Offer

(* Every sink implements the trail that core/audit_sink.py promises, with  *)
(* failed commits, lines cut anywhere, late POSTs, crashes and restarts:   *)
(* but for a last line cut just before its end, what is in it stays.       *)
THEOREM SinksAreTrails == Spec => ImplementsAuditTrail
<1>1. Init => Trail!Init
  BY DEF Init, SinkInit, Trail!Init, Firm
<1>2. Typed /\ Held /\ InOrder => Trail!Sound
  BY TrailSound
<1>3. Typed /\ Typed' /\ Trail!Sound' /\ [Next]_vars => [Trail!Next]_(Trail!vars)
  BY TrailStep
<1> QED
  BY <1>1, <1>2, <1>3, AlwaysInOrder, PTL DEF Spec, ImplementsAuditTrail, Trail!Spec
-----------------------------------------------------------------------------
(* The follower.                                                           *)

(* What FollowedOnce needs to be inductive: what was shown at the start is *)
(* in order already; if the log has become shorter than the baseline, an   *)
(* event that the follower had counted was withdrawn, and what comes next  *)
(* takes its place; and what it has not counted is newer than all it has   *)
(* printed.                                                                *)
ShownInOrder ==
    tail # "off" =>
        /\ sink # "splunk"
        /\ Ascending(printed)
        /\ Elements(printed) \subseteq Elements(stored) \cup withdrawn

Counted ==
    \A i \in DOMAIN stored :
        i <= baseline => stored[i] \in known \cup Elements(printed) \/ InPlaceOfAnother(i)

PlaceIsLeft ==
    baseline > Len(stored) =>
        \E w \in withdrawn \cap (known \cup Elements(printed)) :
            \A j \in DOMAIN stored : stored[j] < w

UncountedIsNewer ==
    \A i \in DOMAIN stored, k \in DOMAIN printed : i > baseline => printed[k] < stored[i]

Watched ==
    /\ ShownInOrder
    /\ tail = "watching" => Counted /\ PlaceIsLeft /\ UncountedIsNewer

(* The place of an event is not disturbed by what happens after it.        *)
LEMMA PlaceStays ==
    ASSUME NEW i \in DOMAIN stored, i \in DOMAIN stored', InPlaceOfAnother(i),
           \A j \in DOMAIN stored' : j <= i => j \in DOMAIN stored /\ stored'[j] = stored[j],
           i \in Nat, DOMAIN stored' \subseteq Nat,
           withdrawn \subseteq withdrawn', known' = known, Elements(printed) \subseteq Elements(printed')
    PROVE  InPlaceOfAnother(i)'
<1>1. PICK w \in withdrawn \cap (known \cup Elements(printed)) :
          w < stored[i] /\ \A j \in DOMAIN stored : j < i => stored[j] < w
  BY DEF InPlaceOfAnother, View
<1>2. w \in withdrawn' \cap (known' \cup Elements(printed'))
  BY <1>1
<1>3. w < stored'[i]
  <2>1. i <= i
    OBVIOUS
  <2> QED
    BY <1>1, <2>1
<1>4. ASSUME NEW j \in DOMAIN stored', j < i PROVE stored'[j] < w
  <2>1. j <= i
    BY <1>4
  <2> QED
    BY <1>1, <1>4, <2>1
<1> QED
  BY <1>2, <1>3, <1>4 DEF InPlaceOfAnother, View

(* Unseen, the log goes on, ...                                            *)
LEMMA WatchedGrown ==
    ASSUME Typed, Typed', InOrder, InOrder', Watched, UNCHANGED <<sink, follower>>, Grown,
           sink = "jsonl" => stored' = Append(stored, Len(offered) + 1),
           Len(offered') >= Len(offered)
    PROVE  Watched'
<1> DEFINE len == Len(stored)
           more == Len(stored')
<1>1. /\ \A i \in DOMAIN stored : i \in DOMAIN stored' /\ stored'[i] = stored[i]
      /\ \A i \in DOMAIN stored : stored[i] \in Positions
      /\ printed \in Seq(Positions) /\ baseline \in 0..len + 1
  <2>1. stored \in Seq(Positions) /\ printed \in Seq(Positions) /\ baseline \in 0..Firm + 1
        /\ stored' \in Seq(Positions') /\ offered \in Seq(Events)
    BY DEF Typed, SinkTypeOK, FollowerTypeOK
  <2> QED
    BY <2>1 DEF Grown, follower
<1>10. DOMAIN stored = 1..len /\ DOMAIN stored' = 1..more
  BY DEF Typed, SinkTypeOK
<1>11. len \in Nat /\ more \in Nat /\ len < more /\ Len(offered) \in Nat
       /\ baseline \in Nat /\ baseline <= len + 1
  BY <1>1 DEF Grown, Typed, SinkTypeOK
<1>12. /\ withdrawn' = withdrawn
       /\ tail' = tail /\ printed' = printed /\ baseline' = baseline /\ known' = known
  BY DEF Grown, follower
<1>13. sink = "jsonl" => more = len + 1 /\ stored'[len + 1] = Len(offered) + 1
  BY DEF Typed, SinkTypeOK
<1>14. PlaceIsLeft /\ baseline > len =>
          \E w \in withdrawn \cap (known \cup Elements(printed)) :
              \A j \in DOMAIN stored : stored[j] < w
  BY DEF PlaceIsLeft
<1>15. PlaceIsLeft' <=> (baseline' > more =>
          \E w \in withdrawn' \cap (known' \cup Elements(printed')) :
              \A j \in DOMAIN stored' : stored'[j] < w)
  BY DEF PlaceIsLeft
<1> HIDE DEF len, more
<1>2. Elements(stored) \subseteq Elements(stored')
  BY <1>1 DEF Elements
<1>3. ShownInOrder'
  BY <1>2, <1>12 DEF Watched, ShownInOrder
<1>4. CASE tail # "watching"
  BY <1>3, <1>4, <1>12 DEF Watched
<1>5. CASE tail = "watching"
  <2>1. Counted /\ PlaceIsLeft /\ UncountedIsNewer /\ sink # "splunk"
        /\ Elements(printed) \subseteq Elements(stored) \cup withdrawn
    BY <1>5 DEF Watched, ShownInOrder
  <2>2. sink \in {"jsonl", "sqlite"} /\ (sink = "sqlite" => withdrawn = {})
    BY <2>1 DEF Typed, SinkTypeOK, Sinks
  <2>4. ASSUME NEW i \in DOMAIN stored', i <= baseline
        PROVE  stored'[i] \in known \cup Elements(printed) \/ InPlaceOfAnother(i)'
    <3>1. CASE i \in DOMAIN stored
      <4>1. stored[i] \in known \cup Elements(printed) \/ InPlaceOfAnother(i)
        BY <2>1, <2>4, <3>1 DEF Counted
      <4>2. ASSUME NEW j \in DOMAIN stored', j <= i
            PROVE  j \in DOMAIN stored /\ stored'[j] = stored[j]
        <5>1. j \in DOMAIN stored
          BY <1>10, <1>11, <3>1, <4>2
        <5> QED
          BY <1>1, <5>1
      <4>3. i \in Nat /\ DOMAIN stored' \subseteq Nat
        BY <1>10, <3>1
      <4>4. InPlaceOfAnother(i) => InPlaceOfAnother(i)'
        <5>1. withdrawn \subseteq withdrawn' /\ Elements(printed) \subseteq Elements(printed')
          BY <1>12
        <5> QED
          BY <1>12, <2>4, <3>1, <4>2, <4>3, <5>1, PlaceStays, Zenon
      <4> QED
        BY <1>1, <3>1, <4>1, <4>4
    <3>2. CASE i \notin DOMAIN stored
      <4>1. i = len + 1 /\ baseline > len
        BY <1>10, <1>11, <2>4, <3>2
      <4>2. PICK w \in withdrawn \cap (known \cup Elements(printed)) :
                \A j \in DOMAIN stored : stored[j] < w
        BY <1>14, <2>1, <4>1
      <4>3. sink = "jsonl" /\ w \in Positions
        BY <2>2, <4>2 DEF Typed, SinkTypeOK
      <4>4. w < stored'[i]
        <5>1. stored'[i] = Len(offered) + 1 /\ w \in 1..Len(offered)
          BY <1>13, <4>1, <4>3 DEF Positions
        <5> QED
          BY <1>11, <5>1
      <4>5. ASSUME NEW j \in DOMAIN stored', j < i PROVE stored'[j] < w
        <5>1. j \in DOMAIN stored
          BY <1>10, <1>11, <4>1, <4>5
        <5> QED
          BY <1>1, <4>2, <5>1
      <4>6. w \in withdrawn' \cap (known' \cup Elements(printed'))
        BY <1>12, <4>2
      <4> QED
        BY <4>4, <4>5, <4>6 DEF InPlaceOfAnother, View
    <3> QED
      BY <3>1, <3>2
  <2>5. Counted'
    BY <1>12, <2>4 DEF Counted
  <2>6. PlaceIsLeft'
    <3>1. ~(baseline > more)
      BY <1>11
    <3> QED
      BY <1>12, <1>15, <3>1
  <2>7. ASSUME NEW i \in DOMAIN stored', NEW k \in DOMAIN printed, i > baseline
        PROVE  printed[k] < stored'[i]
    <3>1. printed[k] \in Positions /\ printed[k] \in Elements(stored) \cup withdrawn
      BY <1>1, <2>1 DEF Elements
    <3>2. CASE i \in DOMAIN stored
      <4>1. printed[k] < stored[i] /\ stored'[i] = stored[i]
        BY <1>1, <2>1, <2>7, <3>2 DEF UncountedIsNewer
      <4> QED
        BY <4>1
    <3>3. CASE i \notin DOMAIN stored /\ sink = "jsonl"
      <4>1. i = len + 1
        BY <1>10, <1>11, <1>13, <3>3
      <4>2. stored'[i] = Len(offered) + 1 /\ printed[k] \in 1..Len(offered)
        BY <1>13, <3>1, <3>3, <4>1 DEF Positions
      <4> QED
        BY <1>11, <4>2
    <3>4. CASE i \notin DOMAIN stored /\ sink = "sqlite"
      <4>1. PICK j \in DOMAIN stored : stored[j] = printed[k]
        BY <2>2, <3>1, <3>4 DEF Elements
      <4>2. j < i /\ j \in DOMAIN stored' /\ stored'[j] = printed[k]
        <5>1. j < i
          BY <1>10, <1>11, <3>4
        <5> QED
          BY <1>1, <4>1, <5>1
      <4>3. Ascending(stored')
        BY <2>1 DEF InOrder
      <4> QED
        BY <4>2, <4>3 DEF Ascending
    <3> QED
      BY <2>2, <3>2, <3>3, <3>4
  <2>8. UncountedIsNewer'
    BY <1>12, <2>7 DEF UncountedIsNewer
  <2> QED
    BY <1>3, <2>5, <2>6, <2>8 DEF Watched
<1> QED
  BY <1>4, <1>5

(* ... or loses its last event, ...                                        *)
LEMMA WatchedShrunk ==
    ASSUME Typed, InOrder, Watched, UNCHANGED <<sink, follower>>, Shrunk PROVE Watched'
<1> DEFINE last == Len(stored)
<1>1. /\ last \in Nat /\ last \in DOMAIN stored /\ DOMAIN stored = 1..last
      /\ DOMAIN stored' = 1..last - 1 /\ Len(stored') = last - 1
      /\ \A i \in DOMAIN stored' : i \in DOMAIN stored /\ i \in Nat /\ stored'[i] = stored[i]
      /\ withdrawn' = withdrawn \cup {stored[last]}
  <2>1. ending = "unended" /\ Glue /\ SinkTypeOK
    BY DEF Typed, Shrunk
  <2>2. /\ last \in Nat /\ last \in DOMAIN stored /\ DOMAIN stored = 1..last
        /\ Firm \in Nat /\ Firm = last - 1 /\ 1..Firm \subseteq DOMAIN stored
    BY <2>1, FirmType, Zenon
  <2>3. /\ DOMAIN stored' = 1..Firm /\ Len(stored') = Firm
        /\ \A i \in 1..Firm : i \in DOMAIN stored /\ stored'[i] = stored[i]
        /\ withdrawn' = withdrawn \cup {stored[last]}
    BY <2>1, Gluing, Zenon
  <2> HIDE DEF last
  <2>4. \A i \in DOMAIN stored' : i \in DOMAIN stored /\ i \in Nat /\ stored'[i] = stored[i]
    <3>1. \A i \in 1..Firm : i \in Nat
      BY <2>2
    <3> QED
      BY <2>3, <3>1
  <2>5. DOMAIN stored' = 1..last - 1 /\ Len(stored') = last - 1
    BY <2>2, <2>3
  <2> QED
    BY <2>2, <2>3, <2>4, <2>5, Zenon
<1>2. /\ tail' = tail /\ printed' = printed /\ baseline' = baseline /\ known' = known
      /\ sink' = sink /\ baseline \in 0..last
  BY FirmType DEF follower, Typed, FollowerTypeOK, Shrunk
<1> HIDE DEF last
<1>3. Elements(stored) \subseteq Elements(stored') \cup {stored[last]}
  <2>1. ASSUME NEW i \in DOMAIN stored PROVE i = last \/ i \in DOMAIN stored'
    BY <1>1
  <2> QED
    BY <1>1, <2>1 DEF Elements
<1>4. ShownInOrder'
  BY <1>1, <1>2, <1>3 DEF Watched, ShownInOrder
<1>5. CASE tail # "watching"
  BY <1>2, <1>4, <1>5 DEF Watched
<1>6. CASE tail = "watching"
  <2>1. Counted /\ UncountedIsNewer /\ sink # "splunk"
    BY <1>6 DEF Watched, ShownInOrder
  <2>2. ASSUME NEW i \in DOMAIN stored', i <= baseline
        PROVE  stored'[i] \in known \cup Elements(printed) \/ InPlaceOfAnother(i)'
    <3>1. stored[i] \in known \cup Elements(printed) \/ InPlaceOfAnother(i)
      BY <1>1, <2>1, <2>2 DEF Counted
    <3>2. DOMAIN stored' \subseteq Nat /\ i \in Nat
      BY <1>1
    <3>3. InPlaceOfAnother(i) => InPlaceOfAnother(i)'
      BY <1>1, <1>2, <2>2, <3>2, PlaceStays
    <3> QED
      BY <1>1, <3>1, <3>3
  <2>3. Counted'
    BY <1>2, <2>2 DEF Counted
  <2>4. ASSUME baseline > last - 1
        PROVE  \E w \in withdrawn' \cap (known \cup Elements(printed)) :
                   \A j \in DOMAIN stored' : stored'[j] < w
    <3>1. last <= baseline
      BY <1>1, <1>2, <2>4
    <3>2. CASE stored[last] \in known \cup Elements(printed)
      <4>1. Ascending(stored)
        BY <2>1 DEF InOrder
      <4>2. \A j \in DOMAIN stored' : j < last
        BY <1>1
      <4>3. \A j \in DOMAIN stored' : stored'[j] < stored[last]
        BY <1>1, <4>1, <4>2 DEF Ascending
      <4> QED
        BY <1>1, <3>2, <4>3
    <3>3. CASE InPlaceOfAnother(last)
      <4>1. PICK w \in withdrawn \cap (known \cup Elements(printed)) :
                \A j \in DOMAIN stored : j < last => stored[j] < w
        BY <3>3 DEF InPlaceOfAnother, View
      <4>2. \A j \in DOMAIN stored' : j < last
        BY <1>1
      <4> QED
        BY <1>1, <4>1, <4>2
    <3> QED
      BY <1>1, <2>1, <3>1, <3>2, <3>3 DEF Counted
  <2>5. PlaceIsLeft'
    BY <1>1, <1>2, <2>4 DEF PlaceIsLeft
  <2>6. UncountedIsNewer'
    BY <1>1, <1>2, <2>1 DEF UncountedIsNewer
  <2> QED
    BY <1>4, <2>3, <2>5, <2>6 DEF Watched
<1> QED
  BY <1>5, <1>6

(* The end of a sequence in order is in order.                             *)
LEMMA AscendingPart ==
    ASSUME NEW S, NEW seq \in Seq(S), NEW m \in Nat, m >= 1, Ascending(seq)
    PROVE  LET part == SubSeq(seq, m, Len(seq))
           IN  /\ part \in Seq(S) /\ Ascending(part)
               /\ DOMAIN part = 1..Len(seq) - m + 1
               /\ \A i \in DOMAIN part : m + i - 1 \in DOMAIN seq /\ part[i] = seq[m + i - 1]
<1> DEFINE part == SubSeq(seq, m, Len(seq))
<1>1. /\ Len(seq) \in Nat /\ DOMAIN seq = 1..Len(seq)
      /\ m \in Int /\ Len(seq) \in Int /\ \A i \in m..Len(seq) : seq[i] \in S
  OBVIOUS
<1>2. /\ part \in Seq(S)
      /\ Len(part) = IF m <= Len(seq) THEN Len(seq) - m + 1 ELSE 0
      /\ \A i \in 1..Len(seq) - m + 1 : part[i] = seq[m + i - 1]
  BY <1>1, SubSeqProperties
<1> HIDE DEF part
<1>3. DOMAIN part = 1..Len(part)
  BY <1>2
<1>4. 1..Len(part) = 1..Len(seq) - m + 1
  BY <1>1, <1>2
<1>5. \A i \in 1..Len(seq) - m + 1 : m + i - 1 \in 1..Len(seq)
  BY <1>1
<1>6. \A i \in DOMAIN part : m + i - 1 \in DOMAIN seq /\ part[i] = seq[m + i - 1]
  BY <1>1, <1>2, <1>3, <1>4, <1>5
<1>7. ASSUME NEW i \in DOMAIN part, NEW j \in DOMAIN part, i < j PROVE part[i] < part[j]
  <2>1. m + i - 1 < m + j - 1
    BY <1>3, <1>4, <1>7
  <2> QED
    BY <1>6, <2>1 DEF Ascending
<1> QED
  BY <1>2, <1>3, <1>4, <1>6, <1>7 DEF part, Ascending

(* ... and the follower shows the end of the log, ...                      *)
LEMMA WatchedShows ==
    ASSUME Typed, InOrder, TailShows PROVE Watched'
<1>1. /\ stored \in Seq(Positions) /\ Len(stored) \in Nat /\ stored' = stored
      /\ sink # "splunk" /\ sink' = sink /\ tail' = "shown"
      /\ printed' = Last(stored, Limit) /\ Limit \in Nat
  BY SinkAssumption DEF Typed, SinkTypeOK, TailShows, trail, View
<1>2. Ascending(stored)
  BY <1>1 DEF InOrder
<1>3. Ascending(printed') /\ Elements(printed') \subseteq Elements(stored)
  <2>1. CASE Len(stored) <= Limit
    BY <1>1, <1>2, <2>1 DEF Last
  <2>2. CASE ~(Len(stored) <= Limit)
    <3>1. /\ printed' = SubSeq(stored, Len(stored) - Limit + 1, Len(stored))
          /\ Len(stored) - Limit + 1 \in Nat /\ Len(stored) - Limit + 1 >= 1
      BY <1>1, <2>2 DEF Last
    <3> DEFINE m == Len(stored) - Limit + 1
    <3>2. m \in Nat /\ m >= 1 /\ printed' = SubSeq(stored, m, Len(stored))
      BY <3>1
    <3> HIDE DEF m
    <3> DEFINE part == SubSeq(stored, m, Len(stored))
    <3>3. /\ Ascending(part)
          /\ \A i \in DOMAIN part : m + i - 1 \in DOMAIN stored /\ part[i] = stored[m + i - 1]
      <4>1. stored \in Seq(Positions) /\ m \in Nat /\ m >= 1 /\ Ascending(stored)
        BY <1>1, <1>2, <3>2
      <4> QED
        BY <4>1, AscendingPart
    <3>4. printed' = part
      BY <3>2
    <3> HIDE DEF part
    <3>5. Elements(part) \subseteq Elements(stored)
      BY <3>3 DEF Elements
    <3> QED
      BY <3>3, <3>4, <3>5
  <2> QED
    BY <2>1, <2>2
<1> QED
  BY <1>1, <1>3 DEF Watched, ShownInOrder

(* ... counts what is there now, ...                                       *)
LEMMA WatchedWatches ==
    ASSUME Typed, Watched, TailWatches PROVE Watched'
<1>1. /\ stored \in Seq(Positions) /\ Len(stored) \in Nat /\ DOMAIN stored = 1..Len(stored)
      /\ stored' = stored /\ withdrawn' = withdrawn /\ sink' = sink
      /\ tail = "shown" /\ printed' = printed
      /\ baseline' = Len(stored) /\ known' = Elements(stored)
  BY DEF Typed, SinkTypeOK, TailWatches, trail, file, View
<1>2. ShownInOrder'
  BY <1>1 DEF Watched, ShownInOrder
<1>3. Counted'
  BY <1>1 DEF Counted, Elements
<1>4. PlaceIsLeft' /\ UncountedIsNewer'
  BY <1>1 DEF PlaceIsLeft, UncountedIsNewer
<1> QED
  BY <1>2, <1>3, <1>4 DEF Watched

(* ... and goes on from there.                                             *)
LEMMA WatchedPolls ==
    ASSUME Typed, InOrder, Watched, TailPolls PROVE Watched'
<1> DEFINE rest == SubSeq(stored, baseline + 1, Len(stored))
<1>1. /\ stored \in Seq(Positions) /\ Len(stored) \in Nat /\ DOMAIN stored = 1..Len(stored)
      /\ printed \in Seq(Positions) /\ baseline \in Nat
      /\ stored' = stored /\ withdrawn' = withdrawn /\ sink' = sink /\ known' = known
      /\ tail = "watching" /\ baseline' = Len(stored)
      /\ printed' = printed \o rest
  <2>1. baseline \in 0..Firm + 1 /\ Firm \in Nat
    BY FirmType DEF Typed, FollowerTypeOK
  <2> QED
    BY <2>1 DEF Typed, SinkTypeOK, FollowerTypeOK, TailPolls, trail, file, View
<1>2. /\ sink # "splunk" /\ Ascending(printed) /\ Elements(printed) \subseteq Elements(stored) \cup withdrawn
      /\ Counted /\ UncountedIsNewer
  BY <1>1 DEF Watched, ShownInOrder
<1>3. Ascending(stored)
  BY <1>2 DEF InOrder
<1>4. /\ rest \in Seq(Positions) /\ Ascending(rest) /\ DOMAIN rest = 1..Len(stored) - baseline
      /\ \A i \in DOMAIN rest : baseline + i \in DOMAIN stored /\ rest[i] = stored[baseline + i]
  <2>1. /\ baseline + 1 \in Nat /\ baseline + 1 >= 1
        /\ Len(stored) - (baseline + 1) + 1 = Len(stored) - baseline
        /\ \A i \in Nat : (baseline + 1) + i - 1 = baseline + i
    BY <1>1
  <2>2. \A i \in 1..Len(stored) - baseline : i \in Nat
    BY <1>1
  <2> DEFINE m == baseline + 1
  <2>3. m \in Nat /\ m >= 1 /\ rest = SubSeq(stored, m, Len(stored))
    BY <2>1
  <2>4. /\ rest \in Seq(Positions) /\ Ascending(rest) /\ DOMAIN rest = 1..Len(stored) - m + 1
        /\ \A i \in DOMAIN rest : m + i - 1 \in DOMAIN stored /\ rest[i] = stored[m + i - 1]
    <3>1. stored \in Seq(Positions) /\ m \in Nat /\ m >= 1 /\ Ascending(stored)
      BY <1>1, <1>3, <2>3
    <3> HIDE DEF m
    <3>2. LET part == SubSeq(stored, m, Len(stored))
          IN  /\ part \in Seq(Positions) /\ Ascending(part)
              /\ DOMAIN part = 1..Len(stored) - m + 1
              /\ \A i \in DOMAIN part : m + i - 1 \in DOMAIN stored /\ part[i] = stored[m + i - 1]
      BY <3>1, AscendingPart
    <3> QED
      BY <2>3, <3>2
  <2> HIDE DEF rest
  <2> QED
    BY <2>1, <2>2, <2>4
<1> HIDE DEF rest
<1>5. Before(printed, rest)
  <2>1. ASSUME NEW k \in DOMAIN printed, NEW i \in DOMAIN rest PROVE printed[k] < rest[i]
    <3>1. baseline + i > baseline
      BY <1>1, <1>4
    <3> QED
      BY <1>2, <1>4, <3>1 DEF UncountedIsNewer
  <2> QED
    BY <2>1 DEF Before
<1>6. Ascending(printed')
  <2>1. Len(offered) \in Nat /\ printed \in Seq(1..Len(offered)) /\ rest \in Seq(1..Len(offered))
    BY <1>1, <1>4 DEF Positions, Typed, SinkTypeOK
  <2> QED
    BY <1>1, <1>2, <1>4, <1>5, <2>1, AscendingConcat
<1>7. Elements(printed') = Elements(printed) \cup Elements(rest)
  BY <1>1, <1>4, ElementsOfBoth
<1>8. Elements(rest) \subseteq Elements(stored)
  BY <1>4 DEF Elements
<1>9. ShownInOrder'
  BY <1>1, <1>2, <1>6, <1>7, <1>8 DEF ShownInOrder
<1>10. ASSUME NEW i \in DOMAIN stored
       PROVE  stored[i] \in known \cup Elements(printed') \/ InPlaceOfAnother(i)'
  <2>1. CASE i <= baseline
    <3>1. stored[i] \in known \cup Elements(printed) \/ InPlaceOfAnother(i)
      BY <1>2, <2>1 DEF Counted
    <3>2. i \in Nat /\ DOMAIN stored' \subseteq Nat
      BY <1>1
    <3>3. InPlaceOfAnother(i) => InPlaceOfAnother(i)'
      BY <1>1, <1>7, <3>2, PlaceStays
    <3> QED
      BY <1>7, <3>1, <3>3
  <2>2. CASE ~(i <= baseline)
    <3>1. i - baseline \in DOMAIN rest /\ baseline + (i - baseline) = i
      BY <1>1, <1>4, <2>2
    <3>2. stored[i] \in Elements(rest)
      BY <1>4, <3>1 DEF Elements
    <3> QED
      BY <1>7, <3>2
  <2> QED
    BY <2>1, <2>2
<1>11. Counted'
  BY <1>1, <1>10 DEF Counted
<1>12. PlaceIsLeft' /\ UncountedIsNewer'
  BY <1>1 DEF PlaceIsLeft, UncountedIsNewer
<1> QED
  BY <1>9, <1>11, <1>12 DEF Watched

LEMMA WatchedNext ==
    Typed /\ Typed' /\ InOrder /\ InOrder' /\ Held /\ Watched /\ [Next]_vars => Watched'
<1> SUFFICES ASSUME Typed, Typed', InOrder, InOrder', Held, Watched, [Next]_vars PROVE Watched'
  OBVIOUS
<1>1. SinkTypeOK /\ ((\E e \in Events : Write(e)) \/ Works \/ UNCHANGED sinkVars)
  BY SinkKinds DEF Typed
<1>2. sink' = sink /\ (\/ UNCHANGED follower
                      \/ TailShows \/ TailWatches \/ TailPolls)
  BY <1>1 DEF Write, Works, Delivers, PostStarts, PostFails, PostReturns, Collect, Follows, SinkEnds,
              TailShows, TailWatches, TailPolls, sinkVars
<1>3. CASE UNCHANGED follower
  <2>1. CASE Still
    <3>1. UNCHANGED <<stored, withdrawn, sink, tail, printed, baseline, known>>
      BY <1>2, <1>3, <2>1 DEF Still, follower
    <3> QED
      BY <3>1 DEF Watched, ShownInOrder, Counted, PlaceIsLeft, UncountedIsNewer, InPlaceOfAnother, View
  <2>2. CASE Shrunk
    BY <1>2, <1>3, <2>2, WatchedShrunk
  <2>3. CASE Grown
    <3>1. sink = "jsonl" => stored' = Append(stored, Len(offered) + 1)
      <4>1. stored' # stored
        BY <2>3 DEF Grown
      <4>2. ~Glue \/ ending = "unended"
        BY <1>1, <4>1, Gluing
      <4>3. ending # "unended"
        BY <1>1, <2>3, FirmType DEF Grown
      <4>4. sink = "jsonl" => \E e \in Events : Write(e)
        BY <1>1, <4>1 DEF Works, Delivers, PostStarts, PostFails, PostReturns, Collect, Follows, TailShows,
                          TailWatches, TailPolls, SinkEnds, trail, sinkVars
      <4> QED
        BY <4>1, <4>2, <4>3, <4>4 DEF Write, AppendLine, InsertRow, Enqueue
    <3>2. Len(offered') >= Len(offered)
      <4>1. ASSUME NEW e \in Events, Write(e) PROVE Len(offered') >= Len(offered)
        BY <1>1, <4>1, Offering
      <4>2. ASSUME Works \/ UNCHANGED sinkVars PROVE Len(offered') >= Len(offered)
        <5>1. offered' = offered /\ Len(offered) \in Nat
          BY <1>1, <4>2, WorkTypes DEF sinkVars, trail, SinkTypeOK
        <5> QED
          BY <5>1
      <4> QED
        BY <1>1, <4>1, <4>2
    <3> QED
      BY <1>2, <1>3, <2>3, <3>1, <3>2, WatchedGrown
  <2> QED
    BY <1>1, <2>1, <2>2, <2>3, TrailMoves
<1> QED
  BY <1>2, <1>3, WatchedShows, WatchedWatches, WatchedPolls

(* Whatever the sink, its failures and the moments at which the follower   *)
(* reads: it prints nothing twice and nothing out of order, and of what    *)
(* came into the log since it began to watch it leaves out at most what    *)
(* stands where a line that it had counted was lost.                       *)
THEOREM FollowerPrintsOnce == Spec => []FollowedOnce
<1>1. Init => Watched
  BY DEF Init, SinkInit, Watched, ShownInOrder
<1>2. Watched => FollowedOnce
  BY DEF Watched, ShownInOrder, Counted, FollowedOnce, Ascending, Trail!Increasing, View
<1> QED
  BY <1>1, <1>2, WatchedNext, AlwaysInOrder, PTL DEF Spec
-----------------------------------------------------------------------------
(* Neither the queue nor a request goes in circles.                        *)

(* An event in the memory of the sink never goes back, and gets nearer to  *)
(* the head of the queue with every POST; only the head of it is posted.   *)
QueueMovesOn ==
    /\ \A i \in DOMAIN pending' :
          \/ pending'[i] = Len(offered) + 1
          \/ \E j \in DOMAIN pending : /\ pending'[i] = pending[j]
                                       /\ i <= j /\ (PostStarts => i < j)
    /\ \A n \in posting' : n \in posting \/ (pending # <<>> /\ n = Head(pending))

(* A request waits for the target once, and its end is final.              *)
RequestsMoveOn ==
    \A r \in Requests :
        \/ state'[r] = state[r]
        \/ state[r] = "new"
        \/ state[r] = "forwarding" /\ state'[r] \notin {"new", "forwarding"}

LEMMA QueueNext == ASSUME Typed, [Next]_vars PROVE QueueMovesOn
<1>0. pending \in Seq(Positions) /\ Len(pending) \in Nat /\ DOMAIN pending = 1..Len(pending)
  BY DEF Typed, SinkTypeOK
<1>1. CASE pending' = pending /\ posting' \subseteq posting
  <2>1. ~PostStarts
    BY <1>1 DEF PostStarts
  <2> QED
    BY <1>0, <1>1, <2>1 DEF QueueMovesOn
<1>2. CASE pending' = <<>> /\ posting' \subseteq posting
  BY <1>2 DEF QueueMovesOn
<1>3. ASSUME pending' = Append(pending, Len(offered) + 1), posting' = posting PROVE QueueMovesOn
  <2>1. /\ DOMAIN pending' = 1..Len(pending) + 1
        /\ \A i \in 1..Len(pending) : pending'[i] = pending[i]
        /\ pending'[Len(pending) + 1] = Len(offered) + 1
    BY <1>0, <1>3
  <2>2. ~PostStarts
    BY <1>3 DEF PostStarts
  <2>3. ASSUME NEW i \in DOMAIN pending', pending'[i] # Len(offered) + 1
        PROVE  \E j \in DOMAIN pending : pending'[i] = pending[j] /\ i <= j /\ (PostStarts => i < j)
    <3>1. i \in 1..Len(pending)
      BY <1>0, <2>1, <2>3
    <3>2. pending'[i] = pending[i] /\ i <= i
      BY <2>1, <3>1
    <3> QED
      BY <1>0, <2>2, <3>1, <3>2
  <2> QED
    BY <1>3, <2>3 DEF QueueMovesOn
<1>4. CASE PostStarts
  <2>1. /\ pending # <<>> /\ pending' = Tail(pending) /\ posting' = {Head(pending)}
    BY <1>4 DEF PostStarts
  <2>2. /\ pending' \in Seq(Positions) /\ Len(pending') = Len(pending) - 1
        /\ \A i \in 1..Len(pending') : pending'[i] = pending[i + 1]
    BY <1>0, <2>1, HeadTailProperties
  <2>3. ASSUME NEW i \in DOMAIN pending'
        PROVE  \E j \in DOMAIN pending : pending'[i] = pending[j] /\ i <= j /\ (PostStarts => i < j)
    <3>1. i \in 1..Len(pending') /\ i + 1 \in 1..Len(pending)
      BY <1>0, <2>2
    <3>2. pending'[i] = pending[i + 1] /\ i < i + 1 /\ i <= i + 1
      BY <2>2, <3>1
    <3> QED
      BY <1>0, <3>1, <3>2
  <2> QED
    BY <2>1, <2>3 DEF QueueMovesOn
<1>5. CASE Works
  <2>1. \/ PostStarts
        \/ pending' = pending /\ posting' \subseteq posting
        \/ pending' = <<>> /\ posting' \subseteq posting
    BY <1>5 DEF Works, Delivers, PostFails, PostReturns, Collect, splunk, Follows, TailShows,
                TailWatches, TailPolls, SinkEnds
  <2> QED
    BY <1>1, <1>2, <1>4, <2>1
<1>6. CASE \E e \in Events : Write(e)
  <2>1. /\ posting' = posting
        /\ \/ pending' = pending \/ pending' = <<>>
           \/ pending' = Append(pending, Len(offered) + 1)
    BY <1>6 DEF Write, AppendLine, InsertRow, Enqueue, splunk
  <2> QED
    BY <1>1, <1>2, <1>3, <2>1
<1> QED
  BY <1>1, <1>5, <1>6, SinkKinds DEF sinkVars, splunk

LEMMA RequestsNext == ASSUME Typed, [Next]_vars PROVE RequestsMoveOn
<1>0. MadeOK
  BY DEF Typed
<1>1. ASSUME NEW r \in Requests, NEW q \in Inputs, Handles(r, q) PROVE RequestsMoveOn
  BY <1>0, <1>1, HandlesEffect, HandlesMade DEF RequestsMoveOn
<1>2. ASSUME NEW r \in Requests, NEW q \in Inputs, Finishes(r, q) PROVE RequestsMoveOn
  BY <1>0, <1>2, FinishesEffect, FinishesMade DEF RequestsMoveOn
<1>3. CASE Ends
  <2>1. \A r \in Requests : state'[r] = state[r] \/ (state[r] = "forwarding" /\ state'[r] = "lost")
    BY <1>3, EndsEffect
  <2> QED
    BY <2>1 DEF RequestsMoveOn
<1>4. CASE UNCHANGED state
  BY <1>4 DEF RequestsMoveOn
<1> QED
  BY <1>1, <1>2, <1>3, <1>4, NextKinds DEF TargetGets, requests

(* What the liveness of queue and shutdown needs beside fairness: an event *)
(* that was given up is not queued again, later ones do not overtake it,   *)
(* and a request that is answered, or lost, is not taken up again.         *)
(* (splunk_hec.py 50-80, proxy_app.py 148-298)                             *)
THEOREM WorkMovesOn == Spec => [][QueueMovesOn /\ RequestsMoveOn]_vars
<1>1. Typed /\ [Next]_vars => [QueueMovesOn /\ RequestsMoveOn]_vars
  BY QueueNext, RequestsNext
<1> QED
  BY <1>1, AlwaysTyped, PTL DEF Spec
=============================================================================
