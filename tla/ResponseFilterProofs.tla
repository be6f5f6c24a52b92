------------------------- MODULE ResponseFilterProofs -------------------------
(***************************************************************************)
(* Theorems on filter and redaction, for values of any size and depth and  *)
(* any depth of the filter.                                                *)
(***************************************************************************)
EXTENDS ResponseFilter, SequenceTheorems, TLAPS

(* A node, and the containers it is in.                                    *)
UpTo(way) == {SubSeq(way, 1, n) : n \in 0..Len(way)}

LEMMA WaysUp ==
    ASSUME NEW way \in Seq(Nat), NEW a \in UpTo(way)
    PROVE  /\ a \in Seq(Nat) /\ Len(a) <= Len(way)
           /\ a = SubSeq(way, 1, Len(a))
           /\ Len(a) = Len(way) => a = way
           /\ Len(a) < Len(way) => a \in Above(way)
<1>1. PICK n \in 0..Len(way) : a = SubSeq(way, 1, n)
  BY DEF UpTo
<1>2. Len(way) \in Nat /\ n \in Nat /\ \A i \in 1..n : way[i] \in Nat
  OBVIOUS
<1>3. a \in Seq(Nat) /\ Len(a) = n
  <2>1. /\ SubSeq(way, 1, n) \in Seq(Nat)
        /\ Len(SubSeq(way, 1, n)) = IF 1 <= n THEN n - 1 + 1 ELSE 0
    BY <1>2, SubSeqProperties
  <2> QED
    BY <1>1, <1>2, <2>1
<1>4. Len(a) = Len(way) => a = way
  BY <1>1, <1>3, SubSeqFull
<1>5. ASSUME Len(a) < Len(way) PROVE a \in Above(way)
  <2>1. n \in 0..Len(way) - 1
    BY <1>2, <1>3, <1>5
  <2> QED
    BY <1>1, <2>1 DEF Above
<1> QED
  BY <1>1, <1>3, <1>4, <1>5

LEMMA ItselfUp ==
    ASSUME NEW way \in Seq(Nat) PROVE way \in UpTo(way) /\ <<>> \in UpTo(way)
<1>1. way = SubSeq(way, 1, Len(way)) /\ Len(way) \in 0..Len(way)
  BY SubSeqFull
<1>2. <<>> = SubSeq(way, 1, 0) /\ 0 \in 0..Len(way)
  BY SubSeqEmpty
<1> QED
  BY <1>1, <1>2 DEF UpTo

(* From a container there is a part on the way to each node in it.         *)
LEMMA NextPart ==
    ASSUME NEW v, IsValue(v), NEW way \in DOMAIN v, NEW a \in UpTo(way), a # way
    PROVE  /\ a \in DOMAIN v /\ v[a].kind \in Containers
           /\ \E w \in Parts(v, a) : w \in UpTo(way)
<1>1. way \in Seq(Nat) /\ \A b \in Above(way) : b \in DOMAIN v /\ v[b].kind \in Containers
  BY DEF IsValue
<1>2. /\ a \in Seq(Nat) /\ a = SubSeq(way, 1, Len(a)) /\ Len(way) \in Nat /\ Len(a) \in Nat
      /\ Len(a) < Len(way) /\ a \in Above(way)
  BY <1>1, WaysUp
<1> DEFINE n == Len(a)
           w == SubSeq(way, 1, n + 1)
<1>3. w \in UpTo(way)
  <2>1. n + 1 \in 0..Len(way)
    BY <1>2
  <2> QED
    BY <2>1 DEF UpTo
<1>4. Len(w) = n + 1
  <2>1. n + 1 \in Int /\ 1 <= n + 1 /\ \A i \in 1..n + 1 : way[i] \in Nat
    BY <1>1, <1>2
  <2> QED
    BY <1>1, <2>1, SubSeqProperties
<1>5. w \in DOMAIN v
  BY <1>1, <1>2, <1>3, <1>4, WaysUp
<1>6. SubSeq(w, 1, n) = a
  <2>1. CASE n = 0
    BY <1>2, <2>1, SubSeqEmpty
  <2>2. CASE n > 0
    <3>1. /\ 1 \in 1..Len(way) /\ n + 1 \in 1..Len(way)
          /\ 1 \in 1..(n + 1) - 1 + 1 /\ n \in 1..(n + 1) - 1 + 1
      BY <1>2, <2>2
    <3>2. SubSeq(SubSeq(way, 1, n + 1), 1, n) = SubSeq(way, 1 + 1 - 1, 1 + n - 1)
      BY <1>1, <3>1, SubSeqOfSubSeq
    <3>3. 1 + 1 - 1 = 1 /\ 1 + n - 1 = n
      BY <1>2
    <3> QED
      BY <1>2, <3>2, <3>3
  <2> QED
    BY <1>2, <2>1, <2>2
<1>7. w \in Parts(v, a)
  BY <1>4, <1>5, <1>6 DEF Parts
<1> QED
  BY <1>1, <1>2, <1>3, <1>7

LEMMA PartsAreDeeper ==
    ASSUME NEW v, IsValue(v), NEW way \in DOMAIN v, NEW w \in Parts(v, way)
    PROVE  w \in DOMAIN v /\ Len(w) = Len(way) + 1 /\ Len(way) \in Nat
BY DEF Parts, IsValue

(* What a mask does to a node.                                             *)
Masked(node) == IF node.text \in Secrets THEN [node EXCEPT !.text = "redacted"] ELSE node

LEMMA MaskOfANode ==
    ASSUME NEW node \in Nodes
    PROVE  /\ Masked(node) \in Nodes /\ Masked(node).kind = node.kind
           /\ Masked(Masked(node)) = Masked(node)
           /\ node.kind # "text" => Masked(node) = node
           /\ FilterString(node) = Masked(node)
<1>1. CASE node \in [kind : {"text"}, text : {"plain", "redacted"} \cup Secrets]
  BY <1>1 DEF Nodes, Masked, FilterString, Secrets
<1>2. CASE node \in [kind : Containers \cup {"other"}, text : {""}]
  BY <1>2 DEF Nodes, Masked, FilterString, Secrets, Containers
<1> QED
  BY <1>1, <1>2 DEF Nodes
-----------------------------------------------------------------------------
(* The copy has the form of the value throughout, and a call of the filter *)
(* knows how deep it is.                                                   *)
Typed ==
    /\ value \in Values
    /\ doing \in {"nothing", "filter", "redact"}
    /\ copy \in [DOMAIN value -> Nodes]
    /\ \A way \in DOMAIN value : copy[way].kind = value[way].kind
    /\ calls \subseteq [at : DOMAIN value, depth : Nat]
    /\ doing = "filter" => \A call \in calls : call.depth + 1 = Len(call.at)

(* A call to come will get to that node, if nothing stops it.              *)
Pending(way) == \E call \in calls : call.at \in UpTo(way)

(* The reference.                                                          *)
Filtered(way) == IF Len(way) <= MaxDepth THEN Masked(value[way]) ELSE value[way]

(* Each node is as it should be in the end, or a call for it is to come    *)
(* and it is as it was; what is redacted may have passed a filter before.  *)
Filtering ==
    \A way \in DOMAIN value :
        copy[way] = Filtered(way) \/ (copy[way] = value[way] /\ Pending(way))

Redacting ==
    \A way \in DOMAIN value :
        \/ copy[way] = Masked(value[way])
        \/ Masked(copy[way]) = Masked(value[way]) /\ Pending(way)

IInv ==
    /\ Typed
    /\ doing = "filter" => Filtering
    /\ doing = "redact" => Redacting
    /\ MaskedToTheDepth
    /\ LoggedClean

LEMMA ValueTyped ==
    ASSUME value \in Values
    PROVE  /\ IsValue(value) /\ value \in [DOMAIN value -> Nodes] /\ <<>> \in DOMAIN value
           /\ \A way \in DOMAIN value : way \in Seq(Nat)
BY FilterAssumption DEF IsValue

LEMMA CopyIsValue == ASSUME Typed PROVE IsValue(copy) /\ DOMAIN copy = DOMAIN value
<1>1. IsValue(value) /\ copy \in [DOMAIN value -> Nodes] /\ DOMAIN copy = DOMAIN value
  BY ValueTyped DEF Typed
<1>2. \A way \in DOMAIN value : copy[way].kind = value[way].kind
  BY DEF Typed
<1> QED
  BY <1>1, <1>2 DEF IsValue

(* What a mask does to a value.                                            *)
LEMMA MaskOfAValue ==
    ASSUME NEW v, v \in [DOMAIN v -> Nodes], NEW at \in DOMAIN v, Masks(v, at)
    PROVE  /\ copy' \in [DOMAIN v -> Nodes]
           /\ copy'[at] = Masked(v[at])
           /\ \A way \in DOMAIN v : way # at => copy'[way] = v[way]
           /\ \A way \in DOMAIN v : copy'[way].kind = v[way].kind
<1>1. v[at] \in Nodes
  OBVIOUS
<1>2. /\ Masked(v[at]) \in Nodes /\ Masked(v[at]).kind = v[at].kind
      /\ v[at].kind # "text" => Masked(v[at]) = v[at]
      /\ FilterString(v[at]) = Masked(v[at])
  BY <1>1, MaskOfANode
<1>3. CASE v[at].kind = "text"
  <2>1. copy' = [v EXCEPT ![at] = Masked(v[at])]
    BY <1>2, <1>3 DEF Masks
  <2> QED
    BY <1>2, <2>1
<1>4. CASE v[at].kind # "text"
  BY <1>2, <1>4 DEF Masks
<1> QED
  BY <1>3, <1>4

(* A call that is made masks its node, and is replaced by calls for what   *)
(* is below it.                                                            *)
LEMMA CallMade ==
    ASSUME Typed, NEW call \in calls, Makes(call), UNCHANGED value
    PROVE  /\ copy' \in [DOMAIN value -> Nodes]
           /\ calls' \subseteq [at : DOMAIN value, depth : Nat]
           /\ copy'[call.at] = Masked(copy[call.at])
           /\ \A way \in DOMAIN value : way # call.at => copy'[way] = copy[way]
           /\ \A way \in DOMAIN value : copy'[way].kind = copy[way].kind
           /\ \A way \in DOMAIN value : way # call.at /\ Pending(way) => Pending(way)'
           /\ \A c \in calls' \ calls : c.depth = call.depth + 1 /\ Len(c.at) = Len(call.at) + 1
<1>1. IsValue(copy) /\ DOMAIN copy = DOMAIN value /\ copy \in [DOMAIN copy -> Nodes]
  BY CopyIsValue DEF Typed
<1>2. call.at \in DOMAIN value /\ call.depth \in Nat
  BY DEF Typed
<1>3. /\ copy' \in [DOMAIN value -> Nodes]
      /\ copy'[call.at] = Masked(copy[call.at])
      /\ \A way \in DOMAIN value : way # call.at => copy'[way] = copy[way]
      /\ \A way \in DOMAIN value : copy'[way].kind = copy[way].kind
  BY <1>1, <1>2, MaskOfAValue DEF Makes
<1>4. /\ calls' = (calls \ {call}) \cup OnParts(copy, call.at, call.depth + 1)
      /\ \A w \in Parts(copy, call.at) : w \in DOMAIN value /\ Len(w) = Len(call.at) + 1
  BY <1>1, <1>2, PartsAreDeeper DEF Makes
<1>5. calls' \subseteq [at : DOMAIN value, depth : Nat]
  BY <1>2, <1>4 DEF Typed, OnParts
<1>6. \A c \in calls' \ calls : c.depth = call.depth + 1 /\ Len(c.at) = Len(call.at) + 1
  BY <1>4 DEF OnParts
<1>7. ASSUME NEW way \in DOMAIN value, way # call.at, Pending(way) PROVE Pending(way)'
  <2>1. PICK c \in calls : c.at \in UpTo(way)
    BY <1>7 DEF Pending
  <2>2. CASE c # call
    BY <1>4, <2>1, <2>2 DEF Pending
  <2>3. CASE c = call
    <3>1. PICK w \in Parts(copy, call.at) : w \in UpTo(way)
      BY <1>1, <1>7, <2>1, <2>3, NextPart
    <3>2. [at |-> w, depth |-> call.depth + 1] \in calls'
      BY <1>4 DEF OnParts
    <3> QED
      BY <3>1, <3>2 DEF Pending
  <2> QED
    BY <2>2, <2>3
<1> QED
  BY <1>3, <1>5, <1>6, <1>7

LEMMA FilterStarts == ASSUME IInv, FilterResponse PROVE IInv'
<1>1. /\ value' = value /\ doing' = "filter" /\ given' = given /\ logged' = logged
      /\ Masks(value, <<>>) /\ calls' = OnParts(value, <<>>, 0)
      /\ value \in Values /\ given = {}
  BY DEF FilterResponse, IInv, Typed
<1>2. /\ IsValue(value) /\ value \in [DOMAIN value -> Nodes] /\ <<>> \in DOMAIN value
      /\ \A way \in DOMAIN value : way \in Seq(Nat)
  BY <1>1, ValueTyped
<1>3. /\ copy' \in [DOMAIN value -> Nodes] /\ copy'[<<>>] = Masked(value[<<>>])
      /\ \A way \in DOMAIN value : way # <<>> => copy'[way] = value[way]
      /\ \A way \in DOMAIN value : copy'[way].kind = value[way].kind
  BY <1>1, <1>2, MaskOfAValue
<1>4. \A c \in calls' : c \in [at : DOMAIN value, depth : Nat] /\ c.depth + 1 = Len(c.at)
  <2>1. PICK root \in DOMAIN value : root = <<>> /\ Len(root) = 0
    BY <1>2, EmptySeq
  <2>2. calls' = OnParts(value, root, 0)
    BY <1>1, <2>1
  <2>3. \A w \in Parts(value, root) : w \in DOMAIN value /\ Len(w) = 0 + 1
    BY <1>2, <2>1, PartsAreDeeper
  <2>4. ASSUME NEW c \in calls' PROVE c \in [at : DOMAIN value, depth : Nat] /\ c.depth + 1 = Len(c.at)
    <3>1. PICK w \in Parts(value, root) : c = [at |-> w, depth |-> 0]
      BY <2>2 DEF OnParts
    <3>2. c.at = w /\ c.depth = 0 /\ w \in DOMAIN value /\ Len(w) = 1
      BY <2>3, <3>1
    <3> QED
      BY <3>1, <3>2
  <2> QED
    BY <2>4
<1>5. Typed'
  BY <1>1, <1>3, <1>4 DEF Typed
<1>6. ASSUME NEW way \in DOMAIN value
      PROVE  copy'[way] = Filtered(way) \/ (copy'[way] = value[way] /\ Pending(way)')
  <2>1. CASE way = <<>>
    BY <1>3, <2>1, FilterAssumption DEF Filtered
  <2>2. CASE way # <<>>
    <3>1. PICK w \in Parts(value, <<>>) : w \in UpTo(way)
      BY <1>2, <2>2, ItselfUp, NextPart
    <3>2. [at |-> w, depth |-> 0] \in calls'
      BY <1>1 DEF OnParts
    <3> QED
      BY <1>3, <2>2, <3>1, <3>2 DEF Pending
  <2> QED
    BY <2>1, <2>2
<1>7. Filtering'
  BY <1>1, <1>6 DEF Filtering, Filtered
<1> QED
  BY <1>1, <1>5, <1>7 DEF IInv, MaskedToTheDepth, LoggedClean

LEMMA FilterGoesOn == ASSUME IInv, NEW call \in calls, FilterValue(call) PROVE IInv'
<1>1. /\ doing = "filter" /\ UNCHANGED <<value, doing, given, logged>>
      /\ Typed /\ Filtering
  BY DEF FilterValue, IInv
<1>2. /\ call.at \in DOMAIN value /\ call.depth \in Nat /\ call.depth + 1 = Len(call.at)
      /\ MaxDepth \in Nat
      /\ value \in [DOMAIN value -> Nodes] /\ \A way \in DOMAIN value : way \in Seq(Nat)
  BY <1>1, ValueTyped, FilterAssumption DEF Typed
<1>3. CASE call.depth < MaxDepth /\ Makes(call)
  <2>1. Typed'
    <3>1. \A c \in calls' : c.depth + 1 = Len(c.at)
      BY <1>1, <1>2, <1>3, CallMade DEF Typed
    <3> QED
      BY <1>1, <1>3, <3>1, CallMade DEF Typed
  <2>2. ASSUME NEW way \in DOMAIN value
        PROVE  copy'[way] = Filtered(way) \/ (copy'[way] = value[way] /\ Pending(way)')
    <3>1. CASE way = call.at
      <4>1. Filtered(way) = Masked(value[way])
        BY <1>2, <1>3, <3>1 DEF Filtered
      <4>2. Masked(Masked(value[way])) = Masked(value[way])
        BY <1>2, MaskOfANode
      <4>3. copy[way] \in {value[way], Filtered(way)} /\ copy'[way] = Masked(copy[way])
        BY <1>1, <1>3, <3>1, CallMade DEF Filtering
      <4> QED
        BY <4>1, <4>2, <4>3
    <3>2. CASE way # call.at
      BY <1>1, <1>3, <3>2, CallMade DEF Filtering
    <3> QED
      BY <3>1, <3>2
  <2>3. Filtering'
    BY <1>1, <2>2 DEF Filtering, Filtered
  <2> QED
    BY <1>1, <2>1, <2>3 DEF IInv, MaskedToTheDepth, LoggedClean
<1>4. CASE call.depth >= MaxDepth /\ calls' = calls \ {call} /\ copy' = copy
  <2>1. Typed'
    BY <1>1, <1>4 DEF Typed
  <2>2. ASSUME NEW way \in DOMAIN value
        PROVE  copy'[way] = Filtered(way) \/ (copy'[way] = value[way] /\ Pending(way)')
    <3>1. CASE copy[way] = Filtered(way)
      BY <1>4, <3>1
    <3>2. CASE copy[way] = value[way] /\ Pending(way)
      <4>1. PICK c \in calls : c.at \in UpTo(way)
        BY <3>2 DEF Pending
      <4>2. CASE c = call
        <5>1. Len(call.at) <= Len(way) /\ Len(way) \in Nat
          BY <1>2, <4>1, <4>2, WaysUp
        <5>2. ~(Len(way) <= MaxDepth)
          BY <1>2, <1>4, <5>1
        <5> QED
          BY <1>4, <3>2, <5>2 DEF Filtered
      <4>3. CASE c # call
        BY <1>4, <3>2, <4>1, <4>3 DEF Pending
      <4> QED
        BY <4>2, <4>3
    <3> QED
      BY <1>1, <3>1, <3>2 DEF Filtering
  <2>3. Filtering'
    BY <1>1, <2>2 DEF Filtering, Filtered
  <2> QED
    BY <1>1, <2>1, <2>3 DEF IInv, MaskedToTheDepth, LoggedClean
<1> QED
  BY <1>3, <1>4 DEF FilterValue

(* What is no longer to be called is as it should be in the end.           *)
LEMMA FilterEnds == ASSUME IInv, FilterReturns PROVE IInv'
<1>1. /\ doing = "filter" /\ calls = {} /\ doing' = "nothing" /\ given' = {copy}
      /\ UNCHANGED <<value, copy, calls, logged>> /\ Typed /\ Filtering
  BY DEF FilterReturns, IInv
<1>2. Typed'
  BY <1>1 DEF Typed
<1>3. copy = [way \in DOMAIN value |-> Filtered(way)]
  BY <1>1 DEF Typed, Filtering, Pending
<1>4. copy = Without(value, {way \in DOMAIN value : Len(way) <= MaxDepth})
  BY <1>3 DEF Filtered, Masked, Without
<1> QED
  BY <1>1, <1>2, <1>4 DEF IInv, MaskedToTheDepth, LoggedClean

LEMMA RedactStarts == ASSUME IInv, RedactParams PROVE IInv'
<1>1. /\ doing' = "redact" /\ copy' \in given \cup {value}
      /\ calls' = {[at |-> <<>>, depth |-> 0]}
      /\ UNCHANGED <<value, given, logged>> /\ Typed /\ MaskedToTheDepth
  BY DEF RedactParams, IInv
<1>2. /\ value \in Values /\ value \in [DOMAIN value -> Nodes] /\ <<>> \in DOMAIN value
      /\ \A way \in DOMAIN value : way \in Seq(Nat)
  BY <1>1, ValueTyped DEF Typed
<1>3. \A way \in DOMAIN value :
          /\ Masked(value[way]) \in Nodes /\ Masked(value[way]).kind = value[way].kind
          /\ Masked(Masked(value[way])) = Masked(value[way])
  BY <1>2, MaskOfANode
<1>5. /\ DOMAIN copy' = DOMAIN value /\ copy' = [way \in DOMAIN value |-> copy'[way]]
      /\ \A way \in DOMAIN value : copy'[way] \in {value[way], Masked(value[way])}
  <2>1. CASE copy' = value
    BY <1>2, <2>1
  <2>2. CASE copy' \in given
    <3>1. copy' = Without(value, {way \in DOMAIN value : Len(way) <= MaxDepth})
      BY <1>1, <2>2 DEF MaskedToTheDepth
    <3> QED
      BY <3>1 DEF Without, Masked
  <2> QED
    BY <1>1, <2>1, <2>2
<1>6. Typed'
  <2>1. copy' \in [DOMAIN value -> Nodes] /\ \A way \in DOMAIN value : copy'[way].kind = value[way].kind
    BY <1>2, <1>3, <1>5
  <2> QED
    BY <1>1, <1>2, <2>1 DEF Typed
<1>7. ASSUME NEW way \in DOMAIN value PROVE Masked(copy'[way]) = Masked(value[way]) /\ Pending(way)'
  BY <1>1, <1>2, <1>3, <1>5, ItselfUp DEF Pending
<1>8. Redacting'
  BY <1>1, <1>7 DEF Redacting
<1> QED
  BY <1>1, <1>6, <1>8 DEF IInv, MaskedToTheDepth, LoggedClean

LEMMA RedactGoesOn == ASSUME IInv, NEW call \in calls, RedactValue(call) PROVE IInv'
<1>1. /\ doing = "redact" /\ UNCHANGED <<value, doing, given, logged>> /\ Makes(call)
      /\ Typed /\ Redacting
  BY DEF RedactValue, IInv
<1>2. value \in [DOMAIN value -> Nodes] /\ call.at \in DOMAIN value
  BY <1>1, ValueTyped DEF Typed
<1>3. Typed'
  BY <1>1, CallMade DEF Typed
<1>4. ASSUME NEW way \in DOMAIN value
      PROVE  \/ copy'[way] = Masked(value[way])
             \/ Masked(copy'[way]) = Masked(value[way]) /\ Pending(way)'
  <2>1. CASE way = call.at
    <3>1. copy'[way] = Masked(copy[way]) /\ Masked(Masked(value[way])) = Masked(value[way])
      BY <1>1, <1>2, <2>1, CallMade, MaskOfANode
    <3> QED
      BY <1>1, <3>1 DEF Redacting
  <2>2. CASE way # call.at
    BY <1>1, <2>2, CallMade DEF Redacting
  <2> QED
    BY <2>1, <2>2
<1>5. Redacting'
  BY <1>1, <1>4 DEF Redacting
<1> QED
  BY <1>1, <1>3, <1>5 DEF IInv, MaskedToTheDepth, LoggedClean

LEMMA RedactEnds == ASSUME IInv, RedactReturns PROVE IInv'
<1>1. /\ doing = "redact" /\ calls = {} /\ doing' = "nothing" /\ logged' = {copy}
      /\ UNCHANGED <<value, copy, calls, given>> /\ Typed /\ Redacting
  BY DEF RedactReturns, IInv
<1>2. Typed'
  BY <1>1 DEF Typed
<1>3. copy = [way \in DOMAIN value |-> Masked(value[way])]
  BY <1>1 DEF Typed, Redacting, Pending
<1>4. copy = Without(value, DOMAIN value)
  BY <1>3 DEF Masked, Without
<1> QED
  BY <1>1, <1>2, <1>4 DEF IInv, MaskedToTheDepth, LoggedClean

LEMMA Invariance == Spec => []IInv
<1>1. Init => IInv
  BY ValueTyped DEF Init, IInv, Typed, MaskedToTheDepth, LoggedClean
<1>2. IInv /\ [Next]_vars => IInv'
  <2>1. ASSUME IInv, UNCHANGED vars PROVE IInv'
    <3>1. UNCHANGED <<value, doing, copy, calls, given, logged>>
      BY <2>1 DEF vars, work
    <3>2. Typed' /\ (Filtering => Filtering') /\ (Redacting => Redacting')
      BY <2>1, <3>1 DEF IInv, Typed, Filtering, Filtered, Redacting, Pending
    <3> QED
      BY <2>1, <3>1, <3>2 DEF IInv, MaskedToTheDepth, LoggedClean
  <2> QED
    BY <2>1, FilterStarts, FilterGoesOn, FilterEnds, RedactStarts, RedactGoesOn, RedactEnds DEF Next
<1> QED
  BY <1>1, <1>2, PTL DEF Spec

(* However large and deep an answer is, and whatever the limit: the filter *)
(* masks each text that holds a secret down to its depth, and no other     *)
(* node changes.                                                           *)
THEOREM FilterMasks == Spec => []MaskedToTheDepth
<1>1. IInv => MaskedToTheDepth
  BY DEF IInv
<1> QED
  BY <1>1, Invariance, PTL

(* However deep the parameters are, filtered before or not, what an event  *)
(* has as params_redacted has no secret of theirs, and differs from them   *)
(* in nothing else.                                                        *)
THEOREM LogIsClean == Spec => []LoggedClean
<1>1. IInv => LoggedClean
  BY DEF IInv
<1> QED
  BY <1>1, Invariance, PTL
=============================================================================
