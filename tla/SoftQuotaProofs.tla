---------------------------- MODULE SoftQuotaProofs ----------------------------
(***************************************************************************)
(* The bounds of a soft quota, for every limit and number of places.       *)
(***************************************************************************)
EXTENDS SoftQuota, FiniteSetTheorems, TLAPS

Inv == TypeOK /\ CallBound /\ RowBound

(* Fewer places held never breaks a bound, and a place that is granted     *)
(* starts from counters below their limits.                                *)
LEMMA HeldCardinality ==
    ASSUME QuotaAssumption, NEW S \in SUBSET Places
    PROVE  /\ IsFiniteSet(S)
           /\ Cardinality(S) \in Nat
           /\ Cardinality(Places) \in Nat
           /\ Cardinality(S) <= Cardinality(Places)
           /\ \A T \in SUBSET S : Cardinality(T) \in Nat /\ Cardinality(T) <= Cardinality(S)
           /\ \A p \in S : Cardinality(S \ {p}) = Cardinality(S) - 1
BY FS_Subset, FS_CardinalityType, FS_RemoveElement DEF QuotaAssumption

LEMMA InitInv == ASSUME QuotaAssumption, Init PROVE Inv
BY FS_EmptySet, FS_CardinalityType
DEF QuotaAssumption, Init, Inv, TypeOK, CallBound, RowBound

LEMMA Products ==
    ASSUME NEW m \in Nat, NEW a \in Nat, NEW b \in Nat, a <= b
    PROVE  /\ m * a \in Nat /\ m * b \in Nat
           /\ m * a <= m * b
           /\ m * (a - 1) = m * a - m
OBVIOUS

LEMMA NextInv == ASSUME QuotaAssumption, Inv, [Next]_vars PROVE Inv'
<1> USE DEF QuotaAssumption
<1> DEFINE h == Cardinality(held)
           h2 == Cardinality(held')
           all == Cardinality(Places)
<1>1. /\ used \in Nat /\ rowsUsed \in Nat /\ held \subseteq Places
      /\ used + h < CallLimit + all
      /\ rowsUsed + RowsAtOnce * h < RowLimit + RowsAtOnce * all
  BY DEF Inv, TypeOK, CallBound, RowBound
<1>2. h \in Nat /\ all \in Nat
  BY <1>1, HeldCardinality
<1>3. ASSUME NEW p \in Places, Grant(p)
      PROVE  Inv'
  <2>1. held' \subseteq Places /\ h2 \in Nat /\ h2 <= all
    BY <1>1, <1>3, HeldCardinality DEF Grant
  <2>2. RowsAtOnce * h2 <= RowsAtOnce * all
    BY <1>2, <2>1, Products
  <2> QED
    BY <1>1, <1>2, <1>3, <2>1, <2>2, Products
       DEF Grant, Inv, TypeOK, CallBound, RowBound
<1>4. ASSUME NEW p \in Places, Charge(p)
      PROVE  Inv'
  <2>1. PICK n \in 0..RowsAtOnce : rowsUsed' = rowsUsed + n
    BY <1>4 DEF Charge
  <2>2. held' \subseteq Places /\ h2 = h - 1
    BY <1>1, <1>4, HeldCardinality DEF Charge
  <2>3. RowsAtOnce * h2 = RowsAtOnce * h - RowsAtOnce
    BY <1>2, <2>2, Products
  <2> QED
    BY <1>1, <1>2, <1>4, <2>1, <2>2, <2>3, Products
       DEF Charge, Inv, TypeOK, CallBound, RowBound
<1>5. ASSUME NEW P \in SUBSET held, GiveUp(P) \/ Forget(P)
      PROVE  Inv'
  <2>1. /\ held' \subseteq Places /\ held' \subseteq held
        /\ h2 \in Nat /\ h2 <= h /\ h2 <= all
    BY <1>1, <1>5, HeldCardinality DEF GiveUp, Forget
  <2>2. RowsAtOnce * h2 <= RowsAtOnce * h /\ RowsAtOnce * h2 <= RowsAtOnce * all
    BY <1>2, <2>1, Products
  <2> QED
    BY <1>1, <1>2, <1>5, <2>1, <2>2, Products
       DEF GiveUp, Forget, Inv, TypeOK, CallBound, RowBound
<1>6. CASE UNCHANGED vars
  BY <1>6 DEF vars, Inv, TypeOK, CallBound, RowBound
<1> QED
  BY <1>3, <1>4, <1>5, <1>6 DEF Next

(* A soft quota is overshot by fewer calls than there are places, and by   *)
(* fewer rows than one call per place can bring.                           *)
THEOREM Bounds == ASSUME QuotaAssumption PROVE Spec => [](CallBound /\ RowBound)
<1>1. Init => Inv
  BY InitInv
<1>2. Inv /\ [Next]_vars => Inv'
  BY NextInv
<1>3. Inv => CallBound /\ RowBound
  BY DEF Inv
<1> QED
  BY <1>1, <1>2, <1>3, PTL DEF Spec
================================================================================
