-------------------------- MODULE OrderUnitsProofs --------------------------
(***************************************************************************)
(* Arithmetic of the units of a set of orders: what one more order adds,   *)
(* and what remains of the sum when a step touches a single order.         *)
(***************************************************************************)
EXTENDS OrderUnits, FiniteSetTheorems, TLAPS

\* The units of one order of quantity k are k.
LEMMA OneOrder ==
  ASSUME NEW o, NEW k \in Nat
  PROVE  /\ IsFiniteSet({o} \X (1..k))
         /\ Cardinality({o} \X (1..k)) = k
<1>1. IsFiniteSet({o}) /\ Cardinality({o}) = 1
  BY FS_Singleton
<1>2. IsFiniteSet(1..k) /\ Cardinality(1..k) = k
  BY FS_Interval
<1>3. /\ IsFiniteSet({o} \X (1..k))
      /\ Cardinality({o} \X (1..k)) = Cardinality({o}) * Cardinality(1..k)
  BY <1>1, <1>2, FS_Product, Zenon
<1>4. Cardinality({o}) * Cardinality(1..k) = 1 * k
  BY <1>1, <1>2, Zenon
<1>5. QED
  BY <1>3, <1>4

\* A finite set of orders has finitely many units.
LEMMA UnitsFinite ==
  ASSUME NEW O, IsFiniteSet(O), NEW its, NEW s, NEW m \in Nat,
         \A o \in O : its[o][s] \in 0..m
  PROVE  /\ IsFiniteSet(Units(O, its, s))
         /\ InUnits(O, its, s) \in Nat
<1>0. IsFiniteSet(1..m)
  BY FS_Interval
<1>1. IsFiniteSet(O \X (1..m))
  BY <1>0, FS_Product, Zenon
<1>2. Units(O, its, s) \subseteq O \X (1..m)
  BY DEF Units
<1>3. QED
  BY <1>1, <1>2, FS_Subset, FS_CardinalityType DEF InUnits

\* The same without a bound on the quantities.
LEMMA UnitsAreFinite ==
  ASSUME NEW O, IsFiniteSet(O), NEW its, NEW s,
         \A o \in O : its[o][s] \in Nat
  PROVE  /\ IsFiniteSet(Units(O, its, s))
         /\ InUnits(O, its, s) \in Nat
<1> DEFINE f == [o \in O |-> {o} \X (1..its[o][s])]
           R == {f[o] : o \in O}
<1>1. f \in Surjection(O, R)
  BY DEF Surjection
<1>2. IsFiniteSet(R)
  <2> HIDE DEF f, R
  <2> QED
    BY <1>1, FS_Surjection
<1>3. \A T \in R : IsFiniteSet(T)
  <2>1. ASSUME NEW o \in O
        PROVE  IsFiniteSet({o} \X (1..its[o][s]))
    <3>1. its[o][s] \in Nat
      OBVIOUS
    <3> QED
      BY <3>1, OneOrder, Zenon
  <2> QED
    BY <2>1
<1>4. Units(O, its, s) = UNION R
  BY DEF Units
<1> HIDE DEF R
<1>5. IsFiniteSet(UNION R)
  BY <1>2, <1>3, FS_UNION
<1> QED
  BY <1>4, <1>5, FS_CardinalityType DEF InUnits

\* One more order adds its own quantity.
LEMMA UnitsAdd ==
  ASSUME NEW O, IsFiniteSet(O), NEW its, NEW s, NEW m \in Nat,
         NEW o, o \notin O, \A x \in O \cup {o} : its[x][s] \in 0..m
  PROVE  InUnits(O \cup {o}, its, s) = InUnits(O, its, s) + its[o][s]
<1> DEFINE new == {o} \X (1..its[o][s])
<1>1. Units(O \cup {o}, its, s) = Units(O, its, s) \cup new
  BY DEF Units
<1>2. Units(O, its, s) \cap new = {}
  BY DEF Units
<1>3. IsFiniteSet(Units(O, its, s)) /\ InUnits(O, its, s) \in Nat
  BY UnitsFinite
<1>4. IsFiniteSet(new) /\ Cardinality(new) = its[o][s]
  <2>1. its[o][s] \in Nat
    OBVIOUS
  <2>2. QED
    BY <2>1, OneOrder, Zenon
<1> HIDE DEF new
<1>5. Cardinality(Units(O, its, s) \cap new) = 0
  BY <1>2, FS_EmptySet
<1>6. Cardinality(Units(O, its, s) \cup new) =
        Cardinality(Units(O, its, s)) + Cardinality(new)
          - Cardinality(Units(O, its, s) \cap new)
  BY <1>3, <1>4, FS_Union, Zenon
<1>7. its[o][s] \in Nat
  OBVIOUS
<1>8. InUnits(O \cup {o}, its, s) = InUnits(O, its, s) + Cardinality(new) - 0
  BY <1>1, <1>5, <1>6, Zenon DEF InUnits
<1>9. QED
  BY <1>3, <1>4, <1>7, <1>8

\* Two sets of orders without a common member.
LEMMA UnitsUnion ==
  ASSUME NEW A, IsFiniteSet(A), NEW B, IsFiniteSet(B), A \cap B = {},
         NEW its, NEW s, NEW m \in Nat, \A o \in A \cup B : its[o][s] \in 0..m
  PROVE  InUnits(A \cup B, its, s) = InUnits(A, its, s) + InUnits(B, its, s)
<1>1. Units(A \cup B, its, s) = Units(A, its, s) \cup Units(B, its, s)
  BY DEF Units
<1>2. Units(A, its, s) \cap Units(B, its, s) = {}
  BY DEF Units
<1>3. /\ IsFiniteSet(Units(A, its, s)) /\ IsFiniteSet(Units(B, its, s))
      /\ InUnits(A, its, s) \in Nat /\ InUnits(B, its, s) \in Nat
  BY UnitsFinite
<1>4. Cardinality(Units(A, its, s) \cap Units(B, its, s)) = 0
  BY <1>2, FS_EmptySet
<1>5. Cardinality(Units(A, its, s) \cup Units(B, its, s)) =
        Cardinality(Units(A, its, s)) + Cardinality(Units(B, its, s))
          - Cardinality(Units(A, its, s) \cap Units(B, its, s))
  BY <1>3, FS_Union, Zenon
<1>6. InUnits(A \cup B, its, s) = InUnits(A, its, s) + InUnits(B, its, s) - 0
  BY <1>1, <1>4, <1>5, Zenon DEF InUnits
<1>7. QED
  BY <1>3, <1>6

\* A step that touches the single order o, taking the set of orders counted
\* from A to B and the lines from its to its2, moves the sum by what o
\* counts before and after.
LEMMA UnitsMove ==
  ASSUME NEW A, IsFiniteSet(A), NEW B, NEW its, NEW its2, NEW s,
         NEW m \in Nat, NEW o,
         \A x \in A \cup {o} : its[x][s] \in 0..m,
         its2[o][s] \in 0..m,
         \A x : x # o => (x \in A <=> x \in B),
         \A x \in A : x # o => its2[x][s] = its[x][s]
  PROVE  InUnits(B, its2, s) =
           InUnits(A, its, s) + (IF o \in B THEN its2[o][s] ELSE 0)
                              - (IF o \in A THEN its[o][s] ELSE 0)
<1> DEFINE C == A \ {o}
<1>1. IsFiniteSet(C)
  BY FS_Difference, FS_Singleton
<1>2. Units(C, its2, s) = Units(C, its, s)
  BY DEF Units
<1>3. InUnits(C, its, s) \in Nat /\ InUnits(C, its2, s) = InUnits(C, its, s)
  BY <1>1, <1>2, UnitsFinite DEF InUnits
<1>4. InUnits(A, its, s) =
        InUnits(C, its, s) + (IF o \in A THEN its[o][s] ELSE 0)
  <2>1. CASE o \in A
    <3>1. A = C \cup {o} /\ o \notin C
      BY <2>1
    <3>2. \A x \in C \cup {o} : its[x][s] \in 0..m
      OBVIOUS
    <3> HIDE DEF C
    <3>3. InUnits(C \cup {o}, its, s) = InUnits(C, its, s) + its[o][s]
      BY <1>1, <3>1, <3>2, UnitsAdd
    <3>4. QED
      BY <2>1, <3>1, <3>3
  <2>2. CASE o \notin A
    <3>1. A = C
      BY <2>2
    <3>2. QED
      BY <1>3, <2>2, <3>1
  <2>3. QED
    BY <2>1, <2>2
<1>5. InUnits(B, its2, s) =
        InUnits(C, its2, s) + (IF o \in B THEN its2[o][s] ELSE 0)
  <2>1. CASE o \in B
    <3>1. B = C \cup {o} /\ o \notin C
      BY <2>1
    <3>2. \A x \in C \cup {o} : its2[x][s] \in 0..m
      OBVIOUS
    <3> HIDE DEF C
    <3>3. InUnits(C \cup {o}, its2, s) = InUnits(C, its2, s) + its2[o][s]
      BY <1>1, <3>1, <3>2, UnitsAdd
    <3>4. QED
      BY <2>1, <3>1, <3>3
  <2>2. CASE o \notin B
    <3>1. B = C
      BY <2>2
    <3>2. QED
      BY <1>3, <2>2, <3>1
  <2>3. QED
    BY <2>1, <2>2
<1> HIDE DEF C
<1>6. /\ (IF o \in A THEN its[o][s] ELSE 0) \in Nat
      /\ (IF o \in B THEN its2[o][s] ELSE 0) \in Nat
  OBVIOUS
<1>7. QED
  BY <1>3, <1>4, <1>5, <1>6
=============================================================================
