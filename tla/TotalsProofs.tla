----------------------------- MODULE TotalsProofs -----------------------------
(* How a total changes when a member joins or leaves the set. *)
EXTENDS Totals, Integers, FiniteSetTheorems, TLAPS

(* The pieces a .. b of one member. *)
LEMMA BlockOfPieces ==
    ASSUME NEW x, NEW a \in Nat \ {0}, NEW b \in Nat, a <= b + 1
    PROVE  /\ IsFiniteSet({x} \X (a .. b))
           /\ Cardinality({x} \X (a .. b)) = (b + 1) - a
<1>1. IsFiniteSet(a .. b) /\ Cardinality(a .. b) = (b + 1) - a
  <2>1. CASE a = b + 1
    <3>1. a > b
      BY <2>1
    <3> QED BY <2>1, <3>1, FS_Interval
  <2>2. CASE a <= b
    <3>1. ~(a > b)
      BY <2>2
    <3> QED BY <3>1, FS_Interval
  <2> QED BY <2>1, <2>2
<1>2. IsFiniteSet({x}) /\ Cardinality({x}) = 1
  BY FS_Singleton
<1>3. /\ IsFiniteSet({x} \X (a .. b))
      /\ Cardinality({x} \X (a .. b)) = Cardinality({x}) * Cardinality(a .. b)
  BY <1>1, <1>2, FS_Product, Zenon
<1>4. Cardinality({x}) * Cardinality(a .. b) = (b + 1) - a
  BY <1>1, <1>2
<1> QED BY <1>3, <1>4

LEMMA PieceOf ==
    ASSUME NEW weight, NEW S, NEW p
    PROVE  p \in Pieces(weight, S) <=>
             \E x \in S : \E i \in 1 .. weight[x] : p = <<x, i>>
BY DEF Pieces

(* A member has weight[x] pieces. *)
LEMMA PiecesOfOne ==
    ASSUME NEW weight, NEW x, weight[x] \in Nat
    PROVE  /\ Pieces(weight, {x}) = {x} \X (1 .. weight[x])
           /\ IsFiniteSet(Pieces(weight, {x}))
           /\ Total(weight, {x}) = weight[x]
<1>1. Pieces(weight, {x}) = {x} \X (1 .. weight[x])
  BY DEF Pieces
<1>2. /\ IsFiniteSet({x} \X (1 .. weight[x]))
      /\ Cardinality({x} \X (1 .. weight[x])) = (weight[x] + 1) - 1
  <2> DEFINE w == weight[x]
  <2>1. 1 \in Nat \ {0} /\ w \in Nat /\ 1 <= w + 1
    OBVIOUS
  <2> HIDE DEF w
  <2>2. /\ IsFiniteSet({x} \X (1 .. w))
        /\ Cardinality({x} \X (1 .. w)) = (w + 1) - 1
    BY <2>1, BlockOfPieces
  <2> QED BY <2>2 DEF w
<1>3. Total(weight, {x}) = (weight[x] + 1) - 1
  BY <1>1, <1>2, Zenon DEF Total
<1>4. IsFiniteSet(Pieces(weight, {x}))
  BY <1>1, <1>2, Zenon
<1> QED BY <1>1, <1>3, <1>4

(* A finite set has finitely many pieces. *)
LEMMA PiecesAreFinite ==
    ASSUME NEW S, IsFiniteSet(S), NEW weight, \A x \in S : weight[x] \in Nat
    PROVE  IsFiniteSet(Pieces(weight, S)) /\ Total(weight, S) \in Nat
<1> DEFINE block == [x \in S |-> {x} \X (1 .. weight[x])]
           blocks == {block[x] : x \in S}
<1>1. block \in Surjection(S, blocks)
  BY DEF Surjection
<1>2. IsFiniteSet(blocks)
  BY <1>1, FS_Surjection
<1>3. ASSUME NEW b \in blocks
      PROVE  IsFiniteSet(b)
  <2>1. PICK x \in S : b = {x} \X (1 .. weight[x])
    BY <1>3
  <2>2. Pieces(weight, {x}) = b /\ IsFiniteSet(Pieces(weight, {x}))
    BY <2>1, PiecesOfOne
  <2> QED BY <2>2
<1>4. IsFiniteSet(UNION blocks)
  <2> HIDE DEF blocks
  <2> QED BY <1>2, <1>3, FS_UNION
<1>5. Pieces(weight, S) = UNION blocks
  BY DEF Pieces
<1> QED BY <1>4, <1>5, FS_CardinalityType DEF Total

LEMMA EmptyTotal ==
    ASSUME NEW weight
    PROVE  Total(weight, {}) = 0
BY FS_EmptySet DEF Total, Pieces

(* Sets without a common member weigh together what they weigh apart. *)
LEMMA TotalOfUnion ==
    ASSUME NEW S, IsFiniteSet(S), NEW T, IsFiniteSet(T), S \cap T = {},
           NEW weight, \A x \in S \cup T : weight[x] \in Nat
    PROVE  Total(weight, S \cup T) = Total(weight, S) + Total(weight, T)
<1>1. /\ IsFiniteSet(Pieces(weight, S)) /\ Total(weight, S) \in Nat
      /\ IsFiniteSet(Pieces(weight, T)) /\ Total(weight, T) \in Nat
  BY PiecesAreFinite
<1>2. Pieces(weight, S \cup T) = Pieces(weight, S) \cup Pieces(weight, T)
  BY DEF Pieces
<1>3. Pieces(weight, S) \cap Pieces(weight, T) = {}
  BY PieceOf
<1>4. Cardinality(Pieces(weight, S) \cap Pieces(weight, T)) = 0
  BY <1>3, FS_EmptySet
<1> DEFINE A == Pieces(weight, S)
           B == Pieces(weight, T)
<1>5. Cardinality(A \cup B) = Cardinality(A) + Cardinality(B) - Cardinality(A \cap B)
  <2>1. IsFiniteSet(A) /\ IsFiniteSet(B)
    BY <1>1
  <2> HIDE DEF A, B
  <2> QED BY <2>1, FS_Union
<1>6. Total(weight, S \cup T)
        = Total(weight, S) + Total(weight, T) - Cardinality(A \cap B)
  BY <1>2, <1>5, Zenon DEF Total
<1> QED BY <1>1, <1>4, <1>6

LEMMA TotalWith ==
    ASSUME NEW S, IsFiniteSet(S), NEW x, x \notin S,
           NEW weight, \A y \in S \cup {x} : weight[y] \in Nat
    PROVE  Total(weight, S \cup {x}) = Total(weight, S) + weight[x]
<1>1. IsFiniteSet({x}) /\ S \cap {x} = {}
  BY FS_Singleton
<1>2. Total(weight, S \cup {x}) = Total(weight, S) + Total(weight, {x})
  BY <1>1, TotalOfUnion
<1>3. Total(weight, {x}) = weight[x]
  BY PiecesOfOne
<1> QED BY <1>2, <1>3

LEMMA TotalWithout ==
    ASSUME NEW S, IsFiniteSet(S), NEW x \in S,
           NEW weight, \A y \in S : weight[y] \in Nat
    PROVE  Total(weight, S \ {x}) + weight[x] = Total(weight, S)
<1>1. IsFiniteSet(S \ {x})
  BY FS_RemoveElement
<1>2. S = (S \ {x}) \cup {x}
  OBVIOUS
<1> QED BY <1>1, <1>2, TotalWith
=============================================================================
