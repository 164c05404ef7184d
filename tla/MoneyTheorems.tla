---------------------------- MODULE MoneyTheorems ----------------------------
(* What the sums of Money are: facts about SELECT sum(amount), for any rows. *)
EXTENDS Money, FiniteSetTheorems, TLAPS

(* The coins of finitely many rows are finitely many. *)
LEMMA CoinsFinite ==
  ASSUME NEW rows, IsFiniteSet(rows), NEW f
  PROVE  IsFiniteSet(Coins(rows, f))
<1>1. IsFiniteSet(Amount)
  BY MaxAmountAssumption, FS_Interval DEF Amount
<1>2. IsFiniteSet(rows \X Amount)
  BY <1>1, FS_Product
<1> QED
  BY <1>2, FS_Subset DEF Coins

(* A sum of finitely many amounts is a number. *)
LEMMA SumType ==
  ASSUME NEW rows, IsFiniteSet(rows), NEW f
  PROVE  SumOf(rows, f) \in Nat
BY CoinsFinite, FS_CardinalityType DEF SumOf

(* No rows, no money: coalesce(sum(amount), 0). *)
LEMMA SumEmpty ==
  ASSUME NEW f
  PROVE  SumOf({}, f) = 0
<1>1. Coins({}, f) = {}
  BY DEF Coins
<1> QED
  BY <1>1, FS_EmptySet DEF SumOf

(* Only the amounts of the rows summed matter. *)
LEMMA SumSame ==
  ASSUME NEW rows, NEW f, NEW g, \A r \in rows : f[r] = g[r]
  PROVE  SumOf(rows, f) = SumOf(rows, g)
<1>1. Coins(rows, f) = Coins(rows, g)
  BY DEF Coins
<1> QED
  BY <1>1 DEF SumOf

(* One row is worth its amount. *)
LEMMA SumOne ==
  ASSUME NEW r, NEW f, f[r] \in 0..MaxAmount
  PROVE  SumOf({r}, f) = f[r]
<1> DEFINE coin == [n \in 1..f[r] |-> <<r, n>>]
<1>1. coin \in Bijection(1..f[r], Coins({r}, f))
  <2>1. coin \in [1..f[r] -> Coins({r}, f)]
    BY MaxAmountAssumption DEF Coins, Amount
  <2>2. \A m, n \in 1..f[r] : coin[m] = coin[n] => m = n
    OBVIOUS
  <2>3. \A c \in Coins({r}, f) : \E n \in 1..f[r] : coin[n] = c
    BY MaxAmountAssumption DEF Coins, Amount
  <2> QED
    BY <2>1, <2>2, <2>3 DEF Bijection, Injection, IsInjective, Surjection
<1>2. ExistsBijection(1..f[r], Coins({r}, f))
  BY <1>1 DEF ExistsBijection
<1> QED
  BY <1>2, FS_CountingElements, MaxAmountAssumption DEF SumOf

(* The sum over two disjoint groups of rows. *)
LEMMA SumUnion ==
  ASSUME NEW A, IsFiniteSet(A), NEW B, IsFiniteSet(B), A \cap B = {}, NEW f
  PROVE  SumOf(A \cup B, f) = SumOf(A, f) + SumOf(B, f)
<1>1. Coins(A \cup B, f) = Coins(A, f) \cup Coins(B, f)
  BY DEF Coins
<1>2. Coins(A, f) \cap Coins(B, f) = {}
  BY DEF Coins
<1>3. IsFiniteSet(Coins(A, f)) /\ IsFiniteSet(Coins(B, f))
  BY CoinsFinite
<1>4. /\ Cardinality(Coins(A, f)) \in Nat
      /\ Cardinality(Coins(B, f)) \in Nat
  BY <1>3, FS_CardinalityType
<1>5. Cardinality(Coins(A, f) \cup Coins(B, f))
        = Cardinality(Coins(A, f)) + Cardinality(Coins(B, f)) - Cardinality({})
  BY <1>2, <1>3, FS_Union
<1>6. Cardinality({}) = 0
  BY FS_EmptySet
<1>7. Cardinality(Coins(A, f) \cup Coins(B, f))
        = Cardinality(Coins(A, f)) + Cardinality(Coins(B, f))
  BY <1>4, <1>5, <1>6
<1> QED
  BY <1>1, <1>7 DEF SumOf

(* Inserting a row adds its amount, whatever the table held. *)
LEMMA SumInsert ==
  ASSUME NEW rows, IsFiniteSet(rows), NEW r, r \notin rows, NEW f,
         f[r] \in 0..MaxAmount
  PROVE  SumOf(rows \cup {r}, f) = SumOf(rows, f) + f[r]
<1>1. IsFiniteSet({r}) /\ rows \cap {r} = {}
  BY FS_Singleton
<1>2. SumOf(rows \cup {r}, f) = SumOf(rows, f) + SumOf({r}, f)
  BY <1>1, SumUnion
<1> QED
  BY <1>2, SumOne

(* Fewer rows sum to no more. *)
LEMMA SumMonotone ==
  ASSUME NEW B, IsFiniteSet(B), NEW A \in SUBSET B, NEW f
  PROVE  SumOf(A, f) <= SumOf(B, f)
<1>1. IsFiniteSet(A) /\ IsFiniteSet(B \ A)
  BY FS_Subset
<1>2. B = A \cup (B \ A) /\ A \cap (B \ A) = {}
  OBVIOUS
<1>3. SumOf(B, f) = SumOf(A, f) + SumOf(B \ A, f)
  BY <1>1, <1>2, SumUnion
<1>4. SumOf(A, f) \in Nat /\ SumOf(B \ A, f) \in Nat
  BY <1>1, SumType
<1> QED
  BY <1>3, <1>4

(* Larger amounts sum to no less. *)
LEMMA SumGrows ==
  ASSUME NEW rows, IsFiniteSet(rows), NEW f, NEW g,
         \A r \in rows : f[r] \in Int /\ g[r] \in Int /\ f[r] <= g[r]
  PROVE  SumOf(rows, f) <= SumOf(rows, g)
<1>1. Coins(rows, f) \in SUBSET Coins(rows, g)
  BY DEF Coins, Amount
<1>2. IsFiniteSet(Coins(rows, g))
  BY CoinsFinite
<1> QED
  BY <1>1, <1>2, FS_Subset DEF SumOf
=============================================================================
