----------------------------- MODULE MathProofs -----------------------------
(***************************************************************************)
(* What the arithmetic of a sale guarantees for every position, every      *)
(* request and every dust cap; and how sums over finite sets behave.  The  *)
(* library's induction theorems take a predicate; here induction is over   *)
(* sets, by a least counterexample.                                        *)
(***************************************************************************)
EXTENDS SaleMath, Sums, FiniteSetTheorems, WellFoundedInduction, TLAPS

(* Go's integer quotient of two naturals: exact up to a remainder smaller  *)
(* than the divisor.                                                       *)
LEMMA Quotient ==
  ASSUME NEW a \in Nat, NEW b \in Nat \ {0}
  PROVE  /\ a \div b \in Nat
         /\ b * (a \div b) <= a
         /\ a < b * (a \div b) + b
  BY SMT

LEMMA ProductMonotonic ==
  ASSUME NEW a \in Nat, NEW b \in Nat, NEW c \in Nat, a <= b
  PROVE  a * c <= b * c
  BY SMT

LEMMA ProductPositive ==
  ASSUME NEW a \in Nat \ {0}, NEW b \in Nat \ {0}
  PROVE  a * b \in Nat \ {0} /\ a * b >= a /\ a * b >= b
  BY SMT

(* calculateSharesToSell: an accepted sale takes at least one and at most  *)
(* all of the shares owned; the credits paid are at least the shares       *)
(* taken and at most the credits asked and the value of the position, and  *)
(* what is left over stays below the cap when there is one.                *)
THEOREM SaleBounds ==
  ASSUME NEW owned \in Nat \ {0}, NEW value \in Int, NEW credits \in Int,
         SaleAccepted(value, owned, credits)
  PROVE  /\ SharesToSell(value, owned, credits) \in 1..owned
         /\ SaleValue(value, owned, credits) \in Nat
         /\ SharesToSell(value, owned, credits)
              <= SaleValue(value, owned, credits)
         /\ SaleValue(value, owned, credits) <= credits
         /\ SaleValue(value, owned, credits) <= value
         /\ MaxDustPerSale > 0
              => Dust(value, owned, credits) \in 0..MaxDustPerSale
<1> DEFINE price  == ValuePerShare(value, owned)
           asked  == credits \div price
           shares == SharesToSell(value, owned, credits)
<1>1. /\ value \in Nat /\ price \in Nat \ {0}
      /\ credits >= price
      /\ owned * price <= value
  <2>1. value \in Nat /\ value > 0 /\ price > 0 /\ credits >= price
    BY DEF SaleAccepted
  <2>2. price \in Nat /\ owned * price <= value
    BY <2>1, Quotient DEF ValuePerShare
  <2> QED  BY <2>1, <2>2
<1> HIDE DEF price
<1>2. /\ asked \in Nat
      /\ price * asked <= credits
      /\ credits < price * asked + price
  BY <1>1, Quotient
<1>3. asked # 0
  BY <1>1, <1>2, SMT
<1> HIDE DEF asked
<1>4. shares = (IF asked > owned THEN owned ELSE asked)
  BY DEF SharesToSell, asked, price
<1> HIDE DEF shares
<1>5. shares \in 1..owned /\ shares <= asked
  BY <1>2, <1>3, <1>4
<1>6. SaleValue(value, owned, credits) = shares * price
  BY DEF SaleValue, shares, price
<1>7. shares * price \in Nat /\ shares <= shares * price
  BY <1>1, <1>5, ProductPositive
<1>8. shares * price <= credits
  <2>1. shares * price <= asked * price
    BY <1>1, <1>2, <1>5, ProductMonotonic
  <2>2. asked * price = price * asked
    BY <1>1, <1>2, SMT
  <2> QED  BY <1>1, <1>2, <1>7, <2>1, <2>2, SMT
<1>9. shares * price <= value
  <2>1. shares * price <= owned * price
    BY <1>1, <1>5, ProductMonotonic
  <2> QED  BY <1>1, <1>7, <2>1, SMT
<1>10. ASSUME MaxDustPerSale > 0
       PROVE  Dust(value, owned, credits) \in 0..MaxDustPerSale
  <2>1. Dust(value, owned, credits) = credits - shares * price
    BY <1>6 DEF Dust
  <2>2. Dust(value, owned, credits) <= MaxDustPerSale
    BY <1>10 DEF SaleAccepted, WithinDustCap
  <2> QED  BY <1>7, <1>8, <2>1, <2>2, DustAssumption
<1> QED  BY <1>5, <1>6, <1>7, <1>8, <1>9, <1>10 DEF shares

(* The panic of calculateSharesToSell is exactly the positive value spread *)
(* over more shares than credits.                                          *)
THEOREM PanicsBelowOneCredit ==
  ASSUME NEW owned \in Nat \ {0}, NEW value \in Int, NEW credits \in Nat
  PROVE  SalePanics(value, owned, credits) <=> 0 < value /\ value < owned
<1>1. CASE value <= 0
  BY <1>1 DEF SalePanics
<1>2. CASE value > 0
  <2>1. value \in Nat /\ ValuePerShare(value, owned) \in Nat
    BY <1>2, Quotient DEF ValuePerShare
  <2>2. /\ owned * ValuePerShare(value, owned) <= value
        /\ value < owned * ValuePerShare(value, owned) + owned
    BY <2>1, Quotient DEF ValuePerShare
  <2>3. CASE ValuePerShare(value, owned) = 0
    BY <1>2, <2>2, <2>3, SMT DEF SalePanics
  <2>4. CASE ValuePerShare(value, owned) # 0
    <3>1. owned * ValuePerShare(value, owned) >= owned
      BY <2>1, <2>4, ProductPositive
    <3> QED  BY <1>2, <2>1, <2>2, <2>4, <3>1, ProductPositive DEF SalePanics
  <2> QED  BY <2>3, <2>4
<1> QED  BY <1>1, <1>2

-----------------------------------------------------------------------------
(* Induction *)

(* The order of the naturals is well-founded.                              *)
LEMMA LessThan ==
  \E R : /\ IsWellFoundedOn(R, Nat)
         /\ \A x, y \in Nat : <<y, x>> \in R <=> y < x
<1> DEFINE R == OpToRel(<, Nat)
<1>1. IsWellFoundedOn(R, Nat)
  BY NatLessThanWellFounded
<1>2. \A x, y \in Nat : <<y, x>> \in R <=> y < x
  BY Zenon DEF OpToRel
<1> HIDE DEF R
<1> QED  BY <1>1, <1>2

(* Numbers have a least one ...                                            *)
LEMMA LeastNat ==
  ASSUME NEW T \in SUBSET Nat, T # {}
  PROVE  \E x \in T : \A y \in T : x <= y
<1>1. PICK R : /\ IsWellFoundedOn(R, Nat)
         /\ \A x, y \in Nat : <<y, x>> \in R <=> y < x
  BY LessThan
<1>2. PICK x \in T : \A y \in T : ~ (<<y, x>> \in R)
  BY <1>1, WFMin
<1>3. ASSUME NEW y \in T PROVE x <= y
  <2>1. ~(y < x)
    BY <1>1, <1>2
  <2> QED  BY <2>1
<1> QED  BY <1>3

(* ... and finite sets a smallest one.                                     *)
LEMMA LeastSet ==
  ASSUME NEW F, F # {}, \A T \in F : IsFiniteSet(T)
  PROVE  \E T \in F : \A U \in F : ~(U \subseteq T /\ U # T)
<1> DEFINE N == {Cardinality(T) : T \in F}
<1>1. N \in SUBSET Nat /\ N # {}
  BY FS_CardinalityType
<1>2. PICK n \in N : \A m \in N : n <= m
  BY <1>1, LeastNat
<1>3. PICK T \in F : n = Cardinality(T)
  BY <1>2
<1>4. ASSUME NEW U \in F, U \subseteq T, U # T PROVE FALSE
  <2>1. Cardinality(U) <= Cardinality(T) /\ Cardinality(U) # Cardinality(T)
    BY <1>4, FS_Subset
  <2>2. n <= Cardinality(U)
    BY <1>2
  <2> QED  BY <2>1, <2>2, <1>1, <1>3, FS_CardinalityType
<1> QED  BY <1>4

(* Induction over the subsets of a finite set.                             *)
LEMMA SetInduction ==
  ASSUME NEW S, IsFiniteSet(S), NEW Good, {} \in Good,
         \A T \in SUBSET S, x \in S :
           T \in Good /\ x \notin T => T \cup {x} \in Good
  PROVE  S \in Good
<1> DEFINE Bad == {T \in SUBSET S : T \notin Good}
<1> SUFFICES ASSUME Bad # {} PROVE FALSE
  OBVIOUS
<1>1. \A T \in Bad : IsFiniteSet(T)
  BY FS_Subset
<1>2. \E T \in Bad : \A U \in Bad : ~(U \subseteq T /\ U # T)
  <2> HIDE DEF Bad
  <2> QED  BY <1>1, LeastSet
<1>3. PICK T \in Bad : \A U \in Bad : ~(U \subseteq T /\ U # T)
  BY <1>2
<1>4. PICK x \in T : TRUE
  BY <1>3
<1>5. T \ {x} \in Good /\ (T \ {x}) \cup {x} = T
  BY <1>3, <1>4
<1> QED  BY <1>3, <1>4, <1>5

-----------------------------------------------------------------------------
(* Folds *)

(* g is the fold over S that takes element c[s] from a set s.              *)
Solves(g, S, base, c, step) ==
  \A s \in S : g[s] = IF s = {} THEN base ELSE step[<<c[s], g[s \ {c[s]}]>>]

(* Every fold of a typed step has a solution, built up by cardinality.     *)
LEMMA FoldExists ==
  ASSUME NEW S, IsFiniteSet(S), NEW V, NEW base \in V,
         NEW c \in [SUBSET S -> S \cup {{}}],
         \A s \in SUBSET S : s # {} => c[s] \in s,
         NEW step \in [S \X V -> V]
  PROVE  \E g \in [SUBSET S -> V] : Solves(g, SUBSET S, base, c, step)
<1> DEFINE L(n) == {s \in SUBSET S : Cardinality(s) <= n}
           Ok(n) == \E g \in [L(n) -> V] : Solves(g, L(n), base, c, step)
           Bad == {n \in Nat : ~ Ok(n)}
<1>0. \A s \in SUBSET S : IsFiniteSet(s) /\ Cardinality(s) \in Nat
  BY FS_Subset, FS_CardinalityType
<1>1. Ok(0)
  <2>1. L(0) = {{}}
    BY <1>0, FS_EmptySet
  <2> DEFINE g == [s \in L(0) |-> base]
  <2>2. g \in [L(0) -> V] /\ Solves(g, L(0), base, c, step)
    BY <2>1 DEF Solves
  <2> QED  BY <2>2
<1>2. ASSUME NEW n \in Nat, Ok(n) PROVE Ok(n + 1)
  <2>1. PICK g \in [L(n) -> V] : Solves(g, L(n), base, c, step)
    BY <1>2
  <2>2. \A s \in L(n + 1) : s # {} => c[s] \in s /\ s \ {c[s]} \in L(n)
    <3> TAKE s \in L(n + 1)
    <3> HAVE s # {}
    <3>1. c[s] \in s
      OBVIOUS
    <3>2. Cardinality(s \ {c[s]}) = Cardinality(s) - 1
      BY <3>1, <1>0, FS_RemoveElement
    <3> QED  BY <3>1, <3>2, <1>0
  <2> DEFINE h == [s \in L(n + 1) |->
                     IF s \in L(n) THEN g[s]
                     ELSE step[<<c[s], g[s \ {c[s]}]>>]]
  <2>3. h \in [L(n + 1) -> V]
    <3> SUFFICES ASSUME NEW s \in L(n + 1) PROVE h[s] \in V
      OBVIOUS
    <3>1. CASE s \in L(n)
      BY <3>1
    <3>2. CASE s \notin L(n)
      <4>1. s # {}
        BY <3>2, FS_EmptySet, <1>0
      <4>2. c[s] \in S /\ g[s \ {c[s]}] \in V
        BY <4>1, <2>2
      <4> QED  BY <4>2, <3>2
    <3> QED  BY <3>1, <3>2
  <2>4. Solves(h, L(n + 1), base, c, step)
    <3> SUFFICES ASSUME NEW s \in L(n + 1)
                 PROVE h[s] = IF s = {} THEN base
                              ELSE step[<<c[s], h[s \ {c[s]}]>>]
      BY DEF Solves
    <3>0. {} \in L(n)
      BY FS_EmptySet
    <3>1. s # {} => h[s \ {c[s]}] = g[s \ {c[s]}]
      <4> HAVE s # {}
      <4>1. s \ {c[s]} \in L(n) /\ s \ {c[s]} \in L(n + 1)
        BY <2>2, <1>0
      <4> QED  BY <4>1
    <3>2. CASE s \in L(n)
      <4>1. g[s] = IF s = {} THEN base
                   ELSE step[<<c[s], g[s \ {c[s]}]>>]
        BY <3>2, <2>1 DEF Solves
      <4>2. h[s] = g[s]
        BY <3>2
      <4> HIDE DEF h
      <4> QED  BY <4>1, <4>2, <3>1
    <3>3. CASE s \notin L(n)
      BY <3>3, <3>1, <3>0
    <3> QED  BY <3>2, <3>3
  <2> QED  BY <2>3, <2>4
<1> HIDE DEF Ok
<1>3. Bad = {}
  <2> SUFFICES ASSUME Bad # {} PROVE FALSE
    OBVIOUS
  <2>1. PICK k \in Bad : \A m \in Bad : k <= m
    BY LeastNat
  <2>2. k # 0
    BY <1>1
  <2>3. k - 1 \in Nat /\ Ok(k - 1)
    BY <2>1, <2>2
  <2> QED  BY <2>3, <1>2
<1>4. Ok(Cardinality(S)) /\ L(Cardinality(S)) = SUBSET S
  BY <1>3, FS_CardinalityType, FS_Subset
<1> QED  BY <1>4 DEF Ok

-----------------------------------------------------------------------------
(* Sums *)

IntsOn(f, S) == \A x \in S : f[x] \in Int

(* The fold behind SumOf takes the element that CHOOSE takes.              *)
Taken(s) == CHOOSE x \in s : TRUE
Adds(g, S, f) ==
  \A s \in SUBSET S :
    g[s] = IF s = {} THEN 0 ELSE f[Taken(s)] + g[s \ {Taken(s)}]

(* SumOf is the value of such a fold, and an integer.                      *)
LEMMA SumIsFold ==
  ASSUME NEW S, IsFiniteSet(S), NEW f, IntsOn(f, S)
  PROVE  \E g \in [SUBSET S -> Int] : Adds(g, S, f) /\ SumOf(f, S) = g[S]
<1> DEFINE c == [s \in SUBSET S |-> IF s = {} THEN {} ELSE Taken(s)]
           step == [p \in S \X Int |-> f[p[1]] + p[2]]
           Body(g) == [s \in SUBSET S |->
                         IF s = {} THEN 0
                         ELSE f[Taken(s)] + g[s \ {Taken(s)}]]
           it == CHOOSE g : g = Body(g)
<1>1. \E g \in [SUBSET S -> Int] : Solves(g, SUBSET S, 0, c, step)
  <2>1. /\ c \in [SUBSET S -> S \cup {{}}]
        /\ \A s \in SUBSET S : s # {} => c[s] \in s
    BY DEF Taken
  <2>2. step \in [S \X Int -> Int]
    BY DEF IntsOn
  <2>3. 0 \in Int
    OBVIOUS
  <2> HIDE DEF c, step
  <2> QED  BY <2>1, <2>2, <2>3, FoldExists, Zenon
<1>2. PICK g \in [SUBSET S -> Int] : Solves(g, SUBSET S, 0, c, step)
  BY <1>1
<1>3. g = Body(g)
  <2>1. ASSUME NEW s \in SUBSET S PROVE g[s] = Body(g)[s]
    <3>1. CASE s = {}
      BY <3>1, <1>2 DEF Solves
    <3>2. CASE s # {}
      <4>1. c[s] = Taken(s) /\ c[s] \in s
        BY <3>2 DEF Taken
      <4>2. c[s] \in S /\ s \ {c[s]} \in SUBSET S
        BY <4>1, <3>2
      <4>3. g[s] = step[<<c[s], g[s \ {c[s]}]>>]
        BY <3>2, <1>2 DEF Solves
      <4>4. g[s \ {c[s]}] \in Int
        BY <4>2
      <4> HIDE DEF c
      <4>5. step[<<c[s], g[s \ {c[s]}]>>] = f[c[s]] + g[s \ {c[s]}]
        BY <4>2, <4>4
      <4> QED  BY <4>1, <4>3, <4>5, <3>2
    <3> QED  BY <3>1, <3>2
  <2> QED  BY <2>1
<1>4. it = Body(it)
  BY <1>3
<1>5. SumOf(f, S) = it[S]
  BY DEF SumOf, MapThenSumSet, MapThenFoldSet, Taken
<1> HIDE DEF it
<1>6. Adds(it, S, f)
  <2>1. ASSUME NEW s \in SUBSET S PROVE it[s] = Body(it)[s]
    BY <1>4
  <2> QED  BY <2>1 DEF Adds
<1>7. it \in [SUBSET S -> Int]
  <2>1. \A s \in SUBSET S : it[s] \in Int
    <3> DEFINE Bad == {s \in SUBSET S : it[s] \notin Int}
    <3> SUFFICES ASSUME Bad # {} PROVE FALSE
      OBVIOUS
    <3>1. \A s \in Bad : IsFiniteSet(s)
      BY FS_Subset
    <3>2. \E s \in Bad : \A u \in Bad : ~(u \subseteq s /\ u # s)
      <4> HIDE DEF Bad
      <4> QED  BY <3>1, LeastSet
    <3>3. PICK s \in Bad : \A u \in Bad : ~(u \subseteq s /\ u # s)
      BY <3>2
    <3>4. CASE s = {}
      <4>1. it[{}] = 0
        BY <1>6 DEF Adds
      <4> QED  BY <3>4, <4>1
    <3>5. CASE s # {}
      <4> DEFINE x == Taken(s)
      <4>1. x \in s
        BY <3>5 DEF Taken
      <4>2. it[s \ {x}] \in Int
        BY <4>1, <3>3
      <4>3. it[s] = f[x] + it[s \ {x}]
        BY <3>5, <1>6 DEF Adds
      <4> QED  BY <4>1, <4>2, <4>3 DEF IntsOn
    <3> QED  BY <3>4, <3>5
  <2> QED  BY <2>1, <1>4
<1> QED  BY <1>5, <1>6, <1>7

LEMMA SumEmpty == \A f : SumOf(f, {}) = 0
<1> TAKE f
<1>1. IsFiniteSet({}) /\ IntsOn(f, {})
  BY FS_EmptySet DEF IntsOn
<1>2. PICK g \in [SUBSET {} -> Int] : Adds(g, {}, f) /\ SumOf(f, {}) = g[{}]
  BY <1>1, SumIsFold
<1> QED  BY <1>2 DEF Adds

LEMMA SumInt ==
  ASSUME NEW S, IsFiniteSet(S), NEW f, IntsOn(f, S)
  PROVE  SumOf(f, S) \in Int
<1>1. PICK g \in [SUBSET S -> Int] : Adds(g, S, f) /\ SumOf(f, S) = g[S]
  BY SumIsFold
<1> QED  BY <1>1

LEMMA AddsUnique ==
  ASSUME NEW S, IsFiniteSet(S), NEW f, NEW g, NEW h, NEW T \in SUBSET S,
         Adds(g, S, f), Adds(h, T, f)
  PROVE  g[T] = h[T]
<1> DEFINE Bad == {s \in SUBSET T : g[s] # h[s]}
<1> SUFFICES ASSUME Bad # {} PROVE FALSE
  OBVIOUS
<1>1. \A s \in Bad : IsFiniteSet(s)
  BY FS_Subset
<1>2. \E s \in Bad : \A u \in Bad : ~(u \subseteq s /\ u # s)
  <2> HIDE DEF Bad
  <2> QED  BY <1>1, LeastSet
<1>5. PICK s \in Bad : \A u \in Bad : ~(u \subseteq s /\ u # s)
  BY <1>2
<1>3. CASE s = {}
  BY <1>3 DEF Adds
<1>4. CASE s # {}
  <2> DEFINE x == Taken(s)
  <2>1. x \in s
    BY <1>4 DEF Taken
  <2>2. g[s \ {x}] = h[s \ {x}]
    BY <2>1, <1>5
  <2> QED  BY <2>2, <1>4 DEF Adds
<1> QED  BY <1>3, <1>4

LEMMA SumChoose ==
  ASSUME NEW S, IsFiniteSet(S), NEW f, IntsOn(f, S), S # {}
  PROVE  SumOf(f, S) = f[Taken(S)] + SumOf(f, S \ {Taken(S)})
<1> DEFINE x == Taken(S)
           T == S \ {x}
<1>1. PICK g \in [SUBSET S -> Int] : Adds(g, S, f) /\ SumOf(f, S) = g[S]
  BY SumIsFold
<1>2. IsFiniteSet(T) /\ IntsOn(f, T)
  BY FS_Subset DEF IntsOn
<1>3. PICK h \in [SUBSET T -> Int] : Adds(h, T, f) /\ SumOf(f, T) = h[T]
  BY <1>2, SumIsFold
<1>4. g[T] = h[T]
  BY <1>1, <1>3, AddsUnique
<1>5. g[S] = f[x] + g[T]
  BY <1>1 DEF Adds
<1> QED  BY <1>1, <1>3, <1>4, <1>5

(* A sum can be split at any of its terms.                                 *)
LEMMA SumRemove ==
  ASSUME NEW S, IsFiniteSet(S), NEW f, IntsOn(f, S), NEW x \in S
  PROVE  SumOf(f, S) = f[x] + SumOf(f, S \ {x})
<1> DEFINE Good == {T \in SUBSET S : \A z \in T :
                      SumOf(f, T) = f[z] + SumOf(f, T \ {z})}
           Bad == (SUBSET S) \ Good
<1> SUFFICES ASSUME Bad # {} PROVE FALSE
  OBVIOUS
<1>1. \A T \in Bad : IsFiniteSet(T)
  BY FS_Subset
<1>2. \E T \in Bad : \A U \in Bad : ~(U \subseteq T /\ U # T)
  <2> HIDE DEF Bad
  <2> QED  BY <1>1, LeastSet
<1>3. PICK T \in Bad : \A U \in Bad : ~(U \subseteq T /\ U # T)
  BY <1>2
<1>4. PICK z \in T : ~(SumOf(f, T) = f[z] + SumOf(f, T \ {z}))
  BY <1>3
<1> DEFINE y == Taken(T)
<1>5. y \in T
  BY <1>4 DEF Taken
<1>6. IsFiniteSet(T) /\ IntsOn(f, T)
  BY FS_Subset DEF IntsOn
<1>7. SumOf(f, T) = f[y] + SumOf(f, T \ {y})
  BY <1>5, <1>6, SumChoose
<1>8. z # y
  BY <1>7, <1>4
<1> HIDE DEF y, Bad
<1>9. T \ {y} \in Good /\ T \ {z} \in Good
  BY <1>3, <1>4, <1>5 DEF Bad
<1> DEFINE R == (T \ {y}) \ {z}
<1>10. SumOf(f, T \ {y}) = f[z] + SumOf(f, R)
  BY <1>9, <1>4, <1>8
<1>11. SumOf(f, T \ {z}) = f[y] + SumOf(f, R)
  <2>1. SumOf(f, T \ {z}) = f[y] + SumOf(f, (T \ {z}) \ {y})
    BY <1>9, <1>5, <1>8
  <2>2. (T \ {z}) \ {y} = R
    OBVIOUS
  <2> QED  BY <2>1, <2>2, Zenon
<1>12. IsFiniteSet(R) /\ IntsOn(f, R)
  BY <1>6, FS_Subset DEF IntsOn
<1>13. SumOf(f, R) \in Int /\ f[y] \in Int /\ f[z] \in Int
  BY <1>12, SumInt, <1>5, <1>4, <1>6 DEF IntsOn
<1> HIDE DEF R
<1> QED  BY <1>4, <1>7, <1>10, <1>11, <1>13 DEF R

LEMMA SumAdd ==
  ASSUME NEW S, IsFiniteSet(S), NEW f, IntsOn(f, S),
         NEW x, x \notin S, f[x] \in Int
  PROVE  SumOf(f, S \cup {x}) = f[x] + SumOf(f, S)
<1>1. IsFiniteSet(S \cup {x}) /\ IntsOn(f, S \cup {x})
  BY FS_AddElement DEF IntsOn
<1>2. (S \cup {x}) \ {x} = S
  OBVIOUS
<1> QED  BY <1>1, <1>2, SumRemove

LEMMA SumCongruent ==
  ASSUME NEW S, IsFiniteSet(S), NEW f, NEW h, IntsOn(f, S),
         \A x \in S : h[x] = f[x]
  PROVE  SumOf(h, S) = SumOf(f, S)
<1> DEFINE Good == {T \in SUBSET S : SumOf(h, T) = SumOf(f, T)}
<1>1. {} \in Good
  BY SumEmpty
<1>2. ASSUME NEW T \in SUBSET S, NEW x \in S, T \in Good, x \notin T
      PROVE  T \cup {x} \in Good
  <2>1. /\ IsFiniteSet(T) /\ IntsOn(f, T) /\ IntsOn(h, T)
        /\ f[x] \in Int /\ h[x] = f[x]
    BY FS_Subset DEF IntsOn
  <2>2. /\ SumOf(f, T \cup {x}) = f[x] + SumOf(f, T)
        /\ SumOf(h, T \cup {x}) = h[x] + SumOf(h, T)
    BY <1>2, <2>1, SumAdd
  <2> QED  BY <1>2, <2>1, <2>2
<1> HIDE DEF Good
<1>3. S \in Good
  BY <1>1, <1>2, SetInduction
<1> QED  BY <1>3 DEF Good

LEMMA SumPlus ==
  ASSUME NEW S, IsFiniteSet(S), NEW f, NEW g, NEW h,
         IntsOn(f, S), IntsOn(g, S),
         \A x \in S : h[x] = f[x] + g[x]
  PROVE  SumOf(h, S) = SumOf(f, S) + SumOf(g, S)
<1> DEFINE Good == {T \in SUBSET S : SumOf(h, T) = SumOf(f, T) + SumOf(g, T)}
<1>1. {} \in Good
  BY SumEmpty
<1>2. ASSUME NEW T \in SUBSET S, NEW x \in S, T \in Good, x \notin T
      PROVE  T \cup {x} \in Good
  <2>1. IsFiniteSet(T) /\ IntsOn(f, T) /\ IntsOn(g, T) /\ IntsOn(h, T)
    BY FS_Subset DEF IntsOn
  <2>2. f[x] \in Int /\ g[x] \in Int /\ h[x] = f[x] + g[x]
    BY DEF IntsOn
  <2>3. /\ SumOf(f, T \cup {x}) = f[x] + SumOf(f, T)
        /\ SumOf(g, T \cup {x}) = g[x] + SumOf(g, T)
        /\ SumOf(h, T \cup {x}) = h[x] + SumOf(h, T)
    BY <1>2, <2>1, <2>2, SumAdd
  <2>4. SumOf(f, T) \in Int /\ SumOf(g, T) \in Int
    BY <2>1, SumInt
  <2> QED  BY <1>2, <2>2, <2>3, <2>4
<1> HIDE DEF Good
<1>3. S \in Good
  BY <1>1, <1>2, SetInduction
<1> QED  BY <1>3 DEF Good

LEMMA SumConstant ==
  ASSUME NEW S, IsFiniteSet(S), NEW f, NEW k \in Int, \A x \in S : f[x] = k
  PROVE  SumOf(f, S) = k * Cardinality(S)
<1> DEFINE Good == {T \in SUBSET S : SumOf(f, T) = k * Cardinality(T)}
<1>1. {} \in Good
  BY SumEmpty, FS_EmptySet
<1>2. ASSUME NEW T \in SUBSET S, NEW x \in S, T \in Good, x \notin T
      PROVE  T \cup {x} \in Good
  <2>1. IsFiniteSet(T) /\ IntsOn(f, T)
    BY FS_Subset DEF IntsOn
  <2>3. SumOf(f, T \cup {x}) = k + SumOf(f, T)
    BY <1>2, <2>1, SumAdd
  <2>4. Cardinality(T \cup {x}) = Cardinality(T) + 1 /\ Cardinality(T) \in Nat
    BY <1>2, <2>1, FS_AddElement, FS_CardinalityType
  <2> QED  BY <1>2, <2>3, <2>4
<1> HIDE DEF Good
<1>3. S \in Good
  BY <1>1, <1>2, SetInduction
<1> QED  BY <1>3 DEF Good

LEMMA SumSplit ==
  ASSUME NEW S, IsFiniteSet(S), NEW f, IntsOn(f, S), NEW T \in SUBSET S
  PROVE  SumOf(f, S) = SumOf(f, T) + SumOf(f, S \ T)
<1> DEFINE R == S \ T
           Good == {U \in SUBSET R :
                      SumOf(f, T \cup U) = SumOf(f, T) + SumOf(f, U)}
<1>0. /\ IsFiniteSet(T) /\ IntsOn(f, T) /\ SumOf(f, T) \in Int
      /\ IsFiniteSet(R)
  <2>1. IsFiniteSet(T) /\ IntsOn(f, T) /\ IsFiniteSet(R)
    BY FS_Subset DEF IntsOn
  <2> QED  BY <2>1, SumInt
<1>1. {} \in Good
  <2>1. T \cup {} = T
    OBVIOUS
  <2> QED  BY <2>1, <1>0, SumEmpty
<1>2. ASSUME NEW U \in SUBSET R, NEW x \in R, U \in Good, x \notin U
      PROVE  U \cup {x} \in Good
  <2>1. /\ IsFiniteSet(U) /\ IntsOn(f, U)
        /\ IsFiniteSet(T \cup U) /\ IntsOn(f, T \cup U)
    BY FS_Subset DEF IntsOn
  <2>2. /\ f[x] \in Int /\ x \notin T \cup U
        /\ (T \cup U) \cup {x} = T \cup (U \cup {x})
    BY <1>2 DEF IntsOn
  <2>3. /\ SumOf(f, U \cup {x}) = f[x] + SumOf(f, U)
        /\ SumOf(f, (T \cup U) \cup {x}) = f[x] + SumOf(f, T \cup U)
    BY <1>2, <2>1, <2>2, SumAdd
  <2>4. SumOf(f, U) \in Int
    BY <2>1, SumInt
  <2>5. SumOf(f, T \cup (U \cup {x})) = f[x] + SumOf(f, T \cup U)
    BY <2>2, <2>3, Zenon
  <2>6. SumOf(f, T \cup (U \cup {x})) = SumOf(f, T) + SumOf(f, U \cup {x})
    BY <1>0, <1>2, <2>2, <2>3, <2>4, <2>5
  <2> QED  BY <2>6
<1> HIDE DEF Good
<1>3. R \in Good
  BY <1>0, <1>1, <1>2, SetInduction
<1>4. T \cup R = S
  OBVIOUS
<1> QED  BY <1>3, <1>4 DEF Good

(* One term changes.                                                       *)
LEMMA SumChanged ==
  ASSUME NEW S, IsFiniteSet(S), NEW f, NEW g, IntsOn(f, S), IntsOn(g, S),
         NEW x \in S, \A y \in S \ {x} : g[y] = f[y]
  PROVE  /\ SumOf(f, S) \in Int /\ SumOf(g, S) \in Int
         /\ SumOf(g, S) = SumOf(f, S) - f[x] + g[x]
<1> DEFINE T == S \ {x}
<1>1. IsFiniteSet(T) /\ IntsOn(f, T) /\ f[x] \in Int /\ g[x] \in Int
  BY FS_Subset DEF IntsOn
<1>2. SumOf(g, T) = SumOf(f, T)
  BY <1>1, SumCongruent
<1>3. SumOf(f, S) = f[x] + SumOf(f, T) /\ SumOf(g, S) = g[x] + SumOf(g, T)
  BY SumRemove
<1>4. SumOf(f, T) \in Int
  BY <1>1, SumInt
<1> HIDE DEF T
<1> QED  BY <1>1, <1>2, <1>3, <1>4

LEMMA SumSingle ==
  ASSUME NEW x, NEW f, f[x] \in Int
  PROVE  SumOf(f, {x}) = f[x]
<1>1. IsFiniteSet({x}) /\ IntsOn(f, {x})
  BY FS_Singleton DEF IntsOn
<1>2. SumOf(f, {x}) = f[x] + SumOf(f, {x} \ {x})
  BY <1>1, SumRemove
<1>3. {x} \ {x} = {}
  OBVIOUS
<1> QED  BY <1>2, <1>3, SumEmpty

LEMMA SumNonNegative ==
  ASSUME NEW S, IsFiniteSet(S), NEW f, \A x \in S : f[x] \in Nat
  PROVE  SumOf(f, S) \in Nat
<1> DEFINE Good == {T \in SUBSET S : SumOf(f, T) \in Nat}
<1>1. {} \in Good
  BY SumEmpty
<1>2. ASSUME NEW T \in SUBSET S, NEW x \in S, T \in Good, x \notin T
      PROVE  T \cup {x} \in Good
  <2>1. IsFiniteSet(T) /\ IntsOn(f, T) /\ f[x] \in Int
    BY FS_Subset DEF IntsOn
  <2>2. SumOf(f, T \cup {x}) = f[x] + SumOf(f, T)
    BY <1>2, <2>1, SumAdd
  <2> QED  BY <1>2, <2>2
<1> HIDE DEF Good
<1>3. S \in Good
  BY <1>1, <1>2, SetInduction
<1> QED  BY <1>3 DEF Good

(* Terms that are zero can be left out.                                    *)
LEMMA SumSupport ==
  ASSUME NEW S, IsFiniteSet(S), NEW f, IntsOn(f, S), NEW T \in SUBSET S,
         \A x \in S \ T : f[x] = 0
  PROVE  SumOf(f, S) = SumOf(f, T)
<1> DEFINE R == S \ T
<1>1. /\ IsFiniteSet(T) /\ IsFiniteSet(R) /\ IntsOn(f, T)
      /\ \A x \in R : f[x] = 0
  BY FS_Subset DEF IntsOn
<1>2. SumOf(f, S) = SumOf(f, T) + SumOf(f, R)
  BY SumSplit
<1> HIDE DEF R
<1>3. SumOf(f, R) = 0 * Cardinality(R)
  BY <1>1, SumConstant
<1>4. SumOf(f, T) \in Int /\ Cardinality(R) \in Nat
  BY <1>1, SumInt, FS_CardinalityType
<1> QED  BY <1>2, <1>3, <1>4

(* A sum over the image of a set under an injection b.                     *)
LEMMA SumImage ==
  ASSUME NEW S, IsFiniteSet(S), NEW b, NEW f, NEW g,
         \A x, y \in S : b[x] = b[y] => x = y,
         \A x \in S : f[b[x]] \in Int /\ g[x] = f[b[x]]
  PROVE  SumOf(f, {b[x] : x \in S}) = SumOf(g, S)
<1> DEFINE Image(T) == {b[x] : x \in T}
           Good == {T \in SUBSET S : /\ IsFiniteSet(Image(T))
                                     /\ SumOf(f, Image(T)) = SumOf(g, T)}
<1>1. {} \in Good
  <2>1. Image({}) = {}
    OBVIOUS
  <2> QED  BY <2>1, SumEmpty, FS_EmptySet
<1>2. ASSUME NEW T \in SUBSET S, NEW x \in S, T \in Good, x \notin T
      PROVE  T \cup {x} \in Good
  <2>1. Image(T \cup {x}) = Image(T) \cup {b[x]} /\ b[x] \notin Image(T)
    BY <1>2
  <2>2. /\ IsFiniteSet(T) /\ IntsOn(g, T) /\ g[x] \in Int
        /\ IsFiniteSet(Image(T)) /\ IntsOn(f, Image(T)) /\ f[b[x]] \in Int
        /\ g[x] = f[b[x]] /\ SumOf(f, Image(T)) = SumOf(g, T)
    BY <1>2, FS_Subset DEF IntsOn
  <2> DEFINE I == Image(T)
  <2> HIDE DEF I
  <2>3. SumOf(f, I \cup {b[x]}) = f[b[x]] + SumOf(f, I)
    BY <2>1, <2>2, SumAdd DEF I
  <2>4. SumOf(g, T \cup {x}) = g[x] + SumOf(g, T)
    BY <1>2, <2>2, SumAdd
  <2>5. IsFiniteSet(I \cup {b[x]})
    BY <2>2, FS_AddElement DEF I
  <2> QED  BY <2>1, <2>2, <2>3, <2>4, <2>5 DEF I
<1> HIDE DEF Good
<1>3. S \in Good
  BY <1>1, <1>2, SetInduction
<1> QED  BY <1>3 DEF Good

LEMMA ImageFinite ==
  ASSUME NEW S, IsFiniteSet(S), NEW b
  PROVE  IsFiniteSet({b[x] : x \in S})
<1> DEFINE Good == {T \in SUBSET S : IsFiniteSet({b[x] : x \in T})}
<1>1. {} \in Good
  <2>1. {b[x] : x \in {}} = {}
    OBVIOUS
  <2> QED  BY <2>1, FS_EmptySet
<1>2. ASSUME NEW T \in SUBSET S, NEW x \in S, T \in Good, x \notin T
      PROVE  T \cup {x} \in Good
  <2>1. {b[y] : y \in T \cup {x}} = {b[y] : y \in T} \cup {b[x]}
    OBVIOUS
  <2> DEFINE I == {b[y] : y \in T}
  <2>2. IsFiniteSet(I)
    BY <1>2
  <2> HIDE DEF I
  <2>3. IsFiniteSet(I \cup {b[x]})
    BY <2>2, FS_AddElement
  <2> QED  BY <2>1, <2>3 DEF I
<1> HIDE DEF Good
<1>3. S \in Good
  BY <1>1, <1>2, SetInduction
<1> QED  BY <1>3 DEF Good
=============================================================================
