------------------------------ MODULE LedgerLemmas ------------------------------
(***************************************************************************)
(* Facts the proofs about the ledgers share: integer division, products,   *)
(* and sums of a function over a finite set.  SumOn is what the modules    *)
(* write as a fold; that the fold is the sum whatever order it takes is    *)
(* proved here, by way of minimal counterexamples among the subsets.       *)
(***************************************************************************)
EXTENDS Integers, FiniteSets, Functions, FiniteSetTheorems, WellFoundedInduction, TLAPS

------------------------------------------------------------------------------
(* Division and products *)

\* A quotient is rounded down.
LEMMA DivisionBounds ==
  \A a \in Nat, b \in Nat \ {0} :
    a \div b \in Nat /\ b * (a \div b) <= a /\ a < b * (a \div b) + b
OBVIOUS

\* A quotient is the largest number that fits.
LEMMA DivisionLargest ==
  \A a, q \in Nat, b \in Nat \ {0} : b * q <= a => q <= a \div b
OBVIOUS

LEMMA ProductNat == \A a, b \in Nat : a * b \in Nat
OBVIOUS

LEMMA ProductMonotone == \A a, b, c \in Nat : a <= b => a * c <= b * c /\ c * a <= c * b
OBVIOUS

LEMMA ProductCancel ==
  \A a, b \in Int, c \in Nat \ {0} : (a * c <= b * c => a <= b) /\ (c * a <= c * b => a <= b)
OBVIOUS

\* The part p of w of an amount, rounded down: what remains is at least its share.
LEMMA PartRoundedDown ==
  ASSUME NEW v \in Nat, NEW w \in Nat \ {0}, NEW p \in 0..w
  PROVE  LET part == (v * p) \div w
         IN part \in 0..v /\ v - part \in Nat /\ w * (v - part) >= v * (w - p)
<1> DEFINE part == (v * p) \div w
<1>1. v * p \in Nat /\ v * p <= v * w
  BY ProductNat, ProductMonotone
<1>2. part \in Nat /\ w * part <= v * p
  BY <1>1, DivisionBounds
<1> HIDE DEF part
<1>3. w * part <= w * v
  <2>1. v * w = w * v /\ v * w \in Nat /\ w * part \in Nat
    BY <1>2
  <2> QED BY <1>1, <1>2, <2>1
<1>4. part <= v
  BY <1>2, <1>3, ProductCancel
<1>5. w * (v - part) = w * v - w * part /\ v * (w - p) = v * w - v * p /\ w * v = v * w
  BY <1>2
<1>6. w * part \in Int /\ v * w \in Int
  BY <1>2
<1>7. w * (v - part) >= v * (w - p)
  BY <1>1, <1>2, <1>5, <1>6
<1> QED BY <1>2, <1>4, <1>7 DEF part

\* The same rounded up: what remains is at most its share.
LEMMA PartRoundedUp ==
  ASSUME NEW v \in Nat, NEW w \in Nat \ {0}, NEW p \in 0..w
  PROVE  LET part == (v * p + w - 1) \div w
         IN /\ part \in 0..v /\ v - part \in Nat /\ w * (v - part) <= v * (w - p)
            /\ w * part >= v * p
<1> DEFINE part == (v * p + w - 1) \div w
<1>1. v * p \in Nat /\ v * p <= v * w /\ v * w \in Nat
  BY ProductNat, ProductMonotone
<1>2. part \in Nat /\ w * part <= v * p + w - 1 /\ v * p + w - 1 < w * part + w
  <2>1. v * p + w - 1 \in Nat
    BY <1>1
  <2> QED BY <2>1, DivisionBounds
<1> HIDE DEF part
<1>3. w * part \in Nat /\ w * v = v * w /\ w * (v + 1) = w * v + w
  BY <1>2
<1>4. w * part < w * (v + 1)
  BY <1>1, <1>2, <1>3
<1>5. part <= v
  <2>1. v + 1 <= part => w * (v + 1) <= w * part
    BY <1>2, ProductMonotone
  <2> QED BY <1>1, <1>2, <1>3, <1>4, <2>1
<1>6. w * (v - part) = w * v - w * part /\ v * (w - p) = v * w - v * p
  BY <1>2
<1>7. w * part >= v * p
  BY <1>1, <1>2, <1>3
<1>8. w * (v - part) <= v * (w - p)
  BY <1>1, <1>3, <1>6, <1>7
<1> QED BY <1>2, <1>5, <1>7, <1>8 DEF part

------------------------------------------------------------------------------
(* The recursive function behind a fold *)

\* The sum of f over the finite set S.
SumOn(f, S) == FoldFunctionOnSet(+, 0, f, S)

Chosen(s) == CHOOSE x \in s : TRUE

\* g[s] is the sum of f over s, one chosen element at a time.
IsSum(g, f, S) ==
  g = [s \in SUBSET S |-> IF s = {} THEN 0 ELSE f[Chosen(s)] + g[s \ {Chosen(s)}]]

\* A nonempty family of subsets of a finite set has a minimal member.
LEMMA MinimalSubset ==
  ASSUME NEW S, IsFiniteSet(S), NEW T \in SUBSET SUBSET S, T # {}
  PROVE  \E m \in T : \A t \in SUBSET m : t \in T => t = m
<1>1. IsWellFoundedOn(StrictSubsetOrdering(S), SUBSET S)
  BY FS_StrictSubsetOrderingWellFounded, FS_FiniteSubsetsOfFinite
<1>2. PICK m \in T : \A t \in T : ~(<<t, m>> \in StrictSubsetOrdering(S))
  BY <1>1, WFMin
<1>3. \A t \in SUBSET m : t \in T => t = m
  BY <1>2 DEF StrictSubsetOrdering
<1> QED BY <1>3

LEMMA ChosenIsIn == ASSUME NEW s, s # {} PROVE Chosen(s) \in s
BY DEF Chosen

\* One step of the recursion.
LEMMA SumStep ==
  ASSUME NEW f, NEW S, NEW g, IsSum(g, f, S), NEW s \in SUBSET S
  PROVE  /\ s = {} => g[s] = 0
         /\ s # {} => g[s] = f[Chosen(s)] + g[s \ {Chosen(s)}]
<1> DEFINE h == [t \in SUBSET S |-> IF t = {} THEN 0 ELSE f[Chosen(t)] + g[t \ {Chosen(t)}]]
<1>1. g = h
  BY DEF IsSum
<1>2. h[s] = IF s = {} THEN 0 ELSE f[Chosen(s)] + g[s \ {Chosen(s)}]
  OBVIOUS
<1> HIDE DEF h
<1>3. g[s] = h[s]
  BY <1>1
<1> QED BY <1>2, <1>3

\* Two such functions agree where both are defined.
LEMMA SumUnique ==
  ASSUME NEW f, NEW S, IsFiniteSet(S), NEW A \in SUBSET S, NEW B \in SUBSET S,
         NEW g, IsSum(g, f, A), NEW h, IsSum(h, f, B), NEW s \in SUBSET (A \cap B)
  PROVE  g[s] = h[s]
<1> DEFINE T == {t \in SUBSET (A \cap B) : g[t] # h[t]}
<1>1. SUFFICES ASSUME T # {} PROVE FALSE
  OBVIOUS
<1>2. PICK m \in T : \A t \in SUBSET m : t \in T => t = m
  <2>1. T \in SUBSET SUBSET S
    OBVIOUS
  <2> HIDE DEF T
  <2> QED BY <1>1, <2>1, MinimalSubset
<1>a. m \in SUBSET A /\ m \in SUBSET B /\ g[m] # h[m]
  BY <1>2
<1>b. (m = {} => g[m] = 0) /\ (m # {} => g[m] = f[Chosen(m)] + g[m \ {Chosen(m)}])
  <2>1. IsSum(g, f, A) /\ m \in SUBSET A
    BY <1>a
  <2> QED BY ONLY <2>1, SumStep
<1>c. (m = {} => h[m] = 0) /\ (m # {} => h[m] = f[Chosen(m)] + h[m \ {Chosen(m)}])
  <2>1. IsSum(h, f, B) /\ m \in SUBSET B
    BY <1>a
  <2> QED BY ONLY <2>1, SumStep
<1>3. m # {}
  BY <1>a, <1>b, <1>c
<1>4. Chosen(m) \in m
  BY <1>3, ChosenIsIn
<1>5. g[m \ {Chosen(m)}] = h[m \ {Chosen(m)}]
  BY <1>2, <1>4
<1>6. g[m] = f[Chosen(m)] + g[m \ {Chosen(m)}]
  BY <1>3, <1>b
<1>7. h[m] = f[Chosen(m)] + h[m \ {Chosen(m)}]
  BY <1>3, <1>c
<1> QED BY <1>2, <1>5, <1>6, <1>7

\* There is one, whatever f is.
LEMMA SumExists ==
  ASSUME NEW f, NEW S, IsFiniteSet(S)
  PROVE  \E g : IsSum(g, f, S)
<1> DEFINE T == {t \in SUBSET S : ~\E g : IsSum(g, f, t)}
<1>1. SUFFICES ASSUME T # {} PROVE FALSE
  OBVIOUS
<1>2. PICK m \in T : \A t \in SUBSET m : t \in T => t = m
  <2>1. T \in SUBSET SUBSET S
    OBVIOUS
  <2> HIDE DEF T
  <2> QED BY <1>1, <2>1, MinimalSubset
<1> DEFINE G(t) == CHOOSE g : IsSum(g, f, t)
           h == [s \in SUBSET m |->
                   IF s = m THEN (IF s = {} THEN 0
                                  ELSE f[Chosen(s)] + G(s \ {Chosen(s)})[s \ {Chosen(s)}])
                            ELSE G(s)[s]]
<1>3. ASSUME NEW t \in SUBSET m, t # m PROVE IsSum(G(t), f, t)
  BY <1>2, <1>3
<1>4. ASSUME NEW s \in SUBSET m
      PROVE  h[s] = IF s = {} THEN 0 ELSE f[Chosen(s)] + h[s \ {Chosen(s)}]
  <2>1. CASE s = {} /\ s = m
    BY <2>1
  <2>2. CASE s = {} /\ s # m
    <3>1. IsSum(G(s), f, s) /\ s \in SUBSET s
      BY <1>3, <2>2
    <3>2. G(s)[s] = 0
      <4> HIDE DEF G
      <4> QED BY <3>1, <2>2, SumStep
    <3> QED BY <2>2, <3>2
  <2>3. CASE s # {}
    <3> DEFINE r == s \ {Chosen(s)}
    <3>1. Chosen(s) \in s
      BY <2>3, ChosenIsIn
    <3>2. r \in SUBSET m /\ r # m /\ r # s
      BY <3>1
    <3>3. h[r] = G(r)[r]
      BY <3>2
    <3>4. CASE s = m
      BY <2>3, <3>3, <3>4
    <3>5. CASE s # m
      <4>1. IsSum(G(s), f, s) /\ IsSum(G(r), f, r)
        BY <1>3, <3>2, <3>5
      <4>2. G(s)[s] = f[Chosen(s)] + G(s)[r]
        BY <4>1, <2>3 DEF IsSum
      <4>3. s \in SUBSET S /\ r \in SUBSET S /\ r \in SUBSET (s \cap r)
        BY <1>2
      <4>4. G(s)[r] = G(r)[r]
        <5> HIDE DEF G, r
        <5> QED BY <4>1, <4>3, SumUnique
      <4>5. h[s] = G(s)[s]
        BY <3>5
      <4> QED BY <4>2, <4>4, <4>5, <3>3, <2>3
    <3> QED BY <3>4, <3>5
  <2> QED BY <2>1, <2>2, <2>3
<1>5. IsSum(h, f, m)
  <2>1. h = [s \in SUBSET m |-> h[s]]
    OBVIOUS
  <2> HIDE DEF h
  <2>2. [s \in SUBSET m |-> h[s]]
         = [s \in SUBSET m |-> IF s = {} THEN 0 ELSE f[Chosen(s)] + h[s \ {Chosen(s)}]]
    BY <1>4
  <2> QED BY <2>1, <2>2 DEF IsSum
<1> QED BY <1>2, <1>5

\* So the fold is defined by its recursion.
LEMMA SumIsSum ==
  ASSUME NEW f, NEW S, IsFiniteSet(S)
  PROVE  \E g : IsSum(g, f, S) /\ SumOn(f, S) = g[S]
<1> DEFINE g == CHOOSE g1 : IsSum(g1, f, S)
<1>1. IsSum(g, f, S)
  BY SumExists
<1>2. SumOn(f, S) = g[S]
  BY DEF SumOn, FoldFunctionOnSet, MapThenFoldSet, IsSum, Chosen
<1> QED BY <1>1, <1>2

------------------------------------------------------------------------------
(* Sums *)

LEMMA SumEmpty == \A f : SumOn(f, {}) = 0
<1> SUFFICES ASSUME NEW f PROVE SumOn(f, {}) = 0
  OBVIOUS
<1>1. IsFiniteSet({})
  BY FS_EmptySet
<1>2. PICK g : IsSum(g, f, {}) /\ SumOn(f, {}) = g[{}]
  BY <1>1, SumIsSum
<1>3. {} \in SUBSET {}
  OBVIOUS
<1> QED BY <1>2, <1>3, SumStep

LEMMA SumChosen ==
  ASSUME NEW f, NEW S, IsFiniteSet(S), S # {}
  PROVE  SumOn(f, S) = f[Chosen(S)] + SumOn(f, S \ {Chosen(S)})
<1> DEFINE R == S \ {Chosen(S)}
<1>1. IsFiniteSet(R)
  BY FS_Subset
<1>2. PICK g : IsSum(g, f, S) /\ SumOn(f, S) = g[S]
  BY SumIsSum
<1>3. PICK h : IsSum(h, f, R) /\ SumOn(f, R) = h[R]
  BY <1>1, SumIsSum
<1>4. S \in SUBSET S /\ R \in SUBSET S /\ R \in SUBSET (S \cap R)
  OBVIOUS
<1>5. g[R] = h[R]
  <2> HIDE DEF R
  <2> QED BY <1>2, <1>3, <1>4, SumUnique
<1>6. g[S] = f[Chosen(S)] + g[S \ {Chosen(S)}]
  <2>1. IsSum(g, f, S) /\ S \in SUBSET S /\ S # {}
    BY <1>2
  <2> QED BY ONLY <2>1, SumStep
<1> QED BY <1>2, <1>3, <1>5, <1>6

\* A sum of integers is an integer.
LEMMA SumInt ==
  ASSUME NEW S, IsFiniteSet(S), NEW f, \A x \in S : f[x] \in Int
  PROVE  SumOn(f, S) \in Int
<1> DEFINE T == {t \in SUBSET S : SumOn(f, t) \notin Int}
<1>1. SUFFICES ASSUME T # {} PROVE FALSE
  BY S \in SUBSET S
<1>2. PICK m \in T : \A t \in SUBSET m : t \in T => t = m
  <2>1. T \in SUBSET SUBSET S
    OBVIOUS
  <2> HIDE DEF T
  <2> QED BY <1>1, <2>1, MinimalSubset
<1>3. m \in SUBSET S /\ SumOn(f, m) \notin Int
  BY <1>2
<1>4. m # {}
  BY <1>3, SumEmpty
<1>5. Chosen(m) \in m /\ IsFiniteSet(m)
  BY <1>3, <1>4, ChosenIsIn, FS_Subset
<1>6. SumOn(f, m) = f[Chosen(m)] + SumOn(f, m \ {Chosen(m)})
  BY <1>4, <1>5, SumChosen
<1>7. SumOn(f, m \ {Chosen(m)}) \in Int
  <2>1. m \ {Chosen(m)} \in SUBSET m /\ m \ {Chosen(m)} # m /\ m \ {Chosen(m)} \in SUBSET S
    BY <1>3, <1>5
  <2> QED BY <1>2, <2>1
<1> QED BY <1>3, <1>5, <1>6, <1>7

\* Any element may be taken out first.
LEMMA SumRemove ==
  ASSUME NEW S, IsFiniteSet(S), NEW f, \A x \in S : f[x] \in Int, NEW z \in S
  PROVE  SumOn(f, S) = f[z] + SumOn(f, S \ {z})
<1> DEFINE T == {t \in SUBSET S : \E x \in t : SumOn(f, t) # f[x] + SumOn(f, t \ {x})}
<1>1. SUFFICES ASSUME T # {} PROVE FALSE
  BY S \in SUBSET S
<1>2. PICK m \in T : \A t \in SUBSET m : t \in T => t = m
  <2>1. T \in SUBSET SUBSET S
    OBVIOUS
  <2> HIDE DEF T
  <2> QED BY <1>1, <2>1, MinimalSubset
<1>3. m \in SUBSET S
  BY <1>2
<1>4. PICK x \in m : SumOn(f, m) # f[x] + SumOn(f, m \ {x})
  BY <1>2
<1> DEFINE c == Chosen(m)
<1>5. c \in m /\ c \in S /\ x \in S /\ IsFiniteSet(m)
  BY <1>3, <1>4, ChosenIsIn, FS_Subset
<1>6. SumOn(f, m) = f[c] + SumOn(f, m \ {c})
  BY <1>4, <1>5, SumChosen
<1> HIDE DEF c
<1>7. x # c
  BY <1>4, <1>6
<1>8. SumOn(f, m \ {c}) = f[x] + SumOn(f, m \ {c, x})
  <2>1. m \ {c} \in SUBSET m /\ m \ {c} # m /\ m \ {c} \in SUBSET S /\ x \in m \ {c}
    BY <1>3, <1>4, <1>5, <1>7
  <2>2. (m \ {c}) \ {x} = m \ {c, x}
    OBVIOUS
  <2>3. SumOn(f, m \ {c}) = f[x] + SumOn(f, (m \ {c}) \ {x})
    BY <1>2, <2>1
  <2> QED BY <2>2, <2>3
<1>9. SumOn(f, m \ {x}) = f[c] + SumOn(f, m \ {c, x})
  <2>1. m \ {x} \in SUBSET m /\ m \ {x} # m /\ m \ {x} \in SUBSET S /\ c \in m \ {x}
    BY <1>3, <1>4, <1>5, <1>7
  <2>2. (m \ {x}) \ {c} = m \ {c, x}
    OBVIOUS
  <2>3. SumOn(f, m \ {x}) = f[c] + SumOn(f, (m \ {x}) \ {c})
    BY <1>2, <2>1
  <2> QED BY <2>2, <2>3
<1>10. SumOn(f, m \ {c, x}) \in Int
  <2>1. IsFiniteSet(m \ {c, x})
    BY <1>5, FS_Subset
  <2>2. \A y \in m \ {c, x} : f[y] \in Int
    BY <1>3
  <2> QED BY <2>1, <2>2, SumInt
<1>11. f[c] \in Int /\ f[x] \in Int
  BY <1>5
<1> QED BY <1>4, <1>6, <1>8, <1>9, <1>10, <1>11

\* Only the values on the set count.
LEMMA SumAgree ==
  ASSUME NEW S, IsFiniteSet(S), NEW f, NEW g, \A x \in S : f[x] = g[x]
  PROVE  SumOn(f, S) = SumOn(g, S)
<1> DEFINE T == {t \in SUBSET S : SumOn(f, t) # SumOn(g, t)}
<1>1. SUFFICES ASSUME T # {} PROVE FALSE
  BY S \in SUBSET S
<1>2. PICK m \in T : \A t \in SUBSET m : t \in T => t = m
  <2>1. T \in SUBSET SUBSET S
    OBVIOUS
  <2> HIDE DEF T
  <2> QED BY <1>1, <2>1, MinimalSubset
<1>3. m \in SUBSET S /\ SumOn(f, m) # SumOn(g, m)
  BY <1>2
<1>4. m # {}
  BY <1>3, SumEmpty
<1>5. Chosen(m) \in m /\ IsFiniteSet(m)
  BY <1>3, <1>4, ChosenIsIn, FS_Subset
<1>6. /\ SumOn(f, m) = f[Chosen(m)] + SumOn(f, m \ {Chosen(m)})
      /\ SumOn(g, m) = g[Chosen(m)] + SumOn(g, m \ {Chosen(m)})
  BY <1>4, <1>5, SumChosen
<1>7. SumOn(f, m \ {Chosen(m)}) = SumOn(g, m \ {Chosen(m)})
  <2>1. m \ {Chosen(m)} \in SUBSET m /\ m \ {Chosen(m)} # m /\ m \ {Chosen(m)} \in SUBSET S
    BY <1>3, <1>5
  <2> QED BY <1>2, <2>1
<1>8. f[Chosen(m)] = g[Chosen(m)]
  BY <1>3, <1>5
<1> QED BY <1>3, <1>6, <1>7, <1>8

\* Changing one value changes the sum by as much.
LEMMA SumChange ==
  ASSUME NEW S, IsFiniteSet(S), NEW f, NEW g, NEW z \in S,
         \A x \in S : f[x] \in Int /\ g[x] \in Int,
         \A x \in S \ {z} : f[x] = g[x]
  PROVE  SumOn(g, S) = SumOn(f, S) - f[z] + g[z]
<1>1. IsFiniteSet(S \ {z})
  BY FS_Subset
<1>2. SumOn(f, S \ {z}) = SumOn(g, S \ {z})
  BY <1>1, SumAgree
<1>3. SumOn(f, S) = f[z] + SumOn(f, S \ {z})
  BY SumRemove
<1>4. SumOn(g, S) = g[z] + SumOn(g, S \ {z})
  BY SumRemove
<1>5. SumOn(f, S \ {z}) \in Int
  <2>1. \A x \in S \ {z} : f[x] \in Int
    OBVIOUS
  <2> QED BY <1>1, <2>1, SumInt
<1> QED BY <1>2, <1>3, <1>4, <1>5

\* Larger values have a larger sum.
LEMMA SumMonotone ==
  ASSUME NEW S, IsFiniteSet(S), NEW f, NEW g,
         \A x \in S : f[x] \in Int /\ g[x] \in Int /\ f[x] <= g[x]
  PROVE  SumOn(f, S) <= SumOn(g, S)
<1> DEFINE T == {t \in SUBSET S : ~(SumOn(f, t) <= SumOn(g, t))}
<1>1. SUFFICES ASSUME T # {} PROVE FALSE
  BY S \in SUBSET S
<1>2. PICK m \in T : \A t \in SUBSET m : t \in T => t = m
  <2>1. T \in SUBSET SUBSET S
    OBVIOUS
  <2> HIDE DEF T
  <2> QED BY <1>1, <2>1, MinimalSubset
<1>3. m \in SUBSET S /\ ~(SumOn(f, m) <= SumOn(g, m))
  BY <1>2
<1>4. m # {}
  BY <1>3, SumEmpty
<1> DEFINE r == m \ {Chosen(m)}
<1>5. Chosen(m) \in m /\ Chosen(m) \in S /\ IsFiniteSet(m) /\ IsFiniteSet(r)
  BY <1>3, <1>4, ChosenIsIn, FS_Subset
<1>6. /\ SumOn(f, m) = f[Chosen(m)] + SumOn(f, r)
      /\ SumOn(g, m) = g[Chosen(m)] + SumOn(g, r)
  BY <1>4, <1>5, SumChosen
<1>7. SumOn(f, r) <= SumOn(g, r)
  <2>1. r \in SUBSET m /\ r # m /\ r \in SUBSET S
    BY <1>3, <1>5
  <2> QED BY <1>2, <2>1
<1>8. SumOn(f, r) \in Int /\ SumOn(g, r) \in Int
  <2>1. \A x \in r : f[x] \in Int /\ g[x] \in Int
    BY <1>3
  <2> QED BY <1>5, <2>1, SumInt
<1> QED BY <1>3, <1>5, <1>6, <1>7, <1>8

\* A sum of natural numbers is one.
LEMMA SumNat ==
  ASSUME NEW S, IsFiniteSet(S), NEW f, \A x \in S : f[x] \in Nat
  PROVE  SumOn(f, S) \in Nat
<1> DEFINE T == {t \in SUBSET S : SumOn(f, t) \notin Nat}
<1>1. SUFFICES ASSUME T # {} PROVE FALSE
  BY S \in SUBSET S
<1>2. PICK m \in T : \A t \in SUBSET m : t \in T => t = m
  <2>1. T \in SUBSET SUBSET S
    OBVIOUS
  <2> HIDE DEF T
  <2> QED BY <1>1, <2>1, MinimalSubset
<1>3. m \in SUBSET S /\ SumOn(f, m) \notin Nat
  BY <1>2
<1>4. m # {}
  BY <1>3, SumEmpty
<1>5. Chosen(m) \in m /\ IsFiniteSet(m)
  BY <1>3, <1>4, ChosenIsIn, FS_Subset
<1>6. SumOn(f, m) = f[Chosen(m)] + SumOn(f, m \ {Chosen(m)})
  BY <1>4, <1>5, SumChosen
<1>7. SumOn(f, m \ {Chosen(m)}) \in Nat
  <2>1. m \ {Chosen(m)} \in SUBSET m /\ m \ {Chosen(m)} # m /\ m \ {Chosen(m)} \in SUBSET S
    BY <1>3, <1>5
  <2> QED BY <1>2, <2>1
<1> QED BY <1>3, <1>5, <1>6, <1>7

\* No value of a sum of natural numbers exceeds it.
LEMMA SumAtLeast ==
  ASSUME NEW S, IsFiniteSet(S), NEW f, \A x \in S : f[x] \in Nat, NEW z \in S
  PROVE  f[z] <= SumOn(f, S)
<1>1. SumOn(f, S) = f[z] + SumOn(f, S \ {z})
  <2>1. \A x \in S : f[x] \in Int
    OBVIOUS
  <2> QED BY <2>1, SumRemove
<1>2. SumOn(f, S \ {z}) \in Nat
  <2>1. IsFiniteSet(S \ {z}) /\ \A x \in S \ {z} : f[x] \in Nat
    BY FS_Subset
  <2> QED BY <2>1, SumNat
<1> QED BY <1>1, <1>2

\* A sum of sums is the sum of both.
LEMMA SumPlus ==
  ASSUME NEW S, IsFiniteSet(S), NEW f, NEW g, NEW h,
         \A x \in S : f[x] \in Int /\ g[x] \in Int /\ h[x] = f[x] + g[x]
  PROVE  SumOn(h, S) = SumOn(f, S) + SumOn(g, S)
<1> DEFINE T == {t \in SUBSET S : SumOn(h, t) # SumOn(f, t) + SumOn(g, t)}
<1>1. SUFFICES ASSUME T # {} PROVE FALSE
  BY S \in SUBSET S
<1>2. PICK m \in T : \A t \in SUBSET m : t \in T => t = m
  <2>1. T \in SUBSET SUBSET S
    OBVIOUS
  <2> HIDE DEF T
  <2> QED BY <1>1, <2>1, MinimalSubset
<1>3. m \in SUBSET S /\ SumOn(h, m) # SumOn(f, m) + SumOn(g, m)
  BY <1>2
<1>4. m # {}
  BY <1>3, SumEmpty
<1> DEFINE r == m \ {Chosen(m)}
<1>5. Chosen(m) \in m /\ Chosen(m) \in S /\ IsFiniteSet(m) /\ IsFiniteSet(r)
  BY <1>3, <1>4, ChosenIsIn, FS_Subset
<1>6. /\ SumOn(f, m) = f[Chosen(m)] + SumOn(f, r)
      /\ SumOn(g, m) = g[Chosen(m)] + SumOn(g, r)
      /\ SumOn(h, m) = h[Chosen(m)] + SumOn(h, r)
  BY <1>4, <1>5, SumChosen
<1>7. SumOn(h, r) = SumOn(f, r) + SumOn(g, r)
  <2>1. r \in SUBSET m /\ r # m /\ r \in SUBSET S
    BY <1>3, <1>5
  <2> QED BY <1>2, <2>1
<1>8. SumOn(f, r) \in Int /\ SumOn(g, r) \in Int
  <2>1. \A x \in r : f[x] \in Int /\ g[x] \in Int
    BY <1>3
  <2> QED BY <1>5, <2>1, SumInt
<1> QED BY <1>3, <1>5, <1>6, <1>7, <1>8

\* A common factor can be taken out of a sum.
LEMMA SumFactor ==
  ASSUME NEW S, IsFiniteSet(S), NEW f, NEW h, NEW c \in Int,
         \A x \in S : f[x] \in Int /\ h[x] = c * f[x]
  PROVE  SumOn(h, S) = c * SumOn(f, S)
<1> DEFINE T == {t \in SUBSET S : SumOn(h, t) # c * SumOn(f, t)}
<1>1. SUFFICES ASSUME T # {} PROVE FALSE
  BY S \in SUBSET S
<1>2. PICK m \in T : \A t \in SUBSET m : t \in T => t = m
  <2>1. T \in SUBSET SUBSET S
    OBVIOUS
  <2> HIDE DEF T
  <2> QED BY <1>1, <2>1, MinimalSubset
<1>3. m \in SUBSET S /\ SumOn(h, m) # c * SumOn(f, m)
  BY <1>2
<1>4. m # {}
  <2>1. m = {} => SumOn(h, m) = 0 /\ SumOn(f, m) = 0
    BY SumEmpty
  <2>2. c * 0 = 0
    OBVIOUS
  <2> QED BY <1>3, <2>1, <2>2
<1> DEFINE r == m \ {Chosen(m)}
<1>5. Chosen(m) \in m /\ Chosen(m) \in S /\ IsFiniteSet(m) /\ IsFiniteSet(r)
  BY <1>3, <1>4, ChosenIsIn, FS_Subset
<1>6. /\ SumOn(f, m) = f[Chosen(m)] + SumOn(f, r)
      /\ SumOn(h, m) = h[Chosen(m)] + SumOn(h, r)
  BY <1>4, <1>5, SumChosen
<1>7. SumOn(h, r) = c * SumOn(f, r)
  <2>1. r \in SUBSET m /\ r # m /\ r \in SUBSET S
    BY <1>3, <1>5
  <2> QED BY <1>2, <2>1
<1>8. SumOn(f, r) \in Int
  <2>1. \A x \in r : f[x] \in Int
    BY <1>3
  <2> QED BY <1>5, <2>1, SumInt
<1>9. f[Chosen(m)] \in Int /\ h[Chosen(m)] = c * f[Chosen(m)]
  BY <1>5
<1>10. \A a, b \in Int : c * (a + b) = c * a + c * b
  OBVIOUS
<1> QED BY <1>3, <1>6, <1>7, <1>8, <1>9, <1>10

\* A sum of zeros is zero.
LEMMA SumZero ==
  ASSUME NEW S, IsFiniteSet(S), NEW f, \A x \in S : f[x] = 0
  PROVE  SumOn(f, S) = 0
<1> DEFINE c == 0
<1>1. c \in Int /\ \A x \in S : f[x] \in Int /\ f[x] = c * f[x]
  OBVIOUS
<1> HIDE DEF c
<1>2. SumOn(f, S) = c * SumOn(f, S)
  BY ONLY <1>1, IsFiniteSet(S), SumFactor
<1>3. SumOn(f, S) \in Int
  BY <1>1, SumInt
<1> QED BY <1>2, <1>3 DEF c

\* Two sets that do not meet are summed one after the other.
LEMMA SumUnion ==
  ASSUME NEW A, IsFiniteSet(A), NEW B, IsFiniteSet(B), A \cap B = {},
         NEW f, \A x \in A \cup B : f[x] \in Int
  PROVE  SumOn(f, A \cup B) = SumOn(f, A) + SumOn(f, B)
<1> DEFINE T == {t \in SUBSET B : SumOn(f, A \cup t) # SumOn(f, A) + SumOn(f, t)}
<1>1. SUFFICES ASSUME T # {} PROVE FALSE
  BY B \in SUBSET B
<1>2. PICK m \in T : \A t \in SUBSET m : t \in T => t = m
  <2>1. T \in SUBSET SUBSET B
    OBVIOUS
  <2> HIDE DEF T
  <2> QED BY <1>1, <2>1, MinimalSubset
<1>3. m \in SUBSET B /\ SumOn(f, A \cup m) # SumOn(f, A) + SumOn(f, m)
  BY <1>2
<1>4. SumOn(f, A) \in Int
  BY SumInt
<1>5. m # {}
  BY <1>3, <1>4, SumEmpty, A \cup {} = A
<1>6. PICK z : z \in m
  BY <1>5
<1> DEFINE r == m \ {z}
<1>7. /\ r \in SUBSET B /\ r \in SUBSET m /\ r # m /\ IsFiniteSet(r) /\ IsFiniteSet(m)
      /\ IsFiniteSet(A \cup m) /\ (A \cup m) \ {z} = A \cup r
  BY <1>3, <1>6, FS_Subset, FS_Union
<1>8. SumOn(f, A \cup r) = SumOn(f, A) + SumOn(f, r)
  BY <1>2, <1>7
<1>9. SumOn(f, m) = f[z] + SumOn(f, r)
  BY <1>3, <1>6, <1>7, SumRemove
<1>10. SumOn(f, A \cup m) = f[z] + SumOn(f, A \cup r)
  <2>1. \A x \in A \cup m : f[x] \in Int
    BY <1>3
  <2>2. z \in A \cup m
    BY <1>6
  <2>3. SumOn(f, A \cup m) = f[z] + SumOn(f, (A \cup m) \ {z})
    BY <1>7, <2>1, <2>2, SumRemove
  <2> QED BY <1>7, <2>3
<1>11. SumOn(f, r) \in Int /\ f[z] \in Int
  <2>1. \A x \in r : f[x] \in Int
    BY <1>7
  <2> QED BY <1>3, <1>6, <1>7, <2>1, SumInt
<1> HIDE DEF r
<1> QED BY <1>3, <1>4, <1>8, <1>9, <1>10, <1>11

\* The same values under other names have the same sum.
LEMMA SumReindex ==
  ASSUME NEW S, IsFiniteSet(S), NEW U, IsFiniteSet(U), NEW f, NEW g, NEW h,
         \A x \in S : h[x] \in U /\ f[x] = g[h[x]],
         \A x, y \in S : h[x] = h[y] => x = y,
         \A u \in U : g[u] \in Int /\ \E x \in S : h[x] = u
  PROVE  SumOn(f, S) = SumOn(g, U)
<1> DEFINE image(t) == {h[x] : x \in t}
           T == {t \in SUBSET S : SumOn(f, t) # SumOn(g, image(t))}
<1>1. image(S) = U
  OBVIOUS
<1>2. SUFFICES ASSUME T # {} PROVE FALSE
  BY <1>1, S \in SUBSET S
<1>3. PICK m \in T : \A t \in SUBSET m : t \in T => t = m
  <2>1. T \in SUBSET SUBSET S
    OBVIOUS
  <2> HIDE DEF T, image
  <2> QED BY <1>2, <2>1, MinimalSubset
<1>4. m \in SUBSET S /\ SumOn(f, m) # SumOn(g, image(m))
  BY <1>3
<1>5. m # {}
  <2>1. image({}) = {}
    OBVIOUS
  <2> QED BY <1>4, <2>1, SumEmpty
<1>6. PICK z : z \in m
  BY <1>5
<1> DEFINE r == m \ {z}
<1>7. /\ r \in SUBSET S /\ r \in SUBSET m /\ r # m /\ IsFiniteSet(m)
      /\ IsFiniteSet(image(m)) /\ image(m) \in SUBSET U
  <2>1. image(m) \in SUBSET U
    BY <1>4
  <2> HIDE DEF image
  <2> QED BY <1>4, <1>6, <2>1, FS_Subset
<1>8. SumOn(f, r) = SumOn(g, image(r))
  BY <1>3, <1>7
<1>9. SumOn(f, m) = f[z] + SumOn(f, r)
  <2>1. \A x \in m : f[x] \in Int
    BY <1>4
  <2> QED BY <1>6, <1>7, <2>1, SumRemove
<1>10. SumOn(g, image(m)) = g[h[z]] + SumOn(g, image(r))
  <2>1. image(m) \ {h[z]} = image(r) /\ h[z] \in image(m)
    BY <1>4, <1>6
  <2> HIDE DEF image
  <2>2. \A u \in image(m) : g[u] \in Int
    BY <1>7
  <2>3. SumOn(g, image(m)) = g[h[z]] + SumOn(g, image(m) \ {h[z]})
    BY <1>7, <2>1, <2>2, SumRemove
  <2> QED BY <2>1, <2>3
<1>11. f[z] = g[h[z]]
  BY <1>4, <1>6
<1> QED BY <1>4, <1>8, <1>9, <1>10, <1>11

\* A finite set of numbers has a smallest one.
LEMMA SmallestExists ==
  ASSUME NEW S, IsFiniteSet(S), S \subseteq Int, S # {}
  PROVE  \E s \in S : \A x \in S : s <= x
<1> DEFINE T == {t \in SUBSET S : t # {} /\ ~\E s \in t : \A x \in t : s <= x}
<1>1. SUFFICES ASSUME T # {} PROVE FALSE
  BY S \in SUBSET S
<1>2. PICK m \in T : \A t \in SUBSET m : t \in T => t = m
  <2>1. T \in SUBSET SUBSET S
    OBVIOUS
  <2> HIDE DEF T
  <2>2. IsFiniteSet(S)
    OBVIOUS
  <2> QED BY ONLY <1>1, <2>1, <2>2, MinimalSubset
<1>3. m \in SUBSET S /\ m # {} /\ ~\E s \in m : \A x \in m : s <= x
  BY <1>2
<1>4. PICK z : z \in m
  BY <1>3
<1>5. m \ {z} # {}
  BY <1>3, <1>4
<1>6. PICK s \in m \ {z} : \A x \in m \ {z} : s <= x
  <2>1. m \ {z} \in SUBSET m /\ m \ {z} \in SUBSET S /\ m \ {z} # m
    BY <1>3, <1>4
  <2>2. m \ {z} \notin T
    BY <1>2, <2>1
  <2> QED BY <1>5, <2>1, <2>2
<1>7. s \in Int /\ z \in Int /\ \A x \in m : x \in Int
  BY <1>3, <1>4, <1>6
<1>8. s <= z \/ z <= s
  BY <1>7
<1> QED BY <1>3, <1>4, <1>6, <1>7, <1>8

\* An amount split in proportion to weights, every part rounded down, is not exceeded.
LEMMA PartsWithinAmount ==
  ASSUME NEW S, IsFiniteSet(S), NEW amount \in Nat, NEW weight, NEW part,
         \A x \in S : weight[x] \in Nat,
         \A x \in S : part[x] = IF SumOn(weight, S) = 0 THEN 0
                                ELSE (amount * weight[x]) \div SumOn(weight, S)
  PROVE  /\ \A x \in S : part[x] \in Nat
         /\ SumOn(part, S) \in 0..amount
<1> DEFINE w == SumOn(weight, S)
<1>1. w \in Nat
  BY SumNat
<1>2. \A x \in S : part[x] = IF w = 0 THEN 0 ELSE (amount * weight[x]) \div w
  OBVIOUS
<1> HIDE DEF w
<1>3. \A x \in S : part[x] \in Nat /\ w * part[x] <= amount * weight[x]
  <2> SUFFICES ASSUME NEW x \in S
               PROVE  part[x] \in Nat /\ w * part[x] <= amount * weight[x]
    OBVIOUS
  <2>1. amount * weight[x] \in Nat
    BY ProductNat
  <2>2. CASE w = 0
    <3>1. part[x] = 0 /\ w * 0 = 0
      BY <1>2, <2>2
    <3> QED BY <2>1, <3>1
  <2>3. CASE w # 0
    <3>1. part[x] = (amount * weight[x]) \div w /\ w \in Nat \ {0}
      BY <1>1, <1>2, <2>3
    <3> QED BY <2>1, <3>1, DivisionBounds
  <2> QED BY <2>2, <2>3
<1>4. SumOn(part, S) \in Nat
  BY <1>3, SumNat
<1>5. SumOn(part, S) <= amount
  <2>1. CASE w = 0
    <3>1. \A x \in S : weight[x] \in Int /\ part[x] = 0 * weight[x]
      BY <1>2, <2>1
    <3>2. SumOn(part, S) = 0 * w
      BY <3>1, SumFactor DEF w
    <3> QED BY <2>1, <3>2
  <2>2. CASE w # 0
    <3> DEFINE scaled == [x \in S |-> w * part[x]]
               whole == [x \in S |-> amount * weight[x]]
    <3>1. \A x \in S : part[x] \in Int /\ scaled[x] = w * part[x]
      BY <1>3
    <3>2. \A x \in S : weight[x] \in Int /\ whole[x] = amount * weight[x]
      OBVIOUS
    <3>3. \A x \in S : scaled[x] \in Int /\ whole[x] \in Int /\ scaled[x] <= whole[x]
      BY <1>1, <1>3, ProductNat
    <3> HIDE DEF scaled, whole
    <3>4. SumOn(scaled, S) = w * SumOn(part, S)
      BY <1>1, <3>1, SumFactor
    <3>5. SumOn(whole, S) = amount * w
      BY <3>2, SumFactor DEF w
    <3>6. SumOn(scaled, S) <= SumOn(whole, S)
      BY <3>3, SumMonotone
    <3>7. w * SumOn(part, S) <= w * amount
      <4>1. amount * w = w * amount
        BY <1>1
      <4> QED BY <3>4, <3>5, <3>6, <4>1
    <3>8. w \in Nat \ {0} /\ SumOn(part, S) \in Int
      BY <1>1, <1>4, <2>2
    <3> QED BY <3>7, <3>8, ProductCancel
  <2> QED BY <2>1, <2>2
<1> QED BY <1>3, <1>4, <1>5

\* The same part p of w taken of each value leaves at most that part of their sum.
LEMMA ScaledSum ==
  ASSUME NEW S, IsFiniteSet(S), NEW f, NEW g, NEW w \in Nat \ {0}, NEW p \in Nat,
         \A x \in S : f[x] \in Nat /\ g[x] = (f[x] * p) \div w
  PROVE  /\ \A x \in S : g[x] \in Nat
         /\ SumOn(g, S) \in Nat /\ w * SumOn(g, S) <= p * SumOn(f, S)
<1>1. \A x \in S : g[x] \in Nat /\ w * g[x] <= p * f[x]
  <2> SUFFICES ASSUME NEW x \in S PROVE g[x] \in Nat /\ w * g[x] <= p * f[x]
    OBVIOUS
  <2>1. f[x] * p \in Nat /\ f[x] * p = p * f[x]
    BY ProductNat
  <2> QED BY <2>1, DivisionBounds
<1> DEFINE scaled == [x \in S |-> w * g[x]]
           whole == [x \in S |-> p * f[x]]
<1>2. \A x \in S : g[x] \in Int /\ scaled[x] = w * g[x] /\ f[x] \in Int /\ whole[x] = p * f[x]
  BY <1>1
<1>3. \A x \in S : scaled[x] \in Int /\ whole[x] \in Int /\ scaled[x] <= whole[x]
  BY <1>1, ProductNat
<1> HIDE DEF scaled, whole
<1>4. SumOn(scaled, S) = w * SumOn(g, S)
  <2>1. w \in Int /\ \A x \in S : g[x] \in Int /\ scaled[x] = w * g[x]
    BY <1>2
  <2> QED BY ONLY <2>1, IsFiniteSet(S), SumFactor
<1>5. SumOn(whole, S) = p * SumOn(f, S)
  <2>1. p \in Int /\ \A x \in S : f[x] \in Int /\ whole[x] = p * f[x]
    BY <1>2
  <2> QED BY ONLY <2>1, IsFiniteSet(S), SumFactor
<1>6. SumOn(scaled, S) <= SumOn(whole, S)
  BY <1>3, SumMonotone
<1>7. SumOn(g, S) \in Nat
  BY <1>1, SumNat
<1> QED BY <1>1, <1>4, <1>5, <1>6, <1>7

================================================================================
