----------------------------- MODULE SumLemmas -----------------------------
(***************************************************************************)
(* Facts about SumFunctionOnSet, the sum of a function over a finite set,  *)
(* for the proofs about running totals: hintBytes of the hint queue and    *)
(* memoryAllocation of HyperCache.                                         *)
(*                                                                         *)
(* The sum is a recursive function on the subsets of the set.  Induction   *)
(* is done by least counterexample: a set of naturals that is not empty    *)
(* has a least element, which is the library's theorem that < is well      *)
(* founded, in a form without operator parameters.                         *)
(***************************************************************************)
EXTENDS Integers, Functions, FiniteSetTheorems, TLAPS

LessNat == {ss \in Nat \X Nat : ss[1] < ss[2]}

\* A set of naturals that is not empty has a least element.
LEMMA NatMin ==
    ASSUME NEW T \in SUBSET Nat, T # {}
    PROVE  \E x \in T : \A y \in T : x <= y
<1>1. IsWellFoundedOn(LessNat, Nat)
  BY NatLessThanWellFounded, Zenon DEF OpToRel, LessNat
<1>2. PICK x \in T : \A y \in T : ~ (<<y, x>> \in LessNat)
  BY <1>1, WFMin
<1>3. ASSUME NEW y \in T PROVE x <= y
  <2>1. y \in Nat /\ x \in Nat
    OBVIOUS
  <2>2. <<y, x>> \in Nat \X Nat
    BY <2>1
  <2>3. ~ (<<y, x>>[1] < <<y, x>>[2])
    BY <1>2, <2>2, Zenon DEF LessNat
  <2> QED
    BY <2>1, <2>3
<1> QED
  BY <1>3

-----------------------------------------------------------------------------
(***************************************************************************)
(* The recursive function behind the sum, named.                           *)
(***************************************************************************)
Pick(s) == CHOOSE x \in s : TRUE

Body(f, D, g) == [s \in D |-> IF s = {} THEN 0 ELSE f[Pick(s)] + g[s \ {Pick(s)}]]

Partial(f, S) == CHOOSE g : g = Body(f, SUBSET S, g)

\* The sum is the value of that function at the whole set.
LEMMA SumIsPartial ==
    ASSUME NEW f, NEW S
    PROVE  SumFunctionOnSet(f, S) = Partial(f, S)[S]
BY Zenon DEF SumFunctionOnSet, FoldFunctionOnSet, MapThenFoldSet, Partial, Body, Pick

\* The element taken out of a set is one of its elements.
LEMMA PickIn ==
    ASSUME NEW s, s # {}
    PROVE  Pick(s) \in s
BY DEF Pick

\* The subsets of S with at most n elements.
Upto(S, n) == {s \in SUBSET S : Cardinality(s) <= n}

\* A finite set less the element picked is smaller by one.
LEMMA SmallerByOne ==
    ASSUME NEW s, IsFiniteSet(s), NEW x \in s
    PROVE  /\ IsFiniteSet(s \ {x})
           /\ Cardinality(s) \in Nat \ {0}
           /\ Cardinality(s \ {x}) = Cardinality(s) - 1
BY FS_RemoveElement, FS_CardinalityType, FS_EmptySet

\* The recursion has a solution on the small subsets.
LEMMA PartialUpto ==
    ASSUME NEW f, NEW S, IsFiniteSet(S), NEW n \in Nat
    PROVE  \E g : g = Body(f, Upto(S, n), g)
<1> DEFINE T == {m \in Nat : ~ \E g : g = Body(f, Upto(S, m), g)}
<1> SUFFICES ASSUME T # {} PROVE FALSE
  OBVIOUS
<1>1. PICK m \in T : \A y \in T : m <= y
  BY NatMin
<1>2. m \in Nat /\ ~ \E g : g = Body(f, Upto(S, m), g)
  OBVIOUS
<1>fin. ASSUME NEW s \in SUBSET S PROVE IsFiniteSet(s) /\ Cardinality(s) \in Nat
  BY FS_Subset, FS_CardinalityType
<1>3. CASE m = 0
  <2>1. ASSUME NEW s \in Upto(S, 0) PROVE s = {}
    BY <1>fin, FS_EmptySet DEF Upto
  <2> DEFINE g == [s \in Upto(S, 0) |-> 0]
  <2>2. g = Body(f, Upto(S, 0), g)
    BY <2>1 DEF Body
  <2> QED
    BY <2>2, <1>2, <1>3
<1>4. CASE m # 0
  <2>1. m - 1 \in Nat /\ m - 1 \notin T
    BY <1>1, <1>2, <1>4
  <2>2. PICK g : g = Body(f, Upto(S, m - 1), g)
    BY <2>1
  <2> DEFINE h == Body(f, Upto(S, m), g)
  <2>3. ASSUME NEW s \in Upto(S, m), s # {}
        PROVE  /\ s \ {Pick(s)} \in Upto(S, m - 1)
               /\ s \ {Pick(s)} \in Upto(S, m)
    <3>1. Pick(s) \in s /\ s \in SUBSET S
      BY <2>3, PickIn DEF Upto
    <3>2. IsFiniteSet(s) /\ Cardinality(s) <= m
      BY <3>1, <1>fin, <2>3 DEF Upto
    <3>3. Cardinality(s \ {Pick(s)}) = Cardinality(s) - 1 /\ Cardinality(s) \in Nat
      BY <3>1, <3>2, SmallerByOne
    <3>4. s \ {Pick(s)} \in SUBSET S
      BY <3>1
    <3> QED
      BY <3>2, <3>3, <3>4, <1>2 DEF Upto
  <2>4. ASSUME NEW s \in Upto(S, m - 1) PROVE h[s] = g[s]
    <3>1. s \in Upto(S, m)
      BY <1>fin, <1>2 DEF Upto
    <3>2. h[s] = IF s = {} THEN 0 ELSE f[Pick(s)] + g[s \ {Pick(s)}]
      BY <3>1 DEF Body
    <3>3. g[s] = IF s = {} THEN 0 ELSE f[Pick(s)] + g[s \ {Pick(s)}]
      BY <2>2 DEF Body
    <3> QED
      BY <3>2, <3>3
  <2>5. ASSUME NEW s \in Upto(S, m), s # {}
        PROVE  g[s \ {Pick(s)}] = h[s \ {Pick(s)}]
    BY <2>3, <2>4, <2>5
  <2>6. h = Body(f, Upto(S, m), h)
    <3> HIDE DEF h
    <3>1. h = [s \in Upto(S, m) |-> IF s = {} THEN 0 ELSE f[Pick(s)] + g[s \ {Pick(s)}]]
      BY DEF h, Body
    <3>2. ASSUME NEW s \in Upto(S, m)
          PROVE (IF s = {} THEN 0 ELSE f[Pick(s)] + g[s \ {Pick(s)}])
                 = (IF s = {} THEN 0 ELSE f[Pick(s)] + h[s \ {Pick(s)}])
      BY <2>5
    <3> QED
      BY <3>1, <3>2 DEF Body
  <2> QED
    BY <2>6, <1>2
<1> QED
  BY <1>3, <1>4

\* The recursion has a solution on all the subsets of a finite set: what the
\* partial sums of a set are.
LEMMA PartialDef ==
    ASSUME NEW f, NEW S, IsFiniteSet(S), NEW s \in SUBSET S
    PROVE  Partial(f, S)[s] = IF s = {} THEN 0
                              ELSE f[Pick(s)] + Partial(f, S)[s \ {Pick(s)}]
<1>1. Cardinality(S) \in Nat
  BY FS_CardinalityType
<1>2. Upto(S, Cardinality(S)) = SUBSET S
  BY FS_Subset DEF Upto
<1>3. \E g : g = Body(f, SUBSET S, g)
  BY <1>1, <1>2, PartialUpto
<1>4. Partial(f, S) = Body(f, SUBSET S, Partial(f, S))
  BY <1>3, Zenon DEF Partial
<1> QED
  BY <1>4 DEF Body

\* Partial sums do not depend on the set they are taken in.
LEMMA PartialAgree ==
    ASSUME NEW f, NEW S, NEW R, IsFiniteSet(S), IsFiniteSet(R),
           NEW s \in SUBSET (S \cap R)
    PROVE  Partial(f, S)[s] = Partial(f, R)[s]
<1> DEFINE T == {n \in Nat : \E q \in SUBSET (S \cap R) :
                     /\ Cardinality(q) = n
                     /\ Partial(f, S)[q] # Partial(f, R)[q]}
<1>fin. ASSUME NEW q \in SUBSET (S \cap R)
        PROVE  IsFiniteSet(q) /\ Cardinality(q) \in Nat
  BY FS_Subset, FS_CardinalityType
<1> SUFFICES ASSUME T # {} PROVE FALSE
  BY <1>fin
<1>1. PICK m \in T : \A y \in T : m <= y
  BY NatMin
<1>2. PICK q \in SUBSET (S \cap R) :
          Cardinality(q) = m /\ Partial(f, S)[q] # Partial(f, R)[q]
  OBVIOUS
<1>3. q \in SUBSET S /\ q \in SUBSET R
  OBVIOUS
<1>4. q # {}
  <2>1. Partial(f, S)[{}] = 0 /\ Partial(f, R)[{}] = 0
    BY PartialDef
  <2> QED
    BY <1>2, <2>1
<1> DEFINE p == q \ {Pick(q)}
<1>5. Pick(q) \in q
  BY <1>4, PickIn
<1>6. p \in SUBSET (S \cap R) /\ Cardinality(p) = m - 1 /\ m \in Nat \ {0}
  BY <1>2, <1>5, <1>fin, SmallerByOne
<1>7. Partial(f, S)[p] = Partial(f, R)[p]
  <2>1. m - 1 \notin T /\ m - 1 \in Nat
    BY <1>1, <1>6
  <2> QED
    BY <1>6, <2>1
<1>8. /\ Partial(f, S)[q] = f[Pick(q)] + Partial(f, S)[p]
      /\ Partial(f, R)[q] = f[Pick(q)] + Partial(f, R)[p]
  BY <1>3, <1>4, PartialDef
<1> QED
  BY <1>2, <1>7, <1>8

-----------------------------------------------------------------------------
(***************************************************************************)
(* The facts that other proofs use.                                        *)
(***************************************************************************)

\* The sum over no elements is zero.
LEMMA SumEmpty ==
    ASSUME NEW f
    PROVE  SumFunctionOnSet(f, {}) = 0
BY SumIsPartial, PartialDef, FS_EmptySet

\* The sum over a set is the picked element's value and the sum of the rest.
LEMMA SumPick ==
    ASSUME NEW f, NEW S, IsFiniteSet(S), S # {}
    PROVE  /\ Pick(S) \in S
           /\ SumFunctionOnSet(f, S)
                = f[Pick(S)] + SumFunctionOnSet(f, S \ {Pick(S)})
<1> DEFINE R == S \ {Pick(S)}
<1>1. Pick(S) \in S
  BY PickIn
<1>2. IsFiniteSet(R)
  BY FS_RemoveElement
<1>3. Partial(f, S)[S] = f[Pick(S)] + Partial(f, S)[R]
  BY PartialDef
<1>4. Partial(f, S)[R] = Partial(f, R)[R]
  BY <1>2, PartialAgree
<1> QED
  BY <1>1, <1>3, <1>4, SumIsPartial

\* A sum of integers is an integer, of naturals a natural, of zeros zero.
LEMMA SumType ==
    ASSUME NEW f, NEW S, IsFiniteSet(S)
    PROVE  /\ (\A x \in S : f[x] \in Int) => SumFunctionOnSet(f, S) \in Int
           /\ (\A x \in S : f[x] \in Nat) => SumFunctionOnSet(f, S) \in Nat
           /\ (\A x \in S : f[x] = 0) => SumFunctionOnSet(f, S) = 0
<1>1. ASSUME NEW V \in {Int, Nat, {0}}, \A x \in S : f[x] \in V
      PROVE  SumFunctionOnSet(f, S) \in V
  <2> DEFINE T == {n \in Nat : \E q \in SUBSET S :
                       Cardinality(q) = n /\ SumFunctionOnSet(f, q) \notin V}
  <2>fin. ASSUME NEW q \in SUBSET S PROVE IsFiniteSet(q) /\ Cardinality(q) \in Nat
    BY FS_Subset, FS_CardinalityType
  <2> SUFFICES ASSUME T # {} PROVE FALSE
    BY <2>fin
  <2>1. PICK m \in T : \A y \in T : m <= y
    BY NatMin
  <2>2. PICK q \in SUBSET S : Cardinality(q) = m /\ SumFunctionOnSet(f, q) \notin V
    OBVIOUS
  <2>3. q # {}
    BY <2>2, <1>1, SumEmpty
  <2> DEFINE p == q \ {Pick(q)}
  <2>4. /\ Pick(q) \in q
        /\ SumFunctionOnSet(f, q) = f[Pick(q)] + SumFunctionOnSet(f, p)
    BY <2>3, <2>fin, SumPick
  <2>5. p \in SUBSET S /\ Cardinality(p) = m - 1 /\ m \in Nat \ {0}
    BY <2>2, <2>4, <2>fin, SmallerByOne
  <2>6. SumFunctionOnSet(f, p) \in V
    <3>1. m - 1 \notin T /\ m - 1 \in Nat
      BY <2>1, <2>5
    <3> QED
      BY <2>5, <3>1
  <2>7. f[Pick(q)] \in V
    BY <1>1, <2>4
  <2>8. SumFunctionOnSet(f, q) \in V
    <3> HIDE DEF p
    <3> QED
      BY <2>4, <2>6, <2>7
  <2> QED
    BY <2>2, <2>8
<1> QED
  BY <1>1

\* Any element can be taken out of a sum.
LEMMA SumRemove ==
    ASSUME NEW f, NEW S, IsFiniteSet(S), \A x \in S : f[x] \in Int, NEW e \in S
    PROVE  SumFunctionOnSet(f, S) = f[e] + SumFunctionOnSet(f, S \ {e})
<1> DEFINE Bad(q, x) == SumFunctionOnSet(f, q) # f[x] + SumFunctionOnSet(f, q \ {x})
<1> DEFINE T == {n \in Nat : \E q \in SUBSET S : \E x \in q :
                     Cardinality(q) = n /\ Bad(q, x)}
<1>fin. ASSUME NEW q \in SUBSET S
        PROVE  /\ IsFiniteSet(q) /\ Cardinality(q) \in Nat
               /\ SumFunctionOnSet(f, q) \in Int
  BY FS_Subset, FS_CardinalityType, SumType
<1> SUFFICES ASSUME T # {} PROVE FALSE
  BY <1>fin
<1>1. PICK m \in T : \A y \in T : m <= y
  BY NatMin
<1>2a. PICK q \in SUBSET S : \E x \in q : Cardinality(q) = m /\ Bad(q, x)
  OBVIOUS
<1>2. PICK x \in q : Cardinality(q) = m /\ Bad(q, x)
  BY <1>2a
<1> DEFINE c == Pick(q)
           p == q \ {c}
           r == q \ {x}
<1>3. c \in q /\ SumFunctionOnSet(f, q) = f[c] + SumFunctionOnSet(f, p)
  BY <1>2, <1>fin, SumPick
<1>4. /\ p \in SUBSET S /\ Cardinality(p) = m - 1
      /\ r \in SUBSET S /\ Cardinality(r) = m - 1
      /\ m \in Nat \ {0}
  BY <1>2, <1>3, <1>fin, SmallerByOne
<1>5. c # x
  BY <1>2, <1>3
<1>6. ~Bad(p, x) /\ ~Bad(r, c)
  <2>1. m - 1 \notin T /\ m - 1 \in Nat
    <3> HIDE DEF T, p, r
    <3> QED
      BY <1>1, <1>4
  <2>2. x \in p /\ c \in r
    BY <1>2, <1>3, <1>5
  <2> HIDE DEF p, r, Bad
  <2> QED
    BY <1>4, <2>1, <2>2
<1>7. p \ {x} = r \ {c} /\ p \ {x} \in SUBSET S
  OBVIOUS
<1>8. /\ SumFunctionOnSet(f, p) = f[x] + SumFunctionOnSet(f, p \ {x})
      /\ SumFunctionOnSet(f, r) = f[c] + SumFunctionOnSet(f, p \ {x})
  BY <1>6, <1>7
<1>9. SumFunctionOnSet(f, p \ {x}) \in Int /\ f[x] \in Int /\ f[c] \in Int
  BY <1>7, <1>fin, <1>2, <1>3
<1>10. SumFunctionOnSet(f, q) # f[x] + SumFunctionOnSet(f, r)
  BY <1>2
<1> QED
  <2> HIDE DEF p, r, c
  <2> QED
    BY <1>3, <1>8, <1>9, <1>10

\* An element that is not there can be added to a sum.
LEMMA SumAdd ==
    ASSUME NEW f, NEW S, IsFiniteSet(S), NEW e, e \notin S,
           \A x \in S \cup {e} : f[x] \in Int
    PROVE  SumFunctionOnSet(f, S \cup {e}) = SumFunctionOnSet(f, S) + f[e]
<1> DEFINE U == S \cup {e}
<1>1. IsFiniteSet(U) /\ e \in U /\ U \ {e} = S
  BY FS_AddElement
<1>2. SumFunctionOnSet(f, S) \in Int /\ f[e] \in Int
  BY SumType
<1> HIDE DEF U
<1>3. SumFunctionOnSet(f, U) = f[e] + SumFunctionOnSet(f, S)
  BY <1>1, SumRemove DEF U
<1> QED
  BY <1>2, <1>3 DEF U

\* A sum depends on the function's values on the set alone, and grows with them.
LEMMA SumMonotone ==
    ASSUME NEW f, NEW g, NEW S, IsFiniteSet(S),
           \A x \in S : f[x] \in Int /\ g[x] \in Int /\ f[x] <= g[x]
    PROVE  SumFunctionOnSet(f, S) <= SumFunctionOnSet(g, S)
<1> DEFINE T == {n \in Nat : \E q \in SUBSET S :
                     /\ Cardinality(q) = n
                     /\ ~(SumFunctionOnSet(f, q) <= SumFunctionOnSet(g, q))}
<1>fin. ASSUME NEW q \in SUBSET S
        PROVE  /\ IsFiniteSet(q) /\ Cardinality(q) \in Nat
               /\ SumFunctionOnSet(f, q) \in Int /\ SumFunctionOnSet(g, q) \in Int
  BY FS_Subset, FS_CardinalityType, SumType
<1> SUFFICES ASSUME T # {} PROVE FALSE
  BY <1>fin
<1>1. PICK m \in T : \A y \in T : m <= y
  BY NatMin
<1>2. PICK q \in SUBSET S :
          Cardinality(q) = m /\ ~(SumFunctionOnSet(f, q) <= SumFunctionOnSet(g, q))
  OBVIOUS
<1>3. q # {}
  BY <1>2, SumEmpty
<1> DEFINE p == q \ {Pick(q)}
<1>4. /\ Pick(q) \in q
      /\ SumFunctionOnSet(f, q) = f[Pick(q)] + SumFunctionOnSet(f, p)
      /\ SumFunctionOnSet(g, q) = g[Pick(q)] + SumFunctionOnSet(g, p)
  BY <1>3, <1>fin, SumPick
<1>5. p \in SUBSET S /\ Cardinality(p) = m - 1 /\ m \in Nat \ {0}
  BY <1>2, <1>4, <1>fin, SmallerByOne
<1>6. SumFunctionOnSet(f, p) <= SumFunctionOnSet(g, p)
  <2>1. m - 1 \notin T /\ m - 1 \in Nat
    BY <1>1, <1>5
  <2> QED
    BY <1>5, <2>1
<1>7. /\ f[Pick(q)] \in Int /\ g[Pick(q)] \in Int /\ f[Pick(q)] <= g[Pick(q)]
      /\ SumFunctionOnSet(f, p) \in Int /\ SumFunctionOnSet(g, p) \in Int
  BY <1>4, <1>5, <1>fin
<1> HIDE DEF p
<1> QED
  BY <1>2, <1>4, <1>6, <1>7

\* Two functions with the same values on a set have the same sum over it.
LEMMA SumEqual ==
    ASSUME NEW f, NEW g, NEW S, IsFiniteSet(S),
           \A x \in S : f[x] \in Int /\ f[x] = g[x]
    PROVE  SumFunctionOnSet(f, S) = SumFunctionOnSet(g, S)
<1>1. SumFunctionOnSet(f, S) <= SumFunctionOnSet(g, S)
  BY SumMonotone
<1>2. SumFunctionOnSet(g, S) <= SumFunctionOnSet(f, S)
  BY SumMonotone
<1>3. SumFunctionOnSet(f, S) \in Int /\ SumFunctionOnSet(g, S) \in Int
  BY SumType
<1> QED
  BY <1>1, <1>2, <1>3

\* A function changed at one element: its sum changes by the difference.
LEMMA SumUpdate ==
    ASSUME NEW f, NEW g, NEW S, IsFiniteSet(S), NEW e \in S,
           \A x \in S : f[x] \in Int /\ g[x] \in Int,
           \A x \in S \ {e} : f[x] = g[x]
    PROVE  SumFunctionOnSet(g, S) = SumFunctionOnSet(f, S) - f[e] + g[e]
<1>1. IsFiniteSet(S \ {e})
  BY FS_RemoveElement
<1>2. SumFunctionOnSet(f, S \ {e}) = SumFunctionOnSet(g, S \ {e})
  BY <1>1, SumEqual
<1>3. /\ SumFunctionOnSet(f, S) = f[e] + SumFunctionOnSet(f, S \ {e})
      /\ SumFunctionOnSet(g, S) = g[e] + SumFunctionOnSet(g, S \ {e})
  BY SumRemove
<1>4. /\ SumFunctionOnSet(f, S \ {e}) \in Int /\ SumFunctionOnSet(g, S \ {e}) \in Int
      /\ f[e] \in Int /\ g[e] \in Int
  BY <1>1, SumType
<1> QED
  BY <1>2, <1>3, <1>4
=============================================================================
