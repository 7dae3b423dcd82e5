--------------------------- MODULE CylindersProofs ---------------------------
(***************************************************************************)
(* Proofs about Cylinders, for any players, tiles and things, and any size *)
(* of stacks and containers that the constants allow.                      *)
(*                                                                         *)
(* The invariant is stated of a state s, as the operations are: Tree(s)    *)
(* says that the fields have their types, that what things know of their   *)
(* holders and holders of their things agrees (Agrees), and that every     *)
(* chain of containers ends (Rooted); Placed(s) that nothing but a stack   *)
(* is ever nowhere, Counted(s) that every stack in the world has pieces.   *)
(* The three together are Good(s).  InReach(s) is about the open windows.  *)
(* Fair(s) says that containers and players keep the weight of what they   *)
(* hold (Weighs, Bears), that nobody carries more than it can, that no     *)
(* container is too full (Snug), and what hands may hold (Armed).          *)
(*                                                                         *)
(* First come sums, recursion and the chains of containers; then what      *)
(* addThing, updateThing and removeThing do to the tree (each a step       *)
(* Added, Updated or Removed), the destinations, and the steps of a move,  *)
(* during which a thing is nowhere; then windows, what the queries allow,  *)
(* exchanges, internalMoveItem (MovesTo) and the rounds of internalAddItem *)
(* (Gains), with what they leave: that what is left always has room        *)
(* (Ready); then what things weigh, during a move (Heavier, Balance) and   *)
(* between the rounds (Laden).  The actions and theorems are at the end.   *)
(***************************************************************************)
EXTENDS Cylinders, FiniteSetTheorems, SequenceTheorems, WellFoundedInduction,
        TLAPS

-----------------------------------------------------------------------------
(* Induction: over numbers up to a bound and over the subsets of a set.    *)

LEMMA UpTo ==
    ASSUME NEW N \in Nat, NEW G, 0 \in G,
           \A n \in 0..N : n \in G /\ n # N => n + 1 \in G
    PROVE  \A n \in 0..N : n \in G
<1>. DEFINE Bad == {n \in 0..N : n \notin G}
<1>1. IsWellFoundedOn(OpToRel(<, Nat), Nat)
  BY NatLessThanWellFounded
<1>2. ASSUME Bad # {} PROVE FALSE
  <2>1. PICK n \in Bad : \A m \in Bad : <<m, n>> \notin OpToRel(<, Nat)
    <3>1. Bad \subseteq Nat
      OBVIOUS
    <3>. HIDE DEF Bad
    <3>. QED
      BY <1>1, <1>2, <3>1, WFMin
  <2>2. n \in 0..N /\ n # 0 /\ n \notin G
    BY <2>1
  <2>3. n - 1 \in 0..N /\ n - 1 # N /\ n - 1 + 1 = n /\ n - 1 \in Nat /\ n \in Nat /\ n - 1 < n
    BY <2>2
  <2>4. <<n - 1, n>> \in OpToRel(<, Nat)
    BY <2>3 DEF OpToRel
  <2>. QED
    BY <2>1, <2>2, <2>3, <2>4
<1>. QED
  BY <1>2

\* Induction over the subsets of a finite set, G the set of those that are good.
LEMMA SubsetInduction ==
    ASSUME NEW D, IsFiniteSet(D), NEW G,
           \A T \in SUBSET D : (\A U \in SUBSET T : U # T => U \in G) => T \in G
    PROVE  \A T \in SUBSET D : T \in G
<1>. DEFINE Bad == {T \in SUBSET D : T \notin G}
<1>1. IsWellFoundedOn(StrictSubsetOrdering(D), SUBSET D)
  BY FS_StrictSubsetOrderingWellFounded, FS_FiniteSubsetsOfFinite
<1>2. ASSUME Bad # {} PROVE FALSE
  <2>1. PICK T \in Bad : \A U \in Bad : <<U, T>> \notin StrictSubsetOrdering(D)
    <3>. HIDE DEF Bad
    <3>1. Bad \subseteq SUBSET D
      BY DEF Bad
    <3>. QED
      BY <1>1, <1>2, <3>1, WFMin
  <2>2. \A U \in SUBSET T : U # T => U \in G
    BY <2>1 DEF StrictSubsetOrdering
  <2>. QED
    BY <2>1, <2>2
<1>. QED
  BY <1>2

-----------------------------------------------------------------------------
(* Sums.                                                                   *)

\* The element that a sum takes first.
First(T) == CHOOSE x \in T : TRUE

LEMMA FirstIn == ASSUME NEW T, T # {} PROVE First(T) \in T
BY DEF First

\* h has the sum of f over each subset of D.
Sums(h, f, D) ==
    /\ h \in [SUBSET D -> Int]
    /\ \A T \in SUBSET D :
          h[T] = IF T = {} THEN 0 ELSE f[First(T)] + h[T \ {First(T)}]

LEMMA SumsUnique ==
    ASSUME NEW D, IsFiniteSet(D), NEW E \in SUBSET D, NEW f, NEW g,
           \A x \in E : f[x] = g[x],
           NEW h, Sums(h, f, D), NEW k, Sums(k, g, E)
    PROVE  h[E] = k[E]
<1>. DEFINE G == {T \in SUBSET E : h[T] = k[T]}
<1>1. ASSUME NEW T \in SUBSET E, \A U \in SUBSET T : U # T => U \in G PROVE T \in G
  <2>1. CASE T = {}
    BY <2>1 DEF Sums
  <2>2. CASE T # {}
    <3>1. First(T) \in T
      BY <2>2, FirstIn
    <3>2. T \ {First(T)} \in SUBSET T /\ T \ {First(T)} # T
      BY <3>1
    <3>3. h[T \ {First(T)}] = k[T \ {First(T)}]
      BY <1>1, <3>2
    <3>4. h[T] = f[First(T)] + h[T \ {First(T)}]
      BY <2>2 DEF Sums
    <3>5. k[T] = g[First(T)] + k[T \ {First(T)}]
      BY <2>2 DEF Sums
    <3>. QED
      BY <3>1, <3>3, <3>4, <3>5
  <2>. QED
    BY <2>1, <2>2
<1>2. IsFiniteSet(E)
  BY FS_Subset
<1>. HIDE DEF G
<1>3. \A T \in SUBSET E : T \in G
  BY <1>1, <1>2, SubsetInduction
<1>. QED
  BY <1>3 DEF G

LEMMA SumsExist ==
    ASSUME NEW D, IsFiniteSet(D), NEW f \in [D -> Int]
    PROVE  \E h : Sums(h, f, D)
<1>. DEFINE Some(T) == CHOOSE h : Sums(h, f, T)
            V(T) == Some(T)[T]
            G == {T \in SUBSET D : \E h : Sums(h, f, T)}
<1>1. ASSUME NEW T \in SUBSET D, \A U \in SUBSET T : U # T => U \in G PROVE T \in G
  <2>. DEFINE h == [U \in SUBSET T |->
                     IF U = {} THEN 0 ELSE f[First(U)] + V(U \ {First(U)})]
  <2>0. ASSUME NEW U \in G PROVE Sums(Some(U), f, U) /\ V(U) \in Int
    <3>1. Sums(Some(U), f, U)
      OBVIOUS
    <3>. QED
      BY <3>1 DEF Sums
  <2>1. ASSUME NEW U \in SUBSET T, U # {}
        PROVE  /\ First(U) \in D /\ U \ {First(U)} \in SUBSET T
               /\ U \ {First(U)} \in G /\ f[First(U)] + V(U \ {First(U)}) \in Int
    <3>1. First(U) \in U /\ U \ {First(U)} \in SUBSET T /\ U \ {First(U)} # T
      BY <2>1, FirstIn
    <3>2. U \ {First(U)} \in G
      BY <3>1, <1>1
    <3>3. V(U \ {First(U)}) \in Int
      <4>. HIDE DEF V, G
      <4>. QED
        BY <3>2, <2>0
    <3>4. f[First(U)] \in Int
      BY <3>1
    <3>. HIDE DEF V, G
    <3>. QED
      BY <3>1, <3>2, <3>3, <3>4
  <2>2. h \in [SUBSET T -> Int]
    <3>. HIDE DEF V, G
    <3>. QED
      BY <2>1
  <2>3. ASSUME NEW U \in SUBSET T, U \in G PROVE h[U] = V(U)
    <3>1. Sums(Some(U), f, U)
      BY <2>3, <2>0
    <3>2. CASE U = {}
      BY <3>1, <3>2 DEF Sums
    <3>3. CASE U # {}
      <4>. DEFINE X == U \ {First(U)}
      <4>1. X \in G /\ X \in SUBSET U
        BY <3>3, <2>1
      <4>2. Sums(Some(X), f, X)
        BY <4>1, <2>0
      <4>3. IsFiniteSet(U)
        BY FS_Subset
      <4>4. Some(U)[X] = V(X)
        <5>. HIDE DEF Some, X
        <5>. QED
          BY <3>1, <4>1, <4>2, <4>3, SumsUnique
      <4>5. V(U) = f[First(U)] + Some(U)[X]
        <5>. HIDE DEF Some
        <5>. QED
          BY <3>1, <3>3 DEF Sums
      <4>6. h[U] = f[First(U)] + V(X)
        <5>. HIDE DEF V
        <5>. QED
          BY <3>3
      <4>. QED
        BY <4>4, <4>5, <4>6
    <3>. QED
      BY <3>2, <3>3
  <2>4. ASSUME NEW U \in SUBSET T, U # {} PROVE h[U] = f[First(U)] + h[U \ {First(U)}]
    <3>1. h[U] = f[First(U)] + V(U \ {First(U)})
      <4>. HIDE DEF V
      <4>. QED
        BY <2>4
    <3>2. h[U \ {First(U)}] = V(U \ {First(U)})
      <4>. HIDE DEF h, V, G
      <4>. QED
        BY <2>1, <2>3, <2>4
    <3>. QED
      BY <3>1, <3>2
  <2>5. h[{}] = 0
    OBVIOUS
  <2>6. Sums(h, f, T)
    <3>. HIDE DEF h
    <3>. QED
      BY <2>2, <2>4, <2>5 DEF Sums
  <2>. HIDE DEF h
  <2>. QED
    BY <2>6
<1>. HIDE DEF G
<1>2. \A T \in SUBSET D : T \in G
  BY <1>1, SubsetInduction
<1>. QED
  BY <1>2 DEF G

\* SumFunction is such a sum.
LEMMA SumIs ==
    ASSUME NEW D, IsFiniteSet(D), NEW f \in [D -> Int],
           NEW h, Sums(h, f, D)
    PROVE  SumFunction(f) = h[D]
<1>. DEFINE Is(k) == k = [T \in SUBSET D |-> IF T = {} THEN 0 ELSE f[First(T)] + k[T \ {First(T)}]]
            k0 == CHOOSE k : Is(k)
<1>1. Is(h)
  BY DEF Sums
<1>2. Is(k0)
  <2>. HIDE DEF Is
  <2>. QED
    BY <1>1
<1>3. SumFunction(f) = k0[D]
  BY DEF SumFunction, SumFunctionOnSet, FoldFunctionOnSet, MapThenFoldSet, First
<1>4. ASSUME NEW T \in SUBSET D PROVE k0[T] = h[T]
  <2>. DEFINE G == {U \in SUBSET D : h[U] = k0[U]}
  <2>0. ASSUME NEW U \in SUBSET D
        PROVE  k0[U] = IF U = {} THEN 0 ELSE f[First(U)] + k0[U \ {First(U)}]
    <3>. HIDE DEF k0
    <3>. QED
      BY <1>2
  <2>1. ASSUME NEW U \in SUBSET D, \A W \in SUBSET U : W # U => W \in G PROVE U \in G
    <3>. HIDE DEF k0
    <3>1. CASE U = {}
      BY <2>0, <3>1 DEF Sums
    <3>2. CASE U # {}
      <4>1. First(U) \in U
        BY <3>2, FirstIn
      <4>2. U \ {First(U)} \in G
        <5>. HIDE DEF G
        <5>. QED
          BY <2>1, <4>1
      <4>3. h[U] = f[First(U)] + h[U \ {First(U)}]
        BY <3>2 DEF Sums
      <4>. QED
        BY <2>0, <3>2, <4>1, <4>2, <4>3
    <3>. QED
      BY <3>1, <3>2
  <2>. HIDE DEF G, k0
  <2>2. \A U \in SUBSET D : U \in G
    BY <2>1, SubsetInduction
  <2>. QED
    BY <2>2 DEF G
<1>. HIDE DEF k0
<1>. QED
  BY <1>3, <1>4

\* A sum is what any of its elements adds to the sum of the rest.
LEMMA SumsAny ==
    ASSUME NEW D, IsFiniteSet(D), NEW f \in [D -> Int], NEW h, Sums(h, f, D)
    PROVE  \A T \in SUBSET D : \A x \in T : h[T] = f[x] + h[T \ {x}]
<1>. DEFINE G == {T \in SUBSET D : \A x \in T : h[T] = f[x] + h[T \ {x}]}
<1>0. \A U \in SUBSET D : h[U] \in Int
  BY DEF Sums
<1>1. ASSUME NEW T \in SUBSET D, \A U \in SUBSET T : U # T => U \in G PROVE T \in G
  <2>1. SUFFICES ASSUME NEW x \in T PROVE h[T] = f[x] + h[T \ {x}]
    OBVIOUS
  <2>. DEFINE y == First(T)
  <2>2. y \in T
    BY FirstIn
  <2>3. h[T] = f[y] + h[T \ {y}]
    BY DEF Sums
  <2>4. CASE x # y
    <3>1. T \ {y} \in G /\ x \in T \ {y} /\ T \ {x} \in G /\ y \in T \ {x}
      <4>. HIDE DEF y, G
      <4>. QED
        BY <1>1, <2>2, <2>4
    <3>. DEFINE W == T \ {x, y}
    <3>2. h[T \ {y}] = f[x] + h[(T \ {y}) \ {x}] /\ h[T \ {x}] = f[y] + h[(T \ {x}) \ {y}]
      BY <3>1
    <3>3. (T \ {y}) \ {x} = W /\ (T \ {x}) \ {y} = W /\ W \in SUBSET D
      OBVIOUS
    <3>4. h[W] \in Int /\ f[x] \in Int /\ f[y] \in Int
      BY <1>0, <2>2, <3>3
    <3>5. h[T \ {y}] = f[x] + h[W] /\ h[T \ {x}] = f[y] + h[W]
      BY <3>2, <3>3
    <3>. HIDE DEF y, G, W
    <3>. QED
      BY <2>3, <3>4, <3>5
  <2>. QED
    BY <2>3, <2>4
<1>. HIDE DEF G
<1>2. \A T \in SUBSET D : T \in G
  BY <1>1, SubsetInduction
<1>. QED
  BY <1>2 DEF G

LEMMA SumType ==
    ASSUME NEW D, IsFiniteSet(D), NEW f \in [D -> Int]
    PROVE  SumFunction(f) \in Int
<1>1. PICK h : Sums(h, f, D)
  BY SumsExist
<1>2. SumFunction(f) = h[D]
  BY <1>1, SumIs
<1>. QED
  BY <1>1, <1>2 DEF Sums

LEMMA SumEmpty ==
    ASSUME NEW f \in [{} -> Int]
    PROVE  SumFunction(f) = 0
<1>0. IsFiniteSet({})
  BY FS_EmptySet
<1>1. PICK h : Sums(h, f, {})
  BY <1>0, SumsExist
<1>2. SumFunction(f) = h[{}]
  BY <1>0, <1>1, SumIs
<1>. QED
  BY <1>1, <1>2 DEF Sums

\* One more summand.
LEMMA SumMore ==
    ASSUME NEW D, IsFiniteSet(D), NEW x \in D,
           NEW f \in [D \ {x} -> Int], NEW g \in [D -> Int],
           \A y \in D \ {x} : g[y] = f[y]
    PROVE  SumFunction(g) = SumFunction(f) + g[x]
<1>0. IsFiniteSet(D \ {x})
  BY FS_RemoveElement
<1>1. PICK h : Sums(h, f, D \ {x})
  BY <1>0, SumsExist
<1>2. PICK k : Sums(k, g, D)
  BY SumsExist
<1>3. k[D] = g[x] + k[D \ {x}]
  BY <1>2, SumsAny
<1>4. k[D \ {x}] = h[D \ {x}]
  <2>. DEFINE E == D \ {x}
  <2>1. E \in SUBSET D /\ Sums(h, f, E) /\ \A y \in E : g[y] = f[y]
    BY <1>1
  <2>. HIDE DEF E
  <2>2. k[E] = h[E]
    BY <1>2, <2>1, SumsUnique
  <2>. QED
    BY <2>2 DEF E
<1>5. SumFunction(f) = h[D \ {x}] /\ SumFunction(g) = k[D]
  BY <1>0, <1>1, <1>2, SumIs
<1>6. g[x] \in Int /\ h[D \ {x}] \in Int
  BY <1>1 DEF Sums
<1>. QED
  BY <1>3, <1>4, <1>5, <1>6

\* One summand changed.
LEMMA SumOther ==
    ASSUME NEW D, IsFiniteSet(D), NEW x \in D,
           NEW f \in [D -> Int], NEW g \in [D -> Int],
           \A y \in D \ {x} : g[y] = f[y]
    PROVE  SumFunction(g) = SumFunction(f) + (g[x] - f[x])
<1>. DEFINE r == [y \in D \ {x} |-> f[y]]
<1>1. r \in [D \ {x} -> Int]
  OBVIOUS
<1>2. \A y \in D \ {x} : g[y] = r[y] /\ f[y] = r[y]
  OBVIOUS
<1>. HIDE DEF r
<1>3. SumFunction(g) = SumFunction(r) + g[x] /\ SumFunction(f) = SumFunction(r) + f[x]
  BY <1>1, <1>2, SumMore
<1>4. IsFiniteSet(D \ {x})
  BY FS_RemoveElement
<1>5. SumFunction(r) \in Int /\ g[x] \in Int /\ f[x] \in Int
  BY <1>1, <1>4, SumType
<1>. QED
  BY <1>3, <1>5

LEMMA SumSingle ==
    ASSUME NEW x, NEW f \in [{x} -> Int]
    PROVE  SumFunction(f) = f[x]
<1>. DEFINE e == [y \in {x} \ {x} |-> f[y]]
<1>1. e \in [{x} \ {x} -> Int] /\ e \in [{} -> Int]
  OBVIOUS
<1>2. SumFunction(e) = 0
  BY <1>1, SumEmpty
<1>3. IsFiniteSet({x})
  BY FS_Singleton
<1>4. SumFunction(f) = SumFunction(e) + f[x]
  <2>. HIDE DEF e
  <2>. QED
    BY <1>1, <1>3, SumMore
<1>5. f[x] \in Int
  OBVIOUS
<1>. QED
  BY <1>2, <1>4, <1>5

\* Greater summands, greater sums.
LEMMA SumGreater ==
    ASSUME NEW D, IsFiniteSet(D), NEW f \in [D -> Int], NEW g \in [D -> Int],
           \A y \in D : f[y] <= g[y]
    PROVE  SumFunction(f) <= SumFunction(g)
<1>1. PICK h : Sums(h, f, D)
  BY SumsExist
<1>2. PICK k : Sums(k, g, D)
  BY SumsExist
<1>. DEFINE G == {T \in SUBSET D : h[T] <= k[T]}
<1>3. ASSUME NEW T \in SUBSET D, \A U \in SUBSET T : U # T => U \in G PROVE T \in G
  <2>1. CASE T = {}
    <3>1. h[T] = 0 /\ k[T] = 0
      BY <1>1, <1>2, <2>1 DEF Sums
    <3>. QED
      BY <3>1
  <2>2. CASE T # {}
    <3>. DEFINE y == First(T)
    <3>1. y \in T
      BY <2>2, FirstIn
    <3>2. h[T] = f[y] + h[T \ {y}] /\ k[T] = g[y] + k[T \ {y}]
      BY <1>1, <1>2, <2>2 DEF Sums
    <3>3. h[T \ {y}] <= k[T \ {y}]
      BY <1>3, <3>1
    <3>4. /\ h[T \ {y}] \in Int /\ k[T \ {y}] \in Int /\ f[y] \in Int /\ g[y] \in Int
          /\ f[y] <= g[y]
      BY <1>1, <1>2, <3>1 DEF Sums
    <3>. HIDE DEF y
    <3>. QED
      BY <3>2, <3>3, <3>4
  <2>. QED
    BY <2>1, <2>2
<1>. HIDE DEF G
<1>4. \A T \in SUBSET D : T \in G
  BY <1>3, SubsetInduction
<1>5. SumFunction(f) = h[D] /\ SumFunction(g) = k[D]
  BY <1>1, <1>2, SumIs
<1>. QED
  BY <1>4, <1>5 DEF G

\* The sum of nothings is nothing.
LEMMA SumZero ==
    ASSUME NEW D, IsFiniteSet(D), NEW f \in [D -> Int], \A y \in D : f[y] = 0
    PROVE  SumFunction(f) = 0
<1>1. PICK h : Sums(h, f, D)
  BY SumsExist
<1>. DEFINE G == {T \in SUBSET D : h[T] = 0}
<1>3. ASSUME NEW T \in SUBSET D, \A U \in SUBSET T : U # T => U \in G PROVE T \in G
  <2>1. CASE T = {}
    BY <1>1, <2>1 DEF Sums
  <2>2. CASE T # {}
    <3>1. First(T) \in T
      BY <2>2, FirstIn
    <3>2. h[T] = f[First(T)] + h[T \ {First(T)}]
      BY <1>1, <2>2 DEF Sums
    <3>3. h[T \ {First(T)}] = 0
      BY <1>3, <3>1
    <3>. QED
      BY <3>1, <3>2, <3>3
  <2>. QED
    BY <2>1, <2>2
<1>. HIDE DEF G
<1>4. \A T \in SUBSET D : T \in G
  BY <1>3, SubsetInduction
<1>5. SumFunction(f) = h[D]
  BY <1>1, SumIs
<1>. QED
  BY <1>4, <1>5 DEF G

\* Sums of numbers that are not negative.
LEMMA SumNat ==
    ASSUME NEW D, IsFiniteSet(D), NEW f \in [D -> Nat]
    PROVE  /\ SumFunction(f) \in Nat
           /\ \A x \in D : f[x] <= SumFunction(f)
           /\ SumFunction(f) > 0 => \E x \in D : f[x] > 0
<1>. DEFINE z == [y \in D |-> 0]
<1>1. f \in [D -> Int] /\ z \in [D -> Int] /\ \A y \in D : z[y] = 0 /\ z[y] <= f[y]
  OBVIOUS
<1>. HIDE DEF z
<1>2. SumFunction(f) \in Int /\ SumFunction(z) = 0 /\ SumFunction(z) <= SumFunction(f)
  BY <1>1, SumType, SumZero, SumGreater
<1>3. ASSUME NEW x \in D PROVE f[x] <= SumFunction(f)
  <2>. DEFINE g == [y \in D |-> IF y = x THEN 0 ELSE f[y]]
  <2>1. /\ g \in [D -> Int] /\ g[x] = 0
        /\ \A y \in D \ {x} : f[y] = g[y]
        /\ \A y \in D : z[y] <= g[y]
    BY <1>1
  <2>. HIDE DEF g
  <2>2. SumFunction(f) = SumFunction(g) + (f[x] - g[x])
    BY <1>1, <2>1, SumOther
  <2>3. SumFunction(z) <= SumFunction(g) /\ SumFunction(g) \in Int
    BY <1>1, <2>1, SumGreater, SumType
  <2>4. f[x] \in Int
    OBVIOUS
  <2>. QED
    BY <1>2, <2>1, <2>2, <2>3, <2>4
<1>4. ASSUME \A x \in D : ~(f[x] > 0) PROVE SumFunction(f) = 0
  <2>1. \A x \in D : f[x] = 0
    BY <1>4
  <2>. QED
    BY <1>1, <2>1, SumZero
<1>. QED
  BY <1>2, <1>3, <1>4

-----------------------------------------------------------------------------
(* Recursion along the numbers up to N.                                    *)

\* f is built up from base, by a step that op has for each number and value.
Builds(f, base, op, N) == f = [n \in 0..N |-> IF n = 0 THEN base ELSE op[<<n, f[n - 1]>>]]

LEMMA BuildsExist ==
    ASSUME NEW N \in Nat, NEW base, NEW op
    PROVE  \E f : Builds(f, base, op, N)
<1>. DEFINE G == {M \in 0..N : \E f : Builds(f, base, op, M)}
<1>1. 0 \in G
  <2>. DEFINE f == [n \in 0..0 |-> base]
  <2>1. Builds(f, base, op, 0)
    BY DEF Builds
  <2>. QED
    BY <2>1
<1>2. ASSUME NEW M \in 0..N, M \in G, M # N PROVE M + 1 \in G
  <2>1. PICK f : Builds(f, base, op, M)
    BY <1>2
  <2>. DEFINE g == [n \in 0..(M + 1) |-> IF n = M + 1 THEN op[<<n, f[M]>>] ELSE f[n]]
  <2>2. ASSUME NEW n \in 0..(M + 1)
        PROVE  g[n] = IF n = 0 THEN base ELSE op[<<n, g[n - 1]>>]
    <3>1. CASE n = M + 1
      <4>1. n - 1 = M /\ M \in 0..(M + 1) /\ M # M + 1 /\ n # 0
        BY <3>1
      <4>2. g[M] = f[M] /\ g[n] = op[<<n, f[M]>>]
        BY <3>1, <4>1
      <4>. HIDE DEF g
      <4>. QED
        BY <4>1, <4>2
    <3>2. CASE n # M + 1
      <4>1. n \in 0..M
        BY <3>2
      <4>2. g[n] = f[n] /\ f[n] = IF n = 0 THEN base ELSE op[<<n, f[n - 1]>>]
        BY <2>1, <3>2, <4>1 DEF Builds
      <4>3. n # 0 => g[n - 1] = f[n - 1]
        BY <4>1
      <4>. HIDE DEF g
      <4>. QED
        BY <4>2, <4>3
    <3>. QED
      BY <3>1, <3>2
  <2>3. g = [n \in 0..(M + 1) |-> IF n = 0 THEN base ELSE op[<<n, g[n - 1]>>]]
    <3>1. g = [n \in 0..(M + 1) |-> g[n]]
      OBVIOUS
    <3>. HIDE DEF g
    <3>. QED
      BY <2>2, <3>1
  <2>4. M + 1 \in 0..N
    BY <1>2
  <2>5. Builds(g, base, op, M + 1)
    <3>. HIDE DEF g
    <3>. QED
      BY <2>3 DEF Builds
  <2>. HIDE DEF g
  <2>. QED
    BY <2>4, <2>5
<1>. HIDE DEF G
<1>3. N \in G
  BY <1>1, <1>2, UpTo
<1>. QED
  BY <1>3 DEF G

BuildsUp(f, base, op, N, B) ==
    f \in [0..N -> B] /\ f[0] = base /\ \A n \in 1..N : f[n] = op[<<n, f[n - 1]>>]

LEMMA BuildsIn ==
    ASSUME NEW N \in Nat, NEW B, NEW base \in B, NEW op \in [(0..N) \X B -> B]
    PROVE  \E f : BuildsUp(f, base, op, N, B)
<1>1. PICK f : Builds(f, base, op, N)
  BY BuildsExist
<1>2. f[0] = base /\ \A n \in 1..N : f[n] = op[<<n, f[n - 1]>>]
  BY <1>1 DEF Builds
<1>. DEFINE G == {n \in 0..N : f[n] \in B}
<1>3. 0 \in G
  BY <1>2
<1>4. ASSUME NEW n \in 0..N, n \in G, n # N PROVE n + 1 \in G
  <2>1. n + 1 \in 1..N /\ n + 1 - 1 = n /\ f[n] \in B
    BY <1>4
  <2>2. f[n + 1] = op[<<n + 1, f[n]>>]
    BY <1>2, <2>1
  <2>. QED
    BY <2>1, <2>2
<1>5. \A n \in 0..N : n \in G
  <2>. HIDE DEF G
  <2>. QED
    BY <1>3, <1>4, UpTo
<1>6. f = [n \in 0..N |-> f[n]]
  BY <1>1 DEF Builds
<1>7. f \in [0..N -> B]
  BY <1>5, <1>6
<1>. QED
  BY <1>2, <1>7 DEF BuildsUp

-----------------------------------------------------------------------------
(* A cylinder and those above it.                                          *)

Holder == Container \cup Tile \cup Player
Where == Holder \cup {None}

States ==
    [parent : [Thing -> Where],
     count : [Stack -> Int],
     itemlist : [Container \cup Tile -> Seq(Thing)],
     inventory : [Player -> [Slot -> Thing \cup {None}]],
     totalWeight : [Container -> Int],
     inventoryWeight : [Player -> Int],
     openContainers : [Player -> SUBSET Container],
     position : [Player -> Tile]]

LEMMA Finite ==
    /\ IsFiniteSet(Container) /\ IsFiniteSet(Stack) /\ IsFiniteSet(Plain) /\ IsFiniteSet(Slot)
    /\ IsFiniteSet(Player)
    /\ Cardinality(Container) \in Nat /\ Cardinality(Stack) \in Nat
<1>1. IsFiniteSet(Container) /\ IsFiniteSet(Stack) /\ IsFiniteSet(Plain)
  <2>1. Container \in SUBSET Thing /\ Stack \in SUBSET Thing /\ Plain \in SUBSET Thing
    BY DEF Thing
  <2>. QED
    BY <2>1, KindsAssumption, FS_Subset
<1>2. IsFiniteSet(Slot)
  <2>1. Slot \in SUBSET (0..10)
    <3>1. Slot \subseteq {3, 5, 6}
      BY CylindersAssumption DEF CONST_SLOT_BACKPACK, CONST_SLOT_RIGHT, CONST_SLOT_LEFT
    <3>. QED
      BY <3>1
  <2>2. 0 \in Int /\ 10 \in Int
    OBVIOUS
  <2>3. IsFiniteSet(0..10)
    BY <2>2, FS_Interval
  <2>. QED
    BY <2>1, <2>3, FS_Subset
<1>. QED
  BY <1>1, <1>2, KindsAssumption, FS_CardinalityType

\* One step up for all of a set.
Up(s, S) == S \cup {s.parent[b] : b \in S \cap Container}

LEMMA ChainIs ==
    ASSUME NEW s, NEW c
    PROVE  \E up : /\ up[0] = {c}
                   /\ \A n \in 1..Cardinality(Container) : up[n] = Up(s, up[n - 1])
                   /\ Chain(s, c) = up[Cardinality(Container)]
<1>. DEFINE K == Cardinality(Container)
            Is(up) == up = [n \in 0..K |-> IF n = 0 THEN {c}
                               ELSE up[n - 1] \cup {s.parent[b] : b \in up[n - 1] \cap Container}]
            u == CHOOSE up : Is(up)
<1>0. K \in Nat
  BY Finite
<1>1. \E up : Is(up)
  <2>. DEFINE All == {c} \cup {s.parent[b] : b \in Container}
              op == [a \in (0..K) \X SUBSET All |-> Up(s, a[2])]
  <2>1. ASSUME NEW S \in SUBSET All PROVE Up(s, S) \in SUBSET All
    BY DEF Up
  <2>2. op \in [(0..K) \X SUBSET All -> SUBSET All]
    <3>. HIDE DEF All, K
    <3>. QED
      BY <2>1
  <2>3. PICK f \in [0..K -> SUBSET All] : f[0] = {c} /\ \A n \in 1..K : f[n] = op[<<n, f[n - 1]>>]
    <3>. DEFINE B == SUBSET All
                base == {c}
    <3>1. base \in B
      OBVIOUS
    <3>0. op \in [(0..K) \X B -> B]
      <4>. HIDE DEF op, All
      <4>. QED
        BY <2>2
    <3>. HIDE DEF op, K, B, base
    <3>2. \E f : BuildsUp(f, base, op, K, B)
      BY <1>0, <3>0, <3>1, BuildsIn
    <3>. QED
      BY <3>2 DEF B, base, BuildsUp
  <2>4. ASSUME NEW n \in 1..K PROVE f[n] = Up(s, f[n - 1])
    <3>1. n \in 0..K /\ n - 1 \in 0..K
      BY <1>0
    <3>2. f[n - 1] \in SUBSET All /\ f[n] = op[<<n, f[n - 1]>>]
      <4>. HIDE DEF K, All, op
      <4>. QED
        BY <2>3, <3>1
    <3>. HIDE DEF K, All
    <3>. QED
      BY <3>1, <3>2
  <2>5. Is(f)
    <3>1. ASSUME NEW n \in 0..K
          PROVE  f[n] = IF n = 0 THEN {c}
                        ELSE f[n - 1] \cup {s.parent[b] : b \in f[n - 1] \cap Container}
      <4>1. n # 0 => n \in 1..K
        BY <1>0
      <4>. HIDE DEF K, All
      <4>. QED
        BY <2>3, <2>4, <4>1 DEF Up
    <3>2. f = [n \in 0..K |-> f[n]]
      <4>. HIDE DEF K, All
      <4>. QED
        BY <2>3
    <3>. HIDE DEF K, All
    <3>. QED
      BY <3>1, <3>2
  <2>. QED
    BY <2>5
<1>2. Is(u)
  <2>. HIDE DEF Is
  <2>. QED
    BY <1>1
<1>3. Chain(s, c) = u[K]
  BY DEF Chain
<1>. HIDE DEF u
<1>4. u[0] = {c} /\ \A n \in 1..K : u[n] = Up(s, u[n - 1])
  BY <1>0, <1>2 DEF Up
<1>. QED
  BY <1>3, <1>4

\* S has with a container also its parent.
Closed(s, S) == \A b \in S \cap Container : s.parent[b] \in S

\* The chain is the least closed set with c in it.
LEMMA ChainLeast ==
    ASSUME NEW s, NEW c, NEW S, c \in S, Closed(s, S)
    PROVE  Chain(s, c) \subseteq S
<1>. DEFINE K == Cardinality(Container)
<1>0. K \in Nat
  BY Finite
<1>1. PICK up : /\ up[0] = {c} /\ \A n \in 1..K : up[n] = Up(s, up[n - 1])
                /\ Chain(s, c) = up[K]
  BY ChainIs
<1>. DEFINE G == {n \in 0..K : up[n] \subseteq S}
<1>. HIDE DEF K
<1>2. 0 \in G
  BY <1>0, <1>1
<1>3. ASSUME NEW n \in 0..K, n \in G, n # K PROVE n + 1 \in G
  <2>1. n + 1 \in 1..K /\ n + 1 - 1 = n
    BY <1>0, <1>3
  <2>2. up[n + 1] = Up(s, up[n]) /\ up[n] \subseteq S
    BY <1>1, <1>3, <2>1
  <2>3. up[n + 1] \subseteq S
    BY <2>2 DEF Up, Closed
  <2>. QED
    BY <2>1, <2>3
<1>4. K \in G
  <2>. HIDE DEF G
  <2>. QED
    BY <1>0, <1>2, <1>3, UpTo
<1>. QED
  BY <1>1, <1>4

LEMMA ChainClosed ==
    ASSUME NEW s, NEW c
    PROVE  c \in Chain(s, c) /\ Closed(s, Chain(s, c))
<1>. DEFINE K == Cardinality(Container)
<1>0. K \in Nat
  BY Finite
<1>1. PICK up : /\ up[0] = {c} /\ \A n \in 1..K : up[n] = Up(s, up[n - 1])
                /\ Chain(s, c) = up[K]
  BY ChainIs
<1>. DEFINE In(n) == up[n] \cap Container
            G == {n \in 0..K : c \in up[n] /\ (Closed(s, up[n]) \/ n < Cardinality(In(n)))}
<1>2. 0 \in G
  <2>1. CASE c \in Container
    <3>1. In(0) = {c}
      BY <1>1, <2>1
    <3>2. Cardinality({c}) = 1
      BY FS_Singleton
    <3>. QED
      BY <1>0, <1>1, <3>1, <3>2
  <2>2. CASE c \notin Container
    BY <1>0, <1>1, <2>2 DEF Closed
  <2>. QED
    BY <2>1, <2>2
<1>3. ASSUME NEW n \in 0..K, n \in G, n # K PROVE n + 1 \in G
  <2>1. n + 1 \in 1..K /\ n + 1 - 1 = n /\ n + 1 \in 0..K /\ n \in Nat
    BY <1>0, <1>3
  <2>2. up[n + 1] = Up(s, up[n])
    BY <1>1, <1>3, <2>1
  <2>3. c \in up[n + 1] /\ up[n] \subseteq up[n + 1]
    BY <1>3, <2>2 DEF Up
  <2>4. CASE Closed(s, up[n])
    <3>1. up[n + 1] = up[n]
      BY <2>2, <2>4 DEF Up, Closed
    <3>. QED
      BY <2>1, <2>3, <2>4, <3>1
  <2>5. CASE ~Closed(s, up[n]) /\ ~Closed(s, up[n + 1])
    <3>1. PICK b \in up[n + 1] \cap Container : s.parent[b] \notin up[n + 1]
      BY <2>5 DEF Closed
    <3>2. b \notin up[n]
      BY <2>2, <3>1 DEF Up
    <3>3. IsFiniteSet(In(n)) /\ IsFiniteSet(In(n + 1)) /\ IsFiniteSet(In(n) \cup {b})
      BY Finite, FS_Intersection, FS_AddElement
    <3>4. Cardinality(In(n) \cup {b}) = Cardinality(In(n)) + 1
      BY <3>2, <3>3, FS_AddElement
    <3>5. In(n) \cup {b} \in SUBSET In(n + 1)
      BY <2>3, <3>1
    <3>6. Cardinality(In(n) \cup {b}) <= Cardinality(In(n + 1))
      <4>. HIDE DEF In
      <4>. QED
        BY <3>3, <3>5, FS_Subset
    <3>7. n < Cardinality(In(n))
      BY <1>3, <2>5
    <3>8. Cardinality(In(n)) \in Nat /\ Cardinality(In(n + 1)) \in Nat
      BY <3>3, FS_CardinalityType
    <3>9. n + 1 < Cardinality(In(n + 1))
      <4>. HIDE DEF In
      <4>. QED
        BY <2>1, <3>4, <3>6, <3>7, <3>8
    <3>. QED
      BY <2>1, <2>3, <3>9
  <2>. QED
    BY <2>1, <2>3, <2>4, <2>5
<1>4. K \in G
  <2>. HIDE DEF G, K
  <2>. QED
    BY <1>0, <1>2, <1>3, UpTo
<1>5. ~(K < Cardinality(In(K)))
  <2>1. In(K) \in SUBSET Container
    OBVIOUS
  <2>2. Cardinality(In(K)) <= K /\ Cardinality(In(K)) \in Nat
    <3>. HIDE DEF In
    <3>. QED
      BY <2>1, Finite, FS_Subset, FS_CardinalityType
  <2>. QED
    BY <1>0, <2>2
<1>. QED
  BY <1>1, <1>4, <1>5

LEMMA ChainTop ==
    ASSUME NEW s, NEW c, c \notin Container
    PROVE  Chain(s, c) = {c}
<1>1. Closed(s, {c})
  BY DEF Closed
<1>2. Chain(s, c) \subseteq {c}
  BY <1>1, ChainLeast
<1>. QED
  BY <1>2, ChainClosed

LEMMA ChainTrans ==
    ASSUME NEW s, NEW c, NEW b \in Chain(s, c)
    PROVE  Chain(s, b) \subseteq Chain(s, c)
BY ChainClosed, ChainLeast

LEMMA ChainUp ==
    ASSUME NEW s, NEW c \in Container
    PROVE  Chain(s, c) = {c} \cup Chain(s, s.parent[c])
<1>. DEFINE S == {c} \cup Chain(s, s.parent[c])
<1>1. Closed(s, S)
  BY ChainClosed DEF Closed
<1>2. Chain(s, c) \subseteq S
  <2>. HIDE DEF S
  <2>1. c \in S
    BY DEF S
  <2>. QED
    BY <1>1, <2>1, ChainLeast
<1>3. c \in Chain(s, c) /\ s.parent[c] \in Chain(s, c)
  BY ChainClosed DEF Closed
<1>4. Chain(s, s.parent[c]) \subseteq Chain(s, c)
  BY <1>3, ChainTrans
<1>. QED
  BY <1>2, <1>3, <1>4

\* The chain depends on the parents of those that are in it.
LEMMA ChainSame ==
    ASSUME NEW s, NEW t, NEW c,
           \A b \in Chain(s, c) \cap Container : t.parent[b] = s.parent[b]
    PROVE  Chain(t, c) = Chain(s, c)
<1>1. Chain(t, c) \subseteq Chain(s, c)
  <2>1. Closed(t, Chain(s, c))
    BY ChainClosed DEF Closed
  <2>. QED
    BY <2>1, ChainClosed, ChainLeast
<1>2. Chain(s, c) \subseteq Chain(t, c)
  <2>1. Closed(s, Chain(t, c))
    BY <1>1, ChainClosed DEF Closed
  <2>. QED
    BY <2>1, ChainClosed, ChainLeast
<1>. QED
  BY <1>1, <1>2

LEMMA ChainParents ==
    ASSUME NEW s, NEW t, t.parent = s.parent
    PROVE  \A c : Chain(t, c) = Chain(s, c)
<1>. TAKE c
<1>. QED
  BY ChainSame

LEMMA ChainIn ==
    ASSUME NEW s \in States, NEW c
    PROVE  Chain(s, c) \subseteq {c} \cup Where
<1>1. Closed(s, {c} \cup Where)
  BY DEF Closed, States, Thing
<1>. QED
  BY <1>1, ChainLeast

\* Of two in a chain one is above the other.
LEMMA Comparable ==
    ASSUME NEW s, NEW c, NEW y \in Chain(s, c), NEW z \in Chain(s, c)
    PROVE  y \in Chain(s, z) \/ z \in Chain(s, y)
<1>. DEFINE S == {x \in Chain(s, c) : y \in Chain(s, x) \/ x \in Chain(s, y)}
<1>1. c \in S
  BY ChainClosed
<1>2. ASSUME NEW x \in S \cap Container PROVE s.parent[x] \in S
  <2>1. s.parent[x] \in Chain(s, c)
    BY ChainClosed DEF Closed
  <2>2. CASE x \in Chain(s, y)
    BY <2>1, <2>2, ChainClosed DEF Closed
  <2>3. CASE y \in Chain(s, x) /\ y # x
    BY <2>1, <2>3, ChainUp
  <2>. QED
    BY <2>2, <2>3, ChainClosed
<1>3. Closed(s, S)
  BY <1>2 DEF Closed
<1>. HIDE DEF S
<1>4. Chain(s, c) \subseteq S
  BY <1>1, <1>3, ChainLeast
<1>. QED
  BY <1>4 DEF S

-----------------------------------------------------------------------------
(* No container is in itself: of those in any set one is not in another.   *)

Rooted(s) == \A S \in SUBSET Container : S # {} => \E c \in S : s.parent[c] \notin S

LEMMA NoCycle ==
    ASSUME NEW s, Rooted(s), NEW b \in Container
    PROVE  b \notin Chain(s, s.parent[b])
<1>. SUFFICES ASSUME b \in Chain(s, s.parent[b]) PROVE FALSE
  OBVIOUS
<1>. DEFINE p == s.parent[b]
            S == {z \in Chain(s, p) \cap Container : b \in Chain(s, z)}
<1>1. b \in S
  BY ChainClosed
<1>2. ASSUME NEW z \in S PROVE s.parent[z] \in S
  <2>1. s.parent[z] \in Chain(s, p)
    BY ChainClosed DEF Closed
  <2>2. b \in Chain(s, s.parent[z])
    BY ChainUp
  <2>3. s.parent[z] \in Container
    BY <2>2, ChainTop
  <2>. QED
    BY <2>1, <2>2, <2>3
<1>. HIDE DEF S
<1>. QED
  BY <1>1, <1>2 DEF Rooted, S

\* Who is at the top.
Top(s, c) == CHOOSE t \in Chain(s, c) : t \notin Container

LEMMA TopIs ==
    ASSUME NEW s, Rooted(s), NEW c
    PROVE  /\ Top(s, c) \in Chain(s, c) /\ Top(s, c) \notin Container
           /\ \A t \in Chain(s, c) \ Container : t = Top(s, c)
<1>1. \E t \in Chain(s, c) : t \notin Container
  <2>1. CASE c \notin Container
    BY <2>1, ChainClosed
  <2>2. CASE c \in Container
    <3>. DEFINE S == Chain(s, c) \cap Container
    <3>1. S \in SUBSET Container /\ S # {}
      BY <2>2, ChainClosed
    <3>2. PICK b \in S : s.parent[b] \notin S
      BY <3>1 DEF Rooted
    <3>. QED
      BY <3>2, ChainClosed DEF Closed
  <2>. QED
    BY <2>1, <2>2
<1>2. Top(s, c) \in Chain(s, c) /\ Top(s, c) \notin Container
  BY <1>1 DEF Top
<1>3. ASSUME NEW t \in Chain(s, c) \ Container PROVE t = Top(s, c)
  <2>1. t \in Chain(s, Top(s, c)) \/ Top(s, c) \in Chain(s, t)
    BY <1>2, Comparable
  <2>. QED
    BY <1>2, <2>1, ChainTop
<1>. QED
  BY <1>2, <1>3

LEMMA TopBelow ==
    ASSUME NEW s, Rooted(s), NEW c, NEW b \in Chain(s, c)
    PROVE  Top(s, b) = Top(s, c)
BY TopIs, ChainTrans

LEMMA TopParent ==
    ASSUME NEW s, Rooted(s), NEW c \in Container
    PROVE  Top(s, c) = Top(s, s.parent[c])
<1>1. s.parent[c] \in Chain(s, c)
  BY ChainClosed DEF Closed
<1>. QED
  BY <1>1, TopBelow

LEMMA TopTop ==
    ASSUME NEW s, Rooted(s), NEW c, c \notin Container
    PROVE  Top(s, c) = c
BY ChainTop, TopIs

LEMMA HoldingPlayerIs ==
    ASSUME NEW s, Rooted(s), NEW c
    PROVE  HoldingPlayer(s, c) = IF Top(s, c) \in Player THEN Top(s, c) ELSE None
<1>0. Container \cap Player = {}
  BY KindsAssumption
<1>1. Chain(s, c) \cap Player = IF Top(s, c) \in Player THEN {Top(s, c)} ELSE {}
  BY <1>0, TopIs
<1>. QED
  BY <1>1 DEF HoldingPlayer

LEMMA TileOfIs ==
    ASSUME NEW s, Rooted(s), NEW c
    PROVE  TileOf(s, c) = IF Top(s, c) \in Player THEN s.position[Top(s, c)]
                          ELSE IF Top(s, c) \in Tile THEN Top(s, c) ELSE None
<1>0. (Container \cup Tile) \cap Player = {} /\ Container \cap Tile = {} /\ None \notin Player
  BY KindsAssumption
<1>1. Chain(s, c) \cap Tile = IF Top(s, c) \in Tile THEN {Top(s, c)} ELSE {}
  BY <1>0, TopIs
<1>2. HoldingPlayer(s, c) = IF Top(s, c) \in Player THEN Top(s, c) ELSE None
  BY HoldingPlayerIs
<1>. QED
  BY <1>0, <1>1, <1>2 DEF TileOf

\* Of those in a chain exactly one is in each that is not the first.
LEMMA OneBelow ==
    ASSUME NEW s, Rooted(s), NEW c, NEW b \in Chain(s, c), b # c
    PROVE  \E y \in Chain(s, c) \cap Container :
              /\ s.parent[y] = b
              /\ \A z \in Chain(s, c) \cap Container : s.parent[z] = b => z = y
<1>1. \E y \in Chain(s, c) \cap Container : s.parent[y] = b
  <2>. SUFFICES ASSUME \A y \in Chain(s, c) \cap Container : s.parent[y] # b PROVE FALSE
    OBVIOUS
  <2>. DEFINE S == Chain(s, c) \ {b}
  <2>1. c \in S /\ Closed(s, S)
    BY ChainClosed DEF Closed
  <2>2. Chain(s, c) \subseteq S
    <3>. HIDE DEF S
    <3>. QED
      BY <2>1, ChainLeast
  <2>. QED
    BY <2>2
<1>2. ASSUME NEW y \in Chain(s, c) \cap Container, NEW z \in Chain(s, c) \cap Container,
             s.parent[y] = b, s.parent[z] = b, y # z, y \in Chain(s, z)
      PROVE  FALSE
  <2>1. y \in Chain(s, b)
    BY <1>2, ChainUp
  <2>. QED
    BY <1>2, <2>1, NoCycle
<1>. QED
  BY <1>1, <1>2, Comparable

-----------------------------------------------------------------------------
(* The two sides of the tree.                                              *)

Kids(s, c) == {x \in Thing : s.parent[x] = c}

\* The list has each of A once.
Lists(list, A) ==
    /\ list \in Seq(Thing)
    /\ \A i, j \in 1..Len(list) : list[i] = list[j] => i = j
    /\ \A y : y \in A <=> \E i \in 1..Len(list) : list[i] = y

\* What is worn is A, each in one slot.
Wears(worn, A) ==
    /\ \A i, j \in Slot : worn[i] = worn[j] => i = j \/ worn[i] = None
    /\ \A y : y \in A <=> y # None /\ \E i \in Slot : worn[i] = y

Agrees(s) ==
    /\ \A c \in Container \cup Tile : Lists(s.itemlist[c], Kids(s, c))
    /\ \A p \in Player : Wears(s.inventory[p], Kids(s, p))

Tree(s) == s \in States /\ Agrees(s) /\ Rooted(s)

LEMMA RemovedLists ==
    ASSUME NEW s, NEW A, Lists(s, A), NEW x \in A
    PROVE  /\ Lists(RemoveFirst(s, x), A \ {x})
           /\ Len(RemoveFirst(s, x)) = Len(s) - 1
<1>. DEFINE n == Len(s)
<1>1. /\ s \in Seq(Thing)
      /\ n \in Nat /\ DOMAIN s = 1..n /\ \A i \in 1..n : s[i] \in Thing
      /\ \A i, j \in 1..n : s[i] = s[j] => i = j
      /\ \A y : y \in A <=> \E i \in 1..n : s[i] = y
  BY LenProperties DEF Lists
<1>. HIDE DEF n
<1>3. \E i \in 1..n : s[i] = x
  BY <1>1
<1>. QED
  <2>1. PICK i \in 1..n : s[i] = x
    BY <1>3
  <2>2. {j \in 1..n : s[j] = x} = {i}
    BY <1>1, <2>1
  <2>3. Min({i}) = i
    BY DEF Min
  <2>4. RemoveFirst(s, x) = SubSeq(s, 1, i - 1) \o SubSeq(s, i + 1, n)
    <3>1. SelectInSeq(s, LAMBDA v : v = x) = Min({j \in 1..n : s[j] = x})
      BY <2>2 DEF SelectInSeq, n
    <3>2. SelectInSeq(s, LAMBDA v : v = x) = i
      BY <2>2, <2>3, <3>1
    <3>. QED
      BY <1>3, <3>2 DEF RemoveFirst, RemoveAt, n
  <2>. DEFINE L == SubSeq(s, 1, i - 1)
              R == SubSeq(s, i + 1, n)
              t == RemoveFirst(s, x)
  <2>5. /\ L \in Seq(Thing) /\ Len(L) = i - 1
        /\ \A k \in 1..(i - 1) : L[k] = s[k]
    <3>1. /\ 1 \in Int /\ i - 1 \in Int /\ \A k \in 1..(i - 1) : s[k] \in Thing
          /\ i - 1 - 1 + 1 = i - 1
      BY <1>1
    <3>2. /\ L \in Seq(Thing)
          /\ Len(L) = IF 1 <= i - 1 THEN i - 1 - 1 + 1 ELSE 0
          /\ \A k \in 1..(i - 1 - 1 + 1) : L[k] = s[1 + k - 1]
      BY <3>1, SubSeqProperties
    <3>. HIDE DEF L
    <3>. QED
      BY <1>1, <3>1, <3>2
  <2>6. /\ R \in Seq(Thing) /\ Len(R) = n - i
        /\ \A k \in 1..(n - i) : R[k] = s[k + i]
    <3>1. /\ i + 1 \in Int /\ n \in Int /\ \A k \in (i + 1)..n : s[k] \in Thing
          /\ n - (i + 1) + 1 = n - i
      BY <1>1
    <3>2. /\ R \in Seq(Thing)
          /\ Len(R) = IF i + 1 <= n THEN n - (i + 1) + 1 ELSE 0
          /\ \A k \in 1..(n - (i + 1) + 1) : R[k] = s[i + 1 + k - 1]
      BY <3>1, SubSeqProperties
    <3>. HIDE DEF R
    <3>. QED
      BY <1>1, <3>1, <3>2
  <2>7. /\ t \in Seq(Thing) /\ Len(t) = n - 1
        /\ \A k \in 1..(i - 1) : t[k] = s[k]
        /\ \A k \in i..(n - 1) : t[k] = s[k + 1]
    <3>1. t = L \o R
      BY <2>4
    <3>. HIDE DEF L, R, t
    <3>2. /\ t \in Seq(Thing) /\ Len(t) = Len(L) + Len(R)
          /\ \A k \in 1..(Len(L) + Len(R)) : t[k] = IF k <= Len(L) THEN L[k] ELSE R[k - Len(L)]
      BY <2>5, <2>6, <3>1, ConcatProperties
    <3>3. Len(L) = i - 1 /\ Len(R) = n - i /\ Len(L) + Len(R) = n - 1
      BY <1>1, <2>5, <2>6
    <3>4. ASSUME NEW k \in i..(n - 1) PROVE t[k] = s[k + 1]
      <4>1. k \in 1..(n - 1) /\ ~(k <= i - 1) /\ k - (i - 1) \in 1..(n - i)
            /\ (k - (i - 1)) + i = k + 1
        BY <1>1
      <4>. QED
        BY <2>6, <3>2, <3>3, <4>1
    <3>5. ASSUME NEW k \in 1..(i - 1) PROVE t[k] = s[k]
      <4>1. k \in 1..(n - 1) /\ k <= i - 1
        BY <1>1
      <4>. QED
        BY <2>5, <3>2, <3>3, <4>1
    <3>. QED
      BY <3>2, <3>3, <3>4, <3>5
  <2>. HIDE DEF t
  <2>8. \A k, l \in 1..(n - 1) : t[k] = t[l] => k = l
    BY <1>1, <2>7
  <2>9. ASSUME NEW y PROVE (\E k \in 1..(n - 1) : t[k] = y) <=> y \in A /\ y # x
    <3>1. ASSUME NEW k \in 1..(n - 1), t[k] = y PROVE y \in A /\ y # x
      <4>1. \E l \in 1..n : l # i /\ s[l] = y
        <5>1. CASE k \in 1..(i - 1)
          BY <1>1, <2>7, <3>1, <5>1
        <5>2. CASE k \in i..(n - 1)
          <6>1. k + 1 \in 1..n /\ k + 1 # i
            BY <1>1, <5>2
          <6>. QED
            BY <2>7, <3>1, <5>2, <6>1
        <5>. QED
          BY <1>1, <5>1, <5>2
      <4>. QED
        BY <1>1, <2>1, <4>1
    <3>2. ASSUME NEW k \in 1..n, s[k] = y, y # x PROVE \E l \in 1..(n - 1) : t[l] = y
      <4>1. k # i
        BY <2>1, <3>2
      <4>2. CASE k < i
        BY <1>1, <2>7, <3>2, <4>2
      <4>3. CASE k > i
        <5>1. k - 1 \in i..(n - 1) /\ k - 1 \in 1..(n - 1) /\ (k - 1) + 1 = k
          BY <1>1, <4>3
        <5>. QED
          BY <2>7, <3>2, <5>1
      <4>. QED
        BY <1>1, <4>1, <4>2, <4>3
    <3>. QED
      BY <1>1, <2>7, <3>1, <3>2
  <2>10. Lists(t, A \ {x}) /\ Len(t) = n - 1
    BY <2>7, <2>8, <2>9 DEF Lists
  <2>. QED
    BY <2>10 DEF t, n

LEMMA AddedLists ==
    ASSUME NEW s, NEW A, Lists(s, A), NEW x \in Thing, x \notin A
    PROVE  /\ Lists(<<x>> \o s, A \cup {x})
           /\ Len(<<x>> \o s) = Len(s) + 1
<1>. DEFINE n == Len(s)
            t == <<x>> \o s
<1>1. /\ s \in Seq(Thing) /\ n \in Nat
      /\ \A i, j \in 1..n : s[i] = s[j] => i = j
      /\ \A y : y \in A <=> \E i \in 1..n : s[i] = y
  BY DEF Lists
<1>2. <<x>> \in Seq(Thing) /\ Len(<<x>>) = 1 /\ <<x>>[1] = x
  OBVIOUS
<1>3. /\ t \in Seq(Thing) /\ Len(t) = n + 1
      /\ t[1] = x /\ \A i \in 2..(n + 1) : t[i] = s[i - 1]
  BY <1>1, <1>2
<1>. HIDE DEF t, n
<1>4. ASSUME NEW i \in 1..(n + 1) PROVE t[i] = IF i = 1 THEN x ELSE s[i - 1]
  BY <1>1, <1>3
<1>5. \A i \in 1..(n + 1) : i # 1 => i - 1 \in 1..n
  BY <1>1
<1>6. \A i, j \in 1..(n + 1) : t[i] = t[j] => i = j
  <2>. SUFFICES ASSUME NEW i \in 1..(n + 1), NEW j \in 1..(n + 1), t[i] = t[j] PROVE i = j
    OBVIOUS
  <2>1. CASE i = 1 /\ j = 1
    BY <2>1
  <2>2. CASE i = 1 /\ j # 1
    <3>1. s[j - 1] \in A
      BY <1>1, <1>5, <2>2
    <3>. QED
      BY <1>4, <2>2, <3>1
  <2>3. CASE i # 1 /\ j = 1
    <3>1. s[i - 1] \in A
      BY <1>1, <1>5, <2>3
    <3>. QED
      BY <1>4, <2>3, <3>1
  <2>4. CASE i # 1 /\ j # 1
    <3>1. s[i - 1] = s[j - 1]
      BY <1>4, <2>4
    <3>2. i - 1 = j - 1
      BY <1>1, <1>5, <2>4, <3>1
    <3>. QED
      BY <3>2
  <2>. QED
    BY <2>1, <2>2, <2>3, <2>4
<1>7. ASSUME NEW y PROVE y \in A \cup {x} <=> \E i \in 1..(n + 1) : t[i] = y
  <2>1. ASSUME NEW i \in 1..(n + 1), t[i] = y PROVE y \in A \cup {x}
    BY <1>1, <1>4, <1>5, <2>1
  <2>2. ASSUME y \in A PROVE \E i \in 1..(n + 1) : t[i] = y
    <3>1. PICK k \in 1..n : s[k] = y
      BY <1>1, <2>2
    <3>2. k + 1 \in 1..(n + 1) /\ k + 1 # 1 /\ k + 1 - 1 = k
      BY <1>1
    <3>. QED
      BY <1>4, <3>1, <3>2
  <2>3. 1 \in 1..(n + 1) /\ t[1] = x
    BY <1>1, <1>3
  <2>. QED
    BY <2>1, <2>2, <2>3
<1>8. Lists(t, A \cup {x}) /\ Len(t) = n + 1
  BY <1>3, <1>6, <1>7 DEF Lists
<1>. QED
  BY <1>8 DEF t, n

-----------------------------------------------------------------------------
(* What the operations do to the tree.                                     *)

\* Everything is where it was.
SamePlaces(s, t) ==
    /\ t.parent = s.parent /\ t.itemlist = s.itemlist
    /\ t.inventory = s.inventory /\ t.position = s.position

\* Windows and the weights that players keep are as they were.
SameKept(s, t) ==
    t.inventoryWeight = s.inventoryWeight /\ t.openContainers = s.openContainers

LEMMA Disjoint ==
    /\ Container \subseteq Thing /\ Stack \subseteq Thing /\ Plain \subseteq Thing
    /\ \A c \in Container : c \notin Plain /\ c \notin Stack /\ c \notin Tile /\ c \notin Player
    /\ \A x \in Plain : x \notin Stack /\ x \notin Tile /\ x \notin Player
    /\ \A x \in Stack : x \notin Tile /\ x \notin Player
    /\ \A t \in Tile : t \notin Player
    /\ None \notin Container /\ None \notin Plain /\ None \notin Stack /\ None \notin Thing
    /\ None \notin Tile /\ None \notin Player
BY KindsAssumption DEF Thing

LEMMA StateTypes ==
    ASSUME NEW s \in States
    PROVE  /\ \A x \in Thing : s.parent[x] \in Where
           /\ \A x \in Stack : s.count[x] \in Int
           /\ \A c \in Container : s.totalWeight[c] \in Int
           /\ \A p \in Player : /\ s.inventoryWeight[p] \in Int /\ s.position[p] \in Tile
                                /\ s.openContainers[p] \in SUBSET Container
                                /\ s.inventory[p] \in [Slot -> Thing \cup {None}]
           /\ \A c \in Container \cup Tile : s.itemlist[c] \in Seq(Thing)
BY DEF States

LEMMA WeightType ==
    ASSUME NEW s \in States, NEW x \in Thing
    PROVE  GetWeight(s, x) \in Int
<1>1. Weight[x] \in Int
  BY CylindersAssumption
<1>2. x \in Stack => s.count[x] \in Int
  BY DEF States
<1>3. x \in Container => s.totalWeight[x] \in Int
  BY DEF States
<1>. QED
  BY <1>1, <1>2, <1>3 DEF GetWeight

LEMMA SameTree ==
    ASSUME NEW s, Tree(s), NEW t \in States, SamePlaces(s, t)
    PROVE  Tree(t)
BY DEF Tree, Agrees, Kids, Rooted, SamePlaces

LEMMA SameChains ==
    ASSUME NEW s, NEW t, t.parent = s.parent
    PROVE  \A c : Chain(t, c) = Chain(s, c) /\ Top(t, c) = Top(s, c)
BY ChainParents DEF Top

LEMMA UpdateWeightTree ==
    ASSUME NEW s \in States, NEW c, NEW diff \in Int,
           NEW t, t = UpdateItemWeight(s, c, diff)
    PROVE  /\ t \in States /\ SamePlaces(s, t) /\ SameKept(s, t) /\ t.count = s.count
           /\ \A b \in Container :
                 t.totalWeight[b] = IF c \in Container /\ b \in Chain(s, c)
                                    THEN s.totalWeight[b] + diff ELSE s.totalWeight[b]
<1>. DEFINE w == [b \in Container |-> IF b \in Chain(s, c) THEN s.totalWeight[b] + diff
                                      ELSE s.totalWeight[b]]
<1>1. t = IF c \in Container THEN [s EXCEPT !.totalWeight = w] ELSE s
  BY DEF UpdateItemWeight
<1>2. w \in [Container -> Int]
  BY StateTypes
<1>3. \A b \in Container : w[b] = IF b \in Chain(s, c) THEN s.totalWeight[b] + diff ELSE s.totalWeight[b]
  OBVIOUS
<1>. HIDE DEF w
<1>. QED
  BY <1>1, <1>2, <1>3 DEF States, SamePlaces, SameKept

\* x, which was nowhere, was put in c.
PutIn(s, t, x, c) ==
    /\ t.parent = [s.parent EXCEPT ![x] = c]
    /\ t.count = s.count /\ t.position = s.position
    /\ SameKept(s, t)
    /\ \A b \in Container \cup Tile :
          t.itemlist[b] = IF b = c THEN <<x>> \o s.itemlist[b] ELSE s.itemlist[b]

LEMMA RootedPut ==
    ASSUME NEW s \in States, Rooted(s), NEW x \in Thing, NEW c, x \notin Chain(s, c),
           NEW t, t.parent = [s.parent EXCEPT ![x] = c]
    PROVE  Rooted(t)
<1>1. \A b \in Thing : t.parent[b] = IF b = x THEN c ELSE s.parent[b]
  BY DEF States
<1>. SUFFICES ASSUME NEW S \in SUBSET Container, S # {}, \A b \in S : t.parent[b] \in S
              PROVE  FALSE
  BY DEF Rooted
<1>2. CASE x \notin S \/ c \notin S
  <2>1. x \notin S
    BY <1>1, <1>2, Disjoint
  <2>2. \A b \in S : s.parent[b] \in S
    BY <1>1, <2>1, Disjoint
  <2>. QED
    BY <2>2 DEF Rooted
<1>3. CASE c \in S
  <2>. DEFINE U == S \cap Chain(s, c)
  <2>1. c \in U
    BY <1>3, ChainClosed
  <2>2. ASSUME NEW b \in U PROVE s.parent[b] \in U
    <3>1. b # x /\ b \in Container /\ b \in Thing
      BY Disjoint
    <3>2. s.parent[b] \in S
      BY <1>1, <3>1
    <3>. QED
      BY <3>1, <3>2, ChainClosed DEF Closed
  <2>. QED
    BY <2>1, <2>2 DEF Rooted
<1>. QED
  BY <1>2, <1>3

LEMMA RootedTaken ==
    ASSUME NEW s \in States, Rooted(s), NEW x \in Thing,
           NEW t, t.parent = [s.parent EXCEPT ![x] = None]
    PROVE  Rooted(t)
<1>1. \A b \in Thing : t.parent[b] = IF b = x THEN None ELSE s.parent[b]
  BY DEF States
<1>. SUFFICES ASSUME NEW S \in SUBSET Container, S # {}, \A b \in S : t.parent[b] \in S
              PROVE  FALSE
  BY DEF Rooted
<1>2. \A b \in S : s.parent[b] \in S
  BY <1>1, Disjoint
<1>. QED
  BY <1>2 DEF Rooted

Added(s, t, x, c, i) ==
    /\ Tree(t) /\ PutIn(s, t, x, c)
    /\ \A p \in Player, j \in Slot :
          t.inventory[p][j] = IF p = c /\ j = i THEN x ELSE s.inventory[p][j]

\* addThing, where it does something, of a thing that is nowhere.
LEMMA AddTree ==
    ASSUME NEW s, Tree(s), NEW c \in Holder, NEW i \in Int,
           NEW x \in Thing, s.parent[x] = None, x \notin Chain(s, c),
           c \in Player => i \in Slot /\ s.inventory[c][i] = None,
           c \in Container => i < Capacity
    PROVE  Added(s, AddThing(s, c, i, x), x, c, i)
<1>. DEFINE t == AddThing(s, c, i, x)
<1>00. t = AddThing(s, c, i, x)
  OBVIOUS
<1>. SUFFICES /\ Tree(t) /\ PutIn(s, t, x, c)
              /\ \A p \in Player, j \in Slot :
                    t.inventory[p][j] = IF p = c /\ j = i THEN x ELSE s.inventory[p][j]
  BY DEF Added
<1>. HIDE DEF t
<1>0. s \in States /\ Rooted(s) /\ Agrees(s) /\ x # None
  BY Disjoint DEF Tree
<1>1. CASE c \in Player
  <2>. DEFINE r == [s EXCEPT !.parent[x] = c]
  <2>1. i \in Slot /\ s.inventory[c][i] = None /\ t = [r EXCEPT !.inventory[c][i] = x]
    BY <1>1, <1>00 DEF AddThing
  <2>2. /\ r \in States /\ r.parent = [s.parent EXCEPT ![x] = c]
        /\ r.count = s.count /\ r.itemlist = s.itemlist /\ r.inventory = s.inventory
        /\ r.position = s.position /\ SameKept(s, r)
    BY <1>0, <1>1 DEF States, Where, Holder, SameKept
  <2>. HIDE DEF r
  <2>3. /\ t \in States /\ t.parent = r.parent
        /\ t.count = s.count /\ t.itemlist = s.itemlist
        /\ t.position = s.position /\ SameKept(s, t)
        /\ \A p \in Player, j \in Slot :
              t.inventory[p][j] = IF p = c /\ j = i THEN x ELSE s.inventory[p][j]
    <3>. DEFINE w == [r.inventory[c] EXCEPT ![i] = x]
                v == [r.inventory EXCEPT ![c] = w]
    <3>1. /\ w \in [Slot -> Thing \cup {None}]
          /\ \A j \in Slot : w[j] = IF j = i THEN x ELSE s.inventory[c][j]
      BY <1>0, <1>1, <2>1, <2>2 DEF States
    <3>2. t = [r EXCEPT !.inventory = v]
      BY <2>1
    <3>. HIDE DEF w
    <3>3. /\ v \in [Player -> [Slot -> Thing \cup {None}]]
          /\ \A p \in Player : v[p] = IF p = c THEN w ELSE s.inventory[p]
      BY <1>0, <1>1, <2>2, <3>1 DEF States
    <3>. HIDE DEF v
    <3>4. /\ t \in States /\ t.parent = r.parent
          /\ t.count = s.count /\ t.itemlist = s.itemlist
          /\ t.position = s.position /\ SameKept(s, t) /\ t.inventory = v
      BY <2>2, <3>2, <3>3 DEF States, SameKept
    <3>. QED
      BY <3>1, <3>3, <3>4
  <2>4. \A b \in Thing : t.parent[b] = IF b = x THEN c ELSE s.parent[b]
    BY <1>0, <2>2, <2>3 DEF States
  <2>5. \A b : b # c => Kids(t, b) = Kids(s, b) \ {x}
    BY <2>4 DEF Kids
  <2>6. Kids(t, c) = Kids(s, c) \cup {x} /\ x \notin Kids(s, c)
    BY <2>4, <1>0, <1>1, Disjoint DEF Kids
  <2>7. \A b \in Holder : x \notin Kids(s, b)
    BY Disjoint DEF Kids, Holder
  <2>8. ASSUME NEW b \in Container \cup Tile PROVE Lists(t.itemlist[b], Kids(t, b))
    <3>1. b # c /\ b \in Holder
      BY <1>1, Disjoint DEF Holder
    <3>2. Kids(t, b) = Kids(s, b) /\ t.itemlist[b] = s.itemlist[b]
      BY <2>3, <2>5, <2>7, <3>1
    <3>. QED
      BY <1>0, <3>2 DEF Agrees
  <2>9. ASSUME NEW p \in Player PROVE Wears(t.inventory[p], Kids(t, p))
    <3>1. Wears(s.inventory[p], Kids(s, p)) /\ x \notin Kids(s, p)
      BY <1>0, <2>7 DEF Agrees, Holder
    <3>2. CASE p # c
      BY <2>3, <2>5, <3>1, <3>2 DEF Wears
    <3>3. CASE p = c
      <4>1. \A j \in Slot : t.inventory[p][j] = IF j = i THEN x ELSE s.inventory[p][j]
        BY <2>3, <3>3
      <4>2. Kids(t, p) = Kids(s, p) \cup {x}
        BY <2>6, <3>3
      <4>. QED
        BY <1>0, <2>1, <3>1, <3>3, <4>1, <4>2 DEF Wears
    <3>. QED
      BY <3>2, <3>3
  <2>10. Rooted(t)
    BY <1>0, <2>2, <2>3, RootedPut
  <2>11. \A b \in Container \cup Tile : b # c
    BY <1>1, Disjoint
  <2>. QED
    BY <2>2, <2>3, <2>8, <2>9, <2>10, <2>11 DEF Tree, Agrees, PutIn
<1>2. CASE c \in Container \cup Tile
  <2>. DEFINE q == [s EXCEPT !.parent[x] = c]
              r == [q EXCEPT !.itemlist[c] = <<x>> \o @]
              l == <<x>> \o s.itemlist[c]
  <2>1. t = UpdateItemWeight(r, c, GetWeight(s, x))
    <3>1. c \notin Player /\ ~(c \in Container /\ i >= Capacity)
      BY <1>2, Disjoint, CylindersAssumption
    <3>. QED
      BY <3>1, <1>00 DEF AddThing
  <2>2. Lists(s.itemlist[c], Kids(s, c)) /\ x \notin Kids(s, c)
    BY <1>0, <1>2, Disjoint DEF Agrees, Kids
  <2>3. Lists(l, Kids(s, c) \cup {x}) /\ l \in Seq(Thing)
    <3>1. Lists(l, Kids(s, c) \cup {x})
      BY <2>2, AddedLists
    <3>. QED
      BY <3>1 DEF Lists
  <2>4. /\ q \in States /\ q.parent = [s.parent EXCEPT ![x] = c]
        /\ q.count = s.count /\ q.itemlist = s.itemlist /\ q.inventory = s.inventory
        /\ q.position = s.position /\ SameKept(s, q)
    BY <1>0 DEF States, Where, SameKept
  <2>5. r = [q EXCEPT !.itemlist[c] = l]
    BY <2>4
  <2>. HIDE DEF q, r, l
  <2>6. /\ r \in States /\ r.parent = q.parent
        /\ r.count = s.count /\ r.inventory = s.inventory
        /\ r.position = s.position /\ SameKept(s, r)
        /\ \A b \in Container \cup Tile : r.itemlist[b] = IF b = c THEN l ELSE s.itemlist[b]
    BY <1>2, <2>3, <2>4, <2>5 DEF States, SameKept
  <2>7. t \in States /\ SamePlaces(r, t) /\ SameKept(r, t) /\ t.count = r.count
    BY <1>0, <2>1, <2>6, WeightType, UpdateWeightTree
  <2>8. /\ t.parent = [s.parent EXCEPT ![x] = c] /\ t.inventory = s.inventory
        /\ t.position = s.position /\ SameKept(s, t)
        /\ \A b \in Container \cup Tile : t.itemlist[b] = IF b = c THEN l ELSE s.itemlist[b]
    BY <2>4, <2>6, <2>7 DEF SamePlaces, SameKept
  <2>9. \A b \in Thing : t.parent[b] = IF b = x THEN c ELSE s.parent[b]
    BY <1>0, <2>8 DEF States
  <2>10. \A b \in Holder : Kids(t, b) = IF b = c THEN Kids(s, b) \cup {x} ELSE Kids(s, b)
    BY <2>9, Disjoint DEF Kids, Holder
  <2>11. ASSUME NEW b \in Container \cup Tile PROVE Lists(t.itemlist[b], Kids(t, b))
    BY <1>0, <2>3, <2>8, <2>10 DEF Agrees, Holder
  <2>12. ASSUME NEW p \in Player PROVE Wears(t.inventory[p], Kids(t, p))
    <3>1. p # c /\ p \in Holder
      BY <1>2, Disjoint DEF Holder
    <3>2. Kids(t, p) = Kids(s, p)
      BY <2>10, <3>1
    <3>. QED
      BY <1>0, <2>8, <3>2 DEF Agrees
  <2>13. Rooted(t)
    BY <1>0, <2>8, RootedPut
  <2>14. Tree(t)
    BY <2>7, <2>11, <2>12, <2>13 DEF Tree, Agrees
  <2>15. PutIn(s, t, x, c)
    BY <2>6, <2>7, <2>8 DEF PutIn, l
  <2>16. \A p \in Player : p # c
    BY <1>2, Disjoint
  <2>. QED
    BY <2>8, <2>14, <2>15, <2>16
<1>. QED
  BY <1>1, <1>2 DEF Holder

\* The stack y, in c or not, has n pieces.
Updated(s, t, c, y, n) ==
    /\ Tree(t) /\ SamePlaces(s, t) /\ SameKept(s, t)
    /\ \A z \in Stack : t.count[z] = IF z = y THEN n ELSE s.count[z]
    /\ \A b \in Container :
          t.totalWeight[b] = IF c \in Container /\ b \in Chain(s, c)
                             THEN s.totalWeight[b] + Weight[y] * (n - s.count[y])
                             ELSE s.totalWeight[b]

LEMMA UpdateTree ==
    ASSUME NEW s, Tree(s), NEW c, NEW y \in Stack, NEW n \in Int
    PROVE  Updated(s, UpdateThing(s, c, y, n), c, y, n)
<1>. DEFINE t == UpdateThing(s, c, y, n)
<1>00. t = UpdateThing(s, c, y, n)
  OBVIOUS
<1>. HIDE DEF t
<1>0. s \in States
  BY DEF Tree
<1>. DEFINE r == [s EXCEPT !.count[y] = n]
<1>1. t = UpdateItemWeight(r, c, Weight[y] * (n - s.count[y]))
  BY <1>00 DEF UpdateThing
<1>2. r \in States /\ SamePlaces(s, r) /\ SameKept(s, r) /\ r.count = [s.count EXCEPT ![y] = n]
      /\ r.totalWeight = s.totalWeight
  BY <1>0 DEF States, SamePlaces, SameKept
<1>. HIDE DEF r
<1>3. Weight[y] * (n - s.count[y]) \in Int
  <2>1. Weight[y] \in Int /\ s.count[y] \in Int
    BY <1>0, CylindersAssumption, Disjoint, StateTypes
  <2>. QED
    BY <2>1
<1>4. /\ t \in States /\ SamePlaces(r, t) /\ SameKept(r, t) /\ t.count = r.count
      /\ \A b \in Container :
            t.totalWeight[b] = IF c \in Container /\ b \in Chain(r, c)
                               THEN r.totalWeight[b] + Weight[y] * (n - s.count[y]) ELSE r.totalWeight[b]
  <2>. DEFINE d == Weight[y] * (n - s.count[y])
  <2>1. d \in Int /\ t = UpdateItemWeight(r, c, d)
    BY <1>1, <1>3
  <2>. HIDE DEF d
  <2>2. /\ t \in States /\ SamePlaces(r, t) /\ SameKept(r, t) /\ t.count = r.count
        /\ \A b \in Container :
            t.totalWeight[b] = IF c \in Container /\ b \in Chain(r, c)
                               THEN r.totalWeight[b] + d ELSE r.totalWeight[b]
    BY <1>2, <2>1, UpdateWeightTree
  <2>. QED
    BY <2>2 DEF d
<1>5. r.parent = s.parent
  BY <1>2 DEF SamePlaces
<1>6. Chain(r, c) = Chain(s, c)
  BY <1>5, ChainParents
<1>7. SamePlaces(s, t) /\ SameKept(s, t)
  BY <1>2, <1>4 DEF SamePlaces, SameKept
<1>8. Tree(t)
  BY <1>4, <1>7, SameTree
<1>9. \A z \in Stack : t.count[z] = IF z = y THEN n ELSE s.count[z]
  BY <1>0, <1>2, <1>4 DEF States
<1>. QED
  BY <1>2, <1>4, <1>6, <1>7, <1>8, <1>9 DEF t, Updated

\* x, which was in c, is nowhere.
TakenOut(s, t, x, c) ==
    /\ t.parent = [s.parent EXCEPT ![x] = None]
    /\ t.count = s.count /\ t.position = s.position
    /\ SameKept(s, t)
    /\ \A b \in Container \cup Tile :
          t.itemlist[b] = IF b = c THEN RemoveFirst(s.itemlist[b], x) ELSE s.itemlist[b]
    /\ \A p \in Player, j \in Slot :
          t.inventory[p][j] = IF p = c /\ s.inventory[p][j] = x THEN None ELSE s.inventory[p][j]

LEMMA KidsTaken ==
    ASSUME NEW s \in States, NEW t, NEW x \in Thing, NEW c \in Holder, s.parent[x] = c,
           t.parent = [s.parent EXCEPT ![x] = None]
    PROVE  \A b \in Holder : Kids(t, b) = IF b = c THEN Kids(s, b) \ {x} ELSE Kids(s, b)
<1>1. \A b \in Thing : t.parent[b] = IF b = x THEN None ELSE s.parent[b]
  BY DEF States
<1>. QED
  BY <1>1, Disjoint DEF Kids, Holder

\* removeThing of all there is of x.
LEMMA RemoveTree ==
    ASSUME NEW s, Tree(s), NEW x \in Thing, NEW c \in Holder, s.parent[x] = c,
           NEW n, ~(x \in Stack /\ n # s.count[x]),
           NEW t, t = RemoveThing(s, c, x, n)
    PROVE  Tree(t) /\ TakenOut(s, t, x, c)
<1>0. s \in States /\ Rooted(s) /\ Agrees(s) /\ x # None
  BY Disjoint DEF Tree
<1>. DEFINE q == [s EXCEPT !.parent[x] = None]
<1>1. /\ q \in States /\ q.parent = [s.parent EXCEPT ![x] = None]
      /\ q.count = s.count /\ q.itemlist = s.itemlist /\ q.inventory = s.inventory
      /\ q.position = s.position /\ SameKept(s, q)
  BY <1>0 DEF States, Where, SameKept
<1>2. \A b \in Holder : Kids(q, b) = IF b = c THEN Kids(s, b) \ {x} ELSE Kids(s, b)
  <2>. HIDE DEF q
  <2>. QED
    BY <1>0, <1>1, KidsTaken
<1>3. Rooted(q)
  <2>. HIDE DEF q
  <2>. QED
    BY <1>0, <1>1, RootedTaken
<1>4. x \in Kids(s, c)
  BY DEF Kids
<1>5. CASE c \in Player
  <2>. DEFINE w == [i \in Slot |-> IF s.inventory[c][i] = x THEN None ELSE s.inventory[c][i]]
              v == [s.inventory EXCEPT ![c] = w]
  <2>1. t = [q EXCEPT !.inventory = v]
    BY <1>5 DEF RemoveThing
  <2>2. w \in [Slot -> Thing \cup {None}]
        /\ \A i \in Slot : w[i] = IF s.inventory[c][i] = x THEN None ELSE s.inventory[c][i]
    BY <1>0, <1>5, StateTypes
  <2>. HIDE DEF w, q
  <2>3. v \in [Player -> [Slot -> Thing \cup {None}]]
        /\ \A p \in Player : v[p] = IF p = c THEN w ELSE s.inventory[p]
    BY <1>0, <1>5, <2>2 DEF States
  <2>. HIDE DEF v
  <2>4. /\ t \in States /\ t.parent = q.parent /\ t.count = s.count /\ t.itemlist = s.itemlist
        /\ t.inventory = v /\ t.position = s.position /\ SameKept(s, t)
    BY <1>1, <2>1, <2>3 DEF States, SameKept
  <2>5. \A b \in Holder : Kids(t, b) = Kids(q, b)
    BY <2>4 DEF Kids
  <2>6. ASSUME NEW b \in Container \cup Tile PROVE b # c /\ Lists(t.itemlist[b], Kids(t, b))
    <3>1. b # c /\ b \in Holder
      BY <1>5, Disjoint DEF Holder
    <3>2. Kids(t, b) = Kids(s, b)
      BY <1>2, <2>5, <3>1
    <3>. QED
      BY <1>0, <2>4, <3>1, <3>2 DEF Agrees
  <2>7. ASSUME NEW p \in Player PROVE Wears(t.inventory[p], Kids(t, p))
    <3>1. Wears(s.inventory[p], Kids(s, p)) /\ p \in Holder
      BY <1>0 DEF Agrees, Holder
    <3>2. Kids(t, p) = IF p = c THEN Kids(s, p) \ {x} ELSE Kids(s, p)
      BY <1>2, <2>5, <3>1
    <3>3. CASE p # c
      BY <2>3, <2>4, <3>1, <3>2, <3>3
    <3>4. CASE p = c
      <4>1. Kids(t, p) = Kids(s, p) \ {x}
        BY <3>2, <3>4
      <4>2. \A i \in Slot : t.inventory[p][i] = IF s.inventory[p][i] = x THEN None ELSE s.inventory[p][i]
        BY <2>2, <2>3, <2>4, <3>4
      <4>. QED
        BY <3>1, <4>1, <4>2 DEF Wears
    <3>. QED
      BY <3>3, <3>4
  <2>8. Rooted(t)
    BY <1>3, <2>4 DEF Rooted
  <2>9. Tree(t)
    BY <2>4, <2>6, <2>7, <2>8 DEF Tree, Agrees
  <2>10. \A p \in Player, j \in Slot :
            t.inventory[p][j] = IF p = c /\ s.inventory[p][j] = x THEN None ELSE s.inventory[p][j]
    BY <2>2, <2>3, <2>4
  <2>. QED
    BY <1>1, <2>4, <2>6, <2>9, <2>10 DEF TakenOut
<1>6. CASE c \in Container \cup Tile
  <2>. DEFINE l == RemoveFirst(s.itemlist[c], x)
              r == [q EXCEPT !.itemlist[c] = l]
              d == - GetWeight(s, x)
  <2>0. c \notin Player
    BY <1>6, Disjoint
  <2>1. t = UpdateItemWeight(r, c, d)
    BY <2>0 DEF RemoveThing
  <2>2. d \in Int
    <3>1. GetWeight(s, x) \in Int
      BY <1>0, WeightType
    <3>. QED
      BY <3>1
  <2>3. Lists(l, Kids(s, c) \ {x}) /\ l \in Seq(Thing)
    <3>1. Lists(s.itemlist[c], Kids(s, c))
      BY <1>0, <1>6 DEF Agrees
    <3>2. Lists(l, Kids(s, c) \ {x})
      BY <1>4, <3>1, RemovedLists
    <3>. QED
      BY <3>2 DEF Lists
  <2>. HIDE DEF q, l, d
  <2>4. /\ r \in States /\ r.parent = q.parent
        /\ r.count = s.count /\ r.inventory = s.inventory
        /\ r.position = s.position /\ SameKept(s, r)
        /\ \A b \in Container \cup Tile : r.itemlist[b] = IF b = c THEN l ELSE s.itemlist[b]
    BY <1>1, <1>6, <2>3 DEF States, SameKept
  <2>. HIDE DEF r
  <2>5. t \in States /\ SamePlaces(r, t) /\ SameKept(r, t) /\ t.count = r.count
    BY <2>1, <2>2, <2>4, UpdateWeightTree
  <2>6. /\ t.parent = q.parent /\ t.inventory = s.inventory
        /\ t.position = s.position /\ SameKept(s, t)
        /\ \A b \in Container \cup Tile : t.itemlist[b] = IF b = c THEN l ELSE s.itemlist[b]
    BY <2>4, <2>5 DEF SamePlaces, SameKept
  <2>7. \A b \in Holder : Kids(t, b) = IF b = c THEN Kids(s, b) \ {x} ELSE Kids(s, b)
    BY <1>2, <2>6 DEF Kids
  <2>8. ASSUME NEW b \in Container \cup Tile PROVE Lists(t.itemlist[b], Kids(t, b))
    BY <1>0, <2>3, <2>6, <2>7 DEF Agrees, Holder
  <2>9. ASSUME NEW p \in Player PROVE p # c /\ Wears(t.inventory[p], Kids(t, p))
    <3>1. p # c /\ p \in Holder
      BY <2>0 DEF Holder
    <3>2. Kids(t, p) = Kids(s, p)
      BY <2>7, <3>1
    <3>. QED
      BY <1>0, <2>6, <3>1, <3>2 DEF Agrees
  <2>10. Rooted(t)
    BY <1>3, <2>6 DEF Rooted
  <2>11. Tree(t)
    BY <2>5, <2>8, <2>9, <2>10 DEF Tree, Agrees
  <2>12. t.count = s.count
    BY <2>4, <2>5
  <2>. QED
    BY <1>1, <2>6, <2>9, <2>11, <2>12 DEF TakenOut, l
<1>. QED
  BY <1>5, <1>6 DEF Holder

\* removeThing of some of a stack
LEMMA RemoveSome ==
    ASSUME NEW s, NEW x \in Stack, NEW c, NEW n, n # s.count[x]
    PROVE  RemoveThing(s, c, x, n) = UpdateThing(s, c, x, s.count[x] - n)
BY DEF RemoveThing

-----------------------------------------------------------------------------
(* The notifications.                                                      *)

LEMMA InventoryWeightTree ==
    ASSUME NEW s \in States, NEW p \in Player, NEW t, t = UpdateInventoryWeight(s, p)
    PROVE  /\ t \in States /\ SamePlaces(s, t) /\ t.count = s.count
           /\ t.totalWeight = s.totalWeight /\ t.openContainers = s.openContainers
           /\ \A q \in Player : q # p => t.inventoryWeight[q] = s.inventoryWeight[q]
<1>. DEFINE f == [i \in Slot |-> IF s.inventory[p][i] = None THEN 0
                                 ELSE GetWeight(s, s.inventory[p][i])]
            w == SumFunction(f)
<1>1. f \in [Slot -> Int]
  <2>1. ASSUME NEW i \in Slot, s.inventory[p][i] # None PROVE GetWeight(s, s.inventory[p][i]) \in Int
    <3>1. s.inventory[p][i] \in Thing
      BY <2>1, StateTypes
    <3>. QED
      BY <3>1, WeightType
  <2>. QED
    BY <2>1
<1>2. w \in Int
  <2>. HIDE DEF f
  <2>1. SumFunction(f) \in Int
    BY <1>1, Finite, SumType
  <2>. QED
    BY <2>1
<1>. DEFINE v == [s.inventoryWeight EXCEPT ![p] = w]
<1>3. t = [s EXCEPT !.inventoryWeight = v]
  BY DEF UpdateInventoryWeight
<1>. HIDE DEF w
<1>4. v \in [Player -> Int] /\ \A q \in Player : v[q] = IF q = p THEN w ELSE s.inventoryWeight[q]
  BY <1>2 DEF States
<1>. HIDE DEF v
<1>. QED
  BY <1>3, <1>4 DEF States, SamePlaces

LEMMA CloseTree ==
    ASSUME NEW s \in States, NEW told, NEW x, NEW t, t = CloseWindows(s, told, x)
    PROVE  /\ t \in States /\ SamePlaces(s, t) /\ t.count = s.count
           /\ t.totalWeight = s.totalWeight /\ t.inventoryWeight = s.inventoryWeight
           /\ \A q \in Player :
                 t.openContainers[q] = IF q \in told /\ OutOfReach(s, q, x)
                                       THEN AutoCloseContainers(s, q, x) ELSE s.openContainers[q]
<1>. DEFINE o == [q \in Player |-> IF q \in told /\ OutOfReach(s, q, x) THEN AutoCloseContainers(s, q, x)
                                   ELSE s.openContainers[q]]
<1>1. t = [s EXCEPT !.openContainers = o]
  BY DEF CloseWindows
<1>2. o \in [Player -> SUBSET Container]
        /\ \A q \in Player : o[q] = IF q \in told /\ OutOfReach(s, q, x)
                                    THEN AutoCloseContainers(s, q, x) ELSE s.openContainers[q]
  BY StateTypes DEF AutoCloseContainers
<1>. HIDE DEF o
<1>. QED
  BY <1>1, <1>2 DEF States, SamePlaces

LEMMA HoldingPlayerType == ASSUME NEW s, NEW c PROVE HoldingPlayer(s, c) \in Player \cup {None}
BY DEF HoldingPlayer

LEMMA PostAddTree ==
    ASSUME NEW s, Tree(s), NEW c, NEW t, t = PostAddNotification(s, c)
    PROVE  /\ Tree(t) /\ SamePlaces(s, t) /\ t.count = s.count
           /\ t.totalWeight = s.totalWeight /\ t.openContainers = s.openContainers
<1>1. s \in States
  BY DEF Tree
<1>2. CASE HoldingPlayer(s, c) = None
  BY <1>2 DEF PostAddNotification, SamePlaces
<1>3. CASE HoldingPlayer(s, c) # None
  <2>1. HoldingPlayer(s, c) \in Player
    BY <1>3, HoldingPlayerType
  <2>2. t = UpdateInventoryWeight(s, HoldingPlayer(s, c))
    BY <1>3 DEF PostAddNotification
  <2>. QED
    BY <1>1, <2>1, <2>2, InventoryWeightTree, SameTree
<1>. QED
  BY <1>2, <1>3

LEMMA PostRemoveTree ==
    ASSUME NEW s, Tree(s), NEW c, NEW x, NEW t, t = PostRemoveNotification(s, c, x)
    PROVE  /\ Tree(t) /\ SamePlaces(s, t) /\ t.count = s.count
           /\ t.totalWeight = s.totalWeight
<1>1. s \in States
  BY DEF Tree
<1>. DEFINE p == HoldingPlayer(s, c)
            told == IF p = None THEN Player ELSE {p}
            u == IF p = None THEN s ELSE UpdateInventoryWeight(s, p)
<1>2. u \in States /\ SamePlaces(s, u) /\ u.count = s.count /\ u.totalWeight = s.totalWeight
  <2>1. CASE p = None
    BY <1>1, <2>1 DEF SamePlaces
  <2>2. CASE p # None
    <3>1. p \in Player
      BY <2>2, HoldingPlayerType
    <3>. HIDE DEF p
    <3>. QED
      BY <1>1, <2>2, <3>1, InventoryWeightTree
  <2>. QED
    BY <2>1, <2>2
<1>3. t = IF x \in Container THEN CloseWindows(u, told, x) ELSE u
  BY DEF PostRemoveNotification
<1>. HIDE DEF u, told
<1>4. t \in States /\ SamePlaces(u, t) /\ t.count = u.count /\ t.totalWeight = u.totalWeight
  <2>1. CASE x \in Container
    BY <1>2, <1>3, <2>1, CloseTree
  <2>2. CASE x \notin Container
    BY <1>2, <1>3, <2>2 DEF SamePlaces
  <2>. QED
    BY <2>1, <2>2
<1>5. SamePlaces(s, t)
  BY <1>2, <1>4 DEF SamePlaces
<1>. QED
  BY <1>2, <1>4, <1>5, SameTree

-----------------------------------------------------------------------------
(* Lists of lists.                                                         *)

Has(l, y) == \E i \in 1..Len(l) : l[i] = y

LEMMA HasConcat ==
    ASSUME NEW A, NEW a \in Seq(A), NEW b \in Seq(A), NEW y
    PROVE  a \o b \in Seq(A) /\ (Has(a \o b, y) <=> Has(a, y) \/ Has(b, y))
<1>. DEFINE c == a \o b
<1>1. /\ Len(a) \in Nat /\ Len(b) \in Nat /\ c \in Seq(A)
      /\ Len(c) = Len(a) + Len(b)
      /\ \A j \in 1..(Len(a) + Len(b)) : c[j] = IF j <= Len(a) THEN a[j] ELSE b[j - Len(a)]
  BY ConcatProperties
<1>. HIDE DEF c
<1>2. ASSUME Has(c, y) PROVE Has(a, y) \/ Has(b, y)
  <2>1. PICK j \in 1..Len(c) : c[j] = y
    BY <1>2 DEF Has
  <2>2. CASE j <= Len(a)
    <3>1. j \in 1..Len(a) /\ a[j] = y
      BY <1>1, <2>1, <2>2
    <3>. QED
      BY <3>1 DEF Has
  <2>3. CASE ~(j <= Len(a))
    <3>1. j - Len(a) \in 1..Len(b) /\ b[j - Len(a)] = y
      BY <1>1, <2>1, <2>3
    <3>. QED
      BY <3>1 DEF Has
  <2>. QED
    BY <2>2, <2>3
<1>3. ASSUME Has(a, y) PROVE Has(c, y)
  <2>1. PICK j \in 1..Len(a) : a[j] = y
    BY <1>3 DEF Has
  <2>2. j \in 1..Len(c) /\ c[j] = y
    BY <1>1, <2>1
  <2>. QED
    BY <2>2 DEF Has
<1>4. ASSUME Has(b, y) PROVE Has(c, y)
  <2>1. PICK j \in 1..Len(b) : b[j] = y
    BY <1>4 DEF Has
  <2>2. /\ j + Len(a) \in 1..Len(c) /\ ~(j + Len(a) <= Len(a))
        /\ j + Len(a) - Len(a) = j
    BY <1>1, <2>1
  <2>3. c[j + Len(a)] = y
    BY <1>1, <2>1, <2>2
  <2>. QED
    BY <2>2, <2>3 DEF Has
<1>. QED
  BY <1>1, <1>2, <1>3, <1>4 DEF c

LEMMA Flat ==
    ASSUME NEW A, NEW n \in Nat, NEW f \in [1..n -> Seq(A)]
    PROVE  /\ FlattenSeq(f) \in Seq(A)
           /\ \A y : Has(FlattenSeq(f), y) <=> \E k \in 1..n : Has(f[k], y)
<1>1. f \in Seq(Seq(A)) /\ Len(f) = n /\ DOMAIN f = 1..n
  OBVIOUS
<1>2. CASE n = 0
  <2>1. FlattenSeq(f) = f /\ f = << >>
    BY <1>1, <1>2 DEF FlattenSeq
  <2>2. FlattenSeq(f) = << >> /\ 1..n = {} /\ Len(<< >>) = 0 /\ << >> \in Seq(A)
    BY <1>1, <1>2, <2>1
  <2>. QED
    BY <2>2 DEF Has
<1>3. CASE n # 0
  <2>. DEFINE Is(g) == g = [i \in 1..n |-> IF i = 1 THEN f[i] ELSE g[i - 1] \o f[i]]
              h == CHOOSE g : Is(g)
              op == [a \in (0..n) \X Seq(A) |-> IF a[1] = 0 THEN << >>
                                                ELSE IF a[1] = 1 THEN f[1] ELSE a[2] \o f[a[1]]]
  <2>1. op \in [(0..n) \X Seq(A) -> Seq(A)]
    <3>1. ASSUME NEW i \in 0..n, NEW l \in Seq(A)
          PROVE  (IF i = 0 THEN << >> ELSE IF i = 1 THEN f[1] ELSE l \o f[i]) \in Seq(A)
      <4>1. CASE i = 0
        BY <4>1
      <4>2. CASE i # 0
        <5>1. i \in 1..n /\ 1 \in 1..n
          BY <1>3, <4>2
        <5>2. f[i] \in Seq(A) /\ f[1] \in Seq(A)
          BY <5>1
        <5>. QED
          BY <4>2, <5>2
      <4>. QED
        BY <4>1, <4>2
    <3>. QED
      BY <3>1
  <2>2. PICK u : BuildsUp(u, << >>, op, n, Seq(A))
    <3>. DEFINE B == Seq(A)
                e == << >>
    <3>1. e \in B
      OBVIOUS
    <3>2. op \in [(0..n) \X B -> B]
      BY <2>1
    <3>. HIDE DEF op, B, e
    <3>3. \E u : BuildsUp(u, e, op, n, B)
      BY <3>1, <3>2, BuildsIn
    <3>. QED
      BY <3>3 DEF B, e
  <2>3. ASSUME NEW i \in 1..n PROVE u[i] = (IF i = 1 THEN f[i] ELSE u[i - 1] \o f[i])
    <3>1. i \in 0..n /\ i - 1 \in 0..n /\ i # 0
      OBVIOUS
    <3>2. u[i - 1] \in Seq(A) /\ u[i] = op[<<i, u[i - 1]>>]
      <4>. HIDE DEF op
      <4>. QED
        BY <2>2, <3>1 DEF BuildsUp
    <3>. QED
      BY <3>1, <3>2
  <2>. DEFINE v == [i \in 1..n |-> u[i]]
  <2>4. Is(v)
    <3>1. ASSUME NEW i \in 1..n PROVE v[i] = (IF i = 1 THEN f[i] ELSE v[i - 1] \o f[i])
      <4>1. i # 1 => i - 1 \in 1..n
        OBVIOUS
      <4>. QED
        BY <2>3, <4>1
    <3>2. v = [i \in 1..n |-> v[i]]
      OBVIOUS
    <3>. HIDE DEF v
    <3>. QED
      BY <3>1, <3>2
  <2>5. Is(h)
    <3>. HIDE DEF Is, v
    <3>. QED
      BY <2>4
  <2>6. FlattenSeq(f) = h[n]
    BY <1>1, <1>3 DEF FlattenSeq
  <2>. DEFINE G == {i \in 0..n : i # 0 => /\ h[i] \in Seq(A)
                                          /\ \A y : Has(h[i], y) <=> \E k \in 1..i : Has(f[k], y)}
  <2>7. \A i \in 1..n : h[i] = IF i = 1 THEN f[i] ELSE h[i - 1] \o f[i]
    <3>1. \A g : Is(g) => \A i \in 1..n : g[i] = IF i = 1 THEN f[i] ELSE g[i - 1] \o f[i]
      OBVIOUS
    <3>. HIDE DEF h, Is
    <3>. QED
      BY <2>5, <3>1
  <2>. HIDE DEF h
  <2>8. 0 \in G
    OBVIOUS
  <2>9. ASSUME NEW i \in 0..n, i \in G, i # n PROVE i + 1 \in G
    <3>1. i + 1 \in 1..n /\ i + 1 - 1 = i /\ i + 1 \in 0..n
      BY <2>9
    <3>2. f[i + 1] \in Seq(A)
      BY <3>1
    <3>3. CASE i = 0
      <4>1. h[i + 1] = f[i + 1] /\ i + 1 = 1
        BY <2>7, <3>1, <3>3
      <4>2. \A k : k \in 1..(i + 1) <=> k = i + 1
        BY <3>3
      <4>3. h[i + 1] \in Seq(A) /\ \A y : Has(h[i + 1], y) <=> \E k \in 1..(i + 1) : Has(f[k], y)
        BY <3>2, <4>1, <4>2
      <4>. QED
        BY <3>1, <4>3
    <3>4. CASE i # 0
      <4>1. h[i + 1] = h[i] \o f[i + 1]
        <5>1. i + 1 # 1
          BY <3>4
        <5>2. h[i + 1] = IF i + 1 = 1 THEN f[i + 1] ELSE h[i + 1 - 1] \o f[i + 1]
          BY <2>7, <3>1
        <5>. QED
          BY <3>1, <5>1, <5>2
      <4>2. h[i] \in Seq(A) /\ \A y : Has(h[i], y) <=> \E k \in 1..i : Has(f[k], y)
        BY <2>9, <3>4
      <4>3. h[i + 1] \in Seq(A) /\ \A y : Has(h[i + 1], y) <=> Has(h[i], y) \/ Has(f[i + 1], y)
        BY <3>2, <4>1, <4>2, HasConcat
      <4>4. \A k : k \in 1..(i + 1) <=> k \in 1..i \/ k = i + 1
        BY <3>1
      <4>5. \A y : Has(h[i + 1], y) <=> \E k \in 1..(i + 1) : Has(f[k], y)
        BY <4>2, <4>3, <4>4
      <4>. QED
        BY <3>1, <4>3, <4>5
    <3>. QED
      BY <3>3, <3>4
  <2>10. n \in G
    <3>1. \A i \in 0..n : i \in G /\ i # n => i + 1 \in G
      BY <2>9
    <3>2. n \in 0..n
      OBVIOUS
    <3>. HIDE DEF G
    <3>. QED
      BY <2>8, <3>1, <3>2, UpTo
  <2>11. h[n] \in Seq(A) /\ \A y : Has(h[n], y) <=> \E k \in 1..n : Has(f[k], y)
    BY <1>3, <2>10
  <2>. QED
    BY <2>6, <2>11
<1>. QED
  BY <1>2, <1>3

LEMMA BagsAmongAre ==
    ASSUME NEW n \in Nat, NEW list, DOMAIN list = 1..n, NEW x
    PROVE  /\ BagsAmong(list, x) \in Seq(Container)
           /\ \A y : Has(BagsAmong(list, x), y) <=> y \in Container \ {x} /\ \E k \in 1..n : list[k] = y
<1>. DEFINE f == [k \in 1..n |-> IF list[k] \in Container \ {x} THEN <<list[k]>> ELSE <<>>]
<1>1. BagsAmong(list, x) = FlattenSeq(f)
  BY DEF BagsAmong
<1>2. \A z : Len(<<z>>) = 1 /\ <<z>>[1] = z
  OBVIOUS
<1>3. ASSUME NEW z \in Container PROVE <<z>> \in Seq(Container)
  OBVIOUS
<1>4. << >> \in Seq(Container) /\ Len(<< >>) = 0
  OBVIOUS
<1>5. \A k \in 1..n : f[k] = IF list[k] \in Container \ {x} THEN <<list[k]>> ELSE <<>>
  OBVIOUS
<1>6. f \in [1..n -> Seq(Container)]
  <2>1. \A k \in 1..n : f[k] \in Seq(Container)
    BY <1>3, <1>4, <1>5
  <2>2. f = [k \in 1..n |-> f[k]]
    OBVIOUS
  <2>. HIDE DEF f
  <2>. QED
    BY <2>1, <2>2
<1>. HIDE DEF f
<1>7. ASSUME NEW k \in 1..n, NEW y PROVE Has(f[k], y) <=> y \in Container \ {x} /\ list[k] = y
  <2>1. CASE list[k] \in Container \ {x}
    <3>1. f[k] = <<list[k]>> /\ Len(f[k]) = 1 /\ f[k][1] = list[k]
      BY <1>2, <1>5, <2>1
    <3>. QED
      BY <2>1, <3>1 DEF Has
  <2>2. CASE list[k] \notin Container \ {x}
    <3>1. f[k] = << >>
      BY <1>5, <2>2
    <3>. QED
      BY <1>4, <2>2, <3>1 DEF Has
  <2>. QED
    BY <2>1, <2>2
<1>. QED
  <2>1. /\ FlattenSeq(f) \in Seq(Container)
        /\ \A y : Has(FlattenSeq(f), y) <=> \E k \in 1..n : Has(f[k], y)
    BY <1>6, Flat
  <2>. QED
    BY <1>1, <1>7, <2>1

\* The containers in those of a list.
BagsIn(s, x, above) == FlattenSeq([k \in DOMAIN above |-> BagsAmong(s.itemlist[above[k]], x)])

LEMMA BagsInAre ==
    ASSUME NEW s \in States, NEW x, NEW above \in Seq(Container)
    PROVE  /\ BagsIn(s, x, above) \in Seq(Container)
           /\ \A y : Has(BagsIn(s, x, above), y)
                        <=> y \in Container \ {x} /\ \E a : Has(above, a) /\ Has(s.itemlist[a], y)
<1>. DEFINE n == Len(above)
            f == [k \in 1..n |-> BagsAmong(s.itemlist[above[k]], x)]
<1>1. n \in Nat /\ DOMAIN above = 1..n /\ \A k \in 1..n : above[k] \in Container
  OBVIOUS
<1>2. BagsIn(s, x, above) = FlattenSeq(f)
  BY <1>1 DEF BagsIn
<1>3. ASSUME NEW k \in 1..n
      PROVE  /\ f[k] \in Seq(Container)
             /\ \A y : Has(f[k], y) <=> y \in Container \ {x} /\ Has(s.itemlist[above[k]], y)
  <2>. DEFINE list == s.itemlist[above[k]]
  <2>1. list \in Seq(Thing)
    BY <1>1, StateTypes
  <2>2. Len(list) \in Nat /\ DOMAIN list = 1..Len(list)
    BY <2>1
  <2>3. f[k] = BagsAmong(list, x)
    OBVIOUS
  <2>. HIDE DEF list, f
  <2>4. /\ BagsAmong(list, x) \in Seq(Container)
        /\ \A y : Has(BagsAmong(list, x), y)
                     <=> y \in Container \ {x} /\ \E j \in 1..Len(list) : list[j] = y
    BY <2>2, BagsAmongAre
  <2>. QED
    BY <2>3, <2>4 DEF Has, list
<1>4. f \in [1..n -> Seq(Container)]
  <2>1. f = [k \in 1..n |-> f[k]]
    OBVIOUS
  <2>. HIDE DEF f
  <2>. QED
    BY <1>3, <2>1
<1>. HIDE DEF f
<1>5. /\ FlattenSeq(f) \in Seq(Container)
      /\ \A y : Has(FlattenSeq(f), y) <=> \E k \in 1..n : Has(f[k], y)
  BY <1>1, <1>4, Flat
<1>6. \A a : Has(above, a) <=> \E k \in 1..n : above[k] = a
  BY DEF Has
<1>. HIDE DEF n
<1>. QED
  BY <1>2, <1>3, <1>5, <1>6

LEMMA WornBags ==
    ASSUME NEW s \in States, NEW p \in Player, NEW x
    PROVE  /\ BagsAmong(Worn(s, p), x) \in Seq(Container)
           /\ \A y : Has(BagsAmong(Worn(s, p), x), y)
                        <=> y \in Container \ {x} /\ \E i \in Slot : s.inventory[p][i] = y
<1>1. DOMAIN Worn(s, p) = 1..10 /\ 10 \in Nat
      /\ \A i \in 1..10 : Worn(s, p)[i] = IF i \in Slot THEN s.inventory[p][i] ELSE None
  BY DEF Worn, CONST_SLOT_LAST
<1>2. /\ BagsAmong(Worn(s, p), x) \in Seq(Container)
      /\ \A y : Has(BagsAmong(Worn(s, p), x), y)
                   <=> y \in Container \ {x} /\ \E i \in 1..10 : Worn(s, p)[i] = y
  <2>. DEFINE w == Worn(s, p)
              n == 10
  <2>1. n \in Nat /\ DOMAIN w = 1..n
    BY <1>1
  <2>. HIDE DEF w, n
  <2>2. /\ BagsAmong(w, x) \in Seq(Container)
        /\ \A y : Has(BagsAmong(w, x), y) <=> y \in Container \ {x} /\ \E i \in 1..n : w[i] = y
    BY <2>1, BagsAmongAre
  <2>. QED
    BY <2>2 DEF w, n
<1>3. Slot \subseteq 1..10
  <2>1. Slot \subseteq {3, 5, 6}
    BY CylindersAssumption DEF CONST_SLOT_BACKPACK, CONST_SLOT_RIGHT, CONST_SLOT_LEFT
  <2>. QED
    BY <2>1
<1>4. ASSUME NEW y \in Container
      PROVE  (\E k \in 1..10 : Worn(s, p)[k] = y) <=> \E i \in Slot : s.inventory[p][i] = y
  <2>1. y # None
    BY Disjoint
  <2>2. ASSUME NEW k \in 1..10, Worn(s, p)[k] = y PROVE k \in Slot /\ s.inventory[p][k] = y
    BY <1>1, <2>1, <2>2
  <2>3. ASSUME NEW i \in Slot, s.inventory[p][i] = y PROVE i \in 1..10 /\ Worn(s, p)[i] = y
    BY <1>1, <1>3, <2>3
  <2>. QED
    BY <2>2, <2>3
<1>5. ASSUME NEW y
      PROVE  Has(BagsAmong(Worn(s, p), x), y)
                <=> y \in Container \ {x} /\ \E i \in Slot : s.inventory[p][i] = y
  <2>1. CASE y \in Container \ {x}
    <3>1. y \in Container
      BY <2>1
    <3>2. (\E k \in 1..10 : Worn(s, p)[k] = y) <=> \E i \in Slot : s.inventory[p][i] = y
      BY <3>1, <1>4
    <3>3. Has(BagsAmong(Worn(s, p), x), y) <=> \E k \in 1..10 : Worn(s, p)[k] = y
      BY <1>2, <2>1
    <3>. QED
      BY <2>1, <3>2, <3>3
  <2>2. CASE y \notin Container \ {x}
    BY <1>2, <2>2
  <2>. QED
    BY <2>1, <2>2
<1>. QED
  BY <1>2, <1>5

LEMMA BagsAre ==
    ASSUME NEW s \in States, NEW p \in Player, NEW x
    PROVE  /\ Bags(s, p, x) \in Seq(Container)
           /\ \E level \in [0..Cardinality(Container) -> Seq(Container)] :
                 /\ level[0] = BagsAmong(Worn(s, p), x)
                 /\ \A n \in 1..Cardinality(Container) : level[n] = BagsIn(s, x, level[n - 1])
                 /\ \A y : Has(Bags(s, p, x), y)
                              <=> \E n \in 1..Cardinality(Container) : Has(level[n - 1], y)
<1>. DEFINE K == Cardinality(Container)
            Is(level) == level = [n \in 0..K |->
                IF n = 0 THEN BagsAmong(Worn(s, p), x)
                ELSE FlattenSeq([k \in DOMAIN level[n - 1] |-> BagsAmong(s.itemlist[level[n - 1][k]], x)])]
            l == CHOOSE level : Is(level)
            B == Seq(Container)
            base == BagsAmong(Worn(s, p), x)
            op == [a \in (0..K) \X B |-> BagsIn(s, x, a[2])]
<1>0. K \in Nat
  BY Finite
<1>1. PICK f : BuildsUp(f, base, op, K, B)
  <2>1. base \in B
    BY WornBags
  <2>2. op \in [(0..K) \X B -> B]
    <3>1. \A a \in B : BagsIn(s, x, a) \in B
      BY BagsInAre
    <3>. HIDE DEF B, K
    <3>. QED
      BY <3>1
  <2>. HIDE DEF op, B, base, K
  <2>. QED
    BY <1>0, <2>1, <2>2, BuildsIn
<1>2. f \in [0..K -> B] /\ f[0] = base /\ \A n \in 1..K : f[n] = BagsIn(s, x, f[n - 1])
  <2>1. ASSUME NEW n \in 1..K PROVE f[n] = BagsIn(s, x, f[n - 1])
    <3>1. n \in 0..K /\ n - 1 \in 0..K
      BY <1>0
    <3>2. f[n - 1] \in B /\ f[n] = op[<<n, f[n - 1]>>]
      <4>. HIDE DEF K, B, op
      <4>. QED
        BY <1>1, <3>1 DEF BuildsUp
    <3>. HIDE DEF K, B
    <3>. QED
      BY <3>1, <3>2
  <2>. HIDE DEF K, B, op, base
  <2>. QED
    BY <1>1, <2>1 DEF BuildsUp
<1>3. Is(f)
  <2>1. ASSUME NEW n \in 0..K
        PROVE  f[n] = IF n = 0 THEN base
                ELSE FlattenSeq([k \in DOMAIN f[n - 1] |-> BagsAmong(s.itemlist[f[n - 1][k]], x)])
    <3>1. n # 0 => n \in 1..K
      BY <1>0
    <3>. HIDE DEF K, B, base
    <3>. QED
      BY <1>2, <3>1 DEF BagsIn
  <2>2. f = [n \in 0..K |-> f[n]]
    <3>. HIDE DEF K, B, base
    <3>. QED
      BY <1>2
  <2>. HIDE DEF K, B
  <2>. QED
    BY <2>1, <2>2
<1>4. Is(l)
  <2>. HIDE DEF Is
  <2>. QED
    BY <1>3
<1>5. Bags(s, p, x) = FlattenSeq([n \in 1..K |-> l[n - 1]])
  BY DEF Bags
<1>. HIDE DEF l
<1>6. l[0] = base /\ \A n \in 1..K : l[n] = BagsIn(s, x, l[n - 1])
  <2>1. 0 \in 0..K /\ \A n \in 1..K : n \in 0..K /\ n # 0
    BY <1>0
  <2>2. \A n \in 0..K : l[n] = IF n = 0 THEN BagsAmong(Worn(s, p), x)
                ELSE FlattenSeq([k \in DOMAIN l[n - 1] |-> BagsAmong(s.itemlist[l[n - 1][k]], x)])
    <3>. HIDE DEF K
    <3>. QED
      BY <1>4
  <2>. HIDE DEF K
  <2>. QED
    BY <2>1, <2>2 DEF BagsIn
<1>7. l \in [0..K -> B]
  <2>. DEFINE G == {n \in 0..K : l[n] \in B}
  <2>1. 0 \in G
    BY <1>0, <1>6, WornBags
  <2>2. ASSUME NEW n \in 0..K, n \in G, n # K PROVE n + 1 \in G
    <3>1. n + 1 \in 1..K /\ n + 1 - 1 = n /\ n + 1 \in 0..K /\ l[n] \in B
      BY <1>0, <2>2
    <3>2. l[n + 1] = BagsIn(s, x, l[n])
      <4>. HIDE DEF K
      <4>. QED
        BY <1>6, <3>1
    <3>3. l[n + 1] \in B
      BY <3>1, <3>2, BagsInAre
    <3>. QED
      BY <3>1, <3>3
  <2>3. \A n \in 0..K : n \in G
    <3>. HIDE DEF G, K
    <3>. QED
      BY <1>0, <2>1, <2>2, UpTo
  <2>4. l = [n \in 0..K |-> l[n]]
    BY <1>4
  <2>. HIDE DEF K, B
  <2>. QED
    BY <2>3, <2>4
<1>. DEFINE g == [n \in 1..K |-> l[n - 1]]
<1>8. g \in [1..K -> B]
  <2>1. \A n \in 1..K : n - 1 \in 0..K
    BY <1>0
  <2>. HIDE DEF K, B
  <2>. QED
    BY <1>7, <2>1
<1>9. \A n \in 1..K : g[n] = l[n - 1]
  <2>. HIDE DEF K
  <2>. QED
    OBVIOUS
<1>. HIDE DEF g
<1>10. /\ FlattenSeq(g) \in Seq(Container)
       /\ \A y : Has(FlattenSeq(g), y) <=> \E n \in 1..K : Has(g[n], y)
  <2>. HIDE DEF K
  <2>. QED
    BY <1>0, <1>8, Flat
<1>11. Bags(s, p, x) = FlattenSeq(g)
  BY <1>5 DEF g
<1>12. \A y : Has(Bags(s, p, x), y) <=> \E n \in 1..K : Has(l[n - 1], y)
  <2>. HIDE DEF K
  <2>. QED
    BY <1>9, <1>10, <1>11
<1>. HIDE DEF Is, op
<1>. QED
  BY <1>6, <1>7, <1>10, <1>11, <1>12

-----------------------------------------------------------------------------
(* Destinations.                                                           *)

\* Only stacks are nowhere, and there is something of those that are not.
Placed(s) == \A x \in Container \cup Plain : s.parent[x] # None
Counted(s) == \A x \in Stack : s.parent[x] # None => s.count[x] \in 1..Full

Good(s) == Tree(s) /\ Placed(s) /\ Counted(s)

\* No container has more than it can hold.
Snug(s) == \A c \in Container : Len(s.itemlist[c]) <= Capacity

Destinations == [to : Holder, index : {i \in Int : i >= -1}, item : Thing \cup {None}]

\* What a move starts from, and what queryDestination leads to.
Start(d) == d \in Destinations /\ d.item = None

Aim(s, d) ==
    /\ d \in Destinations
    /\ d.item \in Stack => /\ s.parent[d.item] # None
                           /\ Snug(s) => s.parent[d.item] = d.to
                           /\ d.to \in Container => d.index <= Len(s.itemlist[d.to])
    /\ d.to \in Player /\ d.index \in Slot => d.item = s.inventory[d.to][d.index]
    /\ d.to \in Container =>
          /\ d.index \in 0..(Len(s.itemlist[d.to]) - 1) => d.item = s.itemlist[d.to][d.index + 1]
          /\ d.index >= Capacity => Len(s.itemlist[d.to]) >= Capacity

LEMMA Sizes ==
    ASSUME NEW s \in States, NEW c \in Container \cup Tile
    PROVE  /\ Len(s.itemlist[c]) \in Nat /\ DOMAIN s.itemlist[c] = 1..Len(s.itemlist[c])
           /\ \A k \in 1..Len(s.itemlist[c]) : s.itemlist[c][k] \in Thing
BY StateTypes

LEMMA InList ==
    ASSUME NEW s, Tree(s), NEW c \in Container \cup Tile, NEW k \in 1..Len(s.itemlist[c])
    PROVE  s.itemlist[c][k] \in Thing /\ s.parent[s.itemlist[c][k]] = c
BY DEF Tree, Agrees, Lists, Kids

LEMMA InSlot ==
    ASSUME NEW s, Tree(s), NEW p \in Player, NEW i \in Slot, s.inventory[p][i] # None
    PROVE  s.inventory[p][i] \in Thing /\ s.parent[s.inventory[p][i]] = p
BY DEF Tree, Agrees, Wears, Kids

LEMMA Numbers ==
    /\ Capacity \in Nat /\ Capacity > 0 /\ Capacity < 254 /\ Full \in Nat /\ Full > 0
    /\ Slot \subseteq {3, 5, 6} /\ 5 \in Slot /\ 6 \in Slot
BY CylindersAssumption, ItemsAssumption
   DEF MOVE_UP, CONST_SLOT_BACKPACK, CONST_SLOT_RIGHT, CONST_SLOT_LEFT

\* The least of some numbers is one of them.
LEMMA MinIn ==
    ASSUME NEW S, S # {}, \A i \in S : i \in Nat
    PROVE  Min(S) \in S /\ \A i \in S : Min(S) <= i
<1>1. IsWellFoundedOn(OpToRel(<, Nat), Nat)
  BY NatLessThanWellFounded
<1>2. PICK n \in S : \A m \in S : <<m, n>> \notin OpToRel(<, Nat)
  <2>1. S \subseteq Nat
    OBVIOUS
  <2>. QED
    BY <1>1, <2>1, WFMin
<1>3. ASSUME NEW m \in S PROVE n <= m
  <2>1. m \in Nat /\ n \in Nat
    OBVIOUS
  <2>2. ASSUME m < n PROVE FALSE
    <3>1. <<m, n>> \in OpToRel(<, Nat)
      BY <2>1, <2>2 DEF OpToRel
    <3>. QED
      BY <1>2, <3>1
  <2>. QED
    BY <2>1, <2>2
<1>. QED
  BY <1>3 DEF Min

LEMMA StackableIs ==
    ASSUME NEW s \in States, NEW c \in Container, NEW x
    PROVE  \/ Stackable(s, c, x) = 0
           \/ /\ Stackable(s, c, x) \in 1..Len(s.itemlist[c])
              /\ LET y == s.itemlist[c][Stackable(s, c, x)]
                 IN  y # x /\ y \in Stack /\ x \in Stack /\ s.count[y] < Full
<1>. DEFINE list == s.itemlist[c]
            found == {k \in DOMAIN list : list[k] # x /\ Equals(list[k], x) /\ s.count[list[k]] < Full}
<1>1. Len(list) \in Nat /\ DOMAIN list = 1..Len(list)
  BY Sizes
<1>2. Stackable(s, c, x) = IF found = {} THEN 0 ELSE Min(found)
  BY DEF Stackable
<1>3. found # {} => Min(found) \in found
  <2>1. \A k \in found : k \in Nat
    BY <1>1
  <2>. HIDE DEF found
  <2>. QED
    BY <2>1, MinIn
<1>. QED
  BY <1>1, <1>2, <1>3 DEF Equals

LEMMA DestinationIs ==
    ASSUME NEW c \in Holder, NEW i \in Int, i >= -1, NEW y \in Thing \cup {None}
    PROVE  /\ Destination(c, i, y) \in Destinations
           /\ Destination(c, i, y).to = c /\ Destination(c, i, y).index = i
           /\ Destination(c, i, y).item = y
BY DEF Destination, Destinations

LEMMA TileHop ==
    ASSUME NEW s, Good(s), NEW d, Start(d) \/ Aim(s, d), d.to \in Tile
    PROVE  Aim(s, TileDestination(s, d))
<1>0. s \in States /\ Tree(s) /\ d \in Destinations /\ d.to \notin Player /\ d.to \notin Container
  BY Disjoint DEF Good, Tree, Start, Aim
<1>. DEFINE list == s.itemlist[d.to]
<1>1. CASE list = << >>
  <2>1. TileDestination(s, d) = d
    BY <1>1 DEF TileDestination
  <2>2. Start(d) => d.item \notin Stack
    BY Disjoint DEF Start
  <2>. QED
    BY <1>0, <2>1, <2>2 DEF Aim
<1>2. CASE list # << >>
  <2>. DEFINE e == TileDestination(s, d)
  <2>1. e = [d EXCEPT !.item = Head(list)]
    BY <1>2 DEF TileDestination
  <2>2. 1 \in 1..Len(list) /\ Head(list) = list[1]
    <3>1. list \in Seq(Thing)
      BY <1>0, StateTypes
    <3>. QED
      BY <1>2, <3>1
  <2>3. Head(list) \in Thing /\ s.parent[Head(list)] = d.to
    BY <1>0, <2>2, InList
  <2>. HIDE DEF list
  <2>4. e \in Destinations /\ e.to = d.to /\ e.item = Head(list)
    BY <1>0, <2>1, <2>3 DEF Destinations
  <2>. HIDE DEF e
  <2>5. d.to # None /\ e.to \notin Player /\ e.to \notin Container
    BY <1>0, <2>4, Disjoint
  <2>6. Aim(s, e)
    BY <2>3, <2>4, <2>5 DEF Aim
  <2>. QED
    BY <2>6 DEF e
<1>. QED
  BY <1>1, <1>2

\* Where the list has something at i, y is that.
LEMMA AimIn ==
    ASSUME NEW s, Good(s), NEW c \in Container, NEW i \in Int, i >= -1, NEW y \in Thing \cup {None},
           y \in Stack => s.parent[y] = c /\ i <= Len(s.itemlist[c]),
           i \in 0..(Len(s.itemlist[c]) - 1) => y = s.itemlist[c][i + 1],
           i >= Capacity => Len(s.itemlist[c]) >= Capacity
    PROVE  Aim(s, Destination(c, i, y))
<1>1. c \in Holder /\ c \notin Player /\ c # None
  BY Disjoint DEF Holder
<1>. QED
  BY <1>1, DestinationIs DEF Aim

LEMMA ContainerHop ==
    ASSUME NEW s, Good(s), NEW d, Start(d) \/ Aim(s, d), d.to \in Container, NEW x
    PROVE  Aim(s, ContainerDestination(s, d, x))
<1>. DEFINE c == d.to
            list == s.itemlist[c]
            i == IF d.index >= Capacity THEN -1 ELSE d.index
            y == IF i # -1 /\ i < Len(list) THEN list[i + 1] ELSE d.item
            k == Stackable(s, c, x)
<1>0. /\ s \in States /\ Tree(s) /\ d \in Destinations /\ c \in Container
      /\ c \notin Player /\ c # None /\ None \notin Stack /\ None \notin Container
      /\ d.index \in Int /\ d.index >= -1 /\ d.item \in Thing \cup {None}
  BY Disjoint DEF Good, Tree, Start, Aim, Destinations
<1>1. i \in Int /\ i >= -1 /\ i < Capacity
  BY <1>0, Numbers
<1>2. Len(list) \in Nat
  BY <1>0, Sizes
<1>3. i # -1 /\ i < Len(list) => i + 1 \in 1..Len(list)
  BY <1>1, <1>2
<1>4. y \in Thing \cup {None}
  BY <1>0, <1>3, InList
<1>5. y \in Container => y \in Thing
  BY Disjoint
<1>6. ContainerDestination(s, d, x) =
        IF d.index = 254 THEN Destination(s.parent[c], -1, d.item)
        ELSE IF i # -1 /\ y \in Container THEN Destination(y, -1, y)
        ELSE IF \/ x \notin Stack \/ s.parent[x] = c \/ k = 0
                \/ Equals(x, y) /\ s.count[y] < Full
        THEN Destination(c, i, y)
        ELSE Destination(c, k - 1, list[k])
  BY DEF ContainerDestination, MOVE_UP, INDEX_WHEREEVER
<1>7. d.item \in Stack => /\ s.parent[d.item] # None
                          /\ Snug(s) => s.parent[d.item] = c
                          /\ d.index <= Len(list)
  BY <1>0 DEF Start, Aim
<1>8. Aim(s, Destination(s.parent[c], -1, d.item)) \/ d.index # 254
  <2>. SUFFICES ASSUME d.index = 254 PROVE Aim(s, Destination(s.parent[c], -1, d.item))
    OBVIOUS
  <2>1. s.parent[c] \in Holder
    BY <1>0, StateTypes, Disjoint DEF Good, Placed, Where
  <2>2. Snug(s) => d.item \notin Stack
    BY <1>0, <1>2, <1>7, Numbers DEF Snug
  <2>3. -1 \notin Slot /\ ~(-1 >= Capacity) /\ \A n \in Nat : -1 \notin 0..(n - 1) /\ -1 <= n
    BY Numbers
  <2>. DEFINE e == Destination(s.parent[c], -1, d.item)
  <2>4. e \in Destinations /\ e.to = s.parent[c] /\ e.index = -1 /\ e.item = d.item
    <3>1. -1 \in Int /\ -1 >= -1
      OBVIOUS
    <3>. QED
      BY <1>0, <2>1, <3>1, DestinationIs
  <2>. HIDE DEF e
  <2>5. s.parent[c] \in Container => Len(s.itemlist[s.parent[c]]) \in Nat
    BY <1>0, Sizes
  <2>. HIDE DEF c, list
  <2>6. Aim(s, e)
    BY <1>7, <2>2, <2>3, <2>4, <2>5 DEF Aim
  <2>. QED
    BY <2>6 DEF e
<1>9. y \in Container => Aim(s, Destination(y, -1, y))
  <2>. HIDE DEF y
  <2>. SUFFICES ASSUME y \in Container PROVE Aim(s, Destination(y, -1, y))
    OBVIOUS
  <2>1. y \in Thing /\ y \notin Stack /\ -1 \in Int
    BY Disjoint
  <2>2. ~(-1 >= Capacity) /\ -1 \notin 0..(Len(s.itemlist[y]) - 1) /\ -1 >= -1
    BY <1>0, Sizes, Numbers
  <2>. QED
    BY <2>1, <2>2, AimIn
<1>10. Aim(s, Destination(c, i, y)) \/ d.index = 254
  <2>. SUFFICES ASSUME d.index # 254 PROVE Aim(s, Destination(c, i, y))
    OBVIOUS
  <2>. DEFINE e == Destination(c, i, y)
  <2>1. e \in Destinations /\ e.to = c /\ e.index = i /\ e.item = y
    <3>1. c \in Holder
      BY <1>0 DEF Holder
    <3>. HIDE DEF c, i, y, list
    <3>. QED
      BY <1>1, <1>4, <3>1, DestinationIs
  <2>2. i \in 0..(Len(list) - 1) => y = list[i + 1]
    BY <1>1, <1>2
  <2>3. ASSUME y \in Stack PROVE s.parent[y] # None /\ (Snug(s) => s.parent[y] = c) /\ i <= Len(list)
    <3>1. CASE i # -1 /\ i < Len(list)
      <4>1. y = list[i + 1] /\ s.parent[list[i + 1]] = c
        BY <1>0, <1>3, <3>1, InList
      <4>. QED
        BY <1>0, <1>1, <1>2, <3>1, <4>1
    <3>2. CASE ~(i # -1 /\ i < Len(list))
      <4>1. y = d.item
        BY <3>2
      <4>2. i <= Len(list)
        BY <1>0, <1>2, <1>7, <2>3, <4>1
      <4>. HIDE DEF y
      <4>. QED
        BY <1>7, <2>3, <4>1, <4>2
    <3>. QED
      BY <3>1, <3>2
  <2>4. ~(i >= Capacity)
    BY <1>1, Numbers
  <2>. HIDE DEF e, i, y, list, c
  <2>5. Aim(s, e)
    BY <1>0, <2>1, <2>2, <2>3, <2>4 DEF Aim, list
  <2>. QED
    BY <2>5 DEF e
<1>11. k # 0 => Aim(s, Destination(c, k - 1, list[k]))
  <2>. SUFFICES ASSUME k # 0 PROVE Aim(s, Destination(c, k - 1, list[k]))
    OBVIOUS
  <2>1. k \in 1..Len(list)
    BY <1>0, StackableIs
  <2>. HIDE DEF k
  <2>2. /\ k - 1 \in Int /\ k - 1 >= -1 /\ k - 1 + 1 = k /\ k - 1 <= Len(list)
        /\ k - 1 >= Capacity => Len(list) >= Capacity
    BY <1>2, <2>1, Numbers
  <2>3. list[k] \in Thing /\ s.parent[list[k]] = c
    BY <1>0, <2>1, InList
  <2>. DEFINE z == list[k]
              j == k - 1
  <2>4. j \in 0..(Len(list) - 1) => z = list[j + 1]
    BY <2>2
  <2>5. /\ j \in Int /\ j >= -1 /\ j <= Len(list) /\ (j >= Capacity => Len(list) >= Capacity)
        /\ z \in Thing /\ s.parent[z] = c
    BY <2>2, <2>3
  <2>. HIDE DEF z, j
  <2>6. Aim(s, Destination(c, j, z))
    <3>. HIDE DEF c
    <3>. QED
      BY <1>0, <2>4, <2>5, AimIn
  <2>. QED
    BY <2>6 DEF z, j
<1>. HIDE DEF c, list, i, y, k
<1>. QED
  BY <1>6, <1>8, <1>9, <1>10, <1>11

LEMMA PlaceInBagsAim ==
    ASSUME NEW s, Good(s), NEW d \in Destinations, d.to \in Player, d.index \notin Slot,
           NEW x, NEW bags \in Seq(Container)
    PROVE  Aim(s, PlaceInBags(s, d, x, bags))
<1>. DEFINE open == {k \in DOMAIN bags :
                     \/ Stackable(s, bags[k], x) # 0
                     \/ /\ Len(s.itemlist[bags[k]]) < Capacity
                        /\ ContainerQueryAdd(s, bags[k], Len(s.itemlist[bags[k]]), x, ItemCount(s, x))}
            b == bags[Min(open)]
            n == Len(s.itemlist[b])
            k == Stackable(s, b, x)
            y == IF k # 0 THEN s.itemlist[b][k] ELSE None
<1>0. s \in States /\ Tree(s) /\ None \notin Stack /\ d.to \in Holder /\ d.to \notin Container
  BY Disjoint DEF Good, Tree, Holder
<1>1. PlaceInBags(s, d, x, bags) = IF open = {} THEN Destination(d.to, d.index, None)
                                   ELSE Destination(b, n, y)
  BY DEF PlaceInBags
<1>2. CASE open = {}
  <2>1. d.index \in Int /\ d.index >= -1 /\ None \in Thing \cup {None}
    BY DEF Destinations
  <2>2. Aim(s, Destination(d.to, d.index, None))
    BY <1>0, <2>1, DestinationIs DEF Aim
  <2>. QED
    BY <1>1, <1>2, <2>2
<1>3. CASE open # {}
  <2>1. DOMAIN bags = 1..Len(bags) /\ Len(bags) \in Nat
    OBVIOUS
  <2>2. Min(open) \in open
    <3>1. \A j \in open : j \in Nat
      BY <2>1
    <3>. HIDE DEF open
    <3>. QED
      BY <1>3, <3>1, MinIn
  <2>3. b \in Container
    <3>1. Min(open) \in DOMAIN bags
      BY <2>2
    <3>. HIDE DEF open
    <3>. QED
      BY <2>1, <3>1
  <2>. HIDE DEF b
  <2>4. n \in Nat
    BY <1>0, <2>3, Sizes
  <2>5. k # 0 => k \in 1..n
    BY <1>0, <2>3, StackableIs
  <2>. HIDE DEF k
  <2>6. /\ y \in Thing \cup {None}
        /\ y \in Stack => s.parent[y] = b
    BY <1>0, <2>3, <2>5, InList
  <2>7. Aim(s, Destination(b, n, y))
    <3>. DEFINE l == s.itemlist[b]
    <3>1. n = Len(l) /\ n \in Int /\ n >= -1 /\ n \notin 0..(Len(l) - 1) /\ n <= Len(l)
          /\ (n >= Capacity => Len(l) >= Capacity)
      BY <2>4, Numbers
    <3>. HIDE DEF y, n
    <3>. QED
      BY <2>3, <2>6, <3>1, AimIn
  <2>. QED
    BY <1>1, <1>3, <2>7 DEF k
<1>. QED
  BY <1>2, <1>3

LEMMA SlotAim ==
    ASSUME NEW s, Good(s), NEW p \in Player, NEW i \in Slot
    PROVE  Aim(s, Destination(p, i, s.inventory[p][i]))
<1>0. s \in States /\ Tree(s) /\ None \notin Stack /\ p \in Holder /\ p \notin Container /\ p # None
  BY Disjoint DEF Good, Tree, Holder
<1>1. i \in Int /\ i >= -1
  BY Numbers
<1>. DEFINE y == s.inventory[p][i]
            d == Destination(p, i, y)
<1>2. y \in Thing \cup {None}
  BY <1>0, StateTypes
<1>3. y \in Stack => s.parent[y] = p
  BY <1>0, InSlot
<1>4. d \in Destinations /\ d.to = p /\ d.index = i /\ d.item = y
  <2>. HIDE DEF y
  <2>. QED
    BY <1>0, <1>1, <1>2, DestinationIs
<1>5. Aim(s, d)
  <2>. HIDE DEF d
  <2>. QED
    BY <1>0, <1>3, <1>4 DEF Aim
<1>. QED
  BY <1>5

LEMMA PlaceForAim ==
    ASSUME NEW s, Good(s), NEW d \in Destinations, d.to \in Player, d.index \notin Slot, NEW x
    PROVE  Aim(s, PlaceFor(s, d, x))
<1>. DEFINE worn == s.inventory[d.to]
            slots == {i \in Slot : /\ worn[i] # x
                                   /\ worn[i] = None \/ (Equals(worn[i], x) /\ s.count[worn[i]] < Full)
                                   /\ PlayerQueryAdd(s, d.to, i, x, ItemCount(s, x)) = "ok"}
<1>1. PlaceFor(s, d, x) = IF slots # {} THEN Destination(d.to, Min(slots), worn[Min(slots)])
                          ELSE PlaceInBags(s, d, x, Bags(s, d.to, x))
  BY DEF PlaceFor
<1>2. slots # {} => Min(slots) \in Slot
  <2>1. slots \subseteq Slot /\ \A i \in slots : i \in Nat
    BY Numbers
  <2>. HIDE DEF slots
  <2>. QED
    BY <2>1, MinIn
<1>. HIDE DEF slots
<1>3. slots # {} => Aim(s, Destination(d.to, Min(slots), worn[Min(slots)]))
  BY <1>2, SlotAim
<1>4. s \in States
  BY DEF Good, Tree
<1>5. Aim(s, PlaceInBags(s, d, x, Bags(s, d.to, x)))
  BY <1>4, BagsAre, PlaceInBagsAim
<1>. QED
  BY <1>1, <1>3, <1>5

LEMMA PlayerHop ==
    ASSUME NEW s, Good(s), NEW d, Start(d) \/ Aim(s, d), d.to \in Player, NEW x
    PROVE  Aim(s, PlayerDestination(s, d, x))
<1>. DEFINE y == IF d.index \in Slot THEN s.inventory[d.to][d.index] ELSE None
<1>0. /\ s \in States /\ Tree(s) /\ d \in Destinations /\ d.to \notin Container
      /\ d.to \in Holder /\ None \notin Container /\ None \notin Stack
  BY Disjoint DEF Good, Tree, Start, Aim, Holder
<1>1. PlayerDestination(s, d, x) =
        IF d.index \in {0, -1} THEN PlaceFor(s, d, x)
        ELSE IF y \in Container THEN Destination(y, -1, None)
        ELSE IF y # None THEN [d EXCEPT !.item = y]
        ELSE d
  BY DEF PlayerDestination, CAPACITY_WINDOW, INDEX_WHEREEVER
<1>2. CASE d.index \in {0, -1}
  <2>1. d.index \notin Slot
    BY <1>2, Numbers
  <2>. QED
    BY <1>0, <1>1, <1>2, <2>1, PlaceForAim
<1>3. CASE d.index \notin {0, -1} /\ y \in Container
  <2>1. Aim(s, Destination(y, -1, None))
    <3>. HIDE DEF y
    <3>1. -1 \in Int /\ -1 >= -1 /\ None \in Thing \cup {None}
      OBVIOUS
    <3>2. ~(-1 >= Capacity) /\ -1 \notin 0..(Len(s.itemlist[y]) - 1)
      BY <1>0, <1>3, Sizes, Numbers
    <3>. QED
      BY <1>0, <1>3, <3>1, <3>2, AimIn
  <2>. QED
    BY <1>1, <1>3, <2>1
<1>4. CASE d.index \notin {0, -1} /\ y \notin Container /\ y # None
  <2>1. d.index \in Slot /\ y = s.inventory[d.to][d.index]
    BY <1>4
  <2>2. [d EXCEPT !.item = y] = Destination(d.to, d.index, y)
    BY <1>0 DEF Destination, Destinations
  <2>. QED
    BY <1>1, <1>4, <2>1, <2>2, SlotAim
<1>5. CASE d.index \notin {0, -1} /\ y = None
  <2>1. PlayerDestination(s, d, x) = d
    BY <1>0, <1>1, <1>5
  <2>2. Start(d) => Aim(s, d)
    BY <1>0, <1>5 DEF Start, Aim
  <2>. QED
    BY <2>1, <2>2
<1>. QED
  BY <1>2, <1>3, <1>4, <1>5

LEMMA Hop ==
    ASSUME NEW s, Good(s), NEW d, Start(d) \/ Aim(s, d), NEW x
    PROVE  Aim(s, QueryDestination(s, d, x))
<1>1. d.to \in Container \cup Tile \cup Player
  BY DEF Start, Aim, Destinations, Holder
<1>2. CASE d.to \in Tile
  BY <1>2, TileHop DEF QueryDestination
<1>3. CASE d.to \in Player
  <2>1. d.to \notin Tile
    BY <1>3, Disjoint
  <2>. QED
    BY <1>3, <2>1, PlayerHop DEF QueryDestination
<1>4. CASE d.to \in Container
  <2>1. d.to \notin Tile /\ d.to \notin Player
    BY <1>4, Disjoint
  <2>. QED
    BY <1>4, <2>1, ContainerHop DEF QueryDestination
<1>. QED
  BY <1>1, <1>2, <1>3, <1>4

LEMMA SettledAim ==
    ASSUME NEW s, Good(s), NEW c \in Holder, NEW i \in Int, i >= -1, NEW x
    PROVE  Aim(s, Settled(s, c, i, x))
<1>. DEFINE M == Cardinality(Container) + 2
            start == Destination(c, i, None)
            Is(hop) == hop = [k \in 0..M |-> IF k = 0 THEN start ELSE QueryDestination(s, hop[k - 1], x)]
            h == CHOOSE hop : Is(hop)
            B == {d \in Destinations : Start(d) \/ Aim(s, d)}
            op == [a \in (0..M) \X B |-> QueryDestination(s, a[2], x)]
<1>0. M \in Nat /\ M >= 2
  BY Finite
<1>1. start \in B
  <2>1. None \in Thing \cup {None}
    OBVIOUS
  <2>. HIDE DEF B
  <2>2. start \in Destinations /\ start.item = None
    BY <2>1, DestinationIs
  <2>. QED
    BY <2>2 DEF B, Start
<1>2. \A d \in B : QueryDestination(s, d, x) \in B /\ Aim(s, QueryDestination(s, d, x))
  <2>1. \A d \in B : Aim(s, QueryDestination(s, d, x))
    BY Hop
  <2>. QED
    BY <2>1 DEF Aim
<1>. HIDE DEF B
<1>3. PICK f : BuildsUp(f, start, op, M, B)
  <2>1. op \in [(0..M) \X B -> B]
    <3>. HIDE DEF M
    <3>. QED
      BY <1>2
  <2>. HIDE DEF op, start, M
  <2>. QED
    BY <1>0, <1>1, <2>1, BuildsIn
<1>4. /\ f \in [0..M -> B] /\ f[0] = start
      /\ \A n \in 1..M : f[n - 1] \in B /\ f[n] = QueryDestination(s, f[n - 1], x)
  <2>1. ASSUME NEW n \in 1..M PROVE f[n - 1] \in B /\ f[n] = QueryDestination(s, f[n - 1], x)
    <3>1. n \in 0..M /\ n - 1 \in 0..M
      BY <1>0
    <3>2. f[n - 1] \in B /\ f[n] = op[<<n, f[n - 1]>>]
      <4>. HIDE DEF M, op
      <4>. QED
        BY <1>3, <3>1 DEF BuildsUp
    <3>. HIDE DEF M
    <3>. QED
      BY <3>1, <3>2
  <2>. HIDE DEF M, op, start
  <2>. QED
    BY <1>3, <2>1 DEF BuildsUp
<1>5. Is(f)
  <2>1. ASSUME NEW k \in 0..M PROVE f[k] = IF k = 0 THEN start ELSE QueryDestination(s, f[k - 1], x)
    <3>1. k # 0 => k \in 1..M
      BY <1>0
    <3>. HIDE DEF M, start
    <3>. QED
      BY <1>4, <3>1
  <2>2. f = [k \in 0..M |-> f[k]]
    <3>. HIDE DEF M, start
    <3>. QED
      BY <1>4
  <2>. HIDE DEF M, start
  <2>. QED
    BY <2>1, <2>2
<1>6. Is(h)
  <2>. HIDE DEF Is
  <2>. QED
    BY <1>5
<1>7. Settled(s, c, i, x) = h[M]
  BY DEF Settled
<1>. HIDE DEF h
\* The two are equal, being built alike.
<1>8. \A n \in 0..M : h[n] = f[n]
  <2>. DEFINE G == {n \in 0..M : h[n] = f[n]}
  <2>0. \A k \in 0..M : h[k] = IF k = 0 THEN start ELSE QueryDestination(s, h[k - 1], x)
    <3>. HIDE DEF M, start
    <3>. QED
      BY <1>6
  <2>1. 0 \in G
    BY <1>0, <1>4, <2>0
  <2>2. ASSUME NEW n \in 0..M, n \in G, n # M PROVE n + 1 \in G
    <3>1. n + 1 \in 1..M /\ n + 1 - 1 = n /\ n + 1 # 0 /\ n + 1 \in 0..M
      BY <1>0, <2>2
    <3>2. h[n + 1] = QueryDestination(s, h[n], x) /\ h[n] = f[n]
      <4>. HIDE DEF M, start
      <4>. QED
        BY <2>0, <2>2, <3>1
    <3>3. f[n + 1] = QueryDestination(s, f[n], x)
      <4>. HIDE DEF M, start
      <4>. QED
        BY <1>4, <3>1
    <3>. QED
      BY <3>1, <3>2, <3>3
  <2>3. \A n \in 0..M : n \in G
    <3>. HIDE DEF G, M
    <3>. QED
      BY <1>0, <2>1, <2>2, UpTo
  <2>. QED
    BY <2>3
<1>9. M \in 1..M /\ M \in 0..M
  BY <1>0
<1>10. f[M - 1] \in B /\ f[M] = QueryDestination(s, f[M - 1], x) /\ h[M] = f[M]
  <2>. HIDE DEF M, start
  <2>. QED
    BY <1>4, <1>8, <1>9
<1>11. Aim(s, f[M])
  <2>. HIDE DEF M
  <2>. QED
    BY <1>2, <1>10
<1>. QED
  BY <1>7, <1>10, <1>11

-----------------------------------------------------------------------------
(* A move, step by step.                                                   *)

\* Only some of the stack x.
Part(s, x, m) == x \in Stack /\ m # s.count[x]

\* m of x, which is in from, can go to d; what is not merged has its place there.
Possible(s, from, d, x, m) ==
    /\ x \in Thing /\ from \in Holder /\ s.parent[x] = from
    /\ d \in Destinations /\ d.item # x
    /\ d.item \in Stack => s.parent[d.item] # None /\ (Snug(s) => s.parent[d.item] = d.to)
    /\ x \notin Chain(s, d.to)
    /\ m \in 1..ItemCount(s, x)
    /\ Merging(s, d, x, m) # m =>
          /\ d.to \in Player => d.index \in Slot /\ s.inventory[d.to][d.index] = None
          /\ d.to \in Container => d.index < Capacity
          /\ Part(s, x, m) => \E y \in Stack : s.parent[y] = None

\* What s and r, after x was taken out of s or only some of it, have in common.
Removed(s, r, x, m) ==
    /\ \A y \in Thing : r.parent[y] = IF y = x /\ ~Part(s, x, m) THEN None ELSE s.parent[y]
    /\ \A y \in Stack : r.count[y] = IF y = x /\ Part(s, x, m) THEN s.count[y] - m ELSE s.count[y]
    /\ \A c : x \notin Chain(s, c) => Chain(r, c) = Chain(s, c)
    /\ \A b \in Container \cup Tile :
          Len(r.itemlist[b]) = IF b = s.parent[x] /\ ~Part(s, x, m) THEN Len(s.itemlist[b]) - 1
                               ELSE Len(s.itemlist[b])
    /\ \A p \in Player, i \in Slot :
          r.inventory[p][i] = IF s.inventory[p][i] = x /\ ~Part(s, x, m) THEN None
                              ELSE s.inventory[p][i]
    /\ r.position = s.position /\ SameKept(s, r)

LEMMA StackCount ==
    ASSUME NEW s, Good(s), NEW x \in Thing
    PROVE  x \in Stack /\ s.parent[x] # None => s.count[x] \in 1..Full
BY DEF Good, Counted

LEMMA RemovedIs ==
    ASSUME NEW s, Good(s), NEW x \in Thing, NEW c \in Holder, s.parent[x] = c, NEW m \in Int,
           NEW r, r = RemoveThing(s, c, x, m)
    PROVE  Tree(r) /\ Removed(s, r, x, m)
<1>0. s \in States /\ Tree(s) /\ Agrees(s)
  BY DEF Good, Tree
<1>1. CASE Part(s, x, m)
  <2>1. r = UpdateThing(s, c, x, s.count[x] - m) /\ x \in Stack
    BY <1>1, RemoveSome DEF Part
  <2>2. s.count[x] \in Int /\ s.count[x] - m \in Int
    BY <1>0, <2>1, StateTypes
  <2>. DEFINE n == s.count[x] - m
  <2>. HIDE DEF n
  <2>3. Tree(r) /\ SamePlaces(s, r) /\ SameKept(s, r)
        /\ \A y \in Stack : r.count[y] = IF y = x THEN n ELSE s.count[y]
    <3>1. n \in Int /\ r = UpdateThing(s, c, x, n)
      BY <2>1, <2>2 DEF n
    <3>2. Updated(s, r, c, x, n)
      BY <1>0, <2>1, <3>1, UpdateTree
    <3>. QED
      BY <3>2 DEF Updated
  <2>5. r.parent = s.parent /\ r.itemlist = s.itemlist /\ r.inventory = s.inventory
        /\ r.position = s.position
    BY <2>3 DEF SamePlaces
  <2>6. \A b : Chain(r, b) = Chain(s, b)
    BY <2>5, ChainParents
  <2>. QED
    BY <1>1, <2>3, <2>5, <2>6 DEF Removed, n
<1>2. CASE ~Part(s, x, m)
  <2>1. Tree(r) /\ TakenOut(s, r, x, c)
    BY <1>0, <1>2, RemoveTree DEF Part
  <2>2. \A y \in Thing : r.parent[y] = IF y = x THEN None ELSE s.parent[y]
    BY <1>0, <2>1 DEF TakenOut, States
  <2>3. ASSUME NEW b, x \notin Chain(s, b) PROVE Chain(r, b) = Chain(s, b)
    <3>1. \A a \in Chain(s, b) \cap Container : r.parent[a] = s.parent[a]
      BY <2>2, <2>3, Disjoint
    <3>. QED
      BY <3>1, ChainSame
  <2>4. ASSUME NEW b \in Container \cup Tile
        PROVE  Len(r.itemlist[b]) = IF b = c THEN Len(s.itemlist[b]) - 1 ELSE Len(s.itemlist[b])
    <3>1. CASE b = c
      <4>1. Lists(s.itemlist[b], Kids(s, b)) /\ x \in Kids(s, b)
        BY <1>0, <3>1 DEF Agrees, Kids
      <4>2. r.itemlist[b] = RemoveFirst(s.itemlist[b], x)
        BY <2>1, <3>1 DEF TakenOut
      <4>. DEFINE l == s.itemlist[b]
                  A == Kids(s, b)
      <4>3. Lists(l, A) /\ x \in A
        BY <4>1
      <4>. HIDE DEF l, A
      <4>4. Len(RemoveFirst(l, x)) = Len(l) - 1
        BY <4>3, RemovedLists
      <4>. QED
        BY <3>1, <4>2, <4>4 DEF l
    <3>2. CASE b # c
      BY <2>1, <3>2 DEF TakenOut
    <3>. QED
      BY <3>1, <3>2
  <2>5. ASSUME NEW p \in Player, NEW i \in Slot
        PROVE  r.inventory[p][i] = IF s.inventory[p][i] = x THEN None ELSE s.inventory[p][i]
    <3>1. r.inventory[p][i] = IF p = c /\ s.inventory[p][i] = x THEN None ELSE s.inventory[p][i]
      BY <2>1 DEF TakenOut
    <3>2. s.inventory[p][i] = x => p = c
      BY <1>0, InSlot, Disjoint
    <3>. QED
      BY <3>1, <3>2
  <2>6. r.count = s.count /\ r.position = s.position /\ SameKept(s, r)
    BY <2>1 DEF TakenOut
  <2>. QED
    BY <1>2, <2>1, <2>2, <2>3, <2>4, <2>5, <2>6 DEF Removed
<1>. QED
  BY <1>1, <1>2

\* Chains go through containers, tiles and players only.
LEMMA ChainHolder ==
    ASSUME NEW s \in States, NEW c \in Where, NEW y \in Stack \cup Plain
    PROVE  y \notin Chain(s, c)
<1>1. y \notin {c} \cup Where
  BY Disjoint DEF Where, Holder
<1>. QED
  BY <1>1, ChainIn

LEMMA FreshIs ==
    ASSUME NEW s, \E y \in Stack : s.parent[y] = None
    PROVE  Fresh(s) \in Stack /\ s.parent[Fresh(s)] = None
BY DEF Fresh

\* The count of a stack that is nowhere
LEMMA CountTree ==
    ASSUME NEW s, Tree(s), NEW y \in Stack, NEW n \in Int, NEW t, t = [s EXCEPT !.count[y] = n]
    PROVE  /\ Tree(t) /\ SamePlaces(s, t) /\ SameKept(s, t) /\ t.totalWeight = s.totalWeight
           /\ \A z \in Stack : t.count[z] = IF z = y THEN n ELSE s.count[z]
<1>1. s \in States
  BY DEF Tree
<1>2. t \in States /\ SamePlaces(s, t) /\ SameKept(s, t) /\ t.totalWeight = s.totalWeight
      /\ \A z \in Stack : t.count[z] = IF z = y THEN n ELSE s.count[z]
  BY <1>1 DEF States, SamePlaces, SameKept
<1>. QED
  BY <1>2, SameTree

-----------------------------------------------------------------------------
(* What is open, and how many pieces there are.                            *)

LEMMA SameReach ==
    ASSUME NEW s, NEW t, SamePlaces(s, t)
    PROVE  /\ \A c : Chain(t, c) = Chain(s, c) /\ Top(t, c) = Top(s, c)
           /\ \A c : HoldingPlayer(t, c) = HoldingPlayer(s, c) /\ TileOf(t, c) = TileOf(s, c)
           /\ \A q, x : OutOfReach(t, q, x) <=> OutOfReach(s, q, x)
<1>1. t.parent = s.parent /\ t.position = s.position
  BY DEF SamePlaces
<1>2. \A c : Chain(t, c) = Chain(s, c) /\ Top(t, c) = Top(s, c)
  BY <1>1, SameChains
<1>3. ASSUME NEW c PROVE HoldingPlayer(t, c) = HoldingPlayer(s, c)
  <2>1. Chain(t, c) = Chain(s, c)
    BY <1>2
  <2>. QED
    BY <2>1 DEF HoldingPlayer
<1>4. ASSUME NEW c PROVE TileOf(t, c) = TileOf(s, c)
  <2>1. Chain(t, c) = Chain(s, c) /\ HoldingPlayer(t, c) = HoldingPlayer(s, c)
    BY <1>2, <1>3
  <2>. QED
    BY <1>1, <2>1 DEF TileOf
<1>. QED
  BY <1>1, <1>2, <1>3, <1>4 DEF OutOfReach

\* Who is told that something is gone from c.
Told(s, c) == IF HoldingPlayer(s, c) = None THEN Player ELSE {HoldingPlayer(s, c)}

\* What q has open when x is where it is in t and came from a cylinder whose players are told.
Opened(s, t, told, x) ==
    \A q \in Player :
        t.openContainers[q] = IF x \in Container /\ q \in told /\ OutOfReach(t, q, x)
                              THEN {c \in s.openContainers[q] : x \notin Chain(t, c)}
                              ELSE s.openContainers[q]

LEMMA PostRemoveOpens ==
    ASSUME NEW s, Tree(s), NEW c, NEW x, NEW t, t = PostRemoveNotification(s, c, x)
    PROVE  Opened(s, t, Told(s, c), x)
<1>1. s \in States
  BY DEF Tree
<1>. DEFINE p == HoldingPlayer(s, c)
            told == IF p = None THEN Player ELSE {p}
            u == IF p = None THEN s ELSE UpdateInventoryWeight(s, p)
<1>2. u \in States /\ SamePlaces(s, u) /\ u.openContainers = s.openContainers
  <2>1. CASE p = None
    BY <1>1, <2>1 DEF SamePlaces
  <2>2. CASE p # None
    <3>1. p \in Player
      BY <2>2, HoldingPlayerType
    <3>. HIDE DEF p
    <3>. QED
      BY <1>1, <2>2, <3>1, InventoryWeightTree
  <2>. QED
    BY <2>1, <2>2
<1>3. t = IF x \in Container THEN CloseWindows(u, told, x) ELSE u
  BY DEF PostRemoveNotification
<1>4. told = Told(s, c)
  BY DEF Told
<1>. HIDE DEF u, told
<1>5. CASE x \notin Container
  BY <1>2, <1>3, <1>5 DEF Opened
<1>6. CASE x \in Container
  <2>1. /\ SamePlaces(u, t)
        /\ \A q \in Player :
                 t.openContainers[q] = IF q \in told /\ OutOfReach(u, q, x)
                                       THEN AutoCloseContainers(u, q, x) ELSE u.openContainers[q]
    BY <1>2, <1>3, <1>6, CloseTree
  <2>2. /\ \A q : OutOfReach(t, q, x) <=> OutOfReach(u, q, x)
        /\ \A b : Chain(t, b) = Chain(u, b)
    BY <2>1, SameReach
  <2>3. ASSUME NEW q \in Player
        PROVE  AutoCloseContainers(u, q, x) = {b \in s.openContainers[q] : x \notin Chain(t, b)}
    BY <1>2, <2>2 DEF AutoCloseContainers
  <2>. QED
    BY <1>2, <1>4, <1>6, <2>1, <2>2, <2>3 DEF Opened
<1>. QED
  BY <1>5, <1>6

-----------------------------------------------------------------------------

Piece(s, x) == IF s.parent[x] = None THEN 0 ELSE s.count[x]
Pieces(s) == SumFunction([x \in Stack |-> Piece(s, x)])

LEMMA PiecesType ==
    ASSUME NEW s \in States
    PROVE  Pieces(s) \in Int /\ \A x \in Stack : Piece(s, x) \in Int
<1>1. \A x \in Stack : Piece(s, x) \in Int
  BY StateTypes DEF Piece
<1>. DEFINE f == [x \in Stack |-> Piece(s, x)]
<1>2. f \in [Stack -> Int]
  BY <1>1
<1>. HIDE DEF f
<1>3. SumFunction(f) \in Int
  BY <1>2, Finite, SumType
<1>. QED
  BY <1>1, <1>3 DEF Pieces, f

LEMMA PiecesOther ==
    ASSUME NEW s \in States, NEW t \in States, NEW x \in Stack,
           \A y \in Stack : y # x => Piece(t, y) = Piece(s, y)
    PROVE  Pieces(t) = Pieces(s) + (Piece(t, x) - Piece(s, x))
<1>. DEFINE f == [y \in Stack |-> Piece(s, y)]
            g == [y \in Stack |-> Piece(t, y)]
<1>1. f \in [Stack -> Int] /\ g \in [Stack -> Int]
  BY PiecesType
<1>2. \A y \in Stack \ {x} : g[y] = f[y]
  OBVIOUS
<1>3. g[x] = Piece(t, x) /\ f[x] = Piece(s, x)
  OBVIOUS
<1>. HIDE DEF f, g
<1>4. SumFunction(g) = SumFunction(f) + (g[x] - f[x])
  BY <1>1, <1>2, Finite, SumOther
<1>. QED
  BY <1>3, <1>4 DEF Pieces, f, g

LEMMA PiecesSame ==
    ASSUME NEW s, NEW t, \A y \in Stack : Piece(t, y) = Piece(s, y)
    PROVE  Pieces(t) = Pieces(s)
<1>. DEFINE f == [y \in Stack |-> Piece(s, y)]
            g == [y \in Stack |-> Piece(t, y)]
<1>1. f = g
  OBVIOUS
<1>. QED
  BY <1>1 DEF Pieces

-----------------------------------------------------------------------------
(* Merging.                                                                *)

LEMMA MinOfTwo ==
    ASSUME NEW a \in Nat, NEW b \in Nat
    PROVE  /\ Min({a, b}) \in Nat /\ Min({a, b}) <= a /\ Min({a, b}) <= b
           /\ Min({a, b}) = a \/ Min({a, b}) = b
<1>. DEFINE S == {a, b}
<1>1. S # {} /\ \A i \in S : i \in Nat
  OBVIOUS
<1>2. a \in S /\ b \in S /\ \A i \in S : i = a \/ i = b
  OBVIOUS
<1>. HIDE DEF S
<1>3. Min(S) \in S /\ \A i \in S : Min(S) <= i
  BY <1>1, MinIn
<1>. QED
  BY <1>1, <1>2, <1>3 DEF S

LEMMA MergingIs ==
    ASSUME NEW s, Good(s), NEW d \in Destinations, NEW x, NEW m \in Nat,
           d.item \in Stack => s.parent[d.item] # None
    PROVE  /\ Merging(s, d, x, m) \in 0..m
           /\ Merging(s, d, x, m) # 0 => x \in Stack /\ d.item \in Stack
           /\ x \in Stack /\ d.item \in Stack =>
                 /\ Merging(s, d, x, m) <= Full - s.count[d.item]
                 /\ Merging(s, d, x, m) \in {m, Full - s.count[d.item]}
<1>1. CASE ~Equals(x, d.item)
  BY <1>1 DEF Merging, Equals
<1>2. CASE Equals(x, d.item)
  <2>1. d.item \in Stack /\ x \in Stack
    BY <1>2 DEF Equals
  <2>2. s.count[d.item] \in 1..Full
    BY <2>1 DEF Good, Counted
  <2>. DEFINE a == Full - s.count[d.item]
  <2>3. a \in Nat
    BY <2>2, Numbers
  <2>4. Merging(s, d, x, m) = Min({a, m})
    BY <1>2 DEF Merging, RoomIn
  <2>. HIDE DEF a
  <2>5. Min({a, m}) \in Nat /\ Min({a, m}) <= a /\ Min({a, m}) <= m /\ Min({a, m}) \in {a, m}
    BY <2>3, MinOfTwo
  <2>. QED
    BY <2>1, <2>3, <2>4, <2>5 DEF a
<1>. QED
  BY <1>1, <1>2

-----------------------------------------------------------------------------
(* The steps of a move keep what is loose, while things are nowhere.       *)

Loose(s) == Tree(s) /\ Counted(s)

\* What the move takes is gone from the pieces that there are.
LEMMA RemovedLoose ==
    ASSUME NEW s, Loose(s), NEW x \in Thing, s.parent[x] # None,
           NEW m \in Int, m \in 1..ItemCount(s, x),
           NEW r, Tree(r), Removed(s, r, x, m)
    PROVE  Loose(r) /\ Pieces(r) = Pieces(s) - (IF x \in Stack THEN m ELSE 0)
<1>0. s \in States /\ r \in States /\ Counted(s) /\ Stack \subseteq Thing
  BY Disjoint DEF Loose, Tree
<1>1. \A y \in Stack : y # x => r.parent[y] = s.parent[y] /\ r.count[y] = s.count[y]
  BY <1>0 DEF Removed
<1>2. CASE x \notin Stack
  <2>1. \A y \in Stack : r.parent[y] = s.parent[y] /\ r.count[y] = s.count[y]
    BY <1>1, <1>2
  <2>2. Counted(r)
    BY <1>0, <2>1 DEF Counted
  <2>3. Pieces(r) = Pieces(s)
    BY <2>1, PiecesSame DEF Piece
  <2>4. Pieces(s) \in Int
    BY <1>0, PiecesType
  <2>. QED
    BY <1>2, <2>2, <2>3, <2>4 DEF Loose
<1>3. CASE x \in Stack
  <2>1. s.count[x] \in 1..Full /\ m \in 1..s.count[x]
    BY <1>0, <1>3 DEF Counted, ItemCount
  <2>2. Piece(s, x) = s.count[x]
    BY DEF Piece
  <2>3. /\ Piece(r, x) = s.count[x] - m
        /\ r.parent[x] # None => r.count[x] \in 1..Full
    <3>1. CASE m = s.count[x]
      <4>1. r.parent[x] = None
        BY <1>3, <3>1 DEF Removed, Part
      <4>. QED
        BY <2>1, <3>1, <4>1 DEF Piece
    <3>2. CASE m # s.count[x]
      <4>1. r.parent[x] = s.parent[x] /\ r.count[x] = s.count[x] - m
        BY <1>3, <3>2 DEF Removed, Part
      <4>2. s.count[x] - m \in 1..Full
        BY <2>1, <3>2, Numbers
      <4>. QED
        BY <4>1, <4>2 DEF Piece
    <3>. QED
      BY <3>1, <3>2
  <2>4. Counted(r)
    BY <1>0, <1>1, <2>3 DEF Counted
  <2>5. \A y \in Stack : y # x => Piece(r, y) = Piece(s, y)
    BY <1>1 DEF Piece
  <2>6. Pieces(r) = Pieces(s) + (Piece(r, x) - Piece(s, x))
    BY <1>0, <1>3, <2>5, PiecesOther
  <2>7. Pieces(s) \in Int /\ s.count[x] \in Int
    BY <1>0, <2>1, PiecesType
  <2>. QED
    BY <1>3, <2>1, <2>2, <2>3, <2>4, <2>6, <2>7 DEF Loose
<1>. QED
  BY <1>2, <1>3

LEMMA UpdatedLoose ==
    ASSUME NEW r, Loose(r), NEW c, NEW y \in Stack, r.parent[y] # None,
           NEW n, n \in 1..Full, NEW t, Updated(r, t, c, y, n)
    PROVE  Loose(t) /\ Pieces(t) = Pieces(r) + (n - r.count[y])
<1>0. r \in States /\ Tree(r) /\ Counted(r) /\ r.count[y] \in 1..Full
  BY DEF Loose, Tree, Counted
<1>1. n \in 1..Full /\ n \in Int
  BY Numbers
<1>2. Tree(t) /\ t.parent = r.parent
      /\ \A z \in Stack : t.count[z] = IF z = y THEN n ELSE r.count[z]
  BY DEF Updated, SamePlaces
<1>3. Piece(t, y) = n /\ Piece(r, y) = r.count[y]
  BY <1>2 DEF Piece
<1>4. Counted(t)
  BY <1>0, <1>1, <1>2 DEF Counted
<1>5. \A z \in Stack : z # y => Piece(t, z) = Piece(r, z)
  BY <1>2 DEF Piece
<1>6. t \in States
  BY <1>2 DEF Tree
<1>7. Pieces(t) = Pieces(r) + (Piece(t, y) - Piece(r, y))
  BY <1>0, <1>5, <1>6, PiecesOther
<1>8. Pieces(r) \in Int /\ Pieces(t) = Pieces(r) + (n - r.count[y])
  BY <1>0, <1>3, <1>7, PiecesType
<1>. QED
  BY <1>2, <1>4, <1>8 DEF Loose

\* What has a place there is added: x, or n pieces in a stack of their own.
Placing(r, d, x, n) ==
    /\ x \notin Stack => r.parent[x] = None /\ x \notin Chain(r, d.to)
    /\ x \in Stack => \E y \in Stack : r.parent[y] = None
    /\ d.to \in Player => d.index \in Slot /\ r.inventory[d.to][d.index] = None
    /\ d.to \in Container => d.index < Capacity

\* y is now where d says, and with n pieces if it is a stack.
Rested(r, q, t, d, x, y, n) ==
    /\ y \in Thing /\ r.parent[y] = None /\ (x \notin Stack => y = x) /\ (x \in Stack => y \in Stack)
    /\ Tree(q) /\ SamePlaces(r, q) /\ SameKept(r, q) /\ q.totalWeight = r.totalWeight
    /\ \A z \in Stack : q.count[z] = IF z = y THEN n ELSE r.count[z]
    /\ Added(q, t, y, d.to, d.index)
    /\ t = AddThing(q, d.to, d.index, y)
    /\ y \notin Chain(q, d.to)

LEMMA RestIs ==
    ASSUME NEW r, Tree(r), NEW d \in Destinations, NEW x \in Thing, NEW n \in Int, n # 0,
           Placing(r, d, x, n)
    PROVE  \E y, q : Rested(r, q, AddRest(r, d, x, n), d, x, y, n)
<1>0. r \in States /\ d.to \in Holder /\ d.to \in Where /\ d.index \in Int
  BY DEF Tree, Destinations, Where
<1>1. CASE x \notin Stack
  <2>1. AddRest(r, d, x, n) = AddThing(r, d.to, d.index, x)
    BY <1>1 DEF AddRest
  <2>2. r.parent[x] = None /\ x \notin Chain(r, d.to)
    BY <1>1 DEF Placing
  <2>3. Added(r, AddThing(r, d.to, d.index, x), x, d.to, d.index)
    <3>. DEFINE c == d.to
                i == d.index
    <3>1. /\ c \in Holder /\ i \in Int /\ r.parent[x] = None /\ x \notin Chain(r, c)
          /\ c \in Player => i \in Slot /\ r.inventory[c][i] = None
          /\ c \in Container => i < Capacity
      BY <1>0, <2>2 DEF Placing
    <3>. HIDE DEF c, i
    <3>2. Added(r, AddThing(r, c, i, x), x, c, i)
      BY <3>1, AddTree
    <3>. QED
      BY <3>2 DEF c, i
  <2>4. SamePlaces(r, r) /\ SameKept(r, r)
    BY DEF SamePlaces, SameKept
  <2>5. \A z \in Stack : z # x
    BY <1>1
  <2>6. Rested(r, r, AddRest(r, d, x, n), d, x, x, n)
    BY <1>1, <2>1, <2>2, <2>3, <2>4, <2>5 DEF Rested
  <2>. QED
    BY <2>6
<1>2. CASE x \in Stack
  <2>. DEFINE y == Fresh(r)
              q == [r EXCEPT !.count[y] = n]
  <2>1. y \in Stack /\ r.parent[y] = None /\ y \in Thing
    BY <1>2, FreshIs, Disjoint DEF Placing
  <2>2. AddRest(r, d, x, n) = AddThing(q, d.to, d.index, y)
    BY <1>2 DEF AddRest
  <2>. HIDE DEF y
  <2>3. q = [r EXCEPT !.count[y] = n]
    OBVIOUS
  <2>. HIDE DEF q
  <2>4. /\ Tree(q) /\ SamePlaces(r, q) /\ SameKept(r, q) /\ q.totalWeight = r.totalWeight
        /\ \A z \in Stack : q.count[z] = IF z = y THEN n ELSE r.count[z]
    BY <2>1, <2>3, CountTree
  <2>5. q \in States /\ q.parent[y] = None /\ q.inventory = r.inventory
    BY <2>1, <2>4 DEF Tree, SamePlaces
  <2>6. y \notin Chain(q, d.to)
    BY <1>0, <2>1, <2>5, ChainHolder
  <2>7. Added(q, AddThing(q, d.to, d.index, y), y, d.to, d.index)
    <3>. DEFINE c == d.to
                i == d.index
    <3>1. /\ c \in Holder /\ i \in Int /\ q.parent[y] = None /\ y \notin Chain(q, c)
          /\ c \in Player => i \in Slot /\ q.inventory[c][i] = None
          /\ c \in Container => i < Capacity
      BY <1>0, <2>5, <2>6 DEF Placing
    <3>. HIDE DEF c, i
    <3>2. Added(q, AddThing(q, c, i, y), y, c, i)
      BY <2>1, <2>4, <3>1, AddTree
    <3>. QED
      BY <3>2 DEF c, i
  <2>8. Rested(r, q, AddRest(r, d, x, n), d, x, y, n)
    BY <1>2, <2>1, <2>2, <2>4, <2>6, <2>7 DEF Rested
  <2>. QED
    BY <2>8
<1>. QED
  BY <1>1, <1>2

LEMMA RestedLoose ==
    ASSUME NEW r, Loose(r), NEW d \in Destinations, NEW x \in Thing, NEW n \in 1..Full,
           NEW y, NEW q, NEW t, Rested(r, q, t, d, x, y, n)
    PROVE  /\ Loose(t) /\ Pieces(t) = Pieces(r) + (IF x \in Stack THEN n ELSE 0)
           /\ \A z \in Thing : t.parent[z] = IF z = y THEN d.to ELSE r.parent[z]
           /\ t.position = r.position /\ SameKept(r, t)
<1>0. r \in States /\ Counted(r) /\ q \in States /\ d.to \in Holder /\ d.to # None
  BY Disjoint DEF Loose, Tree, Rested, Destinations, Holder
<1>1. /\ Tree(t) /\ t \in States /\ t.position = r.position /\ SameKept(r, t) /\ t.count = q.count
      /\ t.parent = [r.parent EXCEPT ![y] = d.to] /\ y \in Thing
      /\ \A z \in Stack : q.count[z] = IF z = y THEN n ELSE r.count[z]
  BY DEF Rested, Added, PutIn, SamePlaces, SameKept, Tree
<1>2. \A z \in Thing : t.parent[z] = IF z = y THEN d.to ELSE r.parent[z]
  BY <1>0, <1>1 DEF States
<1>3. Stack \subseteq Thing
  BY Disjoint
<1>4. Counted(t)
  BY <1>0, <1>1, <1>2, <1>3 DEF Counted
<1>5. \A z \in Stack : z # y => Piece(t, z) = Piece(r, z)
  BY <1>1, <1>2, <1>3 DEF Piece
<1>6. Pieces(r) \in Int
  BY <1>0, PiecesType
<1>7. CASE x \notin Stack
  <2>1. \A z \in Stack : z # y
    BY <1>7 DEF Rested
  <2>2. \A z \in Stack : Piece(t, z) = Piece(r, z)
    BY <1>5, <2>1
  <2>3. Pieces(t) = Pieces(r)
    BY <2>2, PiecesSame
  <2>. QED
    BY <1>1, <1>2, <1>4, <1>6, <1>7, <2>3 DEF Loose
<1>8. CASE x \in Stack
  <2>1. y \in Stack /\ r.parent[y] = None
    BY <1>8 DEF Rested
  <2>2. Piece(t, y) = n /\ Piece(r, y) = 0
    BY <1>0, <1>1, <1>2, <2>1 DEF Piece
  <2>3. Pieces(t) = Pieces(r) + (Piece(t, y) - Piece(r, y))
    BY <1>0, <1>1, <1>5, <2>1, PiecesOther
  <2>4. Pieces(t) = Pieces(r) + n
    BY <1>6, <2>2, <2>3
  <2>. QED
    BY <1>1, <1>2, <1>4, <1>8, <2>4 DEF Loose
<1>. QED
  BY <1>7, <1>8

\* The states that the move of m pieces of x from `from` to d goes through.
Steps(s, from, d, x, m, r, u, v, w, t) ==
    LET k == Merging(s, d, x, m)
    IN  /\ r = RemoveThing(s, from, x, m) /\ Tree(r) /\ Removed(s, r, x, m)
        /\ k = 0 => u = r
        /\ k # 0 => /\ u = UpdateThing(r, d.to, d.item, r.count[d.item] + k)
                    /\ Updated(r, u, d.to, d.item, r.count[d.item] + k)
        /\ m = k => v = u
        /\ m # k => \E y, q : Rested(u, q, v, d, x, y, m - k)
        /\ w = PostRemoveNotification(v, from, x)
        /\ t = PostAddNotification(w, d.to)

LEMMA PossibleTypes ==
    ASSUME NEW s, Good(s), NEW from, NEW d, NEW x, NEW m, Possible(s, from, d, x, m)
    PROVE  /\ s \in States /\ Tree(s) /\ Counted(s) /\ Rooted(s)
           /\ x \in Thing /\ s.parent[x] = from /\ from \in Holder /\ from # None
           /\ d \in Destinations /\ d.to \in Holder /\ d.to \in Where /\ d.to # None /\ d.item # x
           /\ d.item \in Stack => s.parent[d.item] # None /\ s.count[d.item] \in 1..Full
           /\ x \in Stack => s.count[x] \in 1..Full /\ m \in 1..s.count[x]
           /\ x \notin Stack => m = 1
           /\ m \in Nat /\ m \in Int /\ m # 0 /\ m \in 1..Full /\ m \in 1..ItemCount(s, x)
           /\ x \notin Chain(s, d.to) /\ x \notin Chain(s, from)
<1>1. /\ s \in States /\ Tree(s) /\ Counted(s) /\ Rooted(s)
      /\ x \in Thing /\ s.parent[x] = from /\ from \in Holder /\ from # None
      /\ d \in Destinations /\ d.to \in Holder /\ d.to \in Where /\ d.to # None /\ d.item # x
      /\ x \notin Chain(s, d.to) /\ m \in 1..ItemCount(s, x)
      /\ d.item \in Stack => s.parent[d.item] # None
  BY Disjoint DEF Good, Tree, Possible, Destinations, Holder, Where
<1>2. d.item \in Stack => s.parent[d.item] # None /\ s.count[d.item] \in 1..Full
  BY <1>1 DEF Counted
<1>3. x \in Stack => s.count[x] \in 1..Full /\ m \in 1..s.count[x]
  BY <1>1 DEF Counted, ItemCount
<1>4. x \notin Stack => m = 1
  BY <1>1 DEF ItemCount
<1>5. m \in Nat /\ m \in Int /\ m # 0 /\ m \in 1..Full
  <2>1. CASE x \in Stack
    BY <1>3, <2>1, Numbers
  <2>2. CASE x \notin Stack
    BY <1>4, <2>2, Numbers
  <2>. QED
    BY <2>1, <2>2
<1>6. x \notin Chain(s, from)
  <2>1. CASE x \in Container
    BY <1>1, <2>1, NoCycle
  <2>2. CASE x \notin Container
    <3>1. x \in Stack \cup Plain /\ from \in Where
      BY <1>1, <2>2 DEF Thing, Where
    <3>. QED
      BY <1>1, <3>1, ChainHolder
  <2>. QED
    BY <2>1, <2>2
<1>. QED
  BY <1>1, <1>2, <1>3, <1>4, <1>5, <1>6

LEMMA MovedSteps ==
    ASSUME NEW s, Good(s), NEW from, NEW d, NEW x, NEW m, Possible(s, from, d, x, m)
    PROVE  \E r, u, v, w : Steps(s, from, d, x, m, r, u, v, w, MovedPieces(s, from, d, x, m))
<1>. DEFINE k == Merging(s, d, x, m)
            r == RemoveThing(s, from, x, m)
            u == IF k = 0 THEN r ELSE UpdateThing(r, d.to, d.item, r.count[d.item] + k)
            v == AddRest(u, d, x, m - k)
            w == PostRemoveNotification(v, from, x)
            t == PostAddNotification(w, d.to)
<1>1. MovedPieces(s, from, d, x, m) = t
  BY DEF MovedPieces
<1>2. /\ s \in States /\ Tree(s) /\ Counted(s) /\ Rooted(s)
      /\ x \in Thing /\ s.parent[x] = from /\ from \in Holder /\ from # None
      /\ d \in Destinations /\ d.to \in Holder /\ d.to \in Where /\ d.to # None /\ d.item # x
      /\ d.item \in Stack => s.parent[d.item] # None /\ s.count[d.item] \in 1..Full
      /\ x \in Stack => s.count[x] \in 1..Full /\ m \in 1..s.count[x]
      /\ x \notin Stack => m = 1
      /\ m \in Nat /\ m \in Int /\ m # 0
      /\ x \notin Chain(s, d.to)
  BY PossibleTypes
<1>3. /\ k \in 0..m /\ k \in Int
      /\ k # 0 => x \in Stack /\ d.item \in Stack
  BY <1>2, MergingIs
<1>4. Tree(r) /\ Removed(s, r, x, m) /\ r \in States
  <2>1. r = RemoveThing(s, from, x, m)
    OBVIOUS
  <2>. HIDE DEF r
  <2>. QED
    BY <1>2, <2>1, RemovedIs DEF Tree
<1>5. r = RemoveThing(s, from, x, m)
  OBVIOUS
<1>. HIDE DEF k, r
<1>6. k # 0 => /\ u = UpdateThing(r, d.to, d.item, r.count[d.item] + k)
               /\ Updated(r, u, d.to, d.item, r.count[d.item] + k)
  <2>. SUFFICES ASSUME k # 0 PROVE Updated(r, u, d.to, d.item, r.count[d.item] + k)
    OBVIOUS
  <2>1. d.item \in Stack /\ r.count[d.item] \in Int
    BY <1>3, <1>4, StateTypes
  <2>. DEFINE n == r.count[d.item] + k
              y == d.item
              c == d.to
  <2>2. n \in Int /\ y \in Stack
    BY <1>3, <2>1
  <2>. HIDE DEF n, y, c
  <2>3. Updated(r, UpdateThing(r, c, y, n), c, y, n)
    BY <1>4, <2>2, UpdateTree
  <2>. QED
    BY <2>3 DEF n, y, c
<1>7. k = 0 => u = r
  OBVIOUS
<1>. HIDE DEF u
<1>8. Tree(u) /\ u.parent = r.parent /\ u.inventory = r.inventory
  BY <1>4, <1>6, <1>7 DEF Updated, SamePlaces
<1>9. m = k => v = u
  BY <1>3 DEF AddRest
<1>10. m # k => \E y, q : Rested(u, q, v, d, x, y, m - k)
  <2>. SUFFICES ASSUME m # k PROVE \E y, q : Rested(u, q, v, d, x, y, m - k)
    OBVIOUS
  <2>1. m - k \in Int /\ m - k # 0
    BY <1>2, <1>3
  <2>2. Placing(u, d, x, m - k)
    <3>1. /\ d.to \in Player => d.index \in Slot /\ s.inventory[d.to][d.index] = None
          /\ d.to \in Container => d.index < Capacity
          /\ Part(s, x, m) => \E y \in Stack : s.parent[y] = None
      <4>1. Merging(s, d, x, m) # m
        BY DEF k
      <4>. QED
        BY <4>1 DEF Possible
    <3>2. ASSUME x \notin Stack PROVE u.parent[x] = None /\ x \notin Chain(u, d.to)
      <4>1. ~Part(s, x, m)
        BY <3>2 DEF Part
      <4>2. r.parent[x] = None
        BY <1>2, <1>4, <4>1 DEF Removed
      <4>3. Chain(r, d.to) = Chain(s, d.to)
        BY <1>2, <1>4 DEF Removed
      <4>4. Chain(u, d.to) = Chain(r, d.to)
        BY <1>8, ChainParents
      <4>. QED
        BY <1>2, <1>8, <4>2, <4>3, <4>4
    <3>3. ASSUME x \in Stack PROVE \E y \in Stack : u.parent[y] = None
      <4>1. CASE Part(s, x, m)
        <5>1. PICK y \in Stack : s.parent[y] = None
          BY <3>1, <4>1
        <5>2. y # x /\ y \in Thing
          BY <1>2, <5>1, Disjoint
        <5>. QED
          BY <1>4, <1>8, <5>1, <5>2 DEF Removed
      <4>2. CASE ~Part(s, x, m)
        BY <1>2, <1>4, <1>8, <3>3, <4>2 DEF Removed
      <4>. QED
        BY <4>1, <4>2
    <3>4. d.to \in Player => d.index \in Slot /\ u.inventory[d.to][d.index] = None
      BY <1>4, <1>8, <3>1 DEF Removed
    <3>. QED
      BY <3>1, <3>2, <3>3, <3>4 DEF Placing
  <2>. DEFINE n == m - k
  <2>3. n \in Int /\ n # 0 /\ Placing(u, d, x, n) /\ v = AddRest(u, d, x, n)
    BY <2>1, <2>2
  <2>. HIDE DEF n, v
  <2>4. \E y, q : Rested(u, q, AddRest(u, d, x, n), d, x, y, n)
    BY <1>2, <1>8, <2>3, RestIs
  <2>. QED
    BY <2>3, <2>4 DEF n
<1>. HIDE DEF v
<1>11. w = PostRemoveNotification(v, from, x)
  OBVIOUS
<1>. HIDE DEF w
<1>12. t = PostAddNotification(w, d.to)
  OBVIOUS
<1>. HIDE DEF t
<1>13. Steps(s, from, d, x, m, r, u, v, w, t)
  BY <1>4, <1>5, <1>6, <1>7, <1>9, <1>10, <1>11, <1>12 DEF Steps, k
<1>. QED
  BY <1>1, <1>13

\* The thing x, if it is not a stack, went to c, and what was in it or it is closed to those who
\* cannot reach it.
Shifted(s, t, x, c) ==
    /\ \A y \in Container \cup Plain : t.parent[y] = IF y = x THEN c ELSE s.parent[y]
    /\ \A y \in Thing : y # x /\ s.parent[y] # None => t.parent[y] = s.parent[y]
    /\ t.position = s.position
    /\ Opened(s, t, Told(s, s.parent[x]), x)

LEMMA StepsLoose ==
    ASSUME NEW s, Good(s), NEW from, NEW d, NEW x, NEW m, Possible(s, from, d, x, m),
           NEW r, NEW u, NEW v, NEW w, NEW t, Steps(s, from, d, x, m, r, u, v, w, t)
    PROVE  /\ Loose(r) /\ Loose(u) /\ Loose(v) /\ Loose(w) /\ Loose(t)
           /\ SamePlaces(v, w) /\ SamePlaces(w, t)
           /\ Pieces(t) = Pieces(s)
           /\ \A y \in Container \cup Plain : t.parent[y] = IF y = x THEN d.to ELSE s.parent[y]
           /\ \A y \in Container : v.parent[y] = IF y = x THEN d.to ELSE s.parent[y]
           /\ \A y \in Thing : y # x /\ s.parent[y] # None => t.parent[y] = s.parent[y]
           /\ v.position = s.position /\ SameKept(s, v)
<1>. DEFINE k == Merging(s, d, x, m)
<1>1. /\ s \in States /\ Tree(s) /\ Counted(s) /\ Rooted(s)
      /\ x \in Thing /\ s.parent[x] = from /\ from \in Holder /\ from # None
      /\ d \in Destinations /\ d.to \in Holder /\ d.to \in Where /\ d.to # None /\ d.item # x
      /\ d.item \in Stack => s.parent[d.item] # None /\ s.count[d.item] \in 1..Full
      /\ x \in Stack => s.count[x] \in 1..Full /\ m \in 1..s.count[x]
      /\ x \notin Stack => m = 1
      /\ m \in Nat /\ m \in Int /\ m # 0 /\ m \in 1..Full /\ m \in 1..ItemCount(s, x)
  BY PossibleTypes
<1>2. /\ k \in 0..m /\ k \in Int /\ k \in Nat
      /\ k # 0 => x \in Stack /\ d.item \in Stack /\ k <= Full - s.count[d.item]
      /\ x \notin Stack => k = 0
  BY <1>1, MergingIs
<1>3. /\ Tree(r) /\ Removed(s, r, x, m)
      /\ k = 0 => u = r
      /\ k # 0 => Updated(r, u, d.to, d.item, r.count[d.item] + k)
      /\ m = k => v = u
      /\ m # k => \E y, q : Rested(u, q, v, d, x, y, m - k)
      /\ w = PostRemoveNotification(v, from, x)
      /\ t = PostAddNotification(w, d.to)
  BY DEF Steps
<1>4. Loose(s) /\ Stack \subseteq Thing
  BY <1>1, Disjoint DEF Loose
<1>5. Loose(r) /\ Pieces(r) = Pieces(s) - (IF x \in Stack THEN m ELSE 0)
  BY <1>1, <1>3, <1>4, RemovedLoose
<1>. HIDE DEF k
<1>6. Loose(u) /\ Pieces(u) = Pieces(r) + k /\ u.parent = r.parent /\ SameKept(r, u)
      /\ u.position = r.position
  <2>1. CASE k = 0
    <3>1. Pieces(r) \in Int
      BY <1>5, PiecesType DEF Loose, Tree
    <3>. QED
      BY <1>3, <1>5, <2>1, <3>1 DEF SameKept
  <2>2. CASE k # 0
    <3>1. d.item \in Stack /\ r.parent[d.item] # None /\ r.count[d.item] = s.count[d.item]
      BY <1>1, <1>2, <1>3, <1>4, <2>2 DEF Removed
    <3>2. Updated(r, u, d.to, d.item, r.count[d.item] + k)
      BY <1>3, <2>2
    <3>3. Loose(u) /\ Pieces(u) = Pieces(r) + k
      <4>. DEFINE y == d.item
                  c == d.to
                  n == r.count[y] + k
      <4>1. y \in Stack /\ r.parent[y] # None /\ n \in 1..Full
            /\ Updated(r, u, c, y, n)
        BY <1>1, <1>2, <2>2, <3>1, <3>2, Numbers
      <4>2. n - r.count[y] = k
        BY <1>1, <1>2, <3>1
      <4>. HIDE DEF y, c, n
      <4>3. Loose(u) /\ Pieces(u) = Pieces(r) + (n - r.count[y])
        BY <1>5, <4>1, UpdatedLoose
      <4>. QED
        BY <4>2, <4>3
    <3>. QED
      BY <3>2, <3>3 DEF Updated, SamePlaces
  <2>. QED
    BY <2>1, <2>2
<1>7. \A y \in Thing : u.parent[y] = IF y = x /\ ~Part(s, x, m) THEN None ELSE s.parent[y]
  BY <1>3, <1>6 DEF Removed
<1>8. /\ Loose(v) /\ Pieces(v) = Pieces(u) + (IF x \in Stack THEN m - k ELSE 0)
      /\ v.position = u.position /\ SameKept(u, v)
      /\ \A y \in Container \cup Plain : v.parent[y] = IF y = x THEN d.to ELSE s.parent[y]
      /\ \A y \in Thing : y # x /\ s.parent[y] # None => v.parent[y] = s.parent[y]
  <2>0. Pieces(u) \in Int
    BY <1>6, PiecesType DEF Loose, Tree
  <2>1. CASE m = k
    <3>1. v = u /\ x \in Stack
      BY <1>1, <1>2, <1>3, <2>1
    <3>2. \A y \in Container \cup Plain : y # x /\ y \in Thing
      BY <3>1, Disjoint
    <3>. QED
      BY <1>1, <1>2, <1>6, <1>7, <2>0, <2>1, <3>1, <3>2 DEF SameKept
  <2>2. CASE m # k
    <3>1. m - k \in 1..Full
      BY <1>1, <1>2, <2>2, Numbers
    <3>2. PICK y, q : Rested(u, q, v, d, x, y, m - k)
      BY <1>3, <2>2
    <3>. DEFINE n == m - k
    <3>3. n \in 1..Full /\ Rested(u, q, v, d, x, y, n)
      BY <3>1, <3>2
    <3>. HIDE DEF n
    <3>4. /\ Loose(v) /\ Pieces(v) = Pieces(u) + (IF x \in Stack THEN n ELSE 0)
          /\ \A z \in Thing : v.parent[z] = IF z = y THEN d.to ELSE u.parent[z]
          /\ v.position = u.position /\ SameKept(u, v)
      BY <1>1, <1>6, <3>3, RestedLoose
    <3>5. ASSUME NEW z \in Container \cup Plain
          PROVE  v.parent[z] = IF z = x THEN d.to ELSE s.parent[z]
      <4>1. z \in Thing /\ z \notin Stack
        BY Disjoint
      <4>2. (x \notin Stack => y = x) /\ (x \in Stack => y \in Stack)
        BY <3>3 DEF Rested
      <4>. QED
        BY <1>7, <3>4, <4>1, <4>2
    <3>6. ASSUME NEW z \in Thing, z # x, s.parent[z] # None PROVE v.parent[z] = s.parent[z]
      <4>1. u.parent[z] = s.parent[z]
        BY <1>7, <3>6
      <4>2. z # y
        BY <3>3, <3>6, <4>1 DEF Rested
      <4>. QED
        BY <3>4, <4>1, <4>2
    <3>. QED
      BY <3>4, <3>5, <3>6 DEF n
  <2>. QED
    BY <2>1, <2>2
<1>9. Tree(w) /\ SamePlaces(v, w) /\ w.count = v.count
  BY <1>3, <1>8, PostRemoveTree DEF Loose
<1>10. Tree(t) /\ SamePlaces(w, t) /\ t.count = w.count
  BY <1>3, <1>9, PostAddTree
<1>11. w.parent = v.parent /\ t.parent = v.parent
  BY <1>9, <1>10 DEF SamePlaces
<1>12. Counted(w) /\ Counted(t)
  BY <1>8, <1>9, <1>10, <1>11 DEF Loose, Counted
<1>13. Pieces(t) = Pieces(v)
  BY <1>9, <1>10, <1>11, PiecesSame DEF Piece
<1>14. Pieces(s) \in Int
  BY <1>1, PiecesType
<1>15. Pieces(t) = Pieces(s)
  <2>1. CASE x \in Stack
    <3>1. /\ Pieces(r) = Pieces(s) - m /\ Pieces(u) = Pieces(r) + k
          /\ Pieces(v) = Pieces(u) + (m - k)
      BY <1>5, <1>6, <1>8, <2>1
    <3>. QED
      BY <1>1, <1>2, <1>13, <1>14, <3>1
  <2>2. CASE x \notin Stack
    <3>1. /\ Pieces(r) = Pieces(s) - 0 /\ Pieces(u) = Pieces(r) + 0
          /\ Pieces(v) = Pieces(u) + 0
      BY <1>2, <1>5, <1>6, <1>8, <2>2
    <3>. QED
      BY <1>13, <1>14, <3>1
  <2>. QED
    BY <2>1, <2>2
<1>16. v.position = s.position /\ SameKept(s, v)
  BY <1>3, <1>6, <1>8 DEF Removed, SameKept
<1>. QED
  BY <1>5, <1>6, <1>8, <1>9, <1>10, <1>11, <1>12, <1>15, <1>16 DEF Loose

\* A move of what can be moved
LEMMA StepsGood ==
    ASSUME NEW s, Good(s), NEW from, NEW d, NEW x, NEW m, Possible(s, from, d, x, m),
           NEW r, NEW u, NEW v, NEW w, NEW t, Steps(s, from, d, x, m, r, u, v, w, t)
    PROVE  Good(t) /\ Shifted(s, t, x, d.to) /\ Pieces(t) = Pieces(s)
<1>1. Steps(s, from, d, x, m, r, u, v, w, t)
  OBVIOUS
<1>2. /\ s \in States /\ Tree(s) /\ Rooted(s) /\ x \in Thing /\ s.parent[x] = from
      /\ d.to # None /\ x \notin Chain(s, from)
  BY PossibleTypes
<1>3. /\ Loose(r) /\ Loose(u) /\ Loose(v) /\ Loose(w) /\ Loose(t)
      /\ SamePlaces(v, w) /\ SamePlaces(w, t)
      /\ Pieces(t) = Pieces(s)
      /\ \A y \in Container \cup Plain : t.parent[y] = IF y = x THEN d.to ELSE s.parent[y]
      /\ \A y \in Container : v.parent[y] = IF y = x THEN d.to ELSE s.parent[y]
      /\ \A y \in Thing : y # x /\ s.parent[y] # None => t.parent[y] = s.parent[y]
      /\ v.position = s.position /\ SameKept(s, v)
  BY <1>1, StepsLoose
<1>4. Good(t)
  BY <1>2, <1>3 DEF Good, Loose, Placed
<1>5. Chain(v, from) = Chain(s, from)
  <2>1. \A b \in Chain(s, from) \cap Container : v.parent[b] = s.parent[b]
    BY <1>2, <1>3
  <2>. QED
    BY <2>1, ChainSame
<1>6. Told(v, from) = Told(s, from)
  <2>1. HoldingPlayer(v, from) = HoldingPlayer(s, from)
    BY <1>5 DEF HoldingPlayer
  <2>. QED
    BY <2>1 DEF Told
<1>7. Opened(v, w, Told(v, from), x)
  <2>1. w = PostRemoveNotification(v, from, x)
    BY <1>1 DEF Steps
  <2>. QED
    BY <1>3, <2>1, PostRemoveOpens DEF Loose
<1>8. t.openContainers = w.openContainers
  <2>1. t = PostAddNotification(w, d.to)
    BY <1>1 DEF Steps
  <2>. QED
    BY <1>3, <2>1, PostAddTree DEF Loose
<1>9. /\ \A c : Chain(t, c) = Chain(w, c)
      /\ \A q : OutOfReach(t, q, x) <=> OutOfReach(w, q, x)
  BY <1>3, SameReach
<1>10. v.openContainers = s.openContainers
  BY <1>3 DEF SameKept
<1>11. Opened(s, t, Told(s, from), x)
  <2>1. ASSUME NEW q \in Player
        PROVE  t.openContainers[q] = IF x \in Container /\ q \in Told(s, from) /\ OutOfReach(t, q, x)
                              THEN {c \in s.openContainers[q] : x \notin Chain(t, c)}
                              ELSE s.openContainers[q]
    <3>1. w.openContainers[q] = IF x \in Container /\ q \in Told(s, from) /\ OutOfReach(w, q, x)
                              THEN {c \in s.openContainers[q] : x \notin Chain(w, c)}
                              ELSE s.openContainers[q]
      BY <1>6, <1>7, <1>10 DEF Opened
    <3>2. {c \in s.openContainers[q] : x \notin Chain(w, c)}
            = {c \in s.openContainers[q] : x \notin Chain(t, c)}
      BY <1>9
    <3>. QED
      BY <1>8, <1>9, <3>1, <3>2
  <2>. QED
    BY <2>1 DEF Opened
<1>12. t.position = s.position
  BY <1>3 DEF SamePlaces
<1>. QED
  BY <1>2, <1>3, <1>4, <1>11, <1>12 DEF Shifted

-----------------------------------------------------------------------------
(* Windows.                                                                *)

InReach(s) ==
    \A q \in Player : \A c \in s.openContainers[q] :
        TileOf(s, c) = s.position[q] /\ HoldingPlayer(s, c) \in {q, None}

\* Chains without x are as they were, and those with x had it.
LEMMA ShiftedChains ==
    ASSUME NEW s, NEW t, NEW x, NEW b, Shifted(s, t, x, b), NEW c
    PROVE  IF x \in Chain(t, c) THEN x \in Chain(s, c) ELSE Chain(s, c) = Chain(t, c)
<1>0. \A y \in Container : y # x => t.parent[y] = s.parent[y]
  BY DEF Shifted
<1>1. ASSUME x \notin Chain(t, c) PROVE Chain(s, c) = Chain(t, c)
  <2>1. \A y \in Chain(t, c) \cap Container : s.parent[y] = t.parent[y]
    BY <1>0, <1>1
  <2>. QED
    BY <2>1, ChainSame
<1>2. ASSUME x \notin Chain(s, c) PROVE Chain(t, c) = Chain(s, c)
  <2>1. \A y \in Chain(s, c) \cap Container : t.parent[y] = s.parent[y]
    BY <1>0, <1>2
  <2>. QED
    BY <2>1, ChainSame
<1>. QED
  BY <1>1, <1>2

LEMMA ShiftedReach ==
    ASSUME NEW s, Good(s), NEW t, Good(t), InReach(s), NEW x \in Thing, s.parent[x] # None,
           NEW b, b \in Holder, Shifted(s, t, x, b)
    PROVE  InReach(t)
<1>0. /\ s \in States /\ Rooted(s) /\ t \in States /\ Rooted(t)
      /\ t.position = s.position /\ Opened(s, t, Told(s, s.parent[x]), x)
  BY DEF Good, Tree, Shifted
<1>. SUFFICES ASSUME NEW q \in Player, NEW c \in t.openContainers[q]
              PROVE  TileOf(t, c) = s.position[q] /\ HoldingPlayer(t, c) \in {q, None}
  BY <1>0 DEF InReach
<1>1. c \in s.openContainers[q] /\ c \in Container
  BY <1>0, StateTypes DEF Opened
<1>2. TileOf(s, c) = s.position[q] /\ HoldingPlayer(s, c) \in {q, None}
  BY <1>1 DEF InReach
<1>3. CASE x \notin Chain(t, c)
  <2>1. Chain(s, c) = Chain(t, c)
    BY <1>3, ShiftedChains
  <2>2. HoldingPlayer(t, c) = HoldingPlayer(s, c)
    BY <2>1 DEF HoldingPlayer
  <2>3. TileOf(t, c) = TileOf(s, c)
    BY <1>0, <2>1, <2>2 DEF TileOf
  <2>. QED
    BY <1>2, <2>2, <2>3
<1>4. CASE x \in Chain(t, c)
  <2>1. x \in Container
    <3>1. c \in Where
      BY <1>1 DEF Where, Holder
    <3>2. x \notin Stack \cup Plain
      BY <1>0, <1>4, <3>1, ChainHolder
    <3>. QED
      BY <3>2 DEF Thing
  <2>2. Top(t, c) = Top(t, x)
    BY <1>0, <1>4, TopBelow
  <2>3. HoldingPlayer(t, c) = HoldingPlayer(t, x)
    BY <1>0, <2>2, HoldingPlayerIs
  <2>4. TileOf(t, c) = TileOf(t, x)
    BY <1>0, <2>2, TileOfIs
  <2>5. CASE ~OutOfReach(t, q, x)
    BY <1>0, <2>3, <2>4, <2>5 DEF OutOfReach
  <2>6. CASE OutOfReach(t, q, x)
    <3>1. q \notin Told(s, s.parent[x])
      BY <1>0, <1>4, <2>1, <2>6 DEF Opened
    <3>2. HoldingPlayer(s, s.parent[x]) \notin {q, None}
      BY <3>1 DEF Told
    <3>3. x \in Chain(s, c)
      BY <1>4, ShiftedChains
    <3>4. Top(s, c) = Top(s, x) /\ Top(s, x) = Top(s, s.parent[x])
      BY <1>0, <2>1, <3>3, TopBelow, TopParent
    <3>5. HoldingPlayer(s, c) = HoldingPlayer(s, s.parent[x])
      BY <1>0, <3>4, HoldingPlayerIs
    <3>. QED
      BY <1>2, <3>2, <3>5
  <2>. QED
    BY <2>5, <2>6
<1>. QED
  BY <1>3, <1>4

-----------------------------------------------------------------------------
(* What the queries allow.                                                 *)

LEMMA SlotOk ==
    ASSUME NEW s, NEW p, NEW i, NEW x, NEW n
    PROVE  /\ PlayerQueryAdd(s, p, i, x, n) = "ok" =>
                /\ i \in Slot /\ SlotTakes(s, p, i, x, n) /\ HasCapacity(s, p, x, n)
                /\ s.inventory[p][i] = None \/ Equals(s.inventory[p][i], x)
           /\ PlayerQueryAdd(s, p, i, x, n) = "exchange" =>
                /\ i \in Slot /\ SlotTakes(s, p, i, x, n) /\ HasCapacity(s, p, x, n)
                /\ s.inventory[p][i] # None /\ ~Equals(s.inventory[p][i], x)
BY DEF PlayerQueryAdd

\* Where x is let in, it does not hold what it goes to.
LEMMA AddOk ==
    ASSUME NEW s, Good(s), NEW c \in Holder, NEW i, NEW x \in Thing, NEW n,
           QueryAdd(s, c, i, x, n) = "ok"
    PROVE  /\ x \notin Chain(s, c)
           /\ c \in Player => PlayerQueryAdd(s, c, i, x, n) = "ok"
           /\ c \in Container => ContainerQueryAdd(s, c, i, x, n)
<1>1. c \in Player => PlayerQueryAdd(s, c, i, x, n) = "ok"
  BY DEF QueryAdd
<1>2. c \in Container => ContainerQueryAdd(s, c, i, x, n)
  BY Disjoint DEF QueryAdd
<1>3. c \notin Container => x \notin Chain(s, c)
  <2>. SUFFICES ASSUME c \notin Container PROVE x \notin Chain(s, c)
    OBVIOUS
  <2>1. c # x
    BY Disjoint DEF Holder, Thing
  <2>. QED
    BY <2>1, ChainTop
<1>4. c \in Container => x \notin Chain(s, c)
  BY <1>2 DEF ContainerQueryAdd
<1>. QED
  BY <1>1, <1>2, <1>3, <1>4

LEMMA Times ==
    ASSUME NEW a \in Nat, NEW b \in Nat
    PROVE  a * b \in Nat /\ (a # 0 => a * b >= b) /\ (a = 0 => a * b = 0)
<1>1. a * b \in Nat
  OBVIOUS
<1>2. a = 0 => a * b = 0
  OBVIOUS
<1>3. ASSUME a # 0 PROVE a * b >= b
  <2>1. a - 1 \in Nat /\ (a - 1) * b \in Nat
    BY <1>3
  <2>2. a * b = (a - 1) * b + b
    OBVIOUS
  <2>. QED
    BY <2>1, <2>2
<1>. QED
  BY <1>1, <1>2, <1>3

\* The stacks in the list of c that x could be merged with, at i or anywhere, and their room.
Growing(s, c, i, x) ==
    {k \in (IF i = INDEX_WHEREEVER THEN DOMAIN s.itemlist[c] ELSE {i + 1} \cap DOMAIN s.itemlist[c]) :
        s.itemlist[c][k] # x /\ Equals(x, s.itemlist[c][k])}

Rooms(s, c, i, x) == [k \in Growing(s, c, i, x) |-> RoomIn(s, s.itemlist[c][k])]

LEMMA RoomsAre ==
    ASSUME NEW s, Good(s), NEW c \in Container, NEW i, NEW x
    PROVE  /\ IsFiniteSet(Growing(s, c, i, x))
           /\ Growing(s, c, i, x) \subseteq 1..Len(s.itemlist[c])
           /\ Rooms(s, c, i, x) \in [Growing(s, c, i, x) -> Nat]
           /\ SumFunction(Rooms(s, c, i, x)) \in Nat
<1>0. /\ s \in States /\ Tree(s) /\ Counted(s)
      /\ Len(s.itemlist[c]) \in Nat /\ DOMAIN s.itemlist[c] = 1..Len(s.itemlist[c])
  BY Sizes DEF Good, Tree
<1>. DEFINE G == Growing(s, c, i, x)
            f == Rooms(s, c, i, x)
<1>1. G \subseteq 1..Len(s.itemlist[c])
  BY <1>0 DEF Growing
<1>2. IsFiniteSet(G)
  <2>1. IsFiniteSet(1..Len(s.itemlist[c]))
    BY <1>0, FS_Interval
  <2>. HIDE DEF G
  <2>. QED
    BY <1>1, <2>1, FS_Subset
<1>3. ASSUME NEW k \in G PROVE RoomIn(s, s.itemlist[c][k]) \in Nat
  <2>. DEFINE y == s.itemlist[c][k]
  <2>1. y \in Stack
    BY DEF Growing, Equals
  <2>2. s.parent[y] = c
    BY <1>0, <1>1, InList
  <2>3. s.count[y] \in 1..Full
    BY <1>0, <2>1, <2>2, Disjoint DEF Counted
  <2>. QED
    BY <2>3, Numbers DEF RoomIn
<1>4. f \in [G -> Nat]
  <2>1. f = [k \in G |-> RoomIn(s, s.itemlist[c][k])]
    BY DEF Rooms
  <2>. HIDE DEF G, f
  <2>. QED
    BY <1>3, <2>1
<1>. HIDE DEF G, f
<1>5. SumFunction(f) \in Nat
  BY <1>2, <1>4, SumNat
<1>. QED
  BY <1>1, <1>2, <1>4, <1>5 DEF G, f

LEMMA ContainerMaxIs ==
    ASSUME NEW s, Good(s), NEW c \in Container, NEW i \in Int, i >= -1, NEW x, NEW n
    PROVE  /\ ContainerMaxCount(s, c, i, x, n) \in Nat
           /\ x \notin Stack /\ ContainerMaxCount(s, c, i, x, n) # 0 => Len(s.itemlist[c]) < Capacity
           /\ x \in Stack /\ Len(s.itemlist[c]) < Capacity => ContainerMaxCount(s, c, i, x, n) >= Full
           /\ x \in Stack /\ ~(Len(s.itemlist[c]) < Capacity) =>
                 ContainerMaxCount(s, c, i, x, n) =
                    IF ContainerQueryAdd(s, c, 0, x, n) THEN SumFunction(Rooms(s, c, i, x)) ELSE 0
<1>. DEFINE free == IF Len(s.itemlist[c]) < Capacity THEN Capacity - Len(s.itemlist[c]) ELSE 0
            sum == IF ContainerQueryAdd(s, c, 0, x, n) THEN SumFunction(Rooms(s, c, i, x)) ELSE 0
<1>1. ContainerMaxCount(s, c, i, x, n) = IF x \notin Stack THEN free ELSE free * Full + sum
  BY DEF ContainerMaxCount, Rooms, Growing
<1>2. sum \in Nat
  BY RoomsAre
<1>3. free \in Nat /\ (free = 0 <=> ~(Len(s.itemlist[c]) < Capacity))
  <2>1. Len(s.itemlist[c]) \in Nat
    BY Sizes DEF Good, Tree
  <2>. QED
    BY <2>1, Numbers
<1>4. free * Full \in Nat /\ (free # 0 => free * Full >= Full) /\ (free = 0 => free * Full = 0)
  BY <1>3, Numbers, Times
<1>5. sum = IF ContainerQueryAdd(s, c, 0, x, n) THEN SumFunction(Rooms(s, c, i, x)) ELSE 0
  OBVIOUS
<1>. HIDE DEF sum, free
<1>. DEFINE times == free * Full
<1>6. times \in Nat /\ (free # 0 => times >= Full) /\ (free = 0 => times = 0)
  BY <1>4
<1>7. ContainerMaxCount(s, c, i, x, n) = IF x \notin Stack THEN free ELSE times + sum
  BY <1>1
<1>. HIDE DEF times
<1>8. CASE x \notin Stack
  BY <1>3, <1>7, <1>8
<1>9. CASE x \in Stack
  <2>1. ContainerMaxCount(s, c, i, x, n) = times + sum
    BY <1>7, <1>9
  <2>2. times + sum \in Nat /\ (free # 0 => times + sum >= Full) /\ (free = 0 => times + sum = sum)
    BY <1>2, <1>6, Numbers
  <2>. QED
    BY <1>3, <1>5, <1>9, <2>1, <2>2
<1>. QED
  BY <1>8, <1>9

\* A full container takes only what fits into the stack at i.
LEMMA FullTakes ==
    ASSUME NEW s, Good(s), NEW c \in Container, NEW i \in Int, i >= 0, NEW x \in Stack, NEW n,
           ~(Len(s.itemlist[c]) < Capacity), ContainerMaxCount(s, c, i, x, n) # 0
    PROVE  /\ i \in 0..(Len(s.itemlist[c]) - 1) /\ s.itemlist[c][i + 1] \in Stack
           /\ ContainerMaxCount(s, c, i, x, n) = Full - s.count[s.itemlist[c][i + 1]]
<1>. DEFINE k == i + 1
            G == Growing(s, c, i, x)
            f == Rooms(s, c, i, x)
<1>1. ContainerMaxCount(s, c, i, x, n) = SumFunction(f)
  BY ContainerMaxIs
<1>2. SumFunction(f) # 0
  BY <1>1
<1>3. /\ f \in [G -> Nat] /\ Len(s.itemlist[c]) \in Nat
      /\ G \subseteq 1..Len(s.itemlist[c])
  BY RoomsAre, Sizes DEF Good, Tree
<1>4. G \subseteq {k}
  BY DEF Growing, INDEX_WHEREEVER
<1>5. G # {}
  <2>. SUFFICES ASSUME G = {} PROVE FALSE
    OBVIOUS
  <2>1. f \in [{} -> Int]
    <3>. HIDE DEF G, f
    <3>. QED
      BY <1>3
  <2>. HIDE DEF f
  <2>2. SumFunction(f) = 0
    BY <2>1, SumEmpty
  <2>. QED
    BY <1>2, <2>2
<1>6. G = {k}
  BY <1>4, <1>5
<1>7. SumFunction(f) = f[k]
  <2>1. f \in [{k} -> Int]
    <3>. HIDE DEF G, f
    <3>. QED
      BY <1>3, <1>6
  <2>. HIDE DEF f, k
  <2>. QED
    BY <2>1, SumSingle
<1>8. k \in G
  BY <1>6
<1>9. f[k] = Full - s.count[s.itemlist[c][k]] /\ s.itemlist[c][k] \in Stack
  BY <1>8 DEF Rooms, RoomIn, Growing, Equals
<1>10. i \in 0..(Len(s.itemlist[c]) - 1)
  BY <1>3, <1>8
<1>. QED
  BY <1>1, <1>7, <1>9, <1>10

\* There is room in the list for what is not merged.
Roomy(s, d, x, m) ==
    Merging(s, d, x, m) # m /\ d.to \in Container => Len(s.itemlist[d.to]) < Capacity

\* Nothing happens, or m of the n asked for move.
Moves(s, t, from, d, x, n) ==
    \/ t = s
    \/ \E m \in 1..n : /\ Possible(s, from, d, x, m) /\ Roomy(s, d, x, m)
                       /\ t = MovedPieces(s, from, d, x, m)

\* What the move takes, so that what it leaves over has its place.
Takable(s, d, x, n, m) ==
    \/ m = n /\ (d.to \in Player => d.index \in Slot /\ s.inventory[d.to][d.index] = None)
             /\ (d.to \in Container => d.index < Capacity /\ Len(s.itemlist[d.to]) < Capacity)
    \/ x \in Stack /\ d.item \in Stack /\ m <= Full - s.count[d.item]

LEMMA TakableMax ==
    ASSUME NEW s, Good(s), NEW d, Aim(s, d), NEW x \in Thing, s.parent[x] \in Holder,
           d.item # x, NEW n \in Int, n \in 1..ItemCount(s, x),
           QueryAdd(s, d.to, d.index, x, n) = "ok",
           NEW most, most = QueryMaxCount(s, d.to, d.index, x, n), most # 0,
           NEW m, m = IF x \in Stack THEN Min({n, most}) ELSE 1
    PROVE  m \in 1..n /\ Takable(s, d, x, n, m)
<1>0. /\ s \in States /\ Tree(s) /\ Counted(s) /\ d \in Destinations
      /\ d.to \in Holder /\ d.index \in Int /\ d.index >= -1 /\ Stack \subseteq Thing
  BY Disjoint DEF Good, Tree, Aim, Destinations
<1>1. /\ x \in Stack => s.count[x] \in 1..Full /\ n \in 1..Full
      /\ x \notin Stack => n = 1
  <2>1. ASSUME x \in Stack PROVE s.count[x] \in 1..Full /\ n \in 1..Full
    <3>1. s.count[x] \in 1..Full /\ n \in 1..s.count[x]
      BY <1>0, <2>1, Disjoint DEF Counted, ItemCount, Holder
    <3>. QED
      BY <3>1, Numbers
  <2>2. ASSUME x \notin Stack PROVE n = 1
    BY <2>2 DEF ItemCount
  <2>. QED
    BY <2>1, <2>2
<1>2. n \in Nat /\ n >= 1
  OBVIOUS
\* The least of two
<1>3. ASSUME x \in Stack, most \in Nat PROVE m \in 1..n /\ m <= most /\ (most >= n => m = n)
  <2>1. m = Min({n, most})
    BY <1>3
  <2>2. Min({n, most}) \in Nat /\ Min({n, most}) <= n /\ Min({n, most}) <= most
        /\ (Min({n, most}) = n \/ Min({n, most}) = most)
    BY <1>2, <1>3, MinOfTwo
  <2>. QED
    BY <1>2, <1>3, <2>1, <2>2
<1>4. x \notin Stack => m = n /\ m \in 1..n
  BY <1>1
<1>5. CASE d.to \in Tile
  <2>1. most = n /\ d.to \notin Player /\ d.to \notin Container
    BY <1>5, Disjoint DEF QueryMaxCount
  <2>2. m = n /\ m \in 1..n
    BY <1>2, <1>3, <1>4, <2>1
  <2>. QED
    BY <2>1, <2>2 DEF Takable
<1>6. CASE d.to \in Container
  <2>. DEFINE c == d.to
              i == d.index
              list == s.itemlist[c]
  <2>0. c \notin Tile /\ c \notin Player /\ Len(list) \in Nat
    BY <1>0, <1>6, Disjoint, Sizes
  <2>1. most = ContainerMaxCount(s, c, i, x, n)
    BY <1>6, <2>0 DEF QueryMaxCount
  <2>2. /\ most \in Nat
        /\ x \notin Stack => Len(list) < Capacity
        /\ x \in Stack /\ Len(list) < Capacity => most >= Full
    <3>. HIDE DEF c, i
    <3>. QED
      BY <1>0, <1>6, <2>1, ContainerMaxIs DEF c, i
  <2>3. Len(list) < Capacity => i < Capacity
    BY <1>0, <1>6, <2>0, Numbers DEF Aim
  <2>4. CASE Len(list) < Capacity
    <3>1. m = n /\ m \in 1..n
      BY <1>1, <1>3, <1>4, <2>2, <2>4, Numbers
    <3>. QED
      BY <2>0, <2>3, <2>4, <3>1 DEF Takable
  <2>5. CASE ~(Len(list) < Capacity)
    <3>1. x \in Stack
      BY <2>2, <2>5
    <3>2. i # -1
      <4>1. ContainerQueryAdd(s, c, i, x, n)
        BY <1>0, <1>6, AddOk
      <4>. QED
        BY <2>5, <4>1 DEF ContainerQueryAdd, INDEX_WHEREEVER
    <3>3. i >= 0 /\ i \in Int /\ ContainerMaxCount(s, c, i, x, n) # 0
      BY <1>0, <2>1, <3>2
    <3>4. /\ i \in 0..(Len(list) - 1) /\ list[i + 1] \in Stack
          /\ ContainerMaxCount(s, c, i, x, n) = Full - s.count[list[i + 1]]
      <4>. HIDE DEF c, i
      <4>. QED
        BY <1>6, <2>5, <3>1, <3>3, FullTakes DEF c
    <3>5. d.item = list[i + 1]
      BY <1>6, <3>4 DEF Aim
    <3>6. m \in 1..n /\ m <= Full - s.count[d.item] /\ d.item \in Stack
      BY <1>3, <2>1, <2>2, <3>1, <3>4, <3>5
    <3>. QED
      BY <3>1, <3>6 DEF Takable
  <2>. QED
    BY <2>4, <2>5
<1>7. CASE d.to \in Player
  <2>. DEFINE p == d.to
              i == d.index
              y == s.inventory[p][i]
  <2>0. p \notin Tile /\ p \notin Container
    BY <1>7, Disjoint
  <2>1. PlayerQueryAdd(s, p, i, x, n) = "ok"
    BY <1>0, <1>7, AddOk
  <2>2. i \in Slot /\ (y = None \/ Equals(y, x))
    BY <2>1, SlotOk
  <2>3. d.item = y
    BY <1>7, <2>2 DEF Aim
  <2>4. most = SlotMaxCount(s, p, i, x, n)
    BY <2>0, <2>2 DEF QueryMaxCount
  <2>5. CASE y = None
    <3>1. most = IF x \in Stack THEN Full ELSE 1
      BY <2>1, <2>4, <2>5 DEF SlotMaxCount
    <3>2. m = n /\ m \in 1..n
      BY <1>1, <1>3, <1>4, <3>1, Numbers
    <3>. QED
      BY <2>0, <2>2, <2>5, <3>2 DEF Takable
  <2>6. CASE y # None
    <3>1. x \in Stack /\ y \in Stack
      BY <2>2, <2>6 DEF Equals
    <3>2. most = Full - s.count[y]
      BY <2>4, <2>6, <3>1 DEF SlotMaxCount, Equals, RoomIn
    <3>3. s.parent[y] = p /\ p # None
      BY <1>0, <1>7, <2>2, <2>6, InSlot, Disjoint
    <3>4. s.count[y] \in 1..Full
      BY <1>0, <3>1, <3>3 DEF Counted
    <3>5. most \in Nat
      BY <3>2, <3>4, Numbers
    <3>6. m \in 1..n /\ m <= Full - s.count[d.item] /\ d.item \in Stack
      BY <1>3, <2>3, <3>1, <3>2, <3>5
    <3>. QED
      BY <3>1, <3>6 DEF Takable
  <2>. QED
    BY <2>5, <2>6
<1>. QED
  BY <1>0, <1>5, <1>6, <1>7 DEF Holder

LEMMA MovedMoves ==
    ASSUME NEW s, Good(s), NEW d, Aim(s, d), NEW x \in Thing, s.parent[x] \in Holder,
           d.item # x, NEW n \in Int, n \in 1..ItemCount(s, x),
           QueryAdd(s, d.to, d.index, x, n) = "ok",
           n = ItemCount(s, x) \/ \E y \in Stack : s.parent[y] = None
    PROVE  Moves(s, Moved(s, s.parent[x], d, x, n), s.parent[x], d, x, n)
<1>. DEFINE from == s.parent[x]
            most == QueryMaxCount(s, d.to, d.index, x, n)
            m == IF x \in Stack THEN Min({n, most}) ELSE 1
<1>1. Moved(s, from, d, x, n) = IF most = 0 THEN s ELSE MovedPieces(s, from, d, x, m)
  BY DEF Moved
<1>2. CASE most = 0
  BY <1>1, <1>2 DEF Moves
<1>3. CASE most # 0
  <2>1. m \in 1..n /\ Takable(s, d, x, n, m)
    <3>. HIDE DEF most
    <3>1. most = QueryMaxCount(s, d.to, d.index, x, n)
      BY DEF most
    <3>2. m = IF x \in Stack THEN Min({n, most}) ELSE 1
      OBVIOUS
    <3>. HIDE DEF m
    <3>. QED
      BY <1>3, <3>1, <3>2, TakableMax
  <2>. HIDE DEF m, most
  <2>2. d \in Destinations /\ d.to \in Holder /\ x \notin Chain(s, d.to)
    BY AddOk DEF Aim, Destinations
  <2>3. d.item \in Stack => s.parent[d.item] # None /\ (Snug(s) => s.parent[d.item] = d.to)
    BY DEF Aim
  <2>4. m \in 1..ItemCount(s, x) /\ m \in Nat
    <3>1. ItemCount(s, x) \in Int
      <4>1. x \in Stack => s.count[x] \in Int
        BY StateTypes DEF Good, Tree
      <4>. QED
        BY <4>1 DEF ItemCount
    <3>. QED
      BY <2>1, <3>1
  <2>5. x \in Stack /\ d.item \in Stack /\ m <= Full - s.count[d.item] => Merging(s, d, x, m) = m
    <3>. SUFFICES ASSUME x \in Stack, d.item \in Stack, m <= Full - s.count[d.item]
                  PROVE  Merging(s, d, x, m) = m
      OBVIOUS
    <3>1. s.count[d.item] \in 1..Full
      BY <2>3 DEF Good, Counted
    <3>2. /\ Merging(s, d, x, m) \in 0..m
          /\ Merging(s, d, x, m) \in {m, Full - s.count[d.item]}
      BY <2>2, <2>3, <2>4, MergingIs
    <3>. QED
      BY <2>4, <3>1, <3>2, Numbers
  <2>6. Part(s, x, m) /\ m = n => \E y \in Stack : s.parent[y] = None
    BY DEF Part, ItemCount
  <2>7. Possible(s, from, d, x, m) /\ Roomy(s, d, x, m)
    <3>1. CASE m = n /\ (d.to \in Player => d.index \in Slot /\ s.inventory[d.to][d.index] = None)
             /\ (d.to \in Container => d.index < Capacity /\ Len(s.itemlist[d.to]) < Capacity)
      BY <2>2, <2>3, <2>4, <2>6, <3>1 DEF Possible, Roomy
    <3>2. CASE x \in Stack /\ d.item \in Stack /\ m <= Full - s.count[d.item]
      <4>1. Merging(s, d, x, m) = m
        BY <2>5, <3>2
      <4>. QED
        BY <2>2, <2>3, <2>4, <4>1 DEF Possible, Roomy
    <3>. QED
      BY <2>1, <3>1, <3>2 DEF Takable
  <2>. QED
    BY <1>1, <1>3, <2>1, <2>7 DEF Moves
<1>. QED
  BY <1>2, <1>3

-----------------------------------------------------------------------------
(* Exchanges.                                                              *)

\* What was in the way is where x came from, and its place is free.
Swapped(s, t, from, d) ==
    /\ Good(t) /\ Shifted(s, t, d.item, from) /\ Pieces(t) = Pieces(s)
    /\ \A z \in Thing : t.parent[z] = IF z = d.item THEN from ELSE s.parent[z]
    /\ \A z \in Stack : t.count[z] = s.count[z]
    /\ \A p \in Player, i \in Slot :
          t.inventory[p][i] = IF s.inventory[p][i] = d.item THEN None ELSE s.inventory[p][i]

LEMMA ExchangeSteps ==
    ASSUME NEW s, Good(s), NEW from, NEW to, NEW y,
           NEW e, e = Destination(from, 0, None), NEW m, m = ItemCount(s, y), 
           Possible(s, to, e, y, m), from \notin Player,
           NEW d, d.to = to, d.item = y
    PROVE  \E r, v, w :
              /\ Steps(s, to, e, y, m, r, r, v, w, Exchange(s, from, d))
              /\ Rested(r, r, v, e, y, y, m)
<1>. DEFINE r == RemoveThing(s, to, y, m)
            v == AddThing(r, from, 0, y)
            w == PostRemoveNotification(v, to, y)
            t == PostAddNotification(w, from)
<1>1. Exchange(s, from, d) = t
  BY DEF Exchange
<1>2. /\ s \in States /\ Tree(s) /\ Counted(s) /\ Rooted(s)
      /\ y \in Thing /\ s.parent[y] = to /\ to \in Holder
      /\ e \in Destinations /\ e.to \in Holder /\ e.to \in Where
      /\ y \in Stack => s.count[y] \in 1..Full /\ m \in 1..s.count[y]
      /\ m \in Nat /\ m \in Int /\ m # 0
      /\ y \notin Chain(s, e.to)
  BY PossibleTypes
<1>3. e.to = from /\ e.index = 0 /\ e.item = None /\ e.item \notin Stack
  BY Disjoint DEF Destination
<1>4. Merging(s, e, y, m) = 0
  BY <1>3 DEF Merging, Equals
<1>5. ~Part(s, y, m)
  BY DEF Part, ItemCount
<1>6. Tree(r) /\ Removed(s, r, y, m) /\ r \in States
  <2>1. r = RemoveThing(s, to, y, m)
    OBVIOUS
  <2>. HIDE DEF r
  <2>. QED
    BY <1>2, <2>1, RemovedIs DEF Tree
<1>7. r = RemoveThing(s, to, y, m)
  OBVIOUS
<1>. HIDE DEF r
<1>8. r.parent[y] = None /\ y \notin Chain(r, from)
  BY <1>2, <1>3, <1>5, <1>6 DEF Removed
<1>9. from \in Container => 0 < Capacity
  BY Numbers
<1>10. Added(r, v, y, from, 0)
  <2>. DEFINE i == 0
  <2>1. i \in Int /\ from \in Holder /\ (from \in Container => i < Capacity)
    BY <1>2, <1>3, <1>9
  <2>. HIDE DEF i
  <2>2. Added(r, AddThing(r, from, i, y), y, from, i)
    BY <1>2, <1>6, <1>8, <2>1, AddTree
  <2>. QED
    BY <2>2 DEF i
<1>11. SamePlaces(r, r) /\ SameKept(r, r)
  BY DEF SamePlaces, SameKept
<1>12. \A z \in Stack : r.count[z] = IF z = y THEN m ELSE r.count[z]
  <2>1. y \in Stack => r.count[y] = m
    BY <1>5, <1>6 DEF Removed, ItemCount
  <2>. QED
    BY <2>1
<1>13. v = AddThing(r, e.to, e.index, y) /\ Added(r, v, y, e.to, e.index) /\ y \notin Chain(r, e.to)
  BY <1>3, <1>8, <1>10
<1>14. Rested(r, r, v, e, y, y, m)
  BY <1>2, <1>6, <1>8, <1>11, <1>12, <1>13 DEF Rested
<1>. HIDE DEF v
<1>15. Steps(s, to, e, y, m, r, r, v, w, t)
  <2>1. w = PostRemoveNotification(v, to, y) /\ t = PostAddNotification(w, e.to)
    BY <1>3
  <2>. HIDE DEF w, t
  <2>2. m - 0 = m
    BY <1>2
  <2>. QED
    BY <1>2, <1>4, <1>6, <1>7, <1>14, <2>1, <2>2 DEF Steps
<1>. QED
  BY <1>1, <1>14, <1>15

LEMMA ExchangeSwaps ==
    ASSUME NEW s, Good(s), NEW from, NEW d,
           Possible(s, d.to, Destination(from, 0, None), d.item, ItemCount(s, d.item)), from \notin Player
    PROVE  Swapped(s, Exchange(s, from, d), from, d)
<1>. DEFINE e == Destination(from, 0, None)
            m == ItemCount(s, d.item)
            y == d.item
            to == d.to
            t == Exchange(s, from, d)
<1>1. Possible(s, to, e, y, m)
  OBVIOUS
<1>2. e = Destination(from, 0, None) /\ m = ItemCount(s, y) /\ d.to = to /\ d.item = y
      /\ e.to = from /\ e.index = 0
  BY DEF Destination
<1>. HIDE DEF e, m, y, to
<1>3. PICK r, v, w : Steps(s, to, e, y, m, r, r, v, w, t) /\ Rested(r, r, v, e, y, y, m)
  BY <1>1, <1>2, ExchangeSteps
<1>. HIDE DEF t
<1>4. Good(t) /\ Shifted(s, t, y, from) /\ Pieces(t) = Pieces(s)
  BY <1>1, <1>2, <1>3, StepsGood
<1>5. /\ y \in Thing /\ s \in States
  BY <1>1, PossibleTypes
<1>6. SamePlaces(v, w) /\ SamePlaces(w, t) /\ Loose(v) /\ Loose(w) /\ Loose(r)
  BY <1>1, <1>3, StepsLoose
<1>7. Removed(s, r, y, m)
  BY <1>3 DEF Steps
<1>8. ~Part(s, y, m)
  BY <1>2 DEF Part, ItemCount
<1>9. t.parent = v.parent /\ t.inventory = v.inventory
  BY <1>6 DEF SamePlaces
<1>10. Added(r, v, y, from, 0)
  BY <1>2, <1>3 DEF Rested
<1>11. w.count = v.count /\ t.count = w.count
  <2>1. w = PostRemoveNotification(v, to, y) /\ t = PostAddNotification(w, e.to)
    BY <1>3 DEF Steps
  <2>2. w.count = v.count
    BY <1>6, <2>1, PostRemoveTree DEF Loose
  <2>3. t.count = w.count
    BY <1>6, <2>1, PostAddTree DEF Loose
  <2>. QED
    BY <2>2, <2>3
<1>12. \A z \in Thing : t.parent[z] = IF z = y THEN from ELSE s.parent[z]
  <2>1. v.parent = [r.parent EXCEPT ![y] = from] /\ r \in States
    BY <1>6, <1>10 DEF Added, PutIn, Loose, Tree
  <2>2. \A z \in Thing : v.parent[z] = IF z = y THEN from ELSE r.parent[z]
    BY <2>1 DEF States
  <2>. QED
    BY <1>7, <1>9, <2>2 DEF Removed
<1>13. \A z \in Stack : t.count[z] = s.count[z]
  <2>1. v.count = r.count
    BY <1>10 DEF Added, PutIn
  <2>. QED
    BY <1>7, <1>8, <1>11, <2>1 DEF Removed
<1>14. \A p \in Player, i \in Slot :
          t.inventory[p][i] = IF s.inventory[p][i] = y THEN None ELSE s.inventory[p][i]
  <2>1. \A p \in Player, i \in Slot : v.inventory[p][i] = r.inventory[p][i]
    BY <1>10 DEF Added
  <2>. QED
    BY <1>7, <1>8, <1>9, <2>1 DEF Removed
<1>15. Swapped(s, t, from, d)
  BY <1>2, <1>4, <1>12, <1>13, <1>14 DEF Swapped
<1>. QED
  BY <1>15 DEF t

\* What may be exchanged can be moved.
LEMMA ExchangePossible ==
    ASSUME NEW s, Good(s), NEW d, Aim(s, d), NEW x \in Thing, NEW from, s.parent[x] = from,
           from \in Holder, NEW n, QueryAdd(s, d.to, d.index, x, n) # "ok",
           QueryAdd(s, d.to, d.index, x, n) # "error", MayExchange(s, from, d, x)
    PROVE  /\ Possible(s, d.to, Destination(from, 0, None), d.item, ItemCount(s, d.item))
           /\ from \notin Player /\ d.to \in Player /\ d.index \in Slot
           /\ d.item = s.inventory[d.to][d.index] /\ d.item # None
           /\ SlotTakes(s, d.to, d.index, x, n) /\ HasCapacity(s, d.to, x, n)
<1>. DEFINE y == d.item
            to == d.to
            cnt == ItemCount(s, y)
            e == Destination(from, 0, None)
<1>0. s \in States /\ Tree(s) /\ Counted(s) /\ Agrees(s)
  BY DEF Good, Tree
<1>1. to \in Player /\ PlayerQueryAdd(s, to, d.index, x, n) = "exchange"
  BY DEF QueryAdd, PlayerQueryAdd
<1>2. /\ d.index \in Slot /\ s.inventory[to][d.index] # None
      /\ ~Equals(s.inventory[to][d.index], x)
      /\ SlotTakes(s, to, d.index, x, n) /\ HasCapacity(s, to, x, n)
  BY <1>1, SlotOk
<1>3. y = s.inventory[to][d.index]
  BY <1>1, <1>2 DEF Aim
<1>4. y \in Thing /\ s.parent[y] = to
  BY <1>0, <1>1, <1>2, <1>3, InSlot
<1>5. QueryAdd(s, from, IndexIn(s, from, x), y, cnt) = "ok"
  BY DEF MayExchange
<1>6. y \notin Chain(s, from) /\ (from \in Player => PlayerQueryAdd(s, from, IndexIn(s, from, x), y, cnt) = "ok")
  <2>. DEFINE i == IndexIn(s, from, x)
  <2>. HIDE DEF i, cnt, y
  <2>. QED
    BY <1>4, <1>5, AddOk DEF i
<1>7. from \notin Player
  <2>. SUFFICES ASSUME from \in Player PROVE FALSE
    OBVIOUS
  <2>1. Wears(s.inventory[from], Kids(s, from)) /\ x \in Kids(s, from)
    BY <1>0 DEF Agrees, Kids
  <2>2. x # None /\ \E i \in Slot : s.inventory[from][i] = x
    BY <2>1 DEF Wears
  <2>3. s.inventory[from][IndexIn(s, from, x)] = x
    BY <2>2 DEF IndexIn
  <2>4. Equals(x, y)
    BY <1>6, <2>2, <2>3, SlotOk
  <2>. QED
    BY <1>2, <1>3, <2>4 DEF Equals
<1>8. cnt \in 1..cnt /\ (y \in Stack => cnt = s.count[y])
  <2>1. CASE y \in Stack
    <3>1. s.count[y] \in 1..Full
      BY <1>0, <1>1, <1>4, <2>1, Disjoint DEF Counted
    <3>. QED
      BY <2>1, <3>1, Numbers DEF ItemCount
  <2>2. CASE y \notin Stack
    BY <2>2 DEF ItemCount
  <2>. QED
    BY <2>1, <2>2
<1>9. e \in Destinations /\ e.to = from /\ e.index = 0 /\ e.item = None
  BY DEF Destination, Destinations
<1>10. Possible(s, to, e, y, cnt)
  <2>1. to \in Holder /\ e.item # y /\ e.item \notin Stack
    BY <1>1, <1>4, <1>9, Disjoint DEF Holder
  <2>2. ~Part(s, y, cnt)
    BY <1>8 DEF Part
  <2>3. from \in Container => 0 < Capacity
    BY Numbers
  <2>. HIDE DEF e, cnt, y, to
  <2>. QED
    BY <1>4, <1>6, <1>7, <1>8, <1>9, <2>1, <2>2, <2>3 DEF Possible, cnt
<1>. QED
  BY <1>1, <1>2, <1>3, <1>7, <1>10

-----------------------------------------------------------------------------
(* internalMoveItem.                                                       *)

\* The move is made, or not; before it, what is in the way may go.
MovesTo(s, t, from, d, x, n) ==
    \/ t = s
    \/ QueryAdd(s, d.to, d.index, x, n) = "ok" /\ Moves(s, t, from, d, x, n)
    \/ \E u, e :
          /\ d.item # x /\ MayExchange(s, from, d, x)
          /\ QueryAdd(s, d.to, d.index, x, n) \notin {"ok", "error"}
          /\ Possible(s, d.to, Destination(from, 0, None), d.item, ItemCount(s, d.item))
          /\ from \notin Player /\ d.to \in Player /\ d.index \in Slot
          /\ d.item = s.inventory[d.to][d.index] /\ d.item # None
          /\ u = Exchange(s, from, d) /\ Swapped(s, u, from, d)
          /\ e = [d EXCEPT !.item = None] /\ Aim(u, e) /\ u.parent[x] = from
          /\ \/ t = u
             \/ QueryAdd(u, e.to, e.index, x, n) = "ok" /\ Moves(u, t, from, e, x, n)

LEMMA MoveToMoves ==
    ASSUME NEW s, Good(s), NEW d, Aim(s, d), NEW x \in Thing, NEW from, s.parent[x] = from,
           from \in Holder, NEW n \in Int, n \in 1..ItemCount(s, x),
           n = ItemCount(s, x) \/ \E y \in Stack : s.parent[y] = None
    PROVE  MovesTo(s, MoveTo(s, from, d, x, n), from, d, x, n)
<1>. DEFINE answer == QueryAdd(s, d.to, d.index, x, n)
            u == Exchange(s, from, d)
            e == [d EXCEPT !.item = None]
            t == MoveTo(s, from, d, x, n)
<1>1. t = IF d.item = x \/ answer = "error" THEN s
          ELSE IF answer = "ok" THEN Moved(s, from, d, x, n)
          ELSE IF ~MayExchange(s, from, d, x) THEN s
          ELSE IF QueryAdd(u, d.to, d.index, x, n) # "ok" THEN u
          ELSE Moved(u, from, e, x, n)
  BY DEF MoveTo
<1>. HIDE DEF t
<1>2. CASE d.item = x \/ answer = "error" \/ (answer # "ok" /\ ~MayExchange(s, from, d, x))
  <2>1. t = s
    BY <1>1, <1>2
  <2>. QED
    BY <2>1 DEF MovesTo, t
<1>3. CASE d.item # x /\ answer = "ok"
  <2>1. t = Moved(s, from, d, x, n)
    BY <1>1, <1>3
  <2>2. Moves(s, Moved(s, s.parent[x], d, x, n), s.parent[x], d, x, n)
    BY <1>3, MovedMoves
  <2>. QED
    BY <1>3, <2>1, <2>2 DEF MovesTo, t
<1>4. CASE d.item # x /\ answer # "error" /\ answer # "ok" /\ MayExchange(s, from, d, x)
  <2>0. /\ Possible(s, d.to, Destination(from, 0, None), d.item, ItemCount(s, d.item))
        /\ from \notin Player /\ d.to \in Player /\ d.index \in Slot
        /\ d.item = s.inventory[d.to][d.index] /\ d.item # None
    BY <1>4, ExchangePossible
  <2>1. Swapped(s, u, from, d)
    BY <2>0, ExchangeSwaps
  <2>. DEFINE y == d.item
  <2>2. /\ Good(u)
        /\ \A z \in Thing : u.parent[z] = IF z = y THEN from ELSE s.parent[z]
        /\ \A z \in Stack : u.count[z] = s.count[z]
        /\ \A p \in Player, i \in Slot :
              u.inventory[p][i] = IF s.inventory[p][i] = y THEN None ELSE s.inventory[p][i]
    BY <2>1 DEF Swapped
  <2>3. u.parent[x] = from /\ ItemCount(u, x) = ItemCount(s, x)
    BY <1>4, <2>2 DEF ItemCount
  <2>4. u.inventory[d.to][d.index] = None
    BY <2>0, <2>2
  <2>5. /\ e.to = d.to /\ e.index = d.index /\ e.item = None /\ e \in Destinations
    BY DEF Aim, Destinations
  <2>6. Aim(u, e)
    BY <2>0, <2>4, <2>5, Disjoint DEF Aim
  <2>7. (\E z \in Stack : s.parent[z] = None) => \E z \in Stack : u.parent[z] = None
    <3>. SUFFICES ASSUME NEW z \in Stack, s.parent[z] = None PROVE u.parent[z] = None
      OBVIOUS
    <3>1. s.parent[y] = d.to /\ d.to # None
      BY <2>0, Disjoint DEF Possible
    <3>2. z # y /\ z \in Thing
      BY <3>1, Disjoint
    <3>. QED
      BY <2>2, <3>2
  <2>. HIDE DEF e, u
  <2>8. CASE QueryAdd(u, d.to, d.index, x, n) # "ok"
    <3>1. t = u
      BY <1>1, <1>4, <2>8
    <3>2. u = Exchange(s, from, d) /\ e = [d EXCEPT !.item = None]
      BY DEF u, e
    <3>3. MovesTo(s, t, from, d, x, n)
      BY <1>4, <2>0, <2>1, <2>3, <2>6, <3>1, <3>2 DEF MovesTo
    <3>. QED
      BY <3>3 DEF t
  <2>9. CASE QueryAdd(u, d.to, d.index, x, n) = "ok"
    <3>1. t = Moved(u, from, e, x, n)
      BY <1>1, <1>4, <2>9
    <3>2. u = Exchange(s, from, d) /\ e = [d EXCEPT !.item = None]
      BY DEF u, e
    <3>3. e.item # x
      BY <2>5, Disjoint
    <3>4. Moves(u, Moved(u, from, e, x, n), from, e, x, n)
      <4>1. n \in 1..ItemCount(u, x) /\ (n = ItemCount(u, x) \/ \E z \in Stack : u.parent[z] = None)
        BY <2>3, <2>7
      <4>2. u.parent[x] \in Holder /\ QueryAdd(u, e.to, e.index, x, n) = "ok"
        BY <2>3, <2>5, <2>9
      <4>3. Moves(u, Moved(u, u.parent[x], e, x, n), u.parent[x], e, x, n)
        BY <2>2, <2>6, <3>3, <4>1, <4>2, MovedMoves
      <4>. QED
        BY <2>3, <4>3
    <3>5. MovesTo(s, t, from, d, x, n)
      BY <1>4, <2>0, <2>1, <2>3, <2>5, <2>6, <2>9, <3>1, <3>2, <3>4 DEF MovesTo
    <3>. QED
      BY <3>5 DEF t
  <2>. QED
    BY <2>8, <2>9
<1>. QED
  BY <1>2, <1>3, <1>4

\* A handler keeps what is good, the windows in reach and the pieces.
Kept(s, t) == Good(t) /\ Pieces(t) = Pieces(s) /\ (InReach(s) => InReach(t))

LEMMA ShiftedKept ==
    ASSUME NEW s, Good(s), NEW t, Good(t), Pieces(t) = Pieces(s), NEW x \in Thing, s.parent[x] # None,
           NEW b \in Holder, Shifted(s, t, x, b)
    PROVE  Kept(s, t)
<1>1. InReach(s) => InReach(t)
  BY ShiftedReach
<1>. QED
  BY <1>1 DEF Kept

LEMMA MovesKept ==
    ASSUME NEW s, Good(s), NEW t, NEW from, NEW d, NEW x, NEW n, Moves(s, t, from, d, x, n)
    PROVE  Kept(s, t)
<1>1. CASE t = s
  BY <1>1 DEF Kept
<1>2. CASE \E m \in 1..n : Possible(s, from, d, x, m) /\ t = MovedPieces(s, from, d, x, m)
  <2>1. PICK m \in 1..n : Possible(s, from, d, x, m) /\ t = MovedPieces(s, from, d, x, m)
    BY <1>2
  <2>2. PICK r, u, v, w : Steps(s, from, d, x, m, r, u, v, w, t)
    BY <2>1, MovedSteps
  <2>3. Good(t) /\ Shifted(s, t, x, d.to) /\ Pieces(t) = Pieces(s)
    BY <2>1, <2>2, StepsGood
  <2>4. x \in Thing /\ s.parent[x] # None /\ d.to \in Holder
    BY <2>1, PossibleTypes
  <2>. DEFINE b == d.to
  <2>5. b \in Holder /\ Shifted(s, t, x, b)
    BY <2>3, <2>4
  <2>. HIDE DEF b
  <2>. QED
    BY <2>3, <2>4, <2>5, ShiftedKept
<1>. QED
  BY <1>1, <1>2 DEF Moves

LEMMA InternalMoveItemKept ==
    ASSUME NEW s, Good(s), NEW x \in Thing, NEW from, s.parent[x] = from, from \in Holder,
           NEW c \in Holder, NEW i \in Int, i >= -1, NEW n \in Int, n \in 1..ItemCount(s, x),
           n = ItemCount(s, x) \/ \E y \in Stack : s.parent[y] = None
    PROVE  Kept(s, InternalMoveItem(s, from, c, i, x, n))
<1>. DEFINE d == Settled(s, c, i, x)
            t == MoveTo(s, from, d, x, n)
<1>1. InternalMoveItem(s, from, c, i, x, n) = t
  BY DEF InternalMoveItem
<1>2. Aim(s, d)
  BY SettledAim
<1>. HIDE DEF d
<1>3. MovesTo(s, t, from, d, x, n)
  BY <1>2, MoveToMoves
<1>. SUFFICES Kept(s, t)
  BY <1>1
<1>. HIDE DEF t
<1>4. Kept(s, s)
  BY DEF Kept
<1>5. CASE Moves(s, t, from, d, x, n)
  BY <1>5, MovesKept
<1>6. CASE \E u, e : /\ Possible(s, d.to, Destination(from, 0, None), d.item, ItemCount(s, d.item))
                     /\ Swapped(s, u, from, d)
                     /\ t = u \/ Moves(u, t, from, e, x, n)
  <2>1. PICK u, e : /\ Possible(s, d.to, Destination(from, 0, None), d.item, ItemCount(s, d.item))
                    /\ Swapped(s, u, from, d)
                    /\ t = u \/ Moves(u, t, from, e, x, n)
    BY <1>6
  <2>. DEFINE y == d.item
  <2>2. Good(u) /\ Shifted(s, u, y, from) /\ Pieces(u) = Pieces(s)
    BY <2>1 DEF Swapped
  <2>3. y \in Thing /\ s.parent[y] # None
    <3>1. d.to \in Holder /\ s.parent[d.item] = d.to /\ d.item \in Thing
      BY <2>1 DEF Possible
    <3>. QED
      BY <3>1, Disjoint DEF Holder
  <2>. HIDE DEF y
  <2>4. Kept(s, u)
    BY <2>2, <2>3, ShiftedKept
  <2>5. Kept(u, t)
    <3>1. CASE t = u
      BY <2>2, <3>1 DEF Kept
    <3>2. CASE Moves(u, t, from, e, x, n)
      BY <2>2, <3>2, MovesKept
    <3>. QED
      BY <2>1, <3>1, <3>2
  <2>. QED
    BY <2>4, <2>5 DEF Kept
<1>. QED
  BY <1>3, <1>4, <1>5, <1>6 DEF MovesTo

-----------------------------------------------------------------------------
(* Where a player has a place.                                             *)

OpenSlot(s, p, i, x) ==
    LET y == s.inventory[p][i]
    IN  /\ y # x /\ (y = None \/ (Equals(y, x) /\ s.count[y] < Full))
        /\ PlayerQueryAdd(s, p, i, x, ItemCount(s, x)) = "ok"

OpenBag(s, b, x) ==
    \/ Stackable(s, b, x) # 0
    \/ /\ Len(s.itemlist[b]) < Capacity
       /\ ContainerQueryAdd(s, b, Len(s.itemlist[b]), x, ItemCount(s, x))

SlotPlace(s, p, x, e) ==
    e.to = p /\ e.index \in Slot /\ e.item = s.inventory[p][e.index] /\ OpenSlot(s, p, e.index, x)

BagPlace(s, p, x, e) ==
    /\ e.to \in Container /\ Has(Bags(s, p, x), e.to) /\ e.index = Len(s.itemlist[e.to])
    /\ \/ /\ e.item \in Stack /\ x \in Stack /\ e.item # x
          /\ s.parent[e.item] = e.to /\ s.count[e.item] < Full
       \/ /\ e.item = None /\ Len(s.itemlist[e.to]) < Capacity
          /\ ContainerQueryAdd(s, e.to, Len(s.itemlist[e.to]), x, ItemCount(s, x))

NoPlace(s, p, x, e) ==
    /\ e.to = p /\ e.index = -1 /\ e.item = None
    /\ \A i \in Slot : ~OpenSlot(s, p, i, x)
    /\ \A b : Has(Bags(s, p, x), b) => ~OpenBag(s, b, x)

PlacedFor(s, p, x, e) == SlotPlace(s, p, x, e) \/ BagPlace(s, p, x, e) \/ NoPlace(s, p, x, e)

LEMMA PlaceInBagsIs ==
    ASSUME NEW s, Good(s), NEW d, d.to \in Player, d.index = -1, NEW x,
           NEW bags \in Seq(Container), bags = Bags(s, d.to, x),
           NEW e, e = PlaceInBags(s, d, x, bags), \A i \in Slot : ~OpenSlot(s, d.to, i, x)
    PROVE  PlacedFor(s, d.to, x, e)
<1>. DEFINE open == {k \in DOMAIN bags :
                     \/ Stackable(s, bags[k], x) # 0
                     \/ /\ Len(s.itemlist[bags[k]]) < Capacity
                        /\ ContainerQueryAdd(s, bags[k], Len(s.itemlist[bags[k]]), x, ItemCount(s, x))}
            j == Min(open)
            b == bags[j]
            n == Len(s.itemlist[b])
            k == Stackable(s, b, x)
            y == IF k # 0 THEN s.itemlist[b][k] ELSE None
<1>0. s \in States /\ Tree(s)
  BY DEF Good, Tree
<1>1. e = IF open = {} THEN Destination(d.to, d.index, None) ELSE Destination(b, n, y)
  BY DEF PlaceInBags
<1>2. DOMAIN bags = 1..Len(bags) /\ Len(bags) \in Nat
  OBVIOUS
<1>3. \A i \in 1..Len(bags) : i \in open <=> OpenBag(s, bags[i], x)
  BY <1>2 DEF OpenBag
<1>4. open \subseteq 1..Len(bags)
  BY <1>2
<1>5. CASE open = {}
  <2>1. e.to = d.to /\ e.index = -1 /\ e.item = None
    <3>. HIDE DEF open, b, n, y
    <3>1. e = Destination(d.to, d.index, None)
      BY <1>1, <1>5
    <3>. QED
      BY <3>1 DEF Destination
  <2>2. ASSUME NEW c, Has(Bags(s, d.to, x), c) PROVE ~OpenBag(s, c, x)
    <3>1. PICK i \in 1..Len(bags) : bags[i] = c
      BY <2>2 DEF Has
    <3>. HIDE DEF open
    <3>2. i \notin open
      BY <1>5
    <3>. QED
      BY <1>3, <3>1, <3>2
  <2>3. NoPlace(s, d.to, x, e)
    <3>. HIDE DEF open
    <3>. QED
      BY <2>1, <2>2 DEF NoPlace
  <2>. QED
    BY <2>3 DEF PlacedFor
<1>6. CASE open # {}
  <2>1. j \in open
    <3>1. \A i \in open : i \in Nat
      BY <1>4
    <3>. HIDE DEF open
    <3>. QED
      BY <1>6, <3>1, MinIn
  <2>. HIDE DEF open, j
  <2>2. j \in 1..Len(bags) /\ OpenBag(s, b, x)
    BY <1>3, <1>4, <2>1
  <2>3. b \in Container /\ Has(Bags(s, d.to, x), b)
    BY <2>2 DEF Has
  <2>4. e = Destination(b, n, y)
    BY <1>1, <1>6
  <2>. HIDE DEF b
  <2>5. e.to = b /\ e.index = n /\ e.item = y
    BY <2>4 DEF Destination
  <2>6. CASE k # 0
    <3>1. k \in 1..n /\ y = s.itemlist[b][k] /\ y # x /\ y \in Stack /\ x \in Stack /\ s.count[y] < Full
      BY <1>0, <2>3, <2>6, StackableIs
    <3>2. s.parent[y] = b
      BY <1>0, <2>3, <3>1, InList
    <3>. HIDE DEF y, n
    <3>3. BagPlace(s, d.to, x, e)
      BY <2>3, <2>5, <3>1, <3>2 DEF BagPlace, n
    <3>. QED
      BY <3>3 DEF PlacedFor
  <2>7. CASE k = 0
    <3>1. n < Capacity /\ ContainerQueryAdd(s, b, n, x, ItemCount(s, x)) /\ y = None
      BY <2>2, <2>7 DEF OpenBag
    <3>2. BagPlace(s, d.to, x, e)
      <4>. HIDE DEF y, n, k
      <4>. QED
        BY <2>3, <2>5, <3>1 DEF BagPlace, n
    <3>. QED
      BY <3>2 DEF PlacedFor
  <2>. QED
    BY <2>6, <2>7
<1>. QED
  BY <1>5, <1>6

LEMMA PlaceIs ==
    ASSUME NEW s, Good(s), NEW p \in Player, NEW x,
           NEW e, e = QueryDestination(s, Destination(p, INDEX_WHEREEVER, None), x)
    PROVE  PlacedFor(s, p, x, e)
<1>. DEFINE d == Destination(p, INDEX_WHEREEVER, None)
            worn == s.inventory[p]
            slots == {i \in Slot : /\ worn[i] # x
                                   /\ worn[i] = None \/ (Equals(worn[i], x) /\ s.count[worn[i]] < Full)
                                   /\ PlayerQueryAdd(s, p, i, x, ItemCount(s, x)) = "ok"}
<1>0. d.to = p /\ d.index = -1 /\ p \notin Tile /\ s \in States
  BY Disjoint DEF Destination, INDEX_WHEREEVER, Good, Tree
<1>1. e = PlaceFor(s, d, x)
  <2>1. QueryDestination(s, d, x) = PlayerDestination(s, d, x)
    BY <1>0 DEF QueryDestination
  <2>. HIDE DEF d
  <2>2. PlayerDestination(s, d, x) = PlaceFor(s, d, x)
    BY <1>0 DEF PlayerDestination, INDEX_WHEREEVER
  <2>. QED
    BY <2>1, <2>2 DEF d
<1>2. e = IF slots # {} THEN Destination(p, Min(slots), worn[Min(slots)])
          ELSE PlaceInBags(s, d, x, Bags(s, p, x))
  <2>. HIDE DEF d
  <2>. QED
    BY <1>0, <1>1 DEF PlaceFor
<1>3. \A i \in Slot : i \in slots <=> OpenSlot(s, p, i, x)
  BY DEF OpenSlot
<1>4. slots \subseteq Slot /\ \A i \in slots : i \in Nat
  BY Numbers
<1>5. CASE slots # {}
  <2>. DEFINE i == Min(slots)
  <2>1. i \in slots
    <3>. HIDE DEF slots
    <3>. QED
      BY <1>4, <1>5, MinIn
  <2>2. i \in Slot /\ OpenSlot(s, p, i, x)
    BY <1>3, <2>1
  <2>3. e = Destination(p, i, worn[i])
    BY <1>2, <1>5
  <2>. HIDE DEF i, slots
  <2>4. SlotPlace(s, p, x, e)
    BY <2>2, <2>3 DEF SlotPlace, Destination
  <2>. QED
    BY <2>4 DEF PlacedFor
<1>6. CASE slots = {}
  <2>1. \A i \in Slot : ~OpenSlot(s, p, i, x)
    BY <1>3, <1>6
  <2>2. e = PlaceInBags(s, d, x, Bags(s, p, x))
    BY <1>2, <1>6
  <2>3. Bags(s, p, x) \in Seq(Container)
    BY <1>0, BagsAre
  <2>. HIDE DEF d, slots
  <2>. QED
    BY <1>0, <2>1, <2>2, <2>3, PlaceInBagsIs
<1>. QED
  BY <1>5, <1>6

-----------------------------------------------------------------------------
(* internalAddItem.                                                        *)

\* s with n pieces x, which are nowhere yet.
New(s, x, n) == [s EXCEPT !.count[x] = n]

LEMMA NewIs ==
    ASSUME NEW s, Good(s), NEW x \in Stack, s.parent[x] = None, NEW n \in Int, NEW new, new = New(s, x, n)
    PROVE  /\ Good(new) /\ SamePlaces(s, new) /\ SameKept(s, new) /\ new.totalWeight = s.totalWeight
           /\ \A y \in Stack : new.count[y] = IF y = x THEN n ELSE s.count[y]
<1>1. Tree(s) /\ Placed(s) /\ Counted(s)
  BY DEF Good
<1>2. new = [s EXCEPT !.count[x] = n]
  BY DEF New
<1>3. /\ Tree(new) /\ SamePlaces(s, new) /\ SameKept(s, new) /\ new.totalWeight = s.totalWeight
      /\ \A y \in Stack : new.count[y] = IF y = x THEN n ELSE s.count[y]
  BY <1>1, <1>2, CountTree
<1>4. new.parent = s.parent
  BY <1>3 DEF SamePlaces
<1>5. Placed(new) /\ Counted(new)
  BY <1>1, <1>3, <1>4 DEF Placed, Counted
<1>. QED
  BY <1>3, <1>5 DEF Good

\* Where they go to.
GivenTo(new, to, x) == QueryDestination(new, Destination(to, INDEX_WHEREEVER, None), x)

LEMMA GivenToIs ==
    ASSUME NEW new, Good(new), NEW to, to \in Tile \cup Player, NEW x, NEW d, d = GivenTo(new, to, x)
    PROVE  /\ Aim(new, d)
           /\ to \in Tile => d.to = to
           /\ to \in Player => PlacedFor(new, to, x, d)
<1>. DEFINE e == Destination(to, INDEX_WHEREEVER, None)
<1>1. e.to = to /\ e.index = -1 /\ e.item = None /\ e \in Destinations
  <2>1. to \in Holder /\ INDEX_WHEREEVER \in Int /\ INDEX_WHEREEVER >= -1 /\ None \in Thing \cup {None}
    BY DEF Holder, INDEX_WHEREEVER
  <2>2. INDEX_WHEREEVER = -1
    BY DEF INDEX_WHEREEVER
  <2>. HIDE DEF INDEX_WHEREEVER
  <2>. QED
    BY <2>1, <2>2, DestinationIs
<1>2. d = QueryDestination(new, e, x)
  BY DEF GivenTo
<1>3. to \in Player => PlacedFor(new, to, x, d)
  BY <1>2, PlaceIs
<1>. HIDE DEF e
<1>4. Aim(new, d)
  BY <1>1, <1>2, Hop DEF Start
<1>5. to \in Tile => d.to = to
  BY <1>1, <1>2 DEF QueryDestination, TileDestination
<1>. QED
  BY <1>3, <1>4, <1>5

\* What a round makes of s: the n pieces x are put at d, or some go to the stack that is there.
Given(s, new, d, x, n, a) ==
    LET k == Merging(s, d, x, n)
    IN  /\ QueryAdd(new, d.to, d.index, x, n) = "ok" /\ a.ok = TRUE /\ k \in 0..n
        /\ k = 0 => /\ a.left = 0
                    /\ d.to \in Player => d.index \in Slot /\ s.inventory[d.to][d.index] = None
                    /\ d.to \in Container => Len(s.itemlist[d.to]) < Capacity
                    /\ \E v : /\ v = AddThing(new, d.to, d.index, x) /\ Added(new, v, x, d.to, d.index)
                              /\ a.state = PostAddNotification(v, d.to)
        /\ k # 0 => /\ a.left = n - k /\ d.item \in Stack /\ s.parent[d.item] # None /\ d.item # x
                    /\ s.count[d.item] + k \in 1..Full /\ k \in {n, Full - s.count[d.item]}
                    /\ \E u : /\ Updated(s, u, d.to, d.item, s.count[d.item] + k)
                              /\ u = UpdateThing(s, d.to, d.item, s.count[d.item] + k)
                              /\ a.state = IF k = n THEN PostAddNotification(u, d.to) ELSE u

Refused(s, new, to, d, x, n, a) ==
    /\ a.state = s /\ a.left = n /\ a.ok = FALSE
    /\ \/ QueryAdd(new, d.to, d.index, x, n) # "ok"
       \/ QueryMaxCount(new, to, INDEX_WHEREEVER, x, n) < n

LEMMA AddPiecesIs ==
    ASSUME NEW s, Good(s), NEW to, to \in Tile \cup Player, NEW x \in Stack, s.parent[x] = None,
           NEW n \in Int, n \in 1..Full, NEW new, new = New(s, x, n), NEW d, d = GivenTo(new, to, x),
           NEW a, a = AddPieces(s, to, d, x, n)
    PROVE  \/ Refused(s, new, to, d, x, n, a)
           \/ Given(s, new, d, x, n, a)
<1>. DEFINE k == Merging(s, d, x, n)
            u == UpdateThing(s, d.to, d.item, s.count[d.item] + k)
            v == AddThing(new, d.to, d.index, x)
            refused == \/ QueryAdd(new, d.to, d.index, x, n) # "ok"
                       \/ QueryMaxCount(new, to, INDEX_WHEREEVER, x, n) < n
<1>0. s \in States /\ Tree(s) /\ Counted(s) /\ Stack \subseteq Thing
  BY Disjoint DEF Good, Tree
<1>1. a = IF refused THEN [state |-> s, left |-> n, ok |-> FALSE]
          ELSE IF k = 0 THEN [state |-> PostAddNotification(v, d.to), left |-> 0, ok |-> TRUE]
          ELSE [state |-> IF k = n THEN PostAddNotification(u, d.to) ELSE u, left |-> n - k, ok |-> TRUE]
  BY DEF AddPieces, New
<1>2. /\ Good(new) /\ SamePlaces(s, new) /\ SameKept(s, new) /\ new.totalWeight = s.totalWeight
      /\ \A y \in Stack : new.count[y] = IF y = x THEN n ELSE s.count[y]
  BY NewIs
<1>3. /\ Aim(new, d)
      /\ to \in Tile => d.to = to
      /\ to \in Player => PlacedFor(new, to, x, d)
  BY <1>2, GivenToIs
<1>4. new.parent = s.parent /\ new.inventory = s.inventory /\ new.itemlist = s.itemlist
  BY <1>2 DEF SamePlaces
<1>5. d \in Destinations /\ d.to \in Holder /\ d.index \in Int
      /\ (d.item \in Stack => s.parent[d.item] # None /\ d.item # x)
  BY <1>3, <1>4 DEF Aim, Destinations
<1>6. CASE refused
  <2>1. a.state = s /\ a.left = n /\ a.ok = FALSE
    <3>. HIDE DEF k, u, v, refused
    <3>. QED
      BY <1>1, <1>6
  <2>. QED
    BY <1>6, <2>1 DEF Refused
<1>7. CASE ~refused
  <2>1. /\ k \in 0..n
        /\ k # 0 => x \in Stack /\ d.item \in Stack
        /\ x \in Stack /\ d.item \in Stack =>
                 /\ k <= Full - s.count[d.item]
                 /\ k \in {n, Full - s.count[d.item]}
    <3>1. n \in Nat
      BY Numbers
    <3>. QED
      BY <1>5, <3>1, MergingIs
  <2>2. QueryAdd(new, d.to, d.index, x, n) = "ok"
    BY <1>7
  <2>3. CASE k = 0
    <3>1. d.to \in Player => d.index \in Slot /\ new.inventory[d.to][d.index] = None
      <4>. SUFFICES ASSUME d.to \in Player PROVE d.index \in Slot /\ new.inventory[d.to][d.index] = None
        OBVIOUS
      <4>1. PlayerQueryAdd(new, d.to, d.index, x, n) = "ok"
        BY <1>2, <1>5, <2>2, <1>0, AddOk
      <4>2. d.index \in Slot
        BY <4>1, SlotOk
      <4>3. to \notin Tile /\ d.to \notin Container
        BY <1>3, Disjoint
      <4>4. SlotPlace(new, to, x, d)
        BY <1>3, <4>2, <4>3, Numbers DEF PlacedFor, NoPlace, BagPlace
      <4>5. d.item = new.inventory[d.to][d.index] /\ OpenSlot(new, to, d.index, x) /\ d.to = to
        BY <4>4 DEF SlotPlace
      <4>6. d.item # None => d.item \in Stack /\ new.count[d.item] < Full
        BY <4>5 DEF OpenSlot, Equals
      <4>7. d.item = None
        <5>. SUFFICES ASSUME d.item # None PROVE FALSE
          OBVIOUS
        <5>1. d.item \in Stack /\ s.count[d.item] < Full
          BY <1>2, <1>5, <4>6
        <5>2. s.count[d.item] \in 1..Full
          BY <1>0, <1>5, <5>1 DEF Counted
        <5>. QED
          BY <2>1, <2>3, <5>1, <5>2, Numbers
      <4>. QED
        BY <4>2, <4>5, <4>7
    <3>2. d.to \in Container => d.index < Capacity /\ Len(s.itemlist[d.to]) < Capacity
      <4>. SUFFICES ASSUME d.to \in Container
                    PROVE  d.index < Capacity /\ Len(s.itemlist[d.to]) < Capacity
        OBVIOUS
      <4>1. to \in Player /\ d.to # to
        BY <1>3, Disjoint
      <4>2. BagPlace(new, to, x, d)
        BY <1>3, <4>1 DEF PlacedFor, NoPlace, SlotPlace
      <4>3. ~(d.item \in Stack /\ new.count[d.item] < Full)
        <5>. SUFFICES ASSUME d.item \in Stack, new.count[d.item] < Full PROVE FALSE
          OBVIOUS
        <5>1. d.item \in Stack /\ s.count[d.item] < Full
          BY <1>2, <1>5
        <5>2. s.count[d.item] \in 1..Full
          BY <1>0, <1>5, <5>1 DEF Counted
        <5>. QED
          BY <2>1, <2>3, <5>1, <5>2, Numbers
      <4>. QED
        BY <1>4, <4>2, <4>3 DEF BagPlace
    <3>3. Added(new, v, x, d.to, d.index)
      <4>. DEFINE c == d.to
                  i == d.index
      <4>1. /\ c \in Holder /\ i \in Int /\ new.parent[x] = None /\ x \notin Chain(new, c)
            /\ c \in Player => i \in Slot /\ new.inventory[c][i] = None
            /\ c \in Container => i < Capacity
        <5>1. x \notin Chain(new, d.to)
          BY <1>0, <1>2, <1>5, <2>2, AddOk
        <5>. QED
          BY <1>4, <1>5, <3>1, <3>2, <5>1
      <4>. HIDE DEF c, i
      <4>2. Added(new, AddThing(new, c, i, x), x, c, i)
        BY <1>0, <1>2, <4>1, AddTree DEF Good
      <4>. QED
        BY <4>2 DEF c, i
    <3>4. a.left = 0 /\ a.ok = TRUE /\ a.state = PostAddNotification(v, d.to)
      <4>. HIDE DEF k, u, v, refused
      <4>. QED
        BY <1>1, <1>7, <2>3
    <3>. QED
      BY <1>4, <2>1, <2>2, <2>3, <3>1, <3>2, <3>3, <3>4 DEF Given
  <2>4. CASE k # 0
    <3>1. d.item \in Stack /\ s.count[d.item] \in 1..Full
      BY <1>0, <1>5, <2>1, <2>4 DEF Counted
    <3>2. s.count[d.item] + k \in 1..Full
      <4>. HIDE DEF k
      <4>. QED
        BY <2>1, <2>4, <3>1, Numbers
    <3>3. Updated(s, u, d.to, d.item, s.count[d.item] + k)
      <4>. DEFINE m == s.count[d.item] + k
                  y == d.item
                  c == d.to
      <4>1. m \in Int /\ y \in Stack
        BY <3>1, <3>2, Numbers
      <4>. HIDE DEF m, y, c
      <4>2. Updated(s, UpdateThing(s, c, y, m), c, y, m)
        BY <1>0, <4>1, UpdateTree
      <4>. QED
        BY <4>2 DEF m, y, c
    <3>4. a.left = n - k /\ a.ok = TRUE /\ a.state = IF k = n THEN PostAddNotification(u, d.to) ELSE u
      <4>. HIDE DEF k, u, v, refused
      <4>. QED
        BY <1>1, <1>7, <2>4
    <3>. QED
      BY <1>5, <2>1, <2>2, <2>4, <3>1, <3>2, <3>3, <3>4 DEF Given
  <2>. QED
    BY <2>3, <2>4
<1>. QED
  BY <1>6, <1>7

\* A round of internalAddItem, if there is one.
Round(to, i, r) ==
    IF r.left = 0 \/ r.round # i - 1 THEN r
    ELSE NextRound(i, AddRound(r.state, to, Fresh(r.state), r.left))

\* The rounds end in what each of them leads to.
LEMMA RoundsIn ==
    ASSUME NEW s, NEW to, NEW n, NEW N, N = Cardinality(Stack) + 1, NEW B,
           [state |-> s, left |-> n, round |-> 0] \in B[0],
           \A i \in 1..N : \A r \in B[i - 1] : Round(to, i, r) \in B[i]
    PROVE  \E h \in B[N] : InternalAddItem(s, to, n) = Remainder(h)
<1>. DEFINE base == [state |-> s, left |-> n, round |-> 0]
            U == UNION {B[i] : i \in 0..N}
            op == [a \in (0..N) \X U |-> Round(to, a[1], a[2])]
            Is(f) == f = [i \in 0..N |-> IF i = 0 THEN base ELSE Round(to, i, f[i - 1])]
            h == CHOOSE f : Is(f)
<1>0. N \in Nat /\ N >= 1
  BY Finite
<1>1. PICK f : Builds(f, base, op, N)
  <2>. HIDE DEF base, op
  <2>. QED
    BY <1>0, BuildsExist
<1>2. base \in B[0]
  OBVIOUS
<1>3. /\ f[0] = base
      /\ \A i \in 1..N : f[i] = op[<<i, f[i - 1]>>]
  <2>. HIDE DEF base, op
  <2>1. f = [i \in 0..N |-> IF i = 0 THEN base ELSE op[<<i, f[i - 1]>>]]
    BY <1>1 DEF Builds
  <2>2. \A i \in 1..N : i \in 0..N /\ i # 0
    BY <1>0
  <2>3. 0 \in 0..N
    BY <1>0
  <2>. QED
    BY <2>1, <2>2, <2>3
<1>4. \A i \in 1..N : \A r \in B[i - 1] : op[<<i, r>>] = Round(to, i, r)
  <2>. SUFFICES ASSUME NEW i \in 1..N, NEW r \in B[i - 1] PROVE op[<<i, r>>] = Round(to, i, r)
    OBVIOUS
  <2>1. i \in 0..N /\ i - 1 \in 0..N
    BY <1>0
  <2>2. r \in U
    BY <2>1
  <2>. HIDE DEF U
  <2>. QED
    BY <2>1, <2>2
<1>. HIDE DEF op, base, U
<1>5. \A i \in 0..N : f[i] \in B[i]
  <2>. DEFINE G == {i \in 0..N : f[i] \in B[i]}
  <2>1. 0 \in G
    BY <1>0, <1>2, <1>3
  <2>2. ASSUME NEW i \in 0..N, i \in G, i # N PROVE i + 1 \in G
    <3>1. i + 1 \in 1..N /\ i + 1 - 1 = i /\ i + 1 \in 0..N
      BY <1>0, <2>2
    <3>. DEFINE j == i + 1
    <3>2. j \in 1..N /\ j - 1 = i /\ f[i] \in B[i]
      BY <2>2, <3>1
    <3>. HIDE DEF j
    <3>3. f[i] \in B[j - 1]
      BY <3>2
    <3>4. f[j] = op[<<j, f[j - 1]>>] /\ f[j - 1] \in B[j - 1]
      BY <1>3, <3>2, <3>3
    <3>5. f[j] \in B[j]
      BY <1>4, <3>2, <3>4
    <3>. QED
      BY <3>1, <3>5 DEF j
  <2>3. \A i \in 0..N : i \in G
    <3>. HIDE DEF G
    <3>. QED
      BY <1>0, <2>1, <2>2, UpTo
  <2>. QED
    BY <2>3
<1>6. \A i \in 1..N : f[i] = Round(to, i, f[i - 1])
  <2>. SUFFICES ASSUME NEW i \in 1..N PROVE f[i] = Round(to, i, f[i - 1])
    OBVIOUS
  <2>1. i - 1 \in 0..N
    BY <1>0
  <2>2. f[i - 1] \in B[i - 1]
    BY <1>5, <2>1
  <2>. QED
    BY <1>3, <1>4, <2>2
<1>7. Is(f)
  <2>1. ASSUME NEW i \in 0..N PROVE f[i] = IF i = 0 THEN base ELSE Round(to, i, f[i - 1])
    <3>1. i # 0 => i \in 1..N
      BY <1>0
    <3>. QED
      BY <1>3, <1>6, <3>1
  <2>2. f = [i \in 0..N |-> f[i]]
    BY <1>1 DEF Builds
  <2>. QED
    BY <2>1, <2>2
<1>8. Is(h)
  <2>. HIDE DEF Is
  <2>. QED
    BY <1>7
<1>. HIDE DEF h
<1>9. InternalAddItem(s, to, n) = Remainder(h[N])
  BY DEF InternalAddItem, h, base, Round
<1>10. \A i \in 0..N : h[i] = f[i]
  <2>. DEFINE G == {i \in 0..N : h[i] = f[i]}
  <2>0. \A i \in 0..N : h[i] = IF i = 0 THEN base ELSE Round(to, i, h[i - 1])
    BY <1>8
  <2>1. 0 \in G
    BY <1>0, <1>3, <2>0
  <2>2. ASSUME NEW i \in 0..N, i \in G, i # N PROVE i + 1 \in G
    <3>1. i + 1 \in 1..N /\ i + 1 - 1 = i /\ i + 1 # 0 /\ i + 1 \in 0..N
      BY <1>0, <2>2
    <3>. DEFINE j == i + 1
    <3>2. j \in 1..N /\ j \in 0..N /\ j # 0 /\ h[j - 1] = f[j - 1]
      BY <2>2, <3>1
    <3>. HIDE DEF j
    <3>3. h[j] = Round(to, j, h[j - 1])
      BY <2>0, <3>2
    <3>4. f[j] = Round(to, j, f[j - 1])
      BY <1>6, <3>2
    <3>5. j \in G
      BY <3>2, <3>3, <3>4
    <3>. QED
      BY <3>5 DEF j
  <2>3. \A i \in 0..N : i \in G
    <3>. HIDE DEF G
    <3>. QED
      BY <1>0, <2>1, <2>2, UpTo
  <2>. QED
    BY <2>3
<1>. QED
  BY <1>0, <1>5, <1>9, <1>10

\* Nothing that was somewhere moved, and no window opened or closed.
Still(s, t) ==
    /\ t.position = s.position /\ t.openContainers = s.openContainers
    /\ \A z \in Thing : s.parent[z] # None => t.parent[z] = s.parent[z]

\* All but left of n pieces were added.
Gains(s, t, n, left) ==
    /\ Good(t) /\ Still(s, t) /\ left \in 0..n /\ Pieces(t) = Pieces(s) + (n - left)
    /\ left # 0 => t.parent = s.parent

LEMMA StillReach ==
    ASSUME NEW s, Good(s), NEW t, Still(s, t), InReach(s)
    PROVE  InReach(t)
<1>1. \A c \in Container : s.parent[c] # None /\ c \in Thing
  BY Disjoint DEF Good, Placed
<1>2. \A c \in Container : t.parent[c] = s.parent[c]
  BY <1>1 DEF Still
<1>. SUFFICES ASSUME NEW q \in Player, NEW c \in t.openContainers[q]
              PROVE  TileOf(t, c) = t.position[q] /\ HoldingPlayer(t, c) \in {q, None}
  BY DEF InReach
<1>3. Chain(t, c) = Chain(s, c)
  BY <1>2, ChainSame
<1>4. HoldingPlayer(t, c) = HoldingPlayer(s, c)
  BY <1>3 DEF HoldingPlayer
<1>5. TileOf(t, c) = TileOf(s, c)
  BY <1>3, <1>4 DEF TileOf, Still
<1>. QED
  BY <1>4, <1>5 DEF InReach, Still

LEMMA GivenGains ==
    ASSUME NEW s, Good(s), NEW x \in Stack, s.parent[x] = None,
           NEW n \in Int, n \in 1..Full, NEW new, new = New(s, x, n), NEW d, Aim(new, d),
           NEW a, Given(s, new, d, x, n, a)
    PROVE  Gains(s, a.state, n, a.left)
<1>. DEFINE k == Merging(s, d, x, n)
            t == a.state
<1>0. s \in States /\ Tree(s) /\ Placed(s) /\ Counted(s) /\ Stack \subseteq Thing /\ Pieces(s) \in Int
  BY Disjoint, PiecesType DEF Good, Tree
<1>1. /\ Good(new) /\ SamePlaces(s, new) /\ SameKept(s, new)
      /\ \A y \in Stack : new.count[y] = IF y = x THEN n ELSE s.count[y]
  BY NewIs
<1>2. d.to \in Holder /\ d.to # None
  BY Disjoint DEF Aim, Destinations, Holder
<1>3. k \in 0..n
  BY DEF Given
<1>4. CASE k = 0
  <2>1. PICK v : /\ Added(new, v, x, d.to, d.index) /\ a.state = PostAddNotification(v, d.to)
    BY <1>4 DEF Given
  <2>2. a.left = 0
    BY <1>4 DEF Given
  <2>3. /\ Tree(v) /\ v.parent = [new.parent EXCEPT ![x] = d.to] /\ v.count = new.count
        /\ v.position = new.position /\ SameKept(new, v)
    BY <2>1 DEF Added, PutIn
  <2>4. Tree(t) /\ SamePlaces(v, t) /\ t.count = v.count /\ t.openContainers = v.openContainers
    BY <2>1, <2>3, PostAddTree
  <2>5. \A z \in Thing : t.parent[z] = IF z = x THEN d.to ELSE s.parent[z]
    <3>1. new.parent = s.parent /\ t.parent = v.parent
      BY <1>1, <2>4 DEF SamePlaces
    <3>. QED
      BY <1>0, <2>3, <3>1 DEF States
  <2>6. \A z \in Stack : t.count[z] = IF z = x THEN n ELSE s.count[z]
    BY <1>1, <2>3, <2>4
  <2>7. Still(s, t)
    BY <1>1, <2>3, <2>4, <2>5 DEF Still, SamePlaces, SameKept
  <2>8. Good(t)
    <3>1. Counted(t)
      BY <1>0, <2>5, <2>6 DEF Counted
    <3>2. Placed(t)
      BY <1>0, <1>2, <2>5, Disjoint DEF Placed
    <3>. QED
      BY <2>4, <3>1, <3>2 DEF Good
  <2>9. Pieces(t) = Pieces(s) + n
    <3>1. Piece(s, x) = 0 /\ Piece(t, x) = n
      BY <1>0, <1>2, <2>5, <2>6 DEF Piece
    <3>2. \A y \in Stack : y # x => Piece(t, y) = Piece(s, y)
      BY <1>0, <2>5, <2>6 DEF Piece
    <3>3. t \in States
      BY <2>4 DEF Tree
    <3>4. Pieces(t) = Pieces(s) + (Piece(t, x) - Piece(s, x))
      <4>. HIDE DEF t
      <4>. QED
        BY <1>0, <3>2, <3>3, PiecesOther
    <3>. QED
      BY <3>1, <3>4
  <2>. HIDE DEF t
  <2>10. n - 0 = n /\ a.left \in 0..n
    BY <2>2, Numbers
  <2>. QED
    BY <2>2, <2>7, <2>8, <2>9, <2>10 DEF Gains, t
<1>5. CASE k # 0
  <2>1. PICK u : /\ Updated(s, u, d.to, d.item, s.count[d.item] + k)
                 /\ a.state = IF k = n THEN PostAddNotification(u, d.to) ELSE u
    BY <1>5 DEF Given
  <2>2. a.left = n - k /\ d.item \in Stack /\ s.parent[d.item] # None /\ s.count[d.item] + k \in 1..Full
    BY <1>5 DEF Given
  <2>3. Loose(u) /\ Pieces(u) = Pieces(s) + k
    <3>. DEFINE m == s.count[d.item] + k
                y == d.item
                c == d.to
    <3>1. y \in Stack /\ s.parent[y] # None /\ m \in 1..Full /\ Updated(s, u, c, y, m)
      BY <2>1, <2>2
    <3>2. s.count[y] \in Int /\ m - s.count[y] = k
      <4>1. s.count[d.item] \in 1..Full
        BY <1>0, <2>2 DEF Counted
      <4>. HIDE DEF k
      <4>. QED
        BY <1>3, <4>1, Numbers
    <3>. HIDE DEF m, y, c
    <3>3. Loose(u) /\ Pieces(u) = Pieces(s) + (m - s.count[y])
      BY <1>0, <3>1, UpdatedLoose DEF Loose
    <3>. QED
      BY <3>2, <3>3
  <2>4. SamePlaces(s, u) /\ u.openContainers = s.openContainers /\ Tree(u)
    BY <2>1 DEF Updated, SameKept
  <2>5. Tree(t) /\ SamePlaces(s, t) /\ t.openContainers = s.openContainers /\ t.count = u.count
    <3>1. CASE k = n
      <4>1. t = PostAddNotification(u, d.to)
        BY <2>1, <3>1
      <4>. HIDE DEF t
      <4>. QED
        BY <2>4, <4>1, PostAddTree DEF SamePlaces
    <3>2. CASE k # n
      BY <2>1, <2>4, <3>2
    <3>. QED
      BY <3>1, <3>2
  <2>. HIDE DEF t, k
  <2>6. t.parent = s.parent /\ u.parent = s.parent /\ t.position = s.position
    BY <2>4, <2>5 DEF SamePlaces
  <2>7. Pieces(t) = Pieces(u)
    BY <2>5, <2>6, PiecesSame DEF Piece
  <2>8. Good(t)
    BY <1>0, <2>3, <2>5, <2>6 DEF Good, Placed, Counted, Loose
  <2>9. n - (n - k) = k /\ n - k \in 0..n
    BY <1>3, Numbers
  <2>10. Still(s, t)
    BY <2>5, <2>6 DEF Still
  <2>. QED
    BY <2>2, <2>3, <2>6, <2>7, <2>8, <2>9, <2>10 DEF Gains, t
<1>. QED
  BY <1>4, <1>5

LEMMA GainsNothing ==
    ASSUME NEW s, Good(s), NEW n \in Nat
    PROVE  Gains(s, s, n, n)
<1>1. Pieces(s) \in Int
  BY PiecesType DEF Good, Tree
<1>. QED
  BY <1>1 DEF Gains, Still

LEMMA GainsMore ==
    ASSUME NEW s, Good(s), NEW n \in Nat, NEW m, NEW t, Gains(s, t, n, m), NEW l, NEW u, Gains(t, u, m, l)
    PROVE  Gains(s, u, n, l)
<1>1. Pieces(s) \in Int
  BY PiecesType DEF Good, Tree
<1>2. /\ Good(u) /\ l \in 0..m /\ m \in 0..n
      /\ Pieces(t) = Pieces(s) + (n - m) /\ Pieces(u) = Pieces(t) + (m - l)
      /\ m # 0 => t.parent = s.parent
      /\ l # 0 => u.parent = t.parent
  BY DEF Gains
<1>3. Pieces(u) = Pieces(s) + (n - l) /\ l \in 0..n /\ (l # 0 => m # 0)
  BY <1>1, <1>2
<1>4. Still(s, u)
  BY DEF Still, Gains
<1>. QED
  BY <1>2, <1>3, <1>4 DEF Gains

-----------------------------------------------------------------------------
(* The actions.                                                            *)

LEMMA SameWindows ==
    ASSUME NEW s, NEW t, InReach(s), \A c \in Container : t.parent[c] = s.parent[c],
           t.position = s.position, t.openContainers = s.openContainers
    PROVE  InReach(t)
<1>. SUFFICES ASSUME NEW q \in Player, NEW c \in t.openContainers[q]
              PROVE  TileOf(t, c) = t.position[q] /\ HoldingPlayer(t, c) \in {q, None}
  BY DEF InReach
<1>3. Chain(t, c) = Chain(s, c)
  BY ChainSame
<1>4. HoldingPlayer(t, c) = HoldingPlayer(s, c)
  BY <1>3 DEF HoldingPlayer
<1>5. TileOf(t, c) = TileOf(s, c)
  BY <1>3, <1>4 DEF TileOf
<1>. QED
  BY <1>4, <1>5 DEF InReach

LEMMA RemoveItemKept ==
    ASSUME NEW s, Good(s), NEW x \in Stack, s.parent[x] # None, NEW n \in Int, n \in 1..s.count[x],
           NEW t, t = InternalRemoveItem(s, x, n)
    PROVE  Good(t) /\ Pieces(t) = Pieces(s) - n /\ (InReach(s) => InReach(t))
<1>. DEFINE c == s.parent[x]
            r == RemoveThing(s, c, x, n)
<1>0. s \in States /\ Tree(s) /\ Placed(s) /\ Counted(s) /\ x \in Thing /\ c \in Holder
  <2>1. s \in States /\ Tree(s) /\ Placed(s) /\ Counted(s) /\ x \in Thing
    BY Disjoint DEF Good, Tree
  <2>. QED
    BY <2>1, StateTypes DEF Where
<1>1. t = PostRemoveNotification(r, c, x)
  BY DEF InternalRemoveItem
<1>2. r = RemoveThing(s, c, x, n) /\ s.parent[x] = c
  OBVIOUS
<1>. HIDE DEF c, r
<1>3. Tree(r) /\ Removed(s, r, x, n)
  BY <1>0, <1>2, RemovedIs
<1>4. Loose(r) /\ Pieces(r) = Pieces(s) - n
  <2>1. n \in 1..ItemCount(s, x)
    BY DEF ItemCount
  <2>2. Loose(s)
    BY <1>0 DEF Loose
  <2>. QED
    BY <1>0, <1>3, <2>1, <2>2, RemovedLoose
<1>5. Tree(t) /\ SamePlaces(r, t) /\ t.count = r.count
  BY <1>1, <1>3, PostRemoveTree
<1>6. t.parent = r.parent /\ t.position = r.position
  BY <1>5 DEF SamePlaces
<1>7. Counted(t) /\ Pieces(t) = Pieces(r)
  <2>1. Counted(t)
    BY <1>4, <1>5, <1>6 DEF Loose, Counted
  <2>2. Pieces(t) = Pieces(r)
    BY <1>5, <1>6, PiecesSame DEF Piece
  <2>. QED
    BY <2>1, <2>2
<1>8. \A y \in Container \cup Plain : t.parent[y] = s.parent[y]
  BY <1>3, <1>6, Disjoint DEF Removed
<1>9. Placed(t)
  BY <1>0, <1>8 DEF Placed
<1>10. t.openContainers = s.openContainers
  <2>1. Opened(r, t, Told(r, c), x) /\ x \notin Container
    BY <1>1, <1>3, PostRemoveOpens, Disjoint
  <2>2. \A q \in Player : t.openContainers[q] = r.openContainers[q]
    BY <2>1 DEF Opened
  <2>3. r.openContainers = s.openContainers
    BY <1>3 DEF Removed, SameKept
  <2>. QED
    BY <1>0, <1>5, <2>2, <2>3 DEF States, Tree
<1>11. InReach(s) => InReach(t)
  <2>1. t.position = s.position
    BY <1>3, <1>6 DEF Removed
  <2>. QED
    BY <1>8, <1>10, <2>1, SameWindows
<1>. QED
  BY <1>4, <1>5, <1>7, <1>9, <1>11 DEF Good

-----------------------------------------------------------------------------

\* The state that the variables have after the step to s.
Forgotten(s) ==
    [s EXCEPT !.count = [x \in Stack |-> IF s.parent[x] = None THEN 0 ELSE s.count[x]]]

LEMMA ForgottenKept ==
    ASSUME NEW s, Good(s), NEW t, t = Forgotten(s)
    PROVE  Good(t) /\ Pieces(t) = Pieces(s) /\ (InReach(s) => InReach(t))
<1>0. s \in States /\ Tree(s) /\ Placed(s) /\ Counted(s)
  BY DEF Good, Tree
<1>1. /\ t \in States /\ SamePlaces(s, t) /\ t.openContainers = s.openContainers
      /\ \A x \in Stack : t.count[x] = IF s.parent[x] = None THEN 0 ELSE s.count[x]
  <2>. DEFINE f == [x \in Stack |-> IF s.parent[x] = None THEN 0 ELSE s.count[x]]
  <2>1. f \in [Stack -> Int] /\ t = [s EXCEPT !.count = f]
    BY <1>0, StateTypes DEF Forgotten
  <2>2. \A x \in Stack : f[x] = IF s.parent[x] = None THEN 0 ELSE s.count[x]
    OBVIOUS
  <2>. HIDE DEF f
  <2>3. t \in States /\ SamePlaces(s, t) /\ t.openContainers = s.openContainers /\ t.count = f
    BY <1>0, <2>1 DEF States, SamePlaces
  <2>. QED
    BY <2>2, <2>3
<1>2. t.parent = s.parent /\ t.position = s.position
  BY <1>1 DEF SamePlaces
<1>3. Tree(t)
  BY <1>0, <1>1, SameTree
<1>4. Placed(t) /\ Counted(t)
  BY <1>0, <1>1, <1>2 DEF Placed, Counted
<1>5. Pieces(t) = Pieces(s)
  BY <1>1, <1>2, PiecesSame DEF Piece
<1>6. InReach(s) => InReach(t)
  BY <1>1, <1>2, SameWindows
<1>. QED
  BY <1>3, <1>4, <1>5, <1>6 DEF Good

LEMMA BecomeIs ==
    ASSUME NEW s \in States, Become(s)
    PROVE  Now' = Forgotten(s)
<1>. DEFINE f == [x \in Stack |-> IF s.parent[x] = None THEN 0 ELSE s.count[x]]
<1>1. Now' = [parent |-> parent', count |-> count', itemlist |-> itemlist', inventory |-> inventory',
              totalWeight |-> totalWeight', inventoryWeight |-> inventoryWeight',
              openContainers |-> openContainers', position |-> position']
  BY DEF Now
<1>2. Now' = [parent |-> s.parent, count |-> f, itemlist |-> s.itemlist, inventory |-> s.inventory,
              totalWeight |-> s.totalWeight, inventoryWeight |-> s.inventoryWeight,
              openContainers |-> s.openContainers, position |-> s.position]
  BY <1>1 DEF Become
<1>3. Forgotten(s) = [s EXCEPT !.count = f]
  BY DEF Forgotten
<1>. HIDE DEF f
<1>. QED
  BY <1>2, <1>3 DEF States

-----------------------------------------------------------------------------

-----------------------------------------------------------------------------
(* The containers that a player carries.                                   *)

\* How deep a container is in others.
Depth(s, b) == Cardinality(Chain(s, b) \cap Container)

LEMMA DepthIs ==
    ASSUME NEW s, Rooted(s), NEW b \in Container
    PROVE  /\ Depth(s, b) \in 1..Cardinality(Container)
           /\ Depth(s, b) = IF s.parent[b] \in Container THEN Depth(s, s.parent[b]) + 1 ELSE 1
<1>. DEFINE c == s.parent[b]
            A == Chain(s, b) \cap Container
            B == Chain(s, c) \cap Container
<1>1. Chain(s, b) = {b} \cup Chain(s, c) /\ b \notin Chain(s, c)
  BY ChainUp, NoCycle
<1>2. A = B \cup {b} /\ b \notin B /\ A \subseteq Container /\ B \subseteq Container
  BY <1>1
<1>3. c \notin Container => B = {}
  BY ChainTop
<1>. HIDE DEF A, B
<1>4. IsFiniteSet(A) /\ IsFiniteSet(B)
  BY <1>2, Finite, FS_Subset
<1>5. Cardinality(A) \in Nat /\ Cardinality(B) \in Nat /\ Cardinality(A) <= Cardinality(Container)
  BY <1>2, <1>4, Finite, FS_Subset, FS_CardinalityType
<1>6. Cardinality(A) = Cardinality(B) + 1
  BY <1>2, <1>4, FS_AddElement
<1>7. c \notin Container => Cardinality(B) = 0
  BY <1>3, FS_EmptySet
<1>8. Depth(s, b) = Cardinality(A) /\ Depth(s, c) = Cardinality(B)
  BY DEF Depth, A, B
<1>9. Cardinality(Container) \in Nat
  BY Finite
<1>. HIDE DEF c
<1>10. /\ Depth(s, b) \in 1..Cardinality(Container)
       /\ Depth(s, b) = IF c \in Container THEN Depth(s, c) + 1 ELSE 1
  BY <1>5, <1>6, <1>7, <1>8, <1>9
<1>. QED
  BY <1>10 DEF c

\* Every container that a player carries is in its bags, but for x.
LEMMA BagsComplete ==
    ASSUME NEW s, Tree(s), NEW p \in Player, NEW x \in Stack, NEW c \in Container, HoldingPlayer(s, c) = p
    PROVE  Has(Bags(s, p, x), c)
<1>. DEFINE K == Cardinality(Container)
<1>0. s \in States /\ Rooted(s) /\ Agrees(s) /\ K \in Nat
  BY Finite DEF Tree
<1>1. PICK level \in [0..K -> Seq(Container)] :
                 /\ level[0] = BagsAmong(Worn(s, p), x)
                 /\ \A n \in 1..K : level[n] = BagsIn(s, x, level[n - 1])
                 /\ \A y : Has(Bags(s, p, x), y) <=> \E n \in 1..K : Has(level[n - 1], y)
  BY <1>0, BagsAre
<1>. DEFINE Missing == {b \in Container : Top(s, b) = p /\ ~Has(level[Depth(s, b) - 1], b)}
<1>2. \A b \in Container : b # x
  BY Disjoint
<1>3. ASSUME NEW b \in Missing, s.parent[b] \notin Missing PROVE FALSE
  <2>. DEFINE a == s.parent[b]
  <2>1. b \in Container /\ Top(s, b) = p /\ ~Has(level[Depth(s, b) - 1], b) /\ b \in Thing
    BY Disjoint
  <2>2. Top(s, a) = p
    BY <1>0, <2>1, TopParent
  <2>3. CASE a \in Container
    <3>. DEFINE n == Depth(s, a)
    <3>1. Has(level[n - 1], a)
      BY <1>3, <2>2, <2>3
    <3>2. Depth(s, b) = n + 1 /\ n \in 1..K /\ Depth(s, b) \in 1..K
      BY <1>0, <2>1, <2>3, DepthIs
    <3>3. Has(s.itemlist[a], b)
      <4>1. Lists(s.itemlist[a], Kids(s, a)) /\ b \in Kids(s, a)
        BY <1>0, <2>1, <2>3 DEF Agrees, Kids
      <4>. QED
        BY <4>1 DEF Lists, Has
    <3>. HIDE DEF n, a
    <3>4. n - 1 \in 0..K /\ Depth(s, b) - 1 = n
      BY <1>0, <3>2
    <3>5. level[n] = BagsIn(s, x, level[n - 1]) /\ level[n - 1] \in Seq(Container)
      BY <1>1, <3>2, <3>4
    <3>6. Has(BagsIn(s, x, level[n - 1]), b)
      <4>. DEFINE above == level[n - 1]
      <4>1. above \in Seq(Container) /\ Has(above, a)
        BY <3>1, <3>5
      <4>. HIDE DEF above
      <4>2. \A y : Has(BagsIn(s, x, above), y)
                      <=> y \in Container \ {x} /\ \E z : Has(above, z) /\ Has(s.itemlist[z], y)
        BY <1>0, <4>1, BagsInAre
      <4>3. b \in Container \ {x}
        BY <1>2, <2>1
      <4>4. Has(BagsIn(s, x, above), b)
        BY <3>3, <4>1, <4>2, <4>3
      <4>. QED
        BY <4>4 DEF above
    <3>. QED
      BY <2>1, <3>4, <3>5, <3>6
  <2>4. CASE a \notin Container
    <3>1. a = p
      BY <1>0, <2>2, <2>4, TopTop
    <3>2. Depth(s, b) = 1
      BY <1>0, <2>1, <2>4, DepthIs
    <3>3. \E i \in Slot : s.inventory[p][i] = b
      <4>1. Wears(s.inventory[p], Kids(s, p)) /\ b \in Kids(s, p)
        BY <1>0, <2>1, <3>1 DEF Agrees, Kids
      <4>. QED
        BY <4>1 DEF Wears
    <3>4. Has(level[0], b)
      BY <1>0, <1>1, <1>2, <2>1, <3>3, WornBags
    <3>5. Depth(s, b) - 1 = 0
      BY <3>2
    <3>. QED
      BY <2>1, <3>4, <3>5
  <2>. QED
    BY <2>3, <2>4
<1>4. Missing \in SUBSET Container
  OBVIOUS
<1>5. Missing = {}
  <2>. HIDE DEF Missing
  <2>. QED
    BY <1>0, <1>3, <1>4 DEF Rooted
<1>6. Top(s, c) = p
  BY <1>0, HoldingPlayerIs, Disjoint
<1>7. Has(level[Depth(s, c) - 1], c)
  BY <1>5, <1>6
<1>8. Depth(s, c) \in 1..K
  BY <1>0, DepthIs
<1>. HIDE DEF K
<1>. QED
  BY <1>1, <1>7, <1>8

\* And nothing else is.
LEMMA BagsHeld ==
    ASSUME NEW s, Tree(s), NEW p \in Player, NEW x, NEW c, Has(Bags(s, p, x), c)
    PROVE  c \in Container /\ HoldingPlayer(s, c) = p
<1>. DEFINE K == Cardinality(Container)
<1>0. s \in States /\ Rooted(s) /\ Agrees(s) /\ K \in Nat
  BY Finite DEF Tree
<1>1. PICK level \in [0..K -> Seq(Container)] :
                 /\ level[0] = BagsAmong(Worn(s, p), x)
                 /\ \A n \in 1..K : level[n] = BagsIn(s, x, level[n - 1])
                 /\ \A y : Has(Bags(s, p, x), y) <=> \E n \in 1..K : Has(level[n - 1], y)
  BY <1>0, BagsAre
<1>. DEFINE G == {n \in 0..K : \A b : Has(level[n], b) => b \in Container /\ Top(s, b) = p}
<1>2. 0 \in G
  <2>1. ASSUME NEW b, Has(level[0], b) PROVE b \in Container /\ Top(s, b) = p
    <3>1. b \in Container /\ \E i \in Slot : s.inventory[p][i] = b
      BY <1>0, <1>1, <2>1, WornBags
    <3>2. s.parent[b] = p
      BY <3>1, InSlot, Disjoint
    <3>. QED
      BY <1>0, <3>1, <3>2, TopParent, TopTop, Disjoint
  <2>. QED
    BY <1>0, <2>1
<1>3. ASSUME NEW n \in 0..K, n \in G, n # K PROVE n + 1 \in G
  <2>. DEFINE m == n + 1
  <2>1. m \in 1..K /\ m - 1 = n /\ m \in 0..K
    BY <1>0, <1>3
  <2>. HIDE DEF m
  <2>2. level[m] = BagsIn(s, x, level[n]) /\ level[n] \in Seq(Container)
    BY <1>1, <2>1
  <2>3. ASSUME NEW b, Has(level[m], b) PROVE b \in Container /\ Top(s, b) = p
    <3>1. PICK a : b \in Container /\ Has(level[n], a) /\ Has(s.itemlist[a], b)
      BY <1>0, <2>2, <2>3, BagsInAre
    <3>2. a \in Container /\ Top(s, a) = p
      BY <1>3, <3>1
    <3>3. s.parent[b] = a
      BY <3>1, <3>2, InList DEF Has
    <3>. QED
      BY <1>0, <3>1, <3>2, <3>3, TopParent
  <2>4. m \in G
    BY <2>1, <2>3
  <2>. QED
    BY <2>4 DEF m
<1>4. \A n \in 0..K : n \in G
  <2>. HIDE DEF G, K
  <2>. QED
    BY <1>0, <1>2, <1>3, UpTo
<1>5. PICK n \in 1..K : Has(level[n - 1], c)
  BY <1>1
<1>6. n - 1 \in 0..K
  BY <1>0
<1>7. c \in Container /\ Top(s, c) = p
  BY <1>4, <1>5, <1>6
<1>. QED
  BY <1>0, <1>7, HoldingPlayerIs

-----------------------------------------------------------------------------
(* How much a player has room for.                                         *)

LEMMA SumNought ==
    ASSUME NEW F, IsFiniteSet(F), NEW x \in F, NEW a \in [F \ {x} -> Int], NEW b \in [F -> Int],
           \A y \in F \ {x} : b[y] = a[y], b[x] = 0
    PROVE  SumFunction(b) = SumFunction(a)
<1>1. SumFunction(b) = SumFunction(a) + b[x]
  BY SumMore
<1>2. IsFiniteSet(F \ {x})
  BY FS_Subset
<1>3. SumFunction(a) \in Int
  BY <1>2, SumType
<1>. QED
  BY <1>1, <1>3

\* Summands that are nothing may be left out.
LEMMA SumOfSome ==
    ASSUME NEW D, IsFiniteSet(D), NEW E \in SUBSET D, NEW f \in [E -> Int], NEW g \in [D -> Int],
           \A x \in D : g[x] = IF x \in E THEN f[x] ELSE 0
    PROVE  SumFunction(g) = SumFunction(f)
<1>. DEFINE h(T) == [x \in E \cup T |-> g[x]]
            G == {T \in SUBSET (D \ E) : SumFunction(h(T)) = SumFunction(f)}
<1>1. \A T \in SUBSET (D \ E) : h(T) \in [E \cup T -> Int]
  OBVIOUS
<1>2. IsFiniteSet(D \ E)
  BY FS_Subset
<1>3. ASSUME NEW T \in SUBSET (D \ E), \A U \in SUBSET T : U # T => U \in G PROVE T \in G
  <2>1. CASE T = {}
    <3>1. E \cup T = E
      BY <2>1
    <3>2. h(T) = [x \in E |-> g[x]]
      BY <3>1
    <3>3. \A x \in E : g[x] = f[x]
      OBVIOUS
    <3>4. h(T) = f
      BY <3>2, <3>3
    <3>. HIDE DEF h
    <3>. QED
      BY <3>4
  <2>2. CASE T # {}
    <3>1. PICK x \in T : TRUE
      BY <2>2
    <3>. DEFINE U == T \ {x}
                F == E \cup T
                a == h(U)
                b == h(T)
    <3>2. U \in G
      BY <1>3
    <3>3. IsFiniteSet(F)
      <4>1. F \in SUBSET D
        OBVIOUS
      <4>. HIDE DEF F
      <4>. QED
        BY <4>1, FS_Subset
    <3>4. x \in F /\ F \ {x} = E \cup U
      OBVIOUS
    <3>5. a \in [F \ {x} -> Int] /\ b \in [F -> Int]
      <4>1. U \in SUBSET (D \ E)
        OBVIOUS
      <4>2. a \in [E \cup U -> Int] /\ b \in [E \cup T -> Int]
        BY <1>1, <4>1
      <4>. HIDE DEF a, b
      <4>. QED
        BY <3>4, <4>2
    <3>6. \A y \in F \ {x} : b[y] = a[y]
      BY <3>4
    <3>7. b[x] = 0
      BY <3>4
    <3>8. SumFunction(a) = SumFunction(f)
      BY <3>2
    <3>. HIDE DEF a, b, F
    <3>9. x \in F
      BY <3>4
    <3>10. SumFunction(b) = SumFunction(a)
      BY <3>3, <3>5, <3>6, <3>7, <3>9, SumNought
    <3>11. SumFunction(b) = SumFunction(f)
      BY <3>8, <3>10
    <3>. QED
      BY <3>11 DEF b
  <2>. QED
    BY <2>1, <2>2
<1>4. D \ E \in G
  <2>. DEFINE X == D \ E
  <2>0. \A T \in SUBSET X : (\A U \in SUBSET T : U # T => U \in G) => T \in G
    <3>. HIDE DEF G
    <3>. QED
      BY <1>3
  <2>. HIDE DEF G
  <2>2. IsFiniteSet(X)
    BY <1>2
  <2>. HIDE DEF X
  <2>3. \A T \in SUBSET X : T \in G
    BY <2>0, <2>2, SubsetInduction
  <2>1. \A T \in SUBSET (D \ E) : T \in G
    BY <2>3 DEF X
  <2>. QED
    BY <2>1
<1>5. E \cup (D \ E) = D
  OBVIOUS
<1>6. h(D \ E) = g
  BY <1>5
<1>. QED
  BY <1>4, <1>6

\* One summand less by at most k.
LEMMA SumLess ==
    ASSUME NEW D, IsFiniteSet(D), NEW f \in [D -> Int], NEW g \in [D -> Int], NEW x, NEW k \in Nat,
           \A y \in D : f[y] <= g[y] + (IF y = x THEN k ELSE 0)
    PROVE  SumFunction(f) <= SumFunction(g) + k
<1>1. SumFunction(f) \in Int /\ SumFunction(g) \in Int
  BY SumType
<1>2. CASE x \in D
  <2>. DEFINE h == [g EXCEPT ![x] = g[x] + k]
  <2>1. h \in [D -> Int] /\ h[x] = g[x] + k /\ \A y \in D \ {x} : h[y] = g[y]
    BY <1>2
  <2>. HIDE DEF h
  <2>2. \A y \in D : f[y] <= h[y]
    BY <2>1
  <2>3. SumFunction(f) <= SumFunction(h)
    BY <2>1, <2>2, SumGreater
  <2>4. SumFunction(h) = SumFunction(g) + (h[x] - g[x])
    BY <1>2, <2>1, SumOther
  <2>5. h[x] - g[x] = k /\ SumFunction(h) \in Int
    BY <1>2, <2>1, SumType
  <2>. QED
    BY <1>1, <2>3, <2>4, <2>5
<1>3. CASE x \notin D
  <2>1. \A y \in D : f[y] <= g[y]
    BY <1>3
  <2>2. SumFunction(f) <= SumFunction(g)
    BY <2>1, SumGreater
  <2>. QED
    BY <1>1, <2>2
<1>. QED
  BY <1>2, <1>3

LEMMA Less ==
    ASSUME NEW a \in Nat, NEW n \in Nat, NEW m \in 0..n
    PROVE  a * m <= a * n
<1>. DEFINE k == n - m
<1>1. k \in Nat /\ m \in Nat /\ n = m + k
  OBVIOUS
<1>2. a * k \in Nat /\ a * m \in Nat
  BY <1>1, Times
<1>3. a * (m + k) = a * m + a * k
  BY <1>1
<1>. HIDE DEF k
<1>. QED
  BY <1>1, <1>2, <1>3

-----------------------------------------------------------------------------

\* The summands of PlayerMaxCount
Asked(s, x, y) == IF y = None THEN ItemCount(s, x) ELSE RoomIn(s, y)

Counting(s, p, x) ==
    {i \in Slot : LET y == s.inventory[p][i]
                  IN  /\ y = None \/ (Equals(x, y) /\ s.count[y] < Full)
                      /\ PlayerQueryAdd(s, p, i, x, Asked(s, x, y)) = "ok"}

SlotRooms(s, p, x) ==
    [i \in Slot |-> IF i \in Counting(s, p, x) THEN SlotMaxCount(s, p, i, x, ItemCount(s, x)) ELSE 0]

Carried(s, p) == {c \in Container : HoldingPlayer(s, c) = p}

BagRooms(s, p, x) ==
    [c \in Carried(s, p) |-> ContainerMaxCount(s, c, INDEX_WHEREEVER, x, ItemCount(s, x))]

LEMMA SlotMaxType ==
    ASSUME NEW s, Good(s), NEW p \in Player, NEW x, NEW i \in Slot, NEW n
    PROVE  SlotMaxCount(s, p, i, x, n) \in Nat
<1>. DEFINE y == s.inventory[p][i]
<1>1. Equals(x, y) /\ y # None => y \in Stack /\ s.count[y] \in 1..Full
  <2>1. y # None => s.parent[y] = p /\ y \in Thing
    BY InSlot DEF Good
  <2>. QED
    BY <2>1, StackCount, Disjoint DEF Equals
<1>2. SlotMaxCount(s, p, i, x, n) = IF y # None
                                    THEN IF Equals(x, y) THEN RoomIn(s, y) ELSE 0
                                    ELSE IF PlayerQueryAdd(s, p, i, x, n) # "ok" THEN 0
                                    ELSE IF x \in Stack THEN Full ELSE 1
  BY DEF SlotMaxCount
<1>. HIDE DEF y
<1>3. Equals(x, y) /\ y # None => RoomIn(s, y) \in Nat
  BY <1>1, Numbers DEF RoomIn
<1>. QED
  BY <1>2, <1>3, Numbers

LEMMA RoomTypes ==
    ASSUME NEW s, Good(s), NEW p \in Player, NEW x
    PROVE  /\ SlotRooms(s, p, x) \in [Slot -> Nat] /\ BagRooms(s, p, x) \in [Carried(s, p) -> Nat]
           /\ IsFiniteSet(Carried(s, p))
<1>1. \A i \in Slot : SlotMaxCount(s, p, i, x, ItemCount(s, x)) \in Nat
  BY SlotMaxType
<1>2. SlotRooms(s, p, x) \in [Slot -> Nat]
  BY <1>1 DEF SlotRooms
<1>3. \A c \in Carried(s, p) : ContainerMaxCount(s, c, INDEX_WHEREEVER, x, ItemCount(s, x)) \in Nat
  <2>1. INDEX_WHEREEVER \in Int /\ INDEX_WHEREEVER >= -1
    BY DEF INDEX_WHEREEVER
  <2>2. \A c \in Carried(s, p) : c \in Container
    BY DEF Carried
  <2>. QED
    BY <2>1, <2>2, ContainerMaxIs
<1>4. BagRooms(s, p, x) \in [Carried(s, p) -> Nat]
  BY <1>3 DEF BagRooms
<1>5. IsFiniteSet(Carried(s, p))
  <2>1. Carried(s, p) \subseteq Container
    BY DEF Carried
  <2>. QED
    BY <2>1, Finite, FS_Subset
<1>. QED
  BY <1>2, <1>4, <1>5

LEMMA PlayerMaxIs ==
    ASSUME NEW s, Good(s), NEW p \in Player, NEW x
    PROVE  /\ PlayerMaxCount(s, p, x) = SumFunction(SlotRooms(s, p, x)) + SumFunction(BagRooms(s, p, x))
           /\ SumFunction(SlotRooms(s, p, x)) \in Nat /\ SumFunction(BagRooms(s, p, x)) \in Nat
<1>. DEFINE n == ItemCount(s, x)
            E == Counting(s, p, x)
            f == [i \in E |-> SlotMaxCount(s, p, i, x, n)]
            g == SlotRooms(s, p, x)
            b == BagRooms(s, p, x)
<1>1. PlayerMaxCount(s, p, x) = SumFunction(f) + SumFunction(b)
  BY DEF PlayerMaxCount, Counting, Asked, BagRooms, Carried
<1>2. /\ g \in [Slot -> Nat] /\ b \in [Carried(s, p) -> Nat] /\ IsFiniteSet(Carried(s, p))
      /\ IsFiniteSet(Slot)
  BY RoomTypes, Finite
<1>3. SumFunction(g) \in Nat /\ SumFunction(b) \in Nat
  <2>. HIDE DEF g, b
  <2>. QED
    BY <1>2, SumNat
<1>4. SumFunction(g) = SumFunction(f)
  <2>1. E \in SUBSET Slot
    BY DEF Counting
  <2>. HIDE DEF E, n
  <2>2. f \in [E -> Int]
    <3>1. \A i \in E : SlotMaxCount(s, p, i, x, n) \in Int
      BY <2>1, SlotMaxType
    <3>. QED
      BY <3>1
  <2>3. \A i \in Slot : g[i] = IF i \in E THEN f[i] ELSE 0
    BY DEF SlotRooms, E, n
  <2>4. g \in [Slot -> Int]
    <3>. HIDE DEF g
    <3>. QED
      BY <1>2
  <2>. HIDE DEF f, g
  <2>. QED
    BY <1>2, <2>1, <2>2, <2>3, <2>4, SumOfSome
<1>. QED
  BY <1>1, <1>3, <1>4

-----------------------------------------------------------------------------
(* What a player can take, it can put somewhere.                           *)

LEMMA HandAny ==
    ASSUME NEW hand, NEW s, NEW t, NEW x, NEW y, x # y, NEW n, NEW m, HandTakes(hand, s, x, n, y)
    PROVE  HandTakes(hand, t, x, m, y)
BY DEF HandTakes

\* A slot takes any number of x, which is nowhere, or none.
LEMMA SlotAny ==
    ASSUME NEW s, Tree(s), NEW t, SamePlaces(s, t), NEW p \in Player, NEW i, NEW x \in Thing,
           s.parent[x] = None, NEW n, NEW m, SlotTakes(s, p, i, x, n)
    PROVE  SlotTakes(t, p, i, x, m)
<1>1. \A j \in Slot : s.inventory[p][j] # x
  BY InSlot, Disjoint
<1>2. t.inventory = s.inventory
  BY DEF SamePlaces
<1>3. CONST_SLOT_RIGHT \in Slot /\ CONST_SLOT_LEFT \in Slot
  BY CylindersAssumption
<1>. DEFINE l == s.inventory[p][CONST_SLOT_LEFT]
            r == s.inventory[p][CONST_SLOT_RIGHT]
<1>4. x # l /\ x # r
  BY <1>1, <1>3
<1>. HIDE DEF l, r
<1>5. HandTakes(i, s, x, n, l) => HandTakes(i, t, x, m, l)
  BY <1>4, HandAny
<1>6. HandTakes(i, s, x, n, r) => HandTakes(i, t, x, m, r)
  BY <1>4, HandAny
<1>7. \/ i = CONST_SLOT_BACKPACK /\ x \in Container
      \/ i = CONST_SLOT_RIGHT /\ HandTakes(i, s, x, n, l)
      \/ i = CONST_SLOT_LEFT /\ HandTakes(i, s, x, n, r)
  BY DEF SlotTakes, l, r
<1>8. \/ i = CONST_SLOT_BACKPACK /\ x \in Container
      \/ i = CONST_SLOT_RIGHT /\ HandTakes(i, t, x, m, l)
      \/ i = CONST_SLOT_LEFT /\ HandTakes(i, t, x, m, r)
  BY <1>5, <1>6, <1>7
<1>. QED
  BY <1>2, <1>8 DEF SlotTakes, l, r

LEMMA SlotAdd ==
    ASSUME NEW s, NEW p, NEW i \in Slot, NEW x, NEW n, SlotTakes(s, p, i, x, n), HasCapacity(s, p, x, n),
           s.inventory[p][i] = None \/ Equals(s.inventory[p][i], x)
    PROVE  PlayerQueryAdd(s, p, i, x, n) = "ok"
BY DEF PlayerQueryAdd

\* In a container that is carried x finds a place, but for its size.
LEMMA BagAdd ==
    ASSUME NEW s, Good(s), NEW p \in Player, NEW c \in Container, HoldingPlayer(s, c) = p,
           NEW x \in Stack, NEW n, HasCapacity(s, p, x, n), NEW i \in Nat
    PROVE  ContainerQueryAdd(s, c, i, x, n)
<1>1. x \notin Chain(s, c)
  BY ChainHolder DEF Good, Tree, Where, Holder
<1>2. i # INDEX_WHEREEVER
  BY DEF INDEX_WHEREEVER
<1>. QED
  BY <1>1, <1>2 DEF ContainerQueryAdd

\* Where there is no place for it, a player says that there is none.
LEMMA NoPlaceNoRoom ==
    ASSUME NEW s, Good(s), NEW p \in Player, NEW x \in Stack, s.parent[x] = None,
           HasCapacity(s, p, x, s.count[x]), NEW e, NoPlace(s, p, x, e)
    PROVE  PlayerMaxCount(s, p, x) = 0
<1>0. Tree(s) /\ s \in States /\ x \in Thing /\ ItemCount(s, x) = s.count[x] /\ x # None
  BY Disjoint DEF Good, Tree, ItemCount
<1>1. ASSUME NEW i \in Counting(s, p, x) PROVE FALSE
  <2>. DEFINE y == s.inventory[p][i]
              n == s.count[x]
  <2>0. i \in Slot
    BY DEF Counting
  <2>1. /\ y = None \/ (Equals(x, y) /\ s.count[y] < Full)
        /\ PlayerQueryAdd(s, p, i, x, Asked(s, x, y)) = "ok"
    BY DEF Counting
  <2>2. SlotTakes(s, p, i, x, Asked(s, x, y))
    BY <2>1, SlotOk
  <2>3. SlotTakes(s, p, i, x, n)
    BY <1>0, <2>2, SlotAny DEF SamePlaces
  <2>4. y # x
    <3>1. y # None => s.parent[y] = p
      BY <1>0, <2>0, InSlot
    <3>. HIDE DEF y
    <3>. QED
      BY <1>0, <3>1, Disjoint
  <2>5. y = None \/ (Equals(y, x) /\ s.count[y] < Full)
    BY <2>1 DEF Equals
  <2>6. PlayerQueryAdd(s, p, i, x, n) = "ok"
    <3>1. y = None \/ Equals(y, x)
      BY <2>5
    <3>2. HasCapacity(s, p, x, n)
      OBVIOUS
    <3>. HIDE DEF n
    <3>. QED
      BY <2>0, <2>3, <3>1, <3>2, SlotAdd
  <2>7. OpenSlot(s, p, i, x)
    BY <1>0, <2>4, <2>5, <2>6 DEF OpenSlot
  <2>8. ~OpenSlot(s, p, i, x)
    BY <2>0 DEF NoPlace
  <2>. QED
    BY <2>7, <2>8
<1>2. \A i \in Slot : SlotRooms(s, p, x)[i] = 0
  BY <1>1 DEF SlotRooms
<1>3. ASSUME NEW c \in Carried(s, p) PROVE BagRooms(s, p, x)[c] = 0
  <2>. DEFINE l == s.itemlist[c]
              n == s.count[x]
  <2>1. c \in Container /\ HoldingPlayer(s, c) = p
    BY DEF Carried
  <2>2. ~OpenBag(s, c, x)
    BY <1>0, <2>1, BagsComplete DEF NoPlace
  <2>3. Len(l) \in Nat /\ DOMAIN l = 1..Len(l)
    BY <1>0, <2>1, Sizes
  <2>4. ContainerQueryAdd(s, c, Len(l), x, n)
    BY <2>1, <2>3, BagAdd
  <2>5. Stackable(s, c, x) = 0 /\ ~(Len(l) < Capacity)
    BY <1>0, <2>2, <2>4 DEF OpenBag
  <2>6. \A k \in 1..Len(l) : ~(l[k] # x /\ Equals(l[k], x) /\ s.count[l[k]] < Full)
    <3>. DEFINE found == {k \in DOMAIN l : l[k] # x /\ Equals(l[k], x) /\ s.count[l[k]] < Full}
    <3>1. Stackable(s, c, x) = IF found = {} THEN 0 ELSE Min(found)
      BY DEF Stackable
    <3>2. \A k \in found : k \in Nat /\ k # 0
      BY <2>3
    <3>. HIDE DEF found
    <3>3. found # {} => Min(found) # 0
      BY <3>2, MinIn
    <3>4. found = {}
      BY <2>5, <3>1, <3>3
    <3>. QED
      BY <2>3, <3>4 DEF found
  <2>7. ASSUME NEW k \in Growing(s, c, INDEX_WHEREEVER, x) PROVE Rooms(s, c, INDEX_WHEREEVER, x)[k] = 0
    <3>1. k \in 1..Len(l) /\ l[k] # x /\ Equals(x, l[k])
      BY <2>3 DEF Growing
    <3>2. l[k] \in Stack /\ s.count[l[k]] \in 1..Full
      BY <1>0, <2>1, <3>1, InList, StackCount, Disjoint DEF Equals
    <3>3. ~(s.count[l[k]] < Full)
      BY <2>6, <3>1 DEF Equals
    <3>4. RoomIn(s, l[k]) = 0
      BY <3>2, <3>3, Numbers DEF RoomIn
    <3>. QED
      BY <3>4 DEF Rooms
  <2>8. SumFunction(Rooms(s, c, INDEX_WHEREEVER, x)) = 0
    BY <2>1, <2>7, RoomsAre, SumZero
  <2>9. INDEX_WHEREEVER \in Int /\ INDEX_WHEREEVER >= -1
    BY DEF INDEX_WHEREEVER
  <2>10. ContainerMaxCount(s, c, INDEX_WHEREEVER, x, n) = 0
    BY <2>1, <2>5, <2>8, <2>9, ContainerMaxIs
  <2>. QED
    BY <1>0, <2>10 DEF BagRooms
<1>4. SumFunction(SlotRooms(s, p, x)) = 0
  BY <1>2, RoomTypes, Finite, SumZero
<1>5. SumFunction(BagRooms(s, p, x)) = 0
  BY <1>3, RoomTypes, SumZero
<1>. QED
  BY <1>4, <1>5, PlayerMaxIs

LEMMA PlaceTakes ==
    ASSUME NEW s, Good(s), NEW p \in Player, NEW x \in Stack, s.parent[x] = None,
           NEW n, n = s.count[x], HasCapacity(s, p, x, n), PlayerMaxCount(s, p, x) # 0,
           NEW e, PlacedFor(s, p, x, e)
    PROVE  QueryAdd(s, e.to, e.index, x, n) = "ok"
<1>0. Tree(s) /\ s \in States /\ ItemCount(s, x) = n
  BY DEF Good, Tree, ItemCount
<1>1. CASE SlotPlace(s, p, x, e)
  BY <1>0, <1>1 DEF SlotPlace, OpenSlot, QueryAdd
<1>2. CASE BagPlace(s, p, x, e)
  <2>1. e.to \in Container /\ HoldingPlayer(s, e.to) = p /\ e.index = Len(s.itemlist[e.to])
    BY <1>0, <1>2, BagsHeld DEF BagPlace
  <2>2. e.index \in Nat
    BY <1>0, <2>1, Sizes
  <2>3. ContainerQueryAdd(s, e.to, e.index, x, n)
    BY <2>1, <2>2, BagAdd
  <2>. QED
    BY <2>1, <2>3, Disjoint DEF QueryAdd
<1>3. CASE NoPlace(s, p, x, e)
  BY <1>3, NoPlaceNoRoom
<1>. QED
  BY <1>1, <1>2, <1>3 DEF PlacedFor

-----------------------------------------------------------------------------
(* What room is left when a stack was filled.                              *)

\* In w the stack y is filled, with k of the x that v has to put somewhere.
Filled(v, w, x, y, k) ==
    /\ Good(v) /\ Good(w) /\ SamePlaces(v, w) /\ w.inventoryWeight = v.inventoryWeight
    /\ x \in Stack /\ y \in Stack /\ x # y /\ v.parent[x] = None /\ v.parent[y] # None
    /\ k \in Nat /\ v.count[y] = Full - k /\ w.count[y] = Full
    /\ v.count[x] \in Nat /\ w.count[x] \in 0..v.count[x]
    /\ \A z \in Stack : z # x /\ z # y => w.count[z] = v.count[z]

\* Fewer of x find a place where more do.
LEMMA FewerWeigh ==
    ASSUME NEW v, NEW w, NEW x, NEW y, NEW k, Filled(v, w, x, y, k), NEW p \in Player,
           NEW n \in Nat, NEW m \in 0..n, HasCapacity(v, p, x, n)
    PROVE  HasCapacity(w, p, x, m)
<1>1. /\ x \in Stack /\ v.parent[x] = None /\ w.parent[x] = None
      /\ w.inventoryWeight = v.inventoryWeight /\ v \in States
  BY DEF Filled, SamePlaces, Good, Tree
<1>2. Weight[x] * n <= Strength[p] - v.inventoryWeight[p]
  BY <1>1 DEF HasCapacity
<1>3. /\ Weight[x] \in Nat /\ Strength[p] \in Int /\ v.inventoryWeight[p] \in Int /\ m \in Nat
  BY <1>1, StateTypes, Disjoint, CylindersAssumption
<1>4. Weight[x] * m <= Weight[x] * n /\ Weight[x] * m \in Nat /\ Weight[x] * n \in Nat
  BY <1>3, Less, Times
<1>. DEFINE a == Weight[x] * m
            b == Weight[x] * n
            c == Strength[p] - v.inventoryWeight[p]
<1>5. c \in Int
  BY <1>3
<1>. HIDE DEF a, b, c
<1>6. a <= b /\ a \in Nat /\ b \in Nat /\ b <= c
  BY <1>2, <1>4 DEF a, b, c
<1>7. a <= c
  BY <1>5, <1>6
<1>. QED
  BY <1>1, <1>7 DEF HasCapacity, a, c

LEMMA FewerAdd ==
    ASSUME NEW v, NEW w, NEW x, NEW y, NEW k, Filled(v, w, x, y, k), NEW p \in Player, NEW i \in Slot,
           NEW n \in Nat, NEW m \in 0..n, PlayerQueryAdd(v, p, i, x, n) = "ok"
    PROVE  PlayerQueryAdd(w, p, i, x, m) = "ok"
<1>1. /\ Tree(v) /\ SamePlaces(v, w) /\ w.inventory = v.inventory /\ x \in Thing /\ v.parent[x] = None
  BY Disjoint DEF Filled, SamePlaces, Good
<1>2. /\ SlotTakes(v, p, i, x, n) /\ HasCapacity(v, p, x, n)
      /\ v.inventory[p][i] = None \/ Equals(v.inventory[p][i], x)
  BY SlotOk
<1>3. SlotTakes(w, p, i, x, m)
  BY <1>1, <1>2, SlotAny
<1>4. HasCapacity(w, p, x, m)
  BY <1>2, FewerWeigh
<1>. QED
  BY <1>1, <1>2, <1>3, <1>4, SlotAdd

LEMMA FewerIn ==
    ASSUME NEW v, NEW w, NEW x, NEW y, NEW k, Filled(v, w, x, y, k), NEW c \in Container, NEW i \in Nat,
           NEW n \in Nat, NEW m \in 0..n, ContainerQueryAdd(v, c, i, x, n)
    PROVE  ContainerQueryAdd(w, c, i, x, m)
<1>1. SamePlaces(v, w)
  BY DEF Filled
<1>2. /\ Chain(w, c) = Chain(v, c) /\ HoldingPlayer(w, c) = HoldingPlayer(v, c)
      /\ HoldingPlayer(v, c) \in Player \cup {None}
  BY <1>1, SameReach, HoldingPlayerType
<1>3. i # INDEX_WHEREEVER
  BY DEF INDEX_WHEREEVER
<1>. DEFINE p == HoldingPlayer(v, c)
<1>4. x \notin Chain(v, c) /\ (p # None => HasCapacity(v, p, x, n))
  BY DEF ContainerQueryAdd
<1>. HIDE DEF p
<1>5. p # None => HasCapacity(w, p, x, m)
  BY <1>2, <1>4, FewerWeigh DEF p
<1>. QED
  BY <1>2, <1>3, <1>4, <1>5 DEF ContainerQueryAdd, p

\* A slot has as much room, but for the k that y took.
LEMMA SlotLess ==
    ASSUME NEW v, NEW w, NEW x, NEW y, NEW k, Filled(v, w, x, y, k), NEW p \in Player, NEW i \in Slot
    PROVE  SlotRooms(v, p, x)[i] <= SlotRooms(w, p, x)[i] + (IF v.inventory[p][i] = y THEN k ELSE 0)
<1>. DEFINE z == v.inventory[p][i]
            n == v.count[x]
            m == w.count[x]
<1>1. /\ Good(v) /\ Good(w) /\ Tree(v) /\ w.inventory = v.inventory /\ x \in Thing /\ v.parent[x] = None
      /\ x \in Stack /\ y \in Stack /\ x # y /\ y # None
      /\ k \in Nat /\ v.count[y] = Full - k /\ w.count[y] = Full /\ n \in Nat /\ m \in 0..n
      /\ \A u \in Stack : u # x /\ u # y => w.count[u] = v.count[u]
  BY Disjoint DEF Filled, SamePlaces, Good
<1>2. ItemCount(v, x) = n /\ ItemCount(w, x) = m
  BY <1>1 DEF ItemCount
<1>3. z # x
  <2>1. z # None => v.parent[z] = p
    BY <1>1, InSlot
  <2>. HIDE DEF z
  <2>. QED
    BY <1>1, <2>1, Disjoint
<1>4. SlotRooms(v, p, x)[i] \in Nat /\ SlotRooms(w, p, x)[i] \in Nat
  BY <1>1, RoomTypes
<1>5. CASE i \notin Counting(v, p, x)
  <2>1. SlotRooms(v, p, x)[i] = 0
    BY <1>5 DEF SlotRooms
  <2>. QED
    BY <1>1, <1>4, <2>1
<1>6. CASE i \in Counting(v, p, x)
  <2>1. /\ z = None \/ (Equals(x, z) /\ v.count[z] < Full)
        /\ PlayerQueryAdd(v, p, i, x, Asked(v, x, z)) = "ok"
    BY <1>6 DEF Counting
  <2>2. SlotRooms(v, p, x)[i] = SlotMaxCount(v, p, i, x, n)
    BY <1>2, <1>6 DEF SlotRooms
  <2>3. CASE z = None
    <3>1. PlayerQueryAdd(v, p, i, x, n) = "ok"
      BY <1>2, <2>1, <2>3 DEF Asked
    <3>2. PlayerQueryAdd(w, p, i, x, m) = "ok"
      BY <1>1, <3>1, FewerAdd
    <3>3. i \in Counting(w, p, x)
      BY <1>1, <1>2, <2>3, <3>2 DEF Counting, Asked
    <3>4. SlotRooms(w, p, x)[i] = SlotMaxCount(w, p, i, x, m)
      BY <1>2, <3>3 DEF SlotRooms
    <3>5. SlotMaxCount(w, p, i, x, m) = Full
      BY <1>1, <2>3, <3>2 DEF SlotMaxCount
    <3>6. SlotMaxCount(v, p, i, x, n) = Full
      BY <1>1, <2>3, <3>1 DEF SlotMaxCount
    <3>7. z # y
      BY <1>1, <2>3
    <3>. QED
      BY <2>2, <3>4, <3>5, <3>6, <3>7, Numbers
  <2>4. CASE z # None /\ z = y
    <3>1. Equals(x, z)
      BY <1>1, <2>4 DEF Equals
    <3>2. SlotMaxCount(v, p, i, x, n) = RoomIn(v, z)
      BY <2>4, <3>1 DEF SlotMaxCount
    <3>3. RoomIn(v, z) = k
      BY <1>1, <2>4, Numbers DEF RoomIn
    <3>. HIDE DEF z
    <3>. QED
      BY <1>1, <1>4, <2>2, <2>4, <3>2, <3>3 DEF z
  <2>5. CASE z # None /\ z # y
    <3>1. Equals(x, z) /\ z \in Stack /\ v.count[z] < Full
      BY <2>1, <2>5 DEF Equals
    <3>2. w.count[z] = v.count[z]
      BY <1>1, <1>3, <2>5, <3>1
    <3>3. RoomIn(w, z) = RoomIn(v, z)
      BY <3>2 DEF RoomIn
    <3>4. RoomIn(v, z) \in Nat
      <4>1. v.parent[z] = p /\ z \in Thing
        BY <1>1, <2>5, InSlot
      <4>2. v.count[z] \in 1..Full
        BY <1>1, <3>1, <4>1, StackCount, Disjoint
      <4>. QED
        BY <4>2, Numbers DEF RoomIn
    <3>5. PlayerQueryAdd(v, p, i, x, RoomIn(v, z)) = "ok"
      BY <2>1, <2>5 DEF Asked
    <3>6. PlayerQueryAdd(w, p, i, x, RoomIn(w, z)) = "ok"
      <4>. DEFINE r == RoomIn(v, z)
      <4>1. r \in Nat /\ r \in 0..r
        BY <3>4
      <4>2. PlayerQueryAdd(v, p, i, x, r) = "ok"
        BY <3>5
      <4>. HIDE DEF r
      <4>3. PlayerQueryAdd(w, p, i, x, r) = "ok"
        BY <4>1, <4>2, FewerAdd
      <4>. QED
        BY <3>3, <4>3 DEF r
    <3>7. i \in Counting(w, p, x)
      BY <1>1, <2>5, <3>1, <3>2, <3>6 DEF Counting, Asked
    <3>8. SlotRooms(w, p, x)[i] = SlotMaxCount(w, p, i, x, m)
      BY <1>2, <3>7 DEF SlotRooms
    <3>9. SlotMaxCount(w, p, i, x, m) = RoomIn(w, z) /\ SlotMaxCount(v, p, i, x, n) = RoomIn(v, z)
      BY <1>1, <2>5, <3>1 DEF SlotMaxCount
    <3>. QED
      BY <2>2, <2>5, <3>3, <3>4, <3>8, <3>9
  <2>. QED
    BY <2>3, <2>4, <2>5
<1>. QED
  BY <1>5, <1>6

FreeIn(s, c) == IF Len(s.itemlist[c]) < Capacity THEN Capacity - Len(s.itemlist[c]) ELSE 0

LEMMA StackMaxIs ==
    ASSUME NEW s, NEW c, NEW i, NEW x \in Stack, NEW n
    PROVE  ContainerMaxCount(s, c, i, x, n) =
              FreeIn(s, c) * Full
              + (IF ContainerQueryAdd(s, c, 0, x, n) THEN SumFunction(Rooms(s, c, i, x)) ELSE 0)
BY DEF ContainerMaxCount, FreeIn, Rooms, Growing

\* The stacks in c have as much room, but for the k that y took.
LEMMA RoomsLess ==
    ASSUME NEW v, NEW w, NEW x, NEW y, NEW k, Filled(v, w, x, y, k), NEW c \in Container, NEW i
    PROVE  SumFunction(Rooms(v, c, i, x))
              <= SumFunction(Rooms(w, c, i, x)) + (IF v.parent[y] = c THEN k ELSE 0)
<1>. DEFINE l == v.itemlist[c]
            D == Growing(v, c, i, x)
            f == Rooms(v, c, i, x)
            g == Rooms(w, c, i, x)
<1>1. /\ Good(v) /\ Good(w) /\ Tree(v) /\ w.itemlist = v.itemlist
      /\ k \in Nat /\ v.count[y] = Full - k /\ w.count[y] = Full
      /\ \A u \in Stack : u # x /\ u # y => w.count[u] = v.count[u]
  BY DEF Filled, SamePlaces, Good
<1>2. Growing(w, c, i, x) = D
  BY <1>1 DEF Growing
<1>3. IsFiniteSet(D) /\ f \in [D -> Nat] /\ g \in [D -> Nat]
  BY <1>1, <1>2, RoomsAre
<1>4. \A j \in D : l[j] # x /\ l[j] \in Stack
  BY DEF Growing, Equals
<1>5. \A j \in D : j \in 1..Len(l) /\ v.parent[l[j]] = c
  BY <1>1, RoomsAre, InList
<1>6. \A j \in D : f[j] = RoomIn(v, l[j]) /\ g[j] = RoomIn(w, l[j])
  BY <1>1, <1>2 DEF Rooms
<1>7. \A j \in D : l[j] # y => f[j] = g[j]
  BY <1>1, <1>4, <1>6 DEF RoomIn
<1>8. \A j \in D : l[j] = y => f[j] = k
  BY <1>1, <1>6, Numbers DEF RoomIn
<1>9. SumFunction(f) \in Nat /\ SumFunction(g) \in Nat
  BY <1>1, RoomsAre
<1>10. f \in [D -> Int] /\ g \in [D -> Int]
  <2>. HIDE DEF f, g, D
  <2>. QED
    BY <1>3
<1>11. \A j \in D : f[j] \in Nat /\ g[j] \in Nat
  <2>. HIDE DEF f, g, D
  <2>. QED
    BY <1>3
<1>12. CASE \E j \in D : l[j] = y
  <2>1. PICK j \in D : l[j] = y
    BY <1>12
  <2>2. v.parent[y] = c
    BY <1>5, <2>1
  <2>3. \A h \in D : l[h] = y => h = j
    <3>1. Lists(l, Kids(v, c))
      BY <1>1 DEF Tree, Agrees
    <3>. QED
      BY <1>5, <2>1, <3>1 DEF Lists
  <2>4. \A h \in D : f[h] <= g[h] + (IF h = j THEN k ELSE 0)
    <3>. HIDE DEF f, g, D, l
    <3>. QED
      BY <1>1, <1>7, <1>8, <1>11, <2>1, <2>3
  <2>5. SumFunction(f) <= SumFunction(g) + k
    <3>. HIDE DEF f, g, D, l
    <3>. QED
      BY <1>1, <1>3, <1>10, <2>4, SumLess
  <2>. QED
    BY <2>2, <2>5
<1>13. CASE ~\E j \in D : l[j] = y
  <2>1. \A h \in D : f[h] <= g[h]
    <3>. HIDE DEF f, g, D, l
    <3>. QED
      BY <1>7, <1>11, <1>13
  <2>2. SumFunction(f) <= SumFunction(g)
    <3>. HIDE DEF f, g, D, l
    <3>. QED
      BY <1>3, <1>10, <2>1, SumGreater
  <2>. QED
    BY <1>1, <1>9, <2>2
<1>. QED
  BY <1>12, <1>13

\* And so has a bag.
LEMMA BagLess ==
    ASSUME NEW v, NEW w, NEW x, NEW y, NEW k, Filled(v, w, x, y, k), NEW p \in Player
    PROVE  /\ Carried(w, p) = Carried(v, p)
           /\ \A c \in Carried(v, p) :
                 BagRooms(v, p, x)[c] <= BagRooms(w, p, x)[c] + (IF v.parent[y] = c THEN k ELSE 0)
<1>1. /\ Good(v) /\ Good(w) /\ SamePlaces(v, w) /\ w.itemlist = v.itemlist /\ x \in Stack /\ k \in Nat
      /\ v.count[x] \in Nat /\ w.count[x] \in 0..v.count[x]
  BY DEF Filled, SamePlaces
<1>2. Carried(w, p) = Carried(v, p)
  BY <1>1, SameReach DEF Carried
<1>3. ASSUME NEW c \in Carried(v, p)
      PROVE  BagRooms(v, p, x)[c] <= BagRooms(w, p, x)[c] + (IF v.parent[y] = c THEN k ELSE 0)
  <2>. DEFINE n == v.count[x]
              m == w.count[x]
              a == SumFunction(Rooms(v, c, INDEX_WHEREEVER, x))
              b == SumFunction(Rooms(w, c, INDEX_WHEREEVER, x))
              e == IF v.parent[y] = c THEN k ELSE 0
              V == IF ContainerQueryAdd(v, c, 0, x, n) THEN a ELSE 0
              W == IF ContainerQueryAdd(w, c, 0, x, m) THEN b ELSE 0
              F == FreeIn(v, c) * Full
  <2>1. c \in Container
    BY DEF Carried
  <2>2. /\ BagRooms(v, p, x)[c] = ContainerMaxCount(v, c, INDEX_WHEREEVER, x, n)
        /\ BagRooms(w, p, x)[c] = ContainerMaxCount(w, c, INDEX_WHEREEVER, x, m)
    BY <1>1, <1>2 DEF BagRooms, ItemCount
  <2>3. FreeIn(w, c) = FreeIn(v, c)
    BY <1>1 DEF FreeIn
  <2>4. BagRooms(v, p, x)[c] = F + V /\ BagRooms(w, p, x)[c] = F + W
    BY <1>1, <2>2, <2>3, StackMaxIs
  <2>5. a \in Nat /\ b \in Nat /\ a <= b + e /\ e \in Nat
    BY <1>1, <2>1, RoomsAre, RoomsLess
  <2>6. ContainerQueryAdd(v, c, 0, x, n) => ContainerQueryAdd(w, c, 0, x, m)
    BY <1>1, <2>1, FewerIn
  <2>7. V <= W + e /\ V \in Nat /\ W \in Nat
    <3>. HIDE DEF a, b, e, n, m
    <3>. QED
      BY <2>5, <2>6
  <2>8. F \in Nat
    <3>1. Len(v.itemlist[c]) \in Nat
      BY <1>1, <2>1, Sizes DEF Good, Tree
    <3>2. FreeIn(v, c) \in Nat
      BY <3>1, Numbers DEF FreeIn
    <3>. QED
      BY <3>2, Numbers, Times
  <2>. HIDE DEF V, W, F, e
  <2>9. BagRooms(v, p, x)[c] <= BagRooms(w, p, x)[c] + e
    BY <2>4, <2>5, <2>7, <2>8
  <2>. QED
    BY <2>9 DEF e
<1>. QED
  BY <1>2, <1>3

\* Altogether a player has as much room, but for the k that y took.
LEMMA PlayerLess ==
    ASSUME NEW v, NEW w, NEW x, NEW y, NEW k, Filled(v, w, x, y, k), NEW p \in Player
    PROVE  PlayerMaxCount(v, p, x) <= PlayerMaxCount(w, p, x) + k
<1>. DEFINE f == SlotRooms(v, p, x)
            g == SlotRooms(w, p, x)
            a == BagRooms(v, p, x)
            b == BagRooms(w, p, x)
            C == Carried(v, p)
<1>1. /\ Good(v) /\ Good(w) /\ Tree(v) /\ k \in Nat
  BY DEF Filled, Good
<1>2. /\ f \in [Slot -> Nat] /\ g \in [Slot -> Nat] /\ a \in [C -> Nat] /\ b \in [C -> Nat]
      /\ IsFiniteSet(C) /\ IsFiniteSet(Slot)
  BY <1>1, RoomTypes, BagLess, Finite
<1>3. \A i \in Slot : f[i] <= g[i] + (IF v.inventory[p][i] = y THEN k ELSE 0)
  BY SlotLess
<1>4. \A c \in C : a[c] <= b[c] + (IF c = v.parent[y] THEN k ELSE 0)
  BY BagLess
<1>5. /\ PlayerMaxCount(v, p, x) = SumFunction(f) + SumFunction(a)
      /\ PlayerMaxCount(w, p, x) = SumFunction(g) + SumFunction(b)
      /\ SumFunction(f) \in Nat /\ SumFunction(a) \in Nat
      /\ SumFunction(g) \in Nat /\ SumFunction(b) \in Nat
  BY <1>1, PlayerMaxIs
<1>. HIDE DEF f, g, a, b
<1>6. CASE \E i \in Slot : v.inventory[p][i] = y
  <2>1. PICK i \in Slot : v.inventory[p][i] = y
    BY <1>6
  <2>2. y # None
    BY Disjoint DEF Filled
  <2>3. v.parent[y] = p
    BY <1>1, <2>1, <2>2, InSlot
  <2>4. \A j \in Slot : v.inventory[p][j] = y => j = i
    <3>1. Wears(v.inventory[p], Kids(v, p))
      BY <1>1 DEF Tree, Agrees
    <3>. QED
      BY <2>1, <2>2, <3>1 DEF Wears
  <2>5. \A j \in Slot : f[j] <= g[j] + (IF j = i THEN k ELSE 0)
    <3>1. \A j \in Slot : f[j] \in Nat /\ g[j] \in Nat
      BY <1>2
    <3>. QED
      BY <1>1, <1>3, <2>1, <2>4, <3>1
  <2>6. \A c \in C : c # p
    BY Disjoint DEF Carried
  <2>7. \A c \in C : a[c] <= b[c]
    <3>1. \A c \in C : a[c] \in Nat /\ b[c] \in Nat
      BY <1>2
    <3>. HIDE DEF C
    <3>. QED
      BY <1>4, <2>3, <2>6, <3>1
  <2>8. f \in [Slot -> Int] /\ g \in [Slot -> Int] /\ a \in [C -> Int] /\ b \in [C -> Int]
    BY <1>2
  <2>9. SumFunction(f) <= SumFunction(g) + k
    BY <1>1, <1>2, <2>5, <2>8, SumLess
  <2>10. SumFunction(a) <= SumFunction(b)
    <3>. HIDE DEF C
    <3>. QED
      BY <1>2, <2>7, <2>8, SumGreater
  <2>. QED
    BY <1>1, <1>5, <2>9, <2>10
<1>7. CASE ~\E i \in Slot : v.inventory[p][i] = y
  <2>1. \A j \in Slot : f[j] <= g[j]
    <3>1. \A j \in Slot : f[j] \in Nat /\ g[j] \in Nat
      BY <1>2
    <3>. QED
      BY <1>3, <1>7, <3>1
  <2>2. f \in [Slot -> Int] /\ g \in [Slot -> Int] /\ a \in [C -> Int] /\ b \in [C -> Int]
    BY <1>2
  <2>3. SumFunction(f) <= SumFunction(g)
    BY <1>2, <2>1, <2>2, SumGreater
  <2>. DEFINE z == v.parent[y]
  <2>4. \A c \in C : a[c] <= b[c] + (IF c = z THEN k ELSE 0)
    BY <1>4
  <2>5. SumFunction(a) <= SumFunction(b) + k
    <3>. HIDE DEF C, z
    <3>. QED
      BY <1>1, <1>2, <2>2, <2>4, SumLess
  <2>. QED
    BY <1>1, <1>5, <2>3, <2>5
<1>. QED
  BY <1>6, <1>7

-----------------------------------------------------------------------------
(* The rounds of internalAddItem: once a round was not refused none is, and *)
(* each that leaves something fills a stack.                               *)

Fulls(s) == {z \in Stack : s.parent[z] # None /\ s.count[z] = Full}

\* What is left has room.
Ready(s, to, n) ==
    to \in Player =>
        /\ HasCapacity(New(s, Fresh(s), n), to, Fresh(s), n)
        /\ PlayerMaxCount(New(s, Fresh(s), n), to, Fresh(s)) >= n

LEMMA FullsAre ==
    ASSUME NEW s
    PROVE  /\ IsFiniteSet(Fulls(s)) /\ Cardinality(Fulls(s)) \in Nat
           /\ Cardinality(Fulls(s)) <= Cardinality(Stack)
<1>1. Fulls(s) \subseteq Stack
  BY DEF Fulls
<1>. QED
  BY <1>1, Finite, FS_Subset, FS_CardinalityType

LEMMA MaxIs ==
    ASSUME NEW s, NEW to, NEW x, NEW n
    PROVE  /\ to \in Player => QueryMaxCount(s, to, INDEX_WHEREEVER, x, n) = PlayerMaxCount(s, to, x)
           /\ to \in Tile => QueryMaxCount(s, to, INDEX_WHEREEVER, x, n) = n
<1>1. INDEX_WHEREEVER \notin Slot
  BY Numbers DEF INDEX_WHEREEVER
<1>. QED
  BY <1>1, Disjoint DEF QueryMaxCount

LEMMA AddPiecesMax ==
    ASSUME NEW s, NEW to, NEW x, NEW n, NEW d, AddPieces(s, to, d, x, n).ok = TRUE
    PROVE  ~(QueryMaxCount(New(s, x, n), to, INDEX_WHEREEVER, x, n) < n)
BY DEF AddPieces, New

\* A round that is ready is not refused.
LEMMA ReadyGiven ==
    ASSUME NEW s, Good(s), NEW to, to \in Tile \cup Player, NEW n \in Int, n \in 1..Full,
           NEW x \in Stack, x = Fresh(s), s.parent[x] = None, Ready(s, to, n),
           NEW new, new = New(s, x, n), NEW d, d = GivenTo(new, to, x),
           NEW a, Refused(s, new, to, d, x, n, a)
    PROVE  FALSE
<1>1. Good(new) /\ SamePlaces(s, new) /\ new.count[x] = n
  BY NewIs
<1>2. /\ to \in Tile => d.to = to
      /\ to \in Player => PlacedFor(new, to, x, d)
  BY <1>1, GivenToIs
<1>3. \/ QueryAdd(new, d.to, d.index, x, n) # "ok"
      \/ QueryMaxCount(new, to, INDEX_WHEREEVER, x, n) < n
  BY DEF Refused
<1>4. CASE to \in Tile
  <2>1. QueryAdd(new, d.to, d.index, x, n) = "ok"
    BY <1>2, <1>4, Disjoint DEF QueryAdd
  <2>2. QueryMaxCount(new, to, INDEX_WHEREEVER, x, n) = n
    BY <1>4, MaxIs
  <2>. QED
    BY <1>3, <2>1, <2>2
<1>5. CASE to \in Player
  <2>1. HasCapacity(new, to, x, n) /\ PlayerMaxCount(new, to, x) >= n
    BY <1>5 DEF Ready
  <2>2. PlayerMaxCount(new, to, x) \in Nat
    BY <1>1, <1>5, PlayerMaxIs
  <2>3. PlayerMaxCount(new, to, x) # 0
    BY <2>1, <2>2, Numbers
  <2>4. new.parent[x] = None
    BY <1>1 DEF SamePlaces
  <2>5. QueryAdd(new, d.to, d.index, x, n) = "ok"
    BY <1>1, <1>2, <1>5, <2>1, <2>3, <2>4, PlaceTakes
  <2>6. QueryMaxCount(new, to, INDEX_WHEREEVER, x, n) = PlayerMaxCount(new, to, x)
    BY <1>5, MaxIs
  <2>. QED
    BY <1>3, <2>1, <2>2, <2>5, <2>6
<1>. QED
  BY <1>4, <1>5

\* What a player takes, it can carry.
LEMMA PlacedCapacity ==
    ASSUME NEW s, Good(s), NEW p \in Player, NEW x \in Stack, NEW n, NEW d, Aim(s, d), PlacedFor(s, p, x, d),
           QueryAdd(s, d.to, d.index, x, n) = "ok"
    PROVE  HasCapacity(s, p, x, n)
<1>0. d.to \in Holder /\ x \in Thing /\ Tree(s)
  BY Disjoint DEF Aim, Destinations, Good
<1>1. /\ d.to \in Player => PlayerQueryAdd(s, d.to, d.index, x, n) = "ok"
      /\ d.to \in Container => ContainerQueryAdd(s, d.to, d.index, x, n)
  BY <1>0, AddOk
<1>2. CASE d.to = p
  BY <1>1, <1>2, SlotOk
<1>3. CASE BagPlace(s, p, x, d)
  <2>1. d.to \in Container /\ HoldingPlayer(s, d.to) = p
    BY <1>0, <1>3, BagsHeld DEF BagPlace
  <2>2. p # None
    BY Disjoint
  <2>. QED
    BY <1>1, <2>1, <2>2 DEF ContainerQueryAdd
<1>. QED
  BY <1>2, <1>3 DEF PlacedFor, SlotPlace, NoPlace

\* What a round leaves is ready for the next.
LEMMA GivenReady ==
    ASSUME NEW s, Good(s), NEW to, to \in Tile \cup Player, NEW n \in Int, n \in 1..Full,
           NEW x \in Stack, x = Fresh(s), s.parent[x] = None,
           NEW new, new = New(s, x, n), NEW d, d = GivenTo(new, to, x),
           NEW a, Given(s, new, d, x, n, a), a.left # 0,
           ~(QueryMaxCount(new, to, INDEX_WHEREEVER, x, n) < n)
    PROVE  /\ Ready(a.state, to, a.left)
           /\ Cardinality(Fulls(a.state)) = Cardinality(Fulls(s)) + 1
<1>. DEFINE k == Merging(s, d, x, n)
            y == d.item
            u == a.state
            m == n - k
<1>1. /\ Good(new) /\ SamePlaces(s, new) /\ SameKept(s, new)
      /\ \A z \in Stack : new.count[z] = IF z = x THEN n ELSE s.count[z]
  BY NewIs
<1>2. Aim(new, d) /\ (to \in Player => PlacedFor(new, to, x, d))
  BY <1>1, GivenToIs
<1>3. k \in 0..n /\ k # 0
  BY DEF Given
<1>4. /\ a.left = m /\ y \in Stack /\ s.parent[y] # None /\ y # x
      /\ s.count[y] + k \in 1..Full /\ k \in {n, Full - s.count[y]}
      /\ \E t : /\ Updated(s, t, d.to, y, s.count[y] + k)
                /\ u = IF k = n THEN PostAddNotification(t, d.to) ELSE t
  BY <1>3 DEF Given
<1>5. s.count[y] \in 1..Full
  BY <1>4, StackCount, Disjoint
<1>6. k # n /\ k = Full - s.count[y] /\ s.count[y] + k = Full /\ m \in 1..n /\ m \in Int /\ m \in 1..Full
      /\ k \in Nat /\ n \in Nat /\ m \in 0..n
  BY <1>3, <1>4, <1>5, Numbers
<1>7. Updated(s, u, d.to, y, Full)
  BY <1>4, <1>6
<1>8. Good(u)
  <2>1. Gains(s, u, n, a.left)
    BY <1>2, GivenGains
  <2>. QED
    BY <2>1 DEF Gains
<1>9. /\ SamePlaces(s, u) /\ SameKept(s, u)
      /\ \A z \in Stack : u.count[z] = IF z = y THEN Full ELSE s.count[z]
  BY <1>7 DEF Updated
<1>10. u.parent = s.parent
  BY <1>9 DEF SamePlaces
<1>11. Cardinality(Fulls(u)) = Cardinality(Fulls(s)) + 1
  <2>1. s.count[y] # Full
    BY <1>3, <1>5, <1>6, Numbers
  <2>2. y \notin Fulls(s)
    BY <2>1 DEF Fulls
  <2>3. Fulls(u) = Fulls(s) \cup {y}
    BY <1>4, <1>9, <1>10 DEF Fulls
  <2>4. IsFiniteSet(Fulls(s))
    BY FullsAre
  <2>. DEFINE F == Fulls(s)
  <2>5. y \notin F /\ IsFiniteSet(F) /\ Fulls(u) = F \cup {y}
    BY <2>2, <2>3, <2>4
  <2>. HIDE DEF F, y, u
  <2>6. Cardinality(F \cup {y}) = Cardinality(F) + 1
    BY <2>5, FS_AddElement
  <2>. QED
    BY <2>5, <2>6 DEF F
<1>12. Fresh(u) = x
  BY <1>10 DEF Fresh
<1>13. Ready(u, to, m)
  <2>. SUFFICES ASSUME to \in Player PROVE Ready(u, to, m)
    BY DEF Ready
  <2>. DEFINE w == New(u, x, m)
  <2>1. /\ Good(w) /\ SamePlaces(u, w) /\ SameKept(u, w)
        /\ \A z \in Stack : w.count[z] = IF z = x THEN m ELSE u.count[z]
    BY <1>6, <1>8, <1>10, NewIs
  <2>2. Filled(new, w, x, y, k)
    <3>1. SamePlaces(new, w) /\ w.inventoryWeight = new.inventoryWeight
      BY <1>1, <1>9, <2>1 DEF SamePlaces, SameKept
    <3>2. new.parent[x] = None /\ new.parent[y] # None
      BY <1>1, <1>4 DEF SamePlaces
    <3>3. new.count[y] = Full - k
      <4>1. new.count[y] = s.count[y]
        BY <1>1, <1>4
      <4>. HIDE DEF y, k
      <4>. QED
        BY <1>5, <1>6, <4>1, Numbers
    <3>4. w.count[y] = Full /\ new.count[x] = n /\ w.count[x] = m
      BY <1>1, <1>4, <1>9, <2>1
    <3>5. \A z \in Stack : z # x /\ z # y => w.count[z] = new.count[z]
      BY <1>1, <1>9, <2>1
    <3>. HIDE DEF w, y, k, m
    <3>. QED
      BY <1>1, <1>4, <1>6, <2>1, <3>1, <3>2, <3>3, <3>4, <3>5 DEF Filled
  <2>3. HasCapacity(new, to, x, n)
    <3>1. PlacedFor(new, to, x, d) /\ QueryAdd(new, d.to, d.index, x, n) = "ok"
      BY <1>2 DEF Given
    <3>. QED
      BY <1>1, <1>2, <3>1, PlacedCapacity
  <2>4. HasCapacity(w, to, x, m)
    <3>. HIDE DEF w, y, k, m
    <3>. QED
      BY <1>6, <2>2, <2>3, FewerWeigh
  <2>5. /\ PlayerMaxCount(new, to, x) <= PlayerMaxCount(w, to, x) + k
        /\ PlayerMaxCount(new, to, x) \in Nat /\ PlayerMaxCount(w, to, x) \in Nat
    <3>. HIDE DEF w, y, k, m
    <3>. QED
      BY <1>1, <2>1, <2>2, PlayerLess, PlayerMaxIs
  <2>6. ~(PlayerMaxCount(new, to, x) < n)
    BY MaxIs
  <2>7. PlayerMaxCount(w, to, x) >= m
    <3>. HIDE DEF w, y, k
    <3>. QED
      BY <1>6, <2>5, <2>6
  <2>. QED
    BY <1>12, <2>4, <2>7 DEF Ready
<1>. QED
  BY <1>4, <1>11, <1>13

\* What there may be after i rounds for n pieces.
After(s, to, n, i) ==
    {r \in [state : States, left : 0..n, round : Int] :
        /\ Gains(s, r.state, n, r.left)
        /\ r.left # 0 => \/ r.round = 0 /\ to \in Player
                         \/ /\ r.round = i /\ Ready(r.state, to, r.left)
                            /\ Cardinality(Fulls(r.state)) >= i}

LEMMA AfterIs ==
    ASSUME NEW s, NEW to, NEW n, NEW i, NEW t \in States, NEW l, NEW j \in Int, Gains(s, t, n, l),
           l # 0 => \/ j = 0 /\ to \in Player
                    \/ j = i /\ Ready(t, to, l) /\ Cardinality(Fulls(t)) >= i
    PROVE  [state |-> t, left |-> l, round |-> j] \in After(s, to, n, i)
<1>1. l \in 0..n
  BY DEF Gains
<1>. DEFINE r == [state |-> t, left |-> l, round |-> j]
<1>2. r \in [state : States, left : 0..n, round : Int] /\ r.state = t /\ r.left = l /\ r.round = j
  BY <1>1
<1>. HIDE DEF r
<1>3. r \in After(s, to, n, i)
  BY <1>2 DEF After
<1>. QED
  BY <1>3 DEF r

LEMMA AfterHas ==
    ASSUME NEW s, NEW to, NEW n, NEW i, NEW r \in After(s, to, n, i)
    PROVE  /\ r.state \in States /\ r.left \in 0..n /\ r.round \in Int /\ Gains(s, r.state, n, r.left)
           /\ r = [state |-> r.state, left |-> r.left, round |-> r.round]
           /\ r.left # 0 => \/ r.round = 0 /\ to \in Player
                            \/ /\ r.round = i /\ Ready(r.state, to, r.left)
                               /\ Cardinality(Fulls(r.state)) >= i
BY DEF After

LEMMA RoundAfter ==
    ASSUME NEW s, Good(s), NEW to, to \in Tile \cup Player, NEW n \in Int, n \in 1..Full,
           \E y \in Stack : s.parent[y] = None,
           NEW i \in Nat, i # 0, NEW j, j = i - 1, NEW r \in After(s, to, n, j)
    PROVE  Round(to, i, r) \in After(s, to, n, i)
<1>. DEFINE u == r.state
            m == r.left
            x == Fresh(u)
            new == New(u, x, m)
            d == GivenTo(new, to, x)
            a == AddRound(u, to, x, m)
<1>1. /\ u \in States /\ m \in 0..n /\ r.round \in Int /\ Gains(s, u, n, m) /\ Good(u) /\ j \in Int
      /\ r = [state |-> u, left |-> m, round |-> r.round] /\ n \in Nat
      /\ m # 0 => \/ r.round = 0 /\ to \in Player
                  \/ r.round = j /\ Ready(u, to, m) /\ Cardinality(Fulls(u)) >= j
  BY AfterHas, Numbers DEF Gains
<1>2. CASE m = 0 \/ r.round # j
  <2>1. Round(to, i, r) = r
    BY <1>2 DEF Round
  <2>2. m # 0 => r.round = 0 /\ to \in Player
    BY <1>1, <1>2
  <2>. HIDE DEF u, m
  <2>3. [state |-> u, left |-> m, round |-> r.round] \in After(s, to, n, i)
    BY <1>1, <2>2, AfterIs
  <2>. QED
    BY <1>1, <2>1, <2>3
<1>3. CASE m # 0 /\ r.round = j
  <2>1. Round(to, i, r) = [state |-> a.state, left |-> a.left, round |-> IF a.ok THEN i ELSE i - 1]
    BY <1>3 DEF Round, NextRound
  <2>2. m \in Int /\ m \in 1..Full
    BY <1>1, <1>3, Numbers
  <2>3. u.parent = s.parent
    BY <1>1, <1>3 DEF Gains
  <2>4. x \in Stack /\ u.parent[x] = None
    BY <2>3, FreshIs
  <2>5. a = AddPieces(u, to, d, x, m)
    BY DEF AddRound, New, GivenTo
  <2>6. x = Fresh(u) /\ new = New(u, x, m) /\ d = GivenTo(new, to, x)
    OBVIOUS
  <2>. HIDE DEF a, d, new, x
  <2>7. Good(new)
    BY <1>1, <2>2, <2>4, <2>6, NewIs
  <2>8. Aim(new, d)
    BY <2>6, <2>7, GivenToIs
  <2>9. Refused(u, new, to, d, x, m, a) \/ Given(u, new, d, x, m, a)
    BY <1>1, <2>2, <2>4, <2>5, <2>6, AddPiecesIs
  <2>10. CASE Refused(u, new, to, d, x, m, a)
    <3>1. a.state = u /\ a.left = m /\ a.ok = FALSE
      BY <2>10 DEF Refused
    <3>2. ~Ready(u, to, m)
      BY <1>1, <2>2, <2>4, <2>6, <2>10, ReadyGiven
    <3>3. j = 0 /\ to \in Player
      BY <1>1, <1>3, <3>2
    <3>. HIDE DEF u, m
    <3>4. [state |-> u, left |-> m, round |-> j] \in After(s, to, n, i)
      BY <1>1, <3>3, AfterIs
    <3>. QED
      BY <2>1, <3>1, <3>4
  <2>11. CASE Given(u, new, d, x, m, a)
    <3>. DEFINE t == a.state
                l == a.left
    <3>1. a.ok = TRUE
      BY <2>11 DEF Given
    <3>2. Gains(u, t, m, l)
      BY <1>1, <2>2, <2>4, <2>6, <2>8, <2>11, GivenGains
    <3>3. Gains(s, t, n, l)
      <4>. HIDE DEF t, l, u, m
      <4>. QED
        BY <1>1, <3>2, GainsMore
    <3>4. ~(QueryMaxCount(new, to, INDEX_WHEREEVER, x, m) < m)
      BY <2>5, <2>6, <3>1, AddPiecesMax
    <3>5. l # 0 => Ready(t, to, l) /\ Cardinality(Fulls(t)) = Cardinality(Fulls(u)) + 1
      BY <1>1, <2>2, <2>4, <2>6, <2>11, <3>4, GivenReady
    <3>6. Cardinality(Fulls(u)) >= j
      BY <1>1, <1>3, FullsAre
    <3>7. l # 0 => i = i /\ Ready(t, to, l) /\ Cardinality(Fulls(t)) >= i
      BY <3>5, <3>6, FullsAre
    <3>8. t \in States /\ i \in Int
      BY <3>3 DEF Gains, Good, Tree
    <3>9. Round(to, i, r) = [state |-> t, left |-> l, round |-> i]
      BY <2>1, <3>1
    <3>. HIDE DEF t, l
    <3>10. [state |-> t, left |-> l, round |-> i] \in After(s, to, n, i)
      BY <3>3, <3>7, <3>8, AfterIs
    <3>. QED
      BY <3>9, <3>10
  <2>. QED
    BY <2>9, <2>10, <2>11
<1>. QED
  BY <1>2, <1>3

-----------------------------------------------------------------------------
(* What is in a container, or what a player wears, weighs.                 *)

Load(s, c) == SumFunction([x \in Kids(s, c) |-> GetWeight(s, x)])

LEMMA LoadIs ==
    ASSUME NEW s \in States, NEW c
    PROVE  /\ IsFiniteSet(Kids(s, c)) /\ Load(s, c) \in Int
           /\ [x \in Kids(s, c) |-> GetWeight(s, x)] \in [Kids(s, c) -> Int]
<1>1. IsFiniteSet(Kids(s, c)) /\ Kids(s, c) \subseteq Thing
  BY KindsAssumption, FS_Subset DEF Kids
<1>2. \A x \in Kids(s, c) : GetWeight(s, x) \in Int
  BY <1>1, WeightType
<1>. DEFINE D == Kids(s, c)
            f == [x \in D |-> GetWeight(s, x)]
<1>3. f \in [D -> Int] /\ IsFiniteSet(D) /\ Load(s, c) = SumFunction(f)
  BY <1>1, <1>2 DEF Load
<1>. HIDE DEF D, f
<1>4. SumFunction(f) \in Int
  BY <1>3, SumType
<1>. QED
  BY <1>3, <1>4 DEF D, f

\* One thing heavier or lighter.
LEMMA LoadOther ==
    ASSUME NEW s \in States, NEW t \in States, NEW c, Kids(t, c) = Kids(s, c), NEW y \in Kids(s, c),
           \A x \in Kids(s, c) : x # y => GetWeight(t, x) = GetWeight(s, x)
    PROVE  Load(t, c) = Load(s, c) + (GetWeight(t, y) - GetWeight(s, y))
<1>. DEFINE D == Kids(s, c)
            f == [x \in D |-> GetWeight(s, x)]
            g == [x \in D |-> GetWeight(t, x)]
<1>1. /\ IsFiniteSet(D) /\ f \in [D -> Int] /\ g \in [D -> Int]
      /\ Load(s, c) = SumFunction(f) /\ Load(t, c) = SumFunction(g)
  BY LoadIs DEF Load
<1>2. y \in D /\ f[y] = GetWeight(s, y) /\ g[y] = GetWeight(t, y) /\ \A x \in D \ {y} : g[x] = f[x]
  OBVIOUS
<1>. HIDE DEF D, f, g
<1>3. SumFunction(g) = SumFunction(f) + (g[y] - f[y])
  BY <1>1, <1>2, SumOther
<1>. QED
  BY <1>1, <1>2, <1>3

LEMMA LoadSame ==
    ASSUME NEW s, NEW t, NEW c, Kids(t, c) = Kids(s, c),
           \A x \in Kids(s, c) : GetWeight(t, x) = GetWeight(s, x)
    PROVE  Load(t, c) = Load(s, c)
BY DEF Load

\* One thing more.
LEMMA LoadMore ==
    ASSUME NEW s \in States, NEW t \in States, NEW c, NEW y, y \notin Kids(s, c),
           Kids(t, c) = Kids(s, c) \cup {y},
           \A x \in Kids(s, c) : GetWeight(t, x) = GetWeight(s, x)
    PROVE  Load(t, c) = Load(s, c) + GetWeight(t, y)
<1>. DEFINE D == Kids(t, c)
            f == [x \in Kids(s, c) |-> GetWeight(s, x)]
            g == [x \in D |-> GetWeight(t, x)]
<1>1. /\ IsFiniteSet(D) /\ f \in [Kids(s, c) -> Int] /\ g \in [D -> Int]
      /\ Load(s, c) = SumFunction(f) /\ Load(t, c) = SumFunction(g)
  BY LoadIs DEF Load
<1>2. y \in D /\ g[y] = GetWeight(t, y) /\ Kids(s, c) = D \ {y} /\ \A x \in D \ {y} : g[x] = f[x]
  OBVIOUS
<1>. HIDE DEF D, f, g
<1>3. SumFunction(g) = SumFunction(f) + g[y]
  BY <1>1, <1>2, SumMore
<1>. QED
  BY <1>1, <1>2, <1>3

-----------------------------------------------------------------------------
(* Of what is put into c or taken out of it, all that c is in is heavier or  *)
(* lighter.                                                                  *)

\* Whoever keeps its weight: what it holds changes by what is below it in the chain.
LEMMA UpdateLoads ==
    ASSUME NEW u \in States, Rooted(u), NEW c, NEW diff \in Int, NEW t, t = UpdateItemWeight(u, c, diff),
           NEW b
    PROVE  Load(t, b) = Load(u, b) + (IF b \in Chain(u, c) /\ b # c THEN diff ELSE 0)
<1>0. /\ t \in States /\ t.parent = u.parent /\ t.count = u.count
      /\ \A a \in Container : t.totalWeight[a] = IF c \in Container /\ a \in Chain(u, c)
                                                 THEN u.totalWeight[a] + diff ELSE u.totalWeight[a]
  BY UpdateWeightTree DEF SamePlaces
<1>1. Kids(t, b) = Kids(u, b) /\ Kids(u, b) \subseteq Thing
  BY <1>0 DEF Kids
<1>2. c \notin Container => Chain(u, c) = {c}
  BY ChainTop
<1>3. \A x \in Thing : ~(x \in Container /\ x \in Chain(u, c) /\ c \in Container)
                          => GetWeight(t, x) = GetWeight(u, x)
  BY <1>0 DEF GetWeight
<1>4. Load(u, b) \in Int
  BY LoadIs
<1>5. CASE b \in Chain(u, c) /\ b # c
  <2>1. c \in Container
    BY <1>2, <1>5
  <2>2. PICK y \in Chain(u, c) \cap Container :
           /\ u.parent[y] = b
           /\ \A z \in Chain(u, c) \cap Container : u.parent[z] = b => z = y
    BY <1>5, OneBelow
  <2>3. y \in Kids(u, b) /\ y \notin Stack
    BY <2>2, Disjoint DEF Kids
  <2>4. \A x \in Kids(u, b) : x # y => GetWeight(t, x) = GetWeight(u, x)
    BY <1>1, <1>3, <2>2 DEF Kids
  <2>5. Load(t, b) = Load(u, b) + (GetWeight(t, y) - GetWeight(u, y))
    BY <1>0, <1>1, <2>3, <2>4, LoadOther
  <2>6. GetWeight(t, y) = Weight[y] + t.totalWeight[y] /\ GetWeight(u, y) = Weight[y] + u.totalWeight[y]
    BY <2>2, <2>3 DEF GetWeight
  <2>7. t.totalWeight[y] = u.totalWeight[y] + diff /\ u.totalWeight[y] \in Int /\ Weight[y] \in Int
    BY <1>0, <2>1, <2>2, <2>3, StateTypes, CylindersAssumption, Disjoint
  <2>8. Load(t, b) = Load(u, b) + diff
    BY <1>4, <2>5, <2>6, <2>7
  <2>. QED
    BY <1>5, <2>8
<1>6. CASE ~(b \in Chain(u, c) /\ b # c)
  <2>1. ASSUME NEW x \in Kids(u, b), x \in Container, x \in Chain(u, c), c \in Container PROVE FALSE
    <3>1. u.parent[x] = b
      BY DEF Kids
    <3>2. b \in Chain(u, c)
      BY <2>1, <3>1, ChainClosed DEF Closed
    <3>3. u.parent[x] = c
      BY <1>6, <3>1, <3>2
    <3>. QED
      BY <2>1, <3>3, NoCycle
  <2>2. \A x \in Kids(u, b) : GetWeight(t, x) = GetWeight(u, x)
    BY <1>1, <1>3, <2>1
  <2>3. Load(t, b) = Load(u, b)
    BY <1>1, <2>2, LoadSame
  <2>. QED
    BY <1>4, <1>6, <2>3
<1>. QED
  BY <1>5, <1>6

\* All that c is in, and c, has that much more in it.
Heavier(s, t, c, diff) ==
    /\ t \in States
    /\ \A b \in Container \cup Player :
          Load(t, b) = Load(s, b) + (IF b \in Chain(s, c) THEN diff ELSE 0)
    /\ \A b \in Container :
          t.totalWeight[b] = s.totalWeight[b] + (IF b \in Chain(s, c) THEN diff ELSE 0)

\* What is so of the thing that comes or goes, is so of all that it is in.
LEMMA UpdateHeavier ==
    ASSUME NEW s \in States, NEW u \in States, Rooted(u), NEW c, c \in Holder, NEW diff \in Int,
           Chain(u, c) = Chain(s, c), u.totalWeight = s.totalWeight,
           \A b \in Container \cup Player : Load(u, b) = Load(s, b) + (IF b = c THEN diff ELSE 0),
           NEW t, t = UpdateItemWeight(u, c, diff)
    PROVE  Heavier(s, t, c, diff)
<1>0. /\ t \in States
      /\ \A a \in Container : t.totalWeight[a] = IF c \in Container /\ a \in Chain(u, c)
                                                 THEN u.totalWeight[a] + diff ELSE u.totalWeight[a]
  BY UpdateWeightTree
<1>1. c \in Chain(s, c) /\ (c \notin Container => Chain(s, c) = {c})
  BY ChainTop, ChainClosed
<1>2. ASSUME NEW b \in Container \cup Player
      PROVE  Load(t, b) = Load(s, b) + (IF b \in Chain(s, c) THEN diff ELSE 0)
  <2>1. Load(t, b) = Load(u, b) + (IF b \in Chain(u, c) /\ b # c THEN diff ELSE 0)
    BY UpdateLoads
  <2>2. Load(u, b) = Load(s, b) + (IF b = c THEN diff ELSE 0)
    OBVIOUS
  <2>3. Load(s, b) \in Int
    BY LoadIs
  <2>. QED
    BY <1>1, <2>1, <2>2, <2>3
<1>3. ASSUME NEW b \in Container
      PROVE  t.totalWeight[b] = s.totalWeight[b] + (IF b \in Chain(s, c) THEN diff ELSE 0)
  <2>1. s.totalWeight[b] \in Int
    BY StateTypes
  <2>2. b \in Chain(s, c) => c \in Container
    BY <1>1
  <2>. QED
    BY <1>0, <2>1, <2>2
<1>. QED
  BY <1>0, <1>2, <1>3 DEF Heavier

\* x, which was nowhere, was put in c, and all that it is in has its weight.
LEMMA PutHeavier ==
    ASSUME NEW s \in States, Rooted(s), NEW x \in Thing, s.parent[x] = None, NEW c \in Holder,
           x \notin Chain(s, c), NEW u \in States, u.parent = [s.parent EXCEPT ![x] = c],
           u.count = s.count, u.totalWeight = s.totalWeight,
           NEW t, t = UpdateItemWeight(u, c, GetWeight(s, x))
    PROVE  Heavier(s, t, c, GetWeight(s, x))
<1>. DEFINE w == GetWeight(s, x)
<1>0. w \in Int
  BY WeightType
<1>1. \A y \in Thing : u.parent[y] = IF y = x THEN c ELSE s.parent[y]
  BY DEF States
<1>2. \A y \in Thing : GetWeight(u, y) = GetWeight(s, y)
  BY DEF GetWeight
<1>3. Chain(u, c) = Chain(s, c)
  <2>1. \A b \in Chain(s, c) \cap Container : u.parent[b] = s.parent[b]
    BY <1>1, Disjoint
  <2>. QED
    BY <2>1, ChainSame
<1>4. Rooted(u)
  BY RootedPut
<1>. HIDE DEF w
<1>5. ASSUME NEW b \in Container \cup Player
      PROVE  Load(u, b) = Load(s, b) + (IF b = c THEN w ELSE 0)
  <2>0. b # None /\ Kids(s, b) \subseteq Thing /\ x \notin Kids(s, b) /\ Load(s, b) \in Int
    BY Disjoint, LoadIs DEF Kids
  <2>1. \A y \in Kids(s, b) : GetWeight(u, y) = GetWeight(s, y)
    BY <1>2, <2>0
  <2>2. CASE b = c
    <3>1. Kids(u, b) = Kids(s, b) \cup {x}
      BY <1>1, <2>0, <2>2 DEF Kids
    <3>2. Load(u, b) = Load(s, b) + GetWeight(u, x)
      BY <2>0, <2>1, <3>1, LoadMore
    <3>. QED
      BY <1>2, <2>2, <3>2 DEF w
  <2>3. CASE b # c
    <3>1. Kids(u, b) = Kids(s, b)
      BY <1>1, <2>0, <2>3 DEF Kids
    <3>2. Load(u, b) = Load(s, b)
      BY <2>1, <3>1, LoadSame
    <3>. QED
      BY <2>0, <2>3, <3>2
  <2>. QED
    BY <2>2, <2>3
<1>6. t = UpdateItemWeight(u, c, w)
  BY DEF w
<1>7. Heavier(s, t, c, w)
  BY <1>0, <1>3, <1>4, <1>5, <1>6, UpdateHeavier
<1>. QED
  BY <1>7 DEF w

\* x, which was in c, is nowhere.
LEMMA TakeHeavier ==
    ASSUME NEW s \in States, Rooted(s), NEW x \in Thing, NEW c \in Holder, s.parent[x] = c,
           NEW u \in States, u.parent = [s.parent EXCEPT ![x] = None],
           u.count = s.count, u.totalWeight = s.totalWeight,
           NEW diff, diff = - GetWeight(s, x), NEW t, t = UpdateItemWeight(u, c, diff)
    PROVE  Heavier(s, t, c, diff)
<1>0. GetWeight(s, x) \in Int /\ diff \in Int
  BY WeightType
<1>1. \A y \in Thing : u.parent[y] = IF y = x THEN None ELSE s.parent[y]
  BY DEF States
<1>2. \A y \in Thing : GetWeight(u, y) = GetWeight(s, y)
  BY DEF GetWeight
<1>3. Chain(u, c) = Chain(s, c)
  <2>1. x \in Container => x \notin Chain(s, c)
    BY NoCycle
  <2>2. \A b \in Chain(s, c) \cap Container : u.parent[b] = s.parent[b]
    BY <1>1, <2>1, Disjoint
  <2>3. \A a : (\A b \in Chain(s, a) \cap Container : u.parent[b] = s.parent[b]) => Chain(u, a) = Chain(s, a)
    BY ChainSame
  <2>. QED
    BY <2>2, <2>3
<1>4. Rooted(u)
  BY RootedTaken
<1>5. ASSUME NEW b \in Container \cup Player
      PROVE  Load(u, b) = Load(s, b) + (IF b = c THEN diff ELSE 0)
  <2>0. b # None /\ Kids(s, b) \subseteq Thing /\ x \notin Kids(u, b) /\ Load(s, b) \in Int /\ Load(u, b) \in Int
    BY <1>1, Disjoint, LoadIs DEF Kids
  <2>1. \A y \in Kids(s, b) : GetWeight(u, y) = GetWeight(s, y)
    BY <1>2, <2>0
  <2>2. CASE b = c
    <3>1. Kids(s, b) = Kids(u, b) \cup {x}
      BY <1>1, <2>0, <2>2 DEF Kids
    <3>2. \A y \in Kids(u, b) : GetWeight(s, y) = GetWeight(u, y)
      BY <2>1, <3>1
    <3>3. Load(s, b) = Load(u, b) + GetWeight(s, x)
      BY <2>0, <3>1, <3>2, LoadMore
    <3>. QED
      BY <1>0, <2>0, <2>2, <3>3
  <2>3. CASE b # c
    <3>1. Kids(u, b) = Kids(s, b)
      BY <1>1, <2>0, <2>3 DEF Kids
    <3>2. Load(u, b) = Load(s, b)
      BY <2>1, <3>1, LoadSame
    <3>. QED
      BY <2>0, <2>3, <3>2
  <2>. QED
    BY <2>2, <2>3
<1>. QED
  BY <1>0, <1>3, <1>4, <1>5, UpdateHeavier

LEMMA TimesMinus ==
    ASSUME NEW a \in Int, NEW n \in Int, NEW m \in Int
    PROVE  a * n - a * m = a * (n - m) /\ a * n \in Int
OBVIOUS

\* updateThing of a stack in c
LEMMA CountHeavier ==
    ASSUME NEW s, Tree(s), NEW c \in Holder, NEW y \in Stack, s.parent[y] = c, NEW n \in Int,
           NEW diff, diff = Weight[y] * (n - s.count[y])
    PROVE  Heavier(s, UpdateThing(s, c, y, n), c, diff)
<1>. DEFINE u == [s EXCEPT !.count[y] = n]
            t == UpdateThing(s, c, y, n)
<1>0. s \in States /\ Rooted(s) /\ s.count[y] \in Int /\ Weight[y] \in Int /\ y \in Thing /\ diff \in Int
  BY StateTypes, CylindersAssumption, Disjoint DEF Tree
<1>1. /\ u \in States /\ u.parent = s.parent /\ u.totalWeight = s.totalWeight
      /\ \A z \in Stack : u.count[z] = IF z = y THEN n ELSE s.count[z]
  BY <1>0 DEF States
<1>2. t = UpdateItemWeight(u, c, diff)
  BY DEF UpdateThing
<1>. HIDE DEF u, t
<1>3. Chain(u, c) = Chain(s, c)
  BY <1>1, ChainParents
<1>4. Rooted(u)
  BY <1>0, <1>1 DEF Rooted
<1>5. \A z \in Thing : z # y => GetWeight(u, z) = GetWeight(s, z)
  BY <1>1 DEF GetWeight
<1>6. GetWeight(u, y) - GetWeight(s, y) = diff
  <2>1. GetWeight(u, y) = Weight[y] * n /\ GetWeight(s, y) = Weight[y] * s.count[y]
    BY <1>1 DEF GetWeight
  <2>. DEFINE a == Weight[y]
              k == s.count[y]
  <2>2. a \in Int /\ k \in Int /\ GetWeight(u, y) = a * n /\ GetWeight(s, y) = a * k /\ diff = a * (n - k)
    BY <1>0, <2>1
  <2>. HIDE DEF a, k
  <2>. QED
    BY <2>2, TimesMinus
<1>7. ASSUME NEW b \in Container \cup Player
      PROVE  Load(u, b) = Load(s, b) + (IF b = c THEN diff ELSE 0)
  <2>0. Kids(u, b) = Kids(s, b) /\ Kids(s, b) \subseteq Thing /\ Load(s, b) \in Int
    BY <1>0, <1>1, LoadIs DEF Kids
  <2>1. CASE b = c
    <3>1. y \in Kids(s, b)
      BY <1>0, <2>1 DEF Kids
    <3>2. \A x \in Kids(s, b) : x # y => GetWeight(u, x) = GetWeight(s, x)
      BY <1>5, <2>0
    <3>3. Load(u, b) = Load(s, b) + (GetWeight(u, y) - GetWeight(s, y))
      BY <1>0, <1>1, <2>0, <3>1, <3>2, LoadOther
    <3>. QED
      BY <1>6, <2>1, <3>3
  <2>2. CASE b # c
    <3>1. y \notin Kids(s, b)
      BY <2>2 DEF Kids
    <3>2. Load(u, b) = Load(s, b)
      BY <1>5, <2>0, <3>1, LoadSame
    <3>. QED
      BY <2>0, <2>2, <3>2
  <2>. QED
    BY <2>1, <2>2
<1>8. Heavier(s, t, c, diff)
  BY <1>0, <1>1, <1>2, <1>3, <1>4, <1>7, UpdateHeavier
<1>. QED
  BY <1>8 DEF t

\* addThing
LEMMA AddHeavier ==
    ASSUME NEW s, Tree(s), NEW c \in Holder, NEW i \in Int, NEW x \in Thing, s.parent[x] = None,
           x \notin Chain(s, c), c \in Player => i \in Slot, c \in Container => i < Capacity
    PROVE  Heavier(s, AddThing(s, c, i, x), c, GetWeight(s, x))
<1>. DEFINE t == AddThing(s, c, i, x)
<1>0. s \in States /\ Rooted(s)
  BY DEF Tree
<1>1. \E u \in States : /\ u.parent = [s.parent EXCEPT ![x] = c] /\ u.count = s.count
                        /\ u.totalWeight = s.totalWeight /\ t = UpdateItemWeight(u, c, GetWeight(s, x))
  <2>1. CASE c \in Player
    <3>. DEFINE w == [s.inventory[c] EXCEPT ![i] = x]
                v == [s.inventory EXCEPT ![c] = w]
    <3>1. t = [s EXCEPT !.parent[x] = c, !.inventory[c][i] = x] /\ c \notin Container
      BY <2>1, Disjoint DEF AddThing
    <3>2. w \in [Slot -> Thing \cup {None}]
      BY <1>0, <2>1, StateTypes
    <3>3. v \in [Player -> [Slot -> Thing \cup {None}]]
      BY <1>0, <2>1, <3>2 DEF States
    <3>. DEFINE q == [s EXCEPT !.parent[x] = c]
    <3>4. t = [q EXCEPT !.inventory = v]
      BY <3>1
    <3>. HIDE DEF w, v
    <3>5. /\ t \in States /\ t.parent = [s.parent EXCEPT ![x] = c] /\ t.count = s.count
          /\ t.totalWeight = s.totalWeight
      <4>1. /\ q \in States /\ q.parent = [s.parent EXCEPT ![x] = c] /\ q.count = s.count
            /\ q.totalWeight = s.totalWeight
        BY <1>0 DEF States, Where
      <4>. HIDE DEF q, t
      <4>. QED
        BY <3>3, <3>4, <4>1 DEF States
    <3>6. t = UpdateItemWeight(t, c, GetWeight(s, x))
      BY <3>1 DEF UpdateItemWeight
    <3>. HIDE DEF t
    <3>. QED
      BY <3>5, <3>6
  <2>2. CASE c \in Container \cup Tile
    <3>. DEFINE l == <<x>> \o s.itemlist[c]
                u == [s EXCEPT !.parent[x] = c, !.itemlist[c] = l]
    <3>1. c \notin Player /\ ~(c \in Container /\ i >= Capacity)
      BY <2>2, Disjoint, CylindersAssumption
    <3>2. t = UpdateItemWeight(u, c, GetWeight(s, x))
      BY <3>1 DEF AddThing
    <3>3. l \in Seq(Thing)
      BY <1>0, <2>2, StateTypes
    <3>. HIDE DEF l
    <3>4. /\ u \in States /\ u.parent = [s.parent EXCEPT ![x] = c] /\ u.count = s.count
          /\ u.totalWeight = s.totalWeight
      BY <1>0, <2>2, <3>3 DEF States, Where
    <3>. HIDE DEF t, u
    <3>. QED
      BY <3>2, <3>4
  <2>. QED
    BY <2>1, <2>2 DEF Holder
<1>2. PICK u \in States : /\ u.parent = [s.parent EXCEPT ![x] = c] /\ u.count = s.count
                          /\ u.totalWeight = s.totalWeight /\ t = UpdateItemWeight(u, c, GetWeight(s, x))
  BY <1>1
<1>. HIDE DEF t
<1>3. Heavier(s, t, c, GetWeight(s, x))
  BY <1>0, <1>2, PutHeavier
<1>. QED
  BY <1>3 DEF t

\* g has one summand more than f, that of x.
OneMore(f, g, F, x) ==
    /\ IsFiniteSet(F) /\ x \in F /\ f \in [F \ {x} -> Int] /\ g \in [F -> Int]
    /\ \A y \in F \ {x} : g[y] = f[y]

LEMMA SumOneMore ==
    ASSUME NEW f, NEW g, NEW F, NEW x, OneMore(f, g, F, x)
    PROVE  SumFunction(g) = SumFunction(f) + g[x]
<1>1. /\ IsFiniteSet(F) /\ x \in F /\ f \in [F \ {x} -> Int] /\ g \in [F -> Int]
      /\ \A y \in F \ {x} : g[y] = f[y]
  BY DEF OneMore
<1>. QED
  BY <1>1, SumMore

\* A sum over D, each of which stands for nothing or for an element of E of its own, is one over E.
LEMMA SumAlong ==
    ASSUME NEW D, IsFiniteSet(D), NEW E, IsFiniteSet(E), None \notin E, NEW v,
           \A i, j \in D : v[i] = v[j] => i = j \/ v[i] = None,
           \A y : y \in E <=> y # None /\ \E i \in D : v[i] = y,
           NEW g \in [E -> Int], NEW f \in [D -> Int],
           \A i \in D : f[i] = IF v[i] = None THEN 0 ELSE g[v[i]]
    PROVE  SumFunction(f) = SumFunction(g)
<1>. DEFINE K(T) == {y \in E : \E i \in T : v[i] = y}
            a(T) == [i \in T |-> f[i]]
            b(T) == [y \in K(T) |-> g[y]]
            G == {T \in SUBSET D : SumFunction(a(T)) = SumFunction(b(T))}
<1>1. ASSUME NEW T \in SUBSET D
      PROVE  /\ a(T) \in [T -> Int] /\ b(T) \in [K(T) -> Int] /\ IsFiniteSet(T) /\ IsFiniteSet(K(T))
             /\ \A i \in T : a(T)[i] = f[i]
             /\ \A y \in K(T) : b(T)[y] = g[y]
  <2>1. IsFiniteSet(T)
    BY FS_Subset
  <2>2. K(T) \in SUBSET E
    OBVIOUS
  <2>3. IsFiniteSet(K(T))
    <3>. DEFINE k == K(T)
    <3>1. k \in SUBSET E
      BY <2>2
    <3>. HIDE DEF k
    <3>2. IsFiniteSet(k)
      BY <3>1, FS_Subset
    <3>. QED
      BY <3>2 DEF k
  <2>. QED
    BY <2>1, <2>3
<1>. HIDE DEF a, b
<1>2. ASSUME NEW T \in SUBSET D, \A U \in SUBSET T : U # T => U \in G PROVE T \in G
  <2>1. CASE T = {}
    <3>1. K(T) = {} /\ a(T) \in [{} -> Int] /\ b(T) \in [{} -> Int]
      BY <1>1, <2>1
    <3>. DEFINE p == a(T)
                q == b(T)
    <3>. HIDE DEF K
    <3>2. p \in [{} -> Int] /\ q \in [{} -> Int]
      BY <3>1
    <3>. HIDE DEF p, q
    <3>3. SumFunction(p) = 0 /\ SumFunction(q) = 0
      BY <3>2, SumEmpty
    <3>. QED
      BY <3>3 DEF p, q
  <2>2. CASE T # {}
    <3>1. PICK x \in T : TRUE
      BY <2>2
    <3>. DEFINE U == T \ {x}
    <3>2. U \in SUBSET D /\ U \in G
      BY <1>2
    <3>3. SumFunction(a(U)) = SumFunction(b(U))
      BY <3>2
    <3>4. /\ a(T) \in [T -> Int] /\ b(T) \in [K(T) -> Int] /\ IsFiniteSet(T) /\ IsFiniteSet(K(T))
          /\ \A i \in T : a(T)[i] = f[i]
          /\ \A y \in K(T) : b(T)[y] = g[y]
      BY <1>1
    <3>5. /\ a(U) \in [U -> Int] /\ b(U) \in [K(U) -> Int]
          /\ \A i \in U : a(U)[i] = f[i]
          /\ \A y \in K(U) : b(U)[y] = g[y]
      BY <1>1, <3>2
    <3>6. CASE v[x] = None
      <4>1. K(T) = K(U)
        BY <3>6
      <4>2. b(T) = b(U)
        BY <4>1 DEF b
      <4>3. f[x] = 0
        BY <3>6
      <4>. DEFINE p == a(T)
                  q == a(U)
      <4>4. p \in [T -> Int] /\ q \in [T \ {x} -> Int] /\ (\A y \in T \ {x} : p[y] = q[y]) /\ p[x] = 0
        BY <3>4, <3>5, <4>3
      <4>. HIDE DEF p, q
      <4>5. SumFunction(p) = SumFunction(q)
        BY <3>4, <4>4, SumNought
      <4>6. SumFunction(a(T)) = SumFunction(b(T))
        BY <3>3, <4>2, <4>5 DEF p, q
      <4>. QED
        BY <4>6
    <3>7. CASE v[x] # None
      <4>. DEFINE z == v[x]
                  F == K(T)
      <4>1. z \in F /\ F \ {z} = K(U)
        <5>1. z \in E
          BY <3>7
        <5>2. \A i \in U : v[i] # z
          BY <3>7
        <5>. QED
          BY <5>1, <5>2
      <4>. DEFINE p == a(T)
                  q == a(U)
                  r == b(T)
                  s == b(U)
      <4>2. /\ p \in [T -> Int] /\ q \in [T \ {x} -> Int] /\ \A y \in T \ {x} : p[y] = q[y]
            /\ p[x] = f[x] /\ IsFiniteSet(T)
        BY <3>4, <3>5
      <4>3. /\ r \in [F -> Int] /\ s \in [F \ {z} -> Int] /\ \A y \in F \ {z} : r[y] = s[y]
            /\ r[z] = g[z] /\ IsFiniteSet(F)
        <5>1. s \in [K(U) -> Int] /\ \A y \in K(U) : s[y] = g[y]
          BY <3>5
        <5>2. r \in [F -> Int] /\ (\A y \in F : r[y] = g[y]) /\ IsFiniteSet(F)
          BY <3>4
        <5>. HIDE DEF F, K, r, s, z
        <5>. QED
          BY <4>1, <5>1, <5>2
      <4>4. f[x] = g[z] /\ SumFunction(q) = SumFunction(s)
        BY <3>3, <3>7
      <4>. HIDE DEF p, q, r, s, F, z, K
      <4>5. SumFunction(p) = SumFunction(q) + p[x]
        <5>1. OneMore(q, p, T, x)
          BY <4>2 DEF OneMore
        <5>. QED
          BY <5>1, SumOneMore
      <4>6. SumFunction(r) = SumFunction(s) + r[z]
        <5>1. OneMore(s, r, F, z)
          BY <4>1, <4>3 DEF OneMore
        <5>. QED
          BY <5>1, SumOneMore
      <4>7. SumFunction(p) = SumFunction(r)
        BY <4>2, <4>3, <4>4, <4>5, <4>6
      <4>8. SumFunction(a(T)) = SumFunction(b(T))
        BY <4>7 DEF p, r
      <4>. QED
        BY <4>8
    <3>. QED
      BY <3>6, <3>7
  <2>. QED
    BY <2>1, <2>2
<1>3. D \in G
  <2>1. \A T \in SUBSET D : (\A U \in SUBSET T : U # T => U \in G) => T \in G
    <3>. HIDE DEF G
    <3>. QED
      BY <1>2
  <2>. HIDE DEF G
  <2>2. \A T \in SUBSET D : T \in G
    BY <2>1, SubsetInduction
  <2>. QED
    BY <2>2
<1>4. a(D) = f /\ b(D) = g
  <2>1. K(D) = E
    OBVIOUS
  <2>. QED
    BY <2>1 DEF a, b
<1>. QED
  BY <1>3, <1>4

-----------------------------------------------------------------------------

\* What updateInventoryWeight adds up is what the player wears.
LEMMA SlotsLoad ==
    ASSUME NEW s, Tree(s), NEW p \in Player
    PROVE  SumFunction([i \in Slot |-> IF s.inventory[p][i] = None THEN 0
                                       ELSE GetWeight(s, s.inventory[p][i])]) = Load(s, p)
<1>. DEFINE v == s.inventory[p]
            E == Kids(s, p)
            f == [i \in Slot |-> IF v[i] = None THEN 0 ELSE GetWeight(s, v[i])]
            g == [x \in E |-> GetWeight(s, x)]
<1>0. s \in States /\ Wears(v, E)
  BY DEF Tree, Agrees
<1>1. IsFiniteSet(E) /\ g \in [E -> Int] /\ None \notin E /\ E \subseteq Thing
  BY <1>0, LoadIs, Disjoint DEF Kids
<1>2. v \in [Slot -> Thing \cup {None}]
  BY <1>0, StateTypes
<1>3. f \in [Slot -> Int]
  <2>1. \A i \in Slot : v[i] # None => GetWeight(s, v[i]) \in Int
    <3>. HIDE DEF v
    <3>. QED
      BY <1>0, <1>2, WeightType
  <2>. HIDE DEF v
  <2>. QED
    BY <2>1
<1>4. \A i, j \in Slot : v[i] = v[j] => i = j \/ v[i] = None
  BY <1>0 DEF Wears
<1>5. \A y : y \in E <=> y # None /\ \E i \in Slot : v[i] = y
  BY <1>0 DEF Wears
<1>6. \A i \in Slot : f[i] = IF v[i] = None THEN 0 ELSE g[v[i]]
  <2>1. \A i \in Slot : v[i] # None => v[i] \in E
    BY <1>5
  <2>. HIDE DEF v, E
  <2>. QED
    BY <2>1
<1>7. Load(s, p) = SumFunction(g) /\ IsFiniteSet(Slot)
  BY Finite DEF Load
<1>. HIDE DEF v, E, f, g
<1>8. SumFunction(f) = SumFunction(g)
  BY <1>1, <1>3, <1>4, <1>5, <1>6, <1>7, SumAlong
<1>. QED
  BY <1>7, <1>8 DEF f, v

\* Who keeps a weight other than that of what it wears, if anybody.
LEMMA InventoryWeightIs ==
    ASSUME NEW s, Tree(s), NEW p \in Player, NEW t, t = UpdateInventoryWeight(s, p)
    PROVE  \A q \in Player : t.inventoryWeight[q] = IF q = p THEN Load(s, p) ELSE s.inventoryWeight[q]
<1>1. s \in States
  BY DEF Tree
<1>. DEFINE w == SumFunction([i \in Slot |-> IF s.inventory[p][i] = None THEN 0
                                             ELSE GetWeight(s, s.inventory[p][i])])
<1>2. w = Load(s, p)
  BY SlotsLoad
<1>3. t = [s EXCEPT !.inventoryWeight[p] = w]
  BY DEF UpdateInventoryWeight
<1>. HIDE DEF w
<1>. QED
  BY <1>1, <1>2, <1>3 DEF States

LEMMA PostAddIs ==
    ASSUME NEW s, Tree(s), NEW c, NEW t, t = PostAddNotification(s, c)
    PROVE  \A q \in Player : t.inventoryWeight[q] = IF q = HoldingPlayer(s, c) THEN Load(s, q)
                                                    ELSE s.inventoryWeight[q]
<1>. DEFINE p == HoldingPlayer(s, c)
<1>1. t = IF p = None THEN s ELSE UpdateInventoryWeight(s, p)
  BY DEF PostAddNotification
<1>2. p = None \/ p \in Player
  BY HoldingPlayerType
<1>3. None \notin Player
  BY Disjoint
<1>. HIDE DEF p
<1>4. CASE p = None
  BY <1>1, <1>3, <1>4 DEF p
<1>5. CASE p # None
  <2>1. p \in Player /\ t = UpdateInventoryWeight(s, p)
    BY <1>1, <1>2, <1>5
  <2>2. \A q \in Player : t.inventoryWeight[q] = IF q = p THEN Load(s, p) ELSE s.inventoryWeight[q]
    BY <2>1, InventoryWeightIs
  <2>. QED
    BY <2>2 DEF p
<1>. QED
  BY <1>4, <1>5

LEMMA PostRemoveIs ==
    ASSUME NEW s, Tree(s), NEW c, NEW x, NEW t, t = PostRemoveNotification(s, c, x)
    PROVE  \A q \in Player : t.inventoryWeight[q] = IF q = HoldingPlayer(s, c) THEN Load(s, q)
                                                    ELSE s.inventoryWeight[q]
<1>. DEFINE p == HoldingPlayer(s, c)
            told == IF p = None THEN Player ELSE {p}
            u == IF p = None THEN s ELSE UpdateInventoryWeight(s, p)
<1>1. t = IF x \in Container THEN CloseWindows(u, told, x) ELSE u
  BY DEF PostRemoveNotification
<1>2. u = PostAddNotification(s, c)
  BY DEF PostAddNotification
<1>. HIDE DEF u, told, p
<1>3. u \in States
  BY <1>2, PostAddTree DEF Tree
<1>4. t.inventoryWeight = u.inventoryWeight
  BY <1>1, <1>3 DEF CloseWindows, States
<1>. QED
  BY <1>2, <1>4, PostAddIs

\* Nothing is heavier or lighter.
LEMMA SameLoads ==
    ASSUME NEW s, NEW t, t.parent = s.parent, \A x \in Stack : s.parent[x] # None => t.count[x] = s.count[x],
           \A b \in Container : t.totalWeight[b] = s.totalWeight[b], NEW b, b # None
    PROVE  Load(t, b) = Load(s, b)
<1>1. Kids(t, b) = Kids(s, b)
  BY DEF Kids
<1>2. \A x \in Kids(s, b) : GetWeight(t, x) = GetWeight(s, x)
  BY DEF Kids, GetWeight
<1>. QED
  BY <1>1, <1>2, LoadSame

\* What m of x weigh
Amount(s, x, m) == IF x \in Stack THEN Weight[x] * m ELSE GetWeight(s, x)

\* removeThing
LEMMA RemoveHeavier ==
    ASSUME NEW s, Tree(s), NEW x \in Thing, NEW c \in Holder, s.parent[x] = c, NEW m \in Int,
           NEW diff, diff = - Amount(s, x, m)
    PROVE  Heavier(s, RemoveThing(s, c, x, m), c, diff)
<1>. DEFINE r == RemoveThing(s, c, x, m)
<1>0. s \in States /\ Rooted(s) /\ (x \in Stack => s.count[x] \in Int) /\ Weight[x] \in Int
  BY StateTypes, CylindersAssumption DEF Tree
<1>1. CASE x \in Stack /\ m # s.count[x]
  <2>. DEFINE n == s.count[x] - m
  <2>1. r = UpdateThing(s, c, x, n) /\ n \in Int
    BY <1>0, <1>1 DEF RemoveThing
  <2>2. diff = Weight[x] * (n - s.count[x])
    <3>. DEFINE k == s.count[x]
                a == Weight[x]
    <3>1. diff = - (a * m) /\ a \in Int /\ k \in Int
      BY <1>0, <1>1 DEF Amount
    <3>2. n - k = - m
      BY <3>1
    <3>3. a * (0 - m) = - (a * m)
      <4>. HIDE DEF a
      <4>. QED
        BY <3>1
    <3>. HIDE DEF a, k, n
    <3>4. n - k = 0 - m
      BY <3>2
    <3>. QED
      BY <3>1, <3>3, <3>4 DEF a, k
  <2>. HIDE DEF n, r
  <2>3. Heavier(s, r, c, diff)
    BY <1>1, <2>1, <2>2, CountHeavier
  <2>. QED
    BY <2>3 DEF r
<1>2. CASE ~(x \in Stack /\ m # s.count[x])
  <2>0. diff = - GetWeight(s, x)
    BY <1>2 DEF Amount, GetWeight
  <2>. DEFINE q == [s EXCEPT !.parent[x] = None]
  <2>1. /\ q \in States /\ q.parent = [s.parent EXCEPT ![x] = None] /\ q.count = s.count
        /\ q.totalWeight = s.totalWeight /\ q.itemlist = s.itemlist /\ q.inventory = s.inventory
    BY <1>0 DEF States, Where
  <2>2. \E u \in States : /\ u.parent = [s.parent EXCEPT ![x] = None] /\ u.count = s.count
                          /\ u.totalWeight = s.totalWeight /\ r = UpdateItemWeight(u, c, diff)
    <3>1. CASE c \in Player
      <4>. DEFINE w == [i \in Slot |-> IF s.inventory[c][i] = x THEN None ELSE s.inventory[c][i]]
                  v == [s.inventory EXCEPT ![c] = w]
      <4>1. r = [q EXCEPT !.inventory = v] /\ c \notin Container
        BY <1>2, <3>1, Disjoint DEF RemoveThing
      <4>2. w \in [Slot -> Thing \cup {None}]
        BY <1>0, <3>1, StateTypes
      <4>. HIDE DEF w, q
      <4>3. v \in [Player -> [Slot -> Thing \cup {None}]]
        BY <1>0, <3>1, <4>2 DEF States
      <4>. HIDE DEF v, r
      <4>4. /\ r \in States /\ r.parent = q.parent /\ r.count = q.count /\ r.totalWeight = q.totalWeight
        BY <2>1, <4>1, <4>3 DEF States
      <4>5. r = UpdateItemWeight(r, c, diff)
        BY <4>1 DEF UpdateItemWeight
      <4>. QED
        BY <2>1, <4>4, <4>5
    <3>2. CASE c \in Container \cup Tile
      <4>. DEFINE l == RemoveFirst(s.itemlist[c], x)
                  u == [q EXCEPT !.itemlist[c] = l]
      <4>0. c \notin Player
        BY <3>2, Disjoint
      <4>1. r = UpdateItemWeight(u, c, diff)
        BY <1>2, <2>0, <4>0 DEF RemoveThing
      <4>2. l \in Seq(Thing)
        <5>1. Lists(s.itemlist[c], Kids(s, c)) /\ x \in Kids(s, c)
          BY <3>2 DEF Tree, Agrees, Kids
        <5>2. Lists(l, Kids(s, c) \ {x})
          BY <5>1, RemovedLists
        <5>. QED
          BY <5>2 DEF Lists
      <4>. HIDE DEF l, q
      <4>3. /\ u \in States /\ u.parent = q.parent /\ u.count = q.count /\ u.totalWeight = q.totalWeight
        BY <2>1, <3>2, <4>2 DEF States
      <4>. HIDE DEF u, r
      <4>. QED
        BY <2>1, <4>1, <4>3
    <3>. QED
      BY <3>1, <3>2 DEF Holder
  <2>. HIDE DEF r, q
  <2>3. PICK u \in States : /\ u.parent = [s.parent EXCEPT ![x] = None] /\ u.count = s.count
                            /\ u.totalWeight = s.totalWeight /\ r = UpdateItemWeight(u, c, diff)
    BY <2>2
  <2>4. Heavier(s, r, c, diff)
    BY <1>0, <2>0, <2>3, TakeHeavier
  <2>. QED
    BY <2>4 DEF r
<1>. QED
  BY <1>1, <1>2

-----------------------------------------------------------------------------

\* What containers keep is what is in them.
Weighs(s) == \A b \in Container : s.totalWeight[b] = Load(s, b)

LEMMA HeavierWeighs ==
    ASSUME NEW s, Weighs(s), NEW t, NEW c, NEW diff, Heavier(s, t, c, diff)
    PROVE  Weighs(t)
BY DEF Weighs, Heavier

\* Nothing weighs less than nothing.
LEMMA WeightNat ==
    ASSUME NEW s, Loose(s), Weighs(s)
    PROVE  /\ \A b \in Container : s.totalWeight[b] \in Nat
           /\ \A x \in Thing : (x \in Stack => s.parent[x] # None) => GetWeight(s, x) \in Nat
<1>0. s \in States /\ Rooted(s) /\ Counted(s) /\ Agrees(s)
  BY DEF Loose, Tree
<1>1. ASSUME NEW x \in Thing, x \in Stack => s.parent[x] # None,
             x \in Container => s.totalWeight[x] \in Nat
      PROVE  GetWeight(s, x) \in Nat
  <2>1. Weight[x] \in Nat
    BY CylindersAssumption
  <2>2. CASE x \in Stack
    <3>1. s.count[x] \in Nat
      BY <1>0, <1>1, <2>2, Numbers DEF Counted
    <3>. DEFINE a == Weight[x]
                k == s.count[x]
    <3>2. GetWeight(s, x) = a * k /\ a \in Nat /\ k \in Nat
      BY <2>1, <2>2, <3>1 DEF GetWeight
    <3>. HIDE DEF a, k
    <3>3. a * k \in Nat
      BY <3>2, Times
    <3>. QED
      BY <3>2, <3>3
  <2>3. CASE x \notin Stack
    BY <1>1, <2>1, <2>3 DEF GetWeight
  <2>. QED
    BY <2>2, <2>3
<1>. DEFINE S == {c \in Container : s.totalWeight[c] \notin Nat}
<1>2. ASSUME NEW c \in S PROVE \E x \in S : s.parent[x] = c
  <2>. DEFINE D == Kids(s, c)
              f == [x \in D |-> GetWeight(s, x)]
  <2>1. c # None /\ D \subseteq Thing /\ \A x \in D : s.parent[x] = c
    BY Disjoint DEF Kids
  <2>2. SUFFICES ASSUME \A x \in D : x \notin S PROVE FALSE
    BY <2>1
  <2>3. \A x \in D : GetWeight(s, x) \in Nat
    BY <1>1, <2>1, <2>2
  <2>4. f \in [D -> Nat] /\ IsFiniteSet(D) /\ s.totalWeight[c] = SumFunction(f)
    BY <1>0, <2>3, LoadIs DEF Weighs, Load
  <2>. HIDE DEF D, f
  <2>5. SumFunction(f) \in Nat
    BY <2>4, SumNat
  <2>. QED
    BY <2>4, <2>5
<1>3. S = {}
  <2>. SUFFICES ASSUME S # {} PROVE FALSE
    OBVIOUS
  <2>. DEFINE f == [c \in S |-> CHOOSE x \in S : s.parent[x] = c]
  <2>1. \A c \in S : f[c] \in S /\ s.parent[f[c]] = c
    BY <1>2
  <2>2. S \in SUBSET Container /\ IsFiniteSet(S)
    <3>1. S \in SUBSET Container
      OBVIOUS
    <3>. HIDE DEF S
    <3>. QED
      BY <3>1, Finite, FS_Subset
  <2>3. f \in Injection(S, S)
    <3>1. f \in [S -> S] /\ DOMAIN f = S
      BY <2>1
    <3>. HIDE DEF f, S
    <3>2. \A a, b \in S : f[a] = f[b] => a = b
      BY <2>1
    <3>. QED
      BY <3>1, <3>2 DEF Injection, IsInjective
  <2>. HIDE DEF f, S
  <2>4. f \in Surjection(S, S)
    BY <2>2, <2>3, FS_Injection
  <2>5. PICK c \in S : s.parent[c] \notin S
    BY <1>0, <2>2 DEF Rooted
  <2>6. PICK b \in S : f[b] = c
    BY <2>4 DEF Surjection
  <2>. QED
    BY <2>1, <2>5, <2>6
<1>4. \A b \in Container : s.totalWeight[b] \in Nat
  BY <1>3
<1>. QED
  BY <1>1, <1>4

\* Amount is what removeThing takes, and what hasCapacity asks for.
LEMMA AmountIs ==
    ASSUME NEW s, Loose(s), Weighs(s), NEW x \in Thing, x \in Stack => s.parent[x] # None, NEW m \in Nat
    PROVE  Amount(s, x, m) \in Nat
<1>1. GetWeight(s, x) \in Nat
  BY WeightNat
<1>2. Weight[x] \in Nat
  BY CylindersAssumption
<1>3. Weight[x] * m \in Nat
  <2>. DEFINE a == Weight[x]
  <2>1. a \in Nat
    BY <1>2
  <2>. HIDE DEF a
  <2>2. a * m \in Nat
    BY <2>1, Times
  <2>. QED
    BY <2>2 DEF a
<1>. QED
  BY <1>1, <1>3 DEF Amount

LEMMA HeavierNone ==
    ASSUME NEW s \in States, NEW c
    PROVE  Heavier(s, s, c, 0)
BY StateTypes, LoadIs DEF Heavier

LEMMA HeavierTwice ==
    ASSUME NEW s \in States, NEW t, NEW u, NEW c, NEW a \in Int, NEW b \in Int, Chain(t, c) = Chain(s, c),
           Heavier(s, t, c, a), Heavier(t, u, c, b), NEW sum, sum = a + b
    PROVE  Heavier(s, u, c, sum)
<1>1. u \in States
  BY DEF Heavier
<1>2. ASSUME NEW y \in Container \cup Player
      PROVE  Load(u, y) = Load(s, y) + (IF y \in Chain(s, c) THEN sum ELSE 0)
  <2>1. Load(s, y) \in Int
    BY LoadIs
  <2>2. Load(t, y) = Load(s, y) + (IF y \in Chain(s, c) THEN a ELSE 0)
    BY DEF Heavier
  <2>3. Load(u, y) = Load(t, y) + (IF y \in Chain(s, c) THEN b ELSE 0)
    BY DEF Heavier
  <2>. QED
    BY <2>1, <2>2, <2>3
<1>3. ASSUME NEW y \in Container
      PROVE  u.totalWeight[y] = s.totalWeight[y] + (IF y \in Chain(s, c) THEN sum ELSE 0)
  <2>1. s.totalWeight[y] \in Int
    BY StateTypes
  <2>2. t.totalWeight[y] = s.totalWeight[y] + (IF y \in Chain(s, c) THEN a ELSE 0)
    BY DEF Heavier
  <2>3. u.totalWeight[y] = t.totalWeight[y] + (IF y \in Chain(s, c) THEN b ELSE 0)
    BY DEF Heavier
  <2>. QED
    BY <2>1, <2>2, <2>3
<1>. QED
  BY <1>1, <1>2, <1>3 DEF Heavier

\* What was counted otherwise in what is nowhere, weighs nothing.
LEMMA HeavierFrom ==
    ASSUME NEW s \in States, NEW q, q.parent = s.parent, q.totalWeight = s.totalWeight,
           \A z \in Stack : s.parent[z] # None => q.count[z] = s.count[z],
           NEW t, NEW c, NEW diff, Heavier(q, t, c, diff)
    PROVE  Heavier(s, t, c, diff)
<1>1. \A b \in Container \cup Player : Load(q, b) = Load(s, b)
  BY SameLoads, Disjoint
<1>2. Chain(q, c) = Chain(s, c)
  BY ChainParents
<1>. QED
  BY <1>1, <1>2 DEF Heavier

LEMMA TimesParts ==
    ASSUME NEW a \in Int, NEW m \in Int, NEW k \in Int
    PROVE  a * k + a * (m - k) = a * m /\ a * k \in Int
<1>. DEFINE p == a * m
            q == a * k
            r == a * (m - k)
<1>1. p - q = r /\ p \in Int /\ q \in Int
  BY TimesMinus
<1>. HIDE DEF p, q, r
<1>2. q + r = p /\ q \in Int
  BY <1>1
<1>. QED
  BY <1>2 DEF p, q, r

\* All stacks weigh alike.
LEMMA StacksAlike ==
    ASSUME NEW x \in Stack, NEW y \in Stack
    PROVE  Weight[y] = Weight[x] /\ Weight[x] \in Nat
BY ItemsAssumption, CylindersAssumption, Disjoint

\* Who is a player at the top of what.
LEMMA HeldBy ==
    ASSUME NEW s \in States, Rooted(s), NEW c, NEW p \in Player
    PROVE  p \in Chain(s, c) <=> HoldingPlayer(s, c) = p
<1>1. HoldingPlayer(s, c) = IF Top(s, c) \in Player THEN Top(s, c) ELSE None
  BY HoldingPlayerIs
<1>2. /\ Top(s, c) \in Chain(s, c)
      /\ \A t \in Chain(s, c) \ Container : t = Top(s, c)
  BY TopIs
<1>3. p \notin Container /\ p # None
  BY Disjoint
<1>. QED
  BY <1>1, <1>2, <1>3

\* Where a stack in d.to gets k pieces.
LEMMA MergeHeavier ==
    ASSUME NEW r, Tree(r), NEW c \in Holder, NEW y \in Stack, r.parent[y] = c, NEW k \in Int,
           NEW x \in Stack, NEW u, u = UpdateThing(r, c, y, r.count[y] + k)
    PROVE  Heavier(r, u, c, Weight[x] * k)
<1>. DEFINE n == r.count[y] + k
            diff == Weight[x] * k
<1>1. r.count[y] \in Int /\ n \in Int /\ n - r.count[y] = k
  BY StateTypes DEF Tree
<1>2. Weight[y] = Weight[x]
  BY StacksAlike
<1>3. diff = Weight[y] * (n - r.count[y])
  BY <1>1, <1>2
<1>. HIDE DEF n, diff
<1>4. Heavier(r, UpdateThing(r, c, y, n), c, diff)
  BY <1>1, <1>3, CountHeavier
<1>. QED
  BY <1>4 DEF n, diff

\* What rests in d.to
LEMMA RestHeavier ==
    ASSUME NEW u, Tree(u), NEW d \in Destinations, NEW x \in Thing, NEW n \in Int,
           NEW q, NEW t, NEW y, Rested(u, q, t, d, x, y, n),
           NEW diff, diff = Amount(u, x, n)
    PROVE  Heavier(u, t, d.to, diff)
<1>0. /\ y \in Thing /\ u.parent[y] = None /\ (x \notin Stack => y = x) /\ (x \in Stack => y \in Stack)
      /\ Tree(q) /\ SamePlaces(u, q) /\ q.totalWeight = u.totalWeight
      /\ \A z \in Stack : q.count[z] = IF z = y THEN n ELSE u.count[z]
      /\ t = AddThing(q, d.to, d.index, y) /\ y \notin Chain(q, d.to)
      /\ Added(q, t, y, d.to, d.index)
  BY DEF Rested
<1>1. d.to \in Holder /\ d.index \in Int /\ u \in States /\ q.parent = u.parent /\ q.parent[y] = None
  BY <1>0 DEF Destinations, SamePlaces, Tree
<1>2. GetWeight(q, y) = diff
  <2>1. CASE x \in Stack
    <3>1. Weight[y] = Weight[x] /\ y \in Stack
      BY <1>0, <2>1, StacksAlike
    <3>. QED
      BY <1>0, <2>1, <3>1 DEF GetWeight, Amount
  <2>2. CASE x \notin Stack
    BY <1>0, <2>2 DEF GetWeight, Amount
  <2>. QED
    BY <2>1, <2>2
<1>3. Heavier(q, t, d.to, diff)
  <2>0. t # q
    <3>1. t.parent = [q.parent EXCEPT ![y] = d.to]
      BY <1>0 DEF Added, PutIn
    <3>2. q \in States /\ d.to # None
      BY <1>0, <1>1, Disjoint DEF Tree, Holder
    <3>. QED
      BY <1>0, <1>1, <3>1, <3>2 DEF States
  <2>1. d.to \in Player => d.index \in Slot
    BY <1>0, <2>0 DEF AddThing
  <2>2. d.to \in Container => d.index < Capacity
    BY <1>0, <1>1, <2>0, Numbers, Disjoint DEF AddThing
  <2>. QED
    BY <1>0, <1>1, <1>2, <2>1, <2>2, AddHeavier
<1>4. \A z \in Stack : u.parent[z] # None => q.count[z] = u.count[z]
  BY <1>0
<1>. QED
  BY <1>0, <1>1, <1>3, <1>4, HeavierFrom

LEMMA AmountType ==
    ASSUME NEW s \in States, NEW x \in Thing, NEW m \in Int
    PROVE  Amount(s, x, m) \in Int
<1>1. GetWeight(s, x) \in Int
  BY WeightType
<1>2. Weight[x] * m \in Int
  <2>. DEFINE a == Weight[x]
  <2>1. a \in Int
    BY CylindersAssumption
  <2>. HIDE DEF a
  <2>2. a * m \in Int
    BY <2>1
  <2>. QED
    BY <2>2 DEF a
<1>. QED
  BY <1>1, <1>2 DEF Amount

\* What is merged and what rests, together
LEMMA StackParts ==
    ASSUME NEW r \in States, NEW u, NEW v, NEW c, NEW x \in Stack, NEW m \in Int, NEW k \in Int,
           Chain(u, c) = Chain(r, c),
           IF k = 0 THEN u = r ELSE Heavier(r, u, c, Weight[x] * k),
           IF m = k THEN v = u ELSE Heavier(u, v, c, Weight[x] * (m - k))
    PROVE  Heavier(r, v, c, Weight[x] * m)
<1>. DEFINE a == Weight[x]
            p == a * k
            q == a * (m - k)
            w == a * m
<1>0. a \in Int /\ m - k \in Int
  BY StacksAlike
<1>1. p + q = w /\ p \in Int /\ q \in Int /\ (k = 0 => p = 0) /\ (m = k => q = 0)
  <2>. HIDE DEF a
  <2>1. a * k + a * (m - k) = a * m /\ a * k \in Int
    BY <1>0, TimesParts
  <2>2. a * (m - k) \in Int
    BY <1>0, TimesMinus
  <2>3. k = 0 => a * k = 0
    BY <1>0
  <2>4. m = k => a * (m - k) = 0
    <3>. SUFFICES ASSUME m = k PROVE a * (m - k) = 0
      OBVIOUS
    <3>. DEFINE z == m - k
    <3>1. z = 0
      OBVIOUS
    <3>. HIDE DEF z
    <3>2. a * z = 0
      BY <1>0, <3>1
    <3>. QED
      BY <3>2 DEF z
  <2>. QED
    BY <2>1, <2>2, <2>3, <2>4
<1>2. Heavier(r, u, c, p)
  <2>1. CASE k = 0
    BY <1>1, <2>1, HeavierNone
  <2>2. CASE k # 0
    BY <2>2
  <2>. QED
    BY <2>1, <2>2
<1>3. u \in States
  BY <1>2 DEF Heavier
<1>4. Heavier(u, v, c, q)
  <2>1. CASE m = k
    BY <1>1, <1>3, <2>1, HeavierNone
  <2>2. CASE m # k
    BY <2>2
  <2>. QED
    BY <2>1, <2>2
<1>5. w = p + q
  BY <1>1
<1>. HIDE DEF p, q, w
<1>6. Heavier(r, v, c, w)
  BY <1>1, <1>2, <1>4, <1>5, HeavierTwice
<1>. QED
  BY <1>6 DEF w

\* What a move takes from one cylinder, it puts in the other.
Carries(s, r, v, from, to, diff) ==
    /\ \E neg : neg = - diff /\ Heavier(s, r, from, neg)
    /\ Heavier(r, v, to, diff)
    /\ Chain(r, to) = Chain(s, to) /\ Chain(v, to) = Chain(s, to) /\ Chain(v, from) = Chain(s, from)

LEMMA StepsCarry ==
    ASSUME NEW s, Good(s), NEW from, NEW d, NEW x, NEW m, Possible(s, from, d, x, m),
           NEW r, NEW u, NEW v, NEW w, NEW t, Steps(s, from, d, x, m, r, u, v, w, t),
           d.item \in Stack => s.parent[d.item] = d.to,
           NEW diff, diff = Amount(s, x, m)
    PROVE  Carries(s, r, v, from, d.to, diff)
<1>. DEFINE k == Merging(s, d, x, m)
            to == d.to
<1>0. /\ s \in States /\ Tree(s) /\ x \in Thing /\ s.parent[x] = from /\ from \in Holder
      /\ d \in Destinations /\ to \in Holder /\ to # None /\ m \in Int /\ m \in Nat /\ d.item # x
      /\ d.item \in Stack => s.parent[d.item] # None
      /\ x \notin Chain(s, to) /\ x \notin Chain(s, from)
      /\ x \notin Stack => m = 1
  BY PossibleTypes
<1>1. k \in 0..m /\ (k # 0 => x \in Stack /\ d.item \in Stack)
  BY <1>0, MergingIs
<1>2. /\ r = RemoveThing(s, from, x, m) /\ Tree(r) /\ Removed(s, r, x, m)
      /\ k = 0 => u = r
      /\ k # 0 => /\ u = UpdateThing(r, d.to, d.item, r.count[d.item] + k)
                  /\ Updated(r, u, d.to, d.item, r.count[d.item] + k)
      /\ m = k => v = u
      /\ m # k => \E y, q : Rested(u, q, v, d, x, y, m - k)
  BY DEF Steps
<1>3. /\ Loose(r) /\ Loose(u) /\ Loose(v)
      /\ \A y \in Container : v.parent[y] = IF y = x THEN to ELSE s.parent[y]
  BY StepsLoose
<1>. HIDE DEF k
<1>4. diff \in Int
  BY <1>0, AmountType
<1>5. \E neg : neg = - diff /\ Heavier(s, r, from, neg)
  BY <1>0, <1>2, RemoveHeavier
<1>6. Chain(r, to) = Chain(s, to)
  BY <1>0, <1>2 DEF Removed
<1>7. /\ Chain(v, to) = Chain(s, to) /\ Chain(v, from) = Chain(s, from)
  <2>1. \A y \in Chain(s, to) \cap Container : v.parent[y] = s.parent[y]
    BY <1>0, <1>3
  <2>2. \A y \in Chain(s, from) \cap Container : v.parent[y] = s.parent[y]
    BY <1>0, <1>3
  <2>. QED
    BY <2>1, <2>2, ChainSame
<1>8. Chain(u, to) = Chain(r, to) /\ r \in States /\ u \in States /\ Tree(u) /\ Tree(r)
  <2>1. k # 0 => SamePlaces(r, u)
    BY <1>2 DEF Updated
  <2>2. u.parent = r.parent
    BY <1>2, <2>1 DEF SamePlaces
  <2>. QED
    BY <1>3, <2>2, ChainParents DEF Loose, Tree
<1>9. Heavier(r, v, to, diff)
  <2>1. CASE x \in Stack
    <3>. DEFINE n == m - k
    <3>0. n \in Int /\ k \in Int
      BY <1>0, <1>1
    <3>1. IF k = 0 THEN u = r ELSE Heavier(r, u, to, Weight[x] * k)
      <4>1. CASE k = 0
        BY <1>2, <4>1
      <4>2. CASE k # 0
        <5>1. d.item \in Stack /\ s.parent[d.item] = to /\ d.item \in Thing
          BY <1>1, <4>2, Disjoint
        <5>2. r.parent[d.item] = to
          BY <1>0, <1>2, <5>1 DEF Removed
        <5>3. u = UpdateThing(r, to, d.item, r.count[d.item] + k)
          BY <1>2, <4>2
        <5>. HIDE DEF to
        <5>4. Heavier(r, u, to, Weight[x] * k)
          BY <1>0, <1>8, <2>1, <3>0, <5>1, <5>2, <5>3, MergeHeavier
        <5>. QED
          BY <4>2, <5>4
      <4>. QED
        BY <4>1, <4>2
    <3>2. IF m = k THEN v = u ELSE Heavier(u, v, to, Weight[x] * n)
      <4>1. CASE m = k
        BY <1>2, <4>1
      <4>2. CASE m # k
        <5>1. PICK y, q : Rested(u, q, v, d, x, y, n)
          BY <1>2, <4>2
        <5>2. Amount(u, x, n) = Weight[x] * n
          BY <2>1 DEF Amount
        <5>. HIDE DEF n
        <5>3. Heavier(u, v, d.to, Weight[x] * n)
          BY <1>0, <1>8, <3>0, <5>1, <5>2, RestHeavier
        <5>. QED
          BY <4>2, <5>3
      <4>. QED
        BY <4>1, <4>2
    <3>3. diff = Weight[x] * m
      BY <2>1 DEF Amount
    <3>. HIDE DEF to
    <3>4. Heavier(r, v, to, Weight[x] * m)
      BY <1>0, <1>8, <2>1, <3>0, <3>1, <3>2, StackParts
    <3>. QED
      BY <3>3, <3>4
  <2>2. CASE x \notin Stack
    <3>1. k = 0 /\ m = 1 /\ u = r /\ m # k
      BY <1>0, <1>1, <1>2, <2>2
    <3>2. PICK y, q : Rested(u, q, v, d, x, y, m - k)
      BY <1>2, <3>1
    <3>3. Amount(u, x, m - k) = diff
      <4>1. r.totalWeight[x] = s.totalWeight[x] \/ x \notin Container
        <5>1. PICK neg : Heavier(s, r, from, neg)
          BY <1>5
        <5>2. x \in Container => s.totalWeight[x] \in Int
          BY <1>0, StateTypes
        <5>. QED
          BY <1>0, <5>1, <5>2 DEF Heavier
      <4>. QED
        BY <2>2, <3>1, <4>1 DEF Amount, GetWeight
    <3>. DEFINE n == m - k
    <3>4. n \in Int /\ Rested(u, q, v, d, x, y, n) /\ Amount(u, x, n) = diff
      BY <1>0, <3>1, <3>2, <3>3
    <3>. HIDE DEF n
    <3>5. Heavier(u, v, d.to, diff)
      BY <1>0, <1>8, <3>4, RestHeavier
    <3>. QED
      BY <3>1, <3>5
  <2>. QED
    BY <2>1, <2>2
<1>. QED
  BY <1>5, <1>6, <1>7, <1>9 DEF Carries

\* Players keep the weight of what they wear, and can bear it.
Bears(s) == \A p \in Player : s.inventoryWeight[p] = Load(s, p) /\ Load(s, p) <= Strength[p]

\* What is in a player after diff went from one cylinder to another
Balance(s, t, from, to, diff) ==
    \A p \in Player : Load(t, p) = Load(s, p) + (IF HoldingPlayer(s, to) = p THEN diff ELSE 0)
                                              - (IF HoldingPlayer(s, from) = p THEN diff ELSE 0)

LEMMA CarriesBalance ==
    ASSUME NEW s \in States, Rooted(s), NEW r, NEW v, NEW from, NEW to, NEW diff \in Int,
           Carries(s, r, v, from, to, diff)
    PROVE  Balance(s, v, from, to, diff)
<1>. SUFFICES ASSUME NEW p \in Player
              PROVE  Load(v, p) = Load(s, p) + (IF HoldingPlayer(s, to) = p THEN diff ELSE 0)
                                             - (IF HoldingPlayer(s, from) = p THEN diff ELSE 0)
  BY DEF Balance
<1>1. PICK neg : neg = - diff /\ Heavier(s, r, from, neg)
  BY DEF Carries
<1>2. Heavier(r, v, to, diff) /\ Chain(r, to) = Chain(s, to)
  BY DEF Carries
<1>3. Load(r, p) = Load(s, p) + (IF p \in Chain(s, from) THEN neg ELSE 0)
  BY <1>1 DEF Heavier
<1>4. Load(v, p) = Load(r, p) + (IF p \in Chain(s, to) THEN diff ELSE 0)
  BY <1>2 DEF Heavier
<1>5. /\ p \in Chain(s, from) <=> HoldingPlayer(s, from) = p
      /\ p \in Chain(s, to) <=> HoldingPlayer(s, to) = p
  BY HeldBy
<1>6. Load(s, p) \in Int
  BY LoadIs
<1>. QED
  BY <1>1, <1>3, <1>4, <1>5, <1>6

\* A move keeps the weights of containers and players that are those of what is there.
LEMMA StepsWeigh ==
    ASSUME NEW s, Good(s), NEW from, NEW d, NEW x, NEW m, Possible(s, from, d, x, m),
           NEW r, NEW u, NEW v, NEW w, NEW t, Steps(s, from, d, x, m, r, u, v, w, t),
           d.item \in Stack => s.parent[d.item] = d.to,
           Weighs(s), \A p \in Player : s.inventoryWeight[p] = Load(s, p),
           NEW diff, diff = Amount(s, x, m)
    PROVE  /\ Weighs(t) /\ Balance(s, t, from, d.to, diff) /\ diff \in Nat
           /\ \A p \in Player : t.inventoryWeight[p] = Load(t, p)
<1>. DEFINE to == d.to
<1>0. /\ s \in States /\ Tree(s) /\ Rooted(s) /\ x \in Thing /\ s.parent[x] = from /\ from # None
      /\ from \in Holder /\ m \in Nat
  BY PossibleTypes
<1>1. diff \in Nat
  <2>1. Loose(s) /\ (x \in Stack => s.parent[x] # None)
    BY <1>0 DEF Good, Loose
  <2>. QED
    BY <1>0, <2>1, AmountIs
<1>2. Carries(s, r, v, from, to, diff)
  BY StepsCarry
<1>3. /\ Loose(v) /\ Loose(w) /\ Loose(t) /\ SamePlaces(v, w) /\ SamePlaces(w, t) /\ SameKept(s, v)
  BY StepsLoose
<1>4. w = PostRemoveNotification(v, from, x) /\ t = PostAddNotification(w, to)
  BY DEF Steps
<1>5. Tree(v) /\ Tree(w) /\ Tree(t)
  BY <1>3 DEF Loose
<1>6. w.count = v.count /\ w.totalWeight = v.totalWeight
  BY <1>4, <1>5, PostRemoveTree
<1>7. t.count = w.count /\ t.totalWeight = w.totalWeight
  BY <1>4, <1>5, PostAddTree
<1>8. /\ w.parent = v.parent /\ t.parent = v.parent
  BY <1>3 DEF SamePlaces
<1>9. \A b \in Container \cup Player : Load(w, b) = Load(v, b) /\ Load(t, b) = Load(v, b)
  <2>1. \A b : b # None => Load(w, b) = Load(v, b)
    BY <1>6, <1>8, SameLoads
  <2>2. \A b : b # None => Load(t, b) = Load(v, b)
    BY <1>6, <1>7, <1>8, SameLoads
  <2>. QED
    BY <2>1, <2>2, Disjoint
<1>10. Weighs(v)
  <2>1. \E neg : Heavier(s, r, from, neg)
    BY <1>2 DEF Carries
  <2>2. Weighs(r)
    BY <2>1, HeavierWeighs
  <2>. QED
    BY <1>2, <2>2, HeavierWeighs DEF Carries
<1>11. Weighs(t)
  BY <1>6, <1>7, <1>9, <1>10 DEF Weighs
<1>12. Balance(s, v, from, to, diff)
  BY <1>0, <1>1, <1>2, CarriesBalance
<1>13. Balance(s, t, from, to, diff)
  BY <1>9, <1>12 DEF Balance
<1>14. HoldingPlayer(v, from) = HoldingPlayer(s, from) /\ HoldingPlayer(w, to) = HoldingPlayer(s, to)
  <2>1. Chain(v, from) = Chain(s, from) /\ Chain(v, to) = Chain(s, to)
    BY <1>2 DEF Carries
  <2>2. Chain(w, to) = Chain(v, to)
    BY <1>8, ChainParents
  <2>. QED
    BY <2>1, <2>2 DEF HoldingPlayer
<1>15. ASSUME NEW p \in Player PROVE t.inventoryWeight[p] = Load(t, p)
  <2>1. t.inventoryWeight[p] = IF p = HoldingPlayer(w, to) THEN Load(w, p) ELSE w.inventoryWeight[p]
    BY <1>4, <1>5, PostAddIs
  <2>2. w.inventoryWeight[p] = IF p = HoldingPlayer(v, from) THEN Load(v, p) ELSE v.inventoryWeight[p]
    BY <1>4, <1>5, PostRemoveIs
  <2>3. v.inventoryWeight[p] = Load(s, p)
    BY <1>3 DEF SameKept
  <2>4. CASE p = HoldingPlayer(s, to) \/ p = HoldingPlayer(s, from)
    BY <1>9, <1>14, <2>1, <2>2, <2>4
  <2>5. CASE ~(p = HoldingPlayer(s, to) \/ p = HoldingPlayer(s, from))
    <3>1. Load(v, p) = Load(s, p)
      <4>1. Load(s, p) \in Int
        BY <1>0, LoadIs
      <4>. QED
        BY <1>12, <2>5, <4>1 DEF Balance
    <3>. QED
      BY <1>9, <1>14, <2>1, <2>2, <2>3, <2>5, <3>1
  <2>. QED
    BY <2>4, <2>5
<1>. QED
  BY <1>1, <1>11, <1>13, <1>15

LEMMA MoreWeighs ==
    ASSUME NEW s, Loose(s), Weighs(s), NEW x \in Thing, x \in Stack => s.parent[x] # None,
           NEW n \in Nat, NEW m \in 0..n
    PROVE  Amount(s, x, m) <= Amount(s, x, n) /\ Amount(s, x, n) \in Nat
<1>1. Amount(s, x, n) \in Nat
  BY AmountIs
<1>2. CASE x \in Stack
  <2>. DEFINE a == Weight[x]
  <2>1. a \in Nat
    BY CylindersAssumption
  <2>. HIDE DEF a
  <2>2. a * m <= a * n
    BY <2>1, Less
  <2>. QED
    BY <1>1, <1>2, <2>2 DEF Amount, a
<1>3. CASE x \notin Stack
  BY <1>1, <1>3 DEF Amount
<1>. QED
  BY <1>1, <1>2, <1>3

\* Who has the capacity for what comes, bears it.
LEMMA BalanceBears ==
    ASSUME NEW s, Good(s), Weighs(s), Bears(s), NEW x \in Thing, NEW from, s.parent[x] = from, from # None,
           NEW n \in Nat, NEW m \in 0..n, NEW diff, diff = Amount(s, x, m),
           NEW to, HoldingPlayer(s, to) # None => HasCapacity(s, HoldingPlayer(s, to), x, n),
           NEW t, Balance(s, t, from, to, diff)
    PROVE  \A p \in Player : Load(t, p) <= Strength[p]
<1>. SUFFICES ASSUME NEW p \in Player PROVE Load(t, p) <= Strength[p]
  OBVIOUS
<1>0. s \in States /\ Loose(s) /\ Load(s, p) \in Int /\ Strength[p] \in Int /\ p # None
  BY LoadIs, CylindersAssumption, Disjoint DEF Good, Tree, Loose
<1>1. Amount(s, x, m) <= Amount(s, x, n) /\ Amount(s, x, n) \in Nat /\ diff \in Nat
  <2>1. Amount(s, x, m) <= Amount(s, x, n) /\ Amount(s, x, n) \in Nat
    BY <1>0, MoreWeighs
  <2>2. m \in Nat
    OBVIOUS
  <2>3. Amount(s, x, m) \in Nat
    BY <1>0, <2>2, AmountIs
  <2>. QED
    BY <2>1, <2>3
<1>2. Load(t, p) = Load(s, p) + (IF HoldingPlayer(s, to) = p THEN diff ELSE 0)
                              - (IF HoldingPlayer(s, from) = p THEN diff ELSE 0)
  BY DEF Balance
<1>3. s.inventoryWeight[p] = Load(s, p) /\ Load(s, p) <= Strength[p]
  BY DEF Bears
<1>4. CASE HoldingPlayer(s, to) = p /\ HoldingPlayer(s, from) # p
  <2>1. Amount(s, x, n) <= Strength[p] - Load(s, p)
    <3>1. HasCapacity(s, p, x, n)
      BY <1>0, <1>4
    <3>. QED
      BY <1>3, <1>4, <3>1 DEF HasCapacity, Amount
  <2>. QED
    BY <1>0, <1>1, <1>2, <1>4, <2>1
<1>5. CASE ~(HoldingPlayer(s, to) = p /\ HoldingPlayer(s, from) # p)
  BY <1>0, <1>1, <1>2, <1>3, <1>5
<1>. QED
  BY <1>4, <1>5

\* Who is asked whether x may come, has the capacity for it.
LEMMA AddCapacity ==
    ASSUME NEW s, Good(s), NEW c \in Holder, NEW i, NEW x \in Thing, NEW n,
           QueryAdd(s, c, i, x, n) = "ok"
    PROVE  HoldingPlayer(s, c) # None => HasCapacity(s, HoldingPlayer(s, c), x, n)
<1>0. Rooted(s)
  BY DEF Good, Tree
<1>1. CASE c \in Player
  <2>1. PlayerQueryAdd(s, c, i, x, n) = "ok"
    BY <1>1, AddOk
  <2>2. HasCapacity(s, c, x, n)
    BY <2>1, SlotOk
  <2>3. HoldingPlayer(s, c) = c
    <3>1. c \notin Container
      BY <1>1, Disjoint
    <3>2. Top(s, c) = c
      BY <1>0, <3>1, TopTop
    <3>. QED
      BY <1>0, <1>1, <3>2, HoldingPlayerIs
  <2>. QED
    BY <2>2, <2>3
<1>2. CASE c \in Container
  <2>1. ContainerQueryAdd(s, c, i, x, n)
    BY <1>2, AddOk
  <2>. QED
    BY <2>1 DEF ContainerQueryAdd
<1>3. CASE c \in Tile
  <2>1. c \notin Container /\ c \notin Player
    BY <1>3, Disjoint
  <2>2. Top(s, c) = c
    BY <1>0, <2>1, TopTop
  <2>3. HoldingPlayer(s, c) = None
    BY <1>0, <2>1, <2>2, HoldingPlayerIs
  <2>. QED
    BY <2>3
<1>. QED
  BY <1>1, <1>2, <1>3 DEF Holder

\* How long lists are after a move
Lengths(s, t, from, d, x, m) ==
    \A c \in Container :
        Len(t.itemlist[c]) = Len(s.itemlist[c]) - (IF c = from /\ ~Part(s, x, m) THEN 1 ELSE 0)
                             + (IF c = d.to /\ Merging(s, d, x, m) # m THEN 1 ELSE 0)

LEMMA StepsLengths ==
    ASSUME NEW s, Good(s), NEW from, NEW d, NEW x, NEW m, Possible(s, from, d, x, m),
           NEW r, NEW u, NEW v, NEW w, NEW t, Steps(s, from, d, x, m, r, u, v, w, t)
    PROVE  Lengths(s, t, from, d, x, m)
<1>. SUFFICES ASSUME NEW c \in Container
              PROVE  Len(t.itemlist[c]) = Len(s.itemlist[c]) - (IF c = from /\ ~Part(s, x, m) THEN 1 ELSE 0)
                                          + (IF c = d.to /\ Merging(s, d, x, m) # m THEN 1 ELSE 0)
  BY DEF Lengths
<1>. DEFINE k == Merging(s, d, x, m)
<1>0. /\ s \in States /\ s.parent[x] = from /\ c \in Container \cup Tile
      /\ Len(s.itemlist[c]) \in Nat
  BY PossibleTypes, Sizes
<1>1. Len(r.itemlist[c]) = IF c = from /\ ~Part(s, x, m) THEN Len(s.itemlist[c]) - 1
                           ELSE Len(s.itemlist[c])
  BY <1>0 DEF Steps, Removed
<1>2. u.itemlist = r.itemlist
  <2>1. k # 0 => SamePlaces(r, u)
    BY DEF Steps, Updated
  <2>2. k = 0 => u = r
    BY DEF Steps
  <2>. HIDE DEF k
  <2>. QED
    BY <2>1, <2>2 DEF SamePlaces
<1>3. Len(v.itemlist[c]) = Len(u.itemlist[c]) + (IF c = d.to /\ k # m THEN 1 ELSE 0)
  <2>0. u \in States /\ Len(u.itemlist[c]) \in Nat /\ Tree(u)
    <3>1. Loose(u)
      BY StepsLoose
    <3>. QED
      BY <1>0, <3>1, Sizes DEF Loose, Tree
  <2>1. CASE m = k
    <3>1. v = u
      BY <2>1 DEF Steps
    <3>. HIDE DEF k
    <3>. QED
      BY <2>0, <2>1, <3>1
  <2>2. CASE m # k
    <3>1. \E y, q : Rested(u, q, v, d, x, y, m - k)
      BY <2>2 DEF Steps
    <3>. HIDE DEF k
    <3>2. PICK y, q : Rested(u, q, v, d, x, y, m - k)
      BY <3>1
    <3>3. /\ Tree(q) /\ q.itemlist = u.itemlist /\ y \in Thing /\ q.parent[y] = None
          /\ Added(q, v, y, d.to, d.index)
      BY <3>2 DEF Rested, SamePlaces
    <3>4. v.itemlist[c] = IF c = d.to THEN <<y>> \o u.itemlist[c] ELSE u.itemlist[c]
      BY <1>0, <3>3 DEF Added, PutIn
    <3>5. Len(<<y>> \o u.itemlist[c]) = Len(u.itemlist[c]) + 1
      <4>1. Lists(u.itemlist[c], Kids(u, c))
        BY <1>0, <2>0 DEF Tree, Agrees
      <4>2. u.parent[y] = None /\ c # None
        BY <3>2, Disjoint DEF Rested
      <4>3. y \notin Kids(u, c)
        BY <4>2 DEF Kids
      <4>. QED
        BY <3>3, <4>1, <4>3, AddedLists
    <3>6. CASE c = d.to
      BY <2>2, <3>4, <3>5, <3>6
    <3>7. CASE c # d.to
      <4>1. v.itemlist[c] = u.itemlist[c]
        BY <3>4, <3>7
      <4>. QED
        BY <2>0, <3>7, <4>1
    <3>. QED
      BY <3>6, <3>7
  <2>. QED
    BY <2>1, <2>2
<1>4. t.itemlist = v.itemlist
  <2>1. SamePlaces(v, w) /\ SamePlaces(w, t)
    BY StepsLoose
  <2>. QED
    BY <2>1 DEF SamePlaces
<1>. HIDE DEF k
<1>5. Len(t.itemlist[c]) = Len(s.itemlist[c]) - (IF c = from /\ ~Part(s, x, m) THEN 1 ELSE 0)
                           + (IF c = d.to /\ k # m THEN 1 ELSE 0)
  <2>. DEFINE a == Len(s.itemlist[c])
              b == Len(r.itemlist[c])
              e == Len(t.itemlist[c])
  <2>1. e = b + (IF c = d.to /\ k # m THEN 1 ELSE 0)
    BY <1>2, <1>3, <1>4
  <2>2. a \in Nat /\ b = IF c = from /\ ~Part(s, x, m) THEN a - 1 ELSE a
    BY <1>0, <1>1
  <2>. HIDE DEF a, b, e
  <2>3. e = a - (IF c = from /\ ~Part(s, x, m) THEN 1 ELSE 0) + (IF c = d.to /\ k # m THEN 1 ELSE 0)
    BY <2>1, <2>2
  <2>. QED
    BY <2>3 DEF a, e
<1>. QED
  BY <1>5 DEF k

LEMMA LengthsSnug ==
    ASSUME NEW s \in States, Snug(s), NEW from, NEW d, NEW x, NEW m, Roomy(s, d, x, m),
           NEW t, Lengths(s, t, from, d, x, m)
    PROVE  Snug(t)
<1>. SUFFICES ASSUME NEW c \in Container PROVE Len(t.itemlist[c]) <= Capacity
  BY DEF Snug
<1>. DEFINE a == Len(s.itemlist[c])
            e == Len(t.itemlist[c])
            new == c = d.to /\ Merging(s, d, x, m) # m
            gone == c = from /\ ~Part(s, x, m)
<1>1. a \in Nat /\ a <= Capacity
  BY Sizes DEF Snug
<1>2. e = a - (IF gone THEN 1 ELSE 0) + (IF new THEN 1 ELSE 0)
  BY DEF Lengths
<1>3. new => a < Capacity
  BY DEF Roomy
<1>. HIDE DEF a, e, new, gone
<1>4. e <= Capacity
  BY <1>1, <1>2, <1>3, Numbers
<1>. QED
  BY <1>4 DEF e

\* What is in the slots after a move: y is what rests, if anything does.
WornAfter(s, t, d, x, m, y) ==
    \A p \in Player, i \in Slot :
        t.inventory[p][i] = IF p = d.to /\ i = d.index /\ Merging(s, d, x, m) # m THEN y
                            ELSE IF s.inventory[p][i] = x /\ ~Part(s, x, m) THEN None
                            ELSE s.inventory[p][i]

LEMMA StepsWorn ==
    ASSUME NEW s, Good(s), NEW from, NEW d, NEW x, NEW m, Possible(s, from, d, x, m),
           NEW r, NEW u, NEW v, NEW w, NEW t, Steps(s, from, d, x, m, r, u, v, w, t)
    PROVE  \E y \in Thing : (y = x \/ (y \in Stack /\ x \in Stack)) /\ WornAfter(s, t, d, x, m, y)
<1>. DEFINE k == Merging(s, d, x, m)
            after(p, i) == IF s.inventory[p][i] = x /\ ~Part(s, x, m) THEN None ELSE s.inventory[p][i]
<1>0. x \in Thing
  BY PossibleTypes
<1>1. \A p \in Player, i \in Slot : r.inventory[p][i] = after(p, i)
  BY DEF Steps, Removed
<1>2. u.inventory = r.inventory
  <2>1. k # 0 => SamePlaces(r, u)
    BY DEF Steps, Updated
  <2>2. k = 0 => u = r
    BY DEF Steps
  <2>. HIDE DEF k
  <2>. QED
    BY <2>1, <2>2 DEF SamePlaces
<1>4. t.inventory = v.inventory
  <2>1. SamePlaces(v, w) /\ SamePlaces(w, t)
    BY StepsLoose
  <2>. QED
    BY <2>1 DEF SamePlaces
<1>5. CASE m = k
  <2>1. v = u
    BY <1>5 DEF Steps
  <2>2. k = m
    BY <1>5
  <2>. HIDE DEF k, after
  <2>3. \A p \in Player, i \in Slot :
           t.inventory[p][i] = IF p = d.to /\ i = d.index /\ k # m THEN x ELSE after(p, i)
    BY <1>1, <1>2, <1>4, <2>1, <2>2
  <2>4. WornAfter(s, t, d, x, m, x)
    BY <2>3 DEF k, after, WornAfter
  <2>. QED
    BY <1>0, <2>4
<1>6. CASE m # k
  <2>1. \E y, q : Rested(u, q, v, d, x, y, m - k)
    BY <1>6 DEF Steps
  <2>. HIDE DEF k, after
  <2>2. PICK y, q : Rested(u, q, v, d, x, y, m - k)
    BY <2>1
  <2>3. /\ q.inventory = u.inventory /\ y \in Thing /\ (x \notin Stack => y = x) /\ (x \in Stack => y \in Stack)
        /\ Added(q, v, y, d.to, d.index)
    BY <2>2 DEF Rested, SamePlaces
  <2>4. \A p \in Player, i \in Slot :
           v.inventory[p][i] = IF p = d.to /\ i = d.index THEN y ELSE q.inventory[p][i]
    BY <2>3 DEF Added
  <2>5. \A p \in Player, i \in Slot :
           t.inventory[p][i] = IF p = d.to /\ i = d.index /\ k # m THEN y ELSE after(p, i)
    BY <1>1, <1>2, <1>4, <1>6, <2>3, <2>4
  <2>6. y = x \/ (y \in Stack /\ x \in Stack)
    BY <2>3
  <2>7. WornAfter(s, t, d, x, m, y)
    BY <2>5 DEF k, after, WornAfter
  <2>. QED
    BY <2>3, <2>6, <2>7
<1>. QED
  BY <1>5, <1>6

\* What the hands may hold; without the classic slots only what protects is in the right one.
Hands(right, left) ==
    /\ {right, left} \cap TwoHanded # {} => None \in {right, left} \/ Bow(left, right)
    /\ ~ClassicEquipmentSlots => right = None \/ Type(right) \in {"shield", "quiver"}

Armed(s) == \A p \in Player : Hands(s.inventory[p][5], s.inventory[p][6])

LEMMA HandsLess ==
    ASSUME NEW a, NEW b, Hands(a, b), NEW c \in {a, None}, NEW e \in {b, None}
    PROVE  Hands(c, e)
BY DEF Hands

LEMMA TypePlain ==
    ASSUME NEW x, Type(x) # "none"
    PROVE  x \in Plain /\ x \notin Stack
BY Disjoint DEF Type

LEMMA TwoHandedIs ==
    ASSUME NEW x \in TwoHanded
    PROVE  /\ x \in Plain /\ x \notin Stack
           /\ Type(x) \in {"weapon", "distance"}
BY ItemsAssumption, CylindersAssumption, Disjoint DEF Type

\* y is x or, as x, a stack; x may leave the other hand.
LEMMA RightTakes ==
    ASSUME NEW s, NEW x, NEW n, NEW z, HandTakes(CONST_SLOT_RIGHT, s, x, n, z),
           NEW y, y = x \/ (y \in Stack /\ x \in Stack), NEW e \in {z, None}, z = x /\ x \notin Stack => e = None
    PROVE  Hands(y, e)
<1>0. CONST_SLOT_RIGHT = 5
  BY DEF CONST_SLOT_RIGHT
<1>1. CASE e = None
  <2>1. ~ClassicEquipmentSlots => Type(x) \in {"shield", "quiver"}
    BY <1>0 DEF HandTakes
  <2>2. ~ClassicEquipmentSlots => y = x
    BY <2>1, TypePlain
  <2>. QED
    BY <1>1, <2>1, <2>2 DEF Hands
<1>2. CASE e # None
  <2>0. e = z /\ z # None
    BY <1>2
  <2>1. CASE ClassicEquipmentSlots
    <3>1. \/ x \in TwoHanded /\ z = x
          \/ x \notin TwoHanded /\ z \in TwoHanded /\ Bow(z, x)
          \/ {x, z} \cap TwoHanded = {}
      BY <1>0, <2>0, <2>1 DEF HandTakes
    <3>2. CASE x \in TwoHanded /\ z = x
      BY <1>2, <3>2, TwoHandedIs
    <3>3. CASE Bow(z, x)
      <4>1. y = x
        BY <3>3, TypePlain DEF Bow
      <4>. QED
        BY <2>0, <2>1, <3>3, <4>1 DEF Hands
    <3>4. CASE {x, z} \cap TwoHanded = {}
      <4>1. y \notin TwoHanded
        BY <3>4, TwoHandedIs
      <4>. QED
        BY <2>0, <2>1, <3>4, <4>1 DEF Hands
    <3>. QED
      BY <3>1, <3>2, <3>3, <3>4
  <2>2. CASE ~ClassicEquipmentSlots
    <3>1. Type(x) \in {"shield", "quiver"} /\ ({x, z} \cap TwoHanded # {} => Bow(z, x))
      BY <1>0, <2>0, <2>2 DEF HandTakes
    <3>2. y = x
      BY <3>1, TypePlain
    <3>. QED
      BY <2>0, <3>1, <3>2 DEF Hands
  <2>. QED
    BY <2>1, <2>2
<1>. QED
  BY <1>1, <1>2

LEMMA LeftTakes ==
    ASSUME NEW s, NEW x, NEW n, NEW z, HandTakes(CONST_SLOT_LEFT, s, x, n, z),
           NEW y, y = x \/ (y \in Stack /\ x \in Stack), NEW e \in {z, None}, z = x /\ x \notin Stack => e = None,
           ~ClassicEquipmentSlots => z = None \/ Type(z) \in {"shield", "quiver"}
    PROVE  Hands(e, y)
<1>0. CONST_SLOT_RIGHT = 5 /\ CONST_SLOT_LEFT = 6
  BY DEF CONST_SLOT_RIGHT, CONST_SLOT_LEFT
<1>1. CASE e = None
  BY <1>1 DEF Hands
<1>2. CASE e # None
  <2>0. e = z /\ z # None
    BY <1>2
  <2>1. CASE ClassicEquipmentSlots
    <3>1. \/ x \in TwoHanded /\ z = x
          \/ Bow(x, z)
          \/ {x, z} \cap TwoHanded = {}
      BY <1>0, <2>0, <2>1 DEF HandTakes
    <3>2. CASE x \in TwoHanded /\ z = x
      BY <1>2, <3>2, TwoHandedIs
    <3>3. CASE Bow(x, z)
      <4>1. y = x
        BY <3>3, TypePlain DEF Bow
      <4>. QED
        BY <2>0, <2>1, <3>3, <4>1 DEF Hands
    <3>4. CASE {x, z} \cap TwoHanded = {}
      <4>1. y \notin TwoHanded
        BY <3>4, TwoHandedIs
      <4>. QED
        BY <2>0, <2>1, <3>4, <4>1 DEF Hands
    <3>. QED
      BY <3>1, <3>2, <3>3, <3>4
  <2>2. CASE ~ClassicEquipmentSlots
    <3>1. (x \in TwoHanded => Bow(x, z)) /\ Type(x) # "none"
      BY <1>0, <2>0, <2>2 DEF HandTakes
    <3>2. y = x
      BY <3>1, TypePlain
    <3>3. z \notin TwoHanded
      BY <2>0, <2>2, TwoHandedIs
    <3>. QED
      BY <2>0, <2>2, <3>1, <3>2, <3>3 DEF Hands
  <2>. QED
    BY <2>1, <2>2
<1>. QED
  BY <1>1, <1>2

\* A move into a slot that takes x, or elsewhere
LEMMA WornArmed ==
    ASSUME NEW s, Armed(s), NEW d, NEW x, NEW m, NEW n,
           d.to \in Player /\ Merging(s, d, x, m) # m => SlotTakes(s, d.to, d.index, x, n),
           NEW y, y = x \/ (y \in Stack /\ x \in Stack), NEW t, WornAfter(s, t, d, x, m, y)
    PROVE  Armed(t)
<1>. SUFFICES ASSUME NEW p \in Player PROVE Hands(t.inventory[p][5], t.inventory[p][6])
  BY DEF Armed
<1>. DEFINE a == s.inventory[p][5]
            b == s.inventory[p][6]
            left(z) == IF z = x /\ ~Part(s, x, m) THEN None ELSE z
            new == p = d.to /\ Merging(s, d, x, m) # m
<1>0. Hands(a, b) /\ 5 \in Slot /\ 6 \in Slot
  BY Numbers DEF Armed
<1>1. /\ t.inventory[p][5] = IF new /\ 5 = d.index THEN y ELSE left(a)
      /\ t.inventory[p][6] = IF new /\ 6 = d.index THEN y ELSE left(b)
  BY <1>0 DEF WornAfter
<1>2. /\ left(a) \in {a, None} /\ (a = x /\ x \notin Stack => left(a) = None)
      /\ left(b) \in {b, None} /\ (b = x /\ x \notin Stack => left(b) = None)
  BY DEF Part
<1>3. new => \/ d.index = 3
             \/ d.index = 5 /\ HandTakes(CONST_SLOT_RIGHT, s, x, n, b)
             \/ d.index = 6 /\ HandTakes(CONST_SLOT_LEFT, s, x, n, a)
  BY DEF SlotTakes, CONST_SLOT_RIGHT, CONST_SLOT_LEFT, CONST_SLOT_BACKPACK
<1>4. ~ClassicEquipmentSlots => a = None \/ Type(a) \in {"shield", "quiver"}
  BY <1>0 DEF Hands
<1>. DEFINE la == left(a)
            lb == left(b)
<1>5. /\ la \in {a, None} /\ (a = x /\ x \notin Stack => la = None)
      /\ lb \in {b, None} /\ (b = x /\ x \notin Stack => lb = None)
      /\ t.inventory[p][5] = IF new /\ 5 = d.index THEN y ELSE la
      /\ t.inventory[p][6] = IF new /\ 6 = d.index THEN y ELSE lb
  BY <1>1, <1>2
<1>. HIDE DEF a, b, left, new, la, lb
<1>6. CASE new /\ d.index = 5
  <2>1. Hands(y, lb)
    BY <1>3, <1>5, <1>6, RightTakes
  <2>. QED
    BY <1>5, <1>6, <2>1
<1>7. CASE new /\ d.index = 6
  <2>1. Hands(la, y)
    BY <1>3, <1>4, <1>5, <1>7, LeftTakes
  <2>. QED
    BY <1>5, <1>7, <2>1
<1>8. CASE ~(new /\ d.index \in {5, 6})
  <2>1. Hands(la, lb)
    BY <1>0, <1>5, HandsLess
  <2>. QED
    BY <1>5, <1>8, <2>1
<1>. QED
  BY <1>6, <1>7, <1>8

-----------------------------------------------------------------------------

\* The weights are right and can be borne, and what there is fits where it is.
Fair(s) == Weighs(s) /\ Bears(s) /\ Snug(s) /\ Armed(s)

\* The move that is made
LEMMA MovesFair ==
    ASSUME NEW s, Good(s), Fair(s), NEW from, NEW d, NEW x, NEW n, n \in Int,
           QueryAdd(s, d.to, d.index, x, n) = "ok", NEW t, Moves(s, t, from, d, x, n)
    PROVE  Fair(t)
<1>1. CASE t = s
  BY <1>1
<1>2. ASSUME NEW m \in 1..n, Possible(s, from, d, x, m), Roomy(s, d, x, m),
             t = MovedPieces(s, from, d, x, m)
      PROVE  Fair(t)
  <2>0. /\ x \in Thing /\ s.parent[x] = from /\ from # None /\ d.to \in Holder /\ s \in States
        /\ m \in Nat /\ n \in Nat /\ m \in 0..n
    BY <1>2, PossibleTypes
  <2>1. PICK r, u, v, w : Steps(s, from, d, x, m, r, u, v, w, t)
    BY <1>2, MovedSteps
  <2>2. d.item \in Stack => s.parent[d.item] = d.to
    BY <1>2 DEF Possible, Fair
  <2>. DEFINE diff == Amount(s, x, m)
  <2>3. Weighs(s) /\ Bears(s) /\ \A p \in Player : s.inventoryWeight[p] = Load(s, p)
    BY DEF Fair, Bears
  <2>4. /\ Weighs(t) /\ Balance(s, t, from, d.to, diff)
        /\ \A p \in Player : t.inventoryWeight[p] = Load(t, p)
    BY <1>2, <2>1, <2>2, <2>3, StepsWeigh
  <2>5. HoldingPlayer(s, d.to) # None => HasCapacity(s, HoldingPlayer(s, d.to), x, n)
    BY <2>0, AddCapacity
  <2>6. \A p \in Player : Load(t, p) <= Strength[p]
    <3>. DEFINE to == d.to
    <3>1. Balance(s, t, from, to, diff) /\ (HoldingPlayer(s, to) # None => HasCapacity(s, HoldingPlayer(s, to), x, n))
      BY <2>4, <2>5
    <3>. HIDE DEF to
    <3>. QED
      BY <2>0, <2>3, <3>1, BalanceBears
  <2>7. Snug(t)
    <3>1. Lengths(s, t, from, d, x, m)
      BY <1>2, <2>1, StepsLengths
    <3>. QED
      BY <1>2, <2>0, <3>1, LengthsSnug DEF Fair
  <2>8. Armed(t)
    <3>1. PICK y \in Thing : /\ y = x \/ (y \in Stack /\ x \in Stack)
                             /\ WornAfter(s, t, d, x, m, y)
      BY <1>2, <2>1, StepsWorn
    <3>2. d.to \in Player => SlotTakes(s, d.to, d.index, x, n)
      <4>1. d.to \in Player => PlayerQueryAdd(s, d.to, d.index, x, n) = "ok"
        BY <2>0, AddOk
      <4>. QED
        BY <4>1, SlotOk
    <3>. QED
      BY <3>1, <3>2, WornArmed DEF Fair
  <2>. QED
    BY <2>4, <2>6, <2>7, <2>8 DEF Fair, Bears
<1>. QED
  BY <1>1, <1>2 DEF Moves

\* The first half of an exchange: what was in the way is where x is, which waits.
Exchanged(s, u, from, x) ==
    /\ Weighs(u) /\ Bears(u) /\ Armed(u)
    /\ \A c \in Container : Len(u.itemlist[c]) = Len(s.itemlist[c]) + (IF c = from THEN 1 ELSE 0)
    /\ \A p \in Player : HoldingPlayer(s, from) # p => u.inventoryWeight[p] <= s.inventoryWeight[p]
    /\ Chain(u, from) = Chain(s, from)
    /\ x \in Container => u.totalWeight[x] = s.totalWeight[x]

LEMMA CarriesOther ==
    ASSUME NEW s \in States, NEW r, NEW v, NEW from, NEW to, NEW diff \in Int,
           Carries(s, r, v, from, to, diff), NEW x \in Container,
           x \notin Chain(s, from), x \notin Chain(s, to)
    PROVE  v.totalWeight[x] = s.totalWeight[x]
<1>1. PICK neg : Heavier(s, r, from, neg)
  BY DEF Carries
<1>2. Heavier(r, v, to, diff) /\ Chain(r, to) = Chain(s, to)
  BY DEF Carries
<1>3. s.totalWeight[x] \in Int
  BY StateTypes
<1>4. r.totalWeight[x] = s.totalWeight[x]
  BY <1>1, <1>3 DEF Heavier
<1>. QED
  BY <1>2, <1>3, <1>4 DEF Heavier

LEMMA ExchangeLeaves ==
    ASSUME NEW s, Good(s), Fair(s), NEW to \in Player, NEW from, NEW y, NEW x, s.parent[x] = from, x \in Thing,
           from \notin Player, NEW e, e.to = from, e.item = None, NEW m, m = ItemCount(s, y),
           Possible(s, to, e, y, m),
           HoldingPlayer(s, from) # None => HasCapacity(s, HoldingPlayer(s, from), y, m),
           NEW r, NEW v, NEW w, NEW u, Steps(s, to, e, y, m, r, r, v, w, u)
    PROVE  Exchanged(s, u, from, x)
<1>0. /\ s \in States /\ Rooted(s) /\ y \in Thing /\ s.parent[y] = to /\ from \in Holder /\ to # None
      /\ m \in Nat /\ m \in 0..m /\ m # 0 /\ Weighs(s) /\ Bears(s) /\ y \notin Chain(s, from)
      /\ \A p \in Player : s.inventoryWeight[p] = Load(s, p)
  <2>1. /\ s \in States /\ Rooted(s) /\ y \in Thing /\ s.parent[y] = to /\ e.to \in Holder /\ to # None
        /\ m \in Nat /\ m # 0 /\ y \notin Chain(s, e.to)
    BY PossibleTypes
  <2>2. m \in 0..m
    BY <2>1
  <2>3. Weighs(s) /\ Bears(s)
    BY DEF Fair
  <2>4. \A p \in Player : s.inventoryWeight[p] = Load(s, p)
    BY <2>3 DEF Bears
  <2>. QED
    BY <2>1, <2>2, <2>3, <2>4
<1>1. e.item \in Stack => s.parent[e.item] = e.to
  BY Disjoint
<1>. DEFINE diff == Amount(s, y, m)
<1>2. /\ Weighs(u) /\ Balance(s, u, to, e.to, diff) /\ diff \in Nat
      /\ \A p \in Player : u.inventoryWeight[p] = Load(u, p)
  BY <1>0, <1>1, StepsWeigh
<1>3. Carries(s, r, v, to, e.to, diff)
  BY <1>1, StepsCarry
<1>4. Balance(s, u, to, from, diff) /\ Carries(s, r, v, to, from, diff) /\ diff = Amount(s, y, m)
  BY <1>2, <1>3
<1>. HIDE DEF diff
<1>5. \A p \in Player : Load(u, p) <= Strength[p]
  BY <1>0, <1>4, BalanceBears
<1>6. Bears(u)
  BY <1>2, <1>5 DEF Bears
<1>7. Merging(s, e, y, m) = 0 /\ ~Part(s, y, m)
  BY Disjoint DEF Merging, Equals, Part, ItemCount
<1>8. \A c \in Container : Len(u.itemlist[c]) = Len(s.itemlist[c]) + (IF c = from THEN 1 ELSE 0)
  <2>. SUFFICES ASSUME NEW c \in Container
                PROVE  Len(u.itemlist[c]) = Len(s.itemlist[c]) + (IF c = from THEN 1 ELSE 0)
    OBVIOUS
  <2>1. Lengths(s, u, to, e, y, m)
    BY StepsLengths
  <2>2. c # to /\ Len(s.itemlist[c]) \in Nat
    BY <1>0, Sizes, Disjoint
  <2>. DEFINE a == Len(s.itemlist[c])
              b == Len(u.itemlist[c])
  <2>3. b = a - (IF c = to /\ ~Part(s, y, m) THEN 1 ELSE 0) + (IF c = from /\ Merging(s, e, y, m) # m THEN 1 ELSE 0)
    BY <2>1 DEF Lengths
  <2>. HIDE DEF a, b
  <2>4. a \in Nat
    BY <2>2 DEF a
  <2>5. b = a + (IF c = from THEN 1 ELSE 0)
    BY <1>0, <1>7, <2>2, <2>3, <2>4
  <2>. QED
    BY <2>5 DEF a, b
<1>9. Armed(u)
  <2>1. PICK z \in Thing : (z = y \/ (z \in Stack /\ y \in Stack)) /\ WornAfter(s, u, e, y, m, z)
    BY StepsWorn
  <2>2. Armed(s)
    BY DEF Fair
  <2>. QED
    BY <2>1, <2>2, WornArmed
<1>10. ASSUME NEW p \in Player, HoldingPlayer(s, from) # p
       PROVE  u.inventoryWeight[p] <= s.inventoryWeight[p]
  <2>1. Load(u, p) = Load(s, p) + (IF HoldingPlayer(s, from) = p THEN diff ELSE 0)
                                - (IF HoldingPlayer(s, to) = p THEN diff ELSE 0)
    BY <1>4 DEF Balance
  <2>2. Load(s, p) \in Int /\ u.inventoryWeight[p] = Load(u, p) /\ s.inventoryWeight[p] = Load(s, p)
    BY <1>0, <1>2, LoadIs
  <2>. QED
    BY <1>2, <1>10, <2>1, <2>2
<1>11. Chain(v, from) = Chain(s, from) /\ u.parent = v.parent /\ u.totalWeight = v.totalWeight
  <2>1. Chain(v, from) = Chain(s, from)
    BY <1>4 DEF Carries
  <2>2. SamePlaces(v, w) /\ SamePlaces(w, u) /\ Loose(v) /\ Loose(w)
    BY StepsLoose
  <2>3. w = PostRemoveNotification(v, to, y) /\ u = PostAddNotification(w, e.to)
    BY DEF Steps
  <2>4. w.totalWeight = v.totalWeight
    BY <2>2, <2>3, PostRemoveTree DEF Loose
  <2>5. u.totalWeight = w.totalWeight
    BY <2>2, <2>3, PostAddTree DEF Loose
  <2>. QED
    BY <2>1, <2>2, <2>4, <2>5 DEF SamePlaces
<1>12. Chain(u, from) = Chain(s, from)
  BY <1>11, ChainParents
<1>13. ASSUME x \in Container PROVE u.totalWeight[x] = s.totalWeight[x]
  <2>1. x \notin Chain(s, from)
    BY <1>0, <1>13, NoCycle
  <2>2. x \notin Chain(s, to)
    <3>1. to \notin Container
      BY Disjoint
    <3>2. Chain(s, to) = {to}
      BY <3>1, ChainTop
    <3>. QED
      BY <1>13, <3>1, <3>2
  <2>3. v.totalWeight[x] = s.totalWeight[x]
    BY <1>0, <1>2, <1>4, <1>13, <2>1, <2>2, CarriesOther
  <2>. QED
    BY <1>11, <2>3
<1>. QED
  BY <1>2, <1>6, <1>8, <1>9, <1>10, <1>12, <1>13 DEF Exchanged

LEMMA ExchangeRoom ==
    ASSUME NEW s, Good(s), NEW from, from \in Container, NEW d, d.item \notin Stack, NEW x,
           MayExchange(s, from, d, x)
    PROVE  Len(s.itemlist[from]) < Capacity
<1>. DEFINE y == d.item
            n == ItemCount(s, y)
            i == INDEX_WHEREEVER
<1>1. QueryMaxCount(s, from, i, y, n) # 0
  BY DEF MayExchange
<1>2. i \in Int /\ i >= -1
  BY DEF INDEX_WHEREEVER
<1>3. y \notin Stack
  OBVIOUS
<1>. HIDE DEF y, n, i
<1>4. ContainerMaxCount(s, from, i, y, n) # 0
  BY <1>1, Disjoint DEF QueryMaxCount
<1>. QED
  BY <1>2, <1>3, <1>4, ContainerMaxIs

\* After the first half of an exchange x is still let in.
LEMMA ExchangeTakes ==
    ASSUME NEW s, Good(s), Fair(s), NEW from, NEW d, NEW u, Swapped(s, u, from, d), NEW x \in Thing,
           s.parent[x] = from, from # None, Exchanged(s, u, from, x), NEW n, n \in Int,
           NEW p, p \in Player, NEW i, i \in Slot, d.item = s.inventory[p][i], d.item # None, d.item # x,
           SlotTakes(s, p, i, x, n), HasCapacity(s, p, x, n)
    PROVE  PlayerQueryAdd(u, p, i, x, n) = "ok" /\ SlotTakes(u, p, i, x, n) /\ HasCapacity(u, p, x, n)
<1>. DEFINE y == d.item
<1>0. /\ Tree(s) /\ Rooted(s) /\ s \in States /\ Weighs(s) /\ Bears(s)
  BY DEF Good, Tree, Fair
<1>1. /\ Good(u) /\ Tree(u) /\ u \in States
      /\ \A z \in Thing : u.parent[z] = IF z = y THEN from ELSE s.parent[z]
      /\ \A z \in Stack : u.count[z] = s.count[z]
      /\ \A j \in Slot : u.inventory[p][j] = IF s.inventory[p][j] = y THEN None ELSE s.inventory[p][j]
  BY DEF Swapped, Good, Tree
<1>2. u.inventory[p][i] = None
  BY <1>1
<1>3. \A j \in Slot : j # i => u.inventory[p][j] = s.inventory[p][j]
  <2>1. Wears(s.inventory[p], Kids(s, p))
    BY <1>0 DEF Tree, Agrees
  <2>2. \A j \in Slot : j # i => s.inventory[p][j] # y
    BY <2>1 DEF Wears
  <2>. QED
    BY <1>1, <2>2
<1>4. ItemCount(u, x) = ItemCount(s, x) /\ u.parent[x] = from
  BY <1>1 DEF ItemCount
<1>5. \A hand, z : HandTakes(hand, u, x, n, z) <=> HandTakes(hand, s, x, n, z)
  BY <1>4 DEF HandTakes
<1>6. SlotTakes(u, p, i, x, n)
  <2>1. \/ i = CONST_SLOT_BACKPACK /\ x \in Container
        \/ i = CONST_SLOT_RIGHT /\ HandTakes(i, s, x, n, s.inventory[p][CONST_SLOT_LEFT])
        \/ i = CONST_SLOT_LEFT /\ HandTakes(i, s, x, n, s.inventory[p][CONST_SLOT_RIGHT])
    BY DEF SlotTakes
  <2>2. /\ CONST_SLOT_LEFT # CONST_SLOT_RIGHT /\ CONST_SLOT_LEFT \in Slot /\ CONST_SLOT_RIGHT \in Slot
    BY Numbers DEF CONST_SLOT_LEFT, CONST_SLOT_RIGHT
  <2>3. CASE i = CONST_SLOT_BACKPACK /\ x \in Container
    BY <2>3 DEF SlotTakes
  <2>4. CASE i = CONST_SLOT_RIGHT /\ HandTakes(i, s, x, n, s.inventory[p][CONST_SLOT_LEFT])
    <3>1. HandTakes(i, u, x, n, u.inventory[p][CONST_SLOT_LEFT])
      BY <1>3, <1>5, <2>2, <2>4
    <3>. QED
      BY <2>4, <3>1 DEF SlotTakes
  <2>5. CASE i = CONST_SLOT_LEFT /\ HandTakes(i, s, x, n, s.inventory[p][CONST_SLOT_RIGHT])
    <3>1. HandTakes(i, u, x, n, u.inventory[p][CONST_SLOT_RIGHT])
      BY <1>3, <1>5, <2>2, <2>5
    <3>. QED
      BY <2>5, <3>1 DEF SlotTakes
  <2>. QED
    BY <2>1, <2>3, <2>4, <2>5
<1>7. HasCapacity(u, p, x, n)
  <2>0. HoldingPlayer(u, from) = HoldingPlayer(s, from)
    BY DEF Exchanged, HoldingPlayer
  <2>1. CASE HoldingPlayer(s, from) = p
    BY <1>4, <2>0, <2>1 DEF HasCapacity
  <2>2. CASE HoldingPlayer(s, from) # p
    <3>1. Amount(s, x, n) <= Strength[p] - s.inventoryWeight[p]
      BY <2>2 DEF HasCapacity, Amount
    <3>2. Amount(u, x, n) = Amount(s, x, n)
      BY DEF Amount, GetWeight, Exchanged
    <3>3. u.inventoryWeight[p] <= s.inventoryWeight[p]
      BY <2>2 DEF Exchanged
    <3>. DEFINE a == Amount(s, x, n)
                b == s.inventoryWeight[p]
                c == u.inventoryWeight[p]
                e == Strength[p]
    <3>4. a \in Int /\ b \in Int /\ c \in Int /\ e \in Int
      BY <1>0, <1>1, AmountType, StateTypes, CylindersAssumption
    <3>5. a <= e - b /\ c <= b
      BY <3>1, <3>3
    <3>6. a <= e - c
      <4>. HIDE DEF a, b, c, e
      <4>. QED
        BY <3>4, <3>5
    <3>. QED
      BY <3>2, <3>6 DEF HasCapacity, Amount
  <2>. QED
    BY <2>1, <2>2
<1>. QED
  BY <1>2, <1>6, <1>7, SlotAdd

\* What the second half moves
LEMMA ExchangeMoves ==
    ASSUME NEW u, Good(u), NEW e, e \in Destinations, e.item = None, e.to \in Player, e.index \in Slot,
           u.inventory[e.to][e.index] = None, NEW x \in Thing, NEW from, u.parent[x] = from, from \in Holder,
           from \notin Player,
           NEW n \in Int, n \in 1..ItemCount(u, x), n = ItemCount(u, x) \/ \E y \in Stack : u.parent[y] = None,
           PlayerQueryAdd(u, e.to, e.index, x, n) = "ok"
    PROVE  /\ Possible(u, from, e, x, n) /\ Moved(u, from, e, x, n) = MovedPieces(u, from, e, x, n)
           /\ Merging(u, e, x, n) = 0
<1>0. e.to \notin Tile /\ e.to \notin Container /\ u \in States
  BY Disjoint DEF Good, Tree
<1>. DEFINE most == QueryMaxCount(u, e.to, e.index, x, n)
<1>1. most = IF x \in Stack THEN Full ELSE 1
  BY <1>0 DEF QueryMaxCount, SlotMaxCount
<1>2. /\ x \in Stack => n \in 1..Full
      /\ x \notin Stack => n = 1
  <2>1. x \in Stack => u.count[x] \in 1..Full
    BY StackCount, Disjoint DEF Holder
  <2>2. CASE x \in Stack
    <3>. DEFINE k == u.count[x]
    <3>1. n \in 1..k /\ k \in 1..Full
      BY <2>1, <2>2 DEF ItemCount
    <3>. HIDE DEF k
    <3>. QED
      BY <2>2, <3>1, Numbers
  <2>3. CASE x \notin Stack
    BY <2>3 DEF ItemCount
  <2>. QED
    BY <2>2, <2>3
<1>3. (IF x \in Stack THEN Min({n, most}) ELSE 1) = n /\ most # 0
  <2>1. CASE x \in Stack
    <3>. HIDE DEF most
    <3>1. most = Full /\ n \in 1..Full /\ Full \in Nat /\ n \in Nat
      BY <1>1, <1>2, <2>1, Numbers
    <3>2. Min({n, Full}) <= n /\ (Min({n, Full}) = n \/ Min({n, Full}) = Full)
      BY <3>1, MinOfTwo
    <3>3. Min({n, Full}) = n
      <4>. DEFINE k == Min({n, Full})
      <4>1. k <= n /\ (k = n \/ k = Full)
        BY <3>2
      <4>. HIDE DEF k
      <4>2. k = n
        BY <3>1, <4>1
      <4>. QED
        BY <4>2 DEF k
    <3>. QED
      BY <2>1, <3>1, <3>3, Numbers
  <2>2. CASE x \notin Stack
    BY <1>1, <1>2, <2>2
  <2>. QED
    BY <2>1, <2>2
<1>. HIDE DEF most
<1>4. Moved(u, from, e, x, n) = MovedPieces(u, from, e, x, n)
  <2>1. Moved(u, from, e, x, n) = IF most = 0 THEN u
                                  ELSE MovedPieces(u, from, e, x, IF x \in Stack THEN Min({n, most}) ELSE 1)
    BY DEF Moved, most
  <2>. QED
    BY <1>3, <2>1
<1>5. Merging(u, e, x, n) = 0
  BY Disjoint DEF Merging, Equals
<1>6. Possible(u, from, e, x, n)
  <2>1. x \notin Chain(u, e.to)
    <3>1. Chain(u, e.to) = {e.to}
      BY <1>0, ChainTop
    <3>2. x # e.to
      BY <1>0, Disjoint DEF Thing
    <3>. QED
      BY <3>1, <3>2
  <2>2. Part(u, x, n) => \E y \in Stack : u.parent[y] = None
    BY DEF Part, ItemCount
  <2>3. e.item \notin Stack /\ e.item # x
    BY Disjoint
  <2>. QED
    BY <1>0, <2>1, <2>2, <2>3 DEF Possible
<1>. QED
  BY <1>4, <1>5, <1>6

LEMMA SecondHalf ==
    ASSUME NEW s, Good(s), Fair(s), NEW u, Good(u), NEW from, NEW x, Exchanged(s, u, from, x),
           NEW e, NEW n, Possible(u, from, e, x, n), e.item = None, e.to \in Player, Merging(u, e, x, n) = 0,
           SlotTakes(u, e.to, e.index, x, n), HasCapacity(u, e.to, x, n),
           from \in Container /\ x \in Stack => Len(s.itemlist[from]) < Capacity,
           NEW t, t = MovedPieces(u, from, e, x, n)
    PROVE  Fair(t)
<1>0. /\ x \in Thing /\ u.parent[x] = from /\ from # None /\ u \in States /\ Rooted(u)
      /\ n \in Nat /\ n \in 0..n /\ n # 0 /\ s \in States
  <2>1. /\ x \in Thing /\ u.parent[x] = from /\ from # None /\ u \in States /\ Rooted(u)
        /\ n \in Nat /\ n # 0
    BY PossibleTypes
  <2>2. n \in 0..n
    BY <2>1
  <2>. QED
    BY <2>1, <2>2 DEF Good, Tree
<1>1. PICK r, w1, v, w : Steps(u, from, e, x, n, r, w1, v, w, t)
  BY MovedSteps
<1>2. e.item \in Stack => u.parent[e.item] = e.to
  BY Disjoint
<1>3. Weighs(u) /\ Bears(u) /\ Armed(u) /\ \A p \in Player : u.inventoryWeight[p] = Load(u, p)
  BY DEF Exchanged, Bears
<1>. DEFINE diff == Amount(u, x, n)
            to == e.to
<1>4. /\ Weighs(t) /\ Balance(u, t, from, to, diff)
      /\ \A p \in Player : t.inventoryWeight[p] = Load(t, p)
  BY <1>1, <1>2, <1>3, StepsWeigh
<1>5. HoldingPlayer(u, to) = to
  <2>1. to \notin Container
    BY Disjoint
  <2>2. Top(u, to) = to
    BY <1>0, <2>1, TopTop
  <2>. QED
    BY <1>0, <2>2, HoldingPlayerIs
<1>6. HoldingPlayer(u, to) # None => HasCapacity(u, HoldingPlayer(u, to), x, n)
  BY <1>5
<1>7. \A p \in Player : Load(t, p) <= Strength[p]
  <2>. HIDE DEF to
  <2>. QED
    BY <1>0, <1>3, <1>4, <1>6, BalanceBears
<1>8. Bears(t)
  BY <1>4, <1>7 DEF Bears
<1>9. Snug(t)
  <2>. SUFFICES ASSUME NEW c \in Container PROVE Len(t.itemlist[c]) <= Capacity
    BY DEF Snug
  <2>1. Lengths(u, t, from, e, x, n)
    BY <1>1, StepsLengths
  <2>2. c # e.to
    BY Disjoint
  <2>. DEFINE a == Len(s.itemlist[c])
              b == Len(u.itemlist[c])
              f == Len(t.itemlist[c])
              gone == c = from /\ ~Part(u, x, n)
  <2>3. f = b - (IF gone THEN 1 ELSE 0) + (IF c = e.to /\ Merging(u, e, x, n) # n THEN 1 ELSE 0)
    BY <2>1 DEF Lengths
  <2>4. b = a + (IF c = from THEN 1 ELSE 0)
    BY DEF Exchanged
  <2>5. a \in Nat /\ a <= Capacity
    BY <1>0, Sizes DEF Fair, Snug
  <2>6. c = from /\ x \in Stack => a < Capacity
    OBVIOUS
  <2>7. c = from /\ x \notin Stack => gone
    BY DEF Part
  <2>. HIDE DEF a, b, f, gone
  <2>8. gone => c = from
    BY DEF gone
  <2>9. f = b - (IF gone THEN 1 ELSE 0)
    BY <2>2, <2>3, <2>4, <2>5
  <2>10. f <= Capacity
    BY <2>4, <2>5, <2>6, <2>7, <2>8, <2>9, Numbers
  <2>. QED
    BY <2>10 DEF f
<1>10. Armed(t)
  <2>1. PICK z \in Thing : (z = x \/ (z \in Stack /\ x \in Stack)) /\ WornAfter(u, t, e, x, n, z)
    BY <1>1, StepsWorn
  <2>. QED
    BY <1>3, <2>1, WornArmed
<1>. QED
  BY <1>4, <1>8, <1>9, <1>10 DEF Fair

\* internalMoveItem, from its destination
LEMMA MoveToFair ==
    ASSUME NEW s, Good(s), Fair(s), NEW d, Aim(s, d), NEW x \in Thing, NEW from, s.parent[x] = from,
           from \in Holder, NEW n \in Int, n \in 1..ItemCount(s, x),
           n = ItemCount(s, x) \/ \E y \in Stack : s.parent[y] = None
    PROVE  Fair(MoveTo(s, from, d, x, n))
<1>. DEFINE answer == QueryAdd(s, d.to, d.index, x, n)
            u == Exchange(s, from, d)
            e == [d EXCEPT !.item = None]
            t == MoveTo(s, from, d, x, n)
<1>1. t = IF d.item = x \/ answer = "error" THEN s
          ELSE IF answer = "ok" THEN Moved(s, from, d, x, n)
          ELSE IF ~MayExchange(s, from, d, x) THEN s
          ELSE IF QueryAdd(u, d.to, d.index, x, n) # "ok" THEN u
          ELSE Moved(u, from, e, x, n)
  BY DEF MoveTo
<1>. HIDE DEF t
<1>2. CASE d.item = x \/ answer = "error" \/ (answer # "ok" /\ ~MayExchange(s, from, d, x))
  <2>1. t = s
    BY <1>1, <1>2
  <2>. QED
    BY <2>1 DEF t
<1>3. CASE d.item # x /\ answer = "ok"
  <2>1. t = Moved(s, from, d, x, n)
    BY <1>1, <1>3
  <2>2. Moves(s, Moved(s, s.parent[x], d, x, n), s.parent[x], d, x, n)
    BY <1>3, MovedMoves
  <2>3. Moves(s, t, from, d, x, n)
    BY <2>1, <2>2
  <2>4. Fair(t)
    BY <1>3, <2>3, MovesFair
  <2>. QED
    BY <2>4 DEF t
<1>4. CASE d.item # x /\ answer # "error" /\ answer # "ok" /\ MayExchange(s, from, d, x)
  <2>0. /\ Possible(s, d.to, Destination(from, 0, None), d.item, ItemCount(s, d.item))
        /\ from \notin Player /\ d.to \in Player /\ d.index \in Slot
        /\ d.item = s.inventory[d.to][d.index] /\ d.item # None
        /\ SlotTakes(s, d.to, d.index, x, n) /\ HasCapacity(s, d.to, x, n)
    BY <1>4, ExchangePossible
  <2>1. Swapped(s, u, from, d)
    BY <2>0, ExchangeSwaps
  <2>2. from # None /\ Rooted(s) /\ s \in States
    BY Disjoint DEF Holder, Good, Tree
  <2>3. Exchanged(s, u, from, x)
    <3>. DEFINE o == Destination(from, 0, None)
                y == d.item
                m == ItemCount(s, y)
                to == d.to
    <3>1. Possible(s, to, o, y, m) /\ o.to = from /\ o.item = None /\ to \in Player /\ from \notin Player
      BY <2>0 DEF Destination
    <3>2. o = Destination(from, 0, None) /\ m = ItemCount(s, y) /\ d.to = to /\ d.item = y
      OBVIOUS
    <3>3. QueryAdd(s, from, IndexIn(s, from, x), y, m) = "ok"
      BY <1>4 DEF MayExchange
    <3>. HIDE DEF o, y, m, to
    <3>4. \E r, v, w : Steps(s, to, o, y, m, r, r, v, w, u) /\ Rested(r, r, v, o, y, y, m)
      BY <3>1, <3>2, ExchangeSteps
    <3>5. y \in Thing
      BY <3>1, PossibleTypes
    <3>6. HoldingPlayer(s, from) # None => HasCapacity(s, HoldingPlayer(s, from), y, m)
      <4>. DEFINE i == IndexIn(s, from, x)
      <4>1. QueryAdd(s, from, i, y, m) = "ok"
        BY <3>3
      <4>. HIDE DEF i
      <4>. QED
        BY <3>5, <4>1, AddCapacity
    <3>. HIDE DEF u
    <3>7. PICK r, v, w : Steps(s, to, o, y, m, r, r, v, w, u)
      BY <3>4
    <3>. QED
      BY <3>1, <3>2, <3>6, <3>7, ExchangeLeaves
  <2>. DEFINE p == d.to
              i == d.index
  <2>4. PlayerQueryAdd(u, p, i, x, n) = "ok" /\ SlotTakes(u, p, i, x, n) /\ HasCapacity(u, p, x, n)
    <3>1. p \in Player /\ i \in Slot /\ d.item = s.inventory[p][i] /\ SlotTakes(s, p, i, x, n) /\ HasCapacity(s, p, x, n)
      BY <2>0
    <3>. HIDE DEF u, p, i
    <3>. QED
      BY <1>4, <2>0, <2>1, <2>2, <2>3, <3>1, ExchangeTakes
  <2>5. /\ Good(u)
        /\ \A z \in Thing : u.parent[z] = IF z = d.item THEN from ELSE s.parent[z]
        /\ \A z \in Stack : u.count[z] = s.count[z]
        /\ \A q \in Player, j \in Slot :
              u.inventory[q][j] = IF s.inventory[q][j] = d.item THEN None ELSE s.inventory[q][j]
    BY <2>1 DEF Swapped
  <2>6. u.parent[x] = from /\ ItemCount(u, x) = ItemCount(s, x) /\ u.inventory[p][i] = None
    BY <1>4, <2>0, <2>5 DEF ItemCount
  <2>7. (\E z \in Stack : s.parent[z] = None) => \E z \in Stack : u.parent[z] = None
    <3>. SUFFICES ASSUME NEW z \in Stack, s.parent[z] = None PROVE u.parent[z] = None
      OBVIOUS
    <3>1. s.parent[d.item] = d.to /\ d.to # None
      BY <2>0, Disjoint DEF Possible
    <3>2. z # d.item /\ z \in Thing
      BY <3>1, Disjoint
    <3>. QED
      BY <2>5, <3>2
  <2>8. /\ e.to = p /\ e.index = i /\ e.item = None /\ e \in Destinations
    BY DEF Aim, Destinations
  <2>9. QueryAdd(u, d.to, d.index, x, n) = "ok"
    BY <2>0, <2>4 DEF QueryAdd
  <2>10. t = Moved(u, from, e, x, n)
    BY <1>1, <1>4, <2>9
  <2>11. n \in 1..ItemCount(u, x) /\ (n = ItemCount(u, x) \/ \E z \in Stack : u.parent[z] = None)
    BY <2>6, <2>7
  <2>12. e.to \in Player /\ e.index \in Slot /\ u.inventory[e.to][e.index] = None
         /\ PlayerQueryAdd(u, e.to, e.index, x, n) = "ok" /\ SlotTakes(u, e.to, e.index, x, n)
         /\ HasCapacity(u, e.to, x, n)
    BY <2>0, <2>4, <2>6, <2>8
  <2>13. from \in Container /\ x \in Stack => Len(s.itemlist[from]) < Capacity
    <3>. SUFFICES ASSUME from \in Container, x \in Stack PROVE Len(s.itemlist[from]) < Capacity
      OBVIOUS
    <3>1. d.item \notin Stack
      <4>1. PlayerQueryAdd(s, d.to, d.index, x, n) = "exchange"
        BY <1>4, <2>0 DEF QueryAdd, PlayerQueryAdd
      <4>2. ~Equals(s.inventory[d.to][d.index], x)
        BY <4>1, SlotOk
      <4>. QED
        BY <2>0, <4>2 DEF Equals
    <3>. QED
      BY <1>4, <3>1, ExchangeRoom
  <2>. HIDE DEF u, e, p, i
  <2>14. /\ Possible(u, from, e, x, n) /\ Moved(u, from, e, x, n) = MovedPieces(u, from, e, x, n)
         /\ Merging(u, e, x, n) = 0
    BY <2>0, <2>5, <2>6, <2>8, <2>11, <2>12, ExchangeMoves
  <2>15. Fair(t)
    BY <2>3, <2>5, <2>8, <2>10, <2>12, <2>13, <2>14, SecondHalf
  <2>. QED
    BY <2>15 DEF t
<1>. QED
  BY <1>2, <1>3, <1>4

LEMMA InternalMoveItemFair ==
    ASSUME NEW s, Good(s), Fair(s), NEW x \in Thing, NEW from, s.parent[x] = from, from \in Holder,
           NEW c \in Holder, NEW i \in Int, i >= -1, NEW n \in Int, n \in 1..ItemCount(s, x),
           n = ItemCount(s, x) \/ \E y \in Stack : s.parent[y] = None
    PROVE  Fair(InternalMoveItem(s, from, c, i, x, n))
<1>. DEFINE d == Settled(s, c, i, x)
<1>1. Aim(s, d)
  BY SettledAim
<1>. HIDE DEF d
<1>2. Fair(MoveTo(s, from, d, x, n))
  BY <1>1, MoveToFair
<1>. QED
  BY <1>2 DEF InternalMoveItem, d

\* The weights are right, but for the one that a player keeps who is given pieces, of which it can
\* bear m more.
Loading(s, to, m) ==
    /\ Weighs(s)
    /\ \A p \in Player : p # to => s.inventoryWeight[p] = Load(s, p) /\ Load(s, p) <= Strength[p]
    /\ to \in Player => \A x \in Stack : Load(s, to) + Weight[x] * m <= Strength[to]

\* c is where a player carries things, or on a tile, if to is one.
In(s, c, to) == HoldingPlayer(s, c) = IF to \in Player THEN to ELSE None

LEMMA LoadingMore ==
    ASSUME NEW s \in States, Rooted(s), NEW to, NEW n \in Int, Loading(s, to, n), NEW c, In(s, c, to),
           NEW k \in Int, NEW x \in Stack, NEW diff, diff = Weight[x] * k, NEW u, Heavier(s, u, c, diff),
           u.inventoryWeight = s.inventoryWeight
    PROVE  Loading(u, to, n - k)
<1>1. Weighs(u)
  BY HeavierWeighs DEF Loading
<1>2. \A p \in Player : p \in Chain(s, c) <=> HoldingPlayer(s, c) = p
  BY HeldBy
<1>3. ASSUME NEW p \in Player, p # to
      PROVE  u.inventoryWeight[p] = Load(u, p) /\ Load(u, p) <= Strength[p]
  <2>1. p \notin Chain(s, c)
    BY <1>2, <1>3, Disjoint DEF In
  <2>2. Load(s, p) \in Int
    BY LoadIs
  <2>3. Load(u, p) = Load(s, p)
    BY <2>1, <2>2 DEF Heavier
  <2>. QED
    BY <1>3, <2>3 DEF Loading
<1>4. ASSUME to \in Player, NEW y \in Stack
      PROVE  Load(u, to) + Weight[y] * (n - k) <= Strength[to]
  <2>. DEFINE a == Weight[y]
              b == Load(s, to)
              g == Load(u, to)
  <2>0. a \in Int /\ b \in Int /\ Strength[to] \in Int /\ diff = a * k
    BY <1>4, StacksAlike, LoadIs, CylindersAssumption
  <2>1. b + a * n <= Strength[to]
    BY <1>4 DEF Loading
  <2>2. to \in Chain(s, c)
    BY <1>2, <1>4 DEF In
  <2>3. g = b + a * k
    BY <1>4, <2>0, <2>2 DEF Heavier
  <2>. HIDE DEF a, b, g
  <2>4. a * k + a * (n - k) = a * n /\ a * k \in Int
    BY <2>0, TimesParts
  <2>5. a * (n - k) \in Int /\ a * n \in Int
    BY <2>0, TimesMinus
  <2>. DEFINE e == a * k
              f == a * (n - k)
              h == a * n
  <2>6. e + f = h /\ e \in Int /\ f \in Int /\ h \in Int /\ g = b + e /\ b + h <= Strength[to]
    BY <2>1, <2>3, <2>4, <2>5
  <2>. HIDE DEF e, f, h
  <2>7. g + f <= Strength[to]
    BY <2>0, <2>6
  <2>. QED
    BY <2>7 DEF g, f, a
<1>. QED
  BY <1>1, <1>3, <1>4 DEF Loading

\* When the player is told
LEMMA LoadingNotified ==
    ASSUME NEW v, Tree(v), NEW to, Loading(v, to, 0), NEW c, In(v, c, to), NEW x \in Stack,
           NEW t, t = PostAddNotification(v, c)
    PROVE  Weighs(t) /\ Bears(t)
<1>1. /\ SamePlaces(v, t) /\ t.count = v.count /\ t.totalWeight = v.totalWeight
  BY PostAddTree
<1>2. \A q \in Player : t.inventoryWeight[q] = IF q = HoldingPlayer(v, c) THEN Load(v, q)
                                               ELSE v.inventoryWeight[q]
  BY PostAddIs
<1>3. \A b \in Container \cup Player : Load(t, b) = Load(v, b)
  BY <1>1, SameLoads, Disjoint DEF SamePlaces
<1>4. Weighs(t)
  BY <1>1, <1>3 DEF Weighs, Loading
<1>5. ASSUME NEW p \in Player
      PROVE  t.inventoryWeight[p] = Load(t, p) /\ Load(t, p) <= Strength[p]
  <2>1. CASE p = to
    <3>1. t.inventoryWeight[p] = Load(t, p)
      BY <1>2, <1>3, <2>1 DEF In
    <3>2. Load(v, p) <= Strength[p]
      <4>. DEFINE b == Load(v, p)
      <4>1. b \in Int /\ Strength[p] \in Int
        BY LoadIs, CylindersAssumption DEF Tree
      <4>. DEFINE a == Weight[x]
      <4>2. b + a * 0 <= Strength[p] /\ a \in Int
        BY <1>5, <2>1, StacksAlike DEF Loading
      <4>. HIDE DEF a, b
      <4>3. a * 0 = 0
        BY <4>2
      <4>4. b <= Strength[p]
        BY <4>1, <4>2, <4>3
      <4>. QED
        BY <4>4 DEF b
    <3>. QED
      BY <1>3, <3>1, <3>2
  <2>2. CASE p # to
    <3>1. p # HoldingPlayer(v, c)
      BY <2>2, Disjoint DEF In
    <3>. QED
      BY <1>2, <1>3, <2>2, <3>1 DEF Loading
  <2>. QED
    BY <2>1, <2>2
<1>. QED
  BY <1>4, <1>5 DEF Bears

\* Where internalAddItem puts things
LEMMA GivenIn ==
    ASSUME NEW s, Tree(s), NEW to, to \in Tile \cup Player, NEW x, NEW d, d.to \in Holder,
           to \in Tile => d.to = to, to \in Player => PlacedFor(s, to, x, d)
    PROVE  In(s, d.to, to)
<1>0. Rooted(s)
  BY DEF Tree
<1>1. CASE d.to = to
  <2>1. to \notin Container
    BY Disjoint
  <2>2. Top(s, to) = to
    BY <1>0, <2>1, TopTop
  <2>. QED
    BY <1>0, <1>1, <2>2, HoldingPlayerIs DEF In
<1>2. CASE d.to # to
  <2>1. to \in Player /\ BagPlace(s, to, x, d)
    BY <1>2 DEF PlacedFor, SlotPlace, NoPlace
  <2>2. HoldingPlayer(s, d.to) = to
    BY <2>1, BagsHeld DEF BagPlace
  <2>. QED
    BY <2>1, <2>2 DEF In
<1>. QED
  BY <1>1, <1>2

LEMMA InSame ==
    ASSUME NEW s, NEW t, NEW c, NEW to, In(s, c, to),
           \A b \in Chain(s, c) \cap Container : t.parent[b] = s.parent[b]
    PROVE  In(t, c, to)
<1>1. Chain(t, c) = Chain(s, c)
  BY ChainSame
<1>. QED
  BY <1>1 DEF In, HoldingPlayer

\* A round that puts what is left: n pieces x
LEMMA PutFair ==
    ASSUME NEW s, Good(s), NEW to, NEW n \in Int, Loading(s, to, n), Snug(s), Armed(s),
           NEW x \in Stack, s.parent[x] = None, NEW new, new = New(s, x, n),
           NEW d \in Destinations, In(s, d.to, to),
           d.to \in Player => d.index \in Slot /\ SlotTakes(new, d.to, d.index, x, n),
           d.to \in Container => Len(s.itemlist[d.to]) < Capacity,
           NEW v, v = AddThing(new, d.to, d.index, x), Added(new, v, x, d.to, d.index),
           NEW t, t = PostAddNotification(v, d.to)
    PROVE  Fair(t)
<1>0. s \in States /\ Tree(s) /\ Rooted(s) /\ x \in Thing /\ d.to \in Holder /\ d.to \in Where /\ d.index \in Int
  BY Disjoint DEF Good, Tree, Destinations, Where
<1>1. /\ Good(new) /\ SamePlaces(s, new) /\ SameKept(s, new) /\ new.totalWeight = s.totalWeight
      /\ \A y \in Stack : new.count[y] = IF y = x THEN n ELSE s.count[y]
  BY NewIs
<1>2. Tree(new) /\ new \in States /\ new.parent = s.parent /\ new.parent[x] = None
  BY <1>1 DEF Good, Tree, SamePlaces
<1>3. x \notin Chain(new, d.to)
  BY <1>0, <1>2, ChainHolder
<1>4. Tree(v) /\ PutIn(new, v, x, d.to)
  BY DEF Added
<1>5. Heavier(new, v, d.to, GetWeight(new, x))
  <2>0. v # new
    <3>1. v.parent = [new.parent EXCEPT ![x] = d.to] /\ d.to # None
      BY <1>0, <1>4, Disjoint DEF PutIn, Holder
    <3>. QED
      BY <1>0, <1>2, <3>1 DEF States
  <2>1. d.to \in Container => d.index < Capacity
    BY <1>0, <2>0, Numbers, Disjoint DEF AddThing
  <2>2. d.to \in Player => d.index \in Slot
    OBVIOUS
  <2>. DEFINE c == d.to
              i == d.index
  <2>3. /\ c \in Holder /\ i \in Int /\ x \notin Chain(new, c) /\ (c \in Player => i \in Slot)
        /\ (c \in Container => i < Capacity) /\ v = AddThing(new, c, i, x)
    BY <1>0, <1>3, <2>1, <2>2
  <2>. HIDE DEF c, i
  <2>4. Heavier(new, AddThing(new, c, i, x), c, GetWeight(new, x))
    BY <1>0, <1>2, <2>3, AddHeavier
  <2>. QED
    BY <2>3, <2>4 DEF c
<1>. DEFINE diff == Weight[x] * n
<1>6. GetWeight(new, x) = diff
  BY <1>1 DEF GetWeight
<1>. HIDE DEF diff
<1>7. Heavier(s, v, d.to, diff)
  <2>1. \A z \in Stack : s.parent[z] # None => new.count[z] = s.count[z]
    BY <1>1
  <2>. QED
    BY <1>0, <1>1, <1>2, <1>5, <1>6, <2>1, HeavierFrom
<1>8. v.inventoryWeight = s.inventoryWeight
  BY <1>1, <1>4 DEF PutIn, SameKept
<1>9. Loading(v, to, 0)
  <2>. DEFINE z == n - n
  <2>1. Loading(v, to, z)
    BY <1>0, <1>7, <1>8, LoadingMore DEF diff
  <2>2. z = 0
    OBVIOUS
  <2>. QED
    BY <2>1, <2>2
<1>10. \A y \in Thing : y # x => v.parent[y] = s.parent[y]
  BY <1>2, <1>4 DEF PutIn
<1>11. In(v, d.to, to)
  <2>1. \A b \in Chain(s, d.to) \cap Container : v.parent[b] = s.parent[b]
    BY <1>10, Disjoint
  <2>. QED
    BY <2>1, InSame
<1>12. Weighs(t) /\ Bears(t)
  BY <1>4, <1>9, <1>11, LoadingNotified
<1>13. SamePlaces(v, t)
  BY <1>4, PostAddTree
<1>14. Snug(t)
  <2>. SUFFICES ASSUME NEW c \in Container PROVE Len(t.itemlist[c]) <= Capacity
    BY DEF Snug
  <2>1. t.itemlist[c] = IF c = d.to THEN <<x>> \o s.itemlist[c] ELSE s.itemlist[c]
    BY <1>1, <1>4, <1>13 DEF SamePlaces, PutIn
  <2>2. Len(s.itemlist[c]) <= Capacity /\ Len(s.itemlist[c]) \in Nat
    BY <1>0, Sizes DEF Snug
  <2>3. CASE c = d.to
    <3>1. Lists(s.itemlist[c], Kids(s, c))
      BY <1>0 DEF Tree, Agrees
    <3>2. x \notin Kids(s, c)
      BY Disjoint DEF Kids
    <3>3. Len(<<x>> \o s.itemlist[c]) = Len(s.itemlist[c]) + 1
      BY <1>0, <3>1, <3>2, AddedLists
    <3>. QED
      BY <2>1, <2>2, <2>3, <3>3, Numbers
  <2>4. CASE c # d.to
    BY <2>1, <2>2, <2>4
  <2>. QED
    BY <2>3, <2>4
<1>15. Armed(t)
  <2>1. Armed(new)
    BY <1>1 DEF Armed, SamePlaces
  <2>. DEFINE e == Destination(d.to, d.index, None)
  <2>2. e.to = d.to /\ e.index = d.index /\ e.item = None
    BY DEF Destination
  <2>. HIDE DEF e
  <2>3. d.to \in Player => SlotTakes(new, e.to, e.index, x, n)
    BY <2>2
  <2>4. \A p \in Player, i \in Slot : new.inventory[p][i] # x
    <3>. SUFFICES ASSUME NEW p \in Player, NEW i \in Slot, new.inventory[p][i] = x PROVE FALSE
      OBVIOUS
    <3>1. new.inventory[p][i] # None
      BY <1>0, Disjoint
    <3>2. new.parent[new.inventory[p][i]] = p
      BY <1>2, <3>1, InSlot
    <3>. QED
      BY <1>2, <3>2, Disjoint
  <2>5. \A p \in Player, i \in Slot :
           t.inventory[p][i] = IF p = d.to /\ i = d.index THEN x ELSE new.inventory[p][i]
    BY <1>13 DEF Added, SamePlaces
  <2>6. Merging(new, e, x, 1) = 0
    BY <2>2, Disjoint DEF Merging, Equals
  <2>7. WornAfter(new, t, e, x, 1, x)
    BY <2>2, <2>4, <2>5, <2>6 DEF WornAfter
  <2>. QED
    BY <2>1, <2>2, <2>3, <2>7, WornArmed
<1>. QED
  BY <1>12, <1>14, <1>15 DEF Fair

\* What a state is in which m pieces are still to be put
Laden(s, to, m) == Loading(s, to, m) /\ Snug(s) /\ Armed(s)

\* A round that fills a stack: k of n
LEMMA MergeFair ==
    ASSUME NEW s, Good(s), NEW to, NEW n \in Int, Laden(s, to, n), NEW d \in Destinations, In(s, d.to, to),
           NEW k \in Int, NEW x \in Stack, d.item \in Stack, s.parent[d.item] = d.to,
           NEW u, u = UpdateThing(s, d.to, d.item, s.count[d.item] + k),
           Updated(s, u, d.to, d.item, s.count[d.item] + k)
    PROVE  /\ Laden(u, to, n - k)
           /\ n = k => Fair(PostAddNotification(u, d.to))
<1>0. s \in States /\ Tree(s) /\ Rooted(s) /\ d.to \in Holder
  BY DEF Good, Tree, Destinations
<1>1. Tree(u) /\ SamePlaces(s, u) /\ SameKept(s, u)
  BY DEF Updated
<1>. DEFINE diff == Weight[x] * k
<1>2. Heavier(s, u, d.to, diff)
  <2>. DEFINE c == d.to
              y == d.item
  <2>1. c \in Holder /\ y \in Stack /\ s.parent[y] = c /\ u = UpdateThing(s, c, y, s.count[y] + k)
    BY <1>0
  <2>. HIDE DEF c, y
  <2>2. Heavier(s, u, c, Weight[x] * k)
    BY <1>0, <2>1, MergeHeavier
  <2>. QED
    BY <2>2 DEF c
<1>3. u.inventoryWeight = s.inventoryWeight
  BY <1>1 DEF SameKept
<1>4. Loading(u, to, n - k)
  <2>. HIDE DEF diff
  <2>. QED
    BY <1>0, <1>2, <1>3, LoadingMore DEF diff, Laden
<1>5. Snug(u) /\ Armed(u)
  BY <1>1 DEF SamePlaces, Snug, Armed, Laden
<1>6. ASSUME n = k PROVE Fair(PostAddNotification(u, d.to))
  <2>. DEFINE t == PostAddNotification(u, d.to)
              z == n - k
  <2>1. z = 0 /\ Loading(u, to, z)
    BY <1>4, <1>6
  <2>2. In(u, d.to, to)
    <3>1. \A b \in Chain(s, d.to) \cap Container : u.parent[b] = s.parent[b]
      BY <1>1 DEF SamePlaces
    <3>. QED
      BY <3>1, InSame
  <2>. HIDE DEF t, z
  <2>3. Loading(u, to, 0) /\ t = PostAddNotification(u, d.to)
    BY <2>1 DEF t
  <2>4. Weighs(t) /\ Bears(t)
    BY <1>1, <2>2, <2>3, LoadingNotified
  <2>5. SamePlaces(u, t)
    BY <1>1, <2>3, PostAddTree
  <2>6. Snug(t) /\ Armed(t)
    BY <1>5, <2>5 DEF SamePlaces, Snug, Armed
  <2>7. Fair(t)
    BY <2>4, <2>6 DEF Fair
  <2>. QED
    BY <2>7 DEF t
<1>. QED
  BY <1>4, <1>5, <1>6 DEF Laden

\* What a round leaves
LEMMA GivenFair ==
    ASSUME NEW s, Good(s), NEW to, to \in Tile \cup Player, NEW n \in Int, n \in 1..Full, Laden(s, to, n),
           NEW x \in Stack, s.parent[x] = None, NEW new, new = New(s, x, n), NEW d, d = GivenTo(new, to, x),
           NEW a, Given(s, new, d, x, n, a)
    PROVE  IF a.left = 0 THEN Fair(a.state) ELSE Laden(a.state, to, a.left)
<1>. DEFINE k == Merging(s, d, x, n)
<1>0. s \in States /\ Tree(s)
  BY DEF Good, Tree
<1>1. /\ Good(new) /\ SamePlaces(s, new) /\ SameKept(s, new) /\ new.totalWeight = s.totalWeight
  BY NewIs
<1>2. /\ Aim(new, d) /\ (to \in Tile => d.to = to) /\ (to \in Player => PlacedFor(new, to, x, d))
  BY <1>1, GivenToIs
<1>3. d \in Destinations /\ d.to \in Holder /\ Tree(new) /\ new.parent = s.parent
  BY <1>1, <1>2 DEF Aim, Destinations, Good, SamePlaces
<1>4. In(new, d.to, to)
  BY <1>2, <1>3, GivenIn
<1>5. In(s, d.to, to)
  BY <1>3, <1>4, InSame
<1>6. QueryAdd(new, d.to, d.index, x, n) = "ok" /\ k \in 0..n
  BY DEF Given
<1>7. CASE k = 0
  <2>1. /\ a.left = 0
        /\ d.to \in Player => d.index \in Slot
        /\ d.to \in Container => Len(s.itemlist[d.to]) < Capacity
        /\ \E v : /\ v = AddThing(new, d.to, d.index, x) /\ Added(new, v, x, d.to, d.index)
                  /\ a.state = PostAddNotification(v, d.to)
    BY <1>7 DEF Given
  <2>2. PICK v : /\ v = AddThing(new, d.to, d.index, x) /\ Added(new, v, x, d.to, d.index)
                 /\ a.state = PostAddNotification(v, d.to)
    BY <2>1
  <2>3. d.to \in Player => SlotTakes(new, d.to, d.index, x, n)
    <3>1. x \in Thing
      BY Disjoint
    <3>2. d.to \in Player => PlayerQueryAdd(new, d.to, d.index, x, n) = "ok"
      BY <1>1, <1>3, <1>6, <3>1, AddOk
    <3>. QED
      BY <3>2, SlotOk
  <2>. HIDE DEF k
  <2>4. Fair(a.state)
    BY <1>3, <1>5, <2>1, <2>2, <2>3, PutFair DEF Laden
  <2>. QED
    BY <2>1, <2>4
<1>8. CASE k # 0
  <2>1. /\ a.left = n - k /\ d.item \in Stack
        /\ \E u : /\ Updated(s, u, d.to, d.item, s.count[d.item] + k)
                  /\ u = UpdateThing(s, d.to, d.item, s.count[d.item] + k)
                  /\ a.state = IF k = n THEN PostAddNotification(u, d.to) ELSE u
    BY <1>8 DEF Given
  <2>2. k \in Int
    BY <1>6
  <2>3. s.parent[d.item] = d.to
    <3>1. Snug(new)
      BY <1>1 DEF Snug, SamePlaces, Laden
    <3>. QED
      BY <1>2, <1>3, <2>1, <3>1 DEF Aim
  <2>. HIDE DEF k
  <2>4. PICK u : /\ Updated(s, u, d.to, d.item, s.count[d.item] + k)
                 /\ u = UpdateThing(s, d.to, d.item, s.count[d.item] + k)
                 /\ a.state = IF k = n THEN PostAddNotification(u, d.to) ELSE u
    BY <2>1
  <2>5. /\ Laden(u, to, n - k)
        /\ n = k => Fair(PostAddNotification(u, d.to))
    BY <1>3, <1>5, <2>1, <2>2, <2>3, <2>4, MergeFair
  <2>6. CASE n = k
    <3>1. a.left = 0 /\ a.state = PostAddNotification(u, d.to)
      BY <2>1, <2>4, <2>6
    <3>. QED
      BY <2>5, <2>6, <3>1
  <2>7. CASE n # k
    <3>1. a.left # 0 /\ a.state = u /\ a.left = n - k
      BY <2>1, <2>2, <2>4, <2>7
    <3>. QED
      BY <2>5, <3>1
  <2>. QED
    BY <2>6, <2>7
<1>. QED
  BY <1>7, <1>8

\* Who is not refused the first round, can bear all.
LEMMA FirstLaden ==
    ASSUME NEW s, Good(s), Fair(s), NEW to, to \in Tile \cup Player, NEW n \in Int, n \in 1..Full,
           NEW x \in Stack, s.parent[x] = None, NEW new, new = New(s, x, n), NEW d, d = GivenTo(new, to, x),
           NEW a, Given(s, new, d, x, n, a)
    PROVE  Laden(s, to, n)
<1>0. s \in States /\ Weighs(s) /\ Bears(s) /\ Snug(s) /\ Armed(s)
  BY DEF Good, Tree, Fair
<1>1. /\ Good(new) /\ SamePlaces(s, new) /\ SameKept(s, new)
  BY NewIs
<1>2. /\ Aim(new, d) /\ (to \in Player => PlacedFor(new, to, x, d))
  BY <1>1, GivenToIs
<1>3. ASSUME to \in Player, NEW y \in Stack
      PROVE  Load(s, to) + Weight[y] * n <= Strength[to]
  <2>1. HasCapacity(new, to, x, n)
    <3>1. QueryAdd(new, d.to, d.index, x, n) = "ok"
      BY DEF Given
    <3>. QED
      BY <1>1, <1>2, <1>3, <3>1, PlacedCapacity
  <2>2. new.parent[x] = None /\ new.inventoryWeight = s.inventoryWeight
    BY <1>1 DEF SamePlaces, SameKept
  <2>3. Weight[x] * n <= Strength[to] - s.inventoryWeight[to]
    BY <2>1, <2>2 DEF HasCapacity
  <2>4. Weight[y] = Weight[x] /\ s.inventoryWeight[to] = Load(s, to)
    BY <1>0, <1>3, StacksAlike DEF Bears
  <2>. DEFINE g == Weight[y] * n
              b == Load(s, to)
              e == Strength[to]
  <2>5. g <= e - b
    BY <2>3, <2>4
  <2>6. g \in Int /\ b \in Int /\ e \in Int
    <3>1. Weight[y] \in Int
      BY StacksAlike
    <3>. DEFINE w == Weight[y]
    <3>2. w \in Int
      BY <3>1
    <3>. HIDE DEF w
    <3>3. w * n \in Int
      BY <3>2
    <3>. QED
      BY <1>0, <1>3, <3>3, LoadIs, CylindersAssumption DEF w
  <2>. HIDE DEF g, b, e
  <2>7. b + g <= e
    BY <2>5, <2>6
  <2>. QED
    BY <2>7 DEF g, b, e
<1>. QED
  BY <1>0, <1>3 DEF Laden, Loading, Bears

\* What a round has left: all is put and right, or no round was and the state is the one at first,
\* or what is left can be borne.
FairRound(s, to, r) ==
    IF r.left = 0 THEN Fair(r.state)
    ELSE IF r.round = 0 THEN r.state = s
    ELSE Laden(r.state, to, r.left)

FairAfter(s, to, n, i) == {r \in After(s, to, n, i) : FairRound(s, to, r)}

LEMMA RoundFair ==
    ASSUME NEW s, Good(s), Fair(s), NEW to, to \in Tile \cup Player, NEW n \in Int, n \in 1..Full,
           \E y \in Stack : s.parent[y] = None,
           NEW i \in Nat, i # 0, NEW j, j = i - 1, NEW r \in FairAfter(s, to, n, j)
    PROVE  Round(to, i, r) \in FairAfter(s, to, n, i)
<1>. DEFINE u == r.state
            m == r.left
            x == Fresh(u)
            new == New(u, x, m)
            d == GivenTo(new, to, x)
            a == AddRound(u, to, x, m)
<1>0. r \in After(s, to, n, j) /\ FairRound(s, to, r)
  BY DEF FairAfter
<1>1. /\ u \in States /\ m \in 0..n /\ r.round \in Int /\ Gains(s, u, n, m) /\ Good(u) /\ j \in Int
      /\ n \in Nat
      /\ m # 0 => \/ r.round = 0 /\ to \in Player
                  \/ r.round = j /\ Ready(u, to, m) /\ Cardinality(Fulls(u)) >= j
  BY <1>0, AfterHas, Numbers DEF Gains
<1>2. Round(to, i, r) \in After(s, to, n, i)
  BY <1>0, RoundAfter
<1>3. FairRound(s, to, Round(to, i, r))
  <2>1. CASE m = 0 \/ r.round # j
    <3>1. Round(to, i, r) = r
      BY <2>1 DEF Round
    <3>. QED
      BY <1>0, <3>1
  <2>2. CASE m # 0 /\ r.round = j
    <3>1. Round(to, i, r) = [state |-> a.state, left |-> a.left, round |-> IF a.ok THEN i ELSE i - 1]
      BY <2>2 DEF Round, NextRound
    <3>2. m \in Int /\ m \in 1..Full
      BY <1>1, <2>2, Numbers
    <3>3. u.parent = s.parent
      BY <1>1, <2>2 DEF Gains
    <3>4. x \in Stack /\ u.parent[x] = None
      BY <3>3, FreshIs
    <3>5. a = AddPieces(u, to, d, x, m)
      BY DEF AddRound, New, GivenTo
    <3>6. new = New(u, x, m) /\ d = GivenTo(new, to, x)
      OBVIOUS
    <3>7. /\ j = 0 => u = s
          /\ j # 0 => Laden(u, to, m)
      BY <1>0, <2>2 DEF FairRound
    <3>8. Refused(u, new, to, d, x, m, a) \/ Given(u, new, d, x, m, a)
      <4>. HIDE DEF a, d, new, x
      <4>. QED
        BY <1>1, <3>2, <3>4, <3>5, <3>6, AddPiecesIs
    <3>. DEFINE q == Round(to, i, r)
    <3>9. /\ q.state = a.state /\ q.left = a.left
          /\ q.round = IF a.ok THEN i ELSE j
      BY <3>1
    <3>. HIDE DEF a, d, new, x, q
    <3>10. CASE Refused(u, new, to, d, x, m, a)
      <4>1. a.state = u /\ a.left = m /\ a.ok = FALSE
        BY <3>10 DEF Refused
      <4>2. q.state = u /\ q.left = m /\ q.round = j /\ m # 0
        BY <2>2, <3>9, <4>1
      <4>3. FairRound(s, to, q)
        <5>. HIDE DEF u, m
        <5>. QED
          BY <3>7, <4>2 DEF FairRound
      <4>. QED
        BY <4>3 DEF q
    <3>11. CASE Given(u, new, d, x, m, a)
      <4>1. a.ok = TRUE
        BY <3>11 DEF Given
      <4>2. Laden(u, to, m)
        <5>1. CASE j = 0
          <6>1. Fair(u)
            BY <3>7, <5>1
          <6>. QED
            BY <1>1, <3>2, <3>4, <3>6, <3>11, <6>1, FirstLaden
        <5>2. CASE j # 0
          BY <3>7, <5>2
        <5>. QED
          BY <5>1, <5>2
      <4>3. IF a.left = 0 THEN Fair(a.state) ELSE Laden(a.state, to, a.left)
        BY <1>1, <3>2, <3>4, <3>6, <3>11, <4>2, GivenFair
      <4>4. q.state = a.state /\ q.left = a.left /\ q.round = i
        BY <3>9, <4>1
      <4>5. FairRound(s, to, q)
        BY <4>3, <4>4 DEF FairRound
      <4>. QED
        BY <4>5 DEF q
    <3>. QED
      BY <3>8, <3>10, <3>11
  <2>. QED
    BY <2>1, <2>2
<1>. QED
  BY <1>2, <1>3 DEF FairAfter

\* What internalAddItem reports to be left is what is left, and of what a tile gets, nothing is; and
\* the weights are right, all of it put, or nothing.
LEMMA InternalAddItemLeaves ==
    ASSUME NEW s, Good(s), Fair(s), NEW to, to \in Tile \cup Player, NEW n \in Int, n \in 1..Full,
           \E y \in Stack : s.parent[y] = None,
           NEW r, r = InternalAddItem(s, to, n)
    PROVE  Gains(s, r.state, n, r.left) /\ (to \in Tile => r.left = 0) /\ Fair(r.state)
<1>. DEFINE N == Cardinality(Stack) + 1
            B == [i \in 0..N |-> FairAfter(s, to, n, i)]
            base == [state |-> s, left |-> n, round |-> 0]
<1>0. N \in Nat /\ n \in Nat /\ N >= 1 /\ s \in States /\ 0 \in 0..N /\ N \in 0..N /\ n # 0
  BY Finite, Numbers DEF Good, Tree
<1>1. base \in B[0]
  <2>1. Gains(s, s, n, n)
    BY <1>0, GainsNothing
  <2>2. Cardinality(Fulls(s)) >= 0
    BY FullsAre
  <2>3. to \in Player \/ Ready(s, to, n)
    BY DEF Ready
  <2>4. base \in After(s, to, n, 0)
    BY <1>0, <2>1, <2>2, <2>3, AfterIs
  <2>5. FairRound(s, to, base)
    BY <1>0 DEF FairRound
  <2>. QED
    BY <1>0, <2>4, <2>5 DEF FairAfter
<1>2. ASSUME NEW i \in 1..N, NEW q \in B[i - 1] PROVE Round(to, i, q) \in B[i]
  <2>. DEFINE j == i - 1
  <2>1. j \in 0..N /\ i \in 0..N /\ i \in Nat /\ i # 0
    BY <1>0
  <2>2. q \in FairAfter(s, to, n, j) /\ j = i - 1
    BY <2>1
  <2>. HIDE DEF j
  <2>3. Round(to, i, q) \in FairAfter(s, to, n, i)
    BY <2>1, <2>2, RoundFair
  <2>. QED
    BY <2>1, <2>3
<1>3. PICK h \in B[N] : r = Remainder(h)
  <2>1. \A i \in 1..N : \A q \in B[i - 1] : Round(to, i, q) \in B[i]
    BY <1>2
  <2>2. N = Cardinality(Stack) + 1
    OBVIOUS
  <2>. HIDE DEF N, B
  <2>. QED
    BY <1>1, <2>1, <2>2, RoundsIn
<1>4. h \in After(s, to, n, N) /\ FairRound(s, to, h)
  BY <1>0 DEF FairAfter
<1>5. Gains(s, h.state, n, h.left) /\ (h.left # 0 => h.round = 0 /\ to \in Player)
  <2>1. /\ Gains(s, h.state, n, h.left)
        /\ h.left # 0 => \/ h.round = 0 /\ to \in Player
                         \/ Cardinality(Fulls(h.state)) >= N
    <3>. HIDE DEF N, B
    <3>. QED
      BY <1>4, AfterHas
  <2>2. ~(Cardinality(Fulls(h.state)) >= N)
    BY FullsAre, Finite
  <2>. QED
    BY <2>1, <2>2
<1>6. r = [state |-> h.state, left |-> IF h.round < 2 THEN h.left ELSE 0]
  BY <1>3 DEF Remainder
<1>7. r.state = h.state /\ r.left = h.left
  BY <1>5, <1>6
<1>8. Fair(h.state)
  BY <1>4, <1>5 DEF FairRound
<1>. QED
  BY <1>5, <1>7, <1>8, Disjoint

\* Of what a player is given all is there: what it can bear, and the rest on the ground.
LEMMA DropRestLeaves ==
    ASSUME NEW s, Good(s), Fair(s), NEW p \in Player, NEW n \in Int, n \in 1..Full,
           \E y \in Stack : s.parent[y] = None
    PROVE  Gains(s, InternalPlayerAddItem(s, p, n), n, 0) /\ Fair(InternalPlayerAddItem(s, p, n))
<1>. DEFINE r == InternalAddItem(s, p, n)
            u == r.state
            l == r.left
            tile == s.position[p]
            t == InternalPlayerAddItem(s, p, n)
<1>0. n \in Nat /\ tile \in Tile
  BY Numbers, StateTypes DEF Good, Tree
<1>1. Gains(s, u, n, l) /\ Fair(u)
  <2>1. p \in Tile \cup Player
    OBVIOUS
  <2>. QED
    BY <2>1, InternalAddItemLeaves
<1>2. t = IF l = 0 THEN u ELSE InternalAddItem(u, tile, l).state
  BY DEF InternalPlayerAddItem, DropRest
<1>. HIDE DEF r, u, l, tile, t
<1>3. CASE l = 0
  BY <1>1, <1>2, <1>3 DEF t
<1>4. CASE l # 0
  <2>1. l \in Int /\ l \in 1..Full /\ u.parent = s.parent /\ Good(u)
    BY <1>0, <1>1, <1>4, Numbers DEF Gains
  <2>2. \E y \in Stack : u.parent[y] = None
    BY <2>1
  <2>3. tile \in Tile \cup Player
    BY <1>0
  <2>. DEFINE q == InternalAddItem(u, tile, l)
  <2>4. Gains(u, q.state, l, q.left) /\ q.left = 0 /\ Fair(q.state)
    BY <1>0, <1>1, <2>1, <2>2, <2>3, InternalAddItemLeaves
  <2>5. Gains(u, t, l, 0) /\ Fair(t)
    BY <1>2, <1>4, <2>4
  <2>6. Gains(s, t, n, 0)
    BY <1>0, <1>1, <2>5, GainsMore
  <2>. QED
    BY <2>5, <2>6 DEF t
<1>. QED
  BY <1>3, <1>4

\* What scripts take is off the weights of all that it was in.
LEMMA RemoveItemFair ==
    ASSUME NEW s, Good(s), Fair(s), NEW x \in Stack, s.parent[x] # None,
           NEW n \in Int, n \in 1..s.count[x], NEW t, t = InternalRemoveItem(s, x, n)
    PROVE  Fair(t)
<1>. DEFINE c == s.parent[x]
            r == RemoveThing(s, c, x, n)
            amount == Amount(s, x, n)
            diff == - amount
<1>0. /\ s \in States /\ Tree(s) /\ Rooted(s) /\ Loose(s) /\ x \in Thing /\ c \in Holder /\ n \in Nat
      /\ Weighs(s) /\ Bears(s) /\ Snug(s) /\ Armed(s)
  <2>1. s \in States /\ Tree(s) /\ Rooted(s) /\ Loose(s) /\ x \in Thing
    BY Disjoint DEF Good, Tree, Loose
  <2>2. c \in Holder
    BY <2>1, StateTypes DEF Where
  <2>3. n \in Nat
    OBVIOUS
  <2>. QED
    BY <2>1, <2>2, <2>3 DEF Fair
<1>1. t = PostRemoveNotification(r, c, x)
  BY DEF InternalRemoveItem
<1>2. Tree(r) /\ Removed(s, r, x, n)
  <2>. HIDE DEF r
  <2>1. r = RemoveThing(s, c, x, n)
    BY DEF r
  <2>. HIDE DEF c
  <2>. QED
    BY <1>0, <2>1, RemovedIs DEF c
<1>3. Heavier(s, r, c, diff)
  <2>1. s.parent[x] = c /\ r = RemoveThing(s, c, x, n) /\ diff = - Amount(s, x, n)
    OBVIOUS
  <2>. HIDE DEF r, diff, c
  <2>. QED
    BY <1>0, <2>1, RemoveHeavier
<1>4. amount \in Nat
  BY <1>0, AmountIs
<1>. HIDE DEF r, amount, c
<1>5. Tree(t) /\ SamePlaces(r, t) /\ t.count = r.count /\ t.totalWeight = r.totalWeight
  BY <1>1, <1>2, PostRemoveTree
<1>6. \A b \in Container \cup Player : Load(t, b) = Load(r, b)
  BY <1>5, SameLoads, Disjoint DEF SamePlaces
<1>7. Weighs(t)
  <2>1. Weighs(r)
    BY <1>0, <1>3, HeavierWeighs
  <2>. QED
    BY <1>5, <1>6, <2>1 DEF Weighs
<1>8. HoldingPlayer(r, c) = HoldingPlayer(s, c)
  <2>1. \A b \in Chain(s, c) \cap Container : r.parent[b] = s.parent[b]
    BY <1>2, Disjoint DEF Removed
  <2>2. Chain(r, c) = Chain(s, c)
    BY <2>1, ChainSame
  <2>. QED
    BY <2>2 DEF HoldingPlayer
<1>9. ASSUME NEW p \in Player
      PROVE  t.inventoryWeight[p] = Load(t, p) /\ Load(t, p) <= Strength[p]
  <2>1. Load(r, p) = Load(s, p) + (IF p \in Chain(s, c) THEN diff ELSE 0)
    BY <1>3 DEF Heavier
  <2>2. p \in Chain(s, c) <=> HoldingPlayer(s, c) = p
    BY <1>0, HeldBy
  <2>3. Load(s, p) \in Int /\ Strength[p] \in Int
    BY <1>0, LoadIs, CylindersAssumption
  <2>4. s.inventoryWeight[p] = Load(s, p) /\ Load(s, p) <= Strength[p]
    BY <1>0 DEF Bears
  <2>5. t.inventoryWeight[p] = IF p = HoldingPlayer(r, c) THEN Load(r, p) ELSE r.inventoryWeight[p]
    BY <1>1, <1>2, PostRemoveIs
  <2>6. r.inventoryWeight[p] = Load(s, p)
    BY <1>2, <2>4 DEF Removed, SameKept
  <2>7. Load(t, p) = Load(r, p)
    BY <1>6
  <2>8. Load(t, p) <= Strength[p]
    BY <1>4, <2>1, <2>3, <2>4, <2>7
  <2>9. t.inventoryWeight[p] = Load(t, p)
    BY <1>8, <2>1, <2>2, <2>3, <2>5, <2>6, <2>7
  <2>. QED
    BY <2>8, <2>9
<1>10. Snug(t)
  <2>. SUFFICES ASSUME NEW b \in Container PROVE Len(t.itemlist[b]) <= Capacity
    BY DEF Snug
  <2>1. \/ Len(t.itemlist[b]) = Len(s.itemlist[b]) - 1
        \/ Len(t.itemlist[b]) = Len(s.itemlist[b])
    BY <1>2, <1>5 DEF Removed, SamePlaces
  <2>2. Len(s.itemlist[b]) <= Capacity /\ Len(s.itemlist[b]) \in Nat
    BY <1>0, Sizes DEF Snug
  <2>. QED
    BY <2>1, <2>2, Numbers
<1>11. Armed(t)
  <2>. SUFFICES ASSUME NEW p \in Player PROVE Hands(t.inventory[p][5], t.inventory[p][6])
    BY DEF Armed
  <2>1. 5 \in Slot /\ 6 \in Slot
    BY Numbers
  <2>2. /\ t.inventory[p][5] \in {s.inventory[p][5], None}
        /\ t.inventory[p][6] \in {s.inventory[p][6], None}
    BY <1>2, <1>5, <2>1 DEF Removed, SamePlaces
  <2>3. Hands(s.inventory[p][5], s.inventory[p][6])
    BY <1>0 DEF Armed
  <2>. QED
    BY <2>2, <2>3, HandsLess
<1>. QED
  BY <1>7, <1>9, <1>10, <1>11 DEF Fair, Bears

\* A stack that is nowhere is forgotten.
Clear(s) == \A x \in Stack : s.parent[x] = None => s.count[x] = 0

\* Windows and where a player is make no difference, nor what a stack was that is nowhere.
LEMMA FairSame ==
    ASSUME NEW s, Fair(s), NEW t, t.parent = s.parent,
           \A x \in Stack : s.parent[x] # None => t.count[x] = s.count[x],
           t.itemlist = s.itemlist, t.inventory = s.inventory,
           t.totalWeight = s.totalWeight, t.inventoryWeight = s.inventoryWeight
    PROVE  Fair(t)
<1>1. \A b \in Container \cup Player : Load(t, b) = Load(s, b)
  BY SameLoads, Disjoint
<1>. QED
  BY <1>1 DEF Fair, Weighs, Bears, Snug, Armed

LEMMA ForgottenFair ==
    ASSUME NEW s \in States, Fair(s), NEW t, t = Forgotten(s)
    PROVE  Fair(t) /\ Clear(t)
<1>. DEFINE f == [x \in Stack |-> IF s.parent[x] = None THEN 0 ELSE s.count[x]]
<1>1. /\ t = [s EXCEPT !.count = f]
      /\ \A x \in Stack : f[x] = IF s.parent[x] = None THEN 0 ELSE s.count[x]
  BY DEF Forgotten
<1>. HIDE DEF f
<1>2. /\ t.parent = s.parent /\ t.itemlist = s.itemlist /\ t.inventory = s.inventory
      /\ t.totalWeight = s.totalWeight /\ t.inventoryWeight = s.inventoryWeight /\ t.count = f
  BY <1>1 DEF States
<1>3. Fair(t)
  BY <1>1, <1>2, FairSame
<1>. QED
  BY <1>1, <1>2, <1>3 DEF Clear

\* At first nothing is in a container, and nobody wears anything.
LEMMA InitFair ==
    ASSUME NEW s, s.parent = [x \in Thing |-> IF x \in Stack THEN None ELSE Begin],
           s.itemlist = [c \in Container \cup Tile |-> IF c = Begin THEN SetToSeq(Container \cup Plain) ELSE <<>>],
           s.inventory = [p \in Player |-> [i \in Slot |-> None]],
           s.totalWeight = [c \in Container |-> 0], s.inventoryWeight = [p \in Player |-> 0]
    PROVE  Fair(s)
<1>0. Begin \in Tile
  BY CylindersAssumption
<1>1. ASSUME NEW b \in Container \cup Player PROVE Load(s, b) = 0
  <2>1. b # Begin /\ b # None
    BY <1>0, Disjoint
  <2>2. Kids(s, b) = {}
    BY <2>1 DEF Kids
  <2>. DEFINE f == [x \in Kids(s, b) |-> GetWeight(s, x)]
              D == Kids(s, b)
  <2>3. f \in [D -> Int] /\ (\A x \in D : f[x] = 0) /\ IsFiniteSet(D) /\ Load(s, b) = SumFunction(f)
    BY <2>2, FS_EmptySet DEF Load
  <2>. HIDE DEF f, D
  <2>. QED
    BY <2>3, SumZero
<1>2. Weighs(s)
  BY <1>1 DEF Weighs
<1>3. Bears(s)
  <2>. SUFFICES ASSUME NEW p \in Player PROVE s.inventoryWeight[p] = Load(s, p) /\ Load(s, p) <= Strength[p]
    BY DEF Bears
  <2>1. Strength[p] \in Nat /\ Load(s, p) = 0
    BY <1>1, CylindersAssumption
  <2>. QED
    BY <2>1
<1>4. Snug(s)
  <2>. SUFFICES ASSUME NEW c \in Container PROVE Len(s.itemlist[c]) <= Capacity
    BY DEF Snug
  <2>1. s.itemlist[c] = <<>>
    BY <1>0, Disjoint
  <2>2. Len(s.itemlist[c]) = 0
    BY <2>1
  <2>. QED
    BY <2>2, Numbers
<1>5. Armed(s)
  <2>. SUFFICES ASSUME NEW p \in Player PROVE Hands(s.inventory[p][5], s.inventory[p][6])
    BY DEF Armed
  <2>1. 5 \in Slot /\ 6 \in Slot
    BY Numbers
  <2>2. s.inventory[p][5] = None /\ s.inventory[p][6] = None
    BY <2>1
  <2>3. None \notin TwoHanded
    BY TwoHandedIs, Disjoint
  <2>. QED
    BY <2>2, <2>3 DEF Hands
<1>. QED
  BY <1>2, <1>3, <1>4, <1>5 DEF Fair

-----------------------------------------------------------------------------

\* The invariant: the tree is one, what is open can be reached, all that was made is there, and what
\* things weigh and where they are is as it may be.
IInv == Good(Now) /\ InReach(Now) /\ made = Pieces(Now) /\ Fair(Now) /\ Clear(Now)

LEMMA MoveItemKeeps ==
    ASSUME IInv, NEW p \in Player, PlayerMoveItem(p)
    PROVE  IInv'
<1>0. Good(Now) /\ InReach(Now) /\ Now \in States /\ made = Pieces(Now) /\ Fair(Now)
  BY DEF IInv, Good, Tree
<1>1. PICK x \in Takes(p), to \in Tile \cup {p} \cup openContainers[p] :
          \E i \in Indexes(to), n \in 1..ItemCount(Now, x) :
               /\ n = ItemCount(Now, x) \/ AnotherStack
               /\ Become(InternalMoveItem(Now, parent[x], to, i, x, n))
  BY DEF PlayerMoveItem
<1>2. PICK i \in Indexes(to), n \in 1..ItemCount(Now, x) :
               /\ n = ItemCount(Now, x) \/ AnotherStack
               /\ Become(InternalMoveItem(Now, parent[x], to, i, x, n))
  BY <1>1
<1>3. Now.parent = parent /\ Now.openContainers = openContainers /\ Now.position = position
  BY DEF Now
<1>. DEFINE s == Now
            from == s.parent[x]
            t == InternalMoveItem(s, from, to, i, x, n)
<1>4. openContainers[p] \subseteq Container /\ position[p] \in Tile
  BY <1>0, <1>3, StateTypes
<1>5. x \in Thing /\ from \in Holder /\ to \in Holder
  BY <1>3, <1>4 DEF Takes, Reaches, Holder
<1>6. i \in Int /\ i >= -1
  <2>1. i \in {0} \/ i \in Slot \cup {0} \/ i \in (0..Capacity) \cup {254}
    BY DEF Indexes, CAPACITY_WINDOW, MOVE_UP
  <2>2. i = 0 \/ i \in {3, 5, 6} \/ i \in 0..Capacity \/ i = 254
    BY <2>1, Numbers
  <2>. QED
    BY <2>2, Numbers
<1>7. n \in Int
  OBVIOUS
<1>8. n = ItemCount(s, x) \/ \E y \in Stack : s.parent[y] = None
  BY <1>2, <1>3 DEF AnotherStack
<1>9. Become(t)
  BY <1>2, <1>3
<1>. HIDE DEF s
<1>10. Kept(s, t) /\ Fair(t)
  <2>1. n \in 1..ItemCount(s, x)
    BY DEF s
  <2>2. s.parent[x] = from /\ Good(s) /\ Fair(s)
    BY <1>0 DEF s
  <2>. HIDE DEF from
  <2>3. Kept(s, t)
    BY <1>5, <1>6, <1>7, <1>8, <2>1, <2>2, InternalMoveItemKept
  <2>4. Fair(t)
    BY <1>5, <1>6, <1>7, <1>8, <2>1, <2>2, InternalMoveItemFair
  <2>. QED
    BY <2>3, <2>4
<1>11. Good(t) /\ InReach(t) /\ t \in States /\ Pieces(t) = made /\ Fair(t)
  BY <1>0, <1>10 DEF Kept, s, Good, Tree
<1>. HIDE DEF t
<1>12. Now' = Forgotten(t)
  BY <1>9, <1>11, BecomeIs
<1>13. Good(Now') /\ InReach(Now') /\ Pieces(Now') = made /\ Fair(Now') /\ Clear(Now')
  BY <1>11, <1>12, ForgottenKept, ForgottenFair
<1>14. made' = made
  BY DEF PlayerMoveItem
<1>15. (Good(Now) /\ InReach(Now) /\ made = Pieces(Now) /\ Fair(Now) /\ Clear(Now))'
  BY <1>13, <1>14 DEF Pieces
<1>. QED
  BY <1>15 DEF IInv

LEMMA GiveKeeps ==
    ASSUME IInv, NEW p \in Player, NEW n \in 1..Full, Give(p, n)
    PROVE  IInv'
<1>. DEFINE t == InternalPlayerAddItem(Now, p, n)
<1>0. /\ Good(Now) /\ InReach(Now) /\ Become(t) /\ n \in Int /\ made = Pieces(Now) /\ made' = made + n
      /\ Fair(Now)
  BY Numbers DEF IInv, Give
<1>1. \E y \in Stack : Now.parent[y] = None
  BY DEF Give, AnotherStack, Now
<1>2. Gains(Now, t, n, 0) /\ Fair(t)
  BY <1>0, <1>1, DropRestLeaves
<1>. HIDE DEF t
<1>3. Good(t) /\ InReach(t) /\ t \in States /\ Pieces(t) = made + n
  BY <1>0, <1>2, StillReach DEF Gains, Good, Tree
<1>4. Now' = Forgotten(t)
  BY <1>0, <1>3, BecomeIs
<1>5. Good(Now') /\ InReach(Now') /\ Pieces(Now') = made' /\ Fair(Now') /\ Clear(Now')
  BY <1>0, <1>2, <1>3, <1>4, ForgottenKept, ForgottenFair
<1>. QED
  BY <1>5 DEF IInv

LEMMA TakeKeeps ==
    ASSUME IInv, NEW x \in Stack, NEW n \in 1..count[x], Take(x, n)
    PROVE  IInv'
<1>. DEFINE t == InternalRemoveItem(Now, x, n)
<1>0. /\ Good(Now) /\ InReach(Now) /\ Become(t) /\ n \in Int /\ made = Pieces(Now) /\ made' = made - n
      /\ Fair(Now)
  BY DEF IInv, Take
<1>1. Now.parent[x] # None /\ n \in 1..Now.count[x]
  BY DEF Take, Now
<1>2. Good(t) /\ InReach(t) /\ Pieces(t) = made - n /\ Fair(t)
  BY <1>0, <1>1, RemoveItemKept, RemoveItemFair
<1>. HIDE DEF t
<1>3. t \in States
  BY <1>2 DEF Good, Tree
<1>4. Now' = Forgotten(t)
  BY <1>0, <1>3, BecomeIs
<1>5. Good(Now') /\ InReach(Now') /\ Pieces(Now') = made' /\ Fair(Now') /\ Clear(Now')
  BY <1>0, <1>2, <1>3, <1>4, ForgottenKept, ForgottenFair
<1>. QED
  BY <1>5 DEF IInv

LEMMA SameGood ==
    ASSUME NEW s, Good(s), NEW t \in States, t.parent = s.parent, t.count = s.count,
           t.itemlist = s.itemlist, t.inventory = s.inventory
    PROVE  Good(t) /\ Pieces(t) = Pieces(s)
<1>1. Agrees(t)
  <2>1. Agrees(s)
    BY DEF Good, Tree
  <2>2. \A b : Kids(t, b) = Kids(s, b)
    BY DEF Kids
  <2>. QED
    BY <2>1, <2>2 DEF Agrees
<1>2. Rooted(t)
  BY DEF Good, Tree, Rooted
<1>3. Placed(t) /\ Counted(t)
  BY DEF Good, Placed, Counted
<1>4. Pieces(t) = Pieces(s)
  BY PiecesSame DEF Piece
<1>. QED
  BY <1>1, <1>2, <1>3, <1>4 DEF Good, Tree

LEMMA WalkKeeps ==
    ASSUME IInv, NEW p \in Player, NEW tile \in Tile, Walk(p, tile)
    PROVE  IInv'
<1>. DEFINE s == [Now EXCEPT !.position[p] = tile]
            far == {c \in openContainers[p] : TileOf(s, c) # tile}
            open == {c \in openContainers[p] : \A b \in far : c \in AutoCloseContainers(s, p, b)}
            t == [s EXCEPT !.openContainers[p] = open]
<1>0. Good(Now) /\ InReach(Now) /\ Now \in States /\ made = Pieces(Now) /\ made' = made /\ Fair(Now)
  BY DEF IInv, Good, Tree, Walk
<1>1. /\ Now.parent = parent /\ Now.openContainers = openContainers /\ Now.position = position
      /\ openContainers \in [Player -> SUBSET Container] /\ position \in [Player -> Tile]
  BY <1>0 DEF Now, States
<1>2. /\ s \in States /\ s.parent = Now.parent /\ s.count = Now.count /\ s.itemlist = Now.itemlist
      /\ s.inventory = Now.inventory
      /\ s.totalWeight = Now.totalWeight /\ s.inventoryWeight = Now.inventoryWeight
      /\ s.openContainers = openContainers /\ s.position = [position EXCEPT ![p] = tile]
  BY <1>0, <1>1 DEF States
<1>3. Become(t)
  <2>1. s.openContainers[p] = openContainers[p]
    BY <1>2
  <2>2. t = [s EXCEPT !.openContainers[p] = {c \in @ : \A b \in far : c \in AutoCloseContainers(s, p, b)}]
    BY <2>1
  <2>. HIDE DEF t
  <2>. QED
    BY <2>2 DEF Walk
<1>. HIDE DEF s, far
<1>4. /\ t \in States /\ t.parent = Now.parent /\ t.count = Now.count /\ t.itemlist = Now.itemlist
      /\ t.inventory = Now.inventory /\ t.position = [position EXCEPT ![p] = tile]
      /\ t.totalWeight = Now.totalWeight /\ t.inventoryWeight = Now.inventoryWeight
      /\ t.openContainers = [openContainers EXCEPT ![p] = open]
  <2>1. open \in SUBSET Container
    BY <1>1
  <2>. HIDE DEF open
  <2>. QED
    BY <1>1, <1>2, <2>1 DEF States
<1>. HIDE DEF t
<1>5. Good(t) /\ Pieces(t) = made /\ Fair(t)
  BY <1>0, <1>4, SameGood, FairSame
<1>6. \A c : Chain(t, c) = Chain(Now, c) /\ Chain(s, c) = Chain(Now, c)
  BY <1>2, <1>4, ChainParents
<1>7. ASSUME NEW c
      PROVE  /\ HoldingPlayer(t, c) = HoldingPlayer(Now, c)
             /\ HoldingPlayer(s, c) = HoldingPlayer(Now, c)
  <2>1. Chain(t, c) = Chain(Now, c) /\ Chain(s, c) = Chain(Now, c)
    BY <1>6
  <2>. QED
    BY <2>1 DEF HoldingPlayer
<1>8. ASSUME NEW c PROVE TileOf(t, c) = TileOf(s, c)
  <2>1. Chain(t, c) = Chain(s, c) /\ HoldingPlayer(t, c) = HoldingPlayer(s, c)
    BY <1>6, <1>7
  <2>2. t.position = s.position
    BY <1>2, <1>4
  <2>. QED
    BY <2>1, <2>2 DEF TileOf
<1>9. InReach(t)
  <2>. SUFFICES ASSUME NEW q \in Player, NEW c \in t.openContainers[q]
                PROVE  TileOf(t, c) = t.position[q] /\ HoldingPlayer(t, c) \in {q, None}
    BY DEF InReach
  <2>1. c \in openContainers[q] /\ (q = p => c \in open)
    <3>. HIDE DEF open
    <3>1. q = p => open \subseteq openContainers[p]
      BY DEF open
    <3>. QED
      BY <1>1, <1>4, <3>1
  <2>2. TileOf(Now, c) = position[q] /\ HoldingPlayer(Now, c) \in {q, None}
    BY <1>0, <1>1, <2>1 DEF InReach
  <2>3. HoldingPlayer(t, c) \in {q, None}
    BY <1>7, <2>2
  <2>4. CASE q = p
    <3>1. \A b \in far : c \in AutoCloseContainers(s, p, b)
      BY <2>1, <2>4
    <3>2. c \notin far
      <4>1. c \in Chain(s, c)
        BY ChainClosed
      <4>. QED
        BY <3>1, <4>1 DEF AutoCloseContainers
    <3>3. TileOf(s, c) = tile
      BY <2>1, <2>4, <3>2 DEF far
    <3>. QED
      BY <1>1, <1>4, <1>8, <2>3, <2>4, <3>3
  <2>5. CASE q # p
    <3>1. t.position[q] = position[q]
      BY <1>1, <1>4, <2>5
    <3>2. Chain(t, c) = Chain(Now, c) /\ HoldingPlayer(t, c) = HoldingPlayer(Now, c)
      BY <1>6, <1>7
    <3>3. HoldingPlayer(t, c) # None => HoldingPlayer(t, c) = q
      BY <2>3
    <3>4. TileOf(t, c) = TileOf(Now, c)
      BY <1>1, <3>1, <3>2, <3>3 DEF TileOf
    <3>. QED
      BY <2>2, <2>3, <3>1, <3>4
  <2>. QED
    BY <2>4, <2>5
<1>10. Now' = Forgotten(t)
  BY <1>3, <1>4, BecomeIs
<1>11. Good(Now') /\ InReach(Now') /\ Pieces(Now') = made' /\ Fair(Now') /\ Clear(Now')
  BY <1>0, <1>4, <1>5, <1>9, <1>10, ForgottenKept, ForgottenFair
<1>. QED
  BY <1>11 DEF IInv

\* Only windows open or close.
LEMMA WindowKeeps ==
    ASSUME IInv, NEW p \in Player, NEW open \in SUBSET Container,
           openContainers' = [openContainers EXCEPT ![p] = open],
           UNCHANGED <<parent, count, itemlist, inventory, totalWeight, inventoryWeight, position, made>>,
           \A c \in open \ openContainers[p] :
              \/ parent[c] = position[p] \/ parent[c] = p
              \/ parent[c] \in openContainers[p]
              \/ \E b \in openContainers[p] : parent[b] = c
    PROVE  IInv'
<1>. DEFINE s == Now
            t == Now'
<1>0. Good(s) /\ InReach(s) /\ s \in States /\ Rooted(s) /\ made' = Pieces(s) /\ Fair(s) /\ Clear(s)
  BY DEF IInv, Good, Tree
<1>1. /\ s.parent = parent /\ s.openContainers = openContainers /\ s.position = position
      /\ openContainers \in [Player -> SUBSET Container] /\ position \in [Player -> Tile]
  BY <1>0 DEF Now, States
<1>2. /\ t = [s EXCEPT !.openContainers = [openContainers EXCEPT ![p] = open]]
  BY DEF Now
<1>3. openContainers' \in [Player -> SUBSET Container]
  BY <1>1
<1>4. /\ t \in States /\ t.parent = s.parent /\ t.count = s.count /\ t.itemlist = s.itemlist
      /\ t.inventory = s.inventory /\ t.position = s.position
      /\ t.totalWeight = s.totalWeight /\ t.inventoryWeight = s.inventoryWeight
      /\ t.openContainers = [openContainers EXCEPT ![p] = open]
  <2>. HIDE DEF s, t
  <2>. QED
    BY <1>0, <1>2, <1>3 DEF States
<1>. HIDE DEF s, t
<1>5. Good(t) /\ Pieces(t) = made' /\ Fair(t) /\ Clear(t)
  BY <1>0, <1>4, SameGood, FairSame DEF Clear
<1>6. \A c : Chain(t, c) = Chain(s, c)
  BY <1>4, ChainParents
<1>7. ASSUME NEW c PROVE HoldingPlayer(t, c) = HoldingPlayer(s, c) /\ TileOf(t, c) = TileOf(s, c)
  <2>1. Chain(t, c) = Chain(s, c) 
    BY <1>6
  <2>2. HoldingPlayer(t, c) = HoldingPlayer(s, c)
    BY <2>1 DEF HoldingPlayer
  <2>. QED
    BY <1>4, <2>1, <2>2 DEF TileOf
<1>8. ASSUME NEW c \in open PROVE TileOf(s, c) = position[p] /\ HoldingPlayer(s, c) \in {p, None}
  <2>0. c \in Container /\ position[p] \in Tile
    BY <1>1
  <2>1. CASE c \in openContainers[p]
    BY <1>0, <1>1, <2>1 DEF InReach
  <2>2. CASE parent[c] = position[p]
    <3>1. Top(s, c) = position[p] /\ position[p] \notin Player
      <4>1. position[p] \notin Container /\ position[p] \notin Player
        BY <2>0, Disjoint
      <4>. QED
        BY <1>0, <1>1, <2>0, <2>2, <4>1, TopParent, TopTop
    <3>. QED
      BY <1>0, <2>0, <3>1, HoldingPlayerIs, TileOfIs
  <2>3. CASE parent[c] = p
    <3>1. Top(s, c) = p
      <4>1. p \notin Container
        BY Disjoint
      <4>. QED
        BY <1>0, <1>1, <2>0, <2>3, <4>1, TopParent, TopTop
    <3>. QED
      BY <1>0, <1>1, <3>1, HoldingPlayerIs, TileOfIs
  <2>4. CASE \E b \in openContainers[p] : parent[c] = b \/ parent[b] = c
    <3>1. PICK b \in openContainers[p] : parent[c] = b \/ parent[b] = c
      BY <2>4
    <3>2. b \in Container
      BY <1>1, <3>1
    <3>3. Top(s, c) = Top(s, b)
      BY <1>0, <1>1, <2>0, <3>1, <3>2, TopParent
    <3>4. TileOf(s, b) = position[p] /\ HoldingPlayer(s, b) \in {p, None}
      BY <1>0, <1>1, <3>1 DEF InReach
    <3>5. HoldingPlayer(s, c) = HoldingPlayer(s, b) /\ TileOf(s, c) = TileOf(s, b)
      BY <1>0, <3>3, HoldingPlayerIs, TileOfIs
    <3>. QED
      BY <3>4, <3>5
  <2>. QED
    BY <2>1, <2>2, <2>3, <2>4
<1>9. InReach(t)
  <2>. SUFFICES ASSUME NEW q \in Player, NEW c \in t.openContainers[q]
                PROVE  TileOf(t, c) = t.position[q] /\ HoldingPlayer(t, c) \in {q, None}
    BY DEF InReach
  <2>1. CASE q = p
    <3>1. c \in open
      BY <1>1, <1>4, <2>1
    <3>. QED
      BY <1>1, <1>4, <1>7, <1>8, <2>1, <3>1
  <2>2. CASE q # p
    <3>1. c \in s.openContainers[q]
      BY <1>1, <1>4, <2>2
    <3>. QED
      BY <1>0, <1>4, <1>7, <3>1 DEF InReach
  <2>. QED
    BY <2>1, <2>2
<1>. QED
  BY <1>5, <1>9 DEF IInv, t

LEMMA UseContainerKeeps ==
    ASSUME IInv, NEW p \in Player, NEW c \in Container, UseContainer(p, c)
    PROVE  IInv'
<1>1. openContainers \in [Player -> SUBSET Container]
  BY DEF IInv, Good, Tree, Now, States
<1>. DEFINE o == openContainers[p]
            open == IF c \in o THEN o \ {c} ELSE IF Cardinality(o) < Windows THEN o \cup {c} ELSE o
<1>2. openContainers' = [openContainers EXCEPT ![p] = open]
  BY <1>1 DEF UseContainer
<1>3. open \in SUBSET Container /\ \A b \in open \ o : b = c
  <2>1. o \in SUBSET Container
    BY <1>1
  <2>. HIDE DEF o
  <2>. QED
    BY <2>1
<1>4. parent[c] = position[p] \/ parent[c] = p \/ parent[c] \in openContainers[p]
  BY DEF UseContainer, Reaches
<1>5. UNCHANGED <<parent, count, itemlist, inventory, totalWeight, inventoryWeight, position, made>>
  BY DEF UseContainer
<1>. HIDE DEF open
<1>. QED
  BY <1>2, <1>3, <1>4, <1>5, WindowKeeps

LEMMA MoveUpContainerKeeps ==
    ASSUME IInv, NEW p \in Player, NEW c \in Container, PlayerMoveUpContainer(p, c)
    PROVE  IInv'
<1>1. openContainers \in [Player -> SUBSET Container]
  BY DEF IInv, Good, Tree, Now, States
<1>. DEFINE open == (openContainers[p] \ {c}) \cup {parent[c]}
<1>2. openContainers' = [openContainers EXCEPT ![p] = open] /\ c \in openContainers[p] /\ parent[c] \in Container
  BY <1>1 DEF PlayerMoveUpContainer
<1>3. open \in SUBSET Container /\ \A b \in open \ openContainers[p] : b = parent[c]
  BY <1>1, <1>2
<1>4. UNCHANGED <<parent, count, itemlist, inventory, totalWeight, inventoryWeight, position, made>>
  BY DEF PlayerMoveUpContainer
<1>. HIDE DEF open
<1>. QED
  BY <1>2, <1>3, <1>4, WindowKeeps

-----------------------------------------------------------------------------
(* At first.                                                               *)

\* A set as a sequence: each of it once.
LEMMA SetToSeqLists ==
    ASSUME NEW S, S \subseteq Thing, IsFiniteSet(S)
    PROVE  Lists(SetToSeq(S), S)
<1>. DEFINE n == Cardinality(S)
            f == SetToSeq(S)
<1>1. n \in Nat
  BY FS_CardinalityType
<1>2. PICK g : g \in Bijection(1..n, S)
  BY FS_CardinalityType DEF ExistsBijection
<1>3. g \in [1..n -> S] /\ IsInjective(g)
  BY <1>2 DEF Bijection, Injection
<1>4. f \in [1..n -> S] /\ IsInjective(f)
  <2>1. f = CHOOSE h \in [1..n -> S] : IsInjective(h)
    BY DEF SetToSeq
  <2>. HIDE DEF f, n
  <2>. QED
    BY <1>3, <2>1
<1>. HIDE DEF f
<1>5. f \in Surjection(1..n, S)
  <2>1. f \in Injection(1..n, S)
    BY <1>4 DEF Injection
  <2>2. IsFiniteSet(1..n) /\ Cardinality(1..n) = n
    BY <1>1, FS_Interval
  <2>. DEFINE D == 1..n
  <2>3. f \in Injection(D, S) /\ Cardinality(D) = Cardinality(S)
    BY <2>1, <2>2
  <2>. HIDE DEF D
  <2>4. f \in Surjection(D, S)
    BY <2>3, FS_Injection
  <2>. QED
    BY <2>4 DEF D
<1>6. \A y \in S : \E i \in 1..n : f[i] = y
  BY <1>5 DEF Surjection
<1>7. f \in Seq(Thing) /\ Len(f) = n
  <2>. HIDE DEF n
  <2>. QED
    BY <1>1, <1>4
<1>8. \A i, j \in 1..n : f[i] = f[j] => i = j
  <2>1. DOMAIN f = 1..n
    BY <1>4
  <2>. QED
    BY <1>4, <2>1 DEF IsInjective
<1>9. \A y : y \in S <=> \E i \in 1..n : f[i] = y
  BY <1>4, <1>6
<1>10. Lists(f, S)
  <2>. HIDE DEF n
  <2>. QED
    BY <1>7, <1>8, <1>9 DEF Lists
<1>. QED
  BY <1>10 DEF f

LEMMA InitGood == Init => IInv
<1>. SUFFICES ASSUME Init PROVE IInv
  OBVIOUS
<1>. DEFINE s == Now
            S == Container \cup Plain
<1>0. Begin \in Tile /\ Begin \notin Container /\ Begin \notin Player /\ Begin # None
  BY CylindersAssumption, Disjoint
<1>1. Lists(SetToSeq(S), S)
  <2>1. S \subseteq Thing
    BY Disjoint
  <2>2. IsFiniteSet(S)
    BY <2>1, KindsAssumption, FS_Subset
  <2>. HIDE DEF S
  <2>. QED
    BY <2>1, <2>2, SetToSeqLists
<1>. DEFINE list == SetToSeq(S)
<1>2. list \in Seq(Thing) /\ Lists(list, S)
  BY <1>1 DEF Lists
<1>. HIDE DEF list
<1>3. /\ s.parent = [x \in Thing |-> IF x \in Stack THEN None ELSE Begin]
      /\ s.count = [x \in Stack |-> 0]
      /\ s.itemlist = [c \in Container \cup Tile |-> IF c = Begin THEN list ELSE <<>>]
      /\ s.inventory = [p \in Player |-> [i \in Slot |-> None]]
      /\ s.openContainers = [p \in Player |-> {}]
  BY DEF Init, Now, list
<1>4. s \in States
  <2>1. s = [parent |-> [x \in Thing |-> IF x \in Stack THEN None ELSE Begin],
             count |-> [x \in Stack |-> 0],
             itemlist |-> [c \in Container \cup Tile |-> IF c = Begin THEN list ELSE <<>>],
             inventory |-> [p \in Player |-> [i \in Slot |-> None]],
             totalWeight |-> [c \in Container |-> 0],
             inventoryWeight |-> [p \in Player |-> 0],
             openContainers |-> [p \in Player |-> {}],
             position |-> [p \in Player |-> Begin]]
    BY DEF Init, Now, list
  <2>2. [x \in Thing |-> IF x \in Stack THEN None ELSE Begin] \in [Thing -> Where]
    BY <1>0 DEF Where, Holder
  <2>3. [c \in Container \cup Tile |-> IF c = Begin THEN list ELSE <<>>] \in [Container \cup Tile -> Seq(Thing)]
    BY <1>2
  <2>. HIDE DEF s
  <2>. QED
    BY <1>0, <2>1, <2>2, <2>3 DEF States
<1>. HIDE DEF s
<1>5. Agrees(s)
  <2>1. ASSUME NEW c \in Container \cup Tile PROVE Lists(s.itemlist[c], Kids(s, c))
    <3>0. c # None
      BY Disjoint
    <3>1. CASE c = Begin
      <4>1. Kids(s, c) = S
        BY <1>0, <1>3, <3>1, Disjoint DEF Kids, Thing
      <4>. QED
        BY <1>2, <1>3, <3>1, <4>1
    <3>2. CASE c # Begin
      <4>1. Kids(s, c) = {}
        BY <1>3, <3>0, <3>2 DEF Kids
      <4>2. s.itemlist[c] = <<>>
        BY <1>3, <3>2
      <4>. QED
        BY <4>1, <4>2 DEF Lists
    <3>. QED
      BY <3>1, <3>2
  <2>2. ASSUME NEW p \in Player PROVE Wears(s.inventory[p], Kids(s, p))
    <3>1. p # None /\ p # Begin
      BY <1>0, Disjoint
    <3>2. Kids(s, p) = {}
      BY <1>3, <3>1 DEF Kids
    <3>3. \A i \in Slot : s.inventory[p][i] = None
      BY <1>3
    <3>. QED
      BY <3>2, <3>3 DEF Wears
  <2>. QED
    BY <2>1, <2>2 DEF Agrees
<1>6. Rooted(s)
  <2>1. \A c \in Container : s.parent[c] \notin Container
    BY <1>0, <1>3, Disjoint
  <2>. QED
    BY <2>1 DEF Rooted
<1>7. Placed(s) /\ Counted(s)
  BY <1>0, <1>3, Disjoint DEF Placed, Counted
<1>8. InReach(s)
  BY <1>3 DEF InReach
<1>9. made = Pieces(s)
  <2>. DEFINE f == [y \in Stack |-> Piece(s, y)]
  <2>1. \A y \in Stack : Piece(s, y) = 0
    BY <1>3, Disjoint DEF Piece, Thing
  <2>2. f \in [Stack -> Int] /\ \A y \in Stack : f[y] = 0
    BY <2>1
  <2>3. Pieces(s) = SumFunction(f)
    BY DEF Pieces
  <2>. HIDE DEF f
  <2>4. SumFunction(f) = 0
    BY <2>2, Finite, SumZero
  <2>. QED
    BY <2>3, <2>4 DEF Init
<1>10. Fair(s)
  <2>1. s.totalWeight = [c \in Container |-> 0] /\ s.inventoryWeight = [p \in Player |-> 0]
    BY DEF Init, Now, s
  <2>. QED
    BY <1>3, <2>1, InitFair DEF list
<1>11. Clear(s)
  BY <1>3 DEF Clear
<1>. QED
  BY <1>4, <1>5, <1>6, <1>7, <1>8, <1>9, <1>10, <1>11 DEF IInv, Good, Tree, s

LEMMA IInvInvariant == Spec => []IInv
<1>1. Init => IInv
  BY InitGood
<1>2. ASSUME IInv, [Next]_vars PROVE IInv'
  <2>1. CASE UNCHANGED vars
    <3>1. Now' = Now
      BY <2>1 DEF vars, Now
    <3>2. made' = made
      BY <2>1 DEF vars
    <3>. QED
      BY <1>2, <3>1, <3>2 DEF IInv
  <2>2. CASE \E p \in Player : PlayerMoveItem(p)
    BY <1>2, <2>2, MoveItemKeeps
  <2>3. CASE \E p \in Player, c \in Container : UseContainer(p, c)
    BY <1>2, <2>3, UseContainerKeeps
  <2>4. CASE \E p \in Player, c \in Container : PlayerMoveUpContainer(p, c)
    BY <1>2, <2>4, MoveUpContainerKeeps
  <2>5. CASE \E p \in Player, t \in Tile : Walk(p, t)
    BY <1>2, <2>5, WalkKeeps
  <2>6. CASE \E p \in Player, n \in 1..Full : Give(p, n)
    BY <1>2, <2>6, GiveKeeps
  <2>7. CASE \E x \in Stack : \E n \in 1..count[x] : Take(x, n)
    BY <1>2, <2>7, TakeKeeps
  <2>. QED
    BY <1>2, <2>1, <2>2, <2>3, <2>4, <2>5, <2>6, <2>7 DEF Next
<1>. QED
  BY <1>1, <1>2, PTL DEF Spec

LEMMA GoodAgrees == ASSUME IInv PROVE ParentsAgree
<1>0. Now \in States /\ Agrees(Now) /\ Rooted(Now) /\ Placed(Now)
  BY DEF IInv, Good, Tree
<1>1. Now.parent = parent /\ Now.itemlist = itemlist /\ Now.inventory = inventory
  BY DEF Now
<1>2. ASSUME NEW c \in Container \cup Tile
      PROVE  /\ ToSet(itemlist[c]) = {x \in Thing : parent[x] = c}
             /\ Cardinality(ToSet(itemlist[c])) = Len(itemlist[c])
  <2>. DEFINE l == itemlist[c]
              n == Len(l)
              A == Kids(Now, c)
  <2>1. Lists(l, A)
    BY <1>0, <1>1 DEF Agrees
  <2>2. A = {x \in Thing : parent[x] = c}
    BY <1>1 DEF Kids
  <2>. HIDE DEF l, A
  <2>3. l \in Seq(Thing) /\ n \in Nat /\ DOMAIN l = 1..n
    BY <2>1 DEF Lists
  <2>4. ToSet(l) = A
    BY <2>1, <2>3 DEF ToSet, Lists
  <2>5. l \in [1..n -> A]
    BY <2>1, <2>3 DEF Lists
  <2>6. l \in Bijection(1..n, A)
    <3>1. IsInjective(l)
      BY <2>1, <2>3 DEF IsInjective, Lists
    <3>2. \A t \in A : \E i \in 1..n : l[i] = t
      BY <2>1 DEF Lists
    <3>. HIDE DEF n
    <3>. QED
      BY <2>5, <3>1, <3>2 DEF Bijection, Injection, Surjection
  <2>7. Cardinality(A) = n
    <3>1. IsFiniteSet(1..n) /\ Cardinality(1..n) = n
      BY <2>3, FS_Interval
    <3>. DEFINE D == 1..n
    <3>2. IsFiniteSet(D) /\ Cardinality(D) = n /\ ExistsBijection(D, A)
      BY <2>6, <3>1 DEF ExistsBijection
    <3>. HIDE DEF D, n
    <3>. QED
      BY <3>2, FS_Bijection
  <2>. QED
    BY <2>2, <2>4, <2>7 DEF l
<1>3. ASSUME NEW p \in Player
      PROVE  /\ {inventory[p][i] : i \in Slot} \ {None} = {x \in Thing : parent[x] = p}
             /\ \A i, j \in Slot : inventory[p][i] = inventory[p][j] => i = j \/ inventory[p][i] = None
  <2>1. Wears(inventory[p], Kids(Now, p))
    BY <1>0, <1>1 DEF Agrees
  <2>2. Kids(Now, p) = {x \in Thing : parent[x] = p}
    BY <1>1 DEF Kids
  <2>3. \A y : y \in Kids(Now, p) <=> y # None /\ \E i \in Slot : inventory[p][i] = y
    BY <2>1 DEF Wears
  <2>4. {inventory[p][i] : i \in Slot} \ {None} = Kids(Now, p)
    BY <2>3
  <2>. QED
    BY <2>1, <2>2, <2>4 DEF Wears
<1>4. ASSUME NEW c \in Container PROVE Chain(Now, c) \cap (Tile \cup Player) # {}
  <2>1. Top(Now, c) \in Chain(Now, c) /\ Top(Now, c) \notin Container
    BY <1>0, TopIs
  <2>2. Closed(Now, Holder) /\ c \in Holder
    <3>1. \A b \in Container : Now.parent[b] \in Holder
      BY <1>0, StateTypes, Disjoint DEF Placed, Where
    <3>. QED
      BY <3>1 DEF Closed, Holder
  <2>3. Chain(Now, c) \subseteq Holder
    BY <2>2, ChainLeast
  <2>. QED
    BY <2>1, <2>3 DEF Holder
<1>. QED
  BY <1>2, <1>3, <1>4 DEF ParentsAgree

\* A thing is exactly where its parent says, once, and following parents leads to a player or a
\* tile (ParentsAgree): internalMoveItem, internalAddItem, internalRemoveItem.
THEOREM ParentsStayAgreed == Spec => []ParentsAgree
<1>1. IInv => ParentsAgree
  BY GoodAgrees
<1>. QED
  BY <1>1, IInvInvariant, PTL

\* Whatever a player has open it can reach (OpenInReach).
THEOREM WindowsStayInReach == Spec => []OpenInReach
<1>1. ASSUME IInv PROVE OpenInReach
  <2>1. Now.openContainers = openContainers /\ Now.position = position
    BY DEF Now
  <2>. QED
    BY <1>1, <2>1 DEF IInv, InReach, OpenInReach
<1>. QED
  BY <1>1, IInvInvariant, PTL

\* What players and scripts move, split, merge, exchange and drop is all there afterwards: nothing
\* but a stack is ever nowhere, no stack has more pieces than it may, and the pieces in the world are
\* those that scripts gave less those they took (NothingLost): internalMoveItem, internalAddItem
\* with its remainder, internalPlayerAddItem, internalRemoveItem.
THEOREM NothingIsLost == Spec => []NothingLost
<1>1. ASSUME IInv PROVE NothingLost
  <2>1. Now.parent = parent /\ Now.count = count
    BY DEF Now
  <2>2. \A x \in Container \cup Plain : parent[x] # None
    BY <1>1, <2>1 DEF IInv, Good, Placed
  <2>3. \A x \in Stack : parent[x] # None => count[x] \in 1..Full
    BY <1>1, <2>1 DEF IInv, Good, Counted
  <2>4. made = SumFunction([x \in Stack |-> IF parent[x] = None THEN 0 ELSE count[x]])
    BY <1>1, <2>1 DEF IInv, Pieces, Piece
  <2>. QED
    BY <2>2, <2>3, <2>4 DEF NothingLost
<1>. QED
  BY <1>1, IInvInvariant, PTL

LEMMA FairAgrees == ASSUME IInv PROVE WeightsAgree
<1>0. Tree(Now) /\ Agrees(Now) /\ Weighs(Now) /\ Bears(Now)
  BY DEF IInv, Good, Tree, Fair
<1>1. /\ Now.parent = parent /\ Now.itemlist = itemlist
      /\ Now.totalWeight = totalWeight /\ Now.inventoryWeight = inventoryWeight
  BY DEF Now
<1>2. ASSUME NEW c \in Container
      PROVE  totalWeight[c] = SumFunction([x \in ToSet(itemlist[c]) |-> GetWeight(Now, x)])
  <2>1. ToSet(itemlist[c]) = Kids(Now, c)
    <3>1. ToSet(itemlist[c]) = {x \in Thing : parent[x] = c}
      BY GoodAgrees DEF ParentsAgree
    <3>. QED
      BY <1>1, <3>1 DEF Kids
  <2>2. totalWeight[c] = Load(Now, c)
    BY <1>0, <1>1 DEF Weighs
  <2>. QED
    BY <2>1, <2>2 DEF Load
<1>3. ASSUME NEW p \in Player
      PROVE  /\ inventoryWeight[p] = UpdateInventoryWeight(Now, p).inventoryWeight[p]
             /\ inventoryWeight[p] <= Strength[p]
  <2>. DEFINE t == UpdateInventoryWeight(Now, p)
  <2>1. t = UpdateInventoryWeight(Now, p)
    OBVIOUS
  <2>. HIDE DEF t
  <2>2. t.inventoryWeight[p] = Load(Now, p)
    BY <1>0, <2>1, InventoryWeightIs
  <2>3. inventoryWeight[p] = Load(Now, p) /\ Load(Now, p) <= Strength[p]
    BY <1>0, <1>1 DEF Bears
  <2>. QED
    BY <2>2, <2>3 DEF t
<1>. QED
  BY <1>2, <1>3 DEF WeightsAgree

\* The weights that containers and players keep are those of what is there, at every depth, and
\* nobody carries more than it can (WeightsAgree): the checks of hasCapacity before a move, the
\* exchanges and merges of internalMoveItem and every round of internalAddItem see what they lead to.
THEOREM WeightsStayRight == Spec => []WeightsAgree
<1>1. IInv => WeightsAgree
  BY FairAgrees
<1>. QED
  BY <1>1, IInvInvariant, PTL

\* No container is filled beyond its size, and nobody wears a weapon for two hands and something in
\* the other hand (FitsWhereItIs): what queryAdd was told of the hands is still so when the thing
\* arrives, after an exchange and from hand to hand.
THEOREM EverythingFits == Spec => []FitsWhereItIs
<1>1. ASSUME IInv PROVE FitsWhereItIs
  <2>1. Now.inventory = inventory /\ Now.itemlist = itemlist
    BY DEF Now
  <2>2. Snug(Now) /\ Armed(Now)
    BY <1>1 DEF IInv, Fair
  <2>3. \A p \in Player : Hands(inventory[p][CONST_SLOT_RIGHT], inventory[p][CONST_SLOT_LEFT])
    BY <2>1, <2>2 DEF Armed, CONST_SLOT_RIGHT, CONST_SLOT_LEFT
  <2>4. \A c \in Container : Len(itemlist[c]) <= Capacity
    BY <2>1, <2>2 DEF Snug
  <2>. QED
    BY <2>3, <2>4 DEF FitsWhereItIs, Hands
<1>. QED
  BY <1>1, IInvInvariant, PTL

LEMMA GoodTypes == ASSUME IInv PROVE TypeOK
<1>0. /\ Now \in States /\ Tree(Now) /\ Loose(Now) /\ Weighs(Now) /\ Bears(Now) /\ Clear(Now)
      /\ Counted(Now) /\ made = Pieces(Now)
  BY DEF IInv, Good, Tree, Fair, Loose
<1>1. /\ Now.parent = parent /\ Now.count = count /\ Now.itemlist = itemlist /\ Now.inventory = inventory
      /\ Now.totalWeight = totalWeight /\ Now.inventoryWeight = inventoryWeight
      /\ Now.openContainers = openContainers /\ Now.position = position
  BY DEF Now
<1>2. /\ parent \in [Thing -> Container \cup Tile \cup Player \cup {None}]
      /\ count \in [Stack -> Int] /\ itemlist \in [Container \cup Tile -> Seq(Thing)]
      /\ inventory \in [Player -> [Slot -> Thing \cup {None}]]
      /\ totalWeight \in [Container -> Int] /\ inventoryWeight \in [Player -> Int]
      /\ openContainers \in [Player -> SUBSET Container] /\ position \in [Player -> Tile]
  BY <1>0, <1>1 DEF States, Where, Holder
<1>3. \A x \in Stack : count[x] \in 0..Full
  <2>1. \A x \in Stack : parent[x] = None => count[x] = 0
    BY <1>0, <1>1 DEF Clear
  <2>2. \A x \in Stack : parent[x] # None => count[x] \in 1..Full
    BY <1>0, <1>1 DEF Counted
  <2>. QED
    BY <2>1, <2>2, Numbers
<1>4. \A c \in Container : totalWeight[c] \in Nat
  BY <1>0, <1>1, WeightNat
<1>5. ASSUME NEW p \in Player PROVE inventoryWeight[p] \in Nat
  <2>. DEFINE D == Kids(Now, p)
              f == [x \in D |-> GetWeight(Now, x)]
  <2>1. \A x \in D : x \in Thing /\ Now.parent[x] # None
    BY Disjoint DEF Kids
  <2>2. \A x \in D : GetWeight(Now, x) \in Nat
    BY <1>0, <2>1, WeightNat
  <2>3. f \in [D -> Nat] /\ IsFiniteSet(D) /\ inventoryWeight[p] = SumFunction(f)
    BY <1>0, <1>1, <2>2, LoadIs DEF Bears, Load
  <2>. HIDE DEF D, f
  <2>. QED
    BY <2>3, SumNat
<1>6. made \in Nat
  <2>. DEFINE f == [y \in Stack |-> Piece(Now, y)]
  <2>1. \A y \in Stack : Piece(Now, y) \in Nat
    BY <1>1, <1>3 DEF Piece
  <2>2. f \in [Stack -> Nat] /\ made = SumFunction(f)
    BY <1>0, <2>1 DEF Pieces
  <2>. HIDE DEF f
  <2>. QED
    BY <2>2, Finite, SumNat
<1>. QED
  BY <1>2, <1>3, <1>4, <1>5, <1>6 DEF TypeOK

\* Every state of things and their holders has its type: weights do not fall below zero, stacks not
\* above their size, however the steps of the handlers are interleaved with removals.
THEOREM TypeCorrect == Spec => []TypeOK
<1>1. IInv => TypeOK
  BY GoodTypes
<1>. QED
  BY <1>1, IInvInvariant, PTL
=============================================================================
