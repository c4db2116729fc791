---------------------------- MODULE KernelProofs ----------------------------
(***************************************************************************)
(* Proofs about the parts of the kernel that MCKernel puts side by side,   *)
(* for every value of their constants.                                     *)
(***************************************************************************)
EXTENDS MCKernel, Functions, FiniteSetTheorems, WellFoundedInduction, TLAPS

-----------------------------------------------------------------------------
(* Sums.  What SumFunction of the module Functions computes: the library   *)
(* has no theorem about it, so its recursive function is shown to exist    *)
(* and not to depend on the order.  Induction over finite sets is by a     *)
(* smallest counterexample.                                                *)

(* A set of numbers has a least one. *)
LEMMA LeastNumber ==
  ASSUME NEW N \in SUBSET Nat, N # {}
  PROVE  \E n \in N : \A m \in N : n <= m
PROOF
<1>1. PICK n \in N : \A m \in N : ~ (<<m, n>> \in OpToRel(<, Nat))
  BY WFMin, NatLessThanWellFounded
<1>2. \A m \in N : n <= m
  <2> SUFFICES ASSUME NEW m \in N PROVE n <= m
    OBVIOUS
  <2>1. m \in Nat /\ n \in Nat
    OBVIOUS
  <2>2. ~ (m < n)
    BY <1>1, <2>1 DEF OpToRel
  <2> QED
    BY <2>1, <2>2
<1> QED
  BY <1>2

(* Among subsets of a finite set, there is one with the fewest elements. *)
LEMMA SmallestSubset ==
  ASSUME NEW S, IsFiniteSet(S), NEW B \in SUBSET SUBSET S, B # {}
  PROVE  \E s \in B : \A t \in B : Cardinality(s) <= Cardinality(t)
PROOF
<1> DEFINE N == {Cardinality(s) : s \in B}
<1>1. \A s \in B : Cardinality(s) \in Nat
  BY FS_Subset, FS_CardinalityType
<1>2. N \in SUBSET Nat /\ N # {}
  BY <1>1
<1> HIDE DEF N
<1>3. PICK n \in N : \A m \in N : n <= m
  BY <1>2, LeastNumber
<1> USE DEF N
<1>4. PICK s \in B : Cardinality(s) = n
  OBVIOUS
<1> QED
  BY <1>3, <1>4

(* The function by which Functions adds up values: its body, and itself. *)
Picked(s) == CHOOSE x \in s : TRUE
RestOf(s) == s \ {Picked(s)}
Body(f, S, g) == [s \in SUBSET S |-> IF s = {} THEN 0 ELSE f[Picked(s)] + g[RestOf(s)]]
Iter(f, S) == CHOOSE g : g = Body(f, S, g)

(* SumFunctionOnSet is that function at the whole set. *)
LEMMA SumIs ==
  ASSUME NEW f, NEW S
  PROVE  SumFunctionOnSet(f, S) = Iter(f, S)[S]
PROOF
  BY DEF SumFunctionOnSet, FoldFunctionOnSet, MapThenFoldSet, Iter, Body, Picked, RestOf

(* What remains of a set has one element fewer. *)
LEMMA RestSmaller ==
  ASSUME NEW S, IsFiniteSet(S), NEW s \in SUBSET S, s # {}
  PROVE  /\ Picked(s) \in s /\ RestOf(s) \in SUBSET S
         /\ Cardinality(s) \in Nat /\ Cardinality(RestOf(s)) = Cardinality(s) - 1
PROOF
<1>1. Picked(s) \in s
  BY DEF Picked
<1>2. IsFiniteSet(s)
  BY FS_Subset
<1> QED
  BY <1>1, <1>2, FS_CardinalityType, FS_RemoveElement DEF RestOf

(* The recursion has a solution on a finite set: one on the sets of n      *)
(* elements can be continued to those of n + 1.                            *)
Upto(f, S, n, g) ==
  /\ g \in [SUBSET S -> Int]
  /\ \A s \in SUBSET S : Cardinality(s) <= n => g[s] = Body(f, S, g)[s]

(* One more element. *)
LEMMA UptoNext ==
  ASSUME NEW S, IsFiniteSet(S), NEW f \in [S -> Int], NEW n \in Nat, NEW g, Upto(f, S, n, g)
  PROVE  \E h : Upto(f, S, n + 1, h)
PROOF
<1> DEFINE h == [s \in SUBSET S |-> IF Cardinality(s) <= n THEN g[s] ELSE Body(f, S, g)[s]]
<1>1. g \in [SUBSET S -> Int] /\ \A s \in SUBSET S : Cardinality(s) <= n => g[s] = Body(f, S, g)[s]
  BY DEF Upto
<1>2. \A s \in SUBSET S : Body(f, S, g)[s] \in Int
  <2> SUFFICES ASSUME NEW s \in SUBSET S PROVE Body(f, S, g)[s] \in Int
    OBVIOUS
  <2>1. CASE s = {}
    BY <2>1 DEF Body
  <2>2. CASE s # {}
    <3>1. Picked(s) \in S /\ RestOf(s) \in SUBSET S
      BY <2>2, RestSmaller
    <3>2. Body(f, S, g)[s] = f[Picked(s)] + g[RestOf(s)]
      BY <2>2 DEF Body
    <3> QED
      BY <1>1, <3>1, <3>2
  <2> QED
    BY <2>1, <2>2
<1>3. h \in [SUBSET S -> Int]
  BY <1>1, <1>2
<1>4. ASSUME NEW s \in SUBSET S, Cardinality(s) <= n + 1
      PROVE  h[s] = Body(f, S, h)[s]
  <2>0. h[s] = Body(f, S, g)[s]
    BY <1>1
  <2>1. CASE s = {}
    BY <2>0, <2>1 DEF Body
  <2>2. CASE s # {}
    <3>1. /\ RestOf(s) \in SUBSET S /\ Cardinality(s) \in Nat
          /\ Cardinality(RestOf(s)) = Cardinality(s) - 1
      BY <2>2, RestSmaller
    <3>2. Cardinality(RestOf(s)) <= n
      BY <1>4, <3>1
    <3>3. h[RestOf(s)] = g[RestOf(s)]
      BY <3>1, <3>2
    <3>4. Body(f, S, g)[s] = f[Picked(s)] + g[RestOf(s)]
      BY <2>2 DEF Body
    <3> HIDE DEF h
    <3>5. Body(f, S, h)[s] = f[Picked(s)] + h[RestOf(s)]
      BY <2>2 DEF Body
    <3> QED
      BY <2>0, <3>3, <3>4, <3>5
  <2> QED
    BY <2>1, <2>2
<1> HIDE DEF h
<1>5. Upto(f, S, n + 1, h)
  BY <1>3, <1>4 DEF Upto
<1> QED
  BY <1>5

(* So the recursion has a solution, and Iter is one. *)
LEMMA IterSolves ==
  ASSUME NEW S, IsFiniteSet(S), NEW f \in [S -> Int]
  PROVE  Iter(f, S) = Body(f, S, Iter(f, S))
PROOF
<1> DEFINE bad == {n \in Nat : ~ \E g : Upto(f, S, n, g)}
<1>1. bad = {}
  <2> SUFFICES ASSUME bad # {} PROVE FALSE
    OBVIOUS
  <2>1. PICK n \in bad : \A m \in bad : n <= m
    BY LeastNumber
  <2>2. \E g : Upto(f, S, 0, g)
    <3> DEFINE g == [s \in SUBSET S |-> 0]
    <3>1. \A s \in SUBSET S : Cardinality(s) <= 0 => s = {}
      BY FS_Subset, FS_CardinalityType, FS_EmptySet
    <3>2. Upto(f, S, 0, g)
      BY <3>1 DEF Upto, Body
    <3> QED
      BY <3>2
  <2>3. n - 1 \in Nat /\ n - 1 \notin bad
    BY <2>1, <2>2
  <2>4. PICK g : Upto(f, S, n - 1, g)
    BY <2>3
  <2>5. \E h : Upto(f, S, (n - 1) + 1, h)
    BY <2>3, <2>4, UptoNext
  <2>6. (n - 1) + 1 = n
    OBVIOUS
  <2> QED
    BY <2>5, <2>6
<1>2. Cardinality(S) \in Nat
  BY FS_CardinalityType
<1>3. PICK g : Upto(f, S, Cardinality(S), g)
  BY <1>1, <1>2
<1>4. \A s \in SUBSET S : Cardinality(s) <= Cardinality(S)
  BY FS_Subset
<1>5. g = Body(f, S, g)
  <2>1. g \in [SUBSET S -> Int] /\ \A s \in SUBSET S : g[s] = Body(f, S, g)[s]
    BY <1>3, <1>4 DEF Upto
  <2> QED
    BY <2>1 DEF Body
<1> QED
  BY <1>5 DEF Iter

(* Iter, one element at a time. *)
LEMMA IterStep ==
  ASSUME NEW S, IsFiniteSet(S), NEW f \in [S -> Int], NEW s \in SUBSET S
  PROVE  Iter(f, S)[s] = IF s = {} THEN 0 ELSE f[Picked(s)] + Iter(f, S)[RestOf(s)]
PROOF
  BY IterSolves DEF Body

(* Sums of integers are integers. *)
LEMMA IterType ==
  ASSUME NEW S, IsFiniteSet(S), NEW f \in [S -> Int]
  PROVE  \A s \in SUBSET S : Iter(f, S)[s] \in Int
PROOF
<1> DEFINE bad == {s \in SUBSET S : Iter(f, S)[s] \notin Int}
<1> SUFFICES ASSUME bad # {} PROVE FALSE
  OBVIOUS
<1>1. PICK s \in bad : \A t \in bad : Cardinality(s) <= Cardinality(t)
  BY SmallestSubset
<1>2. s # {}
  <2>1. Iter(f, S)[{}] = 0
    BY IterStep
  <2> QED
    BY <2>1
<1>3. /\ Picked(s) \in s /\ RestOf(s) \in SUBSET S
      /\ Cardinality(s) \in Nat /\ Cardinality(RestOf(s)) = Cardinality(s) - 1
  BY <1>2, RestSmaller
<1>4. RestOf(s) \notin bad
  BY <1>1, <1>3
<1>5. Iter(f, S)[s] = f[Picked(s)] + Iter(f, S)[RestOf(s)]
  BY <1>2, IterStep
<1>6. f[Picked(s)] \in Int /\ Iter(f, S)[RestOf(s)] \in Int
  BY <1>3, <1>4
<1> QED
  BY <1>5, <1>6

(* Any element may be the first one to be added. *)
LEMMA IterAny ==
  ASSUME NEW S, IsFiniteSet(S), NEW f \in [S -> Int]
  PROVE  \A s \in SUBSET S : \A x \in s : Iter(f, S)[s] = f[x] + Iter(f, S)[s \ {x}]
PROOF
<1> DEFINE bad == {s \in SUBSET S : \E x \in s : Iter(f, S)[s] # f[x] + Iter(f, S)[s \ {x}]}
<1> SUFFICES ASSUME bad # {} PROVE FALSE
  OBVIOUS
<1>1. PICK s \in bad : \A t \in bad : Cardinality(s) <= Cardinality(t)
  BY SmallestSubset
<1>2. PICK x \in s : Iter(f, S)[s] # f[x] + Iter(f, S)[s \ {x}]
  OBVIOUS
<1>3. PICK y : y = Picked(s)
  OBVIOUS
<1>4. y \in s /\ Iter(f, S)[s] = f[y] + Iter(f, S)[s \ {y}]
  <2>1. Iter(f, S)[s] = f[Picked(s)] + Iter(f, S)[RestOf(s)]
    BY <1>2, IterStep
  <2>2. Picked(s) \in s
    BY <1>2, RestSmaller
  <2> QED
    BY <1>3, <2>1, <2>2 DEF RestOf
<1>5. x # y
  BY <1>2, <1>4
<1>6. /\ IsFiniteSet(s) /\ Cardinality(s) \in Nat
      /\ Cardinality(s \ {x}) = Cardinality(s) - 1 /\ Cardinality(s \ {y}) = Cardinality(s) - 1
  BY <1>4, FS_Subset, FS_CardinalityType, FS_RemoveElement
<1>7. s \ {x} \in SUBSET S /\ s \ {y} \in SUBSET S /\ s \ {x} \notin bad /\ s \ {y} \notin bad
  BY <1>1, <1>6
<1>8. PICK t : t = s \ {x, y}
  OBVIOUS
<1>9. (s \ {x}) \ {y} = t /\ (s \ {y}) \ {x} = t /\ t \in SUBSET S
  BY <1>8
<1>10. Iter(f, S)[s \ {x}] = f[y] + Iter(f, S)[t] /\ Iter(f, S)[s \ {y}] = f[x] + Iter(f, S)[t]
  BY <1>4, <1>5, <1>7, <1>9
<1>11. f[x] \in Int /\ f[y] \in Int /\ Iter(f, S)[t] \in Int
  BY <1>4, <1>9, IterType
<1> QED
  BY <1>2, <1>4, <1>10, <1>11

(* The sum over a set depends on the values there only. *)
LEMMA IterSame ==
  ASSUME NEW S, IsFiniteSet(S), NEW f \in [S -> Int], NEW g \in [S -> Int], NEW R \in SUBSET S,
         \A x \in R : f[x] = g[x]
  PROVE  Iter(f, S)[R] = Iter(g, S)[R]
PROOF
<1> DEFINE bad == {s \in SUBSET S : s \subseteq R /\ Iter(f, S)[s] # Iter(g, S)[s]}
<1>1. bad = {}
  <2> SUFFICES ASSUME bad # {} PROVE FALSE
    OBVIOUS
  <2>1. PICK s \in bad : \A t \in bad : Cardinality(s) <= Cardinality(t)
    BY SmallestSubset
  <2>2. s # {}
    BY IterStep
  <2>3. /\ Picked(s) \in s /\ RestOf(s) \in SUBSET S /\ RestOf(s) \subseteq R
        /\ Cardinality(s) \in Nat /\ Cardinality(RestOf(s)) = Cardinality(s) - 1
    BY <2>2, RestSmaller DEF RestOf
  <2>4. Iter(f, S)[RestOf(s)] = Iter(g, S)[RestOf(s)]
    BY <2>1, <2>3
  <2>5. /\ Iter(f, S)[s] = f[Picked(s)] + Iter(f, S)[RestOf(s)]
        /\ Iter(g, S)[s] = g[Picked(s)] + Iter(g, S)[RestOf(s)]
    BY <2>2, IterStep
  <2> QED
    BY <2>3, <2>4, <2>5
<1> QED
  BY <1>1

(* The sum of the values of a function, when one of them changes. *)
LEMMA SumChanges ==
  ASSUME NEW S, IsFiniteSet(S), NEW f \in [S -> Int], NEW g \in [S -> Int], NEW x \in S,
         \A y \in S : y # x => g[y] = f[y]
  PROVE  /\ SumFunction(f) \in Int
         /\ SumFunction(g) = SumFunction(f) - f[x] + g[x]
PROOF
<1>1. SumFunction(f) = Iter(f, S)[S] /\ SumFunction(g) = Iter(g, S)[S]
  BY SumIs DEF SumFunction
<1>2. PICK R : R = S \ {x}
  OBVIOUS
<1>3. Iter(f, S)[S] = f[x] + Iter(f, S)[R] /\ Iter(g, S)[S] = g[x] + Iter(g, S)[R]
  BY <1>2, IterAny
<1>4. Iter(f, S)[R] = Iter(g, S)[R] /\ Iter(f, S)[R] \in Int
  BY <1>2, IterSame, IterType
<1> QED
  BY <1>1, <1>3, <1>4

(* The sum of zeros is zero. *)
LEMMA SumOfZeros ==
  ASSUME NEW S, IsFiniteSet(S), NEW f \in [S -> Int], \A x \in S : f[x] = 0
  PROVE  SumFunction(f) = 0
PROOF
<1> DEFINE bad == {s \in SUBSET S : Iter(f, S)[s] # 0}
<1>1. bad = {}
  <2> SUFFICES ASSUME bad # {} PROVE FALSE
    OBVIOUS
  <2>1. PICK s \in bad : \A t \in bad : Cardinality(s) <= Cardinality(t)
    BY SmallestSubset
  <2>2. s # {}
    BY IterStep
  <2>3. /\ Picked(s) \in s /\ RestOf(s) \in SUBSET S
        /\ Cardinality(s) \in Nat /\ Cardinality(RestOf(s)) = Cardinality(s) - 1
    BY <2>2, RestSmaller
  <2>4. Iter(f, S)[RestOf(s)] = 0 /\ f[Picked(s)] = 0
    BY <2>1, <2>3
  <2>5. Iter(f, S)[s] = f[Picked(s)] + Iter(f, S)[RestOf(s)]
    BY <2>2, IterStep
  <2> QED
    BY <2>4, <2>5
<1>2. SumFunction(f) = Iter(f, S)[S]
  BY SumIs DEF SumFunction
<1> QED
  BY <1>1, <1>2

-----------------------------------------------------------------------------
(* Memory (Vm) *)

(* The kernel's pages and address spaces, in a behaviour of their own. *)
VmSpec == V!Init /\ [][V!Next]_vmvars

(* What an address space may be, and when a size tells what is mapped. *)
Space == [pml4 : {0, 1}, tables : {0, LEVELS}, map : SUBSET V!Index, guard : V!Index]
Below(n) == {k \in V!Index : 1 <= k /\ k * PGSIZE < n}
Exact(A, n) ==
  /\ A.map = Below(n)
  /\ A.guard # 0 => A.guard \in A.map
  /\ n <= KERNBASE + 2 * PGSIZE

VmTypes ==
  /\ nfree \in Nat
  /\ vstate \in [VProc -> {"unused", "run", "zombie"}]
  /\ kstack \in [VProc -> BOOLEAN]
  /\ space \in [VProc -> Space] /\ new \in [VProc -> Space]
  /\ sz \in [VProc -> Nat] /\ newsz \in [VProc -> Nat]

(* A slot that is not in use has no pages, and a kernel stack goes with    *)
(* every other one; a zombie is not inside exec (proc.c:237-244).          *)
StatesAt(p) ==
  /\ vstate[p] = "unused" => space[p] = V!NoSpace
  /\ kstack[p] <=> vstate[p] # "unused"
  /\ vstate[p] # "run" => new[p] = V!NoSpace

(* sz tells what is mapped, unless sbrk has removed the code; and so does  *)
(* the size of the image that exec is loading.                             *)
SizesAt(p) ==
  /\ vstate[p] = "run" /\ 1 \in space[p].map => Exact(space[p], sz[p])
  /\ new[p] # V!NoSpace => Exact(new[p], newsz[p])

VmInv ==
  /\ VmTypes
  /\ \A p \in VProc : StatesAt(p) /\ SizesAt(p)
  /\ vpanic \in {"", "Out of memory!"}
  /\ PagesConserved

(* Multiples of the page size keep the order. *)
LEMMA Product ==
  ASSUME NEW m \in Nat \ {0}, NEW j \in Int, NEW k \in Int
  PROVE  /\ j * m \in Int /\ k * m \in Int
         /\ j < k => j * m + m <= k * m
         /\ j < k <=> j * m < k * m
PROOF
<1>0. j * m \in Int /\ k * m \in Int
  OBVIOUS
<1>1. ASSUME NEW x \in Int, NEW y \in Int, x < y PROVE x * m + m <= y * m
  <2>1. y - x - 1 \in Nat
    BY <1>1
  <2>2. (y - x - 1) * m >= 0
    BY <2>1
  <2>3. (y - x - 1) * m = y * m - x * m - m
    OBVIOUS
  <2> QED
    BY <2>2, <2>3
<1>2. ASSUME NEW x \in Int, NEW y \in Int, x < y PROVE x * m < y * m
  BY <1>1, <1>2
<1> QED
  BY <1>0, <1>1, <1>2

(* Division rounds down. *)
LEMMA Divided ==
  ASSUME NEW a \in Nat, NEW m \in Nat \ {0}
  PROVE  a \div m \in Nat /\ (a \div m) * m <= a /\ a < (a \div m) * m + m
PROOF
  OBVIOUS

(* PGROUNDUP gives the first page that starts at an address or above it    *)
(* (mmu.h).                                                                *)
LEMMA RoundUp ==
  ASSUME NEW a \in Nat, NEW k \in Int
  PROVE  /\ V!PGROUNDUP(a) \in Nat
         /\ V!PGROUNDUP(a) <= k <=> a <= k * PGSIZE
PROOF
<1>1. PICK m \in Nat \ {0} : m = PGSIZE
  BY VmAssumption
<1>2. PICK q : q = V!PGROUNDUP(a)
  OBVIOUS
<1>3. a + m - 1 \in Nat
  BY <1>1
<1>4. q \in Nat /\ q * m <= a + m - 1 /\ a + m - 1 < q * m + m
  BY <1>1, <1>2, <1>3, Divided DEF V!PGROUNDUP
<1>5. ASSUME q <= k PROVE a <= k * m
  <2>1. q * m <= k * m
    BY <1>4, <1>5, Product
  <2> QED
    BY <1>4, <2>1, Product
<1>6. ASSUME k < q PROVE k * m < a
  BY <1>4, <1>6, Product
<1> QED
  BY <1>1, <1>2, <1>4, <1>5, <1>6, Product

(* The indices of pages are numbers, and there are finitely many. *)
LEMMA Indices ==
  /\ V!Index \subseteq Nat /\ 0 \in V!Index /\ 1 \in V!Index
  /\ \A K \in SUBSET V!Index : IsFiniteSet(K) /\ Cardinality(K) \in Nat
  /\ \A k \in Nat : k * PGSIZE < KERNBASE + 2 * PGSIZE => k \in V!Index
PROOF
<1>1. KERNBASE \div PGSIZE \in Nat
  BY VmAssumption, Divided
<1>2. V!Index \subseteq Nat /\ 0 \in V!Index /\ 1 \in V!Index
  BY <1>1 DEF V!Index
<1>3. \A K \in SUBSET V!Index : IsFiniteSet(K) /\ Cardinality(K) \in Nat
  <2>1. IsFiniteSet(V!Index)
    BY <1>1, FS_Interval DEF V!Index
  <2> QED
    BY <2>1, FS_Subset, FS_CardinalityType
<1>4. ASSUME NEW k \in Nat, k * PGSIZE < KERNBASE + 2 * PGSIZE PROVE k \in V!Index
  <2>1. PICK q \in Nat : q = KERNBASE \div PGSIZE
    BY <1>1
  <2>2. PICK m \in Nat \ {0} : m = PGSIZE
    BY VmAssumption
  <2>3. KERNBASE < q * m + m
    BY <2>1, <2>2, VmAssumption, Divided
  <2>4. ASSUME k > q + 2 PROVE FALSE
    <3>1. q + 2 < k => (q + 2) * m + m <= k * m
      BY <2>2, Product
    <3>2. (q + 2) * m = q * m + 2 * m
      BY <2>2
    <3>3. q * m \in Int /\ k * m \in Int
      BY <2>2, Product
    <3> QED
      BY <1>4, <2>2, <2>3, <2>4, <3>1, <3>2, <3>3, VmAssumption
  <2> QED
    BY <2>1, <2>4 DEF V!Index
<1> QED
  BY <1>2, <1>3, <1>4

(* Vm counts with the operators that the theorems of the library are about. *)
LEMMA VmCounts == \A S : V!Cardinality(S) = Cardinality(S)
PROOF
  BY DEF V!Cardinality, Cardinality

(* Vm adds as this module does. *)
LEMMA VmSums == \A f : V!SumFunction(f) = SumFunction(f)
PROOF
  BY DEF V!SumFunction, V!SumFunctionOnSet, V!FoldFunctionOnSet, V!MapThenFoldSet,
         SumFunction, SumFunctionOnSet, FoldFunctionOnSet, MapThenFoldSet

(* The pages of an address space, and the empty one *)
LEMMA SpacePages ==
  /\ \A A \in Space : V!PagesOf(A) \in Nat
  /\ V!NoSpace \in Space /\ V!PagesOf(V!NoSpace) = 0
PROOF
<1>1. \A A \in Space : V!PagesOf(A) \in Nat
  BY Indices, VmCounts, VmAssumption DEF Space, V!PagesOf
<1>2. V!NoSpace \in Space
  BY Indices DEF Space, V!NoSpace
<1>3. V!PagesOf(V!NoSpace) = 0
  BY FS_EmptySet, VmCounts DEF V!PagesOf, V!NoSpace
<1> QED
  BY <1>1, <1>2, <1>3

(* mappages takes as many pages as it says (vm.c). *)
LEMMA MapPages ==
  ASSUME NEW A \in Space, NEW K \in SUBSET V!Index, K \cap A.map = {}
  PROVE  /\ V!mappages(A, K) \in Space /\ V!Cost(A, K) \in Nat
         /\ V!mappages(A, K).map = A.map \cup K /\ V!mappages(A, K).guard = A.guard
         /\ V!mappages(A, K).pml4 = A.pml4
         /\ V!mappages(A, K).tables = A.tables + V!Tables(A, K)
         /\ V!PagesOf(V!mappages(A, K)) = V!PagesOf(A) + V!Cost(A, K)
PROOF
<1>1. A.tables + V!Tables(A, K) \in {0, LEVELS} /\ V!Tables(A, K) \in Nat
  BY VmAssumption DEF V!Tables, Space
<1>2. PICK t : t = V!Tables(A, K)
  OBVIOUS
<1>21. V!mappages(A, K) = [A EXCEPT !.map = @ \cup K, !.tables = @ + t]
  BY <1>2 DEF V!mappages
<1>3. /\ IsFiniteSet(A.map) /\ IsFiniteSet(K) /\ Cardinality(A.map) \in Nat
      /\ Cardinality(K) \in Nat
  BY Indices DEF Space
<1>4. Cardinality(A.map \cup K) = Cardinality(A.map) + Cardinality(K)
  <2>1. Cardinality(A.map \cup K)
          = Cardinality(A.map) + Cardinality(K) - Cardinality(A.map \cap K)
    BY <1>3, FS_Union
  <2>2. A.map \cap K = {}
    OBVIOUS
  <2>3. Cardinality(A.map \cap K) = 0
    BY <2>2, FS_EmptySet
  <2> QED
    BY <1>3, <2>1, <2>3
<1>5. /\ V!mappages(A, K) \in Space
      /\ V!mappages(A, K).map = A.map \cup K /\ V!mappages(A, K).guard = A.guard
      /\ V!mappages(A, K).pml4 = A.pml4 /\ V!mappages(A, K).tables = A.tables + t
  BY <1>1, <1>2, <1>21 DEF Space
<1>6. V!Cost(A, K) = Cardinality(K) + t
  BY <1>2, VmCounts DEF V!Cost
<1>7. /\ V!PagesOf(A) = A.pml4 + A.tables + Cardinality(A.map)
      /\ V!PagesOf(V!mappages(A, K)) = A.pml4 + (A.tables + t) + Cardinality(A.map \cup K)
  BY <1>5, VmCounts DEF V!PagesOf
<1>8. A.pml4 \in Nat /\ A.tables \in Nat /\ t \in Nat
  BY <1>1, <1>2, VmAssumption DEF Space
<1> QED
  BY <1>2, <1>3, <1>4, <1>5, <1>6, <1>7, <1>8

(* setupkvm builds an address space from nothing (vm.c). *)
LEMMA SetupPages ==
  ASSUME NEW K \in SUBSET V!Index
  PROVE  /\ V!setupkvm(K) \in Space
         /\ V!setupkvm(K).map = K /\ V!setupkvm(K).pml4 = 1 /\ V!setupkvm(K).guard = 0
         /\ K # {} => V!setupkvm(K).tables = LEVELS
PROOF
<1>1. PICK A : A = [V!NoSpace EXCEPT !.pml4 = 1]
  OBVIOUS
<1>2. A \in Space /\ A.map = {} /\ A.pml4 = 1 /\ A.guard = 0 /\ A.tables = 0
  BY <1>1, SpacePages DEF Space, V!NoSpace
<1>3. V!setupkvm(K) = V!mappages(A, K)
  BY <1>1 DEF V!setupkvm
<1> QED
  <2>1. K \cap A.map = {}
    BY <1>2
  <2>2. /\ V!mappages(A, K) \in Space /\ V!mappages(A, K).pml4 = A.pml4
        /\ V!mappages(A, K).map = A.map \cup K /\ V!mappages(A, K).guard = A.guard
        /\ V!mappages(A, K).tables = A.tables + V!Tables(A, K)
    BY <1>2, <2>1, MapPages
  <2>3. A.map \cup K = K
    BY <1>2
  <2>4. K # {} => 0 + V!Tables(A, K) = LEVELS
    BY <1>2, VmAssumption DEF V!Tables
  <2> QED
    BY <1>2, <1>3, <2>2, <2>3, <2>4

(* The uses of a slot, when only its own address spaces change *)
LEMMA PagesMove ==
  ASSUME VmTypes, VmTypes', PagesConserved, NEW x \in VProc,
         \A p \in VProc \ {x} : UNCHANGED <<space[p], new[p], kstack[p]>>,
         nfree' + V!UsedBy(x)' = nfree + V!UsedBy(x)
  PROVE  PagesConserved'
PROOF
<1> DEFINE f == [p \in VProc |-> V!UsedBy(p)]
           g == [p \in VProc |-> V!UsedBy(p)']
<1>1. f \in [VProc -> Int]
  <2>1. \A p \in VProc : V!UsedBy(p) \in Int
    BY SpacePages DEF VmTypes, V!UsedBy
  <2> QED
    BY <2>1
<1>2. g \in [VProc -> Int]
  <2>1. \A p \in VProc : V!UsedBy(p)' \in Int
    BY SpacePages DEF VmTypes, V!UsedBy
  <2> QED
    BY <2>1
<1>3. \A y \in VProc : y # x => g[y] = f[y]
  BY DEF V!UsedBy
<1>4. f[x] = V!UsedBy(x) /\ g[x] = V!UsedBy(x)' /\ f[x] \in Int /\ g[x] \in Int
  BY <1>1, <1>2
<1>5. nfree + SumFunction(f) = NPAGES
  BY VmSums DEF PagesConserved, V!PagesConserved
<1>6. (nfree' + SumFunction(g) = NPAGES) => PagesConserved'
  BY VmSums DEF PagesConserved, V!PagesConserved
<1> HIDE DEF f, g
<1>7. SumFunction(f) \in Int /\ SumFunction(g) = SumFunction(f) - f[x] + g[x]
  BY <1>1, <1>2, <1>3, VmAssumption, SumChanges
<1>8. nfree \in Int /\ nfree' \in Int /\ NPAGES \in Int
  BY VmAssumption DEF VmTypes
<1> QED
  BY <1>4, <1>5, <1>6, <1>7, <1>8

(* A step that changes one slot keeps the invariant if it does so there. *)
LEMMA VmInvAt ==
  ASSUME VmInv, NEW x \in VProc, VmTypes', StatesAt(x)', SizesAt(x)',
         \A p \in VProc \ {x} :
           UNCHANGED <<vstate[p], kstack[p], space[p], sz[p], new[p], newsz[p]>>,
         vpanic' = vpanic, nfree' + V!UsedBy(x)' = nfree + V!UsedBy(x)
  PROVE  VmInv'
PROOF
<1>1. PagesConserved'
  BY PagesMove DEF VmInv
<1>2. ASSUME NEW p \in VProc PROVE (StatesAt(p) /\ SizesAt(p))'
  <2>1. CASE p = x
    BY <2>1
  <2>2. CASE p # x
    BY <2>2 DEF VmInv, StatesAt, SizesAt
  <2> QED
    BY <2>1, <2>2
<1> QED
  BY <1>1, <1>2 DEF VmInv

(* The pages of a size and above it, as allocuvm and deallocuvm find them  *)
(* (vm.c).                                                                 *)
LEMMA PageSets ==
  ASSUME NEW a \in Nat, NEW b \in Nat, NEW A \in Space
  PROVE  /\ V!Added(a, b) = {k \in V!Index : a <= k * PGSIZE /\ k * PGSIZE < b}
         /\ V!Dropped(A, a, b) = {k \in A.map : b <= k * PGSIZE /\ k * PGSIZE < a}
PROOF
<1>1. V!Index \subseteq Int /\ A.map \subseteq V!Index
  BY Indices DEF Space
<1>2. \A k \in V!Index : V!PGROUNDUP(a) <= k <=> a <= k * PGSIZE
  BY <1>1, RoundUp
<1>3. \A k \in V!Index : V!PGROUNDUP(b) <= k <=> b <= k * PGSIZE
  BY <1>1, RoundUp
<1> QED
  BY <1>1, <1>2, <1>3 DEF V!Added, V!Dropped

(* What is known of a process that runs user code *)
LEMMA RunsExact ==
  ASSUME VmInv, NEW p \in VProc, V!Runs(p)
  PROVE  /\ space[p] \in Space /\ sz[p] \in Nat /\ vstate[p] = "run" /\ kstack[p]
         /\ new[p] = V!NoSpace /\ space[p].map = Below(sz[p]) /\ sz[p] > PGSIZE
         /\ space[p].guard # 0 => space[p].guard \in space[p].map
         /\ sz[p] <= KERNBASE + 2 * PGSIZE
PROOF
<1>1. 1 * PGSIZE = PGSIZE
  BY VmAssumption
<1>2. /\ space[p] \in Space /\ sz[p] \in Nat /\ vstate[p] = "run" /\ kstack[p]
      /\ new[p] = V!NoSpace /\ 1 \in space[p].map
  BY DEF VmInv, VmTypes, StatesAt, V!Runs
<1>3. Exact(space[p], sz[p])
  BY <1>2 DEF VmInv, SizesAt
<1>4. 1 * PGSIZE < sz[p]
  BY <1>2, <1>3 DEF Exact, Below
<1> QED
  BY <1>1, <1>2, <1>3, <1>4 DEF Exact

(* Out of pages: only the panic changes. *)
LEMMA VmPanics ==
  ASSUME VmInv, NEW n \in Nat, V!Panics(n, "")
  PROVE  VmInv'
PROOF
<1>1. UNCHANGED <<nfree, vstate, kstack, space, sz, new, newsz>> /\ vpanic' = "Out of memory!"
  BY DEF V!Panics, VmInv, VmTypes
<1>2. VmTypes' /\ PagesConserved'
  BY <1>1 DEF VmInv, VmTypes, PagesConserved, V!PagesConserved, V!UsedBy
<1> QED
  BY <1>1, <1>2 DEF VmInv, StatesAt, SizesAt

(* growproc by n > 0: mappages does not find a page in its way. *)
LEMMA VmGrow ==
  ASSUME VmInv, NEW p \in VProc, NEW n \in Int, V!grow(p, n)
  PROVE  VmInv'
PROOF
<1> DEFINE K == V!Added(sz[p], sz[p] + n)
           A == space[p]
<1>1. V!Runs(p) /\ n > 0 /\ sz[p] + n < KERNBASE
  BY DEF V!grow
<1>2. /\ A \in Space /\ sz[p] \in Nat /\ vstate[p] = "run" /\ kstack[p]
      /\ new[p] = V!NoSpace /\ A.map = Below(sz[p]) /\ sz[p] > PGSIZE
      /\ A.guard # 0 => A.guard \in A.map
  BY <1>1, RunsExact
<1>3. K = {k \in V!Index : sz[p] <= k * PGSIZE /\ k * PGSIZE < sz[p] + n}
  BY <1>1, <1>2, PageSets
<1>4. \A k \in V!Index : k \in Int /\ k * PGSIZE \in Int
  BY Indices, VmAssumption
<1>5. K \in SUBSET V!Index /\ K \cap A.map = {}
  BY <1>2, <1>3, <1>4 DEF Below
<1>6. A.map \cup K = Below(sz[p] + n)
  <2>1. ASSUME NEW k \in K PROVE 1 <= k
    <3>1. CASE k = 0
      <4>1. 0 * PGSIZE = 0
        BY VmAssumption
      <4> QED
        BY <1>2, <1>3, <3>1, <4>1, VmAssumption
    <3>2. k \in Nat
      BY <1>5, Indices
    <3> QED
      BY <3>1, <3>2
  <2> QED
    BY <1>1, <1>2, <1>3, <1>4, <2>1 DEF Below
<1> HIDE DEF K
<1>7. V!Cost(A, K) \in Nat
  BY <1>2, <1>5, MapPages
<1>8. CASE V!Panics(V!Cost(A, K), "")
  BY <1>7, <1>8, VmPanics
<1>9. CASE /\ nfree >= V!Cost(A, K) /\ nfree' = nfree - V!Cost(A, K)
           /\ space' = [space EXCEPT ![p] = V!mappages(A, K)]
           /\ sz' = [sz EXCEPT ![p] = sz[p] + n]
           /\ UNCHANGED <<vstate, kstack, new, newsz, vpanic>>
  <2>1. PICK B : B = V!mappages(A, K)
    OBVIOUS
  <2>2. /\ B \in Space /\ B.map = A.map \cup K /\ B.guard = A.guard
        /\ V!PagesOf(B) = V!PagesOf(A) + V!Cost(A, K)
    BY <1>2, <1>5, <2>1, MapPages
  <2>3. VmTypes'
    <3>0. nfree \in Nat
      BY DEF VmInv, VmTypes
    <3>1. sz[p] + n \in Nat /\ nfree' \in Nat
      <4>1. sz[p] + n \in Nat
        BY <1>1, <1>2
      <4> QED
        BY <1>7, <1>9, <3>0, <4>1
    <3> QED
      BY <1>9, <2>1, <2>2, <3>1 DEF VmInv, VmTypes
  <2>4. space'[p] = B /\ sz'[p] = sz[p] + n
    BY <1>9, <2>1 DEF VmInv, VmTypes
  <2>5. Exact(B, sz[p] + n)
    BY <1>1, <1>2, <1>6, <2>2, VmAssumption DEF Exact
  <2>6. StatesAt(p)' /\ SizesAt(p)'
    BY <1>2, <1>9, <2>4, <2>5 DEF StatesAt, SizesAt
  <2>7. nfree' + V!UsedBy(p)' = nfree + V!UsedBy(p)
    <3>1. V!PagesOf(A) \in Nat /\ V!PagesOf(new[p]) \in Nat /\ nfree \in Nat
      BY <1>2, SpacePages DEF VmInv, VmTypes
    <3>2. /\ V!UsedBy(p) = V!PagesOf(A) + V!PagesOf(new[p]) + 1
          /\ V!UsedBy(p)' = V!PagesOf(B) + V!PagesOf(new[p]) + 1
      BY <1>2, <1>9, <2>4 DEF V!UsedBy
    <3> QED
      BY <1>7, <1>9, <2>2, <3>1, <3>2
  <2>8. \A q \in VProc \ {p} :
          UNCHANGED <<vstate[q], kstack[q], space[q], sz[q], new[q], newsz[q]>>
    BY <1>9 DEF VmInv, VmTypes
  <2> QED
    BY <1>9, <2>3, <2>6, <2>7, <2>8, VmInvAt
<1> QED
  BY <1>5, <1>8, <1>9 DEF V!grow, V!kalloc, K

(* growproc by n < 0: what is left is what the new size says, or nothing. *)
LEMMA VmShrink ==
  ASSUME VmInv, NEW p \in VProc, NEW n \in Int, V!shrink(p, n)
  PROVE  VmInv'
PROOF
<1> DEFINE K == V!Dropped(space[p], sz[p], sz[p] + n)
           A == space[p]
<1>1. V!Runs(p) /\ n < 0 /\ sz[p] + n >= 0
  BY DEF V!shrink
<1>2. /\ A \in Space /\ sz[p] \in Nat /\ vstate[p] = "run" /\ kstack[p]
      /\ new[p] = V!NoSpace /\ A.map = Below(sz[p]) /\ sz[p] > PGSIZE
      /\ A.guard # 0 => A.guard \in A.map
      /\ sz[p] <= KERNBASE + 2 * PGSIZE
  BY <1>1, RunsExact
<1>3. sz[p] + n \in Nat
  BY <1>1, <1>2
<1>4. K = {k \in A.map : sz[p] + n <= k * PGSIZE /\ k * PGSIZE < sz[p]}
  BY <1>2, <1>3, PageSets
<1>5. \A k \in V!Index : k \in Nat /\ k * PGSIZE \in Int /\ 0 <= k * PGSIZE
  BY Indices, VmAssumption
<1>6. K \subseteq A.map
  BY <1>4
<1>7. A.map \ K = Below(sz[p] + n)
  BY <1>1, <1>2, <1>3, <1>4, <1>5 DEF Below
<1>71. sz[p] + n = 0 => A.map \ K = {}
  BY <1>5, <1>7 DEF Below
<1>8. /\ V!kfree(V!Cardinality(K))
      /\ space' = [space EXCEPT ![p].map = @ \ K, ![p].guard = IF @ \in K THEN 0 ELSE @]
      /\ sz' = [sz EXCEPT ![p] = IF sz[p] + n = 0 THEN @ ELSE sz[p] + n]
      /\ UNCHANGED <<vstate, kstack, new, newsz, vpanic>>
  BY DEF V!shrink
<1> HIDE DEF K
<1>9. PICK B : B = [A EXCEPT !.map = @ \ K, !.guard = IF @ \in K THEN 0 ELSE @]
  OBVIOUS
<1>10. /\ B \in Space /\ B.map = A.map \ K /\ B.pml4 = A.pml4 /\ B.tables = A.tables
       /\ B.guard = IF A.guard \in K THEN 0 ELSE A.guard
  BY <1>2, <1>9, Indices DEF Space
<1>11. space' = [space EXCEPT ![p] = B]
  BY <1>8, <1>9 DEF VmInv, VmTypes
<1>12. /\ Cardinality(K) \in Nat /\ Cardinality(A.map) \in Nat
       /\ Cardinality(A.map \ K) = Cardinality(A.map) - Cardinality(K)
  <2>1. A.map \in SUBSET V!Index
    BY <1>2 DEF Space
  <2>2. /\ IsFiniteSet(A.map) /\ Cardinality(A.map) \in Nat
        /\ Cardinality(K) \in Nat /\ Cardinality(A.map \ K) \in Nat
    BY <1>6, <2>1, Indices
  <2>3. Cardinality(A.map \ K) = Cardinality(A.map) - Cardinality(A.map \cap K)
    BY <2>2, FS_Difference
  <2>4. A.map \cap K = K
    BY <1>6
  <2> QED
    BY <2>2, <2>3, <2>4
<1>13. V!PagesOf(A) = V!PagesOf(B) + Cardinality(K) /\ V!PagesOf(A) \in Nat /\ V!PagesOf(B) \in Nat
  <2>1. /\ V!PagesOf(A) = A.pml4 + A.tables + Cardinality(A.map)
        /\ V!PagesOf(B) = A.pml4 + A.tables + Cardinality(A.map \ K)
    BY <1>10, VmCounts DEF V!PagesOf
  <2>2. A.pml4 \in Nat /\ A.tables \in Nat
    BY <1>2, VmAssumption DEF Space
  <2>3. V!PagesOf(A) \in Nat /\ V!PagesOf(B) \in Nat
    BY <1>2, <1>10, SpacePages
  <2> QED
    BY <1>12, <2>1, <2>2, <2>3
<1>14. nfree \in Nat /\ nfree' = nfree + Cardinality(K)
  BY <1>8, VmCounts DEF V!kfree, VmInv, VmTypes
<1>15. VmTypes'
  <2>1. nfree' \in Nat
    BY <1>12, <1>14
  <2> QED
    BY <1>3, <1>8, <1>10, <1>11, <2>1, ZenonT(60) DEF VmInv, VmTypes
<1>16. space'[p] = B /\ sz'[p] = IF sz[p] + n = 0 THEN sz[p] ELSE sz[p] + n
  BY <1>8, <1>11 DEF VmInv, VmTypes
<1>17. StatesAt(p)'
  BY <1>2, <1>8 DEF StatesAt
<1>18. SizesAt(p)'
  <2>1. new'[p] = V!NoSpace
    BY <1>2, <1>8
  <2>2. CASE sz[p] + n = 0
    BY <1>10, <1>16, <1>71, <2>1, <2>2 DEF SizesAt
  <2>3. CASE sz[p] + n # 0
    <3>1. B.map = Below(sz[p] + n)
      BY <1>7, <1>10
    <3>2. B.guard # 0 => B.guard \in B.map
      BY <1>2, <1>10
    <3>3. sz[p] + n <= KERNBASE + 2 * PGSIZE
      BY <1>1, <1>2, VmAssumption
    <3> QED
      BY <1>16, <2>1, <2>3, <3>1, <3>2, <3>3 DEF SizesAt, Exact
  <2> QED
    BY <2>2, <2>3
<1>19. nfree' + V!UsedBy(p)' = nfree + V!UsedBy(p)
  <2>1. V!PagesOf(new[p]) \in Nat
    BY SpacePages DEF VmInv, VmTypes
  <2>2. /\ V!UsedBy(p) = V!PagesOf(A) + V!PagesOf(new[p]) + 1
        /\ V!UsedBy(p)' = V!PagesOf(B) + V!PagesOf(new[p]) + 1
    BY <1>2, <1>8, <1>16 DEF V!UsedBy
  <2> QED
    BY <1>12, <1>13, <1>14, <2>1, <2>2
<1>20. \A q \in VProc \ {p} :
         UNCHANGED <<vstate[q], kstack[q], space[q], sz[q], new[q], newsz[q]>>
  BY <1>8, <1>11 DEF VmInv, VmTypes
<1> QED
  BY <1>8, <1>15, <1>17, <1>18, <1>19, <1>20, VmInvAt

(* fork: copyuvm finds every page below sz. *)
LEMMA VmFork ==
  ASSUME VmInv, NEW p \in VProc, NEW q \in VProc, V!fork(p, q)
  PROVE  VmInv'
PROOF
<1> DEFINE K == V!Copied(p)
           A == space[p]
<1>1. V!Runs(p) /\ vstate[q] = "unused"
  BY DEF V!fork
<1>2. /\ A \in Space /\ sz[p] \in Nat /\ vstate[p] = "run" /\ kstack[p]
      /\ new[p] = V!NoSpace /\ A.map = Below(sz[p]) /\ sz[p] > PGSIZE
      /\ A.guard # 0 => A.guard \in A.map
      /\ sz[p] <= KERNBASE + 2 * PGSIZE
  BY <1>1, RunsExact
<1>3. K = A.map /\ K \subseteq V!Index
  BY <1>2 DEF V!Copied, Below
<1>4. PICK B : B = [V!setupkvm(K) EXCEPT !.guard = A.guard]
  OBVIOUS
<1>5. B \in Space /\ B.map = K /\ B.guard = A.guard
  <2>1. V!setupkvm(K) \in Space /\ V!setupkvm(K).map = K
    BY <1>3, SetupPages
  <2> QED
    BY <1>2, <1>4, <2>1 DEF Space
<1>6. V!PagesOf(B) \in Nat
  BY <1>5, SpacePages
<1>7. \/ V!Panics(V!PagesOf(B) + 1, "")
      \/ /\ V!kalloc(V!PagesOf(B) + 1)
         /\ space' = [space EXCEPT ![q] = B]
         /\ kstack' = [kstack EXCEPT ![q] = TRUE]
         /\ vstate' = [vstate EXCEPT ![q] = "run"]
         /\ sz' = [sz EXCEPT ![q] = sz[p]]
         /\ UNCHANGED <<new, newsz, vpanic>>
  BY <1>3, <1>4 DEF V!fork
<1> HIDE DEF K
<1>8. CASE V!Panics(V!PagesOf(B) + 1, "")
  <2>1. V!PagesOf(B) + 1 \in Nat
    BY <1>6
  <2> QED
    BY <1>8, <2>1, VmPanics
<1>9. CASE /\ V!kalloc(V!PagesOf(B) + 1)
           /\ space' = [space EXCEPT ![q] = B]
           /\ kstack' = [kstack EXCEPT ![q] = TRUE]
           /\ vstate' = [vstate EXCEPT ![q] = "run"]
           /\ sz' = [sz EXCEPT ![q] = sz[p]]
           /\ UNCHANGED <<new, newsz, vpanic>>
  <2>1. space[q] = V!NoSpace /\ new[q] = V!NoSpace /\ ~kstack[q]
    BY <1>1 DEF VmInv, StatesAt
  <2>2. nfree \in Nat /\ nfree >= V!PagesOf(B) + 1 /\ nfree' = nfree - (V!PagesOf(B) + 1)
    BY <1>9 DEF V!kalloc, VmInv, VmTypes
  <2>3. VmTypes'
    <3>1. nfree' \in Nat
      BY <1>6, <2>2
    <3> QED
      BY <1>2, <1>5, <1>9, <3>1 DEF VmInv, VmTypes
  <2>4. space'[q] = B /\ sz'[q] = sz[p] /\ kstack'[q] /\ vstate'[q] = "run" /\ new'[q] = V!NoSpace
    BY <1>9, <2>1 DEF VmInv, VmTypes
  <2>5. Exact(B, sz[p])
    BY <1>2, <1>3, <1>5 DEF Exact
  <2>6. StatesAt(q)' /\ SizesAt(q)'
    BY <2>4, <2>5 DEF StatesAt, SizesAt
  <2>7. nfree' + V!UsedBy(q)' = nfree + V!UsedBy(q)
    <3>1. V!UsedBy(q) = 0 /\ V!UsedBy(q)' = V!PagesOf(B) + 0 + 1
      BY <2>1, <2>4, SpacePages DEF V!UsedBy
    <3> QED
      BY <1>6, <2>2, <3>1
  <2>8. \A r1 \in VProc \ {q} :
          UNCHANGED <<vstate[r1], kstack[r1], space[r1], sz[r1], new[r1], newsz[r1]>>
    BY <1>9 DEF VmInv, VmTypes
  <2> QED
    BY <1>9, <2>3, <2>6, <2>7, <2>8, VmInvAt
<1> QED
  BY <1>7, <1>8, <1>9

(* A finite set of numbers has a greatest one. *)
LEMMA GreatestNumber ==
  ASSUME NEW S \in SUBSET Int, IsFiniteSet(S), S # {}
  PROVE  \E m \in S : \A x \in S : x <= m
PROOF
<1> DEFINE bad == {s \in SUBSET S : s # {} /\ ~ \E m \in s : \A x \in s : x <= m}
<1> SUFFICES ASSUME bad # {} PROVE FALSE
  OBVIOUS
<1>1. PICK s \in bad : \A t \in bad : Cardinality(s) <= Cardinality(t)
  BY SmallestSubset
<1>2. PICK x \in s : TRUE
  OBVIOUS
<1>3. Cardinality(s) \in Nat /\ Cardinality(s \ {x}) = Cardinality(s) - 1
  BY <1>2, FS_Subset, FS_CardinalityType, FS_RemoveElement
<1>4. s \ {x} \notin bad
  <2> HIDE DEF bad
  <2>1. s \ {x} \in bad => Cardinality(s) <= Cardinality(s \ {x})
    BY <1>1
  <2> QED
    BY <1>3, <2>1
<1>5. CASE s \ {x} = {}
  BY <1>5
<1>6. CASE s \ {x} # {}
  <2>1. PICK m \in s \ {x} : \A y \in s \ {x} : y <= m
    BY <1>4, <1>6
  <2>2. CASE x <= m
    BY <2>1, <2>2
  <2>3. CASE m <= x
    BY <2>1, <2>3
  <2> QED
    BY <2>2, <2>3
<1> QED
  BY <1>5, <1>6

(* exec's image reaches up to the stack, and its size tells what it maps. *)
LEMMA VmExecLoad ==
  ASSUME VmInv, NEW p \in VProc, NEW segs \in Program, V!exec_load(p, segs)
  PROVE  VmInv'
PROOF
<1>1. PICK end : end = V!Max({PGSIZE} \cup segs)
  OBVIOUS
<1>2. end \in Nat /\ end >= PGSIZE
  <2>1. PICK S : S = {PGSIZE} \cup segs
    OBVIOUS
  <2>2. S \in SUBSET Int /\ S \subseteq Nat /\ IsFiniteSet(S) /\ PGSIZE \in S
    <3>1. IsFiniteSet({PGSIZE}) /\ IsFiniteSet(segs)
      BY VmAssumption, FS_Singleton
    <3>2. IsFiniteSet(S)
      BY <2>1, <3>1, FS_Union
    <3> QED
      BY <2>1, <3>2, VmAssumption
  <2>3. \E m \in S : \A x \in S : x <= m
    BY <2>2, GreatestNumber
  <2>4. V!Max(S) \in S /\ \A x \in S : V!Max(S) >= x
    <3>1. \E m \in S : \A x \in S : m >= x
      BY <2>2, <2>3
    <3> QED
      BY <3>1 DEF V!Max
  <2> QED
    BY <1>1, <2>1, <2>2, <2>4
<1>3. PICK top : top = V!PGROUNDUP(end)
  OBVIOUS
<1>4. /\ top \in Nat /\ top >= 1
      /\ \A k \in Int : top <= k <=> end <= k * PGSIZE
  <2>1. top \in Nat /\ \A k \in Int : top <= k <=> end <= k * PGSIZE
    BY <1>2, <1>3, RoundUp
  <2>2. 0 * PGSIZE = 0
    BY VmAssumption
  <2> QED
    BY <1>2, <2>1, <2>2, VmAssumption
<1>5. PICK full \in Int : full = (top + 2) * PGSIZE
  BY <1>4, VmAssumption
<1>6. PICK K : K = V!Added(PGSIZE, end) \cup {top, top + 1}
  OBVIOUS
<1>7. PICK B : B = [V!setupkvm(K) EXCEPT !.guard = top]
  OBVIOUS
<1>8. V!Runs(p) /\ full < KERNBASE
  BY <1>1, <1>3, <1>5 DEF V!exec_load
<1>9. \/ V!Panics(V!PagesOf(B), "")
      \/ /\ V!kalloc(V!PagesOf(B))
         /\ new' = [new EXCEPT ![p] = B]
         /\ newsz' = [newsz EXCEPT ![p] = full]
         /\ UNCHANGED <<vstate, kstack, space, sz, vpanic>>
  BY <1>1, <1>3, <1>5, <1>6, <1>7 DEF V!exec_load
<1>10. \A k \in Nat : k * PGSIZE < full <=> k < top + 2
  BY <1>4, <1>5, VmAssumption, Product
<1>11. top \in V!Index /\ top + 1 \in V!Index
  <2>1. top * PGSIZE < full /\ (top + 1) * PGSIZE < full
    BY <1>4, <1>10
  <2>2. top * PGSIZE \in Int /\ (top + 1) * PGSIZE \in Int
    BY <1>4, VmAssumption
  <2> QED
    BY <1>4, <1>5, <1>8, <2>1, <2>2, VmAssumption, Indices
<1>12. K = Below(full)
  <2>1. PICK A : A = V!NoSpace
    OBVIOUS
  <2>2. V!Added(PGSIZE, end) = {k \in V!Index : PGSIZE <= k * PGSIZE /\ k * PGSIZE < end}
    BY <1>2, <2>1, PageSets, SpacePages, VmAssumption
  <2>3. V!Index \subseteq Nat
    BY Indices
  <2>4. \A k \in V!Index : PGSIZE <= k * PGSIZE <=> 1 <= k
    <3>1. V!PGROUNDUP(PGSIZE) = 1
      <4>1. V!PGROUNDUP(PGSIZE) \in Nat /\ V!PGROUNDUP(PGSIZE) <= 1
            /\ ~ (V!PGROUNDUP(PGSIZE) <= 0)
        <5>1. 1 * PGSIZE = PGSIZE /\ 0 * PGSIZE = 0
          BY VmAssumption
        <5> QED
          BY <5>1, RoundUp, VmAssumption
      <4> QED
        BY <4>1
    <3> QED
      BY <2>3, <3>1, RoundUp, VmAssumption
  <2>5. \A k \in V!Index : k * PGSIZE < end <=> k < top
    <3>1. \A k \in V!Index : k \in Int /\ k * PGSIZE \in Int
      BY <2>3, VmAssumption
    <3> QED
      BY <1>2, <1>4, <3>1
  <2>6. V!Added(PGSIZE, end) = {k \in V!Index : 1 <= k /\ k < top}
    BY <2>2, <2>4, <2>5
  <2>7. Below(full) = {k \in V!Index : 1 <= k /\ k < top + 2}
    BY <1>10, <2>3 DEF Below
  <2>8. \A k \in Nat : k < top + 2 <=> k < top \/ k = top \/ k = top + 1
    BY <1>4
  <2>9. \A k : k \in K <=> k \in V!Index /\ 1 <= k /\ (k < top \/ k = top \/ k = top + 1)
    <3>1. 1 <= top /\ 1 <= top + 1
      BY <1>4
    <3> QED
      BY <1>6, <1>11, <2>6, <3>1
  <2>10. \A k : k \in Below(full) <=> k \in V!Index /\ 1 <= k /\ k < top + 2
    BY <2>7
  <2>11. \A k : k \in K <=> k \in Below(full)
    BY <2>3, <2>8, <2>9, <2>10
  <2> QED
    BY <2>11
<1>13. B \in Space /\ B.map = K /\ B.guard = top /\ top \in K
  <2>1. K \in SUBSET V!Index
    BY <1>12 DEF Below
  <2>2. V!setupkvm(K) \in Space /\ V!setupkvm(K).map = K
    BY <2>1, SetupPages
  <2> QED
    BY <1>6, <1>7, <1>11, <2>2 DEF Space
<1>14. V!PagesOf(B) \in Nat
  BY <1>13, SpacePages
<1>15. CASE V!Panics(V!PagesOf(B), "")
  BY <1>14, <1>15, VmPanics
<1>16. CASE /\ V!kalloc(V!PagesOf(B))
            /\ new' = [new EXCEPT ![p] = B]
            /\ newsz' = [newsz EXCEPT ![p] = full]
            /\ UNCHANGED <<vstate, kstack, space, sz, vpanic>>
  <2>1. /\ space[p] \in Space /\ vstate[p] = "run" /\ kstack[p] /\ new[p] = V!NoSpace
    BY <1>8, RunsExact
  <2>2. nfree \in Nat /\ nfree >= V!PagesOf(B) /\ nfree' = nfree - V!PagesOf(B)
    BY <1>16 DEF V!kalloc, VmInv, VmTypes
  <2>3. full \in Nat
    BY <1>4, <1>5, VmAssumption
  <2>4. VmTypes'
    <3>1. nfree' \in Nat
      BY <1>14, <2>2
    <3> QED
      BY <1>13, <1>16, <2>3, <3>1 DEF VmInv, VmTypes
  <2>5. new'[p] = B /\ newsz'[p] = full
    BY <1>16 DEF VmInv, VmTypes
  <2>6. Exact(B, full)
    <3>1. full <= KERNBASE + 2 * PGSIZE
      BY <1>5, <1>8, VmAssumption
    <3> QED
      BY <1>12, <1>13, <3>1 DEF Exact
  <2>7. StatesAt(p)' /\ SizesAt(p)'
    BY <1>16, <2>1, <2>5, <2>6 DEF StatesAt, SizesAt, VmInv
  <2>8. nfree' + V!UsedBy(p)' = nfree + V!UsedBy(p)
    <3>1. V!PagesOf(space[p]) \in Nat
      BY <2>1, SpacePages
    <3>2. /\ V!UsedBy(p) = V!PagesOf(space[p]) + 0 + 1
          /\ V!UsedBy(p)' = V!PagesOf(space[p]) + V!PagesOf(B) + 1
      BY <1>16, <2>1, <2>5, SpacePages DEF V!UsedBy
    <3> QED
      BY <1>14, <2>2, <3>1, <3>2
  <2>9. \A q \in VProc \ {p} :
          UNCHANGED <<vstate[q], kstack[q], space[q], sz[q], new[q], newsz[q]>>
    BY <1>16 DEF VmInv, VmTypes
  <2> QED
    BY <1>16, <2>4, <2>7, <2>8, <2>9, VmInvAt
<1> QED
  BY <1>9, <1>15, <1>16

(* exec frees the address space it does not keep, the old or the new one. *)
LEMMA VmExecEnd ==
  ASSUME VmInv, NEW p \in VProc, V!exec_end(p)
  PROVE  VmInv'
PROOF
<1>1. /\ vstate[p] = "run" /\ new[p] # V!NoSpace
      /\ new' = [new EXCEPT ![p] = V!NoSpace] /\ newsz' = [newsz EXCEPT ![p] = 0]
      /\ UNCHANGED <<vstate, kstack, vpanic>>
  BY DEF V!exec_end
<1>2. /\ space[p] \in Space /\ new[p] \in Space /\ kstack[p] /\ nfree \in Nat
      /\ V!PagesOf(space[p]) \in Nat /\ V!PagesOf(new[p]) \in Nat
  BY <1>1, SpacePages DEF VmInv, VmTypes, StatesAt
<1>3. V!UsedBy(p) = V!PagesOf(space[p]) + V!PagesOf(new[p]) + 1
  BY <1>2 DEF V!UsedBy
<1>4. new'[p] = V!NoSpace /\ kstack'[p] /\ vstate'[p] = "run"
  BY <1>1, <1>2 DEF VmInv, VmTypes
<1>5. CASE /\ space' = [space EXCEPT ![p] = new[p]]
           /\ sz' = [sz EXCEPT ![p] = newsz[p]]
           /\ nfree' = nfree + V!PagesOf(space[p])
  <2>1. VmTypes'
    <3>1. nfree' \in Nat
      BY <1>2, <1>5
    <3> QED
      BY <1>1, <1>2, <1>5, <3>1, SpacePages DEF VmInv, VmTypes
  <2>2. space'[p] = new[p] /\ sz'[p] = newsz[p]
    BY <1>5 DEF VmInv, VmTypes
  <2>3. StatesAt(p)' /\ SizesAt(p)'
    BY <1>1, <1>4, <2>2 DEF StatesAt, SizesAt, VmInv
  <2>4. nfree' + V!UsedBy(p)' = nfree + V!UsedBy(p)
    <3>1. V!UsedBy(p)' = V!PagesOf(new[p]) + 0 + 1
      BY <1>4, <2>2, SpacePages DEF V!UsedBy
    <3> QED
      BY <1>2, <1>3, <1>5, <3>1
  <2>5. \A q \in VProc \ {p} :
          UNCHANGED <<vstate[q], kstack[q], space[q], sz[q], new[q], newsz[q]>>
    BY <1>1, <1>5 DEF VmInv, VmTypes
  <2> QED
    BY <1>1, <2>1, <2>3, <2>4, <2>5, VmInvAt
<1>6. CASE UNCHANGED <<space, sz>> /\ nfree' = nfree + V!PagesOf(new[p])
  <2>1. VmTypes'
    <3>1. nfree' \in Nat
      BY <1>2, <1>6
    <3> QED
      BY <1>1, <1>2, <1>6, <3>1, SpacePages DEF VmInv, VmTypes
  <2>3. StatesAt(p)' /\ SizesAt(p)'
    BY <1>1, <1>4, <1>6 DEF StatesAt, SizesAt, VmInv
  <2>4. nfree' + V!UsedBy(p)' = nfree + V!UsedBy(p)
    <3>1. V!UsedBy(p)' = V!PagesOf(space[p]) + 0 + 1
      BY <1>4, <1>6, SpacePages DEF V!UsedBy
    <3> QED
      BY <1>2, <1>3, <1>6, <3>1
  <2>5. \A q \in VProc \ {p} :
          UNCHANGED <<vstate[q], kstack[q], space[q], sz[q], new[q], newsz[q]>>
    BY <1>1, <1>6 DEF VmInv, VmTypes
  <2> QED
    BY <1>1, <2>1, <2>3, <2>4, <2>5, VmInvAt
<1> QED
  BY <1>5, <1>6 DEF V!exec_end, V!kfree, V!freevm

(* exit keeps the pages, and wait frees them all. *)
LEMMA VmExit ==
  ASSUME VmInv, NEW p \in VProc, V!exit(p)
  PROVE  VmInv'
PROOF
<1>1. /\ vstate[p] = "run" /\ new[p] = V!NoSpace
      /\ vstate' = [vstate EXCEPT ![p] = "zombie"]
      /\ UNCHANGED <<nfree, kstack, space, sz, new, newsz, vpanic>>
  BY DEF V!exit
<1>2. VmTypes'
  BY <1>1 DEF VmInv, VmTypes
<1>3. vstate'[p] = "zombie" /\ kstack[p]
  BY <1>1 DEF VmInv, VmTypes, StatesAt
<1>4. StatesAt(p)' /\ SizesAt(p)'
  BY <1>1, <1>3 DEF StatesAt, SizesAt
<1>5. V!UsedBy(p)' = V!UsedBy(p)
  BY <1>1 DEF V!UsedBy
<1>6. \A q \in VProc \ {p} :
        UNCHANGED <<vstate[q], kstack[q], space[q], sz[q], new[q], newsz[q]>>
  BY <1>1 DEF VmInv, VmTypes
<1> QED
  BY <1>1, <1>2, <1>4, <1>5, <1>6, VmInvAt

(* wait frees the stack and the memory of a zombie. *)
LEMMA VmWait ==
  ASSUME VmInv, NEW p \in VProc, V!wait(p)
  PROVE  VmInv'
PROOF
<1>1. /\ vstate[p] = "zombie" /\ nfree' = nfree + (V!PagesOf(space[p]) + 1)
      /\ kstack' = [kstack EXCEPT ![p] = FALSE]
      /\ space' = [space EXCEPT ![p] = V!NoSpace]
      /\ sz' = [sz EXCEPT ![p] = 0]
      /\ vstate' = [vstate EXCEPT ![p] = "unused"]
      /\ UNCHANGED <<new, newsz, vpanic>>
  BY DEF V!wait, V!kfree, V!freevm
<1>2. nfree \in Nat /\ V!PagesOf(space[p]) \in Nat /\ kstack[p] /\ new[p] = V!NoSpace
  BY <1>1, SpacePages DEF VmInv, VmTypes, StatesAt
<1>3. VmTypes'
  <2>1. nfree' \in Nat
    BY <1>1, <1>2
  <2> QED
    BY <1>1, <2>1, SpacePages DEF VmInv, VmTypes
<1>4. vstate'[p] = "unused" /\ ~kstack'[p] /\ space'[p] = V!NoSpace /\ new'[p] = V!NoSpace
  BY <1>1, <1>2 DEF VmInv, VmTypes
<1>5. StatesAt(p)' /\ SizesAt(p)'
  BY <1>4 DEF StatesAt, SizesAt
<1>6. nfree' + V!UsedBy(p)' = nfree + V!UsedBy(p)
  <2>1. V!UsedBy(p) = V!PagesOf(space[p]) + 0 + 1 /\ V!UsedBy(p)' = 0
    BY <1>2, <1>4, SpacePages DEF V!UsedBy
  <2> QED
    BY <1>1, <1>2, <2>1
<1>7. \A q \in VProc \ {p} :
        UNCHANGED <<vstate[q], kstack[q], space[q], sz[q], new[q], newsz[q]>>
  BY <1>1 DEF VmInv, VmTypes
<1> QED
  BY <1>1, <1>3, <1>5, <1>6, <1>7, VmInvAt

(* Every step of the memory keeps the invariant. *)
LEMMA VmStep ==
  ASSUME VmInv, [V!Next]_vmvars
  PROVE  VmInv'
PROOF
<1>1. CASE UNCHANGED vmvars
  BY <1>1 DEF vmvars, VmInv, VmTypes, StatesAt, SizesAt, PagesConserved, V!PagesConserved,
              V!UsedBy
<1>2. ASSUME NEW p \in VProc, NEW n \in Delta, V!grow(p, n) \/ V!shrink(p, n) PROVE VmInv'
  BY <1>2, VmAssumption, VmGrow, VmShrink
<1>3. ASSUME NEW p \in VProc, NEW q \in VProc, V!fork(p, q) PROVE VmInv'
  BY <1>3, VmFork
<1>4. ASSUME NEW p \in VProc, NEW segs \in Program, V!exec_load(p, segs) PROVE VmInv'
  BY <1>4, VmExecLoad
<1>5. ASSUME NEW p \in VProc, V!exec_end(p) \/ V!exit(p) \/ V!wait(p) PROVE VmInv'
  BY <1>5, VmExecEnd, VmExit, VmWait
<1> QED
  BY <1>1, <1>2, <1>3, <1>4, <1>5 DEF V!Next, vmvars

(* userinit *)
LEMMA VmInit == V!Init => VmInv
PROOF
<1> SUFFICES ASSUME V!Init PROVE VmInv
  OBVIOUS
<1>1. PICK B : B = V!setupkvm({1})
  OBVIOUS
<1>2. PICK i : i = V!initproc
  OBVIOUS
<1>3. i \in VProc
  BY <1>2, VmAssumption DEF V!initproc
<1>4. B \in Space /\ B.map = {1} /\ B.guard = 0 /\ V!PagesOf(B) = LEVELS + 2
  <2>1. {1} \in SUBSET V!Index /\ {1} # {}
    BY Indices
  <2>2. B \in Space /\ B.map = {1} /\ B.guard = 0 /\ B.pml4 = 1 /\ B.tables = LEVELS
    BY <1>1, <2>1, SetupPages
  <2>3. Cardinality({1}) = 1
    BY FS_Singleton
  <2>4. V!PagesOf(B) = 1 + LEVELS + 1
    BY <2>2, <2>3, VmCounts DEF V!PagesOf
  <2> QED
    BY <2>2, <2>4, VmAssumption
<1>5. /\ nfree = NPAGES - V!PagesOf(B) - 1
      /\ vstate = [p \in VProc |-> IF p = i THEN "run" ELSE "unused"]
      /\ kstack = [p \in VProc |-> p = i]
      /\ space = [p \in VProc |-> IF p = i THEN B ELSE V!NoSpace]
      /\ sz = [p \in VProc |-> IF p = i THEN 2 * PGSIZE ELSE 0]
      /\ new = [p \in VProc |-> V!NoSpace]
      /\ newsz = [p \in VProc |-> 0]
      /\ vpanic = ""
  BY <1>1, <1>2 DEF V!Init
<1>6. nfree \in Nat
  <2>1. NPAGES \in Nat /\ LEVELS \in Nat /\ NPAGES >= LEVELS + 3
    BY VmAssumption
  <2>2. nfree = NPAGES - (LEVELS + 2) - 1
    BY <1>4, <1>5
  <2> QED
    BY <2>1, <2>2
<1>7. VmTypes
  <2>1. 2 * PGSIZE \in Nat
    BY VmAssumption
  <2> QED
    BY <1>4, <1>5, <1>6, <2>1, SpacePages DEF VmTypes
<1>8. ASSUME NEW p \in VProc PROVE StatesAt(p)
  BY <1>5 DEF StatesAt
<1>9. Exact(B, 2 * PGSIZE)
  <2>1. Below(2 * PGSIZE) = {1}
    <3>1. \A k \in Nat : k * PGSIZE < 2 * PGSIZE <=> k < 2
      BY VmAssumption, Product
    <3>2. \A k \in Nat : 1 <= k /\ k < 2 <=> k = 1
      OBVIOUS
    <3> QED
      BY <3>1, <3>2, Indices DEF Below
  <2>2. 2 * PGSIZE <= KERNBASE + 2 * PGSIZE
    BY VmAssumption
  <2> QED
    BY <1>4, <2>1, <2>2 DEF Exact
<1>10. ASSUME NEW p \in VProc PROVE SizesAt(p)
  BY <1>5, <1>9 DEF SizesAt, V!NoSpace
<1>11. PagesConserved
  <2> DEFINE z == [p \in VProc |-> 0]
             f == [p \in VProc |-> V!UsedBy(p)]
  <2>1. V!PagesOf(B) \in Nat
    BY <1>4, SpacePages
  <2>2. \A p \in VProc : V!UsedBy(p) = IF p = i THEN V!PagesOf(B) + 1 ELSE 0
    <3> SUFFICES ASSUME NEW p \in VProc
                 PROVE  V!UsedBy(p) = IF p = i THEN V!PagesOf(B) + 1 ELSE 0
      OBVIOUS
    <3>1. CASE p = i
      <4>1. space[p] = B /\ new[p] = V!NoSpace /\ kstack[p]
        BY <1>5, <3>1
      <4>2. V!UsedBy(p) = V!PagesOf(B) + 0 + 1
        BY <4>1, SpacePages DEF V!UsedBy
      <4> QED
        BY <2>1, <3>1, <4>2
    <3>2. CASE p # i
      <4>1. space[p] = V!NoSpace /\ new[p] = V!NoSpace /\ ~kstack[p]
        BY <1>5, <3>2
      <4> QED
        BY <3>2, <4>1, SpacePages DEF V!UsedBy
    <3> QED
      BY <3>1, <3>2
  <2>3. z \in [VProc -> Int] /\ (\A p \in VProc : z[p] = 0)
    OBVIOUS
  <2>4. /\ f \in [VProc -> Int] /\ f[i] = V!PagesOf(B) + 1 /\ z[i] = 0
        /\ \A p \in VProc : p # i => f[p] = z[p]
    BY <1>3, <2>1, <2>2
  <2>5. (nfree + SumFunction(f) = NPAGES) => PagesConserved
    BY VmSums DEF PagesConserved, V!PagesConserved
  <2> HIDE DEF z, f
  <2>6. SumFunction(z) = 0
    BY <2>3, SumOfZeros, VmAssumption
  <2>7. SumFunction(f) = SumFunction(z) - z[i] + f[i]
    BY <1>3, <2>3, <2>4, SumChanges, VmAssumption
  <2>8. PICK n \in Nat : n = V!PagesOf(B)
    BY <2>1
  <2>9. nfree = NPAGES - n - 1 /\ NPAGES \in Nat
    BY <1>5, <2>8, VmAssumption
  <2>10. SumFunction(f) = n + 1
    BY <2>4, <2>6, <2>7, <2>8
  <2> QED
    BY <2>5, <2>9, <2>10
<1> QED
  BY <1>5, <1>7, <1>8, <1>10, <1>11 DEF VmInv

(* For every number of processes and pages and every size of a page: fork, *)
(* sbrk, exec, failed exec, exit and wait neither lose a page nor free one *)
(* twice (kalloc.c, vm.c, exec.c).                                         *)
THEOREM PagesNeverLost == VmSpec => []PagesConserved
PROOF
<1>1. VmInv => PagesConserved
  BY DEF VmInv
<1> QED
  BY <1>1, VmInit, VmStep, PTL DEF VmSpec

(* For every number of processes and pages and every size of a page:       *)
(* proc->sz tells what is mapped, so that what fetchaddr accepts is safe   *)
(* to use, and what argptr accepts of pointers of one word but for the     *)
(* first page; and neither mappages nor copyuvm panics (vm.c, syscall.c).  *)
THEOREM SizesTellMapped == VmSpec => []SizeMapped
PROOF
<1>1. VmInv => SizeMapped
  <2> SUFFICES ASSUME VmInv PROVE SizeMapped
    OBVIOUS
  <2>1. ASSUME NEW p \in VProc, V!Runs(p), NEW a \in 0..sz[p], NEW n \in 1..sz[p],
               a + n <= sz[p]
        PROVE  /\ V!Pages(a, n) \subseteq space[p].map \cup {0}
               /\ a >= PGSIZE => V!Pages(a, n) \subseteq space[p].map
    <3> SUFFICES ASSUME NEW k \in V!Pages(a, n)
                 PROVE  /\ k \in space[p].map \cup {0}
                        /\ a >= PGSIZE => k \in space[p].map
      OBVIOUS
    <3>1. PICK m \in Nat \ {0} : m = PGSIZE
      BY VmAssumption
    <3>3. sz[p] \in Nat /\ space[p].map = Below(sz[p]) /\ sz[p] <= KERNBASE + 2 * m
      BY <2>1, <3>1, RunsExact
    <3>2. a \in Nat /\ a + n - 1 \in Nat
      BY <3>3
    <3>4. a + n <= sz[p]
      BY <2>1
    <3>5. PICK q \in Nat : q = a \div m /\ q * m <= a /\ a < q * m + m
      BY <3>2, Divided
    <3>6. PICK t \in Nat : t = (a + n - 1) \div m /\ t * m <= a + n - 1
      BY <3>2, Divided
    <3>7. k \in Nat /\ q <= k /\ k <= t
      BY <3>1, <3>5, <3>6 DEF V!Pages
    <3>8. k * m \in Int /\ t * m \in Int /\ k * m <= t * m
      BY <3>6, <3>7, Product
    <3>9. k * m < sz[p]
      BY <3>2, <3>3, <3>4, <3>6, <3>8
    <3>10. a >= m => q # 0
      <4>1. 0 * m = 0
        OBVIOUS
      <4> QED
        BY <3>2, <3>5, <4>1
    <3>11. k \in V!Index
      BY <3>1, <3>3, <3>7, <3>8, <3>9, Indices, VmAssumption
    <3>12. k # 0 => k \in space[p].map
      BY <3>1, <3>3, <3>7, <3>9, <3>11 DEF Below
    <3> QED
      BY <3>1, <3>7, <3>10, <3>12
  <2>2. ASSUME NEW p \in VProc, V!Runs(p)
        PROVE  /\ \A k \in space[p].map : 1 <= k /\ k * PGSIZE < sz[p]
               /\ space[p].guard # 0 => space[p].guard \in space[p].map
    BY <2>2, RunsExact DEF Below
  <2> QED
    <3>1. ASSUME NEW p \in VProc, V!Runs(p), NEW i \in {j \in 0..sz[p] : j < WORD},
                 NEW n \in 1..sz[p]
          PROVE  /\ V!fetchaddr(p, i, n) => V!Pages(i, n) \subseteq space[p].map
                 /\ V!argptr(p, i, n) => V!Pages(i, n) \subseteq space[p].map \cup {0}
      <4>1. i % WORD = i
        <5>1. PICK m \in Nat \ {0} : m = WORD
          BY VmAssumption
        <5>2. i \in Nat /\ i < m
          BY <3>1, <5>1, RunsExact
        <5> QED
          BY <5>1, <5>2
      <4> QED
        BY <2>1, <3>1, <4>1 DEF V!fetchaddr, V!argptr
    <3>2. vpanic \notin {"remap", "copyuvm: page not present"}
      BY Zenon DEF VmInv
    <3> QED
      BY <2>2, <3>1, <3>2, Zenon DEF SizeMapped, V!SizeMapped
<1> QED
  BY <1>1, VmInit, VmStep, PTL DEF VmSpec

-----------------------------------------------------------------------------
(* The clock and the console's input. *)

ConsoleNext == C!InputNext \/ C!ClockNext
ConsoleSpec == C!Init /\ [][ConsoleNext]_consvars

(* The remainder of a number between -m and 2m. *)
LEMMA Wrapped ==
  ASSUME NEW m \in Nat \ {0}, NEW x \in Int, -m <= x, x < 2 * m
  PROVE  /\ x % m \in 0..m - 1
         /\ x % m = IF x < 0 THEN x + m ELSE IF x < m THEN x ELSE x - m
PROOF
  OBVIOUS

(* Ticks that wrap are apart as many as were counted, up to one turn. *)
LEMMA TicksApart ==
  ASSUME NEW m \in Nat \ {0}, NEW s \in 0..m - 1, NEW a \in 0..m - 1, NEW b \in 0..a
  PROVE  (((s + a) % m) - ((s + b) % m)) % m = a - b
PROOF
<1>1. (s + a) % m = IF s + a < m THEN s + a ELSE s + a - m
  <2>1. PICK x \in Int : x = s + a /\ -m <= x /\ x < 2 * m
    OBVIOUS
  <2>2. x % m = IF x < 0 THEN x + m ELSE IF x < m THEN x ELSE x - m
    BY <2>1, Wrapped
  <2> QED
    BY <2>1, <2>2
<1>2. (s + b) % m = IF s + b < m THEN s + b ELSE s + b - m
  <2>1. PICK x \in Int : x = s + b /\ -m <= x /\ x < 2 * m
    OBVIOUS
  <2>2. x % m = IF x < 0 THEN x + m ELSE IF x < m THEN x ELSE x - m
    BY <2>1, Wrapped
  <2> QED
    BY <2>1, <2>2
<1> DEFINE d == ((s + a) % m) - ((s + b) % m)
<1>3. d = a - b \/ d = a - b - m
  BY <1>1, <1>2
<1>4. d \in Int /\ -m <= d /\ d < 2 * m
  BY <1>3
<1>5. d % m = IF d < 0 THEN d + m ELSE IF d < m THEN d ELSE d - m
  <2> HIDE DEF d
  <2> QED
    BY <1>4, Wrapped
<1> QED
  BY <1>3, <1>5

(* How long p has slept, and what it asked for. *)
SleptFor(p) == nticks - sleeper[p].since
AskedFor(p) == IF sleeper[p].n < 0 THEN UINT + sleeper[p].n ELSE sleeper[p].n

Asleep == {"idle", "test", "presleep", "asleep", "returned"}
ClockInv ==
  /\ nticks \in 0..MaxTicks
  /\ ticks = (Start + nticks) % UINT
  /\ sleeper \in [Sleeper -> [at : Asleep, n : Int, ticks0 : Int, since : Int]]
  /\ \A p \in Sleeper : sleeper[p].at # "idle" =>
       /\ sleeper[p].n \in Nap
       /\ sleeper[p].since \in 0..nticks
       /\ sleeper[p].ticks0 = (Start + sleeper[p].since) % UINT
       /\ sleeper[p].at \in {"presleep", "asleep"} => SleptFor(p) < AskedFor(p)
       /\ sleeper[p].at = "returned" => SleptFor(p) >= AskedFor(p)

(* The test of sys_sleep, on unsigned integers, is the one meant. *)
LEMMA ElapsedIs ==
  ASSUME ClockInv, NEW p \in Sleeper, sleeper[p].at # "idle"
  PROVE  C!Elapsed(p) <=> SleptFor(p) >= AskedFor(p)
PROOF
<1>1. PICK a \in 0..UINT - 1 : a = nticks /\ sleeper[p].since \in 0..a
  BY ConsoleAssumption DEF ClockInv
<1>0. PICK b \in 0..a : b = sleeper[p].since
  BY <1>1
<1>2. (ticks - sleeper[p].ticks0) % UINT = a - b
  <2>1. ticks = (Start + a) % UINT /\ sleeper[p].ticks0 = (Start + b) % UINT
    BY <1>0, <1>1 DEF ClockInv
  <2>2. UINT \in Nat \ {0} /\ Start \in 0..UINT - 1
    BY ConsoleAssumption
  <2> QED
    BY <1>0, <2>1, <2>2, TicksApart, ZenonT(60)
<1>3. PICK n \in Int : n = sleeper[p].n /\ -UINT < n /\ n < UINT
  BY ConsoleAssumption DEF ClockInv
<1>4. n % UINT = AskedFor(p)
  <2>1. UINT \in Nat \ {0} /\ -UINT <= n /\ n < 2 * UINT
    BY <1>3, ConsoleAssumption
  <2>2. n % UINT = IF n < 0 THEN n + UINT ELSE IF n < UINT THEN n ELSE n - UINT
    BY <2>1, Wrapped
  <2> QED
    BY <1>3, <2>1, <2>2 DEF AskedFor
<1>5. C!Plus(ticks, -sleeper[p].ticks0) = (ticks - sleeper[p].ticks0) % UINT
  <2>1. ticks \in Int /\ sleeper[p].ticks0 \in Int
    BY ConsoleAssumption DEF ClockInv
  <2>2. ticks + (-sleeper[p].ticks0) = ticks - sleeper[p].ticks0
    BY <2>1
  <2> QED
    BY <2>2 DEF C!Plus
<1>6. C!Plus(sleeper[p].n, 0) = n % UINT
  BY <1>3 DEF C!Plus
<1> QED
  BY <1>0, <1>1, <1>2, <1>4, <1>5, <1>6 DEF C!Elapsed, SleptFor

(* ClockInv is inductive. *)
LEMMA ClockStep ==
  ASSUME ClockInv, [ConsoleNext]_consvars
  PROVE  ClockInv'
PROOF
<1>1. CASE C!trap_timer
  <2>1. nticks' = nticks + 1 /\ nticks' \in 0..MaxTicks
    BY <1>1, ConsoleAssumption DEF C!trap_timer, ClockInv
  <2>2. ticks' = (Start + nticks') % UINT
    <3>1. PICK a \in Nat : a = Start + nticks
      BY ConsoleAssumption DEF ClockInv
    <3>2. ticks' = ((a % UINT) + 1) % UINT
      BY <1>1, <3>1 DEF C!trap_timer, C!Plus, ClockInv
    <3>3. UINT \in Nat \ {0} /\ a < 2 * UINT - 1
      BY <3>1, ConsoleAssumption DEF ClockInv
    <3>4. PICK c \in Nat : c = a % UINT /\ c = IF a < UINT THEN a ELSE a - UINT
      <4>1. PICK x \in Int : x = a /\ -UINT <= x /\ x < 2 * UINT
        BY <3>3
      <4>2. x % UINT = IF x < 0 THEN x + UINT ELSE IF x < UINT THEN x ELSE x - UINT
        BY <3>3, <4>1, Wrapped
      <4> QED
        BY <3>3, <4>1, <4>2
    <3>5. (c + 1) % UINT = IF c + 1 < UINT THEN c + 1 ELSE c + 1 - UINT
      <4>1. PICK x \in Int : x = c + 1 /\ -UINT <= x /\ x < 2 * UINT
        BY <3>3, <3>4
      <4>2. x % UINT = IF x < 0 THEN x + UINT ELSE IF x < UINT THEN x ELSE x - UINT
        BY <3>3, <4>1, Wrapped
      <4> QED
        BY <3>3, <3>4, <4>1, <4>2
    <3>6. (a + 1) % UINT = IF a + 1 < UINT THEN a + 1 ELSE a + 1 - UINT
      <4>1. PICK x \in Int : x = a + 1 /\ -UINT <= x /\ x < 2 * UINT
        BY <3>3
      <4>2. x % UINT = IF x < 0 THEN x + UINT ELSE IF x < UINT THEN x ELSE x - UINT
        BY <3>3, <4>1, Wrapped
      <4> QED
        BY <3>3, <3>4, <4>1, <4>2
    <3>7. (c + 1) % UINT = (a + 1) % UINT
      BY <3>3, <3>4, <3>5, <3>6
    <3>8. Start + nticks' = a + 1
      BY <2>1, <3>1, ConsoleAssumption DEF ClockInv
    <3> QED
      BY <3>2, <3>4, <3>7, <3>8
  <2>3. sleeper' = C!SleepersWoken /\ \A p \in Sleeper : sleeper[p].at # "presleep"
    BY <1>1 DEF C!trap_timer, C!TicksFree
  <2>4. \A p \in Sleeper : sleeper'[p] = sleeper[p]
            \/ sleeper'[p] = [sleeper[p] EXCEPT !.at = "test"]
    BY <2>3 DEF C!SleepersWoken
  <2>5. \A p \in Sleeper : sleeper'[p].at \notin {"presleep", "asleep"}
    BY <2>3 DEF C!SleepersWoken, ClockInv
  <2>6. sleeper' \in [Sleeper -> [at : Asleep, n : Int, ticks0 : Int, since : Int]]
    BY <2>3 DEF C!SleepersWoken, ClockInv, Asleep
  <2>7. ASSUME NEW p \in Sleeper, sleeper'[p].at # "idle"
        PROVE  /\ sleeper'[p].n \in Nap
               /\ sleeper'[p].since \in 0..nticks'
               /\ sleeper'[p].ticks0 = (Start + sleeper'[p].since) % UINT
               /\ sleeper'[p].at = "returned" => SleptFor(p)' >= AskedFor(p)'
    <3>1. /\ sleeper[p].at # "idle" /\ sleeper'[p].n = sleeper[p].n
          /\ sleeper'[p].since = sleeper[p].since /\ sleeper'[p].ticks0 = sleeper[p].ticks0
          /\ sleeper'[p].at = "returned" => sleeper[p].at = "returned"
      BY <2>3, <2>7 DEF C!SleepersWoken, ClockInv
    <3>2. UINT \in Nat /\ nticks \in Nat /\ sleeper[p].n \in Int /\ sleeper[p].since \in Int
      BY ConsoleAssumption DEF ClockInv
    <3> QED
      BY <2>1, <3>1, <3>2 DEF ClockInv, SleptFor, AskedFor
  <2> QED
    BY <2>1, <2>2, <2>5, <2>6, <2>7 DEF ClockInv
<1>2. ASSUME NEW p \in Sleeper, C!sys_sleep(p)
      PROVE  ClockInv'
  <2>1. C!Elapsed(p) <=> SleptFor(p) >= AskedFor(p)
    BY <1>2, ElapsedIs DEF C!sys_sleep
  <2>2. SleptFor(p) \in Int /\ AskedFor(p) \in Int
    BY <1>2, ConsoleAssumption DEF ClockInv, SleptFor, AskedFor, C!sys_sleep
  <2>3. /\ nticks' = nticks /\ ticks' = ticks
        /\ \A q \in Sleeper \ {p} : sleeper'[q] = sleeper[q]
        /\ sleeper' \in [Sleeper -> [at : Asleep, n : Int, ticks0 : Int, since : Int]]
    BY <1>2 DEF C!sys_sleep, ClockInv, C!Awake, Asleep
  <2>4. \/ sleeper'[p].at = "idle"
        \/ /\ sleeper[p].at # "idle" /\ sleeper'[p].n = sleeper[p].n
           /\ sleeper'[p].since = sleeper[p].since /\ sleeper'[p].ticks0 = sleeper[p].ticks0
           /\ IF SleptFor(p) >= AskedFor(p) THEN sleeper'[p].at = "returned"
              ELSE sleeper'[p].at = "presleep"
    BY <1>2, <2>1 DEF C!sys_sleep, ClockInv, C!Awake
  <2> QED
    BY <2>2, <2>3, <2>4 DEF ClockInv, SleptFor, AskedFor
<1>3. ASSUME NEW p \in Sleeper, C!sys_sleep_sleep(p) \/ C!sys_sleep_return(p)
      PROVE  ClockInv'
  BY <1>3
     DEF C!sys_sleep_sleep, C!sys_sleep_return, ClockInv, C!Awake, Asleep, SleptFor, AskedFor
<1>4. ASSUME NEW p, C!kill(p)
      PROVE  ClockInv'
  BY <1>4 DEF C!kill, ClockInv, C!SleepersWoken, Asleep, SleptFor, AskedFor
<1>5. ASSUME NEW p \in Sleeper, NEW n \in Nap, C!sys_sleep_call(p, n)
      PROVE  ClockInv'
  <2>1. n \in Int /\ ticks \in Int /\ nticks \in Nat
    BY ConsoleAssumption DEF ClockInv
  <2> QED
    BY <1>5, <2>1 DEF C!sys_sleep_call, ClockInv, Asleep, SleptFor, AskedFor
<1>6. CASE UNCHANGED <<ticks, sleeper, nticks>>
  BY <1>6 DEF ClockInv, SleptFor, AskedFor
<1>7. C!InputNext => UNCHANGED <<ticks, sleeper, nticks>> \/ \E p \in Reader : C!kill(p)
  BY DEF C!InputNext, C!kvars, C!consoleintr, C!consoleread, C!consoleread_sleep,
     C!consoleread_call
<1> QED
  BY <1>1, <1>2, <1>3, <1>4, <1>5, <1>6, <1>7 DEF ConsoleNext, C!ClockNext, C!kvars, consvars

-----------------------------------------------------------------------------
(* The indices of the console's input buffer. *)

(* Division with remainder. *)
LEMMA DivMod ==
  ASSUME NEW x \in Nat, NEW m \in Nat \ {0}
  PROVE  /\ x \div m \in Nat
         /\ x % m \in 0..m - 1
         /\ x = (m * (x \div m)) + (x % m)
PROOF
  OBVIOUS

(* Two numbers closer than m have different remainders. *)
LEMMA RemainderUnique ==
  ASSUME NEW a \in Nat, NEW b \in Nat, NEW m \in Nat \ {0},
         a <= b, b < a + m, a % m = b % m
  PROVE  a = b
PROOF
<1> DEFINE p == a \div m
           q == b \div m
           c == a % m
<1>1. p \in Nat /\ c \in Nat /\ a = m * p + c
  <2>1. p \in Nat /\ c \in 0..m - 1 /\ a = m * p + c
    BY DivMod
  <2> QED
    BY <2>1
<1>2. q \in Nat /\ b = m * q + c
  BY DivMod
<1> HIDE DEF p, q, c
<1>3. b - a = m * (q - p)
  <2>1. m * (q - p) = m * q - m * p
    BY <1>1, <1>2
  <2> QED
    BY <1>1, <1>2, <2>1
<1>4. CASE q <= p
  BY <1>1, <1>2, <1>4
<1>5. CASE q >= p + 1
  <2>1. m * (q - p) >= m
    BY <1>1, <1>2, <1>5
  <2> QED
    BY <2>1, <1>1, <1>2, <1>3
<1> QED
  BY <1>1, <1>2, <1>4, <1>5

(* A wrap at a multiple of the buffer's size keeps the place in it. *)
LEMMA WrapKeepsPlace ==
  ASSUME NEW m \in Nat \ {0}, NEW u \in Nat \ {0}, u % m = 0, NEW x \in 0..2 * u - 1
  PROVE  (x % u) % m = x % m
PROOF
<1>1. CASE x < u
  BY <1>1
<1>2. CASE x >= u
  <2>1. x % u = x - u
    BY <1>2
  <2> DEFINE y == x - u
             d == u \div m
             q == y \div m
             c == y % m
  <2>2. y \in Nat /\ d \in Nat /\ u = m * d
    BY DivMod, <1>2
  <2>3. q \in Nat /\ c \in 0..m - 1 /\ y = m * q + c
    BY <2>2, DivMod
  <2> HIDE DEF y, d, q, c
  <2>4. x = m * (d + q) + c
    BY <2>2, <2>3 DEF y
  <2>5. x % m = c
    BY <2>4, <2>2, <2>3
  <2> QED
    BY <2>1, <2>5 DEF y, c
<1> QED
  BY <1>1, <1>2

(* Moving an index on, by steps that stay within a turn. *)
LEMMA Moved ==
  ASSUME NEW a \in 0..UINT - 1, NEW i \in 0..UINT - 1, NEW j \in Int, i + j \in 0..UINT - 1
  PROVE  /\ C!Plus(a, i) \in 0..UINT - 1
         /\ C!Plus(C!Plus(a, i), j) = C!Plus(a, i + j)
         /\ C!Plus(C!Plus(a, i), -a) = i
         /\ C!Plus(a, 0) = a
PROOF
<1>1. PICK m \in Nat \ {0} : m = UINT
  BY ConsoleAssumption
<1>2. PICK x \in Int, y \in Int : x = a + i /\ y = a + (i + j)
  BY <1>1
<1>3. PICK c \in 0..m - 1 : c = x % m /\ c = IF x < m THEN x ELSE x - m
  <2>1. -m <= x /\ x < 2 * m /\ x >= 0
    BY <1>1, <1>2
  <2>2. /\ x % m \in 0..m - 1
        /\ x % m = IF x < 0 THEN x + m ELSE IF x < m THEN x ELSE x - m
    BY <2>1, Wrapped
  <2> QED
    BY <2>1, <2>2
<1>4. y % m = IF y < m THEN y ELSE y - m
  <2>1. -m <= y /\ y < 2 * m /\ y >= 0
    BY <1>1, <1>2
  <2>2. y % m = IF y < 0 THEN y + m ELSE IF y < m THEN y ELSE y - m
    BY <2>1, Wrapped
  <2> QED
    BY <2>1, <2>2
<1>5. PICK z \in Int : z = c + j
  OBVIOUS
<1>6. z % m = y % m
  <2>1. -m <= z /\ z < 2 * m
    BY <1>1, <1>2, <1>3, <1>5
  <2>2. z % m = IF z < 0 THEN z + m ELSE IF z < m THEN z ELSE z - m
    BY <2>1, Wrapped
  <2> QED
    BY <1>1, <1>2, <1>3, <1>4, <1>5, <2>2
<1>7. PICK b \in Int : b = c + (-a)
  BY <1>1
<1>8. b % m = i
  <2>1. -m <= b /\ b < 2 * m
    BY <1>1, <1>3, <1>7
  <2>2. b % m = IF b < 0 THEN b + m ELSE IF b < m THEN b ELSE b - m
    BY <2>1, Wrapped
  <2> QED
    BY <1>1, <1>2, <1>3, <1>7, <2>2
<1>9. (a + 0) % m = a
  BY <1>1
<1> QED
  BY <1>1, <1>2, <1>3, <1>5, <1>6, <1>7, <1>8, <1>9 DEF C!Plus

(* Within the length of the buffer, different steps lead to different      *)
(* places.                                                                 *)
LEMMA PlacesDiffer ==
  ASSUME NEW a \in 0..UINT - 1, NEW i \in 0..INPUT_BUF - 1, NEW j \in 0..INPUT_BUF - 1,
         C!At(C!Plus(a, i)) = C!At(C!Plus(a, j))
  PROVE  i = j
PROOF
<1>1. PICK m \in Nat \ {0}, u \in Nat \ {0} : m = INPUT_BUF /\ u = UINT /\ m < u /\ u % m = 0
  BY ConsoleAssumption
<1>2. PICK x \in 0..2 * u - 1, y \in 0..2 * u - 1 : x = a + i /\ y = a + j
  BY <1>1
<1>3. (x % u) % m = x % m /\ (y % u) % m = y % m
  <2>1. u % m = 0 /\ x \in 0..2 * u - 1 /\ y \in 0..2 * u - 1
    BY <1>1
  <2>2. \A z \in 0..2 * u - 1 : (z % u) % m = z % m
    BY <2>1, WrapKeepsPlace
  <2> QED
    BY <2>1, <2>2
<1>4. x % m = y % m
  BY <1>1, <1>2, <1>3 DEF C!Plus, C!At
<1>5. x \in Nat /\ y \in Nat
  BY <1>2
<1>6. CASE x <= y
  <2>1. y < x + m
    BY <1>1, <1>2
  <2>2. x = y
    BY <1>4, <1>5, <1>6, <2>1, RemainderUnique
  <2> QED
    BY <1>1, <1>2, <2>2
<1>7. CASE y <= x
  <2>1. x < y + m
    BY <1>1, <1>2
  <2>2. x = y
    BY <1>4, <1>5, <1>7, <2>1, RemainderUnique
  <2> QED
    BY <1>1, <1>2, <2>2
<1> QED
  BY <1>5, <1>6, <1>7

(* g characters are given, and t typed after them; the typed ones are the  *)
(* beginning of a line.                                                    *)
Cell(k) == buf[C!At(C!Plus(r, k))]
Placed(g, t) ==
  /\ g \in 0..INPUT_BUF /\ t \in 0..INPUT_BUF /\ g + t <= INPUT_BUF
  /\ cw = C!Plus(r, g) /\ e = C!Plus(r, g + t)
  /\ \A k \in g..g + t - 1 : Cell(k) \notin {C!NEWLINE, C!EOF}

InBuffer == C!Char \cup {"0"}
ReaderState == [at : {"idle", "test", "presleep", "asleep"}, n : Nat, got : Seq(InBuffer)]
InputTypes ==
  /\ r \in 0..UINT - 1
  /\ buf \in [0..INPUT_BUF - 1 -> InBuffer]
  /\ reader \in [Reader -> ReaderState]
InputInv ==
  /\ InputTypes
  /\ \E g, t \in 0..INPUT_BUF : Placed(g, t)
  /\ \A p \in Reader : reader[p].at \in {"presleep", "asleep"} => r = cw

(* What the three indices tell. *)
LEMMA PlacedIs ==
  ASSUME r \in 0..UINT - 1, NEW g, NEW t, Placed(g, t)
  PROVE  /\ g \in Nat /\ t \in Nat /\ g + t \in 0..INPUT_BUF /\ g + t \in 0..UINT - 1
         /\ cw \in 0..UINT - 1 /\ e \in 0..UINT - 1
         /\ C!Plus(cw, -r) = g /\ C!Plus(e, -cw) = t /\ C!Plus(e, -r) = g + t
         /\ r = cw <=> g = 0
         /\ e = cw <=> t = 0
PROOF
<1>1. /\ g \in 0..UINT - 1 /\ t \in 0..UINT - 1 /\ g + t \in 0..INPUT_BUF /\ g + t \in 0..UINT - 1
      /\ g \in Nat /\ t \in Nat
  BY ConsoleAssumption DEF Placed
<1>2. cw = C!Plus(r, g) /\ e = C!Plus(r, g + t)
  BY DEF Placed
<1>3. cw \in 0..UINT - 1 /\ C!Plus(cw, t) = C!Plus(r, g + t) /\ C!Plus(cw, -r) = g
  BY <1>1, <1>2, Moved
<1>4. PICK d \in 0..UINT - 1 : d = g + t
  BY <1>1
<1>5. d + 0 \in 0..UINT - 1 /\ 0 \in Int /\ 0 \in 0..UINT - 1 /\ 0 + 0 \in 0..UINT - 1
  BY <1>1, <1>4, ConsoleAssumption
<1>6. e \in 0..UINT - 1 /\ C!Plus(e, -r) = d
  BY <1>2, <1>4, <1>5, Moved
<1>7. t + 0 \in 0..UINT - 1
  BY <1>1
<1>8. C!Plus(e, -cw) = t
  BY <1>1, <1>2, <1>3, <1>5, <1>7, Moved
<1>9. C!Plus(r, 0) = r /\ C!Plus(cw, 0) = cw
  BY <1>1, <1>3, <1>5, <1>7, Moved
<1>10. C!Plus(r, 0) = r => (g = 0 => r = cw)
  BY <1>2
<1>11. r = cw => g = 0
  <2>1. C!Plus(C!Plus(r, 0), -r) = 0
    BY <1>5, <1>1, Moved
  <2> QED
    BY <1>3, <1>9, <2>1
<1>12. e = cw => t = 0
  <2>1. C!Plus(C!Plus(cw, 0), -cw) = 0
    BY <1>5, <1>1, <1>3, Moved
  <2> QED
    BY <1>8, <1>9, <2>1
<1>13. t = 0 => e = cw
  BY <1>1, <1>2
<1> QED
  BY <1>1, <1>3, <1>4, <1>6, <1>8, <1>9, <1>10, <1>11, <1>12, <1>13

(* A key that is stored is the last one, of the line given to readers, or  *)
(* of the one that is typed.                                               *)
LEMMA KeyStored ==
  ASSUME InputTypes, NEW g, NEW t, Placed(g, t), r' = r, NEW key \in C!Key, C!store(key)
  PROVE  \E c \in C!Char :
           /\ g + t < INPUT_BUF
           /\ \A k \in 0..g + t - 1 : Cell(k)' = Cell(k)
           /\ Cell(g + t)' = c
           /\ IF c \in {C!NEWLINE, C!EOF} \/ g + t + 1 = INPUT_BUF
              THEN Placed(g + t + 1, 0)' ELSE Placed(g, t + 1)'
           /\ InputTypes' /\ e' = C!Plus(r, g + t + 1)
           /\ (cw' = cw /\ reader' = reader) \/ reader' = C!Woken
PROOF
<1> DEFINE c == IF key = "\r" THEN C!NEWLINE ELSE key
           Commit == c \in {C!NEWLINE, C!EOF} \/ g + t + 1 = INPUT_BUF
<1>1. c \in C!Char
  BY DEF C!store, C!Key, C!Char, C!NEWLINE, C!EOF
<1>2. /\ g \in Nat /\ t \in Nat /\ g + t \in 0..UINT - 1 /\ C!Plus(e, -r) = g + t
      /\ r \in 0..UINT - 1 /\ INPUT_BUF \in Nat \ {0} /\ UINT \in Nat \ {0} /\ INPUT_BUF < UINT
      /\ e = C!Plus(r, g + t) /\ cw = C!Plus(r, g)
  BY PlacedIs, ConsoleAssumption DEF InputTypes, Placed
<1>3. g + t < INPUT_BUF
  BY <1>2 DEF C!store, C!Room
<1>4. PICK s \in 0..UINT - 1 : s = g + t /\ s + 1 \in 0..UINT - 1
  BY <1>2, <1>3
<1>5. C!Plus(e, 1) = C!Plus(r, s + 1)
  BY <1>2, <1>4, Moved
<1>6. C!Plus(r, s + 1) = C!Plus(r, INPUT_BUF) <=> s + 1 = INPUT_BUF
  <2>1. PICK a \in 0..UINT - 1 : a = s + 1 /\ a + 0 \in 0..UINT - 1
    BY <1>4
  <2>2. PICK b \in 0..UINT - 1 : b = INPUT_BUF /\ b + 0 \in 0..UINT - 1
    BY <1>2
  <2>3. C!Plus(C!Plus(r, a), -r) = a /\ C!Plus(C!Plus(r, b), -r) = b
    BY <1>2, <2>1, <2>2, Moved, SMTT(30)
  <2> QED
    BY <2>1, <2>2, <2>3
<1>7. C!Commits(c, C!Plus(e, 1)) <=> Commit
  BY <1>2, <1>4, <1>5, <1>6 DEF C!Commits
<1>8. /\ buf' = [buf EXCEPT ![C!At(e)] = c] /\ e' = C!Plus(r, s + 1)
      /\ IF Commit THEN cw' = e' /\ reader' = C!Woken ELSE cw' = cw /\ reader' = reader
  BY <1>5, <1>7 DEF C!store
<1> HIDE DEF c
<1>9. C!At(e) \in 0..INPUT_BUF - 1
  <2>1. e \in Nat
    BY PlacedIs DEF InputTypes
  <2> QED
    BY <1>2, <2>1, DivMod DEF C!At
<1>10. Cell(s)' = c
  BY <1>2, <1>4, <1>8, <1>9 DEF Cell, InputTypes
<1>11. ASSUME NEW k \in 0..s - 1
       PROVE  Cell(k)' = Cell(k)
  <2>1. k \in 0..INPUT_BUF - 1 /\ s \in 0..INPUT_BUF - 1 /\ k # s
    BY <1>2, <1>3, <1>4
  <2>2. C!At(C!Plus(r, k)) # C!At(C!Plus(r, s))
    BY <1>2, <2>1, PlacesDiffer
  <2> QED
    BY <1>2, <1>4, <1>8, <2>2 DEF Cell, InputTypes
<1>14. InputTypes'
  <2>1. reader' \in [Reader -> ReaderState]
    <3>1. \A p \in Reader : [reader[p] EXCEPT !.at = "test"] \in ReaderState
      BY DEF InputTypes, ReaderState
    <3>2. reader \in [Reader -> ReaderState]
      BY DEF InputTypes
    <3>3. C!Woken \in [Reader -> ReaderState]
      BY <3>1, <3>2 DEF C!Woken
    <3> QED
      BY <1>8, <3>2, <3>3
  <2> QED
    BY <1>1, <1>2, <1>8, <2>1 DEF InputTypes, InBuffer
<1>15. Cell(g + t)' = c /\ \A k \in 0..g + t - 1 : Cell(k)' = Cell(k)
  <2>1. Cell(g + t)' = c
    BY <1>4, <1>10 DEF Cell
  <2>2. \A k \in 0..s - 1 : Cell(k)' = Cell(k)
    BY <1>11
  <2>3. 0..g + t - 1 = 0..s - 1
    BY <1>2, <1>4
  <2> QED
    BY <2>1, <2>2, <2>3
<1>12. CASE Commit
  <2>1. s + 1 \in 0..INPUT_BUF /\ 0 \in 0..INPUT_BUF /\ s + 1 + 0 = s + 1
    BY <1>2, <1>3, <1>4
  <2>2. (s + 1)..(s + 1 + 0 - 1) = {}
    BY <1>4
  <2>3. Placed(s + 1, 0)'
    BY <1>2, <1>8, <1>12, <2>1, <2>2 DEF Placed
  <2> QED
    BY <1>1, <1>3, <1>4, <1>8, <1>12, <1>14, <1>15, <2>3
<1>13. CASE ~Commit
  <2>1. t + 1 \in 0..INPUT_BUF /\ g \in 0..INPUT_BUF /\ g + (t + 1) = s + 1 /\ s + 1 <= INPUT_BUF
    BY <1>2, <1>3, <1>4
  <2>2. ASSUME NEW k \in g..g + (t + 1) - 1
        PROVE  Cell(k)' \notin {C!NEWLINE, C!EOF}
    <3>1. CASE k = s
      BY <1>10, <1>13, <3>1
    <3>2. CASE k # s
      <4>1. k \in g..g + t - 1 /\ k \in 0..s - 1
        BY <1>2, <1>4, <3>2
      <4> QED
        BY <1>11, <4>1 DEF Placed
    <3> QED
      BY <3>1, <3>2
  <2>3. Placed(g, t + 1)'
    BY <1>2, <1>8, <1>13, <2>1, <2>2 DEF Placed
  <2> QED
    BY <1>1, <1>3, <1>4, <1>8, <1>13, <1>14, <1>15, <2>3
<1> QED
  BY <1>12, <1>13

(* Backspace takes the last one of the typed characters away. *)
LEMMA KeyErased ==
  ASSUME InputTypes, NEW g, NEW t, Placed(g, t), r' = r, NEW key, C!backspace(key)
  PROVE  t \in Nat \ {0} /\ Placed(g, t - 1)'
PROOF
<1>1. /\ g \in Nat /\ t \in Nat /\ g + t \in 0..UINT - 1 /\ t # 0
      /\ r \in 0..UINT - 1 /\ INPUT_BUF \in Nat \ {0} /\ UINT \in Nat \ {0}
      /\ e = C!Plus(r, g + t)
  BY PlacedIs, ConsoleAssumption DEF InputTypes, Placed, C!backspace
<1>2. PICK s \in 0..UINT - 1 : s = g + t /\ s + (-1) \in 0..UINT - 1 /\ s + (-1) = g + (t - 1)
  BY <1>1
<1>3. e' = C!Plus(r, g + (t - 1)) /\ cw' = cw /\ buf' = buf
  BY <1>1, <1>2, Moved DEF C!backspace
<1>4. t - 1 \in 0..INPUT_BUF /\ g + (t - 1) <= INPUT_BUF /\ g \in 0..INPUT_BUF
  BY <1>1 DEF Placed
<1>5. \A k \in g..g + (t - 1) - 1 : k \in g..g + t - 1
  BY <1>1
<1> QED
  BY <1>1, <1>3, <1>4, <1>5 DEF Placed, Cell

(* ^U takes all of them away: none is a newline. *)
LEMMA LineErased ==
  ASSUME InputTypes, NEW g, NEW t, Placed(g, t), r' = r, NEW key, C!kill_line(key)
  PROVE  Placed(g, 0)'
PROOF
<1>1. /\ g \in Nat /\ t \in Nat /\ g + t \in 0..UINT - 1 /\ C!Plus(e, -cw) = t
      /\ r \in 0..UINT - 1 /\ INPUT_BUF \in Nat \ {0} /\ g \in 0..INPUT_BUF /\ UINT \in Nat \ {0}
      /\ e = C!Plus(r, g + t) /\ cw = C!Plus(r, g)
  BY PlacedIs, ConsoleAssumption DEF InputTypes, Placed
<1> DEFINE stops == {k \in 0..t : k = t \/ buf[C!At(C!Plus(e, -k - 1))] = C!NEWLINE}
<1>2. PICK s \in 0..UINT - 1 : s = g + t
  BY <1>1
<1>3. ASSUME NEW k \in 0..t - 1
      PROVE  k \notin stops
  <2>1. PICK j \in Int : j = -k - 1 /\ s + j \in 0..UINT - 1 /\ s + j \in g..g + t - 1
    BY <1>1, <1>2
  <2>2. C!Plus(e, j) = C!Plus(r, s + j)
    BY <1>1, <1>2, <2>1, Moved
  <2>3. buf[C!At(C!Plus(e, j))] # C!NEWLINE
    BY <2>1, <2>2 DEF Placed, Cell
  <2> QED
    BY <1>1, <2>1, <2>3
<1>4. stops = {t}
  BY <1>1, <1>3
<1>5. (CHOOSE k \in stops : \A j \in stops : k <= j) = t
  BY <1>1, <1>4
<1>6. C!killed_line = C!Plus(e, -t)
  BY <1>1, <1>5 DEF C!killed_line
<1>7. C!Plus(e, -t) = cw
  <2>1. s + (-t) \in 0..UINT - 1 /\ s + (-t) = g /\ -t \in Int
    BY <1>1, <1>2
  <2> QED
    BY <1>1, <1>2, <2>1, Moved
<1>8. e' = cw /\ cw' = cw /\ buf' = buf
  BY <1>6, <1>7 DEF C!kill_line
<1>9. g..g + 0 - 1 = {} /\ g + 0 = g
  BY <1>1
<1> QED
  BY <1>1, <1>8, <1>9 DEF Placed

(* consoleread takes characters that were given, all of them when it goes  *)
(* on to sleep.                                                            *)
LEMMA CharsTaken ==
  ASSUME InputTypes, NEW g, NEW t, Placed(g, t), NEW n, NEW got
  PROVE  /\ C!Take(n, got).used \in 0..g
         /\ ~C!Take(n, got).done => C!Take(n, got).used = g
         /\ C!Take(n, got).data \in Seq(InBuffer)
PROOF
<1> DEFINE len == C!Plus(cw, -r)
           c(k) == buf[C!At(C!Plus(r, k - 1))]
           ends == {k \in 1..len : k = n \/ c(k) \in {C!NEWLINE, C!EOF}}
           m == IF ends = {} THEN len ELSE CHOOSE k \in ends : \A j \in ends : k <= j
           eof == m > 0 /\ c(m) = C!EOF
           taken == IF eof THEN m - 1 ELSE m
<1>1. /\ g \in Nat /\ len = g /\ g \in 0..INPUT_BUF
      /\ r \in 0..UINT - 1 /\ INPUT_BUF \in Nat \ {0} /\ UINT \in Nat \ {0}
  BY PlacedIs, ConsoleAssumption DEF InputTypes, Placed
<1>2. C!Take(n, got) = [done |-> ends # {},
                        data |-> [k \in 1..taken |-> c(k)],
                        used |-> IF eof /\ Len(got) + taken > 0 THEN taken ELSE m]
  BY DEF C!Take
<1> HIDE DEF len
<1>3. m \in 0..g /\ (ends = {} => m = g) /\ (ends # {} => m \in ends)
  <2>1. CASE ends = {}
    BY <1>1, <2>1
  <2>2. CASE ends # {}
    <3>1. ends \in SUBSET Nat
      BY <1>1
    <3> DEFINE E == ends
    <3> HIDE DEF E
    <3>2. \E k \in E : \A j \in E : k <= j
      BY <2>2, <3>1, LeastNumber DEF E
    <3>3. (CHOOSE k \in E : \A j \in E : k <= j) \in E
      BY <3>2
    <3>4. m \in ends
      BY <2>2, <3>3 DEF E
    <3> QED
      BY <1>1, <2>2, <3>4
  <2> QED
    BY <2>1, <2>2
<1>4. ends = {} => ~eof
  <2>1. SUFFICES ASSUME ends = {}, m > 0, c(m) = C!EOF
                 PROVE  FALSE
    OBVIOUS
  <2>2. m \in 1..g
    BY <1>1, <1>3, <2>1
  <2>3. m \in ends
    BY <2>1, <2>2
  <2> QED
    BY <2>1, <2>3
<1>5. taken \in 0..g
  BY <1>1, <1>3
<1>6. ASSUME NEW k \in 1..taken
      PROVE  c(k) \in InBuffer
  <2>1. PICK i \in 0..UINT - 1 : i = k - 1 /\ i + 0 \in 0..UINT - 1
    BY <1>1, <1>5, ConsoleAssumption
  <2>2. C!Plus(r, i) \in Nat
    BY <1>1, <2>1, Moved
  <2>3. C!At(C!Plus(r, i)) \in 0..INPUT_BUF - 1
    BY <1>1, <2>2, DivMod DEF C!At
  <2> QED
    BY <2>1, <2>3 DEF InputTypes
<1>7. [k \in 1..taken |-> c(k)] \in Seq(InBuffer)
  <2> HIDE DEF taken, c
  <2> QED
    BY <1>5, <1>6
<1> HIDE DEF c, ends, m, eof, taken
<1>8. C!Take(n, got).used = m \/ C!Take(n, got).used = taken
  BY <1>2
<1>9. ~C!Take(n, got).done => C!Take(n, got).used = g
  <2>1. C!Take(n, got).done = (ends # {})
    BY <1>2
  <2>2. C!Take(n, got).used = IF eof /\ Len(got) + taken > 0 THEN taken ELSE m
    BY <1>2
  <2> QED
    BY <1>3, <1>4, <2>1, <2>2
<1>10. C!Take(n, got).data = [k \in 1..taken |-> c(k)]
  BY <1>2
<1> QED
  BY <1>3, <1>5, <1>7, <1>8, <1>9, <1>10

(* The indices after a read. *)
LEMMA CharsMoved ==
  ASSUME InputTypes, NEW g, NEW t, Placed(g, t), NEW u \in 0..g,
         r' = C!Plus(r, u), UNCHANGED <<buf, cw, e>>
  PROVE  /\ r' \in 0..UINT - 1
         /\ Placed(g - u, t)'
         /\ \A k \in 0..g + t - u - 1 : Cell(k)' = Cell(k + u)
         /\ u = 0 => r' = r
PROOF
<1>1. /\ g \in Nat /\ t \in Nat /\ g + t \in 0..UINT - 1 /\ g \in 0..INPUT_BUF
      /\ r \in 0..UINT - 1 /\ INPUT_BUF \in Nat \ {0} /\ UINT \in Nat \ {0}
      /\ cw = C!Plus(r, g) /\ e = C!Plus(r, g + t)
  BY PlacedIs, ConsoleAssumption DEF InputTypes, Placed
<1>2. u \in 0..UINT - 1 /\ u \in Nat /\ u + 0 \in 0..UINT - 1
  BY <1>1
<1>3. r' \in 0..UINT - 1 /\ C!Plus(r, 0) = r
  BY <1>1, <1>2, Moved
<1>4. ASSUME NEW k \in 0..g + t - u
      PROVE  C!Plus(r', k) = C!Plus(r, k + u)
  <2>1. k \in Int /\ u + k \in 0..UINT - 1 /\ u + k = k + u
    BY <1>1, <1>2
  <2> QED
    BY <1>1, <1>2, <2>1, Moved
<1>5. cw = C!Plus(r', g - u)
  <2>1. PICK k \in 0..g + t - u : k = g - u /\ k + u = g
    BY <1>1, <1>2
  <2> QED
    BY <1>1, <1>4, <2>1
<1>6. e = C!Plus(r', g - u + t)
  <2>1. PICK k \in 0..g + t - u : k = g - u + t /\ k + u = g + t
    BY <1>1, <1>2
  <2> QED
    BY <1>1, <1>4, <2>1
<1>7. ASSUME NEW k \in 0..g + t - u - 1
      PROVE  Cell(k)' = Cell(k + u)
  <2>1. k \in 0..g + t - u
    BY <1>1, <1>2
  <2> QED
    BY <1>4, <2>1 DEF Cell
<1>8. ASSUME NEW k \in g - u..g - u + t - 1
      PROVE  Cell(k)' \notin {C!NEWLINE, C!EOF}
  <2>1. k \in 0..g + t - u - 1 /\ k + u \in g..g + t - 1
    BY <1>1, <1>2
  <2> QED
    BY <1>7, <2>1 DEF Placed
<1>9. g - u \in 0..INPUT_BUF /\ t \in 0..INPUT_BUF /\ g - u + t <= INPUT_BUF
  BY <1>1, <1>2 DEF Placed
<1>10. Placed(g - u, t)'
  BY <1>5, <1>6, <1>8, <1>9 DEF Placed
<1> QED
  BY <1>3, <1>7, <1>10

(* InputInv is inductive. *)
LEMMA InputStep ==
  ASSUME InputInv, [ConsoleNext]_consvars
  PROVE  InputInv'
PROOF
<1>1. PICK g \in 0..INPUT_BUF, t \in 0..INPUT_BUF : Placed(g, t)
  BY DEF InputInv
<1>2. InputTypes /\ \A p \in Reader : reader[p].at \in {"presleep", "asleep"} => r = cw
  BY DEF InputInv
<1>3. \A p \in Reader : [reader[p] EXCEPT !.at = "test"] \in ReaderState
  BY <1>2 DEF InputTypes, ReaderState
<1>4. reader \in [Reader -> ReaderState]
  BY <1>2 DEF InputTypes
<1>5. ASSUME Placed(g, t)', InputTypes', UNCHANGED <<r, cw>>,
             \A p \in Reader : reader'[p].at \in {"presleep", "asleep"}
                                 => reader[p].at \in {"presleep", "asleep"}
      PROVE  InputInv'
  BY <1>2, <1>5 DEF InputInv
<1>6. ASSUME UNCHANGED <<buf, r, cw, e>>
      PROVE  Placed(g, t)'
  BY <1>1, <1>6 DEF Placed, Cell
<1>7. CASE C!consoleintr
  <2>1. PICK key \in C!Key : C!store(key) \/ C!Ignored(key) \/ C!backspace(key) \/ C!kill_line(key)
    BY <1>7 DEF C!consoleintr
  <2>2. r' = r /\ \A p \in Reader : reader[p].at # "presleep"
    BY <1>7 DEF C!consoleintr, C!InputFree
  <2>3. CASE C!store(key)
    <3>1. PICK a \in 0..INPUT_BUF, b \in 0..INPUT_BUF : Placed(a, b)'
      BY <1>1, <1>2, <2>2, <2>3, KeyStored DEF Placed
    <3>2. InputTypes' /\ ((cw' = cw /\ reader' = reader) \/ reader' = C!Woken)
      BY <1>1, <1>2, <2>2, <2>3, KeyStored
    <3>3. CASE cw' = cw /\ reader' = reader
      BY <1>2, <2>2, <3>1, <3>2, <3>3 DEF InputInv
    <3>4. CASE reader' = C!Woken
      <4>1. \A p \in Reader : reader'[p].at \notin {"presleep", "asleep"}
        BY <1>4, <2>2, <3>4 DEF C!Woken, ReaderState
      <4> QED
        BY <3>1, <3>2, <4>1 DEF InputInv
    <3> QED
      BY <3>2, <3>3, <3>4
  <2>4. CASE C!Ignored(key)
    BY <1>2, <1>5, <1>6, <2>2, <2>4 DEF C!Ignored, InputTypes
  <2>5. CASE C!backspace(key)
    <3>1. t \in Nat \ {0} /\ Placed(g, t - 1)'
      BY <1>1, <1>2, <2>2, <2>5, KeyErased
    <3>2. UNCHANGED <<buf, r, cw, reader>>
      BY <2>2, <2>5 DEF C!backspace
    <3>3. t - 1 \in 0..INPUT_BUF
      BY <3>1, ConsoleAssumption
    <3> QED
      BY <1>2, <3>1, <3>2, <3>3 DEF InputInv, InputTypes
  <2>6. CASE C!kill_line(key)
    <3>1. Placed(g, 0)'
      BY <1>1, <1>2, <2>2, <2>6, LineErased
    <3>2. UNCHANGED <<buf, r, cw, reader>>
      BY <2>2, <2>6 DEF C!kill_line
    <3>3. 0 \in 0..INPUT_BUF
      BY ConsoleAssumption
    <3> QED
      BY <1>2, <3>1, <3>2, <3>3 DEF InputInv, InputTypes
  <2> QED
    BY <2>1, <2>3, <2>4, <2>5, <2>6
<1>8. ASSUME NEW p \in Reader, C!consoleread(p)
      PROVE  InputInv'
  <2> DEFINE x == C!Take(reader[p].n - Len(reader[p].got), reader[p].got)
  <2>1. x.used \in 0..g /\ (~x.done => x.used = g) /\ x.data \in Seq(InBuffer)
    BY <1>1, <1>2, CharsTaken
  <2>2. /\ r' = C!Plus(r, x.used) /\ UNCHANGED <<buf, cw, e>>
        /\ reader' = [reader EXCEPT ![p] = IF x.done \/ p \in ckilled THEN C!Idle
             ELSE [reader[p] EXCEPT !.at = "presleep", !.got = reader[p].got \o x.data]]
        /\ \A q \in Reader : reader[q].at # "presleep"
    BY <1>8 DEF C!consoleread, C!InputFree
  <2> HIDE DEF x
  <2>3. PICK u \in 0..g : u = x.used
    BY <2>1
  <2>4. /\ r' \in 0..UINT - 1
        /\ Placed(g - u, t)'
        /\ u = 0 => r' = r
    BY <1>1, <1>2, <2>2, <2>3, CharsMoved
  <2>5. /\ reader[p].got \o x.data \in Seq(InBuffer)
        /\ [reader[p] EXCEPT !.at = "presleep", !.got = reader[p].got \o x.data] \in ReaderState
    <3>1. reader[p] \in ReaderState /\ reader[p].got \in Seq(InBuffer)
      BY <1>4 DEF ReaderState
    <3>2. PICK s \in Seq(InBuffer) : s = reader[p].got \o x.data
      <4>1. \A a, b \in Seq(InBuffer) : a \o b \in Seq(InBuffer)
        OBVIOUS
      <4> QED
        BY <2>1, <3>1, <4>1
    <3>3. [reader[p] EXCEPT !.at = "presleep", !.got = s] \in ReaderState
      BY <3>1 DEF ReaderState
    <3> QED
      BY <3>2, <3>3
  <2>6. C!Idle \in ReaderState
    BY DEF C!Idle, ReaderState
  <2>7. InputTypes'
    BY <1>2, <1>4, <2>2, <2>4, <2>5, <2>6 DEF InputTypes
  <2>8. g - u \in 0..INPUT_BUF /\ g \in Nat
    BY ConsoleAssumption
  <2>9. ASSUME NEW q \in Reader, reader'[q].at \in {"presleep", "asleep"}
        PROVE  r' = cw'
    <3>1. CASE q = p
      <4>1. ~x.done
        BY <1>4, <2>2, <2>9, <3>1 DEF C!Idle
      <4>2. g - u = 0
        BY <2>1, <2>3, <2>8, <4>1
      <4>3. cw' = C!Plus(r', 0)
        BY <2>4, <4>2 DEF Placed
      <4>4. 0 \in 0..UINT - 1 /\ 0 + 0 \in 0..UINT - 1 /\ 0 \in Int
        BY ConsoleAssumption
      <4>5. C!Plus(r', 0) = r'
        BY <2>4, <4>4, Moved
      <4> QED
        BY <4>3, <4>5
    <3>2. CASE q # p
      <4>1. r = cw
        BY <1>2, <1>4, <2>2, <2>9, <3>2
      <4>2. g = 0
        BY <1>1, <1>2, <4>1, PlacedIs DEF InputTypes
      <4> QED
        BY <2>2, <2>4, <4>1, <4>2
    <3> QED
      BY <3>1, <3>2
  <2> QED
    BY <1>1, <2>4, <2>7, <2>8, <2>9 DEF InputInv
<1>9. ASSUME NEW p \in Reader, C!consoleread_sleep(p)
      PROVE  InputInv'
  <2>1. UNCHANGED <<buf, r, cw, e>>
            /\ reader' = [reader EXCEPT ![p] = [reader[p] EXCEPT !.at = "asleep"]]
    BY <1>9 DEF C!consoleread_sleep
  <2>2. InputTypes'
    BY <1>2, <2>1 DEF InputTypes, ReaderState
  <2>3. reader[p].at = "presleep" /\ \A q \in Reader : q # p => reader'[q] = reader[q]
    BY <1>4, <1>9, <2>1 DEF C!consoleread_sleep
  <2> QED
    BY <1>5, <1>6, <2>1, <2>2, <2>3
<1>10. ASSUME NEW p, C!kill(p)
       PROVE  InputInv'
  <2>1. UNCHANGED <<buf, r, cw, e>>
            /\ reader' = [q \in Reader |-> IF q = p THEN C!Woken[q] ELSE reader[q]]
    BY <1>10 DEF C!kill
  <2>2. InputTypes'
    BY <1>2, <1>3, <2>1 DEF InputTypes, C!Woken
  <2>3. \A q \in Reader : reader'[q].at \in {"presleep", "asleep"}
            => reader[q].at \in {"presleep", "asleep"}
    BY <1>4, <2>1 DEF C!Woken, ReaderState
  <2> QED
    BY <1>5, <1>6, <2>1, <2>2, <2>3
<1>11. ASSUME NEW p \in Reader, NEW n \in ReadSize, C!consoleread_call(p, n)
       PROVE  InputInv'
  <2>1. /\ UNCHANGED <<buf, r, cw, e>>
        /\ reader' = [reader EXCEPT ![p] = [at |-> "test", n |-> n, got |-> <<>>]]
    BY <1>11 DEF C!consoleread_call
  <2>2. InputTypes'
    BY <1>2, <2>1, ConsoleAssumption DEF InputTypes, ReaderState
  <2>3. \A q \in Reader : reader'[q].at \in {"presleep", "asleep"}
            => reader[q].at \in {"presleep", "asleep"}
    BY <1>4, <2>1
  <2> QED
    BY <1>5, <1>6, <2>1, <2>2, <2>3
<1>12. CASE UNCHANGED <<buf, r, cw, e, reader>>
  BY <1>2, <1>5, <1>6, <1>12 DEF InputTypes
<1>13. C!ClockNext => UNCHANGED <<buf, r, cw, e, reader>> \/ \E p \in Sleeper : C!kill(p)
  BY DEF C!ClockNext, C!kvars, C!trap_timer, C!sys_sleep_call, C!sys_sleep, C!sys_sleep_sleep,
         C!sys_sleep_return
<1> QED
  BY <1>7, <1>8, <1>9, <1>10, <1>11, <1>12, <1>13
     DEF ConsoleNext, C!InputNext, C!kvars, consvars

(* The initial states. *)
LEMMA ConsoleInit ==
  ASSUME C!Init
  PROVE  ClockInv /\ InputInv
PROOF
<1>1. ClockInv
  <2>1. nticks = 0 /\ ticks = Start /\ sleeper = [p \in Sleeper |-> C!Awake]
    BY DEF C!Init
  <2>2. Start \in 0..UINT - 1 /\ UINT \in Nat \ {0} /\ Start % UINT = Start /\ 0 \in 0..MaxTicks
    BY ConsoleAssumption
  <2> QED
    BY <2>1, <2>2 DEF ClockInv, C!Awake, Asleep
<1>2. r = Start /\ cw = Start /\ e = Start /\ reader = [p \in Reader |-> C!Idle]
  BY DEF C!Init
<1>3. InputTypes
  BY <1>2, ConsoleAssumption DEF C!Init, InBuffer, InputTypes, C!Idle, ReaderState
<1>4. Placed(0, 0)
  <2>1. 0 \in 0..UINT - 1 /\ 0 + 0 \in 0..UINT - 1 /\ 0 \in Int /\ 0 \in 0..INPUT_BUF
    BY ConsoleAssumption
  <2>2. C!Plus(r, 0) = r
    BY <1>3, <2>1, Moved DEF InputTypes
  <2>3. 0..0 + 0 - 1 = {} /\ 0 + 0 = 0
    OBVIOUS
  <2> QED
    BY <1>2, <2>1, <2>2, <2>3 DEF Placed
<1>5. 0 \in 0..INPUT_BUF
  BY ConsoleAssumption
<1> QED
  BY <1>1, <1>2, <1>3, <1>4, <1>5 DEF InputInv, C!Idle

(* For every number of readers and sleepers, every size of the buffer and  *)
(* width of the unsigned integers: a reader of the console sleeps only     *)
(* while nothing was given to it (console.c), and sys_sleep returns after  *)
(* the ticks it was asked for and not before, also when ticks wraps during *)
(* the sleep (sysproc.c), as long as the clock runs less than one turn.    *)
THEOREM NobodyOversleeps == ConsoleSpec => []NoOversleep
PROOF
<1>1. ClockInv /\ InputInv => NoOversleep
  BY DEF ClockInv, InputInv, NoOversleep, C!NoOversleep, SleptFor, AskedFor
<1>2. C!Init => ClockInv /\ InputInv
  BY ConsoleInit
<1>3. ClockInv /\ InputInv /\ [ConsoleNext]_consvars => (ClockInv /\ InputInv)'
  BY ClockStep, InputStep
<1> QED
  BY <1>1, <1>2, <1>3, PTL DEF ConsoleSpec

-----------------------------------------------------------------------------
(* The console's input buffer implements a terminal of lines. *)

(* Equal sequences. *)
LEMMA SequencesEqual ==
  ASSUME NEW S, NEW s \in Seq(S), NEW u \in Seq(S), Len(s) = Len(u),
         \A k \in 1..Len(s) : s[k] = u[k]
  PROVE  s = u
PROOF
  OBVIOUS

(* A part of a sequence. *)
LEMMA SubSeqPart ==
  ASSUME NEW S, NEW s \in Seq(S), NEW m \in 1..Len(s) + 1, NEW n \in m - 1..Len(s)
  PROVE  /\ SubSeq(s, m, n) \in Seq(S)
         /\ Len(SubSeq(s, m, n)) = n - m + 1
         /\ \A k \in 1..n - m + 1 : SubSeq(s, m, n)[k] = s[m + k - 1]
PROOF
<1>1. Len(s) \in Nat /\ m \in Nat /\ n \in Nat
  OBVIOUS
<1>2. SubSeq(s, m, n) = [k \in 1..n - m + 1 |-> s[m + k - 1]]
  BY <1>1
<1>3. \A k \in 1..n - m + 1 : m + k - 1 \in 1..Len(s)
  BY <1>1
<1>4. \A k \in 1..n - m + 1 : s[m + k - 1] \in S
  BY <1>3
<1> DEFINE u == [k \in 1..n - m + 1 |-> s[m + k - 1]]
<1>5. u \in [1..n - m + 1 -> S] /\ \A k \in 1..n - m + 1 : u[k] = s[m + k - 1]
  BY <1>4
<1> HIDE DEF u
<1>6. u \in Seq(S) /\ Len(u) = n - m + 1
  BY <1>1, <1>5
<1> QED
  BY <1>2, <1>5, <1>6 DEF u

(* The characters behind two parts of the buffer. *)
Span(b, a, z) == [k \in 1..C!Plus(z, -a) |-> b[C!At(C!Plus(a, k - 1))]]

(* Where the characters between two indexes are in the buffer. *)
LEMMA SpanIs ==
  ASSUME NEW b \in [0..INPUT_BUF - 1 -> InBuffer], NEW a \in 0..UINT - 1, NEW n \in 0..UINT - 1
  PROVE  /\ Span(b, a, C!Plus(a, n)) \in Seq(InBuffer)
         /\ Len(Span(b, a, C!Plus(a, n))) = n
         /\ \A k \in 1..n : Span(b, a, C!Plus(a, n))[k] = b[C!At(C!Plus(a, k - 1))]
PROOF
<1>1. UINT \in Nat \ {0} /\ INPUT_BUF \in Nat \ {0} /\ n \in Nat /\ n + 0 \in 0..UINT - 1
          /\ 0 \in Int
  BY ConsoleAssumption
<1>2. C!Plus(C!Plus(a, n), -a) = n
  BY <1>1, Moved
<1>3. ASSUME NEW k \in 1..n
      PROVE  b[C!At(C!Plus(a, k - 1))] \in InBuffer
  <2>1. PICK i \in 0..UINT - 1 : i = k - 1 /\ i + 0 \in 0..UINT - 1
    BY <1>1
  <2>2. C!Plus(a, i) \in 0..UINT - 1
    BY <1>1, <2>1, Moved
  <2>4. C!Plus(a, i) \in Nat
    BY <1>1, <2>2
  <2>3. C!At(C!Plus(a, i)) \in 0..INPUT_BUF - 1
    BY <1>1, <2>2, <2>4, DivMod DEF C!At
  <2> QED
    BY <2>1, <2>3
<1> DEFINE s == [k \in 1..n |-> b[C!At(C!Plus(a, k - 1))]]
<1>4. Span(b, a, C!Plus(a, n)) = s
  BY <1>2 DEF Span
<1>5. s \in [1..n -> InBuffer]
  BY <1>3
<1>6. \A k \in 1..n : s[k] = b[C!At(C!Plus(a, k - 1))]
  OBVIOUS
<1> HIDE DEF s
<1>7. s \in Seq(InBuffer) /\ Len(s) = n
  BY <1>1, <1>5
<1> QED
  BY <1>4, <1>6, <1>7

(* What Stored(r, w) and Stored(w, e) are, for the indices of Placed. *)
Shows(G, Y, g, t) ==
  /\ G \in Seq(InBuffer) /\ Len(G) = g /\ \A k \in 1..g : G[k] = Cell(k - 1)
  /\ Y \in Seq(InBuffer) /\ Len(Y) = t /\ \A k \in 1..t : Y[k] = Cell(g + k - 1)

(* Two spans that meet are one. *)
LEMMA SpansJoin ==
  ASSUME NEW b \in [0..INPUT_BUF - 1 -> InBuffer], NEW a \in 0..UINT - 1,
         NEW g \in Nat, NEW t \in Nat, g + t \in 0..UINT - 1
  PROVE  /\ Span(b, C!Plus(a, g), C!Plus(a, g + t)) \in Seq(InBuffer)
         /\ Len(Span(b, C!Plus(a, g), C!Plus(a, g + t))) = t
         /\ \A k \in 1..t : Span(b, C!Plus(a, g), C!Plus(a, g + t))[k]
                              = b[C!At(C!Plus(a, g + k - 1))]
PROOF
<1>1. /\ UINT \in Nat \ {0} /\ g \in 0..UINT - 1 /\ t \in 0..UINT - 1 /\ t \in Int
      /\ g + t \in 0..UINT - 1
  BY ConsoleAssumption
<1>2. PICK z \in 0..UINT - 1 : z = C!Plus(a, g) /\ C!Plus(z, t) = C!Plus(a, g + t)
  <2>1. C!Plus(a, g) \in 0..UINT - 1 /\ C!Plus(C!Plus(a, g), t) = C!Plus(a, g + t)
    BY <1>1, Moved, SMTT(30)
  <2> QED
    BY <2>1
<1>3. ASSUME NEW k \in 1..t
      PROVE  C!Plus(z, k - 1) = C!Plus(a, g + k - 1)
  <2>1. PICK j \in Int : j = k - 1 /\ g + j \in 0..UINT - 1 /\ g + j = g + k - 1
    BY <1>1
  <2> QED
    BY <1>1, <1>2, <2>1, Moved
<1>4. /\ Span(b, z, C!Plus(z, t)) \in Seq(InBuffer)
      /\ Len(Span(b, z, C!Plus(z, t))) = t
      /\ \A k \in 1..t : Span(b, z, C!Plus(z, t))[k] = b[C!At(C!Plus(z, k - 1))]
  BY <1>1, SpanIs
<1> QED
  BY <1>2, <1>3, <1>4

(* What the buffer holds between two indexes, one character at a time. *)
LEMMA StoredIs ==
  ASSUME InputTypes, NEW g, NEW t, Placed(g, t)
  PROVE  Shows(C!Stored(r, cw), C!Stored(cw, e), g, t)
PROOF
<1>1. /\ g \in Nat /\ t \in Nat /\ g + t \in 0..UINT - 1 /\ g \in 0..UINT - 1
      /\ cw = C!Plus(r, g) /\ e = C!Plus(r, g + t) /\ r \in 0..UINT - 1
      /\ buf \in [0..INPUT_BUF - 1 -> InBuffer]
  BY ConsoleAssumption DEF Placed, InputTypes
<1>2. C!Stored(r, cw) = Span(buf, r, cw) /\ C!Stored(cw, e) = Span(buf, cw, e)
  BY DEF C!Stored, Span
<1>3. /\ Span(buf, r, cw) \in Seq(InBuffer) /\ Len(Span(buf, r, cw)) = g
      /\ \A k \in 1..g : Span(buf, r, cw)[k] = buf[C!At(C!Plus(r, k - 1))]
  BY <1>1, SpanIs
<1>4. /\ Span(buf, cw, e) \in Seq(InBuffer) /\ Len(Span(buf, cw, e)) = t
      /\ \A k \in 1..t : Span(buf, cw, e)[k] = buf[C!At(C!Plus(r, g + k - 1))]
  BY <1>1, SpansJoin
<1> QED
  BY <1>2, <1>3, <1>4 DEF Shows, Cell

(* One character more in the buffer. *)
LEMMA StoredNext ==
  ASSUME InputTypes', NEW g, NEW t, Placed(g, t)'
  PROVE  Shows(C!Stored(r, cw), C!Stored(cw, e), g, t)'
PROOF
<1>1. /\ g \in Nat /\ t \in Nat /\ g + t \in 0..UINT - 1 /\ g \in 0..UINT - 1
      /\ cw' = C!Plus(r', g) /\ e' = C!Plus(r', g + t) /\ r' \in 0..UINT - 1
      /\ buf' \in [0..INPUT_BUF - 1 -> InBuffer]
  BY ConsoleAssumption DEF Placed, InputTypes
<1>2. C!Stored(r, cw)' = Span(buf', r', cw') /\ C!Stored(cw, e)' = Span(buf', cw', e')
  BY DEF C!Stored, Span
<1>3. /\ Span(buf', r', cw') \in Seq(InBuffer) /\ Len(Span(buf', r', cw')) = g
      /\ \A k \in 1..g : Span(buf', r', cw')[k] = buf'[C!At(C!Plus(r', k - 1))]
  BY <1>1, SpanIs
<1>4. /\ Span(buf', cw', e') \in Seq(InBuffer) /\ Len(Span(buf', cw', e')) = t
      /\ \A k \in 1..t : Span(buf', cw', e')[k] = buf'[C!At(C!Plus(r', g + k - 1))]
  BY <1>1, SpansJoin
<1> QED
  BY <1>2, <1>3, <1>4 DEF Shows, Cell

(* A step of consoleintr or consoleread is one of the terminal. *)
LEMMA LineStep ==
  ASSUME InputInv, InputInv', [ConsoleNext]_consvars
  PROVE  [C!Terminal!Next]_<<C!Stored(r, cw), C!Stored(cw, e)>>
PROOF
<1> DEFINE Same == UNCHANGED <<C!Stored(r, cw), C!Stored(cw, e)>>
<1>1. PICK g \in 0..INPUT_BUF, t \in 0..INPUT_BUF : Placed(g, t)
  BY DEF InputInv
<1>2. InputTypes /\ InputTypes' /\ g \in Nat /\ t \in Nat /\ INPUT_BUF \in Nat \ {0}
  BY ConsoleAssumption DEF InputInv
<1>3. PICK G, Y : G = C!Stored(r, cw) /\ Y = C!Stored(cw, e) /\ Shows(G, Y, g, t)
  BY <1>1, <1>2, StoredIs
<1>4. PICK G1, Y1 : G1 = C!Stored(r, cw)' /\ Y1 = C!Stored(cw, e)'
  OBVIOUS
<1>5. ASSUME NEW g1, NEW t1, Placed(g1, t1)'
      PROVE  /\ G1 \in Seq(InBuffer) /\ Len(G1) = g1 /\ \A k \in 1..g1 : G1[k] = Cell(k - 1)'
             /\ Y1 \in Seq(InBuffer) /\ Len(Y1) = t1 /\ \A k \in 1..t1 : Y1[k] = Cell(g1 + k - 1)'
  BY <1>2, <1>4, <1>5, StoredNext DEF Shows
<1>6. /\ G \in Seq(InBuffer) /\ Len(G) = g /\ \A k \in 1..g : G[k] = Cell(k - 1)
      /\ Y \in Seq(InBuffer) /\ Len(Y) = t /\ \A k \in 1..t : Y[k] = Cell(g + k - 1)
  BY <1>3 DEF Shows
<1>7. C!consoleintr => C!Terminal!Next \/ Same
  <2>0. SUFFICES ASSUME C!consoleintr
                 PROVE  C!Terminal!Next \/ Same
    OBVIOUS
  <2>1. PICK key \in C!Key : C!store(key) \/ C!Ignored(key) \/ C!backspace(key) \/ C!kill_line(key)
    BY <2>0 DEF C!consoleintr
  <2>2. r' = r
    BY <2>0 DEF C!consoleintr
  <2>3. CASE C!store(key)
    <3>1. PICK c \in C!Char :
           /\ g + t < INPUT_BUF
           /\ \A k \in 0..g + t - 1 : Cell(k)' = Cell(k)
           /\ Cell(g + t)' = c
           /\ IF c \in {C!NEWLINE, C!EOF} \/ g + t + 1 = INPUT_BUF
              THEN Placed(g + t + 1, 0)' ELSE Placed(g, t + 1)'
      BY <1>1, <1>2, <2>2, <2>3, KeyStored
    <3>2. c \in InBuffer
      BY DEF InBuffer
    <3>3. Append(Y, c) \in Seq(InBuffer) /\ Len(Append(Y, c)) = t + 1
      BY <1>2, <1>6, <3>2
    <3>4. CASE c \in {C!NEWLINE, C!EOF} \/ g + t + 1 = INPUT_BUF
      <4>1. /\ G1 \in Seq(InBuffer) /\ Len(G1) = g + t + 1
            /\ \A k \in 1..g + t + 1 : G1[k] = Cell(k - 1)'
            /\ Y1 \in Seq(InBuffer) /\ Len(Y1) = 0
        BY <1>5, <3>1, <3>4
      <4>2. G1 = G \o Append(Y, c)
        <5>0. PICK W \in Seq(InBuffer) : W = G \o Append(Y, c)
                                             /\ Len(W) = Len(G) + Len(Append(Y, c))
          <6>1. \A a, b \in Seq(InBuffer) : a \o b \in Seq(InBuffer)
                    /\ Len(a \o b) = Len(a) + Len(b)
            OBVIOUS
          <6>2. G \o Append(Y, c) \in Seq(InBuffer)
                    /\ Len(G \o Append(Y, c)) = Len(G) + Len(Append(Y, c))
            BY <1>6, <3>3, <6>1
          <6> QED
            BY <6>2
        <5>1. W = G \o Append(Y, c) /\ Len(W) = g + t + 1
          <6>1. Len(W) = g + (t + 1)
            BY <1>6, <3>3, <5>0
          <6> QED
            BY <1>2, <5>0, <6>1
        <5>2. ASSUME NEW k \in 1..g + t + 1
              PROVE  G1[k] = W[k]
          <6>1. CASE k \in 1..g
            BY <1>2, <1>6, <3>1, <3>3, <4>1, <5>1, <6>1
          <6>2. CASE k \in g + 1..g + t
            <7>1. W[k] = Y[k - g] /\ k - g \in 1..t /\ g + (k - g) - 1 = k - 1
              BY <1>2, <1>6, <3>2, <3>3, <5>1, <6>2, SMTT(30)
            <7>2. k - 1 \in 0..g + t - 1
              BY <1>2, <6>2
            <7> QED
              BY <1>6, <3>1, <4>1, <7>1, <7>2
          <6>3. CASE k = g + t + 1
            BY <1>2, <1>6, <3>1, <3>2, <3>3, <4>1, <5>1, <6>3
          <6> QED
            BY <1>2, <6>1, <6>2, <6>3
        <5> QED
          BY <4>1, <5>1, <5>2, SequencesEqual
      <4>3. Y1 = <<>>
        BY <4>1
      <4>4. C!Terminal!Type(c)
        BY <1>2, <1>3, <1>4, <1>6, <3>1, <3>3, <3>4, <4>2, <4>3 DEF C!Terminal!Type
      <4> QED
        BY <4>4 DEF C!Terminal!Next
    <3>5. CASE ~(c \in {C!NEWLINE, C!EOF} \/ g + t + 1 = INPUT_BUF)
      <4>1. /\ G1 \in Seq(InBuffer) /\ Len(G1) = g /\ \A k \in 1..g : G1[k] = Cell(k - 1)'
            /\ Y1 \in Seq(InBuffer) /\ Len(Y1) = t + 1
            /\ \A k \in 1..t + 1 : Y1[k] = Cell(g + k - 1)'
        BY <1>5, <3>1, <3>5
      <4>2. G1 = G
        <5>1. \A k \in 1..g : G1[k] = G[k]
          BY <1>2, <1>6, <3>1, <4>1
        <5> QED
          BY <1>6, <4>1, <5>1, SequencesEqual
      <4>3. Y1 = Append(Y, c)
        <5>1. ASSUME NEW k \in 1..t + 1
              PROVE  Y1[k] = Append(Y, c)[k]
          <6>1. CASE k \in 1..t
            <7>1. g + k - 1 \in 0..g + t - 1
              BY <1>2, <6>1
            <7> QED
              BY <1>2, <1>6, <3>1, <3>2, <4>1, <6>1, <7>1
          <6>2. CASE k = t + 1
            <7>1. g + k - 1 = g + t
              BY <1>2, <6>2
            <7> QED
              BY <1>2, <1>6, <3>1, <3>2, <4>1, <6>2, <7>1
          <6>3. k \in 1..t \/ k = t + 1
            BY <1>2
          <6> QED
            BY <6>1, <6>2, <6>3
        <5> QED
          BY <3>3, <4>1, <5>1, SequencesEqual
      <4>4. C!Terminal!Type(c)
        BY <1>2, <1>3, <1>4, <1>6, <3>1, <3>3, <3>5, <4>2, <4>3 DEF C!Terminal!Type
      <4> QED
        BY <4>4 DEF C!Terminal!Next
    <3> QED
      BY <3>4, <3>5
  <2>4. CASE C!Ignored(key)
    BY <2>2, <2>4 DEF C!Ignored, C!Stored
  <2>5. CASE C!backspace(key)
    <3>1. t \in Nat \ {0} /\ Placed(g, t - 1)' /\ buf' = buf
      BY <1>1, <1>2, <2>2, <2>5, KeyErased DEF C!backspace
    <3>2. \A k : Cell(k)' = Cell(k)
      BY <2>2, <3>1 DEF Cell
    <3>3. /\ G1 \in Seq(InBuffer) /\ Len(G1) = g /\ \A k \in 1..g : G1[k] = Cell(k - 1)'
          /\ Y1 \in Seq(InBuffer) /\ Len(Y1) = t - 1
          /\ \A k \in 1..t - 1 : Y1[k] = Cell(g + k - 1)'
      BY <1>5, <3>1
    <3>4. G1 = G
      <4>1. \A k \in 1..g : G1[k] = G[k]
        BY <1>6, <3>2, <3>3
      <4> QED
        BY <1>6, <3>3, <4>1, SequencesEqual
    <3>5. PICK F \in Seq(InBuffer) : F = SubSeq(Y, 1, t - 1) /\ Len(F) = t - 1
                                     /\ \A k \in 1..t - 1 : F[k] = Y[k]
      <4>1. 1 \in 1..Len(Y) + 1 /\ t - 1 \in 1 - 1..Len(Y)
        BY <1>6, <3>1
      <4>2. /\ SubSeq(Y, 1, t - 1) \in Seq(InBuffer) /\ Len(SubSeq(Y, 1, t - 1)) = t - 1 - 1 + 1
            /\ \A k \in 1..t - 1 - 1 + 1 : SubSeq(Y, 1, t - 1)[k] = Y[1 + k - 1]
        BY <1>6, <4>1, SubSeqPart
      <4>3. t - 1 - 1 + 1 = t - 1 /\ \A k \in 1..t - 1 : 1 + k - 1 = k
        BY <3>1
      <4> QED
        BY <4>2, <4>3
    <3>6. Y1 = F
      <4>1. \A k \in 1..t - 1 : Y1[k] = F[k]
        BY <1>2, <1>6, <3>2, <3>3, <3>5
      <4> QED
        BY <3>3, <3>5, <4>1, SequencesEqual
    <3>7. C!Terminal!Erase
      BY <1>3, <1>4, <1>6, <3>1, <3>4, <3>5, <3>6 DEF C!Terminal!Erase, C!Terminal!Front
    <3> QED
      BY <3>7 DEF C!Terminal!Next
  <2>6. CASE C!kill_line(key)
    <3>1. Placed(g, 0)' /\ buf' = buf
      BY <1>1, <1>2, <2>2, <2>6, LineErased DEF C!kill_line
    <3>2. \A k : Cell(k)' = Cell(k)
      BY <2>2, <3>1 DEF Cell
    <3>3. /\ G1 \in Seq(InBuffer) /\ Len(G1) = g /\ \A k \in 1..g : G1[k] = Cell(k - 1)'
          /\ Y1 \in Seq(InBuffer) /\ Len(Y1) = 0
      BY <1>5, <3>1
    <3>4. G1 = G
      <4>1. \A k \in 1..g : G1[k] = G[k]
        BY <1>6, <3>2, <3>3
      <4> QED
        BY <1>6, <3>3, <4>1, SequencesEqual
    <3>5. C!Terminal!EraseLine
      BY <1>3, <1>4, <3>3, <3>4 DEF C!Terminal!EraseLine
    <3> QED
      BY <3>5 DEF C!Terminal!Next
  <2> QED
    BY <2>1, <2>3, <2>4, <2>5, <2>6
<1>8. ASSUME NEW p \in Reader, C!consoleread(p)
      PROVE  C!Terminal!Next \/ Same
  <2> DEFINE x == C!Take(reader[p].n - Len(reader[p].got), reader[p].got)
  <2>1. x.used \in 0..g
    BY <1>1, <1>2, CharsTaken
  <2>2. r' = C!Plus(r, x.used) /\ UNCHANGED <<buf, cw, e>>
    BY <1>8 DEF C!consoleread
  <2> HIDE DEF x
  <2>3. PICK u \in 0..g : u = x.used
    BY <2>1
  <2>4. /\ Placed(g - u, t)' /\ (u = 0 => r' = r)
        /\ \A k \in 0..g + t - u - 1 : Cell(k)' = Cell(k + u)
    BY <1>1, <1>2, <2>2, <2>3, CharsMoved
  <2>5. CASE u = 0
    BY <2>2, <2>4, <2>5 DEF C!Stored
  <2>6. CASE u # 0
    <3>1. u \in 1..INPUT_BUF /\ u <= g /\ g - u \in Nat
      BY <1>2, <2>6
    <3>2. /\ G1 \in Seq(InBuffer) /\ Len(G1) = g - u /\ \A k \in 1..g - u : G1[k] = Cell(k - 1)'
          /\ Y1 \in Seq(InBuffer) /\ Len(Y1) = t /\ \A k \in 1..t : Y1[k] = Cell(g - u + k - 1)'
      BY <1>5, <2>4
    <3>3. PICK F \in Seq(InBuffer) : F = SubSeq(G, u + 1, g) /\ Len(F) = g - u
                                     /\ \A k \in 1..g - u : F[k] = G[u + k]
      <4>1. PICK m \in 1..Len(G) + 1 : m = u + 1 /\ g \in m - 1..Len(G)
        BY <1>2, <1>6, <3>1
      <4>2. /\ SubSeq(G, m, g) \in Seq(InBuffer) /\ Len(SubSeq(G, m, g)) = g - m + 1
            /\ \A k \in 1..g - m + 1 : SubSeq(G, m, g)[k] = G[m + k - 1]
        BY <1>6, <4>1, SubSeqPart
      <4>3. g - m + 1 = g - u /\ \A k \in 1..g - u : m + k - 1 = u + k
        BY <1>2, <3>1, <4>1
      <4>4. PICK F : F = SubSeq(G, m, g)
        OBVIOUS
      <4>5. F \in Seq(InBuffer) /\ Len(F) = g - u
        BY <4>2, <4>3, <4>4
      <4>6. \A k \in 1..g - u : F[k] = G[u + k]
        BY <4>2, <4>3, <4>4
      <4>7. F = SubSeq(G, u + 1, g)
        BY <4>1, <4>4
      <4> QED
        BY <4>5, <4>6, <4>7
    <3>4. G1 = F
      <4>1. ASSUME NEW k \in 1..g - u
            PROVE  G1[k] = F[k]
        <5>1. k - 1 \in 0..g + t - u - 1 /\ k - 1 + u = u + k - 1 /\ u + k \in 1..g
          BY <1>2, <3>1
        <5> QED
          BY <1>6, <2>4, <3>2, <3>3, <5>1
      <4> QED
        BY <3>2, <3>3, <4>1, SequencesEqual
    <3>5. Y1 = Y
      <4>1. ASSUME NEW k \in 1..t
            PROVE  Y1[k] = Y[k]
        <5>1. g - u + k - 1 \in 0..g + t - u - 1 /\ (g - u + k - 1) + u = g + k - 1
          BY <1>2, <3>1
        <5> QED
          BY <1>6, <2>4, <3>2, <5>1
      <4> QED
        BY <1>6, <3>2, <4>1, SequencesEqual
    <3>6. C!Terminal!Take(u)
      BY <1>3, <1>4, <1>6, <3>1, <3>3, <3>4, <3>5 DEF C!Terminal!Take
    <3> QED
      BY <3>1, <3>6 DEF C!Terminal!Next
  <2> QED
    BY <2>5, <2>6
<1>9. UNCHANGED <<buf, r, cw, e>> => Same
  BY DEF C!Stored
<1>10. \/ C!consoleintr \/ \E p \in Reader : C!consoleread(p)
       \/ UNCHANGED <<buf, r, cw, e>>
  BY DEF ConsoleNext, consvars, C!kvars, C!InputNext, C!ClockNext, C!consoleread_sleep,
         C!consoleread_call, C!kill, C!trap_timer, C!sys_sleep_call, C!sys_sleep,
         C!sys_sleep_sleep, C!sys_sleep_return
<1> QED
  BY <1>7, <1>8, <1>9, <1>10

(* For every size of the input buffer that divides the range of the        *)
(* unsigned integers: the buffer with its three wrapping indices is a      *)
(* terminal of lines.  consoleintr edits only what was not given yet, no   *)
(* character is lost, doubled or overwritten, readers get them in order,   *)
(* and a full buffer is given to them (console.c).                         *)
THEOREM ConsoleImplementsLines == ConsoleSpec => LineSpec
PROOF
<1>1. C!Init => C!Terminal!Init
  <2> SUFFICES ASSUME C!Init PROVE C!Terminal!Init
    OBVIOUS
  <2>1. InputTypes /\ r = cw /\ cw = e
    BY ConsoleInit DEF InputInv, C!Init
  <2>2. PICK g \in 0..INPUT_BUF, t \in 0..INPUT_BUF : Placed(g, t)
    BY ConsoleInit DEF InputInv
  <2>3. g = 0 /\ t = 0
    BY <2>1, <2>2, PlacedIs DEF InputTypes
  <2>4. Shows(C!Stored(r, cw), C!Stored(cw, e), 0, 0)
    BY <2>1, <2>2, <2>3, StoredIs
  <2> QED
    BY <2>4 DEF Shows, C!Terminal!Init
<1>2. InputInv /\ InputInv' /\ [ConsoleNext]_consvars
        => [C!Terminal!Next]_<<C!Stored(r, cw), C!Stored(cw, e)>>
  BY LineStep
<1>3. C!Init => InputInv
  BY ConsoleInit
<1>4. InputInv /\ [ConsoleNext]_consvars => InputInv'
  BY InputStep
<1> QED
  BY <1>1, <1>2, <1>3, <1>4, PTL DEF ConsoleSpec, LineSpec, C!LineSpec, C!Terminal!Spec

-----------------------------------------------------------------------------
(* The table of open files. *)

TableSpec == T!Init /\ [][T!Next]_tvars

(* FileTable counts and adds as this module does. *)
LEMMA TableCounts == \A S : T!Cardinality(S) = Cardinality(S)
PROOF
  BY DEF Cardinality, T!Cardinality

(* And their sums. *)
LEMMA TableSums == \A f : T!SumFunction(f) = SumFunction(f)
PROOF
  BY DEF T!SumFunction, T!SumFunctionOnSet, T!FoldFunctionOnSet, T!MapThenFoldSet,
         SumFunction, SumFunctionOnSet, FoldFunctionOnSet, MapThenFoldSet

(* One value is not above the sum of all, if none is negative. *)
LEMMA SumAtLeast ==
  ASSUME NEW S, IsFiniteSet(S), NEW f \in [S -> Nat], NEW x \in S
  PROVE  f[x] <= SumFunction(f) /\ SumFunction(f) \in Nat
PROOF
<1>0. f \in [S -> Int] /\ \A y \in S : f[y] \in Nat
  OBVIOUS
<1>1. \A h \in [S -> Nat] : SumFunction(h) >= 0 /\ SumFunction(h) \in Int
  <2> SUFFICES ASSUME NEW h \in [S -> Nat]
               PROVE  SumFunction(h) >= 0 /\ SumFunction(h) \in Int
    OBVIOUS
  <2>0. h \in [S -> Int] /\ \A y \in S : h[y] \in Nat
    OBVIOUS
  <2> DEFINE bad == {s \in SUBSET S : ~(Iter(h, S)[s] \in Nat)}
  <2>1. bad = {}
    <3> SUFFICES ASSUME bad # {} PROVE FALSE
      OBVIOUS
    <3>1. PICK s \in bad : \A t \in bad : Cardinality(s) <= Cardinality(t)
      BY SmallestSubset
    <3>2. s # {}
      BY <2>0, IterStep
    <3>3. /\ Picked(s) \in s /\ RestOf(s) \in SUBSET S
          /\ Cardinality(s) \in Nat /\ Cardinality(RestOf(s)) = Cardinality(s) - 1
      BY <3>2, RestSmaller
    <3>4. Iter(h, S)[RestOf(s)] \in Nat /\ h[Picked(s)] \in Nat
      BY <2>0, <3>1, <3>3
    <3>5. Iter(h, S)[s] = h[Picked(s)] + Iter(h, S)[RestOf(s)]
      BY <2>0, <3>2, IterStep
    <3> QED
      BY <3>4, <3>5
  <2>2. SumFunction(h) = Iter(h, S)[S]
    BY SumIs DEF SumFunction
  <2>3. Iter(h, S)[S] \in Nat
    BY <2>1
  <2> QED
    BY <2>2, <2>3
<1>2. PICK h \in [S -> Nat] : h = [f EXCEPT ![x] = 0]
  OBVIOUS
<1>3. h \in [S -> Int] /\ h[x] = 0 /\ \A y \in S : y # x => h[y] = f[y]
  BY <1>2
<1>4. SumFunction(h) = SumFunction(f) - f[x] + h[x]
  BY <1>0, <1>3, SumChanges
<1>5. SumFunction(h) >= 0 /\ SumFunction(f) >= 0 /\ SumFunction(f) \in Int /\ SumFunction(h) \in Int
  BY <1>1
<1> QED
  BY <1>0, <1>3, <1>4, <1>5

(* 1 for equal values, otherwise 0; and how many elements of D a function maps   *)
(* to f.                                                                   *)
Same(a, b) == IF a = b THEN 1 ELSE 0
Count(h, D, f) == Cardinality({d \in D : h[d] = f})

(* A count is a number. *)
LEMMA CountType ==
  ASSUME NEW D, IsFiniteSet(D), NEW h, NEW f
  PROVE  Count(h, D, f) \in Nat /\ IsFiniteSet({d \in D : h[d] = f})
PROOF
  BY FS_Subset, FS_CardinalityType DEF Count

(* Counting after one value has changed. *)
LEMMA CountPut ==
  ASSUME NEW D, IsFiniteSet(D), NEW h, NEW g, NEW d \in D,
         \A x \in D : x # d => g[x] = h[x], NEW f
  PROVE  Count(g, D, f) = Count(h, D, f) - Same(h[d], f) + Same(g[d], f)
PROOF
<1> DEFINE A == {x \in D : h[x] = f}
           B == {x \in D : g[x] = f}
           R == {x \in D : x # d /\ h[x] = f}
<1>1. IsFiniteSet(R) /\ Cardinality(R) \in Nat
  BY FS_Subset, FS_CardinalityType
<1>2. A = IF h[d] = f THEN R \cup {d} ELSE R
  OBVIOUS
<1>3. B = IF g[d] = f THEN R \cup {d} ELSE R
  OBVIOUS
<1>4. Cardinality(R \cup {d}) = Cardinality(R) + 1
  BY <1>1, FS_AddElement
<1> HIDE DEF A, B, R
<1>5. Cardinality(A) = Cardinality(R) + Same(h[d], f)
  BY <1>1, <1>2, <1>4 DEF Same
<1>6. Cardinality(B) = Cardinality(R) + Same(g[d], f)
  BY <1>1, <1>3, <1>4 DEF Same
<1>7. Same(h[d], f) \in Nat /\ Same(g[d], f) \in Nat
  BY DEF Same
<1> QED
  BY <1>1, <1>5, <1>6, <1>7 DEF A, B, Count

(* Something counted is there. *)
LEMMA CountSome ==
  ASSUME NEW D, IsFiniteSet(D), NEW h, NEW f
  PROVE  /\ Count(h, D, f) = 0 <=> \A d \in D : h[d] # f
         /\ Count(h, D, f) = 1 => \A d, c \in D : h[d] = f /\ h[c] = f => d = c
PROOF
<1> DEFINE A == {x \in D : h[x] = f}
<1>1. IsFiniteSet(A) /\ Count(h, D, f) = Cardinality(A)
  BY FS_Subset DEF Count
<1>2. Count(h, D, f) = 0 <=> A = {}
  BY <1>1, FS_EmptySet
<1>3. Cardinality(A) = 1 => \E x : A = {x}
  BY <1>1, FS_Singleton
<1> QED
  BY <1>1, <1>2, <1>3

(* Occurrences in a sequence of at most two files. *)
LEMMA TimesShort ==
  ASSUME NEW S, NEW s \in Seq(S), NEW f
  PROVE  /\ T!Times(s, f) \in Nat
         /\ Len(s) = 0 => T!Times(s, f) = 0
         /\ Len(s) = 1 => T!Times(s, f) = Same(s[1], f)
         /\ Len(s) = 2 => T!Times(s, f) = Same(s[1], f) + Same(s[2], f)
PROOF
<1>1. DOMAIN s = 1..Len(s) /\ Len(s) \in Nat
  OBVIOUS
<1>2. IsFiniteSet(1..Len(s))
  BY <1>1, FS_Interval
<1>3. T!Times(s, f) = Count(s, 1..Len(s), f)
  BY <1>1, TableCounts DEF T!Times, Count
<1>4. T!Times(s, f) \in Nat
  BY <1>2, <1>3, CountType
<1>5. Len(s) = 0 => T!Times(s, f) = 0
  BY <1>2, <1>3, CountSome
<1>6. ASSUME Len(s) = 1
      PROVE  T!Times(s, f) = Same(s[1], f)
  <2>1. {n \in 1..Len(s) : s[n] = f} = IF s[1] = f THEN {1} ELSE {}
    BY <1>6
  <2> QED
    BY <1>3, <2>1, FS_EmptySet, FS_Singleton DEF Count, Same
<1>7. ASSUME Len(s) = 2
      PROVE  T!Times(s, f) = Same(s[1], f) + Same(s[2], f)
  <2>1. {n \in 1..Len(s) : s[n] = f}
          = (IF s[1] = f THEN {1} ELSE {}) \cup (IF s[2] = f THEN {2} ELSE {})
    BY <1>7
  <2>2. Cardinality({1}) = 1 /\ Cardinality({2}) = 1 /\ Cardinality({}) = 0
    BY FS_EmptySet, FS_Singleton
  <2>3. Cardinality({1} \cup {2}) = 2
    <3>1. IsFiniteSet({1})
      BY FS_Singleton
    <3>2. 2 \notin {1}
      OBVIOUS
    <3>3. Cardinality({1} \cup {2}) = Cardinality({1}) + 1
      BY <3>1, <3>2, FS_AddElement
    <3>4. Cardinality({1}) + 1 = 2
      BY <2>2
    <3> QED
      BY <3>3, <3>4, Zenon
  <2>4. Cardinality({1} \cup {}) = 1 /\ Cardinality({} \cup {2}) = 1 /\ Cardinality({} \cup {}) = 0
    <3>1. {1} \cup {} = {1} /\ {} \cup {2} = {2} /\ {} \cup {} = {}
      OBVIOUS
    <3> QED
      BY <2>2, <3>1
  <2>5. T!Times(s, f) = Cardinality((IF s[1] = f THEN {1} ELSE {})
                                      \cup (IF s[2] = f THEN {2} ELSE {}))
    BY <1>3, <2>1 DEF Count
  <2>6. CASE s[1] = f /\ s[2] = f
    <3>1. T!Times(s, f) = Cardinality({1} \cup {2})
      BY <2>5, <2>6
    <3>2. T!Times(s, f) = 2
      BY <2>3, <3>1, Zenon
    <3>3. Same(s[1], f) = 1 /\ Same(s[2], f) = 1
      BY <2>6 DEF Same
    <3> QED
      BY <3>2, <3>3
  <2>7. CASE s[1] = f /\ s[2] # f
    <3>1. T!Times(s, f) = Cardinality({1} \cup {})
      BY <2>5, <2>7
    <3>2. T!Times(s, f) = 1
      BY <2>4, <3>1, Zenon
    <3>3. Same(s[1], f) = 1 /\ Same(s[2], f) = 0
      BY <2>7 DEF Same
    <3> QED
      BY <3>2, <3>3
  <2>8. CASE s[1] # f /\ s[2] = f
    <3>1. T!Times(s, f) = Cardinality({} \cup {2})
      BY <2>5, <2>8
    <3>2. T!Times(s, f) = 1
      BY <2>4, <3>1, Zenon
    <3>3. Same(s[1], f) = 0 /\ Same(s[2], f) = 1
      BY <2>8 DEF Same
    <3> QED
      BY <3>2, <3>3
  <2>9. CASE s[1] # f /\ s[2] # f
    <3>1. T!Times(s, f) = Cardinality({} \cup {})
      BY <2>5, <2>9
    <3>2. T!Times(s, f) = 0
      BY <2>4, <3>1, Zenon
    <3>3. Same(s[1], f) = 0 /\ Same(s[2], f) = 0
      BY <2>9 DEF Same
    <3> QED
      BY <3>2, <3>3
  <2> QED
    BY <2>6, <2>7, <2>8, <2>9
<1> QED
  BY <1>4, <1>5, <1>6, <1>7

(* What a file may be for. *)
PipeEnds == {T!PipeEnd(k, x) : k \in T!PipeNo, x \in T!End}
Objects == {T!None, T!AnInode} \cup PipeEnds

TableTypes ==
  /\ ofile \in [FProc -> [T!Fd -> 0..NFILE]]
  /\ fref \in [T!FileNo -> Nat] /\ fobj \in [T!FileNo -> Objects]
  /\ pipes \in [T!PipeNo -> SUBSET T!End] /\ irefs \in Int
  /\ running \in SUBSET FProc /\ exiting \in SUBSET running
  /\ hand \in [FProc -> Seq(T!FileNo)] /\ closing \in [FProc -> Seq(T!FileNo)]
  /\ gone \in [FProc -> Objects]

(* A process does one thing at a time, and a free slot has no files. *)
Calls ==
  \A p \in FProc :
    /\ Len(hand[p]) \in 0..2 /\ Len(closing[p]) \in 0..2
    /\ Len(hand[p]) # 0 => Len(closing[p]) = 0 /\ gone[p] = T!None /\ p \notin exiting
    /\ Len(hand[p]) # 0 \/ Len(closing[p]) # 0 \/ gone[p] # T!None => p \in running
    /\ p \notin running => \A d \in T!Fd : ofile[p][d] = 0

(* A file that is just allocated is for nothing, and is one process's. *)
Fresh ==
  \A p \in FProc : \A n \in 1..Len(hand[p]) :
    /\ fobj[hand[p][n]] = T!None
    /\ \A q \in FProc : \A m \in 1..Len(hand[q]) : hand[p][n] = hand[q][m] => p = q /\ n = m

(* Who names a file, and who holds an object. *)
Named(p, f) == Count(ofile[p], T!Fd, f) + T!Times(hand[p], f) + T!Times(closing[p], f)
Counted == \A f \in T!FileNo : fref[f] = SumFunction([p \in FProc |-> Named(p, f)])
Unused == \A f \in T!FileNo : fref[f] = 0 => fobj[f] = T!None
HeldBy(x) == Count(fobj, T!FileNo, x) + Count(gone, FProc, x)
Held ==
  /\ irefs = HeldBy(T!AnInode)
  /\ \A k \in T!PipeNo, x \in T!End : HeldBy(T!PipeEnd(k, x)) = (IF x \in pipes[k] THEN 1 ELSE 0)

TableInv == TableTypes /\ Calls /\ Fresh /\ Counted /\ Unused /\ Held

(* The sets are finite, and 0 is not a file. *)
LEMMA TableSets ==
  /\ IsFiniteSet(FProc) /\ IsFiniteSet(T!FileNo) /\ IsFiniteSet(T!Fd)
  /\ 0 \notin T!FileNo /\ \A f \in 0..NFILE : f # 0 => f \in T!FileNo
  /\ T!FileNo \subseteq 0..NFILE /\ T!FileNo \subseteq Nat /\ T!Fd \subseteq Nat
  /\ T!PipeNo \subseteq Nat
PROOF
  BY TableAssumption, FS_Interval DEF T!FileNo, T!Fd, T!PipeNo

(* Objects are told apart. *)
LEMMA ObjectsDiffer ==
  /\ T!None # T!AnInode
  /\ \A k, x : T!PipeEnd(k, x) # T!None /\ T!PipeEnd(k, x) # T!AnInode
  /\ \A k, x : T!PipeEnd(k, x)[1] = "pipe" /\ T!PipeEnd(k, x)[2] = k /\ T!PipeEnd(k, x)[3] = x
  /\ T!AnInode[1] = "inode"
  /\ \A k, x, l, y : T!PipeEnd(k, x) = T!PipeEnd(l, y) => k = l /\ x = y
PROOF
  BY DEF T!None, T!AnInode, T!PipeEnd

(* Min finds an element. *)
LEMMA MinIn ==
  ASSUME NEW S \in SUBSET Nat, S # {}
  PROVE  T!Min(S) \in S
PROOF
<1>1. \E n \in S : \A m \in S : n <= m
  BY LeastNumber
<1> QED
  BY <1>1 DEF T!Min

(* The terms of a sum are not negative; a file that is named has            *)
(* references.                                                             *)
LEMMA NamedIs ==
  ASSUME TableTypes, Counted, NEW f \in T!FileNo, NEW p \in FProc
  PROVE  /\ Count(ofile[p], T!Fd, f) \in Nat /\ T!Times(hand[p], f) \in Nat
         /\ T!Times(closing[p], f) \in Nat
         /\ Named(p, f) \in Nat /\ Named(p, f) <= fref[f]
PROOF
<1>1. \A q \in FProc : /\ Count(ofile[q], T!Fd, f) \in Nat /\ T!Times(hand[q], f) \in Nat
                       /\ T!Times(closing[q], f) \in Nat
  BY TableSets, CountType, TimesShort DEF TableTypes
<1>2. \A q \in FProc : Named(q, f) \in Nat
  BY <1>1 DEF Named
<1>3. PICK g \in [FProc -> Nat] : g = [q \in FProc |-> Named(q, f)]
  BY <1>2
<1>4. g[p] <= SumFunction(g)
  BY TableSets, SumAtLeast
<1>5. fref[f] = SumFunction(g) /\ g[p] = Named(p, f)
  BY <1>3 DEF Counted
<1> QED
  BY <1>1, <1>2, <1>4, <1>5

(* A file without references is nowhere; one in hand or being closed has some. *)
LEMMA InUse ==
  ASSUME TableInv, NEW f \in T!FileNo
  PROVE  /\ fref[f] \in Nat
         /\ fref[f] = 0 => \A p \in FProc : /\ \A n \in 1..Len(hand[p]) : hand[p][n] # f
                                            /\ \A d \in T!Fd : ofile[p][d] # f
         /\ \A p \in FProc : \A n \in 1..Len(closing[p]) : closing[p][n] = f => fref[f] >= 1
         /\ \A p \in FProc : \A n \in 1..Len(hand[p]) : hand[p][n] = f => fref[f] >= 1
PROOF
<1>1. TableTypes /\ Counted /\ Calls /\ fref[f] \in Nat
  BY DEF TableInv, TableTypes
<1>2. ASSUME NEW p \in FProc
      PROVE  /\ fref[f] = 0 => \A d \in T!Fd : ofile[p][d] # f
             /\ \A n \in 1..Len(hand[p]) : hand[p][n] = f => fref[f] >= 1
             /\ \A n \in 1..Len(closing[p]) : closing[p][n] = f => fref[f] >= 1
  <2>1. /\ Count(ofile[p], T!Fd, f) \in Nat /\ T!Times(hand[p], f) \in Nat
        /\ T!Times(closing[p], f) \in Nat
        /\ Named(p, f) \in Nat /\ Named(p, f) <= fref[f]
    BY <1>1, NamedIs
  <2>2. Count(ofile[p], T!Fd, f) <= fref[f] /\ T!Times(hand[p], f) <= fref[f]
        /\ T!Times(closing[p], f) <= fref[f]
    BY <1>1, <2>1 DEF Named
  <2>3. fref[f] = 0 => \A d \in T!Fd : ofile[p][d] # f
    BY <2>1, <2>2, TableSets, CountSome
  <2>4. ASSUME NEW s \in Seq(T!FileNo), Len(s) \in 0..2, NEW n \in 1..Len(s), s[n] = f
        PROVE  T!Times(s, f) >= 1
    BY <2>4, TimesShort DEF Same
  <2>5. /\ hand[p] \in Seq(T!FileNo) /\ closing[p] \in Seq(T!FileNo)
        /\ Len(hand[p]) \in 0..2 /\ Len(closing[p]) \in 0..2
    BY <1>1 DEF TableTypes, Calls
  <2> QED
    BY <1>1, <2>1, <2>2, <2>3, <2>4, <2>5
<1> QED
  BY <1>1, <1>2

(* Counting stays right when one process's names of a file and the         *)
(* references change alike.                                                *)
LEMMA CountsMove ==
  ASSUME TableTypes, TableTypes', Counted, NEW p \in FProc,
         \A q \in FProc \ {p} : ofile'[q] = ofile[q] /\ hand'[q] = hand[q]
             /\ closing'[q] = closing[q],
         \A f \in T!FileNo :
           fref'[f] = fref[f] + (Count(ofile'[p], T!Fd, f) - Count(ofile[p], T!Fd, f))
                              + (T!Times(hand'[p], f) - T!Times(hand[p], f))
                              + (T!Times(closing'[p], f) - T!Times(closing[p], f))
  PROVE  Counted'
PROOF
<1> SUFFICES ASSUME NEW f \in T!FileNo
             PROVE  fref'[f] = SumFunction([q \in FProc |-> Named(q, f)'])
  BY DEF Counted
<1>1. \A q \in FProc : /\ Count(ofile[q], T!Fd, f) \in Nat /\ T!Times(hand[q], f) \in Nat
                       /\ T!Times(closing[q], f) \in Nat
  BY TableSets, CountType, TimesShort DEF TableTypes
<1>2. \A q \in FProc : /\ Count(ofile'[q], T!Fd, f) \in Nat /\ T!Times(hand'[q], f) \in Nat
                       /\ T!Times(closing'[q], f) \in Nat
  BY TableSets, CountType, TimesShort DEF TableTypes
<1>3. PICK g \in [FProc -> Int] : g = [q \in FProc |-> Named(q, f)]
  <2>1. \A q \in FProc : Named(q, f) \in Int
    BY <1>1 DEF Named
  <2> QED
    BY <2>1
<1>4. PICK h \in [FProc -> Int] : h = [q \in FProc |-> Named(q, f)']
  <2>1. \A q \in FProc : Named(q, f)' \in Int
    BY <1>2 DEF Named
  <2> QED
    BY <2>1
<1>5. \A q \in FProc : q # p => h[q] = g[q]
  BY <1>3, <1>4 DEF Named
<1>6. SumFunction(g) \in Int /\ SumFunction(h) = SumFunction(g) - g[p] + h[p]
  BY <1>5, TableSets, SumChanges
<1>7. fref[f] = SumFunction(g)
  BY <1>3 DEF Counted
<1>8. /\ g[p] = Count(ofile[p], T!Fd, f) + T!Times(hand[p], f) + T!Times(closing[p], f)
      /\ h[p] = Count(ofile'[p], T!Fd, f) + T!Times(hand'[p], f) + T!Times(closing'[p], f)
  BY <1>3, <1>4 DEF Named
<1>9. /\ Count(ofile[p], T!Fd, f) \in Nat /\ T!Times(hand[p], f) \in Nat
      /\ T!Times(closing[p], f) \in Nat /\ Count(ofile'[p], T!Fd, f) \in Nat
      /\ T!Times(hand'[p], f) \in Nat /\ T!Times(closing'[p], f) \in Nat
  BY <1>1, <1>2
<1>10. fref'[f] = SumFunction(h)
  BY <1>6, <1>7, <1>8, <1>9
<1> QED
  BY <1>4, <1>10

(* The objects stay counted when one of them moves. *)
LEMMA HeldSame ==
  ASSUME Held, UNCHANGED <<fobj, gone, irefs, pipes>>
  PROVE  Held'
PROOF
  BY DEF Held, HeldBy

(* Holders are a number. *)
LEMMA HoldTypes ==
  ASSUME NEW x
  PROVE  Count(fobj, T!FileNo, x) \in Nat /\ Count(gone, FProc, x) \in Nat /\ HeldBy(x) \in Nat
PROOF
<1>1. Count(fobj, T!FileNo, x) \in Nat /\ Count(gone, FProc, x) \in Nat
  BY TableSets, CountType
<1> QED
  BY <1>1 DEF HeldBy

(* fileclose. *)
LEMMA TableClose ==
  ASSUME TableInv, NEW p \in FProc, T!fileclose(p)
  PROVE  TableInv'
PROOF
<1>1. TableTypes /\ Calls /\ Fresh /\ Counted /\ Unused /\ Held
  BY DEF TableInv
<1>2. PICK s \in Seq(T!FileNo) : s = closing[p] /\ Len(s) \in {1, 2}
  BY <1>1 DEF TableTypes, Calls, T!fileclose
<1>3. PICK f \in T!FileNo : f = s[1] /\ f = Head(closing[p])
  BY <1>2
<1>4. fref[f] \in Nat /\ fref[f] >= 1
  BY <1>2, <1>3, InUse
<1>5. PICK u \in Seq(T!FileNo) : u = Tail(s) /\ Len(u) = Len(s) - 1
                                 /\ (Len(s) = 2 => u[1] = s[2])
  <2>1. s # <<>>
    BY <1>2
  <2>2. Tail(s) \in Seq(T!FileNo) /\ Len(Tail(s)) = Len(s) - 1
    BY <2>1
  <2>3. Len(s) = 2 => Tail(s)[1] = s[2]
    <3>1. \A i \in 1..Len(s) - 1 : Tail(s)[i] = s[i + 1]
      BY <2>1
    <3>2. 1 + 1 = 2 /\ (Len(s) = 2 => 1 \in 1..Len(s) - 1)
      OBVIOUS
    <3> QED
      BY <3>1, <3>2
  <2> QED
    BY <2>2, <2>3
<1>6. /\ fref' = [fref EXCEPT ![f] = fref[f] - 1] /\ closing' = [closing EXCEPT ![p] = u]
      /\ UNCHANGED <<ofile, pipes, irefs, running, hand, exiting>> /\ gone[p] = T!None
      /\ IF fref[f] > 1 THEN fobj' = fobj /\ gone' = gone
         ELSE gone' = [gone EXCEPT ![p] = fobj[f]] /\ fobj' = [fobj EXCEPT ![f] = T!None]
  BY <1>2, <1>3, <1>5 DEF T!fileclose
<1>7. TableTypes'
  <2>1. fref' \in [T!FileNo -> Nat]
    BY <1>1, <1>4, <1>6 DEF TableTypes
  <2>2. fobj' \in [T!FileNo -> Objects] /\ gone' \in [FProc -> Objects]
    BY <1>1, <1>6 DEF TableTypes, Objects
  <2> QED
    BY <1>1, <1>6, <2>1, <2>2 DEF TableTypes
<1>8. Calls'
  <2>1. \A q \in FProc : q # p => closing'[q] = closing[q] /\ gone'[q] = gone[q]
    BY <1>1, <1>6 DEF TableTypes
  <2>2. closing'[p] = u /\ Len(u) \in 0..2 /\ p \in running /\ Len(hand[p]) = 0
    <3>1. closing'[p] = u /\ Len(u) \in 0..2
      BY <1>1, <1>2, <1>5, <1>6 DEF TableTypes
    <3>2. p \in running /\ Len(hand[p]) = 0
      <4>1. Len(s) # 0
        <5>1. Len(s) = 1 \/ Len(s) = 2
          BY <1>2, Zenon
        <5> QED
          BY <5>1
      <4>2. Len(closing[p]) # 0
        BY <1>2, <4>1, Zenon
      <4>3. p \in running
        BY <1>1, <4>2, Zenon DEF Calls
      <4>4. Len(hand[p]) = 0
        BY <1>1, <4>2, Zenon DEF Calls
      <4> QED
        BY <4>3, <4>4
    <3> QED
      BY <3>1, <3>2
  <2> QED
    BY <1>1, <1>6, <2>1, <2>2 DEF Calls
<1>9. Fresh'
  BY <1>1, <1>6 DEF Fresh, TableTypes
<1>10. Counted'
  <2>1. ASSUME NEW g \in T!FileNo
        PROVE  /\ T!Times(closing'[p], g) = T!Times(closing[p], g) - Same(f, g)
               /\ fref'[g] = fref[g] - Same(f, g)
    <3>1. T!Times(u, g) = T!Times(s, g) - Same(s[1], g)
      <4>1. T!Times(s, g) = IF Len(s) = 1 THEN Same(s[1], g) ELSE Same(s[1], g) + Same(s[2], g)
        BY <1>2, TimesShort
      <4>2. T!Times(u, g) = IF Len(s) = 1 THEN 0 ELSE Same(s[2], g)
        <5>1. CASE Len(s) = 1
          <6>1. Len(u) = 0
            BY <1>5, <5>1
          <6> QED
            BY <5>1, <6>1, TimesShort
        <5>2. CASE Len(s) = 2
          <6>1. Len(u) = 1
            BY <1>5, <5>2
          <6>2. u[1] = s[2]
            BY <1>5, <5>2
          <6> QED
            BY <5>2, <6>1, <6>2, TimesShort
        <5> QED
          BY <1>2, <5>1, <5>2
      <4> QED
        BY <4>1, <4>2 DEF Same
    <3>2. closing'[p] = u
      BY <1>1, <1>6 DEF TableTypes
    <3>3. fref'[g] = fref[g] - Same(f, g)
      BY <1>1, <1>6 DEF TableTypes, Same
    <3> QED
      BY <1>2, <1>3, <3>1, <3>2, <3>3
  <2>2. \A q \in FProc \ {p} : ofile'[q] = ofile[q] /\ hand'[q] = hand[q]
            /\ closing'[q] = closing[q]
    BY <1>1, <1>6 DEF TableTypes
  <2>3. \A g \in T!FileNo :
           fref'[g] = fref[g] + (Count(ofile'[p], T!Fd, g) - Count(ofile[p], T!Fd, g))
                              + (T!Times(hand'[p], g) - T!Times(hand[p], g))
                              + (T!Times(closing'[p], g) - T!Times(closing[p], g))
    <3> SUFFICES ASSUME NEW g \in T!FileNo
                 PROVE  fref'[g] = fref[g] + (Count(ofile'[p], T!Fd, g) - Count(ofile[p], T!Fd, g))
                              + (T!Times(hand'[p], g) - T!Times(hand[p], g))
                              + (T!Times(closing'[p], g) - T!Times(closing[p], g))
      OBVIOUS
    <3>1. /\ Count(ofile[p], T!Fd, g) \in Nat /\ T!Times(hand[p], g) \in Nat
          /\ T!Times(closing[p], g) \in Nat /\ fref[g] \in Nat /\ Same(f, g) \in Nat
      BY <1>1, NamedIs DEF TableTypes, Same
    <3> QED
      BY <1>6, <2>1, <3>1
  <2> QED
    BY <1>1, <1>7, <2>2, <2>3, CountsMove
<1>11. Unused'
  BY <1>1, <1>4, <1>6 DEF Unused, TableTypes
<1>12. Held'
  <2>1. CASE fref[f] > 1
    BY <1>1, <1>6, <2>1, HeldSame
  <2>2. CASE ~(fref[f] > 1)
    <3>1. ASSUME NEW x, x # T!None
          PROVE  HeldBy(x)' = HeldBy(x)
      <4>1. \A g \in T!FileNo : g # f => fobj'[g] = fobj[g]
        BY <1>1, <1>6, <2>2 DEF TableTypes
      <4>2. \A q \in FProc : q # p => gone'[q] = gone[q]
        BY <1>1, <1>6, <2>2 DEF TableTypes
      <4>3. fobj'[f] = T!None /\ gone[p] = T!None /\ gone'[p] = fobj[f]
        BY <1>1, <1>6, <2>2 DEF TableTypes
      <4>4. Count(fobj', T!FileNo, x) = Count(fobj, T!FileNo, x) - Same(fobj[f], x)
                + Same(fobj'[f], x)
        <5>1. IsFiniteSet(FProc) /\ IsFiniteSet(T!FileNo)
          BY TableSets
        <5> QED
          BY <4>1, <5>1, CountPut
      <4>5. Count(gone', FProc, x) = Count(gone, FProc, x) - Same(gone[p], x) + Same(gone'[p], x)
        <5>1. IsFiniteSet(FProc) /\ IsFiniteSet(T!FileNo)
          BY TableSets
        <5> QED
          BY <4>2, <5>1, CountPut
      <4>6. Same(T!None, x) = 0 /\ Same(fobj[f], x) \in Nat
        BY <3>1 DEF Same
      <4> QED
        BY <4>3, <4>4, <4>5, <4>6, HoldTypes DEF HeldBy
    <3> QED
      BY <1>1, <1>6, <3>1, ObjectsDiffer DEF Held
  <2> QED
    BY <2>1, <2>2
<1> QED
  BY <1>7, <1>8, <1>9, <1>10, <1>11, <1>12 DEF TableInv

(* The second part of fileclose: pipeclose or iput. *)
LEMMA TableRelease ==
  ASSUME TableInv, NEW p \in FProc, T!release(p)
  PROVE  TableInv'
PROOF
<1>1. TableTypes /\ Calls /\ Fresh /\ Counted /\ Unused /\ Held
  BY DEF TableInv
<1>2. /\ gone[p] # T!None /\ gone' = [gone EXCEPT ![p] = T!None]
      /\ UNCHANGED <<ofile, fref, fobj, running, hand, closing, exiting>>
      /\ IF gone[p][1] = "pipe"
         THEN pipes' = [pipes EXCEPT ![gone[p][2]] = pipes[gone[p][2]] \ {gone[p][3]}]
             /\ irefs' = irefs
         ELSE irefs' = irefs - 1 /\ pipes' = pipes
  BY DEF T!release
<1>3. gone[p] = T!AnInode \/ \E k \in T!PipeNo, x \in T!End : gone[p] = T!PipeEnd(k, x)
  BY <1>1, <1>2 DEF TableTypes, Objects, PipeEnds
<1>4. TableTypes'
  <2>1. pipes' \in [T!PipeNo -> SUBSET T!End] /\ irefs' \in Int
    <3>1. CASE gone[p] = T!AnInode
      BY <1>1, <1>2, <3>1, ObjectsDiffer DEF TableTypes
    <3>2. ASSUME NEW k \in T!PipeNo, NEW x \in T!End, gone[p] = T!PipeEnd(k, x)
          PROVE  pipes' \in [T!PipeNo -> SUBSET T!End] /\ irefs' \in Int
      <4>1. irefs' = irefs /\ pipes' = [pipes EXCEPT ![k] = pipes[k] \ {x}]
        BY <1>2, <3>2, ObjectsDiffer
      <4> QED
        BY <1>1, <4>1 DEF TableTypes
    <3> QED
      BY <1>3, <3>1, <3>2
  <2> QED
    BY <1>1, <1>2, <2>1 DEF TableTypes, Objects
<1>5. Calls'
  BY <1>1, <1>2 DEF Calls, TableTypes
<1>6. Fresh' /\ Unused'
  BY <1>1, <1>2 DEF Fresh, Unused
<1>7. Counted'
  BY <1>1, <1>2 DEF Counted, Named
<1>8. ASSUME NEW x, x # T!None
      PROVE  HeldBy(x)' = HeldBy(x) - Same(gone[p], x) /\ (gone[p] = x => HeldBy(x) >= 1)
  <2>1. \A q \in FProc : q # p => gone'[q] = gone[q]
    BY <1>1, <1>2 DEF TableTypes
  <2>2. gone'[p] = T!None
    BY <1>1, <1>2 DEF TableTypes
  <2>3. Count(gone', FProc, x) = Count(gone, FProc, x) - Same(gone[p], x) + Same(gone'[p], x)
    <3>1. IsFiniteSet(FProc) /\ IsFiniteSet(T!FileNo)
      BY TableSets
    <3>2. PICK a, b : a = gone /\ b = gone'
      OBVIOUS
    <3>3. \A q \in FProc : q # p => b[q] = a[q]
      BY <2>1, <3>2
    <3>4. \A y : Count(b, FProc, y) = Count(a, FProc, y) - Same(a[p], y) + Same(b[p], y)
      BY <3>1, <3>3, CountPut
    <3> QED
      BY <3>2, <3>4
  <2>4. Same(gone'[p], x) = 0 /\ Same(gone[p], x) \in Nat
    BY <1>8, <2>2 DEF Same
  <2>5. gone[p] = x => Count(gone, FProc, x) # 0
    BY TableSets, CountSome
  <2> QED
    BY <1>2, <2>3, <2>4, <2>5, HoldTypes DEF HeldBy
<1>9. Held'
  <2>1. CASE gone[p] = T!AnInode
    <3>1. irefs' = irefs - 1 /\ pipes' = pipes
      BY <1>2, <2>1, ObjectsDiffer
    <3>2. HeldBy(T!AnInode)' = HeldBy(T!AnInode) - 1
      BY <1>8, <2>1, ObjectsDiffer DEF Same
    <3>3. \A k \in T!PipeNo, x \in T!End : HeldBy(T!PipeEnd(k, x))' = HeldBy(T!PipeEnd(k, x))
      BY <1>8, <2>1, ObjectsDiffer, HoldTypes DEF Same
    <3> QED
      BY <1>1, <3>1, <3>2, <3>3 DEF Held
  <2>2. ASSUME NEW k \in T!PipeNo, NEW x \in T!End, gone[p] = T!PipeEnd(k, x)
        PROVE  Held'
    <3>1. irefs' = irefs /\ pipes' = [pipes EXCEPT ![k] = pipes[k] \ {x}]
      BY <1>2, <2>2, ObjectsDiffer
    <3>2. HeldBy(T!AnInode)' = HeldBy(T!AnInode)
      BY <1>8, <2>2, ObjectsDiffer, HoldTypes DEF Same
    <3>3. ASSUME NEW l \in T!PipeNo, NEW y \in T!End
          PROVE  HeldBy(T!PipeEnd(l, y))' = (IF y \in pipes'[l] THEN 1 ELSE 0)
      <4>1. HeldBy(T!PipeEnd(l, y))' = HeldBy(T!PipeEnd(l, y))
                - Same(T!PipeEnd(k, x), T!PipeEnd(l, y))
        BY <1>8, <2>2, ObjectsDiffer
      <4>2. HeldBy(T!PipeEnd(l, y)) = (IF y \in pipes[l] THEN 1 ELSE 0)
        BY <1>1 DEF Held
      <4>3. CASE k = l /\ x = y
        <5>1. HeldBy(T!PipeEnd(l, y)) >= 1
          BY <1>8, <2>2, <4>3, ObjectsDiffer
        <5>2. y \notin pipes'[l]
          BY <1>1, <3>1, <4>3 DEF TableTypes
        <5> QED
          BY <4>1, <4>2, <4>3, <5>1, <5>2 DEF Same
      <4>4. CASE ~(k = l /\ x = y)
        <5>1. Same(T!PipeEnd(k, x), T!PipeEnd(l, y)) = 0
          BY <4>4, ObjectsDiffer DEF Same
        <5>2. y \in pipes'[l] <=> y \in pipes[l]
          BY <1>1, <3>1, <4>4 DEF TableTypes
        <5> QED
          BY <4>1, <4>2, <5>1, <5>2, HoldTypes DEF Same
      <4> QED
        BY <4>3, <4>4
    <3> QED
      BY <1>1, <3>1, <3>2, <3>3 DEF Held
  <2> QED
    BY <1>3, <2>1, <2>2
<1> QED
  BY <1>4, <1>5, <1>6, <1>7, <1>9 DEF TableInv

(* A descriptor that is set. *)
LEMMA PutFd ==
  ASSUME NEW h \in [T!Fd -> 0..NFILE], NEW d \in T!Fd, NEW v \in 0..NFILE
  PROVE  /\ [h EXCEPT ![d] = v] \in [T!Fd -> 0..NFILE]
         /\ \A g : Count([h EXCEPT ![d] = v], T!Fd, g) = Count(h, T!Fd, g) - Same(h[d], g)
             + Same(v, g)
PROOF
<1>1. PICK u \in [T!Fd -> 0..NFILE] : u = [h EXCEPT ![d] = v]
  OBVIOUS
<1>2. u[d] = v /\ \A x \in T!Fd : x # d => u[x] = h[x]
  BY <1>1
<1>3. IsFiniteSet(T!Fd)
  BY TableSets
<1>4. \A g : Count(u, T!Fd, g) = Count(h, T!Fd, g) - Same(h[d], g) + Same(u[d], g)
  BY <1>2, <1>3, CountPut
<1> QED
  BY <1>1, <1>2, <1>4

(* The object of a file that is set. *)
LEMMA PutObj ==
  ASSUME NEW h \in [T!FileNo -> Objects], NEW f \in T!FileNo, NEW v \in Objects
  PROVE  /\ [h EXCEPT ![f] = v] \in [T!FileNo -> Objects]
         /\ \A x : Count([h EXCEPT ![f] = v], T!FileNo, x)
                    = Count(h, T!FileNo, x) - Same(h[f], x) + Same(v, x)
PROOF
<1>1. PICK u \in [T!FileNo -> Objects] : u = [h EXCEPT ![f] = v]
  OBVIOUS
<1>2. u[f] = v /\ \A g \in T!FileNo : g # f => u[g] = h[g]
  BY <1>1
<1>3. IsFiniteSet(T!FileNo)
  BY TableSets
<1>4. \A x : Count(u, T!FileNo, x) = Count(h, T!FileNo, x) - Same(h[f], x) + Same(u[f], x)
  BY <1>2, <1>3, CountPut
<1> QED
  BY <1>1, <1>2, <1>4

(* One file in a list. *)
LEMMA TimesOne ==
  ASSUME NEW f \in T!FileNo, NEW g
  PROVE  /\ <<f>> \in Seq(T!FileNo) /\ Len(<<f>>) = 1 /\ T!Times(<<f>>, g) = Same(f, g)
         /\ <<>> \in Seq(T!FileNo) /\ Len(<<>>) = 0 /\ T!Times(<<>>, g) = 0
PROOF
<1>1. PICK s \in Seq(T!FileNo) : s = <<f>> /\ Len(s) = 1 /\ s[1] = f
  <2>1. <<f>> \in Seq(T!FileNo)
    OBVIOUS
  <2>2. Len(<<f>>) = 1 /\ <<f>>[1] = f
    OBVIOUS
  <2> QED
    BY <2>1, <2>2
<1>2. PICK u \in Seq(T!FileNo) : u = <<>> /\ Len(u) = 0
  <2>1. <<>> \in Seq(T!FileNo)
    OBVIOUS
  <2>2. Len(<<>>) = 0
    OBVIOUS
  <2> QED
    BY <2>1, <2>2
<1>3. T!Times(s, g) = Same(f, g) /\ T!Times(u, g) = 0
  BY <1>1, <1>2, TimesShort
<1> QED
  BY <1>1, <1>2, <1>3

(* Free files and free descriptors. *)
LEMMA Allocates ==
  ASSUME TableInv
  PROVE  /\ T!FreeFiles # {} => T!filealloc \in T!FileNo /\ fref[T!filealloc] = 0
         /\ \A p \in FProc : T!FreeFds(p) # {}
              => T!fdalloc(p) \in T!Fd /\ ofile[p][T!fdalloc(p)] = 0
PROOF
<1>1. T!FreeFiles \in SUBSET Nat /\ \A p \in FProc : T!FreeFds(p) \in SUBSET Nat
  BY TableSets DEF T!FreeFiles, T!FreeFds
<1>2. T!FreeFiles # {} => T!filealloc \in T!FreeFiles
  BY <1>1, MinIn DEF T!filealloc
<1>3. \A p \in FProc : T!FreeFds(p) # {} => T!fdalloc(p) \in T!FreeFds(p)
  BY <1>1, MinIn DEF T!fdalloc
<1> QED
  BY <1>2, <1>3 DEF T!FreeFiles, T!FreeFds

(* sys_open. *)
LEMMA TableOpen ==
  ASSUME TableInv, NEW p \in FProc, T!sys_open(p)
  PROVE  TableInv'
PROOF
<1>1. TableTypes /\ Calls /\ Fresh /\ Counted /\ Unused /\ Held
  BY DEF TableInv
<1>2. PICK f \in T!FileNo : f = T!filealloc /\ fref[f] = 0
  BY Allocates DEF T!sys_open
<1>3. /\ p \in running /\ p \notin exiting /\ hand[p] = <<>> /\ closing[p] = <<>>
      /\ gone[p] = T!None
      /\ fref' = [fref EXCEPT ![f] = 1]
      /\ UNCHANGED <<pipes, running, hand, gone, exiting>>
  BY <1>2 DEF T!sys_open, T!User
<1>4. fobj[f] = T!None /\ \A q \in FProc : \A n \in 1..Len(hand[q]) : hand[q][n] # f
  BY <1>1, <1>2, InUse DEF Unused
<1>5. ASSUME NEW g \in T!FileNo
      PROVE  /\ Count(ofile[p], T!Fd, g) \in Nat /\ T!Times(hand[p], g) \in Nat
             /\ T!Times(closing[p], g) = 0 /\ fref[g] \in Nat /\ Same(f, g) \in Nat
             /\ fref'[g] = fref[g] + Same(f, g)
  <2>1. fref'[g] = fref[g] + Same(f, g)
    BY <1>1, <1>2, <1>3 DEF TableTypes, Same
  <2> QED
    BY <1>1, <1>3, <2>1, NamedIs, TimesOne DEF TableTypes, Same
<1>6. CASE T!FreeFds(p) = {}
  <2>1. closing' = [closing EXCEPT ![p] = <<f>>] /\ UNCHANGED <<ofile, fobj, irefs>>
    BY <1>2, <1>6 DEF T!sys_open
  <2>2. <<f>> \in Seq(T!FileNo) /\ Len(<<f>>) = 1 /\ \A g : T!Times(<<f>>, g) = Same(f, g)
    BY TimesOne
  <2>3. TableTypes'
    BY <1>1, <1>3, <2>1, <2>2 DEF TableTypes
  <2>4. closing'[p] = <<f>> /\ \A q \in FProc : q # p => closing'[q] = closing[q]
    BY <1>1, <2>1 DEF TableTypes
  <2>5. Len(hand[p]) = 0
    BY <1>3
  <2>6. Calls'
    BY <1>1, <1>3, <2>1, <2>2, <2>4, <2>5 DEF Calls
  <2>7. Fresh'
    BY <1>1, <1>3, <2>1 DEF Fresh
  <2>8. ASSUME NEW g \in T!FileNo
        PROVE  fref'[g] = fref[g] + (Count(ofile'[p], T!Fd, g) - Count(ofile[p], T!Fd, g))
                              + (T!Times(hand'[p], g) - T!Times(hand[p], g))
                              + (T!Times(closing'[p], g) - T!Times(closing[p], g))
    BY <1>3, <1>5, <2>1, <2>2, <2>4
  <2>9. Counted'
    BY <1>1, <1>3, <2>1, <2>3, <2>4, <2>8, CountsMove
  <2>10. Unused'
    BY <1>1, <1>3, <2>1 DEF Unused, TableTypes
  <2>11. Held'
    BY <1>1, <1>3, <2>1, HeldSame
  <2> QED
    BY <2>3, <2>6, <2>7, <2>9, <2>10, <2>11 DEF TableInv
<1>7. CASE T!FreeFds(p) # {}
  <2>1. PICK d \in T!Fd : d = T!fdalloc(p) /\ ofile[p][d] = 0
    BY <1>7, Allocates
  <2>2. /\ ofile' = [ofile EXCEPT ![p] = [ofile[p] EXCEPT ![d] = f]]
        /\ fobj' = [fobj EXCEPT ![f] = T!AnInode] /\ irefs' = irefs + 1 /\ closing' = closing
    BY <1>2, <1>7, <2>1 DEF T!sys_open
  <2>3. /\ [ofile[p] EXCEPT ![d] = f] \in [T!Fd -> 0..NFILE]
        /\ \A g : Count([ofile[p] EXCEPT ![d] = f], T!Fd, g)
                   = Count(ofile[p], T!Fd, g) - Same(ofile[p][d], g) + Same(f, g)
    <3>1. ofile[p] \in [T!Fd -> 0..NFILE] /\ f \in 0..NFILE
      BY <1>1, TableSets DEF TableTypes
    <3> QED
      BY <3>1, PutFd
  <2>4. /\ ofile'[p] = [ofile[p] EXCEPT ![d] = f]
        /\ \A q \in FProc : q # p => ofile'[q] = ofile[q]
    BY <1>1, <2>2 DEF TableTypes
  <2>5. TableTypes'
    <3>1. ofile' \in [FProc -> [T!Fd -> 0..NFILE]]
      BY <1>1, <2>2, <2>3 DEF TableTypes
    <3>2. fobj' \in [T!FileNo -> Objects] /\ fref' \in [T!FileNo -> Nat] /\ irefs' \in Int
      BY <1>1, <1>3, <2>2 DEF TableTypes, Objects
    <3> QED
      BY <1>1, <1>3, <2>2, <3>1, <3>2 DEF TableTypes
  <2>6. Calls'
    BY <1>1, <1>3, <2>2, <2>4 DEF Calls
  <2>7. Fresh'
    <3>1. \A g \in T!FileNo : g # f => fobj'[g] = fobj[g]
      BY <1>1, <2>2 DEF TableTypes
    <3>2. \A q \in FProc : \A n \in 1..Len(hand[q]) : hand[q][n] \in T!FileNo
      BY <1>1 DEF TableTypes
    <3> QED
      BY <1>1, <1>3, <1>4, <3>1, <3>2 DEF Fresh
  <2>8. ASSUME NEW g \in T!FileNo
        PROVE  fref'[g] = fref[g] + (Count(ofile'[p], T!Fd, g) - Count(ofile[p], T!Fd, g))
                              + (T!Times(hand'[p], g) - T!Times(hand[p], g))
                              + (T!Times(closing'[p], g) - T!Times(closing[p], g))
    <3>1. Same(ofile[p][d], g) = 0
      BY <2>1, TableSets DEF Same
    <3>2. Count(ofile'[p], T!Fd, g) = Count(ofile[p], T!Fd, g) + Same(f, g)
      BY <1>5, <2>3, <2>4, <3>1
    <3>3. T!Times(hand'[p], g) = T!Times(hand[p], g)
              /\ T!Times(closing'[p], g) = T!Times(closing[p], g)
      BY <1>3, <2>2
    <3> QED
      BY <1>5, <3>2, <3>3
  <2>9. Counted'
    BY <1>1, <1>3, <2>2, <2>4, <2>5, <2>8, CountsMove
  <2>10. Unused'
    BY <1>1, <1>3, <2>2 DEF Unused, TableTypes
  <2>11. Held'
    <3>1. ASSUME NEW x, x # T!None
          PROVE  HeldBy(x)' = HeldBy(x) + Same(T!AnInode, x)
      <4>1. fobj'[f] = T!AnInode /\ \A g \in T!FileNo : g # f => fobj'[g] = fobj[g]
        BY <1>1, <2>2 DEF TableTypes
      <4>2. \A y : Count(fobj', T!FileNo, y) = Count(fobj, T!FileNo, y) - Same(fobj[f], y)
                + Same(fobj'[f], y)
        <5>1. fobj \in [T!FileNo -> Objects] /\ T!AnInode \in Objects
          BY <1>1 DEF TableTypes, Objects
        <5>2. \A y : Count([fobj EXCEPT ![f] = T!AnInode], T!FileNo, y)
                       = Count(fobj, T!FileNo, y) - Same(fobj[f], y) + Same(T!AnInode, y)
          BY <5>1, PutObj, ZenonT(60)
        <5> QED
          BY <2>2, <4>1, <5>2
      <4>3. Same(fobj[f], x) = 0 /\ Same(T!AnInode, x) \in Nat
        BY <1>4, <3>1 DEF Same
      <4>4. Count(fobj', T!FileNo, x) = Count(fobj, T!FileNo, x) + Same(T!AnInode, x)
        BY <4>1, <4>2, <4>3, HoldTypes
      <4> QED
        BY <1>3, <4>3, <4>4, HoldTypes DEF HeldBy
    <3>2. HeldBy(T!AnInode)' = HeldBy(T!AnInode) + 1
      BY <3>1, ObjectsDiffer DEF Same
    <3>3. \A k \in T!PipeNo, x \in T!End : HeldBy(T!PipeEnd(k, x))' = HeldBy(T!PipeEnd(k, x))
      BY <3>1, ObjectsDiffer, HoldTypes DEF Same
    <3> QED
      BY <1>1, <1>3, <2>2, <3>2, <3>3 DEF Held
  <2> QED
    BY <2>5, <2>6, <2>7, <2>9, <2>10, <2>11 DEF TableInv
<1> QED
  BY <1>6, <1>7

(* sys_dup. *)
LEMMA TableDup ==
  ASSUME TableInv, NEW p \in FProc, NEW d \in T!Fd, T!sys_dup(p, d)
  PROVE  TableInv'
PROOF
<1>1. TableTypes /\ Calls /\ Fresh /\ Counted /\ Unused /\ Held
  BY DEF TableInv
<1>2. PICK f \in T!FileNo : f = ofile[p][d]
  BY <1>1, TableSets DEF T!sys_dup, TableTypes
<1>3. PICK c \in T!Fd : c = T!fdalloc(p) /\ ofile[p][c] = 0
  BY Allocates DEF T!sys_dup
<1>4. /\ p \in running /\ ofile' = [ofile EXCEPT ![p] = [ofile[p] EXCEPT ![c] = f]]
      /\ fref' = [fref EXCEPT ![f] = fref[f] + 1]
      /\ UNCHANGED <<fobj, pipes, irefs, running, hand, closing, gone, exiting>>
  BY <1>2, <1>3 DEF T!sys_dup, T!User
<1>5. /\ [ofile[p] EXCEPT ![c] = f] \in [T!Fd -> 0..NFILE]
      /\ \A g : Count([ofile[p] EXCEPT ![c] = f], T!Fd, g)
                 = Count(ofile[p], T!Fd, g) - Same(ofile[p][c], g) + Same(f, g)
  <2>1. ofile[p] \in [T!Fd -> 0..NFILE] /\ f \in 0..NFILE
    BY <1>1, TableSets DEF TableTypes
  <2> QED
    BY <2>1, PutFd
<1>6. /\ ofile'[p] = [ofile[p] EXCEPT ![c] = f]
      /\ \A q \in FProc : q # p => ofile'[q] = ofile[q]
  BY <1>1, <1>4 DEF TableTypes
<1>7. TableTypes'
  <2>1. fref' \in [T!FileNo -> Nat]
    BY <1>1, <1>4 DEF TableTypes
  <2> QED
    BY <1>1, <1>4, <1>5, <2>1 DEF TableTypes
<1>8. Calls'
  BY <1>1, <1>4, <1>6 DEF Calls
<1>9. Fresh'
  BY <1>1, <1>4 DEF Fresh
<1>10. ASSUME NEW g \in T!FileNo
       PROVE  fref'[g] = fref[g] + (Count(ofile'[p], T!Fd, g) - Count(ofile[p], T!Fd, g))
                              + (T!Times(hand'[p], g) - T!Times(hand[p], g))
                              + (T!Times(closing'[p], g) - T!Times(closing[p], g))
  <2>1. /\ Count(ofile[p], T!Fd, g) \in Nat /\ T!Times(hand[p], g) \in Nat
        /\ T!Times(closing[p], g) \in Nat /\ fref[g] \in Nat /\ Same(f, g) \in Nat
    BY <1>1, NamedIs DEF TableTypes, Same
  <2>2. fref'[g] = fref[g] + Same(f, g)
    BY <1>1, <1>4 DEF TableTypes, Same
  <2>3. Same(ofile[p][c], g) = 0
    BY <1>3, TableSets DEF Same
  <2>4. Count(ofile'[p], T!Fd, g) = Count(ofile[p], T!Fd, g) + Same(f, g)
    BY <1>5, <1>6, <2>1, <2>3
  <2> QED
    BY <1>4, <2>1, <2>2, <2>4
<1>11. Counted'
  BY <1>1, <1>4, <1>6, <1>7, <1>10, CountsMove
<1>12. Unused'
  BY <1>1, <1>4 DEF Unused, TableTypes
<1>13. Held'
  BY <1>1, <1>4, HeldSame
<1> QED
  BY <1>7, <1>8, <1>9, <1>11, <1>12, <1>13 DEF TableInv

(* A descriptor that is given up, by sys_close or by exit. *)
LEMMA TableDrop ==
  ASSUME TableInv, NEW p \in FProc, NEW d \in T!Fd, ofile[p][d] # 0,
         p \in running, hand[p] = <<>>, closing[p] = <<>>, gone[p] = T!None,
         ofile' = [ofile EXCEPT ![p][d] = 0],
         closing' = [closing EXCEPT ![p] = <<ofile[p][d]>>],
         UNCHANGED <<fref, fobj, pipes, irefs, running, hand, gone, exiting>>
  PROVE  TableInv'
PROOF
<1>1. TableTypes /\ Calls /\ Fresh /\ Counted /\ Unused /\ Held
  BY DEF TableInv
<1>2. PICK f \in T!FileNo : f = ofile[p][d]
  BY <1>1, TableSets DEF TableTypes
<1>3. ofile' = [ofile EXCEPT ![p] = [ofile[p] EXCEPT ![d] = 0]]
  OBVIOUS
<1>4. <<f>> \in Seq(T!FileNo) /\ Len(<<f>>) = 1 /\ (\A g : T!Times(<<f>>, g) = Same(f, g))
      /\ \A g : T!Times(<<>>, g) = 0
  BY TimesOne
<1>5. /\ [ofile[p] EXCEPT ![d] = 0] \in [T!Fd -> 0..NFILE]
      /\ \A g : Count([ofile[p] EXCEPT ![d] = 0], T!Fd, g)
                 = Count(ofile[p], T!Fd, g) - Same(f, g) + Same(0, g)
  <2>1. ofile[p] \in [T!Fd -> 0..NFILE] /\ 0 \in 0..NFILE
    BY <1>1, TableAssumption DEF TableTypes
  <2> QED
    BY <1>2, <2>1, PutFd, SMTT(30)
<1>6. /\ ofile'[p] = [ofile[p] EXCEPT ![d] = 0] /\ closing'[p] = <<f>>
      /\ \A q \in FProc : q # p => ofile'[q] = ofile[q] /\ closing'[q] = closing[q]
  BY <1>1, <1>2, <1>3 DEF TableTypes
<1>7. TableTypes'
  <2>1. closing' \in [FProc -> Seq(T!FileNo)]
    BY <1>1, <1>2, <1>4 DEF TableTypes
  <2> QED
    BY <1>1, <1>3, <1>5, <2>1 DEF TableTypes
<1>8. Calls'
  <2>1. Len(hand[p]) = 0
    OBVIOUS
  <2> QED
    BY <1>1, <1>4, <1>6, <2>1 DEF Calls
<1>9. Fresh'
  BY <1>1 DEF Fresh
<1>10. ASSUME NEW g \in T!FileNo
       PROVE  fref'[g] = fref[g] + (Count(ofile'[p], T!Fd, g) - Count(ofile[p], T!Fd, g))
                              + (T!Times(hand'[p], g) - T!Times(hand[p], g))
                              + (T!Times(closing'[p], g) - T!Times(closing[p], g))
  <2>1. /\ Count(ofile[p], T!Fd, g) \in Nat /\ T!Times(hand[p], g) \in Nat
        /\ T!Times(closing[p], g) \in Nat /\ fref[g] \in Nat /\ Same(f, g) \in Nat
    BY <1>1, NamedIs DEF TableTypes, Same
  <2>2. Same(0, g) = 0 /\ T!Times(closing[p], g) = 0 /\ T!Times(closing'[p], g) = Same(f, g)
    BY <1>4, <1>6, TableSets DEF Same
  <2>3. Count(ofile'[p], T!Fd, g) = Count(ofile[p], T!Fd, g) - Same(f, g)
    BY <1>5, <1>6, <2>1, <2>2
  <2> QED
    BY <2>1, <2>2, <2>3
<1>11. Counted'
  BY <1>1, <1>6, <1>7, <1>10, CountsMove
<1>12. Unused'
  BY <1>1 DEF Unused
<1>13. Held'
  BY <1>1, HeldSame
<1> QED
  BY <1>7, <1>8, <1>9, <1>11, <1>12, <1>13 DEF TableInv

(* filealloc in pipealloc, or its failure. *)
LEMMA TableAlloc ==
  ASSUME TableInv, NEW p \in FProc, T!pipealloc_file(p), T!FreeFiles # {}
  PROVE  TableInv'
PROOF
<1>1. TableTypes /\ Calls /\ Fresh /\ Counted /\ Unused /\ Held
  BY DEF TableInv
<1>2. PICK f \in T!FileNo : f = T!filealloc /\ fref[f] = 0
  BY Allocates
<1>3. PICK s \in Seq(T!FileNo) : s = hand[p] /\ Len(s) \in {0, 1}
  BY <1>1 DEF TableTypes, T!pipealloc_file, T!User
<1>4. /\ hand' = [hand EXCEPT ![p] = Append(s, f)] /\ fref' = [fref EXCEPT ![f] = 1]
      /\ UNCHANGED <<closing, ofile, fobj, pipes, irefs, running, gone, exiting>>
  BY <1>2, <1>3 DEF T!pipealloc_file
<1>5. p \in running /\ p \notin exiting /\ Len(closing[p]) = 0 /\ gone[p] = T!None
  <2>1. CASE T!User(p)
    BY <2>1 DEF T!User
  <2>2. CASE Len(hand[p]) = 1
    BY <1>1, <2>2 DEF Calls
  <2> QED
    BY <2>1, <2>2 DEF T!pipealloc_file
<1>6. PICK u \in Seq(T!FileNo) : /\ u = Append(s, f) /\ Len(u) = Len(s) + 1 /\ u[Len(u)] = f
                                 /\ \A n \in 1..Len(s) : u[n] = s[n]
  <2>1. Append(s, f) \in Seq(T!FileNo) /\ Len(Append(s, f)) = Len(s) + 1
    OBVIOUS
  <2>2. Append(s, f)[Len(s) + 1] = f /\ \A n \in 1..Len(s) : Append(s, f)[n] = s[n]
    OBVIOUS
  <2> QED
    BY <2>1, <2>2
<1>7. hand'[p] = u /\ \A q \in FProc : q # p => hand'[q] = hand[q]
  BY <1>1, <1>4, <1>6 DEF TableTypes
<1>8. fobj[f] = T!None /\ \A q \in FProc : \A n \in 1..Len(hand[q]) : hand[q][n] # f
  BY <1>1, <1>2, InUse DEF Unused
<1>9. TableTypes'
  <2>1. fref' \in [T!FileNo -> Nat] /\ hand' \in [FProc -> Seq(T!FileNo)]
    BY <1>1, <1>4, <1>6 DEF TableTypes
  <2> QED
    BY <1>1, <1>4, <2>1 DEF TableTypes
<1>10. Calls'
  BY <1>1, <1>3, <1>4, <1>5, <1>6, <1>7 DEF Calls
<1>11. Fresh'
  <2>1. ASSUME NEW q \in FProc, NEW n \in 1..Len(hand'[q])
        PROVE  \/ q = p /\ n = Len(u) /\ hand'[q][n] = f
               \/ /\ n \in 1..Len(hand[q]) /\ hand'[q][n] = hand[q][n]
    <3>1. CASE q # p
      BY <1>7, <2>1, <3>1
    <3>2. CASE q = p
      <4>1. n \in 1..Len(s) \/ n = Len(u)
        BY <1>3, <1>6, <1>7, <2>1, <3>2
      <4> QED
        BY <1>3, <1>6, <1>7, <3>2, <4>1
    <3> QED
      BY <3>1, <3>2
  <2>2. ASSUME NEW q \in FProc, NEW n \in 1..Len(hand'[q])
        PROVE  fobj'[hand'[q][n]] = T!None
    BY <1>1, <1>4, <1>8, <2>1 DEF Fresh
  <2>3. ASSUME NEW q \in FProc, NEW n \in 1..Len(hand'[q]), NEW o \in FProc,
               NEW m \in 1..Len(hand'[o]), hand'[q][n] = hand'[o][m]
        PROVE  q = o /\ n = m
    BY <1>1, <1>8, <2>1, <2>3 DEF Fresh
  <2> QED
    BY <2>2, <2>3 DEF Fresh
<1>12. ASSUME NEW g \in T!FileNo
       PROVE  fref'[g] = fref[g] + (Count(ofile'[p], T!Fd, g) - Count(ofile[p], T!Fd, g))
                              + (T!Times(hand'[p], g) - T!Times(hand[p], g))
                              + (T!Times(closing'[p], g) - T!Times(closing[p], g))
  <2>1. /\ Count(ofile[p], T!Fd, g) \in Nat /\ T!Times(hand[p], g) \in Nat
        /\ T!Times(closing[p], g) \in Nat /\ fref[g] \in Nat /\ Same(f, g) \in Nat
    BY <1>1, NamedIs DEF TableTypes, Same
  <2>2. fref'[g] = fref[g] + Same(f, g)
    BY <1>1, <1>2, <1>4 DEF TableTypes, Same
  <2>3. T!Times(u, g) = T!Times(s, g) + Same(f, g)
    <3>1. CASE Len(s) = 0
      <4>1. Len(u) = 1 /\ u[1] = f
        BY <1>6, <3>1
      <4>2. T!Times(u, g) = Same(f, g) /\ T!Times(s, g) = 0
        BY <3>1, <4>1, TimesShort
      <4> QED
        BY <2>1, <4>2
    <3>2. CASE Len(s) = 1
      <4>1. Len(u) = 2 /\ u[1] = s[1] /\ u[2] = f
        BY <1>6, <3>2
      <4>2. T!Times(u, g) = Same(s[1], g) + Same(f, g) /\ T!Times(s, g) = Same(s[1], g)
        BY <3>2, <4>1, TimesShort
      <4> QED
        BY <4>2
    <3> QED
      BY <1>3, <3>1, <3>2
  <2>4. T!Times(hand'[p], g) = T!Times(hand[p], g) + Same(f, g)
    BY <1>3, <1>7, <2>3
  <2> QED
    BY <1>4, <2>1, <2>2, <2>4
<1>13. Counted'
  BY <1>1, <1>4, <1>7, <1>9, <1>12, CountsMove
<1>14. Unused'
  BY <1>1, <1>4 DEF Unused, TableTypes
<1>15. Held'
  BY <1>1, <1>4, HeldSame
<1> QED
  BY <1>9, <1>10, <1>11, <1>13, <1>14, <1>15 DEF TableInv

(* The failures of pipealloc: the files in hand are closed. *)
LEMMA TableUndo ==
  ASSUME TableInv, NEW p \in FProc, Len(closing[p]) = 0,
         closing' = [closing EXCEPT ![p] = hand[p]], hand' = [hand EXCEPT ![p] = <<>>],
         UNCHANGED <<ofile, fref, fobj, pipes, irefs, running, gone, exiting>>
  PROVE  TableInv'
PROOF
<1>1. TableTypes /\ Calls /\ Fresh /\ Counted /\ Unused /\ Held
  BY DEF TableInv
<1>2. <<>> \in Seq(T!FileNo) /\ Len(<<>>) = 0
  OBVIOUS
<1>3. TableTypes'
  BY <1>1, <1>2 DEF TableTypes
<1>4. /\ closing'[p] = hand[p] /\ hand'[p] = <<>>
      /\ \A q \in FProc : q # p => closing'[q] = closing[q] /\ hand'[q] = hand[q]
  BY <1>1 DEF TableTypes
<1>5. Calls'
  BY <1>1, <1>2, <1>4 DEF Calls
<1>6. Fresh'
  BY <1>1, <1>2, <1>4 DEF Fresh
<1>7. ASSUME NEW g \in T!FileNo
      PROVE  fref'[g] = fref[g] + (Count(ofile'[p], T!Fd, g) - Count(ofile[p], T!Fd, g))
                              + (T!Times(hand'[p], g) - T!Times(hand[p], g))
                              + (T!Times(closing'[p], g) - T!Times(closing[p], g))
  <2>1. /\ Count(ofile[p], T!Fd, g) \in Nat /\ T!Times(hand[p], g) \in Nat
        /\ T!Times(closing[p], g) \in Nat /\ fref[g] \in Nat
    BY <1>1, NamedIs DEF TableTypes
  <2>2. T!Times(hand'[p], g) = 0 /\ T!Times(closing[p], g) = 0
    <3>1. hand'[p] \in Seq(T!FileNo) /\ Len(hand'[p]) = 0 /\ closing[p] \in Seq(T!FileNo)
      BY <1>1, <1>2, <1>4 DEF TableTypes
    <3> QED
      BY <3>1, TimesShort
  <2> QED
    BY <1>4, <2>1, <2>2
<1>8. Counted'
  BY <1>1, <1>3, <1>4, <1>7, CountsMove
<1>9. Unused' /\ Held'
  BY <1>1, HeldSame DEF Unused
<1> QED
  BY <1>3, <1>5, <1>6, <1>8, <1>9 DEF TableInv

(* Two files in a list. *)
LEMMA TimesTwo ==
  ASSUME NEW s \in Seq(T!FileNo), Len(s) = 2
  PROVE  /\ s[1] \in T!FileNo /\ s[2] \in T!FileNo
         /\ \A g : T!Times(s, g) = Same(s[1], g) + Same(s[2], g)
PROOF
<1>1. \A g : T!Times(s, g) = Same(s[1], g) + Same(s[2], g)
  BY TimesShort
<1>2. \A n \in 1..Len(s) : s[n] \in T!FileNo
  OBVIOUS
<1>3. 1 \in 1..Len(s) /\ 2 \in 1..Len(s)
  OBVIOUS
<1>4. s[1] \in T!FileNo /\ s[2] \in T!FileNo
  BY <1>2, <1>3
<1> QED
  BY <1>1, <1>4

(* The two ends of a new pipe are held by the two files of sys_pipe. *)
LEMMA PipeHeld ==
  ASSUME TableInv, NEW k \in T!PipeNo, pipes[k] = {},
         NEW rf \in T!FileNo, NEW wf \in T!FileNo, rf # wf, fobj[rf] = T!None, fobj[wf] = T!None,
         pipes' = [pipes EXCEPT ![k] = T!End],
         fobj' = [fobj EXCEPT ![rf] = T!PipeEnd(k, "read"), ![wf] = T!PipeEnd(k, "write")],
         UNCHANGED <<gone, irefs>>
  PROVE  Held' /\ fobj' \in [T!FileNo -> Objects] /\ pipes' \in [T!PipeNo -> SUBSET T!End]
PROOF
<1>1. TableTypes /\ Held
  BY DEF TableInv
<1>2. fobj \in [T!FileNo -> Objects] /\ pipes \in [T!PipeNo -> SUBSET T!End]
  BY <1>1 DEF TableTypes
<1>3. PICK a \in Objects : a = T!PipeEnd(k, "read")
  BY DEF Objects, PipeEnds, T!End
<1>4. PICK b \in Objects : b = T!PipeEnd(k, "write")
  BY DEF Objects, PipeEnds, T!End
<1>5. PICK h \in [T!FileNo -> Objects] : h = [fobj EXCEPT ![rf] = a]
  BY <1>2
<1>6. \A x : Count(h, T!FileNo, x) = Count(fobj, T!FileNo, x) - Same(fobj[rf], x) + Same(a, x)
  <2>0. PICK o \in [T!FileNo -> Objects] : o = fobj
    BY <1>2
  <2>1. h[rf] = a /\ \A g \in T!FileNo : g # rf => h[g] = o[g]
    BY <1>5, <2>0
  <2>2. IsFiniteSet(T!FileNo)
    BY TableSets
  <2>3. \A x : Count(h, T!FileNo, x) = Count(o, T!FileNo, x) - Same(o[rf], x) + Same(h[rf], x)
    BY <2>1, <2>2, CountPut
  <2> QED
    BY <2>0, <2>1, <2>3
<1>7. fobj' = [h EXCEPT ![wf] = b]
  BY <1>2, <1>3, <1>4, <1>5
<1>8. /\ fobj' \in [T!FileNo -> Objects]
      /\ \A x : Count(fobj', T!FileNo, x) = Count(h, T!FileNo, x) - Same(h[wf], x) + Same(b, x)
  <2>1. PICK v \in [T!FileNo -> Objects] : v = fobj'
    BY <1>7
  <2>2. v[wf] = b /\ \A g \in T!FileNo : g # wf => v[g] = h[g]
    BY <1>7, <2>1
  <2>3. IsFiniteSet(T!FileNo)
    BY TableSets
  <2>4. \A x : Count(v, T!FileNo, x) = Count(h, T!FileNo, x) - Same(h[wf], x) + Same(v[wf], x)
    BY <2>2, <2>3, CountPut
  <2> QED
    BY <2>1, <2>2, <2>4
<1>9. h[wf] = T!None
  BY <1>2, <1>5
<1>10. ASSUME NEW x, x # T!None
       PROVE  HeldBy(x)' = HeldBy(x) + Same(a, x) + Same(b, x)
  <2>1. Same(fobj[rf], x) = 0 /\ Same(h[wf], x) = 0 /\ Same(a, x) \in Nat /\ Same(b, x) \in Nat
    BY <1>9, <1>10 DEF Same
  <2>2. Count(fobj', T!FileNo, x) = Count(fobj, T!FileNo, x) + Same(a, x) + Same(b, x)
    <3>1. Count(fobj, T!FileNo, x) \in Nat
      BY HoldTypes
    <3>2. Count(h, T!FileNo, x) = Count(fobj, T!FileNo, x) + Same(a, x)
      BY <1>6, <2>1, <3>1
    <3>3. Count(fobj', T!FileNo, x) = Count(h, T!FileNo, x) + Same(b, x)
      <4>1. Count(fobj', T!FileNo, x) = Count(h, T!FileNo, x) - Same(h[wf], x) + Same(b, x)
        BY <1>8, Zenon
      <4> QED
        BY <2>1, <3>1, <3>2, <4>1
    <3> QED
      BY <3>2, <3>3
  <2> QED
    BY <2>1, <2>2, HoldTypes DEF HeldBy
<1>11. HeldBy(T!AnInode)' = HeldBy(T!AnInode)
  BY <1>3, <1>4, <1>10, ObjectsDiffer, HoldTypes DEF Same
<1>12. ASSUME NEW l \in T!PipeNo, NEW y \in T!End
       PROVE  HeldBy(T!PipeEnd(l, y))' = (IF y \in pipes'[l] THEN 1 ELSE 0)
  <2>1. HeldBy(T!PipeEnd(l, y)) = (IF y \in pipes[l] THEN 1 ELSE 0)
    BY <1>1 DEF Held
  <2>2. HeldBy(T!PipeEnd(l, y))'
          = HeldBy(T!PipeEnd(l, y)) + Same(a, T!PipeEnd(l, y)) + Same(b, T!PipeEnd(l, y))
    BY <1>10, ObjectsDiffer
  <2>3. CASE l # k
    <3>1. Same(a, T!PipeEnd(l, y)) = 0 /\ Same(b, T!PipeEnd(l, y)) = 0
      BY <1>3, <1>4, <2>3, ObjectsDiffer DEF Same
    <3>2. pipes'[l] = pipes[l]
      BY <1>2, <2>3
    <3> QED
      BY <2>1, <2>2, <3>1, <3>2
  <2>4. CASE l = k
    <3>1. y \notin pipes[l] /\ y \in pipes'[l]
      BY <1>2, <2>4
    <3>2. y = "read" \/ y = "write"
      BY DEF T!End
    <3>3. Same(a, T!PipeEnd(l, y)) + Same(b, T!PipeEnd(l, y)) = 1
      <4>1. CASE y = "read"
        <5>1. a = T!PipeEnd(l, y) /\ b # T!PipeEnd(l, y)
          BY <1>3, <1>4, <2>4, <4>1, ObjectsDiffer
        <5> QED
          BY <5>1 DEF Same
      <4>2. CASE y = "write"
        <5>1. b = T!PipeEnd(l, y) /\ a # T!PipeEnd(l, y)
          BY <1>3, <1>4, <2>4, <4>2, ObjectsDiffer
        <5> QED
          BY <5>1 DEF Same
      <4> QED
        BY <3>2, <4>1, <4>2
    <3>4. Same(a, T!PipeEnd(l, y)) \in Nat /\ Same(b, T!PipeEnd(l, y)) \in Nat
      BY DEF Same
    <3> QED
      BY <2>1, <2>2, <3>1, <3>3, <3>4
  <2> QED
    BY <2>3, <2>4
<1>13. pipes' \in [T!PipeNo -> SUBSET T!End]
  BY <1>2
<1> QED
  BY <1>1, <1>8, <1>11, <1>12, <1>13 DEF Held

(* sys_pipe. *)
LEMMA TablePipe ==
  ASSUME TableInv, NEW p \in FProc, T!sys_pipe(p)
  PROVE  TableInv'
PROOF
<1>1. TableTypes /\ Calls /\ Fresh /\ Counted /\ Unused /\ Held
  BY DEF TableInv
<1>2. PICK s \in Seq(T!FileNo) : s = hand[p] /\ Len(s) = 2
  BY <1>1 DEF TableTypes, T!sys_pipe
<1>3. PICK rf \in T!FileNo, wf \in T!FileNo :
        /\ rf = s[1] /\ wf = s[2] /\ \A g : T!Times(s, g) = Same(rf, g) + Same(wf, g)
  BY <1>2, TimesTwo
<1>4. rf # wf /\ fobj[rf] = T!None /\ fobj[wf] = T!None
  <2>1. 1 \in 1..Len(hand[p]) /\ 2 \in 1..Len(hand[p]) /\ hand[p][1] = rf /\ hand[p][2] = wf
    BY <1>2, <1>3
  <2> QED
    BY <1>1, <2>1 DEF Fresh
<1>5. PICK k \in T!PipeNo : /\ pipes[k] = {} /\ k = T!Min({n \in T!PipeNo : pipes[n] = {}})
  <2>1. {n \in T!PipeNo : pipes[n] = {}} \in SUBSET Nat /\ {n \in T!PipeNo : pipes[n] = {}} # {}
    BY TableSets DEF T!sys_pipe
  <2>2. T!Min({n \in T!PipeNo : pipes[n] = {}}) \in {n \in T!PipeNo : pipes[n] = {}}
    BY <2>1, MinIn
  <2> QED
    BY <2>2
<1>6. /\ pipes' = [pipes EXCEPT ![k] = T!End]
      /\ fobj' = [fobj EXCEPT ![rf] = T!PipeEnd(k, "read"), ![wf] = T!PipeEnd(k, "write")]
      /\ hand' = [hand EXCEPT ![p] = <<>>]
      /\ UNCHANGED <<fref, irefs, running, gone, exiting>>
  BY <1>2, <1>3, <1>5 DEF T!sys_pipe
<1>7. Held' /\ fobj' \in [T!FileNo -> Objects] /\ pipes' \in [T!PipeNo -> SUBSET T!End]
  BY <1>4, <1>5, <1>6, PipeHeld
<1>8. p \in running /\ p \notin exiting /\ Len(closing[p]) = 0 /\ gone[p] = T!None
  BY <1>1, <1>2 DEF Calls
<1>9. PICK u \in Seq(T!FileNo) : u = <<>> /\ Len(u) = 0 /\ \A g : T!Times(u, g) = 0
  <2>1. <<>> \in Seq(T!FileNo) /\ Len(<<>>) = 0
    OBVIOUS
  <2>2. \A g : T!Times(<<>>, g) = 0
    BY TimesOne
  <2> QED
    BY <2>1, <2>2
<1>10. /\ hand' \in [FProc -> Seq(T!FileNo)] /\ hand'[p] = u
       /\ \A q \in FProc : q # p => hand'[q] = hand[q]
  BY <1>1, <1>6, <1>9 DEF TableTypes
<1>11. Fresh'
  <2>1. \A g \in T!FileNo : g # rf /\ g # wf => fobj'[g] = fobj[g]
    BY <1>1, <1>6 DEF TableTypes
  <2>2. \A q \in FProc : \A n \in 1..Len(hand[q]) :
          /\ hand[q][n] \in T!FileNo
          /\ q # p => hand[q][n] # rf /\ hand[q][n] # wf
    <3>1. 1 \in 1..Len(hand[p]) /\ 2 \in 1..Len(hand[p]) /\ hand[p][1] = rf /\ hand[p][2] = wf
      BY <1>2, <1>3
    <3>2. \A q \in FProc : \A n \in 1..Len(hand[q]) : hand[q][n] \in T!FileNo
      BY <1>1 DEF TableTypes
    <3>3. \A q \in FProc : \A n \in 1..Len(hand[q]) :
            /\ hand[q][n] = hand[p][1] => q = p
            /\ hand[q][n] = hand[p][2] => q = p
      BY <1>1, <3>1 DEF Fresh
    <3> QED
      BY <3>1, <3>2, <3>3
  <2>3. ASSUME NEW q \in FProc, NEW n \in 1..Len(hand'[q])
        PROVE  q # p /\ hand'[q] = hand[q] /\ n \in 1..Len(hand[q])
    BY <1>9, <1>10, <2>3
  <2>4. ASSUME NEW q \in FProc, NEW n \in 1..Len(hand'[q])
        PROVE  fobj'[hand'[q][n]] = T!None
    <3>1. hand[q][n] \in T!FileNo /\ hand[q][n] # rf /\ hand[q][n] # wf
      BY <2>2, <2>3
    <3>2. fobj[hand[q][n]] = T!None
      BY <1>1, <2>3 DEF Fresh
    <3> QED
      BY <2>1, <2>3, <3>1, <3>2
  <2>5. ASSUME NEW q \in FProc, NEW n \in 1..Len(hand'[q]), NEW o \in FProc,
               NEW m \in 1..Len(hand'[o]), hand'[q][n] = hand'[o][m]
        PROVE  q = o /\ n = m
    BY <1>1, <2>3, <2>5 DEF Fresh
  <2> QED
    BY <2>4, <2>5 DEF Fresh
<1>12. Unused'
  <2>1. fref[rf] >= 1 /\ fref[wf] >= 1
    <3>1. 1 \in 1..Len(hand[p]) /\ 2 \in 1..Len(hand[p]) /\ hand[p][1] = rf /\ hand[p][2] = wf
      BY <1>2, <1>3
    <3> QED
      BY <3>1, InUse
  <2>2. \A g \in T!FileNo : g # rf /\ g # wf => fobj'[g] = fobj[g]
    BY <1>1, <1>6 DEF TableTypes
  <2> QED
    BY <1>1, <1>6, <2>1, <2>2 DEF Unused, TableTypes
<1>13. ASSUME NEW g \in T!FileNo
       PROVE  /\ Count(ofile[p], T!Fd, g) \in Nat /\ fref[g] \in Nat
              /\ T!Times(hand[p], g) = Same(rf, g) + Same(wf, g) /\ T!Times(hand'[p], g) = 0
              /\ T!Times(closing[p], g) = 0 /\ Same(rf, g) \in Nat /\ Same(wf, g) \in Nat
              /\ fref'[g] = fref[g]
  <2>1. T!Times(closing[p], g) = 0
    <3>1. closing[p] \in Seq(T!FileNo)
      BY <1>1 DEF TableTypes
    <3> QED
      BY <1>8, <3>1, TimesShort
  <2>2. Count(ofile[p], T!Fd, g) \in Nat /\ fref[g] \in Nat
    BY <1>1, NamedIs DEF TableTypes
  <2> QED
    BY <1>2, <1>3, <1>6, <1>9, <1>10, <2>1, <2>2 DEF Same
<1>14. CASE Cardinality(T!FreeFds(p)) >= 2
  <2>1. PICK d0 \in T!Fd : d0 = T!fdalloc(p) /\ ofile[p][d0] = 0 /\ d0 \in T!FreeFds(p)
    <3>1. T!FreeFds(p) # {}
      <4>1. Cardinality({}) = 0 /\ ~(0 >= 2)
        BY FS_EmptySet
      <4> QED
        BY <1>14, <4>1
    <3> QED
      BY <3>1, Allocates DEF T!FreeFds
  <2>2. PICK d1 \in T!Fd : d1 = T!Min(T!FreeFds(p) \ {d0}) /\ ofile[p][d1] = 0 /\ d1 # d0
    <3>1. T!FreeFds(p) \ {d0} # {}
      <4> SUFFICES ASSUME T!FreeFds(p) \ {d0} = {} PROVE FALSE
        OBVIOUS
      <4>1. T!FreeFds(p) = {d0}
        BY <2>1
      <4>2. Cardinality({d0}) = 1
        BY FS_Singleton
      <4> QED
        BY <1>14, <4>1, <4>2
    <3>2. T!FreeFds(p) \ {d0} \in SUBSET Nat
      BY TableSets DEF T!FreeFds
    <3>3. T!Min(T!FreeFds(p) \ {d0}) \in T!FreeFds(p) \ {d0}
      BY <3>1, <3>2, MinIn
    <3> QED
      BY <3>3 DEF T!FreeFds
  <2>3. ofile' = [ofile EXCEPT ![p][d0] = rf, ![p][d1] = wf] /\ closing' = closing
    BY <1>2, <1>3, <1>14, <2>1, <2>2, TableCounts DEF T!sys_pipe
  <2>4. ofile[p] \in [T!Fd -> 0..NFILE] /\ rf \in 0..NFILE /\ wf \in 0..NFILE
    BY <1>1, TableSets DEF TableTypes
  <2>5. PICK h \in [T!Fd -> 0..NFILE] : h = [ofile[p] EXCEPT ![d0] = rf]
    BY <2>4
  <2>6. PICK v \in [T!Fd -> 0..NFILE] : v = [h EXCEPT ![d1] = wf]
    BY <2>4
  <2>a. \A g : Count(h, T!Fd, g) = Count(ofile[p], T!Fd, g) - Same(ofile[p][d0], g) + Same(rf, g)
    <3>1. PICK o \in [T!Fd -> 0..NFILE] : o = ofile[p]
      BY <2>4
    <3>2. h[d0] = rf /\ \A d \in T!Fd : d # d0 => h[d] = o[d]
      BY <2>5, <3>1
    <3>3. IsFiniteSet(T!Fd)
      BY TableSets
    <3>4. \A g : Count(h, T!Fd, g) = Count(o, T!Fd, g) - Same(o[d0], g) + Same(h[d0], g)
      <4>1. \A d \in T!Fd : d # d0 => h[d] = o[d]
        BY <3>2
      <4> QED
        BY <3>3, <4>1, CountPut
    <3> QED
      BY <3>1, <3>2, <3>4
  <2>b. \A g : Count(v, T!Fd, g) = Count(h, T!Fd, g) - Same(h[d1], g) + Same(wf, g)
    <3>1. v[d1] = wf /\ \A d \in T!Fd : d # d1 => v[d] = h[d]
      BY <2>6
    <3>2. IsFiniteSet(T!Fd)
      BY TableSets
    <3>3. \A g : Count(v, T!Fd, g) = Count(h, T!Fd, g) - Same(h[d1], g) + Same(v[d1], g)
      BY <3>1, <3>2, CountPut
    <3> QED
      BY <3>1, <3>3
  <2>7. h[d1] = 0
    BY <2>2, <2>4, <2>5
  <2>8. ofile' = [ofile EXCEPT ![p] = v]
    BY <1>1, <2>3, <2>5, <2>6 DEF TableTypes
  <2>9. ofile'[p] = v /\ \A q \in FProc : q # p => ofile'[q] = ofile[q]
    BY <1>1, <2>8 DEF TableTypes
  <2>10. TableTypes'
    <3>1. ofile' \in [FProc -> [T!Fd -> 0..NFILE]]
      BY <1>1, <2>8 DEF TableTypes
    <3>2. /\ fref' \in [T!FileNo -> Nat] /\ irefs' \in Int /\ running' \in SUBSET FProc
          /\ exiting' \in SUBSET running' /\ gone' \in [FProc -> Objects]
      BY <1>1, <1>6 DEF TableTypes
    <3>3. closing' \in [FProc -> Seq(T!FileNo)]
      BY <1>1, <2>3 DEF TableTypes
    <3> QED
      BY <1>7, <1>10, <3>1, <3>2, <3>3 DEF TableTypes
  <2>11. Calls'
    BY <1>1, <1>6, <1>8, <1>9, <1>10, <2>3, <2>9 DEF Calls
  <2>12. ASSUME NEW g \in T!FileNo
         PROVE  fref'[g] = fref[g] + (Count(ofile'[p], T!Fd, g) - Count(ofile[p], T!Fd, g))
                              + (T!Times(hand'[p], g) - T!Times(hand[p], g))
                              + (T!Times(closing'[p], g) - T!Times(closing[p], g))
    <3>1. Same(ofile[p][d0], g) = 0 /\ Same(h[d1], g) = 0
      BY <2>1, <2>7, TableSets DEF Same
    <3>2. Count(ofile'[p], T!Fd, g) = Count(ofile[p], T!Fd, g) + Same(rf, g) + Same(wf, g)
      <4>1. /\ Count(ofile[p], T!Fd, g) \in Nat /\ Same(rf, g) \in Nat /\ Same(wf, g) \in Nat
        BY <1>13
      <4>2. Count(h, T!Fd, g) = Count(ofile[p], T!Fd, g) + Same(rf, g)
        <5>1. Count(h, T!Fd, g) = Count(ofile[p], T!Fd, g) - Same(ofile[p][d0], g) + Same(rf, g)
          BY <2>a, Zenon
        <5> QED
          BY <3>1, <4>1, <5>1
      <4>3. Count(v, T!Fd, g) = Count(h, T!Fd, g) + Same(wf, g)
        <5>1. Count(v, T!Fd, g) = Count(h, T!Fd, g) - Same(h[d1], g) + Same(wf, g)
          BY <2>b, Zenon
        <5> QED
          BY <3>1, <4>1, <4>2, <5>1
      <4> QED
        BY <2>9, <4>2, <4>3
    <3>3. T!Times(closing'[p], g) = T!Times(closing[p], g)
      BY <2>3
    <3>4. /\ Count(ofile[p], T!Fd, g) \in Nat /\ fref[g] \in Nat
          /\ T!Times(hand[p], g) = Same(rf, g) + Same(wf, g) /\ T!Times(hand'[p], g) = 0
          /\ T!Times(closing[p], g) = 0 /\ Same(rf, g) \in Nat /\ Same(wf, g) \in Nat
          /\ fref'[g] = fref[g]
      BY <1>13
    <3> QED
      BY <3>2, <3>3, <3>4
  <2>13. Counted'
    BY <1>1, <1>10, <2>3, <2>9, <2>10, <2>12, CountsMove
  <2> QED
    BY <1>7, <1>11, <1>12, <2>10, <2>11, <2>13 DEF TableInv
<1>15. CASE ~(Cardinality(T!FreeFds(p)) >= 2)
  <2>1. ofile' = ofile /\ closing' = [closing EXCEPT ![p] = s]
    BY <1>2, <1>15, TableCounts DEF T!sys_pipe, T!Undo
  <2>2. closing'[p] = s /\ \A q \in FProc : q # p => closing'[q] = closing[q]
    BY <1>1, <2>1 DEF TableTypes
  <2>3. TableTypes'
    BY <1>1, <1>6, <1>7, <1>10, <2>1 DEF TableTypes
  <2>4. Calls'
    BY <1>1, <1>2, <1>6, <1>8, <1>9, <1>10, <2>1, <2>2 DEF Calls
  <2>5. ASSUME NEW g \in T!FileNo
        PROVE  fref'[g] = fref[g] + (Count(ofile'[p], T!Fd, g) - Count(ofile[p], T!Fd, g))
                              + (T!Times(hand'[p], g) - T!Times(hand[p], g))
                              + (T!Times(closing'[p], g) - T!Times(closing[p], g))
    <3>1. T!Times(closing'[p], g) = Same(rf, g) + Same(wf, g)
      BY <1>3, <2>2
    <3> QED
      BY <1>13, <2>1, <3>1
  <2>6. Counted'
    BY <1>1, <1>10, <2>1, <2>2, <2>3, <2>5, CountsMove
  <2> QED
    BY <1>7, <1>11, <1>12, <2>3, <2>4, <2>6 DEF TableInv
<1> QED
  BY <1>14, <1>15

(* fork. *)
LEMMA TableFork ==
  ASSUME TableInv, NEW p \in FProc, NEW q \in FProc, T!fork(p, q)
  PROVE  TableInv'
PROOF
<1>1. TableTypes /\ Calls /\ Fresh /\ Counted /\ Unused /\ Held
  BY DEF TableInv
<1>2. /\ p \in running /\ q \notin running /\ ofile' = [ofile EXCEPT ![q] = ofile[p]]
      /\ fref' = [f \in T!FileNo |-> fref[f] + T!Copied(p, f)] /\ running' = running \cup {q}
      /\ UNCHANGED <<fobj, pipes, irefs, hand, closing, gone, exiting>>
  BY DEF T!fork, T!User
<1>3. ASSUME NEW g \in T!FileNo
      PROVE  /\ T!Copied(p, g) = Count(ofile[p], T!Fd, g)
             /\ Count(ofile[p], T!Fd, g) \in Nat /\ T!Times(hand[q], g) \in Nat
             /\ T!Times(closing[q], g) \in Nat /\ fref[g] \in Nat
             /\ Count(ofile[q], T!Fd, g) = 0
  <2>1. T!Copied(p, g) = Count(ofile[p], T!Fd, g)
    BY TableCounts DEF T!Copied, Count
  <2>2. Count(ofile[p], T!Fd, g) \in Nat
    BY <1>1, NamedIs
  <2>3. T!Times(hand[q], g) \in Nat /\ T!Times(closing[q], g) \in Nat
    BY <1>1, NamedIs
  <2>4. \A d \in T!Fd : ofile[q][d] # g
    BY <1>1, <1>2, TableSets DEF Calls
  <2>5. Count(ofile[q], T!Fd, g) = 0
    BY <2>4, TableSets, CountSome
  <2> QED
    BY <1>1, <2>1, <2>2, <2>3, <2>5 DEF TableTypes
<1>4. TableTypes'
  <2>1. fref' \in [T!FileNo -> Nat]
    BY <1>2, <1>3
  <2> QED
    BY <1>1, <1>2, <2>1 DEF TableTypes
<1>5. ofile'[q] = ofile[p] /\ \A o \in FProc : o # q => ofile'[o] = ofile[o]
  BY <1>1, <1>2 DEF TableTypes
<1>6. Calls'
  BY <1>1, <1>2, <1>5 DEF Calls
<1>7. Fresh'
  BY <1>1, <1>2 DEF Fresh
<1>8. ASSUME NEW g \in T!FileNo
      PROVE  fref'[g] = fref[g] + (Count(ofile'[q], T!Fd, g) - Count(ofile[q], T!Fd, g))
                              + (T!Times(hand'[q], g) - T!Times(hand[q], g))
                              + (T!Times(closing'[q], g) - T!Times(closing[q], g))
  <2>1. fref'[g] = fref[g] + Count(ofile[p], T!Fd, g)
    BY <1>2, <1>3
  <2>2. Count(ofile'[q], T!Fd, g) = Count(ofile[p], T!Fd, g)
    BY <1>5
  <2>3. T!Times(hand'[q], g) = T!Times(hand[q], g)
            /\ T!Times(closing'[q], g) = T!Times(closing[q], g)
    BY <1>2
  <2> QED
    BY <1>3, <2>1, <2>2, <2>3
<1>9. Counted'
  BY <1>1, <1>2, <1>4, <1>5, <1>8, CountsMove
<1>10. Unused'
  BY <1>1, <1>2, <1>3 DEF Unused
<1>11. Held'
  BY <1>1, <1>2, HeldSame
<1> QED
  BY <1>4, <1>6, <1>7, <1>9, <1>10, <1>11 DEF TableInv

(* A process starts to exit. *)
LEMMA TableEnterExit ==
  ASSUME TableInv, NEW p \in FProc, T!enter_exit(p)
  PROVE  TableInv'
PROOF
<1>1. TableTypes /\ Calls /\ Fresh /\ Counted /\ Unused /\ Held
  BY DEF TableInv
<1>2. /\ p \in running /\ hand[p] = <<>> /\ exiting' = exiting \cup {p}
      /\ UNCHANGED <<ofile, fref, fobj, pipes, irefs, running, hand, closing, gone>>
  BY DEF T!enter_exit, T!User
<1>3. TableTypes'
  BY <1>1, <1>2 DEF TableTypes
<1>4. Calls'
  <2>1. Len(hand[p]) = 0
    BY <1>2
  <2> QED
    BY <1>1, <1>2, <2>1 DEF Calls
<1>5. Fresh' /\ Unused'
  BY <1>1, <1>2 DEF Fresh, Unused
<1>6. Counted'
  BY <1>1, <1>2 DEF Counted, Named
<1>7. Held'
  BY <1>1, <1>2, HeldSame
<1> QED
  BY <1>3, <1>4, <1>5, <1>6, <1>7 DEF TableInv

(* exit gives up the descriptors, and then the slot. *)
LEMMA TableExit ==
  ASSUME TableInv, NEW p \in FProc, T!exit(p)
  PROVE  TableInv'
PROOF
<1>1. TableTypes /\ Calls /\ Fresh /\ Counted /\ Unused /\ Held
  BY DEF TableInv
<1>2. p \in exiting /\ p \in running /\ closing[p] = <<>> /\ gone[p] = T!None
  BY <1>1 DEF T!exit, TableTypes
<1>3. hand[p] = <<>>
  <2>1. hand[p] \in Seq(T!FileNo) /\ Len(hand[p]) \in 0..2 /\ ~(Len(hand[p]) # 0)
    BY <1>1, <1>2 DEF Calls, TableTypes
  <2> QED
    BY <2>1
<1>4. CASE T!Fd \ T!FreeFds(p) # {}
  <2>1. PICK d \in T!Fd : d = T!Min(T!Fd \ T!FreeFds(p)) /\ ofile[p][d] # 0
    <3>1. T!Fd \ T!FreeFds(p) \in SUBSET Nat
      BY TableSets
    <3>2. T!Min(T!Fd \ T!FreeFds(p)) \in T!Fd \ T!FreeFds(p)
      BY <1>4, <3>1, MinIn
    <3> QED
      BY <3>2 DEF T!FreeFds
  <2>2. /\ closing' = [closing EXCEPT ![p] = <<ofile[p][d]>>]
        /\ ofile' = [ofile EXCEPT ![p][d] = 0]
        /\ UNCHANGED <<fref, fobj, pipes, irefs, running, hand, gone, exiting>>
    BY <1>4, <2>1 DEF T!exit
  <2> QED
    BY <1>2, <1>3, <2>1, <2>2, TableDrop
<1>5. CASE T!Fd \ T!FreeFds(p) = {}
  <2>1. /\ running' = running \ {p} /\ exiting' = exiting \ {p}
        /\ UNCHANGED <<ofile, closing, fref, fobj, pipes, irefs, hand, gone>>
    BY <1>5 DEF T!exit
  <2>2. \A d \in T!Fd : ofile[p][d] = 0
    BY <1>5 DEF T!FreeFds
  <2>3. TableTypes'
    BY <1>1, <2>1 DEF TableTypes
  <2>4. Len(hand[p]) = 0 /\ Len(closing[p]) = 0
    BY <1>2, <1>3
  <2>5. Calls'
    BY <1>1, <1>2, <2>1, <2>2, <2>4 DEF Calls
  <2>6. Fresh' /\ Unused'
    BY <1>1, <2>1 DEF Fresh, Unused
  <2>7. Counted'
    BY <1>1, <2>1 DEF Counted, Named
  <2>8. Held'
    BY <1>1, <2>1, HeldSame
  <2> QED
    BY <2>3, <2>5, <2>6, <2>7, <2>8 DEF TableInv
<1> QED
  BY <1>4, <1>5

(* sys_close. *)
LEMMA TableSysClose ==
  ASSUME TableInv, NEW p \in FProc, NEW d \in T!Fd, T!sys_close(p, d)
  PROVE  TableInv'
PROOF
  BY TableDrop DEF T!sys_close, T!User

(* The failures of pipealloc. *)
LEMMA TableFails ==
  ASSUME TableInv, NEW p \in FProc,
         T!pipealloc_bad(p) \/ (T!pipealloc_file(p) /\ T!FreeFiles = {})
  PROVE  TableInv'
PROOF
<1>1. TableTypes /\ Calls
  BY DEF TableInv
<1>2. CASE T!pipealloc_bad(p)
  <2>1. Len(closing[p]) = 0
    BY <1>1, <1>2 DEF Calls, T!pipealloc_bad
  <2> QED
    BY <1>2, <2>1, TableUndo DEF T!pipealloc_bad
<1>3. CASE T!pipealloc_file(p) /\ T!FreeFiles = {}
  <2>1. Len(closing[p]) = 0
    BY <1>3 DEF T!pipealloc_file, T!User
  <2>2. /\ closing' = [closing EXCEPT ![p] = hand[p]] /\ hand' = [hand EXCEPT ![p] = <<>>]
        /\ UNCHANGED <<ofile, fref, fobj, pipes, irefs, running, gone, exiting>>
    BY <1>3 DEF T!pipealloc_file
  <2> QED
    BY <2>1, <2>2, TableUndo
<1> QED
  BY <1>2, <1>3

(* At boot no file is open. *)
LEMMA TableInit ==
  ASSUME T!Init
  PROVE  TableInv
PROOF
<1>1. T!initproc \in FProc
  BY TableAssumption DEF T!initproc
<1>2. PICK u \in Seq(T!FileNo) : u = <<>> /\ Len(u) = 0
  <2>1. <<>> \in Seq(T!FileNo)
    OBVIOUS
  <2>2. Len(<<>>) = 0
    OBVIOUS
  <2> QED
    BY <2>1, <2>2
<1>3. TableTypes
  <2>1. 0 \in 0..NFILE
    BY TableAssumption
  <2> QED
    BY <1>1, <1>2, <2>1 DEF T!Init, TableTypes, Objects
<1>4. Calls
  BY <1>1, <1>2 DEF T!Init, Calls
<1>5. Fresh
  BY <1>2 DEF T!Init, Fresh
<1>6. Unused
  BY DEF T!Init, Unused
<1>7. Counted
  <2> SUFFICES ASSUME NEW f \in T!FileNo
               PROVE  fref[f] = SumFunction([p \in FProc |-> Named(p, f)])
    BY DEF Counted
  <2>1. ASSUME NEW p \in FProc
        PROVE  Named(p, f) = 0
    <3>1. \A d \in T!Fd : ofile[p][d] # f
      BY TableSets DEF T!Init
    <3>2. Count(ofile[p], T!Fd, f) = 0
      <4>1. IsFiniteSet(T!Fd)
        BY TableSets
      <4>2. PICK o : o = ofile[p]
        OBVIOUS
      <4>3. \A d \in T!Fd : o[d] # f
        BY <3>1, <4>2
      <4>4. Count(o, T!Fd, f) = 0
        BY <4>1, <4>3, CountSome
      <4> QED
        BY <4>2, <4>4
    <3>3. T!Times(u, f) = 0
      BY <1>2, TimesShort
    <3>4. hand[p] = u /\ closing[p] = u
      BY <1>2 DEF T!Init
    <3> QED
      BY <3>2, <3>3, <3>4 DEF Named
  <2>2. [p \in FProc |-> Named(p, f)] = [p \in FProc |-> 0]
    BY <2>1
  <2>3. IsFiniteSet(FProc)
    BY TableSets
  <2>4. SumFunction([p \in FProc |-> 0]) = 0
    BY <2>3, SumOfZeros
  <2> QED
    BY <2>2, <2>4 DEF T!Init
<1>8. Held
  <2>1. ASSUME NEW x, x # T!None
        PROVE  HeldBy(x) = 0
    <3>1. (\A f \in T!FileNo : fobj[f] # x) /\ \A p \in FProc : gone[p] # x
      BY <2>1 DEF T!Init
    <3>2. Count(fobj, T!FileNo, x) = 0 /\ Count(gone, FProc, x) = 0
      BY <3>1, TableSets, CountSome
    <3> QED
      BY <3>2 DEF HeldBy
  <2> QED
    BY <2>1, ObjectsDiffer DEF T!Init, Held
<1> QED
  BY <1>3, <1>4, <1>5, <1>6, <1>7, <1>8 DEF TableInv

(* Every step keeps the invariant. *)
LEMMA TableStep ==
  ASSUME TableInv, [T!Next]_tvars
  PROVE  TableInv'
PROOF
<1>1. CASE UNCHANGED tvars
  <2>1. UNCHANGED <<ofile, fref, fobj, pipes, irefs, running, hand, closing, gone, exiting>>
    BY <1>1 DEF tvars
  <2> QED
    BY <2>1 DEF TableInv, TableTypes, Calls, Fresh, Counted, Named, Unused, Held, HeldBy
<1>2. ASSUME NEW p \in FProc, T!fileclose(p) \/ T!release(p)
      PROVE  TableInv'
  BY <1>2, TableClose, TableRelease
<1>3. ASSUME NEW p \in FProc,
             T!sys_open(p) \/ T!pipealloc_file(p) \/ T!pipealloc_bad(p) \/ T!sys_pipe(p)
      PROVE  TableInv'
  BY <1>3, TableOpen, TableAlloc, TableFails, TablePipe
<1>4. ASSUME NEW p \in FProc, NEW d \in T!Fd, T!sys_dup(p, d) \/ T!sys_close(p, d)
      PROVE  TableInv'
  BY <1>4, TableDup, TableSysClose
<1>5. ASSUME NEW p \in FProc, NEW q \in FProc, T!fork(p, q)
      PROVE  TableInv'
  BY <1>5, TableFork
<1>6. ASSUME NEW p \in FProc, T!enter_exit(p) \/ T!exit(p)
      PROVE  TableInv'
  BY <1>6, TableEnterExit, TableExit
<1>7. CASE T!Next
  BY <1>2, <1>3, <1>4, <1>5, <1>6, <1>7 DEF T!Next
<1> QED
  BY <1>1, <1>7

(* The invariant says what TableExact says. *)
LEMMA TableInvExact ==
  ASSUME TableInv
  PROVE  TableExact
PROOF
<1>1. ASSUME NEW f \in T!FileNo
      PROVE  /\ fref[f] = T!SumFunction([p \in FProc |-> T!Copied(p, f) + T!Times(hand[p], f)
                                                          + T!Times(closing[p], f)])
             /\ fref[f] = 0 => fobj[f] = T!None
  <2>1. \A p \in FProc : T!Copied(p, f) + T!Times(hand[p], f) + T!Times(closing[p], f) = Named(p, f)
    BY TableCounts DEF Named, T!Copied, Count
  <2>2. [p \in FProc |-> T!Copied(p, f) + T!Times(hand[p], f) + T!Times(closing[p], f)]
          = [p \in FProc |-> Named(p, f)]
    BY <2>1
  <2>3. fref[f] = SumFunction([p \in FProc |-> Named(p, f)])
    BY DEF TableInv, Counted
  <2>4. \A h : T!SumFunction(h) = SumFunction(h)
    BY TableSums
  <2>5. fref[f] = 0 => fobj[f] = T!None
    BY DEF TableInv, Unused
  <2> QED
    BY <2>2, <2>3, <2>4, <2>5
<1>2. T!FilesExact
  BY <1>1 DEF T!FilesExact
<1>3. T!ObjectsExact
  BY TableCounts DEF T!ObjectsExact, TableInv, Held, HeldBy, Count
<1> QED
  BY <1>2, <1>3 DEF TableExact, T!TableExact

(* FilesExact and ObjectsExact hold for any number of processes, files,    *)
(* descriptors and pipes: on every path and failure of sys_open, sys_dup,  *)
(* sys_pipe, fork, sys_close and exit no reference to a file of ftable, no *)
(* end of a pipe and no reference to an inode is lost or given back twice  *)
(* (file.c, sysfile.c, pipe.c).                                            *)
THEOREM FilesNeverLost == TableSpec => []TableExact
PROOF
<1>1. T!Init => TableInv
  BY TableInit
<1>2. TableInv /\ [T!Next]_tvars => TableInv'
  BY TableStep
<1>3. TableInv => TableExact
  BY TableInvExact
<1> QED
  BY <1>1, <1>2, <1>3, PTL DEF TableSpec

-----------------------------------------------------------------------------
(* The blocks of files *)

(* The places where an inode has block numbers: the direct ones, the       *)
(* indirect block, and the ones in it.  itrunc has released those entries  *)
(* of the indirect block that it has passed.                               *)
Place == 0..NDIRECT + NINDIRECT
Entry(i, n) ==
  IF n <= NDIRECT THEN addrs[i][n]
  ELSE IF addrs[i][NDIRECT] = 0 THEN 0 ELSE ptr[addrs[i][NDIRECT]][n - NDIRECT - 1]
Truncs(p, i) == w[p].pc = "trunc" /\ ip(p) = i
Released(i, n) == n > NDIRECT /\ \E p \in Proc : Truncs(p, i) /\ n <= w[p].tot
Holds(i, n, b) == Entry(i, n) = b /\ ~Released(i, n)

CallSet == [pc : {"user", "begin", "writei", "trunc"}, o : Open \cup {Idle.o}, s : Seq(Nat),
            n : Nat, tot : Nat]
DataTypes ==
  /\ used \in SUBSET Block
  /\ data \in [Block -> [0..BSIZE - 1 -> Nat]]
  /\ ptr \in [Block -> [0..NINDIRECT - 1 -> 0..NBLOCKS]]
  /\ addrs \in [Inode -> [0..NDIRECT -> 0..NBLOCKS]]
  /\ daddrs \in [Inode -> [0..NDIRECT -> 0..NBLOCKS]]
  /\ size \in [Inode -> Nat] /\ dsize = size
  /\ lock \in [Inode -> Proc \cup {NoProc}] /\ off \in [Open -> Nat]
  /\ w \in [Proc -> CallSet]
  /\ logged \in [Proc -> SUBSET (0..NBLOCKS)]
  /\ saved \in [Inode -> Seq(Nat)]

(* Who has which lock, and how far a call is: a write stays within the     *)
(* largest file, and itrunc clears the direct blocks first.                *)
DataCall(p) ==
  /\ w[p].pc # "user" => w[p].o \in Open
  /\ w[p].pc = "begin" => w[p].tot = 0
  /\ w[p].pc \in {"writei", "trunc"} => lock[ip(p)] = p
  /\ w[p].pc = "writei" =>
       /\ w[p].n <= Len(w[p].s) /\ w[p].n <= MaxWrite /\ w[p].tot <= w[p].n
       /\ off[w[p].o] + w[p].n <= MAXFILE * BSIZE
  /\ w[p].pc = "trunc" =>
       w[p].tot <= MAXFILE /\ \A k \in 0..NDIRECT - 1 : k < w[p].tot => addrs[ip(p)][k] = 0
DataCalls ==
  /\ \A p \in Proc : DataCall(p)
  /\ \A i \in Inode, p \in Proc : lock[i] = p => w[p].pc \in {"writei", "trunc"} /\ ip(p) = i

(* A block is in one place, or it is free. *)
OnePlace ==
  \A i \in Inode, j \in Inode, m \in Place, n \in Place, b \in Block :
    Holds(i, m, b) /\ Holds(j, n, b) => i = j /\ m = n
UsedHeld == \A b \in Block : b \in used <=> \E i \in Inode, n \in Place : Holds(i, n, b)

(* The blocks before byte k of a file are there: those of its size, and    *)
(* those a write has come to.                                              *)
PlaceOf(bn) == IF bn < NDIRECT THEN bn ELSE bn + 1
Filled(i, k) == \A bn \in 0..MAXFILE - 1 : bn * BSIZE < k => Entry(i, PlaceOf(bn)) # 0
NoHoles ==
  /\ \A i \in Inode : ~Truncating(i) => Filled(i, size[i])
  /\ \A p \in Proc : w[p].pc = "writei" => Filled(ip(p), off[w[p].o] + w[p].tot)
  /\ \A o \in Open : off[o] <= size[InodeOf[o]]
  /\ \A i \in Inode : size[i] <= MAXFILE * BSIZE

(* A block map differs from the one on disk only once a write has come     *)
(* past the end of the file.                                               *)
MapOnDisk ==
  /\ \A i \in Inode : lock[i] = NoProc => daddrs[i] = addrs[i]
  /\ \A p \in Proc : w[p].pc = "writei" /\ off[w[p].o] + w[p].tot <= size[ip(p)] =>
                       daddrs[ip(p)] = addrs[ip(p)]

DataInv == DataTypes /\ DataCalls /\ OnePlace /\ UsedHeld /\ NoHoles /\ MapOnDisk

(* The sizes are numbers, and a round of filewrite has a size. *)
LEMMA DataSizes ==
  /\ BSIZE \in Nat \ {0} /\ NDIRECT \in Nat \ {0} /\ NINDIRECT \in Nat \ {0}
  /\ NBLOCKS \in Nat \ {0}
  /\ MAXFILE = NDIRECT + NINDIRECT /\ MAXFILE \in Nat /\ MaxWrite \in Nat
  /\ Place \subseteq Nat /\ Block \subseteq 0..NBLOCKS /\ 0 \notin Block
  /\ MAXFILE * BSIZE \in Nat
PROOF
<1>1. /\ BSIZE \in Nat \ {0} /\ NDIRECT \in Nat \ {0} /\ NINDIRECT \in Nat \ {0}
      /\ NBLOCKS \in Nat \ {0} /\ LOGSIZE \in Nat /\ LOGSIZE >= 6
  BY FileDataAssumption
<1>2. PICK t \in Nat : t = (LOGSIZE - 1 - 1 - 2) \div 2
  BY <1>1
<1>3. PICK m \in Nat : m = BSIZE
  BY <1>1
<1>4. t * m \in Nat
  BY <1>2, <1>3
<1>5. MaxWrite \in Nat
  BY <1>2, <1>3, <1>4 DEF MaxWrite
<1>6. MAXFILE \in Nat /\ MAXFILE * BSIZE \in Nat
  <2>1. PICK f \in Nat : f = MAXFILE
    BY <1>1 DEF MAXFILE
  <2>2. f * m \in Nat
    OBVIOUS
  <2> QED
    BY <1>3, <2>1, <2>2
<1> QED
  BY <1>1, <1>5, <1>6 DEF MAXFILE, Place, Block

(* Block numbers *)
LEMMA EntryIs ==
  ASSUME DataTypes, NEW i \in Inode, NEW n \in Place
  PROVE  /\ Entry(i, n) \in 0..NBLOCKS
         /\ Entry(i, n) # 0 => Entry(i, n) \in Block
         /\ addrs[i][NDIRECT] \in 0..NBLOCKS
         /\ (addrs[i][NDIRECT] # 0 => addrs[i][NDIRECT] \in Block)
         /\ n <= NDIRECT => n \in 0..NDIRECT
         /\ n > NDIRECT => n - NDIRECT - 1 \in 0..NINDIRECT - 1
PROOF
<1>1. /\ n \in Nat /\ n <= NDIRECT + NINDIRECT /\ NDIRECT \in Nat /\ NINDIRECT \in Nat
      /\ NBLOCKS \in Nat
  BY DataSizes DEF Place
<1>2. /\ n <= NDIRECT => n \in 0..NDIRECT
      /\ n > NDIRECT => n - NDIRECT - 1 \in 0..NINDIRECT - 1
      /\ NDIRECT \in 0..NDIRECT
  BY <1>1
<1>3. addrs[i][NDIRECT] \in 0..NBLOCKS /\ (n <= NDIRECT => addrs[i][n] \in 0..NBLOCKS)
  BY <1>2 DEF DataTypes
<1>4. addrs[i][NDIRECT] # 0 => addrs[i][NDIRECT] \in Block
  BY <1>1, <1>3 DEF Block
<1>5. addrs[i][NDIRECT] # 0 /\ n > NDIRECT => ptr[addrs[i][NDIRECT]][n - NDIRECT - 1] \in 0..NBLOCKS
  BY <1>2, <1>4, ZenonT(60) DEF DataTypes
<1>6. Entry(i, n) \in 0..NBLOCKS
  BY <1>1, <1>3, <1>5 DEF Entry
<1> QED
  BY <1>1, <1>2, <1>3, <1>4, <1>6 DEF Block

(* Steps that keep, take or release blocks *)
SameHeld ==
  \A i \in Inode, n \in Place, b \in Block : Holds(i, n, b)' <=> Holds(i, n, b)
Takes(i, m, a, n, b) ==
  /\ a \in Block \ used /\ b \in Block \ used /\ (m = n <=> a = b)
  /\ used' = used \cup {a, b}
  /\ \A j \in Inode, l \in Place, d \in Block :
       Holds(j, l, d)' <=> Holds(j, l, d) \/ (j = i /\ l = m /\ d = a) \/ (j = i /\ l = n /\ d = b)
Releases(i, n, b) ==
  /\ Holds(i, n, b) /\ used' = used \ {b}
  /\ \A j \in Inode, l \in Place, d \in Block :
       Holds(j, l, d)' <=> Holds(j, l, d) /\ ~(j = i /\ l = n)

LEMMA KeepsPlaces ==
  ASSUME OnePlace, UsedHeld, SameHeld, used' = used
  PROVE  OnePlace' /\ UsedHeld'
PROOF
<1>1. OnePlace'
  BY Zenon DEF OnePlace, SameHeld
<1>2. UsedHeld'
  BY Zenon DEF UsedHeld, SameHeld
<1> QED
  BY <1>1, <1>2

LEMMA TakesPlaces ==
  ASSUME OnePlace, UsedHeld, NEW i \in Inode, NEW m \in Place, NEW n \in Place, NEW a, NEW b,
         Takes(i, m, a, n, b)
  PROVE  OnePlace' /\ UsedHeld'
PROOF
<1>1. a \in Block /\ b \in Block /\ a \notin used /\ b \notin used
  BY DEF Takes
<1>2. \A j \in Inode, l \in Place : ~Holds(j, l, a) /\ ~Holds(j, l, b)
  BY <1>1, Zenon DEF UsedHeld
<1>3. OnePlace'
  <2> SUFFICES ASSUME NEW j \in Inode, NEW k \in Inode, NEW l \in Place, NEW h \in Place,
                      NEW d \in Block, Holds(j, l, d)', Holds(k, h, d)'
               PROVE  j = k /\ l = h
    BY Zenon DEF OnePlace
  <2>1. Holds(j, l, d) \/ (j = i /\ l = m /\ d = a) \/ (j = i /\ l = n /\ d = b)
    BY Zenon DEF Takes
  <2>2. Holds(k, h, d) \/ (k = i /\ h = m /\ d = a) \/ (k = i /\ h = n /\ d = b)
    BY Zenon DEF Takes
  <2>3. m = n <=> a = b
    BY DEF Takes
  <2>4. Holds(j, l, d) /\ Holds(k, h, d) => j = k /\ l = h
    BY Zenon DEF OnePlace
  <2>5. Holds(j, l, d) => d # a /\ d # b
    BY <1>2, Zenon
  <2>6. Holds(k, h, d) => d # a /\ d # b
    BY <1>2, Zenon
  <2> QED
    BY <2>1, <2>2, <2>3, <2>4, <2>5, <2>6
<1>4. UsedHeld'
  <2> SUFFICES ASSUME NEW d \in Block
               PROVE  d \in used' <=> \E j \in Inode, l \in Place : Holds(j, l, d)'
    BY Zenon DEF UsedHeld
  <2>1. d \in used' <=> d \in used \/ d = a \/ d = b
    BY DEF Takes
  <2>2. d \in used <=> \E j \in Inode, l \in Place : Holds(j, l, d)
    BY Zenon DEF UsedHeld
  <2>3. \A j \in Inode, l \in Place :
          Holds(j, l, d)' <=> Holds(j, l, d) \/ (j = i /\ l = m /\ d = a) \/ (j = i /\ l = n /\ d = b)
    BY Zenon DEF Takes
  <2> QED
    BY <2>1, <2>2, <2>3, Zenon
<1> QED
  BY <1>3, <1>4

LEMMA ReleasesPlaces ==
  ASSUME OnePlace, UsedHeld, NEW i \in Inode, NEW n \in Place, NEW b \in Block, Releases(i, n, b)
  PROVE  b \in used /\ OnePlace' /\ UsedHeld'
PROOF
<1>1. Holds(i, n, b)
  BY DEF Releases
<1>2. b \in used
  BY <1>1, Zenon DEF UsedHeld
<1>3. OnePlace'
  <2> SUFFICES ASSUME NEW j \in Inode, NEW k \in Inode, NEW l \in Place, NEW h \in Place,
                      NEW d \in Block, Holds(j, l, d)', Holds(k, h, d)'
               PROVE  j = k /\ l = h
    BY Zenon DEF OnePlace
  <2>1. Holds(j, l, d) /\ Holds(k, h, d)
    BY Zenon DEF Releases
  <2> QED
    BY <2>1, Zenon DEF OnePlace
<1>4. UsedHeld'
  <2> SUFFICES ASSUME NEW d \in Block
               PROVE  d \in used' <=> \E j \in Inode, l \in Place : Holds(j, l, d)'
    BY Zenon DEF UsedHeld
  <2>1. d \in used' <=> d \in used /\ d # b
    BY DEF Releases
  <2>2. d \in used <=> \E j \in Inode, l \in Place : Holds(j, l, d)
    BY Zenon DEF UsedHeld
  <2>3. \A j \in Inode, l \in Place : Holds(j, l, d)' <=> Holds(j, l, d) /\ ~(j = i /\ l = n)
    BY Zenon DEF Releases
  <2>4. \A j \in Inode, l \in Place : Holds(j, l, b) => j = i /\ l = n
    BY <1>1, Zenon DEF OnePlace
  <2>5. Holds(i, n, d) => d = b
    BY <1>1 DEF Holds
  <2> QED
    BY <2>1, <2>2, <2>3, <2>4, <2>5, Zenon
<1> QED
  BY <1>2, <1>3, <1>4

-----------------------------------------------------------------------------
(* A step of p that works on inode i leaves the others alone. *)
Busy == {"writei", "trunc"}
DataFrame(p, i, x, l) ==
  /\ w' = [w EXCEPT ![p] = x] /\ lock' = [lock EXCEPT ![i] = l]
  /\ x \in CallSet /\ l \in {NoProc, p} /\ lock[i] \in {NoProc, p}
  /\ w[p].pc \in Busy => ip(p) = i
  /\ x.pc # "user" => x.o \in Open
  /\ x.pc \in Busy <=> l = p
  /\ x.pc \in Busy => InodeOf[x.o] = i
  /\ \A j \in Inode \ {i} : addrs'[j] = addrs[j] /\ daddrs'[j] = daddrs[j] /\ size'[j] = size[j]
  /\ \A o \in Open : InodeOf[o] # i => off'[o] = off[o]
  /\ \A j \in Inode \ {i}, n \in Place : Entry(j, n)' = Entry(j, n)

LEMMA OthersElsewhere ==
  ASSUME DataTypes, DataCalls, NEW p \in Proc, NEW i \in Inode, lock[i] \in {NoProc, p},
         NEW q \in Proc, q # p, w[q].pc \in Busy
  PROVE  ip(q) # i /\ ip(q) \in Inode /\ lock[ip(q)] = q /\ w[q].o \in Open
PROOF
<1>1. w[q].o \in Open /\ lock[ip(q)] = q
  BY DEF DataCalls, DataCall, Busy
<1>2. ip(q) \in Inode
  BY <1>1, FileDataAssumption DEF ip
<1> QED
  BY <1>1, <1>2, FileDataAssumption

LEMMA FrameOthers ==
  ASSUME DataTypes, DataCalls, NEW p \in Proc, NEW i \in Inode, NEW x, NEW l, DataFrame(p, i, x, l),
         NEW q \in Proc, q # p
  PROVE  /\ w'[q] = w[q] /\ ip(q)' = ip(q)
         /\ w[q].pc \in Busy => /\ ip(q) \in Inode \ {i} /\ w[q].o \in Open
                                /\ lock'[ip(q)] = q /\ off'[w[q].o] = off[w[q].o]
PROOF
<1>1. w'[q] = w[q]
  BY DEF DataFrame, DataTypes
<1>2. ip(q)' = ip(q)
  BY <1>1 DEF ip
<1>3. ASSUME w[q].pc \in Busy
      PROVE  /\ ip(q) \in Inode \ {i} /\ w[q].o \in Open
             /\ lock'[ip(q)] = q /\ off'[w[q].o] = off[w[q].o]
  <2>1. lock[i] \in {NoProc, p}
    BY DEF DataFrame
  <2>2. ip(q) # i /\ ip(q) \in Inode /\ lock[ip(q)] = q /\ w[q].o \in Open
    BY <1>3, <2>1, OthersElsewhere
  <2>3. lock'[ip(q)] = q
    BY <2>2 DEF DataFrame, DataTypes
  <2>4. off'[w[q].o] = off[w[q].o]
    BY <2>2 DEF DataFrame, ip
  <2> QED
    BY <2>2, <2>3, <2>4
<1> QED
  BY <1>1, <1>2, <1>3

LEMMA FrameOwn ==
  ASSUME DataTypes, DataCalls, NEW p \in Proc, NEW i \in Inode, NEW x, NEW l, DataFrame(p, i, x, l)
  PROVE  w'[p] = x /\ (x.pc \in Busy => ip(p)' = i) /\ lock'[i] = l
         /\ \A j \in Inode \ {i} : lock'[j] = lock[j]
PROOF
<1>1. w'[p] = x
  BY DEF DataFrame, DataTypes
<1>2. x.pc \in Busy => ip(p)' = i
  BY <1>1 DEF ip, DataFrame
<1>3. lock'[i] = l /\ \A j \in Inode \ {i} : lock'[j] = lock[j]
  BY DEF DataFrame, DataTypes
<1> QED
  BY <1>1, <1>2, <1>3

(* What p's own call then needs *)
OwnCall(x, i) ==
  /\ x.pc = "begin" => x.tot = 0
  /\ x.pc = "writei" =>
       /\ x.n <= Len(x.s) /\ x.n <= MaxWrite /\ x.tot <= x.n
       /\ off'[x.o] + x.n <= MAXFILE * BSIZE
  /\ x.pc = "trunc" =>
       x.tot <= MAXFILE /\ \A k \in 0..NDIRECT - 1 : k < x.tot => addrs'[i][k] = 0

LEMMA FrameCalls ==
  ASSUME DataTypes, DataCalls, NEW p \in Proc, NEW i \in Inode, NEW x, NEW l, DataFrame(p, i, x, l),
         OwnCall(x, i)
  PROVE  DataCalls'
PROOF
<1>1. /\ w'[p] = x /\ (x.pc \in Busy => ip(p)' = i) /\ lock'[i] = l
      /\ \A j \in Inode \ {i} : lock'[j] = lock[j]
  BY FrameOwn
<1>2. DataCall(p)'
  <2>1. x.pc # "user" => x.o \in Open
    BY DEF DataFrame
  <2>2. x.pc \in {"writei", "trunc"} => lock'[ip(p)'] = p
    BY <1>1 DEF DataFrame, Busy
  <2>3. x.pc = "trunc" => ip(p)' = i
    BY <1>1 DEF Busy
  <2> QED
    BY <1>1, <2>1, <2>2, <2>3 DEF DataCall, OwnCall
<1>3. ASSUME NEW q \in Proc, q # p PROVE DataCall(q)'
  <2>1. /\ w'[q] = w[q] /\ ip(q)' = ip(q)
        /\ w[q].pc \in Busy => /\ ip(q) \in Inode \ {i} /\ w[q].o \in Open
                               /\ lock'[ip(q)] = q /\ off'[w[q].o] = off[w[q].o]
    BY <1>3, FrameOthers
  <2>2. w[q].pc \in Busy => addrs'[ip(q)] = addrs[ip(q)]
    BY <2>1 DEF DataFrame
  <2>3. DataCall(q)
    BY DEF DataCalls
  <2> QED
    BY <2>1, <2>2, <2>3 DEF DataCall, Busy
<1>4. ASSUME NEW j \in Inode, NEW q \in Proc, lock'[j] = q
      PROVE  w'[q].pc \in {"writei", "trunc"} /\ ip(q)' = j
  <2>1. CASE j = i
    <3>1. l = q /\ NoProc \notin Proc
      BY <1>1, <1>4, <2>1, FileDataAssumption
    <3>2. q = p
      BY <3>1 DEF DataFrame
    <3> QED
      BY <1>1, <2>1, <3>1, <3>2 DEF DataFrame, Busy
  <2>2. CASE j # i
    <3>1. w[q].pc \in Busy /\ ip(q) = j
      BY <1>1, <1>4, <2>2 DEF DataCalls, Busy
    <3>2. q # p
      BY <2>2, <3>1 DEF DataFrame
    <3>3. w'[q] = w[q] /\ ip(q)' = ip(q)
      BY <3>2, FrameOthers
    <3> QED
      BY <3>1, <3>3 DEF Busy
  <2> QED
    BY <2>1, <2>2
<1> QED
  BY <1>2, <1>3, <1>4 DEF DataCalls

LEMMA FrameTruncs ==
  ASSUME DataTypes, DataCalls, NEW p \in Proc, NEW i \in Inode, NEW x, NEW l, DataFrame(p, i, x, l)
  PROVE  /\ \A j \in Inode \ {i}, q \in Proc : Truncs(q, j)' <=> Truncs(q, j)
         /\ \A j \in Inode \ {i} : Truncating(j)' <=> Truncating(j)
         /\ \A j \in Inode \ {i}, n \in Place : Released(j, n)' <=> Released(j, n)
         /\ \A q \in Proc : Truncs(q, i) => q = p
         /\ \A q \in Proc : Truncs(q, i)' <=> q = p /\ x.pc = "trunc"
         /\ Truncating(i)' <=> x.pc = "trunc"
PROOF
<1>1. /\ w'[p] = x /\ (x.pc \in Busy => ip(p)' = i)
  BY FrameOwn
<1>2. ASSUME NEW q \in Proc, q # p
      PROVE  /\ w'[q] = w[q] /\ ip(q)' = ip(q) /\ ~Truncs(q, i)
  BY <1>2, FrameOthers DEF Truncs, Busy
<1>3. ASSUME NEW j \in Inode \ {i} PROVE ~Truncs(p, j) /\ ~Truncs(p, j)'
  BY <1>1 DEF Truncs, DataFrame, Busy
<1>4. \A j \in Inode \ {i}, q \in Proc : (Truncs(q, j)' <=> Truncs(q, j))
  <2> SUFFICES ASSUME NEW j \in Inode \ {i}, NEW q \in Proc PROVE Truncs(q, j)' <=> Truncs(q, j)
    OBVIOUS
  <2>1. CASE q = p
    BY <1>3, <2>1
  <2>2. CASE q # p
    BY <1>2, <2>2 DEF Truncs
  <2> QED
    BY <2>1, <2>2
<1>5. \A j \in Inode \ {i} : (Truncating(j)' <=> Truncating(j))
  BY <1>4, Zenon DEF Truncating, Truncs
<1>6. \A j \in Inode \ {i}, n \in Place : (Released(j, n)' <=> Released(j, n))
  <2> SUFFICES ASSUME NEW j \in Inode \ {i}, NEW n \in Place PROVE Released(j, n)' <=> Released(j, n)
    OBVIOUS
  <2>1. \A q \in Proc : Truncs(q, j) => w'[q] = w[q]
    BY <1>2, <1>3
  <2>2. \A q \in Proc : (Truncs(q, j)' <=> Truncs(q, j))
    BY <1>4
  <2> QED
    BY <2>1, <2>2 DEF Released
<1>7. \A q \in Proc : Truncs(q, i) => q = p
  BY <1>2
<1>8. \A q \in Proc : (Truncs(q, i)' <=> q = p /\ x.pc = "trunc")
  <2> SUFFICES ASSUME NEW q \in Proc PROVE Truncs(q, i)' <=> q = p /\ x.pc = "trunc"
    OBVIOUS
  <2>1. CASE q = p
    BY <1>1, <2>1 DEF Truncs, Busy
  <2>2. CASE q # p
    BY <1>2, <2>2 DEF Truncs
  <2> QED
    BY <2>1, <2>2
<1>9. Truncating(i)' <=> x.pc = "trunc"
  BY <1>8, Zenon DEF Truncating, Truncs
<1> QED
  BY <1>4, <1>5, <1>6, <1>7, <1>8, <1>9

LEMMA FrameHoles ==
  ASSUME DataTypes, DataCalls, NoHoles,
         NEW p \in Proc, NEW i \in Inode, NEW x, NEW l, DataFrame(p, i, x, l),
         x.pc # "trunc" => Filled(i, size[i])',
         x.pc = "writei" => \A k \in Nat : k = off'[x.o] + x.tot => Filled(i, k)',
         \A o \in Open : InodeOf[o] = i => off'[o] <= size'[i],
         size'[i] <= MAXFILE * BSIZE, off' \in [Open -> Nat]
  PROVE  NoHoles'
PROOF
<1>1. /\ w'[p] = x /\ (x.pc \in Busy => ip(p)' = i)
  BY FrameOwn
<1>2. ASSUME NEW j \in Inode \ {i}, NEW k, Filled(j, k) PROVE Filled(j, k)'
  <2>1. \A bn \in 0..MAXFILE - 1 : PlaceOf(bn) \in Place
    BY DataSizes DEF Place, PlaceOf
  <2>2. \A n \in Place : Entry(j, n)' = Entry(j, n)
    BY DEF DataFrame
  <2> QED
    BY <1>2, <2>1, <2>2 DEF Filled
<1>3. ASSUME NEW j \in Inode, ~Truncating(j)' PROVE Filled(j, size[j])'
  <2>1. CASE j = i
    <3>1. x.pc # "trunc"
      <4>1. Truncating(i)' <=> x.pc = "trunc"
        BY FrameTruncs
      <4>2. ~Truncating(i)'
        BY <1>3, <2>1, Zenon
      <4> QED
        BY <4>1, <4>2
    <3>2. Filled(i, size[i])'
      BY <3>1
    <3> QED
      BY <2>1, <3>2, Zenon
  <2>2. CASE j # i
    <3>1. ~Truncating(j)
      BY <1>3, <2>2, FrameTruncs
    <3>2. Filled(j, size[j]) /\ size'[j] = size[j]
      BY <2>2, <3>1 DEF NoHoles, DataFrame
    <3> QED
      BY <1>2, <2>2, <3>2
  <2> QED
    BY <2>1, <2>2
<1>4. ASSUME NEW q \in Proc, w'[q].pc = "writei" PROVE Filled(ip(q), off[w[q].o] + w[q].tot)'
  <2>1. CASE q = p
    <3>1. x.pc = "writei" /\ ip(q)' = i /\ w'[q] = x
      BY <1>1, <1>4, <2>1 DEF Busy
    <3>2. x.o \in Open /\ x.tot \in Nat
      BY <3>1 DEF DataFrame, CallSet
    <3>3. off'[x.o] \in Nat
      BY <3>2
    <3> QED
      BY <3>1, <3>2, <3>3
  <2>2. CASE q # p
    <3>1. /\ w'[q] = w[q] /\ ip(q)' = ip(q)
          /\ w[q].pc \in Busy => /\ ip(q) \in Inode \ {i} /\ w[q].o \in Open
                                 /\ lock'[ip(q)] = q /\ off'[w[q].o] = off[w[q].o]
      BY <2>2, FrameOthers
    <3>2. Filled(ip(q), off[w[q].o] + w[q].tot) /\ ip(q) \in Inode \ {i}
      BY <1>4, <3>1 DEF NoHoles, Busy
    <3>3. Filled(ip(q), off[w[q].o] + w[q].tot)'
      BY <1>2, <1>4, <3>1, <3>2 DEF Busy
    <3> QED
      BY <3>3
  <2> QED
    BY <2>1, <2>2
<1>5. ASSUME NEW o \in Open PROVE off'[o] <= size'[InodeOf[o]]
  BY FileDataAssumption DEF NoHoles, DataFrame
<1>6. ASSUME NEW j \in Inode PROVE size'[j] <= MAXFILE * BSIZE
  BY DEF NoHoles, DataFrame
<1> QED
  BY <1>3, <1>4, <1>5, <1>6 DEF NoHoles

LEMMA FrameDisk ==
  ASSUME DataTypes, DataCalls, MapOnDisk,
         NEW p \in Proc, NEW i \in Inode, NEW x, NEW l, DataFrame(p, i, x, l),
         l = NoProc => daddrs'[i] = addrs'[i],
         x.pc = "writei" /\ off'[x.o] + x.tot <= size'[i] => daddrs'[i] = addrs'[i]
  PROVE  MapOnDisk'
PROOF
<1>1. /\ w'[p] = x /\ (x.pc \in Busy => ip(p)' = i) /\ lock'[i] = l
      /\ \A j \in Inode \ {i} : lock'[j] = lock[j]
  BY FrameOwn
<1>2. ASSUME NEW j \in Inode, lock'[j] = NoProc PROVE daddrs'[j] = addrs'[j]
  BY <1>1, <1>2 DEF MapOnDisk, DataFrame
<1>3. ASSUME NEW q \in Proc, w'[q].pc = "writei",
             off'[w'[q].o] + w'[q].tot <= size'[ip(q)']
      PROVE  daddrs'[ip(q)'] = addrs'[ip(q)']
  <2>1. CASE q = p
    BY <1>1, <1>3, <2>1 DEF Busy
  <2>2. CASE q # p
    <3>1. /\ w'[q] = w[q] /\ ip(q)' = ip(q)
          /\ w[q].pc \in Busy => /\ ip(q) \in Inode \ {i} /\ w[q].o \in Open
                                 /\ lock'[ip(q)] = q /\ off'[w[q].o] = off[w[q].o]
      BY <2>2, FrameOthers
    <3>2. ip(q) \in Inode \ {i} /\ off'[w[q].o] = off[w[q].o]
      BY <1>3, <3>1 DEF Busy
    <3>3. /\ addrs'[ip(q)] = addrs[ip(q)] /\ daddrs'[ip(q)] = daddrs[ip(q)]
          /\ size'[ip(q)] = size[ip(q)]
      BY <3>2 DEF DataFrame
    <3> QED
      BY <1>3, <3>1, <3>2, <3>3 DEF MapOnDisk
  <2> QED
    BY <2>1, <2>2
<1> QED
  BY <1>2, <1>3 DEF MapOnDisk

-----------------------------------------------------------------------------
(* Steps that touch no block *)

LEMMA DataCaller ==
  ASSUME DataTypes, DataCalls, NEW p \in Proc
  PROVE  /\ w[p] \in CallSet /\ Idle \in CallSet /\ Idle.pc = "user"
         /\ w[p].pc # "user" => /\ w[p].o \in Open /\ ip(p) \in Inode /\ off[w[p].o] \in Nat
                                /\ size[ip(p)] \in Nat /\ ip(p) = InodeOf[w[p].o]
         /\ w[p].pc \in Busy => lock[ip(p)] = p
         /\ w[p].s \in Seq(Nat) /\ Len(w[p].s) \in Nat /\ w[p].n \in Nat /\ w[p].tot \in Nat
PROOF
<1>1. w[p] \in CallSet
  BY DEF DataTypes
<1>2. Idle \in CallSet /\ Idle.pc = "user"
  BY DEF Idle, CallSet
<1>3. DataCall(p)
  BY DEF DataCalls
<1>4. w[p].pc # "user" => w[p].o \in Open
  BY <1>3 DEF DataCall
<1>5. w[p].pc \in Busy => lock[ip(p)] = p
  BY <1>3 DEF DataCall, Busy
<1>6. w[p].pc # "user" => ip(p) \in Inode
  BY <1>4, FileDataAssumption DEF ip
<1>7. w[p].s \in Seq(Nat) /\ w[p].n \in Nat /\ w[p].tot \in Nat
  BY <1>1 DEF CallSet
<1> QED
  BY <1>1, <1>2, <1>4, <1>5, <1>6, <1>7 DEF DataTypes, ip

LEMMA NobodyAt ==
  ASSUME DataTypes, DataCalls, NEW i \in Inode, lock[i] = NoProc
  PROVE  ~Truncating(i) /\ \A q \in Proc : w[q].pc \in Busy => ip(q) # i
PROOF
<1>1. \A q \in Proc : w[q].pc \in Busy => ip(q) # i
  BY DataCaller, FileDataAssumption
<1> QED
  BY <1>1 DEF Truncating, Busy

LEMMA QuietHeld ==
  ASSUME DataTypes, DataCalls, NEW p \in Proc, NEW i \in Inode, NEW x, NEW l, DataFrame(p, i, x, l),
         addrs' = addrs, ptr' = ptr, w[p].pc # "trunc", x.pc = "trunc" => x.tot = 0
  PROVE  SameHeld
PROOF
<1>1. \A j \in Inode, n \in Place : Entry(j, n)' = Entry(j, n)
  BY DEF Entry
<1>2. \A n \in Place : ~Released(i, n)
  <2>1. \A q \in Proc : ~Truncs(q, i)
    BY FrameTruncs DEF Truncs
  <2> QED
    BY <2>1 DEF Released
<1>3. \A n \in Place : ~Released(i, n)'
  <2> SUFFICES ASSUME NEW n \in Place, Released(i, n)' PROVE FALSE
    OBVIOUS
  <2>1. n > NDIRECT /\ \E q \in Proc : Truncs(q, i)' /\ n <= w'[q].tot
    BY DEF Released
  <2>2. n <= w'[p].tot /\ x.pc = "trunc"
    BY <2>1, FrameTruncs
  <2>3. w'[p] = x
    BY FrameOwn
  <2> QED
    BY <2>1, <2>2, <2>3, DataSizes
<1>4. \A j \in Inode, n \in Place : (Released(j, n)' <=> Released(j, n))
  BY <1>2, <1>3, FrameTruncs
<1> QED
  BY <1>1, <1>4 DEF SameHeld, Holds

LEMMA QuietEntries ==
  ASSUME addrs' = addrs, ptr' = ptr
  PROVE  /\ \A j \in Inode, n \in Place : Entry(j, n)' = Entry(j, n)
         /\ \A j \in Inode : \A k : Filled(j, k) => Filled(j, k)'
PROOF
<1>1. \A j, n : Entry(j, n)' = Entry(j, n)
  BY DEF Entry
<1> QED
  BY <1>1 DEF Filled

(* A process that is about to begin, or has given up *)
LEMMA AsideKeeps ==
  ASSUME DataInv, NEW p \in Proc, NEW x \in CallSet, w' = [w EXCEPT ![p] = x],
         w[p].pc \notin Busy, x.pc \notin Busy, x.pc # "user" => x.o \in Open /\ x.tot = 0,
         UNCHANGED <<blocks, inodes, lock, off, logged, saved>>
  PROVE  DataInv'
PROOF
<1>0. /\ DataTypes /\ DataCalls /\ OnePlace /\ UsedHeld /\ NoHoles /\ MapOnDisk
      /\ used' = used /\ data' = data /\ ptr' = ptr /\ addrs' = addrs /\ size' = size
      /\ daddrs' = daddrs /\ dsize' = dsize /\ lock' = lock /\ off' = off /\ logged' = logged
      /\ saved' = saved
  BY DEF DataInv, blocks, inodes
<1>1. DataTypes'
  BY <1>0 DEF DataTypes
<1>2. /\ w'[p] = x /\ \A q \in Proc \ {p} : w'[q] = w[q] /\ ip(q)' = ip(q)
  BY <1>0 DEF DataTypes, ip
<1>3. \A q \in Proc : w[q].pc \in Busy \/ w'[q].pc \in Busy => w'[q] = w[q] /\ ip(q)' = ip(q)
  BY <1>2
<1>4. DataCalls'
  <2>1. ASSUME NEW q \in Proc PROVE DataCall(q)'
    BY <1>0, <1>2 DEF DataCalls, DataCall, Busy
  <2>2. ASSUME NEW i \in Inode, NEW q \in Proc, lock'[i] = q
        PROVE  w'[q].pc \in {"writei", "trunc"} /\ ip(q)' = i
    <3>1. w[q].pc \in Busy /\ ip(q) = i
      BY <1>0, <2>2 DEF DataCalls, Busy
    <3> QED
      BY <1>3, <3>1 DEF Busy
  <2> QED
    BY <2>1, <2>2 DEF DataCalls
<1>5. \A q \in Proc : \A i : (Truncs(q, i)' <=> Truncs(q, i))
  BY <1>3 DEF Truncs, Busy
<1>6. \A i : (Truncating(i)' <=> Truncating(i))
  BY <1>5, Zenon DEF Truncating, Truncs
<1>7. \A i \in Inode, n \in Place : (Released(i, n)' <=> Released(i, n))
  <2>1. \A q \in Proc : \A i : Truncs(q, i) => w'[q] = w[q]
    BY <1>3 DEF Truncs, Busy
  <2> QED
    BY <1>5, <2>1 DEF Released
<1>8. SameHeld
  BY <1>0, <1>7, QuietEntries DEF SameHeld, Holds
<1>9. OnePlace' /\ UsedHeld'
  BY <1>0, <1>8, KeepsPlaces
<1>10. NoHoles'
  <2>1. ASSUME NEW i \in Inode, ~Truncating(i)' PROVE Filled(i, size[i])'
    BY <1>0, <1>6, <2>1, QuietEntries DEF NoHoles
  <2>2. ASSUME NEW q \in Proc, w'[q].pc = "writei" PROVE Filled(ip(q), off[w[q].o] + w[q].tot)'
    <3>1. w'[q] = w[q] /\ ip(q)' = ip(q) /\ w[q].pc = "writei"
      BY <1>3, <2>2 DEF Busy
    <3>2. Filled(ip(q), off[w[q].o] + w[q].tot) /\ ip(q) \in Inode
      BY <1>0, <3>1, DataCaller DEF NoHoles
    <3>3. PICK j \in Inode : j = ip(q)
      BY <3>2
    <3>4. PICK k : k = off[w[q].o] + w[q].tot
      OBVIOUS
    <3>5. Filled(j, k)'
      BY <1>0, <3>2, <3>3, <3>4, QuietEntries
    <3> QED
      BY <1>0, <3>1, <3>3, <3>4, <3>5
  <2> QED
    BY <1>0, <2>1, <2>2 DEF NoHoles
<1>11. MapOnDisk'
  BY <1>0, <1>3 DEF MapOnDisk, Busy
<1> QED
  BY <1>1, <1>4, <1>9, <1>10, <1>11 DEF DataInv

LEMMA FilewriteKeeps ==
  ASSUME DataInv, NEW p \in Proc, NEW o \in Open, NEW s \in Str, filewrite(p, o, s)
  PROVE  DataInv'
PROOF
<1>1. DataTypes /\ DataCalls
  BY DEF DataInv
<1>2. PICK x : x = [Idle EXCEPT !.pc = "begin", !.o = o, !.s = s]
  OBVIOUS
<1>3. x \in CallSet /\ x.pc = "begin" /\ x.o = o /\ x.tot = 0
  <2>1. s \in Seq(Nat)
    BY FileDataAssumption
  <2> QED
    BY <1>2, <2>1 DEF CallSet, Idle
<1>4. w' = [w EXCEPT ![p] = x] /\ UNCHANGED <<blocks, inodes, lock, off, logged, saved>>
      /\ w[p].pc = "user"
  BY <1>2 DEF filewrite, go, At
<1> QED
  BY <1>3, <1>4, AsideKeeps DEF Busy

LEMMA FilereadKeeps ==
  ASSUME DataInv, NEW p \in Proc, NEW o \in Open, NEW n \in ReadLength, fileread(p, o, n)
  PROVE  DataInv'
PROOF
<1>0. /\ DataTypes /\ DataCalls /\ OnePlace /\ UsedHeld /\ NoHoles /\ MapOnDisk
  BY DEF DataInv
<1>1. PICK i \in Inode : i = InodeOf[o]
  BY FileDataAssumption
<1>2. PICK m : m = IF off[o] + n > size[i] THEN size[i] - off[o] ELSE n
  OBVIOUS
<1>3. /\ w[p].pc = "user" /\ lock[i] = NoProc /\ off[o] <= size[i]
      /\ off' = [off EXCEPT ![o] = @ + m]
      /\ UNCHANGED <<blocks, inodes, lock, w, logged, saved>>
  BY <1>1, <1>2 DEF fileread, At
<1>4. /\ used' = used /\ data' = data /\ ptr' = ptr /\ addrs' = addrs /\ size' = size
      /\ daddrs' = daddrs /\ dsize' = dsize /\ lock' = lock /\ w' = w /\ logged' = logged
      /\ saved' = saved
  BY <1>3 DEF blocks, inodes
<1>5. n \in Nat /\ off[o] \in Nat /\ size[i] \in Nat
  BY <1>0, FileDataAssumption DEF DataTypes
<1>6. off[o] + m \in Nat /\ off[o] + m <= size[i]
  BY <1>2, <1>3, <1>5
<1>7. off' \in [Open -> Nat] /\ off'[o] <= size[i] /\ \A u \in Open : u # o => off'[u] = off[u]
  BY <1>0, <1>3, <1>6 DEF DataTypes
<1>8. PICK x : x = w[p]
  OBVIOUS
<1>9. DataFrame(p, i, x, NoProc)
  <2>1. w' = [w EXCEPT ![p] = x] /\ lock' = [lock EXCEPT ![i] = NoProc] /\ x \in CallSet
    BY <1>0, <1>3, <1>4, <1>8 DEF DataTypes
  <2>2. x.pc = "user" /\ NoProc # p
    BY <1>3, <1>8, FileDataAssumption
  <2>3. \A j \in Inode, k \in Place : Entry(j, k)' = Entry(j, k)
    BY <1>4, QuietEntries
  <2> QED
    BY <1>1, <1>3, <1>4, <1>7, <1>8, <2>1, <2>2, <2>3 DEF DataFrame, Busy
<1>10. x.pc = "user"
  BY <1>3, <1>8
<1>11. DataTypes'
  BY <1>0, <1>4, <1>7 DEF DataTypes
<1>12. DataCalls'
  BY <1>0, <1>9, <1>10, FrameCalls DEF OwnCall
<1>13. OnePlace' /\ UsedHeld'
  BY <1>0, <1>3, <1>4, <1>9, <1>10, QuietHeld, KeepsPlaces
<1>14. NoHoles'
  <2>1. Filled(i, size[i])'
    <3>1. Filled(i, size[i])
      BY <1>0, <1>3, NobodyAt DEF NoHoles
    <3>2. PICK k : k = size[i]
      OBVIOUS
    <3>3. Filled(i, k)'
      BY <1>4, <3>1, <3>2, QuietEntries
    <3> QED
      BY <1>4, <3>2, <3>3
  <2>2. \A u \in Open : InodeOf[u] = i => off'[u] <= size'[i]
    BY <1>0, <1>4, <1>7 DEF NoHoles
  <2>3. size'[i] <= MAXFILE * BSIZE
    BY <1>0, <1>4 DEF NoHoles
  <2> QED
    BY <1>0, <1>7, <1>9, <1>10, <2>1, <2>2, <2>3, FrameHoles
<1>15. MapOnDisk'
  <2>1. daddrs'[i] = addrs'[i]
    BY <1>0, <1>3, <1>4 DEF MapOnDisk
  <2> QED
    BY <1>0, <1>9, <2>1, FrameDisk
<1> QED
  BY <1>11, <1>12, <1>13, <1>14, <1>15 DEF DataInv

(* Where a byte is, and that it is there *)
LEMMA ByteBlock ==
  ASSUME DataTypes, NEW i \in Inode, NEW k \in Nat, NEW m \in Nat, k < m, m <= MAXFILE * BSIZE,
         Filled(i, m)
  PROVE  /\ k \div BSIZE \in 0..MAXFILE - 1 /\ PlaceOf(k \div BSIZE) \in Place
         /\ BlockOf(i, k) = Entry(i, PlaceOf(k \div BSIZE)) /\ BlockOf(i, k) \in Block
         /\ k % BSIZE \in 0..BSIZE - 1
PROOF
<1>1. PICK z \in Nat \ {0} : z = BSIZE
  BY DataSizes
<1>2. PICK f \in Nat : f = MAXFILE
  BY DataSizes
<1>3. PICK q \in Nat : q = k \div z /\ q * z <= k
  BY Divided
<1>4. q < f
  <2>1. f * z \in Nat /\ q * z \in Nat
    OBVIOUS
  <2>2. q * z < f * z
    BY <1>1, <1>2, <1>3, <2>1
  <2>3. f <= q => f * z <= q * z
    BY Product
  <2> QED
    BY <2>1, <2>2, <2>3
<1>5. q \in 0..MAXFILE - 1 /\ PlaceOf(q) \in Place
  BY <1>2, <1>4, DataSizes DEF PlaceOf, Place
<1>6. q * BSIZE < m
  <2>1. q * z \in Nat
    OBVIOUS
  <2> QED
    BY <1>1, <1>3, <2>1
<1>7. Entry(i, PlaceOf(q)) # 0
  BY <1>5, <1>6 DEF Filled
<1>8. Entry(i, PlaceOf(q)) \in Block
  BY <1>5, <1>7, EntryIs
<1>9. BlockOf(i, k) = Entry(i, PlaceOf(q))
  <2>1. BlockOf(i, k) = IF q < NDIRECT THEN addrs[i][q] ELSE ptr[addrs[i][NDIRECT]][q - NDIRECT]
    BY <1>1, <1>3 DEF BlockOf
  <2>2. CASE q < NDIRECT
    BY <2>1, <2>2, DataSizes DEF Entry, PlaceOf
  <2>3. CASE ~(q < NDIRECT)
    <3>1. NDIRECT \in Nat /\ q >= NDIRECT /\ PlaceOf(q) = q + 1 /\ q + 1 - NDIRECT - 1 = q - NDIRECT
          /\ ~(q + 1 <= NDIRECT)
      BY <2>3, DataSizes DEF PlaceOf
    <3>2. Entry(i, PlaceOf(q)) = ptr[addrs[i][NDIRECT]][q - NDIRECT]
      BY <1>7, <3>1 DEF Entry
    <3> QED
      BY <2>1, <2>3, <3>2
  <2> QED
    BY <2>2, <2>3
<1>10. k % BSIZE \in 0..BSIZE - 1
  BY <1>1, DivMod
<1> QED
  BY <1>1, <1>3, <1>5, <1>8, <1>9, <1>10

LEMMA ContentsAre ==
  ASSUME DataTypes, NEW i \in Inode, Filled(i, size[i]), size[i] <= MAXFILE * BSIZE
  PROVE  /\ Contents(i) \in Seq(Nat) /\ Len(Contents(i)) = size[i]
         /\ \A k \in 1..size[i] : Contents(i)[k] = data[BlockOf(i, k - 1)][(k - 1) % BSIZE]
PROOF
<1>1. size[i] \in Nat
  BY DEF DataTypes
<1>2. PICK m \in Nat : m = size[i]
  BY <1>1
<1>3. Contents(i) = [k \in 1..m |-> data[BlockOf(i, k - 1)][(k - 1) % BSIZE]]
  <2>1. Contents(i) = [k \in 1..m - 0 |-> data[BlockOf(i, 0 + k - 1)][(0 + k - 1) % BSIZE]]
    BY <1>2 DEF Contents, Bytes
  <2>2. m - 0 = m /\ \A k \in 1..m : 0 + k - 1 = k - 1
    OBVIOUS
  <2> QED
    BY <2>1, <2>2
<1>4. \A k \in 1..m : data[BlockOf(i, k - 1)][(k - 1) % BSIZE] \in Nat
  <2> SUFFICES ASSUME NEW k \in 1..m PROVE data[BlockOf(i, k - 1)][(k - 1) % BSIZE] \in Nat
    OBVIOUS
  <2>1. PICK h \in Nat : h = k - 1 /\ h < m
    OBVIOUS
  <2>2. BlockOf(i, h) \in Block /\ h % BSIZE \in 0..BSIZE - 1
    BY <1>2, <2>1, ByteBlock
  <2>3. data[BlockOf(i, h)][h % BSIZE] \in Nat
    BY <2>2, ZenonT(60) DEF DataTypes
  <2> QED
    BY <2>1, <2>3
<1>5. \A k \in 1..m : Contents(i)[k] = data[BlockOf(i, k - 1)][(k - 1) % BSIZE]
  BY <1>3
<1>6. PICK g \in [1..m -> Nat] : g = Contents(i)
  BY <1>3, <1>4
<1>7. g \in Seq(Nat) /\ Len(g) = m
  OBVIOUS
<1> QED
  BY <1>2, <1>5, <1>6, <1>7

LEMMA WriteiKeeps ==
  ASSUME DataInv, NEW p \in Proc, writei(p)
  PROVE  DataInv'
PROOF
<1>0. /\ DataTypes /\ DataCalls /\ OnePlace /\ UsedHeld /\ NoHoles /\ MapOnDisk
  BY DEF DataInv
<1>1. w[p].pc = "begin" /\ lock[ip(p)] = NoProc
  BY DEF writei, At
<1>2. /\ w[p] \in CallSet /\ w[p].o \in Open /\ ip(p) \in Inode /\ off[w[p].o] \in Nat
      /\ size[ip(p)] \in Nat /\ ip(p) = InodeOf[w[p].o] /\ Len(w[p].s) \in Nat
      /\ Idle \in CallSet /\ Idle.pc = "user" /\ w[p].tot \in Nat
  BY <1>0, <1>1, DataCaller
<1>3. PICK i \in Inode : i = ip(p)
  BY <1>2
<1>4. PICK n : n = Chunk(w[p].s)
  OBVIOUS
<1>5. n \in Nat /\ n <= Len(w[p].s) /\ n <= MaxWrite
  BY <1>2, <1>4, DataSizes DEF Chunk, Least
<1>6. CASE off[w[p].o] > size[i] \/ off[w[p].o] + n > MAXFILE * BSIZE
  <2>1. w' = [w EXCEPT ![p] = Idle] /\ UNCHANGED <<blocks, inodes, lock, off, logged, saved>>
    BY <1>3, <1>4, <1>6 DEF writei, go
  <2> QED
    BY <1>1, <1>2, <2>1, AsideKeeps DEF Busy
<1>7. CASE ~(off[w[p].o] > size[i] \/ off[w[p].o] + n > MAXFILE * BSIZE)
  <2>1. PICK x : x = [w[p] EXCEPT !.pc = "writei", !.n = n]
    OBVIOUS
  <2>2. /\ w' = [w EXCEPT ![p] = x] /\ lock' = [lock EXCEPT ![i] = p]
        /\ saved' = [saved EXCEPT ![i] = Contents(i)]
        /\ UNCHANGED <<blocks, inodes, off, logged>>
    BY <1>3, <1>4, <1>7, <2>1 DEF writei, go
  <2>3. /\ used' = used /\ data' = data /\ ptr' = ptr /\ addrs' = addrs /\ size' = size
        /\ daddrs' = daddrs /\ dsize' = dsize /\ off' = off /\ logged' = logged
    BY <2>2 DEF blocks, inodes
  <2>4. x \in CallSet /\ x.pc = "writei" /\ x.n = n /\ x.o = w[p].o /\ x.s = w[p].s
        /\ x.tot = w[p].tot
    BY <1>2, <1>5, <2>1 DEF CallSet
  <2>5. DataFrame(p, i, x, p)
    <3>1. \A j \in Inode, k \in Place : Entry(j, k)' = Entry(j, k)
      BY <2>3, QuietEntries
    <3> QED
      BY <1>1, <1>2, <1>3, <2>2, <2>3, <2>4, <3>1 DEF DataFrame, Busy
  <2>6. OwnCall(x, i)
    <3>1. x.tot = 0
      BY <1>0, <1>1, <2>4 DEF DataCalls, DataCall
    <3> QED
      BY <1>2, <1>5, <1>7, <2>3, <2>4, <3>1, DataSizes DEF OwnCall
  <2>7. ~Truncating(i) /\ Filled(i, size[i]) /\ size[i] <= MAXFILE * BSIZE
    BY <1>0, <1>1, <1>3, NobodyAt DEF NoHoles
  <2>8. DataTypes'
    <3>1. saved' \in [Inode -> Seq(Nat)]
      BY <1>0, <2>2, <2>7, ContentsAre DEF DataTypes
    <3>2. w' \in [Proc -> CallSet] /\ lock' \in [Inode -> Proc \cup {NoProc}]
      BY <1>0, <2>2, <2>4 DEF DataTypes
    <3> QED
      BY <1>0, <2>3, <3>1, <3>2 DEF DataTypes
  <2>9. DataCalls'
    BY <1>0, <2>5, <2>6, FrameCalls
  <2>10. OnePlace' /\ UsedHeld'
    BY <1>0, <1>1, <2>3, <2>4, <2>5, QuietHeld, KeepsPlaces
  <2>11. NoHoles'
    <3>1. \A k : Filled(i, k) => Filled(i, k)'
      BY <2>3, QuietEntries
    <3>2. PICK h : h = size[i] /\ size'[i] = h
      BY <2>3
    <3>3. Filled(i, h)'
      BY <2>7, <3>1, <3>2
    <3>4. Filled(i, size[i])'
      BY <3>2, <3>3
    <3>5. x.pc = "writei" => \A k \in Nat : k = off'[x.o] + x.tot => Filled(i, k)'
      <4> SUFFICES ASSUME NEW k \in Nat, k = off'[x.o] + x.tot PROVE Filled(i, k)'
        OBVIOUS
      <4>1. x.tot = 0
        BY <1>0, <1>1, <2>4 DEF DataCalls, DataCall
      <4>2. k <= h
        BY <1>2, <1>3, <1>7, <2>3, <2>4, <3>2, <4>1
      <4>3. Filled(i, k)
        <5>1. h \in Nat /\ Filled(i, h)
          BY <1>2, <1>3, <2>7, <3>2
        <5>2. \A bn \in 0..MAXFILE - 1 : bn * BSIZE < k => bn * BSIZE < h
          <6> SUFFICES ASSUME NEW bn \in 0..MAXFILE - 1, bn * BSIZE < k PROVE bn * BSIZE < h
            OBVIOUS
          <6>1. bn * BSIZE \in Int
            BY DataSizes
          <6> QED
            BY <4>2, <5>1, <6>1
        <5> QED
          BY <5>1, <5>2 DEF Filled
      <4> QED
        BY <3>1, <4>3
    <3>6. \A u \in Open : InodeOf[u] = i => off'[u] <= size'[i]
      BY <1>0, <2>3 DEF NoHoles
    <3>7. size'[i] <= MAXFILE * BSIZE /\ off' \in [Open -> Nat]
      BY <1>0, <2>3 DEF NoHoles, DataTypes
    <3> QED
      BY <1>0, <2>5, <3>4, <3>5, <3>6, <3>7, FrameHoles
  <2>12. MapOnDisk'
    <3>1. daddrs'[i] = addrs'[i]
      BY <1>0, <1>1, <1>3, <2>3 DEF MapOnDisk
    <3> QED
      BY <1>0, <2>5, <3>1, FrameDisk
  <2> QED
    BY <2>8, <2>9, <2>10, <2>11, <2>12 DEF DataInv
<1> QED
  BY <1>6, <1>7

LEMMA WriteEndKeeps ==
  ASSUME DataInv, NEW p \in Proc, write_end(p)
  PROVE  DataInv'
PROOF
<1>0. /\ DataTypes /\ DataCalls /\ OnePlace /\ UsedHeld /\ NoHoles /\ MapOnDisk
  BY DEF DataInv
<1>1. w[p].pc = "writei" /\ w[p].tot = w[p].n
  BY DEF write_end, At
<1>2. /\ w[p] \in CallSet /\ w[p].o \in Open /\ ip(p) \in Inode /\ off[w[p].o] \in Nat
      /\ size[ip(p)] \in Nat /\ ip(p) = InodeOf[w[p].o] /\ Len(w[p].s) \in Nat
      /\ w[p].s \in Seq(Nat)
      /\ Idle \in CallSet /\ Idle.pc = "user" /\ w[p].tot \in Nat /\ w[p].n \in Nat
      /\ lock[ip(p)] = p
  BY <1>0, <1>1, DataCaller DEF Busy
<1>3. PICK i \in Inode, o \in Open : i = ip(p) /\ o = w[p].o
  BY <1>2
<1>4. PICK z \in Nat : z = off[o] + w[p].n
  BY <1>2, <1>3
<1>5. PICK t : t = SubSeq(w[p].s, w[p].n + 1, Len(w[p].s))
  OBVIOUS
<1>6. PICK x : x = IF t = <<>> THEN Idle ELSE [w[p] EXCEPT !.pc = "begin", !.s = t, !.n = 0, !.tot = 0]
  OBVIOUS
<1>7. /\ IF Grew(i, z)
           THEN /\ size' = [size EXCEPT ![i] = z] /\ dsize' = [dsize EXCEPT ![i] = z]
                /\ daddrs' = [daddrs EXCEPT ![i] = addrs[i]]
           ELSE UNCHANGED <<size, dsize, daddrs>>
      /\ off' = [off EXCEPT ![o] = z] /\ lock' = [lock EXCEPT ![i] = NoProc]
      /\ saved' = [saved EXCEPT ![i] = <<>>] /\ logged' = [logged EXCEPT ![p] = {}]
      /\ w' = [w EXCEPT ![p] = x] /\ UNCHANGED <<used, data, ptr, addrs>>
  BY <1>3, <1>4, <1>5, <1>6 DEF write_end, go, blocks
<1>8. x \in CallSet /\ x.pc \in {"user", "begin"} /\ (x.pc = "begin" => x.o = o /\ x.tot = 0)
  <2>1. t \in Seq(Nat)
    <3>1. PICK s \in Seq(Nat), n \in Nat : s = w[p].s /\ n = w[p].n /\ n <= Len(s)
      BY <1>0, <1>1, <1>2 DEF DataCalls, DataCall
    <3>2. SubSeq(s, n + 1, Len(s)) \in Seq(Nat)
      OBVIOUS
    <3> QED
      BY <1>5, <3>1, <3>2
  <2>2. CASE t = <<>>
    BY <1>2, <1>6, <2>2
  <2>3. CASE t # <<>>
    BY <1>2, <1>3, <1>6, <2>1, <2>3 DEF CallSet
  <2> QED
    BY <2>2, <2>3
<1>9. /\ \A j \in Inode \ {i} : size'[j] = size[j] /\ daddrs'[j] = daddrs[j]
      /\ size[i] <= size'[i] /\ z <= size'[i] /\ size'[i] \in {z, size[i]}
      /\ size' \in [Inode -> Nat] /\ dsize' = size'
      /\ daddrs' \in [Inode -> [0..NDIRECT -> 0..NBLOCKS]]
  <2>1. CASE Grew(i, z)
    <3>1. /\ size \in [Inode -> Nat] /\ dsize = size /\ addrs[i] \in [0..NDIRECT -> 0..NBLOCKS]
          /\ daddrs \in [Inode -> [0..NDIRECT -> 0..NBLOCKS]]
      BY <1>0 DEF DataTypes
    <3>2. /\ size' = [size EXCEPT ![i] = z] /\ dsize' = [dsize EXCEPT ![i] = z]
          /\ daddrs' = [daddrs EXCEPT ![i] = addrs[i]] /\ z > size[i]
      BY <1>7, <2>1 DEF Grew
    <3>3. PICK a \in [0..NDIRECT -> 0..NBLOCKS] : a = addrs[i]
      BY <3>1
    <3>4. /\ daddrs' \in [Inode -> [0..NDIRECT -> 0..NBLOCKS]]
          /\ \A j \in Inode \ {i} : daddrs'[j] = daddrs[j]
      BY <3>1, <3>2, <3>3
    <3>5. /\ \A j \in Inode \ {i} : size'[j] = size[j]
          /\ size[i] <= size'[i] /\ z <= size'[i] /\ size'[i] = z
          /\ size' \in [Inode -> Nat] /\ dsize' = size'
      BY <3>1, <3>2
    <3> QED
      BY <3>4, <3>5
  <2>2. CASE ~Grew(i, z)
    BY <1>0, <1>2, <1>3, <1>4, <1>7, <2>2 DEF DataTypes, Grew
  <2> QED
    BY <2>1, <2>2
<1>10. off' \in [Open -> Nat] /\ off'[o] = z /\ \A u \in Open : u # o => off'[u] = off[u]
  BY <1>0, <1>4, <1>7 DEF DataTypes
<1>11. DataTypes'
  <2>1. w' \in [Proc -> CallSet] /\ lock' \in [Inode -> Proc \cup {NoProc}]
    <3>1. w' \in [Proc -> CallSet]
      BY <1>0, <1>7, <1>8 DEF DataTypes
    <3>2. lock' \in [Inode -> Proc \cup {NoProc}]
      BY <1>0, <1>7 DEF DataTypes
    <3> QED
      BY <3>1, <3>2
  <2>2. saved' \in [Inode -> Seq(Nat)] /\ logged' \in [Proc -> SUBSET (0..NBLOCKS)]
    BY <1>0, <1>7 DEF DataTypes
  <2> QED
    BY <1>0, <1>7, <1>9, <1>10, <2>1, <2>2 DEF DataTypes
<1>12. DataFrame(p, i, x, NoProc)
  <2>1. \A j \in Inode, k \in Place : Entry(j, k)' = Entry(j, k)
    BY <1>7, QuietEntries
  <2>2. NoProc # p /\ x.pc \notin Busy
    BY <1>8, FileDataAssumption DEF Busy
  <2>3. \A u \in Open : InodeOf[u] # i => off'[u] = off[u]
    BY <1>2, <1>3, <1>10
  <2> QED
    BY <1>2, <1>3, <1>7, <1>8, <1>9, <2>1, <2>2, <2>3 DEF DataFrame
<1>13. DataCalls'
  BY <1>0, <1>8, <1>12, FrameCalls DEF OwnCall
<1>14. OnePlace' /\ UsedHeld'
  BY <1>0, <1>1, <1>7, <1>8, <1>12, QuietHeld, KeepsPlaces
<1>15. ~Truncating(i)
  <2>1. \A q \in Proc : Truncs(q, i) => q = p
    BY <1>0, <1>12, FrameTruncs
  <2>2. ~Truncs(p, i)
    BY <1>1 DEF Truncs
  <2> QED
    BY <2>1, <2>2 DEF Truncating, Truncs
<1>16. NoHoles'
  <2>1. Filled(i, size[i]) /\ Filled(i, z)
    BY <1>0, <1>1, <1>3, <1>4, <1>15 DEF NoHoles
  <2>2. PICK h : h = size'[i]
    OBVIOUS
  <2>3. Filled(i, h)'
    BY <1>7, <1>9, <2>1, <2>2, QuietEntries
  <2>4. Filled(i, size[i])'
    BY <2>2, <2>3
  <2>5. z <= MAXFILE * BSIZE
    BY <1>0, <1>1, <1>3, <1>4 DEF DataCalls, DataCall
  <2>6. size'[i] <= MAXFILE * BSIZE
    BY <1>0, <1>9, <2>5 DEF NoHoles
  <2>7. \A u \in Open : InodeOf[u] = i => off'[u] <= size'[i]
    <3> SUFFICES ASSUME NEW u \in Open, InodeOf[u] = i PROVE off'[u] <= size'[i]
      OBVIOUS
    <3>1. off[u] <= size[i] /\ off[u] \in Nat /\ size[i] \in Nat /\ size'[i] \in Nat
      BY <1>0, <1>9 DEF NoHoles, DataTypes
    <3> QED
      BY <1>9, <1>10, <3>1
  <2> QED
    BY <1>0, <1>8, <1>10, <1>12, <2>4, <2>6, <2>7, FrameHoles
<1>17. MapOnDisk'
  <2>1. daddrs'[i] = addrs'[i]
    <3>1. CASE Grew(i, z)
      BY <1>0, <1>7, <3>1 DEF DataTypes
    <3>2. CASE ~Grew(i, z)
      <4>1. z <= size[i]
        BY <1>2, <1>3, <1>4, <3>2 DEF Grew
      <4> QED
        BY <1>0, <1>1, <1>3, <1>4, <1>7, <3>2, <4>1 DEF MapOnDisk
    <3> QED
      BY <3>1, <3>2
  <2> QED
    BY <1>0, <1>8, <1>12, <2>1, FrameDisk
<1> QED
  BY <1>11, <1>13, <1>14, <1>16, <1>17 DEF DataInv

LEMMA RemoveKeeps ==
  ASSUME DataInv, NEW p \in Proc, NEW i \in Inode, remove(p, i)
  PROVE  DataInv'
PROOF
<1>0. /\ DataTypes /\ DataCalls /\ OnePlace /\ UsedHeld /\ NoHoles /\ MapOnDisk
  BY DEF DataInv
<1>1. PICK o : o = CHOOSE u \in Open : InodeOf[u] = i
  OBVIOUS
<1>2. o \in Open /\ InodeOf[o] = i
  BY <1>1, FileDataAssumption
<1>3. PICK x : x = [Idle EXCEPT !.pc = "trunc", !.o = o]
  OBVIOUS
<1>4. /\ w[p].pc = "user" /\ lock[i] = NoProc
      /\ w' = [w EXCEPT ![p] = x] /\ lock' = [lock EXCEPT ![i] = p]
      /\ saved' = [saved EXCEPT ![i] = Contents(i)]
      /\ UNCHANGED <<blocks, inodes, off, logged>>
  BY <1>1, <1>3 DEF remove, At, go
<1>5. /\ used' = used /\ data' = data /\ ptr' = ptr /\ addrs' = addrs /\ size' = size
      /\ daddrs' = daddrs /\ dsize' = dsize /\ off' = off /\ logged' = logged
  BY <1>4 DEF blocks, inodes
<1>6. x \in CallSet /\ x.pc = "trunc" /\ x.o = o /\ x.tot = 0
  <2>1. x = [pc |-> "trunc", o |-> o, s |-> <<>>, n |-> 0, tot |-> 0]
    BY <1>3 DEF Idle
  <2>2. <<>> \in Seq(Nat)
    OBVIOUS
  <2> QED
    BY <1>2, <2>1, <2>2 DEF CallSet
<1>7. DataFrame(p, i, x, p)
  <2>1. \A j \in Inode, k \in Place : Entry(j, k)' = Entry(j, k)
    BY <1>5, QuietEntries
  <2> QED
    BY <1>2, <1>4, <1>5, <1>6, <2>1 DEF DataFrame, Busy
<1>8. ~Truncating(i) /\ Filled(i, size[i]) /\ size[i] <= MAXFILE * BSIZE
  BY <1>0, <1>4, NobodyAt DEF NoHoles
<1>9. DataTypes'
  <2>1. saved' \in [Inode -> Seq(Nat)]
    BY <1>0, <1>4, <1>8, ContentsAre DEF DataTypes
  <2>2. w' \in [Proc -> CallSet] /\ lock' \in [Inode -> Proc \cup {NoProc}]
    BY <1>0, <1>4, <1>6 DEF DataTypes
  <2> QED
    BY <1>0, <1>5, <2>1, <2>2 DEF DataTypes
<1>10. DataCalls'
  BY <1>0, <1>6, <1>7, DataSizes, FrameCalls DEF OwnCall
<1>11. OnePlace' /\ UsedHeld'
  BY <1>0, <1>4, <1>5, <1>6, <1>7, QuietHeld, KeepsPlaces
<1>12. NoHoles'
  <2>1. /\ \A u \in Open : InodeOf[u] = i => off'[u] <= size'[i]
        /\ size'[i] <= MAXFILE * BSIZE /\ off' \in [Open -> Nat]
    BY <1>0, <1>5 DEF NoHoles, DataTypes
  <2> QED
    BY <1>0, <1>6, <1>7, <2>1, FrameHoles
<1>13. MapOnDisk'
  BY <1>0, <1>6, <1>7, FileDataAssumption, FrameDisk
<1> QED
  BY <1>9, <1>10, <1>11, <1>12, <1>13 DEF DataInv

-----------------------------------------------------------------------------
(* itrunc *)

LEMMA FrameReleased ==
  ASSUME DataTypes, DataCalls, NEW p \in Proc, NEW i \in Inode, NEW x, NEW l, DataFrame(p, i, x, l),
         w[p].pc = "trunc", NEW n \in Place
  PROVE  /\ Released(i, n) <=> n > NDIRECT /\ n <= w[p].tot
         /\ Released(i, n)' <=> n > NDIRECT /\ x.pc = "trunc" /\ n <= x.tot
PROOF
<1>1. /\ \A q \in Proc : Truncs(q, i) => q = p
      /\ \A q \in Proc : Truncs(q, i)' <=> q = p /\ x.pc = "trunc"
  BY FrameTruncs
<1>2. Truncs(p, i)
  BY DEF Truncs, DataFrame, Busy
<1>3. w'[p] = x
  BY FrameOwn
<1>4. Released(i, n) <=> n > NDIRECT /\ n <= w[p].tot
  BY <1>1, <1>2, Zenon DEF Released
<1>5. Released(i, n)' <=> n > NDIRECT /\ x.pc = "trunc" /\ n <= x.tot
  <2>1. Released(i, n)' <=> n > NDIRECT /\ \E q \in Proc : Truncs(q, i)' /\ n <= w'[q].tot
    BY DEF Released
  <2> QED
    BY <1>1, <1>3, <2>1, Zenon
<1> QED
  BY <1>4, <1>5

LEMMA TruncBlockKeeps ==
  ASSUME DataInv, NEW p \in Proc, trunc_block(p)
  PROVE  DataInv'
PROOF
<1>0. /\ DataTypes /\ DataCalls /\ OnePlace /\ UsedHeld /\ NoHoles /\ MapOnDisk
  BY DEF DataInv
<1>1. w[p].pc = "trunc"
  BY DEF trunc_block, At
<1>2. /\ w[p] \in CallSet /\ w[p].o \in Open /\ ip(p) \in Inode /\ ip(p) = InodeOf[w[p].o]
      /\ w[p].tot \in Nat /\ lock[ip(p)] = p
  BY <1>0, <1>1, DataCaller DEF Busy
<1>3. PICK i \in Inode, k \in Nat : i = ip(p) /\ k = w[p].tot
  BY <1>2
<1>4. k < MAXFILE
  BY <1>3 DEF trunc_block
<1>5. PICK x : x = [w[p] EXCEPT !.tot = k + 1]
  OBVIOUS
<1>6. x \in CallSet /\ x.pc = "trunc" /\ x.o = w[p].o /\ x.tot = k + 1
  BY <1>1, <1>2, <1>5 DEF CallSet
<1>7. PICK n \in Place : n = PlaceOf(k)
  BY <1>4, DataSizes DEF PlaceOf, Place
<1>8. PICK b \in 0..NBLOCKS : b = Entry(i, n)
  BY <1>0, EntryIs
<1>9. b = IF k < NDIRECT THEN addrs[i][k]
          ELSE IF addrs[i][NDIRECT] = 0 THEN 0 ELSE ptr[addrs[i][NDIRECT]][k - NDIRECT]
  <2>1. k < NDIRECT => n = k /\ n <= NDIRECT
    BY <1>7, DataSizes DEF PlaceOf
  <2>2. ~(k < NDIRECT) => n - NDIRECT - 1 = k - NDIRECT /\ ~(n <= NDIRECT)
    BY <1>7, DataSizes DEF PlaceOf
  <2> QED
    BY <1>8, <2>1, <2>2 DEF Entry
<1>10. PICK a : a = [m \in 0..NDIRECT |-> IF m = k /\ k < NDIRECT THEN 0 ELSE addrs[i][m]]
  OBVIOUS
<1>11. /\ IF b = 0 THEN UNCHANGED <<used, logged, panic>> ELSE bfree(p, b)
       /\ addrs' = [addrs EXCEPT ![i] = a]
       /\ w' = [w EXCEPT ![p] = x]
       /\ UNCHANGED <<data, ptr, size, daddrs, dsize, lock, off, saved>>
  <2>1. w' = [w EXCEPT ![p] = x]
    BY <1>3, <1>5 DEF trunc_block, go
  <2>2. addrs' = [addrs EXCEPT ![i] = a]
    BY <1>0, <1>3, <1>10 DEF trunc_block, DataTypes
  <2>3. IF b = 0 THEN UNCHANGED <<used, logged, panic>> ELSE bfree(p, b)
    BY <1>3, <1>9 DEF trunc_block
  <2> QED
    BY <2>1, <2>2, <2>3 DEF trunc_block
<1>12. a \in [0..NDIRECT -> 0..NBLOCKS]
  BY <1>0, <1>10, DataSizes DEF DataTypes
<1>13. addrs'[i] = a /\ \A j \in Inode \ {i} : addrs'[j] = addrs[j]
  BY <1>0, <1>11 DEF DataTypes
<1>14. DataTypes'
  <2>1. addrs' \in [Inode -> [0..NDIRECT -> 0..NBLOCKS]] /\ w' \in [Proc -> CallSet]
    BY <1>0, <1>6, <1>11, <1>12 DEF DataTypes
  <2>2. used' \in SUBSET Block /\ logged' \in [Proc -> SUBSET (0..NBLOCKS)]
    <3>1. Bitmap \in 0..NBLOCKS
      BY DataSizes DEF Bitmap
    <3>2. CASE b = 0
      BY <1>0, <1>11, <3>2 DEF DataTypes
    <3>3. CASE b # 0
      <4>1. used' = used \ {b} /\ logged' = [logged EXCEPT ![p] = logged[p] \cup {Bitmap}]
        BY <1>0, <1>11, <3>3 DEF DataTypes, bfree
      <4>2. PICK u \in SUBSET (0..NBLOCKS) : u = logged[p] \cup {Bitmap}
        BY <1>0, <3>1 DEF DataTypes
      <4> QED
        BY <1>0, <4>1, <4>2 DEF DataTypes
    <3> QED
      BY <3>2, <3>3
  <2> QED
    BY <1>0, <1>11, <2>1, <2>2 DEF DataTypes
<1>15. DataFrame(p, i, x, p)
  <2>1. \A j \in Inode \ {i}, m \in Place : Entry(j, m)' = Entry(j, m)
    BY <1>11, <1>13 DEF Entry
  <2>2. lock' = [lock EXCEPT ![i] = p]
    BY <1>0, <1>2, <1>3, <1>11 DEF DataTypes
  <2> QED
    BY <1>1, <1>2, <1>3, <1>6, <1>11, <1>13, <2>1, <2>2 DEF DataFrame, Busy
<1>16. DataCalls'
  <2>1. \A m \in 0..NDIRECT - 1 : m < k => addrs[i][m] = 0
    BY <1>0, <1>1, <1>3 DEF DataCalls, DataCall
  <2>2. \A m \in 0..NDIRECT - 1 : m < k + 1 => addrs'[i][m] = 0
    <3> SUFFICES ASSUME NEW m \in 0..NDIRECT - 1, m < k + 1 PROVE addrs'[i][m] = 0
      OBVIOUS
    <3>1. m \in 0..NDIRECT /\ m < NDIRECT /\ (m = k \/ m < k)
      BY DataSizes
    <3> QED
      BY <1>10, <1>13, <2>1, <3>1
  <2>3. OwnCall(x, i)
    BY <1>4, <1>6, <2>2, DataSizes DEF OwnCall
  <2> QED
    BY <1>0, <1>15, <2>3, FrameCalls
<1>17. \A j \in Inode, m \in Place, d \in Block :
         (Holds(j, m, d)' <=> Holds(j, m, d) /\ ~(j = i /\ m = n))
  <2> SUFFICES ASSUME NEW j \in Inode, NEW m \in Place, NEW d \in Block
               PROVE  Holds(j, m, d)' <=> Holds(j, m, d) /\ ~(j = i /\ m = n)
    OBVIOUS
  <2>1. CASE j # i
    <3>1. Entry(j, m)' = Entry(j, m)
      BY <1>15, <2>1 DEF DataFrame
    <3>2. Released(j, m)' <=> Released(j, m)
      BY <1>0, <1>15, <2>1, FrameTruncs
    <3> QED
      BY <2>1, <3>1, <3>2 DEF Holds
  <2>2. CASE j = i
    <3>1. /\ Released(i, m) <=> m > NDIRECT /\ m <= k
          /\ Released(i, m)' <=> m > NDIRECT /\ m <= k + 1
      BY <1>0, <1>1, <1>3, <1>6, <1>15, FrameReleased
    <3>2. m \in Nat /\ NDIRECT \in Nat /\ d # 0
      BY DataSizes
    <3>3. CASE m < NDIRECT
      <4>1. Entry(i, m)' = a[m] /\ Entry(i, m) = addrs[i][m] /\ m \in 0..NDIRECT
        BY <1>13, <3>2, <3>3 DEF Entry
      <4>2. m = n <=> m = k /\ k < NDIRECT
        BY <1>7, <3>2, <3>3 DEF PlaceOf
      <4>3. a[m] = IF m = n THEN 0 ELSE addrs[i][m]
        BY <1>10, <4>1, <4>2
      <4> QED
        BY <2>2, <3>1, <3>2, <3>3, <4>1, <4>3 DEF Holds
    <3>4. CASE m >= NDIRECT
      <4>1. a[NDIRECT] = addrs[i][NDIRECT]
        BY <1>10, DataSizes
      <4>2. Entry(i, m)' = Entry(i, m)
        <5>1. CASE m = NDIRECT
          BY <1>13, <3>2, <4>1, <5>1 DEF Entry
        <5>2. CASE m > NDIRECT
          BY <1>11, <1>13, <3>2, <4>1, <5>2 DEF Entry
        <5> QED
          BY <3>2, <3>4, <5>1, <5>2
      <4>3. m = n <=> m > NDIRECT /\ m = k + 1
        BY <1>7, <3>2, <3>4 DEF PlaceOf
      <4> QED
        BY <2>2, <3>1, <3>2, <4>2, <4>3 DEF Holds
    <3> QED
      BY <3>2, <3>3, <3>4
  <2> QED
    BY <2>1, <2>2
<1>18. Holds(i, n, b)
  <2>1. Released(i, n) <=> n > NDIRECT /\ n <= k
    BY <1>0, <1>1, <1>3, <1>15, FrameReleased
  <2>2. ~(n > NDIRECT /\ n <= k)
    BY <1>7, DataSizes DEF PlaceOf
  <2> QED
    BY <1>8, <2>1, <2>2 DEF Holds
<1>19. OnePlace' /\ UsedHeld'
  <2>1. CASE b = 0
    <3>1. \A d \in Block : ~Holds(i, n, d)
      BY <1>8, <2>1, DataSizes DEF Holds
    <3>2. SameHeld
      BY <1>17, <3>1, Zenon DEF SameHeld
    <3> QED
      BY <1>0, <1>11, <2>1, <3>2, KeepsPlaces
  <2>2. CASE b # 0
    <3>1. b \in Block /\ used' = used \ {b}
      BY <1>11, <2>2, DataSizes DEF Block, bfree
    <3>2. Releases(i, n, b)
      BY <1>17, <1>18, <3>1 DEF Releases
    <3> QED
      BY <1>0, <3>1, <3>2, ReleasesPlaces
  <2> QED
    BY <2>1, <2>2
<1>20. NoHoles'
  <2>1. /\ \A u \in Open : InodeOf[u] = i => off'[u] <= size'[i]
        /\ size'[i] <= MAXFILE * BSIZE /\ off' \in [Open -> Nat]
    BY <1>0, <1>11 DEF NoHoles, DataTypes
  <2> QED
    BY <1>0, <1>6, <1>15, <2>1, FrameHoles
<1>21. MapOnDisk'
  BY <1>0, <1>6, <1>15, FileDataAssumption, FrameDisk
<1> QED
  BY <1>14, <1>16, <1>19, <1>20, <1>21 DEF DataInv

LEMMA TruncEndKeeps ==
  ASSUME DataInv, NEW p \in Proc, trunc_end(p)
  PROVE  DataInv'
PROOF
<1>0. /\ DataTypes /\ DataCalls /\ OnePlace /\ UsedHeld /\ NoHoles /\ MapOnDisk
  BY DEF DataInv
<1>1. w[p].pc = "trunc" /\ w[p].tot = MAXFILE
  BY DEF trunc_end, At
<1>2. /\ w[p].o \in Open /\ ip(p) \in Inode /\ lock[ip(p)] = p
      /\ Idle \in CallSet /\ Idle.pc = "user"
  BY <1>0, <1>1, DataCaller DEF Busy
<1>3. PICK i \in Inode : i = ip(p)
  BY <1>2
<1>4. PICK b \in 0..NBLOCKS : b = addrs[i][NDIRECT]
  BY <1>0, DataSizes DEF DataTypes
<1>5. PICK a \in [0..NDIRECT -> 0..NBLOCKS] : a = [k \in 0..NDIRECT |-> 0]
  <2>1. 0 \in 0..NBLOCKS
    BY DataSizes
  <2>2. [k \in 0..NDIRECT |-> 0] \in [0..NDIRECT -> 0..NBLOCKS]
    BY <2>1
  <2> QED
    BY <2>2
<1>6. /\ IF b = 0 THEN UNCHANGED used ELSE used' = used \ {b}
      /\ addrs' = [addrs EXCEPT ![i] = a] /\ daddrs' = [daddrs EXCEPT ![i] = a]
      /\ size' = [size EXCEPT ![i] = 0] /\ dsize' = [dsize EXCEPT ![i] = 0]
      /\ lock' = [lock EXCEPT ![i] = NoProc] /\ saved' = [saved EXCEPT ![i] = <<>>]
      /\ off' = [o \in Open |-> IF InodeOf[o] = i THEN 0 ELSE off[o]]
      /\ logged' = [logged EXCEPT ![p] = {}]
      /\ w' = [w EXCEPT ![p] = Idle] /\ UNCHANGED <<data, ptr>>
  <2>1. IF b = 0 THEN UNCHANGED used ELSE used' = used \ {b}
    BY <1>3, <1>4 DEF trunc_end
  <2>2. addrs' = [addrs EXCEPT ![i] = a] /\ daddrs' = [daddrs EXCEPT ![i] = a]
    BY <1>3, <1>5 DEF trunc_end
  <2> QED
    BY <1>3, <2>1, <2>2 DEF trunc_end, go
<1>7. /\ addrs'[i] = a /\ \A j \in Inode \ {i} : addrs'[j] = addrs[j] /\ daddrs'[j] = daddrs[j]
      /\ daddrs'[i] = a /\ size'[i] = 0 /\ \A j \in Inode \ {i} : size'[j] = size[j]
  BY <1>0, <1>6 DEF DataTypes
<1>8. off' \in [Open -> Nat] /\ \A o \in Open : off'[o] = IF InodeOf[o] = i THEN 0 ELSE off[o]
  BY <1>0, <1>6 DEF DataTypes
<1>9. DataTypes'
  <2>1. used' \in SUBSET Block /\ size' \in [Inode -> Nat] /\ dsize' = size'
    BY <1>0, <1>6 DEF DataTypes
  <2>2. /\ addrs' \in [Inode -> [0..NDIRECT -> 0..NBLOCKS]]
        /\ daddrs' \in [Inode -> [0..NDIRECT -> 0..NBLOCKS]]
    BY <1>0, <1>6 DEF DataTypes
  <2>3. w' \in [Proc -> CallSet] /\ lock' \in [Inode -> Proc \cup {NoProc}]
    BY <1>0, <1>2, <1>6 DEF DataTypes
  <2>4. saved' \in [Inode -> Seq(Nat)] /\ logged' \in [Proc -> SUBSET (0..NBLOCKS)]
    BY <1>0, <1>6 DEF DataTypes
  <2> QED
    BY <1>0, <1>6, <1>8, <2>1, <2>2, <2>3, <2>4 DEF DataTypes
<1>10. DataFrame(p, i, Idle, NoProc)
  <2>1. \A j \in Inode \ {i}, m \in Place : Entry(j, m)' = Entry(j, m)
    BY <1>6, <1>7 DEF Entry
  <2>2. NoProc # p /\ Idle.pc \notin Busy
    BY <1>2, FileDataAssumption DEF Busy
  <2>3. \A o \in Open : InodeOf[o] # i => off'[o] = off[o]
    BY <1>8
  <2> QED
    BY <1>2, <1>3, <1>6, <1>7, <2>1, <2>2, <2>3 DEF DataFrame
<1>11. DataCalls'
  BY <1>0, <1>2, <1>10, FrameCalls DEF OwnCall
<1>12. \A m \in Place : Entry(i, m)' = 0
  <2>1. a[NDIRECT] = 0 /\ NDIRECT \in 0..NDIRECT
    BY <1>5, DataSizes
  <2> SUFFICES ASSUME NEW m \in Place PROVE Entry(i, m)' = 0
    OBVIOUS
  <2>2. CASE m <= NDIRECT
    BY <1>5, <1>7, <2>2, DataSizes DEF Entry
  <2>3. CASE ~(m <= NDIRECT)
    BY <1>7, <2>1, <2>3 DEF Entry
  <2> QED
    BY <2>2, <2>3
<1>13. \A m \in Place, d \in Block : Holds(i, m, d) => m = NDIRECT /\ d = b
  <2> SUFFICES ASSUME NEW m \in Place, NEW d \in Block, Holds(i, m, d) PROVE m = NDIRECT /\ d = b
    OBVIOUS
  <2>1. ~Released(i, m) /\ Entry(i, m) = d /\ d # 0
    BY DataSizes DEF Holds
  <2>2. m \in Nat /\ m <= MAXFILE /\ NDIRECT \in Nat /\ NDIRECT <= MAXFILE
    BY DataSizes DEF Place
  <2>3. ~(m > NDIRECT)
    <3>1. Released(i, m) <=> m > NDIRECT /\ m <= w[p].tot
      BY <1>0, <1>1, <1>10, FrameReleased
    <3> QED
      BY <1>1, <2>1, <2>2, <3>1
  <2>4. m < NDIRECT => addrs[i][m] = 0
    <3>1. \A k \in 0..NDIRECT - 1 : k < w[p].tot => addrs[i][k] = 0
      BY <1>0, <1>1, <1>3 DEF DataCalls, DataCall
    <3>2. m < NDIRECT => m \in 0..NDIRECT - 1 /\ m < w[p].tot
      BY <1>1, <2>2, DataSizes
    <3> QED
      BY <3>1, <3>2
  <2> QED
    BY <1>4, <2>1, <2>2, <2>3, <2>4 DEF Entry
<1>14. \A j \in Inode, m \in Place, d \in Block :
         (Holds(j, m, d)' <=> Holds(j, m, d) /\ ~(j = i /\ m = NDIRECT))
  <2> SUFFICES ASSUME NEW j \in Inode, NEW m \in Place, NEW d \in Block
               PROVE  Holds(j, m, d)' <=> Holds(j, m, d) /\ ~(j = i /\ m = NDIRECT)
    OBVIOUS
  <2>1. CASE j # i
    <3>1. Entry(j, m)' = Entry(j, m)
      BY <1>10, <2>1 DEF DataFrame
    <3>2. Released(j, m)' <=> Released(j, m)
      BY <1>0, <1>10, <2>1, FrameTruncs
    <3> QED
      BY <2>1, <3>1, <3>2 DEF Holds
  <2>2. CASE j = i
    <3>1. d # 0
      BY DataSizes
    <3>2. ~Holds(i, m, d)'
      BY <1>12, <3>1 DEF Holds
    <3> QED
      BY <1>13, <2>2, <3>2
  <2> QED
    BY <2>1, <2>2
<1>15. NDIRECT \in Place
  BY DataSizes DEF Place
<1>16. OnePlace' /\ UsedHeld'
  <2>1. CASE b = 0
    <3>1. \A d \in Block : ~Holds(i, NDIRECT, d)
      BY <1>13, <1>15, <2>1, DataSizes
    <3>2. SameHeld
      BY <1>14, <1>15, <3>1, Zenon DEF SameHeld
    <3> QED
      BY <1>0, <1>6, <2>1, <3>2, KeepsPlaces
  <2>2. CASE b # 0
    <3>1. b \in Block /\ used' = used \ {b}
      BY <1>6, <2>2, DataSizes DEF Block
    <3>2. Holds(i, NDIRECT, b)
      <4>1. Entry(i, NDIRECT) = b
        BY <1>4, DataSizes DEF Entry
      <4>2. ~Released(i, NDIRECT)
        BY DataSizes DEF Released
      <4> QED
        BY <4>1, <4>2 DEF Holds
    <3>3. Releases(i, NDIRECT, b)
      BY <1>14, <3>1, <3>2 DEF Releases
    <3> QED
      BY <1>0, <1>15, <3>1, <3>3, ReleasesPlaces
  <2> QED
    BY <2>1, <2>2
<1>17. NoHoles'
  <2>1. \A bn \in 0..MAXFILE - 1 : ~(bn * BSIZE < 0)
    <3> SUFFICES ASSUME NEW bn \in 0..MAXFILE - 1 PROVE ~(bn * BSIZE < 0)
      OBVIOUS
    <3>1. PICK u \in Nat, z \in Nat : u = bn /\ z = BSIZE
      BY DataSizes
    <3>2. u * z \in Nat
      OBVIOUS
    <3> QED
      BY <3>1, <3>2
  <2>2. Filled(i, size[i])'
    BY <1>7, <2>1 DEF Filled
  <2>3. /\ \A u \in Open : InodeOf[u] = i => off'[u] <= size'[i]
        /\ size'[i] <= MAXFILE * BSIZE
    BY <1>7, <1>8, DataSizes
  <2> QED
    BY <1>0, <1>2, <1>8, <1>10, <2>2, <2>3, FrameHoles
<1>18. MapOnDisk'
  BY <1>0, <1>2, <1>7, <1>10, FrameDisk
<1> QED
  BY <1>9, <1>11, <1>16, <1>17, <1>18 DEF DataInv

-----------------------------------------------------------------------------
(* bmap *)

(* balloc finds a block if there is a free one. *)
LEMMA FreeBlock ==
  ASSUME NEW u \in SUBSET Block, Block \ u # {}
  PROVE  First(u) \in Block \ u
PROOF
<1>1. Block \ u \in SUBSET Nat
  BY DataSizes DEF Block
<1>2. \E b \in Block \ u : \A d \in Block \ u : b <= d
  BY <1>1, LeastNumber
<1> QED
  BY <1>2 DEF First, Min

LEMMA EntryUsed ==
  ASSUME DataTypes, UsedHeld, NEW i \in Inode, ~Truncating(i), NEW n \in Place, Entry(i, n) # 0
  PROVE  Entry(i, n) \in Block /\ Entry(i, n) \in used /\ Holds(i, n, Entry(i, n))
PROOF
<1>1. Entry(i, n) \in Block
  BY EntryIs
<1>2. ~Released(i, n)
  BY DEF Released, Truncs, Truncating
<1>3. Holds(i, n, Entry(i, n))
  BY <1>2 DEF Holds
<1> QED
  BY <1>1, <1>3, Zenon DEF UsedHeld

(* An inode's indirect block is its own, also while it is truncated. *)
LEMMA IndirectUsed ==
  ASSUME DataTypes, UsedHeld, NEW i \in Inode, addrs[i][NDIRECT] # 0
  PROVE  /\ addrs[i][NDIRECT] \in Block /\ addrs[i][NDIRECT] \in used
         /\ Holds(i, NDIRECT, addrs[i][NDIRECT]) /\ NDIRECT \in Place
PROOF
<1>1. NDIRECT \in Place /\ ~(NDIRECT > NDIRECT) /\ NDIRECT <= NDIRECT
  BY DataSizes DEF Place
<1>2. addrs[i][NDIRECT] \in Block
  BY <1>1, EntryIs
<1>3. Holds(i, NDIRECT, addrs[i][NDIRECT])
  BY <1>1 DEF Holds, Entry, Released
<1> QED
  BY <1>1, <1>2, <1>3, Zenon DEF UsedHeld

(* What bmap may find: the block; no block, and a direct place for it; no  *)
(* block and an indirect block; neither.                                   *)
Found(i, bn, x) ==
  /\ Entry(i, PlaceOf(bn)) # 0
  /\ x.new = {} /\ x.block = Entry(i, PlaceOf(bn)) /\ x.addrs = addrs[i]
  /\ x.ind = 0 \/ (x.ind = addrs[i][NDIRECT] /\ x.ind \in Block /\ x.ptrs = ptr[x.ind])
Direct(i, bn, x) ==
  /\ bn < NDIRECT /\ Entry(i, bn) = 0
  /\ x.block \in Block \ used /\ x.new = {x.block}
  /\ x.addrs = [addrs[i] EXCEPT ![bn] = x.block] /\ x.ind = 0
ViaOld(i, bn, x) ==
  /\ bn >= NDIRECT /\ addrs[i][NDIRECT] # 0 /\ Entry(i, bn + 1) = 0
  /\ x.block \in Block \ used /\ x.new = {x.block}
  /\ x.addrs = addrs[i] /\ x.ind = addrs[i][NDIRECT]
  /\ x.ptrs = [ptr[x.ind] EXCEPT ![bn - NDIRECT] = x.block]
ViaNew(i, bn, x) ==
  /\ bn >= NDIRECT /\ addrs[i][NDIRECT] = 0
  /\ x.block \in Block \ used /\ x.ind \in Block \ used /\ x.block # x.ind
  /\ x.new = {x.ind, x.block}
  /\ x.addrs = [addrs[i] EXCEPT ![NDIRECT] = x.ind]
  /\ x.ptrs = [NoBlocks EXCEPT ![bn - NDIRECT] = x.block]

LEMMA BmapIs ==
  ASSUME DataTypes, UsedHeld, NEW i \in Inode, ~Truncating(i), NEW bn \in 0..MAXFILE - 1,
         Needs(i, bn) <= Cardinality(Block \ used), NEW x, x = bmap(i, bn)
  PROVE  Found(i, bn, x) \/ Direct(i, bn, x) \/ ViaOld(i, bn, x) \/ ViaNew(i, bn, x)
PROOF
<1>1. /\ bn \in Nat /\ bn < MAXFILE /\ NDIRECT \in Nat /\ used \in SUBSET Block
      /\ MAXFILE = NDIRECT + NINDIRECT /\ NINDIRECT \in Nat
  BY DataSizes DEF DataTypes
<1>2. IsFiniteSet(Block \ used) /\ Cardinality(Block \ used) \in Nat
  <2>1. IsFiniteSet(Block)
    BY FS_Interval, DataSizes DEF Block
  <2>2. IsFiniteSet(Block \ used)
    BY <2>1, FS_Subset
  <2> QED
    BY <2>2, FS_CardinalityType
<1>3. ASSUME Cardinality(Block \ used) >= 1 PROVE First(used) \in Block \ used
  <2>1. Block \ used # {}
    BY <1>2, <1>3, FS_EmptySet
  <2> QED
    BY <1>1, <2>1, FreeBlock
<1>4. CASE bn < NDIRECT
  <2>1. PICK b : b = IF addrs[i][bn] = 0 THEN First(used) ELSE addrs[i][bn]
    OBVIOUS
  <2>2. x = [new |-> {b} \ used, block |-> b, addrs |-> [addrs[i] EXCEPT ![bn] = b],
             ind |-> 0, ptrs |-> NoBlocks]
    BY <1>4, <2>1 DEF bmap
  <2>3. bn \in Place /\ PlaceOf(bn) = bn /\ Entry(i, bn) = addrs[i][bn] /\ bn \in 0..NDIRECT
    BY <1>1, <1>4 DEF PlaceOf, Entry, Place
  <2>4. CASE addrs[i][bn] = 0
    <3>1. Needs(i, bn) = 1
      BY <1>4, <2>4 DEF Needs
    <3>2. b \in Block \ used
      BY <1>2, <1>3, <2>1, <2>4, <3>1
    <3>3. {b} \ used = {b}
      BY <3>2
    <3> QED
      BY <1>4, <2>2, <2>3, <2>4, <3>2, <3>3 DEF Direct
  <2>5. CASE addrs[i][bn] # 0
    <3>1. b = addrs[i][bn] /\ b \in used
      BY <2>1, <2>3, <2>5, EntryUsed
    <3>2. {b} \ used = {}
      BY <3>1
    <3>3. [addrs[i] EXCEPT ![bn] = b] = addrs[i]
      BY <2>3, <3>1 DEF DataTypes
    <3> QED
      BY <2>2, <2>3, <2>5, <3>1, <3>2, <3>3 DEF Found
  <2> QED
    BY <2>4, <2>5
<1>5. CASE ~(bn < NDIRECT)
  <2>0. /\ bn >= NDIRECT /\ PlaceOf(bn) = bn + 1 /\ bn + 1 \in Place /\ ~(bn + 1 <= NDIRECT)
        /\ bn + 1 - NDIRECT - 1 = bn - NDIRECT /\ bn - NDIRECT \in 0..NINDIRECT - 1
    BY <1>1, <1>5 DEF PlaceOf, Place
  <2>1. PICK k \in 0..NINDIRECT - 1 : k = bn - NDIRECT
    BY <2>0
  <2>2. PICK a : a = IF addrs[i][NDIRECT] = 0 THEN First(used) ELSE addrs[i][NDIRECT]
    OBVIOUS
  <2>3. PICK t : t = Zeroed({a} \ used)[a]
    OBVIOUS
  <2>4. PICK b : b = IF t[k] = 0 THEN First(used \cup {a}) ELSE t[k]
    OBVIOUS
  <2>5. x = [new |-> {a, b} \ used, block |-> b, addrs |-> [addrs[i] EXCEPT ![NDIRECT] = a],
             ind |-> a, ptrs |-> [t EXCEPT ![k] = b]]
    BY <1>5, <2>1, <2>2, <2>3, <2>4 DEF bmap
  <2>6. CASE addrs[i][NDIRECT] = 0
    <3>1. Needs(i, bn) = 2
      BY <1>5, <2>6 DEF Needs
    <3>2. a \in Block \ used
      BY <1>2, <1>3, <2>2, <2>6, <3>1
    <3>3. t = NoBlocks /\ t[k] = 0
      BY <2>1, <2>3, <3>2 DEF Zeroed, NoBlocks
    <3>4. Block \ (used \cup {a}) # {}
      <4>1. Cardinality((Block \ used) \ {a}) = Cardinality(Block \ used) - 1
        BY <1>2, <3>2, FS_RemoveElement
      <4>2. Cardinality((Block \ used) \ {a}) # 0
        BY <1>2, <3>1, <4>1
      <4>3. (Block \ used) \ {a} # {}
        BY <4>2, FS_EmptySet
      <4> QED
        BY <4>3
    <3>5. b \in Block \ (used \cup {a})
      BY <1>1, <2>4, <3>2, <3>3, <3>4, FreeBlock
    <3>6. {a, b} \ used = {a, b}
      BY <3>2, <3>5
    <3>7. /\ x.new = {a, b} /\ x.block = b /\ x.ind = a
          /\ x.addrs = [addrs[i] EXCEPT ![NDIRECT] = a] /\ x.ptrs = [t EXCEPT ![k] = b]
      BY <2>5, <3>6
    <3>8. a \in Block \ used /\ b \in Block \ used /\ b # a
      BY <3>2, <3>5
    <3> QED
      BY <2>0, <2>1, <2>6, <3>3, <3>7, <3>8 DEF ViaNew
  <2>7. CASE addrs[i][NDIRECT] # 0
    <3>1. a = addrs[i][NDIRECT] /\ a \in Block /\ a \in used
      BY <2>2, <2>7, IndirectUsed
    <3>2. {a} \ used = {} /\ used \cup {a} = used
      BY <3>1
    <3>3. t = ptr[a] /\ t \in [0..NINDIRECT - 1 -> 0..NBLOCKS]
      <4>1. Zeroed({a} \ used)[a] = IF a \in {a} \ used THEN NoBlocks ELSE ptr[a]
        BY <3>1 DEF Zeroed
      <4>2. t = ptr[a]
        BY <2>3, <3>1, <4>1
      <4> QED
        BY <3>1, <4>2 DEF DataTypes
    <3>4. Entry(i, bn + 1) = t[k]
      <4>1. Entry(i, bn + 1) = ptr[addrs[i][NDIRECT]][bn + 1 - NDIRECT - 1]
        BY <1>1, <2>0, <2>7, SMTT(20) DEF Entry
      <4> QED
        BY <2>0, <2>1, <3>1, <3>3, <4>1
    <3>5. [addrs[i] EXCEPT ![NDIRECT] = a] = addrs[i]
      BY <1>1, <3>1 DEF DataTypes
    <3>6. CASE t[k] = 0
      <4>1. Needs(i, bn) = 1
        BY <1>5, <2>1, <2>7, <3>1, <3>3, <3>6 DEF Needs
      <4>2. b \in Block \ used
        BY <1>2, <1>3, <2>4, <3>2, <3>6, <4>1
      <4>3. {a, b} \ used = {b}
        BY <3>1, <4>2
      <4> QED
        BY <2>0, <2>1, <2>5, <2>7, <3>1, <3>3, <3>4, <3>5, <3>6, <4>2, <4>3 DEF ViaOld
    <3>7. CASE t[k] # 0
      <4>1. b = t[k] /\ b \in used
        BY <2>0, <2>4, <3>4, <3>7, EntryUsed
      <4>2. {a, b} \ used = {}
        BY <3>1, <4>1
      <4>3. [t EXCEPT ![k] = b] = t
        BY <2>1, <3>3, <4>1
      <4> QED
        BY <2>0, <2>5, <3>1, <3>3, <3>4, <3>5, <3>7, <4>1, <4>2, <4>3 DEF Found
    <3> QED
      BY <3>6, <3>7
  <2> QED
    BY <2>6, <2>7
<1> QED
  BY <1>4, <1>5

Maps(i, bn, x) == Found(i, bn, x) \/ Direct(i, bn, x) \/ ViaOld(i, bn, x) \/ ViaNew(i, bn, x)
Extends(i, x) ==
  /\ used' = used \cup x.new
  /\ ptr' = [b \in Block |-> IF b = x.ind THEN x.ptrs ELSE Zeroed(x.new)[b]]
  /\ addrs' = [addrs EXCEPT ![i] = x.addrs]
MapTypes(i, x) ==
  /\ x.new \subseteq Block \ used /\ x.new \subseteq {x.block, x.ind} /\ x.block \in Block
  /\ x.ind = 0 \/ x.ind \in Block
  /\ x.ind = 0 \/ x.ind \notin used \/ x.ind = addrs[i][NDIRECT]
  /\ x.addrs \in [0..NDIRECT -> 0..NBLOCKS]
  /\ x.ind # 0 => x.ptrs \in [0..NINDIRECT - 1 -> 0..NBLOCKS]

LEMMA MapTyped ==
  ASSUME DataTypes, UsedHeld, NEW i \in Inode, ~Truncating(i), NEW bn \in 0..MAXFILE - 1,
         NEW x, Maps(i, bn, x)
  PROVE  MapTypes(i, x)
PROOF
<1>1. /\ bn \in Nat /\ bn < MAXFILE /\ NDIRECT \in Nat /\ used \in SUBSET Block
      /\ MAXFILE = NDIRECT + NINDIRECT /\ NINDIRECT \in Nat /\ NDIRECT \in 0..NDIRECT
      /\ Block \subseteq 0..NBLOCKS /\ 0 \in 0..NBLOCKS /\ 0 \notin Block
  BY DataSizes DEF DataTypes
<1>2. addrs[i] \in [0..NDIRECT -> 0..NBLOCKS] /\ ptr \in [Block -> [0..NINDIRECT - 1 -> 0..NBLOCKS]]
  BY DEF DataTypes
<1>3. CASE Found(i, bn, x)
  <2>1. PlaceOf(bn) \in Place
    BY <1>1 DEF PlaceOf, Place
  <2>2. x.block \in Block
    BY <1>3, <2>1, EntryIs DEF Found
  <2>3. /\ x.new = {} /\ x.addrs = addrs[i]
        /\ x.ind = 0 \/ (x.ind = addrs[i][NDIRECT] /\ x.ind \in Block /\ x.ptrs = ptr[x.ind])
    BY <1>3 DEF Found
  <2> QED
    BY <1>2, <2>2, <2>3 DEF MapTypes
<1>4. CASE Direct(i, bn, x)
  <2>1. /\ bn \in 0..NDIRECT /\ x.block \in Block /\ x.block \notin used /\ x.new = {x.block}
        /\ x.addrs = [addrs[i] EXCEPT ![bn] = x.block] /\ x.ind = 0
    BY <1>1, <1>4 DEF Direct
  <2>2. x.addrs \in [0..NDIRECT -> 0..NBLOCKS]
    BY <1>1, <1>2, <2>1
  <2> QED
    BY <2>1, <2>2 DEF MapTypes
<1>5. CASE ViaOld(i, bn, x)
  <2>1. /\ x.block \in Block /\ x.block \notin used /\ x.new = {x.block} /\ x.addrs = addrs[i]
        /\ x.ind = addrs[i][NDIRECT] /\ addrs[i][NDIRECT] # 0
        /\ x.ptrs = [ptr[x.ind] EXCEPT ![bn - NDIRECT] = x.block]
        /\ bn - NDIRECT \in 0..NINDIRECT - 1
    BY <1>1, <1>5 DEF ViaOld
  <2>2. x.ind \in Block
    BY <2>1, IndirectUsed
  <2>3. ptr[x.ind] \in [0..NINDIRECT - 1 -> 0..NBLOCKS]
    BY <1>2, <2>2
  <2>4. x.ptrs \in [0..NINDIRECT - 1 -> 0..NBLOCKS]
    BY <1>1, <2>1, <2>3
  <2> QED
    BY <1>2, <2>1, <2>2, <2>4 DEF MapTypes
<1>6. CASE ViaNew(i, bn, x)
  <2>1. /\ x.block \in Block /\ x.block \notin used /\ x.ind \in Block /\ x.ind \notin used
        /\ x.new = {x.ind, x.block} /\ x.addrs = [addrs[i] EXCEPT ![NDIRECT] = x.ind]
        /\ x.ptrs = [NoBlocks EXCEPT ![bn - NDIRECT] = x.block]
        /\ bn - NDIRECT \in 0..NINDIRECT - 1
    BY <1>1, <1>6 DEF ViaNew
  <2>2. x.addrs \in [0..NDIRECT -> 0..NBLOCKS]
    BY <1>1, <1>2, <2>1
  <2>3. NoBlocks \in [0..NINDIRECT - 1 -> 0..NBLOCKS]
    BY <1>1 DEF NoBlocks
  <2>4. x.ptrs \in [0..NINDIRECT - 1 -> 0..NBLOCKS]
    BY <1>1, <2>1, <2>3
  <2> QED
    BY <2>1, <2>2, <2>4 DEF MapTypes
<1> QED
  BY <1>3, <1>4, <1>5, <1>6 DEF Maps

LEMMA MapElsewhere ==
  ASSUME DataTypes, OnePlace, UsedHeld, NEW i \in Inode, NEW x, MapTypes(i, x), Extends(i, x)
  PROVE  /\ used' \in SUBSET Block /\ addrs' \in [Inode -> [0..NDIRECT -> 0..NBLOCKS]]
         /\ ptr' \in [Block -> [0..NINDIRECT - 1 -> 0..NBLOCKS]]
         /\ addrs'[i] = x.addrs /\ \A j \in Inode \ {i} : addrs'[j] = addrs[j]
         /\ x.ind # 0 => ptr'[x.ind] = x.ptrs
         /\ \A d \in Block : d \notin x.new /\ d # x.ind => ptr'[d] = ptr[d]
         /\ \A j \in Inode \ {i}, n \in Place : Entry(j, n)' = Entry(j, n)
PROOF
<1>1. used' \in SUBSET Block
  BY DEF Extends, MapTypes, DataTypes
<1>2. addrs' \in [Inode -> [0..NDIRECT -> 0..NBLOCKS]]
  BY DEF Extends, MapTypes, DataTypes
<1>3. NoBlocks \in [0..NINDIRECT - 1 -> 0..NBLOCKS]
  <2>1. 0 \in 0..NBLOCKS
    BY DataSizes
  <2> QED
    BY <2>1 DEF NoBlocks
<1>4. \A d \in Block : ptr'[d] = IF d = x.ind THEN x.ptrs ELSE IF d \in x.new THEN NoBlocks ELSE ptr[d]
  BY DEF Extends, Zeroed
<1>5. ptr' \in [Block -> [0..NINDIRECT - 1 -> 0..NBLOCKS]]
  <2>1. \A d \in Block : ptr'[d] \in [0..NINDIRECT - 1 -> 0..NBLOCKS]
    <3> SUFFICES ASSUME NEW d \in Block PROVE ptr'[d] \in [0..NINDIRECT - 1 -> 0..NBLOCKS]
      OBVIOUS
    <3>1. d # 0 /\ ptr[d] \in [0..NINDIRECT - 1 -> 0..NBLOCKS]
      BY DataSizes DEF DataTypes
    <3>2. d = x.ind => x.ptrs \in [0..NINDIRECT - 1 -> 0..NBLOCKS]
      BY <3>1 DEF MapTypes
    <3> QED
      BY <1>3, <1>4, <3>1, <3>2
  <2>2. ptr' = [d \in Block |-> ptr'[d]]
    BY DEF Extends
  <2> QED
    BY <2>1, <2>2
<1>6. addrs'[i] = x.addrs /\ \A j \in Inode \ {i} : addrs'[j] = addrs[j]
  BY DEF Extends, DataTypes
<1>7. x.ind # 0 => ptr'[x.ind] = x.ptrs
  BY <1>4 DEF MapTypes
<1>8. \A d \in Block : d \notin x.new /\ d # x.ind => ptr'[d] = ptr[d]
  BY <1>4
<1>9. ASSUME NEW j \in Inode \ {i}, NEW n \in Place PROVE Entry(j, n)' = Entry(j, n)
  <2>1. CASE addrs[j][NDIRECT] = 0
    BY <1>6, <2>1 DEF Entry
  <2>2. CASE addrs[j][NDIRECT] # 0
    <3>1. PICK d : d = addrs[j][NDIRECT]
      OBVIOUS
    <3>2. d \in Block /\ d \in used /\ Holds(j, NDIRECT, d) /\ NDIRECT \in Place /\ d # 0
      BY <2>2, <3>1, IndirectUsed
    <3>3. d \notin x.new
      BY <3>2 DEF MapTypes
    <3>4. d # addrs[i][NDIRECT]
      <4> SUFFICES ASSUME d = addrs[i][NDIRECT] PROVE FALSE
        OBVIOUS
      <4>1. Holds(i, NDIRECT, d)
        BY <3>2, IndirectUsed
      <4> QED
        BY <3>2, <4>1, Zenon DEF OnePlace
    <3>5. d # x.ind
      BY <3>2, <3>4 DEF MapTypes
    <3>6. ptr'[d] = ptr[d]
      BY <1>8, <3>2, <3>3, <3>5
    <3> QED
      BY <1>6, <2>2, <3>1, <3>6 DEF Entry
  <2> QED
    BY <2>1, <2>2
<1> QED
  BY <1>1, <1>2, <1>5, <1>6, <1>7, <1>8, <1>9

(* The block map of i afterwards *)
Entered(i, bn, x, m) ==
  IF Found(i, bn, x) THEN Entry(i, m)
  ELSE IF m = PlaceOf(bn) THEN x.block
  ELSE IF m = NDIRECT /\ ViaNew(i, bn, x) THEN x.ind ELSE Entry(i, m)

LEMMA MapOwn ==
  ASSUME DataTypes, OnePlace, UsedHeld, NEW i \in Inode, ~Truncating(i), NEW bn \in 0..MAXFILE - 1,
         NEW x, Maps(i, bn, x), MapTypes(i, x), Extends(i, x), NEW m \in Place
  PROVE  Entry(i, m)' = Entered(i, bn, x, m)
PROOF
<1>1. /\ addrs'[i] = x.addrs
      /\ x.ind # 0 => ptr'[x.ind] = x.ptrs
      /\ \A d \in Block : d \notin x.new /\ d # x.ind => ptr'[d] = ptr[d]
  BY MapElsewhere
<1>2. /\ bn \in Nat /\ bn < MAXFILE /\ NDIRECT \in Nat /\ NINDIRECT \in Nat /\ m \in Nat
      /\ MAXFILE = NDIRECT + NINDIRECT /\ NDIRECT \in 0..NDIRECT /\ 0 \notin Block
      /\ m <= NDIRECT + NINDIRECT
  BY DataSizes DEF Place
<1>3. PICK d : d = addrs[i][NDIRECT]
  OBVIOUS
<1>4. d # 0 => d \in Block /\ d \in used
  BY <1>3, IndirectUsed
<1>5. x.new \cap used = {}
  BY DEF MapTypes
<1>6. /\ m <= NDIRECT => m \in 0..NDIRECT /\ Entry(i, m) = addrs[i][m]
      /\ m > NDIRECT => /\ m - NDIRECT - 1 \in 0..NINDIRECT - 1
                        /\ Entry(i, m) = IF d = 0 THEN 0 ELSE ptr[d][m - NDIRECT - 1]
  BY <1>2, <1>3 DEF Entry
<1>7. /\ m <= NDIRECT => Entry(i, m)' = x.addrs[m]
      /\ m > NDIRECT => Entry(i, m)' = IF x.addrs[NDIRECT] = 0 THEN 0
                                       ELSE ptr'[x.addrs[NDIRECT]][m - NDIRECT - 1]
  BY <1>1, <1>2 DEF Entry
<1>8. addrs[i] \in [0..NDIRECT -> 0..NBLOCKS]
      /\ (d # 0 => ptr[d] \in [0..NINDIRECT - 1 -> 0..NBLOCKS])
  BY <1>4 DEF DataTypes
<1>9. CASE Found(i, bn, x)
  <2>1. /\ x.new = {} /\ x.addrs = addrs[i]
        /\ x.ind = 0 \/ (x.ind = d /\ x.ind \in Block /\ x.ptrs = ptr[x.ind])
    BY <1>3, <1>9 DEF Found
  <2>2. d # 0 => ptr'[d] = ptr[d]
    BY <1>1, <1>4, <2>1
  <2>3. Entry(i, m)' = Entry(i, m)
    BY <1>2, <1>3, <1>6, <1>7, <2>1, <2>2
  <2> QED
    BY <1>9, <2>3 DEF Entered
<1>10. CASE Direct(i, bn, x)
  <2>1. /\ bn < NDIRECT /\ Entry(i, bn) = 0 /\ x.block \in Block \ used /\ x.new = {x.block}
        /\ x.addrs = [addrs[i] EXCEPT ![bn] = x.block] /\ x.ind = 0
    BY <1>10 DEF Direct
  <2>2. d # 0 => ptr'[d] = ptr[d]
    BY <1>1, <1>4, <2>1
  <2>3. bn \in 0..NDIRECT /\ x.addrs[NDIRECT] = d
    BY <1>2, <1>3, <1>8, <2>1
  <2>4. Entry(i, m)' = IF m = bn THEN x.block ELSE Entry(i, m)
    <3>1. CASE m <= NDIRECT
      BY <1>6, <1>7, <1>8, <2>1, <2>3, <3>1
    <3>2. CASE m > NDIRECT
      BY <1>2, <1>6, <1>7, <2>1, <2>2, <2>3, <3>2
    <3> QED
      BY <1>2, <3>1, <3>2
  <2>5. PlaceOf(bn) = bn /\ ~Found(i, bn, x) /\ ~ViaNew(i, bn, x)
    <3>1. PlaceOf(bn) = bn
      BY <2>1 DEF PlaceOf
    <3>2. ~Found(i, bn, x)
      BY <2>1, <3>1 DEF Found
    <3>3. ~ViaNew(i, bn, x)
      BY <1>2, <2>1 DEF ViaNew
    <3> QED
      BY <3>1, <3>2, <3>3
  <2> QED
    BY <2>4, <2>5 DEF Entered
<1>11. CASE ViaOld(i, bn, x)
  <2>1. /\ bn >= NDIRECT /\ d # 0 /\ Entry(i, bn + 1) = 0
        /\ x.block \in Block \ used /\ x.new = {x.block} /\ x.addrs = addrs[i] /\ x.ind = d
        /\ x.ptrs = [ptr[d] EXCEPT ![bn - NDIRECT] = x.block]
    BY <1>3, <1>11 DEF ViaOld
  <2>2. ptr'[d] = [ptr[d] EXCEPT ![bn - NDIRECT] = x.block]
    BY <1>1, <2>1
  <2>3. Entry(i, m)' = IF m = bn + 1 THEN x.block ELSE Entry(i, m)
    <3>1. CASE m <= NDIRECT
      BY <1>2, <1>6, <1>7, <2>1, <3>1
    <3>2. CASE m > NDIRECT
      <4>1. PICK k \in 0..NINDIRECT - 1 : k = m - NDIRECT - 1
        BY <1>6, <3>2
      <4>2. k = bn - NDIRECT <=> m = bn + 1
        BY <1>2, <4>1
      <4>3. Entry(i, m)' = ptr'[d][k] /\ Entry(i, m) = ptr[d][k]
        BY <1>3, <1>6, <1>7, <2>1, <3>2, <4>1
      <4> QED
        BY <1>8, <2>1, <2>2, <4>2, <4>3
    <3> QED
      BY <1>2, <3>1, <3>2
  <2>4. PlaceOf(bn) = bn + 1 /\ ~Found(i, bn, x) /\ ~ViaNew(i, bn, x)
    <3>1. PlaceOf(bn) = bn + 1
      BY <1>2, <2>1 DEF PlaceOf
    <3>2. ~Found(i, bn, x)
      BY <2>1, <3>1 DEF Found
    <3>3. ~ViaNew(i, bn, x)
      BY <1>3, <2>1 DEF ViaNew
    <3> QED
      BY <3>1, <3>2, <3>3
  <2> QED
    BY <2>3, <2>4 DEF Entered
<1>12. CASE ViaNew(i, bn, x)
  <2>1. /\ bn >= NDIRECT /\ d = 0 /\ x.block \in Block /\ x.ind \in Block
        /\ x.addrs = [addrs[i] EXCEPT ![NDIRECT] = x.ind]
        /\ x.ptrs = [NoBlocks EXCEPT ![bn - NDIRECT] = x.block]
    BY <1>3, <1>12 DEF ViaNew
  <2>2. x.ind # 0 /\ x.addrs[NDIRECT] = x.ind /\ ptr'[x.ind] = x.ptrs
    BY <1>1, <1>2, <1>8, <2>1
  <2>3. NoBlocks = [k \in 0..NINDIRECT - 1 |-> 0]
    BY DEF NoBlocks
  <2>4. Entry(i, m)' = IF m = bn + 1 THEN x.block ELSE IF m = NDIRECT THEN x.ind ELSE Entry(i, m)
    <3>1. CASE m <= NDIRECT
      <4>1. m # bn + 1 /\ m \in 0..NDIRECT
        BY <1>2, <1>6, <2>1, <3>1
      <4> QED
        BY <1>6, <1>7, <1>8, <2>1, <2>2, <3>1, <4>1
    <3>2. CASE m > NDIRECT
      <4>1. PICK k \in 0..NINDIRECT - 1 : k = m - NDIRECT - 1
        BY <1>6, <3>2
      <4>2. (k = bn - NDIRECT <=> m = bn + 1) /\ m # NDIRECT
        BY <1>2, <3>2, <4>1
      <4>3. Entry(i, m)' = x.ptrs[k] /\ Entry(i, m) = 0
        BY <1>6, <1>7, <2>1, <2>2, <3>2, <4>1
      <4> QED
        BY <2>1, <2>3, <4>2, <4>3
    <3> QED
      BY <1>2, <3>1, <3>2
  <2>5. PlaceOf(bn) = bn + 1 /\ ~Found(i, bn, x)
    <3>1. PlaceOf(bn) = bn + 1 /\ bn + 1 > NDIRECT /\ ~(bn + 1 <= NDIRECT)
      BY <1>2, <2>1 DEF PlaceOf
    <3>2. Entry(i, PlaceOf(bn)) = 0
      BY <1>3, <2>1, <3>1 DEF Entry
    <3> QED
      BY <3>1, <3>2 DEF Found
  <2> QED
    BY <1>12, <2>4, <2>5 DEF Entered
<1> QED
  BY <1>9, <1>10, <1>11, <1>12 DEF Maps

LEMMA QuietReleased ==
  ASSUME DataTypes, DataCalls, NEW p \in Proc, NEW i \in Inode, NEW c, NEW l, DataFrame(p, i, c, l),
         w[p].pc # "trunc", c.pc # "trunc"
  PROVE  /\ ~Truncating(i)
         /\ \A n \in Place : ~Released(i, n) /\ ~Released(i, n)'
PROOF
<1>1. \A q \in Proc : ~Truncs(q, i)
  BY FrameTruncs DEF Truncs
<1>2. \A q \in Proc : ~Truncs(q, i)'
  BY FrameTruncs
<1> QED
  BY <1>1, <1>2 DEF Released, Truncating, Truncs

LEMMA MapHeld ==
  ASSUME DataTypes, DataCalls, OnePlace, UsedHeld,
         NEW p \in Proc, NEW i \in Inode, NEW c, NEW l, DataFrame(p, i, c, l),
         w[p].pc # "trunc", c.pc # "trunc",
         NEW bn \in 0..MAXFILE - 1, NEW x, Maps(i, bn, x), Extends(i, x)
  PROVE  OnePlace' /\ UsedHeld'
PROOF
<1>1. ~Truncating(i) /\ \A n \in Place : ~Released(i, n) /\ ~Released(i, n)'
  BY QuietReleased
<1>2. MapTypes(i, x)
  BY <1>1, MapTyped
<1>3. \A m \in Place : Entry(i, m)' = Entered(i, bn, x, m)
  BY <1>1, <1>2, MapOwn
<1>4. \A j \in Inode \ {i}, m \in Place, d \in Block : (Holds(j, m, d)' <=> Holds(j, m, d))
  <2>1. \A j \in Inode \ {i}, m \in Place : Entry(j, m)' = Entry(j, m)
    BY DEF DataFrame
  <2>2. \A j \in Inode \ {i}, m \in Place : Released(j, m)' <=> Released(j, m)
    BY FrameTruncs
  <2> QED
    BY <2>1, <2>2, Zenon DEF Holds
<1>5. \A m \in Place, d \in Block : (Holds(i, m, d)' <=> Entered(i, bn, x, m) = d)
  BY <1>1, <1>3, Zenon DEF Holds
<1>6. \A m \in Place, d \in Block : (Holds(i, m, d) <=> Entry(i, m) = d)
  BY <1>1, Zenon DEF Holds
<1>7. PICK n \in Place : n = PlaceOf(bn)
  BY DataSizes DEF PlaceOf, Place
<1>8. /\ NDIRECT \in Place /\ NDIRECT # n /\ NDIRECT <= NDIRECT /\ 0 \notin Block
      /\ bn < NDIRECT => n = bn
      /\ bn >= NDIRECT => n = bn + 1 /\ ~(n <= NDIRECT)
  BY <1>7, DataSizes DEF PlaceOf, Place
<1>9. CASE Found(i, bn, x)
  <2>1. used' = used
    BY <1>9 DEF Found, Extends
  <2>2. \A m \in Place : Entered(i, bn, x, m) = Entry(i, m)
    BY <1>9 DEF Entered
  <2>3. SameHeld
    BY <1>4, <1>5, <1>6, <2>2, ZenonT(60) DEF SameHeld
  <2> QED
    BY <2>1, <2>3, KeepsPlaces
<1>10. CASE ViaNew(i, bn, x)
  <2>1. PICK a \in Block \ used, b \in Block \ used : a = x.ind /\ b = x.block /\ a # b
    BY <1>10 DEF ViaNew
  <2>2. Entry(i, n) = 0 /\ Entry(i, NDIRECT) = 0
    BY <1>8, <1>10 DEF ViaNew, Entry
  <2>3. ~Found(i, bn, x)
    BY <1>7, <2>2 DEF Found
  <2>4. \A m \in Place : Entered(i, bn, x, m) = IF m = n THEN b ELSE IF m = NDIRECT THEN a ELSE Entry(i, m)
    BY <1>7, <1>10, <2>1, <2>3 DEF Entered
  <2>5. \A m \in Place, d \in Block :
          (Holds(i, m, d)' <=> Holds(i, m, d) \/ (m = NDIRECT /\ d = a) \/ (m = n /\ d = b))
    BY <1>5, <1>6, <1>8, <2>2, <2>4
  <2>6. used' = used \cup {a, b}
    BY <1>10, <2>1 DEF ViaNew, Extends
  <2>7. \A j \in Inode, m \in Place, d \in Block :
          (Holds(j, m, d)' <=> Holds(j, m, d) \/ (j = i /\ m = NDIRECT /\ d = a) \/ (j = i /\ m = n /\ d = b))
    BY <1>4, <2>5, Zenon
  <2>8. Takes(i, NDIRECT, a, n, b)
    BY <1>8, <2>1, <2>6, <2>7 DEF Takes
  <2> QED
    BY <1>8, <2>8, TakesPlaces
<1>11. CASE Direct(i, bn, x) \/ ViaOld(i, bn, x)
  <2>1. PICK b \in Block \ used : b = x.block /\ x.new = {b}
    BY <1>11 DEF Direct, ViaOld
  <2>2. Entry(i, n) = 0
    BY <1>8, <1>11 DEF Direct, ViaOld
  <2>3. ~Found(i, bn, x)
    BY <1>7, <2>2 DEF Found
  <2>4. ~ViaNew(i, bn, x)
    BY <1>11, DataSizes DEF ViaNew, Direct, ViaOld
  <2>5. \A m \in Place : Entered(i, bn, x, m) = IF m = n THEN b ELSE Entry(i, m)
    BY <1>7, <2>1, <2>3, <2>4 DEF Entered
  <2>6. \A m \in Place, d \in Block : (Holds(i, m, d)' <=> Holds(i, m, d) \/ (m = n /\ d = b))
    BY <1>5, <1>6, <1>8, <2>2, <2>5
  <2>7. used' = used \cup {b, b}
    BY <2>1 DEF Extends
  <2>8. \A j \in Inode, m \in Place, d \in Block :
          (Holds(j, m, d)' <=> Holds(j, m, d) \/ (j = i /\ m = n /\ d = b) \/ (j = i /\ m = n /\ d = b))
    BY <1>4, <2>6, Zenon
  <2>9. Takes(i, n, b, n, b)
    BY <2>1, <2>7, <2>8 DEF Takes
  <2> QED
    BY <2>9, TakesPlaces
<1> QED
  BY <1>9, <1>10, <1>11 DEF Maps

(* A write fills the file as far as it goes. *)
LEMMA MapFills ==
  ASSUME DataTypes, OnePlace, UsedHeld, NEW i \in Inode, ~Truncating(i),
         NEW z \in Nat, NEW bn \in 0..MAXFILE - 1, bn = z \div BSIZE,
         NEW x, Maps(i, bn, x), MapTypes(i, x), Extends(i, x)
  PROVE  /\ \A k \in Nat : Filled(i, k) => Filled(i, k)'
         /\ \A m \in Nat : Filled(i, z) /\ m <= BSIZE - (z % BSIZE) => Filled(i, z + m)'
         /\ \A k \in Nat : Filled(i, k) /\ z < k => addrs'[i] = addrs[i]
PROOF
<1>1. \A m \in Place : Entry(i, m)' = Entered(i, bn, x, m)
  BY MapOwn
<1>2. \A n \in 0..MAXFILE - 1 : PlaceOf(n) \in Place
  BY DataSizes DEF PlaceOf, Place
<1>3. x.block # 0
  BY DataSizes DEF MapTypes
<1>4. \A m \in Place : Entry(i, m) # 0 => Entry(i, m)' # 0
  <2>1. ViaNew(i, bn, x) => x.ind # 0
    BY DataSizes DEF ViaNew
  <2> QED
    BY <1>1, <1>3, <2>1 DEF Entered
<1>5. Entry(i, PlaceOf(bn))' # 0
  <2>1. Found(i, bn, x) => Entry(i, PlaceOf(bn)) # 0
    BY DEF Found
  <2>2. Entry(i, PlaceOf(bn))' = Entered(i, bn, x, PlaceOf(bn))
    BY <1>1, <1>2
  <2> QED
    BY <1>3, <2>1, <2>2 DEF Entered
<1>6. ASSUME NEW k \in Nat, Filled(i, k) PROVE Filled(i, k)'
  BY <1>2, <1>4, <1>6 DEF Filled
<1>7. PICK s \in Nat \ {0} : s = BSIZE
  BY DataSizes
<1>8. bn \in Nat /\ bn * s <= z /\ z < bn * s + s /\ z % s \in Nat /\ z = (s * bn) + (z % s)
      /\ s * bn = bn * s
  <2>1. PICK q \in Nat : q = z \div s
    BY <1>7, Divided
  <2>2. q * s <= z /\ z < q * s + s
    BY <1>7, <2>1, Divided
  <2>3. z % s \in 0..s - 1 /\ z = (s * q) + (z % s)
    <3>1. z % s \in 0..s - 1 /\ z = (s * (z \div s)) + (z % s)
      BY DivMod
    <3> QED
      BY <2>1, <3>1, Zenon
  <2>4. s * q = q * s
    BY <1>7, <2>1
  <2> QED
    BY <1>7, <2>1, <2>2, <2>3, <2>4
<1>9. ASSUME NEW m \in Nat, Filled(i, z), m <= BSIZE - (z % BSIZE) PROVE Filled(i, z + m)'
  <2>1. PICK y \in Nat : y = bn * s
    BY <1>7, <1>8
  <2>2. z + m <= y + s
    BY <1>7, <1>8, <1>9, <2>1
  <2>3. ASSUME NEW n \in 0..MAXFILE - 1, n * BSIZE < z + m PROVE Entry(i, PlaceOf(n))' # 0
    <3>1. CASE n = bn
      BY <1>5, <3>1
    <3>2. CASE n < bn
      <4>1. PICK f \in Int : f = n * s /\ f + s <= y
        BY <1>7, <1>8, <2>1, <3>2, Product, DataSizes
      <4>2. n * BSIZE < z
        BY <1>7, <1>8, <2>1, <4>1
      <4> QED
        BY <1>2, <1>4, <1>9, <4>2 DEF Filled
    <3>3. CASE n > bn
      <4>1. PICK f \in Int : f = n * s /\ y + s <= f
        BY <1>7, <1>8, <2>1, <3>3, Product, DataSizes
      <4>2. f < z + m
        BY <1>7, <2>3, <4>1
      <4> QED
        BY <1>7, <2>1, <2>2, <4>1, <4>2
    <3> QED
      BY <1>8, <3>1, <3>2, <3>3, DataSizes
  <2> QED
    BY <2>3 DEF Filled
<1>10. ASSUME NEW k \in Nat, Filled(i, k), z < k PROVE addrs'[i] = addrs[i]
  <2>1. bn * BSIZE < k
    BY <1>7, <1>8, <1>10
  <2>2. Entry(i, PlaceOf(bn)) # 0
    BY <1>10, <2>1 DEF Filled
  <2>3. Found(i, bn, x)
    <3>1. ~Direct(i, bn, x)
      BY <2>2 DEF Direct, PlaceOf
    <3>2. ~ViaOld(i, bn, x)
      BY <1>8, <2>2, DataSizes DEF ViaOld, PlaceOf
    <3>3. ~ViaNew(i, bn, x)
      BY <1>8, <2>2, DataSizes DEF ViaNew, PlaceOf, Entry
    <3> QED
      BY <3>1, <3>2, <3>3 DEF Maps
  <2>4. addrs'[i] = x.addrs
    BY MapElsewhere
  <2> QED
    BY <2>3, <2>4 DEF Found
<1> QED
  BY <1>6, <1>9, <1>10

(* A round of the loop of writei, where there are blocks enough: m bytes   *)
(* from byte z of the file on, which is in its block bn.                   *)
Wrote(p, i, o, z, m, bn, x) ==
  /\ i = ip(p) /\ o = w[p].o /\ i = InodeOf[o] /\ lock[i] = p /\ w[p].pc = "writei"
  /\ z = off[o] + w[p].tot /\ w[p].tot + m <= w[p].n /\ m # 0
  /\ w[p].n <= Len(w[p].s) /\ w[p].n <= MaxWrite /\ off[o] + w[p].n <= MAXFILE * BSIZE
  /\ bn = z \div BSIZE /\ m <= BSIZE - (z % BSIZE)
  /\ ~Truncating(i) /\ Maps(i, bn, x) /\ MapTypes(i, x) /\ Extends(i, x)
WroteData(p, z, m, x) ==
  data' = [data EXCEPT ![x.block] =
    [k \in 0..BSIZE - 1 |->
       IF k \in z % BSIZE..(z % BSIZE) + m - 1 THEN w[p].s[w[p].tot + k - (z % BSIZE) + 1]
       ELSE IF x.block \in x.new THEN 0 ELSE data[x.block][k]]]
WroteLog(p, x) ==
  logged' = [logged EXCEPT ![p] =
    logged[p] \cup {x.block} \cup x.new \cup (IF x.new = {} THEN {} ELSE {Bitmap})
              \cup (IF x.ind # 0 /\ x.block \in x.new THEN {x.ind} ELSE {})]
Unwritten == UNCHANGED <<used, data, ptr, addrs, size, daddrs, dsize, lock, off, w, logged, saved>>

LEMMA WriteBlockIs ==
  ASSUME DataInv, NEW p \in Proc, write_block(p)
  PROVE  \/ Unwritten
         \/ \E i \in Inode, o \in Open, z \in Nat, m \in Nat, bn \in 0..MAXFILE - 1 : \E x :
              /\ Wrote(p, i, o, z, m, bn, x) /\ WroteData(p, z, m, x) /\ WroteLog(p, x)
              /\ w' = [w EXCEPT ![p] = [w[p] EXCEPT !.tot = w[p].tot + m]]
              /\ UNCHANGED <<size, daddrs, dsize, lock, off, saved>>
PROOF
<1>0. /\ DataTypes /\ DataCalls /\ OnePlace /\ UsedHeld /\ NoHoles /\ MapOnDisk
  BY DEF DataInv
<1>1. w[p].pc = "writei" /\ w[p].tot < w[p].n
  BY DEF write_block, At
<1>2. /\ w[p] \in CallSet /\ w[p].o \in Open /\ ip(p) \in Inode /\ off[w[p].o] \in Nat
      /\ size[ip(p)] \in Nat /\ ip(p) = InodeOf[w[p].o] /\ Len(w[p].s) \in Nat
      /\ w[p].s \in Seq(Nat)
      /\ w[p].tot \in Nat /\ w[p].n \in Nat /\ lock[ip(p)] = p
  BY <1>0, <1>1, DataCaller DEF Busy
<1>3. PICK i \in Inode, o \in Open, s \in Seq(Nat), n \in Nat, t \in Nat :
        i = ip(p) /\ o = w[p].o /\ s = w[p].s /\ n = w[p].n /\ t = w[p].tot
  BY <1>2
<1>4. t < n /\ n <= Len(s) /\ n <= MaxWrite /\ off[o] + n <= MAXFILE * BSIZE /\ off[o] \in Nat
  BY <1>0, <1>1, <1>2, <1>3 DEF DataCalls, DataCall
<1>5. PICK z \in Nat : z = off[o] + t
  BY <1>4
<1>6. PICK bn, h, m, x : /\ bn = z \div BSIZE /\ h = z % BSIZE
                         /\ m = Least(n - t, BSIZE - h) /\ x = bmap(i, bn)
  OBVIOUS
<1>7. CASE Needs(i, bn) > Cardinality(Block \ used)
  <2>1. UNCHANGED <<used, data, ptr, addrs, size, daddrs, dsize, lock, off, w, logged, saved>>
    BY <1>3, <1>5, <1>6, <1>7 DEF write_block, blocks
  <2> QED
    BY <2>1 DEF Unwritten
<1>8. CASE ~(Needs(i, bn) > Cardinality(Block \ used))
  <2>1. Extends(i, x)
    BY <1>3, <1>5, <1>6, <1>8 DEF write_block, Extends
  <2>2. WroteData(p, z, m, x)
    BY <1>3, <1>5, <1>6, <1>8 DEF write_block, WroteData
  <2>3. WroteLog(p, x)
    BY <1>0, <1>3, <1>5, <1>6, <1>8 DEF write_block, DataTypes, WroteLog
  <2>4. /\ w' = [w EXCEPT ![p] = [w[p] EXCEPT !.tot = w[p].tot + m]]
        /\ UNCHANGED <<size, daddrs, dsize, lock, off, saved>>
    BY <1>3, <1>5, <1>6, <1>8 DEF write_block, go
  <2>5. PICK bs \in Nat \ {0} : bs = BSIZE
    BY DataSizes
  <2>6. h \in 0..bs - 1 /\ z < MAXFILE * BSIZE
    <3>1. z % bs \in 0..bs - 1
      BY DivMod
    <3>2. PICK v \in Nat : v = MAXFILE * BSIZE
      BY DataSizes
    <3>3. z < v
      BY <1>4, <1>5, <3>2
    <3> QED
      BY <1>6, <2>5, <3>1, <3>2, <3>3
  <2>7. m \in Nat /\ m > 0 /\ m <= n - t /\ m <= bs - h
    BY <1>4, <1>6, <2>5, <2>6 DEF Least
  <2>8. bn \in 0..MAXFILE - 1
    <3>1. PICK q \in Nat : q = z \div bs /\ q * bs <= z
      BY Divided
    <3>2. q < MAXFILE
      <4>1. PICK f \in Nat : f = MAXFILE
        BY DataSizes
      <4>2. ~(f < q) /\ f # q
        <5>1. z < f * bs /\ f * bs \in Int /\ q * bs \in Int
          BY <2>5, <2>6, <4>1
        <5>2. f < q => f * bs < q * bs
          BY Product
        <5> QED
          BY <3>1, <5>1, <5>2
      <4> QED
        BY <4>1, <4>2
    <3> QED
      BY <1>6, <2>5, <3>1, <3>2, DataSizes
  <2>9. ~Truncating(i)
    <3>1. \A q \in Proc : w[q].pc = "trunc" => lock[ip(q)] = q
      BY <1>0 DEF DataCalls, DataCall
    <3> QED
      BY <1>1, <1>2, <1>3, <3>1 DEF Truncating
  <2>10. Maps(i, bn, x)
    <3>1. Needs(i, bn) <= Cardinality(Block \ used)
      <4>1. Needs(i, bn) \in Nat
        BY DEF Needs
      <4>2. Cardinality(Block \ used) \in Nat
        <5>1. IsFiniteSet(Block)
          BY FS_Interval, DataSizes DEF Block
        <5>2. IsFiniteSet(Block \ used)
          BY <5>1, FS_Difference
        <5> QED
          BY <5>2, FS_CardinalityType
      <4> QED
        BY <1>8, <4>1, <4>2
    <3> QED
      BY <1>0, <1>6, <2>8, <2>9, <3>1, BmapIs DEF Maps
  <2>11. MapTypes(i, x)
    BY <1>0, <2>8, <2>9, <2>10, MapTyped
  <2>12. m # 0 /\ t + m <= n /\ m <= BSIZE - (z % BSIZE)
    BY <1>6, <2>5, <2>6, <2>7
  <2>13. Wrote(p, i, o, z, m, bn, x)
    BY <1>1, <1>2, <1>3, <1>4, <1>5, <1>6, <2>1, <2>9, <2>10, <2>11, <2>12 DEF Wrote
  <2> QED
    BY <2>2, <2>3, <2>4, <2>7, <2>8, <2>13
<1> QED
  BY <1>7, <1>8

LEMMA WriteBlockKeeps ==
  ASSUME DataInv, NEW p \in Proc, write_block(p)
  PROVE  DataInv'
PROOF
<1>0. /\ DataTypes /\ DataCalls /\ OnePlace /\ UsedHeld /\ NoHoles /\ MapOnDisk
  BY DEF DataInv
<1>1. CASE Unwritten
  <2>1. UNCHANGED <<used, data, ptr, addrs, size, daddrs, dsize, lock, off, w, logged, saved>>
    BY <1>1 DEF Unwritten
  <2>2. DataTypes' /\ DataCalls' /\ MapOnDisk'
    BY <1>0, <2>1 DEF DataTypes, DataCalls, DataCall, ip, MapOnDisk
  <2>3. OnePlace' /\ UsedHeld'
    BY <1>0, <2>1 DEF OnePlace, UsedHeld, Holds, Entry, Released, Truncs, ip
  <2>4. NoHoles'
    BY <1>0, <2>1 DEF NoHoles, Filled, Entry, Truncating, ip
  <2> QED
    BY <2>2, <2>3, <2>4 DEF DataInv
<1>2. ASSUME NEW i \in Inode, NEW o \in Open, NEW z \in Nat, NEW m \in Nat, NEW bn \in 0..MAXFILE - 1,
             NEW x, Wrote(p, i, o, z, m, bn, x), WroteData(p, z, m, x), WroteLog(p, x),
             w' = [w EXCEPT ![p] = [w[p] EXCEPT !.tot = w[p].tot + m]],
             UNCHANGED <<size, daddrs, dsize, lock, off, saved>>
      PROVE  DataInv'
  <2>1. /\ i = ip(p) /\ o = w[p].o /\ i = InodeOf[o] /\ lock[i] = p /\ w[p].pc = "writei"
        /\ z = off[o] + w[p].tot /\ w[p].tot + m <= w[p].n /\ m # 0
        /\ w[p].n <= Len(w[p].s) /\ w[p].n <= MaxWrite /\ off[o] + w[p].n <= MAXFILE * BSIZE
        /\ bn = z \div BSIZE /\ m <= BSIZE - (z % BSIZE)
        /\ ~Truncating(i) /\ Maps(i, bn, x) /\ MapTypes(i, x) /\ Extends(i, x)
    BY <1>2 DEF Wrote
  <2>2. /\ w[p] \in CallSet /\ w[p].s \in Seq(Nat) /\ w[p].tot \in Nat /\ w[p].n \in Nat
        /\ off[o] \in Nat /\ size[i] \in Nat
    BY <1>0, <2>1, DataCaller
  <2>3. PICK s \in Seq(Nat), n \in Nat, t \in Nat : s = w[p].s /\ n = w[p].n /\ t = w[p].tot
    BY <2>2
  <2>4. PICK c : c = [w[p] EXCEPT !.tot = t + m]
    OBVIOUS
  <2>5. w' = [w EXCEPT ![p] = c]
    BY <1>2, <2>3, <2>4
  <2>6. PICK h : h = z % BSIZE
    OBVIOUS
  <2>7. PICK bs \in Nat \ {0} : bs = BSIZE
    BY DataSizes
  <2>8. h \in 0..bs - 1
    <3>1. z % bs \in 0..bs - 1
      BY DivMod
    <3> QED
      BY <2>6, <2>7, <3>1
  <2>9. c \in CallSet /\ c.pc = "writei" /\ c.o = o /\ c.s = s /\ c.n = n /\ c.tot = t + m
    <3>1. t + m \in Nat
      OBVIOUS
    <3>2. w[p] \in [pc : {"user", "begin", "writei", "trunc"}, o : Open \cup {Idle.o}, s : Seq(Nat),
                    n : Nat, tot : Nat]
      BY <2>2 DEF CallSet
    <3>3. c.pc = "writei" /\ c.o = o /\ c.s = s /\ c.n = n /\ c.tot = t + m
      BY <2>1, <2>3, <2>4, <3>2
    <3> QED
      BY <2>4, <3>1, <3>2, <3>3 DEF CallSet
  <2>10. /\ used' \in SUBSET Block /\ addrs' \in [Inode -> [0..NDIRECT -> 0..NBLOCKS]]
         /\ ptr' \in [Block -> [0..NINDIRECT - 1 -> 0..NBLOCKS]]
         /\ \A j \in Inode \ {i} : addrs'[j] = addrs[j]
         /\ \A j \in Inode \ {i}, k \in Place : Entry(j, k)' = Entry(j, k)
    BY <1>0, <2>1, MapElsewhere
  <2>11. DataTypes'
    <3>1. PICK d : d = [k \in 0..BSIZE - 1 |->
                          IF k \in h..h + m - 1 THEN s[t + k - h + 1]
                          ELSE IF x.block \in x.new THEN 0 ELSE data[x.block][k]]
      OBVIOUS
    <3>2. d \in [0..BSIZE - 1 -> Nat]
      <4>1. data[x.block] \in [0..BSIZE - 1 -> Nat]
        BY <1>0, <2>1 DEF DataTypes, MapTypes
      <4>2. \A k \in h..h + m - 1 : s[t + k - h + 1] \in Nat
        <5> SUFFICES ASSUME NEW k \in h..h + m - 1 PROVE s[t + k - h + 1] \in Nat
          OBVIOUS
        <5>1. PICK l \in Nat : l = Len(s) /\ t + m <= n /\ n <= l
          BY <2>1, <2>3
        <5>2. h \in Nat /\ t + k - h + 1 \in 1..l
          BY <2>7, <2>8, <5>1
        <5>3. PICK y \in 1..Len(s) : y = t + k - h + 1
          BY <5>1, <5>2
        <5>4. s[y] \in Nat
          OBVIOUS
        <5> QED
          BY <5>3, <5>4
      <4> QED
        BY <3>1, <4>1, <4>2
    <3>3. data' = [data EXCEPT ![x.block] = d]
      BY <1>2, <2>3, <2>6, <3>1 DEF WroteData
    <3>4. data' \in [Block -> [0..BSIZE - 1 -> Nat]]
      BY <1>0, <3>2, <3>3 DEF DataTypes
    <3>5. PICK g : g = logged[p] \cup {x.block} \cup x.new \cup (IF x.new = {} THEN {} ELSE {Bitmap})
                         \cup (IF x.ind # 0 /\ x.block \in x.new THEN {x.ind} ELSE {})
      OBVIOUS
    <3>6. logged' = [logged EXCEPT ![p] = g]
      BY <1>2, <3>5 DEF WroteLog
    <3>7. g \in SUBSET (0..NBLOCKS)
      <4>1. Block \subseteq 0..NBLOCKS /\ Bitmap \in 0..NBLOCKS
        BY DataSizes DEF Bitmap
      <4>2. x.new \subseteq Block /\ x.block \in Block /\ (x.ind = 0 \/ x.ind \in Block)
        BY <2>1 DEF MapTypes
      <4>3. logged[p] \in SUBSET (0..NBLOCKS)
        BY <1>0 DEF DataTypes
      <4> QED
        BY <3>5, <4>1, <4>2, <4>3
    <3>8. logged' \in [Proc -> SUBSET (0..NBLOCKS)] /\ w' \in [Proc -> CallSet]
      BY <1>0, <2>5, <2>9, <3>6, <3>7 DEF DataTypes
    <3> QED
      BY <1>0, <1>2, <2>10, <3>4, <3>8 DEF DataTypes
  <2>12. DataFrame(p, i, c, p)
    <3>1. lock' = [lock EXCEPT ![i] = p]
      BY <1>0, <1>2, <2>1 DEF DataTypes
    <3> QED
      BY <1>2, <2>1, <2>5, <2>9, <2>10, <3>1 DEF DataFrame, Busy
  <2>13. DataCalls'
    <3>1. OwnCall(c, i)
      <4>1. t + m <= n /\ off' = off
        BY <1>2, <2>1, <2>3
      <4> QED
        BY <2>1, <2>3, <2>9, <4>1 DEF OwnCall
    <3> QED
      BY <1>0, <2>12, <3>1, FrameCalls
  <2>14. OnePlace' /\ UsedHeld'
    BY <1>0, <2>1, <2>9, <2>12, MapHeld
  <2>15. Filled(i, z) /\ Filled(i, size[i])
    BY <1>0, <2>1 DEF NoHoles
  <2>16. /\ \A k \in Nat : Filled(i, k) => Filled(i, k)'
         /\ \A k \in Nat : Filled(i, z) /\ k <= BSIZE - (z % BSIZE) => Filled(i, z + k)'
         /\ \A k \in Nat : Filled(i, k) /\ z < k => addrs'[i] = addrs[i]
    BY <1>0, <2>1, MapFills
  <2>17. NoHoles'
    <3>1. Filled(i, z + m)'
      BY <2>1, <2>15, <2>16
    <3>2. PICK y \in Nat : y = size[i]
      BY <2>2
    <3>3. Filled(i, y)'
      BY <2>15, <2>16, <3>2
    <3>4. Filled(i, size[i])'
      BY <1>2, <3>2, <3>3
    <3>5. \A k \in Nat : k = off'[c.o] + c.tot => k = z + m
      BY <1>2, <2>1, <2>2, <2>3, <2>9, SMTT(30)
    <3>6. \A k \in Nat : k = off'[c.o] + c.tot => Filled(i, k)'
      BY <3>1, <3>5
    <3>7. /\ \A u \in Open : InodeOf[u] = i => off'[u] <= size'[i]
          /\ size'[i] <= MAXFILE * BSIZE /\ off' \in [Open -> Nat]
      BY <1>0, <1>2 DEF NoHoles, DataTypes
    <3> QED
      BY <1>0, <2>12, <3>4, <3>6, <3>7, FrameHoles
  <2>18. MapOnDisk'
    <3>1. ASSUME off'[c.o] + c.tot <= size'[i] PROVE daddrs'[i] = addrs'[i]
      <4>1. z < size[i]
        BY <1>2, <2>1, <2>2, <2>3, <2>9, <3>1, SMTT(30)
      <4>2. addrs'[i] = addrs[i]
        BY <2>2, <2>15, <2>16, <4>1
      <4>3. off[w[p].o] + w[p].tot <= size[ip(p)]
        BY <2>1, <2>2, <4>1
      <4>4. daddrs[i] = addrs[i]
        BY <1>0, <2>1, <4>3 DEF MapOnDisk
      <4> QED
        BY <1>2, <4>2, <4>4
    <3> QED
      BY <1>0, <2>12, <3>1, FileDataAssumption, FrameDisk
  <2> QED
    BY <2>11, <2>13, <2>14, <2>17, <2>18 DEF DataInv
<1> QED
  BY <1>1, <1>2, WriteBlockIs

-----------------------------------------------------------------------------
(* The invariant, and what it says *)

LEMMA DataInit ==
  ASSUME Init
  PROVE  DataInv
PROOF
<1>1. /\ used = {} /\ data = [b \in Block |-> NoBytes] /\ ptr = [b \in Block |-> NoBlocks]
      /\ addrs = [i \in Inode |-> [k \in 0..NDIRECT |-> 0]] /\ daddrs = addrs
      /\ size = [i \in Inode |-> 0] /\ dsize = size /\ lock = [i \in Inode |-> NoProc]
      /\ off = [o \in Open |-> 0] /\ w = [p \in Proc |-> Idle] /\ logged = [p \in Proc |-> {}]
      /\ saved = [i \in Inode |-> <<>>]
  BY DEF Init
<1>2. /\ BSIZE \in Nat /\ NDIRECT \in Nat /\ NINDIRECT \in Nat /\ NBLOCKS \in Nat /\ MAXFILE \in Nat
      /\ 0 \notin Block /\ MAXFILE * BSIZE \in Nat /\ Place \subseteq Nat
  BY DataSizes
<1>3. \A p \in Proc : w[p] = Idle /\ w[p].pc = "user"
  BY <1>1 DEF Idle
<1>4. DataTypes
  <2>1. NoBytes \in [0..BSIZE - 1 -> Nat] /\ NoBlocks \in [0..NINDIRECT - 1 -> 0..NBLOCKS]
    BY <1>2 DEF NoBytes, NoBlocks
  <2>2. [k \in 0..NDIRECT |-> 0] \in [0..NDIRECT -> 0..NBLOCKS]
    BY <1>2
  <2>3. Idle \in CallSet
    BY DEF Idle, CallSet
  <2>4. addrs \in [Inode -> [0..NDIRECT -> 0..NBLOCKS]]
    BY <1>1, <2>2
  <2>5. /\ data \in [Block -> [0..BSIZE - 1 -> Nat]]
        /\ ptr \in [Block -> [0..NINDIRECT - 1 -> 0..NBLOCKS]]
    BY <1>1, <2>1
  <2>6. /\ used \in SUBSET Block /\ size \in [Inode -> Nat]
        /\ lock \in [Inode -> Proc \cup {NoProc}]
        /\ off \in [Open -> Nat]
    BY <1>1
  <2>7. /\ w \in [Proc -> CallSet] /\ logged \in [Proc -> SUBSET (0..NBLOCKS)]
        /\ saved \in [Inode -> Seq(Nat)]
    BY <1>1, <2>3
  <2> QED
    BY <1>1, <2>4, <2>5, <2>6, <2>7 DEF DataTypes
<1>5. DataCalls
  BY <1>1, <1>3, FileDataAssumption DEF DataCalls, DataCall
<1>6. \A i \in Inode, n \in Place : Entry(i, n) = 0
  <2>1. \A i \in Inode, n \in 0..NDIRECT : addrs[i][n] = 0
    BY <1>1
  <2>2. \A n \in Place : n <= NDIRECT => n \in 0..NDIRECT
    BY <1>2
  <2>3. NDIRECT \in 0..NDIRECT
    BY <1>2
  <2> QED
    BY <2>1, <2>2, <2>3 DEF Entry
<1>7. OnePlace /\ UsedHeld
  <2>1. \A i \in Inode, n \in Place, b \in Block : ~Holds(i, n, b)
    BY <1>2, <1>6 DEF Holds
  <2> QED
    BY <1>1, <2>1 DEF OnePlace, UsedHeld
<1>8. NoHoles
  <2>1. \A bn \in 0..MAXFILE - 1 : ~(bn * BSIZE < 0)
    <3> SUFFICES ASSUME NEW bn \in 0..MAXFILE - 1 PROVE ~(bn * BSIZE < 0)
      OBVIOUS
    <3>1. PICK u \in Nat, v \in Nat : u = bn /\ v = BSIZE
      BY <1>2
    <3>2. u * v \in Nat
      OBVIOUS
    <3> QED
      BY <3>1, <3>2
  <2>2. \A i \in Inode : Filled(i, size[i])
    BY <1>1, <2>1 DEF Filled
  <2>3. /\ \A o \in Open : off[o] <= size[InodeOf[o]]
        /\ \A i \in Inode : size[i] <= MAXFILE * BSIZE
    <3>1. \A o \in Open : InodeOf[o] \in Inode
      BY FileDataAssumption
    <3>2. 0 <= MAXFILE * BSIZE
      BY <1>2
    <3> QED
      BY <1>1, <3>1, <3>2
  <2> QED
    BY <1>3, <2>2, <2>3 DEF NoHoles
<1>9. MapOnDisk
  BY <1>1, <1>3 DEF MapOnDisk
<1> QED
  BY <1>4, <1>5, <1>7, <1>8, <1>9 DEF DataInv

LEMMA DataStutter ==
  ASSUME DataInv, UNCHANGED vars
  PROVE  DataInv'
PROOF
<1>1. UNCHANGED <<used, data, ptr, addrs, size, daddrs, dsize, lock, off, w, logged, saved>>
  BY DEF vars
<1>2. DataTypes' /\ DataCalls' /\ MapOnDisk'
  BY <1>1 DEF DataInv, DataTypes, DataCalls, DataCall, ip, MapOnDisk
<1>3. OnePlace' /\ UsedHeld'
  BY <1>1 DEF DataInv, OnePlace, UsedHeld, Holds, Entry, Released, Truncs, ip
<1>4. NoHoles'
  BY <1>1 DEF DataInv, NoHoles, Filled, Entry, Truncating, ip
<1> QED
  BY <1>2, <1>3, <1>4 DEF DataInv

LEMMA DataStep ==
  ASSUME DataInv, [Next]_vars
  PROVE  DataInv'
PROOF
<1>1. ASSUME NEW p \in Proc, Step(p) PROVE DataInv'
  <2>1. CASE \E o \in Open, n \in ReadLength : fileread(p, o, n)
    BY <2>1, FilereadKeeps
  <2>2. CASE \E o \in Open, s \in Str : filewrite(p, o, s)
    BY <2>2, FilewriteKeeps
  <2>3. CASE writei(p)
    BY <2>3, WriteiKeeps
  <2>4. CASE write_block(p)
    BY <2>4, WriteBlockKeeps
  <2>5. CASE write_end(p)
    BY <2>5, WriteEndKeeps
  <2>6. CASE \E i \in Inode : remove(p, i)
    BY <2>6, RemoveKeeps
  <2>7. CASE trunc_block(p)
    BY <2>7, TruncBlockKeeps
  <2>8. CASE trunc_end(p)
    BY <2>8, TruncEndKeeps
  <2> QED
    BY <1>1, <2>1, <2>2, <2>3, <2>4, <2>5, <2>6, <2>7, <2>8 DEF Step
<1> QED
  BY <1>1, DataStutter DEF Next

(* The invariant behind the two results below. *)
THEOREM DataInvHolds == Spec => []DataInv
PROOF
  BY DataInit, DataStep, PTL DEF Spec

(* Owned and Slots, by the places of an inode *)
LEMMA OwnedIs ==
  ASSUME DataTypes, NEW i \in Inode
  PROVE  /\ \A b : b \in Owned(i) <=> b # 0 /\ \E n \in Place : Entry(i, n) = b
         /\ Slots(i) = {n \in Place : Entry(i, n) # 0}
PROOF
<1>1. /\ NDIRECT \in Nat /\ NINDIRECT \in Nat
  BY DataSizes
<1>2. PICK a : a = addrs[i][NDIRECT]
  OBVIOUS
<1>3. /\ \A n \in 0..NDIRECT : n \in Place /\ Entry(i, n) = addrs[i][n]
      /\ \A k \in 0..NINDIRECT - 1 : /\ NDIRECT + 1 + k \in Place
                                     /\ Entry(i, NDIRECT + 1 + k) = IF a = 0 THEN 0 ELSE ptr[a][k]
      /\ \A n \in Place : n \in 0..NDIRECT \/ \E k \in 0..NINDIRECT - 1 : n = NDIRECT + 1 + k
      /\ \A k \in 0..NINDIRECT - 1 : NDIRECT + 1 + k \notin 0..NDIRECT
  <2>1. \A n \in 0..NDIRECT : n \in Place /\ Entry(i, n) = addrs[i][n]
    BY <1>1 DEF Place, Entry
  <2>2. ASSUME NEW k \in 0..NINDIRECT - 1
        PROVE  /\ NDIRECT + 1 + k \in Place
               /\ Entry(i, NDIRECT + 1 + k) = IF a = 0 THEN 0 ELSE ptr[a][k]
               /\ NDIRECT + 1 + k \notin 0..NDIRECT
    <3>1. PICK n \in Nat : n = NDIRECT + 1 + k
      BY <1>1
    <3>2. n \in Place /\ ~(n <= NDIRECT) /\ n - NDIRECT - 1 = k /\ n \notin 0..NDIRECT
      BY <1>1, <3>1 DEF Place
    <3>3. Entry(i, n) = IF a = 0 THEN 0 ELSE ptr[a][k]
      BY <1>2, <3>2 DEF Entry
    <3> QED
      BY <3>1, <3>2, <3>3
  <2>3. ASSUME NEW n \in Place, n \notin 0..NDIRECT
        PROVE  \E k \in 0..NINDIRECT - 1 : n = NDIRECT + 1 + k
    <3>1. n - NDIRECT - 1 \in 0..NINDIRECT - 1 /\ n = NDIRECT + 1 + (n - NDIRECT - 1)
      BY <1>1, <2>3 DEF Place
    <3> QED
      BY <3>1
  <2> QED
    BY <2>1, <2>2, <2>3
<1>4. \A b : b \in Owned(i) <=> b # 0 /\ \E n \in Place : Entry(i, n) = b
  <2>1. CASE a = 0
    <3>1. Owned(i) = {addrs[i][k] : k \in 0..NDIRECT} \ {0}
      BY <1>2, <2>1 DEF Owned, Indirect
    <3> QED
      BY <1>3, <2>1, <3>1
  <2>2. CASE a # 0
    <3>1. Owned(i) = ({addrs[i][k] : k \in 0..NDIRECT} \cup {ptr[a][k] : k \in 0..NINDIRECT - 1}) \ {0}
      BY <1>2, <2>2 DEF Owned, Indirect
    <3> QED
      BY <1>3, <2>2, <3>1
  <2> QED
    BY <2>1, <2>2
<1>5. Slots(i) = {n \in Place : Entry(i, n) # 0}
  <2>1. CASE a = 0
    <3>1. Slots(i) = {k \in 0..NDIRECT : addrs[i][k] # 0}
      BY <1>2, <2>1 DEF Slots, Indirect
    <3> QED
      BY <1>3, <2>1, <3>1
  <2>2. CASE a # 0
    <3>1. \A n : n \in Slots(i) <=> \/ n \in 0..NDIRECT /\ addrs[i][n] # 0
                                    \/ \E k \in 0..NINDIRECT - 1 : ptr[a][k] # 0 /\ n = NDIRECT + 1 + k
      <4>1. PICK z : z = {y \in {a} \X (0..NINDIRECT - 1) : ptr[y[1]][y[2]] # 0}
        OBVIOUS
      <4>2. /\ \A y \in z : y[2] \in 0..NINDIRECT - 1 /\ ptr[a][y[2]] # 0
            /\ \A k \in 0..NINDIRECT - 1 : ptr[a][k] # 0 => <<a, k>> \in z /\ <<a, k>>[2] = k
        BY <4>1
      <4>3. Slots(i) = {k \in 0..NDIRECT : addrs[i][k] # 0} \cup {NDIRECT + 1 + y[2] : y \in z}
        BY <1>2, <2>2, <4>1 DEF Slots, Indirect
      <4> QED
        BY <4>2, <4>3
    <3> QED
      BY <1>3, <2>2, <3>1
  <2> QED
    BY <2>1, <2>2
<1> QED
  BY <1>4, <1>5

(* An inode that is not truncated has its blocks to itself, each once. *)
LEMMA InvOwned == DataInv => BlocksOwned
PROOF
<1> SUFFICES ASSUME DataInv PROVE BlocksOwned
  OBVIOUS
<1>0. DataTypes /\ OnePlace /\ UsedHeld
  BY DEF DataInv
<1>1. ASSUME NEW i \in Inode, ~Truncating(i), NEW b
      PROVE  b \in Owned(i) <=> b \in Block /\ \E n \in Place : Holds(i, n, b)
  <2>1. b \in Owned(i) <=> b # 0 /\ \E n \in Place : Entry(i, n) = b
    BY <1>0, OwnedIs
  <2>2. \A n \in Place : Entry(i, n) # 0 => Entry(i, n) \in Block /\ Holds(i, n, Entry(i, n))
    BY <1>0, <1>1, EntryUsed
  <2>3. 0 \notin Block
    BY DataSizes
  <2>4. \A n \in Place : Holds(i, n, b) => Entry(i, n) = b
    BY DEF Holds
  <2> QED
    BY <2>1, <2>2, <2>3, <2>4
<1>2. ASSUME NEW i \in Inode, ~Truncating(i) PROVE Owned(i) \subseteq used
  BY <1>0, <1>1, <1>2 DEF UsedHeld
<1>3. ASSUME NEW i \in Inode, ~Truncating(i) PROVE Cardinality(Owned(i)) = Cardinality(Slots(i))
  <2>1. PICK f : f = [n \in Slots(i) |-> Entry(i, n)]
    OBVIOUS
  <2>2. /\ Slots(i) = {n \in Place : Entry(i, n) # 0}
        /\ \A b : b \in Owned(i) <=> b # 0 /\ \E n \in Place : Entry(i, n) = b
    BY <1>0, OwnedIs
  <2>3. f \in [Slots(i) -> Owned(i)]
    BY <2>1, <2>2
  <2>4. \A m \in Slots(i), n \in Slots(i) : f[m] = f[n] => m = n
    <3> SUFFICES ASSUME NEW m \in Slots(i), NEW n \in Slots(i), f[m] = f[n] PROVE m = n
      OBVIOUS
    <3>1. m \in Place /\ n \in Place /\ Entry(i, m) = Entry(i, n) /\ Entry(i, m) # 0
      BY <2>1, <2>2
    <3>2. PICK b \in Block : b = Entry(i, m) /\ Holds(i, m, b) /\ Holds(i, n, b)
      BY <1>0, <1>3, <3>1, EntryUsed
    <3> QED
      BY <1>0, <3>1, <3>2, Zenon DEF OnePlace
  <2>5. \A b \in Owned(i) : \E n \in Slots(i) : f[n] = b
    BY <2>1, <2>2
  <2>6. f \in Bijection(Slots(i), Owned(i))
    BY <2>3, <2>4, <2>5 DEF Bijection, Injection, Surjection, IsInjective
  <2>7. ExistsBijection(Slots(i), Owned(i))
    BY <2>6 DEF ExistsBijection
  <2>8. IsFiniteSet(Slots(i))
    <3>1. IsFiniteSet(Place)
      BY FS_Interval, DataSizes DEF Place
    <3>2. Slots(i) \subseteq Place
      BY <2>2
    <3> QED
      BY <3>1, <3>2, FS_Subset
  <2> QED
    BY <2>7, <2>8, FS_Bijection
<1>4. ASSUME NEW i \in Inode, ~Truncating(i), NEW j \in Inode \ {i}, ~Truncating(j)
      PROVE  Owned(i) \cap Owned(j) = {}
  <2> SUFFICES ASSUME NEW b \in Owned(i), b \in Owned(j) PROVE FALSE
    OBVIOUS
  <2>1. b \in Block /\ \E n \in Place : Holds(i, n, b)
    BY <1>1, <1>4
  <2>2. \E n \in Place : Holds(j, n, b)
    BY <1>1, <1>4
  <2>3. i # j /\ j \in Inode
    BY <1>4
  <2> QED
    BY <1>0, <2>1, <2>2, <2>3, Zenon DEF OnePlace
<1>5. ASSUME \A j \in Inode : ~Truncating(j) PROVE used = UNION {Owned(j) : j \in Inode}
  <2>1. ASSUME NEW b \in used PROVE b \in UNION {Owned(j) : j \in Inode}
    <3>1. b \in Block
      BY <1>0, <2>1 DEF DataTypes
    <3>2. PICK j \in Inode, n \in Place : Holds(j, n, b)
      BY <1>0, <2>1, <3>1, Zenon DEF UsedHeld
    <3>3. b \in Owned(j)
      BY <1>1, <1>5, <3>1, <3>2
    <3> QED
      BY <3>3
  <2>2. \A j \in Inode : Owned(j) \subseteq used
    BY <1>2, <1>5
  <2> QED
    BY <2>1, <2>2
<1> QED
  BY <1>2, <1>3, <1>4, <1>5, Zenon DEF BlocksOwned

(* Files share no block, have none in two places and lose none, and bfree  *)
(* never meets a free block, for all sizes of disks and files and all      *)
(* writes: balloc, bmap, itrunc (fs.c).                                    *)
THEOREM BlocksKept == Spec => []BlocksOwned
PROOF
  BY DataInvHolds, InvOwned, PTL

(* What is on disk of an inode that nobody works on is what is in memory,  *)
(* although writei calls iupdate only if the file has grown (fs.c).        *)
THEOREM InodesWritten == Spec => []InodeOnDisk
PROOF
<1>1. DataInv => InodeOnDisk
  BY DEF DataInv, DataTypes, MapOnDisk, InodeOnDisk
<1> QED
  BY <1>1, DataInvHolds, PTL

-----------------------------------------------------------------------------
(* What transactions log, and what files contain *)

(* The blocks of a file that a round of writei has come to, and those that *)
(* a transaction has logged: these, the indirect block and the bitmap.     *)
Reached(p) ==
  {bn \in 0..MAXFILE - 1 : /\ off[w[p].o] < bn * BSIZE + BSIZE
                           /\ bn * BSIZE < off[w[p].o] + w[p].tot}
LogsOf(p) ==
  /\ w[p].pc \notin Busy => logged[p] = {}
  /\ w[p].pc = "trunc" => logged[p] \subseteq {Bitmap}
  /\ w[p].pc = "writei" =>
       logged[p] \subseteq {Bitmap, Entry(ip(p), NDIRECT)} \cup
                           {Entry(ip(p), PlaceOf(bn)) : bn \in Reached(p)}
DataLogs == \A p \in Proc : LogsOf(p)

(* What a call has still to write is the end of what it was given; what it *)
(* has written is in the file, and the rest of the file is as it was.      *)
Byte(i, k) == data[BlockOf(i, k)][k % BSIZE]
Pending(p) ==
  w[p].pc \in {"begin", "writei"} =>
    \E s \in Str : \E k \in 1..Len(s) + 1 : w[p].s = SubSeq(s, k, Len(s))
Overwritten(i, from, to, s) ==
  /\ saved[i] \in Seq(Nat) /\ Len(saved[i]) = size[i]
  /\ \A k \in 0..MAXFILE * BSIZE : k < size[i] \/ k < to =>
       Byte(i, k) = IF from <= k /\ k < to THEN s[k - from + 1] ELSE saved[i][k + 1]
BytesOf(p) ==
  /\ Pending(p)
  /\ w[p].pc = "writei" =>
       Overwritten(ip(p), off[w[p].o], off[w[p].o] + w[p].tot, w[p].s)
DataBytes == \A p \in Proc : BytesOf(p)

LEMMA BlockEntry ==
  ASSUME NEW i, NEW k \in Nat, NEW q \in Nat, q = k \div BSIZE
  PROVE  /\ Entry(i, PlaceOf(q)) # 0 => BlockOf(i, k) = Entry(i, PlaceOf(q))
         /\ Entry(i, PlaceOf(q))' # 0 => BlockOf(i, k)' = Entry(i, PlaceOf(q))'
PROOF
<1>1. NDIRECT \in Nat /\ BSIZE \in Nat \ {0}
  BY DataSizes
<1>2. CASE q < NDIRECT
  BY <1>1, <1>2 DEF BlockOf, Entry, PlaceOf
<1>3. CASE ~(q < NDIRECT)
  <2>1. PlaceOf(q) = q + 1 /\ q + 1 - NDIRECT - 1 = q - NDIRECT /\ ~(q + 1 <= NDIRECT)
    BY <1>1, <1>3 DEF PlaceOf
  <2>2. BlockOf(i, k) = ptr[addrs[i][NDIRECT]][q - NDIRECT]
    <3>1. BlockOf(i, k) = IF q < NDIRECT THEN addrs[i][q] ELSE ptr[addrs[i][NDIRECT]][q - NDIRECT]
      BY Zenon DEF BlockOf
    <3> QED
      BY <1>3, <3>1
  <2>3. BlockOf(i, k)' = ptr'[addrs'[i][NDIRECT]][q - NDIRECT]
    <3>1. BlockOf(i, k)' = IF q < NDIRECT THEN addrs'[i][q] ELSE ptr'[addrs'[i][NDIRECT]][q - NDIRECT]
      BY Zenon DEF BlockOf
    <3> QED
      BY <1>3, <3>1
  <2>4. Entry(i, PlaceOf(q)) # 0 => Entry(i, PlaceOf(q)) = ptr[addrs[i][NDIRECT]][q - NDIRECT]
    BY <1>1, <2>1 DEF Entry
  <2>5. Entry(i, PlaceOf(q))' # 0 => Entry(i, PlaceOf(q))' = ptr'[addrs'[i][NDIRECT]][q - NDIRECT]
    BY <1>1, <2>1 DEF Entry
  <2> QED
    BY <2>2, <2>3, <2>4, <2>5
<1> QED
  BY <1>2, <1>3

(* Steps that leave inode j alone *)
Still(j) ==
  /\ size'[j] = size[j] /\ lock'[j] = lock[j] /\ saved'[j] = saved[j]
  /\ \A o \in Open : InodeOf[o] = j => off'[o] = off[o]
  /\ \A n \in Place : Entry(j, n)' = Entry(j, n)
  /\ \A n \in Place, b \in Block : Holds(j, n, b) => data'[b] = data[b]
StillBut(p, S) ==
  /\ \A q \in Proc \ {p} : w'[q] = w[q] /\ logged'[q] = logged[q]
  /\ \A j \in Inode \ S : Still(j)

LEMMA KeepsByte ==
  ASSUME DataInv, NEW j \in Inode, ~Truncating(j), Still(j),
         NEW k \in Nat, NEW m \in Nat, k < m, m <= MAXFILE * BSIZE, Filled(j, m)
  PROVE  Byte(j, k)' = Byte(j, k)
PROOF
<1>1. DataTypes /\ UsedHeld
  BY DEF DataInv
<1>2. PICK q \in 0..MAXFILE - 1 : q = k \div BSIZE /\ PlaceOf(q) \in Place
                                  /\ BlockOf(j, k) = Entry(j, PlaceOf(q)) /\ BlockOf(j, k) \in Block
  BY <1>1, ByteBlock
<1>3. q \in Nat
  BY DataSizes
<1>4. PICK n \in Place, b \in Block : n = PlaceOf(q) /\ b = Entry(j, n) /\ b # 0
  BY <1>2, DataSizes
<1>5. Holds(j, n, b)
  BY <1>1, <1>4, EntryUsed
<1>6. data'[b] = data[b] /\ Entry(j, n)' = b
  BY <1>4, <1>5 DEF Still
<1>7. BlockOf(j, k)' = b /\ BlockOf(j, k) = b
  BY <1>2, <1>3, <1>4, <1>6, BlockEntry
<1> QED
  BY <1>6, <1>7 DEF Byte

LEMMA KeepsContents ==
  ASSUME DataInv, NEW j \in Inode, ~Truncating(j), Still(j)
  PROVE  Contents(j)' = Contents(j)
PROOF
<1>1. PICK m \in Nat : m = size[j] /\ m <= MAXFILE * BSIZE /\ Filled(j, m)
  BY DEF DataInv, DataTypes, NoHoles
<1>2. \A k \in 1..m : Byte(j, k - 1)' = Byte(j, k - 1)
  <2> SUFFICES ASSUME NEW k \in 1..m PROVE Byte(j, k - 1)' = Byte(j, k - 1)
    OBVIOUS
  <2>1. PICK h \in Nat : h = k - 1 /\ h < m
    OBVIOUS
  <2>2. Byte(j, h)' = Byte(j, h)
    BY <1>1, <2>1, KeepsByte
  <2> QED
    BY <2>1, <2>2
<1>3. m - 0 = m /\ \A k \in 1..m : 0 + k - 1 = k - 1
  OBVIOUS
<1>4. Contents(j) = [k \in 1..m |-> Byte(j, k - 1)]
  BY <1>1, <1>3 DEF Contents, Bytes, Byte
<1>5. Contents(j)' = [k \in 1..m |-> Byte(j, k - 1)']
  <2>1. size'[j] = m
    BY <1>1 DEF Still
  <2> QED
    BY <1>3, <2>1 DEF Contents, Bytes, Byte
<1> QED
  BY <1>2, <1>4, <1>5

(* A process that works on an inode has it to itself. *)
LEMMA OthersKept ==
  ASSUME DataInv, DataLogs, DataBytes, NEW p \in Proc, NEW S, StillBut(p, S),
         \A j \in S : j \in Inode /\ lock[j] \in {NoProc, p}, NEW q \in Proc \ {p}
  PROVE  LogsOf(q)' /\ BytesOf(q)'
PROOF
<1>1. DataTypes /\ DataCalls /\ NoHoles
  BY DEF DataInv
<1>2. w'[q] = w[q] /\ logged'[q] = logged[q] /\ ip(q)' = ip(q)
  BY DEF StillBut, ip
<1>3. LogsOf(q) /\ BytesOf(q)
  BY DEF DataLogs, DataBytes
<1>4. CASE w[q].pc \in Busy
  <2>1. PICK j \in Inode, o \in Open : /\ j = ip(q) /\ o = w[q].o /\ InodeOf[o] = j /\ lock[j] = q
                                       /\ off[o] \in Nat /\ w[q].tot \in Nat /\ size[j] \in Nat
    BY <1>1, <1>4, DataCaller DEF Busy
  <2>2. j \notin S
    BY <2>1, FileDataAssumption
  <2>3. Still(j)
    BY <2>2 DEF StillBut
  <2>4. off'[o] = off[o] /\ size'[j] = size[j] /\ saved'[j] = saved[j]
    BY <2>1, <2>3 DEF Still
  <2>5. LogsOf(q)'
    <3>1. \A n \in Place : Entry(j, n)' = Entry(j, n)
      BY <2>3 DEF Still
    <3>2. NDIRECT \in Place /\ \A bn \in 0..MAXFILE - 1 : PlaceOf(bn) \in Place
      BY DataSizes DEF Place, PlaceOf
    <3>3. Reached(q)' = Reached(q)
      BY <1>2, <2>1, <2>4 DEF Reached
    <3>4. Reached(q) \subseteq 0..MAXFILE - 1
      BY DEF Reached
    <3>6. Entry(ip(q), NDIRECT)' = Entry(ip(q), NDIRECT)
      BY <1>2, <2>1, <3>1, <3>2
    <3>7. {Entry(ip(q), PlaceOf(bn)) : bn \in Reached(q)}' = {Entry(ip(q), PlaceOf(bn)) : bn \in Reached(q)}
      <4>1. \A bn \in Reached(q) : Entry(ip(q), PlaceOf(bn))' = Entry(ip(q), PlaceOf(bn))
        BY <1>2, <2>1, <3>1, <3>2, <3>4
      <4> QED
        BY <3>3, <4>1, Zenon
    <3> QED
      BY <1>2, <1>3, <3>6, <3>7 DEF LogsOf
  <2>6. BytesOf(q)'
    <3>1. Pending(q)'
      BY <1>2, <1>3 DEF BytesOf, Pending
    <3>2. ASSUME w[q].pc = "writei"
          PROVE  Overwritten(ip(q), off[w[q].o], off[w[q].o] + w[q].tot, w[q].s)'
      <4>1. PICK a \in Nat, b \in Nat : a = off[o] /\ b = off[o] + w[q].tot
        BY <2>1
      <4>2. Overwritten(j, a, b, w[q].s)
        BY <1>3, <2>1, <3>2, <4>1 DEF BytesOf
      <4>3. ~Truncating(j)
        BY <1>1, <2>1, <3>2, DataCaller DEF Truncating, Busy
      <4>4. Filled(j, size[j]) /\ Filled(j, b) /\ size[j] <= MAXFILE * BSIZE
        BY <1>1, <2>1, <3>2, <4>1, <4>3 DEF NoHoles
      <4>5. b <= MAXFILE * BSIZE
        <5>1. /\ w[q].tot <= w[q].n /\ a + w[q].n <= MAXFILE * BSIZE /\ w[q].n \in Nat
          BY <1>1, <2>1, <3>2, <4>1, DataCaller DEF DataCalls, DataCall
        <5> QED
          BY <2>1, <4>1, <5>1, DataSizes
      <4>6. ASSUME NEW k \in 0..MAXFILE * BSIZE, k < size[j] \/ k < b PROVE Byte(j, k)' = Byte(j, k)
        <5>1. k \in Nat
          BY DataSizes
        <5> QED
          BY <2>1, <2>3, <4>3, <4>4, <4>5, <4>6, <5>1, KeepsByte
      <4>7. Overwritten(j, a, b, w[q].s)'
        <5>1. saved'[j] \in Seq(Nat) /\ Len(saved'[j]) = size'[j]
          BY <2>4, <4>2 DEF Overwritten
        <5>2. ASSUME NEW k \in 0..MAXFILE * BSIZE, k < size'[j] \/ k < b
              PROVE  Byte(j, k)' = IF a <= k /\ k < b THEN w'[q].s[k - a + 1] ELSE saved'[j][k + 1]
          <6>1. Byte(j, k)' = Byte(j, k)
            BY <2>4, <4>6, <5>2
          <6>2. Byte(j, k) = IF a <= k /\ k < b THEN w[q].s[k - a + 1] ELSE saved[j][k + 1]
            BY <2>4, <4>2, <5>2 DEF Overwritten
          <6> QED
            BY <1>2, <2>4, <6>1, <6>2
        <5> QED
          BY <5>1, <5>2 DEF Overwritten
      <4> QED
        BY <1>2, <2>1, <2>4, <4>1, <4>7
    <3> QED
      BY <1>2, <3>1, <3>2 DEF BytesOf
  <2> QED
    BY <2>5, <2>6
<1>5. CASE w[q].pc \notin Busy
  BY <1>2, <1>3, <1>5 DEF LogsOf, BytesOf, Pending, Busy
<1> QED
  BY <1>4, <1>5

(* A step that writes no block *)
LEMMA QuietStill ==
  ASSUME DataTypes, NEW p \in Proc, NEW i \in Inode, NEW x, NEW l, NEW v,
         w' = [w EXCEPT ![p] = x], lock' = [lock EXCEPT ![i] = l], saved' = [saved EXCEPT ![i] = v],
         data' = data, ptr' = ptr,
         \A j \in Inode \ {i} : addrs'[j] = addrs[j] /\ size'[j] = size[j],
         \A o \in Open : InodeOf[o] # i => off'[o] = off[o],
         \A q \in Proc \ {p} : logged'[q] = logged[q]
  PROVE  StillBut(p, {i})
PROOF
<1>1. \A q \in Proc \ {p} : w'[q] = w[q]
  BY DEF DataTypes
<1>2. \A j \in Inode \ {i} : lock'[j] = lock[j] /\ saved'[j] = saved[j]
  BY DEF DataTypes
<1>3. ASSUME NEW j \in Inode \ {i} PROVE Still(j)
  <2>1. \A n \in Place : Entry(j, n)' = Entry(j, n)
    BY DEF Entry
  <2> QED
    BY <1>2, <2>1 DEF Still
<1> QED
  BY <1>1, <1>3 DEF StillBut

(* What a step does to files, as sequences of bytes *)
Content(i) == IF lock[i] = NoProc THEN Contents(i) ELSE saved[i]
NoChange(S) == \A j \in Inode \ S : Content(j)' = Content(j)
Reads(o, n) ==
  /\ off' = [off EXCEPT ![o] = BF!Least(off[o] + n, Len(Content(InodeOf[o])))] /\ NoChange({})
Puts(o, t) ==
  /\ off[o] + Len(t) <= MAXFILE * BSIZE /\ off' = [off EXCEPT ![o] = off[o] + Len(t)]
  /\ Content(InodeOf[o])' = BF!Overlay(Content(InodeOf[o]), off[o], t) /\ NoChange({InodeOf[o]})
Empties(i) ==
  /\ Content(i)' = <<>> /\ NoChange({i})
  /\ off' = [o \in Open |-> IF InodeOf[o] = i THEN 0 ELSE off[o]]
FileStep ==
  \/ off' = off /\ NoChange({})
  \/ \E o \in Open, n \in 0..MAXFILE * BSIZE : Reads(o, n)
  \/ \E o \in Open, t \in Pieces : Puts(o, t)
  \/ \E i \in Inode : Empties(i)
Steady(p) == \E S \in SUBSET Inode : StillBut(p, S) /\ \A j \in S : lock[j] \in {NoProc, p}
Good(p) == LogsOf(p)' /\ BytesOf(p)' /\ FileStep /\ Steady(p)

LEMMA StillContent ==
  ASSUME DataInv, NEW p, NEW S, StillBut(p, S)
  PROVE  NoChange(S)
PROOF
<1> SUFFICES ASSUME NEW j \in Inode \ S PROVE Content(j)' = Content(j)
  BY DEF NoChange
<1>1. Still(j)
  BY DEF StillBut
<1>2. lock'[j] = lock[j] /\ saved'[j] = saved[j]
  BY <1>1 DEF Still
<1>3. CASE lock[j] = NoProc
  <2>1. ~Truncating(j)
    BY <1>3, NobodyAt DEF DataInv
  <2>2. Contents(j)' = Contents(j)
    BY <1>1, <2>1, KeepsContents
  <2> QED
    BY <1>2, <1>3, <2>2 DEF Content
<1>4. CASE lock[j] # NoProc
  BY <1>2, <1>4 DEF Content
<1> QED
  BY <1>3, <1>4

(* A process without a lock, before and after *)
LEMMA IdleGood ==
  ASSUME DataTypes, DataLogs, NEW p \in Proc, NEW x, w' = [w EXCEPT ![p] = x], x.pc = "user",
         logged'[p] = {}
  PROVE  LogsOf(p)' /\ BytesOf(p)'
PROOF
<1>1. w'[p] = x
  BY DEF DataTypes
<1> QED
  BY <1>1 DEF LogsOf, BytesOf, Pending, Busy

LEMMA FilereadGood ==
  ASSUME DataInv, DataLogs, NEW p \in Proc, NEW o \in Open, NEW n \in ReadLength, fileread(p, o, n)
  PROVE  Good(p)
PROOF
<1>0. DataTypes /\ DataCalls /\ NoHoles
  BY DEF DataInv
<1>1. PICK i \in Inode : i = InodeOf[o]
  BY FileDataAssumption
<1>2. PICK m : m = IF off[o] + n > size[i] THEN size[i] - off[o] ELSE n
  OBVIOUS
<1>3. /\ w[p].pc = "user" /\ lock[i] = NoProc /\ off[o] <= size[i]
      /\ off' = [off EXCEPT ![o] = off[o] + m]
      /\ UNCHANGED <<blocks, inodes, lock, w, logged, saved>>
  BY <1>0, <1>1, <1>2 DEF fileread, At, DataTypes
<1>4. /\ data' = data /\ ptr' = ptr /\ addrs' = addrs /\ size' = size /\ lock' = lock /\ w' = w
      /\ logged' = logged /\ saved' = saved
  BY <1>3 DEF blocks, inodes
<1>5. n \in Nat /\ off[o] \in Nat /\ size[i] \in Nat
  BY <1>0, FileDataAssumption DEF DataTypes
<1>6. LogsOf(p)' /\ BytesOf(p)'
  <2>1. w' = [w EXCEPT ![p] = w[p]]
    BY <1>0, <1>4 DEF DataTypes
  <2>2. logged'[p] = {}
    BY <1>3, <1>4 DEF DataLogs, LogsOf, Busy
  <2> QED
    BY <1>0, <1>3, <2>1, <2>2, IdleGood
<1>7. StillBut(p, {i})
  <2>1. \A u \in Open : InodeOf[u] # i => off'[u] = off[u]
    BY <1>0, <1>1, <1>3 DEF DataTypes
  <2>2. /\ w' = [w EXCEPT ![p] = w[p]] /\ lock' = [lock EXCEPT ![i] = lock[i]]
        /\ saved' = [saved EXCEPT ![i] = saved[i]]
    BY <1>0, <1>4 DEF DataTypes
  <2> QED
    BY <1>0, <1>4, <2>1, <2>2, QuietStill
<1>8. Steady(p)
  BY <1>3, <1>7 DEF Steady
<1>9. NoChange({})
  <2>1. Contents(i)' = Contents(i)
    BY <1>4 DEF Contents, Bytes, BlockOf
  <2>2. Content(i)' = Content(i)
    BY <1>4, <2>1 DEF Content
  <2>3. NoChange({i})
    BY <1>7, StillContent
  <2> QED
    BY <2>2, <2>3 DEF NoChange
<1>10. Len(Content(i)) = size[i] /\ size[i] <= MAXFILE * BSIZE
  <2>1. Filled(i, size[i]) /\ size[i] <= MAXFILE * BSIZE
    BY <1>0, <1>3, NobodyAt DEF NoHoles
  <2>2. Len(Contents(i)) = size[i]
    BY <1>0, <2>1, ContentsAre
  <2> QED
    BY <1>3, <2>1, <2>2 DEF Content
<1>11. PICK h \in Nat : h = MAXFILE * BSIZE
  BY DataSizes
<1>12. PICK z \in Nat : z = IF n <= h THEN n ELSE h
  BY <1>5, <1>11
<1>13. z \in 0..h /\ off[o] + m = BF!Least(off[o] + z, size[i])
  BY <1>2, <1>3, <1>5, <1>10, <1>11, <1>12 DEF BF!Least
<1>14. Reads(o, z)
  BY <1>1, <1>3, <1>9, <1>10, <1>13 DEF Reads
<1> QED
  BY <1>6, <1>8, <1>11, <1>13, <1>14 DEF Good, FileStep

(* A process that begins a call, or gives it up *)
LEMMA AsideGood ==
  ASSUME DataInv, DataLogs, NEW p \in Proc, NEW x, w' = [w EXCEPT ![p] = x],
         w[p].pc \notin Busy, x.pc \notin Busy,
         x.pc = "begin" => \E s \in Str : \E k \in 1..Len(s) + 1 : x.s = SubSeq(s, k, Len(s)),
         UNCHANGED <<blocks, inodes, lock, off, logged, saved>>
  PROVE  Good(p)
PROOF
<1>0. DataTypes /\ DataCalls /\ NoHoles
  BY DEF DataInv
<1>1. /\ data' = data /\ ptr' = ptr /\ addrs' = addrs /\ size' = size /\ lock' = lock /\ off' = off
      /\ logged' = logged /\ saved' = saved
  BY DEF blocks, inodes
<1>2. w'[p] = x /\ \A q \in Proc \ {p} : w'[q] = w[q]
  BY <1>0 DEF DataTypes
<1>3. LogsOf(p)' /\ BytesOf(p)'
  BY <1>1, <1>2 DEF DataLogs, LogsOf, BytesOf, Pending, Busy
<1>4. StillBut(p, {})
  <2>1. \A j \in Inode, n \in Place : Entry(j, n)' = Entry(j, n)
    BY <1>1, QuietEntries
  <2>2. \A j \in Inode : Still(j)
    BY <1>1, <2>1 DEF Still
  <2> QED
    BY <1>1, <1>2, <2>2 DEF StillBut
<1>5. NoChange({})
  BY <1>4, StillContent
<1>6. Steady(p)
  BY <1>4 DEF Steady
<1> QED
  BY <1>1, <1>3, <1>5, <1>6 DEF Good, FileStep

LEMMA FilewriteGood ==
  ASSUME DataInv, DataLogs, NEW p \in Proc, NEW o \in Open, NEW s \in Str, filewrite(p, o, s)
  PROVE  Good(p)
PROOF
<1>1. PICK x : x = [Idle EXCEPT !.pc = "begin", !.o = o, !.s = s]
  OBVIOUS
<1>2. w' = [w EXCEPT ![p] = x] /\ UNCHANGED <<blocks, inodes, lock, off, logged, saved>>
      /\ w[p].pc = "user"
  BY <1>1 DEF filewrite, go, At
<1>3. x.pc = "begin" /\ x.s = s
  BY <1>1 DEF Idle
<1>4. s = SubSeq(s, 1, Len(s)) /\ 1 \in 1..Len(s) + 1
  <2>1. s \in Seq(Nat) /\ Len(s) \in Nat
    BY FileDataAssumption
  <2> QED
    BY <2>1
<1> QED
  BY <1>2, <1>3, <1>4, AsideGood DEF Busy

LEMMA RemoveGood ==
  ASSUME DataInv, DataLogs, NEW p \in Proc, NEW i \in Inode, remove(p, i)
  PROVE  Good(p)
PROOF
<1>0. DataTypes /\ DataCalls /\ NoHoles
  BY DEF DataInv
<1>1. PICK o : o = CHOOSE u \in Open : InodeOf[u] = i
  OBVIOUS
<1>2. PICK x : x = [Idle EXCEPT !.pc = "trunc", !.o = o]
  OBVIOUS
<1>3. /\ w[p].pc = "user" /\ lock[i] = NoProc
      /\ w' = [w EXCEPT ![p] = x] /\ lock' = [lock EXCEPT ![i] = p]
      /\ saved' = [saved EXCEPT ![i] = Contents(i)]
      /\ UNCHANGED <<blocks, inodes, off, logged>>
  BY <1>1, <1>2 DEF remove, At, go
<1>4. /\ data' = data /\ ptr' = ptr /\ addrs' = addrs /\ size' = size /\ off' = off
      /\ logged' = logged
  BY <1>3 DEF blocks, inodes
<1>5. x.pc = "trunc" /\ w'[p] = x
  BY <1>0, <1>2, <1>3 DEF Idle, DataTypes
<1>6. LogsOf(p)' /\ BytesOf(p)'
  BY <1>3, <1>4, <1>5 DEF DataLogs, LogsOf, BytesOf, Pending, Busy
<1>7. StillBut(p, {i})
  BY <1>0, <1>3, <1>4, QuietStill
<1>8. Steady(p)
  BY <1>3, <1>7 DEF Steady
<1>9. NoChange({})
  <2>1. Content(i)' = Content(i)
    <3>1. lock'[i] = p /\ saved'[i] = Contents(i) /\ p # NoProc
      BY <1>0, <1>3, FileDataAssumption DEF DataTypes
    <3> QED
      BY <1>3, <3>1 DEF Content
  <2>2. NoChange({i})
    BY <1>7, StillContent
  <2> QED
    BY <2>1, <2>2 DEF NoChange
<1> QED
  BY <1>4, <1>6, <1>8, <1>9 DEF Good, FileStep

LEMMA TruncBlockGood ==
  ASSUME DataInv, DataLogs, NEW p \in Proc, trunc_block(p)
  PROVE  Good(p)
PROOF
<1>0. DataTypes /\ DataCalls /\ NoHoles
  BY DEF DataInv
<1>1. w[p].pc = "trunc"
  BY DEF trunc_block, At
<1>2. PICK i \in Inode : i = ip(p) /\ lock[i] = p
  BY <1>0, <1>1, DataCaller DEF Busy
<1>3. PICK x : x = [w[p] EXCEPT !.tot = @ + 1]
  OBVIOUS
<1>4. /\ logged' = logged \/ logged' = [logged EXCEPT ![p] = logged[p] \cup {Bitmap}]
      /\ w' = [w EXCEPT ![p] = x] /\ UNCHANGED <<data, ptr, size, lock, off, saved>>
  <2>1. logged' = logged \/ logged' = [logged EXCEPT ![p] = logged[p] \cup {Bitmap}]
    BY <1>0 DEF trunc_block, bfree, DataTypes
  <2> QED
    BY <1>3, <2>1 DEF trunc_block, go
<1>5. \A j \in Inode \ {i} : addrs'[j] = addrs[j]
  BY <1>0, <1>2 DEF trunc_block, DataTypes
<1>6. x.pc = "trunc" /\ w'[p] = x
  <2>1. w[p] \in CallSet
    BY <1>0 DEF DataTypes
  <2> QED
    BY <1>0, <1>1, <1>3, <1>4, <2>1 DEF CallSet, DataTypes
<1>7. logged'[p] \subseteq {Bitmap} /\ \A q \in Proc \ {p} : logged'[q] = logged[q]
  <2>1. logged[p] \subseteq {Bitmap}
    BY <1>1 DEF DataLogs, LogsOf
  <2> QED
    BY <1>0, <1>4, <2>1 DEF DataTypes
<1>8. LogsOf(p)' /\ BytesOf(p)'
  BY <1>6, <1>7 DEF LogsOf, BytesOf, Pending, Busy
<1>9. StillBut(p, {i})
  <2>1. lock' = [lock EXCEPT ![i] = lock[i]] /\ saved' = [saved EXCEPT ![i] = saved[i]]
    BY <1>0, <1>4 DEF DataTypes
  <2> QED
    BY <1>0, <1>4, <1>5, <1>7, <2>1, QuietStill
<1>10. Steady(p)
  BY <1>2, <1>9 DEF Steady
<1>11. NoChange({})
  <2>1. Content(i)' = Content(i)
    BY <1>2, <1>4, FileDataAssumption DEF Content
  <2>2. NoChange({i})
    BY <1>9, StillContent
  <2> QED
    BY <2>1, <2>2 DEF NoChange
<1> QED
  BY <1>4, <1>8, <1>10, <1>11 DEF Good, FileStep

LEMMA TruncEndGood ==
  ASSUME DataInv, DataLogs, NEW p \in Proc, trunc_end(p)
  PROVE  Good(p)
PROOF
<1>0. DataTypes /\ DataCalls /\ NoHoles
  BY DEF DataInv
<1>1. w[p].pc = "trunc"
  BY DEF trunc_end, At
<1>2. PICK i \in Inode : i = ip(p) /\ lock[i] = p /\ Idle.pc = "user"
  BY <1>0, <1>1, DataCaller DEF Busy
<1>3. PICK a : a = [k \in 0..NDIRECT |-> 0]
  OBVIOUS
<1>4. /\ addrs' = [addrs EXCEPT ![i] = a] /\ size' = [size EXCEPT ![i] = 0]
      /\ lock' = [lock EXCEPT ![i] = NoProc] /\ saved' = [saved EXCEPT ![i] = <<>>]
      /\ off' = [o \in Open |-> IF InodeOf[o] = i THEN 0 ELSE off[o]]
      /\ logged' = [logged EXCEPT ![p] = {}]
      /\ w' = [w EXCEPT ![p] = Idle] /\ UNCHANGED <<data, ptr>>
  BY <1>2, <1>3 DEF trunc_end, go
<1>5. /\ size'[i] = 0 /\ lock'[i] = NoProc /\ logged'[p] = {}
      /\ \A q \in Proc \ {p} : logged'[q] = logged[q]
      /\ \A j \in Inode \ {i} : addrs'[j] = addrs[j] /\ size'[j] = size[j]
      /\ \A o \in Open : InodeOf[o] # i => off'[o] = off[o]
  BY <1>0, <1>4 DEF DataTypes
<1>6. LogsOf(p)' /\ BytesOf(p)'
  BY <1>0, <1>2, <1>4, <1>5, IdleGood
<1>7. StillBut(p, {i})
  BY <1>0, <1>4, <1>5, QuietStill
<1>8. Steady(p)
  BY <1>2, <1>7 DEF Steady
<1>9. Contents(i)' = <<>>
  BY <1>5 DEF Contents, Bytes
<1>10. Empties(i)
  <2>1. NoChange({i})
    BY <1>7, StillContent
  <2> QED
    BY <1>4, <1>5, <1>9, <2>1 DEF Empties, Content
<1> QED
  BY <1>6, <1>8, <1>10 DEF Good, FileStep

LEMMA WriteiGood ==
  ASSUME DataInv, DataLogs, DataBytes, NEW p \in Proc, writei(p)
  PROVE  Good(p)
PROOF
<1>0. DataTypes /\ DataCalls /\ NoHoles
  BY DEF DataInv
<1>1. w[p].pc = "begin" /\ lock[ip(p)] = NoProc
  BY DEF writei, At
<1>2. /\ w[p] \in CallSet /\ w[p].o \in Open /\ ip(p) \in Inode /\ off[w[p].o] \in Nat
      /\ size[ip(p)] \in Nat /\ Idle.pc = "user"
  BY <1>0, <1>1, DataCaller
<1>3. PICK i \in Inode, o \in Open : i = ip(p) /\ o = w[p].o
  BY <1>2
<1>4. PICK n : n = Chunk(w[p].s)
  OBVIOUS
<1>5. CASE off[w[p].o] > size[i] \/ off[w[p].o] + n > MAXFILE * BSIZE
  <2>1. w' = [w EXCEPT ![p] = Idle] /\ UNCHANGED <<blocks, inodes, lock, off, logged, saved>>
    BY <1>3, <1>4, <1>5 DEF writei, go
  <2> QED
    BY <1>1, <1>2, <2>1, AsideGood DEF Busy
<1>6. CASE ~(off[w[p].o] > size[i] \/ off[w[p].o] + n > MAXFILE * BSIZE)
  <2>1. PICK x : x = [w[p] EXCEPT !.pc = "writei", !.n = n]
    OBVIOUS
  <2>2. /\ w' = [w EXCEPT ![p] = x] /\ lock' = [lock EXCEPT ![i] = p]
        /\ saved' = [saved EXCEPT ![i] = Contents(i)]
        /\ UNCHANGED <<blocks, inodes, off, logged>>
    BY <1>3, <1>4, <1>6, <2>1 DEF writei, go
  <2>3. /\ data' = data /\ ptr' = ptr /\ addrs' = addrs /\ size' = size /\ off' = off
        /\ logged' = logged
    BY <2>2 DEF blocks, inodes
  <2>4. /\ w'[p] = x /\ x.pc = "writei" /\ x.o = o /\ x.s = w[p].s /\ x.tot = 0
    <3>1. w[p].tot = 0
      BY <1>0, <1>1 DEF DataCalls, DataCall
    <3>2. w'[p] = x
      BY <1>0, <2>2 DEF DataTypes
    <3> QED
      BY <1>2, <1>3, <2>1, <3>1, <3>2 DEF CallSet
  <2>5. lock'[i] = p /\ saved'[i] = Contents(i) /\ p # NoProc
    BY <1>0, <2>2, FileDataAssumption DEF DataTypes
  <2>6. Filled(i, size[i]) /\ size[i] <= MAXFILE * BSIZE
    BY <1>0, <1>1, <1>3, NobodyAt DEF NoHoles
  <2>7. /\ Contents(i) \in Seq(Nat) /\ Len(Contents(i)) = size[i]
        /\ \A k \in 1..size[i] : Contents(i)[k] = data[BlockOf(i, k - 1)][(k - 1) % BSIZE]
    BY <1>0, <2>6, ContentsAre
  <2>8. LogsOf(p)'
    <3>1. logged'[p] = {}
      BY <1>1, <2>3 DEF DataLogs, LogsOf, Busy
    <3> QED
      BY <2>4, <3>1 DEF LogsOf, Busy
  <2>9. BytesOf(p)'
    <3>1. Pending(p)'
      BY <1>1, <2>4 DEF DataBytes, BytesOf, Pending
    <3>2. PICK a \in Nat : a = off[o]
      BY <1>2, <1>3
    <3>3. Overwritten(i, a, a, x.s)'
      <4>1. ASSUME NEW k \in 0..MAXFILE * BSIZE, k < size[i] \/ k < a
            PROVE  Byte(i, k)' = IF a <= k /\ k < a THEN x.s[k - a + 1] ELSE saved'[i][k + 1]
        <5>1. k \in Nat /\ a <= size[i] /\ size[i] \in Nat
          BY <1>0, <1>2, <1>3, <3>2, DataSizes DEF NoHoles, ip
        <5>2. k < size[i] /\ ~(a <= k /\ k < a)
          BY <4>1, <5>1
        <5>3. PICK h \in 1..size[i] : h = k + 1 /\ h - 1 = k
          BY <5>1, <5>2
        <5>4. Contents(i)[h] = data[BlockOf(i, k)][k % BSIZE]
          BY <2>7, <5>3
        <5>5. Byte(i, k)' = data[BlockOf(i, k)][k % BSIZE]
          BY <2>3 DEF Byte, BlockOf
        <5> QED
          BY <2>5, <5>2, <5>3, <5>4, <5>5
      <4> QED
        BY <2>3, <2>5, <2>7, <4>1 DEF Overwritten
    <3>4. ip(p)' = i /\ off'[w'[p].o] = a /\ off'[w'[p].o] + w'[p].tot = a
      BY <1>3, <2>3, <2>4, <3>2 DEF ip
    <3> QED
      BY <2>4, <3>1, <3>3, <3>4 DEF BytesOf
  <2>10. StillBut(p, {i})
    BY <1>0, <2>2, <2>3, QuietStill
  <2>11. Steady(p)
    BY <1>1, <1>3, <2>10 DEF Steady
  <2>12. NoChange({})
    <3>1. Content(i)' = Content(i)
      BY <1>1, <1>3, <2>5 DEF Content
    <3>2. NoChange({i})
      BY <2>10, StillContent
    <3> QED
      BY <3>1, <3>2 DEF NoChange
  <2> QED
    BY <2>3, <2>8, <2>9, <2>11, <2>12 DEF Good, FileStep
<1> QED
  BY <1>5, <1>6

(* The blocks that bmap adds, and those that were there *)
LEMMA MapEntries ==
  ASSUME DataTypes, OnePlace, UsedHeld, NEW i \in Inode, ~Truncating(i), NEW bn \in 0..MAXFILE - 1,
         NEW x, Maps(i, bn, x), MapTypes(i, x), Extends(i, x)
  PROVE  /\ Entry(i, PlaceOf(bn))' = x.block
         /\ \A n \in Place : Entry(i, n) # 0 => Entry(i, n)' = Entry(i, n)
         /\ x.new # {} /\ x.ind # 0 => Entry(i, NDIRECT)' = x.ind
         /\ Entry(i, PlaceOf(bn)) # 0 => x.new = {} /\ x.block = Entry(i, PlaceOf(bn))
         /\ x.block \in x.new \/ (x.new = {} /\ Holds(i, PlaceOf(bn), x.block))
PROOF
<1>1. PlaceOf(bn) \in Place /\ NDIRECT \in Place /\ NDIRECT # PlaceOf(bn) /\ NDIRECT <= NDIRECT
      /\ (bn < NDIRECT => PlaceOf(bn) = bn)
      /\ (bn >= NDIRECT => PlaceOf(bn) = bn + 1 /\ ~(bn + 1 <= NDIRECT))
  BY DataSizes DEF PlaceOf, Place
<1>2. \A m \in Place : Entry(i, m)' = Entered(i, bn, x, m)
  BY MapOwn
<1>3. CASE Found(i, bn, x)
  <2>1. /\ Entry(i, PlaceOf(bn)) # 0 /\ x.new = {} /\ x.block = Entry(i, PlaceOf(bn))
    BY <1>3 DEF Found
  <2>2. \A m \in Place : Entry(i, m)' = Entry(i, m)
    BY <1>2, <1>3 DEF Entered
  <2>3. Holds(i, PlaceOf(bn), x.block)
    BY <1>1, <2>1, EntryUsed
  <2> QED
    BY <1>1, <2>1, <2>2, <2>3
<1>4. CASE ~Found(i, bn, x)
  <2>1. Entry(i, PlaceOf(bn)) = 0 /\ x.block \in x.new
    BY <1>1, <1>4 DEF Maps, Direct, ViaOld, ViaNew, Entry
  <2>2. ViaNew(i, bn, x) => Entry(i, NDIRECT) = 0
    BY <1>1 DEF ViaNew, Entry
  <2>3. \A m \in Place : Entry(i, m)' = IF m = PlaceOf(bn) THEN x.block
                                        ELSE IF m = NDIRECT
                                        /\ ViaNew(i, bn, x) THEN x.ind ELSE Entry(i, m)
    BY <1>2, <1>4 DEF Entered
  <2>4. x.ind # 0 => Entry(i, NDIRECT)' = x.ind
    <3>1. CASE ViaNew(i, bn, x)
      BY <1>1, <2>3, <3>1
    <3>2. CASE ViaOld(i, bn, x)
      <4>1. x.ind = Entry(i, NDIRECT)
        BY <1>1, <3>2 DEF ViaOld, Entry
      <4>2. ~ViaNew(i, bn, x)
        BY <3>2 DEF ViaOld, ViaNew
      <4> QED
        BY <1>1, <2>3, <4>1, <4>2
    <3>3. CASE Direct(i, bn, x)
      BY <3>3 DEF Direct
    <3> QED
      BY <1>4, <3>1, <3>2, <3>3 DEF Maps
  <2> QED
    BY <1>1, <2>1, <2>2, <2>3, <2>4
<1> QED
  BY <1>3, <1>4

(* Other blocks than the one written *)
LEMMA MapApart ==
  ASSUME DataTypes, OnePlace, UsedHeld, NEW i \in Inode, NEW bn \in 0..MAXFILE - 1,
         NEW x, MapTypes(i, x), x.block \in x.new \/ (x.new = {} /\ Holds(i, PlaceOf(bn), x.block)),
         NEW j \in Inode, NEW n \in Place, NEW b \in Block, Holds(j, n, b), j # i \/ n # PlaceOf(bn)
  PROVE  b # x.block
PROOF
<1>1. b \in used
  BY Zenon DEF UsedHeld
<1>2. x.new \cap used = {}
  BY DEF MapTypes
<1>3. PICK l \in Place : l = PlaceOf(bn)
  BY DataSizes DEF PlaceOf, Place
<1>4. CASE x.block \in x.new
  BY <1>1, <1>2, <1>4
<1>5. CASE Holds(i, PlaceOf(bn), x.block)
  <2> SUFFICES ASSUME b = x.block PROVE FALSE
    OBVIOUS
  <2>1. Holds(i, l, b)
    BY <1>3, <1>5
  <2>2. i = j /\ l = n
    BY <2>1, Zenon DEF OnePlace
  <2> QED
    BY <1>3, <2>2
<1> QED
  BY <1>4, <1>5

(* Bytes of the same block, and of others *)
LEMMA SameBlock ==
  ASSUME NEW z \in Nat, NEW k \in Nat, NEW m \in Nat, m <= BSIZE - (z % BSIZE),
         NEW bn \in Nat, bn = z \div BSIZE, NEW q \in Nat, q = k \div BSIZE
  PROVE  /\ q # bn => k < z \/ k >= z + m
         /\ q = bn => k - z = (k % BSIZE) - (z % BSIZE) /\ k % BSIZE \in 0..BSIZE - 1
                      /\ z % BSIZE \in 0..BSIZE - 1
PROOF
<1>1. PICK s \in Nat \ {0} : s = BSIZE
  BY DataSizes
<1>2. PICK a \in 0..s - 1 : a = z % s /\ z = (s * (z \div s)) + a
  BY DivMod
<1>3. PICK c \in 0..s - 1 : c = k % s /\ k = (s * (k \div s)) + c
  BY DivMod
<1>4. PICK e1 \in Nat, e2 \in Nat : e1 = bn * s /\ e2 = q * s /\ s * bn = e1 /\ s * q = e2
  OBVIOUS
<1>5. z = e1 + a /\ k = e2 + c
  BY <1>1, <1>2, <1>3, <1>4
<1>6. q < bn => e2 + s <= e1
  BY <1>4, Product
<1>7. bn < q => e1 + s <= e2
  BY <1>4, Product
<1>8. m <= s - a
  BY <1>1, <1>2
<1>9. q # bn => k < z \/ k >= z + m
  <2>1. CASE q < bn
    BY <1>2, <1>3, <1>5, <1>6, <2>1
  <2>2. CASE bn < q
    BY <1>2, <1>3, <1>5, <1>7, <1>8, <2>2
  <2> QED
    BY <2>1, <2>2
<1>10. q = bn => k - z = c - a
  BY <1>4, <1>5
<1> QED
  BY <1>1, <1>2, <1>3, <1>9, <1>10

LEMMA WroteStill ==
  ASSUME DataInv, NEW p \in Proc, NEW i \in Inode, NEW o \in Open, NEW z \in Nat, NEW m \in Nat,
         NEW bn \in 0..MAXFILE - 1, NEW x,
         Wrote(p, i, o, z, m, bn, x), WroteData(p, z, m, x), WroteLog(p, x),
         NEW c, w' = [w EXCEPT ![p] = c], UNCHANGED <<size, daddrs, dsize, lock, off, saved>>
  PROVE  StillBut(p, {i})
PROOF
<1>0. DataTypes /\ OnePlace /\ UsedHeld
  BY DEF DataInv
<1>1. ~Truncating(i) /\ Maps(i, bn, x) /\ MapTypes(i, x) /\ Extends(i, x)
  BY DEF Wrote
<1>2. \A q \in Proc \ {p} : w'[q] = w[q] /\ logged'[q] = logged[q]
  BY <1>0 DEF DataTypes, WroteLog
<1>3. \A j \in Inode \ {i}, n \in Place : Entry(j, n)' = Entry(j, n)
  BY <1>0, <1>1, MapElsewhere
<1>4. x.block \in x.new \/ (x.new = {} /\ Holds(i, PlaceOf(bn), x.block))
  BY <1>0, <1>1, MapEntries
<1>5. \A b \in Block : b # x.block => data'[b] = data[b]
  BY <1>0 DEF DataTypes, WroteData
<1>6. ASSUME NEW j \in Inode \ {i} PROVE Still(j)
  <2>1. ASSUME NEW n \in Place, NEW b \in Block, Holds(j, n, b) PROVE data'[b] = data[b]
    <3>1. b # x.block
      BY <1>0, <1>1, <1>4, <2>1, MapApart
    <3> QED
      BY <1>5, <3>1
  <2> QED
    BY <1>3, <2>1 DEF Still
<1> QED
  BY <1>2, <1>6 DEF StillBut

LEMMA WroteLogged ==
  ASSUME DataInv, DataLogs, NEW p \in Proc, NEW i \in Inode, NEW o \in Open, NEW z \in Nat, NEW m \in Nat,
         NEW bn \in 0..MAXFILE - 1, NEW x,
         Wrote(p, i, o, z, m, bn, x), WroteLog(p, x),
         w' = [w EXCEPT ![p] = [w[p] EXCEPT !.tot = w[p].tot + m]], off' = off
  PROVE  LogsOf(p)'
PROOF
<1>0. DataTypes /\ DataCalls /\ OnePlace /\ UsedHeld /\ NoHoles
  BY DEF DataInv
<1>1. /\ i = ip(p) /\ o = w[p].o /\ w[p].pc = "writei" /\ z = off[o] + w[p].tot /\ m # 0
      /\ bn = z \div BSIZE /\ ~Truncating(i) /\ Maps(i, bn, x) /\ MapTypes(i, x) /\ Extends(i, x)
  BY DEF Wrote
<1>2. /\ Entry(i, PlaceOf(bn))' = x.block
      /\ \A n \in Place : Entry(i, n) # 0 => Entry(i, n)' = Entry(i, n)
      /\ x.new # {} /\ x.ind # 0 => Entry(i, NDIRECT)' = x.ind
  BY <1>0, <1>1, MapEntries
<1>3. PICK c : c = [w[p] EXCEPT !.tot = w[p].tot + m]
  OBVIOUS
<1>4. w[p] \in CallSet /\ w[p].tot \in Nat /\ off[o] \in Nat
  BY <1>0, <1>1, DataCaller
<1>5. w'[p] = c /\ c.pc = "writei" /\ c.o = o /\ c.tot = w[p].tot + m
  BY <1>0, <1>1, <1>3, <1>4 DEF CallSet, DataTypes
<1>6. ip(p)' = i /\ off'[w'[p].o] = off[o] /\ off'[w'[p].o] + w'[p].tot = z + m
  BY <1>1, <1>4, <1>5 DEF ip
<1>7. PICK a \in Nat : a = off[o] /\ a <= z
  BY <1>1, <1>4
<1>8. PICK s \in Nat \ {0} : s = BSIZE
  BY DataSizes
<1>9. Reached(p) = {k \in 0..MAXFILE - 1 : a < k * s + s /\ k * s < z}
  BY <1>1, <1>7, <1>8 DEF Reached
<1>10. Reached(p)' = {k \in 0..MAXFILE - 1 : a < k * s + s /\ k * s < z + m}
  <2>1. off'[w'[p].o] = a /\ off'[w'[p].o] + w'[p].tot = z + m
    BY <1>6, <1>7
  <2> QED
    BY <1>8, <2>1, Zenon DEF Reached
<1>11. bn \in Reached(p)'
  <2>1. PICK f \in Nat : f = bn * s /\ f <= z /\ z < f + s
    BY <1>1, <1>8, Divided
  <2>2. a < f + s /\ f < z + m
    BY <1>1, <1>7, <1>8, <2>1
  <2> QED
    BY <1>10, <2>1, <2>2
<1>12. Reached(p) \subseteq Reached(p)'
  <2> SUFFICES ASSUME NEW k \in Reached(p) PROVE k \in Reached(p)'
    OBVIOUS
  <2>1. PICK f \in Int : k \in 0..MAXFILE - 1 /\ f = k * s /\ a < f + s /\ f < z
    BY <1>8, <1>9, DataSizes
  <2>2. f < z + m
    BY <2>1
  <2> QED
    BY <1>10, <2>1, <2>2
<1>13. \A k \in Reached(p) : Entry(i, PlaceOf(k)) # 0 /\ PlaceOf(k) \in Place
  <2>1. Filled(i, z)
    BY <1>0, <1>1 DEF NoHoles
  <2>2. \A k \in 0..MAXFILE - 1 : PlaceOf(k) \in Place
    BY DataSizes DEF PlaceOf, Place
  <2> QED
    BY <1>8, <1>9, <2>1, <2>2 DEF Filled
<1> DEFINE MayLog == {Bitmap, Entry(i, NDIRECT)'} \cup {Entry(i, PlaceOf(k))' : k \in Reached(p)'}
<1>14. x.block \in MayLog
  BY <1>2, <1>11
<1>15. logged[p] \subseteq MayLog
  <2>1. logged[p] \subseteq {Bitmap, Entry(i, NDIRECT)} \cup {Entry(i, PlaceOf(k)) : k \in Reached(p)}
    BY <1>1 DEF DataLogs, LogsOf
  <2>2. \A k \in Reached(p) : Entry(i, PlaceOf(k)) \in MayLog
    BY <1>2, <1>12, <1>13
  <2>3. Entry(i, NDIRECT) \in MayLog
    <3>1. NDIRECT \in Place
      BY DataSizes DEF Place
    <3>2. CASE Entry(i, NDIRECT) = 0
      BY <3>2 DEF Bitmap
    <3>3. CASE Entry(i, NDIRECT) # 0
      BY <1>2, <3>1, <3>3
    <3> QED
      BY <3>2, <3>3
  <2> QED
    BY <2>1, <2>2, <2>3
<1>16. x.new \subseteq MayLog /\ (x.ind # 0 /\ x.block \in x.new => x.ind \in MayLog)
  <2>1. x.new \subseteq {x.block, x.ind} /\ 0 \notin x.new
    BY <1>1, DataSizes DEF MapTypes
  <2> QED
    BY <1>2, <1>14, <2>1
<1>17. logged'[p] = logged[p] \cup {x.block} \cup x.new \cup (IF x.new = {} THEN {} ELSE {Bitmap})
                       \cup (IF x.ind # 0 /\ x.block \in x.new THEN {x.ind} ELSE {})
  BY <1>0 DEF DataTypes, WroteLog
<1>18. logged'[p] \subseteq MayLog
  <2>1. Bitmap \in MayLog
    OBVIOUS
  <2> HIDE DEF MayLog
  <2> QED
    BY <1>14, <1>15, <1>16, <1>17, <2>1
<1>19. MayLog = ({Bitmap, Entry(ip(p), NDIRECT)} \cup {Entry(ip(p), PlaceOf(k)) : k \in Reached(p)})'
  BY <1>6, Zenon
<1> QED
  BY <1>5, <1>18, <1>19 DEF LogsOf, Busy

(* What a round of writei leaves as it was, and what it writes *)
LEMMA WroteOld ==
  ASSUME DataInv, NEW p \in Proc, NEW i \in Inode, NEW o \in Open, NEW z \in Nat, NEW m \in Nat,
         NEW bn \in 0..MAXFILE - 1, NEW x,
         Wrote(p, i, o, z, m, bn, x), WroteData(p, z, m, x),
         NEW k \in Nat, k < size[i] \/ k < z, ~(z <= k /\ k < z + m)
  PROVE  Byte(i, k)' = Byte(i, k)
PROOF
<1>0. DataTypes /\ OnePlace /\ UsedHeld /\ NoHoles
  BY DEF DataInv
<1>1. /\ i = ip(p) /\ o = w[p].o /\ w[p].pc = "writei" /\ z = off[o] + w[p].tot
      /\ bn = z \div BSIZE /\ m <= BSIZE - (z % BSIZE)
      /\ ~Truncating(i) /\ Maps(i, bn, x) /\ MapTypes(i, x) /\ Extends(i, x)
  BY DEF Wrote
<1>2. /\ \A n \in Place : Entry(i, n) # 0 => Entry(i, n)' = Entry(i, n)
      /\ Entry(i, PlaceOf(bn)) # 0 => x.new = {} /\ x.block = Entry(i, PlaceOf(bn))
      /\ x.block \in x.new \/ (x.new = {} /\ Holds(i, PlaceOf(bn), x.block))
  BY <1>0, <1>1, MapEntries
<1>3. bn \in Nat /\ size[i] \in Nat /\ size[i] <= MAXFILE * BSIZE /\ z <= MAXFILE * BSIZE
  <2>1. /\ off[o] + w[p].n <= MAXFILE * BSIZE /\ w[p].tot + m <= w[p].n
    BY DEF Wrote
  <2>2. w[p].n \in Nat /\ w[p].tot \in Nat /\ off[o] \in Nat
    BY <1>0, <1>1, DataCaller DEF DataInv
  <2>3. z <= MAXFILE * BSIZE
    BY <1>1, <2>1, <2>2, DataSizes
  <2>4. size[i] \in Nat /\ size[i] <= MAXFILE * BSIZE
    BY <1>0 DEF DataTypes, NoHoles
  <2> QED
    BY <2>3, <2>4, DataSizes
<1>4. PICK f \in Nat : k < f /\ f <= MAXFILE * BSIZE /\ Filled(i, f)
  <2>1. Filled(i, size[i]) /\ Filled(i, z)
    BY <1>0, <1>1 DEF NoHoles
  <2> QED
    BY <1>3, <2>1
<1>5. PICK q \in 0..MAXFILE - 1 : /\ q = k \div BSIZE /\ PlaceOf(q) \in Place
                                  /\ BlockOf(i, k) = Entry(i, PlaceOf(q)) /\ BlockOf(i, k) \in Block
                                  /\ k % BSIZE \in 0..BSIZE - 1
  BY <1>0, <1>4, ByteBlock
<1>6. PICK n \in Place, b \in Block : n = PlaceOf(q) /\ b = Entry(i, n) /\ b # 0 /\ BlockOf(i, k) = b
  BY <1>5, DataSizes
<1>7. q \in Nat
  BY DataSizes
<1>8. Holds(i, n, b) /\ Entry(i, n)' = b
  BY <1>0, <1>1, <1>2, <1>6, EntryUsed
<1>9. BlockOf(i, k)' = b
  BY <1>5, <1>6, <1>7, <1>8, BlockEntry
<1>10. CASE q # bn
  <2>1. n # PlaceOf(bn)
    BY <1>3, <1>6, <1>7, <1>10, DataSizes DEF PlaceOf
  <2>2. b # x.block
    BY <1>0, <1>1, <1>2, <1>8, <2>1, MapApart
  <2>3. data'[b] = data[b]
    BY <1>0, <2>2 DEF DataTypes, WroteData
  <2> QED
    BY <1>6, <1>9, <2>3 DEF Byte
<1>11. CASE q = bn
  <2>1. x.new = {} /\ x.block = b
    BY <1>2, <1>6, <1>11
  <2>2. PICK c \in 0..BSIZE - 1, h \in 0..BSIZE - 1 : c = k % BSIZE /\ h = z % BSIZE /\ k - z = c - h
    BY <1>1, <1>3, <1>5, <1>7, <1>11, SameBlock
  <2>3. c \notin h..h + m - 1
    BY <2>2, DataSizes
  <2>4. data'[b][c] = data[b][c]
    <3>1. data' = [data EXCEPT ![b] =
             [l \in 0..BSIZE - 1 |-> IF l \in h..h + m - 1 THEN w[p].s[w[p].tot + l - h + 1]
                                     ELSE IF b \in {} THEN 0 ELSE data[b][l]]]
      BY <2>1, <2>2, Zenon DEF WroteData
    <3>2. data'[b] = [l \in 0..BSIZE - 1 |-> IF l \in h..h + m - 1 THEN w[p].s[w[p].tot + l - h + 1]
                                             ELSE data[b][l]]
      BY <1>0, <3>1 DEF DataTypes
    <3> QED
      BY <2>3, <3>2
  <2> QED
    BY <1>6, <1>9, <2>2, <2>4 DEF Byte
<1> QED
  BY <1>10, <1>11

LEMMA WroteNew ==
  ASSUME DataInv, NEW p \in Proc, NEW i \in Inode, NEW o \in Open, NEW z \in Nat, NEW m \in Nat,
         NEW bn \in 0..MAXFILE - 1, NEW x,
         Wrote(p, i, o, z, m, bn, x), WroteData(p, z, m, x),
         NEW k \in Nat, z <= k, k < z + m
  PROVE  Byte(i, k)' = w[p].s[k - off[o] + 1]
PROOF
<1>0. DataTypes /\ OnePlace /\ UsedHeld
  BY DEF DataInv
<1>1. /\ i = ip(p) /\ o = w[p].o /\ w[p].pc = "writei" /\ z = off[o] + w[p].tot
      /\ bn = z \div BSIZE /\ m <= BSIZE - (z % BSIZE)
      /\ ~Truncating(i) /\ Maps(i, bn, x) /\ MapTypes(i, x) /\ Extends(i, x)
  BY DEF Wrote
<1>2. Entry(i, PlaceOf(bn))' = x.block /\ x.block \in Block /\ x.block # 0
  <2>1. Entry(i, PlaceOf(bn))' = x.block
    BY <1>0, <1>1, MapEntries
  <2> QED
    BY <1>1, <2>1, DataSizes DEF MapTypes
<1>3. bn \in Nat
  BY DataSizes
<1>4. PICK q \in Nat : q = k \div BSIZE
  BY DataSizes, DivMod
<1>5. q = bn
  BY <1>1, <1>3, <1>4, SameBlock
<1>6. PICK c \in 0..BSIZE - 1, h \in 0..BSIZE - 1 : c = k % BSIZE /\ h = z % BSIZE /\ k - z = c - h
  BY <1>1, <1>3, <1>4, <1>5, SameBlock
<1>7. c \in h..h + m - 1
  BY <1>6, DataSizes
<1>8. PICK b \in Block : b = x.block /\ BlockOf(i, k)' = b
  BY <1>2, <1>3, <1>4, <1>5, BlockEntry
<1>9. PICK t \in Nat, a \in Nat : t = w[p].tot /\ a = off[o]
  BY <1>0, <1>1, DataCaller DEF DataInv
<1>10. data'[b][c] = w[p].s[t + c - h + 1]
  <2>1. PICK d : d = [l \in 0..BSIZE - 1 |-> IF l \in h..h + m - 1 THEN w[p].s[t + l - h + 1]
                                             ELSE IF x.block \in x.new THEN 0 ELSE data[x.block][l]]
    OBVIOUS
  <2>2. data' = [data EXCEPT ![b] = d]
    BY <1>6, <1>8, <1>9, <2>1, Zenon DEF WroteData
  <2>3. data'[b] = d
    BY <1>0, <2>2 DEF DataTypes
  <2> QED
    BY <1>7, <2>1, <2>3
<1>11. t + c - h + 1 = k - a + 1
  BY <1>1, <1>6, <1>9, DataSizes
<1> QED
  BY <1>6, <1>8, <1>9, <1>10, <1>11 DEF Byte

LEMMA WriteBlockGood ==
  ASSUME DataInv, DataLogs, DataBytes, NEW p \in Proc, write_block(p)
  PROVE  Good(p)
PROOF
<1>0. DataTypes /\ DataCalls /\ NoHoles
  BY DEF DataInv
<1>1. CASE Unwritten
  <2>1. /\ data' = data /\ ptr' = ptr /\ addrs' = addrs /\ size' = size /\ lock' = lock
        /\ off' = off
        /\ w' = w /\ logged' = logged /\ saved' = saved
    BY <1>1 DEF Unwritten
  <2>2. LogsOf(p) /\ BytesOf(p)
    BY DEF DataLogs, DataBytes
  <2>3. LogsOf(p)'
    BY <2>1, <2>2, ZenonT(60) DEF LogsOf, Reached, Entry, ip
  <2>4. BytesOf(p)'
    BY <2>1, <2>2 DEF BytesOf, Pending, Overwritten, Byte, BlockOf, ip
  <2>5. StillBut(p, {})
    <3>1. \A j \in Inode, n \in Place : Entry(j, n)' = Entry(j, n)
      BY <2>1, QuietEntries
    <3>2. \A j \in Inode : Still(j)
      BY <2>1, <3>1 DEF Still
    <3> QED
      BY <2>1, <3>2 DEF StillBut
  <2>6. NoChange({})
    BY <2>5, StillContent
  <2>7. Steady(p)
    BY <2>5 DEF Steady
  <2> QED
    BY <2>1, <2>3, <2>4, <2>6, <2>7 DEF Good, FileStep
<1>2. ASSUME NEW i \in Inode, NEW o \in Open, NEW z \in Nat, NEW m \in Nat, NEW bn \in 0..MAXFILE - 1,
             NEW x,
             Wrote(p, i, o, z, m, bn, x) /\ WroteData(p, z, m, x) /\ WroteLog(p, x),
             w' = [w EXCEPT ![p] = [w[p] EXCEPT !.tot = w[p].tot + m]],
             UNCHANGED <<size, daddrs, dsize, lock, off, saved>>
      PROVE  Good(p)
  <2>1. /\ i = ip(p) /\ o = w[p].o /\ i = InodeOf[o] /\ lock[i] = p /\ w[p].pc = "writei"
        /\ z = off[o] + w[p].tot
    BY <1>2 DEF Wrote
  <2>2. StillBut(p, {i})
    BY <1>2, WroteStill
  <2>3. LogsOf(p)'
    BY <1>2, WroteLogged
  <2>4. PICK c : c = [w[p] EXCEPT !.tot = w[p].tot + m]
    OBVIOUS
  <2>5. w[p] \in CallSet /\ w[p].tot \in Nat /\ off[o] \in Nat
    BY <1>0, <2>1, DataCaller
  <2>6. w'[p] = c /\ c.pc = "writei" /\ c.o = o /\ c.s = w[p].s /\ c.tot = w[p].tot + m
    BY <1>0, <1>2, <2>1, <2>4, <2>5 DEF CallSet, DataTypes
  <2>7. PICK a \in Nat : a = off[o] /\ a <= z
    BY <2>1, <2>5
  <2>8. ip(p)' = i /\ off'[w'[p].o] = a /\ off'[w'[p].o] + w'[p].tot = z + m
    BY <1>2, <2>1, <2>5, <2>6, <2>7 DEF ip
  <2>9. Overwritten(i, a, z, w[p].s)
    BY <2>1, <2>7 DEF DataBytes, BytesOf
  <2>10. Overwritten(i, a, z + m, c.s)'
    <3>1. saved'[i] \in Seq(Nat) /\ Len(saved'[i]) = size'[i]
      BY <1>2, <2>9 DEF Overwritten
    <3>2. ASSUME NEW k \in 0..MAXFILE * BSIZE, k < size'[i] \/ k < z + m
          PROVE  Byte(i, k)' = IF a <= k /\ k < z + m THEN c.s[k - a + 1] ELSE saved'[i][k + 1]
      <4>1. k \in Nat /\ (k < size[i] \/ k < z + m)
        BY <1>2, <3>2, DataSizes
      <4>2. CASE z <= k /\ k < z + m
        <5>1. Byte(i, k)' = w[p].s[k - a + 1]
          BY <1>2, <2>7, <4>1, <4>2, WroteNew
        <5> QED
          BY <2>6, <2>7, <4>1, <4>2, <5>1
      <4>3. CASE ~(z <= k /\ k < z + m)
        <5>1. k < size[i] \/ k < z
          BY <4>1, <4>3
        <5>2. Byte(i, k)' = Byte(i, k)
          BY <1>2, <4>1, <4>3, <5>1, WroteOld
        <5>3. Byte(i, k) = IF a <= k /\ k < z THEN w[p].s[k - a + 1] ELSE saved[i][k + 1]
          BY <2>9, <5>1 DEF Overwritten
        <5>4. (a <= k /\ k < z) <=> (a <= k /\ k < z + m)
          BY <4>1, <4>3
        <5> QED
          BY <1>2, <2>6, <5>2, <5>3, <5>4
      <4> QED
        BY <4>2, <4>3
    <3> QED
      BY <3>1, <3>2 DEF Overwritten
  <2>11. BytesOf(p)'
    <3>1. Pending(p)'
      BY <2>1, <2>6 DEF DataBytes, BytesOf, Pending
    <3> QED
      BY <2>6, <2>8, <2>10, <3>1 DEF BytesOf
  <2>12. Steady(p)
    BY <2>1, <2>2 DEF Steady
  <2>13. NoChange({})
    <3>1. Content(i)' = Content(i)
      BY <1>2, <2>1, FileDataAssumption DEF Content
    <3>2. NoChange({i})
      BY <2>2, StillContent
    <3> QED
      BY <3>1, <3>2 DEF NoChange
  <2> QED
    BY <1>2, <2>3, <2>11, <2>12, <2>13 DEF Good, FileStep
<1> QED
  BY <1>1, <1>2, WriteBlockIs

(* Ends and beginnings of a sequence *)
TailSplit(u, c, s, n) ==
  /\ Len(SubSeq(s, 1, n)) = n /\ SubSeq(s, 1, n) = SubSeq(u, c, c + n - 1)
  /\ SubSeq(s, n + 1, Len(s)) = SubSeq(u, c + n, Len(u)) /\ c + n \in 1..Len(u) + 1

LEMMA TailParts ==
  ASSUME NEW u \in Seq(Nat), NEW c \in 1..Len(u) + 1, NEW s, s = SubSeq(u, c, Len(u)),
         NEW n \in Nat, n <= Len(s)
  PROVE  TailSplit(u, c, s, n)
PROOF
<1>1. PICK l \in Nat : l = Len(u) /\ c \in 1..l + 1 /\ l \in c - 1..l
  OBVIOUS
<1>2. s \in Seq(Nat) /\ Len(s) = l - c + 1 /\ \A k \in 1..l - c + 1 : s[k] = u[c + k - 1]
  BY <1>1, SubSeqPart
<1>3. PICK m \in Nat : m = Len(s) /\ m = l - c + 1 /\ n <= m
  <2>1. l - c + 1 \in Nat
    BY <1>1
  <2>2. Len(s) = l - c + 1 /\ n <= Len(s)
    BY <1>2, Zenon
  <2> QED
    BY <2>1, <2>2, Zenon
<1>4. c + n \in 1..l + 1 /\ c + n - 1 \in c - 1..l
  BY <1>1, <1>3
<1>5. PICK d \in Nat : d = n + 1 /\ d \in 1..m + 1 /\ m \in d - 1..m
  BY <1>3
<1>6. PICK v : v = SubSeq(s, d, m) /\ v \in Seq(Nat) /\ Len(v) = m - d + 1
               /\ \A k \in 1..m - d + 1 : v[k] = s[d + k - 1]
  <2>1. /\ SubSeq(s, d, m) \in Seq(Nat) /\ Len(SubSeq(s, d, m)) = m - d + 1
        /\ \A k \in 1..m - d + 1 : SubSeq(s, d, m)[k] = s[d + k - 1]
    BY <1>2, <1>3, <1>5, SubSeqPart
  <2> QED
    BY <2>1
<1>7. PICK e1 \in Nat : e1 = c + n /\ e1 \in 1..l + 1 /\ l \in e1 - 1..l
  BY <1>4
<1>8. PICK v1 : v1 = SubSeq(u, e1, l) /\ v1 \in Seq(Nat) /\ Len(v1) = l - e1 + 1
                /\ \A k \in 1..l - e1 + 1 : v1[k] = u[e1 + k - 1]
  <2>1. /\ SubSeq(u, e1, l) \in Seq(Nat) /\ Len(SubSeq(u, e1, l)) = l - e1 + 1
        /\ \A k \in 1..l - e1 + 1 : SubSeq(u, e1, l)[k] = u[e1 + k - 1]
    BY <1>1, <1>7, SubSeqPart, ZenonT(60)
  <2> QED
    BY <2>1
<1>9. v = v1
  <2>1. m - d + 1 = l - e1 + 1
    BY <1>1, <1>3, <1>5, <1>7
  <2>2. ASSUME NEW k \in 1..l - e1 + 1 PROVE v[k] = v1[k]
    <3>1. v[k] = s[d + k - 1] /\ v1[k] = u[e1 + k - 1]
      BY <1>6, <1>8, <2>1
    <3>2. d + k - 1 \in 1..l - c + 1 /\ c + (d + k - 1) - 1 = e1 + k - 1
      BY <1>1, <1>3, <1>5, <1>7
    <3> QED
      BY <1>2, <3>1, <3>2
  <2> QED
    BY <1>6, <1>8, <2>1, <2>2, SequencesEqual
<1>10. PICK t : t = SubSeq(s, 1, n) /\ t \in Seq(Nat) /\ Len(t) = n /\ \A k \in 1..n : t[k] = s[k]
  <2>1. 1 \in 1..m + 1 /\ n \in 1 - 1..m
    BY <1>3
  <2>2. /\ SubSeq(s, 1, n) \in Seq(Nat) /\ Len(SubSeq(s, 1, n)) = n - 1 + 1
        /\ \A k \in 1..n - 1 + 1 : SubSeq(s, 1, n)[k] = s[1 + k - 1]
    BY <1>2, <1>3, <2>1, SubSeqPart
  <2>3. n - 1 + 1 = n /\ \A k \in 1..n : 1 + k - 1 = k
    OBVIOUS
  <2> QED
    BY <2>2, <2>3
<1>11. PICK t1 : t1 = SubSeq(u, c, c + n - 1) /\ t1 \in Seq(Nat) /\ Len(t1) = n
                 /\ \A k \in 1..n : t1[k] = u[c + k - 1]
  <2>1. PICK f \in Int : f = c + n - 1 /\ f \in c - 1..l
    BY <1>4
  <2>2. /\ SubSeq(u, c, f) \in Seq(Nat) /\ Len(SubSeq(u, c, f)) = f - c + 1
        /\ \A k \in 1..f - c + 1 : SubSeq(u, c, f)[k] = u[c + k - 1]
    BY <1>1, <2>1, SubSeqPart
  <2>3. f - c + 1 = n
    BY <2>1
  <2> QED
    BY <2>1, <2>2, <2>3
<1>12. t = t1
  <2>1. \A k \in 1..n : t[k] = t1[k]
    BY <1>2, <1>3, <1>10, <1>11, SMTT(30)
  <2> QED
    BY <1>10, <1>11, <2>1, SequencesEqual
<1>13. Len(SubSeq(s, 1, n)) = n /\ SubSeq(s, 1, n) = SubSeq(u, c, c + n - 1)
  BY <1>10, <1>11, <1>12, Zenon
<1>14. SubSeq(s, n + 1, Len(s)) = SubSeq(u, c + n, Len(u))
  BY <1>1, <1>3, <1>5, <1>6, <1>7, <1>8, <1>9, Zenon
<1>15. c + n \in 1..Len(u) + 1
  BY <1>1, <1>4, Zenon
<1> QED
  BY <1>13, <1>14, <1>15, Zenon DEF TailSplit


LEMMA SequenceOf ==
  ASSUME NEW S, NEW l \in Nat, NEW c \in [1..l -> S]
  PROVE  c \in Seq(S) /\ Len(c) = l
PROOF
  OBVIOUS

LEMMA Joined ==
  ASSUME NEW S, NEW s \in Seq(S), NEW t \in Seq(S), NEW a \in Nat, NEW b \in Nat, a = Len(s), b = Len(t)
  PROVE  /\ s \o t \in Seq(S) /\ Len(s \o t) = a + b
         /\ \A j \in 1..a + b : (s \o t)[j] = IF j <= a THEN s[j] ELSE t[j - a]
PROOF
  OBVIOUS

(* What is written over a sequence from place k on *)
LEMMA OverlayIs ==
  ASSUME NEW s \in Seq(Nat), NEW k \in 0..Len(s), NEW t \in Seq(Nat), NEW l \in Nat,
         l = IF k + Len(t) > Len(s) THEN k + Len(t) ELSE Len(s)
  PROVE  /\ BF!Overlay(s, k, t) \in Seq(Nat) /\ Len(BF!Overlay(s, k, t)) = l
         /\ \A j \in 1..l : BF!Overlay(s, k, t)[j] =
                              IF k < j /\ j <= k + Len(t) THEN t[j - k] ELSE s[j]
PROOF
<1>1. PICK a \in Nat, b \in Nat : a = Len(s) /\ b = Len(t) /\ k <= a /\ k \in Nat
  OBVIOUS
<1>2. PICK u : u = SubSeq(s, 1, k) /\ u \in Seq(Nat) /\ Len(u) = k /\ \A j \in 1..k : u[j] = s[j]
  <2>1. 1 \in 1..a + 1 /\ k \in 1 - 1..a
    BY <1>1
  <2>2. /\ SubSeq(s, 1, k) \in Seq(Nat) /\ Len(SubSeq(s, 1, k)) = k - 1 + 1
        /\ \A j \in 1..k - 1 + 1 : SubSeq(s, 1, k)[j] = s[1 + j - 1]
    BY <1>1, <2>1, SubSeqPart
  <2>3. k - 1 + 1 = k /\ \A j \in 1..k : 1 + j - 1 = j
    OBVIOUS
  <2> QED
    BY <2>2, <2>3
<1>3. PICK v : v = SubSeq(s, k + b + 1, a) /\ v \in Seq(Nat) /\ k + b + Len(v) = l
               /\ \A j \in 1..Len(v) : v[j] = s[k + b + j]
  <2>1. PICK c \in Nat : c = k + b + 1
    BY <1>1
  <2>2. CASE k + b > a
    <3>1. SubSeq(s, c, a) = <<>>
      BY <1>1, <2>1, <2>2
    <3>2. l = k + b /\ Len(<<>>) = 0 /\ <<>> \in Seq(Nat)
      BY <1>1, <2>2
    <3>3. PICK v : v = SubSeq(s, c, a) /\ v = <<>> /\ Len(v) = 0 /\ v \in Seq(Nat)
      BY <3>1, <3>2
    <3>4. k + b + 0 = l /\ 1..0 = {}
      BY <1>1, <3>2
    <3> QED
      BY <2>1, <3>3, <3>4
  <2>3. CASE ~(k + b > a)
    <3>1. c \in 1..a + 1 /\ a \in c - 1..a /\ l = a
      BY <1>1, <2>1, <2>3
    <3>2. /\ SubSeq(s, c, a) \in Seq(Nat) /\ Len(SubSeq(s, c, a)) = a - c + 1
          /\ \A j \in 1..a - c + 1 : SubSeq(s, c, a)[j] = s[c + j - 1]
      BY <1>1, <3>1, SubSeqPart
    <3>3. k + b + (a - c + 1) = a /\ \A j \in 1..a - c + 1 : c + j - 1 = k + b + j
      BY <1>1, <2>1
    <3>4. PICK v : /\ v = SubSeq(s, c, a) /\ v \in Seq(Nat) /\ Len(v) = a - c + 1
                   /\ \A j \in 1..a - c + 1 : v[j] = s[c + j - 1]
      BY <3>2
    <3>5. k + b + Len(v) = l /\ \A j \in 1..Len(v) : v[j] = s[k + b + j]
      BY <3>1, <3>3, <3>4
    <3> QED
      BY <2>1, <3>4, <3>5
  <2> QED
    BY <2>2, <2>3
<1>4. PICK x : x = u \o t /\ x \in Seq(Nat) /\ Len(x) = k + b
               /\ \A j \in 1..k + b : x[j] = IF j <= k THEN s[j] ELSE t[j - k]
  <2>1. /\ u \o t \in Seq(Nat) /\ Len(u \o t) = k + b
        /\ \A j \in 1..k + b : (u \o t)[j] = IF j <= k THEN u[j] ELSE t[j - k]
    <3>1. k \in Nat /\ k = Len(u) /\ b = Len(t) /\ u \in Seq(Nat)
      BY <1>1, <1>2
    <3> QED
      BY <3>1, Joined
  <2>2. \A j \in 1..k + b : j <= k => u[j] = s[j]
    BY <1>1, <1>2
  <2> QED
    BY <2>1, <2>2
<1>5. PICK y : y = x \o v /\ y \in Seq(Nat) /\ Len(y) = l
               /\ \A j \in 1..l : y[j] = IF j <= k + b THEN x[j] ELSE v[j - (k + b)]
  <2>1. PICK c \in Nat, d \in Nat : c = k + b /\ d = Len(v) /\ c + d = l
    BY <1>1, <1>3
  <2>2. /\ x \o v \in Seq(Nat) /\ Len(x \o v) = c + d
        /\ \A j \in 1..c + d : (x \o v)[j] = IF j <= c THEN x[j] ELSE v[j - c]
    <3>1. x \in Seq(Nat) /\ v \in Seq(Nat) /\ c = Len(x) /\ d = Len(v)
      BY <1>3, <1>4, <2>1
    <3> QED
      BY <3>1, Joined
  <2> QED
    BY <2>1, <2>2
<1>6. BF!Overlay(s, k, t) = y
  BY <1>1, <1>2, <1>3, <1>4, <1>5 DEF BF!Overlay
<1>7. ASSUME NEW j \in 1..l PROVE y[j] = IF k < j /\ j <= k + b THEN t[j - k] ELSE s[j]
  <2>1. CASE j <= k + b
    <3>1. y[j] = IF j <= k THEN s[j] ELSE t[j - k]
      <4>1. j \in 1..k + b
        BY <1>1, <2>1
      <4>2. y[j] = x[j]
        BY <1>5, <2>1
      <4> QED
        BY <1>4, <4>1, <4>2
    <3> QED
      BY <1>1, <2>1, <3>1
  <2>2. CASE ~(j <= k + b)
    <3>1. PICK f \in 1..Len(v) : f = j - (k + b)
      <4>1. PICK d \in Nat : d = Len(v) /\ k + b + d = l
        <5>1. Len(v) \in Nat
          <6>1. v \in Seq(Nat)
            BY <1>3
          <6> QED
            BY <6>1
        <5> QED
          BY <1>3, <5>1
      <4>2. j - (k + b) \in 1..d
        BY <1>1, <2>2, <4>1
      <4> QED
        BY <4>1, <4>2
    <3>2. y[j] = s[k + b + f]
      BY <1>3, <1>5, <2>2, <3>1
    <3>3. k + b + f = j
      BY <1>1, <3>1
    <3> QED
      BY <1>1, <2>2, <3>2, <3>3
  <2> QED
    BY <2>1, <2>2
<1> QED
  BY <1>1, <1>5, <1>6, <1>7

(* Writing over a sequence, place by place *)
Laid(u, a, s, n, l) == [k \in 1..l |-> IF a < k /\ k <= a + n THEN s[k - a] ELSE u[k]]
LEMMA WrittenOver ==
  ASSUME NEW u \in Seq(Nat), NEW a \in 0..Len(u), NEW s \in Seq(Nat), NEW n \in Nat, n <= Len(s),
         NEW l \in Nat, l = IF a + n > Len(u) THEN a + n ELSE Len(u), NEW c,
         c = Laid(u, a, s, n, l)
  PROVE  c = BF!Overlay(u, a, SubSeq(s, 1, n)) /\ (n = 0 => c = u)
PROOF
<1>0. c = [k \in 1..l |-> IF a < k /\ k <= a + n THEN s[k - a] ELSE u[k]]
  BY DEF Laid
<1>1. PICK f \in Nat : f = Len(u) /\ a \in Nat /\ a <= f
  OBVIOUS
<1>2. PICK t : /\ t = SubSeq(s, 1, n) /\ t \in Seq(Nat) /\ Len(t) = n
               /\ \A k \in 1..n : t[k] = s[k]
  <2>1. PICK m \in Nat : m = Len(s) /\ 1 \in 1..m + 1 /\ n \in 1 - 1..m
    OBVIOUS
  <2>2. /\ SubSeq(s, 1, n) \in Seq(Nat) /\ Len(SubSeq(s, 1, n)) = n - 1 + 1
        /\ \A k \in 1..n - 1 + 1 : SubSeq(s, 1, n)[k] = s[1 + k - 1]
    BY <2>1, SubSeqPart
  <2>3. n - 1 + 1 = n /\ \A k \in 1..n : 1 + k - 1 = k
    OBVIOUS
  <2> QED
    BY <2>2, <2>3
<1>3. /\ BF!Overlay(u, a, t) \in Seq(Nat) /\ Len(BF!Overlay(u, a, t)) = l
      /\ \A k \in 1..l : BF!Overlay(u, a, t)[k] = IF a < k /\ k <= a + Len(t) THEN t[k - a] ELSE u[k]
  <2>1. l = IF a + Len(t) > Len(u) THEN a + Len(t) ELSE Len(u)
    BY <1>2
  <2> QED
    BY <1>2, <2>1, OverlayIs, ZenonT(60)
<1>4. PICK y : y = BF!Overlay(u, a, t) /\ y \in Seq(Nat) /\ Len(y) = l
               /\ \A k \in 1..l : y[k] = IF a < k /\ k <= a + n THEN t[k - a] ELSE u[k]
  BY <1>2, <1>3
<1>5. \A k \in 1..l : c[k] = y[k]
  <2> SUFFICES ASSUME NEW k \in 1..l PROVE c[k] = y[k]
    OBVIOUS
  <2>1. a < k /\ k <= a + n => k - a \in 1..n
    BY <1>1
  <2> QED
    BY <1>0, <1>2, <1>4, <2>1
<1>6. c \in Seq(Nat) /\ Len(c) = l
  <2>1. \A k \in 1..l : y[k] \in Nat
    BY <1>4
  <2>2. \A k \in 1..l : c[k] \in Nat
    BY <1>5, <2>1
  <2>3. c \in [1..l -> Nat]
    BY <1>0, <2>2
  <2> QED
    BY <2>3, SequenceOf
<1>7. c = y
  BY <1>4, <1>5, <1>6, SequencesEqual
<1>8. n = 0 => c = u
  <2> SUFFICES ASSUME n = 0 PROVE c = u
    OBVIOUS
  <2>1. l = f
    BY <1>1
  <2>2. \A k \in 1..f : c[k] = u[k]
    <3> SUFFICES ASSUME NEW k \in 1..f PROVE c[k] = u[k]
      OBVIOUS
    <3>1. ~(a < k /\ k <= a + n)
      BY <1>1
    <3> QED
      BY <1>0, <2>1, <3>1
  <2> QED
    BY <1>1, <1>6, <2>1, <2>2, SequencesEqual
<1> QED
  BY <1>2, <1>4, <1>7, <1>8

(* What a file contains once a write is done *)
Ended(p, i, a, n, s, l) ==
  /\ w[p].pc = "writei" /\ i = ip(p) /\ a = off[w[p].o] /\ n = w[p].tot /\ s = w[p].s
  /\ n <= Len(s) /\ a + n <= MAXFILE * BSIZE
  /\ l = IF a + n > size[i] THEN a + n ELSE size[i]
  /\ size'[i] = l /\ data' = data /\ ptr' = ptr /\ addrs' = addrs

LEMMA EndedContents ==
  ASSUME DataInv, DataBytes, NEW p \in Proc, NEW i \in Inode, NEW a \in Nat, NEW n \in Nat,
         NEW s \in Seq(Nat), NEW l \in Nat, Ended(p, i, a, n, s, l)
  PROVE  /\ Contents(i)' = BF!Overlay(saved[i], a, SubSeq(s, 1, n))
         /\ n = 0 => Contents(i)' = saved[i]
PROOF
<1>0. DataTypes /\ DataCalls /\ NoHoles
  BY DEF DataInv
<1>1. Overwritten(i, a, a + n, s)
  BY DEF Ended, DataBytes, BytesOf
<1>2. PICK f \in Nat : f = size[i] /\ a <= f /\ f <= MAXFILE * BSIZE
  <2>1. size[i] \in Nat /\ size[i] <= MAXFILE * BSIZE
    BY <1>0 DEF DataTypes, NoHoles
  <2>2. w[p].o \in Open /\ i = InodeOf[w[p].o] /\ a = off[w[p].o]
    BY <1>0, DataCaller DEF Ended
  <2>3. a <= size[i]
    BY <1>0, <2>2 DEF NoHoles
  <2> QED
    BY <2>1, <2>3
<1>3. PICK u \in Seq(Nat) : u = saved[i] /\ Len(u) = f
  BY <1>1, <1>2 DEF Overwritten
<1>4. PICK g \in Nat : g = MAXFILE * BSIZE
  BY DataSizes
<1>5. \A k \in 0..g : k < f \/ k < a + n =>
        Byte(i, k) = IF a <= k /\ k < a + n THEN s[k - a + 1] ELSE u[k + 1]
  BY <1>1, <1>2, <1>3, <1>4, Zenon DEF Overwritten
<1>6. a + n <= g /\ f <= g /\ l = IF a + n > f THEN a + n ELSE f
  BY <1>2, <1>4 DEF Ended
<1>7. ASSUME NEW k \in 1..l
      PROVE  Byte(i, k - 1) = IF a < k /\ k <= a + n THEN s[k - a] ELSE u[k]
  <2>1. PICK h \in Nat : h = k - 1 /\ h \in 0..g /\ (h < f \/ h < a + n)
    BY <1>6
  <2>2. Byte(i, h) = IF a <= h /\ h < a + n THEN s[h - a + 1] ELSE u[h + 1]
    BY <1>5, <2>1
  <2>3. (a <= h <=> a < k) /\ (h < a + n <=> k <= a + n) /\ h - a + 1 = k - a /\ h + 1 = k
    BY <2>1
  <2> QED
    BY <2>1, <2>2, <2>3
<1>8. Contents(i)' = [k \in 1..l |-> Byte(i, k - 1)]
  <2>1. l - 0 = l /\ \A k \in 1..l : 0 + k - 1 = k - 1
    OBVIOUS
  <2>2. Contents(i)' = [k \in 1..l - 0 |-> data[BlockOf(i, 0 + k - 1)][(0 + k - 1) % BSIZE]]
    BY DEF Ended, Contents, Bytes, BlockOf
  <2> QED
    BY <2>1, <2>2 DEF Byte
<1>9. PICK c : c = Contents(i)' /\ c = Laid(u, a, s, n, l)
  BY <1>7, <1>8 DEF Laid
<1>10. c = BF!Overlay(u, a, SubSeq(s, 1, n)) /\ (n = 0 => c = u)
  <2>1. a \in 0..Len(u) /\ l = IF a + n > Len(u) THEN a + n ELSE Len(u)
    BY <1>2, <1>3, <1>6
  <2>2. n <= Len(s)
    BY DEF Ended
  <2> QED
    BY <1>9, <2>1, <2>2, WrittenOver
<1> QED
  BY <1>3, <1>9, <1>10

LEMMA PieceIs ==
  ASSUME NEW u \in Str, NEW f \in 1..Len(u), NEW g \in 1..Len(u)
  PROVE  SubSeq(u, f, g) \in Pieces
PROOF
<1>1. SubSeq(u, f, g) \in {SubSeq(u, h, k) : h, k \in 1..Len(u)}
  OBVIOUS
<1> QED
  BY <1>1, SMT DEF Pieces

LEMMA WriteEndGood ==
  ASSUME DataInv, DataLogs, DataBytes, NEW p \in Proc, write_end(p)
  PROVE  Good(p)
PROOF
<1>0. DataTypes /\ DataCalls /\ NoHoles
  BY DEF DataInv
<1>1. w[p].pc = "writei" /\ w[p].tot = w[p].n
  BY DEF write_end, At
<1>2. /\ w[p] \in CallSet /\ w[p].o \in Open /\ ip(p) \in Inode /\ off[w[p].o] \in Nat
      /\ size[ip(p)] \in Nat /\ ip(p) = InodeOf[w[p].o] /\ Len(w[p].s) \in Nat
      /\ w[p].s \in Seq(Nat)
      /\ w[p].n \in Nat /\ lock[ip(p)] = p /\ Idle.pc = "user"
  BY <1>0, <1>1, DataCaller DEF Busy
<1>3. PICK i \in Inode, o \in Open, s \in Seq(Nat), n \in Nat, a \in Nat :
        i = ip(p) /\ o = w[p].o /\ s = w[p].s /\ n = w[p].n /\ a = off[o] /\ i = InodeOf[o]
  BY <1>2
<1>4. n <= Len(s) /\ a + n <= MAXFILE * BSIZE
  BY <1>0, <1>1, <1>3 DEF DataCalls, DataCall
<1>5. PICK l \in Nat : l = IF a + n > size[i] THEN a + n ELSE size[i]
  BY <1>2, <1>3
<1>6. PICK v : v = SubSeq(s, n + 1, Len(s))
  OBVIOUS
<1>7. PICK x : x = IF v = <<>> THEN Idle ELSE [w[p] EXCEPT !.pc = "begin", !.s = v, !.n = 0, !.tot = 0]
  OBVIOUS
<1>8. /\ w' = [w EXCEPT ![p] = x] /\ lock' = [lock EXCEPT ![i] = NoProc]
      /\ saved' = [saved EXCEPT ![i] = <<>>] /\ off' = [off EXCEPT ![o] = a + n]
      /\ logged' = [logged EXCEPT ![p] = {}]
      /\ UNCHANGED <<blocks, addrs>>
  BY <1>3, <1>6, <1>7 DEF write_end, go
<1>9. data' = data /\ ptr' = ptr /\ addrs' = addrs
  BY <1>8 DEF blocks
<1>10. size' = [size EXCEPT ![i] = l]
  <2>1. CASE a + n > size[i]
    BY <1>3, <1>5, <2>1 DEF write_end, Grew
  <2>2. CASE ~(a + n > size[i])
    <3>1. size' = size
      BY <1>3, <2>2 DEF write_end, Grew
    <3> QED
      BY <1>0, <1>5, <2>2, <3>1 DEF DataTypes
  <2> QED
    BY <2>1, <2>2
<1>11. /\ w'[p] = x /\ size'[i] = l /\ lock'[i] = NoProc /\ logged'[p] = {}
       /\ \A q \in Proc \ {p} : logged'[q] = logged[q]
       /\ \A j \in Inode \ {i} : addrs'[j] = addrs[j] /\ size'[j] = size[j]
       /\ \A u \in Open : InodeOf[u] # i => off'[u] = off[u]
  BY <1>0, <1>3, <1>8, <1>9, <1>10 DEF DataTypes
<1>12. StillBut(p, {i})
  BY <1>0, <1>8, <1>9, <1>11, QuietStill
<1>13. Steady(p)
  BY <1>2, <1>3, <1>12 DEF Steady
<1>14. PICK u \in Str : \E c \in 1..Len(u) + 1 : s = SubSeq(u, c, Len(u))
  BY <1>1, <1>3 DEF DataBytes, BytesOf, Pending
<1>15. PICK c \in 1..Len(u) + 1 : s = SubSeq(u, c, Len(u))
  BY <1>14
<1>16. u \in Seq(Nat)
  BY FileDataAssumption
<1>17. PICK t : /\ t = SubSeq(s, 1, n) /\ Len(t) = n /\ t = SubSeq(u, c, c + n - 1)
                /\ v = SubSeq(u, c + n, Len(u)) /\ c + n \in 1..Len(u) + 1
  <2>1. /\ Len(SubSeq(s, 1, n)) = n /\ SubSeq(s, 1, n) = SubSeq(u, c, c + n - 1)
        /\ SubSeq(s, n + 1, Len(s)) = SubSeq(u, c + n, Len(u)) /\ c + n \in 1..Len(u) + 1
    <3>1. n <= Len(s)
      BY <1>4
    <3>2. s = SubSeq(u, c, Len(u))
      BY <1>15
    <3>3. TailSplit(u, c, s, n)
      BY <1>16, <3>1, <3>2, TailParts, ZenonT(60)
    <3> QED
      BY <3>3, Zenon DEF TailSplit
  <2> QED
    BY <1>6, <2>1, Zenon
<1>18. x.pc \notin Busy /\ x.pc # "writei"
       /\ (x.pc = "begin" => x.s = SubSeq(u, c + n, Len(u)))
  <2>1. CASE v = <<>>
    BY <1>2, <1>7, <2>1 DEF Busy
  <2>2. CASE v # <<>>
    <3>1. x.pc = "begin" /\ x.s = v
      BY <1>2, <1>7, <2>2 DEF CallSet
    <3> QED
      BY <1>17, <3>1 DEF Busy
  <2> QED
    BY <2>1, <2>2
<1>19. LogsOf(p)'
  BY <1>11, <1>18 DEF LogsOf, Busy
<1>20. BytesOf(p)'
  <2>1. Pending(p)'
    BY <1>11, <1>17, <1>18 DEF Pending
  <2> QED
    BY <1>11, <1>18, <2>1 DEF BytesOf
<1>21. /\ Contents(i)' = BF!Overlay(saved[i], a, t)
       /\ n = 0 => Contents(i)' = saved[i]
  <2>1. Ended(p, i, a, n, s, l)
    BY <1>1, <1>3, <1>4, <1>5, <1>9, <1>11 DEF Ended
  <2> QED
    BY <1>17, <2>1, EndedContents
<1>22. Content(i) = saved[i] /\ Content(i)' = Contents(i)'
  BY <1>2, <1>3, <1>11, FileDataAssumption DEF Content
<1>23. NoChange({i})
  BY <1>12, StillContent
<1>24. FileStep
  <2>1. CASE n = 0
    <3>1. off' = off
      BY <1>0, <1>3, <1>8, <2>1 DEF DataTypes
    <3>2. NoChange({})
      BY <1>21, <1>22, <1>23, <2>1 DEF NoChange
    <3> QED
      BY <3>1, <3>2 DEF FileStep
  <2>2. CASE n # 0
    <3>1. c \in 1..Len(u) /\ c + n - 1 \in 1..Len(u)
      <4>1. Len(u) \in Nat
        BY <1>16
      <4> QED
        BY <1>17, <2>2, <4>1
    <3>2. t \in Pieces
      <4>1. PICK f \in 1..Len(u), g \in 1..Len(u) : t = SubSeq(u, f, g)
        BY <1>17, <3>1, Zenon
      <4> QED
        BY <4>1, PieceIs
    <3>3. Puts(o, t)
      <4>1. off[o] + Len(t) = a + n
        BY <1>3, <1>17
      <4> QED
        BY <1>3, <1>4, <1>8, <1>21, <1>22, <1>23, <4>1 DEF Puts
    <3> QED
      BY <3>2, <3>3 DEF FileStep
  <2> QED
    BY <2>1, <2>2
<1> QED
  BY <1>13, <1>19, <1>20, <1>24 DEF Good

LEMMA InitMore ==
  ASSUME Init
  PROVE  DataLogs /\ DataBytes
PROOF
<1>1. w = [p \in Proc |-> Idle] /\ logged = [p \in Proc |-> {}] /\ Idle.pc = "user"
  BY DEF Init, Idle
<1>2. \A p \in Proc : w[p].pc = "user" /\ logged[p] = {}
  BY <1>1
<1> QED
  BY <1>2 DEF DataLogs, LogsOf, DataBytes, BytesOf, Pending, Busy

LEMMA StepMore ==
  ASSUME DataInv, DataLogs, DataBytes, [Next]_vars
  PROVE  DataLogs' /\ DataBytes' /\ FileStep
PROOF
<1>1. ASSUME NEW p \in Proc, Step(p) PROVE Good(p)
  <2>1. CASE \E o \in Open, n \in ReadLength : fileread(p, o, n)
    BY <2>1, FilereadGood
  <2>2. CASE \E o \in Open, s \in Str : filewrite(p, o, s)
    BY <2>2, FilewriteGood
  <2>3. CASE writei(p)
    BY <2>3, WriteiGood
  <2>4. CASE write_block(p)
    BY <2>4, WriteBlockGood
  <2>5. CASE write_end(p)
    BY <2>5, WriteEndGood
  <2>6. CASE \E i \in Inode : remove(p, i)
    BY <2>6, RemoveGood
  <2>7. CASE trunc_block(p)
    BY <2>7, TruncBlockGood
  <2>8. CASE trunc_end(p)
    BY <2>8, TruncEndGood
  <2> QED
    BY <1>1, <2>1, <2>2, <2>3, <2>4, <2>5, <2>6, <2>7, <2>8 DEF Step
<1>2. ASSUME NEW p \in Proc, Step(p) PROVE DataLogs' /\ DataBytes' /\ FileStep
  <2>1. LogsOf(p)' /\ BytesOf(p)' /\ FileStep /\ Steady(p)
    BY <1>1, <1>2 DEF Good
  <2>2. PICK S \in SUBSET Inode : StillBut(p, S) /\ \A j \in S : lock[j] \in {NoProc, p}
    BY <2>1 DEF Steady
  <2>3. \A q \in Proc \ {p} : LogsOf(q)' /\ BytesOf(q)'
    BY <2>2, OthersKept
  <2>4. \A q \in Proc : LogsOf(q)' /\ BytesOf(q)'
    BY <2>1, <2>3
  <2> QED
    BY <2>1, <2>4 DEF DataLogs, DataBytes
<1>3. CASE UNCHANGED vars
  <2>1. /\ data' = data /\ ptr' = ptr /\ addrs' = addrs /\ size' = size /\ lock' = lock
        /\ off' = off
        /\ w' = w /\ logged' = logged /\ saved' = saved
    BY <1>3 DEF vars
  <2>2. DataLogs'
    <3> SUFFICES ASSUME NEW p \in Proc PROVE LogsOf(p)'
      BY DEF DataLogs
    <3>1. LogsOf(p)
      BY DEF DataLogs
    <3> QED
      BY <2>1, <3>1, ZenonT(60) DEF LogsOf, Reached, Entry, ip
  <2>3. DataBytes'
    BY <2>1, ZenonT(60) DEF DataBytes, BytesOf, Pending, Overwritten, Byte, BlockOf, ip
  <2>4. NoChange({})
    BY <2>1 DEF NoChange, Content, Contents, Bytes, BlockOf
  <2> QED
    BY <2>1, <2>2, <2>3, <2>4 DEF FileStep
<1> QED
  BY <1>2, <1>3 DEF Next

(* The invariant of DataInvHolds with what transactions have logged, and   *)
(* what calls have written of what they were given.                        *)
THEOREM DataMoreHolds == Spec => [](DataInv /\ DataLogs /\ DataBytes)
PROOF
<1>1. Init => DataInv /\ DataLogs /\ DataBytes
  BY DataInit, InitMore
<1>2. DataInv /\ DataLogs /\ DataBytes /\ [Next]_vars => DataInv' /\ DataLogs' /\ DataBytes'
  BY DataStep, StepMore
<1> QED
  BY <1>1, <1>2, PTL DEF Spec

LEMMA Spread ==
  ASSUME NEW f \in Nat, NEW t \in Nat, NEW s \in Nat
  PROVE  (f + t + 1) * s = f * s + t * s + s
PROOF
<1>1. (f + t) * s = f * s + t * s
  OBVIOUS
<1>2. PICK g \in Nat : g = f + t
  OBVIOUS
<1>3. (g + 1) * s = g * s + s
  OBVIOUS
<1>4. g * s = f * s + t * s
  BY <1>1, <1>2, Zenon
<1>5. f + t + 1 = g + 1
  BY <1>2
<1> QED
  BY <1>3, <1>4, <1>5, Zenon

(* A write of t blocks that is not aligned touches t + 1. *)
LEMMA ReachedFew ==
  ASSUME NEW p \in Proc, NEW a \in Nat, a = off[w[p].o], NEW h \in Nat, h = w[p].tot,
         NEW t \in Nat, h <= t * BSIZE
  PROVE  IsFiniteSet(Reached(p)) /\ Cardinality(Reached(p)) <= t + 1
         /\ Cardinality(Reached(p)) \in Nat
PROOF
<1>1. PICK s \in Nat \ {0} : s = BSIZE
  BY DataSizes
<1>2. PICK f \in Nat : f * s <= a /\ a < f * s + s
  BY Divided
<1>3. PICK b \in Nat, c \in Nat : b = f * s /\ c = t * s /\ b <= a /\ a < b + s /\ h <= c
  BY <1>1, <1>2
<1>4. (f + t + 1) * s = b + c + s
  <2>1. (f + t + 1) * s = f * s + t * s + s
    BY Spread
  <2> QED
    BY <1>3, <2>1
<1>5. Reached(p) \subseteq f..f + t
  <2> SUFFICES ASSUME NEW k \in Reached(p) PROVE k \in f..f + t
    OBVIOUS
  <2>1. k \in Int /\ a < k * s + s /\ k * s < a + h
    BY <1>1, DataSizes DEF Reached
  <2>2. PICK d \in Int : d = k * s /\ a < d + s /\ d < a + h
    BY <2>1, Product
  <2>3. ~(k < f)
    <3>1. k < f => d + s <= b
      BY <1>3, <2>1, <2>2, Product
    <3> QED
      BY <1>3, <2>2, <3>1
  <2>4. k < f + t + 1
    <3>1. PICK g \in Int : g = f + t + 1 /\ g * s = b + c + s
      BY <1>4
    <3>2. k < g <=> d < g * s
      BY <2>1, <2>2, <3>1, Product
    <3>3. d < b + c + s
      BY <1>3, <2>2
    <3> QED
      BY <3>1, <3>2, <3>3
  <2> QED
    BY <2>1, <2>3, <2>4
<1>6. IsFiniteSet(f..f + t) /\ Cardinality(f..f + t) = t + 1
  <2>1. PICK g \in Int : g = f + t /\ ~(f > g) /\ g - f + 1 = t + 1
    OBVIOUS
  <2>2. IsFiniteSet(f..g) /\ Cardinality(f..g) = IF f > g THEN 0 ELSE g - f + 1
    BY FS_Interval
  <2> QED
    BY <2>1, <2>2
<1>7. IsFiniteSet(Reached(p)) /\ Cardinality(Reached(p)) <= t + 1
  BY <1>5, <1>6, FS_Subset
<1> QED
  BY <1>7, FS_CardinalityType

LEMMA ImageSmall ==
  ASSUME NEW S, IsFiniteSet(S), NEW T1, NEW g \in [S -> T1], \A y \in T1 : \E x \in S : g[x] = y
  PROVE  IsFiniteSet(T1) /\ Cardinality(T1) <= Cardinality(S)
PROOF
<1>1. g \in Surjection(S, T1)
  BY DEF Surjection
<1> QED
  BY <1>1, FS_Surjection

LEMMA AddOne ==
  ASSUME NEW S, NEW x, IsFiniteSet(S)
  PROVE  IsFiniteSet(S \cup {x}) /\ Cardinality(S \cup {x}) <= Cardinality(S) + 1
PROOF
<1>1. Cardinality(S) \in Nat
  BY FS_CardinalityType
<1> QED
  BY <1>1, FS_AddElement

(* Half the log and four blocks more are less than the log. *)
LEMMA InvFits ==
  ASSUME DataInv, DataLogs
  PROVE  RoundFitsLog
PROOF
<1>0. DataTypes /\ DataCalls
  BY DEF DataInv
<1>1. LOGSIZE \in Nat /\ LOGSIZE >= 6
  BY FileDataAssumption
<1>2. PICK t \in Nat : t = (LOGSIZE - 1 - 1 - 2) \div 2
  BY <1>1
<1>3. t + 4 <= LOGSIZE - 1
  BY <1>1, <1>2
<1>4. MaxWrite = t * BSIZE
  BY <1>2 DEF MaxWrite
<1>5. ASSUME NEW p \in Proc, NEW L, IsFiniteSet(L), Cardinality(L) <= t + 3, logged[p] \subseteq L
      PROVE  Cardinality(logged[p]) + 1 <= LOGSIZE - 1
  <2>1. IsFiniteSet(logged[p]) /\ Cardinality(logged[p]) <= Cardinality(L)
    BY <1>5, FS_Subset
  <2>2. Cardinality(logged[p]) \in Nat /\ Cardinality(L) \in Nat
    BY <1>5, <2>1, FS_CardinalityType
  <2> QED
    BY <1>1, <1>3, <1>5, <2>1, <2>2
<1>6. ASSUME NEW p \in Proc, w[p].pc # "writei" PROVE Cardinality(logged[p]) + 1 <= LOGSIZE - 1
  <2>1. logged[p] \subseteq {Bitmap}
    <3>1. w[p] \in CallSet
      BY <1>0 DEF DataTypes
    <3> QED
      BY <1>6, <3>1 DEF DataLogs, LogsOf, Busy, CallSet
  <2>2. IsFiniteSet({Bitmap}) /\ Cardinality({Bitmap}) = 1
    BY FS_Singleton
  <2>3. Cardinality({Bitmap}) <= t + 3
    BY <2>2
  <2> QED
    BY <1>5, <2>1, <2>2, <2>3
<1>7. ASSUME NEW p \in Proc, w[p].pc = "writei" PROVE Cardinality(logged[p]) + 1 <= LOGSIZE - 1
  <2>1. /\ w[p].tot \in Nat /\ w[p].n \in Nat /\ off[w[p].o] \in Nat
    BY <1>0, <1>7, DataCaller
  <2>2. w[p].tot <= w[p].n /\ w[p].n <= MaxWrite
    BY <1>0, <1>7 DEF DataCalls, DataCall
  <2>3. PICK m \in Nat : m = MaxWrite
    BY DataSizes
  <2>4. w[p].tot <= m
    BY <2>1, <2>2, <2>3
  <2>5. PICK R : R = Reached(p) /\ IsFiniteSet(R) /\ Cardinality(R) <= t + 1 /\ Cardinality(R) \in Nat
    BY <1>4, <2>1, <2>3, <2>4, ReachedFew
  <2>6. PICK E1 : E1 = {Entry(ip(p), PlaceOf(bn)) : bn \in R}
    OBVIOUS
  <2>7. IsFiniteSet(E1) /\ Cardinality(E1) <= Cardinality(R)
    <3>1. PICK g : g = [bn \in R |-> Entry(ip(p), PlaceOf(bn))]
      OBVIOUS
    <3>2. g \in [R -> E1] /\ \A y \in E1 : \E bn \in R : g[bn] = y
      BY <2>6, <3>1
    <3> QED
      BY <2>5, <3>2, ImageSmall
  <2>8. PICK B1, D1 : B1 = E1 \cup {Bitmap} /\ D1 = B1 \cup {Entry(ip(p), NDIRECT)}
    OBVIOUS
  <2>9. IsFiniteSet(B1) /\ Cardinality(B1) <= Cardinality(E1) + 1 /\ Cardinality(E1) \in Nat
    <3>1. Cardinality(E1) \in Nat
      BY <2>7, FS_CardinalityType
    <3> QED
      BY <2>7, <2>8, <3>1, AddOne
  <2>10. IsFiniteSet(D1) /\ Cardinality(D1) <= Cardinality(B1) + 1 /\ Cardinality(B1) \in Nat
    <3>1. Cardinality(B1) \in Nat
      BY <2>9, FS_CardinalityType
    <3> QED
      BY <2>8, <2>9, <3>1, AddOne
  <2>11. Cardinality(D1) <= t + 3
    <3>1. Cardinality(D1) \in Nat
      BY <2>10, FS_CardinalityType
    <3> QED
      BY <2>5, <2>7, <2>9, <2>10, <3>1
  <2>12. logged[p] \subseteq D1
    <3>1. logged[p] \subseteq {Bitmap, Entry(ip(p), NDIRECT)} \cup
                              {Entry(ip(p), PlaceOf(bn)) : bn \in Reached(p)}
      BY <1>7 DEF DataLogs, LogsOf
    <3>2. logged[p] \subseteq {Bitmap, Entry(ip(p), NDIRECT)} \cup E1
      BY <2>5, <2>6, <3>1, Zenon
    <3> QED
      BY <2>8, <3>2
  <2> QED
    BY <1>5, <2>10, <2>11, <2>12
<1> QED
  BY <1>6, <1>7 DEF RoundFitsLog

(* A transaction of filewrite logs at most the blocks its bytes touch, one *)
(* more than they fill, with the indirect block, the bitmap and the inode; *)
(* cut at half the log (file.c:133) they never reach the end of the log,   *)
(* where log_write panics (log.c:216), for every LOGSIZE that lets a round *)
(* write at least one block.                                               *)
THEOREM RoundsFitLog == Spec => []RoundFitsLog
PROOF
<1>1. DataInv /\ DataLogs /\ DataBytes => RoundFitsLog
  BY InvFits
<1> QED
  BY <1>1, DataMoreHolds, PTL

LEMMA FileStepIs ==
  ASSUME DataInv, FileStep
  PROVE  [BF!Next]_(BF!vars)
PROOF
<1>0. DataTypes
  BY DEF DataInv
<1>1. PICK c, d : /\ c = [i \in Inode |-> IF lock[i] = NoProc THEN Contents(i) ELSE saved[i]]
                  /\ d = [i \in Inode |-> IF lock'[i] = NoProc THEN Contents(i)' ELSE saved'[i]]
  OBVIOUS
<1>2. (\A i \in Inode : c[i] = Content(i) /\ d[i] = Content(i)')
      /\ c = [i \in Inode |-> c[i]] /\ d = [i \in Inode |-> d[i]]
  BY <1>1 DEF Content
<1>3. \A o \in Open : InodeOf[o] \in Inode
  BY FileDataAssumption
<1>4. CASE off' = off /\ NoChange({})
  <2>1. c = d
    BY <1>2, <1>4 DEF NoChange
  <2> QED
    BY <1>1, <1>4, <2>1 DEF BF!vars
<1>5. ASSUME NEW o \in Open, NEW n \in 0..MAXFILE * BSIZE, Reads(o, n) PROVE BF!Next
  <2>1. c = d
    BY <1>2, <1>5 DEF NoChange, Reads
  <2>2. off' = [off EXCEPT ![o] = BF!Least(off[o] + n, Len(c[InodeOf[o]]))]
    BY <1>2, <1>3, <1>5 DEF Reads
  <2>3. BF!Read(o, n)
    BY <1>1, <2>1, <2>2 DEF BF!Read
  <2> QED
    BY <2>3 DEF BF!Next
<1>6. ASSUME NEW o \in Open, NEW t \in Pieces, Puts(o, t) PROVE BF!Next
  <2>1. PICK i \in Inode : i = InodeOf[o]
    BY <1>3
  <2>2. d = [c EXCEPT ![i] = BF!Overlay(c[i], off[o], t)]
    <3>1. d[i] = BF!Overlay(c[i], off[o], t) /\ \A j \in Inode \ {i} : d[j] = c[j]
      BY <1>2, <1>6, <2>1 DEF Puts, NoChange
    <3> QED
      BY <1>2, <3>1
  <2>3. BF!Write(o, t)
    BY <1>1, <1>6, <2>1, <2>2 DEF BF!Write, Puts
  <2> QED
    BY <2>3 DEF BF!Next
<1>7. ASSUME NEW i \in Inode, Empties(i) PROVE BF!Next
  <2>1. d = [c EXCEPT ![i] = <<>>]
    <3>1. d[i] = <<>> /\ \A j \in Inode \ {i} : d[j] = c[j]
      BY <1>2, <1>7 DEF Empties, NoChange
    <3> QED
      BY <1>2, <3>1
  <2>2. BF!Remove(i)
    BY <1>1, <1>7, <2>1 DEF BF!Remove, Empties
  <2> QED
    BY <2>2 DEF BF!Next
<1> QED
  BY <1>4, <1>5, <1>6, <1>7 DEF FileStep

LEMMA FileInit ==
  ASSUME Init
  PROVE  BF!Init
PROOF
<1>1. /\ size = [i \in Inode |-> 0] /\ lock = [i \in Inode |-> NoProc] /\ off = [o \in Open |-> 0]
  BY DEF Init
<1>2. \A i \in Inode : size[i] = 0 /\ lock[i] = NoProc
  BY <1>1
<1>3. \A i \in Inode : Contents(i) = <<>>
  BY <1>2 DEF Contents, Bytes
<1> QED
  BY <1>1, <1>2, <1>3 DEF BF!Init

(* Files are sequences of bytes: whatever the calls, and however those on  *)
(* different inodes interleave block by block, each transaction of         *)
(* filewrite puts its bytes at the offset, over what was there or past the *)
(* end, in one step and with no effect on another file; a read moves the   *)
(* offset by the bytes that are there.                                     *)
THEOREM FilesAreBytes == Spec => ByteFileSpec
PROOF
<1>1. Init => BF!Init
  BY FileInit
<1>2. DataInv /\ DataLogs /\ DataBytes /\ [Next]_vars => [BF!Next]_(BF!vars)
  BY StepMore, FileStepIs
<1> QED
  BY <1>1, <1>2, DataMoreHolds, PTL DEF Spec, ByteFileSpec, BF!Spec

-----------------------------------------------------------------------------
(* The parts side by side. *)

(* MCSpec runs one part, and the others stay as they were at boot: each of *)
(* its behaviours is one of each part.                                     *)
LEMMA KernelParts == MCSpec => Spec /\ TableSpec /\ VmSpec /\ ConsoleSpec
PROOF
<1>1. MCInit => Init /\ T!Init /\ V!Init /\ C!Init
  BY DEF MCInit
<1>2. [MCNext]_<<vars, tvars, vmvars, consvars, part>>
        => [Next]_vars /\ [T!Next]_tvars /\ [V!Next]_vmvars /\ [ConsoleNext]_consvars
  BY DEF MCNext, ConsoleNext
<1> QED
  BY <1>1, <1>2, PTL DEF MCSpec, Spec, TableSpec, VmSpec, ConsoleSpec

(* What the run of MCKernel checks of the contents of files and their      *)
(* blocks (fs.c), of the open files (file.c), of the pages (kalloc.c,      *)
(* vm.c), of the sleepers on ticks (sysproc.c, trap.c) and of the          *)
(* console's lines (console.c), for every value of the constants.          *)
THEOREM KernelIsSafe ==
  MCSpec => /\ [](BlocksOwned /\ InodeOnDisk /\ RoundFitsLog /\ TableExact)
            /\ [](PagesConserved /\ SizeMapped /\ NoOversleep)
            /\ ByteFileSpec /\ LineSpec
PROOF
  BY KernelParts, BlocksKept, InodesWritten, RoundsFitLog, FilesAreBytes, FilesNeverLost, PagesNeverLost,
     SizesTellMapped, NobodyOversleeps, ConsoleImplementsLines, PTL

=============================================================================
