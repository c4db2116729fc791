--------------------------------- MODULE Vm ---------------------------------
(***************************************************************************)
(* Physical pages (kalloc.c) and the address spaces of processes (vm.c,    *)
(* exec.c, and growproc, fork and wait of proc.c).  A page of the free     *)
(* list is like any other, so the list is its length, and an address space *)
(* is the set of its mapped pages with the number of pages its tables      *)
(* take.  Sizes are in units of which a page has PGSIZE: they need not be  *)
(* aligned.  The first page is never mapped; the second holds the code.    *)
(* A call works on page tables of its own and takes pages one at a time    *)
(* under kmem.lock, so a call is one step, except that exec keeps two      *)
(* address spaces from loading to its end.                                 *)
(***************************************************************************)
EXTENDS Integers, FiniteSets, FiniteSetsExt, Functions

CONSTANTS
  VProc,
  NPAGES,        \* physical pages
  PGSIZE,
  KERNBASE,      \* the end of user memory
  WORD,          \* a uint is below it; addresses are longer
  LEVELS,        \* pages of tables under the PML4 that map user memory
  Delta,         \* arguments of sbrk
  Program        \* what exec may be given: the ends of the segments

VARIABLES
  nfree,         \* the length of kmem.freelist
  vstate,        \* of each process: "unused", "run" or "zombie"
  kstack,        \* whether it has a kernel stack
  space, sz,
  new, newsz,    \* the address space exec is building, and its size
  vpanic

Index == 0..(KERNBASE \div PGSIZE) + 2
PGROUNDUP(a) == (a + PGSIZE - 1) \div PGSIZE     \* as an index

(* guard is the page that clearpteu marked: the mark goes with the page. *)
NoSpace == [pml4 |-> 0, tables |-> 0, map |-> {}, guard |-> 0]
PagesOf(A) == A.pml4 + A.tables + Cardinality(A.map)

(* mappages at the indices K, with the tables walkpgdir has to add, which  *)
(* stay when the pages are taken away.  It panics on a page that is there. *)
Tables(A, K) == IF K # {} /\ A.tables = 0 THEN LEVELS ELSE 0
Cost(A, K) == Cardinality(K) + Tables(A, K)
mappages(A, K) == [A EXCEPT !.map = @ \cup K, !.tables = @ + Tables(A, K)]

(* Mutant: the old size is rounded down. *)
Added_Down(old, to) == {k \in Index : old \div PGSIZE <= k /\ k * PGSIZE < to}

(* allocuvm and deallocuvm: the pages to add, to a size below KERNBASE,    *)
(* and those to take away.                                                 *)
Added(old, to) == {k \in Index : PGROUNDUP(old) <= k /\ k * PGSIZE < to}
Dropped(A, old, to) == {k \in A.map : PGROUNDUP(to) <= k /\ k * PGSIZE < old}

(* A table with the kernel's mappings, and the user's at the indices K *)
setupkvm(K) == mappages([NoSpace EXCEPT !.pml4 = 1], K)

initproc == CHOOSE p \in VProc : TRUE

(* userinit: a kernel stack, and inituvm's page with the first code *)
Init ==
  /\ nfree = NPAGES - PagesOf(setupkvm({1})) - 1
  /\ vstate = [p \in VProc |-> IF p = initproc THEN "run" ELSE "unused"]
  /\ kstack = [p \in VProc |-> p = initproc]
  /\ space = [p \in VProc |-> IF p = initproc THEN setupkvm({1}) ELSE NoSpace]
  /\ sz = [p \in VProc |-> IF p = initproc THEN 2 * PGSIZE ELSE 0]
  /\ new = [p \in VProc |-> NoSpace]
  /\ newsz = [p \in VProc |-> 0]
  /\ vpanic = ""

-----------------------------------------------------------------------------

(* A process runs user code as long as the code is mapped. *)
Runs(p) == vstate[p] = "run" /\ new[p] = NoSpace /\ 1 \in space[p].map

(* A call that takes n pages.  kalloc panics when there is none left, and  *)
(* why holds for what else makes it panic.                                 *)
Panics(n, why) ==
  /\ nfree < n \/ why # ""
  /\ vpanic' = IF nfree < n THEN "Out of memory!" ELSE why
  /\ UNCHANGED <<nfree, vstate, kstack, space, sz, new, newsz>>
kalloc(n) == nfree >= n /\ nfree' = nfree - n
kfree(n) == nfree' = nfree + n

(* growproc by n > 0 *)
grow(p, n) ==
  LET K == Added(sz[p], sz[p] + n)
      remap == IF K \cap space[p].map = {} THEN "" ELSE "remap"
  IN
  /\ Runs(p) /\ n > 0 /\ sz[p] + n < KERNBASE
  /\ \/ Panics(Cost(space[p], K), remap)
     \/ /\ remap = ""
        /\ kalloc(Cost(space[p], K))
        /\ space' = [space EXCEPT ![p] = mappages(@, K)]
        /\ sz' = [sz EXCEPT ![p] = @ + n]
        /\ UNCHANGED <<vstate, kstack, new, newsz, vpanic>>

(* growproc by n < 0.  A sum below zero wraps, and nothing happens; a new  *)
(* size of zero looks like an error, and proc->sz is left as it was.       *)
shrink(p, n) ==
  LET to == sz[p] + n
      K == Dropped(space[p], sz[p], to)
  IN
  /\ Runs(p) /\ n < 0 /\ to >= 0
  /\ kfree(Cardinality(K))
  /\ space' = [space EXCEPT ![p].map = @ \ K, ![p].guard = IF @ \in K THEN 0 ELSE @]
  /\ sz' = [sz EXCEPT ![p] = IF to = 0 THEN @ ELSE to]
  /\ UNCHANGED <<vstate, kstack, new, newsz, vpanic>>

(* fork: allocproc takes the kernel stack, and copyuvm copies each page    *)
(* below sz, with its flags; it panics if one is not there.                *)
Copied(p) == {k \in Index : 1 <= k /\ k * PGSIZE < sz[p]}

fork(p, q) ==
  LET copy == [setupkvm(Copied(p)) EXCEPT !.guard = space[p].guard]
      missing == IF Copied(p) \subseteq space[p].map THEN "" ELSE "copyuvm: page not present"
  IN
  /\ Runs(p) /\ vstate[q] = "unused"
  /\ \/ Panics(PagesOf(copy) + 1, missing)
     \/ /\ missing = ""
        /\ kalloc(PagesOf(copy) + 1)
        /\ space' = [space EXCEPT ![q] = copy]
        /\ kstack' = [kstack EXCEPT ![q] = TRUE]
        /\ vstate' = [vstate EXCEPT ![q] = "run"]
        /\ sz' = [sz EXCEPT ![q] = sz[p]]
        /\ UNCHANGED <<new, newsz, vpanic>>

(* exec builds the new address space: up to the end of the last segment,   *)
(* and two pages more at the next boundary, the first one not the user's.  *)
exec_load(p, segs) ==
  LET end == Max({PGSIZE} \cup segs)
      top == PGROUNDUP(end)
      image == [setupkvm(Added(PGSIZE, end) \cup {top, top + 1}) EXCEPT !.guard = top]
  IN
  /\ Runs(p) /\ (top + 2) * PGSIZE < KERNBASE
  /\ \/ Panics(PagesOf(image), "")
     \/ /\ kalloc(PagesOf(image))
        /\ new' = [new EXCEPT ![p] = image]
        /\ newsz' = [newsz EXCEPT ![p] = (top + 2) * PGSIZE]
        /\ UNCHANGED <<vstate, kstack, space, sz, vpanic>>

(* Mutant: the tables below the PML4 are kept. *)
freevm_KeepsTables(A) == A.pml4 + Cardinality(A.map)

(* freevm walks the tables and frees what they map, and the tables. *)
freevm(A) == PagesOf(A)

(* exec commits, or the program or its arguments were bad: a short file,   *)
(* too many arguments, or more than fit above the guard page.  The address *)
(* space that is not used is freed.                                        *)
exec_end(p) ==
  /\ vstate[p] = "run" /\ new[p] # NoSpace
  /\ \/ /\ space' = [space EXCEPT ![p] = new[p]]
        /\ sz' = [sz EXCEPT ![p] = newsz[p]]
        /\ kfree(freevm(space[p]))
     \/ /\ kfree(freevm(new[p]))
        /\ UNCHANGED <<space, sz>>
  /\ new' = [new EXCEPT ![p] = NoSpace]
  /\ newsz' = [newsz EXCEPT ![p] = 0]
  /\ UNCHANGED <<vstate, kstack, vpanic>>

(* exit, by the program or because of a page fault in it *)
exit(p) ==
  /\ vstate[p] = "run" /\ p # initproc /\ new[p] = NoSpace
  /\ vstate' = [vstate EXCEPT ![p] = "zombie"]
  /\ UNCHANGED <<nfree, kstack, space, sz, new, newsz, vpanic>>

(* wait frees the kernel stack and the address space, whatever sz says. *)
wait(p) ==
  /\ vstate[p] = "zombie"
  /\ kfree(freevm(space[p]) + 1)
  /\ kstack' = [kstack EXCEPT ![p] = FALSE]
  /\ space' = [space EXCEPT ![p] = NoSpace]
  /\ sz' = [sz EXCEPT ![p] = 0]
  /\ vstate' = [vstate EXCEPT ![p] = "unused"]
  /\ UNCHANGED <<new, newsz, vpanic>>

(* Nothing moves after a panic; "init exiting" is one too. *)
Stopped == vpanic # "" \/ (1 \notin space[initproc].map /\ new[initproc] = NoSpace)

Next ==
  \/ /\ vpanic = ""
     /\ \E p \in VProc :
          \/ \E n \in Delta : grow(p, n) \/ shrink(p, n)
          \/ \E q \in VProc : fork(p, q)
          \/ \E segs \in Program : exec_load(p, segs)
          \/ exec_end(p) \/ exit(p) \/ wait(p)
  \/ Stopped /\ UNCHANGED <<nfree, vstate, kstack, space, sz, new, newsz, vpanic>>

-----------------------------------------------------------------------------
(* Properties *)

(* Every page is free, or has one use in one process: no sequence of fork, *)
(* sbrk, exec, failed exec, exit and wait loses a page or frees it twice,  *)
(* also after an sbrk that removed the whole process.                      *)
UsedBy(p) == PagesOf(space[p]) + PagesOf(new[p]) + (IF kstack[p] THEN 1 ELSE 0)
PagesConserved == nfree + SumFunction([p \in VProc |-> UsedBy(p)]) = NPAGES

(* fetchint and fetchaddr: n units from a on are user memory. *)
fetchaddr(p, a, n) == a >= PGSIZE /\ a < sz[p] /\ a + n <= sz[p]

(* argptr, for the pointers of read, write, fstat and pipe.  It looks at   *)
(* the low word of i only and hands on i as it is, and has no lower bound. *)
(* (The sum, of unsigned ints, does not wrap: sz is less than the memory   *)
(* there is, 0xE000000, and n is a positive int.)                          *)
argptr(p, i, n) == (i % WORD) < sz[p] /\ (i % WORD) + n <= sz[p]

Pages(a, n) == (a \div PGSIZE)..((a + n - 1) \div PGSIZE)

(* proc->sz tells what is mapped.  What fetchaddr accepts lies in mapped   *)
(* pages; what argptr accepts of pointers of one word does, but for the    *)
(* first page, which is not mapped and which argptr lets pass.  mappages   *)
(* never maps a page twice and copyuvm finds every page below sz, so that  *)
(* neither panics.  The page below the stack is there as long as the stack *)
(* is.  (A process without its code is killed by a page fault before it    *)
(* makes a call.)                                                          *)
SizeMapped ==
  /\ vpanic \notin {"remap", "copyuvm: page not present"}
  /\ \A p \in VProc : Runs(p) =>
       /\ \A i \in {j \in 0..sz[p] : j < WORD}, n \in 1..sz[p] :
            /\ fetchaddr(p, i, n) => Pages(i, n) \subseteq space[p].map
            /\ argptr(p, i, n) => Pages(i, n) \subseteq space[p].map \cup {0}
       /\ \A k \in space[p].map : 1 <= k /\ k * PGSIZE < sz[p]
       /\ space[p].guard # 0 => space[p].guard \in space[p].map

=============================================================================
