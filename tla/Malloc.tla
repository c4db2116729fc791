------------------------------- MODULE Malloc -------------------------------
(***************************************************************************)
(* The allocator of user programs (umalloc.c): a circular list of free     *)
(* blocks, ordered by address, from which malloc takes the tail of the     *)
(* first block that is large enough, and to which free returns a block,    *)
(* joined with its neighbours.  Addresses and sizes are in units of        *)
(* sizeof(Header).  The program may move the end of memory by sbrk too.    *)
(***************************************************************************)
EXTENDS Integers, FiniteSets, FiniteSetsExt

CONSTANTS
  HEADER,        \* sizeof(Header)
  CHUNK,         \* the least number of units to ask the kernel for: 4096
  HEAPEND,       \* where sbrk fails
  Bytes,         \* arguments of malloc
  MaxBlocks

VARIABLES
  heap,          \* freep, and ptr and size of the headers
  brk,           \* the end of memory
  blocks,        \* history: the bytes asked for, of each block in use
  core           \* history: the units that morecore got

base == 0
start == 2       \* the first break, somewhere above base
Addr == base..HEAPEND
NULL == -1

Init ==
  /\ heap = [freep |-> NULL, ptr |-> [a \in Addr |-> base], size |-> [a \in Addr |-> 0]]
  /\ brk = start
  /\ blocks = [a \in {} |-> 0]
  /\ core = {}

(* The list from freep on *)
Walk(h) == LET at[k \in Nat] == IF k = 0 THEN h.freep ELSE h.ptr[at[k - 1]] IN at
First(S) == IF S = {} THEN NULL ELSE Min(S)
Around(h) == 0..Cardinality(Addr)

(* free: the block p after which bp belongs, also at the ends of the list *)
Follows(h, p, bp) ==
  \/ bp > p /\ bp < h.ptr[p]
  \/ p >= h.ptr[p] /\ (bp > p \/ bp < h.ptr[p])

(* Mutant: the block above is not joined. *)
Upper_NotJoined(h, bp, q) == [h EXCEPT !.ptr[bp] = q]
Upper(h, bp, q) ==
  IF bp + h.size[bp] = q
  THEN [h EXCEPT !.size[bp] = @ + h.size[q], !.ptr[bp] = h.ptr[q]]
  ELSE [h EXCEPT !.ptr[bp] = q]
Lower(h, p, bp) ==
  IF p + h.size[p] = bp
  THEN [h EXCEPT !.size[p] = @ + h.size[bp], !.ptr[p] = h.ptr[bp]]
  ELSE [h EXCEPT !.ptr[p] = bp]

Freed(h, bp) ==
  LET p == Walk(h)[First({k \in Around(h) : Follows(h, Walk(h)[k], bp)})]
  IN [Lower(Upper(h, bp, h.ptr[p]), p, bp) EXCEPT !.freep = p]

(* morecore: the new block is freed into the list. *)
Chunk(nu) == Max({nu, CHUNK})
morecore(h, nu) == Freed([h EXCEPT !.size[brk] = Chunk(nu)], brk)

(* malloc, in a list with a block that is large enough *)
nunits(nbytes) == (nbytes + HEADER - 1) \div HEADER + 1
Fit(h, n) == First({k \in Around(h) \ {0} : h.size[Walk(h)[k]] >= n})
Taken(h, n) ==
  LET prevp == Walk(h)[Fit(h, n) - 1]
      p == Walk(h)[Fit(h, n)]
      rest == h.size[p] - n
  IN [at |-> p + rest,
      heap |-> IF rest = 0 THEN [h EXCEPT !.ptr[prevp] = h.ptr[p], !.freep = prevp]
               ELSE [h EXCEPT !.size[p] = rest, !.size[p + rest] = n, !.freep = prevp]]

(* The list before the first call has base alone. *)
Ready(h) == IF h.freep = NULL THEN [h EXCEPT !.freep = base, !.ptr[base] = base] ELSE h

allocated(t, nbytes) ==
  /\ heap' = t.heap
  /\ blocks' = [a \in DOMAIN blocks \cup {t.at} |-> IF a = t.at THEN nbytes ELSE blocks[a]]

malloc(nbytes) ==
  LET h == Ready(heap)
      n == nunits(nbytes)
  IN
  /\ Cardinality(DOMAIN blocks) < MaxBlocks
  /\ \/ /\ Fit(h, n) # NULL
        /\ allocated(Taken(h, n), nbytes)
        /\ UNCHANGED <<brk, core>>
     \/ /\ Fit(h, n) = NULL /\ brk + Chunk(n) <= HEAPEND
        /\ allocated(Taken(morecore(h, n), n), nbytes)
        /\ brk' = brk + Chunk(n)
        /\ core' = core \cup brk..brk + Chunk(n) - 1
     \/ /\ Fit(h, n) = NULL /\ brk + Chunk(n) > HEAPEND      \* returns 0
        /\ heap' = h
        /\ UNCHANGED <<brk, blocks, core>>

free(a) ==
  /\ heap' = Freed(heap, a)
  /\ blocks' = [b \in DOMAIN blocks \ {a} |-> blocks[b]]
  /\ UNCHANGED <<brk, core>>

sbrk ==
  /\ brk < HEAPEND /\ brk' = brk + 1
  /\ UNCHANGED <<heap, blocks, core>>

Next ==
  \/ \E n \in Bytes : malloc(n)
  \/ \E a \in DOMAIN blocks : free(a)
  \/ sbrk

-----------------------------------------------------------------------------
(* Properties *)

Units(a) == a..a + heap.size[a] - 1
Listed == {Walk(heap)[k] : k \in Around(heap)}

(* The memory from the kernel is divided among the blocks in use, each of  *)
(* which has room for the bytes asked for, and the free ones: no two of    *)
(* them overlap, and none is lost.  Neighbours among the free ones have    *)
(* been joined, and the list is in the order of addresses.                 *)
HeapDivided ==
  heap.freep # NULL =>
    LET Free == Listed \ {base}
        All == Free \cup DOMAIN blocks
    IN
    /\ Free \cap DOMAIN blocks = {}
    /\ \A a, b \in All : a # b => Units(a) \cap Units(b) = {}
    /\ UNION {Units(a) : a \in All} = core
    /\ \A a \in DOMAIN blocks : blocks[a] <= (heap.size[a] - 1) * HEADER
    /\ \A a, b \in Free : a + heap.size[a] # b
    /\ Cardinality({a \in Listed : heap.ptr[a] <= a}) = 1
=============================================================================
