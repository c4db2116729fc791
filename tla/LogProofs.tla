----------------------------- MODULE LogProofs -----------------------------
(***************************************************************************)
(* Proofs about Log, for every number of processes and blocks and every    *)
(* size of the log: the invariant, and then that Log implements AtomicTx.  *)
(***************************************************************************)
EXTENDS Log, FiniteSetTheorems, TLAPS

Injective(s) == \A i, j \in 1..Len(s) : s[i] = s[j] => i = j

(* Pairs <<p, i>>: p is in a system call and has logged i blocks at least. *)
(* There are as many as blocks logged by open calls.                       *)
Pairs(P, w) == {x \in P \X (1..OpBlocks) : x[2] <= Len(w[x[1]])}
Logged == Pairs(OpProc, wrote)

-----------------------------------------------------------------------------
(* The inductive invariant, first part: control and capacity. *)

(* log.outstanding counts the open calls; a commit has the log to itself.  *)
Control ==
  /\ outstanding = Cardinality(OpProc)
  /\ committing <=> Committer # {}
  /\ committing => OpProc = {}
  /\ \A p, q \in Committer : p = q
  /\ boot \notin {"up", "panic"} => \A p \in Proc : pc[p] = "user"

(* A process holds a buffer exactly while it is in log_write. *)
Buffers ==
  /\ \A p \in Proc : pc[p] = "append" <=> arg[p] # NoBlock
  /\ \A p, q \in Proc : arg[p] = arg[q] /\ arg[p] # NoBlock => p = q

(* The loop variable is a position of the header; an idle log is empty.    *)
Loops ==
  /\ Injective(lh) /\ Injective(dhead)
  /\ boot = "read_head" => lh = <<>>
  /\ boot \in {"install_trans", "clear_head"} => lh = dhead
  /\ boot = "install_trans" => tail \in 1..Len(lh)
  /\ \A p \in Proc :
       /\ pc[p] \in {"write_log", "install_trans"} => tail \in 1..Len(lh)
       /\ pc[p] = "write_head" => lh # <<>>
       /\ pc[p] = "commit_done" => lh = <<>>
  /\ boot \in {"up", "panic"} /\ ~committing /\ OpProc = {} => lh = <<>>

(* What open calls have logged is in the header, and the header leaves     *)
(* them the rest of their reservations.                                    *)
Capacity ==
  /\ \A p \in Proc :
       /\ Len(wrote[p]) <= OpBlocks
       /\ Elems(wrote[p]) \subseteq Elems(lh)
       /\ p \notin OpProc => wrote[p] = <<>>
       /\ pc[p] = "append" => MayLog(p, arg[p])
  /\ Len(lh) + outstanding * MAXOPBLOCKS <= LOGSIZE + Cardinality(Logged)
  /\ Len(dhead) <= LOGSIZE

IInv == TypeOK /\ Control /\ Buffers /\ Loops /\ Capacity

-----------------------------------------------------------------------------
(* Lemmas about sequences and about counting logged blocks. *)

(* What log_write does to the header (log.c:222-228): the block is in it   *)
(* afterwards, nothing else changes, and it grows exactly when the block   *)
(* was not there.                                                          *)
LEMMA AppendToProperties ==
  ASSUME NEW s \in Seq(Block), NEW b \in Block
  PROVE  /\ AppendTo(s, b) \in Seq(Block)
         /\ Elems(AppendTo(s, b)) = Elems(s) \cup {b}
         /\ b \in Elems(s) => AppendTo(s, b) = s
         /\ b \notin Elems(s) => Len(AppendTo(s, b)) = Len(s) + 1
         /\ Injective(s) => Injective(AppendTo(s, b))
PROOF
<1>1. CASE b \in Elems(s)
  BY <1>1 DEF AppendTo, Elems, Injective
<1>2. CASE b \notin Elems(s)
  <2> DEFINE t == Append(s, b)
  <2>1. /\ t \in Seq(Block)
        /\ Len(t) = Len(s) + 1
        /\ \A i \in 1..Len(s) : t[i] = s[i]
        /\ t[Len(s) + 1] = b
    OBVIOUS
  <2>2. Elems(t) = Elems(s) \cup {b}
    BY <2>1 DEF Elems
  <2>3. Injective(s) => Injective(t)
    BY <2>1, <1>2 DEF Injective, Elems
  <2> QED
    BY <1>2, <2>1, <2>2, <2>3 DEF AppendTo
<1> QED
  BY <1>1, <1>2

(* One call logs OpBlocks blocks at most. *)
LEMMA OpInterval ==
  /\ OpBlocks \in Nat
  /\ IsFiniteSet(1..OpBlocks)
  /\ Cardinality(1..OpBlocks) = OpBlocks
PROOF
<1>1. OpBlocks \in Nat
  BY ConstAssumption
<1> QED
  BY <1>1, FS_Interval

(* Open calls log OpBlocks blocks each at most. *)
LEMMA PairsBound ==
  ASSUME NEW P, IsFiniteSet(P), NEW w
  PROVE  /\ IsFiniteSet(Pairs(P, w))
         /\ Cardinality(Pairs(P, w)) \in Nat
         /\ Cardinality(Pairs(P, w)) <= Cardinality(P) * OpBlocks
PROOF
<1>3. /\ IsFiniteSet(P \X (1..OpBlocks))
      /\ Cardinality(P \X (1..OpBlocks)) = Cardinality(P) * OpBlocks
  BY OpInterval, FS_Product
<1>4. Pairs(P, w) \in SUBSET (P \X (1..OpBlocks))
  BY DEF Pairs
<1> QED
  BY <1>3, <1>4, FS_Subset, FS_CardinalityType

(* A call that begins has logged nothing. *)
LEMMA PairsBegin ==
  ASSUME NEW P, NEW w, NEW p, w[p] = <<>>
  PROVE  Pairs(P \cup {p}, w) = Pairs(P, w)
PROOF
<1>1. \A i \in 1..OpBlocks : ~ (i <= Len(w[p]))
  BY ConstAssumption
<1> QED
  BY <1>1 DEF Pairs

(* A call that logs a new block adds one. *)
LEMMA PairsGrow ==
  ASSUME NEW P, IsFiniteSet(P), NEW p \in P,
         NEW w, NEW v, Len(w[p]) \in Nat, Len(v[p]) = Len(w[p]) + 1,
         Len(w[p]) < OpBlocks,
         \A q \in P : q # p => v[q] = w[q]
  PROVE  Cardinality(Pairs(P, v)) = Cardinality(Pairs(P, w)) + 1
PROOF
<1> DEFINE x == <<p, Len(w[p]) + 1>>
<1>1. OpBlocks \in Nat
  BY ConstAssumption
<1>2. x \in P \X (1..OpBlocks)
  BY <1>1
<1>3. x \notin Pairs(P, w)
  BY DEF Pairs
<1>4. Pairs(P, v) = Pairs(P, w) \cup {x}
  <2>1. ASSUME NEW y \in P \X (1..OpBlocks)
        PROVE  y[2] <= Len(v[y[1]]) <=> y[2] <= Len(w[y[1]]) \/ y = x
    <3>1. CASE y[1] = p
      BY <3>1, <1>1
    <3>2. CASE y[1] # p
      BY <3>2
    <3> QED
      BY <3>1, <3>2
  <2> QED
    BY <1>2, <2>1 DEF Pairs
<1> QED
  BY <1>3, <1>4, PairsBound, FS_AddElement, ZenonT(60)

(* A call that ends takes OpBlocks away at most. *)
LEMMA PairsEnd ==
  ASSUME NEW P, IsFiniteSet(P), NEW p \in P, NEW w, NEW v,
         \A q \in P : q # p => v[q] = w[q]
  PROVE  Cardinality(Pairs(P, w)) <= Cardinality(Pairs(P \ {p}, v)) + OpBlocks
PROOF
<1> DEFINE A == Pairs(P \ {p}, v)
           B == {p} \X (1..OpBlocks)
<1>1. OpBlocks \in Nat
  BY ConstAssumption
<1>2. IsFiniteSet(A) /\ Cardinality(A) \in Nat
  BY PairsBound, FS_RemoveElement
<1>3. IsFiniteSet(B) /\ Cardinality(B) = OpBlocks
  <2>1. IsFiniteSet({p}) /\ Cardinality({p}) = 1
    BY FS_Singleton
  <2>2. IsFiniteSet(B) /\ Cardinality(B) = Cardinality({p}) * Cardinality(1..OpBlocks)
    BY <2>1, OpInterval, FS_Product
  <2> QED
    BY <2>1, <2>2, OpInterval
<1>4. IsFiniteSet(A \cup B) /\ Cardinality(A \cup B) <= Cardinality(A) + OpBlocks
  <2>1. /\ IsFiniteSet(A \cup B)
        /\ Cardinality(A \cup B) = Cardinality(A) + Cardinality(B) - Cardinality(A \cap B)
    BY <1>2, <1>3, FS_Union
  <2>2. Cardinality(A \cap B) \in Nat
    BY <1>2, FS_Subset, FS_CardinalityType
  <2> QED
    BY <1>1, <1>2, <1>3, <2>1, <2>2
<1>5. Pairs(P, w) \in SUBSET (A \cup B)
  BY DEF Pairs
<1>6. Cardinality(Pairs(P, w)) <= Cardinality(A \cup B)
  BY <1>4, <1>5, FS_Subset
<1> QED
  BY <1>1, <1>2, <1>4, <1>6, PairsBound, FS_CardinalityType

-----------------------------------------------------------------------------
(* The invariant bounds the header. *)

LEMMA OpProcFinite == IsFiniteSet(OpProc) /\ Cardinality(OpProc) \in Nat
PROOF
<1>1. OpProc \in SUBSET Proc
  BY DEF OpProc
<1> QED
  BY <1>1, ConstAssumption, FS_Subset, FS_CardinalityType

(* The open calls leave unused what separates OpBlocks from MAXOPBLOCKS.   *)
LEMMA HeaderBound ==
  ASSUME IInv
  PROVE  /\ Len(lh) + outstanding * (MAXOPBLOCKS - OpBlocks) <= LOGSIZE
         /\ Len(lh) <= LOGSIZE
PROOF
<1> DEFINE c == Cardinality(Logged)
<1>1. c \in Nat /\ c <= outstanding * OpBlocks
  BY OpProcFinite, PairsBound DEF IInv, Control, Logged
<1>2. Len(lh) \in Nat /\ outstanding \in Nat
  BY DEF IInv, TypeOK
<1>3. Len(lh) + outstanding * MAXOPBLOCKS <= LOGSIZE + c
  BY DEF IInv, Capacity
<1>4. /\ MAXOPBLOCKS \in Nat /\ OpBlocks \in Nat /\ LOGSIZE \in Nat
      /\ MAXOPBLOCKS - OpBlocks \in Nat
  BY ConstAssumption
<1> HIDE DEF c
<1>5. outstanding * (MAXOPBLOCKS - OpBlocks) = outstanding * MAXOPBLOCKS - outstanding * OpBlocks
  BY <1>2, <1>4
<1>6. outstanding * (MAXOPBLOCKS - OpBlocks) \in Nat
  BY <1>2, <1>4
<1>7. outstanding * MAXOPBLOCKS \in Nat /\ outstanding * OpBlocks \in Nat
  BY <1>2, <1>4
<1> QED
  BY <1>1, <1>2, <1>3, <1>4, <1>5, <1>6, <1>7

LEMMA InitIInv == Init => IInv
PROOF
<1> SUFFICES ASSUME Init PROVE IInv
  OBVIOUS
<1>1. TypeOK
  <2>1. committing \in BOOLEAN
    BY DEF Init
  <2>2. /\ lh \in Seq(Block) /\ dhead \in Seq(Block)
        /\ wrote \in [Proc -> Seq(Block)]
    BY DEF Init
  <2>3. /\ outstanding \in Nat /\ tail \in Nat \ {0}
        /\ pc \in [Proc -> PC] /\ boot \in Boot
        /\ arg \in [Proc -> Block \cup {NoBlock}]
    BY DEF Init, PC, Boot
  <2>4. /\ buf \in [Block -> Val] /\ home \in [Block -> Val]
        /\ dlog \in [1..LOGSIZE -> Val]
    BY ConstAssumption DEF Init
  <2> QED
    BY <2>1, <2>2, <2>3, <2>4 DEF TypeOK
<1>2. OpProc = {} /\ Committer = {}
  BY DEF Init, OpProc, Committer, CommitPC
<1>3. Control
  BY <1>2, FS_EmptySet DEF Init, Control
<1>4. Buffers
  BY DEF Init, Buffers
<1>5. Loops
  BY <1>2 DEF Init, Loops, Injective
<1>6. Capacity
  <2>1. Cardinality(Logged) \in Nat
    BY OpProcFinite, PairsBound DEF Logged
  <2> QED
    BY <2>1, ConstAssumption DEF Init, Capacity, Elems, MayLog
<1> QED
  BY <1>1, <1>3, <1>4, <1>5, <1>6 DEF IInv

-----------------------------------------------------------------------------
(* Every step preserves the invariant. *)

(* Steps that neither begin nor end a call, and leave the header alone. *)
LEMMA CapacityKept ==
  ASSUME IInv, OpProc' = OpProc,
         UNCHANGED <<lh, wrote, outstanding, dhead>>,
         \A p \in Proc : pc'[p] = "append" => pc[p] = "append" /\ arg'[p] = arg[p]
  PROVE  Capacity'
PROOF
<1>1. Logged' = Logged
  BY DEF Logged
<1> QED
  BY <1>1 DEF IInv, Capacity, MayLog

LEMMA BeginIInv ==
  ASSUME IInv, NEW p \in Proc, begin_op(p)
  PROVE  IInv'
PROOF
<1> USE DEF IInv
<1>1. TypeOK'
  <2>1. outstanding' \in Nat
    BY DEF begin_op, TypeOK
  <2>2. pc' \in [Proc -> PC]
    BY DEF begin_op, TypeOK, PC
  <2> QED
    BY <2>1, <2>2 DEF begin_op, TypeOK, diskVars
<1>2. Committer' = Committer
  BY DEF begin_op, Committer, CommitPC, TypeOK
<1>3. OpProc' = IF Blocked THEN OpProc ELSE OpProc \cup {p}
  BY DEF begin_op, OpProc, TypeOK
<1>4. p \notin OpProc
  BY DEF begin_op, OpProc
<1>5. Control'
  <2>1. outstanding' = Cardinality(OpProc')
    BY <1>3, <1>4, OpProcFinite, FS_AddElement DEF begin_op, Control
  <2> QED
    BY <1>2, <1>3, <2>1 DEF begin_op, Control, TypeOK, Blocked
<1>6. Buffers'
  BY DEF begin_op, Buffers, TypeOK
<1>7. Loops'
  BY <1>3 DEF begin_op, Loops, TypeOK, diskVars, Blocked, Injective
<1>8. Capacity'
  <2>1. CASE Blocked
    BY <1>3, <2>1, CapacityKept DEF begin_op, TypeOK, diskVars
  <2>2. CASE ~Blocked
    <3>1. Logged' = Logged
      <4>1. wrote[p] = <<>> /\ wrote' = wrote
        BY <1>4 DEF Capacity, begin_op
      <4> QED
        BY <1>3, <2>2, <4>1, PairsBegin DEF Logged
    <3>2. Len(lh') + outstanding' * MAXOPBLOCKS <= LOGSIZE + Cardinality(Logged')
      <4>1. Cardinality(Logged) \in Nat
        BY OpProcFinite, PairsBound DEF Logged
      <4>2. ~ (Len(lh) + (outstanding + 1) * MAXOPBLOCKS > LOGSIZE)
        BY <2>2 DEF Blocked
      <4>3. Len(lh) \in Nat /\ (outstanding + 1) * MAXOPBLOCKS \in Nat /\ LOGSIZE \in Nat
        BY ConstAssumption DEF TypeOK
      <4> QED
        BY <2>2, <3>1, <4>1, <4>2, <4>3 DEF begin_op
    <3>3. ASSUME NEW q \in Proc
          PROVE  /\ Len(wrote'[q]) <= OpBlocks
                 /\ Elems(wrote'[q]) \subseteq Elems(lh')
                 /\ q \notin OpProc' => wrote'[q] = <<>>
                 /\ pc'[q] = "append" => MayLog(q, arg[q])'
      BY <1>3 DEF Capacity, begin_op, MayLog, TypeOK
    <3> QED
      BY <3>2, <3>3 DEF Capacity, begin_op, diskVars
  <2> QED
    BY <2>1, <2>2
<1> QED
  BY <1>1, <1>5, <1>6, <1>7, <1>8

LEMMA LogWriteIInv ==
  ASSUME IInv, NEW p \in Proc, NEW b \in Block, NEW v \in Val, log_write(p, b, v)
  PROVE  IInv'
PROOF
<1> USE DEF IInv
<1>1. TypeOK'
  BY DEF log_write, TypeOK, PC, Boot, diskVars
<1>2. Committer' = Committer /\ OpProc' = OpProc
  BY DEF log_write, Committer, CommitPC, OpProc, TypeOK
<1>3. Control'
  BY <1>2 DEF log_write, Control, TypeOK
<1>4. Buffers'
  BY ConstAssumption, ZenonT(60) DEF log_write, Buffers, TypeOK
<1>5. Loops'
  BY <1>2 DEF log_write, Loops, TypeOK, diskVars, Injective
<1>6. Capacity'
  <2>1. Logged' = Logged
    BY <1>2 DEF Logged, log_write
  <2>2. ASSUME NEW q \in Proc
        PROVE  pc'[q] = "append" => MayLog(q, arg[q])'
    BY DEF Capacity, log_write, MayLog, TypeOK
  <2> QED
    BY <1>2, <2>1, <2>2 DEF Capacity, log_write, diskVars
<1> QED
  BY <1>1, <1>3, <1>4, <1>5, <1>6

LEMMA LogAppendIInv ==
  ASSUME IInv, NEW p \in Proc, log_append(p)
  PROVE  IInv'
PROOF
<1> USE DEF IInv
<1> DEFINE b == arg[p]
<1>1. b \in Block /\ p \in OpProc
  BY DEF log_append, Buffers, TypeOK, OpProc
<1>2. /\ lh \in Seq(Block) /\ wrote[p] \in Seq(Block)
      /\ lh' = AppendTo(lh, b)
      /\ wrote' = [wrote EXCEPT ![p] = AppendTo(wrote[p], b)]
      /\ wrote'[p] = AppendTo(wrote[p], b)
      /\ \A q \in Proc : q # p => wrote'[q] = wrote[q]
  BY DEF log_append, TypeOK
<1>3. lh' \in Seq(Block) /\ wrote'[p] \in Seq(Block)
  BY <1>1, <1>2, AppendToProperties
<1>4. TypeOK'
  <2>1. wrote' \in [Proc -> Seq(Block)]
    BY <1>2, <1>3 DEF TypeOK
  <2> QED
    BY <1>3, <2>1 DEF log_append, TypeOK, PC, diskVars
<1>5. Committer' = Committer /\ OpProc' = OpProc
  BY DEF log_append, Committer, CommitPC, OpProc, TypeOK
<1>6. Control'
  BY <1>5 DEF log_append, Control, TypeOK
<1>7. Buffers'
  BY DEF log_append, Buffers, TypeOK
<1>8. Committer = {}
  BY <1>1 DEF Control
<1>9. Loops'
  <2>1. Injective(lh')
    BY <1>1, <1>2, AppendToProperties DEF Loops
  <2>2. \A q \in Proc : pc'[q] \notin CommitPC
    BY <1>5, <1>8, <1>4 DEF Committer
  <2> QED
    BY <1>1, <1>5, <2>1, <2>2 DEF log_append, Loops, CommitPC, diskVars
<1>10. Capacity'
  <2>1. Len(wrote[p]) \in Nat /\ OpBlocks \in Nat /\ Len(wrote[p]) <= OpBlocks
    BY <1>2, ConstAssumption DEF Capacity
  <2>2. b \in Elems(wrote[p]) \/ Len(wrote[p]) < OpBlocks
    BY DEF Capacity, MayLog, log_append
  <2>3. /\ Elems(lh') = Elems(lh) \cup {b}
        /\ Elems(wrote'[p]) = Elems(wrote[p]) \cup {b}
    BY <1>1, <1>2, AppendToProperties
  <2>4. ASSUME NEW q \in Proc
        PROVE  /\ Len(wrote'[q]) <= OpBlocks
               /\ Elems(wrote'[q]) \subseteq Elems(lh')
               /\ q \notin OpProc' => wrote'[q] = <<>>
               /\ pc'[q] = "append" => MayLog(q, arg[q])'
    <3>1. CASE q = p
      <4>1. Len(wrote'[p]) <= OpBlocks
        BY <1>1, <1>2, <2>1, <2>2, AppendToProperties
      <4>2. pc'[p] = "op"
        BY DEF log_append, TypeOK
      <4> QED
        BY <1>1, <1>5, <2>3, <3>1, <4>1, <4>2 DEF Capacity
    <3>2. CASE q # p
      <4>1. wrote'[q] = wrote[q] /\ pc'[q] = pc[q] /\ arg'[q] = arg[q]
        BY <3>2 DEF log_append, TypeOK
      <4> QED
        BY <4>1, <1>5, <2>3 DEF Capacity, MayLog
    <3> QED
      BY <3>1, <3>2
  <2>5. Len(lh') + outstanding' * MAXOPBLOCKS <= LOGSIZE + Cardinality(Logged')
    <3> DEFINE c == Cardinality(Logged)
               d == Cardinality(Logged')
    <3>1. c \in Nat /\ d \in Nat
      BY <1>5, OpProcFinite, PairsBound DEF Logged
    <3>2. /\ outstanding' = outstanding
          /\ outstanding * MAXOPBLOCKS \in Nat /\ LOGSIZE \in Nat /\ Len(lh) \in Nat
          /\ Len(lh) + outstanding * MAXOPBLOCKS <= LOGSIZE + c
      BY ConstAssumption DEF log_append, Capacity, TypeOK
    <3>3. b \notin Elems(wrote[p]) => d = c + 1
      <4>1. SUFFICES ASSUME b \notin Elems(wrote[p])
                     PROVE  d = c + 1
        OBVIOUS
      <4>2. Len(wrote'[p]) = Len(wrote[p]) + 1
        BY <1>1, <1>2, <4>1, AppendToProperties
      <4>3. Len(wrote[p]) < OpBlocks
        BY <2>2, <4>1
      <4>4. \A q \in OpProc : q # p => wrote'[q] = wrote[q]
        BY <1>2 DEF OpProc
      <4> QED
        BY <1>1, <1>5, <2>1, <4>2, <4>3, <4>4, OpProcFinite, PairsGrow DEF Logged
    <3>4. b \in Elems(wrote[p]) => d = c
      <4>1. b \in Elems(wrote[p]) => wrote' = wrote
        BY <1>1, <1>2, AppendToProperties DEF TypeOK
      <4> QED
        BY <4>1, <1>5 DEF Logged
    <3>5. b \in Elems(lh) => Len(lh') = Len(lh)
      BY <1>1, <1>2, AppendToProperties
    <3>6. b \notin Elems(lh) => Len(lh') = Len(lh) + 1 /\ b \notin Elems(wrote[p])
      BY <1>1, <1>2, AppendToProperties DEF Capacity
    <3> HIDE DEF b, c, d
    <3>7. Len(lh') + outstanding * MAXOPBLOCKS <= LOGSIZE + d
      BY <3>1, <3>2, <3>3, <3>4, <3>5, <3>6
    <3> QED
      BY <3>2, <3>7 DEF d
  <2> QED
    BY <2>4, <2>5 DEF Capacity, log_append, diskVars
<1> QED
  BY <1>4, <1>6, <1>7, <1>9, <1>10

LEMMA EndIInv ==
  ASSUME IInv, NEW p \in Proc, end_op(p)
  PROVE  IInv'
PROOF
<1> USE DEF IInv
<1>1. p \in OpProc
  BY DEF end_op, OpProc
<1>2. ~committing /\ Committer = {}
  BY <1>1 DEF Control
<1>3. outstanding \in Nat /\ outstanding # 0 /\ outstanding = Cardinality(OpProc)
  BY <1>1, OpProcFinite, FS_EmptySet DEF Control
<1>4. OpProc' = OpProc \ {p}
  BY <1>2 DEF end_op, OpProc, Woken, TypeOK
<1>5. outstanding' = Cardinality(OpProc') /\ outstanding' = outstanding - 1 /\ outstanding' \in Nat
  <2>1. Cardinality(OpProc \ {p}) = Cardinality(OpProc) - 1
    BY <1>1, OpProcFinite, FS_RemoveElement
  <2>2. outstanding' = outstanding - 1
    BY DEF end_op
  <2> QED
    BY <1>3, <1>4, <2>1, <2>2
<1>6. TypeOK'
  <2>1. pc' \in [Proc -> PC]
    BY <1>2 DEF end_op, TypeOK, PC, Woken
  <2>2. wrote' \in [Proc -> Seq(Block)]
    BY DEF end_op, TypeOK
  <2>3. tail' \in Nat \ {0} /\ boot' \in Boot
    BY <1>2 DEF end_op, TypeOK
  <2>4. committing' \in BOOLEAN
    BY <1>2, Zenon DEF end_op, TypeOK
  <2> QED
    BY <1>5, <2>1, <2>2, <2>3, <2>4 DEF end_op, TypeOK, diskVars
<1>7. Committer' = IF outstanding = 1 THEN {p} ELSE {}
  BY <1>2, <1>6 DEF end_op, Committer, CommitPC, Woken, TypeOK
<1>8. outstanding = 1 <=> OpProc' = {}
  <2>1. IsFiniteSet(OpProc')
    BY <1>4, OpProcFinite, FS_RemoveElement
  <2>2. Cardinality(OpProc') = 0 <=> OpProc' = {}
    BY <2>1, FS_EmptySet, Zenon
  <2> QED
    BY <1>3, <1>5, <2>2
<1>9. committing' = (outstanding = 1) /\ boot' = "up" /\ boot = "up"
  BY <1>2 DEF end_op, TypeOK
<1>10. Control'
  <2>1. committing' <=> Committer' # {}
    BY <1>7, <1>9
  <2>2. \A q, r \in Committer' : q = r
    BY <1>7
  <2> QED
    BY <1>5, <1>8, <1>9, <2>1, <2>2 DEF Control
<1>11. Buffers'
  BY <1>2 DEF end_op, Buffers, TypeOK, Woken
<1>12. Loops'
  <2>1. UNCHANGED <<lh, dhead>>
    BY DEF end_op, diskVars
  <2>2. CASE outstanding = 1
    <3>1. /\ tail' = 1
          /\ pc' = [pc EXCEPT ![p] = IF lh = <<>> THEN "commit_done" ELSE "write_log"]
      BY <1>2, <2>2 DEF end_op
    <3>2. \A q \in Proc : q # p => pc'[q] \notin CommitPC
      BY <1>6, <1>7, <2>2 DEF Committer, CommitPC
    <3>3. lh # <<>> => 1 \in 1..Len(lh)
      BY DEF TypeOK
    <3> QED
      BY <1>9, <2>1, <2>2, <3>1, <3>2, <3>3 DEF Loops, CommitPC, TypeOK
  <2>3. CASE outstanding # 1
    <3>1. \A q \in Proc : pc'[q] \notin CommitPC
      BY <1>7, <2>3 DEF Committer
    <3> QED
      BY <1>8, <1>9, <2>1, <2>3, <3>1 DEF Loops, CommitPC
  <2> QED
    BY <2>2, <2>3
<1>13. Capacity'
  <2>1. wrote' = [wrote EXCEPT ![p] = <<>>] /\ UNCHANGED <<lh, dhead, arg>>
    BY DEF end_op, diskVars
  <2>2. Len(lh') + outstanding' * MAXOPBLOCKS <= LOGSIZE + Cardinality(Logged')
    <3> DEFINE c == Cardinality(Logged)
               d == Cardinality(Logged')
    <3>1. \A q \in OpProc : q # p => wrote'[q] = wrote[q]
      BY <2>1 DEF OpProc, TypeOK
    <3>2. c <= d + OpBlocks
      BY <1>1, <1>4, <3>1, OpProcFinite, PairsEnd DEF Logged
    <3>3. c \in Nat /\ d \in Nat
      <4>1. IsFiniteSet(OpProc')
        BY <1>4, OpProcFinite, FS_RemoveElement
      <4> QED
        BY <4>1, OpProcFinite, PairsBound DEF Logged
    <3>4. Len(lh) + outstanding * MAXOPBLOCKS <= LOGSIZE + c
      BY DEF Capacity
    <3>5. /\ Len(lh) \in Nat /\ LOGSIZE \in Nat /\ OpBlocks \in Nat /\ MAXOPBLOCKS \in Nat
          /\ OpBlocks <= MAXOPBLOCKS
      BY ConstAssumption DEF TypeOK
    <3> HIDE DEF c, d
    <3>6. outstanding' * MAXOPBLOCKS = outstanding * MAXOPBLOCKS - MAXOPBLOCKS
      BY <1>3, <1>5, <3>5
    <3>7. outstanding * MAXOPBLOCKS \in Nat
      BY <1>3, <3>5
    <3>8. Len(lh') + outstanding' * MAXOPBLOCKS <= LOGSIZE + d
      BY <2>1, <3>2, <3>3, <3>4, <3>5, <3>6, <3>7
    <3> QED
      BY <3>8 DEF d
  <2>3. ASSUME NEW q \in Proc
        PROVE  /\ Len(wrote'[q]) <= OpBlocks
               /\ Elems(wrote'[q]) \subseteq Elems(lh')
               /\ q \notin OpProc' => wrote'[q] = <<>>
               /\ pc'[q] = "append" => MayLog(q, arg[q])'
    <3>1. CASE q = p
      <4>1. wrote'[p] = <<>> /\ Len(<<>>) = 0 /\ Elems(<<>>) = {}
        BY <2>1 DEF TypeOK, Elems
      <4>2. pc'[p] # "append"
        BY <1>4, <1>6 DEF OpProc
      <4> QED
        BY <3>1, <4>1, <4>2, ConstAssumption
    <3>2. CASE q # p
      <4>1. wrote'[q] = wrote[q] /\ (pc'[q] = "append" => pc[q] = "append")
        BY <1>2, <2>1, <3>2 DEF end_op, TypeOK, Woken
      <4> QED
        BY <1>4, <2>1, <3>2, <4>1 DEF Capacity, MayLog
    <3> QED
      BY <3>1, <3>2
  <2> QED
    BY <2>1, <2>2, <2>3 DEF Capacity
<1> QED
  BY <1>6, <1>10, <1>11, <1>12, <1>13

(* Steps of commit(): the log belongs to the committer. *)
LEMMA CommitterAlone ==
  ASSUME IInv, NEW p \in Proc, pc[p] \in CommitPC
  PROVE  /\ committing /\ OpProc = {} /\ Committer = {p} /\ outstanding = 0
         /\ \A q \in Proc : wrote[q] = <<>> /\ arg[q] = NoBlock
         /\ \A q \in Proc : q # p => pc[q] \notin CommitPC
         /\ \A q \in Proc : pc[q] # "append" /\ pc[q] # "op"
PROOF
<1>1. p \in Committer
  BY DEF Committer
<1>2. committing /\ OpProc = {} /\ Committer = {p}
  BY <1>1 DEF IInv, Control
<1>3. outstanding = 0
  BY <1>2, FS_EmptySet DEF IInv, Control
<1>4. \A q \in Proc : wrote[q] = <<>>
  BY <1>2 DEF IInv, Capacity
<1>5. \A q \in Proc : pc[q] # "append" /\ pc[q] # "op"
  BY <1>2 DEF OpProc
<1>6. \A q \in Proc : arg[q] = NoBlock
  BY <1>5 DEF IInv, Buffers
<1>7. \A q \in Proc : q # p => pc[q] \notin CommitPC
  BY <1>2 DEF Committer
<1> QED
  BY <1>2, <1>3, <1>4, <1>5, <1>6, <1>7

(* Steps of commit() after which the committer is still committing. *)
LEMMA CommitStepKeeps ==
  ASSUME IInv, NEW p \in Proc, pc[p] \in CommitPC, boot = "up", boot' = "up",
         NEW c \in CommitPC, pc' = [pc EXCEPT ![p] = c],
         UNCHANGED <<outstanding, committing, wrote, arg>>
  PROVE  /\ pc' \in [Proc -> PC]
         /\ OpProc' = OpProc
         /\ Control'
         /\ Buffers'
PROOF
<1> USE DEF IInv
<1>1. pc' \in [Proc -> PC]
  BY DEF TypeOK, PC, CommitPC
<1>2. OpProc' = OpProc
  BY CommitterAlone DEF OpProc, CommitPC, TypeOK
<1>3. Committer' = Committer
  BY DEF Committer, TypeOK
<1>4. Control'
  BY <1>2, <1>3 DEF Control
<1>5. Buffers'
  BY CommitterAlone DEF Buffers, CommitPC, TypeOK
<1> QED
  BY <1>1, <1>2, <1>4, <1>5

LEMMA WriteLogIInv ==
  ASSUME IInv, NEW p \in Proc, write_log(p)
  PROVE  IInv'
PROOF
<1> USE DEF IInv
<1>1. pc[p] \in CommitPC /\ pc[p] = "write_log"
  BY DEF write_log, CommitPC
<1>2. tail \in 1..Len(lh) /\ lh[tail] \in Block
  BY <1>1 DEF Loops, TypeOK
<1> DEFINE c == IF tail = Len(lh) THEN "write_head" ELSE "write_log"
<1>3. c \in CommitPC /\ pc' = [pc EXCEPT ![p] = c]
  BY <1>1 DEF write_log, CommitPC
<1>4. pc' \in [Proc -> PC] /\ OpProc' = OpProc /\ Control' /\ Buffers'
  BY <1>1, <1>3, CommitStepKeeps DEF write_log
<1>5. TypeOK'
  <2>1. buf[lh[tail]] \in Val
    BY <1>2 DEF TypeOK
  <2>2. /\ buf' \in [Block -> Val] /\ home' \in [Block -> Val]
        /\ dlog' \in [1..LOGSIZE -> Val]
    BY <2>1, ConstAssumption DEF write_log, WriteSlot, TypeOK
  <2> QED
    BY <1>4, <2>2 DEF write_log, TypeOK
<1>6. Loops'
  <2>1. UNCHANGED <<lh, dhead, boot, committing>> /\ tail' = tail + 1
    BY DEF write_log
  <2>2. tail # Len(lh) => tail' \in 1..Len(lh)
    BY <1>2, <2>1 DEF TypeOK
  <2>3. lh # <<>>
    BY <1>2
  <2>4. /\ \A q \in Proc : q # p => pc'[q] \notin CommitPC
        /\ pc'[p] = c
    BY <1>1, <1>3, CommitterAlone DEF TypeOK
  <2> QED
    BY <1>1, <2>1, <2>2, <2>3, <2>4, CommitterAlone DEF Loops, CommitPC, write_log
<1>7. Capacity'
  BY <1>1, <1>3, <1>4, CapacityKept DEF write_log, TypeOK, CommitPC
<1> QED
  BY <1>4, <1>5, <1>6, <1>7

LEMMA WriteHeadIInv ==
  ASSUME IInv, NEW p \in Proc, write_head(p)
  PROVE  IInv'
PROOF
<1> USE DEF IInv
<1>1. pc[p] \in CommitPC /\ pc[p] = "write_head"
  BY DEF write_head, CommitPC
<1>2. pc' = [pc EXCEPT ![p] = "install_trans"] /\ "install_trans" \in CommitPC
  BY DEF write_head, CommitPC
<1>3. pc' \in [Proc -> PC] /\ OpProc' = OpProc /\ Control' /\ Buffers'
  BY <1>1, <1>2, CommitStepKeeps DEF write_head
<1>4. TypeOK'
  BY <1>3 DEF write_head, TypeOK
<1>5. Loops'
  <2>1. UNCHANGED <<lh, boot, committing>> /\ dhead' = lh /\ tail' = 1
    BY DEF write_head
  <2>2. tail' \in 1..Len(lh)
    BY <1>1, <2>1 DEF Loops, TypeOK
  <2>3. /\ \A q \in Proc : q # p => pc'[q] \notin CommitPC
        /\ pc'[p] = "install_trans"
    BY <1>1, <1>2, CommitterAlone DEF TypeOK
  <2> QED
    BY <1>1, <2>1, <2>2, <2>3, CommitterAlone DEF Loops, CommitPC, write_head
<1>6. Capacity'
  <2>1. Logged' = Logged
    BY <1>3 DEF Logged, write_head
  <2>2. \A q \in Proc : pc'[q] # "append"
    BY <1>1, <1>2, CommitterAlone DEF TypeOK
  <2> QED
    BY <1>3, <2>1, <2>2, HeaderBound DEF Capacity, write_head
<1> QED
  BY <1>3, <1>4, <1>5, <1>6

LEMMA InstallType ==
  ASSUME IInv, tail \in 1..Len(lh), InstallBlock
  PROVE  /\ buf' \in [Block -> Val] /\ home' \in [Block -> Val]
         /\ tail' \in Nat \ {0}
PROOF
<1> USE DEF IInv
<1>1. tail \in 1..LOGSIZE /\ lh[tail] \in Block
  BY HeaderBound, ConstAssumption DEF TypeOK
<1>2. Slot(tail) \in Val
  BY <1>1, ConstAssumption DEF Slot, TypeOK
<1> QED
  BY <1>1, <1>2 DEF InstallBlock, TypeOK

LEMMA InstallIInv ==
  ASSUME IInv, NEW p \in Proc, install_trans(p)
  PROVE  IInv'
PROOF
<1> USE DEF IInv
<1>1. pc[p] \in CommitPC /\ pc[p] = "install_trans"
  BY DEF install_trans, CommitPC
<1>2. tail \in 1..Len(lh)
  BY <1>1 DEF Loops
<1> DEFINE c == IF tail = Len(lh) THEN "clear_head" ELSE "install_trans"
<1>3. c \in CommitPC /\ pc' = [pc EXCEPT ![p] = c]
  BY <1>1 DEF install_trans, CommitPC
<1>4. pc' \in [Proc -> PC] /\ OpProc' = OpProc /\ Control' /\ Buffers'
  BY <1>1, <1>3, CommitStepKeeps DEF install_trans, InstallBlock
<1>5. TypeOK'
  BY <1>2, <1>4, InstallType DEF install_trans, InstallBlock, TypeOK
<1>6. Loops'
  <2>1. UNCHANGED <<lh, dhead, boot, committing>> /\ tail' = tail + 1
    BY DEF install_trans, InstallBlock
  <2>2. tail # Len(lh) => tail' \in 1..Len(lh)
    BY <1>2, <2>1 DEF TypeOK
  <2>3. /\ \A q \in Proc : q # p => pc'[q] \notin CommitPC
        /\ pc'[p] = c
    BY <1>1, <1>3, CommitterAlone DEF TypeOK
  <2> QED
    BY <1>1, <2>1, <2>2, <2>3, CommitterAlone DEF Loops, CommitPC, install_trans
<1>7. Capacity'
  BY <1>1, <1>3, <1>4, CapacityKept DEF install_trans, InstallBlock, TypeOK, CommitPC
<1> QED
  BY <1>4, <1>5, <1>6, <1>7

LEMMA EmptySequence ==
  <<>> \in Seq(Block) /\ Len(<<>>) = 0 /\ Elems(<<>>) = {} /\ Injective(<<>>)
PROOF
  BY DEF Elems, Injective

LEMMA ClearHeadIInv ==
  ASSUME IInv, NEW p \in Proc, clear_head(p)
  PROVE  IInv'
PROOF
<1> USE DEF IInv
<1>1. pc[p] \in CommitPC /\ pc[p] = "clear_head"
  BY DEF clear_head, CommitPC
<1>2. pc' = [pc EXCEPT ![p] = "commit_done"] /\ "commit_done" \in CommitPC
  BY DEF clear_head, CommitPC
<1>3. pc' \in [Proc -> PC] /\ OpProc' = OpProc /\ Control' /\ Buffers'
  BY <1>1, <1>2, CommitStepKeeps DEF clear_head, ClearHead
<1>4. lh' = <<>> /\ dhead' = <<>>
  BY DEF clear_head, ClearHead
<1>5. TypeOK'
  BY <1>3, <1>4, EmptySequence DEF clear_head, ClearHead, TypeOK
<1>6. Loops'
  <2>1. /\ \A q \in Proc : q # p => pc'[q] \notin CommitPC
        /\ pc'[p] = "commit_done"
    BY <1>1, <1>2, CommitterAlone DEF TypeOK
  <2> QED
    BY <1>4, <2>1, EmptySequence DEF Loops, CommitPC, clear_head
<1>7. Capacity'
  <2>1. Cardinality(Logged') \in Nat
    BY <1>3, OpProcFinite, PairsBound DEF Logged
  <2>2. \A q \in Proc : wrote'[q] = <<>> /\ pc'[q] # "append"
    BY <1>1, <1>2, CommitterAlone DEF clear_head, ClearHead, TypeOK
  <2>3. outstanding' = 0
    BY <1>1, CommitterAlone DEF clear_head, ClearHead
  <2>4. Len(lh') + outstanding' * MAXOPBLOCKS <= LOGSIZE + Cardinality(Logged')
    BY <1>4, <2>1, <2>3, EmptySequence, ConstAssumption
  <2> QED
    BY <1>4, <2>2, <2>4, EmptySequence, ConstAssumption DEF Capacity
<1> QED
  BY <1>3, <1>5, <1>6, <1>7

LEMMA CommitDoneIInv ==
  ASSUME IInv, NEW p \in Proc, commit_done(p)
  PROVE  IInv'
PROOF
<1> USE DEF IInv
<1>1. pc[p] \in CommitPC /\ pc[p] = "commit_done"
  BY DEF commit_done, CommitPC
<1>2. /\ pc' \in [Proc -> PC]
      /\ \A q \in Proc : pc'[q] \notin CommitPC /\ pc'[q] # "op" /\ pc'[q] # "append"
  BY <1>1, CommitterAlone DEF commit_done, Woken, TypeOK, PC, CommitPC
<1>3. OpProc' = {} /\ Committer' = {} /\ OpProc = {}
  BY <1>1, <1>2, CommitterAlone DEF OpProc, Committer
<1>4. committing' = FALSE /\ UNCHANGED <<lh, outstanding, wrote, arg, boot, dhead>> /\ boot = "up"
  BY DEF commit_done, diskVars
<1>5. TypeOK'
  <2>1. committing' \in BOOLEAN
    BY <1>4
  <2> QED
    BY <1>2, <2>1 DEF commit_done, diskVars, TypeOK
<1>6. Control'
  BY <1>3, <1>4 DEF Control
<1>7. Buffers'
  BY <1>1, <1>2, <1>4, CommitterAlone DEF Buffers
<1>8. Loops'
  BY <1>1, <1>2, <1>4 DEF Loops, CommitPC
<1>9. Capacity'
  BY <1>2, <1>3, <1>4, CapacityKept
<1> QED
  BY <1>5, <1>6, <1>7, <1>8, <1>9

LEMMA CrashIInv ==
  ASSUME IInv, Crash
  PROVE  IInv'
PROOF
<1> USE DEF IInv
<1>1. OpProc' = {} /\ Committer' = {}
  BY DEF Crash, OpProc, Committer, CommitPC
<1>2. committing' = FALSE /\ lh' = <<>> /\ dhead' = dhead /\ outstanding' = 0
  BY DEF Crash, diskVars
<1>3. TypeOK'
  <2>1. committing' \in BOOLEAN
    BY <1>2
  <2>2. pc' \in [Proc -> PC] /\ boot' \in Boot
    BY DEF Crash, PC, Boot
  <2>3. wrote' \in [Proc -> Seq(Block)] /\ lh' \in Seq(Block)
    BY EmptySequence DEF Crash
  <2>4. outstanding' \in Nat /\ tail' \in Nat \ {0} /\ arg' \in [Proc -> Block \cup {NoBlock}]
    BY DEF Crash
  <2> QED
    BY <2>1, <2>2, <2>3, <2>4 DEF Crash, diskVars, TypeOK
<1>4. Control'
  BY <1>1, <1>2, FS_EmptySet DEF Control, Crash
<1>5. Buffers'
  BY DEF Buffers, Crash
<1>6. Loops'
  BY <1>2, EmptySequence DEF Loops, Crash
<1>7. Capacity'
  <2>1. Cardinality(Logged') \in Nat
    BY <1>1, FS_EmptySet, PairsBound DEF Logged
  <2>2. Len(lh') + outstanding' * MAXOPBLOCKS <= LOGSIZE + Cardinality(Logged')
    BY <1>2, <2>1, EmptySequence, ConstAssumption
  <2>3. \A q \in Proc : wrote'[q] = <<>> /\ pc'[q] # "append"
    BY DEF Crash
  <2> QED
    BY <1>2, <2>2, <2>3, EmptySequence, ConstAssumption DEF Capacity
<1> QED
  BY <1>3, <1>4, <1>5, <1>6, <1>7

(* During recovery no process has run yet. *)
LEMMA BootAlone ==
  ASSUME IInv, boot \notin {"up", "panic"}
  PROVE  /\ OpProc = {} /\ Committer = {} /\ ~committing /\ outstanding = 0
         /\ \A q \in Proc : pc[q] = "user" /\ wrote[q] = <<>>
PROOF
<1>1. \A q \in Proc : pc[q] = "user"
  BY DEF IInv, Control
<1>2. OpProc = {} /\ Committer = {}
  BY <1>1 DEF OpProc, Committer, CommitPC
<1>3. ~committing /\ outstanding = 0
  BY <1>2, FS_EmptySet DEF IInv, Control
<1> QED
  BY <1>1, <1>2, <1>3 DEF IInv, Capacity

LEMMA BootIInv ==
  ASSUME IInv, initlog
  PROVE  IInv'
PROOF
<1> USE DEF IInv
<1>1. boot \notin {"up", "panic"} /\ UNCHANGED <<pc, wrote, arg, outstanding, committing>>
  BY DEF initlog, boot_read_head, boot_install_trans, boot_clear_head, InstallBlock, ClearHead
<1>2. OpProc' = OpProc /\ Committer' = Committer
  BY <1>1 DEF OpProc, Committer
<1>3. Control'
  BY <1>1, <1>2, BootAlone DEF Control
<1>4. Buffers'
  BY <1>1 DEF Buffers
<1>5. /\ TypeOK' /\ Loops'
      /\ Len(lh') <= LOGSIZE /\ Len(dhead') <= LOGSIZE
  <2>1. CASE boot_read_head
    <3>1. lh' = dhead /\ dhead' = dhead /\ tail' = 1
      BY <2>1 DEF boot_read_head, diskVars
    <3>2. TypeOK'
      BY <2>1 DEF boot_read_head, TypeOK, diskVars, Boot
    <3>3. dhead # <<>> => 1 \in 1..Len(dhead)
      BY DEF TypeOK
    <3>4. Loops'
      BY <1>1, <2>1, <3>1, <3>3, BootAlone DEF boot_read_head, Loops
    <3> QED
      BY <3>1, <3>2, <3>4 DEF Capacity
  <2>2. CASE boot_install_trans
    <3>1. tail \in 1..Len(lh)
      BY <2>2 DEF boot_install_trans, Loops
    <3>2. UNCHANGED <<lh, dhead>> /\ tail' = tail + 1 /\ dlog' = dlog
      BY <2>2 DEF boot_install_trans, InstallBlock
    <3>3. boot' \in Boot
      BY <2>2 DEF boot_install_trans, Boot, TypeOK
    <3>4. TypeOK'
      BY <1>1, <2>2, <3>1, <3>2, <3>3, InstallType DEF boot_install_trans, TypeOK
    <3>5. tail # Len(lh) => tail' \in 1..Len(lh)
      BY <3>1, <3>2 DEF TypeOK
    <3>6. Loops'
      BY <1>1, <2>2, <3>2, <3>5, BootAlone DEF boot_install_trans, Loops
    <3> QED
      BY <3>2, <3>4, <3>6, HeaderBound DEF Capacity
  <2>3. CASE boot_clear_head
    <3>1. lh' = <<>> /\ dhead' = <<>>
      BY <2>3 DEF boot_clear_head, ClearHead
    <3>2. TypeOK'
      BY <2>3, EmptySequence DEF boot_clear_head, ClearHead, TypeOK, Boot
    <3>3. Loops'
      BY <1>1, <2>3, <3>1, EmptySequence, BootAlone DEF boot_clear_head, Loops
    <3> QED
      BY <3>1, <3>2, <3>3, EmptySequence, ConstAssumption
  <2> QED
    BY <2>1, <2>2, <2>3 DEF initlog
<1>6. Capacity'
  <2>1. Cardinality(Logged') \in Nat
    BY <1>2, OpProcFinite, PairsBound DEF Logged
  <2>2. outstanding' = 0 /\ \A q \in Proc : wrote'[q] = <<>> /\ pc'[q] # "append"
    BY <1>1, BootAlone
  <2>3. Len(lh') \in Nat
    BY <1>5 DEF TypeOK
  <2>4. Len(lh') + outstanding' * MAXOPBLOCKS <= LOGSIZE + Cardinality(Logged')
    BY <1>5, <2>1, <2>2, <2>3, ConstAssumption
  <2> QED
    BY <1>5, <2>2, <2>4, EmptySequence, ConstAssumption DEF Capacity
<1> QED
  BY <1>3, <1>4, <1>5, <1>6

LEMMA StutterIInv ==
  ASSUME IInv, UNCHANGED vars
  PROVE  IInv'
PROOF
<1>1. OpProc' = OpProc /\ Committer' = Committer /\ Logged' = Logged
  BY DEF vars, OpProc, Committer, Logged
<1> QED
  BY <1>1 DEF IInv, vars, TypeOK, Control, Buffers, Loops, Capacity, MayLog

LEMMA NextIInv == IInv /\ [Next]_vars => IInv'
PROOF
<1> SUFFICES ASSUME IInv, [Next]_vars PROVE IInv'
  OBVIOUS
<1>1. ASSUME NEW p \in Proc, begin_op(p) PROVE IInv'
  BY <1>1, BeginIInv
<1>2. ASSUME NEW p \in Proc, log_append(p) PROVE IInv'
  BY <1>2, LogAppendIInv
<1>3. ASSUME NEW p \in Proc, end_op(p) PROVE IInv'
  BY <1>3, EndIInv
<1>4. ASSUME NEW p \in Proc, Commit(p) PROVE IInv'
  BY <1>4, WriteLogIInv, WriteHeadIInv, InstallIInv, ClearHeadIInv, CommitDoneIInv DEF Commit
<1>5. ASSUME NEW p \in Proc, NEW b \in Block, NEW v \in Val, log_write(p, b, v) PROVE IInv'
  BY <1>5, LogWriteIInv
<1>6. CASE Crash
  BY <1>6, CrashIInv
<1>7. CASE initlog
  BY <1>7, BootIInv
<1>8. CASE UNCHANGED vars
  BY <1>8, StutterIInv
<1> QED
  BY <1>1, <1>2, <1>3, <1>4, <1>5, <1>6, <1>7, <1>8 DEF Next

(* The control of log.c for every number of processes and every log size:  *)
(* log.outstanding counts the open calls, one process commits at a time    *)
(* and no call is open meanwhile, a buffer has one holder.                 *)
THEOREM LogInvariant == Spec => []IInv
PROOF
  BY InitIInv, NextIInv, PTL DEF Spec

(* Every variable of log.c keeps its type. *)
THEOREM LogTypes == Spec => []TypeOK
PROOF
<1>1. IInv => TypeOK
  BY DEF IInv
<1> QED
  BY <1>1, LogInvariant, PTL

(* The reservation of begin_op keeps log.lh.n inside log.lh.block: an open *)
(* call owns MAXOPBLOCKS entries of the header, whoever fills them.        *)
THEOREM HeaderNeverOverruns == Spec => []HeaderFits
PROOF
<1>1. IInv => HeaderFits
  BY HeaderBound DEF HeaderFits
<1> QED
  BY <1>1, LogInvariant, PTL

LEMMA WakeupStep == IInv /\ NoMissedWakeup /\ [Next]_vars => NoMissedWakeup'
PROOF
<1> SUFFICES ASSUME IInv, NoMissedWakeup, [Next]_vars, NEW q \in Proc, pc'[q] = "sleep"
             PROVE  Blocked'
  BY DEF NoMissedWakeup
<1> USE DEF IInv
<1>0. MAXOPBLOCKS \in Nat /\ LOGSIZE \in Nat /\ outstanding \in Nat /\ Len(lh) \in Nat
  BY ConstAssumption DEF TypeOK
<1>1. ASSUME NEW p \in Proc, begin_op(p) PROVE Blocked'
  <2>1. CASE Blocked
    BY <1>1, <2>1 DEF begin_op, Blocked
  <2>2. CASE ~Blocked
    <3>1. pc[q] = "sleep"
      BY <1>1, <2>2 DEF begin_op, TypeOK
    <3> QED
      BY <2>2, <3>1 DEF NoMissedWakeup
  <2> QED
    BY <2>1, <2>2
<1>2. ASSUME NEW p \in Proc, log_append(p) PROVE Blocked'
  <2>1. pc[q] = "sleep" /\ UNCHANGED <<outstanding, committing>>
    BY <1>2 DEF log_append, TypeOK
  <2>2. arg[p] \in Block
    BY <1>2 DEF log_append, Buffers, TypeOK
  <2>3. lh' = AppendTo(lh, arg[p])
    BY <1>2 DEF log_append
  <2>4. Len(lh') = Len(lh) \/ Len(lh') = Len(lh) + 1
    BY <2>2, <2>3, AppendToProperties DEF TypeOK
  <2>5. (outstanding + 1) * MAXOPBLOCKS \in Nat
    BY <1>0
  <2>6. committing \/ Len(lh) + (outstanding + 1) * MAXOPBLOCKS > LOGSIZE
    BY <2>1 DEF NoMissedWakeup, Blocked
  <2> QED
    BY <1>0, <2>1, <2>4, <2>5, <2>6 DEF Blocked
<1>3. ASSUME NEW p \in Proc, end_op(p) PROVE Blocked'
  <2>1. ~committing
    BY <1>3 DEF end_op, OpProc, Control
  <2>2. outstanding = 1
    BY <1>3, <2>1 DEF end_op, Woken, TypeOK
  <2> QED
    BY <1>3, <2>1, <2>2 DEF end_op, Blocked
<1>4. ASSUME NEW p \in Proc, Commit(p) PROVE Blocked'
  <2>1. ~commit_done(p)
    BY DEF commit_done, Woken, TypeOK
  <2>2. committing
    BY <1>4, CommitterAlone DEF Commit, write_log, write_head, install_trans, clear_head,
       commit_done, CommitPC
  <2> QED
    BY <1>4, <2>1, <2>2 DEF Commit, write_log, write_head, install_trans, clear_head,
       InstallBlock, ClearHead, Blocked
<1>5. ASSUME NEW p \in Proc, NEW b \in Block, NEW v \in Val, log_write(p, b, v) PROVE Blocked'
  BY <1>5 DEF log_write, NoMissedWakeup, Blocked, TypeOK
<1>6. CASE Crash
  BY <1>6 DEF Crash
<1>7. CASE initlog
  BY <1>7, BootAlone DEF initlog, boot_read_head, boot_install_trans, boot_clear_head
<1>8. CASE UNCHANGED vars
  BY <1>8 DEF vars, NoMissedWakeup, Blocked
<1> QED
  BY <1>1, <1>2, <1>3, <1>4, <1>5, <1>6, <1>7, <1>8 DEF Next

(* begin_op and end_op lose no wakeup: whoever sleeps on &log still has a  *)
(* reason to, for every number of processes and every log size.            *)
THEOREM LogWakesSleepers == Spec => []NoMissedWakeup
PROOF
<1>1. Init => NoMissedWakeup
  BY DEF Init, NoMissedWakeup
<1> QED
  BY <1>1, WakeupStep, LogInvariant, PTL DEF Spec

-----------------------------------------------------------------------------
(***************************************************************************)
(* Log implements AtomicTx as long as the transaction fits the area of the *)
(* log on disk.  Nothing more is asked: no matter how much of its          *)
(* reservation a call uses, whether log_write panics, and where a crash    *)
(* falls.  That a transaction may fail to fit is LogFits of the runs.      *)
(***************************************************************************)

-----------------------------------------------------------------------------
(* The inductive invariant, second part: the log area and its contents.    *)

Fits == LogFits /\ Len(dhead) <= NLOG - 1

(* The cache and the disk differ only in blocks that the header in memory  *)
(* names or whose log_write is under way.                                  *)
Clean ==
  /\ boot = "up" =>
       \A b \in Block :
         b \notin Elems(lh) /\ (\A q \in Proc : arg[q] # b) => buf[b] = home[b]
  /\ boot \notin {"up", "panic"} => buf = home

(* The header on disk is set exactly between the two write_head calls of a *)
(* commit; until then the log area is being filled from the cache, and     *)
(* after it the home blocks are being filled from the log area.            *)
Copied(n) == \A i \in 1..n : dlog[i] = buf[lh[i]]
Installed(n) == \A i \in 1..n : home[lh[i]] = dlog[i]

Phase ==
  /\ \A p \in Proc :
       /\ pc[p] = "write_log" => Copied(tail - 1)
       /\ pc[p] \in {"write_head", "install_trans", "clear_head"} => Copied(Len(lh))
       /\ pc[p] = "install_trans" => Installed(tail - 1)
       /\ pc[p] = "clear_head" => Installed(Len(lh))
       /\ pc[p] \in {"install_trans", "clear_head"} => dhead = lh
  /\ boot = "up" /\ (\A p \in Proc : pc[p] \notin {"install_trans", "clear_head"})
       => dhead = <<>>
  /\ boot = "install_trans" => Installed(tail - 1)
  /\ boot = "clear_head" => Installed(Len(lh))

DInv == IInv /\ Fits /\ Clean /\ Phase

-----------------------------------------------------------------------------

LEMMA InitDInv ==
  ASSUME LogFits, Init
  PROVE  DInv
PROOF
<1>1. IInv
  BY InitIInv
<1>2. Fits
  BY DEF Init, Fits, LogFits
<1>3. Clean
  BY DEF Init, Clean
<1>4. Phase
  BY DEF Init, Phase
<1> QED
  BY <1>1, <1>2, <1>3, <1>4 DEF DInv

(* The header on disk is that in memory, or an empty one, or the old one. *)
LEMMA FitsNext ==
  ASSUME DInv, LogFits', [Next]_vars
  PROVE  Fits'
PROOF
<1> USE DEF DInv
<1>1. dhead' = lh \/ dhead' = <<>> \/ dhead' = dhead
  BY DEF Next, begin_op, log_write, log_append, end_op, Commit, write_log, write_head,
     install_trans, clear_head, commit_done, Crash, initlog, boot_read_head,
     boot_install_trans, boot_clear_head, InstallBlock, ClearHead, diskVars, vars
<1>2. Len(<<>>) <= NLOG - 1
  BY EmptySequence, ConstAssumption DEF Fits, LogFits, IInv, TypeOK
<1> QED
  BY <1>1, <1>2 DEF Fits, LogFits

(* Positions of the header are positions of the log area. *)
LEMMA SlotInArea ==
  ASSUME DInv, NEW i \in 1..Len(lh)
  PROVE  Slot(i) = dlog[i] /\ InArea(i) /\ i \in 1..LOGSIZE
PROOF
  BY HeaderBound, ConstAssumption DEF DInv, Fits, LogFits, Slot, InArea, IInv, TypeOK

LEMMA CleanNext ==
  ASSUME DInv, [Next]_vars
  PROVE  Clean'
PROOF
<1> USE DEF DInv, IInv
<1>1. ASSUME NEW p \in Proc, begin_op(p) PROVE Clean'
  BY <1>1 DEF begin_op, Clean, diskVars
<1>2. ASSUME NEW p \in Proc, log_append(p) PROVE Clean'
  <2>1. arg[p] \in Block /\ lh \in Seq(Block)
    BY <1>2 DEF log_append, Buffers, TypeOK
  <2>2. Elems(lh') = Elems(lh) \cup {arg[p]}
    BY <1>2, <2>1, AppendToProperties DEF log_append
  <2>3. boot' = "up" /\ boot = "up" /\ UNCHANGED <<buf, home>>
    BY <1>2 DEF log_append, diskVars
  <2>4. \A q \in Proc : q # p => arg'[q] = arg[q]
    BY <1>2 DEF log_append, TypeOK
  <2> QED
    BY <2>2, <2>3, <2>4 DEF Clean
<1>3. ASSUME NEW p \in Proc, end_op(p) PROVE Clean'
  <2>1. ~committing
    BY <1>3 DEF end_op, OpProc, Control
  <2> QED
    BY <1>3, <2>1 DEF end_op, Clean, diskVars
<1>4. ASSUME NEW p \in Proc, Commit(p) PROVE Clean'
  <2>1. CASE write_log(p)
    <3>1. InArea(tail)
      BY <2>1, SlotInArea DEF write_log, Loops
    <3> QED
      BY <2>1, <3>1 DEF write_log, WriteSlot, Clean
  <2>2. CASE write_head(p)
    BY <2>2 DEF write_head, Clean
  <2>3. CASE install_trans(p)
    BY <2>3 DEF install_trans, InstallBlock, Clean, TypeOK
  <2>4. CASE clear_head(p)
    <3>1. \A i \in 1..Len(lh) : home[lh[i]] = buf[lh[i]]
      BY <2>4 DEF clear_head, Phase, Copied, Installed
    <3>2. boot = "up" /\ UNCHANGED <<buf, home, arg, boot>>
      BY <2>4 DEF clear_head, ClearHead
    <3>3. \A b \in Block : b \in Elems(lh) => buf[b] = home[b]
      BY <3>1 DEF Elems
    <3>4. pc[p] \in CommitPC
      BY <2>4 DEF clear_head, CommitPC
    <3>5. \A q \in Proc : \A b \in Block : arg[q] # b
      BY <3>4, CommitterAlone, ConstAssumption
    <3> QED
      BY <3>2, <3>3, <3>5 DEF Clean
  <2>5. CASE commit_done(p)
    BY <2>5 DEF commit_done, Clean, diskVars
  <2> QED
    BY <1>4, <2>1, <2>2, <2>3, <2>4, <2>5 DEF Commit
<1>5. ASSUME NEW p \in Proc, NEW b \in Block, NEW v \in Val, log_write(p, b, v) PROVE Clean'
  <2>1. CASE boot' = "panic"
    BY <2>1 DEF Clean
  <2> SUFFICES ASSUME boot' # "panic" PROVE Clean'
    BY <2>1
  <2>2. /\ boot = "up" /\ boot' = "up" /\ UNCHANGED <<lh, home>>
        /\ buf' = [buf EXCEPT ![b] = v] /\ arg' = [arg EXCEPT ![p] = b] /\ arg[p] = NoBlock
    BY <1>5 DEF log_write, diskVars, Buffers
  <2>3. \A q \in Proc : arg[q] # NoBlock => arg'[q] = arg[q]
    BY <2>2 DEF TypeOK
  <2>4. arg'[p] = b
    BY <2>2 DEF TypeOK
  <2> QED
    BY <2>2, <2>3, <2>4, ConstAssumption DEF Clean, TypeOK
<1>6. CASE Crash
  BY <1>6 DEF Crash, Clean, diskVars
<1>7. CASE initlog
  BY <1>7 DEF initlog, boot_read_head, boot_install_trans, boot_clear_head, InstallBlock,
     ClearHead, Clean, diskVars
<1>8. CASE UNCHANGED vars
  BY <1>8 DEF vars, Clean
<1> QED
  BY <1>1, <1>2, <1>3, <1>4, <1>5, <1>6, <1>7, <1>8 DEF Next

(* Steps in which no process is in commit() before or after. *)
LEMMA PhaseOpen ==
  ASSUME DInv, boot = "up", boot' \in {"up", "panic"}, dhead' = dhead,
         \A q \in Proc : pc[q] \notin CommitPC,
         \A q \in Proc : pc'[q] \notin CommitPC \/ pc'[q] = "commit_done"
  PROVE  Phase'
PROOF
<1>1. dhead = <<>>
  BY DEF DInv, Phase, CommitPC
<1> QED
  BY <1>1 DEF Phase, CommitPC

LEMMA PhaseOpenCalls ==
  ASSUME DInv, NEW p \in Proc,
         begin_op(p) \/ log_append(p) \/ end_op(p) \/
           \E b \in Block, v \in Val : log_write(p, b, v)
  PROVE  Phase'
PROOF
<1> USE DEF DInv, IInv
<1>1. CASE begin_op(p)
  <2>1. \A q \in Proc : pc'[q] = pc[q] \/ (pc[q] \notin CommitPC /\ pc'[q] \notin CommitPC)
    BY <1>1 DEF begin_op, CommitPC, TypeOK
  <2>2. UNCHANGED <<lh, tail, buf, boot, home, dlog, dhead>>
    BY <1>1 DEF begin_op, diskVars
  <2> QED
    BY <2>1, <2>2 DEF Phase, Copied, Installed, CommitPC
<1>2. CASE ~begin_op(p)
  <2>1. p \in OpProc /\ boot = "up"
    BY <1>2 DEF log_append, end_op, log_write, OpProc
  <2>2. ~committing /\ \A q \in Proc : pc[q] \notin CommitPC
    BY <2>1 DEF Control, Committer
  <2>3. dhead = <<>>
    BY <2>1, <2>2 DEF Phase, CommitPC
  <2>4. dhead' = dhead
    BY <1>2 DEF log_append, end_op, log_write, diskVars
  <2>5. CASE end_op(p) /\ outstanding = 1 /\ lh # <<>>
    <3>1. /\ boot' = "up" /\ tail' = 1
          /\ \A q \in Proc : pc'[q] \notin CommitPC \/ pc'[q] = "write_log"
      BY <2>1, <2>2, <2>5 DEF end_op, CommitPC, TypeOK
    <3>2. 1..(tail' - 1) = {}
      BY <3>1
    <3> QED
      BY <2>3, <2>4, <3>1, <3>2 DEF Phase, Copied, CommitPC
  <2>6. CASE ~(end_op(p) /\ outstanding = 1 /\ lh # <<>>)
    <3>1. \A q \in Proc : pc'[q] \notin CommitPC \/ pc'[q] = "commit_done"
      BY <1>2, <2>2, <2>6, ZenonT(60) DEF log_append, end_op, log_write, CommitPC, Woken, TypeOK
    <3>2. boot' \in {"up", "panic"}
      BY <1>2, <2>1 DEF log_append, end_op, log_write
    <3> QED
      BY <2>1, <2>2, <2>4, <3>1, <3>2, PhaseOpen
  <2> QED
    BY <2>5, <2>6
<1> QED
  BY <1>1, <1>2

LEMMA PhaseCommit ==
  ASSUME DInv, NEW p \in Proc, Commit(p)
  PROVE  Phase'
PROOF
<1> USE DEF DInv, IInv
<1>1. pc[p] \in CommitPC /\ boot = "up" /\ boot' = "up"
  BY DEF Commit, write_log, write_head, install_trans, clear_head, commit_done, CommitPC
<1>2. \A q \in Proc : q # p => pc[q] \notin CommitPC
  BY <1>1, CommitterAlone
<1>3. \A q \in Proc : q # p => pc'[q] \notin CommitPC
  BY <1>2 DEF Commit, write_log, write_head, install_trans, clear_head, commit_done,
     CommitPC, Woken, TypeOK
<1>4. tail \in Nat /\ Len(lh) \in Nat
  BY DEF TypeOK
<1>5. CASE write_log(p)
  <2>1. tail \in 1..Len(lh) /\ Copied(tail - 1) /\ dhead = <<>>
    BY <1>1, <1>2, <1>5 DEF write_log, Loops, Phase, CommitPC
  <2>2. InArea(tail) /\ tail \in 1..LOGSIZE
    BY <2>1, SlotInArea
  <2>3. /\ dlog' = [dlog EXCEPT ![tail] = buf[lh[tail]]]
        /\ UNCHANGED <<lh, buf, home, dhead>> /\ tail' = tail + 1
    BY <1>5, <2>2 DEF write_log, WriteSlot
  <2>4. \A i \in 1..tail : dlog'[i] = buf'[lh'[i]]
    BY <2>1, <2>2, <2>3 DEF Copied, TypeOK
  <2>5. /\ tail' - 1 = tail
        /\ pc'[p] = IF tail = Len(lh) THEN "write_head" ELSE "write_log"
    BY <1>4, <1>5, <2>3 DEF write_log, TypeOK
  <2>6. Copied(tail - 1)' /\ (pc'[p] = "write_head" => Copied(Len(lh))')
    BY <2>3, <2>4, <2>5, <1>4 DEF Copied
  <2> QED
    BY <1>1, <1>3, <2>1, <2>3, <2>5, <2>6 DEF Phase, CommitPC, Copied
<1>6. CASE write_head(p)
  <2>1. /\ UNCHANGED <<lh, buf, dlog, home>> /\ dhead' = lh /\ tail' = 1
        /\ pc'[p] = "install_trans" /\ Copied(Len(lh))
    BY <1>6 DEF write_head, Phase, TypeOK
  <2>2. 1..(tail' - 1) = {}
    BY <2>1
  <2> QED
    BY <1>1, <1>3, <2>1, <2>2 DEF Phase, CommitPC, Copied, Installed
<1>7. CASE install_trans(p)
  <2>1. /\ tail \in 1..Len(lh) /\ Copied(Len(lh)) /\ Installed(tail - 1) /\ dhead = lh
        /\ Slot(tail) = dlog[tail] /\ lh[tail] \in Block
    BY <1>7, SlotInArea DEF install_trans, Loops, Phase, TypeOK
  <2>2. /\ home' = [home EXCEPT ![lh[tail]] = dlog[tail]]
        /\ buf' = [buf EXCEPT ![lh[tail]] = dlog[tail]]
        /\ tail' = tail + 1
        /\ UNCHANGED <<lh, dlog, dhead>>
    BY <1>7, <2>1 DEF install_trans, InstallBlock
  <2>3. buf' = buf
    BY <2>1, <2>2 DEF Copied, TypeOK
  <2>4. \A i \in 1..tail : home'[lh'[i]] = dlog'[i]
    <3>1. \A i \in 1..(tail - 1) : home'[lh[i]] = dlog[i]
      <4>1. \A i \in 1..(tail - 1) : i \in 1..Len(lh) /\ lh[i] \in Block /\ lh[i] # lh[tail]
        BY <2>1 DEF TypeOK, Loops, Injective
      <4> QED
        BY <2>1, <2>2, <4>1 DEF Installed, TypeOK
    <3>2. home'[lh[tail]] = dlog[tail]
      BY <2>1, <2>2 DEF TypeOK
    <3> QED
      BY <1>4, <2>2, <3>1, <3>2 DEF Installed
  <2>5. /\ tail' - 1 = tail
        /\ pc'[p] = IF tail = Len(lh) THEN "clear_head" ELSE "install_trans"
    BY <1>4, <1>7, <2>2 DEF install_trans, TypeOK
  <2>6. Copied(Len(lh))' /\ Installed(tail - 1)'
        /\ (pc'[p] = "clear_head" => Installed(Len(lh))')
    BY <2>1, <2>2, <2>3, <2>4, <2>5 DEF Copied, Installed
  <2> QED
    BY <1>1, <1>3, <2>1, <2>2, <2>5, <2>6 DEF Phase, CommitPC, Copied, Installed
<1>8. CASE clear_head(p) \/ commit_done(p)
  <2>1. pc'[p] \in {"commit_done", "user"}
    BY <1>8 DEF clear_head, commit_done, Woken, TypeOK
  <2>2. dhead' = <<>>
    BY <1>2, <1>8, <1>1 DEF clear_head, ClearHead, commit_done, Phase, diskVars, CommitPC
  <2> QED
    BY <1>1, <1>3, <2>1, <2>2 DEF Phase, CommitPC
<1> QED
  BY <1>5, <1>6, <1>7, <1>8 DEF Commit

LEMMA PhaseBoot ==
  ASSUME DInv, initlog
  PROVE  Phase'
PROOF
<1> USE DEF DInv, IInv
<1>1. \A q \in Proc : pc'[q] = "user"
  BY BootAlone DEF initlog, boot_read_head, boot_install_trans, boot_clear_head
<1>2. CASE boot_read_head
  <2>1. /\ tail' = 1 /\ lh' = dhead
        /\ boot' \in {"clear_head", "install_trans"}
        /\ boot' = "clear_head" => dhead = <<>>
    BY <1>2 DEF boot_read_head
  <2>2. 1..(tail' - 1) = {} /\ (boot' = "clear_head" => 1..Len(lh') = {})
    BY <2>1, EmptySequence
  <2> QED
    BY <1>1, <2>1, <2>2 DEF Phase, Installed
<1>3. CASE boot_install_trans
  <2>1. /\ tail \in 1..Len(lh) /\ Installed(tail - 1) /\ tail \in Nat
        /\ Slot(tail) = dlog[tail] /\ lh[tail] \in Block
    BY <1>3, SlotInArea DEF boot_install_trans, Loops, Phase, TypeOK
  <2>2. /\ home' = [home EXCEPT ![lh[tail]] = dlog[tail]]
        /\ tail' = tail + 1
        /\ UNCHANGED <<lh, dlog>>
    BY <1>3, <2>1 DEF boot_install_trans, InstallBlock
  <2>3. \A i \in 1..tail : home'[lh'[i]] = dlog'[i]
    <3>1. \A i \in 1..(tail - 1) : home'[lh[i]] = dlog[i]
      <4>1. \A i \in 1..(tail - 1) : i \in 1..Len(lh) /\ lh[i] \in Block /\ lh[i] # lh[tail]
        BY <2>1 DEF TypeOK, Loops, Injective
      <4> QED
        BY <2>1, <2>2, <4>1 DEF Installed, TypeOK
    <3>2. home'[lh[tail]] = dlog[tail]
      BY <2>1, <2>2 DEF TypeOK
    <3> QED
      BY <2>1, <2>2, <3>1, <3>2 DEF Installed
  <2>4. tail' - 1 = tail
    BY <2>1, <2>2
  <2>5. boot' = IF tail = Len(lh) THEN "clear_head" ELSE "install_trans"
    BY <1>3 DEF boot_install_trans
  <2>6. Installed(tail - 1)' /\ (boot' = "clear_head" => Installed(Len(lh))')
    BY <2>1, <2>2, <2>3, <2>4, <2>5 DEF Installed
  <2> QED
    BY <1>1, <2>2, <2>5, <2>6 DEF Phase, Installed
<1>4. CASE boot_clear_head
  BY <1>1, <1>4 DEF boot_clear_head, ClearHead, Phase
<1> QED
  BY <1>2, <1>3, <1>4 DEF initlog

LEMMA NextDInv == DInv /\ LogFits' /\ [Next]_vars => DInv'
PROOF
<1> SUFFICES ASSUME DInv, LogFits', [Next]_vars PROVE DInv'
  OBVIOUS
<1>1. IInv' /\ Fits' /\ Clean'
  BY NextIInv, FitsNext, CleanNext DEF DInv
<1>2. Phase'
  <2>1. ASSUME NEW p \in Proc, begin_op(p) \/ log_append(p) \/ end_op(p) PROVE Phase'
    BY <2>1, PhaseOpenCalls
  <2>2. ASSUME NEW p \in Proc, NEW b \in Block, NEW v \in Val, log_write(p, b, v) PROVE Phase'
    BY <2>2, PhaseOpenCalls
  <2>3. ASSUME NEW p \in Proc, Commit(p) PROVE Phase'
    BY <2>3, PhaseCommit
  <2>4. CASE Crash
    BY <2>4 DEF Crash, Phase
  <2>5. CASE initlog
    BY <2>5, PhaseBoot
  <2>6. CASE UNCHANGED vars
    BY <2>6 DEF vars, DInv, Phase, Copied, Installed
  <2> QED
    BY <2>1, <2>2, <2>3, <2>4, <2>5, <2>6 DEF Next
<1> QED
  BY <1>1, <1>2 DEF DInv

-----------------------------------------------------------------------------
(* What recovery would find, and how each step changes it. *)

LEMMA RecoveredValue ==
  ASSUME DInv
  PROVE  /\ \A i \in 1..Len(dhead) : Recovered[dhead[i]] = dlog[i]
         /\ \A b \in Block : b \notin Elems(dhead) => Recovered[b] = home[b]
PROOF
<1> USE DEF DInv, IInv
<1>1. ASSUME NEW i \in 1..Len(dhead)
      PROVE  Recovered[dhead[i]] = dlog[i]
  <2>1. dhead[i] \in Block /\ dhead[i] \in Elems(dhead)
    BY DEF TypeOK, Elems
  <2>2. (CHOOSE j \in 1..Len(dhead) : dhead[j] = dhead[i]) = i
    BY DEF Loops, Injective
  <2>3. Slot(i) = dlog[i]
    BY ConstAssumption DEF Slot, InArea, Fits, LogFits, TypeOK
  <2> QED
    BY <2>1, <2>2, <2>3 DEF Recovered
<1>2. \A b \in Block : b \notin Elems(dhead) => Recovered[b] = home[b]
  BY DEF Recovered
<1> QED
  BY <1>1, <1>2

(* With no header on disk the home blocks are what recovery finds. *)
LEMMA RecoveredHome ==
  ASSUME dhead = <<>>, home \in [Block -> Val]
  PROVE  Recovered = home
PROOF
  BY EmptySequence DEF Recovered

LEMMA RecoveredKept == UNCHANGED diskVars => Recovered' = Recovered
PROOF
  BY DEF diskVars, Recovered, Slot

(* Installing a block that the header on disk names changes nothing. *)
LEMMA RecoveredInstall ==
  ASSUME DInv, DInv', tail \in 1..Len(lh), dhead = lh, InstallBlock
  PROVE  Recovered' = Recovered
PROOF
<1> USE DEF DInv, IInv
<1>1. /\ dhead' = dhead /\ dlog' = dlog
      /\ home' = [home EXCEPT ![lh[tail]] = Slot(tail)]
      /\ lh[tail] \in Elems(dhead)
  BY DEF InstallBlock, Elems
<1>2. \A b \in Block : b \notin Elems(dhead) => home'[b] = home[b]
  BY <1>1 DEF TypeOK
<1>3. ASSUME NEW b \in Block, b \in Elems(dhead)
      PROVE  Recovered'[b] = Recovered[b]
  <2>1. PICK j \in 1..Len(dhead) : dhead[j] = b
    BY <1>3 DEF Elems
  <2>2. j < NLOG /\ (\A k \in 1..Len(dhead) : dhead[k] = b => k = j)
    BY <2>1, ConstAssumption DEF Loops, Injective, Fits, LogFits, TypeOK
  <2>3. (CHOOSE k \in 1..Len(dhead) : dhead[k] = b) = j
    BY <2>1, <2>2
  <2>4. Slot(j)' = dlog[j] /\ Slot(j) = dlog[j]
    BY <1>1, <2>2 DEF Slot, InArea
  <2> QED
    BY <1>1, <1>3, <2>3, <2>4 DEF Recovered
<1>4. ASSUME NEW b \in Block, b \notin Elems(dhead)
      PROVE  Recovered'[b] = Recovered[b]
  BY <1>1, <1>2, <1>4 DEF Recovered
<1>5. \A b \in Block : Recovered'[b] = Recovered[b]
  BY <1>3, <1>4
<1> QED
  BY <1>5 DEF Recovered

(* Once every block is installed the header may go. *)
LEMMA RecoveredInstalled ==
  ASSUME DInv, dhead = lh, Installed(Len(lh))
  PROVE  Recovered = home
PROOF
<1>1. \A b \in Block : b \in Elems(dhead) => Recovered[b] = home[b]
  BY RecoveredValue DEF Elems, Installed
<1>2. \A b \in Block : Recovered[b] = home[b]
  BY <1>1, RecoveredValue
<1> QED
  BY <1>2, RecoveredValue DEF DInv, IInv, TypeOK, Recovered

(* A log area filled from a cache that differs from the disk only in the   *)
(* blocks of the header holds everything.                                  *)
LEMMA RecoveredCommit ==
  ASSUME DInv, DInv', NEW p \in Proc, write_head(p)
  PROVE  Recovered' = buf
PROOF
<1> USE DEF DInv, IInv
<1>1. pc[p] \in CommitPC /\ boot = "up" /\ dhead' = lh /\ UNCHANGED <<lh, dlog, home, buf>>
  BY DEF write_head, CommitPC
<1>2. \A q \in Proc : \A b \in Block : arg[q] # b
  BY <1>1, CommitterAlone, ConstAssumption
<1>3. \A i \in 1..Len(lh) : dlog[i] = buf[lh[i]]
  BY DEF write_head, Phase, Copied
<1>4. ASSUME NEW b \in Block, b \notin Elems(lh)
      PROVE  Recovered'[b] = buf[b]
  <2>1. buf[b] = home[b]
    BY <1>1, <1>2, <1>4 DEF Clean
  <2> QED
    BY <1>1, <1>4, <2>1 DEF Recovered
<1>5. ASSUME NEW b \in Block, b \in Elems(lh)
      PROVE  Recovered'[b] = buf[b]
  <2>1. PICK j \in 1..Len(lh) : lh[j] = b
    BY <1>5 DEF Elems
  <2>2. j < NLOG /\ (\A k \in 1..Len(lh) : lh[k] = b => k = j)
    BY <2>1, ConstAssumption DEF Loops, Injective, Fits, LogFits, TypeOK
  <2>3. (CHOOSE k \in 1..Len(lh) : lh[k] = b) = j
    BY <2>1, <2>2
  <2>4. Slot(j)' = dlog[j]
    BY <1>1, <2>2 DEF Slot, InArea
  <2> QED
    BY <1>1, <1>3, <1>5, <2>1, <2>3, <2>4 DEF Recovered
<1>6. \A b \in Block : Recovered'[b] = buf[b]
  BY <1>4, <1>5
<1> QED
  BY <1>6 DEF Recovered, TypeOK

-----------------------------------------------------------------------------
(* Every step of the log is a step of AtomicTx or changes nothing there.   *)

LEMMA InitTx ==
  ASSUME Init
  PROVE  Tx!Init
PROOF
<1>1. home = [b \in Block |-> InitVal] /\ dhead = <<>> /\ boot = "read_head"
  BY DEF Init
<1>2. home \in [Block -> Val]
  BY <1>1, ConstAssumption
<1>3. Recovered = [b \in Block |-> InitVal]
  BY <1>1, <1>2, RecoveredHome
<1>4. OpProc = {}
  BY DEF Init, OpProc
<1> QED
  BY <1>1, <1>3, <1>4 DEF Tx!Init

LEMMA StepTx ==
  ASSUME DInv, DInv', [Next]_vars
  PROVE  [Tx!Next]_(Tx!txVars)
PROOF
<1> USE DEF DInv, IInv
<1>1. ASSUME NEW p \in Proc, begin_op(p)
      PROVE  [Tx!Next]_(Tx!txVars)
  <2>1. Recovered' = Recovered /\ buf' = buf /\ boot = "up" /\ boot' = "up"
    BY <1>1, RecoveredKept DEF begin_op
  <2>2. CASE Blocked
    <3>1. OpProc' = OpProc
      BY <1>1, <2>2 DEF begin_op, OpProc, TypeOK
    <3> QED
      BY <2>1, <3>1 DEF Tx!txVars
  <2>3. CASE ~Blocked
    <3>1. p \notin OpProc /\ OpProc' = OpProc \cup {p}
      BY <1>1, <2>3 DEF begin_op, OpProc, TypeOK
    <3>2. Tx!Begin(p)
      BY <2>1, <3>1 DEF Tx!Begin
    <3> QED
      BY <3>2 DEF Tx!Next
  <2> QED
    BY <2>2, <2>3
<1>2. ASSUME NEW p \in Proc, log_append(p)
      PROVE  [Tx!Next]_(Tx!txVars)
  <2>1. Recovered' = Recovered /\ buf' = buf /\ boot' = boot
    BY <1>2, RecoveredKept DEF log_append
  <2>2. OpProc' = OpProc
    BY <1>2 DEF log_append, OpProc, TypeOK
  <2> QED
    BY <2>1, <2>2 DEF Tx!txVars
<1>3. ASSUME NEW p \in Proc, end_op(p)
      PROVE  [Tx!Next]_(Tx!txVars)
  <2>1. ~committing /\ p \in OpProc
    BY <1>3 DEF end_op, OpProc, Control
  <2>2. Recovered' = Recovered /\ buf' = buf /\ boot = "up" /\ boot' = "up"
    BY <1>3, <2>1, RecoveredKept DEF end_op
  <2>3. OpProc' = OpProc \ {p}
    BY <1>3, <2>1 DEF end_op, OpProc, Woken, TypeOK
  <2>4. Tx!End(p)
    BY <2>1, <2>2, <2>3 DEF Tx!End
  <2> QED
    BY <2>4 DEF Tx!Next
<1>4. ASSUME NEW p \in Proc, Commit(p)
      PROVE  [Tx!Next]_(Tx!txVars)
  <2>1. pc[p] \in CommitPC /\ boot = "up" /\ boot' = "up"
    BY <1>4 DEF Commit, write_log, write_head, install_trans, clear_head, commit_done, CommitPC
  <2>2. OpProc = {}
    BY <2>1, CommitterAlone
  <2>3. OpProc' = {}
    BY <1>4, <2>1, CommitterAlone DEF Commit, write_log, write_head, install_trans, clear_head,
       commit_done, Woken, OpProc, TypeOK
  <2>4. CASE write_log(p)
    <3>1. tail \in 1..Len(lh) /\ dhead = <<>> /\ dhead' = <<>>
      BY <2>1, <2>4, CommitterAlone DEF write_log, Loops, Phase, CommitPC
    <3>2. buf' = buf /\ home' = home
      BY <2>4, <3>1, SlotInArea DEF write_log, WriteSlot
    <3>3. Recovered = home /\ Recovered' = home
      BY <3>1, <3>2, EmptySequence DEF Recovered, TypeOK
    <3> QED
      BY <2>1, <2>2, <2>3, <3>2, <3>3 DEF Tx!txVars
  <2>5. CASE write_head(p)
    <3>1. buf' = buf /\ Recovered' = buf
      BY <2>5, RecoveredCommit DEF write_head
    <3>2. Tx!Commit
      BY <2>1, <2>2, <2>3, <3>1 DEF Tx!Commit
    <3> QED
      BY <3>2 DEF Tx!Next
  <2>6. CASE install_trans(p)
    <3>1. /\ tail \in 1..Len(lh) /\ dhead = lh /\ InstallBlock
          /\ lh[tail] \in Block /\ Slot(tail) = buf[lh[tail]]
      BY <2>6, SlotInArea DEF install_trans, Loops, Phase, Copied, TypeOK
    <3>2. Recovered' = Recovered
      BY <3>1, RecoveredInstall
    <3>3. buf' = buf
      BY <3>1 DEF InstallBlock, TypeOK
    <3> QED
      BY <2>1, <2>2, <2>3, <3>2, <3>3 DEF Tx!txVars
  <2>7. CASE clear_head(p)
    <3>1. Recovered = home
      BY <2>7, RecoveredInstalled DEF clear_head, Phase
    <3>2. Recovered' = home /\ buf' = buf
      BY <2>7, EmptySequence DEF clear_head, ClearHead, Recovered, TypeOK
    <3> QED
      BY <2>1, <2>2, <2>3, <3>1, <3>2 DEF Tx!txVars
  <2>8. CASE commit_done(p)
    BY <2>1, <2>2, <2>3, <2>8, RecoveredKept DEF commit_done, Tx!txVars
  <2> QED
    BY <1>4, <2>4, <2>5, <2>6, <2>7, <2>8 DEF Commit
<1>5. ASSUME NEW p \in Proc, NEW b \in Block, NEW v \in Val, log_write(p, b, v)
      PROVE  [Tx!Next]_(Tx!txVars)
  <2>1. boot = "up" /\ boot' \in {"up", "panic"} /\ p \in OpProc /\ OpProc' = OpProc
    BY <1>5 DEF log_write, OpProc, TypeOK
  <2>2. Recovered' = Recovered /\ buf' = [buf EXCEPT ![b] = v]
    BY <1>5, RecoveredKept DEF log_write
  <2>3. Tx!Write(p, b, v)
    BY <2>1, <2>2 DEF Tx!Write
  <2> QED
    BY <2>3 DEF Tx!Next
<1>6. CASE Crash
  <2>1. Recovered' = Recovered /\ boot' = "read_head"
    BY <1>6, RecoveredKept DEF Crash
  <2>2. OpProc' = {}
    BY <1>6 DEF Crash, OpProc
  <2>3. Tx!Crash
    BY <2>1, <2>2 DEF Tx!Crash
  <2> QED
    BY <2>3 DEF Tx!Next
<1>7. CASE initlog
  <2>1. boot \notin {"up", "panic"} /\ OpProc' = OpProc
    BY <1>7 DEF initlog, boot_read_head, boot_install_trans, boot_clear_head, OpProc
  <2>2. CASE boot_read_head
    <3>1. Recovered' = Recovered /\ boot' \notin {"up", "panic"}
      BY <2>2, RecoveredKept DEF boot_read_head
    <3> QED
      BY <2>1, <3>1 DEF Tx!txVars
  <2>3. CASE boot_install_trans
    <3>1. tail \in 1..Len(lh) /\ dhead = lh /\ InstallBlock
      BY <2>3 DEF boot_install_trans, Loops
    <3>2. Recovered' = Recovered /\ boot' \notin {"up", "panic"}
      BY <2>3, <3>1, RecoveredInstall DEF boot_install_trans
    <3> QED
      BY <2>1, <3>2 DEF Tx!txVars
  <2>4. CASE boot_clear_head
    <3>1. Recovered = home /\ buf = home
      BY <2>4, RecoveredInstalled DEF boot_clear_head, Phase, Loops, Clean
    <3>2. Recovered' = home /\ buf' = buf /\ boot' = "up"
      BY <2>4, EmptySequence DEF boot_clear_head, ClearHead, Recovered, TypeOK
    <3>3. Tx!Recovered
      BY <2>1, <3>1, <3>2 DEF Tx!Recovered
    <3> QED
      BY <3>3 DEF Tx!Next
  <2> QED
    BY <1>7, <2>2, <2>3, <2>4 DEF initlog
<1>8. CASE UNCHANGED vars
  <2>1. Recovered' = Recovered /\ OpProc' = OpProc
    BY <1>8, RecoveredKept DEF vars, diskVars, OpProc
  <2> QED
    BY <1>8, <2>1 DEF vars, Tx!txVars
<1> QED
  BY <1>1, <1>2, <1>3, <1>4, <1>5, <1>6, <1>7, <1>8 DEF Next

-----------------------------------------------------------------------------
(* The theorems. *)

LEMMA DataInvariant == Spec /\ []LogFits => []DInv
PROOF
<1>1. Init /\ LogFits => DInv
  BY InitDInv
<1>2. DInv /\ LogFits' /\ [Next]_vars => DInv'
  BY NextDInv
<1> QED
  BY <1>1, <1>2, PTL DEF Spec

(* When no call is open and no commit runs, everything is durable.         *)
THEOREM FittingLogIsDurable == Spec /\ []LogFits => []QuiescentDurable
PROOF
<1>1. DInv => QuiescentDurable
  <2> SUFFICES ASSUME DInv, boot = "up", outstanding = 0, ~committing
               PROVE  Recovered = buf
    BY DEF QuiescentDurable
  <2> USE DEF DInv, IInv
  <2>1. OpProc = {} /\ Committer = {}
    BY OpProcFinite, FS_EmptySet DEF Control
  <2>2. lh = <<>> /\ dhead = <<>>
    BY <2>1 DEF Loops, Phase, Committer, CommitPC
  <2>3. \A q \in Proc : arg[q] = NoBlock
    BY <2>1 DEF Buffers, OpProc
  <2>4. \A b \in Block : buf[b] = home[b]
    BY <2>2, <2>3, EmptySequence, ConstAssumption DEF Clean
  <2>5. Recovered = home
    BY <2>2, RecoveredHome DEF TypeOK
  <2> QED
    BY <2>4, <2>5 DEF TypeOK
<1> QED
  BY <1>1, DataInvariant, PTL

(* A home block changes on disk only while the header on disk names it. *)
THEOREM FittingLogWritesAhead == Spec /\ []LogFits => WriteAhead
PROOF
<1> DEFINE A == \A b \in Block : home'[b] # home[b] => b \in Elems(dhead)
<1>1. DInv /\ [Next]_vars => [A]_vars
  <2> SUFFICES ASSUME DInv, Next PROVE A
    OBVIOUS
  <2> USE DEF DInv, IInv
  <2>1. CASE UNCHANGED home
    BY <2>1
  <2>2. CASE InstallBlock /\ tail \in 1..Len(lh) /\ dhead = lh
    BY <2>2 DEF InstallBlock, Elems, TypeOK
  <2>3. ASSUME NEW p \in Proc, write_log(p) PROVE UNCHANGED home
    BY <2>3, SlotInArea DEF write_log, WriteSlot, Loops
  <2>4. ASSUME NEW p \in Proc, install_trans(p)
        PROVE  InstallBlock /\ tail \in 1..Len(lh) /\ dhead = lh
    BY <2>4 DEF install_trans, Loops, Phase
  <2>5. ASSUME boot_install_trans
        PROVE  InstallBlock /\ tail \in 1..Len(lh) /\ dhead = lh
    BY <2>5 DEF boot_install_trans, Loops
  <2>6. \/ UNCHANGED home
        \/ \E p \in Proc : write_log(p) \/ install_trans(p)
        \/ boot_install_trans
    BY DEF Next, begin_op, log_write, log_append, end_op, Commit, write_head, clear_head,
       commit_done, Crash, initlog, boot_read_head, boot_clear_head, ClearHead, diskVars
  <2> QED
    BY <2>1, <2>2, <2>3, <2>4, <2>5, <2>6
<1>2. Spec /\ []LogFits => [][A]_vars
  BY <1>1, DataInvariant, PTL DEF Spec
<1> QED
  BY <1>2 DEF WriteAhead

(* The log implements atomic transactions: a crash at any step leaves the  *)
(* memory of a moment at which no system call was half done.               *)
THEOREM LogImplementsAtomicTx == Spec /\ []LogFits => TxSpec
PROOF
<1>1. Init => Tx!Init
  BY InitTx
<1>2. DInv /\ DInv' /\ [Next]_vars => [Tx!Next]_(Tx!txVars)
  BY StepTx
<1> QED
  BY <1>1, <1>2, DataInvariant, PTL DEF Spec, TxSpec, Tx!Spec
=============================================================================
