------------------------------ MODULE FsProofs ------------------------------
(***************************************************************************)
(* Proofs about the inode cache, directories and the calls on names, for   *)
(* any number of processes, inodes and names, and whatever the calls.      *)
(***************************************************************************)
EXTENDS Fs, FiniteSetTheorems, WellFoundedInduction, TLAPS

-----------------------------------------------------------------------------
(* The inductive invariant *)

PCs == {"idle", "walk", "target", "parent", "child", "link_bad"}
Record == [pc : PCs, op : Call \cup {"none"}, at : 0..NINODES, path : Seq(Elem),
           ip : 0..NINODES, new : Path]

(* The types of what is in memory *)
Types ==
  /\ valid \in [Inum -> BOOLEAN] /\ ref \in [Inum -> Nat]
  /\ dir \in [Inum -> [Elem -> 0..NINODES]]
  /\ lock \in [Inum -> Proc \cup {NoProc}]
  /\ c \in [Proc -> Record]
  /\ put \in [Proc -> Seq(Inum)]
  /\ stage \in [Proc -> {"test", "free", "clear"}]
  /\ cwd \in [Proc -> Inum] /\ file \in [Proc -> 0..NINODES]

(* Where a call is, and what it has: c[p], put[p] and stage[p] *)
Proper(x, s, g, h) ==
  /\ Len(s) <= 2 /\ (g # "test" => s # <<>>)
  /\ x.pc = "idle" => x.at = 0 /\ x.ip = 0 /\ x.op = "none"
  /\ x.pc \in {"walk", "target", "parent", "child"} => x.at # 0
  /\ x.pc = "target" => x.ip = 0
  /\ x.pc \in {"walk", "parent"} /\ x.ip # 0 => x.op = "link"
  /\ x.pc \in {"parent", "child"} => s = <<>> /\ Len(x.path) = 1
  /\ x.pc = "parent" => x.op \in OfParent \/ (x.op = "link" /\ x.ip # 0)
  /\ x.pc = "child" => x.ip # 0 /\ x.op \in OfParent
  /\ x.pc = "link_bad" => x.at = 0 /\ x.ip # 0 /\ x.op = "link"
  /\ x.op \in {"open", "create"} => h = 0
Control == \A p \in Proc : Proper(c[p], put[p], stage[p], file[p])

(* The pointers of a process, one by one *)
Nth(s, k) == IF k <= Len(s) THEN s[k] ELSE 0
Is(a, i) == IF a = i THEN 1 ELSE 0
Own(w, h, x, s, i) ==
  Is(w, i) + Is(h, i) + Is(x.at, i) + Is(x.ip, i) + Is(Nth(s, 1), i) + Is(Nth(s, 2), i)
Mine(p, i) == Own(cwd[p], file[p], c[p], put[p], i)

RefCounts == \A i \in Inum : ref[i] = Pointers(i)

(* The calls that create and unlink hold the lock of the directory, and    *)
(* there are no other locks.                                               *)
Locks ==
  /\ \A p \in Proc : c[p].pc = "child" => lock[c[p].at] = p
  /\ \A i \in Inum, p \in Proc : lock[i] = p => c[p].pc = "child" /\ c[p].at = i

(* No path has a "..". *)
Plain(s) == \A k \in 1..Len(s) : s[k] # ".."
Forward == \A p \in Proc : Plain(c[p].path) /\ Plain(c[p].new)

DiskTypes ==
  /\ din \in [Inum -> [type : Type, nlink : Nat]]
  /\ inode \in [Inum -> [type : Type, nlink : Nat]]

Creates(p) == c[p].pc = "child" /\ c[p].op # "unlink"
Creating(i) == \E p \in Proc : Creates(p) /\ c[p].ip = i

(* Pointers lead to inodes that are allocated, except in the last step of  *)
(* an iput.                                                                *)
Clearing(p, i) == stage[p] = "clear" /\ Head(put[p]) = i
Live ==
  \A p \in Proc, i \in Inum : Mine(p, i) > 0 => din[i].type # "none" \/ Clearing(p, i)

(* An iput that frees an inode has the only pointer to it. *)
Freeing ==
  \A p \in Proc : stage[p] # "test" =>
    LET i == Head(put[p]) IN
    /\ ref[i] = 1 /\ din[i].nlink = 0 /\ valid[i]
    /\ stage[p] = "clear" => din[i].type = "none"

(* A new inode is known to its maker only. *)
FreshFor(p) ==
  Creates(p) =>
    LET i == c[p].ip IN
    /\ ref[i] = 1 /\ din[i].nlink = 0 /\ dir[i] = NoEntry /\ i \notin removed
    /\ din[i].type # "none" /\ (din[i].type = "dir" <=> c[p].op = "mkdir")
Fresh == \A p \in Proc : FreshFor(p)

(* Calls at work in a directory *)
WorkingFor(p) ==
  /\ c[p].pc \in {"parent", "child"} => din[c[p].at].type = "dir"
  /\ c[p].pc = "child" =>
       /\ valid[c[p].at] /\ Head(c[p].path) \in Name
       /\ dir[c[p].at][Head(c[p].path)] = (IF c[p].op = "unlink" THEN c[p].ip ELSE 0)
  /\ c[p].op = "link" /\ c[p].ip # 0 => din[c[p].ip].type # "dir"
Working == \A p \in Proc : WorkingFor(p)

Dirs ==
  /\ \A i \in Inum : /\ din[i].type # "dir" => dir[i] = NoEntry
                     /\ din[i].type = "dir" /\ ~Creating(i) => dir[i]["."] = i
                     /\ din[i].type = "none" => din[i].nlink = 0 /\ i \notin removed
  /\ din[ROOTINO].type = "dir" /\ dir[ROOTINO][".."] = ROOTINO

Cached ==
  \A i \in Inum : valid[i] =>
    /\ inode[i] = din[i] /\ ref[i] > 0
    /\ din[i].type = "none" => \E p \in Proc : Clearing(p, i)

(* Link counts, with the directories that a directory has under a name *)
NamesIn(t, i) == {x \in Inum \X Name : t[x[1]][x[2]] = i}
DirsIn(t, y, i) == {e \in Name : t[i][e] # 0 /\ y[t[i][e]].type = "dir"}
LinkersIn(f, i) == {p \in Proc : f[p].op = "link" /\ f[p].ip = i}
Root(i) == IF i = ROOTINO THEN 1 ELSE 0
Links(i) ==
  Cardinality(NamesIn(dir, i)) + Cardinality(DirsIn(dir, din, i))
  + Cardinality(LinkersIn(c, i)) + Root(i)
Linked ==
  \A i \in Inum : din[i].nlink >= Links(i) /\ (i \notin removed => din[i].nlink = Links(i))

(* What was entered in a removed directory is apart from the rest. *)
Apart ==
  /\ \A d \in Inum, e \in Name : dir[d][e] # 0 =>
       /\ d \in removed => dir[d][e] \in removed
       /\ d \notin removed => ~(IsDir(dir[d][e]) /\ dir[d][e] \in removed)
  /\ \A d \in Inum \ removed : din[d].nlink = 0 => \A e \in Name : dir[d][e] = 0

(* Directories form a tree: each has one name, in the directory that its   *)
(* ".." leads to, and the names form no cycle.                             *)
Tree ==
  /\ \A d, f \in Inum, e, g \in Name :
       dir[d][e] # 0 /\ IsDir(dir[d][e]) /\ dir[f][g] = dir[d][e] => d = f /\ e = g
  /\ \A d \in Inum, e \in Name :
       dir[d][e] # 0 /\ IsDir(dir[d][e]) => dir[dir[d][e]][".."] = d
  /\ \A i \in Inum \ (removed \cup {ROOTINO}) :
       IsDir(i) /\ din[i].nlink > 0 =>
         dir[i][".."] # 0 /\ \E e \in Name : dir[dir[i][".."]][e] = i
Acyclic == \A S \in SUBSET Inum : S # {} => \E d \in S : \A e \in Name : dir[d][e] \notin S

(* An inode without a link stays in the cache until it is freed. *)
Kept ==
  \A i \in Inum \ orphans : din[i].type # "none" /\ din[i].nlink = 0 /\ ~Creating(i) => valid[i]

NoPanic == panic \in {"", "ialloc: no inodes"}

MemInv == Types /\ Control /\ RefCounts /\ Locks
FsInv ==
  /\ MemInv /\ Forward /\ DiskTypes /\ Live /\ Freeing /\ Fresh /\ Working /\ Dirs /\ Cached
  /\ Linked /\ Apart /\ Tree /\ Acyclic /\ Kept /\ NoPanic

-----------------------------------------------------------------------------
(* Counting *)

(* A set of numbers has a least one, which Min finds. *)
LEMMA MinIn ==
  ASSUME NEW S \in SUBSET Nat, S # {}
  PROVE  Min(S) \in S
PROOF
<1>1. PICK n \in S : \A m \in S : ~ (<<m, n>> \in OpToRel(<, Nat))
  BY WFMin, NatLessThanWellFounded
<1>2. \A m \in S : n <= m
  <2> SUFFICES ASSUME NEW m \in S PROVE n <= m
    OBVIOUS
  <2>1. m \in Nat /\ n \in Nat
    OBVIOUS
  <2>2. ~ (m < n)
    BY <1>1, <2>1 DEF OpToRel
  <2> QED
    BY <2>1, <2>2
<1> QED
  BY <1>2 DEF Min

(* What one element adds to the size of a set *)
One(x, A) == IF x \in A THEN 1 ELSE 0

(* A set without one element. *)
LEMMA CardWithout ==
  ASSUME NEW A, IsFiniteSet(A), NEW x
  PROVE  /\ IsFiniteSet(A \ {x}) /\ Cardinality(A) \in Nat /\ Cardinality(A \ {x}) \in Nat
         /\ Cardinality(A) = Cardinality(A \ {x}) + One(x, A)
PROOF
<1>1. IsFiniteSet(A \ {x})
  BY FS_Subset
<1>2. Cardinality(A) \in Nat /\ Cardinality(A \ {x}) \in Nat
  BY <1>1, FS_CardinalityType
<1>3. CASE x \in A
  BY <1>1, <1>2, <1>3, FS_RemoveElement DEF One
<1>4. CASE x \notin A
  <2>1. A \ {x} = A
    BY <1>4
  <2>2. Cardinality(A \ {x}) = Cardinality(A) /\ One(x, A) = 0
    BY <1>4, <2>1, Zenon DEF One
  <2> QED
    BY <1>1, <1>2, <2>2
<1> QED
  BY <1>3, <1>4

(* Two sets that differ in one element at most. *)
LEMMA CardOne ==
  ASSUME NEW A, NEW B, IsFiniteSet(A), IsFiniteSet(B), NEW x, A \ {x} = B \ {x}
  PROVE  /\ Cardinality(A) \in Nat /\ Cardinality(B) \in Nat
         /\ Cardinality(A) - One(x, A) = Cardinality(B) - One(x, B)
PROOF
<1>1. Cardinality(A) \in Nat /\ Cardinality(A \ {x}) \in Nat
      /\ Cardinality(A) = Cardinality(A \ {x}) + One(x, A)
  BY CardWithout
<1>2. Cardinality(B) \in Nat /\ Cardinality(B) = Cardinality(B \ {x}) + One(x, B)
  BY CardWithout
<1>3. Cardinality(A \ {x}) = Cardinality(B \ {x})
  BY Zenon
<1>4. One(x, A) \in Nat /\ One(x, B) \in Nat
  BY DEF One
<1> QED
  BY <1>1, <1>2, <1>3, <1>4

(* A set without two elements. *)
LEMMA CardTwo ==
  ASSUME NEW A, IsFiniteSet(A), NEW x, NEW y, x # y
  PROVE  /\ Cardinality(A) \in Nat /\ Cardinality(A \ {x, y}) \in Nat
         /\ Cardinality(A) = Cardinality(A \ {x, y}) + One(x, A) + One(y, A)
PROOF
<1>1. PICK C : C = A \ {x}
  OBVIOUS
<1>2. /\ Cardinality(A) \in Nat /\ Cardinality(C) \in Nat /\ IsFiniteSet(C)
      /\ Cardinality(A) = Cardinality(C) + One(x, A)
  BY <1>1, CardWithout
<1>3. C \ {y} = A \ {x, y} /\ One(y, C) = One(y, A)
  BY <1>1 DEF One
<1>4. Cardinality(C \ {y}) \in Nat /\ Cardinality(C) = Cardinality(C \ {y}) + One(y, C)
  BY <1>2, CardWithout
<1>5. Cardinality(C \ {y}) = Cardinality(A \ {x, y})
  BY <1>3
<1>6. One(x, A) \in Nat /\ One(y, A) \in Nat
  BY DEF One
<1> QED
  BY <1>2, <1>3, <1>4, <1>5, <1>6

(* Two elements are two. *)
LEMMA CardPair ==
  ASSUME NEW A, IsFiniteSet(A), NEW x, NEW y, x # y
  PROVE  Cardinality(A) \in Nat /\ Cardinality(A) >= One(x, A) + One(y, A)
PROOF
<1> DEFINE C == A \ {x}
<1>1. /\ Cardinality(A) \in Nat /\ Cardinality(C) \in Nat /\ IsFiniteSet(C)
      /\ Cardinality(A) = Cardinality(C) + One(x, A)
  BY CardWithout
<1>2. One(y, C) = One(y, A)
  BY DEF One
<1> HIDE DEF C
<1>3. Cardinality(C) = Cardinality(C \ {y}) + One(y, C) /\ Cardinality(C \ {y}) \in Nat
  BY <1>1, CardWithout
<1> QED
  BY <1>1, <1>2, <1>3 DEF One

-----------------------------------------------------------------------------
(* Pointers *)

(* The processes for which a field is i, and the places in what they put *)
Having(f, i) == {q \in Proc : f[q] = i}
HavingAt(f, i) == {q \in Proc : f[q].at = i}
HavingIp(f, i) == {q \in Proc : f[q].ip = i}
Putting(f, i) == {q \in Proc \X (1..2) : q[2] \in DOMAIN f[q[1]] /\ f[q[1]][q[2]] = i}

(* Pointers counts them. *)
LEMMA PointersAre ==
  ASSUME NEW i
  PROVE  Pointers(i) = Cardinality(Having(cwd, i)) + Cardinality(Having(file, i))
                       + Cardinality(HavingAt(c, i)) + Cardinality(HavingIp(c, i))
                       + Cardinality(Putting(put, i))
PROOF
  BY DEF Pointers, Having, HavingAt, HavingIp, Putting

(* They are finitely many. *)
LEMMA HavingFinite ==
  ASSUME NEW f, NEW i
  PROVE  /\ IsFiniteSet(Having(f, i)) /\ IsFiniteSet(HavingAt(f, i))
         /\ IsFiniteSet(HavingIp(f, i)) /\ IsFiniteSet(Putting(f, i))
PROOF
<1>1. IsFiniteSet(Proc)
  BY FsAssumption
<1>2. IsFiniteSet(Proc \X (1..2))
  <2>1. IsFiniteSet(1..2)
    <3>1. 1 \in Int /\ 2 \in Int
      OBVIOUS
    <3> QED
      BY <3>1, FS_Interval, Zenon
  <2> QED
    BY <1>1, <2>1, FS_Product
<1>3. /\ Having(f, i) \subseteq Proc /\ HavingAt(f, i) \subseteq Proc
      /\ HavingIp(f, i) \subseteq Proc /\ Putting(f, i) \subseteq Proc \X (1..2)
  BY DEF Having, HavingAt, HavingIp, Putting
<1> QED
  BY <1>1, <1>2, <1>3, FS_Subset

(* A change for one process. *)
LEMMA HavingStep ==
  ASSUME NEW f, NEW g, NEW i, NEW p \in Proc, \A q \in Proc : q # p => g[q] = f[q]
  PROVE  /\ Cardinality(Having(g, i)) \in Nat /\ Cardinality(Having(f, i)) \in Nat
         /\ Cardinality(Having(g, i)) - Is(g[p], i) = Cardinality(Having(f, i)) - Is(f[p], i)
PROOF
<1>1. Having(g, i) \ {p} = Having(f, i) \ {p}
  BY DEF Having
<1>2. One(p, Having(g, i)) = Is(g[p], i) /\ One(p, Having(f, i)) = Is(f[p], i)
  BY DEF One, Is, Having
<1> QED
  BY <1>1, <1>2, HavingFinite, CardOne

(* The same for the directory of a call. *)
LEMMA AtStep ==
  ASSUME NEW f, NEW g, NEW i, NEW p \in Proc, \A q \in Proc : q # p => g[q] = f[q]
  PROVE  /\ Cardinality(HavingAt(g, i)) \in Nat /\ Cardinality(HavingAt(f, i)) \in Nat
         /\ Cardinality(HavingAt(g, i)) - Is(g[p].at, i)
              = Cardinality(HavingAt(f, i)) - Is(f[p].at, i)
PROOF
<1>1. HavingAt(g, i) \ {p} = HavingAt(f, i) \ {p}
  BY DEF HavingAt
<1>2. One(p, HavingAt(g, i)) = Is(g[p].at, i) /\ One(p, HavingAt(f, i)) = Is(f[p].at, i)
  BY DEF One, Is, HavingAt
<1> QED
  BY <1>1, <1>2, HavingFinite, CardOne

(* The same for the inode of a call. *)
LEMMA IpStep ==
  ASSUME NEW f, NEW g, NEW i, NEW p \in Proc, \A q \in Proc : q # p => g[q] = f[q]
  PROVE  /\ Cardinality(HavingIp(g, i)) \in Nat /\ Cardinality(HavingIp(f, i)) \in Nat
         /\ Cardinality(HavingIp(g, i)) - Is(g[p].ip, i)
              = Cardinality(HavingIp(f, i)) - Is(f[p].ip, i)
PROOF
<1>1. HavingIp(g, i) \ {p} = HavingIp(f, i) \ {p}
  BY DEF HavingIp
<1>2. One(p, HavingIp(g, i)) = Is(g[p].ip, i) /\ One(p, HavingIp(f, i)) = Is(f[p].ip, i)
  BY DEF One, Is, HavingIp
<1> QED
  BY <1>1, <1>2, HavingFinite, CardOne

(* One place in what a process puts. *)
LEMMA PuttingOne ==
  ASSUME NEW f \in [Proc -> Seq(Inum)], NEW i \in Inum, NEW p \in Proc, NEW k \in {1, 2}
  PROVE  One(<<p, k>>, Putting(f, i)) = Is(Nth(f[p], k), i)
PROOF
<1>1. <<p, k>> \in Proc \X (1..2) /\ <<p, k>>[1] = p /\ <<p, k>>[2] = k
  OBVIOUS
<1>2. k \in DOMAIN f[p] <=> k <= Len(f[p])
  BY DEF Inum
<1>3. 0 \notin Inum
  BY DEF Inum
<1> QED
  BY <1>1, <1>2, <1>3 DEF One, Is, Nth, Putting

(* What a process has still to put. *)
LEMMA PutStep ==
  ASSUME NEW f \in [Proc -> Seq(Inum)], NEW g \in [Proc -> Seq(Inum)], NEW i \in Inum,
         NEW p \in Proc, \A q \in Proc \ {p} : g[q] = f[q]
  PROVE  /\ Cardinality(Putting(g, i)) \in Nat /\ Cardinality(Putting(f, i)) \in Nat
         /\ Cardinality(Putting(g, i)) - Is(Nth(g[p], 1), i) - Is(Nth(g[p], 2), i)
              = Cardinality(Putting(f, i)) - Is(Nth(f[p], 1), i) - Is(Nth(f[p], 2), i)
PROOF
<1>0. PICK x, y : x = <<p, 1>> /\ y = <<p, 2>>
  OBVIOUS
<1>1. x # y
  BY <1>0
<1>2. Putting(g, i) \ {x, y} = Putting(f, i) \ {x, y}
  <2>1. \A q \in (Proc \X (1..2)) \ {x, y} : q[1] \in Proc \ {p}
    BY <1>0
  <2>2. \A q \in (Proc \X (1..2)) \ {x, y} : g[q[1]] = f[q[1]]
    BY <2>1
  <2> QED
    BY <2>2 DEF Putting
<1>3. /\ One(x, Putting(g, i)) = Is(Nth(g[p], 1), i) /\ One(y, Putting(g, i)) = Is(Nth(g[p], 2), i)
      /\ One(x, Putting(f, i)) = Is(Nth(f[p], 1), i) /\ One(y, Putting(f, i)) = Is(Nth(f[p], 2), i)
  BY <1>0, PuttingOne
<1>4. IsFiniteSet(Putting(g, i)) /\ IsFiniteSet(Putting(f, i))
  BY HavingFinite
<1>5. /\ Cardinality(Putting(g, i)) \in Nat /\ Cardinality(Putting(f, i)) \in Nat
      /\ Cardinality(Putting(g, i)) - One(x, Putting(g, i)) - One(y, Putting(g, i))
           = Cardinality(Putting(f, i)) - One(x, Putting(f, i)) - One(y, Putting(f, i))
  <2>1. PICK A, B : A = Putting(g, i) /\ B = Putting(f, i)
    OBVIOUS
  <2>2. IsFiniteSet(A) /\ IsFiniteSet(B) /\ A \ {x, y} = B \ {x, y}
    BY <1>2, <1>4, <2>1
  <2>3. /\ Cardinality(A) \in Nat /\ Cardinality(A \ {x, y}) \in Nat
        /\ Cardinality(A) = Cardinality(A \ {x, y}) + One(x, A) + One(y, A)
    BY <1>1, <2>2, CardTwo
  <2>4. /\ Cardinality(B) \in Nat /\ Cardinality(B \ {x, y}) \in Nat
        /\ Cardinality(B) = Cardinality(B \ {x, y}) + One(x, B) + One(y, B)
    BY <1>1, <2>2, CardTwo
  <2>5. Cardinality(A \ {x, y}) = Cardinality(B \ {x, y})
    BY <2>2, Zenon
  <2>6. \A z, Z : One(z, Z) \in Nat
    BY DEF One
  <2>7. Cardinality(A) - One(x, A) - One(y, A) = Cardinality(B) - One(x, B) - One(y, B)
    <3>1. PICK m, n, ax, ay, bx, by :
            /\ m = Cardinality(A \ {x, y}) /\ n = Cardinality(B \ {x, y})
            /\ ax = One(x, A) /\ ay = One(y, A) /\ bx = One(x, B) /\ by = One(y, B)
      OBVIOUS
    <3>2. /\ m \in Nat /\ m = n /\ ax \in Nat /\ ay \in Nat /\ bx \in Nat /\ by \in Nat
      BY <2>3, <2>5, <2>6, <3>1, Zenon
    <3>3. Cardinality(A) = m + ax + ay /\ Cardinality(B) = m + bx + by
      BY <2>3, <2>4, <3>1, <3>2
    <3>4. (m + ax + ay) - ax - ay = (m + bx + by) - bx - by
      BY <3>2
    <3> QED
      BY <3>1, <3>3, <3>4
  <2> QED
    BY <2>1, <2>3, <2>4, <2>7
<1>6. \A a, j : Is(a, j) \in Nat
  BY DEF Is
<1> QED
  BY <1>3, <1>5, <1>6

(* A step of one process moves its own pointers only. *)
Others(p) ==
  \A q \in Proc \ {p} :
    /\ c'[q] = c[q] /\ put'[q] = put[q] /\ stage'[q] = stage[q]
    /\ cwd'[q] = cwd[q] /\ file'[q] = file[q]

(* So the count follows. *)
LEMMA PointersStep ==
  ASSUME Types, Types', NEW p \in Proc, Others(p), NEW i \in Inum
  PROVE  Pointers(i)' - Mine(p, i)' = Pointers(i) - Mine(p, i)
PROOF
<1>1. Pointers(i) = Cardinality(Having(cwd, i)) + Cardinality(Having(file, i))
                    + Cardinality(HavingAt(c, i)) + Cardinality(HavingIp(c, i))
                    + Cardinality(Putting(put, i))
  BY PointersAre
<1>2. Pointers(i)' = Cardinality(Having(cwd', i)) + Cardinality(Having(file', i))
                     + Cardinality(HavingAt(c', i)) + Cardinality(HavingIp(c', i))
                     + Cardinality(Putting(put', i))
  BY DEF Pointers, Having, HavingAt, HavingIp, Putting
<1>0. /\ \A q \in Proc : q # p => cwd'[q] = cwd[q]
      /\ \A q \in Proc : q # p => file'[q] = file[q]
      /\ \A q \in Proc : q # p => c'[q] = c[q]
  BY DEF Others
<1>3. /\ Cardinality(Having(cwd', i)) \in Nat /\ Cardinality(Having(cwd, i)) \in Nat
      /\ Cardinality(Having(cwd', i)) - Is(cwd'[p], i) = Cardinality(Having(cwd, i)) - Is(cwd[p], i)
  <2>1. PICK f, g : f = cwd /\ g = cwd'
    OBVIOUS
  <2>2. \A q \in Proc : q # p => g[q] = f[q]
    BY <1>0, <2>1
  <2>3. /\ Cardinality(Having(g, i)) \in Nat /\ Cardinality(Having(f, i)) \in Nat
        /\ Cardinality(Having(g, i)) - Is(g[p], i) = Cardinality(Having(f, i)) - Is(f[p], i)
    BY <2>2, HavingStep
  <2> QED
    BY <2>1, <2>3
<1>4. /\ Cardinality(Having(file', i)) \in Nat /\ Cardinality(Having(file, i)) \in Nat
      /\ Cardinality(Having(file', i)) - Is(file'[p], i)
           = Cardinality(Having(file, i)) - Is(file[p], i)
  <2>1. PICK f, g : f = file /\ g = file'
    OBVIOUS
  <2>2. \A q \in Proc : q # p => g[q] = f[q]
    BY <1>0, <2>1
  <2>3. /\ Cardinality(Having(g, i)) \in Nat /\ Cardinality(Having(f, i)) \in Nat
        /\ Cardinality(Having(g, i)) - Is(g[p], i) = Cardinality(Having(f, i)) - Is(f[p], i)
    BY <2>2, HavingStep
  <2> QED
    BY <2>1, <2>3
<1>5. /\ Cardinality(HavingAt(c', i)) \in Nat /\ Cardinality(HavingAt(c, i)) \in Nat
      /\ Cardinality(HavingAt(c', i)) - Is(c'[p].at, i)
           = Cardinality(HavingAt(c, i)) - Is(c[p].at, i)
  <2>1. PICK f, g : f = c /\ g = c'
    OBVIOUS
  <2>2. \A q \in Proc : q # p => g[q] = f[q]
    BY <1>0, <2>1
  <2>3. /\ Cardinality(HavingAt(g, i)) \in Nat /\ Cardinality(HavingAt(f, i)) \in Nat
        /\ Cardinality(HavingAt(g, i)) - Is(g[p].at, i) = Cardinality(HavingAt(f, i)) - Is(f[p].at, i)
    BY <2>2, AtStep
  <2> QED
    BY <2>1, <2>3
<1>6. /\ Cardinality(HavingIp(c', i)) \in Nat /\ Cardinality(HavingIp(c, i)) \in Nat
      /\ Cardinality(HavingIp(c', i)) - Is(c'[p].ip, i)
           = Cardinality(HavingIp(c, i)) - Is(c[p].ip, i)
  <2>1. PICK f, g : f = c /\ g = c'
    OBVIOUS
  <2>2. \A q \in Proc : q # p => g[q] = f[q]
    BY <1>0, <2>1
  <2>3. /\ Cardinality(HavingIp(g, i)) \in Nat /\ Cardinality(HavingIp(f, i)) \in Nat
        /\ Cardinality(HavingIp(g, i)) - Is(g[p].ip, i) = Cardinality(HavingIp(f, i)) - Is(f[p].ip, i)
    BY <2>2, IpStep
  <2> QED
    BY <2>1, <2>3
<1>7. /\ Cardinality(Putting(put', i)) \in Nat /\ Cardinality(Putting(put, i)) \in Nat
      /\ Cardinality(Putting(put', i)) - Is(Nth(put'[p], 1), i) - Is(Nth(put'[p], 2), i)
           = Cardinality(Putting(put, i)) - Is(Nth(put[p], 1), i) - Is(Nth(put[p], 2), i)
  <2>1. put \in [Proc -> Seq(Inum)] /\ put' \in [Proc -> Seq(Inum)]
    BY DEF Types
  <2>2. \A q \in Proc \ {p} : put'[q] = put[q]
    BY DEF Others
  <2> QED
    BY <2>1, <2>2, PutStep
<1>8. \A a, j : Is(a, j) \in Nat
  BY DEF Is
<1>9. Mine(p, i)' = Is(cwd'[p], i) + Is(file'[p], i) + Is(c'[p].at, i) + Is(c'[p].ip, i)
                    + Is(Nth(put'[p], 1), i) + Is(Nth(put'[p], 2), i)
  BY DEF Mine, Own, Is, Nth
<1> QED
  BY <1>1, <1>2, <1>3, <1>4, <1>5, <1>6, <1>7, <1>8, <1>9 DEF Mine, Own

(* The places that two processes have at least. *)
LEMMA PutPair ==
  ASSUME NEW f \in [Proc -> Seq(Inum)], NEW i \in Inum, NEW p \in Proc, NEW q \in Proc, p # q
  PROVE  /\ Cardinality(Putting(f, i)) \in Nat
         /\ Cardinality(Putting(f, i)) >= Is(Nth(f[p], 1), i) + Is(Nth(f[p], 2), i)
                                          + Is(Nth(f[q], 1), i) + Is(Nth(f[q], 2), i)
PROOF
<1>0. PICK x, y, z, w, A : /\ x = <<p, 1>> /\ y = <<p, 2>> /\ z = <<q, 1>> /\ w = <<q, 2>>
                           /\ A = Putting(f, i)
  OBVIOUS
<1>1. x # y /\ z # w /\ z \notin {x, y} /\ w \notin {x, y}
  BY <1>0
<1>2. IsFiniteSet(A)
  BY <1>0, HavingFinite
<1>3. PICK B : B = A \ {x, y}
  OBVIOUS
<1>4. Cardinality(A) \in Nat /\ Cardinality(A) = Cardinality(B) + One(x, A) + One(y, A)
  BY <1>1, <1>2, <1>3, CardTwo
<1>5. IsFiniteSet(B) /\ One(z, B) = One(z, A) /\ One(w, B) = One(w, A)
  <2>1. IsFiniteSet(B)
    BY <1>2, <1>3, FS_Subset
  <2> QED
    BY <1>1, <1>3, <2>1 DEF One
<1>6. Cardinality(B) \in Nat /\ Cardinality(B) >= One(z, B) + One(w, B)
  BY <1>1, <1>5, CardPair
<1>7. /\ One(x, A) = Is(Nth(f[p], 1), i) /\ One(y, A) = Is(Nth(f[p], 2), i)
      /\ One(z, A) = Is(Nth(f[q], 1), i) /\ One(w, A) = Is(Nth(f[q], 2), i)
  BY <1>0, PuttingOne
<1>8. \A a, b : One(a, b) \in Nat
  BY DEF One
<1>9. Cardinality(A) >= One(x, A) + One(y, A) + One(z, A) + One(w, A)
  BY <1>4, <1>5, <1>6, <1>8
<1> QED
  BY <1>0, <1>4, <1>7, <1>9

(* The pointers of two processes are all counted. *)
LEMMA PointersPair ==
  ASSUME Types, NEW p \in Proc, NEW q \in Proc, p # q, NEW i \in Inum
  PROVE  Pointers(i) \in Nat /\ Pointers(i) >= Mine(p, i) + Mine(q, i)
PROOF
<1>1. Pointers(i) = Cardinality(Having(cwd, i)) + Cardinality(Having(file, i))
                    + Cardinality(HavingAt(c, i)) + Cardinality(HavingIp(c, i))
                    + Cardinality(Putting(put, i))
  BY PointersAre
<1>2. \A a, j : Is(a, j) \in Nat
  BY DEF Is
<1>3. ASSUME NEW f
      PROVE  /\ Cardinality(Having(f, i)) \in Nat
             /\ Cardinality(Having(f, i)) >= Is(f[p], i) + Is(f[q], i)
  <2>1. One(p, Having(f, i)) = Is(f[p], i) /\ One(q, Having(f, i)) = Is(f[q], i)
    BY DEF One, Is, Having
  <2> QED
    BY <2>1, HavingFinite, CardPair
<1>4. /\ Cardinality(HavingAt(c, i)) \in Nat
      /\ Cardinality(HavingAt(c, i)) >= Is(c[p].at, i) + Is(c[q].at, i)
  <2>1. One(p, HavingAt(c, i)) = Is(c[p].at, i) /\ One(q, HavingAt(c, i)) = Is(c[q].at, i)
    BY DEF One, Is, HavingAt
  <2> QED
    BY <2>1, HavingFinite, CardPair
<1>5. /\ Cardinality(HavingIp(c, i)) \in Nat
      /\ Cardinality(HavingIp(c, i)) >= Is(c[p].ip, i) + Is(c[q].ip, i)
  <2>1. One(p, HavingIp(c, i)) = Is(c[p].ip, i) /\ One(q, HavingIp(c, i)) = Is(c[q].ip, i)
    BY DEF One, Is, HavingIp
  <2> QED
    BY <2>1, HavingFinite, CardPair
<1>6. /\ Cardinality(Putting(put, i)) \in Nat
      /\ Cardinality(Putting(put, i)) >= Is(Nth(put[p], 1), i) + Is(Nth(put[p], 2), i)
                                         + Is(Nth(put[q], 1), i) + Is(Nth(put[q], 2), i)
  BY PutPair DEF Types
<1>7. /\ Cardinality(Having(cwd, i)) \in Nat
      /\ Cardinality(Having(cwd, i)) >= Is(cwd[p], i) + Is(cwd[q], i)
  BY <1>3
<1>8. /\ Cardinality(Having(file, i)) \in Nat
      /\ Cardinality(Having(file, i)) >= Is(file[p], i) + Is(file[q], i)
  BY <1>3
<1> QED
  BY <1>1, <1>2, <1>4, <1>5, <1>6, <1>7, <1>8 DEF Mine, Own

(* Those of one process are. *)
LEMMA PointersOne ==
  ASSUME Types, NEW p \in Proc, NEW i \in Inum
  PROVE  Pointers(i) \in Nat /\ Pointers(i) >= Mine(p, i) /\ Mine(p, i) \in Nat
PROOF
<1>1. Pointers(i) = Cardinality(Having(cwd, i)) + Cardinality(Having(file, i))
                    + Cardinality(HavingAt(c, i)) + Cardinality(HavingIp(c, i))
                    + Cardinality(Putting(put, i))
  BY PointersAre
<1>2. \A a, j : Is(a, j) \in Nat
  BY DEF Is
<1>3. ASSUME NEW A, IsFiniteSet(A)
      PROVE  Cardinality(A) \in Nat /\ Cardinality(A) >= One(p, A)
  <2>1. /\ Cardinality(A) \in Nat /\ Cardinality(A \ {p}) \in Nat
        /\ Cardinality(A) = Cardinality(A \ {p}) + One(p, A)
    BY <1>3, CardWithout
  <2>2. One(p, A) \in Nat
    BY DEF One
  <2> QED
    BY <2>1, <2>2
<1>4. /\ One(p, Having(cwd, i)) = Is(cwd[p], i) /\ One(p, Having(file, i)) = Is(file[p], i)
      /\ One(p, HavingAt(c, i)) = Is(c[p].at, i) /\ One(p, HavingIp(c, i)) = Is(c[p].ip, i)
  BY DEF One, Is, Having, HavingAt, HavingIp
<1>5. /\ Cardinality(Having(cwd, i)) \in Nat /\ Cardinality(Having(cwd, i)) >= Is(cwd[p], i)
      /\ Cardinality(Having(file, i)) \in Nat /\ Cardinality(Having(file, i)) >= Is(file[p], i)
      /\ Cardinality(HavingAt(c, i)) \in Nat /\ Cardinality(HavingAt(c, i)) >= Is(c[p].at, i)
      /\ Cardinality(HavingIp(c, i)) \in Nat /\ Cardinality(HavingIp(c, i)) >= Is(c[p].ip, i)
  BY <1>3, <1>4, HavingFinite
<1>6. /\ Cardinality(Putting(put, i)) \in Nat
      /\ Cardinality(Putting(put, i)) >= Is(Nth(put[p], 1), i) + Is(Nth(put[p], 2), i)
  <2>1. PICK x, y, A : x = <<p, 1>> /\ y = <<p, 2>> /\ A = Putting(put, i)
    OBVIOUS
  <2>2. x # y /\ IsFiniteSet(A)
    BY <2>1, HavingFinite
  <2>3. Cardinality(A) \in Nat /\ Cardinality(A) >= One(x, A) + One(y, A)
    BY <2>2, CardPair
  <2>4. put \in [Proc -> Seq(Inum)]
    BY DEF Types
  <2>5. One(x, A) = Is(Nth(put[p], 1), i) /\ One(y, A) = Is(Nth(put[p], 2), i)
    BY <2>1, <2>4, PuttingOne
  <2> QED
    BY <2>1, <2>3, <2>5
<1> QED
  BY <1>1, <1>2, <1>5, <1>6 DEF Mine, Own

(* An inode with one pointer has no other. *)
LEMMA Sole ==
  ASSUME Types, RefCounts, NEW i \in Inum, ref[i] = 1, NEW p \in Proc, Mine(p, i) > 0
  PROVE  Mine(p, i) = 1 /\ \A q \in Proc : q # p => Mine(q, i) = 0
PROOF
<1>1. Pointers(i) = 1
  BY DEF RefCounts
<1>2. Mine(p, i) \in Nat /\ Mine(p, i) <= 1
  BY <1>1, PointersOne
<1>3. ASSUME NEW q \in Proc, q # p
      PROVE  Mine(q, i) = 0
  <2>1. Mine(q, i) \in Nat
    BY PointersOne
  <2>2. Pointers(i) >= Mine(p, i) + Mine(q, i)
    BY <1>3, PointersPair
  <2> QED
    BY <1>1, <1>2, <2>1, <2>2
<1> QED
  BY <1>2, <1>3

(* An inode that a process points to has a reference. *)
LEMMA Pointed ==
  ASSUME Types, RefCounts, NEW p \in Proc, NEW i \in Inum, Mine(p, i) > 0
  PROVE  ref[i] > 0
PROOF
  BY PointersOne DEF RefCounts

(* A step of one process keeps the parts that are about memory, if it does *)
(* so for its own part.                                                    *)
LEMMA MemLocal ==
  ASSUME MemInv, Types', NEW p \in Proc, Others(p), Proper(c[p], put[p], stage[p], file[p])',
         \A i \in Inum : ref'[i] - Mine(p, i)' = ref[i] - Mine(p, i), Locks'
  PROVE  MemInv'
PROOF
<1>1. Types /\ Control /\ RefCounts
  BY DEF MemInv
<1>2. Control'
  <2>1. ASSUME NEW q \in Proc
        PROVE  Proper(c[q], put[q], stage[q], file[q])'
    <3>1. CASE q = p
      BY <3>1
    <3>2. CASE q # p
      <4>1. c'[q] = c[q] /\ put'[q] = put[q] /\ stage'[q] = stage[q] /\ file'[q] = file[q]
        BY <3>2 DEF Others
      <4>2. Proper(c[q], put[q], stage[q], file[q])
        BY <1>1 DEF Control
      <4> QED
        BY <4>1, <4>2 DEF Proper
    <3> QED
      BY <3>1, <3>2
  <2> QED
    BY <2>1 DEF Control
<1>3. RefCounts'
  <2>1. ASSUME NEW i \in Inum
        PROVE  ref'[i] = Pointers(i)'
    <3>1. Pointers(i)' - Mine(p, i)' = Pointers(i) - Mine(p, i)
      BY <1>1, PointersStep
    <3>2. ref'[i] - Mine(p, i)' = ref[i] - Mine(p, i) /\ ref[i] = Pointers(i)
      BY <1>1 DEF RefCounts
    <3>3. ref'[i] \in Nat /\ ref[i] \in Nat
      BY <1>1 DEF Types
    <3>4. Pointers(i)' \in Nat
      <4>1. /\ Cardinality(Having(cwd', i)) \in Nat /\ Cardinality(Having(file', i)) \in Nat
            /\ Cardinality(HavingAt(c', i)) \in Nat /\ Cardinality(HavingIp(c', i)) \in Nat
            /\ Cardinality(Putting(put', i)) \in Nat
        BY HavingFinite, FS_CardinalityType
      <4> QED
        BY <4>1 DEF Pointers, Having, HavingAt, HavingIp, Putting
    <3>5. Mine(p, i) \in Nat
      BY <1>1, PointersOne
    <3>6. Mine(p, i)' \in Nat
      BY DEF Mine, Own, Is
    <3> QED
      BY <3>1, <3>2, <3>3, <3>4, <3>5, <3>6
  <2> QED
    BY <2>1 DEF RefCounts
<1> QED
  BY <1>2, <1>3 DEF MemInv

(* A step that is not one of iput: the process p is then with the call x,  *)
(* has s to put, the directory w and the open file h, and takes a          *)
(* reference to j unless it is 0.                                          *)
Moves(p, x, s, w, h) ==
  /\ c' = [c EXCEPT ![p] = x] /\ put' = [put EXCEPT ![p] = s]
  /\ cwd' = [cwd EXCEPT ![p] = w] /\ file' = [file EXCEPT ![p] = h]
  /\ UNCHANGED stage
Gets(j) == ref' = [i \in Inum |-> ref[i] + Is(j, i)]
Balanced(p, x, s, w, h, j) == \A i \in Inum : Own(w, h, x, s, i) = Mine(p, i) + Is(j, i)
LockStep(p, x) ==
  \/ lock' = lock /\ c[p].pc # "child" /\ x.pc # "child"
  \/ /\ lock' = [lock EXCEPT ![x.at] = p] /\ lock[x.at] = NoProc
     /\ c[p].pc # "child" /\ x.pc = "child"
  \/ lock' = [lock EXCEPT ![c[p].at] = NoProc] /\ c[p].pc = "child" /\ x.pc # "child"
StillTyped == valid' \in [Inum -> BOOLEAN] /\ dir' \in [Inum -> [Elem -> 0..NINODES]]
Move(p, x, s, w, h, j) ==
  /\ p \in Proc /\ x \in Record /\ s \in Seq(Inum) /\ w \in Inum /\ h \in 0..NINODES
  /\ j \in 0..NINODES
  /\ stage[p] = "test" /\ Moves(p, x, s, w, h) /\ Gets(j) /\ Proper(x, s, "test", h)
  /\ Balanced(p, x, s, w, h, j) /\ LockStep(p, x)
  /\ StillTyped

(* What such a step does to the process and to others. *)
LEMMA MoveEffect ==
  ASSUME Types, NEW p, NEW x, NEW s, NEW w, NEW h, NEW j, Move(p, x, s, w, h, j)
  PROVE  /\ p \in Proc /\ c'[p] = x /\ put'[p] = s /\ cwd'[p] = w /\ file'[p] = h
         /\ stage' = stage /\ stage[p] = "test" /\ Others(p)
         /\ \A i \in Inum : ref'[i] = ref[i] + Is(j, i) /\ Mine(p, i)' = Mine(p, i) + Is(j, i)
         /\ \A q \in Proc : q # p => \A i \in Inum : Mine(q, i)' = Mine(q, i)
PROOF
<1>1. /\ p \in Proc /\ c'[p] = x /\ put'[p] = s /\ cwd'[p] = w /\ file'[p] = h
      /\ stage' = stage /\ stage[p] = "test" /\ Others(p)
  BY DEF Move, Moves, Types, Others
<1>2. \A i \in Inum : ref'[i] = ref[i] + Is(j, i)
  BY DEF Move, Gets
<1>3. \A i \in Inum : Mine(p, i)' = Mine(p, i) + Is(j, i)
  <2>1. \A i : Mine(p, i)' = Own(w, h, x, s, i)
    BY <1>1 DEF Mine, Own, Nth, Is
  <2>2. \A i \in Inum : Own(w, h, x, s, i) = Mine(p, i) + Is(j, i)
    BY DEF Move, Balanced
  <2> QED
    BY <2>1, <2>2
<1>4. \A q \in Proc : q # p => \A i \in Inum : Mine(q, i)' = Mine(q, i)
  <2>1. ASSUME NEW q \in Proc, q # p
        PROVE  \A i \in Inum : Mine(q, i)' = Mine(q, i)
    <3>1. c'[q] = c[q] /\ put'[q] = put[q] /\ cwd'[q] = cwd[q] /\ file'[q] = file[q]
      BY <1>1, <2>1 DEF Others
    <3> QED
      BY <3>1 DEF Mine, Own, Nth, Is
  <2> QED
    BY <2>1
<1> QED
  BY <1>1, <1>2, <1>3, <1>4

(* It keeps the parts about memory. *)
LEMMA MemMove ==
  ASSUME MemInv, NEW p, NEW x, NEW s, NEW w, NEW h, NEW j, Move(p, x, s, w, h, j)
  PROVE  MemInv'
PROOF
<1>1. Types /\ Control /\ RefCounts /\ Locks
  BY DEF MemInv
<1>2. /\ p \in Proc /\ c'[p] = x /\ put'[p] = s /\ file'[p] = h
      /\ stage' = stage /\ stage[p] = "test" /\ Others(p)
      /\ \A i \in Inum : ref'[i] = ref[i] + Is(j, i) /\ Mine(p, i)' = Mine(p, i) + Is(j, i)
  BY <1>1, MoveEffect
<1>3. Types'
  <2>1. ref' \in [Inum -> Nat]
    BY <1>1 DEF Move, Gets, Is, Types
  <2>2. lock' \in [Inum -> Proc \cup {NoProc}]
    BY <1>1, <1>2 DEF Move, LockStep, Types
  <2>3. /\ c' \in [Proc -> Record] /\ put' \in [Proc -> Seq(Inum)] /\ cwd' \in [Proc -> Inum]
        /\ file' \in [Proc -> 0..NINODES] /\ stage' \in [Proc -> {"test", "free", "clear"}]
        /\ valid' \in [Inum -> BOOLEAN] /\ dir' \in [Inum -> [Elem -> 0..NINODES]]
    BY <1>1 DEF Move, Moves, Types, StillTyped
  <2> QED
    BY <2>1, <2>2, <2>3 DEF Types
<1>4. Proper(c[p], put[p], stage[p], file[p])'
  <2>1. Proper(x, s, "test", h)
    BY DEF Move
  <2> QED
    BY <1>2, <2>1 DEF Proper
<1>5. \A i \in Inum : ref'[i] - Mine(p, i)' = ref[i] - Mine(p, i)
  <2>1. \A i \in Inum : ref[i] \in Nat /\ Mine(p, i) \in Nat /\ Is(j, i) \in Nat
    BY <1>1, <1>2, PointersOne DEF Types, Is
  <2> QED
    BY <1>2, <2>1
<1>6. Locks'
  <2>1. LockStep(p, x) /\ x.at \in 0..NINODES
    BY DEF Move, Record
  <2>2. c[p].pc = "child" => c[p].at \in Inum
    BY <1>1, <1>2 DEF Control, Proper, Types, Record, Inum
  <2>3. x.pc = "child" => x.at \in Inum
    BY <2>1 DEF Move, Proper, Inum
  <2>4. \A q \in Proc : q # p => c'[q] = c[q]
    BY <1>2 DEF Others
  <2>5. \A q \in Proc : c[q].pc = "child" => c[q].at \in Inum
    BY <1>1 DEF Control, Proper, Types, Record, Inum
  <2>6. NoProc \notin Proc /\ lock \in [Inum -> Proc \cup {NoProc}]
    BY <1>1, FsAssumption DEF Types
  <2> QED
    BY <1>1, <1>2, <2>1, <2>2, <2>3, <2>4, <2>5, <2>6 DEF LockStep, Locks
<1> QED
  BY <1>2, <1>3, <1>4, <1>5, <1>6, MemLocal

-----------------------------------------------------------------------------
(* The steps that are moves *)

(* What is left of a path after the leading "/" is made of names. *)
LEMMA RestType ==
  ASSUME NEW s \in Path
  PROVE  Rest(s) \in Seq(Elem)
PROOF
<1>1. s \in Seq(Elem \cup {"/"}) /\ \A k \in 1..Len(s) : s[k] = "/" => k = 1
  BY DEF Path
<1>2. CASE Absolute(s)
  <2>1. s # <<>>
    BY <1>2 DEF Absolute
  <2>2. /\ Tail(s) \in Seq(Elem \cup {"/"}) /\ Len(Tail(s)) = Len(s) - 1
        /\ \A k \in 1..Len(Tail(s)) : Tail(s)[k] = s[k + 1] /\ k + 1 \in 1..Len(s) /\ k + 1 # 1
    BY <1>1, <2>1
  <2>3. \A k \in 1..Len(Tail(s)) : Tail(s)[k] \in Elem
    <3>1. \A k \in 1..Len(Tail(s)) : s[k + 1] \in Elem \cup {"/"} /\ s[k + 1] # "/"
      BY <1>1, <2>2
    <3> QED
      BY <2>2, <3>1
  <2>4. Tail(s) \in Seq(Elem)
    <3>1. PICK u \in Seq(Elem \cup {"/"}) : u = Tail(s)
      BY <2>2
    <3>2. \A k \in 1..Len(u) : u[k] \in Elem
      BY <2>3, <3>1
    <3>3. u \in Seq(Elem)
      BY <3>2
    <3> QED
      BY <3>1, <3>3
  <2> QED
    BY <1>2, <2>4 DEF Rest
<1>3. CASE ~Absolute(s)
  <2>1. \A k \in 1..Len(s) : s[k] \in Elem
    <3>1. \A k \in 1..Len(s) : s[k] \in Elem \cup {"/"}
      BY <1>1
    <3>2. \A k \in 1..Len(s) : s[k] # "/"
      BY <1>1, <1>3 DEF Absolute
    <3> QED
      BY <3>1, <3>2
  <2>2. s \in Seq(Elem)
    BY <1>1, <2>1
  <2> QED
    BY <1>3, <2>2 DEF Rest
<1> QED
  BY <1>2, <1>3

(* A path begins at an inode. *)
LEMMA FirstType ==
  ASSUME Types, NEW p \in Proc, NEW s
  PROVE  First(p, s) \in {ROOTINO, cwd[p]} /\ First(p, s) \in Inum /\ ROOTINO \in Inum
PROOF
  BY FsAssumption DEF First, Types, ROOTINO, Inum

(* A process without a call. *)
LEMMA IdleIs ==
  Idle \in Record /\ Idle.pc = "idle" /\ Idle.at = 0 /\ Idle.ip = 0 /\ Idle.op = "none"
  /\ Idle.path = <<>> /\ Idle.new = <<>>
PROOF
<1>1. <<>> \in Path
  BY DEF Path
<1> QED
  BY <1>1, FsAssumption DEF Idle, Record, PCs

(* Where a process finds the inode that it takes a reference to *)
From(p) == {0, ROOTINO, cwd[p], dir[c[p].at][Head(c[p].path)]}
Goes(p, j) == Move(p, c'[p], put'[p], cwd'[p], file'[p], j)

(* A step takes one reference, or none. *)
LEMMA GetsIs ==
  ASSUME Types
  PROVE  /\ ref' = ref => Gets(0)
         /\ \A i \in Inum : iget(i) => Gets(i)
PROOF
<1>1. ref \in [Inum -> Nat] /\ 0 \notin Inum
  BY DEF Types, Inum
<1>2. ASSUME ref' = ref
      PROVE  Gets(0)
  <2>1. \A k \in Inum : ref[k] + Is(0, k) = ref[k]
    BY <1>1 DEF Is
  <2>2. ref = [k \in Inum |-> ref[k] + Is(0, k)]
    BY <1>1, <2>1
  <2> QED
    BY <1>2, <2>2 DEF Gets
<1>3. ASSUME NEW i \in Inum, iget(i)
      PROVE  Gets(i)
  <2>1. \A k \in Inum : ref[k] + Is(i, k) = IF k = i THEN ref[i] + 1 ELSE ref[k]
    BY <1>1 DEF Is
  <2>2. ref' = [k \in Inum |-> IF k = i THEN ref[i] + 1 ELSE ref[k]]
    BY <1>1, <1>3 DEF iget
  <2> QED
    BY <2>1, <2>2 DEF Gets
<1> QED
  BY <1>2, <1>3

(* call. *)
LEMMA CallMove ==
  ASSUME MemInv, NEW p \in Proc, NEW r \in Request, call(p, r)
  PROVE  \E j \in From(p) : Goes(p, j)
PROOF
<1>1. Types /\ Control /\ In(p, "idle") /\ Proper(c[p], put[p], stage[p], file[p])
  BY DEF MemInv, Control, call
<1>2. PICK i \in Inum, s \in Seq(Elem) :
        i = First(p, r.path) /\ i \in {ROOTINO, cwd[p]} /\ s = Rest(r.path)
  BY <1>1, FirstType, RestType, RequestAssumption
<1>3. PICK x \in Record : x = [pc |-> Has(r.op, s), op |-> r.op, at |-> i, path |-> s, ip |-> 0, new |-> r.new]
  <2>1. r.op \in Call \cup {"none"} /\ r.new \in Path
    BY RequestAssumption
  <2>2. Has(r.op, s) \in PCs /\ i \in 0..NINODES /\ 0 \in 0..NINODES
    BY FsAssumption DEF Has, PCs, Inum
  <2> QED
    BY <2>1, <2>2 DEF Record
<1>4. /\ c' = [c EXCEPT ![p] = x] /\ iget(i)
      /\ UNCHANGED <<dir, valid, lock, put, stage, cwd, file>>
  BY <1>2, <1>3 DEF call, go, disk
<1>5. c'[p] = x /\ Moves(p, x, put'[p], cwd'[p], file'[p]) /\ Gets(i)
  <2>1. c'[p] = x
    BY <1>1, <1>4 DEF Types
  <2>2. Moves(p, x, put'[p], cwd'[p], file'[p])
    BY <1>1, <1>4 DEF Types, Moves
  <2>3. Gets(i)
    BY <1>1, <1>4, GetsIs
  <2> QED
    BY <2>1, <2>2, <2>3
<1>6. put'[p] = <<>> /\ stage[p] = "test" /\ Proper(x, put'[p], "test", file'[p])
  BY <1>1, <1>3, <1>4 DEF call, In, Proper, Types, Has, Inum
<1>7. Balanced(p, x, put'[p], cwd'[p], file'[p], i)
  BY <1>1, <1>3, <1>4 DEF Balanced, In, Proper, Types, Own, Mine, Is, Nth, Inum
<1>8. LockStep(p, x)
  BY <1>1, <1>3, <1>4 DEF LockStep, In, Has
<1> QED
  BY <1>1, <1>2, <1>4, <1>5, <1>6, <1>7, <1>8 DEF From, Goes, Move, Types, Inum, StillTyped

(* What the moves of a process within a call begin with. *)
LEMMA MoveBegin ==
  ASSUME MemInv, NEW p \in Proc, put[p] = <<>>
  PROVE  /\ Types /\ Proper(c[p], put[p], stage[p], file[p]) /\ stage[p] = "test" /\ c[p] \in Record
         /\ cwd[p] \in Inum /\ file[p] \in 0..NINODES /\ c[p].at \in 0..NINODES
         /\ c[p].ip \in 0..NINODES
         /\ c[p].pc \in {"walk", "target", "parent", "child"} => c[p].at \in Inum
         /\ c[p].pc \in {"child", "link_bad"} => c[p].ip \in Inum
PROOF
<1>1. Types /\ Proper(c[p], put[p], stage[p], file[p])
  BY DEF MemInv, Control
<1> QED
  BY <1>1 DEF Types, Proper, Record, Inum

(* From the new state of a process to its move. *)
LEMMA MoveEnd ==
  ASSUME MemInv, NEW p \in Proc, put[p] = <<>>,
         NEW x \in Record, NEW s \in Seq(Inum), NEW w \in Inum, NEW h \in 0..NINODES,
         NEW j \in 0..NINODES, Moves(p, x, s, w, h), Gets(j), Proper(x, s, "test", h),
         Balanced(p, x, s, w, h, j), LockStep(p, x), StillTyped
  PROVE  Goes(p, j)
PROOF
<1>1. Types /\ stage[p] = "test"
  BY MoveBegin
<1>2. c'[p] = x /\ put'[p] = s /\ cwd'[p] = w /\ file'[p] = h
  BY <1>1 DEF Types, Moves
<1>3. Move(p, x, s, w, h, j)
  BY <1>1 DEF Move
<1> QED
  BY <1>2, <1>3 DEF Goes

(* The entries of short sequences. *)
LEMMA NthIs ==
  /\ \A k \in {1, 2} : Nth(<<>>, k) = 0
  /\ \A a : Nth(<<a>>, 1) = a /\ Nth(<<a>>, 2) = 0
  /\ \A a, b : Nth(<<a, b>>, 1) = a /\ Nth(<<a, b>>, 2) = b
  /\ \A i \in Inum : Is(0, i) = 0
PROOF
  BY DEF Nth, Is, Inum

(* The pointers of a call before and after, one by one: y, z, t, u after   *)
(* a and b, with j.                                                        *)
Even(y, z, t, u, a, b, j) ==
  \A i \in Inum : Is(y, i) + Is(z, i) + Is(t, i) + Is(u, i) = Is(a, i) + Is(b, i) + Is(j, i)

LEMMA Balance ==
  ASSUME NEW p, NEW x, NEW s, NEW w, NEW h, NEW j, NEW a, NEW b, NEW y, NEW z, NEW t, NEW u,
         put[p] = <<>>, w = cwd[p], h = file[p], c[p].at = a, c[p].ip = b,
         x.at = y, x.ip = z, Nth(s, 1) = t, Nth(s, 2) = u, Even(y, z, t, u, a, b, j)
  PROVE  Balanced(p, x, s, w, h, j)
PROOF
<1>1. ASSUME NEW i \in Inum
      PROVE  Own(w, h, x, s, i) = Mine(p, i) + Is(j, i)
  <2>1. Own(w, h, x, s, i) = Is(w, i) + Is(h, i) + Is(y, i) + Is(z, i) + Is(t, i) + Is(u, i)
    BY DEF Own
  <2>2. Mine(p, i) = Is(w, i) + Is(h, i) + Is(a, i) + Is(b, i) + Is(0, i) + Is(0, i)
    <3>1. Nth(put[p], 1) = 0 /\ Nth(put[p], 2) = 0
      BY NthIs
    <3> QED
      BY <3>1 DEF Mine, Own
  <2>3. PICK nw, nh, ny, nz, nt, nu, na, nb, nj :
          /\ nw = Is(w, i) /\ nh = Is(h, i) /\ ny = Is(y, i) /\ nz = Is(z, i) /\ nt = Is(t, i)
          /\ nu = Is(u, i) /\ na = Is(a, i) /\ nb = Is(b, i) /\ nj = Is(j, i)
    OBVIOUS
  <2>4. /\ nw \in Nat /\ nh \in Nat /\ ny \in Nat /\ nz \in Nat /\ nt \in Nat /\ nu \in Nat
        /\ na \in Nat /\ nb \in Nat /\ nj \in Nat
    BY <2>3 DEF Is
  <2>5. ny + nz + nt + nu = na + nb + nj
    BY <2>3 DEF Even
  <2>6. nw + nh + ny + nz + nt + nu = (nw + nh + na + nb + 0 + 0) + nj
    BY <2>4, <2>5
  <2>7. Is(0, i) = 0
    BY NthIs
  <2>8. Own(w, h, x, s, i) = nw + nh + ny + nz + nt + nu
    BY <2>1, <2>3
  <2>9. Mine(p, i) = nw + nh + na + nb + 0 + 0
    BY <2>2, <2>3, <2>7
  <2> QED
    BY <2>3, <2>6, <2>8, <2>9
<1> QED
  BY <1>1 DEF Balanced

(* close. *)
LEMMA CloseMove ==
  ASSUME MemInv, NEW p \in Proc, close(p)
  PROVE  Goes(p, 0)
PROOF
<1>1. put[p] = <<>> /\ c[p].pc = "idle" /\ file[p] # 0
  BY DEF close, In
<1>2. /\ Types /\ Proper(c[p], put[p], stage[p], file[p]) /\ stage[p] = "test" /\ c[p] \in Record
      /\ cwd[p] \in Inum /\ file[p] \in Inum
  BY <1>1, MoveBegin DEF Inum
<1>3. PICK x \in Record, s \in Seq(Inum), w \in Inum, h \in 0..NINODES, j \in 0..NINODES :
        x = c[p] /\ s = <<file[p]>> /\ w = cwd[p] /\ h = 0 /\ j = 0
  <2>1. <<file[p]>> \in Seq(Inum) /\ 0 \in 0..NINODES
    BY <1>2, FsAssumption
  <2> QED
    BY <1>2, <2>1, Zenon
<1>4. Moves(p, x, s, w, h)
  BY <1>2, <1>3 DEF Moves, close, iputs, Types
<1>5. Gets(j)
  BY <1>2, <1>3, GetsIs DEF close, cache
<1>6. Proper(x, s, "test", h) /\ LockStep(p, x)
  BY <1>1, <1>2, <1>3 DEF Proper, LockStep, close, cache
<1>7. Balanced(p, x, s, w, h, j)
  <2>1. /\ Nth(put[p], 1) = 0 /\ Nth(put[p], 2) = 0 /\ Nth(s, 1) = file[p] /\ Nth(s, 2) = 0
    BY <1>1, <1>3, NthIs
  <2> QED
    BY <1>3, <2>1, NthIs DEF Balanced, Own, Mine, Is
<1>8. StillTyped
  BY <1>2 DEF Types, close, cache, disk, StillTyped
<1>9. Goes(p, j)
  BY <1>1, <1>2, <1>4, <1>5, <1>6, <1>7, <1>8, MoveEnd
<1> QED
  BY <1>3, <1>9

(* namex of a path without elements. *)
LEMMA EmptyMove ==
  ASSUME MemInv, NEW p \in Proc, namex_empty(p)
  PROVE  Goes(p, 0)
PROOF
<1>1. put[p] = <<>> /\ c[p].pc = "walk"
  BY DEF namex_empty, In
<1>2. /\ Types /\ Proper(c[p], put[p], stage[p], file[p]) /\ stage[p] = "test" /\ c[p] \in Record
      /\ cwd[p] \in Inum /\ file[p] \in 0..NINODES /\ c[p].at \in 0..NINODES
      /\ c[p].ip \in 0..NINODES
      /\ c[p].pc \in {"walk", "target", "parent", "child"} => c[p].at \in Inum
      /\ c[p].pc \in {"child", "link_bad"} => c[p].ip \in Inum
  BY <1>1, MoveBegin
<1>3. CASE c[p].ip # 0
  <2>1. /\ c' = [c EXCEPT ![p] = [c[p] EXCEPT !.pc = "link_bad", !.at = 0, !.path = <<>>]]
        /\ put' = [put EXCEPT ![p] = <<c[p].at>>]
       /\ UNCHANGED <<dir, valid, ref, lock, stage, cwd, file>>
    BY <1>3 DEF namex_empty, fails, go, iputs, cache, disk
  <2>2. /\ [c[p] EXCEPT !.pc = "link_bad", !.at = 0, !.path = <<>>] \in Record
        /\ <<c[p].at>> \in Seq(Inum)
        /\ cwd[p] \in Inum /\ file[p] \in 0..NINODES /\ 0 \in 0..NINODES
    <3>1. [c[p] EXCEPT !.pc = "link_bad", !.at = 0, !.path = <<>>] \in Record
      BY <1>1, <1>2, <1>3, IdleIs DEF Record, PCs
    <3>2. /\ <<c[p].at>> \in Seq(Inum) /\ cwd[p] \in Inum /\ file[p] \in 0..NINODES
          /\ 0 \in 0..NINODES
      BY <1>1, <1>2, <1>3, FsAssumption DEF Inum
    <3> QED
      BY <3>1, <3>2
  <2>3. PICK x \in Record, s \in Seq(Inum), w \in Inum, h \in 0..NINODES, j \in 0..NINODES :
          x = [c[p] EXCEPT !.pc = "link_bad", !.at = 0, !.path = <<>>] /\ s = <<c[p].at>>
          /\ w = cwd[p] /\ h = file[p] /\ j = 0
    BY <2>2, Zenon
  <2>4. x.pc = "link_bad" /\ x.op = c[p].op /\ x.at = 0 /\ x.ip = c[p].ip
    BY <1>1, <1>2, <1>3, <2>3, IdleIs DEF Record
  <2>5. Moves(p, x, s, w, h)
    BY <1>1, <1>2, <1>3, <2>1, <2>3 DEF Moves, Types
  <2>6. Gets(j)
    BY <1>1, <1>2, <1>3, <2>1, <2>3, GetsIs
  <2>7. Proper(x, s, "test", h)
    BY <1>1, <1>2, <1>3, <2>3, <2>4 DEF Proper, Inum
  <2>8. LockStep(p, x)
    BY <1>1, <1>2, <1>3, <2>1, <2>4 DEF LockStep
  <2>9. Balanced(p, x, s, w, h, j)
    <3>1. Nth(put[p], 1) = 0 /\ Nth(put[p], 2) = 0 /\ Nth(s, 1) = c[p].at /\ Nth(s, 2) = 0
      BY <1>1, <2>3, NthIs
    <3> QED
      BY <1>1, <1>2, <1>3, <2>3, <2>4, <3>1, NthIs DEF Balanced, Own, Mine, Is
  <2>10. StillTyped
    BY <1>1, <1>2, <1>3, <2>1, <2>2 DEF StillTyped, Types
  <2>11. Goes(p, j)
    BY <1>1, <1>2, <1>3, <2>5, <2>6, <2>7, <2>8, <2>9, <2>10, MoveEnd
  <2> QED
    BY <2>3, <2>11
<1>4. CASE c[p].ip = 0
  <2>1. /\ c' = [c EXCEPT ![p] = Idle] /\ put' = [put EXCEPT ![p] = <<c[p].at>>]
       /\ UNCHANGED <<dir, valid, ref, lock, stage, cwd, file>>
    BY <1>4 DEF namex_empty, fails, go, iputs, cache, disk
  <2>2. /\ Idle \in Record /\ <<c[p].at>> \in Seq(Inum)
        /\ cwd[p] \in Inum /\ file[p] \in 0..NINODES /\ 0 \in 0..NINODES
    <3>1. Idle \in Record
      BY IdleIs
    <3>2. /\ <<c[p].at>> \in Seq(Inum) /\ cwd[p] \in Inum /\ file[p] \in 0..NINODES
          /\ 0 \in 0..NINODES
      BY <1>1, <1>2, <1>4, FsAssumption DEF Inum
    <3> QED
      BY <3>1, <3>2
  <2>3. PICK x \in Record, s \in Seq(Inum), w \in Inum, h \in 0..NINODES, j \in 0..NINODES :
          x = Idle /\ s = <<c[p].at>> /\ w = cwd[p] /\ h = file[p] /\ j = 0
    BY <2>2, Zenon
  <2>4. x.pc = "idle" /\ x.op = "none" /\ x.at = 0 /\ x.ip = 0
    BY <1>1, <1>2, <1>4, <2>3, IdleIs DEF Record
  <2>5. Moves(p, x, s, w, h)
    BY <1>1, <1>2, <1>4, <2>1, <2>3 DEF Moves, Types
  <2>6. Gets(j)
    BY <1>1, <1>2, <1>4, <2>1, <2>3, GetsIs
  <2>7. Proper(x, s, "test", h)
    BY <1>1, <1>2, <1>4, <2>3, <2>4 DEF Proper, Inum
  <2>8. LockStep(p, x)
    BY <1>1, <1>2, <1>4, <2>1, <2>4 DEF LockStep
  <2>9. Balanced(p, x, s, w, h, j)
    <3>1. Nth(put[p], 1) = 0 /\ Nth(put[p], 2) = 0 /\ Nth(s, 1) = c[p].at /\ Nth(s, 2) = 0
      BY <1>1, <2>3, NthIs
    <3> QED
      BY <1>1, <1>2, <1>4, <2>3, <2>4, <3>1, NthIs DEF Balanced, Own, Mine, Is
  <2>10. StillTyped
    BY <1>1, <1>2, <1>4, <2>1, <2>2 DEF StillTyped, Types
  <2>11. Goes(p, j)
    BY <1>1, <1>2, <1>4, <2>5, <2>6, <2>7, <2>8, <2>9, <2>10, MoveEnd
  <2> QED
    BY <2>3, <2>11
<1> QED
  BY <1>3, <1>4

(* sys_open, and the end of create for what is there. *)
LEMMA OpenMove ==
  ASSUME MemInv, NEW p \in Proc, sys_open(p)
  PROVE  Goes(p, 0)
PROOF
<1>1. put[p] = <<>> /\ c[p].pc = "target"
  BY DEF sys_open, In
<1>2. /\ Types /\ Proper(c[p], put[p], stage[p], file[p]) /\ stage[p] = "test" /\ c[p] \in Record
      /\ cwd[p] \in Inum /\ file[p] \in 0..NINODES /\ c[p].at \in 0..NINODES
      /\ c[p].ip \in 0..NINODES
      /\ c[p].pc \in {"walk", "target", "parent", "child"} => c[p].at \in Inum
      /\ c[p].pc \in {"child", "link_bad"} => c[p].ip \in Inum
  BY <1>1, MoveBegin
<1>0. c[p].ip = 0 /\ (c[p].op \in {"open", "create"} => file[p] = 0)
  BY <1>1, <1>2 DEF Proper
<1>3. \/ c[p].op \in {"open", "create"} /\ file' = [file EXCEPT ![p] = c[p].at] /\ UNCHANGED put
      \/ put' = [put EXCEPT ![p] = <<c[p].at>>] /\ UNCHANGED file
  BY DEF sys_open, iputs
<1>4. CASE c[p].op \in {"open", "create"} /\ file' = [file EXCEPT ![p] = c[p].at] /\ UNCHANGED put
  <2>1. /\ c' = [c EXCEPT ![p] = Idle] /\ load(c[p].at)
       /\ UNCHANGED <<dir, ref, lock, stage, cwd>>
    BY DEF sys_open, return, go, disk
  <2>2. /\ Idle \in Record /\ <<>> \in Seq(Inum)
        /\ cwd[p] \in Inum /\ c[p].at \in 0..NINODES /\ 0 \in 0..NINODES
    <3>1. Idle \in Record
      BY IdleIs
    <3>2. /\ <<>> \in Seq(Inum) /\ cwd[p] \in Inum /\ c[p].at \in 0..NINODES /\ 0 \in 0..NINODES
      BY <1>1, <1>2, <1>0, <1>4, FsAssumption DEF Inum
    <3> QED
      BY <3>1, <3>2
  <2>3. PICK x \in Record, s \in Seq(Inum), w \in Inum, h \in 0..NINODES, j \in 0..NINODES :
          x = Idle /\ s = <<>> /\ w = cwd[p] /\ h = c[p].at /\ j = 0
    BY <2>2, Zenon
  <2>4. x.pc = "idle" /\ x.op = "none" /\ x.at = 0 /\ x.ip = 0
    BY <1>1, <1>2, <1>0, <1>4, <2>3, IdleIs DEF Record
  <2>5. Moves(p, x, s, w, h)
    BY <1>1, <1>2, <1>0, <1>4, <2>1, <2>3 DEF Moves, Types
  <2>6. Gets(j)
    BY <1>1, <1>2, <1>0, <1>4, <2>1, <2>3, GetsIs
  <2>7. Proper(x, s, "test", h)
    BY <1>1, <1>2, <1>0, <1>4, <2>3, <2>4 DEF Proper, Inum
  <2>8. LockStep(p, x)
    BY <1>1, <1>2, <1>0, <1>4, <2>1, <2>4 DEF LockStep
  <2>9. Balanced(p, x, s, w, h, j)
    <3>1. Nth(put[p], 1) = 0 /\ Nth(put[p], 2) = 0 /\ Nth(s, 1) = 0 /\ Nth(s, 2) = 0
      BY <1>1, <2>3, NthIs
    <3> QED
      BY <1>1, <1>2, <1>0, <1>4, <2>3, <2>4, <3>1, NthIs DEF Balanced, Own, Mine, Is
  <2>10. StillTyped
    BY <1>1, <1>2, <1>0, <1>4, <2>1, <2>2 DEF StillTyped, Types, load
  <2>11. Goes(p, j)
    BY <1>1, <1>2, <1>0, <1>4, <2>5, <2>6, <2>7, <2>8, <2>9, <2>10, MoveEnd
  <2> QED
    BY <2>3, <2>11
<1>5. CASE put' = [put EXCEPT ![p] = <<c[p].at>>] /\ UNCHANGED file
  <2>1. /\ c' = [c EXCEPT ![p] = Idle] /\ load(c[p].at)
       /\ UNCHANGED <<dir, ref, lock, stage, cwd>>
    BY DEF sys_open, return, go, disk
  <2>2. /\ Idle \in Record /\ <<c[p].at>> \in Seq(Inum)
        /\ cwd[p] \in Inum /\ file[p] \in 0..NINODES /\ 0 \in 0..NINODES
    <3>1. Idle \in Record
      BY IdleIs
    <3>2. /\ <<c[p].at>> \in Seq(Inum) /\ cwd[p] \in Inum /\ file[p] \in 0..NINODES
          /\ 0 \in 0..NINODES
      BY <1>1, <1>2, <1>0, <1>5, FsAssumption DEF Inum
    <3> QED
      BY <3>1, <3>2
  <2>3. PICK x \in Record, s \in Seq(Inum), w \in Inum, h \in 0..NINODES, j \in 0..NINODES :
          x = Idle /\ s = <<c[p].at>> /\ w = cwd[p] /\ h = file[p] /\ j = 0
    BY <2>2, Zenon
  <2>4. x.pc = "idle" /\ x.op = "none" /\ x.at = 0 /\ x.ip = 0
    BY <1>1, <1>2, <1>0, <1>5, <2>3, IdleIs DEF Record
  <2>5. Moves(p, x, s, w, h)
    BY <1>1, <1>2, <1>0, <1>5, <2>1, <2>3 DEF Moves, Types
  <2>6. Gets(j)
    BY <1>1, <1>2, <1>0, <1>5, <2>1, <2>3, GetsIs
  <2>7. Proper(x, s, "test", h)
    BY <1>1, <1>2, <1>0, <1>5, <2>3, <2>4 DEF Proper, Inum
  <2>8. LockStep(p, x)
    BY <1>1, <1>2, <1>0, <1>5, <2>1, <2>4 DEF LockStep
  <2>9. Balanced(p, x, s, w, h, j)
    <3>1. Nth(put[p], 1) = 0 /\ Nth(put[p], 2) = 0 /\ Nth(s, 1) = c[p].at /\ Nth(s, 2) = 0
      BY <1>1, <2>3, NthIs
    <3> QED
      BY <1>1, <1>2, <1>0, <1>5, <2>3, <2>4, <3>1, NthIs DEF Balanced, Own, Mine, Is
  <2>10. StillTyped
    BY <1>1, <1>2, <1>0, <1>5, <2>1, <2>2 DEF StillTyped, Types, load
  <2>11. Goes(p, j)
    BY <1>1, <1>2, <1>0, <1>5, <2>5, <2>6, <2>7, <2>8, <2>9, <2>10, MoveEnd
  <2> QED
    BY <2>3, <2>11
<1> QED
  BY <1>3, <1>4, <1>5

(* sys_chdir. *)
LEMMA ChdirMove ==
  ASSUME MemInv, NEW p \in Proc, sys_chdir(p)
  PROVE  Goes(p, 0)
PROOF
<1>1. put[p] = <<>> /\ c[p].pc = "target"
  BY DEF sys_chdir, In
<1>2. /\ Types /\ Proper(c[p], put[p], stage[p], file[p]) /\ stage[p] = "test" /\ c[p] \in Record
      /\ cwd[p] \in Inum /\ file[p] \in 0..NINODES /\ c[p].at \in 0..NINODES
      /\ c[p].ip \in 0..NINODES
      /\ c[p].pc \in {"walk", "target", "parent", "child"} => c[p].at \in Inum
      /\ c[p].pc \in {"child", "link_bad"} => c[p].ip \in Inum
  BY <1>1, MoveBegin
<1>0. c[p].ip = 0
  BY <1>1, <1>2 DEF Proper
<1>3. CASE Locked(c[p].at).type = "dir"
  <2>1. /\ c' = [c EXCEPT ![p] = Idle] /\ load(c[p].at) /\ put' = [put EXCEPT ![p] = <<cwd[p]>>]
        /\ cwd' = [cwd EXCEPT ![p] = c[p].at]
       /\ UNCHANGED <<dir, ref, lock, stage, file>>
    BY <1>3 DEF sys_chdir, return, go, disk, iputs
  <2>2. /\ Idle \in Record /\ <<cwd[p]>> \in Seq(Inum)
        /\ c[p].at \in Inum /\ file[p] \in 0..NINODES /\ 0 \in 0..NINODES
    <3>1. Idle \in Record
      BY IdleIs
    <3>2. /\ <<cwd[p]>> \in Seq(Inum) /\ c[p].at \in Inum /\ file[p] \in 0..NINODES
          /\ 0 \in 0..NINODES
      BY <1>1, <1>2, <1>0, <1>3, FsAssumption DEF Inum
    <3> QED
      BY <3>1, <3>2
  <2>3. PICK x \in Record, s \in Seq(Inum), w \in Inum, h \in 0..NINODES, j \in 0..NINODES :
          x = Idle /\ s = <<cwd[p]>> /\ w = c[p].at /\ h = file[p] /\ j = 0
    BY <2>2, Zenon
  <2>4. x.pc = "idle" /\ x.op = "none" /\ x.at = 0 /\ x.ip = 0
    BY <1>1, <1>2, <1>0, <1>3, <2>3, IdleIs DEF Record
  <2>5. Moves(p, x, s, w, h)
    BY <1>1, <1>2, <1>0, <1>3, <2>1, <2>3 DEF Moves, Types
  <2>6. Gets(j)
    BY <1>1, <1>2, <1>0, <1>3, <2>1, <2>3, GetsIs
  <2>7. Proper(x, s, "test", h)
    BY <1>1, <1>2, <1>0, <1>3, <2>3, <2>4 DEF Proper, Inum
  <2>8. LockStep(p, x)
    BY <1>1, <1>2, <1>0, <1>3, <2>1, <2>4 DEF LockStep
  <2>9. Balanced(p, x, s, w, h, j)
    <3>1. Nth(put[p], 1) = 0 /\ Nth(put[p], 2) = 0 /\ Nth(s, 1) = cwd[p] /\ Nth(s, 2) = 0
      BY <1>1, <2>3, NthIs
    <3> QED
      BY <1>1, <1>2, <1>0, <1>3, <2>3, <2>4, <3>1, NthIs DEF Balanced, Own, Mine, Is
  <2>10. StillTyped
    BY <1>1, <1>2, <1>0, <1>3, <2>1, <2>2 DEF StillTyped, Types, load
  <2>11. Goes(p, j)
    BY <1>1, <1>2, <1>0, <1>3, <2>5, <2>6, <2>7, <2>8, <2>9, <2>10, MoveEnd
  <2> QED
    BY <2>3, <2>11
<1>4. CASE Locked(c[p].at).type # "dir"
  <2>1. /\ c' = [c EXCEPT ![p] = Idle] /\ load(c[p].at) /\ put' = [put EXCEPT ![p] = <<c[p].at>>]
        /\ UNCHANGED cwd
       /\ UNCHANGED <<dir, ref, lock, stage, file>>
    BY <1>4 DEF sys_chdir, return, go, disk, iputs
  <2>2. /\ Idle \in Record /\ <<c[p].at>> \in Seq(Inum)
        /\ cwd[p] \in Inum /\ file[p] \in 0..NINODES /\ 0 \in 0..NINODES
    <3>1. Idle \in Record
      BY IdleIs
    <3>2. /\ <<c[p].at>> \in Seq(Inum) /\ cwd[p] \in Inum /\ file[p] \in 0..NINODES
          /\ 0 \in 0..NINODES
      BY <1>1, <1>2, <1>0, <1>4, FsAssumption DEF Inum
    <3> QED
      BY <3>1, <3>2
  <2>3. PICK x \in Record, s \in Seq(Inum), w \in Inum, h \in 0..NINODES, j \in 0..NINODES :
          x = Idle /\ s = <<c[p].at>> /\ w = cwd[p] /\ h = file[p] /\ j = 0
    BY <2>2, Zenon
  <2>4. x.pc = "idle" /\ x.op = "none" /\ x.at = 0 /\ x.ip = 0
    BY <1>1, <1>2, <1>0, <1>4, <2>3, IdleIs DEF Record
  <2>5. Moves(p, x, s, w, h)
    BY <1>1, <1>2, <1>0, <1>4, <2>1, <2>3 DEF Moves, Types
  <2>6. Gets(j)
    BY <1>1, <1>2, <1>0, <1>4, <2>1, <2>3, GetsIs
  <2>7. Proper(x, s, "test", h)
    BY <1>1, <1>2, <1>0, <1>4, <2>3, <2>4 DEF Proper, Inum
  <2>8. LockStep(p, x)
    BY <1>1, <1>2, <1>0, <1>4, <2>1, <2>4 DEF LockStep
  <2>9. Balanced(p, x, s, w, h, j)
    <3>1. Nth(put[p], 1) = 0 /\ Nth(put[p], 2) = 0 /\ Nth(s, 1) = c[p].at /\ Nth(s, 2) = 0
      BY <1>1, <2>3, NthIs
    <3> QED
      BY <1>1, <1>2, <1>0, <1>4, <2>3, <2>4, <3>1, NthIs DEF Balanced, Own, Mine, Is
  <2>10. StillTyped
    BY <1>1, <1>2, <1>0, <1>4, <2>1, <2>2 DEF StillTyped, Types, load
  <2>11. Goes(p, j)
    BY <1>1, <1>2, <1>0, <1>4, <2>5, <2>6, <2>7, <2>8, <2>9, <2>10, MoveEnd
  <2> QED
    BY <2>3, <2>11
<1> QED
  BY <1>3, <1>4

(* The way back of sys_link. *)
LEMMA BadMove ==
  ASSUME MemInv, NEW p \in Proc, link_bad(p)
  PROVE  Goes(p, 0)
PROOF
<1>1. put[p] = <<>> /\ c[p].pc = "link_bad"
  BY DEF link_bad, In
<1>2. /\ Types /\ Proper(c[p], put[p], stage[p], file[p]) /\ stage[p] = "test" /\ c[p] \in Record
      /\ cwd[p] \in Inum /\ file[p] \in 0..NINODES /\ c[p].at \in 0..NINODES
      /\ c[p].ip \in 0..NINODES
      /\ c[p].pc \in {"walk", "target", "parent", "child"} => c[p].at \in Inum
      /\ c[p].pc \in {"child", "link_bad"} => c[p].ip \in Inum
  BY <1>1, MoveBegin
<1>0. c[p].at = 0
  BY <1>1, <1>2 DEF Proper
<1>3. Goes(p, 0)
  <2>1. /\ c' = [c EXCEPT ![p] = Idle] /\ put' = [put EXCEPT ![p] = <<c[p].ip>>]
        /\ valid' \in [Inum -> BOOLEAN] /\ UNCHANGED <<dir, ref, lock, stage, cwd, file>>
    BY DEF link_bad, return, go, disk, iputs, store
  <2>2. /\ Idle \in Record /\ <<c[p].ip>> \in Seq(Inum)
        /\ cwd[p] \in Inum /\ file[p] \in 0..NINODES /\ 0 \in 0..NINODES
    <3>1. Idle \in Record
      BY IdleIs
    <3>2. /\ <<c[p].ip>> \in Seq(Inum) /\ cwd[p] \in Inum /\ file[p] \in 0..NINODES
          /\ 0 \in 0..NINODES
      BY <1>1, <1>2, <1>0, FsAssumption DEF Inum
    <3> QED
      BY <3>1, <3>2
  <2>3. PICK x \in Record, s \in Seq(Inum), w \in Inum, h \in 0..NINODES, j \in 0..NINODES :
          x = Idle /\ s = <<c[p].ip>> /\ w = cwd[p] /\ h = file[p] /\ j = 0
    BY <2>2, Zenon
  <2>4. x.pc = "idle" /\ x.op = "none" /\ x.at = 0 /\ x.ip = 0
    BY <1>1, <1>2, <1>0, <2>3, IdleIs DEF Record
  <2>5. Moves(p, x, s, w, h)
    BY <1>1, <1>2, <1>0, <2>1, <2>3 DEF Moves, Types
  <2>6. Gets(j)
    BY <1>1, <1>2, <1>0, <2>1, <2>3, GetsIs
  <2>7. Proper(x, s, "test", h)
    BY <1>1, <1>2, <1>0, <2>3, <2>4 DEF Proper, Inum
  <2>8. LockStep(p, x)
    BY <1>1, <1>2, <1>0, <2>1, <2>4 DEF LockStep
  <2>9. Balanced(p, x, s, w, h, j)
    <3>1. Nth(put[p], 1) = 0 /\ Nth(put[p], 2) = 0 /\ Nth(s, 1) = c[p].ip /\ Nth(s, 2) = 0
      BY <1>1, <2>3, NthIs
    <3> QED
      BY <1>1, <1>2, <1>0, <2>3, <2>4, <3>1, NthIs DEF Balanced, Own, Mine, Is
  <2>10. StillTyped
    BY <1>1, <1>2, <1>0, <2>1, <2>2 DEF StillTyped, Types
  <2>11. Goes(p, j)
    BY <1>1, <1>2, <1>0, <2>5, <2>6, <2>7, <2>8, <2>9, <2>10, MoveEnd
  <2> QED
    BY <2>3, <2>11
<1> QED
  BY <1>3

(* A new entry in a directory. *)
LEMMA DirlinkIs ==
  ASSUME NEW t \in [Inum -> [Elem -> 0..NINODES]], NEW d \in Inum, NEW e \in Elem,
         NEW i \in 0..NINODES
  PROVE  /\ dirlink(t, d, e, i) \in [Inum -> [Elem -> 0..NINODES]]
         /\ \A k \in Inum, a \in Elem :
              dirlink(t, d, e, i)[k][a] = IF k = d /\ a = e THEN i ELSE t[k][a]
PROOF
  BY DEF dirlink

(* The parts of a path. *)
LEMMA PathParts ==
  ASSUME NEW s \in Seq(Elem), s # <<>> \/ Len(s) = 1
  PROVE  /\ s # <<>> /\ Head(s) \in Elem /\ Tail(s) \in Seq(Elem)
         /\ Tail(s) = <<>> => Len(s) = 1
PROOF
<1>1. s # <<>>
  OBVIOUS
<1>2. Head(s) \in Elem /\ Tail(s) \in Seq(Elem) /\ Len(Tail(s)) = Len(s) - 1 /\ Len(s) \in Nat
  BY <1>1
<1>3. Tail(s) = <<>> => Len(s) = 1
  BY <1>2, SMTT(30)
<1> QED
  BY <1>1, <1>2, <1>3

(* What a directory has for a name, or for no name. *)
LEMMA Lookup ==
  ASSUME MemInv, NEW p \in Proc, put[p] = <<>>, c[p].pc \in {"walk", "parent", "child"},
         c[p].path # <<>> \/ c[p].pc # "walk"
  PROVE  /\ c[p].path \in Seq(Elem) /\ c[p].path # <<>> /\ Head(c[p].path) \in Elem
         /\ dir[c[p].at][Head(c[p].path)] \in 0..NINODES
         /\ dir[c[p].at][Head(c[p].path)] # 0 => dir[c[p].at][Head(c[p].path)] \in Inum
PROOF
<1>1. /\ Types /\ Proper(c[p], put[p], stage[p], file[p]) /\ c[p].at \in Inum /\ c[p] \in Record
  BY MoveBegin
<1>2. c[p].path \in Seq(Elem)
  BY <1>1 DEF Record
<1>3. c[p].path # <<>> \/ Len(c[p].path) = 1
  BY <1>1 DEF Proper
<1>4. c[p].path # <<>> /\ Head(c[p].path) \in Elem
  BY <1>2, <1>3, PathParts
<1>5. dir[c[p].at][Head(c[p].path)] \in 0..NINODES
  BY <1>1, <1>4 DEF Types
<1> QED
  BY <1>2, <1>4, <1>5 DEF Inum

(* One round of namex. *)
LEMMA NamexMove ==
  ASSUME MemInv, NEW p \in Proc, namex(p)
  PROVE  \E j \in From(p) : Goes(p, j)
PROOF
<1>1. put[p] = <<>> /\ c[p].pc = "walk" /\ c[p].path # <<>>
  BY DEF namex, In
<1>2. /\ Types /\ Proper(c[p], put[p], stage[p], file[p]) /\ stage[p] = "test" /\ c[p] \in Record
      /\ cwd[p] \in Inum /\ file[p] \in 0..NINODES /\ c[p].at \in 0..NINODES
      /\ c[p].ip \in 0..NINODES
      /\ c[p].pc \in {"walk", "target", "parent", "child"} => c[p].at \in Inum
      /\ c[p].pc \in {"child", "link_bad"} => c[p].ip \in Inum
  BY <1>1, MoveBegin
<1>0. /\ c[p].ip # 0 => c[p].op = "link"
      /\ Head(c[p].path) \in Elem /\ Tail(c[p].path) \in Seq(Elem)
      /\ Tail(c[p].path) = <<>> => Len(c[p].path) = 1
  <2>1. c[p].path \in Seq(Elem)
    BY <1>2 DEF Record
  <2>2. c[p].ip # 0 => c[p].op = "link"
    BY <1>1, <1>2 DEF Proper
  <2> QED
    BY <1>1, <2>1, <2>2, PathParts
<1>3. \/ fails(p) /\ iputs(p, <<c[p].at>>) /\ UNCHANGED ref
      \/ go(p, [c[p] EXCEPT !.pc = "parent"]) /\ UNCHANGED <<put, ref>> /\ ToParent(p)
         /\ Len(c[p].path) = 1
      \/ /\ go(p, [c[p] EXCEPT !.pc = Has(c[p].op, Tail(c[p].path)),
                    !.at = dir[c[p].at][Head(c[p].path)], !.path = Tail(c[p].path)])
         /\ iget(dir[c[p].at][Head(c[p].path)]) /\ iputs(p, <<c[p].at>>)
         /\ dir[c[p].at][Head(c[p].path)] # 0 /\ ~(ToParent(p) /\ Len(c[p].path) = 1)
  BY DEF namex, dirlookup
<1>4. dir[c[p].at][Head(c[p].path)] \in 0..NINODES
  BY <1>0, <1>1, <1>2 DEF Types
<1>5. CASE (fails(p) /\ iputs(p, <<c[p].at>>) /\ UNCHANGED ref) /\ c[p].ip # 0
  <2>1. /\ c' = [c EXCEPT ![p] = [c[p] EXCEPT !.pc = "link_bad", !.at = 0, !.path = <<>>]]
        /\ put' = [put EXCEPT ![p] = <<c[p].at>>]
       /\ load(c[p].at) /\ UNCHANGED <<dir, ref, lock, stage, cwd, file>>
    BY <1>5 DEF namex, fails, go, iputs, disk
  <2>2. /\ [c[p] EXCEPT !.pc = "link_bad", !.at = 0, !.path = <<>>] \in Record
        /\ <<c[p].at>> \in Seq(Inum)
        /\ cwd[p] \in Inum /\ file[p] \in 0..NINODES /\ 0 \in 0..NINODES
    <3>1. [c[p] EXCEPT !.pc = "link_bad", !.at = 0, !.path = <<>>] \in Record
      BY <1>1, <1>2, <1>0, <1>5, IdleIs DEF Record, PCs
    <3>2. /\ <<c[p].at>> \in Seq(Inum) /\ cwd[p] \in Inum /\ file[p] \in 0..NINODES
          /\ 0 \in 0..NINODES
      BY <1>1, <1>2, <1>0, <1>5, FsAssumption DEF Inum
    <3> QED
      BY <3>1, <3>2
  <2>3. PICK x \in Record, s \in Seq(Inum), w \in Inum, h \in 0..NINODES, j \in 0..NINODES :
          x = [c[p] EXCEPT !.pc = "link_bad", !.at = 0, !.path = <<>>] /\ s = <<c[p].at>>
          /\ w = cwd[p] /\ h = file[p] /\ j = 0
    BY <2>2, Zenon
  <2>4. x.pc = "link_bad" /\ x.op = c[p].op /\ x.at = 0 /\ x.ip = c[p].ip
    BY <1>1, <1>2, <1>0, <1>5, <2>3, IdleIs DEF Record
  <2>5. Moves(p, x, s, w, h)
    BY <1>1, <1>2, <1>0, <1>5, <2>1, <2>3 DEF Moves, Types
  <2>6. Gets(j)
    BY <1>1, <1>2, <1>0, <1>5, <2>1, <2>3, GetsIs
  <2>7. Proper(x, s, "test", h)
    BY <1>1, <1>2, <1>0, <1>5, <2>3, <2>4 DEF Proper, Inum
  <2>8. LockStep(p, x)
    BY <1>1, <1>2, <1>0, <1>5, <2>1, <2>4 DEF LockStep
  <2>9. Balanced(p, x, s, w, h, j)
    <3>1. Nth(put[p], 1) = 0 /\ Nth(put[p], 2) = 0 /\ Nth(s, 1) = c[p].at /\ Nth(s, 2) = 0
      BY <1>1, <2>3, NthIs
    <3> QED
      BY <1>1, <1>2, <1>0, <1>5, <2>3, <2>4, <3>1, NthIs DEF Balanced, Own, Mine, Is
  <2>10. StillTyped
    BY <1>1, <1>2, <1>0, <1>5, <2>1, <2>2 DEF StillTyped, Types, load
  <2>11. Goes(p, j)
    BY <1>1, <1>2, <1>0, <1>5, <2>5, <2>6, <2>7, <2>8, <2>9, <2>10, MoveEnd
  <2> QED
    BY <2>3, <2>11 DEF From
<1>6. CASE (fails(p) /\ iputs(p, <<c[p].at>>) /\ UNCHANGED ref) /\ c[p].ip = 0
  <2>1. /\ c' = [c EXCEPT ![p] = Idle] /\ put' = [put EXCEPT ![p] = <<c[p].at>>]
       /\ load(c[p].at) /\ UNCHANGED <<dir, ref, lock, stage, cwd, file>>
    BY <1>6 DEF namex, fails, go, iputs, disk
  <2>2. /\ Idle \in Record /\ <<c[p].at>> \in Seq(Inum)
        /\ cwd[p] \in Inum /\ file[p] \in 0..NINODES /\ 0 \in 0..NINODES
    <3>1. Idle \in Record
      BY IdleIs
    <3>2. /\ <<c[p].at>> \in Seq(Inum) /\ cwd[p] \in Inum /\ file[p] \in 0..NINODES
          /\ 0 \in 0..NINODES
      BY <1>1, <1>2, <1>0, <1>6, FsAssumption DEF Inum
    <3> QED
      BY <3>1, <3>2
  <2>3. PICK x \in Record, s \in Seq(Inum), w \in Inum, h \in 0..NINODES, j \in 0..NINODES :
          x = Idle /\ s = <<c[p].at>> /\ w = cwd[p] /\ h = file[p] /\ j = 0
    BY <2>2, Zenon
  <2>4. x.pc = "idle" /\ x.op = "none" /\ x.at = 0 /\ x.ip = 0
    BY <1>1, <1>2, <1>0, <1>6, <2>3, IdleIs DEF Record
  <2>5. Moves(p, x, s, w, h)
    BY <1>1, <1>2, <1>0, <1>6, <2>1, <2>3 DEF Moves, Types
  <2>6. Gets(j)
    BY <1>1, <1>2, <1>0, <1>6, <2>1, <2>3, GetsIs
  <2>7. Proper(x, s, "test", h)
    BY <1>1, <1>2, <1>0, <1>6, <2>3, <2>4 DEF Proper, Inum
  <2>8. LockStep(p, x)
    BY <1>1, <1>2, <1>0, <1>6, <2>1, <2>4 DEF LockStep
  <2>9. Balanced(p, x, s, w, h, j)
    <3>1. Nth(put[p], 1) = 0 /\ Nth(put[p], 2) = 0 /\ Nth(s, 1) = c[p].at /\ Nth(s, 2) = 0
      BY <1>1, <2>3, NthIs
    <3> QED
      BY <1>1, <1>2, <1>0, <1>6, <2>3, <2>4, <3>1, NthIs DEF Balanced, Own, Mine, Is
  <2>10. StillTyped
    BY <1>1, <1>2, <1>0, <1>6, <2>1, <2>2 DEF StillTyped, Types, load
  <2>11. Goes(p, j)
    BY <1>1, <1>2, <1>0, <1>6, <2>5, <2>6, <2>7, <2>8, <2>9, <2>10, MoveEnd
  <2> QED
    BY <2>3, <2>11 DEF From
<1>7. CASE go(p, [c[p] EXCEPT !.pc = "parent"]) /\ UNCHANGED <<put, ref>> /\ ToParent(p)
           /\ Len(c[p].path) = 1
  <2>1. /\ c' = [c EXCEPT ![p] = [c[p] EXCEPT !.pc = "parent"]] /\ put' = [put EXCEPT ![p] = put[p]]
       /\ load(c[p].at) /\ UNCHANGED <<dir, ref, lock, stage, cwd, file>>
    BY <1>2, <1>7 DEF namex, go, disk, Types
  <2>2. /\ [c[p] EXCEPT !.pc = "parent"] \in Record /\ <<>> \in Seq(Inum)
        /\ cwd[p] \in Inum /\ file[p] \in 0..NINODES /\ 0 \in 0..NINODES
    <3>1. [c[p] EXCEPT !.pc = "parent"] \in Record
      BY <1>1, <1>2, <1>0, <1>7, IdleIs DEF Record, PCs
    <3>2. /\ <<>> \in Seq(Inum) /\ cwd[p] \in Inum /\ file[p] \in 0..NINODES /\ 0 \in 0..NINODES
      BY <1>1, <1>2, <1>0, <1>7, FsAssumption DEF Inum
    <3> QED
      BY <3>1, <3>2
  <2>3. PICK x \in Record, s \in Seq(Inum), w \in Inum, h \in 0..NINODES, j \in 0..NINODES :
          x = [c[p] EXCEPT !.pc = "parent"] /\ s = <<>> /\ w = cwd[p] /\ h = file[p] /\ j = 0
    BY <2>2, Zenon
  <2>4. x.pc = "parent" /\ x.op = c[p].op /\ x.at = c[p].at /\ x.ip = c[p].ip /\ x.path = c[p].path
    BY <1>1, <1>2, <1>0, <1>7, <2>3, IdleIs DEF Record
  <2>5. Moves(p, x, s, w, h)
    BY <1>1, <1>2, <1>0, <1>7, <2>1, <2>3 DEF Moves, Types
  <2>6. Gets(j)
    BY <1>1, <1>2, <1>0, <1>7, <2>1, <2>3, GetsIs
  <2>7. Proper(x, s, "test", h)
    BY <1>1, <1>2, <1>0, <1>7, <2>3, <2>4 DEF Proper, Inum, ToParent
  <2>8. LockStep(p, x)
    BY <1>1, <1>2, <1>0, <1>7, <2>1, <2>4 DEF LockStep
  <2>9. Balanced(p, x, s, w, h, j)
    <3>1. Nth(put[p], 1) = 0 /\ Nth(put[p], 2) = 0 /\ Nth(s, 1) = 0 /\ Nth(s, 2) = 0
      BY <1>1, <2>3, NthIs
    <3> QED
      BY <1>1, <1>2, <1>0, <1>7, <2>3, <2>4, <3>1, NthIs DEF Balanced, Own, Mine, Is
  <2>10. StillTyped
    BY <1>1, <1>2, <1>0, <1>7, <2>1, <2>2 DEF StillTyped, Types, load
  <2>11. Goes(p, j)
    BY <1>1, <1>2, <1>0, <1>7, <2>5, <2>6, <2>7, <2>8, <2>9, <2>10, MoveEnd
  <2> QED
    BY <2>3, <2>11 DEF From
<1>8. CASE /\ go(p, [c[p] EXCEPT !.pc = Has(c[p].op, Tail(c[p].path)),
              !.at = dir[c[p].at][Head(c[p].path)], !.path = Tail(c[p].path)])
            /\ iget(dir[c[p].at][Head(c[p].path)]) /\ iputs(p, <<c[p].at>>)
            /\ dir[c[p].at][Head(c[p].path)] # 0 /\ ~(ToParent(p) /\ Len(c[p].path) = 1)
  <2>1. /\ c' = [c EXCEPT ![p] = [c[p] EXCEPT !.pc = Has(c[p].op, Tail(c[p].path)),
                !.at = dir[c[p].at][Head(c[p].path)], !.path = Tail(c[p].path)]]
        /\ put' = [put EXCEPT ![p] = <<c[p].at>>]
       /\ iget(dir[c[p].at][Head(c[p].path)]) /\ load(c[p].at)
       /\ UNCHANGED <<dir, lock, stage, cwd, file>>
    BY <1>8 DEF namex, go, disk, iputs
  <2>2. /\ [c[p] EXCEPT !.pc = Has(c[p].op, Tail(c[p].path)),
                !.at = dir[c[p].at][Head(c[p].path)], !.path = Tail(c[p].path)] \in Record
        /\ <<c[p].at>> \in Seq(Inum)
        /\ cwd[p] \in Inum /\ file[p] \in 0..NINODES /\ dir[c[p].at][Head(c[p].path)] \in 0..NINODES
    <3>1. [c[p] EXCEPT !.pc = Has(c[p].op, Tail(c[p].path)),
                  !.at = dir[c[p].at][Head(c[p].path)], !.path = Tail(c[p].path)] \in Record
      BY <1>1, <1>2, <1>0, <1>4, <1>8, IdleIs DEF Record, PCs, Has
    <3>2. /\ <<c[p].at>> \in Seq(Inum) /\ cwd[p] \in Inum /\ file[p] \in 0..NINODES
          /\ dir[c[p].at][Head(c[p].path)] \in 0..NINODES
      <4>1. c[p].at \in Inum /\ cwd[p] \in Inum /\ file[p] \in 0..NINODES
        BY <1>1, <1>2
      <4>2. <<c[p].at>> \in Seq(Inum)
        BY <4>1
      <4> QED
        BY <1>4, <4>1, <4>2
    <3> QED
      BY <3>1, <3>2
  <2>3. PICK x \in Record, s \in Seq(Inum), w \in Inum, h \in 0..NINODES, j \in 0..NINODES :
          x = [c[p] EXCEPT !.pc = Has(c[p].op, Tail(c[p].path)),
                        !.at = dir[c[p].at][Head(c[p].path)], !.path = Tail(c[p].path)]
          /\ s = <<c[p].at>> /\ w = cwd[p] /\ h = file[p] /\ j = dir[c[p].at][Head(c[p].path)]
    BY <2>2, Zenon
  <2>4. /\ x.pc = Has(c[p].op, Tail(c[p].path)) /\ x.op = c[p].op /\ x.ip = c[p].ip
        /\ x.at = dir[c[p].at][Head(c[p].path)] /\ x.at \in Inum /\ x.pc \in {"walk", "target"}
        /\ x.pc = "target" => Tail(c[p].path) = <<>>
    <3>1. /\ x.pc = Has(c[p].op, Tail(c[p].path)) /\ x.op = c[p].op /\ x.ip = c[p].ip
          /\ x.at = dir[c[p].at][Head(c[p].path)]
      BY <1>2, <2>3 DEF Record
    <3>2. x.at \in Inum
      <4>1. \A k \in 0..NINODES : k # 0 => k \in Inum
        BY DEF Inum
      <4> QED
        BY <1>4, <1>8, <3>1, <4>1, Zenon
    <3> QED
      BY <3>1, <3>2 DEF Has
  <2>5. Moves(p, x, s, w, h)
    <3>1. c' = [c EXCEPT ![p] = x] /\ put' = [put EXCEPT ![p] = s] /\ UNCHANGED <<stage, cwd, file>>
      BY <2>1, <2>3, Zenon
    <3>2. cwd' = [cwd EXCEPT ![p] = w] /\ file' = [file EXCEPT ![p] = h]
      <4>1. cwd \in [Proc -> Inum] /\ file \in [Proc -> 0..NINODES] /\ w = cwd[p] /\ h = file[p]
        BY <1>2, <2>3 DEF Types
      <4> QED
        BY <3>1, <4>1
    <3> QED
      BY <3>1, <3>2 DEF Moves
  <2>6. Gets(j)
    <3>1. iget(j) /\ j \in Inum
      BY <2>1, <2>3, <2>4
    <3> QED
      BY <1>2, <3>1, GetsIs
  <2>7. Proper(x, s, "test", h)
    <3>1. Len(s) <= 2 /\ h = file[p]
      BY <2>3
    <3>2. x.pc = "target" => x.ip = 0
      BY <1>0, <1>8, <2>4 DEF ToParent
    <3>3. x.op \in {"open", "create"} => h = 0
      <4>1. c[p].op \in {"open", "create"} => file[p] = 0
        BY <1>2 DEF Proper
      <4> QED
        BY <2>4, <3>1, <4>1
    <3>4. x.at # 0 /\ x.pc \in {"walk", "target"} /\ (x.ip # 0 => x.op = "link")
      BY <1>0, <2>4 DEF Inum
    <3> QED
      BY <3>1, <3>2, <3>3, <3>4 DEF Proper
  <2>8. LockStep(p, x)
    BY <1>1, <1>2, <1>0, <1>4, <1>8, <2>1, <2>4 DEF LockStep, Has
  <2>9. Balanced(p, x, s, w, h, j)
    <3>1. Nth(put[p], 1) = 0 /\ Nth(put[p], 2) = 0 /\ Nth(s, 1) = c[p].at /\ Nth(s, 2) = 0
      BY <1>1, <2>3, NthIs
    <3>2. PICK a, b : a = c[p].at /\ b = c[p].ip
      OBVIOUS
    <3>3. x.at = j /\ x.ip = b /\ Nth(s, 1) = a /\ Nth(s, 2) = 0 /\ w = cwd[p] /\ h = file[p]
      BY <2>3, <2>4, <3>1, <3>2, Zenon
    <3>4. Even(j, b, a, 0, a, b, j)
      BY NthIs DEF Is, Even
    <3> QED
      BY <1>1, <3>2, <3>3, <3>4, Balance
  <2>10. StillTyped
    BY <1>1, <1>2, <1>0, <1>4, <1>8, <2>1, <2>2 DEF StillTyped, Types, load
  <2>11. Goes(p, j)
    BY <1>1, <1>2, <1>0, <1>4, <1>8, <2>5, <2>6, <2>7, <2>8, <2>9, <2>10, MoveEnd
  <2> QED
    BY <2>3, <2>11 DEF From
<1> QED
  BY <1>3, <1>5, <1>6, <1>7, <1>8

(* sys_link at what it links. *)
LEMMA LinkMove ==
  ASSUME MemInv, NEW p \in Proc, link_target(p)
  PROVE  \E j \in From(p) : Goes(p, j)
PROOF
<1>1. put[p] = <<>> /\ c[p].pc = "target" /\ c[p].op = "link"
  BY DEF link_target, In
<1>2. /\ Types /\ Proper(c[p], put[p], stage[p], file[p]) /\ stage[p] = "test" /\ c[p] \in Record
      /\ cwd[p] \in Inum /\ file[p] \in 0..NINODES /\ c[p].at \in 0..NINODES
      /\ c[p].ip \in 0..NINODES
      /\ c[p].pc \in {"walk", "target", "parent", "child"} => c[p].at \in Inum
      /\ c[p].pc \in {"child", "link_bad"} => c[p].ip \in Inum
  BY <1>1, MoveBegin
<1>0. c[p].ip = 0
  BY <1>1, <1>2 DEF Proper
<1>3. CASE Locked(c[p].at).type = "dir"
  <2>1. /\ c' = [c EXCEPT ![p] = Idle] /\ put' = [put EXCEPT ![p] = <<c[p].at>>]
       /\ load(c[p].at) /\ UNCHANGED <<dir, ref, lock, stage, cwd, file>>
    BY <1>3 DEF link_target, return, go, iputs
  <2>2. /\ Idle \in Record /\ <<c[p].at>> \in Seq(Inum)
        /\ cwd[p] \in Inum /\ file[p] \in 0..NINODES /\ 0 \in 0..NINODES
    <3>1. Idle \in Record
      BY IdleIs
    <3>2. /\ <<c[p].at>> \in Seq(Inum) /\ cwd[p] \in Inum /\ file[p] \in 0..NINODES
          /\ 0 \in 0..NINODES
      BY <1>1, <1>2, <1>0, <1>3, FsAssumption DEF Inum
    <3> QED
      BY <3>1, <3>2
  <2>3. PICK x \in Record, s \in Seq(Inum), w \in Inum, h \in 0..NINODES, j \in 0..NINODES :
          x = Idle /\ s = <<c[p].at>> /\ w = cwd[p] /\ h = file[p] /\ j = 0
    BY <2>2, Zenon
  <2>4. x.pc = "idle" /\ x.op = "none" /\ x.at = 0 /\ x.ip = 0
    BY <1>1, <1>2, <1>0, <1>3, <2>3, IdleIs DEF Record
  <2>5. Moves(p, x, s, w, h)
    BY <1>1, <1>2, <1>0, <1>3, <2>1, <2>3 DEF Moves, Types
  <2>6. Gets(j)
    BY <1>1, <1>2, <1>0, <1>3, <2>1, <2>3, GetsIs
  <2>7. Proper(x, s, "test", h)
    BY <1>1, <1>2, <1>0, <1>3, <2>3, <2>4 DEF Proper, Inum
  <2>8. LockStep(p, x)
    BY <1>1, <1>2, <1>0, <1>3, <2>1, <2>4 DEF LockStep
  <2>9. Balanced(p, x, s, w, h, j)
    <3>1. Nth(put[p], 1) = 0 /\ Nth(put[p], 2) = 0 /\ Nth(s, 1) = c[p].at /\ Nth(s, 2) = 0
      BY <1>1, <2>3, NthIs
    <3> QED
      BY <1>1, <1>2, <1>0, <1>3, <2>3, <2>4, <3>1, NthIs DEF Balanced, Own, Mine, Is
  <2>10. StillTyped
    BY <1>1, <1>2, <1>0, <1>3, <2>1, <2>2 DEF StillTyped, Types, load
  <2>11. Goes(p, j)
    BY <1>1, <1>2, <1>0, <1>3, <2>5, <2>6, <2>7, <2>8, <2>9, <2>10, MoveEnd
  <2> QED
    BY <2>3, <2>11 DEF From
<1>4. First(p, c[p].new) \in Inum /\ First(p, c[p].new) \in {ROOTINO, cwd[p]}
      /\ Rest(c[p].new) \in Seq(Elem)
  <2>1. c[p].new \in Path
    BY <1>2 DEF Record
  <2> QED
    BY <1>2, <2>1, FirstType, RestType
<1>5. CASE Locked(c[p].at).type # "dir"
  <2>1. /\ c' = [c EXCEPT ![p] = [c[p] EXCEPT !.pc = "walk", !.at = First(p, c[p].new),
                !.path = Rest(c[p].new), !.ip = c[p].at]]
        /\ put' = [put EXCEPT ![p] = put[p]]
       /\ iget(First(p, c[p].new)) /\ valid' \in [Inum -> BOOLEAN]
       /\ UNCHANGED <<dir, lock, stage, cwd, file>>
    <3>1. \E n : valid' = [k \in Inum |-> valid[k] \/ k \in DOMAIN n]
      BY <1>5, Zenon DEF link_target, store
    <3>2. valid' \in [Inum -> BOOLEAN]
      BY <3>1
    <3>3. /\ go(p, [c[p] EXCEPT !.pc = "walk", !.at = First(p, c[p].new),
                  !.path = Rest(c[p].new), !.ip = c[p].at])
          /\ iget(First(p, c[p].new)) /\ UNCHANGED <<put, dir, lock, stage, cwd, file>>
      BY <1>5, Zenon DEF link_target
    <3>4. put' = [put EXCEPT ![p] = put[p]]
      BY <1>2, <3>3 DEF Types
    <3> QED
      BY <3>2, <3>3, <3>4, Zenon DEF go
  <2>2. /\ [c[p] EXCEPT !.pc = "walk", !.at = First(p, c[p].new), !.path = Rest(c[p].new),
                !.ip = c[p].at] \in Record
        /\ <<>> \in Seq(Inum)
        /\ cwd[p] \in Inum /\ file[p] \in 0..NINODES /\ First(p, c[p].new) \in 0..NINODES
    <3>1. [c[p] EXCEPT !.pc = "walk", !.at = First(p, c[p].new), !.path = Rest(c[p].new),
                  !.ip = c[p].at] \in Record
      <4>1. PICK d \in 0..NINODES, u \in Seq(Elem) : d = First(p, c[p].new) /\ u = Rest(c[p].new)
        BY <1>4 DEF Inum
      <4>2. [c[p] EXCEPT !.pc = "walk", !.at = d, !.path = u, !.ip = c[p].at] \in Record
        BY <1>2 DEF Record, PCs
      <4> QED
        BY <4>1, <4>2
    <3>2. /\ <<>> \in Seq(Inum) /\ cwd[p] \in Inum /\ file[p] \in 0..NINODES
          /\ First(p, c[p].new) \in 0..NINODES
      BY <1>1, <1>2, <1>0, <1>4, <1>5, FsAssumption DEF Inum
    <3> QED
      BY <3>1, <3>2
  <2>3. PICK x \in Record, s \in Seq(Inum), w \in Inum, h \in 0..NINODES, j \in 0..NINODES :
          x = [c[p] EXCEPT !.pc = "walk", !.at = First(p, c[p].new), !.path = Rest(c[p].new),
                        !.ip = c[p].at]
          /\ s = <<>> /\ w = cwd[p] /\ h = file[p] /\ j = First(p, c[p].new)
    BY <2>2, Zenon
  <2>4. x.pc = "walk" /\ x.op = c[p].op /\ x.at = First(p, c[p].new) /\ x.ip = c[p].at
    BY <1>1, <1>2, <1>0, <1>4, <1>5, <2>3, IdleIs DEF Record
  <2>5. Moves(p, x, s, w, h)
    BY <1>1, <1>2, <1>0, <1>4, <1>5, <2>1, <2>3 DEF Moves, Types
  <2>6. Gets(j)
    BY <1>1, <1>2, <1>0, <1>4, <1>5, <2>1, <2>3, GetsIs
  <2>7. Proper(x, s, "test", h)
    BY <1>1, <1>2, <1>0, <1>4, <1>5, <2>3, <2>4 DEF Proper, Inum
  <2>8. LockStep(p, x)
    BY <1>1, <1>2, <1>0, <1>4, <1>5, <2>1, <2>4 DEF LockStep
  <2>9. Balanced(p, x, s, w, h, j)
    <3>1. Nth(put[p], 1) = 0 /\ Nth(put[p], 2) = 0 /\ Nth(s, 1) = 0 /\ Nth(s, 2) = 0
      BY <1>1, <2>3, NthIs
    <3> QED
      BY <1>1, <1>2, <1>0, <1>4, <1>5, <2>3, <2>4, <3>1, NthIs DEF Balanced, Own, Mine, Is
  <2>10. StillTyped
    BY <1>1, <1>2, <1>0, <1>4, <1>5, <2>1, <2>2 DEF StillTyped, Types
  <2>11. Goes(p, j)
    BY <1>1, <1>2, <1>0, <1>4, <1>5, <2>5, <2>6, <2>7, <2>8, <2>9, <2>10, MoveEnd
  <2>12. j \in From(p)
    BY <1>4, <2>3 DEF From
  <2> QED
    BY <2>11, <2>12
<1> QED
  BY <1>3, <1>5

(* sys_link in the directory. *)
LEMMA EntryMove ==
  ASSUME MemInv, NEW p \in Proc, link_parent(p)
  PROVE  \E j \in From(p) : Goes(p, j)
PROOF
<1>1. put[p] = <<>> /\ c[p].pc = "parent" /\ c[p].op = "link"
  BY DEF link_parent, In
<1>2. /\ Types /\ Proper(c[p], put[p], stage[p], file[p]) /\ stage[p] = "test" /\ c[p] \in Record
      /\ cwd[p] \in Inum /\ file[p] \in 0..NINODES /\ c[p].at \in 0..NINODES
      /\ c[p].ip \in 0..NINODES
      /\ c[p].pc \in {"walk", "target", "parent", "child"} => c[p].at \in Inum
      /\ c[p].pc \in {"child", "link_bad"} => c[p].ip \in Inum
  BY <1>1, MoveBegin
<1>0. /\ c[p].ip # 0
      /\ Head(c[p].path) \in Elem /\ dir[c[p].at][Head(c[p].path)] \in 0..NINODES
      /\ dir[c[p].at][Head(c[p].path)] # 0 => dir[c[p].at][Head(c[p].path)] \in Inum
  <2>1. c[p].ip # 0
    BY <1>1, <1>2 DEF Proper, OfParent
  <2> QED
    BY <1>1, <2>1, Lookup
<1>3. CASE dir[c[p].at][Head(c[p].path)] # 0
  <2>1. /\ c' = [c EXCEPT ![p] = [c[p] EXCEPT !.pc = "link_bad", !.at = 0, !.path = <<>>]]
        /\ put' = [put EXCEPT ![p] = <<dir[c[p].at][Head(c[p].path)], c[p].at>>]
       /\ load(c[p].at) /\ iget(dir[c[p].at][Head(c[p].path)])
       /\ UNCHANGED <<dir, lock, stage, cwd, file>>
    BY <1>0, <1>3 DEF link_parent, fails, go, iputs, dirlookup
  <2>2. /\ [c[p] EXCEPT !.pc = "link_bad", !.at = 0, !.path = <<>>] \in Record
        /\ <<dir[c[p].at][Head(c[p].path)], c[p].at>> \in Seq(Inum)
        /\ cwd[p] \in Inum /\ file[p] \in 0..NINODES /\ dir[c[p].at][Head(c[p].path)] \in 0..NINODES
    <3>1. [c[p] EXCEPT !.pc = "link_bad", !.at = 0, !.path = <<>>] \in Record
      BY <1>1, <1>2, <1>0, <1>3, IdleIs DEF Record, PCs
    <3>2. /\ <<dir[c[p].at][Head(c[p].path)], c[p].at>> \in Seq(Inum) /\ cwd[p] \in Inum
          /\ file[p] \in 0..NINODES /\ dir[c[p].at][Head(c[p].path)] \in 0..NINODES
      BY <1>1, <1>2, <1>0, <1>3, FsAssumption DEF Inum
    <3> QED
      BY <3>1, <3>2
  <2>3. PICK x \in Record, s \in Seq(Inum), w \in Inum, h \in 0..NINODES, j \in 0..NINODES :
          x = [c[p] EXCEPT !.pc = "link_bad", !.at = 0, !.path = <<>>]
          /\ s = <<dir[c[p].at][Head(c[p].path)], c[p].at>> /\ w = cwd[p] /\ h = file[p]
          /\ j = dir[c[p].at][Head(c[p].path)]
    BY <2>2, Zenon
  <2>4. x.pc = "link_bad" /\ x.op = c[p].op /\ x.at = 0 /\ x.ip = c[p].ip
    BY <1>1, <1>2, <1>0, <1>3, <2>3, IdleIs DEF Record
  <2>5. Moves(p, x, s, w, h)
    BY <1>1, <1>2, <1>0, <1>3, <2>1, <2>3 DEF Moves, Types
  <2>6. Gets(j)
    BY <1>1, <1>2, <1>0, <1>3, <2>1, <2>3, GetsIs DEF Inum
  <2>7. Proper(x, s, "test", h)
    <3>1. Len(s) <= 2 /\ c[p].ip # 0 /\ c[p].op = "link"
      BY <1>1, <1>0, <2>3
    <3> QED
      BY <2>4, <3>1, SMTT(30) DEF Proper
  <2>8. LockStep(p, x)
    BY <1>1, <1>2, <1>0, <1>3, <2>1, <2>4 DEF LockStep
  <2>9. Balanced(p, x, s, w, h, j)
    <3>1. Nth(put[p], 1) = 0 /\ Nth(put[p], 2) = 0 /\ Nth(s, 1) = dir[c[p].at][Head(c[p].path)]
          /\ Nth(s, 2) = c[p].at
      BY <1>1, <2>3, NthIs
    <3>2. PICK a, b : a = c[p].at /\ b = c[p].ip
      OBVIOUS
    <3>3. x.at = 0 /\ x.ip = b /\ Nth(s, 1) = j /\ Nth(s, 2) = a /\ w = cwd[p] /\ h = file[p]
      BY <2>3, <2>4, <3>1, <3>2, Zenon
    <3>4. Even(0, b, j, a, a, b, j)
      BY NthIs DEF Is, Even
    <3> QED
      BY <1>1, <3>2, <3>3, <3>4, Balance
  <2>10. StillTyped
    BY <1>1, <1>2, <1>0, <1>3, <2>1, <2>2 DEF StillTyped, Types, load
  <2>11. Goes(p, j)
    BY <1>1, <1>2, <1>0, <1>3, <2>5, <2>6, <2>7, <2>8, <2>9, <2>10, MoveEnd
  <2> QED
    BY <2>3, <2>11 DEF From
<1>4. CASE dir[c[p].at][Head(c[p].path)] = 0
  <2>1. /\ c' = [c EXCEPT ![p] = Idle] /\ put' = [put EXCEPT ![p] = <<c[p].at, c[p].ip>>]
       /\ load(c[p].at) /\ dir' = [dir EXCEPT ![c[p].at][Head(c[p].path)] = c[p].ip]
       /\ UNCHANGED <<ref, lock, stage, cwd, file>>
    BY <1>0, <1>4 DEF link_parent, return, go, iputs, dirlookup, dirlink
  <2>2. /\ Idle \in Record /\ <<c[p].at, c[p].ip>> \in Seq(Inum)
        /\ cwd[p] \in Inum /\ file[p] \in 0..NINODES /\ 0 \in 0..NINODES
    <3>1. Idle \in Record
      BY IdleIs
    <3>2. /\ <<c[p].at, c[p].ip>> \in Seq(Inum) /\ cwd[p] \in Inum /\ file[p] \in 0..NINODES
          /\ 0 \in 0..NINODES
      BY <1>1, <1>2, <1>0, <1>4, FsAssumption DEF Inum
    <3> QED
      BY <3>1, <3>2
  <2>3. PICK x \in Record, s \in Seq(Inum), w \in Inum, h \in 0..NINODES, j \in 0..NINODES :
          x = Idle /\ s = <<c[p].at, c[p].ip>> /\ w = cwd[p] /\ h = file[p] /\ j = 0
    BY <2>2, Zenon
  <2>4. x.pc = "idle" /\ x.op = "none" /\ x.at = 0 /\ x.ip = 0
    BY <1>1, <1>2, <1>0, <1>4, <2>3, IdleIs DEF Record
  <2>5. Moves(p, x, s, w, h)
    BY <1>1, <1>2, <1>0, <1>4, <2>1, <2>3 DEF Moves, Types
  <2>6. Gets(j)
    BY <1>1, <1>2, <1>0, <1>4, <2>1, <2>3, GetsIs
  <2>7. Proper(x, s, "test", h)
    BY <1>1, <1>2, <1>0, <1>4, <2>3, <2>4 DEF Proper, Inum
  <2>8. LockStep(p, x)
    BY <1>1, <1>2, <1>0, <1>4, <2>1, <2>4 DEF LockStep
  <2>9. Balanced(p, x, s, w, h, j)
    <3>1. Nth(put[p], 1) = 0 /\ Nth(put[p], 2) = 0 /\ Nth(s, 1) = c[p].at /\ Nth(s, 2) = c[p].ip
      BY <1>1, <2>3, NthIs
    <3> QED
      BY <1>1, <1>2, <1>0, <1>4, <2>3, <2>4, <3>1, NthIs DEF Balanced, Own, Mine, Is
  <2>10. StillTyped
    BY <1>1, <1>2, <1>0, <1>4, <2>1, <2>2 DEF StillTyped, Types, load
  <2>11. Goes(p, j)
    BY <1>1, <1>2, <1>0, <1>4, <2>5, <2>6, <2>7, <2>8, <2>9, <2>10, MoveEnd
  <2> QED
    BY <2>3, <2>11 DEF From
<1> QED
  BY <1>3, <1>4

(* sys_unlink in the directory. *)
LEMMA UnlinkMove ==
  ASSUME MemInv, NEW p \in Proc, unlink_parent(p)
  PROVE  \E j \in From(p) : Goes(p, j)
PROOF
<1>1. put[p] = <<>> /\ c[p].pc = "parent" /\ c[p].op = "unlink"
  BY DEF unlink_parent, In
<1>2. /\ Types /\ Proper(c[p], put[p], stage[p], file[p]) /\ stage[p] = "test" /\ c[p] \in Record
      /\ cwd[p] \in Inum /\ file[p] \in 0..NINODES /\ c[p].at \in 0..NINODES
      /\ c[p].ip \in 0..NINODES
      /\ c[p].pc \in {"walk", "target", "parent", "child"} => c[p].at \in Inum
      /\ c[p].pc \in {"child", "link_bad"} => c[p].ip \in Inum
  BY <1>1, MoveBegin
<1>0. /\ c[p].ip = 0
      /\ Head(c[p].path) \in Elem /\ dir[c[p].at][Head(c[p].path)] \in 0..NINODES
      /\ dir[c[p].at][Head(c[p].path)] # 0 => dir[c[p].at][Head(c[p].path)] \in Inum
  <2>1. c[p].ip = 0
    BY <1>1, <1>2 DEF Proper, OfParent
  <2> QED
    BY <1>1, <2>1, Lookup
<1>3. CASE MayUnlink(Head(c[p].path)) /\ dir[c[p].at][Head(c[p].path)] # 0
  <2>1. /\ c' = [c EXCEPT ![p] = [c[p] EXCEPT !.pc = "child", !.ip = dir[c[p].at][Head(c[p].path)]]]
        /\ put' = [put EXCEPT ![p] = put[p]] /\ iget(dir[c[p].at][Head(c[p].path)])
       /\ load(c[p].at) /\ lock' = [lock EXCEPT ![c[p].at] = p] /\ lock[c[p].at] = NoProc
       /\ UNCHANGED <<dir, stage, cwd, file>>
    BY <1>2, <1>3 DEF unlink_parent, go, dirlookup, disk, CanLock, Unlocked, Types
  <2>2. /\ [c[p] EXCEPT !.pc = "child", !.ip = dir[c[p].at][Head(c[p].path)]] \in Record
        /\ <<>> \in Seq(Inum)
        /\ cwd[p] \in Inum /\ file[p] \in 0..NINODES /\ dir[c[p].at][Head(c[p].path)] \in 0..NINODES
    <3>1. [c[p] EXCEPT !.pc = "child", !.ip = dir[c[p].at][Head(c[p].path)]] \in Record
      BY <1>1, <1>2, <1>0, <1>3, IdleIs DEF Record, PCs
    <3>2. /\ <<>> \in Seq(Inum) /\ cwd[p] \in Inum /\ file[p] \in 0..NINODES
          /\ dir[c[p].at][Head(c[p].path)] \in 0..NINODES
      BY <1>1, <1>2, <1>0, <1>3, FsAssumption DEF Inum
    <3> QED
      BY <3>1, <3>2
  <2>3. PICK x \in Record, s \in Seq(Inum), w \in Inum, h \in 0..NINODES, j \in 0..NINODES :
          x = [c[p] EXCEPT !.pc = "child", !.ip = dir[c[p].at][Head(c[p].path)]] /\ s = <<>>
          /\ w = cwd[p] /\ h = file[p] /\ j = dir[c[p].at][Head(c[p].path)]
    BY <2>2, Zenon
  <2>4. x.pc = "child" /\ x.op = c[p].op /\ x.at = c[p].at /\ x.ip = dir[c[p].at][Head(c[p].path)]
        /\ x.path = c[p].path
    BY <1>1, <1>2, <1>0, <1>3, <2>3, IdleIs DEF Record
  <2>5. Moves(p, x, s, w, h)
    BY <1>1, <1>2, <1>0, <1>3, <2>1, <2>3 DEF Moves, Types
  <2>6. Gets(j)
    BY <1>1, <1>2, <1>0, <1>3, <2>1, <2>3, GetsIs DEF Inum
  <2>7. Proper(x, s, "test", h)
    BY <1>1, <1>2, <1>0, <1>3, <2>3, <2>4 DEF Proper, Inum, OfParent
  <2>8. LockStep(p, x)
    BY <1>1, <1>2, <1>0, <1>3, <2>1, <2>4 DEF LockStep
  <2>9. Balanced(p, x, s, w, h, j)
    <3>1. Nth(put[p], 1) = 0 /\ Nth(put[p], 2) = 0 /\ Nth(s, 1) = 0 /\ Nth(s, 2) = 0
      BY <1>1, <2>3, NthIs
    <3>2. PICK a : a = c[p].at
      OBVIOUS
    <3>3. /\ c[p].ip = 0 /\ x.at = a /\ x.ip = j /\ Nth(s, 1) = 0 /\ Nth(s, 2) = 0
          /\ w = cwd[p] /\ h = file[p]
      BY <1>0, <2>3, <2>4, <3>1, <3>2, Zenon
    <3>4. Even(a, j, 0, 0, a, 0, j)
      BY NthIs DEF Is, Even
    <3> QED
      BY <1>1, <3>2, <3>3, <3>4, Balance
  <2>10. StillTyped
    BY <1>1, <1>2, <1>0, <1>3, <2>1, <2>2 DEF StillTyped, Types, load
  <2>11. Goes(p, j)
    BY <1>1, <1>2, <1>0, <1>3, <2>5, <2>6, <2>7, <2>8, <2>9, <2>10, MoveEnd
  <2> QED
    BY <2>3, <2>11 DEF From
<1>4. CASE ~(MayUnlink(Head(c[p].path)) /\ dir[c[p].at][Head(c[p].path)] # 0)
  <2>1. /\ c' = [c EXCEPT ![p] = Idle] /\ put' = [put EXCEPT ![p] = <<c[p].at>>]
       /\ load(c[p].at) /\ UNCHANGED <<dir, ref, lock, stage, cwd, file>>
    BY <1>4 DEF unlink_parent, return, go, iputs, dirlookup, disk
  <2>2. /\ Idle \in Record /\ <<c[p].at>> \in Seq(Inum)
        /\ cwd[p] \in Inum /\ file[p] \in 0..NINODES /\ 0 \in 0..NINODES
    <3>1. Idle \in Record
      BY IdleIs
    <3>2. /\ <<c[p].at>> \in Seq(Inum) /\ cwd[p] \in Inum /\ file[p] \in 0..NINODES
          /\ 0 \in 0..NINODES
      BY <1>1, <1>2, <1>0, <1>4, FsAssumption DEF Inum
    <3> QED
      BY <3>1, <3>2
  <2>3. PICK x \in Record, s \in Seq(Inum), w \in Inum, h \in 0..NINODES, j \in 0..NINODES :
          x = Idle /\ s = <<c[p].at>> /\ w = cwd[p] /\ h = file[p] /\ j = 0
    BY <2>2, Zenon
  <2>4. x.pc = "idle" /\ x.op = "none" /\ x.at = 0 /\ x.ip = 0
    BY <1>1, <1>2, <1>0, <1>4, <2>3, IdleIs DEF Record
  <2>5. Moves(p, x, s, w, h)
    BY <1>1, <1>2, <1>0, <1>4, <2>1, <2>3 DEF Moves, Types
  <2>6. Gets(j)
    BY <1>1, <1>2, <1>0, <1>4, <2>1, <2>3, GetsIs
  <2>7. Proper(x, s, "test", h)
    BY <1>1, <1>2, <1>0, <1>4, <2>3, <2>4 DEF Proper, Inum
  <2>8. LockStep(p, x)
    BY <1>1, <1>2, <1>0, <1>4, <2>1, <2>4 DEF LockStep
  <2>9. Balanced(p, x, s, w, h, j)
    <3>1. Nth(put[p], 1) = 0 /\ Nth(put[p], 2) = 0 /\ Nth(s, 1) = c[p].at /\ Nth(s, 2) = 0
      BY <1>1, <2>3, NthIs
    <3> QED
      BY <1>1, <1>2, <1>0, <1>4, <2>3, <2>4, <3>1, NthIs DEF Balanced, Own, Mine, Is
  <2>10. StillTyped
    BY <1>1, <1>2, <1>0, <1>4, <2>1, <2>2 DEF StillTyped, Types, load
  <2>11. Goes(p, j)
    BY <1>1, <1>2, <1>0, <1>4, <2>5, <2>6, <2>7, <2>8, <2>9, <2>10, MoveEnd
  <2> QED
    BY <2>3, <2>11 DEF From
<1> QED
  BY <1>3, <1>4

(* sys_unlink at the entry. *)
LEMMA RemoveMove ==
  ASSUME MemInv, NEW p \in Proc, unlink_child(p)
  PROVE  Goes(p, 0)
PROOF
<1>1. put[p] = <<>> /\ c[p].pc = "child"
  BY DEF unlink_child, In
<1>2. /\ Types /\ Proper(c[p], put[p], stage[p], file[p]) /\ stage[p] = "test" /\ c[p] \in Record
      /\ cwd[p] \in Inum /\ file[p] \in 0..NINODES /\ c[p].at \in 0..NINODES
      /\ c[p].ip \in 0..NINODES
      /\ c[p].pc \in {"walk", "target", "parent", "child"} => c[p].at \in Inum
      /\ c[p].pc \in {"child", "link_bad"} => c[p].ip \in Inum
  BY <1>1, MoveBegin
<1>0. c[p].path \in Seq(Elem) /\ c[p].path # <<>> /\ Head(c[p].path) \in Elem
  BY <1>1, Lookup
<1>3. CASE Locked(c[p].ip).type = "dir" /\ ~isdirempty(c[p].ip)
  <2>1. /\ c' = [c EXCEPT ![p] = Idle] /\ put' = [put EXCEPT ![p] = <<c[p].ip, c[p].at>>]
        /\ UNCHANGED dir
       /\ valid' \in [Inum -> BOOLEAN] /\ lock' = [lock EXCEPT ![c[p].at] = NoProc]
       /\ UNCHANGED <<ref, stage, cwd, file>>
    BY <1>2, <1>3 DEF unlink_child, return, go, iputs, load, store, disk, iunlock, Types
  <2>2. /\ Idle \in Record /\ <<c[p].ip, c[p].at>> \in Seq(Inum)
        /\ cwd[p] \in Inum /\ file[p] \in 0..NINODES /\ 0 \in 0..NINODES
    <3>1. Idle \in Record
      BY IdleIs
    <3>2. /\ <<c[p].ip, c[p].at>> \in Seq(Inum) /\ cwd[p] \in Inum /\ file[p] \in 0..NINODES
          /\ 0 \in 0..NINODES
      BY <1>1, <1>2, <1>0, <1>3, FsAssumption DEF Inum
    <3> QED
      BY <3>1, <3>2
  <2>3. PICK x \in Record, s \in Seq(Inum), w \in Inum, h \in 0..NINODES, j \in 0..NINODES :
          x = Idle /\ s = <<c[p].ip, c[p].at>> /\ w = cwd[p] /\ h = file[p] /\ j = 0
    BY <2>2, Zenon
  <2>4. x.pc = "idle" /\ x.op = "none" /\ x.at = 0 /\ x.ip = 0
    BY <1>1, <1>2, <1>0, <1>3, <2>3, IdleIs DEF Record
  <2>5. Moves(p, x, s, w, h)
    BY <1>1, <1>2, <1>0, <1>3, <2>1, <2>3 DEF Moves, Types
  <2>6. Gets(j)
    BY <1>1, <1>2, <1>0, <1>3, <2>1, <2>3, GetsIs
  <2>7. Proper(x, s, "test", h)
    BY <1>1, <1>2, <1>0, <1>3, <2>3, <2>4 DEF Proper, Inum
  <2>8. LockStep(p, x)
    BY <1>1, <1>2, <1>0, <1>3, <2>1, <2>4 DEF LockStep
  <2>9. Balanced(p, x, s, w, h, j)
    <3>1. Nth(put[p], 1) = 0 /\ Nth(put[p], 2) = 0 /\ Nth(s, 1) = c[p].ip /\ Nth(s, 2) = c[p].at
      BY <1>1, <2>3, NthIs
    <3> QED
      BY <1>1, <1>2, <1>0, <1>3, <2>3, <2>4, <3>1, NthIs DEF Balanced, Own, Mine, Is
  <2>10. StillTyped
    BY <1>1, <1>2, <1>0, <1>3, <2>1, <2>2 DEF StillTyped, Types
  <2>11. Goes(p, j)
    BY <1>1, <1>2, <1>0, <1>3, <2>5, <2>6, <2>7, <2>8, <2>9, <2>10, MoveEnd
  <2> QED
    BY <2>3, <2>11
<1>4. CASE ~(Locked(c[p].ip).type = "dir" /\ ~isdirempty(c[p].ip))
  <2>1. /\ c' = [c EXCEPT ![p] = Idle] /\ put' = [put EXCEPT ![p] = <<c[p].at, c[p].ip>>]
        /\ dir' = [dir EXCEPT ![c[p].at][Head(c[p].path)] = 0]
       /\ valid' \in [Inum -> BOOLEAN] /\ lock' = [lock EXCEPT ![c[p].at] = NoProc]
       /\ UNCHANGED <<ref, stage, cwd, file>>
    <3>1. /\ c' = [c EXCEPT ![p] = Idle] /\ put' = [put EXCEPT ![p] = <<c[p].at, c[p].ip>>]
          /\ dir' = [dir EXCEPT ![c[p].at][Head(c[p].path)] = 0]
          /\ lock' = [lock EXCEPT ![c[p].at] = NoProc] /\ UNCHANGED <<ref, stage, cwd, file>>
      BY <1>4 DEF unlink_child, return, go, iputs, iunlock
    <3>2. store([k \in {c[p].at, c[p].ip} |-> Unlinked(c[p].at, c[p].ip, k)])
      BY <1>4 DEF unlink_child
    <3>3. valid' \in [Inum -> BOOLEAN]
      BY <1>2, <3>2 DEF store, Types
    <3> QED
      BY <3>1, <3>3
  <2>2. /\ Idle \in Record /\ <<c[p].at, c[p].ip>> \in Seq(Inum)
        /\ cwd[p] \in Inum /\ file[p] \in 0..NINODES /\ 0 \in 0..NINODES
    <3>1. Idle \in Record
      BY IdleIs
    <3>2. /\ <<c[p].at, c[p].ip>> \in Seq(Inum) /\ cwd[p] \in Inum /\ file[p] \in 0..NINODES
          /\ 0 \in 0..NINODES
      BY <1>1, <1>2, <1>0, <1>4, FsAssumption DEF Inum
    <3> QED
      BY <3>1, <3>2
  <2>3. PICK x \in Record, s \in Seq(Inum), w \in Inum, h \in 0..NINODES, j \in 0..NINODES :
          x = Idle /\ s = <<c[p].at, c[p].ip>> /\ w = cwd[p] /\ h = file[p] /\ j = 0
    BY <2>2, Zenon
  <2>4. x.pc = "idle" /\ x.op = "none" /\ x.at = 0 /\ x.ip = 0
    BY <1>1, <1>2, <1>0, <1>4, <2>3, IdleIs DEF Record
  <2>5. Moves(p, x, s, w, h)
    BY <1>1, <1>2, <1>0, <1>4, <2>1, <2>3 DEF Moves, Types
  <2>6. Gets(j)
    BY <1>1, <1>2, <1>0, <1>4, <2>1, <2>3, GetsIs
  <2>7. Proper(x, s, "test", h)
    BY <1>1, <1>2, <1>0, <1>4, <2>3, <2>4 DEF Proper, Inum
  <2>8. LockStep(p, x)
    BY <1>1, <1>2, <1>0, <1>4, <2>1, <2>4 DEF LockStep
  <2>9. Balanced(p, x, s, w, h, j)
    <3>1. Nth(put[p], 1) = 0 /\ Nth(put[p], 2) = 0 /\ Nth(s, 1) = c[p].at /\ Nth(s, 2) = c[p].ip
      BY <1>1, <2>3, NthIs
    <3> QED
      BY <1>1, <1>2, <1>0, <1>4, <2>3, <2>4, <3>1, NthIs DEF Balanced, Own, Mine, Is
  <2>10. StillTyped
    BY <1>1, <1>2, <1>0, <1>4, <2>1, <2>2 DEF StillTyped, Types
  <2>11. Goes(p, j)
    BY <1>1, <1>2, <1>0, <1>4, <2>5, <2>6, <2>7, <2>8, <2>9, <2>10, MoveEnd
  <2> QED
    BY <2>3, <2>11
<1> QED
  BY <1>3, <1>4

(* create in the directory. *)
LEMMA CreateMove ==
  ASSUME MemInv, NEW p \in Proc, create_parent(p)
  PROVE  (\E j \in From(p) : Goes(p, j)) \/ (FreeInodes # {} /\ Goes(p, ialloc))
PROOF
<1>1. put[p] = <<>> /\ c[p].pc = "parent" /\ c[p].op \in {"create", "mkdir", "mknod"}
  BY DEF create_parent, In
<1>2. /\ Types /\ Proper(c[p], put[p], stage[p], file[p]) /\ stage[p] = "test" /\ c[p] \in Record
      /\ cwd[p] \in Inum /\ file[p] \in 0..NINODES /\ c[p].at \in 0..NINODES
      /\ c[p].ip \in 0..NINODES
      /\ c[p].pc \in {"walk", "target", "parent", "child"} => c[p].at \in Inum
      /\ c[p].pc \in {"child", "link_bad"} => c[p].ip \in Inum
  BY <1>1, MoveBegin
<1>0. /\ c[p].ip = 0
      /\ Head(c[p].path) \in Elem /\ dir[c[p].at][Head(c[p].path)] \in 0..NINODES
      /\ dir[c[p].at][Head(c[p].path)] # 0 => dir[c[p].at][Head(c[p].path)] \in Inum
  <2>1. c[p].ip = 0
    BY <1>1, <1>2 DEF Proper, OfParent
  <2> QED
    BY <1>1, <2>1, Lookup
<1>3. CASE dir[c[p].at][Head(c[p].path)] # 0
  <2>1. /\ c' = [c EXCEPT ![p] = [c[p] EXCEPT !.pc = "target",
                !.at = dir[c[p].at][Head(c[p].path)], !.path = <<>>]]
        /\ put' = [put EXCEPT ![p] = <<c[p].at>>]
       /\ load(c[p].at) /\ iget(dir[c[p].at][Head(c[p].path)])
       /\ UNCHANGED <<dir, lock, stage, cwd, file>>
    BY <1>3 DEF create_parent, go, iputs, dirlookup
  <2>2. /\ [c[p] EXCEPT !.pc = "target", !.at = dir[c[p].at][Head(c[p].path)],
                !.path = <<>>] \in Record
        /\ <<c[p].at>> \in Seq(Inum)
        /\ cwd[p] \in Inum /\ file[p] \in 0..NINODES /\ dir[c[p].at][Head(c[p].path)] \in 0..NINODES
    <3>1. [c[p] EXCEPT !.pc = "target", !.at = dir[c[p].at][Head(c[p].path)],
                  !.path = <<>>] \in Record
      BY <1>1, <1>2, <1>0, <1>3, IdleIs DEF Record, PCs
    <3>2. /\ <<c[p].at>> \in Seq(Inum) /\ cwd[p] \in Inum /\ file[p] \in 0..NINODES
          /\ dir[c[p].at][Head(c[p].path)] \in 0..NINODES
      BY <1>1, <1>2, <1>0, <1>3, FsAssumption DEF Inum
    <3> QED
      BY <3>1, <3>2
  <2>3. PICK x \in Record, s \in Seq(Inum), w \in Inum, h \in 0..NINODES, j \in 0..NINODES :
          x = [c[p] EXCEPT !.pc = "target", !.at = dir[c[p].at][Head(c[p].path)], !.path = <<>>]
          /\ s = <<c[p].at>> /\ w = cwd[p] /\ h = file[p] /\ j = dir[c[p].at][Head(c[p].path)]
    BY <2>2, Zenon
  <2>4. x.pc = "target" /\ x.op = c[p].op /\ x.at = dir[c[p].at][Head(c[p].path)] /\ x.ip = c[p].ip
    BY <1>1, <1>2, <1>0, <1>3, <2>3, IdleIs DEF Record
  <2>5. Moves(p, x, s, w, h)
    BY <1>1, <1>2, <1>0, <1>3, <2>1, <2>3 DEF Moves, Types
  <2>6. Gets(j)
    BY <1>1, <1>2, <1>0, <1>3, <2>1, <2>3, GetsIs DEF Inum
  <2>7. Proper(x, s, "test", h)
    <3>1. Len(s) <= 2 /\ h = file[p] /\ x.pc = "target" /\ x.ip = 0
      BY <1>0, <2>3, <2>4
    <3>2. x.at # 0
      BY <1>3, <2>4, Zenon
    <3>3. x.op \in {"open", "create"} => h = 0
      <4>1. c[p].op \in {"open", "create"} => file[p] = 0
        BY <1>2 DEF Proper
      <4> QED
        BY <2>4, <3>1, <4>1
    <3> QED
      BY <3>1, <3>2, <3>3 DEF Proper
  <2>8. LockStep(p, x)
    BY <1>1, <1>2, <1>0, <1>3, <2>1, <2>4 DEF LockStep
  <2>9. Balanced(p, x, s, w, h, j)
    <3>1. Nth(put[p], 1) = 0 /\ Nth(put[p], 2) = 0 /\ Nth(s, 1) = c[p].at /\ Nth(s, 2) = 0
      BY <1>1, <2>3, NthIs
    <3>2. PICK a, b : a = c[p].at /\ b = c[p].ip
      OBVIOUS
    <3>3. x.at = j /\ x.ip = b /\ Nth(s, 1) = a /\ Nth(s, 2) = 0 /\ w = cwd[p] /\ h = file[p]
      BY <2>3, <2>4, <3>1, <3>2, Zenon
    <3>4. Even(j, b, a, 0, a, b, j)
      BY NthIs DEF Is, Even
    <3> QED
      BY <1>1, <3>2, <3>3, <3>4, Balance
  <2>10. StillTyped
    BY <1>1, <1>2, <1>0, <1>3, <2>1, <2>2 DEF StillTyped, Types, load
  <2>11. Goes(p, j)
    BY <1>1, <1>2, <1>0, <1>3, <2>5, <2>6, <2>7, <2>8, <2>9, <2>10, MoveEnd
  <2> QED
    BY <2>3, <2>11 DEF From
<1>4. CASE dir[c[p].at][Head(c[p].path)] = 0 /\ FreeInodes = {}
  <2>1. /\ c' = [c EXCEPT ![p] = c[p]] /\ put' = [put EXCEPT ![p] = put[p]]
       /\ load(c[p].at) /\ UNCHANGED <<dir, ref, lock, stage, cwd, file>>
    BY <1>2, <1>4 DEF create_parent, dirlookup, Types
  <2>2. /\ c[p] \in Record /\ <<>> \in Seq(Inum)
        /\ cwd[p] \in Inum /\ file[p] \in 0..NINODES /\ 0 \in 0..NINODES
    <3>1. c[p] \in Record
      BY <1>1, <1>2, <1>0, <1>4, IdleIs DEF Record, PCs
    <3>2. /\ <<>> \in Seq(Inum) /\ cwd[p] \in Inum /\ file[p] \in 0..NINODES /\ 0 \in 0..NINODES
      BY <1>1, <1>2, <1>0, <1>4, FsAssumption DEF Inum
    <3> QED
      BY <3>1, <3>2
  <2>3. PICK x \in Record, s \in Seq(Inum), w \in Inum, h \in 0..NINODES, j \in 0..NINODES :
          x = c[p] /\ s = <<>> /\ w = cwd[p] /\ h = file[p] /\ j = 0
    BY <2>2, Zenon
  <2>4. x.pc = "parent" /\ x.op = c[p].op /\ x.at = c[p].at /\ x.ip = c[p].ip /\ x.path = c[p].path
    BY <1>1, <1>2, <1>0, <1>4, <2>3, IdleIs DEF Record
  <2>5. Moves(p, x, s, w, h)
    BY <1>1, <1>2, <1>0, <1>4, <2>1, <2>3 DEF Moves, Types
  <2>6. Gets(j)
    BY <1>1, <1>2, <1>0, <1>4, <2>1, <2>3, GetsIs
  <2>7. Proper(x, s, "test", h)
    BY <1>1, <1>2, <1>0, <1>4, <2>3, <2>4 DEF Proper, Inum, OfParent
  <2>8. LockStep(p, x)
    BY <1>1, <1>2, <1>0, <1>4, <2>1, <2>4 DEF LockStep
  <2>9. Balanced(p, x, s, w, h, j)
    <3>1. Nth(put[p], 1) = 0 /\ Nth(put[p], 2) = 0 /\ Nth(s, 1) = 0 /\ Nth(s, 2) = 0
      BY <1>1, <2>3, NthIs
    <3> QED
      BY <1>1, <1>2, <1>0, <1>4, <2>3, <2>4, <3>1, NthIs DEF Balanced, Own, Mine, Is
  <2>10. StillTyped
    BY <1>1, <1>2, <1>0, <1>4, <2>1, <2>2 DEF StillTyped, Types, load
  <2>11. Goes(p, j)
    BY <1>1, <1>2, <1>0, <1>4, <2>5, <2>6, <2>7, <2>8, <2>9, <2>10, MoveEnd
  <2> QED
    BY <2>3, <2>11 DEF From
<1>5. CASE dir[c[p].at][Head(c[p].path)] = 0 /\ FreeInodes # {}
  <2>0. ialloc \in Inum
    <3>1. FreeInodes \in SUBSET Nat /\ FreeInodes \subseteq Inum
      BY FsAssumption DEF FreeInodes, Inum
    <3> QED
      BY <1>5, <3>1, MinIn DEF ialloc
  <2>1. /\ c' = [c EXCEPT ![p] = [c[p] EXCEPT !.pc = "child", !.ip = ialloc]]
        /\ put' = [put EXCEPT ![p] = put[p]] /\ iget(ialloc)
       /\ load(c[p].at) /\ lock' = [lock EXCEPT ![c[p].at] = p] /\ lock[c[p].at] = NoProc
       /\ UNCHANGED <<dir, stage, cwd, file>>
    BY <1>2, <1>5 DEF create_parent, go, dirlookup, CanLock, Unlocked, Types
  <2>2. /\ [c[p] EXCEPT !.pc = "child", !.ip = ialloc] \in Record /\ <<>> \in Seq(Inum)
        /\ cwd[p] \in Inum /\ file[p] \in 0..NINODES /\ ialloc \in 0..NINODES
    <3>1. [c[p] EXCEPT !.pc = "child", !.ip = ialloc] \in Record
      <4>1. PICK k \in 0..NINODES : k = ialloc
        BY <2>0 DEF Inum
      <4>2. [c[p] EXCEPT !.pc = "child", !.ip = k] \in Record
        BY <1>2 DEF Record, PCs
      <4> QED
        BY <4>1, <4>2
    <3>2. /\ <<>> \in Seq(Inum) /\ cwd[p] \in Inum /\ file[p] \in 0..NINODES
          /\ ialloc \in 0..NINODES
      BY <1>1, <1>2, <1>0, <1>5, <2>0, FsAssumption DEF Inum
    <3> QED
      BY <3>1, <3>2
  <2>3. PICK x \in Record, s \in Seq(Inum), w \in Inum, h \in 0..NINODES, j \in 0..NINODES :
          x = [c[p] EXCEPT !.pc = "child", !.ip = ialloc] /\ s = <<>> /\ w = cwd[p] /\ h = file[p]
          /\ j = ialloc
    BY <2>2, Zenon
  <2>4. x.pc = "child" /\ x.op = c[p].op /\ x.at = c[p].at /\ x.ip = ialloc /\ x.path = c[p].path
    BY <1>1, <1>2, <1>0, <1>5, <2>0, <2>3, IdleIs DEF Record
  <2>5. Moves(p, x, s, w, h)
    BY <1>1, <1>2, <1>0, <1>5, <2>0, <2>1, <2>3 DEF Moves, Types
  <2>6. Gets(j)
    BY <1>1, <1>2, <1>0, <1>5, <2>0, <2>1, <2>3, GetsIs
  <2>7. Proper(x, s, "test", h)
    BY <1>1, <1>2, <1>0, <1>5, <2>0, <2>3, <2>4 DEF Proper, Inum, OfParent
  <2>8. LockStep(p, x)
    BY <1>1, <1>2, <1>0, <1>5, <2>0, <2>1, <2>4 DEF LockStep
  <2>9. Balanced(p, x, s, w, h, j)
    <3>1. Nth(put[p], 1) = 0 /\ Nth(put[p], 2) = 0 /\ Nth(s, 1) = 0 /\ Nth(s, 2) = 0
      BY <1>1, <2>3, NthIs
    <3> QED
      BY <1>1, <1>2, <1>0, <1>5, <2>0, <2>3, <2>4, <3>1, NthIs DEF Balanced, Own, Mine, Is
  <2>10. StillTyped
    BY <1>1, <1>2, <1>0, <1>5, <2>0, <2>1, <2>2 DEF StillTyped, Types, load
  <2>11. Goes(p, j)
    BY <1>1, <1>2, <1>0, <1>5, <2>0, <2>5, <2>6, <2>7, <2>8, <2>9, <2>10, MoveEnd
  <2> QED
    BY <2>3, <2>11, <1>5
<1> QED
  BY <1>3, <1>4, <1>5

(* create at the new inode. *)
LEMMA MakeMove ==
  ASSUME MemInv, NEW p \in Proc, create_child(p)
  PROVE  Goes(p, 0)
PROOF
<1>1. put[p] = <<>> /\ c[p].pc = "child"
  BY DEF create_child, In
<1>2. /\ Types /\ Proper(c[p], put[p], stage[p], file[p]) /\ stage[p] = "test" /\ c[p] \in Record
      /\ cwd[p] \in Inum /\ file[p] \in 0..NINODES /\ c[p].at \in 0..NINODES
      /\ c[p].ip \in 0..NINODES
      /\ c[p].pc \in {"walk", "target", "parent", "child"} => c[p].at \in Inum
      /\ c[p].pc \in {"child", "link_bad"} => c[p].ip \in Inum
  BY <1>1, MoveBegin
<1>0. /\ c[p].path \in Seq(Elem) /\ c[p].path # <<>> /\ Head(c[p].path) \in Elem
      /\ c[p].op \in {"open", "create"} => file[p] = 0
  <2>1. c[p].op \in {"open", "create"} => file[p] = 0
    BY <1>2 DEF Proper
  <2> QED
    BY <1>1, <2>1, Lookup
<1>3. dir' \in [Inum -> [Elem -> 0..NINODES]]
  <2>1. "." \in Elem /\ ".." \in Elem
    BY DEF Elem, Dots
  <2>2. PICK i \in Inum, d \in Inum, e \in Elem : i = c[p].ip /\ d = c[p].at /\ e = Head(c[p].path)
    BY <1>0, <1>1, <1>2
  <2>3. PICK u \in [Inum -> [Elem -> 0..NINODES]] : u = dirlink(dir, i, ".", i)
    <3>1. dir \in [Inum -> [Elem -> 0..NINODES]] /\ i \in 0..NINODES
      BY <1>2 DEF Types, Inum
    <3> QED
      BY <2>1, <3>1, DirlinkIs
  <2>4. PICK v \in [Inum -> [Elem -> 0..NINODES]] : v = dirlink(u, i, "..", d)
    <3>1. d \in 0..NINODES
      BY DEF Inum
    <3> QED
      BY <2>1, <3>1, DirlinkIs
  <2>5. PICK t \in [Inum -> [Elem -> 0..NINODES]] : t = IF c[p].op = "mkdir" THEN v ELSE dir
    BY <1>2 DEF Types
  <2>6. dir' = dirlink(t, d, e, i)
    BY <2>2, <2>3, <2>4, <2>5 DEF create_child
  <2>7. i \in 0..NINODES
    BY DEF Inum
  <2> QED
    BY <2>6, <2>7, DirlinkIs
<1>4. \/ c[p].op = "create" /\ file' = [file EXCEPT ![p] = c[p].ip]
         /\ put' = [put EXCEPT ![p] = <<c[p].at>>]
      \/ put' = [put EXCEPT ![p] = <<c[p].at, c[p].ip>>] /\ UNCHANGED file
  BY DEF create_child, iputs
<1>5. CASE c[p].op = "create" /\ file' = [file EXCEPT ![p] = c[p].ip]
           /\ put' = [put EXCEPT ![p] = <<c[p].at>>]
  <2>1. /\ c' = [c EXCEPT ![p] = Idle]
       /\ valid' \in [Inum -> BOOLEAN] /\ lock' = [lock EXCEPT ![c[p].at] = NoProc]
       /\ UNCHANGED <<ref, stage, cwd>>
    BY <1>2, <1>5 DEF create_child, return, go, store, iunlock, Types
  <2>2. /\ Idle \in Record /\ <<c[p].at>> \in Seq(Inum)
        /\ cwd[p] \in Inum /\ c[p].ip \in 0..NINODES /\ 0 \in 0..NINODES
    <3>1. Idle \in Record
      BY IdleIs
    <3>2. /\ <<c[p].at>> \in Seq(Inum) /\ cwd[p] \in Inum /\ c[p].ip \in 0..NINODES
          /\ 0 \in 0..NINODES
      BY <1>1, <1>2, <1>0, <1>5, FsAssumption DEF Inum
    <3> QED
      BY <3>1, <3>2
  <2>3. PICK x \in Record, s \in Seq(Inum), w \in Inum, h \in 0..NINODES, j \in 0..NINODES :
          x = Idle /\ s = <<c[p].at>> /\ w = cwd[p] /\ h = c[p].ip /\ j = 0
    BY <2>2, Zenon
  <2>4. x.pc = "idle" /\ x.op = "none" /\ x.at = 0 /\ x.ip = 0
    BY <1>1, <1>2, <1>0, <1>5, <2>3, IdleIs DEF Record
  <2>5. Moves(p, x, s, w, h)
    BY <1>1, <1>2, <1>0, <1>5, <2>1, <2>3 DEF Moves, Types
  <2>6. Gets(j)
    BY <1>1, <1>2, <1>0, <1>5, <2>1, <2>3, GetsIs
  <2>7. Proper(x, s, "test", h)
    BY <1>1, <1>2, <1>0, <1>5, <2>3, <2>4 DEF Proper, Inum
  <2>8. LockStep(p, x)
    BY <1>1, <1>2, <1>0, <1>5, <2>1, <2>4 DEF LockStep
  <2>9. Balanced(p, x, s, w, h, j)
    <3>1. Nth(put[p], 1) = 0 /\ Nth(put[p], 2) = 0 /\ Nth(s, 1) = c[p].at /\ Nth(s, 2) = 0
      BY <1>1, <2>3, NthIs
    <3> QED
      BY <1>1, <1>2, <1>0, <1>5, <2>3, <2>4, <3>1, NthIs DEF Balanced, Own, Mine, Is
  <2>10. StillTyped
    BY <1>3, <1>1, <1>2, <1>0, <1>5, <2>1, <2>2 DEF StillTyped, Types
  <2>11. Goes(p, j)
    BY <1>1, <1>2, <1>0, <1>5, <2>5, <2>6, <2>7, <2>8, <2>9, <2>10, MoveEnd
  <2> QED
    BY <2>3, <2>11
<1>6. CASE put' = [put EXCEPT ![p] = <<c[p].at, c[p].ip>>] /\ UNCHANGED file
  <2>1. /\ c' = [c EXCEPT ![p] = Idle]
       /\ valid' \in [Inum -> BOOLEAN] /\ lock' = [lock EXCEPT ![c[p].at] = NoProc]
       /\ UNCHANGED <<ref, stage, cwd>>
    BY <1>2, <1>6 DEF create_child, return, go, store, iunlock, Types
  <2>2. /\ Idle \in Record /\ <<c[p].at, c[p].ip>> \in Seq(Inum)
        /\ cwd[p] \in Inum /\ file[p] \in 0..NINODES /\ 0 \in 0..NINODES
    <3>1. Idle \in Record
      BY IdleIs
    <3>2. /\ <<c[p].at, c[p].ip>> \in Seq(Inum) /\ cwd[p] \in Inum /\ file[p] \in 0..NINODES
          /\ 0 \in 0..NINODES
      BY <1>1, <1>2, <1>0, <1>6, FsAssumption DEF Inum
    <3> QED
      BY <3>1, <3>2
  <2>3. PICK x \in Record, s \in Seq(Inum), w \in Inum, h \in 0..NINODES, j \in 0..NINODES :
          x = Idle /\ s = <<c[p].at, c[p].ip>> /\ w = cwd[p] /\ h = file[p] /\ j = 0
    BY <2>2, Zenon
  <2>4. x.pc = "idle" /\ x.op = "none" /\ x.at = 0 /\ x.ip = 0
    BY <1>1, <1>2, <1>0, <1>6, <2>3, IdleIs DEF Record
  <2>5. Moves(p, x, s, w, h)
    BY <1>1, <1>2, <1>0, <1>6, <2>1, <2>3 DEF Moves, Types
  <2>6. Gets(j)
    BY <1>1, <1>2, <1>0, <1>6, <2>1, <2>3, GetsIs
  <2>7. Proper(x, s, "test", h)
    BY <1>1, <1>2, <1>0, <1>6, <2>3, <2>4 DEF Proper, Inum
  <2>8. LockStep(p, x)
    BY <1>1, <1>2, <1>0, <1>6, <2>1, <2>4 DEF LockStep
  <2>9. Balanced(p, x, s, w, h, j)
    <3>1. Nth(put[p], 1) = 0 /\ Nth(put[p], 2) = 0 /\ Nth(s, 1) = c[p].at /\ Nth(s, 2) = c[p].ip
      BY <1>1, <2>3, NthIs
    <3> QED
      BY <1>1, <1>2, <1>0, <1>6, <2>3, <2>4, <3>1, NthIs DEF Balanced, Own, Mine, Is
  <2>10. StillTyped
    BY <1>3, <1>1, <1>2, <1>0, <1>6, <2>1, <2>2 DEF StillTyped, Types
  <2>11. Goes(p, j)
    BY <1>1, <1>2, <1>0, <1>6, <2>5, <2>6, <2>7, <2>8, <2>9, <2>10, MoveEnd
  <2> QED
    BY <2>3, <2>11
<1> QED
  BY <1>4, <1>5, <1>6

-----------------------------------------------------------------------------
(* The steps of iput *)

(* The pointer that iput gives up. *)
LEMMA PutHead ==
  ASSUME Types, Control, NEW p \in Proc, put[p] # <<>>
  PROVE  /\ Head(put[p]) \in Inum /\ Nth(put[p], 1) = Head(put[p])
         /\ Tail(put[p]) \in Seq(Inum) /\ Len(Tail(put[p])) <= 1
         /\ Nth(Tail(put[p]), 1) = Nth(put[p], 2) /\ Nth(Tail(put[p]), 2) = 0
         /\ Mine(p, Head(put[p])) \in Nat /\ Mine(p, Head(put[p])) > 0
PROOF
<1>1. PICK s \in Seq(Inum) : s = put[p]
  BY DEF Types
<1>2. Len(s) \in Nat /\ Len(s) <= 2 /\ s # <<>>
  BY <1>1 DEF Control, Proper
<1>3. Len(s) >= 1 /\ Head(s) = s[1] /\ Head(s) \in Inum
  BY <1>2
<1>4. Tail(s) \in Seq(Inum) /\ Len(Tail(s)) = Len(s) - 1
  BY <1>2
<1>5. Len(s) = 2 => Tail(s)[1] = s[2]
  BY <1>2
<1>6. Nth(s, 1) = Head(s) /\ Nth(Tail(s), 2) = 0 /\ Nth(Tail(s), 1) = Nth(s, 2)
  BY <1>2, <1>3, <1>4, <1>5 DEF Nth
<1>7. Is(Nth(put[p], 1), Head(put[p])) = 1 /\ \A a, b : Is(a, b) \in Nat
  BY <1>1, <1>6 DEF Is
<1>8. Mine(p, Head(put[p])) \in Nat /\ Mine(p, Head(put[p])) > 0
  BY <1>7 DEF Mine, Own
<1> QED
  BY <1>1, <1>2, <1>3, <1>4, <1>6, <1>8

(* The process gives up the pointer. *)
Drops(p) ==
  /\ put[p] # <<>> /\ Drop(p, Head(put[p])) /\ valid' \in [Inum -> BOOLEAN]
  /\ UNCHANGED <<dir, lock, c, cwd, file>>

LEMMA DropEffect ==
  ASSUME MemInv, NEW p \in Proc, Drops(p)
  PROVE  /\ MemInv' /\ Others(p) /\ stage'[p] = "test" /\ put'[p] = Tail(put[p])
         /\ \A i \in Inum : /\ Mine(p, i)' = Mine(p, i) - Is(Head(put[p]), i)
                            /\ ref'[i] = ref[i] - Is(Head(put[p]), i)
         /\ \A q \in Proc : q # p => \A i \in Inum : Mine(q, i)' = Mine(q, i)
PROOF
<1>1. Types /\ Control /\ RefCounts /\ Locks /\ put[p] # <<>>
  BY DEF MemInv, Drops
<1>2. PICK h \in Inum, s \in Seq(Inum) : h = Head(put[p]) /\ s = Tail(put[p])
  BY <1>1, PutHead
<1>3. /\ Nth(put[p], 1) = h /\ Len(s) <= 1 /\ Nth(s, 1) = Nth(put[p], 2) /\ Nth(s, 2) = 0
      /\ Mine(p, h) \in Nat /\ Mine(p, h) > 0
  BY <1>1, <1>2, PutHead
<1>4. /\ ref' = [ref EXCEPT ![h] = @ - 1] /\ put' = [put EXCEPT ![p] = s]
      /\ stage' = [stage EXCEPT ![p] = "test"] /\ valid' \in [Inum -> BOOLEAN]
      /\ UNCHANGED <<dir, lock, c, cwd, file>>
  BY <1>2 DEF Drops, Drop
<1>5. ref[h] \in Nat /\ ref[h] > 0
  BY <1>1, <1>2, <1>3, Pointed DEF Types
<1>6. Types'
  <2>1. ref' \in [Inum -> Nat]
    BY <1>1, <1>4, <1>5 DEF Types
  <2>2. put' \in [Proc -> Seq(Inum)] /\ stage' \in [Proc -> {"test", "free", "clear"}]
    BY <1>1, <1>4 DEF Types
  <2> QED
    BY <1>1, <1>4, <2>1, <2>2 DEF Types
<1>7. Others(p) /\ stage'[p] = "test" /\ put'[p] = s
  BY <1>1, <1>4 DEF Types, Others
<1>8. \A i \in Inum : Mine(p, i)' = Mine(p, i) - Is(h, i)
  <2>1. ASSUME NEW i \in Inum
        PROVE  Mine(p, i)' = Mine(p, i) - Is(h, i)
    <3>1. Mine(p, i) = Is(cwd[p], i) + Is(file[p], i) + Is(c[p].at, i) + Is(c[p].ip, i)
                       + Is(h, i) + Is(Nth(put[p], 2), i)
      BY <1>3 DEF Mine, Own
    <3>2. Mine(p, i)' = Is(cwd[p], i) + Is(file[p], i) + Is(c[p].at, i) + Is(c[p].ip, i)
                       + Is(Nth(put[p], 2), i) + Is(0, i)
      <4>1. Mine(p, i)' = Own(cwd[p], file[p], c[p], s, i)
        BY <1>4, <1>7 DEF Mine, Own, Nth, Is
      <4> QED
        BY <1>3, <4>1 DEF Own
    <3>3. Is(0, i) = 0 /\ \A a, b : Is(a, b) \in Nat
      BY DEF Is, Inum
    <3> QED
      BY <3>1, <3>2, <3>3
  <2> QED
    BY <2>1
<1>9. \A i \in Inum : ref'[i] = ref[i] - Is(h, i)
  BY <1>1, <1>4 DEF Is, Types
<1>10. \A i \in Inum : ref'[i] - Mine(p, i)' = ref[i] - Mine(p, i)
  <2>1. \A i \in Inum : ref[i] \in Nat /\ Mine(p, i) \in Nat /\ Is(h, i) \in Nat
    BY <1>1, PointersOne DEF Types, Is
  <2> QED
    BY <1>8, <1>9, <2>1
<1>11. Locks'
  BY <1>1, <1>4 DEF Locks
<1>12. Proper(c[p], put[p], stage[p], file[p])'
  <2>1. Proper(c[p], put[p], stage[p], file[p])
    BY <1>1 DEF Control
  <2>2. Proper(c[p], s, "test", file[p])
    BY <1>1, <1>3, <2>1 DEF Proper
  <2> QED
    BY <1>4, <1>7, <2>2 DEF Proper
<1>13. MemInv'
  BY <1>6, <1>7, <1>10, <1>11, <1>12, MemLocal
<1>14. \A q \in Proc : q # p => \A i \in Inum : Mine(q, i)' = Mine(q, i)
  <2>1. ASSUME NEW q \in Proc, q # p
        PROVE  \A i \in Inum : Mine(q, i)' = Mine(q, i)
    <3>1. c'[q] = c[q] /\ put'[q] = put[q] /\ cwd'[q] = cwd[q] /\ file'[q] = file[q]
      BY <1>7, <2>1 DEF Others
    <3> QED
      BY <3>1 DEF Mine, Own, Nth, Is
  <2> QED
    BY <2>1
<1> QED
  BY <1>2, <1>7, <1>8, <1>9, <1>13, <1>14

(* The process goes on within iput. *)
Stays(p) ==
  /\ put[p] # <<>> /\ stage' \in [Proc -> {"test", "free", "clear"}]
  /\ \A q \in Proc : q # p => stage'[q] = stage[q]
  /\ dir' \in [Inum -> [Elem -> 0..NINODES]]
  /\ UNCHANGED <<valid, ref, lock, c, put, cwd, file>>

LEMMA StayEffect ==
  ASSUME MemInv, NEW p \in Proc, Stays(p)
  PROVE  /\ MemInv' /\ Others(p)
         /\ \A q \in Proc, i \in Inum : Mine(q, i)' = Mine(q, i)
PROOF
<1>1. Types /\ Control /\ RefCounts /\ Locks
  BY DEF MemInv
<1>2. Types' /\ Others(p)
  BY <1>1 DEF Stays, Types, Others
<1>3. \A q \in Proc, i \in Inum : Mine(q, i)' = Mine(q, i)
  BY DEF Stays, Mine, Own, Is, Nth
<1>4. Proper(c[p], put[p], stage[p], file[p])'
  <2>1. Proper(c[p], put[p], stage[p], file[p])
    BY <1>1 DEF Control
  <2> QED
    BY <2>1 DEF Proper, Stays
<1>5. \A i \in Inum : ref'[i] - Mine(p, i)' = ref[i] - Mine(p, i)
  BY <1>3 DEF Stays
<1>6. Locks'
  BY <1>1 DEF Locks, Stays
<1> QED
  BY <1>2, <1>3, <1>4, <1>5, <1>6, MemLocal

(* The steps of iput are of these two kinds. *)
LEMMA IputSteps ==
  ASSUME MemInv, NEW p \in Proc
  PROVE  /\ iput_test(p) => IF NoLinks(Head(put[p])) THEN Stays(p) ELSE Drops(p)
         /\ iput_free(p) => Stays(p)
         /\ iput_clear(p) => Drops(p)
PROOF
<1>1. Types /\ Control
  BY DEF MemInv
<1>2. stage[p] # "test" => put[p] # <<>>
  BY <1>1 DEF Control, Proper
<1>3. put[p] # <<>> => Head(put[p]) \in Inum
  BY <1>1, PutHead
<1>4. CASE iput_test(p)
  <2>0. put[p] # <<>> /\ stage[p] = "test" /\ UNCHANGED <<dir, lock, c, cwd, file>>
    BY <1>4 DEF iput_test, disk
  <2>1. CASE NoLinks(Head(put[p]))
    <3>1. stage' = [stage EXCEPT ![p] = "free"] /\ UNCHANGED <<ref, put, valid>>
      BY <1>4, <2>1 DEF iput_test
    <3>2. Stays(p)
      BY <1>1, <2>0, <3>1 DEF Stays, Types
    <3> QED
      BY <2>0, <2>1, <3>2 DEF iput_free, iput_clear
  <2>2. CASE ~NoLinks(Head(put[p]))
    <3>1. PICK h \in Inum : h = Head(put[p])
      BY <1>3, <2>0
    <3>2. Drop(p, h) /\ valid' = [valid EXCEPT ![h] = valid[h] /\ ref[h] > 1]
      BY <1>4, <2>2, <3>1 DEF iput_test
    <3>3. valid \in [Inum -> BOOLEAN] /\ (valid[h] /\ ref[h] > 1) \in BOOLEAN
      BY <1>1 DEF Types
    <3>4. valid' \in [Inum -> BOOLEAN]
      BY <3>2, <3>3
    <3>5. Drops(p)
      BY <2>0, <3>1, <3>2, <3>4 DEF Drops
    <3> QED
      BY <2>0, <2>2, <3>5 DEF iput_free, iput_clear
  <2> QED
    BY <2>1, <2>2
<1>5. CASE iput_free(p)
  <2>1. NoEntry \in [Elem -> 0..NINODES]
    BY FsAssumption DEF NoEntry
  <2>2. Stays(p)
    BY <1>1, <1>2, <1>3, <1>5, <2>1 DEF iput_free, Stays, Types
  <2> QED
    BY <1>5, <2>2 DEF iput_test, iput_free, iput_clear
<1>6. CASE iput_clear(p)
  <2>1. Drops(p)
    BY <1>1, <1>2, <1>3, <1>6 DEF iput_clear, Drops, Types, disk
  <2> QED
    BY <1>6, <2>1 DEF iput_test, iput_free, iput_clear
<1> QED
  BY <1>4, <1>5, <1>6

-----------------------------------------------------------------------------
(* Reference counts, whatever the calls are *)

(* The pointers after a boot. *)
LEMMA BootCount ==
  ASSUME NEW w, NEW h, NEW f, NEW s, NEW i \in Inum,
         \A p \in Proc : /\ w[p] = ROOTINO /\ h[p] = 0 /\ f[p].at = 0 /\ f[p].ip = 0
                         /\ s[p] = <<>>
  PROVE  Cardinality(Having(w, i)) + Cardinality(Having(h, i)) + Cardinality(HavingAt(f, i))
         + Cardinality(HavingIp(f, i)) + Cardinality(Putting(s, i))
           = IF i = ROOTINO THEN Cardinality(Proc) ELSE 0
PROOF
<1>1. i # 0
  BY DEF Inum
<1>2. Having(h, i) = {} /\ HavingAt(f, i) = {} /\ HavingIp(f, i) = {}
  BY <1>1 DEF Having, HavingAt, HavingIp
<1>3. Putting(s, i) = {}
  <2>1. \A p \in Proc : DOMAIN s[p] = {}
    OBVIOUS
  <2> QED
    BY <2>1 DEF Putting
<1>4. Cardinality({}) = 0 /\ Cardinality(Proc) \in Nat
  BY FsAssumption, FS_EmptySet, FS_CardinalityType
<1>5. Having(w, i) = IF i = ROOTINO THEN Proc ELSE {}
  BY DEF Having
<1>6. Cardinality(Having(w, i)) = IF i = ROOTINO THEN Cardinality(Proc) ELSE 0
  BY <1>4, <1>5
<1>7. /\ Cardinality(Having(h, i)) = 0 /\ Cardinality(HavingAt(f, i)) = 0
      /\ Cardinality(HavingIp(f, i)) = 0 /\ Cardinality(Putting(s, i)) = 0
  BY <1>2, <1>3, <1>4
<1> QED
  BY <1>4, <1>6, <1>7

(* The initial state. *)
LEMMA MemInit ==
  ASSUME Init
  PROVE  MemInv
PROOF
<1>1. Booted /\ ROOTINO \in Inum /\ 0 \in 0..NINODES /\ Inum \subseteq 0..NINODES
  <2>1. Booted
    BY Zenon DEF Init
  <2>2. ROOTINO \in Inum /\ 0 \in 0..NINODES /\ Inum \subseteq 0..NINODES
    BY FsAssumption DEF ROOTINO, Inum
  <2> QED
    BY <2>1, <2>2
<1>2. Cardinality(Proc) \in Nat
  BY FsAssumption, FS_CardinalityType
<1>3. Types
  <2>1. /\ valid \in [Inum -> BOOLEAN] /\ ref \in [Inum -> Nat]
        /\ lock \in [Inum -> Proc \cup {NoProc}]
        /\ put \in [Proc -> Seq(Inum)] /\ stage \in [Proc -> {"test", "free", "clear"}]
        /\ cwd \in [Proc -> Inum] /\ file \in [Proc -> 0..NINODES]
    BY <1>1, <1>2 DEF Booted
  <2>2. c \in [Proc -> Record]
    BY <1>1, IdleIs DEF Booted
  <2>3. dir \in [Inum -> [Elem -> 0..NINODES]]
    BY <1>1 DEF Init
  <2> QED
    BY <2>1, <2>2, <2>3 DEF Types
<1>4. \A p \in Proc : /\ cwd[p] = ROOTINO /\ file[p] = 0 /\ c[p] = Idle /\ put[p] = <<>>
                      /\ stage[p] = "test"
  BY <1>1 DEF Booted
<1>5. Control
  <2>1. ASSUME NEW p \in Proc
        PROVE  Proper(c[p], put[p], stage[p], file[p])
    BY <1>4, IdleIs DEF Proper
  <2> QED
    BY <2>1 DEF Control
<1>6. RefCounts
  <2>1. ASSUME NEW i \in Inum
        PROVE  ref[i] = Pointers(i)
    <3>1. ref[i] = IF i = ROOTINO THEN Cardinality(Proc) ELSE 0
      BY <1>1 DEF Booted
    <3>2. \A p \in Proc : /\ cwd[p] = ROOTINO /\ file[p] = 0 /\ c[p].at = 0 /\ c[p].ip = 0
                          /\ put[p] = <<>>
      BY <1>4, IdleIs
    <3> QED
      BY <3>1, <3>2, BootCount, PointersAre
  <2> QED
    BY <2>1 DEF RefCounts
<1>7. Locks
  <2>1. NoProc \notin Proc
    BY FsAssumption
  <2> QED
    BY <1>1, <1>4, <2>1, IdleIs DEF Locks, Booted
<1> QED
  BY <1>3, <1>5, <1>6, <1>7 DEF MemInv

(* A crash. *)
LEMMA MemCrash ==
  ASSUME MemInv, Crash
  PROVE  MemInv'
PROOF
<1>1. Types /\ Control /\ RefCounts /\ Locks /\ ROOTINO \in Inum /\ 0 \in 0..NINODES
  BY FsAssumption DEF MemInv, ROOTINO, Inum
<1>2. /\ ref' = [i \in Inum |-> IF i = ROOTINO THEN Cardinality(Proc) ELSE 0]
      /\ valid' = [i \in Inum |-> FALSE] /\ cwd' = [p \in Proc |-> ROOTINO]
      /\ file' = [p \in Proc |-> 0] /\ UNCHANGED <<dir, lock, c, put, stage>>
  BY DEF Crash, disk
<1>3. \A p \in Proc : put[p] = <<>> /\ c[p].pc = "idle"
  BY DEF Crash, In
<1>4. \A p \in Proc : c[p].at = 0 /\ c[p].ip = 0
  BY <1>1, <1>3 DEF Control, Proper
<1>5. Cardinality(Proc) \in Nat
  BY FsAssumption, FS_CardinalityType
<1>6. Types'
  BY <1>1, <1>2, <1>5 DEF Types
<1>7. Control'
  <2>1. ASSUME NEW p \in Proc
        PROVE  Proper(c[p], put[p], stage[p], file[p])'
    <3>1. Proper(c[p], put[p], stage[p], file[p]) /\ file'[p] = 0
      BY <1>1, <1>2 DEF Control
    <3> QED
      BY <1>2, <3>1 DEF Proper
  <2> QED
    BY <2>1 DEF Control
<1>8. RefCounts'
  <2>1. ASSUME NEW i \in Inum
        PROVE  ref'[i] = Pointers(i)'
    <3>1. ref'[i] = IF i = ROOTINO THEN Cardinality(Proc) ELSE 0
      BY <1>2
    <3>2. \A p \in Proc : /\ cwd'[p] = ROOTINO /\ file'[p] = 0 /\ c'[p].at = 0 /\ c'[p].ip = 0
                          /\ put'[p] = <<>>
      BY <1>2, <1>3, <1>4
    <3>3. Pointers(i)' = Cardinality(Having(cwd', i)) + Cardinality(Having(file', i))
            + Cardinality(HavingAt(c', i)) + Cardinality(HavingIp(c', i))
            + Cardinality(Putting(put', i))
      BY DEF Pointers, Having, HavingAt, HavingIp, Putting
    <3>4. PICK w, h, f, s : w = cwd' /\ h = file' /\ f = c' /\ s = put'
      OBVIOUS
    <3>5. Cardinality(Having(w, i)) + Cardinality(Having(h, i)) + Cardinality(HavingAt(f, i))
          + Cardinality(HavingIp(f, i)) + Cardinality(Putting(s, i))
            = IF i = ROOTINO THEN Cardinality(Proc) ELSE 0
      BY <3>2, <3>4, BootCount
    <3> QED
      BY <3>1, <3>3, <3>4, <3>5
  <2> QED
    BY <2>1 DEF RefCounts
<1>9. Locks'
  BY <1>1, <1>2 DEF Locks
<1> QED
  BY <1>6, <1>7, <1>8, <1>9 DEF MemInv

(* Steps that move pointers, and the others *)
Moving(p) ==
  \/ namex(p) \/ namex_empty(p) \/ sys_open(p) \/ sys_chdir(p)
  \/ link_target(p) \/ link_parent(p) \/ link_bad(p)
  \/ unlink_parent(p) \/ unlink_child(p) \/ create_parent(p) \/ create_child(p)
  \/ close(p) \/ \E r \in Request : call(p, r)

(* All of them take a reference that From has, or to a free inode. *)
LEMMA MovingMoves ==
  ASSUME MemInv, NEW p \in Proc, Moving(p)
  PROVE  \E j : /\ Goes(p, j)
                /\ j \in From(p) \/ (create_parent(p) /\ FreeInodes # {} /\ j = ialloc)
PROOF
<1>1. CASE (\E r \in Request : call(p, r)) \/ namex(p)
  BY <1>1, CallMove, NamexMove
<1>2. CASE link_target(p) \/ link_parent(p) \/ unlink_parent(p)
  BY <1>2, LinkMove, EntryMove, UnlinkMove
<1>3. CASE close(p) \/ namex_empty(p) \/ sys_open(p) \/ sys_chdir(p)
  <2>1. 0 \in From(p)
    BY DEF From
  <2> QED
    BY <1>3, <2>1, CloseMove, EmptyMove, OpenMove, ChdirMove
<1>4. CASE link_bad(p) \/ unlink_child(p) \/ create_child(p)
  <2>1. 0 \in From(p)
    BY DEF From
  <2> QED
    BY <1>4, <2>1, BadMove, RemoveMove, MakeMove
<1>5. CASE create_parent(p)
  BY <1>5, CreateMove
<1> QED
  BY <1>1, <1>2, <1>3, <1>4, <1>5 DEF Moving

(* Nothing in memory changes. *)
LEMMA MemSame ==
  ASSUME MemInv, UNCHANGED <<dir, valid, ref, lock, c, put, stage, cwd, file>>
  PROVE  MemInv'
PROOF
<1>1. Types' /\ Locks'
  BY DEF MemInv, Types, Locks
<1>2. Control'
  BY DEF MemInv, Control, Proper
<1>3. RefCounts'
  BY DEF MemInv, RefCounts, Pointers
<1> QED
  BY <1>1, <1>2, <1>3 DEF MemInv

(* Every step keeps the parts about memory. *)
LEMMA MemNext ==
  ASSUME MemInv, [Next]_vars
  PROVE  MemInv'
PROOF
<1>1. CASE UNCHANGED vars
  <2>1. UNCHANGED <<dir, valid, ref, lock, c, put, stage, cwd, file>>
    BY <1>1 DEF vars
  <2> QED
    BY <2>1, MemSame
<1>2. ASSUME NEW p \in Proc, Step(p) \/ User(p)
      PROVE  MemInv'
  <2>1. CASE Moving(p)
    <3>1. PICK j : Goes(p, j)
      BY <2>1, MovingMoves
    <3> QED
      BY <3>1, MemMove DEF Goes
  <2>2. CASE iput_test(p) \/ iput_free(p) \/ iput_clear(p)
    BY <2>2, IputSteps, DropEffect, StayEffect
  <2>3. CASE ilock_panic(p)
    <3>1. UNCHANGED <<dir, valid, ref, lock, c, put, stage, cwd, file>>
      BY <2>3 DEF ilock_panic, disk, cache
    <3> QED
      BY <3>1, MemSame
  <2> QED
    BY <1>2, <2>1, <2>2, <2>3 DEF Step, User, Moving
<1> QED
  BY <1>1, <1>2, MemCrash DEF Next

(* ip->ref is the number of pointers to the entry at all times (fs.c:       *)
(* iget, idup, iput and the callers that keep what they return), with any   *)
(* calls on any paths, crashes included.                                    *)
THEOREM RefCountsHold == Spec => []RefCounts
PROOF
<1>1. Init => MemInv
  BY MemInit
<1>2. MemInv /\ [Next]_vars => MemInv'
  BY MemNext
<1>3. MemInv => RefCounts
  BY DEF MemInv
<1> QED
  BY <1>1, <1>2, <1>3, PTL DEF Spec

-----------------------------------------------------------------------------
(* Link counts *)

DirType == [Inum -> [Elem -> 0..NINODES]]
InodeType == [type : Type, nlink : Nat]

(* The inode that a call has counted a link for *)
LinkIp(x) == IF x.op = "link" THEN x.ip ELSE 0

(* The names, the directories and the calls are finitely many. *)
LEMMA LinkSetsFinite ==
  ASSUME NEW t, NEW y, NEW f, NEW i
  PROVE  /\ IsFiniteSet(NamesIn(t, i)) /\ IsFiniteSet(DirsIn(t, y, i))
         /\ IsFiniteSet(LinkersIn(f, i))
         /\ Cardinality(NamesIn(t, i)) \in Nat /\ Cardinality(DirsIn(t, y, i)) \in Nat
         /\ Cardinality(LinkersIn(f, i)) \in Nat
PROOF
<1>1. IsFiniteSet(Proc) /\ IsFiniteSet(Name)
  BY FsAssumption
<1>2. IsFiniteSet(Inum)
  <2>1. 1 \in Int /\ NINODES \in Int
    BY FsAssumption
  <2> QED
    BY <2>1, FS_Interval, Zenon DEF Inum
<1>3. IsFiniteSet(Inum \X Name)
  BY <1>1, <1>2, FS_Product
<1>4. /\ NamesIn(t, i) \subseteq Inum \X Name /\ DirsIn(t, y, i) \subseteq Name
      /\ LinkersIn(f, i) \subseteq Proc
  BY DEF NamesIn, DirsIn, LinkersIn
<1>5. IsFiniteSet(NamesIn(t, i)) /\ IsFiniteSet(DirsIn(t, y, i)) /\ IsFiniteSet(LinkersIn(f, i))
  BY <1>1, <1>3, <1>4, FS_Subset
<1> QED
  BY <1>5, FS_CardinalityType

(* A change of one entry, as names are counted. *)
LEMMA NamesOne ==
  ASSUME NEW t \in DirType, NEW u \in DirType, NEW d \in Inum, NEW e \in Name,
         \A k \in Inum, a \in Name : ~(k = d /\ a = e) => u[k][a] = t[k][a], NEW i
  PROVE  Cardinality(NamesIn(u, i)) - Is(u[d][e], i) = Cardinality(NamesIn(t, i)) - Is(t[d][e], i)
PROOF
<1>1. PICK x : x = <<d, e>>
  OBVIOUS
<1>2. NamesIn(u, i) \ {x} = NamesIn(t, i) \ {x}
  <2>1. \A y \in Inum \X Name : y # x => u[y[1]][y[2]] = t[y[1]][y[2]]
    BY <1>1
  <2> QED
    BY <2>1 DEF NamesIn
<1>3. One(x, NamesIn(u, i)) = Is(u[d][e], i) /\ One(x, NamesIn(t, i)) = Is(t[d][e], i)
  BY <1>1 DEF One, Is, NamesIn
<1> QED
  BY <1>2, <1>3, LinkSetsFinite, CardOne

(* A change of one entry, as directories are counted. *)
IsDirIn(y, i) == IF i # 0 /\ y[i].type = "dir" THEN 1 ELSE 0

LEMMA DirsOne ==
  ASSUME NEW t \in DirType, NEW u \in DirType, NEW y, NEW z, NEW d \in Inum, NEW e \in Name,
         \A a \in Name : a # e => /\ u[d][a] = t[d][a]
                                  /\ t[d][a] # 0 => (z[t[d][a]].type = "dir" <=> y[t[d][a]].type = "dir")
  PROVE  Cardinality(DirsIn(u, z, d)) - IsDirIn(z, u[d][e])
           = Cardinality(DirsIn(t, y, d)) - IsDirIn(y, t[d][e])
PROOF
<1>1. DirsIn(u, z, d) \ {e} = DirsIn(t, y, d) \ {e}
  BY DEF DirsIn
<1>2. /\ One(e, DirsIn(u, z, d)) = IsDirIn(z, u[d][e])
      /\ One(e, DirsIn(t, y, d)) = IsDirIn(y, t[d][e])
  BY DEF One, IsDirIn, DirsIn
<1> QED
  BY <1>1, <1>2, LinkSetsFinite, CardOne

(* A directory with the same entries. *)
LEMMA DirsSame ==
  ASSUME NEW t \in DirType, NEW u \in DirType, NEW y, NEW z, NEW d \in Inum,
         \A a \in Name : /\ u[d][a] = t[d][a]
                         /\ t[d][a] # 0 => (z[t[d][a]].type = "dir" <=> y[t[d][a]].type = "dir")
  PROVE  Cardinality(DirsIn(u, z, d)) = Cardinality(DirsIn(t, y, d))
PROOF
<1>1. DirsIn(u, z, d) = DirsIn(t, y, d)
  BY DEF DirsIn
<1> QED
  BY <1>1, Zenon

(* A change of one call. *)
LEMMA LinkersOne ==
  ASSUME NEW f, NEW g, NEW p \in Proc, \A q \in Proc : q # p => g[q] = f[q], NEW i \in Inum
  PROVE  Cardinality(LinkersIn(g, i)) - Is(LinkIp(g[p]), i)
           = Cardinality(LinkersIn(f, i)) - Is(LinkIp(f[p]), i)
PROOF
<1>1. LinkersIn(g, i) \ {p} = LinkersIn(f, i) \ {p}
  BY DEF LinkersIn
<1>2. One(p, LinkersIn(g, i)) = Is(LinkIp(g[p]), i) /\ One(p, LinkersIn(f, i)) = Is(LinkIp(f[p]), i)
  BY DEF One, Is, LinkersIn, LinkIp, Inum
<1> QED
  BY <1>1, <1>2, LinkSetsFinite, CardOne

(* A set with an element is not of size zero. *)
LEMMA CardPositive ==
  ASSUME NEW A, IsFiniteSet(A), NEW x \in A
  PROVE  Cardinality(A) \in Nat /\ Cardinality(A) > 0
PROOF
<1>1. /\ Cardinality(A) \in Nat /\ Cardinality(A \ {x}) \in Nat
      /\ Cardinality(A) = Cardinality(A \ {x}) + One(x, A)
  BY CardWithout
<1> QED
  BY <1>1 DEF One

(* An inode with a name, a directory in it or a call that links it has a   *)
(* link, and so has the root.                                              *)
LEMMA HasLink ==
  ASSUME Types, DiskTypes, Linked, NEW i \in Inum
  PROVE  /\ \A d \in Inum, e \in Name : dir[d][e] = i => din[i].nlink > 0
         /\ \A p \in Proc : c[p].op = "link" /\ c[p].ip = i => din[i].nlink > 0
         /\ \A e \in Name : dir[i][e] # 0 /\ IsDir(dir[i][e]) => din[i].nlink > 0
         /\ i = ROOTINO => din[i].nlink > 0
         /\ din[i].nlink \in Nat
PROOF
<1>1. /\ IsFiniteSet(NamesIn(dir, i)) /\ IsFiniteSet(DirsIn(dir, din, i))
      /\ IsFiniteSet(LinkersIn(c, i))
      /\ Cardinality(NamesIn(dir, i)) \in Nat /\ Cardinality(DirsIn(dir, din, i)) \in Nat
      /\ Cardinality(LinkersIn(c, i)) \in Nat
  BY LinkSetsFinite
<1>2. /\ din[i].nlink \in Nat
      /\ din[i].nlink >= Cardinality(NamesIn(dir, i)) + Cardinality(DirsIn(dir, din, i))
                         + Cardinality(LinkersIn(c, i)) + Root(i)
  BY DEF Linked, Links, DiskTypes
<1>3. Root(i) \in Nat /\ (i = ROOTINO => Root(i) = 1)
  BY DEF Root
<1>4. ASSUME NEW d \in Inum, NEW e \in Name, dir[d][e] = i
      PROVE  din[i].nlink > 0
  <2>1. <<d, e>> \in NamesIn(dir, i)
    BY <1>4 DEF NamesIn
  <2>2. Cardinality(NamesIn(dir, i)) > 0
    BY <1>1, <2>1, CardPositive
  <2> QED
    BY <1>1, <1>2, <1>3, <2>2
<1>5. ASSUME NEW p \in Proc, c[p].op = "link", c[p].ip = i
      PROVE  din[i].nlink > 0
  <2>1. p \in LinkersIn(c, i)
    BY <1>5 DEF LinkersIn
  <2>2. Cardinality(LinkersIn(c, i)) > 0
    BY <1>1, <2>1, CardPositive
  <2> QED
    BY <1>1, <1>2, <1>3, <2>2
<1>6. ASSUME NEW e \in Name, dir[i][e] # 0, IsDir(dir[i][e])
      PROVE  din[i].nlink > 0
  <2>1. e \in DirsIn(dir, din, i)
    BY <1>6 DEF DirsIn, IsDir
  <2>2. Cardinality(DirsIn(dir, din, i)) > 0
    BY <1>1, <2>1, CardPositive
  <2> QED
    BY <1>1, <1>2, <1>3, <2>2
<1>7. i = ROOTINO => din[i].nlink > 0
  BY <1>1, <1>2, <1>3
<1> QED
  BY <1>2, <1>4, <1>5, <1>6, <1>7

(* What a directory holds. *)
LEMMA EntryType ==
  ASSUME Types, NEW d \in Inum
  PROVE  /\ \A e \in Elem : dir[d][e] \in 0..NINODES
         /\ \A e \in Elem : dir[d][e] # 0 => dir[d][e] \in Inum
         /\ \A e \in Name : e \in Elem /\ e # "." /\ e # ".."
         /\ "." \in Elem /\ ".." \in Elem
PROOF
<1>1. \A e \in Elem : dir[d][e] \in 0..NINODES
  BY DEF Types
<1>2. \A k \in 0..NINODES : k # 0 => k \in Inum
  BY DEF Inum
<1>3. \A e \in Name : e \in Elem /\ e # "." /\ e # ".."
  BY FsAssumption DEF Elem
<1>4. "." \in Elem /\ ".." \in Elem
  BY DEF Elem, Dots
<1> QED
  BY <1>1, <1>2, <1>3, <1>4

(* What has a name is allocated. *)
LEMMA NameLive ==
  ASSUME Types, DiskTypes, Linked, Dirs, NEW d \in Inum, NEW e \in Name, dir[d][e] # 0
  PROVE  /\ dir[d][e] \in Inum /\ din[dir[d][e]].type # "none"
         /\ din[dir[d][e]].nlink \in Nat /\ din[dir[d][e]].nlink > 0
PROOF
<1>1. dir[d][e] \in Inum
  BY EntryType
<1>2. PICK i \in Inum : i = dir[d][e]
  BY <1>1
<1>3. din[i].nlink \in Nat /\ din[i].nlink > 0
  BY <1>2, HasLink
<1>4. din[i].type = "none" => din[i].nlink = 0
  BY DEF Dirs
<1> QED
  BY <1>2, <1>3, <1>4

-----------------------------------------------------------------------------
(* Steps and what they leave alone *)

(* A process that has the only pointer to an inode: it makes or frees it. *)
Owns(q, i) == (Creates(q) /\ c[q].ip = i) \/ (stage[q] # "test" /\ Head(put[q]) = i)

LEMMA OwnerIsSole ==
  ASSUME FsInv, NEW q \in Proc, NEW i \in Inum, Owns(q, i)
  PROVE  /\ ref[i] = 1 /\ Mine(q, i) = 1 /\ din[i].nlink = 0
         /\ \A p \in Proc : p # q => Mine(p, i) = 0
PROOF
<1>1. Types /\ Control /\ RefCounts /\ Freeing /\ FreshFor(q)
  BY DEF FsInv, MemInv, Fresh
<1>2. ref[i] = 1 /\ din[i].nlink = 0 /\ Mine(q, i) > 0
  <2>1. CASE Creates(q) /\ c[q].ip = i
    <3>1. Is(c[q].ip, i) = 1 /\ \A a, b : Is(a, b) \in Nat
      BY <2>1 DEF Is
    <3> QED
      BY <1>1, <2>1, <3>1 DEF FreshFor, Mine, Own
  <2>2. CASE stage[q] # "test" /\ Head(put[q]) = i
    <3>1. put[q] # <<>>
      BY <1>1, <2>2 DEF Control, Proper
    <3>2. Mine(q, i) > 0
      BY <1>1, <2>2, <3>1, PutHead
    <3> QED
      BY <1>1, <2>2, <3>2 DEF Freeing
  <2> QED
    BY <2>1, <2>2 DEF Owns
<1> QED
  BY <1>1, <1>2, Sole

(* An inode that the step of p does nothing to, one that it holds and      *)
(* writes, and one that it allocates.                                      *)
Same(i) ==
  /\ din'[i] = din[i] /\ dir'[i] = dir[i] /\ valid'[i] = valid[i] /\ inode'[i] = inode[i]
Written(p, i) ==
  /\ Mine(p, i) > 0 /\ valid'[i] /\ inode'[i] = din'[i] /\ din'[i] \in InodeType
  /\ din'[i].type = din[i].type /\ din[i].type # "none"
Made(p, i) ==
  /\ din[i].type = "none" /\ din'[i] \in InodeType /\ din'[i].type # "none"
  /\ dir'[i] = dir[i] /\ ~valid[i] /\ valid'[i] = valid[i] /\ inode'[i] = inode[i]
  /\ Creates(p)' /\ c'[p].ip = i /\ \A q \in Proc : q # p => ~Owns(q, i)
Effects(p) ==
  /\ din' = [i \in Inum |-> din'[i]] /\ inode' = [i \in Inum |-> inode'[i]]
  /\ \A i \in Inum : Same(i) \/ Written(p, i) \/ Made(p, i)
  /\ \A d \in Inum, e \in Name : dir'[d][e] # dir[d][e] => lock[d] \in {p, NoProc}
  /\ \A i \in Inum : Mine(p, i) = 0 => (i \in removed' <=> i \in removed)
  /\ Creates(p) => valid'[c[p].ip]
  /\ orphans' = orphans

(* Nobody makes or frees the inode that p takes a pointer to. *)
Takes(p, j) == j # 0 => din'[j].type # "none" /\ \A q \in Proc : q # p => ~Owns(q, j)

(* What p does leaves an inode of another process alone. *)
LEMMA OwnedSame ==
  ASSUME FsInv, NEW p \in Proc, NEW j, Goes(p, j), Effects(p), Takes(p, j),
         NEW q \in Proc, q # p, NEW i \in Inum, Owns(q, i)
  PROVE  Same(i) /\ ref'[i] = 1 /\ (i \in removed' <=> i \in removed)
PROOF
<1>1. ref[i] = 1 /\ Mine(q, i) = 1 /\ Mine(p, i) = 0
  BY OwnerIsSole
<1>2. Types
  BY DEF FsInv, MemInv
<1>3. j # i
  BY DEF Takes, Inum
<1>4. ref'[i] = ref[i] + Is(j, i)
  BY <1>2, MoveEffect DEF Goes
<1>5. Same(i) /\ (i \in removed' <=> i \in removed)
  BY <1>1 DEF Effects, Written, Made
<1> QED
  BY <1>1, <1>3, <1>4, <1>5 DEF Is

(* So it keeps what is said of the pointers and of the other processes. *)
LEMMA MoveKeeps ==
  ASSUME FsInv, NEW p \in Proc, NEW j, Goes(p, j), Effects(p), Takes(p, j)
  PROVE  /\ MemInv' /\ DiskTypes' /\ Live' /\ Freeing' /\ Cached' /\ Kept'
         /\ \A q \in Proc : q # p => FreshFor(q)' /\ WorkingFor(q)'
PROOF
<1>1. MemInv /\ Types /\ Control /\ RefCounts /\ Locks /\ DiskTypes
  BY DEF FsInv, MemInv
<1>2. /\ stage' = stage /\ stage[p] = "test" /\ Others(p)
      /\ \A i \in Inum : ref'[i] = ref[i] + Is(j, i) /\ Mine(p, i)' = Mine(p, i) + Is(j, i)
      /\ \A q \in Proc : q # p => \A i \in Inum : Mine(q, i)' = Mine(q, i)
  BY <1>1, MoveEffect DEF Goes
<1>3. MemInv'
  BY <1>1, MemMove DEF Goes
<1>4. \A q \in Proc : q # p => c'[q] = c[q] /\ put'[q] = put[q] /\ stage'[q] = stage[q]
  BY <1>2 DEF Others
<1>5. \A i \in Inum : ref[i] \in Nat /\ Is(j, i) \in Nat /\ \A q \in Proc : Mine(q, i) \in Nat
  BY <1>1, PointersOne DEF Types, Is
<1>6. \A i \in Inum : Same(i) \/ Written(p, i) \/ Made(p, i)
  BY DEF Effects
<1>7. \A i \in Inum : din[i].type # "none" => din'[i].type = din[i].type
  BY <1>6 DEF Same, Written, Made
<1>8. \A q \in Proc, i \in Inum : Clearing(q, i) => q # p /\ Clearing(q, i)'
  BY <1>2, <1>4 DEF Clearing
<1>9. DiskTypes'
  <2>0. \A i \in Inum : din[i] \in InodeType /\ inode[i] \in InodeType
    BY <1>1 DEF DiskTypes, InodeType
  <2>1. \A i \in Inum : din'[i] \in InodeType /\ inode'[i] \in InodeType
    BY <1>6, <2>0 DEF Same, Written, Made
  <2>2. din' = [i \in Inum |-> din'[i]] /\ inode' = [i \in Inum |-> inode'[i]]
    BY DEF Effects
  <2>3. din' \in [Inum -> InodeType] /\ inode' \in [Inum -> InodeType]
    BY <2>1, <2>2
  <2> QED
    BY <2>3 DEF DiskTypes, InodeType
<1>10. Live'
  <2>1. ASSUME NEW q \in Proc, NEW i \in Inum, Mine(q, i)' > 0
        PROVE  din'[i].type # "none" \/ Clearing(q, i)'
    <3>1. CASE Mine(q, i) > 0
      BY <1>7, <1>8, <3>1 DEF FsInv, Live
    <3>2. CASE ~(Mine(q, i) > 0)
      <4>1. q = p /\ j = i
        BY <1>2, <1>5, <2>1, <3>2 DEF Is
      <4> QED
        BY <4>1 DEF Takes, Inum
    <3> QED
      BY <3>1, <3>2
  <2> QED
    BY <2>1 DEF Live
<1>11. Freeing'
  <2>1. ASSUME NEW q \in Proc, stage'[q] # "test"
        PROVE  /\ ref'[Head(put'[q])] = 1 /\ din'[Head(put'[q])].nlink = 0
               /\ valid'[Head(put'[q])]
               /\ stage'[q] = "clear" => din'[Head(put'[q])].type = "none"
    <3>1. q # p /\ stage[q] # "test" /\ stage'[q] = stage[q] /\ put'[q] = put[q]
      BY <1>2, <1>4, <2>1
    <3>2. put[q] # <<>>
      BY <1>1, <3>1 DEF Control, Proper
    <3>3. PICK i \in Inum : i = Head(put[q])
      BY <1>1, <3>2, PutHead
    <3>4. din[i].nlink = 0 /\ valid[i] /\ (stage[q] = "clear" => din[i].type = "none")
      BY <3>1, <3>3 DEF FsInv, Freeing
    <3>5. Same(i) /\ ref'[i] = 1
      BY <3>1, <3>3, OwnedSame DEF Owns
    <3> QED
      BY <3>1, <3>3, <3>4, <3>5 DEF Same
  <2> QED
    BY <2>1 DEF Freeing
<1>12. Cached'
  <2>1. ASSUME NEW i \in Inum, valid'[i]
        PROVE  /\ inode'[i] = din'[i] /\ ref'[i] > 0
               /\ din'[i].type = "none" => \E q \in Proc : Clearing(q, i)'
    <3>1. CASE Same(i)
      <4>1. valid[i] /\ din'[i] = din[i] /\ inode'[i] = inode[i]
        BY <2>1, <3>1 DEF Same
      <4>2. inode[i] = din[i] /\ ref[i] > 0 /\ (din[i].type = "none" => \E q \in Proc : Clearing(q, i))
        BY <4>1 DEF FsInv, Cached
      <4> QED
        BY <1>2, <1>5, <1>8, <4>1, <4>2
    <3>2. CASE Written(p, i)
      <4>1. ref[i] > 0
        BY <1>1, <3>2, Pointed DEF Written
      <4> QED
        BY <1>2, <1>5, <3>2, <4>1 DEF Written
    <3>3. CASE Made(p, i)
      BY <2>1, <3>3 DEF Made
    <3> QED
      BY <1>6, <3>1, <3>2, <3>3
  <2> QED
    BY <2>1 DEF Cached
<1>13. Kept'
  <2>1. ASSUME NEW i \in Inum, i \notin orphans', din'[i].type # "none", din'[i].nlink = 0,
               ~Creating(i)'
        PROVE  valid'[i]
    <3>1. CASE Same(i)
      <4>1. CASE Creating(i)
        <5>1. PICK q \in Proc : Creates(q) /\ c[q].ip = i
          BY <4>1 DEF Creating
        <5>2. CASE q = p
          BY <5>1, <5>2 DEF Effects
        <5>3. CASE q # p
          <6>1. Creates(q)' /\ c'[q].ip = i
            BY <1>4, <5>1, <5>3 DEF Creates
          <6> QED
            BY <2>1, <6>1 DEF Creating
        <5> QED
          BY <5>2, <5>3
      <4>2. CASE ~Creating(i)
        BY <2>1, <3>1, <4>2 DEF FsInv, Kept, Same, Effects
      <4> QED
        BY <4>1, <4>2
    <3>2. CASE Written(p, i)
      BY <3>2 DEF Written
    <3>3. CASE Made(p, i)
      BY <2>1, <3>3 DEF Made, Creating
    <3> QED
      BY <1>6, <3>1, <3>2, <3>3
  <2> QED
    BY <2>1 DEF Kept
<1>14. ASSUME NEW q \in Proc, q # p
       PROVE  FreshFor(q)'
  <2>1. ASSUME Creates(q)'
        PROVE  /\ ref'[c'[q].ip] = 1 /\ din'[c'[q].ip].type # "none" /\ din'[c'[q].ip].nlink = 0
               /\ dir'[c'[q].ip] = NoEntry /\ c'[q].ip \notin removed'
               /\ din'[c'[q].ip].type = "dir" <=> c'[q].op = "mkdir"
    <3>1. c'[q] = c[q] /\ Creates(q)
      BY <1>4, <1>14, <2>1 DEF Creates
    <3>2. PICK i \in Inum : i = c[q].ip
      BY <1>1, <3>1 DEF Control, Proper, Types, Record, Creates, Inum
    <3>3. /\ din[i].type # "none" /\ din[i].nlink = 0 /\ dir[i] = NoEntry /\ i \notin removed
          /\ din[i].type = "dir" <=> c[q].op = "mkdir"
      BY <3>1, <3>2 DEF FsInv, Fresh, FreshFor
    <3>4. Same(i) /\ ref'[i] = 1 /\ (i \in removed' <=> i \in removed)
      BY <1>14, <3>1, <3>2, OwnedSame DEF Owns
    <3> QED
      BY <3>1, <3>2, <3>3, <3>4 DEF Same
  <2> QED
    BY <2>1 DEF FreshFor
<1>15. ASSUME NEW q \in Proc, q # p
       PROVE  WorkingFor(q)'
  <2>1. c'[q] = c[q] /\ WorkingFor(q) /\ Proper(c[q], put[q], stage[q], file[q]) /\ c[q] \in Record
    BY <1>1, <1>4, <1>15 DEF FsInv, Working, Control, Types
  <2>2. ASSUME c[q].pc \in {"parent", "child"}
        PROVE  din'[c[q].at].type = "dir" /\ c[q].at \in Inum
    <3>1. c[q].at \in Inum /\ din[c[q].at].type = "dir"
      BY <2>1, <2>2 DEF WorkingFor, Proper, Record, Inum
    <3> QED
      BY <1>7, <3>1
  <2>3. ASSUME c[q].pc = "child"
        PROVE  /\ valid'[c[q].at] /\ Head(c[q].path) \in Name
               /\ dir'[c[q].at][Head(c[q].path)] = (IF c[q].op = "unlink" THEN c[q].ip ELSE 0)
    <3>1. PICK d \in Inum : d = c[q].at
      BY <2>2, <2>3
    <3>2. PICK e \in Name : e = Head(c[q].path)
      BY <2>1, <2>3 DEF WorkingFor
    <3>3. valid[d] /\ dir[d][e] = (IF c[q].op = "unlink" THEN c[q].ip ELSE 0)
      BY <2>1, <2>3, <3>1, <3>2 DEF WorkingFor
    <3>4. lock[d] = q /\ q # NoProc
      BY <1>1, <2>3, <3>1, FsAssumption DEF Locks
    <3>5. dir'[d][e] = dir[d][e]
      BY <1>15, <3>4 DEF Effects
    <3>6. valid'[d]
      BY <1>6, <3>3 DEF Same, Written, Made
    <3> QED
      BY <3>1, <3>2, <3>3, <3>5, <3>6
  <2>4. ASSUME c[q].op = "link", c[q].ip # 0
        PROVE  din'[c[q].ip].type # "dir"
    <3>1. PICK i \in Inum : i = c[q].ip
      BY <2>1, <2>4 DEF Record, Inum
    <3>2. din[i].type # "dir" /\ din[i].type # "none"
      <4>1. din[i].type # "dir"
        BY <2>1, <2>4, <3>1 DEF WorkingFor
      <4>2. din[i].nlink > 0 /\ (din[i].type = "none" => din[i].nlink = 0)
        BY <1>1, <2>4, <3>1, HasLink DEF FsInv, Dirs
      <4> QED
        BY <4>1, <4>2
    <3> QED
      BY <1>7, <3>1, <3>2
  <2> QED
    BY <2>1, <2>2, <2>3, <2>4 DEF WorkingFor
<1> QED
  BY <1>3, <1>9, <1>10, <1>11, <1>12, <1>13, <1>14, <1>15

(* A step that changes no link and makes nothing. *)
Quiet(p) ==
  /\ UNCHANGED <<din, dir, removed>> /\ ~Creates(p) /\ ~Creates(p)'
  /\ LinkIp(c'[p]) = LinkIp(c[p])
  /\ WorkingFor(p)' /\ Plain(c'[p].path) /\ Plain(c'[p].new) /\ NoPanic'

(* The calls keep going forward. *)
LEMMA ForwardStep ==
  ASSUME Types, NEW p \in Proc, NEW j, Goes(p, j), Forward, Plain(c'[p].path), Plain(c'[p].new)
  PROVE  Forward'
PROOF
<1>1. \A q \in Proc : q # p => c'[q] = c[q]
  BY MoveEffect DEF Goes, Others
<1>2. ASSUME NEW q \in Proc
      PROVE  (Plain(c[q].path) /\ Plain(c[q].new))'
  <2>1. CASE q = p
    BY <2>1 DEF Plain
  <2>2. CASE q # p
    <3>1. c'[q] = c[q] /\ Plain(c[q].path) /\ Plain(c[q].new)
      BY <1>1, <2>2 DEF Forward
    <3> QED
      BY <3>1 DEF Plain
  <2> QED
    BY <2>1, <2>2
<1> QED
  BY <1>2 DEF Forward

(* Such a step keeps the invariant. *)
LEMMA QuietKeeps ==
  ASSUME FsInv, NEW p \in Proc, NEW j, Goes(p, j), Effects(p), Takes(p, j), Quiet(p)
  PROVE  FsInv'
PROOF
<1>1. Types /\ Forward /\ Dirs /\ Linked /\ Apart /\ Tree /\ Acyclic
  BY DEF FsInv, MemInv
<1>2. /\ MemInv' /\ DiskTypes' /\ Live' /\ Freeing' /\ Cached' /\ Kept'
      /\ \A q \in Proc : q # p => FreshFor(q)' /\ WorkingFor(q)'
  BY MoveKeeps
<1>3. \A q \in Proc : q # p => c'[q] = c[q]
  BY <1>1, MoveEffect DEF Goes, Others
<1>4. Fresh' /\ Working'
  BY <1>2 DEF Fresh, Working, FreshFor, Quiet
<1>5. Forward'
  BY <1>1, ForwardStep DEF Quiet
<1>6. \A i : Creating(i)' <=> Creating(i)
  BY <1>3 DEF Creating, Creates, Quiet
<1>7. Dirs'
  BY <1>1, <1>6 DEF Dirs, Quiet
<1>8. Linked'
  <2>1. ASSUME NEW i \in Inum
        PROVE  Links(i)' = Links(i)
    <3>1. PICK f, g : f = c /\ g = c'
      OBVIOUS
    <3>2. Cardinality(LinkersIn(g, i)) - Is(LinkIp(g[p]), i)
            = Cardinality(LinkersIn(f, i)) - Is(LinkIp(f[p]), i)
      BY <1>3, <3>1, LinkersOne
    <3>3. LinkIp(g[p]) = LinkIp(f[p])
      BY <3>1 DEF Quiet
    <3>4. /\ Cardinality(LinkersIn(g, i)) \in Nat /\ Cardinality(LinkersIn(f, i)) \in Nat
          /\ Is(LinkIp(f[p]), i) \in Nat
      BY LinkSetsFinite DEF Is
    <3>5. Cardinality(LinkersIn(g, i)) = Cardinality(LinkersIn(f, i))
      BY <3>2, <3>3, <3>4
    <3>6. Links(i)' = Cardinality(NamesIn(dir, i)) + Cardinality(DirsIn(dir, din, i))
                      + Cardinality(LinkersIn(g, i)) + Root(i)
      BY <3>1 DEF Links, Quiet, NamesIn, DirsIn, LinkersIn, Root
    <3> QED
      BY <3>1, <3>5, <3>6 DEF Links
  <2> QED
    BY <1>1, <2>1 DEF Linked, Quiet
<1>9. Apart' /\ Acyclic'
  BY <1>1 DEF Apart, Acyclic, Quiet, IsDir
<1>10. Tree'
  BY <1>1 DEF Tree, Quiet, IsDir
<1> QED
  BY <1>2, <1>4, <1>5, <1>7, <1>8, <1>9, <1>10 DEF FsInv, Quiet

(* The pointers that a process has. *)
LEMMA MineIs ==
  ASSUME NEW p \in Proc, NEW i \in Inum, i \in {cwd[p], file[p], c[p].at, c[p].ip}
  PROVE  Mine(p, i) \in Nat /\ Mine(p, i) > 0
PROOF
<1>1. \A a, b : Is(a, b) \in Nat
  BY DEF Is
<1>2. Is(cwd[p], i) = 1 \/ Is(file[p], i) = 1 \/ Is(c[p].at, i) = 1 \/ Is(c[p].ip, i) = 1
  BY DEF Is
<1> QED
  BY <1>1, <1>2 DEF Mine, Own

(* The inode that ilock returns is the one on the disk. *)
LEMMA LockedIs ==
  ASSUME FsInv, NEW i \in Inum
  PROVE  Locked(i) = din[i] /\ (CanLock(i) => din[i].type # "none" \/ \E q \in Proc : Clearing(q, i))
PROOF
  BY DEF FsInv, Cached, Locked, CanLock

(* What a process within a call points to is allocated, and nobody makes   *)
(* or frees it.                                                            *)
LEMMA HeldLive ==
  ASSUME FsInv, NEW p \in Proc, put[p] = <<>>, NEW i \in Inum, Mine(p, i) > 0
  PROVE  din[i].type # "none" /\ \A q \in Proc : q # p => ~Owns(q, i)
PROOF
<1>1. stage[p] = "test"
  BY MoveBegin DEF FsInv
<1>2. din[i].type # "none"
  BY <1>1 DEF FsInv, Live, Clearing
<1>3. ASSUME NEW q \in Proc, q # p, Owns(q, i)
      PROVE  FALSE
  BY <1>3, OwnerIsSole
<1> QED
  BY <1>2, <1>3

(* Reading an inode. *)
LEMMA ReadEffects ==
  ASSUME FsInv, NEW p \in Proc, put[p] = <<>>, NEW i \in Inum, Mine(p, i) > 0, load(i),
         UNCHANGED <<din, dir, removed, orphans>>, ~Creates(p)
  PROVE  Effects(p)
PROOF
<1>1. /\ DiskTypes /\ din \in [Inum -> InodeType] /\ inode \in [Inum -> InodeType]
      /\ valid \in [Inum -> BOOLEAN]
  BY DEF FsInv, MemInv, DiskTypes, InodeType, Types
<1>2. Locked(i) = din[i] /\ din[i].type # "none"
  BY HeldLive, LockedIs
<1>3. valid' = [valid EXCEPT ![i] = TRUE] /\ inode' = [inode EXCEPT ![i] = din[i]]
  BY <1>2 DEF load
<1>4. \A k \in Inum : k # i => Same(k)
  BY <1>1, <1>3 DEF Same
<1>5. Written(p, i)
  BY <1>1, <1>2, <1>3 DEF Written
<1>6. din' = [k \in Inum |-> din'[k]] /\ inode' = [k \in Inum |-> inode'[k]]
  BY <1>1, <1>3
<1> QED
  BY <1>4, <1>5, <1>6 DEF Effects

(* Reading none. *)
LEMMA NoEffects ==
  ASSUME FsInv, NEW p \in Proc, UNCHANGED <<din, dir, removed, orphans, valid, inode>>, ~Creates(p)
  PROVE  Effects(p)
PROOF
<1>1. din \in [Inum -> InodeType] /\ inode \in [Inum -> InodeType]
  BY DEF FsInv, DiskTypes, InodeType
<1>2. \A k \in Inum : Same(k)
  BY DEF Same
<1> QED
  BY <1>1, <1>2 DEF Effects

(* The inode that a step takes a reference to. *)
LEMMA GoesIs ==
  ASSUME Types, NEW p, NEW j, Goes(p, j)
  PROVE  /\ ref' = ref => j = 0
         /\ \A k \in Inum : iget(k) => j = k
PROOF
<1>1. j \in 0..NINODES /\ ref \in [Inum -> Nat] /\ \A i \in Inum : ref'[i] = ref[i] + Is(j, i)
  <2>1. \A i \in Inum : ref'[i] = ref[i] + Is(j, i)
    BY MoveEffect DEF Goes
  <2>2. j \in 0..NINODES /\ ref \in [Inum -> Nat]
    BY DEF Goes, Move, Types
  <2> QED
    BY <2>1, <2>2
<1>2. ASSUME ref' = ref
      PROVE  j = 0
  <2>1. \A i \in Inum : Is(j, i) = 0
    <3>1. \A i \in Inum : Is(j, i) \in Nat /\ ref[i] \in Nat /\ ref[i] = ref[i] + Is(j, i)
      BY <1>1, <1>2 DEF Is
    <3> QED
      BY <3>1
  <2> QED
    BY <1>1, <2>1 DEF Is, Inum
<1>3. ASSUME NEW k \in Inum, iget(k)
      PROVE  j = k
  <2>1. ref'[k] = ref[k] + 1 /\ ref'[k] = ref[k] + Is(j, k) /\ ref[k] \in Nat
    BY <1>1, <1>3 DEF iget
  <2> QED
    BY <2>1 DEF Is
<1> QED
  BY <1>2, <1>3

(* The root and the current directory may be taken. *)
LEMMA TakesStart ==
  ASSUME FsInv, NEW p \in Proc, put[p] = <<>>, NEW j \in {ROOTINO, cwd[p]},
         \A i \in Inum : din[i].type # "none" => din'[i].type = din[i].type
  PROVE  Takes(p, j)
PROOF
<1>1. Types /\ DiskTypes /\ Linked /\ Dirs
  BY DEF FsInv, MemInv
<1>2. j \in Inum
  <2>1. cwd[p] \in Inum /\ ROOTINO \in Inum
    BY <1>1, FirstType DEF Types
  <2> QED
    BY <2>1
<1>3. CASE j = cwd[p]
  <2>1. din[j].type # "none" /\ \A q \in Proc : q # p => ~Owns(q, j)
    BY <1>2, <1>3, MineIs, HeldLive
  <2> QED
    BY <1>2, <2>1 DEF Takes
<1>4. CASE j = ROOTINO
  <2>1. din[j].type = "dir" /\ din[j].nlink > 0
    BY <1>1, <1>2, <1>4, HasLink DEF Dirs
  <2>2. \A q \in Proc : ~Owns(q, j)
    BY <1>2, <2>1, OwnerIsSole
  <2> QED
    BY <1>2, <2>1, <2>2 DEF Takes
<1> QED
  BY <1>3, <1>4

(* So may what a directory has for the next name of a path. *)
LEMMA TakesEntry ==
  ASSUME FsInv, NEW p \in Proc, put[p] = <<>>, c[p].pc \in {"walk", "parent"},
         c[p].path # <<>> \/ c[p].pc # "walk",
         NEW j, j = dir[c[p].at][Head(c[p].path)],
         \A i \in Inum : din[i].type # "none" => din'[i].type = din[i].type
  PROVE  Takes(p, j)
PROOF
<1>1. MemInv /\ Types /\ DiskTypes /\ Linked /\ Dirs /\ Forward
  BY DEF FsInv, MemInv
<1>2. /\ c[p].path \in Seq(Elem) /\ c[p].path # <<>> /\ Head(c[p].path) \in Elem
      /\ j \in 0..NINODES /\ (j # 0 => j \in Inum)
  BY <1>1, Lookup
<1>3. PICK d \in Inum : d = c[p].at
  BY <1>1, MoveBegin
<1>4. Head(c[p].path) # ".."
  BY <1>1, <1>2 DEF Forward, Plain
<1>5. CASE j # 0 /\ Head(c[p].path) \in Name
  <2>1. j \in Inum /\ din[j].type # "none" /\ din[j].nlink > 0
    BY <1>1, <1>3, <1>5, NameLive
  <2>2. \A q \in Proc : ~Owns(q, j)
    BY <2>1, OwnerIsSole
  <2> QED
    BY <2>1, <2>2 DEF Takes
<1>6. CASE j # 0 /\ Head(c[p].path) = "."
  <2>1. Mine(p, d) > 0
    BY <1>3, MineIs
  <2>2. din[d].type # "none" /\ \A q \in Proc : q # p => ~Owns(q, d)
    BY <2>1, HeldLive
  <2>3. ~Creating(d)
    BY <2>2 DEF Creating, Owns, Creates
  <2>4. din[d].type = "dir"
    BY <1>1, <1>2, <1>3, <1>6 DEF Dirs, NoEntry
  <2>5. j = d
    BY <1>1, <1>3, <1>6, <2>3, <2>4 DEF Dirs
  <2> QED
    BY <2>2, <2>5 DEF Takes
<1>7. Head(c[p].path) \in Name \/ Head(c[p].path) = "."
  BY <1>2, <1>4 DEF Elem, Dots
<1> QED
  BY <1>5, <1>6, <1>7 DEF Takes

-----------------------------------------------------------------------------
(* The steps that change nothing on the disk *)

(* No call has a path with a "..", and ialloc leaves an inode that iput    *)
(* has freed alone until iput is done with it.  The code guarantees        *)
(* neither: ".." of a removed directory may lead to an inode that was      *)
(* freed, and iput holds no lock from its iupdate to flags = 0 (fs.c:319). *)
(* In both cases names lead to unallocated inodes, so every theorem below  *)
(* that assumes Tame says what holds as long as neither happens.           *)
Tame == ~AllocDuringIput /\ \A r \in Request : Plain(r.path) /\ Plain(r.new)

Reads(p) ==
  \/ c[p].at \in Inum /\ load(c[p].at)
  \/ c[p].ip \in Inum /\ load(c[p].ip)
  \/ UNCHANGED <<valid, inode>>

(* They keep the invariant, if they do so for the new state of the call. *)
LEMMA QuietStep ==
  ASSUME FsInv, NEW p \in Proc, put[p] = <<>>, NEW j, Goes(p, j), Takes(p, j), Reads(p),
         UNCHANGED <<din, dir, removed, orphans>>, ~Creates(p), ~Creates(p)',
         LinkIp(c'[p]) = LinkIp(c[p]), WorkingFor(p)', Plain(c'[p].path), Plain(c'[p].new), NoPanic'
  PROVE  FsInv'
PROOF
<1>1. Effects(p)
  BY MineIs, ReadEffects, NoEffects DEF Reads
<1>2. Quiet(p)
  BY DEF Quiet
<1> QED
  BY <1>1, <1>2, QuietKeeps

(* A call that returns. *)
LEMMA IdleStep ==
  ASSUME FsInv, NEW p \in Proc, put[p] = <<>>, Goes(p, 0), Reads(p),
         UNCHANGED <<din, dir, removed, orphans, panic>>, ~Creates(p),
         c'[p] = Idle, LinkIp(c[p]) = 0
  PROVE  FsInv'
PROOF
<1>1. Takes(p, 0)
  BY DEF Takes
<1>2. /\ c'[p].pc = "idle" /\ c'[p].op = "none" /\ c'[p].ip = 0
      /\ c'[p].path = <<>> /\ c'[p].new = <<>>
  BY IdleIs
<1>3. ~Creates(p)' /\ LinkIp(c'[p]) = LinkIp(c[p]) /\ WorkingFor(p)'
  BY <1>2 DEF Creates, LinkIp, WorkingFor
<1>4. Plain(c'[p].path) /\ Plain(c'[p].new)
  BY <1>2 DEF Plain
<1>5. NoPanic'
  BY DEF FsInv, NoPanic
<1> QED
  BY <1>1, <1>3, <1>4, <1>5, QuietStep

(* A lookup that fails. *)
LEMMA FailStep ==
  ASSUME FsInv, NEW p \in Proc, put[p] = <<>>, NEW j, Goes(p, j), Takes(p, j), Reads(p),
         UNCHANGED <<din, dir, removed, orphans, panic>>, c[p].pc \in {"walk", "parent"}, fails(p)
  PROVE  FsInv'
PROOF
<1>1. MemInv /\ Types /\ Forward /\ WorkingFor(p)
  BY DEF FsInv, MemInv, Working
<1>2. Proper(c[p], put[p], stage[p], file[p]) /\ c[p] \in Record
  BY <1>1, MoveBegin
<1>3. ~Creates(p) /\ (c[p].ip # 0 => c[p].op = "link")
  BY <1>2 DEF Creates, Proper
<1>4. NoPanic'
  BY DEF FsInv, NoPanic
<1>5. CASE c[p].ip = 0
  <2>1. c'[p] = Idle
    BY <1>1, <1>5 DEF fails, go, Types
  <2>2. /\ c'[p].pc = "idle" /\ c'[p].op = "none" /\ c'[p].ip = 0
        /\ c'[p].path = <<>> /\ c'[p].new = <<>>
    BY <2>1, IdleIs
  <2>3. ~Creates(p)' /\ LinkIp(c'[p]) = LinkIp(c[p]) /\ WorkingFor(p)'
    BY <1>5, <2>2 DEF Creates, LinkIp, WorkingFor
  <2>4. Plain(c'[p].path) /\ Plain(c'[p].new)
    BY <2>2 DEF Plain
  <2> QED
    BY <1>3, <1>4, <2>3, <2>4, QuietStep
<1>6. CASE c[p].ip # 0
  <2>1. c'[p] = [c[p] EXCEPT !.pc = "link_bad", !.at = 0, !.path = <<>>]
    BY <1>1, <1>6 DEF fails, go, Types
  <2>2. /\ c'[p].pc = "link_bad" /\ c'[p].op = c[p].op /\ c'[p].ip = c[p].ip
        /\ c'[p].path = <<>> /\ c'[p].new = c[p].new
    BY <1>2, <2>1 DEF Record
  <2>3. ~Creates(p)' /\ LinkIp(c'[p]) = LinkIp(c[p])
    BY <2>2 DEF Creates, LinkIp
  <2>4. WorkingFor(p)'
    BY <1>1, <2>2 DEF WorkingFor
  <2>5. Plain(c'[p].path) /\ Plain(c'[p].new)
    BY <1>1, <2>2 DEF Plain, Forward
  <2> QED
    BY <1>3, <1>4, <2>3, <2>4, <2>5, QuietStep
<1> QED
  BY <1>5, <1>6

(* What is left of a path without ".." has none. *)
LEMMA PlainRest ==
  ASSUME NEW A, NEW s \in Seq(A), Plain(s)
  PROVE  Plain(Rest(s)) /\ (s # <<>> => Plain(Tail(s)))
PROOF
<1>1. ASSUME s # <<>>
      PROVE  Plain(Tail(s))
  <2>1. /\ Len(Tail(s)) = Len(s) - 1 /\ Len(s) \in Nat
        /\ \A k \in 1..Len(Tail(s)) : Tail(s)[k] = s[k + 1] /\ k + 1 \in 1..Len(s)
    BY <1>1
  <2> QED
    BY <2>1 DEF Plain
<1>2. CASE Absolute(s)
  BY <1>1, <1>2 DEF Absolute, Rest
<1>3. CASE ~Absolute(s)
  BY <1>1, <1>3 DEF Rest
<1> QED
  BY <1>1, <1>2, <1>3

(* call. *)
LEMMA CallKeeps ==
  ASSUME FsInv, Tame, NEW p \in Proc, NEW r \in Request, call(p, r)
  PROVE  FsInv'
PROOF
<1>1. MemInv /\ Types
  BY DEF FsInv, MemInv
<1>2. put[p] = <<>> /\ c[p].pc = "idle"
      /\ UNCHANGED <<din, dir, removed, orphans, valid, inode, panic>>
  BY DEF call, In, disk, hist
<1>3. Proper(c[p], put[p], stage[p], file[p]) /\ c[p].ip = 0 /\ ~Creates(p)
  BY <1>1, <1>2, MoveBegin DEF Proper, Creates
<1>4. PICK i \in Inum : i = First(p, r.path) /\ i \in {ROOTINO, cwd[p]}
  BY <1>1, FirstType
<1>5. PICK j : Goes(p, j)
  BY <1>1, CallMove
<1>6. j = i
  BY <1>1, <1>4, <1>5, GoesIs DEF call
<1>7. Takes(p, j)
  BY <1>2, <1>4, <1>6, TakesStart
<1>8. /\ c'[p].pc = Has(r.op, Rest(r.path)) /\ c'[p].op = r.op /\ c'[p].path = Rest(r.path)
      /\ c'[p].ip = 0 /\ c'[p].new = r.new
  BY <1>1 DEF call, go, Types
<1>9. ~Creates(p)' /\ LinkIp(c'[p]) = LinkIp(c[p]) /\ WorkingFor(p)'
  BY <1>3, <1>8 DEF Creates, LinkIp, WorkingFor, Has
<1>10. Plain(c'[p].path) /\ Plain(c'[p].new)
  <2>1. PICK s \in Seq(Elem \cup {"/"}) : s = r.path
    BY RequestAssumption DEF Path
  <2>2. Plain(s) /\ Plain(r.new)
    BY <2>1 DEF Tame
  <2> QED
    BY <1>8, <2>1, <2>2, PlainRest
<1>11. Reads(p) /\ NoPanic'
  BY <1>2 DEF Reads, FsInv, NoPanic
<1> QED
  BY <1>2, <1>3, <1>5, <1>7, <1>9, <1>10, <1>11, QuietStep

(* close. *)
LEMMA CloseKeeps ==
  ASSUME FsInv, NEW p \in Proc, close(p)
  PROVE  FsInv'
PROOF
<1>1. MemInv /\ Types /\ Forward /\ WorkingFor(p)
  BY DEF FsInv, MemInv, Working
<1>2. put[p] = <<>> /\ c[p].pc = "idle"
      /\ UNCHANGED <<din, dir, removed, orphans, valid, inode, panic, c>>
  BY DEF close, In, disk, hist, cache
<1>3. ~Creates(p) /\ ~Creates(p)' /\ LinkIp(c'[p]) = LinkIp(c[p]) /\ WorkingFor(p)'
  BY <1>1, <1>2 DEF Creates, LinkIp, WorkingFor
<1>4. Plain(c'[p].path) /\ Plain(c'[p].new)
  BY <1>1, <1>2 DEF Forward
<1>5. Reads(p) /\ NoPanic' /\ Takes(p, 0)
  BY <1>2 DEF Reads, FsInv, NoPanic, Takes
<1> QED
  BY <1>1, <1>2, <1>3, <1>4, <1>5, CloseMove, QuietStep

(* namex of a path without elements. *)
LEMMA EmptyKeeps ==
  ASSUME FsInv, NEW p \in Proc, namex_empty(p)
  PROVE  FsInv'
PROOF
<1>1. MemInv
  BY DEF FsInv
<1>2. /\ put[p] = <<>> /\ c[p].pc = "walk" /\ fails(p)
      /\ UNCHANGED <<din, dir, removed, orphans, valid, inode, panic>>
  BY DEF namex_empty, In, disk, hist, cache
<1>3. Reads(p) /\ Takes(p, 0)
  BY <1>2 DEF Reads, Takes
<1> QED
  BY <1>1, <1>2, <1>3, EmptyMove, FailStep

(* sys_open. *)
LEMMA OpenKeeps ==
  ASSUME FsInv, NEW p \in Proc, sys_open(p)
  PROVE  FsInv'
PROOF
<1>1. MemInv /\ Types
  BY DEF FsInv, MemInv
<1>2. /\ put[p] = <<>> /\ c[p].pc = "target" /\ c[p].op # "link" /\ load(c[p].at)
      /\ c'[p] = Idle /\ UNCHANGED <<din, dir, removed, orphans, panic>>
  BY <1>1 DEF sys_open, In, disk, hist, return, go, Types
<1>3. c[p].at \in Inum /\ ~Creates(p) /\ LinkIp(c[p]) = 0
  BY <1>1, <1>2, MoveBegin DEF Creates, LinkIp
<1>4. Reads(p)
  BY <1>2, <1>3 DEF Reads
<1> QED
  BY <1>1, <1>2, <1>3, <1>4, OpenMove, IdleStep

(* sys_chdir. *)
LEMMA ChdirKeeps ==
  ASSUME FsInv, NEW p \in Proc, sys_chdir(p)
  PROVE  FsInv'
PROOF
<1>1. MemInv /\ Types
  BY DEF FsInv, MemInv
<1>2. /\ put[p] = <<>> /\ c[p].pc = "target" /\ c[p].op # "link" /\ load(c[p].at)
      /\ c'[p] = Idle /\ UNCHANGED <<din, dir, removed, orphans, panic>>
  BY <1>1 DEF sys_chdir, In, disk, hist, return, go, Types
<1>3. c[p].at \in Inum /\ ~Creates(p) /\ LinkIp(c[p]) = 0
  BY <1>1, <1>2, MoveBegin DEF Creates, LinkIp
<1>4. Reads(p)
  BY <1>2, <1>3 DEF Reads
<1> QED
  BY <1>1, <1>2, <1>3, <1>4, ChdirMove, IdleStep

(* One round of namex. *)
LEMMA NamexKeeps ==
  ASSUME FsInv, NEW p \in Proc, namex(p)
  PROVE  FsInv'
PROOF
<1>1. MemInv /\ Types /\ Forward /\ WorkingFor(p)
  BY DEF FsInv, MemInv, Working
<1>2. /\ put[p] = <<>> /\ c[p].pc = "walk" /\ c[p].path # <<>> /\ load(c[p].at)
      /\ UNCHANGED <<din, dir, removed, orphans, panic>>
  BY DEF namex, In, disk, hist
<1>3. /\ c[p].at \in Inum /\ c[p] \in Record /\ ~Creates(p)
  BY <1>1, <1>2, MoveBegin DEF Creates
<1>4. Reads(p) /\ NoPanic' /\ Locked(c[p].at) = din[c[p].at]
  BY <1>2, <1>3, LockedIs DEF Reads, FsInv, NoPanic
<1>5. PICK j : Goes(p, j)
  BY <1>1, NamexMove
<1>6. Types
  BY <1>1
<1>7. PICK k : k = dir[c[p].at][Head(c[p].path)]
  OBVIOUS
<1>8. k \in 0..NINODES /\ (k # 0 => k \in Inum)
  BY <1>1, <1>2, <1>7, Lookup
<1>9. Takes(p, 0) /\ Takes(p, k)
  BY <1>2, <1>7, TakesEntry DEF Takes
<1>10. \/ fails(p) /\ ref' = ref
       \/ /\ go(p, [c[p] EXCEPT !.pc = "parent"]) /\ ref' = ref
          /\ din[c[p].at].type = "dir"
       \/ /\ go(p, [c[p] EXCEPT !.pc = Has(c[p].op, Tail(c[p].path)), !.at = k,
                                !.path = Tail(c[p].path)])
          /\ iget(k) /\ k # 0
  BY <1>4, <1>7 DEF namex, dirlookup
<1>11. CASE fails(p) /\ ref' = ref
  <2>1. j = 0
    BY <1>5, <1>6, <1>11, GoesIs
  <2> QED
    BY <1>2, <1>4, <1>5, <1>9, <1>11, <2>1, FailStep
<1>12. CASE go(p, [c[p] EXCEPT !.pc = "parent"]) /\ ref' = ref /\ din[c[p].at].type = "dir"
  <2>1. j = 0
    BY <1>5, <1>6, <1>12, GoesIs
  <2>2. c'[p] = [c[p] EXCEPT !.pc = "parent"]
    BY <1>6, <1>12 DEF go, Types
  <2>3. /\ c'[p].pc = "parent" /\ c'[p].op = c[p].op /\ c'[p].at = c[p].at /\ c'[p].ip = c[p].ip
        /\ c'[p].path = c[p].path /\ c'[p].new = c[p].new
    BY <1>3, <2>2 DEF Record
  <2>4. ~Creates(p)' /\ LinkIp(c'[p]) = LinkIp(c[p]) /\ WorkingFor(p)'
    BY <1>1, <1>2, <1>12, <2>3 DEF Creates, LinkIp, WorkingFor
  <2>5. Plain(c'[p].path) /\ Plain(c'[p].new)
    BY <1>1, <2>3 DEF Forward
  <2> QED
    BY <1>2, <1>3, <1>4, <1>5, <1>9, <2>1, <2>4, <2>5, QuietStep
<1>13. CASE /\ go(p, [c[p] EXCEPT !.pc = Has(c[p].op, Tail(c[p].path)), !.at = k,
                                  !.path = Tail(c[p].path)])
            /\ iget(k) /\ k # 0
  <2>1. j = k
    BY <1>5, <1>6, <1>8, <1>13, GoesIs
  <2>2. c'[p] = [c[p] EXCEPT !.pc = Has(c[p].op, Tail(c[p].path)), !.at = k,
                !.path = Tail(c[p].path)]
    BY <1>6, <1>13 DEF go, Types
  <2>3. /\ c'[p].pc = Has(c[p].op, Tail(c[p].path)) /\ c'[p].op = c[p].op /\ c'[p].ip = c[p].ip
        /\ c'[p].path = Tail(c[p].path) /\ c'[p].new = c[p].new
    BY <1>3, <2>2 DEF Record
  <2>4. ~Creates(p)' /\ LinkIp(c'[p]) = LinkIp(c[p]) /\ WorkingFor(p)'
    BY <1>1, <1>2, <2>3 DEF Creates, LinkIp, WorkingFor, Has
  <2>5. Plain(c'[p].path) /\ Plain(c'[p].new)
    <3>1. c[p].path \in Seq(Elem) /\ Plain(c[p].path) /\ Plain(c[p].new)
      BY <1>1, <1>3 DEF Forward, Record
    <3> QED
      BY <1>2, <2>3, <3>1, PlainRest
  <2> QED
    BY <1>2, <1>3, <1>4, <1>5, <1>9, <2>1, <2>4, <2>5, QuietStep
<1> QED
  BY <1>10, <1>11, <1>12, <1>13

(* sys_link of a directory. *)
LEMMA LinkDirKeeps ==
  ASSUME FsInv, NEW p \in Proc, link_target(p), Locked(c[p].at).type = "dir"
  PROVE  FsInv'
PROOF
<1>1. MemInv /\ Types
  BY DEF FsInv, MemInv
<1>2. /\ put[p] = <<>> /\ c[p].pc = "target" /\ load(c[p].at) /\ ref' = ref
      /\ c'[p] = Idle /\ UNCHANGED <<din, dir, removed, orphans, panic>>
  BY <1>1 DEF link_target, In, hist, return, go, Types
<1>3. c[p].at \in Inum /\ ~Creates(p) /\ LinkIp(c[p]) = 0
  BY <1>1, <1>2, MoveBegin DEF Creates, LinkIp, Proper
<1>4. Reads(p)
  BY <1>2, <1>3 DEF Reads
<1>5. PICK j : Goes(p, j)
  BY <1>1, LinkMove
<1>6. j = 0
  BY <1>1, <1>2, <1>5, GoesIs
<1> QED
  BY <1>2, <1>3, <1>4, <1>5, <1>6, IdleStep

(* sys_link to a name that is taken. *)
LEMMA LinkThereKeeps ==
  ASSUME FsInv, NEW p \in Proc, link_parent(p), dir[c[p].at][Head(c[p].path)] # 0
  PROVE  FsInv'
PROOF
<1>1. MemInv /\ Types
  BY DEF FsInv, MemInv
<1>2. PICK k : k = dir[c[p].at][Head(c[p].path)]
  OBVIOUS
<1>3. /\ put[p] = <<>> /\ c[p].pc = "parent" /\ load(c[p].at) /\ iget(k) /\ fails(p)
      /\ UNCHANGED <<din, dir, removed, orphans, panic>>
  BY <1>2 DEF link_parent, In, dirlookup
<1>4. c[p].at \in Inum /\ k \in Inum
  BY <1>1, <1>2, <1>3, MoveBegin, Lookup
<1>5. Reads(p) /\ Takes(p, k)
  BY <1>2, <1>3, <1>4, TakesEntry DEF Reads
<1>6. PICK j : Goes(p, j)
  BY <1>1, EntryMove
<1>7. j = k
  BY <1>1, <1>3, <1>4, <1>6, GoesIs
<1> QED
  BY <1>3, <1>5, <1>6, <1>7, FailStep

(* sys_unlink in the directory. *)
LEMMA UnlinkKeeps ==
  ASSUME FsInv, NEW p \in Proc, unlink_parent(p)
  PROVE  FsInv'
PROOF
<1>1. MemInv /\ Types /\ Forward /\ WorkingFor(p)
  BY DEF FsInv, MemInv, Working
<1>2. PICK k : k = dir[c[p].at][Head(c[p].path)]
  OBVIOUS
<1>3. /\ put[p] = <<>> /\ c[p].pc = "parent" /\ c[p].op = "unlink" /\ load(c[p].at)
      /\ UNCHANGED <<din, dir, removed, orphans, panic>>
  BY DEF unlink_parent, In, disk, hist
<1>4. /\ c[p].at \in Inum /\ c[p] \in Record /\ ~Creates(p) /\ LinkIp(c[p]) = 0
      /\ Head(c[p].path) \in Elem /\ (k # 0 => k \in Inum)
  BY <1>1, <1>2, <1>3, MoveBegin, Lookup DEF Creates, LinkIp
<1>5. Reads(p) /\ Takes(p, k) /\ NoPanic'
  BY <1>2, <1>3, <1>4, TakesEntry DEF Reads, FsInv, NoPanic
<1>6. PICK j : Goes(p, j)
  BY <1>1, UnlinkMove
<1>7. CASE MayUnlink(Head(c[p].path)) /\ k # 0
  <2>1. iget(k) /\ c' = [c EXCEPT ![p] = [c[p] EXCEPT !.pc = "child", !.ip = k]]
    BY <1>2, <1>7 DEF unlink_parent, dirlookup, go
  <2>2. j = k
    BY <1>1, <1>4, <1>6, <1>7, <2>1, GoesIs
  <2>3. c'[p] = [c[p] EXCEPT !.pc = "child", !.ip = k]
    BY <1>1, <2>1 DEF Types
  <2>4. /\ c'[p].pc = "child" /\ c'[p].op = "unlink" /\ c'[p].at = c[p].at /\ c'[p].ip = k
        /\ c'[p].path = c[p].path /\ c'[p].new = c[p].new
    BY <1>3, <1>4, <2>3 DEF Record
  <2>5. ~Creates(p)' /\ LinkIp(c'[p]) = LinkIp(c[p])
    BY <1>4, <2>4 DEF Creates, LinkIp
  <2>6. Head(c[p].path) \in Name
    BY <1>4, <1>7 DEF MayUnlink, Elem
  <2>7. valid'[c[p].at]
    BY <1>1, <1>3, <1>4 DEF load, Types
  <2>8. WorkingFor(p)'
    BY <1>1, <1>2, <1>3, <2>4, <2>6, <2>7 DEF WorkingFor
  <2>9. Plain(c'[p].path) /\ Plain(c'[p].new)
    BY <1>1, <2>4 DEF Forward
  <2> QED
    BY <1>3, <1>4, <1>5, <1>6, <2>2, <2>5, <2>8, <2>9, QuietStep
<1>8. CASE ~(MayUnlink(Head(c[p].path)) /\ k # 0)
  <2>1. ref' = ref /\ c' = [c EXCEPT ![p] = Idle]
    BY <1>2, <1>8 DEF unlink_parent, dirlookup, return, go
  <2>2. j = 0
    BY <1>1, <1>6, <2>1, GoesIs
  <2>3. c'[p] = Idle
    BY <1>1, <2>1 DEF Types
  <2> QED
    BY <1>3, <1>4, <1>5, <1>6, <2>2, <2>3, IdleStep
<1> QED
  BY <1>7, <1>8

(* sys_unlink of a directory with a name in it. *)
LEMMA UnlinkFullKeeps ==
  ASSUME FsInv, NEW p \in Proc, unlink_child(p),
         Locked(c[p].ip).type = "dir" /\ ~isdirempty(c[p].ip)
  PROVE  FsInv'
PROOF
<1>1. MemInv /\ Types
  BY DEF FsInv, MemInv
<1>2. /\ put[p] = <<>> /\ c[p].pc = "child" /\ c[p].op = "unlink" /\ load(c[p].ip)
      /\ c'[p] = Idle /\ UNCHANGED <<din, dir, removed, orphans, panic>>
  BY <1>1 DEF unlink_child, In, hist, return, go, disk, Types
<1>3. c[p].ip \in Inum /\ ~Creates(p) /\ LinkIp(c[p]) = 0
  BY <1>1, <1>2, MoveBegin DEF Creates, LinkIp
<1>4. Reads(p)
  BY <1>2, <1>3 DEF Reads
<1> QED
  BY <1>1, <1>2, <1>3, <1>4, RemoveMove, IdleStep

(* create of what is there, or when there is no inode left. *)
LEMMA CreateThereKeeps ==
  ASSUME FsInv, NEW p \in Proc, create_parent(p),
         dir[c[p].at][Head(c[p].path)] # 0 \/ FreeInodes = {}
  PROVE  FsInv'
PROOF
<1>1. MemInv /\ Types /\ Forward /\ WorkingFor(p)
  BY DEF FsInv, MemInv, Working
<1>2. PICK k : k = dir[c[p].at][Head(c[p].path)]
  OBVIOUS
<1>3. /\ put[p] = <<>> /\ c[p].pc = "parent" /\ c[p].op \in {"create", "mkdir", "mknod"}
      /\ load(c[p].at) /\ UNCHANGED <<dir, removed, orphans>>
  BY DEF create_parent, In, hist
<1>4. /\ c[p].at \in Inum /\ c[p] \in Record /\ ~Creates(p) /\ LinkIp(c[p]) = 0
      /\ (k # 0 => k \in Inum)
  BY <1>1, <1>2, <1>3, MoveBegin, Lookup DEF Creates, LinkIp
<1>5. Reads(p)
  BY <1>3, <1>4 DEF Reads
<1>6. PICK j : Goes(p, j)
  BY <1>1, CreateMove
<1>7. CASE k # 0
  <2>1. /\ iget(k) /\ UNCHANGED <<din, panic>>
        /\ c' = [c EXCEPT ![p] = [c[p] EXCEPT !.pc = "target", !.at = k, !.path = <<>>]]
    BY <1>2, <1>7 DEF create_parent, dirlookup, go
  <2>2. j = k /\ Takes(p, k) /\ NoPanic'
    BY <1>1, <1>2, <1>3, <1>4, <1>6, <1>7, <2>1, GoesIs, TakesEntry DEF FsInv, NoPanic
  <2>3. c'[p] = [c[p] EXCEPT !.pc = "target", !.at = k, !.path = <<>>]
    BY <1>1, <2>1 DEF Types
  <2>4. /\ c'[p].pc = "target" /\ c'[p].op = c[p].op /\ c'[p].path = <<>> /\ c'[p].new = c[p].new
    BY <1>3, <1>4, <2>3 DEF Record
  <2>5. ~Creates(p)' /\ LinkIp(c'[p]) = LinkIp(c[p]) /\ WorkingFor(p)'
    BY <1>3, <1>4, <2>4 DEF Creates, LinkIp, WorkingFor
  <2>6. Plain(c'[p].path) /\ Plain(c'[p].new)
    BY <1>1, <2>4 DEF Forward, Plain
  <2> QED
    BY <1>3, <1>4, <1>5, <1>6, <2>1, <2>2, <2>5, <2>6, QuietStep
<1>8. CASE k = 0
  <2>1. ref' = ref /\ UNCHANGED <<c, din>> /\ panic' = "ialloc: no inodes"
    BY <1>2, <1>8 DEF create_parent, dirlookup
  <2>2. j = 0 /\ NoPanic' /\ Takes(p, 0)
    BY <1>1, <1>6, <2>1, GoesIs DEF NoPanic, Takes
  <2>3. ~Creates(p)' /\ LinkIp(c'[p]) = LinkIp(c[p]) /\ WorkingFor(p)'
    BY <1>1, <1>3, <2>1 DEF Creates, LinkIp, WorkingFor
  <2>4. Plain(c'[p].path) /\ Plain(c'[p].new)
    BY <1>1, <2>1 DEF Forward
  <2> QED
    BY <1>3, <1>4, <1>5, <1>6, <2>1, <2>2, <2>3, <2>4, QuietStep
<1> QED
  BY <1>7, <1>8

-----------------------------------------------------------------------------
(* The steps that change the disk *)

(* Writing inodes. *)
LEMMA StoreEffects ==
  ASSUME FsInv, NEW p \in Proc, put[p] = <<>>,
         NEW D \in SUBSET Inum, NEW n \in [D -> InodeType], store(n),
         \A k \in D : Mine(p, k) > 0 /\ n[k].type = din[k].type,
         \A k \in Inum : k \notin D => dir'[k] = dir[k],
         \A k \in D, e \in Name : dir'[k][e] # dir[k][e] => lock[k] \in {p, NoProc},
         \A k \in Inum : Mine(p, k) = 0 => (k \in removed' <=> k \in removed),
         Creates(p) => c[p].ip \in D, orphans' = orphans
  PROVE  Effects(p) /\ \A k \in Inum : din'[k] = IF k \in D THEN n[k] ELSE din[k]
PROOF
<1>1. /\ valid' = [k \in Inum |-> valid[k] \/ k \in D]
      /\ inode' = [k \in Inum |-> IF k \in D THEN n[k] ELSE inode[k]]
      /\ din' = [k \in Inum |-> IF k \in D THEN n[k] ELSE din[k]]
  BY DEF store
<1>2. valid \in [Inum -> BOOLEAN]
  BY DEF FsInv, MemInv, Types
<1>3. \A k \in D : din[k].type # "none"
  BY HeldLive
<1>4. \A k \in Inum : k \in D => Written(p, k)
  <2>1. ASSUME NEW k \in D
        PROVE  Written(p, k)
    <3>1. k \in Inum /\ n[k] \in InodeType
      OBVIOUS
    <3>2. valid'[k] /\ inode'[k] = n[k] /\ din'[k] = n[k]
      BY <1>1, <3>1
    <3> QED
      BY <1>3, <3>1, <3>2 DEF Written
  <2> QED
    BY <2>1
<1>5. \A k \in Inum : k \notin D => Same(k)
  BY <1>1, <1>2 DEF Same
<1>6. din' = [k \in Inum |-> din'[k]] /\ inode' = [k \in Inum |-> inode'[k]]
  BY <1>1
<1>7. \A d \in Inum, e \in Name : dir'[d][e] # dir[d][e] => lock[d] \in {p, NoProc}
  OBVIOUS
<1>8. Creates(p) => valid'[c[p].ip]
  BY <1>1
<1>9. Effects(p)
  BY <1>4, <1>5, <1>6, <1>7, <1>8 DEF Effects
<1> QED
  BY <1>1, <1>9

(* A step that changes the link count of what is not a directory, with the *)
(* links that calls have counted.                                          *)
LEMMA CountKeeps ==
  ASSUME FsInv, NEW p \in Proc, put[p] = <<>>, NEW j, Goes(p, j), Takes(p, j),
         NEW i \in Inum, Mine(p, i) > 0, din[i].type # "dir",
         NEW n \in Nat, NEW m, m = [k \in {i} |-> [din[i] EXCEPT !.nlink = n]], store(m),
         UNCHANGED <<dir, removed, orphans, panic>>, ~Creates(p), ~Creates(p)',
         n - Is(LinkIp(c'[p]), i) = din[i].nlink - Is(LinkIp(c[p]), i),
         \A k \in Inum : k # i => Is(LinkIp(c'[p]), k) = Is(LinkIp(c[p]), k),
         WorkingFor(p)', Plain(c'[p].path), Plain(c'[p].new)
  PROVE  FsInv'
PROOF
<1>1. MemInv /\ Types /\ DiskTypes /\ Forward /\ Dirs /\ Linked /\ Apart /\ Tree /\ Acyclic
  BY DEF FsInv, MemInv
<1>2. din[i].type # "none" /\ din[i] \in InodeType /\ din[i].nlink \in Nat
  BY <1>1, HeldLive DEF DiskTypes, InodeType
<1>3. m \in [{i} -> InodeType] /\ m[i].type = din[i].type /\ m[i].nlink = n
  BY <1>2 DEF InodeType
<1>4. Effects(p) /\ \A k \in Inum : din'[k] = IF k \in {i} THEN m[k] ELSE din[k]
  <2>1. PICK D \in SUBSET Inum : D = {i}
    OBVIOUS
  <2>2. m \in [D -> InodeType] /\ \A k \in D : Mine(p, k) > 0 /\ m[k].type = din[k].type
    BY <1>3, <2>1
  <2> QED
    BY <2>1, <2>2, StoreEffects
<1>5. /\ \A k \in Inum : k # i => din'[k] = din[k]
      /\ din'[i].type = din[i].type /\ din'[i].nlink = n
  BY <1>3, <1>4
<1>6. \A k \in Inum : din'[k].type = din[k].type
  BY <1>5
<1>7. /\ MemInv' /\ DiskTypes' /\ Live' /\ Freeing' /\ Cached' /\ Kept'
      /\ \A q \in Proc : q # p => FreshFor(q)' /\ WorkingFor(q)'
  BY <1>4, MoveKeeps
<1>8. \A q \in Proc : q # p => c'[q] = c[q]
  BY <1>1, MoveEffect DEF Goes, Others
<1>9. Fresh' /\ Working' /\ Forward' /\ NoPanic'
  <2>1. Fresh' /\ Working'
    BY <1>7 DEF Fresh, Working, FreshFor
  <2>2. Forward'
    BY <1>1, ForwardStep
  <2> QED
    BY <2>1, <2>2 DEF FsInv, NoPanic
<1>10. \A k : Creating(k)' <=> Creating(k)
  BY <1>8 DEF Creating, Creates
<1>11. Dirs'
  <2>1. ASSUME NEW k \in Inum
        PROVE  /\ din'[k].type # "dir" => dir'[k] = NoEntry
               /\ din'[k].type = "dir" /\ ~Creating(k)' => dir'[k]["."] = k
               /\ din'[k].type = "none" => din'[k].nlink = 0 /\ k \notin removed'
    BY <1>1, <1>2, <1>5, <1>6, <1>10 DEF Dirs
  <2>2. din'[ROOTINO].type = "dir" /\ dir'[ROOTINO][".."] = ROOTINO
    BY <1>1, <1>6, FirstType DEF Dirs
  <2> QED
    BY <2>1, <2>2 DEF Dirs
<1>12. Linked'
  <2>1. ASSUME NEW k \in Inum
        PROVE  Links(k)' - Is(LinkIp(c'[p]), k) = Links(k) - Is(LinkIp(c[p]), k)
    <3>1. PICK f, g, y, z, t : f = c /\ g = c' /\ y = din /\ z = din' /\ t = dir
      OBVIOUS
    <3>2. Cardinality(LinkersIn(g, k)) - Is(LinkIp(g[p]), k)
            = Cardinality(LinkersIn(f, k)) - Is(LinkIp(f[p]), k)
      BY <1>8, <3>1, LinkersOne
    <3>3. Cardinality(DirsIn(t, z, k)) = Cardinality(DirsIn(t, y, k))
      <4>1. t \in DirType
        BY <1>1, <3>1 DEF Types, DirType
      <4>2. \A a \in Name : t[k][a] # 0 => (z[t[k][a]].type = "dir" <=> y[t[k][a]].type = "dir")
        BY <1>1, <1>6, <3>1, EntryType
      <4> QED
        BY <4>1, <4>2, DirsSame
    <3>4. Links(k)' = Cardinality(NamesIn(t, k)) + Cardinality(DirsIn(t, z, k))
                      + Cardinality(LinkersIn(g, k)) + Root(k)
      BY <3>1 DEF Links, NamesIn, DirsIn, LinkersIn, Root
    <3>5. Links(k) = Cardinality(NamesIn(t, k)) + Cardinality(DirsIn(t, y, k))
                      + Cardinality(LinkersIn(f, k)) + Root(k)
      BY <3>1 DEF Links
    <3>6. /\ Cardinality(LinkersIn(g, k)) \in Nat /\ Cardinality(LinkersIn(f, k)) \in Nat
          /\ Cardinality(NamesIn(t, k)) \in Nat /\ Cardinality(DirsIn(t, y, k)) \in Nat
          /\ Root(k) \in Nat /\ Is(LinkIp(f[p]), k) \in Nat /\ Is(LinkIp(g[p]), k) \in Nat
      BY LinkSetsFinite DEF Is, Root
    <3> QED
      BY <3>1, <3>2, <3>3, <3>4, <3>5, <3>6
  <2>2. \A k \in Inum : /\ Links(k) \in Nat /\ Links(k)' \in Nat /\ din[k].nlink \in Nat
                        /\ Is(LinkIp(c'[p]), k) \in Nat /\ Is(LinkIp(c[p]), k) \in Nat
    BY <1>1, LinkSetsFinite, SMTT(30) DEF Links, Root, DiskTypes, Is
  <2>3. \A k \in Inum : din[k].nlink >= Links(k) /\ (k \notin removed => din[k].nlink = Links(k))
    BY <1>1 DEF Linked
  <2>4. \A k \in Inum : din'[k].nlink - Is(LinkIp(c'[p]), k) = din[k].nlink - Is(LinkIp(c[p]), k)
    BY <1>5
  <2>5. ASSUME NEW k \in Inum
        PROVE  din'[k].nlink >= Links(k)' /\ (k \notin removed => din'[k].nlink = Links(k)')
    <3>1. din'[k].nlink \in Nat
      BY <1>5, <2>2
    <3>2. PICK a, b, l, k1 : /\ a = Is(LinkIp(c[p]), k) /\ b = Is(LinkIp(c'[p]), k)
                             /\ l = Links(k) /\ k1 = Links(k)'
      OBVIOUS
    <3>3. PICK x, y : x = din[k].nlink /\ y = din'[k].nlink
      OBVIOUS
    <3>4. a \in Nat /\ b \in Nat /\ l \in Nat /\ k1 \in Nat /\ x \in Nat /\ y \in Nat
      BY <2>2, <3>1, <3>2, <3>3
    <3>5. k1 - b = l - a /\ y - b = x - a /\ x >= l /\ (k \notin removed => x = l)
      BY <2>1, <2>3, <2>4, <3>2, <3>3
    <3>6. y >= k1 /\ (k \notin removed => y = k1)
      BY <3>4, <3>5
    <3> QED
      BY <3>2, <3>3, <3>6
  <2> QED
    BY <2>5 DEF Linked
<1>13. dir[i] = NoEntry
  BY <1>1 DEF Dirs
<1>14. Apart'
  <2>1. ASSUME NEW d \in Inum, NEW e \in Name, dir[d][e] # 0
        PROVE  /\ d \in removed => dir[d][e] \in removed
               /\ d \notin removed => ~(din'[dir[d][e]].type = "dir" /\ dir[d][e] \in removed)
    <3>1. dir[d][e] \in Inum
      BY <1>1, <2>1, EntryType
    <3> QED
      BY <1>1, <1>6, <2>1, <3>1 DEF Apart, IsDir
  <2>2. ASSUME NEW d \in Inum, d \notin removed, din'[d].nlink = 0, NEW e \in Name
        PROVE  dir[d][e] = 0
    <3>1. CASE d = i
      BY <1>1, <1>13, <3>1, EntryType DEF NoEntry
    <3>2. CASE d # i
      BY <1>1, <1>5, <2>2, <3>2 DEF Apart
    <3> QED
      BY <3>1, <3>2
  <2> QED
    BY <2>1, <2>2 DEF Apart, IsDir
<1>15. Tree'
  <2>1. \A d \in Inum, e \in Name : dir[d][e] # 0 => (din'[dir[d][e]].type = "dir" <=> IsDir(dir[d][e]))
    BY <1>1, <1>6, EntryType DEF IsDir
  <2>2. \A k \in Inum : din'[k].type = "dir" => IsDir(k) /\ din'[k] = din[k]
    BY <1>5, <1>6 DEF IsDir
  <2> QED
    BY <1>1, <2>1, <2>2 DEF Tree, IsDir
<1>16. Acyclic'
  BY <1>1 DEF Acyclic
<1> QED
  BY <1>7, <1>9, <1>11, <1>12, <1>14, <1>15, <1>16 DEF FsInv

(* sys_link counts a link. *)
LEMMA LinkKeeps ==
  ASSUME FsInv, NEW p \in Proc, link_target(p), Locked(c[p].at).type # "dir"
  PROVE  FsInv'
PROOF
<1>1. MemInv /\ Types /\ DiskTypes /\ Forward
  BY DEF FsInv, MemInv
<1>2. put[p] = <<>> /\ c[p].pc = "target" /\ c[p].op = "link"
  BY DEF link_target, In
<1>3. PICK i \in Inum : i = c[p].at
  BY <1>1, <1>2, MoveBegin
<1>4. c[p] \in Record /\ c[p].ip = 0 /\ ~Creates(p) /\ Mine(p, i) > 0 /\ Locked(i) = din[i]
  BY <1>1, <1>2, <1>3, MoveBegin, MineIs, LockedIs DEF Creates, Proper
<1>5. PICK d \in Inum : d = First(p, c[p].new) /\ d \in {ROOTINO, cwd[p]}
  BY <1>1, FirstType
<1>6. PICK n \in Nat : n = din[i].nlink + 1
  BY <1>1 DEF DiskTypes
<1>6a. PICK u : u = Rest(c[p].new)
  OBVIOUS
<1>7. /\ store([k \in {i} |-> [Locked(k) EXCEPT !.nlink = @ + 1]])
      /\ c' = [c EXCEPT ![p] = [c[p] EXCEPT !.pc = "walk", !.at = d, !.path = u, !.ip = i]]
      /\ iget(d) /\ UNCHANGED <<dir, removed, orphans, panic>>
  BY <1>3, <1>5, <1>6a DEF link_target, go, hist
<1>8. PICK m : m = [k \in {i} |-> [din[i] EXCEPT !.nlink = n]] /\ store(m)
  <2>1. [k \in {i} |-> [Locked(k) EXCEPT !.nlink = @ + 1]] = [k \in {i} |-> [din[i] EXCEPT !.nlink = n]]
    BY <1>4, <1>6
  <2> QED
    BY <1>7, <2>1
<1>9. PICK j : Goes(p, j)
  BY <1>1, LinkMove
<1>10. j = d
  BY <1>1, <1>7, <1>9, GoesIs
<1>11. \A k \in Inum : din'[k].type = din[k].type
  <2>1. din' = [k \in Inum |-> IF k \in {i} THEN m[k] ELSE din[k]]
    BY <1>8 DEF store
  <2>2. m[i].type = din[i].type
    BY <1>1, <1>8 DEF DiskTypes
  <2> QED
    BY <2>1, <2>2
<1>12. Takes(p, j)
  BY <1>2, <1>5, <1>10, <1>11, TakesStart
<1>13. /\ c'[p].pc = "walk" /\ c'[p].op = "link" /\ c'[p].ip = i /\ c'[p].path = u
       /\ c'[p].new = c[p].new
  <2>1. c'[p] = [c[p] EXCEPT !.pc = "walk", !.at = d, !.path = u, !.ip = i]
    BY <1>1, <1>7 DEF Types
  <2> QED
    BY <1>2, <1>4, <2>1 DEF Record
<1>14. ~Creates(p)' /\ LinkIp(c'[p]) = i /\ LinkIp(c[p]) = 0
  BY <1>4, <1>13 DEF Creates, LinkIp
<1>15. /\ n - Is(LinkIp(c'[p]), i) = din[i].nlink - Is(LinkIp(c[p]), i)
       /\ \A k \in Inum : k # i => Is(LinkIp(c'[p]), k) = Is(LinkIp(c[p]), k)
  <2>1. din[i].nlink \in Nat
    BY <1>1 DEF DiskTypes
  <2> QED
    BY <1>6, <1>14, <2>1 DEF Is, Inum
<1>16. WorkingFor(p)'
  BY <1>3, <1>4, <1>11, <1>13 DEF WorkingFor
<1>17. Plain(c'[p].path) /\ Plain(c'[p].new)
  <2>1. c[p].new \in Seq(Elem \cup {"/"}) /\ Plain(c[p].new)
    BY <1>1, <1>4 DEF Record, Path, Forward
  <2> QED
    BY <1>6a, <1>13, <2>1, PlainRest
<1>18. din[i].type # "dir"
  BY <1>3, <1>4
<1> QED
  BY <1>2, <1>4, <1>7, <1>8, <1>9, <1>12, <1>14, <1>15, <1>16, <1>17, <1>18, CountKeeps

(* sys_link takes its link back. *)
LEMMA BadKeeps ==
  ASSUME FsInv, NEW p \in Proc, link_bad(p)
  PROVE  FsInv'
PROOF
<1>1. MemInv /\ Types /\ DiskTypes /\ Linked /\ WorkingFor(p)
  BY DEF FsInv, MemInv, Working
<1>2. put[p] = <<>> /\ c[p].pc = "link_bad"
  BY DEF link_bad, In
<1>3. PICK i \in Inum : i = c[p].ip
  BY <1>1, <1>2, MoveBegin
<1>4. c[p].op = "link" /\ ~Creates(p) /\ Mine(p, i) > 0 /\ Locked(i) = din[i] /\ LinkIp(c[p]) = i
  BY <1>1, <1>2, <1>3, MoveBegin, MineIs, LockedIs DEF Creates, Proper, LinkIp
<1>5. din[i].nlink \in Nat /\ din[i].nlink > 0
  BY <1>1, <1>3, <1>4, HasLink
<1>6. PICK n \in Nat : n = din[i].nlink - 1
  BY <1>5
<1>7. /\ store([k \in {i} |-> [Locked(k) EXCEPT !.nlink = @ - 1]])
      /\ c'[p] = Idle /\ UNCHANGED <<dir, removed, orphans, panic>>
  BY <1>1, <1>3 DEF link_bad, return, go, hist, Types
<1>8. PICK m : m = [k \in {i} |-> [din[i] EXCEPT !.nlink = n]] /\ store(m)
  <2>1. [k \in {i} |-> [Locked(k) EXCEPT !.nlink = @ - 1]] = [k \in {i} |-> [din[i] EXCEPT !.nlink = n]]
    BY <1>4, <1>6
  <2> QED
    BY <1>7, <2>1
<1>9. Goes(p, 0) /\ Takes(p, 0)
  BY <1>1, BadMove DEF Takes
<1>10. /\ c'[p].pc = "idle" /\ c'[p].op = "none" /\ c'[p].ip = 0
       /\ c'[p].path = <<>> /\ c'[p].new = <<>>
  BY <1>7, IdleIs
<1>11. ~Creates(p)' /\ LinkIp(c'[p]) = 0 /\ WorkingFor(p)'
  BY <1>10 DEF Creates, LinkIp, WorkingFor
<1>12. Plain(c'[p].path) /\ Plain(c'[p].new)
  BY <1>10 DEF Plain
<1>13. /\ n - Is(LinkIp(c'[p]), i) = din[i].nlink - Is(LinkIp(c[p]), i)
       /\ \A k \in Inum : k # i => Is(LinkIp(c'[p]), k) = Is(LinkIp(c[p]), k)
  BY <1>4, <1>5, <1>6, <1>11 DEF Is, Inum
<1>14. din[i].type # "dir"
  BY <1>1, <1>3, <1>4 DEF WorkingFor, Inum
<1> QED
  BY <1>2, <1>4, <1>7, <1>8, <1>9, <1>11, <1>12, <1>13, <1>14, CountKeeps

(* What an entry of a directory and a call add to the links of an inode. *)
LinksOf(t, y, f, k) ==
  Cardinality(NamesIn(t, k)) + Cardinality(DirsIn(t, y, k)) + Cardinality(LinkersIn(f, k)) + Root(k)
Part(x, y, t, d, e, k) ==
  Is(LinkIp(x), k) + Is(t[d][e], k) + (IF k = d THEN IsDirIn(y, t[d][e]) ELSE 0)

(* At most one entry differs, and at most one call. *)
Differ(t, u, y, z, d, e) ==
  \A k \in Inum, a \in Name : ~(k = d /\ a = e) =>
    /\ u[k][a] = t[k][a]
    /\ t[k][a] # 0 => (z[t[k][a]].type = "dir" <=> y[t[k][a]].type = "dir")
OneCall(f, g, p) == \A q \in Proc : q # p => g[q] = f[q]
OneEntry(d, e) == Differ(dir, dir', din, din', d, e)

LEMMA LinksStep ==
  ASSUME NEW t \in DirType, NEW u \in DirType, NEW y, NEW z, NEW f, NEW g, NEW p \in Proc,
         OneCall(f, g, p), NEW d \in Inum, NEW e \in Name,
         Differ(t, u, y, z, d, e), NEW k \in Inum
  PROVE  /\ LinksOf(u, z, g, k) \in Nat /\ LinksOf(t, y, f, k) \in Nat
         /\ Part(g[p], z, u, d, e, k) \in Nat /\ Part(f[p], y, t, d, e, k) \in Nat
         /\ LinksOf(u, z, g, k) - Part(g[p], z, u, d, e, k)
              = LinksOf(t, y, f, k) - Part(f[p], y, t, d, e, k)
PROOF
<1>1. PICK n1, n2 : n1 = Cardinality(NamesIn(t, k)) /\ n2 = Cardinality(NamesIn(u, k))
  OBVIOUS
<1>2. PICK d1, d2 : d1 = Cardinality(DirsIn(t, y, k)) /\ d2 = Cardinality(DirsIn(u, z, k))
  OBVIOUS
<1>3. PICK l1, l2 : l1 = Cardinality(LinkersIn(f, k)) /\ l2 = Cardinality(LinkersIn(g, k))
  OBVIOUS
<1>4. PICK a1, a2, b1, b2 : /\ a1 = Is(t[d][e], k) /\ a2 = Is(u[d][e], k)
                            /\ b1 = Is(LinkIp(f[p]), k) /\ b2 = Is(LinkIp(g[p]), k)
  OBVIOUS
<1>5. PICK c1, c2 : /\ c1 = IF k = d THEN IsDirIn(y, t[d][e]) ELSE 0
                    /\ c2 = IF k = d THEN IsDirIn(z, u[d][e]) ELSE 0
  OBVIOUS
<1>6. /\ n1 \in Nat /\ n2 \in Nat /\ d1 \in Nat /\ d2 \in Nat /\ l1 \in Nat /\ l2 \in Nat
  BY <1>1, <1>2, <1>3, LinkSetsFinite
<1>7. /\ a1 \in Nat /\ a2 \in Nat /\ b1 \in Nat /\ b2 \in Nat /\ c1 \in Nat /\ c2 \in Nat
      /\ Root(k) \in Nat
  BY <1>4, <1>5 DEF Is, IsDirIn, Root
<1>8. n2 - a2 = n1 - a1
  <2>1. \A m \in Inum, a \in Name : ~(m = d /\ a = e) => u[m][a] = t[m][a]
    BY DEF Differ
  <2> QED
    BY <1>1, <1>4, <2>1, NamesOne
<1>9. l2 - b2 = l1 - b1
  BY <1>3, <1>4, LinkersOne DEF OneCall
<1>10. d2 - c2 = d1 - c1
  <2>1. CASE k = d
    <3>1. \A a \in Name : a # e => /\ u[d][a] = t[d][a]
                                   /\ t[d][a] # 0 => (z[t[d][a]].type = "dir" <=> y[t[d][a]].type = "dir")
      BY DEF Differ
    <3>2. Cardinality(DirsIn(u, z, d)) - IsDirIn(z, u[d][e])
           = Cardinality(DirsIn(t, y, d)) - IsDirIn(y, t[d][e])
      BY <3>1, DirsOne
    <3> QED
      BY <1>2, <1>5, <2>1, <3>2
  <2>2. CASE k # d
    <3>1. \A a \in Name : /\ u[k][a] = t[k][a]
                          /\ t[k][a] # 0 => (z[t[k][a]].type = "dir" <=> y[t[k][a]].type = "dir")
      BY <2>2 DEF Differ
    <3>2. d2 = d1
      BY <1>2, <3>1, DirsSame
    <3> QED
      BY <1>5, <1>6, <2>2, <3>2
  <2> QED
    BY <2>1, <2>2
<1>11. LinksOf(u, z, g, k) = n2 + d2 + l2 + Root(k) /\ LinksOf(t, y, f, k) = n1 + d1 + l1 + Root(k)
  BY <1>1, <1>2, <1>3 DEF LinksOf
<1>12. Part(g[p], z, u, d, e, k) = b2 + a2 + c2 /\ Part(f[p], y, t, d, e, k) = b1 + a1 + c1
  BY <1>4, <1>5 DEF Part
<1> QED
  BY <1>6, <1>7, <1>8, <1>9, <1>10, <1>11, <1>12

(* The link counts follow. *)
LEMMA LinkedStep ==
  ASSUME Types, Types', DiskTypes, DiskTypes', Linked, NEW p \in Proc,
         \A q \in Proc : q # p => c'[q] = c[q], NEW d \in Inum, NEW e \in Name, OneEntry(d, e),
         \A k \in removed : k \in removed',
         \A k \in Inum : din'[k].nlink - Part(c'[p], din', dir', d, e, k)
                           = din[k].nlink - Part(c[p], din, dir, d, e, k)
  PROVE  Linked'
PROOF
<1>1. PICK f, g, y, z, t, u : /\ f = c /\ g = c' /\ y = din /\ z = din' /\ t = dir /\ u = dir'
  OBVIOUS
<1>2. t \in DirType /\ u \in DirType
  BY <1>1 DEF Types, DirType
<1>3. Differ(t, u, y, z, d, e)
  BY <1>1 DEF OneEntry
<1>4. OneCall(f, g, p)
  BY <1>1 DEF OneCall
<1>5. ASSUME NEW k \in Inum
      PROVE  din'[k].nlink >= Links(k)' /\ (k \notin removed' => din'[k].nlink = Links(k)')
  <2>1. PICK l1, l2, a1, a2 : /\ l1 = LinksOf(t, y, f, k) /\ l2 = LinksOf(u, z, g, k)
                              /\ a1 = Part(f[p], y, t, d, e, k) /\ a2 = Part(g[p], z, u, d, e, k)
    OBVIOUS
  <2>2. l1 \in Nat /\ l2 \in Nat /\ a1 \in Nat /\ a2 \in Nat /\ l2 - a2 = l1 - a1
    <3>1. /\ LinksOf(u, z, g, k) \in Nat /\ LinksOf(t, y, f, k) \in Nat
          /\ Part(g[p], z, u, d, e, k) \in Nat /\ Part(f[p], y, t, d, e, k) \in Nat
          /\ LinksOf(u, z, g, k) - Part(g[p], z, u, d, e, k)
               = LinksOf(t, y, f, k) - Part(f[p], y, t, d, e, k)
      BY <1>2, <1>3, <1>4, LinksStep
    <3> QED
      BY <2>1, <3>1
  <2>3. l1 = Links(k)
    BY <1>1, <2>1 DEF Links, LinksOf
  <2>4. l2 = Links(k)'
    BY <1>1, <2>1 DEF Links, LinksOf
  <2>5. PICK m1, m2 : m1 = y[k].nlink /\ m2 = z[k].nlink
    OBVIOUS
  <2>6. m1 \in Nat /\ m2 \in Nat
    BY <1>1, <2>5 DEF DiskTypes
  <2>7. m1 >= l1 /\ (k \notin removed => m1 = l1)
    BY <1>1, <2>3, <2>5 DEF Linked
  <2>8. m2 - a2 = m1 - a1
    BY <1>1, <2>1, <2>5
  <2>9. m2 >= l2 /\ (k \notin removed => m2 = l2)
    BY <2>2, <2>6, <2>7, <2>8
  <2> QED
    BY <1>1, <2>4, <2>5, <2>9
<1> QED
  BY <1>5 DEF Linked

(* An entry is written, in a directory that is removed or not. *)
Inserts(d, e, i) ==
  /\ d # i /\ dir[d][e] = 0 /\ dir'[d][e] = i
  /\ \A k \in Inum, a \in Name : ~(k = d /\ a = e) => dir'[k][a] = dir[k][a]
  /\ \A k \in Inum : k # i => dir'[k][".."] = dir[k][".."]
  /\ \A a \in Name : dir[i][a] = 0
  /\ \A k \in Inum : /\ din'[k].type = din[k].type /\ din'[k].nlink >= din[k].nlink
                     /\ k # i /\ k # d => din'[k].nlink = din[k].nlink
  /\ IsDir(i) => din[i].nlink = 0 /\ dir'[i][".."] = d /\ i \notin removed
  /\ removed' = removed \cup (IF din[d].nlink = 0 \/ d \in removed THEN {d, i} ELSE {})

LEMMA InsertKeeps ==
  ASSUME FsInv, NEW d \in Inum, NEW e \in Name, NEW i \in Inum, Inserts(d, e, i), DiskTypes'
  PROVE  Apart' /\ Tree' /\ Acyclic'
PROOF
<1>1. Types /\ DiskTypes /\ Linked /\ Apart /\ Tree /\ Acyclic
  BY DEF FsInv, MemInv
<1>2. /\ d # i /\ dir[d][e] = 0 /\ dir'[d][e] = i /\ i # 0 /\ d # 0
      /\ \A k \in Inum, a \in Name : ~(k = d /\ a = e) => dir'[k][a] = dir[k][a]
      /\ \A k \in Inum : k # i => dir'[k][".."] = dir[k][".."]
      /\ \A a \in Name : dir[i][a] = 0
  BY DEF Inserts, Inum
<1>3. IsDir(i) => /\ dir'[i][".."] = d /\ i \notin removed
                  /\ \A k \in Inum, a \in Name : dir[k][a] # i
  BY <1>1, HasLink DEF Inserts
<1>4. din[d].nlink = 0 => /\ \A k \in Inum, a \in Name : dir[k][a] # d
                          /\ d \notin removed => \A a \in Name : dir[d][a] = 0
  BY <1>1, HasLink DEF Apart
<1>5. \A k \in Inum : (din'[k].type = "dir" <=> IsDir(k)) /\ din[k].nlink \in Nat /\ din'[k].nlink \in Nat
  BY <1>1 DEF Inserts, IsDir, DiskTypes
<1>6. /\ removed \subseteq removed'
      /\ \A k : k \in removed' /\ k \notin removed => k \in {d, i} /\ (din[d].nlink = 0 \/ d \in removed)
      /\ d \in removed' => i \in removed'
      /\ d \notin removed' => din[d].nlink # 0
  BY DEF Inserts
<1>7. \A k \in Inum, a \in Name : dir[k][a] # 0 => dir[k][a] \in Inum
  BY <1>1, EntryType
<1>8. Apart'
  <2>1. ASSUME NEW k \in Inum, NEW a \in Name, dir'[k][a] # 0
        PROVE  /\ k \in removed' => dir'[k][a] \in removed'
               /\ k \notin removed' => ~(din'[dir'[k][a]].type = "dir" /\ dir'[k][a] \in removed')
    <3>1. CASE k = d /\ a = e
      BY <1>2, <1>3, <1>5, <1>6, <3>1
    <3>2. CASE ~(k = d /\ a = e)
      <4>0. dir'[k][a] = dir[k][a] /\ dir[k][a] # 0 /\ dir[k][a] \in Inum
        BY <1>2, <1>7, <2>1, <3>2
      <4>1. PICK x \in Inum : x = dir[k][a] /\ x = dir'[k][a] /\ x # 0
        BY <4>0
      <4>2. /\ k \in removed => x \in removed
            /\ k \notin removed => ~(IsDir(x) /\ x \in removed)
        <5>1. /\ k \in removed => dir[k][a] \in removed
              /\ k \notin removed => ~(IsDir(dir[k][a]) /\ dir[k][a] \in removed)
          BY <1>1, <4>0 DEF Apart
        <5> QED
          BY <4>1, <5>1 DEF IsDir
      <4>3. k \in removed' => x \in removed'
        BY <1>2, <1>4, <1>6, <2>1, <4>1, <4>2
      <4>4. k \notin removed' => ~(din'[x].type = "dir" /\ x \in removed')
        <5>1. ASSUME k \notin removed', IsDir(x), x \in removed'
              PROVE  FALSE
          <6>1. x \notin removed
            BY <1>6, <4>2, <5>1
          <6>2. CASE x = i
            <7>1. IsDir(i)
              BY <5>1, <6>2
            <7> QED
              BY <1>3, <4>0, <4>1, <6>2, <7>1
          <6>3. CASE x = d
            BY <1>4, <1>6, <4>0, <4>1, <5>1, <6>1, <6>3
          <6> QED
            BY <1>6, <5>1, <6>1, <6>2, <6>3
        <5> QED
          BY <1>5, <5>1
      <4> QED
        BY <4>1, <4>3, <4>4
    <3> QED
      BY <3>1, <3>2
  <2>2. ASSUME NEW k \in Inum, k \notin removed', din'[k].nlink = 0, NEW a \in Name
        PROVE  dir'[k][a] = 0
    <3>1. din[k].nlink = 0
      BY <1>5, <2>2 DEF Inserts
    <3>2. k # d
      BY <1>6, <2>2, <3>1
    <3>3. dir[k][a] = 0
      BY <1>1, <1>6, <2>2, <3>1 DEF Apart
    <3> QED
      BY <1>2, <3>2, <3>3
  <2>3. \A k \in Inum \ removed' : din'[k].nlink = 0 => \A a \in Name : dir'[k][a] = 0
    BY <2>2
  <2> QED
    BY <2>1, <2>3 DEF Apart, IsDir
<1>9. Tree'
  <2>1. ASSUME NEW k \in Inum, NEW f \in Inum, NEW a \in Name, NEW g \in Name,
               dir'[k][a] # 0, din'[dir'[k][a]].type = "dir", dir'[f][g] = dir'[k][a]
        PROVE  k = f /\ a = g
    <3>1. CASE dir'[k][a] = i /\ IsDir(i)
      BY <1>2, <1>3, <2>1, <3>1
    <3>2. CASE ~(dir'[k][a] = i /\ IsDir(i))
      <4>1. dir'[k][a] # i
        BY <1>5, <2>1, <3>2
      <4>0. ~(k = d /\ a = e) /\ ~(f = d /\ g = e)
        BY <1>2, <2>1, <4>1
      <4>00. dir'[k][a] = dir[k][a] /\ dir[f][g] = dir[k][a] /\ dir[k][a] \in Inum
        BY <1>2, <1>7, <2>1, <4>0
      <4>2. PICK x \in Inum : x = dir[k][a] /\ x = dir'[k][a] /\ x = dir[f][g]
        BY <4>00
      <4>3. IsDir(x) /\ x # 0
        BY <1>5, <2>1, <4>2
      <4> QED
        <5>1. IsDir(dir[k][a]) /\ dir[k][a] # 0
          BY <4>2, <4>3 DEF IsDir
        <5> QED
          BY <1>1, <4>00, <5>1 DEF Tree
    <3> QED
      BY <3>1, <3>2
  <2>2. ASSUME NEW k \in Inum, NEW a \in Name, dir'[k][a] # 0, din'[dir'[k][a]].type = "dir"
        PROVE  dir'[dir'[k][a]][".."] = k
    <3>1. CASE k = d /\ a = e
      BY <1>2, <1>3, <1>5, <2>2, <3>1
    <3>2. CASE ~(k = d /\ a = e)
      <4>0. dir'[k][a] = dir[k][a] /\ dir[k][a] # 0 /\ dir[k][a] \in Inum
        BY <1>2, <1>7, <2>2, <3>2
      <4>1. PICK x \in Inum : x = dir[k][a] /\ x = dir'[k][a]
        BY <4>0
      <4>2. IsDir(x) /\ x # 0
        BY <1>5, <2>2, <4>1
      <4>3. dir[x][".."] = k
        <5>1. IsDir(dir[k][a])
          BY <4>1, <4>2 DEF IsDir
        <5>2. dir[dir[k][a]][".."] = k
          BY <1>1, <4>0, <5>1 DEF Tree
        <5> QED
          BY <4>1, <5>2
      <4>4. x # i
        BY <1>3, <4>1, <4>2
      <4> QED
        BY <1>2, <4>1, <4>3, <4>4
    <3> QED
      BY <3>1, <3>2
  <2>3. ASSUME NEW k \in Inum, k \notin removed', k # ROOTINO, din'[k].type = "dir", din'[k].nlink > 0
        PROVE  dir'[k][".."] # 0 /\ \E a \in Name : dir'[dir'[k][".."]][a] = k
    <3>1. CASE k = i
      BY <1>2, <1>3, <1>5, <2>3, <3>1
    <3>2. CASE k # i
      <4>1. din[k].nlink > 0 /\ IsDir(k) /\ k \notin removed /\ k # 0
        <5>1. CASE k = d
          BY <1>2, <1>5, <1>6, <2>3, <5>1
        <5>2. CASE k # d
          <6>1. din'[k].nlink = din[k].nlink
            BY <3>2, <5>2 DEF Inserts
          <6> QED
            BY <1>5, <1>6, <2>3, <6>1 DEF Inum
        <5> QED
          BY <5>1, <5>2
      <4>2. dir[k][".."] # 0 /\ \E a \in Name : dir[dir[k][".."]][a] = k
        BY <1>1, <2>3, <4>1 DEF Tree
      <4>3. PICK b \in Inum : b = dir[k][".."] /\ b = dir'[k][".."] /\ b # 0
        BY <1>1, <1>2, <3>2, <4>2, EntryType
      <4>4. PICK a \in Name : dir[b][a] = k
        BY <4>2, <4>3
      <4>5. dir'[b][a] = k
        BY <1>2, <4>1, <4>4
      <4> QED
        BY <4>3, <4>5
    <3> QED
      BY <3>1, <3>2
  <2> QED
    BY <2>1, <2>2, <2>3 DEF Tree, IsDir
<1>10. Acyclic'
  <2>1. ASSUME NEW S \in SUBSET Inum, S # {}
        PROVE  \E k \in S : \A a \in Name : dir'[k][a] \notin S
    <3>1. CASE i \in S
      <4>1. \A a \in Name : dir'[i][a] = 0
        BY <1>2
      <4>2. 0 \notin S
        BY DEF Inum
      <4> QED
        BY <3>1, <4>1, <4>2
    <3>2. CASE i \notin S
      <4>1. PICK k \in S : \A a \in Name : dir[k][a] \notin S
        BY <1>1, <2>1 DEF Acyclic
      <4>2. \A a \in Name : dir'[k][a] \notin S
        BY <1>2, <3>2, <4>1
      <4> QED
        BY <4>2
    <3> QED
      BY <3>1, <3>2
  <2> QED
    BY <2>1 DEF Acyclic
<1> QED
  BY <1>8, <1>9, <1>10

(* Reading an inode writes what it is. *)
LEMMA LoadStores ==
  ASSUME FsInv, NEW i \in Inum, load(i), din' = din
  PROVE  store([k \in {i} |-> din[k]])
PROOF
<1>1. /\ valid \in [Inum -> BOOLEAN] /\ inode \in [Inum -> InodeType] /\ din \in [Inum -> InodeType]
  BY DEF FsInv, MemInv, Types, DiskTypes, InodeType
<1>2. Locked(i) = din[i]
  BY LockedIs
<1>3. valid' = [valid EXCEPT ![i] = TRUE] /\ inode' = [inode EXCEPT ![i] = din[i]]
  BY <1>2 DEF load
<1>4. PICK m : m = [k \in {i} |-> din[k]]
  OBVIOUS
<1>5. DOMAIN m = {i} /\ m[i] = din[i]
  BY <1>4
<1>6. store(m)
  BY <1>1, <1>3, <1>5 DEF store
<1> QED
  BY <1>4, <1>6

(* sys_link writes the entry. *)
LEMMA EntryKeeps ==
  ASSUME FsInv, NEW p \in Proc, link_parent(p), dir[c[p].at][Head(c[p].path)] = 0
  PROVE  FsInv'
PROOF
<1>1. MemInv /\ Types /\ DiskTypes /\ Forward /\ WorkingFor(p) /\ Linked /\ Dirs
  BY DEF FsInv, MemInv, Working
<1>2. put[p] = <<>> /\ c[p].pc = "parent" /\ c[p].op = "link" /\ CanLock(c[p].at)
  BY DEF link_parent, In
<1>3. PICK d \in Inum : d = c[p].at
  BY <1>1, <1>2, MoveBegin
<1>4. PICK i \in Inum : i = c[p].ip
  <2>1. Proper(c[p], put[p], stage[p], file[p]) /\ c[p].ip \in 0..NINODES
    BY <1>1, <1>2, MoveBegin
  <2> QED
    BY <1>2, <2>1 DEF Proper, OfParent, Inum
<1>5. /\ Mine(p, d) > 0 /\ Mine(p, i) > 0 /\ ~Creates(p) /\ Locked(d) = din[d] /\ lock[d] = NoProc
      /\ IsDir(d) /\ din[i].type # "dir" /\ LinkIp(c[p]) = i
  BY <1>1, <1>2, <1>3, <1>4, MineIs, LockedIs
     DEF Creates, CanLock, Unlocked, WorkingFor, LinkIp, IsDir, Inum
<1>6. /\ din[d].type # "none" /\ din[i].type # "none"
      /\ \A q \in Proc : q # p => ~Owns(q, d) /\ ~Owns(q, i)
  BY <1>2, <1>5, HeldLive
<1>7. PICK e \in Name : e = Head(c[p].path) /\ dir[d][e] = 0
  <2>1. /\ c[p].path \in Seq(Elem) /\ c[p].path # <<>> /\ Head(c[p].path) \in Elem
    BY <1>1, <1>2, Lookup
  <2>2. Head(c[p].path) # ".."
    BY <1>1, <2>1 DEF Forward, Plain
  <2>3. ~Creating(d)
    BY <1>5, <1>6 DEF Creating, Owns
  <2>4. dir[d]["."] = d /\ d # 0
    BY <1>1, <1>5, <2>3 DEF Dirs, IsDir, Inum
  <2> QED
    BY <1>3, <2>1, <2>2, <2>4 DEF Elem, Dots
<1>8. /\ load(d) /\ dir' = dirlink(dir, d, e, i) /\ c'[p] = Idle /\ ref' = ref
      /\ removed' = removed \cup (IF din[d].nlink = 0 \/ d \in removed THEN {d, i} ELSE {})
      /\ UNCHANGED <<din, orphans, panic>>
  <2>1. c' = [c EXCEPT ![p] = Idle]
    BY <1>3, <1>7 DEF link_parent, dirlookup, return, go
  <2>2. c'[p] = Idle
    BY <1>1, <2>1 DEF Types
  <2> QED
    BY <1>3, <1>4, <1>5, <1>7, <2>2 DEF link_parent, dirlookup
<1>9. \A k \in Inum, a \in Elem : dir'[k][a] = IF k = d /\ a = e THEN i ELSE dir[k][a]
  <2>1. dir \in [Inum -> [Elem -> 0..NINODES]] /\ e \in Elem /\ i \in 0..NINODES
    BY <1>1, EntryType DEF Types, Inum
  <2>2. PICK t : t = dir
    OBVIOUS
  <2>3. \A k \in Inum, a \in Elem : dirlink(t, d, e, i)[k][a] = IF k = d /\ a = e THEN i ELSE t[k][a]
    BY <2>1, <2>2 DEF dirlink
  <2> QED
    BY <1>8, <2>2, <2>3
<1>10. d # i /\ d # 0 /\ i # 0 /\ e \in Elem /\ e # "." /\ e # ".." /\ "." \in Elem /\ ".." \in Elem
  BY <1>1, <1>5, EntryType DEF IsDir, Inum
<1>11. \A k \in Inum : k # d => dir'[k] = dir[k]
  BY <1>1, <1>8 DEF Types, dirlink
<1>12. Goes(p, 0) /\ Takes(p, 0)
  <2>1. PICK j : Goes(p, j)
    BY <1>1, EntryMove
  <2> QED
    BY <1>1, <1>8, <2>1, GoesIs DEF Takes
<1>13. Effects(p)
  <2>0. PICK D \in SUBSET Inum : D = {d}
    OBVIOUS
  <2>1. PICK m : m = [k \in D |-> din[k]]
    OBVIOUS
  <2>2. store(m)
    BY <1>8, <2>0, <2>1, LoadStores
  <2>3. m \in [D -> InodeType] /\ \A k \in D : Mine(p, k) > 0 /\ m[k].type = din[k].type
    BY <1>1, <1>5, <2>0, <2>1 DEF DiskTypes, InodeType
  <2>4. \A k \in Inum : Mine(p, k) = 0 => (k \in removed' <=> k \in removed)
    BY <1>5, <1>8
  <2>5. \A k \in Inum : k \notin D => dir'[k] = dir[k]
    BY <1>11, <2>0
  <2>6. \A k \in D, a \in Name : dir'[k][a] # dir[k][a] => lock[k] \in {p, NoProc}
    BY <1>5, <2>0
  <2> QED
    BY <1>2, <1>5, <1>8, <2>2, <2>3, <2>4, <2>5, <2>6, StoreEffects
<1>14. /\ MemInv' /\ DiskTypes' /\ Live' /\ Freeing' /\ Cached' /\ Kept'
       /\ \A q \in Proc : q # p => FreshFor(q)' /\ WorkingFor(q)'
  BY <1>12, <1>13, MoveKeeps
<1>15. \A q \in Proc : q # p => c'[q] = c[q]
  BY <1>1, <1>12, MoveEffect DEF Goes, Others
<1>16. /\ c'[p].pc = "idle" /\ c'[p].op = "none" /\ c'[p].ip = 0
       /\ c'[p].path = <<>> /\ c'[p].new = <<>>
  BY <1>8, IdleIs
<1>17. Fresh' /\ Working' /\ Forward' /\ NoPanic'
  <2>1. ~Creates(p)' /\ WorkingFor(p)'
    BY <1>16 DEF Creates, WorkingFor
  <2>2. Fresh' /\ Working'
    BY <1>14, <2>1 DEF Fresh, Working, FreshFor
  <2>3. Plain(c'[p].path) /\ Plain(c'[p].new)
    BY <1>16 DEF Plain
  <2>4. Forward'
    BY <1>1, <1>12, <2>3, ForwardStep
  <2> QED
    BY <1>8, <2>2, <2>4 DEF FsInv, NoPanic
<1>18. \A k : Creating(k)' <=> Creating(k)
  BY <1>5, <1>15, <1>16 DEF Creating, Creates
<1>19. Dirs'
  <2>1. ASSUME NEW k \in Inum
        PROVE  /\ din'[k].type # "dir" => dir'[k] = NoEntry
               /\ din'[k].type = "dir" /\ ~Creating(k)' => dir'[k]["."] = k
               /\ din'[k].type = "none" => din'[k].nlink = 0 /\ k \notin removed'
    <3>1. din'[k].type # "dir" => dir'[k] = NoEntry
      BY <1>1, <1>5, <1>8, <1>11 DEF Dirs, IsDir
    <3>2. din'[k].type = "dir" /\ ~Creating(k)' => dir'[k]["."] = k
      BY <1>1, <1>8, <1>9, <1>10, <1>18 DEF Dirs
    <3>3. din'[k].type = "none" => din'[k].nlink = 0 /\ k \notin removed'
      BY <1>1, <1>6, <1>8 DEF Dirs
    <3> QED
      BY <3>1, <3>2, <3>3
  <2>2. din'[ROOTINO].type = "dir" /\ dir'[ROOTINO][".."] = ROOTINO
    <3>1. ROOTINO \in Inum
      BY <1>1, FirstType
    <3> QED
      BY <1>1, <1>8, <1>9, <1>10, <3>1 DEF Dirs
  <2> QED
    BY <2>1, <2>2 DEF Dirs
<1>20. Inserts(d, e, i)
  <2>1. \A k \in Inum : din[k].nlink \in Nat
    BY <1>1 DEF DiskTypes
  <2>2. /\ \A k \in Inum : din'[k].nlink >= din[k].nlink
        /\ \A k \in Inum : din'[k].type = din[k].type /\ din'[k].nlink = din[k].nlink
    BY <1>8, <2>1
  <2>3. \A a \in Name : dir[i][a] = 0
    BY <1>1, <1>5, EntryType DEF Dirs, NoEntry
  <2>4. /\ dir'[d][e] = i /\ \A k \in Inum, a \in Name : ~(k = d /\ a = e) => dir'[k][a] = dir[k][a]
        /\ \A k \in Inum : dir'[k][".."] = dir[k][".."]
    BY <1>1, <1>9, <1>10, EntryType
  <2>5. ~IsDir(i)
    BY <1>5 DEF IsDir
  <2> QED
    BY <1>7, <1>8, <1>10, <2>2, <2>3, <2>4, <2>5 DEF Inserts
<1>21. Apart' /\ Tree' /\ Acyclic'
  BY <1>14, <1>20, InsertKeeps
<1>22. Linked'
  <2>1. Types'
    BY <1>14 DEF MemInv
  <2>2. OneEntry(d, e)
    BY <1>8, <1>20 DEF OneEntry, Differ, Inserts
  <2>3. \A k \in removed : k \in removed'
    BY <1>8
  <2>4. dir'[d][e] = i /\ LinkIp(c'[p]) = 0
    BY <1>16, <1>20 DEF Inserts, LinkIp
  <2>5. ASSUME NEW k \in Inum
        PROVE  Part(c'[p], din', dir', d, e, k) = Part(c[p], din, dir, d, e, k)
    BY <1>5, <1>7, <1>8, <1>10, <2>4 DEF Part, Is, IsDirIn, Inum
  <2>6. \A k \in Inum : din'[k].nlink - Part(c'[p], din', dir', d, e, k)
                          = din[k].nlink - Part(c[p], din, dir, d, e, k)
    BY <1>8, <2>5
  <2> QED
    BY <1>1, <1>14, <1>15, <2>1, <2>2, <2>3, <2>6, LinkedStep
<1> QED
  BY <1>14, <1>17, <1>19, <1>21, <1>22 DEF FsInv

(* An entry is removed. *)
Removes(d, e, i) ==
  /\ d # i /\ dir[d][e] = i /\ dir'[d][e] = 0
  /\ \A k \in Inum, a \in Name : ~(k = d /\ a = e) => dir'[k][a] = dir[k][a]
  /\ \A k \in Inum : dir'[k][".."] = dir[k][".."]
  /\ \A a \in Name : dir[i][a] = 0
  /\ \A k \in Inum : /\ din'[k].type = din[k].type
                     /\ k # i /\ k # d => din'[k].nlink = din[k].nlink
  /\ din'[d].nlink <= din[d].nlink /\ removed' = removed
  /\ IsDir(i) /\ i # ROOTINO /\ i \notin removed => din'[i].nlink = 0
  /\ d \notin removed => din'[d].nlink # 0

LEMMA RemovedKeeps ==
  ASSUME FsInv, NEW d \in Inum, NEW e \in Name, NEW i \in Inum, Removes(d, e, i), DiskTypes'
  PROVE  Apart' /\ Tree' /\ Acyclic'
PROOF
<1>1. Types /\ DiskTypes /\ Linked /\ Apart /\ Tree /\ Acyclic
  BY DEF FsInv, MemInv
<1>2. /\ d # i /\ dir[d][e] = i /\ dir'[d][e] = 0 /\ i # 0 /\ d # 0
      /\ \A k \in Inum, a \in Name : ~(k = d /\ a = e) => dir'[k][a] = dir[k][a]
      /\ \A k \in Inum : dir'[k][".."] = dir[k][".."]
      /\ \A a \in Name : dir[i][a] = 0
  BY DEF Removes, Inum
<1>3. \A k \in Inum : (din'[k].type = "dir" <=> IsDir(k)) /\ din[k].nlink \in Nat /\ din'[k].nlink \in Nat
  BY <1>1 DEF Removes, IsDir, DiskTypes
<1>4. removed' = removed
  BY DEF Removes
<1>5. \A k \in Inum, a \in Name : dir'[k][a] # 0 => dir'[k][a] = dir[k][a]
  BY <1>2
<1>6. \A k \in Inum, a \in Name : dir[k][a] # 0 => dir[k][a] \in Inum
  BY <1>1, EntryType
<1>7. \A k \in Inum, a \in Name :
        dir'[k][a] # 0 => (din'[dir'[k][a]].type = "dir" <=> din[dir[k][a]].type = "dir")
  <2>1. ASSUME NEW k \in Inum, NEW a \in Name, dir'[k][a] # 0
        PROVE  din'[dir'[k][a]].type = "dir" <=> din[dir[k][a]].type = "dir"
    <3>1. dir'[k][a] = dir[k][a] /\ dir[k][a] \in Inum
      BY <1>5, <1>6, <2>1
    <3> QED
      BY <1>3, <3>1 DEF IsDir
  <2> QED
    BY <2>1
<1>8. Apart'
  <2>1. ASSUME NEW k \in Inum, NEW a \in Name, dir'[k][a] # 0
        PROVE  /\ k \in removed' => dir'[k][a] \in removed'
               /\ k \notin removed' => ~(din'[dir'[k][a]].type = "dir" /\ dir'[k][a] \in removed')
    <3>1. dir'[k][a] = dir[k][a] /\ dir[k][a] # 0
      BY <1>5, <2>1
    <3>2. /\ k \in removed => dir[k][a] \in removed
          /\ k \notin removed => ~(din[dir[k][a]].type = "dir" /\ dir[k][a] \in removed)
      BY <1>1, <3>1 DEF Apart, IsDir
    <3> QED
      BY <1>4, <1>7, <2>1, <3>1, <3>2
  <2>2. ASSUME NEW k \in Inum, k \notin removed', din'[k].nlink = 0, NEW a \in Name
        PROVE  dir'[k][a] = 0
    <3>1. CASE k = i
      BY <1>2, <3>1
    <3>2. CASE k # i
      <4>1. k # d
        BY <1>4, <2>2 DEF Removes
      <4>2. din[k].nlink = 0
        BY <2>2, <3>2, <4>1 DEF Removes
      <4>3. dir[k][a] = 0
        BY <1>1, <1>4, <2>2, <4>2 DEF Apart
      <4> QED
        BY <1>2, <4>1, <4>3
    <3> QED
      BY <3>1, <3>2
  <2>3. \A k \in Inum \ removed' : din'[k].nlink = 0 => \A a \in Name : dir'[k][a] = 0
    BY <2>2
  <2> QED
    BY <2>1, <2>3 DEF Apart, IsDir
<1>9. Tree'
  <2>1. ASSUME NEW k \in Inum, NEW f \in Inum, NEW a \in Name, NEW g \in Name,
               dir'[k][a] # 0, din'[dir'[k][a]].type = "dir", dir'[f][g] = dir'[k][a]
        PROVE  k = f /\ a = g
    <3>1. dir'[k][a] = dir[k][a] /\ dir[k][a] # 0 /\ dir'[f][g] = dir[f][g] /\ dir[f][g] = dir[k][a]
      BY <1>5, <2>1
    <3>2. IsDir(dir[k][a])
      BY <1>7, <2>1 DEF IsDir
    <3> QED
      BY <1>1, <3>1, <3>2 DEF Tree
  <2>2. ASSUME NEW k \in Inum, NEW a \in Name, dir'[k][a] # 0, din'[dir'[k][a]].type = "dir"
        PROVE  dir'[dir'[k][a]][".."] = k
    <3>1. dir'[k][a] = dir[k][a] /\ dir[k][a] # 0 /\ dir[k][a] \in Inum
      BY <1>5, <1>6, <2>2
    <3>2. IsDir(dir[k][a])
      BY <1>7, <2>2 DEF IsDir
    <3>3. dir[dir[k][a]][".."] = k
      BY <1>1, <3>1, <3>2 DEF Tree
    <3>4. dir'[dir[k][a]][".."] = dir[dir[k][a]][".."]
      BY <1>2, <3>1
    <3> QED
      BY <3>1, <3>3, <3>4
  <2>3. ASSUME NEW k \in Inum, k \notin removed', k # ROOTINO, din'[k].type = "dir", din'[k].nlink > 0
        PROVE  dir'[k][".."] # 0 /\ \E a \in Name : dir'[dir'[k][".."]][a] = k
    <3>1. k # i
      BY <1>3, <1>4, <2>3 DEF Removes
    <3>2. din[k].nlink > 0 /\ IsDir(k) /\ k \notin removed /\ k # 0
      <4>1. din[k].nlink >= din'[k].nlink
        BY <1>3, <3>1 DEF Removes
      <4> QED
        BY <1>3, <1>4, <2>3, <4>1 DEF Inum
    <3>3. dir[k][".."] # 0 /\ \E a \in Name : dir[dir[k][".."]][a] = k
      BY <1>1, <2>3, <3>2 DEF Tree
    <3>4. PICK b \in Inum : b = dir[k][".."] /\ b # 0
      BY <1>1, <3>3, EntryType
    <3>5. PICK a \in Name : dir[b][a] = k
      BY <3>3, <3>4
    <3>6. dir'[b][a] = k
      BY <1>2, <3>1, <3>5
    <3> QED
      BY <1>2, <3>4, <3>6
  <2> QED
    BY <2>1, <2>2, <2>3 DEF Tree, IsDir
<1>10. Acyclic'
  <2>1. ASSUME NEW S \in SUBSET Inum, S # {}
        PROVE  \E k \in S : \A a \in Name : dir'[k][a] \notin S
    <3>1. PICK k \in S : \A a \in Name : dir[k][a] \notin S
      BY <1>1, <2>1 DEF Acyclic
    <3>2. 0 \notin S /\ k \in Inum
      BY DEF Inum
    <3>3. \A a \in Name : dir'[k][a] \notin S
      BY <1>5, <3>1, <3>2
    <3> QED
      BY <3>3
  <2> QED
    BY <2>1 DEF Acyclic
<1> QED
  BY <1>8, <1>9, <1>10

(* The links of a directory without a directory in it, and of one with. *)
LEMMA DirLinks ==
  ASSUME FsInv, NEW d \in Inum, NEW e \in Name, NEW i \in Inum, dir[d][e] = i, IsDir(i), d # i
  PROVE  /\ i # ROOTINO /\ i \notin removed /\ (\A a \in Name : dir[i][a] = 0) => din[i].nlink = 1
         /\ d \notin removed => din[d].nlink > 1
PROOF
<1>1. Types /\ DiskTypes /\ Linked /\ Tree /\ Working
  BY DEF FsInv, MemInv
<1>2. i # 0 /\ din[i].nlink \in Nat /\ din[d].nlink \in Nat
  BY <1>1 DEF Inum, DiskTypes
<1>3. ASSUME i # ROOTINO, i \notin removed, \A a \in Name : dir[i][a] = 0
      PROVE  din[i].nlink = 1
  <2>1. NamesIn(dir, i) = {<<d, e>>}
    <3>1. ASSUME NEW x \in Inum \X Name, dir[x[1]][x[2]] = i
          PROVE  x = <<d, e>>
      <4>1. x[1] \in Inum /\ x[2] \in Name /\ x = <<x[1], x[2]>>
        OBVIOUS
      <4>2. dir[d][e] # 0 /\ IsDir(dir[d][e]) /\ dir[x[1]][x[2]] = dir[d][e]
        BY <1>2, <3>1 DEF IsDir
      <4>3. d = x[1] /\ e = x[2]
        BY <1>1, <4>1, <4>2 DEF Tree
      <4> QED
        BY <4>1, <4>3
    <3>2. <<d, e>> \in Inum \X Name
      OBVIOUS
    <3> QED
      BY <3>1, <3>2 DEF NamesIn
  <2>2. DirsIn(dir, din, i) = {}
    BY <1>3 DEF DirsIn
  <2>3. LinkersIn(c, i) = {}
    BY <1>1, <1>2 DEF LinkersIn, Working, WorkingFor, IsDir
  <2>4. Cardinality(NamesIn(dir, i)) = 1
    BY <2>1, FS_Singleton
  <2>5. Cardinality(DirsIn(dir, din, i)) = 0 /\ Cardinality(LinkersIn(c, i)) = 0
    BY <2>2, <2>3, FS_EmptySet
  <2>6. Root(i) = 0
    BY <1>3 DEF Root
  <2>7. din[i].nlink = Links(i)
    BY <1>1, <1>3 DEF Linked
  <2> QED
    BY <2>4, <2>5, <2>6, <2>7 DEF Links
<1>4. ASSUME d \notin removed
      PROVE  din[d].nlink > 1
  <2>1. /\ IsFiniteSet(NamesIn(dir, d)) /\ IsFiniteSet(DirsIn(dir, din, d))
        /\ Cardinality(NamesIn(dir, d)) \in Nat /\ Cardinality(DirsIn(dir, din, d)) \in Nat
        /\ Cardinality(LinkersIn(c, d)) \in Nat
    BY LinkSetsFinite
  <2>2. e \in DirsIn(dir, din, d)
    BY <1>2 DEF DirsIn, IsDir
  <2>3. Cardinality(DirsIn(dir, din, d)) > 0
    BY <2>1, <2>2, CardPositive
  <2>4. din[d].nlink = Links(d)
    BY <1>1, <1>4 DEF Linked
  <2>5. CASE d = ROOTINO
    <3>1. Root(d) = 1
      BY <2>5 DEF Root
    <3> QED
      BY <2>1, <2>3, <2>4, <3>1 DEF Links
  <2>6. CASE d # ROOTINO
    <3>1. Root(d) = 0
      BY <2>6 DEF Root
    <3>2. din[d].nlink > 0
      BY <2>1, <2>3, <2>4, <3>1 DEF Links
    <3>3. IsDir(d)
      <4>1. din[d].type # "dir" => dir[d] = NoEntry
        BY DEF FsInv, Dirs
      <4> QED
        BY <1>1, <1>2, <4>1, EntryType DEF NoEntry, IsDir
    <3>4. dir[d][".."] # 0 /\ \E a \in Name : dir[dir[d][".."]][a] = d
      BY <1>1, <1>4, <2>6, <3>2, <3>3 DEF Tree
    <3>5. PICK b \in Inum : b = dir[d][".."]
      BY <1>1, <3>4, EntryType
    <3>6. PICK a \in Name : dir[b][a] = d
      BY <3>4, <3>5
    <3>7. <<b, a>> \in NamesIn(dir, d)
      BY <3>6 DEF NamesIn
    <3>8. Cardinality(NamesIn(dir, d)) > 0
      BY <2>1, <3>7, CardPositive
    <3> QED
      BY <2>1, <2>3, <2>4, <3>1, <3>8 DEF Links
  <2> QED
    BY <2>5, <2>6
<1> QED
  BY <1>3, <1>4

(* A call that returns after it has changed directories. *)
LEMMA ReturnKeeps ==
  ASSUME FsInv, NEW p \in Proc, Goes(p, 0), Effects(p), c'[p] = Idle, panic' = panic,
         Dirs', Linked', Apart', Tree', Acyclic'
  PROVE  FsInv'
PROOF
<1>1. Types /\ Forward
  BY DEF FsInv, MemInv
<1>2. /\ MemInv' /\ DiskTypes' /\ Live' /\ Freeing' /\ Cached' /\ Kept'
      /\ \A q \in Proc : q # p => FreshFor(q)' /\ WorkingFor(q)'
  <2>1. Takes(p, 0)
    BY DEF Takes
  <2> QED
    BY <2>1, MoveKeeps
<1>3. /\ c'[p].pc = "idle" /\ c'[p].op = "none" /\ c'[p].ip = 0
      /\ c'[p].path = <<>> /\ c'[p].new = <<>>
  BY IdleIs
<1>4. ~Creates(p)' /\ WorkingFor(p)'
  BY <1>3 DEF Creates, WorkingFor
<1>5. Fresh' /\ Working'
  BY <1>2, <1>4 DEF Fresh, Working, FreshFor
<1>6. Plain(c'[p].path) /\ Plain(c'[p].new)
  BY <1>3 DEF Plain
<1>7. Forward'
  BY <1>1, <1>6, ForwardStep
<1>8. NoPanic'
  BY DEF FsInv, NoPanic
<1> QED
  BY <1>2, <1>5, <1>7, <1>8 DEF FsInv

(* Such a call before it returns: the directory, the name and the inode. *)
LEMMA ChildBegin ==
  ASSUME FsInv, NEW p \in Proc, put[p] = <<>>, c[p].pc = "child"
  PROVE  /\ c[p].at \in Inum /\ c[p].ip \in Inum /\ Head(c[p].path) \in Name
         /\ c[p].at # c[p].ip /\ IsDir(c[p].at) /\ valid[c[p].at] /\ lock[c[p].at] = p
         /\ Mine(p, c[p].at) > 0 /\ Mine(p, c[p].ip) > 0
         /\ dir[c[p].at][Head(c[p].path)] = (IF c[p].op = "unlink" THEN c[p].ip ELSE 0)
         /\ Locked(c[p].at) = din[c[p].at] /\ Locked(c[p].ip) = din[c[p].ip]
         /\ din[c[p].at].type # "none" /\ din[c[p].ip].type # "none"
         /\ \A q \in Proc : q # p => ~Owns(q, c[p].at) /\ ~Owns(q, c[p].ip)
         /\ LinkIp(c[p]) = 0
PROOF
<1>1. MemInv /\ Types /\ Locks /\ WorkingFor(p) /\ Acyclic
  BY DEF FsInv, MemInv, Working
<1>2. PICK d \in Inum, i \in Inum : d = c[p].at /\ i = c[p].ip
  <2>1. c[p].at \in Inum /\ c[p].ip \in Inum
    BY <1>1, MoveBegin
  <2> QED
    BY <2>1, Zenon
<1>3. /\ IsDir(d) /\ valid[d] /\ lock[d] = p /\ Head(c[p].path) \in Name
      /\ dir[d][Head(c[p].path)] = IF c[p].op = "unlink" THEN i ELSE 0
  BY <1>1, <1>2 DEF WorkingFor, IsDir, Locks
<1>4. PICK e \in Name : e = Head(c[p].path)
  BY <1>3
<1>5. /\ Mine(p, d) > 0 /\ Mine(p, i) > 0 /\ Locked(d) = din[d] /\ Locked(i) = din[i]
  BY <1>2, MineIs, LockedIs
<1>6. /\ din[d].type # "none" /\ din[i].type # "none"
      /\ \A q \in Proc : q # p => ~Owns(q, d) /\ ~Owns(q, i)
  BY <1>5, HeldLive
<1>7. d # i
  <2>1. CASE c[p].op = "unlink"
    <3>1. \E k \in {d} : \A a \in Name : dir[k][a] \notin {d}
      <4>1. PICK S \in SUBSET Inum : S = {d}
        OBVIOUS
      <4>2. \E k \in S : \A a \in Name : dir[k][a] \notin S
        BY <1>1, <4>1 DEF Acyclic
      <4> QED
        BY <4>1, <4>2
    <3> QED
      BY <1>3, <1>4, <2>1, <3>1
  <2>2. CASE c[p].op # "unlink"
    <3>1. Owns(p, i)
      BY <1>2, <2>2 DEF Owns, Creates
    <3>2. Mine(p, i) = 1
      BY <3>1, OwnerIsSole
    <3>3. \A a, b : Is(a, b) \in Nat
      BY DEF Is
    <3>4. ASSUME d = i
          PROVE  Mine(p, i) > 1
      <4>1. Is(c[p].at, i) = 1 /\ Is(c[p].ip, i) = 1
        BY <1>2, <3>4 DEF Is
      <4> QED
        BY <3>3, <4>1 DEF Mine, Own
    <3> QED
      BY <3>2, <3>4
  <2> QED
    BY <2>1, <2>2
<1>8. LinkIp(c[p]) = 0
  <2>1. Proper(c[p], put[p], stage[p], file[p])
    BY <1>1, MoveBegin
  <2> QED
    BY <2>1 DEF Proper, LinkIp, OfParent
<1> QED
  BY <1>2, <1>3, <1>5, <1>6, <1>7, <1>8

(* sys_unlink removes the entry. *)
LEMMA RemoveKeeps ==
  ASSUME FsInv, NEW p \in Proc, unlink_child(p),
         ~(Locked(c[p].ip).type = "dir" /\ ~isdirempty(c[p].ip))
  PROVE  FsInv'
PROOF
<1>1. MemInv /\ Types /\ DiskTypes /\ Linked /\ Dirs /\ Apart
  BY DEF FsInv, MemInv
<1>2. put[p] = <<>> /\ c[p].pc = "child" /\ c[p].op = "unlink"
  BY DEF unlink_child, In
<1>3. PICK d \in Inum, i \in Inum, e \in Name : d = c[p].at /\ i = c[p].ip /\ e = Head(c[p].path)
  <2>1. c[p].at \in Inum /\ c[p].ip \in Inum /\ Head(c[p].path) \in Name
    BY <1>2, ChildBegin
  <2> QED
    BY <2>1, Zenon
<1>4. /\ d # i /\ IsDir(d) /\ lock[d] = p /\ Mine(p, d) > 0 /\ Mine(p, i) > 0
      /\ dir[d][e] = i /\ Locked(d) = din[d] /\ Locked(i) = din[i]
      /\ din[d].type # "none" /\ din[i].type # "none" /\ LinkIp(c[p]) = 0
  BY <1>2, <1>3, ChildBegin
<1>5. /\ store([k \in {d, i} |-> Unlinked(d, i, k)]) /\ dir' = dirlink(dir, d, e, 0) /\ c'[p] = Idle
      /\ UNCHANGED <<removed, orphans, panic>>
  <2>1. c' = [c EXCEPT ![p] = Idle]
    BY DEF unlink_child, return, go
  <2>2. c'[p] = Idle
    BY <1>1, <2>1 DEF Types
  <2>3. /\ store([k \in {d, i} |-> Unlinked(d, i, k)]) /\ dir' = [dir EXCEPT ![d][e] = 0]
        /\ UNCHANGED <<removed, orphans, panic>>
    BY <1>3 DEF unlink_child, hist
  <2> QED
    BY <2>2, <2>3 DEF dirlink
<1>6. d # 0 /\ i # 0 /\ e \in Elem /\ e # "." /\ e # ".." /\ "." \in Elem /\ ".." \in Elem
  BY <1>1, EntryType DEF Inum
<1>7. /\ \A k \in Inum, a \in Elem : dir'[k][a] = IF k = d /\ a = e THEN 0 ELSE dir[k][a]
      /\ \A k \in Inum : k # d => dir'[k] = dir[k]
  <2>1. dir \in [Inum -> [Elem -> 0..NINODES]]
    BY <1>1 DEF Types
  <2> QED
    BY <1>5, <1>6, <2>1 DEF dirlink
<1>8. /\ din[i].nlink \in Nat /\ din[i].nlink > 0 /\ din[d].nlink \in Nat
      /\ IsDirIn(din, i) \in {0, 1} /\ din[d].nlink - IsDirIn(din, i) \in Nat
      /\ IsDirIn(din, i) = 1 <=> IsDir(i)
  <2>1. /\ din[i].nlink \in Nat /\ din[i].nlink > 0 /\ din[d].nlink \in Nat
        /\ IsDir(i) => din[d].nlink > 0
    BY <1>1, <1>4, <1>6, HasLink
  <2> QED
    BY <1>6, <2>1 DEF IsDirIn, IsDir
<1>9. PICK D \in SUBSET Inum : D = {d, i}
  OBVIOUS
<1>10. PICK m : m = [k \in D |-> Unlinked(d, i, k)] /\ store(m)
  BY <1>5, <1>9
<1>11. /\ m \in [D -> InodeType] /\ \A k \in D : Mine(p, k) > 0 /\ m[k].type = din[k].type
       /\ m[i].nlink = din[i].nlink - 1 /\ m[d].nlink = din[d].nlink - IsDirIn(din, i)
  <2>1. din[d] \in InodeType /\ din[i] \in InodeType
    BY <1>1 DEF DiskTypes, InodeType
  <2>2. m[i] = [din[i] EXCEPT !.nlink = din[i].nlink - 1]
    BY <1>4, <1>9, <1>10 DEF Unlinked
  <2>3. m[d] = IF IsDir(i) THEN [din[d] EXCEPT !.nlink = din[d].nlink - 1] ELSE din[d]
    BY <1>4, <1>9, <1>10 DEF Unlinked, IsDir
  <2>4. m[i] \in InodeType /\ m[i].type = din[i].type /\ m[i].nlink = din[i].nlink - 1
    BY <1>8, <2>1, <2>2 DEF InodeType
  <2>5. m[d] \in InodeType /\ m[d].type = din[d].type /\ m[d].nlink = din[d].nlink - IsDirIn(din, i)
    BY <1>8, <2>1, <2>3 DEF InodeType
  <2> QED
    BY <1>4, <1>9, <1>10, <2>4, <2>5
<1>12. Effects(p) /\ \A k \in Inum : din'[k] = IF k \in D THEN m[k] ELSE din[k]
  <2>1. \A k \in Inum : k \notin D => dir'[k] = dir[k]
    BY <1>7, <1>9
  <2>2. \A k \in D, a \in Name : dir'[k][a] # dir[k][a] => lock[k] \in {p, NoProc}
    BY <1>4, <1>7, <1>9
  <2>3. (\A k \in Inum : Mine(p, k) = 0 => (k \in removed' <=> k \in removed)) /\ orphans' = orphans
    BY <1>5
  <2>4. Creates(p) => c[p].ip \in D
    BY <1>2 DEF Creates
  <2> QED
    <3>1. \A k \in D : Mine(p, k) > 0 /\ m[k].type = din[k].type
      BY <1>11
    <3> QED
      BY <1>2, <1>10, <1>11, <2>1, <2>2, <2>3, <2>4, <3>1, StoreEffects, SMTT(60)
<1>13. /\ \A k \in Inum : din'[k].type = din[k].type
       /\ \A k \in Inum : k # d /\ k # i => din'[k] = din[k]
       /\ din'[i].nlink = din[i].nlink - 1 /\ din'[d].nlink = din[d].nlink - IsDirIn(din, i)
  BY <1>9, <1>11, <1>12
<1>14. Goes(p, 0) /\ Takes(p, 0)
  BY <1>1, RemoveMove DEF Takes
<1>15. MemInv' /\ Types' /\ DiskTypes' /\ \A q \in Proc : q # p => c'[q] = c[q]
  <2>1. MemInv' /\ DiskTypes'
    BY <1>12, <1>14, MoveKeeps
  <2>2. \A q \in Proc : q # p => c'[q] = c[q]
    BY <1>1, <1>14, MoveEffect DEF Goes, Others
  <2> QED
    BY <2>1, <2>2 DEF MemInv
<1>16. \A k : Creating(k)' <=> Creating(k)
  <2>1. ~Creates(p) /\ ~Creates(p)'
    BY <1>2, <1>5, IdleIs DEF Creates
  <2> QED
    BY <1>15, <2>1 DEF Creating, Creates
<1>17. Dirs'
  <2>1. ASSUME NEW k \in Inum
        PROVE  /\ din'[k].type # "dir" => dir'[k] = NoEntry
               /\ din'[k].type = "dir" /\ ~Creating(k)' => dir'[k]["."] = k
               /\ din'[k].type = "none" => din'[k].nlink = 0 /\ k \notin removed'
    <3>1. din'[k].type # "dir" => dir'[k] = NoEntry
      BY <1>1, <1>4, <1>7, <1>13 DEF Dirs, IsDir
    <3>2. din'[k].type = "dir" /\ ~Creating(k)' => dir'[k]["."] = k
      BY <1>1, <1>6, <1>7, <1>13, <1>16 DEF Dirs
    <3>3. din'[k].type = "none" => din'[k].nlink = 0 /\ k \notin removed'
      BY <1>1, <1>4, <1>5, <1>13 DEF Dirs
    <3> QED
      BY <3>1, <3>2, <3>3
  <2>2. din'[ROOTINO].type = "dir" /\ dir'[ROOTINO][".."] = ROOTINO
    <3>1. ROOTINO \in Inum
      BY <1>1, FirstType
    <3> QED
      BY <1>1, <1>6, <1>7, <1>13, <3>1 DEF Dirs
  <2> QED
    BY <2>1, <2>2 DEF Dirs
<1>18. \A a \in Name : dir[i][a] = 0
  <2>1. CASE IsDir(i)
    BY <1>3, <1>4, <2>1 DEF isdirempty, IsDir
  <2>2. CASE ~IsDir(i)
    BY <1>1, <2>2, EntryType DEF Dirs, NoEntry, IsDir
  <2> QED
    BY <2>1, <2>2
<1>19. Removes(d, e, i)
  <2>1. /\ dir'[d][e] = 0 /\ \A k \in Inum, a \in Name : ~(k = d /\ a = e) => dir'[k][a] = dir[k][a]
        /\ \A k \in Inum : dir'[k][".."] = dir[k][".."]
    BY <1>1, <1>6, <1>7, EntryType
  <2>2. din'[d].nlink <= din[d].nlink
    BY <1>8, <1>13
  <2>3. IsDir(i) /\ i # ROOTINO /\ i \notin removed => din'[i].nlink = 0
    <3>1. ASSUME IsDir(i), i # ROOTINO, i \notin removed
          PROVE  din[i].nlink = 1
      BY <1>4, <1>18, <3>1, DirLinks
    <3> QED
      BY <1>13, <3>1
  <2>4. d \notin removed => din'[d].nlink # 0
    <3>1. CASE IsDir(i)
      <4>1. d \notin removed => din[d].nlink > 1
        BY <1>4, <3>1, DirLinks
      <4> QED
        BY <1>8, <1>13, <3>1, <4>1
    <3>2. CASE ~IsDir(i)
      <4>1. din'[d].nlink = din[d].nlink
        BY <1>8, <1>13, <3>2
      <4> QED
        BY <1>1, <1>4, <1>6, <4>1 DEF Apart
    <3> QED
      BY <3>1, <3>2
  <2> QED
    BY <1>4, <1>5, <1>13, <1>18, <2>1, <2>2, <2>3, <2>4 DEF Removes
<1>20. Apart' /\ Tree' /\ Acyclic'
  BY <1>15, <1>19, RemovedKeeps
<1>21. Linked'
  <2>1. OneEntry(d, e)
    <3>1. ASSUME NEW k \in Inum, NEW a \in Name, dir[k][a] # 0
          PROVE  din'[dir[k][a]].type = "dir" <=> din[dir[k][a]].type = "dir"
      <4>1. dir[k][a] \in Inum
        BY <1>1, <3>1, EntryType
      <4> QED
        BY <1>13, <4>1
    <3> QED
      BY <1>19, <3>1 DEF OneEntry, Differ, Removes
  <2>2. dir'[d][e] = 0 /\ LinkIp(c'[p]) = 0
    BY <1>5, <1>19, IdleIs DEF Removes, LinkIp
  <2>3. ASSUME NEW k \in Inum
        PROVE  din'[k].nlink - Part(c'[p], din', dir', d, e, k)
                 = din[k].nlink - Part(c[p], din, dir, d, e, k)
    <3>1. k # 0 /\ din[k].nlink \in Nat
      BY <1>1 DEF Inum, DiskTypes
    <3>2. Part(c'[p], din', dir', d, e, k) = 0
      BY <2>2, <3>1 DEF Part, Is, IsDirIn
    <3>3. Part(c[p], din, dir, d, e, k) = Is(i, k) + (IF k = d THEN IsDirIn(din, i) ELSE 0)
      BY <1>4, <1>8, <3>1 DEF Part, Is
    <3> QED
      BY <1>4, <1>8, <1>13, <3>1, <3>2, <3>3 DEF Is
  <2> QED
    BY <1>1, <1>5, <1>15, <2>1, <2>3, LinkedStep
<1> QED
  BY <1>5, <1>12, <1>14, <1>17, <1>20, <1>21, ReturnKeeps

(* create gives the new inode its name. *)
LEMMA MakeKeeps ==
  ASSUME FsInv, NEW p \in Proc, create_child(p)
  PROVE  FsInv'
PROOF
<1>1. MemInv /\ Types /\ DiskTypes /\ Linked /\ Dirs /\ Cached
  BY DEF FsInv, MemInv
<1>2. put[p] = <<>> /\ c[p].pc = "child" /\ c[p].op # "unlink" /\ Creates(p)
  BY DEF create_child, In, Creates
<1>3. PICK d \in Inum, i \in Inum, e \in Name : d = c[p].at /\ i = c[p].ip /\ e = Head(c[p].path)
  <2>1. c[p].at \in Inum /\ c[p].ip \in Inum /\ Head(c[p].path) \in Name
    BY <1>2, ChildBegin
  <2> QED
    BY <2>1, Zenon
<1>4. /\ d # i /\ IsDir(d) /\ valid[d] /\ lock[d] = p /\ Mine(p, d) > 0 /\ Mine(p, i) > 0
      /\ dir[d][e] = 0 /\ Locked(d) = din[d] /\ Locked(i) = din[i]
      /\ din[d].type # "none" /\ LinkIp(c[p]) = 0
      /\ \A q \in Proc : q # p => ~Owns(q, i)
  BY <1>2, <1>3, ChildBegin
<1>5. PICK mk \in BOOLEAN : mk = (c[p].op = "mkdir")
  OBVIOUS
<1>6. /\ din[i].nlink = 0 /\ dir[i] = NoEntry /\ i \notin removed /\ din[i].type # "none"
      /\ mk <=> IsDir(i)
  BY <1>2, <1>3, <1>5 DEF FsInv, Fresh, FreshFor, IsDir
<1>7. /\ d # 0 /\ i # 0 /\ e \in Elem /\ e # "." /\ e # ".." /\ "." \in Elem /\ ".." \in Elem
      /\ din[d].nlink \in Nat /\ inode[d] = din[d]
  BY <1>1, <1>4, EntryType DEF Inum, DiskTypes, Cached
<1>8. /\ store([k \in {d, i} |-> IF k = i THEN [Locked(k) EXCEPT !.nlink = 1]
                                  ELSE [Locked(k) EXCEPT !.nlink = IF mk THEN @ + 1 ELSE @]])
      /\ dir' = dirlink(IF mk THEN dirlink(dirlink(dir, i, ".", i), i, "..", d) ELSE dir, d, e, i)
      /\ removed' = removed \cup (IF din[d].nlink = 0 \/ d \in removed THEN {d, i} ELSE {})
      /\ c'[p] = Idle /\ UNCHANGED <<orphans, panic>>
  <2>1. c' = [c EXCEPT ![p] = Idle]
    BY DEF create_child, return, go
  <2>2. c'[p] = Idle
    BY <1>1, <2>1 DEF Types
  <2> QED
    BY <1>3, <1>5, <1>7, <2>2 DEF create_child
<1>9. /\ \A k \in Inum, a \in Elem :
           dir'[k][a] = IF k = d /\ a = e THEN i ELSE
                        IF mk /\ k = i /\ a = "." THEN i ELSE
                        IF mk /\ k = i /\ a = ".." THEN d ELSE dir[k][a]
      /\ \A k \in Inum : k # d /\ (k # i \/ ~mk) => dir'[k] = dir[k]
  <2>1. PICK t \in DirType : t = dir
    BY <1>1 DEF Types, DirType
  <2>2. PICK u \in DirType : u = dirlink(t, i, ".", i)
    <3>1. dirlink(t, i, ".", i) \in DirType
      BY <1>7 DEF dirlink, DirType, Inum
    <3> QED
      BY <3>1
  <2>3. PICK v \in DirType : v = dirlink(u, i, "..", d)
    <3>1. dirlink(u, i, "..", d) \in DirType
      BY <1>7 DEF dirlink, DirType, Inum
    <3> QED
      BY <3>1
  <2>4. PICK w \in DirType : w = IF mk THEN v ELSE t
    OBVIOUS
  <2>5. dir' = dirlink(w, d, e, i)
    BY <1>8, <2>1, <2>2, <2>3, <2>4
  <2>6. /\ \A k \in Inum, a \in Elem : u[k][a] = IF k = i /\ a = "." THEN i ELSE t[k][a]
        /\ \A k \in Inum : k # i => u[k] = t[k]
    BY <1>7, <2>2 DEF dirlink, DirType
  <2>7. /\ \A k \in Inum, a \in Elem : v[k][a] = IF k = i /\ a = ".." THEN d ELSE u[k][a]
        /\ \A k \in Inum : k # i => v[k] = u[k]
    BY <1>7, <2>3 DEF dirlink, DirType
  <2>8. /\ \A k \in Inum, a \in Elem : dir'[k][a] = IF k = d /\ a = e THEN i ELSE w[k][a]
        /\ \A k \in Inum : k # d => dir'[k] = w[k]
    BY <1>7, <2>5 DEF dirlink, DirType
  <2>9. CASE mk
    <3>1. w = v
      BY <2>4, <2>9
    <3>2. ASSUME NEW k \in Inum, NEW a \in Elem
          PROVE  dir'[k][a] = IF k = d /\ a = e THEN i ELSE
                        IF k = i /\ a = "." THEN i ELSE
                        IF k = i /\ a = ".." THEN d ELSE t[k][a]
      BY <2>6, <2>7, <2>8, <3>1
    <3>3. \A k \in Inum : k # d /\ k # i => dir'[k] = t[k]
      BY <2>6, <2>7, <2>8, <3>1
    <3> QED
      BY <2>1, <2>9, <3>2, <3>3
  <2>10. CASE ~mk
    BY <2>1, <2>4, <2>8, <2>10
  <2> QED
    BY <2>9, <2>10
<1>10. PICK D \in SUBSET Inum : D = {d, i}
  OBVIOUS
<1>11. PICK m : /\ m = [k \in D |-> IF k = i THEN [Locked(k) EXCEPT !.nlink = 1]
                                    ELSE [Locked(k) EXCEPT !.nlink = IF mk THEN @ + 1 ELSE @]]
                /\ store(m)
  BY <1>8, <1>10
<1>12. /\ m \in [D -> InodeType] /\ \A k \in D : Mine(p, k) > 0 /\ m[k].type = din[k].type
       /\ m[i].nlink = 1 /\ m[d].nlink = din[d].nlink + (IF mk THEN 1 ELSE 0)
  <2>1. din[d] \in InodeType /\ din[i] \in InodeType
    BY <1>1 DEF DiskTypes, InodeType
  <2>2. m[i] = [din[i] EXCEPT !.nlink = 1]
    BY <1>4, <1>10, <1>11
  <2>3. m[d] = [din[d] EXCEPT !.nlink = IF mk THEN din[d].nlink + 1 ELSE din[d].nlink]
    BY <1>4, <1>10, <1>11
  <2>4. m[i] \in InodeType /\ m[i].type = din[i].type /\ m[i].nlink = 1
    BY <2>1, <2>2 DEF InodeType
  <2>5. m[d] \in InodeType /\ m[d].type = din[d].type
        /\ m[d].nlink = din[d].nlink + (IF mk THEN 1 ELSE 0)
    BY <1>7, <2>1, <2>3 DEF InodeType
  <2> QED
    BY <1>4, <1>10, <1>11, <2>4, <2>5
<1>13. Effects(p) /\ \A k \in Inum : din'[k] = IF k \in D THEN m[k] ELSE din[k]
  <2>1. \A k \in Inum : k \notin D => dir'[k] = dir[k]
    BY <1>9, <1>10
  <2>2. ASSUME NEW k \in D, NEW a \in Name, dir'[k][a] # dir[k][a]
        PROVE  lock[k] \in {p, NoProc}
    <3>1. a \in Elem /\ a # "." /\ a # ".." /\ k \in Inum
      BY <1>1, EntryType
    <3>2. k = d
      BY <1>9, <2>2, <3>1
    <3> QED
      BY <1>4, <3>2
  <2>3. \A k \in Inum : Mine(p, k) = 0 => (k \in removed' <=> k \in removed)
    BY <1>4, <1>8
  <2>4. Creates(p) => c[p].ip \in D
    BY <1>3, <1>10
  <2>5. \A k \in D, a \in Name : dir'[k][a] # dir[k][a] => lock[k] \in {p, NoProc}
    BY <2>2
  <2>6. store(m) /\ m \in [D -> InodeType] /\ orphans' = orphans
        /\ \A k \in D : Mine(p, k) > 0 /\ m[k].type = din[k].type
    BY <1>8, <1>11, <1>12
  <2> QED
    BY <1>2, <2>1, <2>3, <2>4, <2>5, <2>6, StoreEffects
<1>14. /\ \A k \in Inum : din'[k].type = din[k].type
       /\ \A k \in Inum : k # d /\ k # i => din'[k] = din[k]
       /\ din'[i].nlink = 1 /\ din'[d].nlink = din[d].nlink + (IF mk THEN 1 ELSE 0)
  BY <1>10, <1>12, <1>13
<1>15. Goes(p, 0) /\ Takes(p, 0)
  BY <1>1, MakeMove DEF Takes
<1>16. MemInv' /\ Types' /\ DiskTypes' /\ \A q \in Proc : q # p => c'[q] = c[q]
  <2>1. MemInv' /\ DiskTypes'
    BY <1>13, <1>15, MoveKeeps
  <2>2. \A q \in Proc : q # p => c'[q] = c[q]
    BY <1>1, <1>15, MoveEffect DEF Goes, Others
  <2> QED
    BY <2>1, <2>2 DEF MemInv
<1>17. \A k : Creating(k) /\ k # i => Creating(k)'
  <2>1. ASSUME NEW k, NEW q \in Proc, Creates(q), c[q].ip = k, k # i
        PROVE  Creating(k)'
    <3>1. q # p
      BY <1>3, <2>1
    <3>2. c'[q] = c[q]
      BY <1>16, <3>1
    <3> QED
      BY <2>1, <3>2 DEF Creating, Creates
  <2> QED
    BY <2>1 DEF Creating
<1>18. Dirs'
  <2>1. ASSUME NEW k \in Inum
        PROVE  /\ din'[k].type # "dir" => dir'[k] = NoEntry
               /\ din'[k].type = "dir" /\ ~Creating(k)' => dir'[k]["."] = k
               /\ din'[k].type = "none" => din'[k].nlink = 0 /\ k \notin removed'
    <3>1. din'[k].type # "dir" => dir'[k] = NoEntry
      BY <1>1, <1>4, <1>6, <1>9, <1>14 DEF Dirs, IsDir
    <3>2. din'[k].type = "dir" /\ ~Creating(k)' => dir'[k]["."] = k
      <4>1. CASE k = i
        BY <1>4, <1>6, <1>7, <1>9, <1>14, <4>1 DEF IsDir
      <4>2. CASE k # i
        BY <1>1, <1>7, <1>9, <1>14, <1>17, <4>2 DEF Dirs
      <4> QED
        BY <4>1, <4>2
    <3>3. din'[k].type = "none" => din'[k].nlink = 0 /\ k \notin removed'
      BY <1>1, <1>4, <1>6, <1>8, <1>14 DEF Dirs
    <3> QED
      BY <3>1, <3>2, <3>3
  <2>2. din'[ROOTINO].type = "dir" /\ dir'[ROOTINO][".."] = ROOTINO
    <3>1. ROOTINO \in Inum
      BY <1>1, FirstType
    <3>2. ROOTINO # i
      BY <1>1, <1>6, HasLink
    <3> QED
      BY <1>1, <1>7, <1>9, <1>14, <3>1, <3>2 DEF Dirs
  <2> QED
    BY <2>1, <2>2 DEF Dirs
<1>19. Inserts(d, e, i)
  <2>1. /\ dir'[d][e] = i /\ \A k \in Inum, a \in Name : ~(k = d /\ a = e) => dir'[k][a] = dir[k][a]
        /\ \A k \in Inum : k # i => dir'[k][".."] = dir[k][".."]
        /\ mk => dir'[i][".."] = d
    BY <1>1, <1>4, <1>7, <1>9, EntryType
  <2>2. \A a \in Name : dir[i][a] = 0
    BY <1>1, <1>6, EntryType DEF NoEntry
  <2>3. \A k \in Inum : din'[k].nlink >= din[k].nlink
    <3>1. \A k \in Inum : din[k].nlink \in Nat
      BY <1>1 DEF DiskTypes
    <3> QED
      BY <1>6, <1>7, <1>14, <3>1
  <2> QED
    BY <1>4, <1>6, <1>8, <1>14, <2>1, <2>2, <2>3 DEF Inserts
<1>20. Apart' /\ Tree' /\ Acyclic'
  BY <1>16, <1>19, InsertKeeps
<1>21. Linked'
  <2>1. OneEntry(d, e)
    <3>1. ASSUME NEW k \in Inum, NEW a \in Name, dir[k][a] # 0
          PROVE  din'[dir[k][a]].type = "dir" <=> din[dir[k][a]].type = "dir"
      <4>1. dir[k][a] \in Inum
        BY <1>1, <3>1, EntryType
      <4> QED
        BY <1>14, <4>1
    <3> QED
      BY <1>19, <3>1 DEF OneEntry, Differ, Inserts
  <2>2. dir'[d][e] = i /\ LinkIp(c'[p]) = 0 /\ \A k \in removed : k \in removed'
    BY <1>8, <1>19, IdleIs DEF Inserts, LinkIp
  <2>3. ASSUME NEW k \in Inum
        PROVE  din'[k].nlink - Part(c'[p], din', dir', d, e, k)
                 = din[k].nlink - Part(c[p], din, dir, d, e, k)
    <3>1. k # 0 /\ din[k].nlink \in Nat
      BY <1>1 DEF Inum, DiskTypes
    <3>2. Part(c[p], din, dir, d, e, k) = 0
      BY <1>4, <3>1 DEF Part, Is, IsDirIn
    <3>3. IsDirIn(din', i) = IF mk THEN 1 ELSE 0
      BY <1>6, <1>7, <1>14 DEF IsDirIn, IsDir
    <3>4. Part(c'[p], din', dir', d, e, k) = Is(i, k) + (IF k = d THEN IF mk THEN 1 ELSE 0 ELSE 0)
      BY <2>2, <3>1, <3>3 DEF Part, Is
    <3> QED
      BY <1>4, <1>6, <1>7, <1>14, <3>1, <3>2, <3>4 DEF Is
  <2> QED
    BY <1>1, <1>16, <2>1, <2>2, <2>3, LinkedStep
<1> QED
  BY <1>8, <1>13, <1>15, <1>18, <1>20, <1>21, ReturnKeeps

(* An inode that nobody points to. *)
LEMMA Unpointed ==
  ASSUME Types, NEW i \in Inum, \A q \in Proc : Mine(q, i) = 0
  PROVE  Pointers(i) = 0
PROOF
<1>1. \A a, b : Is(a, b) \in Nat
  BY DEF Is
<1>2. ASSUME NEW q \in Proc
      PROVE  /\ Is(cwd[q], i) = 0 /\ Is(file[q], i) = 0 /\ Is(c[q].at, i) = 0 /\ Is(c[q].ip, i) = 0
             /\ Is(Nth(put[q], 1), i) = 0 /\ Is(Nth(put[q], 2), i) = 0
  <2>1. Is(cwd[q], i) + Is(file[q], i) + Is(c[q].at, i) + Is(c[q].ip, i)
        + Is(Nth(put[q], 1), i) + Is(Nth(put[q], 2), i) = 0
    BY DEF Mine, Own
  <2> QED
    BY <1>1, <2>1
<1>3. /\ Having(cwd, i) = {} /\ Having(file, i) = {} /\ HavingAt(c, i) = {} /\ HavingIp(c, i) = {}
  BY <1>2 DEF Having, HavingAt, HavingIp, Is
<1>4. Putting(put, i) = {}
  <2>1. ASSUME NEW x \in Proc \X (1..2), x[2] \in DOMAIN put[x[1]], put[x[1]][x[2]] = i
        PROVE  FALSE
    <3>1. PICK q \in Proc, n \in 1..2 : q = x[1] /\ n = x[2]
      <4>1. x[1] \in Proc /\ x[2] \in 1..2
        OBVIOUS
      <4> QED
        BY <4>1, Zenon
    <3>2. put[q] \in Seq(Inum) /\ n \in 1..Len(put[q]) /\ put[q][n] = i /\ Len(put[q]) \in Nat
      BY <2>1, <3>1 DEF Types
    <3>3. Nth(put[q], n) = i
      BY <3>2 DEF Nth
    <3>4. n = 1 \/ n = 2
      OBVIOUS
    <3> QED
      BY <1>2, <3>3, <3>4 DEF Is
  <2> QED
    BY <2>1 DEF Putting
<1>5. /\ Cardinality(Having(cwd, i)) = 0 /\ Cardinality(Having(file, i)) = 0
      /\ Cardinality(HavingAt(c, i)) = 0 /\ Cardinality(HavingIp(c, i)) = 0
      /\ Cardinality(Putting(put, i)) = 0
  BY <1>3, <1>4, FS_EmptySet
<1> QED
  BY <1>5, PointersAre

(* The inode that ialloc finds is nobody's. *)
LEMMA FreeIs ==
  ASSUME FsInv, Tame, FreeInodes # {}
  PROVE  /\ ialloc \in Inum /\ din[ialloc].type = "none" /\ din[ialloc].nlink = 0
         /\ ialloc \notin removed /\ dir[ialloc] = NoEntry /\ ~valid[ialloc] /\ ref[ialloc] = 0
         /\ \A q \in Proc : Mine(q, ialloc) = 0 /\ ~Owns(q, ialloc)
         /\ \A k \in Inum, a \in Name : dir[k][a] # ialloc
PROOF
<1>1. Types /\ RefCounts /\ DiskTypes /\ Live /\ Cached /\ Dirs /\ Linked
  BY DEF FsInv, MemInv
<1>2. ialloc \in FreeInodes
  <2>1. FreeInodes \in SUBSET Nat
    BY DEF FreeInodes, Inum
  <2> QED
    BY <2>1, MinIn DEF ialloc
<1>3. PICK i \in Inum : /\ i = ialloc /\ din[i].type = "none"
                        /\ \A q \in Proc : stage[q] = "clear" => Head(put[q]) # i
  BY <1>2 DEF FreeInodes, Tame
<1>4. \A q \in Proc : ~Clearing(q, i)
  BY <1>3 DEF Clearing
<1>5. ~valid[i] /\ din[i].nlink = 0 /\ i \notin removed /\ dir[i] = NoEntry
  BY <1>1, <1>3, <1>4 DEF Cached, Dirs
<1>6. \A q \in Proc : Mine(q, i) = 0
  <2>1. \A q \in Proc : ~(Mine(q, i) > 0) /\ Mine(q, i) \in Nat
    BY <1>1, <1>3, <1>4, PointersOne DEF Live
  <2> QED
    BY <2>1
<1>7. ref[i] = 0
  BY <1>1, <1>6, Unpointed DEF RefCounts
<1>8. \A q \in Proc : ~Owns(q, i)
  <2>1. ASSUME NEW q \in Proc, Owns(q, i)
        PROVE  FALSE
    <3>1. Mine(q, i) = 1
      BY <2>1, OwnerIsSole
    <3> QED
      BY <1>6, <3>1
  <2> QED
    BY <2>1
<1>9. \A k \in Inum, a \in Name : dir[k][a] # i
  <2>1. \A k \in Inum, a \in Name : dir[k][a] = i => din[i].nlink > 0
    BY <1>1, HasLink
  <2> QED
    BY <1>5, <2>1
<1> QED
  BY <1>3, <1>5, <1>6, <1>7, <1>8, <1>9

(* A name that a directory does not have is not "." or "..". *)
LEMMA NewName ==
  ASSUME FsInv, NEW p \in Proc, put[p] = <<>>, c[p].pc = "parent",
         dir[c[p].at][Head(c[p].path)] = 0
  PROVE  Head(c[p].path) \in Name
PROOF
<1>1. MemInv /\ Types /\ Forward /\ WorkingFor(p) /\ Dirs
  BY DEF FsInv, MemInv, Working
<1>2. PICK d \in Inum : d = c[p].at
  BY <1>1, MoveBegin
<1>3. /\ c[p].path \in Seq(Elem) /\ c[p].path # <<>> /\ Head(c[p].path) \in Elem
  BY <1>1, Lookup
<1>4. Head(c[p].path) # ".."
  BY <1>1, <1>3 DEF Forward, Plain
<1>5. ~Creating(d)
  <2>1. Mine(p, d) > 0
    BY <1>2, MineIs
  <2>2. \A q \in Proc : q # p => ~Owns(q, d)
    BY <2>1, HeldLive
  <2> QED
    BY <2>2 DEF Creating, Owns, Creates
<1>6. dir[d]["."] = d /\ d # 0
  BY <1>1, <1>2, <1>5 DEF Dirs, WorkingFor, Inum
<1> QED
  BY <1>2, <1>3, <1>4, <1>6 DEF Elem, Dots

(* create takes a free inode. *)
LEMMA CreateNewKeeps ==
  ASSUME FsInv, Tame, NEW p \in Proc, create_parent(p),
         dir[c[p].at][Head(c[p].path)] = 0, FreeInodes # {}
  PROVE  FsInv'
PROOF
<1>1. MemInv /\ Types /\ DiskTypes /\ Forward /\ WorkingFor(p) /\ Linked /\ Dirs /\ Apart /\ Tree
      /\ Acyclic
  BY DEF FsInv, MemInv, Working
<1>2. put[p] = <<>> /\ c[p].pc = "parent" /\ c[p].op \in {"create", "mkdir", "mknod"} /\ ~Creates(p)
  BY DEF create_parent, In, Creates
<1>3. PICK d \in Inum, e \in Name : d = c[p].at /\ e = Head(c[p].path)
  <2>1. c[p].at \in Inum /\ Head(c[p].path) \in Name
    BY <1>1, <1>2, MoveBegin, NewName
  <2> QED
    BY <2>1, Zenon
<1>4. PICK i \in Inum : i = ialloc
  BY FreeIs
<1>5. /\ din[i].type = "none" /\ din[i].nlink = 0 /\ i \notin removed /\ dir[i] = NoEntry
      /\ ~valid[i] /\ ref[i] = 0 /\ (\A q \in Proc : Mine(q, i) = 0 /\ ~Owns(q, i))
      /\ \A k \in Inum, a \in Name : dir[k][a] # i
  BY <1>4, FreeIs
<1>6. Mine(p, d) > 0 /\ din[d].type = "dir" /\ Locked(d) = din[d] /\ d # i /\ dir[d][e] = 0
      /\ c[p] \in Record
  BY <1>1, <1>2, <1>3, <1>5, MineIs, LockedIs, MoveBegin DEF WorkingFor
<1>7a. PICK y : y = CASE c[p].op = "create" -> "file" [] c[p].op = "mkdir" -> "dir"
                      [] c[p].op = "mknod" -> "dev"
  OBVIOUS
<1>7b. y \in Type /\ y # "none" /\ (y = "dir" <=> c[p].op = "mkdir")
  BY <1>2, <1>7a DEF Type
<1>7. PICK x \in InodeType : /\ x = [type |-> y, nlink |-> 0]
                             /\ x.type # "none" /\ x.nlink = 0
                             /\ (x.type = "dir" <=> c[p].op = "mkdir")
  <2>1. [type |-> y, nlink |-> 0] \in InodeType
    BY <1>7b DEF InodeType
  <2> QED
    BY <1>7b, <2>1
<1>8. /\ load(d) /\ din' = [din EXCEPT ![i] = x] /\ iget(i)
      /\ c' = [c EXCEPT ![p] = [c[p] EXCEPT !.pc = "child", !.ip = i]]
      /\ UNCHANGED <<dir, removed, orphans, panic>>
  BY <1>3, <1>4, <1>7a, <1>7 DEF create_parent, dirlookup, go, hist
<1>9. /\ c'[p].pc = "child" /\ c'[p].op = c[p].op /\ c'[p].at = d /\ c'[p].ip = i
      /\ c'[p].path = c[p].path /\ c'[p].new = c[p].new
  <2>1. c'[p] = [c[p] EXCEPT !.pc = "child", !.ip = i]
    BY <1>1, <1>8 DEF Types
  <2> QED
    BY <1>3, <1>6, <2>1 DEF Record
<1>10. Goes(p, i)
  <2>1. PICK j : Goes(p, j)
    BY <1>1, CreateMove
  <2> QED
    BY <1>1, <1>8, <2>1, GoesIs
<1>11. /\ din'[i] = x /\ \A k \in Inum : k # i => din'[k] = din[k]
  BY <1>1, <1>8 DEF DiskTypes
<1>12. /\ valid'[d] /\ inode'[d] = din[d] /\ ref'[i] = 1
       /\ \A k \in Inum : k # d => valid'[k] = valid[k] /\ inode'[k] = inode[k]
       /\ inode' = [k \in Inum |-> inode'[k]] /\ din' = [k \in Inum |-> din'[k]]
  <2>1. /\ valid \in [Inum -> BOOLEAN] /\ inode \in [Inum -> InodeType] /\ ref \in [Inum -> Nat]
        /\ din \in [Inum -> InodeType]
    BY <1>1 DEF Types, DiskTypes, InodeType
  <2>2. valid' = [valid EXCEPT ![d] = TRUE] /\ inode' = [inode EXCEPT ![d] = din[d]]
        /\ ref' = [ref EXCEPT ![i] = ref[i] + 1]
    BY <1>6, <1>8 DEF load, iget
  <2>3. valid'[d] /\ inode'[d] = din[d] /\ ref'[i] = 1
    BY <1>5, <2>1, <2>2
  <2>4. \A k \in Inum : k # d => valid'[k] = valid[k] /\ inode'[k] = inode[k]
    BY <2>1, <2>2
  <2>5. inode' = [k \in Inum |-> inode'[k]]
    BY <2>1, <2>2
  <2>6. din' = [k \in Inum |-> din'[k]]
    BY <1>8, <2>1
  <2> QED
    BY <2>3, <2>4, <2>5, <2>6
<1>13. Effects(p)
  <2>1. \A k \in Inum : k # d /\ k # i => Same(k)
    BY <1>8, <1>11, <1>12 DEF Same
  <2>2. Written(p, d)
    BY <1>1, <1>6, <1>11, <1>12 DEF Written, DiskTypes, InodeType
  <2>3. Creates(p)' /\ c'[p].ip = i
    BY <1>2, <1>9 DEF Creates
  <2>4. Made(p, i)
    BY <1>5, <1>6, <1>7, <1>8, <1>11, <1>12, <2>3 DEF Made
  <2> QED
    BY <1>2, <1>8, <1>12, <2>1, <2>2, <2>4 DEF Effects
<1>14. Takes(p, i)
  BY <1>5, <1>7, <1>11 DEF Takes
<1>15. /\ MemInv' /\ DiskTypes' /\ Live' /\ Freeing' /\ Cached' /\ Kept'
       /\ \A q \in Proc : q # p => FreshFor(q)' /\ WorkingFor(q)'
  BY <1>10, <1>13, <1>14, MoveKeeps
<1>16. FreshFor(p)' /\ WorkingFor(p)'
  <2>1. FreshFor(p)'
    <3>1. /\ ref'[i] = 1 /\ din'[i].nlink = 0 /\ dir'[i] = NoEntry /\ i \notin removed'
          /\ din'[i].type # "none" /\ (din'[i].type = "dir" <=> c'[p].op = "mkdir")
      BY <1>5, <1>7, <1>8, <1>9, <1>11, <1>12
    <3> QED
      BY <1>9, <3>1 DEF FreshFor
  <2>2. WorkingFor(p)'
    BY <1>2, <1>3, <1>6, <1>8, <1>9, <1>11, <1>12 DEF WorkingFor
  <2> QED
    BY <2>1, <2>2
<1>17. Fresh' /\ Working' /\ Forward' /\ NoPanic'
  <2>1. Fresh' /\ Working'
    BY <1>15, <1>16 DEF Fresh, Working
  <2>2. Plain(c'[p].path) /\ Plain(c'[p].new)
    BY <1>1, <1>9 DEF Forward
  <2>3. Forward'
    BY <1>1, <1>10, <2>2, ForwardStep
  <2> QED
    BY <1>8, <2>1, <2>3 DEF FsInv, NoPanic
<1>18. \A q \in Proc : q # p => c'[q] = c[q]
  BY <1>1, <1>10, MoveEffect DEF Goes, Others
<1>19. Creating(i)' /\ \A k : Creating(k) => Creating(k)'
  <2>1. Creates(p)' /\ c'[p].ip = i
    BY <1>2, <1>9 DEF Creates
  <2>2. \A q \in Proc : Creates(q) => Creates(q)' /\ c'[q].ip = c[q].ip
    BY <1>2, <1>18 DEF Creates
  <2> QED
    BY <2>1, <2>2 DEF Creating
<1>20. Dirs'
  <2>1. ASSUME NEW k \in Inum
        PROVE  /\ din'[k].type # "dir" => dir'[k] = NoEntry
               /\ din'[k].type = "dir" /\ ~Creating(k)' => dir'[k]["."] = k
               /\ din'[k].type = "none" => din'[k].nlink = 0 /\ k \notin removed'
    <3>1. CASE k = i
      BY <1>5, <1>7, <1>8, <1>11, <1>19, <3>1
    <3>2. CASE k # i
      BY <1>1, <1>8, <1>11, <1>19, <3>2 DEF Dirs
    <3> QED
      BY <3>1, <3>2
  <2>2. din'[ROOTINO].type = "dir" /\ dir'[ROOTINO][".."] = ROOTINO
    <3>1. ROOTINO \in Inum /\ ROOTINO # i
      BY <1>1, <1>5, FirstType DEF Dirs
    <3> QED
      BY <1>1, <1>8, <1>11, <3>1 DEF Dirs
  <2> QED
    BY <2>1, <2>2 DEF Dirs
<1>21. \A k \in Inum, a \in Name : dir[k][a] # 0 => dir[k][a] \in Inum /\ din'[dir[k][a]] = din[dir[k][a]]
  BY <1>1, <1>5, <1>11, EntryType
<1>22. Linked'
  <2>1. OneEntry(d, e)
    BY <1>8, <1>21 DEF OneEntry, Differ
  <2>2. LinkIp(c'[p]) = 0 /\ LinkIp(c[p]) = 0
    BY <1>2, <1>9 DEF LinkIp
  <2>3. \A k \in Inum : din'[k].nlink = din[k].nlink
    BY <1>5, <1>7, <1>11
  <2>4. ASSUME NEW k \in Inum
        PROVE  Part(c'[p], din', dir', d, e, k) = Part(c[p], din, dir, d, e, k)
    BY <1>6, <1>8, <2>2 DEF Part, Is, IsDirIn, Inum
  <2>5. \A k \in Inum : din'[k].nlink - Part(c'[p], din', dir', d, e, k)
                          = din[k].nlink - Part(c[p], din, dir, d, e, k)
    BY <2>3, <2>4
  <2>6. Types' /\ \A k \in removed : k \in removed'
    BY <1>8, <1>15 DEF MemInv
  <2> QED
    BY <1>1, <1>15, <1>18, <2>1, <2>5, <2>6, LinkedStep
<1>23. Apart'
  <2>1. ASSUME NEW k \in Inum, NEW a \in Name, dir[k][a] # 0
        PROVE  /\ k \in removed => dir[k][a] \in removed
               /\ k \notin removed => ~(din'[dir[k][a]].type = "dir" /\ dir[k][a] \in removed)
    BY <1>1, <1>21, <2>1 DEF Apart, IsDir
  <2>2. \A k \in Inum \ removed : din'[k].nlink = 0 => \A a \in Name : dir[k][a] = 0
    <3>1. \A k \in Inum : din'[k].nlink = din[k].nlink
      BY <1>5, <1>7, <1>11
    <3> QED
      BY <1>1, <3>1 DEF Apart
  <2> QED
    BY <1>8, <2>1, <2>2 DEF Apart, IsDir
<1>24. Tree'
  <2>1. ASSUME NEW k \in Inum, NEW a \in Name, dir[k][a] # 0, din'[dir[k][a]].type = "dir"
        PROVE  IsDir(dir[k][a])
    BY <1>21, <2>1 DEF IsDir
  <2>2. ASSUME NEW k \in Inum, din'[k].type = "dir", din'[k].nlink > 0
        PROVE  IsDir(k) /\ din[k].nlink > 0
    BY <1>7, <1>11, <2>2 DEF IsDir
  <2> QED
    BY <1>1, <1>8, <2>1, <2>2 DEF Tree, IsDir
<1>25. Acyclic'
  BY <1>1, <1>8 DEF Acyclic
<1> QED
  BY <1>15, <1>17, <1>20, <1>22, <1>23, <1>24, <1>25 DEF FsInv

-----------------------------------------------------------------------------
(* iput *)

(* What is said of directories alone. *)
LEMMA DiskSame ==
  ASSUME FsInv, UNCHANGED <<din, dir, c, removed, panic>>
  PROVE  Forward' /\ Dirs' /\ Linked' /\ Apart' /\ Tree' /\ Acyclic' /\ NoPanic'
PROOF
<1>1. Forward /\ Dirs /\ Linked /\ Apart /\ Tree /\ Acyclic /\ NoPanic
  BY DEF FsInv
<1>2. Forward' /\ NoPanic' /\ Acyclic'
  BY <1>1 DEF Forward, Plain, NoPanic, Acyclic
<1>3. Dirs'
  BY <1>1 DEF Dirs, Creating, Creates
<1>4. Linked'
  BY <1>1 DEF Linked, Links, NamesIn, DirsIn, LinkersIn, Root
<1>5. Apart' /\ Tree'
  BY <1>1 DEF Apart, Tree, IsDir
<1> QED
  BY <1>2, <1>3, <1>4, <1>5

(* A process in iput makes nothing and has no directory to work in; what   *)
(* it has one of two pointers to stays in the cache.                       *)
LEMMA PutOthers ==
  ASSUME FsInv, NEW p \in Proc, put[p] # <<>>, NEW i \in Inum, i = Head(put[p])
  PROVE  /\ Mine(p, i) \in Nat /\ Mine(p, i) > 0 /\ ref[i] \in Nat /\ ref[i] > 0
         /\ c[p].pc # "parent" /\ c[p].pc # "child"
         /\ \A q \in Proc : q # p => ~Owns(q, i)
         /\ \A q \in Proc : c[q].pc \in {"parent", "child"} =>
              q # p /\ c[q].at \in Inum /\ (c[q].at = i => ref[i] > 1)
         /\ \A q \in Proc : Creates(q) => c[q].ip \in Inum /\ c[q].ip # i
PROOF
<1>1. MemInv /\ Types /\ Control /\ RefCounts
  BY DEF FsInv, MemInv
<1>2. Mine(p, i) \in Nat /\ Mine(p, i) > 0
  BY <1>1, PutHead
<1>3. ref[i] \in Nat /\ ref[i] > 0
  BY <1>1, <1>2, Pointed DEF Types
<1>4. c[p].pc # "parent" /\ c[p].pc # "child"
  BY <1>1 DEF Control, Proper
<1>5. \A q \in Proc : q # p => ~Owns(q, i)
  <2>1. ASSUME NEW q \in Proc, q # p, Owns(q, i)
        PROVE  FALSE
    <3>1. Mine(p, i) = 0
      BY <2>1, OwnerIsSole
    <3> QED
      BY <1>2, <3>1
  <2> QED
    BY <2>1
<1>6. ASSUME NEW q \in Proc, c[q].pc \in {"parent", "child"}
      PROVE  q # p /\ c[q].at \in Inum /\ (c[q].at = i => ref[i] > 1)
  <2>1. q # p /\ put[q] = <<>>
    BY <1>1, <1>4, <1>6 DEF Control, Proper
  <2>2. c[q].at \in Inum
    BY <1>1, <1>6, <2>1, MoveBegin
  <2>3. ASSUME c[q].at = i, ref[i] = 1
        PROVE  FALSE
    <3>1. Mine(q, i) > 0
      BY <2>3, MineIs
    <3>2. Mine(q, i) = 0
      BY <1>1, <1>2, <2>1, <2>3, Sole
    <3> QED
      BY <3>1, <3>2
  <2> QED
    BY <1>3, <2>1, <2>2, <2>3
<1>7. ASSUME NEW q \in Proc, Creates(q)
      PROVE  c[q].ip \in Inum /\ c[q].ip # i
  <2>1. q # p /\ put[q] = <<>> /\ c[q].pc = "child"
    BY <1>1, <1>4, <1>7 DEF Control, Proper, Creates
  <2>2. c[q].ip \in Inum
    BY <1>1, <2>1, MoveBegin
  <2> QED
    BY <1>5, <1>7, <2>1, <2>2 DEF Owns
<1> QED
  BY <1>2, <1>3, <1>4, <1>5, <1>6, <1>7

(* The pointer is given up, and the entry is cleared with the last one. *)
Clears(p, i) ==
  /\ Drops(p) /\ stage[p] \in {"test", "clear"}
  /\ inode' \in [Inum -> InodeType]
  /\ \A k \in Inum : k # i => valid'[k] = valid[k] /\ inode'[k] = inode[k]
  /\ valid'[i] => valid[i] /\ ref[i] > 1 /\ inode'[i] = inode[i]
  /\ valid[i] /\ ~valid'[i] => ref[i] = 1 /\ (din[i].type = "none" \/ din[i].nlink # 0)
  /\ UNCHANGED <<din, removed, orphans, panic>>

LEMMA ClearKeeps ==
  ASSUME FsInv, NEW p \in Proc, put[p] # <<>>, NEW i \in Inum, i = Head(put[p]), Clears(p, i)
  PROVE  FsInv'
PROOF
<1>1. MemInv /\ Types /\ Control /\ RefCounts /\ DiskTypes /\ Live /\ Freeing /\ Fresh /\ Working
      /\ Cached /\ Kept
  BY DEF FsInv, MemInv
<1>2. /\ Drops(p) /\ UNCHANGED <<din, dir, c, removed, orphans, panic>>
      /\ \A k \in Inum : k # i => valid'[k] = valid[k] /\ inode'[k] = inode[k]
      /\ valid'[i] => valid[i] /\ ref[i] > 1 /\ inode'[i] = inode[i]
      /\ valid[i] /\ ~valid'[i] => ref[i] = 1 /\ (din[i].type = "none" \/ din[i].nlink # 0)
  BY DEF Clears, Drops
<1>3. /\ MemInv' /\ stage'[p] = "test"
      /\ \A k \in Inum : Mine(p, k)' = Mine(p, k) - Is(i, k) /\ ref'[k] = ref[k] - Is(i, k)
      /\ \A q \in Proc : q # p => \A k \in Inum : Mine(q, k)' = Mine(q, k)
      /\ \A q \in Proc : q # p => put'[q] = put[q] /\ stage'[q] = stage[q]
  BY <1>1, <1>2, DropEffect DEF Others
<1>4. /\ Mine(p, i) \in Nat /\ Mine(p, i) > 0 /\ ref[i] \in Nat /\ ref[i] > 0
      /\ \A q \in Proc : q # p => ~Owns(q, i)
      /\ \A q \in Proc : c[q].pc \in {"parent", "child"} =>
           q # p /\ c[q].at \in Inum /\ (c[q].at = i => ref[i] > 1)
      /\ \A q \in Proc : Creates(q) => c[q].ip \in Inum /\ c[q].ip # i
  BY PutOthers
<1>5. \A k \in Inum : k # i => ref'[k] = ref[k]
  BY <1>1, <1>3 DEF Is, Types
<1>6. Forward' /\ Dirs' /\ Linked' /\ Apart' /\ Tree' /\ Acyclic' /\ NoPanic'
  BY <1>2, DiskSame
<1>7. DiskTypes'
  BY <1>1, <1>2 DEF DiskTypes, Clears, InodeType
<1>8. \A q \in Proc, k \in Inum : q # p => (Clearing(q, k)' <=> Clearing(q, k))
  BY <1>3 DEF Clearing
<1>9. stage[p] = "clear" => ref[i] = 1 /\ din[i].type = "none"
  BY <1>1 DEF Freeing
<1>10. \A k \in Inum : Clearing(p, k) => k = i /\ ref[i] = 1
  BY <1>9 DEF Clearing
<1>11. Live'
  <2>1. ASSUME NEW q \in Proc, NEW k \in Inum, Mine(q, k)' > 0
        PROVE  din[k].type # "none" \/ Clearing(q, k)'
    <3>1. CASE q # p
      BY <1>1, <1>3, <1>8, <2>1, <3>1 DEF Live
    <3>2. CASE q = p /\ k # i
      <4>1. Mine(p, k) > 0
        <5>1. Mine(p, k) \in Nat /\ Is(i, k) = 0 /\ Mine(p, k)' > 0
          BY <1>1, <2>1, <3>2, PointersOne DEF Is
        <5> QED
          BY <1>3, <5>1
      <4> QED
        BY <1>1, <1>10, <3>2, <4>1 DEF Live
    <3>3. CASE q = p /\ k = i
      <4>1. Mine(p, i) > 1
        <5>1. Is(i, i) = 1
          BY DEF Is
        <5> QED
          BY <1>3, <1>4, <2>1, <3>3, <5>1
      <4>2. ref[i] # 1
        <5>1. ref[i] = 1 => Mine(p, i) = 1
          BY <1>1, <1>4, Sole
        <5> QED
          BY <4>1, <5>1
      <4> QED
        BY <1>1, <1>4, <1>10, <3>3, <4>2 DEF Live
    <3> QED
      BY <3>1, <3>2, <3>3
  <2> QED
    BY <1>2, <2>1 DEF Live
<1>12. Freeing'
  <2>1. ASSUME NEW q \in Proc, stage'[q] # "test"
        PROVE  /\ ref'[Head(put'[q])] = 1 /\ din'[Head(put'[q])].nlink = 0
               /\ valid'[Head(put'[q])]
               /\ stage'[q] = "clear" => din'[Head(put'[q])].type = "none"
    <3>1. q # p /\ stage[q] # "test" /\ stage'[q] = stage[q] /\ put'[q] = put[q]
      BY <1>3, <2>1
    <3>2. put[q] # <<>>
      BY <1>1, <3>1 DEF Control, Proper
    <3>3. PICK h \in Inum : h = Head(put[q])
      BY <1>1, <3>2, PutHead
    <3>4. ref[h] = 1 /\ din[h].nlink = 0 /\ valid[h] /\ (stage[q] = "clear" => din[h].type = "none")
      BY <1>1, <3>1, <3>3 DEF Freeing
    <3>5. h # i
      BY <1>4, <3>1, <3>3 DEF Owns
    <3> QED
      BY <1>2, <1>5, <3>1, <3>3, <3>4, <3>5
  <2> QED
    BY <2>1 DEF Freeing
<1>13. Fresh'
  <2>1. ASSUME NEW q \in Proc
        PROVE  FreshFor(q)'
    <3>1. FreshFor(q) /\ (Creates(q) => c[q].ip \in Inum /\ c[q].ip # i)
      BY <1>1, <1>4 DEF Fresh
    <3> QED
      BY <1>2, <1>5, <3>1 DEF FreshFor, Creates
  <2> QED
    BY <2>1 DEF Fresh
<1>14. Working'
  <2>1. ASSUME NEW q \in Proc
        PROVE  WorkingFor(q)'
    <3>1. WorkingFor(q)
      BY <1>1 DEF Working
    <3>2. c[q].pc = "child" /\ valid[c[q].at] => valid'[c[q].at]
      <4>1. c[q].pc = "child" => c[q].at \in Inum /\ (c[q].at = i => ref[i] > 1)
        BY <1>4
      <4> QED
        BY <1>2, <4>1
    <3> QED
      BY <1>2, <3>1, <3>2 DEF WorkingFor
  <2> QED
    BY <2>1 DEF Working
<1>15. Cached'
  <2>1. ASSUME NEW k \in Inum, valid'[k]
        PROVE  /\ inode'[k] = din'[k] /\ ref'[k] > 0
               /\ din'[k].type = "none" => \E q \in Proc : Clearing(q, k)'
    <3>1. valid[k] /\ inode'[k] = inode[k] /\ (k = i => ref[i] > 1)
      BY <1>2, <2>1
    <3>2. inode[k] = din[k] /\ ref[k] > 0 /\ (din[k].type = "none" => \E q \in Proc : Clearing(q, k))
      BY <1>1, <3>1 DEF Cached
    <3>3. ref'[k] > 0
      <4>1. CASE k = i
        <5>1. ref'[i] = ref[i] - 1
          BY <1>3 DEF Is
        <5> QED
          BY <1>4, <3>1, <4>1, <5>1
      <4>2. CASE k # i
        BY <1>5, <3>2, <4>2
      <4> QED
        BY <4>1, <4>2
    <3>4. ASSUME din[k].type = "none"
          PROVE  \E q \in Proc : Clearing(q, k)'
      <4>1. PICK q \in Proc : Clearing(q, k)
        BY <3>2, <3>4
      <4>2. q # p
        BY <1>10, <3>1, <4>1
      <4> QED
        BY <1>8, <4>1, <4>2
    <3> QED
      BY <1>2, <3>1, <3>2, <3>3, <3>4
  <2> QED
    BY <2>1 DEF Cached
<1>16. Kept'
  <2>1. ASSUME NEW k \in Inum, k \notin orphans, din[k].type # "none", din[k].nlink = 0, ~Creating(k)
        PROVE  valid'[k]
    <3>1. valid[k]
      BY <1>1, <2>1 DEF Kept
    <3> QED
      BY <1>2, <2>1, <3>1
  <2> QED
    BY <1>2, <2>1 DEF Kept, Creating, Creates
<1> QED
  BY <1>3, <1>6, <1>7, <1>11, <1>12, <1>13, <1>14, <1>15, <1>16 DEF FsInv

(* iput finds an inode to be freed. *)
LEMMA TestFreeKeeps ==
  ASSUME FsInv, NEW p \in Proc, iput_test(p), NoLinks(Head(put[p]))
  PROVE  FsInv'
PROOF
<1>1. MemInv /\ Types /\ Control /\ DiskTypes /\ Live /\ Freeing /\ Fresh /\ Working /\ Cached
      /\ Kept
  BY DEF FsInv, MemInv
<1>2. put[p] # <<>> /\ stage[p] = "test"
  BY DEF iput_test
<1>3. PICK i \in Inum : i = Head(put[p])
  BY <1>1, <1>2, PutHead
<1>4. /\ stage' = [stage EXCEPT ![p] = "free"]
      /\ UNCHANGED <<ref, put, valid, inode, din, dir, lock, c, cwd, file, orphans, removed, panic>>
  BY DEF iput_test, disk, hist
<1>5. MemInv' /\ \A q \in Proc, k \in Inum : Mine(q, k)' = Mine(q, k)
  BY <1>1, IputSteps, StayEffect
<1>6. Forward' /\ Dirs' /\ Linked' /\ Apart' /\ Tree' /\ Acyclic' /\ NoPanic'
  BY <1>4, DiskSame
<1>7. stage'[p] = "free" /\ \A q \in Proc : q # p => stage'[q] = stage[q]
  BY <1>1, <1>4 DEF Types
<1>8. \A q \in Proc, k \in Inum : Clearing(q, k)' <=> Clearing(q, k)
  BY <1>2, <1>4, <1>7 DEF Clearing
<1>9. Live'
  BY <1>1, <1>4, <1>5, <1>8 DEF Live
<1>10. Freeing'
  <2>1. ASSUME NEW q \in Proc, stage'[q] # "test"
        PROVE  /\ ref'[Head(put'[q])] = 1 /\ din'[Head(put'[q])].nlink = 0
               /\ valid'[Head(put'[q])]
               /\ stage'[q] = "clear" => din'[Head(put'[q])].type = "none"
    <3>1. CASE q = p
      <4>1. ref[i] = 1 /\ valid[i] /\ inode[i].nlink = 0
        BY <1>3 DEF NoLinks
      <4>2. inode[i] = din[i]
        BY <1>1, <4>1 DEF Cached
      <4> QED
        BY <1>3, <1>4, <1>7, <3>1, <4>1, <4>2
    <3>2. CASE q # p
      BY <1>1, <1>4, <1>7, <2>1, <3>2 DEF Freeing
    <3> QED
      BY <3>1, <3>2
  <2> QED
    BY <2>1 DEF Freeing
<1>11. Fresh' /\ Working'
  BY <1>1, <1>4 DEF Fresh, Working, FreshFor, WorkingFor, Creates
<1>12. Cached' /\ Kept' /\ DiskTypes'
  BY <1>1, <1>4, <1>8 DEF Cached, Kept, DiskTypes, Creating, Creates
<1> QED
  BY <1>5, <1>6, <1>9, <1>10, <1>11, <1>12 DEF FsInv

(* iput gives up the pointer, at once or after it has freed the inode. *)
LEMMA DropKeeps ==
  ASSUME FsInv, NEW p \in Proc, iput_clear(p) \/ (iput_test(p) /\ ~NoLinks(Head(put[p])))
  PROVE  FsInv'
PROOF
<1>1. MemInv /\ Types /\ Control /\ DiskTypes /\ Freeing /\ Cached
  BY DEF FsInv, MemInv
<1>2. put[p] # <<>> /\ stage[p] \in {"test", "clear"}
  BY <1>1 DEF iput_test, iput_clear, Control, Proper
<1>3. PICK i \in Inum : i = Head(put[p])
  BY <1>1, <1>2, PutHead
<1>4. Drops(p) /\ UNCHANGED <<din, removed, orphans, panic>>
  BY <1>1, IputSteps DEF iput_test, iput_clear, disk, hist
<1>5. /\ ref[i] \in Nat /\ ref[i] > 0 /\ valid \in [Inum -> BOOLEAN] /\ Free \in InodeType
      /\ inode \in [Inum -> InodeType]
  BY <1>1, <1>2, <1>3, PutOthers DEF Types, DiskTypes, InodeType, Free, Type
<1>6. PICK x : x = IF ref[i] > 1 THEN inode[i] ELSE Free
  OBVIOUS
<1>7. inode' = [inode EXCEPT ![i] = x] /\ x \in InodeType
  BY <1>3, <1>5, <1>6 DEF iput_test, iput_clear
<1>8. inode' \in [Inum -> InodeType] /\ \A k \in Inum : k # i => inode'[k] = inode[k]
  BY <1>5, <1>7
<1>9. CASE iput_test(p) /\ ~NoLinks(i)
  <2>1. PICK b \in BOOLEAN : b <=> valid[i] /\ ref[i] > 1
    OBVIOUS
  <2>2. valid' = [valid EXCEPT ![i] = b]
    <3>1. valid' = [valid EXCEPT ![i] = valid[i] /\ ref[i] > 1]
      BY <1>3, <1>9 DEF iput_test
    <3>2. b = (valid[i] /\ ref[i] > 1)
      BY <2>1
    <3> QED
      BY <3>1, <3>2, Zenon
  <2>3. (valid'[i] <=> valid[i] /\ ref[i] > 1) /\ \A k \in Inum : k # i => valid'[k] = valid[k]
    BY <1>5, <2>1, <2>2
  <2>4. valid'[i] => inode'[i] = inode[i]
    BY <1>5, <1>6, <1>7, <2>3
  <2>5. valid[i] /\ ref[i] = 1 => din[i].nlink # 0
    BY <1>1, <1>9 DEF NoLinks, Cached
  <2>6. valid[i] /\ ~valid'[i] => ref[i] = 1
    BY <1>5, <2>3
  <2>7. Clears(p, i)
    BY <1>2, <1>4, <1>8, <2>3, <2>4, <2>5, <2>6 DEF Clears
  <2> QED
    BY <1>2, <1>3, <2>7, ClearKeeps
<1>10. CASE iput_clear(p)
  <2>1. valid' = [valid EXCEPT ![i] = FALSE] /\ stage[p] = "clear"
    BY <1>3, <1>10 DEF iput_clear
  <2>2. ~valid'[i] /\ \A k \in Inum : k # i => valid'[k] = valid[k]
    BY <1>5, <2>1
  <2>3. ref[i] = 1 /\ din[i].type = "none"
    BY <1>1, <1>3, <2>1 DEF Freeing
  <2>4. Clears(p, i)
    BY <1>2, <1>4, <1>8, <2>2, <2>3 DEF Clears
  <2> QED
    BY <1>2, <1>3, <2>4, ClearKeeps
<1> QED
  BY <1>3, <1>9, <1>10

(* No call waits for an inode without a type, or finds one without a link  *)
(* in the directory.                                                       *)
LEMMA PanicNever ==
  ASSUME FsInv, NEW p \in Proc, ilock_panic(p)
  PROVE  FALSE
PROOF
<1>1. /\ MemInv /\ Types /\ DiskTypes /\ Linked
      /\ put[p] = <<>> /\ c[p].pc \in {"walk", "target", "parent", "child", "link_bad"}
  BY DEF FsInv, MemInv, ilock_panic
<1>2. PICK i \in Inum : i = Wants(p) /\ i \in {c[p].at, c[p].ip}
  <2>1. Proper(c[p], put[p], stage[p], file[p]) /\ c[p] \in Record
    BY <1>1 DEF MemInv, Control, Types
  <2>2. Wants(p) \in Inum
    BY <1>1, <2>1 DEF Proper, Record, Wants, Inum
  <2> QED
    BY <2>2 DEF Wants
<1>3. din[i].type # "none"
  BY <1>1, <1>2, MineIs, HeldLive
<1>4. /\ c[p].pc = "child" /\ c[p].op = "unlink" /\ Locked(i).nlink = 0
  BY <1>2, <1>3 DEF ilock_panic
<1>5. i = c[p].ip /\ Locked(i) = din[i]
  BY <1>2, <1>4, LockedIs DEF Wants
<1>6. PICK d \in Inum : d = c[p].at
  BY <1>1, <1>4, ChildBegin
<1>7. PICK e \in Name : e = Head(c[p].path)
  BY <1>1, <1>4, ChildBegin
<1>8. dir[d][e] = i
  BY <1>1, <1>4, <1>5, <1>6, <1>7, ChildBegin
<1>9. din[i].nlink > 0
  BY <1>1, <1>8, HasLink
<1> QED
  BY <1>4, <1>5, <1>9

(* A crash. *)
LEMMA CrashKeeps ==
  ASSUME FsInv, Crash
  PROVE  FsInv'
PROOF
<1>1. MemInv /\ Types /\ Control /\ DiskTypes /\ Dirs /\ Working
  BY DEF FsInv, MemInv
<1>2. /\ inode' = [i \in Inum |-> Free] /\ valid' = [i \in Inum |-> FALSE]
      /\ cwd' = [p \in Proc |-> ROOTINO] /\ file' = [p \in Proc |-> 0]
      /\ orphans' = orphans \cup {i \in Inum : din[i].type # "none" /\ din[i].nlink = 0}
      /\ UNCHANGED <<din, dir, lock, c, put, stage, removed, panic>>
  BY DEF Crash, disk
<1>3. MemInv'
  BY <1>1, MemCrash
<1>4. Forward' /\ Dirs' /\ Linked' /\ Apart' /\ Tree' /\ Acyclic' /\ NoPanic'
  BY <1>2, DiskSame
<1>5. \A p \in Proc : /\ c[p].pc = "idle" /\ put[p] = <<>> /\ c[p].at = 0 /\ c[p].ip = 0
                      /\ c[p].op = "none" /\ stage[p] = "test"
  <2>1. \A p \in Proc : c[p].pc = "idle" /\ put[p] = <<>>
    BY DEF Crash, In
  <2> QED
    BY <1>1, <2>1 DEF Control, Proper
<1>6. DiskTypes'
  <2>1. Free \in [type : Type, nlink : Nat]
    BY DEF Free, Type
  <2> QED
    BY <1>1, <1>2, <2>1 DEF DiskTypes
<1>7. Live'
  <2>1. ASSUME NEW p \in Proc, NEW i \in Inum, Mine(p, i)' > 0
        PROVE  din'[i].type # "none"
    <3>1. /\ cwd'[p] = ROOTINO /\ file'[p] = 0 /\ c'[p].at = 0 /\ c'[p].ip = 0
          /\ Nth(put'[p], 1) = 0 /\ Nth(put'[p], 2) = 0
      <4>1. put'[p] = <<>>
        BY <1>2, <1>5
      <4> QED
        BY <1>2, <1>5, <4>1 DEF Nth
    <3>2. Mine(p, i)' = Own(ROOTINO, 0, c'[p], put'[p], i)
      BY <3>1 DEF Mine, Own, Nth, Is
    <3>3. i # 0
      BY DEF Inum
    <3>4. i = ROOTINO
      BY <2>1, <3>1, <3>2, <3>3 DEF Own, Is
    <3> QED
      BY <1>1, <1>2, <3>4 DEF Dirs
  <2> QED
    BY <2>1 DEF Live
<1>8. Freeing' /\ Fresh' /\ Cached'
  BY <1>2, <1>5 DEF Freeing, Fresh, FreshFor, Creates, Cached
<1>9. Working'
  BY <1>2, <1>5 DEF Working, WorkingFor
<1>10. Kept'
  BY <1>2 DEF Kept
<1> QED
  BY <1>3, <1>4, <1>6, <1>7, <1>8, <1>9, <1>10 DEF FsInv

(* The initial state. *)
LEMMA InitInv ==
  ASSUME Init
  PROVE  FsInv
PROOF
<1>1. Booted /\ MemInv /\ Types
  <2>1. Booted
    BY Zenon DEF Init
  <2> QED
    BY <2>1, MemInit DEF MemInv
<1>2. /\ din = [i \in Inum |-> IF i = ROOTINO THEN [type |-> "dir", nlink |-> 1] ELSE Free]
      /\ dir = [i \in Inum |-> [e \in Elem |-> IF i = ROOTINO /\ e \in Dots THEN i ELSE 0]]
      /\ removed = {} /\ panic = "" /\ ROOTINO \in Inum
  <2>1. /\ din = [i \in Inum |-> IF i = ROOTINO THEN [type |-> "dir", nlink |-> 1] ELSE Free]
        /\ dir = [i \in Inum |-> [e \in Elem |-> IF i = ROOTINO /\ e \in Dots THEN i ELSE 0]]
        /\ removed = {} /\ panic = ""
    BY Zenon DEF Init
  <2>2. ROOTINO \in Inum
    BY FsAssumption DEF ROOTINO, Inum
  <2> QED
    BY <2>1, <2>2
<1>3. /\ inode = [i \in Inum |-> Free] /\ valid = [i \in Inum |-> FALSE]
      /\ \A p \in Proc : /\ c[p] = Idle /\ put[p] = <<>> /\ stage[p] = "test"
                         /\ cwd[p] = ROOTINO /\ file[p] = 0
  BY <1>1 DEF Booted
<1>4. \A p \in Proc : /\ c[p].pc = "idle" /\ c[p].at = 0 /\ c[p].ip = 0 /\ c[p].op = "none"
                      /\ c[p].path = <<>> /\ c[p].new = <<>>
  BY <1>3, IdleIs
<1>5. /\ din[ROOTINO].type = "dir" /\ din[ROOTINO].nlink = 1
      /\ \A i \in Inum : i # ROOTINO => din[i].type = "none" /\ din[i].nlink = 0
  BY <1>2 DEF Free
<1>6. /\ \A i \in Inum, e \in Name : dir[i][e] = 0
      /\ dir[ROOTINO]["."] = ROOTINO /\ dir[ROOTINO][".."] = ROOTINO
      /\ \A i \in Inum : i # ROOTINO => dir[i] = NoEntry
  <2>1. \A e \in Name : e \in Elem /\ e \notin Dots
    BY FsAssumption DEF Elem, Dots
  <2>2. "." \in Elem /\ ".." \in Elem /\ "." \in Dots /\ ".." \in Dots
    BY DEF Elem, Dots
  <2>3. \A i \in Inum : i # ROOTINO => dir[i] = NoEntry
    BY <1>2 DEF NoEntry
  <2> QED
    BY <1>2, <2>1, <2>2, <2>3
<1>7. DiskTypes
  <2>1. Free \in [type : Type, nlink : Nat]
        /\ [type |-> "dir", nlink |-> 1] \in [type : Type, nlink : Nat]
    BY DEF Free, Type
  <2> QED
    BY <1>2, <1>3, <2>1 DEF DiskTypes
<1>8. Forward
  BY <1>4 DEF Forward, Plain
<1>9. Live
  <2>1. ASSUME NEW p \in Proc, NEW i \in Inum, Mine(p, i) > 0
        PROVE  din[i].type # "none"
    <3>1. /\ cwd[p] = ROOTINO /\ file[p] = 0 /\ c[p].at = 0 /\ c[p].ip = 0
          /\ Nth(put[p], 1) = 0 /\ Nth(put[p], 2) = 0
      BY <1>3, <1>4 DEF Nth
    <3>2. i # 0
      BY DEF Inum
    <3>3. i = ROOTINO
      BY <2>1, <3>1, <3>2 DEF Mine, Own, Is
    <3> QED
      BY <1>5, <3>3
  <2> QED
    BY <2>1 DEF Live
<1>10. Freeing /\ Fresh /\ Cached
  BY <1>3, <1>4 DEF Freeing, Fresh, FreshFor, Creates, Cached
<1>11. Working
  BY <1>4 DEF Working, WorkingFor
<1>12. Dirs
  BY <1>2, <1>5, <1>6 DEF Dirs
<1>13. Linked
  <2>1. ASSUME NEW i \in Inum
        PROVE  din[i].nlink = Links(i) /\ din[i].nlink \in Nat
    <3>1. i # 0
      BY DEF Inum
    <3>2. NamesIn(dir, i) = {} /\ DirsIn(dir, din, i) = {} /\ LinkersIn(c, i) = {}
      <4>1. NamesIn(dir, i) = {}
        <5>1. \A x \in Inum \X Name : dir[x[1]][x[2]] = 0
          BY <1>6
        <5> QED
          BY <3>1, <5>1 DEF NamesIn
      <4>2. DirsIn(dir, din, i) = {}
        BY <1>6 DEF DirsIn
      <4>3. LinkersIn(c, i) = {}
        BY <1>4 DEF LinkersIn
      <4> QED
        BY <4>1, <4>2, <4>3
    <3>3. Cardinality({}) = 0
      BY FS_EmptySet
    <3>4. /\ Cardinality(NamesIn(dir, i)) = 0 /\ Cardinality(DirsIn(dir, din, i)) = 0
          /\ Cardinality(LinkersIn(c, i)) = 0
      BY <3>2, <3>3, Zenon
    <3>5. Links(i) = Root(i)
      BY <3>4 DEF Links, Root
    <3> QED
      BY <1>5, <3>5 DEF Root
  <2> QED
    BY <2>1 DEF Linked
<1>14. Apart /\ Acyclic
  <2>1. Apart
    BY <1>2, <1>6 DEF Apart
  <2>2. Acyclic
    <3>1. ASSUME NEW S \in SUBSET Inum, S # {}
          PROVE  \E d \in S : \A e \in Name : dir[d][e] \notin S
      <4>1. PICK d \in S : d \in Inum
        BY <3>1
      <4>2. 0 \notin S
        BY DEF Inum
      <4>3. \A e \in Name : dir[d][e] \notin S
        BY <1>6, <4>1, <4>2
      <4> QED
        BY <4>3
    <3> QED
      BY <3>1 DEF Acyclic
  <2> QED
    BY <2>1, <2>2
<1>15. Tree
  BY <1>5, <1>6 DEF Tree, IsDir
<1>16. Kept
  BY <1>5 DEF Kept
<1>17. NoPanic
  BY <1>2 DEF NoPanic
<1> QED
  BY <1>1, <1>7, <1>8, <1>9, <1>10, <1>11, <1>12, <1>13, <1>14, <1>15, <1>16, <1>17 DEF FsInv

(* What iput frees: the inode i of process p, which has neither names nor  *)
(* directories in it.                                                      *)
Frees(p, i) ==
  /\ stage[p] = "free" /\ i = Head(put[p]) /\ i # ROOTINO /\ put[p] # <<>>
  /\ ref[i] = 1 /\ din[i].nlink = 0 /\ valid[i]
  /\ din' = [din EXCEPT ![i] = Free] /\ inode' = [inode EXCEPT ![i] = Free]
  /\ dir' = [dir EXCEPT ![i] = NoEntry]
  /\ removed' = removed \ {i} /\ orphans' = orphans \ {i}
  /\ stage' = [stage EXCEPT ![p] = "clear"]
  /\ \A d \in Inum, e \in Name : dir[d][e] # i
  /\ \A e \in Name : dir[i][e] # 0 => ~IsDir(dir[i][e])
  /\ UNCHANGED <<valid, ref, lock, c, put, cwd, file, panic>>

LEMMA FreeBegin ==
  ASSUME FsInv, NEW p \in Proc, iput_free(p)
  PROVE  \E i \in Inum : Frees(p, i)
PROOF
<1>1. Types /\ Control /\ DiskTypes /\ Linked /\ Freeing /\ Cached
  BY DEF FsInv, MemInv
<1>2. stage[p] = "free" /\ put[p] # <<>>
  BY <1>1 DEF iput_free, Control, Proper
<1>3. PICK i \in Inum : i = Head(put[p])
  BY <1>1, <1>2, PutHead
<1>4. ref[i] = 1 /\ din[i].nlink = 0 /\ valid[i]
  BY <1>1, <1>2, <1>3 DEF Freeing
<1>5. inode[i] = din[i]
  BY <1>1, <1>4 DEF Cached
<1>6. /\ i # ROOTINO /\ \A d \in Inum, e \in Name : dir[d][e] # i
      /\ \A e \in Name : dir[i][e] # 0 => ~IsDir(dir[i][e])
  <2>1. /\ \A d \in Inum, e \in Name : dir[d][e] = i => din[i].nlink > 0
        /\ \A e \in Name : dir[i][e] # 0 /\ IsDir(dir[i][e]) => din[i].nlink > 0
        /\ i = ROOTINO => din[i].nlink > 0
    BY <1>1, HasLink
  <2>2. ~(din[i].nlink > 0)
    BY <1>4
  <2> QED
    BY <2>1, <2>2
<1>7. PICK x \in InodeType : x = inode[i]
  BY <1>1 DEF DiskTypes, InodeType
<1>8. [x EXCEPT !.type = "none"] = Free
  BY <1>4, <1>5, <1>7 DEF Free, InodeType
<1>9. /\ din' = [din EXCEPT ![i] = Free] /\ inode' = [inode EXCEPT ![i] = Free]
  <2>1. /\ din' = [din EXCEPT ![i] = [inode[i] EXCEPT !.type = "none"]]
        /\ inode' = [inode EXCEPT ![i] = [inode[i] EXCEPT !.type = "none"]]
    BY <1>3 DEF iput_free
  <2> QED
    BY <1>7, <1>8, <2>1
<1>10. /\ dir' = [dir EXCEPT ![i] = NoEntry]
       /\ removed' = removed \ {i} /\ orphans' = orphans \ {i}
       /\ stage' = [stage EXCEPT ![p] = "clear"]
       /\ UNCHANGED <<valid, ref, lock, c, put, cwd, file, panic>>
  BY <1>3 DEF iput_free
<1> QED
  BY <1>2, <1>3, <1>4, <1>6, <1>9, <1>10 DEF Frees

(* The disk without the inode. *)
Without(i) ==
  /\ din'[i] = Free /\ inode'[i] = Free /\ dir'[i] = NoEntry
  /\ \A e \in Name : dir'[i][e] = 0
  /\ \A k \in Inum : k # i => /\ din'[k] = din[k] /\ inode'[k] = inode[k] /\ dir'[k] = dir[k]
                              /\ k \in removed' <=> k \in removed
                              /\ k \in orphans' <=> k \in orphans
  /\ i \notin removed'

LEMMA FreeEffect ==
  ASSUME FsInv, NEW p \in Proc, NEW i \in Inum, Frees(p, i)
  PROVE  Without(i) /\ stage'[p] = "clear" /\ \A q \in Proc : q # p => stage'[q] = stage[q]
PROOF
<1>1. /\ din \in [Inum -> InodeType] /\ inode \in [Inum -> InodeType]
      /\ dir \in DirType /\ Types
  BY DEF FsInv, MemInv, DiskTypes, InodeType, Types, DirType
<1>2. din'[i] = Free /\ inode'[i] = Free /\ dir'[i] = NoEntry /\ i \notin removed'
  BY <1>1 DEF Frees, DirType
<1>3. \A e \in Name : NoEntry[e] = 0
  BY DEF NoEntry, Elem
<1>4. \A k \in Inum : k # i => /\ din'[k] = din[k] /\ inode'[k] = inode[k] /\ dir'[k] = dir[k]
                               /\ k \in removed' <=> k \in removed
                               /\ k \in orphans' <=> k \in orphans
  BY <1>1 DEF Frees, DirType
<1>5. stage'[p] = "clear" /\ \A q \in Proc : q # p => stage'[q] = stage[q]
  BY <1>1 DEF Frees, Types
<1> QED
  BY <1>2, <1>3, <1>4, <1>5 DEF Without

(* The directories that are left. *)
LEMMA FreeTree ==
  ASSUME FsInv, NEW p \in Proc, NEW i \in Inum, Frees(p, i)
  PROVE  Dirs' /\ Apart' /\ Tree' /\ Acyclic'
PROOF
<1>1. Types /\ DiskTypes /\ Linked /\ Dirs /\ Apart /\ Tree /\ Acyclic
  BY DEF FsInv, MemInv
<1>2. Without(i) /\ i # ROOTINO /\ c' = c
      /\ \A d \in Inum, e \in Name : dir[d][e] # i
  BY FreeEffect DEF Frees
<1>3. /\ din'[i].type = "none" /\ din'[i].nlink = 0 /\ dir'[i] = NoEntry /\ i \notin removed'
      /\ \A e \in Name : dir'[i][e] = 0
      /\ \A k \in Inum : k # i => din'[k] = din[k] /\ dir'[k] = dir[k]
                                  /\ (k \in removed' <=> k \in removed)
  BY <1>2 DEF Without, Free
<1>4. Dirs'
  <2>1. ROOTINO \in Inum
    BY FsAssumption DEF ROOTINO, Inum
  <2>2. \A k : Creating(k)' <=> Creating(k)
    BY <1>2 DEF Creating, Creates
  <2>3. ASSUME NEW k \in Inum
        PROVE  /\ din'[k].type # "dir" => dir'[k] = NoEntry
               /\ din'[k].type = "dir" /\ ~Creating(k)' => dir'[k]["."] = k
               /\ din'[k].type = "none" => din'[k].nlink = 0 /\ k \notin removed'
    <3>1. CASE k = i
      BY <1>3, <3>1
    <3>2. CASE k # i
      BY <1>1, <1>3, <2>2, <3>2 DEF Dirs
    <3> QED
      BY <3>1, <3>2
  <2>4. din'[ROOTINO].type = "dir" /\ dir'[ROOTINO][".."] = ROOTINO
    BY <1>1, <1>2, <1>3, <2>1 DEF Dirs
  <2> QED
    BY <2>3, <2>4 DEF Dirs
<1>5. ASSUME NEW d \in Inum, NEW e \in Name, dir'[d][e] # 0
      PROVE  /\ d # i /\ dir'[d][e] = dir[d][e] /\ dir[d][e] \in Inum /\ dir[d][e] # i
             /\ din'[dir[d][e]] = din[dir[d][e]] /\ dir'[dir[d][e]] = dir[dir[d][e]]
             /\ dir[d][e] \in removed' <=> dir[d][e] \in removed
  <2>1. d # i /\ dir'[d][e] = dir[d][e]
    BY <1>3, <1>5
  <2>2. dir[d][e] \in Inum /\ dir[d][e] # i
    BY <1>1, <1>2, <1>5, <2>1, EntryType
  <2> QED
    BY <1>3, <2>1, <2>2
<1>6. Apart'
  <2>1. ASSUME NEW d \in Inum, NEW e \in Name, dir'[d][e] # 0
        PROVE  /\ d \in removed' => dir'[d][e] \in removed'
               /\ d \notin removed' => ~(din'[dir'[d][e]].type = "dir" /\ dir'[d][e] \in removed')
    BY <1>1, <1>3, <1>5, <2>1 DEF Apart, IsDir
  <2>2. ASSUME NEW d \in Inum, d \notin removed', din'[d].nlink = 0, NEW e \in Name
        PROVE  dir'[d][e] = 0
    BY <1>1, <1>3, <2>2 DEF Apart
  <2> QED
    BY <2>1, <2>2 DEF Apart, IsDir
<1>7. Tree'
  <2>1. ASSUME NEW d \in Inum, NEW f \in Inum, NEW e \in Name, NEW g \in Name,
               dir'[d][e] # 0, din'[dir'[d][e]].type = "dir", dir'[f][g] = dir'[d][e]
        PROVE  d = f /\ e = g
    <3>1. dir'[d][e] = dir[d][e] /\ din[dir[d][e]].type = "dir" /\ dir'[f][g] = dir[f][g]
      BY <1>5, <2>1
    <3>2. dir[d][e] # 0 /\ dir[f][g] = dir[d][e]
      BY <2>1, <3>1
    <3> QED
      BY <1>1, <3>1, <3>2 DEF Tree, IsDir
  <2>2. ASSUME NEW d \in Inum, NEW e \in Name, dir'[d][e] # 0, din'[dir'[d][e]].type = "dir"
        PROVE  dir'[dir'[d][e]][".."] = d
    <3>1. /\ dir'[d][e] = dir[d][e] /\ din[dir[d][e]].type = "dir" /\ dir[d][e] # 0
          /\ dir'[dir[d][e]] = dir[dir[d][e]]
      BY <1>5, <2>2
    <3>2. dir[dir[d][e]][".."] = d
      BY <1>1, <3>1 DEF Tree, IsDir
    <3> QED
      BY <3>1, <3>2
  <2>3. ASSUME NEW k \in Inum, k \notin removed', k # ROOTINO, din'[k].type = "dir", din'[k].nlink > 0
        PROVE  dir'[k][".."] # 0 /\ \E e \in Name : dir'[dir'[k][".."]][e] = k
    <3>1. k # i /\ k \notin removed /\ din[k].type = "dir" /\ din[k].nlink > 0 /\ dir'[k] = dir[k]
      BY <1>3, <2>3
    <3>2. dir[k][".."] # 0 /\ \E e \in Name : dir[dir[k][".."]][e] = k
      BY <1>1, <2>3, <3>1 DEF Tree, IsDir
    <3>3. PICK b \in Inum : b = dir[k][".."]
      BY <1>1, <3>2, EntryType
    <3>4. PICK e \in Name : dir[b][e] = k
      BY <3>2, <3>3
    <3>5. b # i
      <4>1. k # 0 /\ din[k].type = "dir" /\ dir[b][e] = k
        BY <3>1, <3>4 DEF Inum
      <4>2. dir[b][e] # 0 /\ IsDir(dir[b][e])
        BY <4>1 DEF IsDir
      <4> QED
        BY <4>2 DEF Frees
    <3> QED
      BY <1>3, <3>1, <3>2, <3>3, <3>4, <3>5
  <2> QED
    BY <2>1, <2>2, <2>3 DEF Tree, IsDir
<1>8. Acyclic'
  <2>1. ASSUME NEW S \in SUBSET Inum, S # {}
        PROVE  \E d \in S : \A e \in Name : dir'[d][e] \notin S
    <3>1. PICK d \in S : \A e \in Name : dir[d][e] \notin S
      BY <1>1, <2>1 DEF Acyclic
    <3>2. 0 \notin S
      BY DEF Inum
    <3>3. \A e \in Name : dir'[d][e] \notin S
      BY <1>3, <3>1, <3>2
    <3> QED
      BY <3>3
  <2> QED
    BY <2>1 DEF Acyclic
<1> QED
  BY <1>4, <1>6, <1>7, <1>8

(* The links that are left. *)
LEMMA FreeLinked ==
  ASSUME FsInv, NEW p \in Proc, NEW i \in Inum, Frees(p, i)
  PROVE  Linked'
PROOF
<1>1. Types /\ DiskTypes /\ Linked /\ Apart /\ dir \in DirType
  BY DEF FsInv, MemInv, Types, DirType
<1>2. /\ Without(i) /\ c' = c /\ din[i].nlink = 0
      /\ \A d \in Inum, e \in Name : dir[d][e] # i
      /\ \A e \in Name : dir[i][e] # 0 => ~IsDir(dir[i][e])
  BY FreeEffect DEF Frees
<1>3. PICK t, u, y, z : t = dir /\ u = dir' /\ y = din /\ z = din'
  OBVIOUS
<1>4. t \in DirType /\ u \in DirType
  <2>1. NoEntry \in [Elem -> 0..NINODES]
    BY FsAssumption DEF NoEntry
  <2> QED
    BY <1>1, <1>3, <2>1 DEF Frees, DirType
<1>5. /\ \A e \in Name : u[i][e] = 0
      /\ \A k \in Inum : k # i => u[k] = t[k] /\ z[k] = y[k]
      /\ \A d \in Inum, e \in Name : t[d][e] # i
  BY <1>2, <1>3 DEF Without
<1>6. ASSUME NEW k \in Inum
      PROVE  /\ Links(k) \in Nat /\ Links(k)' \in Nat /\ Links(k)' <= Links(k)
             /\ k \notin removed /\ k # i => Links(k)' = Links(k)
  <2>1. /\ Cardinality(NamesIn(t, k)) \in Nat /\ Cardinality(DirsIn(t, y, k)) \in Nat
        /\ Cardinality(NamesIn(u, k)) \in Nat /\ Cardinality(DirsIn(u, z, k)) \in Nat
        /\ Cardinality(LinkersIn(c, k)) \in Nat /\ Root(k) \in Nat
        /\ IsFiniteSet(NamesIn(t, k)) /\ IsFiniteSet(DirsIn(t, y, k))
    BY LinkSetsFinite DEF Root
  <2>2. /\ Links(k) = Cardinality(NamesIn(t, k)) + Cardinality(DirsIn(t, y, k))
                      + Cardinality(LinkersIn(c, k)) + Root(k)
        /\ Links(k)' = Cardinality(NamesIn(u, k)) + Cardinality(DirsIn(u, z, k))
                       + Cardinality(LinkersIn(c, k)) + Root(k)
    BY <1>2, <1>3 DEF Links, Root
  <2>3. k # 0
    BY DEF Inum
  <2>4. Cardinality(NamesIn(u, k)) <= Cardinality(NamesIn(t, k))
    <3>1. \A x \in Inum \X Name : u[x[1]][x[2]] = k => t[x[1]][x[2]] = k
      BY <1>5, <2>3
    <3>2. NamesIn(u, k) \subseteq NamesIn(t, k)
      BY <3>1 DEF NamesIn
    <3> QED
      BY <2>1, <3>2, FS_Subset
  <2>5. Cardinality(DirsIn(u, z, k)) <= Cardinality(DirsIn(t, y, k))
    <3>1. \A e \in Name : u[k][e] # 0 =>
            k # i /\ u[k][e] = t[k][e] /\ z[t[k][e]] = y[t[k][e]]
      <4>1. ASSUME NEW e \in Name, u[k][e] # 0
            PROVE  k # i /\ u[k][e] = t[k][e] /\ z[t[k][e]] = y[t[k][e]]
        <5>1. k # i /\ u[k][e] = t[k][e]
          BY <1>5, <4>1
        <5>2. t[k][e] \in Inum /\ t[k][e] # i
          BY <1>1, <1>3, <1>5, <4>1, <5>1, EntryType
        <5> QED
          BY <1>5, <5>1, <5>2
      <4> QED
        BY <4>1
    <3>2. DirsIn(u, z, k) \subseteq DirsIn(t, y, k)
      BY <3>1 DEF DirsIn
    <3> QED
      BY <2>1, <3>2, FS_Subset
  <2>6. ASSUME k \notin removed, k # i
        PROVE  /\ Cardinality(NamesIn(u, k)) = Cardinality(NamesIn(t, k))
               /\ Cardinality(DirsIn(u, z, k)) = Cardinality(DirsIn(t, y, k))
    <3>1. \A e \in Name : t[i][e] # k
      <4>1. ASSUME NEW e \in Name, t[i][e] = k
            PROVE  FALSE
        <5>1. dir[i][e] # 0 /\ dir[i][e] = k
          BY <1>3, <2>3, <4>1
        <5>2. i \notin removed
          BY <1>1, <2>6, <5>1 DEF Apart
        <5> QED
          BY <1>1, <1>2, <5>1, <5>2 DEF Apart
      <4> QED
        BY <4>1
    <3>2. \A x \in Inum \X Name : (u[x[1]][x[2]] = k) <=> (t[x[1]][x[2]] = k)
      BY <1>5, <2>3, <3>1
    <3>3. NamesIn(u, k) = NamesIn(t, k)
      BY <3>2 DEF NamesIn
    <3>4. \A a \in Name : /\ u[k][a] = t[k][a]
                          /\ t[k][a] # 0 => (z[t[k][a]].type = "dir" <=> y[t[k][a]].type = "dir")
      <4>1. \A a \in Name : t[k][a] # 0 => t[k][a] \in Inum /\ t[k][a] # i
        BY <1>1, <1>3, <1>5, EntryType
      <4> QED
        BY <1>5, <2>6, <4>1
    <3>5. Cardinality(DirsIn(u, z, k)) = Cardinality(DirsIn(t, y, k))
      BY <1>4, <3>4, DirsSame
    <3> QED
      BY <3>3, <3>5, Zenon
  <2> QED
    BY <2>1, <2>2, <2>4, <2>5, <2>6
<1>7. ASSUME NEW k \in Inum
      PROVE  din'[k].nlink >= Links(k)' /\ (k \notin removed' => din'[k].nlink = Links(k)')
  <2>1. PICK m \in Nat, n \in Nat : m = Links(k) /\ n = Links(k)'
    <3>1. Links(k) \in Nat /\ Links(k)' \in Nat
      BY <1>6
    <3> QED
      BY <3>1, Zenon
  <2>2. n <= m /\ (k \notin removed /\ k # i => n = m)
    BY <1>6, <2>1
  <2>3. din[k].nlink \in Nat /\ din[k].nlink >= m /\ (k \notin removed => din[k].nlink = m)
    BY <1>1, <2>1 DEF Linked, DiskTypes
  <2>4. CASE k = i
    <3>1. din[i].nlink = 0 /\ din'[i].nlink = 0
      BY <1>2 DEF Without, Free
    <3>2. m = 0
      BY <2>3, <2>4, <3>1
    <3>3. n = 0
      BY <2>2, <3>2
    <3> QED
      BY <2>1, <2>4, <3>1, <3>3
  <2>5. CASE k # i
    <3>1. din'[k] = din[k] /\ (k \in removed' <=> k \in removed)
      BY <1>2, <2>5 DEF Without
    <3> QED
      BY <2>1, <2>2, <2>3, <2>5, <3>1
  <2> QED
    BY <2>4, <2>5
<1> QED
  BY <1>7 DEF Linked

(* iput frees an inode. *)
LEMMA FreeKeeps ==
  ASSUME FsInv, NEW p \in Proc, iput_free(p)
  PROVE  FsInv'
PROOF
<1>1. MemInv /\ Types /\ Control /\ DiskTypes /\ Live /\ Freeing /\ Fresh /\ Working /\ Cached
      /\ Kept
  BY DEF FsInv, MemInv
<1>2. PICK i \in Inum : Frees(p, i)
  BY FreeBegin
<1>3. /\ stage[p] = "free" /\ i = Head(put[p]) /\ put[p] # <<>>
      /\ ref[i] = 1 /\ din[i].nlink = 0 /\ valid[i]
      /\ UNCHANGED <<valid, ref, lock, c, put, cwd, file, panic>>
  BY <1>2 DEF Frees
<1>4. /\ din'[i] = Free /\ inode'[i] = Free
      /\ \A k \in Inum : k # i => /\ din'[k] = din[k] /\ inode'[k] = inode[k] /\ dir'[k] = dir[k]
                                  /\ k \in removed' <=> k \in removed
                                  /\ k \in orphans' <=> k \in orphans
  BY <1>2, FreeEffect DEF Without
<1>5. Free.type = "none" /\ Free.nlink = 0 /\ Free \in InodeType
  BY DEF Free, InodeType, Type
<1>6. stage'[p] = "clear" /\ \A q \in Proc : q # p => stage'[q] = stage[q]
  BY <1>2, FreeEffect
<1>7. MemInv' /\ \A q \in Proc, k \in Inum : Mine(q, k)' = Mine(q, k)
  BY <1>1, IputSteps, StayEffect
<1>8. Dirs' /\ Apart' /\ Tree' /\ Acyclic' /\ Linked'
  BY <1>2, FreeTree, FreeLinked
<1>9. Forward' /\ NoPanic'
  BY <1>3 DEF FsInv, Forward, Plain, NoPanic
<1>10. DiskTypes'
  BY <1>1, <1>2, <1>5 DEF DiskTypes, Frees, InodeType
<1>11. /\ \A q \in Proc : q # p => ~Owns(q, i)
       /\ \A q \in Proc : c[q].pc \in {"parent", "child"} => c[q].at \in Inum /\ c[q].at # i
       /\ \A q \in Proc : Creates(q) => c[q].ip \in Inum /\ c[q].ip # i
  <2>1. ~(ref[i] > 1)
    BY <1>3
  <2>2. \A q \in Proc : c[q].pc \in {"parent", "child"} => c[q].at \in Inum /\ (c[q].at = i => ref[i] > 1)
    BY <1>3, PutOthers
  <2> QED
    BY <1>3, <2>1, <2>2, PutOthers
<1>12. \A q \in Proc : q # p => Mine(q, i) = 0
  BY <1>3, OwnerIsSole DEF Owns
<1>13. Clearing(p, i)' /\ \A q \in Proc, k \in Inum : Clearing(q, k) => Clearing(q, k)' /\ k # i
  <2>1. Clearing(p, i)'
    BY <1>3, <1>6 DEF Clearing
  <2>2. ASSUME NEW q \in Proc, NEW k \in Inum, Clearing(q, k)
        PROVE  Clearing(q, k)' /\ k # i
    <3>1. q # p
      BY <1>3, <2>2 DEF Clearing
    <3>2. Clearing(q, k)'
      BY <1>3, <1>6, <2>2, <3>1 DEF Clearing
    <3>3. Owns(q, k)
      BY <2>2 DEF Clearing, Owns
    <3> QED
      BY <1>11, <3>1, <3>2, <3>3
  <2> QED
    BY <2>1, <2>2
<1>14. Live'
  <2>1. ASSUME NEW q \in Proc, NEW k \in Inum, Mine(q, k)' > 0
        PROVE  din'[k].type # "none" \/ Clearing(q, k)'
    <3>1. Mine(q, k) > 0
      BY <1>7, <2>1
    <3>2. CASE k = i
      <4>1. q = p
        BY <1>12, <3>1, <3>2
      <4> QED
        BY <1>13, <3>2, <4>1
    <3>3. CASE k # i
      BY <1>1, <1>4, <1>13, <3>1, <3>3 DEF Live
    <3> QED
      BY <3>2, <3>3
  <2> QED
    BY <2>1 DEF Live
<1>15. Freeing'
  <2>1. ASSUME NEW q \in Proc, stage'[q] # "test"
        PROVE  /\ ref'[Head(put'[q])] = 1 /\ din'[Head(put'[q])].nlink = 0
               /\ valid'[Head(put'[q])]
               /\ stage'[q] = "clear" => din'[Head(put'[q])].type = "none"
    <3>1. CASE q = p
      BY <1>3, <1>4, <1>5, <3>1
    <3>2. CASE q # p
      <4>1. stage[q] # "test" /\ stage'[q] = stage[q] /\ put'[q] = put[q]
        BY <1>3, <1>6, <2>1, <3>2
      <4>2. put[q] # <<>>
        BY <1>1, <4>1 DEF Control, Proper
      <4>3. PICK h \in Inum : h = Head(put[q])
        BY <1>1, <4>2, PutHead
      <4>4. ref[h] = 1 /\ din[h].nlink = 0 /\ valid[h]
            /\ (stage[q] = "clear" => din[h].type = "none")
        BY <1>1, <4>1, <4>3 DEF Freeing
      <4>5. h # i
        BY <1>11, <3>2, <4>1, <4>3 DEF Owns
      <4> QED
        BY <1>3, <1>4, <4>1, <4>3, <4>4, <4>5
    <3> QED
      BY <3>1, <3>2
  <2> QED
    BY <2>1 DEF Freeing
<1>16. Fresh'
  <2>1. ASSUME NEW q \in Proc
        PROVE  FreshFor(q)'
    <3>1. FreshFor(q) /\ (Creates(q) => c[q].ip \in Inum /\ c[q].ip # i)
      BY <1>1, <1>11 DEF Fresh
    <3> QED
      BY <1>3, <1>4, <3>1 DEF FreshFor, Creates
  <2> QED
    BY <2>1 DEF Fresh
<1>17. Working'
  <2>1. ASSUME NEW q \in Proc
        PROVE  WorkingFor(q)'
    <3>1. WorkingFor(q) /\ c' = c /\ valid' = valid
      BY <1>1, <1>3 DEF Working
    <3>2. c[q].pc \in {"parent", "child"} => din'[c[q].at] = din[c[q].at] /\ dir'[c[q].at] = dir[c[q].at]
      BY <1>4, <1>11
    <3>3. c[q].op = "link" /\ c[q].ip # 0 => din'[c[q].ip].type # "dir"
      <4>1. c[q].ip # 0 => c[q].ip \in Inum
        BY <1>1 DEF Types, Record, Inum
      <4> QED
        BY <1>4, <1>5, <3>1, <4>1 DEF WorkingFor
    <3> QED
      BY <3>1, <3>2, <3>3 DEF WorkingFor
  <2> QED
    BY <2>1 DEF Working
<1>18. Cached'
  <2>1. ASSUME NEW k \in Inum, valid'[k]
        PROVE  /\ inode'[k] = din'[k] /\ ref'[k] > 0
               /\ din'[k].type = "none" => \E q \in Proc : Clearing(q, k)'
    <3>1. CASE k = i
      BY <1>3, <1>4, <1>13, <3>1
    <3>2. CASE k # i
      BY <1>1, <1>3, <1>4, <1>13, <2>1, <3>2 DEF Cached
    <3> QED
      BY <3>1, <3>2
  <2> QED
    BY <2>1 DEF Cached
<1>19. Kept'
  <2>1. ASSUME NEW k \in Inum, k \notin orphans', din'[k].type # "none", din'[k].nlink = 0, ~Creating(k)'
        PROVE  valid'[k]
    <3>1. k # i
      BY <1>4, <1>5, <2>1
    <3>2. ~Creating(k)
      BY <1>3, <2>1 DEF Creating, Creates
    <3> QED
      BY <1>1, <1>3, <1>4, <2>1, <3>1, <3>2 DEF Kept
  <2> QED
    BY <2>1 DEF Kept
<1> QED
  BY <1>7, <1>8, <1>9, <1>10, <1>14, <1>15, <1>16, <1>17, <1>18, <1>19 DEF FsInv

-----------------------------------------------------------------------------
(* The invariant *)

(* Nothing changes. *)
LEMMA SameKeeps ==
  ASSUME FsInv, UNCHANGED vars
  PROVE  FsInv'
PROOF
<1>1. UNCHANGED <<din, dir, inode, valid, ref, lock, c, put, stage, cwd, file, orphans, removed, panic>>
  BY DEF vars
<1>2. MemInv'
  BY <1>1, MemSame DEF FsInv
<1>3. Forward' /\ Dirs' /\ Linked' /\ Apart' /\ Tree' /\ Acyclic' /\ NoPanic'
  BY <1>1, DiskSame
<1>4. DiskTypes' /\ Live'
  BY <1>1 DEF FsInv, DiskTypes, Live, Mine, Own, Is, Nth, Clearing
<1>5. Freeing' /\ Fresh'
  BY <1>1 DEF FsInv, Freeing, Fresh, FreshFor, Creates
<1>6. Working' /\ Cached' /\ Kept'
  BY <1>1 DEF FsInv, Working, WorkingFor, Cached, Clearing, Kept, Creating, Creates
<1> QED
  BY <1>2, <1>3, <1>4, <1>5, <1>6 DEF FsInv

(* Every step keeps the invariant. *)
LEMMA FsNext ==
  ASSUME FsInv, Tame, [Next]_vars
  PROVE  FsInv'
PROOF
<1>1. CASE UNCHANGED vars
  BY <1>1, SameKeeps
<1>2. ASSUME NEW p \in Proc, Step(p) \/ User(p)
      PROVE  FsInv'
  <2>1. CASE iput_test(p) \/ iput_free(p) \/ iput_clear(p)
    BY <2>1, TestFreeKeeps, DropKeeps, FreeKeeps
  <2>2. CASE namex(p) \/ namex_empty(p) \/ sys_open(p) \/ sys_chdir(p)
    BY <2>2, NamexKeeps, EmptyKeeps, OpenKeeps, ChdirKeeps
  <2>3. CASE link_target(p)
    BY <2>3, LinkDirKeeps, LinkKeeps
  <2>4. CASE link_parent(p)
    BY <2>4, LinkThereKeeps, EntryKeeps
  <2>5. CASE link_bad(p) \/ unlink_parent(p) \/ create_child(p)
    BY <2>5, BadKeeps, UnlinkKeeps, MakeKeeps
  <2>6. CASE unlink_child(p)
    BY <2>6, UnlinkFullKeeps, RemoveKeeps
  <2>7. CASE create_parent(p)
    BY <2>7, CreateThereKeeps, CreateNewKeeps
  <2>8. CASE ilock_panic(p)
    BY <2>8, PanicNever
  <2>9. CASE close(p)
    BY <2>9, CloseKeeps
  <2>10. CASE \E r \in Request : call(p, r)
    <3>1. PICK r \in Request : call(p, r)
      BY <2>10
    <3> QED
      BY <3>1, CallKeeps
  <2> QED
    BY <1>2, <2>1, <2>2, <2>3, <2>4, <2>5, <2>6, <2>7, <2>8, <2>9, <2>10 DEF Step, User
<1> QED
  BY <1>1, <1>2, CrashKeeps DEF Next

(* As long as no path goes up by ".." and ialloc does not run in the       *)
(* middle of iput, whatever the calls are otherwise: the invariant holds,  *)
(* with names and link counts that agree, a tree of directories, and       *)
(* pointers to allocated inodes.                                           *)
THEOREM FsInvIfTame ==
  ASSUME Tame
  PROVE  Spec => []FsInv
PROOF
<1>1. Init => FsInv
  BY InitInv
<1>2. FsInv /\ [Next]_vars => FsInv'
  BY FsNext
<1> QED
  BY <1>1, <1>2, PTL DEF Spec

-----------------------------------------------------------------------------
(* What it says *)

(* Without ".." in a path and ialloc in the middle of iput, ip->ref is the *)
(* number of pointers to the entry, and a valid entry is the inode on the  *)
(* disk (fs.c: iget, iput, iupdate).                                       *)
THEOREM InodeCacheIfTame ==
  ASSUME Tame
  PROVE  Spec => []InodeCache
PROOF
<1>1. FsInv => InodeCache
  <2>1. SUFFICES ASSUME FsInv
                 PROVE  InodeCache
    OBVIOUS
  <2>2. Types /\ DiskTypes /\ RefCounts /\ Cached
    BY <2>1 DEF FsInv, MemInv
  <2> QED
    BY <2>2 DEF Types, DiskTypes, RefCounts, Cached, InodeCache
<1> QED
  BY <1>1, FsInvIfTame, PTL

(* One for one. *)
LEMMA CardMatch ==
  ASSUME NEW S, NEW T, IsFiniteSet(S), NEW f \in [S -> T],
         \A a, b \in S : f[a] = f[b] => a = b,
         \A t \in T : \E s \in S : f[s] = t
  PROVE  Cardinality(T) = Cardinality(S)
PROOF
<1>1. f \in Bijection(S, T)
  BY DEF Bijection, Injection, Surjection, IsInjective
<1> QED
  BY <1>1, FS_Bijection DEF ExistsBijection

(* The directories in a directory are those whose ".." leads to it. *)
LEMMA ChildrenAre ==
  ASSUME FsInv, NEW i \in Inum, i \notin removed
  PROVE  Children(i) = Cardinality(DirsIn(dir, din, i))
PROOF
<1>1. Types /\ DiskTypes /\ Linked /\ Dirs /\ Apart /\ Tree /\ Acyclic
  BY DEF FsInv, MemInv
<1>2. PICK S : S = DirsIn(dir, din, i)
  OBVIOUS
<1>3. PICK T : T = {d \in Inum \ (removed \cup {i}) :
                      IsDir(d) /\ din[d].nlink > 0 /\ dir[d][".."] = i}
  OBVIOUS
<1>4. PICK f : f = [e \in S |-> dir[i][e]]
  OBVIOUS
<1>5. ASSUME NEW e \in S
      PROVE  e \in Name /\ dir[i][e] # 0 /\ IsDir(dir[i][e])
  BY <1>2 DEF DirsIn, IsDir
<1>6. \A e \in Name : dir[i][e] # i
  <2>1. PICK Q \in SUBSET Inum : Q = {i}
    OBVIOUS
  <2>2. \E d \in Q : \A e \in Name : dir[d][e] \notin Q
    BY <1>1, <2>1 DEF Acyclic
  <2> QED
    BY <2>1, <2>2
<1>7. ASSUME NEW e \in S
      PROVE  dir[i][e] \in T
  <2>1. e \in Name /\ dir[i][e] # 0 /\ IsDir(dir[i][e])
    BY <1>5
  <2>2. dir[i][e] \in Inum /\ din[dir[i][e]].nlink > 0
    BY <1>1, <2>1, NameLive
  <2>3. dir[i][e] \notin removed /\ dir[dir[i][e]][".."] = i
    BY <1>1, <2>1 DEF Apart, Tree
  <2> QED
    BY <1>3, <1>6, <2>1, <2>2, <2>3
<1>8. f \in [S -> T]
  BY <1>4, <1>7
<1>9. \A a, b \in S : f[a] = f[b] => a = b
  <2>1. ASSUME NEW a \in S, NEW b \in S, dir[i][a] = dir[i][b]
        PROVE  a = b
    <3>1. a \in Name /\ b \in Name /\ dir[i][a] # 0 /\ IsDir(dir[i][a])
      BY <1>5
    <3> QED
      BY <1>1, <2>1, <3>1 DEF Tree
  <2> QED
    BY <1>4, <2>1
<1>10. \A d \in T : \E e \in S : f[e] = d
  <2>1. ASSUME NEW d \in T
        PROVE  \E e \in S : f[e] = d
    <3>1. /\ d \in Inum /\ d \notin removed /\ d # i /\ IsDir(d) /\ din[d].nlink > 0
          /\ dir[d][".."] = i
      BY <1>3
    <3>2. d # ROOTINO
      BY <1>1, <3>1 DEF Dirs
    <3>3. PICK e \in Name : dir[dir[d][".."]][e] = d
      BY <1>1, <3>1, <3>2 DEF Tree
    <3>4. dir[i][e] = d /\ d # 0 /\ din[d].type = "dir"
      BY <3>1, <3>3 DEF Inum, IsDir
    <3>5. e \in S
      BY <1>2, <3>4 DEF DirsIn
    <3> QED
      BY <1>4, <3>4, <3>5
  <2> QED
    BY <2>1
<1>11. IsFiniteSet(S)
  BY <1>2, LinkSetsFinite
<1>12. Cardinality(T) = Cardinality(S)
  BY <1>8, <1>9, <1>10, <1>11, CardMatch
<1>13. Children(i) = Cardinality(T)
  BY <1>3 DEF Children
<1> QED
  BY <1>2, <1>12, <1>13

(* Without ".." in a path and ialloc in the middle of iput, nlink counts   *)
(* the names of an inode, the directories in it and the links under way    *)
(* (sysfile.c: create, sys_link, sys_unlink), except where a removed       *)
(* directory was written to.                                               *)
THEOREM LinkCountsIfTame ==
  ASSUME Tame
  PROVE  Spec => []LinkCounts
PROOF
<1>1. FsInv => LinkCounts
  <2>1. SUFFICES ASSUME FsInv, NEW i \in Inum \ removed
                 PROVE  din[i].nlink = Names(i) + Children(i) + Linking(i)
                                       + (IF i = ROOTINO THEN 1 ELSE 0)
    BY DEF LinkCounts
  <2>2. i \in Inum /\ i \notin removed
    BY <2>1
  <2>3. din[i].nlink = Links(i)
    BY <2>1, <2>2 DEF FsInv, Linked
  <2>4. Children(i) = Cardinality(DirsIn(dir, din, i))
    BY <2>1, <2>2, ChildrenAre
  <2>5. Names(i) = Cardinality(NamesIn(dir, i)) /\ Linking(i) = Cardinality(LinkersIn(c, i))
    BY DEF Names, Linking, NamesIn, LinkersIn
  <2> QED
    BY <2>3, <2>4, <2>5 DEF Links, Root
<1> QED
  BY <1>1, FsInvIfTame, PTL

(* Without ".." in a path and ialloc in the middle of iput, every name     *)
(* leads to an allocated inode, and neither ilock nor sys_unlink panics,   *)
(* however many processes link, unlink, create and crash.  Each of the two *)
(* conditions is needed: NamedIsAllocated is violated when AllocDuringIput *)
(* is TRUE, and by a ".." out of a directory removed before its parent     *)
(* (DotDotRequests in MCFs).                                               *)
THEOREM NamedIsAllocatedIfTame ==
  ASSUME Tame
  PROVE  Spec => []NamedIsAllocated
PROOF
<1>1. FsInv => NamedIsAllocated
  <2>1. SUFFICES ASSUME FsInv
                 PROVE  NamedIsAllocated
    OBVIOUS
  <2>2. Types /\ DiskTypes /\ Linked /\ Dirs /\ NoPanic
    BY <2>1 DEF FsInv, MemInv
  <2>3. ASSUME NEW d \in Inum, NEW e \in Name, dir[d][e] # 0
        PROVE  din[dir[d][e]].type # "none"
    BY <2>2, <2>3, NameLive
  <2> QED
    BY <2>2, <2>3 DEF NamedIsAllocated, NoPanic
<1> QED
  BY <1>1, FsInvIfTame, PTL

(* Without ".." in a path and ialloc in the middle of iput, an inode       *)
(* without a link is freed with the last pointer to it (fs.c: iput),       *)
(* unless a crash came first.                                              *)
THEOREM NoLeakIfTame ==
  ASSUME Tame
  PROVE  Spec => []NoLeak
PROOF
<1>1. FsInv => NoLeak
  <2>1. SUFFICES ASSUME FsInv, NEW i \in Inum, i \notin orphans,
                        din[i].type # "none", din[i].nlink = 0
                 PROVE  ref[i] > 0
    BY DEF NoLeak
  <2>2. CASE Creating(i)
    <3>1. PICK p \in Proc : Creates(p) /\ c[p].ip = i
      BY <2>2 DEF Creating
    <3>2. ref[i] = 1
      BY <2>1, <3>1 DEF FsInv, Fresh, FreshFor
    <3> QED
      BY <3>2
  <2>3. CASE ~Creating(i)
    <3>1. valid[i]
      BY <2>1, <2>3 DEF FsInv, Kept
    <3> QED
      BY <2>1, <3>1 DEF FsInv, Cached
  <2> QED
    BY <2>2, <2>3
<1> QED
  BY <1>1, FsInvIfTame, PTL

(* A process that waits for an inode lock waits for a call that keeps the  *)
(* lock of its directory.                                                  *)
LEMMA WaitsIs ==
  ASSUME FsInv, NEW p \in Proc, NEW q \in Proc, WaitsFor(p, q)
  PROVE  Wants(p) \in Inum /\ c[q].pc = "child" /\ c[q].at = Wants(p) /\ put[p] = <<>>
PROOF
<1>1. MemInv /\ Locks
  BY DEF FsInv, MemInv
<1>2. put[p] = <<>> /\ c[p].pc # "idle" /\ lock[Wants(p)] = q
  BY DEF WaitsFor
<1>3. c[p] \in Record /\ Proper(c[p], put[p], stage[p], file[p])
  BY <1>1, <1>2, MoveBegin
<1>4. Wants(p) \in Inum
  BY <1>2, <1>3 DEF Wants, Record, PCs, Proper, Inum
<1> QED
  BY <1>1, <1>2, <1>4 DEF Locks

(* Without ".." in a path and ialloc in the middle of iput, of any         *)
(* processes one waits for none of them (sysfile.c: sys_unlink and create  *)
(* lock a directory, then what is in it).                                  *)
THEOREM NoDeadlockIfTame ==
  ASSUME Tame
  PROVE  Spec => []NoDeadlock
PROOF
<1>1. FsInv => NoDeadlock
  <2>1. SUFFICES ASSUME FsInv, NEW S \in SUBSET Proc, S # {}
                 PROVE  \E p \in S : \A q \in S : ~WaitsFor(p, q)
    BY DEF NoDeadlock
  <2>2. PICK T : T = {k \in Inum : \E q \in S : c[q].pc = "child" /\ c[q].at = k}
    OBVIOUS
  <2>3. ASSUME NEW p \in S, NEW q \in S, WaitsFor(p, q)
        PROVE  Wants(p) \in T
    <3>1. Wants(p) \in Inum /\ c[q].pc = "child" /\ c[q].at = Wants(p)
      BY <2>1, <2>3, WaitsIs
    <3> QED
      BY <2>2, <3>1
  <2>4. CASE T = {}
    BY <2>1, <2>3, <2>4
  <2>5. CASE T # {}
    <3>1. PICK d \in T : \A e \in Name : dir[d][e] \notin T
      BY <2>1, <2>2, <2>5 DEF FsInv, Acyclic
    <3>2. PICK p \in S : c[p].pc = "child" /\ c[p].at = d
      BY <2>2, <3>1
    <3>3. ASSUME NEW q \in S, WaitsFor(p, q)
          PROVE  FALSE
      <4>1. /\ p \in Proc /\ q \in Proc /\ put[p] = <<>> /\ c[q].pc = "child"
            /\ c[q].at = Wants(p) /\ Wants(p) = c[p].ip
        BY <2>1, <3>2, <3>3, WaitsIs DEF Wants
      <4>2. /\ d \in Inum /\ c[p].ip \in Inum /\ Head(c[p].path) \in Name /\ d # c[p].ip
            /\ dir[d][Head(c[p].path)] = (IF c[p].op = "unlink" THEN c[p].ip ELSE 0)
        BY <2>1, <3>2, <4>1, ChildBegin
      <4>3. c[p].op # "unlink"
        BY <2>3, <3>1, <3>3, <4>1, <4>2
      <4>4. p # q
        BY <3>2, <4>1, <4>2
      <4>5. Owns(p, c[p].ip)
        BY <3>2, <4>3 DEF Owns, Creates
      <4>6. Mine(q, c[p].ip) = 0
        BY <2>1, <4>1, <4>2, <4>4, <4>5, OwnerIsSole
      <4>7. Mine(q, c[p].ip) > 0
        BY <4>1, <4>2, MineIs
      <4> QED
        BY <4>6, <4>7
    <3> QED
      BY <3>3
  <2> QED
    BY <2>4, <2>5
<1> QED
  BY <1>1, FsInvIfTame, PTL
=============================================================================
