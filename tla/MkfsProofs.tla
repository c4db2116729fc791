----------------------------- MODULE MkfsProofs -----------------------------
(***************************************************************************)
(* Proofs about Mkfs, for every size of the disk and every set of files.   *)
(***************************************************************************)
EXTENDS Mkfs, FiniteSetTheorems, TLAPS

MkfsSpec == MkfsInit /\ [][MkfsNext]_mkvars

-----------------------------------------------------------------------------
(* The inductive invariant *)

Inode == 1..NINODES
Slot == 0..MAXFILE
DiskTypes ==
  /\ freeblock \in nmeta..FSSIZE
  /\ dinode \in [Inode -> [size : Nat, addrs : [0..NDIRECT -> 0..FSSIZE]]]
  /\ indirect \in [0..FSSIZE -> [0..NINDIRECT - 1 -> 0..FSSIZE]]
MkfsTypes ==
  /\ freeinode \in 2..NINODES + 1 /\ todo \in Seq(Inode \X (Nat \ {0}))
  /\ DiskTypes

(* Which block is in which place of which inode; the last place is for the *)
(* indirect block.                                                         *)
Map == [q \in Inode \X Slot |-> BlockIn(q)]

(* The blocks from nmeta to n - 1 are in one place each, and no others are *)
(* in any.                                                                 *)
GivenOut(m, n) ==
  /\ \A q \in Inode \X Slot : m[q] = 0 \/ m[q] \in nmeta..n - 1
  /\ \A b \in nmeta..n - 1 : \E q \in Inode \X Slot : m[q] = b
  /\ \A q \in Inode \X Slot, u \in Inode \X Slot : m[q] = m[u] /\ m[q] # 0 => q = u
Blank == \A b \in 0..FSSIZE, k \in 0..NINDIRECT - 1 : b >= freeblock => indirect[b][k] = 0

(* A file has its blocks, and the root directory an entry for each inode,  *)
(* as far as they have been written.                                       *)
Present ==
  \A i \in Inode, k \in 0..MAXFILE - 1 : Map[<<i, k>>] # 0 <=> k * BSIZE < dinode[i].size
RootBytes(k) == IF k <= Len(todo) /\ todo[k][1] = ROOTINO THEN todo[k][2] ELSE 0
RootSize ==
  /\ dinode[ROOTINO].size + RootBytes(1) + RootBytes(2) = freeinode * DIRENT
  /\ \A k \in 3..Len(todo) : todo[k][1] # ROOTINO

FilesInv == MkfsTypes /\ GivenOut(Map, freeblock) /\ Blank /\ Present /\ RootSize
MkfsInv == ImageSound /\ (mpc = "files" => FilesInv)

-----------------------------------------------------------------------------
(* Sizes and places *)

LEMMA MkfsSizes ==
  ASSUME ImageSizes
  PROVE  /\ BSIZE \in Nat \ {0} /\ DIRENT \in Nat \ {0} /\ NDIRECT \in Nat \ {0}
         /\ NINDIRECT \in Nat \ {0} /\ FSSIZE \in Nat /\ NINODES \in Nat \ {0}
         /\ MAXFILE \in Nat /\ MAXFILE = NDIRECT + NINDIRECT
         /\ nmeta \in Nat /\ 2 <= nmeta /\ nmeta <= FSSIZE
PROOF
<1>1. /\ BSIZE \in Nat \ {0} /\ DIRENT \in Nat \ {0} /\ NDIRECT \in Nat \ {0}
      /\ NINDIRECT \in Nat \ {0} /\ FSSIZE \in Nat /\ NINODES \in Nat \ {0}
      /\ IPB \in Nat \ {0} /\ LOGSIZE \in Nat /\ nmeta <= FSSIZE
  BY DEF ImageSizes
<1>2. PICK a \in Nat : a = NINODES \div IPB
  BY <1>1
<1>3. PICK b \in Nat \ {0} : b = BSIZE * 8
  BY <1>1
<1>4. PICK c \in Nat : c = FSSIZE \div (BSIZE * 8)
  BY <1>1, <1>3
<1>5. nmeta = 2 + LOGSIZE + (a + 1) + (c + 1)
  BY <1>2, <1>4 DEF nmeta, bmapstart, inodestart, ninodeblocks, nbitmap
<1> QED
  BY <1>1, <1>5 DEF MAXFILE

LEMMA PlacesAre == Places = Inode \X Slot
PROOF
  BY DEF Places, Inode, Slot

(* What is in the places of an inode *)
LEMMA MapIs ==
  ASSUME ImageSizes, NEW i \in Inode, NEW k \in Slot
  PROVE  /\ k = MAXFILE => Map[<<i, k>>] = dinode[i].addrs[NDIRECT]
         /\ k < NDIRECT => Map[<<i, k>>] = dinode[i].addrs[k]
         /\ k >= NDIRECT /\ k # MAXFILE =>
              Map[<<i, k>>] = IF dinode[i].addrs[NDIRECT] = 0 THEN 0
                              ELSE indirect[dinode[i].addrs[NDIRECT]][k - NDIRECT]
PROOF
<1>1. PICK d \in Nat, m \in Nat : d = NDIRECT /\ m = MAXFILE /\ d < m /\ k \in 0..m
  BY MkfsSizes DEF Slot
<1>2. Map[<<i, k>>] = BlockIn(<<i, k>>)
  BY DEF Map
<1>3. BlockIn(<<i, k>>) = IF k = MAXFILE THEN dinode[i].addrs[NDIRECT] ELSE BlockAt(i, k)
  BY DEF BlockIn
<1>4. BlockAt(i, k) = IF k < NDIRECT THEN dinode[i].addrs[k]
                      ELSE IF dinode[i].addrs[NDIRECT] = 0 THEN 0
                      ELSE indirect[dinode[i].addrs[NDIRECT]][k - NDIRECT]
  BY Zenon DEF BlockAt
<1> QED
  BY <1>1, <1>2, <1>3, <1>4

LEMMA MapNext ==
  ASSUME ImageSizes, NEW i \in Inode, NEW k \in Slot
  PROVE  /\ k = MAXFILE => Map'[<<i, k>>] = dinode'[i].addrs[NDIRECT]
         /\ k < NDIRECT => Map'[<<i, k>>] = dinode'[i].addrs[k]
         /\ k >= NDIRECT /\ k # MAXFILE =>
              Map'[<<i, k>>] = IF dinode'[i].addrs[NDIRECT] = 0 THEN 0
                               ELSE indirect'[dinode'[i].addrs[NDIRECT]][k - NDIRECT]
PROOF
<1>1. PICK d \in Nat, m \in Nat : d = NDIRECT /\ m = MAXFILE /\ d < m /\ k \in 0..m
  BY MkfsSizes DEF Slot
<1>2. Map'[<<i, k>>] = BlockIn(<<i, k>>)'
  BY DEF Map
<1>3. BlockIn(<<i, k>>)' = IF k = MAXFILE THEN dinode'[i].addrs[NDIRECT] ELSE BlockAt(i, k)'
  BY DEF BlockIn
<1>4. BlockAt(i, k)' = IF k < NDIRECT THEN dinode'[i].addrs[k]
                       ELSE IF dinode'[i].addrs[NDIRECT] = 0 THEN 0
                       ELSE indirect'[dinode'[i].addrs[NDIRECT]][k - NDIRECT]
  BY Zenon DEF BlockAt
<1> QED
  BY <1>1, <1>2, <1>3, <1>4

(* One more block is given out. *)
LEMMA GiveOne ==
  ASSUME ImageSizes, NEW m \in [Inode \X Slot -> Nat], NEW n \in Nat, nmeta <= n, GivenOut(m, n),
         NEW q \in Inode \X Slot, m[q] = 0
  PROVE  GivenOut([m EXCEPT ![q] = n], n + 1) /\ [m EXCEPT ![q] = n] \in [Inode \X Slot -> Nat]
PROOF
<1>0. nmeta \in Nat /\ 2 <= nmeta
  BY MkfsSizes
<1>1. PICK D : D = Inode \X Slot
  OBVIOUS
<1>2. PICK f : f = [m EXCEPT ![q] = n]
  OBVIOUS
<1>3. f[q] = n /\ \A u \in D : u # q => f[u] = m[u]
  BY <1>1, <1>2
<1>4. /\ \A u \in D : m[u] = 0 \/ m[u] \in nmeta..n - 1
      /\ \A b \in nmeta..n - 1 : \E u \in D : m[u] = b
      /\ \A u \in D, v \in D : m[u] = m[v] /\ m[u] # 0 => u = v
  BY <1>1 DEF GivenOut
<1>5. \A u \in D : f[u] = 0 \/ f[u] \in nmeta..n + 1 - 1
  BY <1>0, <1>3, <1>4
<1>6. \A b \in nmeta..n + 1 - 1 : \E u \in D : f[u] = b
  <2> SUFFICES ASSUME NEW b \in nmeta..n + 1 - 1 PROVE \E u \in D : f[u] = b
    OBVIOUS
  <2>1. CASE b = n
    BY <1>1, <1>3, <2>1
  <2>2. CASE b # n
    <3>1. b \in nmeta..n - 1 /\ b # 0
      BY <1>0, <2>2
    <3>2. PICK u \in D : m[u] = b
      BY <1>4, <3>1
    <3> QED
      BY <1>3, <3>1, <3>2
  <2> QED
    BY <2>1, <2>2
<1>7. \A u \in D, v \in D : f[u] = f[v] /\ f[u] # 0 => u = v
  <2>1. \A u \in D : u # q => f[u] # n
    BY <1>0, <1>3, <1>4
  <2> QED
    BY <1>3, <1>4, <2>1
<1>8. f \in [Inode \X Slot -> Nat]
  BY <1>2
<1> QED
  BY <1>1, <1>2, <1>5, <1>6, <1>7, <1>8 DEF GivenOut

-----------------------------------------------------------------------------
(* Numbers *)

LEMMA MkfsProduct ==
  ASSUME NEW m \in Nat \ {0}, NEW j \in Int, NEW k \in Int
  PROVE  /\ j * m \in Int /\ k * m \in Int
         /\ j < k => j * m + m <= k * m
         /\ j < k <=> j * m < k * m
PROOF
<1>0. j * m \in Int /\ k * m \in Int
  OBVIOUS
<1>1. ASSUME NEW x \in Int, NEW y \in Int, x < y PROVE x * m + m <= y * m
  <2>1. y - x - 1 \in Nat
    BY <1>1
  <2>2. (y - x - 1) * m >= 0
    BY <2>1
  <2>3. (y - x - 1) * m = y * m - x * m - m
    OBVIOUS
  <2> QED
    BY <2>2, <2>3
<1>2. j < k => j * m + m <= k * m
  BY <1>1
<1>3. k < j => k * m + m <= j * m
  BY <1>1
<1>4. j = k => j * m = k * m
  OBVIOUS
<1> QED
  BY <1>0, <1>2, <1>3, <1>4

LEMMA MkfsDivided ==
  ASSUME NEW a \in Nat, NEW m \in Nat \ {0}
  PROVE  /\ a \div m \in Nat /\ a % m \in Nat /\ a % m < m
         /\ a = (a \div m) * m + (a % m)
PROOF
<1>1. a \div m \in Nat /\ a % m \in 0..m - 1 /\ a = (m * (a \div m)) + (a % m)
  OBVIOUS
<1>2. PICK c \in Nat : c = a \div m
  BY <1>1
<1>3. PICK r \in Nat : r = a % m /\ r < m
  BY <1>1
<1>4. m * c = c * m
  OBVIOUS
<1>5. a = m * c + r
  BY <1>1, <1>2, <1>3
<1>6. a = c * m + r
  BY <1>4, <1>5
<1> QED
  BY <1>2, <1>3, <1>6, Zenon

LEMMA MinOfTwo ==
  ASSUME NEW a \in Int, NEW b \in Int
  PROVE  Min({a, b}) = IF a <= b THEN a ELSE b
PROOF
<1>1. PICK c \in Int : c = IF a <= b THEN a ELSE b
  OBVIOUS
<1>2. c \in {a, b} /\ \A y \in {a, b} : c =< y
  BY <1>1
<1>3. \A x \in {a, b} : (\A y \in {a, b} : x =< y) => x = c
  BY <1>1
<1>4. Min({a, b}) = CHOOSE x \in {a, b} : \A y \in {a, b} : x =< y
  BY DEF Min
<1> QED
  BY <1>1, <1>2, <1>3, <1>4

LEMMA MapType ==
  ASSUME ImageSizes, MkfsTypes
  PROVE  Map \in [Inode \X Slot -> Nat]
PROOF
<1>1. \A i \in Inode, k \in Slot : Map[<<i, k>>] \in Nat
  <2> SUFFICES ASSUME NEW i \in Inode, NEW k \in Slot PROVE Map[<<i, k>>] \in Nat
    OBVIOUS
  <2>1. PICK d \in Nat \ {0}, e \in Nat \ {0}, n \in Nat :
          d = NDIRECT /\ e = NINDIRECT /\ n = FSSIZE /\ k \in 0..d + e /\ MAXFILE = d + e
    BY MkfsSizes DEF Slot
  <2>2. PICK a \in [0..d -> 0..n] : a = dinode[i].addrs
    BY <2>1 DEF MkfsTypes, DiskTypes
  <2>3. indirect \in [0..n -> [0..e - 1 -> 0..n]]
    BY <2>1 DEF MkfsTypes, DiskTypes
  <2>4. CASE k = MAXFILE
    BY <2>1, <2>2, <2>4, MapIs
  <2>5. CASE k < NDIRECT
    <3>1. a[k] \in 0..n
      BY <2>1, <2>2, <2>5
    <3> QED
      BY <2>1, <2>2, <2>5, <3>1, MapIs
  <2>6. CASE k >= NDIRECT /\ k # MAXFILE
    <3>1. k - d \in 0..e - 1
      BY <2>1, <2>6
    <3>2. a[d] \in 0..n
      BY <2>1, <2>2
    <3>3. indirect[a[d]][k - d] \in 0..n
      BY <2>3, <3>1, <3>2
    <3>4. Map[<<i, k>>] = IF a[d] = 0 THEN 0 ELSE indirect[a[d]][k - d]
      BY <2>1, <2>2, <2>6, MapIs
    <3> QED
      BY <3>3, <3>4
  <2> QED
    BY <2>1, <2>4, <2>5, <2>6
<1>2. \A q \in Inode \X Slot : Map[q] \in Nat
  BY <1>1
<1> QED
  BY <1>2 DEF Map

LEMMA MapNextIs ==
  ASSUME NEW g, g = [q \in Inode \X Slot |-> g[q]],
         \A i \in Inode, k \in Slot : Map'[<<i, k>>] = g[<<i, k>>]
  PROVE  Map' = g
PROOF
<1>1. \A q \in Inode \X Slot : Map'[q] = g[q]
  OBVIOUS
<1>2. Map' = [q \in Inode \X Slot |-> Map'[q]]
  BY DEF Map
<1> QED
  BY <1>1, <1>2

-----------------------------------------------------------------------------
(* The empty disk *)

(* The root directory is made first: nothing is given out, and two entries *)
(* are to be written.                                                      *)
LEMMA InitFiles ==
  ASSUME ImageSizes, MkfsInit
  PROVE  FilesInv
PROOF
<1>0. PICK d \in Nat \ {0}, e \in Nat \ {0}, n \in Nat, t \in Nat \ {0}, s \in Nat \ {0} :
        /\ d = NDIRECT /\ e = NINDIRECT /\ n = FSSIZE /\ t = DIRENT /\ s = BSIZE
        /\ MAXFILE = d + e /\ nmeta \in 2..n /\ NINODES \in Nat \ {0}
  BY MkfsSizes
<1>1. dinode = [i \in Inode |-> [size |-> 0, addrs |-> [k \in 0..d |-> 0]]]
  BY <1>0 DEF MkfsInit, Inode
<1>2. indirect = [b \in 0..n |-> [k \in 0..e - 1 |-> 0]]
  BY <1>0 DEF MkfsInit
<1>3. \A i \in Inode : dinode[i].size = 0 /\ \A k \in 0..d : dinode[i].addrs[k] = 0
  BY <1>1
<1>4. 1 \in Inode
  BY <1>0 DEF Inode
<1>5. MkfsTypes
  <2>1. freeinode \in 2..NINODES + 1 /\ freeblock \in nmeta..FSSIZE
    BY <1>0 DEF MkfsInit, ROOTINO
  <2>2. todo \in Seq(Inode \X (Nat \ {0}))
    <3>1. <<1, t>> \in Inode \X (Nat \ {0})
      BY <1>4
    <3>2. todo = <<<<1, t>>, <<1, t>>>>
      BY <1>0 DEF MkfsInit, ROOTINO
    <3> QED
      BY <3>1, <3>2
  <2>3. dinode \in [Inode -> [size : Nat, addrs : [0..NDIRECT -> 0..FSSIZE]]]
    <3>1. [k \in 0..d |-> 0] \in [0..d -> 0..n]
      BY <1>0
    <3> QED
      BY <1>0, <1>1, <3>1
  <2>4. indirect \in [0..FSSIZE -> [0..NINDIRECT - 1 -> 0..FSSIZE]]
    BY <1>0, <1>2
  <2> QED
    BY <2>1, <2>2, <2>3, <2>4 DEF MkfsTypes, DiskTypes
<1>6. \A i \in Inode, k \in Slot : Map[<<i, k>>] = 0
  <2> SUFFICES ASSUME NEW i \in Inode, NEW k \in Slot PROVE Map[<<i, k>>] = 0
    OBVIOUS
  <2>1. k \in 0..d + e
    BY <1>0 DEF Slot
  <2>2. dinode[i].addrs[d] = 0
    BY <1>0, <1>3
  <2>3. k < d => dinode[i].addrs[k] = 0
    BY <1>0, <1>3, <2>1
  <2> QED
    BY <1>0, <2>1, <2>2, <2>3, MapIs
<1>7. GivenOut(Map, freeblock)
  <2>1. \A q \in Inode \X Slot : Map[q] = 0
    BY <1>6
  <2>2. nmeta..freeblock - 1 = {}
    BY <1>0 DEF MkfsInit
  <2> QED
    BY <2>1, <2>2 DEF GivenOut
<1>8. Blank
  BY <1>0, <1>2 DEF Blank
<1>9. Present
  <2> SUFFICES ASSUME NEW i \in Inode, NEW k \in 0..MAXFILE - 1
               PROVE  Map[<<i, k>>] # 0 <=> k * BSIZE < dinode[i].size
    BY DEF Present
  <2>1. k \in Slot /\ k \in Nat
    BY <1>0 DEF Slot
  <2>2. k * s >= 0
    BY <2>1
  <2> QED
    BY <1>0, <1>3, <1>6, <2>1, <2>2
<1>10. RootSize
  <2>1. todo = <<<<1, t>>, <<1, t>>>> /\ freeinode = 2
    BY <1>0 DEF MkfsInit, ROOTINO
  <2>2. Len(todo) = 2 /\ todo[1] = <<1, t>> /\ todo[2] = <<1, t>>
    BY <2>1
  <2>3. RootBytes(1) = t /\ RootBytes(2) = t
    BY <2>2 DEF RootBytes, ROOTINO
  <2>4. dinode[ROOTINO].size = 0
    BY <1>3, <1>4 DEF ROOTINO
  <2>5. 0 + t + t = 2 * t
    OBVIOUS
  <2> QED
    BY <1>0, <2>1, <2>2, <2>3, <2>4, <2>5 DEF RootSize
<1> QED
  BY <1>5, <1>7, <1>8, <1>9, <1>10 DEF FilesInv

-----------------------------------------------------------------------------
(* The next file *)

LEMMA MapStays ==
  ASSUME UNCHANGED <<dinode, indirect>>
  PROVE  Map' = Map
PROOF
  BY DEF Map, BlockIn, BlockAt

(* The pieces of a file are not empty and at most a block. *)
LEMMA PiecesAre ==
  ASSUME NEW m \in Nat \ {0}, NEW size \in Nat, NEW k \in 1..(size + m - 1) \div m
  PROVE  Min({m, size - (k - 1) * m}) \in Nat \ {0}
PROOF
<1>1. PICK c \in Nat, t \in Nat : c = (size + m - 1) \div m /\ t = size + m - 1
  BY MkfsDivided
<1>2. c * m <= t
  <2>1. t \div m = c /\ t \div m \in Nat /\ t % m \in Nat /\ t = (t \div m) * m + (t % m)
    BY <1>1, MkfsDivided
  <2>2. PICK r \in Nat : r = t % m
    BY <2>1
  <2>3. t = c * m + r
    BY <2>1, <2>2, Zenon
  <2> QED
    BY <2>3
<1>3. k \in Int /\ k - 1 \in Int /\ k - 1 < c
  BY <1>1
<1>4. (k - 1) * m + m <= c * m /\ (k - 1) * m \in Int
  BY <1>3, MkfsProduct
<1>5. PICK z \in Int : z = (k - 1) * m
  BY <1>4
<1>6. size - z >= 1
  BY <1>1, <1>2, <1>4, <1>5
<1>7. Min({m, size - z}) = IF m <= size - z THEN m ELSE size - z
  BY MinOfTwo
<1> QED
  BY <1>5, <1>6, <1>7

(* An inode more is one more entry of the root directory to write.         *)
LEMMA CopyKeeps ==
  ASSUME ImageSizes, FilesInv, NEW size \in FileSize, copy(size)
  PROVE  FilesInv'
PROOF
<1>0. MkfsTypes /\ GivenOut(Map, freeblock) /\ Blank /\ Present /\ RootSize
  BY DEF FilesInv
<1>1. PICK n \in Nat \ {0}, s \in Nat \ {0}, t \in Nat \ {0}, f \in Nat :
        n = NINODES /\ s = BSIZE /\ t = DIRENT /\ f = freeinode /\ 2 <= f /\ f <= n
  BY <1>0, MkfsSizes DEF MkfsTypes, DiskTypes, copy
<1>2. Map' = Map /\ freeblock' = freeblock /\ dinode' = dinode /\ indirect' = indirect
  BY MapStays DEF copy
<1>3. freeinode' = f + 1
  BY <1>1 DEF copy
<1>4. size \in Nat
  BY DEF ImageSizes
<1>5. PICK c \in Nat : c = (size + s - 1) \div s
  BY <1>4, MkfsDivided
<1>6. PICK g : g = [k \in 1..c |-> <<f, Min({s, size - (k - 1) * s})>>]
  OBVIOUS
<1>7. g \in Seq(Inode \X (Nat \ {0})) /\ Len(g) = c /\ \A k \in 1..c : g[k][1] = f
  <2>1. \A k \in 1..c : <<f, Min({s, size - (k - 1) * s})>> \in Inode \X (Nat \ {0})
    <3> SUFFICES ASSUME NEW k \in 1..c
                 PROVE  <<f, Min({s, size - (k - 1) * s})>> \in Inode \X (Nat \ {0})
      OBVIOUS
    <3>1. Min({s, size - (k - 1) * s}) \in Nat \ {0}
      BY <1>4, <1>5, PiecesAre
    <3>2. f \in Inode
      BY <1>1 DEF Inode
    <3> QED
      BY <3>1, <3>2, Zenon
  <2>2. g \in [1..c -> Inode \X (Nat \ {0})]
    BY <1>6, <2>1, Zenon
  <2>3. \A k \in 1..c : g[k][1] = f
    BY <1>6
  <2>4. g \in Seq(Inode \X (Nat \ {0})) /\ Len(g) = c
    BY <2>2
  <2> QED
    BY <2>3, <2>4
<1>8. todo' = <<<<1, t>>>> \o g
  BY <1>1, <1>5, <1>6 DEF copy, ROOTINO
<1>9. <<<<1, t>>>> \in Seq(Inode \X (Nat \ {0})) /\ Len(<<<<1, t>>>>) = 1
  <2>1. <<1, t>> \in Inode \X (Nat \ {0})
    BY <1>1 DEF Inode
  <2> QED
    BY <2>1
<1>10. /\ todo' \in Seq(Inode \X (Nat \ {0})) /\ Len(todo') = c + 1 /\ todo'[1] = <<1, t>>
       /\ \A k \in 2..c + 1 : todo'[k] = g[k - 1]
  BY <1>7, <1>8, <1>9
<1>11. \A k \in 2..c + 1 : todo'[k][1] # 1
  <2>1. \A k \in 2..c + 1 : k - 1 \in 1..c
    OBVIOUS
  <2> QED
    BY <1>1, <1>7, <1>10, <2>1
<1>12. MkfsTypes'
  BY <1>0, <1>1, <1>2, <1>3, <1>10 DEF MkfsTypes, DiskTypes
<1>13. GivenOut(Map, freeblock)'
  BY <1>0, <1>2 DEF GivenOut, nmeta, bmapstart, inodestart, ninodeblocks, nbitmap
<1>14. Blank'
  BY <1>0, <1>2 DEF Blank
<1>15. Present'
  BY <1>0, <1>2, Zenon DEF Present
<1>16. RootSize'
  <2>1. RootBytes(1)' = t /\ RootBytes(2)' = 0
    <3>1. 1 <= Len(todo')
      BY <1>10
    <3>2. 2 <= Len(todo') => todo'[2][1] # 1
      BY <1>10, <1>11
    <3>3. todo'[1][1] = 1 /\ todo'[1][2] = t
      BY <1>10
    <3> QED
      BY <3>1, <3>2, <3>3 DEF RootBytes, ROOTINO
  <2>2. PICK z \in Nat : z = dinode[ROOTINO].size
    BY <1>0, <1>1 DEF MkfsTypes, DiskTypes, Inode, ROOTINO
  <2>3. z = f * t
    <3>1. todo = <<>>
      BY DEF copy, Files
    <3>2. RootBytes(1) = 0 /\ RootBytes(2) = 0
      BY <3>1 DEF RootBytes
    <3> QED
      BY <1>0, <1>1, <2>2, <3>2 DEF RootSize
  <2>4. (f + 1) * t = f * t + t
    OBVIOUS
  <2>5. \A k \in 3..Len(todo') : todo'[k][1] # ROOTINO
    BY <1>10, <1>11 DEF ROOTINO
  <2> QED
    BY <1>1, <1>2, <1>3, <2>1, <2>2, <2>3, <2>4, <2>5 DEF RootSize
<1> QED
  BY <1>12, <1>13, <1>14, <1>15, <1>16 DEF FilesInv

-----------------------------------------------------------------------------
(* The places of blocks in iappend *)

WritesTo(i, s, a) == dinode' = [dinode EXCEPT ![i] = [size |-> s, addrs |-> a]]
PutsIn(c, k) == indirect' = [indirect EXCEPT ![c][k - NDIRECT] = freeblock' - 1]
Placing(i, f) ==
  /\ DiskTypes' /\ GivenOut(Map, freeblock)' /\ Blank' /\ Map'[<<i, f>>] # 0
  /\ \A j \in Inode, k \in 0..MAXFILE - 1 :
       <<j, k>> # <<i, f>> => Map'[<<j, k>>] = Map[<<j, k>>]

LEMMA WrittenTo ==
  ASSUME DiskTypes, NEW i \in Inode, NEW s \in Nat, NEW a \in [0..NDIRECT -> 0..FSSIZE],
         WritesTo(i, s, a)
  PROVE  /\ dinode'[i].size = s /\ dinode'[i].addrs = a
         /\ \A j \in Inode \ {i} : dinode'[j] = dinode[j]
         /\ dinode' \in [Inode -> [size : Nat, addrs : [0..NDIRECT -> 0..FSSIZE]]]
PROOF
<1>1. dinode \in [Inode -> [size : Nat, addrs : [0..NDIRECT -> 0..FSSIZE]]]
  BY DEF DiskTypes
<1>2. PICK r : r = [size |-> s, addrs |-> a]
  OBVIOUS
<1>3. r \in [size : Nat, addrs : [0..NDIRECT -> 0..FSSIZE]] /\ r.size = s /\ r.addrs = a
  BY <1>2
<1>4. dinode' = [dinode EXCEPT ![i] = r]
  BY <1>2 DEF WritesTo
<1> QED
  BY <1>1, <1>3, <1>4

LEMMA PlaceKept ==
  ASSUME ImageSizes, NEW i \in Inode, NEW k \in Slot,
         dinode'[i].addrs[NDIRECT] = dinode[i].addrs[NDIRECT],
         k < NDIRECT => dinode'[i].addrs[k] = dinode[i].addrs[k],
         dinode[i].addrs[NDIRECT] # 0 /\ k >= NDIRECT /\ k # MAXFILE =>
           indirect'[dinode[i].addrs[NDIRECT]][k - NDIRECT]
             = indirect[dinode[i].addrs[NDIRECT]][k - NDIRECT]
  PROVE  Map'[<<i, k>>] = Map[<<i, k>>]
PROOF
<1>1. PICK d \in Nat, m \in Nat : d = NDIRECT /\ m = MAXFILE /\ d < m /\ k \in 0..m
  BY MkfsSizes DEF Slot
<1>2. PICK c : c = dinode[i].addrs[NDIRECT]
  OBVIOUS
<1>3. CASE k = MAXFILE
  BY <1>3, MapIs, MapNext
<1>4. CASE k < NDIRECT
  BY <1>4, MapIs, MapNext
<1>5. CASE k >= NDIRECT /\ k # MAXFILE
  <2>1. Map[<<i, k>>] = IF c = 0 THEN 0 ELSE indirect[c][k - NDIRECT]
    BY <1>2, <1>5, MapIs
  <2>2. Map'[<<i, k>>] = IF c = 0 THEN 0 ELSE indirect'[c][k - NDIRECT]
    BY <1>2, <1>5, MapNext
  <2> QED
    BY <1>2, <1>5, <2>1, <2>2
<1> QED
  BY <1>1, <1>3, <1>4, <1>5

LEMMA GivenNext ==
  ASSUME GivenOut(Map', freeblock')
  PROVE  GivenOut(Map, freeblock)'
PROOF
  BY DEF GivenOut, nmeta, bmapstart, inodestart, ninodeblocks, nbitmap

(* The block is there. *)
LEMMA PlaceFound ==
  ASSUME ImageSizes, FilesInv, NEW i \in Inode, NEW f \in 0..MAXFILE - 1, NEW s \in Nat,
         Map[<<i, f>>] # 0, WritesTo(i, s, dinode[i].addrs), UNCHANGED <<indirect, freeblock>>
  PROVE  Placing(i, f)
PROOF
<1>0. DiskTypes /\ GivenOut(Map, freeblock) /\ Blank
  BY DEF FilesInv, MkfsTypes
<1>1. dinode[i].addrs \in [0..NDIRECT -> 0..FSSIZE]
  BY <1>0 DEF DiskTypes
<1>2. \A j \in Inode : dinode'[j].addrs = dinode[j].addrs
  BY <1>0, <1>1, WrittenTo
<1>3. Map' = Map
  <2>1. Map = [q \in Inode \X Slot |-> Map[q]]
    BY DEF Map
  <2>2. \A j \in Inode, k \in Slot : Map'[<<j, k>>] = Map[<<j, k>>]
    <3> SUFFICES ASSUME NEW j \in Inode, NEW k \in Slot PROVE Map'[<<j, k>>] = Map[<<j, k>>]
      OBVIOUS
    <3>1. PICK d \in Nat, m \in Nat : d = NDIRECT /\ m = MAXFILE /\ k \in 0..m
      BY MkfsSizes DEF Slot
    <3> QED
      BY <1>2, <3>1, MapIs, MapNext
  <2> QED
    BY <2>1, <2>2, MapNextIs
<1>4. DiskTypes'
  BY <1>0, <1>1, WrittenTo DEF DiskTypes
<1>5. GivenOut(Map, freeblock)'
  BY <1>0, <1>3, GivenNext
<1>6. Blank'
  BY <1>0 DEF Blank
<1> QED
  BY <1>3, <1>4, <1>5, <1>6 DEF Placing

(* A new direct block *)
LEMMA PlaceDirect ==
  ASSUME ImageSizes, FilesInv, NEW i \in Inode, NEW f \in 0..MAXFILE - 1, NEW s \in Nat,
         f < NDIRECT, dinode[i].addrs[f] = 0,
         WritesTo(i, s, [dinode[i].addrs EXCEPT ![f] = freeblock]),
         UNCHANGED indirect, freeblock' = freeblock + 1, freeblock + 1 <= FSSIZE
  PROVE  Placing(i, f)
PROOF
<1>0. DiskTypes /\ GivenOut(Map, freeblock) /\ Blank /\ Map \in [Inode \X Slot -> Nat]
  BY MapType DEF FilesInv, MkfsTypes
<1>1. PICK d \in Nat, m \in Nat, n \in Nat, b \in Nat :
        /\ d = NDIRECT /\ m = MAXFILE /\ d < m /\ n = FSSIZE /\ b = freeblock
        /\ 2 <= b /\ nmeta <= b /\ b < n
  BY <1>0, MkfsSizes DEF DiskTypes
<1>2. dinode[i].addrs \in [0..d -> 0..n] /\ f \in 0..d
  BY <1>0, <1>1 DEF DiskTypes
<1>3. PICK a \in [0..d -> 0..n] : a = [dinode[i].addrs EXCEPT ![f] = b]
  <2>1. PICK h \in [0..d -> 0..n] : h = dinode[i].addrs
    BY <1>2
  <2>2. b \in 0..n
    BY <1>1
  <2>3. [h EXCEPT ![f] = b] \in [0..d -> 0..n]
    BY <1>2, <2>2
  <2> QED
    BY <2>1, <2>3
<1>4. a[f] = b /\ \A k \in 0..d : k # f => a[k] = dinode[i].addrs[k]
  BY <1>2, <1>3
<1>5. /\ dinode'[i].addrs = a
      /\ \A j \in Inode \ {i} : dinode'[j] = dinode[j]
      /\ dinode' \in [Inode -> [size : Nat, addrs : [0..NDIRECT -> 0..FSSIZE]]]
  <2>1. WritesTo(i, s, a) /\ a \in [0..NDIRECT -> 0..FSSIZE]
    BY <1>1, <1>3
  <2> QED
    BY <1>0, <2>1, WrittenTo
<1>6. f \in Slot /\ \E q \in Inode \X Slot : q = <<i, f>>
  <2>1. f \in Slot
    BY <1>1 DEF Slot
  <2> QED
    BY <2>1
<1>6a. PICK q \in Inode \X Slot : q = <<i, f>>
  BY <1>6
<1>7. Map[q] = 0
  BY <1>6, <1>6a, MapIs
<1>8. PICK g \in [Inode \X Slot -> Nat] : g = [Map EXCEPT ![q] = b]
  BY <1>0
<1>9. g[q] = b /\ \A u \in Inode \X Slot : u # q => g[u] = Map[u]
  BY <1>0, <1>8
<1>10. \A j \in Inode, k \in Slot : Map'[<<j, k>>] = g[<<j, k>>]
  <2> SUFFICES ASSUME NEW j \in Inode, NEW k \in Slot PROVE Map'[<<j, k>>] = g[<<j, k>>]
    OBVIOUS
  <2>1. k \in 0..m
    BY <1>1 DEF Slot
  <2>2. CASE j # i
    <3>1. Map'[<<j, k>>] = Map[<<j, k>>]
      BY <1>5, <2>2, PlaceKept
    <3> QED
      BY <1>6, <1>6a, <1>9, <2>2, <3>1
  <2>3. CASE j = i /\ k = f
    BY <1>1, <1>4, <1>5, <1>6, <1>6a, <1>9, <2>3, MapNext
  <2>4. CASE j = i /\ k # f
    <3>1. a[d] = dinode[i].addrs[d] /\ (k < d => a[k] = dinode[i].addrs[k])
      BY <1>1, <1>4, <2>1, <2>4
    <3>2. Map'[<<j, k>>] = Map[<<j, k>>]
      BY <1>1, <1>5, <2>4, <3>1, PlaceKept
    <3> QED
      BY <1>6, <1>6a, <1>9, <2>4, <3>2
  <2> QED
    BY <2>2, <2>3, <2>4
<1>11. Map' = g
  BY <1>10, MapNextIs
<1>12. GivenOut(Map', freeblock')
  <2>1. GivenOut([Map EXCEPT ![q] = b], b + 1)
    BY <1>0, <1>1, <1>7, GiveOne
  <2> QED
    BY <1>1, <1>8, <1>11, <2>1
<1>13. DiskTypes'
  <2>1. freeblock' \in nmeta..FSSIZE
    BY <1>1, MkfsSizes
  <2> QED
    BY <1>0, <1>5, <2>1, Zenon DEF DiskTypes
<1>14. Blank'
  BY <1>0, <1>1, SMTT(60) DEF Blank
<1>15. \A j \in Inode, k \in 0..MAXFILE - 1 :
         <<j, k>> # <<i, f>> => Map'[<<j, k>>] = Map[<<j, k>>]
  BY <1>1, <1>6, <1>6a, <1>9, <1>11 DEF Slot
<1> QED
  BY <1>1, <1>6, <1>6a, <1>9, <1>11, <1>12, <1>13, <1>14, <1>15, GivenNext DEF Placing

(* A new block in an indirect block that is there *)
LEMMA PlaceIndirect ==
  ASSUME ImageSizes, FilesInv, NEW i \in Inode, NEW f \in 0..MAXFILE - 1, NEW s \in Nat,
         f >= NDIRECT, NEW c, c = dinode[i].addrs[NDIRECT], c # 0, indirect[c][f - NDIRECT] = 0,
         WritesTo(i, s, dinode[i].addrs),
         PutsIn(c, f), freeblock' = freeblock + 1, freeblock + 1 <= FSSIZE
  PROVE  Placing(i, f)
PROOF
<1>0. DiskTypes /\ GivenOut(Map, freeblock) /\ Blank /\ Map \in [Inode \X Slot -> Nat]
  BY MapType DEF FilesInv, MkfsTypes
<1>1. PICK d \in Nat, e \in Nat, m \in Nat, n \in Nat, b \in Nat :
        /\ d = NDIRECT /\ e = NINDIRECT /\ m = MAXFILE /\ m = d + e /\ d < m /\ n = FSSIZE
        /\ b = freeblock /\ 2 <= b /\ nmeta \in Nat /\ nmeta <= b /\ b < n
  BY <1>0, MkfsSizes, SMTT(60) DEF DiskTypes
<1>2. PICK x \in 0..e - 1 : x = f - NDIRECT /\ f = x + d /\ f \in 0..m /\ f # m
  BY <1>1
<1>3. f \in Slot /\ m \in Slot
  BY <1>1, <1>2 DEF Slot
<1>4. PICK q \in Inode \X Slot, z \in Inode \X Slot : q = <<i, f>> /\ z = <<i, m>>
  BY <1>3
<1>5. c = Map[z]
  BY <1>1, <1>3, <1>4, MapIs
<1>6. c \in nmeta..b - 1 /\ c \in 0..n /\ c # b
  <2>1. c \in nmeta..b - 1
    BY <1>0, <1>1, <1>5 DEF GivenOut
  <2> QED
    BY <1>1, <2>1, MkfsSizes
<1>7. indirect \in [0..n -> [0..e - 1 -> 0..n]]
  BY <1>0, <1>1 DEF DiskTypes
<1>8. /\ indirect' \in [0..n -> [0..e - 1 -> 0..n]]
      /\ indirect'[c][x] = b
      /\ \A u \in 0..n, y \in 0..e - 1 :
           u # c \/ y # x => indirect'[u][y] = indirect[u][y]
  <2>0. PICK w \in [0..e - 1 -> 0..n] : w = indirect[c]
    BY <1>6, <1>7
  <2>1. PICK r \in [0..e - 1 -> 0..n] : r = [w EXCEPT ![x] = b]
    <3>1. b \in 0..n
      BY <1>1
    <3>2. [w EXCEPT ![x] = b] \in [0..e - 1 -> 0..n]
      BY <3>1
    <3> QED
      BY <3>2
  <2>2. indirect' = [indirect EXCEPT ![c] = r]
    <3>1. freeblock' - 1 = b
      BY <1>1
    <3> QED
      BY <1>2, <2>0, <2>1, <3>1 DEF PutsIn
  <2>3. indirect' \in [0..n -> [0..e - 1 -> 0..n]]
    BY <1>6, <1>7, <2>2
  <2>4. r[x] = b /\ \A y \in 0..e - 1 : y # x => r[y] = indirect[c][y]
    BY <2>0, <2>1
  <2>5. indirect'[c] = r /\ \A u \in 0..n : u # c => indirect'[u] = indirect[u]
    BY <1>6, <1>7, <2>2
  <2>6. ASSUME NEW u \in 0..n, NEW y \in 0..e - 1, u # c \/ y # x
        PROVE  indirect'[u][y] = indirect[u][y]
    BY <2>4, <2>5, <2>6, Zenon
  <2> QED
    BY <2>3, <2>4, <2>5, <2>6, Zenon
<1>9. dinode[i].addrs \in [0..NDIRECT -> 0..FSSIZE]
  BY <1>0 DEF DiskTypes
<1>10. /\ \A j \in Inode : dinode'[j].addrs = dinode[j].addrs
       /\ dinode' \in [Inode -> [size : Nat, addrs : [0..NDIRECT -> 0..FSSIZE]]]
  <2>1. /\ dinode'[i].addrs = dinode[i].addrs
        /\ \A j \in Inode \ {i} : dinode'[j] = dinode[j]
        /\ dinode' \in [Inode -> [size : Nat, addrs : [0..NDIRECT -> 0..FSSIZE]]]
    BY <1>0, <1>9, WrittenTo
  <2> QED
    BY <2>1, Zenon
<1>11. Map[q] = 0
  BY <1>1, <1>2, <1>3, <1>4, MapIs
<1>12. PICK g : g = [Map EXCEPT ![q] = b] /\ g = [u \in Inode \X Slot |-> g[u]]
  BY <1>0
<1>13. g[q] = b /\ \A u \in Inode \X Slot : u # q => g[u] = Map[u]
  BY <1>0, <1>12
<1>14. \A j \in Inode, k \in Slot : Map'[<<j, k>>] = g[<<j, k>>]
  <2> SUFFICES ASSUME NEW j \in Inode, NEW k \in Slot PROVE Map'[<<j, k>>] = g[<<j, k>>]
    OBVIOUS
  <2>1. k \in 0..m
    BY <1>1 DEF Slot
  <2>2. PICK v \in 0..n : v = dinode[j].addrs[NDIRECT] /\ v = dinode'[j].addrs[NDIRECT]
    <3>1. dinode[j].addrs \in [0..d -> 0..n]
      BY <1>0, <1>1 DEF DiskTypes
    <3> QED
      <4>1. PICK a \in [0..d -> 0..n] : a = dinode[j].addrs /\ a = dinode'[j].addrs
        BY <1>10, <3>1, Zenon
      <4>2. a[d] \in 0..n
        BY <1>1, <4>1
      <4> QED
        BY <1>1, <4>1, <4>2
  <2>3. CASE j = i /\ k = f
    <3>1. Map'[<<j, k>>] = IF v = 0 THEN 0 ELSE indirect'[v][k - NDIRECT]
      BY <1>1, <1>2, <2>2, <2>3, MapNext
    <3>2. v = c
      BY <2>2, <2>3
    <3>3. Map'[<<j, k>>] = indirect'[c][x]
      BY <1>2, <2>3, <3>1, <3>2
    <3> QED
      BY <1>4, <1>8, <1>13, <2>3, <3>3
  <2>4. CASE ~(j = i /\ k = f)
    <3>1. ASSUME v # 0, k >= d, k # m PROVE indirect'[v][k - d] = indirect[v][k - d]
      <4>1. k - d \in 0..e - 1
        BY <1>1, <2>1, <3>1
      <4>2. v = c => j = i
        <5>1. PICK t \in Inode \X Slot : t = <<j, m>>
          BY <1>3
        <5>2. Map[t] = v
          BY <1>1, <1>3, <2>2, <5>1, MapIs
        <5>3. v = c => t = z
          BY <1>0, <1>5, <3>1, <5>2 DEF GivenOut
        <5> QED
          BY <1>4, <5>1, <5>3
      <4>3. v # c \/ k - d # x
        BY <1>1, <1>2, <2>1, <2>4, <4>2
      <4> QED
        BY <1>8, <4>1, <4>3
    <3>2. v # 0 /\ k >= NDIRECT /\ k # MAXFILE =>
            indirect'[v][k - NDIRECT] = indirect[v][k - NDIRECT]
      BY <1>1, <1>8, <3>1
    <3>3. Map'[<<j, k>>] = Map[<<j, k>>]
      BY <1>10, <2>2, <3>2, PlaceKept, SMTT(60)
    <3> QED
      BY <1>4, <1>13, <2>4, <3>3
  <2> QED
    BY <2>3, <2>4
<1>15. Map' = g
  <2>1. g = [u \in Inode \X Slot |-> g[u]]
    BY <1>12
  <2> QED
    BY <1>14, <2>1, MapNextIs, ZenonT(60)
<1>16. GivenOut(Map', freeblock')
  <2>1. GivenOut([Map EXCEPT ![q] = b], b + 1)
    BY <1>0, <1>1, <1>11, GiveOne
  <2> QED
    BY <1>1, <1>12, <1>15, <2>1
<1>17. DiskTypes'
  <2>1. freeblock' \in nmeta..FSSIZE
    BY <1>1, MkfsSizes
  <2>2. indirect' \in [0..FSSIZE -> [0..NINDIRECT - 1 -> 0..FSSIZE]]
    BY <1>1, <1>8
  <2> QED
    BY <1>10, <2>1, <2>2, Zenon DEF DiskTypes
<1>18. Blank'
  <2>0. FSSIZE = n /\ NINDIRECT = e /\ freeblock' = b + 1
    BY <1>1
  <2> SUFFICES ASSUME NEW u \in 0..n, NEW y \in 0..e - 1, u >= b + 1 PROVE indirect'[u][y] = 0
    BY <2>0, ZenonT(60) DEF Blank
  <2>1. u # c /\ u >= freeblock
    BY <1>1, <1>6
  <2>2. indirect'[u][y] = indirect[u][y]
    BY <1>8, <2>1
  <2> QED
    BY <1>0, <1>1, <2>1, <2>2 DEF Blank
<1>19. \A j \in Inode, k \in 0..MAXFILE - 1 :
         <<j, k>> # <<i, f>> => Map'[<<j, k>>] = Map[<<j, k>>]
  BY <1>1, <1>4, <1>13, <1>15 DEF Slot
<1> QED
  BY <1>1, <1>4, <1>13, <1>15, <1>16, <1>17, <1>18, <1>19, GivenNext DEF Placing

(* A new indirect block and a block in it *)
LEMMA PlaceBoth ==
  ASSUME ImageSizes, FilesInv, NEW i \in Inode, NEW f \in 0..MAXFILE - 1, NEW s \in Nat,
         f >= NDIRECT, dinode[i].addrs[NDIRECT] = 0,
         WritesTo(i, s, [dinode[i].addrs EXCEPT ![NDIRECT] = freeblock]),
         PutsIn(freeblock, f), freeblock' = freeblock + 2, freeblock + 2 <= FSSIZE
  PROVE  Placing(i, f)
PROOF
<1>0. DiskTypes /\ GivenOut(Map, freeblock) /\ Blank /\ Map \in [Inode \X Slot -> Nat]
  BY MapType DEF FilesInv, MkfsTypes
<1>1. PICK d \in Nat, e \in Nat, m \in Nat, n \in Nat, b \in Nat :
        /\ d = NDIRECT /\ e = NINDIRECT /\ m = MAXFILE /\ m = d + e /\ d < m /\ n = FSSIZE
        /\ b = freeblock /\ 2 <= b /\ nmeta \in Nat /\ nmeta <= b /\ b + 2 <= n
  BY <1>0, MkfsSizes, SMTT(60) DEF DiskTypes
<1>2. PICK x \in 0..e - 1 : x = f - NDIRECT /\ f = x + d /\ f \in 0..m /\ f # m
  BY <1>1
<1>3. f \in Slot /\ m \in Slot
  BY <1>1, <1>2 DEF Slot
<1>4. PICK q \in Inode \X Slot, z \in Inode \X Slot : q = <<i, f>> /\ z = <<i, m>>
  BY <1>3
<1>5. q # z
  BY <1>2, <1>4
<1>6. b \in 0..n /\ b + 1 \in 0..n
  BY <1>1
<1>7. indirect \in [0..n -> [0..e - 1 -> 0..n]]
  BY <1>0, <1>1 DEF DiskTypes
<1>8. /\ indirect' \in [0..n -> [0..e - 1 -> 0..n]]
      /\ indirect'[b][x] = b + 1
      /\ \A u \in 0..n, y \in 0..e - 1 :
           u # b \/ y # x => indirect'[u][y] = indirect[u][y]
  <2>0. PICK w \in [0..e - 1 -> 0..n] : w = indirect[b]
    BY <1>6, <1>7
  <2>1. PICK r \in [0..e - 1 -> 0..n] : r = [w EXCEPT ![x] = b + 1]
    <3>1. [w EXCEPT ![x] = b + 1] \in [0..e - 1 -> 0..n]
      BY <1>6
    <3> QED
      BY <3>1
  <2>2. indirect' = [indirect EXCEPT ![b] = r]
    <3>1. freeblock' - 1 = b + 1 /\ freeblock = b
      BY <1>1
    <3> QED
      BY <1>2, <2>0, <2>1, <3>1 DEF PutsIn
  <2>3. indirect' \in [0..n -> [0..e - 1 -> 0..n]]
    BY <1>6, <1>7, <2>2
  <2>4. r[x] = b + 1 /\ \A y \in 0..e - 1 : y # x => r[y] = indirect[b][y]
    BY <2>0, <2>1
  <2>5. indirect'[b] = r /\ \A u \in 0..n : u # b => indirect'[u] = indirect[u]
    BY <1>6, <1>7, <2>2
  <2>6. ASSUME NEW u \in 0..n, NEW y \in 0..e - 1, u # b \/ y # x
        PROVE  indirect'[u][y] = indirect[u][y]
    BY <2>4, <2>5, <2>6, Zenon
  <2> QED
    BY <2>3, <2>4, <2>5, <2>6, Zenon
<1>9. PICK a \in [0..d -> 0..n] : /\ a = [dinode[i].addrs EXCEPT ![d] = b]
                                  /\ a[d] = b /\ \A k \in 0..d : k # d => a[k] = dinode[i].addrs[k]
  <2>1. PICK h \in [0..d -> 0..n] : h = dinode[i].addrs
    BY <1>0, <1>1 DEF DiskTypes
  <2>2. d \in 0..d
    OBVIOUS
  <2>3. [h EXCEPT ![d] = b] \in [0..d -> 0..n]
    BY <1>6, <2>2
  <2>4. [h EXCEPT ![d] = b][d] = b /\ \A k \in 0..d : k # d => [h EXCEPT ![d] = b][k] = h[k]
    BY <2>2
  <2> QED
    BY <2>1, <2>3, <2>4
<1>10. /\ dinode'[i].addrs = a
       /\ \A j \in Inode \ {i} : dinode'[j] = dinode[j]
       /\ dinode' \in [Inode -> [size : Nat, addrs : [0..NDIRECT -> 0..FSSIZE]]]
  <2>1. WritesTo(i, s, a) /\ a \in [0..NDIRECT -> 0..FSSIZE]
    BY <1>1, <1>9
  <2> QED
    BY <1>0, <2>1, WrittenTo
<1>11. Map[q] = 0 /\ Map[z] = 0
  BY <1>1, <1>2, <1>3, <1>4, MapIs
<1>12. PICK g : /\ g = [[Map EXCEPT ![z] = b] EXCEPT ![q] = b + 1]
                /\ g = [u \in Inode \X Slot |-> g[u]]
  BY <1>0
<1>13. g[q] = b + 1 /\ g[z] = b /\ \A u \in Inode \X Slot : u # q /\ u # z => g[u] = Map[u]
  BY <1>0, <1>5, <1>12
<1>14. \A j \in Inode, k \in Slot : Map'[<<j, k>>] = g[<<j, k>>]
  <2> SUFFICES ASSUME NEW j \in Inode, NEW k \in Slot PROVE Map'[<<j, k>>] = g[<<j, k>>]
    OBVIOUS
  <2>1. k \in 0..m
    BY <1>1 DEF Slot
  <2>2. PICK p \in Inode \X Slot : p = <<j, k>>
    OBVIOUS
  <2>3. CASE j # i
    <3>1. p # q /\ p # z
      BY <1>4, <2>2, <2>3
    <3>2. PICK v \in 0..n : v = dinode[j].addrs[NDIRECT]
      <4>1. PICK h \in [0..d -> 0..n] : h = dinode[j].addrs
        BY <1>0, <1>1 DEF DiskTypes
      <4>2. h[d] \in 0..n
        OBVIOUS
      <4> QED
        BY <1>1, <4>1, <4>2
    <3>3. ASSUME v # 0, k >= d, k # m PROVE indirect'[v][k - d] = indirect[v][k - d]
      <4>1. k - d \in 0..e - 1
        BY <1>1, <2>1, <3>3
      <4>2. v # b
        <5>1. PICK t \in Inode \X Slot : t = <<j, m>>
          BY <1>3
        <5>2. Map[t] = v
          BY <1>1, <1>3, <3>2, <5>1, MapIs
        <5>3. v \in nmeta..freeblock - 1
          BY <1>0, <3>3, <5>2 DEF GivenOut
        <5> QED
          BY <1>1, <5>3
      <4> QED
        BY <1>8, <4>1, <4>2
    <3>4. v # 0 /\ k >= NDIRECT /\ k # MAXFILE =>
            indirect'[v][k - NDIRECT] = indirect[v][k - NDIRECT]
      BY <1>1, <3>3
    <3>5. Map'[<<j, k>>] = Map[<<j, k>>]
      BY <1>10, <2>3, <3>2, <3>4, PlaceKept, SMTT(60)
    <3> QED
      BY <1>13, <2>2, <3>1, <3>5
  <2>4. CASE j = i /\ k = m
    <3>1. Map'[<<j, k>>] = dinode'[i].addrs[NDIRECT]
      BY <1>1, <2>4, MapNext
    <3>2. dinode'[i].addrs[NDIRECT] = b
      BY <1>1, <1>9, <1>10
    <3> QED
      BY <1>4, <1>13, <2>4, <3>1, <3>2
  <2>5. CASE j = i /\ k < d
    <3>1. p # q /\ p # z
      BY <1>1, <1>2, <1>4, <2>2, <2>5
    <3>2. a[k] = dinode[i].addrs[k] /\ k < NDIRECT
      BY <1>1, <1>9, <2>1, <2>5
    <3>3. Map'[<<i, k>>] = dinode'[i].addrs[k]
      BY <3>2, MapNext
    <3>4. Map[<<i, k>>] = dinode[i].addrs[k]
      BY <3>2, MapIs
    <3>5. Map'[<<i, k>>] = Map[<<i, k>>]
      BY <1>10, <3>2, <3>3, <3>4
    <3> QED
      BY <1>13, <2>2, <2>5, <3>1, <3>5
  <2>6. CASE j = i /\ k >= d /\ k # m
    <3>1. k - d \in 0..e - 1
      BY <1>1, <2>1, <2>6
    <3>2. Map'[<<i, k>>] = indirect'[b][k - d]
      <4>1. dinode'[i].addrs[NDIRECT] = b /\ b # 0
        BY <1>1, <1>9, <1>10
      <4>2. Map'[<<i, k>>] = IF b = 0 THEN 0 ELSE indirect'[b][k - NDIRECT]
        BY <1>1, <2>6, <4>1, MapNext
      <4> QED
        BY <1>1, <4>1, <4>2
    <3>3. CASE k = f
      <4>1. k - d = x
        BY <1>1, <1>2, <3>3
      <4> QED
        BY <1>4, <1>8, <1>13, <2>6, <3>2, <3>3, <4>1
    <3>4. CASE k # f
      <4>1. p # q /\ p # z
        BY <1>4, <2>2, <2>6, <3>4
      <4>2. k - d # x
        BY <1>1, <1>2, <2>1, <3>4
      <4>3. indirect'[b][k - d] = indirect[b][k - d]
        BY <1>6, <1>8, <3>1, <4>2
      <4>4. indirect[b][k - d] = 0
        BY <1>0, <1>1, <1>6, <3>1 DEF Blank
      <4>5. Map[<<i, k>>] = 0
        BY <1>1, <2>6, MapIs
      <4> QED
        BY <1>13, <2>2, <2>6, <3>2, <4>1, <4>3, <4>4, <4>5
    <3> QED
      BY <3>3, <3>4
  <2> QED
    BY <1>1, <2>1, <2>3, <2>4, <2>5, <2>6
<1>15. Map' = g
  <2>1. g = [u \in Inode \X Slot |-> g[u]]
    BY <1>12
  <2> QED
    BY <1>14, <2>1, MapNextIs, Zenon
<1>16. GivenOut(Map', freeblock')
  <2>0. GivenOut([Map EXCEPT ![z] = b], b + 1) /\ [Map EXCEPT ![z] = b] \in [Inode \X Slot -> Nat]
    BY <1>0, <1>1, <1>11, GiveOne
  <2>1. PICK o \in [Inode \X Slot -> Nat] : o = [Map EXCEPT ![z] = b] /\ GivenOut(o, b + 1)
    BY <2>0
  <2>2. o[q] = 0
    BY <1>0, <1>5, <1>11, <2>1
  <2>3. GivenOut([o EXCEPT ![q] = b + 1], b + 1 + 1)
    <3>1. PICK t \in Nat : t = b + 1 /\ nmeta <= t
      BY <1>1
    <3>2. GivenOut(o, t)
      BY <2>1, <3>1
    <3>3. GivenOut([o EXCEPT ![q] = t], t + 1)
      BY <2>2, <3>1, <3>2, GiveOne
    <3> QED
      BY <3>1, <3>3
  <2>4. freeblock' = b + 1 + 1
    BY <1>1
  <2> QED
    BY <1>12, <1>15, <2>1, <2>3, <2>4, Zenon
<1>17. DiskTypes'
  <2>1. freeblock' \in nmeta..FSSIZE
    BY <1>1
  <2>2. indirect' \in [0..FSSIZE -> [0..NINDIRECT - 1 -> 0..FSSIZE]]
    BY <1>1, <1>8
  <2> QED
    BY <1>10, <2>1, <2>2, Zenon DEF DiskTypes
<1>18. Blank'
  <2>0. FSSIZE = n /\ NINDIRECT = e /\ freeblock' = b + 2
    BY <1>1
  <2> SUFFICES ASSUME NEW u \in 0..n, NEW y \in 0..e - 1, u >= b + 2 PROVE indirect'[u][y] = 0
    BY <2>0, Zenon DEF Blank
  <2>1. u # b /\ u >= freeblock
    BY <1>1
  <2>2. indirect'[u][y] = indirect[u][y]
    BY <1>8, <2>1
  <2> QED
    BY <1>0, <1>1, <2>1, <2>2 DEF Blank
<1>19. \A j \in Inode, k \in 0..MAXFILE - 1 :
         <<j, k>> # <<i, f>> => Map'[<<j, k>>] = Map[<<j, k>>]
  <2> SUFFICES ASSUME NEW j \in Inode, NEW k \in 0..m - 1, <<j, k>> # q
               PROVE  Map'[<<j, k>>] = Map[<<j, k>>]
    BY <1>1, <1>4
  <2>1. k \in Slot /\ k # m
    BY <1>1 DEF Slot
  <2>2. <<j, k>> \in Inode \X Slot /\ <<j, k>> # z
    BY <1>4, <2>1
  <2> QED
    BY <1>13, <1>15, <2>2, Zenon
<1>20. Map'[<<i, f>>] # 0
  BY <1>1, <1>4, <1>13, <1>15
<1> QED
  BY <1>16, <1>17, <1>18, <1>19, <1>20, GivenNext DEF Placing

-----------------------------------------------------------------------------
(* One round of iappend *)

LEMMA PlacedThere ==
  ASSUME NEW i, NEW f, NEW d, d = dinode[i].addrs, f < NDIRECT, d[f] # 0
  PROVE  Placed(i, f) = [addrs |-> d, ind |-> 0, next |-> freeblock]
PROOF
  BY Zenon DEF Placed

LEMMA PlacedDirect ==
  ASSUME NEW i, NEW f, NEW d, d = dinode[i].addrs, f < NDIRECT, d[f] = 0
  PROVE  Placed(i, f) = [addrs |-> [d EXCEPT ![f] = freeblock], ind |-> 0,
                         next |-> freeblock + 1]
PROOF
  BY Zenon DEF Placed

LEMMA PlacedIndirect ==
  ASSUME NEW i, NEW f, NEW d, d = dinode[i].addrs, ~(f < NDIRECT), d[NDIRECT] # 0
  PROVE  Placed(i, f) =
           [addrs |-> [d EXCEPT ![NDIRECT] = d[NDIRECT]], ind |-> d[NDIRECT],
            next |-> IF indirect[d[NDIRECT]][f - NDIRECT] = 0 THEN freeblock + 1 ELSE freeblock]
PROOF
<1>1. PICK c : c = IF d[NDIRECT] = 0 THEN freeblock ELSE d[NDIRECT]
  OBVIOUS
<1>2. PICK n : n = IF d[NDIRECT] = 0 THEN freeblock + 1 ELSE freeblock
  OBVIOUS
<1>3. Placed(i, f) = [addrs |-> [d EXCEPT ![NDIRECT] = c], ind |-> c,
                      next |-> IF indirect[c][f - NDIRECT] = 0 THEN n + 1 ELSE n]
  BY <1>1, <1>2, Zenon DEF Placed
<1>4. c = d[NDIRECT] /\ n = freeblock
  BY <1>1, <1>2
<1> QED
  BY <1>3, <1>4, Zenon

LEMMA PlacedBoth ==
  ASSUME NEW i, NEW f, NEW d, d = dinode[i].addrs, ~(f < NDIRECT), d[NDIRECT] = 0
  PROVE  Placed(i, f) =
           [addrs |-> [d EXCEPT ![NDIRECT] = freeblock], ind |-> freeblock,
            next |-> IF indirect[freeblock][f - NDIRECT] = 0 THEN freeblock + 1 + 1
                     ELSE freeblock + 1]
PROOF
<1>1. PICK c : c = IF d[NDIRECT] = 0 THEN freeblock ELSE d[NDIRECT]
  OBVIOUS
<1>2. PICK n : n = IF d[NDIRECT] = 0 THEN freeblock + 1 ELSE freeblock
  OBVIOUS
<1>3. Placed(i, f) = [addrs |-> [d EXCEPT ![NDIRECT] = c], ind |-> c,
                      next |-> IF indirect[c][f - NDIRECT] = 0 THEN n + 1 ELSE n]
  BY <1>1, <1>2, Zenon DEF Placed
<1>4. c = freeblock /\ n = freeblock + 1
  BY <1>1, <1>2
<1> QED
  BY <1>3, <1>4, Zenon

(* What a round that does not fail does, with a name for each number in it *)
Round(i, n, off, f, n1) ==
  /\ todo # <<>> /\ i = Head(todo)[1] /\ n = Head(todo)[2] /\ off = dinode[i].size
  /\ f * BSIZE <= off /\ off < f * BSIZE + BSIZE /\ off + n1 <= f * BSIZE + BSIZE
  /\ todo' = IF n1 = n THEN Tail(todo) ELSE <<<<i, n - n1>>>> \o Tail(todo)
PlacesAt(i, f, x) ==
  /\ x = Placed(i, f) /\ ~(x.next > FSSIZE) /\ freeblock' = x.next
  /\ indirect' = IF x.ind = 0 \/ indirect[x.ind][f - NDIRECT] # 0 THEN indirect
                 ELSE [indirect EXCEPT ![x.ind][f - NDIRECT] = x.next - 1]

LEMMA RoundIs ==
  ASSUME ImageSizes, FilesInv, iappend, mpc' = "files"
  PROVE  \E i \in Inode, n \in Nat \ {0}, off \in Nat, f \in 0..MAXFILE - 1, n1 \in Nat \ {0} :
           /\ Round(i, n, off, f, n1) /\ n1 <= n
           /\ \E x : PlacesAt(i, f, x) /\ WritesTo(i, off + n1, x.addrs)
PROOF
<1>1. todo \in Seq(Inode \X (Nat \ {0})) /\ todo # <<>>
  BY DEF FilesInv, MkfsTypes, iappend
<1>2. Head(todo) \in Inode \X (Nat \ {0})
  BY <1>1
<1>3. PICK i \in Inode, n \in Nat \ {0} : i = Head(todo)[1] /\ n = Head(todo)[2]
  BY <1>2
<1>4. PICK off \in Nat : off = dinode[i].size
  BY DEF FilesInv, MkfsTypes, DiskTypes
<1>5. PICK s \in Nat \ {0} : s = BSIZE
  BY MkfsSizes
<1>6. PICK f \in Nat : f = off \div BSIZE /\ f * s <= off /\ off < f * s + s
  <2>1. PICK c \in Nat, r \in Nat : c = off \div s /\ r = off % s /\ r < s
    BY MkfsDivided
  <2>2. off = c * s + r
    BY <2>1, MkfsDivided, Zenon
  <2> QED
    BY <1>5, <2>1, <2>2
<1>7. PICK n1 \in Nat \ {0} :
        n1 = Min({n, (f + 1) * BSIZE - off}) /\ n1 <= n /\ off + n1 <= f * s + s
  <2>1. PICK z \in Int : z = f * s
    OBVIOUS
  <2>2. (f + 1) * BSIZE = z + s
    BY <1>5, <2>1
  <2>3. Min({n, z + s - off}) = IF n <= z + s - off THEN n ELSE z + s - off
    BY MinOfTwo
  <2>4. z + s - off \in Nat \ {0}
    BY <1>6, <2>1
  <2> QED
    BY <2>1, <2>2, <2>3, <2>4
<1>8. PICK x : x = Placed(i, f)
  OBVIOUS
<1>9. /\ ~(f >= MAXFILE \/ x.next > FSSIZE)
      /\ freeblock' = x.next
      /\ dinode' = [dinode EXCEPT ![i] = [size |-> off + n1, addrs |-> x.addrs]]
      /\ indirect' = IF x.ind = 0 \/ indirect[x.ind][f - NDIRECT] # 0 THEN indirect
                     ELSE [indirect EXCEPT ![x.ind][f - NDIRECT] = x.next - 1]
      /\ todo' = IF n1 = n THEN Tail(todo) ELSE <<<<i, n - n1>>>> \o Tail(todo)
  <2>1. IF f >= MAXFILE \/ x.next > FSSIZE
        THEN mpc' = "failed" /\ UNCHANGED <<todo, freeblock, dinode, indirect>>
        ELSE /\ freeblock' = x.next
             /\ dinode' = [dinode EXCEPT ![i] = [size |-> off + n1, addrs |-> x.addrs]]
             /\ indirect' = IF x.ind = 0 \/ indirect[x.ind][f - NDIRECT] # 0 THEN indirect
                            ELSE [indirect EXCEPT ![x.ind][f - NDIRECT] = x.next - 1]
             /\ todo' = IF n1 = n THEN Tail(todo) ELSE <<<<i, n - n1>>>> \o Tail(todo)
             /\ UNCHANGED mpc
    BY <1>3, <1>4, <1>6, <1>7, <1>8, Zenon DEF iappend
  <2>2. mpc' # "failed"
    OBVIOUS
  <2> QED
    BY <2>1, <2>2, Zenon
<1>10. f \in 0..MAXFILE - 1
  BY <1>9, MkfsSizes
<1>11. Round(i, n, off, f, n1)
  BY <1>1, <1>3, <1>4, <1>5, <1>6, <1>7, <1>9, Zenon DEF Round
<1>12. PlacesAt(i, f, x) /\ WritesTo(i, off + n1, x.addrs)
  BY <1>8, <1>9, Zenon DEF PlacesAt, WritesTo
<1> QED
  BY <1>7, <1>10, <1>11, <1>12, Zenon

(* Whatever it finds in the map, a round gives out the blocks it takes     *)
(* once.                                                                   *)
LEMMA RoundPlaces ==
  ASSUME ImageSizes, FilesInv, NEW i \in Inode, NEW f \in 0..MAXFILE - 1, NEW s \in Nat, NEW x,
         PlacesAt(i, f, x), WritesTo(i, s, x.addrs)
  PROVE  Placing(i, f)
PROOF
<1>0. /\ x = Placed(i, f) /\ ~(x.next > FSSIZE) /\ freeblock' = x.next
      /\ x.ind = 0 => indirect' = indirect
      /\ indirect[x.ind][f - NDIRECT] # 0 => indirect' = indirect
      /\ x.ind # 0 /\ indirect[x.ind][f - NDIRECT] = 0 =>
           indirect' = [indirect EXCEPT ![x.ind][f - NDIRECT] = x.next - 1]
  BY Zenon DEF PlacesAt
<1>1. DiskTypes /\ GivenOut(Map, freeblock) /\ Blank
  BY DEF FilesInv, MkfsTypes
<1>2. PICK d \in Nat, e \in Nat, m \in Nat, n \in Nat, b \in Nat :
        /\ d = NDIRECT /\ e = NINDIRECT /\ m = MAXFILE /\ m = d + e /\ d < m /\ n = FSSIZE
        /\ b = freeblock /\ 2 <= b /\ b <= n
  BY <1>1, MkfsSizes DEF DiskTypes
<1>3. f \in Slot /\ f \in Nat /\ f # MAXFILE /\ f < m
  BY <1>2 DEF Slot
<1>4. PICK a \in [0..d -> 0..n] : a = dinode[i].addrs
  BY <1>1, <1>2 DEF DiskTypes
<1>5. CASE f < NDIRECT
  <2>1. b = freeblock /\ f < NDIRECT
    BY <1>2, <1>5
  <2>2. Map[<<i, f>>] = a[f]
    BY <1>3, <1>4, <1>5, MapIs
  <2>3. CASE a[f] # 0
    <3>0. x = [addrs |-> a, ind |-> 0, next |-> freeblock]
      BY <1>0, <1>4, <2>1, <2>3, PlacedThere, Zenon
    <3>1. x.addrs = a /\ x.ind = 0 /\ x.next = b
      BY <2>1, <3>0
    <3>2. UNCHANGED <<indirect, freeblock>> /\ WritesTo(i, s, dinode[i].addrs)
      BY <1>0, <1>2, <1>4, <3>1
    <3> QED
      BY <2>2, <2>3, <3>2, PlaceFound
  <2>4. CASE a[f] = 0
    <3>0. x = [addrs |-> [a EXCEPT ![f] = freeblock], ind |-> 0, next |-> freeblock + 1]
      <4>1. Placed(i, f) = [addrs |-> [a EXCEPT ![f] = freeblock], ind |-> 0,
                            next |-> freeblock + 1]
        BY <1>4, <2>1, <2>4, PlacedDirect, SMT
      <4> QED
        BY <1>0, <4>1, Zenon
    <3>1. x.addrs = [a EXCEPT ![f] = b] /\ x.ind = 0 /\ x.next = b + 1
      BY <2>1, <3>0
    <3>2. UNCHANGED indirect /\ freeblock' = freeblock + 1 /\ freeblock + 1 <= FSSIZE
      BY <1>0, <1>2, <3>1
    <3>3. WritesTo(i, s, [dinode[i].addrs EXCEPT ![f] = freeblock])
      BY <1>2, <1>4, <3>1
    <3> QED
      BY <1>4, <1>5, <2>4, <3>2, <3>3, PlaceDirect
  <2> QED
    BY <2>3, <2>4
<1>6. CASE ~(f < NDIRECT) /\ a[d] # 0
  <2>1. PICK c \in 0..n : c = a[d] /\ c # 0
    BY <1>6
  <2>2. x = [addrs |-> [a EXCEPT ![d] = c], ind |-> c,
             next |-> IF indirect[c][f - NDIRECT] = 0 THEN b + 1 ELSE b]
    <3>1. d = NDIRECT /\ b = freeblock /\ a[NDIRECT] = c /\ a[NDIRECT] # 0
      BY <1>2, <2>1
    <3>2. ~(f < NDIRECT)
      BY <1>6
    <3>3. Placed(i, f) =
            [addrs |-> [a EXCEPT ![NDIRECT] = a[NDIRECT]], ind |-> a[NDIRECT],
             next |-> IF indirect[a[NDIRECT]][f - NDIRECT] = 0 THEN freeblock + 1 ELSE freeblock]
      BY <1>4, <3>1, <3>2, PlacedIndirect, Zenon
    <3> QED
      BY <1>0, <3>1, <3>2, <3>3, Zenon
  <2>3. x.addrs = [a EXCEPT ![d] = c] /\ x.ind = c
        /\ x.next = IF indirect[c][f - NDIRECT] = 0 THEN b + 1 ELSE b
    BY <2>2
  <2>4. x.addrs = a
    BY <2>1, <2>3
  <2>5. c = dinode[i].addrs[NDIRECT] /\ WritesTo(i, s, dinode[i].addrs) /\ f >= NDIRECT
    BY <1>2, <1>3, <1>4, <1>6, <2>1, <2>4
  <2>6. CASE indirect[c][f - NDIRECT] # 0
    <3>1. Map[<<i, f>>] # 0
      BY <1>3, <2>1, <2>5, <2>6, MapIs
    <3>2. UNCHANGED <<indirect, freeblock>>
      BY <1>0, <1>2, <2>3, <2>6
    <3> QED
      BY <2>5, <3>1, <3>2, PlaceFound
  <2>7. CASE indirect[c][f - NDIRECT] = 0
    <3>1. freeblock' = freeblock + 1 /\ freeblock + 1 <= FSSIZE
      BY <1>0, <1>2, <2>3, <2>7
    <3>2. x.next = freeblock'
      BY <1>0
    <3>3. PutsIn(c, f)
      BY <1>0, <2>1, <2>3, <2>7, <3>2, Zenon DEF PutsIn
    <3> QED
      BY <2>1, <2>5, <2>7, <3>1, <3>3, PlaceIndirect
  <2> QED
    BY <2>6, <2>7
<1>7. CASE ~(f < NDIRECT) /\ a[d] = 0
  <2>1. x = [addrs |-> [a EXCEPT ![d] = b], ind |-> b,
             next |-> IF indirect[b][f - NDIRECT] = 0 THEN b + 1 + 1 ELSE b + 1]
    <3>1. d = NDIRECT /\ b = freeblock /\ a[NDIRECT] = 0
      BY <1>2, <1>7
    <3>2. ~(f < NDIRECT)
      BY <1>7
    <3>3. Placed(i, f) =
            [addrs |-> [a EXCEPT ![NDIRECT] = freeblock], ind |-> freeblock,
             next |-> IF indirect[freeblock][f - NDIRECT] = 0 THEN freeblock + 1 + 1
                      ELSE freeblock + 1]
      BY <1>4, <3>1, <3>2, PlacedBoth, Zenon
    <3> QED
      BY <1>0, <3>1, <3>3, Zenon
  <2>2. indirect[b][f - NDIRECT] = 0
    <3>1. b \in 0..FSSIZE /\ b >= freeblock /\ f - NDIRECT \in 0..NINDIRECT - 1
      BY <1>2, <1>3, <1>7
    <3> QED
      BY <1>1, <3>1, Zenon DEF Blank
  <2>3. x.addrs = [a EXCEPT ![d] = b] /\ x.ind = b /\ x.next = b + 1 + 1
    BY <2>1, <2>2
  <2>4. freeblock' = freeblock + 2 /\ freeblock + 2 <= FSSIZE /\ f >= NDIRECT /\ b # 0
    BY <1>0, <1>2, <1>3, <1>7, <2>3
  <2>5. WritesTo(i, s, [dinode[i].addrs EXCEPT ![NDIRECT] = freeblock])
    BY <1>2, <1>4, <2>3
  <2>6. PutsIn(b, f)
    <3>1. x.next = freeblock'
      BY <1>0
    <3> QED
      BY <1>0, <2>2, <2>3, <2>4, <3>1, Zenon DEF PutsIn
  <2>7. dinode[i].addrs[NDIRECT] = 0 /\ PutsIn(freeblock, f)
    BY <1>2, <1>4, <1>7, <2>6
  <2> QED
    BY <2>4, <2>5, <2>7, PlaceBoth
<1> QED
  BY <1>5, <1>6, <1>7

(* A round fills the block that it placed at most up to its end, so that   *)
(* the size still tells which blocks are there.                            *)
LEMMA RoundPresent ==
  ASSUME ImageSizes, Present, NEW i \in Inode, NEW f \in 0..MAXFILE - 1,
         NEW off \in Nat, NEW n1 \in Nat \ {0}, off = dinode[i].size,
         f * BSIZE <= off, off < f * BSIZE + BSIZE, off + n1 <= f * BSIZE + BSIZE,
         Placing(i, f), dinode'[i].size = off + n1,
         \A j \in Inode \ {i} : dinode'[j].size = dinode[j].size
  PROVE  Present'
PROOF
<1> SUFFICES ASSUME NEW j \in Inode, NEW k \in 0..MAXFILE - 1
             PROVE  Map'[<<j, k>>] # 0 <=> k * BSIZE < dinode'[j].size
  BY Zenon DEF Present, Inode
<1>1. PICK s \in Nat \ {0}, m \in Nat : s = BSIZE /\ m = MAXFILE
  BY MkfsSizes
<1>2. PICK x \in Int, z \in Int : x = f * BSIZE /\ z = k * BSIZE
  BY <1>1
<1>3. Map[<<j, k>>] # 0 <=> z < dinode[j].size
  BY <1>2 DEF Present
<1>4. k < f => z + s <= x
  BY <1>1, <1>2, MkfsProduct
<1>5. f < k => x + s <= z
  BY <1>1, <1>2, MkfsProduct
<1>6. <<j, k>> # <<i, f>> => Map'[<<j, k>>] = Map[<<j, k>>]
  BY DEF Placing
<1>7. CASE j # i
  BY <1>2, <1>3, <1>6, <1>7
<1>8. CASE j = i /\ k = f
  <2>1. Map'[<<j, k>>] # 0
    BY <1>8 DEF Placing
  <2>2. z = x
    BY <1>2, <1>8
  <2> QED
    BY <1>2, <1>8, <2>1, <2>2
<1>9. CASE j = i /\ k # f
  <2>0. k \in Int /\ f \in Int
    BY <1>1
  <2>1. k < f \/ f < k
    BY <1>9, <2>0
  <2>2. Map'[<<j, k>>] = Map[<<j, k>>]
    BY <1>6, <1>9
  <2>3. z < off <=> z < off + n1
    BY <1>1, <1>2, <1>4, <1>5, <2>1
  <2>4. dinode[j].size = off /\ dinode'[j].size = off + n1
    BY <1>9
  <2> QED
    BY <1>2, <1>3, <2>2, <2>3, <2>4, Zenon
<1> QED
  BY <1>7, <1>8, <1>9

(* What a round has appended is no more to do.                             *)
LEMMA RoundTodo ==
  ASSUME ImageSizes, MkfsTypes, RootSize, NEW i \in Inode, NEW n \in Nat \ {0}, NEW off \in Nat,
         NEW f \in 0..MAXFILE - 1, NEW n1 \in Nat \ {0}, Round(i, n, off, f, n1), n1 <= n,
         dinode'[i].size = off + n1, \A j \in Inode \ {i} : dinode'[j].size = dinode[j].size,
         freeinode' = freeinode
  PROVE  RootSize' /\ todo' \in Seq(Inode \X (Nat \ {0}))
PROOF
<1>1. /\ todo # <<>> /\ i = Head(todo)[1] /\ n = Head(todo)[2] /\ off = dinode[i].size
      /\ todo' = IF n1 = n THEN Tail(todo) ELSE <<<<i, n - n1>>>> \o Tail(todo)
  BY DEF Round
<1>2. PICK l \in Nat \ {0} : l = Len(todo)
  BY <1>1 DEF MkfsTypes
<1>3. /\ todo \in Seq(Inode \X (Nat \ {0})) /\ Head(todo) = todo[1]
      /\ Tail(todo) \in Seq(Inode \X (Nat \ {0})) /\ Len(Tail(todo)) = l - 1
      /\ \A k \in 1..l - 1 : Tail(todo)[k] = todo[k + 1]
  BY <1>1, <1>2 DEF MkfsTypes
<1>4. \A k \in 1..l : todo[k][2] \in Nat
  BY <1>2, <1>3
<1>5. 1 \in Inode /\ dinode[1].size \in Nat
  <2>1. 1 \in Inode
    BY MkfsSizes DEF Inode
  <2>2. dinode \in [Inode -> [size : Nat, addrs : [0..NDIRECT -> 0..FSSIZE]]]
    BY DEF MkfsTypes, DiskTypes
  <2> QED
    BY <2>1, <2>2
<1>6. PICK z \in Nat, t \in Int : z = dinode[1].size /\ t = freeinode * DIRENT
  <2>1. freeinode \in Int /\ DIRENT \in Int
    BY MkfsSizes DEF MkfsTypes
  <2>2. freeinode * DIRENT \in Int
    BY <2>1
  <2> QED
    BY <1>5, <2>2
<1>7. PICK z1 \in Int : z1 = dinode'[1].size /\ z1 = IF i = 1 THEN z + n1 ELSE z
  <2>1. i = 1 => dinode'[1].size = z + n1
    BY <1>1, <1>6
  <2>2. i # 1 => dinode'[1].size = z
    BY <1>5, <1>6
  <2> QED
    BY <2>1, <2>2
<1>8. PICK r1 \in Nat : r1 = RootBytes(1) /\ r1 = IF i = 1 THEN n ELSE 0
  <2>1. 1 <= Len(todo) /\ todo[1][1] = i /\ todo[1][2] = n
    BY <1>1, <1>2, <1>3
  <2>2. RootBytes(1) = IF i = 1 THEN n ELSE 0
    BY <2>1, Zenon DEF RootBytes, ROOTINO
  <2> QED
    BY <2>2
<1>9. PICK r2 \in Nat : r2 = RootBytes(2) /\ r2 = IF 2 <= l /\ todo[2][1] = 1 THEN todo[2][2] ELSE 0
  <2>1. RootBytes(2) = IF 2 <= l /\ todo[2][1] = 1 THEN todo[2][2] ELSE 0
    BY <1>2, Zenon DEF RootBytes, ROOTINO
  <2>2. 2 <= l => todo[2][2] \in Nat
    BY <1>2, <1>4
  <2> QED
    BY <2>1, <2>2
<1>10. z + r1 + r2 = t /\ \A k \in 3..l : todo[k][1] # 1
  BY <1>2, <1>6, <1>8, <1>9 DEF RootSize, ROOTINO
<1>11. CASE n1 = n
  <2>1. todo' = Tail(todo)
    BY <1>1, <1>11
  <2>2. Len(todo') = l - 1 /\ \A k \in 1..l - 1 : todo'[k] = todo[k + 1]
    BY <1>3, <2>1
  <2>3. RootBytes(1)' = r2
    <3>1. CASE l = 1
      BY <1>9, <2>2, <3>1 DEF RootBytes
    <3>2. CASE l >= 2
      <4>1. todo'[1] = todo[2] /\ 1 <= Len(todo') /\ 2 <= l
        BY <2>2, <3>2
      <4> QED
        BY <1>9, <4>1, Zenon DEF RootBytes, ROOTINO
    <3> QED
      BY <3>1, <3>2
  <2>4. \A k \in 2..Len(todo') : todo'[k][1] # 1
    <3> SUFFICES ASSUME NEW k \in 2..Len(todo') PROVE todo'[k][1] # 1
      OBVIOUS
    <3>1. k \in 1..l - 1 /\ k + 1 \in 3..l
      BY <2>2
    <3> QED
      BY <1>10, <2>2, <3>1
  <2>5. RootBytes(2)' = 0
    <3>1. 2 <= Len(todo') => 2 \in 2..Len(todo')
      BY <2>2
    <3> QED
      BY <2>4, <3>1, Zenon DEF RootBytes, ROOTINO
  <2>6. z1 + r2 + 0 = t
    BY <1>7, <1>8, <1>10, <1>11
  <2>7. \A k \in 3..Len(todo') : todo'[k][1] # 1
    BY <2>2, <2>4
  <2>8. RootSize'
    BY <1>6, <1>7, <2>3, <2>5, <2>6, <2>7, Zenon DEF RootSize, ROOTINO
  <2> QED
    BY <1>3, <2>1, <2>8
<1>12. CASE n1 # n
  <2>0. PICK h \in Seq(Inode \X (Nat \ {0})) :
          h = <<<<i, n - n1>>>> /\ Len(h) = 1 /\ h[1] = <<i, n - n1>>
    <3>0. n - n1 \in Nat \ {0}
      BY <1>12
    <3>1. PICK y \in Inode \X (Nat \ {0}) : y = <<i, n - n1>>
      BY <3>0
    <3>2. <<y>> \in Seq(Inode \X (Nat \ {0})) /\ Len(<<y>>) = 1 /\ <<y>>[1] = y
      OBVIOUS
    <3> QED
      BY <3>1, <3>2
  <2>1. todo' = h \o Tail(todo)
    BY <1>1, <1>12, <2>0
  <2>2. /\ todo' \in Seq(Inode \X (Nat \ {0})) /\ Len(todo') = l /\ todo'[1] = <<i, n - n1>>
        /\ \A k \in 2..l : todo'[k] = Tail(todo)[k - 1]
    BY <1>2, <1>3, <2>0, <2>1
  <2>3. \A k \in 2..l : todo'[k] = todo[k]
    <3> SUFFICES ASSUME NEW k \in 2..l PROVE todo'[k] = todo[k]
      OBVIOUS
    <3>1. k - 1 \in 1..l - 1 /\ k - 1 + 1 = k
      BY <1>2
    <3> QED
      BY <1>3, <2>2, <3>1
  <2>4. RootBytes(1)' = IF i = 1 THEN n - n1 ELSE 0
    <3>1. 1 <= Len(todo') /\ todo'[1][1] = i /\ todo'[1][2] = n - n1
      BY <1>2, <2>2
    <3> QED
      BY <3>1, Zenon DEF RootBytes, ROOTINO
  <2>5. RootBytes(2)' = r2
    <3>1. 2 <= l => todo'[2] = todo[2]
      BY <1>2, <2>3
    <3> QED
      BY <1>9, <2>2, <3>1, Zenon DEF RootBytes, ROOTINO
  <2>6. PICK y \in Int : y = RootBytes(1)' /\ z1 + y + r2 = t
    <3>1. PICK y \in Int : y = IF i = 1 THEN n - n1 ELSE 0
      OBVIOUS
    <3>2. z1 + y + r2 = t
      BY <1>7, <1>8, <1>10, <3>1
    <3> QED
      BY <2>4, <3>1, <3>2
  <2>7. \A k \in 3..Len(todo') : todo'[k][1] # 1
    BY <1>2, <1>10, <2>2, <2>3
  <2>8. RootSize'
    BY <1>6, <1>7, <2>5, <2>6, <2>7, Zenon DEF RootSize, ROOTINO
  <2> QED
    BY <2>2, <2>8
<1> QED
  BY <1>11, <1>12

(* One round of iappend                                                    *)
LEMMA AppendKeeps ==
  ASSUME ImageSizes, FilesInv, iappend, mpc' = "files"
  PROVE  FilesInv'
PROOF
<1>0. MkfsTypes /\ RootSize /\ Present
  BY DEF FilesInv
<1>a. PICK i \in Inode, n \in Nat \ {0}, off \in Nat, f \in 0..MAXFILE - 1, n1 \in Nat \ {0} :
        /\ Round(i, n, off, f, n1) /\ n1 <= n
        /\ \E x : PlacesAt(i, f, x) /\ WritesTo(i, off + n1, x.addrs)
  BY RoundIs
<1>b. PICK x : PlacesAt(i, f, x) /\ WritesTo(i, off + n1, x.addrs)
  BY <1>a
<1>1. /\ Round(i, n, off, f, n1) /\ n1 <= n
      /\ PlacesAt(i, f, x) /\ WritesTo(i, off + n1, x.addrs)
  BY <1>a, <1>b
<1>2. off + n1 \in Nat
  OBVIOUS
<1>3. Placing(i, f)
  BY <1>1, <1>2, RoundPlaces
<1>4. dinode'[i].size = off + n1 /\ \A j \in Inode \ {i} : dinode'[j].size = dinode[j].size
  <2>1. dinode' = [dinode EXCEPT ![i] = [size |-> off + n1, addrs |-> x.addrs]]
    BY <1>1 DEF WritesTo
  <2>2. dinode \in [Inode -> [size : Nat, addrs : [0..NDIRECT -> 0..FSSIZE]]]
    BY <1>0 DEF MkfsTypes, DiskTypes
  <2> QED
    BY <2>1, <2>2
<1>5. freeinode' = freeinode
  BY DEF iappend
<1>6. RootSize' /\ todo' \in Seq(Inode \X (Nat \ {0}))
  BY <1>0, <1>1, <1>4, <1>5, RoundTodo
<1>7. Present'
  <2>1. /\ off = dinode[i].size /\ f * BSIZE <= off /\ off < f * BSIZE + BSIZE
        /\ off + n1 <= f * BSIZE + BSIZE
    BY <1>1 DEF Round
  <2> QED
    BY <1>0, <1>3, <1>4, <2>1, RoundPresent
<1>8. DiskTypes' /\ GivenOut(Map, freeblock)' /\ Blank'
  BY <1>3 DEF Placing
<1>9. MkfsTypes'
  <2>1. freeinode \in 2..NINODES + 1
    BY <1>0 DEF MkfsTypes
  <2>2. Inode' = Inode
    BY DEF Inode
  <2> QED
    BY <1>5, <1>6, <1>8, <2>1, <2>2, Zenon DEF MkfsTypes
<1> QED
  BY <1>6, <1>7, <1>8, <1>9 DEF FilesInv

-----------------------------------------------------------------------------
(* The end *)

(* The size of the root directory is rounded up, by a block if it is even. *)
LEMMA Rounded ==
  ASSUME NEW m \in Nat \ {0}, NEW size \in Nat, NEW k \in Nat,
         NEW last \in Int, last = (size \div m + 1) * m
  PROVE  k * m < size <=> k * m < last /\ ~(size % m = 0 /\ (k + 1) * m = last)
PROOF
<1>1. PICK c \in Nat, r \in Nat : c = size \div m /\ r = size % m /\ r < m
  BY MkfsDivided
<1>2. size = c * m + r
  BY <1>1, MkfsDivided, Zenon
<1>3. PICK x \in Int, y \in Int : x = c * m /\ y = k * m
  OBVIOUS
<1>4. (k + 1) * m = y + m
  BY <1>3
<1>5. (c + 1) * m = x + m
  BY <1>3
<1>6. last = x + m
  BY <1>1, <1>5
<1>7. k < c => y + m <= x
  BY <1>3, MkfsProduct
<1>8. c < k => x + m <= y
  BY <1>3, MkfsProduct
<1>9. k = c => x = y
  BY <1>3
<1>10. k < c \/ k = c \/ c < k
  OBVIOUS
<1>11. size = x + r
  BY <1>2, <1>3
<1>12. y < size <=> y < last /\ ~(r = 0 /\ y + m = last)
  BY <1>1, <1>6, <1>7, <1>8, <1>9, <1>10, <1>11
<1> QED
  BY <1>1, <1>3, <1>4, <1>12

LEMMA EndSizes ==
  ASSUME ImageSizes, FilesInv, finish
  PROVE  /\ dinode'[1].size = (dinode[1].size \div BSIZE + 1) * BSIZE
         /\ \A j \in Inode : j # 1 => dinode'[j].size = dinode[j].size
         /\ \A j \in Inode : dinode'[j].addrs = dinode[j].addrs
PROOF
<1>1. dinode \in [Inode -> [size : Nat, addrs : [0..NDIRECT -> 0..FSSIZE]]] /\ 1 \in Inode
  <2>1. 1 \in Inode
    BY MkfsSizes DEF Inode
  <2> QED
    BY <2>1 DEF FilesInv, MkfsTypes, DiskTypes
<1>2. PICK z : z = (dinode[1].size \div BSIZE + 1) * BSIZE
  OBVIOUS
<1>3. dinode' = [dinode EXCEPT ![1].size = z]
  BY <1>2 DEF finish, ROOTINO
<1>4. dinode'[1] = [dinode[1] EXCEPT !.size = z]
  BY <1>1, <1>3
<1>5. \A j \in Inode : j # 1 => dinode'[j] = dinode[j]
  BY <1>1, <1>3
<1>6. dinode'[1].size = z /\ dinode'[1].addrs = dinode[1].addrs
  BY <1>1, <1>4
<1> QED
  BY <1>2, <1>5, <1>6, Zenon

(* A block that was given out has one owner, the others have none.         *)
LEMMA EndOwners ==
  ASSUME ImageSizes, NEW m, NEW n \in nmeta..FSSIZE, GivenOut(m, n), NEW b \in 0..FSSIZE - 1,
         NEW owners, owners = {q \in Inode \X Slot : m[q] = b /\ b # 0}
  PROVE  IF b < nmeta THEN b \in 0..n - 1 /\ owners = {}
         ELSE Cardinality(owners) = IF b \in 0..n - 1 THEN 1 ELSE 0
PROOF
<1>0. nmeta \in Nat /\ n \in Nat /\ b \in Nat /\ nmeta <= n /\ 2 <= nmeta
  BY MkfsSizes
<1>1. /\ \A q \in Inode \X Slot : m[q] = 0 \/ m[q] \in nmeta..n - 1
      /\ \A u \in nmeta..n - 1 : \E q \in Inode \X Slot : m[q] = u
      /\ \A q \in Inode \X Slot, u \in Inode \X Slot : m[q] = m[u] /\ m[q] # 0 => q = u
  BY DEF GivenOut
<1>2. CASE b \notin nmeta..n - 1
  <2>1. owners = {}
    <3>1. ASSUME NEW q \in Inode \X Slot, m[q] = b, b # 0 PROVE FALSE
      <4>1. m[q] = 0 \/ m[q] \in nmeta..n - 1
        BY <1>1, Zenon
      <4> QED
        BY <1>2, <3>1, <4>1, Zenon
    <3> QED
      BY <3>1, Zenon
  <2>2. Cardinality(owners) = 0
    BY <2>1, FS_EmptySet
  <2> QED
    BY <1>0, <1>2, <2>1, <2>2
<1>3. CASE b \in nmeta..n - 1
  <2>1. b # 0 /\ ~(b < nmeta) /\ b \in 0..n - 1
    BY <1>0, <1>3
  <2>2. PICK q \in Inode \X Slot : m[q] = b
    BY <1>1, <1>3, Zenon
  <2>3. owners = {q}
    <3>1. \A u \in Inode \X Slot : m[u] = b => u = q
      BY <1>1, <2>1, <2>2, Zenon
    <3>2. \A u \in owners : u = q
      BY <3>1
    <3>3. q \in owners
      BY <2>1, <2>2
    <3> QED
      BY <3>2, <3>3, Zenon
  <2>4. Cardinality(owners) = 1
    BY <2>3, FS_Singleton
  <2> QED
    BY <2>1, <2>4
<1> QED
  BY <1>2, <1>3

(* The inodes lie between the log and the bitmap.                          *)
LEMMA InodesFit ==
  ASSUME ImageSizes, NEW i \in Inode
  PROVE  IBLOCK(i) \in inodestart..bmapstart - 1
PROOF
<1>1. PICK p \in Nat \ {0}, n \in Nat, l \in Nat : p = IPB /\ n = NINODES /\ l = LOGSIZE
  BY DEF ImageSizes
<1>2. PICK a \in Nat, c \in Nat, r \in Nat :
        a = i \div p /\ c = n \div p /\ r = n % p /\ r < p /\ i \in Nat /\ i <= n
  <2>1. i \in Nat /\ i <= n
    BY <1>1 DEF Inode
  <2>2. i \div p \in Nat
    BY <2>1, MkfsDivided
  <2>3. n \div p \in Nat /\ n % p \in Nat /\ n % p < p
    BY MkfsDivided
  <2> QED
    BY <2>1, <2>2, <2>3
<1>3. n = c * p + r
  BY <1>2, MkfsDivided, Zenon
<1>4. PICK t \in Nat : t = i % p /\ i = a * p + t
  BY <1>2, MkfsDivided, Zenon
<1>5. PICK x \in Int, y \in Int : x = a * p /\ y = c * p
  OBVIOUS
<1>6. c < a => y + p <= x
  BY <1>5, MkfsProduct
<1>7. a <= c
  BY <1>2, <1>3, <1>4, <1>5, <1>6
<1>8. IBLOCK(i) = a + (2 + l) /\ inodestart = 2 + l
  BY <1>1, <1>2 DEF IBLOCK, inodestart
<1>9. bmapstart = 2 + l + (c + 1)
  BY <1>1, <1>2 DEF bmapstart, ninodeblocks, inodestart
<1> QED
  BY <1>7, <1>8, <1>9

(* The bitmap marks the blocks that were given out.                        *)
LEMMA FinishSound ==
  ASSUME ImageSizes, FilesInv, finish, mpc' = "done"
  PROVE  ImageSound'
PROOF
<1>0. MkfsTypes /\ DiskTypes /\ GivenOut(Map, freeblock) /\ Present /\ RootSize
  BY DEF FilesInv, MkfsTypes
<1>1. todo = <<>> /\ indirect' = indirect /\ freeinode' = freeinode /\ bitmap' = 0..freeblock - 1
  BY DEF finish, Files, Marked
<1>2. PICK s \in Nat \ {0}, m \in Nat, z \in Nat, e \in Int :
        /\ s = BSIZE /\ m = MAXFILE /\ z = dinode[1].size
        /\ e = dinode'[1].size /\ e = (z \div s + 1) * s
  <2>1. BSIZE \in Nat \ {0} /\ MAXFILE \in Nat /\ 1 \in Inode
    BY MkfsSizes DEF Inode
  <2>2. dinode[1].size \in Nat
    BY <1>0, <2>1 DEF DiskTypes
  <2>3. PICK s \in Nat \ {0}, z \in Nat : s = BSIZE /\ z = dinode[1].size
    BY <2>1, <2>2
  <2>4. PICK c \in Nat : c = z \div s
    BY MkfsDivided
  <2>5. (z \div s + 1) * s \in Int
    BY <2>4
  <2> QED
    BY <2>1, <2>3, <2>5, EndSizes
<1>3. Map' = Map
  <2>1. Map = [q \in Inode \X Slot |-> Map[q]]
    BY DEF Map
  <2>2. \A j \in Inode : dinode'[j].addrs = dinode[j].addrs
    BY EndSizes
  <2>3. \A j \in Inode, k \in Slot : Map'[<<j, k>>] = Map[<<j, k>>]
    <3> SUFFICES ASSUME NEW j \in Inode, NEW k \in Slot PROVE Map'[<<j, k>>] = Map[<<j, k>>]
      OBVIOUS
    <3> QED
      BY <1>1, <2>2, PlaceKept
  <2> QED
    BY <2>1, <2>3, MapNextIs, Zenon
<1>4. \A q \in Inode \X Slot : BlockIn(q)' = Map[q]
  <2>1. \A q \in Inode \X Slot : Map'[q] = BlockIn(q)'
    BY DEF Map
  <2> QED
    BY <1>3, <2>1
<1>5. ASSUME NEW b \in 0..FSSIZE - 1, NEW owners, owners = {q \in Places : BlockIn(q)' = b /\ b # 0}
      PROVE  IF b < nmeta THEN b \in bitmap' /\ owners = {}
             ELSE Cardinality(owners) = IF b \in bitmap' THEN 1 ELSE 0
  <2>1. owners = {q \in Inode \X Slot : Map[q] = b /\ b # 0}
    BY <1>4, <1>5, PlacesAre
  <2>2. freeblock \in nmeta..FSSIZE
    BY <1>0 DEF DiskTypes
  <2>3. IF b < nmeta THEN b \in 0..freeblock - 1 /\ owners = {}
        ELSE Cardinality(owners) = IF b \in 0..freeblock - 1 THEN 1 ELSE 0
    <3>1. PICK n \in nmeta..FSSIZE : n = freeblock
      BY <2>2, Zenon
    <3>1a. PICK g : g = Map
      OBVIOUS
    <3>2. GivenOut(g, n) /\ owners = {q \in Inode \X Slot : g[q] = b /\ b # 0}
      BY <1>0, <2>1, <3>1, <3>1a, Zenon
    <3>3. IF b < nmeta THEN b \in 0..n - 1 /\ owners = {}
          ELSE Cardinality(owners) = IF b \in 0..n - 1 THEN 1 ELSE 0
      BY <3>2, EndOwners
    <3> QED
      BY <3>1, <3>3, Zenon
  <2> QED
    BY <1>1, <2>3, Zenon
<1>6. \A i \in Inodes' : i \in Inode
  <2>1. freeinode \in 2..NINODES + 1 /\ NINODES \in Nat
    BY <1>0, MkfsSizes DEF MkfsTypes
  <2> QED
    BY <1>1, <2>1 DEF Inodes, Inode
<1>7. \A i \in Inodes' : IBLOCK(i) \in inodestart..bmapstart - 1
  BY <1>6, InodesFit
<1>8. ASSUME NEW i \in Inodes', NEW k \in 0..MAXFILE - 1, NEW hole \in BOOLEAN,
             hole <=> i = ROOTINO /\ (freeinode' * DIRENT) % BSIZE = 0
                      /\ (k + 1) * BSIZE = dinode'[i].size
      PROVE  BlockAt(i, k)' # 0 <=> k * BSIZE < dinode'[i].size /\ ~hole
  <2>1. i \in Inode /\ k \in Slot /\ k # MAXFILE /\ k \in Nat
    BY <1>2, <1>6 DEF Slot
  <2>2. BlockAt(i, k)' = Map[<<i, k>>]
    <3>1. BlockIn(<<i, k>>)' = BlockAt(i, k)'
      BY <2>1 DEF BlockIn
    <3> QED
      BY <1>4, <2>1, <3>1
  <2>3. Map[<<i, k>>] # 0 <=> k * BSIZE < dinode[i].size
    BY <1>0, <2>1 DEF Present
  <2>4. CASE i # 1
    <3>1. dinode'[i].size = dinode[i].size
      BY <2>1, <2>4, EndSizes
    <3>2. ~hole
      BY <1>8, <2>4 DEF ROOTINO
    <3> QED
      BY <2>2, <2>3, <3>1, <3>2, Zenon
  <2>5. CASE i = 1
    <3>1. z = freeinode' * DIRENT
      <4>1. RootBytes(1) = 0 /\ RootBytes(2) = 0
        BY <1>1 DEF RootBytes
      <4>2. z + 0 + 0 = freeinode * DIRENT
        BY <1>0, <1>2, <4>1, Zenon DEF RootSize, ROOTINO
      <4> QED
        BY <1>1, <4>2
    <3>2. k * s < z <=> k * s < e /\ ~(z % s = 0 /\ (k + 1) * s = e)
      BY <1>2, <2>1, Rounded
    <3>3. hole <=> z % s = 0 /\ (k + 1) * s = e
      BY <1>2, <1>8, <2>5, <3>1, Zenon DEF ROOTINO
    <3>4. dinode'[i].size = e /\ dinode[i].size = z /\ BSIZE = s
      BY <1>2, <2>5
    <3> QED
      BY <2>2, <2>3, <3>2, <3>3, <3>4, Zenon
  <2> QED
    BY <2>4, <2>5
<1> QED
  BY <1>5, <1>7, <1>8, Zenon DEF ImageSound

-----------------------------------------------------------------------------

(* However many files of whatever sizes are copied, and whatever the sizes *)
(* of the disk and its areas, the image that mkfs leaves is one the kernel *)
(* can start from: each block behind the first areas is in one place of    *)
(* one file if it is marked, in none if not; the inodes fit in their area; *)
(* and files have the blocks that their sizes tell, but for the last one   *)
(* of a root directory that fills its blocks (mkfs.c).                     *)
THEOREM ImageIsSound == MkfsSpec => []ImageSound
PROOF
<1>0. ImageSizes
  BY MkfsAssumption
<1>1. MkfsInit => MkfsInv
  BY <1>0, InitFiles DEF MkfsInv, ImageSound, MkfsInit
<1>2. MkfsInv /\ [MkfsNext]_mkvars => MkfsInv'
  <2> SUFFICES ASSUME MkfsInv, [MkfsNext]_mkvars PROVE MkfsInv'
    OBVIOUS
  <2>1. ASSUME NEW size \in FileSize, copy(size) PROVE MkfsInv'
    <3>1. mpc = "files" /\ mpc' = "files"
      BY <2>1 DEF copy, Files
    <3>2. FilesInv'
      BY <1>0, <2>1, <3>1, CopyKeeps DEF MkfsInv
    <3> QED
      BY <3>1, <3>2 DEF MkfsInv, ImageSound
  <2>2. CASE iappend
    <3>1. FilesInv
      BY <2>2 DEF MkfsInv, iappend
    <3>2. mpc' \in {"files", "failed"}
      BY <2>2 DEF iappend
    <3>3. mpc' = "files" => FilesInv'
      BY <1>0, <2>2, <3>1, AppendKeeps
    <3> QED
      BY <3>2, <3>3 DEF MkfsInv, ImageSound
  <2>3. CASE finish
    <3>1. FilesInv
      BY <2>3 DEF MkfsInv, finish, Files
    <3>2. mpc' \in {"done", "failed"}
      BY <2>3 DEF finish
    <3>3. mpc' = "done" => ImageSound'
      BY <1>0, <2>3, <3>1, FinishSound
    <3>4. mpc' # "done" => ImageSound'
      BY DEF ImageSound
    <3> QED
      BY <3>2, <3>3, <3>4 DEF MkfsInv
  <2>4. CASE UNCHANGED mkvars
    <3>1. ImageSound' <=> ImageSound
      BY <2>4 DEF mkvars, ImageSound, BlockIn, BlockAt, Inodes
    <3>2. FilesInv' <=> FilesInv
      BY <2>4 DEF mkvars, FilesInv, MkfsTypes, DiskTypes, GivenOut, Map, BlockIn, BlockAt,
                  Blank, Present, RootSize, RootBytes
    <3> QED
      BY <2>4, <3>1, <3>2 DEF MkfsInv, mkvars
  <2> QED
    BY <2>1, <2>2, <2>3, <2>4 DEF MkfsNext
<1>3. MkfsInv => ImageSound
  BY DEF MkfsInv
<1> QED
  BY <1>1, <1>2, <1>3, PTL DEF MkfsSpec
=============================================================================
