------------------------------- MODULE Mkfs ---------------------------------
(***************************************************************************)
(* The program that makes the image of the disk (mkfs.c).  Blocks and      *)
(* inodes are given out in order; the bitmap is written at the end, from   *)
(* the number of the next block.  Contents are left out: what matters is   *)
(* which block belongs to which file.  The command line names at most as   *)
(* many files as there are inodes, which the program does not test.        *)
(***************************************************************************)
EXTENDS Integers, Sequences, FiniteSets, FiniteSetsExt

CONSTANTS
  BSIZE, DIRENT,         \* sizes of a block and of a directory entry
  NDIRECT, NINDIRECT, IPB, NINODES, LOGSIZE,
  FSSIZE,                \* blocks on the disk
  FileSize               \* sizes of the files to be copied

VARIABLES
  mpc,                   \* where main is
  todo,                  \* calls of iappend to come: the inode and a length
  freeinode, freeblock,
  dinode,                \* inodes on the disk
  indirect,              \* block -> its pointers
  bitmap                 \* the bits that are set

mkvars == <<mpc, todo, freeinode, freeblock, dinode, indirect, bitmap>>

ROOTINO == 1
nbitmap == FSSIZE \div (BSIZE * 8) + 1
ninodeblocks == NINODES \div IPB + 1
inodestart == 2 + LOGSIZE
bmapstart == inodestart + ninodeblocks
nmeta == bmapstart + nbitmap
MAXFILE == NDIRECT + NINDIRECT
IBLOCK(i) == i \div IPB + inodestart     \* of fs.h, where winode puts inode i

(* The sizes for which the program makes an image: blocks and entries are  *)
(* not empty, and the first areas fit on the disk.                         *)
ImageSizes ==
  /\ BSIZE \in Nat \ {0} /\ DIRENT \in Nat \ {0} /\ NDIRECT \in Nat \ {0} /\ NINDIRECT \in Nat \ {0}
  /\ IPB \in Nat \ {0} /\ NINODES \in Nat \ {0} /\ LOGSIZE \in Nat
  /\ FSSIZE \in Nat /\ nmeta <= FSSIZE
  /\ FileSize \subseteq Nat
ASSUME MkfsAssumption == ImageSizes

(* Before the files: an empty disk, with the root directory being made *)
MkfsInit ==
  /\ mpc = "files"
  /\ todo = <<<<ROOTINO, DIRENT>>, <<ROOTINO, DIRENT>>>>
  /\ freeinode = ROOTINO + 1
  /\ freeblock = nmeta
  /\ dinode = [i \in 1..NINODES |-> [size |-> 0, addrs |-> [k \in 0..NDIRECT |-> 0]]]
  /\ indirect = [b \in 0..FSSIZE |-> [k \in 0..NINDIRECT - 1 |-> 0]]
  /\ bitmap = {}

Files == mpc = "files" /\ todo = <<>>

(* The next file: an inode and an entry for it, and the file in pieces of  *)
(* a block.                                                                *)
copy(size) ==
  /\ Files /\ freeinode <= NINODES
  /\ freeinode' = freeinode + 1
  /\ todo' = <<<<ROOTINO, DIRENT>>>> \o
       [k \in 1..(size + BSIZE - 1) \div BSIZE |-> <<freeinode, Min({BSIZE, size - (k - 1) * BSIZE})>>]
  /\ UNCHANGED <<mpc, freeblock, dinode, indirect, bitmap>>

(* The block of the file at fbn, and the next block to give out after it *)
Placed(i, fbn) ==
  LET d == dinode[i].addrs
      ind == IF d[NDIRECT] = 0 THEN freeblock ELSE d[NDIRECT]
      next == IF d[NDIRECT] = 0 THEN freeblock + 1 ELSE freeblock
  IN IF fbn < NDIRECT
     THEN IF d[fbn] # 0 THEN [addrs |-> d, ind |-> 0, next |-> freeblock]
          ELSE [addrs |-> [d EXCEPT ![fbn] = freeblock], ind |-> 0, next |-> freeblock + 1]
     ELSE [addrs |-> [d EXCEPT ![NDIRECT] = ind], ind |-> ind,
           next |-> IF indirect[ind][fbn - NDIRECT] = 0 THEN next + 1 ELSE next]

(* One round of iappend.  It fails for a file that is too long, and when a *)
(* block behind the end of the disk is read.                               *)
iappend ==
  LET i == Head(todo)[1]
      n == Head(todo)[2]
      off == dinode[i].size
      fbn == off \div BSIZE
      n1 == Min({n, (fbn + 1) * BSIZE - off})
      x == Placed(i, fbn)
  IN
  /\ mpc = "files" /\ todo # <<>>
  /\ IF fbn >= MAXFILE \/ x.next > FSSIZE
     THEN mpc' = "failed" /\ UNCHANGED <<todo, freeblock, dinode, indirect>>
     ELSE /\ freeblock' = x.next
          /\ dinode' = [dinode EXCEPT ![i] = [size |-> off + n1, addrs |-> x.addrs]]
          /\ indirect' = IF x.ind = 0 \/ indirect[x.ind][fbn - NDIRECT] # 0 THEN indirect
                         ELSE [indirect EXCEPT ![x.ind][fbn - NDIRECT] = x.next - 1]
          /\ todo' = IF n1 = n THEN Tail(todo) ELSE <<<<i, n - n1>>>> \o Tail(todo)
          /\ UNCHANGED mpc
  /\ UNCHANGED <<freeinode, bitmap>>

(* Mutant: the last block is forgotten. *)
Marked_Short(used) == 0..used - 2
Marked(used) == 0..used - 1

(* The end: the size of the root directory is rounded, a whole block more  *)
(* when it is even, and balloc writes one block of the bitmap.             *)
finish ==
  /\ Files
  /\ dinode' = [dinode EXCEPT ![ROOTINO].size = (@ \div BSIZE + 1) * BSIZE]
  /\ IF freeblock < BSIZE * 8
     THEN mpc' = "done" /\ bitmap' = Marked(freeblock)
     ELSE mpc' = "failed" /\ UNCHANGED bitmap
  /\ UNCHANGED <<todo, freeinode, freeblock, indirect>>

MkfsNext ==
  \/ \E size \in FileSize : copy(size)
  \/ iappend \/ finish
  \/ mpc \in {"done", "failed"} /\ UNCHANGED mkvars

-----------------------------------------------------------------------------
(* Properties *)

(* Where the kernel finds block fbn of inode i (bmap of fs.c), or 0 *)
BlockAt(i, fbn) ==
  LET ind == dinode[i].addrs[NDIRECT] IN
  IF fbn < NDIRECT THEN dinode[i].addrs[fbn]
  ELSE IF ind = 0 THEN 0 ELSE indirect[ind][fbn - NDIRECT]
Places == {<<i, k>> : i \in 1..NINODES, k \in 0..MAXFILE}
BlockIn(q) == IF q[2] = MAXFILE THEN dinode[q[1]].addrs[NDIRECT] ELSE BlockAt(q[1], q[2])
Inodes == 1..freeinode - 1

(* The image is one that the kernel's file system can start from: a block  *)
(* is marked in the bitmap if it belongs to the first areas of the disk or *)
(* to one file, and no block belongs to two; the inodes lie in their area; *)
(* and the blocks of a file are there up to its size, so that bmap need    *)
(* not allocate one in a read.  The exception is the last block of a root  *)
(* directory whose entries fill its blocks exactly.                        *)
ImageSound ==
  mpc = "done" =>
    /\ \A b \in 0..FSSIZE - 1 :
         LET owners == {q \in Places : BlockIn(q) = b /\ b # 0} IN
         IF b < nmeta THEN b \in bitmap /\ owners = {}
         ELSE Cardinality(owners) = IF b \in bitmap THEN 1 ELSE 0
    /\ \A i \in Inodes : IBLOCK(i) \in inodestart..bmapstart - 1
    /\ \A i \in Inodes, k \in 0..MAXFILE - 1 :
         LET hole == i = ROOTINO /\ (freeinode * DIRENT) % BSIZE = 0   \* freeinode entries
                     /\ (k + 1) * BSIZE = dinode[i].size
         IN BlockAt(i, k) # 0 <=> k * BSIZE < dinode[i].size /\ ~hole
=============================================================================
