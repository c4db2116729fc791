--------------------------------- MODULE Fs ---------------------------------
(***************************************************************************)
(* Inodes, the inode cache, directories, path lookup and the system calls  *)
(* on names (fs.c, sysfile.c).  A step is what happens between the ilock   *)
(* and the iunlock of an inode, or under icache.lock; only unlink and      *)
(* create keep the lock of a directory while they wait for a second one.   *)
(* iput gives up icache.lock in its middle and takes no inode lock: it is  *)
(* three steps.  The contents of files are FileData's subject, the log is  *)
(* Log's: the effects of a call, from begin_op to end_op, survive a crash  *)
(* once no call is open, so a crash always leads to a state with no call   *)
(* open, and it is modelled there.                                         *)
(***************************************************************************)
EXTENDS Naturals, Sequences, FiniteSets, FiniteSetsExt

CONSTANTS
  Proc, NoProc,
  NINODES,           \* inodes on the disk
  Name,              \* names besides "." and ".."
  Request,           \* calls, with one path or two; a leading "/" is an element of its own
  MaxLink,           \* bound on nlink: no call of link beyond it
  MaxCrash,          \* bound on the number of crashes
  AllocDuringIput    \* ialloc may take an inode that iput has freed on disk, but not yet in memory

ASSUME FsAssumption ==
  /\ NoProc \notin Proc /\ IsFiniteSet(Proc)
  /\ IsFiniteSet(Name) /\ Name \cap {"/", ".", ".."} = {}
  /\ NINODES \in Nat \ {0} /\ MaxLink \in Nat /\ MaxCrash \in Nat
  /\ AllocDuringIput \in BOOLEAN

ROOTINO == 1
Inum == 1..NINODES
Dots == {".", ".."}
Elem == Name \cup Dots
Type == {"none", "dir", "file", "dev"}
Call == {"open", "create", "mkdir", "mknod", "link", "unlink", "chdir"}
Path == {s \in Seq(Elem \cup {"/"}) : \A k \in DOMAIN s : s[k] = "/" => k = 1}

ASSUME RequestAssumption == \A r \in Request : r.op \in Call /\ r.path \in Path /\ r.new \in Path

(* The calls whose path names a file to be made or removed in a directory *)
OfParent == {"create", "mkdir", "mknod", "unlink"}

VARIABLES
  din, dir,                   \* the disk, seen through the buffer cache: inodes, directory entries
  inode, valid, ref, lock,    \* the inode cache entry of an inum
  c,                          \* of each process: its call
  put, stage,                 \* the inodes it has still to iput, and where it is in iput
  cwd, file,                  \* its directory, and the inode of its open file (0: none)
  orphans, removed,           \* history: see NoLeak and LinkCounts
  crashes, panic

disk == <<din, dir>>
cache == <<inode, valid, ref, lock>>
hist == <<orphans, removed, crashes>>
vars == <<din, dir, inode, valid, ref, lock, c, put, stage, cwd, file, orphans, removed,
          crashes, panic>>

Idle == [pc |-> "idle", op |-> "none", at |-> 0, path |-> <<>>, ip |-> 0, new |-> <<>>]
NoEntry == [e \in Elem |-> 0]
Free == [type |-> "none", nlink |-> 0]

(* What is left in memory by a boot: the first process has the root as its *)
(* directory, and its children inherit it.                                 *)
Booted ==
  /\ inode = [i \in Inum |-> Free]
  /\ valid = [i \in Inum |-> FALSE]
  /\ ref = [i \in Inum |-> IF i = ROOTINO THEN Cardinality(Proc) ELSE 0]
  /\ lock = [i \in Inum |-> NoProc]
  /\ c = [p \in Proc |-> Idle]
  /\ put = [p \in Proc |-> <<>>]
  /\ stage = [p \in Proc |-> "test"]
  /\ cwd = [p \in Proc |-> ROOTINO]
  /\ file = [p \in Proc |-> 0]

(* The disk as mkfs leaves it, with an empty root directory *)
Init ==
  /\ din = [i \in Inum |-> IF i = ROOTINO THEN [type |-> "dir", nlink |-> 1] ELSE Free]
  /\ dir = [i \in Inum |-> [e \in Elem |-> IF i = ROOTINO /\ e \in Dots THEN i ELSE 0]]
  /\ Booted
  /\ orphans = {} /\ removed = {} /\ crashes = 0
  /\ panic = ""

-----------------------------------------------------------------------------
(* The inode cache *)

(* ilock returns once nobody else has the lock; it reads the inode if the  *)
(* entry is not valid, and panics if it then has no type.                  *)
Unlocked(i) == lock[i] = NoProc
CanLock(i) == Unlocked(i) /\ (valid[i] \/ din[i].type # "none")
Locked(i) == IF valid[i] THEN inode[i] ELSE din[i]
iunlock(i) == lock' = [lock EXCEPT ![i] = NoProc]

(* Mutant: no reference is taken. *)
iget_NoRef(i) == UNCHANGED ref

(* iget, or idup: an entry that had no reference is not valid.  There is   *)
(* an entry for every inode: with fewer than the inodes in use iget panics *)
(* ("iget: no inodes"), which is not modelled.                             *)
iget(i) == ref' = [ref EXCEPT ![i] = @ + 1]

(* ilock(i), fields set to new, iunlock: iupdate follows every change. *)
load(i) == valid' = [valid EXCEPT ![i] = TRUE] /\ inode' = [inode EXCEPT ![i] = Locked(i)]
store(new) ==
  /\ valid' = [i \in Inum |-> valid[i] \/ i \in DOMAIN new]
  /\ inode' = [i \in Inum |-> IF i \in DOMAIN new THEN new[i] ELSE inode[i]]
  /\ din' = [i \in Inum |-> IF i \in DOMAIN new THEN new[i] ELSE din[i]]

(* The first inode without a type *)
FreeInodes ==
  {i \in Inum : din[i].type = "none"
                /\ (AllocDuringIput \/ \A p \in Proc : stage[p] = "clear" => Head(put[p]) # i)}
ialloc == Min(FreeInodes)

(* The three steps of iput: the test under icache.lock; itrunc and         *)
(* iupdate, under no lock; and the rest, under icache.lock again.  An      *)
(* entry without references has no contents.                               *)
Drop(p, i) ==
  /\ ref' = [ref EXCEPT ![i] = @ - 1]
  /\ put' = [put EXCEPT ![p] = Tail(@)]
  /\ stage' = [stage EXCEPT ![p] = "test"]

(* Mutants: a file with one name is freed; none ever is. *)
NoLinks_Eager(i) == ref[i] = 1 /\ valid[i] /\ inode[i].nlink <= 1
NoLinks_Never(i) == FALSE
NoLinks(i) == ref[i] = 1 /\ valid[i] /\ inode[i].nlink = 0

iput_test(p) ==
  /\ put[p] # <<>> /\ stage[p] = "test"
  /\ LET i == Head(put[p]) IN
       IF NoLinks(i)
         THEN stage' = [stage EXCEPT ![p] = "free"] /\ UNCHANGED <<ref, put, valid, inode>>
         ELSE /\ Drop(p, i)
              /\ valid' = [valid EXCEPT ![i] = @ /\ ref[i] > 1]
              /\ inode' = [inode EXCEPT ![i] = IF ref[i] > 1 THEN @ ELSE Free]
  /\ UNCHANGED <<disk, lock, c, cwd, file, hist, panic>>

iput_free(p) ==
  /\ stage[p] = "free"
  /\ LET i == Head(put[p]) IN
       /\ inode' = [inode EXCEPT ![i].type = "none"]
       /\ din' = [din EXCEPT ![i] = [inode[i] EXCEPT !.type = "none"]]
       /\ dir' = [dir EXCEPT ![i] = NoEntry]
       /\ removed' = removed \ {i}
       /\ orphans' = orphans \ {i}
  /\ stage' = [stage EXCEPT ![p] = "clear"]
  /\ UNCHANGED <<valid, ref, lock, c, put, cwd, file, crashes, panic>>

iput_clear(p) ==
  /\ stage[p] = "clear"
  /\ LET i == Head(put[p]) IN
       /\ Drop(p, i)
       /\ valid' = [valid EXCEPT ![i] = FALSE]
       /\ inode' = [inode EXCEPT ![i] = IF ref[i] > 1 THEN @ ELSE Free]
  /\ UNCHANGED <<disk, lock, c, cwd, file, hist, panic>>

-----------------------------------------------------------------------------
(* Calls *)

In(p, pc) == put[p] = <<>> /\ c[p].pc = pc
go(p, x) == c' = [c EXCEPT ![p] = x]
return(p) == go(p, Idle)
iputs(p, s) == put' = [put EXCEPT ![p] = s]

(* A directory's entries; dirlookup also returns a reference to the inode. *)
dirlookup(d, e) == dir[d][e]
dirlink(t, d, e, i) == [t EXCEPT ![d][e] = i]

(* Where namex starts: at the root or at the current directory *)
Absolute(s) == s # <<>> /\ Head(s) = "/"
First(p, s) == IF Absolute(s) THEN ROOTINO ELSE cwd[p]
Rest(s) == IF Absolute(s) THEN Tail(s) ELSE s
Has(op, s) == IF s = <<>> /\ op \notin OfParent THEN "target" ELSE "walk"

call(p, r) ==
  LET i == First(p, r.path)
      s == Rest(r.path)
  IN
  /\ In(p, "idle")
  /\ r.op \in {"open", "create"} => file[p] = 0
  /\ r.op = "link" => \A k \in Inum : din[k].nlink < MaxLink
  /\ go(p, [pc |-> Has(r.op, s), op |-> r.op, at |-> i, path |-> s, ip |-> 0, new |-> r.new])
  /\ iget(i)
  /\ UNCHANGED <<disk, inode, valid, lock, put, stage, cwd, file, hist, panic>>

(* fileclose of the last reference *)
close(p) ==
  /\ In(p, "idle") /\ file[p] # 0
  /\ iputs(p, <<file[p]>>)
  /\ file' = [file EXCEPT ![p] = 0]
  /\ UNCHANGED <<disk, cache, c, stage, cwd, hist, panic>>

ToParent(p) == c[p].op \in OfParent \/ (c[p].op = "link" /\ c[p].ip # 0)

(* When a lookup fails, link takes back the link it has counted. *)
fails(p) == go(p, IF c[p].ip # 0 THEN [c[p] EXCEPT !.pc = "link_bad", !.at = 0, !.path = <<>>]
                                 ELSE Idle)

(* A path without elements has no parent. *)
namex_empty(p) ==
  /\ In(p, "walk") /\ c[p].path = <<>>
  /\ fails(p) /\ iputs(p, <<c[p].at>>)
  /\ UNCHANGED <<disk, cache, stage, cwd, file, hist, panic>>

(* One round of the loop of namex, which goes on until the path is used    *)
(* up, or all but the last element when the parent is wanted.              *)
namex(p) ==
  LET i == c[p].at
      s == c[p].path
      e == Head(s)
  IN
  /\ In(p, "walk") /\ s # <<>> /\ CanLock(i)
  /\ load(i)
  /\ CASE Locked(i).type # "dir" ->
            fails(p) /\ iputs(p, <<i>>) /\ UNCHANGED ref
       [] Locked(i).type = "dir" /\ ToParent(p) /\ Len(s) = 1 ->
            go(p, [c[p] EXCEPT !.pc = "parent"]) /\ UNCHANGED <<put, ref>>
       [] Locked(i).type = "dir" /\ ~(ToParent(p) /\ Len(s) = 1) /\ dirlookup(i, e) = 0 ->
            fails(p) /\ iputs(p, <<i>>) /\ UNCHANGED ref
       [] OTHER ->
            /\ go(p, [c[p] EXCEPT !.pc = Has(c[p].op, Tail(s)), !.at = dirlookup(i, e), !.path = Tail(s)])
            /\ iget(dirlookup(i, e))
            /\ iputs(p, <<i>>)
  /\ UNCHANGED <<disk, lock, stage, cwd, file, hist, panic>>

(* sys_open of what is there, by name or as create found it.  It fails if  *)
(* there is no file or descriptor left, or it is a directory to be written *)
(* to; create accepts a file only.                                         *)
sys_open(p) ==
  LET i == c[p].at
      fits == c[p].op = "open" \/ Locked(i).type = "file"
  IN
  /\ In(p, "target") /\ c[p].op \in {"open", "create", "mkdir", "mknod"} /\ CanLock(i)
  /\ load(i)
  /\ \/ fits /\ c[p].op \in {"open", "create"} /\ file' = [file EXCEPT ![p] = i] /\ UNCHANGED put
     \/ iputs(p, <<i>>) /\ UNCHANGED file
  /\ return(p)
  /\ UNCHANGED <<disk, ref, lock, stage, cwd, hist, panic>>

sys_chdir(p) ==
  LET i == c[p].at IN
  /\ In(p, "target") /\ c[p].op = "chdir" /\ CanLock(i)
  /\ load(i)
  /\ IF Locked(i).type = "dir"
       THEN iputs(p, <<cwd[p]>>) /\ cwd' = [cwd EXCEPT ![p] = i]
       ELSE iputs(p, <<i>>) /\ UNCHANGED cwd
  /\ return(p)
  /\ UNCHANGED <<disk, ref, lock, stage, file, hist, panic>>

(* sys_link counts the new link first, and then looks for its directory. *)
link_target(p) ==
  LET i == c[p].at
      d == First(p, c[p].new)
  IN
  /\ In(p, "target") /\ c[p].op = "link" /\ CanLock(i)
  /\ IF Locked(i).type = "dir"
       THEN load(i) /\ iputs(p, <<i>>) /\ return(p) /\ UNCHANGED <<ref, din>>
       ELSE /\ store([k \in {i} |-> [Locked(k) EXCEPT !.nlink = @ + 1]])
            /\ go(p, [c[p] EXCEPT !.pc = "walk", !.at = d, !.path = Rest(c[p].new), !.ip = i])
            /\ iget(d)
            /\ UNCHANGED put
  /\ UNCHANGED <<dir, lock, stage, cwd, file, hist, panic>>

(* The entry is written, or it is there already: then dirlink puts it. *)
link_parent(p) ==
  LET d == c[p].at
      e == Head(c[p].path)
      there == dirlookup(d, e)
  IN
  /\ In(p, "parent") /\ c[p].op = "link" /\ CanLock(d)
  /\ load(d)
  /\ IF there # 0
       THEN fails(p) /\ iputs(p, <<there, d>>) /\ iget(there) /\ UNCHANGED <<dir, removed>>
       ELSE /\ dir' = dirlink(dir, d, e, c[p].ip)
            /\ removed' = removed \cup (IF Locked(d).nlink = 0 \/ d \in removed THEN {d, c[p].ip} ELSE {})
            /\ iputs(p, <<d, c[p].ip>>)
            /\ return(p) /\ UNCHANGED ref
  /\ UNCHANGED <<din, lock, stage, cwd, file, orphans, crashes, panic>>

link_bad(p) ==
  LET i == c[p].ip IN
  /\ In(p, "link_bad") /\ CanLock(i)
  /\ store([k \in {i} |-> [Locked(k) EXCEPT !.nlink = @ - 1]])
  /\ iputs(p, <<i>>) /\ return(p)
  /\ UNCHANGED <<dir, ref, lock, stage, cwd, file, hist, panic>>

(* Mutant: "." may be unlinked too. *)
MayUnlink_Dots(e) == TRUE

(* sys_unlink holds the directory's lock while it waits for the entry's. *)
MayUnlink(e) == e \notin Dots

unlink_parent(p) ==
  LET d == c[p].at
      e == Head(c[p].path)
  IN
  /\ In(p, "parent") /\ c[p].op = "unlink" /\ CanLock(d)
  /\ load(d)
  /\ IF MayUnlink(e) /\ dirlookup(d, e) # 0
       THEN /\ go(p, [c[p] EXCEPT !.pc = "child", !.ip = dirlookup(d, e)])
            /\ iget(dirlookup(d, e))
            /\ lock' = [lock EXCEPT ![d] = p]
            /\ UNCHANGED put
       ELSE return(p) /\ iputs(p, <<d>>) /\ UNCHANGED <<ref, lock>>
  /\ UNCHANGED <<disk, stage, cwd, file, hist, panic>>

isdirempty(i) == \A e \in Name : dir[i][e] = 0

(* Mutant: the directory keeps the link of its child's "..". *)
Unlinked_KeepsParent(d, i, k) ==
  IF k = i THEN [Locked(k) EXCEPT !.nlink = @ - 1] ELSE Locked(k)

Unlinked(d, i, k) ==
  IF k = i \/ Locked(i).type = "dir" THEN [Locked(k) EXCEPT !.nlink = @ - 1] ELSE Locked(k)

unlink_child(p) ==
  LET d == c[p].at
      i == c[p].ip
      e == Head(c[p].path)
  IN
  /\ In(p, "child") /\ c[p].op = "unlink" /\ CanLock(i)
  /\ Locked(i).nlink > 0
  /\ iunlock(d)
  /\ IF Locked(i).type = "dir" /\ ~isdirempty(i)
       THEN load(i) /\ iputs(p, <<i, d>>) /\ UNCHANGED disk
       ELSE /\ store([k \in {d, i} |-> Unlinked(d, i, k)])
            /\ dir' = [dir EXCEPT ![d][e] = 0]
            /\ iputs(p, <<d, i>>)
  /\ return(p)
  /\ UNCHANGED <<ref, stage, cwd, file, hist, panic>>

(* create keeps the directory's lock while it fills in the new inode. *)
create_parent(p) ==
  LET d == c[p].at
      there == dirlookup(d, Head(c[p].path))
  IN
  /\ In(p, "parent") /\ c[p].op \in {"create", "mkdir", "mknod"} /\ CanLock(d)
  /\ load(d)
  /\ IF there # 0
       THEN /\ go(p, [c[p] EXCEPT !.pc = "target", !.at = there, !.path = <<>>])
            /\ iputs(p, <<d>>)
            /\ iget(there)
            /\ UNCHANGED <<din, lock, panic>>
       ELSE IF FreeInodes = {}
              THEN panic' = "ialloc: no inodes" /\ UNCHANGED <<c, din, ref, lock, put>>
              ELSE /\ go(p, [c[p] EXCEPT !.pc = "child", !.ip = ialloc])
                   /\ din' = [din EXCEPT ![ialloc] =
                        [type |-> CASE c[p].op = "create" -> "file"
                                    [] c[p].op = "mkdir" -> "dir"
                                    [] c[p].op = "mknod" -> "dev", nlink |-> 0]]
                   /\ iget(ialloc)
                   /\ lock' = [lock EXCEPT ![d] = p]
                   /\ UNCHANGED <<put, panic>>
  /\ UNCHANGED <<dir, stage, cwd, file, hist>>

(* The new inode has one link, and ".." is a link to its directory.  The   *)
(* entry of the directory is written last, and its lock released.          *)
create_child(p) ==
  LET d == c[p].at
      i == c[p].ip
      e == Head(c[p].path)
      mk == c[p].op = "mkdir"
  IN
  /\ In(p, "child") /\ c[p].op # "unlink" /\ CanLock(i)
  /\ store([k \in {d, i} |-> IF k = i THEN [Locked(k) EXCEPT !.nlink = 1]
                              ELSE [Locked(k) EXCEPT !.nlink = IF mk THEN @ + 1 ELSE @]])
  /\ dir' = dirlink(IF mk THEN dirlink(dirlink(dir, i, ".", i), i, "..", d) ELSE dir, d, e, i)
  /\ removed' = removed \cup (IF inode[d].nlink = 0 \/ d \in removed THEN {d, i} ELSE {})
  /\ iunlock(d)
  /\ \/ c[p].op = "create" /\ file' = [file EXCEPT ![p] = i] /\ iputs(p, <<d>>)
     \/ iputs(p, <<d, i>>) /\ UNCHANGED file
  /\ return(p)
  /\ UNCHANGED <<ref, stage, cwd, orphans, crashes, panic>>

(* The panics of ilock and of sys_unlink *)
Wants(p) == IF c[p].pc \in {"child", "link_bad"} THEN c[p].ip ELSE c[p].at
ilock_panic(p) ==
  LET i == Wants(p) IN
  /\ put[p] = <<>> /\ c[p].pc \in {"walk", "target", "parent", "child", "link_bad"}
  /\ Unlocked(i)
  /\ \/ ~valid[i] /\ din[i].type = "none" /\ panic' = "ilock: no type"
     \/ c[p].pc = "child" /\ c[p].op = "unlink" /\ CanLock(i) /\ Locked(i).nlink = 0
        /\ panic' = "unlink: nlink < 1"
  /\ UNCHANGED <<disk, cache, c, put, stage, cwd, file, hist>>

-----------------------------------------------------------------------------

(* What a process inside the kernel does next *)
Step(p) ==
  \/ iput_test(p) \/ iput_free(p) \/ iput_clear(p)
  \/ namex(p) \/ namex_empty(p)
  \/ sys_open(p) \/ sys_chdir(p)
  \/ link_target(p) \/ link_parent(p) \/ link_bad(p)
  \/ unlink_parent(p) \/ unlink_child(p)
  \/ create_parent(p) \/ create_child(p)
  \/ ilock_panic(p)

User(p) ==
  \/ \E r \in Request : call(p, r)
  \/ close(p)

(* Power failure or panic, and boot: what is in memory is lost. *)
Crash ==
  /\ crashes < MaxCrash
  /\ \A p \in Proc : In(p, "idle")
  /\ inode' = [i \in Inum |-> Free]
  /\ valid' = [i \in Inum |-> FALSE]
  /\ ref' = [i \in Inum |-> IF i = ROOTINO THEN Cardinality(Proc) ELSE 0]
  /\ cwd' = [p \in Proc |-> ROOTINO]
  /\ file' = [p \in Proc |-> 0]
  /\ orphans' = orphans \cup {i \in Inum : din[i].type # "none" /\ din[i].nlink = 0}
  /\ crashes' = crashes + 1
  /\ UNCHANGED <<disk, lock, c, put, stage, removed, panic>>

Next ==
  \/ panic = "" /\ ((\E p \in Proc : Step(p) \/ User(p)) \/ Crash)
  \/ panic # "" /\ UNCHANGED vars

Spec == Init /\ [][Next]_vars

-----------------------------------------------------------------------------
(* Properties *)

(* The pointers to i: directories, open files, arguments of calls, and     *)
(* those under way to iput.                                                *)
Pointers(i) ==
  Cardinality({p \in Proc : cwd[p] = i}) + Cardinality({p \in Proc : file[p] = i})
  + Cardinality({p \in Proc : c[p].at = i}) + Cardinality({p \in Proc : c[p].ip = i})
  + Cardinality({x \in Proc \X (1..2) : x[2] \in DOMAIN put[x[1]] /\ put[x[1]][x[2]] = i})

(* "ip->ref tracks the number of in-memory pointers to the entry (open     *)
(* files and current directories)", on every path through the calls, and a *)
(* valid entry is the inode on disk: everybody has called iupdate.  (The   *)
(* first conjuncts are the types of the variables.)                        *)
InodeCache ==
  /\ din \in [Inum -> [type : Type, nlink : Nat]]
  /\ inode \in [Inum -> [type : Type, nlink : Nat]]
  /\ dir \in [Inum -> [Elem -> 0..NINODES]]
  /\ lock \in [Inum -> Proc \cup {NoProc}]
  /\ \A i \in Inum : ref[i] = Pointers(i) /\ (valid[i] => inode[i] = din[i])

IsDir(d) == din[d].type = "dir"
Names(i) == Cardinality({x \in Inum \X Name : dir[x[1]][x[2]] = i})
Children(i) ==
  Cardinality({d \in Inum \ (removed \cup {i}) : IsDir(d) /\ din[d].nlink > 0 /\ dir[d][".."] = i})
Linking(i) == Cardinality({p \in Proc : c[p].op = "link" /\ c[p].ip = i})

(* The link count of an inode is the number of its names, of the           *)
(* directories in it that have a name, and of the links that sys_link has  *)
(* counted and not yet made; the root has one link without a name.  The    *)
(* exceptions are directories that somebody wrote to after they were       *)
(* removed (nothing tests nlink there), and what was entered in them.      *)
LinkCounts ==
  \A i \in Inum \ removed :
    LET creating == \E p \in Proc : c[p].pc = "child" /\ c[p].op # "unlink" /\ c[p].ip = i IN
    din[i].type # "none" /\ ~creating =>
      din[i].nlink = Names(i) + Children(i) + Linking(i) + (IF i = ROOTINO THEN 1 ELSE 0)

(* Every name leads to an allocated inode, and ilock never finds an inode  *)
(* without a type.                                                         *)
NamedIsAllocated ==
  /\ \A d \in Inum, e \in Name : dir[d][e] # 0 => din[dir[d][e]].type # "none"
  /\ panic \in {"", "ialloc: no inodes"}

(* "iput() frees if the link count has fallen to zero": an inode without a *)
(* link is allocated only as long as something refers to it, unless a      *)
(* crash came between the unlink and the last close.                       *)
NoLeak ==
  \A i \in Inum \ orphans :
    din[i].type # "none" /\ din[i].nlink = 0 => ref[i] > 0

WaitsFor(p, q) == c[p].pc # "idle" /\ put[p] = <<>> /\ lock[Wants(p)] = q

(* Inode locks are taken in an order that excludes a deadlock, whatever    *)
(* the paths are: of any set of processes, one waits for none of them.     *)
NoDeadlock ==
  \A S \in (SUBSET Proc) \ {{}} : \E p \in S : \A q \in S : ~WaitsFor(p, q)

=============================================================================
