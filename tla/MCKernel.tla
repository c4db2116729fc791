------------------------------ MODULE MCKernel ------------------------------
(***************************************************************************)
(* Parts of the kernel that share nothing: the contents of files           *)
(* (FileData), who holds them open (FileTable), memory (Vm), and the       *)
(* console and the clock (Console).  A behaviour is one of one part, while *)
(* the others rest in their initial states.                                *)
(* Blocks have two bytes, and files one direct block and two indirect      *)
(* ones; the first file is open twice, so that a write goes over what is   *)
(* there.  The input buffer has four places, and unsigned integers wrap    *)
(* soon after the start.                                                   *)
(***************************************************************************)
EXTENDS FileData, TLC

CONSTANTS i1, i2, o1, o2, o3, FProc, NFILE, NOFILE, NPIPE,
          VProc, NPAGES, PGSIZE, KERNBASE, WORD, LEVELS, Delta, Program,
          Reader, Sleeper, INPUT_BUF, UINT, Start, Nap, ReadSize, MaxKeys, MaxTicks, Part
VARIABLES ofile, fref, fobj, pipes, irefs, running, hand, closing, gone, exiting,
          nfree, vstate, kstack, space, sz, new, newsz, vpanic,
          buf, r, cw, e, reader, ckilled, ticks, sleeper, nkeys, nticks, part

T == INSTANCE FileTable
V == INSTANCE Vm
C == INSTANCE Console WITH w <- cw
tvars == <<ofile, fref, fobj, pipes, irefs, running, hand, closing, gone, exiting>>
vmvars == <<nfree, vstate, kstack, space, sz, new, newsz, vpanic>>
consvars == <<buf, r, cw, e, reader, ckilled, ticks, sleeper, nkeys, nticks>>

TwoFiles == (o1 :> i1) @@ (o2 :> i1) @@ (o3 :> i2)
ShortStrings == {<<1, 2, 3, 4>>, <<5>>}

\* One long write, with the constants of param.h and NDIRECT of fs.h.
OneFile == o1 :> i1
LongString == {[k \in 1..14 |-> 1]}

Deltas == {-4, -3, -1, 1, 3}
Programs == {{3}, {3, 5}}
Naps == {-2, 0, 2}

(* There is a first process. *)
ASSUME TableAssumption ==
  /\ IsFiniteSet(FProc) /\ FProc # {}
  /\ NFILE \in Nat /\ NOFILE \in Nat /\ NPIPE \in Nat

(* User memory is not empty, and the first process fits in the pages. *)
ASSUME VmAssumption ==
  /\ IsFiniteSet(VProc) /\ VProc # {}
  /\ PGSIZE \in Nat \ {0} /\ KERNBASE \in Nat /\ {WORD, LEVELS} \subseteq Nat \ {0}
  /\ NPAGES \in Nat /\ NPAGES >= LEVELS + 3
  /\ Delta \subseteq Int
  /\ \A segs \in Program : segs \subseteq Nat /\ IsFiniteSet(segs)

(* No more than one turn of the ticks, from any start; arguments of sleep  *)
(* are ints, and ticks are unsigned.                                       *)
ASSUME ConsoleAssumption ==
  /\ INPUT_BUF \in Nat \ {0} /\ UINT \in Nat \ {0} /\ INPUT_BUF < UINT /\ UINT % INPUT_BUF = 0
  /\ Start \in 0..UINT - 1
  /\ Nap \subseteq {n \in Int : -UINT < n /\ n < UINT}
  /\ ReadSize \subseteq Nat \ {0}
  /\ MaxKeys \in Nat /\ MaxTicks \in Nat /\ MaxTicks < UINT

MCInit == Init /\ T!Init /\ V!Init /\ C!Init /\ part \in Part
MCNext ==
  /\ UNCHANGED part
  /\ \/ part = "data" /\ Next /\ UNCHANGED <<tvars, vmvars, consvars>>
     \/ part = "table" /\ T!Next /\ UNCHANGED <<vars, vmvars, consvars>>
     \/ part = "memory" /\ V!Next /\ UNCHANGED <<vars, tvars, consvars>>
     \/ part = "console" /\ C!InputNext /\ UNCHANGED <<vars, tvars, vmvars>>
     \/ part = "clock" /\ C!ClockNext /\ UNCHANGED <<vars, tvars, vmvars>>
MCSpec == MCInit /\ [][MCNext]_<<vars, tvars, vmvars, consvars, part>>

TableExact == T!TableExact
PagesConserved == V!PagesConserved
SizeMapped == V!SizeMapped
LineSpec == C!LineSpec
NoOversleep == C!NoOversleep

Symmetry == Permutations(Proc)
=============================================================================
