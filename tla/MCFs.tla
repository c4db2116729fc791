-------------------------------- MODULE MCFs --------------------------------
(***************************************************************************)
(* A directory /a that is made, entered, filled and removed, a file in it  *)
(* with a second name outside, a device.                                   *)
(***************************************************************************)
EXTENDS Fs, TLC

Req(op, path) == [op |-> op, path |-> path, new |-> <<>>]
Requests ==
  {Req("mkdir", <<"/", "a">>), Req("unlink", <<"/", "a">>), Req("chdir", <<"/", "a">>),
   Req("create", <<"/", "a", "b">>), Req("unlink", <<"/", "a", "b">>),
   Req("open", <<"/", "a", "b">>), Req("unlink", <<"/", "a", ".">>), Req("unlink", <<"/">>),
   Req("create", <<"b">>), Req("unlink", <<"b">>), Req("mknod", <<"b">>),
   [op |-> "link", path |-> <<"/", "a", "b">>, new |-> <<"/", "b">>]}

(* A directory that is entered and removed, then its parent, and a path    *)
(* that goes up from it: with these for Requests in MCFs.cfg, the path     *)
(* leads to an inode that is free, against NamedIsAllocated.               *)
DotDotRequests ==
  {Req("mkdir", <<"/", "a">>), Req("mkdir", <<"/", "a", "b">>), Req("chdir", <<"/", "a", "b">>),
   Req("unlink", <<"/", "a", "b">>), Req("unlink", <<"/", "a">>), Req("open", <<"..">>)}

Symmetry == Permutations(Proc)
=============================================================================
