------------------------------ MODULE MCInode -------------------------------
(* Instances of Inode for TLC. *)
EXTENDS Inode, TLC

Processes == Permutations(Proc)

Do(op, abs, path) == [op |-> op, abs |-> abs, path |-> path, nabs |-> TRUE, new |-> <<>>]
LinkTo(path, nabs, new) == [op |-> "link", abs |-> TRUE, path |-> path, nabs |-> nabs, new |-> new]

(* A directory x, directories x in it, a file y with a second name, current   *)
(* directories that others remove, and names that cannot be removed or made.  *)
MCCall == {
  Do("mkdir", FALSE, <<"x">>), Do("create", TRUE, <<"y">>), Do("chdir", FALSE, <<"x">>),
  Do("open", FALSE, <<"..">>), Do("unlink", TRUE, <<"x">>), Do("unlink", TRUE, <<"x", "x">>),
  Do("unlink", FALSE, <<".">>), LinkTo(<<"y">>, TRUE, <<"x">>), LinkTo(<<"y">>, TRUE, <<>>),
  Do("openrw", TRUE, <<"x">>), LinkTo(<<"x">>, TRUE, <<"y">>) }
=============================================================================
