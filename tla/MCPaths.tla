------------------------------ MODULE MCPaths ------------------------------
(* A directory with a directory in it, and files whose names begin alike;  *)
(* sizes around a block.                                                   *)
EXTENDS Paths

CONSTANTS t1, t2

MCTask == {t1, t2}
MCArchives ==
  {<<[name |-> <<"d", "f">>, size |-> 1, dir |-> FALSE],
     [name |-> <<"d", "/">>, size |-> 0, dir |-> TRUE],
     [name |-> <<"f">>, size |-> 2, dir |-> FALSE],
     [name |-> <<"d", "/", "s", "/">>, size |-> 0, dir |-> TRUE],
     [name |-> <<"d", "/", "s", "f">>, size |-> 3, dir |-> FALSE]>>}
MCNames == {<<"d">>, <<"s">>, <<"d", "f">>}
MCHome == <<"d">>
(* Bound: of two working directories one is the first program's, or both   *)
(* are the same.                                                           *)
OneWanders == \A t, u \in Task : dir_path[t] \in {Home, dir_path[u]} \/ dir_path[u] = Home
MCGarbage == {<<>>, <<"f">>}
=============================================================================
