---------------------------- MODULE MCMutableFs ----------------------------
(***************************************************************************)
(* Small volumes for TLC: the root, a directory d and a file x in it.      *)
(***************************************************************************)
EXTENDS MutableFsStore, TLC

MCPaths  == {"/", "/d", "/d/x", "/y"}
MCRoot   == "/"
MCParent == [p \in MCPaths |-> IF p = "/d/x" THEN "/d" ELSE "/"]
MCBelow  == [p \in MCPaths |-> IF p = "/d" THEN {"/d/x"} ELSE {}]

MCSectors  == {"a", "b", "blank"}

(* Two paths, one of them below the other, and a machine that stops.       *)
Stopping == [targets |-> {"/d", "/d/x"}, contents |-> {<<"a">>, <<"b">>},
             renames |-> {}, journalled |-> {<<"/d", <<"a">>>>},
             io |-> 0, crashes |-> TRUE]

(* Files of two sectors, and a sector transfer that fails.                 *)
Failing  == [targets |-> {"/d"}, contents |-> {<<"b", "a">>},
             renames |-> {}, journalled |-> {},
             io |-> 1, crashes |-> FALSE]

(* A directory and a file in it, and a transfer that fails.                *)
Nesting  == [targets |-> {"/d", "/d/x"}, contents |-> {<<"b">>},
             renames |-> {}, journalled |-> {},
             io |-> 1, crashes |-> FALSE]

(* Renames to a path that is also written and deleted, and into itself.    *)
Moving   == [targets |-> {"/d", "/y"}, contents |-> {<<>>},
             renames |-> {<<"/d", "/y">>, <<"/d", "/d/x">>}, journalled |-> {},
             io |-> 0, crashes |-> FALSE]

(* A rename whose metadata may not reach the disk.                         *)
Renaming == [targets |-> {"/d"}, contents |-> {<<>>},
             renames |-> {<<"/d", "/y">>}, journalled |-> {},
             io |-> 1, crashes |-> FALSE]

MCUses      == {Stopping, Failing, Nesting, Moving, Renaming}
RemountUses == {[Stopping EXCEPT !.contents = {<<"a">>}, !.journalled = {}]}

Symmetric == Permutations(Nodes) \cup Permutations(Blocks)
=============================================================================
