---------------------------- MODULE MCMacOSWatcher ----------------------------
(***************************************************************************)
(* Small instances of MacOSWatcher: a directory k with two files and a     *)
(* directory, watched by kqueue; a file f, watched by kqueue; a directory  *)
(* t with two directories with a file, watched by FSEvents.                *)
(* One of the three exists in a behaviour.                                 *)
(***************************************************************************)
EXTENDS MacOSWatcher

MCPath == {<<"k">>, <<"k", "a">>, <<"k", "b">>, <<"k", "d">>, <<"f">>,
           <<"t">>, <<"t", "d">>, <<"t", "d", "a">>,
           <<"t", "e">>, <<"t", "e", "a">>}
MCDirectory == {<<"k">>, <<"k", "d">>, <<"t">>, <<"t", "d">>, <<"t", "e">>}
MCRoot == {<<"k">>, <<"f">>, <<"t">>}
MCRecursiveRoot == {<<"t">>}
MCLayout == {{<<"k">>, <<"k", "a">>}, {<<"f">>}, {<<"t">>, <<"t", "d">>, <<"t", "d", "a">>}}
===============================================================================
