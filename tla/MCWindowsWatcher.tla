--------------------------- MODULE MCWindowsWatcher ---------------------------
(***************************************************************************)
(* A small instance of WindowsWatcher: a directory t, watched recursively, *)
(* with two directories.  d, with a file that may be called b, is watched  *)
(* by itself; e, with a file, may be called f, and so may d when it is not *)
(* watched.  A change of names in d and one of e are reported by two       *)
(* watches in any mixture.                                                 *)
(***************************************************************************)
EXTENDS WindowsWatcher

MCPath == {<<"t">>, <<"t", "d">>, <<"t", "d", "a">>, <<"t", "d", "b">>,
           <<"t", "e">>, <<"t", "e", "a">>, <<"t", "f">>, <<"t", "f", "a">>}
MCDirectory == {<<"t">>, <<"t", "d">>, <<"t", "e">>, <<"t", "f">>}
MCRoot == {<<"t">>, <<"t", "d">>}
MCRecursiveRoot == {<<"t">>}
MCLayout == {{<<"t">>, <<"t", "d">>, <<"t", "d", "a">>, <<"t", "e">>, <<"t", "e", "a">>}}
===============================================================================
