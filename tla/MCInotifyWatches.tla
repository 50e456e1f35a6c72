--------------------------- MODULE MCInotifyWatches ---------------------------
(***************************************************************************)
(* Small instances of InotifyWatches: the directory << >> stands for the   *)
(* path a user watches, <<"a">> for a directory in it that a user may      *)
(* watch as well.                                                          *)
(***************************************************************************)
EXTENDS InotifyWatches

MCTree == {<< >>, <<"a">>, <<"a", "a">>, <<"b">>}
MCFlat == {<< >>, <<"a">>, <<"b">>}
MCTop  == {<< >>}
MCBoth == {<< >>, <<"a">>}
===============================================================================
