------------------------------ MODULE MCDispatch ------------------------------
(***************************************************************************)
(* A small instance of Dispatch, with the spellings of Linux and Windows:  *)
(* a watch of /a and one of \a\b\, in a world of paths that are, or only   *)
(* seem to be, the same or below.  Time goes far when there is no watch,   *)
(* and a little when there are two.                                        *)
(***************************************************************************)
EXTENDS Dispatch

A   == <<"/", "a">>
AB  == A \o <<"/", "b">>
ABC == AB \o <<"/", "x", ".", "c">>

MCBound == {[time |-> 9, adds |-> 0], [time |-> 1, adds |-> 2]}

MCPath == {ABC, A \o <<"b">>}
MCWatched == {A, <<"\\", "a", "\\", "b", "\\">>}
MCOtherEvent ==
    {[type |-> "create", path |-> p, pathType |-> "dir"] :
        p \in {A, AB, <<"\\", "a", "\\", "b", "\\", "c">>, <<"/", "b">>}}
    \cup {[type |-> "delete", path |-> A \o <<".", "c", "/", "b">>, pathType |-> "file"]}

MCFilter == {
    NoRules,
    [NoRules EXCEPT !.m_excludePaths = {AB \o <<"/">>}],
    [NoRules EXCEPT !.m_excludePaths = {A \o <<"\\">>}, !.m_eventTypes = {"modify", "delete"},
                    !.m_extensions = {<<".", "c">>}],
    [NoRules EXCEPT !.m_extensions = {<<".", "c">>}, !.m_excludePatterns = {<<"\\", "a", "\\", "b", "\\", "c">>},
                    !.m_notMatched = {<<"/", "b">>}]}
===============================================================================
