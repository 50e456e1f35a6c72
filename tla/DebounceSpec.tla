----------------------------- MODULE DebounceSpec -----------------------------
(***************************************************************************)
(* What the debouncing of MODIFY events promises, with a memory that never *)
(* forgets: an event of a path is passed on when no event of that path     *)
(* came less than debounceTime before it.  A burst is reported by its      *)
(* first event, and every event, passed on or not, extends it.             *)
(***************************************************************************)
EXTENDS Integers

CONSTANTS Path, debounceTime

VARIABLES
    lastEvent,  \* when the last MODIFY of each path came
    reported    \* when the last MODIFY that was passed on came

vars == <<lastEvent, reported>>

Never == -1

Init ==
    /\ lastEvent = [p \in Path |-> Never]
    /\ reported = [p \in Path |-> Never]

Quiet(p, n) == lastEvent[p] = Never \/ n - lastEvent[p] >= debounceTime

Modify(p, n) ==
    /\ \A q \in Path : lastEvent[q] <= n
    /\ lastEvent' = [lastEvent EXCEPT ![p] = n]
    /\ reported' = IF Quiet(p, n) THEN [reported EXCEPT ![p] = n] ELSE reported

Next == \E p \in Path : lastEvent'[p] >= 0 /\ Modify(p, lastEvent'[p])

Spec == Init /\ [][Next]_vars

\* Two MODIFYs of one path that are passed on are debounceTime apart at least.
Spacing ==
    [][\A p \in Path : reported[p] # Never /\ reported'[p] # reported[p] =>
          reported'[p] - reported[p] >= debounceTime]_vars
===============================================================================
