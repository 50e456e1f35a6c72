------------------------------- MODULE Debounce -------------------------------
(***************************************************************************)
(* The way of a MODIFY event through FileWatcher::Impl: processEvent       *)
(* copies the filter and asks it, applyDebounce reads the clock, and under *)
(* m_debounceMutex prunes the map of stamps, compares, stamps and decides. *)
(* Events are processed one after the other, on the thread of the loop;    *)
(* setFilter comes from any thread, and the clock advances in between.     *)
(* Only MODIFY events are debounced: the others pass without a trace.      *)
(*                                                                         *)
(* A tick is one millisecond, so that duration_cast<milliseconds> loses    *)
(* nothing.                                                                *)
(***************************************************************************)
EXTENDS Integers

CONSTANTS
    Path,                           \* the paths of the events
    m_debounceTime,                 \* 50 ms
    m_debounceCleanupIntervalMs,    \* 30000 ms
    m_debounceExpireMs,             \* 120000 ms
    MaxTime                         \* bound: the clock stops here

\* A stamp expires no sooner than its debounce window ends.
ASSUME DebounceAssumption ==
    /\ m_debounceTime \in Nat /\ m_debounceCleanupIntervalMs \in Nat
    /\ m_debounceExpireMs \in Nat /\ MaxTime \in Nat
    /\ m_debounceTime <= m_debounceExpireMs

VARIABLES
    now,                    \* steady_clock::now()
    m_filter,               \* the paths the filter lets pass
    m_debounceMap,          \* path -> stamp, a partial function
    m_lastDebounceCleanup,
    event,                  \* the event in processEvent
    lastEvent,              \* history: when applyDebounce saw each path last
    reported                \* history: when it last passed one on to dispatchEvent

vars == <<now, m_filter, m_debounceMap, m_lastDebounceCleanup, event, lastEvent, reported>>

Never == -1
Idle  == [at |-> "idle"]

Events == {Idle} \cup [at : {"passed"}, path : Path] \cup [at : {"debounce"}, path : Path, now : Nat]

\* The shape of m_debounceMap, of the clock and of the event in processEvent (FileWatcher.cpp:491-556).
TypeOK ==
    /\ now \in Nat
    /\ m_filter \in SUBSET Path
    /\ DOMAIN m_debounceMap \in SUBSET Path
    /\ m_debounceMap \in [DOMAIN m_debounceMap -> Nat]
    /\ m_lastDebounceCleanup \in Nat
    /\ event \in Events
    /\ lastEvent \in [Path -> Nat \cup {Never}]
    /\ reported \in [Path -> Nat \cup {Never}]

Init ==
    /\ now = 0
    /\ m_filter = Path
    /\ m_debounceMap = [p \in {} |-> 0]
    /\ m_lastDebounceCleanup = 0
    /\ event = Idle
    /\ lastEvent = [p \in Path |-> Never]
    /\ reported = [p \in Path |-> Never]

-----------------------------------------------------------------------------

SetFilter(passing) ==
    /\ m_filter' = passing
    /\ UNCHANGED <<now, m_debounceMap, m_lastDebounceCleanup, event, lastEvent, reported>>

\* processEvent up to the filter's verdict; an event the filter rejects ends here.
Receive(p) ==
    /\ event = Idle
    /\ p \in m_filter
    /\ event' = [at |-> "passed", path |-> p]
    /\ UNCHANGED <<now, m_filter, m_debounceMap, m_lastDebounceCleanup, lastEvent, reported>>

ReadClock ==
    /\ event.at = "passed"
    /\ event' = [at |-> "debounce", path |-> event.path, now |-> now]
    /\ UNCHANGED <<now, m_filter, m_debounceMap, m_lastDebounceCleanup, lastEvent, reported>>

CleanupDue(n) == n - m_lastDebounceCleanup >= m_debounceCleanupIntervalMs

\* A cleanup that empties the map, and one that keeps what it should drop.
BugKept(n)     == {p \in DOMAIN m_debounceMap : ~CleanupDue(n)}
BugKeptOld(n)  == {p \in DOMAIN m_debounceMap : CleanupDue(n) => n - m_debounceMap[p] >= m_debounceExpireMs}

\* The entries cleanupDebounceMap leaves in the map.
Kept(n) == {p \in DOMAIN m_debounceMap : CleanupDue(n) => n - m_debounceMap[p] <= m_debounceExpireMs}

\* A test that treats the window as over one tick early, and a stamp of its begin.
BugSuppressed(p, n) == p \in Kept(n) /\ n - m_debounceMap[p] < m_debounceTime - 1
BugStamp(n)         == n - m_debounceTime

Suppressed(p, n) == p \in Kept(n) /\ n - m_debounceMap[p] < m_debounceTime
Stamp(n)         == n

ApplyDebounce ==
    /\ event.at = "debounce"
    /\ LET p == event.path
           n == event.now IN
         /\ m_lastDebounceCleanup' = IF CleanupDue(n) THEN n ELSE m_lastDebounceCleanup
         /\ m_debounceMap' = [q \in Kept(n) \cup {p} |-> IF q = p THEN Stamp(n) ELSE m_debounceMap[q]]
         /\ lastEvent' = [lastEvent EXCEPT ![p] = n]
         /\ reported' = IF Suppressed(p, n) THEN reported ELSE [reported EXCEPT ![p] = n]
    /\ event' = Idle
    /\ UNCHANGED <<now, m_filter>>

Tick ==
    /\ now < MaxTime
    /\ now' = now + 1
    /\ UNCHANGED <<m_filter, m_debounceMap, m_lastDebounceCleanup, event, lastEvent, reported>>

Next ==
    \/ \E passing \in SUBSET Path : SetFilter(passing)
    \/ \E p \in Path : Receive(p)
    \/ ReadClock
    \/ ApplyDebounce
    \/ Tick

Spec == Init /\ [][Next]_vars

-----------------------------------------------------------------------------

\* The clean-ups are invisible: the decisions are those of a map that never
\* forgets, so that no burst is reported twice because its stamp was dropped.
Abstract == INSTANCE DebounceSpec WITH debounceTime <- m_debounceTime
ImplementsAbstract == Abstract!Spec

\* Two MODIFYs of one path passed on to the callbacks are m_debounceTime apart.
Spacing == Abstract!Spacing

\* The map forgets: no stamp is older than m_debounceExpireMs was at the last
\* clean-up, so that none outlives m_debounceExpireMs + m_debounceCleanupIntervalMs
\* of events.
StampsYoung ==
    \A p \in DOMAIN m_debounceMap : m_lastDebounceCleanup - m_debounceMap[p] <= m_debounceExpireMs

-----------------------------------------------------------------------------
(* The invariant behind the refinement.                                     *)

\* Stamps and history agree; a path without a stamp has none, or had one so long
\* before the last clean-up that its window is over; no time lies ahead of the clock.
MapRemembers ==
    /\ \A p \in DOMAIN m_debounceMap : m_debounceMap[p] = lastEvent[p]
    /\ \A p \in Path \ DOMAIN m_debounceMap :
          lastEvent[p] = Never \/ m_lastDebounceCleanup - lastEvent[p] > m_debounceExpireMs

TimesPast ==
    /\ m_lastDebounceCleanup <= now
    /\ \A p \in Path : lastEvent[p] <= now /\ reported[p] <= lastEvent[p]
    /\ event.at = "debounce" =>
         /\ event.now <= now /\ m_lastDebounceCleanup <= event.now
         /\ \A p \in Path : lastEvent[p] <= event.now
===============================================================================
