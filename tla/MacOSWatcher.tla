----------------------------- MODULE MacOSWatcher -----------------------------
(***************************************************************************)
(* MacOSWatcher: the two engines, the calls of the API and the loop.       *)
(* Both engines queue their events in m_pendingEvents for the loop, which  *)
(* sleeps in kevent and is woken by a user event (trigger).  The files     *)
(* change all the while.  mirror is what the follower of Files has.        *)
(***************************************************************************)
EXTENDS MacOSKqueue, MacOSStream

CONSTANTS
    Root,           \* the paths addWatch is called with
    RecursiveRoot,  \* those watched with recursive = true
    Layout,         \* the sets of paths that may exist at first
    Client,         \* the threads that call the API
    MaxChanges,     \* bound: changes of the files in one behaviour
    MaxAdds,        \* bound: calls of addWatch
    MaxStarts       \* bound: calls of start

ASSUME RootAssumption == Root \subseteq Path /\ RecursiveRoot \subseteq Root \cap Directory

ASSUME LayoutAssumption ==
    \A paths \in Layout :
        paths \subseteq Path /\ \A p \in paths : Len(p) > 1 => Front(p) \in paths

VARIABLES
    m_running,
    m_mutex,            \* the thread that holds it
    m_pendingEvents,
    trigger,            \* the user event of the kqueue has been triggered
    lp,                 \* the loop: where it is and what it has in hand
    call,               \* the call each thread is in the middle of
    m_watches,          \* Impl::m_watches: the paths with a callback
    mirror,             \* history: path -> content
    missed,             \* history: paths about which a change cannot have been noticed
    count               \* how much of the bounds is used up

loopVars == <<m_running, m_pendingEvents, trigger, lp>>
userVars == <<m_watches, mirror, missed>>
vars == <<fs, kqVars, streamVars, loopVars, m_mutex, call, userVars, count>>

Loop   == "loop"
Free   == "free"
Thread == Client \cup {Loop}
Idle   == [at |-> "idle"]
Out    == [at |-> "out", events |-> {}, item |-> 0, notes |-> {}, batch |-> << >>, leaving |-> FALSE]

Becomes(th, c) == call' = [call EXCEPT ![th] = c]

Init ==
    /\ \E paths \in Layout : fs = [p \in paths |-> [inode |-> <<p, 0>>, content |-> 0]]
    /\ KqInit /\ StreamInit
    /\ m_running = FALSE /\ m_mutex = Free
    /\ m_pendingEvents = << >> /\ trigger = FALSE
    /\ lp = Out
    /\ call = [th \in Thread |-> Idle]
    /\ m_watches = {} /\ mirror = << >> /\ missed = {}
    /\ count = [changes |-> 0, adds |-> 0, starts |-> 0]

-----------------------------------------------------------------------------
(* Files change.  The kernel raises notes and buffers records.              *)

Note(p, n)  == <<fs[p].inode, n>>
InParent(p) == {Note(q, "write") : q \in DOMAIN fs \cap {Front(p)}}
Record1(p, flag) == [path |-> p, flags |-> {flag}]

\* The watcher is between its scan of a directory and the registration for changes.
BeingAdded(p) ==
    \E th \in Thread : call[th].at = "scanned" /\ call[th].item.path \in {p, Front(p)}
\* Somewhere the engine knows, or will be told about, but no stream is live.
NotStreamed(p) ==
    /\ p \in m_knownPaths \/ \E r \in Range(m_fseventsWatchList) : Under(r, p)
    /\ ~\E s \in Stream : stream[s].live /\ \E r \in stream[s].roots : Under(r, p)
\* What p was before is gone, and that has not been handled yet: the descriptor of a
\* watched path is still that of the former file, the last scan still has the path, or a
\* record of its end may be merged with the one of its return.
Undelivered(p) ==
    \/ \E r \in DOMAIN m_kqWatches : p \in {r} \cup DOMAIN item[m_kqWatches[r]].children
    \/ \E th \in Thread : call[th].at = "scanned" /\ p \in {call[th].item.path} \cup DOMAIN call[th].item.children
    \/ \E s \in Stream : \E r \in Range(stream[s].buffer \o stream[s].todo) :
          r.path = p /\ ("removed" \in r.flags \/ (p \in Directory /\ "renamed" \in r.flags))

Unnoticed(paths, appearing) ==
    {p \in paths : BeingAdded(p) \/ NotStreamed(p)}
    \cup UNION {{x \in Path : Under(p, x)} : p \in {p \in appearing : Undelivered(p)}}

Changes(notes, records, unnoticed) ==
    /\ count' = [count EXCEPT !.changes = @ + 1]
    /\ kernel' = [fd \in DOMAIN kernel |-> [kernel[fd] EXCEPT
         !.active = @ \cup {n \in kernel[fd].interest : <<kernel[fd].inode, n>> \in notes}]]
    /\ stream' = Buffered(records)
    /\ missed' = missed \cup unnoticed
    /\ UNCHANGED <<item, m_kqWatches, m_kqFdMap, m_childFdToPath, torn, m_eventStream,
                   m_fseventsWatchList, m_knownPaths, loopVars, m_mutex, call, m_watches, mirror>>

Fresh(p) == [inode |-> <<p, count'.changes>>, content |-> IF p \in Directory THEN 0 ELSE count'.changes]

\* Only roots appear outside of the directories, where they were.
MayExist(p) == IF Len(p) = 1 THEN p \in m_watches ELSE Front(p) \in DOMAIN fs

Create(p) ==
    /\ p \notin DOMAIN fs /\ MayExist(p)
    /\ Changes(InParent(p), <<Record1(p, "created")>>, Unnoticed({p}, {p}))
    /\ fs' = With(fs, p, Fresh(p))

Write(p) ==
    /\ p \in DOMAIN fs \ Directory
    /\ Changes({Note(p, "write")}, <<Record1(p, "modified")>>, {})
    /\ fs' = [fs EXCEPT ![p].content = count'.changes]

Unlink(p) ==
    /\ Tree(p) = {p}
    /\ Changes(InParent(p) \cup {Note(p, "delete")}, <<Record1(p, "removed")>>, Unnoticed({p}, {}))
    /\ fs' = Without(fs, {p})

\* Where the changes below p that are not translated yet, or never will be, are once p is
\* called q: the records say where they were.
Overtaken(p, q) ==
    LET sources == UNION {Range(stream[s].sources) : s \in Stream}
    IN  {Renamed(p, q, x) : x \in {x \in OnTheWay \cup sources \cup missed : Under(p, x)}} \cap Path

\* Below a directory; a file that is there is replaced.  What moves along with a
\* directory is not reported by itself; watched directories stay.
Rename(p, q) ==
    /\ p \in DOMAIN fs /\ SameType(p, q) /\ ~Under(p, q) /\ ~Under(q, p)
    /\ p \notin Root \cap Directory
    /\ Len(p) > 1 /\ Len(q) > 1 /\ Front(q) \in DOMAIN fs
    /\ q \in DOMAIN fs => q \notin Directory
    /\ \A x \in Tree(p) : Renamed(p, q, x) \in Path
    /\ LET to == {Renamed(p, q, x) : x \in Tree(p)} IN
         /\ Changes(InParent(p) \cup InParent(q) \cup {Note(p, "rename")}
                      \cup {Note(x, "delete") : x \in {q} \cap DOMAIN fs},
                    <<Record1(p, "renamed"), Record1(q, "renamed")>>,
                    Unnoticed({p, q}, to) \cup ((Tree(p) \cup to \cup Overtaken(p, q)) \ {p, q}))
         /\ fs' = [y \in (DOMAIN fs \ Tree(p)) \cup to |->
                     IF y \in to THEN fs[CHOOSE x \in Tree(p) : Renamed(p, q, x) = y] ELSE fs[y]]

\* To where nothing is watched; watched directories stay, and what is watched below p.
MoveOut(p) ==
    /\ p \in DOMAIN fs /\ Tree(p) \cap Root \subseteq {p} \ Directory
    /\ Changes(InParent(p) \cup {Note(p, "rename")}, <<Record1(p, "renamed")>>, Unnoticed(Tree(p), {}))
    /\ fs' = Without(fs, Tree(p))

FsStep ==
    /\ count.changes < MaxChanges
    /\ count.adds > 0      \* what changes before the first addWatch is another layout
    /\ \/ \E p \in Path : Create(p) \/ Write(p) \/ Unlink(p) \/ MoveOut(p)
       \/ \E p, q \in Path : Rename(p, q)

-----------------------------------------------------------------------------
(* The calls of the API, from clients and from callbacks.                   *)

MayCall(th) == call[th] = Idle /\ (th = Loop => lp.at = "callback")
HasMutex    == m_mutex = Free

AddWatch(th, r) ==
    /\ MayCall(th)
    /\ r \in DOMAIN fs /\ r \notin m_watches
    /\ count.adds < MaxAdds /\ count' = [count EXCEPT !.adds = @ + 1]
    /\ m_watches' = m_watches \cup {r}
    /\ Becomes(th, [at |-> "add", root |-> r])
    /\ UNCHANGED <<fs, kqVars, streamVars, loopVars, m_mutex, mirror, missed>>

\* The path is gone: stat fails, or open does.
AddFails(th) ==
    /\ call[th].at = "add" /\ call[th].root \notin DOMAIN fs
    /\ m_watches' = m_watches \ {call[th].root}
    /\ Becomes(th, Idle)
    /\ UNCHANGED <<fs, kqVars, streamVars, loopVars, m_mutex, mirror, missed, count>>

\* stopFSEvents and then startFSEvents, which waits for the mutex its caller holds.
RestartStream(th) ==
    /\ StopStream /\ missed' = missed \cup Lost
    /\ m_eventStream' = NoStream
    /\ m_mutex' = th
    /\ Becomes(th, [at |-> "stuck"])

\* What exists is known, even if a stream that outlived its stop is about to report it.
AddTree(th) ==
    /\ call[th].at = "add" /\ HasMutex
    /\ LET r == call[th].root IN
         /\ r \in RecursiveRoot
         /\ m_fseventsWatchList' = Append(m_fseventsWatchList, r)
         /\ m_knownPaths' = m_knownPaths \cup Tree(r)
    /\ \/ m_running /\ RestartStream(th)
       \/ ~m_running /\ Becomes(th, Idle) /\ missed' = missed \cup (Tree(call[th].root) \cap OnTheWay)
          /\ UNCHANGED <<m_mutex, stream, m_eventStream>>
    /\ UNCHANGED <<fs, kqVars, loopVars, m_watches, mirror, count>>

\* m_mutex is held to the end of addKqueueItem, m_kqMutex in InsertKqItem only.
ScanKqItem(th) ==
    /\ call[th].at = "add" /\ HasMutex
    /\ call[th].root \notin RecursiveRoot
    /\ m_mutex' = th
    /\ \E fd \in 1 .. MaxFd :
         /\ OpenRoot(call[th].root, fd)
         /\ Becomes(th, [at |-> "scanned", item |-> ScannedItem(call[th].root, fd)])
    /\ UNCHANGED <<fs, streamVars, loopVars, userVars, count>>

\* Paths with events found before the mirror is brought up to date and reported after it,
\* or with an event of the descriptor's former file, which is taken for the new one's.
Late(it) ==
    {it.path : e \in {e \in lp.events : e.fd = it.fd}}
    \cup UNION {{e.path, e.old} \cap Path : e \in {e \in Range(m_pendingEvents \o lp.batch) : Under(it.path, e.path)}}

InsertKqItem(th) ==
    /\ call[th].at = "scanned"
    /\ InsertItem(call[th].item)
    /\ m_mutex' = Free
    /\ mirror' = Synced(mirror, {call[th].item.path})
    /\ missed' = missed \cup Late(call[th].item) \cup NewChildren(item'[NewItem])
    /\ Becomes(th, Idle)
    /\ UNCHANGED <<fs, streamVars, loopVars, m_watches, count>>

RemoveWatch(th, r) ==
    /\ MayCall(th) /\ r \in m_watches
    /\ m_watches' = m_watches \ {r}
    /\ Becomes(th, [at |-> "remove", root |-> r])
    /\ UNCHANGED <<fs, kqVars, streamVars, loopVars, m_mutex, mirror, missed, count>>

RemoveTree(th) ==
    /\ call[th].at = "remove" /\ HasMutex
    /\ call[th].root \in Range(m_fseventsWatchList)
    /\ \E j \in FirstIn(m_fseventsWatchList, {call[th].root}) :
          m_fseventsWatchList' = RemoveAt(m_fseventsWatchList, j)
    /\ \/ m_running /\ RestartStream(th)
       \/ ~m_running /\ Becomes(th, Idle) /\ UNCHANGED <<m_mutex, stream, m_eventStream, missed>>
    /\ UNCHANGED <<fs, kqVars, m_knownPaths, loopVars, m_watches, mirror, count>>

\* The item the loop works on outside of m_kqMutex.
Held == IF lp.at \in {"scan", "sync"} THEN {lp.item} ELSE {}

RemoveItem(th) ==
    /\ call[th].at = "remove" /\ HasMutex
    /\ LET r == call[th].root IN
         /\ r \notin Range(m_fseventsWatchList)
         /\ \/ r \in DOMAIN m_kqWatches /\ RemoveKqueueItem(r, Held)
            \/ r \notin DOMAIN m_kqWatches /\ UNCHANGED kqVars
    /\ Becomes(th, Idle)
    /\ UNCHANGED <<fs, streamVars, loopVars, m_mutex, userVars, count>>

Stop(th) ==
    /\ MayCall(th) /\ m_running
    /\ m_running' = FALSE
    /\ Becomes(th, [at |-> "stopStream"])
    /\ UNCHANGED <<fs, kqVars, streamVars, m_pendingEvents, trigger, lp, m_mutex, userVars, count>>

BugStopFSEvents(th) ==    \* mutant: without a stream nothing is left to do
    /\ call[th].at = "stopStream"
    /\ StopStream /\ missed' = missed \cup Lost
    /\ Becomes(th, IF m_eventStream = NoStream THEN Idle ELSE [at |-> "clearStream"])
    /\ UNCHANGED <<fs, kqVars, m_eventStream, m_fseventsWatchList, m_knownPaths, loopVars, m_mutex,
                   m_watches, mirror, count>>

StopFSEvents(th) ==
    /\ call[th].at = "stopStream"
    /\ StopStream /\ missed' = missed \cup Lost
    /\ Becomes(th, [at |-> IF m_eventStream = NoStream THEN "wakeup" ELSE "clearStream"])
    /\ UNCHANGED <<fs, kqVars, m_eventStream, m_fseventsWatchList, m_knownPaths, loopVars, m_mutex,
                   m_watches, mirror, count>>

ClearStream(th) ==
    /\ call[th].at = "clearStream"
    /\ m_eventStream' = NoStream
    /\ Becomes(th, [at |-> "wakeup"])
    /\ UNCHANGED <<fs, kqVars, stream, m_fseventsWatchList, m_knownPaths, loopVars, m_mutex,
                   userVars, count>>

Wakeup(th) ==
    /\ call[th].at = "wakeup"
    /\ trigger' = TRUE
    /\ Becomes(th, Idle)
    /\ UNCHANGED <<fs, kqVars, streamVars, m_running, m_pendingEvents, lp, m_mutex, userVars, count>>

CallStep(th) ==
    \/ \E r \in Root : AddWatch(th, r) \/ RemoveWatch(th, r)
    \/ AddFails(th) \/ AddTree(th) \/ ScanKqItem(th) \/ InsertKqItem(th)
    \/ RemoveTree(th) \/ RemoveItem(th)
    \/ Stop(th) \/ StopFSEvents(th) \/ ClearStream(th) \/ Wakeup(th)

-----------------------------------------------------------------------------
(* The thread of FSEvents.                                                  *)

\* pushEventsToMainThread: the events are queued, then the loop is woken.
BugPushEvents(s) ==    \* mutant: the loop is not woken
    /\ Complete(s)
    /\ m_pendingEvents' = m_pendingEvents \o stream[s].batch
    /\ stream' = [stream EXCEPT ![s].at = "idle", ![s].batch = << >>]
    /\ UNCHANGED <<fs, kqVars, m_eventStream, m_fseventsWatchList, m_knownPaths, m_running, trigger,
                   lp, m_mutex, call, userVars, count>>

PushEvents(s) ==
    /\ Complete(s)
    /\ m_pendingEvents' = m_pendingEvents \o stream[s].batch
    /\ stream' = [stream EXCEPT ![s].at = IF stream[s].batch = << >> THEN "idle" ELSE "wake",
                                ![s].batch = << >>]
    /\ UNCHANGED <<fs, kqVars, m_eventStream, m_fseventsWatchList, m_knownPaths, m_running, trigger,
                   lp, m_mutex, call, userVars, count>>

WakeLoop(s) ==
    /\ stream[s].at = "wake"
    /\ trigger' = TRUE
    /\ stream' = [stream EXCEPT ![s].at = "idle"]
    /\ UNCHANGED <<fs, kqVars, m_eventStream, m_fseventsWatchList, m_knownPaths, m_running,
                   m_pendingEvents, lp, m_mutex, call, userVars, count>>

StreamStep ==
    \E s \in Stream :
        \/ PushEvents(s) \/ WakeLoop(s)
        \/ /\ Deliver(s) \/ Record(s)
           /\ UNCHANGED <<fs, kqVars, loopVars, m_mutex, call, userVars, count>>

-----------------------------------------------------------------------------
(* start and watchLoop.                                                     *)

LoopIs(at, next) == lp.at = at /\ lp' = [lp EXCEPT !.at = next]

Start ==
    /\ LoopIs("out", "begin") /\ call[Loop] = Idle
    /\ ~m_running /\ m_running' = TRUE
    /\ count.starts < MaxStarts /\ count' = [count EXCEPT !.starts = @ + 1]
    /\ UNCHANGED <<fs, kqVars, streamVars, m_pendingEvents, trigger, m_mutex, call, userVars>>

Begin ==
    /\ LoopIs("begin", "while")
    /\ HasMutex /\ StartFSEvents
    /\ mirror' = Synced(mirror, Range(m_fseventsWatchList))
    /\ UNCHANGED <<fs, kqVars, m_fseventsWatchList, m_knownPaths, m_running, m_pendingEvents, trigger,
                   m_mutex, call, m_watches, missed, count>>

While ==
    /\ lp.at = "while"
    /\ lp' = [lp EXCEPT !.at = IF m_running THEN "kevent" ELSE "swap", !.leaving = ~m_running]
    /\ UNCHANGED <<fs, kqVars, streamVars, m_running, m_pendingEvents, trigger, m_mutex, call,
                   userVars, count>>

\* kevent returns what is active and clears it (EV_CLEAR), or times out; a signal ends it
\* with nothing, and the events of the engines wait for the next round.
Active == {fd \in DOMAIN kernel : kernel[fd].active # {}}

Kevent ==
    /\ lp.at = "kevent"
    /\ \/ lp' = [lp EXCEPT !.at = "handle", !.events = {[fd |-> fd, notes |-> kernel[fd].active] : fd \in Active}]
          /\ kernel' = [fd \in DOMAIN kernel |-> [kernel[fd] EXCEPT !.active = {}]]
          /\ trigger' = FALSE
       \/ LoopIs("kevent", "while") /\ UNCHANGED <<kernel, trigger>>
    /\ UNCHANGED <<fs, item, m_kqWatches, m_kqFdMap, m_childFdToPath, torn, streamVars, m_running,
                   m_pendingEvents, m_mutex, call, userVars, count>>

\* handleKevent up to the end of its first critical section, and the events of files.
\* What the loop pushes itself it also dispatches before it sleeps.
FileEventsOf(e) ==
    LET it == item[m_kqFdMap[e.fd]] IN
    IF e.fd \in DOMAIN m_childFdToPath THEN FileNoted(m_childFdToPath[e.fd], e.notes)
    ELSE IF it.path \notin Directory THEN RootFileNoted(it.path, e.notes)
    ELSE IF "write" \notin e.notes /\ "delete" \in e.notes THEN <<FileEvent("delete", it.path)>>
    ELSE << >>

ToScan(e) ==
    /\ e.fd \in DOMAIN m_kqFdMap /\ e.fd \notin DOMAIN m_childFdToPath
    /\ item[m_kqFdMap[e.fd]].path \in Directory /\ "write" \in e.notes

Pushed(events) ==
    /\ m_pendingEvents' = m_pendingEvents \o events
    /\ trigger' = (trigger \/ events # << >>)

Reported(events) == UNION {{e.path, e.old} \cap Path : e \in Range(events)}

\* What an item that was removed or displaced still reports may be out of date for the item
\* that has the path now.
OutOfDate(i, events) == IF i \in torn THEN Reported(events) ELSE {}

HandleFile ==
    /\ lp.at = "handle"
    /\ \E e \in lp.events :
         /\ ~ToScan(e)
         /\ lp' = [lp EXCEPT !.events = @ \ {e}]
         /\ \/ /\ e.fd \in DOMAIN m_kqFdMap /\ Pushed(FileEventsOf(e))
               /\ missed' = missed \cup OutOfDate(m_kqFdMap[e.fd], FileEventsOf(e))
            \/ e.fd \notin DOMAIN m_kqFdMap /\ UNCHANGED <<m_pendingEvents, trigger, missed>>
    /\ UNCHANGED <<fs, kqVars, streamVars, m_running, m_mutex, call, m_watches, mirror, count>>

HandleDirectory ==
    /\ lp.at = "handle"
    /\ \E e \in lp.events :
         /\ ToScan(e)
         /\ lp' = [lp EXCEPT !.at = "scan", !.events = @ \ {e}, !.item = m_kqFdMap[e.fd], !.notes = e.notes]
    /\ UNCHANGED <<fs, kqVars, streamVars, m_running, m_pendingEvents, trigger, m_mutex, call,
                   userVars, count>>

\* scanDirectChildren and diffDirectorySnapshot, outside of the lock.
ScanDirectory ==
    /\ lp.at = "scan"
    /\ LET old == item[lp.item].children
           new == ScanDirectChildren(item[lp.item].path) IN
         /\ \E modified \in SUBSET Changed(old, new) :
              lp' = [lp EXCEPT !.at = "sync", !.batch = Diff(old, new, modified)]
         /\ item' = [item EXCEPT ![lp.item].children = new]
    /\ UNCHANGED <<fs, kernel, m_kqWatches, m_kqFdMap, m_childFdToPath, torn, streamVars, m_running,
                   m_pendingEvents, trigger, m_mutex, call, userVars, count>>

SyncDirectory ==
    /\ lp.at = "sync"
    /\ SyncDirectChildFileWatches(lp.item, item[lp.item], kernel, m_kqFdMap)
    /\ LET events == lp.batch \o (IF "delete" \in lp.notes
                                  THEN <<FileEvent("delete", item[lp.item].path)>> ELSE << >>) IN
         /\ Pushed(events)
         /\ missed' = missed \cup OutOfDate(lp.item, events) \cup NewChildren(item'[lp.item])
    /\ lp' = [lp EXCEPT !.at = "handle", !.item = 0, !.notes = {}, !.batch = << >>]
    /\ UNCHANGED <<fs, m_kqWatches, torn, streamVars, m_running, m_mutex, call, m_watches, mirror, count>>

\* dispatchPendingEventsOnMainThread takes the whole queue, after the events of kevent
\* or after the loop.
SwapPending ==
    /\ lp.at = "swap" \/ (lp.at = "handle" /\ lp.events = {})
    /\ lp' = [lp EXCEPT !.at = "dispatch", !.batch = m_pendingEvents]
    /\ m_pendingEvents' = << >>
    /\ UNCHANGED <<fs, kqVars, streamVars, m_running, trigger, m_mutex, call, userVars, count>>

Dispatch ==
    /\ lp.at = "dispatch" /\ lp.batch # << >>
    /\ mirror' = Followed(mirror, Head(lp.batch))
    /\ lp' = [lp EXCEPT !.at = "callback", !.batch = Tail(@)]
    /\ UNCHANGED <<fs, kqVars, streamVars, m_running, m_pendingEvents, trigger, m_mutex, call,
                   m_watches, missed, count>>

CallbackReturn ==
    /\ call[Loop] = Idle
    /\ LoopIs("callback", "dispatch")
    /\ UNCHANGED <<fs, kqVars, streamVars, m_running, m_pendingEvents, trigger, m_mutex, call,
                   userVars, count>>

Dispatched ==
    /\ lp.at = "dispatch" /\ lp.batch = << >>
    /\ lp' = IF lp.leaving THEN Out ELSE [lp EXCEPT !.at = "while"]
    /\ UNCHANGED <<fs, kqVars, streamVars, m_running, m_pendingEvents, trigger, m_mutex, call,
                   userVars, count>>

LoopStep ==
    \/ Start \/ Begin \/ While \/ Kevent
    \/ HandleFile \/ HandleDirectory \/ ScanDirectory \/ SyncDirectory
    \/ SwapPending \/ Dispatch \/ CallbackReturn \/ Dispatched

Next ==
    \/ FsStep
    \/ \E th \in Thread : CallStep(th)
    \/ StreamStep
    \/ LoopStep

Spec == Init /\ [][Next]_vars

-----------------------------------------------------------------------------

\* The shape of both engines' tables, of m_pendingEvents and of the loop that hands it on.
TypeOK ==
    /\ DOMAIN fs \subseteq Path
    /\ KqTypeOK /\ StreamTypeOK
    /\ m_running \in BOOLEAN /\ m_mutex \in Thread \cup {Free}
    /\ m_pendingEvents \in Seq(FileEvents) /\ trigger \in BOOLEAN
    /\ lp.batch \in Seq(FileEvents) /\ lp.item \in Item \cup {0}
    /\ m_watches \subseteq Root
    /\ DOMAIN mirror \subseteq Seq(STRING) /\ missed \subseteq Path

\* The loop never sleeps on queued events, whichever thread queued them: the user event
\* is pending, or a thread of FSEvents is about to trigger it.
PendingIsHeard ==
    lp.at = "kevent" /\ m_pendingEvents # << >> => trigger \/ \E s \in Stream : stream[s].at = "wake"

\* The loop never sleeps through a stop.
StopIsHeard ==
    lp.at = "kevent" /\ ~m_running =>
        trigger \/ \E th \in Thread : call[th].at \in {"stopStream", "clearStream", "wakeup"}

\* Every open descriptor belongs to an item that is watched, or is about to be; but an
\* item that is removed while the loop scans it, or displaced, may get away with some.
NoLeak ==
    \A fd \in DOMAIN kernel :
        \/ fd \in DOMAIN m_kqFdMap /\ m_kqFdMap[fd] \in Range(m_kqWatches) \cup torn
        \/ \E th \in Thread : call[th].at = "scanned" /\ call[th].item.fd = fd

\* The loop sleeps, and nothing is on its way.
Quiescent ==
    /\ lp.at = "kevent" /\ m_running /\ Active = {} /\ m_pendingEvents = << >>
    /\ \A th \in Thread : call[th].at \in {"idle", "stuck"}
    /\ \A s \in Stream : stream[s].at = "idle" /\ stream[s].buffer = << >>

\* Who follows the events of a path watched by kqueue has it as it is, entries and
\* contents, once all is quiet.  Except for what changed before the registration, for
\* what is reported late of an earlier watch, and for a path that came back before its
\* end was handled, which keeps the descriptor of the former file.
KqMirror ==
    Quiescent => \A r \in DOMAIN m_kqWatches :
        \A p \in {r} \cup {p \in Path : r \in Directory /\ Front(p) = r} :
            InSync(mirror, p) \/ p \in missed

\* The same of a tree watched by FSEvents.  Except for what changed before the stream
\* started, for a path that came back before its end was handled, and for what moved
\* along with a directory, or was not reported yet below one that did.
StreamMirror ==
    Quiescent /\ m_eventStream # NoStream =>
        \A r \in stream[m_eventStream].roots, p \in Path :
            Under(r, p) => InSync(mirror, p) \/ p \in missed
===============================================================================
