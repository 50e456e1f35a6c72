---------------------------- MODULE WindowsWatcher ----------------------------
(***************************************************************************)
(* WindowsWatcher: one directory handle, with one read, per watch; the     *)
(* loop takes packets off the completion port, reports the records of the  *)
(* buffer one by one and issues the next read.  mirror is what the         *)
(* follower of Files has.                                                  *)
(*                                                                         *)
(* A packet carries the address of the item.  Nothing keeps the item alive *)
(* until then: removeWatch frees it while the packet of the read it        *)
(* cancelled is queued.  Memory that is freed is as it was left, or is     *)
(* that of the next item at this address.                                  *)
(***************************************************************************)
EXTENDS WindowsIO

CONSTANTS
    Root,           \* the directories addWatch is called with
    RecursiveRoot,  \* those watched with recursive = true
    Layout,         \* the sets of paths that may exist at first
    Client,         \* the threads that call the API
    MaxInputs,      \* bound: changes of the files and calls of addWatch, removeWatch, stop
    MaxStarts       \* bound: calls of start

ASSUME RootAssumption == Root \subseteq Path /\ RecursiveRoot \subseteq Root
ASSUME LayoutAssumption == \A paths \in Layout : paths \subseteq Path

VARIABLES
    m_watches,      \* path -> address of its item
    m_renameInfo,   \* the old path of a rename, or << >>
    m_running,
    lp,             \* the loop: where it is, the item and the record of its buffer
    call,           \* the call each thread is in the middle of
    registered,     \* Impl::m_watches: the paths with a callback
    renamer,        \* history: the item m_renameInfo is of, or NoKey
    mirror,         \* history: path -> content
    missed,         \* history: paths about which a change was not noticed, or not in time
    deaf,           \* history: items not read again because the watcher was stopping
    misused,        \* history: items whose memory or handle an earlier one still used; NoKey
                    \* stands for those that are gone
    count           \* how much of the bounds is used up

userVars == <<registered, renamer, mirror, missed, deaf, misused>>
vars == <<fs, ioVars, m_watches, m_renameInfo, m_running, lp, call, userVars, count>>

Loop   == "loop"
Thread == Client \cup {Loop}
Idle   == [at |-> "idle"]
Out    == [at |-> "out", item |-> NoKey, entry |-> 0]

Becomes(th, c) == call' = [call EXCEPT ![th] = c]

Init ==
    /\ \E paths \in Layout : fs = [p \in paths |-> [inode |-> 0, content |-> 0]]
    /\ handle = << >> /\ iocp = << >> /\ heap = << >>
    /\ m_watches = << >> /\ m_renameInfo = << >> /\ m_running = FALSE
    /\ lp = Out
    /\ call = [th \in Thread |-> Idle]
    /\ registered = {} /\ renamer = NoKey
    /\ mirror = << >> /\ missed = {} /\ deaf = {} /\ misused = {}
    /\ count = [inputs |-> 0, changes |-> 0, starts |-> 0]

-----------------------------------------------------------------------------
(* Files change.  Directories do not move while they are watched.           *)

Record(action, path) == [action |-> action, path |-> path]

Changes(records, unnoticed) ==
    /\ count' = [count EXCEPT !.inputs = @ + 1, !.changes = @ + 1]
    /\ handle' = Recorded(records)
    /\ missed' = missed \cup unnoticed
         \cup UNION {{p \in Path : Reports(h, p)} : h \in Losing(records)}
    /\ UNCHANGED <<heap, m_watches, m_renameInfo, m_running, lp, call, registered, renamer, mirror, deaf, misused>>

Fresh(p) == [inode |-> 0, content |-> IF p \in Directory THEN 0 ELSE count'.changes]

Create(p) ==
    /\ p \notin DOMAIN fs /\ (Len(p) > 1 => Front(p) \in DOMAIN fs)
    /\ Changes(<<Record("added", p)>>, {})
    /\ fs' = With(fs, p, Fresh(p))
    /\ UNCHANGED iocp

Write(p) ==
    /\ p \in DOMAIN fs \ Directory
    /\ Changes(<<Record("modified", p)>>, {})
    /\ fs' = [fs EXCEPT ![p].content = count'.changes]
    /\ UNCHANGED iocp

Unlink(p) ==
    /\ p \notin Root /\ Tree(p) = {p}
    /\ Changes(<<Record("removed", p)>>, {})
    /\ fs' = Without(fs, {p})
    /\ UNCHANGED iocp

\* A watched directory is deleted: its reads fail, for good.
UnlinkRoot(r) ==
    /\ Tree(r) = {r}
    /\ count' = [count EXCEPT !.inputs = @ + 1, !.changes = @ + 1]
    /\ fs' = Without(fs, {r})
    /\ handle' = Died(r, Recorded(<<Record("removed", r)>>))
    /\ missed' = missed \cup UNION {{p \in Path : Reports(h, p)} : h \in Losing(<<Record("removed", r)>>)}
    /\ UNCHANGED <<iocp, heap, m_watches, m_renameInfo, m_running, lp, call, registered, renamer, mirror,
                   deaf, misused>>

\* The paths of the records in a buffer from the k-th on, and of those not read yet.
From(a, k) == {heap[a].path \o heap[a].buffer[j].name : j \in {j \in DOMAIN heap[a].buffer : j >= k}}
Unread(h)  == {handle[h].dir \o handle[h].records[j].name : j \in DOMAIN handle[h].records}
Below(S)   == {p \in Path : \E q \in S : Under(q, p)}
Inside(q)  == Below({q}) \ {q}

\* What was found and is not reported yet.
Late ==
    ({m_renameInfo} \cap Path)
    \cup (UNION {Unread(h) : h \in Handle})
    \cup (UNION {From(iocp[k].key, 1) : k \in {k \in DOMAIN iocp : iocp[k].size > 0}})
    \cup CASE lp.at = "process"  -> From(lp.item, lp.entry)
           [] lp.at = "callback" -> From(lp.item, lp.entry + 1)
           [] OTHER              -> {}

\* Where the changes below p that are not reported yet are once p is called q: the events
\* say where they were.
Overtaken(p, q) == {Renamed(p, q, x) : x \in {x \in Late : Under(p, x) /\ x # p}} \cap Path

\* A change of names that several watches report moves what is below every time, also what
\* got there since.
Doubled(p, q) == IF Cardinality({h \in Handle : handle[h].key # NoKey /\ Reports(h, p)}) > 1
                 THEN Inside(p) \cup Inside(q) ELSE {}

\* Within a directory; a file that is there is replaced.
Rename(p, q) ==
    /\ p \in DOMAIN fs /\ p # q /\ SameType(p, q) /\ Len(p) > 1 /\ Len(q) > 1
    /\ Front(p) = Front(q)
    /\ q \in DOMAIN fs => q \notin Directory
    /\ Tree(p) \cap (registered \cup {handle[h].dir : h \in Handle}) = {}
    /\ \A x \in Tree(p) : Renamed(p, q, x) \in Path
    /\ LET to == {Renamed(p, q, x) : x \in Tree(p)} IN
         /\ Changes((IF q \in DOMAIN fs THEN <<Record("removed", q)>> ELSE << >>)
                      \o <<Record("old", p), Record("new", q)>>, Overtaken(p, q) \cup Doubled(p, q))
         /\ fs' = [y \in (DOMAIN fs \ Tree(p)) \cup to |->
                     IF y \in to THEN fs[CHOOSE x \in Tree(p) : Renamed(p, q, x) = y] ELSE fs[y]]
    /\ UNCHANGED iocp

\* From one directory to another, or to where nothing is watched (a file, then: what
\* moves along with a directory is not recorded).
Move(p, q) ==
    /\ p \in DOMAIN fs \ Directory /\ q \in Path \ (DOMAIN fs \cup Directory)
    /\ Len(p) > 1 /\ Len(q) > 1 /\ Front(p) # Front(q) /\ Front(q) \in DOMAIN fs
    /\ Changes(<<Record("removed", p), Record("added", q)>>, {})
    /\ fs' = With(Without(fs, {p}), q, fs[p])
    /\ UNCHANGED iocp

FsStep ==
    /\ count.inputs < MaxInputs
    /\ count.inputs > 0      \* what changes before the first addWatch is another layout
    /\ \/ \E p \in Path : Create(p) \/ Write(p) \/ Unlink(p)
       \/ \E r \in Root : UnlinkRoot(r)
       \/ \E p, q \in Path : Rename(p, q) \/ Move(p, q)

ReadStep ==
    /\ \E h \in Handle : Complete(h)
    /\ UNCHANGED <<fs, m_watches, m_renameInfo, m_running, lp, call, userVars, count>>

-----------------------------------------------------------------------------
(* The calls of the API, from clients and from callbacks.                   *)

Calls(th) ==
    /\ call[th] = Idle /\ (th = Loop => lp.at = "callback")
    /\ count.inputs < MaxInputs /\ count' = [count EXCEPT !.inputs = @ + 1]

\* An item lives as long as m_watches or a removeWatch has it.
Live == Range(m_watches) \cup {call[th].item : th \in {th \in Thread : call[th].at \in {"cancel", "close", "forget"}}}
Address == 1 .. MaxInputs

\* The loop has a packet of an earlier item at this address, or will get one.
StillUsed(a) ==
    \/ lp.item = a
    \/ \E k \in DOMAIN iocp : iocp[k].key = a
    \/ \E h \in Handle : a \in Range(handle[h].reads) \cup {handle[h].key}

\* issueRead; the buffer is written when the read completes.
IssueRead(a, h, handles) == [handles EXCEPT ![h].reads = Append(@, a)]
CanRead(h) == h \in Handle /\ ~handle[h].dead

AddWatch(th, r) ==
    /\ Calls(th)
    /\ r \in DOMAIN fs /\ r \notin registered
    /\ registered' = registered \cup {r}
    /\ Becomes(th, [at |-> "add", root |-> r])
    /\ UNCHANGED <<fs, ioVars, m_watches, m_renameInfo, m_running, lp, renamer, mirror, missed, deaf, misused>>

AddFails(th) ==
    /\ call[th].at = "add" /\ call[th].root \notin DOMAIN fs
    /\ registered' = registered \ {call[th].root}
    /\ Becomes(th, Idle)
    /\ UNCHANGED <<fs, ioVars, m_watches, m_renameInfo, m_running, lp, renamer, mirror, missed, deaf, misused, count>>

OpenDirectory(th) ==
    /\ call[th].at = "add" /\ call[th].root \in DOMAIN fs
    /\ Open(call[th].root, call[th].root \in RecursiveRoot)
    /\ Becomes(th, [at |-> "opened", root |-> call[th].root, h |-> NewHandle])
    /\ UNCHANGED <<fs, iocp, heap, m_watches, m_renameInfo, m_running, lp, userVars, count>>

\* A file cannot be read like a directory, nor can a directory that was deleted.
ReadFails(th) ==
    /\ call[th].at = "opened"
    /\ call[th].root \notin Directory \/ handle[call[th].h].dead
    /\ handle' = Without(handle, {call[th].h})
    /\ registered' = registered \ {call[th].root}
    /\ Becomes(th, Idle)
    /\ UNCHANGED <<fs, iocp, heap, m_watches, m_renameInfo, m_running, lp, renamer, mirror, missed, deaf,
                   misused, count>>

\* The critical section of addWatch; an item the path has already is displaced.
InsertItem(th) ==
    /\ call[th].at = "opened"
    /\ call[th].root \in Directory /\ CanRead(call[th].h)
    /\ LET r == call[th].root
           h == call[th].h IN
       \E a \in Address \ Live :
         /\ heap' = With(heap, a, [path |-> r, hDir |-> h, buffer |-> << >>])
         /\ handle' = IssueRead(a, h, [handle EXCEPT ![h].key = a])
         /\ m_watches' = With(m_watches, r, a)
         /\ mirror' = Synced(mirror, {r})
         /\ missed' = missed \cup Below(Late)
         /\ deaf' = deaf \ {a}
         /\ misused' = {IF b = a THEN NoKey ELSE b : b \in misused}
                         \cup {b \in {a} : StillUsed(a) \/ handle[h].reads # << >>}
                         \cup {m_watches[p] : p \in {r} \cap DOMAIN m_watches}
    /\ Becomes(th, Idle)
    /\ UNCHANGED <<fs, iocp, m_renameInfo, m_running, lp, registered, renamer, count>>

RemoveWatch(th, r) ==
    /\ Calls(th) /\ r \in registered
    /\ registered' = registered \ {r}
    /\ Becomes(th, [at |-> "remove", root |-> r])
    /\ UNCHANGED <<fs, ioVars, m_watches, m_renameInfo, m_running, lp, renamer, mirror, missed, deaf, misused>>

EraseItem(th) ==
    /\ call[th].at = "remove"
    /\ LET r == call[th].root IN
         /\ m_watches' = Without(m_watches, {r})
         /\ Becomes(th, IF r \in DOMAIN m_watches THEN [at |-> "cancel", item |-> m_watches[r]] ELSE Idle)
    /\ UNCHANGED <<fs, ioVars, m_renameInfo, m_running, lp, userVars, count>>

CancelRead(th) ==
    /\ call[th].at = "cancel"
    /\ CancelIoEx(heap[call[th].item].hDir, call[th].item)
    /\ Becomes(th, [call[th] EXCEPT !.at = "close"])
    /\ UNCHANGED <<fs, heap, m_watches, m_renameInfo, m_running, lp, userVars, count>>

BugCloseItem(th) ==    \* mutant: the read is cancelled, but the handle stays open
    /\ call[th].at = "close"
    /\ Becomes(th, [call[th] EXCEPT !.at = "forget"])
    /\ UNCHANGED <<fs, ioVars, m_watches, m_renameInfo, m_running, lp, userVars, count>>

CloseItem(th) ==
    /\ call[th].at = "close"
    /\ CloseHandle(heap[call[th].item].hDir)
    /\ Becomes(th, [call[th] EXCEPT !.at = "forget"])
    /\ missed' = missed \cup Below(Unread(heap[call[th].item].hDir))
    /\ UNCHANGED <<fs, heap, m_watches, m_renameInfo, m_running, lp, registered, renamer, mirror, deaf,
                   misused, count>>

\* hDir = INVALID_HANDLE_VALUE; then the item is freed.
ForgetItem(th) ==
    /\ call[th].at = "forget"
    /\ heap' = [heap EXCEPT ![call[th].item].hDir = Invalid]
    /\ Becomes(th, Idle)
    /\ UNCHANGED <<fs, handle, iocp, m_watches, m_renameInfo, m_running, lp, userVars, count>>

Stop(th) ==
    /\ Calls(th) /\ m_running
    /\ m_running' = FALSE
    /\ Becomes(th, [at |-> "wakeup"])
    /\ UNCHANGED <<fs, ioVars, m_watches, m_renameInfo, lp, userVars>>

PostWakeup(th) ==
    /\ call[th].at = "wakeup"
    /\ iocp' = Append(iocp, Wakeup)
    /\ Becomes(th, Idle)
    /\ UNCHANGED <<fs, handle, heap, m_watches, m_renameInfo, m_running, lp, userVars, count>>

CallStep(th) ==
    \/ \E r \in Root : AddWatch(th, r) \/ RemoveWatch(th, r)
    \/ AddFails(th) \/ OpenDirectory(th) \/ ReadFails(th) \/ InsertItem(th)
    \/ EraseItem(th) \/ CancelRead(th) \/ CloseItem(th) \/ ForgetItem(th)
    \/ Stop(th) \/ PostWakeup(th)

-----------------------------------------------------------------------------
(* start and watchLoop.                                                     *)

LoopIs(at, next) == lp.at = at /\ lp' = [lp EXCEPT !.at = next]

Start ==
    /\ LoopIs("out", "while") /\ call[Loop] = Idle
    /\ ~m_running /\ m_running' = TRUE
    /\ count.starts < MaxStarts /\ count' = [count EXCEPT !.starts = @ + 1]
    /\ UNCHANGED <<fs, ioVars, m_watches, m_renameInfo, call, userVars>>

While ==
    /\ lp.at = "while"
    /\ lp' = IF m_running THEN [lp EXCEPT !.at = "wait"] ELSE Out
    /\ UNCHANGED <<fs, ioVars, m_watches, m_renameInfo, m_running, call, userVars, count>>

\* GetQueuedCompletionStatus: nothing until the timeout, a wakeup, or a read.
Timeout ==
    /\ iocp = << >>
    /\ LoopIs("wait", "while")
    /\ UNCHANGED <<fs, ioVars, m_watches, m_renameInfo, m_running, call, userVars, count>>

BugDequeueDone ==    \* mutant: a packet without records is done with
    /\ lp.at = "wait" /\ iocp # << >>
    /\ iocp' = Tail(iocp)
    /\ LET packet == Head(iocp) IN
         lp' = IF packet.ok /\ packet.size > 0 THEN [at |-> "process", item |-> packet.key, entry |-> 1]
               ELSE [lp EXCEPT !.at = "while"]
    /\ UNCHANGED <<fs, handle, heap, m_watches, m_renameInfo, m_running, call, userVars, count>>

BugDequeueFirst ==    \* mutant: the next read is issued before the records are handled
    /\ lp.at = "wait" /\ iocp # << >>
    /\ iocp' = Tail(iocp)
    /\ LET packet == Head(iocp) IN
         /\ lp' = IF packet = Wakeup THEN [lp EXCEPT !.at = "while"]
                  ELSE [at |-> "process", item |-> packet.key, entry |-> 1]
         /\ handle' = IF packet # Wakeup /\ CanRead(heap[packet.key].hDir)
                      THEN IssueRead(packet.key, heap[packet.key].hDir, handle) ELSE handle
    /\ UNCHANGED <<fs, heap, m_watches, m_renameInfo, m_running, call, userVars, count>>

Dequeue ==
    /\ lp.at = "wait" /\ iocp # << >>
    /\ iocp' = Tail(iocp)
    /\ LET packet == Head(iocp) IN
         lp' = IF packet = Wakeup THEN [lp EXCEPT !.at = "while"]
               ELSE [at    |-> IF packet.ok /\ packet.size > 0 THEN "process" ELSE "reissue",
                     item  |-> packet.key, entry |-> 1]
    /\ UNCHANGED <<fs, handle, heap, m_watches, m_renameInfo, m_running, call, userVars, count>>

\* The record at hand; a buffer that was never written reads as zeroes.
Entry == LET b == heap[lp.item].buffer IN
         IF lp.entry \in DOMAIN b THEN b[lp.entry] ELSE [action |-> "none", name |-> << >>]
BugEventPath == Entry.name    \* mutant: the name below the directory, as it is recorded
EventPath == heap[lp.item].path \o Entry.name

\* The events of a record; the old name of a rename is also reported as modified.
EventOf(entry, path) ==
    CASE entry.action = "added"   -> FileEvent("create", path)
      [] entry.action = "removed" -> FileEvent("delete", path)
      [] entry.action = "new"     -> RenameEvent(path, m_renameInfo)
      [] OTHER                    -> FileEvent("modify", path)

\* The old name of another rename waits for its new one, which will not find it, and
\* leaves behind what is below.
Crossed == CASE Entry.action = "old" /\ m_renameInfo # << >> -> Below({m_renameInfo})
             [] Entry.action = "new" /\ renamer # lp.item    -> Inside(EventPath)
             [] OTHER                                        -> {}

\* What was missed below the old name is missed below the new one.
Carried == IF Entry.action = "new" /\ renamer = lp.item
           THEN {Renamed(m_renameInfo, EventPath, x) : x \in missed \cap Inside(m_renameInfo)} \cap Path
           ELSE {}

ProcessEntry ==
    /\ LoopIs("process", "callback")
    /\ m_renameInfo' = CASE Entry.action = "old" -> EventPath
                         [] Entry.action = "new" -> << >>
                         [] OTHER                -> m_renameInfo
    /\ mirror' = Followed(mirror, EventOf(Entry, EventPath))
    /\ renamer' = CASE Entry.action = "old" -> lp.item
                    [] Entry.action = "new" -> NoKey
                    [] OTHER                -> renamer
    /\ missed' = missed \cup Crossed \cup Carried
    /\ UNCHANGED <<fs, ioVars, m_watches, m_running, call, registered, deaf, misused, count>>

\* The callback returns; the chain of records goes on, or ends.
BugNextEntry ==    \* mutant: the record whose NextEntryOffset is 0 is left out
    /\ lp.at = "callback" /\ call[Loop] = Idle
    /\ lp' = IF lp.entry + 1 < Len(heap[lp.item].buffer) THEN [lp EXCEPT !.at = "process", !.entry = @ + 1]
             ELSE [lp EXCEPT !.at = "reissue"]
    /\ UNCHANGED <<fs, ioVars, m_watches, m_renameInfo, m_running, call, userVars, count>>

NextEntry ==
    /\ lp.at = "callback" /\ call[Loop] = Idle
    /\ lp' = IF lp.entry < Len(heap[lp.item].buffer) THEN [lp EXCEPT !.at = "process", !.entry = @ + 1]
             ELSE [lp EXCEPT !.at = "reissue"]
    /\ UNCHANGED <<fs, ioVars, m_watches, m_renameInfo, m_running, call, userVars, count>>

\* The critical section after a packet.
Reissue ==
    /\ lp.at = "reissue"
    /\ LET a == lp.item
           h == heap[lp.item].hDir
           last == IF m_running \/ h \notin Handle THEN {} ELSE Unread(h) IN
         /\ missed' = missed \cup Below(last)
         /\ handle' = IF m_running /\ CanRead(h) THEN IssueRead(a, h, handle) ELSE handle
         /\ deaf' = IF m_running THEN deaf ELSE deaf \cup {a}
         /\ misused' = IF h \in Handle /\ handle[h].key # a THEN misused \cup {handle[h].key} ELSE misused
    /\ lp' = [Out EXCEPT !.at = "while"]
    /\ UNCHANGED <<fs, iocp, heap, m_watches, m_renameInfo, m_running, call, registered, renamer, mirror, count>>

LoopStep == Start \/ While \/ Timeout \/ Dequeue \/ ProcessEntry \/ NextEntry \/ Reissue

Next ==
    \/ FsStep
    \/ ReadStep
    \/ \E th \in Thread : CallStep(th)
    \/ LoopStep

Spec == Init /\ [][Next]_vars

-----------------------------------------------------------------------------

\* The shape of m_watches, m_renameInfo, the handles and the loop; every pointer in use is
\* into the heap.  What a buffer says happened is of a path, until one was misused.
TypeOK ==
    /\ DOMAIN fs \subseteq Path
    /\ IOTypeOK
    /\ DOMAIN m_watches \subseteq Root /\ Range(m_watches) \subseteq DOMAIN heap
    /\ m_renameInfo \in Seq(STRING) /\ m_running \in BOOLEAN
    /\ misused = {} => m_renameInfo \in Path \cup {<< >>}
    /\ renamer \in Address \cup {NoKey}
    /\ lp.item \in DOMAIN heap \cup {NoKey}
    /\ registered \subseteq Root
    /\ DOMAIN mirror \subseteq Seq(STRING) /\ missed \subseteq Path

\* While the watcher runs, each watched directory is being read, or a packet of it is on
\* its way to where the next read is issued; unless it was deleted, or its packet was
\* handled between a stop and the next start.
WatchIsHeard ==
    m_running => \A r \in DOMAIN m_watches :
        LET a == m_watches[r]
            h == heap[a].hDir IN
        \/ handle[h].dead \/ a \in deaf
        \/ handle[h].reads # << >>
        \/ lp.item = a
        \/ \E k \in DOMAIN iocp : iocp[k].key = a

\* The buffer the loop goes through is not the target of a read.
BufferIsStable ==
    lp.at \in {"process", "callback"} /\ lp.item \notin misused =>
        \A h \in Handle : lp.item \notin Range(handle[h].reads)

\* Every open handle belongs to an item that is watched, or to a call under way, or was
\* displaced with its item.
NoLeak ==
    \A h \in Handle :
        \/ \E a \in Live : heap[a].hDir = h
        \/ \E th \in Thread : call[th].at = "opened" /\ call[th].h = h
        \/ handle[h].key \in misused \ {NoKey}

\* The loop waits, and nothing is on its way.
Quiescent ==
    /\ lp.at = "wait" /\ m_running /\ iocp = << >>
    /\ \A th \in Thread : call[th] = Idle
    /\ \A h \in Handle : ~CanComplete(h)

Healthy(r) ==
    LET a == m_watches[r] IN a \notin deaf \cup misused /\ ~handle[heap[a].hDir].dead

\* Who follows the events has what is below a watched directory as it is, once all is
\* quiet.  Except after a loss of records, for what is reported late of an earlier watch, for
\* what was not reported yet below a directory that changed its name, for what moved along
\* with a directory whose change of name several watches report, and for the names of a
\* rename that met another one between its two.
WindowsMirror ==
    Quiescent => \A r \in DOMAIN m_watches : Healthy(r) =>
        \A p \in Path : Reports(heap[m_watches[r]].hDir, p) => InSync(mirror, p) \/ p \in missed
===============================================================================
