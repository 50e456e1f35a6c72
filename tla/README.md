# A TLA+ model of libfilewatch

libfilewatch watches directories on Linux (inotify or fanotify), Windows and macOS. The
user registers paths with callbacks and timers, and gives a thread to `start()`, which
runs everything: file callbacks, timer callbacks, the upkeep of the watches. Other
threads, and the callbacks themselves, call back into the library at any moment.

This directory models the parts whose correctness depends on order: the event loop with
its timers, the way of an event through filter and debouncing to the callbacks, and the
back ends of Linux, macOS and Windows, which turn what a system tells of its files into
events. TLC checks small instances. The TLA+ proof system proves the main safety
properties for every value of the constants.

    tlc -workers 2 -config TimerLoopSafety.cfg TimerLoop.tla
    tlapm TimerLoopProofs.tla

## 1. Inventory

### FileWatcher::Impl (src/src/FileWatcher.cpp)

The facade. It owns a `PlatformWatcher` and hands it three functions: `processEvent` for
the events, `getNextTimeoutMs` and `processExpiredTimers` for the timers. Each part of its
state has a mutex of its own.

| part | state | operations |
|---|---|---|
| watches | `m_watches` (path -> callback, recursive), `m_callbacksMutex` | `addWatch`, `removeWatch`, `addWatchWithRegex`, `dispatchEvent` |
| timers | `m_timers`, and `m_active`, `m_expireTime`, `m_intervalMs` of each `Timer` the user holds; `m_timersMutex` | `addTimer`, `removeTimer`, `getNextTimeoutMs`, `processExpiredTimers` |
| filter | `m_filter`, `m_filterMutex` | `setFilter`, `Filter::passes` |
| debouncing | `m_debounceMap` (path -> stamp), `m_lastDebounceCleanup`, `m_debounceMutex` | `applyDebounce`, `cleanupDebounceMap` |
| errors | `m_lastError`, `m_errorMutex` | every call of the API |

Hard: calls from callbacks and from other threads edit the timers while a batch of them is
being run; callbacks run outside of the locks, from copies; the map of stamps is pruned
while it is being used; `m_watches` and the tables of the back end are changed one after
the other, under different locks.

Correct when: an active timer is in the list and no other is; a timer runs when it is due
and not before; the loop does not sleep past a timer; pruning the stamps changes no
decision and bounds the map; `m_watches` and the back end agree once calls have returned.

### InotifyWatcher (src/src/core/InotifyWatcher.cpp)

The default back end on Linux. `start()` runs `watchLoop`, which sleeps in `epoll_wait` on
the inotify descriptor and on an eventfd. `wakeup()` writes the eventfd. `stop()` clears
the atomic `m_running` and wakes the loop. Five tables under `m_mutex` relate paths, watch
descriptors and the roots the user added. A recursive root has one descriptor for each
directory below it, added by a scan or by the events of new directories.

Hard: `m_running` is tested and stored in two steps; the timeout is computed before the
sleep; a scan takes the lock once per directory and reads the directory outside of it;
directories come, go and move during the scan; the events are older than the state they
meet; descriptors die in the kernel before the tables know.

Correct when: `stop()` ends `start()`; no wakeup is lost; the tables are inverse to each
other; removing a root releases its descriptors; every directory below a recursive root
is watched once everything is quiet.

### MacOSWatcher (src/src/core/MacOSWatcher.cpp)

Two engines. FSEvents watches trees: one stream for all of them, whose batches come on a
thread of the system. kqueue watches single files and directories, with one descriptor for
a directory and one for each file in it, and compares scans of the directory. Both queue
their events in `m_pendingEvents` for the loop, which sleeps in `kevent`. State: the list of
trees and `m_eventStream` (`m_mutex`, partly), the items and two maps from descriptors
(`m_kqMutex`), `m_knownPaths` (`m_knownPathsMutex`), the queue (`m_eventQueueMutex`).

Hard: four mutexes, one of which is taken twice; items taken from a map and used after the
unlock; descriptors that are used again by the system; flags that say what happened and not
when; scans that show where a directory ended up and not how.

Correct when: the tables agree about each descriptor and no descriptor is left open; the
loop sleeps on no queued event and through no stop; who keeps a copy of the files by means
of the events has a true copy once everything is quiet.

### WindowsWatcher (src/src/core/WindowsWatcher.cpp)

One directory handle and one `WatchItem` per watch. The item holds the buffer of the one
read that is always under way; the loop takes packets from a completion port, goes through
the records of the buffer and issues the next read. State: `m_watches` and
`m_knownPathTypes` (`m_mutex`), `m_renameInfo` of the loop.

Hard: a packet carries the address of an item that nothing keeps alive; addresses and
handles are used again; records are lost when nobody reads; stopping, removing and
re-issuing run into each other.

Correct when: every watch is being read while the watcher runs; no read writes into the
buffer being gone through; handles are closed; the copy made by means of the events is true.

### The other parts

| part | state | hard | status |
|---|---|---|---|
| Filter (src/src/FileWatcher.cpp:24-154) | the rules | path prefixes and their slashes | modelled in `Dispatch` |
| FanotifyWatcher (src/src/core/FanotifyWatcher.cpp) | `m_running`, the kernel's marks of whole mounts | | not modelled, see section 5 |
| PlatformWatcher and its factory | none | | an interface, modelled by its implementations |
| PathUtils, EncodingUtils | none | | not modelled: conversions of strings |
| Event, LinuxBackend, Version | none | | not modelled: values |

`PROJECT.json` lists the hazards, each at its line, with the properties that cover it or
the reason why none does.

## 2. The modules

| module | what it models |
|---|---|
| `TimerLoop` | `InotifyWatcher`'s loop and `Impl`'s timers, composed: several threads, the clock, the two descriptors |
| `TimerLoopClaims` | `TimerLoop`, with three statements of the documentation that do not hold |
| `TimerLoopProofs` | theorems about `TimerLoop` |
| `DebounceSpec` | what debouncing promises, with a memory that never forgets |
| `Debounce` | `processEvent`, `applyDebounce`, `cleanupDebounceMap`, `setFilter`; implements `DebounceSpec` |
| `DebounceProofs` | theorems about `Debounce` |
| `Dispatch` | `Filter`, `isPathUnderWatch`, `dispatchEvent`, and `m_watches` between several threads; contains `Debounce` |
| `MCDispatch` | paths, rules and events for TLC |
| `DispatchProofs` | theorems about `Dispatch` |
| `InotifyWatches` | `m_watches` and the tables of `InotifyWatcher`, on a model of directories, the kernel's watches and its event queue |
| `MCInotifyWatches` | sets of paths for TLC |
| `InotifyWatchesProofs`, `InotifyTablesProofs` | theorems about `InotifyWatches`: whatever may happen, and with some `Behaviours` left out |
| `Files` | files and their contents, events, and a follower of events; used by the two back ends below |
| `MacOSKqueue`, `MacOSStream` | the two engines of `MacOSWatcher`, operators and their tables |
| `MacOSWatcher` | both engines, the calls, the FSEvents thread and the loop, composed |
| `MCMacOSWatcher` | files and roots for TLC |
| `MacOSWatcherProofs`, `MacOSMirrorProofs` | theorems about `MacOSWatcher`: its wakeups and descriptors; what it reports |
| `WindowsIO` | directory handles, reads, the completion port and the memory of the items |
| `WindowsWatcher` | `WindowsWatcher`, composed with `WindowsIO` |
| `MCWindowsWatcher` | files and roots for TLC |
| `WindowsWatcherProofs` | theorems about `WindowsWatcher` |

Operators named `Bug...` are faulty variants of the definition that follows them. No
specification uses them; each shows a mistake that a property would find.

### TimerLoop

The variables have the names of the code. `pc[th]` is where a thread is in `start()`,
`call[th]` which call of the API it is in; a thread in a callback has both. One step is one
atomic operation: a critical section of `m_timersMutex`, one load or store of `m_running`,
one read of the clock, one system call. Thus `addTimer` is `AddTimer` (the clock is read
before the lock), `AddTimerLocked`, `Wakeup`, and `stop` is `StopCheck`, `StopStore`,
`Wakeup`.

`watchLoop` is `While`, `NextTimeout`, `EpollWait`, `EpollReturn` or `Interrupted`,
`ReadWakeup` and `ReadInotify` in the order the kernel gives them, `EventsDone`, and then
`processExpiredTimers`: `ReadClock`, `Collect` (the first critical section), and for each
timer of the batch `Fire` or `Skip` (the second) and the callback. When the loop has ended,
the expired timers are run once more, which `leaving` records.

A callback may call anything but `start()`. A file callback may throw, which leaves
`start()` with `m_running` still true. A timer callback may throw too: `processExpiredTimers`
catches it, and the step is `TimerCallbackReturn`.

Abstractions. A tick of the clock is a millisecond, so the truncation in `getNextTimeoutMs`
(a sleep up to one millisecond short) does not show. The cap of 1000 ms is `MaxWait`. The
local variables of a function are reset when it ends. A sleep that would end after
`MaxTime` ends at `MaxTime`: otherwise the end of the clock would keep the loop asleep.

### Debounce

A MODIFY event is handled in three steps: the copy of the filter and its verdict, the read
of the clock, the critical section. `setFilter` and the clock come in between. A filter is
the set of paths it lets pass. `lastEvent` and `reported` are history variables: the code
does not have them, and they tell what a map without clean-ups would know.

`DebounceSpec` passes an event on when its path was quiet for `debounceTime`. Every event
extends the burst, the suppressed ones too: a file that is written without a pause is
reported once, at the beginning. That is what lines 573-576 of the code do.

### Dispatch

An event goes on from `Debounce` (or past it, when it is no MODIFY) to `Collect`, the critical
section of `dispatchEvent`, and to one `Callback` per watch that was found, while other threads
and the callbacks call `addWatch`, `removeWatch` and `setFilter`. `addWatch` is two steps, as the
back end is asked without a lock and may fail.

The code compares characters: a path is the sequence of its characters, and `Excluded`,
`WrongExtension` and `IsPathUnderWatch` are translated as they are. `Names` and `IsFor` say what
they should mean, in terms of names between slashes; `Routing` and `Filtering` compare the two
at the paths of an instance, chosen to be alike. A regular expression is the set of the paths it
matches. `added` and `removed` (history) number the calls of `addWatch`, to tell an entry from a
later one of the same path.

The root `/` is not watched in the model. With it `Routing` fails: inotify reports `//x` for what
is below it, which `isPathUnderWatch` accepts but no excluded path matches, and macOS reports
`/x`, of which `isPathUnderWatch` accepts nothing, as the character after the prefix is no slash.

### InotifyWatches

A path is a sequence of names, a directory has an inode, a watch belongs to an inode. The
environment creates, removes and renames directories, and the kernel queues the events. The
clients call `addWatch` and `removeWatch`, in steps as the locks divide them. The loop
handles one event after the other; a recursive scan, of the loop or of `addWatch`, is one
step per `addDirectoryWatch` and one per `readdir`, so that directories change in between.
Events of files change no table and are left out.

What else may happen is a constant, `Behaviours`:

| behaviour | meaning |
|---|---|
| `overlap` | a call or an event begins while another thread is in the middle of something; without it, all calls come from callbacks or between two events |
| `rename` | directories are renamed |
| `rootGone` | a path of `m_watches` is removed from the file system |
| `strayRemove` | `removeWatch` of a path that was not added |
| `recreated` | a watched directory is removed, and one with the same path is created before the `IN_IGNORED` of the old one is handled |

File system changes overlap with calls and scans in every case. An inotify queue that
overflows is not modelled.

### Files, and the follower

In `MacOSWatcher` and `WindowsWatcher` a file has an inode and a content, which is the number of
the change that wrote it. `mirror` belongs to a user who keeps copies in the way section 12.2 of
doc/DESIGN.md proposes: it copies everything when a watch begins, copies a path again when a
CREATE or MODIFY of it is reported, deletes and renames its copies as it is told. `KqMirror`,
`StreamMirror` and `WindowsMirror` compare it with the files once everything is quiet. They do not
depend on how many events there were, or of which kind, only on what they add up to.

The back ends have gaps, some by design. Each is a history variable that names, at the step
where it happens, what the gap concerns; the properties except exactly that.

| variable | names |
|---|---|
| `missed` (both) | paths about which a change was not noticed or is reported late: between a scan and its registration; files for which no descriptor was left; what an item in `torn` still reports; while no stream is live; what moved along with a directory (macOS); a path that came back before its end was handled; after a loss of records (Windows); below a directory that changes its name, what was not reported by then (`Overtaken`), and all of it when several watches report the change (`Doubled`); when a rename met that of another watch, the old name that was displaced and what was to move to the new one (`Crossed`). What is missed below an old name is missed below the new one (`Carried`) |
| `renamer` (Windows) | no gap itself: the item `m_renameInfo` is of |
| `torn` (macOS) | items removed while the loop scans them, or displaced by another item of the path |
| `deaf` (Windows) | items whose packet was handled between a stop and the next start |
| `misused` (Windows) | items at an address, or with a handle, that an earlier item still used, and displaced ones; `NoKey` for one whose address has been given to another item since |

### MacOSWatcher

`MacOSKqueue` has one operator per critical section of `m_kqMutex`: `InsertItem`,
`RemoveKqueueItem`, `SyncDirectChildFileWatches`, and the scan outside of it. A file is opened with
the lowest free descriptor, so that they are used again; the files of a scan are opened in any order. A file for which none is left goes unwatched, as in the code.
Notes are kept per descriptor until `Kevent`.
The comparison of times and sizes is coarse: of the files that changed any may be noticed
(`ScanDirectory` chooses), as the descriptor of the file tells it too.

`MacOSStream` has streams, old ones included: a batch under way when its stream is stopped is
finished. `Deliver` hands over some of the records, of which several for the same path may be
one (`Merged`); then each record is one step, as the code looks whether the path exists at that time.
What is reported as deleted when a batch ends comes out of a hash set, in any order.

In `MacOSWatcher`, `addWatch` is `AddWatch` (the registry of `Impl`), then `AddTree`, or
`ScanKqItem` and `InsertKqItem`; `removeWatch` is `RemoveWatch` and `RemoveTree` or `RemoveItem`;
`stop` is `Stop`, `StopFSEvents`, `ClearStream`, `Wakeup`. `m_mutex` is explicit: `RestartStream`
stops the stream and then waits for the mutex it holds, and the thread is `stuck` for ever, as are
all that need the mutex later. The loop is `Begin`, `While`, `Kevent`, `HandleFile` or
`HandleDirectory`, `ScanDirectory`, `SyncDirectory`, then `SwapPending`, `Dispatch` and the callbacks.
The events of one sleep are handled in any order.

### WindowsWatcher

`heap` maps an address to what the memory contains, after the item is freed too. `InsertItem` takes
any address that is free, so a packet of a freed item finds the item as it was left or another one.
This is one outcome of behaviour C++ does not define; the model does not claim that it is the worst.
A read completes into the buffer of the item it was issued with. The system keeps `MaxRecords`
records per handle; more are lost altogether, and the next read completes without bytes.

`removeWatch` is `EraseItem` (the lock), `CancelRead`, `CloseItem`, `ForgetItem`; the loop is `While`,
`Timeout` or `Dequeue`, `ProcessEntry` and `NextEntry` per record with the callback in between, and
`Reissue`. A directory that is deleted while it is watched fails its reads, the one under way and every later one,
each by a packet of its own.

## 3. The runs

| run | instance | shows |
|---|---|---|
| `timer_safety` | 2 threads (one runs the loop), a one-shot and a repeating timer, timeouts 1 and 2, `MaxWait` 2, clock to 2, signals, exceptions | the list of timers is exact (`Registered`), no timer is slept past (`NoOversleep`), no stop is slept through (`StopIsHeard`) |
| `timer_live` | 2 threads, one repeating timer, clock to 3, signals, exceptions; `FairSpec` | a stored stop ends `start()` (`StopEndsLoop`); a due timer is run, removed or re-armed (`DueIsServiced`) |
| `timer_lost_stop` | 2 threads, `FairSpec` | violated: a stop during `start()` is lost |
| `timer_early` | two one-shot timers | violated: a timer re-armed in the batch fires early |
| `timer_serial` | two threads that may call `start()` | violated: two loops, two callbacks at once |
| `debounce` | `MCDispatch`: 2 paths that are modified, 5 other events, 4 sets of rules, window 2, interval 2, expiry 3; clock to 9 without watches, or to 1 with two calls of `addWatch` from a client or a callback | the pruned map implements `DebounceSpec` (`ImplementsAbstract`), reports are spaced (`Spacing`), the map forgets (`StampsYoung`); callbacks run for the right watches (`Routing`), by the rules in force (`Filtering`); a failing `addWatch` erases its own entry (`OwnEntry`) |
| `inotify_serial` | two nested recursive roots, a tree of four paths, 3 directories created, no `Behaviours` | `TablesAgree`; when quiet, `NoLeak` and `Covered` |
| `inotify_anything` | a recursive root and one below it that is not, all five `Behaviours`, one rename | `PathsLeadBack`, `KernelKnown` |
| `inotify_overlap_leak` | one recursive root, `overlap` | violated: a scan undoes `removeWatch` and leaks |
| `inotify_renamed` | one recursive root, `rename` | violated: a directory under a name that moved away is not watched |
| `macos` | a directory with three entries or a file under kqueue, or a tree of two directories with a file each under FSEvents; 2 changes of the files, 2 calls of `addWatch`, any calls of `removeWatch` and `stop`, from a client and from callbacks, one `start` | the maps of descriptors agree (`FdsAgree`), none leaks (`NoLeak`); no queued event and no stop is slept through (`PendingIsHeard`, `StopIsHeard`); the copy is true (`KqMirror`, `StreamMirror`) |
| `windows` | a tree of eight paths, watched recursively, and a directory in it, watched by itself; files and directories that are given other names, reported by one watch or by both; 4 changes and calls in any mixture, 2 starts | every watch is read (`WatchIsHeard`), into a buffer nobody goes through (`BufferIsStable`); handles are closed (`NoLeak`); the copy is true (`WindowsMirror`) |

Bounds. The clock of `TimerLoop` lets a timer of 1 expire, be re-armed and expire again, or
expire during the sleep that was computed before it was added. With two timers a callback
can remove or re-arm the other one of its batch. In `timer_live` a repeating timer expires
up to three times; with one timer the temporal check stays small. Both interval and expiry
of `debounce` pass several times before `MaxTime`, and they are such that a stamp is pruned
in the same step that a new one of another path is set. In `inotify_serial` a directory can
be created, found by the scan and by its event, hold another one, be removed and be created
again; `MaxWd` bounds the calls: no path is added once so many descriptors were given.
Nothing needs to happen in `InotifyWatches` once all is quiet and the bounds are reached, so
its configurations do not check for deadlock. In `macos` a thread that waits for its own mutex is a
deadlock the code has, and in both `macos` and `windows` everything may stop when the loop has
ended and no start is left; they do not check for it either. The others do.

In `debounce` the two bounds keep what needs time apart from what needs watches; both contain the
filters and the debouncing. With one call of `addWatch` per thread a failure meets an entry that
another thread added. Two changes in `macos` are a file that is replaced, a rename within the
directory, a directory that is created and filled, or a change that follows the one that is being
handled; the descriptors never run out. A second `start` is not checked: a batch of a stream that was
stopped may then be handled after the copy was made, and `StreamMirror` does not hold. The wakeups are
proved for any number of starts. Four inputs in `windows` are enough to add, remove and add a watch
again with a change in between, while the packet of the first is still queued, or to rename a directory
while a change in it waits. Two of them may also be renames: of a directory, and of a file both watches
report, whose records come between those of the first, as a read may end after any record.

Fairness. `FairSpec` has weak fairness for each step of the loop and of a call that has
begun (the scheduler runs every thread, no lock is held for ever), for the clock, and
strong fairness for the return of callbacks: a callback may call the API as often as it
likes, but it ends. Nothing makes a user call anything, the kernel report anything or a
signal come. `StopEndsLoop` and `DueIsServiced` hold with signals that interrupt every
sleep, because a sleep with timeout 0 cannot be interrupted.

### What the code does not do

1. `timer_lost_stop`: `stop()` looks at `m_running` first. A stop that another thread calls
   right after it started the thread of `start()` may come before the flag is set, and is lost.
2. `timer_early`: the second look at a timer (FileWatcher.cpp:430) checks `m_active` but not
   `m_expireTime`.
3. `timer_serial`: `start()` tests and sets `m_running` in two steps; `stop()` and `start()` in a
   row revive a loop that has not noticed the stop.
4. `inotify_overlap_leak`: `m_rootWatches[rootPath]` in `addDirectoryWatch` creates the entry that
   `removeWatch` has just erased.
5. `inotify_renamed`: `IN_MOVED_FROM` does not erase the path from `m_pathWatchMap`.

Met while modelling the other back ends, where no document says otherwise in so many words:

6. macOS: `addWatch` and `removeWatch` of a tree while the watcher runs hold `m_mutex` and call
   `startFSEvents`, which takes it again (MacOSWatcher.cpp:121, 141, 622): they never return.
7. macOS: an item removed while the loop scans its directory gets the descriptors of new files all the
   same (428), and nothing closes them. A file replaced between two scans keeps the descriptor of the
   former one (253).
8. macOS: `m_knownPaths` keeps the paths of trees that are no longer watched (138); a directory
   created again under one of them is reported to nobody (753, 764). What is in a directory that
   is moved into a tree is not reported either (742).
9. Windows: `removeWatch` frees the item while the packet of its cancelled read is queued
   (WindowsWatcher.cpp:136-140, 248): the loop then reads freed memory, and if it is that of a new item,
   issues a second read into its buffer (256). Called from a callback, it frees the buffer that
   `processNotifications` is in the middle of.
10. Windows: a packet handled between `stop()` and `start()` is not followed by a read (255), and `start()`
    issues none: the directory is not watched any more. A loss of records (249) is passed over in silence.
11. Windows: the old name of a rename is reported as MODIFY, too (329-331 fall through to 353).
12. Windows: there is one `m_renameInfo` for all watches (329, 343). When a read ends between the two records of a
    rename and the next packet, of another watch, has the old name of another rename, the new names are reported
    with the wrong old path, or none (`Crossed`). A rename that two watches report is reported twice, the second
    time perhaps after later changes (`Doubled`; in the instance of `windows` no directory is renamed below both).
13. Windows and FSEvents: an event names the path a file had when it changed. If a directory above it changes its name
    before the event is handled, nothing is at that path any more, and there is no event with the new one
    (`Overtaken`). On macOS the end of a file may even be reported after the renaming, by the old path, as sources
    of renames that found no target are reported last (`Leftover`).

`Covered` is not true with `recreated` either. A scan ignores that `addDirectoryWatch` failed
(InotifyWatcher.cpp:255) and watches directories below one that is not watched; and
`addDirectoryWatch` trusts a descriptor that is dead but whose `IN_IGNORED` is still queued.
In both cases the later `IN_IGNORED` erases the entries of a directory that exists, and no event
of an unwatched parent brings them back. That is why `inotify_serial` excludes `recreated`.

## 4. The proofs

`TimerLoopProofs` proves, for any finite set of timers and any set of threads:

- `TypeCorrect`: `Spec => []TypeOK`.
- `ListIsExact`: `Spec => []Registered`, even when several loops run. That `Collect` drops no
  active timer and that `Fire` retires the right one rest on lemmas about the operators:
  `ErasedProperties`, `RegisteringProperties`, `InOrderProperties`. A consequence: the branch
  that prunes inactive timers (FileWatcher.cpp:406-409) is never taken while timers stay in place.
- `NeverOversleeps` and `StopWakes`: `NoOversleep` and `StopIsHeard`, under the hypothesis that
  at most one thread calls `start()`. With two loops one of them drains the wakeup meant for the other.

The inductive invariant is `IInv == TypeOK /\ BatchInHand /\ Registered /\ NoOversleep /\ StopIsHeard`.
`BatchInHand` (the callback that runs is that of the head of the batch) is needed for the step that takes
the head off. `NoOversleep` is stated from the computation of the timeout on, before the sleep
begins, as otherwise it is not inductive: an `addTimer` in between must already find its wakeup pending.
The proof goes action by action: `CallSleep` for the calls, `LoopSleep` for the loop, `NextSleep` for both.

`DebounceProofs` proves, for any window, interval and expiry with the window no longer than the
expiry (`DebounceAssumption`; 50 and 120000 in the code):

- `TypeCorrect`, `MapForgets` (`StampsYoung`), `Refinement` (`Spec => Abstract!Spec`) and
  `BurstsAreSpaced` (`Spacing`).

The invariant behind the refinement is `MapRemembers`: a path without a stamp was last seen more than
`m_debounceExpireMs` before the last clean-up, so its window is over by now; and `TimesPast`: no stamp
lies ahead of the clock value the current event has read. Without the assumption on the constants the
refinement is false.

`InotifyWatchesProofs` proves, for any sets of paths, roots and clients, any bounds and any `Behaviours`:

- `KernelIsKnown`: `Spec => []KernelKnown`, and `PathsAreUnique`: `Spec => []PathsLeadBack`.

The invariant `Inv` adds `IgnoredIsDead`: a queued `IN_IGNORED` is about a descriptor the kernel has given
up. It is what keeps `HandleIgnored` from erasing the entry of a descriptor in use, however late the event
is handled, and it holds because inotify does not reuse descriptors (`NewDirectory` takes `lastWd + 1`):
the model's assumption about the kernel, which the code relies on. `EntryAdded` and `EntriesForgotten` are
the two ways the pair of maps changes; `EventsOfSelf` and `EventsInParent` say what the kernel appends.

`DispatchProofs` proves, for any threads, paths and rules:

- `ErasesOwnEntry`: `DispatchSpec => []OwnEntry`. A failing `addWatch` erases the entry it made, unless another
  thread has erased that one. The invariant `EntryInv` adds that entries are numbered by calls that happened
  and that no two calls under way have the same number.
- `DispatchDebounces`: `DispatchSpec => Spec`, the specification of `Debounce`. Every step of `DispatchNext` is a step
  of `Debounce` or leaves its variables alone (lemma `DispatchStep`); new rules of the filter are, to `Debounce`, a new
  set of passing paths (`RulesAreFilter`). So `Refinement`, `Spacing` and `StampsYoung` hold of the composition:
  `DispatchImplementsAbstract`, `DispatchIsSpaced`, `DispatchForgets`.
- `EventsAreFiltered`: `DispatchSpec => []Filtering`, with `PassesIsAllowed` as the hypothesis: of the rules and events at hand,
  the comparison of characters in `passes` means what `Allowed` says of names. That is about sequences of characters of any
  length, so TLC decides it, and `Filtering` holds in the run because it is true of the paths there (it is not of `/a//b`,
  which `passes` does not take for `/a/b`). What is proved is the concurrent half: one set of rules, taken in one
  critical section, judges an event (`Judged`), and `m_filter` is what the rules in force let pass (`RulesInForce`).

`MacOSWatcherProofs` proves, for any files, threads, bounds, and any number of starts and streams:

- `StopWakes` (`StopIsHeard`) and `PendingWakes` (`PendingIsHeard`);
- `TablesAgreeAboutFds` (`FdsAgree`) and `DescriptorsAreClosed` (`NoLeak`).

The invariant of the first two is `WakeInv == StreamShapes /\ Announced /\ StopIsHeard`. `Announced` extends `PendingIsHeard`
over the whole round of the loop: from `Kevent`, which may take the trigger, to `SwapPending`, which takes the queue, events
need no trigger. `StreamShapes` says that the loop, the calls and the streams are records, which the updates keep.

That of the other two, `KqInv`, says that every descriptor has one owner: the items, and the items that a call of
`addWatch` has scanned but not inserted, hold disjoint sets of open descriptors, and the two maps name exactly
those of the items. It also says which items the loop may hold across the unlock: one that is still watched, or
one in `torn`. That last part is what the second critical section of `handleKevent` (427-450) needs, as it
opens files for an item that may have been removed meanwhile: the exception in `NoLeak` is the gap in the code.

`MacOSMirrorProofs` proves, for any files, layouts, threads, bounds and number of descriptors:

- `WatcherIsTyped`: `Spec => []TypeOK`. `TypeInv` is about all that is held and queued, by both engines: which events an item of
  a path may report (`KqEvents`), that what a stream reports is at or below a tree that is watched, and that a scan of a
  directory only has what is directly in it. It contains `KqInv`.
- `KqueueIsFollowed`: `Spec => []KqMirror`, under the hypothesis that no path watched by kqueue is below another path of `Root`, or above
  one. The paths of the run are like that. With an overlap two items, or an item and a stream, report one path, each in its
  own order, and the copy made of both is a different matter.

The invariant is `MirrorInv(r)`, for each path `r` that may be watched by kqueue. While `r` is watched, `Followed1` holds of
each path `p` in question, `r` or directly in it, that is not in `missed`. Its parts compare four things: what is at `p`, the last scan of
`r`, what is on its way to the callbacks (`Queue`: the batch being dispatched, `m_pendingEvents`, and what a scan has
just found), and the copy.

- `Snapshot`: the scan has `p` exactly if it exists, or the descriptor of `r` has a note, so that there will be another scan.
- `Departed`: if the scan does not have `p`, the copy is gone or will be: the last event in the queue about it takes it away (`Absent`).
- `Entered`: if it does, and `p` exists, the copy is right or will be (`Present`): an event will have it copied, with none after it that takes
  it away; or it is there, up to date or with a note for the descriptor of `p`.
- `RootOpen` and `ChildrenOpen`: the descriptors refer to what is at these paths now, and ask for the notes the rest relies on.
- `RootTold`: the same as above of `r` itself, which no scan has.

What an event does to a copy depends on what the copies were (a rename moves them), and which events there are depends
on the order of changes, notes, scans and dispatches. So no single event can be shown to be right: the invariant looks only
at the last event that gives or takes `p` (`Given`, `Taken`). `DiffReports` shows that the comparison of two scans ends with the right one, also
where a lost and a new entry become a rename. `Fresh1` is the same for what a call of `addWatch` has scanned and not yet inserted.
In the steps of the files the work is in what comes back: a path that is there again before its end was handled
would break `ChildrenOpen`, as it keeps the descriptor of the former file. `missed` has it from that step on (`Undelivered`).

`WindowsWatcherProofs` proves, for any files, threads, addresses, handles and number of starts:

- `WatchesAreHeard` (`WatchIsHeard`), `BuffersAreStable` (`BufferIsStable`) and `HandlesAreClosed` (`NoLeak`);
- `WatcherIsTyped`: `Spec => []TypeOK`.

The idea of the first invariant, `IInv`, is a token: unless it is `misused`, an item has at most one of a read under way, a packet
in the port and the loop's attention, and a watch has exactly one unless it is `deaf` or being added. `Dequeue` moves
the token from the port to the loop, `Reissue` from the loop to a read, a completion from the read to the port. An
address or a handle that is used again is where this breaks in the code, so the invariant also says that
each use of an old address or handle has put the new item into `misused`.

`Typed`, for the last, follows the names: a record that the system notes for a handle is of a path below the directory of
that handle (`Named`), and is so from the handle to a buffer and from there to the event, because the read, the key of the handle
and the item are of one watch (`Straight`). That ends with the first item that is `misused`: a buffer filled for one
directory is then read as that of another, and what `m_renameInfo` keeps need not be a path at all. `TypeOK` claims only
as much, and that every pointer in use is to memory there is holds without exception.

`InotifyTablesProofs` proves, for any paths, roots, clients and bounds, each theorem under the hypothesis that some of
the `Behaviours` do not happen (the run `inotify_serial` excludes them all):

| theorem | states | without | with |
|---|---|---|---|
| `TypesAreKept` | `TypeOK` | renames | calls that overlap, roots removed and recreated, any `removeWatch` |
| `NothingLeaks` | `NoLeak` | overlap | renames, roots removed and recreated, any `removeWatch` |
| `TheTablesAgree` | `TablesAgree` | renames, overlap, stray `removeWatch` | roots removed and recreated |
| `EverythingIsCovered` | `Covered` | all five, as in `inotify_serial` | directories created and removed during scans |

`NamedInv` is the invariant of the first: as names stay, a descriptor is listed under the path its inode still has
(`Held`), and a queued event is of a directory that had that name. `SerialInv` is that of the second: when calls come one
after the other, a thread in the middle of a scan is the only one, and the root it scans for is in `m_watches` with its
callback, so that every descriptor has a root and every root a callback; with an overlap `removeWatch` takes
the root from under the scan, which is the finding `inotify_overlap_leak`. `AgreeInv` adds that a root is in
`m_rootWatches` whenever a descriptor names it. All of them contain the `Inv` of `InotifyWatchesProofs`, and
TLC has checked them on the instance of `inotify_serial`.

`CoverInv` is what `Covered` needs while the watcher is not quiet. Every existing directory below a watched root is in one
of three states (`Covering`): it is watched under its path for that root (`WatchedFor`); a create event of a live descriptor
at or above it waits in the queue, and will have it scanned (`Announced`); or a thread in the middle of a scan has it,
or a directory above it, still before it (`Due`). A step may only take a directory from one state to another: a scan
watches a directory before it lists it, so one that is created in between is announced if it is not listed.
`Fresh` says that a descriptor listed for a path that exists is of the inode at that path: otherwise `addDirectoryWatch`
finds the path in `m_pathWatchMap` and adds no watch. A directory that comes back before its end is handled breaks
`Fresh` (`recreated`, see section 3), and so does one that is renamed, as the finding `inotify_renamed` shows.

Only model-checked: the liveness properties (out of the prover's reach); `Routing`, and the half of `Filtering` which
compares what two definitions say of sequences of characters; and `StreamMirror` and `WindowsMirror`, because what a
stream and a buffer report depends on what whole sequences of records add up to (merged records, the two halves of a
rename with other records between them), for which the argument above has no counterpart yet.

## 5. Not modelled

- FanotifyWatcher. `addWatch` marks a mount for `FAN_CREATE | FAN_DELETE` on a group that was made without
  `FAN_REPORT_FID`; `fanotify_mark` refuses that (EINVAL), so no watch is ever added and the rest of the
  class, but for its loop, is not reached. The loop is that of `InotifyWatcher`, which `TimerLoop` models.
- The types of paths in `WindowsWatcher` (`m_knownPathTypes`): a directory that is there before `addWatch` is
  reported as a FILE when it is removed (300). A path of the models is of one type for good.
- The timers in the loops of macOS and Windows, where they are called as on Linux; the destructors, which may
  only run when no call is under way.
- `m_lastError`: one value for all threads, which nothing reads but `getLastError`.
- The spelling of paths (PathUtils, EncodingUtils), symbolic links, permissions, regular expressions, and
  running out of handles, memory, or descriptors for what `addWatch` is called with. After a watched directory is deleted, `removeWatch` can no
  longer resolve the links in its path (FileWatcher.cpp:259) and may miss the entry.
- The overflow of inotify's queue, which the code does not handle.
- The moves and the destructor of a registered `Timer`: undefined behaviour of a caller who breaks the rules.
