---------------------------- MODULE InotifyWatches ----------------------------
(***************************************************************************)
(* Which directories are watched: the table m_watches of FileWatcher::Impl *)
(* on top of the five tables of InotifyWatcher on top of the kernel's      *)
(* inotify instance.  Clients call addWatch and removeWatch, the thread of *)
(* the loop handles the queued events, other processes create, remove and  *)
(* rename directories.  m_mutex is held for one step at a time: a          *)
(* recursive scan takes it once per directory, and reads the directory     *)
(* outside of it.                                                          *)
(*                                                                         *)
(* Only directories are modelled: an event of a file changes no table.     *)
(* A path is the sequence of names below the directory << >>.              *)
(***************************************************************************)
EXTENDS Integers, FiniteSets, SequencesExt

CONSTANTS
    Path,           \* the paths there may be directories at, sequences of names
    MaxMkdir,       \* bound: directories created in one behaviour
    MaxRename,      \* bound: directories renamed in one behaviour
    MaxWd,          \* bound: no path is added once so many descriptors were given
    Root,           \* the paths addWatch and removeWatch are called with
    RecursiveRoot,  \* those watched with recursive = true
    Client,         \* the threads that call them
    Behaviours      \* what may happen besides: see MayHappen

ASSUME PathAssumption ==
    Path \subseteq Seq(STRING) /\ << >> \in Path /\ \A p \in Path \ {<< >>} : Front(p) \in Path
ASSUME RootAssumption == Root \subseteq Path /\ RecursiveRoot \subseteq Root

VARIABLES
    fs,                 \* directory path -> inode
    lastInode,          \* inodes are numbered as they are created
    renames,            \* renames so far, the source of cookies
    kernel,             \* watch descriptor -> inode, of the inotify instance
    lastWd,             \* the kernel does not use a descriptor again
    queue,              \* the events not read yet
    m_watches,          \* Impl::m_watches: the paths with a callback
    m_rootWatches,      \* root path -> [recursive, associatedWds]
    m_watchMap,         \* watch descriptor -> path
    m_pathWatchMap,     \* path -> watch descriptor
    m_watchRecursive,   \* the watch descriptors marked recursive
    m_wdToRoots,        \* watch descriptor -> root paths
    m_renameMap,        \* the cookies of renames half seen
    op                  \* what each thread is in the middle of

fsVars     == <<fs, lastInode, renames>>
kernelVars == <<kernel, lastWd, queue>>
tableVars  == <<m_rootWatches, m_watchMap, m_pathWatchMap, m_watchRecursive, m_wdToRoots>>
vars       == <<fsVars, kernelVars, m_watches, tableVars, m_renameMap, op>>

Loop   == "loop"
Thread == Client \cup {Loop}
Idle   == [at |-> "idle"]

\* "overlap": calls run while the loop, or another call, is in the middle of something;
\* without it every call comes from a callback, or between two events.
\* "rename": directories are renamed.   "rootGone": a watched root is removed.
\* "strayRemove": removeWatch is called with a path that was not added.
\* "recreated": a directory takes the place of a watched one that was removed before the
\* IN_IGNORED of the old one is handled.
MayHappen(b) == b \in Behaviours

\* A thread may begin something.
MayBegin(th) == op[th] = Idle /\ (MayHappen("overlap") \/ \A other \in Thread : op[other] = Idle)

Under(r, p) == IsPrefix(r, p)
Children(p) == {q \in DOMAIN fs : q # << >> /\ Front(q) = p}
Without(f, S) == Restrict(f, DOMAIN f \ S)
With(f, x, v) == [y \in DOMAIN f \cup {x} |-> IF y = x THEN v ELSE f[y]]

Scan == [at : {"visit", "list"}, todo : SUBSET Path, dir : Path, start : Path,
         root : Root, roots : SUBSET Root]

Ops == {Idle} \cup [at : {"insertRoot", "addRoot", "eraseRoot", "eraseWatch", "removeRoot"}, root : Root]
       \cup [at : {"roots"}, wd : Nat, path : Path] \cup Scan

Event == [kind : {"create", "delete", "moved_from", "moved_to"}, wd : Nat,
          name : {Last(p) : p \in Path \ {<< >>}}, cookie : Nat]
         \cup [kind : {"delete_self", "ignored"}, wd : Nat]

\* The shape of m_watchMap, m_pathWatchMap, m_renameMap, of the kernel's watches and of its queue.
TypeOK ==
    /\ DOMAIN fs \subseteq Path /\ Range(fs) \subseteq 0 .. lastInode
    /\ Range(kernel) \subseteq 0 .. lastInode
    /\ DOMAIN kernel \subseteq 1 .. lastWd
    /\ queue \in Seq(Event)
    /\ m_watches \subseteq Root
    /\ DOMAIN m_rootWatches \subseteq Root
    /\ \A r \in DOMAIN m_rootWatches :
          m_rootWatches[r] \in [recursive : BOOLEAN, associatedWds : SUBSET (1 .. lastWd)]
    /\ DOMAIN m_watchMap \subseteq 1 .. lastWd /\ Range(m_watchMap) \subseteq Path
    /\ DOMAIN m_pathWatchMap \subseteq Path /\ Range(m_pathWatchMap) \subseteq 1 .. lastWd
    /\ m_watchRecursive \subseteq 1 .. lastWd
    /\ DOMAIN m_wdToRoots \subseteq 1 .. lastWd /\ Range(m_wdToRoots) \subseteq SUBSET Root
    /\ m_renameMap \subseteq 1 .. renames
    /\ \A th \in Thread : op[th] \in Ops

Init ==
    /\ fs = [p \in {<< >>} |-> 0]
    /\ lastInode = 0 /\ renames = 0
    /\ kernel = << >> /\ lastWd = 0 /\ queue = << >>
    /\ m_watches = {}
    /\ m_rootWatches = << >> /\ m_watchMap = << >> /\ m_pathWatchMap = << >>
    /\ m_watchRecursive = {} /\ m_wdToRoots = << >>
    /\ m_renameMap = {}
    /\ op = [th \in Thread |-> Idle]

Becomes(th, o) == op' = [op EXCEPT ![th] = o]

-----------------------------------------------------------------------------
(* Directories change, and the kernel queues what happens where it watches. *)

WdOf(i) == {wd \in DOMAIN kernel : kernel[wd] = i}

\* The path map still has a descriptor the kernel has given up.
Outdated(p) == p \in DOMAIN m_pathWatchMap /\ m_pathWatchMap[p] \notin DOMAIN kernel

\* The event of the entry p in its parent directory, if that is watched.
InParent(kind, p, cookie) ==
    {[kind |-> kind, wd |-> wd, name |-> Last(p), cookie |-> cookie] : wd \in WdOf(fs[Front(p)])}

OfSelf(kind, wds) == {[kind |-> kind, wd |-> wd] : wd \in wds}

Mkdir(p) ==
    /\ p # << >> /\ p \notin DOMAIN fs /\ Front(p) \in DOMAIN fs
    /\ lastInode < MaxMkdir
    /\ MayHappen("recreated") \/ ~Outdated(p)
    /\ lastInode' = lastInode + 1
    /\ fs' = With(fs, p, lastInode')
    /\ queue' = queue \o SetToSeq(InParent("create", p, 0))
    /\ UNCHANGED <<renames, kernel, lastWd, m_watches, tableVars, m_renameMap, op>>

\* The watch of a removed directory goes with it: IN_DELETE_SELF and IN_IGNORED.
Rmdir(p) ==
    /\ p \in DOMAIN fs \ {<< >>} /\ Children(p) = {}
    /\ MayHappen("rootGone") \/ p \notin m_watches
    /\ LET wds == WdOf(fs[p]) IN
         /\ kernel' = Without(kernel, wds)
         /\ queue' = queue \o SetToSeq(OfSelf("delete_self", wds)) \o SetToSeq(OfSelf("ignored", wds))
                           \o SetToSeq(InParent("delete", p, 0))
    /\ fs' = Without(fs, {p})
    /\ UNCHANGED <<lastInode, renames, lastWd, m_watches, tableVars, m_renameMap, op>>

\* The directories below move with it; watches belong to inodes and stay.
Rename(p, q) ==
    /\ MayHappen("rename") /\ renames < MaxRename
    /\ p \in DOMAIN fs \ {<< >>} /\ q \notin DOMAIN fs /\ q # << >>
    /\ Front(q) \in DOMAIN fs /\ ~Under(p, q)
    /\ LET moved == {x \in DOMAIN fs : Under(p, x)}
           To(x) == q \o SubSeq(x, Len(p) + 1, Len(x)) IN
         /\ \A x \in moved : To(x) \in Path
         /\ \A x \in moved : x \notin m_watches
         /\ fs' = [y \in (DOMAIN fs \ moved) \cup {To(x) : x \in moved} |->
                     IF y \in DOMAIN fs \ moved THEN fs[y] ELSE fs[CHOOSE x \in moved : To(x) = y]]
    /\ renames' = renames + 1
    /\ queue' = queue \o SetToSeq(InParent("moved_from", p, renames'))
                      \o SetToSeq(InParent("moved_to", q, renames'))
    /\ UNCHANGED <<lastInode, kernel, lastWd, m_watches, tableVars, m_renameMap, op>>

-----------------------------------------------------------------------------
(* InotifyWatcher::addDirectoryWatch, one critical section.  It trusts the  *)
(* path map before it asks the kernel, and makes an entry of m_rootWatches  *)
(* for a root that has none.                                                *)

BugLinked(wd, p, r, recursive) ==    \* mutant: the directory is made a root itself
    /\ m_watchRecursive' = IF recursive THEN m_watchRecursive \cup {wd} ELSE m_watchRecursive
    /\ m_rootWatches' = With(m_rootWatches, p,
         IF p \in DOMAIN m_rootWatches
         THEN [m_rootWatches[p] EXCEPT !.associatedWds = @ \cup {wd}]
         ELSE [recursive |-> FALSE, associatedWds |-> {wd}])
    /\ m_wdToRoots' = With(m_wdToRoots, wd,
         IF wd \in DOMAIN m_wdToRoots THEN m_wdToRoots[wd] \cup {p} ELSE {p})

Linked(wd, p, r, recursive) ==
    /\ m_watchRecursive' = IF recursive THEN m_watchRecursive \cup {wd} ELSE m_watchRecursive
    /\ m_rootWatches' = With(m_rootWatches, r,
         IF r \in DOMAIN m_rootWatches
         THEN [m_rootWatches[r] EXCEPT !.associatedWds = @ \cup {wd}]
         ELSE [recursive |-> FALSE, associatedWds |-> {wd}])
    /\ m_wdToRoots' = With(m_wdToRoots, wd,
         IF wd \in DOMAIN m_wdToRoots THEN m_wdToRoots[wd] \cup {r} ELSE {r})

KnownDirectory(p, r, recursive) ==
    /\ p \in DOMAIN m_pathWatchMap
    /\ Linked(m_pathWatchMap[p], p, r, recursive)
    /\ UNCHANGED <<kernelVars, m_watchMap, m_pathWatchMap>>

\* inotify_add_watch returns the descriptor of the inode, a new one if it has none.
NewDirectory(p, r, recursive) ==
    /\ p \notin DOMAIN m_pathWatchMap /\ p \in DOMAIN fs
    /\ LET wd == IF WdOf(fs[p]) = {} THEN lastWd + 1 ELSE CHOOSE w \in WdOf(fs[p]) : TRUE IN
         /\ kernel' = With(kernel, wd, fs[p])
         /\ lastWd' = IF wd > lastWd THEN wd ELSE lastWd
         /\ m_watchMap' = With(m_watchMap, wd, p)
         /\ m_pathWatchMap' = With(m_pathWatchMap, p, wd)
         /\ Linked(wd, p, r, recursive)
    /\ UNCHANGED queue

NoDirectory(p) ==
    /\ p \notin DOMAIN m_pathWatchMap /\ p \notin DOMAIN fs
    /\ UNCHANGED <<kernelVars, tableVars>>

AddDirectoryWatch(p, r, recursive) == KnownDirectory(p, r, recursive) \/ NewDirectory(p, r, recursive)

-----------------------------------------------------------------------------
(* addRecursiveWatches: the directory, then what readdir finds below it.    *)

ScanOf(p, r, roots) ==
    [at |-> "visit", todo |-> {p}, dir |-> p, start |-> p, root |-> r, roots |-> roots]

Visit(th, p) ==
    /\ op[th].at = "visit" /\ p \in op[th].todo
    /\ \/ AddDirectoryWatch(p, op[th].root, TRUE)
       \/ NoDirectory(p)
    /\ Becomes(th, [op[th] EXCEPT !.at = "list", !.dir = p, !.todo = @ \ {p}])
    /\ UNCHANGED <<fsVars, m_watches, m_renameMap>>

\* An entry that is gone when stat looks at it is passed over.
PassOver(th, p) ==
    /\ op[th].at = "visit" /\ p \in op[th].todo \ {op[th].start}
    /\ p \notin DOMAIN fs
    /\ Becomes(th, [op[th] EXCEPT !.todo = @ \ {p}])
    /\ UNCHANGED <<fsVars, kernelVars, m_watches, tableVars, m_renameMap>>

\* opendir and readdir, without the lock.
List(th) ==
    /\ op[th].at = "list"
    /\ Becomes(th, [op[th] EXCEPT !.at = "visit", !.todo = @ \cup Children(op[th].dir)])
    /\ UNCHANGED <<fsVars, kernelVars, m_watches, tableVars, m_renameMap>>

\* The loop over roots of processEvent, or the end.
ScanDone(th) ==
    /\ op[th].at = "visit" /\ op[th].todo = {}
    /\ \/ op[th].roots = {} /\ Becomes(th, Idle)
       \/ \E r \in op[th].roots : Becomes(th, ScanOf(op[th].start, r, op[th].roots \ {r}))
    /\ UNCHANGED <<fsVars, kernelVars, m_watches, tableVars, m_renameMap>>

-----------------------------------------------------------------------------
(* addWatch: Impl's entry first, then InotifyWatcher's.                     *)

AddWatch(th, r) ==
    /\ MayBegin(th)
    /\ lastWd < MaxWd
    /\ r \in DOMAIN fs
    /\ r \notin m_watches
    /\ m_watches' = m_watches \cup {r}
    /\ Becomes(th, [at |-> "insertRoot", root |-> r])
    /\ UNCHANGED <<fsVars, kernelVars, tableVars, m_renameMap>>

InsertRoot(th) ==
    /\ op[th].at = "insertRoot"
    /\ LET r == op[th].root IN
         /\ m_rootWatches' =
              With(m_rootWatches, r, [recursive |-> r \in RecursiveRoot, associatedWds |-> {}])
         /\ Becomes(th, [at |-> "addRoot", root |-> r])
    /\ UNCHANGED <<fsVars, kernelVars, m_watches, m_watchMap, m_pathWatchMap, m_watchRecursive,
                   m_wdToRoots, m_renameMap>>

AddRoot(th) ==
    /\ op[th].at = "addRoot"
    /\ LET r == op[th].root IN
         \/ /\ AddDirectoryWatch(r, r, r \in RecursiveRoot)
            /\ Becomes(th, IF r \in RecursiveRoot THEN ScanOf(r, r, {}) ELSE Idle)
         \/ /\ NoDirectory(r)
            /\ Becomes(th, [at |-> "eraseRoot", root |-> r])
    /\ UNCHANGED <<fsVars, m_watches, m_renameMap>>

\* The directory was gone: both entries are erased again, one after the other.
EraseRoot(th) ==
    /\ op[th].at = "eraseRoot"
    /\ m_rootWatches' = Without(m_rootWatches, {op[th].root})
    /\ Becomes(th, [op[th] EXCEPT !.at = "eraseWatch"])
    /\ UNCHANGED <<fsVars, kernelVars, m_watches, m_watchMap, m_pathWatchMap, m_watchRecursive,
                   m_wdToRoots, m_renameMap>>

EraseWatch(th) ==
    /\ op[th].at = "eraseWatch"
    /\ m_watches' = m_watches \ {op[th].root}
    /\ Becomes(th, Idle)
    /\ UNCHANGED <<fsVars, kernelVars, tableVars, m_renameMap>>

-----------------------------------------------------------------------------
(* removeWatch.                                                             *)

RemoveWatch(th, r) ==
    /\ MayBegin(th)
    /\ MayHappen("strayRemove") \/ r \in m_watches
    /\ m_watches' = m_watches \ {r}
    /\ Becomes(th, [at |-> "removeRoot", root |-> r])
    /\ UNCHANGED <<fsVars, kernelVars, tableVars, m_renameMap>>

\* The erasures for descriptors that are gone, or that no root needs any more.
BugForget(wds) ==    \* mutant: m_watchMap keeps the descriptors
    /\ m_pathWatchMap' = Without(m_pathWatchMap, {m_watchMap[wd] : wd \in wds \cap DOMAIN m_watchMap})
    /\ m_watchMap' = m_watchMap
    /\ m_watchRecursive' = m_watchRecursive \ wds

Forget(wds) ==
    /\ m_pathWatchMap' = Without(m_pathWatchMap, {m_watchMap[wd] : wd \in wds \cap DOMAIN m_watchMap})
    /\ m_watchMap' = Without(m_watchMap, wds)
    /\ m_watchRecursive' = m_watchRecursive \ wds

\* inotify_rm_watch, which queues an IN_IGNORED of its own, and the erasures.
BugRelease(wds) ==    \* mutant: the kernel is not told
    Forget(wds) /\ UNCHANGED kernelVars

Release(wds) ==
    LET live == wds \cap DOMAIN kernel IN
    /\ kernel' = Without(kernel, live)
    /\ queue' = queue \o SetToSeq(OfSelf("ignored", live))
    /\ Forget(wds)
    /\ UNCHANGED lastWd

\* A root gives up its descriptors; those it shared stay with the other roots.
Owned(r)   == m_rootWatches[r].associatedWds \cap DOMAIN m_wdToRoots
BugUnneeded(r) == {wd \in Owned(r) : m_watchMap[wd] = r}    \* mutant: its own one only
Unneeded(r) == {wd \in Owned(r) : m_wdToRoots[wd] = {r}}

RemoveRoot(th) ==
    /\ op[th].at = "removeRoot"
    /\ LET r == op[th].root IN
         /\ r \in DOMAIN m_rootWatches
         /\ m_wdToRoots' = [wd \in DOMAIN m_wdToRoots \ Unneeded(r) |->
                              IF wd \in Owned(r) THEN m_wdToRoots[wd] \ {r} ELSE m_wdToRoots[wd]]
         /\ m_rootWatches' = Without(m_rootWatches, {r})
         /\ Release(Unneeded(r))
    /\ Becomes(th, Idle)
    /\ UNCHANGED <<fsVars, m_watches, m_renameMap>>

\* A path that is no root is released whoever watches through it, or is unknown.
RemovePath(th) ==
    /\ op[th].at = "removeRoot" /\ op[th].root \notin DOMAIN m_rootWatches
    /\ \/ /\ op[th].root \in DOMAIN m_pathWatchMap
          /\ LET wd == m_pathWatchMap[op[th].root] IN
               m_wdToRoots' = Without(m_wdToRoots, {wd}) /\ Release({wd})
       \/ /\ op[th].root \notin DOMAIN m_pathWatchMap
          /\ UNCHANGED <<kernelVars, m_watchMap, m_pathWatchMap, m_watchRecursive, m_wdToRoots>>
    /\ Becomes(th, Idle)
    /\ UNCHANGED <<fsVars, m_watches, m_rootWatches, m_renameMap>>

-----------------------------------------------------------------------------
(* InotifyWatcher::processEvent, on the thread of the loop.                 *)

NextEvent(kinds) == MayBegin(Loop) /\ queue # << >> /\ Head(queue).kind \in kinds

BugHandleIgnored ==    \* mutant: the roots keep the descriptor in associatedWds
    /\ NextEvent({"ignored"})
    /\ LET wd == Head(queue).wd IN
         Forget({wd}) /\ m_wdToRoots' = Without(m_wdToRoots, {wd})
    /\ queue' = Tail(queue)
    /\ UNCHANGED <<fsVars, kernel, lastWd, m_watches, m_rootWatches, m_renameMap, op>>

HandleIgnored ==
    /\ NextEvent({"ignored"})
    /\ LET wd == Head(queue).wd IN
         /\ Forget({wd})
         /\ m_rootWatches' =
              [r \in DOMAIN m_rootWatches |->
                 IF wd \in DOMAIN m_wdToRoots /\ r \in m_wdToRoots[wd]
                 THEN [m_rootWatches[r] EXCEPT !.associatedWds = @ \ {wd}]
                 ELSE m_rootWatches[r]]
         /\ m_wdToRoots' = Without(m_wdToRoots, {wd})
    /\ queue' = Tail(queue)
    /\ UNCHANGED <<fsVars, kernel, lastWd, m_watches, m_renameMap, op>>

\* The path an event is about, for a descriptor the watcher knows.
EventPath(e) == Append(m_watchMap[e.wd], e.name)

\* An event that changes no table: of a descriptor the watcher has forgotten, a
\* removed entry, the first half of a rename (its cookie is kept), or a new
\* directory where nothing is recursive.
HandleOther ==
    /\ NextEvent({"create", "moved_to", "moved_from", "delete", "delete_self"})
    /\ LET e == Head(queue)
           known == e.wd \in DOMAIN m_watchMap IN
         /\ ~known \/ e.kind \notin {"create", "moved_to"} \/ e.wd \notin m_watchRecursive
         /\ m_renameMap' = IF known /\ e.kind = "moved_from" THEN m_renameMap \cup {e.cookie}
                           ELSE IF known /\ e.kind = "moved_to" THEN m_renameMap \ {e.cookie}
                           ELSE m_renameMap
    /\ queue' = Tail(queue)
    /\ UNCHANGED <<fsVars, kernel, lastWd, m_watches, tableVars, op>>

\* A directory appears in one that is watched recursively.
HandleAppeared ==
    /\ NextEvent({"create", "moved_to"})
    /\ LET e == Head(queue) IN
         /\ e.wd \in DOMAIN m_watchMap /\ e.wd \in m_watchRecursive
         /\ m_renameMap' = m_renameMap \ {e.cookie}
         /\ Becomes(Loop, [at |-> "roots", wd |-> e.wd, path |-> EventPath(e)])
    /\ queue' = Tail(queue)
    /\ UNCHANGED <<fsVars, kernel, lastWd, m_watches, tableVars>>

\* The roots whose watch the new directory inherits, in a critical section of its own.
BugHeirs(wd) ==    \* mutant: only directories right below a root inherit its watch
    {r \in DOMAIN m_rootWatches : m_rootWatches[r].recursive /\ m_watchMap[wd] = r}

Heirs(wd) ==
    {r \in Root : /\ wd \in DOMAIN m_wdToRoots /\ r \in m_wdToRoots[wd]
                  /\ r \in DOMAIN m_rootWatches /\ m_rootWatches[r].recursive}

FindRoots ==
    /\ op[Loop].at = "roots"
    /\ LET heirs == Heirs(op[Loop].wd) IN
         \/ heirs = {} /\ Becomes(Loop, Idle)
         \/ \E r \in heirs : Becomes(Loop, ScanOf(op[Loop].path, r, heirs \ {r}))
    /\ UNCHANGED <<fsVars, kernelVars, m_watches, tableVars, m_renameMap>>

-----------------------------------------------------------------------------

FsStep ==
    \/ \E p \in Path : Mkdir(p) \/ Rmdir(p)
    \/ \E p, q \in Path : Rename(p, q)

ScanStep(th) ==
    \/ List(th) \/ ScanDone(th)
    \/ op[th].at = "visit" /\ \E p \in op[th].todo : Visit(th, p) \/ PassOver(th, p)

ClientStep(th) ==
    \/ \E r \in Root : AddWatch(th, r) \/ RemoveWatch(th, r)
    \/ InsertRoot(th) \/ AddRoot(th) \/ EraseRoot(th) \/ EraseWatch(th)
    \/ RemoveRoot(th) \/ RemovePath(th)

LoopStep == HandleIgnored \/ HandleOther \/ HandleAppeared \/ FindRoots

Next ==
    \/ FsStep
    \/ \E th \in Client : ClientStep(th)
    \/ \E th \in Thread : ScanStep(th)
    \/ LoopStep

Spec == Init /\ [][Next]_vars

-----------------------------------------------------------------------------

\* Nothing is queued, and no thread is in the middle of anything.
Quiescent == queue = << >> /\ \A th \in Thread : op[th] = Idle

\* Whatever overlaps, moves or goes: the path of a descriptor in m_watchMap leads back
\* to that descriptor in m_pathWatchMap, so no two descriptors have the same path.
PathsLeadBack ==
    \A wd \in DOMAIN m_watchMap :
        m_watchMap[wd] \in DOMAIN m_pathWatchMap /\ m_pathWatchMap[m_watchMap[wd]] = wd

\* Whatever overlaps, moves or goes: an event of a descriptor the kernel still holds
\* finds its path, and removeWatch or IN_IGNORED can still reach the descriptor.
KernelKnown == DOMAIN kernel \subseteq DOMAIN m_watchMap

\* The invariant behind KernelKnown: a descriptor whose IN_IGNORED is queued is dead, and
\* the kernel gives out new ones only.
IgnoredIsDead ==
    \A i \in DOMAIN queue : queue[i].kind = "ignored" =>
        queue[i].wd \in 1 .. lastWd /\ queue[i].wd \notin DOMAIN kernel

\* While directories keep their names and calls do not overlap scans, the two maps
\* between paths and descriptors are inverse to each other, and so are the two
\* relations between roots and descriptors: removeWatch and IN_IGNORED, which each
\* follow one of them, erase the same.
TablesAgree ==
    /\ \A p \in DOMAIN m_pathWatchMap :
          m_pathWatchMap[p] \in DOMAIN m_watchMap /\ m_watchMap[m_pathWatchMap[p]] = p
    /\ DOMAIN m_wdToRoots = DOMAIN m_watchMap
    /\ \A r \in Root, wd \in 1 .. lastWd :
          (wd \in DOMAIN m_wdToRoots /\ r \in m_wdToRoots[wd])
             <=> (r \in DOMAIN m_rootWatches /\ wd \in m_rootWatches[r].associatedWds)

\* When all is quiet, every watch the kernel holds is there for a path that is still
\* in m_watches: removeWatch and the loss of directories leak no descriptor.
NoLeak ==
    Quiescent => \A wd \in DOMAIN kernel :
        wd \in DOMAIN m_wdToRoots /\ m_wdToRoots[wd] # {} /\ m_wdToRoots[wd] \subseteq m_watches

\* When all is quiet, every directory below a recursively watched path, however
\* late and in whatever order it was created, is watched under its own path.
Covered ==
    Quiescent => \A r \in m_watches \cap RecursiveRoot, p \in DOMAIN fs : Under(r, p) =>
        \E wd \in WdOf(fs[p]) :
            /\ wd \in DOMAIN m_watchMap /\ m_watchMap[wd] = p
            /\ wd \in m_watchRecursive /\ r \in m_wdToRoots[wd]
===============================================================================
