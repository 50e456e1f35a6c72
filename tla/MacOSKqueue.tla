----------------------------- MODULE MacOSKqueue ------------------------------
(***************************************************************************)
(* The kqueue engine of MacOSWatcher: a watched file has one descriptor, a *)
(* watched directory has one and one more for each file directly in it.    *)
(* The directory's descriptor only tells that entries changed; which ones, *)
(* a scan finds by comparison with the one before.                         *)
(* Every operator below is one critical section of m_kqMutex, or reads the *)
(* file system outside of it.                                              *)
(***************************************************************************)
EXTENDS Files

CONSTANT MaxFd      \* bound: the descriptors there are, more than enough in the run

ASSUME FdAssumption == MaxFd \in Nat

VARIABLES
    kernel,             \* descriptor -> [inode, interest, active], of the kqueue
    item,               \* number -> KqItem
    m_kqWatches,        \* path -> number of its item
    m_kqFdMap,          \* descriptor -> number of an item
    m_childFdToPath,    \* descriptor -> path of a file in a watched directory
    torn                \* history: the items removed, or displaced, in the middle of something

tables == <<kernel, item, m_kqWatches, m_kqFdMap, m_childFdToPath>>
kqVars == <<tables, torn>>

Item == DOMAIN item
NewItem == Cardinality(Item) + 1

\* open gives the lowest descriptor that is free; several files, which come out of a map,
\* are opened in any order.
LowestFree(n) ==
    LET free == (1 .. MaxFd) \ DOMAIN kernel
    IN  {fd \in free : Cardinality({other \in free : other < fd}) < n}
Openings(paths) == {f \in [LowestFree(Cardinality(paths)) -> paths] : IsInjective(f)}

Descriptor(p, interest) == [inode |-> fs[p].inode, interest |-> interest, active |-> {}]

\* The notes registerKevent asks for; a write stands for NOTE_WRITE, NOTE_EXTEND and
\* NOTE_ATTRIB, which are handled alike.
Interest(p) == {"write", "delete", "rename"}

ScanDirectChildren(p) == [q \in Entries(p) |-> fs[q].content]

KqInit ==
    /\ kernel = << >> /\ item = << >>
    /\ m_kqWatches = << >> /\ m_kqFdMap = << >> /\ m_childFdToPath = << >>
    /\ torn = {}

\* The children a snapshot has, but no descriptor yet; a directory gets none.
BugNewChildren(it) ==    \* mutant: directories get one
    {p \in DOMAIN it.children \ DOMAIN it.childFileFds : p \in DOMAIN fs}

NewChildren(it) ==
    {p \in DOMAIN it.children \ DOMAIN it.childFileFds : p \notin Directory /\ p \in DOMAIN fs}

\* syncDirectChildFileWatches: descriptors of files that are new in the snapshot are
\* opened, then those of files that left it are closed.
SyncDirectChildFileWatches(i, it, descriptors, fdMap) ==
    LET gone   == DOMAIN it.childFileFds \ DOMAIN it.children
        closed == {it.childFileFds[p] : p \in gone}
    IN  \E opened \in Openings(NewChildren(it)) :
        /\ item' = With(item, i,
                     [it EXCEPT !.childFileFds = Joined(Without(@, gone), AntiFunction(opened))])
        /\ kernel' = Without(Joined([fd \in DOMAIN opened |-> Descriptor(opened[fd], {"write"})],
                                    descriptors), closed)
        /\ m_kqFdMap' = Without(Joined([fd \in DOMAIN opened |-> i], fdMap), closed)
        /\ m_childFdToPath' = Without(Joined(opened, m_childFdToPath), closed)

\* addKqueueItem, outside of the lock: open and scan.
OpenRoot(p, fd) ==
    /\ p \in DOMAIN fs /\ fd \in LowestFree(1)
    /\ kernel' = With(kernel, fd, Descriptor(p, {}))
    /\ UNCHANGED <<item, m_kqWatches, m_kqFdMap, m_childFdToPath, torn>>

ScannedItem(p, fd) ==
    [path |-> p, fd |-> fd, childFileFds |-> << >>,
     children |-> IF p \in Directory THEN ScanDirectChildren(p) ELSE << >>]

\* addKqueueItem, the critical section; a path that is watched already is displaced.
InsertItem(it) ==
    /\ m_kqWatches' = With(m_kqWatches, it.path, NewItem)
    /\ torn' = torn \cup {m_kqWatches[p] : p \in {it.path} \cap DOMAIN m_kqWatches}
    /\ SyncDirectChildFileWatches(NewItem, it,
         [kernel EXCEPT ![it.fd].interest = Interest(it.path)], With(m_kqFdMap, it.fd, NewItem))

\* removeKqueueItem.  An item the loop holds lives on.
BugRemoveKqueueItem(p, held) ==    \* mutant: the children's descriptors stay open
    LET i == m_kqWatches[p] IN
    /\ kernel' = Without(kernel, {item[i].fd})
    /\ m_kqFdMap' = Without(m_kqFdMap, {item[i].fd})
    /\ m_kqWatches' = Without(m_kqWatches, {p})
    /\ torn' = IF i \in held THEN torn \cup {i} ELSE torn
    /\ item' = [item EXCEPT ![i].fd = 0, ![i].childFileFds = << >>]
    /\ UNCHANGED m_childFdToPath

BugRemoveUnmapped(p, held) ==    \* mutant: m_childFdToPath is not erased
    LET i   == m_kqWatches[p]
        fds == Range(item[i].childFileFds) \cup {item[i].fd}
    IN  /\ kernel' = Without(kernel, fds)
        /\ m_kqFdMap' = Without(m_kqFdMap, fds)
        /\ m_kqWatches' = Without(m_kqWatches, {p})
        /\ torn' = IF i \in held THEN torn \cup {i} ELSE torn
        /\ item' = [item EXCEPT ![i].fd = 0, ![i].childFileFds = << >>]
        /\ UNCHANGED m_childFdToPath

RemoveKqueueItem(p, held) ==
    LET i   == m_kqWatches[p]
        fds == Range(item[i].childFileFds) \cup {item[i].fd}
    IN  /\ kernel' = Without(kernel, fds)
        /\ m_kqFdMap' = Without(m_kqFdMap, fds)
        /\ m_childFdToPath' = Without(m_childFdToPath, fds)
        /\ m_kqWatches' = Without(m_kqWatches, {p})
        /\ torn' = IF i \in held THEN torn \cup {i} ELSE torn
        /\ item' = [item EXCEPT ![i].fd = 0, ![i].childFileFds = << >>]

\* handleKevent of a child's descriptor, or of a watched file.
FileNoted(p, notes) ==
    IF "write" \in notes THEN <<FileEvent("modify", p)>> ELSE << >>

RootFileNoted(p, notes) ==
    FileNoted(p, notes)
    \o (IF "rename" \in notes THEN <<FileEvent("rename", p)>> ELSE << >>)
    \o (IF "delete" \in notes THEN <<FileEvent("delete", p)>> ELSE << >>)

\* diffDirectorySnapshot: one new and one lost entry of the same type are a rename.
BugDiff(old, new, modified) ==    \* mutant: what one new and one lost entry hide is left out
    LET created == DOMAIN new \ DOMAIN old
        deleted == DOMAIN old \ DOMAIN new
    IN  (IF created # {} /\ deleted # {}
         THEN <<RenameEvent(CHOOSE q \in created : TRUE, CHOOSE p \in deleted : TRUE)>>
         ELSE SetToSeq({FileEvent("create", q) : q \in created})
              \o SetToSeq({FileEvent("delete", p) : p \in deleted}))
        \o SetToSeq({FileEvent("modify", p) : p \in modified})

Diff(old, new, modified) ==
    LET created == DOMAIN new \ DOMAIN old
        deleted == DOMAIN old \ DOMAIN new
        pair    == {c \in created \X deleted : SameType(c[1], c[2])}
    IN  (IF Cardinality(created) = 1 /\ Cardinality(deleted) = 1 /\ pair # {}
         THEN LET c == CHOOSE c \in pair : TRUE IN <<RenameEvent(c[1], c[2])>>
         ELSE SetToSeq({FileEvent("create", q) : q \in created})
              \o SetToSeq({FileEvent("delete", p) : p \in deleted}))
        \o SetToSeq({FileEvent("modify", p) : p \in modified})

\* Files in both snapshots whose change shows in the time of modification, which counts
\* seconds, or in the size: any of those that changed.
Changed(old, new) ==
    {p \in DOMAIN old \cap DOMAIN new : p \notin Directory /\ old[p] # new[p]}

-----------------------------------------------------------------------------

\* The shape of the kqueue's descriptors and of the snapshots kept for their directories.
KqTypeOK ==
    /\ DOMAIN kernel \subseteq 1 .. MaxFd
    /\ \A fd \in DOMAIN kernel : kernel[fd].active \subseteq kernel[fd].interest
    /\ \A i \in Item :
          /\ item[i].path \in Path /\ item[i].fd \in 0 .. MaxFd
          /\ DOMAIN item[i].childFileFds \subseteq Path \ Directory
          /\ Range(item[i].childFileFds) \subseteq 1 .. MaxFd
          /\ DOMAIN item[i].children \subseteq Path
    /\ DOMAIN m_kqWatches \subseteq Path /\ Range(m_kqWatches) \subseteq Item
    /\ DOMAIN m_kqFdMap \subseteq 1 .. MaxFd /\ Range(m_kqFdMap) \subseteq Item
    /\ DOMAIN m_childFdToPath \subseteq 1 .. MaxFd /\ Range(m_childFdToPath) \subseteq Path

\* Whatever overlaps, m_childFdToPath, m_kqFdMap and the items agree about whose an open
\* descriptor is: no event is attributed to another file than the one it was opened for.
FdsAgree ==
    /\ DOMAIN m_childFdToPath \subseteq DOMAIN m_kqFdMap
    /\ DOMAIN m_kqFdMap \subseteq DOMAIN kernel
    /\ \A fd \in DOMAIN m_kqFdMap :
          LET it == item[m_kqFdMap[fd]] IN
          IF fd \in DOMAIN m_childFdToPath
          THEN m_childFdToPath[fd] \in DOMAIN it.childFileFds
               /\ it.childFileFds[m_childFdToPath[fd]] = fd
          ELSE it.fd = fd
    /\ \A i \in Range(m_kqWatches) :
          /\ item[i].fd \in DOMAIN m_kqFdMap
          /\ Range(item[i].childFileFds) \subseteq DOMAIN m_childFdToPath
===============================================================================
