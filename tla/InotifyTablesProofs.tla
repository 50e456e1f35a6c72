-------------------------- MODULE InotifyTablesProofs --------------------------
(***************************************************************************)
(* Proofs about the tables of InotifyWatches, for every set of paths,      *)
(* roots and clients and every bound.  Types need directories that keep    *)
(* their names; that nothing leaks, calls that do not overlap scans; that  *)
(* the tables agree, both, and calls of removeWatch for what was added;    *)
(* that every directory is covered, besides, watched paths that stay and   *)
(* directories that do not come back.                                      *)
(***************************************************************************)
EXTENDS InotifyWatchesProofs

-----------------------------------------------------------------------------
(* What holds while directories keep their names.                           *)

\* An inode is at one path.
FsTypes ==
    /\ lastInode \in Nat
    /\ DOMAIN fs \subseteq Path
    /\ \A p \in DOMAIN fs : fs[p] \in 0 .. lastInode
    /\ \A p, q \in DOMAIN fs : fs[p] = fs[q] => p = q

RootWatch == [recursive : BOOLEAN, associatedWds : SUBSET (1 .. lastWd)]

\* The maps from paths to descriptors and back are inverse, and a descriptor has roots
\* exactly as long as it has a path.
TableTypes ==
    /\ DOMAIN m_rootWatches \subseteq Root
    /\ \A r \in DOMAIN m_rootWatches : m_rootWatches[r] \in RootWatch
    /\ \A wd \in DOMAIN m_watchMap : wd \in 1 .. lastWd /\ m_watchMap[wd] \in Path
    /\ \A p \in DOMAIN m_pathWatchMap :
          m_pathWatchMap[p] \in DOMAIN m_watchMap /\ m_watchMap[m_pathWatchMap[p]] = p
    /\ m_watchRecursive \subseteq 1 .. lastWd
    /\ DOMAIN m_wdToRoots = DOMAIN m_watchMap
    /\ \A wd \in DOMAIN m_wdToRoots : m_wdToRoots[wd] \subseteq Root

OpTypes ==
    /\ m_watches \subseteq Root
    /\ m_renameMap \subseteq 1 .. renames
    /\ op = [th \in Thread |-> op[th]] /\ \A th \in Thread : op[th] \in Ops

\* A descriptor the kernel holds is listed under the path its inode is at.
Held == \A wd \in DOMAIN kernel : \E p \in DOMAIN fs : fs[p] = kernel[wd] /\ m_watchMap[wd] = p

\* The events in the queue: what appeared has a path.
Fit ==
    {e \in Event :
        /\ e.wd <= lastWd
        /\ e.kind = "moved_from" => e.cookie \in 1 .. renames
        /\ e.kind \in {"create", "moved_to"} /\ e.wd \in DOMAIN m_watchMap => EventPath(e) \in Path}

NamedInv == FsTypes /\ TableTypes /\ OpTypes /\ Held /\ queue \in Seq(Fit)

-----------------------------------------------------------------------------
(* What holds while calls do not overlap.                                   *)

RootField == {"at", "root"}
ScanField == {"at", "todo", "dir", "start", "root", "roots"}

OpShaped(o) ==
    /\ o.at = "eraseRoot" => o = [f \in RootField |-> o[f]]
    /\ o.at \in {"visit", "list"} => o = [f \in ScanField |-> o[f]]

OpShapes == op = [th \in Thread |-> op[th]] /\ \A th \in Thread : OpShaped(op[th])

RootShapes ==
    \A r \in DOMAIN m_rootWatches :
        m_rootWatches[r] = [f \in {"recursive", "associatedWds"} |-> m_rootWatches[r][f]]

\* One thread at a time is in the middle of something.
Serial == \A th, other \in Thread : op[th] # Idle /\ op[other] # Idle => th = other

\* Whether the roots of what a thread is in the middle of have their entries.
OpFits(o, watches, rootWatches) ==
    /\ o.at = "insertRoot" => o.root \in watches
    /\ o.at = "removeRoot" => o.root \notin watches
    /\ o.at \in {"insertRoot", "eraseWatch"} => o.root \notin DOMAIN rootWatches
    /\ o.at \in {"addRoot", "eraseRoot"} =>
          o.root \in DOMAIN rootWatches /\ rootWatches[o.root].associatedWds = {}
    /\ o.at \in {"visit", "list"} =>
          o.root \in DOMAIN rootWatches /\ o.roots \subseteq DOMAIN rootWatches

OpRoots == \A th \in Thread : OpFits(op[th], m_watches, m_rootWatches)

Removing(r) == \E th \in Thread : op[th].at = "removeRoot" /\ op[th].root = r

\* Every descriptor is listed for some root, and that root has the descriptor.
RootsKnow ==
    /\ DOMAIN m_watchMap \subseteq DOMAIN m_wdToRoots
    /\ \A wd \in DOMAIN m_wdToRoots :
          /\ m_wdToRoots[wd] # {}
          /\ \A r \in m_wdToRoots[wd] : r \in DOMAIN m_rootWatches /\ wd \in m_rootWatches[r].associatedWds

RootsCall == \A r \in DOMAIN m_rootWatches : r \in m_watches \/ Removing(r)

SerialInv == OpShapes /\ RootShapes /\ Serial /\ OpRoots /\ RootsKnow /\ RootsCall

-----------------------------------------------------------------------------
(* What holds while, besides, removeWatch is called with what was added.    *)

\* A path with a callback has its entry as a root, but for the ends of addWatch.
Rooted(r) ==
    \/ r \in DOMAIN m_rootWatches
    \/ \E th \in Thread : op[th].at \in {"insertRoot", "eraseWatch"} /\ op[th].root = r

\* A descriptor a root has is listed for it.
RootsListed ==
    \A r \in DOMAIN m_rootWatches : \A wd \in m_rootWatches[r].associatedWds :
        wd \in DOMAIN m_wdToRoots /\ r \in m_wdToRoots[wd]

AgreeInv ==
    /\ RootsListed
    /\ \A r \in m_watches : Rooted(r)
    /\ \A th \in Thread : op[th].at = "removeRoot" => op[th].root \in DOMAIN m_rootWatches

-----------------------------------------------------------------------------
(* Sequences and paths.                                                     *)

LEMMA FrontThenLast ==
  ASSUME NEW p \in Path \ {<< >>}
  PROVE  Front(p) \in Path /\ Append(Front(p), Last(p)) = p
<1>1. p \in Seq(STRING) /\ Len(p) \in Nat /\ Len(p) >= 1
  BY PathAssumption, EmptySeq, LenProperties
<1>2. Front(p) = SubSeq(p, 1, Len(p) - 1) /\ Last(p) = p[Len(p)]
  BY DEF Front, Last
<1>3. \A i \in 1 .. Len(p) : p[i] \in STRING
  BY <1>1, ElementOfSeq
<1>4. /\ Front(p) \in Seq(STRING) /\ Len(Front(p)) = Len(p) - 1
      /\ \A i \in 1 .. Len(p) - 1 : Front(p)[i] = p[i]
  <2>1. \A i \in 1 .. Len(p) - 1 : p[i] \in STRING
    BY <1>1, <1>3
  <2>2. 1 \in Int /\ Len(p) - 1 \in Int
    BY <1>1
  <2>3. /\ SubSeq(p, 1, Len(p) - 1) \in Seq(STRING)
        /\ Len(SubSeq(p, 1, Len(p) - 1)) = IF 1 <= Len(p) - 1 THEN Len(p) - 1 - 1 + 1 ELSE 0
        /\ \A i \in 1 .. Len(p) - 1 - 1 + 1 : SubSeq(p, 1, Len(p) - 1)[i] = p[1 + i - 1]
    BY <2>1, <2>2, SubSeqProperties
  <2>4. \A i \in 1 .. Len(p) - 1 : i \in 1 .. Len(p) - 1 - 1 + 1 /\ 1 + i - 1 = i
    BY <1>1
  <2> DEFINE f == SubSeq(p, 1, Len(p) - 1)
  <2>5. f = Front(p)
    BY <1>2
  <2>6. Len(f) = IF 1 <= Len(p) - 1 THEN Len(p) - 1 - 1 + 1 ELSE 0
    BY <2>3, Zenon
  <2> HIDE DEF f
  <2>7. Len(f) = Len(p) - 1
    <3> DEFINE n == Len(p)
               m == Len(f)
    <3>1. n \in Nat /\ n >= 1
      BY <1>1
    <3>2. m = IF 1 <= n - 1 THEN n - 1 - 1 + 1 ELSE 0
      BY <2>6
    <3> HIDE DEF n, m
    <3>3. m = n - 1
      BY <3>1, <3>2
    <3> QED BY <3>3 DEF n, m
  <2>8. \A i \in 1 .. Len(p) - 1 : f[i] = p[i]
    BY <2>3, <2>4 DEF f
  <2>9. f \in Seq(STRING)
    BY <2>3 DEF f
  <2> QED BY <2>5, <2>7, <2>8, <2>9
<1>5. Last(p) \in STRING /\ Last(p) = p[Len(p)]
  BY <1>1, <1>2, <1>3
<1> DEFINE t == Append(Front(p), Last(p))
<1>6. /\ t \in Seq(STRING) /\ Len(t) = Len(Front(p)) + 1
      /\ \A i \in 1 .. Len(Front(p)) : t[i] = Front(p)[i]
      /\ t[Len(Front(p)) + 1] = Last(p)
  BY <1>4, <1>5, AppendProperties
<1> HIDE DEF t
<1>7. Len(t) = Len(p) /\ \A i \in 1 .. Len(p) : t[i] = p[i]
  <2>1. Len(t) = Len(p)
    BY <1>1, <1>4, <1>6
  <2>2. ASSUME NEW i \in 1 .. Len(p) PROVE t[i] = p[i]
    <3>1. CASE i = Len(p)
      BY <1>1, <1>4, <1>5, <1>6, <3>1
    <3>2. CASE i # Len(p)
      <4>1. i \in 1 .. Len(p) - 1
        BY <1>1, <3>2
      <4> QED BY <1>4, <1>6, <4>1
    <3> QED BY <3>1, <3>2
  <2> QED BY <2>1, <2>2
<1>8. t = p
  BY <1>1, <1>6, <1>7, SeqEqual
<1>9. Front(p) \in Path
  BY PathAssumption
<1> QED BY <1>8, <1>9 DEF t

LEMMA SeqGrows == ASSUME NEW S, NEW T, S \subseteq T, NEW q \in Seq(S) PROVE q \in Seq(T)
OBVIOUS

LEMMA WithIs ==
  ASSUME NEW f, NEW x, NEW v
  PROVE  /\ DOMAIN With(f, x, v) = DOMAIN f \cup {x} /\ With(f, x, v)[x] = v
         /\ \A y \in DOMAIN f \ {x} : With(f, x, v)[y] = f[y]
BY DEF With

LEMMA WithoutIs ==
  ASSUME NEW f, NEW S
  PROVE  DOMAIN Without(f, S) = DOMAIN f \ S /\ \A x \in DOMAIN f \ S : Without(f, S)[x] = f[x]
BY DEF Without, Restrict

\* The kernel queues finitely many events at once.
LEMMA QueuedOfSelf ==
  ASSUME NEW W, IsFiniteSet(W), NEW kind, NEW E, OfSelf(kind, W) \subseteq E
  PROVE  SetToSeq(OfSelf(kind, W)) \in Seq(E)
<1> DEFINE f == [wd \in W |-> [kind |-> kind, wd |-> wd]]
<1>1. f \in Surjection(W, OfSelf(kind, W))
  BY DEF Surjection, OfSelf
<1>2. IsFiniteSet(OfSelf(kind, W))
  BY <1>1, FS_Surjection
<1> QED BY <1>2, SetAsSequence, SeqGrows

LEMMA QueuedInParent ==
  ASSUME Inv, NEW kind, NEW p, NEW cookie, NEW E, InParent(kind, p, cookie) \subseteq E
  PROVE  SetToSeq(InParent(kind, p, cookie)) \in Seq(E)
<1> DEFINE W == WdOf(fs[Front(p)])
           f == [wd \in W |-> [kind |-> kind, wd |-> wd, name |-> Last(p), cookie |-> cookie]]
<1>1. W \subseteq 1 .. lastWd /\ lastWd \in Nat
  BY DEF Inv, WdOf
<1>2. IsFiniteSet(W)
  BY <1>1, FiniteWds
<1>3. InParent(kind, p, cookie) = {[kind |-> kind, wd |-> wd, name |-> Last(p), cookie |-> cookie] : wd \in W}
  BY DEF InParent
<1> HIDE DEF W
<1>4. f \in Surjection(W, InParent(kind, p, cookie))
  BY <1>3 DEF Surjection
<1>5. IsFiniteSet(InParent(kind, p, cookie))
  BY <1>2, <1>4, FS_Surjection
<1> QED BY <1>5, SetAsSequence, SeqGrows

\* What a thread is in the middle of, by where it is.
LEMMA OpParts ==
  ASSUME NEW o \in Ops
  PROVE  /\ o.at = "roots" => o.wd \in Nat /\ o.path \in Path
         /\ o.at \in {"visit", "list"} =>
              /\ o.todo \subseteq Path /\ o.dir \in Path /\ o.start \in Path /\ o.root \in Root
              /\ o.roots \subseteq Root /\ o = [f \in ScanField |-> o[f]]
         /\ o.at \in {"insertRoot", "addRoot", "eraseRoot", "eraseWatch", "removeRoot"} =>
              o.root \in Root /\ o = [f \in RootField |-> o[f]]
<1>1. CASE o = Idle
  BY <1>1 DEF Idle
<1>2. CASE o \in [at : {"insertRoot", "addRoot", "eraseRoot", "eraseWatch", "removeRoot"}, root : Root]
  BY <1>2 DEF RootField
<1>3. CASE o \in [at : {"roots"}, wd : Nat, path : Path]
  BY <1>3
<1>4. CASE o \in Scan
  BY <1>4 DEF Scan, ScanField
<1> QED BY <1>1, <1>2, <1>3, <1>4 DEF Ops

\* The assignments of a scan to its record.
LEMMA ScanMoves ==
  ASSUME NEW o, o = [f \in ScanField |-> o[f]], NEW todo, NEW dir
  PROVE  /\ [o EXCEPT !.at = "visit", !.todo = todo]
              = [at |-> "visit", todo |-> todo, dir |-> o.dir, start |-> o.start,
                 root |-> o.root, roots |-> o.roots]
         /\ [o EXCEPT !.at = "list", !.dir = dir, !.todo = todo]
              = [at |-> "list", todo |-> todo, dir |-> dir, start |-> o.start,
                 root |-> o.root, roots |-> o.roots]
<1> DEFINE a == [o EXCEPT !.at = "visit"]
           b == [o EXCEPT !.at = "list"]
           c == [b EXCEPT !.dir = dir]
<1>1. a = [at |-> "visit", todo |-> o.todo, dir |-> o.dir, start |-> o.start, root |-> o.root, roots |-> o.roots]
  BY DEF ScanField
<1>2. b = [at |-> "list", todo |-> o.todo, dir |-> o.dir, start |-> o.start, root |-> o.root, roots |-> o.roots]
  BY DEF ScanField
<1>3. c = [at |-> "list", todo |-> o.todo, dir |-> dir, start |-> o.start, root |-> o.root, roots |-> o.roots]
  <2> HIDE DEF b
  <2> QED BY <1>2
<1>4. [a EXCEPT !.todo = todo]
        = [at |-> "visit", todo |-> todo, dir |-> o.dir, start |-> o.start, root |-> o.root, roots |-> o.roots]
  <2> HIDE DEF a
  <2> QED BY <1>1
<1>5. [c EXCEPT !.todo = todo]
        = [at |-> "list", todo |-> todo, dir |-> dir, start |-> o.start, root |-> o.root, roots |-> o.roots]
  <2> HIDE DEF c
  <2> QED BY <1>3
<1> QED BY <1>4, <1>5, Zenon

\* A thread moves on.
LEMMA OpMoves ==
  ASSUME OpTypes, NEW th \in Thread, NEW o \in Ops, Becomes(th, o),
         m_watches' \subseteq Root, UNCHANGED <<m_renameMap, renames>>
  PROVE  OpTypes'
BY DEF OpTypes, Becomes

-----------------------------------------------------------------------------
(* Types: directories come and go.                                          *)

NoRename == ~MayHappen("rename")

\* The events stay fit as long as descriptors keep their paths or lose them.
LEMMA FitStays ==
  ASSUME lastWd \in Nat, lastWd' \in Nat, lastWd <= lastWd', renames' = renames,
         \A wd \in DOMAIN m_watchMap' : wd <= lastWd =>
            wd \in DOMAIN m_watchMap /\ m_watchMap'[wd] = m_watchMap[wd]
  PROVE  Fit \subseteq Fit'
<1> SUFFICES ASSUME NEW e \in Fit PROVE e \in Fit'
  OBVIOUS
<1>1. e \in Event /\ e.wd \in Nat /\ e.wd <= lastWd
  BY DEF Fit, Event
<1>2. Event' = Event
  BY DEF Event
<1>3. e.wd <= lastWd'
  BY <1>1
<1>4. e.wd \in DOMAIN m_watchMap' => e.wd \in DOMAIN m_watchMap /\ m_watchMap'[e.wd] = m_watchMap[e.wd]
  BY <1>1
<1> QED BY <1>1, <1>2, <1>3, <1>4 DEF Fit, EventPath

LEMMA NamedInit == ASSUME Init PROVE NamedInv
<1>1. /\ fs = [p \in {<< >>} |-> 0] /\ lastInode = 0 /\ renames = 0 /\ queue = << >>
      /\ op = [th \in Thread |-> Idle] /\ m_renameMap = {} /\ m_watches = {} /\ m_watchRecursive = {}
      /\ DOMAIN kernel = {} /\ DOMAIN m_rootWatches = {} /\ DOMAIN m_watchMap = {}
      /\ DOMAIN m_pathWatchMap = {} /\ DOMAIN m_wdToRoots = {}
  BY DEF Init
<1>2. FsTypes
  BY <1>1, PathAssumption DEF FsTypes
<1>3. TableTypes /\ Held
  BY <1>1 DEF TableTypes, Held
<1>4. OpTypes
  BY <1>1 DEF OpTypes, Ops, Idle
<1>5. queue \in Seq(Fit)
  BY <1>1, EmptySeq
<1> QED BY <1>2, <1>3, <1>4, <1>5 DEF NamedInv

\* A directory appears: its inode is a new one, and the watches of its parent have the
\* path it is below.
LEMMA NamedMkdir == ASSUME NamedInv, Inv, NEW p \in Path, Mkdir(p) PROVE NamedInv'
<1>1. /\ p # << >> /\ p \notin DOMAIN fs /\ Front(p) \in DOMAIN fs
      /\ lastInode' = lastInode + 1 /\ fs' = With(fs, p, lastInode + 1)
      /\ queue' = queue \o SetToSeq(InParent("create", p, 0))
      /\ UNCHANGED <<renames, kernel, lastWd, m_watches, m_renameMap, op>> /\ UNCHANGED tableVars
  BY DEF Mkdir
<1>2. UNCHANGED <<m_rootWatches, m_watchMap, m_pathWatchMap, m_watchRecursive, m_wdToRoots>>
  BY <1>1 DEF tableVars
<1>3. /\ DOMAIN fs' = DOMAIN fs \cup {p} /\ fs'[p] = lastInode + 1
      /\ \A q \in DOMAIN fs : fs'[q] = fs[q]
  BY <1>1 DEF With
<1>4. FsTypes'
  BY <1>1, <1>3 DEF NamedInv, FsTypes
<1>5. TableTypes'
  BY <1>1, <1>2 DEF NamedInv, TableTypes, RootWatch
<1>6. OpTypes'
  BY <1>1 DEF NamedInv, OpTypes
<1>7. Held'
  BY <1>1, <1>2, <1>3 DEF NamedInv, Held
<1>8. Fit' = Fit
  BY <1>1, <1>2 DEF Fit, EventPath, Event
<1>9. InParent("create", p, 0) \subseteq Fit
  <2> SUFFICES ASSUME NEW wd \in WdOf(fs[Front(p)])
               PROVE  [kind |-> "create", wd |-> wd, name |-> Last(p), cookie |-> 0] \in Fit
    BY DEF InParent
  <2>1. wd \in DOMAIN kernel /\ kernel[wd] = fs[Front(p)]
    BY DEF WdOf
  <2>2. m_watchMap[wd] = Front(p)
    BY <1>1, <2>1 DEF NamedInv, Held, FsTypes
  <2>3. Append(m_watchMap[wd], Last(p)) = p
    BY <1>1, <2>2, FrontThenLast
  <2>4. wd \in Nat /\ wd <= lastWd
    BY <2>1 DEF Inv
  <2> DEFINE e == [kind |-> "create", wd |-> wd, name |-> Last(p), cookie |-> 0]
  <2>5. e \in Event
    BY <1>1, <2>4 DEF Event
  <2>6. EventPath(e) \in Path
    BY <2>3 DEF EventPath
  <2> QED BY <2>4, <2>5, <2>6 DEF Fit
<1>10. queue' \in Seq(Fit)
  BY <1>1, <1>9, QueuedInParent, ConcatProperties DEF NamedInv
<1> QED BY <1>4, <1>5, <1>6, <1>7, <1>8, <1>10 DEF NamedInv

LEMMA NamedRmdir == ASSUME NamedInv, Inv, NEW p \in Path, Rmdir(p) PROVE NamedInv'
<1> DEFINE W == WdOf(fs[p])
<1>1. /\ p \in DOMAIN fs /\ p # << >>
      /\ kernel' = Without(kernel, W) /\ fs' = Without(fs, {p})
      /\ queue' = queue \o SetToSeq(OfSelf("delete_self", W)) \o SetToSeq(OfSelf("ignored", W))
                        \o SetToSeq(InParent("delete", p, 0))
      /\ UNCHANGED <<lastInode, renames, lastWd, m_watches, m_renameMap, op>> /\ UNCHANGED tableVars
  BY DEF Rmdir
<1>2. UNCHANGED <<m_rootWatches, m_watchMap, m_pathWatchMap, m_watchRecursive, m_wdToRoots>>
  BY <1>1 DEF tableVars
<1>3. DOMAIN fs' = DOMAIN fs \ {p} /\ \A q \in DOMAIN fs' : fs'[q] = fs[q]
  BY <1>1 DEF Without, Restrict
<1>4. /\ \A wd \in DOMAIN kernel' : wd \in DOMAIN kernel /\ kernel'[wd] = kernel[wd] /\ kernel[wd] # fs[p]
  BY <1>1 DEF WdOf, Without, Restrict
<1>5. FsTypes'
  BY <1>1, <1>3 DEF NamedInv, FsTypes
<1>6. TableTypes'
  BY <1>1, <1>2 DEF NamedInv, TableTypes, RootWatch
<1>7. OpTypes'
  BY <1>1 DEF NamedInv, OpTypes
<1>8. Held'
  <2>1. ASSUME NEW wd \in DOMAIN kernel'
        PROVE  \E q \in DOMAIN fs' : fs'[q] = kernel'[wd] /\ m_watchMap'[wd] = q
    <3>1. wd \in DOMAIN kernel /\ kernel'[wd] = kernel[wd] /\ kernel[wd] # fs[p]
      BY <1>4
    <3>2. PICK q \in DOMAIN fs : fs[q] = kernel[wd] /\ m_watchMap[wd] = q
      BY <3>1 DEF NamedInv, Held
    <3>3. q \in DOMAIN fs' /\ fs'[q] = fs[q]
      BY <1>3, <3>1, <3>2
    <3> QED BY <1>2, <3>1, <3>2, <3>3
  <2> QED BY <2>1 DEF Held
<1>9. Fit' = Fit
  BY <1>1, <1>2 DEF Fit, EventPath, Event
<1>10. \A wd \in W : wd \in 1 .. lastWd
  BY DEF Inv, WdOf
<1>11. OfSelf("delete_self", W) \subseteq Fit /\ OfSelf("ignored", W) \subseteq Fit
  BY <1>10 DEF Inv, OfSelf, Fit, Event
<1>12. InParent("delete", p, 0) \subseteq Fit
  BY <1>1 DEF Inv, InParent, WdOf, Fit, Event
<1>13. IsFiniteSet(W)
  BY <1>10, FiniteWds DEF Inv
<1> HIDE DEF W
<1>14. /\ SetToSeq(OfSelf("delete_self", W)) \in Seq(Fit) /\ SetToSeq(OfSelf("ignored", W)) \in Seq(Fit)
       /\ SetToSeq(InParent("delete", p, 0)) \in Seq(Fit)
  BY <1>11, <1>12, <1>13, QueuedOfSelf, QueuedInParent
<1>15. queue' \in Seq(Fit)
  BY <1>1, <1>14, ConcatProperties DEF NamedInv
<1> QED BY <1>5, <1>6, <1>7, <1>8, <1>9, <1>15 DEF NamedInv

LEMMA NamedFs == ASSUME NamedInv, Inv, NoRename, FsStep PROVE NamedInv'
<1>1. \E p \in Path : Mkdir(p) \/ Rmdir(p)
  BY DEF FsStep, Rename, NoRename
<1> QED BY <1>1, NamedMkdir, NamedRmdir

-----------------------------------------------------------------------------
(* Types: descriptors come and go.                                          *)

\* The roots of a descriptor, and the descriptors of a root.
LEMMA LinkedTypes ==
  ASSUME TableTypes, lastWd \in Nat, lastWd' \in Nat, lastWd <= lastWd',
         NEW wd \in 1 .. lastWd', NEW p, NEW r \in Root, NEW recursive, Linked(wd, p, r, recursive)
  PROVE  /\ DOMAIN m_rootWatches' \subseteq Root
         /\ \A s \in DOMAIN m_rootWatches' : m_rootWatches'[s] \in RootWatch'
         /\ m_watchRecursive' \subseteq 1 .. lastWd'
         /\ DOMAIN m_wdToRoots' = DOMAIN m_wdToRoots \cup {wd}
         /\ \A w \in DOMAIN m_wdToRoots' : m_wdToRoots'[w] \subseteq Root
<1> DEFINE v == IF r \in DOMAIN m_rootWatches
                THEN [m_rootWatches[r] EXCEPT !.associatedWds = m_rootWatches[r].associatedWds \cup {wd}]
                ELSE [recursive |-> FALSE, associatedWds |-> {wd}]
           u == IF wd \in DOMAIN m_wdToRoots THEN m_wdToRoots[wd] \cup {r} ELSE {r}
<1>1. /\ m_rootWatches' = With(m_rootWatches, r, v) /\ m_wdToRoots' = With(m_wdToRoots, wd, u)
      /\ m_watchRecursive' = IF recursive THEN m_watchRecursive \cup {wd} ELSE m_watchRecursive
  BY Zenon DEF Linked
<1>2. RootWatch \subseteq RootWatch'
  BY DEF RootWatch
<1>3. v \in RootWatch'
  BY <1>2 DEF TableTypes, RootWatch
<1>4. u \subseteq Root
  BY DEF TableTypes
<1> HIDE DEF v, u
<1>5. /\ DOMAIN m_rootWatches' = DOMAIN m_rootWatches \cup {r}
      /\ \A s \in DOMAIN m_rootWatches' : m_rootWatches'[s] = IF s = r THEN v ELSE m_rootWatches[s]
  BY <1>1 DEF With
<1>6. /\ DOMAIN m_wdToRoots' = DOMAIN m_wdToRoots \cup {wd}
      /\ \A w \in DOMAIN m_wdToRoots' : m_wdToRoots'[w] = IF w = wd THEN u ELSE m_wdToRoots[w]
  BY <1>1 DEF With
<1>7. m_watchRecursive' \subseteq 1 .. lastWd'
  BY <1>1 DEF TableTypes
<1>8. \A s \in DOMAIN m_rootWatches' : m_rootWatches'[s] \in RootWatch'
  <2> SUFFICES ASSUME NEW s \in DOMAIN m_rootWatches' PROVE m_rootWatches'[s] \in RootWatch'
    OBVIOUS
  <2>1. s # r => m_rootWatches[s] \in RootWatch
    BY <1>5 DEF TableTypes
  <2> HIDE DEF RootWatch
  <2> QED BY <1>2, <1>3, <1>5, <2>1
<1> QED BY <1>4, <1>5, <1>6, <1>7, <1>8 DEF TableTypes

Tabled == FsTypes /\ TableTypes /\ Held /\ queue \in Seq(Fit)

\* addDirectoryWatch: a path without a descriptor gets a new one, as a descriptor of its
\* inode would be listed under it.
LEMMA NamedAdd ==
  ASSUME NamedInv, Inv, UNCHANGED fsVars, NEW p \in Path, NEW r \in Root, NEW recursive,
         AddDirectoryWatch(p, r, recursive)
  PROVE  Tabled'
<1>1. FsTypes' /\ fs' = fs /\ renames' = renames
  BY DEF NamedInv, FsTypes, fsVars
<1>2. lastWd \in Nat
  BY DEF Inv
<1>3. CASE KnownDirectory(p, r, recursive)
  <2>1. /\ p \in DOMAIN m_pathWatchMap /\ Linked(m_pathWatchMap[p], p, r, recursive)
        /\ kernel' = kernel /\ lastWd' = lastWd /\ queue' = queue
        /\ m_watchMap' = m_watchMap /\ m_pathWatchMap' = m_pathWatchMap
    BY <1>3 DEF KnownDirectory, kernelVars
  <2> DEFINE wd == m_pathWatchMap[p]
  <2>2. wd \in DOMAIN m_watchMap /\ wd \in 1 .. lastWd' /\ lastWd <= lastWd' /\ lastWd' \in Nat
    BY <1>2, <2>1 DEF NamedInv, TableTypes
  <2>3. Linked(wd, p, r, recursive)
    BY <2>1
  <2> HIDE DEF wd
  <2>4. /\ DOMAIN m_rootWatches' \subseteq Root
        /\ \A s \in DOMAIN m_rootWatches' : m_rootWatches'[s] \in RootWatch'
        /\ m_watchRecursive' \subseteq 1 .. lastWd'
        /\ DOMAIN m_wdToRoots' = DOMAIN m_wdToRoots \cup {wd}
        /\ \A w \in DOMAIN m_wdToRoots' : m_wdToRoots'[w] \subseteq Root
    BY <1>2, <2>2, <2>3, LinkedTypes DEF NamedInv
  <2>5. TableTypes'
    BY <2>1, <2>2, <2>4 DEF NamedInv, TableTypes
  <2>6. Held'
    BY <1>1, <2>1 DEF NamedInv, Held
  <2>7. Fit' = Fit
    BY <1>1, <2>1 DEF Fit, EventPath, Event
  <2> QED BY <1>1, <2>1, <2>5, <2>6, <2>7 DEF NamedInv, Tabled
<1>4. CASE NewDirectory(p, r, recursive)
  <2>1. p \notin DOMAIN m_pathWatchMap /\ p \in DOMAIN fs
    BY <1>4 DEF NewDirectory
  <2>2. WdOf(fs[p]) = {}
    <3> SUFFICES ASSUME NEW wd \in DOMAIN kernel, kernel[wd] = fs[p] PROVE FALSE
      BY DEF WdOf
    <3>1. m_watchMap[wd] = p
      BY <2>1 DEF NamedInv, Held, FsTypes
    <3> QED BY <2>1, <3>1 DEF Inv, KernelKnown, PathsLeadBack
  <2> DEFINE wd == lastWd + 1
  <2>3. /\ kernel' = With(kernel, wd, fs[p]) /\ lastWd' = IF wd > lastWd THEN wd ELSE lastWd
        /\ m_watchMap' = With(m_watchMap, wd, p) /\ m_pathWatchMap' = With(m_pathWatchMap, p, wd)
        /\ Linked(wd, p, r, recursive) /\ queue' = queue
    BY <1>4, <2>2, Zenon DEF NewDirectory
  <2>4. lastWd' = wd /\ lastWd' \in Nat /\ lastWd <= lastWd' /\ wd \in 1 .. lastWd' /\ ~(wd <= lastWd)
    BY <1>2, <2>3
  <2>5. /\ DOMAIN m_rootWatches' \subseteq Root
        /\ \A s \in DOMAIN m_rootWatches' : m_rootWatches'[s] \in RootWatch'
        /\ m_watchRecursive' \subseteq 1 .. lastWd'
        /\ DOMAIN m_wdToRoots' = DOMAIN m_wdToRoots \cup {wd}
        /\ \A w \in DOMAIN m_wdToRoots' : m_wdToRoots'[w] \subseteq Root
    <3> HIDE DEF wd
    <3> QED BY <1>2, <2>3, <2>4, LinkedTypes DEF NamedInv
  <2> HIDE DEF wd
  <2>6. /\ DOMAIN kernel' = DOMAIN kernel \cup {wd} /\ kernel'[wd] = fs[p]
        /\ \A w \in DOMAIN kernel \ {wd} : kernel'[w] = kernel[w]
        /\ DOMAIN m_watchMap' = DOMAIN m_watchMap \cup {wd} /\ m_watchMap'[wd] = p
        /\ \A w \in DOMAIN m_watchMap \ {wd} : m_watchMap'[w] = m_watchMap[w]
        /\ DOMAIN m_pathWatchMap' = DOMAIN m_pathWatchMap \cup {p} /\ m_pathWatchMap'[p] = wd
        /\ \A q \in DOMAIN m_pathWatchMap \ {p} : m_pathWatchMap'[q] = m_pathWatchMap[q]
    BY <2>3 DEF With
  <2>7. wd \notin DOMAIN m_watchMap /\ \A w \in DOMAIN m_watchMap : w \in 1 .. lastWd'
    BY <1>2, <2>4 DEF NamedInv, TableTypes
  <2>8. TableTypes'
    BY <2>4, <2>5, <2>6, <2>7 DEF NamedInv, TableTypes
  <2>9. Held'
    <3>1. \A w \in DOMAIN kernel : w # wd
      BY <2>7 DEF Inv, KernelKnown
    <3> QED BY <1>1, <2>1, <2>6, <3>1 DEF NamedInv, Held, Inv, KernelKnown
  <2>10. Fit \subseteq Fit'
    <3>1. \A w \in DOMAIN m_watchMap' : w <= lastWd => w \in DOMAIN m_watchMap /\ m_watchMap'[w] = m_watchMap[w]
      BY <2>4, <2>6
    <3> QED BY <1>1, <1>2, <2>4, <3>1, FitStays
  <2>11. queue' \in Seq(Fit')
    BY <2>3, <2>10, SeqGrows DEF NamedInv
  <2> QED BY <1>1, <2>8, <2>9, <2>11 DEF Tabled
<1> QED BY <1>3, <1>4 DEF AddDirectoryWatch

\* The two maps lose a descriptor together.
LEMMA NamedForget ==
  ASSUME NamedInv, Inv, UNCHANGED fsVars, NEW wds, Forget(wds), lastWd' = lastWd,
         DOMAIN kernel' = DOMAIN kernel \ wds, \A wd \in DOMAIN kernel' : kernel'[wd] = kernel[wd],
         DOMAIN m_wdToRoots' = DOMAIN m_wdToRoots \ wds,
         \A wd \in DOMAIN m_wdToRoots' : m_wdToRoots'[wd] \subseteq Root,
         DOMAIN m_rootWatches' \subseteq Root,
         \A r \in DOMAIN m_rootWatches' : m_rootWatches'[r] \in RootWatch
  PROVE  FsTypes' /\ TableTypes' /\ Held' /\ Fit \subseteq Fit'
<1>1. FsTypes' /\ fs' = fs /\ renames' = renames /\ lastWd \in Nat
  BY DEF NamedInv, FsTypes, fsVars, Inv
<1> DEFINE P == {m_watchMap[wd] : wd \in wds \cap DOMAIN m_watchMap}
<1>2. /\ m_watchMap' = Without(m_watchMap, wds) /\ m_pathWatchMap' = Without(m_pathWatchMap, P)
      /\ m_watchRecursive' = m_watchRecursive \ wds
  BY DEF Forget
<1>3. \A p \in DOMAIN m_pathWatchMap \ P : m_pathWatchMap[p] \notin wds
  BY DEF NamedInv, TableTypes
<1> HIDE DEF P
<1>4. /\ DOMAIN m_watchMap' = DOMAIN m_watchMap \ wds
      /\ \A w \in DOMAIN m_watchMap' : m_watchMap'[w] = m_watchMap[w]
      /\ DOMAIN m_pathWatchMap' = DOMAIN m_pathWatchMap \ P
      /\ \A q \in DOMAIN m_pathWatchMap' : m_pathWatchMap'[q] = m_pathWatchMap[q]
  BY <1>2 DEF Without, Restrict
<1>5. RootWatch' = RootWatch
  BY DEF RootWatch
<1>6. TableTypes'
  <2>1. \A r \in DOMAIN m_rootWatches' : m_rootWatches'[r] \in RootWatch'
    BY <1>5
  <2>2. \A wd \in DOMAIN m_watchMap' : wd \in 1 .. lastWd' /\ m_watchMap'[wd] \in Path
    BY <1>4 DEF NamedInv, TableTypes
  <2>3. \A p \in DOMAIN m_pathWatchMap' :
           m_pathWatchMap'[p] \in DOMAIN m_watchMap' /\ m_watchMap'[m_pathWatchMap'[p]] = p
    BY <1>3, <1>4 DEF NamedInv, TableTypes
  <2>4. m_watchRecursive' \subseteq 1 .. lastWd' /\ DOMAIN m_wdToRoots' = DOMAIN m_watchMap'
    BY <1>2, <1>4 DEF NamedInv, TableTypes
  <2> QED BY <2>1, <2>2, <2>3, <2>4 DEF TableTypes
<1>7. Held'
  BY <1>1, <1>4 DEF NamedInv, Held, Inv, KernelKnown
<1>8. Fit \subseteq Fit'
  BY <1>1, <1>4, FitStays
<1> QED BY <1>1, <1>6, <1>7, <1>8

\* inotify_rm_watch and the erasures.
LEMMA NamedRelease ==
  ASSUME NamedInv, Inv, UNCHANGED fsVars, NEW wds, Release(wds),
         DOMAIN m_wdToRoots' = DOMAIN m_wdToRoots \ wds,
         \A wd \in DOMAIN m_wdToRoots' : m_wdToRoots'[wd] \subseteq Root,
         DOMAIN m_rootWatches' \subseteq Root,
         \A r \in DOMAIN m_rootWatches' : m_rootWatches'[r] \in RootWatch
  PROVE  Tabled'
<1> DEFINE live == wds \cap DOMAIN kernel
           s == SetToSeq(OfSelf("ignored", live))
<1>1. kernel' = Without(kernel, live) /\ queue' = queue \o s /\ lastWd' = lastWd /\ Forget(wds)
  BY DEF Release
<1>2. live \subseteq 1 .. lastWd /\ lastWd \in Nat
  BY DEF Inv
<1>3. IsFiniteSet(live)
  BY <1>2, FiniteWds
<1>4. DOMAIN kernel' = DOMAIN kernel \ live /\ \A wd \in DOMAIN kernel' : kernel'[wd] = kernel[wd]
  BY <1>1 DEF Without, Restrict
<1>5. DOMAIN kernel' = DOMAIN kernel \ wds
  BY <1>4
<1> HIDE DEF live
<1>6. FsTypes' /\ TableTypes' /\ Held' /\ Fit \subseteq Fit'
  BY <1>1, <1>4, <1>5, NamedForget
<1>7. OfSelf("ignored", live) \subseteq Fit
  <2>1. \A wd \in live : [kind |-> "ignored", wd |-> wd] \in Fit
    BY <1>2 DEF Fit, Event
  <2> QED BY <2>1 DEF OfSelf
<1>8. s \in Seq(Fit)
  BY <1>3, <1>7, QueuedOfSelf
<1> HIDE DEF s
<1>9. queue' \in Seq(Fit)
  BY <1>1, <1>8, ConcatProperties DEF NamedInv
<1>10. queue' \in Seq(Fit')
  BY <1>6, <1>9, SeqGrows
<1> QED BY <1>6, <1>10 DEF Tabled

\* addWatch, removeWatch and the scans.
LEMMA NamedCall ==
  ASSUME NamedInv, Inv, NEW th \in Thread, ClientStep(th) \/ ScanStep(th)
  PROVE  NamedInv'
<1>o. /\ op[th] \in Ops /\ op = [t \in Thread |-> op[t]] /\ FsTypes /\ TableTypes
      /\ m_watches \subseteq Root /\ m_renameMap \subseteq 1 .. renames
  BY DEF NamedInv, OpTypes
<1>t. ASSUME UNCHANGED <<fsVars, kernelVars, tableVars>> PROVE Tabled'
  <2>1. /\ UNCHANGED <<fs, lastInode, renames, kernel, lastWd, queue, m_rootWatches, m_watchMap>>
        /\ UNCHANGED <<m_pathWatchMap, m_watchRecursive, m_wdToRoots>>
    BY <1>t DEF fsVars, kernelVars, tableVars
  <2> QED BY <2>1 DEF NamedInv, Tabled, FsTypes, TableTypes, RootWatch, Held, Fit, EventPath, Event
<1>p. ASSUME NEW o \in Ops, Becomes(th, o), m_watches' \subseteq Root,
             UNCHANGED m_renameMap, UNCHANGED fsVars
      PROVE  OpTypes'
  BY <1>p, OpMoves DEF NamedInv, fsVars
<1>1. ASSUME NEW r \in Root, AddWatch(th, r) \/ RemoveWatch(th, r) PROVE NamedInv'
  <2>1. /\ UNCHANGED <<fsVars, kernelVars, tableVars>> /\ UNCHANGED m_renameMap /\ m_watches' \subseteq Root
        /\ \E at \in {"insertRoot", "removeRoot"} : Becomes(th, [at |-> at, root |-> r])
    BY <1>o, <1>1 DEF AddWatch, RemoveWatch
  <2>2. \A at \in {"insertRoot", "removeRoot"} : [at |-> at, root |-> r] \in Ops
    BY DEF Ops
  <2>3. OpTypes'
    BY <1>p, <2>1, <2>2
  <2> QED BY <1>t, <2>1, <2>3 DEF NamedInv, Tabled
<1>2. CASE InsertRoot(th) \/ EraseRoot(th)
  <2> DEFINE r == op[th].root
             v == [recursive |-> r \in RecursiveRoot, associatedWds |-> {}]
  <2>1. /\ UNCHANGED <<fsVars, kernelVars, m_watches, m_watchMap, m_pathWatchMap>>
        /\ UNCHANGED <<m_watchRecursive, m_wdToRoots, m_renameMap>>
    BY <1>2 DEF InsertRoot, EraseRoot
  <2>2. r \in Root /\ (EraseRoot(th) => op[th] = [f \in RootField |-> op[th][f]])
    BY <1>o, <1>2, OpParts DEF InsertRoot, EraseRoot
  <2>3. \/ m_rootWatches' = With(m_rootWatches, r, v) /\ Becomes(th, [at |-> "addRoot", root |-> r])
        \/ m_rootWatches' = Without(m_rootWatches, {r}) /\ Becomes(th, [at |-> "eraseWatch", root |-> r])
    <3>1. EraseRoot(th) => [op[th] EXCEPT !.at = "eraseWatch"] = [at |-> "eraseWatch", root |-> r]
      BY <2>2 DEF RootField
    <3> QED BY <1>2, <3>1 DEF InsertRoot, EraseRoot
  <2>4. \A at \in {"addRoot", "eraseWatch"} : [at |-> at, root |-> r] \in Ops
    BY <2>2 DEF Ops
  <2>5. OpTypes'
    BY <1>o, <1>p, <2>1, <2>3, <2>4
  <2>6. v \in RootWatch
    BY DEF RootWatch
  <2> HIDE DEF v, r
  <2>7. /\ DOMAIN m_rootWatches' \subseteq Root
        /\ \A s \in DOMAIN m_rootWatches' : m_rootWatches'[s] \in RootWatch
    BY <1>o, <2>2, <2>3, <2>6 DEF With, Without, Restrict, TableTypes
  <2>8. RootWatch' = RootWatch /\ fs' = fs /\ renames' = renames /\ UNCHANGED <<kernel, lastWd, queue>>
    BY <2>1 DEF RootWatch, kernelVars, fsVars
  <2>9. TableTypes'
    <3>1. \A s \in DOMAIN m_rootWatches' : m_rootWatches'[s] \in RootWatch'
      BY <2>7, <2>8
    <3> QED BY <1>o, <2>1, <2>7, <2>8, <3>1 DEF TableTypes
  <2>10. FsTypes' /\ Held' /\ Fit' = Fit
    BY <1>o, <2>1, <2>8 DEF NamedInv, FsTypes, Held, Fit, EventPath, Event, fsVars
  <2> QED BY <2>5, <2>8, <2>9, <2>10 DEF NamedInv
<1>3. CASE AddRoot(th)
  <2> DEFINE r == op[th].root
  <2>1. op[th].at = "addRoot" /\ UNCHANGED fsVars /\ m_watches' = m_watches /\ m_renameMap' = m_renameMap
    BY <1>3 DEF AddRoot
  <2>2. r \in Root /\ r \in Path
    BY <1>o, <2>1, OpParts, RootAssumption
  <2>3. \/ AddDirectoryWatch(r, r, r \in RecursiveRoot) /\ Becomes(th, IF r \in RecursiveRoot THEN ScanOf(r, r, {}) ELSE Idle)
        \/ NoDirectory(r) /\ Becomes(th, [at |-> "eraseRoot", root |-> r])
    BY <1>3 DEF AddRoot
  <2>4. /\ ScanOf(r, r, {}) \in Ops /\ Idle \in Ops /\ [at |-> "eraseRoot", root |-> r] \in Ops
    BY <2>2 DEF Ops, Scan, ScanOf
  <2> HIDE DEF r
  <2>5. OpTypes'
    BY <1>o, <1>p, <2>1, <2>3, <2>4
  <2>6. Tabled'
    <3>1. CASE AddDirectoryWatch(r, r, r \in RecursiveRoot)
      BY <2>1, <2>2, <3>1, NamedAdd, Zenon
    <3>2. CASE NoDirectory(r)
      BY <1>t, <2>1, <3>2 DEF NoDirectory
    <3> QED BY <2>3, <3>1, <3>2
  <2> QED BY <2>5, <2>6 DEF NamedInv, Tabled
<1>4. CASE EraseWatch(th)
  <2>1. /\ UNCHANGED <<fsVars, kernelVars, tableVars>> /\ UNCHANGED m_renameMap /\ m_watches' \subseteq Root
        /\ Becomes(th, Idle)
    BY <1>o, <1>4 DEF EraseWatch
  <2>2. OpTypes'
    BY <1>p, <2>1 DEF Ops
  <2> QED BY <1>t, <2>1, <2>2 DEF NamedInv, Tabled
<1>5. CASE RemoveRoot(th)
  <2> DEFINE r == op[th].root
             U == Unneeded(r)
  <2>1. /\ op[th].at = "removeRoot" /\ UNCHANGED fsVars /\ m_watches' = m_watches /\ m_renameMap' = m_renameMap
        /\ m_wdToRoots' = [wd \in DOMAIN m_wdToRoots \ U |->
                              IF wd \in Owned(r) THEN m_wdToRoots[wd] \ {r} ELSE m_wdToRoots[wd]]
        /\ m_rootWatches' = Without(m_rootWatches, {r})
        /\ Release(U) /\ Becomes(th, Idle)
    BY <1>5 DEF RemoveRoot
  <2>2. OpTypes'
    BY <1>o, <1>p, <2>1 DEF Ops
  <2> HIDE DEF r, U
  <2>3. /\ DOMAIN m_wdToRoots' = DOMAIN m_wdToRoots \ U
        /\ \A wd \in DOMAIN m_wdToRoots' : m_wdToRoots'[wd] \subseteq Root
    BY <1>o, <2>1 DEF TableTypes
  <2>4. /\ DOMAIN m_rootWatches' \subseteq Root
        /\ \A s \in DOMAIN m_rootWatches' : m_rootWatches'[s] \in RootWatch
    BY <1>o, <2>1 DEF TableTypes, Without, Restrict
  <2>5. Tabled'
    BY <2>1, <2>3, <2>4, NamedRelease
  <2> QED BY <2>2, <2>5 DEF NamedInv, Tabled
<1>6. CASE RemovePath(th)
  <2> DEFINE wd == m_pathWatchMap[op[th].root]
  <2>1. /\ UNCHANGED fsVars /\ m_watches' = m_watches /\ m_renameMap' = m_renameMap
        /\ m_rootWatches' = m_rootWatches /\ Becomes(th, Idle)
        /\ \/ m_wdToRoots' = Without(m_wdToRoots, {wd}) /\ Release({wd})
           \/ UNCHANGED <<kernelVars, m_watchMap, m_pathWatchMap, m_watchRecursive, m_wdToRoots>>
    BY <1>6 DEF RemovePath
  <2>2. OpTypes'
    BY <1>o, <1>p, <2>1 DEF Ops
  <2> HIDE DEF wd
  <2>3. CASE m_wdToRoots' = Without(m_wdToRoots, {wd}) /\ Release({wd})
    <3>1. /\ DOMAIN m_wdToRoots' = DOMAIN m_wdToRoots \ {wd}
          /\ \A w \in DOMAIN m_wdToRoots' : m_wdToRoots'[w] \subseteq Root
      BY <1>o, <2>3 DEF TableTypes, Without, Restrict
    <3>2. /\ DOMAIN m_rootWatches' \subseteq Root
          /\ \A s \in DOMAIN m_rootWatches' : m_rootWatches'[s] \in RootWatch
      BY <1>o, <2>1 DEF TableTypes
    <3>3. Tabled'
      BY <2>1, <2>3, <3>1, <3>2, NamedRelease
    <3> QED BY <2>2, <3>3 DEF NamedInv, Tabled
  <2>4. CASE UNCHANGED <<kernelVars, m_watchMap, m_pathWatchMap, m_watchRecursive, m_wdToRoots>>
    BY <1>t, <2>1, <2>2, <2>4 DEF NamedInv, Tabled, tableVars
  <2> QED BY <2>1, <2>3, <2>4
<1>7. CASE ScanStep(th)
  <2> DEFINE o == op[th]
  <2>1. /\ o.at \in {"visit", "list"} /\ UNCHANGED fsVars /\ m_watches' = m_watches /\ m_renameMap' = m_renameMap
    <3>1. List(th) \/ ScanDone(th) \/ \E p \in o.todo : Visit(th, p) \/ PassOver(th, p)
      BY <1>7 DEF ScanStep
    <3>2. o.at \in {"visit", "list"}
      BY <3>1, Zenon DEF List, ScanDone, Visit, PassOver
    <3>3. UNCHANGED <<fsVars, m_watches, m_renameMap>>
      BY <3>1, Zenon DEF List, ScanDone, Visit, PassOver
    <3> QED BY <3>2, <3>3
  <2>2. /\ o.todo \subseteq Path /\ o.dir \in Path /\ o.start \in Path /\ o.root \in Root
        /\ o.roots \subseteq Root /\ o = [f \in ScanField |-> o[f]]
    BY <1>o, <2>1, OpParts
  <2>4. CASE List(th) \/ ScanDone(th) \/ \E p \in o.todo : PassOver(th, p)
    <3>1. UNCHANGED <<fsVars, kernelVars, tableVars>>
      BY <2>4 DEF List, ScanDone, PassOver
    <3>2. ASSUME List(th) PROVE OpTypes'
      <4>1. Becomes(th, [o EXCEPT !.at = "visit", !.todo = o.todo \cup Children(o.dir)])
        BY <3>2, Zenon DEF List
      <4>2. [o EXCEPT !.at = "visit", !.todo = o.todo \cup Children(o.dir)]
              = [at |-> "visit", todo |-> o.todo \cup Children(o.dir), dir |-> o.dir, start |-> o.start,
                 root |-> o.root, roots |-> o.roots]
        BY <2>2, ScanMoves, Zenon
      <4>3. Children(o.dir) \subseteq Path
        BY <1>o DEF Children, FsTypes
      <4>4. [o EXCEPT !.at = "visit", !.todo = o.todo \cup Children(o.dir)] \in Ops
        <5>1. [at |-> "visit", todo |-> o.todo \cup Children(o.dir), dir |-> o.dir, start |-> o.start,
               root |-> o.root, roots |-> o.roots] \in Ops
          BY <2>2, <4>3 DEF Ops, Scan
        <5> QED BY <4>2, <5>1, Zenon
      <4> QED BY <1>o, <1>p, <2>1, <4>1, <4>4
    <3>3. ASSUME ScanDone(th) PROVE OpTypes'
      <4>1. \/ Becomes(th, Idle)
            \/ \E r \in o.roots : Becomes(th, ScanOf(o.start, r, o.roots \ {r}))
        BY <3>3 DEF ScanDone
      <4>2. Idle \in Ops /\ \A r \in o.roots : ScanOf(o.start, r, o.roots \ {r}) \in Ops
        BY <2>2 DEF Ops, Scan, ScanOf
      <4> QED BY <1>o, <1>p, <2>1, <4>1, <4>2
    <3>4. ASSUME NEW p \in o.todo, PassOver(th, p) PROVE OpTypes'
      <4>1. Becomes(th, [o EXCEPT !.todo = o.todo \ {p}])
        BY <3>4, Zenon DEF PassOver
      <4>2. [o EXCEPT !.todo = o.todo \ {p}]
              = [at |-> o.at, todo |-> o.todo \ {p}, dir |-> o.dir, start |-> o.start,
                 root |-> o.root, roots |-> o.roots]
        BY <2>2 DEF ScanField
      <4>3. [o EXCEPT !.todo = o.todo \ {p}] \in Ops
        BY <2>1, <2>2, <4>2 DEF Ops, Scan
      <4> QED BY <1>o, <1>p, <2>1, <4>1, <4>3
    <3>5. OpTypes'
      BY <2>4, <3>2, <3>3, <3>4
    <3> QED BY <1>t, <3>1, <3>5 DEF NamedInv, Tabled
  <2>5. ASSUME NEW p \in o.todo, Visit(th, p) PROVE NamedInv'
    <3>1. /\ AddDirectoryWatch(p, o.root, TRUE) \/ NoDirectory(p)
          /\ Becomes(th, [o EXCEPT !.at = "list", !.dir = p, !.todo = o.todo \ {p}])
      BY <2>5, Zenon DEF Visit
    <3>2. [o EXCEPT !.at = "list", !.dir = p, !.todo = o.todo \ {p}]
            = [at |-> "list", todo |-> o.todo \ {p}, dir |-> p, start |-> o.start,
               root |-> o.root, roots |-> o.roots]
      BY <2>2, ScanMoves, Zenon
    <3>3. [o EXCEPT !.at = "list", !.dir = p, !.todo = o.todo \ {p}] \in Ops
      <4>1. [at |-> "list", todo |-> o.todo \ {p}, dir |-> p, start |-> o.start,
               root |-> o.root, roots |-> o.roots] \in Ops
        BY <2>2 DEF Ops, Scan
      <4> QED BY <3>2, <4>1, Zenon
    <3>4. OpTypes'
      BY <1>o, <1>p, <2>1, <3>1, <3>3
    <3>5. Tabled'
      <4>1. CASE AddDirectoryWatch(p, o.root, TRUE)
        <5>1. p \in Path /\ o.root \in Root
          BY <2>2
        <5> HIDE DEF o
        <5> QED BY <2>1, <4>1, <5>1, NamedAdd, Zenon
      <4>2. CASE NoDirectory(p)
        BY <1>t, <2>1, <4>2 DEF NoDirectory
      <4> QED BY <3>1, <4>1, <4>2
    <3> QED BY <3>4, <3>5 DEF NamedInv, Tabled
  <2> QED BY <1>7, <2>4, <2>5 DEF ScanStep
<1> QED BY <1>1, <1>2, <1>3, <1>4, <1>5, <1>6, <1>7 DEF ClientStep

\* The loop: it looks at the first event, which is fit.
LEMMA NamedLoop == ASSUME NamedInv, Inv, LoopStep PROVE NamedInv'
<1>o. /\ op[Loop] \in Ops /\ op = [t \in Thread |-> op[t]] /\ FsTypes /\ TableTypes /\ Loop \in Thread
      /\ m_watches \subseteq Root /\ m_renameMap \subseteq 1 .. renames /\ lastWd \in Nat
  BY DEF NamedInv, OpTypes, Thread, Inv
<1>p. ASSUME NEW o \in Ops, Becomes(Loop, o), m_watches' \subseteq Root,
             UNCHANGED m_renameMap, UNCHANGED fsVars
      PROVE  OpTypes'
  BY <1>o, <1>p, OpMoves DEF NamedInv, fsVars
<1>q. ASSUME queue # << >>
      PROVE  /\ Head(queue) \in Fit /\ Tail(queue) \in Seq(Fit)
             /\ Head(queue).kind = "ignored" => Head(queue).wd \notin DOMAIN kernel
  <2>1. Head(queue) \in Fit /\ Tail(queue) \in Seq(Fit)
    BY <1>q, HeadTailProperties DEF NamedInv
  <2>2. Head(queue) = queue[1] /\ 1 \in DOMAIN queue
    BY <1>q, HeadTailProperties, LenProperties, EmptySeq DEF NamedInv
  <2> QED BY <2>1, <2>2 DEF Inv, IgnoredIsDead
<1>1. CASE HandleIgnored
  <2> DEFINE wd == Head(queue).wd
             v(r) == [m_rootWatches[r] EXCEPT !.associatedWds = m_rootWatches[r].associatedWds \ {wd}]
  <2>1. /\ queue # << >> /\ Head(queue).kind = "ignored" /\ queue' = Tail(queue)
        /\ UNCHANGED <<fsVars, kernel, lastWd, m_watches, m_renameMap, op>>
        /\ Forget({wd}) /\ m_wdToRoots' = Without(m_wdToRoots, {wd})
        /\ m_rootWatches' = [r \in DOMAIN m_rootWatches |->
                               IF wd \in DOMAIN m_wdToRoots /\ r \in m_wdToRoots[wd] THEN v(r)
                               ELSE m_rootWatches[r]]
    <3>1. queue # << >> /\ Head(queue).kind = "ignored"
      BY <1>1 DEF HandleIgnored, NextEvent
    <3> QED BY <1>1, <3>1, Zenon DEF HandleIgnored
  <2>2. wd \notin DOMAIN kernel
    BY <1>q, <2>1
  <2>3. \A r \in DOMAIN m_rootWatches : v(r) \in RootWatch /\ m_rootWatches[r] \in RootWatch
    BY <1>o DEF TableTypes, RootWatch
  <2> HIDE DEF wd, v
  <2>4. /\ DOMAIN m_rootWatches' \subseteq Root
        /\ \A r \in DOMAIN m_rootWatches' : m_rootWatches'[r] \in RootWatch
    BY <1>o, <2>1, <2>3 DEF TableTypes
  <2>5. /\ DOMAIN m_wdToRoots' = DOMAIN m_wdToRoots \ {wd}
        /\ \A w \in DOMAIN m_wdToRoots' : m_wdToRoots'[w] \subseteq Root
    BY <1>o, <2>1 DEF TableTypes, Without, Restrict
  <2>6. DOMAIN kernel' = DOMAIN kernel \ {wd} /\ \A w \in DOMAIN kernel' : kernel'[w] = kernel[w]
    BY <2>1, <2>2
  <2>7. FsTypes' /\ TableTypes' /\ Held' /\ Fit \subseteq Fit'
    BY <2>1, <2>4, <2>5, <2>6, NamedForget
  <2>8. queue' \in Seq(Fit')
    BY <1>q, <2>1, <2>7, SeqGrows
  <2>9. OpTypes'
    BY <1>o, <2>1 DEF NamedInv, OpTypes, fsVars
  <2> QED BY <2>7, <2>8, <2>9 DEF NamedInv
<1>2. CASE HandleOther \/ HandleAppeared
  <2> DEFINE e == Head(queue)
  <2>1. /\ queue # << >> /\ queue' = Tail(queue)
        /\ UNCHANGED <<fsVars, kernel, lastWd, m_watches, tableVars>>
    BY <1>2 DEF HandleOther, HandleAppeared, NextEvent
  <2>2. /\ UNCHANGED <<fs, lastInode, renames, m_rootWatches, m_watchMap>>
        /\ UNCHANGED <<m_pathWatchMap, m_watchRecursive, m_wdToRoots>>
    BY <2>1 DEF fsVars, tableVars
  <2>3. FsTypes' /\ TableTypes' /\ Held' /\ Fit' = Fit
    BY <2>1, <2>2 DEF NamedInv, FsTypes, TableTypes, RootWatch, Held, Fit, EventPath, Event
  <2>4. e \in Fit
    BY <1>q, <2>1
  <2>5. ASSUME HandleOther PROVE OpTypes'
    <3>1. /\ op' = op
          /\ \/ m_renameMap' = m_renameMap
             \/ e.kind = "moved_from" /\ m_renameMap' = m_renameMap \cup {e.cookie}
             \/ m_renameMap' = m_renameMap \ {e.cookie}
      BY <2>5 DEF HandleOther
    <3>2. e.kind = "moved_from" => e.cookie \in 1 .. renames
      BY <2>4 DEF Fit
    <3> QED BY <1>o, <2>1, <2>2, <3>1, <3>2 DEF NamedInv, OpTypes
  <2>6. ASSUME HandleAppeared PROVE OpTypes'
    <3> DEFINE o == [at |-> "roots", wd |-> e.wd, path |-> EventPath(e)]
    <3>1. /\ e.kind \in {"create", "moved_to"} /\ e.wd \in DOMAIN m_watchMap
          /\ Becomes(Loop, o) /\ m_renameMap' = m_renameMap \ {e.cookie}
      BY <2>6 DEF HandleAppeared, NextEvent
    <3>2. e.wd \in Nat /\ EventPath(e) \in Path
      BY <2>4, <3>1 DEF Fit, Event
    <3>3. o \in Ops
      BY <3>2 DEF Ops
    <3> HIDE DEF o
    <3> QED BY <1>o, <2>1, <2>2, <3>1, <3>3 DEF NamedInv, OpTypes, Becomes
  <2> QED BY <1>q, <1>2, <2>1, <2>3, <2>5, <2>6 DEF NamedInv
<1>3. CASE FindRoots
  <2> DEFINE heirs == Heirs(op[Loop].wd)
             path == op[Loop].path
  <2>1. /\ op[Loop].at = "roots" /\ UNCHANGED <<fsVars, kernelVars, m_watches, tableVars, m_renameMap>>
        /\ \/ Becomes(Loop, Idle)
           \/ \E r \in heirs : Becomes(Loop, ScanOf(path, r, heirs \ {r}))
    BY <1>3 DEF FindRoots
  <2>2. path \in Path /\ heirs \subseteq Root
    BY <1>o, <2>1, OpParts DEF Heirs
  <2> HIDE DEF path, heirs
  <2>3. Idle \in Ops /\ \A r \in heirs : ScanOf(path, r, heirs \ {r}) \in Ops
    BY <2>2 DEF Ops, Scan, ScanOf
  <2>4. OpTypes'
    BY <1>o, <1>p, <2>1, <2>3
  <2>5. /\ UNCHANGED <<fs, lastInode, renames, kernel, lastWd, queue, m_rootWatches, m_watchMap>>
        /\ UNCHANGED <<m_pathWatchMap, m_watchRecursive, m_wdToRoots>>
    BY <2>1 DEF fsVars, kernelVars, tableVars
  <2> QED BY <2>4, <2>5 DEF NamedInv, FsTypes, TableTypes, RootWatch, Held, Fit, EventPath, Event
<1> QED BY <1>1, <1>2, <1>3 DEF LoopStep

LEMMA NamedNext == ASSUME NamedInv, Inv, NoRename, [Next]_vars PROVE NamedInv'
<1>1. CASE FsStep
  BY <1>1, NamedFs
<1>2. CASE LoopStep
  BY <1>2, NamedLoop
<1>3. ASSUME NEW th \in Thread, ClientStep(th) \/ ScanStep(th) PROVE NamedInv'
  BY <1>3, NamedCall
<1>4. CASE UNCHANGED vars
  <2>1. /\ UNCHANGED <<fs, lastInode, renames, kernel, lastWd, queue, m_rootWatches, m_watchMap>>
        /\ UNCHANGED <<m_pathWatchMap, m_watchRecursive, m_wdToRoots, m_watches, m_renameMap, op>>
    BY <1>4 DEF vars, fsVars, kernelVars, tableVars
  <2> QED BY <2>1 DEF NamedInv, FsTypes, TableTypes, RootWatch, OpTypes, Held, Fit, EventPath, Event
<1> QED BY <1>1, <1>2, <1>3, <1>4 DEF Next, Thread

\* Types and inverse maps, whatever calls overlap, are removed or come back.
THEOREM TypesAreKept == ASSUME NoRename PROVE Spec => []TypeOK
<1>1. Init => NamedInv /\ Inv
  BY NamedInit, InitInv
<1>2. NamedInv /\ Inv /\ [Next]_vars => (NamedInv /\ Inv)'
  BY NamedNext, NextInv
<1>3. NamedInv /\ Inv => TypeOK
  <2> SUFFICES ASSUME NamedInv, Inv PROVE TypeOK
    OBVIOUS
  <2>1. Range(fs) \subseteq 0 .. lastInode /\ DOMAIN fs \subseteq Path
    BY DEF NamedInv, FsTypes, Range
  <2>2. Range(kernel) \subseteq 0 .. lastInode /\ DOMAIN kernel \subseteq 1 .. lastWd
    <3>1. \A wd \in DOMAIN kernel : kernel[wd] \in 0 .. lastInode
      BY DEF NamedInv, Held, FsTypes
    <3> QED BY <3>1 DEF Inv, Range
  <2>3. DOMAIN m_watchMap \subseteq 1 .. lastWd /\ Range(m_watchMap) \subseteq Path
    BY DEF NamedInv, TableTypes, Range
  <2>4. DOMAIN m_pathWatchMap \subseteq Path /\ Range(m_pathWatchMap) \subseteq 1 .. lastWd
    BY DEF NamedInv, TableTypes, Range
  <2>5. DOMAIN m_wdToRoots \subseteq 1 .. lastWd /\ Range(m_wdToRoots) \subseteq SUBSET Root
    BY <2>3 DEF NamedInv, TableTypes, Range
  <2>6. /\ DOMAIN m_rootWatches \subseteq Root
        /\ \A r \in DOMAIN m_rootWatches :
              m_rootWatches[r] \in [recursive : BOOLEAN, associatedWds : SUBSET (1 .. lastWd)]
        /\ m_watchRecursive \subseteq 1 .. lastWd
    BY DEF NamedInv, TableTypes, RootWatch
  <2>7. queue \in Seq(Event) /\ m_watches \subseteq Root /\ m_renameMap \subseteq 1 .. renames
        /\ \A th \in Thread : op[th] \in Ops
    BY DEF NamedInv, Inv, OpTypes
  <2> QED BY <2>1, <2>2, <2>3, <2>4, <2>5, <2>6, <2>7 DEF TypeOK
<1> QED BY <1>1, <1>2, <1>3, PTL DEF Spec

-----------------------------------------------------------------------------
(* Nothing leaks while calls do not overlap.                                *)

NoOverlap == ~MayHappen("overlap")

\* A thread that is alone moves on.
Alone(th) == \A other \in Thread \ {th} : op[other] = Idle

\* Who may begin something is alone, and so is who is in the middle of something.
LEMMA AloneIs ==
  ASSUME SerialInv, NoOverlap, NEW th \in Thread, op[th] # Idle \/ MayBegin(th)
  PROVE  Alone(th)
BY DEF SerialInv, Serial, NoOverlap, MayBegin, Alone

LEMMA SerialMoves ==
  ASSUME SerialInv, NEW th \in Thread, Alone(th), NEW o, OpShaped(o), Becomes(th, o),
         OpFits(o, m_watches', m_rootWatches'), RootShapes', RootsKnow',
         \A r \in DOMAIN m_rootWatches' : r \in m_watches' \/ (o.at = "removeRoot" /\ o.root = r)
  PROVE  SerialInv'
<1>1. /\ op' = [t \in Thread |-> op'[t]] /\ op'[th] = o
      /\ \A other \in Thread \ {th} : op'[other] = Idle
  BY DEF SerialInv, OpShapes, Becomes, Alone
<1>2. OpShaped(Idle) /\ OpFits(Idle, m_watches', m_rootWatches')
  BY DEF OpShaped, OpFits, Idle
<1>3. OpShapes'
  BY <1>1, <1>2, Zenon DEF OpShapes
<1>4. Serial'
  BY <1>1 DEF Serial
<1>5. OpRoots'
  BY <1>1, <1>2, Zenon DEF OpRoots
<1>6. RootsCall'
  BY <1>1 DEF RootsCall, Removing
<1> QED BY <1>3, <1>4, <1>5, <1>6 DEF SerialInv

\* Every root has a callback, unless the thread that is alone removes it.
LEMMA RootsHaveCallbacks ==
  ASSUME SerialInv, NEW th \in Thread, Alone(th)
  PROVE  \A r \in DOMAIN m_rootWatches : r \in m_watches \/ (op[th].at = "removeRoot" /\ op[th].root = r)
BY DEF SerialInv, RootsCall, Removing, Alone, Idle

\* A descriptor is linked to a root that has its entry and its callback.
LEMMA SerialLinked ==
  ASSUME SerialInv, NEW wd, NEW p, NEW r \in DOMAIN m_rootWatches, NEW recursive, Linked(wd, p, r, recursive),
         DOMAIN m_watchMap' \subseteq DOMAIN m_watchMap \cup {wd}
  PROVE  /\ DOMAIN m_rootWatches' = DOMAIN m_rootWatches
         /\ RootShapes' /\ RootsKnow'
         /\ \A s \in DOMAIN m_rootWatches : m_rootWatches'[s].associatedWds =
               IF s = r THEN m_rootWatches[s].associatedWds \cup {wd} ELSE m_rootWatches[s].associatedWds
         /\ DOMAIN m_wdToRoots' = DOMAIN m_wdToRoots \cup {wd}
         /\ m_wdToRoots'[wd] = IF wd \in DOMAIN m_wdToRoots THEN m_wdToRoots[wd] \cup {r} ELSE {r}
         /\ \A w \in DOMAIN m_wdToRoots \ {wd} : m_wdToRoots'[w] = m_wdToRoots[w]
<1> DEFINE a == m_rootWatches[r].associatedWds
           v == [m_rootWatches[r] EXCEPT !.associatedWds = a \cup {wd}]
           u == IF wd \in DOMAIN m_wdToRoots THEN m_wdToRoots[wd] \cup {r} ELSE {r}
<1>1. /\ m_rootWatches' = With(m_rootWatches, r, v) /\ m_wdToRoots' = With(m_wdToRoots, wd, u)
  BY Zenon DEF Linked
<1>2. /\ v.associatedWds = a \cup {wd}
      /\ v = [f \in {"recursive", "associatedWds"} |-> v[f]]
  BY DEF SerialInv, RootShapes
<1> HIDE DEF v
<1>3. /\ DOMAIN m_rootWatches' = DOMAIN m_rootWatches
      /\ \A s \in DOMAIN m_rootWatches : m_rootWatches'[s] = IF s = r THEN v ELSE m_rootWatches[s]
  BY <1>1 DEF With
<1>4. /\ DOMAIN m_wdToRoots' = DOMAIN m_wdToRoots \cup {wd}
      /\ \A w \in DOMAIN m_wdToRoots' : m_wdToRoots'[w] = IF w = wd THEN u ELSE m_wdToRoots[w]
  BY <1>1 DEF With
<1>5. RootShapes'
  BY <1>2, <1>3, Zenon DEF SerialInv, RootShapes
<1>6. \A s \in DOMAIN m_rootWatches : m_rootWatches'[s].associatedWds =
         IF s = r THEN m_rootWatches[s].associatedWds \cup {wd} ELSE m_rootWatches[s].associatedWds
  BY <1>2, <1>3
<1>7. /\ \A w \in DOMAIN m_wdToRoots :
            /\ m_wdToRoots[w] # {}
            /\ \A s \in m_wdToRoots[w] : s \in DOMAIN m_rootWatches /\ w \in m_rootWatches[s].associatedWds
      /\ DOMAIN m_watchMap \subseteq DOMAIN m_wdToRoots
  BY DEF SerialInv, RootsKnow
<1>8. DOMAIN m_watchMap' \subseteq DOMAIN m_wdToRoots'
  BY <1>4, <1>7
<1>9. ASSUME NEW w \in DOMAIN m_wdToRoots'
      PROVE  /\ m_wdToRoots'[w] # {}
             /\ \A s \in m_wdToRoots'[w] : s \in DOMAIN m_rootWatches' /\ w \in m_rootWatches'[s].associatedWds
  <2>1. CASE w = wd
    <3>1. m_wdToRoots'[w] = u /\ r \in u
      BY <1>4, <2>1
    <3>2. ASSUME NEW s \in u PROVE s \in DOMAIN m_rootWatches /\ w \in m_rootWatches'[s].associatedWds
      <4>1. s = r \/ (s # r /\ wd \in DOMAIN m_wdToRoots /\ s \in m_wdToRoots[wd])
        OBVIOUS
      <4>2. s # r => s \in DOMAIN m_rootWatches /\ wd \in m_rootWatches[s].associatedWds
        BY <1>7, <4>1
      <4> HIDE DEF u
      <4> QED BY <1>6, <2>1, <4>2
    <3> QED BY <1>3, <3>1, <3>2
  <2>2. CASE w # wd
    BY <1>3, <1>4, <1>6, <1>7, <2>2
  <2> QED BY <2>1, <2>2
<1>10. /\ m_wdToRoots'[wd] = u /\ \A w \in DOMAIN m_wdToRoots \ {wd} : m_wdToRoots'[w] = m_wdToRoots[w]
  BY <1>4
<1>11. RootsKnow'
  BY <1>8, <1>9 DEF RootsKnow
<1> QED BY <1>3, <1>4, <1>5, <1>6, <1>10, <1>11

\* The tables as they are, or a directory that is added for a root that has its entry.
LEMMA SerialAdd ==
  ASSUME SerialInv, NEW p, NEW r \in DOMAIN m_rootWatches, NEW recursive,
         AddDirectoryWatch(p, r, recursive) \/ NoDirectory(p)
  PROVE  DOMAIN m_rootWatches' = DOMAIN m_rootWatches /\ RootShapes' /\ RootsKnow'
<1>1. CASE KnownDirectory(p, r, recursive)
  <2>1. Linked(m_pathWatchMap[p], p, r, recursive) /\ m_watchMap' = m_watchMap
    BY <1>1 DEF KnownDirectory
  <2> QED BY <2>1, SerialLinked
<1>2. CASE NewDirectory(p, r, recursive)
  <2>1. PICK wd : Linked(wd, p, r, recursive) /\ m_watchMap' = With(m_watchMap, wd, p)
    BY <1>2, Zenon DEF NewDirectory
  <2>2. DOMAIN m_watchMap' = DOMAIN m_watchMap \cup {wd}
    BY <2>1 DEF With
  <2> QED BY <2>1, <2>2, SerialLinked
<1>3. CASE NoDirectory(p)
  BY <1>3 DEF NoDirectory, tableVars, SerialInv, RootShapes, RootsKnow
<1> QED BY <1>1, <1>2, <1>3 DEF AddDirectoryWatch

\* addWatch, and removeWatch of a path that is no root.
LEMMA SerialClient ==
  ASSUME SerialInv, NoOverlap, NEW th \in Thread, ClientStep(th), ~RemoveRoot(th)
  PROVE  SerialInv'
<1> DEFINE r == op[th].root
<1>1. ASSUME NEW s, AddWatch(th, s) \/ RemoveWatch(th, s) PROVE SerialInv'
  <2>1. /\ UNCHANGED tableVars /\ MayBegin(th) /\ op[th] = Idle
        /\ \/ /\ s \notin m_watches /\ m_watches' = m_watches \cup {s}
              /\ Becomes(th, [at |-> "insertRoot", root |-> s])
           \/ m_watches' = m_watches \ {s} /\ Becomes(th, [at |-> "removeRoot", root |-> s])
    BY <1>1 DEF AddWatch, RemoveWatch, MayBegin
  <2>2. Alone(th) /\ \A q \in DOMAIN m_rootWatches : q \in m_watches
    BY <2>1, AloneIs, RootsHaveCallbacks DEF Idle
  <2>3. /\ OpShaped([at |-> "insertRoot", root |-> s]) /\ OpShaped([at |-> "removeRoot", root |-> s])
    BY DEF OpShaped
  <2>4. /\ m_rootWatches' = m_rootWatches /\ RootShapes' /\ RootsKnow'
    BY <2>1 DEF tableVars, SerialInv, RootShapes, RootsKnow
  <2>5. CASE /\ s \notin m_watches /\ m_watches' = m_watches \cup {s}
             /\ Becomes(th, [at |-> "insertRoot", root |-> s])
    <3>1. OpFits([at |-> "insertRoot", root |-> s], m_watches', m_rootWatches')
      BY <2>2, <2>4, <2>5 DEF OpFits
    <3>2. \A q \in DOMAIN m_rootWatches' : q \in m_watches'
      BY <2>2, <2>4, <2>5
    <3> QED BY <2>2, <2>3, <2>4, <2>5, <3>1, <3>2, SerialMoves
  <2>6. CASE m_watches' = m_watches \ {s} /\ Becomes(th, [at |-> "removeRoot", root |-> s])
    <3> DEFINE d == [at |-> "removeRoot", root |-> s]
    <3>1. OpFits(d, m_watches', m_rootWatches')
      BY <2>6 DEF OpFits
    <3>2. d.at = "removeRoot" /\ d.root = s /\ OpShaped(d) /\ Becomes(th, d)
      BY <2>3, <2>6
    <3> HIDE DEF d
    <3>3. \A q \in DOMAIN m_rootWatches' : q \in m_watches' \/ (d.at = "removeRoot" /\ d.root = q)
      BY <2>2, <2>4, <2>6, <3>2
    <3> QED BY <2>2, <2>4, <3>1, <3>2, <3>3, SerialMoves
  <2> QED BY <2>1, <2>5, <2>6
<1>2. CASE InsertRoot(th)
  <2> DEFINE v == [recursive |-> r \in RecursiveRoot, associatedWds |-> {}]
             o == [at |-> "addRoot", root |-> r]
  <2>1. /\ op[th].at = "insertRoot" /\ m_rootWatches' = With(m_rootWatches, r, v) /\ Becomes(th, o)
        /\ UNCHANGED <<m_watches, m_watchMap, m_wdToRoots>>
    BY <1>2 DEF InsertRoot
  <2>2. r \in m_watches /\ r \notin DOMAIN m_rootWatches
    BY <2>1 DEF SerialInv, OpRoots, OpFits
  <2>3. Alone(th) /\ \A q \in DOMAIN m_rootWatches : q \in m_watches
    BY <2>1, AloneIs, RootsHaveCallbacks DEF Idle
  <2>4. v.associatedWds = {} /\ v = [f \in {"recursive", "associatedWds"} |-> v[f]]
    OBVIOUS
  <2>5. o.at = "addRoot" /\ o.root = r /\ OpShaped(o)
    BY DEF OpShaped
  <2> HIDE DEF v, o, r
  <2>6. /\ DOMAIN m_rootWatches' = DOMAIN m_rootWatches \cup {r} /\ m_rootWatches'[r] = v
        /\ \A q \in DOMAIN m_rootWatches : m_rootWatches'[q] = m_rootWatches[q]
    BY <2>1, <2>2 DEF With
  <2>7. RootShapes'
    BY <2>4, <2>6 DEF SerialInv, RootShapes
  <2>8. RootsKnow'
    BY <2>1, <2>6 DEF SerialInv, RootsKnow
  <2>9. OpFits(o, m_watches', m_rootWatches')
    BY <2>4, <2>5, <2>6 DEF OpFits
  <2>10. \A q \in DOMAIN m_rootWatches' : q \in m_watches'
    BY <2>1, <2>2, <2>3, <2>6
  <2> QED BY <2>1, <2>3, <2>5, <2>7, <2>8, <2>9, <2>10, SerialMoves
<1>3. CASE AddRoot(th)
  <2>1. /\ op[th].at = "addRoot" /\ m_watches' = m_watches
        /\ \/ AddDirectoryWatch(r, r, r \in RecursiveRoot)
              /\ (Becomes(th, ScanOf(r, r, {})) \/ Becomes(th, Idle))
           \/ NoDirectory(r) /\ Becomes(th, [at |-> "eraseRoot", root |-> r])
    BY <1>3, Zenon DEF AddRoot
  <2>2. r \in DOMAIN m_rootWatches /\ m_rootWatches[r].associatedWds = {}
    BY <2>1 DEF SerialInv, OpRoots, OpFits
  <2>3. Alone(th) /\ \A q \in DOMAIN m_rootWatches : q \in m_watches
    BY <2>1, AloneIs, RootsHaveCallbacks DEF Idle
  <2>4. OpShaped(ScanOf(r, r, {})) /\ OpShaped(Idle) /\ OpShaped([at |-> "eraseRoot", root |-> r])
    BY DEF OpShaped, ScanOf, Idle, RootField, ScanField
  <2> HIDE DEF r
  <2>5. DOMAIN m_rootWatches' = DOMAIN m_rootWatches /\ RootShapes' /\ RootsKnow'
    BY <2>1, <2>2, SerialAdd, Zenon
  <2>6. OpFits(ScanOf(r, r, {}), m_watches', m_rootWatches') /\ OpFits(Idle, m_watches', m_rootWatches')
    BY <2>2, <2>5 DEF OpFits, ScanOf, Idle
  <2>7. NoDirectory(r) => OpFits([at |-> "eraseRoot", root |-> r], m_watches', m_rootWatches')
    BY <2>2 DEF OpFits, NoDirectory, tableVars
  <2>8. \A q \in DOMAIN m_rootWatches' : q \in m_watches'
    BY <2>1, <2>3, <2>5
  <2> QED BY <2>1, <2>3, <2>4, <2>5, <2>6, <2>7, <2>8, SerialMoves, Zenon
<1>4. CASE EraseRoot(th)
  <2> DEFINE o == [at |-> "eraseWatch", root |-> r]
  <2>1. /\ op[th].at = "eraseRoot" /\ m_rootWatches' = Without(m_rootWatches, {r})
        /\ Becomes(th, [op[th] EXCEPT !.at = "eraseWatch"])
        /\ UNCHANGED <<m_watches, m_watchMap, m_wdToRoots>>
    BY <1>4 DEF EraseRoot
  <2>2. r \in DOMAIN m_rootWatches /\ m_rootWatches[r].associatedWds = {}
    BY <2>1 DEF SerialInv, OpRoots, OpFits
  <2>3. Alone(th) /\ \A q \in DOMAIN m_rootWatches : q \in m_watches
    BY <2>1, AloneIs, RootsHaveCallbacks DEF Idle
  <2>4. [op[th] EXCEPT !.at = "eraseWatch"] = o
    BY <2>1 DEF SerialInv, OpShapes, OpShaped, RootField
  <2>5. Becomes(th, o)
    BY <2>1, <2>4, Zenon
  <2>6. OpShaped(o) /\ o.at = "eraseWatch" /\ o.root = r
    BY DEF OpShaped
  <2> HIDE DEF o, r
  <2>7. /\ DOMAIN m_rootWatches' = DOMAIN m_rootWatches \ {r}
        /\ \A q \in DOMAIN m_rootWatches' : m_rootWatches'[q] = m_rootWatches[q]
    BY <2>1 DEF Without, Restrict
  <2>8. RootShapes'
    BY <2>7 DEF SerialInv, RootShapes
  <2>9. RootsKnow'
    BY <2>1, <2>2, <2>7 DEF SerialInv, RootsKnow
  <2>10. OpFits(o, m_watches', m_rootWatches')
    BY <2>6, <2>7 DEF OpFits
  <2>11. \A q \in DOMAIN m_rootWatches' : q \in m_watches'
    BY <2>1, <2>3, <2>7
  <2> QED BY <2>3, <2>5, <2>6, <2>8, <2>9, <2>10, <2>11, SerialMoves
<1>5. CASE EraseWatch(th)
  <2>1. /\ op[th].at = "eraseWatch" /\ m_watches' = m_watches \ {r} /\ UNCHANGED tableVars /\ Becomes(th, Idle)
    BY <1>5 DEF EraseWatch
  <2>2. r \notin DOMAIN m_rootWatches
    BY <2>1 DEF SerialInv, OpRoots, OpFits
  <2>3. Alone(th) /\ \A q \in DOMAIN m_rootWatches : q \in m_watches
    BY <2>1, AloneIs, RootsHaveCallbacks DEF Idle
  <2>4. OpShaped(Idle) /\ OpFits(Idle, m_watches', m_rootWatches')
    BY DEF OpShaped, OpFits, Idle
  <2>5. m_rootWatches' = m_rootWatches /\ RootShapes' /\ RootsKnow'
    BY <2>1 DEF tableVars, SerialInv, RootShapes, RootsKnow
  <2>6. \A q \in DOMAIN m_rootWatches' : q \in m_watches'
    BY <2>1, <2>2, <2>3, <2>5
  <2> QED BY <2>1, <2>3, <2>4, <2>5, <2>6, SerialMoves
<1>6. CASE RemovePath(th)
  <2> DEFINE wd == m_pathWatchMap[r]
  <2>1. /\ op[th].at = "removeRoot" /\ r \notin DOMAIN m_rootWatches /\ Becomes(th, Idle)
        /\ m_watches' = m_watches /\ m_rootWatches' = m_rootWatches
        /\ \/ m_wdToRoots' = Without(m_wdToRoots, {wd}) /\ Forget({wd})
           \/ UNCHANGED <<m_watchMap, m_wdToRoots>>
    BY <1>6 DEF RemovePath, Release
  <2>2. Alone(th) /\ \A q \in DOMAIN m_rootWatches : q \in m_watches
    BY <2>1, AloneIs, RootsHaveCallbacks DEF Idle
  <2>3. OpShaped(Idle) /\ OpFits(Idle, m_watches', m_rootWatches')
    BY DEF OpShaped, OpFits, Idle
  <2> HIDE DEF wd
  <2>4. RootShapes'
    BY <2>1 DEF SerialInv, RootShapes
  <2>5. RootsKnow'
    <3>1. CASE m_wdToRoots' = Without(m_wdToRoots, {wd}) /\ Forget({wd})
      <4>1. /\ DOMAIN m_wdToRoots' = DOMAIN m_wdToRoots \ {wd}
            /\ \A w \in DOMAIN m_wdToRoots' : m_wdToRoots'[w] = m_wdToRoots[w]
            /\ DOMAIN m_watchMap' = DOMAIN m_watchMap \ {wd}
        BY <3>1 DEF Forget, Without, Restrict
      <4> QED BY <2>1, <4>1 DEF SerialInv, RootsKnow
    <3>2. CASE UNCHANGED <<m_watchMap, m_wdToRoots>>
      BY <2>1, <3>2 DEF SerialInv, RootsKnow
    <3> QED BY <2>1, <3>1, <3>2
  <2>6. \A q \in DOMAIN m_rootWatches' : q \in m_watches'
    BY <2>1, <2>2
  <2> QED BY <2>1, <2>2, <2>3, <2>4, <2>5, <2>6, SerialMoves
<1> QED BY <1>1, <1>2, <1>3, <1>4, <1>5, <1>6 DEF ClientStep

\* removeWatch of a root takes it from every descriptor, and the descriptors that were
\* its own.
LEMMA SerialRemove ==
  ASSUME SerialInv, NoOverlap, NEW th \in Thread, RemoveRoot(th)
  PROVE  SerialInv'
<1> DEFINE r == op[th].root
           U == Unneeded(r)
           O == Owned(r)
<1>1. /\ op[th].at = "removeRoot" /\ r \in DOMAIN m_rootWatches
      /\ m_wdToRoots' = [wd \in DOMAIN m_wdToRoots \ U |->
                            IF wd \in O THEN m_wdToRoots[wd] \ {r} ELSE m_wdToRoots[wd]]
      /\ m_rootWatches' = Without(m_rootWatches, {r}) /\ Forget(U)
      /\ Becomes(th, Idle) /\ m_watches' = m_watches
  BY DEF RemoveRoot, Release
<1>2. /\ \A wd \in DOMAIN m_wdToRoots : wd \in U <=> wd \in O /\ m_wdToRoots[wd] = {r}
      /\ \A wd \in DOMAIN m_wdToRoots : r \in m_wdToRoots[wd] => wd \in O
  BY DEF Unneeded, Owned, SerialInv, RootsKnow
<1>3. Alone(th) /\ \A q \in DOMAIN m_rootWatches : q \in m_watches \/ q = r
  BY <1>1, AloneIs, RootsHaveCallbacks DEF Idle
<1>4. OpShaped(Idle) /\ OpFits(Idle, m_watches', m_rootWatches')
  BY DEF OpShaped, OpFits, Idle
<1> HIDE DEF r, U, O
<1>5. /\ DOMAIN m_rootWatches' = DOMAIN m_rootWatches \ {r}
      /\ \A q \in DOMAIN m_rootWatches' : m_rootWatches'[q] = m_rootWatches[q]
      /\ DOMAIN m_watchMap' = DOMAIN m_watchMap \ U
      /\ DOMAIN m_wdToRoots' = DOMAIN m_wdToRoots \ U
  BY <1>1 DEF Forget, Without, Restrict
<1>6. RootShapes'
  BY <1>5 DEF SerialInv, RootShapes
<1>7. RootsKnow'
  <2>1. DOMAIN m_watchMap' \subseteq DOMAIN m_wdToRoots'
    BY <1>5 DEF SerialInv, RootsKnow
  <2>2. ASSUME NEW wd \in DOMAIN m_wdToRoots'
        PROVE  /\ m_wdToRoots'[wd] # {}
               /\ \A s \in m_wdToRoots'[wd] : s \in DOMAIN m_rootWatches' /\ wd \in m_rootWatches'[s].associatedWds
    <3>1. /\ wd \in DOMAIN m_wdToRoots /\ wd \notin U /\ m_wdToRoots[wd] # {}
          /\ \A s \in m_wdToRoots[wd] : s \in DOMAIN m_rootWatches /\ wd \in m_rootWatches[s].associatedWds
      BY <1>5 DEF SerialInv, RootsKnow
    <3>2. m_wdToRoots'[wd] = m_wdToRoots[wd] \ {r} /\ m_wdToRoots'[wd] # {}
      BY <1>1, <1>2, <3>1
    <3> QED BY <1>5, <3>1, <3>2
  <2> QED BY <2>1, <2>2 DEF RootsKnow
<1>8. \A q \in DOMAIN m_rootWatches' : q \in m_watches'
  BY <1>1, <1>3, <1>5
<1> QED BY <1>1, <1>3, <1>4, <1>6, <1>7, <1>8, SerialMoves

LEMMA SerialScan ==
  ASSUME SerialInv, NoOverlap, NEW th \in Thread, ScanStep(th)
  PROVE  SerialInv'
<1> DEFINE o == op[th]
<1>1. List(th) \/ ScanDone(th) \/ \E p \in o.todo : Visit(th, p) \/ PassOver(th, p)
  BY DEF ScanStep
<1>2. o.at \in {"visit", "list"}
  BY <1>1, Zenon DEF List, ScanDone, Visit, PassOver
<1>3. o = [f \in ScanField |-> o[f]] /\ o.root \in DOMAIN m_rootWatches /\ o.roots \subseteq DOMAIN m_rootWatches
  BY <1>2 DEF SerialInv, OpShapes, OpShaped, OpRoots, OpFits
<1>4. Alone(th) /\ \A q \in DOMAIN m_rootWatches : q \in m_watches
  BY <1>2, AloneIs, RootsHaveCallbacks DEF Idle
<1>5. /\ DOMAIN m_rootWatches' = DOMAIN m_rootWatches /\ RootShapes' /\ RootsKnow' /\ m_watches' = m_watches
  <2>1. CASE List(th) \/ ScanDone(th) \/ \E p \in o.todo : PassOver(th, p)
    <3>1. UNCHANGED <<m_watches, tableVars>>
      BY <2>1, Zenon DEF List, ScanDone, PassOver
    <3> QED BY <3>1 DEF tableVars, SerialInv, RootShapes, RootsKnow
  <2>2. ASSUME NEW p \in o.todo, Visit(th, p)
        PROVE  DOMAIN m_rootWatches' = DOMAIN m_rootWatches /\ RootShapes' /\ RootsKnow' /\ m_watches' = m_watches
    <3>1. (AddDirectoryWatch(p, o.root, TRUE) \/ NoDirectory(p)) /\ m_watches' = m_watches
      BY <2>2, Zenon DEF Visit
    <3> QED BY <1>3, <3>1, SerialAdd, Zenon
  <2> QED BY <1>1, <2>1, <2>2
<1>6. \E n : Becomes(th, n) /\ OpShaped(n) /\ OpFits(n, m_watches', m_rootWatches')
  <2>1. ASSUME NEW at \in {"visit", "list"}, NEW todo, NEW dir
        PROVE  LET n == [at |-> at, todo |-> todo, dir |-> dir, start |-> o.start, root |-> o.root, roots |-> o.roots]
               IN  OpShaped(n) /\ OpFits(n, m_watches', m_rootWatches')
    BY <1>3, <1>5 DEF OpShaped, OpFits, ScanField
  <2>2. CASE List(th)
    <3>1. Becomes(th, [o EXCEPT !.at = "visit", !.todo = o.todo \cup Children(o.dir)])
      BY <2>2, Zenon DEF List
    <3>2. [o EXCEPT !.at = "visit", !.todo = o.todo \cup Children(o.dir)]
            = [at |-> "visit", todo |-> o.todo \cup Children(o.dir), dir |-> o.dir, start |-> o.start,
               root |-> o.root, roots |-> o.roots]
      BY <1>3, ScanMoves, Zenon
    <3> QED BY <2>1, <3>1, <3>2, Zenon
  <2>3. CASE ScanDone(th)
    <3>1. \/ Becomes(th, Idle)
          \/ \E r \in o.roots : Becomes(th, ScanOf(o.start, r, o.roots \ {r}))
      BY <2>3 DEF ScanDone
    <3>2. OpShaped(Idle) /\ OpFits(Idle, m_watches', m_rootWatches')
      BY DEF OpShaped, OpFits, Idle
    <3>3. ASSUME NEW r \in o.roots
          PROVE  /\ OpShaped(ScanOf(o.start, r, o.roots \ {r}))
                 /\ OpFits(ScanOf(o.start, r, o.roots \ {r}), m_watches', m_rootWatches')
      BY <1>3, <1>5 DEF OpShaped, OpFits, ScanOf, ScanField
    <3> QED BY <3>1, <3>2, <3>3, Zenon
  <2>4. ASSUME NEW p \in o.todo, Visit(th, p)
        PROVE  \E n : Becomes(th, n) /\ OpShaped(n) /\ OpFits(n, m_watches', m_rootWatches')
    <3>1. Becomes(th, [o EXCEPT !.at = "list", !.dir = p, !.todo = o.todo \ {p}])
      BY <2>4, Zenon DEF Visit
    <3>2. [o EXCEPT !.at = "list", !.dir = p, !.todo = o.todo \ {p}]
            = [at |-> "list", todo |-> o.todo \ {p}, dir |-> p, start |-> o.start,
               root |-> o.root, roots |-> o.roots]
      BY <1>3, ScanMoves, Zenon
    <3> QED BY <2>1, <3>1, <3>2, Zenon
  <2>5. ASSUME NEW p \in o.todo, PassOver(th, p)
        PROVE  \E n : Becomes(th, n) /\ OpShaped(n) /\ OpFits(n, m_watches', m_rootWatches')
    <3>1. Becomes(th, [o EXCEPT !.todo = o.todo \ {p}])
      BY <2>5, Zenon DEF PassOver
    <3>2. [o EXCEPT !.todo = o.todo \ {p}]
            = [at |-> o.at, todo |-> o.todo \ {p}, dir |-> o.dir, start |-> o.start,
               root |-> o.root, roots |-> o.roots]
      BY <1>3 DEF ScanField
    <3> QED BY <1>2, <2>1, <3>1, <3>2, Zenon
  <2> QED BY <1>1, <2>2, <2>3, <2>4, <2>5
<1>7. PICK n : Becomes(th, n) /\ OpShaped(n) /\ OpFits(n, m_watches', m_rootWatches')
  BY <1>6
<1>8. \A q \in DOMAIN m_rootWatches' : q \in m_watches'
  BY <1>4, <1>5
<1> QED BY <1>4, <1>5, <1>7, <1>8, SerialMoves

LEMMA SerialLoop == ASSUME SerialInv, NoOverlap, LoopStep PROVE SerialInv'
<1>l. Loop \in Thread
  BY DEF Thread
<1>1. CASE HandleIgnored
  <2> DEFINE wd == Head(queue).wd
             v(r) == [m_rootWatches[r] EXCEPT !.associatedWds = m_rootWatches[r].associatedWds \ {wd}]
  <2>1. /\ MayBegin(Loop) /\ UNCHANGED <<m_watches, op>>
        /\ Forget({wd}) /\ m_wdToRoots' = Without(m_wdToRoots, {wd})
        /\ m_rootWatches' = [r \in DOMAIN m_rootWatches |->
                               IF wd \in DOMAIN m_wdToRoots /\ r \in m_wdToRoots[wd] THEN v(r)
                               ELSE m_rootWatches[r]]
    <3>1. MayBegin(Loop)
      BY <1>1 DEF HandleIgnored, NextEvent
    <3> QED BY <1>1, <3>1, Zenon DEF HandleIgnored
  <2>2. Alone(Loop) /\ op[Loop] = Idle
    BY <1>l, <2>1, AloneIs DEF MayBegin
  <2>3. \A q \in DOMAIN m_rootWatches : q \in m_watches
    BY <1>l, <2>2, RootsHaveCallbacks DEF Idle
  <2>4. OpShaped(Idle) /\ OpFits(Idle, m_watches', m_rootWatches') /\ Becomes(Loop, Idle)
    BY <1>l, <2>1, <2>2 DEF SerialInv, OpShapes, OpShaped, OpFits, Idle, Becomes
  <2>5. \A r \in DOMAIN m_rootWatches :
           /\ v(r).associatedWds = m_rootWatches[r].associatedWds \ {wd}
           /\ v(r) = [f \in {"recursive", "associatedWds"} |-> v(r)[f]]
    BY DEF SerialInv, RootShapes
  <2> HIDE DEF wd, v
  <2>6. /\ DOMAIN m_wdToRoots' = DOMAIN m_wdToRoots \ {wd}
        /\ \A w \in DOMAIN m_wdToRoots' : m_wdToRoots'[w] = m_wdToRoots[w]
        /\ DOMAIN m_watchMap' = DOMAIN m_watchMap \ {wd}
        /\ DOMAIN m_rootWatches' = DOMAIN m_rootWatches
    BY <2>1 DEF Forget, Without, Restrict
  <2>7. RootShapes'
    BY <2>1, <2>5, <2>6, Zenon DEF SerialInv, RootShapes
  <2>8. \A r \in DOMAIN m_rootWatches : \A w : w \in m_rootWatches[r].associatedWds /\ w # wd
                                             => w \in m_rootWatches'[r].associatedWds
    BY <2>1, <2>5
  <2>9. RootsKnow'
    BY <2>6, <2>8 DEF SerialInv, RootsKnow
  <2>10. \A q \in DOMAIN m_rootWatches' : q \in m_watches'
    BY <2>1, <2>3, <2>6
  <2> QED BY <1>l, <2>2, <2>4, <2>7, <2>9, <2>10, SerialMoves
<1>2. CASE HandleOther
  <2>1. UNCHANGED <<m_watches, tableVars, op>>
    BY <1>2 DEF HandleOther
  <2> QED BY <2>1 DEF tableVars, SerialInv, OpShapes, OpShaped, RootShapes, Serial, OpRoots, OpFits,
                      RootsKnow, RootsCall, Removing
<1>3. CASE HandleAppeared
  <2> DEFINE o == [at |-> "roots", wd |-> Head(queue).wd, path |-> EventPath(Head(queue))]
  <2>1. MayBegin(Loop) /\ UNCHANGED <<m_watches, tableVars>> /\ Becomes(Loop, o)
    BY <1>3 DEF HandleAppeared, NextEvent
  <2>2. Alone(Loop) /\ \A q \in DOMAIN m_rootWatches : q \in m_watches
    BY <1>l, <2>1, AloneIs, RootsHaveCallbacks DEF MayBegin, Idle
  <2>3. OpShaped(o) /\ OpFits(o, m_watches', m_rootWatches')
    BY DEF OpShaped, OpFits
  <2> HIDE DEF o
  <2>4. /\ m_rootWatches' = m_rootWatches /\ RootShapes' /\ RootsKnow'
    BY <2>1 DEF tableVars, SerialInv, RootShapes, RootsKnow
  <2>5. \A q \in DOMAIN m_rootWatches' : q \in m_watches'
    BY <2>1, <2>2, <2>4
  <2> QED BY <1>l, <2>1, <2>2, <2>3, <2>4, <2>5, SerialMoves
<1>4. CASE FindRoots
  <2> DEFINE heirs == Heirs(op[Loop].wd)
             path == op[Loop].path
  <2>1. /\ op[Loop].at = "roots" /\ UNCHANGED <<m_watches, tableVars>>
        /\ \/ Becomes(Loop, Idle)
           \/ \E r \in heirs : Becomes(Loop, ScanOf(path, r, heirs \ {r}))
    BY <1>4 DEF FindRoots
  <2>2. heirs \subseteq DOMAIN m_rootWatches
    BY DEF Heirs
  <2> HIDE DEF heirs, path
  <2>3. Alone(Loop) /\ \A q \in DOMAIN m_rootWatches : q \in m_watches
    BY <1>l, <2>1, AloneIs, RootsHaveCallbacks DEF Idle
  <2>4. /\ m_rootWatches' = m_rootWatches /\ RootShapes' /\ RootsKnow'
    BY <2>1 DEF tableVars, SerialInv, RootShapes, RootsKnow
  <2>5. /\ OpShaped(Idle) /\ OpFits(Idle, m_watches', m_rootWatches')
        /\ \A r \in heirs : /\ OpShaped(ScanOf(path, r, heirs \ {r}))
                            /\ OpFits(ScanOf(path, r, heirs \ {r}), m_watches', m_rootWatches')
    BY <2>2, <2>4 DEF OpShaped, OpFits, ScanOf, ScanField, Idle
  <2>6. \A q \in DOMAIN m_rootWatches' : q \in m_watches'
    BY <2>1, <2>3, <2>4
  <2>7. PICK n : Becomes(Loop, n) /\ OpShaped(n) /\ OpFits(n, m_watches', m_rootWatches')
    BY <2>1, <2>5, Zenon
  <2> QED BY <1>l, <2>3, <2>4, <2>6, <2>7, SerialMoves
<1> QED BY <1>1, <1>2, <1>3, <1>4 DEF LoopStep

LEMMA SerialInit == ASSUME Init PROVE SerialInv
<1>1. /\ op = [th \in Thread |-> Idle] /\ DOMAIN m_rootWatches = {} /\ DOMAIN m_watchMap = {}
      /\ DOMAIN m_wdToRoots = {}
  BY DEF Init
<1> QED BY <1>1 DEF SerialInv, OpShapes, OpShaped, RootShapes, Serial, OpRoots, OpFits, RootsKnow,
                    RootsCall, Idle

LEMMA SerialNext == ASSUME SerialInv, NoOverlap, [Next]_vars PROVE SerialInv'
<1>1. CASE FsStep \/ UNCHANGED vars
  <2>1. UNCHANGED <<m_watches, tableVars, op>>
    BY <1>1, Zenon DEF FsStep, Mkdir, Rmdir, Rename, vars
  <2> QED BY <2>1 DEF tableVars, SerialInv, OpShapes, OpShaped, RootShapes, Serial, OpRoots, OpFits,
                      RootsKnow, RootsCall, Removing
<1>2. CASE LoopStep
  BY <1>2, SerialLoop
<1>3. ASSUME NEW th \in Thread, ClientStep(th) PROVE SerialInv'
  BY <1>3, SerialClient, SerialRemove
<1>4. ASSUME NEW th \in Thread, ScanStep(th) PROVE SerialInv'
  BY <1>4, SerialScan
<1> QED BY <1>1, <1>2, <1>3, <1>4 DEF Next, Thread

\* When all is quiet, every watch the kernel holds is there for a path that is still in
\* m_watches, however directories come, go and are renamed, as long as no call overlaps
\* a scan or another call.
THEOREM NothingLeaks == ASSUME NoOverlap PROVE Spec => []NoLeak
<1>1. Init => SerialInv /\ Inv
  BY SerialInit, InitInv
<1>2. SerialInv /\ Inv /\ [Next]_vars => (SerialInv /\ Inv)'
  BY SerialNext, NextInv
<1>3. SerialInv /\ Inv => NoLeak
  <2> SUFFICES ASSUME SerialInv, Inv, Quiescent, NEW wd \in DOMAIN kernel
               PROVE  wd \in DOMAIN m_wdToRoots /\ m_wdToRoots[wd] # {} /\ m_wdToRoots[wd] \subseteq m_watches
    BY DEF NoLeak
  <2>1. \A th \in Thread : op[th].at # "removeRoot"
    BY DEF Quiescent, Idle
  <2>2. DOMAIN m_rootWatches \subseteq m_watches
    BY <2>1 DEF SerialInv, RootsCall, Removing
  <2>3. wd \in DOMAIN m_wdToRoots
    BY DEF Inv, KernelKnown, SerialInv, RootsKnow
  <2> QED BY <2>2, <2>3 DEF SerialInv, RootsKnow
<1> QED BY <1>1, <1>2, <1>3, PTL DEF Spec

-----------------------------------------------------------------------------
(* The relations between roots and descriptors agree.                       *)

NoStray == ~MayHappen("strayRemove")

LEMMA AgreeMoves ==
  ASSUME SerialInv, NEW th \in Thread, Alone(th), NEW o, Becomes(th, o), RootsListed',
         \A r \in m_watches' :
            r \in DOMAIN m_rootWatches' \/ (o.at \in {"insertRoot", "eraseWatch"} /\ o.root = r),
         o.at = "removeRoot" => o.root \in DOMAIN m_rootWatches'
  PROVE  AgreeInv'
<1>1. op'[th] = o /\ \A other \in Thread \ {th} : op'[other] = Idle
  BY DEF SerialInv, OpShapes, Becomes, Alone
<1>2. \A r \in m_watches' : Rooted(r)'
  BY <1>1 DEF Rooted
<1>3. \A t \in Thread : op'[t].at = "removeRoot" => op'[t].root \in DOMAIN m_rootWatches'
  BY <1>1 DEF Idle
<1> QED BY <1>2, <1>3 DEF AgreeInv

\* Every path with a callback is a root, unless the thread that is alone adds it.
LEMMA CallbacksHaveRoots ==
  ASSUME AgreeInv, NEW th \in Thread, Alone(th)
  PROVE  \A r \in m_watches :
           r \in DOMAIN m_rootWatches \/ (op[th].at \in {"insertRoot", "eraseWatch"} /\ op[th].root = r)
BY DEF AgreeInv, Rooted, Alone, Idle

LEMMA AgreeAdd ==
  ASSUME SerialInv, AgreeInv, NEW p, NEW r \in DOMAIN m_rootWatches, NEW recursive,
         AddDirectoryWatch(p, r, recursive) \/ NoDirectory(p)
  PROVE  RootsListed'
<1>1. ASSUME NEW wd, Linked(wd, p, r, recursive), DOMAIN m_watchMap' \subseteq DOMAIN m_watchMap \cup {wd}
      PROVE  RootsListed'
  <2>1. /\ DOMAIN m_rootWatches' = DOMAIN m_rootWatches
        /\ \A s \in DOMAIN m_rootWatches : m_rootWatches'[s].associatedWds =
              IF s = r THEN m_rootWatches[s].associatedWds \cup {wd} ELSE m_rootWatches[s].associatedWds
        /\ DOMAIN m_wdToRoots' = DOMAIN m_wdToRoots \cup {wd}
        /\ m_wdToRoots'[wd] = IF wd \in DOMAIN m_wdToRoots THEN m_wdToRoots[wd] \cup {r} ELSE {r}
        /\ \A w \in DOMAIN m_wdToRoots \ {wd} : m_wdToRoots'[w] = m_wdToRoots[w]
    BY <1>1, SerialLinked, Zenon
  <2>2. ASSUME NEW s \in DOMAIN m_rootWatches, NEW w \in m_rootWatches'[s].associatedWds
        PROVE  w \in DOMAIN m_wdToRoots' /\ s \in m_wdToRoots'[w]
    <3>1. \/ w \in m_rootWatches[s].associatedWds
          \/ s = r /\ w = wd
      BY <2>1, <2>2
    <3>2. w \in m_rootWatches[s].associatedWds => w \in DOMAIN m_wdToRoots /\ s \in m_wdToRoots[w]
      BY DEF AgreeInv, RootsListed
    <3> QED BY <2>1, <3>1, <3>2
  <2> QED BY <2>1, <2>2 DEF RootsListed
<1>2. CASE KnownDirectory(p, r, recursive)
  <2>1. Linked(m_pathWatchMap[p], p, r, recursive) /\ m_watchMap' = m_watchMap
    BY <1>2 DEF KnownDirectory
  <2> QED BY <1>1, <2>1
<1>3. CASE NewDirectory(p, r, recursive)
  <2>1. PICK wd : Linked(wd, p, r, recursive) /\ m_watchMap' = With(m_watchMap, wd, p)
    BY <1>3, Zenon DEF NewDirectory
  <2>2. DOMAIN m_watchMap' = DOMAIN m_watchMap \cup {wd}
    BY <2>1 DEF With
  <2> QED BY <1>1, <2>1, <2>2
<1>4. CASE NoDirectory(p)
  BY <1>4 DEF NoDirectory, tableVars, AgreeInv, RootsListed
<1> QED BY <1>2, <1>3, <1>4 DEF AddDirectoryWatch

LEMMA AgreeClient ==
  ASSUME SerialInv, AgreeInv, NoOverlap, NoStray, NEW th \in Thread, ClientStep(th)
  PROVE  AgreeInv'
<1> DEFINE r == op[th].root
<1>1. ASSUME NEW s, AddWatch(th, s) \/ RemoveWatch(th, s) PROVE AgreeInv'
  <2> DEFINE a == [at |-> "insertRoot", root |-> s]
             d == [at |-> "removeRoot", root |-> s]
  <2>1. /\ UNCHANGED tableVars /\ MayBegin(th) /\ op[th] = Idle
        /\ \/ m_watches' = m_watches \cup {s} /\ Becomes(th, a)
           \/ s \in m_watches /\ m_watches' = m_watches \ {s} /\ Becomes(th, d)
    BY <1>1 DEF AddWatch, RemoveWatch, MayBegin, NoStray
  <2>2. Alone(th) /\ \A q \in m_watches : q \in DOMAIN m_rootWatches
    BY <2>1, AloneIs, CallbacksHaveRoots DEF Idle
  <2>3. m_rootWatches' = m_rootWatches /\ RootsListed'
    BY <2>1 DEF tableVars, AgreeInv, RootsListed
  <2>4. a.at = "insertRoot" /\ a.root = s /\ d.at = "removeRoot" /\ d.root = s
    OBVIOUS
  <2> HIDE DEF a, d
  <2>5. CASE m_watches' = m_watches \cup {s} /\ Becomes(th, a)
    <3>1. \A q \in m_watches' :
             q \in DOMAIN m_rootWatches' \/ (a.at \in {"insertRoot", "eraseWatch"} /\ a.root = q)
      BY <2>2, <2>3, <2>4, <2>5
    <3> QED BY <2>2, <2>3, <2>4, <2>5, <3>1, AgreeMoves
  <2>6. CASE s \in m_watches /\ m_watches' = m_watches \ {s} /\ Becomes(th, d)
    <3>1. s \in DOMAIN m_rootWatches' /\ \A q \in m_watches' : q \in DOMAIN m_rootWatches'
      BY <2>2, <2>3, <2>6
    <3> QED BY <2>2, <2>3, <2>4, <2>6, <3>1, AgreeMoves
  <2> QED BY <2>1, <2>5, <2>6
<1>2. CASE InsertRoot(th)
  <2> DEFINE v == [recursive |-> r \in RecursiveRoot, associatedWds |-> {}]
             o == [at |-> "addRoot", root |-> r]
  <2>1. /\ op[th].at = "insertRoot" /\ m_rootWatches' = With(m_rootWatches, r, v) /\ Becomes(th, o)
        /\ UNCHANGED <<m_watches, m_wdToRoots>>
    BY <1>2 DEF InsertRoot
  <2>2. Alone(th) /\ \A q \in m_watches : q \in DOMAIN m_rootWatches \cup {r}
    BY <2>1, AloneIs, CallbacksHaveRoots DEF Idle
  <2>3. v.associatedWds = {} /\ o.at = "addRoot" /\ o.root = r
    OBVIOUS
  <2> HIDE DEF v, o, r
  <2>4. /\ DOMAIN m_rootWatches' = DOMAIN m_rootWatches \cup {r}
        /\ \A q \in DOMAIN m_rootWatches' : m_rootWatches'[q] = IF q = r THEN v ELSE m_rootWatches[q]
    BY <2>1 DEF With
  <2>5. RootsListed'
    BY <2>1, <2>3, <2>4 DEF AgreeInv, RootsListed
  <2>6. \A q \in m_watches' : q \in DOMAIN m_rootWatches'
    BY <2>1, <2>2, <2>4
  <2> QED BY <2>1, <2>2, <2>3, <2>5, <2>6, AgreeMoves
<1>3. CASE AddRoot(th)
  <2>1. /\ op[th].at = "addRoot" /\ m_watches' = m_watches
        /\ AddDirectoryWatch(r, r, r \in RecursiveRoot) \/ NoDirectory(r)
        /\ \/ Becomes(th, ScanOf(r, r, {}))
           \/ Becomes(th, Idle)
           \/ Becomes(th, [at |-> "eraseRoot", root |-> r])
    BY <1>3, Zenon DEF AddRoot
  <2>2. r \in DOMAIN m_rootWatches
    BY <2>1 DEF SerialInv, OpRoots, OpFits
  <2>3. Alone(th) /\ \A q \in m_watches : q \in DOMAIN m_rootWatches
    BY <2>1, AloneIs, CallbacksHaveRoots DEF Idle
  <2>4. /\ ScanOf(r, r, {}).at = "visit" /\ Idle.at = "idle" /\ [at |-> "eraseRoot", root |-> r].at = "eraseRoot"
    BY DEF ScanOf, Idle
  <2> HIDE DEF r
  <2>5. DOMAIN m_rootWatches' = DOMAIN m_rootWatches /\ RootsListed'
    BY <2>1, <2>2, SerialAdd, AgreeAdd, Zenon
  <2>6. \A q \in m_watches' : q \in DOMAIN m_rootWatches'
    BY <2>1, <2>3, <2>5
  <2>7. PICK n : Becomes(th, n) /\ n.at # "removeRoot"
    BY <2>1, <2>4
  <2> QED BY <2>3, <2>5, <2>6, <2>7, AgreeMoves
<1>4. CASE EraseRoot(th)
  <2> DEFINE o == [at |-> "eraseWatch", root |-> r]
  <2>1. /\ op[th].at = "eraseRoot" /\ m_rootWatches' = Without(m_rootWatches, {r})
        /\ Becomes(th, [op[th] EXCEPT !.at = "eraseWatch"])
        /\ UNCHANGED <<m_watches, m_wdToRoots>>
    BY <1>4 DEF EraseRoot
  <2>2. Alone(th) /\ \A q \in m_watches : q \in DOMAIN m_rootWatches
    BY <2>1, AloneIs, CallbacksHaveRoots DEF Idle
  <2>3. [op[th] EXCEPT !.at = "eraseWatch"] = o
    BY <2>1 DEF SerialInv, OpShapes, OpShaped, RootField
  <2>4. Becomes(th, o)
    BY <2>1, <2>3, Zenon
  <2>5. o.at = "eraseWatch" /\ o.root = r
    OBVIOUS
  <2> HIDE DEF o, r
  <2>6. /\ DOMAIN m_rootWatches' = DOMAIN m_rootWatches \ {r}
        /\ \A q \in DOMAIN m_rootWatches' : m_rootWatches'[q] = m_rootWatches[q]
    BY <2>1 DEF Without, Restrict
  <2>7. RootsListed'
    BY <2>1, <2>6 DEF AgreeInv, RootsListed
  <2>8. \A q \in m_watches' : q \in DOMAIN m_rootWatches' \/ (o.at \in {"insertRoot", "eraseWatch"} /\ o.root = q)
    BY <2>1, <2>2, <2>5, <2>6
  <2> QED BY <2>2, <2>4, <2>5, <2>7, <2>8, AgreeMoves
<1>5. CASE EraseWatch(th)
  <2>1. /\ op[th].at = "eraseWatch" /\ m_watches' = m_watches \ {r} /\ UNCHANGED tableVars /\ Becomes(th, Idle)
    BY <1>5 DEF EraseWatch
  <2>2. Alone(th) /\ \A q \in m_watches : q \in DOMAIN m_rootWatches \/ q = r
    BY <2>1, AloneIs, CallbacksHaveRoots DEF Idle
  <2>3. m_rootWatches' = m_rootWatches /\ RootsListed' /\ Idle.at = "idle"
    BY <2>1 DEF tableVars, AgreeInv, RootsListed, Idle
  <2>4. \A q \in m_watches' : q \in DOMAIN m_rootWatches'
    BY <2>1, <2>2, <2>3
  <2> QED BY <2>1, <2>2, <2>3, <2>4, AgreeMoves
<1>6. CASE RemoveRoot(th)
  <2> DEFINE U == Unneeded(r)
             O == Owned(r)
  <2>1. /\ op[th].at = "removeRoot"
        /\ m_wdToRoots' = [wd \in DOMAIN m_wdToRoots \ U |->
                              IF wd \in O THEN m_wdToRoots[wd] \ {r} ELSE m_wdToRoots[wd]]
        /\ m_rootWatches' = Without(m_rootWatches, {r})
        /\ Becomes(th, Idle) /\ m_watches' = m_watches
    BY <1>6 DEF RemoveRoot
  <2>2. \A wd \in U : m_wdToRoots[wd] = {r}
    BY DEF Unneeded
  <2>3. r \notin m_watches
    BY <2>1 DEF SerialInv, OpRoots, OpFits
  <2>4. Alone(th) /\ Idle.at = "idle" /\ \A q \in m_watches : q \in DOMAIN m_rootWatches
    BY <2>1, AloneIs, CallbacksHaveRoots DEF Idle
  <2> HIDE DEF r, U, O
  <2>5. /\ DOMAIN m_rootWatches' = DOMAIN m_rootWatches \ {r}
        /\ \A q \in DOMAIN m_rootWatches' : m_rootWatches'[q] = m_rootWatches[q]
    BY <2>1 DEF Without, Restrict
  <2>6. RootsListed'
    BY <2>1, <2>2, <2>5 DEF AgreeInv, RootsListed
  <2>7. \A q \in m_watches' : q \in DOMAIN m_rootWatches'
    BY <2>1, <2>3, <2>4, <2>5
  <2> QED BY <2>1, <2>4, <2>6, <2>7, AgreeMoves
<1>7. ~RemovePath(th)
  BY DEF RemovePath, AgreeInv
<1> QED BY <1>1, <1>2, <1>3, <1>4, <1>5, <1>6, <1>7 DEF ClientStep

LEMMA AgreeScan ==
  ASSUME SerialInv, AgreeInv, NoOverlap, NEW th \in Thread, ScanStep(th)
  PROVE  AgreeInv'
<1> DEFINE o == op[th]
<1>1. List(th) \/ ScanDone(th) \/ \E p \in o.todo : Visit(th, p) \/ PassOver(th, p)
  BY DEF ScanStep
<1>2. o.at \in {"visit", "list"}
  BY <1>1, Zenon DEF List, ScanDone, Visit, PassOver
<1>3. o = [f \in ScanField |-> o[f]] /\ o.root \in DOMAIN m_rootWatches
  BY <1>2 DEF SerialInv, OpShapes, OpShaped, OpRoots, OpFits
<1>4. Alone(th) /\ \A q \in m_watches : q \in DOMAIN m_rootWatches
  BY <1>2, AloneIs, CallbacksHaveRoots DEF Idle
<1>5. DOMAIN m_rootWatches' = DOMAIN m_rootWatches /\ RootsListed' /\ m_watches' = m_watches
  <2>1. CASE List(th) \/ ScanDone(th) \/ \E p \in o.todo : PassOver(th, p)
    <3>1. UNCHANGED <<m_watches, tableVars>>
      BY <2>1, Zenon DEF List, ScanDone, PassOver
    <3> QED BY <3>1 DEF tableVars, AgreeInv, RootsListed
  <2>2. ASSUME NEW p \in o.todo, Visit(th, p)
        PROVE  DOMAIN m_rootWatches' = DOMAIN m_rootWatches /\ RootsListed' /\ m_watches' = m_watches
    <3>1. (AddDirectoryWatch(p, o.root, TRUE) \/ NoDirectory(p)) /\ m_watches' = m_watches
      BY <2>2, Zenon DEF Visit
    <3> QED BY <1>3, <3>1, SerialAdd, AgreeAdd, Zenon
  <2> QED BY <1>1, <2>1, <2>2
<1>6. \E n : Becomes(th, n) /\ n.at # "removeRoot"
  <2>1. CASE List(th)
    <3>1. Becomes(th, [o EXCEPT !.at = "visit", !.todo = o.todo \cup Children(o.dir)])
      BY <2>1, Zenon DEF List
    <3>2. [o EXCEPT !.at = "visit", !.todo = o.todo \cup Children(o.dir)]
            = [at |-> "visit", todo |-> o.todo \cup Children(o.dir), dir |-> o.dir, start |-> o.start,
               root |-> o.root, roots |-> o.roots]
      BY <1>3, ScanMoves, Zenon
    <3>3. [o EXCEPT !.at = "visit", !.todo = o.todo \cup Children(o.dir)].at # "removeRoot"
      BY <3>2
    <3> QED BY <3>1, <3>3, Zenon
  <2>2. CASE ScanDone(th)
    <3>1. \/ Becomes(th, Idle)
          \/ \E r \in o.roots : Becomes(th, ScanOf(o.start, r, o.roots \ {r}))
      BY <2>2 DEF ScanDone
    <3>2. Idle.at # "removeRoot" /\ \A r \in o.roots : ScanOf(o.start, r, o.roots \ {r}).at # "removeRoot"
      BY DEF Idle, ScanOf
    <3> QED BY <3>1, <3>2, Zenon
  <2>3. ASSUME NEW p \in o.todo, Visit(th, p) PROVE \E n : Becomes(th, n) /\ n.at # "removeRoot"
    <3>1. Becomes(th, [o EXCEPT !.at = "list", !.dir = p, !.todo = o.todo \ {p}])
      BY <2>3, Zenon DEF Visit
    <3>2. [o EXCEPT !.at = "list", !.dir = p, !.todo = o.todo \ {p}]
            = [at |-> "list", todo |-> o.todo \ {p}, dir |-> p, start |-> o.start,
               root |-> o.root, roots |-> o.roots]
      BY <1>3, ScanMoves, Zenon
    <3>3. [o EXCEPT !.at = "list", !.dir = p, !.todo = o.todo \ {p}].at # "removeRoot"
      BY <3>2
    <3> QED BY <3>1, <3>3, Zenon
  <2>4. ASSUME NEW p \in o.todo, PassOver(th, p) PROVE \E n : Becomes(th, n) /\ n.at # "removeRoot"
    <3>1. Becomes(th, [o EXCEPT !.todo = o.todo \ {p}])
      BY <2>4, Zenon DEF PassOver
    <3>2. [o EXCEPT !.todo = o.todo \ {p}].at = o.at
      BY <1>3 DEF ScanField
    <3> QED BY <1>2, <3>1, <3>2
  <2> QED BY <1>1, <2>1, <2>2, <2>3, <2>4
<1>7. PICK n : Becomes(th, n) /\ n.at # "removeRoot"
  BY <1>6
<1>8. \A q \in m_watches' : q \in DOMAIN m_rootWatches'
  BY <1>4, <1>5
<1> QED BY <1>4, <1>5, <1>7, <1>8, AgreeMoves

LEMMA AgreeLoop == ASSUME SerialInv, AgreeInv, NoOverlap, LoopStep PROVE AgreeInv'
<1>l. Loop \in Thread
  BY DEF Thread
<1>1. CASE HandleIgnored
  <2> DEFINE wd == Head(queue).wd
             v(r) == [m_rootWatches[r] EXCEPT !.associatedWds = m_rootWatches[r].associatedWds \ {wd}]
  <2>1. /\ UNCHANGED <<m_watches, op>> /\ m_wdToRoots' = Without(m_wdToRoots, {wd})
        /\ m_rootWatches' = [r \in DOMAIN m_rootWatches |->
                               IF wd \in DOMAIN m_wdToRoots /\ r \in m_wdToRoots[wd] THEN v(r)
                               ELSE m_rootWatches[r]]
    BY <1>1, Zenon DEF HandleIgnored
  <2>2. \A r \in DOMAIN m_rootWatches : v(r).associatedWds = m_rootWatches[r].associatedWds \ {wd}
    BY DEF SerialInv, RootShapes
  <2> HIDE DEF wd, v
  <2>3. /\ DOMAIN m_wdToRoots' = DOMAIN m_wdToRoots \ {wd}
        /\ \A w \in DOMAIN m_wdToRoots' : m_wdToRoots'[w] = m_wdToRoots[w]
        /\ DOMAIN m_rootWatches' = DOMAIN m_rootWatches
    BY <2>1 DEF Without, Restrict
  <2>4. ASSUME NEW r \in DOMAIN m_rootWatches, NEW w \in m_rootWatches'[r].associatedWds
        PROVE  w # wd /\ w \in m_rootWatches[r].associatedWds
    <3>1. CASE wd \in DOMAIN m_wdToRoots /\ r \in m_wdToRoots[wd]
      BY <2>1, <2>2, <2>4, <3>1
    <3>2. CASE ~(wd \in DOMAIN m_wdToRoots /\ r \in m_wdToRoots[wd])
      <4>1. m_rootWatches'[r] = m_rootWatches[r]
        BY <2>1, <3>2
      <4> QED BY <2>4, <3>2, <4>1 DEF AgreeInv, RootsListed
    <3> QED BY <3>1, <3>2
  <2>5. RootsListed'
    BY <2>3, <2>4 DEF AgreeInv, RootsListed
  <2> QED BY <2>1, <2>3, <2>5 DEF AgreeInv, Rooted
<1>2. CASE HandleOther
  <2>1. UNCHANGED <<m_watches, tableVars, op>>
    BY <1>2 DEF HandleOther
  <2> QED BY <2>1 DEF tableVars, AgreeInv, RootsListed, Rooted
<1>3. CASE HandleAppeared \/ FindRoots
  <2> DEFINE a == [at |-> "roots", wd |-> Head(queue).wd, path |-> EventPath(Head(queue))]
             path == op[Loop].path
             heirs == Heirs(op[Loop].wd)
  <2>1. /\ UNCHANGED <<m_watches, tableVars>>
        /\ \/ MayBegin(Loop) /\ op[Loop] = Idle /\ Becomes(Loop, a)
           \/ /\ op[Loop].at = "roots"
              /\ Becomes(Loop, Idle) \/ \E r \in heirs : Becomes(Loop, ScanOf(path, r, heirs \ {r}))
    BY <1>3 DEF HandleAppeared, NextEvent, FindRoots, MayBegin
  <2>2. /\ a.at # "removeRoot" /\ Idle.at # "removeRoot"
        /\ \A r \in heirs : ScanOf(path, r, heirs \ {r}).at # "removeRoot"
    BY DEF Idle, ScanOf
  <2> HIDE DEF a, path, heirs
  <2>3. Alone(Loop) /\ \A q \in m_watches : q \in DOMAIN m_rootWatches
    BY <1>l, <2>1, AloneIs, CallbacksHaveRoots DEF Idle
  <2>4. m_rootWatches' = m_rootWatches /\ m_watches' = m_watches /\ RootsListed'
    BY <2>1 DEF tableVars, AgreeInv, RootsListed
  <2>5. PICK n : Becomes(Loop, n) /\ n.at # "removeRoot"
    BY <2>1, <2>2, Zenon
  <2> QED BY <1>l, <2>3, <2>4, <2>5, AgreeMoves
<1> QED BY <1>1, <1>2, <1>3 DEF LoopStep

LEMMA AgreeNext ==
  ASSUME SerialInv, AgreeInv, NoOverlap, NoStray, [Next]_vars
  PROVE  AgreeInv'
<1>1. CASE FsStep \/ UNCHANGED vars
  <2>1. UNCHANGED <<m_watches, tableVars, op>>
    BY <1>1, Zenon DEF FsStep, Mkdir, Rmdir, Rename, vars
  <2> QED BY <2>1 DEF tableVars, AgreeInv, RootsListed, Rooted
<1>2. CASE LoopStep
  BY <1>2, AgreeLoop
<1>3. ASSUME NEW th \in Thread, ClientStep(th) PROVE AgreeInv'
  BY <1>3, AgreeClient
<1>4. ASSUME NEW th \in Thread, ScanStep(th) PROVE AgreeInv'
  BY <1>4, AgreeScan
<1> QED BY <1>1, <1>2, <1>3, <1>4 DEF Next, Thread

\* The maps between paths and descriptors are inverse, and so are the relations between
\* roots and descriptors: what removeWatch erases along the one, IN_IGNORED would erase
\* along the other.  For directories that keep their names, calls that do not overlap
\* scans or each other, and calls of removeWatch for what was added.
THEOREM TheTablesAgree == ASSUME NoRename, NoOverlap, NoStray PROVE Spec => []TablesAgree
<1> DEFINE I == NamedInv /\ SerialInv /\ AgreeInv /\ Inv
<1>1. Init => I
  <2>1. Init => AgreeInv
    BY DEF Init, AgreeInv, RootsListed, Idle
  <2> QED BY <2>1, NamedInit, SerialInit, InitInv
<1>2. I /\ [Next]_vars => I'
  BY NamedNext, SerialNext, AgreeNext, NextInv
<1>3. I => TablesAgree
  <2> SUFFICES ASSUME I PROVE TablesAgree
    OBVIOUS
  <2>1. /\ \A p \in DOMAIN m_pathWatchMap :
              m_pathWatchMap[p] \in DOMAIN m_watchMap /\ m_watchMap[m_pathWatchMap[p]] = p
        /\ DOMAIN m_wdToRoots = DOMAIN m_watchMap
    BY DEF NamedInv, TableTypes
  <2>2. ASSUME NEW r, NEW wd
        PROVE  (wd \in DOMAIN m_wdToRoots /\ r \in m_wdToRoots[wd])
                  <=> (r \in DOMAIN m_rootWatches /\ wd \in m_rootWatches[r].associatedWds)
    BY DEF SerialInv, RootsKnow, AgreeInv, RootsListed
  <2> QED BY <2>1, <2>2 DEF TablesAgree
<1> QED BY <1>1, <1>2, <1>3, PTL DEF Spec

-----------------------------------------------------------------------------
(* What holds while, besides, directories do not come back and roots stay.  *)

\* The descriptor wd is watched recursively, for the root r.
Live(wd, r) ==
    /\ wd \in DOMAIN kernel /\ wd \in m_watchRecursive
    /\ wd \in DOMAIN m_wdToRoots /\ r \in m_wdToRoots[wd]

\* The directory p is watched under its path, for the root r.
WatchedFor(r, p) == \E wd \in DOMAIN kernel : Live(wd, r) /\ kernel[wd] = fs[p] /\ m_watchMap[wd] = p

\* What a thread in the middle of o will come to visit for the root r has p below it.
Due(o, r, p) ==
    \/ o.at \in {"insertRoot", "addRoot"} /\ o.root = r /\ Under(r, p)
    \/ o.at = "roots" /\ r \in Heirs(o.wd) /\ Under(o.path, p)
    \/ o.at \in {"visit", "list"} /\ r \in o.roots /\ Under(o.start, p)
    \/ o.at \in {"visit", "list"} /\ r = o.root /\ \E q \in o.todo : Under(q, p)
    \/ o.at = "list" /\ r = o.root /\ Under(o.dir, p) /\ o.dir # p

\* An event in the queue will have p, or a directory above it, visited for the root r.
Announced(r, p) ==
    \E i \in DOMAIN queue :
        queue[i].kind = "create" /\ Live(queue[i].wd, r) /\ Under(EventPath(queue[i]), p)

Covering ==
    \A r \in m_watches \cap RecursiveRoot, p \in DOMAIN fs : Under(r, p) =>
        WatchedFor(r, p) \/ Announced(r, p) \/ \E th \in Thread : Due(op[th], r, p)

\* Roots do not go, and keep the flag they were added with.
RootsStand ==
    /\ m_watches \subseteq DOMAIN fs
    /\ \A r \in DOMAIN m_rootWatches : m_rootWatches[r].recursive <=> r \in RecursiveRoot

\* The descriptor listed for a directory is that of its inode.
Fresh ==
    \A p \in DOMAIN m_pathWatchMap \cap DOMAIN fs :
        m_pathWatchMap[p] \in DOMAIN kernel /\ kernel[m_pathWatchMap[p]] = fs[p]

\* What a directory is in exists.
Tree == \A p \in DOMAIN fs : \A n \in 0 .. Len(p) : SubSeq(p, 1, n) \in DOMAIN fs

CoverInv == Covering /\ RootsStand /\ Fresh /\ Tree

-----------------------------------------------------------------------------
(* Paths below each other.                                                  *)

\* Prefixes, element by element.
LEMMA PrefixIs ==
  ASSUME NEW p \in Seq(STRING), NEW n \in 0 .. Len(p)
  PROVE  /\ SubSeq(p, 1, n) \in Seq(STRING) /\ Len(SubSeq(p, 1, n)) = n
         /\ \A i \in 1 .. n : SubSeq(p, 1, n)[i] = p[i]
<1> DEFINE s == SubSeq(p, 1, n)
<1>1. Len(p) \in Nat /\ n \in Nat /\ n <= Len(p) /\ \A i \in 1 .. Len(p) : p[i] \in STRING
  BY LenProperties, ElementOfSeq
<1>2. \A i \in 1 .. n : p[i] \in STRING
  BY <1>1
<1>3. /\ SubSeq(p, 1, n) \in Seq(STRING)
      /\ Len(SubSeq(p, 1, n)) = IF 1 <= n THEN n - 1 + 1 ELSE 0
      /\ \A i \in 1 .. n - 1 + 1 : SubSeq(p, 1, n)[i] = p[1 + i - 1]
  <2>1. 1 \in Int /\ n \in Int
    BY <1>1
  <2> QED BY <1>2, <2>1, SubSeqProperties
<1>4. \A i \in 1 .. n : i \in 1 .. n - 1 + 1 /\ 1 + i - 1 = i
  BY <1>1
<1>5. \A i \in 1 .. n : s[i] = p[i]
  BY <1>3, <1>4
<1>6. Len(s) = IF 1 <= n THEN n - 1 + 1 ELSE 0
  BY <1>3, Zenon
<1>7. s \in Seq(STRING)
  BY <1>3
<1> HIDE DEF s
<1>8. Len(s) = n
  <2> DEFINE l == Len(s)
  <2>1. l = IF 1 <= n THEN n - 1 + 1 ELSE 0
    BY <1>6
  <2> HIDE DEF l
  <2>2. l = n
    BY <1>1, <2>1
  <2> QED BY <2>2 DEF l
<1> QED BY <1>5, <1>7, <1>8 DEF s

LEMMA UnderIs ==
  ASSUME NEW q \in Seq(STRING), NEW p \in Seq(STRING)
  PROVE  /\ Under(q, p) <=> Len(q) <= Len(p) /\ \A i \in 1 .. Len(q) : q[i] = p[i]
         /\ Under(q, p) => SubSeq(p, 1, Len(q)) = q
<1>1. Len(q) \in Nat /\ Len(p) \in Nat
  BY LenProperties
<1>2. /\ SubSeq(q, 1, Len(q)) \in Seq(STRING) /\ Len(SubSeq(q, 1, Len(q))) = Len(q)
      /\ \A i \in 1 .. Len(q) : SubSeq(q, 1, Len(q))[i] = q[i]
  <2>1. Len(q) \in 0 .. Len(q)
    BY <1>1
  <2> QED BY <2>1, PrefixIs
<1>3. SubSeq(q, 1, Len(q)) = q
  BY <1>2, SeqEqual
<1>4. CASE Len(q) <= Len(p)
  <2> DEFINE s == SubSeq(p, 1, Len(q))
  <2>1. s \in Seq(STRING) /\ Len(s) = Len(q) /\ \A i \in 1 .. Len(q) : s[i] = p[i]
    <3>1. Len(q) \in 0 .. Len(p)
      BY <1>1, <1>4
    <3> QED BY <3>1, PrefixIs
  <2>2. Under(q, p) <=> q = s
    BY <1>3, <1>4 DEF Under, IsPrefix
  <2> HIDE DEF s
  <2>3. (\A i \in 1 .. Len(q) : q[i] = p[i]) => q = s
    <3>1. ASSUME \A i \in 1 .. Len(q) : q[i] = p[i] PROVE \A i \in 1 .. Len(q) : q[i] = s[i]
      BY <2>1, <3>1
    <3> QED BY <2>1, <3>1, SeqEqual
  <2>4. q = s => \A i \in 1 .. Len(q) : q[i] = p[i]
    BY <2>1
  <2> QED BY <1>4, <2>2, <2>3, <2>4 DEF s
<1>5. CASE ~(Len(q) <= Len(p))
  BY <1>5 DEF Under, IsPrefix
<1> QED BY <1>4, <1>5

LEMMA UnderIsOrder ==
  ASSUME NEW p \in Seq(STRING), NEW q \in Seq(STRING), NEW d \in Seq(STRING)
  PROVE  Under(p, p) /\ (Under(d, q) /\ Under(q, p) => Under(d, p))
<1>1. Len(d) \in Nat /\ Len(q) \in Nat /\ Len(p) \in Nat
  BY LenProperties
<1>2. Under(p, p)
  BY <1>1, UnderIs
<1>3. ASSUME Under(d, q), Under(q, p) PROVE Under(d, p)
  <2>1. /\ Len(d) <= Len(q) /\ \A i \in 1 .. Len(d) : d[i] = q[i]
        /\ Len(q) <= Len(p) /\ \A i \in 1 .. Len(q) : q[i] = p[i]
    BY <1>3, UnderIs
  <2>2. Len(d) <= Len(p) /\ \A i \in 1 .. Len(d) : d[i] = p[i]
    BY <1>1, <2>1
  <2> QED BY <2>2, UnderIs
<1> QED BY <1>2, <1>3

\* A path strictly below d is below, or is, a path right below d.
LEMMA ChildToward ==
  ASSUME NEW d \in Seq(STRING), NEW p \in Seq(STRING), Under(d, p), d # p
  PROVE  \E n \in 0 .. Len(p) : LET c == SubSeq(p, 1, n) IN
            c \in Seq(STRING) /\ c # << >> /\ Front(c) = d /\ Under(c, p)
<1> DEFINE n == Len(d) + 1
           c == SubSeq(p, 1, n)
<1>1. Len(d) \in Nat /\ Len(p) \in Nat
  BY LenProperties
<1>2. Len(d) <= Len(p) /\ \A i \in 1 .. Len(d) : d[i] = p[i]
  BY UnderIs
<1>3. Len(d) # Len(p)
  BY <1>2, SeqEqual
<1>4. n \in 0 .. Len(p)
  BY <1>1, <1>2, <1>3
<1>5. c \in Seq(STRING) /\ Len(c) = n /\ \A i \in 1 .. n : c[i] = p[i]
  <2> HIDE DEF n
  <2> QED BY <1>4, PrefixIs
<1>6. Under(c, p) /\ c # << >>
  <2>1. Len(c) <= Len(p) /\ \A i \in 1 .. Len(c) : c[i] = p[i]
    BY <1>1, <1>4, <1>5
  <2>2. Len(c) # 0
    BY <1>1, <1>5
  <2> HIDE DEF c
  <2> QED BY <1>5, <2>1, <2>2, UnderIs, EmptySeq
<1>7. Front(c) = d
  <2>1. Front(c) = SubSeq(c, 1, Len(d)) /\ Len(d) \in 0 .. Len(c)
    <3>1. Len(c) - 1 = Len(d)
      BY <1>1, <1>5
    <3> QED BY <1>1, <1>5, <3>1 DEF Front
  <2> HIDE DEF c
  <2>2. Front(c) \in Seq(STRING) /\ Len(Front(c)) = Len(d) /\ \A i \in 1 .. Len(d) : Front(c)[i] = c[i]
    BY <1>5, <2>1, PrefixIs
  <2>3. \A i \in 1 .. Len(d) : Front(c)[i] = d[i]
    BY <1>1, <1>2, <1>5, <2>2
  <2> QED BY <2>2, <2>3, SeqEqual
<1> HIDE DEF c, n
<1> QED BY <1>4, <1>5, <1>6, <1>7 DEF c

\* What is above a path is above the directory it is in.
LEMMA UnderFront ==
  ASSUME NEW p \in Path \ {<< >>}, NEW q \in Seq(STRING)
  PROVE  Under(Front(p), p) /\ ~Under(p, Front(p)) /\ (Under(q, p) /\ q # p => Under(q, Front(p)))
<1> DEFINE d == Front(p)
<1>1. p \in Seq(STRING) /\ Len(p) \in Nat /\ Len(q) \in Nat /\ Len(p) # 0
  BY PathAssumption, LenProperties, EmptySeq
<1>2. d = SubSeq(p, 1, Len(p) - 1) /\ Len(p) - 1 \in 0 .. Len(p)
  BY <1>1 DEF Front
<1> HIDE DEF d
<1>3. d \in Seq(STRING) /\ Len(d) = Len(p) - 1 /\ \A i \in 1 .. Len(p) - 1 : d[i] = p[i]
  BY <1>1, <1>2, PrefixIs
<1>4. Under(d, p) /\ ~Under(p, d)
  <2>1. Len(d) <= Len(p) /\ ~(Len(p) <= Len(d)) /\ \A i \in 1 .. Len(d) : d[i] = p[i]
    BY <1>1, <1>3
  <2> QED BY <1>1, <1>3, <2>1, UnderIs
<1>5. ASSUME Under(q, p), q # p PROVE Under(q, d)
  <2>1. Len(q) <= Len(p) /\ \A i \in 1 .. Len(q) : q[i] = p[i]
    BY <1>1, <1>5, UnderIs
  <2>2. Len(q) # Len(p)
    BY <1>1, <1>5, <2>1, SeqEqual
  <2>3. Len(q) <= Len(d) /\ \A i \in 1 .. Len(q) : q[i] = d[i]
    BY <1>1, <1>3, <2>1, <2>2
  <2> QED BY <1>3, <2>3, UnderIs
<1> QED BY <1>4, <1>5 DEF d

LEMMA InTree ==
  ASSUME Tree, DOMAIN fs \subseteq Path, NEW p \in DOMAIN fs, NEW q \in Seq(STRING), Under(q, p)
  PROVE  q \in DOMAIN fs
<1>1. p \in Seq(STRING) /\ Len(p) \in Nat /\ Len(q) \in Nat
  BY PathAssumption, LenProperties
<1>2. Len(q) <= Len(p) /\ SubSeq(p, 1, Len(q)) = q
  BY <1>1, UnderIs
<1>3. Len(q) \in 0 .. Len(p)
  BY <1>1, <1>2
<1> QED BY <1>2, <1>3 DEF Tree

\* A directory with something below it has a child.
LEMMA HasChild ==
  ASSUME Tree, DOMAIN fs \subseteq Path, NEW p \in DOMAIN fs, NEW d \in Seq(STRING), Under(d, p), d # p
  PROVE  \E c \in Children(d) : Under(c, p)
<1>1. p \in Seq(STRING)
  BY PathAssumption
<1>2. PICK n \in 0 .. Len(p) : LET c == SubSeq(p, 1, n) IN
            c \in Seq(STRING) /\ c # << >> /\ Front(c) = d /\ Under(c, p)
  BY <1>1, ChildToward
<1>3. SubSeq(p, 1, n) \in DOMAIN fs
  BY DEF Tree
<1> QED BY <1>2, <1>3 DEF Children

-----------------------------------------------------------------------------
(* Watches that stay, and watches that are added.                           *)

NoGone   == ~MayHappen("rootGone")
NoReturn == ~MayHappen("recreated")

\* Every event the kernel queues is in the queue.
LEMMA AllQueued ==
  ASSUME NEW S, IsFiniteSet(S)
  PROVE  \A x \in S : \E i \in DOMAIN SetToSeq(S) : SetToSeq(S)[i] = x
<1> DEFINE n == Cardinality(S)
<1>1. n \in Nat /\ ExistsBijection(1 .. n, S)
  BY FS_CardinalityType
<1>2. \E f \in [1 .. n -> S] : IsInjective(f)
  BY <1>1 DEF ExistsBijection, Bijection, Injection
<1>3. SetToSeq(S) \in [1 .. n -> S] /\ IsInjective(SetToSeq(S))
  BY <1>2 DEF SetToSeq
<1>4. SetToSeq(S) \in Injection(1 .. n, S)
  BY <1>3 DEF Injection, IsInjective
<1>5. Cardinality(1 .. n) = n
  BY <1>1, FS_Interval
<1>6. SetToSeq(S) \in Surjection(1 .. n, S)
  BY <1>4, <1>5, FS_Injection
<1> QED BY <1>3, <1>6 DEF Surjection

\* What is watched stays so, and what is announced too, while the watches of a root stay.
LEMMA StaysLive ==
  ASSUME NEW r, \A wd \in DOMAIN kernel : Live(wd, r) =>
            Live(wd, r)' /\ kernel'[wd] = kernel[wd] /\ m_watchMap'[wd] = m_watchMap[wd]
  PROVE  /\ \A p : WatchedFor(r, p) /\ fs'[p] = fs[p] => WatchedFor(r, p)'
         /\ (\A i \in DOMAIN queue : i \in DOMAIN queue' /\ queue'[i] = queue[i])
               => \A p : Announced(r, p) => Announced(r, p)'
<1>1. \A wd : Live(wd, r) => wd \in DOMAIN kernel
  BY DEF Live
<1>2. ASSUME NEW p, WatchedFor(r, p), fs'[p] = fs[p] PROVE WatchedFor(r, p)'
  <2>1. PICK wd \in DOMAIN kernel : Live(wd, r) /\ kernel[wd] = fs[p] /\ m_watchMap[wd] = p
    BY <1>2 DEF WatchedFor
  <2>2. Live(wd, r)' /\ kernel'[wd] = fs'[p] /\ m_watchMap'[wd] = p
    BY <1>2, <2>1
  <2>3. wd \in DOMAIN kernel'
    BY <2>2 DEF Live
  <2> QED BY <2>2, <2>3 DEF WatchedFor
<1>3. ASSUME \A i \in DOMAIN queue : i \in DOMAIN queue' /\ queue'[i] = queue[i], NEW p, Announced(r, p)
      PROVE  Announced(r, p)'
  <2>1. PICK i \in DOMAIN queue :
            queue[i].kind = "create" /\ Live(queue[i].wd, r) /\ Under(EventPath(queue[i]), p)
    BY <1>3 DEF Announced
  <2>2. i \in DOMAIN queue' /\ queue'[i] = queue[i]
    BY <1>3
  <2>3. PICK wd : wd = queue[i].wd
    OBVIOUS
  <2>4. Live(wd, r)' /\ m_watchMap'[wd] = m_watchMap[wd]
    BY <1>1, <2>1, <2>3
  <2>5. EventPath(queue[i])' = EventPath(queue[i])
    BY <2>2, <2>3, <2>4 DEF EventPath
  <2>6. Live(queue[i].wd, r)' /\ queue'[i].kind = "create" /\ Under(EventPath(queue[i]), p)'
    BY <2>1, <2>2, <2>3, <2>4, <2>5
  <2> QED BY <2>2, <2>6 DEF Announced
<1> QED BY <1>2, <1>3

LEMMA LinkedGrows ==
  ASSUME SerialInv, NEW wd, NEW p, NEW s \in DOMAIN m_rootWatches, NEW recursive, Linked(wd, p, s, recursive),
         DOMAIN m_watchMap' \subseteq DOMAIN m_watchMap \cup {wd}
  PROVE  /\ m_watchRecursive \subseteq m_watchRecursive' /\ (recursive => wd \in m_watchRecursive')
         /\ DOMAIN m_wdToRoots' = DOMAIN m_wdToRoots \cup {wd} /\ s \in m_wdToRoots'[wd]
         /\ \A w \in DOMAIN m_wdToRoots : m_wdToRoots[w] \subseteq m_wdToRoots'[w]
         /\ DOMAIN m_rootWatches' = DOMAIN m_rootWatches
         /\ \A r \in DOMAIN m_rootWatches : m_rootWatches'[r].recursive = m_rootWatches[r].recursive
<1>1. m_watchRecursive \subseteq m_watchRecursive' /\ (recursive => wd \in m_watchRecursive')
  BY DEF Linked
<1>2. /\ DOMAIN m_rootWatches' = DOMAIN m_rootWatches
      /\ DOMAIN m_wdToRoots' = DOMAIN m_wdToRoots \cup {wd}
      /\ m_wdToRoots'[wd] = IF wd \in DOMAIN m_wdToRoots THEN m_wdToRoots[wd] \cup {s} ELSE {s}
      /\ \A w \in DOMAIN m_wdToRoots \ {wd} : m_wdToRoots'[w] = m_wdToRoots[w]
  BY SerialLinked, Zenon
<1>3. s \in m_wdToRoots'[wd] /\ \A w \in DOMAIN m_wdToRoots : m_wdToRoots[w] \subseteq m_wdToRoots'[w]
  BY <1>2
<1>4. \A r \in DOMAIN m_rootWatches : m_rootWatches'[r].recursive = m_rootWatches[r].recursive
  <2> DEFINE a == m_rootWatches[s].associatedWds \cup {wd}
             v == [m_rootWatches[s] EXCEPT !.associatedWds = a]
  <2>1. m_rootWatches' = With(m_rootWatches, s, v)
    BY Zenon DEF Linked
  <2>2. v.recursive = m_rootWatches[s].recursive
    <3>1. m_rootWatches[s] = [f \in {"recursive", "associatedWds"} |-> m_rootWatches[s][f]]
      BY DEF SerialInv, RootShapes
    <3> HIDE DEF a
    <3> QED BY <3>1
  <2> HIDE DEF v
  <2>3. m_rootWatches'[s] = v /\ \A r \in DOMAIN m_rootWatches \ {s} : m_rootWatches'[r] = m_rootWatches[r]
    BY <2>1 DEF With
  <2> QED BY <2>2, <2>3
<1> QED BY <1>1, <1>2, <1>3, <1>4

\* addDirectoryWatch disturbs no watch, and afterwards the directory is watched.
LEMMA CoverAdd ==
  ASSUME NamedInv, SerialInv, Inv, Fresh, fs' = fs,
         NEW d \in Path, NEW s \in DOMAIN m_rootWatches, NEW recursive, AddDirectoryWatch(d, s, recursive)
  PROVE  /\ Fresh' /\ queue' = queue
         /\ \A wd \in DOMAIN kernel : \A r : Live(wd, r) =>
               Live(wd, r)' /\ kernel'[wd] = kernel[wd] /\ m_watchMap'[wd] = m_watchMap[wd]
         /\ recursive /\ d \in DOMAIN fs => WatchedFor(s, d)'
         /\ DOMAIN m_rootWatches' = DOMAIN m_rootWatches
         /\ \A r \in DOMAIN m_rootWatches : m_rootWatches'[r].recursive = m_rootWatches[r].recursive
<1>1. /\ DOMAIN kernel \subseteq 1 .. lastWd /\ DOMAIN kernel \subseteq DOMAIN m_watchMap /\ lastWd \in Nat
      /\ \A p \in DOMAIN m_pathWatchMap :
            m_pathWatchMap[p] \in DOMAIN m_watchMap /\ m_watchMap[m_pathWatchMap[p]] = p
      /\ \A p \in DOMAIN fs, q \in DOMAIN fs : fs[p] = fs[q] => p = q
  BY DEF Inv, KernelKnown, NamedInv, TableTypes, FsTypes
<1>2. CASE KnownDirectory(d, s, recursive)
  <2> DEFINE wd == m_pathWatchMap[d]
  <2>1. /\ d \in DOMAIN m_pathWatchMap /\ Linked(wd, d, s, recursive)
        /\ kernel' = kernel /\ queue' = queue /\ m_watchMap' = m_watchMap /\ m_pathWatchMap' = m_pathWatchMap
    BY <1>2 DEF KnownDirectory, kernelVars
  <2>2. /\ m_watchRecursive \subseteq m_watchRecursive' /\ (recursive => wd \in m_watchRecursive')
        /\ DOMAIN m_wdToRoots' = DOMAIN m_wdToRoots \cup {wd} /\ s \in m_wdToRoots'[wd]
        /\ \A w \in DOMAIN m_wdToRoots : m_wdToRoots[w] \subseteq m_wdToRoots'[w]
        /\ DOMAIN m_rootWatches' = DOMAIN m_rootWatches
        /\ \A r \in DOMAIN m_rootWatches : m_rootWatches'[r].recursive = m_rootWatches[r].recursive
    <3>1. DOMAIN m_watchMap' \subseteq DOMAIN m_watchMap \cup {wd}
      BY <2>1
    <3> HIDE DEF wd
    <3> QED BY <2>1, <3>1, LinkedGrows, Zenon
  <2>3. Fresh'
    BY <2>1 DEF Fresh
  <2>4. d \in DOMAIN fs => wd \in DOMAIN kernel /\ kernel[wd] = fs[d] /\ m_watchMap[wd] = d
    BY <1>1, <2>1 DEF Fresh
  <2> HIDE DEF wd
  <2>5. recursive /\ d \in DOMAIN fs => WatchedFor(s, d)'
    BY <2>1, <2>2, <2>4 DEF WatchedFor, Live
  <2>6. \A w, r : Live(w, r) => Live(w, r)'
    BY <2>1, <2>2 DEF Live
  <2> QED BY <2>1, <2>2, <2>3, <2>5, <2>6
<1>3. CASE NewDirectory(d, s, recursive)
  <2> DEFINE wd == IF WdOf(fs[d]) = {} THEN lastWd + 1 ELSE CHOOSE w \in WdOf(fs[d]) : TRUE
  <2>1. /\ d \notin DOMAIN m_pathWatchMap /\ d \in DOMAIN fs /\ queue' = queue
        /\ kernel' = With(kernel, wd, fs[d])
        /\ m_watchMap' = With(m_watchMap, wd, d)
        /\ m_pathWatchMap' = With(m_pathWatchMap, d, wd)
        /\ Linked(wd, d, s, recursive)
    BY <1>3 DEF NewDirectory
  <2>2. WdOf(fs[d]) = {}
    <3>1. ASSUME NEW w \in DOMAIN kernel, kernel[w] = fs[d] PROVE FALSE
      <4>1. m_watchMap[w] = d
        BY <1>1, <2>1, <3>1 DEF NamedInv, Held
      <4>2. PathsLeadBack
        BY DEF Inv
      <4> QED BY <1>1, <2>1, <3>1, <4>1, <4>2 DEF PathsLeadBack
    <3> QED BY <3>1 DEF WdOf
  <2>3. wd = lastWd + 1 /\ wd \notin DOMAIN kernel
    BY <1>1, <2>2
  <2> HIDE DEF wd
  <2>4. /\ DOMAIN kernel' = DOMAIN kernel \cup {wd} /\ kernel'[wd] = fs[d]
        /\ \A w \in DOMAIN kernel : kernel'[w] = kernel[w]
        /\ DOMAIN m_watchMap' = DOMAIN m_watchMap \cup {wd} /\ m_watchMap'[wd] = d
        /\ \A w \in DOMAIN kernel : m_watchMap'[w] = m_watchMap[w]
        /\ DOMAIN m_pathWatchMap' = DOMAIN m_pathWatchMap \cup {d} /\ m_pathWatchMap'[d] = wd
        /\ \A p \in DOMAIN m_pathWatchMap : m_pathWatchMap'[p] = m_pathWatchMap[p]
    <3>1. /\ DOMAIN kernel' = DOMAIN kernel \cup {wd} /\ kernel'[wd] = fs[d]
          /\ \A w \in DOMAIN kernel \ {wd} : kernel'[w] = kernel[w]
      BY <2>1 DEF With
    <3>2. /\ DOMAIN m_watchMap' = DOMAIN m_watchMap \cup {wd} /\ m_watchMap'[wd] = d
          /\ \A w \in DOMAIN m_watchMap \ {wd} : m_watchMap'[w] = m_watchMap[w]
      BY <2>1 DEF With
    <3>3. /\ DOMAIN m_pathWatchMap' = DOMAIN m_pathWatchMap \cup {d} /\ m_pathWatchMap'[d] = wd
          /\ \A p \in DOMAIN m_pathWatchMap \ {d} : m_pathWatchMap'[p] = m_pathWatchMap[p]
      BY <2>1 DEF With
    <3> QED BY <1>1, <2>1, <2>3, <3>1, <3>2, <3>3
  <2>5. /\ m_watchRecursive \subseteq m_watchRecursive' /\ (recursive => wd \in m_watchRecursive')
        /\ DOMAIN m_wdToRoots' = DOMAIN m_wdToRoots \cup {wd} /\ s \in m_wdToRoots'[wd]
        /\ \A w \in DOMAIN m_wdToRoots : m_wdToRoots[w] \subseteq m_wdToRoots'[w]
        /\ DOMAIN m_rootWatches' = DOMAIN m_rootWatches
        /\ \A r \in DOMAIN m_rootWatches : m_rootWatches'[r].recursive = m_rootWatches[r].recursive
    <3>1. DOMAIN m_watchMap' \subseteq DOMAIN m_watchMap \cup {wd}
      BY <2>4
    <3> QED BY <2>1, <3>1, LinkedGrows, Zenon
  <2>6. Fresh'
    BY <2>4 DEF Fresh
  <2>7. recursive => WatchedFor(s, d)'
    BY <2>4, <2>5 DEF WatchedFor, Live
  <2>8. \A w, r : Live(w, r) => Live(w, r)'
    BY <2>4, <2>5 DEF Live
  <2> QED BY <2>1, <2>4, <2>5, <2>6, <2>7, <2>8
<1> QED BY <1>2, <1>3 DEF AddDirectoryWatch

LEMMA Appended ==
  ASSUME NEW S, NEW q \in Seq(S), NEW s \in Seq(S)
  PROVE  /\ \A i \in DOMAIN q : i \in DOMAIN (q \o s) /\ (q \o s)[i] = q[i]
         /\ \A i \in DOMAIN s : Len(q) + i \in DOMAIN (q \o s) /\ (q \o s)[Len(q) + i] = s[i]
<1>1. /\ Len(q) \in Nat /\ DOMAIN q = 1 .. Len(q) /\ Len(s) \in Nat /\ DOMAIN s = 1 .. Len(s)
  BY LenProperties
<1>2. DOMAIN (q \o s) = 1 .. Len(q) + Len(s)
  BY ConcatProperties, LenProperties
<1>3. \A i \in 1 .. Len(q) + Len(s) : (q \o s)[i] = IF i <= Len(q) THEN q[i] ELSE s[i - Len(q)]
  BY ConcatProperties
<1>4. ASSUME NEW i \in DOMAIN q PROVE i \in DOMAIN (q \o s) /\ (q \o s)[i] = q[i]
  BY <1>1, <1>2, <1>3
<1>5. ASSUME NEW i \in DOMAIN s PROVE Len(q) + i \in DOMAIN (q \o s) /\ (q \o s)[Len(q) + i] = s[i]
  <2>1. Len(q) + i \in 1 .. Len(q) + Len(s) /\ ~(Len(q) + i <= Len(q)) /\ Len(q) + i - Len(q) = i
    BY <1>1
  <2> QED BY <1>2, <1>3, <2>1
<1> QED BY <1>4, <1>5

\* What the event at the head of the queue announces is lost with it, and no more.
LEMMA Dequeued ==
  ASSUME queue \in Seq(Event), queue # << >>, queue' = Tail(queue),
         NEW r, NEW p, Announced(r, p),
         \A wd \in DOMAIN kernel : Live(wd, r) => Live(wd, r)' /\ m_watchMap'[wd] = m_watchMap[wd]
  PROVE  \/ Announced(r, p)'
         \/ Head(queue).kind = "create" /\ Live(Head(queue).wd, r) /\ Under(EventPath(Head(queue)), p)
<1>1. /\ Len(queue) \in Nat /\ DOMAIN queue = 1 .. Len(queue) /\ Head(queue) = queue[1]
      /\ Len(Tail(queue)) = Len(queue) - 1 /\ DOMAIN Tail(queue) = 1 .. Len(Tail(queue))
      /\ \A i \in 1 .. Len(Tail(queue)) : Tail(queue)[i] = queue[i + 1]
  BY HeadTailProperties, LenProperties
<1>2. PICK i \in DOMAIN queue :
          queue[i].kind = "create" /\ Live(queue[i].wd, r) /\ Under(EventPath(queue[i]), p)
  BY DEF Announced
<1>3. CASE i = 1
  BY <1>1, <1>2, <1>3
<1>4. CASE i # 1
  <2>1. PICK j : j = i - 1
    OBVIOUS
  <2>2. j \in DOMAIN queue' /\ queue'[j] = queue[i]
    BY <1>1, <1>4, <2>1
  <2>3. PICK wd : wd = queue[i].wd
    OBVIOUS
  <2>4. Live(wd, r)' /\ m_watchMap'[wd] = m_watchMap[wd]
    BY <1>2, <2>3 DEF Live
  <2>5. EventPath(queue[j])' = EventPath(queue[i])
    BY <2>2, <2>3, <2>4 DEF EventPath
  <2>6. Live(queue[j].wd, r)' /\ queue'[j].kind = "create" /\ Under(EventPath(queue[j]), p)'
    BY <1>2, <2>2, <2>3, <2>4, <2>5
  <2> QED BY <2>2, <2>6 DEF Announced
<1> QED BY <1>3, <1>4

\* A thread that is alone moves on: what it owed, it still owes, or has done.
LEMMA CoverMoves ==
  ASSUME OpTypes, Covering, fs' = fs, NEW th \in Thread, Alone(th), NEW o, Becomes(th, o),
         \A r \in m_watches' \cap RecursiveRoot, p \in DOMAIN fs :
            /\ Under(r, p)
            /\ r \in m_watches => WatchedFor(r, p) \/ Announced(r, p) \/ Due(op[th], r, p)
            => WatchedFor(r, p)' \/ Announced(r, p)' \/ Due(o, r, p)'
  PROVE  Covering'
<1> SUFFICES ASSUME NEW r \in m_watches' \cap RecursiveRoot, NEW p \in DOMAIN fs, Under(r, p)
             PROVE  WatchedFor(r, p)' \/ Announced(r, p)' \/ \E t \in Thread : Due(op[t], r, p)'
  BY DEF Covering, Thread
<1>1. op'[th] = o
  BY DEF OpTypes, Becomes
<1>2. ASSUME r \in m_watches PROVE WatchedFor(r, p) \/ Announced(r, p) \/ Due(op[th], r, p)
  <2>1. ~Due(Idle, r, p)
    BY DEF Due, Idle
  <2>2. \A t \in Thread : Due(op[t], r, p) => t = th
    BY <2>1 DEF Alone
  <2> QED BY <1>2, <2>2 DEF Covering
<1>3. WatchedFor(r, p)' \/ Announced(r, p)' \/ Due(o, r, p)'
  BY <1>2
<1>4. Due(o, r, p)' => Due(op[th], r, p)'
  BY <1>1
<1> QED BY <1>3, <1>4

\* The same for a step that leaves the watches and the events alone.
LEMMA QuietMoves ==
  ASSUME OpTypes, Covering, NEW th \in Thread, Alone(th), NEW o, Becomes(th, o),
         UNCHANGED <<fs, kernel, queue, m_watchMap, m_watchRecursive, m_wdToRoots>>,
         \A r \in m_watches' \cap RecursiveRoot, p \in DOMAIN fs : Under(r, p) =>
            \/ Due(o, r, p)'
            \/ r \in m_watches /\ ~Due(op[th], r, p)
  PROVE  Covering'
<1>1. ASSUME NEW r, NEW p
      PROVE  (WatchedFor(r, p) => WatchedFor(r, p)') /\ (Announced(r, p) => Announced(r, p)')
  <2>1. \A wd \in DOMAIN kernel : Live(wd, r) =>
            Live(wd, r)' /\ kernel'[wd] = kernel[wd] /\ m_watchMap'[wd] = m_watchMap[wd]
    BY DEF Live
  <2>2. fs'[p] = fs[p] /\ \A i \in DOMAIN queue : i \in DOMAIN queue' /\ queue'[i] = queue[i]
    OBVIOUS
  <2> QED BY <2>1, <2>2, StaysLive
<1>2. \A r \in m_watches' \cap RecursiveRoot, p \in DOMAIN fs :
            /\ Under(r, p)
            /\ r \in m_watches => WatchedFor(r, p) \/ Announced(r, p) \/ Due(op[th], r, p)
            => WatchedFor(r, p)' \/ Announced(r, p)' \/ Due(o, r, p)'
  BY <1>1
<1>3. fs' = fs
  OBVIOUS
<1> QED BY <1>2, <1>3, CoverMoves

-----------------------------------------------------------------------------
(* What is watched or owed: calls.                                          *)

LEMMA CoverClient ==
  ASSUME NamedInv, SerialInv, AgreeInv, Inv, CoverInv, NoOverlap, NEW th \in Thread, ClientStep(th)
  PROVE  CoverInv'
<1>s. PICK s : s = op[th].root
  OBVIOUS
<1> USE <1>s
<1>o. OpTypes /\ op[th] \in Ops /\ Covering /\ RootsStand /\ Fresh /\ Tree
  BY DEF NamedInv, OpTypes, CoverInv
<1>i. \A r, p : ~Due(Idle, r, p)'
  BY DEF Due, Idle
<1>f. fs' = fs => Tree'
  BY <1>o DEF Tree
<1>1. ASSUME NEW r \in Root, AddWatch(th, r) PROVE CoverInv'
  <2> DEFINE o == [at |-> "insertRoot", root |-> r]
  <2>1. /\ MayBegin(th) /\ op[th] = Idle /\ r \in DOMAIN fs /\ m_watches' = m_watches \cup {r} /\ Becomes(th, o)
        /\ UNCHANGED <<fs, kernel, queue, m_rootWatches, m_watchMap, m_pathWatchMap, m_watchRecursive, m_wdToRoots>>
    BY <1>1 DEF AddWatch, MayBegin, fsVars, kernelVars, tableVars
  <2>2. Alone(th)
    BY <2>1, AloneIs
  <2>3. \A q, p : ~Due(op[th], q, p)
    BY <2>1 DEF Due, Idle
  <2>4. \A p : Under(r, p) => Due(o, r, p)'
    BY DEF Due
  <2> HIDE DEF o
  <2>5. Covering'
    <3>1. \A q \in m_watches' \cap RecursiveRoot, p \in DOMAIN fs : Under(q, p) =>
              Due(o, q, p)' \/ (q \in m_watches /\ ~Due(op[th], q, p))
      BY <2>1, <2>3, <2>4
    <3> QED BY <1>o, <2>1, <2>2, <3>1, QuietMoves
  <2> QED BY <1>o, <1>f, <2>1, <2>5 DEF CoverInv, RootsStand, Fresh
<1>2. ASSUME NEW r \in Root, RemoveWatch(th, r) PROVE CoverInv'
  <2> DEFINE o == [at |-> "removeRoot", root |-> r]
  <2>1. /\ MayBegin(th) /\ op[th] = Idle /\ m_watches' = m_watches \ {r} /\ Becomes(th, o)
        /\ UNCHANGED <<fs, kernel, queue, m_rootWatches, m_watchMap, m_pathWatchMap, m_watchRecursive, m_wdToRoots>>
    BY <1>2 DEF RemoveWatch, MayBegin, fsVars, kernelVars, tableVars
  <2>2. Alone(th)
    BY <2>1, AloneIs
  <2>3. \A q, p : ~Due(op[th], q, p)
    BY <2>1 DEF Due, Idle
  <2> HIDE DEF o
  <2>4. Covering'
    <3>1. \A q \in m_watches' \cap RecursiveRoot, p \in DOMAIN fs : Under(q, p) =>
              Due(o, q, p)' \/ (q \in m_watches /\ ~Due(op[th], q, p))
      BY <2>1, <2>3
    <3> QED BY <1>o, <2>1, <2>2, <3>1, QuietMoves
  <2> QED BY <1>o, <1>f, <2>1, <2>4 DEF CoverInv, RootsStand, Fresh
<1>3. CASE InsertRoot(th)
  <2>0. PICK o : o = [at |-> "addRoot", root |-> s]
    OBVIOUS
  <2> DEFINE v == [recursive |-> s \in RecursiveRoot, associatedWds |-> {}]
  <2>1. /\ op[th].at = "insertRoot" /\ m_rootWatches' = With(m_rootWatches, s, v) /\ Becomes(th, o)
        /\ UNCHANGED <<fs, kernel, queue, m_watches, m_watchMap, m_pathWatchMap, m_watchRecursive, m_wdToRoots>>
    BY <1>3, <2>0 DEF InsertRoot, fsVars, kernelVars
  <2>2. Alone(th)
    BY <2>1, AloneIs DEF Idle
  <2>3. v.recursive <=> s \in RecursiveRoot
    OBVIOUS
  <2>4. \A q, p : Due(op[th], q, p) => Due(o, q, p)'
    BY <2>0, <2>1 DEF Due
  <2> HIDE DEF v
  <2>5. Covering'
    <3>1. \A q \in m_watches' \cap RecursiveRoot, p \in DOMAIN fs : Under(q, p) =>
              Due(o, q, p)' \/ (q \in m_watches /\ ~Due(op[th], q, p))
      BY <2>1, <2>4
    <3> QED BY <1>o, <2>1, <2>2, <3>1, QuietMoves
  <2>6. RootsStand'
    BY <1>o, <2>1, <2>3 DEF RootsStand, With
  <2> QED BY <1>o, <1>f, <2>1, <2>5, <2>6 DEF CoverInv, Fresh
<1>4. CASE EraseRoot(th) \/ EraseWatch(th)
  <2>1. /\ op[th].at \in {"eraseRoot", "eraseWatch"} /\ m_watches' \subseteq m_watches
        /\ DOMAIN m_rootWatches' \subseteq DOMAIN m_rootWatches
        /\ \A r \in DOMAIN m_rootWatches' : m_rootWatches'[r] = m_rootWatches[r]
        /\ UNCHANGED <<fs, kernel, queue, m_watchMap, m_pathWatchMap, m_watchRecursive, m_wdToRoots>>
        /\ \E o : Becomes(th, o)
    BY <1>4 DEF EraseRoot, EraseWatch, fsVars, kernelVars, tableVars, Without, Restrict
  <2>2. Alone(th)
    BY <2>1, AloneIs DEF Idle
  <2>3. \A q, p : ~Due(op[th], q, p)
    BY <2>1 DEF Due
  <2>4. PICK o : Becomes(th, o)
    BY <2>1
  <2>5. Covering'
    <3>1. \A q \in m_watches' \cap RecursiveRoot, p \in DOMAIN fs : Under(q, p) =>
              Due(o, q, p)' \/ (q \in m_watches /\ ~Due(op[th], q, p))
      BY <2>1, <2>3
    <3> QED BY <1>o, <2>1, <2>2, <2>4, <3>1, QuietMoves
  <2> QED BY <1>o, <1>f, <2>1, <2>5 DEF CoverInv, RootsStand, Fresh
<1>5. CASE AddRoot(th)
  <2>1. op[th].at = "addRoot" /\ fs' = fs /\ m_watches' = m_watches
    BY <1>5 DEF AddRoot, fsVars
  <2>2. s \in Root /\ s \in Path /\ s \in DOMAIN m_rootWatches /\ Alone(th)
    <3>1. s \in Root
      BY <1>o, <2>1, OpParts
    <3>2. OpFits(op[th], m_watches, m_rootWatches)
      BY DEF SerialInv, OpRoots
    <3> QED BY <2>1, <3>1, <3>2, RootAssumption, AloneIs DEF OpFits, Idle
  <2>3. \/ /\ AddDirectoryWatch(s, s, s \in RecursiveRoot)
           /\ Becomes(th, IF s \in RecursiveRoot THEN ScanOf(s, s, {}) ELSE Idle)
        \/ NoDirectory(s) /\ \E o : Becomes(th, o)
    BY <1>5 DEF AddRoot
  <2>4. \A r, p : Due(op[th], r, p) => r = s
    BY <2>1 DEF Due
  <2>5. CASE /\ AddDirectoryWatch(s, s, s \in RecursiveRoot)
             /\ Becomes(th, IF s \in RecursiveRoot THEN ScanOf(s, s, {}) ELSE Idle)
    <3>1. /\ Fresh' /\ queue' = queue
          /\ \A wd \in DOMAIN kernel : \A r : Live(wd, r) =>
                Live(wd, r)' /\ kernel'[wd] = kernel[wd] /\ m_watchMap'[wd] = m_watchMap[wd]
          /\ s \in RecursiveRoot /\ s \in DOMAIN fs => WatchedFor(s, s)'
          /\ DOMAIN m_rootWatches' = DOMAIN m_rootWatches
          /\ \A r \in DOMAIN m_rootWatches : m_rootWatches'[r].recursive = m_rootWatches[r].recursive
      BY <1>o, <2>1, <2>2, <2>5, CoverAdd, Zenon
    <3>2. PICK o : Becomes(th, o) /\ (s \in RecursiveRoot => o = ScanOf(s, s, {}))
      BY <2>5
    <3>3. ASSUME NEW r \in m_watches \cap RecursiveRoot, NEW p \in DOMAIN fs, Under(r, p),
                 WatchedFor(r, p) \/ Announced(r, p) \/ Due(op[th], r, p)
          PROVE  WatchedFor(r, p)' \/ Announced(r, p)' \/ Due(o, r, p)'
      <4>1. /\ WatchedFor(r, p) => WatchedFor(r, p)'
            /\ Announced(r, p) => Announced(r, p)'
        <5>1. \A i \in DOMAIN queue : i \in DOMAIN queue' /\ queue'[i] = queue[i]
          BY <3>1
        <5>2. \A wd \in DOMAIN kernel : Live(wd, r) =>
                Live(wd, r)' /\ kernel'[wd] = kernel[wd] /\ m_watchMap'[wd] = m_watchMap[wd]
          BY <3>1
        <5> QED BY <2>1, <5>1, <5>2, StaysLive, Zenon
      <4>2. ASSUME r = s PROVE Due(o, r, p)'
        <5>1. o.at = "visit" /\ o.root = s /\ o.todo = {s}
          BY <3>2, <4>2 DEF ScanOf
        <5>2. Under(s, p)'
          BY <3>3, <4>2
        <5> QED BY <4>2, <5>1, <5>2 DEF Due
      <4> QED BY <2>4, <3>3, <4>1, <4>2
    <3>4. Covering'
      BY <1>o, <2>1, <2>2, <3>2, <3>3, CoverMoves
    <3>5. RootsStand'
      BY <1>o, <2>1, <3>1 DEF RootsStand
    <3> QED BY <1>f, <2>1, <3>1, <3>4, <3>5 DEF CoverInv
  <2>6. CASE NoDirectory(s) /\ \E o : Becomes(th, o)
    <3>1. s \notin DOMAIN fs
          /\ UNCHANGED <<kernel, queue, m_rootWatches, m_watchMap, m_pathWatchMap, m_watchRecursive, m_wdToRoots>>
      BY <2>6 DEF NoDirectory, kernelVars, tableVars
    <3>2. PICK o : Becomes(th, o)
      BY <2>6
    <3>3. Covering'
      <4>1. \A q \in m_watches' \cap RecursiveRoot, p \in DOMAIN fs : Under(q, p) =>
              Due(o, q, p)' \/ (q \in m_watches /\ ~Due(op[th], q, p))
        BY <1>o, <2>1, <2>4, <3>1 DEF RootsStand
      <4> QED BY <1>o, <2>1, <2>2, <3>1, <3>2, <4>1, QuietMoves
    <3> QED BY <1>o, <1>f, <2>1, <3>1, <3>3 DEF CoverInv, RootsStand, Fresh
  <2> QED BY <2>3, <2>5, <2>6
<1>6. CASE RemoveRoot(th)
  <2> DEFINE U == Unneeded(s)
             q == SetToSeq(OfSelf("ignored", U \cap DOMAIN kernel))
             P == {m_watchMap[wd] : wd \in U \cap DOMAIN m_watchMap}
  <2>1. /\ op[th].at = "removeRoot" /\ fs' = fs /\ m_watches' = m_watches /\ Becomes(th, Idle)
        /\ m_rootWatches' = Without(m_rootWatches, {s})
        /\ m_wdToRoots' = [wd \in DOMAIN m_wdToRoots \ U |->
                              IF wd \in Owned(s) THEN m_wdToRoots[wd] \ {s} ELSE m_wdToRoots[wd]]
        /\ kernel' = Without(kernel, U \cap DOMAIN kernel) /\ queue' = queue \o q
        /\ m_pathWatchMap' = Without(m_pathWatchMap, P) /\ m_watchMap' = Without(m_watchMap, U)
        /\ m_watchRecursive' = m_watchRecursive \ U
    BY <1>6 DEF RemoveRoot, Release, Forget, fsVars
  <2>2. s \notin m_watches /\ Alone(th)
    <3>1. OpFits(op[th], m_watches, m_rootWatches)
      BY DEF SerialInv, OpRoots
    <3> QED BY <2>1, <3>1, AloneIs DEF OpFits, Idle
  <2>3. \A wd \in U : m_wdToRoots[wd] = {s}
    BY DEF Unneeded
  <2>4. queue \in Seq(Event) /\ q \in Seq(Event)
    <3>1. U \cap DOMAIN kernel \subseteq 1 .. lastWd /\ lastWd \in Nat /\ queue \in Seq(Event)
      BY DEF Inv
    <3> HIDE DEF U
    <3>2. IsFiniteSet(U \cap DOMAIN kernel) /\ U \cap DOMAIN kernel \subseteq Nat
      BY <3>1, FiniteWds
    <3> QED BY <3>1, <3>2, EventsOfSelf
  <2>5. \A r, p : ~Due(op[th], r, p)
    BY <2>1 DEF Due
  <2>6. \A wd \in DOMAIN kernel : wd \in DOMAIN m_watchMap
    BY DEF Inv, KernelKnown
  <2> HIDE DEF U, q
  <2>7. \A i \in DOMAIN queue : i \in DOMAIN queue' /\ queue'[i] = queue[i]
    BY <2>1, <2>4, Appended
  <2>8. /\ DOMAIN kernel' = DOMAIN kernel \ U /\ \A wd \in DOMAIN kernel' : kernel'[wd] = kernel[wd]
        /\ DOMAIN m_watchMap' = DOMAIN m_watchMap \ U /\ \A wd \in DOMAIN m_watchMap' : m_watchMap'[wd] = m_watchMap[wd]
        /\ DOMAIN m_wdToRoots' = DOMAIN m_wdToRoots \ U
        /\ \A wd \in DOMAIN m_wdToRoots' : m_wdToRoots[wd] \ {s} \subseteq m_wdToRoots'[wd]
    BY <2>1 DEF Without, Restrict
  <2>9. ASSUME NEW r \in m_watches, NEW wd \in DOMAIN kernel, Live(wd, r)
        PROVE  Live(wd, r)' /\ kernel'[wd] = kernel[wd] /\ m_watchMap'[wd] = m_watchMap[wd]
    <3>1. r # s /\ wd \in m_watchRecursive /\ wd \in DOMAIN m_wdToRoots /\ r \in m_wdToRoots[wd]
      BY <2>2, <2>9 DEF Live
    <3>2. wd \notin U
      BY <2>3, <3>1
    <3>3. r \in m_wdToRoots'[wd] /\ wd \in DOMAIN m_wdToRoots' /\ wd \in DOMAIN kernel' /\ wd \in m_watchRecursive'
      BY <2>1, <2>8, <3>1, <3>2
    <3> QED BY <2>6, <2>8, <3>2, <3>3 DEF Live
  <2>10. Covering'
    <3>1. ASSUME NEW r \in m_watches \cap RecursiveRoot, NEW p \in DOMAIN fs,
                 WatchedFor(r, p) \/ Announced(r, p) \/ Due(op[th], r, p)
          PROVE  WatchedFor(r, p)' \/ Announced(r, p)'
      <4>1. \A wd \in DOMAIN kernel : Live(wd, r) =>
                Live(wd, r)' /\ kernel'[wd] = kernel[wd] /\ m_watchMap'[wd] = m_watchMap[wd]
        BY <2>9
      <4>2. fs'[p] = fs[p]
        BY <2>1
      <4> QED BY <2>5, <2>7, <3>1, <4>1, <4>2, StaysLive
    <3> QED BY <1>o, <2>1, <2>2, <3>1, CoverMoves
  <2>11. Fresh'
    <3>1. /\ DOMAIN m_pathWatchMap' = DOMAIN m_pathWatchMap \ P
          /\ \A p \in DOMAIN m_pathWatchMap' : m_pathWatchMap'[p] = m_pathWatchMap[p]
      BY <2>1 DEF Without, Restrict
    <3>2. \A p \in DOMAIN m_pathWatchMap :
            m_pathWatchMap[p] \in DOMAIN m_watchMap /\ m_watchMap[m_pathWatchMap[p]] = p
      BY DEF NamedInv, TableTypes
    <3>3. \A p \in DOMAIN m_pathWatchMap' : m_pathWatchMap[p] \notin U
      BY <3>1, <3>2
    <3> HIDE DEF P
    <3>4. ASSUME NEW p \in DOMAIN m_pathWatchMap' \cap DOMAIN fs'
          PROVE  m_pathWatchMap'[p] \in DOMAIN kernel' /\ kernel'[m_pathWatchMap'[p]] = fs'[p]
      <4>1. p \in DOMAIN m_pathWatchMap /\ p \in DOMAIN fs /\ m_pathWatchMap'[p] = m_pathWatchMap[p]
        BY <2>1, <3>1
      <4>2. m_pathWatchMap[p] \in DOMAIN kernel /\ kernel[m_pathWatchMap[p]] = fs[p]
        BY <1>o, <4>1 DEF Fresh
      <4> QED BY <2>1, <2>8, <3>3, <4>1, <4>2
    <3> QED BY <3>4 DEF Fresh
  <2>12. RootsStand'
    BY <1>o, <2>1 DEF RootsStand, Without, Restrict
  <2> QED BY <1>f, <2>1, <2>10, <2>11, <2>12 DEF CoverInv
<1>7. CASE RemovePath(th)
  BY <1>7 DEF RemovePath, AgreeInv
<1> QED BY <1>1, <1>2, <1>3, <1>4, <1>5, <1>6, <1>7 DEF ClientStep

-----------------------------------------------------------------------------
(* What is watched or owed: scans.                                          *)

LEMMA CoverScan ==
  ASSUME NamedInv, SerialInv, Inv, CoverInv, NoOverlap, NEW th \in Thread, ScanStep(th)
  PROVE  CoverInv'
<1>s. PICK o : o = op[th]
  OBVIOUS
<1>1. List(th) \/ ScanDone(th) \/ \E d \in o.todo : Visit(th, d) \/ PassOver(th, d)
  BY <1>s DEF ScanStep
<1>2. o.at \in {"visit", "list"}
  BY <1>s, <1>1, Zenon DEF List, ScanDone, Visit, PassOver
<1>3. /\ OpTypes /\ o \in Ops /\ Covering /\ RootsStand /\ Fresh /\ Tree
      /\ DOMAIN fs \subseteq Path /\ Path \subseteq Seq(STRING)
  BY <1>s, PathAssumption DEF NamedInv, OpTypes, FsTypes, CoverInv
<1>4. /\ o.todo \subseteq Path /\ o.dir \in Path /\ o.start \in Path /\ o.root \in Root
      /\ o = [f \in ScanField |-> o[f]]
  BY <1>2, <1>3, OpParts
<1>5. Alone(th)
  BY <1>s, <1>2, AloneIs DEF Idle
<1>6. o.root \in DOMAIN m_rootWatches
  BY <1>s, <1>2 DEF SerialInv, OpRoots, OpFits
\* Only the scan itself moves on: whatever it owed for an existing path it still owes.
<1>q. ASSUME UNCHANGED <<fsVars, kernelVars, m_watches, tableVars>>, NEW n, Becomes(th, n),
             \A r : \A p \in DOMAIN fs : Due(o, r, p) => Due(n, r, p)'
      PROVE  CoverInv'
  <2>1. UNCHANGED <<fs, kernel, queue, m_watches, m_rootWatches, m_watchMap, m_pathWatchMap,
                    m_watchRecursive, m_wdToRoots>>
    BY <1>q DEF fsVars, kernelVars, tableVars
  <2>2. \A r \in m_watches' \cap RecursiveRoot, p \in DOMAIN fs : Under(r, p) =>
            Due(n, r, p)' \/ (r \in m_watches /\ ~Due(op[th], r, p))
    BY <1>s, <1>q, <2>1
  <2>3. Covering'
    BY <1>3, <1>5, <1>q, <2>1, <2>2, QuietMoves
  <2> QED BY <1>3, <2>1, <2>3 DEF CoverInv, RootsStand, Fresh, Tree
<1>7. CASE List(th)
  <2> DEFINE a == [at |-> "visit", todo |-> o.todo \cup Children(o.dir), dir |-> o.dir, start |-> o.start,
                   root |-> o.root, roots |-> o.roots]
  <2>1. Becomes(th, [o EXCEPT !.at = "visit", !.todo = o.todo \cup Children(o.dir)]) /\ o.at = "list"
        /\ UNCHANGED <<fsVars, kernelVars, m_watches, tableVars>>
    BY <1>7, <1>s, Zenon DEF List
  <2>2. PICK n : Becomes(th, n) /\ n = a
    BY <1>4, <2>1, ScanMoves, Zenon
  <2>3. ASSUME NEW r, NEW p \in DOMAIN fs, Due(o, r, p) PROVE Due(n, r, p)'
    <3>1. /\ n.at = "visit" /\ n.start = o.start /\ n.root = o.root /\ n.roots = o.roots
          /\ o.todo \subseteq n.todo /\ Children(o.dir) \subseteq n.todo
      BY <2>2
    <3>2. CASE r = o.root /\ Under(o.dir, p) /\ o.dir # p
      <4>1. \E c \in Children(o.dir) : Under(c, p)
        BY <1>3, <1>4, <3>2, HasChild
      <4> QED BY <3>1, <3>2, <4>1 DEF Due
    <3> QED BY <2>1, <2>3, <3>1, <3>2 DEF Due
  <2> QED BY <1>q, <2>1, <2>2, <2>3
<1>8. CASE ScanDone(th)
  <2>1. /\ o.at = "visit" /\ o.todo = {} /\ UNCHANGED <<fsVars, kernelVars, m_watches, tableVars>>
        /\ \/ o.roots = {} /\ Becomes(th, Idle)
           \/ \E s \in o.roots : Becomes(th, ScanOf(o.start, s, o.roots \ {s}))
    BY <1>8, <1>s DEF ScanDone
  <2>2. CASE o.roots = {} /\ Becomes(th, Idle)
    <3>1. \A r, p : ~Due(o, r, p)
      BY <2>1, <2>2 DEF Due
    <3> QED BY <1>q, <2>1, <2>2, <3>1
  <2>3. ASSUME NEW s \in o.roots, Becomes(th, ScanOf(o.start, s, o.roots \ {s})) PROVE CoverInv'
    <3>1. PICK n : Becomes(th, n) /\ n = ScanOf(o.start, s, o.roots \ {s})
      BY <2>3
    <3>2. n.at = "visit" /\ n.todo = {o.start} /\ n.start = o.start /\ n.root = s /\ n.roots = o.roots \ {s}
      BY <3>1 DEF ScanOf
    <3>3. \A r : \A p \in DOMAIN fs : Due(o, r, p) => Due(n, r, p)'
      BY <2>1, <3>2 DEF Due
    <3> QED BY <1>q, <2>1, <3>1, <3>3
  <2> QED BY <2>1, <2>2, <2>3
<1>9. ASSUME NEW d \in o.todo, PassOver(th, d) PROVE CoverInv'
  <2>1. /\ Becomes(th, [o EXCEPT !.todo = o.todo \ {d}]) /\ o.at = "visit" /\ d \notin DOMAIN fs
        /\ UNCHANGED <<fsVars, kernelVars, m_watches, tableVars>>
    BY <1>9, <1>s, Zenon DEF PassOver
  <2>2. PICK n : Becomes(th, n) /\ n = [o EXCEPT !.todo = o.todo \ {d}]
    BY <2>1
  <2>3. /\ n.at = "visit" /\ n.start = o.start /\ n.root = o.root /\ n.roots = o.roots /\ n.todo = o.todo \ {d}
    BY <1>4, <2>1, <2>2 DEF ScanField
  <2>4. \A p \in DOMAIN fs : ~Under(d, p)
    BY <1>3, <1>4, <2>1, InTree
  <2>5. \A r : \A p \in DOMAIN fs : Due(o, r, p) => Due(n, r, p)'
    BY <2>1, <2>3, <2>4 DEF Due
  <2> QED BY <1>q, <2>1, <2>2, <2>5
<1>10. ASSUME NEW d \in o.todo, Visit(th, d) PROVE CoverInv'
  <2>1. /\ AddDirectoryWatch(d, o.root, TRUE) \/ NoDirectory(d)
        /\ Becomes(th, [o EXCEPT !.at = "list", !.dir = d, !.todo = o.todo \ {d}])
        /\ o.at = "visit" /\ fs' = fs /\ m_watches' = m_watches
    BY <1>10, <1>s, Zenon DEF Visit, fsVars
  <2>2. PICK n : Becomes(th, n) /\ n = [at |-> "list", todo |-> o.todo \ {d}, dir |-> d, start |-> o.start,
                                        root |-> o.root, roots |-> o.roots]
    BY <1>4, <2>1, ScanMoves, Zenon
  \* The directory itself apart, what the scan owed it still owes.
  <2>3. ASSUME NEW r, NEW p, Due(o, r, p) PROVE Due(n, r, p)' \/ (r = o.root /\ p = d)
    BY <2>1, <2>2, <2>3 DEF Due
  <2>4. CASE AddDirectoryWatch(d, o.root, TRUE)
    <3>1. /\ Fresh' /\ queue' = queue
          /\ \A wd \in DOMAIN kernel : \A r : Live(wd, r) =>
                Live(wd, r)' /\ kernel'[wd] = kernel[wd] /\ m_watchMap'[wd] = m_watchMap[wd]
          /\ TRUE /\ d \in DOMAIN fs => WatchedFor(o.root, d)'
          /\ DOMAIN m_rootWatches' = DOMAIN m_rootWatches
          /\ \A r \in DOMAIN m_rootWatches : m_rootWatches'[r].recursive = m_rootWatches[r].recursive
      <4>1. d \in Path
        BY <1>4
      <4> QED BY <1>3, <1>6, <2>1, <2>4, <4>1, CoverAdd, Zenon
    <3>2. ASSUME NEW r \in m_watches \cap RecursiveRoot, NEW p \in DOMAIN fs,
                 WatchedFor(r, p) \/ Announced(r, p) \/ Due(op[th], r, p)
          PROVE  WatchedFor(r, p)' \/ Announced(r, p)' \/ Due(n, r, p)'
      <4>1. /\ WatchedFor(r, p) => WatchedFor(r, p)'
            /\ Announced(r, p) => Announced(r, p)'
        <5>1. \A i \in DOMAIN queue : i \in DOMAIN queue' /\ queue'[i] = queue[i]
          BY <3>1
        <5>2. \A wd \in DOMAIN kernel : Live(wd, r) =>
                Live(wd, r)' /\ kernel'[wd] = kernel[wd] /\ m_watchMap'[wd] = m_watchMap[wd]
          BY <3>1
        <5> QED BY <2>1, <5>1, <5>2, StaysLive, Zenon
      <4>2. Due(o, r, p) => Due(n, r, p)' \/ WatchedFor(r, p)'
        <5>1. CASE r = o.root /\ p = d
          BY <3>1, <5>1
        <5> QED BY <2>3, <5>1
      <4> QED BY <1>s, <3>2, <4>1, <4>2
    <3>3. Covering'
      BY <1>3, <1>5, <2>1, <2>2, <3>2, CoverMoves
    <3>4. RootsStand'
      BY <1>3, <2>1, <3>1 DEF RootsStand
    <3> QED BY <1>3, <2>1, <3>1, <3>3, <3>4 DEF CoverInv, Tree
  <2>5. CASE NoDirectory(d)
    <3>1. /\ UNCHANGED <<fs, kernel, queue, m_watches, m_rootWatches, m_watchMap, m_pathWatchMap,
                         m_watchRecursive, m_wdToRoots>>
          /\ d \notin DOMAIN fs
      BY <2>1, <2>5 DEF NoDirectory, kernelVars, tableVars
    <3>2. \A r \in m_watches' \cap RecursiveRoot, p \in DOMAIN fs : Under(r, p) =>
            Due(n, r, p)' \/ (r \in m_watches /\ ~Due(op[th], r, p))
      BY <1>s, <2>3, <3>1
    <3>3. Covering'
      BY <1>3, <1>5, <2>2, <3>1, <3>2, QuietMoves
    <3> QED BY <1>3, <3>1, <3>3 DEF CoverInv, RootsStand, Fresh, Tree
  <2> QED BY <2>1, <2>4, <2>5
<1> QED BY <1>1, <1>7, <1>8, <1>9, <1>10

-----------------------------------------------------------------------------
(* What is watched or owed: events.                                         *)

LEMMA CoverLoop ==
  ASSUME NamedInv, SerialInv, Inv, CoverInv, NoOverlap, LoopStep
  PROVE  CoverInv'
<1>o. /\ OpTypes /\ op = [th \in Thread |-> op[th]] /\ Covering /\ RootsStand /\ Fresh /\ Tree
      /\ queue \in Seq(Event) /\ Loop \in Thread
  BY DEF NamedInv, OpTypes, CoverInv, Inv, Thread
<1>h. queue # << >> => 1 \in DOMAIN queue /\ Head(queue) = queue[1]
  BY <1>o, LenProperties, EmptySeq
<1>d. \A r, p : ~Due(Idle, r, p)
  BY DEF Due, Idle
<1>b. MayBegin(Loop) => Alone(Loop) /\ op[Loop] = Idle /\ (Becomes(Loop, Idle) <=> op' = op)
  <2>1. MayBegin(Loop) => Alone(Loop) /\ op[Loop] = Idle
    BY <1>o, AloneIs DEF MayBegin
  <2>2. op[Loop] = Idle => [op EXCEPT ![Loop] = Idle] = op
    BY <1>o
  <2> QED BY <2>1, <2>2 DEF Becomes
<1>1. CASE HandleIgnored
  <2>1. PICK wd : wd = Head(queue).wd
    OBVIOUS
  <2> DEFINE P == {m_watchMap[w] : w \in {wd} \cap DOMAIN m_watchMap}
  <2>2. /\ MayBegin(Loop) /\ queue # << >> /\ Head(queue).kind = "ignored"
        /\ fs' = fs /\ kernel' = kernel /\ m_watches' = m_watches /\ op' = op /\ queue' = Tail(queue)
        /\ m_pathWatchMap' = Without(m_pathWatchMap, P) /\ m_watchMap' = Without(m_watchMap, {wd})
        /\ m_watchRecursive' = m_watchRecursive \ {wd} /\ m_wdToRoots' = Without(m_wdToRoots, {wd})
    BY <1>1, <2>1 DEF HandleIgnored, NextEvent, Forget, fsVars
  <2>3. wd \notin DOMAIN kernel /\ DOMAIN kernel \subseteq DOMAIN m_watchMap
    BY <1>h, <2>1, <2>2 DEF Inv, IgnoredIsDead, KernelKnown
  <2>4. /\ DOMAIN m_watchMap' = DOMAIN m_watchMap \ {wd} /\ \A w \in DOMAIN m_watchMap' : m_watchMap'[w] = m_watchMap[w]
        /\ DOMAIN m_wdToRoots' = DOMAIN m_wdToRoots \ {wd}
        /\ \A w \in DOMAIN m_wdToRoots' : m_wdToRoots'[w] = m_wdToRoots[w]
        /\ DOMAIN m_pathWatchMap' \subseteq DOMAIN m_pathWatchMap
        /\ \A p \in DOMAIN m_pathWatchMap' : m_pathWatchMap'[p] = m_pathWatchMap[p]
    BY <2>2 DEF Without, Restrict
  <2>5. \A r : \A w \in DOMAIN kernel : Live(w, r) =>
            Live(w, r)' /\ kernel'[w] = kernel[w] /\ m_watchMap'[w] = m_watchMap[w]
    BY <2>2, <2>3, <2>4 DEF Live
  <2>6. RootsStand'
    <3>1. m_rootWatches' =
              [r \in DOMAIN m_rootWatches |->
                 IF wd \in DOMAIN m_wdToRoots /\ r \in m_wdToRoots[wd]
                 THEN [m_rootWatches[r] EXCEPT !.associatedWds = m_rootWatches[r].associatedWds \ {wd}]
                 ELSE m_rootWatches[r]]
      BY <1>1, <2>1, Zenon DEF HandleIgnored
    <3>2. ASSUME NEW r \in DOMAIN m_rootWatches PROVE m_rootWatches'[r].recursive = m_rootWatches[r].recursive
      <4> DEFINE v == [m_rootWatches[r] EXCEPT !.associatedWds = m_rootWatches[r].associatedWds \ {wd}]
      <4>1. m_rootWatches'[r] = v \/ m_rootWatches'[r] = m_rootWatches[r]
        BY <3>1
      <4>2. v.recursive = m_rootWatches[r].recursive
        <5>1. m_rootWatches[r] = [f \in {"recursive", "associatedWds"} |-> m_rootWatches[r][f]]
          BY DEF SerialInv, RootShapes
        <5> QED BY <5>1
      <4> HIDE DEF v
      <4> QED BY <4>1, <4>2
    <3>3. DOMAIN m_rootWatches' = DOMAIN m_rootWatches
      BY <3>1
    <3> QED BY <1>o, <2>2, <3>2, <3>3 DEF RootsStand
  <2>7. Covering'
    <3>1. ASSUME NEW r \in m_watches \cap RecursiveRoot, NEW p \in DOMAIN fs,
                 WatchedFor(r, p) \/ Announced(r, p) \/ Due(op[Loop], r, p)
          PROVE  WatchedFor(r, p)' \/ Announced(r, p)'
      <4>1. \A w \in DOMAIN kernel : Live(w, r) =>
            Live(w, r)' /\ kernel'[w] = kernel[w] /\ m_watchMap'[w] = m_watchMap[w]
        BY <2>5
      <4>2. WatchedFor(r, p) => WatchedFor(r, p)'
        BY <2>2, <4>1, StaysLive
      <4>3. Announced(r, p) => Announced(r, p)'
        BY <1>o, <2>2, <4>1, Dequeued
      <4> QED BY <1>b, <1>d, <2>2, <3>1, <4>2, <4>3
    <3> QED BY <1>b, <1>o, <2>2, <3>1, CoverMoves
  <2>8. Fresh'
    BY <1>o, <2>2, <2>4 DEF Fresh
  <2> QED BY <1>o, <2>2, <2>6, <2>7, <2>8 DEF CoverInv, Tree
\* The head of the queue announces nothing, or the loop takes it up.
<1>2. ASSUME MayBegin(Loop), queue # << >>, queue' = Tail(queue), NEW n, Becomes(Loop, n),
             UNCHANGED <<fs, kernel, m_watches, tableVars>>,
             \A r \in m_watches \cap RecursiveRoot : \A p :
                /\ Head(queue).kind = "create" /\ Live(Head(queue).wd, r)
                /\ Under(EventPath(Head(queue)), p)
                => Due(n, r, p)'
      PROVE  CoverInv'
  <2>1. UNCHANGED <<m_rootWatches, m_watchMap, m_pathWatchMap, m_watchRecursive, m_wdToRoots>>
    BY <1>2 DEF tableVars
  <2>2. \A r : \A w \in DOMAIN kernel : Live(w, r) =>
            Live(w, r)' /\ kernel'[w] = kernel[w] /\ m_watchMap'[w] = m_watchMap[w]
    BY <1>2, <2>1 DEF Live
  <2>3. ASSUME NEW r \in m_watches \cap RecursiveRoot, NEW p \in DOMAIN fs,
               WatchedFor(r, p) \/ Announced(r, p) \/ Due(op[Loop], r, p)
        PROVE  WatchedFor(r, p)' \/ Announced(r, p)' \/ Due(n, r, p)'
    <3>1. WatchedFor(r, p) => WatchedFor(r, p)'
      BY <1>2, <2>2, StaysLive
    <3>2. Announced(r, p) => Announced(r, p)' \/ Due(n, r, p)'
      BY <1>o, <1>2, <2>2, Dequeued
    <3> QED BY <1>b, <1>d, <1>2, <2>3, <3>1, <3>2
  <2>4. Covering'
    BY <1>b, <1>o, <1>2, <2>3, CoverMoves
  <2> QED BY <1>o, <1>2, <2>1, <2>4 DEF CoverInv, RootsStand, Fresh, Tree
<1>3. CASE HandleOther
  <2>1. /\ MayBegin(Loop) /\ queue # << >> /\ queue' = Tail(queue) /\ op' = op
        /\ UNCHANGED <<fs, kernel, m_watches, tableVars>>
        /\ \/ Head(queue).wd \notin DOMAIN m_watchMap \/ Head(queue).kind # "create"
           \/ Head(queue).wd \notin m_watchRecursive
    BY <1>3 DEF HandleOther, NextEvent, fsVars
  <2>2. \A r : ~(Head(queue).kind = "create" /\ Live(Head(queue).wd, r))
    BY <2>1 DEF Live, Inv, KernelKnown
  <2> QED BY <1>b, <1>2, <2>1, <2>2
<1>4. CASE HandleAppeared
  <2>1. PICK n : n = [at |-> "roots", wd |-> Head(queue).wd, path |-> EventPath(Head(queue))]
    OBVIOUS
  <2>2. /\ MayBegin(Loop) /\ queue # << >> /\ queue' = Tail(queue) /\ Becomes(Loop, n)
        /\ UNCHANGED <<fs, kernel, m_watches, tableVars>>
    BY <1>4, <2>1 DEF HandleAppeared, NextEvent, fsVars
  <2>3. ASSUME NEW r \in m_watches \cap RecursiveRoot, NEW p, Live(Head(queue).wd, r),
               Under(EventPath(Head(queue)), p)
        PROVE  Due(n, r, p)'
    <3>1. n.at = "roots" /\ Live(n.wd, r) /\ Under(n.path, p)
      BY <2>1, <2>3
    <3>2. r \in Root /\ n.wd \in DOMAIN m_wdToRoots /\ r \in m_wdToRoots[n.wd]
      BY <1>o, <3>1 DEF Live, OpTypes
    <3>3. r \in DOMAIN m_rootWatches /\ m_rootWatches[r].recursive
      BY <1>o, <3>2 DEF SerialInv, RootsKnow, RootsStand
    <3>4. m_wdToRoots' = m_wdToRoots /\ m_rootWatches' = m_rootWatches
      BY <2>2 DEF tableVars
    <3>5. r \in Heirs(n.wd)'
      BY <3>2, <3>3, <3>4 DEF Heirs
    <3> QED BY <3>1, <3>5 DEF Due
  <2> QED BY <1>2, <2>2, <2>3
<1>5. CASE FindRoots
  <2>1. PICK o : o = op[Loop]
    OBVIOUS
  <2>2. PICK heirs : heirs = Heirs(o.wd)
    OBVIOUS
  <2>3. /\ o.at = "roots" /\ UNCHANGED <<fs, kernel, queue, m_watches, tableVars>>
        /\ \/ heirs = {} /\ Becomes(Loop, Idle)
           \/ \E s \in heirs : Becomes(Loop, ScanOf(o.path, s, heirs \ {s}))
    BY <1>5, <2>1, <2>2 DEF FindRoots, fsVars, kernelVars
  <2>4. PICK n : /\ Becomes(Loop, n)
                 /\ \/ heirs = {}
                    \/ n.at = "visit" /\ n.start = o.path /\ n.todo = {o.path} /\ heirs \subseteq n.roots \cup {n.root}
    <3>1. \A s \in heirs : LET n == ScanOf(o.path, s, heirs \ {s}) IN
              n.at = "visit" /\ n.start = o.path /\ n.todo = {o.path} /\ heirs \subseteq n.roots \cup {n.root}
      BY DEF ScanOf
    <3> QED BY <2>3, <3>1, Zenon
  <2>5. \A r, p : Due(o, r, p) => Due(n, r, p)'
    BY <2>2, <2>3, <2>4 DEF Due
  <2>6. UNCHANGED <<m_rootWatches, m_watchMap, m_pathWatchMap, m_watchRecursive, m_wdToRoots>>
    BY <2>3 DEF tableVars
  <2>7. Covering'
    <3>1. \A r \in m_watches' \cap RecursiveRoot, p \in DOMAIN fs : Under(r, p) =>
            Due(n, r, p)' \/ (r \in m_watches /\ ~Due(op[Loop], r, p))
      BY <2>1, <2>3, <2>5
    <3>2. Alone(Loop)
      BY <1>o, <2>1, <2>3, AloneIs DEF Idle
    <3> QED BY <1>o, <2>3, <2>4, <2>6, <3>1, <3>2, QuietMoves
  <2> QED BY <1>o, <2>3, <2>6, <2>7 DEF CoverInv, RootsStand, Fresh, Tree
<1> QED BY <1>1, <1>3, <1>4, <1>5 DEF LoopStep

-----------------------------------------------------------------------------
(* What is watched or owed: directories come and go.                        *)

\* The path of an event is below the directory it is from.
LEMMA EventBelow ==
  ASSUME NamedInv, Inv, NEW i \in DOMAIN queue, queue[i].kind = "create", queue[i].wd \in DOMAIN kernel
  PROVE  /\ EventPath(queue[i]) \in Path
         /\ m_watchMap[queue[i].wd] \in Path /\ Under(m_watchMap[queue[i].wd], EventPath(queue[i]))
<1>1. PICK e : e = queue[i]
  OBVIOUS
<1>2. e \in Fit /\ e \in Event /\ e.wd \in DOMAIN m_watchMap
  <2>1. queue \in Seq(Fit) /\ i \in 1 .. Len(queue)
    BY LenProperties DEF NamedInv
  <2>2. e \in Fit
    BY <1>1, <2>1, ElementOfSeq
  <2> QED BY <1>1, <2>2 DEF Fit, Inv, KernelKnown
<1> DEFINE d == m_watchMap[e.wd]
<1>3. d \in Path /\ EventPath(e) \in Path /\ EventPath(e) = Append(d, e.name)
  BY <1>1, <1>2 DEF NamedInv, TableTypes, Fit, EventPath
<1>4. d \in Seq(STRING) /\ Append(d, e.name) \in Seq(STRING)
  BY <1>3, PathAssumption
<1>5. e.name \in STRING
  <2>1. PICK p \in Path \ {<< >>} : e.name = Last(p)
    BY <1>1, <1>2 DEF Event
  <2>2. p \in Seq(STRING) /\ Len(p) \in Nat /\ Len(p) # 0
    BY PathAssumption, LenProperties, EmptySeq
  <2>3. Len(p) \in 1 .. Len(p)
    BY <2>2
  <2> QED BY <2>1, <2>2, <2>3, ElementOfSeq DEF Last
<1> HIDE DEF d
<1>6. Under(d, Append(d, e.name))
  <2>1. /\ Len(Append(d, e.name)) = Len(d) + 1 /\ Len(d) \in Nat
        /\ \A k \in 1 .. Len(d) : Append(d, e.name)[k] = d[k]
    BY <1>4, <1>5, AppendProperties, LenProperties
  <2>2. Len(d) <= Len(Append(d, e.name)) /\ \A k \in 1 .. Len(d) : d[k] = Append(d, e.name)[k]
    BY <2>1
  <2> QED BY <1>4, <2>2, UnderIs
<1> QED BY <1>1, <1>3, <1>6 DEF d

\* What is owed for a directory is owed for what appears in it.
LEMMA OwedBelow ==
  ASSUME NamedInv, Inv, NEW r \in Root, NEW p \in Path \ {<< >>}
  PROVE  /\ Announced(r, Front(p)) => Announced(r, p)
         /\ \A th \in Thread : Due(op[th], r, Front(p)) => Due(op[th], r, p)
<1> DEFINE d == Front(p)
<1>1. p \in Seq(STRING) /\ d \in Path /\ d \in Seq(STRING)
  BY PathAssumption
<1>2. ASSUME NEW q \in Path, Under(q, d) PROVE Under(q, p) /\ q # p
  <2>1. q \in Seq(STRING)
    BY PathAssumption
  <2>2. Under(d, p) /\ ~Under(p, d)
    BY UnderFront, <2>1
  <2> HIDE DEF d
  <2> QED BY <1>1, <1>2, <2>1, <2>2, UnderIsOrder
<1> HIDE DEF d
<1>3. ASSUME Announced(r, d) PROVE Announced(r, p)
  <2>1. PICK i \in DOMAIN queue :
            queue[i].kind = "create" /\ Live(queue[i].wd, r) /\ Under(EventPath(queue[i]), d)
    BY <1>3 DEF Announced
  <2>2. EventPath(queue[i]) \in Path
    BY <2>1, EventBelow DEF Live
  <2> QED BY <1>2, <2>1, <2>2 DEF Announced
<1>4. ASSUME NEW th \in Thread, Due(op[th], r, d) PROVE Due(op[th], r, p)
  <2>1. PICK o : o = op[th]
    OBVIOUS
  <2>2. o \in Ops
    BY <2>1 DEF NamedInv, OpTypes
  <2>3. /\ o.at = "roots" => o.path \in Path
        /\ o.at \in {"visit", "list"} => o.todo \subseteq Path /\ o.dir \in Path /\ o.start \in Path
    BY <2>2, OpParts
  <2>4. r \in Path
    BY RootAssumption
  <2> QED BY <1>2, <1>4, <2>1, <2>3, <2>4 DEF Due
<1> QED BY <1>3, <1>4 DEF d

LEMMA CoverMkdir ==
  ASSUME NamedInv, Inv, CoverInv, NoReturn, NEW q \in Path, Mkdir(q)
  PROVE  CoverInv'
<1> DEFINE d == Front(q)
           s == SetToSeq(InParent("create", q, 0))
<1>1. /\ q # << >> /\ q \notin DOMAIN fs /\ d \in DOMAIN fs /\ ~Outdated(q)
      /\ fs' = With(fs, q, lastInode') /\ queue' = queue \o s
      /\ UNCHANGED <<kernel, m_watches, op>> /\ UNCHANGED tableVars
  BY DEF Mkdir, NoReturn
<1>2. UNCHANGED <<m_rootWatches, m_watchMap, m_pathWatchMap, m_watchRecursive, m_wdToRoots>>
  BY <1>1 DEF tableVars
<1>3. /\ Covering /\ RootsStand /\ Fresh /\ Tree /\ queue \in Seq(Event) /\ DOMAIN fs \subseteq Path
      /\ q \in Path \ {<< >>} /\ q \in Seq(STRING) /\ lastWd \in Nat /\ DOMAIN kernel \subseteq 1 .. lastWd
      /\ m_watches \subseteq Root
  BY <1>1, PathAssumption DEF CoverInv, NamedInv, Inv, FsTypes, OpTypes
<1>4. s \in Seq(Event)
  BY <1>3, EventsInParent
<1>5. /\ \A i \in DOMAIN queue : i \in DOMAIN queue' /\ queue'[i] = queue[i]
      /\ \A i \in DOMAIN s : \E j \in DOMAIN queue' : queue'[j] = s[i]
  <2> HIDE DEF s
  <2>1. /\ \A i \in DOMAIN queue : i \in DOMAIN (queue \o s) /\ (queue \o s)[i] = queue[i]
        /\ \A i \in DOMAIN s : Len(queue) + i \in DOMAIN (queue \o s) /\ (queue \o s)[Len(queue) + i] = s[i]
    BY <1>3, <1>4, Appended
  <2>2. queue' = queue \o s
    BY <1>1
  <2>3. \A i \in DOMAIN queue : i \in DOMAIN queue' /\ queue'[i] = queue[i]
    BY <2>1, <2>2
  <2>4. ASSUME NEW i \in DOMAIN s PROVE \E j \in DOMAIN queue' : queue'[j] = s[i]
    BY <2>1, <2>2
  <2> QED BY <2>3, <2>4
<1>6. DOMAIN fs' = DOMAIN fs \cup {q} /\ \A p \in DOMAIN fs : fs'[p] = fs[p]
  BY <1>1 DEF With
\* The event of the new directory is queued wherever its parent is watched.
<1>7. ASSUME NEW r, WatchedFor(r, d) PROVE Announced(r, q)'
  <2>1. PICK wd \in DOMAIN kernel : Live(wd, r) /\ kernel[wd] = fs[d] /\ m_watchMap[wd] = d
    BY <1>7 DEF WatchedFor
  <2>2. PICK e : e = [kind |-> "create", wd |-> wd, name |-> Last(q), cookie |-> 0]
    OBVIOUS
  <2>3. e \in InParent("create", q, 0)
    BY <2>1, <2>2 DEF InParent, WdOf
  <2>4. IsFiniteSet(InParent("create", q, 0))
    <3> DEFINE W == WdOf(fs[d])
               f == [w \in W |-> [kind |-> "create", wd |-> w, name |-> Last(q), cookie |-> 0]]
    <3>1. W \subseteq 1 .. lastWd
      BY <1>3 DEF WdOf
    <3>2. IsFiniteSet(W)
      BY <1>3, <3>1, FiniteWds
    <3>3. f \in Surjection(W, InParent("create", q, 0))
      BY DEF Surjection, InParent
    <3> HIDE DEF W
    <3> QED BY <3>2, <3>3, FS_Surjection
  <2>5. PICK i \in DOMAIN s : s[i] = e
    BY <2>3, <2>4, AllQueued
  <2>6. PICK j \in DOMAIN queue' : queue'[j] = e
    BY <1>5, <2>5
  <2>7. Live(wd, r)'
    BY <1>1, <1>2, <2>1 DEF Live
  <2>8. EventPath(queue[j])' = q
    <3>1. Append(d, Last(q)) = q
      BY <1>3, FrontThenLast
    <3>2. EventPath(queue[j])' = Append(m_watchMap'[e.wd], e.name)
      BY <2>6 DEF EventPath
    <3> QED BY <1>2, <2>1, <2>2, <3>1, <3>2
  <2>9. Under(q, q)
    BY <1>3, UnderIsOrder
  <2>10. queue'[j].kind = "create" /\ Live(queue[j].wd, r)' /\ Under(EventPath(queue[j]), q)'
    BY <2>2, <2>6, <2>7, <2>8, <2>9
  <2> QED BY <2>10 DEF Announced
<1>8. ASSUME NEW r, NEW p
      PROVE  /\ WatchedFor(r, p) /\ fs'[p] = fs[p] => WatchedFor(r, p)'
             /\ Announced(r, p) => Announced(r, p)'
             /\ \A th \in Thread : Due(op[th], r, p) => Due(op[th], r, p)'
  <2>1. \A wd \in DOMAIN kernel : Live(wd, r) =>
            Live(wd, r)' /\ kernel'[wd] = kernel[wd] /\ m_watchMap'[wd] = m_watchMap[wd]
    BY <1>1, <1>2 DEF Live
  <2>2. \A th \in Thread : Due(op[th], r, p) => Due(op[th], r, p)'
    BY <1>1, <1>2 DEF Due, Heirs
  <2> HIDE DEF s
  <2> QED BY <1>5, <2>1, <2>2, StaysLive
<1>9. Covering'
  <2> SUFFICES ASSUME NEW r \in m_watches \cap RecursiveRoot, NEW p \in DOMAIN fs \cup {q}, Under(r, p)
               PROVE  WatchedFor(r, p)' \/ Announced(r, p)' \/ \E th \in Thread : Due(op[th], r, p)'
    BY <1>1, <1>6 DEF Covering, Thread
  <2>1. CASE p \in DOMAIN fs
    BY <1>3, <1>6, <1>8, <2>1 DEF Covering
  <2>2. CASE p = q
    <3>1. r \in DOMAIN fs /\ r \in Root /\ r \in Seq(STRING) /\ r # q
      BY <1>1, <1>3, PathAssumption DEF RootsStand
    <3>2. Under(r, d)
      BY <1>3, <2>2, <3>1, UnderFront
    <3>3. WatchedFor(r, d) \/ Announced(r, d) \/ \E th \in Thread : Due(op[th], r, d)
      BY <1>1, <1>3, <3>2 DEF Covering
    <3>4. /\ Announced(r, d) => Announced(r, q)
          /\ \A th \in Thread : Due(op[th], r, d) => Due(op[th], r, q)
      BY <1>3, <3>1, OwedBelow
    <3> HIDE DEF d
    <3> QED BY <1>7, <1>8, <2>2, <3>3, <3>4
  <2> QED BY <2>1, <2>2
<1>10. RootsStand'
  BY <1>1, <1>2, <1>3, <1>6 DEF RootsStand
<1>11. Fresh'
  <2>1. q \notin DOMAIN m_pathWatchMap
    <3>1. ASSUME q \in DOMAIN m_pathWatchMap PROVE FALSE
      <4> DEFINE wd == m_pathWatchMap[q]
      <4>1. wd \in DOMAIN kernel /\ m_watchMap[wd] = q
        BY <1>1, <3>1 DEF Outdated, NamedInv, TableTypes
      <4>2. PICK p \in DOMAIN fs : m_watchMap[wd] = p
        BY <4>1 DEF NamedInv, Held
      <4> QED BY <1>1, <4>1, <4>2
    <3> QED BY <3>1
  <2> QED BY <1>1, <1>2, <1>3, <1>6, <2>1 DEF Fresh
<1>12. Tree'
  <2>1. ASSUME NEW n \in 0 .. Len(q) PROVE SubSeq(q, 1, n) \in DOMAIN fs \cup {q}
    <3> DEFINE c == SubSeq(q, 1, n)
    <3>1. c \in Seq(STRING) /\ Len(c) = n /\ \A i \in 1 .. n : c[i] = q[i]
      BY <1>3, PrefixIs
    <3> HIDE DEF c
    <3>2. Under(c, q)
      BY <1>3, <3>1, UnderIs
    <3>3. c = q \/ Under(c, d)
      BY <1>3, <3>1, <3>2, UnderFront
    <3>4. Under(c, d) => c \in DOMAIN fs
      BY <1>1, <1>3, <3>1, InTree
    <3> QED BY <3>3, <3>4 DEF c
  <2> QED BY <1>3, <1>6, <2>1 DEF Tree
<1> QED BY <1>9, <1>10, <1>11, <1>12 DEF CoverInv

LEMMA CoverRmdir ==
  ASSUME NamedInv, Inv, CoverInv, NoGone, NEW q \in Path, Rmdir(q)
  PROVE  CoverInv'
<1> DEFINE W == WdOf(fs[q])
           a == SetToSeq(OfSelf("delete_self", W))
           b == SetToSeq(OfSelf("ignored", W))
           c == SetToSeq(InParent("delete", q, 0))
<1>1. /\ q \in DOMAIN fs \ {<< >>} /\ Children(q) = {} /\ q \notin m_watches
      /\ fs' = Without(fs, {q}) /\ kernel' = Without(kernel, W) /\ queue' = queue \o a \o b \o c
      /\ UNCHANGED <<m_watches, op>> /\ UNCHANGED tableVars
  BY DEF Rmdir, NoGone
<1>2. UNCHANGED <<m_rootWatches, m_watchMap, m_pathWatchMap, m_watchRecursive, m_wdToRoots>>
  BY <1>1 DEF tableVars
<1>3. /\ Covering /\ RootsStand /\ Fresh /\ Tree /\ queue \in Seq(Event) /\ DOMAIN fs \subseteq Path
      /\ q \in Path \ {<< >>} /\ q \in Seq(STRING) /\ lastWd \in Nat /\ DOMAIN kernel \subseteq 1 .. lastWd
  BY <1>1, PathAssumption DEF CoverInv, NamedInv, Inv, FsTypes
<1>4. \A i \in DOMAIN queue : i \in DOMAIN queue' /\ queue'[i] = queue[i]
  <2>1. W \subseteq 1 .. lastWd
    BY <1>3 DEF WdOf
  <2>2. IsFiniteSet(W) /\ W \subseteq Nat
    BY <1>3, <2>1, FiniteWds
  <2>3. a \in Seq(Event) /\ b \in Seq(Event)
    <3> HIDE DEF W
    <3> QED BY <2>2, EventsOfSelf
  <2>4. c \in Seq(Event)
    BY <1>3, EventsInParent
  <2> HIDE DEF W, a, b, c
  <2>5. /\ queue \o a \in Seq(Event) /\ queue \o a \o b \in Seq(Event)
    BY <1>3, <2>3, ConcatProperties
  <2>6. \A i \in DOMAIN queue : i \in DOMAIN (queue \o a) /\ (queue \o a)[i] = queue[i]
    BY <1>3, <2>3, Appended
  <2>7. \A i \in DOMAIN (queue \o a) : i \in DOMAIN (queue \o a \o b) /\ (queue \o a \o b)[i] = (queue \o a)[i]
    BY <2>3, <2>5, Appended
  <2>8. \A i \in DOMAIN (queue \o a \o b) : i \in DOMAIN queue' /\ queue'[i] = (queue \o a \o b)[i]
    BY <1>1, <2>4, <2>5, Appended
  <2> QED BY <2>6, <2>7, <2>8
<1>5. /\ DOMAIN fs' = DOMAIN fs \ {q} /\ \A p \in DOMAIN fs' : fs'[p] = fs[p]
      /\ DOMAIN kernel' = DOMAIN kernel \ W /\ \A wd \in DOMAIN kernel' : kernel'[wd] = kernel[wd]
  BY <1>1 DEF Without, Restrict
\* A descriptor that goes is of the directory that goes, in which there is nothing.
<1>6. \A wd \in DOMAIN kernel : wd \in W => kernel[wd] = fs[q] /\ m_watchMap[wd] = q
  BY <1>1 DEF WdOf, NamedInv, Held, FsTypes
<1>7. \A p \in DOMAIN fs : Under(q, p) => p = q
  BY <1>1, <1>3, HasChild
<1>8. \A p \in DOMAIN fs \ {q} : fs[p] # fs[q]
  BY <1>1 DEF NamedInv, FsTypes
<1> HIDE DEF W, a, b, c
<1>9. ASSUME NEW r, NEW wd, Live(wd, r), wd \notin W PROVE Live(wd, r)'
  BY <1>2, <1>5, <1>9 DEF Live
<1>10. Covering'
  <2> SUFFICES ASSUME NEW r \in m_watches \cap RecursiveRoot, NEW p \in DOMAIN fs \ {q}, Under(r, p)
               PROVE  WatchedFor(r, p)' \/ Announced(r, p)' \/ \E th \in Thread : Due(op[th], r, p)'
    BY <1>1, <1>5 DEF Covering, Thread
  <2>1. ASSUME WatchedFor(r, p) PROVE WatchedFor(r, p)'
    <3>1. PICK wd \in DOMAIN kernel : Live(wd, r) /\ kernel[wd] = fs[p] /\ m_watchMap[wd] = p
      BY <2>1 DEF WatchedFor
    <3>2. wd \notin W
      BY <1>6, <1>8, <3>1
    <3>3. Live(wd, r)' /\ wd \in DOMAIN kernel' /\ kernel'[wd] = fs'[p] /\ m_watchMap'[wd] = p
      BY <1>2, <1>5, <1>9, <3>1, <3>2
    <3> QED BY <3>3 DEF WatchedFor
  <2>2. ASSUME Announced(r, p) PROVE Announced(r, p)'
    <3>1. PICK i \in DOMAIN queue :
              queue[i].kind = "create" /\ Live(queue[i].wd, r) /\ Under(EventPath(queue[i]), p)
      BY <2>2 DEF Announced
    <3>2. PICK wd : wd = queue[i].wd
      OBVIOUS
    <3>3. wd \notin W
      <4>1. ASSUME wd \in W PROVE FALSE
        <5>1. wd \in DOMAIN kernel /\ m_watchMap[wd] = q
          BY <1>6, <3>1, <3>2, <4>1 DEF Live
        <5>2. EventPath(queue[i]) \in Path /\ Under(q, EventPath(queue[i]))
          BY <3>1, <3>2, <5>1, EventBelow
        <5>3. Under(q, p)
          <6>1. EventPath(queue[i]) \in Seq(STRING) /\ p \in Seq(STRING)
            BY <1>3, <5>2, PathAssumption
          <6> QED BY <1>3, <3>1, <5>2, <6>1, UnderIsOrder
        <5> QED BY <1>7, <5>3
      <4> QED BY <4>1
    <3>4. i \in DOMAIN queue' /\ queue'[i] = queue[i]
      BY <1>4
    <3>5. Live(wd, r)'
      BY <1>9, <3>1, <3>2, <3>3
    <3>6. EventPath(queue[i])' = EventPath(queue[i])
      BY <1>2, <3>4 DEF EventPath
    <3>7. queue'[i].kind = "create" /\ Live(queue[i].wd, r)' /\ Under(EventPath(queue[i]), p)'
      BY <3>1, <3>2, <3>4, <3>5, <3>6
    <3> QED BY <3>4, <3>7 DEF Announced
  <2>3. \A th \in Thread : Due(op[th], r, p) => Due(op[th], r, p)'
    BY <1>1, <1>2 DEF Due, Heirs
  <2> QED BY <1>3, <2>1, <2>2, <2>3 DEF Covering
<1>11. RootsStand'
  BY <1>1, <1>2, <1>3, <1>5 DEF RootsStand
<1>12. Fresh'
  <2> SUFFICES ASSUME NEW p \in DOMAIN m_pathWatchMap \cap (DOMAIN fs \ {q})
               PROVE  m_pathWatchMap[p] \in DOMAIN kernel' /\ kernel'[m_pathWatchMap[p]] = fs'[p]
    BY <1>2, <1>5 DEF Fresh
  <2>1. m_pathWatchMap[p] \in DOMAIN kernel /\ kernel[m_pathWatchMap[p]] = fs[p]
    BY <1>3 DEF Fresh
  <2>2. m_pathWatchMap[p] \notin W
    BY <1>6, <1>8, <2>1
  <2> QED BY <1>5, <2>1, <2>2
<1>13. Tree'
  <2> SUFFICES ASSUME NEW p \in DOMAIN fs \ {q}, NEW n \in 0 .. Len(p) PROVE SubSeq(p, 1, n) \in DOMAIN fs \ {q}
    BY <1>5 DEF Tree
  <2> DEFINE s == SubSeq(p, 1, n)
  <2>1. p \in Seq(STRING) /\ Len(p) \in Nat
    BY <1>3, PathAssumption, LenProperties
  <2>2. s \in Seq(STRING) /\ Len(s) = n /\ \A i \in 1 .. n : s[i] = p[i]
    BY <2>1, PrefixIs
  <2>3. s \in DOMAIN fs
    BY <1>3 DEF Tree
  <2> HIDE DEF s
  <2>4. Under(s, p)
    BY <2>1, <2>2, UnderIs
  <2>5. s # q
    BY <1>7, <2>4
  <2> QED BY <2>3, <2>5 DEF s
<1> QED BY <1>10, <1>11, <1>12, <1>13 DEF CoverInv

LEMMA CoverNext ==
  ASSUME NamedInv, SerialInv, AgreeInv, Inv, CoverInv, NoRename, NoOverlap, NoGone, NoReturn, [Next]_vars
  PROVE  CoverInv'
<1>1. CASE FsStep
  BY <1>1, CoverMkdir, CoverRmdir DEF FsStep, Rename, NoRename
<1>2. CASE LoopStep
  BY <1>2, CoverLoop
<1>3. ASSUME NEW th \in Thread, ClientStep(th) PROVE CoverInv'
  BY <1>3, CoverClient
<1>4. ASSUME NEW th \in Thread, ScanStep(th) PROVE CoverInv'
  BY <1>4, CoverScan
<1>5. CASE UNCHANGED vars
  <2>1. UNCHANGED <<fs, kernel, queue, m_watches, m_rootWatches, m_watchMap, m_pathWatchMap,
                    m_watchRecursive, m_wdToRoots, op>>
    BY <1>5 DEF vars, fsVars, kernelVars, tableVars
  <2>2. ASSUME NEW r, NEW p
        PROVE  /\ WatchedFor(r, p) => WatchedFor(r, p)'
               /\ Announced(r, p) => Announced(r, p)'
               /\ \A th \in Thread : Due(op[th], r, p) => Due(op[th], r, p)'
    BY <2>1 DEF WatchedFor, Announced, Live, EventPath, Due, Heirs
  <2>3. Covering'
    BY <2>1, <2>2 DEF CoverInv, Covering, Thread
  <2> QED BY <2>1, <2>3 DEF CoverInv, RootsStand, Fresh, Tree
<1> QED BY <1>1, <1>2, <1>3, <1>4, <1>5 DEF Next, Thread

LEMMA CoverInit == ASSUME Init PROVE CoverInv
<1>1. /\ DOMAIN fs = {<< >>} /\ m_watches = {} /\ DOMAIN m_rootWatches = {} /\ DOMAIN m_pathWatchMap = {}
  BY DEF Init
<1>2. Tree
  <2>1. << >> \in Seq(STRING) /\ Len(<< >>) = 0
    BY EmptySeq
  <2>2. SubSeq(<< >>, 1, 0) = << >>
    <3>1. 0 \in 0 .. Len(<< >>)
      BY <2>1
    <3>2. SubSeq(<< >>, 1, 0) \in Seq(STRING) /\ Len(SubSeq(<< >>, 1, 0)) = 0
      BY <2>1, <3>1, PrefixIs
    <3> QED BY <3>2, EmptySeq
  <2>3. \A n \in 0 .. Len(<< >>) : n = 0
    BY <2>1
  <2> QED BY <1>1, <2>2, <2>3 DEF Tree
<1> QED BY <1>1, <1>2 DEF CoverInv, Covering, RootsStand, Fresh

\* When all is quiet, every directory below a recursively watched path is watched under
\* its own path for that root, in whatever order directories were created, scanned and
\* announced.  For directories that keep their names and do not come back before their
\* end was handled, watched paths that stay, calls that do not overlap scans or each
\* other, and calls of removeWatch for what was added.
THEOREM EverythingIsCovered ==
  ASSUME NoRename, NoOverlap, NoStray, NoGone, NoReturn
  PROVE  Spec => []Covered
<1> DEFINE I == NamedInv /\ SerialInv /\ AgreeInv /\ Inv /\ CoverInv
<1>1. Init => I
  <2>1. Init => AgreeInv
    BY DEF Init, AgreeInv, RootsListed, Idle
  <2> QED BY <2>1, NamedInit, SerialInit, InitInv, CoverInit
<1>2. I /\ [Next]_vars => I'
  BY NamedNext, SerialNext, AgreeNext, NextInv, CoverNext
<1>3. I => Covered
  <2> SUFFICES ASSUME I, Quiescent, NEW r \in m_watches \cap RecursiveRoot, NEW p \in DOMAIN fs, Under(r, p)
               PROVE  \E wd \in WdOf(fs[p]) : /\ wd \in DOMAIN m_watchMap /\ m_watchMap[wd] = p
                                              /\ wd \in m_watchRecursive /\ r \in m_wdToRoots[wd]
    BY DEF Covered
  <2>1. ~Announced(r, p)
    BY EmptySeq DEF Announced, Quiescent
  <2>2. \A th \in Thread : ~Due(op[th], r, p)
    BY DEF Due, Quiescent, Idle
  <2>3. WatchedFor(r, p)
    BY <2>1, <2>2 DEF CoverInv, Covering
  <2> QED BY <2>3 DEF WatchedFor, Live, WdOf, Inv, KernelKnown
<1> QED BY <1>1, <1>2, <1>3, PTL DEF Spec

===============================================================================
