------------------------ MODULE InotifyWatchesProofs ------------------------
(***************************************************************************)
(* Proofs about InotifyWatches, for every set of paths, roots and clients, *)
(* every bound, and whatever Behaviours allows.                            *)
(***************************************************************************)
EXTENDS InotifyWatches, SequenceTheorems, FiniteSetTheorems, TLAPS

-----------------------------------------------------------------------------
(* Sequences of events.                                                     *)

\* Finitely many descriptors have been given out.
LEMMA FiniteWds ==
  ASSUME NEW n \in Nat, NEW W, W \subseteq 1 .. n
  PROVE  IsFiniteSet(W) /\ W \subseteq Nat
<1>1. IsFiniteSet(1 .. n)
  BY FS_Interval
<1>2. W \in SUBSET (1 .. n)
  OBVIOUS
<1>3. W \subseteq Nat
  OBVIOUS
<1>4. IsFiniteSet(W)
  BY <1>1, <1>2, FS_Subset
<1> QED BY <1>3, <1>4

\* SetToSeq makes a sequence of the elements of a finite set.
LEMMA SetAsSequence ==
  ASSUME NEW S, IsFiniteSet(S)
  PROVE  SetToSeq(S) \in Seq(S)
<1>1. Cardinality(S) \in Nat /\ ExistsBijection(1 .. Cardinality(S), S)
  BY FS_CardinalityType
<1>2. \E f \in [1 .. Cardinality(S) -> S] : IsInjective(f)
  BY <1>1 DEF ExistsBijection, Bijection, Injection
<1>3. SetToSeq(S) \in [1 .. Cardinality(S) -> S]
  BY <1>2 DEF SetToSeq
<1> QED BY <1>1, <1>3

\* The events the kernel queues for the watches of a directory itself.
LEMMA EventsOfSelf ==
  ASSUME NEW W, IsFiniteSet(W), W \subseteq Nat, NEW kind \in {"delete_self", "ignored"}
  PROVE  LET s == SetToSeq(OfSelf(kind, W)) IN
           s \in Seq(Event) /\ \A i \in DOMAIN s : s[i].kind = kind /\ s[i].wd \in W
<1> DEFINE E == OfSelf(kind, W)
           f == [wd \in W |-> [kind |-> kind, wd |-> wd]]
<1>1. f \in Surjection(W, E)
  BY DEF Surjection, OfSelf
<1>2. IsFiniteSet(E)
  BY <1>1, FS_Surjection
<1>3. E \subseteq Event /\ \A e \in E : e.kind = kind /\ e.wd \in W
  BY DEF OfSelf, Event
<1> HIDE DEF E
<1>4. SetToSeq(E) \in Seq(E)
  BY <1>2, SetAsSequence
<1>5. \A i \in DOMAIN SetToSeq(E) : SetToSeq(E)[i] \in E
  BY <1>4, ElementOfSeq, LenProperties
<1>6. SetToSeq(E) \in Seq(Event)
  BY <1>3, <1>4
<1> QED BY <1>3, <1>5, <1>6 DEF E

\* The events the kernel queues for the watches of the parent directory.
LEMMA EventsInParent ==
  ASSUME lastWd \in Nat, DOMAIN kernel \subseteq 1 .. lastWd,
         NEW kind \in {"create", "delete", "moved_from", "moved_to"},
         NEW p \in Path \ {<< >>}, NEW cookie \in Nat
  PROVE  LET s == SetToSeq(InParent(kind, p, cookie)) IN
           s \in Seq(Event) /\ \A i \in DOMAIN s : s[i].kind # "ignored"
<1> DEFINE W == WdOf(fs[Front(p)])
           E == InParent(kind, p, cookie)
           f == [wd \in W |-> [kind |-> kind, wd |-> wd, name |-> Last(p), cookie |-> cookie]]
<1>1. W \subseteq 1 .. lastWd
  BY DEF WdOf
<1>2. IsFiniteSet(W)
  BY <1>1, FiniteWds
<1>3. E = {[kind |-> kind, wd |-> wd, name |-> Last(p), cookie |-> cookie] : wd \in W}
  BY DEF InParent
<1> HIDE DEF W, E
<1>4. f \in Surjection(W, E)
  BY <1>3 DEF Surjection
<1>5. IsFiniteSet(E)
  BY <1>2, <1>4, FS_Surjection
<1>6. E \subseteq Event /\ \A e \in E : e.kind # "ignored"
  BY <1>1, <1>3 DEF Event
<1>7. SetToSeq(E) \in Seq(E)
  BY <1>5, SetAsSequence
<1>8. \A i \in DOMAIN SetToSeq(E) : SetToSeq(E)[i] \in E
  BY <1>7, ElementOfSeq, LenProperties
<1> QED BY <1>6, <1>7, <1>8 DEF E

\* Every IN_IGNORED in the sequence q is that of a descriptor in D.
IgnoredIn(q, D) == \A i \in DOMAIN q : q[i].kind = "ignored" => q[i].wd \in D

\* IgnoredIn is a property of the parts of a sequence.
LEMMA IgnoredInParts ==
  ASSUME NEW q \in Seq(Event), NEW s \in Seq(Event), NEW D, IgnoredIn(q, D)
  PROVE  /\ IgnoredIn(s, D) => q \o s \in Seq(Event) /\ IgnoredIn(q \o s, D)
         /\ q # << >> => /\ Tail(q) \in Seq(Event) /\ IgnoredIn(Tail(q), D)
                         /\ Head(q).kind = "ignored" => Head(q).wd \in D
<1>1. ASSUME IgnoredIn(s, D) PROVE q \o s \in Seq(Event) /\ IgnoredIn(q \o s, D)
  <2>1. q \o s \in Seq(Event) /\ DOMAIN (q \o s) = 1 .. Len(q) + Len(s)
    BY ConcatProperties, LenProperties
  <2>2. ASSUME NEW i \in 1 .. Len(q) + Len(s)
        PROVE  \/ i \in DOMAIN q /\ (q \o s)[i] = q[i]
               \/ i - Len(q) \in DOMAIN s /\ (q \o s)[i] = s[i - Len(q)]
    BY ConcatProperties, LenProperties
  <2> QED BY <1>1, <2>1, <2>2 DEF IgnoredIn
<1>2. ASSUME q # << >>
      PROVE  /\ Tail(q) \in Seq(Event) /\ IgnoredIn(Tail(q), D)
             /\ Head(q).kind = "ignored" => Head(q).wd \in D
  <2>1. /\ Tail(q) \in Seq(Event) /\ Len(q) >= 1
        /\ DOMAIN Tail(q) = 1 .. Len(q) - 1 /\ DOMAIN q = 1 .. Len(q)
        /\ \A i \in 1 .. Len(q) - 1 : Tail(q)[i] = q[i + 1]
    BY <1>2, HeadTailProperties, LenProperties
  <2>2. Head(q) = q[1] /\ 1 \in DOMAIN q
    BY <1>2, <2>1, HeadTailProperties, LenProperties
  <2>3. \A i \in 1 .. Len(q) - 1 : i + 1 \in DOMAIN q
    BY <2>1, LenProperties
  <2> QED BY <2>1, <2>2, <2>3 DEF IgnoredIn
<1> QED BY <1>1, <1>2

-----------------------------------------------------------------------------
(* The maps from descriptors to paths and back.                             *)

\* A new path for a descriptor, old or new, keeps all paths apart.
LEMMA EntryAdded ==
  ASSUME PathsLeadBack, NEW wd, NEW p, p \notin DOMAIN m_pathWatchMap,
         m_watchMap' = With(m_watchMap, wd, p), m_pathWatchMap' = With(m_pathWatchMap, p, wd)
  PROVE  PathsLeadBack' /\ DOMAIN m_watchMap' = DOMAIN m_watchMap \cup {wd}
<1>1. /\ DOMAIN m_watchMap' = DOMAIN m_watchMap \cup {wd}
      /\ \A w \in DOMAIN m_watchMap' : m_watchMap'[w] = IF w = wd THEN p ELSE m_watchMap[w]
  BY DEF With
<1>2. /\ DOMAIN m_pathWatchMap' = DOMAIN m_pathWatchMap \cup {p}
      /\ \A q \in DOMAIN m_pathWatchMap' :
            m_pathWatchMap'[q] = IF q = p THEN wd ELSE m_pathWatchMap[q]
  BY DEF With
<1> QED BY <1>1, <1>2 DEF PathsLeadBack

\* Forgetting descriptors erases no path of another one.
LEMMA EntriesForgotten ==
  ASSUME PathsLeadBack, NEW wds, Forget(wds)
  PROVE  PathsLeadBack' /\ DOMAIN m_watchMap' = DOMAIN m_watchMap \ wds
<1> DEFINE P == {m_watchMap[wd] : wd \in wds \cap DOMAIN m_watchMap}
<1>1. m_watchMap' = Without(m_watchMap, wds) /\ m_pathWatchMap' = Without(m_pathWatchMap, P)
  BY DEF Forget
<1>2. \A w \in DOMAIN m_watchMap \ wds : m_watchMap[w] \notin P
  BY DEF PathsLeadBack
<1> HIDE DEF P
<1>3. /\ DOMAIN m_watchMap' = DOMAIN m_watchMap \ wds
      /\ \A w \in DOMAIN m_watchMap' : m_watchMap'[w] = m_watchMap[w]
  BY <1>1 DEF Without, Restrict
<1>4. /\ DOMAIN m_pathWatchMap' = DOMAIN m_pathWatchMap \ P
      /\ \A q \in DOMAIN m_pathWatchMap' : m_pathWatchMap'[q] = m_pathWatchMap[q]
  BY <1>1 DEF Without, Restrict
<1> QED BY <1>2, <1>3, <1>4 DEF PathsLeadBack

-----------------------------------------------------------------------------
(* The invariant.                                                           *)

\* What KernelKnown and PathsLeadBack rest on: the numbering of descriptors, the
\* events, and that no IN_IGNORED is about a descriptor in use.
Inv ==
    /\ lastWd \in Nat /\ renames \in Nat
    /\ DOMAIN kernel \subseteq 1 .. lastWd
    /\ queue \in Seq(Event)
    /\ IgnoredIsDead
    /\ KernelKnown
    /\ PathsLeadBack

invVars == <<renames, kernelVars, m_watchMap, m_pathWatchMap>>

\* The two ways to say that the queued IN_IGNOREDs are about dead descriptors.
LEMMA DeadIgnored ==
  IgnoredIsDead <=> IgnoredIn(queue, (1 .. lastWd) \ DOMAIN kernel)
BY DEF IgnoredIsDead, IgnoredIn

LEMMA InitInv == Init => Inv
<1> SUFFICES ASSUME Init PROVE Inv
  OBVIOUS
<1>1. DOMAIN kernel = {} /\ DOMAIN m_watchMap = {} /\ DOMAIN queue = {}
  BY DEF Init
<1> QED BY <1>1 DEF Init, Inv, IgnoredIsDead, KernelKnown, PathsLeadBack

\* A step that leaves the invariant's variables alone.
LEMMA Untouched == Inv /\ UNCHANGED invVars => Inv'
BY DEF Inv, invVars, kernelVars, IgnoredIsDead, KernelKnown, PathsLeadBack

\* mkdir, rmdir and rename queue events; rmdir takes the watches of its directory.
LEMMA FsStepInv == Inv /\ FsStep => Inv'
<1> SUFFICES ASSUME Inv, FsStep PROVE Inv'
  OBVIOUS
<1> USE DEF Inv
<1> DEFINE Dead == (1 .. lastWd) \ DOMAIN kernel
<1>q. IgnoredIn(queue, Dead)
  BY DeadIgnored
<1>1. ASSUME NEW p \in Path, Mkdir(p) PROVE Inv'
  <2> DEFINE s == SetToSeq(InParent("create", p, 0))
  <2>1. s \in Seq(Event) /\ IgnoredIn(s, Dead)
    BY <1>1, EventsInParent DEF Mkdir, IgnoredIn
  <2>2. queue' = queue \o s /\ UNCHANGED <<renames, kernel, lastWd, m_watchMap, m_pathWatchMap>>
    BY <1>1 DEF Mkdir, tableVars
  <2> HIDE DEF s
  <2>3. queue' \in Seq(Event) /\ IgnoredIn(queue', Dead)
    BY <1>q, <2>1, <2>2, IgnoredInParts
  <2> QED BY <2>2, <2>3 DEF IgnoredIsDead, IgnoredIn, KernelKnown, PathsLeadBack
<1>2. ASSUME NEW p \in Path, Rmdir(p) PROVE Inv'
  <2> DEFINE W == WdOf(fs[p])
             a == SetToSeq(OfSelf("delete_self", W))
             b == SetToSeq(OfSelf("ignored", W))
             c == SetToSeq(InParent("delete", p, 0))
             D == (1 .. lastWd) \ DOMAIN kernel'
  <2>1. p # << >>
    BY <1>2 DEF Rmdir
  <2>2. queue' = ((queue \o a) \o b) \o c
    BY <1>2 DEF Rmdir
  <2>3. kernel' = Without(kernel, W) /\ UNCHANGED <<renames, lastWd, m_watchMap, m_pathWatchMap>>
    BY <1>2 DEF Rmdir, tableVars
  <2>4. DOMAIN kernel' = DOMAIN kernel \ W
    BY <2>3 DEF Without, Restrict
  <2>5. W \subseteq 1 .. lastWd
    BY DEF WdOf
  <2>6. IsFiniteSet(W) /\ W \subseteq Nat
    BY <2>5, FiniteWds
  <2> HIDE DEF W
  <2>7. a \in Seq(Event) /\ IgnoredIn(a, D)
    BY <2>6, EventsOfSelf DEF IgnoredIn
  <2>8. b \in Seq(Event) /\ IgnoredIn(b, D)
    <3>1. b \in Seq(Event) /\ \A i \in DOMAIN b : b[i].wd \in W
      BY <2>6, EventsOfSelf
    <3> QED BY <3>1, <2>4, <2>5 DEF IgnoredIn
  <2>9. c \in Seq(Event) /\ IgnoredIn(c, D)
    BY <2>1, EventsInParent DEF IgnoredIn
  <2>10. IgnoredIn(queue, D)
    BY <1>q, <2>4 DEF IgnoredIn
  <2> HIDE DEF a, b, c, D
  <2>11. queue \o a \in Seq(Event) /\ IgnoredIn(queue \o a, D)
    BY <2>7, <2>10, IgnoredInParts
  <2>12. (queue \o a) \o b \in Seq(Event) /\ IgnoredIn((queue \o a) \o b, D)
    BY <2>8, <2>11, IgnoredInParts
  <2>13. queue' \in Seq(Event) /\ IgnoredIn(queue', D)
    BY <2>2, <2>9, <2>12, IgnoredInParts
  <2> QED BY <2>3, <2>4, <2>13 DEF D, IgnoredIsDead, IgnoredIn, KernelKnown, PathsLeadBack
<1>3. ASSUME NEW p \in Path, NEW q \in Path, Rename(p, q) PROVE Inv'
  <2> DEFINE a == SetToSeq(InParent("moved_from", p, renames'))
             b == SetToSeq(InParent("moved_to", q, renames'))
  <2>1. p # << >> /\ q # << >> /\ renames' = renames + 1
    BY <1>3 DEF Rename
  <2>2. queue' = (queue \o a) \o b /\ UNCHANGED <<kernel, lastWd, m_watchMap, m_pathWatchMap>>
    BY <1>3 DEF Rename, tableVars
  <2>3. renames' \in Nat
    BY <2>1
  <2>4. a \in Seq(Event) /\ IgnoredIn(a, Dead)
    BY <2>1, <2>3, EventsInParent DEF IgnoredIn
  <2>5. b \in Seq(Event) /\ IgnoredIn(b, Dead)
    BY <2>1, <2>3, EventsInParent DEF IgnoredIn
  <2> HIDE DEF a, b
  <2>6. queue \o a \in Seq(Event) /\ IgnoredIn(queue \o a, Dead)
    BY <1>q, <2>4, IgnoredInParts
  <2>7. queue' \in Seq(Event) /\ IgnoredIn(queue', Dead)
    BY <2>2, <2>5, <2>6, IgnoredInParts
  <2> QED BY <2>2, <2>3, <2>7 DEF IgnoredIsDead, IgnoredIn, KernelKnown, PathsLeadBack
<1> QED BY <1>1, <1>2, <1>3 DEF FsStep

\* addDirectoryWatch adds a path that had no descriptor, to a descriptor that is in use
\* or that was never given out.
LEMMA DirectoryInv ==
  ASSUME Inv, renames' = renames, NEW p, NEW r, NEW recursive,
         AddDirectoryWatch(p, r, recursive) \/ NoDirectory(p)
  PROVE  Inv'
<1>1. CASE KnownDirectory(p, r, recursive) \/ NoDirectory(p)
  BY <1>1, Untouched DEF KnownDirectory, NoDirectory, invVars, kernelVars, tableVars
<1>2. CASE NewDirectory(p, r, recursive)
  <2> DEFINE wd == IF WdOf(fs[p]) = {} THEN lastWd + 1 ELSE CHOOSE w \in WdOf(fs[p]) : TRUE
  <2>1. /\ p \notin DOMAIN m_pathWatchMap
        /\ kernel' = With(kernel, wd, fs[p])
        /\ lastWd' = IF wd > lastWd THEN wd ELSE lastWd
        /\ m_watchMap' = With(m_watchMap, wd, p)
        /\ m_pathWatchMap' = With(m_pathWatchMap, p, wd)
        /\ queue' = queue
    BY <1>2 DEF NewDirectory
  <2>2. wd \in DOMAIN kernel \/ wd = lastWd + 1
    BY DEF WdOf
  <2> HIDE DEF wd
  <2>3. DOMAIN kernel' = DOMAIN kernel \cup {wd}
    BY <2>1 DEF With
  <2>5. PathsLeadBack' /\ DOMAIN m_watchMap' = DOMAIN m_watchMap \cup {wd}
    BY <2>1, EntryAdded DEF Inv
  <2>6. /\ lastWd' \in Nat /\ lastWd' >= lastWd /\ DOMAIN kernel' \subseteq 1 .. lastWd'
        /\ \A w \in 1 .. lastWd : w \notin DOMAIN kernel => w \in 1 .. lastWd' /\ w \notin DOMAIN kernel'
    BY <2>1, <2>2, <2>3 DEF Inv
  <2>7. IgnoredIsDead'
    BY <2>1, <2>6 DEF Inv, IgnoredIsDead
  <2> QED BY <2>1, <2>3, <2>5, <2>6, <2>7 DEF Inv, KernelKnown
<1> QED BY <1>1, <1>2 DEF AddDirectoryWatch

\* Releasing descriptors takes them from the kernel and from both maps.
LEMMA ReleaseInv ==
  ASSUME Inv, renames' = renames, NEW wds, Release(wds)
  PROVE  Inv'
<1> DEFINE live == wds \cap DOMAIN kernel
           s == SetToSeq(OfSelf("ignored", live))
           D == (1 .. lastWd) \ DOMAIN kernel'
<1>1. /\ kernel' = Without(kernel, live) /\ queue' = queue \o s /\ lastWd' = lastWd
  BY DEF Release
<1>2. live \subseteq 1 .. lastWd /\ lastWd \in Nat
  BY DEF Inv
<1>3. IsFiniteSet(live) /\ live \subseteq Nat
  BY <1>2, FiniteWds
<1>4. DOMAIN kernel' = DOMAIN kernel \ live
  BY <1>1 DEF Without, Restrict
<1>5. DOMAIN kernel' = DOMAIN kernel \ wds
  BY <1>4
<1> HIDE DEF live
<1>6. s \in Seq(Event) /\ \A i \in DOMAIN s : s[i].wd \in live
  BY <1>3, EventsOfSelf
<1>7. IgnoredIn(s, D)
  BY <1>2, <1>4, <1>6 DEF IgnoredIn
<1>8. IgnoredIn(queue, D)
  BY <1>4, DeadIgnored DEF Inv, IgnoredIn
<1> HIDE DEF s, D
<1>9. queue' \in Seq(Event) /\ IgnoredIn(queue', D)
  BY <1>1, <1>6, <1>7, <1>8, IgnoredInParts DEF Inv
<1>10. IgnoredIsDead'
  BY <1>1, <1>9 DEF IgnoredIsDead, IgnoredIn, D
<1>12. PathsLeadBack' /\ DOMAIN m_watchMap' = DOMAIN m_watchMap \ wds
  BY EntriesForgotten DEF Inv, Release
<1> QED BY <1>1, <1>5, <1>9, <1>10, <1>12 DEF Inv, KernelKnown

\* The calls of clients and the scans.
LEMMA CallInv ==
  ASSUME Inv, NEW th, ClientStep(th) \/ ScanStep(th)
  PROVE  Inv'
<1>1. ASSUME NEW r, AddWatch(th, r) \/ RemoveWatch(th, r) PROVE Inv'
  BY <1>1, Untouched DEF AddWatch, RemoveWatch, invVars, fsVars, kernelVars, tableVars
<1>2. CASE InsertRoot(th) \/ EraseRoot(th) \/ EraseWatch(th)
  BY <1>2, Untouched DEF InsertRoot, EraseRoot, EraseWatch, invVars, fsVars, kernelVars, tableVars
<1>3. CASE AddRoot(th)
  BY <1>3, DirectoryInv DEF AddRoot, fsVars
<1>4. CASE RemoveRoot(th)
  BY <1>4, ReleaseInv DEF RemoveRoot, fsVars
<1>5. CASE RemovePath(th)
  <2>1. renames' = renames
    BY <1>5 DEF RemovePath, fsVars
  <2>2. ASSUME NEW wds, Release(wds) PROVE Inv'
    BY <2>1, <2>2, ReleaseInv
  <2>3. CASE UNCHANGED <<kernelVars, m_watchMap, m_pathWatchMap>>
    BY <2>1, <2>3, Untouched DEF invVars
  <2> QED BY <1>5, <2>2, <2>3 DEF RemovePath
<1>6. CASE List(th) \/ ScanDone(th)
  BY <1>6, Untouched DEF List, ScanDone, invVars, fsVars, kernelVars, tableVars
<1>7. ASSUME NEW p, Visit(th, p) PROVE Inv'
  BY <1>7, DirectoryInv DEF Visit, fsVars
<1>8. ASSUME NEW p, PassOver(th, p) PROVE Inv'
  BY <1>8, Untouched DEF PassOver, invVars, fsVars, kernelVars, tableVars
<1> QED BY <1>1, <1>2, <1>3, <1>4, <1>5, <1>6, <1>7, <1>8 DEF ClientStep, ScanStep

\* The loop: an IN_IGNORED erases a descriptor the kernel has given up, so the ones it
\* still holds stay known.
LEMMA LoopInv == Inv /\ LoopStep => Inv'
<1> SUFFICES ASSUME Inv, LoopStep PROVE Inv'
  OBVIOUS
<1> DEFINE Dead == (1 .. lastWd) \ DOMAIN kernel
<1>1. IgnoredIn(queue, Dead) /\ queue \in Seq(Event)
  BY DeadIgnored DEF Inv
<1>2. ASSUME queue # << >>, queue' = Tail(queue), lastWd' = lastWd, kernel' = kernel
      PROVE  queue' \in Seq(Event) /\ IgnoredIsDead' /\ (Head(queue).kind = "ignored" => Head(queue).wd \in Dead)
  <2> HIDE DEF Dead
  <2>1. /\ queue' \in Seq(Event) /\ IgnoredIn(queue', Dead)
        /\ Head(queue).kind = "ignored" => Head(queue).wd \in Dead
    BY <1>1, <1>2, IgnoredInParts
  <2> QED BY <1>2, <2>1 DEF IgnoredIsDead, IgnoredIn, Dead
<1>3. CASE HandleIgnored
  <2> DEFINE wd == Head(queue).wd
  <2>1. /\ queue # << >> /\ Head(queue).kind = "ignored" /\ queue' = Tail(queue)
        /\ UNCHANGED <<renames, lastWd, kernel>>
        /\ Forget({wd})
    BY <1>3 DEF HandleIgnored, NextEvent, fsVars
  <2>2. queue' \in Seq(Event) /\ IgnoredIsDead' /\ wd \in Dead
    BY <1>2, <2>1
  <2> HIDE DEF wd
  <2>4. PathsLeadBack' /\ DOMAIN m_watchMap' = DOMAIN m_watchMap \ {wd}
    BY <2>1, EntriesForgotten DEF Inv
  <2> QED BY <2>1, <2>2, <2>4 DEF Inv, KernelKnown
<1>4. CASE HandleOther \/ HandleAppeared
  <2>1. /\ queue # << >> /\ queue' = Tail(queue)
        /\ UNCHANGED <<renames, lastWd, kernel, m_watchMap, m_pathWatchMap>>
    BY <1>4 DEF HandleOther, HandleAppeared, NextEvent, fsVars, tableVars
  <2>2. queue' \in Seq(Event) /\ IgnoredIsDead'
    BY <1>2, <2>1
  <2> QED BY <2>1, <2>2 DEF Inv, KernelKnown, PathsLeadBack
<1>5. CASE FindRoots
  BY <1>5, Untouched DEF FindRoots, invVars, fsVars, kernelVars, tableVars
<1> QED BY <1>3, <1>4, <1>5 DEF LoopStep

LEMMA NextInv == Inv /\ [Next]_vars => Inv'
<1> SUFFICES ASSUME Inv, [Next]_vars PROVE Inv'
  OBVIOUS
<1>1. CASE FsStep
  BY <1>1, FsStepInv
<1>2. CASE LoopStep
  BY <1>2, LoopInv
<1>3. ASSUME NEW th, ClientStep(th) \/ ScanStep(th) PROVE Inv'
  BY <1>3, CallInv
<1>4. CASE UNCHANGED vars
  BY <1>4, Untouched DEF vars, invVars, fsVars, kernelVars, tableVars
<1> QED BY <1>1, <1>2, <1>3, <1>4 DEF Next

-----------------------------------------------------------------------------

\* An event of a descriptor the kernel holds always finds its path: IN_IGNORED, which
\* is queued and handled later, and removeWatch, which overlaps scans, never erase the
\* entry of a descriptor in use.
THEOREM KernelIsKnown == Spec => []KernelKnown
<1>1. Inv => KernelKnown
  BY DEF Inv
<1> QED BY InitInv, NextInv, <1>1, PTL DEF Spec

\* No two descriptors have the same path, and removeWatch or IN_IGNORED of one leaves
\* the entries of all others in both maps.
THEOREM PathsAreUnique == Spec => []PathsLeadBack
<1>1. Inv => PathsLeadBack
  BY DEF Inv
<1> QED BY InitInv, NextInv, <1>1, PTL DEF Spec
===============================================================================
