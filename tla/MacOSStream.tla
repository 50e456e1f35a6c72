----------------------------- MODULE MacOSStream ------------------------------
(***************************************************************************)
(* The FSEvents engine of MacOSWatcher: one stream for all recursively     *)
(* watched directories.  The system collects what happens below them and   *)
(* hands it over in batches, on a thread of its own, which translates the  *)
(* flags of each path into events and queues them for the loop.  The flags *)
(* say what happened, not when: m_knownPaths, and whether the path exists  *)
(* now, tell the rest.                                                     *)
(* A stream that is stopped delivers no further batch, but a batch under   *)
(* way is finished.                                                        *)
(***************************************************************************)
EXTENDS Files

VARIABLES
    stream,                 \* number -> stream
    m_eventStream,          \* the number of the current stream, or 0
    m_fseventsWatchList,    \* the roots, in a sequence
    m_knownPaths            \* the paths that exist as far as the engine knows

streamVars == <<stream, m_eventStream, m_fseventsWatchList, m_knownPaths>>

NoStream == 0
Stream   == DOMAIN stream

StreamInit ==
    /\ stream = << >> /\ m_eventStream = NoStream
    /\ m_fseventsWatchList = << >> /\ m_knownPaths = {}

\* startFSEvents, once it has m_mutex, and stopFSEvents up to the assignment of nullptr.
StartFSEvents ==
    \/ /\ m_fseventsWatchList = << >>
       /\ UNCHANGED <<stream, m_eventStream>>
    \/ /\ m_fseventsWatchList # << >>
       /\ m_eventStream' = Cardinality(Stream) + 1
       /\ stream' = With(stream, m_eventStream',
            [roots |-> Range(m_fseventsWatchList), live |-> TRUE, buffer |-> << >>,
             at |-> "idle", todo |-> << >>, sources |-> << >>, batch |-> << >>])

StopStream ==
    stream' = IF m_eventStream = NoStream THEN stream
              ELSE [stream EXCEPT ![m_eventStream].live = FALSE, ![m_eventStream].buffer = << >>]

\* What a stream that is stopped has not handed over is lost, what it has may come late.
Lost ==
    UNION {LET at == {r.path : r \in Range(stream[s].buffer \o stream[s].todo)} \cup Range(stream[s].sources)
           IN  {p \in Path : \E q \in at : Under(q, p)} : s \in {m_eventStream} \cap Stream}

OnTheWay == {r.path : r \in UNION {Range(stream[s].buffer \o stream[s].todo) : s \in Stream}}

\* What happens to a path is buffered if the path is below a root; a change has one
\* record, or two.
Heard(s, records, k) ==
    IF k \in DOMAIN records /\ \E root \in stream[s].roots : Under(root, records[k].path)
    THEN <<records[k]>> ELSE << >>

Buffered(records) ==
    [s \in Stream |->
       IF stream[s].live
       THEN [stream[s] EXCEPT !.buffer = @ \o Heard(s, records, 1) \o Heard(s, records, 2)]
       ELSE stream[s]]

\* The records of one path may be handed over as one, at the place of the last of them.
Merged(records) ==
    LET last     == {i \in DOMAIN records : \A j \in DOMAIN records : j > i => records[j].path # records[i].path}
        flags(p) == UNION {records[j].flags : j \in {j \in DOMAIN records : records[j].path = p}}
    IN  {[k \in DOMAIN at |-> [path |-> records[at[k]].path, flags |-> flags(records[at[k]].path)]] :
           at \in {at \in [1 .. Cardinality(last) -> last] : \A j, k \in DOMAIN at : j < k => at[j] < at[k]}}

Deliver(s) ==
    /\ stream[s].live /\ stream[s].at = "idle" /\ stream[s].buffer # << >>
    /\ \E n \in DOMAIN stream[s].buffer :
         LET records == SubSeq(stream[s].buffer, 1, n) IN
         \E todo \in {records} \cup Merged(records) :
            stream' = [stream EXCEPT ![s].at = "process", ![s].todo = todo,
                                     ![s].buffer = SubSeq(@, n + 1, Len(@))]
    /\ UNCHANGED <<m_eventStream, m_fseventsWatchList, m_knownPaths>>

-----------------------------------------------------------------------------
(* processFSEvents, one record per step: the flags are tested in this order. *)

IsNext(s, flag, without) ==
    /\ stream[s].at = "process" /\ stream[s].todo # << >>
    /\ flag \in Head(stream[s].todo).flags
    /\ Head(stream[s].todo).flags \cap without = {}

Advance(s, events, sources) ==
    /\ stream' = [stream EXCEPT ![s].todo = Tail(@), ![s].batch = @ \o events, ![s].sources = sources]
    /\ UNCHANGED <<m_eventStream, m_fseventsWatchList>>

\* A directory that goes takes what is known below it along, the longest path first.
BugDeletions(p) == {<<FileEvent("delete", p)>>}    \* mutant: the directory alone

Deletions(p) ==
    LET below  == {q \in m_knownPaths \ {p} : p \in Directory /\ Under(p, q)}
        orders == {f \in [1 .. Cardinality(below) -> below] :
                     IsInjective(f) /\ \A j, k \in DOMAIN f : j < k => ~Under(f[j], f[k])}
    IN  {[k \in DOMAIN f |-> FileEvent("delete", f[k])] \o <<FileEvent("delete", p)>> : f \in orders}

Forgotten(p) == {q \in m_knownPaths : Under(p, q)}

Removed(s) ==
    /\ IsNext(s, "removed", {})
    /\ LET p == Head(stream[s].todo).path IN
         /\ \E events \in Deletions(p) : Advance(s, events, stream[s].sources)
         /\ m_knownPaths' = m_knownPaths \ Forgotten(p)

\* A renamed path that does not exist waits for the one it was renamed to.
RenamedAway(s) ==
    /\ IsNext(s, "renamed", {"removed"})
    /\ LET p == Head(stream[s].todo).path IN
         /\ p \notin DOMAIN fs
         /\ Advance(s, << >>, Append(stream[s].sources, p))
    /\ UNCHANGED m_knownPaths

\* Where in list the first member of S is.
FirstIn(list, S) == {j \in DOMAIN list : list[j] \in S /\ \A k \in 1 .. j - 1 : list[k] \notin S}

\* The first path of the same type that waits is taken for the source.
Source(s, p) == FirstIn(stream[s].sources, {q \in Path : SameType(p, q)})

RenamedHere(s) ==
    /\ IsNext(s, "renamed", {"removed"})
    /\ LET p == Head(stream[s].todo).path IN
         /\ p \in DOMAIN fs
         /\ \/ /\ p \notin m_knownPaths
               /\ \E j \in Source(s, p) : LET old == stream[s].sources[j] IN
                    /\ Advance(s, <<RenameEvent(p, old)>>, RemoveAt(stream[s].sources, j))
                    /\ m_knownPaths' = (m_knownPaths \ Forgotten(old)) \cup {p}
            \/ /\ p \notin m_knownPaths /\ Source(s, p) = {}
               /\ Advance(s, <<FileEvent("create", p)>>, stream[s].sources)
               /\ m_knownPaths' = m_knownPaths \cup {p}
            \/ /\ p \in m_knownPaths
               /\ Advance(s, <<FileEvent("rename", p)>>, stream[s].sources)
               /\ UNCHANGED m_knownPaths

\* A modification of a directory is not reported.
Modification(p) == IF p \in Directory THEN << >> ELSE <<FileEvent("modify", p)>>

Created(s) ==
    /\ IsNext(s, "created", {"removed", "renamed"})
    /\ LET p == Head(stream[s].todo).path IN
         /\ Advance(s, IF p \in m_knownPaths THEN Modification(p) ELSE <<FileEvent("create", p)>>,
                    stream[s].sources)
         /\ m_knownPaths' = m_knownPaths \cup {p}

Modified(s) ==
    /\ IsNext(s, "modified", {"removed", "renamed", "created"})
    /\ LET p == Head(stream[s].todo).path IN
         /\ Advance(s, Modification(p), stream[s].sources)
         /\ m_knownPaths' = m_knownPaths \cup {p}

\* Paths that were not matched moved out of sight.
Leftover(s) ==
    /\ stream[s].at = "process" /\ stream[s].todo = << >> /\ stream[s].sources # << >>
    /\ LET p == Head(stream[s].sources) IN
         /\ \E events \in Deletions(p) :
              stream' = [stream EXCEPT ![s].sources = Tail(@), ![s].batch = @ \o events]
         /\ m_knownPaths' = m_knownPaths \ Forgotten(p)
    /\ UNCHANGED <<m_eventStream, m_fseventsWatchList>>

Record(s) == Removed(s) \/ RenamedAway(s) \/ RenamedHere(s) \/ Created(s) \/ Modified(s) \/ Leftover(s)

\* The end of processFSEvents: the batch is complete.
Complete(s) == stream[s].at = "process" /\ stream[s].todo = << >> /\ stream[s].sources = << >>

-----------------------------------------------------------------------------

\* The shape of the FSEvents streams and of what the callback of each is doing.
StreamTypeOK ==
    /\ m_eventStream \in Stream \cup {NoStream}
    /\ m_fseventsWatchList \in Seq(Directory)
    /\ m_knownPaths \subseteq Path
    /\ \A s \in Stream :
          /\ stream[s].roots \subseteq Directory /\ stream[s].live \in BOOLEAN
          /\ stream[s].at \in {"idle", "process", "wake"}
          /\ stream[s].sources \in Seq(Path) /\ stream[s].batch \in Seq(FileEvents)
          /\ stream[s].live \/ stream[s].buffer = << >>
===============================================================================
