-------------------------- MODULE MacOSWatcherProofs --------------------------
(***************************************************************************)
(* Proofs about MacOSWatcher, for any files, threads, calls, bounds and    *)
(* number of descriptors.  First the wakeups, with as many starts as one   *)
(* likes: the loop sleeps through neither a stop nor events that are       *)
(* queued.  Then the descriptors: the tables agree about whose each is,    *)
(* and none is forgotten, although items are removed and displaced while   *)
(* other threads are in the middle of them.                                *)
(***************************************************************************)
EXTENDS MacOSWatcher, FiniteSetTheorems, TLAPS

LoopField == {"at", "events", "item", "notes", "batch", "leaving"}

StreamField == {"roots", "live", "buffer", "at", "todo", "sources", "batch"}

\* The loop, the calls and the streams are records all along.
StreamShapes ==
    /\ lp = [f \in LoopField |-> lp[f]]
    /\ call = [th \in Thread |-> call[th]]
    /\ \E n \in Nat : Stream = 1 .. n
    /\ \A s \in Stream : stream[s] = [f \in StreamField |-> stream[s][f]]

\* Queued events are announced, except while the loop is on its way to take them: it may
\* have consumed the trigger when it came from kevent.
Announced ==
    m_pendingEvents # << >> =>
        \/ trigger
        \/ \E s \in Stream : stream[s].at = "wake"
        \/ lp.at \in {"handle", "scan", "sync", "swap"}

WakeInv == StreamShapes /\ Announced /\ StopIsHeard

\* What a step leaves of the streams that matters here.
StreamsStay ==
    /\ Stream \subseteq DOMAIN stream'
    /\ \A s \in Stream : stream'[s].at = stream[s].at
StreamsShaped ==
    /\ \E n \in Nat : DOMAIN stream' = 1 .. n
    /\ \A s \in DOMAIN stream' : stream'[s] = [f \in StreamField |-> stream'[s][f]]

-----------------------------------------------------------------------------
(* The streams.                                                             *)

LEMMA StreamUnchanged ==
  ASSUME StreamShapes, UNCHANGED stream
  PROVE  StreamsStay /\ StreamsShaped
BY DEF StreamShapes, StreamsStay, StreamsShaped, Stream

LEMMA StreamBuffers ==
  ASSUME StreamShapes, NEW records, stream' = Buffered(records)
  PROVE  StreamsStay /\ StreamsShaped
<1> DEFINE new(s) == stream[s].buffer \o Heard(s, records, 1) \o Heard(s, records, 2)
<1>1. stream' = [s \in Stream |-> IF stream[s].live THEN [stream[s] EXCEPT !.buffer = new(s)] ELSE stream[s]]
  BY DEF Buffered
<1> HIDE DEF new
<1>2. DOMAIN stream' = Stream
  BY <1>1
<1>3. ASSUME NEW s \in Stream
      PROVE  /\ stream'[s].at = stream[s].at
             /\ stream'[s] = [f \in StreamField |-> stream'[s][f]]
  <2> DEFINE v == [stream[s] EXCEPT !.buffer = new(s)]
  <2>1. stream[s] = [f \in StreamField |-> stream[s][f]]
    BY DEF StreamShapes
  <2>2. stream'[s] = stream[s] \/ stream'[s] = v
    BY <1>1
  <2>3. v.at = stream[s].at /\ v = [f \in StreamField |-> v[f]]
    BY <2>1 DEF StreamField
  <2> HIDE DEF v
  <2> QED BY <2>1, <2>2, <2>3
<1> QED BY <1>2, <1>3 DEF StreamShapes, StreamsStay, StreamsShaped

LEMMA StreamStops ==
  ASSUME StreamShapes, StopStream
  PROVE  StreamsStay /\ StreamsShaped
<1>1. DOMAIN stream' = Stream
  BY DEF StopStream, Stream
<1>2. ASSUME NEW s \in Stream
      PROVE  /\ stream'[s].at = stream[s].at
             /\ stream'[s] = [f \in StreamField |-> stream'[s][f]]
  BY DEF StreamShapes, StreamField, StopStream, Stream
<1> QED BY <1>1, <1>2 DEF StreamShapes, StreamsStay, StreamsShaped

LEMMA StreamStarts ==
  ASSUME StreamShapes, StartFSEvents
  PROVE  StreamsStay /\ StreamsShaped
<1>1. CASE UNCHANGED stream
  BY <1>1, StreamUnchanged
<1>2. CASE m_fseventsWatchList # << >> /\ ~UNCHANGED stream
  <2>1. PICK n \in Nat : Stream = 1 .. n
    BY DEF StreamShapes
  <2>2. Cardinality(Stream) = n
    BY <2>1, FS_Interval
  <2>3. PICK r : /\ stream' = With(stream, n + 1, r)
                 /\ r = [f \in StreamField |-> r[f]]
    BY <1>2, <2>2 DEF StartFSEvents, StreamField
  <2>4. DOMAIN stream' = 1 .. (n + 1)
    BY <2>1, <2>3 DEF With, Stream
  <2>5. \A s \in Stream : stream'[s] = stream[s]
    BY <2>1, <2>3 DEF With, Stream
  <2>6. stream'[n + 1] = r
    BY <2>1, <2>3 DEF With
  <2>7. \A s \in DOMAIN stream' : s \in Stream \/ s = n + 1
    BY <2>1, <2>4
  <2>8. \E m \in Nat : DOMAIN stream' = 1 .. m
    BY <2>4
  <2>9. Stream \subseteq DOMAIN stream'
    BY <2>1, <2>4
  <2> QED BY <2>3, <2>5, <2>6, <2>7, <2>8, <2>9 DEF StreamShapes, StreamsStay, StreamsShaped
<1> QED BY <1>1, <1>2 DEF StartFSEvents

-----------------------------------------------------------------------------
(* Steps that leave the loop, its queue and its trigger alone.              *)

LEMMA LoopLeftAlone ==
  ASSUME WakeInv, StreamsStay, StreamsShaped, UNCHANGED <<m_pendingEvents, trigger, lp>>
  PROVE  /\ Announced' 
         /\ call' = [th \in Thread |-> call'[th]] => StreamShapes'
BY DEF WakeInv, StreamShapes, Announced, StreamsStay, StreamsShaped, Stream

LEMMA FilesKeepWake == ASSUME WakeInv, FsStep PROVE WakeInv'
<1>1. PICK notes, records, unnoticed : Changes(notes, records, unnoticed)
  BY DEF FsStep, Create, Write, Unlink, MoveOut, Rename
<1>2. /\ stream' = Buffered(records)
      /\ UNCHANGED <<m_running, m_pendingEvents, trigger, lp, call>>
  BY <1>1 DEF Changes, loopVars
<1>3. StreamsStay /\ StreamsShaped
  BY <1>2, StreamBuffers DEF WakeInv
<1>4. StopIsHeard'
  BY <1>2 DEF WakeInv, StopIsHeard
<1> QED BY <1>2, <1>3, <1>4, LoopLeftAlone DEF WakeInv, StreamShapes

-----------------------------------------------------------------------------
(* The calls.                                                               *)

Stopping == {"stopStream", "clearStream", "wakeup"}

\* A call goes on; if it was a stop, it still has to wake the loop.
LEMMA CallGoesOn ==
  ASSUME WakeInv, NEW th \in Thread, NEW c, Becomes(th, c), call[th].at \in Stopping => c.at \in Stopping,
         StreamsStay, StreamsShaped, UNCHANGED loopVars
  PROVE  WakeInv'
<1>1. call' = [call EXCEPT ![th] = c] /\ UNCHANGED <<m_running, m_pendingEvents, trigger, lp>>
  BY DEF Becomes, loopVars
<1>2. call' = [other \in Thread |-> call'[other]]
  BY <1>1 DEF WakeInv, StreamShapes
<1>3. call'[th] = c /\ \A other \in Thread \ {th} : call'[other] = call[other]
  BY <1>1 DEF WakeInv, StreamShapes
<1>4. StopIsHeard'
  BY <1>1, <1>3 DEF WakeInv, StopIsHeard, Stopping
<1> QED BY <1>1, <1>2, <1>4, LoopLeftAlone DEF WakeInv

LEMMA StopCalled == ASSUME WakeInv, NEW th \in Thread, Stop(th) PROVE WakeInv'
<1>1. /\ call' = [call EXCEPT ![th] = [at |-> "stopStream"]]
      /\ UNCHANGED <<m_pendingEvents, trigger, lp, stream>>
  BY DEF Stop, Becomes, streamVars
<1>2. call' = [other \in Thread |-> call'[other]] /\ call'[th].at = "stopStream"
  BY <1>1 DEF WakeInv, StreamShapes
<1>3. StopIsHeard'
  BY <1>2 DEF StopIsHeard
<1> QED BY <1>1, <1>2, <1>3, StreamUnchanged, LoopLeftAlone DEF WakeInv

LEMMA WokenUp == ASSUME WakeInv, NEW th \in Thread, Wakeup(th) PROVE WakeInv'
<1>1. /\ call' = [call EXCEPT ![th] = Idle] /\ trigger' = TRUE
      /\ UNCHANGED <<m_running, m_pendingEvents, lp, stream>>
  BY DEF Wakeup, Becomes, streamVars
<1>2. StreamShapes'
  BY <1>1 DEF WakeInv, StreamShapes, Stream
<1> QED BY <1>1, <1>2 DEF WakeInv, Announced, StopIsHeard

LEMMA CallKeepsWake == ASSUME WakeInv, NEW th \in Thread, CallStep(th) PROVE WakeInv'
<1>1. CASE \E r \in Root : AddWatch(th, r) \/ RemoveWatch(th, r)
  <2>1. PICK c : Becomes(th, c)
    BY <1>1 DEF AddWatch, RemoveWatch
  <2>2. call[th].at = "idle" /\ UNCHANGED <<stream, loopVars>>
    BY <1>1 DEF AddWatch, RemoveWatch, MayCall, Idle, streamVars
  <2> QED BY <2>1, <2>2, StreamUnchanged, CallGoesOn DEF WakeInv, Stopping
<1>2. CASE AddFails(th) \/ ScanKqItem(th) \/ InsertKqItem(th) \/ RemoveItem(th)
  <2>1. PICK c : Becomes(th, c)
    BY <1>2 DEF AddFails, ScanKqItem, InsertKqItem, RemoveItem
  <2>2. call[th].at \in {"add", "scanned", "remove"} /\ UNCHANGED <<stream, loopVars>>
    BY <1>2 DEF AddFails, ScanKqItem, InsertKqItem, RemoveItem, streamVars
  <2> QED BY <2>1, <2>2, StreamUnchanged, CallGoesOn DEF WakeInv, Stopping
<1>3. CASE AddTree(th) \/ RemoveTree(th)
  <2>1. PICK c : Becomes(th, c)
    BY <1>3 DEF AddTree, RemoveTree, RestartStream
  <2>2. call[th].at \in {"add", "remove"} /\ UNCHANGED loopVars
    BY <1>3 DEF AddTree, RemoveTree
  <2>3. StopStream \/ UNCHANGED stream
    BY <1>3 DEF AddTree, RemoveTree, RestartStream
  <2>4. StreamsStay /\ StreamsShaped
    BY <2>3, StreamStops, StreamUnchanged DEF WakeInv
  <2> QED BY <2>1, <2>2, <2>4, CallGoesOn DEF Stopping
<1>4. CASE StopFSEvents(th)
  <2>1. PICK at \in Stopping : Becomes(th, [at |-> at])
    BY <1>4 DEF StopFSEvents, Stopping
  <2>2. StreamsStay /\ StreamsShaped /\ UNCHANGED loopVars
    BY <1>4, StreamStops DEF StopFSEvents, WakeInv
  <2> QED BY <2>1, <2>2, CallGoesOn
<1>5. CASE ClearStream(th)
  <2>1. Becomes(th, [at |-> "wakeup"]) /\ UNCHANGED <<stream, loopVars>>
    BY <1>5 DEF ClearStream
  <2> QED BY <2>1, StreamUnchanged, CallGoesOn DEF WakeInv, Stopping
<1> QED BY <1>1, <1>2, <1>3, <1>4, <1>5, StopCalled, WokenUp DEF CallStep

-----------------------------------------------------------------------------
(* The thread of FSEvents.                                                  *)

\* One stream changes.
LEMMA StreamMoves ==
  ASSUME StreamShapes, NEW s \in Stream, NEW r, r = [f \in StreamField |-> r[f]],
         stream' = [stream EXCEPT ![s] = r]
  PROVE  /\ StreamsShaped /\ Stream' = Stream
         /\ stream'[s] = r /\ \A other \in Stream \ {s} : stream'[other] = stream[other]
BY DEF StreamShapes, StreamsShaped, Stream

\* The events of a batch are queued; if there are none, nothing changes for the loop.
LEMMA BatchPushed == ASSUME WakeInv, NEW s \in Stream, PushEvents(s) PROVE WakeInv'
<1> DEFINE r == [stream[s] EXCEPT !.at = IF stream[s].batch = << >> THEN "idle" ELSE "wake", !.batch = << >>]
<1>1. /\ stream' = [stream EXCEPT ![s] = r] /\ stream[s].at = "process"
      /\ m_pendingEvents' = m_pendingEvents \o stream[s].batch
      /\ UNCHANGED <<m_running, trigger, lp, call>>
  BY DEF PushEvents, Complete
<1>2. /\ r = [f \in StreamField |-> r[f]]
      /\ r.at = IF stream[s].batch = << >> THEN "idle" ELSE "wake"
  BY DEF WakeInv, StreamShapes, StreamField
<1> HIDE DEF r
<1>3. /\ StreamsShaped /\ Stream' = Stream
      /\ stream'[s] = r /\ \A other \in Stream \ {s} : stream'[other] = stream[other]
  BY <1>1, <1>2, StreamMoves DEF WakeInv
<1>4. Announced'
  <2>1. CASE stream[s].batch # << >>
    BY <1>2, <1>3, <2>1 DEF Announced
  <2>2. CASE stream[s].batch = << >>
    <3>1. m_pendingEvents' # << >> => m_pendingEvents # << >>
      BY <1>1, <2>2
    <3>2. \A other \in Stream : stream[other].at = "wake" => other # s
      BY <1>1
    <3> QED BY <1>1, <1>3, <3>1, <3>2 DEF WakeInv, Announced
  <2> QED BY <2>1, <2>2
<1>5. StreamShapes' /\ StopIsHeard'
  BY <1>1, <1>3 DEF WakeInv, StreamShapes, StreamsShaped, Stream, StopIsHeard
<1> QED BY <1>4, <1>5 DEF WakeInv

LEMMA LoopWoken == ASSUME WakeInv, NEW s \in Stream, WakeLoop(s) PROVE WakeInv'
<1>1. stream' = [stream EXCEPT ![s] = [stream[s] EXCEPT !.at = "idle"]]
  BY DEF WakeLoop
<1>2. [stream[s] EXCEPT !.at = "idle"] = [f \in StreamField |-> [stream[s] EXCEPT !.at = "idle"][f]]
  BY DEF WakeInv, StreamShapes, StreamField
<1>3. StreamsShaped
  BY <1>1, <1>2, StreamMoves DEF WakeInv
<1> QED BY <1>3 DEF WakeLoop, WakeInv, StreamShapes, StreamsShaped, Stream, Announced, StopIsHeard

\* A batch arrives, or the next record of it is translated.
LEMMA RecordHandled ==
  ASSUME WakeInv, NEW s \in Stream, Deliver(s) \/ Record(s), UNCHANGED <<loopVars, call>>
  PROVE  WakeInv'
<1>1. /\ DOMAIN stream' = Stream /\ \A other \in Stream \ {s} : stream'[other] = stream[other]
      /\ stream'[s] = [f \in StreamField |-> stream'[s][f]]
      /\ stream[s].at = "wake" => stream'[s].at = "wake"
  <2>1. CASE Deliver(s)
    <3>1. PICK todo, n :
            stream' = [stream EXCEPT ![s].at = "process", ![s].todo = todo, ![s].buffer = SubSeq(@, n + 1, Len(@))]
      BY <2>1 DEF Deliver
    <3>2. stream[s].at = "idle"
      BY <2>1 DEF Deliver
    <3> QED BY <3>1, <3>2 DEF WakeInv, StreamShapes, StreamField, Stream
  <2>2. CASE Leftover(s)
    <3>1. PICK batch : stream' = [stream EXCEPT ![s].sources = Tail(@), ![s].batch = @ \o batch]
      BY <2>2 DEF Leftover
    <3> QED BY <3>1 DEF WakeInv, StreamShapes, StreamField, Stream
  <2>3. CASE \E events, sources : Advance(s, events, sources)
    <3>1. PICK events, sources :
            stream' = [stream EXCEPT ![s].todo = Tail(@), ![s].batch = @ \o events, ![s].sources = sources]
      BY <2>3 DEF Advance
    <3> QED BY <3>1 DEF WakeInv, StreamShapes, StreamField, Stream
  <2>4. Record(s) => Leftover(s) \/ \E events, sources : Advance(s, events, sources)
    <3>1. CASE RenamedHere(s)
      BY <3>1 DEF RenamedHere
    <3>2. CASE Removed(s) \/ RenamedAway(s) \/ Created(s) \/ Modified(s)
      BY <3>2 DEF Removed, RenamedAway, Created, Modified
    <3> QED BY <3>1, <3>2 DEF Record
  <2> QED BY <2>1, <2>2, <2>3, <2>4
<1>2. UNCHANGED <<m_running, m_pendingEvents, trigger, lp, call>>
  BY DEF loopVars
<1> QED BY <1>1, <1>2 DEF WakeInv, StreamShapes, Stream, Announced, StopIsHeard

LEMMA StreamKeepsWake == ASSUME WakeInv, StreamStep PROVE WakeInv'
BY BatchPushed, LoopWoken, RecordHandled DEF StreamStep

-----------------------------------------------------------------------------
(* start and watchLoop.                                                     *)

\* The loop moves on, but not to sleep.
LEMMA LoopMovesOn ==
  ASSUME WakeInv, StreamsStay, StreamsShaped, UNCHANGED call,
         lp' = [f \in LoopField |-> lp'[f]], lp'.at # "kevent", Announced'
  PROVE  WakeInv'
BY DEF WakeInv, StreamShapes, StreamsShaped, Stream, StopIsHeard

\* Events and trigger stay, and the loop is not where it takes the events.
LEMMA StillAnnounced ==
  ASSUME WakeInv, StreamsStay, UNCHANGED <<m_pendingEvents, trigger>>,
         lp.at \notin {"handle", "scan", "sync", "swap"} \/ lp'.at \in {"handle", "scan", "sync", "swap"}
  PROVE  Announced'
BY DEF WakeInv, Announced, StreamsStay, Stream

LEMMA LoopKeepsWake == ASSUME WakeInv, LoopStep PROVE WakeInv'
<1>0. lp = [f \in LoopField |-> lp[f]]
  BY DEF WakeInv, StreamShapes
<1>1. CASE Start \/ CallbackReturn
  <2>1. /\ lp.at \in {"out", "callback"} /\ UNCHANGED <<stream, m_pendingEvents, trigger, call>>
        /\ \E next \in {"begin", "dispatch"} : lp' = [lp EXCEPT !.at = next]
    BY <1>1 DEF Start, CallbackReturn, LoopIs, streamVars
  <2>2. lp' = [f \in LoopField |-> lp'[f]] /\ lp'.at # "kevent"
    BY <1>0, <2>1 DEF LoopField
  <2> QED BY <2>1, <2>2, StreamUnchanged, StillAnnounced, LoopMovesOn DEF WakeInv
<1>2. CASE Begin
  <2>1. /\ lp.at = "begin" /\ lp' = [lp EXCEPT !.at = "while"]
        /\ StartFSEvents /\ UNCHANGED <<m_pendingEvents, trigger, call>>
    BY <1>2 DEF Begin, LoopIs
  <2>2. lp' = [f \in LoopField |-> lp'[f]] /\ lp'.at = "while"
    BY <1>0, <2>1 DEF LoopField
  <2>3. StreamsStay /\ StreamsShaped
    BY <2>1, StreamStarts DEF WakeInv
  <2>4. Announced'
    BY <2>1, <2>3, StillAnnounced DEF WakeInv
  <2> QED BY <2>1, <2>2, <2>3, <2>4, LoopMovesOn
<1>3. CASE While
  <2>1. /\ lp.at = "while" /\ UNCHANGED <<stream, m_running, m_pendingEvents, trigger, call>>
        /\ lp' = [lp EXCEPT !.at = IF m_running THEN "kevent" ELSE "swap", !.leaving = ~m_running]
    BY <1>3 DEF While, streamVars
  <2>2. /\ lp' = [f \in LoopField |-> lp'[f]]
        /\ lp'.at = IF m_running THEN "kevent" ELSE "swap"
    BY <1>0, <2>1 DEF LoopField
  <2>3. Announced'
    BY <2>1, <2>2, StreamUnchanged, StillAnnounced DEF WakeInv
  <2>4. StreamShapes'
    BY <2>1, <2>2 DEF WakeInv, StreamShapes, Stream
  <2>5. StopIsHeard'
    BY <2>1, <2>2 DEF StopIsHeard
  <2> QED BY <2>3, <2>4, <2>5 DEF WakeInv
<1>4. CASE Kevent
  <2>1. CASE LoopIs("kevent", "while") /\ UNCHANGED <<kernel, trigger>>
    <3>1. /\ lp.at = "kevent" /\ lp' = [lp EXCEPT !.at = "while"]
          /\ UNCHANGED <<stream, m_pendingEvents, trigger, call>>
      BY <1>4, <2>1 DEF Kevent, LoopIs, streamVars
    <3>2. lp' = [f \in LoopField |-> lp'[f]] /\ lp'.at = "while"
      BY <1>0, <3>1 DEF LoopField
    <3> QED BY <3>1, <3>2, StreamUnchanged, StillAnnounced, LoopMovesOn DEF WakeInv
  <2>2. CASE \E events : lp' = [lp EXCEPT !.at = "handle", !.events = events]
    <3>1. UNCHANGED <<stream, call>>
      BY <1>4 DEF Kevent, streamVars
    <3>2. lp' = [f \in LoopField |-> lp'[f]] /\ lp'.at = "handle"
      BY <1>0, <2>2 DEF LoopField
    <3> QED BY <3>1, <3>2, StreamUnchanged, LoopMovesOn DEF WakeInv, Announced
  <2> QED BY <1>4, <2>1, <2>2 DEF Kevent
<1>5. CASE HandleFile \/ HandleDirectory \/ ScanDirectory \/ SyncDirectory
  <2>1. UNCHANGED <<stream, call>>
    BY <1>5 DEF HandleFile, HandleDirectory, ScanDirectory, SyncDirectory, streamVars
  <2>2. lp' = [f \in LoopField |-> lp'[f]] /\ lp'.at \in {"handle", "scan", "sync"}
    <3>1. CASE HandleFile
      <4>1. lp.at = "handle" /\ \E events : lp' = [lp EXCEPT !.events = events]
        BY <3>1 DEF HandleFile
      <4> QED BY <1>0, <4>1 DEF LoopField
    <3>2. CASE HandleDirectory
      <4>1. \E events, i, notes : lp' = [lp EXCEPT !.at = "scan", !.events = events, !.item = i, !.notes = notes]
        BY <3>2 DEF HandleDirectory
      <4> QED BY <1>0, <4>1 DEF LoopField
    <3>3. CASE ScanDirectory
      <4>1. \E batch : lp' = [lp EXCEPT !.at = "sync", !.batch = batch]
        BY <3>3 DEF ScanDirectory
      <4> QED BY <1>0, <4>1 DEF LoopField
    <3>4. CASE SyncDirectory
      <4>1. lp' = [lp EXCEPT !.at = "handle", !.item = 0, !.notes = {}, !.batch = << >>]
        BY <3>4 DEF SyncDirectory
      <4> QED BY <1>0, <4>1 DEF LoopField
    <3> QED BY <1>5, <3>1, <3>2, <3>3, <3>4
  <2> QED BY <2>1, <2>2, StreamUnchanged, LoopMovesOn DEF WakeInv, Announced
<1>6. CASE SwapPending
  <2>1. /\ m_pendingEvents' = << >> /\ UNCHANGED <<stream, call>>
        /\ lp' = [lp EXCEPT !.at = "dispatch", !.batch = m_pendingEvents]
    BY <1>6 DEF SwapPending, streamVars
  <2>2. lp' = [f \in LoopField |-> lp'[f]] /\ lp'.at = "dispatch"
    BY <1>0, <2>1 DEF LoopField
  <2> QED BY <2>1, <2>2, StreamUnchanged, LoopMovesOn DEF WakeInv, Announced
<1>7. CASE Dispatch \/ Dispatched
  <2>1. lp.at = "dispatch" /\ UNCHANGED <<stream, m_pendingEvents, trigger, call>>
    BY <1>7 DEF Dispatch, Dispatched, streamVars
  <2>2. lp' = [f \in LoopField |-> lp'[f]] /\ lp'.at \in {"callback", "out", "while"}
    <3>1. CASE Dispatch
      <4>1. lp' = [lp EXCEPT !.at = "callback", !.batch = Tail(@)]
        BY <3>1 DEF Dispatch
      <4> QED BY <1>0, <4>1 DEF LoopField
    <3>2. CASE Dispatched
      <4>1. lp' = Out \/ lp' = [lp EXCEPT !.at = "while"]
        BY <3>2 DEF Dispatched
      <4> QED BY <1>0, <4>1 DEF LoopField, Out
    <3> QED BY <1>7, <3>1, <3>2
  <2> QED BY <2>1, <2>2, StreamUnchanged, StillAnnounced, LoopMovesOn DEF WakeInv
<1> QED BY <1>1, <1>2, <1>3, <1>4, <1>5, <1>6, <1>7 DEF LoopStep

-----------------------------------------------------------------------------

LEMMA WakeAtFirst == Init => WakeInv
<1> SUFFICES ASSUME Init PROVE WakeInv
  OBVIOUS
<1>1. /\ stream = << >> /\ m_pendingEvents = << >> /\ lp = Out /\ call = [th \in Thread |-> Idle]
  BY DEF Init, StreamInit
<1>2. Stream = 1 .. 0
  BY <1>1 DEF Stream
<1>3. lp = [f \in LoopField |-> lp[f]] /\ lp.at = "out"
  BY <1>1 DEF LoopField, Out
<1>4. call = [th \in Thread |-> call[th]] /\ \A s \in Stream : FALSE
  BY <1>1, <1>2
<1>5. StreamShapes
  <2>1. \E n \in Nat : Stream = 1 .. n
    BY <1>2, 0 \in Nat
  <2>2. \A s \in Stream : stream[s] = [f \in StreamField |-> stream[s][f]]
    BY <1>4
  <2> QED BY <1>3, <1>4, <2>1, <2>2 DEF StreamShapes
<1>6. Announced /\ StopIsHeard
  BY <1>1, <1>3 DEF Announced, StopIsHeard
<1> QED BY <1>5, <1>6 DEF WakeInv

LEMMA WakeInductive == WakeInv /\ [Next]_vars => WakeInv'
<1> SUFFICES ASSUME WakeInv, [Next]_vars PROVE WakeInv'
  OBVIOUS
<1>1. CASE UNCHANGED vars
  <2>1. UNCHANGED <<stream, m_running, m_pendingEvents, trigger, lp, call>>
    BY <1>1 DEF vars, streamVars, loopVars
  <2> QED BY <2>1 DEF WakeInv, StreamShapes, Stream, Announced, StopIsHeard
<1> QED BY <1>1, FilesKeepWake, CallKeepsWake, StreamKeepsWake, LoopKeepsWake DEF Next

LEMMA WakeInvariant == Spec => []WakeInv
BY WakeAtFirst, WakeInductive, PTL DEF Spec

\* The loop never sleeps through a stop: until the user event is triggered, the call that
\* will trigger it is under way.
THEOREM StopWakes == Spec => []StopIsHeard
<1>1. WakeInv => StopIsHeard
  BY DEF WakeInv
<1> QED BY <1>1, WakeInvariant, PTL

\* The loop never sleeps on queued events, with any number of streams, live or stopped.
THEOREM PendingWakes == Spec => []PendingIsHeard
<1>1. WakeInv => PendingIsHeard
  BY DEF WakeInv, Announced, PendingIsHeard
<1> QED BY <1>1, WakeInvariant, PTL

-----------------------------------------------------------------------------
(* The descriptors.                                                         *)

ItemField == {"path", "fd", "childFileFds", "children"}

\* The items, the calls and the loop are records all along.
Shapes ==
    /\ lp = [f \in LoopField |-> lp[f]]
    /\ call = [th \in Thread |-> call[th]]
    /\ \E n \in Nat : Item = 1 .. n
    /\ \A i \in Item : item[i] = [f \in ItemField |-> item[i][f]]

\* A descriptor in fdMap is the one its item has for the child, or its own; and what an
\* item has is in fdMap, under the item and nothing else.
OwnedBy(fd, it, childMap) ==
    IF fd \in DOMAIN childMap
    THEN childMap[fd] \in DOMAIN it.childFileFds /\ it.childFileFds[childMap[fd]] = fd
    ELSE it.fd = fd

Holds(i, it, fdMap, childMap) ==
    /\ it.fd # 0 => it.fd \in DOMAIN fdMap \ DOMAIN childMap /\ fdMap[it.fd] = i
    /\ \A p \in DOMAIN it.childFileFds : LET fd == it.childFileFds[p] IN
          fd \in DOMAIN childMap /\ fdMap[fd] = i /\ childMap[fd] = p

Agree(items, fdMap, childMap) ==
    /\ DOMAIN childMap \subseteq DOMAIN fdMap
    /\ \A fd \in DOMAIN fdMap : fdMap[fd] \in DOMAIN items /\ OwnedBy(fd, items[fdMap[fd]], childMap)
    /\ \A i \in DOMAIN items : Holds(i, items[i], fdMap, childMap)

Tables ==
    /\ Agree(item, m_kqFdMap, m_childFdToPath)
    /\ DOMAIN m_kqFdMap \subseteq DOMAIN kernel
    /\ DOMAIN kernel \subseteq 1 .. MaxFd

\* A watched item is open, and known by its own path.
Watched ==
    \A p \in DOMAIN m_kqWatches :
        m_kqWatches[p] \in Item /\ item[m_kqWatches[p]].path = p /\ item[m_kqWatches[p]].fd # 0

\* An item outside of the lock has a descriptor that no table and no other call has.
Apart(it) ==
    /\ it = [f \in ItemField |-> it[f]]
    /\ it.fd \in DOMAIN kernel \ DOMAIN m_kqFdMap /\ it.childFileFds = << >>

Scanned ==
    \A th \in Thread : call[th].at = "scanned" =>
        /\ Apart(call[th].item)
        /\ \A other \in Thread \ {th} :
              call[other].at = "scanned" => call[other].item.fd # call[th].item.fd

\* Items that can still be found, or that were in use when they went.
Known == {m_kqWatches[p] : p \in DOMAIN m_kqWatches} \cup torn

\* Nothing is open that no table and no call has.
Accounted ==
    /\ \A fd \in DOMAIN m_kqFdMap : m_kqFdMap[fd] \in Known
    /\ \A fd \in DOMAIN kernel \ DOMAIN m_kqFdMap :
          \E th \in Thread : call[th].at = "scanned" /\ call[th].item.fd = fd

InHand == lp.at \in {"scan", "sync"} => lp.item \in Item \cap Known

KqInv == Shapes /\ Tables /\ Watched /\ Scanned /\ Accounted /\ InHand

-----------------------------------------------------------------------------
(* The operators of the engine.                                             *)

LEMMA WithoutIs ==
  ASSUME NEW f, NEW S
  PROVE  DOMAIN Without(f, S) = DOMAIN f \ S /\ \A x \in DOMAIN f \ S : Without(f, S)[x] = f[x]
BY DEF Without, Restrict

LEMMA WithIs ==
  ASSUME NEW f, NEW x, NEW v
  PROVE  /\ DOMAIN With(f, x, v) = DOMAIN f \cup {x} /\ With(f, x, v)[x] = v
         /\ \A y \in DOMAIN f \ {x} : With(f, x, v)[y] = f[y]
BY DEF With

LEMMA JoinedIs ==
  ASSUME NEW f, NEW g
  PROVE  /\ DOMAIN Joined(f, g) = DOMAIN f \cup DOMAIN g
         /\ \A x \in DOMAIN f : Joined(f, g)[x] = f[x]
         /\ \A x \in DOMAIN g \ DOMAIN f : Joined(f, g)[x] = g[x]
BY DEF Joined

\* What is opened is known by its path alone.
LEMMA OpenedOnce ==
  ASSUME NEW paths, NEW opened \in Openings(paths)
  PROVE  /\ DOMAIN opened \subseteq (1 .. MaxFd) \ DOMAIN kernel
         /\ DOMAIN AntiFunction(opened) \subseteq paths
         /\ \A fd \in DOMAIN opened :
               opened[fd] \in DOMAIN AntiFunction(opened) /\ AntiFunction(opened)[opened[fd]] = fd
         /\ \A p \in DOMAIN AntiFunction(opened) :
               AntiFunction(opened)[p] \in DOMAIN opened /\ opened[AntiFunction(opened)[p]] = p
<1> DEFINE n == Cardinality(paths)
<1>1. opened \in [LowestFree(n) -> paths] /\ IsInjective(opened)
  BY DEF Openings
<1>2. LowestFree(n) \subseteq (1 .. MaxFd) \ DOMAIN kernel
  BY DEF LowestFree
<1> HIDE DEF n
<1>3. DOMAIN opened = LowestFree(n) /\ \A fd \in DOMAIN opened : opened[fd] \in paths
  BY <1>1
<1>4. DOMAIN AntiFunction(opened) = Range(opened)
  BY DEF AntiFunction, Inverse
<1>5. ASSUME NEW p \in Range(opened)
      PROVE  AntiFunction(opened)[p] \in DOMAIN opened /\ opened[AntiFunction(opened)[p]] = p
  <2>1. \E fd \in DOMAIN opened : opened[fd] = p
    BY <1>5 DEF Range
  <2>2. AntiFunction(opened)[p] = CHOOSE fd \in DOMAIN opened : p \in Range(opened) => opened[fd] = p
    BY <1>5 DEF AntiFunction, Inverse
  <2> QED BY <1>5, <2>1, <2>2
<1>6. \A fd \in DOMAIN opened : opened[fd] \in Range(opened)
  BY DEF Range
<1>7. \A fd, other \in DOMAIN opened : opened[fd] = opened[other] => fd = other
  BY <1>1 DEF IsInjective
<1>8. Range(opened) \subseteq paths
  BY <1>3 DEF Range
<1>9. \A fd \in DOMAIN opened : AntiFunction(opened)[opened[fd]] = fd
  BY <1>5, <1>6, <1>7
<1> QED BY <1>2, <1>3, <1>4, <1>5, <1>6, <1>8, <1>9

-----------------------------------------------------------------------------
(* syncDirectChildFileWatches, of an item in the tables or about to be.     *)

\* What it leaves of the items and descriptors.
SyncLeaves(i, it, fdMap) ==
    /\ DOMAIN item' = Item \cup {i} /\ \A j \in Item \ {i} : item'[j] = item[j]
    /\ item'[i] = [f \in ItemField |-> item'[i][f]]
    /\ item'[i].path = it.path /\ item'[i].fd = it.fd
    /\ \A fd \in DOMAIN m_kqFdMap' :
          m_kqFdMap'[fd] = i \/ (fd \in DOMAIN fdMap /\ m_kqFdMap'[fd] = fdMap[fd])
    /\ DOMAIN kernel \ DOMAIN fdMap \subseteq DOMAIN kernel' \ DOMAIN m_kqFdMap'
    /\ DOMAIN kernel' \subseteq (DOMAIN kernel \ DOMAIN fdMap) \cup DOMAIN m_kqFdMap'

LEMMA SyncKeeps ==
  ASSUME NEW i, NEW it, NEW descriptors, NEW fdMap,
         SyncDirectChildFileWatches(i, it, descriptors, fdMap),
         it = [f \in ItemField |-> it[f]],
         Agree(With(item, i, it), fdMap, m_childFdToPath),
         DOMAIN fdMap \subseteq DOMAIN kernel, DOMAIN kernel \subseteq 1 .. MaxFd,
         DOMAIN descriptors = DOMAIN kernel
  PROVE  Tables' /\ SyncLeaves(i, it, fdMap)
<1> DEFINE gone   == DOMAIN it.childFileFds \ DOMAIN it.children
           closed == {it.childFileFds[p] : p \in gone}
           fds    == it.childFileFds
           items  == With(item, i, it)
<1>1. PICK opened \in Openings(NewChildren(it)) :
        /\ item' = With(item, i,
             [it EXCEPT !.childFileFds = Joined(Without(@, gone), AntiFunction(opened))])
        /\ kernel' = Without(Joined([fd \in DOMAIN opened |-> Descriptor(opened[fd], {"write"})],
                                    descriptors), closed)
        /\ m_kqFdMap' = Without(Joined([fd \in DOMAIN opened |-> i], fdMap), closed)
        /\ m_childFdToPath' = Without(Joined(opened, m_childFdToPath), closed)
  BY DEF SyncDirectChildFileWatches
<1> DEFINE anti == AntiFunction(opened)
           new  == Joined(Without(fds, gone), anti)
<1>2. NewChildren(it) \cap DOMAIN fds = {}
  BY DEF NewChildren
<1>3. /\ DOMAIN opened \subseteq (1 .. MaxFd) \ DOMAIN kernel
      /\ DOMAIN anti \cap DOMAIN fds = {}
      /\ \A fd \in DOMAIN opened : opened[fd] \in DOMAIN anti /\ anti[opened[fd]] = fd
      /\ \A p \in DOMAIN anti : anti[p] \in DOMAIN opened /\ opened[anti[p]] = p
  BY <1>2, OpenedOnce
<1>4. /\ item'[i] = [it EXCEPT !.childFileFds = new]
      /\ DOMAIN item' = Item \cup {i} /\ \A j \in Item \ {i} : item'[j] = item[j]
  <2> DEFINE synced == [it EXCEPT !.childFileFds = new]
  <2>1. item' = With(item, i, synced)
    BY <1>1
  <2> HIDE DEF synced
  <2>2. /\ item'[i] = synced /\ DOMAIN item' = DOMAIN item \cup {i}
        /\ \A j \in DOMAIN item \ {i} : item'[j] = item[j]
    BY <2>1 DEF With
  <2> QED BY <2>2 DEF synced, Item
<1>5. /\ item'[i] = [f \in ItemField |-> item'[i][f]]
      /\ item'[i].path = it.path /\ item'[i].fd = it.fd /\ item'[i].childFileFds = new
  BY <1>4 DEF ItemField
<1>6. /\ DOMAIN new = (DOMAIN fds \ gone) \cup DOMAIN anti
      /\ \A p \in DOMAIN fds \ gone : new[p] = fds[p]
      /\ \A p \in DOMAIN anti : new[p] = anti[p]
  <2> HIDE DEF gone, fds, anti
  <2>1. /\ DOMAIN Without(fds, gone) = DOMAIN fds \ gone
        /\ \A p \in DOMAIN fds \ gone : Without(fds, gone)[p] = fds[p]
    BY WithoutIs DEF gone, fds
  <2>2. DOMAIN anti \cap DOMAIN Without(fds, gone) = {}
    BY <1>3, <2>1
  <2> DEFINE kept == Without(fds, gone)
  <2>3. new = Joined(kept, anti)
    OBVIOUS
  <2> HIDE DEF new, kept
  <2>4. /\ DOMAIN new = DOMAIN kept \cup DOMAIN anti
        /\ \A p \in DOMAIN kept : new[p] = kept[p]
        /\ \A p \in DOMAIN anti \ DOMAIN kept : new[p] = anti[p]
    BY <2>3 DEF Joined
  <2> QED BY <2>1, <2>2, <2>4 DEF kept
<1>7. /\ DOMAIN items = Item \cup {i} /\ items[i] = it
      /\ \A j \in Item \ {i} : items[j] = item[j]
  BY DEF With, Item
<1>8. /\ \A p \in gone : p \in DOMAIN fds
      /\ \A fd \in closed : \E p \in gone : fds[p] = fd
      /\ \A p \in gone : fds[p] \in closed
  OBVIOUS
<1>9. /\ DOMAIN m_childFdToPath \subseteq DOMAIN fdMap
      /\ \A fd \in DOMAIN fdMap : fdMap[fd] \in Item \cup {i} /\ OwnedBy(fd, items[fdMap[fd]], m_childFdToPath)
      /\ \A j \in Item \cup {i} : Holds(j, items[j], fdMap, m_childFdToPath)
  BY <1>7 DEF Agree
<1>10. \A p \in DOMAIN fds : fds[p] \in DOMAIN m_childFdToPath /\ fdMap[fds[p]] = i /\ m_childFdToPath[fds[p]] = p
  BY <1>7, <1>9 DEF Holds
<1>11. closed \subseteq DOMAIN m_childFdToPath
  BY <1>8, <1>10
<1>12. /\ DOMAIN m_childFdToPath' = (DOMAIN opened \cup DOMAIN m_childFdToPath) \ closed
       /\ \A fd \in DOMAIN opened : fd \notin closed /\ m_childFdToPath'[fd] = opened[fd]
       /\ \A fd \in DOMAIN m_childFdToPath \ closed : m_childFdToPath'[fd] = m_childFdToPath[fd]
  <2> HIDE DEF closed
  <2>1. DOMAIN opened \cap DOMAIN m_childFdToPath = {}
    BY <1>3, <1>9
  <2> DEFINE all == Joined(opened, m_childFdToPath)
  <2>2. m_childFdToPath' = Without(all, closed)
    BY <1>1, Zenon DEF closed
  <2>3. /\ DOMAIN all = DOMAIN opened \cup DOMAIN m_childFdToPath
        /\ \A fd \in DOMAIN opened : all[fd] = opened[fd]
        /\ \A fd \in DOMAIN m_childFdToPath \ DOMAIN opened : all[fd] = m_childFdToPath[fd]
    BY JoinedIs, Zenon
  <2> HIDE DEF all
  <2>4. /\ DOMAIN m_childFdToPath' = DOMAIN all \ closed
        /\ \A fd \in DOMAIN all \ closed : m_childFdToPath'[fd] = all[fd]
    BY <2>2, WithoutIs, Zenon
  <2> QED BY <1>11, <2>1, <2>3, <2>4
<1>13. /\ DOMAIN m_kqFdMap' = (DOMAIN opened \cup DOMAIN fdMap) \ closed
       /\ \A fd \in DOMAIN opened : fd \notin closed /\ m_kqFdMap'[fd] = i
       /\ \A fd \in DOMAIN fdMap \ closed : m_kqFdMap'[fd] = fdMap[fd]
  <2> DEFINE mine == [fd \in DOMAIN opened |-> i]
         all  == Joined(mine, fdMap)
  <2>1. DOMAIN mine = DOMAIN opened /\ \A fd \in DOMAIN opened : mine[fd] = i
    OBVIOUS
  <2> HIDE DEF closed, mine
  <2>2. DOMAIN opened \cap DOMAIN fdMap = {} /\ closed \subseteq DOMAIN fdMap
    BY <1>3, <1>9, <1>11
  <2>3. m_kqFdMap' = Without(all, closed)
    BY <1>1, Zenon DEF mine, closed
  <2>4. /\ DOMAIN all = DOMAIN mine \cup DOMAIN fdMap
        /\ \A fd \in DOMAIN mine : all[fd] = mine[fd]
        /\ \A fd \in DOMAIN fdMap \ DOMAIN mine : all[fd] = fdMap[fd]
    BY JoinedIs, Zenon
  <2> HIDE DEF all
  <2>5. /\ DOMAIN m_kqFdMap' = DOMAIN all \ closed
        /\ \A fd \in DOMAIN all \ closed : m_kqFdMap'[fd] = all[fd]
    BY <2>3, WithoutIs, Zenon
  <2> QED BY <2>1, <2>2, <2>4, <2>5
<1>14. DOMAIN kernel' = (DOMAIN opened \cup DOMAIN kernel) \ closed
  <2> DEFINE theirs == [fd \in DOMAIN opened |-> Descriptor(opened[fd], {"write"})]
  <2>1. DOMAIN theirs = DOMAIN opened
    OBVIOUS
  <2> HIDE DEF closed, theirs
  <2>2. kernel' = Without(Joined(theirs, descriptors), closed)
    BY <1>1, Zenon DEF theirs, closed
  <2>3. DOMAIN kernel' = DOMAIN Joined(theirs, descriptors) \ closed
    BY <2>2, WithoutIs, Zenon
  <2>4. DOMAIN Joined(theirs, descriptors) = DOMAIN theirs \cup DOMAIN descriptors
    BY JoinedIs, Zenon
  <2> QED BY <2>1, <2>3, <2>4
<1> HIDE DEF gone, closed, fds, items, anti, new
<1>15. ASSUME NEW fd \in DOMAIN m_kqFdMap'
       PROVE  m_kqFdMap'[fd] \in DOMAIN item' /\ OwnedBy(fd, item'[m_kqFdMap'[fd]], m_childFdToPath')
  <2>1. CASE fd \in DOMAIN opened
    <3>1. /\ m_kqFdMap'[fd] = i /\ fd \in DOMAIN m_childFdToPath' /\ m_childFdToPath'[fd] = opened[fd]
          /\ opened[fd] \in DOMAIN new /\ new[opened[fd]] = fd
      BY <1>3, <1>6, <1>12, <1>13, <2>1
    <3> QED BY <1>4, <1>5, <3>1 DEF OwnedBy
  <2>2. CASE fd \in DOMAIN fdMap \ closed
    <3> DEFINE j == fdMap[fd]
    <3>1. m_kqFdMap'[fd] = j /\ j \in Item \cup {i} /\ OwnedBy(fd, items[j], m_childFdToPath)
      BY <1>9, <1>13, <2>2
    <3>2. fd \in DOMAIN m_childFdToPath <=> fd \in DOMAIN m_childFdToPath'
      BY <1>3, <1>12, <2>2
    <3>3. fd \in DOMAIN m_childFdToPath => m_childFdToPath'[fd] = m_childFdToPath[fd]
      BY <1>12, <2>2
    <3> HIDE DEF j
    <3>4. CASE j # i
      BY <1>4, <1>7, <3>1, <3>2, <3>3, <3>4 DEF OwnedBy
    <3>5. CASE j = i
      <4>1. CASE fd \in DOMAIN m_childFdToPath
        <5> DEFINE p == m_childFdToPath[fd]
        <5>1. p \in DOMAIN fds /\ fds[p] = fd
          BY <1>7, <3>1, <3>5, <4>1 DEF OwnedBy, fds
        <5>2. p \notin gone
          BY <1>8, <2>2, <5>1
        <5>3. p \in DOMAIN new /\ new[p] = fd
          BY <1>6, <5>1, <5>2
        <5> QED BY <1>4, <1>5, <3>1, <3>2, <3>3, <3>5, <4>1, <5>3 DEF OwnedBy
      <4>2. CASE fd \notin DOMAIN m_childFdToPath
        BY <1>4, <1>5, <1>7, <3>1, <3>2, <3>5, <4>2 DEF OwnedBy
      <4> QED BY <4>1, <4>2
    <3> QED BY <3>4, <3>5
  <2> QED BY <1>13, <2>1, <2>2
<1>16. ASSUME NEW j \in DOMAIN item'
       PROVE  Holds(j, item'[j], m_kqFdMap', m_childFdToPath')
  <2>1. j \in Item \cup {i} /\ Holds(j, items[j], fdMap, m_childFdToPath)
    BY <1>4, <1>9
  <2>2. ASSUME NEW fd, fd \in DOMAIN m_childFdToPath, fd \notin closed
        PROVE  /\ fd \in DOMAIN m_childFdToPath' /\ m_kqFdMap'[fd] = fdMap[fd]
               /\ m_childFdToPath'[fd] = m_childFdToPath[fd]
    BY <1>9, <1>12, <1>13, <2>2
  <2>3. ASSUME NEW fd, fd \in DOMAIN fdMap \ DOMAIN m_childFdToPath
        PROVE  fd \in DOMAIN m_kqFdMap' \ DOMAIN m_childFdToPath' /\ m_kqFdMap'[fd] = fdMap[fd]
    <3>1. fd \notin closed /\ fd \notin DOMAIN opened
      BY <1>3, <1>11, <2>3
    <3> QED BY <1>12, <1>13, <2>3, <3>1
  <2>4. item'[j].fd = items[j].fd
    BY <1>4, <1>5, <1>7, <2>1
  <2>5. item'[j].fd # 0 => /\ item'[j].fd \in DOMAIN m_kqFdMap' \ DOMAIN m_childFdToPath'
                           /\ m_kqFdMap'[item'[j].fd] = j
    BY <2>1, <2>3, <2>4 DEF Holds
  <2>6. ASSUME NEW p \in DOMAIN item'[j].childFileFds
        PROVE  /\ item'[j].childFileFds[p] \in DOMAIN m_childFdToPath'
               /\ m_kqFdMap'[item'[j].childFileFds[p]] = j
               /\ m_childFdToPath'[item'[j].childFileFds[p]] = p
    <3>1. CASE j # i
      <4> DEFINE fd == item[j].childFileFds[p]
      <4>1. item'[j] = item[j] /\ items[j] = item[j]
        BY <1>4, <1>7, <2>1, <3>1
      <4>2. fd \in DOMAIN m_childFdToPath /\ fdMap[fd] = j
            /\ m_childFdToPath[fd] = p
        BY <2>1, <4>1 DEF Holds
      <4>3. fd \notin closed
        BY <1>8, <1>10, <3>1, <4>2
      <4> HIDE DEF fd
      <4>4. fd \in DOMAIN m_childFdToPath' /\ m_kqFdMap'[fd] = j /\ m_childFdToPath'[fd] = p
        BY <2>2, <4>2, <4>3
      <4>5. item'[j].childFileFds[p] = fd
        BY <4>1 DEF fd
      <4> QED BY <4>4, <4>5
    <3>2. CASE j = i /\ p \in DOMAIN anti
      BY <1>3, <1>5, <1>6, <1>12, <1>13, <3>2
    <3>3. CASE j = i /\ p \in DOMAIN fds \ gone
      <4>1. fds[p] \in DOMAIN m_childFdToPath /\ fdMap[fds[p]] = i /\ m_childFdToPath[fds[p]] = p
        BY <1>10, <3>3
      <4>2. fds[p] \notin closed
        <5>1. ASSUME fds[p] \in closed PROVE FALSE
          <6>1. PICK q \in gone : fds[q] = fds[p]
            BY <1>8, <5>1
          <6>2. q = p
            BY <1>8, <1>10, <3>3, <6>1
          <6> QED BY <3>3, <6>2
        <5> QED BY <5>1
      <4>3. item'[j].childFileFds[p] = fds[p]
        BY <1>5, <1>6, <3>3
      <4> QED BY <2>2, <3>3, <4>1, <4>2, <4>3
    <3>4. j = i => p \in DOMAIN anti \/ p \in DOMAIN fds \ gone
      BY <1>5, <1>6
    <3> QED BY <3>1, <3>2, <3>3, <3>4
  <2> QED BY <2>5, <2>6 DEF Holds
<1>17. Tables'
  <2>1. DOMAIN m_childFdToPath' \subseteq DOMAIN m_kqFdMap'
    BY <1>9, <1>12, <1>13
  <2>2. DOMAIN m_kqFdMap' \subseteq DOMAIN kernel' /\ DOMAIN kernel' \subseteq 1 .. MaxFd
    BY <1>3, <1>13, <1>14
  <2> QED BY <1>15, <1>16, <2>1, <2>2 DEF Tables, Agree
<1>18. /\ \A fd \in DOMAIN m_kqFdMap' :
             m_kqFdMap'[fd] = i \/ (fd \in DOMAIN fdMap /\ m_kqFdMap'[fd] = fdMap[fd])
       /\ DOMAIN kernel \ DOMAIN fdMap \subseteq DOMAIN kernel' \ DOMAIN m_kqFdMap'
       /\ DOMAIN kernel' \subseteq (DOMAIN kernel \ DOMAIN fdMap) \cup DOMAIN m_kqFdMap'
  BY <1>3, <1>9, <1>11, <1>13, <1>14
<1> QED BY <1>4, <1>5, <1>17, <1>18 DEF SyncLeaves

-----------------------------------------------------------------------------
(* Steps that leave the tables alone.                                       *)

\* Items stay except for their snapshots.
ItemsStay ==
    /\ DOMAIN item' = Item
    /\ \A i \in Item :
          /\ item'[i] = [f \in ItemField |-> item'[i][f]]
          /\ item'[i].path = item[i].path /\ item'[i].fd = item[i].fd
          /\ item'[i].childFileFds = item[i].childFileFds

TablesStay ==
    /\ UNCHANGED <<m_kqWatches, m_kqFdMap, m_childFdToPath, torn>>
    /\ DOMAIN kernel' = DOMAIN kernel
    /\ ItemsStay

\* No call takes an item out of the lock or brings one back.
ScannedStay ==
    /\ call' = [th \in Thread |-> call'[th]]
    /\ \A th \in Thread :
          call[th].at = "scanned" \/ call'[th].at = "scanned" => call'[th] = call[th]

LoopShaped == lp' = [f \in LoopField |-> lp'[f]]

LEMMA KqStays == ASSUME KqInv, UNCHANGED kqVars PROVE TablesStay
<1>1. UNCHANGED <<kernel, item, m_kqWatches, m_kqFdMap, m_childFdToPath, torn>>
  BY DEF kqVars, tables
<1> QED BY <1>1 DEF TablesStay, ItemsStay, KqInv, Shapes, Item

LEMMA CallsStay == ASSUME KqInv, UNCHANGED call PROVE ScannedStay
BY DEF KqInv, Shapes, ScannedStay

LEMMA CallMoves ==
  ASSUME KqInv, NEW th \in Thread, NEW c, Becomes(th, c), call[th].at # "scanned", c.at # "scanned"
  PROVE  ScannedStay
<1>1. call' = [call EXCEPT ![th] = c]
  BY DEF Becomes
<1> QED BY <1>1 DEF KqInv, Shapes, ScannedStay

LEMMA AgreeStays ==
  ASSUME Agree(item, m_kqFdMap, m_childFdToPath), TablesStay
  PROVE  Agree(item', m_kqFdMap', m_childFdToPath')
<1>1. UNCHANGED <<m_kqFdMap, m_childFdToPath>> /\ DOMAIN item' = DOMAIN item
  BY DEF TablesStay, ItemsStay, Item
<1>2. \A i \in DOMAIN item : item'[i].fd = item[i].fd /\ item'[i].childFileFds = item[i].childFileFds
  BY DEF TablesStay, ItemsStay, Item
<1>3. \A fd \in DOMAIN m_kqFdMap : OwnedBy(fd, item'[m_kqFdMap[fd]], m_childFdToPath)
  BY <1>2 DEF Agree, OwnedBy
<1>4. \A i \in DOMAIN item : Holds(i, item'[i], m_kqFdMap, m_childFdToPath)
  BY <1>2 DEF Agree, Holds
<1> QED BY <1>1, <1>3, <1>4 DEF Agree

LEMMA Frame ==
  ASSUME KqInv, TablesStay, ScannedStay, LoopShaped, InHand'
  PROVE  KqInv'
<1>1. Shapes'
  BY DEF KqInv, Shapes, TablesStay, ItemsStay, ScannedStay, LoopShaped, Item
<1>2. Tables'
  BY AgreeStays DEF KqInv, Tables, TablesStay
<1>3. Watched'
  BY DEF KqInv, Watched, TablesStay, ItemsStay, Item
<1>4. Scanned'
  BY DEF KqInv, Scanned, Apart, TablesStay, ScannedStay
<1>5. Accounted'
  <2>1. Known' = Known
    BY DEF Known, TablesStay
  <2> QED BY <2>1 DEF KqInv, Accounted, TablesStay, ScannedStay
<1> QED BY <1>1, <1>2, <1>3, <1>4, <1>5 DEF KqInv

\* The loop stays where it is.
LEMMA FrameOfCalls == ASSUME KqInv, TablesStay, ScannedStay, UNCHANGED lp PROVE KqInv'
<1>1. LoopShaped
  BY DEF LoopShaped, KqInv, Shapes
<1>2. InHand'
  BY DEF KqInv, InHand, Known, TablesStay, ItemsStay, Item
<1> QED BY <1>1, <1>2, Frame

LEMMA FilesKeepTables == ASSUME KqInv, FsStep PROVE KqInv'
<1>1. PICK notes, records, unnoticed : Changes(notes, records, unnoticed)
  <2>1. CASE \E p \in Path : Create(p) \/ Write(p) \/ Unlink(p) \/ MoveOut(p)
    BY <2>1 DEF Create, Write, Unlink, MoveOut
  <2>2. CASE \E p, q \in Path : Rename(p, q)
    BY <2>2 DEF Rename
  <2> QED BY <2>1, <2>2 DEF FsStep
<1>2. UNCHANGED <<item, m_kqWatches, m_kqFdMap, m_childFdToPath, torn, lp, call>>
  BY <1>1 DEF Changes, loopVars
<1>3. DOMAIN kernel' = DOMAIN kernel
  BY <1>1 DEF Changes
<1>4. TablesStay
  BY <1>2, <1>3 DEF TablesStay, ItemsStay, KqInv, Shapes, Item
<1> QED BY <1>2, <1>4, CallsStay, FrameOfCalls

LEMMA StreamKeepsTables == ASSUME KqInv, StreamStep PROVE KqInv'
<1>1. UNCHANGED kqVars /\ UNCHANGED lp /\ UNCHANGED call
  BY DEF StreamStep, PushEvents, WakeLoop, loopVars
<1> QED BY <1>1, KqStays, CallsStay, FrameOfCalls

-----------------------------------------------------------------------------
(* The calls.                                                               *)

\* The calls that have no item in hand, before or after.
LEMMA OtherCallKeeps ==
  ASSUME KqInv, NEW th \in Thread,
         \/ \E r \in Root : AddWatch(th, r) \/ RemoveWatch(th, r)
         \/ AddFails(th) \/ AddTree(th) \/ RemoveTree(th)
         \/ Stop(th) \/ StopFSEvents(th) \/ ClearStream(th) \/ Wakeup(th)
  PROVE  KqInv'
<1>1. UNCHANGED kqVars /\ UNCHANGED lp
  BY DEF AddWatch, RemoveWatch, AddFails, AddTree, RemoveTree, Stop, StopFSEvents, ClearStream,
         Wakeup, loopVars
<1>2. call[th].at # "scanned" /\ \E c : c.at # "scanned" /\ Becomes(th, c)
  <2>1. CASE \E r \in Root : AddWatch(th, r) \/ RemoveWatch(th, r)
    BY <2>1 DEF AddWatch, RemoveWatch, MayCall, Idle
  <2>2. CASE AddFails(th)
    BY <2>2 DEF AddFails, Idle
  <2>3. CASE AddTree(th) \/ RemoveTree(th)
    BY <2>3 DEF AddTree, RemoveTree, RestartStream, Idle
  <2>4. CASE Stop(th)
    BY <2>4 DEF Stop, MayCall, Idle
  <2>5. CASE StopFSEvents(th)
    BY <2>5 DEF StopFSEvents
  <2>6. CASE ClearStream(th) \/ Wakeup(th)
    BY <2>6 DEF ClearStream, Wakeup, Idle
  <2> QED BY <2>1, <2>2, <2>3, <2>4, <2>5, <2>6
<1>3. ScannedStay
  BY <1>2, CallMoves
<1> QED BY <1>1, <1>3, KqStays, FrameOfCalls

\* The new descriptor is none of those that are open.
LEMMA RootScanned == ASSUME KqInv, NEW th \in Thread, ScanKqItem(th) PROVE KqInv'
<1>1. PICK fd \in 1 .. MaxFd :
        OpenRoot(call[th].root, fd)
          /\ Becomes(th, [at |-> "scanned", item |-> ScannedItem(call[th].root, fd)])
  BY DEF ScanKqItem
<1> DEFINE it == ScannedItem(call[th].root, fd)
<1>2. /\ UNCHANGED <<item, m_kqWatches, m_kqFdMap, m_childFdToPath, torn, lp>>
      /\ call[th].at = "add"
  BY <1>1 DEF ScanKqItem, OpenRoot, loopVars
<1>3. fd \notin DOMAIN kernel
  BY <1>1 DEF OpenRoot, LowestFree
<1>4. DOMAIN kernel' = DOMAIN kernel \cup {fd}
  BY <1>1, WithIs, Zenon DEF OpenRoot
<1>5. it = [f \in ItemField |-> it[f]] /\ it.fd = fd /\ it.childFileFds = << >>
  BY DEF ScannedItem, ItemField
<1> HIDE DEF it
<1>6. /\ call' = [other \in Thread |-> call'[other]]
      /\ call'[th] = [at |-> "scanned", item |-> it]
      /\ \A other \in Thread \ {th} : call'[other] = call[other]
  <2>1. call' = [call EXCEPT ![th] = [at |-> "scanned", item |-> it]]
    BY <1>1, Zenon DEF Becomes, it
  <2> QED BY <2>1 DEF KqInv, Shapes
<1>7. Shapes'
  BY <1>2, <1>6 DEF KqInv, Shapes, Item
<1>8. Tables'
  BY <1>2, <1>4 DEF KqInv, Tables
<1>9. Watched' /\ InHand'
  BY <1>2 DEF KqInv, Watched, InHand, Known, Item
<1>10. fd \notin DOMAIN m_kqFdMap
  BY <1>3 DEF KqInv, Tables
<1>11. Scanned'
  <2>1. ASSUME NEW other \in Thread \ {th}, call[other].at = "scanned"
        PROVE  Apart(call[other].item)' /\ call[other].item.fd # fd
    BY <1>2, <1>3, <1>4, <1>6, <2>1 DEF KqInv, Scanned, Apart
  <2>2. Apart(call[th].item)'
    BY <1>2, <1>4, <1>5, <1>6, <1>10 DEF Apart
  <2>3. ASSUME NEW one \in Thread, call'[one].at = "scanned",
               NEW other \in Thread \ {one}, call'[other].at = "scanned"
        PROVE  call'[other].item.fd # call'[one].item.fd
    <3>1. CASE one = th
      BY <1>5, <1>6, <2>1, <2>3, <3>1
    <3>2. CASE other = th
      BY <1>5, <1>6, <2>1, <2>3, <3>2
    <3>3. CASE one # th /\ other # th
      BY <1>6, <2>3, <3>3 DEF KqInv, Scanned
    <3> QED BY <3>1, <3>2, <3>3
  <2>4. \A other \in Thread : call'[other].at = "scanned" => Apart(call[other].item)'
    BY <1>6, <2>1, <2>2
  <2> QED BY <2>3, <2>4 DEF Scanned
<1>12. Accounted'
  <2>1. Known' = Known
    BY <1>2 DEF Known
  <2>2. ASSUME NEW other \in DOMAIN kernel' \ DOMAIN m_kqFdMap'
        PROVE  \E one \in Thread : call'[one].at = "scanned" /\ call'[one].item.fd = other
    <3>1. CASE other = fd
      BY <1>5, <1>6, <3>1
    <3>2. CASE other # fd
      <4>1. PICK one \in Thread : call[one].at = "scanned" /\ call[one].item.fd = other
        BY <1>2, <1>4, <2>2, <3>2 DEF KqInv, Accounted
      <4>2. one # th
        BY <1>2, <4>1
      <4> QED BY <1>6, <4>1, <4>2
    <3> QED BY <3>1, <3>2
  <2> QED BY <1>2, <2>1, <2>2 DEF KqInv, Accounted
<1> QED BY <1>7, <1>8, <1>9, <1>11, <1>12 DEF KqInv

\* The item enters the tables under a new number, with its descriptor; an item that was
\* there under its path is known as torn.
LEMMA ItemInserted == ASSUME KqInv, NEW th \in Thread, InsertKqItem(th) PROVE KqInv'
<1> DEFINE it    == call[th].item
           descriptors == [kernel EXCEPT ![it.fd].interest = Interest(it.path)]
           fdMap == With(m_kqFdMap, it.fd, NewItem)
           items == With(item, NewItem, it)
<1>1. /\ call[th].at = "scanned" /\ Becomes(th, Idle) /\ UNCHANGED lp
      /\ m_kqWatches' = With(m_kqWatches, it.path, NewItem)
      /\ torn' = torn \cup {m_kqWatches[p] : p \in {it.path} \cap DOMAIN m_kqWatches}
      /\ SyncDirectChildFileWatches(NewItem, it, descriptors, fdMap)
  BY DEF InsertKqItem, InsertItem, loopVars
<1>2. NewItem \notin Item /\ \E n \in Nat : Item \cup {NewItem} = 1 .. n
  <2>1. PICK n \in Nat : Item = 1 .. n
    BY DEF KqInv, Shapes
  <2>2. Cardinality(1 .. n) = n
    <3>1. Cardinality(1 .. n) = IF 1 > n THEN 0 ELSE n - 1 + 1
      BY FS_Interval, 1 \in Int, n \in Int, Zenon
    <3> QED BY <3>1
  <2>3. NewItem = n + 1
    BY <2>1, <2>2 DEF NewItem
  <2>4. n + 1 \in Nat /\ Item \cup {NewItem} = 1 .. n + 1
    BY <2>1, <2>3
  <2> QED BY <2>1, <2>3, <2>4
<1>3. /\ it = [f \in ItemField |-> it[f]] /\ it.childFileFds = << >>
      /\ it.fd \in DOMAIN kernel \ DOMAIN m_kqFdMap
  BY <1>1 DEF KqInv, Scanned, Apart
<1>4. it.fd # 0
  BY <1>3 DEF KqInv, Tables
<1>5. DOMAIN descriptors = DOMAIN kernel
  OBVIOUS
<1>6. /\ DOMAIN fdMap = DOMAIN m_kqFdMap \cup {it.fd} /\ fdMap[it.fd] = NewItem
      /\ \A fd \in DOMAIN m_kqFdMap : fd # it.fd /\ fdMap[fd] = m_kqFdMap[fd]
  BY <1>3 DEF With
<1>7. /\ DOMAIN items = Item \cup {NewItem} /\ items[NewItem] = it
      /\ \A i \in Item : items[i] = item[i]
  BY <1>2 DEF With, Item
<1> HIDE DEF it, descriptors, fdMap, items
<1>8. Agree(items, fdMap, m_childFdToPath)
  <2>1. /\ DOMAIN m_childFdToPath \subseteq DOMAIN m_kqFdMap
        /\ \A fd \in DOMAIN m_kqFdMap :
              m_kqFdMap[fd] \in Item /\ OwnedBy(fd, item[m_kqFdMap[fd]], m_childFdToPath)
        /\ \A i \in Item : Holds(i, item[i], m_kqFdMap, m_childFdToPath)
    BY DEF KqInv, Tables, Agree, Item
  <2>2. ASSUME NEW fd \in DOMAIN fdMap
        PROVE  fdMap[fd] \in DOMAIN items /\ OwnedBy(fd, items[fdMap[fd]], m_childFdToPath)
    <3>1. CASE fd = it.fd
      BY <1>3, <1>6, <1>7, <2>1, <3>1 DEF OwnedBy
    <3>2. CASE fd \in DOMAIN m_kqFdMap
      BY <1>6, <1>7, <2>1, <3>2
    <3> QED BY <1>6, <3>1, <3>2
  <2>3. ASSUME NEW i \in DOMAIN items PROVE Holds(i, items[i], fdMap, m_childFdToPath)
    <3>1. CASE i = NewItem
      BY <1>3, <1>6, <1>7, <2>1, <3>1 DEF Holds
    <3>2. CASE i \in Item
      <4>1. Holds(i, item[i], m_kqFdMap, m_childFdToPath) /\ items[i] = item[i]
        BY <1>7, <2>1, <3>2
      <4> QED BY <1>6, <2>1, <4>1 DEF Holds
    <3> QED BY <1>7, <3>1, <3>2
  <2> QED BY <1>6, <2>1, <2>2, <2>3 DEF Agree
<1>9. /\ Tables'
      /\ DOMAIN item' = Item \cup {NewItem} /\ \A j \in Item : item'[j] = item[j]
      /\ item'[NewItem] = [f \in ItemField |-> item'[NewItem][f]]
      /\ item'[NewItem].path = it.path /\ item'[NewItem].fd = it.fd
      /\ \A fd \in DOMAIN m_kqFdMap' :
            m_kqFdMap'[fd] = NewItem \/ (fd \in DOMAIN fdMap /\ m_kqFdMap'[fd] = fdMap[fd])
      /\ DOMAIN kernel \ DOMAIN fdMap \subseteq DOMAIN kernel' \ DOMAIN m_kqFdMap'
      /\ DOMAIN kernel' \subseteq (DOMAIN kernel \ DOMAIN fdMap) \cup DOMAIN m_kqFdMap'
  <2>1. DOMAIN fdMap \subseteq DOMAIN kernel /\ DOMAIN kernel \subseteq 1 .. MaxFd
    BY <1>3, <1>6 DEF KqInv, Tables
  <2>2. SyncDirectChildFileWatches(NewItem, it, descriptors, fdMap)
    BY <1>1 DEF it, descriptors, fdMap
  <2>3. Agree(With(item, NewItem, it), fdMap, m_childFdToPath)
    BY <1>8 DEF items
  <2>4. Tables' /\ SyncLeaves(NewItem, it, fdMap)
    BY <1>3, <1>5, <2>1, <2>2, <2>3, SyncKeeps, Zenon
  <2> QED BY <1>2, <2>4 DEF SyncLeaves
<1>10. /\ call' = [other \in Thread |-> call'[other]]
       /\ call'[th].at # "scanned" /\ \A other \in Thread \ {th} : call'[other] = call[other]
  <2>1. call' = [call EXCEPT ![th] = Idle]
    BY <1>1 DEF Becomes
  <2> QED BY <2>1 DEF KqInv, Shapes, Idle
<1>11. Shapes'
  <2>1. DOMAIN item' = (DOMAIN item)' /\ Item' = Item \cup {NewItem}
    BY <1>9 DEF Item
  <2>2. \A i \in Item' : item'[i] = [f \in ItemField |-> item'[i][f]]
    BY <1>9, <2>1 DEF KqInv, Shapes
  <2> QED BY <1>1, <1>2, <1>10, <2>1, <2>2 DEF KqInv, Shapes
<1>12. /\ DOMAIN m_kqWatches' = DOMAIN m_kqWatches \cup {it.path} /\ m_kqWatches'[it.path] = NewItem
       /\ \A p \in DOMAIN m_kqWatches \ {it.path} : m_kqWatches'[p] = m_kqWatches[p]
  BY <1>1 DEF With, it
<1>13. Watched'
  BY <1>4, <1>9, <1>12 DEF KqInv, Watched, Item
<1>14. Known \subseteq Known' /\ NewItem \in Known'
  <2>1. \A p \in DOMAIN m_kqWatches : m_kqWatches[p] \in Known'
    <3> SUFFICES ASSUME NEW p \in DOMAIN m_kqWatches PROVE m_kqWatches[p] \in Known'
      OBVIOUS
    <3>1. CASE p = it.path
      <4>1. m_kqWatches[p] \in torn'
        BY <1>1, <3>1 DEF it
      <4> QED BY <4>1 DEF Known
    <3>2. CASE p # it.path
      BY <1>12, <3>2 DEF Known
    <3> QED BY <3>1, <3>2
  <2>2. torn \subseteq torn'
    BY <1>1
  <2> QED BY <1>12, <2>1, <2>2 DEF Known
<1>15. Scanned'
  <2>1. ASSUME NEW other \in Thread, call'[other].at = "scanned"
        PROVE  other # th /\ call'[other] = call[other] /\ Apart(call[other].item)'
    <3>1. other # th /\ call'[other] = call[other]
      BY <1>10, <2>1
    <3>2. Apart(call[other].item) /\ call[other].item.fd # it.fd
      BY <1>1, <2>1, <3>1 DEF KqInv, Scanned, it
    <3>3. call[other].item.fd \in DOMAIN kernel \ DOMAIN fdMap
      BY <1>6, <3>2 DEF Apart
    <3>4. call[other].item.fd \in DOMAIN kernel' \ DOMAIN m_kqFdMap'
      BY <1>9, <3>3
    <3> QED BY <3>1, <3>2, <3>4 DEF Apart
  <2>2. \A one \in Thread : call'[one].at = "scanned" =>
          \A other \in Thread \ {one} : call'[other].at = "scanned" => call'[other].item.fd # call'[one].item.fd
    BY <2>1 DEF KqInv, Scanned
  <2> QED BY <2>1, <2>2 DEF Scanned
<1>16. Accounted'
  <2>1. ASSUME NEW fd \in DOMAIN m_kqFdMap' PROVE m_kqFdMap'[fd] \in Known'
    <3>1. CASE m_kqFdMap'[fd] = NewItem
      BY <1>14, <3>1
    <3>2. CASE m_kqFdMap'[fd] # NewItem
      <4>1. fd \in DOMAIN m_kqFdMap /\ m_kqFdMap'[fd] = m_kqFdMap[fd]
        BY <1>6, <1>9, <3>2
      <4> QED BY <1>14, <4>1 DEF KqInv, Accounted
    <3> QED BY <3>1, <3>2
  <2>2. ASSUME NEW fd \in DOMAIN kernel' \ DOMAIN m_kqFdMap'
        PROVE  \E one \in Thread : call'[one].at = "scanned" /\ call'[one].item.fd = fd
    <3>1. fd \in DOMAIN kernel \ DOMAIN m_kqFdMap /\ fd # it.fd
      BY <1>6, <1>9
    <3>2. PICK one \in Thread : call[one].at = "scanned" /\ call[one].item.fd = fd
      BY <3>1 DEF KqInv, Accounted
    <3>3. one # th
      BY <3>1, <3>2 DEF it
    <3> QED BY <1>10, <3>2, <3>3
  <2> QED BY <2>1, <2>2 DEF Accounted
<1>17. InHand'
  BY <1>1, <1>9, <1>14 DEF KqInv, InHand, Item
<1> QED BY <1>9, <1>11, <1>13, <1>15, <1>16, <1>17 DEF KqInv

\* The item's descriptors go, and no others: what it has is listed under it alone.
LEMMA ItemRemoved ==
  ASSUME KqInv, NEW p \in DOMAIN m_kqWatches, RemoveKqueueItem(p, Held), ScannedStay, UNCHANGED lp
  PROVE  KqInv'
<1> DEFINE i   == m_kqWatches[p]
           fds == Range(item[i].childFileFds) \cup {item[i].fd}
<1>1. /\ kernel' = Without(kernel, fds) /\ m_kqFdMap' = Without(m_kqFdMap, fds)
      /\ m_childFdToPath' = Without(m_childFdToPath, fds) /\ m_kqWatches' = Without(m_kqWatches, {p})
      /\ torn' = IF i \in Held THEN torn \cup {i} ELSE torn
      /\ item' = [item EXCEPT ![i].fd = 0, ![i].childFileFds = << >>]
  BY DEF RemoveKqueueItem
<1>2. i \in Item /\ item[i].path = p /\ item[i].fd # 0
  BY DEF KqInv, Watched
<1>3. \A fd \in fds : fd \in DOMAIN m_kqFdMap /\ m_kqFdMap[fd] = i
  <2>1. Holds(i, item[i], m_kqFdMap, m_childFdToPath) /\ DOMAIN m_childFdToPath \subseteq DOMAIN m_kqFdMap
    BY <1>2 DEF KqInv, Tables, Agree, Item
  <2> QED BY <1>2, <2>1 DEF Holds, Range
<1>4. \A fd \in DOMAIN m_kqFdMap : m_kqFdMap[fd] = i => fd \in fds
  <2>1. SUFFICES ASSUME NEW fd \in DOMAIN m_kqFdMap, m_kqFdMap[fd] = i PROVE fd \in fds
    OBVIOUS
  <2>2. OwnedBy(fd, item[i], m_childFdToPath)
    BY <2>1 DEF KqInv, Tables, Agree
  <2> QED BY <2>2 DEF OwnedBy, Range
<1> HIDE DEF fds
<1>5. /\ DOMAIN kernel' = DOMAIN kernel \ fds
      /\ DOMAIN m_kqFdMap' = DOMAIN m_kqFdMap \ fds
      /\ \A fd \in DOMAIN m_kqFdMap \ fds : m_kqFdMap'[fd] = m_kqFdMap[fd]
      /\ DOMAIN m_childFdToPath' = DOMAIN m_childFdToPath \ fds
      /\ \A fd \in DOMAIN m_childFdToPath \ fds : m_childFdToPath'[fd] = m_childFdToPath[fd]
  BY <1>1, WithoutIs, Zenon
<1>6. /\ DOMAIN m_kqWatches' = DOMAIN m_kqWatches \ {p}
      /\ \A q \in DOMAIN m_kqWatches \ {p} : m_kqWatches'[q] = m_kqWatches[q]
  BY <1>1, WithoutIs, Zenon
<1> HIDE DEF i
<1>7. /\ DOMAIN item' = Item /\ \A j \in Item \ {i} : item'[j] = item[j]
      /\ item'[i] = [f \in ItemField |-> item'[i][f]]
      /\ item'[i].path = item[i].path /\ item'[i].fd = 0 /\ item'[i].childFileFds = << >>
  <2>1. item[i] = [f \in ItemField |-> item[i][f]]
    BY <1>2 DEF KqInv, Shapes
  <2> QED BY <1>1, <1>2, <2>1 DEF Item, ItemField
<1>8. \A q \in DOMAIN m_kqWatches \ {p} : m_kqWatches[q] # i
  BY <1>2 DEF KqInv, Watched
<1>9. Shapes'
  BY <1>7 DEF KqInv, Shapes, ScannedStay, Item
<1>10. Agree(item', m_kqFdMap', m_childFdToPath')
  <2>1. /\ DOMAIN m_childFdToPath \subseteq DOMAIN m_kqFdMap
        /\ \A fd \in DOMAIN m_kqFdMap :
              m_kqFdMap[fd] \in Item /\ OwnedBy(fd, item[m_kqFdMap[fd]], m_childFdToPath)
        /\ \A j \in Item : Holds(j, item[j], m_kqFdMap, m_childFdToPath)
    BY DEF KqInv, Tables, Agree, Item
  <2>2. ASSUME NEW fd \in DOMAIN m_kqFdMap'
        PROVE  /\ m_kqFdMap'[fd] \in Item
               /\ OwnedBy(fd, item'[m_kqFdMap'[fd]], m_childFdToPath')
    <3>1. fd \in DOMAIN m_kqFdMap \ fds /\ m_kqFdMap'[fd] = m_kqFdMap[fd] /\ m_kqFdMap[fd] # i
      BY <1>4, <1>5
    <3>2. item'[m_kqFdMap'[fd]] = item[m_kqFdMap[fd]]
      BY <1>7, <2>1, <3>1
    <3>3. /\ fd \in DOMAIN m_childFdToPath <=> fd \in DOMAIN m_childFdToPath'
          /\ fd \in DOMAIN m_childFdToPath => m_childFdToPath'[fd] = m_childFdToPath[fd]
      BY <1>5, <3>1
    <3> QED BY <2>1, <3>1, <3>2, <3>3 DEF OwnedBy
  <2>3. ASSUME NEW j \in Item PROVE Holds(j, item'[j], m_kqFdMap', m_childFdToPath')
    <3>1. CASE j = i
      BY <1>7, <3>1 DEF Holds
    <3>2. CASE j # i
      <4>1. item'[j] = item[j] /\ Holds(j, item[j], m_kqFdMap, m_childFdToPath)
        BY <1>7, <2>1, <3>2
      <4>2. \A fd \in DOMAIN m_kqFdMap : m_kqFdMap[fd] = j => fd \notin fds
        BY <1>3, <3>2
      <4> QED BY <1>5, <2>1, <4>1, <4>2 DEF Holds
    <3> QED BY <3>1, <3>2
  <2> QED BY <1>5, <1>7, <2>1, <2>2, <2>3 DEF Agree
<1>11. Tables'
  BY <1>5, <1>10 DEF KqInv, Tables
<1>12. Watched'
  <2>1. Item' = Item
    BY <1>7 DEF Item
  <2> QED BY <1>6, <1>7, <1>8, <2>1 DEF KqInv, Watched
<1>13. Scanned'
  <2>1. ASSUME NEW it, Apart(it) PROVE Apart(it)'
    BY <1>3, <1>5, <2>1 DEF Apart
  <2>2. \A th \in Thread : call'[th].at = "scanned" => Apart(call[th].item)'
    BY <2>1 DEF KqInv, Scanned, ScannedStay
  <2>3. \A th \in Thread : call'[th].at = "scanned" => call'[th] = call[th]
    BY DEF ScannedStay
  <2> QED BY <2>2, <2>3 DEF KqInv, Scanned
<1>14. \A j \in Known : j \in Known' \/ (j = i /\ i \notin Held)
  <2>1. torn \subseteq torn' /\ (i \in Held => i \in torn')
    BY <1>1 DEF i
  <2>2. \A q \in DOMAIN m_kqWatches \ {p} : m_kqWatches[q] \in Known'
    BY <1>6 DEF Known
  <2> QED BY <2>1, <2>2 DEF Known, i
<1>15. Accounted'
  <2>1. ASSUME NEW fd \in DOMAIN m_kqFdMap' PROVE m_kqFdMap'[fd] \in Known'
    <3>1. m_kqFdMap'[fd] = m_kqFdMap[fd] /\ m_kqFdMap[fd] # i /\ m_kqFdMap[fd] \in Known
      BY <1>4, <1>5 DEF KqInv, Accounted
    <3> QED BY <1>14, <3>1
  <2>2. ASSUME NEW fd \in DOMAIN kernel' \ DOMAIN m_kqFdMap'
        PROVE  \E th \in Thread : call'[th].at = "scanned" /\ call'[th].item.fd = fd
    BY <1>5 DEF KqInv, Accounted, ScannedStay
  <2> QED BY <2>1, <2>2 DEF Accounted
<1>16. InHand'
  BY <1>7, <1>14 DEF KqInv, InHand, Held, Item
<1> QED BY <1>9, <1>11, <1>12, <1>13, <1>15, <1>16 DEF KqInv

LEMMA RemoveItemKeeps == ASSUME KqInv, NEW th \in Thread, RemoveItem(th) PROVE KqInv'
<1>1. call[th].at = "remove" /\ Becomes(th, Idle) /\ UNCHANGED lp
  BY DEF RemoveItem, loopVars
<1>2. ScannedStay
  BY <1>1, CallMoves DEF Idle
<1>3. CASE UNCHANGED kqVars
  BY <1>1, <1>2, <1>3, KqStays, FrameOfCalls
<1>4. CASE \E r \in DOMAIN m_kqWatches : RemoveKqueueItem(r, Held)
  BY <1>1, <1>2, <1>4, ItemRemoved
<1> QED BY <1>3, <1>4 DEF RemoveItem

LEMMA CallKeepsTables == ASSUME KqInv, NEW th \in Thread, CallStep(th) PROVE KqInv'
BY OtherCallKeeps, RootScanned, ItemInserted, RemoveItemKeeps DEF CallStep

-----------------------------------------------------------------------------
(* The loop.                                                                *)

LEMMA LoopHoldsItem ==
  ASSUME KqInv, TablesStay, UNCHANGED call, LoopShaped,
         \/ lp'.at \notin {"scan", "sync"}
         \/ lp.at \in {"scan", "sync"} /\ lp'.item = lp.item
         \/ \E fd \in DOMAIN m_kqFdMap : lp'.item = m_kqFdMap[fd]
  PROVE  KqInv'
<1>1. Known' = Known /\ Item' = Item
  BY DEF Known, TablesStay, ItemsStay, Item
<1>2. \A fd \in DOMAIN m_kqFdMap : m_kqFdMap[fd] \in Item \cap Known
  BY DEF KqInv, Tables, Agree, Accounted, Item
<1>3. InHand'
  BY <1>1, <1>2 DEF KqInv, InHand
<1> QED BY <1>3, CallsStay, Frame

\* Steps between which the loop has no item in hand, and Kevent clears what is active.
LEMMA OtherLoopStepKeeps ==
  ASSUME KqInv,
         \/ Start \/ Begin \/ While \/ Kevent \/ HandleFile
         \/ SwapPending \/ Dispatch \/ CallbackReturn \/ Dispatched
  PROVE  KqInv'
<1>0. lp = [f \in LoopField |-> lp[f]]
  BY DEF KqInv, Shapes
<1>1. UNCHANGED call
  BY DEF Start, Begin, While, Kevent, HandleFile, SwapPending, Dispatch, CallbackReturn, Dispatched
<1>2. TablesStay
  <2>1. CASE UNCHANGED kqVars
    BY <2>1, KqStays
  <2>2. CASE Kevent
    <3>1. UNCHANGED <<item, m_kqWatches, m_kqFdMap, m_childFdToPath, torn>>
      BY <2>2 DEF Kevent
    <3>2. DOMAIN kernel' = DOMAIN kernel
      BY <2>2 DEF Kevent
    <3> QED BY <3>1, <3>2 DEF TablesStay, ItemsStay, KqInv, Shapes, Item
  <2> QED BY <2>1, <2>2 DEF Start, Begin, While, HandleFile, SwapPending, Dispatch,
                            CallbackReturn, Dispatched
<1>3. LoopShaped /\ lp'.at \notin {"scan", "sync"}
  <2>1. CASE \E next \in {"begin", "while", "dispatch"} : lp' = [lp EXCEPT !.at = next]
    BY <1>0, <2>1 DEF LoopShaped, LoopField
  <2>2. CASE \E leaving : lp' = [lp EXCEPT !.at = IF m_running THEN "kevent" ELSE "swap", !.leaving = leaving]
    BY <1>0, <2>2 DEF LoopShaped, LoopField
  <2>3. CASE \E events : lp' = [lp EXCEPT !.at = "handle", !.events = events]
    BY <1>0, <2>3 DEF LoopShaped, LoopField
  <2>4. CASE lp.at = "handle" /\ \E events : lp' = [lp EXCEPT !.events = events]
    BY <1>0, <2>4 DEF LoopShaped, LoopField
  <2>5. CASE \E at \in {"dispatch", "callback"} : \E batch : lp' = [lp EXCEPT !.at = at, !.batch = batch]
    BY <1>0, <2>5 DEF LoopShaped, LoopField
  <2>6. CASE lp' = Out
    BY <2>6 DEF LoopShaped, LoopField, Out
  <2>7. Start \/ Begin \/ CallbackReturn => \E next \in {"begin", "while", "dispatch"} : lp' = [lp EXCEPT !.at = next]
    BY DEF Start, Begin, CallbackReturn, LoopIs
  <2>8. CASE While
    BY <2>2, <2>8 DEF While
  <2>9. CASE Kevent
    BY <2>1, <2>3, <2>9 DEF Kevent, LoopIs
  <2>10. CASE HandleFile
    BY <2>4, <2>10 DEF HandleFile
  <2>11. CASE SwapPending \/ Dispatch
    BY <2>5, <2>11 DEF SwapPending, Dispatch
  <2>12. CASE Dispatched
    BY <2>1, <2>6, <2>12 DEF Dispatched
  <2> QED BY <2>1, <2>7, <2>8, <2>9, <2>10, <2>11, <2>12
<1> QED BY <1>1, <1>2, <1>3, LoopHoldsItem

LEMMA DirectoryTaken == ASSUME KqInv, HandleDirectory PROVE KqInv'
<1>1. PICK e \in lp.events :
        /\ e.fd \in DOMAIN m_kqFdMap
        /\ \E events, notes : lp' = [lp EXCEPT !.at = "scan", !.events = events, !.item = m_kqFdMap[e.fd], !.notes = notes]
  BY DEF HandleDirectory, ToScan
<1>2. UNCHANGED kqVars /\ UNCHANGED call
  BY DEF HandleDirectory
<1>3. LoopShaped /\ lp'.item = m_kqFdMap[e.fd]
  BY <1>1 DEF KqInv, Shapes, LoopShaped, LoopField
<1> QED BY <1>1, <1>2, <1>3, KqStays, LoopHoldsItem

LEMMA DirectoryScanned == ASSUME KqInv, ScanDirectory PROVE KqInv'
<1>1. /\ lp.at = "scan"
      /\ UNCHANGED <<kernel, m_kqWatches, m_kqFdMap, m_childFdToPath, torn, call>>
      /\ \E batch : lp' = [lp EXCEPT !.at = "sync", !.batch = batch]
      /\ \E new : item' = [item EXCEPT ![lp.item].children = new]
  BY DEF ScanDirectory
<1>2. LoopShaped /\ lp'.item = lp.item
  BY <1>1 DEF KqInv, Shapes, LoopShaped, LoopField
<1>3. ItemsStay
  <2>1. PICK new : item' = [item EXCEPT ![lp.item].children = new]
    BY <1>1
  <2>2. \A i \in Item : item[i] = [f \in ItemField |-> item[i][f]]
    BY DEF KqInv, Shapes
  <2>3. DOMAIN item' = Item
    BY <2>1 DEF Item
  <2>4. ASSUME NEW i \in Item, i # lp.item PROVE item'[i] = item[i]
    BY <2>1, <2>4 DEF Item
  <2>5. ASSUME NEW i \in Item, i = lp.item PROVE item'[i] = [item[i] EXCEPT !.children = new]
    BY <2>1, <2>5 DEF Item
  <2>6. \A i \in Item : item'[i] = item[i] \/ item'[i] = [item[i] EXCEPT !.children = new]
    BY <2>4, <2>5
  <2> QED BY <2>2, <2>3, <2>6 DEF ItemsStay, ItemField
<1>4. TablesStay
  BY <1>1, <1>3 DEF TablesStay
<1> QED BY <1>1, <1>2, <1>4, LoopHoldsItem

\* The item is watched or torn, also if it was removed since its kevent was received: the
\* descriptors it gets now can be told.
LEMMA DirectorySynced == ASSUME KqInv, SyncDirectory PROVE KqInv'
<1> DEFINE i == lp.item
           it == item[i]
<1>1. /\ lp.at = "sync" /\ UNCHANGED <<m_kqWatches, torn, call>>
      /\ lp' = [lp EXCEPT !.at = "handle", !.item = 0, !.notes = {}, !.batch = << >>]
      /\ SyncDirectChildFileWatches(i, it, kernel, m_kqFdMap)
  BY DEF SyncDirectory
<1>2. LoopShaped /\ lp'.at = "handle"
  BY <1>1 DEF KqInv, Shapes, LoopShaped, LoopField
<1>3. i \in Item /\ i \in Known
  BY <1>1 DEF KqInv, InHand
<1>4. it = [f \in ItemField |-> it[f]]
  BY <1>3 DEF KqInv, Shapes
<1> HIDE DEF i
<1>5. Agree(With(item, i, it), m_kqFdMap, m_childFdToPath)
  <2>1. DOMAIN With(item, i, it) = DOMAIN item /\ \A j \in DOMAIN item : With(item, i, it)[j] = item[j]
    BY <1>3 DEF With, Item
  <2> QED BY <2>1 DEF KqInv, Tables, Agree
<1> HIDE DEF it
<1>6. Tables' /\ SyncLeaves(i, it, m_kqFdMap)
  <2>1. DOMAIN m_kqFdMap \subseteq DOMAIN kernel /\ DOMAIN kernel \subseteq 1 .. MaxFd
    BY DEF KqInv, Tables
  <2> QED BY <1>1, <1>4, <1>5, <2>1, SyncKeeps, Zenon
<1>7. /\ Item' = Item /\ \A j \in Item \ {i} : item'[j] = item[j]
      /\ item'[i] = [f \in ItemField |-> item'[i][f]]
      /\ item'[i].path = item[i].path /\ item'[i].fd = item[i].fd
  BY <1>3, <1>6 DEF SyncLeaves, Item, it
<1>8. Shapes'
  <2>1. \A j \in Item' : item'[j] = [f \in ItemField |-> item'[j][f]]
    BY <1>7 DEF KqInv, Shapes
  <2>2. call' = [th \in Thread |-> call'[th]] /\ \E n \in Nat : Item' = 1 .. n
    BY <1>1, <1>7 DEF KqInv, Shapes
  <2> QED BY <1>2, <2>1, <2>2 DEF Shapes, LoopShaped
<1>9. Watched'
  BY <1>1, <1>7 DEF KqInv, Watched
<1>10. Scanned'
  <2>1. DOMAIN kernel \ DOMAIN m_kqFdMap \subseteq DOMAIN kernel' \ DOMAIN m_kqFdMap'
    BY <1>6 DEF SyncLeaves
  <2> QED BY <1>1, <2>1 DEF KqInv, Scanned, Apart
<1>11. Accounted'
  <2>1. Known' = Known
    BY <1>1 DEF Known
  <2>2. /\ \A fd \in DOMAIN m_kqFdMap' :
              m_kqFdMap'[fd] = i \/ (fd \in DOMAIN m_kqFdMap /\ m_kqFdMap'[fd] = m_kqFdMap[fd])
        /\ DOMAIN kernel' \ DOMAIN m_kqFdMap' \subseteq DOMAIN kernel \ DOMAIN m_kqFdMap
    BY <1>6 DEF SyncLeaves
  <2> QED BY <1>1, <1>3, <2>1, <2>2 DEF KqInv, Accounted
<1>12. InHand'
  BY <1>2 DEF InHand
<1> QED BY <1>6, <1>8, <1>9, <1>10, <1>11, <1>12 DEF KqInv

LEMMA LoopKeepsTables == ASSUME KqInv, LoopStep PROVE KqInv'
BY OtherLoopStepKeeps, DirectoryTaken, DirectoryScanned, DirectorySynced DEF LoopStep

-----------------------------------------------------------------------------

LEMMA TablesAtFirst == Init => KqInv
<1> SUFFICES ASSUME Init PROVE KqInv
  OBVIOUS
<1>1. /\ kernel = << >> /\ item = << >> /\ m_kqWatches = << >> /\ m_kqFdMap = << >>
      /\ m_childFdToPath = << >> /\ lp = Out /\ call = [th \in Thread |-> Idle]
  BY DEF Init, KqInit
<1>2. /\ Item = 1 .. 0 /\ DOMAIN item = {} /\ DOMAIN kernel = {} /\ DOMAIN m_kqWatches = {}
      /\ DOMAIN m_kqFdMap = {} /\ DOMAIN m_childFdToPath = {}
  BY <1>1 DEF Item
<1>3. lp = [f \in LoopField |-> lp[f]] /\ lp.at = "out"
  BY <1>1 DEF LoopField, Out
<1>4. call = [th \in Thread |-> call[th]] /\ \A th \in Thread : call[th].at # "scanned"
  BY <1>1 DEF Idle
<1>5. Shapes
  <2>1. \E n \in Nat : Item = 1 .. n
    BY <1>2, 0 \in Nat
  <2>2. \A i \in Item : item[i] = [f \in ItemField |-> item[i][f]]
    BY <1>2 DEF Item
  <2> QED BY <1>3, <1>4, <2>1, <2>2 DEF Shapes
<1> QED BY <1>2, <1>3, <1>4, <1>5 DEF KqInv, Tables, Agree, Watched, Scanned, Accounted, InHand

LEMMA TablesInductive == KqInv /\ [Next]_vars => KqInv'
<1> SUFFICES ASSUME KqInv, [Next]_vars PROVE KqInv'
  OBVIOUS
<1>1. CASE UNCHANGED vars
  <2>1. UNCHANGED kqVars /\ UNCHANGED call /\ UNCHANGED lp
    BY <1>1 DEF vars, loopVars
  <2> QED BY <2>1, KqStays, CallsStay, FrameOfCalls
<1> QED BY <1>1, FilesKeepTables, CallKeepsTables, StreamKeepsTables, LoopKeepsTables DEF Next

LEMMA TablesInvariant == Spec => []KqInv
BY TablesAtFirst, TablesInductive, PTL DEF Spec

\* Whatever is removed, displaced or added again while the loop or another call is in the
\* middle of it, m_kqFdMap, m_childFdToPath and the items tell the same of a descriptor:
\* handleKevent takes no event for another file's than the one the descriptor is open for.
THEOREM TablesAgreeAboutFds == Spec => []FdsAgree
<1>1. KqInv => FdsAgree
  <2> SUFFICES ASSUME KqInv PROVE FdsAgree
    OBVIOUS
  <2>1. /\ DOMAIN m_childFdToPath \subseteq DOMAIN m_kqFdMap /\ DOMAIN m_kqFdMap \subseteq DOMAIN kernel
        /\ \A fd \in DOMAIN m_kqFdMap : OwnedBy(fd, item[m_kqFdMap[fd]], m_childFdToPath)
        /\ \A i \in Item : Holds(i, item[i], m_kqFdMap, m_childFdToPath)
    BY DEF KqInv, Tables, Agree, Item
  <2>2. \A i \in Range(m_kqWatches) : i \in Item /\ item[i].fd # 0
    BY DEF KqInv, Watched, Range
  <2>3. \A i \in Range(m_kqWatches) :
          /\ item[i].fd \in DOMAIN m_kqFdMap
          /\ Range(item[i].childFileFds) \subseteq DOMAIN m_childFdToPath
    BY <2>1, <2>2 DEF Holds, Range
  <2> QED BY <2>1, <2>3 DEF FdsAgree, OwnedBy
<1> QED BY <1>1, TablesInvariant, PTL

\* No descriptor is left open that nothing will close, but those of the items that were
\* displaced, or removed while the loop scanned their directory.
THEOREM DescriptorsAreClosed == Spec => []NoLeak
<1>1. KqInv => NoLeak
  BY DEF KqInv, Accounted, Known, NoLeak, Range
<1> QED BY <1>1, TablesInvariant, PTL
===============================================================================
