------------------------------- MODULE WindowsIO -------------------------------
(***************************************************************************)
(* What WindowsWatcher uses of the system: directory handles, which record *)
(* the changes below them; asynchronous reads of those records; and the    *)
(* completion port, which queues a packet per completed read, carrying the *)
(* key the handle was associated with: the address of a WatchItem.         *)
(* A read completes into the buffer of the item it was issued with, even   *)
(* if that is not the item of the handle.                                  *)
(***************************************************************************)
EXTENDS Files

CONSTANTS
    MaxHandle,      \* bound: large enough that CreateFileW never runs out of handles
    MaxRecords      \* the records the system keeps for a handle that nobody reads

ASSUME IOAssumption == MaxHandle \in Nat /\ MaxRecords \in Nat \ {0}

VARIABLES
    handle,         \* number -> [dir, recursive, key, reads, records, lost, dead]
    iocp,           \* the queue of packets
    heap            \* address -> WatchItem, what is freed included

ioVars == <<handle, iocp, heap>>

NoKey   == 0
Wakeup  == [key |-> NoKey, ok |-> TRUE, size |-> 0]
Packet(key, ok, size) == [key |-> key, ok |-> ok, size |-> size]
Invalid == 0

Handle    == DOMAIN handle
NewHandle == CHOOSE h \in (1 .. MaxHandle) \ Handle : TRUE

\* Whether a handle reports a change at p.
Reports(h, p) ==
    LET d == handle[h].dir IN
    p # d /\ Under(d, p) /\ (handle[h].recursive \/ Len(p) = Len(d) + 1)

\* The records a handle reports, three at most, by their names below its directory.
Relative(h, records) ==
    LET Named(k) == IF k \in DOMAIN records /\ Reports(h, records[k].path)
                    THEN <<[action |-> records[k].action,
                            name |-> SubSeq(records[k].path, Len(handle[h].dir) + 1, Len(records[k].path))]>>
                    ELSE << >>
    IN  Named(1) \o Named(2) \o Named(3)

\* Only what happens after the first read is recorded.  More than fits is lost altogether.
Recorded(records) ==
    [h \in Handle |->
       LET all == handle[h].records \o Relative(h, records) IN
       IF handle[h].key = NoKey \/ handle[h].dead THEN handle[h]
       ELSE IF Len(all) > MaxRecords \/ handle[h].lost
            THEN [handle[h] EXCEPT !.records = << >>, !.lost = TRUE]
            ELSE [handle[h] EXCEPT !.records = all]]

Losing(records) ==
    {h \in Handle : handle[h].key # NoKey /\ Relative(h, records) # << >>
        /\ (handle[h].lost \/ Len(handle[h].records \o Relative(h, records)) > MaxRecords)}

\* A read takes some of the records; after a loss it completes with no bytes; it fails if
\* the directory is gone.
CanComplete(h) ==
    /\ handle[h].key # NoKey /\ handle[h].reads # << >>
    /\ handle[h].records # << >> \/ handle[h].lost \/ handle[h].dead

Complete(h) ==
    /\ CanComplete(h)
    /\ \/ /\ handle[h].lost \/ handle[h].dead
          /\ iocp' = Append(iocp, Packet(handle[h].key, ~handle[h].dead, 0))
          /\ handle' = [handle EXCEPT ![h].reads = Tail(@), ![h].lost = FALSE]
          /\ UNCHANGED heap
       \/ \E n \in 1 .. Len(handle[h].records) :
             /\ heap' = [heap EXCEPT ![Head(handle[h].reads)].buffer = SubSeq(handle[h].records, 1, n)]
             /\ iocp' = Append(iocp, Packet(handle[h].key, TRUE, n))
             /\ handle' = [handle EXCEPT ![h].reads = Tail(@), ![h].records = SubSeq(@, n + 1, Len(@))]

\* CreateFileW; CreateIoCompletionPort gives the handle its key.
Open(d, recursive) ==
    /\ Handle # 1 .. MaxHandle
    /\ handle' = With(handle, NewHandle,
        [dir |-> d, recursive |-> recursive, key |-> NoKey, reads |-> << >>, records |-> << >>,
         lost |-> FALSE, dead |-> FALSE])

\* CancelIoEx ends the reads issued with an item, and the others move up; CloseHandle
\* ends those that are left.
Aborted(h, ok, n) == iocp' = iocp \o [k \in 1 .. n |-> Packet(handle[h].key, ok, 0)]

CancelIoEx(h, a) ==
    LET reads == handle[h].reads
        ours  == {k \in DOMAIN reads : reads[k] = a}
        rest  == DOMAIN reads \ ours
    IN  /\ Aborted(h, FALSE, Cardinality(ours))
        /\ \E at \in [1 .. Cardinality(rest) -> rest] :
              /\ \A j, k \in DOMAIN at : j < k => at[j] < at[k]
              /\ handle' = [handle EXCEPT ![h].reads = [k \in DOMAIN at |-> reads[at[k]]]]

CloseHandle(h) ==
    /\ Aborted(h, TRUE, Len(handle[h].reads))
    /\ handle' = Without(handle, {h})

\* The directory of a handle is deleted: reads fail from now on.
Died(p, handles) ==
    [h \in DOMAIN handles |->
       IF handles[h].dir = p THEN [handles[h] EXCEPT !.dead = TRUE, !.records = << >>]
       ELSE handles[h]]

\* The shape of the directory handles, their reads and the port's queue; a packet's key is an allocated watch.
IOTypeOK ==
    /\ Handle \subseteq 1 .. MaxHandle
    /\ \A h \in Handle :
          /\ handle[h].dir \in Path /\ handle[h].key \in DOMAIN heap \cup {NoKey}
          /\ Range(handle[h].reads) \subseteq DOMAIN heap
          /\ Len(handle[h].records) <= MaxRecords
    /\ \A k \in DOMAIN iocp : iocp[k] = Wakeup \/ iocp[k].key \in DOMAIN heap
    /\ \A a \in DOMAIN heap : heap[a].path \in Path /\ heap[a].hDir \in 0 .. MaxHandle
===============================================================================
