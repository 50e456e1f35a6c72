------------------------------ MODULE TimerLoop ------------------------------
(***************************************************************************)
(* The event loop of InotifyWatcher together with the timers of            *)
(* FileWatcher::Impl.  A thread that calls start() runs watchLoop: it asks *)
(* Impl for the time to the next timer, sleeps in epoll_wait, handles the  *)
(* descriptors that became ready and runs the timers that are due.  Any    *)
(* thread, the loop's own one inside a callback included, may meanwhile    *)
(* call addTimer, removeTimer or stop.  One step is one atomic operation   *)
(* of the code: a critical section of m_timersMutex, one access to the     *)
(* atomic m_running, one read of the clock, one system call.               *)
(*                                                                         *)
(* A tick of the clock is one millisecond.                                 *)
(***************************************************************************)
EXTENDS Integers, FiniteSets, SequencesExt

CONSTANTS
    Thread,     \* the threads that use one FileWatcher
    Starter,    \* the threads that may call start()
    Timer,      \* the Timer objects the user holds
    Repeating,  \* those constructed with m_repeating = true
    Timeouts,   \* the timeoutMs values addTimer is called with
    MaxWait,    \* the longest sleep (1000 in the code)
    MaxTime,    \* bound: the clock stops here
    Faults      \* what else may happen: "eintr", a file callback that "throw"s

ASSUME ThreadAssumption  == Starter \subseteq Thread
ASSUME TimerAssumption   == IsFiniteSet(Timer) /\ Repeating \subseteq Timer
ASSUME TimeAssumption    == MaxWait \in Nat \ {0} /\ MaxTime \in Nat /\ Timeouts \subseteq Nat

VARIABLES
    now,            \* steady_clock::now()
    m_timers,       \* Impl::m_timers, the registered timers in order
    m_active,       \* Timer::m_active
    m_expireTime,   \* Timer::m_expireTime
    m_intervalMs,   \* Timer::m_intervalMs
    m_running,      \* InotifyWatcher::m_running
    wakeupFd,       \* the counter of m_wakeupFd is not zero
    inotifyFd,      \* m_inotifyFd holds unread events
    pc,             \* where each thread is in start(), "out" when it is not
    call,           \* the API call each thread is in the middle of
    sleep,          \* watchLoop: the timeout, when it was computed, when epoll_wait ends
    ready,          \* watchLoop: the descriptors epoll_wait returned, not handled yet
    leaving,        \* watchLoop: past the while, in its last m_timerExpiryHandler()
    seen,           \* processExpiredTimers: now, as read at its start
    expired         \* processExpiredTimers: the batch, its head the timer being run

timerVars == <<m_timers, m_active, m_expireTime, m_intervalMs>>
fdVars    == <<wakeupFd, inotifyFd>>
loopVars  == <<sleep, ready, leaving, seen, expired>>
vars      == <<now, timerVars, m_running, fdVars, pc, call, loopVars>>

-----------------------------------------------------------------------------

NoCall  == [op |-> "none"]
NoSleep == [calc |-> 0, wait |-> 0, until |-> 0]

Calls == [op : {"none", "stop", "storeStop", "wakeup"}]
         \cup [op : {"addTimer"}, timer : Timer, timeoutMs : Timeouts, now : Nat]

\* Where a thread of watchLoop can be, from the loop's test of m_running on.
InLoop == {"while", "nextTimeout", "epollWait", "asleep", "events", "fileCallback",
           "readClock", "collect", "fire", "timerCallback"}

\* The shape of m_timers, of the loop threads in watchLoop and of the wakeup in eventfd.
TypeOK ==
    /\ now \in Nat
    /\ m_timers \in Seq(Timer)
    /\ m_active \in [Timer -> BOOLEAN]
    /\ m_expireTime \in [Timer -> Nat]
    /\ m_intervalMs \in [Timer -> Nat]
    /\ m_running \in BOOLEAN
    /\ wakeupFd \in BOOLEAN
    /\ inotifyFd \in BOOLEAN
    /\ pc \in [Thread -> {"out", "storeRunning"} \cup InLoop]
    /\ \A th \in Thread \ Starter : pc[th] = "out"
    /\ call \in [Thread -> Calls]
    /\ sleep \in [Thread -> [calc : Nat, wait : Nat, until : Nat]]
    /\ ready \in [Thread -> SUBSET {"wakeup", "inotify"}]
    /\ leaving \in [Thread -> BOOLEAN]
    /\ seen \in [Thread -> Nat]
    /\ expired \in [Thread -> Seq(Timer)]

Init ==
    /\ now = 0
    /\ m_timers = << >>
    /\ m_active = [t \in Timer |-> FALSE]
    /\ m_expireTime = [t \in Timer |-> 0]
    /\ m_intervalMs = [t \in Timer |-> 0]
    /\ m_running = FALSE
    /\ wakeupFd = FALSE
    /\ inotifyFd = FALSE
    /\ pc = [th \in Thread |-> "out"]
    /\ call = [th \in Thread |-> NoCall]
    /\ sleep = [th \in Thread |-> NoSleep]
    /\ ready = [th \in Thread |-> {}]
    /\ leaving = [th \in Thread |-> FALSE]
    /\ seen = [th \in Thread |-> 0]
    /\ expired = [th \in Thread |-> << >>]

Goto(th, label) == pc' = [pc EXCEPT ![th] = label]
Calling(th, c)  == call' = [call EXCEPT ![th] = c]

-----------------------------------------------------------------------------
(* The list of timers.                                                      *)

\* now + milliseconds(ms).  (The operators named Bug* are faulty variants: no
\* specification uses them, they show what each property rules out.)
BugDeadline(at, ms) == at - ms
Deadline(at, ms)    == at + ms

BugErased(s, t) == s

\* std::find and erase: s without its element t, if it has one.
Erased(s, t) ==
    IF t \in Range(s) THEN RemoveAt(s, CHOOSE i \in DOMAIN s : s[i] = t) ELSE s

\* std::find and push_back when the search fails.
Registering(s, t) == IF t \in Range(s) THEN s ELSE Append(s, t)

\* The elements of the set S, in the order they have in the sequence s.
InOrder(s, S) ==
    {q \in [1 .. Cardinality(S) -> S] :
        /\ Range(q) = S
        /\ \E at \in [DOMAIN q -> DOMAIN s] :
              \A i, j \in DOMAIN q : s[at[i]] = q[i] /\ (i < j => at[i] < at[j])}

RegisteredActive == {t \in Range(m_timers) : m_active[t]}

-----------------------------------------------------------------------------
(* The calls of the API, by threads outside start() or inside a callback.   *)

MayCall(th) == call[th] = NoCall /\ pc[th] \in {"out", "fileCallback", "timerCallback"}

\* addTimer reads the clock before it takes m_timersMutex.
AddTimer(th, t, timeoutMs) ==
    /\ MayCall(th)
    /\ Calling(th, [op |-> "addTimer", timer |-> t, timeoutMs |-> timeoutMs, now |-> now])
    /\ UNCHANGED <<now, timerVars, m_running, fdVars, pc, loopVars>>

Arm(c) ==
    /\ m_intervalMs' = [m_intervalMs EXCEPT ![c.timer] = c.timeoutMs]
    /\ m_expireTime' = [m_expireTime EXCEPT ![c.timer] = Deadline(c.now, c.timeoutMs)]
    /\ m_active' = [m_active EXCEPT ![c.timer] = TRUE]
    /\ m_timers' = Registering(m_timers, c.timer)

\* An addTimer that forgets the wakeup().
BugAddTimerLocked(th) ==
    /\ call[th].op = "addTimer"
    /\ Arm(call[th])
    /\ Calling(th, NoCall)
    /\ UNCHANGED <<now, m_running, fdVars, pc, loopVars>>

AddTimerLocked(th) ==
    /\ call[th].op = "addTimer"
    /\ Arm(call[th])
    /\ Calling(th, [op |-> "wakeup"])
    /\ UNCHANGED <<now, m_running, fdVars, pc, loopVars>>

RemoveTimer(th, t) ==
    /\ MayCall(th)
    /\ m_active' = [m_active EXCEPT ![t] = FALSE]
    /\ m_timers' = Erased(m_timers, t)
    /\ Calling(th, [op |-> "wakeup"])
    /\ UNCHANGED <<now, m_expireTime, m_intervalMs, m_running, fdVars, pc, loopVars>>

Wakeup(th) ==
    /\ call[th].op = "wakeup"
    /\ wakeupFd' = TRUE
    /\ Calling(th, NoCall)
    /\ UNCHANGED <<now, timerVars, m_running, inotifyFd, pc, loopVars>>

Stop(th) ==
    /\ MayCall(th)
    /\ Calling(th, [op |-> "stop"])
    /\ UNCHANGED <<now, timerVars, m_running, fdVars, pc, loopVars>>

\* A stop() that finds m_running false returns without doing anything.
StopCheck(th) ==
    /\ call[th].op = "stop"
    /\ Calling(th, IF m_running THEN [op |-> "storeStop"] ELSE NoCall)
    /\ UNCHANGED <<now, timerVars, m_running, fdVars, pc, loopVars>>

\* A stop that forgets the wakeup().
BugStopStore(th) ==
    /\ call[th].op = "storeStop"
    /\ m_running' = FALSE
    /\ Calling(th, NoCall)
    /\ UNCHANGED <<now, timerVars, fdVars, pc, loopVars>>

StopStore(th) ==
    /\ call[th].op = "storeStop"
    /\ m_running' = FALSE
    /\ Calling(th, [op |-> "wakeup"])
    /\ UNCHANGED <<now, timerVars, fdVars, pc, loopVars>>

CallStep(th) == AddTimerLocked(th) \/ Wakeup(th) \/ StopCheck(th) \/ StopStore(th)

-----------------------------------------------------------------------------
(* start() and watchLoop.                                                   *)

\* InotifyWatcher::start tests m_running and stores it in two steps; a start()
\* that finds it set returns false at once.
Start(th) ==
    /\ th \in Starter /\ pc[th] = "out" /\ call[th] = NoCall
    /\ ~m_running
    /\ Goto(th, "storeRunning")
    /\ UNCHANGED <<now, timerVars, m_running, fdVars, call, loopVars>>

StoreRunning(th) ==
    /\ pc[th] = "storeRunning"
    /\ m_running' = TRUE
    /\ Goto(th, "while")
    /\ UNCHANGED <<now, timerVars, fdVars, call, loopVars>>

\* A loop that does not look at m_running.
BugWhile(th) ==
    /\ pc[th] = "while"
    /\ Goto(th, "nextTimeout")
    /\ UNCHANGED <<now, timerVars, m_running, fdVars, call, loopVars>>

\* The condition of the while; past it the expired timers are run once more.
While(th) ==
    /\ pc[th] = "while"
    /\ Goto(th, IF m_running THEN "nextTimeout" ELSE "readClock")
    /\ leaving' = [leaving EXCEPT ![th] = ~m_running]
    /\ UNCHANGED <<now, timerVars, m_running, fdVars, call, sleep, ready, seen, expired>>

\* The value of getNextTimeoutMs: 0 when an active timer is due, else the time to
\* the first one, MaxWait at most.
IsNextTimeout(w) ==
    /\ \A t \in RegisteredActive : w = 0 \/ now + w <= m_expireTime[t]
    /\ w = MaxWait \/ \E t \in RegisteredActive : m_expireTime[t] <= now + w

NextTimeout(th) ==
    /\ pc[th] = "nextTimeout"
    /\ \E w \in 0 .. MaxWait :
         /\ IsNextTimeout(w)
         /\ sleep' = [sleep EXCEPT ![th] = [calc |-> now, wait |-> w, until |-> now]]
    /\ Goto(th, "epollWait")
    /\ UNCHANGED <<now, timerVars, m_running, fdVars, call, ready, leaving, seen, expired>>

\* When a sleep of w that begins now ends; one that would outlast the clock ends with it.
SleepEnd(w) == IF now + w <= MaxTime THEN now + w ELSE MaxTime

EpollWait(th) ==
    /\ pc[th] = "epollWait"
    /\ sleep' = [sleep EXCEPT ![th].until = SleepEnd(sleep[th].wait)]
    /\ Goto(th, "asleep")
    /\ UNCHANGED <<now, timerVars, m_running, fdVars, call, ready, leaving, seen, expired>>

\* Both descriptors are registered level-triggered.
ReadyFds == {fd \in {"wakeup", "inotify"} : IF fd = "wakeup" THEN wakeupFd ELSE inotifyFd}

\* if (nfds == 0) continue;
BugEpollReturn(th) ==
    /\ pc[th] = "asleep"
    /\ ReadyFds # {} \/ now >= sleep[th].until
    /\ ready' = [ready EXCEPT ![th] = ReadyFds]
    /\ sleep' = [sleep EXCEPT ![th] = NoSleep]
    /\ Goto(th, IF ReadyFds = {} THEN "while" ELSE "events")
    /\ UNCHANGED <<now, timerVars, m_running, fdVars, call, leaving, seen, expired>>

EpollReturn(th) ==
    /\ pc[th] = "asleep"
    /\ ReadyFds # {} \/ now >= sleep[th].until
    /\ ready' = [ready EXCEPT ![th] = ReadyFds]
    /\ sleep' = [sleep EXCEPT ![th] = NoSleep]
    /\ Goto(th, "events")
    /\ UNCHANGED <<now, timerVars, m_running, fdVars, call, leaving, seen, expired>>

\* A signal interrupts the sleep: continue, past the timers.
Interrupted(th) ==
    /\ "eintr" \in Faults
    /\ pc[th] = "asleep" /\ ReadyFds = {} /\ now < sleep[th].until
    /\ sleep' = [sleep EXCEPT ![th] = NoSleep]
    /\ Goto(th, "while")
    /\ UNCHANGED <<now, timerVars, m_running, fdVars, call, ready, leaving, seen, expired>>

\* The loop over events[], whose order the kernel chooses.
ReadWakeup(th) ==
    /\ pc[th] = "events" /\ "wakeup" \in ready[th]
    /\ wakeupFd' = FALSE
    /\ ready' = [ready EXCEPT ![th] = @ \ {"wakeup"}]
    /\ UNCHANGED <<now, timerVars, m_running, inotifyFd, pc, call, sleep, leaving, seen, expired>>

\* One read() of events; they reach the user's file callbacks, or a filter stops them.
ReadInotify(th) ==
    /\ pc[th] = "events" /\ "inotify" \in ready[th]
    /\ inotifyFd' = FALSE
    /\ ready' = [ready EXCEPT ![th] = @ \ {"inotify"}]
    /\ \E label \in {"events", "fileCallback"} : Goto(th, label)
    /\ UNCHANGED <<now, timerVars, m_running, wakeupFd, call, sleep, leaving, seen, expired>>

FileCallbackReturn(th) ==
    /\ pc[th] = "fileCallback" /\ call[th] = NoCall
    /\ Goto(th, "events")
    /\ UNCHANGED <<now, timerVars, m_running, fdVars, call, loopVars>>

\* dispatchEvent catches nothing: the exception leaves watchLoop and Impl::start
\* returns false.  m_running keeps its value.
FileCallbackThrow(th) ==
    /\ "throw" \in Faults
    /\ pc[th] = "fileCallback" /\ call[th] = NoCall
    /\ Goto(th, "out")
    /\ ready' = [ready EXCEPT ![th] = {}]
    /\ UNCHANGED <<now, timerVars, m_running, fdVars, call, sleep, leaving, seen, expired>>

EventsDone(th) ==
    /\ pc[th] = "events" /\ ready[th] = {}
    /\ Goto(th, "readClock")
    /\ UNCHANGED <<now, timerVars, m_running, fdVars, call, loopVars>>

-----------------------------------------------------------------------------
(* Impl::processExpiredTimers.                                              *)

ReadClock(th) ==
    /\ pc[th] = "readClock"
    /\ seen' = [seen EXCEPT ![th] = now]
    /\ Goto(th, "collect")
    /\ UNCHANGED <<now, timerVars, m_running, fdVars, call, sleep, ready, leaving, expired>>

\* The first critical section: drop the inactive timers, take the due ones in the
\* order of the list, and re-arm those that repeat.
Collect(th) ==
    /\ pc[th] = "collect"
    /\ LET due == {t \in RegisteredActive : m_expireTime[t] <= seen[th]} IN
         /\ \E q \in InOrder(m_timers, due) : expired' = [expired EXCEPT ![th] = q]
         /\ \E q \in InOrder(m_timers, RegisteredActive) : m_timers' = q
         /\ m_expireTime' = [t \in Timer |-> IF t \in due /\ t \in Repeating
                                             THEN Deadline(seen[th], m_intervalMs[t])
                                             ELSE m_expireTime[t]]
    /\ Goto(th, "fire")
    /\ UNCHANGED <<now, m_active, m_intervalMs, m_running, fdVars, call,
                   sleep, ready, leaving, seen>>

\* The second one, once per timer of the batch: skip it when it is no longer
\* active, retire it when it is one-shot; its callback runs after the unlock.
Fire(th) ==
    /\ pc[th] = "fire" /\ expired[th] # << >>
    /\ LET t == Head(expired[th]) IN
         /\ m_active[t]
         /\ m_active' = [m_active EXCEPT ![t] = t \in Repeating]
         /\ m_timers' = IF t \in Repeating THEN m_timers ELSE Erased(m_timers, t)
    /\ Goto(th, "timerCallback")
    /\ UNCHANGED <<now, m_expireTime, m_intervalMs, m_running, fdVars, call, loopVars>>

Skip(th) ==
    /\ pc[th] = "fire" /\ expired[th] # << >>
    /\ ~m_active[Head(expired[th])]
    /\ expired' = [expired EXCEPT ![th] = Tail(@)]
    /\ UNCHANGED <<now, timerVars, m_running, fdVars, pc, call, sleep, ready, leaving, seen>>

\* A callback that throws is caught, and the loop over the batch goes on.
TimerCallbackReturn(th) ==
    /\ pc[th] = "timerCallback" /\ call[th] = NoCall
    /\ expired' = [expired EXCEPT ![th] = Tail(@)]
    /\ Goto(th, "fire")
    /\ UNCHANGED <<now, timerVars, m_running, fdVars, call, sleep, ready, leaving, seen>>

FireDone(th) ==
    /\ pc[th] = "fire" /\ expired[th] = << >>
    /\ Goto(th, IF leaving[th] THEN "out" ELSE "while")
    /\ leaving' = [leaving EXCEPT ![th] = FALSE]
    /\ seen' = [seen EXCEPT ![th] = 0]
    /\ UNCHANGED <<now, timerVars, m_running, fdVars, call, sleep, ready, expired>>

-----------------------------------------------------------------------------

Tick ==
    /\ now < MaxTime
    /\ now' = now + 1
    /\ UNCHANGED <<timerVars, m_running, fdVars, pc, call, loopVars>>

\* The kernel queues events of the watched directories.
FsEvent ==
    /\ inotifyFd' = TRUE
    /\ UNCHANGED <<now, timerVars, m_running, wakeupFd, pc, call, loopVars>>

ClientCall(th) ==
    \/ \E t \in Timer, ms \in Timeouts : AddTimer(th, t, ms)
    \/ \E t \in Timer : RemoveTimer(th, t)
    \/ Stop(th)

LoopStep(th) ==
    \/ StoreRunning(th) \/ While(th) \/ NextTimeout(th) \/ EpollWait(th) \/ EpollReturn(th)
    \/ ReadWakeup(th) \/ ReadInotify(th) \/ EventsDone(th)
    \/ ReadClock(th) \/ Collect(th) \/ Fire(th) \/ Skip(th) \/ FireDone(th)

CallbackReturn(th) == FileCallbackReturn(th) \/ TimerCallbackReturn(th)

Next ==
    \/ \E th \in Thread :
          \/ ClientCall(th) \/ CallStep(th)
          \/ Start(th) \/ LoopStep(th) \/ CallbackReturn(th)
          \/ Interrupted(th) \/ FileCallbackThrow(th)
    \/ Tick
    \/ FsEvent

Spec == Init /\ [][Next]_vars

\* The scheduler runs every thread, the clock goes on, and user callbacks end: a
\* callback may keep calling the API, but not for ever.
Fairness ==
    /\ WF_vars(Tick)
    /\ \A th \in Thread : WF_vars(CallStep(th)) /\ WF_vars(LoopStep(th)) /\ SF_vars(CallbackReturn(th))

FairSpec == Spec /\ Fairness

-----------------------------------------------------------------------------
(* Safety.                                                                  *)

\* m_timers holds the active timers, each of them once: no path of addTimer,
\* removeTimer or processExpiredTimers leaves an active timer out of the list
\* (it would never run), a retired one in it, or one timer in it twice.
Registered ==
    /\ IsInjective(m_timers)
    /\ Range(m_timers) = {t \in Timer : m_active[t]}

\* The callback that runs is that of the head of the batch.
BatchInHand == \A th \in Thread : pc[th] = "timerCallback" => expired[th] # << >>

WakeupPending == wakeupFd \/ \E th \in Thread : call[th].op = "wakeup"

\* A loop that is about to sleep or asleep does not sleep past an active timer,
\* unless something is about to wake it: no addTimer between the computation of
\* the timeout and epoll_wait, or during the sleep, is overslept.
NoOversleep ==
    \A th \in Thread : pc[th] \in {"epollWait", "asleep"} =>
        \/ WakeupPending
        \/ \A t \in Timer : m_active[t] =>
              sleep[th].wait = 0 \/ sleep[th].calc + sleep[th].wait <= m_expireTime[t]

\* A loop that has tested m_running and goes to sleep while stop() clears it finds
\* the wakeup of that stop().
StopIsHeard ==
    \A th \in Thread : pc[th] \in {"nextTimeout", "epollWait", "asleep"} =>
        m_running \/ WakeupPending

-----------------------------------------------------------------------------
(* Liveness.                                                                *)

\* Once stop() has cleared m_running, start() returns: there is no path on which
\* the loop sleeps on, or goes round, for ever.
StopEndsLoop ==
    \A th \in Starter : (pc[th] \in InLoop /\ ~m_running) ~> pc[th] = "out"

Due(t)    == m_active[t] /\ m_expireTime[t] <= now
Firing(t) == \E th \in Starter : pc[th] = "timerCallback" /\ Head(expired[th]) = t

\* While the loop runs, a timer that is due is run, removed or re-armed for later:
\* no order of sleeps, wakeups and interrupts starves it.
DueIsServiced ==
    \A th \in Starter, t \in Timer :
        (Due(t) /\ pc[th] \in InLoop) ~> (Firing(t) \/ ~Due(t) \/ pc[th] = "out")
==============================================================================
