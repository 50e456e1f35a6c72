--------------------------- MODULE TimerLoopProofs ---------------------------
(***************************************************************************)
(* Proofs about TimerLoop, for every set of threads and timers, every      *)
(* bound and every fault.                                                  *)
(***************************************************************************)
EXTENDS TimerLoop, SequenceTheorems, FiniteSetTheorems, TLAPS

-----------------------------------------------------------------------------
(* The operators on the list of timers.                                     *)

\* std::find and erase leave a list of timers; from one without duplicates they
\* remove exactly the timer they look for.
LEMMA ErasedProperties ==
  ASSUME NEW s \in Seq(Timer), NEW t
  PROVE  /\ Erased(s, t) \in Seq(Timer)
         /\ IsInjective(s) => IsInjective(Erased(s, t)) /\ Range(Erased(s, t)) = Range(s) \ {t}
<1>1. CASE t \notin Range(s)
  BY <1>1 DEF Erased
<1>2. CASE t \in Range(s)
  <2> DEFINE k == CHOOSE i \in DOMAIN s : s[i] = t
             a == SubSeq(s, 1, k - 1)
             b == SubSeq(s, k + 1, Len(s))
             e == Erased(s, t)
  <2>1. k \in 1 .. Len(s) /\ s[k] = t /\ Len(s) \in Nat /\ DOMAIN s = 1 .. Len(s)
    BY <1>2, LenProperties DEF Range
  <2>2. a \in Seq(Timer) /\ Len(a) = k - 1 /\ \A i \in 1 .. k - 1 : a[i] = s[i]
    BY <2>1, SubSeqProperties, LenProperties
  <2>3. /\ b \in Seq(Timer) /\ Len(b) = Len(s) - k
        /\ \A i \in 1 .. Len(s) - k : b[i] = s[i + k]
    BY <2>1, SubSeqProperties, LenProperties
  <2>4. e = a \o b
    BY <1>2 DEF Erased, RemoveAt
  <2> HIDE DEF k, a, b, e
  <2>5. /\ e \in Seq(Timer) /\ DOMAIN e = 1 .. Len(s) - 1
        /\ \A i \in 1 .. Len(s) - 1 : e[i] = IF i <= k - 1 THEN s[i] ELSE s[i + 1]
    <3>1. /\ e \in Seq(Timer) /\ Len(e) = Len(a) + Len(b)
          /\ \A i \in 1 .. Len(a) + Len(b) : e[i] = IF i <= Len(a) THEN a[i] ELSE b[i - Len(a)]
      BY <2>2, <2>3, <2>4, ConcatProperties
    <3>2. Len(a) + Len(b) = Len(s) - 1 /\ DOMAIN e = 1 .. Len(s) - 1
      BY <2>1, <2>2, <2>3, <3>1, LenProperties
    <3>3. ASSUME NEW i \in 1 .. Len(s) - 1 PROVE e[i] = IF i <= k - 1 THEN s[i] ELSE s[i + 1]
      <4>1. CASE i <= k - 1
        BY <4>1, <3>1, <3>2, <2>1, <2>2
      <4>2. CASE ~(i <= k - 1)
        <5>1. i - (k - 1) \in 1 .. Len(s) - k /\ (i - (k - 1)) + k = i + 1
          BY <4>2, <2>1
        <5> QED BY <4>2, <5>1, <3>1, <3>2, <2>1, <2>2, <2>3
      <4> QED BY <4>1, <4>2
    <3> QED BY <3>1, <3>2, <3>3
  <2>6. ASSUME IsInjective(s) PROVE IsInjective(e)
    <3> SUFFICES ASSUME NEW i \in DOMAIN e, NEW j \in DOMAIN e, e[i] = e[j] PROVE i = j
      BY DEF IsInjective
    <3>1. \A m, n \in 1 .. Len(s) : s[m] = s[n] => m = n
      BY <2>1, <2>6 DEF IsInjective
    <3> QED BY <3>1, <2>1, <2>5
  <2>7. \A i \in DOMAIN s : i # k => \E j \in DOMAIN e : e[j] = s[i]
    <3> TAKE i \in DOMAIN s
    <3>1. CASE i < k
      BY <3>1, <2>1, <2>5
    <3>2. CASE i > k
      <4>1. i - 1 \in DOMAIN e /\ e[i - 1] = s[i]
        BY <3>2, <2>1, <2>5
      <4> QED BY <4>1
    <3> QED BY <3>1, <3>2, <2>1
  <2>8. ASSUME IsInjective(s) PROVE Range(e) = Range(s) \ {t}
    <3>1. \A m, n \in 1 .. Len(s) : s[m] = s[n] => m = n
      BY <2>1, <2>8 DEF IsInjective
    <3>2. \A j \in DOMAIN e : e[j] \in Range(s) \ {t}
      BY <3>1, <2>1, <2>5 DEF Range
    <3>3. \A i \in DOMAIN s : s[i] # t => s[i] \in Range(e)
      BY <2>1, <2>7 DEF Range
    <3> QED BY <3>2, <3>3 DEF Range
  <2> QED
    BY <2>5, <2>6, <2>8 DEF e
<1> QED
  BY <1>1, <1>2

\* std::find and push_back add the timer unless it is there.
LEMMA RegisteringProperties ==
  ASSUME NEW s \in Seq(Timer), NEW t \in Timer
  PROVE  /\ Registering(s, t) \in Seq(Timer)
         /\ IsInjective(s) => IsInjective(Registering(s, t))
         /\ Range(Registering(s, t)) = Range(s) \cup {t}
<1>1. CASE t \in Range(s)
  BY <1>1 DEF Registering
<1>2. CASE t \notin Range(s)
  <2> DEFINE a == Append(s, t)
  <2>1. /\ a \in Seq(Timer) /\ DOMAIN a = 1 .. Len(s) + 1
        /\ \A i \in 1 .. Len(s) : a[i] = s[i]
        /\ a[Len(s) + 1] = t
        /\ DOMAIN s = 1 .. Len(s) /\ Len(s) \in Nat
    BY AppendProperties, LenProperties
  <2> HIDE DEF a
  <2>2. IsInjective(s) => IsInjective(a)
    BY <1>2, <2>1 DEF IsInjective, Range
  <2>3. Range(a) = Range(s) \cup {t}
    <3>1. Range(a) \subseteq Range(s) \cup {t}
      BY <2>1 DEF Range
    <3>2. \A i \in DOMAIN s : s[i] \in Range(a)
      BY <2>1 DEF Range
    <3>3. t \in Range(a)
      BY <2>1 DEF Range
    <3> QED BY <3>1, <3>2, <3>3 DEF Range
  <2> QED
    BY <1>2, <2>1, <2>2, <2>3 DEF Registering, a
<1> QED
  BY <1>1, <1>2

\* A selection from the list holds each timer of S once.
LEMMA InOrderProperties ==
  ASSUME NEW s \in Seq(Timer), NEW S \in SUBSET Timer, NEW q \in InOrder(s, S)
  PROVE  /\ q \in Seq(Timer)
         /\ IsInjective(s) => IsInjective(q)
         /\ Range(q) = S
<1>1. Cardinality(S) \in Nat
  BY TimerAssumption, FS_Subset, FS_CardinalityType
<1>2. q \in [1 .. Cardinality(S) -> S] /\ Range(q) = S
  BY DEF InOrder
<1>3. q \in Seq(Timer)
  BY <1>1, <1>2, SeqDef
<1>4. PICK at \in [DOMAIN q -> DOMAIN s] :
        \A i, j \in DOMAIN q : s[at[i]] = q[i] /\ (i < j => at[i] < at[j])
  BY DEF InOrder
<1>5. DOMAIN q \subseteq Int /\ DOMAIN s \subseteq Int
  BY <1>1, <1>2, LenProperties
<1>6. ASSUME IsInjective(s) PROVE IsInjective(q)
  BY <1>4, <1>5, <1>6 DEF IsInjective
<1> QED
  BY <1>2, <1>3, <1>6

-----------------------------------------------------------------------------
(* Type correctness.                                                        *)

TypeInv == TypeOK /\ BatchInHand

LEMMA InitType == Init => TypeInv
<1>1. << >> \in Seq(Timer)
  BY EmptySeq
<1>2. NoCall \in Calls /\ NoSleep \in [calc : Nat, wait : Nat, until : Nat]
  BY DEF NoCall, Calls, NoSleep
<1>3. ASSUME Init PROVE BatchInHand
  BY <1>3 DEF Init, BatchInHand
<1>4. ASSUME Init PROVE TypeOK
  BY <1>1, <1>2, <1>4 DEF Init, TypeOK, InLoop
<1> QED
  BY <1>3, <1>4 DEF TypeInv

LEMMA CallType ==
  ASSUME TypeInv, NEW th \in Thread, CallStep(th) \/ ClientCall(th)
  PROVE  TypeInv'
<1> USE DEF TypeInv, TypeOK, BatchInHand
<1>1. ASSUME NEW t \in Timer, NEW ms \in Timeouts, AddTimer(th, t, ms) PROVE TypeInv'
  BY <1>1 DEF AddTimer, Calling, Calls, timerVars, fdVars, loopVars
<1>2. CASE AddTimerLocked(th)
  <2> DEFINE c == call[th]
  <2>1. c.timer \in Timer /\ c.timeoutMs \in Nat /\ c.now \in Nat
    BY <1>2, TimeAssumption DEF AddTimerLocked, Calls
  <2>2. m_timers' \in Seq(Timer)
    BY <1>2, <2>1, RegisteringProperties DEF AddTimerLocked, Arm
  <2>3. /\ m_expireTime' \in [Timer -> Nat] /\ m_intervalMs' \in [Timer -> Nat]
        /\ m_active' \in [Timer -> BOOLEAN]
    BY <1>2, <2>1 DEF AddTimerLocked, Arm, Deadline
  <2> QED
    BY <1>2, <2>2, <2>3 DEF AddTimerLocked, Calling, Calls, fdVars, loopVars
<1>3. ASSUME NEW t \in Timer, RemoveTimer(th, t) PROVE TypeInv'
  BY <1>3, ErasedProperties DEF RemoveTimer, Calling, Calls, fdVars, loopVars
<1>4. CASE Wakeup(th)
  BY <1>4 DEF Wakeup, Calling, Calls, NoCall, timerVars, loopVars
<1>5. CASE Stop(th)
  BY <1>5 DEF Stop, Calling, Calls, timerVars, fdVars, loopVars
<1>6. CASE StopCheck(th)
  BY <1>6 DEF StopCheck, Calling, Calls, NoCall, timerVars, fdVars, loopVars
<1>7. CASE StopStore(th)
  BY <1>7 DEF StopStore, Calling, Calls, timerVars, fdVars, loopVars
<1> QED
  BY <1>1, <1>2, <1>3, <1>4, <1>5, <1>6, <1>7 DEF CallStep, ClientCall

LEMMA LoopType ==
  ASSUME TypeInv, NEW th \in Thread, LoopStep(th)
  PROVE  TypeInv'
<1> USE DEF TypeInv, TypeOK, BatchInHand, Goto, timerVars, fdVars, loopVars, InLoop
<1>1. CASE StoreRunning(th)
  BY <1>1 DEF StoreRunning
<1>2. CASE While(th)
  BY <1>2 DEF While
<1>3. CASE NextTimeout(th)
  BY <1>3, TimeAssumption DEF NextTimeout
<1>4. CASE EpollWait(th)
  <2>1. SleepEnd(sleep[th].wait) \in Nat
    BY TimeAssumption DEF SleepEnd
  <2>2. sleep' \in [Thread -> [calc : Nat, wait : Nat, until : Nat]]
    BY <1>4, <2>1 DEF EpollWait
  <2> QED
    BY <1>4, <2>2 DEF EpollWait
<1>5. CASE EpollReturn(th)
  BY <1>5 DEF EpollReturn, NoSleep, ReadyFds
<1>6. CASE ReadWakeup(th)
  BY <1>6 DEF ReadWakeup
<1>7. CASE ReadInotify(th)
  BY <1>7 DEF ReadInotify
<1>8. CASE EventsDone(th)
  BY <1>8 DEF EventsDone
<1>9. CASE ReadClock(th)
  BY <1>9 DEF ReadClock
<1>10. CASE Collect(th)
  <2> DEFINE due == {t \in RegisteredActive : m_expireTime[t] <= seen[th]}
  <2>1. RegisteredActive \in SUBSET Timer
    BY RangeOfSeq DEF RegisteredActive
  <2>2. PICK q \in InOrder(m_timers, due) : expired' = [expired EXCEPT ![th] = q]
    BY <1>10 DEF Collect
  <2>3. q \in Seq(Timer)
    BY <2>1, <2>2, InOrderProperties
  <2>4. m_timers' \in Seq(Timer)
    BY <1>10, <2>1, InOrderProperties DEF Collect
  <2>5. m_expireTime' \in [Timer -> Nat]
    BY <1>10 DEF Collect, Deadline
  <2> QED
    BY <1>10, <2>2, <2>3, <2>4, <2>5 DEF Collect
<1>11. CASE Fire(th)
  <2>1. m_timers' \in Seq(Timer) /\ m_active' \in [Timer -> BOOLEAN]
    BY <1>11, ErasedProperties DEF Fire
  <2> QED
    BY <1>11, <2>1 DEF Fire
<1>12. CASE Skip(th)
  <2>1. Tail(expired[th]) \in Seq(Timer)
    BY <1>12, HeadTailProperties DEF Skip
  <2> QED
    BY <1>12, <2>1 DEF Skip
<1>13. CASE FireDone(th)
  BY <1>13 DEF FireDone
<1> QED
  BY <1>1, <1>2, <1>3, <1>4, <1>5, <1>6, <1>7, <1>8, <1>9, <1>10, <1>11, <1>12, <1>13 DEF LoopStep

LEMMA NextType == TypeInv /\ [Next]_vars => TypeInv'
<1> SUFFICES ASSUME TypeInv, [Next]_vars PROVE TypeInv'
  OBVIOUS
<1> USE DEF TypeInv, TypeOK, BatchInHand, Goto, timerVars, fdVars, loopVars, InLoop
<1>1. ASSUME NEW th \in Thread, CallStep(th) \/ ClientCall(th) PROVE TypeInv'
  BY <1>1, CallType
<1>2. ASSUME NEW th \in Thread, Start(th) PROVE TypeInv'
  BY <1>2 DEF Start
<1>3. ASSUME NEW th \in Thread, LoopStep(th) PROVE TypeInv'
  BY <1>3, LoopType
<1>4. ASSUME NEW th \in Thread, CallbackReturn(th) PROVE TypeInv'
  <2>1. CASE FileCallbackReturn(th)
    BY <2>1 DEF FileCallbackReturn
  <2>2. CASE TimerCallbackReturn(th)
    <3>1. Tail(expired[th]) \in Seq(Timer)
      BY <2>2, HeadTailProperties DEF TimerCallbackReturn
    <3> QED
      BY <2>2, <3>1 DEF TimerCallbackReturn
  <2> QED
    BY <1>4, <2>1, <2>2 DEF CallbackReturn
<1>5. ASSUME NEW th \in Thread, Interrupted(th) PROVE TypeInv'
  BY <1>5 DEF Interrupted, NoSleep
<1>6. ASSUME NEW th \in Thread, FileCallbackThrow(th) PROVE TypeInv'
  BY <1>6 DEF FileCallbackThrow
<1>7. CASE Tick
  BY <1>7 DEF Tick
<1>8. CASE FsEvent
  BY <1>8 DEF FsEvent
<1>9. CASE UNCHANGED vars
  BY <1>9 DEF vars
<1> QED
  BY <1>1, <1>2, <1>3, <1>4, <1>5, <1>6, <1>7, <1>8, <1>9 DEF Next

\* Every variable keeps its type, whatever the threads, timers and bounds.
THEOREM TypeCorrect == Spec => []TypeOK
<1>1. TypeInv => TypeOK
  BY DEF TypeInv
<1> QED
  BY <1>1, InitType, NextType, PTL DEF Spec

-----------------------------------------------------------------------------
(* The list of timers holds the active timers, each once.                   *)

LEMMA InitRegistered == Init => Registered
<1>1. ASSUME Init PROVE IsInjective(m_timers) /\ Range(m_timers) = {}
  BY <1>1, EmptySeq, LenProperties DEF Init, IsInjective, Range
<1> QED
  BY <1>1 DEF Init, Registered

LEMMA NextRegistered == TypeInv /\ Registered /\ [Next]_vars => Registered'
<1> SUFFICES ASSUME TypeInv, Registered, [Next]_vars PROVE Registered'
  OBVIOUS
<1> USE DEF Registered
<1>0. m_timers \in Seq(Timer) /\ m_active \in [Timer -> BOOLEAN]
  BY DEF TypeInv, TypeOK
<1>1. ASSUME NEW th \in Thread, AddTimerLocked(th) PROVE Registered'
  <2>1. call[th].timer \in Timer
    BY <1>1 DEF AddTimerLocked, TypeInv, TypeOK, Calls
  <2>2. /\ m_active' = [m_active EXCEPT ![call[th].timer] = TRUE]
        /\ m_timers' = Registering(m_timers, call[th].timer)
    BY <1>1 DEF AddTimerLocked, Arm
  <2>3. IsInjective(m_timers') /\ Range(m_timers') = Range(m_timers) \cup {call[th].timer}
    BY <1>0, <2>1, <2>2, RegisteringProperties
  <2> QED
    BY <1>0, <2>1, <2>2, <2>3
<1>2. ASSUME NEW th \in Thread, NEW t \in Timer, RemoveTimer(th, t) PROVE Registered'
  <2>1. IsInjective(m_timers') /\ Range(m_timers') = Range(m_timers) \ {t}
    BY <1>0, <1>2, ErasedProperties DEF RemoveTimer
  <2> QED
    BY <1>0, <1>2, <2>1 DEF RemoveTimer
<1>3. ASSUME NEW th \in Thread, Collect(th) PROVE Registered'
  <2>1. RegisteredActive \in SUBSET Timer /\ RegisteredActive = {t \in Timer : m_active[t]}
    BY <1>0, RangeOfSeq DEF RegisteredActive
  <2>2. IsInjective(m_timers') /\ Range(m_timers') = RegisteredActive
    BY <1>0, <1>3, <2>1, InOrderProperties DEF Collect
  <2> QED
    BY <1>3, <2>1, <2>2 DEF Collect
<1>4. ASSUME NEW th \in Thread, Fire(th) PROVE Registered'
  <2> DEFINE t == Head(expired[th])
  <2>1. t \in Timer
    BY <1>4, HeadTailProperties DEF Fire, TypeInv, TypeOK
  <2>2. CASE t \in Repeating
    BY <1>0, <1>4, <2>1, <2>2 DEF Fire
  <2>3. CASE t \notin Repeating
    <3>1. IsInjective(m_timers') /\ Range(m_timers') = Range(m_timers) \ {t}
      BY <1>0, <1>4, <2>3, ErasedProperties DEF Fire
    <3> QED
      BY <1>0, <1>4, <2>1, <2>3, <3>1 DEF Fire
  <2> QED
    BY <2>2, <2>3
<1>5. CASE UNCHANGED <<m_timers, m_active>>
  BY <1>5
<1>6. ASSUME NEW th \in Thread, LoopStep(th), ~Collect(th), ~Fire(th)
      PROVE  UNCHANGED <<m_timers, m_active>>
  BY <1>6 DEF LoopStep, StoreRunning, While, NextTimeout, EpollWait, EpollReturn, ReadWakeup,
       ReadInotify, EventsDone, ReadClock, Skip, FireDone, timerVars
<1>7. ASSUME NEW th \in Thread,
             \/ Wakeup(th) \/ StopCheck(th) \/ StopStore(th) \/ Stop(th)
             \/ \E t \in Timer, ms \in Timeouts : AddTimer(th, t, ms)
             \/ Start(th) \/ CallbackReturn(th) \/ Interrupted(th) \/ FileCallbackThrow(th)
      PROVE  UNCHANGED <<m_timers, m_active>>
  BY <1>7 DEF Wakeup, StopCheck, StopStore, Stop, AddTimer, Start, CallbackReturn,
       FileCallbackReturn, TimerCallbackReturn, Interrupted, FileCallbackThrow, timerVars
<1>8. CASE Tick \/ FsEvent \/ UNCHANGED vars
  BY <1>5, <1>8 DEF Tick, FsEvent, vars, timerVars
<1> QED
  BY <1>1, <1>2, <1>3, <1>4, <1>5, <1>6, <1>7, <1>8 DEF Next, ClientCall, CallStep

\* addTimer, removeTimer and processExpiredTimers, in any interleaving, keep in
\* m_timers exactly the active timers, and each of them once.
THEOREM ListIsExact == Spec => []Registered
BY InitType, NextType, InitRegistered, NextRegistered, PTL DEF Spec

-----------------------------------------------------------------------------
(* The sleep in epoll_wait, when one thread alone calls start().            *)

SleepInv == NoOversleep /\ StopIsHeard

\* A step of the loop preserves both: it leaves the sleep, or enters it with the
\* timeout it has just computed.
LEMMA LoopSleep ==
  ASSUME TypeInv, Registered, SleepInv, \A a, b \in Starter : a = b,
         NEW th \in Thread, th \in Starter, LoopStep(th)
  PROVE  SleepInv'
<1> USE DEF SleepInv, NoOversleep, StopIsHeard, WakeupPending, TypeInv, TypeOK, Goto
<1>0. \A other \in Thread : other # th => pc'[other] = "out"
  BY DEF LoopStep, StoreRunning, While, NextTimeout, EpollWait, EpollReturn, ReadWakeup,
     ReadInotify, EventsDone, ReadClock, Collect, Fire, Skip, FireDone
<1>1. CASE StoreRunning(th)
  BY <1>0, <1>1 DEF StoreRunning
<1>2. CASE While(th)
  BY <1>0, <1>2 DEF While, fdVars
<1>3. CASE NextTimeout(th)
  <2>1. PICK w \in 0 .. MaxWait :
          IsNextTimeout(w) /\ sleep' = [sleep EXCEPT ![th] = [calc |-> now, wait |-> w, until |-> now]]
    BY <1>3 DEF NextTimeout
  <2>2. \A t \in Timer : m_active[t] => w = 0 \/ now + w <= m_expireTime[t]
    BY <2>1 DEF IsNextTimeout, RegisteredActive, Registered
  <2> QED
    BY <1>0, <1>3, <2>1, <2>2 DEF NextTimeout, timerVars, fdVars
<1>4. CASE EpollWait(th)
  BY <1>0, <1>4 DEF EpollWait, timerVars, fdVars
<1>5. ASSUME pc'[th] \notin {"nextTimeout", "epollWait", "asleep"} PROVE SleepInv'
  BY <1>0, <1>5
<1>6. CASE EpollReturn(th) \/ Collect(th) \/ Fire(th) \/ EventsDone(th) \/ ReadClock(th) \/ ReadInotify(th)
  BY <1>5, <1>6 DEF EpollReturn, Collect, Fire, EventsDone, ReadClock, ReadInotify
<1>7. CASE ReadWakeup(th) \/ Skip(th) \/ FireDone(th)
  BY <1>5, <1>7 DEF ReadWakeup, Skip, FireDone
<1> QED
  BY <1>1, <1>2, <1>3, <1>4, <1>6, <1>7 DEF LoopStep

\* A call preserves both: addTimer and stop leave a wakeup pending behind what
\* they change, and wakeup() turns a pending one into a readable descriptor.
LEMMA CallSleep ==
  ASSUME TypeInv, SleepInv, NEW th \in Thread, CallStep(th) \/ ClientCall(th)
  PROVE  SleepInv'
<1> USE DEF SleepInv, NoOversleep, StopIsHeard, WakeupPending, TypeInv, TypeOK, Calling,
        loopVars, fdVars
<1>1. CASE AddTimerLocked(th) \/ StopStore(th) \/ \E t \in Timer : RemoveTimer(th, t)
  <2>1. call'[th].op = "wakeup"
    BY <1>1 DEF AddTimerLocked, StopStore, RemoveTimer
  <2> QED
    BY <2>1
<1>2. CASE Wakeup(th)
  BY <1>2 DEF Wakeup
<1>3. CASE StopCheck(th) \/ Stop(th) \/ \E t \in Timer, ms \in Timeouts : AddTimer(th, t, ms)
  <2>1. call[th].op # "wakeup" /\ \A other \in Thread : other # th => call'[other] = call[other]
    BY <1>3 DEF StopCheck, Stop, AddTimer, MayCall, NoCall
  <2>2. UNCHANGED <<m_running, wakeupFd, pc, sleep, m_active, m_expireTime>>
    BY <1>3 DEF StopCheck, Stop, AddTimer, timerVars
  <2> QED
    BY <2>1, <2>2
<1> QED
  BY <1>1, <1>2, <1>3 DEF CallStep, ClientCall

LEMMA NextSleep ==
  ASSUME TypeInv, Registered, SleepInv, \A a, b \in Starter : a = b, [Next]_vars
  PROVE  SleepInv'
<1> USE DEF SleepInv, NoOversleep, StopIsHeard, WakeupPending, TypeInv, TypeOK, Goto
<1>1. ASSUME NEW th \in Thread, CallStep(th) \/ ClientCall(th) PROVE SleepInv'
  BY <1>1, CallSleep
<1>2. ASSUME NEW th \in Thread, LoopStep(th) PROVE SleepInv'
  <2>1. th \in Starter
    BY <1>2 DEF LoopStep, StoreRunning, While, NextTimeout, EpollWait, EpollReturn, ReadWakeup,
       ReadInotify, EventsDone, ReadClock, Collect, Fire, Skip, FireDone
  <2> QED
    BY <1>2, <2>1, LoopSleep
<1>3. ASSUME NEW th \in Thread,
             Start(th) \/ CallbackReturn(th) \/ Interrupted(th) \/ FileCallbackThrow(th)
      PROVE  SleepInv'
  <2>1. /\ pc'[th] \notin {"nextTimeout", "epollWait", "asleep"}
        /\ \A other \in Thread : other # th => pc'[other] = pc[other] /\ sleep'[other] = sleep[other]
        /\ UNCHANGED <<m_running, wakeupFd, call, m_active, m_expireTime>>
    BY <1>3 DEF Start, CallbackReturn, FileCallbackReturn, TimerCallbackReturn, Interrupted,
       FileCallbackThrow, timerVars, fdVars, loopVars
  <2> QED
    BY <2>1
<1>4. CASE Tick \/ FsEvent \/ UNCHANGED vars
  <2>1. UNCHANGED <<m_running, wakeupFd, pc, call, sleep, m_active, m_expireTime>>
    BY <1>4 DEF Tick, FsEvent, vars, timerVars, fdVars, loopVars
  <2> QED
    BY <2>1
<1> QED
  BY <1>1, <1>2, <1>3, <1>4 DEF Next

LEMMA InitSleep == Init => SleepInv
BY DEF Init, SleepInv, NoOversleep, StopIsHeard

\* One loop never sleeps past an active timer without a wakeup on its way: a timer
\* armed between the computation of the timeout and the sleep, or during it, is heard.
THEOREM NeverOversleeps ==
  ASSUME \A a, b \in Starter : a = b
  PROVE  Spec => []NoOversleep
<1>1. SleepInv => NoOversleep
  BY DEF SleepInv
<1>2. TypeInv /\ Registered /\ SleepInv /\ [Next]_vars => SleepInv'
  BY NextSleep
<1> QED
  BY <1>1, <1>2, InitType, NextType, InitRegistered, NextRegistered, InitSleep, PTL DEF Spec

\* A stop() that clears m_running under the feet of one loop leaves a wakeup that
\* ends its sleep.
THEOREM StopWakes ==
  ASSUME \A a, b \in Starter : a = b
  PROVE  Spec => []StopIsHeard
<1>1. SleepInv => StopIsHeard
  BY DEF SleepInv
<1>2. TypeInv /\ Registered /\ SleepInv /\ [Next]_vars => SleepInv'
  BY NextSleep
<1> QED
  BY <1>1, <1>2, InitType, NextType, InitRegistered, NextRegistered, InitSleep, PTL DEF Spec
==============================================================================
