--------------------------- MODULE TimerLoopClaims ---------------------------
(***************************************************************************)
(* What the documentation and the tests of the repository say of the event *)
(* loop and its timers, and the code does not do in every interleaving.    *)
(* Each property below has a run that shows how it fails.                  *)
(***************************************************************************)
EXTENDS TimerLoop

\* FileWatcher.h:102, on start(): the call enters the event loop of the current
\* thread and returns once stop() is called by another thread.  A stop() that
\* comes while start() is between its test of m_running and its store finds the
\* flag false and does nothing.
StopReturnsStart ==
    \A th \in Starter :
        (pc[th] # "out" /\ \E other \in Thread \ {th} : call[other].op = "stop")
            ~> pc[th] = "out"

\* FileWatcher.h:108-110, on addTimer: the timer expires timeoutMs after the call.
\* A one-shot timer that a callback, or another thread, arms again while it waits
\* in the batch of processExpiredTimers runs at once, and the new arming is gone.
NeverFiresEarly ==
    [][\A th \in Starter : Fire(th) =>
          LET t == Head(expired[th]) IN t \in Repeating \/ m_expireTime[t] <= now]_vars

\* CHANGELOG.md:18: all file and timer callbacks run serially on the thread that
\* called start(), so that callers need no lock.  Two loops run when a second
\* start() passes the test before the first has stored, or follows a stop() that
\* the first loop has not noticed.
SerialCallbacks ==
    \A a, b \in Thread :
        {pc[a], pc[b]} \subseteq {"fileCallback", "timerCallback"} => a = b
==============================================================================
