---------------------------- MODULE DebounceProofs ----------------------------
(***************************************************************************)
(* Proofs about Debounce, for every set of paths and every choice of the   *)
(* three durations in which a stamp outlives its debounce window.          *)
(***************************************************************************)
EXTENDS Debounce, TLAPS

Inv == TypeOK /\ MapRemembers /\ TimesPast /\ StampsYoung

LEMMA InitInv == Init => Inv
<1> SUFFICES ASSUME Init PROVE Inv
  OBVIOUS
<1> USE DEF Init, Idle, Never
<1>1. TypeOK
  BY DebounceAssumption DEF TypeOK, Events
<1>2. MapRemembers /\ TimesPast /\ StampsYoung
  BY DEF MapRemembers, TimesPast, StampsYoung
<1> QED
  BY <1>1, <1>2 DEF Inv

\* What the step of applyDebounce under m_debounceMutex does to the invariant.
LEMMA ApplyInv == Inv /\ ApplyDebounce => Inv'
<1> SUFFICES ASSUME Inv, ApplyDebounce PROVE Inv'
  OBVIOUS
<1> DEFINE p == event.path
           n == event.now
<1>1. /\ p \in Path /\ n \in Nat /\ n <= now /\ m_lastDebounceCleanup <= n
      /\ \A q \in Path : lastEvent[q] <= n /\ reported[q] <= lastEvent[q]
  BY DEF ApplyDebounce, Inv, TypeOK, Events, Idle, TimesPast
<1>2. Kept(n) \subseteq DOMAIN m_debounceMap /\ DOMAIN m_debounceMap \subseteq Path
  BY DEF Kept, Inv, TypeOK
<1>3. /\ m_lastDebounceCleanup' = IF CleanupDue(n) THEN n ELSE m_lastDebounceCleanup
      /\ m_debounceMap' = [q \in Kept(n) \cup {p} |-> IF q = p THEN n ELSE m_debounceMap[q]]
      /\ lastEvent' = [lastEvent EXCEPT ![p] = n]
      /\ reported' = IF Suppressed(p, n) THEN reported ELSE [reported EXCEPT ![p] = n]
      /\ event' = Idle /\ now' = now /\ m_filter' = m_filter
  BY DEF ApplyDebounce, Stamp
<1> HIDE DEF p, n
<1>4. TypeOK'
  BY <1>1, <1>2, <1>3 DEF Inv, TypeOK, Events, Idle
<1>5. MapRemembers'
  <2>1. \A q \in DOMAIN m_debounceMap' : m_debounceMap'[q] = lastEvent'[q]
    BY <1>1, <1>2, <1>3 DEF Inv, TypeOK, MapRemembers
  <2>2. ASSUME NEW q \in Path \ DOMAIN m_debounceMap'
        PROVE  lastEvent'[q] = Never \/ m_lastDebounceCleanup' - lastEvent'[q] > m_debounceExpireMs
    <3>1. q # p /\ q \notin Kept(n) /\ lastEvent'[q] = lastEvent[q]
      BY <1>1, <1>3, <2>2 DEF Inv, TypeOK
    <3>2. CASE q \in DOMAIN m_debounceMap
      <4>1. CleanupDue(n) /\ ~(n - m_debounceMap[q] <= m_debounceExpireMs)
        BY <3>1, <3>2 DEF Kept
      <4>2. m_debounceMap[q] = lastEvent[q] /\ m_debounceMap[q] \in Nat
        BY <3>2 DEF Inv, TypeOK, MapRemembers
      <4> QED
        BY <1>1, <1>3, <3>1, <4>1, <4>2, DebounceAssumption
    <3>3. CASE q \notin DOMAIN m_debounceMap
      <4>1. lastEvent[q] = Never \/ m_lastDebounceCleanup - lastEvent[q] > m_debounceExpireMs
        BY <2>2, <3>3 DEF Inv, MapRemembers
      <4>2. lastEvent[q] \in Int /\ m_lastDebounceCleanup \in Nat
        BY <2>2 DEF Inv, TypeOK, Never
      <4> QED
        BY <1>1, <1>3, <3>1, <4>1, <4>2, DebounceAssumption
    <3> QED
      BY <3>2, <3>3
  <2> QED
    BY <2>1, <2>2 DEF MapRemembers
<1>6. TimesPast'
  <2>1. ASSUME NEW q \in Path PROVE lastEvent'[q] <= now' /\ reported'[q] <= lastEvent'[q]
    <3>1. /\ lastEvent[q] \in Int /\ reported[q] \in Int /\ now \in Nat
          /\ lastEvent[q] <= n /\ reported[q] <= lastEvent[q]
      BY <1>1 DEF Inv, TypeOK, Never
    <3>2. lastEvent'[q] = (IF q = p THEN n ELSE lastEvent[q]) /\ now' = now
      BY <1>3 DEF Inv, TypeOK
    <3>3. reported'[q] = reported[q] \/ (q = p /\ reported'[q] = n)
      BY <1>3 DEF Inv, TypeOK
    <3> QED
      BY <1>1, <3>1, <3>2, <3>3
  <2>2. m_lastDebounceCleanup' <= now' /\ event'.at # "debounce"
    BY <1>1, <1>3 DEF Inv, TimesPast, Idle
  <2> QED
    BY <2>1, <2>2 DEF TimesPast
<1>7. StampsYoung'
  <2> SUFFICES ASSUME NEW q \in DOMAIN m_debounceMap'
               PROVE  m_lastDebounceCleanup' - m_debounceMap'[q] <= m_debounceExpireMs
    BY DEF StampsYoung
  <2>1. CASE q = p
    BY <1>1, <1>3, <2>1, DebounceAssumption DEF Inv, TypeOK
  <2>2. CASE q # p
    <3>1. q \in Kept(n) /\ m_debounceMap'[q] = m_debounceMap[q]
      BY <1>3, <2>2
    <3>2. CASE CleanupDue(n)
      BY <1>3, <3>1, <3>2 DEF Kept
    <3>3. CASE ~CleanupDue(n)
      BY <1>2, <1>3, <3>1, <3>3 DEF Inv, StampsYoung
    <3> QED
      BY <3>2, <3>3
  <2> QED
    BY <2>1, <2>2
<1> QED
  BY <1>4, <1>5, <1>6, <1>7 DEF Inv

LEMMA NextInv == Inv /\ [Next]_vars => Inv'
<1> SUFFICES ASSUME Inv, [Next]_vars PROVE Inv'
  OBVIOUS
<1> USE DEF Inv, TypeOK, Events, MapRemembers, TimesPast, StampsYoung, Idle
<1>1. ASSUME NEW passing \in SUBSET Path, SetFilter(passing) PROVE Inv'
  BY <1>1 DEF SetFilter
<1>2. ASSUME NEW p \in Path, Receive(p) PROVE Inv'
  BY <1>2 DEF Receive
<1>3. CASE ReadClock
  BY <1>3 DEF ReadClock
<1>4. CASE ApplyDebounce
  BY <1>4, ApplyInv
<1>5. CASE Tick
  BY <1>5 DEF Tick, Never
<1>6. CASE UNCHANGED vars
  BY <1>6 DEF vars
<1> QED
  BY <1>1, <1>2, <1>3, <1>4, <1>5, <1>6 DEF Next

-----------------------------------------------------------------------------

\* Every variable keeps its type.
THEOREM TypeCorrect == Spec => []TypeOK
<1>1. Inv => TypeOK
  BY DEF Inv
<1> QED
  BY <1>1, InitInv, NextInv, PTL DEF Spec

\* The map stays young: what the clean-up is for.
THEOREM MapForgets == Spec => []StampsYoung
<1>1. Inv => StampsYoung
  BY DEF Inv
<1> QED
  BY <1>1, InitInv, NextInv, PTL DEF Spec

\* The verdict under the map that is cleaned up is the verdict under one that is not.
LEMMA SameVerdict ==
  ASSUME Inv, event.at = "debounce"
  PROVE  ~Suppressed(event.path, event.now) <=> Abstract!Quiet(event.path, event.now)
<1> DEFINE p == event.path
           n == event.now
<1> SUFFICES ~Suppressed(p, n) <=> Abstract!Quiet(p, n)
  OBVIOUS
<1>1. /\ p \in Path /\ n \in Nat /\ m_lastDebounceCleanup <= n
      /\ lastEvent[p] \in Int /\ m_lastDebounceCleanup \in Nat
  BY DEF Inv, TypeOK, Events, Idle, TimesPast, Never
<1> HIDE DEF p, n
<1>2. CASE p \in Kept(n)
  <2>1. p \in DOMAIN m_debounceMap /\ m_debounceMap[p] = lastEvent[p] /\ m_debounceMap[p] \in Nat
    BY <1>2 DEF Kept, Inv, TypeOK, MapRemembers
  <2> QED
    BY <1>1, <1>2, <2>1, DebounceAssumption DEF Suppressed, Abstract!Quiet, Abstract!Never
<1>3. CASE p \notin Kept(n)
  <2>1. lastEvent[p] = Never \/ n - lastEvent[p] > m_debounceExpireMs
    <3>1. CASE p \in DOMAIN m_debounceMap
      <4>1. ~(n - m_debounceMap[p] <= m_debounceExpireMs) /\ m_debounceMap[p] = lastEvent[p]
        BY <1>3, <3>1 DEF Kept, Inv, MapRemembers
      <4> QED
        BY <1>1, <4>1, DebounceAssumption
    <3>2. CASE p \notin DOMAIN m_debounceMap
      <4>1. lastEvent[p] = Never \/ m_lastDebounceCleanup - lastEvent[p] > m_debounceExpireMs
        BY <1>1, <3>2 DEF Inv, MapRemembers
      <4> QED
        BY <1>1, <4>1, DebounceAssumption
    <3> QED
      BY <3>1, <3>2
  <2> QED
    BY <1>1, <1>3, <2>1, DebounceAssumption DEF Suppressed, Abstract!Quiet, Abstract!Never, Never
<1> QED
  BY <1>2, <1>3

LEMMA StepImplements == Inv /\ [Next]_vars => [Abstract!Next]_(Abstract!vars)
<1> SUFFICES ASSUME Inv, [Next]_vars PROVE [Abstract!Next]_(Abstract!vars)
  OBVIOUS
<1>1. CASE ApplyDebounce
  <2> DEFINE p == event.path
             n == event.now
  <2>1. p \in Path /\ n \in Nat /\ \A q \in Path : lastEvent[q] <= n
    BY <1>1 DEF ApplyDebounce, Inv, TypeOK, Events, Idle, TimesPast
  <2>2. lastEvent' = [lastEvent EXCEPT ![p] = n] /\ lastEvent'[p] = n
    BY <1>1, <2>1 DEF ApplyDebounce, Inv, TypeOK
  <2>3. reported' = IF Abstract!Quiet(p, n) THEN [reported EXCEPT ![p] = n] ELSE reported
    BY <1>1, SameVerdict DEF ApplyDebounce
  <2>4. Abstract!Modify(p, n)
    BY <2>1, <2>2, <2>3 DEF Abstract!Modify
  <2> QED
    BY <2>1, <2>2, <2>4 DEF Abstract!Next
<1>2. CASE UNCHANGED <<lastEvent, reported>>
  BY <1>2 DEF Abstract!vars
<1>3. CASE Tick \/ ReadClock \/ UNCHANGED vars
  BY <1>2, <1>3 DEF Tick, ReadClock, vars
<1>4. ASSUME NEW p \in Path, Receive(p) PROVE [Abstract!Next]_(Abstract!vars)
  BY <1>2, <1>4 DEF Receive
<1>5. ASSUME NEW S \in SUBSET Path, SetFilter(S) PROVE [Abstract!Next]_(Abstract!vars)
  BY <1>2, <1>5 DEF SetFilter
<1> QED
  BY <1>1, <1>3, <1>4, <1>5 DEF Next

\* Debouncing with clean-ups implements debouncing with a memory that never forgets.
THEOREM Refinement == Spec => ImplementsAbstract
<1>1. Init => Abstract!Init
  BY DEF Init, Never, Abstract!Init, Abstract!Never
<1> QED
  BY <1>1, InitInv, NextInv, StepImplements, PTL DEF Spec, ImplementsAbstract, Abstract!Spec

\* What is passed on of one path is m_debounceTime apart.
THEOREM BurstsAreSpaced == Spec => Spacing
<1> DEFINE Apart == \A p \in Path : reported[p] # Abstract!Never /\ reported'[p] # reported[p] =>
                        reported'[p] - reported[p] >= m_debounceTime
<1>1. ASSUME Inv, [Next]_vars PROVE Apart \/ UNCHANGED Abstract!vars
  <2>1. CASE UNCHANGED Abstract!vars
    BY <2>1
  <2>2. ASSUME NEW p \in Path, Abstract!Modify(p, lastEvent'[p]), lastEvent'[p] >= 0 PROVE Apart
    <3> SUFFICES ASSUME NEW q \in Path, reported[q] # Abstract!Never, reported'[q] # reported[q]
                 PROVE  reported'[q] - reported[q] >= m_debounceTime
      OBVIOUS
    <3>1. /\ q = p /\ Abstract!Quiet(p, lastEvent'[p]) /\ reported'[q] = lastEvent'[q]
          /\ reported[q] \in Nat /\ lastEvent[q] \in Nat /\ reported[q] <= lastEvent[q]
      BY <1>1, <2>2 DEF Abstract!Modify, Abstract!Never, Inv, TypeOK, TimesPast, Never
    <3>2. lastEvent'[q] - lastEvent[q] >= m_debounceTime
      BY <3>1 DEF Abstract!Quiet, Abstract!Never
    <3>3. lastEvent'[q] \in Int
      BY <1>1, NextInv DEF Inv, TypeOK, Never
    <3> QED
      BY <3>1, <3>2, <3>3, DebounceAssumption
  <2> QED
    BY <1>1, <2>1, <2>2, StepImplements DEF Abstract!Next
<1> QED
  BY <1>1, InitInv, NextInv, PTL DEF Spec, Spacing, Abstract!Spacing
===============================================================================
