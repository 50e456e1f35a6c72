---------------------------- MODULE DispatchProofs ----------------------------
(***************************************************************************)
(* Proofs about Dispatch, for any paths, rules, threads and bounds.  What  *)
(* addWatch takes back after a failure is its own entry, unless another    *)
(* thread erased that meanwhile.  What is proved of Debounce by itself     *)
(* holds between filter and callbacks too.  And an event is judged by one  *)
(* set of rules.                                                           *)
(***************************************************************************)
EXTENDS Dispatch, DebounceProofs

\* Calls of addWatch under way have numbers that were given, each its own.
CallsNumbered ==
    /\ added \in Nat
    /\ call \in [Thread -> {NoCall} \cup [at : {"add"}, path : Watched, by : 1 .. added]]

NumbersDiffer ==
    \A th, other \in Thread :
        th # other /\ call[th].at = "add" /\ call[other].at = "add" => call[th].by # call[other].by

EntryInv == CallsNumbered /\ NumbersDiffer /\ OwnEntry

-----------------------------------------------------------------------------

\* The critical section of addWatch.
LEMMA AddedEntry ==
  ASSUME EntryInv, NEW th \in Thread, NEW w \in Watched, NEW recursive \in BOOLEAN,
         AddWatch(th, w, recursive)
  PROVE  EntryInv'
<1> DEFINE mine == [at |-> "add", path |-> w, by |-> added']
<1>1. /\ added \in Nat /\ added' = added + 1
      /\ call' = [call EXCEPT ![th] = mine] /\ removed' = removed
      /\ m_watches' = With(m_watches, w, [recursive |-> recursive, by |-> added'])
      /\ w \notin DOMAIN m_watches
  BY DEF AddWatch, EntryInv, CallsNumbered
<1>2. /\ w \in DOMAIN m_watches' /\ m_watches'[w].by = added'
      /\ \A v \in DOMAIN m_watches : v \in DOMAIN m_watches' /\ m_watches'[v] = m_watches[v]
  BY <1>1 DEF With
<1>3. call'[th] = mine /\ \A other \in Thread \ {th} : call'[other] = call[other]
  BY <1>1 DEF EntryInv, CallsNumbered
<1>4. CallsNumbered'
  <2>1. mine \in [at : {"add"}, path : Watched, by : 1 .. added']
    BY <1>1
  <2>2. \A other \in Thread : call[other] \in {NoCall} \cup [at : {"add"}, path : Watched, by : 1 .. added']
    BY <1>1 DEF EntryInv, CallsNumbered
  <2> QED BY <1>1, <2>1, <2>2 DEF EntryInv, CallsNumbered
<1>5. NumbersDiffer'
  <2>1. \A other \in Thread : call[other].at = "add" => call[other].by # added'
    BY <1>1 DEF EntryInv, CallsNumbered, NoCall
  <2> QED BY <1>3, <2>1 DEF EntryInv, NumbersDiffer
<1>6. OwnEntry'
  BY <1>1, <1>2, <1>3 DEF EntryInv, OwnEntry
<1> QED BY <1>4, <1>5, <1>6 DEF EntryInv

\* A failure erases the entry of another call only as one that others erased.
LEMMA AnsweredCall ==
  ASSUME EntryInv, NEW th \in Thread, AddWatchDone(th)
  PROVE  EntryInv'
<1>1. /\ call[th].at = "add" /\ call' = [call EXCEPT ![th] = NoCall] /\ added' = added
  BY DEF AddWatchDone
<1>2. call'[th] = NoCall /\ \A other \in Thread \ {th} : call'[other] = call[other]
  BY <1>1 DEF EntryInv, CallsNumbered
<1>3. CallsNumbered'
  BY <1>1 DEF EntryInv, CallsNumbered
<1>4. NumbersDiffer'
  BY <1>2 DEF EntryInv, NumbersDiffer, NoCall
<1>5. CASE UNCHANGED <<m_watches, removed>>
  BY <1>2, <1>3, <1>4, <1>5 DEF EntryInv, OwnEntry, NoCall
<1>6. CASE ~UNCHANGED <<m_watches, removed>>
  <2> DEFINE w == call[th].path
  <2>1. /\ m_watches' = Without(m_watches, {w})
        /\ removed' = removed \cup ({m_watches[p].by : p \in {w} \cap DOMAIN m_watches} \ {call[th].by})
    BY <1>6 DEF AddWatchDone
  <2>2. \A v \in DOMAIN m_watches \ {w} : v \in DOMAIN m_watches' /\ m_watches'[v] = m_watches[v]
    BY <2>1 DEF Without, Restrict
  <2>3. ASSUME NEW other \in Thread, call'[other].at = "add", call'[other].by \notin removed'
        PROVE  /\ call'[other].path \in DOMAIN m_watches'
               /\ m_watches'[call'[other].path].by = call'[other].by
    <3>1. other # th /\ call'[other] = call[other]
      BY <1>2, <2>3 DEF NoCall
    <3>2. call[other].by \notin removed /\ call[other].by # call[th].by
      BY <1>1, <2>1, <2>3, <3>1 DEF EntryInv, NumbersDiffer
    <3>3. call[other].path \in DOMAIN m_watches /\ m_watches[call[other].path].by = call[other].by
      BY <2>3, <3>1, <3>2 DEF EntryInv, OwnEntry
    <3>4. call[other].path # w
      BY <2>1, <2>3, <3>1, <3>2, <3>3
    <3> QED BY <2>2, <3>1, <3>3, <3>4
  <2>4. OwnEntry'
    BY <2>3 DEF OwnEntry
  <2> QED BY <1>3, <1>4, <2>4 DEF EntryInv
<1> QED BY <1>5, <1>6

LEMMA RemovedEntry ==
  ASSUME EntryInv, NEW th \in Thread, NEW w \in Watched, RemoveWatch(th, w)
  PROVE  EntryInv'
<1>1. /\ w \in DOMAIN m_watches /\ UNCHANGED <<call, added>>
      /\ m_watches' = Without(m_watches, {w})
      /\ removed' = removed \cup {m_watches[w].by}
  BY DEF RemoveWatch
<1>2. \A v \in DOMAIN m_watches \ {w} : v \in DOMAIN m_watches' /\ m_watches'[v] = m_watches[v]
  BY <1>1 DEF Without, Restrict
<1>3. OwnEntry'
  BY <1>1, <1>2 DEF EntryInv, OwnEntry
<1> QED BY <1>1, <1>3 DEF EntryInv, CallsNumbered, NumbersDiffer

\* Nothing else touches m_watches.
LEMMA EntryUntouched ==
  ASSUME EntryInv, UNCHANGED <<m_watches, call, added, removed>>
  PROVE  EntryInv'
BY DEF EntryInv, CallsNumbered, NumbersDiffer, OwnEntry

LEMMA EntryInductive == EntryInv /\ [DispatchNext]_dispatchVars => EntryInv'
<1> SUFFICES ASSUME EntryInv, [DispatchNext]_dispatchVars PROVE EntryInv'
  OBVIOUS
<1>1. ASSUME NEW th \in Thread, NEW w \in Watched, NEW recursive \in BOOLEAN, AddWatch(th, w, recursive)
      PROVE  EntryInv'
  BY <1>1, AddedEntry
<1>2. ASSUME NEW th \in Thread, AddWatchDone(th)
      PROVE  EntryInv'
  BY <1>2, AnsweredCall
<1>3. ASSUME NEW th \in Thread, NEW w \in Watched, RemoveWatch(th, w)
      PROVE  EntryInv'
  BY <1>3, RemovedEntry
<1>4. ASSUME \/ ReceiveModify \/ ReadClockOfModify \/ Debounced \/ Collect \/ Callback
             \/ CallbackReturn \/ DispatchTick \/ UNCHANGED dispatchVars
             \/ \E e \in OtherEvent : ReceiveOther(e)
             \/ \E rules \in Filter : SetRules(rules)
      PROVE  EntryInv'
  <2>1. UNCHANGED <<m_watches, call, added, removed>>
    BY <1>4 DEF ReceiveModify, ReadClockOfModify, Debounced, Collect, Callback, CallbackReturn,
                DispatchTick, ReceiveOther, SetRules, registryVars, dispatchVars
  <2> QED BY <2>1, EntryUntouched
<1> QED BY <1>1, <1>2, <1>3, <1>4 DEF DispatchNext

\* A failing addWatch erases its own entry, except after another thread erased that: the
\* already_watching test keeps every other entry out of its way, with any number of threads.
THEOREM ErasesOwnEntry == DispatchSpec => []OwnEntry
<1>1. DispatchInit => EntryInv
  BY DEF DispatchInit, EntryInv, CallsNumbered, NumbersDiffer, OwnEntry, NoCall
<1>2. EntryInv => OwnEntry
  BY DEF EntryInv
<1> QED BY <1>1, <1>2, EntryInductive, PTL DEF DispatchSpec

-----------------------------------------------------------------------------
(* Dispatch implements Debounce.                                            *)

\* Rules let a set of paths pass, the set the filter of Debounce is.
LEMMA RulesAreFilter ==
  ASSUME NEW rules \in Filter, SetRules(rules)
  PROVE  \E passing \in SUBSET Path : SetFilter(passing)
<1>1. SetFilter(Passing[filter']) /\ filter' = Normalized(rules)
  BY DEF SetRules
<1>2. Passing[filter'] = {p \in Path : Passes(filter', Modification(p))}
  BY <1>1 DEF Passing
<1>3. Passing[filter'] \in SUBSET Path
  BY <1>2
<1> QED BY <1>1, <1>3

LEMMA DispatchStep == [DispatchNext]_dispatchVars => [Next]_vars
<1> SUFFICES ASSUME [DispatchNext]_dispatchVars PROVE [Next]_vars
  OBVIOUS
<1>1. ASSUME ReceiveModify \/ ReadClockOfModify \/ Debounced \/ DispatchTick
      PROVE  Next
  BY <1>1 DEF ReceiveModify, ReadClockOfModify, Debounced, DispatchTick, Next
<1>2. ASSUME NEW rules \in Filter, SetRules(rules)
      PROVE  Next
  BY <1>2, RulesAreFilter DEF Next
<1>3. ASSUME \/ Collect \/ Callback \/ CallbackReturn \/ UNCHANGED dispatchVars
             \/ \E e \in OtherEvent : ReceiveOther(e)
             \/ \E th \in Thread, w \in Watched :
                   RemoveWatch(th, w) \/ \E recursive \in BOOLEAN : AddWatch(th, w, recursive)
             \/ \E th \in Thread : AddWatchDone(th)
      PROVE  UNCHANGED vars
  BY <1>3 DEF Collect, Callback, CallbackReturn, ReceiveOther, RemoveWatch, AddWatch, AddWatchDone,
              dispatchVars
<1> QED BY <1>1, <1>2, <1>3 DEF DispatchNext

\* Between the filter and the callbacks, events are debounced as Debounce says, whatever
\* watches and rules do meanwhile.
THEOREM DispatchDebounces == DispatchSpec => Spec
<1>1. DispatchInit => Init
  BY DEF DispatchInit
<1> QED BY <1>1, DispatchStep, PTL DEF DispatchSpec, Spec

\* The decisions in front of dispatchEvent are those of a memory that never forgets.
THEOREM DispatchImplementsAbstract == DispatchSpec => ImplementsAbstract
BY DispatchDebounces, Refinement

\* Two MODIFYs of one path that reach dispatchEvent are m_debounceTime apart.
THEOREM DispatchIsSpaced == DispatchSpec => Spacing
BY DispatchDebounces, BurstsAreSpaced

\* No stamp is older than the expiry was at the last clean-up.
THEOREM DispatchForgets == DispatchSpec => []StampsYoung
BY DispatchDebounces, MapForgets

-----------------------------------------------------------------------------
(* Events are judged once.                                                  *)

Rules  == {NoRules} \cup {Normalized(rules) : rules \in Filter}
DispatchEvents == OtherEvent \cup {Modification(p) : p \in Path}

\* What passes compares, character by character, means what Allowed says of names.
PassesIsAllowed == \A rules \in Rules, e \in DispatchEvents : Passes(rules, e) => Allowed(rules, e)

\* From the verdict to the last callback, an event is handled by one set of rules, and
\* they let it pass.
Judged ==
    /\ filter \in Rules /\ currentFilter \in Rules
    /\ event # Idle => event.path \in Path /\ Passes(currentFilter, Modification(event.path))
    /\ disp.at # "idle" => disp.event \in DispatchEvents /\ Passes(currentFilter, disp.event)

\* One event at a time, in processEvent or in dispatchEvent.
OneEvent ==
    /\ event = Idle \/ disp = Done
    /\ event = Idle \/ event.at \in {"passed", "debounce"}
    /\ disp.at = "idle" => disp = Done
    /\ disp = [at |-> disp.at, event |-> disp.event, todo |-> disp.todo]

\* The set of paths that Debounce lets pass is what the rules say.
RulesInForce == m_filter = {p \in Path : Passes(filter, Modification(p))}

JudgedInv == OneEvent /\ RulesInForce /\ Judged

\* The filter of a new watcher lets everything pass.
LEMMA NoRulesPass == ASSUME NEW e PROVE Passes(NoRules, e)
BY DEF Passes, NoRules, Excluded

LEMMA JudgedInit == DispatchInit => JudgedInv
BY NoRulesPass DEF DispatchInit, Init, JudgedInv, Rules, OneEvent, RulesInForce, Judged, Done

LEMMA JudgedNext == JudgedInv /\ [DispatchNext]_dispatchVars => JudgedInv'
<1> SUFFICES ASSUME JudgedInv, [DispatchNext]_dispatchVars PROVE JudgedInv'
  OBVIOUS
<1> USE DEF JudgedInv, Rules, DispatchEvents
<1>1. CASE ReceiveModify
  <2>1. PICK p \in Path : Receive(p)
    BY <1>1 DEF ReceiveModify
  <2>2. /\ p \in m_filter /\ event' = [at |-> "passed", path |-> p] /\ disp = Done
        /\ currentFilter' = filter /\ UNCHANGED <<m_filter, filter, disp>>
    BY <1>1, <2>1 DEF Receive, ReceiveModify
  <2>3. Passes(currentFilter', Modification(p))
    BY <2>2 DEF RulesInForce
  <2>4. event'.path = p /\ event'.at = "passed"
    BY <2>2
  <2>5. OneEvent' /\ RulesInForce' /\ Judged'
    BY <2>2, <2>4 DEF OneEvent, RulesInForce, Judged, Done
  <2> QED BY <2>3, <2>4, <2>5
<1>2. CASE ReadClockOfModify
  <2>1. /\ event.at = "passed" /\ event' = [at |-> "debounce", path |-> event.path, now |-> now]
        /\ UNCHANGED <<m_filter, filter, currentFilter, disp>>
    BY <1>2 DEF ReadClockOfModify, ReadClock
  <2>2. event # Idle /\ event'.path = event.path /\ event'.at = "debounce"
    BY <2>1 DEF Idle
  <2>3. OneEvent' /\ RulesInForce' /\ Judged'
    BY <2>1, <2>2 DEF OneEvent, RulesInForce, Judged
  <2> QED BY <2>1, <2>2, <2>3
<1>3. CASE Debounced
  <2>1. event.at = "debounce" /\ event' = Idle /\ UNCHANGED <<m_filter, filter>>
    BY <1>3 DEF Debounced, ApplyDebounce
  <2>2. event # Idle /\ disp = Done
    BY <2>1 DEF Idle, OneEvent
  <2>3. \/ currentFilter' = NoRules /\ disp' = disp
        \/ /\ disp' = [at |-> "collect", event |-> Modification(event.path), todo |-> {}]
           /\ currentFilter' = currentFilter
    BY <1>3 DEF Debounced, Done
  <2>4. OneEvent' /\ RulesInForce'
    BY <2>1, <2>2, <2>3 DEF OneEvent, RulesInForce, Done
  <2>5. filter' \in Rules /\ currentFilter' \in Rules /\ event' = Idle
    BY <2>1, <2>3 DEF Judged
  <2>6. ASSUME disp'.at # "idle" PROVE disp'.event \in DispatchEvents /\ Passes(currentFilter', disp'.event)
    <3>1. disp'.event = Modification(event.path) /\ currentFilter' = currentFilter
      BY <2>2, <2>3, <2>6 DEF Done
    <3> QED BY <2>2, <3>1 DEF Judged
  <2> QED BY <2>4, <2>5, <2>6 DEF Judged
<1>4. ASSUME NEW e \in OtherEvent, ReceiveOther(e) PROVE JudgedInv'
  <2>1. /\ Passes(filter, e) /\ currentFilter' = filter /\ event = Idle /\ UNCHANGED <<event, m_filter, filter>>
        /\ disp' = [at |-> "collect", event |-> e, todo |-> {}]
    BY <1>4 DEF ReceiveOther, vars, Done
  <2>2. OneEvent' /\ RulesInForce' /\ Judged'
    BY <2>1 DEF OneEvent, RulesInForce, Judged
  <2> QED BY <2>1, <2>2
<1>5. ASSUME NEW todo, RunNext(todo), disp.at \in {"collect", "callback"}, UNCHANGED <<vars, filter>>
      PROVE  JudgedInv'
  <2>1. event = Idle /\ UNCHANGED <<event, m_filter, filter>>
    BY <1>5 DEF OneEvent, Done, vars
  <2>2. \/ disp' = Done
        \/ disp' = [at |-> "run", event |-> disp.event, todo |-> todo] /\ currentFilter' = currentFilter
    BY <1>5 DEF RunNext, OneEvent
  <2>3. OneEvent' /\ RulesInForce'
    BY <2>1, <2>2 DEF OneEvent, RulesInForce, Done
  <2>4. filter' \in Rules /\ currentFilter' \in Rules
    BY <1>5, <2>1 DEF Judged, RunNext
  <2>5. ASSUME disp'.at # "idle" PROVE disp'.event \in DispatchEvents /\ Passes(currentFilter', disp'.event)
    <3>1. disp'.event = disp.event /\ currentFilter' = currentFilter
      BY <2>2, <2>5 DEF Done
    <3> QED BY <1>5, <3>1 DEF Judged
  <2> QED BY <2>1, <2>3, <2>4, <2>5 DEF Judged
<1>6. CASE Collect
  BY <1>5, <1>6 DEF Collect
<1>7. CASE CallbackReturn
  BY <1>5, <1>7 DEF CallbackReturn
<1>8. CASE Callback
  <2>1. PICK w \in disp.todo : disp' = [at |-> "callback", event |-> disp.event, todo |-> disp.todo \ {w}]
    BY <1>8 DEF Callback, OneEvent
  <2>2. disp.at = "run" /\ event = Idle /\ UNCHANGED <<event, m_filter, filter, currentFilter>>
    BY <1>8 DEF Callback, OneEvent, Done, vars
  <2>3. OneEvent' /\ RulesInForce' /\ Judged'
    BY <2>1, <2>2 DEF OneEvent, RulesInForce, Judged
  <2> QED BY <2>2, <2>3
\* Rules that are set are in force for the events to come.
<1>9. ASSUME NEW rules \in Filter, SetRules(rules) PROVE JudgedInv'
  <2>1. /\ filter' = Normalized(rules) /\ m_filter' = Passing[filter']
        /\ UNCHANGED <<event, currentFilter, disp>>
    BY <1>9 DEF SetRules, SetFilter
  <2>2. RulesInForce'
    BY <2>1 DEF Passing, RulesInForce
  <2>3. OneEvent' /\ Judged'
    BY <2>1 DEF OneEvent, Judged
  <2> QED BY <2>1, <2>2, <2>3
<1>10. ASSUME \/ DispatchTick \/ UNCHANGED dispatchVars
              \/ \E th \in Thread, w \in Watched :
                    RemoveWatch(th, w) \/ \E recursive \in BOOLEAN : AddWatch(th, w, recursive)
              \/ \E th \in Thread : AddWatchDone(th)
       PROVE  JudgedInv'
  <2>1. UNCHANGED <<event, m_filter, filter, currentFilter, disp>>
    BY <1>10 DEF DispatchTick, Tick, RemoveWatch, AddWatch, AddWatchDone, dispatchVars, vars
  <2> QED BY <2>1 DEF OneEvent, RulesInForce, Judged
<1> QED BY <1>1, <1>2, <1>3, <1>4, <1>6, <1>7, <1>8, <1>9, <1>10 DEF DispatchNext

\* No callback runs for an event that the rules exclude which were in force when it came,
\* however often setFilter is called meanwhile: the copy that processEvent takes is enough,
\* given that passes means what it should for these rules and events.
THEOREM EventsAreFiltered ==
  ASSUME PassesIsAllowed
  PROVE  DispatchSpec => []Filtering
<1>1. JudgedInv => Filtering
  BY DEF JudgedInv, Judged, Filtering, PassesIsAllowed
<1> QED BY <1>1, JudgedInit, JudgedNext, PTL DEF DispatchSpec
===============================================================================
