------------------------------- MODULE Dispatch -------------------------------
(***************************************************************************)
(* FileWatcher::Impl from the back end to the callbacks: what processEvent *)
(* asks the filter, the debouncing of Debounce, and dispatchEvent, which   *)
(* copies the callbacks of the watches an event is for and runs them       *)
(* outside of the lock.  Meanwhile, and in the callbacks, addWatch,        *)
(* removeWatch and setFilter are called.                                   *)
(*                                                                         *)
(* The code compares paths character by character; a path is the sequence  *)
(* of its characters, and of the regular expressions only the set of paths *)
(* they match is left.  The root "/" is not watched (see the README).      *)
(***************************************************************************)
EXTENDS Debounce, FiniteSets, SequencesExt

CONSTANTS
    Watched,        \* the paths addWatch is called with
    OtherEvent,     \* the events that are no MODIFY of a file: [type, path, pathType]
    Filter,         \* the rules setFilter is called with
    Client,         \* the threads that call the API
    Bound           \* bounds: how far the clock goes, with how many calls of addWatch

VARIABLES
    filter,         \* the rules of m_filter
    currentFilter,  \* processEvent's copy of them
    disp,           \* dispatchEvent: where it is, the event, the watches to call back
    m_watches,      \* path -> [recursive, by], by the number of the call that added it
    call,           \* the call each thread is in the middle of
    added,          \* how many addWatch there were
    removed,        \* history: the numbers of the entries that others erased
    bound           \* the bound of this behaviour, [time, adds]

dispatchVars == <<vars, filter, currentFilter, disp, m_watches, call, added, removed, bound>>

Loop   == "loop"
Thread == Client \cup {Loop}
NoCall == [at |-> "idle"]
NoEvent == [type |-> "none", path |-> << >>, pathType |-> "none"]
NoRules == [m_excludePaths |-> {}, m_excludePatterns |-> {}, m_eventTypes |-> {},
            m_extensions |-> {}, m_notMatched |-> {}]
Done   == [at |-> "idle", event |-> NoEvent, todo |-> {}]

Without(f, S) == Restrict(f, DOMAIN f \ S)
With(f, x, v) == [y \in DOMAIN f \cup {x} |-> IF y = x THEN v ELSE f[y]]

-----------------------------------------------------------------------------
(* Paths.                                                                   *)

Slashed(s) == [i \in DOMAIN s |-> IF s[i] = "\\" THEN "/" ELSE s[i]]
Trimmed(s) == SubSeq(s, 1, Max({1} \cup {i \in DOMAIN s : s[i] # "/"}))

\* setExcludePaths, addExcludePath.
BugNormalized(rules) == [rules EXCEPT !.m_excludePaths = {Slashed(p) : p \in @ \ {<< >>}}]    \* mutant: slash kept
Normalized(rules)    == [rules EXCEPT !.m_excludePaths = {Trimmed(Slashed(p)) : p \in @ \ {<< >>}}]

Excluded(rules, path) ==
    LET e == Trimmed(Slashed(path)) IN
    \E x \in rules.m_excludePaths :
        \/ e = x
        \/ Len(e) > Len(x) /\ IsPrefix(x, e) /\ (Last(x) = "/" \/ e[Len(x) + 1] = "/")

\* From the last dot on, wherever it is.
WrongExtension(rules, path) ==
    LET dots == {i \in DOMAIN path : path[i] = "."} IN
    dots = {} \/ SubSeq(path, Max(dots), Len(path)) \notin rules.m_extensions

\* m_notMatched are the paths the pattern of setPathPattern does not match.
Passes(rules, e) ==
    /\ ~Excluded(rules, e.path)
    /\ e.path \notin rules.m_excludePatterns
    /\ rules.m_eventTypes # {} => e.type \in rules.m_eventTypes
    /\ rules.m_extensions # {} /\ e.pathType = "file" => ~WrongExtension(rules, e.path)
    /\ e.path \notin rules.m_notMatched

BugIsPathUnderWatch(watchPath, eventPath, recursive) ==    \* mutant: any prefix will do
    LET w == Trimmed(Slashed(watchPath))
        e == Slashed(eventPath)
    IN  IsPrefix(w, e) /\ (recursive \/ "/" \notin Range(SubSeq(e, Len(w) + 2, Len(e))))

IsPathUnderWatch(watchPath, eventPath, recursive) ==
    LET w == Trimmed(Slashed(watchPath))
        e == Slashed(eventPath)
    IN  \/ e = w
        \/ /\ Len(e) > Len(w) /\ IsPrefix(w, e) /\ e[Len(w) + 1] = "/"
           /\ recursive \/ "/" \notin Range(SubSeq(e, Len(w) + 2, Len(e)))

-----------------------------------------------------------------------------

Modification(p) == [type |-> "modify", path |-> p, pathType |-> "file"]
Passing == [rules \in {Normalized(r) : r \in Filter} |-> {p \in Path : Passes(rules, Modification(p))}]

DispatchInit ==
    /\ Init
    /\ filter = NoRules /\ currentFilter = NoRules
    /\ disp = Done
    /\ m_watches = << >>
    /\ call = [th \in Thread |-> NoCall]
    /\ added = 0 /\ removed = {}
    /\ bound \in Bound

registryVars == <<m_watches, call, added, removed, bound>>

\* processEvent: the filter and, for a MODIFY, the debouncing.
ReceiveModify ==
    /\ disp = Done
    /\ \E p \in Path : Receive(p)
    /\ currentFilter' = filter
    /\ UNCHANGED <<filter, disp, registryVars>>

ReceiveOther(e) ==
    /\ disp = Done /\ event = Idle
    /\ Passes(filter, e)
    /\ currentFilter' = filter
    /\ disp' = [Done EXCEPT !.at = "collect", !.event = e]
    /\ UNCHANGED <<vars, filter, registryVars>>

ReadClockOfModify == ReadClock /\ UNCHANGED <<filter, currentFilter, disp, registryVars>>

Debounced ==
    /\ ApplyDebounce
    /\ IF Suppressed(event.path, event.now)
       THEN currentFilter' = NoRules /\ UNCHANGED disp
       ELSE disp' = [Done EXCEPT !.at = "collect", !.event = Modification(event.path)] /\ UNCHANGED currentFilter
    /\ UNCHANGED <<filter, registryVars>>

\* dispatchEvent: the critical section, and then each callback.
RunNext(todo) ==
    IF todo = {} THEN disp' = Done /\ currentFilter' = NoRules
    ELSE disp' = [disp EXCEPT !.at = "run", !.todo = todo] /\ UNCHANGED currentFilter

Collect ==
    /\ disp.at = "collect"
    /\ RunNext({w \in DOMAIN m_watches : IsPathUnderWatch(w, disp.event.path, m_watches[w].recursive)})
    /\ UNCHANGED <<vars, filter, registryVars>>

Callback ==
    /\ disp.at = "run"
    /\ \E w \in disp.todo : disp' = [disp EXCEPT !.at = "callback", !.todo = @ \ {w}]
    /\ UNCHANGED <<vars, filter, currentFilter, registryVars>>

CallbackReturn ==
    /\ disp.at = "callback" /\ call[Loop] = NoCall
    /\ RunNext(disp.todo)
    /\ UNCHANGED <<vars, filter, registryVars>>

-----------------------------------------------------------------------------
(* The calls of the API, from clients and from callbacks.                   *)

MayCall(th) == call[th] = NoCall /\ (th = Loop => disp.at = "callback")

BugAddWatch(th, w, recursive) ==    \* mutant: a path that is watched is not refused
    /\ MayCall(th)
    /\ added < bound.adds /\ added' = added + 1
    /\ m_watches' = With(m_watches, w, [recursive |-> recursive, by |-> added'])
    /\ call' = [call EXCEPT ![th] = [at |-> "add", path |-> w, by |-> added']]
    /\ UNCHANGED <<vars, filter, currentFilter, disp, removed, bound>>

AddWatch(th, w, recursive) ==
    /\ MayCall(th) /\ w \notin DOMAIN m_watches
    /\ added < bound.adds /\ added' = added + 1
    /\ m_watches' = With(m_watches, w, [recursive |-> recursive, by |-> added'])
    /\ call' = [call EXCEPT ![th] = [at |-> "add", path |-> w, by |-> added']]
    /\ UNCHANGED <<vars, filter, currentFilter, disp, removed, bound>>

\* The back end has answered; a failure erases the entry of the path, whoever added it.
AddWatchDone(th) ==
    /\ call[th].at = "add"
    /\ \/ UNCHANGED <<m_watches, removed>>
       \/ LET w == call[th].path IN
            /\ m_watches' = Without(m_watches, {w})
            /\ removed' = removed \cup ({m_watches[p].by : p \in {w} \cap DOMAIN m_watches} \ {call[th].by})
    /\ call' = [call EXCEPT ![th] = NoCall]
    /\ UNCHANGED <<vars, filter, currentFilter, disp, added, bound>>

RemoveWatch(th, w) ==
    /\ MayCall(th) /\ w \in DOMAIN m_watches
    /\ m_watches' = Without(m_watches, {w})
    /\ removed' = removed \cup {m_watches[w].by}
    /\ UNCHANGED <<vars, filter, currentFilter, disp, call, added, bound>>

SetRules(rules) ==
    /\ filter' = Normalized(rules)
    /\ SetFilter(Passing[filter'])
    /\ UNCHANGED <<currentFilter, disp, registryVars>>

DispatchTick == now < bound.time /\ Tick /\ UNCHANGED <<filter, currentFilter, disp, registryVars>>

DispatchNext ==
    \/ ReceiveModify \/ ReadClockOfModify \/ Debounced
    \/ \E e \in OtherEvent : ReceiveOther(e)
    \/ Collect \/ Callback \/ CallbackReturn
    \/ \E rules \in Filter : SetRules(rules)
    \/ \E th \in Thread, w \in Watched :
          RemoveWatch(th, w) \/ \E recursive \in BOOLEAN : AddWatch(th, w, recursive)
    \/ \E th \in Thread : AddWatchDone(th)
    \/ DispatchTick

DispatchSpec == DispatchInit /\ [][DispatchNext]_dispatchVars

-----------------------------------------------------------------------------
(* What paths mean: names, between slashes of either kind.                  *)

Names(path) ==
    LET s    == Slashed(path)
        ends == {i \in DOMAIN s : s[i] # "/" /\ (i = Len(s) \/ s[i + 1] = "/")}
        at   == SetToSortSeq(ends, <)
    IN  [k \in DOMAIN at |-> SubSeq(s, 1 + Max({0} \cup {j \in 1 .. at[k] : s[j] = "/"}), at[k])]

IsFor(w, recursive, path) ==
    IsPrefix(Names(w), Names(path)) /\ (recursive \/ Len(Names(path)) <= Len(Names(w)) + 1)

\* An event is for exactly the watches that have its path, or lie above it: directly above
\* it unless they are recursive.  However paths are spelled, "/a" is not above "/ab".
Routing ==
    [][disp.at = "collect" /\ disp' # disp =>
         disp'.todo = {w \in DOMAIN m_watches : IsFor(w, m_watches[w].recursive, disp.event.path)}]_dispatchVars

\* What the rules say of an event: of its type, of paths that are excluded above it, of the
\* extension of a file.
Allowed(rules, e) ==
    LET name == Last(Names(e.path))
        dots == {i \in DOMAIN name : name[i] = "."} IN
    /\ \A x \in rules.m_excludePaths : ~IsPrefix(Names(x), Names(e.path))
    /\ rules.m_eventTypes # {} => e.type \in rules.m_eventTypes
    /\ rules.m_extensions # {} /\ e.pathType = "file" =>
          dots # {} /\ SubSeq(name, Max(dots), Len(name)) \in rules.m_extensions

\* No callback runs for an event the rules exclude that were in force when it came,
\* whatever setFilter does while it is on its way.
Filtering == disp.at = "callback" => Allowed(currentFilter, disp.event)

\* While addWatch waits for the back end, the entry of its path, which it erases after a
\* failure, is its own.  Except if another thread erased it meanwhile: by removeWatch, or by
\* a failure of the same kind, which a third call may then suffer from.
OwnEntry ==
    \A th \in Thread : call[th].at = "add" /\ call[th].by \notin removed =>
        /\ call[th].path \in DOMAIN m_watches
        /\ m_watches[call[th].path].by = call[th].by
===============================================================================
