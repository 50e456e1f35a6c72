------------------------- MODULE WindowsWatcherProofs -------------------------
(***************************************************************************)
(* Proofs about WindowsWatcher, for any files, roots, clients and bounds.  *)
(***************************************************************************)
EXTENDS WindowsWatcher, SequenceTheorems, FiniteSetTheorems, TLAPS

-----------------------------------------------------------------------------
(* The invariant.                                                           *)

HandleField == {"dir", "recursive", "key", "reads", "records", "lost", "dead"}
ItemField   == {"path", "hDir", "buffer"}
LoopField   == {"at", "item", "entry"}
Packets     == [key : Address \cup {NoKey}, ok : BOOLEAN, size : Nat]

\* The functions and records are what the updates take them for.
Shapes ==
    /\ Handle \subseteq 1 .. MaxHandle
    /\ \A h \in Handle :
          /\ handle[h] = [f \in HandleField |-> handle[h][f]]
          /\ handle[h].reads \in Seq(Address)
          /\ handle[h].key \in Address \cup {NoKey}
    /\ iocp \in Seq(Packets)
    /\ \A k \in DOMAIN iocp : iocp[k].key = NoKey => iocp[k] = Wakeup
    /\ DOMAIN heap \subseteq Address
    /\ \A a \in DOMAIN heap : heap[a] = [f \in ItemField |-> heap[a][f]]
    /\ lp = [f \in LoopField |-> lp[f]]
    /\ lp.item \in IF lp.at \in {"process", "callback", "reissue"} THEN Address ELSE {NoKey}
    /\ call = [th \in Thread |-> call[th]]

\* The calls that have an item, and those that have not closed its handle yet.
Holding(th) == call[th].at \in {"cancel", "close", "forget"}
Closing(th) == call[th].at \in {"cancel", "close"}
Opened(th)  == call[th].at = "opened"
Owner == Range(m_watches) \cup {call[th].item : th \in {th \in Thread : Closing(th)}}

\* Nobody shares an item.
ItemsApart ==
    /\ Live \subseteq DOMAIN heap
    /\ \A r, s \in DOMAIN m_watches : m_watches[r] = m_watches[s] => r = s
    /\ \A th \in Thread : Holding(th) =>
          /\ call[th] = [at |-> call[th].at, item |-> call[th].item]
          /\ call[th].item \notin Range(m_watches)
          /\ \A other \in Thread : Holding(other) /\ call[other].item = call[th].item => other = th

\* An item has its handle until that is closed, and the packets of the handle go to it.
HandlesOwned ==
    /\ \A a \in Owner : heap[a].hDir \in Handle /\ handle[heap[a].hDir].key = a
    /\ \A th \in Thread : Opened(th) =>
          /\ call[th].h \in Handle /\ handle[call[th].h].key = NoKey
          /\ \A other \in Thread : Opened(other) /\ call[other].h = call[th].h => other = th

\* Where the number a is in a sequence, and that it is there once at most.
In(q, a)   == \E k \in DOMAIN q : q[k] = a
Once(q, a) == \A j, k \in DOMAIN q : q[j] = a /\ q[k] = a => j = k
KeysOf(p)  == [k \in DOMAIN p |-> p[k].key]
Keys       == KeysOf(iocp)

\* An item is being read, or has a packet in the port, or is in the hands of the loop;
\* and that once.
OneToken(a) ==
    /\ Once(Keys, a)
    /\ \A h \in Handle : Once(handle[h].reads, a) /\ (In(handle[h].reads, a) => ~In(Keys, a))
    /\ \A g, h \in Handle : In(handle[g].reads, a) /\ In(handle[h].reads, a) => g = h
    /\ lp.item = a => ~In(Keys, a) /\ \A h \in Handle : ~In(handle[h].reads, a)

Tokens == \A a \in Address \ misused : OneToken(a)

\* The packet of a read goes to the item whose buffer it fills.
ReadsOwn ==
    \A h \in Handle : handle[h].key \notin misused \cup {NoKey} =>
        \A k \in DOMAIN handle[h].reads : handle[h].reads[k] = handle[h].key

\* WatchIsHeard, and that it does not depend on m_running.
Heard ==
    \A r \in DOMAIN m_watches :
        LET a == m_watches[r]
            h == heap[a].hDir IN
        \/ handle[h].dead \/ a \in deaf
        \/ handle[h].reads # << >>
        \/ lp.item = a
        \/ In(Keys, a)

\* NoLeak, and that a handle goes before its item is forgotten.
Closed ==
    \A h \in Handle :
        \/ \E a \in Owner : heap[a].hDir = h
        \/ \E th \in Thread : Opened(th) /\ call[th].h = h
        \/ handle[h].key \in misused \ {NoKey}

IInv == Shapes /\ ItemsApart /\ HandlesOwned /\ Tokens /\ ReadsOwn /\ Heard /\ Closed

-----------------------------------------------------------------------------
(* Sequences of addresses and of packets.                                   *)

\* A number is appended to a sequence.
LEMMA InAppended ==
  ASSUME NEW S, NEW q \in Seq(S), NEW e \in S, NEW a
  PROVE  /\ In(Append(q, e), a) <=> In(q, a) \/ e = a
         /\ Once(q, a) /\ (e = a => ~In(q, a)) => Once(Append(q, e), a)
<1> DEFINE t == Append(q, e)
<1>1. /\ DOMAIN q = 1 .. Len(q) /\ Len(q) \in Nat
      /\ DOMAIN t = 1 .. Len(q) + 1 /\ t[Len(q) + 1] = e
      /\ \A i \in 1 .. Len(q) : t[i] = q[i]
  BY AppendProperties, LenProperties
<1> HIDE DEF t
<1>2. \A i \in DOMAIN t : i = Len(q) + 1 \/ i \in DOMAIN q
  BY <1>1
<1>3. In(t, a) <=> In(q, a) \/ e = a
  BY <1>1, <1>2 DEF In
<1>4. ASSUME Once(q, a), e = a => ~In(q, a), NEW i \in DOMAIN t, NEW j \in DOMAIN t, t[i] = a, t[j] = a
      PROVE  i = j
  <2>1. CASE i \in DOMAIN q /\ j \in DOMAIN q
    BY <1>1, <1>4, <2>1 DEF Once
  <2>2. CASE i = Len(q) + 1 /\ j # i
    BY <1>1, <1>2, <1>4, <2>2 DEF In
  <2>3. CASE j = Len(q) + 1 /\ j # i
    BY <1>1, <1>2, <1>4, <2>3 DEF In
  <2> QED BY <1>2, <2>1, <2>2, <2>3
<1>5. Once(q, a) /\ (e = a => ~In(q, a)) => Once(t, a)
  BY <1>4 DEF Once
<1> QED BY <1>3, <1>5 DEF t

\* The first number of a sequence is taken.
LEMMA InTail ==
  ASSUME NEW S, NEW q \in Seq(S), q # << >>, NEW a
  PROVE  /\ In(q, a) <=> Head(q) = a \/ In(Tail(q), a)
         /\ Once(q, a) => Once(Tail(q), a) /\ (Head(q) = a => ~In(Tail(q), a))
<1> DEFINE t == Tail(q)
<1>1. /\ DOMAIN q = 1 .. Len(q) /\ Len(q) \in Nat /\ Len(q) >= 1
      /\ DOMAIN t = 1 .. Len(q) - 1 /\ Head(q) = q[1]
      /\ \A i \in 1 .. Len(q) - 1 : t[i] = q[i + 1]
  BY HeadTailProperties, LenProperties
<1> HIDE DEF t
<1>2. /\ \A i \in DOMAIN t : i + 1 \in DOMAIN q /\ i + 1 # 1 /\ t[i] = q[i + 1]
      /\ \A i \in DOMAIN q : i = 1 \/ (i - 1 \in DOMAIN t /\ t[i - 1] = q[i])
      /\ 1 \in DOMAIN q
  BY <1>1
<1>3. In(q, a) <=> Head(q) = a \/ In(t, a)
  BY <1>1, <1>2 DEF In
<1>4. ASSUME Once(q, a) PROVE Once(t, a) /\ (Head(q) = a => ~In(t, a))
  <2>1. ASSUME NEW i \in DOMAIN t, NEW j \in DOMAIN t, t[i] = a, t[j] = a PROVE i = j
    <3>1. i + 1 = j + 1
      BY <1>2, <1>4, <2>1 DEF Once
    <3>2. i \in Int /\ j \in Int
      BY <1>1
    <3> QED BY <3>1, <3>2
  <2>2. ASSUME Head(q) = a, NEW i \in DOMAIN t, t[i] = a PROVE FALSE
    BY <1>1, <1>2, <1>4, <2>2 DEF Once
  <2> QED BY <2>1, <2>2 DEF Once, In
<1> QED BY <1>3, <1>4 DEF t

\* The same packet is appended n times.
LEMMA InRepeated ==
  ASSUME NEW S, NEW q \in Seq(S), NEW e \in S, NEW n \in Nat, NEW a
  PROVE  LET t == q \o [k \in 1 .. n |-> e] IN
         /\ t \in Seq(S)
         /\ In(t, a) <=> In(q, a) \/ (n > 0 /\ e = a)
         /\ Once(q, a) /\ (e = a => n = 0 \/ (n = 1 /\ ~In(q, a))) => Once(t, a)
<1> DEFINE c == [k \in 1 .. n |-> e]
           t == q \o c
<1>0. c \in Seq(S) /\ Len(c) = n
  <2>1. c \in [1 .. n -> S]
    OBVIOUS
  <2>2. c \in Seq(S)
    BY <2>1, SeqDef
  <2>3. DOMAIN c = 1 .. n /\ DOMAIN c = 1 .. Len(c) /\ Len(c) \in Nat
    BY <2>2, LenProperties
  <2> HIDE DEF c
  <2> QED BY <2>2, <2>3
<1>1. /\ t \in Seq(S) /\ DOMAIN t = 1 .. Len(q) + n /\ DOMAIN q = 1 .. Len(q) /\ Len(q) \in Nat
      /\ \A i \in 1 .. Len(q) + n : t[i] = IF i <= Len(q) THEN q[i] ELSE e
  <2> HIDE DEF c
  <2>1. /\ t \in Seq(S) /\ Len(t) = Len(q) + n /\ Len(q) \in Nat
        /\ \A i \in 1 .. Len(q) + n : t[i] = IF i <= Len(q) THEN q[i] ELSE c[i - Len(q)]
    BY <1>0, ConcatProperties, LenProperties
  <2>2. DOMAIN t = 1 .. Len(t) /\ DOMAIN q = 1 .. Len(q)
    BY <2>1, LenProperties
  <2>3. \A i \in 1 .. Len(q) + n : ~(i <= Len(q)) => i - Len(q) \in 1 .. n
    BY <2>1
  <2>4. \A k \in 1 .. n : c[k] = e
    BY DEF c
  <2> QED BY <2>1, <2>2, <2>3, <2>4
<1> HIDE DEF t
<1>2. In(t, a) <=> In(q, a) \/ (n > 0 /\ e = a)
  <2>1. ASSUME In(t, a) PROVE In(q, a) \/ (n > 0 /\ e = a)
    BY <1>1, <2>1 DEF In
  <2>2. ASSUME In(q, a) PROVE In(t, a)
    <3>1. PICK k \in DOMAIN q : q[k] = a
      BY <2>2 DEF In
    <3>2. k \in DOMAIN t /\ t[k] = a
      BY <1>1, <3>1
    <3> QED BY <3>2 DEF In
  <2>3. ASSUME n > 0, e = a PROVE In(t, a)
    <3>1. Len(q) + 1 \in DOMAIN t /\ t[Len(q) + 1] = a
      BY <1>1, <2>3
    <3> QED BY <3>1 DEF In
  <2> QED BY <2>1, <2>2, <2>3
<1>3. ASSUME Once(q, a), e = a => n = 0 \/ (n = 1 /\ ~In(q, a)),
             NEW i \in DOMAIN t, NEW j \in DOMAIN t, t[i] = a, t[j] = a
      PROVE  i = j
  <2>1. CASE i <= Len(q) /\ j <= Len(q)
    BY <1>1, <1>3, <2>1 DEF Once
  <2>2. CASE ~(i <= Len(q)) \/ ~(j <= Len(q))
    <3>1. e = a /\ n = 1 /\ ~In(q, a)
      BY <1>1, <1>3, <2>2
    <3>2. i = Len(q) + 1 /\ j = Len(q) + 1
      BY <1>1, <1>3, <3>1 DEF In
    <3> QED BY <3>2
  <2> QED BY <2>1, <2>2
<1>4. Once(q, a) /\ (e = a => n = 0 \/ (n = 1 /\ ~In(q, a))) => Once(t, a)
  BY <1>3 DEF Once
<1> QED BY <1>1, <1>2, <1>4 DEF t

\* The keys of a sequence of packets are a sequence, made in the same way.
LEMMA KeysOfPort ==
  ASSUME NEW q \in Seq(Packets)
  PROVE  /\ KeysOf(q) \in Seq(Address \cup {NoKey}) /\ Len(KeysOf(q)) = Len(q)
         /\ \A p \in Packets : KeysOf(Append(q, p)) = Append(KeysOf(q), p.key)
         /\ q # << >> => /\ KeysOf(q) # << >> /\ Head(KeysOf(q)) = Head(q).key
                         /\ KeysOf(Tail(q)) = Tail(KeysOf(q))
<1> DEFINE A == Address \cup {NoKey}
           t == KeysOf(q)
<1>0. ASSUME NEW x \in Seq(Packets)
      PROVE  KeysOf(x) \in Seq(A) /\ Len(KeysOf(x)) = Len(x) /\ DOMAIN KeysOf(x) = 1 .. Len(x)
             /\ \A k \in 1 .. Len(x) : KeysOf(x)[k] = x[k].key
  <2>1. x \in [1 .. Len(x) -> Packets] /\ Len(x) \in Nat
    BY LenProperties
  <2>2. \A k \in 1 .. Len(x) : x[k].key \in A
    BY <2>1 DEF Packets
  <2>3. KeysOf(x) \in [1 .. Len(x) -> A]
    BY <2>1, <2>2 DEF KeysOf
  <2>4. KeysOf(x) \in Seq(A)
    BY <2>1, <2>3, SeqDef
  <2>5. DOMAIN KeysOf(x) = 1 .. Len(KeysOf(x)) /\ Len(KeysOf(x)) \in Nat
    BY <2>4, LenProperties
  <2>6. DOMAIN KeysOf(x) = 1 .. Len(x)
    BY <2>3
  <2>7. Len(KeysOf(x)) = Len(x)
    <3>1. \A m, n \in Nat : 1 .. m = 1 .. n => m = n
      OBVIOUS
    <3> QED BY <2>1, <2>5, <2>6, <3>1
  <2>8. \A k \in 1 .. Len(x) : KeysOf(x)[k] = x[k].key
    BY <2>1 DEF KeysOf
  <2> QED BY <2>4, <2>6, <2>7, <2>8
<1>1. ASSUME NEW p \in Packets PROVE KeysOf(Append(q, p)) = Append(KeysOf(q), p.key)
  <2> DEFINE u == Append(q, p)
  <2>1. p.key \in A
    BY DEF Packets
  <2>2. /\ u \in Seq(Packets) /\ Len(u) = Len(q) + 1 /\ Len(q) \in Nat
        /\ \A k \in 1 .. Len(q) : u[k] = q[k]
        /\ u[Len(q) + 1] = p
    BY AppendProperties, LenProperties
  <2> HIDE DEF u
  <2>3. /\ KeysOf(u) \in Seq(A) /\ Len(KeysOf(u)) = Len(q) + 1
        /\ \A k \in 1 .. Len(q) + 1 : KeysOf(u)[k] = u[k].key
    BY <1>0, <2>2
  <2>4. /\ t \in Seq(A) /\ Len(t) = Len(q) /\ \A k \in 1 .. Len(q) : t[k] = q[k].key
    BY <1>0
  <2> HIDE DEF t, A
  <2>5. /\ Append(t, p.key) \in Seq(A) /\ Len(Append(t, p.key)) = Len(q) + 1
        /\ \A k \in 1 .. Len(q) : Append(t, p.key)[k] = t[k]
        /\ Append(t, p.key)[Len(q) + 1] = p.key
    BY <2>1, <2>4, AppendProperties
  <2>6. \A k \in 1 .. Len(q) + 1 : KeysOf(u)[k] = Append(t, p.key)[k]
    BY <2>2, <2>3, <2>4, <2>5
  <2>7. KeysOf(u) = Append(t, p.key)
    BY <2>3, <2>5, <2>6, SeqEqual
  <2> QED BY <2>7 DEF u, t
<1>2. ASSUME q # << >>
      PROVE  KeysOf(q) # << >> /\ Head(KeysOf(q)) = Head(q).key /\ KeysOf(Tail(q)) = Tail(KeysOf(q))
  <2> DEFINE u == Tail(q)
  <2>1. /\ u \in Seq(Packets) /\ Len(u) = Len(q) - 1 /\ Len(q) \in Nat \ {0} /\ Head(q) = q[1]
        /\ \A k \in 1 .. Len(q) - 1 : u[k] = q[k + 1]
    BY <1>2, HeadTailProperties, EmptySeq, LenProperties
  <2> HIDE DEF u
  <2>2. t \in Seq(A) /\ Len(t) = Len(q) /\ \A k \in 1 .. Len(q) : t[k] = q[k].key
    BY <1>0
  <2>3. /\ KeysOf(u) \in Seq(A) /\ Len(KeysOf(u)) = Len(q) - 1
        /\ \A k \in 1 .. Len(q) - 1 : KeysOf(u)[k] = u[k].key
    BY <1>0, <2>1
  <2> HIDE DEF t, A
  <2>4. t # << >>
    BY <2>1, <2>2, EmptySeq
  <2>5. /\ Tail(t) \in Seq(A) /\ Len(Tail(t)) = Len(q) - 1 /\ Head(t) = t[1]
        /\ \A k \in 1 .. Len(q) - 1 : Tail(t)[k] = t[k + 1]
    BY <2>2, <2>4, HeadTailProperties
  <2>6. ASSUME NEW k \in 1 .. Len(q) - 1 PROVE KeysOf(u)[k] = Tail(t)[k]
    <3>1. k + 1 \in 1 .. Len(q)
      BY <2>1
    <3> QED BY <2>1, <2>2, <2>3, <2>5, <3>1
  <2>7. KeysOf(u) = Tail(t)
    BY <2>3, <2>5, <2>6, SeqEqual
  <2>8. Head(t) = Head(q).key
    BY <2>1, <2>2, <2>5
  <2> QED BY <2>4, <2>7, <2>8 DEF u, t
<1> QED BY <1>0, <1>1, <1>2

-----------------------------------------------------------------------------
(* Steps that leave most of it alone.                                       *)

invVars == <<handle, iocp, heap, m_watches, lp, call, deaf, misused>>

LEMMA Untouched == ASSUME IInv, UNCHANGED invVars PROVE IInv'
<1> USE DEF invVars, IInv
<1>1. Handle' = Handle /\ Keys' = Keys /\ Owner' = Owner /\ Live' = Live
  BY DEF Handle, Keys, KeysOf, Owner, Live, Closing
<1>2. Shapes'
  BY <1>1 DEF Shapes
<1>3. ItemsApart'
  BY <1>1 DEF ItemsApart, Holding
<1>4. HandlesOwned' /\ Closed'
  BY <1>1 DEF HandlesOwned, Closed, Opened
<1>5. Tokens' /\ ReadsOwn' /\ Heard'
  BY <1>1 DEF Tokens, OneToken, ReadsOwn, Heard
<1> QED BY <1>2, <1>3, <1>4, <1>5

\* The handles change, but not whose they are nor what is being read.
LEMMA HandlesChange ==
  ASSUME IInv, UNCHANGED <<iocp, heap, m_watches, lp, call, deaf, misused>>, Handle' = Handle,
         \A h \in Handle : /\ handle'[h] = [f \in HandleField |-> handle'[h][f]]
                           /\ handle'[h].key = handle[h].key /\ handle'[h].reads = handle[h].reads
                           /\ handle[h].dead => handle'[h].dead
  PROVE  IInv'
<1> USE DEF IInv
<1>1. Keys' = Keys /\ Owner' = Owner /\ Live' = Live
  BY DEF Keys, KeysOf, Owner, Live, Closing
<1>2. Shapes'
  BY DEF Shapes
<1>3. ItemsApart'
  BY <1>1 DEF ItemsApart, Holding
<1>4. HandlesOwned' /\ Closed'
  BY <1>1 DEF HandlesOwned, Closed, Opened
<1>5. Tokens' /\ ReadsOwn'
  <2>1. ASSUME NEW a, OneToken(a) PROVE OneToken(a)'
    BY <1>1, <2>1 DEF OneToken
  <2>2. Tokens'
    BY <2>1 DEF Tokens
  <2>3. ReadsOwn'
    <3> SUFFICES ASSUME NEW h \in Handle, handle'[h].key \notin misused' \cup {NoKey},
                        NEW k \in DOMAIN handle'[h].reads
                 PROVE  handle'[h].reads[k] = handle'[h].key
      BY DEF ReadsOwn
    <3>1. handle'[h].key = handle[h].key /\ handle'[h].reads = handle[h].reads /\ misused' = misused
      OBVIOUS
    <3> QED BY <3>1 DEF ReadsOwn
  <2> QED BY <2>2, <2>3
<1>6. Heard'
  <2>1. \A r \in DOMAIN m_watches : heap[m_watches[r]].hDir \in Handle
    BY DEF HandlesOwned, Owner, Range
  <2> QED BY <1>1, <2>1 DEF Heard
<1> QED BY <1>2, <1>3, <1>4, <1>5, <1>6

\* The loop moves on with the item it has.
LEMMA LoopMoves ==
  ASSUME IInv, UNCHANGED <<handle, iocp, heap, m_watches, call, deaf, misused>>,
         lp' = [f \in LoopField |-> lp'[f]], lp'.item = lp.item,
         lp'.at \in {"process", "callback", "reissue"} <=> lp.at \in {"process", "callback", "reissue"}
  PROVE  IInv'
<1> USE DEF IInv
<1>1. Handle' = Handle /\ Keys' = Keys /\ Owner' = Owner /\ Live' = Live
  BY DEF Handle, Keys, KeysOf, Owner, Live, Closing
<1>2. Shapes'
  BY <1>1 DEF Shapes
<1>3. ItemsApart'
  BY <1>1 DEF ItemsApart, Holding
<1>4. HandlesOwned' /\ Closed'
  BY <1>1 DEF HandlesOwned, Closed, Opened
<1>5. Tokens' /\ ReadsOwn' /\ Heard'
  BY <1>1 DEF Tokens, OneToken, ReadsOwn, Heard
<1> QED BY <1>2, <1>3, <1>4, <1>5

\* A call that has neither an item nor a handle goes on to where it has none.
Empty(c) == c.at \notin {"opened", "cancel", "close", "forget"}

LEMMA CallMoves ==
  ASSUME IInv, NEW th \in Thread, NEW c, Empty(call[th]), Empty(c), Becomes(th, c),
         UNCHANGED <<handle, iocp, heap, m_watches, lp, deaf, misused>>
  PROVE  IInv'
<1> USE DEF IInv
<1>0. /\ call' = [t \in Thread |-> IF t = th THEN c ELSE call[t]]
      /\ \A t \in Thread : Holding(t)' = Holding(t) /\ Closing(t)' = Closing(t) /\ Opened(t)' = Opened(t)
      /\ \A t \in Thread : Holding(t) \/ Closing(t) \/ Opened(t) => call'[t] = call[t]
  BY DEF Becomes, Shapes, Empty, Holding, Closing, Opened
<1>1. Handle' = Handle /\ Keys' = Keys /\ Owner' = Owner /\ Live' = Live
  BY <1>0 DEF Handle, Keys, KeysOf, Owner, Live, Holding
<1>2. Shapes'
  BY <1>0, <1>1 DEF Shapes
<1>3. ItemsApart'
  BY <1>0, <1>1 DEF ItemsApart
<1>4. HandlesOwned' /\ Closed'
  BY <1>0, <1>1 DEF HandlesOwned, Closed
<1>5. Tokens' /\ ReadsOwn' /\ Heard'
  BY <1>1 DEF Tokens, OneToken, ReadsOwn, Heard
<1> QED BY <1>2, <1>3, <1>4, <1>5

-----------------------------------------------------------------------------
(* Files change, and reads complete.                                        *)

\* Changes are recorded, or lost.
LEMMA RecordedKeeps ==
  ASSUME Shapes, NEW records, NEW h \in Handle
  PROVE  LET r == Recorded(records)[h] IN
         /\ DOMAIN Recorded(records) = Handle
         /\ r = [f \in HandleField |-> r[f]]
         /\ r.key = handle[h].key /\ r.reads = handle[h].reads /\ r.dead = handle[h].dead
         /\ r.dir = handle[h].dir
<1> DEFINE all == handle[h].records \o Relative(h, records)
           r   == Recorded(records)[h]
<1>1. DOMAIN Recorded(records) = Handle
  BY Zenon DEF Recorded
<1>2. r = IF handle[h].key = NoKey \/ handle[h].dead THEN handle[h]
          ELSE IF Len(all) > MaxRecords \/ handle[h].lost
               THEN [handle[h] EXCEPT !.records = << >>, !.lost = TRUE]
               ELSE [handle[h] EXCEPT !.records = all]
  BY Zenon DEF Recorded
<1> HIDE DEF all
<1>3. \/ r = handle[h]
      \/ r = [handle[h] EXCEPT !.records = << >>, !.lost = TRUE]
      \/ r = [handle[h] EXCEPT !.records = all]
  BY <1>2
<1> HIDE DEF r
<1>4. handle[h] = [f \in HandleField |-> handle[h][f]]
  BY DEF Shapes
<1>5. /\ r = [f \in HandleField |-> r[f]]
      /\ r.key = handle[h].key /\ r.reads = handle[h].reads /\ r.dead = handle[h].dead
      /\ r.dir = handle[h].dir
  BY <1>3, <1>4 DEF HandleField
<1> QED BY <1>1, <1>5 DEF r

LEMMA FilesChange == ASSUME IInv, FsStep PROVE IInv'
<1>1. CASE \E p, q \in Path : Create(p) \/ Write(p) \/ Unlink(p) \/ Rename(p, q) \/ Move(p, q)
  <2>1. PICK records, unnoticed : Changes(records, unnoticed)
    BY <1>1 DEF Create, Write, Unlink, Rename, Move
  <2>2. UNCHANGED iocp
    BY <1>1 DEF Create, Write, Unlink, Rename, Move
  <2>3. handle' = Recorded(records) /\ UNCHANGED <<iocp, heap, m_watches, lp, call, deaf, misused>>
    BY <2>1, <2>2 DEF Changes
  <2>4. Handle' = Handle
    BY <2>3, Zenon DEF Recorded, Handle
  <2>5. \A h \in Handle : /\ handle'[h] = [f \in HandleField |-> handle'[h][f]]
                          /\ handle'[h].key = handle[h].key /\ handle'[h].reads = handle[h].reads
                          /\ handle[h].dead => handle'[h].dead
    BY <2>3, RecordedKeeps DEF IInv
  <2> QED BY <2>3, <2>4, <2>5, HandlesChange
<1>2. CASE \E r \in Root : UnlinkRoot(r)
  <2>1. PICK r, records : /\ handle' = Died(r, Recorded(records))
                          /\ UNCHANGED <<iocp, heap, m_watches, lp, call, deaf, misused>>
    BY <1>2 DEF UnlinkRoot
  <2> DEFINE w == Recorded(records)
  <2>2. DOMAIN w = Handle
    BY Zenon DEF Recorded
  <2>3. \A h \in Handle : /\ w[h] = [f \in HandleField |-> w[h][f]]
                          /\ w[h].key = handle[h].key /\ w[h].reads = handle[h].reads
                          /\ w[h].dead = handle[h].dead
    BY RecordedKeeps DEF IInv
  <2> HIDE DEF w
  <2>4. handle' = [h \in Handle |-> IF w[h].dir = r THEN [w[h] EXCEPT !.dead = TRUE, !.records = << >>]
                                    ELSE w[h]]
    BY <2>1, <2>2, Zenon DEF Died, w
  <2>5. Handle' = Handle
    BY <2>4, Zenon DEF Handle
  <2>6. \A h \in Handle : /\ handle'[h] = [f \in HandleField |-> handle'[h][f]]
                          /\ handle'[h].key = handle[h].key /\ handle'[h].reads = handle[h].reads
                          /\ handle[h].dead => handle'[h].dead
    <3> SUFFICES ASSUME NEW h \in Handle
                 PROVE  /\ handle'[h] = [f \in HandleField |-> handle'[h][f]]
                        /\ handle'[h].key = handle[h].key /\ handle'[h].reads = handle[h].reads
                        /\ handle[h].dead => handle'[h].dead
      OBVIOUS
    <3>1. handle'[h] = [w[h] EXCEPT !.dead = TRUE, !.records = << >>] \/ handle'[h] = w[h]
      BY <2>4, Zenon
    <3> QED BY <2>3, <3>1 DEF HandleField
  <2> QED BY <2>1, <2>5, <2>6, HandlesChange
<1> QED BY <1>1, <1>2, SMTT(30) DEF FsStep

\* A read that completes hands its item from the handle to the port.
LEMMA ReadCompletes ==
  ASSUME IInv, NEW h \in Handle, Complete(h), UNCHANGED <<m_watches, lp, call, deaf, misused>>
  PROVE  IInv'
<1> USE DEF IInv
<1> DEFINE r == handle[h].reads
           k == handle[h].key
<1>1. /\ r \in Seq(Address) /\ r # << >> /\ k \in Address /\ k # NoKey
      /\ Tail(r) \in Seq(Address) /\ Head(r) \in Address
  <2>1. r # << >> /\ k # NoKey
    BY Zenon DEF Complete, CanComplete
  <2> QED BY <2>1, HeadTailProperties DEF Shapes
<1>2. PICK p \in Packets : p.key = k /\ iocp' = Append(iocp, p)
  <2>1. \A ok \in BOOLEAN, n \in Nat : Packet(k, ok, n) \in Packets /\ Packet(k, ok, n).key = k
    BY <1>1 DEF Packet, Packets
  <2>2. CASE iocp' = Append(iocp, Packet(k, ~handle[h].dead, 0))
    BY <2>1, <2>2
  <2>3. CASE \E n \in 1 .. Len(handle[h].records) : iocp' = Append(iocp, Packet(k, TRUE, n))
    <3>1. PICK n \in 1 .. Len(handle[h].records) : iocp' = Append(iocp, Packet(k, TRUE, n))
      BY <2>3
    <3>2. n \in Nat
      OBVIOUS
    <3>3. Packet(k, TRUE, n) \in Packets /\ Packet(k, TRUE, n).key = k
      BY <2>1, <3>2
    <3> QED BY <3>1, <3>3
  <2>4. \/ iocp' = Append(iocp, Packet(k, ~handle[h].dead, 0))
        \/ \E n \in 1 .. Len(handle[h].records) : iocp' = Append(iocp, Packet(k, TRUE, n))
    BY Zenon DEF Complete
  <2> QED BY <2>2, <2>3, <2>4
<1>3. /\ Handle' = Handle
      /\ \A g \in Handle : /\ handle'[g].key = handle[g].key /\ handle'[g].dead = handle[g].dead
                           /\ g # h => handle'[g].reads = handle[g].reads
      /\ handle'[h].reads = Tail(r)
      /\ \A g \in Handle : handle'[g] = [f \in HandleField |-> handle'[g][f]]
  <2> DEFINE m == [handle EXCEPT ![h].reads = Tail(@)]
  <2>1. /\ DOMAIN m = Handle /\ m[h] = [handle[h] EXCEPT !.reads = Tail(r)]
        /\ \A g \in Handle : g # h => m[g] = handle[g]
    BY Zenon DEF Handle
  <2>2. \E l : handle' = [m EXCEPT ![h].lost = l] \/ handle' = [m EXCEPT ![h].records = l]
    BY Zenon DEF Complete
  <2> HIDE DEF m
  <2>3. handle[h] = [f \in HandleField |-> handle[h][f]]
    BY DEF Shapes
  <2>4. /\ m[h] = [f \in HandleField |-> m[h][f]] /\ m[h].key = handle[h].key
        /\ m[h].dead = handle[h].dead /\ m[h].reads = Tail(r)
    <3> HIDE DEF r
    <3> QED BY <2>1, <2>3 DEF HandleField
  <2>5. PICK l : handle' = [m EXCEPT ![h] = [m[h] EXCEPT !.lost = l]]
                 \/ handle' = [m EXCEPT ![h] = [m[h] EXCEPT !.records = l]]
    BY <2>2, Zenon
  <2>6. /\ DOMAIN handle' = Handle /\ \A g \in Handle : g # h => handle'[g] = m[g]
        /\ handle'[h] = [m[h] EXCEPT !.lost = l] \/ handle'[h] = [m[h] EXCEPT !.records = l]
    BY <2>1, <2>5, Zenon
  <2>7. /\ handle'[h] = [f \in HandleField |-> handle'[h][f]] /\ handle'[h].key = m[h].key
        /\ handle'[h].dead = m[h].dead /\ handle'[h].reads = m[h].reads
    BY <2>4, <2>6 DEF HandleField
  <2>8. Handle' = Handle
    BY <2>6, Zenon DEF Handle
  <2>9. ASSUME NEW g \in Handle PROVE handle'[g] = [f \in HandleField |-> handle'[g][f]]
    <3>1. CASE g = h
      BY <2>7, <3>1
    <3>2. CASE g # h
      <4>1. handle'[g] = handle[g] /\ handle[g] = [f \in HandleField |-> handle[g][f]]
        BY <2>1, <2>6, <3>2 DEF Shapes
      <4> QED BY <4>1, Zenon
    <3> QED BY <3>1, <3>2
  <2>10. ASSUME NEW g \in Handle
         PROVE  /\ handle'[g].key = handle[g].key /\ handle'[g].dead = handle[g].dead
                /\ g # h => handle'[g].reads = handle[g].reads
    BY <2>1, <2>4, <2>6, <2>7
  <2> QED BY <2>4, <2>7, <2>8, <2>9, <2>10
<1>4. /\ DOMAIN heap' = DOMAIN heap
      /\ \A a \in DOMAIN heap : /\ heap'[a] = [f \in ItemField |-> heap'[a][f]]
                                /\ heap'[a].hDir = heap[a].hDir
  <2>1. \/ heap' = heap
        \/ \E b : heap' = [heap EXCEPT ![Head(r)].buffer = b]
    BY Zenon DEF Complete
  <2>2. \A a \in DOMAIN heap : heap[a] = [f \in ItemField |-> heap[a][f]]
    BY DEF Shapes
  <2>3. /\ DOMAIN heap' = DOMAIN heap
        /\ \A a \in DOMAIN heap : heap'[a] = heap[a] \/ \E b : heap'[a] = [heap[a] EXCEPT !.buffer = b]
    BY <2>1
  <2>4. ASSUME NEW a \in DOMAIN heap
        PROVE  heap'[a] = [f \in ItemField |-> heap'[a][f]] /\ heap'[a].hDir = heap[a].hDir
    BY <2>2, <2>3 DEF ItemField
  <2> QED BY <2>3, <2>4
<1>5. /\ Owner' = Owner /\ Live' = Live /\ Owner \subseteq DOMAIN heap
      /\ \A x \in DOMAIN m_watches : m_watches[x] \in Owner
  BY DEF Owner, Live, Closing, ItemsApart, Range
<1>6. Keys \in Seq(Address \cup {NoKey}) /\ Keys' = Append(Keys, k)
  BY <1>2, KeysOfPort DEF Shapes, Keys
<1> HIDE DEF k, r
<1>7. /\ \A a : In(Keys', a) <=> In(Keys, a) \/ a = k
      /\ \A a : Once(Keys, a) /\ (a = k => ~In(Keys, a)) => Once(Keys', a)
      /\ \A a : In(r, a) <=> Head(r) = a \/ In(Tail(r), a)
      /\ \A a : Once(r, a) => Once(Tail(r), a) /\ (Head(r) = a => ~In(Tail(r), a))
  <2>1. k \in Address \cup {NoKey}
    BY <1>1
  <2> QED BY <1>1, <1>6, <2>1, InAppended, InTail
<1>8. Shapes'
  <2>1. iocp' \in Seq(Packets) /\ \A i \in DOMAIN iocp' : iocp'[i].key = NoKey => iocp'[i] = Wakeup
    <3>1. /\ iocp \in Seq(Packets) /\ Len(iocp) \in Nat /\ DOMAIN iocp = 1 .. Len(iocp)
          /\ iocp' \in Seq(Packets) /\ DOMAIN iocp' = 1 .. Len(iocp) + 1
          /\ iocp'[Len(iocp) + 1] = p /\ \A i \in 1 .. Len(iocp) : iocp'[i] = iocp[i]
      BY <1>2, AppendProperties, LenProperties DEF Shapes
    <3>2. \A i \in DOMAIN iocp' : i = Len(iocp) + 1 \/ i \in DOMAIN iocp
      BY <3>1
    <3> QED BY <1>1, <1>2, <3>1, <3>2 DEF Shapes
  <2>2. \A g \in Handle : handle'[g].reads \in Seq(Address)
    BY <1>1, <1>3 DEF Shapes
  <2> QED BY <1>3, <1>4, <2>1, <2>2 DEF Shapes, Address
<1>9. ItemsApart'
  BY <1>4, <1>5 DEF ItemsApart, Holding
<1>10. HandlesOwned' /\ Closed'
  <2>1. HandlesOwned'
    BY <1>3, <1>4, <1>5 DEF HandlesOwned, Opened
  <2>2. Closed'
    BY <1>3, <1>4, <1>5 DEF Closed, Opened
  <2> QED BY <2>1, <2>2
<1>11. Tokens'
  <2> SUFFICES ASSUME NEW a \in Address \ misused, OneToken(a) PROVE OneToken(a)'
    BY DEF Tokens, Address
  <2>1. CASE a = k
    <3>1. In(r, a) /\ Head(r) = a
      <4>1. 1 \in DOMAIN r /\ Head(r) = r[1]
        BY <1>1, HeadTailProperties, LenProperties, EmptySeq
      <4> QED BY <1>1, <2>1, <4>1 DEF ReadsOwn, In, r, k
    <3>2. /\ ~In(Keys, a) /\ Once(r, a) /\ \A g \in Handle : In(handle[g].reads, a) => g = h
          /\ lp.item # a
      BY <3>1 DEF OneToken, r
    <3>3. \A g \in Handle : ~In(handle'[g].reads, a)
      <4>1. ~In(handle'[h].reads, a)
        BY <1>3, <1>7, <3>1, <3>2
      <4>2. \A g \in Handle \ {h} : handle'[g].reads = handle[g].reads
        BY <1>3
      <4> QED BY <3>2, <4>1, <4>2
    <3> QED BY <1>3, <1>7, <3>2, <3>3 DEF OneToken, Once, In
  <2>2. CASE a # k
    <3>1. \A g \in Handle : /\ In(handle'[g].reads, a) => In(handle[g].reads, a)
                            /\ Once(handle[g].reads, a) => Once(handle'[g].reads, a)
      BY <1>3, <1>7 DEF r
    <3>2. (In(Keys', a) <=> In(Keys, a)) /\ (Once(Keys, a) => Once(Keys', a))
      BY <1>7, <2>2
    <3> QED BY <1>3, <3>1, <3>2 DEF OneToken
  <2> QED BY <2>1, <2>2
<1>12. ReadsOwn'
  <2> SUFFICES ASSUME NEW g \in Handle, handle[g].key \notin misused \cup {NoKey},
                      NEW j \in DOMAIN handle'[g].reads
               PROVE  handle'[g].reads[j] = handle[g].key
    BY <1>3 DEF ReadsOwn
  <2>1. CASE g # h
    BY <1>3, <2>1 DEF ReadsOwn
  <2>2. CASE g = h
    <3>1. j + 1 \in DOMAIN r /\ handle'[g].reads[j] = r[j + 1]
      BY <1>1, <1>3, <2>2, HeadTailProperties, LenProperties
    <3> QED BY <2>2, <3>1 DEF ReadsOwn, r
  <2> QED BY <2>1, <2>2
<1>13. Heard'
  <2> SUFFICES ASSUME NEW x \in DOMAIN m_watches
               PROVE  LET a == m_watches[x]
                          g == heap[a].hDir IN
                      \/ handle'[g].dead \/ a \in deaf \/ handle'[g].reads # << >> \/ lp.item = a
                      \/ In(Keys', a)
    BY <1>4, <1>5 DEF Heard
  <2>1. m_watches[x] \in Owner /\ heap[m_watches[x]].hDir \in Handle
        /\ handle[heap[m_watches[x]].hDir].key = m_watches[x]
    BY <1>5 DEF HandlesOwned
  <2> QED BY <1>3, <1>7, <2>1 DEF Heard, k
<1> QED BY <1>8, <1>9, <1>10, <1>11, <1>12, <1>13

-----------------------------------------------------------------------------
(* Steps of the calls.                                                      *)

\* A call moves on, the others stay.
LEMMA Became ==
  ASSUME Shapes, NEW th \in Thread, NEW c, Becomes(th, c)
  PROVE  /\ call' = [t \in Thread |-> call'[t]] /\ call'[th] = c
         /\ \A t \in Thread \ {th} : call'[t] = call[t]
<1>1. call' = [t \in Thread |-> IF t = th THEN c ELSE call[t]]
  BY DEF Becomes, Shapes
<1> QED BY <1>1

\* An item that is owned is one, and so is not the key of a handle that has none.
LEMMA Owned ==
  ASSUME IInv, NEW a \in Owner
  PROVE  a \in Address /\ a \in DOMAIN heap /\ a # NoKey /\ a \in Live
BY DEF IInv, Owner, Live, ItemsApart, Shapes, Closing, Address, NoKey

LEMMA DirectoryOpens == ASSUME IInv, NEW th \in Thread, OpenDirectory(th) PROVE IInv'
<1> USE DEF IInv
<1> DEFINE n == NewHandle
<1>1. n \in (1 .. MaxHandle) \ Handle
  <2>1. \E x \in (1 .. MaxHandle) \ Handle : TRUE
    BY DEF OpenDirectory, Open, Shapes
  <2> QED BY <2>1, Zenon DEF NewHandle
<1> HIDE DEF n
<1>2. /\ UNCHANGED <<iocp, heap, m_watches, lp, deaf, misused>>
      /\ call[th].at = "add"
  BY DEF OpenDirectory, userVars
<1>3. /\ call' = [t \in Thread |-> call'[t]]
      /\ call'[th].at = "opened" /\ call'[th].h = n
      /\ \A t \in Thread \ {th} : call'[t] = call[t]
  BY Became DEF OpenDirectory, n
<1>4. /\ Handle' = Handle \cup {n} /\ \A g \in Handle : handle'[g] = handle[g]
      /\ handle'[n] = [f \in HandleField |-> handle'[n][f]]
      /\ handle'[n].key = NoKey /\ handle'[n].reads = << >>
  BY <1>1 DEF OpenDirectory, Open, With, Handle, HandleField, n
<1>5. /\ Keys' = Keys
      /\ \A t \in Thread : (Holding(t)' <=> Holding(t)) /\ (Closing(t)' <=> Closing(t))
                           /\ (Holding(t) => call'[t] = call[t]) /\ (Closing(t) => call'[t] = call[t])
      /\ Opened(th)' /\ \A t \in Thread \ {th} : (Opened(t)' <=> Opened(t))
  BY <1>2, <1>3 DEF Keys, KeysOf, Holding, Closing, Opened
<1>6. Owner' = Owner /\ Live' = Live
  BY <1>2, <1>5 DEF Owner, Live, Closing, Holding
<1>7. Shapes'
  <2>1. << >> \in Seq(Address)
    OBVIOUS
  <2>2. \A g \in Handle' : /\ handle'[g] = [f \in HandleField |-> handle'[g][f]]
                           /\ handle'[g].reads \in Seq(Address)
                           /\ handle'[g].key \in Address \cup {NoKey}
    BY <1>4, <2>1 DEF Shapes
  <2>3. Handle' \subseteq 1 .. MaxHandle
    BY <1>1, <1>4 DEF Shapes
  <2> QED BY <1>2, <1>3, <2>2, <2>3 DEF Shapes
<1>8. ItemsApart'
  BY <1>2, <1>5, <1>6 DEF ItemsApart
<1>9. HandlesOwned'
  BY <1>1, <1>2, <1>3, <1>4, <1>5, <1>6 DEF HandlesOwned
<1>10. Tokens'
  <2>1. \A a : ~In(<< >>, a) /\ Once(<< >>, a)
    BY DEF In, Once
  <2>2. ASSUME NEW a, OneToken(a) PROVE OneToken(a)'
    BY <1>2, <1>4, <1>5, <2>1, <2>2 DEF OneToken
  <2> QED BY <1>2, <2>2 DEF Tokens
<1>11. ReadsOwn'
  BY <1>2, <1>4 DEF ReadsOwn
<1>12. Heard'
  <2>1. \A x \in DOMAIN m_watches : heap[m_watches[x]].hDir \in Handle
    BY DEF HandlesOwned, Owner, Range
  <2> QED BY <1>2, <1>4, <1>5, <2>1 DEF Heard
<1>13. Closed'
  <2> SUFFICES ASSUME NEW g \in Handle'
               PROVE  \/ \E a \in Owner' : heap'[a].hDir = g
                      \/ \E t \in Thread : Opened(t)' /\ call'[t].h = g
                      \/ handle'[g].key \in misused' \ {NoKey}
    BY DEF Closed
  <2>1. CASE g = n
    BY <1>3, <1>5, <2>1
  <2>2. CASE \E t \in Thread : Opened(t) /\ call[t].h = g
    <3>1. \A t \in Thread : Opened(t) => t # th
      BY <1>2 DEF Opened
    <3> QED BY <1>3, <1>5, <2>2, <3>1
  <2> QED BY <1>2, <1>4, <1>6, <2>1, <2>2 DEF Closed
<1> QED BY <1>7, <1>8, <1>9, <1>10, <1>11, <1>12, <1>13

LEMMA ReadRefused == ASSUME IInv, NEW th \in Thread, ReadFails(th) PROVE IInv'
<1> USE DEF IInv
<1> DEFINE h == call[th].h
<1>1. /\ UNCHANGED <<iocp, heap, m_watches, lp, deaf, misused>>
      /\ Opened(th) /\ h \in Handle /\ handle[h].key = NoKey
  BY DEF ReadFails, userVars, HandlesOwned, Opened
<1>2. /\ call' = [t \in Thread |-> call'[t]] /\ call'[th] = Idle
      /\ \A t \in Thread \ {th} : call'[t] = call[t]
  BY Became DEF ReadFails
<1>3. Handle' = Handle \ {h} /\ \A g \in Handle \ {h} : handle'[g] = handle[g]
  BY DEF ReadFails, Without, Restrict, Handle
<1>4. /\ Keys' = Keys
      /\ \A t \in Thread : (Holding(t)' <=> Holding(t)) /\ (Closing(t)' <=> Closing(t))
                           /\ (Holding(t) => call'[t] = call[t]) /\ (Closing(t) => call'[t] = call[t])
      /\ ~Opened(th)' /\ \A t \in Thread \ {th} : Opened(t)' <=> Opened(t)
  BY <1>1, <1>2 DEF Keys, KeysOf, Holding, Closing, Opened, Idle
<1>5. Owner' = Owner /\ Live' = Live
  BY <1>1, <1>4 DEF Owner, Live, Closing, Holding
<1>6. \A a \in Owner : heap[a].hDir \in Handle \ {h}
  BY <1>1, Owned DEF HandlesOwned
<1> HIDE DEF h
<1>7. Shapes'
  BY <1>1, <1>2, <1>3 DEF Shapes
<1>8. ItemsApart'
  BY <1>1, <1>4, <1>5 DEF ItemsApart
<1>9. HandlesOwned'
  <2>1. \A t \in Thread \ {th} : Opened(t) => call[t].h # h
    BY <1>1 DEF HandlesOwned, h
  <2> QED BY <1>1, <1>2, <1>3, <1>4, <1>5, <1>6, <2>1 DEF HandlesOwned
<1>10. Tokens'
  <2>1. ASSUME NEW a, OneToken(a) PROVE OneToken(a)'
    BY <1>1, <1>3, <1>4, <2>1 DEF OneToken
  <2> QED BY <1>1, <2>1 DEF Tokens
<1>11. ReadsOwn'
  BY <1>1, <1>3 DEF ReadsOwn
<1>12. Heard'
  <2>1. \A x \in DOMAIN m_watches : heap[m_watches[x]].hDir \in Handle \ {h}
    BY <1>6 DEF Owner, Range
  <2> QED BY <1>1, <1>3, <1>4, <2>1 DEF Heard
<1>13. Closed'
  <2> SUFFICES ASSUME NEW g \in Handle \ {h}
               PROVE  \/ \E a \in Owner' : heap'[a].hDir = g
                      \/ \E t \in Thread : Opened(t)' /\ call'[t].h = g
                      \/ handle'[g].key \in misused' \ {NoKey}
    BY <1>3 DEF Closed
  <2>1. CASE \E t \in Thread : Opened(t) /\ call[t].h = g
    BY <1>2, <1>4, <2>1 DEF h
  <2> QED BY <1>1, <1>3, <1>5, <2>1 DEF Closed
<1> QED BY <1>7, <1>8, <1>9, <1>10, <1>11, <1>12, <1>13

\* The loop, a packet or a read is of an item only if the item is still used.
LEMMA NotUsed ==
  ASSUME IInv, NEW a, ~StillUsed(a)
  PROVE  /\ lp.item # a /\ ~In(Keys, a)
         /\ \A h \in Handle : ~In(handle[h].reads, a) /\ handle[h].key # a
BY DEF StillUsed, In, Keys, KeysOf, Range

LEMMA ItemInserted == ASSUME IInv, NEW th \in Thread, InsertItem(th) PROVE IInv'
<1> USE DEF IInv
<1> DEFINE r == call[th].root
           h == call[th].h
<1>1. /\ UNCHANGED <<iocp, lp>> /\ Opened(th) /\ h \in Handle /\ handle[h].key = NoKey
      /\ handle[h].reads \in Seq(Address)
  BY DEF InsertItem, HandlesOwned, Opened, Shapes
<1>2. PICK a \in Address \ Live :
         /\ heap' = With(heap, a, [path |-> r, hDir |-> h, buffer |-> << >>])
         /\ handle' = IssueRead(a, h, [handle EXCEPT ![h].key = a])
         /\ m_watches' = With(m_watches, r, a)
         /\ deaf' = deaf \ {a}
         /\ misused' = {IF b = a THEN NoKey ELSE b : b \in misused}
                         \cup {b \in {a} : StillUsed(a) \/ handle[h].reads # << >>}
                         \cup {m_watches[p] : p \in {r} \cap DOMAIN m_watches}
  BY Zenon DEF InsertItem
<1>3. /\ call' = [t \in Thread |-> call'[t]] /\ call'[th] = Idle
      /\ \A t \in Thread \ {th} : call'[t] = call[t]
  BY Became DEF InsertItem
<1>4. /\ Keys' = Keys
      /\ \A t \in Thread : (Holding(t)' <=> Holding(t)) /\ (Closing(t)' <=> Closing(t))
                           /\ (Holding(t) => call'[t] = call[t]) /\ (Closing(t) => call'[t] = call[t])
      /\ ~Opened(th)' /\ \A t \in Thread \ {th} : Opened(t)' <=> Opened(t)
  BY <1>1, <1>3 DEF Keys, KeysOf, Holding, Closing, Opened, Idle
<1>5. /\ Handle' = Handle /\ \A g \in Handle \ {h} : handle'[g] = handle[g]
      /\ handle'[h] = [f \in HandleField |-> handle'[h][f]]
      /\ handle'[h].key = a /\ handle'[h].reads = Append(handle[h].reads, a)
  <2> DEFINE m == [handle EXCEPT ![h].key = a]
  <2>1. /\ DOMAIN m = Handle /\ m[h] = [handle[h] EXCEPT !.key = a]
        /\ \A g \in Handle \ {h} : m[g] = handle[g]
    BY <1>1, Zenon DEF Handle
  <2>2. handle' = IssueRead(a, h, m)
    BY <1>2
  <2> HIDE DEF m
  <2>3. handle[h] = [f \in HandleField |-> handle[h][f]]
    BY <1>1 DEF Shapes
  <2> HIDE DEF h
  <2>4. m[h] = [f \in HandleField |-> m[h][f]] /\ m[h].key = a /\ m[h].reads = handle[h].reads
    BY <2>1, <2>3 DEF HandleField
  <2> DEFINE q == Append(m[h].reads, a)
  <2>5. handle' = [m EXCEPT ![h].reads = q]
    BY <2>2, Zenon DEF IssueRead
  <2> HIDE DEF q
  <2>6. /\ DOMAIN handle' = Handle /\ handle'[h] = [m[h] EXCEPT !.reads = q]
        /\ \A g \in Handle \ {h} : handle'[g] = m[g]
    BY <1>1, <2>1, <2>5, Zenon
  <2>7. handle'[h] = [f \in HandleField |-> handle'[h][f]] /\ handle'[h].key = a /\ handle'[h].reads = q
    BY <2>4, <2>6 DEF HandleField
  <2> QED BY <2>1, <2>4, <2>6, <2>7, Zenon DEF q, Handle
<1>6. /\ DOMAIN heap' = DOMAIN heap \cup {a}
      /\ \A b \in DOMAIN heap \ {a} : heap'[b] = heap[b]
      /\ heap'[a] = [f \in ItemField |-> heap'[a][f]] /\ heap'[a].hDir = h
  BY <1>2 DEF With, ItemField
<1>7. /\ DOMAIN m_watches' = DOMAIN m_watches \cup {r} /\ m_watches'[r] = a
      /\ \A x \in DOMAIN m_watches \ {r} : m_watches'[x] = m_watches[x]
  BY <1>2 DEF With
<1>8. /\ a \in Address /\ a \notin Live /\ a # NoKey
      /\ \A b \in misused : (b = a /\ ~StillUsed(a)) \/ b \in misused'
      /\ a \notin misused' => ~StillUsed(a) /\ handle[h].reads = << >>
      /\ \A b : b \notin misused' => b = a \/ b \notin misused
      /\ r \in DOMAIN m_watches => m_watches[r] \in misused'
      /\ \A b \in deaf : b = a \/ b \in deaf'
  BY <1>2 DEF Address, NoKey
<1> HIDE DEF h, r
<1>9. /\ \A b \in Owner' : b = a \/ (b \in Owner /\ b # a)
      /\ a \in Owner'
      /\ \A b \in Owner : b \in Owner' \/ (r \in DOMAIN m_watches /\ b = m_watches[r])
      /\ Live' \subseteq Live \cup {a}
  <2>1. /\ Range(m_watches') \subseteq Range(m_watches) \cup {a} /\ a \in Range(m_watches')
        /\ \A b \in Range(m_watches) : b \in Range(m_watches') \/ (r \in DOMAIN m_watches /\ b = m_watches[r])
    BY <1>7 DEF Range
  <2>2. /\ {call'[t].item : t \in {t \in Thread : Closing(t)'}} = {call[t].item : t \in {t \in Thread : Closing(t)}}
        /\ {call'[t].item : t \in {t \in Thread : Holding(t)'}} = {call[t].item : t \in {t \in Thread : Holding(t)}}
    BY <1>4
  <2>3. /\ Owner = Range(m_watches) \cup {call[t].item : t \in {t \in Thread : Closing(t)}}
        /\ Owner' = Range(m_watches') \cup {call'[t].item : t \in {t \in Thread : Closing(t)'}}
        /\ Live = Range(m_watches) \cup {call[t].item : t \in {t \in Thread : Holding(t)}}
        /\ Live' = Range(m_watches') \cup {call'[t].item : t \in {t \in Thread : Holding(t)'}}
    BY DEF Owner, Live, Holding
  <2>4. Owner \subseteq Live
    BY Owned
  <2> QED BY <1>8, <2>1, <2>2, <2>3, <2>4
<1>10. \A b \in Owner : b \in DOMAIN heap \ {a} /\ heap[b].hDir \in Handle \ {h} /\ b # NoKey
  BY <1>1, <1>8, Owned DEF HandlesOwned
<1>11. Shapes'
  <2>1. handle'[h].reads \in Seq(Address)
    <3>1. handle[h].reads \in Seq(Address) /\ a \in Address
      BY <1>1, <1>8
    <3>2. Append(handle[h].reads, a) \in Seq(Address)
      BY <3>1, AppendProperties
    <3> QED BY <1>5, <3>2
  <2>2. \A g \in Handle : /\ handle'[g] = [f \in HandleField |-> handle'[g][f]]
                          /\ handle'[g].reads \in Seq(Address)
                          /\ handle'[g].key \in Address \cup {NoKey}
    <3> SUFFICES ASSUME NEW g \in Handle
                 PROVE  /\ handle'[g] = [f \in HandleField |-> handle'[g][f]]
                        /\ handle'[g].reads \in Seq(Address)
                        /\ handle'[g].key \in Address \cup {NoKey}
      OBVIOUS
    <3>1. CASE g = h
      BY <1>5, <1>8, <2>1, <3>1
    <3>2. CASE g # h
      BY <1>5, <3>2 DEF Shapes
    <3> QED BY <3>1, <3>2
  <2>3. DOMAIN heap' \subseteq Address /\ \A b \in DOMAIN heap' : heap'[b] = [f \in ItemField |-> heap'[b][f]]
    BY <1>6, <1>8 DEF Shapes
  <2>4. /\ Handle \subseteq 1 .. MaxHandle /\ iocp \in Seq(Packets)
        /\ \A k \in DOMAIN iocp : iocp[k].key = NoKey => iocp[k] = Wakeup
        /\ lp = [f \in LoopField |-> lp[f]]
        /\ lp.item \in IF lp.at \in {"process", "callback", "reissue"} THEN Address ELSE {NoKey}
    BY DEF Shapes
  <2> QED BY <1>1, <1>3, <1>5, <2>2, <2>3, <2>4 DEF Shapes
<1>12. ItemsApart'
  <2>1. Live' \subseteq DOMAIN heap'
    BY <1>6, <1>9 DEF ItemsApart
  <2>2. \A x \in DOMAIN m_watches : m_watches[x] \in Live /\ m_watches[x] # a
    BY <1>8 DEF Live, Range
  <2>3. ASSUME NEW x \in DOMAIN m_watches', NEW y \in DOMAIN m_watches', m_watches'[x] = m_watches'[y]
        PROVE  x = y
    BY <1>7, <2>2, <2>3 DEF ItemsApart
  <2>4. ASSUME NEW t \in Thread, Holding(t) PROVE call[t].item \notin Range(m_watches') /\ call[t].item # a
    <3>1. call[t].item # a
      BY <1>8, <2>4 DEF Live, Holding
    <3>2. \A x \in DOMAIN m_watches : m_watches[x] # call[t].item
      BY <2>4 DEF ItemsApart, Range
    <3>3. \A x \in DOMAIN m_watches' : m_watches'[x] # call[t].item
      BY <1>7, <3>1, <3>2
    <3> QED BY <3>1, <3>3 DEF Range
  <2> QED BY <1>4, <2>1, <2>3, <2>4 DEF ItemsApart
<1>13. HandlesOwned'
  <2>1. \A b \in Owner' : heap'[b].hDir \in Handle /\ handle'[heap'[b].hDir].key = b
    BY <1>1, <1>5, <1>6, <1>9, <1>10 DEF HandlesOwned
  <2>2. \A t \in Thread \ {th} : Opened(t) => call[t].h # h
    BY <1>1 DEF HandlesOwned, h
  <2> QED BY <1>3, <1>4, <1>5, <2>1, <2>2 DEF HandlesOwned
<1>14. ASSUME NEW b
       PROVE  /\ In(handle'[h].reads, b) => b = a \/ In(handle[h].reads, b)
              /\ Once(handle[h].reads, b) /\ (b = a => ~In(handle[h].reads, b)) => Once(handle'[h].reads, b)
  <2>1. handle[h].reads \in Seq(Address) /\ a \in Address
    BY <1>1, <1>8
  <2> DEFINE q == handle[h].reads
  <2> HIDE DEF q
  <2>2. /\ In(Append(q, a), b) <=> In(q, b) \/ a = b
        /\ Once(q, b) /\ (a = b => ~In(q, b)) => Once(Append(q, a), b)
    BY <2>1, InAppended DEF q
  <2> QED BY <1>5, <2>2 DEF q
<1>15. Tokens'
  <2> SUFFICES ASSUME NEW b \in Address \ misused' PROVE OneToken(b)'
    BY DEF Tokens, Address
  <2>1. CASE b = a
    <3>1. /\ lp.item # a /\ ~In(Keys, a) /\ \A g \in Handle : ~In(handle[g].reads, a)
          /\ handle[h].reads = << >>
      BY <1>8, <2>1, NotUsed
    <3>2. Once(Keys, a) /\ \A g \in Handle : Once(handle[g].reads, a)
      BY <3>1 DEF Once, In
    <3>3. /\ Once(handle'[h].reads, a)
          /\ \A g \in Handle \ {h} : ~In(handle'[g].reads, a) /\ Once(handle'[g].reads, a)
      BY <1>1, <1>5, <1>14, <3>1, <3>2
    <3> QED BY <1>1, <1>4, <1>5, <2>1, <3>1, <3>2, <3>3 DEF OneToken
  <2>2. CASE b # a
    <3>1. OneToken(b)
      BY <1>8, <2>2 DEF Tokens
    <3>2. \A g \in Handle : /\ In(handle'[g].reads, b) => In(handle[g].reads, b)
                            /\ Once(handle'[g].reads, b)
      BY <1>1, <1>5, <1>14, <2>2, <3>1 DEF OneToken
    <3> QED BY <1>1, <1>4, <1>5, <3>1, <3>2 DEF OneToken
  <2> QED BY <2>1, <2>2
<1>16. ASSUME NEW g \in Handle \ {h}, handle[g].key \notin misused' PROVE handle[g].key \notin misused
  BY <1>8, <1>16, NotUsed
<1>17. ReadsOwn'
  <2> SUFFICES ASSUME NEW g \in Handle, handle'[g].key \notin misused' \cup {NoKey},
                      NEW k \in DOMAIN handle'[g].reads
               PROVE  handle'[g].reads[k] = handle'[g].key
    BY <1>5 DEF ReadsOwn
  <2>1. CASE g = h
    <3>1. handle'[h].reads = Append(<< >>, a) /\ << >> \in Seq(Address)
      BY <1>1, <1>5, <1>8, <2>1
    <3>2. DOMAIN Append(<< >>, a) = 1 .. 1 /\ Append(<< >>, a)[1] = a
      BY <1>8, <3>1
    <3> QED BY <1>5, <2>1, <3>1, <3>2
  <2>2. CASE g # h
    BY <1>5, <1>16, <2>2 DEF ReadsOwn
  <2> QED BY <2>1, <2>2
<1>18. Heard'
  <2> SUFFICES ASSUME NEW x \in DOMAIN m_watches'
               PROVE  LET b == m_watches'[x]
                          g == heap'[b].hDir IN
                      \/ handle'[g].dead \/ b \in deaf' \/ handle'[g].reads # << >> \/ lp.item = b
                      \/ In(Keys, b)
    BY <1>1, <1>4 DEF Heard
  <2>1. CASE x = r
    <3>1. handle'[h].reads # << >>
      BY <1>1, <1>5, <1>8, AppendProperties, EmptySeq
    <3> QED BY <1>6, <1>7, <2>1, <3>1
  <2>2. CASE x # r
    <3>1. x \in DOMAIN m_watches /\ m_watches'[x] = m_watches[x] /\ m_watches[x] \in Owner
      BY <1>7, <2>2 DEF Owner, Range
    <3>2. LET b == m_watches[x] IN b # a /\ heap'[b] = heap[b] /\ heap[b].hDir \in Handle \ {h}
      BY <1>6, <1>10, <3>1
    <3>3. handle'[heap[m_watches[x]].hDir] = handle[heap[m_watches[x]].hDir]
      BY <1>5, <3>2
    <3> QED BY <1>8, <3>1, <3>2, <3>3 DEF Heard
  <2> QED BY <2>1, <2>2
<1>19. Closed'
  <2> SUFFICES ASSUME NEW g \in Handle
               PROVE  \/ \E b \in Owner' : heap'[b].hDir = g
                      \/ \E t \in Thread : Opened(t)' /\ call'[t].h = g
                      \/ handle'[g].key \in misused' \ {NoKey}
    BY <1>5 DEF Closed
  <2>1. CASE g = h
    BY <1>6, <1>9, <2>1
  <2>2. CASE g # h /\ \E t \in Thread : Opened(t) /\ call[t].h = g
    BY <1>3, <1>4, <2>2 DEF h
  <2>3. CASE g # h /\ \E b \in Owner : heap[b].hDir = g
    <3>1. PICK b \in Owner : heap[b].hDir = g
      BY <2>3
    <3>2. CASE b \in Owner'
      BY <1>6, <1>10, <3>1, <3>2
    <3>3. CASE b \notin Owner'
      <4>1. handle[g].key = b /\ b \in misused'
        BY <1>8, <1>9, <3>1, <3>3 DEF HandlesOwned
      <4>2. b \in Address
        <5>1. Owner \subseteq Live
          BY DEF Owner, Live, Closing
        <5> QED BY <3>1, <5>1 DEF ItemsApart, Shapes
      <4> QED BY <1>5, <2>3, <4>1, <4>2 DEF Address, NoKey
    <3> QED BY <3>2, <3>3
  <2>4. CASE g # h /\ handle[g].key \in misused \ {NoKey}
    BY <1>5, <1>16, <2>4
  <2> QED BY <2>1, <2>2, <2>3, <2>4 DEF Closed
<1> QED BY <1>11, <1>12, <1>13, <1>15, <1>17, <1>18, <1>19

LEMMA ItemErased == ASSUME IInv, NEW th \in Thread, EraseItem(th) PROVE IInv'
<1> USE DEF IInv
<1> DEFINE r == call[th].root
           c == IF r \in DOMAIN m_watches THEN [at |-> "cancel", item |-> m_watches[r]] ELSE Idle
<1>1. /\ UNCHANGED <<handle, iocp, heap, lp, deaf, misused>>
      /\ call[th].at = "remove" /\ m_watches' = Without(m_watches, {r}) /\ Becomes(th, c)
  BY DEF EraseItem, userVars, ioVars
<1>2. /\ call' = [t \in Thread |-> call'[t]] /\ call'[th] = c
      /\ \A t \in Thread \ {th} : call'[t] = call[t]
  BY <1>1, Became
<1>3. /\ DOMAIN m_watches' = DOMAIN m_watches \ {r}
      /\ \A x \in DOMAIN m_watches \ {r} : m_watches'[x] = m_watches[x]
  BY <1>1 DEF Without, Restrict
<1>4. /\ Keys' = Keys /\ Handle' = Handle
      /\ ~Holding(th) /\ ~Closing(th) /\ ~Opened(th) /\ ~Opened(th)'
      /\ Holding(th)' <=> r \in DOMAIN m_watches
      /\ Closing(th)' <=> r \in DOMAIN m_watches
      /\ r \in DOMAIN m_watches => call'[th] = [at |-> "cancel", item |-> m_watches[r]]
      /\ \A t \in Thread \ {th} : /\ Holding(t)' <=> Holding(t)
                                  /\ (Closing(t)' <=> Closing(t)) /\ (Opened(t)' <=> Opened(t))
  <2>1. Keys' = Keys /\ Handle' = Handle
    BY <1>1 DEF Keys, KeysOf, Handle
  <2>2. /\ ~Holding(th) /\ ~Closing(th) /\ ~Opened(th)
        /\ \A t \in Thread \ {th} : /\ Holding(t)' <=> Holding(t)
                                    /\ (Closing(t)' <=> Closing(t)) /\ (Opened(t)' <=> Opened(t))
    BY <1>1, <1>2 DEF Holding, Closing, Opened
  <2>3. CASE r \in DOMAIN m_watches
    BY <1>2, <2>1, <2>2, <2>3 DEF Holding, Closing, Opened
  <2>4. CASE r \notin DOMAIN m_watches
    BY <1>2, <2>1, <2>2, <2>4 DEF Holding, Closing, Opened, Idle
  <2> QED BY <2>3, <2>4
<1> HIDE DEF r, c
<1>5. Owner' = Owner /\ Live' = Live
  <2>1. ASSUME NEW H \in SUBSET Thread, NEW G \in SUBSET Thread, th \notin H, th \in G <=> r \in DOMAIN m_watches,
               \A t \in Thread \ {th} : t \in G <=> t \in H
        PROVE  Range(m_watches') \cup {call'[t].item : t \in G} = Range(m_watches) \cup {call[t].item : t \in H}
    <3>1. ASSUME NEW a \in Range(m_watches')
          PROVE  a \in Range(m_watches)
      BY <1>3 DEF Range
    <3>2. ASSUME NEW a \in Range(m_watches), a \notin Range(m_watches')
          PROVE  th \in G /\ call'[th].item = a
      <4>1. PICK x \in DOMAIN m_watches : m_watches[x] = a
        BY DEF Range
      <4>2. x = r
        BY <1>3, <3>2, <4>1 DEF Range
      <4> QED BY <1>4, <2>1, <4>1, <4>2
    <3>3. ASSUME NEW t \in G
          PROVE  call'[t].item \in Range(m_watches) \/ (t \in H /\ call'[t].item = call[t].item)
      BY <1>2, <1>4, <2>1 DEF Range
    <3>4. ASSUME NEW t \in H PROVE t \in G /\ call'[t].item = call[t].item
      BY <1>2, <2>1
    <3> QED BY <3>1, <3>2, <3>3, <3>4
  <2>2. Owner' = Owner
    <3> DEFINE H == {t \in Thread : Closing(t)}
               G == {t \in Thread : Closing(t)'}
    <3>1. H \in SUBSET Thread /\ G \in SUBSET Thread /\ th \notin H /\ (th \in G <=> r \in DOMAIN m_watches)
          /\ \A t \in Thread \ {th} : t \in G <=> t \in H
      BY <1>4
    <3>2. Owner = Range(m_watches) \cup {call[t].item : t \in H}
          /\ Owner' = Range(m_watches') \cup {call'[t].item : t \in G}
      BY DEF Owner
    <3> HIDE DEF H, G
    <3> QED BY <2>1, <3>1, <3>2
  <2>3. Live' = Live
    <3> DEFINE H == {t \in Thread : Holding(t)}
               G == {t \in Thread : Holding(t)'}
    <3>1. H \in SUBSET Thread /\ G \in SUBSET Thread /\ th \notin H /\ (th \in G <=> r \in DOMAIN m_watches)
          /\ \A t \in Thread \ {th} : t \in G <=> t \in H
      BY <1>4
    <3>2. Live = Range(m_watches) \cup {call[t].item : t \in H}
          /\ Live' = Range(m_watches') \cup {call'[t].item : t \in G}
      BY DEF Live, Holding
    <3> HIDE DEF H, G
    <3> QED BY <2>1, <3>1, <3>2
  <2> QED BY <2>2, <2>3
<1>6. Shapes'
  BY <1>1, <1>2, <1>4 DEF Shapes
<1>7. ItemsApart'
  <2>1. ASSUME NEW x \in DOMAIN m_watches', NEW y \in DOMAIN m_watches', m_watches'[x] = m_watches'[y]
        PROVE  x = y
    BY <1>3, <2>1 DEF ItemsApart
  <2>2. ASSUME NEW t \in Thread, Holding(t)'
        PROVE  /\ call'[t] = [at |-> call'[t].at, item |-> call'[t].item]
               /\ call'[t].item \notin Range(m_watches')
    <3>1. CASE t = th
      <4>1. /\ r \in DOMAIN m_watches /\ call'[t] = [at |-> "cancel", item |-> m_watches[r]]
        BY <1>4, <2>2, <3>1
      <4>2. \A x \in DOMAIN m_watches' : m_watches'[x] # m_watches[r]
        BY <1>3, <4>1 DEF ItemsApart
      <4> QED BY <4>1, <4>2 DEF Range
    <3>2. CASE t # th
      <4>1. Holding(t) /\ call'[t] = call[t]
        BY <1>2, <1>4, <2>2, <3>2
      <4> QED BY <1>3, <4>1 DEF ItemsApart, Range
    <3> QED BY <3>1, <3>2
  <2>3. ASSUME NEW t \in Thread, NEW u \in Thread, Holding(t)', Holding(u)', call'[t].item = call'[u].item
        PROVE  t = u
    <3>1. \A v \in Thread \ {th} : Holding(v) => call[v].item \notin Range(m_watches)
      BY DEF ItemsApart
    <3>2. Holding(th)' => call'[th].item \in Range(m_watches)
      BY <1>4 DEF Range
    <3>3. CASE t # th /\ u # th
      BY <1>2, <1>4, <2>3, <3>3 DEF ItemsApart
    <3>4. CASE t = th /\ u # th
      <4>1. Holding(u) /\ call'[u] = call[u]
        BY <1>2, <1>4, <2>3, <3>4
      <4> QED BY <2>3, <3>1, <3>2, <3>4, <4>1
    <3>5. CASE t # th /\ u = th
      <4>1. Holding(t) /\ call'[t] = call[t]
        BY <1>2, <1>4, <2>3, <3>5
      <4> QED BY <2>3, <3>1, <3>2, <3>5, <4>1
    <3> QED BY <3>3, <3>4, <3>5
  <2> QED BY <1>1, <1>5, <2>1, <2>2, <2>3 DEF ItemsApart
<1>8. HandlesOwned'
  BY <1>1, <1>2, <1>4, <1>5 DEF HandlesOwned
<1>9. Tokens' /\ ReadsOwn'
  BY <1>1, <1>4 DEF Tokens, OneToken, ReadsOwn
<1>10. Heard'
  BY <1>1, <1>3, <1>4 DEF Heard
<1>11. Closed'
  <2>1. \A t \in Thread : Opened(t) => Opened(t)' /\ call'[t].h = call[t].h
    BY <1>2, <1>4
  <2> QED BY <1>1, <1>4, <1>5, <2>1 DEF Closed
<1> QED BY <1>6, <1>7, <1>8, <1>9, <1>10, <1>11

\* A call that goes on with its item, or forgets it: whose item it is does not change
\* for the other calls.
LEMMA CallHolds ==
  ASSUME IInv, NEW th \in Thread, Holding(th), UNCHANGED m_watches, call' = [t \in Thread |-> call'[t]],
         Closing(th)' => Closing(th), Holding(th)' => call'[th].item = call[th].item,
         ~Opened(th)', \A t \in Thread \ {th} : call'[t] = call[t]
  PROVE  LET a == call[th].item IN
         /\ \A t \in Thread \ {th} : /\ Holding(t)' <=> Holding(t)
                                     /\ (Closing(t)' <=> Closing(t)) /\ (Opened(t)' <=> Opened(t))
         /\ \A t \in Thread : Opened(t) => Opened(t)' /\ call'[t].h = call[t].h
         /\ \A t \in Thread : Opened(t)' => Opened(t) /\ call'[t].h = call[t].h
         /\ Owner' = IF Closing(th)' THEN Owner ELSE Owner \ {a}
         /\ Live' \subseteq Live
         /\ a \notin Range(m_watches)
<1> USE DEF IInv
<1> DEFINE a == call[th].item
<1>1. /\ \A t \in Thread \ {th} : /\ Holding(t)' <=> Holding(t)
                                  /\ (Closing(t)' <=> Closing(t)) /\ (Opened(t)' <=> Opened(t))
      /\ ~Opened(th)
  BY DEF Holding, Closing, Opened
<1>2. /\ a \notin Range(m_watches) /\ \A t \in Thread : Holding(t) /\ call[t].item = a => t = th
      /\ \A t \in Thread : (Closing(t) => Holding(t)) /\ (Closing(t)' => Holding(t)')
  BY DEF ItemsApart, Closing, Holding
<1>3. \A t \in Thread : Holding(t)' => Holding(t) /\ call'[t].item = call[t].item
  BY <1>1
<1>4. Live' \subseteq Live
  BY <1>3 DEF Live, Holding
<1>5. Owner' = IF Closing(th)' THEN Owner ELSE Owner \ {a}
  <2>1. CASE Closing(th)'
    <3>1. \A t \in Thread : (Closing(t)' <=> Closing(t)) /\ (Closing(t) => call'[t].item = call[t].item)
      BY <1>1, <1>2, <1>3, <2>1
    <3> QED BY <2>1, <3>1 DEF Owner
  <2>2. CASE ~Closing(th)'
    <3>1. \A t \in Thread : Closing(t)' => Closing(t) /\ call'[t].item = call[t].item /\ call[t].item # a
      BY <1>1, <1>2, <1>3, <2>2
    <3>2. \A t \in Thread : Closing(t) => t = th \/ (Closing(t)' /\ call'[t].item = call[t].item)
      BY <1>1
    <3> QED BY <1>2, <2>2, <3>1, <3>2 DEF Owner
  <2> QED BY <2>1, <2>2
<1> QED BY <1>1, <1>2, <1>4, <1>5

\* Packets of the same kind are put into the port.
LEMMA PortGets ==
  ASSUME Shapes, NEW p \in Packets, p.key # NoKey, NEW n \in Nat,
         iocp' = iocp \o [k \in 1 .. n |-> p]
  PROVE  /\ iocp' \in Seq(Packets) /\ \A k \in DOMAIN iocp' : iocp'[k].key = NoKey => iocp'[k] = Wakeup
         /\ \A a : In(Keys', a) <=> In(Keys, a) \/ (n > 0 /\ p.key = a)
         /\ \A a : Once(Keys, a) /\ (p.key = a => n = 0 \/ (n = 1 /\ ~In(Keys, a))) => Once(Keys', a)
<1> DEFINE A == Address \cup {NoKey}
           c == [k \in 1 .. n |-> p]
           d == [k \in 1 .. n |-> p.key]
<1>1. iocp \in Seq(Packets) /\ p.key \in A
  BY DEF Shapes, Packets
<1>2. c \in Seq(Packets) /\ Len(c) = n /\ d \in Seq(A) /\ Len(d) = n
      /\ \A k \in 1 .. n : c[k] = p /\ d[k] = p.key
  <2> HIDE DEF A
  <2>1. c \in [1 .. n -> Packets] /\ d \in [1 .. n -> A]
    BY <1>1
  <2> QED BY <2>1, SeqDef, LenProperties
<1> HIDE DEF c, d, A
<1>3. /\ iocp' \in Seq(Packets) /\ Len(iocp') = Len(iocp) + n /\ Len(iocp) \in Nat
      /\ \A k \in 1 .. Len(iocp) + n : iocp'[k] = IF k <= Len(iocp) THEN iocp[k] ELSE c[k - Len(iocp)]
  BY <1>1, <1>2, ConcatProperties, LenProperties DEF c
<1>4. \A k \in 1 .. Len(iocp) + n : iocp'[k] = IF k <= Len(iocp) THEN iocp[k] ELSE p
  <2>1. \A k \in 1 .. Len(iocp) + n : ~(k <= Len(iocp)) => k - Len(iocp) \in 1 .. n
    BY <1>3
  <2> QED BY <1>2, <1>3, <2>1
<1>5. \A k \in DOMAIN iocp' : iocp'[k].key = NoKey => iocp'[k] = Wakeup
  <2>1. DOMAIN iocp' = 1 .. Len(iocp) + n /\ DOMAIN iocp = 1 .. Len(iocp)
    BY <1>1, <1>3, LenProperties
  <2> QED BY <1>3, <1>4, <2>1 DEF Shapes
<1>6. Keys' = Keys \o d
  <2>1. /\ Keys \in Seq(A) /\ Len(Keys) = Len(iocp) /\ Keys' \in Seq(A) /\ Len(Keys') = Len(iocp) + n
    BY <1>1, <1>3, KeysOfPort DEF Keys, A
  <2>2. /\ Keys \o d \in Seq(A) /\ Len(Keys \o d) = Len(iocp) + n
        /\ \A k \in 1 .. Len(iocp) + n : (Keys \o d)[k] = IF k <= Len(iocp) THEN Keys[k] ELSE d[k - Len(iocp)]
    BY <1>2, <1>3, <2>1, ConcatProperties
  <2>3. /\ DOMAIN iocp' = 1 .. Len(iocp) + n /\ DOMAIN iocp = 1 .. Len(iocp)
    BY <1>1, <1>3, LenProperties
  <2>4. /\ \A k \in 1 .. Len(iocp) + n : Keys'[k] = iocp'[k].key
        /\ \A k \in 1 .. Len(iocp) : Keys[k] = iocp[k].key
    BY <2>3 DEF Keys, KeysOf
  <2>5. ASSUME NEW k \in 1 .. Len(iocp) + n PROVE Keys'[k] = (Keys \o d)[k]
    <3>1. CASE k <= Len(iocp)
      BY <1>3, <1>4, <2>2, <2>4, <3>1
    <3>2. CASE ~(k <= Len(iocp))
      <4>1. k - Len(iocp) \in 1 .. n
        BY <1>3, <3>2
      <4> QED BY <1>2, <1>4, <2>2, <2>4, <3>2, <4>1
    <3> QED BY <3>1, <3>2
  <2> QED BY <2>1, <2>2, <2>5, SeqEqual
<1>7. Keys \in Seq(A)
  BY <1>1, KeysOfPort DEF Keys, A
<1>8. \A a : /\ In(Keys', a) <=> In(Keys, a) \/ (n > 0 /\ p.key = a)
             /\ Once(Keys, a) /\ (p.key = a => n = 0 \/ (n = 1 /\ ~In(Keys, a))) => Once(Keys', a)
  <2> DEFINE e == p.key
  <2>1. e \in A
    BY <1>1
  <2> HIDE DEF e
  <2>2. \A a : LET t == Keys \o [k \in 1 .. n |-> e] IN
               /\ In(t, a) <=> In(Keys, a) \/ (n > 0 /\ e = a)
               /\ Once(Keys, a) /\ (e = a => n = 0 \/ (n = 1 /\ ~In(Keys, a))) => Once(t, a)
    BY <1>7, <2>1, InRepeated
  <2> QED BY <1>6, <2>2 DEF e, d
<1> QED BY <1>3, <1>5, <1>8

\* The reads issued with an item are one at most, unless it is misused.
LEMMA ReadsOfOne ==
  ASSUME NEW q \in Seq(Address), NEW a
  PROVE  LET ours == {k \in DOMAIN q : q[k] = a} IN
         /\ Cardinality(ours) \in Nat /\ Cardinality(DOMAIN q \ ours) \in Nat
         /\ Cardinality(ours) > 0 <=> In(q, a)
         /\ Once(q, a) => Cardinality(ours) \in {0, 1}
<1> DEFINE ours == {k \in DOMAIN q : q[k] = a}
<1>1. DOMAIN q = 1 .. Len(q) /\ Len(q) \in Nat
  BY LenProperties
<1>2. IsFiniteSet(DOMAIN q)
  BY <1>1, FS_Interval
<1>3. IsFiniteSet(ours) /\ IsFiniteSet(DOMAIN q \ ours)
  BY <1>2, FS_Subset
<1>4. Cardinality(ours) \in Nat /\ Cardinality(DOMAIN q \ ours) \in Nat
  BY <1>3, FS_CardinalityType
<1>5. Cardinality(ours) = 0 <=> ours = {}
  BY <1>3, FS_EmptySet
<1>6. ours # {} <=> In(q, a)
  BY DEF In
<1>7. ASSUME Once(q, a), ours # {} PROVE Cardinality(ours) = 1
  <2>1. \E k : ours = {k}
    BY <1>7 DEF Once
  <2> QED BY <2>1, FS_Singleton
<1> QED BY <1>4, <1>5, <1>6, <1>7

LEMMA ReadCancelled == ASSUME IInv, NEW th \in Thread, CancelRead(th) PROVE IInv'
<1> USE DEF IInv
<1> DEFINE a == call[th].item
           h == heap[a].hDir
           q == handle[h].reads
           ours == {k \in DOMAIN q : q[k] = a}
           n == Cardinality(ours)
           p == Packet(a, FALSE, 0)
<1>1. /\ UNCHANGED <<heap, m_watches, lp, deaf, misused>>
      /\ Holding(th) /\ Closing(th) /\ a \in Owner
      /\ Becomes(th, [call[th] EXCEPT !.at = "close"])
  BY DEF CancelRead, userVars, Holding, Closing, Owner
<1>2. h \in Handle /\ handle[h].key = a /\ q \in Seq(Address) /\ a \in Address /\ a # NoKey
  BY <1>1, Owned DEF HandlesOwned, Shapes
<1>3. /\ call' = [t \in Thread |-> call'[t]] /\ \A t \in Thread \ {th} : call'[t] = call[t]
      /\ call'[th] = [at |-> "close", item |-> a]
  <2>1. call[th] = [at |-> call[th].at, item |-> a]
    BY <1>1 DEF ItemsApart
  <2>2. [call[th] EXCEPT !.at = "close"] = [at |-> "close", item |-> a]
    <3> HIDE DEF a
    <3> QED BY <2>1
  <2> QED BY <1>1, <2>2, Became
<1>4. /\ n \in Nat /\ Cardinality(DOMAIN q \ ours) \in Nat
      /\ n > 0 <=> In(q, a)
      /\ Once(q, a) => n \in {0, 1}
  <2> HIDE DEF q, a
  <2> QED BY <1>2, ReadsOfOne
<1>5. iocp' = iocp \o [k \in 1 .. n |-> p] /\ p \in Packets /\ p.key = a
  <2>1. iocp' = iocp \o [k \in 1 .. n |-> Packet(handle[h].key, FALSE, 0)]
    BY Zenon DEF CancelRead, CancelIoEx, Aborted
  <2> HIDE DEF n, a, h
  <2> QED BY <1>2, <2>1 DEF Packet, Packets
<1>6. PICK at \in [1 .. Cardinality(DOMAIN q \ ours) -> DOMAIN q \ ours] :
         /\ \A j, k \in DOMAIN at : j < k => at[j] < at[k]
         /\ handle' = [handle EXCEPT ![h].reads = [k \in DOMAIN at |-> q[at[k]]]]
  BY Zenon DEF CancelRead, CancelIoEx
<1> DEFINE s == [k \in DOMAIN at |-> q[at[k]]]
<1>7. /\ s \in Seq(Address)
      /\ \A b : In(s, b) => In(q, b) /\ b # a
      /\ \A b : Once(q, b) => Once(s, b)
      /\ \A k \in DOMAIN s : \E j \in DOMAIN q : s[k] = q[j]
  <2> DEFINE m == Cardinality(DOMAIN q \ ours)
  <2>1. m \in Nat /\ at \in [1 .. m -> DOMAIN q \ ours] /\ DOMAIN at = 1 .. m /\ DOMAIN q \subseteq Nat
    <3>1. m \in Nat /\ at \in [1 .. m -> DOMAIN q \ ours]
      BY <1>4, <1>6, Zenon
    <3>2. q \in Seq(Address)
      BY <1>2, Zenon
    <3> HIDE DEF m, q, ours
    <3>3. DOMAIN q \subseteq Nat
      BY <3>2, LenProperties
    <3> QED BY <3>1, <3>3
  <2>2. \A k \in DOMAIN at : at[k] \in DOMAIN q /\ q[at[k]] # a /\ q[at[k]] \in Address
    <3> HIDE DEF m, q, a
    <3>1. \A k \in DOMAIN at : at[k] \in DOMAIN q \ ours
      BY <2>1
    <3>2. \A j \in DOMAIN q : q[j] \in Address
      BY <1>2, ElementOfSeq, LenProperties
    <3> QED BY <3>1, <3>2
  <2> HIDE DEF m, q, a
  <2>3. s \in [1 .. m -> Address]
    BY <2>1, <2>2
  <2>4. s \in Seq(Address)
    BY <2>1, <2>3, SeqDef
  <2>5. DOMAIN s = DOMAIN at /\ \A k \in DOMAIN at : s[k] = q[at[k]]
    OBVIOUS
  <2> HIDE DEF s
  <2>6. \A b : In(s, b) => In(q, b) /\ b # a
    BY <2>2, <2>5 DEF In
  <2>7. ASSUME NEW b, Once(q, b) PROVE Once(s, b)
    <3> SUFFICES ASSUME NEW j \in DOMAIN at, NEW k \in DOMAIN at, q[at[j]] = b, q[at[k]] = b PROVE j = k
      BY <2>5 DEF Once
    <3>1. at[j] = at[k] /\ at[j] \in Nat
      BY <2>1, <2>2, <2>7 DEF Once
    <3>2. j \in Nat /\ k \in Nat
      BY <2>1
    <3> QED BY <1>6, <3>1, <3>2
  <2> QED BY <2>2, <2>4, <2>5, <2>6, <2>7
<1> HIDE DEF s, n, p, q, ours
<1>8. /\ Handle' = Handle /\ \A g \in Handle \ {h} : handle'[g] = handle[g]
      /\ handle'[h] = [f \in HandleField |-> handle'[h][f]]
      /\ handle'[h].key = a /\ handle'[h].dead = handle[h].dead /\ handle'[h].reads = s
  <2>1. /\ DOMAIN handle' = Handle /\ handle'[h] = [handle[h] EXCEPT !.reads = s]
        /\ \A g \in Handle \ {h} : handle'[g] = handle[g]
    <3>1. handle' = [handle EXCEPT ![h].reads = s]
      BY <1>6, Zenon DEF s
    <3> HIDE DEF h
    <3> QED BY <1>2, <3>1, Zenon DEF Handle
  <2>2. handle[h] = [f \in HandleField |-> handle[h][f]]
    BY <1>2 DEF Shapes
  <2> HIDE DEF h
  <2>3. /\ handle'[h] = [f \in HandleField |-> handle'[h][f]] /\ handle'[h].key = handle[h].key
        /\ handle'[h].dead = handle[h].dead /\ handle'[h].reads = s
    BY <2>1, <2>2 DEF HandleField
  <2> QED BY <1>2, <2>1, <2>3, Zenon DEF Handle
<1>9. /\ iocp' \in Seq(Packets) /\ \A k \in DOMAIN iocp' : iocp'[k].key = NoKey => iocp'[k] = Wakeup
      /\ \A b : In(Keys', b) <=> In(Keys, b) \/ (n > 0 /\ a = b)
      /\ \A b : Once(Keys, b) /\ (a = b => n = 0 \/ (n = 1 /\ ~In(Keys, b))) => Once(Keys', b)
  BY <1>2, <1>4, <1>5, PortGets
<1>10. /\ Holding(th)' /\ Closing(th)' /\ ~Opened(th)' /\ call'[th].item = a
       /\ call'[th] = [at |-> call'[th].at, item |-> call'[th].item]
  BY <1>3 DEF Holding, Closing, Opened
<1>11. /\ \A t \in Thread \ {th} : /\ Holding(t)' <=> Holding(t)
                                   /\ (Closing(t)' <=> Closing(t)) /\ (Opened(t)' <=> Opened(t))
       /\ \A t \in Thread : Opened(t) => Opened(t)' /\ call'[t].h = call[t].h
       /\ \A t \in Thread : Opened(t)' => Opened(t) /\ call'[t].h = call[t].h
       /\ Owner' = Owner /\ Live' \subseteq Live
       /\ a \notin Range(m_watches)
  BY <1>1, <1>3, <1>10, CallHolds
<1>12. \A b \in Owner : b # a => heap[b].hDir \in Handle \ {h}
  BY <1>2 DEF HandlesOwned
<1> HIDE DEF h
<1>13. Shapes'
  <2>1. ASSUME NEW g \in Handle
        PROVE  /\ handle'[g] = [f \in HandleField |-> handle'[g][f]]
               /\ handle'[g].reads \in Seq(Address) /\ handle'[g].key \in Address \cup {NoKey}
    <3>1. CASE g = h
      BY <1>2, <1>7, <1>8, <3>1
    <3>2. CASE g # h
      BY <1>8, <3>2 DEF Shapes
    <3> QED BY <3>1, <3>2
  <2>2. /\ Handle \subseteq 1 .. MaxHandle /\ DOMAIN heap \subseteq Address
        /\ \A b \in DOMAIN heap : heap[b] = [f \in ItemField |-> heap[b][f]]
        /\ lp = [f \in LoopField |-> lp[f]]
        /\ lp.item \in IF lp.at \in {"process", "callback", "reissue"} THEN Address ELSE {NoKey}
    BY DEF Shapes
  <2> QED BY <1>1, <1>3, <1>8, <1>9, <2>1, <2>2 DEF Shapes
<1>14. ItemsApart'
  <2>1. \A t \in Thread : Holding(t)' => Holding(t) /\ call'[t].item = call[t].item
    BY <1>1, <1>3, <1>10, <1>11
  <2>2. \A t \in Thread : Holding(t)' => call'[t] = [at |-> call'[t].at, item |-> call'[t].item]
    BY <1>3, <1>10, <1>11 DEF ItemsApart
  <2> QED BY <1>1, <1>11, <2>1, <2>2 DEF ItemsApart
<1>15. HandlesOwned'
  <2>1. \A b \in Owner : heap[b].hDir \in Handle /\ handle'[heap[b].hDir].key = b
    <3> SUFFICES ASSUME NEW b \in Owner PROVE heap[b].hDir \in Handle /\ handle'[heap[b].hDir].key = b
      OBVIOUS
    <3>1. CASE b = a
      <4>1. heap[a].hDir = h /\ h \in Handle /\ handle'[h].key = a
        BY <1>2, <1>8, Zenon DEF h
      <4> QED BY <3>1, <4>1, Zenon
    <3>2. CASE b # a
      BY <1>8, <1>12, <3>2 DEF HandlesOwned
    <3> QED BY <3>1, <3>2
  <2>2. \A t \in Thread : Opened(t)' => call[t].h \in Handle \ {h} /\ handle'[call[t].h].key = NoKey
    BY <1>2, <1>8, <1>11 DEF HandlesOwned
  <2> QED BY <1>1, <1>8, <1>11, <2>1, <2>2 DEF HandlesOwned
<1>16. Tokens'
  <2> SUFFICES ASSUME NEW b \in Address \ misused, OneToken(b) PROVE OneToken(b)'
    BY <1>1 DEF Tokens, Address
  <2>1. \A g \in Handle : /\ In(handle'[g].reads, b) => In(handle[g].reads, b)
                          /\ Once(handle'[g].reads, b)
    BY <1>7, <1>8 DEF OneToken, q
  <2>2. CASE b # a
    <3>1. (In(Keys', b) <=> In(Keys, b)) /\ Once(Keys', b)
      BY <1>9, <2>2 DEF OneToken
    <3> QED BY <1>1, <1>8, <2>1, <3>1 DEF OneToken
  <2>3. CASE b = a /\ ~In(q, a)
    <3>1. (In(Keys', b) <=> In(Keys, b)) /\ Once(Keys', b)
      BY <1>4, <1>9, <2>3 DEF OneToken
    <3> QED BY <1>1, <1>8, <2>1, <3>1 DEF OneToken
  <2>4. CASE b = a /\ In(q, a)
    <3>1. /\ Once(q, a) /\ ~In(Keys, a) /\ lp.item # a
          /\ \A g \in Handle : In(handle[g].reads, a) => g = h
      BY <1>2, <2>4 DEF OneToken, q
    <3>2. Once(Keys', b)
      BY <1>4, <1>9, <2>4, <3>1 DEF OneToken
    <3>3. \A g \in Handle : ~In(handle'[g].reads, b)
      BY <1>7, <1>8, <2>1, <2>4, <3>1
    <3> QED BY <1>1, <1>8, <2>1, <2>4, <3>1, <3>2, <3>3 DEF OneToken
  <2> QED BY <2>2, <2>3, <2>4
<1>17. ReadsOwn'
  <2> SUFFICES ASSUME NEW g \in Handle, handle'[g].key \notin misused \cup {NoKey},
                      NEW k \in DOMAIN handle'[g].reads
               PROVE  handle'[g].reads[k] = handle'[g].key
    BY <1>1, <1>8 DEF ReadsOwn
  <2>1. CASE g = h
    BY <1>2, <1>7, <1>8, <2>1 DEF ReadsOwn, q
  <2>2. CASE g # h
    BY <1>8, <2>2 DEF ReadsOwn
  <2> QED BY <2>1, <2>2
<1>18. Heard'
  <2> SUFFICES ASSUME NEW x \in DOMAIN m_watches
               PROVE  LET b == m_watches[x]
                          g == heap[b].hDir IN
                      \/ handle'[g].dead \/ b \in deaf \/ handle'[g].reads # << >> \/ lp.item = b
                      \/ In(Keys', b)
    BY <1>1 DEF Heard
  <2>1. m_watches[x] \in Owner /\ m_watches[x] # a
    BY <1>11 DEF Owner, Range
  <2>2. handle'[heap[m_watches[x]].hDir] = handle[heap[m_watches[x]].hDir]
    BY <1>8, <1>12, <2>1
  <2> QED BY <1>9, <2>2 DEF Heard
<1>19. Closed'
  <2> SUFFICES ASSUME NEW g \in Handle
               PROVE  \/ \E b \in Owner' : heap'[b].hDir = g
                      \/ \E t \in Thread : Opened(t)' /\ call'[t].h = g
                      \/ handle'[g].key \in misused' \ {NoKey}
    BY <1>8 DEF Closed
  <2>1. handle'[g].key = handle[g].key
    BY <1>2, <1>8
  <2>2. CASE \E t \in Thread : Opened(t) /\ call[t].h = g
    BY <1>11, <2>2
  <2> QED BY <1>1, <1>11, <2>1, <2>2 DEF Closed
<1> QED BY <1>13, <1>14, <1>15, <1>16, <1>17, <1>18, <1>19

LEMMA ItemClosed == ASSUME IInv, NEW th \in Thread, CloseItem(th) PROVE IInv'
<1> USE DEF IInv
<1> DEFINE a == call[th].item
           h == heap[a].hDir
           q == handle[h].reads
           n == Len(q)
           p == Packet(a, TRUE, 0)
<1>1. /\ UNCHANGED <<heap, m_watches, lp, deaf, misused>>
      /\ Holding(th) /\ Closing(th) /\ a \in Owner
      /\ Becomes(th, [call[th] EXCEPT !.at = "forget"])
  BY DEF CloseItem, userVars, Holding, Closing, Owner
<1>2. h \in Handle /\ handle[h].key = a /\ q \in Seq(Address) /\ a \in Address /\ a # NoKey
  BY <1>1, Owned DEF HandlesOwned, Shapes
<1>3. /\ call' = [t \in Thread |-> call'[t]] /\ \A t \in Thread \ {th} : call'[t] = call[t]
      /\ call'[th] = [at |-> "forget", item |-> a]
  <2>1. call[th] = [at |-> call[th].at, item |-> a]
    BY <1>1 DEF ItemsApart
  <2>2. [call[th] EXCEPT !.at = "forget"] = [at |-> "forget", item |-> a]
    <3> HIDE DEF a
    <3> QED BY <2>1
  <2> QED BY <1>1, <2>2, Became
<1>4. n \in Nat /\ (n > 0 => In(q, a) \/ a \in misused) /\ (Once(q, a) => n \in {0, 1} \/ a \in misused)
  <2>1. q \in Seq(Address)
    BY <1>2, Zenon
  <2>2. a \in misused \/ \A k \in DOMAIN q : q[k] = a
    BY <1>2, Zenon DEF ReadsOwn
  <2> HIDE DEF a, q
  <2>3. n \in Nat /\ DOMAIN q = 1 .. n
    BY <2>1, LenProperties
  <2>4. ASSUME n > 0, a \notin misused PROVE In(q, a)
    <3>1. 1 \in DOMAIN q
      BY <2>3, <2>4
    <3> QED BY <2>2, <2>4, <3>1 DEF In
  <2>5. ASSUME Once(q, a), a \notin misused PROVE n \in {0, 1}
    <3>1. n >= 2 => 1 \in DOMAIN q /\ 2 \in DOMAIN q
      BY <2>3
    <3> QED BY <2>2, <2>3, <2>5, <3>1 DEF Once
  <2> QED BY <2>3, <2>4, <2>5
<1>5. iocp' = iocp \o [k \in 1 .. n |-> p] /\ p \in Packets /\ p.key = a
  <2>1. iocp' = iocp \o [k \in 1 .. n |-> Packet(handle[h].key, TRUE, 0)]
    BY Zenon DEF CloseItem, CloseHandle, Aborted
  <2> HIDE DEF n, a, h
  <2> QED BY <1>2, <2>1 DEF Packet, Packets
<1>6. Handle' = Handle \ {h} /\ \A g \in Handle \ {h} : handle'[g] = handle[g]
  <2>1. handle' = Without(handle, {h})
    BY Zenon DEF CloseItem, CloseHandle
  <2> HIDE DEF h
  <2> QED BY <2>1 DEF Without, Restrict, Handle
<1> HIDE DEF n, p, q
<1>7. /\ iocp' \in Seq(Packets) /\ \A k \in DOMAIN iocp' : iocp'[k].key = NoKey => iocp'[k] = Wakeup
      /\ \A b : In(Keys', b) <=> In(Keys, b) \/ (n > 0 /\ a = b)
      /\ \A b : Once(Keys, b) /\ (a = b => n = 0 \/ (n = 1 /\ ~In(Keys, b))) => Once(Keys', b)
  BY <1>2, <1>4, <1>5, PortGets
<1>8. /\ Holding(th)' /\ ~Closing(th)' /\ ~Opened(th)' /\ call'[th].item = a
      /\ call'[th] = [at |-> call'[th].at, item |-> call'[th].item]
  BY <1>3 DEF Holding, Closing, Opened
<1>9. /\ \A t \in Thread \ {th} : /\ Holding(t)' <=> Holding(t)
                                  /\ (Closing(t)' <=> Closing(t)) /\ (Opened(t)' <=> Opened(t))
      /\ \A t \in Thread : Opened(t) => Opened(t)' /\ call'[t].h = call[t].h
      /\ \A t \in Thread : Opened(t)' => Opened(t) /\ call'[t].h = call[t].h
      /\ Owner' = Owner \ {a} /\ Live' \subseteq Live
      /\ a \notin Range(m_watches)
  BY <1>1, <1>3, <1>8, CallHolds
<1>10. \A b \in Owner \ {a} : heap[b].hDir \in Handle \ {h}
  BY <1>2 DEF HandlesOwned
<1> HIDE DEF h
<1>11. Shapes'
  <2>1. \A g \in Handle' : /\ handle'[g] = [f \in HandleField |-> handle'[g][f]]
                           /\ handle'[g].reads \in Seq(Address) /\ handle'[g].key \in Address \cup {NoKey}
    BY <1>6 DEF Shapes
  <2>2. /\ Handle' \subseteq 1 .. MaxHandle /\ DOMAIN heap \subseteq Address
        /\ \A b \in DOMAIN heap : heap[b] = [f \in ItemField |-> heap[b][f]]
        /\ lp = [f \in LoopField |-> lp[f]]
        /\ lp.item \in IF lp.at \in {"process", "callback", "reissue"} THEN Address ELSE {NoKey}
    BY <1>6 DEF Shapes
  <2> QED BY <1>1, <1>3, <1>7, <2>1, <2>2 DEF Shapes
<1>12. ItemsApart'
  <2>1. \A t \in Thread : Holding(t)' => Holding(t) /\ call'[t].item = call[t].item
    BY <1>1, <1>3, <1>8, <1>9
  <2>2. \A t \in Thread : Holding(t)' => call'[t] = [at |-> call'[t].at, item |-> call'[t].item]
    BY <1>3, <1>8, <1>9 DEF ItemsApart
  <2> QED BY <1>1, <1>9, <2>1, <2>2 DEF ItemsApart
<1>13. HandlesOwned'
  <2>1. \A b \in Owner \ {a} : heap[b].hDir \in Handle \ {h} /\ handle'[heap[b].hDir].key = b
    BY <1>6, <1>10 DEF HandlesOwned
  <2>2. \A t \in Thread : Opened(t)' => call[t].h \in Handle \ {h} /\ handle'[call[t].h].key = NoKey
    BY <1>2, <1>6, <1>9 DEF HandlesOwned
  <2> QED BY <1>1, <1>6, <1>9, <2>1, <2>2 DEF HandlesOwned
<1>14. Tokens'
  <2> SUFFICES ASSUME NEW b \in Address \ misused, OneToken(b) PROVE OneToken(b)'
    BY <1>1 DEF Tokens, Address
  <2>1. CASE b # a \/ n = 0
    <3>1. (In(Keys', b) <=> In(Keys, b)) /\ Once(Keys', b)
      BY <1>4, <1>7, <2>1 DEF OneToken
    <3> QED BY <1>1, <1>6, <3>1 DEF OneToken
  <2>2. CASE b = a /\ n # 0
    <3>1. /\ In(q, a) /\ Once(q, a) /\ ~In(Keys, a) /\ lp.item # a
          /\ \A g \in Handle : In(handle[g].reads, a) => g = h
      BY <1>2, <1>4, <2>2 DEF OneToken, q
    <3>2. Once(Keys', b)
      <4>1. n \in {0, 1} /\ Once(Keys, b) /\ ~In(Keys, b)
        BY <1>4, <2>2, <3>1 DEF OneToken
      <4> QED BY <1>7, <4>1
    <3>3. \A g \in Handle' : ~In(handle'[g].reads, b)
      BY <1>6, <2>2, <3>1
    <3> QED BY <1>1, <1>6, <2>2, <3>1, <3>2, <3>3 DEF OneToken, Once, In
  <2> QED BY <2>1, <2>2
<1>15. ReadsOwn'
  BY <1>1, <1>6 DEF ReadsOwn
<1>16. Heard'
  <2> SUFFICES ASSUME NEW x \in DOMAIN m_watches
               PROVE  LET b == m_watches[x]
                          g == heap[b].hDir IN
                      \/ handle'[g].dead \/ b \in deaf \/ handle'[g].reads # << >> \/ lp.item = b
                      \/ In(Keys', b)
    BY <1>1 DEF Heard
  <2>1. m_watches[x] \in Owner /\ m_watches[x] # a
    BY <1>9 DEF Owner, Range
  <2>2. handle'[heap[m_watches[x]].hDir] = handle[heap[m_watches[x]].hDir]
    BY <1>6, <1>10, <2>1
  <2> QED BY <1>7, <2>2 DEF Heard
<1>17. Closed'
  <2> SUFFICES ASSUME NEW g \in Handle \ {h}
               PROVE  \/ \E b \in Owner' : heap'[b].hDir = g
                      \/ \E t \in Thread : Opened(t)' /\ call'[t].h = g
                      \/ handle'[g].key \in misused' \ {NoKey}
    BY <1>6 DEF Closed
  <2>1. CASE \E t \in Thread : Opened(t) /\ call[t].h = g
    BY <1>9, <2>1
  <2>2. CASE \E b \in Owner : heap[b].hDir = g
    BY <1>1, <1>9, <2>2 DEF h
  <2> QED BY <1>1, <1>6, <2>1, <2>2 DEF Closed
<1> QED BY <1>11, <1>12, <1>13, <1>14, <1>15, <1>16, <1>17

LEMMA ItemForgotten == ASSUME IInv, NEW th \in Thread, ForgetItem(th) PROVE IInv'
<1> USE DEF IInv
<1> DEFINE a == call[th].item
<1>1. /\ UNCHANGED <<handle, iocp, m_watches, lp, deaf, misused>>
      /\ Holding(th) /\ ~Closing(th)
      /\ Becomes(th, Idle) /\ heap' = [heap EXCEPT ![a].hDir = Invalid]
  BY DEF ForgetItem, userVars, Holding, Closing
<1>2. /\ call' = [t \in Thread |-> call'[t]] /\ \A t \in Thread \ {th} : call'[t] = call[t]
      /\ call'[th] = Idle
  BY <1>1, Became
<1>3. ~Holding(th)' /\ ~Closing(th)' /\ ~Opened(th)'
  BY <1>2 DEF Holding, Closing, Opened, Idle
<1>4. /\ \A t \in Thread \ {th} : /\ Holding(t)' <=> Holding(t)
                                  /\ (Closing(t)' <=> Closing(t)) /\ (Opened(t)' <=> Opened(t))
      /\ \A t \in Thread : Opened(t) => Opened(t)' /\ call'[t].h = call[t].h
      /\ \A t \in Thread : Opened(t)' => Opened(t) /\ call'[t].h = call[t].h
      /\ Owner' = Owner \ {a} /\ Live' \subseteq Live
      /\ a \notin Range(m_watches)
  BY <1>1, <1>2, <1>3, CallHolds
<1>5. a \notin Owner
  <2>1. \A t \in Thread : Closing(t) => call[t].item # a
    BY <1>1 DEF ItemsApart, Holding, Closing
  <2> QED BY <1>4, <2>1 DEF Owner
<1>6. /\ DOMAIN heap' = DOMAIN heap /\ \A b \in DOMAIN heap \ {a} : heap'[b] = heap[b]
      /\ \A b \in DOMAIN heap : heap'[b] = [f \in ItemField |-> heap'[b][f]]
  <2>1. a \in DOMAIN heap => heap'[a] = [heap[a] EXCEPT !.hDir = Invalid]
    BY <1>1
  <2>2. DOMAIN heap' = DOMAIN heap /\ \A b \in DOMAIN heap \ {a} : heap'[b] = heap[b]
    BY <1>1
  <2> HIDE DEF a
  <2>3. ASSUME NEW b \in DOMAIN heap PROVE heap'[b] = [f \in ItemField |-> heap'[b][f]]
    <3>1. heap[b] = [f \in ItemField |-> heap[b][f]]
      BY DEF Shapes
    <3>2. CASE b = a
      BY <2>1, <3>1, <3>2 DEF ItemField
    <3>3. CASE b # a
      BY <2>2, <3>1, <3>3, Zenon
    <3> QED BY <3>2, <3>3
  <2> QED BY <2>2, <2>3
<1>7. \A b \in Owner : heap'[b] = heap[b]
  BY <1>5, <1>6, Owned
<1>8. Keys' = Keys /\ Handle' = Handle /\ Owner' = Owner
  BY <1>1, <1>4, <1>5 DEF Keys, KeysOf, Handle
<1> HIDE DEF a
<1>9. Shapes'
  BY <1>1, <1>2, <1>6, <1>8 DEF Shapes
<1>10. ItemsApart'
  <2>1. \A t \in Thread : Holding(t)' => Holding(t) /\ call'[t] = call[t]
    BY <1>2, <1>3, <1>4
  <2> QED BY <1>1, <1>4, <1>6, <2>1 DEF ItemsApart
<1>11. HandlesOwned'
  BY <1>1, <1>4, <1>7, <1>8 DEF HandlesOwned
<1>12. Tokens' /\ ReadsOwn'
  BY <1>1, <1>8 DEF Tokens, OneToken, ReadsOwn
<1>13. Heard'
  <2>1. \A x \in DOMAIN m_watches : m_watches[x] \in Owner
    BY DEF Owner, Range
  <2> QED BY <1>1, <1>7, <1>8, <2>1 DEF Heard
<1>14. Closed'
  <2> SUFFICES ASSUME NEW g \in Handle
               PROVE  \/ \E b \in Owner' : heap'[b].hDir = g
                      \/ \E t \in Thread : Opened(t)' /\ call'[t].h = g
                      \/ handle'[g].key \in misused' \ {NoKey}
    BY <1>8 DEF Closed
  <2>1. CASE \E t \in Thread : Opened(t) /\ call[t].h = g
    BY <1>4, <2>1
  <2>2. CASE \E b \in Owner : heap[b].hDir = g
    BY <1>7, <1>8, <2>2
  <2> QED BY <1>1, <2>1, <2>2 DEF Closed
<1> QED BY <1>9, <1>10, <1>11, <1>12, <1>13, <1>14

LEMMA WakeupPosted == ASSUME IInv, NEW th \in Thread, PostWakeup(th) PROVE IInv'
<1> USE DEF IInv
<1>1. /\ UNCHANGED <<handle, heap, m_watches, lp, deaf, misused>>
      /\ call[th].at = "wakeup" /\ iocp' = Append(iocp, Wakeup)
  BY DEF PostWakeup, userVars
<1>2. /\ call' = [t \in Thread |-> call'[t]] /\ \A t \in Thread \ {th} : call'[t] = call[t]
      /\ call'[th] = Idle
  BY Became DEF PostWakeup
<1>3. /\ \A t \in Thread : (Holding(t)' <=> Holding(t)) /\ (Closing(t)' <=> Closing(t)) /\ (Opened(t)' <=> Opened(t))
      /\ \A t \in Thread : Holding(t) \/ Closing(t) \/ Opened(t) => call'[t] = call[t]
  BY <1>1, <1>2 DEF Holding, Closing, Opened, Idle
<1>4. Handle' = Handle /\ Owner' = Owner /\ Live' = Live
  BY <1>1, <1>3 DEF Handle, Owner, Live, Holding
<1>5. Wakeup \in Packets /\ Wakeup.key = NoKey /\ iocp \in Seq(Packets)
  BY DEF Wakeup, Packets, NoKey, Shapes
<1>6. iocp' \in Seq(Packets) /\ \A k \in DOMAIN iocp' : iocp'[k].key = NoKey => iocp'[k] = Wakeup
  <2>1. /\ Len(iocp) \in Nat /\ DOMAIN iocp = 1 .. Len(iocp)
        /\ iocp' \in Seq(Packets) /\ DOMAIN iocp' = 1 .. Len(iocp) + 1
        /\ iocp'[Len(iocp) + 1] = Wakeup /\ \A i \in 1 .. Len(iocp) : iocp'[i] = iocp[i]
    BY <1>1, <1>5, AppendProperties, LenProperties
  <2>2. \A i \in DOMAIN iocp' : i = Len(iocp) + 1 \/ i \in DOMAIN iocp
    BY <2>1
  <2> QED BY <2>1, <2>2 DEF Shapes
<1>7. \A b \in Address : (In(Keys', b) <=> In(Keys, b)) /\ (Once(Keys, b) => Once(Keys', b))
  <2>1. Keys' = Append(Keys, NoKey) /\ Keys \in Seq(Address \cup {NoKey})
    BY <1>1, <1>5, KeysOfPort DEF Keys
  <2>2. \A b \in Address : b # NoKey
    BY DEF Address, NoKey
  <2>3. NoKey \in Address \cup {NoKey}
    OBVIOUS
  <2> QED BY <2>1, <2>2, <2>3, InAppended
<1>8. Shapes'
  BY <1>1, <1>2, <1>4, <1>6 DEF Shapes
<1>9. ItemsApart'
  BY <1>1, <1>3, <1>4 DEF ItemsApart
<1>10. HandlesOwned' /\ Closed'
  BY <1>1, <1>3, <1>4 DEF HandlesOwned, Closed
<1>11. Tokens' /\ ReadsOwn'
  <2>1. ASSUME NEW b \in Address, OneToken(b) PROVE OneToken(b)'
    BY <1>1, <1>4, <1>7, <2>1 DEF OneToken
  <2>2. Tokens'
    BY <1>1, <2>1 DEF Tokens, Address
  <2> QED BY <1>1, <1>4, <2>2 DEF ReadsOwn
<1>12. Heard'
  <2>1. \A x \in DOMAIN m_watches : m_watches[x] \in Address
    BY Owned DEF Owner, Range
  <2> QED BY <1>1, <1>7, <2>1 DEF Heard
<1> QED BY <1>8, <1>9, <1>10, <1>11, <1>12

-----------------------------------------------------------------------------
(* Steps of the loop.                                                       *)

LEMMA PacketTaken == ASSUME IInv, Dequeue PROVE IInv'
<1> USE DEF IInv
<1> DEFINE p == Head(iocp)
<1>1. /\ UNCHANGED <<handle, heap, m_watches, call, deaf, misused>>
      /\ lp.at = "wait" /\ lp.item = NoKey /\ iocp # << >> /\ iocp' = Tail(iocp) /\ iocp \in Seq(Packets)
  BY DEF Dequeue, userVars, Shapes
<1>2. /\ p \in Packets /\ (p.key = NoKey => p = Wakeup)
      /\ iocp' \in Seq(Packets) /\ \A k \in DOMAIN iocp' : iocp'[k].key = NoKey => iocp'[k] = Wakeup
  <2>1. /\ Len(iocp) \in Nat \ {0} /\ DOMAIN iocp = 1 .. Len(iocp) /\ p = iocp[1] /\ p \in Packets
        /\ iocp' \in Seq(Packets) /\ DOMAIN iocp' = 1 .. Len(iocp) - 1
        /\ \A i \in 1 .. Len(iocp) - 1 : iocp'[i] = iocp[i + 1]
    BY <1>1, HeadTailProperties, LenProperties, EmptySeq
  <2>2. 1 \in DOMAIN iocp /\ \A i \in DOMAIN iocp' : i + 1 \in DOMAIN iocp
    BY <2>1
  <2> QED BY <2>1, <2>2 DEF Shapes
<1>3. /\ lp' = [f \in LoopField |-> lp'[f]] /\ lp'.item = p.key
      /\ lp'.item \in IF lp'.at \in {"process", "callback", "reissue"} THEN Address ELSE {NoKey}
  <2>1. CASE p = Wakeup
    <3>1. lp' = [lp EXCEPT !.at = "while"]
      BY <2>1 DEF Dequeue
    <3>2. lp = [f \in LoopField |-> lp[f]] /\ p.key = NoKey
      BY <2>1 DEF Shapes, Wakeup
    <3> HIDE DEF p
    <3>3. lp' = [f \in LoopField |-> lp'[f]] /\ lp'.item = NoKey /\ lp'.at = "while"
      BY <1>1, <3>1, <3>2 DEF LoopField
    <3> QED BY <3>2, <3>3
  <2>2. CASE p # Wakeup
    <3>1. lp' = [at |-> IF p.ok /\ p.size > 0 THEN "process" ELSE "reissue", item |-> p.key, entry |-> 1]
      BY <2>2 DEF Dequeue
    <3>2. p.key \in Address
      BY <1>2, <2>2 DEF Packets
    <3>3. lp'.at \in {"process", "reissue"} /\ lp'.item = p.key
      BY <3>1
    <3> QED BY <3>1, <3>2, <3>3 DEF LoopField
  <2> QED BY <2>1, <2>2
<1>4. /\ \A a : In(Keys, a) <=> lp'.item = a \/ In(Keys', a)
      /\ \A a : Once(Keys, a) => Once(Keys', a) /\ (lp'.item = a => ~In(Keys', a))
  <2>1. Keys \in Seq(Address \cup {NoKey}) /\ Keys # << >> /\ Head(Keys) = p.key /\ Keys' = Tail(Keys)
    BY <1>1, KeysOfPort DEF Keys
  <2> QED BY <1>3, <2>1, InTail
<1>5. Handle' = Handle /\ Owner' = Owner /\ Live' = Live
  BY <1>1 DEF Handle, Owner, Live, Closing
<1>6. Shapes'
  BY <1>1, <1>2, <1>3, <1>5 DEF Shapes
<1>7. ItemsApart'
  BY <1>1, <1>5 DEF ItemsApart, Holding
<1>8. HandlesOwned' /\ Closed'
  BY <1>1, <1>5 DEF HandlesOwned, Closed, Opened
<1>9. Tokens' /\ ReadsOwn'
  <2>1. ASSUME NEW a, OneToken(a) PROVE OneToken(a)'
    BY <1>1, <1>4, <1>5, <2>1 DEF OneToken
  <2>2. Tokens'
    BY <1>1, <2>1 DEF Tokens, Address
  <2> QED BY <1>1, <1>5, <2>2 DEF ReadsOwn
<1>10. Heard'
  <2>1. \A x \in DOMAIN m_watches : m_watches[x] # NoKey
    BY Owned DEF Owner, Range
  <2> QED BY <1>1, <1>4, <2>1 DEF Heard
<1> QED BY <1>6, <1>7, <1>8, <1>9, <1>10

LEMMA ReadIssued == ASSUME IInv, Reissue PROVE IInv'
<1> USE DEF IInv
<1> DEFINE a == lp.item
           h == heap[a].hDir
<1>1. /\ UNCHANGED <<iocp, heap, m_watches, call>>
      /\ lp.at = "reissue" /\ lp' = [Out EXCEPT !.at = "while"] /\ a \in Address
      /\ handle' = IF m_running /\ CanRead(h) THEN IssueRead(a, h, handle) ELSE handle
      /\ deaf' = IF m_running THEN deaf ELSE deaf \cup {a}
      /\ misused' = IF h \in Handle /\ handle[h].key # a THEN misused \cup {handle[h].key} ELSE misused
  BY DEF Reissue, Shapes
<1>2. /\ lp' = [f \in LoopField |-> lp'[f]] /\ lp'.item = NoKey
      /\ lp'.at \notin {"process", "callback", "reissue"}
  BY <1>1 DEF Out, LoopField
<1>3. a # NoKey /\ misused \subseteq misused' /\ deaf \subseteq deaf'
  BY <1>1 DEF Address, NoKey
<1>4. /\ Handle' = Handle
      /\ \A g \in Handle : handle'[g] = [f \in HandleField |-> handle'[g][f]]
      /\ \A g \in Handle : /\ handle'[g].key = handle[g].key /\ handle'[g].dead = handle[g].dead
                           /\ \/ handle'[g].reads = handle[g].reads
                              \/ g = h /\ m_running /\ handle'[g].reads = Append(handle[g].reads, a)
      /\ m_running /\ CanRead(h) => handle'[h].reads = Append(handle[h].reads, a)
  <2>0. \A g \in Handle : handle[g] = [f \in HandleField |-> handle[g][f]]
    BY DEF Shapes
  <2>1. CASE m_running /\ CanRead(h)
    <3> DEFINE q == Append(handle[h].reads, a)
    <3>1. h \in Handle /\ handle' = [handle EXCEPT ![h].reads = q]
      BY <1>1, <2>1, Zenon DEF CanRead, IssueRead
    <3> HIDE DEF q, h
    <3>2. /\ DOMAIN handle' = Handle /\ handle'[h] = [handle[h] EXCEPT !.reads = q]
          /\ \A g \in Handle : g # h => handle'[g] = handle[g]
      BY <3>1, Zenon DEF Handle
    <3>3. /\ handle'[h] = [f \in HandleField |-> handle'[h][f]] /\ handle'[h].key = handle[h].key
          /\ handle'[h].dead = handle[h].dead /\ handle'[h].reads = q
      BY <2>0, <3>1, <3>2 DEF HandleField
    <3>4. Handle' = Handle
      BY <3>2, Zenon DEF Handle
    <3>5. ASSUME NEW g \in Handle, g # h
          PROVE  handle'[g] = [f \in HandleField |-> handle'[g][f]]
      BY <2>0, <3>2, <3>5, Zenon
    <3> QED BY <2>1, <3>1, <3>2, <3>3, <3>4, <3>5 DEF q
  <2>2. CASE ~(m_running /\ CanRead(h))
    <3>1. handle' = handle
      BY <1>1, <2>2, Zenon
    <3> QED BY <2>0, <2>2, <3>1, Zenon DEF Handle
  <2> QED BY <2>1, <2>2
<1>5. Keys' = Keys /\ Owner' = Owner /\ Live' = Live
  BY <1>1 DEF Keys, KeysOf, Owner, Live, Closing
<1> HIDE DEF h
<1>6. \A g \in Handle : handle[g].reads \in Seq(Address) /\ handle'[g].reads \in Seq(Address)
  <2>1. ASSUME NEW g \in Handle PROVE handle[g].reads \in Seq(Address)
    BY DEF Shapes
  <2>2. ASSUME NEW g \in Handle PROVE handle'[g].reads \in Seq(Address)
    <3> DEFINE q == handle[g].reads
    <3>1. q \in Seq(Address) /\ a \in Address
      BY <1>1, <2>1
    <3> HIDE DEF q, a
    <3>2. Append(q, a) \in Seq(Address)
      BY <3>1, AppendProperties
    <3>3. handle'[g].reads = q \/ handle'[g].reads = Append(q, a)
      BY <1>4 DEF q
    <3> QED BY <3>1, <3>2, <3>3
  <2> QED BY <2>1, <2>2
<1>7. Shapes'
  <2>1. \A g \in Handle : handle'[g].key \in Address \cup {NoKey}
    BY <1>4 DEF Shapes
  <2> QED BY <1>1, <1>2, <1>4, <1>6, <2>1 DEF Shapes
<1>8. ItemsApart'
  BY <1>1, <1>5 DEF ItemsApart, Holding
<1>9. HandlesOwned' /\ Closed'
  <2>1. HandlesOwned'
    BY <1>1, <1>4, <1>5 DEF HandlesOwned, Opened
  <2>2. Closed'
    BY <1>1, <1>3, <1>4, <1>5 DEF Closed, Opened
  <2> QED BY <2>1, <2>2
<1>10. ASSUME NEW g \in Handle, NEW b
       PROVE  /\ In(handle'[g].reads, b) => In(handle[g].reads, b) \/ (b = a /\ g = h)
              /\ Once(handle[g].reads, b) /\ (b = a => ~In(handle[g].reads, b)) => Once(handle'[g].reads, b)
  <2> DEFINE q == handle[g].reads
  <2>1. q \in Seq(Address) /\ a \in Address
    BY <1>1, <1>6
  <2> HIDE DEF q, a
  <2>2. /\ In(Append(q, a), b) <=> In(q, b) \/ a = b
        /\ Once(q, b) /\ (a = b => ~In(q, b)) => Once(Append(q, a), b)
    BY <2>1, InAppended
  <2>3. handle'[g].reads = q \/ (g = h /\ handle'[g].reads = Append(q, a))
    BY <1>4 DEF q
  <2> QED BY <2>2, <2>3 DEF q
<1>11. Tokens'
  <2> SUFFICES ASSUME NEW b \in Address \ misused', OneToken(b) PROVE OneToken(b)'
    BY <1>3 DEF Tokens, Address
  <2>1. lp'.item # b
    BY <1>2 DEF Address, NoKey
  <2>2. CASE b = a
    <3>1. ~In(Keys, b) /\ \A g \in Handle : ~In(handle[g].reads, b) /\ Once(handle[g].reads, b)
      BY <2>2 DEF OneToken
    <3>2. \A g \in Handle : Once(handle'[g].reads, b) /\ (In(handle'[g].reads, b) => g = h)
      BY <1>10, <3>1
    <3>3. Once(Keys, b)
      BY DEF OneToken
    <3> QED BY <1>4, <1>5, <2>1, <3>1, <3>2, <3>3 DEF OneToken
  <2>3. CASE b # a
    <3>1. \A g \in Handle : /\ In(handle'[g].reads, b) => In(handle[g].reads, b)
                            /\ Once(handle'[g].reads, b)
      BY <1>10, <2>3 DEF OneToken
    <3> QED BY <1>4, <1>5, <2>1, <3>1 DEF OneToken
  <2> QED BY <2>2, <2>3
<1>12. ReadsOwn'
  <2> SUFFICES ASSUME NEW g \in Handle, handle[g].key \notin misused' \cup {NoKey},
                      NEW k \in DOMAIN handle'[g].reads
               PROVE  handle'[g].reads[k] = handle[g].key
    BY <1>4 DEF ReadsOwn
  <2> DEFINE q == handle[g].reads
  <2>1. \A i \in DOMAIN q : q[i] = handle[g].key
    BY <1>3 DEF ReadsOwn
  <2>2. CASE handle'[g].reads = q
    BY <2>1, <2>2
  <2>3. CASE g = h /\ handle'[g].reads = Append(q, a)
    <3>1. handle[g].key = a
      BY <1>1, <2>3
    <3>2. q \in Seq(Address) /\ a \in Address
      BY <1>1, <1>6
    <3> HIDE DEF q, a
    <3>3. /\ DOMAIN Append(q, a) = 1 .. Len(q) + 1 /\ DOMAIN q = 1 .. Len(q) /\ Len(q) \in Nat
          /\ Append(q, a)[Len(q) + 1] = a /\ \A i \in 1 .. Len(q) : Append(q, a)[i] = q[i]
      BY <3>2, AppendProperties, LenProperties
    <3>4. k \in DOMAIN q \/ k = Len(q) + 1
      BY <2>3, <3>3
    <3> QED BY <2>1, <2>3, <3>1, <3>3, <3>4
  <2> QED BY <1>4, <2>2, <2>3
<1>13. Heard'
  <2> SUFFICES ASSUME NEW x \in DOMAIN m_watches
               PROVE  LET b == m_watches[x]
                          g == heap[b].hDir IN
                      \/ handle'[g].dead \/ b \in deaf' \/ handle'[g].reads # << >>
                      \/ In(Keys, b)
    BY <1>1, <1>5 DEF Heard
  <2>1. m_watches[x] \in Owner
    BY DEF Owner, Range
  <2>2. CASE m_watches[x] = a
    <3>1. h \in Handle /\ handle[h].key = a
      BY <2>1, <2>2 DEF HandlesOwned, h
    <3>2. CASE ~m_running
      BY <1>1, <2>2, <3>2
    <3>3. CASE m_running /\ handle[h].dead
      BY <1>4, <2>2, <3>1, <3>3 DEF h
    <3>4. CASE m_running /\ ~handle[h].dead
      <4>1. handle'[h].reads = Append(handle[h].reads, a)
        BY <1>4, <3>1, <3>4 DEF CanRead
      <4>2. handle'[h].reads # << >>
        BY <1>1, <1>6, <3>1, <4>1, AppendProperties, EmptySeq
      <4> QED BY <2>2, <4>2 DEF h
    <3> QED BY <3>2, <3>3, <3>4
  <2>3. CASE m_watches[x] # a
    <3> DEFINE b == m_watches[x]
               g == heap[b].hDir
    <3>1. g \in Handle
      BY <2>1 DEF HandlesOwned
    <3>2. handle[g].dead \/ b \in deaf \/ handle[g].reads # << >> \/ In(Keys, b)
      BY <2>3 DEF Heard
    <3> HIDE DEF b, g, a
    <3>3. handle[g].reads # << >> => handle'[g].reads # << >>
      <4> DEFINE q == handle[g].reads
      <4>1. q \in Seq(Address) /\ a \in Address
        BY <1>1, <1>6, <3>1 DEF a
      <4> HIDE DEF q
      <4>2. Append(q, a) # << >>
        BY <4>1, AppendProperties, EmptySeq
      <4>3. handle'[g].reads = q \/ handle'[g].reads = Append(q, a)
        BY <1>4, <3>1 DEF q, a
      <4> QED BY <4>2, <4>3 DEF q
    <3> QED BY <1>3, <1>4, <3>1, <3>2, <3>3 DEF b, g
  <2> QED BY <2>2, <2>3
<1> QED BY <1>7, <1>8, <1>9, <1>11, <1>12, <1>13

-----------------------------------------------------------------------------
(* The invariant.                                                           *)

LEMMA CallKeeps == ASSUME IInv, NEW th \in Thread, CallStep(th) PROVE IInv'
<1> USE DEF ioVars, userVars
<1>1. CASE \E r \in Root : AddWatch(th, r)
  <2>1. PICK r \in Root : AddWatch(th, r)
    BY <1>1
  <2> QED BY <2>1, CallMoves DEF AddWatch, Calls, Empty, Idle
<1>2. CASE \E r \in Root : RemoveWatch(th, r)
  <2>1. PICK r \in Root : RemoveWatch(th, r)
    BY <1>2
  <2> QED BY <2>1, CallMoves DEF RemoveWatch, Calls, Empty, Idle
<1>3. CASE AddFails(th)
  BY <1>3, CallMoves DEF AddFails, Empty, Idle
<1>4. CASE Stop(th)
  BY <1>4, CallMoves DEF Stop, Calls, Empty, Idle
<1> QED BY <1>1, <1>2, <1>3, <1>4, DirectoryOpens, ReadRefused, ItemInserted, ItemErased, ReadCancelled,
           ItemClosed, ItemForgotten, WakeupPosted DEF CallStep

LEMMA LoopKeeps == ASSUME IInv, LoopStep PROVE IInv'
<1> USE DEF ioVars, userVars
<1>0. /\ lp = [f \in LoopField |-> lp[f]]
      /\ lp.item \in IF lp.at \in {"process", "callback", "reissue"} THEN Address ELSE {NoKey}
  BY DEF IInv, Shapes
<1>1. CASE Start
  BY <1>0, <1>1, LoopMoves DEF Start, LoopIs, LoopField
<1>2. CASE While
  BY <1>0, <1>2, LoopMoves DEF While, LoopField, Out
<1>3. CASE Timeout
  BY <1>0, <1>3, LoopMoves DEF Timeout, LoopIs, LoopField
<1>4. CASE ProcessEntry
  BY <1>0, <1>4, LoopMoves DEF ProcessEntry, LoopIs, LoopField
<1>5. CASE NextEntry
  BY <1>0, <1>5, LoopMoves DEF NextEntry, LoopField
<1> QED BY <1>1, <1>2, <1>3, <1>4, <1>5, PacketTaken, ReadIssued DEF LoopStep

LEMMA Initially == Init => IInv
<1> SUFFICES ASSUME Init PROVE IInv
  OBVIOUS
<1>1. /\ handle = << >> /\ iocp = << >> /\ heap = << >> /\ m_watches = << >> /\ lp = Out
      /\ call = [th \in Thread |-> Idle]
  BY DEF Init
<1>2. Handle = {} /\ DOMAIN heap = {} /\ DOMAIN m_watches = {} /\ DOMAIN iocp = {}
  BY <1>1 DEF Handle
<1>3. \A th \in Thread : call[th] = Idle /\ ~Holding(th) /\ ~Closing(th) /\ ~Opened(th)
  BY <1>1 DEF Idle, Holding, Closing, Opened
<1>4. Owner = {} /\ Live = {}
  BY <1>2, <1>3 DEF Owner, Live, Range, Holding
<1>5. \A a : ~In(Keys, a) /\ Once(Keys, a)
  BY <1>2 DEF In, Once, Keys, KeysOf
<1>6. Shapes
  <2>1. iocp \in Seq(Packets)
    BY <1>1
  <2> QED BY <1>1, <1>2, <1>3, <2>1 DEF Shapes, Out, LoopField
<1>7. ItemsApart /\ HandlesOwned
  BY <1>2, <1>3, <1>4 DEF ItemsApart, HandlesOwned
<1>8. Tokens /\ ReadsOwn /\ Heard /\ Closed
  BY <1>2, <1>5 DEF Tokens, OneToken, ReadsOwn, Heard, Closed
<1> QED BY <1>6, <1>7, <1>8 DEF IInv

LEMMA Inductive == IInv /\ [Next]_vars => IInv'
<1> SUFFICES ASSUME IInv, [Next]_vars PROVE IInv'
  OBVIOUS
<1>1. CASE FsStep
  BY <1>1, FilesChange
<1>2. CASE ReadStep
  BY <1>2, ReadCompletes DEF ReadStep, userVars
<1>3. CASE \E th \in Thread : CallStep(th)
  BY <1>3, CallKeeps
<1>4. CASE LoopStep
  BY <1>4, LoopKeeps
<1>5. CASE UNCHANGED vars
  BY <1>5, Untouched DEF vars, ioVars, userVars, invVars
<1> QED BY <1>1, <1>2, <1>3, <1>4, <1>5 DEF Next

\* What the packets, the items and the handles have to do with one another holds always.
THEOREM Invariance == Spec => []IInv
<1>1. Init => IInv
  BY Initially
<1>2. IInv /\ [Next]_vars => IInv'
  BY Inductive
<1> QED BY <1>1, <1>2, PTL DEF Spec

\* While it runs, the watcher hears of every directory in m_watches: its read is issued, or
\* a packet of it will reach the line of watchLoop that issues the next one.
THEOREM WatchesAreHeard == Spec => []WatchIsHeard
<1>1. IInv => WatchIsHeard
  BY DEF IInv, Heard, WatchIsHeard, In, Keys, KeysOf
<1> QED BY <1>1, Invariance, PTL

\* processNotifyBuffer goes through a buffer that no read is filling.
THEOREM BuffersAreStable == Spec => []BufferIsStable
<1>1. IInv => BufferIsStable
  <2> SUFFICES ASSUME IInv, lp.at \in {"process", "callback"}, lp.item \notin misused, NEW h \in Handle
               PROVE  lp.item \notin Range(handle[h].reads)
    BY DEF BufferIsStable
  <2>1. OneToken(lp.item)
    BY DEF IInv, Shapes, Tokens
  <2> QED BY <2>1 DEF OneToken, In, Range
<1> QED BY <1>1, Invariance, PTL

\* No directory handle is left open with nobody to close it, but those of displaced items.
THEOREM HandlesAreClosed == Spec => []NoLeak
<1>1. IInv => NoLeak
  <2>1. Owner \subseteq Live
    BY DEF Owner, Live, Closing
  <2> QED BY <2>1 DEF IInv, Closed, NoLeak, Opened
<1> QED BY <1>1, Invariance, PTL

-----------------------------------------------------------------------------
(* Everything is well formed.                                               *)

Noted    == [action : {"added", "modified", "removed", "old", "new"}, name : Seq(STRING)]
Named(d) == {e \in Noted : d \o e.name \in Path}

HandlesTyped ==
    \A h \in Handle :
        /\ handle[h].dir \in Path /\ handle[h].key \in DOMAIN heap \cup {NoKey}
        /\ \A k \in DOMAIN handle[h].reads : handle[h].reads[k] \in DOMAIN heap
        /\ handle[h].records \in Seq(Named(handle[h].dir)) /\ Len(handle[h].records) <= MaxRecords

HeapTyped ==
    \A a \in DOMAIN heap :
        heap[a].path \in Path /\ heap[a].hDir \in 0 .. MaxHandle /\ heap[a].buffer \in Seq(Noted)

PortTyped ==
    /\ \A k \in DOMAIN iocp : iocp[k].key \in DOMAIN heap \cup {NoKey}
    /\ lp.item \in DOMAIN heap \cup {NoKey}

CallsTyped ==
    \A th \in Thread : call[th].at \in {"add", "opened", "remove"} =>
        /\ call[th].root \in Root
        /\ Opened(th) => handle[call[th].h].dir = call[th].root

UserTyped ==
    /\ DOMAIN fs \subseteq Path
    /\ DOMAIN m_watches \subseteq Root /\ registered \subseteq Root
    /\ m_renameInfo \in Seq(STRING) /\ m_running \in BOOLEAN
    /\ renamer \in Address \cup {NoKey}
    /\ DOMAIN mirror \subseteq Seq(STRING) /\ missed \subseteq Path

\* As long as nothing was used after its item had gone, reads, handles and items belong
\* together, and what is said below a directory is of a path.
Straight ==
    misused = {} =>
        /\ \A h \in Handle :
              /\ \A k \in DOMAIN handle[h].reads : handle[h].reads[k] = handle[h].key
              /\ handle[h].key # NoKey => heap[handle[h].key].path = handle[h].dir
        /\ \A a \in DOMAIN heap : heap[a].buffer \in Seq(Named(heap[a].path))
        /\ m_renameInfo \in Path \cup {<< >>}

Typed == HandlesTyped /\ HeapTyped /\ PortTyped /\ CallsTyped /\ UserTyped /\ Straight

-----------------------------------------------------------------------------
(* Paths and copies.                                                        *)

LEMMA PathIs == ASSUME NEW p \in Path PROVE p \in Seq(STRING) /\ Len(p) \in Nat
BY FilesAssumption, LenProperties

\* What is left of a path without what it begins with.
LEMMA RestIs ==
  ASSUME NEW p \in Seq(STRING), NEW x \in Seq(STRING)
  PROVE  LET s == SubSeq(x, Len(p) + 1, Len(x)) IN
         s \in Seq(STRING) /\ (Under(p, x) => p \o s = x)
<1> DEFINE s == SubSeq(x, Len(p) + 1, Len(x))
           y == p \o s
<1>1. Len(p) \in Nat /\ Len(x) \in Nat
  BY LenProperties
<1>2. /\ s \in Seq(STRING)
      /\ Len(s) = IF Len(p) + 1 <= Len(x) THEN Len(x) - (Len(p) + 1) + 1 ELSE 0
      /\ \A i \in 1 .. Len(x) - (Len(p) + 1) + 1 : s[i] = x[Len(p) + 1 + i - 1]
  <2>1. Len(p) + 1 \in Int /\ Len(x) \in Int
    BY <1>1
  <2>2. \A i \in Len(p) + 1 .. Len(x) : x[i] \in STRING
    BY <1>1, ElementOfSeq
  <2> QED BY <2>1, <2>2, SubSeqProperties
<1> HIDE DEF s
<1>3. y \in Seq(STRING) /\ Len(y) = Len(p) + Len(s)
      /\ \A i \in 1 .. Len(p) + Len(s) : y[i] = IF i <= Len(p) THEN p[i] ELSE s[i - Len(p)]
  BY <1>2, ConcatProperties
<1> HIDE DEF y
<1>4. ASSUME Under(p, x) PROVE y = x
  <2> DEFINE f == SubSeq(p, 1, Len(p))
             g == SubSeq(x, 1, Len(p))
  <2>1. Len(p) <= Len(x) /\ f = g
    BY <1>4 DEF Under, IsPrefix
  <2>2. \A i \in 1 .. Len(p) : f[i] = p[i]
    <3>1. 1 \in Int /\ Len(p) \in Int /\ \A i \in 1 .. Len(p) : p[i] \in STRING
      BY <1>1, ElementOfSeq
    <3>2. \A i \in 1 .. Len(p) - 1 + 1 : f[i] = p[1 + i - 1]
      BY <3>1, SubSeqProperties
    <3> HIDE DEF f
    <3> QED BY <1>1, <3>2
  <2>3. \A i \in 1 .. Len(p) : g[i] = x[i]
    <3>1. 1 \in Int /\ Len(p) \in Int /\ \A i \in 1 .. Len(p) : x[i] \in STRING
      BY <1>1, <2>1, ElementOfSeq
    <3>2. \A i \in 1 .. Len(p) - 1 + 1 : g[i] = x[1 + i - 1]
      BY <3>1, SubSeqProperties
    <3> HIDE DEF g
    <3> QED BY <1>1, <3>2
  <2> HIDE DEF f, g
  <2>4. Len(s) = Len(x) - Len(p)
    BY <1>1, <1>2, <2>1
  <2>5. ASSUME NEW i \in 1 .. Len(x) PROVE y[i] = x[i]
    <3>1. CASE i <= Len(p)
      BY <1>1, <1>3, <2>1, <2>2, <2>3, <2>4, <3>1
    <3>2. CASE ~(i <= Len(p))
      <4>1. i - Len(p) \in 1 .. Len(x) - (Len(p) + 1) + 1 /\ Len(p) + 1 + (i - Len(p)) - 1 = i
        BY <1>1, <3>2
      <4>2. s[i - Len(p)] = x[i]
        BY <1>2, <4>1
      <4> QED BY <1>1, <1>3, <2>4, <3>2, <4>2
    <3> QED BY <3>1, <3>2
  <2>6. Len(y) = Len(x)
    BY <1>1, <1>3, <2>4
  <2> QED BY <1>3, <2>5, <2>6, SeqEqual
<1> QED BY <1>2, <1>4 DEF s, y

LEMMA RenamedTyped ==
  ASSUME NEW p \in Seq(STRING), NEW q \in Seq(STRING), NEW x \in Seq(STRING)
  PROVE  Renamed(p, q, x) \in Seq(STRING)
<1> DEFINE s == SubSeq(x, Len(p) + 1, Len(x))
<1>1. s \in Seq(STRING)
  BY RestIs
<1> HIDE DEF s
<1>2. q \o s \in Seq(STRING)
  BY <1>1, ConcatProperties
<1> QED BY <1>2 DEF Renamed, s

\* The copies are of paths, whatever the event says.
LEMMA CopiesNamed ==
  ASSUME NEW m, DOMAIN m \subseteq Seq(STRING), NEW e, e.path \in Seq(STRING), e.old \in Seq(STRING)
  PROVE  DOMAIN Followed(m, e) \subseteq Seq(STRING)
<1>1. ASSUME NEW n, DOMAIN n \subseteq Seq(STRING) PROVE DOMAIN Copied(n, e.path) \subseteq Seq(STRING)
  BY <1>1 DEF Copied, With
<1>2. ASSUME NEW S PROVE DOMAIN Without(m, S) \subseteq Seq(STRING)
  BY DEF Without, Restrict
<1> DEFINE moved == {x \in DOMAIN m : Under(e.old, x)}
           to    == {Renamed(e.old, e.path, x) : x \in moved}
           f     == [y \in to |-> m[CHOOSE x \in moved : Renamed(e.old, e.path, x) = y]]
<1>3. to \subseteq Seq(STRING)
  BY RenamedTyped
<1>4. DOMAIN f = to
  OBVIOUS
<1>5. \/ Followed(m, e) = Copied(m, e.path)
      \/ Followed(m, e) = Without(m, {e.path})
      \/ Followed(m, e) = Copied(Without(m, {e.path}), e.path)
      \/ Followed(m, e) = Copied(Joined(f, Without(m, moved)), e.path)
  BY DEF Followed
<1> HIDE DEF f, moved, to
<1>6. DOMAIN Joined(f, Without(m, moved)) \subseteq Seq(STRING)
  BY <1>2, <1>3, <1>4 DEF Joined
<1> QED BY <1>1, <1>2, <1>5, <1>6

-----------------------------------------------------------------------------
(* Files change.                                                            *)

Change == [action : {"added", "modified", "removed", "old", "new"}, path : Path]

LEMMA RelativeTyped ==
  ASSUME NEW h, handle[h].dir \in Path, NEW records, \A k \in DOMAIN records : records[k] \in Change
  PROVE  Relative(h, records) \in Seq(Named(handle[h].dir))
<1> DEFINE d == handle[h].dir
           N(k) == IF k \in DOMAIN records /\ Reports(h, records[k].path)
                   THEN <<[action |-> records[k].action,
                           name |-> SubSeq(records[k].path, Len(d) + 1, Len(records[k].path))]>>
                   ELSE << >>
<1>1. ASSUME NEW k PROVE N(k) \in Seq(Named(d))
  <2>1. CASE k \in DOMAIN records /\ Reports(h, records[k].path)
    <3> DEFINE p == records[k].path
               s == SubSeq(p, Len(d) + 1, Len(p))
               e == [action |-> records[k].action, name |-> s]
    <3>1. records[k] \in Change /\ p \in Path /\ Under(d, p)
      BY <2>1 DEF Change, Reports
    <3>2. s \in Seq(STRING) /\ d \o s = p
      BY <3>1, PathIs, RestIs
    <3> HIDE DEF s
    <3>3. e \in Noted /\ e.name = s
      BY <3>1, <3>2 DEF Change, Noted
    <3>4. e \in Named(d)
      BY <3>1, <3>2, <3>3 DEF Named
    <3>5. N(k) = <<e>>
      BY <2>1 DEF s
    <3> HIDE DEF e, N
    <3> QED BY <3>4, <3>5
  <2>2. CASE ~(k \in DOMAIN records /\ Reports(h, records[k].path))
    <3>1. N(k) = << >>
      BY <2>2
    <3> HIDE DEF N
    <3> QED BY <3>1
  <2> QED BY <2>1, <2>2
<1>2. Relative(h, records) = N(1) \o N(2) \o N(3)
  BY Zenon DEF Relative
<1> HIDE DEF N, d
<1>3. N(1) \o N(2) \in Seq(Named(d))
  BY <1>1, ConcatProperties
<1>4. (N(1) \o N(2)) \o N(3) \in Seq(Named(d))
  BY <1>1, <1>3, ConcatProperties
<1> QED BY <1>2, <1>4 DEF d

LEMMA RecordedTyped ==
  ASSUME Shapes, HandlesTyped, NEW records, \A k \in DOMAIN records : records[k] \in Change, NEW h \in Handle
  PROVE  LET r == Recorded(records)[h] IN
         r.records \in Seq(Named(handle[h].dir)) /\ Len(r.records) <= MaxRecords
<1> DEFINE r   == Recorded(records)[h]
           all == handle[h].records \o Relative(h, records)
<1>1. all \in Seq(Named(handle[h].dir))
  <2>1. Relative(h, records) \in Seq(Named(handle[h].dir)) /\ handle[h].records \in Seq(Named(handle[h].dir))
    BY RelativeTyped DEF HandlesTyped
  <2> DEFINE a == handle[h].records
             b == Relative(h, records)
             S == Named(handle[h].dir)
  <2>2. a \in Seq(S) /\ b \in Seq(S)
    BY <2>1
  <2> HIDE DEF a, b, S
  <2>3. a \o b \in Seq(S)
    BY <2>2, ConcatProperties
  <2> QED BY <2>3 DEF a, b, S
<1>2. \/ r = handle[h]
      \/ r = [handle[h] EXCEPT !.records = << >>, !.lost = TRUE]
      \/ ~(Len(all) > MaxRecords) /\ r = [handle[h] EXCEPT !.records = all]
  BY Zenon DEF Recorded
<1>3. Len(all) \in Nat /\ MaxRecords \in Nat
  BY <1>1, LenProperties, IOAssumption
<1> HIDE DEF all, r
<1>4. handle[h] = [f \in HandleField |-> handle[h][f]]
  BY DEF Shapes
<1>5. \/ r.records = handle[h].records
      \/ r.records = << >>
      \/ ~(Len(all) > MaxRecords) /\ r.records = all
  BY <1>2, <1>4 DEF HandleField
<1>6. handle[h].records \in Seq(Named(handle[h].dir)) /\ Len(handle[h].records) <= MaxRecords
  BY DEF HandlesTyped
<1> DEFINE S == Named(handle[h].dir)
<1>7. all \in Seq(S) /\ handle[h].records \in Seq(S)
  BY <1>1, <1>6
<1> HIDE DEF S
<1>8. r.records \in Seq(S) /\ Len(r.records) <= MaxRecords
  <2> DEFINE b == handle[h].records
             c == r.records
  <2>1. b \in Seq(S) /\ Len(b) <= MaxRecords /\ (c = b \/ c = << >> \/ (~(Len(all) > MaxRecords) /\ c = all))
    BY <1>5, <1>6, <1>7
  <2>2. << >> \in Seq(S) /\ Len(<< >>) <= MaxRecords /\ (~(Len(all) > MaxRecords) => Len(all) <= MaxRecords)
    BY <1>3, EmptySeq
  <2> HIDE DEF b, c
  <2>3. c \in Seq(S) /\ Len(c) <= MaxRecords
    BY <1>7, <2>1, <2>2, Zenon
  <2> QED BY <2>3 DEF c
<1> QED BY <1>8 DEF r, S

\* The handles are as before, but for what they recorded and which are dead.
LEMMA HandlesKept ==
  ASSUME IInv, Typed, Handle' = Handle, UNCHANGED <<iocp, heap, lp, call, misused, m_renameInfo>>, UserTyped',
         \A h \in Handle : /\ handle'[h].dir = handle[h].dir /\ handle'[h].key = handle[h].key
                           /\ handle'[h].reads = handle[h].reads
                           /\ handle'[h].records \in Seq(Named(handle[h].dir)) /\ Len(handle'[h].records) <= MaxRecords
  PROVE  Typed'
<1> USE DEF Typed
<1>1. \A d : Named(d)' = Named(d)
  BY DEF Named
<1>2. HandlesTyped'
  BY <1>1 DEF HandlesTyped
<1>3. HeapTyped' /\ PortTyped'
  BY DEF HeapTyped, PortTyped
<1>4. CallsTyped'
  BY DEF CallsTyped, Opened, IInv, HandlesOwned
<1>5. Straight'
  BY <1>1 DEF Straight
<1> QED BY <1>2, <1>3, <1>4, <1>5

LEMMA OvertakenTyped ==
  ASSUME NEW p, NEW q
  PROVE  Overtaken(p, q) \cup Doubled(p, q) \subseteq Path
<1>1. Overtaken(p, q) \subseteq Path
  BY DEF Overtaken
<1>2. Inside(p) \subseteq Path /\ Inside(q) \subseteq Path
  BY DEF Inside, Below
<1> QED BY <1>1, <1>2 DEF Doubled

LEMMA RecordTyped ==
  ASSUME NEW action \in {"added", "modified", "removed", "old", "new"}, NEW p \in Path
  PROVE  Record(action, p) \in Change
BY DEF Record, Change

\* What a step does to the files, and the records it makes.
LEMMA StepRecords ==
  ASSUME UserTyped, NEW p \in Path, NEW q \in Path, Create(p) \/ Write(p) \/ Unlink(p) \/ Rename(p, q) \/ Move(p, q)
  PROVE  /\ DOMAIN fs' \subseteq Path /\ UNCHANGED iocp
         /\ \E records, unnoticed :
               /\ Changes(records, unnoticed) /\ unnoticed \subseteq Path
               /\ \A k \in DOMAIN records : records[k] \in Change
<1>0. DOMAIN fs \subseteq Path
  BY DEF UserTyped
<1>1. CASE Create(p)
  <2>1. DOMAIN fs' \subseteq Path /\ UNCHANGED iocp /\ Changes(<<Record("added", p)>>, {})
    BY <1>0, <1>1 DEF Create, With
  <2> QED BY <2>1, RecordTyped
<1>2. CASE Write(p)
  <2>1. DOMAIN fs' \subseteq Path /\ UNCHANGED iocp /\ Changes(<<Record("modified", p)>>, {})
    BY <1>0, <1>2 DEF Write
  <2> QED BY <2>1, RecordTyped
<1>3. CASE Unlink(p)
  <2>1. DOMAIN fs' \subseteq Path /\ UNCHANGED iocp /\ Changes(<<Record("removed", p)>>, {})
    BY <1>0, <1>3 DEF Unlink, Without, Restrict
  <2> QED BY <2>1, RecordTyped
<1>4. CASE Rename(p, q)
  <2> DEFINE a == IF q \in DOMAIN fs THEN <<Record("removed", q)>> ELSE << >>
             b == <<Record("old", p), Record("new", q)>>
  <2>1. UNCHANGED iocp /\ Changes(a \o b, Overtaken(p, q) \cup Doubled(p, q))
    BY <1>4 DEF Rename
  <2>2. \A k \in DOMAIN (a \o b) : (a \o b)[k] \in Change
    <3>1. a \in Seq(Change) /\ b \in Seq(Change)
      BY RecordTyped
    <3> HIDE DEF a, b
    <3>2. a \o b \in Seq(Change)
      BY <3>1, ConcatProperties
    <3> QED BY <3>2, ElementOfSeq
  <2>3. DOMAIN fs' \subseteq Path
    <3> DEFINE to == {Renamed(p, q, x) : x \in Tree(p)}
    <3>1. to \subseteq Path
      BY <1>4 DEF Rename
    <3>2. DOMAIN fs' = (DOMAIN fs \ Tree(p)) \cup to
      BY <1>4 DEF Rename
    <3> QED BY <1>0, <3>1, <3>2
  <2> QED BY <2>1, <2>2, <2>3, OvertakenTyped
<1>5. CASE Move(p, q)
  <2>1. DOMAIN fs' \subseteq Path /\ UNCHANGED iocp /\ Changes(<<Record("removed", p), Record("added", q)>>, {})
    BY <1>0, <1>5 DEF Move, With, Without, Restrict
  <2> QED BY <2>1, RecordTyped
<1> QED BY <1>1, <1>2, <1>3, <1>4, <1>5

LEMMA FilesTyped == ASSUME IInv, Typed, FsStep PROVE Typed'
<1> USE DEF Typed
<1>1. CASE \E p, q \in Path : Create(p) \/ Write(p) \/ Unlink(p) \/ Rename(p, q) \/ Move(p, q)
  <2>1. PICK records, unnoticed :
               /\ DOMAIN fs' \subseteq Path /\ UNCHANGED iocp
               /\ Changes(records, unnoticed) /\ unnoticed \subseteq Path
               /\ \A k \in DOMAIN records : records[k] \in Change
    BY <1>1, StepRecords
  <2>2. /\ handle' = Recorded(records)
        /\ UNCHANGED <<heap, m_watches, m_renameInfo, m_running, lp, call, registered, renamer, mirror, misused>>
        /\ missed' \subseteq missed \cup unnoticed \cup Path
    BY <2>1 DEF Changes
  <2>3. UserTyped'
    BY <2>1, <2>2 DEF UserTyped
  <2>4. Handle' = Handle
    BY <2>2, Zenon DEF Recorded, Handle
  <2>5. ASSUME NEW h \in Handle
        PROVE  /\ handle'[h].dir = handle[h].dir /\ handle'[h].key = handle[h].key
               /\ handle'[h].reads = handle[h].reads
               /\ handle'[h].records \in Seq(Named(handle[h].dir)) /\ Len(handle'[h].records) <= MaxRecords
    BY <2>1, <2>2, RecordedKeeps, RecordedTyped DEF IInv
  <2> QED BY <2>1, <2>2, <2>3, <2>4, <2>5, HandlesKept
<1>2. CASE \E r \in Root : UnlinkRoot(r)
  <2>1. PICK r \in Root : UnlinkRoot(r)
    BY <1>2
  <2> DEFINE records == <<Record("removed", r)>>
             w       == Recorded(records)
  <2>2. /\ handle' = Died(r, w) /\ fs' = Without(fs, {r})
        /\ UNCHANGED <<iocp, heap, m_watches, m_renameInfo, m_running, lp, call, registered, renamer, mirror, misused>>
        /\ missed' \subseteq missed \cup Path
    BY <2>1 DEF UnlinkRoot
  <2>3. UserTyped'
    BY <2>2 DEF UserTyped, Without, Restrict
  <2>4. \A k \in DOMAIN records : records[k] \in Change
    BY RecordTyped, RootAssumption
  <2>5. ASSUME NEW h \in Handle
        PROVE  /\ w[h] = [f \in HandleField |-> w[h][f]] /\ w[h].dir = handle[h].dir
               /\ w[h].key = handle[h].key /\ w[h].reads = handle[h].reads
               /\ w[h].records \in Seq(Named(handle[h].dir)) /\ Len(w[h].records) <= MaxRecords
    <3> HIDE DEF records
    <3> QED BY <2>4, RecordedKeeps, RecordedTyped DEF IInv
  <2>6. DOMAIN w = Handle
    BY Zenon DEF Recorded
  <2> HIDE DEF w
  <2>7. handle' = [h \in Handle |-> IF w[h].dir = r THEN [w[h] EXCEPT !.dead = TRUE, !.records = << >>]
                                    ELSE w[h]]
    BY <2>2, <2>6, Zenon DEF Died
  <2>8. Handle' = Handle
    BY <2>7, Zenon DEF Handle
  <2>9. ASSUME NEW h \in Handle
        PROVE  /\ handle'[h].dir = handle[h].dir /\ handle'[h].key = handle[h].key
               /\ handle'[h].reads = handle[h].reads
               /\ handle'[h].records \in Seq(Named(handle[h].dir)) /\ Len(handle'[h].records) <= MaxRecords
    <3>1. handle'[h] = [w[h] EXCEPT !.dead = TRUE, !.records = << >>] \/ handle'[h] = w[h]
      BY <2>7, Zenon
    <3>2. /\ handle'[h].dir = w[h].dir /\ handle'[h].key = w[h].key /\ handle'[h].reads = w[h].reads
          /\ handle'[h].records = w[h].records \/ handle'[h].records = << >>
      BY <2>5, <3>1 DEF HandleField
    <3>3. << >> \in Seq(Named(handle[h].dir)) /\ Len(<< >>) <= MaxRecords
      BY IOAssumption, EmptySeq
    <3>4. CASE handle'[h].records = w[h].records
      BY <2>5, <3>2, <3>4, Zenon
    <3>5. CASE handle'[h].records = << >>
      BY <2>5, <3>2, <3>3, <3>5, Zenon
    <3> QED BY <3>2, <3>4, <3>5
  <2> QED BY <2>2, <2>3, <2>8, <2>9, HandlesKept
<1> QED BY <1>1, <1>2, SMTT(30) DEF FsStep

-----------------------------------------------------------------------------
(* Reads complete, and the calls open and close handles.                    *)

LEMMA SubSeqTyped ==
  ASSUME NEW S, NEW s \in Seq(S), NEW n \in 1 .. Len(s)
  PROVE  /\ SubSeq(s, 1, n) \in Seq(S)
         /\ SubSeq(s, n + 1, Len(s)) \in Seq(S) /\ Len(SubSeq(s, n + 1, Len(s))) <= Len(s)
<1>1. Len(s) \in Nat /\ n \in Nat /\ n >= 1 /\ n <= Len(s)
  BY LenProperties
<1>2. \A i \in 1 .. Len(s) : s[i] \in S
  BY ElementOfSeq
<1>3. SubSeq(s, 1, n) \in Seq(S)
  <2>1. 1 \in Int /\ n \in Int /\ \A i \in 1 .. n : s[i] \in S
    BY <1>1, <1>2
  <2> QED BY <2>1, SubSeqProperties
<1>4. /\ SubSeq(s, n + 1, Len(s)) \in Seq(S)
      /\ Len(SubSeq(s, n + 1, Len(s))) = IF n + 1 <= Len(s) THEN Len(s) - (n + 1) + 1 ELSE 0
  <2>1. n + 1 \in Int /\ Len(s) \in Int /\ \A i \in n + 1 .. Len(s) : s[i] \in S
    BY <1>1, <1>2
  <2> QED BY <2>1, SubSeqProperties
<1> DEFINE l == Len(SubSeq(s, n + 1, Len(s)))
           t == SubSeq(s, n + 1, Len(s))
<1>5. l <= Len(s)
  <2>1. l = IF n + 1 <= Len(s) THEN Len(s) - (n + 1) + 1 ELSE 0
    BY <1>4
  <2> HIDE DEF l
  <2> QED BY <1>1, <2>1
<1> HIDE DEF l
<1> QED BY <1>3, <1>4, <1>5 DEF l

\* A packet comes to the port for an item that there is memory for, or for none.
LEMMA PortAppended ==
  ASSUME Shapes, PortTyped, DOMAIN heap' = DOMAIN heap, UNCHANGED lp,
         NEW p \in Packets, p.key \in DOMAIN heap \cup {NoKey}, iocp' = Append(iocp, p)
  PROVE  PortTyped'
<1>1. iocp \in Seq(Packets)
  BY DEF Shapes
<1>2. /\ iocp' \in Seq(Packets) /\ Len(iocp') = Len(iocp) + 1 /\ Len(iocp) \in Nat
      /\ \A i \in 1 .. Len(iocp) : iocp'[i] = iocp[i]
      /\ iocp'[Len(iocp) + 1] = p
  BY <1>1, AppendProperties, LenProperties
<1>3. DOMAIN iocp' = 1 .. Len(iocp) + 1 /\ DOMAIN iocp = 1 .. Len(iocp)
  BY <1>1, <1>2, LenProperties
<1>4. ASSUME NEW k \in DOMAIN iocp' PROVE iocp'[k].key \in DOMAIN heap' \cup {NoKey}
  <2>1. CASE k \in DOMAIN iocp
    BY <1>2, <1>3, <2>1 DEF PortTyped
  <2>2. CASE k \notin DOMAIN iocp
    <3>1. k = Len(iocp) + 1
      BY <1>2, <1>3, <2>2
    <3> QED BY <1>2, <3>1
  <2> QED BY <2>1, <2>2
<1> QED BY <1>4 DEF PortTyped

LEMMA CompletedTyped ==
  ASSUME IInv, Typed, NEW h \in Handle, Complete(h),
         UNCHANGED <<fs, m_watches, m_renameInfo, m_running, lp, call, userVars>>
  PROVE  Typed'
<1> USE DEF Typed
<1> DEFINE q == handle[h].reads
           b == handle[h].records
           S == Named(handle[h].dir)
<1>0. \A d : Named(d)' = Named(d)
  BY DEF Named
<1>1. /\ q \in Seq(Address) /\ q # << >> /\ handle[h].key # NoKey /\ handle[h].key \in DOMAIN heap
      /\ b \in Seq(S) /\ Len(b) <= MaxRecords
  BY DEF Complete, CanComplete, IInv, Shapes, HandlesTyped
<1>2. /\ Head(q) \in DOMAIN heap
      /\ \A k \in DOMAIN Tail(q) : k + 1 \in DOMAIN q /\ Tail(q)[k] = q[k + 1]
  <2>1. Head(q) = q[1] /\ 1 \in DOMAIN q
    BY <1>1
  <2>2. \A k \in DOMAIN Tail(q) : k + 1 \in DOMAIN q /\ Tail(q)[k] = q[k + 1]
    BY <1>1
  <2> QED BY <2>1, <2>2 DEF HandlesTyped
<1> DEFINE Same == \A g \in Handle : g # h => handle'[g] = handle[g]
           Now(rec) == /\ Handle' = Handle /\ Same
                       /\ handle'[h].dir = handle[h].dir /\ handle'[h].key = handle[h].key
                       /\ handle'[h].reads = Tail(q) /\ handle'[h].records = rec
<1>3. handle[h] = [f \in HandleField |-> handle[h][f]]
  BY DEF IInv, Shapes
<1> DEFINE m == [handle EXCEPT ![h].reads = Tail(@)]
<1>4. /\ DOMAIN m = Handle /\ m[h] = [handle[h] EXCEPT !.reads = Tail(q)]
      /\ \A g \in Handle : g # h => m[g] = handle[g]
  BY Zenon DEF Handle
<1>5. /\ m[h] = [f \in HandleField |-> m[h][f]]
      /\ m[h].dir = handle[h].dir /\ m[h].key = handle[h].key /\ m[h].reads = Tail(q) /\ m[h].records = b
  <2> HIDE DEF m, q
  <2> QED BY <1>3, <1>4 DEF HandleField
<1>6. ASSUME NEW x, handle' = [m EXCEPT ![h].lost = x] PROVE Now(b)
  <2>1. handle' = [m EXCEPT ![h] = [m[h] EXCEPT !.lost = x]]
    BY <1>6, Zenon
  <2> HIDE DEF m, q, b
  <2>2. /\ DOMAIN handle' = Handle /\ handle'[h] = [m[h] EXCEPT !.lost = x]
        /\ \A g \in Handle : g # h => handle'[g] = m[g]
    BY <1>4, <2>1, Zenon
  <2>3. /\ handle'[h].dir = handle[h].dir /\ handle'[h].key = handle[h].key
        /\ handle'[h].reads = Tail(q) /\ handle'[h].records = b
    BY <1>5, <2>2 DEF HandleField
  <2>4. Handle' = Handle
    BY <2>2, Zenon DEF Handle
  <2> QED BY <1>4, <2>2, <2>3, <2>4
<1>7. ASSUME NEW x, handle' = [m EXCEPT ![h].records = x] PROVE Now(x)
  <2>1. handle' = [m EXCEPT ![h] = [m[h] EXCEPT !.records = x]]
    BY <1>7, Zenon
  <2> HIDE DEF m, q, b
  <2>2. /\ DOMAIN handle' = Handle /\ handle'[h] = [m[h] EXCEPT !.records = x]
        /\ \A g \in Handle : g # h => handle'[g] = m[g]
    BY <1>4, <2>1, Zenon
  <2>3. /\ handle'[h].dir = handle[h].dir /\ handle'[h].key = handle[h].key
        /\ handle'[h].reads = Tail(q) /\ handle'[h].records = x
    BY <1>5, <2>2 DEF HandleField
  <2>4. Handle' = Handle
    BY <2>2, Zenon DEF Handle
  <2> QED BY <1>4, <2>2, <2>3, <2>4
<1>8. \/ /\ Now(b) /\ UNCHANGED heap
         /\ \E p \in Packets : p.key = handle[h].key /\ iocp' = Append(iocp, p)
      \/ \E n \in 1 .. Len(b) :
            /\ Now(SubSeq(b, n + 1, Len(b))) /\ heap' = [heap EXCEPT ![Head(q)].buffer = SubSeq(b, 1, n)]
            /\ \E p \in Packets : p.key = handle[h].key /\ iocp' = Append(iocp, p)
  <2>0. \A ok \in BOOLEAN, n \in Nat : LET p == Packet(handle[h].key, ok, n) IN p \in Packets /\ p.key = handle[h].key
    BY DEF Packet, Packets, IInv, Shapes
  <2>1. CASE /\ iocp' = Append(iocp, Packet(handle[h].key, ~handle[h].dead, 0))
             /\ handle' = [handle EXCEPT ![h].reads = Tail(@), ![h].lost = FALSE]
             /\ UNCHANGED heap
    <3>1. handle' = [m EXCEPT ![h].lost = FALSE]
      BY <2>1, Zenon
    <3>2. Now(b)
      BY <1>6, <3>1, Zenon
    <3>3. (~handle[h].dead) \in BOOLEAN /\ 0 \in Nat
      OBVIOUS
    <3> HIDE DEF Now, q, b
    <3> QED BY <2>0, <2>1, <3>2, <3>3
  <2>2. CASE \E n \in 1 .. Len(b) :
             /\ heap' = [heap EXCEPT ![Head(q)].buffer = SubSeq(b, 1, n)]
             /\ iocp' = Append(iocp, Packet(handle[h].key, TRUE, n))
             /\ handle' = [handle EXCEPT ![h].reads = Tail(@), ![h].records = SubSeq(@, n + 1, Len(@))]
    <3>1. PICK n \in 1 .. Len(b) :
             /\ heap' = [heap EXCEPT ![Head(q)].buffer = SubSeq(b, 1, n)]
             /\ iocp' = Append(iocp, Packet(handle[h].key, TRUE, n))
             /\ handle' = [handle EXCEPT ![h].reads = Tail(@), ![h].records = SubSeq(@, n + 1, Len(@))]
      BY <2>2
    <3>2. handle' = [m EXCEPT ![h].records = SubSeq(m[h].records, n + 1, Len(m[h].records))]
      BY <3>1, Zenon
    <3>3. handle' = [m EXCEPT ![h].records = SubSeq(b, n + 1, Len(b))]
      BY <1>5, <3>2, Zenon
    <3>4. Now(SubSeq(b, n + 1, Len(b)))
      BY <1>7, <3>3, Zenon
    <3>5. TRUE \in BOOLEAN /\ n \in Nat
      BY <1>1, LenProperties
    <3> HIDE DEF Now, q, b
    <3> QED BY <2>0, <3>1, <3>4, <3>5
  <2> QED BY <2>1, <2>2, Zenon DEF Complete
<1> HIDE DEF m
<1>9. PICK rec :
        /\ Now(rec) /\ rec \in Seq(S) /\ Len(rec) <= MaxRecords
        /\ \E p \in Packets : p.key = handle[h].key /\ iocp' = Append(iocp, p)
        /\ heap' = heap \/ \E s \in Seq(S) : heap' = [heap EXCEPT ![Head(q)].buffer = s]
  <2> HIDE DEF Now, q, b, S
  <2>1. CASE /\ Now(b) /\ UNCHANGED heap
             /\ \E p \in Packets : p.key = handle[h].key /\ iocp' = Append(iocp, p)
    BY <1>1, <2>1, Zenon
  <2>2. CASE \E n \in 1 .. Len(b) :
               /\ Now(SubSeq(b, n + 1, Len(b))) /\ heap' = [heap EXCEPT ![Head(q)].buffer = SubSeq(b, 1, n)]
               /\ \E p \in Packets : p.key = handle[h].key /\ iocp' = Append(iocp, p)
    <3>1. PICK n \in 1 .. Len(b) :
               /\ Now(SubSeq(b, n + 1, Len(b))) /\ heap' = [heap EXCEPT ![Head(q)].buffer = SubSeq(b, 1, n)]
               /\ \E p \in Packets : p.key = handle[h].key /\ iocp' = Append(iocp, p)
      BY <2>2
    <3> DEFINE c == SubSeq(b, n + 1, Len(b))
    <3>2. SubSeq(b, 1, n) \in Seq(S) /\ c \in Seq(S) /\ Len(c) <= Len(b)
      BY <1>1, SubSeqTyped
    <3>3. Len(c) <= MaxRecords
      <4>1. Len(b) \in Nat /\ Len(c) \in Nat /\ MaxRecords \in Nat
        BY <1>1, <3>2, LenProperties, IOAssumption
      <4> HIDE DEF c
      <4> QED BY <1>1, <3>2, <4>1
    <3> QED BY <3>1, <3>2, <3>3, Zenon
  <2> QED BY <1>8, <2>1, <2>2
<1>10. /\ DOMAIN heap' = DOMAIN heap
       /\ \A a \in DOMAIN heap : /\ heap'[a].path = heap[a].path /\ heap'[a].hDir = heap[a].hDir
                                 /\ heap'[a].buffer = heap[a].buffer \/ (a = Head(q) /\ heap'[a].buffer \in Seq(S))
  <2>1. CASE heap' = heap
    BY <2>1
  <2>2. CASE \E s \in Seq(S) : heap' = [heap EXCEPT ![Head(q)].buffer = s]
    <3>1. PICK s \in Seq(S) : heap' = [heap EXCEPT ![Head(q)].buffer = s]
      BY <2>2
    <3>2. heap[Head(q)] = [f \in ItemField |-> heap[Head(q)][f]]
      BY <1>2 DEF IInv, Shapes
    <3> HIDE DEF q, S
    <3>3. /\ DOMAIN heap' = DOMAIN heap /\ heap'[Head(q)] = [heap[Head(q)] EXCEPT !.buffer = s]
          /\ \A a \in DOMAIN heap : a # Head(q) => heap'[a] = heap[a]
      BY <1>2, <3>1, Zenon
    <3>4. /\ heap'[Head(q)].path = heap[Head(q)].path /\ heap'[Head(q)].hDir = heap[Head(q)].hDir
          /\ heap'[Head(q)].buffer = s
      BY <3>2, <3>3 DEF ItemField
    <3> QED BY <3>3, <3>4, Zenon
  <2> QED BY <1>9, <2>1, <2>2
<1>11. S \subseteq Noted
  BY DEF Named
<1>12. HandlesTyped'
  <2> SUFFICES ASSUME NEW g \in Handle
               PROVE  /\ handle'[g].dir \in Path /\ handle'[g].key \in DOMAIN heap \cup {NoKey}
                      /\ \A k \in DOMAIN handle'[g].reads : handle'[g].reads[k] \in DOMAIN heap
                      /\ handle'[g].records \in Seq(Named(handle'[g].dir)) /\ Len(handle'[g].records) <= MaxRecords
    BY <1>0, <1>9, <1>10 DEF HandlesTyped
  <2>1. CASE g # h
    BY <1>9, <2>1 DEF HandlesTyped
  <2>2. CASE g = h
    <3>1. \A k \in DOMAIN Tail(q) : Tail(q)[k] \in DOMAIN heap
      BY <1>2 DEF HandlesTyped
    <3>2. /\ handle'[g].dir = handle[h].dir /\ handle'[g].key = handle[h].key
          /\ handle'[g].reads = Tail(q) /\ handle'[g].records = rec
      BY <1>9, <2>2
    <3>3. rec \in Seq(Named(handle[h].dir)) /\ Len(rec) <= MaxRecords
      BY <1>9
    <3> HIDE DEF q
    <3>4. \A k \in DOMAIN handle'[g].reads : handle'[g].reads[k] \in DOMAIN heap
      BY <3>1, <3>2
    <3>5. handle'[g].records \in Seq(Named(handle'[g].dir)) /\ Len(handle'[g].records) <= MaxRecords
      BY <3>2, <3>3, Zenon
    <3> QED BY <3>2, <3>4, <3>5 DEF HandlesTyped
  <2> QED BY <2>1, <2>2
<1>13. HeapTyped'
  <2> SUFFICES ASSUME NEW a \in DOMAIN heap PROVE heap'[a].buffer \in Seq(Noted)
    BY <1>10 DEF HeapTyped
  <2>1. Seq(S) \subseteq Seq(Noted)
    BY <1>11
  <2> QED BY <1>10, <2>1 DEF HeapTyped
<1>14. PortTyped'
  BY <1>1, <1>9, <1>10, PortAppended DEF IInv
<1>15. CallsTyped'
  <2>1. \A th \in Thread : Opened(th) => call[th].h \in Handle
    BY DEF IInv, HandlesOwned
  <2>2. \A g \in Handle : handle'[g].dir = handle[g].dir
    BY <1>9
  <2> QED BY <2>1, <2>2 DEF CallsTyped, Opened
<1>16. UserTyped'
  BY DEF UserTyped, userVars
<1>17. Straight'
  <2> SUFFICES ASSUME misused = {} PROVE Straight'
    BY DEF Straight, userVars
  <2>1. ASSUME NEW g \in Handle
        PROVE  /\ \A k \in DOMAIN handle'[g].reads : handle'[g].reads[k] = handle'[g].key
               /\ handle'[g].key # NoKey => heap'[handle'[g].key].path = handle'[g].dir
    <3>1. CASE g # h
      BY <1>9, <1>10, <3>1 DEF Straight, HandlesTyped
    <3>2. CASE g = h
      <4>1. /\ \A k \in DOMAIN Tail(q) : Tail(q)[k] = handle[h].key
            /\ heap[handle[h].key].path = handle[h].dir
        BY <1>1, <1>2 DEF Straight
      <4>2. /\ handle'[g].dir = handle[h].dir /\ handle'[g].key = handle[h].key
            /\ handle'[g].reads = Tail(q)
        BY <1>9, <3>2
      <4> HIDE DEF q
      <4> QED BY <1>1, <1>10, <4>1, <4>2
    <3> QED BY <3>1, <3>2
  <2>2. ASSUME NEW a \in DOMAIN heap PROVE heap'[a].buffer \in Seq(Named(heap'[a].path))
    <3>1. CASE heap'[a].buffer = heap[a].buffer
      BY <1>10, <3>1 DEF Straight
    <3>2. CASE a = Head(q) /\ heap'[a].buffer \in Seq(S)
      <4>1. Head(q) = q[1] /\ 1 \in DOMAIN q
        BY <1>1
      <4>2. a = handle[h].key /\ heap[a].path = handle[h].dir
        BY <1>1, <3>2, <4>1 DEF Straight
      <4> QED BY <1>10, <3>2, <4>2
    <3> QED BY <1>10, <3>1, <3>2
  <2> QED BY <1>0, <1>9, <1>10, <2>1, <2>2 DEF Straight, userVars
<1> QED BY <1>12, <1>13, <1>14, <1>15, <1>16, <1>17

\* The tables are as before, or less; which m_renameInfo there is, is for the step to say.
LEMMA TablesKept ==
  ASSUME IInv, Typed, Handle' \subseteq Handle, DOMAIN heap' = DOMAIN heap,
         \A h \in Handle' : /\ handle'[h].dir = handle[h].dir /\ handle'[h].key = handle[h].key
                            /\ handle'[h].records = handle[h].records
                            /\ \A k \in DOMAIN handle'[h].reads :
                                  \E j \in DOMAIN handle[h].reads : handle'[h].reads[k] = handle[h].reads[j],
         \A a \in DOMAIN heap : /\ heap'[a].path = heap[a].path /\ heap'[a].buffer = heap[a].buffer
                                /\ heap'[a].hDir \in 0 .. MaxHandle,
         PortTyped', CallsTyped', UserTyped', misused' = misused,
         misused = {} => m_renameInfo' \in Path \cup {<< >>}
  PROVE  Typed'
<1> USE DEF Typed
<1>1. \A d : Named(d)' = Named(d)
  BY DEF Named
<1>2. HandlesTyped'
  <2> SUFFICES ASSUME NEW h \in Handle'
               PROVE  /\ handle'[h].dir \in Path /\ handle'[h].key \in DOMAIN heap' \cup {NoKey}
                      /\ \A k \in DOMAIN handle'[h].reads : handle'[h].reads[k] \in DOMAIN heap'
                      /\ handle'[h].records \in Seq(Named(handle'[h].dir)) /\ Len(handle'[h].records) <= MaxRecords
    BY <1>1 DEF HandlesTyped
  <2>1. /\ handle[h].dir \in Path /\ handle[h].key \in DOMAIN heap \cup {NoKey}
        /\ \A k \in DOMAIN handle[h].reads : handle[h].reads[k] \in DOMAIN heap
        /\ handle[h].records \in Seq(Named(handle[h].dir)) /\ Len(handle[h].records) <= MaxRecords
    BY DEF HandlesTyped
  <2> QED BY <2>1
<1>3. HeapTyped'
  BY DEF HeapTyped, Noted
<1>4. Straight'
  <2> SUFFICES ASSUME misused = {} PROVE Straight'
    BY DEF Straight
  <2>1. ASSUME NEW h \in Handle'
        PROVE  /\ \A k \in DOMAIN handle'[h].reads : handle'[h].reads[k] = handle'[h].key
               /\ handle'[h].key # NoKey => heap'[handle'[h].key].path = handle'[h].dir
    <3>1. h \in Handle /\ handle[h].key \in DOMAIN heap \cup {NoKey}
      BY DEF HandlesTyped
    <3>2. /\ \A k \in DOMAIN handle[h].reads : handle[h].reads[k] = handle[h].key
          /\ handle[h].key # NoKey => heap[handle[h].key].path = handle[h].dir
      BY <3>1 DEF Straight
    <3> QED BY <3>1, <3>2
  <2>2. ASSUME NEW a \in DOMAIN heap PROVE heap'[a].buffer \in Seq(Named(heap'[a].path))
    BY DEF Straight
  <2> QED BY <1>1, <2>1, <2>2 DEF Straight
<1> QED BY <1>2, <1>3, <1>4

\* The same, when only the loop, the calls or the history went on.
LEMMA OnlyMoves ==
  ASSUME IInv, Typed, UNCHANGED <<handle, heap, misused>>, PortTyped', CallsTyped', UserTyped',
         misused = {} => m_renameInfo' \in Path \cup {<< >>}
  PROVE  Typed'
<1>1. Handle' = Handle
  BY DEF Handle
<1>2. \A a \in DOMAIN heap : heap[a].hDir \in 0 .. MaxHandle
  BY DEF Typed, HeapTyped
<1>3. \A h \in Handle : \A k \in DOMAIN handle[h].reads :
         \E j \in DOMAIN handle[h].reads : handle[h].reads[k] = handle[h].reads[j]
  OBVIOUS
<1> QED BY <1>1, <1>2, <1>3, TablesKept

\* A call moves on; the directories of the handles that other calls opened stay.
LEMMA CallTyped ==
  ASSUME IInv, CallsTyped, NEW th \in Thread, NEW c, Becomes(th, c),
         c.at \in {"add", "opened", "remove"} => c.root \in Root,
         c.at = "opened" => handle'[c.h].dir = c.root,
         \A t \in Thread \ {th} : Opened(t) => handle'[call[t].h].dir = handle[call[t].h].dir
  PROVE  CallsTyped'
<1>1. call'[th] = c /\ \A t \in Thread \ {th} : call'[t] = call[t]
  BY Became DEF IInv
<1> SUFFICES ASSUME NEW t \in Thread, call'[t].at \in {"add", "opened", "remove"}
             PROVE  call'[t].root \in Root /\ (Opened(t)' => handle'[call'[t].h].dir = call'[t].root)
  BY DEF CallsTyped
<1>2. CASE t = th
  BY <1>1, <1>2 DEF Opened
<1>3. CASE t # th
  BY <1>1, <1>3 DEF CallsTyped, Opened
<1> QED BY <1>2, <1>3

LEMMA PortRepeated ==
  ASSUME Shapes, PortTyped, DOMAIN heap' = DOMAIN heap, UNCHANGED lp,
         NEW p \in Packets, p.key \in DOMAIN heap \cup {NoKey}, NEW n \in Nat,
         iocp' = iocp \o [k \in 1 .. n |-> p]
  PROVE  PortTyped'
<1> DEFINE c == [k \in 1 .. n |-> p]
<1>1. iocp \in Seq(Packets) /\ Len(iocp) \in Nat /\ DOMAIN iocp = 1 .. Len(iocp)
  BY LenProperties DEF Shapes
<1>2. c \in Seq(Packets) /\ Len(c) = n /\ \A k \in 1 .. n : c[k] = p
  <2>1. c \in [1 .. n -> Packets]
    OBVIOUS
  <2>2. c \in Seq(Packets)
    BY <2>1, SeqDef
  <2>3. DOMAIN c = 1 .. n /\ DOMAIN c = 1 .. Len(c) /\ Len(c) \in Nat
    BY <2>2, LenProperties
  <2>4. \A k \in 1 .. n : c[k] = p
    OBVIOUS
  <2> HIDE DEF c
  <2> QED BY <2>2, <2>3, <2>4
<1>3. iocp' = iocp \o c
  OBVIOUS
<1> HIDE DEF c
<1>4. /\ iocp' \in Seq(Packets) /\ Len(iocp') = Len(iocp) + n
      /\ \A i \in 1 .. Len(iocp) + n : iocp'[i] = IF i <= Len(iocp) THEN iocp[i] ELSE c[i - Len(iocp)]
  BY <1>1, <1>2, <1>3, ConcatProperties
<1>5. DOMAIN iocp' = 1 .. Len(iocp) + n
  BY <1>4, LenProperties
<1>6. ASSUME NEW k \in DOMAIN iocp' PROVE iocp'[k].key \in DOMAIN heap' \cup {NoKey}
  <2>1. CASE k <= Len(iocp)
    <3>1. k \in DOMAIN iocp /\ iocp'[k] = iocp[k]
      BY <1>1, <1>4, <1>5, <2>1
    <3> QED BY <3>1 DEF PortTyped
  <2>2. CASE ~(k <= Len(iocp))
    <3>1. k - Len(iocp) \in 1 .. n
      BY <1>1, <1>5, <2>2
    <3>2. iocp'[k] = p
      BY <1>2, <1>4, <1>5, <2>2, <3>1
    <3> QED BY <3>2
  <2> QED BY <2>1, <2>2
<1> QED BY <1>6 DEF PortTyped

\* A handle is closed that no call has opened, or that of the call itself.
LEMMA HandleClosed ==
  ASSUME IInv, Typed, NEW h \in Handle, handle' = Without(handle, {h}),
         UNCHANGED <<heap, misused, m_renameInfo>>, PortTyped', CallsTyped', UserTyped'
  PROVE  Typed'
<1>1. Handle' = Handle \ {h} /\ \A g \in Handle \ {h} : handle'[g] = handle[g]
  BY DEF Without, Restrict, Handle
<1>2. \A a \in DOMAIN heap : heap[a].hDir \in 0 .. MaxHandle
  BY DEF Typed, HeapTyped
<1>3. \A g \in Handle : \A k \in DOMAIN handle[g].reads :
         \E j \in DOMAIN handle[g].reads : handle[g].reads[k] = handle[g].reads[j]
  OBVIOUS
<1>4. misused = {} => m_renameInfo \in Path \cup {<< >>}
  BY DEF Typed, Straight
<1> QED BY <1>1, <1>2, <1>3, <1>4, TablesKept

-----------------------------------------------------------------------------
(* Steps of the calls keep it.                                              *)

LEMMA DirectoryOpensTyped == ASSUME IInv, Typed, NEW th \in Thread, OpenDirectory(th) PROVE Typed'
<1> USE DEF Typed
<1> DEFINE n == NewHandle
           r == call[th].root
<1>1. n \in (1 .. MaxHandle) \ Handle
  <2>1. \E x \in (1 .. MaxHandle) \ Handle : TRUE
    BY DEF OpenDirectory, Open, IInv, Shapes
  <2> QED BY <2>1, Zenon DEF NewHandle
<1> HIDE DEF n
<1>2. /\ UNCHANGED <<fs, iocp, heap, m_watches, m_renameInfo, m_running, lp, userVars>>
      /\ r \in Path
  BY RootAssumption DEF OpenDirectory, CallsTyped
<1>3. /\ Handle' = Handle \cup {n} /\ \A g \in Handle : handle'[g] = handle[g]
      /\ handle'[n].dir = r /\ handle'[n].key = NoKey /\ handle'[n].reads = << >> /\ handle'[n].records = << >>
  BY <1>1 DEF OpenDirectory, Open, With, Handle, n
<1>4. \A d : Named(d)' = Named(d)
  BY DEF Named
<1>5. HandlesTyped'
  <2>1. << >> \in Seq(Named(r)) /\ Len(<< >>) <= MaxRecords
    BY EmptySeq, IOAssumption
  <2>2. ASSUME NEW g \in Handle'
        PROVE  /\ handle'[g].dir \in Path /\ handle'[g].key \in DOMAIN heap \cup {NoKey}
               /\ \A k \in DOMAIN handle'[g].reads : handle'[g].reads[k] \in DOMAIN heap
               /\ handle'[g].records \in Seq(Named(handle'[g].dir)) /\ Len(handle'[g].records) <= MaxRecords
    <3>1. CASE g = n
      <4>1. \A k \in DOMAIN << >> : FALSE
        OBVIOUS
      <4> QED BY <1>2, <1>3, <2>1, <3>1, <4>1
    <3>2. CASE g # n
      BY <1>3, <3>2 DEF HandlesTyped
    <3> QED BY <3>1, <3>2
  <2> QED BY <1>2, <1>4, <2>2 DEF HandlesTyped
<1>6. HeapTyped' /\ PortTyped' /\ UserTyped'
  BY <1>2 DEF HeapTyped, Noted, PortTyped, UserTyped, userVars
<1>7. CallsTyped'
  <2> DEFINE c == [at |-> "opened", root |-> r, h |-> n]
  <2>1. Becomes(th, c)
    BY DEF OpenDirectory, n
  <2>2. c.at = "opened" /\ c.root = r /\ c.h = n /\ r \in Root
    BY DEF OpenDirectory, CallsTyped
  <2>3. \A t \in Thread \ {th} : Opened(t) => handle'[call[t].h].dir = handle[call[t].h].dir
    BY <1>3 DEF IInv, HandlesOwned
  <2> HIDE DEF c, r
  <2> QED BY <1>3, <2>1, <2>2, <2>3, CallTyped
<1>8. Straight'
  <2> SUFFICES ASSUME misused = {} PROVE Straight'
    BY <1>2 DEF Straight, userVars
  <2>1. ASSUME NEW g \in Handle'
        PROVE  /\ \A k \in DOMAIN handle'[g].reads : handle'[g].reads[k] = handle'[g].key
               /\ handle'[g].key # NoKey => heap[handle'[g].key].path = handle'[g].dir
    <3>1. CASE g = n
      <4>1. \A k \in DOMAIN << >> : FALSE
        OBVIOUS
      <4> QED BY <1>3, <3>1, <4>1
    <3>2. CASE g # n
      BY <1>3, <3>2 DEF Straight
    <3> QED BY <3>1, <3>2
  <2> QED BY <1>2, <1>4, <2>1 DEF Straight
<1> QED BY <1>5, <1>6, <1>7, <1>8

LEMMA ReadRefusedTyped == ASSUME IInv, Typed, NEW th \in Thread, ReadFails(th) PROVE Typed'
<1> DEFINE h == call[th].h
<1>1. /\ UNCHANGED <<fs, iocp, heap, m_watches, m_renameInfo, m_running, lp, renamer, mirror, missed, misused>>
      /\ Opened(th) /\ h \in Handle /\ handle' = Without(handle, {h}) /\ registered' \subseteq registered
      /\ Becomes(th, Idle)
  BY DEF ReadFails, IInv, HandlesOwned, Opened
<1>2. PortTyped' /\ UserTyped'
  BY <1>1 DEF Typed, PortTyped, UserTyped
<1>3. CallsTyped'
  <2>1. \A t \in Thread \ {th} : Opened(t) => call[t].h # h /\ call[t].h \in Handle
    BY <1>1 DEF IInv, HandlesOwned
  <2>2. \A g \in Handle \ {h} : handle'[g] = handle[g]
    BY <1>1 DEF Without, Restrict, Handle
  <2>3. Idle.at \notin {"add", "opened", "remove"}
    BY DEF Idle
  <2> QED BY <1>1, <2>1, <2>2, <2>3, CallTyped DEF Typed
<1> HIDE DEF h
<1> QED BY <1>1, <1>2, <1>3, HandleClosed

LEMMA ItemErasedTyped == ASSUME IInv, Typed, NEW th \in Thread, EraseItem(th) PROVE Typed'
<1> DEFINE r == call[th].root
           c == IF r \in DOMAIN m_watches THEN [at |-> "cancel", item |-> m_watches[r]] ELSE Idle
<1>1. /\ UNCHANGED <<fs, ioVars, m_renameInfo, m_running, lp, userVars>> /\ Becomes(th, c)
      /\ DOMAIN m_watches' \subseteq DOMAIN m_watches
  BY DEF EraseItem, Without, Restrict
<1>2. c.at \notin {"add", "opened", "remove"}
  BY DEF Idle
<1> HIDE DEF c
<1>3. CallsTyped'
  BY <1>1, <1>2, CallTyped DEF Typed, ioVars
<1>4. PortTyped' /\ UserTyped'
  BY <1>1 DEF Typed, PortTyped, UserTyped, userVars, ioVars
<1>5. misused = {} => m_renameInfo \in Path \cup {<< >>}
  BY DEF Typed, Straight
<1> QED BY <1>1, <1>3, <1>4, <1>5, OnlyMoves DEF ioVars, userVars

LEMMA ReadCancelledTyped == ASSUME IInv, Typed, NEW th \in Thread, CancelRead(th) PROVE Typed'
<1> DEFINE a == call[th].item
           h == heap[a].hDir
           q == handle[h].reads
           ours == {k \in DOMAIN q : q[k] = a}
           n == Cardinality(ours)
           p == Packet(a, FALSE, 0)
<1>1. /\ UNCHANGED <<fs, heap, m_watches, m_renameInfo, m_running, lp, userVars>>
      /\ Closing(th) /\ a \in Owner
      /\ Becomes(th, [call[th] EXCEPT !.at = "close"])
  BY DEF CancelRead, Closing, Owner
<1>2. h \in Handle /\ handle[h].key = a /\ q \in Seq(Address) /\ a \in Address /\ a \in DOMAIN heap
  BY <1>1, Owned DEF IInv, HandlesOwned, Shapes
<1>3. n \in Nat
  <2> HIDE DEF q, a
  <2> QED BY <1>2, ReadsOfOne
<1>4. iocp' = iocp \o [k \in 1 .. n |-> p] /\ p \in Packets /\ p.key = a
  <2>1. iocp' = iocp \o [k \in 1 .. n |-> Packet(handle[h].key, FALSE, 0)]
    BY Zenon DEF CancelRead, CancelIoEx, Aborted
  <2> HIDE DEF n, a, h
  <2> QED BY <1>2, <2>1 DEF Packet, Packets
<1>5. PICK at \in [1 .. Cardinality(DOMAIN q \ ours) -> DOMAIN q \ ours] :
         handle' = [handle EXCEPT ![h].reads = [k \in DOMAIN at |-> q[at[k]]]]
  BY Zenon DEF CancelRead, CancelIoEx
<1> DEFINE s == [k \in DOMAIN at |-> q[at[k]]]
<1>6. \A k \in DOMAIN s : \E j \in DOMAIN q : s[k] = q[j]
  <2>1. \A k \in DOMAIN at : at[k] \in DOMAIN q \ ours
    <3> DEFINE m == Cardinality(DOMAIN q \ ours)
               D == DOMAIN q \ ours
    <3>1. at \in [1 .. m -> D]
      BY <1>5, Zenon
    <3> HIDE DEF m, D
    <3>2. \A k \in DOMAIN at : at[k] \in D
      BY <3>1
    <3> QED BY <3>2, Zenon DEF D
  <2> QED BY <2>1, Zenon
<1>7. /\ Handle' = Handle /\ \A g \in Handle \ {h} : handle'[g] = handle[g]
      /\ handle'[h].key = handle[h].key /\ handle'[h].dir = handle[h].dir
      /\ handle'[h].records = handle[h].records /\ handle'[h].reads = s
  <2>1. handle' = [handle EXCEPT ![h].reads = s]
    BY <1>5, Zenon
  <2> HIDE DEF s, h
  <2>2. /\ DOMAIN handle' = Handle /\ handle'[h] = [handle[h] EXCEPT !.reads = s]
        /\ \A g \in Handle \ {h} : handle'[g] = handle[g]
    BY <1>2, <2>1, Zenon DEF Handle
  <2>3. handle[h] = [f \in HandleField |-> handle[h][f]]
    BY <1>2 DEF IInv, Shapes
  <2>4. /\ handle'[h].key = handle[h].key /\ handle'[h].dir = handle[h].dir
        /\ handle'[h].records = handle[h].records /\ handle'[h].reads = s
    BY <2>2, <2>3 DEF HandleField
  <2> QED BY <2>2, <2>4, Zenon DEF Handle
<1>8. \A g \in Handle : \A k \in DOMAIN handle'[g].reads :
         \E j \in DOMAIN handle[g].reads : handle'[g].reads[k] = handle[g].reads[j]
  <2> SUFFICES ASSUME NEW g \in Handle, NEW k \in DOMAIN handle'[g].reads
               PROVE  \E j \in DOMAIN handle[g].reads : handle'[g].reads[k] = handle[g].reads[j]
    OBVIOUS
  <2>1. CASE g = h
    <3>1. handle'[g].reads = s
      BY <1>7, <2>1
    <3> HIDE DEF s
    <3>2. k \in DOMAIN s
      BY <3>1
    <3> QED BY <1>6, <2>1, <3>1, <3>2
  <2>2. CASE g # h
    <3>1. handle'[g] = handle[g]
      BY <1>7, <2>2
    <3> QED BY <3>1
  <2> QED BY <2>1, <2>2
<1> HIDE DEF s, q, n, p
<1>9. \A g \in Handle : /\ handle'[g].dir = handle[g].dir /\ handle'[g].key = handle[g].key
                        /\ handle'[g].records = handle[g].records
  <2> SUFFICES ASSUME NEW g \in Handle
               PROVE  /\ handle'[g].dir = handle[g].dir /\ handle'[g].key = handle[g].key
                      /\ handle'[g].records = handle[g].records
    OBVIOUS
  <2>1. CASE g = h
    BY <1>7, <2>1
  <2>2. CASE g # h
    BY <1>7, <2>2
  <2> QED BY <2>1, <2>2
<1>10. PortTyped' /\ UserTyped'
  <2>1. PortTyped'
    BY <1>1, <1>2, <1>3, <1>4, PortRepeated DEF Typed, IInv
  <2> QED BY <1>1, <2>1 DEF Typed, UserTyped, userVars
<1>11. CallsTyped'
  <2> DEFINE c == [call[th] EXCEPT !.at = "close"]
  <2>1. c.at = "close"
    <3>1. call[th] = [at |-> call[th].at, item |-> a]
      BY <1>1 DEF IInv, ItemsApart, Holding, Closing
    <3> HIDE DEF a
    <3> QED BY <3>1
  <2>2. \A t \in Thread \ {th} : Opened(t) => handle'[call[t].h].dir = handle[call[t].h].dir
    BY <1>9 DEF IInv, HandlesOwned
  <2>3. Becomes(th, c)
    BY <1>1
  <2> HIDE DEF c
  <2> QED BY <2>1, <2>2, <2>3, CallTyped DEF Typed
<1>12. \A b \in DOMAIN heap : heap'[b] = heap[b] /\ heap[b].hDir \in 0 .. MaxHandle
  BY <1>1 DEF Typed, HeapTyped
<1>13. misused = {} => m_renameInfo \in Path \cup {<< >>}
  BY DEF Typed, Straight
<1> QED BY <1>1, <1>7, <1>8, <1>9, <1>10, <1>11, <1>12, <1>13, TablesKept DEF userVars

LEMMA ItemClosedTyped == ASSUME IInv, Typed, NEW th \in Thread, CloseItem(th) PROVE Typed'
<1> DEFINE a == call[th].item
           h == heap[a].hDir
           n == Len(handle[h].reads)
           p == Packet(a, TRUE, 0)
<1>1. /\ UNCHANGED <<fs, heap, m_watches, m_renameInfo, m_running, lp, registered, renamer, mirror, misused>>
      /\ Closing(th) /\ a \in Owner /\ missed' = missed \cup Below(Unread(h))
      /\ Becomes(th, [call[th] EXCEPT !.at = "forget"])
  BY Zenon DEF CloseItem, Closing, Owner
<1>2. h \in Handle /\ handle[h].key = a /\ handle[h].reads \in Seq(Address) /\ a \in Address /\ a \in DOMAIN heap
  BY <1>1, Owned DEF IInv, HandlesOwned, Shapes
<1>3. n \in Nat
  BY <1>2, LenProperties
<1>4. iocp' = iocp \o [k \in 1 .. n |-> p] /\ p \in Packets /\ p.key = a
  <2>1. iocp' = iocp \o [k \in 1 .. n |-> Packet(handle[h].key, TRUE, 0)]
    BY Zenon DEF CloseItem, CloseHandle, Aborted
  <2> HIDE DEF n, a, h
  <2> QED BY <1>2, <2>1 DEF Packet, Packets
<1>5. handle' = Without(handle, {h})
  BY Zenon DEF CloseItem, CloseHandle
<1> HIDE DEF n, p
<1>6. PortTyped'
  BY <1>1, <1>2, <1>3, <1>4, PortRepeated DEF Typed, IInv
<1>7. UserTyped'
  <2>1. Below(Unread(h)) \subseteq Path
    BY DEF Below
  <2> HIDE DEF h
  <2> QED BY <1>1, <2>1 DEF Typed, UserTyped
<1>8. CallsTyped'
  <2> DEFINE c == [call[th] EXCEPT !.at = "forget"]
  <2>1. c.at = "forget"
    <3>1. call[th] = [at |-> call[th].at, item |-> a]
      BY <1>1 DEF IInv, ItemsApart, Holding, Closing
    <3> HIDE DEF a
    <3> QED BY <3>1
  <2>2. ASSUME NEW t \in Thread \ {th}, Opened(t) PROVE handle'[call[t].h].dir = handle[call[t].h].dir
    <3>1. call[t].h \in Handle /\ handle[call[t].h].key = NoKey
      BY <2>2 DEF IInv, HandlesOwned
    <3>2. a # NoKey
      BY <1>1, Owned
    <3>3. call[t].h \in Handle \ {h}
      BY <1>2, <3>1, <3>2
    <3> HIDE DEF h
    <3> QED BY <1>5, <3>3 DEF Without, Restrict, Handle
  <2>3. Becomes(th, c)
    BY <1>1
  <2> HIDE DEF c
  <2> QED BY <2>1, <2>2, <2>3, CallTyped DEF Typed
<1> HIDE DEF h
<1> QED BY <1>1, <1>2, <1>5, <1>6, <1>7, <1>8, HandleClosed

LEMMA ItemForgottenTyped == ASSUME IInv, Typed, NEW th \in Thread, ForgetItem(th) PROVE Typed'
<1> DEFINE a == call[th].item
<1>1. /\ UNCHANGED <<fs, handle, iocp, m_watches, m_renameInfo, m_running, lp, userVars>>
      /\ heap' = [heap EXCEPT ![a].hDir = Invalid] /\ Becomes(th, Idle)
  BY DEF ForgetItem
<1>2. a \in DOMAIN heap /\ heap[a] = [f \in ItemField |-> heap[a][f]]
  BY DEF ForgetItem, IInv, ItemsApart, Live, Shapes
<1> HIDE DEF a
<1>3. /\ DOMAIN heap' = DOMAIN heap /\ \A b \in DOMAIN heap \ {a} : heap'[b] = heap[b]
      /\ heap'[a] = [heap[a] EXCEPT !.hDir = Invalid]
  BY <1>1, <1>2, Zenon
<1>4. heap'[a].path = heap[a].path /\ heap'[a].buffer = heap[a].buffer /\ heap'[a].hDir = 0
  BY <1>2, <1>3 DEF ItemField, Invalid
<1>5. \A b \in DOMAIN heap : heap[b].hDir \in 0 .. MaxHandle
  BY DEF Typed, HeapTyped
<1>6. 0 \in 0 .. MaxHandle
  BY IOAssumption
<1>7. \A b \in DOMAIN heap : /\ heap'[b].path = heap[b].path /\ heap'[b].buffer = heap[b].buffer
                             /\ heap'[b].hDir \in 0 .. MaxHandle
  BY <1>3, <1>4, <1>5, <1>6
<1>8. PortTyped' /\ UserTyped'
  BY <1>1, <1>3 DEF Typed, PortTyped, UserTyped, userVars
<1>9. CallsTyped'
  <2>1. Idle.at \notin {"add", "opened", "remove"}
    BY DEF Idle
  <2> QED BY <1>1, <2>1, CallTyped DEF Typed
<1>10. \A h \in Handle : \A k \in DOMAIN handle[h].reads :
          \E j \in DOMAIN handle[h].reads : handle[h].reads[k] = handle[h].reads[j]
  OBVIOUS
<1>11. Handle' = Handle /\ misused' = misused /\ (misused = {} => m_renameInfo' \in Path \cup {<< >>})
  BY <1>1 DEF Typed, Straight, Handle, userVars
<1> QED BY <1>1, <1>3, <1>7, <1>8, <1>9, <1>10, <1>11, TablesKept

\* What changes neither handles nor items.
LEMMA OtherCallsTyped ==
  ASSUME IInv, Typed, NEW th \in Thread,
         \/ \E r \in Root : AddWatch(th, r) \/ RemoveWatch(th, r)
         \/ AddFails(th) \/ Stop(th) \/ PostWakeup(th)
  PROVE  Typed'
<1>1. \E c : /\ Becomes(th, c) /\ c.at # "opened" /\ (c.at \in {"add", "remove"} => c.root \in Root)
  <2>1. CASE \E r \in Root : AddWatch(th, r)
    BY <2>1 DEF AddWatch
  <2>2. CASE \E r \in Root : RemoveWatch(th, r)
    BY <2>2 DEF RemoveWatch
  <2>3. CASE AddFails(th) \/ PostWakeup(th)
    BY <2>3 DEF AddFails, PostWakeup, Idle
  <2>4. CASE Stop(th)
    BY <2>4 DEF Stop
  <2> QED BY <2>1, <2>2, <2>3, <2>4
<1>2. UNCHANGED <<fs, handle, heap, m_watches, m_renameInfo, lp, renamer, mirror, missed, misused>>
  BY DEF AddWatch, RemoveWatch, AddFails, Stop, PostWakeup, ioVars, userVars
<1>3. CallsTyped'
  BY <1>1, <1>2, CallTyped DEF Typed
<1>4. UserTyped'
  <2>1. registered' \subseteq Root /\ m_running' \in BOOLEAN
    BY DEF AddWatch, RemoveWatch, AddFails, Stop, PostWakeup, userVars, Typed, UserTyped
  <2> QED BY <1>2, <2>1 DEF Typed, UserTyped
<1>5. PortTyped'
  <2>1. CASE iocp' = iocp
    BY <1>2, <2>1 DEF Typed, PortTyped
  <2>2. CASE iocp' = Append(iocp, Wakeup)
    <3>1. Wakeup \in Packets /\ Wakeup.key = NoKey
      BY DEF Wakeup, Packets
    <3> QED BY <1>2, <2>2, <3>1, PortAppended DEF Typed, IInv
  <2> QED BY <2>1, <2>2 DEF AddWatch, RemoveWatch, AddFails, Stop, PostWakeup, ioVars
<1>6. misused = {} => m_renameInfo \in Path \cup {<< >>}
  BY DEF Typed, Straight
<1> QED BY <1>2, <1>3, <1>4, <1>5, <1>6, OnlyMoves

LEMMA SyncedNamed ==
  ASSUME NEW m, DOMAIN m \subseteq Seq(STRING), DOMAIN fs \subseteq Seq(STRING), NEW roots
  PROVE  DOMAIN Synced(m, roots) \subseteq Seq(STRING)
<1>1. \A r : Tree(r) \subseteq Seq(STRING)
  BY DEF Tree
<1> DEFINE g == [q \in UNION {Tree(r) : r \in roots} |-> fs[q].content]
           w == Without(m, {q \in DOMAIN m : \E r \in roots : Under(r, q)})
<1>2. DOMAIN g \subseteq Seq(STRING)
  BY <1>1
<1>3. DOMAIN w \subseteq Seq(STRING)
  BY DEF Without, Restrict
<1>4. Synced(m, roots) = Joined(g, w)
  BY Zenon DEF Synced
<1> HIDE DEF g, w
<1>5. DOMAIN Joined(g, w) = DOMAIN g \cup DOMAIN w
  BY DEF Joined
<1> QED BY <1>2, <1>3, <1>4, <1>5

LEMMA ItemInsertedTyped == ASSUME IInv, Typed, NEW th \in Thread, InsertItem(th) PROVE Typed'
<1> USE DEF Typed
<1> DEFINE r == call[th].root
           h == call[th].h
<1>1. /\ UNCHANGED <<fs, iocp, m_renameInfo, m_running, lp, registered, renamer>> /\ Becomes(th, Idle)
      /\ Opened(th) /\ h \in Handle /\ handle[h].key = NoKey /\ handle[h].reads \in Seq(Address)
      /\ r \in Root /\ handle[h].dir = r
  BY DEF InsertItem, IInv, HandlesOwned, Opened, Shapes, CallsTyped
<1>2. PICK a \in Address \ Live :
         /\ heap' = With(heap, a, [path |-> r, hDir |-> h, buffer |-> << >>])
         /\ handle' = IssueRead(a, h, [handle EXCEPT ![h].key = a])
         /\ m_watches' = With(m_watches, r, a)
         /\ mirror' = Synced(mirror, {r})
         /\ missed' = missed \cup Below(Late)
         /\ misused' = {IF b = a THEN NoKey ELSE b : b \in misused}
                         \cup {b \in {a} : StillUsed(a) \/ handle[h].reads # << >>}
                         \cup {m_watches[p] : p \in {r} \cap DOMAIN m_watches}
  BY Zenon DEF InsertItem
<1>3. misused' = {} => misused = {} /\ ~StillUsed(a) /\ handle[h].reads = << >>
  <2>1. misused' = {} => {IF b = a THEN NoKey ELSE b : b \in misused} = {}
    BY <1>2, Zenon
  <2>2. misused' = {} => {b \in {a} : StillUsed(a) \/ handle[h].reads # << >>} = {}
    BY <1>2, Zenon
  <2> QED BY <2>1, <2>2
<1>4. /\ Handle' = Handle /\ \A g \in Handle \ {h} : handle'[g] = handle[g]
      /\ handle'[h].dir = handle[h].dir /\ handle'[h].records = handle[h].records
      /\ handle'[h].key = a /\ handle'[h].reads = Append(handle[h].reads, a)
  <2> DEFINE m == [handle EXCEPT ![h].key = a]
  <2>1. /\ DOMAIN m = Handle /\ m[h] = [handle[h] EXCEPT !.key = a]
        /\ \A g \in Handle \ {h} : m[g] = handle[g]
    BY <1>1, Zenon DEF Handle
  <2>2. handle' = IssueRead(a, h, m)
    BY <1>2
  <2> HIDE DEF m
  <2>3. handle[h] = [f \in HandleField |-> handle[h][f]]
    BY <1>1 DEF IInv, Shapes
  <2> HIDE DEF h
  <2>4. /\ m[h] = [f \in HandleField |-> m[h][f]] /\ m[h].key = a /\ m[h].reads = handle[h].reads
        /\ m[h].dir = handle[h].dir /\ m[h].records = handle[h].records
    BY <2>1, <2>3 DEF HandleField
  <2> DEFINE q == Append(m[h].reads, a)
  <2>5. handle' = [m EXCEPT ![h].reads = q]
    BY <2>2, Zenon DEF IssueRead
  <2> HIDE DEF q
  <2>6. /\ DOMAIN handle' = Handle /\ handle'[h] = [m[h] EXCEPT !.reads = q]
        /\ \A g \in Handle \ {h} : handle'[g] = m[g]
    BY <1>1, <2>1, <2>5, Zenon
  <2>7. /\ handle'[h].key = a /\ handle'[h].reads = q
        /\ handle'[h].dir = m[h].dir /\ handle'[h].records = m[h].records
    BY <2>4, <2>6 DEF HandleField
  <2> QED BY <2>1, <2>4, <2>6, <2>7, Zenon DEF q, Handle
<1>5. /\ DOMAIN heap' = DOMAIN heap \cup {a}
      /\ \A b \in DOMAIN heap \ {a} : heap'[b] = heap[b]
      /\ heap'[a].path = r /\ heap'[a].hDir = h /\ heap'[a].buffer = << >>
  BY <1>2 DEF With
<1>6. /\ r \in Path /\ h \in 0 .. MaxHandle /\ a # NoKey
      /\ handle'[h].reads = Append(handle[h].reads, a) /\ handle[h].reads \in Seq(Address)
  <2> HIDE DEF r, h
  <2>1. r \in Path
    BY <1>1, RootAssumption
  <2>2. h \in 0 .. MaxHandle
    <3>1. h \in 1 .. MaxHandle
      BY <1>1 DEF IInv, Shapes
    <3> QED BY <3>1, IOAssumption
  <2>3. a # NoKey
    BY DEF Address, NoKey
  <2> QED BY <1>1, <1>4, <2>1, <2>2, <2>3
<1>7. \A k \in DOMAIN handle'[h].reads :
         handle'[h].reads[k] = a \/ \E j \in DOMAIN handle[h].reads : handle'[h].reads[k] = handle[h].reads[j]
  <2> DEFINE q == handle[h].reads
             t == Append(q, a)
  <2>1. q \in Seq(Address) /\ a \in Address
    BY <1>2, <1>6
  <2>2. handle'[h].reads = t
    BY <1>6
  <2> HIDE DEF q, h
  <2>3. \A x : In(t, x) <=> In(q, x) \/ a = x
    BY <2>1, InAppended
  <2> HIDE DEF t
  <2>4. \A k \in DOMAIN t : t[k] = a \/ \E j \in DOMAIN q : t[k] = q[j]
    <3> SUFFICES ASSUME NEW k \in DOMAIN t PROVE t[k] = a \/ \E j \in DOMAIN q : t[k] = q[j]
      OBVIOUS
    <3>1. In(t, t[k])
      BY DEF In
    <3>2. In(q, t[k]) \/ a = t[k]
      BY <2>3, <3>1
    <3> QED BY <3>2 DEF In
  <2> QED BY <2>2, <2>4 DEF q, h
<1>8. \A d : Named(d)' = Named(d)
  BY DEF Named
<1>9. CallsTyped'
  <2>1. Idle.at \notin {"add", "opened", "remove"}
    BY DEF Idle
  <2>2. \A t \in Thread \ {th} : Opened(t) => handle'[call[t].h].dir = handle[call[t].h].dir
    BY <1>1, <1>4 DEF IInv, HandlesOwned
  <2> QED BY <1>1, <2>1, <2>2, CallTyped
<1> HIDE DEF h, r
<1>10. HandlesTyped'
  <2> SUFFICES ASSUME NEW g \in Handle
               PROVE  /\ handle'[g].dir \in Path /\ handle'[g].key \in DOMAIN heap' \cup {NoKey}
                      /\ \A k \in DOMAIN handle'[g].reads : handle'[g].reads[k] \in DOMAIN heap'
                      /\ handle'[g].records \in Seq(Named(handle'[g].dir)) /\ Len(handle'[g].records) <= MaxRecords
    BY <1>4, <1>8 DEF HandlesTyped
  <2>1. /\ handle[g].dir \in Path /\ handle[g].key \in DOMAIN heap \cup {NoKey}
        /\ \A k \in DOMAIN handle[g].reads : handle[g].reads[k] \in DOMAIN heap
        /\ handle[g].records \in Seq(Named(handle[g].dir)) /\ Len(handle[g].records) <= MaxRecords
    BY DEF HandlesTyped
  <2>2. CASE g = h
    BY <1>4, <1>5, <1>7, <2>1, <2>2
  <2>3. CASE g # h
    BY <1>4, <1>5, <2>1, <2>3
  <2> QED BY <2>2, <2>3
<1>11. HeapTyped'
  <2> SUFFICES ASSUME NEW b \in DOMAIN heap'
               PROVE  heap'[b].path \in Path /\ heap'[b].hDir \in 0 .. MaxHandle /\ heap'[b].buffer \in Seq(Noted)
    BY DEF HeapTyped, Noted
  <2>1. << >> \in Seq(Noted)
    OBVIOUS
  <2>2. CASE b = a
    BY <1>5, <1>6, <2>1, <2>2
  <2>3. CASE b # a
    BY <1>5, <2>3 DEF HeapTyped
  <2> QED BY <2>2, <2>3
<1>12. PortTyped'
  BY <1>1, <1>5 DEF PortTyped
<1>13. UserTyped'
  <2>1. DOMAIN m_watches' \subseteq Root
    BY <1>1, <1>2 DEF With, UserTyped
  <2>2. DOMAIN mirror' \subseteq Seq(STRING)
    <3>1. DOMAIN mirror \subseteq Seq(STRING) /\ DOMAIN fs \subseteq Seq(STRING)
      BY PathIs DEF UserTyped
    <3> QED BY <1>2, <3>1, SyncedNamed
  <2>3. missed' \subseteq Path
    BY <1>2 DEF Below, UserTyped
  <2> QED BY <1>1, <2>1, <2>2, <2>3 DEF UserTyped
<1>14. Straight'
  <2> SUFFICES ASSUME misused' = {} PROVE Straight'
    BY DEF Straight
  <2>1. /\ misused = {} /\ handle[h].reads = << >>
        /\ \A g \in Handle : handle[g].key # a
    BY <1>3, NotUsed
  <2>2. ASSUME NEW g \in Handle
        PROVE  /\ \A k \in DOMAIN handle'[g].reads : handle'[g].reads[k] = handle'[g].key
               /\ handle'[g].key # NoKey => heap'[handle'[g].key].path = handle'[g].dir
    <3>1. CASE g = h
      <4>1. \A k \in DOMAIN handle'[h].reads : handle'[h].reads[k] = a
        <5>1. \A j \in DOMAIN << >> : FALSE
          OBVIOUS
        <5> QED BY <1>7, <2>1, <5>1
      <4> QED BY <1>1, <1>4, <1>5, <3>1, <4>1 DEF h, r
    <3>2. CASE g # h
      <4>1. handle'[g] = handle[g] /\ handle[g].key \in DOMAIN heap \cup {NoKey}
        BY <1>4, <3>2 DEF HandlesTyped
      <4>2. handle[g].key # NoKey => heap'[handle[g].key] = heap[handle[g].key]
        BY <1>5, <2>1, <4>1
      <4>3. /\ \A k \in DOMAIN handle[g].reads : handle[g].reads[k] = handle[g].key
            /\ handle[g].key # NoKey => heap[handle[g].key].path = handle[g].dir
        BY <2>1 DEF Straight
      <4> QED BY <4>1, <4>2, <4>3
    <3> QED BY <3>1, <3>2
  <2>3. ASSUME NEW b \in DOMAIN heap' PROVE heap'[b].buffer \in Seq(Named(heap'[b].path))
    <3>1. CASE b = a
      <4>1. \A S : << >> \in Seq(S)
        BY EmptySeq
      <4> QED BY <1>5, <3>1, <4>1
    <3>2. CASE b # a
      BY <1>5, <2>1, <3>2 DEF Straight
    <3> QED BY <3>1, <3>2
  <2> QED BY <1>1, <1>4, <1>8, <2>1, <2>2, <2>3 DEF Straight
<1> QED BY <1>9, <1>10, <1>11, <1>12, <1>13, <1>14

LEMMA CallsKeepTyped == ASSUME IInv, Typed, NEW th \in Thread, CallStep(th) PROVE Typed'
BY DirectoryOpensTyped, ReadRefusedTyped, ItemInsertedTyped, ItemErasedTyped, ReadCancelledTyped,
   ItemClosedTyped, ItemForgottenTyped, OtherCallsTyped DEF CallStep

-----------------------------------------------------------------------------
(* Steps of the loop keep it.                                               *)

LEMMA PacketTakenTyped == ASSUME IInv, Typed, Dequeue PROVE Typed'
<1> DEFINE p == Head(iocp)
<1>1. /\ UNCHANGED <<fs, handle, heap, m_watches, m_renameInfo, m_running, call, userVars>>
      /\ lp.item = NoKey /\ iocp # << >> /\ iocp' = Tail(iocp) /\ iocp \in Seq(Packets)
      /\ lp = [f \in LoopField |-> lp[f]]
  BY DEF Dequeue, IInv, Shapes
<1>2. /\ p = iocp[1] /\ 1 \in DOMAIN iocp
      /\ \A k \in DOMAIN iocp' : k + 1 \in DOMAIN iocp /\ iocp'[k] = iocp[k + 1]
  <2>1. /\ Len(iocp) \in Nat \ {0} /\ DOMAIN iocp = 1 .. Len(iocp) /\ p = iocp[1]
        /\ iocp' \in Seq(Packets) /\ DOMAIN iocp' = 1 .. Len(iocp) - 1
        /\ \A i \in 1 .. Len(iocp) - 1 : iocp'[i] = iocp[i + 1]
    BY <1>1, HeadTailProperties, LenProperties, EmptySeq
  <2> HIDE DEF p
  <2>2. 1 \in DOMAIN iocp /\ \A i \in DOMAIN iocp' : i + 1 \in DOMAIN iocp
    BY <2>1
  <2> QED BY <2>1, <2>2
<1>3. p.key \in DOMAIN heap \cup {NoKey}
  BY <1>2 DEF Typed, PortTyped
<1>4. lp'.item \in {p.key, NoKey}
  <2>1. CASE p = Wakeup
    <3>1. lp' = [lp EXCEPT !.at = "while"]
      BY <2>1 DEF Dequeue
    <3> HIDE DEF p
    <3> QED BY <1>1, <3>1 DEF LoopField
  <2>2. CASE p # Wakeup
    BY <2>2 DEF Dequeue
  <2> QED BY <2>1, <2>2
<1> HIDE DEF p
<1>5. PortTyped'
  <2>1. \A k \in DOMAIN iocp' : iocp'[k].key \in DOMAIN heap \cup {NoKey}
    BY <1>2 DEF Typed, PortTyped
  <2>2. lp'.item \in DOMAIN heap \cup {NoKey}
    BY <1>3, <1>4
  <2> QED BY <1>1, <2>1, <2>2 DEF PortTyped
<1>6. CallsTyped' /\ UserTyped'
  BY <1>1 DEF Typed, CallsTyped, Opened, UserTyped, userVars
<1>7. misused = {} => m_renameInfo \in Path \cup {<< >>}
  BY DEF Typed, Straight
<1> QED BY <1>1, <1>5, <1>6, <1>7, OnlyMoves DEF userVars

\* The event of a record is of a path, if the item was not misused.
LEMMA EntryTyped ==
  ASSUME IInv, Typed, lp.at = "process"
  PROVE  /\ Entry.name \in Seq(STRING) /\ EventPath \in Seq(STRING)
         /\ misused = {} /\ Entry.action = "old" => EventPath \in Path
<1> DEFINE a == lp.item
           b == heap[a].buffer
<1>1. a \in DOMAIN heap
  <2>1. a \in Address /\ a \in DOMAIN heap \cup {NoKey}
    BY DEF IInv, Shapes, Typed, PortTyped
  <2> QED BY <2>1 DEF Address, NoKey
<1>2. b \in Seq(Noted) /\ heap[a].path \in Path /\ heap[a].path \in Seq(STRING)
      /\ (misused = {} => b \in Seq(Named(heap[a].path)))
  BY <1>1, PathIs DEF Typed, HeapTyped, Straight
<1>3. Entry = IF lp.entry \in DOMAIN b THEN b[lp.entry] ELSE [action |-> "none", name |-> << >>]
  BY DEF Entry
<1> HIDE DEF b
<1>4. CASE lp.entry \in DOMAIN b
  <2>1. Entry = b[lp.entry] /\ Entry \in Noted
    BY <1>2, <1>3, <1>4, ElementOfSeq, LenProperties
  <2>2. Entry.name \in Seq(STRING)
    BY <2>1 DEF Noted
  <2>3. EventPath \in Seq(STRING)
    BY <1>2, <2>2, ConcatProperties DEF EventPath
  <2>4. misused = {} => EventPath \in Path
    <3> DEFINE S == Named(heap[a].path)
    <3>1. misused = {} => Entry \in S
      <4> HIDE DEF S
      <4>1. ASSUME b \in Seq(S) PROVE b[lp.entry] \in S
        BY <1>4, <4>1, ElementOfSeq, LenProperties
      <4> QED BY <1>2, <2>1, <4>1 DEF S
    <3> QED BY <3>1 DEF Named, EventPath
  <2> QED BY <2>2, <2>3, <2>4
<1>5. CASE lp.entry \notin DOMAIN b
  <2>1. Entry.action = "none" /\ Entry.name = << >>
    BY <1>3, <1>5
  <2>2. << >> \in Seq(STRING)
    OBVIOUS
  <2>3. EventPath \in Seq(STRING)
    BY <1>2, <2>1, <2>2, ConcatProperties DEF EventPath
  <2> QED BY <2>1, <2>2, <2>3
<1> QED BY <1>4, <1>5

LEMMA EntryProcessedTyped == ASSUME IInv, Typed, ProcessEntry PROVE Typed'
<1>1. /\ UNCHANGED <<fs, handle, iocp, heap, m_watches, m_running, call, registered, misused>>
      /\ lp.at = "process" /\ lp' = [lp EXCEPT !.at = "callback"]
      /\ m_renameInfo' = CASE Entry.action = "old" -> EventPath
                           [] Entry.action = "new" -> << >>
                           [] OTHER                -> m_renameInfo
      /\ mirror' = Followed(mirror, EventOf(Entry, EventPath))
      /\ renamer' \in {renamer, lp.item, NoKey}
      /\ missed' = missed \cup Crossed \cup Carried
  BY DEF ProcessEntry, LoopIs, ioVars
<1>2. /\ EventPath \in Seq(STRING)
      /\ misused = {} /\ Entry.action = "old" => EventPath \in Path
  BY <1>1, EntryTyped
<1>3. /\ m_renameInfo \in Seq(STRING) /\ << >> \in Seq(STRING)
      /\ misused = {} => m_renameInfo \in Path \cup {<< >>}
  BY DEF Typed, UserTyped, Straight
<1>4. /\ m_renameInfo' \in Seq(STRING)
      /\ misused = {} => m_renameInfo' \in Path \cup {<< >>}
  BY <1>1, <1>2, <1>3
<1>5. DOMAIN mirror' \subseteq Seq(STRING)
  <2> DEFINE e == EventOf(Entry, EventPath)
  <2>1. e.path \in Seq(STRING) /\ e.old \in Seq(STRING)
    <3> DEFINE x == EventPath
    <3>1. x \in Seq(STRING)
      BY <1>2
    <3>2. e = EventOf(Entry, x)
      OBVIOUS
    <3> HIDE DEF x, e
    <3>3. \/ e = FileEvent("create", x) \/ e = FileEvent("delete", x) \/ e = FileEvent("modify", x)
          \/ e = RenameEvent(x, m_renameInfo)
      BY <3>2 DEF EventOf
    <3>4. \A type : FileEvent(type, x).path = x /\ FileEvent(type, x).old = << >>
      BY DEF FileEvent
    <3>5. RenameEvent(x, m_renameInfo).path = x /\ RenameEvent(x, m_renameInfo).old = m_renameInfo
      BY DEF RenameEvent
    <3>6. e.path = x /\ (e.old = << >> \/ e.old = m_renameInfo)
      BY <3>3, <3>4, <3>5, Zenon
    <3> QED BY <1>3, <3>1, <3>6
  <2>2. DOMAIN mirror \subseteq Seq(STRING)
    BY DEF Typed, UserTyped
  <2> HIDE DEF e
  <2>3. DOMAIN Followed(mirror, e) \subseteq Seq(STRING)
    BY <2>1, <2>2, CopiesNamed
  <2> QED BY <1>1, <2>3 DEF e
<1>6. UserTyped'
  <2>1. Crossed \subseteq Path /\ Carried \subseteq Path
    BY DEF Crossed, Carried, Inside, Below
  <2>2. renamer' \in Address \cup {NoKey}
    BY <1>1 DEF Typed, UserTyped, IInv, Shapes
  <2> QED BY <1>1, <1>4, <1>5, <2>1, <2>2 DEF Typed, UserTyped
<1>7. lp'.item = lp.item
  <2>1. lp = [f \in LoopField |-> lp[f]]
    BY DEF IInv, Shapes
  <2> QED BY <1>1, <2>1 DEF LoopField
<1>8. PortTyped' /\ CallsTyped'
  BY <1>1, <1>7 DEF Typed, PortTyped, CallsTyped, Opened
<1> QED BY <1>1, <1>4, <1>6, <1>8, OnlyMoves

LEMMA LoopMovesTyped == ASSUME IInv, Typed, Start \/ While \/ Timeout \/ NextEntry PROVE Typed'
<1>1. /\ UNCHANGED <<fs, handle, iocp, heap, m_watches, m_renameInfo, call, registered, renamer, mirror, missed, misused>>
      /\ m_running' \in BOOLEAN
  BY DEF Start, While, Timeout, NextEntry, ioVars, userVars, Typed, UserTyped
<1>2. lp'.item \in {lp.item, NoKey}
  <2>0. lp = [f \in LoopField |-> lp[f]]
    BY DEF IInv, Shapes
  <2>1. CASE Start \/ Timeout
    <3>1. \E at : lp' = [lp EXCEPT !.at = at]
      BY <2>1 DEF Start, Timeout, LoopIs
    <3> QED BY <2>0, <3>1 DEF LoopField
  <2>2. CASE While
    BY <2>0, <2>2 DEF While, LoopField, Out
  <2>3. CASE NextEntry
    <3>1. \/ lp' = [lp EXCEPT !.at = "process", !.entry = lp.entry + 1]
          \/ lp' = [lp EXCEPT !.at = "reissue"]
      BY <2>3 DEF NextEntry
    <3> QED BY <2>0, <3>1 DEF LoopField
  <2> QED BY <2>1, <2>2, <2>3
<1>3. PortTyped' /\ CallsTyped' /\ UserTyped'
  BY <1>1, <1>2 DEF Typed, PortTyped, CallsTyped, Opened, UserTyped
<1>4. misused = {} => m_renameInfo' \in Path \cup {<< >>}
  BY <1>1 DEF Typed, Straight
<1> QED BY <1>1, <1>3, <1>4, OnlyMoves

LEMMA ReadIssuedTyped == ASSUME IInv, Typed, Reissue PROVE Typed'
<1> USE DEF Typed
<1> DEFINE a == lp.item
           h == heap[a].hDir
<1>1. /\ UNCHANGED <<fs, iocp, heap, m_watches, m_renameInfo, m_running, call, registered, renamer, mirror>>
      /\ lp' = [Out EXCEPT !.at = "while"] /\ a \in Address
      /\ handle' = IF m_running /\ CanRead(h) THEN IssueRead(a, h, handle) ELSE handle
      /\ misused' = IF h \in Handle /\ handle[h].key # a THEN misused \cup {handle[h].key} ELSE misused
  BY DEF Reissue, IInv, Shapes
<1>2. missed' \subseteq Path
  BY DEF Reissue, Below, UserTyped
<1>3. a \in DOMAIN heap /\ (misused' = {} => misused = {} /\ (h \in Handle => handle[h].key = a))
  <2>1. a \in DOMAIN heap
    BY <1>1 DEF PortTyped, Address, NoKey
  <2> HIDE DEF h
  <2> QED BY <1>1, <2>1
<1>4. Handle' = Handle
      /\ \A g \in Handle :
           /\ handle'[g].dir = handle[g].dir /\ handle'[g].key = handle[g].key /\ handle'[g].records = handle[g].records
           /\ handle'[g].reads = handle[g].reads \/ (g = h /\ handle'[g].reads = Append(handle[g].reads, a))
  <2>1. CASE m_running /\ CanRead(h)
    <3> DEFINE q == Append(handle[h].reads, a)
    <3>1. h \in Handle /\ handle' = [handle EXCEPT ![h].reads = q]
      BY <1>1, <2>1, Zenon DEF CanRead, IssueRead
    <3> HIDE DEF q, h
    <3>2. /\ DOMAIN handle' = Handle /\ handle'[h] = [handle[h] EXCEPT !.reads = q]
          /\ \A g \in Handle : g # h => handle'[g] = handle[g]
      BY <3>1, Zenon DEF Handle
    <3>3. /\ handle'[h].dir = handle[h].dir /\ handle'[h].key = handle[h].key
          /\ handle'[h].records = handle[h].records /\ handle'[h].reads = q
      <4>1. handle[h] = [f \in HandleField |-> handle[h][f]]
        BY <3>1 DEF IInv, Shapes
      <4> QED BY <3>2, <4>1 DEF HandleField
    <3>4. Handle' = Handle
      BY <3>2, Zenon DEF Handle
    <3> QED BY <3>2, <3>3, <3>4 DEF q
  <2>2. CASE ~(m_running /\ CanRead(h))
    <3>1. handle' = handle
      BY <1>1, <2>2, Zenon
    <3> QED BY <3>1, Zenon DEF Handle
  <2> QED BY <2>1, <2>2
<1> HIDE DEF h
<1>5. ASSUME NEW g \in Handle, NEW k \in DOMAIN handle'[g].reads
      PROVE  \/ \E j \in DOMAIN handle[g].reads : handle'[g].reads[k] = handle[g].reads[j]
             \/ g = h /\ handle'[g].reads[k] = a
  <2>1. CASE handle'[g].reads = handle[g].reads
    BY <1>5, <2>1
  <2>2. CASE g = h /\ handle'[g].reads = Append(handle[g].reads, a)
    <3> DEFINE q == handle[g].reads
               t == Append(q, a)
    <3>1. q \in Seq(Address) /\ a \in Address
      BY <1>1 DEF IInv, Shapes
    <3>2. handle'[g].reads = t
      BY <2>2
    <3> HIDE DEF q, a
    <3>3. \A x : In(t, x) <=> In(q, x) \/ a = x
      BY <3>1, InAppended
    <3> HIDE DEF t
    <3>4. In(q, t[k]) \/ a = t[k]
      BY <1>5, <3>2, <3>3 DEF In
    <3> QED BY <2>2, <3>2, <3>4 DEF In, q
  <2> QED BY <1>4, <2>1, <2>2
<1>6. \A d : Named(d)' = Named(d)
  BY DEF Named
<1>7. HandlesTyped'
  <2> SUFFICES ASSUME NEW g \in Handle
               PROVE  /\ handle'[g].dir \in Path /\ handle'[g].key \in DOMAIN heap \cup {NoKey}
                      /\ \A k \in DOMAIN handle'[g].reads : handle'[g].reads[k] \in DOMAIN heap
                      /\ handle'[g].records \in Seq(Named(handle'[g].dir)) /\ Len(handle'[g].records) <= MaxRecords
    BY <1>1, <1>4, <1>6 DEF HandlesTyped
  <2>1. \A k \in DOMAIN handle'[g].reads : handle'[g].reads[k] \in DOMAIN heap
    BY <1>3, <1>5 DEF HandlesTyped
  <2> QED BY <1>4, <2>1 DEF HandlesTyped
<1>8. HeapTyped' /\ PortTyped'
  <2>1. lp'.item = NoKey
    BY <1>1 DEF Out
  <2> QED BY <1>1, <2>1 DEF HeapTyped, Noted, PortTyped
<1>9. CallsTyped' /\ UserTyped'
  <2>1. \A t \in Thread : Opened(t) => handle'[call[t].h].dir = handle[call[t].h].dir
    BY <1>4 DEF IInv, HandlesOwned
  <2> QED BY <1>1, <1>2, <2>1 DEF CallsTyped, Opened, UserTyped
<1>10. Straight'
  <2> SUFFICES ASSUME misused' = {} PROVE Straight'
    BY DEF Straight
  <2>1. misused = {} /\ (h \in Handle => handle[h].key = a)
    BY <1>3
  <2>2. ASSUME NEW g \in Handle
        PROVE  /\ \A k \in DOMAIN handle'[g].reads : handle'[g].reads[k] = handle'[g].key
               /\ handle'[g].key # NoKey => heap[handle'[g].key].path = handle'[g].dir
    <3>1. /\ \A k \in DOMAIN handle[g].reads : handle[g].reads[k] = handle[g].key
          /\ handle[g].key # NoKey => heap[handle[g].key].path = handle[g].dir
      BY <2>1 DEF Straight
    <3>2. ASSUME NEW k \in DOMAIN handle'[g].reads PROVE handle'[g].reads[k] = handle[g].key
      BY <1>5, <2>1, <3>1, <3>2
    <3> QED BY <1>4, <3>1, <3>2
  <2> QED BY <1>1, <1>4, <1>6, <2>1, <2>2 DEF Straight
<1> QED BY <1>7, <1>8, <1>9, <1>10

-----------------------------------------------------------------------------

LEMMA TypedInitially == Init => Typed
<1> SUFFICES ASSUME Init PROVE Typed
  OBVIOUS
<1>1. /\ handle = << >> /\ iocp = << >> /\ heap = << >> /\ m_watches = << >> /\ lp = Out
      /\ call = [th \in Thread |-> Idle] /\ m_renameInfo = << >> /\ m_running = FALSE
      /\ registered = {} /\ renamer = NoKey /\ mirror = << >> /\ missed = {} /\ misused = {}
  BY DEF Init
<1>2. /\ Handle = {} /\ DOMAIN heap = {} /\ DOMAIN m_watches = {} /\ DOMAIN iocp = {} /\ DOMAIN mirror = {}
      /\ lp.item = NoKey
  BY <1>1 DEF Handle, Out
<1>3. DOMAIN fs \subseteq Path
  <2>1. PICK paths \in Layout : fs = [p \in paths |-> [inode |-> 0, content |-> 0]]
    BY DEF Init
  <2> QED BY <2>1, LayoutAssumption
<1>4. CallsTyped
  BY <1>1 DEF CallsTyped, Idle
<1>5. UserTyped
  <2>1. m_renameInfo \in Seq(STRING)
    BY <1>1
  <2> QED BY <1>1, <1>2, <1>3, <2>1 DEF UserTyped
<1>6. HandlesTyped /\ HeapTyped /\ PortTyped /\ Straight
  BY <1>1, <1>2 DEF HandlesTyped, HeapTyped, PortTyped, Straight
<1> QED BY <1>4, <1>5, <1>6 DEF Typed

LEMMA TypedKept == IInv /\ Typed /\ [Next]_vars => Typed'
<1> SUFFICES ASSUME IInv, Typed, [Next]_vars PROVE Typed'
  OBVIOUS
<1>1. CASE FsStep
  BY <1>1, FilesTyped
<1>2. CASE ReadStep
  BY <1>2, CompletedTyped DEF ReadStep
<1>3. CASE \E th \in Thread : CallStep(th)
  BY <1>3, CallsKeepTyped
<1>4. CASE LoopStep
  BY <1>4, PacketTakenTyped, EntryProcessedTyped, LoopMovesTyped, ReadIssuedTyped DEF LoopStep
<1>5. CASE UNCHANGED vars
  <2>1. UNCHANGED <<fs, handle, iocp, heap, m_watches, m_renameInfo, m_running, lp, call, registered,
                    renamer, mirror, missed, misused>>
    BY <1>5 DEF vars, ioVars, userVars
  <2>2. PortTyped' /\ CallsTyped' /\ UserTyped' /\ (misused = {} => m_renameInfo' \in Path \cup {<< >>})
    BY <2>1 DEF Typed, PortTyped, CallsTyped, Opened, UserTyped, Straight
  <2> QED BY <2>1, <2>2, OnlyMoves
<1> QED BY <1>1, <1>2, <1>3, <1>4, <1>5 DEF Next

\* Every pointer and path that the watcher and the system keep is to what it should be: reads,
\* packets and m_watches hold items there is memory for, and what the buffers say is of paths
\* below the directories, as long as no item was used after it had gone.
THEOREM WatcherIsTyped == Spec => []TypeOK
<1>1. ASSUME IInv, Typed PROVE TypeOK
  <2> USE DEF Typed
  <2>1. IOTypeOK
    <3>1. Handle \subseteq 1 .. MaxHandle
      BY <1>1 DEF IInv, Shapes
    <3>2. \A h \in Handle :
            /\ handle[h].dir \in Path /\ handle[h].key \in DOMAIN heap \cup {NoKey}
            /\ Range(handle[h].reads) \subseteq DOMAIN heap
            /\ Len(handle[h].records) <= MaxRecords
      BY <1>1 DEF HandlesTyped, Range
    <3>3. \A k \in DOMAIN iocp : iocp[k] = Wakeup \/ iocp[k].key \in DOMAIN heap
      BY <1>1 DEF PortTyped, IInv, Shapes
    <3>4. \A a \in DOMAIN heap : heap[a].path \in Path /\ heap[a].hDir \in 0 .. MaxHandle
      BY <1>1 DEF HeapTyped
    <3> QED BY <3>1, <3>2, <3>3, <3>4 DEF IOTypeOK
  <2>2. Range(m_watches) \subseteq DOMAIN heap
    BY <1>1 DEF IInv, ItemsApart, Live
  <2> QED BY <1>1, <2>1, <2>2 DEF TypeOK, UserTyped, PortTyped, Straight
<1>2. Init => IInv /\ Typed
  BY Initially, TypedInitially
<1>3. (IInv /\ Typed) /\ [Next]_vars => (IInv /\ Typed)'
  BY Inductive, TypedKept
<1>4. Spec => [](IInv /\ Typed)
  BY <1>2, <1>3, PTL DEF Spec
<1>5. IInv /\ Typed => TypeOK
  BY <1>1
<1> QED BY <1>4, <1>5, PTL
===============================================================================
