--------------------------- MODULE MacOSMirrorProofs ---------------------------
(***************************************************************************)
(* Proofs about what MacOSWatcher reports, for any files, threads, calls,  *)
(* bounds and number of descriptors: everything it holds and queues is     *)
(* well formed, and who follows the events of a path watched by kqueue has *)
(* the path as it is once all is quiet.                                    *)
(***************************************************************************)
EXTENDS MacOSWatcherProofs, SequenceTheorems

-----------------------------------------------------------------------------
(* Paths.                                                                   *)

\* Prefixes, element by element.
LEMMA PrefixIs ==
  ASSUME NEW p \in Seq(STRING), NEW n \in 0 .. Len(p)
  PROVE  /\ SubSeq(p, 1, n) \in Seq(STRING) /\ Len(SubSeq(p, 1, n)) = n
         /\ \A i \in 1 .. n : SubSeq(p, 1, n)[i] = p[i]
<1> DEFINE s == SubSeq(p, 1, n)
<1>1. Len(p) \in Nat /\ n \in Nat /\ n <= Len(p) /\ \A i \in 1 .. Len(p) : p[i] \in STRING
  BY LenProperties, ElementOfSeq
<1>2. \A i \in 1 .. n : p[i] \in STRING
  BY <1>1
<1>3. /\ SubSeq(p, 1, n) \in Seq(STRING)
      /\ Len(SubSeq(p, 1, n)) = IF 1 <= n THEN n - 1 + 1 ELSE 0
      /\ \A i \in 1 .. n - 1 + 1 : SubSeq(p, 1, n)[i] = p[1 + i - 1]
  <2>1. 1 \in Int /\ n \in Int
    BY <1>1
  <2> QED BY <1>2, <2>1, SubSeqProperties
<1>4. \A i \in 1 .. n : i \in 1 .. n - 1 + 1 /\ 1 + i - 1 = i
  BY <1>1
<1>5. \A i \in 1 .. n : s[i] = p[i]
  BY <1>3, <1>4
<1>6. Len(s) = IF 1 <= n THEN n - 1 + 1 ELSE 0
  BY <1>3, Zenon
<1>7. s \in Seq(STRING)
  BY <1>3
<1> HIDE DEF s
<1>8. Len(s) = n
  <2> DEFINE l == Len(s)
  <2>1. l = IF 1 <= n THEN n - 1 + 1 ELSE 0
    BY <1>6
  <2> HIDE DEF l
  <2>2. l = n
    BY <1>1, <2>1
  <2> QED BY <2>2 DEF l
<1> QED BY <1>5, <1>7, <1>8 DEF s

LEMMA UnderIs ==
  ASSUME NEW q \in Seq(STRING), NEW p \in Seq(STRING)
  PROVE  /\ Under(q, p) <=> Len(q) <= Len(p) /\ \A i \in 1 .. Len(q) : q[i] = p[i]
         /\ Under(q, p) => SubSeq(p, 1, Len(q)) = q
<1>1. Len(q) \in Nat /\ Len(p) \in Nat
  BY LenProperties
<1>2. /\ SubSeq(q, 1, Len(q)) \in Seq(STRING) /\ Len(SubSeq(q, 1, Len(q))) = Len(q)
      /\ \A i \in 1 .. Len(q) : SubSeq(q, 1, Len(q))[i] = q[i]
  <2>1. Len(q) \in 0 .. Len(q)
    BY <1>1
  <2> QED BY <2>1, PrefixIs
<1>3. SubSeq(q, 1, Len(q)) = q
  BY <1>2, SeqEqual
<1>4. CASE Len(q) <= Len(p)
  <2> DEFINE s == SubSeq(p, 1, Len(q))
  <2>1. s \in Seq(STRING) /\ Len(s) = Len(q) /\ \A i \in 1 .. Len(q) : s[i] = p[i]
    <3>1. Len(q) \in 0 .. Len(p)
      BY <1>1, <1>4
    <3> QED BY <3>1, PrefixIs
  <2>2. Under(q, p) <=> q = s
    BY <1>3, <1>4 DEF Under, IsPrefix
  <2> HIDE DEF s
  <2>3. (\A i \in 1 .. Len(q) : q[i] = p[i]) => q = s
    <3>1. ASSUME \A i \in 1 .. Len(q) : q[i] = p[i] PROVE \A i \in 1 .. Len(q) : q[i] = s[i]
      BY <2>1, <3>1
    <3> QED BY <2>1, <3>1, SeqEqual
  <2>4. q = s => \A i \in 1 .. Len(q) : q[i] = p[i]
    BY <2>1
  <2> QED BY <1>4, <2>2, <2>3, <2>4 DEF s
<1>5. CASE ~(Len(q) <= Len(p))
  BY <1>5 DEF Under, IsPrefix
<1> QED BY <1>4, <1>5

LEMMA UnderIsOrder ==
  ASSUME NEW p \in Seq(STRING), NEW q \in Seq(STRING), NEW d \in Seq(STRING)
  PROVE  Under(p, p) /\ (Under(d, q) /\ Under(q, p) => Under(d, p))
<1>1. Len(d) \in Nat /\ Len(q) \in Nat /\ Len(p) \in Nat
  BY LenProperties
<1>2. Under(p, p)
  BY <1>1, UnderIs
<1>3. ASSUME Under(d, q), Under(q, p) PROVE Under(d, p)
  <2>1. /\ Len(d) <= Len(q) /\ \A i \in 1 .. Len(d) : d[i] = q[i]
        /\ Len(q) <= Len(p) /\ \A i \in 1 .. Len(q) : q[i] = p[i]
    BY <1>3, UnderIs
  <2>2. Len(d) <= Len(p) /\ \A i \in 1 .. Len(d) : d[i] = p[i]
    BY <1>1, <2>1
  <2> QED BY <2>2, UnderIs
<1> QED BY <1>2, <1>3

LEMMA PathIs ==
  ASSUME NEW p \in Path
  PROVE  p \in Seq(STRING) /\ p # << >> /\ Len(p) \in Nat /\ Len(p) >= 1
BY FilesAssumption, LenProperties, EmptySeq

\* The directory a path is in.
LEMMA FrontIs ==
  ASSUME NEW p \in Seq(STRING), p # << >>
  PROVE  /\ Len(p) \in Nat /\ Len(p) >= 1
         /\ Front(p) \in Seq(STRING) /\ Len(Front(p)) = Len(p) - 1
         /\ \A i \in 1 .. Len(p) - 1 : Front(p)[i] = p[i]
<1>1. Len(p) \in Nat /\ Len(p) # 0
  BY LenProperties, EmptySeq
<1> DEFINE n == Len(p) - 1
<1>2. Front(p) = SubSeq(p, 1, n) /\ n \in 0 .. Len(p)
  BY <1>1 DEF Front
<1> HIDE DEF n
<1>3. Front(p) \in Seq(STRING) /\ Len(Front(p)) = n /\ \A i \in 1 .. n : Front(p)[i] = p[i]
  BY <1>2, PrefixIs
<1> QED BY <1>1, <1>3 DEF n

LEMMA UnderFront ==
  ASSUME NEW p \in Seq(STRING), p # << >>, NEW q \in Seq(STRING)
  PROVE  Under(Front(p), p) /\ ~Under(p, Front(p)) /\ (Under(q, p) /\ q # p => Under(q, Front(p)))
<1> DEFINE d == Front(p)
<1>1. Len(p) \in Nat /\ Len(q) \in Nat /\ Len(p) # 0
  BY LenProperties, EmptySeq
<1>3. d \in Seq(STRING) /\ Len(d) = Len(p) - 1 /\ \A i \in 1 .. Len(p) - 1 : d[i] = p[i]
  BY FrontIs
<1> HIDE DEF d
<1>4. Under(d, p) /\ ~Under(p, d)
  <2>1. Len(d) <= Len(p) /\ ~(Len(p) <= Len(d)) /\ \A i \in 1 .. Len(d) : d[i] = p[i]
    BY <1>1, <1>3
  <2> QED BY <1>1, <1>3, <2>1, UnderIs
<1>5. ASSUME Under(q, p), q # p PROVE Under(q, d)
  <2>1. Len(q) <= Len(p) /\ \A i \in 1 .. Len(q) : q[i] = p[i]
    BY <1>5, UnderIs
  <2>2. Len(q) # Len(p)
    BY <1>5, <2>1, SeqEqual
  <2>3. Len(q) <= Len(d) /\ \A i \in 1 .. Len(q) : q[i] = d[i]
    BY <1>1, <1>3, <2>1, <2>2
  <2> QED BY <1>3, <2>3, UnderIs
<1> QED BY <1>4, <1>5 DEF d

\* The paths directly below a directory, with or without a file there.
Child(r) == {p \in Path : Front(p) = r}

LEMMA ChildIs ==
  ASSUME NEW r \in Path
  PROVE  /\ \A p \in Path : p \in Child(r) <=> Under(r, p) /\ Len(p) = Len(r) + 1
         /\ \A p \in Child(r) : Len(p) > 1 /\ p # r /\ ~Under(p, r)
         /\ r \notin Directory => Child(r) = {}
<1>1. r \in Seq(STRING) /\ Len(r) \in Nat /\ Len(r) >= 1
  BY PathIs
<1>2. ASSUME NEW p \in Child(r) PROVE Under(r, p) /\ Len(p) = Len(r) + 1 /\ ~Under(p, r)
  <2>1. p \in Seq(STRING) /\ p # << >> /\ Front(p) = r
    BY PathIs DEF Child
  <2> QED BY <1>1, <2>1, FrontIs, UnderFront
<1>3. ASSUME NEW p \in Path, Under(r, p), Len(p) = Len(r) + 1 PROVE p \in Child(r)
  <2>1. p \in Seq(STRING) /\ p # << >>
    BY PathIs
  <2>2. \A i \in 1 .. Len(r) : r[i] = p[i]
    BY <1>1, <1>3, <2>1, UnderIs
  <2>3. Front(p) \in Seq(STRING) /\ Len(Front(p)) = Len(r) /\ \A i \in 1 .. Len(r) : Front(p)[i] = r[i]
    BY <1>1, <1>3, <2>1, <2>2, FrontIs
  <2>4. Front(p) = r
    BY <1>1, <2>3, SeqEqual
  <2> QED BY <2>4 DEF Child
<1>4. \A p \in Child(r) : Len(p) > 1 /\ p # r
  BY <1>1, <1>2
<1>5. r \notin Directory => Child(r) = {}
  BY <1>4, FilesAssumption DEF Child
<1> QED BY <1>2, <1>3, <1>4, <1>5 DEF Child

\* A path of the same length as one below which it is, is that one.
LEMMA UnderOfSameLength ==
  ASSUME NEW q \in Seq(STRING), NEW p \in Seq(STRING), Under(q, p), Len(p) <= Len(q)
  PROVE  q = p
<1>1. Len(q) \in Nat /\ Len(p) \in Nat
  BY LenProperties
<1>2. Len(q) <= Len(p) /\ \A i \in 1 .. Len(q) : q[i] = p[i]
  BY UnderIs
<1>3. Len(q) = Len(p)
  BY <1>1, <1>2
<1> QED BY <1>2, <1>3, SeqEqual

\* What is above a path is above or below what else is above it.
LEMMA UnderBoth ==
  ASSUME NEW q \in Seq(STRING), NEW t \in Seq(STRING), NEW p \in Seq(STRING), Under(q, p), Under(t, p)
  PROVE  Under(q, t) \/ Under(t, q)
<1>1. Len(q) \in Nat /\ Len(t) \in Nat /\ Len(p) \in Nat
  BY LenProperties
<1>2. /\ Len(q) <= Len(p) /\ \A i \in 1 .. Len(q) : q[i] = p[i]
      /\ Len(t) <= Len(p) /\ \A i \in 1 .. Len(t) : t[i] = p[i]
  BY UnderIs
<1>3. CASE Len(q) <= Len(t)
  <2>1. \A i \in 1 .. Len(q) : q[i] = t[i]
    BY <1>1, <1>2, <1>3
  <2> QED BY <1>3, <2>1, UnderIs
<1>4. CASE Len(t) <= Len(q)
  <2>1. \A i \in 1 .. Len(t) : t[i] = q[i]
    BY <1>1, <1>2, <1>4
  <2> QED BY <1>4, <2>1, UnderIs
<1> QED BY <1>1, <1>3, <1>4

\* What is below p follows it to q.
LEMMA RenamedIs ==
  ASSUME NEW p \in Seq(STRING), NEW q \in Seq(STRING), NEW x \in Seq(STRING), Under(p, x)
  PROVE  LET y == Renamed(p, q, x) IN
         /\ y \in Seq(STRING) /\ Len(y) = Len(q) + (Len(x) - Len(p)) /\ Under(q, y)
         /\ \A i \in 1 .. Len(y) : y[i] = IF i <= Len(q) THEN q[i] ELSE x[Len(p) + (i - Len(q))]
         /\ x = p => y = q
<1> DEFINE y == Renamed(p, q, x)
           s == SubSeq(x, Len(p) + 1, Len(x))
<1>1. Len(p) \in Nat /\ Len(q) \in Nat /\ Len(x) \in Nat /\ Len(p) <= Len(x)
  BY LenProperties, UnderIs
<1>2. /\ s \in Seq(STRING) /\ Len(s) = Len(x) - Len(p)
      /\ \A i \in 1 .. Len(s) : s[i] = x[Len(p) + i]
  <2>1. Len(p) + 1 \in Int /\ Len(x) \in Int
    BY <1>1
  <2>2. \A i \in Len(p) + 1 .. Len(x) : x[i] \in STRING
    BY <1>1, ElementOfSeq
  <2>3. /\ s \in Seq(STRING)
        /\ Len(s) = IF Len(p) + 1 <= Len(x) THEN Len(x) - (Len(p) + 1) + 1 ELSE 0
        /\ \A i \in 1 .. Len(x) - (Len(p) + 1) + 1 : s[i] = x[Len(p) + 1 + i - 1]
    BY <2>1, <2>2, SubSeqProperties
  <2> HIDE DEF s
  <2>4. Len(s) = Len(x) - Len(p)
    BY <1>1, <2>3
  <2>5. \A i \in 1 .. Len(s) : i \in 1 .. Len(x) - (Len(p) + 1) + 1 /\ Len(p) + 1 + i - 1 = Len(p) + i
    BY <1>1, <2>4
  <2>6. ASSUME NEW i \in 1 .. Len(s) PROVE s[i] = x[Len(p) + i]
    BY <2>3, <2>5
  <2> QED BY <2>3, <2>4, <2>6
<1>3. y = q \o s
  BY DEF Renamed
<1> HIDE DEF y, s
<1>4. /\ y \in Seq(STRING) /\ Len(y) = Len(q) + (Len(x) - Len(p))
      /\ \A i \in 1 .. Len(y) : y[i] = IF i <= Len(q) THEN q[i] ELSE s[i - Len(q)]
  <2>1. /\ y \in Seq(STRING) /\ Len(y) = Len(q) + Len(s)
        /\ \A i \in 1 .. Len(q) + Len(s) : y[i] = IF i <= Len(q) THEN q[i] ELSE s[i - Len(q)]
    BY <1>2, <1>3, ConcatProperties
  <2> QED BY <1>2, <2>1
<1>5. ASSUME NEW i \in 1 .. Len(y)
      PROVE  y[i] = IF i <= Len(q) THEN q[i] ELSE x[Len(p) + (i - Len(q))]
  <2>1. ~(i <= Len(q)) => i - Len(q) \in 1 .. Len(s)
    BY <1>1, <1>2, <1>4
  <2> QED BY <1>2, <1>4, <2>1
<1>6. Under(q, y)
  <2>1. Len(q) <= Len(y) /\ \A i \in 1 .. Len(q) : q[i] = y[i]
    BY <1>1, <1>4, <1>5
  <2> QED BY <1>4, <2>1, UnderIs
<1>7. x = p => y = q
  <2> SUFFICES ASSUME x = p PROVE y = q
    OBVIOUS
  <2>1. Len(y) = Len(q) /\ \A i \in 1 .. Len(y) : y[i] = q[i]
    BY <1>1, <1>4, <1>5
  <2> QED BY <1>4, <2>1, SeqEqual
<1> QED BY <1>4, <1>5, <1>6, <1>7 DEF y

LEMMA RenamedFront ==
  ASSUME NEW p \in Seq(STRING), NEW q \in Seq(STRING), q # << >>, NEW x \in Seq(STRING), Under(p, x), x # p
  PROVE  /\ x # << >> /\ Under(p, Front(x))
         /\ Front(Renamed(p, q, x)) = Renamed(p, q, Front(x))
<1> DEFINE y == Renamed(p, q, x)
           z == Renamed(p, q, Front(x))
<1>1. Len(p) \in Nat /\ Len(x) \in Nat /\ Len(p) <= Len(x) /\ Len(q) \in Nat /\ Len(q) >= 1
  BY LenProperties, UnderIs, EmptySeq
<1>2. Len(p) # Len(x)
  BY UnderOfSameLength, <1>1
<1>3. x # << >>
  BY <1>1, <1>2, EmptySeq
<1>4. /\ Under(p, Front(x)) /\ Front(x) \in Seq(STRING) /\ Len(Front(x)) = Len(x) - 1
      /\ \A i \in 1 .. Len(x) - 1 : Front(x)[i] = x[i]
  BY <1>3, UnderFront, FrontIs
<1>5. /\ y \in Seq(STRING) /\ Len(y) = Len(q) + (Len(x) - Len(p))
      /\ \A i \in 1 .. Len(y) : y[i] = IF i <= Len(q) THEN q[i] ELSE x[Len(p) + (i - Len(q))]
  BY RenamedIs
<1>6. /\ z \in Seq(STRING) /\ Len(z) = Len(q) + (Len(x) - 1 - Len(p))
      /\ \A i \in 1 .. Len(z) : z[i] = IF i <= Len(q) THEN q[i] ELSE Front(x)[Len(p) + (i - Len(q))]
  <2> DEFINE f == Front(x)
  <2>1. f \in Seq(STRING) /\ Under(p, f) /\ Len(f) = Len(x) - 1
    BY <1>4
  <2> HIDE DEF f
  <2>2. LET w == Renamed(p, q, f) IN
        /\ w \in Seq(STRING) /\ Len(w) = Len(q) + (Len(f) - Len(p))
        /\ \A i \in 1 .. Len(w) : w[i] = IF i <= Len(q) THEN q[i] ELSE f[Len(p) + (i - Len(q))]
    BY <2>1, RenamedIs
  <2> QED BY <2>1, <2>2 DEF f
<1> HIDE DEF y, z
<1>7. y # << >>
  BY <1>1, <1>5, EmptySeq
<1>8. Front(y) \in Seq(STRING) /\ Len(Front(y)) = Len(y) - 1 /\ \A i \in 1 .. Len(y) - 1 : Front(y)[i] = y[i]
  BY <1>5, <1>7, FrontIs
<1>9. Len(Front(y)) = Len(z)
  BY <1>1, <1>5, <1>6, <1>8
<1>10. ASSUME NEW i \in 1 .. Len(z) PROVE Front(y)[i] = z[i]
  <2>1. i \in 1 .. Len(y) - 1 /\ i \in 1 .. Len(y)
    BY <1>1, <1>5, <1>6, <1>8, <1>9
  <2>2. ~(i <= Len(q)) => Len(p) + (i - Len(q)) \in 1 .. Len(x) - 1
    BY <1>1, <1>6
  <2> QED BY <1>4, <1>5, <1>6, <1>8, <2>1, <2>2
<1>11. Front(y) = z
  BY <1>6, <1>8, <1>9, <1>10, SeqEqual
<1> QED BY <1>3, <1>4, <1>11 DEF y, z

-----------------------------------------------------------------------------
(* Sequences of events, and what they say of a path.                        *)

\* The event says that something is at p, or that nothing is there any more.
Gives(e, p) == e.path = p /\ e.type # "delete"
Takes(e, p) == (e.path = p /\ e.type = "delete") \/ (e.old = p /\ e.path # p)

\* What the last event that gives or takes p does, if there is any.
NoGives(q, p) == \A k \in 1 .. Len(q) : ~Gives(q[k], p)
NoTakes(q, p) == \A k \in 1 .. Len(q) : ~Takes(q[k], p)
Given(q, p) == \E k \in 1 .. Len(q) : Gives(q[k], p) /\ \A j \in k + 1 .. Len(q) : ~Takes(q[j], p)
Taken(q, p) == \E k \in 1 .. Len(q) : Takes(q[k], p) /\ \A j \in k + 1 .. Len(q) : ~Gives(q[j], p)

\* An event of the end of p itself.
Ends(e, p) == e.path = p /\ (e.type = "delete" \/ (e.type = "rename" /\ e.old = << >>))
Ended(q, p) == \E k \in 1 .. Len(q) : Ends(q[k], p)

LEMMA SaidTogether ==
  ASSUME NEW S, NEW q \in Seq(S), NEW s \in Seq(S), NEW p
  PROVE  /\ NoGives(q \o s, p) <=> NoGives(q, p) /\ NoGives(s, p)
         /\ NoTakes(q \o s, p) <=> NoTakes(q, p) /\ NoTakes(s, p)
         /\ Given(q \o s, p) <=> Given(s, p) \/ (Given(q, p) /\ NoTakes(s, p))
         /\ Taken(q \o s, p) <=> Taken(s, p) \/ (Taken(q, p) /\ NoGives(s, p))
         /\ Ended(q \o s, p) <=> Ended(q, p) \/ Ended(s, p)
<1> DEFINE c == q \o s
           m == Len(q)
           n == Len(s)
<1>1. m \in Nat /\ n \in Nat
  BY LenProperties
<1>2. Len(c) = m + n /\ \A i \in 1 .. m + n : c[i] = IF i <= m THEN q[i] ELSE s[i - m]
  BY ConcatProperties
<1>3. /\ \A i \in 1 .. m : i \in 1 .. Len(c) /\ c[i] = q[i]
      /\ \A i \in 1 .. n : m + i \in 1 .. Len(c) /\ c[m + i] = s[i]
  <2>1. ASSUME NEW i \in 1 .. m PROVE i \in 1 .. Len(c) /\ c[i] = q[i]
    BY <1>1, <1>2
  <2>2. ASSUME NEW i \in 1 .. n PROVE m + i \in 1 .. Len(c) /\ c[m + i] = s[i]
    <3>1. m + i \in 1 .. m + n /\ ~(m + i <= m) /\ m + i - m = i
      BY <1>1
    <3> QED BY <1>2, <3>1
  <2> QED BY <2>1, <2>2
<1>4. \A k \in 1 .. Len(c) :
         \/ k \in 1 .. m /\ c[k] = q[k]
         \/ \E i \in 1 .. n : k = m + i /\ c[k] = s[i]
  <2> SUFFICES ASSUME NEW k \in 1 .. Len(c), ~(k <= m)
               PROVE  \E i \in 1 .. n : k = m + i /\ c[k] = s[i]
    BY <1>1, <1>2
  <2>1. k - m \in 1 .. n /\ k = m + (k - m) /\ c[k] = s[k - m]
    BY <1>1, <1>2
  <2> QED BY <2>1
<1> HIDE DEF c
<1>5. NoGives(c, p) <=> NoGives(q, p) /\ NoGives(s, p)
  BY <1>3, <1>4 DEF NoGives, m, n
<1>6. NoTakes(c, p) <=> NoTakes(q, p) /\ NoTakes(s, p)
  BY <1>3, <1>4 DEF NoTakes, m, n
<1>7. Ended(c, p) <=> Ended(q, p) \/ Ended(s, p)
  BY <1>3, <1>4 DEF Ended, m, n
<1> HIDE DEF m, n
<1>8. ASSUME NEW k \in 1 .. m, NEW j \in k + 1 .. Len(c)
      PROVE  (j \in k + 1 .. m /\ c[j] = q[j]) \/ \E i \in 1 .. n : c[j] = s[i]
  BY <1>1, <1>2, <1>4
<1>9. ASSUME NEW k \in 1 .. n, NEW j \in m + k + 1 .. Len(c)
      PROVE  \E i \in k + 1 .. n : c[j] = s[i]
  <2>1. j \in 1 .. Len(c) /\ ~(j <= m)
    BY <1>1, <1>2
  <2>2. PICK i \in 1 .. n : j = m + i /\ c[j] = s[i]
    BY <1>1, <1>4, <2>1
  <2>3. i \in k + 1 .. n
    BY <1>1, <2>2
  <2> QED BY <2>2, <2>3
<1>10. ASSUME NEW k \in 1 .. m, NEW j \in k + 1 .. m PROVE j \in k + 1 .. Len(c) /\ c[j] = q[j]
  BY <1>1, <1>2, <1>3
<1>11. ASSUME NEW k \in 1 .. m, NEW i \in 1 .. n PROVE m + i \in k + 1 .. Len(c) /\ c[m + i] = s[i]
  BY <1>1, <1>2, <1>3
<1>12. ASSUME NEW k \in 1 .. n, NEW i \in k + 1 .. n PROVE m + i \in m + k + 1 .. Len(c) /\ c[m + i] = s[i]
  BY <1>1, <1>2, <1>3
<1>13. Given(c, p) <=> Given(s, p) \/ (Given(q, p) /\ NoTakes(s, p))
  <2>1. ASSUME Given(c, p) PROVE Given(s, p) \/ (Given(q, p) /\ NoTakes(s, p))
    <3>1. PICK k \in 1 .. Len(c) : Gives(c[k], p) /\ \A j \in k + 1 .. Len(c) : ~Takes(c[j], p)
      BY <2>1 DEF Given
    <3>2. CASE k \in 1 .. m /\ c[k] = q[k]
      <4>1. \A j \in k + 1 .. m : ~Takes(q[j], p)
        BY <1>10, <3>1, <3>2
      <4>2. \A i \in 1 .. n : ~Takes(s[i], p)
        BY <1>11, <3>1, <3>2
      <4> QED BY <3>1, <3>2, <4>1, <4>2 DEF Given, NoTakes, m, n
    <3>3. CASE \E i \in 1 .. n : k = m + i /\ c[k] = s[i]
      <4>1. PICK i \in 1 .. n : k = m + i /\ c[k] = s[i]
        BY <3>3
      <4>2. \A j \in i + 1 .. n : ~Takes(s[j], p)
        BY <1>12, <3>1, <4>1
      <4> QED BY <3>1, <4>1, <4>2 DEF Given, n
    <3> QED BY <1>4, <3>2, <3>3
  <2>2. ASSUME Given(s, p) PROVE Given(c, p)
    <3>1. PICK k \in 1 .. n : Gives(s[k], p) /\ \A j \in k + 1 .. n : ~Takes(s[j], p)
      BY <2>2 DEF Given, n
    <3>2. \A j \in m + k + 1 .. Len(c) : ~Takes(c[j], p)
      BY <1>9, <3>1
    <3> QED BY <1>3, <3>1, <3>2 DEF Given
  <2>3. ASSUME Given(q, p), NoTakes(s, p) PROVE Given(c, p)
    <3>1. PICK k \in 1 .. m : Gives(q[k], p) /\ \A j \in k + 1 .. m : ~Takes(q[j], p)
      BY <2>3 DEF Given, m
    <3>2. \A j \in k + 1 .. Len(c) : ~Takes(c[j], p)
      BY <1>8, <2>3, <3>1 DEF NoTakes, n
    <3> QED BY <1>3, <3>1, <3>2 DEF Given
  <2> QED BY <2>1, <2>2, <2>3
<1>14. Taken(c, p) <=> Taken(s, p) \/ (Taken(q, p) /\ NoGives(s, p))
  <2>1. ASSUME Taken(c, p) PROVE Taken(s, p) \/ (Taken(q, p) /\ NoGives(s, p))
    <3>1. PICK k \in 1 .. Len(c) : Takes(c[k], p) /\ \A j \in k + 1 .. Len(c) : ~Gives(c[j], p)
      BY <2>1 DEF Taken
    <3>2. CASE k \in 1 .. m /\ c[k] = q[k]
      <4>1. \A j \in k + 1 .. m : ~Gives(q[j], p)
        BY <1>10, <3>1, <3>2
      <4>2. \A i \in 1 .. n : ~Gives(s[i], p)
        BY <1>11, <3>1, <3>2
      <4> QED BY <3>1, <3>2, <4>1, <4>2 DEF Taken, NoGives, m, n
    <3>3. CASE \E i \in 1 .. n : k = m + i /\ c[k] = s[i]
      <4>1. PICK i \in 1 .. n : k = m + i /\ c[k] = s[i]
        BY <3>3
      <4>2. \A j \in i + 1 .. n : ~Gives(s[j], p)
        BY <1>12, <3>1, <4>1
      <4> QED BY <3>1, <4>1, <4>2 DEF Taken, n
    <3> QED BY <1>4, <3>2, <3>3
  <2>2. ASSUME Taken(s, p) PROVE Taken(c, p)
    <3>1. PICK k \in 1 .. n : Takes(s[k], p) /\ \A j \in k + 1 .. n : ~Gives(s[j], p)
      BY <2>2 DEF Taken, n
    <3>2. \A j \in m + k + 1 .. Len(c) : ~Gives(c[j], p)
      BY <1>9, <3>1
    <3> QED BY <1>3, <3>1, <3>2 DEF Taken
  <2>3. ASSUME Taken(q, p), NoGives(s, p) PROVE Taken(c, p)
    <3>1. PICK k \in 1 .. m : Takes(q[k], p) /\ \A j \in k + 1 .. m : ~Gives(q[j], p)
      BY <2>3 DEF Taken, m
    <3>2. \A j \in k + 1 .. Len(c) : ~Gives(c[j], p)
      BY <1>8, <2>3, <3>1 DEF NoGives, n
    <3> QED BY <1>3, <3>1, <3>2 DEF Taken
  <2> QED BY <2>1, <2>2, <2>3
<1> QED BY <1>5, <1>6, <1>7, <1>13, <1>14 DEF c

LEMMA SaidByNone ==
  ASSUME NEW p
  PROVE  NoGives(<< >>, p) /\ NoTakes(<< >>, p) /\ ~Given(<< >>, p) /\ ~Taken(<< >>, p) /\ ~Ended(<< >>, p)
BY EmptySeq DEF NoGives, NoTakes, Given, Taken, Ended

LEMMA SaidByOne ==
  ASSUME NEW e, NEW p
  PROVE  /\ NoGives(<<e>>, p) <=> ~Gives(e, p)
         /\ NoTakes(<<e>>, p) <=> ~Takes(e, p)
         /\ Given(<<e>>, p) <=> Gives(e, p)
         /\ Taken(<<e>>, p) <=> Takes(e, p)
         /\ Ended(<<e>>, p) <=> Ends(e, p)
<1>1. Len(<<e>>) = 1 /\ <<e>>[1] = e
  OBVIOUS
<1>2. 1 .. Len(<<e>>) = {1} /\ 1 + 1 .. Len(<<e>>) = {}
  BY <1>1
<1> QED BY <1>1, <1>2 DEF NoGives, NoTakes, Given, Taken, Ended

\* Whoever says nothing of p leaves open what was said before.
LEMMA SaidOf ==
  ASSUME NEW q, NEW p, Len(q) \in Nat
  PROVE  /\ (\E k \in 1 .. Len(q) : Gives(q[k], p)) /\ NoTakes(q, p) => Given(q, p)
         /\ (\E k \in 1 .. Len(q) : Takes(q[k], p)) /\ NoGives(q, p) => Taken(q, p)
BY DEF NoGives, NoTakes, Given, Taken

-----------------------------------------------------------------------------
(* What a scan finds.                                                       *)

LEMMA SetToSeqIs ==
  ASSUME NEW S, IsFiniteSet(S)
  PROVE  LET s == SetToSeq(S) IN
         /\ s \in Seq(S) /\ Len(s) \in Nat
         /\ \A k \in 1 .. Len(s) : s[k] \in S
         /\ \A x \in S : \E k \in 1 .. Len(s) : s[k] = x
<1> DEFINE n == Cardinality(S)
           s == SetToSeq(S)
<1>1. n \in Nat /\ Bijection(1 .. n, S) # {}
  BY FS_CardinalityType DEF ExistsBijection
<1>2. PICK f : f \in Injection(1 .. n, S)
  BY <1>1 DEF Bijection
<1>3. f \in [1 .. n -> S] /\ IsInjective(f)
  BY <1>2 DEF Injection
<1>4. s \in [1 .. n -> S] /\ IsInjective(s)
  BY <1>3 DEF SetToSeq
<1> HIDE DEF s
<1>5. s \in Injection(1 .. n, S)
  BY <1>4 DEF Injection
<1>6. IsFiniteSet(1 .. n) /\ Cardinality(1 .. n) = n
  BY <1>1, FS_Interval
<1>7. s \in Surjection(1 .. n, S)
  BY <1>5, <1>6, FS_Injection
<1>8. \A x \in S : \E k \in 1 .. n : s[k] = x
  BY <1>7 DEF Surjection
<1>9. s \in Seq(S) /\ DOMAIN s = 1 .. n
  BY <1>1, <1>4, SeqDef
<1>10. DOMAIN s = 1 .. Len(s) /\ Len(s) \in Nat
  BY <1>9, LenProperties
<1>11. 1 .. n = 1 .. Len(s)
  BY <1>9, <1>10
<1> QED BY <1>4, <1>8, <1>9, <1>10, <1>11 DEF s

EventTypes == {"create", "modify", "delete", "rename"}

\* The events of paths, in some order.
LEMMA EventsOfPaths ==
  ASSUME NEW type \in EventTypes, NEW paths \in SUBSET Path
  PROVE  LET s == SetToSeq({FileEvent(type, p) : p \in paths}) IN
         /\ s \in Seq({FileEvent(type, p) : p \in paths}) /\ Len(s) \in Nat
         /\ \A k \in 1 .. Len(s) : \E p \in paths : s[k] = FileEvent(type, p)
         /\ \A p \in paths : \E k \in 1 .. Len(s) : s[k] = FileEvent(type, p)
<1> DEFINE S == {FileEvent(type, p) : p \in paths}
           f == [p \in paths |-> FileEvent(type, p)]
<1>1. IsFiniteSet(paths)
  BY FilesAssumption, FS_Subset
<1>2. f \in Surjection(paths, S)
  BY DEF Surjection
<1>3. IsFiniteSet(S)
  BY <1>1, <1>2, FS_Surjection
<1> HIDE DEF S
<1>4. LET s == SetToSeq(S) IN
      /\ s \in Seq(S) /\ Len(s) \in Nat
      /\ \A k \in 1 .. Len(s) : s[k] \in S
      /\ \A x \in S : \E k \in 1 .. Len(s) : s[k] = x
  BY <1>3, SetToSeqIs
<1> QED BY <1>4 DEF S

\* An event of an item that watches r: of r itself or of what is directly in it.
KqEvents(r) ==
    {e \in FileEvents :
        /\ e.path \in {r} \cup Child(r)
        /\ e.old # << >> => e.type = "rename" /\ e.old # e.path /\ {e.path, e.old} \subseteq Child(r)}

\* What such events say of the paths in r.
LEMMA SaidOfPaths ==
  ASSUME NEW r \in Path, NEW type \in EventTypes, NEW paths \in SUBSET Child(r)
  PROVE  LET s == SetToSeq({FileEvent(type, p) : p \in paths}) IN
         /\ s \in Seq(KqEvents(r)) /\ Len(s) \in Nat
         /\ \A k \in 1 .. Len(s) : s[k].path \in paths
         /\ \A p \in Path : type # "delete" \/ p \notin paths => NoTakes(s, p)
         /\ \A p \in Path : type = "delete" \/ p \notin paths => NoGives(s, p)
         /\ \A p \in paths : IF type = "delete" THEN Taken(s, p) ELSE Given(s, p)
<1> DEFINE S == {FileEvent(type, p) : p \in paths}
           s == SetToSeq(S)
<1>1. paths \subseteq Path
  BY DEF Child
<1>2. /\ s \in Seq(S) /\ Len(s) \in Nat
      /\ \A k \in 1 .. Len(s) : \E p \in paths : s[k] = FileEvent(type, p)
      /\ \A p \in paths : \E k \in 1 .. Len(s) : s[k] = FileEvent(type, p)
  BY <1>1, EventsOfPaths
<1>3. \A p \in paths : /\ FileEvent(type, p) \in KqEvents(r)
                       /\ FileEvent(type, p).path = p /\ FileEvent(type, p).old = << >>
                       /\ FileEvent(type, p).type = type
  BY <1>1 DEF FileEvent, FileEvents, KqEvents, EventTypes
<1>4. s \in Seq(KqEvents(r))
  <2>1. S \subseteq KqEvents(r)
    BY <1>3
  <2> HIDE DEF s, S
  <2> QED BY <1>2, <2>1, SeqMonotonic
<1> HIDE DEF s, S
<1>5. /\ \A k \in 1 .. Len(s) : s[k].path \in paths /\ s[k].type = type /\ s[k].old = << >>
      /\ \A p \in paths : \E k \in 1 .. Len(s) : s[k].path = p /\ s[k].type = type
  BY <1>2, <1>3
<1>6. \A p \in Path : p # << >>
  BY FilesAssumption
<1>7. \A p \in Path : type # "delete" \/ p \notin paths => NoTakes(s, p)
  BY <1>5, <1>6 DEF NoTakes, Takes
<1>8. \A p \in Path : type = "delete" \/ p \notin paths => NoGives(s, p)
  BY <1>5 DEF NoGives, Gives
<1>9. ASSUME NEW p \in paths PROVE IF type = "delete" THEN Taken(s, p) ELSE Given(s, p)
  <2>1. PICK k \in 1 .. Len(s) : s[k].path = p /\ s[k].type = type
    BY <1>5
  <2>2. IF type = "delete" THEN Takes(s[k], p) ELSE Gives(s[k], p)
    BY <2>1 DEF Gives, Takes
  <2> QED BY <1>1, <1>2, <1>7, <1>8, <2>2, SaidOf
<1> QED BY <1>2, <1>4, <1>5, <1>7, <1>8, <1>9 DEF s, S

\* The events of a scan report what it found, whatever the order.
LEMMA DiffReports ==
  ASSUME NEW r \in Path, NEW old, NEW new, NEW modified,
         DOMAIN old \subseteq Child(r), DOMAIN new \subseteq Child(r),
         modified \subseteq DOMAIN old \cap DOMAIN new
  PROVE  LET d == Diff(old, new, modified) IN
         /\ d \in Seq(KqEvents(r)) /\ \A k \in 1 .. Len(d) : d[k].path \in Child(r)
         /\ \A p \in DOMAIN new \ DOMAIN old : Given(d, p)
         /\ \A p \in DOMAIN old \ DOMAIN new : Taken(d, p)
         /\ \A p \in Path : p \in DOMAIN new \/ p \notin DOMAIN old => NoTakes(d, p)
         /\ \A p \in Path \ DOMAIN new : NoGives(d, p)
<1> DEFINE E == KqEvents(r)
           created == DOMAIN new \ DOMAIN old
           deleted == DOMAIN old \ DOMAIN new
           pair    == {c \in created \X deleted : SameType(c[1], c[2])}
           c1 == SetToSeq({FileEvent("create", q) : q \in created})
           d1 == SetToSeq({FileEvent("delete", p) : p \in deleted})
           m1 == SetToSeq({FileEvent("modify", p) : p \in modified})
           renamed == LET c == CHOOSE c \in pair : TRUE IN <<RenameEvent(c[1], c[2])>>
           Finds(s) == /\ s \in Seq(E) /\ \A k \in 1 .. Len(s) : s[k].path \in Child(r)
                       /\ \A p \in created : Given(s, p)
                       /\ \A p \in deleted : Taken(s, p)
                       /\ \A p \in Path : p \notin deleted => NoTakes(s, p)
                       /\ \A p \in Path : p \notin created => NoGives(s, p)
<1>1. /\ created \subseteq Path /\ deleted \subseteq Path /\ created \cap deleted = {}
      /\ modified \subseteq Child(r) /\ modified \subseteq Path
  BY DEF Child
<1>2. Finds(c1 \o d1)
  <2>1. /\ c1 \in Seq(E) /\ Len(c1) \in Nat /\ \A k \in 1 .. Len(c1) : c1[k].path \in created
        /\ \A p \in Path : NoTakes(c1, p) /\ (p \notin created => NoGives(c1, p))
        /\ \A p \in created : Given(c1, p)
    BY SaidOfPaths DEF EventTypes
  <2>2. /\ d1 \in Seq(E) /\ Len(d1) \in Nat /\ \A k \in 1 .. Len(d1) : d1[k].path \in deleted
        /\ \A p \in Path : NoGives(d1, p) /\ (p \notin deleted => NoTakes(d1, p))
        /\ \A p \in deleted : Taken(d1, p)
    BY SaidOfPaths DEF EventTypes
  <2> HIDE DEF c1, d1, E
  <2> DEFINE s == c1 \o d1
  <2>3. /\ s \in Seq(E) /\ \A k \in 1 .. Len(s) : s[k].path \in Child(r)
    <3>1. /\ s \in Seq(E) /\ Len(s) = Len(c1) + Len(d1)
          /\ \A i \in 1 .. Len(c1) + Len(d1) : s[i] = IF i <= Len(c1) THEN c1[i] ELSE d1[i - Len(c1)]
      BY <2>1, <2>2, ConcatProperties
    <3> HIDE DEF s, created, deleted
    <3>2. ASSUME NEW i \in 1 .. Len(s) PROVE s[i].path \in created \cup deleted
      <4>1. i <= Len(c1) \/ i - Len(c1) \in 1 .. Len(d1)
        BY <2>1, <2>2, <3>1
      <4> QED BY <2>1, <2>2, <3>1, <4>1
    <3> QED BY <3>1, <3>2 DEF created, deleted
  <2>4. ASSUME NEW p
        PROVE  /\ NoGives(s, p) <=> NoGives(c1, p) /\ NoGives(d1, p)
               /\ NoTakes(s, p) <=> NoTakes(c1, p) /\ NoTakes(d1, p)
               /\ Given(s, p) <=> Given(d1, p) \/ (Given(c1, p) /\ NoTakes(d1, p))
               /\ Taken(s, p) <=> Taken(d1, p) \/ (Taken(c1, p) /\ NoGives(d1, p))
    BY <2>1, <2>2, SaidTogether
  <2> HIDE DEF s
  <2>5. \A p \in created : Given(s, p)
    BY <1>1, <2>1, <2>2, <2>4
  <2>6. \A p \in deleted : Taken(s, p)
    BY <2>2, <2>4
  <2>7. \A p \in Path : (p \notin deleted => NoTakes(s, p)) /\ (p \notin created => NoGives(s, p))
    BY <2>1, <2>2, <2>4
  <2> QED BY <2>3, <2>5, <2>6, <2>7 DEF s, E
<1>3. ASSUME Cardinality(created) = 1, Cardinality(deleted) = 1, pair # {}
      PROVE  Finds(renamed)
  <2> DEFINE c == CHOOSE c \in pair : TRUE
             e == RenameEvent(c[1], c[2])
  <2>1. c[1] \in created /\ c[2] \in deleted
    BY <1>3
  <2>2. created = {c[1]} /\ deleted = {c[2]}
    <3>1. IsFiniteSet(created) /\ IsFiniteSet(deleted)
      BY <1>1, FilesAssumption, FS_Subset
    <3>2. (\E x : created = {x}) /\ (\E x : deleted = {x})
      BY <1>3, <3>1, FS_Singleton
    <3> HIDE DEF c, created, deleted
    <3> QED BY <2>1, <3>2
  <2> HIDE DEF c
  <2>3. e \in E /\ e.path = c[1] /\ e.old = c[2] /\ e.type = "rename" /\ c[1] # c[2] /\ c[1] \in Child(r)
    BY <1>1, <2>1 DEF RenameEvent, FileEvents, KqEvents
  <2> HIDE DEF e, E
  <2>4. ASSUME NEW p
        PROVE  /\ (NoGives(<<e>>, p) <=> p # c[1]) /\ (Given(<<e>>, p) <=> p = c[1])
               /\ (NoTakes(<<e>>, p) <=> p # c[2]) /\ (Taken(<<e>>, p) <=> p = c[2])
    BY <2>3, SaidByOne DEF Gives, Takes
  <2>5. <<e>> \in Seq(E) /\ \A k \in 1 .. Len(<<e>>) : <<e>>[k].path \in Child(r)
    BY <2>3
  <2>6. renamed = <<e>>
    BY DEF c, e
  <2> QED BY <2>2, <2>4, <2>5, <2>6 DEF E
<1>4. /\ m1 \in Seq(E) /\ Len(m1) \in Nat /\ \A k \in 1 .. Len(m1) : m1[k].path \in modified
      /\ \A p \in Path : NoTakes(m1, p) /\ (p \notin modified => NoGives(m1, p))
  BY SaidOfPaths DEF EventTypes
<1>5. ASSUME NEW s, Finds(s)
      PROVE  LET d == s \o m1 IN
             /\ d \in Seq(E) /\ \A k \in 1 .. Len(d) : d[k].path \in Child(r)
             /\ \A p \in DOMAIN new \ DOMAIN old : Given(d, p)
             /\ \A p \in DOMAIN old \ DOMAIN new : Taken(d, p)
             /\ \A p \in Path : p \in DOMAIN new \/ p \notin DOMAIN old => NoTakes(d, p)
             /\ \A p \in Path \ DOMAIN new : NoGives(d, p)
  <2> DEFINE d == s \o m1
  <2> HIDE DEF m1, E
  <2>1. s \in Seq(E)
    BY <1>5 DEF E
  <2>2. /\ d \in Seq(E) /\ Len(d) = Len(s) + Len(m1) /\ Len(s) \in Nat
        /\ \A i \in 1 .. Len(s) + Len(m1) : d[i] = IF i <= Len(s) THEN s[i] ELSE m1[i - Len(s)]
    BY <1>4, <2>1, ConcatProperties, LenProperties
  <2>3. ASSUME NEW p
        PROVE  /\ NoGives(d, p) <=> NoGives(s, p) /\ NoGives(m1, p)
               /\ NoTakes(d, p) <=> NoTakes(s, p) /\ NoTakes(m1, p)
               /\ Given(d, p) <=> Given(m1, p) \/ (Given(s, p) /\ NoTakes(m1, p))
               /\ Taken(d, p) <=> Taken(m1, p) \/ (Taken(s, p) /\ NoGives(m1, p))
    BY <1>4, <2>1, SaidTogether
  <2> HIDE DEF d
  <2>4. ASSUME NEW i \in 1 .. Len(d) PROVE d[i].path \in Child(r)
    <3>1. \/ i \in 1 .. Len(s) /\ d[i] = s[i]
          \/ i - Len(s) \in 1 .. Len(m1) /\ d[i] = m1[i - Len(s)]
      BY <1>4, <2>2
    <3>2. \A k \in 1 .. Len(s) : s[k].path \in Child(r)
      BY <1>5
    <3>3. \A k \in 1 .. Len(m1) : m1[k].path \in Child(r)
      BY <1>1, <1>4
    <3> QED BY <3>1, <3>2, <3>3
  <2>5. \A p \in created : Given(d, p)
    BY <1>1, <1>4, <1>5, <2>3
  <2>6. \A p \in deleted : Taken(d, p)
    BY <1>1, <1>4, <1>5, <2>3
  <2>7. \A p \in Path : p \notin deleted => NoTakes(d, p)
    BY <1>4, <1>5, <2>3
  <2>8. \A p \in Path : p \notin DOMAIN new => NoGives(d, p)
    BY <1>4, <1>5, <2>3
  <2> QED BY <2>2, <2>4, <2>5, <2>6, <2>7, <2>8 DEF d
<1>6. Diff(old, new, modified) = (IF Cardinality(created) = 1 /\ Cardinality(deleted) = 1 /\ pair # {}
                                  THEN renamed ELSE c1 \o d1) \o m1
  BY DEF Diff
<1> HIDE DEF c1, d1, m1, renamed, created, deleted, pair, E
<1>7. CASE Cardinality(created) = 1 /\ Cardinality(deleted) = 1 /\ pair # {}
  <2>1. Diff(old, new, modified) = renamed \o m1
    BY <1>6, <1>7
  <2>2. Finds(renamed)
    BY <1>3, <1>7
  <2> HIDE DEF Finds
  <2> QED BY <1>5, <2>1, <2>2 DEF E
<1>8. CASE ~(Cardinality(created) = 1 /\ Cardinality(deleted) = 1 /\ pair # {})
  <2>1. Diff(old, new, modified) = (c1 \o d1) \o m1
    BY <1>6, <1>8
  <2> HIDE DEF Finds
  <2> QED BY <1>2, <1>5, <2>1 DEF E
<1> QED BY <1>7, <1>8

-----------------------------------------------------------------------------
(* What the follower makes of an event.                                     *)

LEMMA CopiedIs ==
  ASSUME NEW m, NEW p
  PROVE  /\ \A x : x \in DOMAIN Copied(m, p) <=> x \in DOMAIN m \/ (x = p /\ p \in DOMAIN fs)
         /\ p \in DOMAIN fs => Copied(m, p)[p] = fs[p].content
         /\ \A x \in DOMAIN m \ {p} : Copied(m, p)[x] = m[x]
BY DEF Copied, With

LEMMA CopiesAreNamed ==
  ASSUME NEW m, DOMAIN m \subseteq Seq(STRING), NEW e \in FileEvents, DOMAIN fs \subseteq Path
  PROVE  DOMAIN Followed(m, e) \subseteq Seq(STRING)
<1>1. e.path \in Seq(STRING) /\ (e.old # << >> => e.old \in Seq(STRING)) /\ e.type \in EventTypes
  BY FilesAssumption DEF FileEvents, EventTypes
<1>2. ASSUME NEW n, DOMAIN n \subseteq Seq(STRING) PROVE DOMAIN Copied(n, e.path) \subseteq Seq(STRING)
  BY <1>1, <1>2, CopiedIs
<1>3. DOMAIN Without(m, {e.path}) \subseteq Seq(STRING)
  BY WithoutIs
<1>4. CASE e.type \in {"create", "modify"} \/ e.type = "delete" \/ (e.type = "rename" /\ e.old = << >>)
  BY <1>2, <1>3, <1>4 DEF Followed
<1>5. CASE e.type = "rename" /\ e.old # << >>
  <2> DEFINE moved == {x \in DOMAIN m : Under(e.old, x)}
             kept  == Without(m, moved)
             to    == {Renamed(e.old, e.path, x) : x \in moved}
             f     == [y \in to |-> m[CHOOSE x \in moved : Renamed(e.old, e.path, x) = y]]
  <2>1. Followed(m, e) = Copied(Joined(f, kept), e.path)
    BY <1>5 DEF Followed
  <2>2. DOMAIN kept \subseteq Seq(STRING)
    BY WithoutIs
  <2>3. to \subseteq Seq(STRING)
    BY <1>1, <1>5, RenamedIs
  <2>4. DOMAIN f = to
    OBVIOUS
  <2> HIDE DEF f, kept
  <2>5. DOMAIN Joined(f, kept) \subseteq Seq(STRING)
    <3>1. DOMAIN Joined(f, kept) = DOMAIN f \cup DOMAIN kept
      BY JoinedIs
    <3> QED BY <2>2, <2>3, <2>4, <3>1
  <2> QED BY <1>2, <2>1, <2>5
<1> QED BY <1>1, <1>4, <1>5 DEF EventTypes

\* The event moves nothing that p is below, unless it is p.
Plain(e, p) ==
    /\ e.old # << >> /\ Under(e.path, p) => e.path = p
    /\ e.old # << >> /\ Under(e.old, p) => e.old = p
    /\ e.old = p => e.type = "rename"

LEMMA CopiesFollow ==
  ASSUME NEW m, DOMAIN m \subseteq Seq(STRING), NEW e \in FileEvents, NEW p \in Path, Plain(e, p)
  PROVE  LET n == Followed(m, e) IN
         /\ ~Gives(e, p) /\ ~Takes(e, p) =>
               (p \in DOMAIN n <=> p \in DOMAIN m) /\ (p \in DOMAIN m => n[p] = m[p])
         /\ Takes(e, p) => p \notin DOMAIN n
         /\ Gives(e, p) /\ p \in DOMAIN fs => p \in DOMAIN n /\ n[p] = fs[p].content
         /\ Ends(e, p) /\ p \notin DOMAIN fs => p \notin DOMAIN n
         /\ p \notin DOMAIN fs /\ p \notin DOMAIN m /\ (e.path = p => e.old = << >>) => p \notin DOMAIN n
<1> DEFINE n == Followed(m, e)
<1>1. /\ p \in Seq(STRING) /\ p # << >> /\ e.path \in Seq(STRING) /\ e.path # << >>
      /\ (e.old # << >> => e.old \in Seq(STRING)) /\ e.type \in EventTypes
  BY FilesAssumption DEF FileEvents, EventTypes
<1>2. CASE e.type \in {"create", "modify"}
  <2>1. n = Copied(m, e.path) /\ e.old # p
    BY <1>2 DEF Followed, Plain
  <2>2. /\ \A x : x \in DOMAIN n <=> x \in DOMAIN m \/ (x = e.path /\ e.path \in DOMAIN fs)
        /\ e.path \in DOMAIN fs => n[e.path] = fs[e.path].content
        /\ \A x \in DOMAIN m \ {e.path} : n[x] = m[x]
    BY <2>1, CopiedIs
  <2> HIDE DEF n
  <2> QED BY <1>2, <2>1, <2>2 DEF Gives, Takes, Ends, n
<1>3. CASE e.type = "delete"
  <2>1. n = Without(m, {e.path}) /\ e.old # p
    BY <1>3 DEF Followed, Plain
  <2> DEFINE w == Without(m, {e.path})
  <2>2. DOMAIN w = DOMAIN m \ {e.path} /\ \A x \in DOMAIN m \ {e.path} : w[x] = m[x]
    BY WithoutIs
  <2>3. n = w
    BY <2>1
  <2> HIDE DEF w
  <2> HIDE DEF n
  <2> QED BY <1>3, <2>1, <2>2, <2>3 DEF Gives, Takes, Ends, n
<1>4. CASE e.type = "rename" /\ e.old = << >>
  <2>1. n = Copied(Without(m, {e.path}), e.path) /\ e.old # p
    BY <1>1, <1>4 DEF Followed
  <2> DEFINE w == Without(m, {e.path})
  <2>2. DOMAIN w = DOMAIN m \ {e.path} /\ \A x \in DOMAIN m \ {e.path} : w[x] = m[x]
    BY WithoutIs
  <2> HIDE DEF w
  <2>3. /\ \A x : x \in DOMAIN n <=> x \in DOMAIN w \/ (x = e.path /\ e.path \in DOMAIN fs)
        /\ e.path \in DOMAIN fs => n[e.path] = fs[e.path].content
        /\ \A x \in DOMAIN w \ {e.path} : n[x] = w[x]
    BY <2>1, CopiedIs DEF w
  <2> HIDE DEF n
  <2> QED BY <1>4, <2>1, <2>2, <2>3 DEF Gives, Takes, Ends, n
<1>5. CASE e.type = "rename" /\ e.old # << >>
  <2> DEFINE moved == {x \in DOMAIN m : Under(e.old, x)}
             kept  == Without(m, moved)
             to    == {Renamed(e.old, e.path, x) : x \in moved}
             f     == [y \in to |-> m[CHOOSE x \in moved : Renamed(e.old, e.path, x) = y]]
             j     == Joined(f, kept)
  <2>1. n = Copied(j, e.path)
    BY <1>5 DEF Followed
  <2>2. DOMAIN kept = DOMAIN m \ moved /\ \A x \in DOMAIN m \ moved : kept[x] = m[x]
    BY WithoutIs
  <2>3. p \in to => p = e.path
    <3>1. \A x \in moved : x \in Seq(STRING) /\ Under(e.old, x)
      OBVIOUS
    <3>2. \A x \in moved : Under(e.path, Renamed(e.old, e.path, x))
      BY <1>1, <1>5, <3>1, RenamedIs
    <3> QED BY <1>5, <3>2 DEF Plain
  <2>4. p \in moved => p = e.old
    BY <1>5 DEF Plain
  <2>5. p = e.old /\ p \in DOMAIN m => p \in moved
    BY <1>1, UnderIsOrder
  <2>6. DOMAIN f = to
    OBVIOUS
  <2> HIDE DEF f, kept, to, moved
  <2>7. /\ DOMAIN j = to \cup DOMAIN kept
        /\ \A x \in DOMAIN kept \ to : j[x] = kept[x]
    BY <2>6, JoinedIs
  <2> HIDE DEF j
  <2>8. /\ \A x : x \in DOMAIN n <=> x \in DOMAIN j \/ (x = e.path /\ e.path \in DOMAIN fs)
        /\ e.path \in DOMAIN fs => n[e.path] = fs[e.path].content
        /\ \A x \in DOMAIN j \ {e.path} : n[x] = j[x]
    BY <2>1, CopiedIs
  <2> HIDE DEF n
  <2>9. ~Gives(e, p) /\ ~Takes(e, p) =>
           (p \in DOMAIN n <=> p \in DOMAIN m) /\ (p \in DOMAIN m => n[p] = m[p])
    <3> SUFFICES ASSUME ~Gives(e, p), ~Takes(e, p)
                 PROVE  (p \in DOMAIN n <=> p \in DOMAIN m) /\ (p \in DOMAIN m => n[p] = m[p])
      OBVIOUS
    <3>1. p # e.path /\ p # e.old
      BY <1>5 DEF Gives, Takes
    <3> QED BY <2>2, <2>3, <2>4, <2>7, <2>8, <3>1
  <2>10. Takes(e, p) => p \notin DOMAIN n
    <3> SUFFICES ASSUME Takes(e, p) PROVE p \notin DOMAIN n
      OBVIOUS
    <3>1. p # e.path /\ p = e.old
      BY <1>5 DEF Takes
    <3> QED BY <2>2, <2>3, <2>5, <2>7, <2>8, <3>1
  <2>11. p \notin DOMAIN fs /\ p \notin DOMAIN m /\ e.path # p => p \notin DOMAIN n
    BY <2>2, <2>3, <2>7, <2>8
  <2> QED BY <1>5, <2>8, <2>9, <2>10, <2>11 DEF Gives, Ends, n
<1> QED BY <1>1, <1>2, <1>3, <1>4, <1>5 DEF EventTypes

-----------------------------------------------------------------------------
(* What syncDirectChildFileWatches opens.                                   *)

\* Files that stay in the snapshot keep their descriptors, new ones get one that is asked
\* for writes.
LEMMA SyncOpens ==
  ASSUME NEW i, NEW it, NEW descriptors, NEW fdMap,
         SyncDirectChildFileWatches(i, it, descriptors, fdMap),
         it = [f \in ItemField |-> it[f]], DOMAIN descriptors = DOMAIN kernel,
         \A p \in DOMAIN it.childFileFds : it.childFileFds[p] \in DOMAIN kernel
  PROVE  LET fds == item'[i].childFileFds
             old == it.childFileFds
         IN
         /\ item'[i].children = it.children
         /\ DOMAIN fds \subseteq (DOMAIN old \cap DOMAIN it.children) \cup NewChildren(it)
         /\ \A p \in DOMAIN old \cap DOMAIN it.children :
               p \in DOMAIN fds /\ fds[p] = old[p]
         /\ \A p \in DOMAIN fds \ DOMAIN old :
               /\ fds[p] \in DOMAIN kernel' \ DOMAIN kernel
               /\ kernel'[fds[p]] = Descriptor(p, {"write"})
         /\ \A fd \in DOMAIN kernel :
               (\A p \in DOMAIN old \ DOMAIN it.children : fd # old[p]) =>
                  fd \in DOMAIN kernel' /\ kernel'[fd] = descriptors[fd]
         /\ \A fd \in DOMAIN kernel' :
               \/ fd \in DOMAIN kernel /\ kernel'[fd] = descriptors[fd]
               \/ fd \notin DOMAIN kernel /\ \E p \in NewChildren(it) : kernel'[fd] = Descriptor(p, {"write"})
<1> DEFINE gone   == DOMAIN it.childFileFds \ DOMAIN it.children
           closed == {it.childFileFds[p] : p \in gone}
           old    == it.childFileFds
<1>1. PICK opened \in Openings(NewChildren(it)) :
        /\ item' = With(item, i,
             [it EXCEPT !.childFileFds = Joined(Without(@, gone), AntiFunction(opened))])
        /\ kernel' = Without(Joined([fd \in DOMAIN opened |-> Descriptor(opened[fd], {"write"})],
                                    descriptors), closed)
  BY DEF SyncDirectChildFileWatches
<1> DEFINE anti == AntiFunction(opened)
           kept == Without(old, gone)
           new  == Joined(kept, anti)
           given == [fd \in DOMAIN opened |-> Descriptor(opened[fd], {"write"})]
           all   == Joined(given, descriptors)
<1>2. /\ NewChildren(it) \cap DOMAIN old = {}
      /\ DOMAIN opened \cap DOMAIN kernel = {}
      /\ DOMAIN anti \subseteq NewChildren(it)
      /\ \A fd \in DOMAIN opened : opened[fd] \in DOMAIN anti
      /\ \A p \in DOMAIN anti : anti[p] \in DOMAIN opened /\ opened[anti[p]] = p
  <2>1. NewChildren(it) \cap DOMAIN old = {}
    BY DEF NewChildren
  <2>2. DOMAIN opened \subseteq (1 .. MaxFd) \ DOMAIN kernel
    BY OpenedOnce
  <2>3. /\ DOMAIN anti \subseteq NewChildren(it)
        /\ \A fd \in DOMAIN opened : opened[fd] \in DOMAIN anti
        /\ \A p \in DOMAIN anti : anti[p] \in DOMAIN opened /\ opened[anti[p]] = p
    BY OpenedOnce
  <2> QED BY <2>1, <2>2, <2>3
<1>3. item'[i].children = it.children /\ item'[i].childFileFds = new
  <2> DEFINE synced == [it EXCEPT !.childFileFds = new]
  <2>1. item' = With(item, i, synced)
    BY <1>1
  <2> HIDE DEF synced
  <2>2. item'[i] = synced
    BY <2>1 DEF With
  <2>3. synced.children = it.children /\ synced.childFileFds = new
    <3> HIDE DEF new
    <3> QED BY DEF ItemField, synced
  <2> QED BY <2>2, <2>3
<1>4. /\ DOMAIN kept = DOMAIN old \cap DOMAIN it.children
      /\ \A p \in DOMAIN kept : kept[p] = old[p]
  <2> HIDE DEF old
  <2>1. DOMAIN kept = DOMAIN old \ gone /\ \A p \in DOMAIN old \ gone : kept[p] = old[p]
    BY WithoutIs
  <2> QED BY <2>1 DEF old
<1>5. /\ DOMAIN new = DOMAIN kept \cup DOMAIN anti
      /\ \A p \in DOMAIN kept : new[p] = kept[p]
      /\ \A p \in DOMAIN anti : new[p] = anti[p]
  <2>1. DOMAIN kept \cap DOMAIN anti = {}
    BY <1>2, <1>4
  <2>2. /\ DOMAIN new = DOMAIN kept \cup DOMAIN anti
        /\ \A p \in DOMAIN kept : new[p] = kept[p]
        /\ \A p \in DOMAIN anti \ DOMAIN kept : new[p] = anti[p]
    BY JoinedIs, Zenon
  <2> HIDE DEF kept, anti, new
  <2> QED BY <2>1, <2>2
<1>6. /\ DOMAIN all = DOMAIN opened \cup DOMAIN kernel
      /\ \A fd \in DOMAIN opened : all[fd] = Descriptor(opened[fd], {"write"})
      /\ \A fd \in DOMAIN kernel : all[fd] = descriptors[fd]
  <2>1. DOMAIN given = DOMAIN opened /\ \A fd \in DOMAIN opened : given[fd] = Descriptor(opened[fd], {"write"})
    OBVIOUS
  <2> HIDE DEF given
  <2>2. /\ DOMAIN all = DOMAIN given \cup DOMAIN descriptors
        /\ \A fd \in DOMAIN given : all[fd] = given[fd]
        /\ \A fd \in DOMAIN descriptors \ DOMAIN given : all[fd] = descriptors[fd]
    BY JoinedIs, Zenon
  <2> HIDE DEF all
  <2>3. DOMAIN descriptors \cap DOMAIN given = {}
    BY <1>2, <2>1
  <2> QED BY <2>1, <2>2, <2>3
<1>7. DOMAIN kernel' = DOMAIN all \ closed /\ \A fd \in DOMAIN all \ closed : kernel'[fd] = all[fd]
  <2>1. kernel' = Without(all, closed)
    BY <1>1, Zenon
  <2> HIDE DEF all, closed
  <2> QED BY <2>1, WithoutIs, Zenon
<1> DEFINE fds == item'[i].childFileFds
<1>8. closed \subseteq DOMAIN kernel /\ \A fd : fd \in closed <=> \E p \in DOMAIN old \ DOMAIN it.children : fd = old[p]
  OBVIOUS
<1>9. fds = new
  BY <1>3
<1> HIDE DEF new, kept, anti, all, given, closed, gone, fds
<1>10. DOMAIN fds \subseteq (DOMAIN old \cap DOMAIN it.children) \cup NewChildren(it)
  BY <1>2, <1>4, <1>5, <1>9
<1>11. \A p \in DOMAIN old \cap DOMAIN it.children : p \in DOMAIN fds /\ fds[p] = old[p]
  BY <1>4, <1>5, <1>9
<1>12. ASSUME NEW p \in DOMAIN fds \ DOMAIN old
       PROVE  fds[p] \in DOMAIN kernel' \ DOMAIN kernel /\ kernel'[fds[p]] = Descriptor(p, {"write"})
  <2>1. p \in DOMAIN anti /\ fds[p] = anti[p]
    BY <1>4, <1>5, <1>9, <1>12
  <2>2. anti[p] \in DOMAIN opened /\ opened[anti[p]] = p /\ anti[p] \notin closed
    BY <1>2, <1>8, <2>1
  <2> QED BY <1>2, <1>6, <1>7, <2>1, <2>2
<1>13. \A fd \in DOMAIN kernel :
          (\A p \in DOMAIN old \ DOMAIN it.children : fd # old[p]) =>
             fd \in DOMAIN kernel' /\ kernel'[fd] = descriptors[fd]
  BY <1>6, <1>7, <1>8
<1>14. ASSUME NEW fd \in DOMAIN kernel'
       PROVE  \/ fd \in DOMAIN kernel /\ kernel'[fd] = descriptors[fd]
              \/ fd \notin DOMAIN kernel /\ \E p \in NewChildren(it) : kernel'[fd] = Descriptor(p, {"write"})
  BY <1>2, <1>6, <1>7
<1> QED BY <1>3, <1>10, <1>11, <1>12, <1>13, <1>14 DEF fds

-----------------------------------------------------------------------------
(* What is at a path.                                                       *)

CountField == {"changes", "adds", "starts"}

\* No two paths share an inode, none has one of a later change, and what exists is in a
\* directory that exists.
FsTypes ==
    /\ count = [f \in CountField |-> count[f]] /\ count.changes \in Nat
    /\ DOMAIN fs \subseteq Path
    /\ \A p \in DOMAIN fs : fs[p] = [inode |-> fs[p].inode, content |-> fs[p].content]
    /\ \A p \in DOMAIN fs : \E x : \E n \in 0 .. count.changes : fs[p].inode = <<x, n>>
    /\ \A p, q \in DOMAIN fs : fs[p].inode = fs[q].inode => p = q
    /\ \A p \in DOMAIN fs : Len(p) > 1 => Front(p) \in DOMAIN fs

\* The change is counted.
LEMMA ChangeCounted ==
  ASSUME FsTypes, NEW notes, NEW records, NEW unnoticed, Changes(notes, records, unnoticed)
  PROVE  /\ count' = [f \in CountField |-> count'[f]]
         /\ count'.changes = count.changes + 1 /\ count'.changes \in Nat
         /\ 0 .. count.changes \subseteq 0 .. count'.changes /\ count'.changes \notin 0 .. count.changes
<1>1. count' = [count EXCEPT !.changes = @ + 1]
  BY DEF Changes
<1>2. count' = [f \in CountField |-> count'[f]] /\ count'.changes = count.changes + 1
  BY <1>1 DEF FsTypes, CountField
<1> QED BY <1>2 DEF FsTypes

LEMMA CreatedThere ==
  ASSUME FsTypes, NEW p \in Path, Create(p)
  PROVE  /\ FsTypes' /\ DOMAIN fs' = DOMAIN fs \cup {p} /\ p \notin DOMAIN fs
         /\ \A x \in DOMAIN fs : fs'[x] = fs[x]
         /\ Len(p) > 1 => Front(p) \in DOMAIN fs
         /\ \A x \in DOMAIN fs : fs'[p].inode # fs[x].inode
<1> DEFINE v == Fresh(p)
<1>1. /\ p \notin DOMAIN fs /\ MayExist(p) /\ fs' = With(fs, p, v)
      /\ Changes(InParent(p), <<Record1(p, "created")>>, Unnoticed({p}, {p}))
  BY DEF Create
<1>2. /\ count' = [f \in CountField |-> count'[f]] /\ count'.changes \in Nat
      /\ 0 .. count.changes \subseteq 0 .. count'.changes /\ count'.changes \notin 0 .. count.changes
  BY <1>1, ChangeCounted
<1>3. v = [inode |-> v.inode, content |-> v.content] /\ v.inode = <<p, count'.changes>>
  BY DEF Fresh
<1> HIDE DEF v
<1>4. /\ DOMAIN fs' = DOMAIN fs \cup {p} /\ fs'[p] = v
      /\ \A x \in DOMAIN fs : fs'[x] = fs[x]
  <2>1. /\ DOMAIN fs' = DOMAIN fs \cup {p} /\ fs'[p] = v
        /\ \A x \in DOMAIN fs \ {p} : fs'[x] = fs[x]
    BY <1>1 DEF With
  <2> QED BY <1>1, <2>1
<1>5. Len(p) > 1 => Front(p) \in DOMAIN fs
  <2>1. Len(p) \in Nat /\ Len(p) >= 1
    BY PathIs
  <2>2. MayExist(p)
    BY <1>1
  <2>3. ~(Len(p) = 1) => Front(p) \in DOMAIN fs
    BY <2>2, Zenon DEF MayExist
  <2>4. Len(p) > 1 => ~(Len(p) = 1)
    <3> DEFINE n == Len(p)
    <3>1. n \in Nat
      BY PathIs
    <3> HIDE DEF n
    <3>2. n > 1 => ~(n = 1)
      BY <3>1
    <3> QED BY <3>2, Zenon DEF n
  <2> QED BY <2>3, <2>4
<1>6. \A x \in DOMAIN fs : fs'[p].inode # fs[x].inode
  BY <1>2, <1>3, <1>4 DEF FsTypes
<1>7. count'.changes \in 0 .. count'.changes
  BY <1>2
<1>8. \A x \in DOMAIN fs' : \E y : \E n \in 0 .. count'.changes : fs'[x].inode = <<y, n>>
  <2> SUFFICES ASSUME NEW x \in DOMAIN fs' PROVE \E y : \E n \in 0 .. count'.changes : fs'[x].inode = <<y, n>>
    OBVIOUS
  <2>1. CASE x = p
    BY <1>3, <1>4, <1>7, <2>1
  <2>2. CASE x \in DOMAIN fs
    BY <1>2, <1>4, <2>2 DEF FsTypes
  <2> QED BY <1>4, <2>1, <2>2
<1>9. FsTypes'
  BY <1>1, <1>2, <1>3, <1>4, <1>5, <1>6, <1>8 DEF FsTypes
<1> QED BY <1>1, <1>4, <1>5, <1>6, <1>9

LEMMA WrittenThere ==
  ASSUME FsTypes, NEW p \in Path, Write(p)
  PROVE  /\ FsTypes' /\ DOMAIN fs' = DOMAIN fs /\ p \in DOMAIN fs \ Directory
         /\ \A x \in DOMAIN fs : fs'[x].inode = fs[x].inode
         /\ \A x \in DOMAIN fs \ {p} : fs'[x] = fs[x]
<1>1. /\ p \in DOMAIN fs \ Directory /\ fs' = [fs EXCEPT ![p].content = count'.changes]
      /\ Changes({Note(p, "write")}, <<Record1(p, "modified")>>, {})
  BY DEF Write
<1>2. /\ count' = [f \in CountField |-> count'[f]] /\ count'.changes \in Nat
      /\ 0 .. count.changes \subseteq 0 .. count'.changes
  BY <1>1, ChangeCounted
<1>3. DOMAIN fs' = DOMAIN fs /\ \A x \in DOMAIN fs \ {p} : fs'[x] = fs[x]
  BY <1>1
<1>4. fs'[p] = [inode |-> fs'[p].inode, content |-> fs'[p].content] /\ fs'[p].inode = fs[p].inode
  BY <1>1 DEF FsTypes
<1>5. \A x \in DOMAIN fs : fs'[x].inode = fs[x].inode
  BY <1>3, <1>4
<1>6. \A x \in DOMAIN fs' : fs'[x] = [inode |-> fs'[x].inode, content |-> fs'[x].content]
  BY <1>3, <1>4 DEF FsTypes
<1>7. FsTypes'
  <2>1. \A x \in DOMAIN fs' : \E y : \E n \in 0 .. count'.changes : fs'[x].inode = <<y, n>>
    BY <1>2, <1>3, <1>5 DEF FsTypes
  <2> QED BY <1>2, <1>3, <1>5, <1>6, <2>1 DEF FsTypes
<1> QED BY <1>1, <1>3, <1>5, <1>7

LEMMA TakenAway ==
  ASSUME FsTypes, NEW p \in Path, NEW notes, NEW records, NEW unnoticed, Changes(notes, records, unnoticed),
         p \in DOMAIN fs, fs' = Without(fs, Tree(p))
  PROVE  /\ FsTypes' /\ DOMAIN fs' = DOMAIN fs \ Tree(p) /\ p \in Tree(p)
         /\ \A x \in DOMAIN fs' : fs'[x] = fs[x]
<1>1. /\ count' = [f \in CountField |-> count'[f]] /\ count'.changes \in Nat
      /\ 0 .. count.changes \subseteq 0 .. count'.changes
  BY ChangeCounted
<1> DEFINE T == Tree(p)
<1>2. p \in T
  BY PathIs, UnderIsOrder DEF Tree
<1>3. ASSUME NEW x \in DOMAIN fs \ T, Len(x) > 1 PROVE Front(x) \in DOMAIN fs \ T
  <2>1. Front(x) \in DOMAIN fs /\ x \in Path /\ Front(x) \in Path
    BY <1>3 DEF FsTypes
  <2>2. ASSUME Front(x) \in T PROVE FALSE
    <3>1. Under(p, Front(x)) /\ Under(Front(x), x) /\ x \in Seq(STRING) /\ Front(x) \in Seq(STRING)
      BY <2>1, <2>2, UnderFront, PathIs DEF Tree
    <3>2. Under(p, x)
      BY <3>1, UnderIsOrder, PathIs
    <3> QED BY <1>3, <3>2 DEF Tree
  <2> QED BY <2>1, <2>2
<1> HIDE DEF T
<1>4. DOMAIN fs' = DOMAIN fs \ T /\ \A x \in DOMAIN fs' : fs'[x] = fs[x]
  <2>1. fs' = Without(fs, T)
    BY DEF T
  <2>2. DOMAIN fs' = DOMAIN fs \ T /\ \A x \in DOMAIN fs \ T : fs'[x] = fs[x]
    BY <2>1 DEF Without, Restrict
  <2> QED BY <2>2
<1>5. \A x \in DOMAIN fs' : \E y : \E n \in 0 .. count'.changes : fs'[x].inode = <<y, n>>
  <2> SUFFICES ASSUME NEW x \in DOMAIN fs' PROVE \E y : \E n \in 0 .. count'.changes : fs'[x].inode = <<y, n>>
    OBVIOUS
  <2>1. PICK y : \E n \in 0 .. count.changes : fs[x].inode = <<y, n>>
    BY <1>4 DEF FsTypes
  <2> QED BY <1>1, <1>4, <2>1
<1>6. FsTypes'
  BY <1>1, <1>3, <1>4, <1>5 DEF FsTypes
<1> QED BY <1>2, <1>4, <1>6 DEF T

\* What is renamed, and where to.
Moved(p, q) == {Renamed(p, q, x) : x \in Tree(p)}

LEMMA RenamedThere ==
  ASSUME FsTypes, NEW p \in Path, NEW q \in Path, Rename(p, q)
  PROVE  /\ FsTypes' /\ DOMAIN fs' = (DOMAIN fs \ Tree(p)) \cup Moved(p, q)
         /\ p \in Tree(p) /\ q \in Moved(p, q) /\ Moved(p, q) \subseteq Path /\ Moved(p, q) \cap Tree(p) = {}
         /\ \A y \in DOMAIN fs' \ Moved(p, q) : fs'[y] = fs[y]
         /\ \A y \in Moved(p, q) : Under(q, y) /\ \E x \in Tree(p) : fs'[y] = fs[x]
         /\ fs'[q] = fs[p]
<1> DEFINE T == Tree(p)
           to == Moved(p, q)
<1>1. /\ p \in DOMAIN fs /\ ~Under(p, q) /\ ~Under(q, p) /\ SameType(p, q)
      /\ Len(p) > 1 /\ Len(q) > 1 /\ Front(q) \in DOMAIN fs
      /\ q \in DOMAIN fs => q \notin Directory
      /\ \A x \in T : Renamed(p, q, x) \in Path
      /\ fs' = [y \in (DOMAIN fs \ T) \cup to |->
                  IF y \in to THEN fs[CHOOSE x \in T : Renamed(p, q, x) = y] ELSE fs[y]]
      /\ \E notes, records, unnoticed : Changes(notes, records, unnoticed)
  BY DEF Rename, Moved
<1>2. /\ count' = [f \in CountField |-> count'[f]] /\ count'.changes \in Nat
      /\ 0 .. count.changes \subseteq 0 .. count'.changes
  BY <1>1, ChangeCounted
<1>3. p \in Seq(STRING) /\ q \in Seq(STRING) /\ p # << >> /\ q # << >>
  BY PathIs
<1>4. \A x \in T : x \in DOMAIN fs /\ x \in Path /\ x \in Seq(STRING) /\ Under(p, x)
  BY PathIs DEF Tree, FsTypes
<1>5. p \in T
  BY <1>1, <1>3, UnderIsOrder DEF Tree
<1>6. Renamed(p, q, p) = q
  BY <1>3, RenamedIs, UnderIsOrder
<1>7. q \in to /\ to \subseteq Path
  BY <1>1, <1>5, <1>6 DEF Moved
<1>8. \A x \in T : Under(q, Renamed(p, q, x))
  BY <1>3, <1>4, RenamedIs
<1>9. ASSUME NEW y \in to, y \in T PROVE FALSE
  <2>1. Under(q, y) /\ Under(p, y) /\ y \in Seq(STRING)
    BY <1>4, <1>8, <1>9 DEF Moved
  <2> QED BY <1>1, <1>3, <2>1, UnderBoth
<1>10. ASSUME NEW y \in to PROVE \E x \in T : Renamed(p, q, x) = y /\ fs'[y] = fs[x]
  <2>1. \E x \in T : Renamed(p, q, x) = y
    BY DEF Moved
  <2> DEFINE c == CHOOSE x \in T : Renamed(p, q, x) = y
  <2>2. c \in T /\ Renamed(p, q, c) = y
    BY <2>1
  <2>3. fs'[y] = fs[c]
    BY <1>1
  <2> QED BY <2>2, <2>3
<1>11. DOMAIN fs' = (DOMAIN fs \ T) \cup to /\ \A y \in DOMAIN fs' \ to : fs'[y] = fs[y] /\ y \in DOMAIN fs \ T
  BY <1>1
<1>12. fs'[q] = fs[p]
  <2>1. \A x \in T : Renamed(p, q, x) = q => x = p
    <3> SUFFICES ASSUME NEW x \in T, Renamed(p, q, x) = q PROVE x = p
      OBVIOUS
    <3>1. Len(q) \in Nat /\ Len(x) \in Nat /\ Len(p) \in Nat
      BY <1>3, <1>4, LenProperties
    <3>2. Len(Renamed(p, q, x)) = Len(q) + (Len(x) - Len(p))
      BY <1>3, <1>4, RenamedIs
    <3>3. Len(x) <= Len(p)
      BY <3>1, <3>2
    <3> QED BY <1>3, <1>4, <3>3, UnderOfSameLength
  <2> QED BY <1>7, <1>10, <2>1
<1>13. ASSUME NEW y \in DOMAIN fs', Len(y) > 1 PROVE Front(y) \in DOMAIN fs'
  <2>1. CASE y = q
    <3>1. Front(q) \notin T
      <4>1. Front(q) \in T => Under(p, Front(q)) /\ Front(q) \in Seq(STRING)
        BY <1>4
      <4>2. Under(Front(q), q)
        BY <1>3, UnderFront
      <4> QED BY <1>1, <1>3, <4>1, <4>2, UnderIsOrder
    <3> QED BY <1>1, <1>11, <2>1, <3>1
  <2>2. CASE y \in to /\ y # q
    <3>1. PICK x \in T : Renamed(p, q, x) = y
      BY <1>10, <2>2
    <3>2. x # p
      BY <1>6, <2>2, <3>1
    <3>3. Under(p, Front(x)) /\ Front(y) = Renamed(p, q, Front(x))
      BY <1>3, <1>4, <3>1, <3>2, RenamedFront
    <3>4. Len(x) > 1
      <4>1. Len(x) \in Nat /\ Len(p) \in Nat /\ Len(p) >= 1 /\ Len(p) <= Len(x)
        BY <1>3, <1>4, PathIs, UnderIs
      <4>2. Len(x) # Len(p)
        BY <1>3, <1>4, <3>2, <4>1, UnderOfSameLength
      <4> QED BY <4>1, <4>2
    <3>5. Front(x) \in T
      BY <1>4, <3>3, <3>4 DEF FsTypes, Tree
    <3> QED BY <1>11, <3>3, <3>5 DEF Moved
  <2>3. CASE y \notin to
    <3>1. y \in DOMAIN fs \ T /\ Front(y) \in DOMAIN fs
      BY <1>11, <1>13, <2>3 DEF FsTypes
    <3>2. Front(y) \notin T
      <4> SUFFICES ASSUME Front(y) \in T PROVE FALSE
        OBVIOUS
      <4>1. y \in Seq(STRING) /\ y # << >>
        BY <3>1, PathIs DEF FsTypes
      <4>2. Under(p, y)
        BY <1>3, <1>4, <4>1, UnderFront, UnderIsOrder
      <4> QED BY <3>1, <4>2 DEF Tree
    <3> QED BY <1>11, <3>1, <3>2
  <2> QED BY <2>1, <2>2, <2>3
<1>14. \A y \in DOMAIN fs' : \E x \in DOMAIN fs : fs'[y] = fs[x] /\ IF y \in to THEN x \in T /\ Renamed(p, q, x) = y ELSE x = y
  BY <1>4, <1>10, <1>11
<1>15. \A y, z \in DOMAIN fs' : fs'[y].inode = fs'[z].inode => y = z
  <2> SUFFICES ASSUME NEW y \in DOMAIN fs', NEW z \in DOMAIN fs', fs'[y].inode = fs'[z].inode PROVE y = z
    OBVIOUS
  <2>1. PICK x \in DOMAIN fs : fs'[y] = fs[x] /\ IF y \in to THEN x \in T /\ Renamed(p, q, x) = y ELSE x = y
    BY <1>14
  <2>2. PICK w \in DOMAIN fs : fs'[z] = fs[w] /\ IF z \in to THEN w \in T /\ Renamed(p, q, w) = z ELSE w = z
    BY <1>14
  <2>3. x = w
    BY <2>1, <2>2 DEF FsTypes
  <2> QED BY <1>9, <1>11, <2>1, <2>2, <2>3
<1>16. DOMAIN fs' \subseteq Path
  BY <1>7, <1>11 DEF FsTypes
<1>17. \A y \in DOMAIN fs' : /\ fs'[y] = [inode |-> fs'[y].inode, content |-> fs'[y].content]
                             /\ \E x : \E n \in 0 .. count'.changes : fs'[y].inode = <<x, n>>
  <2> SUFFICES ASSUME NEW y \in DOMAIN fs'
               PROVE  /\ fs'[y] = [inode |-> fs'[y].inode, content |-> fs'[y].content]
                      /\ \E x : \E n \in 0 .. count'.changes : fs'[y].inode = <<x, n>>
    OBVIOUS
  <2>1. PICK x \in DOMAIN fs : fs'[y] = fs[x]
    BY <1>14
  <2>2. PICK z : \E n \in 0 .. count.changes : fs[x].inode = <<z, n>>
    BY DEF FsTypes
  <2> QED BY <1>2, <2>1, <2>2 DEF FsTypes
<1>18. FsTypes'
  BY <1>2, <1>13, <1>15, <1>16, <1>17 DEF FsTypes
<1>19. \A y \in to : Under(q, y)
  BY <1>8, <1>10
<1> QED BY <1>5, <1>7, <1>9, <1>10, <1>11, <1>12, <1>18, <1>19
\* Only FsStep changes the files, and but for their number the calls and starts count
\* something else.
LEMMA FilesStay ==
  ASSUME Next, ~FsStep
  PROVE  UNCHANGED fs /\ (count' = count \/ count' = [count EXCEPT !.adds = @ + 1]
                                        \/ count' = [count EXCEPT !.starts = @ + 1])
<1>1. CASE \E th \in Thread : CallStep(th)
  <2>1. PICK th \in Thread : CallStep(th)
    BY <1>1
  <2>2. CASE \E r \in Root : AddWatch(th, r) \/ RemoveWatch(th, r)
    BY <2>2 DEF AddWatch, RemoveWatch
  <2>3. CASE AddFails(th) \/ AddTree(th) \/ ScanKqItem(th) \/ InsertKqItem(th) \/ RemoveTree(th) \/ RemoveItem(th)
    BY <2>3 DEF AddFails, AddTree, ScanKqItem, InsertKqItem, RemoveTree, RemoveItem
  <2>4. CASE Stop(th) \/ StopFSEvents(th) \/ ClearStream(th) \/ Wakeup(th)
    BY <2>4 DEF Stop, StopFSEvents, ClearStream, Wakeup
  <2> QED BY <2>1, <2>2, <2>3, <2>4 DEF CallStep
<1>2. CASE StreamStep
  BY <1>2 DEF StreamStep, PushEvents, WakeLoop
<1>3. CASE LoopStep
  <2>1. CASE Start \/ Begin \/ While \/ Kevent
    BY <2>1 DEF Start, Begin, While, Kevent
  <2>2. CASE HandleFile \/ HandleDirectory \/ ScanDirectory \/ SyncDirectory
    BY <2>2 DEF HandleFile, HandleDirectory, ScanDirectory, SyncDirectory
  <2>3. CASE SwapPending \/ Dispatch \/ CallbackReturn \/ Dispatched
    BY <2>3 DEF SwapPending, Dispatch, CallbackReturn, Dispatched
  <2> QED BY <1>3, <2>1, <2>2, <2>3 DEF LoopStep
<1> QED BY <1>1, <1>2, <1>3 DEF Next

LEMMA UnlinkedThere ==
  ASSUME FsTypes, NEW p \in Path, Unlink(p) \/ MoveOut(p)
  PROVE  /\ FsTypes' /\ DOMAIN fs' = DOMAIN fs \ Tree(p) /\ p \in Tree(p)
         /\ \A x \in DOMAIN fs' : fs'[x] = fs[x]
<1>1. CASE Unlink(p)
  <2>1. Tree(p) = {p}
    BY <1>1 DEF Unlink
  <2>2. p \in DOMAIN fs /\ fs' = Without(fs, Tree(p)) /\ \E n, r, u : Changes(n, r, u)
    BY <1>1, <2>1 DEF Unlink, Tree
  <2> QED BY <2>2, TakenAway
<1>2. CASE MoveOut(p)
  <2>1. p \in DOMAIN fs /\ fs' = Without(fs, Tree(p)) /\ \E n, r, u : Changes(n, r, u)
    BY <1>2 DEF MoveOut
  <2> QED BY <2>1, TakenAway
<1> QED BY <1>1, <1>2

LEMMA FsTypesKept == ASSUME FsTypes, Next PROVE FsTypes'
<1>1. CASE FsStep
  <2>1. CASE \E p \in Path : Create(p) \/ Write(p) \/ Unlink(p) \/ MoveOut(p)
    BY <2>1, CreatedThere, WrittenThere, UnlinkedThere
  <2>2. CASE \E p, q \in Path : Rename(p, q)
    BY <2>2, RenamedThere
  <2> QED BY <1>1, <2>1, <2>2 DEF FsStep
<1>2. CASE ~FsStep
  <2>1. /\ UNCHANGED fs
        /\ \/ count' = count \/ count' = [count EXCEPT !.adds = @ + 1]
           \/ count' = [count EXCEPT !.starts = @ + 1]
    BY <1>2, FilesStay
  <2>2. count' = [f \in CountField |-> count'[f]] /\ count'.changes = count.changes
    BY <2>1 DEF FsTypes, CountField
  <2>3. 0 .. count'.changes = 0 .. count.changes /\ count'.changes \in Nat
    BY <2>2 DEF FsTypes
  <2>4. \A p \in DOMAIN fs' : \E x : \E n \in 0 .. count'.changes : fs'[p].inode = <<x, n>>
    BY <2>1, <2>3 DEF FsTypes
  <2> QED BY <2>1, <2>2, <2>3, <2>4 DEF FsTypes
<1> QED BY <1>1, <1>2

-----------------------------------------------------------------------------
(* The streams.                                                             *)

\* The paths in a tree, and the events of a stream.
TreePath == {p \in Path : \E t \in RecursiveRoot : Under(t, p)}
TreeEvents == {e \in FileEvents : e.path \in TreePath /\ (e.old # << >> => e.old \in TreePath)}
Flags == {"created", "modified", "removed", "renamed"}
TreeRecord == [path : TreePath, flags : SUBSET Flags]

OfStream(s) ==
    /\ s = [f \in StreamField |-> s[f]]
    /\ s.roots \subseteq RecursiveRoot /\ s.live \in BOOLEAN /\ s.at \in {"idle", "process", "wake"}
    /\ s.buffer \in Seq(TreeRecord) /\ s.todo \in Seq(TreeRecord)
    /\ s.sources \in Seq(TreePath) /\ s.batch \in Seq(TreeEvents)
    /\ s.live \/ s.buffer = << >>

StreamTypes ==
    /\ \E n \in Nat : Stream = 1 .. n
    /\ \A s \in Stream : OfStream(stream[s])
    /\ m_eventStream \in Stream \cup {NoStream}
    /\ m_fseventsWatchList \in Seq(RecursiveRoot) /\ m_knownPaths \subseteq TreePath

LEMMA TreePathIs == TreePath \subseteq Path /\ RecursiveRoot \subseteq TreePath /\ RecursiveRoot \subseteq Path
<1>1. RecursiveRoot \subseteq Path
  BY RootAssumption
<1>2. \A t \in RecursiveRoot : Under(t, t)
  BY <1>1, PathIs, UnderIsOrder
<1> QED BY <1>1, <1>2 DEF TreePath

LEMMA TreesAreInTrees == ASSUME NEW p \in TreePath, NEW q \in Path, Under(p, q) PROVE q \in TreePath
<1>1. PICK t \in RecursiveRoot : Under(t, p)
  BY DEF TreePath
<1>2. t \in Path /\ p \in Path
  BY TreePathIs
<1>3. Under(t, q)
  BY <1>1, <1>2, UnderIsOrder, PathIs
<1> QED BY <1>3 DEF TreePath

LEMMA TreeEventIs ==
  ASSUME NEW type \in EventTypes, NEW p \in TreePath, NEW q \in TreePath
  PROVE  FileEvent(type, p) \in TreeEvents /\ RenameEvent(p, q) \in TreeEvents
<1>1. p \in Path /\ q \in Path
  BY TreePathIs
<1> QED BY <1>1 DEF FileEvent, RenameEvent, TreeEvents, FileEvents, EventTypes

\* What is left of a sequence, at its end or in the middle.
LEMMA RestIs ==
  ASSUME NEW S, NEW s \in Seq(S)
  PROVE  /\ s # << >> => Head(s) \in S /\ Tail(s) \in Seq(S)
         /\ \A i \in 1 .. Len(s) : s[i] \in S /\ RemoveAt(s, i) \in Seq(S)
         /\ \A n \in 1 .. Len(s) : SubSeq(s, 1, n) \in Seq(S) /\ SubSeq(s, n + 1, Len(s)) \in Seq(S)
         /\ \A x \in S : Append(s, x) \in Seq(S)
<1>1. Len(s) \in Nat /\ \A i \in 1 .. Len(s) : s[i] \in S
  BY LenProperties, ElementOfSeq
<1>2. ASSUME NEW a \in Int, NEW b \in Int, a >= 1, b <= Len(s) PROVE SubSeq(s, a, b) \in Seq(S)
  <2>1. \A i \in a .. b : s[i] \in S
    BY <1>1, <1>2
  <2> QED BY <2>1, SubSeqProperties
<1>3. ASSUME NEW n \in 1 .. Len(s) PROVE SubSeq(s, 1, n) \in Seq(S) /\ SubSeq(s, n + 1, Len(s)) \in Seq(S)
  BY <1>1, <1>2
<1>4. ASSUME NEW i \in 1 .. Len(s) PROVE RemoveAt(s, i) \in Seq(S)
  <2>1. SubSeq(s, 1, i - 1) \in Seq(S) /\ SubSeq(s, i + 1, Len(s)) \in Seq(S)
    BY <1>1, <1>2
  <2> QED BY <2>1, ConcatProperties DEF RemoveAt
<1>5. s # << >> => Head(s) \in S /\ Tail(s) \in Seq(S)
  BY HeadTailProperties, EmptySeq, <1>1
<1>6. \A x \in S : Append(s, x) \in Seq(S)
  BY AppendProperties
<1> QED BY <1>1, <1>3, <1>4, <1>5, <1>6

\* Records that are merged are still of paths in the trees.
LEMMA MergedAre ==
  ASSUME NEW records \in Seq(TreeRecord), NEW todo \in {records} \cup Merged(records)
  PROVE  todo \in Seq(TreeRecord)
<1> DEFINE last     == {i \in DOMAIN records : \A j \in DOMAIN records : j > i => records[j].path # records[i].path}
           flags(p) == UNION {records[j].flags : j \in {j \in DOMAIN records : records[j].path = p}}
           n        == Cardinality(last)
<1>1. DOMAIN records = 1 .. Len(records) /\ Len(records) \in Nat /\ \A i \in DOMAIN records : records[i] \in TreeRecord
  BY LenProperties, ElementOfSeq
<1>2. IsFiniteSet(last)
  <2>1. IsFiniteSet(1 .. Len(records)) /\ last \subseteq 1 .. Len(records)
    BY <1>1, FS_Interval
  <2> QED BY <2>1, FS_Subset
<1>3. n \in Nat
  BY <1>2, FS_CardinalityType
<1>4. CASE todo \in Merged(records)
  <2>1. PICK at \in [1 .. n -> last] :
          todo = [k \in DOMAIN at |-> [path |-> records[at[k]].path, flags |-> flags(records[at[k]].path)]]
    BY <1>4 DEF Merged
  <2>2. \A p : flags(p) \subseteq Flags
    BY <1>1 DEF TreeRecord
  <2>3. \A k \in 1 .. n : at[k] \in DOMAIN records /\ records[at[k]].path \in TreePath
    BY <1>1, <2>1 DEF TreeRecord
  <2> HIDE DEF n, last, flags
  <2>4. todo = [k \in 1 .. n |-> [path |-> records[at[k]].path, flags |-> flags(records[at[k]].path)]]
    BY <2>1
  <2>5. \A k \in 1 .. n : [path |-> records[at[k]].path, flags |-> flags(records[at[k]].path)] \in TreeRecord
    BY <2>2, <2>3 DEF TreeRecord
  <2>6. todo \in [1 .. n -> TreeRecord]
    BY <2>4, <2>5
  <2> QED BY <1>3, <2>6, SeqDef
<1> QED BY <1>4

\* A stream changes into another one, the rest stays.
LEMMA StreamTyped ==
  ASSUME StreamTypes, NEW s \in Stream, NEW v, OfStream(v), stream' = [stream EXCEPT ![s] = v],
         UNCHANGED <<m_eventStream, m_fseventsWatchList>>, m_knownPaths' \subseteq TreePath
  PROVE  StreamTypes'
<1>1. /\ DOMAIN stream' = Stream /\ stream'[s] = v
      /\ \A other \in Stream \ {s} : stream'[other] = stream[other]
  BY DEF Stream
<1>2. \A other \in DOMAIN stream' : OfStream(stream'[other])
  BY <1>1 DEF StreamTypes
<1> QED BY <1>1, <1>2 DEF StreamTypes, Stream

LEMMA RecordsDelivered == ASSUME StreamTypes, NEW s \in Stream, Deliver(s) PROVE StreamTypes'
<1> DEFINE b == stream[s].buffer
<1>1. OfStream(stream[s]) /\ b \in Seq(TreeRecord) /\ DOMAIN b = 1 .. Len(b) /\ stream[s].live
  BY LenProperties DEF StreamTypes, OfStream, Deliver
<1>2. PICK n \in 1 .. Len(b) : \E todo \in {SubSeq(b, 1, n)} \cup Merged(SubSeq(b, 1, n)) :
        stream' = [stream EXCEPT ![s].at = "process", ![s].todo = todo,
                                 ![s].buffer = SubSeq(@, n + 1, Len(@))]
  BY <1>1 DEF Deliver
<1>3. PICK todo \in {SubSeq(b, 1, n)} \cup Merged(SubSeq(b, 1, n)) :
        stream' = [stream EXCEPT ![s].at = "process", ![s].todo = todo,
                                 ![s].buffer = SubSeq(@, n + 1, Len(@))]
  BY <1>2
<1> DEFINE rest == SubSeq(b, n + 1, Len(b))
           v    == [stream[s] EXCEPT !.at = "process", !.todo = todo, !.buffer = rest]
<1>4. SubSeq(b, 1, n) \in Seq(TreeRecord) /\ rest \in Seq(TreeRecord)
  BY <1>1, RestIs
<1>5. todo \in Seq(TreeRecord)
  BY <1>4, MergedAre
<1>6. stream' = [stream EXCEPT ![s] = v]
  BY <1>3
<1>7. OfStream(v)
  <2> HIDE DEF rest
  <2> QED BY <1>1, <1>4, <1>5 DEF OfStream, StreamField
<1> HIDE DEF v
<1>8. UNCHANGED <<m_eventStream, m_fseventsWatchList>> /\ m_knownPaths' \subseteq TreePath
  BY DEF Deliver, StreamTypes
<1> QED BY <1>6, <1>7, <1>8, StreamTyped

\* What a translated record adds to the batch and leaves to be matched.
LEMMA RecordTranslated ==
  ASSUME StreamTypes, NEW s \in Stream, NEW events \in Seq(TreeEvents), NEW sources \in Seq(TreePath),
         stream[s].todo # << >>, Advance(s, events, sources), m_knownPaths' \subseteq TreePath
  PROVE  StreamTypes'
<1> DEFINE t == Tail(stream[s].todo)
           b == stream[s].batch \o events
           v == [stream[s] EXCEPT !.todo = t, !.batch = b, !.sources = sources]
<1>1. OfStream(stream[s])
  BY DEF StreamTypes
<1>2. t \in Seq(TreeRecord) /\ b \in Seq(TreeEvents)
  BY <1>1, RestIs, ConcatProperties DEF OfStream
<1>3. stream' = [stream EXCEPT ![s] = v] /\ UNCHANGED <<m_eventStream, m_fseventsWatchList>>
  BY DEF Advance
<1>4. OfStream(v)
  <2> HIDE DEF t, b
  <2> QED BY <1>1, <1>2 DEF OfStream, StreamField
<1> HIDE DEF v
<1> QED BY <1>3, <1>4, StreamTyped

LEMMA DeletionsAre ==
  ASSUME StreamTypes, NEW p \in TreePath, NEW events \in Deletions(p)
  PROVE  events \in Seq(TreeEvents)
<1> DEFINE below == {q \in m_knownPaths \ {p} : p \in Directory /\ Under(p, q)}
           n     == Cardinality(below)
<1>1. PICK f \in [1 .. n -> below] :
        events = [k \in DOMAIN f |-> FileEvent("delete", f[k])] \o <<FileEvent("delete", p)>>
  BY DEF Deletions
<1>2. below \subseteq TreePath
  BY DEF StreamTypes
<1>3. n \in Nat
  <2>1. IsFiniteSet(Path) /\ below \subseteq Path
    BY <1>2, TreePathIs, FilesAssumption
  <2> QED BY <2>1, FS_Subset, FS_CardinalityType
<1> HIDE DEF below, n
<1> DEFINE d == [k \in DOMAIN f |-> FileEvent("delete", f[k])]
<1>4. \A k \in 1 .. n : FileEvent("delete", f[k]) \in TreeEvents
  BY <1>2, TreeEventIs DEF EventTypes
<1>5. d \in [1 .. n -> TreeEvents]
  BY <1>4
<1>6. d \in Seq(TreeEvents)
  BY <1>3, <1>5, SeqDef
<1>7. FileEvent("delete", p) \in TreeEvents
  BY TreeEventIs DEF EventTypes
<1> HIDE DEF d
<1>8. events = d \o <<FileEvent("delete", p)>>
  BY <1>1 DEF d
<1>9. <<FileEvent("delete", p)>> \in Seq(TreeEvents)
  BY <1>7
<1> QED BY <1>6, <1>8, <1>9, ConcatProperties

LEMMA RecordKeepsTypes == ASSUME StreamTypes, NEW s \in Stream, Record(s) PROVE StreamTypes'
<1> DEFINE todo    == stream[s].todo
           sources == stream[s].sources
           p       == Head(todo).path
<1>1. /\ todo \in Seq(TreeRecord) /\ sources \in Seq(TreePath) /\ m_knownPaths \subseteq TreePath
      /\ OfStream(stream[s])
  BY DEF StreamTypes, OfStream
<1>2. todo # << >> => p \in TreePath
  <2> SUFFICES ASSUME todo # << >> PROVE p \in TreePath
    OBVIOUS
  <2>1. Head(todo) \in TreeRecord
    BY <1>1, RestIs
  <2> QED BY <2>1 DEF TreeRecord
<1>3. << >> \in Seq(TreeEvents) /\ \A e \in TreeEvents : <<e>> \in Seq(TreeEvents)
  BY EmptySeq
<1>4. ASSUME todo # << >>
      PROVE  /\ FileEvent("create", p) \in TreeEvents /\ FileEvent("modify", p) \in TreeEvents
             /\ FileEvent("rename", p) \in TreeEvents /\ \A old \in TreePath : RenameEvent(p, old) \in TreeEvents
  BY <1>2, <1>4, TreeEventIs DEF EventTypes
<1> HIDE DEF todo, sources, p
<1>5. CASE Removed(s)
  <2>1. todo # << >> /\ m_knownPaths' \subseteq m_knownPaths
    BY <1>5 DEF Removed, IsNext, todo
  <2>2. PICK events \in Deletions(p) : Advance(s, events, sources)
    BY <1>5 DEF Removed, p, todo, sources
  <2>3. events \in Seq(TreeEvents)
    BY <1>2, <2>1, <2>2, DeletionsAre
  <2> QED BY <1>1, <2>1, <2>2, <2>3, RecordTranslated DEF todo
<1>6. CASE RenamedAway(s)
  <2>1. todo # << >> /\ UNCHANGED m_knownPaths /\ Advance(s, << >>, Append(sources, p))
    BY <1>6 DEF RenamedAway, IsNext, todo, sources, p
  <2> DEFINE after == Append(sources, p)
  <2>2. after \in Seq(TreePath)
    BY <1>1, <1>2, <2>1, RestIs
  <2> HIDE DEF after
  <2> QED BY <1>1, <1>3, <2>1, <2>2, RecordTranslated DEF todo, after
<1>7. CASE RenamedHere(s)
  <2>1. todo # << >>
    BY <1>7 DEF RenamedHere, IsNext, todo
  <2>2. CASE \E j \in Source(s, p) : LET old == sources[j] IN
               /\ Advance(s, <<RenameEvent(p, old)>>, RemoveAt(sources, j))
               /\ m_knownPaths' = (m_knownPaths \ Forgotten(old)) \cup {p}
    <3>1. PICK j \in Source(s, p) :
            /\ Advance(s, <<RenameEvent(p, sources[j])>>, RemoveAt(sources, j))
            /\ m_knownPaths' = (m_knownPaths \ Forgotten(sources[j])) \cup {p}
      BY <2>2
    <3>2. j \in 1 .. Len(sources)
      BY <1>1, LenProperties DEF Source, FirstIn, sources
    <3> DEFINE after == RemoveAt(sources, j)
    <3>3. sources[j] \in TreePath /\ after \in Seq(TreePath)
      BY <1>1, <3>2, RestIs
    <3>4. m_knownPaths' \subseteq TreePath
      BY <1>1, <1>2, <2>1, <3>1
    <3>5. <<RenameEvent(p, sources[j])>> \in Seq(TreeEvents)
      BY <1>3, <1>4, <2>1, <3>3
    <3>6. Advance(s, <<RenameEvent(p, sources[j])>>, after)
      BY <3>1
    <3> HIDE DEF after
    <3> QED BY <2>1, <3>3, <3>4, <3>5, <3>6, RecordTranslated DEF todo
  <2>3. CASE Advance(s, <<FileEvent("create", p)>>, sources) /\ m_knownPaths' = m_knownPaths \cup {p}
    BY <1>1, <1>2, <1>3, <1>4, <2>1, <2>3, RecordTranslated DEF todo
  <2>4. CASE Advance(s, <<FileEvent("rename", p)>>, sources) /\ UNCHANGED m_knownPaths
    BY <1>1, <1>3, <1>4, <2>1, <2>4, RecordTranslated DEF todo
  <2> QED BY <1>7, <2>2, <2>3, <2>4 DEF RenamedHere, p, todo, sources
<1>8. CASE Created(s) \/ Modified(s)
  <2>1. todo # << >> /\ m_knownPaths' = m_knownPaths \cup {p}
    BY <1>8 DEF Created, Modified, IsNext, todo, p
  <2>2. \E events \in {Modification(p), <<FileEvent("create", p)>>} : Advance(s, events, sources)
    BY <1>8 DEF Created, Modified, todo, p, sources
  <2>3. Modification(p) \in Seq(TreeEvents) /\ <<FileEvent("create", p)>> \in Seq(TreeEvents)
    BY <1>3, <1>4, <2>1 DEF Modification
  <2> QED BY <1>1, <1>2, <2>1, <2>2, <2>3, RecordTranslated DEF todo
<1>9. CASE Leftover(s)
  <2> DEFINE q == Head(sources)
             t == Tail(sources)
  <2>1. sources # << >> /\ m_knownPaths' \subseteq m_knownPaths
    BY <1>9 DEF Leftover, sources
  <2>2. PICK events \in Deletions(q) :
          stream' = [stream EXCEPT ![s].sources = Tail(@), ![s].batch = @ \o events]
    BY <1>9 DEF Leftover, sources
  <2>3. q \in TreePath /\ t \in Seq(TreePath)
    BY <1>1, <2>1, RestIs
  <2> DEFINE b == stream[s].batch \o events
             v == [stream[s] EXCEPT !.sources = t, !.batch = b]
  <2>4. b \in Seq(TreeEvents)
    <3>1. events \in Seq(TreeEvents)
      BY <2>3, DeletionsAre
    <3> QED BY <1>1, <3>1, ConcatProperties DEF OfStream
  <2>5. stream' = [stream EXCEPT ![s] = v]
    BY <2>2 DEF sources
  <2>6. OfStream(v)
    <3> HIDE DEF t, b
    <3> QED BY <1>1, <2>3, <2>4 DEF OfStream, StreamField
  <2> HIDE DEF v
  <2> QED BY <1>1, <1>9, <2>1, <2>5, <2>6, StreamTyped DEF Leftover
<1> QED BY <1>5, <1>6, <1>7, <1>8, <1>9 DEF Record

LEMMA StreamsStopped ==
  ASSUME StreamTypes, StopStream, m_eventStream' \in {m_eventStream, NoStream},
         m_fseventsWatchList' \in Seq(RecursiveRoot), m_knownPaths' \subseteq TreePath
  PROVE  StreamTypes'
<1>1. DOMAIN stream' = Stream
  BY DEF StopStream, Stream
<1>2. ASSUME NEW s \in Stream PROVE OfStream(stream'[s])
  <2>1. CASE stream'[s] = stream[s]
    BY <2>1 DEF StreamTypes
  <2>2. CASE stream'[s] = [stream[s] EXCEPT !.live = FALSE, !.buffer = << >>]
    <3>1. OfStream(stream[s]) /\ << >> \in Seq(TreeRecord)
      BY EmptySeq DEF StreamTypes
    <3> QED BY <2>2, <3>1 DEF OfStream, StreamField
  <2> QED BY <2>1, <2>2 DEF StopStream, Stream
<1> QED BY <1>1, <1>2 DEF StreamTypes, Stream

LEMMA StreamStarted ==
  ASSUME StreamTypes, StartFSEvents, UNCHANGED <<m_fseventsWatchList, m_knownPaths>>
  PROVE  StreamTypes'
<1>1. CASE UNCHANGED <<stream, m_eventStream>>
  BY <1>1 DEF StreamTypes, Stream
<1>2. CASE ~UNCHANGED <<stream, m_eventStream>>
  <2>1. PICK n \in Nat : Stream = 1 .. n
    BY DEF StreamTypes
  <2>2. Cardinality(Stream) = n
    BY <2>1, FS_Interval
  <2> DEFINE v == [roots |-> Range(m_fseventsWatchList), live |-> TRUE, buffer |-> << >>,
                   at |-> "idle", todo |-> << >>, sources |-> << >>, batch |-> << >>]
  <2>3. m_eventStream' = n + 1 /\ stream' = With(stream, n + 1, v)
    BY <1>2, <2>2 DEF StartFSEvents
  <2>4. OfStream(v)
    <3> DEFINE roots == Range(m_fseventsWatchList)
    <3>1. roots \subseteq RecursiveRoot
      <4>1. \A i \in DOMAIN m_fseventsWatchList : m_fseventsWatchList[i] \in RecursiveRoot
        BY LenProperties, ElementOfSeq DEF StreamTypes
      <4> QED BY <4>1 DEF Range
    <3> HIDE DEF roots
    <3>2. v = [roots |-> roots, live |-> TRUE, buffer |-> << >>,
               at |-> "idle", todo |-> << >>, sources |-> << >>, batch |-> << >>]
      BY DEF roots
    <3> HIDE DEF v
    <3>3. << >> \in Seq(TreeRecord) /\ << >> \in Seq(TreePath) /\ << >> \in Seq(TreeEvents)
      BY EmptySeq
    <3> QED BY <3>1, <3>2, <3>3 DEF OfStream, StreamField
  <2> HIDE DEF v
  <2>5. DOMAIN stream' = 1 .. (n + 1) /\ n + 1 \in Nat /\ n + 1 \in DOMAIN stream'
    BY <2>1, <2>3 DEF With, Stream
  <2>6. ASSUME NEW s \in DOMAIN stream' PROVE OfStream(stream'[s])
    <3>1. stream'[s] = v \/ (s \in Stream /\ stream'[s] = stream[s])
      BY <2>3 DEF With, Stream
    <3> QED BY <2>4, <3>1 DEF StreamTypes
  <2> QED BY <2>3, <2>5, <2>6 DEF StreamTypes, Stream
<1> QED BY <1>1, <1>2

\* Records enter a buffer that are below one of the stream's roots.
LEMMA RecordsBuffered ==
  ASSUME StreamTypes, NEW records, stream' = Buffered(records),
         \A k \in DOMAIN records : \E p \in Path, flag \in Flags : records[k] = Record1(p, flag),
         UNCHANGED <<m_eventStream, m_fseventsWatchList, m_knownPaths>>
  PROVE  StreamTypes'
<1>1. DOMAIN stream' = Stream
  BY DEF Buffered
<1>2. ASSUME NEW s \in Stream PROVE OfStream(stream'[s])
  <2>1. OfStream(stream[s])
    BY DEF StreamTypes
  <2>2. CASE ~stream[s].live
    BY <2>1, <2>2 DEF Buffered
  <2>3. CASE stream[s].live
    <3>1. ASSUME NEW k PROVE Heard(s, records, k) \in Seq(TreeRecord)
      <4>1. CASE Heard(s, records, k) = << >>
        BY <4>1, EmptySeq
      <4>2. CASE /\ Heard(s, records, k) = <<records[k]>> /\ k \in DOMAIN records
                 /\ \E root \in stream[s].roots : Under(root, records[k].path)
        <5>1. PICK p \in Path, flag \in Flags : records[k] = Record1(p, flag)
          BY <4>2
        <5>2. p \in TreePath
          <6>1. records[k].path = p
            BY <5>1 DEF Record1
          <6>2. \E root \in RecursiveRoot : Under(root, p)
            BY <2>1, <4>2, <6>1 DEF OfStream
          <6> QED BY <6>2 DEF TreePath
        <5>3. records[k] \in TreeRecord
          BY <5>1, <5>2 DEF Record1, TreeRecord
        <5> QED BY <4>2, <5>3
      <4> QED BY <4>1, <4>2 DEF Heard
    <3> DEFINE h == Heard(s, records, 1) \o Heard(s, records, 2)
               b == stream[s].buffer \o Heard(s, records, 1) \o Heard(s, records, 2)
    <3>2. b \in Seq(TreeRecord)
      BY <2>1, <3>1, ConcatProperties DEF OfStream
    <3>3. stream'[s] = [stream[s] EXCEPT !.buffer = b]
      BY <2>3 DEF Buffered
    <3> HIDE DEF b
    <3> QED BY <2>1, <2>3, <3>2, <3>3 DEF OfStream, StreamField
  <2> QED BY <2>2, <2>3
<1> QED BY <1>1, <1>2 DEF StreamTypes, Stream

\* Every change of the files has one record, or two, of paths.
OfPaths(records) == \A k \in DOMAIN records : \E p \in Path, flag \in Flags : records[k] = Record1(p, flag)

LEMMA OneRecord == ASSUME NEW p \in Path, NEW flag \in Flags PROVE OfPaths(<<Record1(p, flag)>>)
<1> DEFINE r == Record1(p, flag)
<1>1. \E q \in Path, f \in Flags : r = Record1(q, f)
  OBVIOUS
<1> HIDE DEF r
<1>2. \A k \in DOMAIN <<r>> : <<r>>[k] = r
  OBVIOUS
<1>3. OfPaths(<<r>>)
  BY <1>1, <1>2 DEF OfPaths
<1> QED BY <1>3 DEF r

LEMMA TwoRecords ==
  ASSUME NEW p \in Path, NEW q \in Path, NEW flag \in Flags
  PROVE  OfPaths(<<Record1(p, flag), Record1(q, flag)>>)
<1> DEFINE r == Record1(p, flag)
           s == Record1(q, flag)
<1>1. (\E x \in Path, f \in Flags : r = Record1(x, f)) /\ \E x \in Path, f \in Flags : s = Record1(x, f)
  OBVIOUS
<1> HIDE DEF r, s
<1>2. \A k \in DOMAIN <<r, s>> : <<r, s>>[k] = r \/ <<r, s>>[k] = s
  OBVIOUS
<1>3. OfPaths(<<r, s>>)
  <2> SUFFICES ASSUME NEW k \in DOMAIN <<r, s>>
               PROVE  \E x \in Path, f \in Flags : <<r, s>>[k] = Record1(x, f)
    BY DEF OfPaths
  <2>1. CASE <<r, s>>[k] = r
    BY <1>1, <2>1
  <2>2. CASE <<r, s>>[k] = s
    BY <1>1, <2>2
  <2> QED BY <1>2, <2>1, <2>2
<1> QED BY <1>3 DEF r, s

LEMMA FilesRecorded ==
  ASSUME FsStep
  PROVE  \E notes, records, unnoticed : Changes(notes, records, unnoticed) /\ OfPaths(records)
<1>1. CASE \E p \in Path : Create(p)
  <2>1. PICK p \in Path : Create(p)
    BY <1>1
  <2>2. Changes(InParent(p), <<Record1(p, "created")>>, Unnoticed({p}, {p}))
    BY <2>1 DEF Create
  <2>3. "created" \in Flags
    BY DEF Flags
  <2>4. OfPaths(<<Record1(p, "created")>>)
    BY <2>3, OneRecord
  <2> QED BY <2>2, <2>4, Zenon
<1>2. CASE \E p \in Path : Write(p)
  <2>1. PICK p \in Path : Write(p)
    BY <1>2
  <2>2. Changes({Note(p, "write")}, <<Record1(p, "modified")>>, {})
    BY <2>1 DEF Write
  <2>3. "modified" \in Flags
    BY DEF Flags
  <2>4. OfPaths(<<Record1(p, "modified")>>)
    BY <2>3, OneRecord
  <2> QED BY <2>2, <2>4, Zenon
<1>3. CASE \E p \in Path : Unlink(p)
  <2>1. PICK p \in Path : Unlink(p)
    BY <1>3
  <2>2. Changes(InParent(p) \cup {Note(p, "delete")}, <<Record1(p, "removed")>>, Unnoticed({p}, {}))
    BY <2>1 DEF Unlink
  <2>3. "removed" \in Flags
    BY DEF Flags
  <2>4. OfPaths(<<Record1(p, "removed")>>)
    BY <2>3, OneRecord
  <2> QED BY <2>2, <2>4, Zenon
<1>4. CASE \E p \in Path : MoveOut(p)
  <2>1. PICK p \in Path : MoveOut(p)
    BY <1>4
  <2>2. Changes(InParent(p) \cup {Note(p, "rename")}, <<Record1(p, "renamed")>>, Unnoticed(Tree(p), {}))
    BY <2>1 DEF MoveOut
  <2>3. "renamed" \in Flags
    BY DEF Flags
  <2>4. OfPaths(<<Record1(p, "renamed")>>)
    BY <2>3, OneRecord
  <2> QED BY <2>2, <2>4, Zenon
<1>5. CASE \E p, q \in Path : Rename(p, q)
  <2>1. PICK p \in Path, q \in Path : Rename(p, q)
    BY <1>5
  <2>2. \E notes, unnoticed : Changes(notes, <<Record1(p, "renamed"), Record1(q, "renamed")>>, unnoticed)
    BY <2>1 DEF Rename
  <2>3. "renamed" \in Flags
    BY DEF Flags
  <2>4. OfPaths(<<Record1(p, "renamed"), Record1(q, "renamed")>>)
    BY <2>3, TwoRecords
  <2> QED BY <2>2, <2>4, Zenon
<1> QED BY <1>1, <1>2, <1>3, <1>4, <1>5 DEF FsStep

LEMMA StreamTypesStay == ASSUME StreamTypes, UNCHANGED streamVars PROVE StreamTypes'
BY DEF StreamTypes, Stream, streamVars

LEMMA StreamTypesKept == ASSUME StreamTypes, FsTypes, Next PROVE StreamTypes'
<1>1. CASE FsStep
  <2>1. PICK notes, records, unnoticed : Changes(notes, records, unnoticed) /\ OfPaths(records)
    BY <1>1, FilesRecorded
  <2> QED BY <2>1, RecordsBuffered DEF Changes, OfPaths
<1>2. CASE \E th \in Thread : CallStep(th)
  <2>1. PICK th \in Thread : CallStep(th)
    BY <1>2
  <2>2. CASE \E r \in Root : AddWatch(th, r) \/ RemoveWatch(th, r)
    BY <2>2, StreamTypesStay DEF AddWatch, RemoveWatch
  <2>3. CASE AddFails(th) \/ ScanKqItem(th) \/ InsertKqItem(th) \/ RemoveItem(th) \/ Stop(th) \/ Wakeup(th)
    BY <2>3, StreamTypesStay DEF AddFails, ScanKqItem, InsertKqItem, RemoveItem, Stop, Wakeup
  <2>4. CASE AddTree(th)
    <3> DEFINE r == call[th].root
    <3>1. r \in RecursiveRoot /\ m_fseventsWatchList' = Append(m_fseventsWatchList, r)
          /\ m_knownPaths' = m_knownPaths \cup Tree(r)
      BY <2>4 DEF AddTree
    <3>2. Tree(r) \subseteq TreePath
      BY <3>1 DEF Tree, TreePath, FsTypes
    <3>3. m_fseventsWatchList' \in Seq(RecursiveRoot) /\ m_knownPaths' \subseteq TreePath
      BY <3>1, <3>2, AppendProperties DEF StreamTypes
    <3>4. \/ StopStream /\ m_eventStream' = NoStream
          \/ UNCHANGED <<stream, m_eventStream>>
      BY <2>4 DEF AddTree, RestartStream
    <3>5. CASE UNCHANGED <<stream, m_eventStream>>
      BY <3>3, <3>5 DEF StreamTypes, Stream
    <3> QED BY <3>3, <3>4, <3>5, StreamsStopped
  <2>5. CASE RemoveTree(th)
    <3>1. m_fseventsWatchList' \in Seq(RecursiveRoot) /\ UNCHANGED m_knownPaths
      <4>1. PICK j \in FirstIn(m_fseventsWatchList, {call[th].root}) : m_fseventsWatchList' = RemoveAt(m_fseventsWatchList, j)
        BY <2>5 DEF RemoveTree
      <4>2. j \in 1 .. Len(m_fseventsWatchList)
        BY LenProperties DEF FirstIn, StreamTypes
      <4> QED BY <2>5, <4>1, <4>2, RestIs DEF StreamTypes, RemoveTree
    <3>2. \/ StopStream /\ m_eventStream' = NoStream
          \/ UNCHANGED <<stream, m_eventStream>>
      BY <2>5 DEF RemoveTree, RestartStream
    <3>3. CASE UNCHANGED <<stream, m_eventStream>>
      BY <3>1, <3>3 DEF StreamTypes, Stream
    <3> QED BY <3>1, <3>2, <3>3, StreamsStopped DEF StreamTypes
  <2>6. CASE StopFSEvents(th)
    BY <2>6, StreamsStopped DEF StopFSEvents, StreamTypes
  <2>7. CASE ClearStream(th)
    BY <2>7 DEF ClearStream, StreamTypes, Stream
  <2> QED BY <2>1, <2>2, <2>3, <2>4, <2>5, <2>6, <2>7 DEF CallStep
<1>3. CASE StreamStep
  <2>1. PICK s \in Stream : PushEvents(s) \/ WakeLoop(s) \/ Deliver(s) \/ Record(s)
    BY <1>3 DEF StreamStep
  <2>2. OfStream(stream[s]) /\ << >> \in Seq(TreeEvents)
    BY EmptySeq DEF StreamTypes
  <2>3. CASE PushEvents(s)
    <3> DEFINE at == IF stream[s].batch = << >> THEN "idle" ELSE "wake"
               v  == [stream[s] EXCEPT !.at = at, !.batch = << >>]
    <3>1. stream' = [stream EXCEPT ![s] = v]
      BY <2>3 DEF PushEvents
    <3>2. at \in {"idle", "wake"}
      OBVIOUS
    <3>3. OfStream(v)
      <4> HIDE DEF at
      <4> QED BY <2>2, <3>2 DEF OfStream, StreamField
    <3> HIDE DEF v
    <3>4. UNCHANGED <<m_eventStream, m_fseventsWatchList>> /\ m_knownPaths' \subseteq TreePath
      BY <2>3 DEF PushEvents, StreamTypes
    <3> QED BY <3>1, <3>3, <3>4, StreamTyped
  <2>4. CASE WakeLoop(s)
    <3> DEFINE v == [stream[s] EXCEPT !.at = "idle"]
    <3>1. stream' = [stream EXCEPT ![s] = v]
      BY <2>4 DEF WakeLoop
    <3>2. OfStream(v)
      BY <2>2 DEF OfStream, StreamField
    <3> HIDE DEF v
    <3>3. UNCHANGED <<m_eventStream, m_fseventsWatchList>> /\ m_knownPaths' \subseteq TreePath
      BY <2>4 DEF WakeLoop, StreamTypes
    <3> QED BY <3>1, <3>2, <3>3, StreamTyped
  <2> QED BY <2>1, <2>3, <2>4, RecordsDelivered, RecordKeepsTypes
<1>4. CASE LoopStep
  <2>1. CASE Begin
    BY <2>1, StreamStarted DEF Begin
  <2>2. CASE Start \/ While \/ Kevent
    BY <2>2, StreamTypesStay DEF Start, While, Kevent
  <2>3. CASE HandleFile \/ HandleDirectory \/ ScanDirectory \/ SyncDirectory
    BY <2>3, StreamTypesStay DEF HandleFile, HandleDirectory, ScanDirectory, SyncDirectory
  <2>4. CASE SwapPending \/ Dispatch \/ CallbackReturn \/ Dispatched
    BY <2>4, StreamTypesStay DEF SwapPending, Dispatch, CallbackReturn, Dispatched
  <2> QED BY <1>4, <2>1, <2>2, <2>3, <2>4 DEF LoopStep
<1> QED BY <1>1, <1>2, <1>3, <1>4 DEF Next
-----------------------------------------------------------------------------
(* The items and the calls.                                                 *)

OfItem(it) ==
    /\ it.path \in Root \ RecursiveRoot
    /\ DOMAIN it.children \subseteq Child(it.path)
    /\ DOMAIN it.childFileFds \subseteq Child(it.path) \ Directory

\* Who is watched has not been removed or displaced.
ItemTypes ==
    /\ \A i \in Item : OfItem(item[i])
    /\ torn \subseteq Item
    /\ \A p \in DOMAIN m_kqWatches : m_kqWatches[p] \notin torn

CallTypes ==
    \A th \in Thread :
        /\ call[th].at \in {"add", "remove"} => call[th].root \in Root
        /\ call[th].at = "scanned" => OfItem(call[th].item)

\* Most steps leave the descriptors and the items alone.
LEMMA DescriptorsStay ==
  ASSUME Next, ~FsStep, ~Kevent, ~ScanDirectory, ~SyncDirectory,
         \A th \in Thread : ~ScanKqItem(th) /\ ~InsertKqItem(th) /\ ~RemoveItem(th)
  PROVE  UNCHANGED kqVars
<1>1. CASE \E th \in Thread : CallStep(th)
  <2>1. PICK th \in Thread : CallStep(th) /\ ~ScanKqItem(th) /\ ~InsertKqItem(th) /\ ~RemoveItem(th)
    BY <1>1
  <2>2. CASE \E r \in Root : AddWatch(th, r) \/ RemoveWatch(th, r)
    BY <2>2 DEF AddWatch, RemoveWatch
  <2>3. CASE AddFails(th) \/ AddTree(th) \/ RemoveTree(th)
    BY <2>3 DEF AddFails, AddTree, RemoveTree
  <2>4. CASE Stop(th) \/ StopFSEvents(th) \/ ClearStream(th) \/ Wakeup(th)
    BY <2>4 DEF Stop, StopFSEvents, ClearStream, Wakeup
  <2> QED BY <2>1, <2>2, <2>3, <2>4 DEF CallStep
<1>2. CASE StreamStep
  BY <1>2 DEF StreamStep, PushEvents, WakeLoop
<1>3. CASE LoopStep
  <2>1. CASE Start \/ Begin \/ While
    BY <2>1 DEF Start, Begin, While
  <2>2. CASE HandleFile \/ HandleDirectory
    BY <2>2 DEF HandleFile, HandleDirectory
  <2>3. CASE SwapPending \/ Dispatch \/ CallbackReturn \/ Dispatched
    BY <2>3 DEF SwapPending, Dispatch, CallbackReturn, Dispatched
  <2> QED BY <1>3, <2>1, <2>2, <2>3 DEF LoopStep
<1> QED BY <1>1, <1>2, <1>3 DEF Next

LEMMA NewItemIs == ASSUME KqInv PROVE NewItem \notin Item
<1>1. PICK n \in Nat : Item = 1 .. n
  BY DEF KqInv, Shapes
<1>2. Cardinality(Item) = n
  BY <1>1, FS_Interval
<1>3. NewItem = n + 1
  BY <1>2 DEF NewItem
<1> QED BY <1>1, <1>3

\* What syncDirectChildFileWatches leaves of the items.
LEMMA SyncChanges ==
  ASSUME NEW i, NEW it, NEW descriptors, NEW fdMap, SyncDirectChildFileWatches(i, it, descriptors, fdMap),
         it = [f \in ItemField |-> it[f]]
  PROVE  /\ DOMAIN item' = Item \cup {i} /\ \A j \in Item \ {i} : item'[j] = item[j]
         /\ item'[i].path = it.path /\ item'[i].fd = it.fd
<1>1. PICK fds : item' = With(item, i, [it EXCEPT !.childFileFds = fds])
  BY DEF SyncDirectChildFileWatches
<1> DEFINE v == [it EXCEPT !.childFileFds = fds]
<1>2. v.path = it.path /\ v.fd = it.fd
  BY DEF ItemField
<1>3. item' = With(item, i, v)
  BY <1>1
<1> HIDE DEF v
<1>4. DOMAIN item' = Item \cup {i} /\ item'[i] = v /\ \A j \in Item \ {i} : item'[j] = item[j]
  BY <1>3 DEF With, Item
<1> QED BY <1>2, <1>4

\* The item that enters the tables, and its descriptors.
LEMMA ItemEnters ==
  ASSUME KqInv, NEW th \in Thread, InsertKqItem(th)
  PROVE  LET it  == call[th].item
             new == item'[NewItem]
         IN
         /\ DOMAIN item' = Item \cup {NewItem} /\ \A j \in Item : item'[j] = item[j] /\ j # NewItem
         /\ new.path = it.path /\ new.fd = it.fd /\ new.children = it.children
         /\ DOMAIN new.childFileFds \subseteq NewChildren(it)
         /\ \A p \in DOMAIN new.childFileFds : kernel'[new.childFileFds[p]] = Descriptor(p, {"write"})
         /\ it.fd \in DOMAIN kernel
         /\ \A fd \in DOMAIN kernel : fd \in DOMAIN kernel' /\ (fd # it.fd => kernel'[fd] = kernel[fd])
         /\ kernel'[it.fd] = [kernel[it.fd] EXCEPT !.interest = Interest(it.path)]
         /\ \A fd \in DOMAIN kernel' \ DOMAIN kernel :
               \E p \in NewChildren(it) : kernel'[fd] = Descriptor(p, {"write"})
         /\ DOMAIN m_kqWatches' = DOMAIN m_kqWatches \cup {it.path} /\ m_kqWatches'[it.path] = NewItem
         /\ \A p \in DOMAIN m_kqWatches \ {it.path} : m_kqWatches'[p] = m_kqWatches[p]
         /\ torn' = torn \cup {m_kqWatches[p] : p \in {it.path} \cap DOMAIN m_kqWatches}
<1> DEFINE it    == call[th].item
           descriptors == [kernel EXCEPT ![it.fd].interest = Interest(it.path)]
           fdMap == With(m_kqFdMap, it.fd, NewItem)
<1>1. /\ call[th].at = "scanned"
      /\ m_kqWatches' = With(m_kqWatches, it.path, NewItem)
      /\ torn' = torn \cup {m_kqWatches[p] : p \in {it.path} \cap DOMAIN m_kqWatches}
      /\ SyncDirectChildFileWatches(NewItem, it, descriptors, fdMap)
  BY DEF InsertKqItem, InsertItem
<1>2. it = [f \in ItemField |-> it[f]] /\ it.childFileFds = << >> /\ it.fd \in DOMAIN kernel
  BY <1>1 DEF KqInv, Scanned, Apart
<1>3. /\ DOMAIN descriptors = DOMAIN kernel
      /\ \A fd \in DOMAIN kernel : fd # it.fd => descriptors[fd] = kernel[fd]
      /\ descriptors[it.fd] = [kernel[it.fd] EXCEPT !.interest = Interest(it.path)]
  BY <1>2
<1> HIDE DEF it, descriptors, fdMap
<1>4. NewItem \notin Item
  BY NewItemIs
<1>5. /\ DOMAIN item' = Item \cup {NewItem} /\ \A j \in Item \ {NewItem} : item'[j] = item[j]
      /\ item'[NewItem].path = it.path /\ item'[NewItem].fd = it.fd
  BY <1>1, <1>2, SyncChanges
<1>6. DOMAIN it.childFileFds = {}
  BY <1>2
<1> DEFINE fds == item'[NewItem].childFileFds
           old == it.childFileFds
<1>7. /\ item'[NewItem].children = it.children
      /\ DOMAIN fds \subseteq (DOMAIN old \cap DOMAIN it.children) \cup NewChildren(it)
      /\ \A p \in DOMAIN fds \ DOMAIN old :
            /\ fds[p] \in DOMAIN kernel' \ DOMAIN kernel
            /\ kernel'[fds[p]] = Descriptor(p, {"write"})
      /\ \A fd \in DOMAIN kernel :
            (\A p \in DOMAIN old \ DOMAIN it.children : fd # old[p]) =>
               fd \in DOMAIN kernel' /\ kernel'[fd] = descriptors[fd]
      /\ \A fd \in DOMAIN kernel' :
            \/ fd \in DOMAIN kernel /\ kernel'[fd] = descriptors[fd]
            \/ fd \notin DOMAIN kernel /\ \E p \in NewChildren(it) : kernel'[fd] = Descriptor(p, {"write"})
  BY <1>1, <1>2, <1>3, <1>6, SyncOpens
<1>8. /\ DOMAIN m_kqWatches' = DOMAIN m_kqWatches \cup {it.path} /\ m_kqWatches'[it.path] = NewItem
      /\ \A p \in DOMAIN m_kqWatches \ {it.path} : m_kqWatches'[p] = m_kqWatches[p]
  BY <1>1 DEF With
<1>9. \A fd \in DOMAIN kernel : fd \in DOMAIN kernel' /\ kernel'[fd] = descriptors[fd]
  BY <1>6, <1>7
<1>10. \A fd \in DOMAIN kernel : fd \in DOMAIN kernel' /\ (fd # it.fd => kernel'[fd] = kernel[fd])
  BY <1>3, <1>9
<1>11. kernel'[it.fd] = [kernel[it.fd] EXCEPT !.interest = Interest(it.path)]
  BY <1>2, <1>3, <1>9
<1>12. \A fd \in DOMAIN kernel' \ DOMAIN kernel : \E p \in NewChildren(it) : kernel'[fd] = Descriptor(p, {"write"})
  BY <1>7
<1>13. /\ DOMAIN fds \subseteq NewChildren(it)
       /\ \A p \in DOMAIN fds : kernel'[fds[p]] = Descriptor(p, {"write"})
  BY <1>6, <1>7
<1>14. \A j \in Item : item'[j] = item[j] /\ j # NewItem
  BY <1>4, <1>5
<1> QED BY <1>1, <1>2, <1>5, <1>7, <1>8, <1>10, <1>11, <1>12, <1>13, <1>14 DEF it

\* The item that leaves them; its descriptors are closed.
LEMMA ItemLeaves ==
  ASSUME KqInv, NEW p \in DOMAIN m_kqWatches, NEW held, RemoveKqueueItem(p, held)
  PROVE  LET i   == m_kqWatches[p]
             fds == Range(item[i].childFileFds) \cup {item[i].fd}
         IN
         /\ DOMAIN item' = Item /\ i \in Item /\ \A j \in Item \ {i} : item'[j] = item[j]
         /\ item'[i].path = p /\ item'[i].children = item[i].children
         /\ item'[i].fd = 0 /\ item'[i].childFileFds = << >>
         /\ DOMAIN kernel' = DOMAIN kernel \ fds /\ \A fd \in DOMAIN kernel' : kernel'[fd] = kernel[fd]
         /\ DOMAIN m_kqWatches' = DOMAIN m_kqWatches \ {p}
         /\ \A q \in DOMAIN m_kqWatches' : m_kqWatches'[q] = m_kqWatches[q] /\ m_kqWatches[q] # i
         /\ torn \subseteq torn' /\ torn' \subseteq torn \cup {i} /\ (i \in held => i \in torn')
<1> DEFINE i   == m_kqWatches[p]
           fds == Range(item[i].childFileFds) \cup {item[i].fd}
<1>1. /\ kernel' = Without(kernel, fds) /\ m_kqWatches' = Without(m_kqWatches, {p})
      /\ torn' = IF i \in held THEN torn \cup {i} ELSE torn
      /\ item' = [item EXCEPT ![i].fd = 0, ![i].childFileFds = << >>]
  BY DEF RemoveKqueueItem
<1>2. i \in Item /\ item[i].path = p /\ item[i] = [f \in ItemField |-> item[i][f]]
  BY DEF KqInv, Watched, Shapes
<1>3. \A q \in DOMAIN m_kqWatches \ {p} : m_kqWatches[q] # i
  BY <1>2 DEF KqInv, Watched
<1> HIDE DEF i, fds
<1>4. DOMAIN kernel' = DOMAIN kernel \ fds /\ \A fd \in DOMAIN kernel \ fds : kernel'[fd] = kernel[fd]
  BY <1>1, WithoutIs, Zenon
<1>5. /\ DOMAIN m_kqWatches' = DOMAIN m_kqWatches \ {p}
      /\ \A q \in DOMAIN m_kqWatches \ {p} : m_kqWatches'[q] = m_kqWatches[q]
  BY <1>1, WithoutIs, Zenon
<1>6. /\ DOMAIN item' = Item /\ \A j \in Item \ {i} : item'[j] = item[j]
      /\ item'[i].path = p /\ item'[i].children = item[i].children
      /\ item'[i].fd = 0 /\ item'[i].childFileFds = << >>
  BY <1>1, <1>2 DEF Item, ItemField
<1> QED BY <1>1, <1>2, <1>3, <1>4, <1>5, <1>6 DEF i, fds
LEMMA ScannedChildren ==
  ASSUME FsTypes, NEW p \in Path
  PROVE  /\ Entries(p) \subseteq Child(p)
         /\ \A q : q \in Entries(p) <=> q \in Child(p) \cap DOMAIN fs
<1> SUFFICES ASSUME NEW q
             PROVE  q \in Entries(p) <=> q \in Child(p) \cap DOMAIN fs
  BY DEF Entries, Tree
<1>1. DOMAIN fs \subseteq Path
  BY DEF FsTypes
<1>2. q \in Entries(p) <=> q \in DOMAIN fs /\ Under(p, q) /\ Len(q) = Len(p) + 1
  BY DEF Entries, Tree
<1>3. q \in Path => (q \in Child(p) <=> Under(p, q) /\ Len(q) = Len(p) + 1)
  BY ChildIs
<1> QED BY <1>1, <1>2, <1>3 DEF Child

\* One thread's call changes.
LEMMA CallTyped ==
  ASSUME KqInv, CallTypes, NEW th \in Thread, NEW c, Becomes(th, c),
         c.at \in {"add", "remove"} => c.root \in Root,
         c.at = "scanned" => OfItem(c.item)
  PROVE  CallTypes'
<1>1. \A other \in Thread : call'[other] = IF other = th THEN c ELSE call[other]
  BY DEF KqInv, Shapes, Becomes
<1> SUFFICES ASSUME NEW other \in Thread
             PROVE  /\ call'[other].at \in {"add", "remove"} => call'[other].root \in Root
                    /\ call'[other].at = "scanned" => OfItem(call'[other].item)
  BY DEF CallTypes, OfItem
<1>2. CASE other = th
  BY <1>1, <1>2
<1>3. CASE other # th
  BY <1>1, <1>3 DEF CallTypes
<1> QED BY <1>2, <1>3

LEMMA CallTypesStay == ASSUME CallTypes, UNCHANGED call PROVE CallTypes'
BY DEF CallTypes, OfItem

LEMMA RootScannedTypes == ASSUME KqInv, CallTypes, FsTypes, NEW th \in Thread, ScanKqItem(th) PROVE CallTypes'
<1> DEFINE r == call[th].root
<1>1. PICK fd \in 1 .. MaxFd : Becomes(th, [at |-> "scanned", item |-> ScannedItem(r, fd)])
  BY DEF ScanKqItem
<1>2. r \in Root \ RecursiveRoot /\ r \in Path
  BY RootAssumption DEF ScanKqItem, CallTypes
<1> HIDE DEF r
<1> DEFINE it == ScannedItem(r, fd)
<1>3. it.path = r /\ DOMAIN it.childFileFds = {}
  BY DEF ScannedItem
<1>4. DOMAIN it.children \subseteq Child(r)
  <2>1. CASE r \in Directory
    <3>1. DOMAIN it.children = Entries(r)
      BY <2>1 DEF ScannedItem, ScanDirectChildren
    <3> QED BY <3>1, <1>2, ScannedChildren
  <2>2. CASE r \notin Directory
    BY <2>2 DEF ScannedItem
  <2> QED BY <2>1, <2>2
<1>5. OfItem(it)
  BY <1>2, <1>3, <1>4 DEF OfItem
<1> DEFINE c == [at |-> "scanned", item |-> it]
<1>6. c.at = "scanned" /\ c.item = it /\ Becomes(th, c)
  BY <1>1
<1> HIDE DEF c, it
<1> QED BY <1>5, <1>6, CallTyped

LEMMA CallTypesKept == ASSUME KqInv, CallTypes, FsTypes, Next PROVE CallTypes'
<1>1. CASE FsStep \/ StreamStep
  <2>1. UNCHANGED call
    BY <1>1, FilesRecorded DEF Changes, StreamStep, PushEvents, WakeLoop
  <2> QED BY <2>1, CallTypesStay
<1>2. CASE LoopStep
  <2>1. UNCHANGED call
    BY <1>2 DEF LoopStep, Start, Begin, While, Kevent, HandleFile, HandleDirectory, ScanDirectory,
                SyncDirectory, SwapPending, Dispatch, CallbackReturn, Dispatched
  <2> QED BY <2>1, CallTypesStay
<1>3. CASE \E th \in Thread : CallStep(th)
  <2>1. PICK th \in Thread : CallStep(th)
    BY <1>3
  <2>2. CASE \E r \in Root : AddWatch(th, r) \/ RemoveWatch(th, r)
    <3>1. PICK r \in Root : AddWatch(th, r) \/ RemoveWatch(th, r)
      BY <2>2
    <3>2. PICK at \in {"add", "remove"} : Becomes(th, [at |-> at, root |-> r])
      BY <3>1 DEF AddWatch, RemoveWatch
    <3> DEFINE c == [at |-> at, root |-> r]
    <3>3. c.at # "scanned" /\ c.root \in Root
      OBVIOUS
    <3> HIDE DEF c
    <3> QED BY <3>2, <3>3, CallTyped DEF c
  <2>3. CASE ScanKqItem(th)
    BY <2>3, RootScannedTypes
  <2>4. CASE AddFails(th) \/ AddTree(th) \/ InsertKqItem(th) \/ RemoveTree(th) \/ RemoveItem(th)
             \/ Stop(th) \/ StopFSEvents(th) \/ ClearStream(th) \/ Wakeup(th)
    <3>1. PICK at \in {"idle", "stuck", "stopStream", "clearStream", "wakeup"} : Becomes(th, [at |-> at])
      BY <2>4 DEF AddFails, AddTree, InsertKqItem, RemoveTree, RemoveItem, Stop, StopFSEvents, ClearStream,
                  Wakeup, RestartStream, Idle
    <3> DEFINE c == [at |-> at]
    <3>2. c.at \notin {"add", "remove", "scanned"}
      OBVIOUS
    <3> HIDE DEF c
    <3> QED BY <3>1, <3>2, CallTyped DEF c
  <2> QED BY <2>1, <2>2, <2>3, <2>4 DEF CallStep
<1> QED BY <1>1, <1>2, <1>3 DEF Next

\* The one item that changes keeps to its directory.
LEMMA ItemTypesStay ==
  ASSUME ItemTypes, UNCHANGED <<torn, m_kqWatches>>, NEW i \in Item,
         DOMAIN item' = Item, \A j \in Item \ {i} : item'[j] = item[j], OfItem(item'[i])
  PROVE  ItemTypes'
<1>1. \A j \in DOMAIN item' : OfItem(item'[j])
  BY DEF ItemTypes
<1> QED BY <1>1 DEF ItemTypes, OfItem, Item

LEMMA SnapshotTyped == ASSUME KqInv, ItemTypes, FsTypes, ScanDirectory PROVE ItemTypes'
<1> DEFINE i   == lp.item
           new == ScanDirectChildren(item[i].path)
           it  == item[i]
<1>1. i \in Item /\ OfItem(it) /\ it = [f \in ItemField |-> it[f]]
  BY DEF KqInv, InHand, Shapes, ScanDirectory, ItemTypes
<1>2. item' = [item EXCEPT ![i].children = new] /\ UNCHANGED <<torn, m_kqWatches>>
  BY DEF ScanDirectory
<1>3. it.path \in Path /\ it.path \in Root \ RecursiveRoot
  BY <1>1, RootAssumption DEF OfItem
<1>4. DOMAIN new \subseteq Child(it.path)
  BY <1>3, ScannedChildren DEF ScanDirectChildren
<1> HIDE DEF i, new
<1>5. /\ DOMAIN item' = Item /\ \A j \in Item \ {i} : item'[j] = item[j]
      /\ item'[i].path = it.path /\ item'[i].childFileFds = it.childFileFds /\ item'[i].children = new
  BY <1>1, <1>2 DEF Item, ItemField
<1>6. OfItem(item'[i])
  BY <1>1, <1>4, <1>5 DEF OfItem
<1> QED BY <1>1, <1>2, <1>5, <1>6, ItemTypesStay

\* What syncDirectChildFileWatches makes of the loop's item.
LEMMA LoopItemSynced ==
  ASSUME KqInv, SyncDirectory, NEW i, i = lp.item
  PROVE  LET it  == item[i]
             fds == item'[i].childFileFds
         IN
         /\ i \in Item /\ DOMAIN item' = Item /\ \A j \in Item \ {i} : item'[j] = item[j]
         /\ item'[i].path = it.path /\ item'[i].fd = it.fd /\ item'[i].children = it.children
         /\ DOMAIN fds \subseteq (DOMAIN it.childFileFds \cap DOMAIN it.children) \cup NewChildren(it)
         /\ \A p \in DOMAIN it.childFileFds \cap DOMAIN it.children :
               p \in DOMAIN fds /\ fds[p] = it.childFileFds[p]
         /\ \A p \in DOMAIN fds \ DOMAIN it.childFileFds :
               fds[p] \in DOMAIN kernel' \ DOMAIN kernel /\ kernel'[fds[p]] = Descriptor(p, {"write"})
         /\ \A fd \in DOMAIN kernel :
               (\A p \in DOMAIN it.childFileFds \ DOMAIN it.children : fd # it.childFileFds[p]) =>
                  fd \in DOMAIN kernel' /\ kernel'[fd] = kernel[fd]
         /\ \A fd \in DOMAIN kernel' :
               \/ fd \in DOMAIN kernel /\ kernel'[fd] = kernel[fd]
               \/ fd \notin DOMAIN kernel /\ \E p \in NewChildren(it) : kernel'[fd] = Descriptor(p, {"write"})
<1> DEFINE it == item[i]
<1>1. i \in Item /\ it = [f \in ItemField |-> it[f]] /\ SyncDirectChildFileWatches(i, it, kernel, m_kqFdMap)
  BY DEF KqInv, InHand, Shapes, SyncDirectory
<1>2. \A p \in DOMAIN it.childFileFds : it.childFileFds[p] \in DOMAIN kernel
  BY <1>1 DEF KqInv, Tables, Agree, Holds, Item
<1> HIDE DEF it
<1>3. /\ DOMAIN item' = Item \cup {i} /\ \A j \in Item \ {i} : item'[j] = item[j]
      /\ item'[i].path = it.path /\ item'[i].fd = it.fd
  BY <1>1, SyncChanges
<1>4. DOMAIN item' = Item
  BY <1>1, <1>3
<1> DEFINE fds == item'[i].childFileFds
           old == it.childFileFds
<1>5. /\ item'[i].children = it.children
      /\ DOMAIN fds \subseteq (DOMAIN old \cap DOMAIN it.children) \cup NewChildren(it)
      /\ \A p \in DOMAIN old \cap DOMAIN it.children : p \in DOMAIN fds /\ fds[p] = old[p]
      /\ \A p \in DOMAIN fds \ DOMAIN old :
               /\ fds[p] \in DOMAIN kernel' \ DOMAIN kernel
               /\ kernel'[fds[p]] = Descriptor(p, {"write"})
      /\ \A fd \in DOMAIN kernel :
               (\A p \in DOMAIN old \ DOMAIN it.children : fd # old[p]) =>
                  fd \in DOMAIN kernel' /\ kernel'[fd] = kernel[fd]
      /\ \A fd \in DOMAIN kernel' :
               \/ fd \in DOMAIN kernel /\ kernel'[fd] = kernel[fd]
               \/ fd \notin DOMAIN kernel /\ \E p \in NewChildren(it) : kernel'[fd] = Descriptor(p, {"write"})
  BY <1>1, <1>2, SyncOpens
<1> QED BY <1>1, <1>3, <1>4, <1>5 DEF it

LEMMA SyncedTyped == ASSUME KqInv, ItemTypes, SyncDirectory PROVE ItemTypes'
<1> DEFINE i  == lp.item
           it == item[i]
           fds == item'[i].childFileFds
<1>1. /\ i \in Item /\ DOMAIN item' = Item /\ \A j \in Item \ {i} : item'[j] = item[j]
      /\ item'[i].path = it.path /\ item'[i].children = it.children
      /\ DOMAIN fds \subseteq (DOMAIN it.childFileFds \cap DOMAIN it.children) \cup NewChildren(it)
  BY LoopItemSynced
<1>2. OfItem(it) /\ UNCHANGED <<torn, m_kqWatches>>
  BY <1>1 DEF ItemTypes, SyncDirectory
<1> HIDE DEF i
<1>3. DOMAIN fds \subseteq Child(it.path) \ Directory
  BY <1>1, <1>2 DEF OfItem, NewChildren
<1>4. OfItem(item'[i])
  BY <1>1, <1>2, <1>3 DEF OfItem
<1> QED BY <1>1, <1>2, <1>4, ItemTypesStay

LEMMA EnteredTyped ==
  ASSUME KqInv, ItemTypes, CallTypes, NEW th \in Thread, InsertKqItem(th) PROVE ItemTypes'
<1> DEFINE it  == call[th].item
           new == item'[NewItem]
<1>1. /\ DOMAIN item' = Item \cup {NewItem} /\ \A j \in Item : item'[j] = item[j] /\ j # NewItem
      /\ new.path = it.path /\ new.fd = it.fd /\ new.children = it.children
      /\ DOMAIN new.childFileFds \subseteq NewChildren(it)
      /\ DOMAIN m_kqWatches' = DOMAIN m_kqWatches \cup {it.path} /\ m_kqWatches'[it.path] = NewItem
      /\ \A p \in DOMAIN m_kqWatches \ {it.path} : m_kqWatches'[p] = m_kqWatches[p]
      /\ torn' = torn \cup {m_kqWatches[p] : p \in {it.path} \cap DOMAIN m_kqWatches}
  BY ItemEnters
<1>2. OfItem(it)
  BY DEF InsertKqItem, CallTypes
<1> HIDE DEF it
<1>3. DOMAIN new.childFileFds \subseteq Child(it.path) \ Directory
  BY <1>1, <1>2 DEF OfItem, NewChildren
<1>4. OfItem(new)
  BY <1>1, <1>2, <1>3 DEF OfItem
<1>5. \A j \in DOMAIN item' : OfItem(item'[j])
  BY <1>1, <1>4 DEF ItemTypes
<1>6. \A p \in DOMAIN m_kqWatches : m_kqWatches[p] \in Item /\ item[m_kqWatches[p]].path = p
  BY DEF KqInv, Watched
<1>7. torn' \subseteq Item
  BY <1>1, <1>6 DEF ItemTypes
<1>8. \A p \in DOMAIN m_kqWatches' : m_kqWatches'[p] \notin torn'
  <2> SUFFICES ASSUME NEW p \in DOMAIN m_kqWatches' PROVE m_kqWatches'[p] \notin torn'
    OBVIOUS
  <2>1. CASE p = it.path
    BY <2>1, <1>1, <1>7
  <2>2. CASE p # it.path
    BY <2>2, <1>1, <1>6 DEF ItemTypes
  <2> QED BY <2>1, <2>2
<1> QED BY <1>1, <1>5, <1>7, <1>8 DEF ItemTypes, OfItem, Item

LEMMA LeftTyped ==
  ASSUME KqInv, ItemTypes, NEW th \in Thread, RemoveItem(th) PROVE ItemTypes'
<1>1. CASE UNCHANGED kqVars
  BY <1>1 DEF ItemTypes, OfItem, Item, kqVars, tables
<1>2. CASE \E r \in DOMAIN m_kqWatches : RemoveKqueueItem(r, Held)
  <2>1. PICK p \in DOMAIN m_kqWatches : RemoveKqueueItem(p, Held)
    BY <1>2
  <2> DEFINE i == m_kqWatches[p]
  <2>2. /\ DOMAIN item' = Item /\ i \in Item /\ \A j \in Item \ {i} : item'[j] = item[j]
        /\ item'[i].path = p /\ item'[i].children = item[i].children
        /\ item'[i].fd = 0 /\ item'[i].childFileFds = << >>
        /\ DOMAIN m_kqWatches' = DOMAIN m_kqWatches \ {p}
        /\ \A q \in DOMAIN m_kqWatches' : m_kqWatches'[q] = m_kqWatches[q] /\ m_kqWatches[q] # i
        /\ torn' \subseteq torn \cup {i}
    BY <2>1, ItemLeaves
  <2>3. item[i].path = p /\ OfItem(item[i])
    BY <2>2 DEF KqInv, Watched, ItemTypes
  <2> HIDE DEF i
  <2>4. OfItem(item'[i])
    BY <2>2, <2>3 DEF OfItem
  <2>5. \A j \in DOMAIN item' : OfItem(item'[j])
    BY <2>2, <2>4 DEF ItemTypes
  <2>6. torn' \subseteq Item /\ \A q \in DOMAIN m_kqWatches' : m_kqWatches'[q] \notin torn'
    BY <2>2 DEF ItemTypes
  <2> QED BY <2>2, <2>5, <2>6 DEF ItemTypes, OfItem, Item
<1> QED BY <1>1, <1>2 DEF RemoveItem

LEMMA ItemTypesKept == ASSUME KqInv, ItemTypes, CallTypes, FsTypes, Next PROVE ItemTypes'
<1>1. CASE UNCHANGED <<item, torn, m_kqWatches>>
  BY <1>1 DEF ItemTypes, OfItem, Item
<1>2. CASE FsStep \/ Kevent
  BY <1>1, <1>2, FilesRecorded DEF Changes, Kevent
<1>3. CASE ScanDirectory \/ SyncDirectory
  BY <1>3, SnapshotTyped, SyncedTyped
<1>4. CASE \E th \in Thread : ScanKqItem(th) \/ InsertKqItem(th) \/ RemoveItem(th)
  BY <1>1, <1>4, EnteredTyped, LeftTyped DEF ScanKqItem, OpenRoot
<1>5. CASE UNCHANGED kqVars
  BY <1>1, <1>5 DEF kqVars, tables
<1> QED BY <1>2, <1>3, <1>4, <1>5, DescriptorsStay

-----------------------------------------------------------------------------
(* The descriptors of the kernel.                                           *)

KernelField == {"inode", "interest", "active"}

OfKernel(k) == k = [f \in KernelField |-> k[f]] /\ k.active \subseteq k.interest

\* A root that has been opened, but not registered yet, has no notes.
KernelTypes ==
    /\ \A fd \in DOMAIN kernel : OfKernel(kernel[fd])
    /\ \A th \in Thread : call[th].at = "scanned" => kernel[call[th].item.fd].interest = {}

LEMMA DescriptorIs ==
  ASSUME NEW p, NEW interest
  PROVE  OfKernel(Descriptor(p, interest)) /\ Descriptor(p, interest).interest = interest
         /\ Descriptor(p, interest).active = {} /\ Descriptor(p, interest).inode = fs[p].inode
BY DEF OfKernel, Descriptor, KernelField

\* The notes that a change of the files raises.
LEMMA NotesRaised ==
  ASSUME KernelTypes, NEW notes, NEW records, NEW unnoticed, Changes(notes, records, unnoticed)
  PROVE  /\ DOMAIN kernel' = DOMAIN kernel
         /\ \A fd \in DOMAIN kernel :
               /\ OfKernel(kernel'[fd])
               /\ kernel'[fd].inode = kernel[fd].inode /\ kernel'[fd].interest = kernel[fd].interest
               /\ kernel'[fd].active = kernel[fd].active
                    \cup {n \in kernel[fd].interest : <<kernel[fd].inode, n>> \in notes}
<1>1. kernel' = [fd \in DOMAIN kernel |-> [kernel[fd] EXCEPT
         !.active = @ \cup {n \in kernel[fd].interest : <<kernel[fd].inode, n>> \in notes}]]
  BY DEF Changes
<1>2. DOMAIN kernel' = DOMAIN kernel
  BY <1>1
<1> SUFFICES ASSUME NEW fd \in DOMAIN kernel
             PROVE  /\ OfKernel(kernel'[fd])
                    /\ kernel'[fd].inode = kernel[fd].inode /\ kernel'[fd].interest = kernel[fd].interest
                    /\ kernel'[fd].active = kernel[fd].active
                         \cup {n \in kernel[fd].interest : <<kernel[fd].inode, n>> \in notes}
  BY <1>2
<1> DEFINE raised == {n \in kernel[fd].interest : <<kernel[fd].inode, n>> \in notes}
<1>3. raised \subseteq kernel[fd].interest
  OBVIOUS
<1>4. kernel'[fd] = [kernel[fd] EXCEPT !.active = @ \cup raised]
  BY <1>1
<1> HIDE DEF raised
<1>5. OfKernel(kernel[fd])
  BY DEF KernelTypes
<1>6. /\ kernel'[fd] = [f \in KernelField |-> kernel'[fd][f]]
      /\ kernel'[fd].inode = kernel[fd].inode /\ kernel'[fd].interest = kernel[fd].interest
      /\ kernel'[fd].active = kernel[fd].active \cup raised
  BY <1>4, <1>5 DEF OfKernel, KernelField
<1>7. OfKernel(kernel'[fd])
  BY <1>3, <1>5, <1>6 DEF OfKernel
<1> QED BY <1>6, <1>7 DEF raised

\* kevent returns the notes and clears them, or does nothing.
LEMMA NotesCleared ==
  ASSUME KernelTypes, Kevent, kernel' # kernel
  PROVE  /\ DOMAIN kernel' = DOMAIN kernel
         /\ \A fd \in DOMAIN kernel :
               /\ OfKernel(kernel'[fd])
               /\ kernel'[fd].inode = kernel[fd].inode /\ kernel'[fd].interest = kernel[fd].interest
               /\ kernel'[fd].active = {}
<1>1. kernel' = [fd \in DOMAIN kernel |-> [kernel[fd] EXCEPT !.active = {}]]
  BY DEF Kevent
<1> QED BY <1>1 DEF KernelTypes, OfKernel, KernelField

\* The calls do not change, or it is another thread's.
LEMMA ScannedAreLeft ==
  ASSUME KqInv, KqInv', KernelTypes, NEW th \in Thread, call'[th].at # "scanned",
         \A other \in Thread \ {th} : call'[other] = call[other],
         \A fd \in DOMAIN kernel' : OfKernel(kernel'[fd]),
         \A other \in Thread \ {th} : call[other].at = "scanned" =>
            kernel'[call[other].item.fd] = kernel[call[other].item.fd]
  PROVE  KernelTypes'
BY DEF KernelTypes, OfKernel

LEMMA OpenedTyped == ASSUME KqInv, KernelTypes, NEW th \in Thread, ScanKqItem(th) PROVE KernelTypes'
<1> DEFINE r == call[th].root
<1>1. PICK fd \in 1 .. MaxFd : OpenRoot(r, fd) /\ Becomes(th, [at |-> "scanned", item |-> ScannedItem(r, fd)])
  BY DEF ScanKqItem
<1> HIDE DEF r
<1> DEFINE k == Descriptor(r, {})
<1>2. kernel' = With(kernel, fd, k) /\ fd \notin DOMAIN kernel
  BY <1>1 DEF OpenRoot, LowestFree
<1>3. OfKernel(k) /\ k.interest = {}
  BY DescriptorIs
<1> HIDE DEF k
<1>4. DOMAIN kernel' = DOMAIN kernel \cup {fd} /\ kernel'[fd] = k /\ \A x \in DOMAIN kernel : kernel'[x] = kernel[x]
  BY <1>2 DEF With
<1>5. \A x \in DOMAIN kernel' : OfKernel(kernel'[x])
  BY <1>3, <1>4 DEF KernelTypes
<1>6. \A other \in Thread \ {th} : call'[other] = call[other]
  BY <1>1 DEF Becomes, KqInv, Shapes
<1>7. call'[th].item.fd = fd
  BY <1>1 DEF Becomes, KqInv, Shapes, ScannedItem
<1>8. \A other \in Thread : call'[other].at = "scanned" => kernel'[call'[other].item.fd].interest = {}
  <2> SUFFICES ASSUME NEW other \in Thread, call'[other].at = "scanned"
               PROVE  kernel'[call'[other].item.fd].interest = {}
    OBVIOUS
  <2>1. CASE other = th
    BY <2>1, <1>3, <1>4, <1>7
  <2>2. CASE other # th
    <3>1. call[other].at = "scanned" /\ call'[other] = call[other]
      BY <2>2, <1>6
    <3>2. call[other].item.fd \in DOMAIN kernel
      BY <3>1 DEF KqInv, Scanned, Apart
    <3> QED BY <3>1, <3>2, <1>4 DEF KernelTypes
  <2> QED BY <2>1, <2>2
<1> QED BY <1>5, <1>8 DEF KernelTypes, OfKernel

LEMMA EnteredKernel == ASSUME KqInv, KernelTypes, NEW th \in Thread, InsertKqItem(th) PROVE KernelTypes'
<1> DEFINE it == call[th].item
<1>1. /\ it.fd \in DOMAIN kernel
      /\ \A fd \in DOMAIN kernel : fd \in DOMAIN kernel' /\ (fd # it.fd => kernel'[fd] = kernel[fd])
      /\ kernel'[it.fd] = [kernel[it.fd] EXCEPT !.interest = Interest(it.path)]
      /\ \A fd \in DOMAIN kernel' \ DOMAIN kernel :
            \E p \in NewChildren(it) : kernel'[fd] = Descriptor(p, {"write"})
  BY ItemEnters
<1>2. call[th].at = "scanned" /\ Becomes(th, Idle)
  BY DEF InsertKqItem
<1>3. OfKernel(kernel[it.fd]) /\ kernel[it.fd].interest = {}
  BY <1>1, <1>2 DEF KernelTypes
<1>4. \A other \in Thread \ {th} : call[other].at = "scanned" =>
         call[other].item.fd # it.fd /\ call[other].item.fd \in DOMAIN kernel
  BY <1>2 DEF KqInv, Scanned, Apart
<1> HIDE DEF it
<1>5. OfKernel(kernel'[it.fd])
  BY <1>1, <1>3 DEF OfKernel, KernelField
<1>6. \A fd \in DOMAIN kernel' : OfKernel(kernel'[fd])
  <2> SUFFICES ASSUME NEW fd \in DOMAIN kernel' PROVE OfKernel(kernel'[fd])
    OBVIOUS
  <2>1. CASE fd \in DOMAIN kernel
    BY <2>1, <1>1, <1>5 DEF KernelTypes
  <2>2. CASE fd \notin DOMAIN kernel
    <3>1. PICK p : kernel'[fd] = Descriptor(p, {"write"})
      BY <2>2, <1>1
    <3> QED BY <3>1, DescriptorIs
  <2> QED BY <2>1, <2>2
<1>7. \A other \in Thread : call'[other] = IF other = th THEN Idle ELSE call[other]
  BY <1>2 DEF Becomes, KqInv, Shapes
<1>8. call'[th].at # "scanned" /\ \A other \in Thread \ {th} : call'[other] = call[other]
  BY <1>7 DEF Idle
<1>9. KqInv'
  BY TablesInductive DEF Next, CallStep
<1> QED BY <1>1, <1>4, <1>6, <1>8, <1>9, ScannedAreLeft

\* A call has something scanned only because it scanned it.
LEMMA ScannedByScan ==
  ASSUME KqInv, Next, \A th \in Thread : ~ScanKqItem(th)
  PROVE  \A th \in Thread : call'[th].at = "scanned" => call'[th] = call[th]
<1>1. CASE FsStep \/ StreamStep
  BY <1>1, FilesRecorded DEF Changes, StreamStep, PushEvents, WakeLoop
<1>2. CASE LoopStep
  BY <1>2 DEF LoopStep, Start, Begin, While, Kevent, HandleFile, HandleDirectory, ScanDirectory,
              SyncDirectory, SwapPending, Dispatch, CallbackReturn, Dispatched
<1>3. CASE \E th \in Thread : CallStep(th)
  <2>1. PICK th \in Thread : CallStep(th) /\ ~ScanKqItem(th)
    BY <1>3
  <2>2. \E c : Becomes(th, c) /\ c.at # "scanned"
    <3>1. CASE \E r \in Root : AddWatch(th, r) \/ RemoveWatch(th, r)
      <4>1. PICK r \in Root : AddWatch(th, r) \/ RemoveWatch(th, r)
        BY <3>1
      <4>2. PICK at \in {"add", "remove"} : Becomes(th, [at |-> at, root |-> r])
        BY <4>1 DEF AddWatch, RemoveWatch
      <4> DEFINE c == [at |-> at, root |-> r]
      <4>3. c.at # "scanned"
        OBVIOUS
      <4> HIDE DEF c
      <4> QED BY <4>2, <4>3 DEF c
    <3>2. CASE AddFails(th) \/ AddTree(th) \/ InsertKqItem(th) \/ RemoveTree(th) \/ RemoveItem(th)
               \/ Stop(th) \/ StopFSEvents(th) \/ ClearStream(th) \/ Wakeup(th)
      <4>1. PICK at \in {"idle", "stuck", "stopStream", "clearStream", "wakeup"} : Becomes(th, [at |-> at])
        BY <3>2 DEF AddFails, AddTree, InsertKqItem, RemoveTree, RemoveItem, Stop, StopFSEvents, ClearStream,
                    Wakeup, RestartStream, Idle
      <4> DEFINE c == [at |-> at]
      <4>2. c.at # "scanned"
        OBVIOUS
      <4> HIDE DEF c
      <4> QED BY <4>1, <4>2 DEF c
    <3> QED BY <2>1, <3>1, <3>2 DEF CallStep
  <2>3. PICK c : Becomes(th, c) /\ c.at # "scanned"
    BY <2>2
  <2>4. \A other \in Thread : call'[other] = IF other = th THEN c ELSE call[other]
    BY <2>3 DEF Becomes, KqInv, Shapes
  <2> QED BY <2>3, <2>4
<1> QED BY <1>1, <1>2, <1>3 DEF Next

LEMMA KernelTypesStay ==
  ASSUME KqInv, KqInv', KernelTypes,
         \A fd \in DOMAIN kernel' : \/ fd \in DOMAIN kernel /\ kernel'[fd] = kernel[fd]
                                    \/ fd \notin DOMAIN kernel /\ OfKernel(kernel'[fd]),
         \A th \in Thread : call'[th].at = "scanned" => call'[th] = call[th]
  PROVE  KernelTypes'
<1>1. \A fd \in DOMAIN kernel' : OfKernel(kernel'[fd])
  BY DEF KernelTypes
<1>2. \A th \in Thread : call'[th].at = "scanned" => kernel'[call'[th].item.fd].interest = {}
  <2> SUFFICES ASSUME NEW th \in Thread, call'[th].at = "scanned"
               PROVE  kernel'[call'[th].item.fd].interest = {}
    OBVIOUS
  <2>1. call'[th] = call[th] /\ call[th].at = "scanned"
    OBVIOUS
  <2>2. call[th].item.fd \in DOMAIN kernel
    BY <2>1 DEF KqInv, Scanned, Apart
  <2>3. call[th].item.fd \in DOMAIN kernel'
    BY <2>1 DEF KqInv, Scanned, Apart
  <2> QED BY <2>1, <2>2, <2>3 DEF KernelTypes
<1> QED BY <1>1, <1>2 DEF KernelTypes, OfKernel

LEMMA KernelTypesKept == ASSUME KqInv, KernelTypes, Next PROVE KernelTypes'
<1>1. KqInv'
  BY TablesInductive
<1>2. CASE FsStep
  <2>1. PICK notes, records, unnoticed : Changes(notes, records, unnoticed)
    BY <1>2, FilesRecorded
  <2>2. UNCHANGED call
    BY <2>1 DEF Changes
  <2>3. \A fd \in DOMAIN kernel' : OfKernel(kernel'[fd]) /\ kernel'[fd].interest = kernel[fd].interest
    BY <2>1, NotesRaised
  <2>4. \A fd \in DOMAIN kernel : kernel'[fd].interest = kernel[fd].interest
    BY <2>1, NotesRaised
  <2>5. \A th \in Thread : call[th].at = "scanned" => call[th].item.fd \in DOMAIN kernel
    BY DEF KqInv, Scanned, Apart
  <2> QED BY <2>2, <2>3, <2>4, <2>5 DEF KernelTypes, OfKernel
<1>3. CASE Kevent /\ kernel' # kernel
  <2>1. UNCHANGED call
    BY <1>3 DEF Kevent
  <2>2. DOMAIN kernel' = DOMAIN kernel
        /\ \A fd \in DOMAIN kernel : OfKernel(kernel'[fd]) /\ kernel'[fd].interest = kernel[fd].interest
    BY <1>3, NotesCleared
  <2>3. \A th \in Thread : call[th].at = "scanned" => call[th].item.fd \in DOMAIN kernel
    BY DEF KqInv, Scanned, Apart
  <2> QED BY <2>1, <2>2, <2>3 DEF KernelTypes, OfKernel
<1>4. CASE \E th \in Thread : ScanKqItem(th) \/ InsertKqItem(th)
  BY <1>4, OpenedTyped, EnteredKernel
<1>5. CASE ~FsStep /\ (~Kevent \/ kernel' = kernel) /\ \A th \in Thread : ~ScanKqItem(th) /\ ~InsertKqItem(th)
  <2>1. \A th \in Thread : call'[th].at = "scanned" => call'[th] = call[th]
    BY <1>5, ScannedByScan
  <2>2. \A fd \in DOMAIN kernel' : \/ fd \in DOMAIN kernel /\ kernel'[fd] = kernel[fd]
                                   \/ fd \notin DOMAIN kernel /\ OfKernel(kernel'[fd])
    <3>1. CASE kernel' = kernel
      BY <3>1
    <3>2. CASE SyncDirectory
      <4> SUFFICES ASSUME NEW fd \in DOMAIN kernel', fd \notin DOMAIN kernel \/ kernel'[fd] # kernel[fd]
                   PROVE  fd \notin DOMAIN kernel /\ OfKernel(kernel'[fd])
        OBVIOUS
      <4> DEFINE i == lp.item
      <4>1. i = lp.item
        OBVIOUS
      <4> HIDE DEF i
      <4>2. fd \notin DOMAIN kernel /\ \E p \in NewChildren(item[i]) : kernel'[fd] = Descriptor(p, {"write"})
        BY <3>2, <4>1, LoopItemSynced
      <4>3. PICK p : kernel'[fd] = Descriptor(p, {"write"})
        BY <4>2
      <4> QED BY <4>2, <4>3, DescriptorIs
    <3>3. CASE \E th \in Thread : RemoveItem(th)
      <4>1. CASE UNCHANGED kqVars
        BY <4>1 DEF kqVars, tables
      <4>2. CASE \E p \in DOMAIN m_kqWatches : RemoveKqueueItem(p, Held)
        BY <4>2, ItemLeaves
      <4> QED BY <3>3, <4>1, <4>2 DEF RemoveItem
    <3>4. CASE ScanDirectory
      BY <3>4 DEF ScanDirectory
    <3>5. CASE ~Kevent /\ ~ScanDirectory /\ ~SyncDirectory /\ \A th \in Thread : ~RemoveItem(th)
      <4>1. UNCHANGED kqVars
        BY <1>5, <3>5, DescriptorsStay
      <4> QED BY <4>1 DEF kqVars, tables
    <3> QED BY <1>5, <3>1, <3>2, <3>3, <3>4, <3>5
  <2> QED BY <1>1, <2>1, <2>2, KernelTypesStay
<1> QED BY <1>2, <1>3, <1>4, <1>5

-----------------------------------------------------------------------------
(* The queue, the loop and the follower.                                    *)

Queued == TreeEvents \cup UNION {KqEvents(t) : t \in Root \ RecursiveRoot}

QueueTypes ==
    /\ m_pendingEvents \in Seq(Queued) /\ lp.batch \in Seq(Queued)
    /\ lp.at = "sync" => lp.batch \in Seq(KqEvents(item[lp.item].path))
    /\ lp.at \notin {"dispatch", "callback", "sync"} => lp.batch = << >>
    /\ lp.at \notin {"handle", "scan", "sync"} => lp.events = {}
    /\ lp.item \in Item \cup {0}

UserTypes ==
    /\ m_running \in BOOLEAN /\ m_mutex \in Thread \cup {Free} /\ trigger \in BOOLEAN
    /\ m_watches \subseteq Root
    /\ DOMAIN mirror \subseteq Seq(STRING) /\ missed \subseteq Path

LEMMA SeqOfMore == ASSUME NEW S, NEW T, S \subseteq T, NEW s \in Seq(S) PROVE s \in Seq(T)
OBVIOUS

LEMMA QueuedIs ==
  /\ Queued \subseteq FileEvents
  /\ \A t \in Root \ RecursiveRoot : \A s : s \in Seq(KqEvents(t)) => s \in Seq(Queued)
  /\ \A s : s \in Seq(TreeEvents) => s \in Seq(Queued)
<1>1. Queued \subseteq FileEvents
  BY DEF Queued, TreeEvents, KqEvents
<1>2. \A t \in Root \ RecursiveRoot : KqEvents(t) \subseteq Queued
  BY DEF Queued
<1>3. TreeEvents \subseteq Queued
  BY DEF Queued
<1> QED BY <1>1, <1>2, <1>3, SeqOfMore

LEMMA KqEventIs ==
  ASSUME NEW r \in Path, NEW p \in {r} \cup Child(r), NEW type \in EventTypes
  PROVE  FileEvent(type, p) \in KqEvents(r)
<1> DEFINE e == FileEvent(type, p)
<1>1. e.path = p /\ e.type = type /\ e.old = << >> /\ e = [type |-> type, path |-> p, old |-> << >>]
  BY DEF FileEvent
<1>2. p \in Path
  BY DEF Child
<1>3. e \in FileEvents
  BY <1>1, <1>2 DEF FileEvents, EventTypes
<1> HIDE DEF e
<1>4. e \in KqEvents(r)
  BY <1>1, <1>3 DEF KqEvents
<1> QED BY <1>4 DEF e

\* What the loop makes of the notes of one descriptor.
LEMMA FileEventsAre ==
  ASSUME KqInv, ItemTypes, NEW e, e.fd \in DOMAIN m_kqFdMap
  PROVE  /\ item[m_kqFdMap[e.fd]].path \in Root \ RecursiveRoot
         /\ FileEventsOf(e) \in Seq(KqEvents(item[m_kqFdMap[e.fd]].path))
<1> DEFINE i  == m_kqFdMap[e.fd]
           r  == item[i].path
           p  == m_childFdToPath[e.fd]
<1>1. i \in Item /\ OfItem(item[i])
  BY DEF KqInv, Tables, Agree, ItemTypes, Item
<1>2. r \in Root \ RecursiveRoot /\ r \in Path
  BY <1>1, RootAssumption DEF OfItem
<1>3. e.fd \in DOMAIN m_childFdToPath => p \in Child(r)
  <2>1. OwnedBy(e.fd, item[i], m_childFdToPath)
    BY DEF KqInv, Tables, Agree
  <2> QED BY <1>1, <2>1 DEF OwnedBy, OfItem
<1>4. \A type \in EventTypes :
         FileEvent(type, r) \in KqEvents(r) /\ (p \in Child(r) => FileEvent(type, p) \in KqEvents(r))
  BY <1>2, KqEventIs
<1>5. {"create", "modify", "delete", "rename"} = EventTypes
  BY DEF EventTypes
<1> HIDE DEF i, r, p
<1>6. p \in Child(r) => FileNoted(p, e.notes) \in Seq(KqEvents(r))
  BY <1>4, <1>5 DEF FileNoted
<1>7. FileNoted(r, e.notes) \in Seq(KqEvents(r))
  BY <1>4, <1>5 DEF FileNoted
<1>8. RootFileNoted(r, e.notes) \in Seq(KqEvents(r))
  <2> DEFINE a == IF "rename" \in e.notes THEN <<FileEvent("rename", r)>> ELSE << >>
             b == IF "delete" \in e.notes THEN <<FileEvent("delete", r)>> ELSE << >>
             c == FileNoted(r, e.notes)
  <2>1. a \in Seq(KqEvents(r)) /\ b \in Seq(KqEvents(r))
    BY <1>4, <1>5
  <2>2. c \in Seq(KqEvents(r)) /\ RootFileNoted(r, e.notes) = c \o a \o b
    BY <1>7 DEF RootFileNoted
  <2> HIDE DEF a, b, c
  <2> QED BY <2>1, <2>2
<1>9. <<FileEvent("delete", r)>> \in Seq(KqEvents(r)) /\ << >> \in Seq(KqEvents(r))
  BY <1>4, <1>5
<1>10. FileEventsOf(e) \in Seq(KqEvents(r))
  <2>1. CASE e.fd \in DOMAIN m_childFdToPath
    <3>1. FileEventsOf(e) = FileNoted(p, e.notes)
      BY <2>1 DEF FileEventsOf, p
    <3> QED BY <2>1, <3>1, <1>3, <1>6
  <2>2. CASE e.fd \notin DOMAIN m_childFdToPath
    BY <2>2, <1>8, <1>9 DEF FileEventsOf, i, r
  <2> QED BY <2>1, <2>2
<1> QED BY <1>2, <1>10 DEF i, r

\* Items keep their paths.
LEMMA ItemsKeepPaths ==
  ASSUME KqInv, Next
  PROVE  Item \subseteq DOMAIN item' /\ \A i \in Item : item'[i].path = item[i].path
<1>1. CASE UNCHANGED item
  BY <1>1 DEF Item
<1>2. CASE FsStep \/ Kevent \/ \E th \in Thread : ScanKqItem(th)
  BY <1>1, <1>2, FilesRecorded DEF Changes, Kevent, ScanKqItem, OpenRoot
<1>3. CASE ScanDirectory
  <2>1. item' = [item EXCEPT ![lp.item].children = ScanDirectChildren(item[lp.item].path)]
    BY <1>3 DEF ScanDirectory
  <2>2. \A i \in Item : item[i] = [f \in ItemField |-> item[i][f]]
    BY DEF KqInv, Shapes
  <2> QED BY <2>1, <2>2 DEF Item, ItemField
<1>4. CASE SyncDirectory
  <2> DEFINE i == lp.item
  <2>1. i = lp.item
    OBVIOUS
  <2> HIDE DEF i
  <2>2. i \in Item /\ DOMAIN item' = Item /\ item'[i].path = item[i].path
        /\ \A j \in Item \ {i} : item'[j] = item[j]
    BY <1>4, <2>1, LoopItemSynced
  <2> QED BY <2>2
<1>5. CASE \E th \in Thread : InsertKqItem(th)
  BY <1>5, ItemEnters
<1>6. CASE \E th \in Thread : RemoveItem(th)
  <2>1. CASE UNCHANGED kqVars
    BY <1>1, <2>1 DEF kqVars, tables
  <2>2. ASSUME NEW p \in DOMAIN m_kqWatches, RemoveKqueueItem(p, Held)
        PROVE  Item \subseteq DOMAIN item' /\ \A i \in Item : item'[i].path = item[i].path
    <3> DEFINE i == m_kqWatches[p]
    <3>1. DOMAIN item' = Item /\ item'[i].path = p /\ \A j \in Item \ {i} : item'[j] = item[j]
      BY <2>2, ItemLeaves
    <3>2. item[i].path = p
      BY DEF KqInv, Watched
    <3> HIDE DEF i
    <3> QED BY <3>1, <3>2
  <2> QED BY <1>6, <2>1, <2>2 DEF RemoveItem
<1>7. CASE UNCHANGED kqVars
  BY <1>1, <1>7 DEF kqVars, tables
<1> QED BY <1>2, <1>3, <1>4, <1>5, <1>6, <1>7, DescriptorsStay

LEMMA QueueLeftAlone ==
  ASSUME KqInv, QueueTypes, Next, UNCHANGED lp, m_pendingEvents' \in Seq(Queued)
  PROVE  QueueTypes'
<1>1. Item \subseteq DOMAIN item' /\ \A i \in Item : item'[i].path = item[i].path
  BY ItemsKeepPaths
<1>2. lp.at = "sync" => lp.item \in Item
  BY DEF KqInv, InHand
<1>3. lp.at = "sync" => lp.batch \in Seq(KqEvents(item'[lp.item].path))
  BY <1>1, <1>2 DEF QueueTypes
<1> QED BY <1>1, <1>3 DEF QueueTypes, Item, Queued, KqEvents, TreeEvents, TreePath

\* What the loop has in hand at each place.
LEMMA QueueHandled ==
  ASSUME KqInv, QueueTypes, ItemTypes, HandleFile \/ HandleDirectory PROVE QueueTypes'
<1>1. lp = [f \in LoopField |-> lp[f]] /\ lp.at = "handle" /\ lp.batch = << >>
  BY DEF KqInv, Shapes, HandleFile, HandleDirectory, QueueTypes
<1>2. UNCHANGED item
  BY DEF HandleFile, HandleDirectory, kqVars, tables
<1>3. m_pendingEvents' \in Seq(Queued)
  <2>1. CASE UNCHANGED m_pendingEvents
    BY <2>1 DEF QueueTypes
  <2>2. ASSUME NEW e, e.fd \in DOMAIN m_kqFdMap, Pushed(FileEventsOf(e))
        PROVE  m_pendingEvents' \in Seq(Queued)
    <3>1. FileEventsOf(e) \in Seq(Queued)
      BY <2>2, FileEventsAre, QueuedIs
    <3> QED BY <2>2, <3>1 DEF Pushed, QueueTypes
  <2> QED BY <2>1, <2>2 DEF HandleFile, HandleDirectory
<1>4. \A e : e.fd \in DOMAIN m_kqFdMap => m_kqFdMap[e.fd] \in Item
  BY DEF KqInv, Tables, Agree, Item
<1>5. lp'.batch = << >> /\ lp'.at \in {"handle", "scan"} /\ lp'.item \in Item \cup {0}
  BY <1>1, <1>4 DEF HandleFile, HandleDirectory, ToScan, LoopField, QueueTypes
<1>6. << >> \in Seq(Queued)
  OBVIOUS
<1> QED BY <1>2, <1>3, <1>5, <1>6 DEF QueueTypes, Item, Queued, KqEvents, TreeEvents, TreePath

LEMMA DifferencesQueued ==
  ASSUME KqInv, QueueTypes, ItemTypes, FsTypes, ScanDirectory
  PROVE  /\ QueueTypes' /\ lp'.batch \in Seq(KqEvents(item[lp.item].path))
<1> DEFINE i   == lp.item
           r   == item[i].path
           old == item[i].children
           new == ScanDirectChildren(r)
<1>1. lp = [f \in LoopField |-> lp[f]] /\ i \in Item /\ OfItem(item[i])
  BY DEF KqInv, Shapes, InHand, ScanDirectory, ItemTypes
<1>2. r \in Path /\ r \in Root \ RecursiveRoot /\ DOMAIN old \subseteq Child(r)
  BY <1>1, RootAssumption DEF OfItem
<1>3. DOMAIN new \subseteq Child(r)
  BY <1>2, ScannedChildren DEF ScanDirectChildren
<1>4. PICK modified \in SUBSET Changed(old, new) :
         lp' = [lp EXCEPT !.at = "sync", !.batch = Diff(old, new, modified)]
  BY DEF ScanDirectory
<1>5. modified \subseteq DOMAIN old \cap DOMAIN new
  BY <1>4 DEF Changed
<1>6. item'[i].path = r /\ Item \subseteq DOMAIN item' /\ UNCHANGED m_pendingEvents
  BY ItemsKeepPaths, <1>1 DEF ScanDirectory, Next, LoopStep
<1> HIDE DEF i, r, old, new
<1> DEFINE d == Diff(old, new, modified)
<1>7. d \in Seq(KqEvents(r))
  BY <1>2, <1>3, <1>5, DiffReports
<1>8. lp' = [lp EXCEPT !.at = "sync", !.batch = d]
  BY <1>4
<1> HIDE DEF d
<1>9. lp'.at = "sync" /\ lp'.batch = d /\ lp'.item = i
  BY <1>1, <1>8 DEF LoopField, i
<1>10. d \in Seq(Queued)
  BY <1>2, <1>7, QueuedIs
<1>11. lp'.batch \in Seq(KqEvents(item'[lp'.item].path))
  BY <1>6, <1>7, <1>9
<1>12. m_pendingEvents' \in Seq(Queued) /\ lp'.batch \in Seq(Queued) /\ lp'.item \in DOMAIN item'
  BY <1>1, <1>6, <1>9, <1>10 DEF QueueTypes
<1>13. QueueTypes'
  BY <1>9, <1>11, <1>12 DEF QueueTypes, Item, Queued, KqEvents, TreeEvents, TreePath
<1> QED BY <1>7, <1>9, <1>13 DEF r, i

\* What the loop queues at the end of syncDirectChildFileWatches.
Synchronised == lp.batch \o (IF "delete" \in lp.notes
                             THEN <<FileEvent("delete", item[lp.item].path)>> ELSE << >>)

LEMMA SynchronisedQueued ==
  ASSUME KqInv, QueueTypes, ItemTypes, SyncDirectory
  PROVE  /\ QueueTypes' /\ Synchronised \in Seq(KqEvents(item[lp.item].path))
         /\ m_pendingEvents' = m_pendingEvents \o Synchronised
<1> DEFINE i == lp.item
           r == item[i].path
<1>1. lp = [f \in LoopField |-> lp[f]] /\ i \in Item /\ OfItem(item[i]) /\ lp.batch \in Seq(KqEvents(r))
  BY DEF KqInv, Shapes, InHand, SyncDirectory, ItemTypes, QueueTypes
<1>2. r \in Path /\ r \in Root \ RecursiveRoot
  BY <1>1, RootAssumption DEF OfItem
<1>3. lp' = [lp EXCEPT !.at = "handle", !.item = 0, !.notes = {}, !.batch = << >>]
  BY DEF SyncDirectory
<1>4. lp'.at = "handle" /\ lp'.item = 0 /\ lp'.batch = << >>
  BY <1>1, <1>3 DEF LoopField
<1>5. m_pendingEvents' = m_pendingEvents \o Synchronised
  BY DEF SyncDirectory, Pushed, Synchronised
<1> DEFINE a == lp.batch
           b == IF "delete" \in lp.notes THEN <<FileEvent("delete", r)>> ELSE << >>
<1>6. FileEvent("delete", r) \in KqEvents(r)
  BY <1>2, KqEventIs DEF EventTypes
<1>7. a \in Seq(KqEvents(r)) /\ b \in Seq(KqEvents(r)) /\ Synchronised = a \o b
  <2>1. Synchronised = a \o b
    BY DEF Synchronised
  <2>2. b \in Seq(KqEvents(r))
    <3> HIDE DEF r
    <3> QED BY <1>6
  <2> QED BY <1>1, <2>1, <2>2
<1>8. Synchronised \in Seq(KqEvents(r))
  <2> HIDE DEF a, b, r
  <2> QED BY <1>7
<1>9. Synchronised \in Seq(Queued)
  <2> HIDE DEF r
  <2> QED BY <1>2, <1>8, QueuedIs
<1>10. m_pendingEvents' \in Seq(Queued) /\ << >> \in Seq(Queued)
  BY <1>5, <1>9 DEF QueueTypes
<1>11. QueueTypes'
  BY <1>4, <1>10 DEF QueueTypes, Queued, KqEvents, TreeEvents, TreePath
<1> QED BY <1>5, <1>8, <1>11

\* Where the steps of the loop that change no descriptor leave it.
LEMMA LoopFields ==
  ASSUME KqInv
  PROVE  /\ Start \/ Begin => lp'.at \notin {"dispatch", "callback", "sync", "scan", "handle"}
                              /\ lp.at \notin {"dispatch", "callback", "sync", "scan", "handle"}
                              /\ lp'.batch = lp.batch /\ lp'.events = lp.events /\ lp'.item = lp.item
         /\ While => lp.at = "while" /\ lp'.at \in {"kevent", "swap"} /\ lp'.batch = lp.batch
                      /\ lp'.events = lp.events /\ lp'.item = lp.item
         /\ Kevent => lp.at = "kevent" /\ lp'.batch = lp.batch /\ lp'.item = lp.item
                       /\ (lp'.at = "handle" \/ (lp'.at = "while" /\ lp'.events = lp.events /\ kernel' = kernel))
         /\ SwapPending => /\ lp.at = "swap" \/ (lp.at = "handle" /\ lp.events = {})
                           /\ lp'.at = "dispatch" /\ lp'.batch = m_pendingEvents
                           /\ lp'.events = lp.events /\ lp'.item = lp.item
         /\ Dispatch => lp.at = "dispatch" /\ lp'.at = "callback" /\ lp'.batch = Tail(lp.batch)
                        /\ lp'.events = lp.events /\ lp'.item = lp.item
         /\ CallbackReturn => lp.at = "callback" /\ lp'.at = "dispatch" /\ lp'.batch = lp.batch
                              /\ lp'.events = lp.events /\ lp'.item = lp.item
         /\ Dispatched => /\ lp.at = "dispatch" /\ lp.batch = << >> /\ lp'.at \in {"out", "while"}
                          /\ lp'.batch = << >> /\ lp'.events \in {{}, lp.events} /\ lp'.item \in {0, lp.item}
<1>1. lp = [f \in LoopField |-> lp[f]]
  BY DEF KqInv, Shapes
<1>2. ASSUME Start \/ Begin
      PROVE  /\ lp'.at \notin {"dispatch", "callback", "sync", "scan", "handle"}
             /\ lp.at \notin {"dispatch", "callback", "sync", "scan", "handle"}
             /\ lp'.batch = lp.batch /\ lp'.events = lp.events /\ lp'.item = lp.item
  BY <1>1, <1>2 DEF Start, Begin, LoopIs, LoopField
<1>3. ASSUME While
      PROVE  /\ lp.at = "while" /\ lp'.at \in {"kevent", "swap"} /\ lp'.batch = lp.batch
             /\ lp'.events = lp.events /\ lp'.item = lp.item
  BY <1>1, <1>3 DEF While, LoopField
<1>4. ASSUME Kevent
      PROVE  /\ lp.at = "kevent" /\ lp'.batch = lp.batch /\ lp'.item = lp.item
             /\ (lp'.at = "handle" \/ (lp'.at = "while" /\ lp'.events = lp.events /\ kernel' = kernel))
  BY <1>1, <1>4 DEF Kevent, LoopIs, LoopField
<1>5. ASSUME SwapPending
      PROVE  /\ lp.at = "swap" \/ (lp.at = "handle" /\ lp.events = {})
             /\ lp'.at = "dispatch" /\ lp'.batch = m_pendingEvents
             /\ lp'.events = lp.events /\ lp'.item = lp.item
  BY <1>1, <1>5 DEF SwapPending, LoopField
<1>6. ASSUME Dispatch
      PROVE  /\ lp.at = "dispatch" /\ lp'.at = "callback" /\ lp'.batch = Tail(lp.batch)
             /\ lp'.events = lp.events /\ lp'.item = lp.item
  <2>1. lp' = [lp EXCEPT !.at = "callback", !.batch = Tail(@)] /\ lp.at = "dispatch"
    BY <1>6 DEF Dispatch
  <2> QED BY <1>1, <2>1 DEF LoopField
<1>7. ASSUME CallbackReturn
      PROVE  /\ lp.at = "callback" /\ lp'.at = "dispatch" /\ lp'.batch = lp.batch
             /\ lp'.events = lp.events /\ lp'.item = lp.item
  BY <1>1, <1>7 DEF CallbackReturn, LoopIs, LoopField
<1>8. ASSUME Dispatched
      PROVE  /\ lp.at = "dispatch" /\ lp.batch = << >> /\ lp'.at \in {"out", "while"}
             /\ lp'.batch = << >> /\ lp'.events \in {{}, lp.events} /\ lp'.item \in {0, lp.item}
  BY <1>1, <1>8 DEF Dispatched, Out, LoopField
<1> QED BY <1>2, <1>3, <1>4, <1>5, <1>6, <1>7, <1>8

LEMMA QueueTypesKept ==
  ASSUME KqInv, QueueTypes, ItemTypes, FsTypes, StreamTypes, Next
  PROVE  QueueTypes'
<1>1. lp = [f \in LoopField |-> lp[f]] /\ m_pendingEvents \in Seq(Queued)
  BY DEF KqInv, Shapes, QueueTypes
<1>2. CASE FsStep \/ \E th \in Thread : CallStep(th)
  <2>1. UNCHANGED <<lp, m_pendingEvents>>
    BY <1>2, FilesRecorded DEF Changes, CallStep, AddWatch, RemoveWatch, AddFails, AddTree, ScanKqItem,
          InsertKqItem, RemoveTree, RemoveItem, Stop, StopFSEvents, ClearStream, Wakeup, loopVars
  <2> QED BY <1>1, <2>1, QueueLeftAlone
<1>3. CASE StreamStep
  <2>1. UNCHANGED lp
    BY <1>3 DEF StreamStep, PushEvents, WakeLoop, loopVars
  <2>2. m_pendingEvents' \in Seq(Queued)
    <3>1. CASE UNCHANGED m_pendingEvents
      BY <1>1, <3>1
    <3>2. ASSUME NEW s \in Stream, PushEvents(s) PROVE m_pendingEvents' \in Seq(Queued)
      <4>1. stream[s].batch \in Seq(Queued)
        BY QueuedIs DEF StreamTypes, OfStream
      <4> QED BY <1>1, <3>2, <4>1 DEF PushEvents
    <3> QED BY <1>3, <3>1, <3>2 DEF StreamStep, WakeLoop, loopVars
  <2> QED BY <2>1, <2>2, QueueLeftAlone
<1>4. CASE HandleFile \/ HandleDirectory \/ ScanDirectory \/ SyncDirectory
  BY <1>4, QueueHandled, DifferencesQueued, SynchronisedQueued
<1>5. CASE Start \/ Begin \/ While \/ Kevent \/ SwapPending \/ Dispatch \/ CallbackReturn \/ Dispatched
  <2>1. UNCHANGED item
    BY <1>5 DEF Start, Begin, While, Kevent, SwapPending, Dispatch, CallbackReturn, Dispatched, kqVars, tables
  <2>2. lp'.at # "sync" /\ lp'.item \in Item \cup {0}
    BY <1>5, LoopFields DEF QueueTypes
  <2>3. m_pendingEvents' \in Seq(Queued)
    <3>1. << >> \in Seq(Queued)
      OBVIOUS
    <3>2. m_pendingEvents' \in {m_pendingEvents, << >>}
      <4>1. CASE Start \/ Begin \/ While \/ Kevent
        BY <4>1 DEF Start, Begin, While, Kevent
      <4>2. CASE SwapPending \/ Dispatch \/ CallbackReturn \/ Dispatched
        BY <4>2, Zenon DEF SwapPending, Dispatch, CallbackReturn, Dispatched
      <4> QED BY <1>5, <4>1, <4>2
    <3> QED BY <1>1, <3>1, <3>2
  <2>4. lp'.batch \in Seq(Queued)
    <3>1. lp.batch # << >> => Tail(lp.batch) \in Seq(Queued)
      BY RestIs DEF QueueTypes
    <3>2. Dispatch => lp.batch # << >>
      BY DEF Dispatch
    <3>3. lp.batch \in Seq(Queued) /\ << >> \in Seq(Queued)
      BY DEF QueueTypes
    <3> QED BY <1>1, <1>5, <3>1, <3>2, <3>3, LoopFields
  <2>5. lp'.at \notin {"dispatch", "callback", "sync"} => lp'.batch = << >>
    BY <1>5, LoopFields DEF QueueTypes
  <2>6. lp'.at \notin {"handle", "scan", "sync"} => lp'.events = {}
    BY <1>5, LoopFields DEF QueueTypes
  <2> QED BY <2>1, <2>2, <2>3, <2>4, <2>5, <2>6 DEF QueueTypes, Item, Queued, KqEvents, TreeEvents, TreePath
<1> QED BY <1>2, <1>3, <1>4, <1>5 DEF Next, LoopStep

LEMMA MissedArePaths == ASSUME FsTypes, UserTypes, FsStep PROVE missed' \subseteq Path
<1>1. \A paths, appearing : paths \subseteq Path => Unnoticed(paths, appearing) \subseteq Path
  BY DEF Unnoticed
<1>2. \A p : Tree(p) \subseteq Path
  BY DEF Tree, FsTypes
<1>3. missed \subseteq Path
  BY DEF UserTypes
<1>4. ASSUME NEW p \in Path, Create(p) \/ Write(p) \/ Unlink(p) \/ MoveOut(p)
      PROVE  missed' \subseteq Path
  <2>1. Unnoticed({p}, {p}) \subseteq Path /\ Unnoticed({p}, {}) \subseteq Path /\ Unnoticed(Tree(p), {}) \subseteq Path
    BY <1>1, <1>2
  <2>2. \E paths \in SUBSET Path : missed' = missed \cup paths
    BY <1>4, <2>1 DEF Create, Write, Unlink, MoveOut, Changes
  <2> QED BY <1>3, <2>2
<1>5. ASSUME NEW p \in Path, NEW q \in Path, Rename(p, q)
      PROVE  missed' \subseteq Path
  <2>1. Moved(p, q) \subseteq Path
    BY <1>5, RenamedThere
  <2>2. Unnoticed({p, q}, Moved(p, q)) \subseteq Path /\ Overtaken(p, q) \subseteq Path
    BY <1>1 DEF Overtaken
  <2>3. missed' = missed \cup (Unnoticed({p, q}, Moved(p, q)) \cup ((Tree(p) \cup Moved(p, q) \cup Overtaken(p, q)) \ {p, q}))
    BY <1>5 DEF Rename, Changes, Moved
  <2> QED BY <1>2, <1>3, <2>1, <2>2, <2>3
<1> QED BY <1>4, <1>5 DEF FsStep

LEMMA UsersServed ==
  ASSUME KqInv, FsTypes, CallTypes, UserTypes, NEW th \in Thread, CallStep(th)
  PROVE  UserTypes'
<1>1. Loop \in Thread /\ th \in Thread
  BY DEF Thread
<1>2. m_running' \in BOOLEAN /\ trigger' \in BOOLEAN
  BY DEF CallStep, AddWatch, RemoveWatch, AddFails, AddTree, ScanKqItem, InsertKqItem, RemoveTree, RemoveItem,
         Stop, StopFSEvents, ClearStream, Wakeup, loopVars, UserTypes
<1>3. m_mutex' \in Thread \cup {Free}
  BY DEF CallStep, AddWatch, RemoveWatch, AddFails, AddTree, ScanKqItem, InsertKqItem, RemoveTree, RemoveItem,
         Stop, StopFSEvents, ClearStream, Wakeup, RestartStream, UserTypes
<1>4. m_watches' \subseteq Root
  BY DEF CallStep, AddWatch, RemoveWatch, AddFails, AddTree, ScanKqItem, InsertKqItem, RemoveTree, RemoveItem,
         Stop, StopFSEvents, ClearStream, Wakeup, userVars, UserTypes
<1>5. DOMAIN mirror' \subseteq Seq(STRING) /\ missed' \subseteq Path
  <2>1. CASE InsertKqItem(th)
    <3>1. mirror' = Synced(mirror, {call[th].item.path})
          /\ missed' = missed \cup Late(call[th].item) \cup NewChildren(item'[NewItem])
          /\ call[th].at = "scanned"
      BY <2>1 DEF InsertKqItem
    <3>2. DOMAIN fs \subseteq Seq(STRING) /\ DOMAIN fs \subseteq Path
      BY PathIs DEF FsTypes
    <3>3. DOMAIN mirror' \subseteq DOMAIN fs \cup DOMAIN mirror
      BY <3>1 DEF Synced, Joined, Tree, Without, Restrict
    <3>4. NewChildren(item'[NewItem]) \subseteq DOMAIN fs
      BY DEF NewChildren
    <3>5. Late(call[th].item) \subseteq Path
      <4>1. call[th].item.path \in Path
        BY <3>1, RootAssumption DEF CallTypes, OfItem
      <4>2. \A S : UNION {{e.path, e.old} \cap Path : e \in S} \subseteq Path
        OBVIOUS
      <4> DEFINE it == call[th].item
      <4> HIDE DEF it
      <4>3. it.path \in Path => Late(it) \subseteq Path
        <5> DEFINE a == {e \in Range(m_pendingEvents \o lp.batch) : Under(it.path, e.path)}
                   b == {e \in lp.events : e.fd = it.fd}
                   u == UNION {{e.path, e.old} \cap Path : e \in a}
                   v == {it.path : e \in b}
        <5>1. Late(it) = u \cup v
          BY DEF Late
        <5>2. u \subseteq Path
          BY <4>2
        <5>3. v \subseteq {it.path}
          OBVIOUS
        <5> HIDE DEF u, v
        <5>4. ASSUME it.path \in Path PROVE Late(it) \subseteq Path
          BY <5>1, <5>2, <5>3, <5>4
        <5> QED BY <5>4
      <4> QED BY <4>1, <4>3 DEF it
    <3> QED BY <3>1, <3>2, <3>3, <3>4, <3>5 DEF UserTypes
  <2>2. CASE ~InsertKqItem(th)
    <3>1. UNCHANGED mirror
      BY <2>2 DEF CallStep, AddWatch, RemoveWatch, AddFails, AddTree, ScanKqItem, RemoveTree, RemoveItem,
         Stop, StopFSEvents, ClearStream, Wakeup, userVars
    <3>2. missed' \in {missed, missed \cup Lost, missed \cup (Tree(call[th].root) \cap OnTheWay)}
      BY <2>2 DEF CallStep, AddWatch, RemoveWatch, AddFails, AddTree, ScanKqItem, RemoveTree, RemoveItem,
         Stop, StopFSEvents, ClearStream, Wakeup, RestartStream, userVars
    <3>3. Lost \subseteq Path /\ Tree(call[th].root) \subseteq Path
      BY DEF Lost, Tree, FsTypes
    <3> QED BY <3>1, <3>2, <3>3 DEF UserTypes
  <2> QED BY <2>1, <2>2
<1> QED BY <1>2, <1>3, <1>4, <1>5 DEF UserTypes, Thread, Free

LEMMA UserTypesKept ==
  ASSUME KqInv, FsTypes, CallTypes, QueueTypes, UserTypes, Next
  PROVE  UserTypes'
<1>1. CASE FsStep
  <2>1. UNCHANGED <<loopVars, m_mutex, m_watches, mirror>>
    BY <1>1, FilesRecorded DEF Changes
  <2> QED BY <1>1, <2>1, MissedArePaths DEF UserTypes, loopVars, Thread
<1>2. CASE \E th \in Thread : CallStep(th)
  BY <1>2, UsersServed
<1>3. CASE StreamStep
  BY <1>3 DEF StreamStep, PushEvents, WakeLoop, UserTypes, loopVars, userVars, Thread
<1>4. CASE LoopStep
  <2>1. UNCHANGED <<m_mutex, m_watches>>
    BY <1>4 DEF LoopStep, Start, Begin, While, Kevent, HandleFile, HandleDirectory, ScanDirectory, SyncDirectory,
                SwapPending, Dispatch, CallbackReturn, Dispatched, userVars
  <2>2. m_running' \in BOOLEAN /\ trigger' \in BOOLEAN
    BY <1>4 DEF LoopStep, Start, Begin, While, Kevent, HandleFile, HandleDirectory, ScanDirectory, SyncDirectory,
                SwapPending, Dispatch, CallbackReturn, Dispatched, Pushed, UserTypes
  <2>3. DOMAIN mirror' \subseteq Seq(STRING)
    <3>1. CASE UNCHANGED mirror
      BY <3>1 DEF UserTypes
    <3>2. CASE Begin
      <4>1. mirror' = Synced(mirror, Range(m_fseventsWatchList))
        BY <3>2 DEF Begin
      <4>2. DOMAIN fs \subseteq Seq(STRING)
        BY PathIs DEF FsTypes
      <4>3. DOMAIN mirror' \subseteq DOMAIN fs \cup DOMAIN mirror
        BY <4>1 DEF Synced, Joined, Tree, Without, Restrict
      <4> QED BY <4>2, <4>3 DEF UserTypes
    <3>3. CASE Dispatch
      <4>1. Head(lp.batch) \in FileEvents
        BY <3>3, RestIs, QueuedIs DEF QueueTypes, Dispatch
      <4> QED BY <3>3, <4>1, CopiesAreNamed DEF UserTypes, FsTypes, Dispatch
    <3> QED BY <1>4, <3>1, <3>2, <3>3
            DEF LoopStep, Start, While, Kevent, HandleFile, HandleDirectory, ScanDirectory, SyncDirectory,
                SwapPending, CallbackReturn, Dispatched, userVars
  <2>4. missed' \subseteq Path
    <3>1. \A i, events : OutOfDate(i, events) \subseteq Path
      BY DEF OutOfDate, Reported
    <3>2. NewChildren(item'[lp.item]) \subseteq Path
      BY DEF NewChildren, FsTypes
    <3>3. CASE UNCHANGED missed
      BY <3>3 DEF UserTypes
    <3>4. CASE HandleFile
      BY <3>1, <3>3, <3>4 DEF HandleFile, UserTypes
    <3>5. CASE SyncDirectory
      BY <3>1, <3>2, <3>5 DEF SyncDirectory, UserTypes
    <3> QED BY <1>4, <3>3, <3>4, <3>5
            DEF LoopStep, Start, Begin, While, Kevent, HandleDirectory, ScanDirectory,
                SwapPending, Dispatch, CallbackReturn, Dispatched, userVars
  <2> QED BY <2>1, <2>2, <2>3, <2>4 DEF UserTypes, Thread
<1> QED BY <1>1, <1>2, <1>3, <1>4 DEF Next

-----------------------------------------------------------------------------
(* Everything is well formed.                                               *)

TypeInv ==
    /\ KqInv /\ FsTypes /\ StreamTypes /\ ItemTypes /\ CallTypes
    /\ KernelTypes /\ QueueTypes /\ UserTypes

LEMMA TypesAtFirst == Init => TypeInv
<1> SUFFICES ASSUME Init PROVE TypeInv
  OBVIOUS
<1>1. KqInv
  BY TablesAtFirst
<1>2. FsTypes
  <2>1. PICK paths \in Layout : fs = [p \in paths |-> [inode |-> <<p, 0>>, content |-> 0]]
    BY DEF Init
  <2>2. paths \subseteq Path /\ \A p \in paths : Len(p) > 1 => Front(p) \in paths
    BY LayoutAssumption
  <2>3. DOMAIN fs = paths /\ \A p \in paths : fs[p] = [inode |-> <<p, 0>>, content |-> 0]
    BY <2>1
  <2>4. count = [changes |-> 0, adds |-> 0, starts |-> 0]
    BY DEF Init
  <2>5. count = [f \in CountField |-> count[f]] /\ count.changes = 0
    BY <2>4 DEF CountField
  <2>6. \A p \in DOMAIN fs : fs[p] = [inode |-> fs[p].inode, content |-> fs[p].content] /\ fs[p].inode = <<p, 0>>
    BY <2>3
  <2>7. \A p \in DOMAIN fs : \E x : \E n \in 0 .. count.changes : fs[p].inode = <<x, n>>
    <3>1. 0 \in 0 .. count.changes
      BY <2>5
    <3> QED BY <2>6, <3>1
  <2>8. \A p, q \in DOMAIN fs : fs[p].inode = fs[q].inode => p = q
    BY <2>6
  <2>9. count.changes \in Nat /\ DOMAIN fs \subseteq Path /\ \A p \in DOMAIN fs : Len(p) > 1 => Front(p) \in DOMAIN fs
    BY <2>2, <2>3, <2>5
  <2> QED BY <2>5, <2>6, <2>7, <2>8, <2>9, Zenon DEF FsTypes
<1>3. StreamTypes
  <2>1. stream = << >> /\ m_eventStream = 0 /\ m_fseventsWatchList = << >> /\ m_knownPaths = {}
    BY DEF Init, StreamInit, NoStream
  <2>2. Stream = {}
    BY <2>1 DEF Stream
  <2>3. Stream = 1 .. 0
    BY <2>2
  <2> QED BY <2>1, <2>2, <2>3 DEF StreamTypes, NoStream
<1>4. ItemTypes
  BY DEF Init, KqInit, ItemTypes, Item
<1>5. CallTypes /\ KernelTypes
  BY DEF Init, KqInit, CallTypes, KernelTypes, Idle
<1>6. QueueTypes
  BY DEF Init, Out, QueueTypes
<1>7. UserTypes
  <2>1. m_running = FALSE /\ m_mutex = Free /\ trigger = FALSE /\ m_watches = {} /\ mirror = << >> /\ missed = {}
    BY DEF Init
  <2>2. DOMAIN mirror = {}
    BY <2>1
  <2> QED BY <2>1, <2>2 DEF UserTypes
<1> QED BY <1>1, <1>2, <1>3, <1>4, <1>5, <1>6, <1>7 DEF TypeInv

LEMMA TypesInductive == TypeInv /\ [Next]_vars => TypeInv'
<1> SUFFICES ASSUME TypeInv, [Next]_vars PROVE TypeInv'
  OBVIOUS
<1>1. CASE Next
  <2>1. KqInv' /\ FsTypes' /\ StreamTypes' /\ ItemTypes' /\ CallTypes'
    BY <1>1, TablesInductive, FsTypesKept, StreamTypesKept, ItemTypesKept, CallTypesKept DEF TypeInv
  <2>2. KernelTypes' /\ QueueTypes' /\ UserTypes'
    BY <1>1, KernelTypesKept, QueueTypesKept, UserTypesKept DEF TypeInv
  <2> QED BY <2>1, <2>2 DEF TypeInv
<1>2. CASE UNCHANGED vars
  <2>1. KqInv'
    BY <1>2, TablesInductive DEF TypeInv
  <2>2. UNCHANGED <<fs, kernel, item, m_kqWatches, torn, streamVars, m_running, m_pendingEvents, trigger, lp,
                    m_mutex, call, m_watches, mirror, missed, count>>
    BY <1>2 DEF vars, kqVars, tables, loopVars, userVars
  <2>3. FsTypes'
    <3>1. fs' = fs /\ count' = count
      BY <2>2
    <3>2. FsTypes
      BY DEF TypeInv
    <3>3. \A p \in DOMAIN fs' : \E x : \E n \in 0 .. count'.changes : fs'[p].inode = <<x, n>>
      BY <3>1, <3>2 DEF FsTypes
    <3> QED BY <3>1, <3>2, <3>3 DEF FsTypes
  <2>4. StreamTypes'
    BY <2>2, StreamTypesStay DEF TypeInv
  <2>5. ItemTypes' /\ CallTypes'
    BY <2>2 DEF TypeInv, ItemTypes, CallTypes, OfItem, Item
  <2>6. KernelTypes'
    BY <2>2 DEF TypeInv, KernelTypes, OfKernel
  <2>7. QueueTypes'
    BY <2>2 DEF TypeInv, QueueTypes, Item, Queued, KqEvents, TreeEvents, TreePath
  <2>8. UserTypes'
    BY <2>2 DEF TypeInv, UserTypes, Thread
  <2> QED BY <2>1, <2>3, <2>4, <2>5, <2>6, <2>7, <2>8 DEF TypeInv
<1> QED BY <1>1, <1>2

LEMMA TypeInvariant == Spec => []TypeInv
BY TypesAtFirst, TypesInductive, PTL DEF Spec

\* Everything has the type that TypeOK states: every number in the tables is a descriptor
\* or an item there is, every path is one of the files, and everything queued for the
\* loop, by the streams or by the loop itself, is an event of the files.
THEOREM WatcherIsTyped == Spec => []TypeOK
<1> SUFFICES ASSUME TypeInv PROVE TypeOK
  BY TypeInvariant, PTL
<1>1. DOMAIN fs \subseteq Path /\ DOMAIN m_childFdToPath \subseteq DOMAIN m_kqFdMap
      /\ DOMAIN m_kqFdMap \subseteq DOMAIN kernel /\ DOMAIN kernel \subseteq 1 .. MaxFd
  BY DEF TypeInv, FsTypes, KqInv, Tables, Agree
<1>2. \A i \in Item : item[i].path \in Path /\ Child(item[i].path) \subseteq Path
  BY RootAssumption DEF TypeInv, ItemTypes, OfItem, Child
<1>3. KqTypeOK
  <2>1. \A fd \in DOMAIN kernel : kernel[fd].active \subseteq kernel[fd].interest
    BY DEF TypeInv, KernelTypes, OfKernel
  <2>2. ASSUME NEW i \in Item
        PROVE  /\ item[i].path \in Path /\ item[i].fd \in 0 .. MaxFd
               /\ DOMAIN item[i].childFileFds \subseteq Path \ Directory
               /\ Range(item[i].childFileFds) \subseteq 1 .. MaxFd
               /\ DOMAIN item[i].children \subseteq Path
    <3>1. Holds(i, item[i], m_kqFdMap, m_childFdToPath) /\ OfItem(item[i])
      BY DEF TypeInv, KqInv, Tables, Agree, ItemTypes, Item
    <3>2. item[i].fd # 0 => item[i].fd \in 1 .. MaxFd
      BY <1>1, <3>1 DEF Holds
    <3>3. item[i].fd \in 0 .. MaxFd
      BY <3>2, FdAssumption
    <3>4. \A p \in DOMAIN item[i].childFileFds : item[i].childFileFds[p] \in 1 .. MaxFd
      BY <1>1, <3>1 DEF Holds
    <3>5. Range(item[i].childFileFds) \subseteq 1 .. MaxFd
      BY <3>4 DEF Range
    <3> QED BY <1>2, <3>1, <3>3, <3>5 DEF OfItem
  <2>3. DOMAIN m_kqWatches \subseteq Path /\ Range(m_kqWatches) \subseteq Item
    BY <1>2 DEF TypeInv, KqInv, Watched, Range
  <2>4. DOMAIN m_kqFdMap \subseteq 1 .. MaxFd /\ Range(m_kqFdMap) \subseteq Item
    BY <1>1 DEF TypeInv, KqInv, Tables, Agree, Range, Item
  <2>5. \A fd \in DOMAIN m_childFdToPath : m_childFdToPath[fd] \in Path
    <3> SUFFICES ASSUME NEW fd \in DOMAIN m_childFdToPath PROVE m_childFdToPath[fd] \in Path
      OBVIOUS
    <3> DEFINE i == m_kqFdMap[fd]
    <3>1. i \in Item /\ OwnedBy(fd, item[i], m_childFdToPath)
      BY <1>1 DEF TypeInv, KqInv, Tables, Agree, Item
    <3> HIDE DEF i
    <3> QED BY <2>2, <3>1 DEF OwnedBy
  <2>6. DOMAIN m_childFdToPath \subseteq 1 .. MaxFd /\ Range(m_childFdToPath) \subseteq Path
    BY <1>1, <2>5 DEF Range
  <2> QED BY <1>1, <2>1, <2>2, <2>3, <2>4, <2>6 DEF KqTypeOK
<1>4. StreamTypeOK
  <2>1. RecursiveRoot \subseteq Directory /\ TreePath \subseteq Path /\ TreeEvents \subseteq FileEvents
    BY RootAssumption DEF TreePath, TreeEvents
  <2>2. m_fseventsWatchList \in Seq(Directory) /\ m_knownPaths \subseteq Path
        /\ m_eventStream \in Stream \cup {NoStream}
    BY <2>1, SeqOfMore DEF TypeInv, StreamTypes
  <2>3. ASSUME NEW s \in Stream
        PROVE  /\ stream[s].roots \subseteq Directory /\ stream[s].live \in BOOLEAN
               /\ stream[s].at \in {"idle", "process", "wake"}
               /\ stream[s].sources \in Seq(Path) /\ stream[s].batch \in Seq(FileEvents)
               /\ stream[s].live \/ stream[s].buffer = << >>
    <3>1. OfStream(stream[s])
      BY DEF TypeInv, StreamTypes
    <3>2. stream[s].sources \in Seq(Path) /\ stream[s].batch \in Seq(FileEvents)
      BY <2>1, <3>1, SeqOfMore DEF OfStream
    <3> QED BY <2>1, <3>1, <3>2, Zenon DEF OfStream
  <2> QED BY <2>2, <2>3 DEF StreamTypeOK
<1>5. m_pendingEvents \in Seq(FileEvents) /\ lp.batch \in Seq(FileEvents) /\ lp.item \in Item \cup {0}
  BY QueuedIs, SeqOfMore DEF TypeInv, QueueTypes
<1>6. /\ m_running \in BOOLEAN /\ m_mutex \in Thread \cup {Free} /\ trigger \in BOOLEAN
      /\ m_watches \subseteq Root /\ DOMAIN mirror \subseteq Seq(STRING) /\ missed \subseteq Path
  BY DEF TypeInv, UserTypes
<1> QED BY <1>1, <1>3, <1>4, <1>5, <1>6, Zenon DEF TypeOK

-----------------------------------------------------------------------------
(* What is said of a path.                                                  *)

\* The path of a file or of a directory that no other watched path overlaps, and what is
\* reported for it: itself and what is directly in it.
Alone(r)  == r \in Root \ RecursiveRoot /\ \A t \in Root \ {r} : ~Under(t, r) /\ ~Under(r, t)
Around(r) == {r} \cup Child(r)

\* The events do not mention the path.
Silent(q, p) == \A k \in 1 .. Len(q) : p \notin {q[k].path, q[k].old}

LEMMA AroundIs ==
  ASSUME NEW r, Alone(r)
  PROVE  /\ r \in Path /\ r \in Seq(STRING) /\ Around(r) \subseteq Path
         /\ \A p \in Around(r) : p \in Seq(STRING) /\ p # << >> /\ Under(r, p)
<1>1. r \in Path
  BY RootAssumption DEF Alone
<1>2. Around(r) \subseteq Path
  BY <1>1 DEF Around, Child
<1>3. \A p \in Path : p \in Seq(STRING) /\ p # << >>
  BY PathIs
<1>4. Under(r, r)
  BY <1>1, <1>3, UnderIsOrder
<1>5. \A p \in Child(r) : Under(r, p)
  BY <1>1, ChildIs DEF Child
<1> QED BY <1>1, <1>2, <1>3, <1>4, <1>5 DEF Around

\* What is at or below another root is not around r.
LEMMA OthersAreElsewhere ==
  ASSUME NEW r, Alone(r), NEW t \in Root \ {r}, NEW x \in Seq(STRING), Under(t, x), NEW p \in Around(r)
  PROVE  x # p /\ ~Under(x, p)
<1>1. t \in Path /\ t \in Seq(STRING)
  BY RootAssumption, PathIs
<1>2. p \in Seq(STRING) /\ r \in Seq(STRING) /\ Under(r, p)
  BY AroundIs
<1>3. SUFFICES ASSUME Under(x, p) PROVE FALSE
  BY <1>2, UnderIsOrder
<1>4. Under(t, p)
  BY <1>1, <1>2, <1>3, UnderIsOrder
<1>5. Under(t, r) \/ Under(r, t)
  BY <1>1, <1>2, <1>4, UnderBoth
<1> QED BY <1>5 DEF Alone

LEMMA EventsElsewhere ==
  ASSUME NEW r, Alone(r), NEW e \in Queued, e \notin KqEvents(r), NEW p \in Around(r)
  PROVE  /\ e.path # p /\ ~Under(e.path, p) /\ e.old # p /\ (e.old # << >> => ~Under(e.old, p))
<1>1. /\ \E t \in Root \ {r} : Under(t, e.path)
      /\ e.old # << >> => \E t \in Root \ {r} : Under(t, e.old)
  <2>1. CASE e \in TreeEvents
    <3>1. e.path \in TreePath /\ (e.old # << >> => e.old \in TreePath) /\ RecursiveRoot \subseteq Root \ {r}
      BY <2>1, RootAssumption DEF TreeEvents, Alone
    <3> QED BY <3>1 DEF TreePath
  <2>2. ASSUME NEW t \in Root \ RecursiveRoot, e \in KqEvents(t)
        PROVE  /\ \E u \in Root \ {r} : Under(u, e.path)
               /\ e.old # << >> => \E u \in Root \ {r} : Under(u, e.old)
    <3>1. t # r /\ t \in Path
      BY <2>2, RootAssumption
    <3>2. \A x \in {t} \cup Child(t) : Under(t, x)
      BY <3>1, ChildIs, PathIs, UnderIsOrder DEF Child
    <3> QED BY <2>2, <3>1, <3>2 DEF KqEvents
  <2> QED BY <2>1, <2>2 DEF Queued
<1>2. e.path \in Seq(STRING) /\ (e.old # << >> => e.old \in Seq(STRING))
  BY QueuedIs, PathIs DEF FileEvents
<1>3. p # << >>
  BY AroundIs
<1>4. e.path # p /\ ~Under(e.path, p)
  BY <1>1, <1>2, OthersAreElsewhere
<1>5. e.old # << >> => e.old # p /\ ~Under(e.old, p)
  BY <1>1, <1>2, OthersAreElsewhere
<1> QED BY <1>3, <1>4, <1>5

\* The follower handles what is queued path by path, as far as r is concerned.
LEMMA QueuedArePlain ==
  ASSUME NEW r, Alone(r), NEW e \in Queued, NEW p \in Around(r)
  PROVE  Plain(e, p) /\ (p = r /\ e.path = p => e.old = << >>)
<1>1. CASE e \notin KqEvents(r)
  BY <1>1, EventsElsewhere DEF Plain
<1>2. CASE e \in KqEvents(r)
  <2>1. r \in Path /\ p \in Path /\ p \in Seq(STRING) /\ p # << >> /\ p \in {r} \cup Child(r)
    BY AroundIs DEF Around
  <2>2. e.old # << >> => e.type = "rename" /\ e.path \in Child(r) /\ e.old \in Child(r)
    BY <1>2 DEF KqEvents
  <2>3. ASSUME NEW x \in Child(r), Under(x, p) PROVE x = p
    <3>1. x \in Path /\ x \in Seq(STRING) /\ ~Under(x, r) /\ Len(x) = Len(r) + 1
      BY <2>1, ChildIs, PathIs DEF Child
    <3>2. p \in Child(r) /\ Len(p) = Len(r) + 1
      BY <2>1, <2>3, <3>1, ChildIs
    <3>3. Len(p) <= Len(x)
      BY <3>1, <3>2, <2>1, PathIs
    <3> QED BY <2>1, <2>3, <3>1, <3>3, UnderOfSameLength
  <2>4. r \notin Child(r)
    BY <2>1, ChildIs
  <2> QED BY <2>1, <2>2, <2>3, <2>4 DEF Plain
<1> QED BY <1>1, <1>2

LEMMA SilenceSaysNothing ==
  ASSUME NEW q, NEW p, Silent(q, p)
  PROVE  NoGives(q, p) /\ NoTakes(q, p) /\ ~Given(q, p) /\ ~Taken(q, p) /\ ~Ended(q, p)
BY DEF Silent, NoGives, NoTakes, Given, Taken, Ended, Gives, Takes, Ends

\* Nothing is said of a path with what does not mention it.
LEMMA SilentBetween ==
  ASSUME NEW a \in Seq(Queued), NEW s \in Seq(Queued), NEW b \in Seq(Queued), NEW p, Silent(s, p)
  PROVE  /\ NoGives(a \o s \o b, p) <=> NoGives(a \o b, p)
         /\ NoTakes(a \o s \o b, p) <=> NoTakes(a \o b, p)
         /\ Given(a \o s \o b, p) <=> Given(a \o b, p)
         /\ Taken(a \o s \o b, p) <=> Taken(a \o b, p)
         /\ Ended(a \o s \o b, p) <=> Ended(a \o b, p)
<1> DEFINE t == a \o s
<1>1. t \in Seq(Queued)
  OBVIOUS
<1>2. NoGives(s, p) /\ NoTakes(s, p) /\ ~Given(s, p) /\ ~Taken(s, p) /\ ~Ended(s, p)
  BY SilenceSaysNothing
<1>3. /\ NoGives(t, p) <=> NoGives(a, p)
      /\ NoTakes(t, p) <=> NoTakes(a, p)
      /\ Given(t, p) <=> Given(a, p)
      /\ Taken(t, p) <=> Taken(a, p)
      /\ Ended(t, p) <=> Ended(a, p)
  BY <1>2, SaidTogether
<1> HIDE DEF t
<1>4. /\ NoGives(t \o b, p) <=> NoGives(t, p) /\ NoGives(b, p)
      /\ NoTakes(t \o b, p) <=> NoTakes(t, p) /\ NoTakes(b, p)
      /\ Given(t \o b, p) <=> Given(b, p) \/ (Given(t, p) /\ NoTakes(b, p))
      /\ Taken(t \o b, p) <=> Taken(b, p) \/ (Taken(t, p) /\ NoGives(b, p))
      /\ Ended(t \o b, p) <=> Ended(t, p) \/ Ended(b, p)
  BY <1>1, SaidTogether
<1>5. /\ NoGives(a \o b, p) <=> NoGives(a, p) /\ NoGives(b, p)
      /\ NoTakes(a \o b, p) <=> NoTakes(a, p) /\ NoTakes(b, p)
      /\ Given(a \o b, p) <=> Given(b, p) \/ (Given(a, p) /\ NoTakes(b, p))
      /\ Taken(a \o b, p) <=> Taken(b, p) \/ (Taken(a, p) /\ NoGives(b, p))
      /\ Ended(a \o b, p) <=> Ended(a, p) \/ Ended(b, p)
  BY SaidTogether
<1> QED BY <1>3, <1>4, <1>5 DEF t

LEMMA OthersAreSilent ==
  ASSUME NEW r, Alone(r), NEW s \in Seq(Queued), NEW p \in Around(r),
         \A k \in 1 .. Len(s) : s[k] \notin KqEvents(r)
  PROVE  Silent(s, p)
<1> SUFFICES ASSUME NEW k \in 1 .. Len(s) PROVE p # s[k].path /\ p # s[k].old
  BY DEF Silent
<1>1. s[k] \in Queued
  OBVIOUS
<1> QED BY <1>1, EventsElsewhere

-----------------------------------------------------------------------------
(* What the follower of r is yet to be told.                                *)

It(r) == item[m_kqWatches[r]]

\* A descriptor's notes that nobody has looked at.
Noted(fd, n) ==
    \/ fd \in DOMAIN kernel /\ n \in kernel[fd].active
    \/ \E e \in lp.events : e.fd = fd /\ n \in e.notes

Scanning(r) == lp.at = "scan" /\ lp.item = m_kqWatches[r]
Syncing(r)  == lp.at = "sync" /\ lp.item = m_kqWatches[r]

\* The events in the order in which they are dispatched.
Dispatching == IF lp.at \in {"dispatch", "callback"} THEN lp.batch ELSE << >>
Found(r)    == IF Syncing(r) THEN lp.batch ELSE << >>
Queue(r)    == Dispatching \o m_pendingEvents \o Found(r)

DirNoted(r)      == Noted(It(r).fd, "write") \/ Scanning(r)
EndNoted(r)      == Noted(It(r).fd, "delete") \/ ((Scanning(r) \/ Syncing(r)) /\ "delete" \in lp.notes)
RootNoted(r)     == r \notin Directory /\ Noted(It(r).fd, "write")
RenameNoted(r)   == r \notin Directory /\ Noted(It(r).fd, "rename")
ChildNoted(r, p) == p \in DOMAIN It(r).childFileFds /\ Noted(It(r).childFileFds[p], "write")

\* The copy of p is there, and up to date, or will be once the queue is dispatched.
Present(r, p, pending) ==
    \/ Given(Queue(r), p)
    \/ NoTakes(Queue(r), p) /\ p \in DOMAIN mirror /\ (mirror[p] = fs[p].content \/ pending)

\* The copy of p is not there, or will not be.
Absent(r, p) ==
    \/ Taken(Queue(r), p)
    \/ p \notin DOMAIN mirror /\ NoGives(Queue(r), p)

\* Nothing is promised of what is below r.
AllMissed(r) == \A x \in Path : Under(r, x) => x \in missed

\* The last scan is up to date, or there will be another.
Snapshot(r) ==
    \A p \in Child(r) \ missed :
        DirNoted(r) \/ (p \in DOMAIN It(r).children <=> p \in DOMAIN fs)

Departed(r) ==
    \A p \in Child(r) \ missed : p \notin DOMAIN It(r).children => Absent(r, p)

Remaining(r) == (Child(r) \ missed) \cap DOMAIN It(r).children \cap DOMAIN fs

Entered(r) == \A p \in Remaining(r) : Present(r, p, ChildNoted(r, p))

\* The descriptors are those of the files there are now.
RootOpen(r) ==
    /\ kernel[It(r).fd].interest = Interest(r)
    /\ r \in DOMAIN fs => kernel[It(r).fd].inode = fs[r].inode \/ AllMissed(r)

ChildOpen(r, p) ==
    LET fd == It(r).childFileFds[p] IN
    /\ p \in DOMAIN It(r).childFileFds
    /\ kernel[fd].interest = {"write"} /\ kernel[fd].inode = fs[p].inode

ChildrenOpen(r) ==
    /\ \A p \in Remaining(r) \ Directory :
          ChildOpen(r, p) \/ (Syncing(r) /\ p \notin DOMAIN It(r).childFileFds /\ Given(lp.batch, p))
    /\ ~Syncing(r) => DOMAIN It(r).childFileFds \subseteq DOMAIN It(r).children

RootTold(r) ==
    r \notin missed =>
        IF r \in DOMAIN fs THEN ~EndNoted(r) /\ Present(r, r, RootNoted(r))
        ELSE EndNoted(r) \/ RenameNoted(r) \/ r \notin DOMAIN mirror \/ Ended(Queue(r), r)

Followed1(r) ==
    Snapshot(r) /\ Departed(r) /\ Entered(r) /\ RootOpen(r) /\ ChildrenOpen(r) /\ RootTold(r)

\* What a call has scanned, and is about to register, is still so.
Fresh1(r) ==
    \A th \in Thread : call[th].at = "scanned" /\ call[th].item.path = r =>
        LET it == call[th].item IN
        /\ r \in DOMAIN fs => kernel[it.fd].inode = fs[r].inode \/ AllMissed(r)
        /\ r \in missed \/ r \in DOMAIN fs
        /\ \A p \in Child(r) \ missed : p \in DOMAIN it.children <=> p \in DOMAIN fs

MirrorInv(r) == (r \in DOMAIN m_kqWatches => Followed1(r)) /\ Fresh1(r)

LEMMA WatchedItem ==
  ASSUME TypeInv, NEW r \in DOMAIN m_kqWatches
  PROVE  LET i == m_kqWatches[r] IN
         /\ i \in Item /\ i \notin torn /\ It(r).path = r
         /\ It(r).fd \in DOMAIN kernel /\ It(r).fd \in DOMAIN m_kqFdMap \ DOMAIN m_childFdToPath
         /\ m_kqFdMap[It(r).fd] = i
         /\ DOMAIN It(r).children \subseteq Child(r) /\ DOMAIN It(r).childFileFds \subseteq Child(r) \ Directory
         /\ \A p \in DOMAIN It(r).childFileFds : LET fd == It(r).childFileFds[p] IN
               /\ fd \in DOMAIN kernel /\ fd \in DOMAIN m_childFdToPath /\ fd \in DOMAIN m_kqFdMap
               /\ m_kqFdMap[fd] = i /\ m_childFdToPath[fd] = p
<1> DEFINE i  == m_kqWatches[r]
           it == item[i]
<1>1. i \in Item /\ it.path = r /\ it.fd # 0
  BY DEF TypeInv, KqInv, Watched
<1>2. i \notin torn /\ OfItem(it)
  BY <1>1 DEF TypeInv, ItemTypes
<1>3. Holds(i, it, m_kqFdMap, m_childFdToPath) /\ DOMAIN m_kqFdMap \subseteq DOMAIN kernel
      /\ DOMAIN m_childFdToPath \subseteq DOMAIN m_kqFdMap
  BY <1>1 DEF TypeInv, KqInv, Tables, Agree, Item
<1> HIDE DEF i
<1>4. it.fd \in DOMAIN kernel /\ it.fd \in DOMAIN m_kqFdMap \ DOMAIN m_childFdToPath /\ m_kqFdMap[it.fd] = i
  BY <1>1, <1>3 DEF Holds
<1>5. \A p \in DOMAIN it.childFileFds : LET fd == it.childFileFds[p] IN
         /\ fd \in DOMAIN kernel /\ fd \in DOMAIN m_childFdToPath /\ fd \in DOMAIN m_kqFdMap
         /\ m_kqFdMap[fd] = i /\ m_childFdToPath[fd] = p
  BY <1>3 DEF Holds
<1>6. DOMAIN it.children \subseteq Child(r) /\ DOMAIN it.childFileFds \subseteq Child(r) \ Directory
  BY <1>1, <1>2 DEF OfItem
<1>7. It(r) = it
  BY DEF It, i
<1> QED BY <1>1, <1>2, <1>4, <1>5, <1>6, <1>7 DEF i

\* A step that leaves r's item, its descriptors and their notes as they are.
Fds(r) == {It(r).fd} \cup {It(r).childFileFds[p] : p \in DOMAIN It(r).childFileFds}

LeavesAlone(r) ==
    /\ r \in DOMAIN m_kqWatches /\ It(r)' = It(r)
    /\ \A fd \in Fds(r) :
          /\ kernel'[fd].interest = kernel[fd].interest /\ kernel'[fd].inode = kernel[fd].inode
          /\ \A n : Noted(fd, n)' <=> Noted(fd, n)
    /\ Scanning(r)' <=> Scanning(r)
    /\ Syncing(r)' <=> Syncing(r)
    /\ Scanning(r) \/ Syncing(r) => lp'.notes = lp.notes /\ lp'.batch = lp.batch

\* A step after which no more and no less is said of the paths around r, and their copies
\* are as before.
SaysNothing(r) ==
    \A p \in Around(r) \ missed' :
        /\ Given(Queue(r), p)' <=> Given(Queue(r), p)
        /\ Taken(Queue(r), p)' <=> Taken(Queue(r), p)
        /\ NoGives(Queue(r), p)' <=> NoGives(Queue(r), p)
        /\ NoTakes(Queue(r), p)' <=> NoTakes(Queue(r), p)
        /\ Ended(Queue(r), p)' <=> Ended(Queue(r), p)
        /\ p \in DOMAIN mirror' <=> p \in DOMAIN mirror
        /\ p \in DOMAIN mirror => mirror'[p] = mirror[p]

LEMMA NotesStay ==
  ASSUME NEW r, LeavesAlone(r)
  PROVE  /\ DirNoted(r)' <=> DirNoted(r)
         /\ EndNoted(r)' <=> EndNoted(r)
         /\ RootNoted(r)' <=> RootNoted(r)
         /\ RenameNoted(r)' <=> RenameNoted(r)
         /\ \A p : ChildNoted(r, p)' <=> ChildNoted(r, p)
<1>1. /\ It(r)' = It(r) /\ (Scanning(r)' <=> Scanning(r)) /\ (Syncing(r)' <=> Syncing(r))
      /\ Scanning(r) \/ Syncing(r) => lp'.notes = lp.notes
  BY DEF LeavesAlone
<1>2. \A n : Noted(It(r).fd, n)' <=> Noted(It(r).fd, n)
  BY DEF LeavesAlone, Fds
<1>3. \A p \in DOMAIN It(r).childFileFds : \A n : Noted(It(r).childFileFds[p], n)' <=> Noted(It(r).childFileFds[p], n)
  BY DEF LeavesAlone, Fds
<1>4. DirNoted(r)' <=> DirNoted(r)
  BY <1>1, <1>2 DEF DirNoted
<1>5. EndNoted(r)' <=> EndNoted(r)
  BY <1>1, <1>2 DEF EndNoted
<1>6. RootNoted(r)' <=> RootNoted(r)
  BY <1>1, <1>2 DEF RootNoted
<1>7. RenameNoted(r)' <=> RenameNoted(r)
  BY <1>1, <1>2 DEF RenameNoted
<1>8. \A p : ChildNoted(r, p)' <=> ChildNoted(r, p)
  BY <1>1, <1>3 DEF ChildNoted
<1> QED BY <1>4, <1>5, <1>6, <1>7, <1>8

\* The parts of the invariant survive a step that leaves r's item and descriptors as they
\* are, if what is queued says enough.
LEMMA FollowedOn ==
  ASSUME NEW r, It(r)' = It(r), UNCHANGED fs, missed \subseteq missed', Followed1(r),
         \A fd \in Fds(r) : kernel'[fd].interest = kernel[fd].interest /\ kernel'[fd].inode = kernel[fd].inode,
         (Syncing(r)' <=> Syncing(r)) /\ (Syncing(r) => lp'.batch = lp.batch),
         Child(r) # {} /\ DirNoted(r) => DirNoted(r)',
         \A p \in Child(r) \ missed' : p \notin DOMAIN It(r).children /\ Absent(r, p) => Absent(r, p)',
         \A p \in Remaining(r) \ missed' : Present(r, p, ChildNoted(r, p)) => Present(r, p, ChildNoted(r, p))',
         r \notin missed' /\ RootTold(r) => RootTold(r)'
  PROVE  Followed1(r)'
<1> DEFINE it == It(r)
<1>1. Snapshot(r)'
  <2>1. \A p \in Child(r) \ missed' : DirNoted(r)' \/ (p \in DOMAIN it.children <=> p \in DOMAIN fs)
    BY DEF Followed1, Snapshot
  <2> QED BY <2>1 DEF Snapshot, Child
<1>2. Departed(r)'
  <2>1. \A p \in Child(r) \ missed' : p \notin DOMAIN it.children => Absent(r, p)'
    BY DEF Followed1, Departed
  <2> QED BY <2>1 DEF Departed, Child
<1>3. Remaining(r)' \subseteq Remaining(r) \ missed'
  BY DEF Remaining, Child
<1>4. Entered(r)'
  BY <1>3 DEF Followed1, Entered
<1>5. RootOpen(r)'
  <2>1. kernel'[it.fd].interest = kernel[it.fd].interest /\ kernel'[it.fd].inode = kernel[it.fd].inode
    BY DEF Fds
  <2>2. AllMissed(r) => AllMissed(r)'
    BY DEF AllMissed
  <2> QED BY <2>1, <2>2 DEF Followed1, RootOpen, Interest
<1>6. ChildrenOpen(r)'
  <2>1. ASSUME NEW p \in Remaining(r)' \ Directory
        PROVE  ChildOpen(r, p)' \/ (Syncing(r)' /\ p \notin DOMAIN it.childFileFds /\ Given(lp'.batch, p))
    <3>1. CASE ChildOpen(r, p)
      <4>1. it.childFileFds[p] \in Fds(r)
        BY <3>1 DEF ChildOpen, Fds
      <4> QED BY <3>1, <4>1 DEF ChildOpen
    <3>2. CASE Syncing(r) /\ p \notin DOMAIN it.childFileFds /\ Given(lp.batch, p)
      BY <3>2
    <3> QED BY <1>3, <3>1, <3>2 DEF Followed1, ChildrenOpen
  <2> QED BY <2>1 DEF ChildrenOpen, Followed1
<1>7. RootTold(r)'
  BY DEF Followed1, RootTold
<1> QED BY <1>1, <1>2, <1>4, <1>5, <1>6, <1>7 DEF Followed1

\* They survive one that changes and reports nothing of r.
LEMMA FollowedStays ==
  ASSUME TypeInv, NEW r, LeavesAlone(r), SaysNothing(r), UNCHANGED fs, missed \subseteq missed', Followed1(r)
  PROVE  Followed1(r)'
<1>1. /\ It(r)' = It(r) /\ (Syncing(r)' <=> Syncing(r)) /\ (Syncing(r) => lp'.batch = lp.batch)
      /\ \A fd \in Fds(r) : kernel'[fd].interest = kernel[fd].interest /\ kernel'[fd].inode = kernel[fd].inode
  BY DEF LeavesAlone
<1>2. \A p \in Around(r) \ missed' :
         /\ Given(Queue(r), p)' <=> Given(Queue(r), p)
         /\ Taken(Queue(r), p)' <=> Taken(Queue(r), p)
         /\ NoGives(Queue(r), p)' <=> NoGives(Queue(r), p)
         /\ NoTakes(Queue(r), p)' <=> NoTakes(Queue(r), p)
         /\ Ended(Queue(r), p)' <=> Ended(Queue(r), p)
         /\ p \in DOMAIN mirror' <=> p \in DOMAIN mirror
         /\ p \in DOMAIN mirror => mirror'[p] = mirror[p]
  BY DEF SaysNothing
<1>3. Child(r) \subseteq Around(r) /\ r \in Around(r) /\ Remaining(r) \subseteq Child(r)
  BY DEF Around, Remaining
<1>4. \A p \in Child(r) \ missed' : Absent(r, p) => Absent(r, p)'
  BY <1>2, <1>3 DEF Absent
<1>5. \A p \in Remaining(r) \ missed' : Present(r, p, ChildNoted(r, p)) => Present(r, p, ChildNoted(r, p))'
  <2> SUFFICES ASSUME NEW p \in Remaining(r) \ missed', Present(r, p, ChildNoted(r, p))
               PROVE  Present(r, p, ChildNoted(r, p))'
    OBVIOUS
  <2>1. p \in Around(r) \ missed' /\ (ChildNoted(r, p)' <=> ChildNoted(r, p))
    BY <1>3, NotesStay
  <2> QED BY <1>2, <2>1 DEF Present
<1>6. ASSUME r \notin missed', RootTold(r) PROVE RootTold(r)'
  <2>1. r \in Around(r) \ missed' /\ r \notin missed
    BY <1>3, <1>6
  <2>2. CASE r \in DOMAIN fs
    <3>1. ~EndNoted(r) /\ Present(r, r, RootNoted(r))
      BY <1>6, <2>1, <2>2 DEF RootTold
    <3>2. ~EndNoted(r)' /\ (RootNoted(r)' <=> RootNoted(r))
      BY <3>1, NotesStay
    <3>3. Present(r, r, RootNoted(r))'
      BY <1>2, <2>1, <3>1, <3>2 DEF Present
    <3> QED BY <2>2, <3>2, <3>3 DEF RootTold
  <2>3. CASE r \notin DOMAIN fs
    <3>1. EndNoted(r) \/ RenameNoted(r) \/ r \notin DOMAIN mirror \/ Ended(Queue(r), r)
      BY <1>6, <2>1, <2>3 DEF RootTold
    <3>2. EndNoted(r)' \/ RenameNoted(r)' \/ r \notin DOMAIN mirror' \/ Ended(Queue(r), r)'
      BY <1>2, <2>1, <3>1, NotesStay
    <3> QED BY <2>3, <3>2 DEF RootTold
  <2> QED BY <2>2, <2>3
<1>7. DirNoted(r) => DirNoted(r)'
  BY NotesStay
<1> QED BY <1>1, <1>4, <1>5, <1>6, <1>7, FollowedOn

LEMMA MissedGrows == ASSUME Next PROVE missed \subseteq missed'
<1>1. CASE FsStep
  BY <1>1, FilesRecorded DEF Changes
<1>2. CASE \E th \in Thread : CallStep(th)
  BY <1>2 DEF CallStep, AddWatch, RemoveWatch, AddFails, AddTree, ScanKqItem, InsertKqItem, RemoveTree, RemoveItem,
              Stop, StopFSEvents, ClearStream, Wakeup, RestartStream, userVars
<1>3. CASE StreamStep
  BY <1>3 DEF StreamStep, PushEvents, WakeLoop, userVars
<1>4. CASE LoopStep
  BY <1>4 DEF LoopStep, Start, Begin, While, Kevent, HandleFile, HandleDirectory, ScanDirectory, SyncDirectory,
              SwapPending, Dispatch, CallbackReturn, Dispatched, userVars
<1> QED BY <1>1, <1>2, <1>3, <1>4 DEF Next

\* A descriptor that stays open is of the same file.
LEMMA InodesStay ==
  ASSUME TypeInv, Next, NEW fd \in DOMAIN kernel \cap DOMAIN kernel'
  PROVE  kernel'[fd].inode = kernel[fd].inode
<1>1. CASE FsStep
  BY <1>1, FilesRecorded, NotesRaised DEF TypeInv
<1>2. CASE Kevent
  BY <1>2, NotesCleared DEF TypeInv
<1>3. CASE ScanDirectory
  BY <1>3 DEF ScanDirectory
<1>4. CASE SyncDirectory
  <2> DEFINE i == lp.item
  <2>1. i = lp.item
    OBVIOUS
  <2> HIDE DEF i
  <2>2. kernel'[fd] = kernel[fd]
    BY <1>4, <2>1, LoopItemSynced DEF TypeInv
  <2> QED BY <2>2
<1>5. ASSUME NEW th \in Thread, ScanKqItem(th) PROVE kernel'[fd].inode = kernel[fd].inode
  <2>1. PICK new, k : kernel' = With(kernel, new, k) /\ new \notin DOMAIN kernel
    BY <1>5 DEF ScanKqItem, OpenRoot, LowestFree
  <2> QED BY <2>1 DEF With
<1>6. ASSUME NEW th \in Thread, InsertKqItem(th) PROVE kernel'[fd].inode = kernel[fd].inode
  <2> DEFINE it == call[th].item
  <2>1. /\ it.fd \in DOMAIN kernel /\ (fd # it.fd => kernel'[fd] = kernel[fd])
        /\ kernel'[it.fd] = [kernel[it.fd] EXCEPT !.interest = Interest(it.path)]
    BY <1>6, ItemEnters DEF TypeInv
  <2>2. OfKernel(kernel[it.fd])
    BY <2>1 DEF TypeInv, KernelTypes
  <2> HIDE DEF it
  <2> QED BY <2>1, <2>2 DEF OfKernel, KernelField
<1>7. ASSUME NEW th \in Thread, RemoveItem(th) PROVE kernel'[fd].inode = kernel[fd].inode
  <2>1. CASE UNCHANGED kqVars
    BY <2>1 DEF kqVars, tables
  <2>2. CASE \E p \in DOMAIN m_kqWatches : RemoveKqueueItem(p, Held)
    <3>1. kernel'[fd] = kernel[fd]
      BY <2>2, ItemLeaves DEF TypeInv
    <3> QED BY <3>1
  <2> QED BY <1>7, <2>1, <2>2 DEF RemoveItem
<1>8. CASE UNCHANGED kqVars
  BY <1>8 DEF kqVars, tables
<1> QED BY <1>1, <1>2, <1>3, <1>4, <1>5, <1>6, <1>7, <1>8, DescriptorsStay

LEMMA FreshStays ==
  ASSUME TypeInv, Next, ~FsStep, \A th \in Thread : ~ScanKqItem(th), NEW r, Fresh1(r)
  PROVE  Fresh1(r)'
<1>1. UNCHANGED fs /\ missed \subseteq missed' /\ KqInv'
  BY FilesStay, MissedGrows, TablesInductive DEF TypeInv
<1>2. \A th \in Thread : call'[th].at = "scanned" => call'[th] = call[th]
  BY ScannedByScan DEF TypeInv
<1> SUFFICES ASSUME NEW th \in Thread, call'[th].at = "scanned", call'[th].item.path = r
             PROVE  LET it == call'[th].item IN
                    /\ r \in DOMAIN fs => kernel'[it.fd].inode = fs[r].inode \/ AllMissed(r)'
                    /\ r \in missed' \/ r \in DOMAIN fs
                    /\ \A p \in Child(r) \ missed' : p \in DOMAIN it.children <=> p \in DOMAIN fs
  BY <1>1 DEF Fresh1, Child, Thread
<1> DEFINE it == call[th].item
<1>3. call[th].at = "scanned" /\ it.path = r /\ call'[th] = call[th]
  BY <1>2
<1>4. it.fd \in DOMAIN kernel /\ it.fd \in DOMAIN kernel'
  BY <1>1, <1>3 DEF TypeInv, KqInv, Scanned, Apart
<1>5. kernel'[it.fd].inode = kernel[it.fd].inode
  BY <1>4, InodesStay
<1>6. AllMissed(r) => AllMissed(r)'
  BY <1>1 DEF AllMissed
<1> QED BY <1>1, <1>3, <1>5, <1>6 DEF Fresh1

-----------------------------------------------------------------------------
(* Steps that have nothing to do with r.                                    *)

LEMMA QueueIs ==
  ASSUME TypeInv, NEW r
  PROVE  Dispatching \in Seq(Queued) /\ m_pendingEvents \in Seq(Queued) /\ Found(r) \in Seq(Queued)
BY DEF TypeInv, QueueTypes, Dispatching, Found

\* The tables do not change, nor does what the loop has in hand.
LEMMA TablesLeftAlone ==
  ASSUME NEW r \in DOMAIN m_kqWatches, UNCHANGED kqVars, lp'.events = lp.events,
         lp' = lp \/ (lp.at \notin {"scan", "sync"} /\ lp'.at \notin {"scan", "sync"})
  PROVE  LeavesAlone(r) /\ Found(r)' = Found(r)
<1>1. UNCHANGED <<kernel, item, m_kqWatches>>
  BY DEF kqVars, tables
<1>2. It(r)' = It(r)
  BY <1>1 DEF It
<1>3. \A fd, n : Noted(fd, n)' <=> Noted(fd, n)
  BY <1>1 DEF Noted
<1>4. (Scanning(r)' <=> Scanning(r)) /\ (Syncing(r)' <=> Syncing(r))
      /\ (Scanning(r) \/ Syncing(r) => lp' = lp)
  BY <1>1 DEF Scanning, Syncing
<1> QED BY <1>1, <1>2, <1>3, <1>4 DEF LeavesAlone, Found

LEMMA SameQueue ==
  ASSUME NEW r, Queue(r)' = Queue(r),
         \A p \in Around(r) : (p \in DOMAIN mirror' <=> p \in DOMAIN mirror)
                              /\ (p \in DOMAIN mirror => mirror'[p] = mirror[p])
  PROVE  SaysNothing(r)
BY DEF SaysNothing, Around, Child

\* Events that do not mention what is around r are queued.
LEMMA EventsInQueue ==
  ASSUME TypeInv, NEW r, NEW s \in Seq(Queued), m_pendingEvents' = m_pendingEvents \o s,
         Dispatching' = Dispatching, Found(r)' = Found(r), mirror' = mirror,
         \A p \in Around(r) \ missed' : Silent(s, p)
  PROVE  SaysNothing(r)
<1> DEFINE a == Dispatching \o m_pendingEvents
           b == Found(r)
<1>1. Dispatching \in Seq(Queued) /\ m_pendingEvents \in Seq(Queued) /\ b \in Seq(Queued)
  BY QueueIs
<1>2. a \in Seq(Queued) /\ Queue(r) = a \o b
  BY <1>1 DEF Queue
<1>3. Queue(r)' = a \o s \o b
  BY <1>1 DEF Queue
<1> HIDE DEF a, b
<1> SUFFICES ASSUME NEW p \in Around(r) \ missed'
             PROVE  /\ Given(Queue(r), p)' <=> Given(Queue(r), p)
                    /\ Taken(Queue(r), p)' <=> Taken(Queue(r), p)
                    /\ NoGives(Queue(r), p)' <=> NoGives(Queue(r), p)
                    /\ NoTakes(Queue(r), p)' <=> NoTakes(Queue(r), p)
                    /\ Ended(Queue(r), p)' <=> Ended(Queue(r), p)
  BY DEF SaysNothing
<1>4. Silent(s, p)
  OBVIOUS
<1>5. /\ NoGives(a \o s \o b, p) <=> NoGives(a \o b, p)
      /\ NoTakes(a \o s \o b, p) <=> NoTakes(a \o b, p)
      /\ Given(a \o s \o b, p) <=> Given(a \o b, p)
      /\ Taken(a \o s \o b, p) <=> Taken(a \o b, p)
      /\ Ended(a \o s \o b, p) <=> Ended(a \o b, p)
  BY <1>1, <1>2, <1>4, SilentBetween
<1> QED BY <1>2, <1>3, <1>5

\* Copies of what is elsewhere are brought up to date.
LEMMA SyncedElsewhere ==
  ASSUME NEW r, Alone(r), NEW roots \in SUBSET (Root \ {r}), mirror' = Synced(mirror, roots),
         DOMAIN fs \subseteq Path
  PROVE  \A p \in Around(r) : (p \in DOMAIN mirror' <=> p \in DOMAIN mirror)
                              /\ (p \in DOMAIN mirror => mirror'[p] = mirror[p])
<1> SUFFICES ASSUME NEW p \in Around(r)
             PROVE  /\ p \in DOMAIN mirror' <=> p \in DOMAIN mirror
                    /\ p \in DOMAIN mirror => mirror'[p] = mirror[p]
  OBVIOUS
<1> DEFINE below == {q \in DOMAIN mirror : \E t \in roots : Under(t, q)}
           trees == UNION {Tree(t) : t \in roots}
           f     == [q \in trees |-> fs[q].content]
           g     == Without(mirror, below)
<1>1. \A t \in roots : ~Under(t, p)
  <2> SUFFICES ASSUME NEW t \in roots PROVE ~Under(t, p)
    OBVIOUS
  <2>1. t \in Root \ {r} /\ t \in Seq(STRING)
    BY RootAssumption, PathIs
  <2> QED BY <2>1, OthersAreElsewhere, UnderIsOrder
<1>2. p \notin trees /\ p \notin below
  BY <1>1 DEF Tree
<1>3. mirror' = Joined(f, g) /\ DOMAIN f = trees
  BY DEF Synced
<1> HIDE DEF f
<1> HIDE DEF trees, below
<1>4. DOMAIN g = DOMAIN mirror \ below /\ \A x \in DOMAIN mirror \ below : g[x] = mirror[x]
  BY WithoutIs
<1> HIDE DEF g
<1>5. DOMAIN mirror' = DOMAIN f \cup DOMAIN g /\ \A x \in DOMAIN g \ DOMAIN f : mirror'[x] = g[x]
  <2> DEFINE n == mirror'
  <2>1. n = Joined(f, g)
    BY <1>3
  <2> HIDE DEF n
  <2>2. DOMAIN n = DOMAIN f \cup DOMAIN g /\ \A x \in DOMAIN g \ DOMAIN f : n[x] = g[x]
    BY <2>1 DEF Joined
  <2> QED BY <2>2 DEF n
<1> QED BY <1>2, <1>3, <1>4, <1>5

\* The calls, but for those that change descriptors, and the streams.
LEMMA QuietStepsKeep ==
  ASSUME TypeInv, Next, UNCHANGED <<fs, kqVars, lp, m_pendingEvents, mirror>>,
         NEW r \in DOMAIN m_kqWatches, Followed1(r)
  PROVE  Followed1(r)'
<1>1. LeavesAlone(r) /\ Found(r)' = Found(r)
  BY TablesLeftAlone
<1>2. Queue(r)' = Queue(r)
  BY <1>1 DEF Queue, Dispatching
<1>3. SaysNothing(r)
  BY <1>2, SameQueue
<1> QED BY <1>1, <1>3, MissedGrows, FollowedStays

LEMMA PushedElsewhere ==
  ASSUME TypeInv, NEW s \in Stream, PushEvents(s), NEW r \in DOMAIN m_kqWatches, Alone(r), Followed1(r)
  PROVE  Followed1(r)'
<1> DEFINE events == stream[s].batch
<1>1. UNCHANGED <<fs, kqVars, lp, mirror>> /\ m_pendingEvents' = m_pendingEvents \o events
  BY DEF PushEvents, userVars
<1>2. events \in Seq(TreeEvents)
  BY DEF TypeInv, StreamTypes, OfStream
<1>3. events \in Seq(Queued)
  BY <1>2, QueuedIs
<1>4. \A e \in TreeEvents, p \in Around(r) : e.path # p /\ e.old # p
  <2> SUFFICES ASSUME NEW e \in TreeEvents, NEW p \in Around(r) PROVE e.path # p /\ e.old # p
    OBVIOUS
  <2>1. e.path \in TreePath /\ (e.old # << >> => e.old \in TreePath) /\ p # << >>
    BY AroundIs DEF TreeEvents
  <2>2. \A x \in TreePath : x # p
    <3> SUFFICES ASSUME NEW x \in TreePath PROVE x # p
      OBVIOUS
    <3>1. PICK t \in RecursiveRoot : Under(t, x)
      BY DEF TreePath
    <3>2. t \in Root \ {r} /\ x \in Seq(STRING)
      BY RootAssumption, PathIs DEF Alone, TreePath
    <3> QED BY <3>1, <3>2, OthersAreElsewhere
  <2> QED BY <2>1, <2>2
<1>5. \A p \in Around(r) : Silent(events, p)
  <2> HIDE DEF events
  <2> QED BY <1>2, <1>4 DEF Silent
<1>6. LeavesAlone(r) /\ Found(r)' = Found(r)
  BY <1>1, TablesLeftAlone
<1>7. Dispatching' = Dispatching
  BY <1>1 DEF Dispatching
<1> HIDE DEF events
<1>8. SaysNothing(r)
  BY <1>1, <1>3, <1>5, <1>6, <1>7, EventsInQueue
<1> QED BY <1>1, <1>6, <1>8, MissedGrows, FollowedStays DEF Next, StreamStep

\* The loop starts, ends, and takes the queue.
LEMMA LoopStepsKeep ==
  ASSUME TypeInv, Start \/ Begin \/ While \/ SwapPending \/ CallbackReturn \/ Dispatched,
         NEW r \in DOMAIN m_kqWatches, Alone(r), Followed1(r)
  PROVE  Followed1(r)'
<1>1. UNCHANGED <<fs, kqVars>> /\ Next
  BY DEF Start, Begin, While, SwapPending, CallbackReturn, Dispatched, Next, LoopStep
<1>2. lp.at \notin {"scan", "sync"} /\ lp'.at \notin {"scan", "sync"}
  BY LoopFields DEF TypeInv
<1>3. lp'.events = lp.events
  BY LoopFields DEF TypeInv, QueueTypes
<1>4. LeavesAlone(r) /\ Found(r)' = Found(r) /\ Found(r) = << >>
  BY <1>1, <1>2, <1>3, TablesLeftAlone DEF Found, Syncing
<1>5. Dispatching' \o m_pendingEvents' = Dispatching \o m_pendingEvents
  <2>1. m_pendingEvents \in Seq(Queued) /\ lp.batch \in Seq(Queued)
    BY DEF TypeInv, QueueTypes
  <2>2. CASE Start \/ Begin \/ While
    <3>1. m_pendingEvents' = m_pendingEvents
      BY <2>2 DEF Start, Begin, While
    <3>2. Dispatching' = << >> /\ Dispatching = << >>
      BY <2>2, LoopFields DEF TypeInv, Dispatching
    <3> QED BY <3>1, <3>2
  <2>3. CASE SwapPending
    <3>1. m_pendingEvents' = << >>
      BY <2>3 DEF SwapPending
    <3>2. Dispatching' = m_pendingEvents /\ Dispatching = << >>
      BY <2>3, LoopFields DEF TypeInv, Dispatching
    <3> QED BY <2>1, <3>1, <3>2
  <2>4. CASE CallbackReturn \/ Dispatched
    <3>1. m_pendingEvents' = m_pendingEvents
      BY <2>4 DEF CallbackReturn, Dispatched
    <3>2. Dispatching' = Dispatching
      BY <2>4, LoopFields DEF TypeInv, Dispatching
    <3> QED BY <3>1, <3>2
  <2> QED BY <2>2, <2>3, <2>4
<1>6. Queue(r)' = Queue(r)
  BY <1>4, <1>5 DEF Queue
<1>7. \A p \in Around(r) : (p \in DOMAIN mirror' <=> p \in DOMAIN mirror)
                           /\ (p \in DOMAIN mirror => mirror'[p] = mirror[p])
  <2>1. CASE Begin
    <3> DEFINE roots == Range(m_fseventsWatchList)
    <3>1. mirror' = Synced(mirror, roots) /\ DOMAIN fs \subseteq Path
      BY <2>1 DEF Begin, TypeInv, FsTypes
    <3>2. roots \subseteq RecursiveRoot
      BY DEF TypeInv, StreamTypes, Range
    <3>3. roots \in SUBSET (Root \ {r})
      BY <3>2, RootAssumption DEF Alone
    <3> HIDE DEF roots
    <3> QED BY <3>1, <3>3, SyncedElsewhere
  <2>2. CASE ~Begin
    <3>1. UNCHANGED mirror
      BY <2>2 DEF Start, While, SwapPending, CallbackReturn, Dispatched, userVars
    <3> QED BY <3>1
  <2> QED BY <2>1, <2>2
<1>8. SaysNothing(r)
  BY <1>6, <1>7, SameQueue
<1> QED BY <1>1, <1>4, <1>8, MissedGrows, FollowedStays

\* kevent moves the notes from the kernel to the loop.
LEMMA KeventKeeps ==
  ASSUME TypeInv, Kevent, NEW r \in DOMAIN m_kqWatches, Alone(r), Followed1(r)
  PROVE  Followed1(r)'
<1>1. UNCHANGED <<fs, item, m_kqWatches, m_pendingEvents, mirror>> /\ Next
  BY DEF Kevent, userVars, Next, LoopStep
<1>2. lp.at = "kevent" /\ lp'.at \in {"handle", "while"} /\ lp.events = {}
  BY LoopFields DEF TypeInv, QueueTypes
<1>3. \A fd \in DOMAIN kernel : kernel'[fd].interest = kernel[fd].interest /\ kernel'[fd].inode = kernel[fd].inode
  BY NotesCleared DEF TypeInv
<1>4. ASSUME NEW fd, NEW n PROVE Noted(fd, n)' <=> Noted(fd, n)
  <2>1. CASE kernel' # kernel
    <3>1. /\ kernel' = [x \in DOMAIN kernel |-> [kernel[x] EXCEPT !.active = {}]]
          /\ lp' = [lp EXCEPT !.at = "handle", !.events = {[fd |-> x, notes |-> kernel[x].active] : x \in Active}]
      BY <2>1 DEF Kevent
    <3>2. lp'.events = {[fd |-> x, notes |-> kernel[x].active] : x \in Active}
      BY <3>1 DEF TypeInv, KqInv, Shapes, LoopField
    <3>3. DOMAIN kernel' = DOMAIN kernel /\ \A x \in DOMAIN kernel : kernel'[x].active = {}
      BY <2>1, NotesCleared DEF TypeInv
    <3>4. Noted(fd, n)' <=> \E e \in lp'.events : e.fd = fd /\ n \in e.notes
      BY <3>3 DEF Noted
    <3>5. ASSUME NEW e \in lp'.events, e.fd = fd, n \in e.notes PROVE fd \in DOMAIN kernel /\ n \in kernel[fd].active
      <4>1. PICK x \in Active : e = [fd |-> x, notes |-> kernel[x].active]
        BY <3>2, <3>5
      <4>2. e.fd = x /\ e.notes = kernel[x].active
        BY <4>1
      <4> QED BY <3>5, <4>2 DEF Active
    <3>6. ASSUME fd \in DOMAIN kernel, n \in kernel[fd].active
          PROVE  \E e \in lp'.events : e.fd = fd /\ n \in e.notes
      <4> DEFINE e == [fd |-> fd, notes |-> kernel[fd].active]
      <4>1. fd \in Active
        BY <3>6 DEF Active
      <4>2. e \in lp'.events
        BY <3>2, <4>1
      <4>3. e.fd = fd /\ n \in e.notes
        BY <3>6
      <4> HIDE DEF e
      <4> QED BY <4>2, <4>3
    <3>7. (\E e \in lp'.events : e.fd = fd /\ n \in e.notes) <=> fd \in DOMAIN kernel /\ n \in kernel[fd].active
      BY <3>5, <3>6
    <3> QED BY <1>2, <3>4, <3>7 DEF Noted
  <2>2. CASE kernel' = kernel
    <3>1. CASE lp'.at = "while"
      <4>1. lp'.events = lp.events
        BY <3>1, LoopFields DEF TypeInv
      <4> QED BY <2>2, <4>1 DEF Noted
    <3>2. CASE lp'.at = "handle"
      <4>1. /\ kernel' = [x \in DOMAIN kernel |-> [kernel[x] EXCEPT !.active = {}]]
            /\ lp' = [lp EXCEPT !.at = "handle", !.events = {[fd |-> x, notes |-> kernel[x].active] : x \in Active}]
        BY <3>2, <1>2 DEF Kevent, LoopIs, TypeInv, KqInv, Shapes, LoopField
      <4>2. lp'.events = {[fd |-> x, notes |-> kernel[x].active] : x \in Active}
        BY <4>1 DEF TypeInv, KqInv, Shapes, LoopField
      <4>3. \A x \in DOMAIN kernel : kernel'[x].active = {}
        BY <4>1 DEF TypeInv, KernelTypes, OfKernel, KernelField
      <4>4. Active = {}
        BY <2>2, <4>3 DEF Active
      <4>5. lp'.events = {}
        BY <4>2, <4>4
      <4> QED BY <1>2, <2>2, <4>5 DEF Noted
    <3> QED BY <1>2, <3>1, <3>2
  <2> QED BY <2>1, <2>2
<1>5. LeavesAlone(r)
  <2>1. \A fd \in Fds(r) : fd \in DOMAIN kernel
    BY WatchedItem DEF Fds
  <2> QED BY <1>1, <1>2, <1>3, <1>4, <2>1 DEF LeavesAlone, It, Scanning, Syncing
<1>6. Queue(r)' = Queue(r)
  BY <1>1, <1>2 DEF Queue, Dispatching, Found, Syncing
<1>7. SaysNothing(r)
  BY <1>1, <1>6, SameQueue
<1> QED BY <1>1, <1>5, <1>7, MissedGrows, FollowedStays

\* The tables change, but for what r has.
LEMMA ChangesElsewhere ==
  ASSUME TypeInv, Next, UNCHANGED <<fs, lp, m_pendingEvents>>, NEW r \in DOMAIN m_kqWatches, Followed1(r),
         r \in DOMAIN m_kqWatches', m_kqWatches'[r] = m_kqWatches[r],
         item'[m_kqWatches[r]] = item[m_kqWatches[r]],
         \A fd \in Fds(r) : kernel'[fd] = kernel[fd] /\ fd \in DOMAIN kernel',
         \A p \in Around(r) : (p \in DOMAIN mirror' <=> p \in DOMAIN mirror)
                              /\ (p \in DOMAIN mirror => mirror'[p] = mirror[p])
  PROVE  Followed1(r)'
<1>1. It(r)' = It(r)
  BY DEF It
<1>2. \A fd \in Fds(r) : fd \in DOMAIN kernel
  BY WatchedItem DEF Fds
<1>3. \A fd \in Fds(r) : \A n : Noted(fd, n)' <=> Noted(fd, n)
  BY <1>2 DEF Noted
<1>4. (Scanning(r)' <=> Scanning(r)) /\ (Syncing(r)' <=> Syncing(r))
  BY DEF Scanning, Syncing
<1>5. LeavesAlone(r)
  BY <1>1, <1>3, <1>4 DEF LeavesAlone
<1>6. Queue(r)' = Queue(r)
  BY <1>4 DEF Queue, Dispatching, Found
<1>7. SaysNothing(r)
  BY <1>6, SameQueue
<1> QED BY <1>5, <1>7, MissedGrows, FollowedStays

LEMMA RootScannedElsewhere ==
  ASSUME TypeInv, NEW th \in Thread, ScanKqItem(th), NEW r \in DOMAIN m_kqWatches, Followed1(r)
  PROVE  Followed1(r)'
<1>1. PICK fd, k : kernel' = With(kernel, fd, k) /\ fd \notin DOMAIN kernel
  BY DEF ScanKqItem, OpenRoot, LowestFree
<1>2. UNCHANGED <<fs, item, m_kqWatches, lp, m_pendingEvents, mirror>>
  BY DEF ScanKqItem, OpenRoot, loopVars, userVars
<1>3. \A x \in DOMAIN kernel : x \in DOMAIN kernel' /\ kernel'[x] = kernel[x]
  BY <1>1 DEF With
<1>4. \A x \in Fds(r) : x \in DOMAIN kernel
  BY WatchedItem DEF Fds
<1>5. Next
  BY DEF Next, CallStep
<1> QED BY <1>2, <1>3, <1>4, <1>5, ChangesElsewhere

LEMMA ItemLeavesElsewhere ==
  ASSUME TypeInv, NEW th \in Thread, RemoveItem(th), NEW r \in DOMAIN m_kqWatches, r \in DOMAIN m_kqWatches',
         Followed1(r)
  PROVE  Followed1(r)'
<1>1. UNCHANGED <<fs, lp, m_pendingEvents, mirror>> /\ Next
  BY DEF RemoveItem, loopVars, userVars, Next, CallStep
<1>2. CASE UNCHANGED kqVars
  <2>1. UNCHANGED <<item, kernel, m_kqWatches>>
    BY <1>2 DEF kqVars, tables
  <2>2. \A x \in Fds(r) : x \in DOMAIN kernel
    BY WatchedItem DEF Fds
  <2> QED BY <1>1, <2>1, <2>2, ChangesElsewhere
<1>3. ASSUME NEW p \in DOMAIN m_kqWatches, RemoveKqueueItem(p, Held) PROVE Followed1(r)'
  <2> DEFINE i   == m_kqWatches[p]
             fds == Range(item[i].childFileFds) \cup {item[i].fd}
  <2>1. /\ \A j \in Item \ {i} : item'[j] = item[j]
        /\ DOMAIN kernel' = DOMAIN kernel \ fds /\ \A fd \in DOMAIN kernel' : kernel'[fd] = kernel[fd]
        /\ m_kqWatches'[r] = m_kqWatches[r] /\ m_kqWatches[r] # i
    BY <1>3, ItemLeaves DEF TypeInv
  <2>2. \A x \in fds : m_kqFdMap[x] = i
    BY WatchedItem DEF Range, It
  <2>3. \A x \in Fds(r) : x \in DOMAIN kernel /\ m_kqFdMap[x] = m_kqWatches[r]
    BY WatchedItem DEF Fds
  <2>4. m_kqWatches[r] \in Item
    BY WatchedItem
  <2> HIDE DEF i, fds
  <2> QED BY <1>1, <2>1, <2>2, <2>3, <2>4, ChangesElsewhere
<1> QED BY <1>2, <1>3 DEF RemoveItem

LEMMA ItemEntersElsewhere ==
  ASSUME TypeInv, NEW th \in Thread, InsertKqItem(th), NEW r \in DOMAIN m_kqWatches, call[th].item.path # r,
         Alone(r), Followed1(r)
  PROVE  Followed1(r)'
<1> DEFINE it == call[th].item
           t  == it.path
<1>1. UNCHANGED <<fs, lp, m_pendingEvents>> /\ Next /\ mirror' = Synced(mirror, {t})
  BY DEF InsertKqItem, loopVars, Next, CallStep
<1>2. call[th].at = "scanned"
  BY DEF InsertKqItem
<1>3. t \in Root \ {r}
  BY <1>2 DEF TypeInv, CallTypes, OfItem
<1>4. it.fd \notin DOMAIN m_kqFdMap
  BY <1>2 DEF TypeInv, KqInv, Scanned, Apart
<1>5. /\ \A j \in Item : item'[j] = item[j]
      /\ \A fd \in DOMAIN kernel : fd \in DOMAIN kernel' /\ (fd # it.fd => kernel'[fd] = kernel[fd])
      /\ r \in DOMAIN m_kqWatches' /\ m_kqWatches'[r] = m_kqWatches[r]
  BY ItemEnters DEF TypeInv
<1>6. \A x \in Fds(r) : x \in DOMAIN kernel /\ x \in DOMAIN m_kqFdMap
  BY WatchedItem DEF Fds
<1>7. m_kqWatches[r] \in Item
  BY WatchedItem
<1>8. \A p \in Around(r) : (p \in DOMAIN mirror' <=> p \in DOMAIN mirror)
                           /\ (p \in DOMAIN mirror => mirror'[p] = mirror[p])
  <2> DEFINE roots == {t}
  <2>1. roots \in SUBSET (Root \ {r}) /\ mirror' = Synced(mirror, roots) /\ DOMAIN fs \subseteq Path
    BY <1>1, <1>3 DEF TypeInv, FsTypes
  <2> HIDE DEF roots
  <2> QED BY <2>1, SyncedElsewhere
<1> QED BY <1>1, <1>4, <1>5, <1>6, <1>7, <1>8, ChangesElsewhere

-----------------------------------------------------------------------------
(* The loop handles notes of other items.                                   *)

LEMMA OtherItemsReport ==
  ASSUME TypeInv, NEW r \in DOMAIN m_kqWatches, Alone(r), NEW j \in Item \cap Known, j # m_kqWatches[r],
         NEW events \in Seq(KqEvents(item[j].path)), OutOfDate(j, events) \subseteq missed',
         NEW p \in Around(r) \ missed'
  PROVE  Silent(events, p)
<1> DEFINE t == item[j].path
<1>1. t \in Root \ RecursiveRoot
  BY DEF TypeInv, ItemTypes, OfItem
<1>2. CASE t # r
  <2>1. t \in Path /\ t \in Root \ {r}
    BY <1>1, <1>2, RootAssumption
  <2>2. \A x \in {t} \cup Child(t) : x \in Seq(STRING) /\ Under(t, x)
    BY <2>1, ChildIs, PathIs, UnderIsOrder DEF Child
  <2>3. \A e \in KqEvents(t) : e \notin KqEvents(r)
    <3> SUFFICES ASSUME NEW e \in KqEvents(t), e \in KqEvents(r) PROVE FALSE
      OBVIOUS
    <3>1. e.path \in {t} \cup Child(t) /\ e.path \in Around(r)
      BY DEF KqEvents, Around
    <3> QED BY <2>1, <2>2, <3>1, OthersAreElsewhere
  <2>4. events \in Seq(KqEvents(t)) /\ events \in Seq(Queued)
    BY <1>1, QueuedIs
  <2>5. \A k \in 1 .. Len(events) : events[k] \notin KqEvents(r)
    BY <2>3, <2>4
  <2> QED BY <2>4, <2>5, OthersAreSilent
<1>3. CASE t = r
  <2>1. j \in torn
    BY <1>3 DEF Known, TypeInv, KqInv, Watched
  <2>2. Reported(events) \subseteq missed'
    BY <2>1 DEF OutOfDate
  <2>3. p \in Path
    BY AroundIs
  <2>4. Range(events) = {events[k] : k \in 1 .. Len(events)}
    BY DEF Range
  <2>5. \A k \in 1 .. Len(events) : {events[k].path, events[k].old} \cap Path \subseteq Reported(events)
    BY <2>4 DEF Reported
  <2> QED BY <2>2, <2>3, <2>5 DEF Silent
<1> QED BY <1>2, <1>3

LEMMA HandledElsewhere ==
  ASSUME TypeInv, HandleFile, NEW r \in DOMAIN m_kqWatches, Alone(r), Followed1(r),
         NEW e \in lp.events, ~ToScan(e), lp' = [lp EXCEPT !.events = @ \ {e}],
         \/ e.fd \in DOMAIN m_kqFdMap /\ m_kqFdMap[e.fd] # m_kqWatches[r] /\ Pushed(FileEventsOf(e))
            /\ missed' = missed \cup OutOfDate(m_kqFdMap[e.fd], FileEventsOf(e))
         \/ e.fd \notin DOMAIN m_kqFdMap /\ UNCHANGED <<m_pendingEvents, trigger, missed>>
  PROVE  Followed1(r)'
<1>1. UNCHANGED <<fs, kernel, item, m_kqWatches, mirror>> /\ Next /\ lp.at = "handle"
  BY DEF HandleFile, kqVars, tables, Next, LoopStep
<1>2. lp'.at = "handle" /\ lp'.events = lp.events \ {e}
  BY <1>1 DEF TypeInv, KqInv, Shapes, LoopField
<1>3. \A fd \in Fds(r) : fd \in DOMAIN m_kqFdMap /\ m_kqFdMap[fd] = m_kqWatches[r]
  BY WatchedItem DEF Fds
<1>4. \A fd \in Fds(r) : fd # e.fd
  BY <1>3
<1>5. \A fd \in Fds(r) : \A n : Noted(fd, n)' <=> Noted(fd, n)
  <2> SUFFICES ASSUME NEW fd \in Fds(r), NEW n PROVE Noted(fd, n)' <=> Noted(fd, n)
    OBVIOUS
  <2>1. (\E x \in lp'.events : x.fd = fd /\ n \in x.notes) <=> \E x \in lp.events : x.fd = fd /\ n \in x.notes
    BY <1>2, <1>4
  <2> QED BY <1>1, <2>1 DEF Noted
<1>6. LeavesAlone(r)
  BY <1>1, <1>2, <1>5 DEF LeavesAlone, It, Scanning, Syncing
<1>7. Found(r)' = Found(r) /\ Dispatching' = Dispatching
  BY <1>1, <1>2 DEF Found, Syncing, Dispatching
<1>8. SaysNothing(r)
  <2>1. CASE e.fd \in DOMAIN m_kqFdMap /\ m_kqFdMap[e.fd] # m_kqWatches[r] /\ Pushed(FileEventsOf(e))
             /\ missed' = missed \cup OutOfDate(m_kqFdMap[e.fd], FileEventsOf(e))
    <3> DEFINE j      == m_kqFdMap[e.fd]
               events == FileEventsOf(e)
    <3>1. j \in Item \cap Known
      BY <2>1 DEF TypeInv, KqInv, Accounted, Tables, Agree, Item
    <3>2. events \in Seq(KqEvents(item[j].path)) /\ item[j].path \in Root \ RecursiveRoot
      BY <2>1, FileEventsAre DEF TypeInv
    <3>3. j # m_kqWatches[r] /\ OutOfDate(j, events) \subseteq missed'
      BY <2>1
    <3>4. m_pendingEvents' = m_pendingEvents \o events
      BY <2>1 DEF Pushed
    <3> HIDE DEF events, j
    <3>5. \A p \in Around(r) \ missed' : Silent(events, p)
      BY <3>1, <3>2, <3>3, OtherItemsReport
    <3>6. events \in Seq(Queued)
      BY <3>2, QueuedIs
    <3> QED BY <1>1, <1>7, <3>4, <3>5, <3>6, EventsInQueue
  <2>2. CASE UNCHANGED m_pendingEvents
    <3>1. Queue(r)' = Queue(r)
      BY <2>2, <1>7 DEF Queue
    <3> QED BY <1>1, <3>1, SameQueue
  <2> QED BY <2>1, <2>2
<1> QED BY <1>1, <1>6, <1>8, MissedGrows, FollowedStays

LEMMA DirectoryElsewhere ==
  ASSUME TypeInv, HandleDirectory, NEW r \in DOMAIN m_kqWatches, Followed1(r),
         NEW e \in lp.events, ToScan(e), m_kqFdMap[e.fd] # m_kqWatches[r],
         lp' = [lp EXCEPT !.at = "scan", !.events = @ \ {e}, !.item = m_kqFdMap[e.fd], !.notes = e.notes]
  PROVE  Followed1(r)'
<1>1. UNCHANGED <<fs, kernel, item, m_kqWatches, m_pendingEvents, mirror>> /\ Next /\ lp.at = "handle"
  BY DEF HandleDirectory, kqVars, tables, userVars, Next, LoopStep
<1>2. lp'.at = "scan" /\ lp'.events = lp.events \ {e} /\ lp'.item = m_kqFdMap[e.fd]
  BY <1>1 DEF TypeInv, KqInv, Shapes, LoopField
<1>3. \A fd \in Fds(r) : fd \in DOMAIN m_kqFdMap /\ m_kqFdMap[fd] = m_kqWatches[r]
  BY WatchedItem DEF Fds
<1>4. \A fd \in Fds(r) : fd # e.fd
  BY <1>3
<1>5. \A fd \in Fds(r) : \A n : Noted(fd, n)' <=> Noted(fd, n)
  <2> SUFFICES ASSUME NEW fd \in Fds(r), NEW n PROVE Noted(fd, n)' <=> Noted(fd, n)
    OBVIOUS
  <2>1. (\E x \in lp'.events : x.fd = fd /\ n \in x.notes) <=> \E x \in lp.events : x.fd = fd /\ n \in x.notes
    BY <1>2, <1>4
  <2> QED BY <1>1, <2>1 DEF Noted
<1>6. ~Scanning(r)' /\ ~Scanning(r) /\ ~Syncing(r)' /\ ~Syncing(r)
  BY <1>1, <1>2 DEF Scanning, Syncing
<1>7. LeavesAlone(r)
  BY <1>1, <1>5, <1>6 DEF LeavesAlone, It
<1>8. Queue(r)' = Queue(r)
  BY <1>1, <1>2, <1>6 DEF Queue, Dispatching, Found
<1>9. SaysNothing(r)
  BY <1>1, <1>8, SameQueue
<1> QED BY <1>1, <1>7, <1>9, MissedGrows, FollowedStays

LEMMA ScannedElsewhere ==
  ASSUME TypeInv, ScanDirectory, NEW r \in DOMAIN m_kqWatches, Followed1(r), lp.item # m_kqWatches[r]
  PROVE  Followed1(r)'
<1>1. UNCHANGED <<fs, kernel, m_kqWatches, m_pendingEvents, mirror>> /\ Next /\ lp.at = "scan"
  BY DEF ScanDirectory, userVars, Next, LoopStep
<1>2. lp'.at = "sync" /\ lp'.events = lp.events /\ lp'.item = lp.item
  BY DEF ScanDirectory, TypeInv, KqInv, Shapes, LoopField
<1>3. It(r)' = It(r)
  BY <1>1, WatchedItem DEF ScanDirectory, It, Item
<1>4. ~Scanning(r)' /\ ~Scanning(r) /\ ~Syncing(r)' /\ ~Syncing(r)
  BY <1>1, <1>2 DEF Scanning, Syncing
<1>5. \A fd, n : Noted(fd, n)' <=> Noted(fd, n)
  BY <1>1, <1>2 DEF Noted
<1>6. LeavesAlone(r)
  BY <1>1, <1>3, <1>4, <1>5 DEF LeavesAlone
<1>7. Queue(r)' = Queue(r)
  BY <1>1, <1>2, <1>4 DEF Queue, Dispatching, Found
<1>8. SaysNothing(r)
  BY <1>1, <1>7, SameQueue
<1> QED BY <1>1, <1>6, <1>8, MissedGrows, FollowedStays

LEMMA SyncedByLoopElsewhere ==
  ASSUME TypeInv, SyncDirectory, NEW r \in DOMAIN m_kqWatches, Alone(r), Followed1(r), lp.item # m_kqWatches[r]
  PROVE  Followed1(r)'
<1> DEFINE i == lp.item
<1>1. UNCHANGED <<fs, m_kqWatches, mirror>> /\ Next /\ lp.at = "sync"
  BY DEF SyncDirectory, Next, LoopStep
<1>2. lp'.at = "handle" /\ lp'.events = lp.events
  BY DEF SyncDirectory, TypeInv, KqInv, Shapes, LoopField
<1>3. /\ i \in Item /\ \A j \in Item \ {i} : item'[j] = item[j]
      /\ \A fd \in DOMAIN kernel :
            (\A p \in DOMAIN item[i].childFileFds \ DOMAIN item[i].children : fd # item[i].childFileFds[p]) =>
               fd \in DOMAIN kernel' /\ kernel'[fd] = kernel[fd]
  <2>1. i = lp.item
    OBVIOUS
  <2> HIDE DEF i
  <2> QED BY <2>1, LoopItemSynced DEF TypeInv
<1>4. m_kqWatches[r] \in Item \ {i}
  BY WatchedItem
<1>5. It(r)' = It(r)
  BY <1>1, <1>3, <1>4 DEF It
<1>6. \A p \in DOMAIN item[i].childFileFds : m_kqFdMap[item[i].childFileFds[p]] = i
  BY <1>3 DEF TypeInv, KqInv, Tables, Agree, Holds, Item
<1>7. \A fd \in Fds(r) : fd \in DOMAIN kernel /\ m_kqFdMap[fd] = m_kqWatches[r]
  BY WatchedItem DEF Fds
<1>8. \A fd \in Fds(r) : fd \in DOMAIN kernel' /\ kernel'[fd] = kernel[fd]
  BY <1>3, <1>4, <1>6, <1>7
<1>9. \A fd \in Fds(r) : \A n : Noted(fd, n)' <=> Noted(fd, n)
  BY <1>2, <1>7, <1>8 DEF Noted
<1>10. ~Scanning(r)' /\ ~Scanning(r) /\ ~Syncing(r)' /\ ~Syncing(r)
  BY <1>1, <1>2 DEF Scanning, Syncing
<1>11. LeavesAlone(r)
  BY <1>1, <1>5, <1>8, <1>9, <1>10 DEF LeavesAlone
<1>12. SaysNothing(r)
  <2> DEFINE events == Synchronised
  <2>1. events \in Seq(KqEvents(item[i].path)) /\ m_pendingEvents' = m_pendingEvents \o events
    BY SynchronisedQueued DEF TypeInv
  <2>2. i \in Item \cap Known
    BY <1>1 DEF TypeInv, KqInv, InHand
  <2>3. OutOfDate(i, events) \subseteq missed'
    BY DEF SyncDirectory, Synchronised
  <2>4. item[i].path \in Root \ RecursiveRoot
    BY <2>2 DEF TypeInv, ItemTypes, OfItem
  <2>5. i # m_kqWatches[r]
    OBVIOUS
  <2> HIDE DEF events, i
  <2>6. \A p \in Around(r) \ missed' : Silent(events, p)
    BY <2>1, <2>2, <2>3, <2>5, OtherItemsReport
  <2>7. events \in Seq(Queued)
    BY <2>1, <2>4, QueuedIs
  <2>8. Dispatching' = Dispatching /\ Found(r)' = Found(r)
    BY <1>1, <1>2, <1>10 DEF Dispatching, Found
  <2> QED BY <1>1, <2>1, <2>6, <2>7, <2>8, EventsInQueue
<1> QED BY <1>1, <1>11, <1>12, MissedGrows, FollowedStays

-----------------------------------------------------------------------------
(* The follower takes an event.                                             *)

LEMMA TakenNext ==
  ASSUME TypeInv, Dispatch, NEW r
  PROVE  LET e == Head(lp.batch) IN
         /\ e \in Queued /\ Queue(r)' \in Seq(Queued) /\ Queue(r) = <<e>> \o Queue(r)'
         /\ mirror' = Followed(mirror, e) /\ lp.at = "dispatch" /\ lp'.at = "callback" /\ lp'.events = lp.events
<1> DEFINE b == lp.batch
<1>1. b \in Seq(Queued) /\ b # << >> /\ m_pendingEvents \in Seq(Queued) /\ m_pendingEvents' = m_pendingEvents
  BY DEF Dispatch, TypeInv, QueueTypes
<1>2. lp.at = "dispatch" /\ lp'.at = "callback" /\ lp'.batch = Tail(b) /\ lp'.events = lp.events
  BY LoopFields DEF TypeInv
<1>3. mirror' = Followed(mirror, Head(b))
  BY DEF Dispatch
<1>4. Dispatching = b /\ Dispatching' = Tail(b) /\ Found(r) = << >> /\ Found(r)' = << >>
  BY <1>2 DEF Dispatching, Found, Syncing
<1> HIDE DEF b
<1>5. Head(b) \in Queued /\ Tail(b) \in Seq(Queued) /\ b = <<Head(b)>> \o Tail(b)
  BY <1>1
<1>6. Queue(r)' = Tail(b) \o m_pendingEvents /\ Queue(r) = b \o m_pendingEvents
  BY <1>1, <1>4, <1>5 DEF Queue
<1>7. Queue(r)' \in Seq(Queued) /\ Queue(r) = <<Head(b)>> \o Queue(r)'
  <2> DEFINE h == <<Head(b)>>
  <2>1. h \in Seq(Queued) /\ b = h \o Tail(b)
    BY <1>5
  <2> HIDE DEF h
  <2>2. (h \o Tail(b)) \o m_pendingEvents = h \o (Tail(b) \o m_pendingEvents)
    BY <1>1, <1>5, <2>1
  <2> QED BY <1>1, <1>5, <1>6, <2>1, <2>2 DEF h
<1> QED BY <1>2, <1>3, <1>5, <1>7 DEF b

LEMMA DispatchSays ==
  ASSUME TypeInv, Dispatch, NEW r, Alone(r), NEW p \in Around(r)
  PROVE  /\ \A pending : p \in DOMAIN fs /\ Present(r, p, pending) => Present(r, p, pending)'
         /\ Absent(r, p) => Absent(r, p)'
         /\ p = r /\ p \notin DOMAIN fs =>
               (p \notin DOMAIN mirror \/ Ended(Queue(r), p) => p \notin DOMAIN mirror' \/ Ended(Queue(r), p)')
<1> DEFINE e    == Head(lp.batch)
           rest == Queue(r)'
           q    == Queue(r)
           n    == mirror'
<1>1. e \in Queued /\ rest \in Seq(Queued) /\ q = <<e>> \o rest /\ n = Followed(mirror, e) /\ fs' = fs
  BY TakenNext DEF Dispatch
<1>2. p \in Path /\ Plain(e, p) /\ (p = r /\ e.path = p => e.old = << >>)
  BY <1>1, AroundIs, QueuedArePlain
<1>3. e \in FileEvents /\ DOMAIN mirror \subseteq Seq(STRING)
  BY <1>1, QueuedIs DEF TypeInv, UserTypes
<1> HIDE DEF e, rest, n, q
<1>4. /\ NoGives(q, p) <=> ~Gives(e, p) /\ NoGives(rest, p)
      /\ NoTakes(q, p) <=> ~Takes(e, p) /\ NoTakes(rest, p)
      /\ Given(q, p) <=> Given(rest, p) \/ (Gives(e, p) /\ NoTakes(rest, p))
      /\ Taken(q, p) <=> Taken(rest, p) \/ (Takes(e, p) /\ NoGives(rest, p))
      /\ Ended(q, p) <=> Ends(e, p) \/ Ended(rest, p)
  <2> DEFINE h == <<e>>
  <2>1. h \in Seq(Queued) /\ q = h \o rest
    BY <1>1
  <2>2. /\ NoGives(h, p) <=> ~Gives(e, p)
        /\ NoTakes(h, p) <=> ~Takes(e, p)
        /\ Given(h, p) <=> Gives(e, p)
        /\ Taken(h, p) <=> Takes(e, p)
        /\ Ended(h, p) <=> Ends(e, p)
    BY SaidByOne
  <2> HIDE DEF h
  <2>3. /\ NoGives(q, p) <=> NoGives(h, p) /\ NoGives(rest, p)
        /\ NoTakes(q, p) <=> NoTakes(h, p) /\ NoTakes(rest, p)
        /\ Given(q, p) <=> Given(rest, p) \/ (Given(h, p) /\ NoTakes(rest, p))
        /\ Taken(q, p) <=> Taken(rest, p) \/ (Taken(h, p) /\ NoGives(rest, p))
        /\ Ended(q, p) <=> Ended(h, p) \/ Ended(rest, p)
    <3>1. /\ NoGives(h \o rest, p) <=> NoGives(h, p) /\ NoGives(rest, p)
          /\ NoTakes(h \o rest, p) <=> NoTakes(h, p) /\ NoTakes(rest, p)
          /\ Given(h \o rest, p) <=> Given(rest, p) \/ (Given(h, p) /\ NoTakes(rest, p))
          /\ Taken(h \o rest, p) <=> Taken(rest, p) \/ (Taken(h, p) /\ NoGives(rest, p))
          /\ Ended(h \o rest, p) <=> Ended(h, p) \/ Ended(rest, p)
      BY <1>1, <2>1, SaidTogether
    <3> QED BY <2>1, <3>1
  <2> QED BY <2>2, <2>3
<1>5. /\ ~Gives(e, p) /\ ~Takes(e, p) =>
            (p \in DOMAIN n <=> p \in DOMAIN mirror) /\ (p \in DOMAIN mirror => n[p] = mirror[p])
      /\ Takes(e, p) => p \notin DOMAIN n
      /\ Gives(e, p) /\ p \in DOMAIN fs => p \in DOMAIN n /\ n[p] = fs[p].content
      /\ Ends(e, p) /\ p \notin DOMAIN fs => p \notin DOMAIN n
      /\ p \notin DOMAIN fs /\ p \notin DOMAIN mirror /\ (e.path = p => e.old = << >>) => p \notin DOMAIN n
  BY <1>1, <1>2, <1>3, CopiesFollow
<1>6. ASSUME NEW pending, p \in DOMAIN fs, Present(r, p, pending) PROVE Present(r, p, pending)'
  <2>1. SUFFICES Given(rest, p) \/ (NoTakes(rest, p) /\ p \in DOMAIN n /\ (n[p] = fs[p].content \/ pending))
    BY <1>1 DEF Present, rest, n
  <2>2. Given(q, p) \/ (NoTakes(q, p) /\ p \in DOMAIN mirror /\ (mirror[p] = fs[p].content \/ pending))
    BY <1>6 DEF Present, q
  <2> QED BY <1>4, <1>5, <1>6, <2>2
<1>7. ASSUME Absent(r, p) PROVE Absent(r, p)'
  <2>1. SUFFICES Taken(rest, p) \/ (p \notin DOMAIN n /\ NoGives(rest, p))
    BY DEF Absent, rest, n
  <2>2. Taken(q, p) \/ (p \notin DOMAIN mirror /\ NoGives(q, p))
    BY <1>7 DEF Absent, q
  <2> QED BY <1>4, <1>5, <2>2
<1>8. p = r /\ p \notin DOMAIN fs =>
         (p \notin DOMAIN mirror \/ Ended(q, p) => p \notin DOMAIN n \/ Ended(rest, p))
  BY <1>2, <1>4, <1>5
<1> QED BY <1>6, <1>7, <1>8 DEF rest, n, q

LEMMA DispatchKeeps ==
  ASSUME TypeInv, Dispatch, NEW r \in DOMAIN m_kqWatches, Alone(r), Followed1(r)
  PROVE  Followed1(r)'
<1>1. UNCHANGED <<fs, kqVars, missed>>
  BY DEF Dispatch
<1>2. lp.at = "dispatch" /\ lp'.at = "callback" /\ lp'.events = lp.events
  BY TakenNext
<1>3. LeavesAlone(r)
  BY <1>1, <1>2, TablesLeftAlone
<1>4. /\ It(r)' = It(r) /\ (Syncing(r)' <=> Syncing(r)) /\ (Syncing(r) => lp'.batch = lp.batch)
      /\ \A fd \in Fds(r) : kernel'[fd].interest = kernel[fd].interest /\ kernel'[fd].inode = kernel[fd].inode
  BY <1>3 DEF LeavesAlone
<1>5. DirNoted(r) => DirNoted(r)'
  BY <1>3, NotesStay
<1>6. Child(r) \subseteq Around(r) /\ r \in Around(r) /\ Remaining(r) \subseteq Child(r) \cap DOMAIN fs
  BY DEF Around, Remaining
<1>7. \A p \in Child(r) \ missed' : Absent(r, p) => Absent(r, p)'
  BY <1>6, DispatchSays
<1>8. \A p \in Remaining(r) \ missed' : Present(r, p, ChildNoted(r, p)) => Present(r, p, ChildNoted(r, p))'
  <2> SUFFICES ASSUME NEW p \in Remaining(r) \ missed', Present(r, p, ChildNoted(r, p))
               PROVE  Present(r, p, ChildNoted(r, p))'
    OBVIOUS
  <2> DEFINE pending == ChildNoted(r, p)
  <2>1. pending' <=> pending
    BY <1>3, NotesStay
  <2>2. p \in Around(r) /\ p \in DOMAIN fs
    BY <1>6
  <2>3. \A b \in BOOLEAN : Present(r, p, b) => Present(r, p, b)'
    BY <2>2, DispatchSays
  <2> QED BY <2>1, <2>3 DEF Present
<1>9. ASSUME r \notin missed', RootTold(r) PROVE RootTold(r)'
  <2>1. r \notin missed /\ (EndNoted(r)' <=> EndNoted(r)) /\ (RenameNoted(r)' <=> RenameNoted(r))
        /\ (RootNoted(r)' <=> RootNoted(r))
    BY <1>1, <1>3, <1>9, NotesStay
  <2>2. CASE r \in DOMAIN fs
    <3>1. ~EndNoted(r) /\ Present(r, r, RootNoted(r))
      BY <1>9, <2>1, <2>2 DEF RootTold
    <3>2. \A b \in BOOLEAN : Present(r, r, b) => Present(r, r, b)'
      BY <1>6, <2>2, DispatchSays
    <3>3. Present(r, r, RootNoted(r))'
      BY <2>1, <3>1, <3>2 DEF Present
    <3> QED BY <1>1, <2>1, <2>2, <3>1, <3>3 DEF RootTold
  <2>3. CASE r \notin DOMAIN fs
    <3>1. EndNoted(r) \/ RenameNoted(r) \/ r \notin DOMAIN mirror \/ Ended(Queue(r), r)
      BY <1>9, <2>1, <2>3 DEF RootTold
    <3>2. r \notin DOMAIN mirror \/ Ended(Queue(r), r) => r \notin DOMAIN mirror' \/ Ended(Queue(r), r)'
      BY <1>6, <2>3, DispatchSays
    <3> QED BY <1>1, <2>1, <2>3, <3>1, <3>2 DEF RootTold
  <2> QED BY <2>2, <2>3
<1> QED BY <1>1, <1>4, <1>5, <1>7, <1>8, <1>9, FollowedOn

-----------------------------------------------------------------------------
(* The loop handles notes of r.                                             *)

\* What is queued and does not mention p leaves open what is said of it.
LEMMA SaidBefore ==
  ASSUME NEW q \in Seq(Queued), NEW s \in Seq(Queued), NEW p, Silent(s, p)
  PROVE  /\ NoGives(q \o s, p) <=> NoGives(q, p)
         /\ NoTakes(q \o s, p) <=> NoTakes(q, p)
         /\ Given(q \o s, p) <=> Given(q, p)
         /\ Taken(q \o s, p) <=> Taken(q, p)
         /\ Ended(q \o s, p) <=> Ended(q, p)
<1>1. NoGives(s, p) /\ NoTakes(s, p) /\ ~Given(s, p) /\ ~Taken(s, p) /\ ~Ended(s, p)
  BY SilenceSaysNothing
<1>2. /\ NoGives(q \o s, p) <=> NoGives(q, p) /\ NoGives(s, p)
      /\ NoTakes(q \o s, p) <=> NoTakes(q, p) /\ NoTakes(s, p)
      /\ Given(q \o s, p) <=> Given(s, p) \/ (Given(q, p) /\ NoTakes(s, p))
      /\ Taken(q \o s, p) <=> Taken(s, p) \/ (Taken(q, p) /\ NoGives(s, p))
      /\ Ended(q \o s, p) <=> Ended(q, p) \/ Ended(s, p)
  BY SaidTogether
<1> QED BY <1>1, <1>2

\* An event of r is taken out of the loop's hand, what is made of it is queued.
LEMMA HandledHere ==
  ASSUME TypeInv, HandleFile, NEW r \in DOMAIN m_kqWatches, Alone(r),
         NEW e \in lp.events, lp' = [lp EXCEPT !.events = @ \ {e}],
         e.fd \in DOMAIN m_kqFdMap, m_kqFdMap[e.fd] = m_kqWatches[r], Pushed(FileEventsOf(e)),
         missed' = missed \cup OutOfDate(m_kqFdMap[e.fd], FileEventsOf(e))
  PROVE  /\ UNCHANGED <<fs, kernel, item, m_kqWatches, mirror, missed>> /\ It(r)' = It(r)
         /\ ~Syncing(r) /\ ~Syncing(r)' /\ ~Scanning(r) /\ ~Scanning(r)'
         /\ Queue(r) \in Seq(Queued) /\ FileEventsOf(e) \in Seq(Queued) /\ Queue(r)' = Queue(r) \o FileEventsOf(e)
         /\ \A fd, n : Noted(fd, n)' => Noted(fd, n)
         /\ \A fd, n : Noted(fd, n) /\ ~(fd = e.fd /\ n \in e.notes) => Noted(fd, n)'
<1>1. UNCHANGED <<fs, kernel, item, m_kqWatches, mirror>> /\ lp.at = "handle"
  BY DEF HandleFile, kqVars, tables
<1>2. lp'.at = "handle" /\ lp'.events = lp.events \ {e}
  BY <1>1 DEF TypeInv, KqInv, Shapes, LoopField
<1>3. missed' = missed
  BY WatchedItem DEF OutOfDate
<1>4. It(r)' = It(r) /\ ~Syncing(r) /\ ~Syncing(r)' /\ ~Scanning(r) /\ ~Scanning(r)'
  BY <1>1, <1>2 DEF It, Syncing, Scanning
<1>5. m_pendingEvents \in Seq(Queued)
  BY DEF TypeInv, QueueTypes
<1>6. FileEventsOf(e) \in Seq(Queued)
  BY FileEventsAre, QueuedIs DEF TypeInv
<1>7. Queue(r) = m_pendingEvents /\ Queue(r)' = m_pendingEvents'
  <2>1. Dispatching = << >> /\ Dispatching' = << >> /\ Found(r) = << >> /\ Found(r)' = << >>
    BY <1>1, <1>2, <1>4 DEF Dispatching, Found
  <2>2. m_pendingEvents' \in Seq(Queued)
    BY <1>5, <1>6 DEF Pushed
  <2> QED BY <1>5, <2>1, <2>2 DEF Queue
<1>8. m_pendingEvents' = m_pendingEvents \o FileEventsOf(e)
  BY DEF Pushed
<1>9. \A fd, n : Noted(fd, n)' => Noted(fd, n)
  BY <1>1, <1>2 DEF Noted
<1>10. \A fd, n : Noted(fd, n) /\ ~(fd = e.fd /\ n \in e.notes) => Noted(fd, n)'
  BY <1>1, <1>2 DEF Noted
<1> QED BY <1>1, <1>3, <1>4, <1>5, <1>6, <1>7, <1>8, <1>9, <1>10

LEMMA ChildHandled ==
  ASSUME TypeInv, HandleFile, NEW r \in DOMAIN m_kqWatches, Alone(r), Followed1(r),
         NEW e \in lp.events, lp' = [lp EXCEPT !.events = @ \ {e}],
         e.fd \in DOMAIN m_kqFdMap, m_kqFdMap[e.fd] = m_kqWatches[r], Pushed(FileEventsOf(e)),
         missed' = missed \cup OutOfDate(m_kqFdMap[e.fd], FileEventsOf(e)),
         e.fd \in DOMAIN m_childFdToPath
  PROVE  Followed1(r)'
<1> DEFINE c      == m_childFdToPath[e.fd]
           fds    == It(r).childFileFds
           events == FileEventsOf(e)
           q      == Queue(r)
<1>1. /\ UNCHANGED <<fs, kernel, mirror, missed>> /\ It(r)' = It(r)
      /\ ~Syncing(r) /\ ~Syncing(r)' /\ ~Scanning(r) /\ ~Scanning(r)'
      /\ q \in Seq(Queued) /\ events \in Seq(Queued) /\ Queue(r)' = q \o events
      /\ \A fd, n : Noted(fd, n)' => Noted(fd, n)
      /\ \A fd, n : Noted(fd, n) /\ ~(fd = e.fd /\ n \in e.notes) => Noted(fd, n)'
  BY HandledHere
<1>2. c \in DOMAIN fds /\ fds[c] = e.fd
  BY DEF TypeInv, KqInv, Tables, Agree, OwnedBy, It
<1>3. /\ It(r).fd # e.fd /\ c \in Child(r)
      /\ \A p \in DOMAIN fds : fds[p] = e.fd => p = c
  BY <1>2, WatchedItem
<1>4. c \in DOMAIN It(r).children
  BY <1>1, <1>2 DEF Followed1, ChildrenOpen
<1>5. events = FileNoted(c, e.notes)
  BY DEF FileEventsOf
<1>6. \A k \in 1 .. Len(events) : events[k] = FileEvent("modify", c)
  BY <1>5 DEF FileNoted
<1> HIDE DEF events, q
<1>7. \A p \in Around(r) : p # << >>
  BY AroundIs
<1>8. \A p \in Around(r) \ {c} : Silent(events, p)
  BY <1>6, <1>7 DEF Silent, FileEvent
<1>9. \A p \in Around(r) \ {c} :
         /\ NoGives(q \o events, p) <=> NoGives(q, p)
         /\ NoTakes(q \o events, p) <=> NoTakes(q, p)
         /\ Given(q \o events, p) <=> Given(q, p)
         /\ Taken(q \o events, p) <=> Taken(q, p)
         /\ Ended(q \o events, p) <=> Ended(q, p)
  BY <1>1, <1>8, SaidBefore
<1>10. Child(r) \subseteq Around(r) /\ r \in Around(r) /\ r # c /\ Remaining(r) \subseteq Child(r)
  BY <1>3, AroundIs, ChildIs DEF Around, Remaining
<1>11. \A n : Noted(It(r).fd, n)' <=> Noted(It(r).fd, n)
  BY <1>1, <1>3
<1>12. (DirNoted(r)' <=> DirNoted(r)) /\ (EndNoted(r)' <=> EndNoted(r)) /\ (RootNoted(r)' <=> RootNoted(r))
       /\ (RenameNoted(r)' <=> RenameNoted(r))
  BY <1>1, <1>11 DEF DirNoted, EndNoted, RootNoted, RenameNoted
<1>13. \A p \in Child(r) \ missed' : p \notin DOMAIN It(r).children /\ Absent(r, p) => Absent(r, p)'
  BY <1>1, <1>4, <1>9, <1>10 DEF Absent, q
<1>14. \A p \in Remaining(r) \ missed' : Present(r, p, ChildNoted(r, p)) => Present(r, p, ChildNoted(r, p))'
  <2> SUFFICES ASSUME NEW p \in Remaining(r) \ missed', Present(r, p, ChildNoted(r, p))
               PROVE  Present(r, p, ChildNoted(r, p))'
    OBVIOUS
  <2>1. CASE p # c
    <3>1. ChildNoted(r, p)' <=> ChildNoted(r, p)
      BY <1>1, <1>3, <2>1 DEF ChildNoted
    <3> QED BY <1>1, <1>9, <1>10, <2>1, <3>1 DEF Present, q
  <2>2. CASE p = c /\ "write" \in e.notes
    <3>1. events = <<FileEvent("modify", c)>>
      BY <1>5, <2>2 DEF FileNoted
    <3>2. Given(events, c)
      BY <3>1, SaidByOne DEF Gives, FileEvent
    <3>3. Given(q \o events, c)
      BY <1>1, <3>2, SaidTogether
    <3> QED BY <1>1, <2>2, <3>3 DEF Present, q
  <2>3. CASE p = c /\ "write" \notin e.notes
    <3>1. events = << >>
      BY <1>5, <2>3 DEF FileNoted
    <3>2. q \o events = q
      BY <1>1, <3>1
    <3>3. ChildNoted(r, p)' <=> ChildNoted(r, p)
      BY <1>1, <2>3 DEF ChildNoted
    <3> QED BY <1>1, <3>2, <3>3 DEF Present, q
  <2> QED BY <2>1, <2>2, <2>3
<1>15. RootTold(r) => RootTold(r)'
  <2>1. /\ NoTakes(Queue(r), r)' <=> NoTakes(Queue(r), r)
        /\ Given(Queue(r), r)' <=> Given(Queue(r), r)
        /\ Ended(Queue(r), r)' <=> Ended(Queue(r), r)
    BY <1>1, <1>9, <1>10 DEF q
  <2>2. Present(r, r, RootNoted(r))' <=> Present(r, r, RootNoted(r))
    BY <1>1, <1>12, <2>1 DEF Present
  <2> QED BY <1>1, <1>12, <2>1, <2>2 DEF RootTold
<1> QED BY <1>1, <1>12, <1>13, <1>14, <1>15, FollowedOn

LEMMA FileHandled ==
  ASSUME TypeInv, HandleFile, NEW r \in DOMAIN m_kqWatches, Alone(r), r \notin Directory, Followed1(r),
         NEW e \in lp.events, lp' = [lp EXCEPT !.events = @ \ {e}],
         e.fd \in DOMAIN m_kqFdMap, m_kqFdMap[e.fd] = m_kqWatches[r], Pushed(FileEventsOf(e)),
         missed' = missed \cup OutOfDate(m_kqFdMap[e.fd], FileEventsOf(e)),
         e.fd \notin DOMAIN m_childFdToPath
  PROVE  Followed1(r)'
<1> DEFINE events == FileEventsOf(e)
           q      == Queue(r)
           w      == IF "write" \in e.notes THEN <<FileEvent("modify", r)>> ELSE << >>
           n      == IF "rename" \in e.notes THEN <<FileEvent("rename", r)>> ELSE << >>
           d      == IF "delete" \in e.notes THEN <<FileEvent("delete", r)>> ELSE << >>
<1>1. /\ UNCHANGED <<fs, kernel, mirror, missed>> /\ It(r)' = It(r)
      /\ ~Syncing(r) /\ ~Syncing(r)' /\ ~Scanning(r) /\ ~Scanning(r)'
      /\ q \in Seq(Queued) /\ events \in Seq(Queued) /\ Queue(r)' = q \o events
      /\ \A fd, x : Noted(fd, x)' => Noted(fd, x)
      /\ \A fd, x : Noted(fd, x) /\ ~(fd = e.fd /\ x \in e.notes) => Noted(fd, x)'
  BY HandledHere
<1>2. It(r).fd = e.fd /\ It(r).path = r
  BY WatchedItem DEF TypeInv, KqInv, Tables, Agree, OwnedBy, It
<1>3. events = w \o n \o d
  BY <1>2 DEF FileEventsOf, RootFileNoted, FileNoted, It
<1>4. Child(r) = {} /\ r \in Path /\ r # << >>
  BY AroundIs, ChildIs DEF Around
<1>5. w \in Seq(FileEvents) /\ n \in Seq(FileEvents) /\ d \in Seq(FileEvents)
  <2>1. \A type \in EventTypes : FileEvent(type, r) \in FileEvents
    BY <1>4 DEF FileEvents, FileEvent, EventTypes
  <2>2. FileEvent("modify", r) \in FileEvents /\ FileEvent("rename", r) \in FileEvents
        /\ FileEvent("delete", r) \in FileEvents
    BY <2>1 DEF EventTypes
  <2>3. w \in Seq(FileEvents)
    BY <2>2
  <2>4. n \in Seq(FileEvents)
    BY <2>2
  <2>5. d \in Seq(FileEvents)
    BY <2>2
  <2> QED BY <2>3, <2>4, <2>5
<1>6. /\ NoTakes(w, r) /\ (Given(w, r) <=> "write" \in e.notes) /\ ~Ended(w, r)
      /\ NoTakes(n, r) /\ (Given(n, r) <=> "rename" \in e.notes) /\ (Ended(n, r) <=> "rename" \in e.notes)
      /\ (NoTakes(d, r) <=> "delete" \notin e.notes) /\ (Ended(d, r) <=> "delete" \in e.notes)
  <2>1. /\ Gives(FileEvent("modify", r), r) /\ ~Takes(FileEvent("modify", r), r) /\ ~Ends(FileEvent("modify", r), r)
        /\ Gives(FileEvent("rename", r), r) /\ ~Takes(FileEvent("rename", r), r) /\ Ends(FileEvent("rename", r), r)
        /\ Takes(FileEvent("delete", r), r) /\ Ends(FileEvent("delete", r), r)
    BY <1>4 DEF Gives, Takes, Ends, FileEvent
  <2> QED BY <2>1, SaidByOne, SaidByNone
<1> HIDE DEF w, n, d
<1>7. /\ "delete" \notin e.notes => NoTakes(events, r)
      /\ "delete" \notin e.notes /\ "write" \in e.notes => Given(events, r)
      /\ "delete" \in e.notes \/ "rename" \in e.notes => Ended(events, r)
  <2> DEFINE v == w \o n
  <2>1. v \in Seq(FileEvents)
    BY <1>5
  <2>2. /\ NoTakes(v, r) <=> NoTakes(w, r) /\ NoTakes(n, r)
        /\ Given(v, r) <=> Given(n, r) \/ (Given(w, r) /\ NoTakes(n, r))
        /\ Ended(v, r) <=> Ended(w, r) \/ Ended(n, r)
    BY <1>5, SaidTogether
  <2> HIDE DEF v
  <2>3. /\ NoTakes(v \o d, r) <=> NoTakes(v, r) /\ NoTakes(d, r)
        /\ Given(v \o d, r) <=> Given(d, r) \/ (Given(v, r) /\ NoTakes(d, r))
        /\ Ended(v \o d, r) <=> Ended(v, r) \/ Ended(d, r)
    BY <1>5, <2>1, SaidTogether
  <2> QED BY <1>3, <1>6, <2>2, <2>3 DEF v
<1> HIDE DEF events, q
<1>8. /\ NoTakes(q \o events, r) <=> NoTakes(q, r) /\ NoTakes(events, r)
      /\ Given(q \o events, r) <=> Given(events, r) \/ (Given(q, r) /\ NoTakes(events, r))
      /\ Ended(q \o events, r) <=> Ended(q, r) \/ Ended(events, r)
  BY <1>1, SaidTogether
<1>9. Remaining(r) = {}
  BY <1>4 DEF Remaining
<1>10. (EndNoted(r)' => EndNoted(r)) /\ (EndNoted(r) => EndNoted(r)' \/ "delete" \in e.notes)
       /\ (RenameNoted(r) => RenameNoted(r)' \/ "rename" \in e.notes)
       /\ (RootNoted(r) => RootNoted(r)' \/ "write" \in e.notes)
  BY <1>1 DEF EndNoted, RenameNoted, RootNoted
<1>11. "delete" \in e.notes => EndNoted(r)
  BY <1>2 DEF EndNoted, Noted
<1>12. RootTold(r) => RootTold(r)'
  <2> SUFFICES ASSUME RootTold(r), r \notin missed
               PROVE  IF r \in DOMAIN fs THEN ~EndNoted(r)' /\ Present(r, r, RootNoted(r))'
                      ELSE EndNoted(r)' \/ RenameNoted(r)' \/ r \notin DOMAIN mirror' \/ Ended(Queue(r), r)'
    BY <1>1 DEF RootTold
  <2>1. CASE r \in DOMAIN fs
    <3>1. ~EndNoted(r) /\ Present(r, r, RootNoted(r))
      BY <2>1 DEF RootTold
    <3>2. ~EndNoted(r)' /\ NoTakes(events, r)
      BY <1>7, <1>10, <1>11, <3>1
    <3>3. Given(q, r) \/ (NoTakes(q, r) /\ r \in DOMAIN mirror /\ (mirror[r] = fs[r].content \/ RootNoted(r)))
      BY <3>1 DEF Present, q
    <3>4. Given(q \o events, r) \/ (NoTakes(q \o events, r) /\ r \in DOMAIN mirror
                                      /\ (mirror[r] = fs[r].content \/ RootNoted(r)'))
      BY <1>7, <1>8, <1>10, <1>11, <3>1, <3>2, <3>3
    <3> QED BY <1>1, <2>1, <3>2, <3>4 DEF Present
  <2>2. CASE r \notin DOMAIN fs
    <3>1. EndNoted(r) \/ RenameNoted(r) \/ r \notin DOMAIN mirror \/ Ended(q, r)
      BY <2>2 DEF RootTold, q
    <3> QED BY <1>1, <1>7, <1>8, <1>10, <2>2, <3>1
  <2> QED BY <2>1, <2>2
<1> QED BY <1>1, <1>4, <1>9, <1>12, FollowedOn

LEMMA DirectoryHandled ==
  ASSUME TypeInv, HandleFile, NEW r \in DOMAIN m_kqWatches, Alone(r), r \in Directory, Followed1(r),
         NEW e \in lp.events, ~ToScan(e), lp' = [lp EXCEPT !.events = @ \ {e}],
         e.fd \in DOMAIN m_kqFdMap, m_kqFdMap[e.fd] = m_kqWatches[r], Pushed(FileEventsOf(e)),
         missed' = missed \cup OutOfDate(m_kqFdMap[e.fd], FileEventsOf(e)),
         e.fd \notin DOMAIN m_childFdToPath
  PROVE  Followed1(r)'
<1> DEFINE events == FileEventsOf(e)
           q      == Queue(r)
           fds    == It(r).childFileFds
<1>1. /\ UNCHANGED <<fs, kernel, mirror, missed>> /\ It(r)' = It(r)
      /\ ~Syncing(r) /\ ~Syncing(r)' /\ ~Scanning(r) /\ ~Scanning(r)'
      /\ q \in Seq(Queued) /\ events \in Seq(Queued) /\ Queue(r)' = q \o events
      /\ \A fd, n : Noted(fd, n)' => Noted(fd, n)
      /\ \A fd, n : Noted(fd, n) /\ ~(fd = e.fd /\ n \in e.notes) => Noted(fd, n)'
  BY HandledHere
<1>2. It(r).fd = e.fd /\ It(r).path = r
  BY WatchedItem DEF TypeInv, KqInv, Tables, Agree, OwnedBy, It
<1>3. "write" \notin e.notes
  BY <1>2 DEF ToScan, It
<1>4. events = IF "delete" \in e.notes THEN <<FileEvent("delete", r)>> ELSE << >>
  BY <1>2, <1>3 DEF FileEventsOf, It
<1>5. \A p \in DOMAIN fds : fds[p] # e.fd
  BY WatchedItem
<1>6. /\ \A p \in Child(r) : p # r /\ p # << >> /\ p \in Around(r)
      /\ r \in Path /\ r # << >> /\ r \in Around(r)
  BY AroundIs, ChildIs DEF Around
<1>7. \A k \in 1 .. Len(events) : events[k] = FileEvent("delete", r)
  BY <1>4
<1>8. \A p \in Child(r) : Silent(events, p)
  BY <1>6, <1>7 DEF Silent, FileEvent
<1>9. "delete" \in e.notes => Ended(events, r)
  BY <1>4, SaidByOne DEF Ends, FileEvent
<1>10. "delete" \notin e.notes => events = << >>
  BY <1>4
<1> HIDE DEF events, q
<1>11. \A p \in Child(r) :
         /\ NoGives(q \o events, p) <=> NoGives(q, p)
         /\ NoTakes(q \o events, p) <=> NoTakes(q, p)
         /\ Given(q \o events, p) <=> Given(q, p)
         /\ Taken(q \o events, p) <=> Taken(q, p)
  BY <1>1, <1>8, SaidBefore
<1>12. \A p \in Child(r) \ missed' : p \notin DOMAIN It(r).children /\ Absent(r, p) => Absent(r, p)'
  BY <1>1, <1>11 DEF Absent, q
<1>13. \A p \in Remaining(r) \ missed' : Present(r, p, ChildNoted(r, p)) => Present(r, p, ChildNoted(r, p))'
  <2> SUFFICES ASSUME NEW p \in Remaining(r) \ missed', Present(r, p, ChildNoted(r, p))
               PROVE  Present(r, p, ChildNoted(r, p))'
    OBVIOUS
  <2>1. ChildNoted(r, p)' <=> ChildNoted(r, p)
    BY <1>1, <1>5 DEF ChildNoted
  <2>2. p \in Child(r)
    BY DEF Remaining
  <2> QED BY <1>1, <1>11, <2>1, <2>2 DEF Present, q
<1>14. DirNoted(r) => DirNoted(r)'
  BY <1>1, <1>3 DEF DirNoted
<1>15. (EndNoted(r)' => EndNoted(r)) /\ (EndNoted(r) => EndNoted(r)' \/ "delete" \in e.notes)
       /\ ~RenameNoted(r) /\ ~RootNoted(r) /\ ~RootNoted(r)'
  BY <1>1 DEF EndNoted, RenameNoted, RootNoted
<1>16. "delete" \in e.notes => EndNoted(r)
  BY <1>2 DEF EndNoted, Noted
<1>17. RootTold(r) => RootTold(r)'
  <2> SUFFICES ASSUME RootTold(r), r \notin missed
               PROVE  IF r \in DOMAIN fs THEN ~EndNoted(r)' /\ Present(r, r, RootNoted(r))'
                      ELSE EndNoted(r)' \/ RenameNoted(r)' \/ r \notin DOMAIN mirror' \/ Ended(Queue(r), r)'
    BY <1>1 DEF RootTold
  <2>1. CASE r \in DOMAIN fs
    <3>1. ~EndNoted(r) /\ Present(r, r, RootNoted(r))
      BY <2>1 DEF RootTold
    <3>2. ~EndNoted(r)' /\ events = << >>
      BY <1>10, <1>15, <1>16, <3>1
    <3>3. q \o events = q
      BY <1>1, <3>2
    <3>4. Present(r, r, RootNoted(r))'
      BY <1>1, <1>15, <3>1, <3>3 DEF Present, q
    <3> QED BY <2>1, <3>2, <3>4
  <2>2. CASE r \notin DOMAIN fs
    <3>1. EndNoted(r) \/ r \notin DOMAIN mirror \/ Ended(q, r)
      BY <1>15, <2>2 DEF RootTold, q
    <3>2. Ended(q \o events, r) <=> Ended(q, r) \/ Ended(events, r)
      BY <1>1, SaidTogether
    <3> QED BY <1>1, <1>9, <1>15, <2>2, <3>1, <3>2
  <2> QED BY <2>1, <2>2
<1> QED BY <1>1, <1>12, <1>13, <1>14, <1>17, FollowedOn

LEMMA HandleFileKeeps ==
  ASSUME TypeInv, HandleFile, NEW r \in DOMAIN m_kqWatches, Alone(r), Followed1(r)
  PROVE  Followed1(r)'
<1>1. PICK e \in lp.events :
         /\ ~ToScan(e) /\ lp' = [lp EXCEPT !.events = @ \ {e}]
         /\ \/ e.fd \in DOMAIN m_kqFdMap /\ Pushed(FileEventsOf(e))
               /\ missed' = missed \cup OutOfDate(m_kqFdMap[e.fd], FileEventsOf(e))
            \/ e.fd \notin DOMAIN m_kqFdMap /\ UNCHANGED <<m_pendingEvents, trigger, missed>>
  BY DEF HandleFile
<1>2. CASE e.fd \notin DOMAIN m_kqFdMap \/ m_kqFdMap[e.fd] # m_kqWatches[r]
  BY <1>1, <1>2, HandledElsewhere
<1>3. CASE e.fd \in DOMAIN m_kqFdMap /\ m_kqFdMap[e.fd] = m_kqWatches[r]
  <2>1. CASE e.fd \in DOMAIN m_childFdToPath
    BY <1>1, <1>3, <2>1, ChildHandled
  <2>2. CASE e.fd \notin DOMAIN m_childFdToPath
    BY <1>1, <1>3, <2>2, FileHandled, DirectoryHandled
  <2> QED BY <2>1, <2>2
<1> QED BY <1>2, <1>3

LEMMA HandleDirectoryKeeps ==
  ASSUME TypeInv, HandleDirectory, NEW r \in DOMAIN m_kqWatches, Alone(r), Followed1(r)
  PROVE  Followed1(r)'
<1>1. PICK e \in lp.events :
         /\ ToScan(e)
         /\ lp' = [lp EXCEPT !.at = "scan", !.events = @ \ {e}, !.item = m_kqFdMap[e.fd], !.notes = e.notes]
  BY DEF HandleDirectory
<1>2. CASE m_kqFdMap[e.fd] # m_kqWatches[r]
  BY <1>1, <1>2, DirectoryElsewhere
<1>3. CASE m_kqFdMap[e.fd] = m_kqWatches[r]
  <2> DEFINE fds == It(r).childFileFds
  <2>1. UNCHANGED <<fs, kernel, item, m_kqWatches, m_pendingEvents, mirror, missed>> /\ lp.at = "handle"
    BY DEF HandleDirectory, kqVars, tables, userVars
  <2>2. lp'.at = "scan" /\ lp'.events = lp.events \ {e} /\ lp'.item = m_kqWatches[r] /\ lp'.notes = e.notes
    BY <1>1, <1>3, <2>1 DEF TypeInv, KqInv, Shapes, LoopField
  <2>3. e.fd \in DOMAIN m_kqFdMap \ DOMAIN m_childFdToPath /\ item[m_kqFdMap[e.fd]].path \in Directory
    BY <1>1 DEF ToScan
  <2>4. It(r).fd = e.fd /\ r \in Directory
    BY <1>3, <2>3, WatchedItem DEF TypeInv, KqInv, Tables, Agree, OwnedBy, It
  <2>5. \A p \in DOMAIN fds : fds[p] # e.fd
    BY <2>3, WatchedItem
  <2>6. It(r)' = It(r) /\ Scanning(r)' /\ ~Scanning(r) /\ ~Syncing(r) /\ ~Syncing(r)'
    BY <2>1, <2>2 DEF It, Scanning, Syncing
  <2>7. \A fd, n : Noted(fd, n)' => Noted(fd, n)
    BY <2>1, <2>2 DEF Noted
  <2>8. \A fd, n : Noted(fd, n) /\ ~(fd = e.fd /\ n \in e.notes) => Noted(fd, n)'
    BY <2>1, <2>2 DEF Noted
  <2>9. \A n \in e.notes : Noted(e.fd, n)
    BY DEF Noted
  <2>10. DirNoted(r)'
    BY <2>6 DEF DirNoted
  <2>11. EndNoted(r)' <=> EndNoted(r)
    BY <2>2, <2>4, <2>6, <2>7, <2>8, <2>9 DEF EndNoted
  <2>12. ~RootNoted(r) /\ ~RootNoted(r)' /\ ~RenameNoted(r) /\ ~RenameNoted(r)'
    BY <2>4 DEF RootNoted, RenameNoted
  <2>13. \A p : ChildNoted(r, p)' <=> ChildNoted(r, p)
    BY <2>5, <2>6, <2>7, <2>8 DEF ChildNoted
  <2>14. Queue(r)' = Queue(r)
    BY <2>1, <2>2, <2>6 DEF Queue, Dispatching, Found
  <2>15. \A p : Absent(r, p) => Absent(r, p)'
    BY <2>1, <2>14 DEF Absent
  <2>16. \A p : Present(r, p, ChildNoted(r, p)) => Present(r, p, ChildNoted(r, p))'
    BY <2>1, <2>13, <2>14 DEF Present
  <2>17. Present(r, r, RootNoted(r)) => Present(r, r, RootNoted(r))'
    BY <2>1, <2>12, <2>14 DEF Present
  <2>18. RootTold(r) => RootTold(r)'
    BY <2>1, <2>11, <2>12, <2>14, <2>17 DEF RootTold
  <2> QED BY <2>1, <2>6, <2>10, <2>15, <2>16, <2>18, FollowedOn
<1> QED BY <1>2, <1>3

-----------------------------------------------------------------------------
(* The loop scans r, and brings its descriptors up to date.                 *)

LEMMA ScanKeeps ==
  ASSUME TypeInv, ScanDirectory, NEW r \in DOMAIN m_kqWatches, Alone(r), Followed1(r)
  PROVE  Followed1(r)'
<1>1. CASE lp.item # m_kqWatches[r]
  BY <1>1, ScannedElsewhere
<1>2. CASE lp.item = m_kqWatches[r]
  <2> DEFINE i    == m_kqWatches[r]
             it   == It(r)
             old  == it.children
             new  == ScanDirectChildren(r)
             fds  == it.childFileFds
             q    == Queue(r)
  <2>1. UNCHANGED <<fs, kernel, m_kqWatches, m_pendingEvents, mirror, missed>> /\ lp.at = "scan"
    BY DEF ScanDirectory, userVars
  <2>2. i \in Item /\ it.path = r /\ it = item[i] /\ it = [f \in ItemField |-> it[f]]
    BY WatchedItem DEF It, TypeInv, KqInv, Shapes
  <2>3. item' = [item EXCEPT ![i].children = new]
    BY <1>2, <2>2 DEF ScanDirectory
  <2>4. PICK modified \in SUBSET Changed(old, new) :
           lp' = [lp EXCEPT !.at = "sync", !.batch = Diff(old, new, modified)]
    BY <1>2, <2>2 DEF ScanDirectory
  <2> DEFINE d == Diff(old, new, modified)
  <2>5. lp'.at = "sync" /\ lp'.batch = d /\ lp'.events = lp.events /\ lp'.item = i /\ lp'.notes = lp.notes
    <3> HIDE DEF d
    <3> QED BY <1>2, <2>4 DEF TypeInv, KqInv, Shapes, LoopField, d
  <2>6. It(r)' = [it EXCEPT !.children = new]
    BY <2>1, <2>2, <2>3 DEF It, Item
  <2>7. It(r)'.children = new /\ It(r)'.childFileFds = fds /\ It(r)'.fd = it.fd
    <3> HIDE DEF new, it
    <3> QED BY <2>2, <2>6 DEF ItemField
  <2>8. r \in Path /\ r # << >> /\ \A p \in Child(r) : p \in Path /\ p # r
    BY AroundIs, ChildIs DEF Around, Child
  <2>9. \A p : p \in DOMAIN new <=> p \in Child(r) \cap DOMAIN fs
    BY <2>8, ScannedChildren DEF TypeInv, ScanDirectChildren
  <2>10. DOMAIN old \subseteq Child(r)
    BY WatchedItem
  <2>11. modified \subseteq DOMAIN old \cap DOMAIN new
    BY DEF Changed
  <2> HIDE DEF new, old
  <2>12. /\ d \in Seq(KqEvents(r)) /\ \A k \in 1 .. Len(d) : d[k].path \in Child(r)
         /\ \A p \in DOMAIN new \ DOMAIN old : Given(d, p)
         /\ \A p \in DOMAIN old \ DOMAIN new : Taken(d, p)
         /\ \A p \in Path : p \in DOMAIN new \/ p \notin DOMAIN old => NoTakes(d, p)
         /\ \A p \in Path \ DOMAIN new : NoGives(d, p)
    BY <2>8, <2>9, <2>10, <2>11, DiffReports
  <2>13. d \in Seq(Queued)
    BY <2>12, QueuedIs DEF Alone
  <2>14. Silent(d, r)
    <3> SUFFICES ASSUME NEW k \in 1 .. Len(d) PROVE r # d[k].path /\ r # d[k].old
      BY DEF Silent
    <3>1. d[k].path \in Child(r) /\ d[k] \in KqEvents(r)
      BY <2>12
    <3> HIDE DEF d
    <3> QED BY <2>8, <3>1 DEF KqEvents
  <2> HIDE DEF d
  <2>15. q \in Seq(Queued) /\ Queue(r)' = q \o d
    <3>1. m_pendingEvents \in Seq(Queued)
      BY DEF TypeInv, QueueTypes
    <3>2. Dispatching = << >> /\ Dispatching' = << >> /\ Found(r) = << >> /\ Found(r)' = d
      BY <2>1, <2>5 DEF Dispatching, Found, Syncing
    <3> QED BY <2>1, <2>13, <3>1, <3>2 DEF Queue
  <2>16. ~Syncing(r) /\ Scanning(r) /\ Syncing(r)' /\ ~Scanning(r)'
    BY <1>2, <2>1, <2>5 DEF Syncing, Scanning
  <2>17. \A fd, n : Noted(fd, n)' <=> Noted(fd, n)
    BY <2>1, <2>5 DEF Noted
  <2> HIDE DEF q
  <2>18. \A p : /\ NoGives(q \o d, p) <=> NoGives(q, p) /\ NoGives(d, p)
                /\ NoTakes(q \o d, p) <=> NoTakes(q, p) /\ NoTakes(d, p)
                /\ Given(q \o d, p) <=> Given(d, p) \/ (Given(q, p) /\ NoTakes(d, p))
                /\ Taken(q \o d, p) <=> Taken(d, p) \/ (Taken(q, p) /\ NoGives(d, p))
                /\ Ended(q \o d, p) <=> Ended(q, p) \/ Ended(d, p)
    BY <2>13, <2>15, SaidTogether
  <2>19. DOMAIN fds \subseteq DOMAIN old
    BY <2>16 DEF Followed1, ChildrenOpen, old
  <2> HIDE DEF it, fds
  <2>20. Snapshot(r)'
    BY <2>1, <2>7, <2>9 DEF Snapshot, Child
  <2>21. Departed(r)'
    <3> SUFFICES ASSUME NEW p \in Child(r) \ missed, p \notin DOMAIN new PROVE Absent(r, p)'
      BY <2>1, <2>7 DEF Departed, Child
    <3>1. CASE p \in DOMAIN old
      BY <2>12, <2>15, <2>18, <3>1 DEF Absent
    <3>2. CASE p \notin DOMAIN old
      <4>1. Taken(q, p) \/ (p \notin DOMAIN mirror /\ NoGives(q, p))
        BY <3>2 DEF Followed1, Departed, Absent, q, old, it
      <4>2. NoGives(d, p)
        BY <2>8, <2>12
      <4> QED BY <2>1, <2>15, <2>18, <4>1, <4>2 DEF Absent
    <3> QED BY <3>1, <3>2
  <2>22. Entered(r)'
    <3> SUFFICES ASSUME NEW p \in Child(r) \ missed, p \in DOMAIN new, p \in DOMAIN fs
                 PROVE  Present(r, p, ChildNoted(r, p))'
      BY <2>1, <2>7 DEF Entered, Remaining, Child
    <3>1. CASE p \notin DOMAIN old
      BY <2>12, <2>15, <2>18, <3>1 DEF Present
    <3>2. CASE p \in DOMAIN old
      <4>1. p \in Remaining(r)
        BY <3>2 DEF Remaining, old, it
      <4>2. Given(q, p) \/ (NoTakes(q, p) /\ p \in DOMAIN mirror /\ (mirror[p] = fs[p].content \/ ChildNoted(r, p)))
        BY <4>1 DEF Followed1, Entered, Present, q
      <4>3. NoTakes(d, p)
        BY <2>8, <2>12
      <4>4. ChildNoted(r, p)' <=> ChildNoted(r, p)
        BY <2>7, <2>17 DEF ChildNoted, fds, it
      <4> QED BY <2>1, <2>15, <2>18, <4>2, <4>3, <4>4 DEF Present
    <3> QED BY <3>1, <3>2
  <2>23. RootOpen(r)'
    <3>1. AllMissed(r) => AllMissed(r)'
      BY <2>1 DEF AllMissed
    <3> QED BY <2>1, <2>7, <3>1 DEF Followed1, RootOpen, Interest, it
  <2>24. ChildrenOpen(r)'
    <3>1. ASSUME NEW p \in Remaining(r)' \ Directory
          PROVE  ChildOpen(r, p)' \/ (Syncing(r)' /\ p \notin DOMAIN It(r)'.childFileFds /\ Given(lp'.batch, p))
      <4>1. p \in Child(r) \ missed /\ p \in DOMAIN new /\ p \in DOMAIN fs
        BY <2>1, <2>7 DEF Remaining, Child
      <4>2. CASE p \notin DOMAIN old
        BY <2>5, <2>7, <2>12, <2>16, <2>19, <4>1, <4>2
      <4>3. CASE p \in DOMAIN old
        <5>1. p \in Remaining(r) \ Directory
          BY <4>1, <4>3 DEF Remaining, old, it
        <5>2. ChildOpen(r, p)
          BY <2>16, <5>1 DEF Followed1, ChildrenOpen
        <5> QED BY <2>1, <2>7, <5>2 DEF ChildOpen, fds, it
      <4> QED BY <4>2, <4>3
    <3> QED BY <2>16, <3>1 DEF ChildrenOpen
  <2>25. RootTold(r)'
    <3>1. /\ NoTakes(q \o d, r) <=> NoTakes(q, r)
          /\ Given(q \o d, r) <=> Given(q, r)
          /\ Ended(q \o d, r) <=> Ended(q, r)
      BY <2>13, <2>14, <2>15, SaidBefore
    <3>2. (EndNoted(r)' <=> EndNoted(r)) /\ (RootNoted(r)' <=> RootNoted(r)) /\ (RenameNoted(r)' <=> RenameNoted(r))
      BY <2>5, <2>7, <2>16, <2>17 DEF EndNoted, RootNoted, RenameNoted, it
    <3>3. Present(r, r, RootNoted(r))' <=> Present(r, r, RootNoted(r))
      BY <2>1, <2>15, <3>1, <3>2 DEF Present, q
    <3> QED BY <2>1, <2>15, <3>1, <3>2, <3>3 DEF Followed1, RootTold, q
  <2> QED BY <2>20, <2>21, <2>22, <2>23, <2>24, <2>25 DEF Followed1
<1> QED BY <1>1, <1>2

LEMMA DescriptorsSynced ==
  ASSUME TypeInv, SyncDirectory, NEW r \in DOMAIN m_kqWatches, Alone(r), Followed1(r), lp.item = m_kqWatches[r]
  PROVE  Followed1(r)'
<1> DEFINE i    == m_kqWatches[r]
           it   == It(r)
           new  == It(r)'
           q    == Queue(r)
           end  == IF "delete" \in lp.notes THEN <<FileEvent("delete", r)>> ELSE << >>
<1>1. UNCHANGED <<fs, m_kqWatches, mirror>> /\ lp.at = "sync" /\ i = lp.item
  BY DEF SyncDirectory
<1>2. lp'.at = "handle" /\ lp'.events = lp.events
  BY DEF SyncDirectory, TypeInv, KqInv, Shapes, LoopField
<1>3. /\ i \in Item /\ i \notin torn /\ it.path = r /\ it = item[i] /\ new = item'[i]
      /\ it.fd \in DOMAIN kernel /\ it.fd \notin DOMAIN m_childFdToPath
      /\ \A p \in DOMAIN it.childFileFds : it.childFileFds[p] \in DOMAIN kernel
            /\ it.childFileFds[p] \in DOMAIN m_childFdToPath /\ m_childFdToPath[it.childFileFds[p]] = p
  BY <1>1, WatchedItem DEF It
<1>4. /\ new.path = it.path /\ new.fd = it.fd /\ new.children = it.children
      /\ DOMAIN new.childFileFds \subseteq (DOMAIN it.childFileFds \cap DOMAIN it.children) \cup NewChildren(it)
      /\ \A p \in DOMAIN it.childFileFds \cap DOMAIN it.children :
            p \in DOMAIN new.childFileFds /\ new.childFileFds[p] = it.childFileFds[p]
      /\ \A p \in DOMAIN new.childFileFds \ DOMAIN it.childFileFds :
            kernel'[new.childFileFds[p]] = Descriptor(p, {"write"})
      /\ \A fd \in DOMAIN kernel :
            (\A p \in DOMAIN it.childFileFds \ DOMAIN it.children : fd # it.childFileFds[p]) =>
               fd \in DOMAIN kernel' /\ kernel'[fd] = kernel[fd]
  <2> HIDE DEF i
  <2> QED BY <1>1, <1>3, LoopItemSynced DEF TypeInv
<1>5. m_pendingEvents' = m_pendingEvents \o Synchronised /\ missed' = missed \cup NewChildren(new)
      /\ Synchronised = lp.batch \o end
  BY <1>1, <1>3, SynchronisedQueued DEF TypeInv, SyncDirectory, Synchronised, OutOfDate
<1>6. r \in Path /\ r # << >> /\ \A p \in Child(r) : p # r /\ p # << >> /\ p \in Path
  BY AroundIs, ChildIs DEF Around, Child
<1>7. end \in Seq(Queued) /\ (\A p \in Child(r) : Silent(end, p))
      /\ (Ended(end, r) <=> "delete" \in lp.notes) /\ ("delete" \notin lp.notes => end = << >>)
  <2>1. FileEvent("delete", r) \in Queued /\ Ends(FileEvent("delete", r), r)
    <3>1. FileEvent("delete", r) \in KqEvents(r)
      BY <1>6, KqEventIs DEF EventTypes
    <3> QED BY <3>1 DEF Queued, Alone, Ends, FileEvent
  <2>2. CASE "delete" \in lp.notes
    <3>1. end = <<FileEvent("delete", r)>>
      BY <2>2
    <3>2. \A p \in Child(r) : Silent(<<FileEvent("delete", r)>>, p)
      BY <1>6 DEF Silent, FileEvent
    <3> QED BY <2>1, <2>2, <3>1, <3>2, SaidByOne
  <2>3. CASE "delete" \notin lp.notes
    <3>1. end = << >>
      BY <2>3
    <3> QED BY <2>3, <3>1, SaidByNone DEF Silent
  <2> QED BY <2>2, <2>3
<1> HIDE DEF end
<1>8. q \in Seq(Queued) /\ Queue(r)' = q \o end
  <2>1. m_pendingEvents \in Seq(Queued) /\ lp.batch \in Seq(Queued)
    BY DEF TypeInv, QueueTypes
  <2>2. Dispatching = << >> /\ Dispatching' = << >> /\ Found(r) = lp.batch /\ Found(r)' = << >>
    BY <1>1, <1>2 DEF Dispatching, Found, Syncing
  <2>3. q = m_pendingEvents \o lp.batch
    BY <2>1, <2>2 DEF Queue
  <2>4. Queue(r)' = m_pendingEvents \o (lp.batch \o end)
    BY <1>5, <1>7, <2>1, <2>2 DEF Queue
  <2>5. (m_pendingEvents \o lp.batch) \o end = m_pendingEvents \o (lp.batch \o end)
    <3>1. \A a, b, c \in Seq(Queued) : (a \o b) \o c = a \o (b \o c)
      OBVIOUS
    <3> QED BY <1>7, <2>1, <3>1
  <2>6. m_pendingEvents \o lp.batch \in Seq(Queued)
    BY <2>1
  <2> QED BY <2>3, <2>4, <2>5, <2>6
<1> HIDE DEF q, it, new, i
<1>9. \A p \in Child(r) :
         /\ NoGives(q \o end, p) <=> NoGives(q, p)
         /\ NoTakes(q \o end, p) <=> NoTakes(q, p)
         /\ Given(q \o end, p) <=> Given(q, p)
         /\ Taken(q \o end, p) <=> Taken(q, p)
  BY <1>7, <1>8, SaidBefore
<1>10. Syncing(r) /\ ~Scanning(r) /\ ~Syncing(r)' /\ ~Scanning(r)'
  BY <1>1, <1>2 DEF Syncing, Scanning, i
<1>11. \A fd \in DOMAIN kernel \cap DOMAIN kernel' : \A n : kernel'[fd] = kernel[fd] => (Noted(fd, n)' <=> Noted(fd, n))
  BY <1>2 DEF Noted
<1>12. PICK own : own = it.fd
  OBVIOUS
<1>13. /\ own \in DOMAIN kernel' /\ kernel'[own] = kernel[own] /\ new.fd = own
       /\ \A n : Noted(own, n)' <=> Noted(own, n)
  <2>1. own \in DOMAIN kernel /\ own \in DOMAIN kernel' /\ kernel'[own] = kernel[own] /\ new.fd = own
    BY <1>3, <1>4, <1>12
  <2> QED BY <1>11, <2>1
<1>14. \A p \in DOMAIN it.childFileFds \cap DOMAIN it.children : LET fd == it.childFileFds[p] IN
          fd \in DOMAIN kernel /\ fd \in DOMAIN kernel' /\ kernel'[fd] = kernel[fd]
  BY <1>3, <1>4
<1>15. missed \subseteq missed' /\ fs' = fs /\ mirror' = mirror
  BY <1>1, <1>5
<1>16. Snapshot(r)'
  <2>1. DirNoted(r)' <=> DirNoted(r)
    BY <1>10, <1>12, <1>13 DEF DirNoted, it, new
  <2>2. \A p \in Child(r) \ missed' : DirNoted(r)' \/ (p \in DOMAIN it.children <=> p \in DOMAIN fs)
    BY <1>15, <2>1 DEF Followed1, Snapshot, it
  <2> QED BY <1>4, <1>15, <2>2 DEF Snapshot, Child, new
<1>17. Departed(r)'
  <2> SUFFICES ASSUME NEW p \in Child(r) \ missed', p \notin DOMAIN it.children PROVE Absent(r, p)'
    BY <1>4 DEF Departed, Child, new
  <2>1. Absent(r, p)
    BY <1>15 DEF Followed1, Departed, it
  <2> QED BY <1>8, <1>9, <1>15, <2>1 DEF Absent, q
<1>18. Remaining(r)' \subseteq Remaining(r) \ missed'
  BY <1>4, <1>15 DEF Remaining, Child, it, new
<1>19. Entered(r)'
  <2> SUFFICES ASSUME NEW p \in Remaining(r)' PROVE Present(r, p, ChildNoted(r, p))'
    BY DEF Entered
  <2>1. p \in Child(r) /\ Present(r, p, ChildNoted(r, p)) /\ p \in DOMAIN it.children
    BY <1>18 DEF Followed1, Entered, Remaining, it
  <2>2. ChildNoted(r, p) => ChildNoted(r, p)'
    <3> SUFFICES ASSUME p \in DOMAIN it.childFileFds, Noted(it.childFileFds[p], "write")
                 PROVE  ChildNoted(r, p)'
      BY DEF ChildNoted, it
    <3>1. PICK fd : fd = it.childFileFds[p]
      OBVIOUS
    <3>2. p \in DOMAIN new.childFileFds /\ new.childFileFds[p] = fd
      BY <1>4, <2>1, <3>1
    <3>3. Noted(fd, "write")'
      BY <1>11, <1>14, <2>1, <3>1
    <3> QED BY <3>2, <3>3 DEF ChildNoted, new
  <2> QED BY <1>8, <1>9, <1>15, <2>1, <2>2 DEF Present, q
<1>20. RootOpen(r)'
  <2>1. AllMissed(r) => AllMissed(r)'
    BY <1>15 DEF AllMissed
  <2> QED BY <1>12, <1>13, <1>15, <2>1 DEF Followed1, RootOpen, Interest, it, new
<1>21. ChildrenOpen(r)'
  <2>1. ASSUME NEW p \in Remaining(r)' \ Directory PROVE ChildOpen(r, p)'
    <3>1. p \in Remaining(r) /\ p \notin missed' /\ p \in DOMAIN it.children /\ p \in DOMAIN fs
      BY <1>18 DEF Remaining, it
    <3>2. p \in DOMAIN new.childFileFds
      BY <1>4, <1>5, <2>1, <3>1 DEF NewChildren
    <3>3. CASE p \in DOMAIN it.childFileFds
      <4>1. ChildOpen(r, p)
        BY <2>1, <3>1, <3>3 DEF Followed1, ChildrenOpen, it
      <4>2. new.childFileFds[p] = it.childFileFds[p] /\ kernel'[it.childFileFds[p]] = kernel[it.childFileFds[p]]
        BY <1>4, <1>14, <3>1, <3>3
      <4> QED BY <1>15, <3>2, <4>1, <4>2 DEF ChildOpen, it, new
    <3>4. CASE p \notin DOMAIN it.childFileFds
      <4>1. kernel'[new.childFileFds[p]] = Descriptor(p, {"write"})
        BY <1>4, <3>2, <3>4
      <4> QED BY <1>15, <3>2, <4>1, DescriptorIs DEF ChildOpen, new
    <3> QED BY <3>3, <3>4
  <2>2. DOMAIN new.childFileFds \subseteq DOMAIN new.children
    BY <1>4 DEF NewChildren
  <2> QED BY <2>1, <2>2 DEF ChildrenOpen, new
<1>22. RootTold(r)'
  <2>1. Ended(q \o end, r) <=> Ended(q, r) \/ "delete" \in lp.notes
    BY <1>7, <1>8, SaidTogether
  <2>2. /\ EndNoted(r) <=> Noted(own, "delete") \/ "delete" \in lp.notes
        /\ EndNoted(r)' <=> Noted(own, "delete")
        /\ RootNoted(r)' <=> RootNoted(r)
        /\ RenameNoted(r)' <=> RenameNoted(r)
    BY <1>10, <1>12, <1>13 DEF EndNoted, RootNoted, RenameNoted, it, new
  <2> SUFFICES ASSUME r \notin missed'
               PROVE  IF r \in DOMAIN fs THEN ~EndNoted(r)' /\ Present(r, r, RootNoted(r))'
                      ELSE EndNoted(r)' \/ RenameNoted(r)' \/ r \notin DOMAIN mirror' \/ Ended(Queue(r), r)'
    BY <1>15 DEF RootTold
  <2>3. CASE r \in DOMAIN fs
    <3>1. ~EndNoted(r) /\ Present(r, r, RootNoted(r))
      BY <1>15, <2>3 DEF Followed1, RootTold
    <3>2. ~EndNoted(r)' /\ end = << >>
      BY <1>7, <1>13, <2>2, <3>1
    <3>3. q \o end = q
      BY <1>8, <3>2
    <3> QED BY <1>8, <1>15, <2>2, <2>3, <3>1, <3>2, <3>3 DEF Present, q
  <2>4. CASE r \notin DOMAIN fs
    <3>1. EndNoted(r) \/ RenameNoted(r) \/ r \notin DOMAIN mirror \/ Ended(q, r)
      BY <1>15, <2>4 DEF Followed1, RootTold, q
    <3> QED BY <1>8, <1>13, <1>15, <2>1, <2>2, <2>4, <3>1
  <2> QED BY <2>3, <2>4
<1> QED BY <1>16, <1>17, <1>19, <1>20, <1>21, <1>22 DEF Followed1

LEMMA LoopKeeps ==
  ASSUME TypeInv, LoopStep, NEW r \in DOMAIN m_kqWatches, Alone(r), Followed1(r)
  PROVE  Followed1(r)'
BY LoopStepsKeep, KeventKeeps, HandleFileKeeps, HandleDirectoryKeeps, ScanKeeps, DescriptorsSynced,
   SyncedByLoopElsewhere, DispatchKeeps DEF LoopStep

-----------------------------------------------------------------------------
(* r enters the tables.                                                     *)

\* Its copies are brought up to date.
LEMMA SyncedHere ==
  ASSUME NEW r, NEW p, Under(r, p), mirror' = Synced(mirror, {r})
  PROVE  /\ p \in DOMAIN mirror' <=> p \in DOMAIN fs
         /\ p \in DOMAIN fs => mirror'[p] = fs[p].content
<1> DEFINE trees == UNION {Tree(t) : t \in {r}}
           below == {q \in DOMAIN mirror : \E t \in {r} : Under(t, q)}
           f     == [q \in trees |-> fs[q].content]
           g     == Without(mirror, below)
           n     == mirror'
<1>1. n = Joined(f, g)
  BY DEF Synced
<1>2. p \in trees <=> p \in DOMAIN fs
  BY DEF Tree
<1>3. DOMAIN f = trees /\ (p \in trees => f[p] = fs[p].content)
  OBVIOUS
<1>4. p \notin DOMAIN g
  <2>1. DOMAIN g = DOMAIN mirror \ below
    BY WithoutIs
  <2> QED BY <2>1
<1> HIDE DEF n, f, g, trees
<1>5. DOMAIN n = DOMAIN f \cup DOMAIN g /\ \A x \in DOMAIN f : n[x] = f[x]
  BY <1>1 DEF Joined
<1>6. (p \in DOMAIN n <=> p \in DOMAIN fs) /\ (p \in DOMAIN fs => n[p] = fs[p].content)
  BY <1>2, <1>3, <1>4, <1>5
<1> QED BY <1>6 DEF n

\* Nothing that is queued mentions what is not reported late.
LEMMA LateIsMissed ==
  ASSUME TypeInv, NEW th \in Thread, InsertKqItem(th), NEW r, Alone(r), call[th].item.path = r,
         NEW p \in Around(r) \ missed'
  PROVE  Silent(Dispatching \o m_pendingEvents, p)
<1> DEFINE late == {e \in Range(m_pendingEvents \o lp.batch) : Under(r, e.path)}
           q    == Dispatching \o m_pendingEvents
<1>1. \A e \in late : {e.path, e.old} \cap Path \subseteq missed'
  <2>1. UNION {{e.path, e.old} \cap Path : e \in late} \subseteq Late(call[th].item)
    BY DEF Late
  <2>2. Late(call[th].item) \subseteq missed'
    BY DEF InsertKqItem
  <2> HIDE DEF late
  <2> QED BY <2>1, <2>2
<1>2. m_pendingEvents \in Seq(Queued) /\ lp.batch \in Seq(Queued) /\ Dispatching \in {lp.batch, << >>}
  BY DEF TypeInv, QueueTypes, Dispatching
<1>3. \A k \in 1 .. Len(q) : q[k] \in Range(m_pendingEvents \o lp.batch) /\ q[k] \in Queued
  <2> SUFFICES ASSUME NEW k \in 1 .. Len(q) PROVE q[k] \in Range(m_pendingEvents \o lp.batch) /\ q[k] \in Queued
    OBVIOUS
  <2> DEFINE a == m_pendingEvents
             b == lp.batch
             d == Dispatching
  <2>1. a \in Seq(Queued) /\ b \in Seq(Queued) /\ d \in {b, << >>} /\ k \in 1 .. Len(d \o a)
    BY <1>2
  <2> HIDE DEF a, b, d
  <2>2. (d \o a)[k] \in Queued /\ \E j \in 1 .. Len(a \o b) : (a \o b)[j] = (d \o a)[k]
    <3>1. CASE k <= Len(d)
      <4>1. d = b /\ (d \o a)[k] = b[k] /\ k \in 1 .. Len(b)
        BY <2>1, <3>1
      <4>2. (a \o b)[Len(a) + k] = b[k] /\ Len(a) + k \in 1 .. Len(a \o b)
        BY <2>1, <4>1
      <4> QED BY <2>1, <4>1, <4>2
    <3>2. CASE k > Len(d)
      <4>1. k - Len(d) \in 1 .. Len(a) /\ (d \o a)[k] = a[k - Len(d)]
        BY <2>1, <3>2
      <4>2. (a \o b)[k - Len(d)] = a[k - Len(d)] /\ k - Len(d) \in 1 .. Len(a \o b)
        BY <2>1, <4>1
      <4> QED BY <2>1, <4>1, <4>2
    <3> QED BY <2>1, <3>1, <3>2
  <2>3. Range(a \o b) = {(a \o b)[j] : j \in 1 .. Len(a \o b)}
    BY <2>1 DEF Range
  <2> QED BY <2>2, <2>3 DEF a, b, d
<1>4. SUFFICES ASSUME NEW k \in 1 .. Len(q), p \in {q[k].path, q[k].old} PROVE FALSE
  BY DEF Silent
<1> DEFINE e == q[k]
<1>5. e \in Queued /\ e \in Range(m_pendingEvents \o lp.batch)
  BY <1>3
<1> HIDE DEF q, e
<1>6. p \in {e.path, e.old}
  BY <1>4 DEF e
<1>7. e \in KqEvents(r)
  BY <1>5, <1>6, EventsElsewhere
<1>8. Under(r, e.path)
  BY <1>7, AroundIs DEF KqEvents, Around
<1>9. p \in Path
  BY AroundIs
<1> QED BY <1>1, <1>5, <1>6, <1>8, <1>9

LEMMA ItemEntersHere ==
  ASSUME TypeInv, NEW th \in Thread, InsertKqItem(th), NEW r, Alone(r), call[th].item.path = r, Fresh1(r)
  PROVE  Followed1(r)'
<1> DEFINE it  == call[th].item
           new == item'[NewItem]
<1>1. UNCHANGED <<fs, lp, m_pendingEvents>> /\ mirror' = Synced(mirror, {r}) /\ missed \subseteq missed'
      /\ call[th].at = "scanned" /\ it.path = r
  BY DEF InsertKqItem, loopVars
<1>2. /\ r \in DOMAIN fs => kernel[it.fd].inode = fs[r].inode \/ AllMissed(r)
      /\ r \in missed \/ r \in DOMAIN fs
      /\ \A p \in Child(r) \ missed : p \in DOMAIN it.children <=> p \in DOMAIN fs
  BY <1>1 DEF Fresh1
<1>3. /\ DOMAIN item' = Item \cup {NewItem}
      /\ new.path = it.path /\ new.fd = it.fd /\ new.children = it.children
      /\ DOMAIN new.childFileFds \subseteq NewChildren(it)
      /\ \A p \in DOMAIN new.childFileFds : kernel'[new.childFileFds[p]] = Descriptor(p, {"write"})
      /\ it.fd \in DOMAIN kernel
      /\ kernel'[it.fd] = [kernel[it.fd] EXCEPT !.interest = Interest(it.path)]
      /\ m_kqWatches'[it.path] = NewItem
  BY ItemEnters DEF TypeInv
<1>4. It(r)' = new
  BY <1>1, <1>3 DEF It
<1>5. missed' = missed \cup Late(it) \cup NewChildren(new)
  BY DEF InsertKqItem
<1> HIDE DEF it, new
<1>6. PICK own : own = it.fd
  OBVIOUS
<1>7. kernel'[own].interest = Interest(r) /\ kernel'[own].inode = kernel[own].inode
      /\ kernel'[own].active = {} /\ own \in DOMAIN kernel
  <2>1. OfKernel(kernel[own]) /\ own \in DOMAIN kernel /\ kernel[own].interest = {}
    BY <1>1, <1>3, <1>6 DEF TypeInv, KernelTypes, it
  <2>2. kernel'[own] = [kernel[own] EXCEPT !.interest = Interest(r)]
    BY <1>1, <1>3, <1>6
  <2> QED BY <2>1, <2>2 DEF OfKernel, KernelField
<1>8. ~Syncing(r)' /\ ~Scanning(r)' /\ Found(r)' = << >>
  <2>1. lp.at \in {"scan", "sync"} => lp.item \in Item
    BY DEF TypeInv, KqInv, InHand
  <2>2. NewItem \notin Item
    BY NewItemIs DEF TypeInv
  <2>3. m_kqWatches'[r] = NewItem
    BY <1>1, <1>3
  <2> HIDE DEF NewItem
  <2> QED BY <1>1, <2>1, <2>2, <2>3 DEF Syncing, Scanning, Found
<1>9. Queue(r)' = Dispatching \o m_pendingEvents
  <2>1. Dispatching \in Seq(Queued) /\ m_pendingEvents \in Seq(Queued)
    BY QueueIs
  <2> QED BY <1>1, <1>8, <2>1 DEF Queue, Dispatching
<1>10. \A p \in Around(r) \ missed' : NoGives(Queue(r), p)' /\ NoTakes(Queue(r), p)'
  <2> SUFFICES ASSUME NEW p \in Around(r) \ missed' PROVE NoGives(Queue(r), p)' /\ NoTakes(Queue(r), p)'
    OBVIOUS
  <2> DEFINE q == Dispatching \o m_pendingEvents
  <2>1. Silent(q, p)
    BY LateIsMissed
  <2>2. Queue(r)' = q
    BY <1>9
  <2> HIDE DEF q
  <2>3. NoGives(q, p) /\ NoTakes(q, p)
    BY <2>1, SilenceSaysNothing
  <2> QED BY <2>2, <2>3
<1>11. \A p \in Around(r) : (p \in DOMAIN mirror' <=> p \in DOMAIN fs)
                            /\ (p \in DOMAIN fs => mirror'[p] = fs[p].content)
  BY <1>1, AroundIs, SyncedHere
<1>12. Child(r) \subseteq Around(r) /\ r \in Around(r)
  BY DEF Around
<1>13. \A p \in Child(r) \ missed' : p \in DOMAIN it.children <=> p \in DOMAIN fs
  BY <1>1, <1>2
<1>14. AllMissed(r) => AllMissed(r)'
  BY <1>1 DEF AllMissed
<1>15. Snapshot(r)'
  BY <1>1, <1>3, <1>4, <1>13 DEF Snapshot, Child
<1>16. Departed(r)'
  BY <1>3, <1>4, <1>10, <1>11, <1>12, <1>13 DEF Departed, Absent, Child
<1>17. Entered(r)'
  BY <1>1, <1>10, <1>11, <1>12 DEF Entered, Remaining, Present, Child
<1>18. RootOpen(r)'
  BY <1>1, <1>2, <1>3, <1>4, <1>6, <1>7, <1>14 DEF RootOpen, Interest
<1>19. ChildrenOpen(r)'
  <2>1. DOMAIN new.childFileFds \subseteq DOMAIN new.children
    BY <1>3 DEF NewChildren
  <2>2. ASSUME NEW p \in Remaining(r)' \ Directory PROVE ChildOpen(r, p)'
    <3>1. p \in DOMAIN new.children /\ p \notin missed' /\ p \in DOMAIN fs
      BY <1>1, <1>4 DEF Remaining
    <3>2. p \in DOMAIN new.childFileFds
      BY <1>5, <2>2, <3>1 DEF NewChildren
    <3> QED BY <1>1, <1>3, <1>4, <3>2, DescriptorIs DEF ChildOpen
  <2> QED BY <1>4, <2>1, <2>2 DEF ChildrenOpen
<1>20. RootTold(r)'
  <2> SUFFICES ASSUME r \notin missed'
               PROVE  r \in DOMAIN fs /\ ~EndNoted(r)' /\ Present(r, r, RootNoted(r))'
    BY <1>1 DEF RootTold
  <2>1. r \in DOMAIN fs
    BY <1>1, <1>2
  <2>2. \A e \in lp.events : e.fd # own
    <3> SUFFICES ASSUME NEW e \in lp.events, e.fd = own PROVE FALSE
      OBVIOUS
    <3>1. r \in {it.path : x \in {x \in lp.events : x.fd = it.fd}}
      BY <1>1, <1>6
    <3> QED BY <1>5, <3>1 DEF Late
  <2>3. \A n : ~Noted(own, n)'
    BY <1>1, <1>7, <2>2 DEF Noted
  <2>4. ~EndNoted(r)'
    BY <1>3, <1>4, <1>6, <1>8, <2>3 DEF EndNoted
  <2>5. Present(r, r, RootNoted(r))'
    BY <1>1, <1>10, <1>11, <1>12, <2>1 DEF Present
  <2> QED BY <2>1, <2>4, <2>5
<1> QED BY <1>15, <1>16, <1>17, <1>18, <1>19, <1>20 DEF Followed1

\* What a call scans is so when it has scanned it.
LEMMA RootScannedFresh ==
  ASSUME TypeInv, NEW th \in Thread, ScanKqItem(th), NEW r, Alone(r), Fresh1(r)
  PROVE  Fresh1(r)'
<1> DEFINE root == call[th].root
<1>1. PICK fd : /\ OpenRoot(root, fd)
                /\ Becomes(th, [at |-> "scanned", item |-> ScannedItem(root, fd)])
  BY DEF ScanKqItem
<1>2. kernel' = With(kernel, fd, Descriptor(root, {})) /\ fd \notin DOMAIN kernel /\ root \in DOMAIN fs
  BY <1>1 DEF OpenRoot, LowestFree
<1>3. kernel'[fd] = Descriptor(root, {}) /\ \A x \in DOMAIN kernel : kernel'[x] = kernel[x]
  BY <1>2 DEF With
<1>4. UNCHANGED <<fs, missed>>
  BY DEF ScanKqItem, userVars
<1>5. call'[th] = [at |-> "scanned", item |-> ScannedItem(root, fd)]
      /\ \A other \in Thread \ {th} : call'[other] = call[other]
  BY <1>1 DEF Becomes, TypeInv, KqInv, Shapes
<1>6. r \in Path
  BY AroundIs
<1> HIDE DEF root
<1> SUFFICES ASSUME NEW u \in Thread, call'[u].at = "scanned", call'[u].item.path = r
             PROVE  LET it == call'[u].item IN
                    /\ r \in DOMAIN fs => kernel'[it.fd].inode = fs[r].inode \/ AllMissed(r)'
                    /\ r \in missed' \/ r \in DOMAIN fs
                    /\ \A p \in Child(r) \ missed' : p \in DOMAIN it.children <=> p \in DOMAIN fs
  BY <1>4 DEF Fresh1, Child, Thread
<1>7. CASE u = th
  <2>1. call'[u].item = ScannedItem(root, fd)
    BY <1>5, <1>7
  <2>2. root = r /\ call'[u].item.fd = fd
        /\ call'[u].item.children = IF r \in Directory THEN ScanDirectChildren(r) ELSE << >>
    BY <2>1 DEF ScannedItem
  <2>3. kernel'[fd].inode = fs[r].inode /\ r \in DOMAIN fs
    BY <1>2, <1>3, <2>2, DescriptorIs
  <2>4. CASE r \in Directory
    <3>1. DOMAIN call'[u].item.children = Entries(r)
      BY <2>2, <2>4 DEF ScanDirectChildren
    <3>2. \A p : p \in Entries(r) <=> p \in Child(r) \cap DOMAIN fs
      BY <1>6, ScannedChildren DEF TypeInv
    <3> QED BY <2>2, <2>3, <3>1, <3>2
  <2>5. CASE r \notin Directory
    <3>1. Child(r) = {}
      BY <1>6, <2>5, ChildIs
    <3> QED BY <2>2, <2>3, <3>1
  <2> QED BY <2>4, <2>5
<1>8. CASE u # th
  <2>1. call'[u] = call[u] /\ call[u].at = "scanned" /\ call[u].item.path = r
    BY <1>5, <1>8
  <2>2. call[u].item.fd \in DOMAIN kernel
    BY <2>1 DEF TypeInv, KqInv, Scanned, Apart
  <2>3. kernel'[call[u].item.fd] = kernel[call[u].item.fd]
    BY <1>3, <2>2
  <2>4. AllMissed(r) => AllMissed(r)'
    BY <1>4 DEF AllMissed
  <2> QED BY <1>4, <2>1, <2>3, <2>4 DEF Fresh1
<1> QED BY <1>7, <1>8

LEMMA CallsKeep ==
  ASSUME TypeInv, NEW th \in Thread, CallStep(th), NEW r, Alone(r), MirrorInv(r), r \in DOMAIN m_kqWatches'
  PROVE  Followed1(r)'
<1>1. Next
  BY DEF Next
<1>2. CASE InsertKqItem(th)
  <2>1. CASE call[th].item.path = r
    BY <1>2, <2>1, ItemEntersHere DEF MirrorInv
  <2>2. CASE call[th].item.path # r
    <3>1. r \in DOMAIN m_kqWatches
      BY <1>2, <2>2, ItemEnters DEF TypeInv
    <3> QED BY <1>2, <2>2, <3>1, ItemEntersElsewhere DEF MirrorInv
  <2> QED BY <2>1, <2>2
<1>3. CASE RemoveItem(th)
  <2>1. DOMAIN m_kqWatches' \subseteq DOMAIN m_kqWatches
    <3>1. CASE UNCHANGED kqVars
      BY <3>1 DEF kqVars, tables
    <3>2. CASE \E p \in DOMAIN m_kqWatches : RemoveKqueueItem(p, Held)
      BY <3>2, ItemLeaves DEF TypeInv
    <3> QED BY <1>3, <3>1, <3>2 DEF RemoveItem
  <2> QED BY <1>3, <2>1, ItemLeavesElsewhere DEF MirrorInv
<1>4. CASE ScanKqItem(th)
  <2>1. m_kqWatches' = m_kqWatches
    BY <1>4 DEF ScanKqItem, OpenRoot
  <2> QED BY <1>4, <2>1, RootScannedElsewhere DEF MirrorInv
<1>5. CASE ~InsertKqItem(th) /\ ~RemoveItem(th) /\ ~ScanKqItem(th)
  <2>1. UNCHANGED <<fs, kqVars, lp, m_pendingEvents, mirror>>
    BY <1>5 DEF CallStep, AddWatch, RemoveWatch, AddFails, AddTree, RemoveTree, Stop, StopFSEvents, ClearStream,
                Wakeup, RestartStream, userVars, loopVars
  <2>2. r \in DOMAIN m_kqWatches
    BY <2>1 DEF kqVars, tables
  <2> QED BY <1>1, <2>1, <2>2, QuietStepsKeep DEF MirrorInv
<1> QED BY <1>2, <1>3, <1>4, <1>5

LEMMA StreamsKeep ==
  ASSUME TypeInv, StreamStep, NEW r \in DOMAIN m_kqWatches, Alone(r), Followed1(r)
  PROVE  Followed1(r)'
<1>1. CASE \E s \in Stream : PushEvents(s)
  BY <1>1, PushedElsewhere
<1>2. CASE ~\E s \in Stream : PushEvents(s)
  <2>1. UNCHANGED <<fs, kqVars, lp, m_pendingEvents, mirror>>
    BY <1>2 DEF StreamStep, WakeLoop, userVars, loopVars
  <2> QED BY <2>1, QuietStepsKeep DEF Next
<1> QED BY <1>1, <1>2

\* But for a change of the files.
LEMMA MirrorKept ==
  ASSUME TypeInv, Next, ~FsStep, NEW r, Alone(r), MirrorInv(r)
  PROVE  MirrorInv(r)'
<1>1. ASSUME r \in DOMAIN m_kqWatches' PROVE Followed1(r)'
  <2>1. CASE \E th \in Thread : CallStep(th)
    BY <1>1, <2>1, CallsKeep
  <2>2. CASE StreamStep
    <3>1. UNCHANGED m_kqWatches
      BY <2>2 DEF StreamStep, PushEvents, WakeLoop, kqVars, tables
    <3> QED BY <1>1, <2>2, <3>1, StreamsKeep DEF MirrorInv
  <2>3. CASE LoopStep
    <3>1. UNCHANGED m_kqWatches
      BY <2>3 DEF LoopStep, Start, Begin, While, Kevent, HandleFile, HandleDirectory, ScanDirectory, SyncDirectory,
                  SwapPending, Dispatch, CallbackReturn, Dispatched, kqVars, tables
    <3> QED BY <1>1, <2>3, <3>1, LoopKeeps DEF MirrorInv
  <2> QED BY <2>1, <2>2, <2>3 DEF Next
<1>2. Fresh1(r)'
  <2>1. CASE \E th \in Thread : ScanKqItem(th)
    BY <2>1, RootScannedFresh DEF MirrorInv
  <2>2. CASE \A th \in Thread : ~ScanKqItem(th)
    BY <2>2, FreshStays DEF MirrorInv
  <2> QED BY <2>1, <2>2
<1> QED BY <1>1, <1>2 DEF MirrorInv

-----------------------------------------------------------------------------
(* A change of the files.                                                   *)

Arrives(x) == x \in DOMAIN fs' /\ (x \in DOMAIN fs => fs'[x].inode # fs[x].inode)
Leaves(x)  == x \in DOMAIN fs /\ x \notin DOMAIN fs'

\* What comes, goes or is written raises notes where a descriptor can have them, or it is
\* missed.
Noticed(notes) ==
    /\ \A x \in Path : Arrives(x) =>
          /\ Undelivered(x) => \A y \in Path : Under(x, y) => y \in missed'
          /\ x \in missed' \/ (~BeingAdded(x) /\ (Len(x) > 1 => Note(Front(x), "write") \in notes))
    /\ \A x \in Path : Leaves(x) =>
          \/ x \in missed'
          \/ /\ ~BeingAdded(x)
             /\ Front(x) \in Root => Note(Front(x), "write") \in notes
             /\ x \in Root => Note(x, "delete") \in notes \/ (x \notin Directory /\ Note(x, "rename") \in notes)
    /\ \A x \in DOMAIN fs \cap DOMAIN fs' :
          fs'[x].inode = fs[x].inode /\ fs'[x] # fs[x] => x \notin Directory /\ Note(x, "write") \in notes
    /\ \A inode : <<inode, "delete">> \in notes =>
          \E x \in DOMAIN fs : fs[x].inode = inode /\ (x \in DOMAIN fs' => fs'[x].inode # inode)

LEMMA UnnoticedIs ==
  ASSUME NEW paths, NEW appearing
  PROVE  /\ \A x \in paths : BeingAdded(x) => x \in Unnoticed(paths, appearing)
         /\ \A x \in appearing, y \in Path : Undelivered(x) /\ Under(x, y) => y \in Unnoticed(paths, appearing)
<1>1. \A x \in paths : BeingAdded(x) => x \in Unnoticed(paths, appearing)
  BY DEF Unnoticed
<1>2. ASSUME NEW x \in appearing, NEW y \in Path, Undelivered(x), Under(x, y) PROVE y \in Unnoticed(paths, appearing)
  <2> DEFINE late == {p \in appearing : Undelivered(p)}
  <2>1. x \in late /\ y \in {z \in Path : Under(x, z)}
    BY <1>2
  <2>2. y \in UNION {{z \in Path : Under(p, z)} : p \in late}
    BY <2>1
  <2> QED BY <2>2 DEF Unnoticed
<1> QED BY <1>1, <1>2

LEMMA NoteIs ==
  ASSUME NEW p, NEW q, NEW n, NEW m
  PROVE  /\ Note(p, n) = <<fs[p].inode, n>>
         /\ Note(p, n) = Note(q, m) => fs[p].inode = fs[q].inode /\ n = m
         /\ \A inode : Note(p, n) = <<inode, m>> => fs[p].inode = inode /\ n = m
BY DEF Note

LEMMA InParentIs ==
  ASSUME NEW p
  PROVE  /\ Front(p) \in DOMAIN fs => Note(Front(p), "write") \in InParent(p)
         /\ \A inode : <<inode, "delete">> \notin InParent(p)
<1>1. Front(p) \in DOMAIN fs => Note(Front(p), "write") \in InParent(p)
  BY DEF InParent
<1>2. ASSUME NEW inode, <<inode, "delete">> \in InParent(p) PROVE FALSE
  BY <1>2 DEF InParent, Note
<1> QED BY <1>1, <1>2

LEMMA CreationIsNoticed ==
  ASSUME TypeInv, NEW p \in Path, Create(p)
  PROVE  \E notes, records, unnoticed : Changes(notes, records, unnoticed) /\ Noticed(notes)
<1> DEFINE unnoticed == Unnoticed({p}, {p})
           notes     == InParent(p)
           records   == <<Record1(p, "created")>>
<1>1. Changes(notes, records, unnoticed) /\ p \notin DOMAIN fs
  BY DEF Create
<1>2. missed' = missed \cup unnoticed
  BY <1>1 DEF Changes
<1>3. DOMAIN fs' = DOMAIN fs \cup {p} /\ \A x \in DOMAIN fs : fs'[x] = fs[x]
  BY CreatedThere DEF TypeInv
<1>4. Len(p) > 1 => Front(p) \in DOMAIN fs
  BY CreatedThere DEF TypeInv
<1>5. (BeingAdded(p) => p \in unnoticed) /\ \A y \in Path : Undelivered(p) /\ Under(p, y) => y \in unnoticed
  BY UnnoticedIs
<1>6. Len(p) > 1 => Note(Front(p), "write") \in notes
  BY <1>4, InParentIs
<1>7. \A inode : <<inode, "delete">> \notin notes
  BY InParentIs
<1> HIDE DEF notes, unnoticed, records
<1>8. \A x : Arrives(x) => x = p
  BY <1>3 DEF Arrives
<1>9. \A x : ~Leaves(x)
  BY <1>3 DEF Leaves
<1>10. Noticed(notes)
  BY <1>2, <1>3, <1>5, <1>6, <1>7, <1>8, <1>9 DEF Noticed
<1> QED BY <1>1, <1>10

LEMMA WriteIsNoticed ==
  ASSUME TypeInv, NEW p \in Path, Write(p)
  PROVE  \E notes, records, unnoticed : Changes(notes, records, unnoticed) /\ Noticed(notes)
<1> DEFINE notes   == {Note(p, "write")}
           records == <<Record1(p, "modified")>>
<1>1. Changes(notes, records, {})
  BY DEF Write
<1>2. DOMAIN fs' = DOMAIN fs /\ p \in DOMAIN fs \ Directory
      /\ (\A x \in DOMAIN fs : fs'[x].inode = fs[x].inode) /\ (\A x \in DOMAIN fs \ {p} : fs'[x] = fs[x])
  BY WrittenThere DEF TypeInv
<1>3. \A inode : <<inode, "delete">> \notin notes
  BY DEF Note
<1>4. Note(p, "write") \in notes
  OBVIOUS
<1> HIDE DEF notes, records
<1>5. \A x : ~Arrives(x) /\ ~Leaves(x)
  BY <1>2 DEF Arrives, Leaves
<1>6. Noticed(notes)
  BY <1>2, <1>3, <1>4, <1>5 DEF Noticed
<1> QED BY <1>1, <1>6

LEMMA UnlinkIsNoticed ==
  ASSUME TypeInv, NEW p \in Path, Unlink(p)
  PROVE  \E notes, records, unnoticed : Changes(notes, records, unnoticed) /\ Noticed(notes)
<1> DEFINE unnoticed == Unnoticed({p}, {})
           notes     == InParent(p) \cup {Note(p, "delete")}
           records   == <<Record1(p, "removed")>>
<1>1. Changes(notes, records, unnoticed) /\ Tree(p) = {p}
  BY DEF Unlink
<1>2. missed' = missed \cup unnoticed
  BY <1>1 DEF Changes
<1>3. DOMAIN fs' = DOMAIN fs \ Tree(p) /\ p \in Tree(p) /\ \A x \in DOMAIN fs' : fs'[x] = fs[x]
  BY UnlinkedThere DEF TypeInv
<1>4. p \in DOMAIN fs
  BY <1>3 DEF Tree
<1>5. BeingAdded(p) => p \in unnoticed
  BY UnnoticedIs
<1>6. Front(p) \in Root => Note(Front(p), "write") \in notes
  <2> SUFFICES ASSUME Front(p) \in Root PROVE Front(p) \in DOMAIN fs
    BY InParentIs
  <2>1. Len(p) > 1
    BY PathIs, FrontIs, RootAssumption
  <2> QED BY <1>4, <2>1 DEF TypeInv, FsTypes
<1>7. Note(p, "delete") \in notes
  OBVIOUS
<1>8. \A inode : <<inode, "delete">> \in notes => inode = fs[p].inode
  BY InParentIs, NoteIs
<1> HIDE DEF notes, unnoticed, records
<1>9. \A x : ~Arrives(x)
  BY <1>3 DEF Arrives
<1>10. \A x : Leaves(x) => x = p
  BY <1>1, <1>3 DEF Leaves
<1>11. p \notin DOMAIN fs'
  BY <1>3
<1>12. \A inode : <<inode, "delete">> \in notes =>
          \E x \in DOMAIN fs : fs[x].inode = inode /\ (x \in DOMAIN fs' => fs'[x].inode # inode)
  BY <1>4, <1>8, <1>11
<1>13. \A x \in DOMAIN fs \cap DOMAIN fs' : fs'[x] = fs[x]
  BY <1>3
<1>14. Noticed(notes)
  BY <1>2, <1>5, <1>6, <1>7, <1>9, <1>10, <1>12, <1>13 DEF Noticed
<1> QED BY <1>1, <1>14

LEMMA MoveOutIsNoticed ==
  ASSUME TypeInv, NEW p \in Path, MoveOut(p)
  PROVE  \E notes, records, unnoticed : Changes(notes, records, unnoticed) /\ Noticed(notes)
<1> DEFINE unnoticed == Unnoticed(Tree(p), {})
           notes     == InParent(p) \cup {Note(p, "rename")}
           records   == <<Record1(p, "renamed")>>
<1>1. Changes(notes, records, unnoticed) /\ p \in DOMAIN fs /\ Tree(p) \cap Root \subseteq {p} \ Directory
  BY DEF MoveOut
<1>2. missed' = missed \cup unnoticed
  BY <1>1 DEF Changes
<1>3. DOMAIN fs' = DOMAIN fs \ Tree(p) /\ p \in Tree(p) /\ \A x \in DOMAIN fs' : fs'[x] = fs[x]
  BY UnlinkedThere DEF TypeInv
<1>4. \A x \in Tree(p) : BeingAdded(x) => x \in unnoticed
  BY UnnoticedIs
<1>5. ASSUME NEW x \in Tree(p), Front(x) \in Root PROVE Note(Front(x), "write") \in notes
  <2>1. x \in Path /\ x \in DOMAIN fs /\ Under(p, x) /\ x \in Seq(STRING) /\ x # << >> /\ p \in Seq(STRING)
    BY PathIs DEF Tree, TypeInv, FsTypes
  <2>2. Len(x) > 1
    BY <1>5, <2>1, PathIs, FrontIs, RootAssumption
  <2>3. Front(x) \in DOMAIN fs /\ Front(x) \in Directory
    BY <2>1, <2>2, FilesAssumption DEF TypeInv, FsTypes
  <2>4. CASE x = p
    BY <2>3, <2>4, InParentIs
  <2>5. CASE x # p
    <3>1. Front(x) \in Tree(p)
      BY <2>1, <2>3, <2>5, UnderFront DEF Tree
    <3> QED BY <1>1, <1>5, <2>3, <3>1
  <2> QED BY <2>4, <2>5
<1>6. \A x \in Tree(p) : x \in Root => x \notin Directory /\ Note(x, "rename") \in notes
  BY <1>1
<1>7. \A inode : <<inode, "delete">> \notin notes
  <2>1. \A inode : Note(p, "rename") # <<inode, "delete">>
    BY DEF Note
  <2> QED BY <2>1, InParentIs
<1> HIDE DEF notes, unnoticed, records
<1>8. \A x : ~Arrives(x)
  BY <1>3 DEF Arrives
<1>9. \A x : Leaves(x) => x \in Tree(p)
  BY <1>3 DEF Leaves
<1>10. \A x \in DOMAIN fs \cap DOMAIN fs' : fs'[x] = fs[x]
  BY <1>3
<1>11. Noticed(notes)
  BY <1>2, <1>4, <1>5, <1>6, <1>7, <1>8, <1>9, <1>10 DEF Noticed
<1> QED BY <1>1, <1>11

LEMMA RenameIsNoticed ==
  ASSUME TypeInv, NEW p \in Path, NEW q \in Path, Rename(p, q)
  PROVE  \E notes, records, unnoticed : Changes(notes, records, unnoticed) /\ Noticed(notes)
<1> DEFINE to        == Moved(p, q)
           unnoticed == Unnoticed({p, q}, to) \cup ((Tree(p) \cup to \cup Overtaken(p, q)) \ {p, q})
           deleted   == {Note(x, "delete") : x \in {q} \cap DOMAIN fs}
           notes     == InParent(p) \cup InParent(q) \cup {Note(p, "rename")} \cup deleted
           records   == <<Record1(p, "renamed"), Record1(q, "renamed")>>
<1>1. Changes(notes, records, unnoticed) /\ p \in DOMAIN fs /\ Front(q) \in DOMAIN fs /\ p \notin Root \cap Directory
  BY DEF Rename, Moved
<1>2. missed' = missed \cup unnoticed
  BY <1>1 DEF Changes
<1>3. /\ DOMAIN fs' = (DOMAIN fs \ Tree(p)) \cup to
      /\ p \in Tree(p) /\ q \in to /\ to \subseteq Path /\ to \cap Tree(p) = {}
      /\ \A y \in DOMAIN fs' \ to : fs'[y] = fs[y]
      /\ \A y \in to : \E x \in Tree(p) : fs'[y] = fs[x]
      /\ fs'[q] = fs[p]
  BY RenamedThere DEF TypeInv
<1>4. /\ \A x \in {p, q} : BeingAdded(x) => x \in unnoticed
      /\ \A x \in to, y \in Path : Undelivered(x) /\ Under(x, y) => y \in unnoticed
      /\ (Tree(p) \cup to) \ {p, q} \subseteq unnoticed
  BY UnnoticedIs
<1>5. Note(Front(q), "write") \in notes
  BY <1>1, InParentIs
<1>6. Front(p) \in Root => Note(Front(p), "write") \in notes
  <2> SUFFICES ASSUME Front(p) \in Root PROVE Front(p) \in DOMAIN fs
    BY InParentIs
  <2>1. Len(p) > 1
    BY PathIs, FrontIs, RootAssumption
  <2> QED BY <1>1, <2>1 DEF TypeInv, FsTypes
<1>7. Note(p, "rename") \in notes
  OBVIOUS
<1>8. \A inode : <<inode, "delete">> \in notes => q \in DOMAIN fs /\ inode = fs[q].inode
  BY InParentIs, NoteIs
<1>9. Tree(p) \subseteq DOMAIN fs
  BY DEF Tree
<1> HIDE DEF notes, unnoticed, records, to
<1>10. \A x : Arrives(x) => x \in to
  BY <1>3 DEF Arrives
<1>11. \A x : Leaves(x) => x \in Tree(p)
  BY <1>3 DEF Leaves
<1>12. \A x \in DOMAIN fs \cap to : fs'[x].inode # fs[x].inode
  BY <1>3, <1>9 DEF TypeInv, FsTypes
<1>13. \A inode : <<inode, "delete">> \in notes =>
          \E x \in DOMAIN fs : fs[x].inode = inode /\ (x \in DOMAIN fs' => fs'[x].inode # inode)
  BY <1>3, <1>8, <1>12
<1>14. \A x \in DOMAIN fs \cap DOMAIN fs' : fs'[x].inode = fs[x].inode => fs'[x] = fs[x]
  BY <1>3, <1>12
<1>15. ASSUME NEW x \in to
       PROVE  /\ Undelivered(x) => \A y \in Path : Under(x, y) => y \in missed'
              /\ x \in missed' \/ (~BeingAdded(x) /\ (Len(x) > 1 => Note(Front(x), "write") \in notes))
  <2>1. x # p
    BY <1>3
  <2>2. x = q \/ x \in missed'
    BY <1>2, <1>4, <2>1
  <2> QED BY <1>2, <1>4, <1>5, <2>2
<1>16. ASSUME NEW x \in Tree(p)
       PROVE  \/ x \in missed'
              \/ /\ ~BeingAdded(x)
                 /\ Front(x) \in Root => Note(Front(x), "write") \in notes
                 /\ x \in Root => Note(x, "delete") \in notes \/ (x \notin Directory /\ Note(x, "rename") \in notes)
  <2>1. x # q
    BY <1>3
  <2>2. x = p \/ x \in missed'
    BY <1>2, <1>4, <2>1
  <2> QED BY <1>1, <1>2, <1>4, <1>6, <1>7, <2>2
<1>17. Noticed(notes)
  BY <1>10, <1>11, <1>13, <1>14, <1>15, <1>16 DEF Noticed
<1> QED BY <1>1, <1>17

LEMMA ChangeIsNoticed ==
  ASSUME TypeInv, FsStep
  PROVE  \E notes, records, unnoticed : Changes(notes, records, unnoticed) /\ Noticed(notes)
BY CreationIsNoticed, WriteIsNoticed, UnlinkIsNoticed, MoveOutIsNoticed, RenameIsNoticed DEF FsStep

\* What the notes are for r: they are not forgotten, and what the change raises is there.
LEMMA NotesOfChange ==
  ASSUME TypeInv, NEW notes, NEW records, NEW unnoticed, Changes(notes, records, unnoticed), NEW fd \in DOMAIN kernel
  PROVE  /\ kernel'[fd].inode = kernel[fd].inode /\ kernel'[fd].interest = kernel[fd].interest
         /\ \A n : Noted(fd, n) => Noted(fd, n)'
         /\ \A n : Noted(fd, n)' => Noted(fd, n) \/ <<kernel[fd].inode, n>> \in notes
         /\ \A n \in kernel[fd].interest : <<kernel[fd].inode, n>> \in notes => Noted(fd, n)'
<1>1. /\ DOMAIN kernel' = DOMAIN kernel
      /\ kernel'[fd].inode = kernel[fd].inode /\ kernel'[fd].interest = kernel[fd].interest
      /\ kernel'[fd].active = kernel[fd].active
            \cup {n \in kernel[fd].interest : <<kernel[fd].inode, n>> \in notes}
  BY NotesRaised DEF TypeInv
<1>2. lp' = lp
  BY DEF Changes, loopVars
<1> QED BY <1>1, <1>2 DEF Noted

LEMMA FilesKeepFollowed ==
  ASSUME TypeInv, TypeInv', FsStep, NEW r \in DOMAIN m_kqWatches, Alone(r), Followed1(r)
  PROVE  Followed1(r)'
<1>1. PICK notes, records, unnoticed : Changes(notes, records, unnoticed) /\ Noticed(notes)
  BY ChangeIsNoticed
<1> DEFINE it  == It(r)
           fds == it.childFileFds
<1>2. UNCHANGED <<item, m_kqWatches, lp, m_pendingEvents, mirror>> /\ missed \subseteq missed'
  BY <1>1 DEF Changes, loopVars
<1>3. It(r)' = It(r) /\ Queue(r)' = Queue(r) /\ (Syncing(r)' <=> Syncing(r)) /\ (Scanning(r)' <=> Scanning(r))
  BY <1>2 DEF It, Queue, Dispatching, Found, Syncing, Scanning
<1>4. r \in Path /\ r \in Root /\ \A p \in Child(r) : p \in Path /\ Front(p) = r /\ Len(p) > 1
  BY AroundIs, ChildIs DEF Child, Alone
<1>5. \A fd \in Fds(r) : fd \in DOMAIN kernel
  BY WatchedItem DEF Fds
<1>6. \A fd \in Fds(r) :
         /\ kernel'[fd].inode = kernel[fd].inode /\ kernel'[fd].interest = kernel[fd].interest
         /\ \A n : Noted(fd, n) => Noted(fd, n)'
         /\ \A n : Noted(fd, n)' => Noted(fd, n) \/ <<kernel[fd].inode, n>> \in notes
         /\ \A n \in kernel[fd].interest : <<kernel[fd].inode, n>> \in notes => Noted(fd, n)'
  BY <1>1, <1>5, NotesOfChange
<1>7. it.fd \in Fds(r) /\ \A p \in DOMAIN fds : fds[p] \in Fds(r)
  BY DEF Fds
<1>8. kernel[it.fd].interest = {"write", "delete", "rename"}
  BY DEF Followed1, RootOpen, Interest
<1>9. Undelivered(r) /\ \A p \in DOMAIN it.children : Undelivered(p)
  BY DEF Undelivered, It
<1>10. Departed(r)'
  <2>1. \A p : Absent(r, p) => Absent(r, p)'
    BY <1>2, <1>3 DEF Absent
  <2> QED BY <1>2, <1>3, <2>1 DEF Followed1, Departed, Child
<1>11. ~Syncing(r)' => DOMAIN It(r)'.childFileFds \subseteq DOMAIN It(r)'.children
  BY <1>3 DEF Followed1, ChildrenOpen
<1>12. kernel'[it.fd].interest = Interest(r) /\ Interest(r)' = Interest(r)
  BY <1>6, <1>7 DEF Followed1, RootOpen, Interest
<1>13. CASE \A y \in Path : Under(r, y) => y \in missed'
  <2>1. \A p \in Around(r) : p \in missed'
    BY <1>13, AroundIs
  <2>2. r \in missed' /\ \A p \in Child(r) : p \in missed'
    BY <2>1 DEF Around
  <2>3. Remaining(r)' = {}
    BY <2>2 DEF Remaining, Child
  <2>4. Snapshot(r)' /\ Entered(r)' /\ RootTold(r)'
    BY <2>2, <2>3 DEF Snapshot, Entered, RootTold, Child
  <2>5. RootOpen(r)'
    BY <1>3, <1>12, <1>13 DEF RootOpen, AllMissed
  <2>6. ChildrenOpen(r)'
    BY <1>11, <2>3 DEF ChildrenOpen
  <2> QED BY <1>10, <2>4, <2>5, <2>6 DEF Followed1
<1>14. CASE ~\A y \in Path : Under(r, y) => y \in missed'
  <2>1. r \in DOMAIN fs => kernel[it.fd].inode = fs[r].inode
    BY <1>2, <1>14 DEF Followed1, RootOpen, AllMissed
  <2>2. r \in DOMAIN fs' => r \in DOMAIN fs /\ fs'[r].inode = fs[r].inode
    BY <1>1, <1>4, <1>9, <1>14 DEF Noticed, Arrives
  <2>3. \A p \in DOMAIN it.children \ missed' : p \in DOMAIN fs' => p \in DOMAIN fs /\ fs'[p].inode = fs[p].inode
    <3> SUFFICES ASSUME NEW p \in DOMAIN it.children \ missed', Arrives(p) PROVE FALSE
      BY DEF Arrives
    <3>1. p \in Path /\ p \in Seq(STRING)
      BY <1>4, WatchedItem, PathIs
    <3>2. Under(p, p)
      BY <3>1, UnderIsOrder
    <3> QED BY <1>1, <1>9, <3>1, <3>2 DEF Noticed
  <2>4. Snapshot(r)'
    <3> SUFFICES ASSUME NEW p \in Child(r) \ missed' PROVE DirNoted(r)' \/ (p \in DOMAIN it.children <=> p \in DOMAIN fs')
      BY <1>3 DEF Snapshot, Child
    <3>1. CASE DirNoted(r)
      BY <1>3, <1>6, <1>7, <3>1 DEF DirNoted
    <3>2. CASE ~DirNoted(r) /\ (p \in DOMAIN fs <=> p \in DOMAIN fs')
      BY <1>2, <3>2 DEF Followed1, Snapshot
    <3>3. CASE ~(p \in DOMAIN fs <=> p \in DOMAIN fs')
      <4>1. Note(r, "write") \in notes
        BY <1>1, <1>4, <3>3 DEF Noticed, Arrives, Leaves
      <4>2. r \in DOMAIN fs
        BY <1>4, <2>2, <3>3 DEF TypeInv, FsTypes
      <4>3. <<kernel[it.fd].inode, "write">> \in notes
        BY <2>1, <4>1, <4>2 DEF Note
      <4>4. DirNoted(r)'
        BY <1>3, <1>6, <1>7, <1>8, <4>3 DEF DirNoted
      <4> QED BY <4>4
    <3> QED BY <3>1, <3>2, <3>3
  <2>5. Remaining(r)' \subseteq Remaining(r) \ missed' /\ Remaining(r)' \subseteq DOMAIN fs' /\ Remaining(r) \subseteq DOMAIN fs
        /\ Remaining(r) \subseteq Child(r) \cap DOMAIN it.children
    BY <1>2, <1>3, <2>3 DEF Remaining, Child
  <2>6. \A p \in Remaining(r)' : fs'[p].inode = fs[p].inode
    BY <2>3, <2>5
  <2>7. Entered(r)'
    <3> SUFFICES ASSUME NEW p \in Remaining(r)' PROVE Present(r, p, ChildNoted(r, p))'
      BY DEF Entered
    <3>1. /\ p \in Remaining(r) /\ p \in DOMAIN fs /\ p \in DOMAIN fs' /\ fs'[p].inode = fs[p].inode
          /\ Present(r, p, ChildNoted(r, p))
      BY <2>5, <2>6 DEF Followed1, Entered
    <3>2. ChildNoted(r, p) => ChildNoted(r, p)'
      BY <1>3, <1>6, <1>7 DEF ChildNoted
    <3>3. CASE fs'[p] = fs[p]
      BY <1>2, <1>3, <3>1, <3>2, <3>3 DEF Present
    <3>4. CASE fs'[p] # fs[p]
      <4>1. p \notin Directory /\ <<fs[p].inode, "write">> \in notes
        BY <1>1, <3>1, <3>4 DEF Noticed, Note
      <4>2. ChildOpen(r, p) \/ (Syncing(r) /\ Given(lp.batch, p))
        BY <3>1, <4>1 DEF Followed1, ChildrenOpen
      <4>3. CASE ChildOpen(r, p)
        <5>1. p \in DOMAIN fds /\ kernel[fds[p]].interest = {"write"} /\ kernel[fds[p]].inode = fs[p].inode
          BY <4>3 DEF ChildOpen
        <5>2. ChildNoted(r, p)'
          BY <1>3, <1>6, <1>7, <4>1, <5>1 DEF ChildNoted
        <5> QED BY <1>2, <1>3, <3>1, <5>2 DEF Present
      <4>4. CASE Syncing(r) /\ Given(lp.batch, p)
        <5> DEFINE q == Dispatching \o m_pendingEvents
        <5>1. q \in Seq(Queued) /\ lp.batch \in Seq(Queued) /\ Queue(r) = q \o lp.batch
          <6>1. Dispatching \in Seq(Queued) /\ m_pendingEvents \in Seq(Queued)
            BY QueueIs
          <6>2. lp.batch \in Seq(Queued)
            BY DEF TypeInv, QueueTypes
          <6>3. Found(r) = lp.batch
            BY <4>4 DEF Found
          <6>4. \A a, b \in Seq(Queued) : a \o b \in Seq(Queued)
            OBVIOUS
          <6> QED BY <6>1, <6>2, <6>3, <6>4 DEF Queue
        <5> HIDE DEF q
        <5>2. Given(Queue(r), p)
          BY <4>4, <5>1, SaidTogether
        <5> QED BY <1>3, <5>2 DEF Present
      <4> QED BY <4>2, <4>3, <4>4
    <3> QED BY <3>3, <3>4
  <2>8. RootOpen(r)'
    BY <1>3, <1>6, <1>7, <1>12, <2>1, <2>2 DEF RootOpen
  <2>9. ChildrenOpen(r)'
    <3>1. ASSUME NEW p \in Remaining(r)' \ Directory
          PROVE  ChildOpen(r, p)' \/ (Syncing(r)' /\ p \notin DOMAIN It(r)'.childFileFds /\ Given(lp'.batch, p))
      <4>1. p \in Remaining(r) \ Directory /\ fs'[p].inode = fs[p].inode
        BY <2>5, <2>6, <3>1
      <4>2. ChildOpen(r, p) \/ (Syncing(r) /\ p \notin DOMAIN fds /\ Given(lp.batch, p))
        BY <4>1 DEF Followed1, ChildrenOpen
      <4>3. CASE ChildOpen(r, p)
        <5>1. p \in DOMAIN fds /\ kernel'[fds[p]].interest = {"write"} /\ kernel'[fds[p]].inode = fs[p].inode
          BY <1>6, <1>7, <4>3 DEF ChildOpen
        <5> QED BY <1>3, <4>1, <5>1 DEF ChildOpen
      <4> QED BY <1>2, <1>3, <4>2, <4>3
    <3> QED BY <1>11, <3>1 DEF ChildrenOpen
  <2>10. RootTold(r)'
    <3> SUFFICES ASSUME r \notin missed'
                 PROVE  IF r \in DOMAIN fs' THEN ~EndNoted(r)' /\ Present(r, r, RootNoted(r))'
                        ELSE EndNoted(r)' \/ RenameNoted(r)' \/ r \notin DOMAIN mirror' \/ Ended(Queue(r), r)'
      BY DEF RootTold
    <3>1. /\ EndNoted(r) => EndNoted(r)'
          /\ RenameNoted(r) => RenameNoted(r)'
          /\ RootNoted(r) => RootNoted(r)'
          /\ EndNoted(r)' => EndNoted(r) \/ <<kernel[it.fd].inode, "delete">> \in notes
      BY <1>2, <1>3, <1>6, <1>7 DEF EndNoted, RenameNoted, RootNoted
    <3>2. CASE r \in DOMAIN fs'
      <4>1. r \in DOMAIN fs /\ fs'[r].inode = fs[r].inode /\ kernel[it.fd].inode = fs[r].inode
        BY <2>1, <2>2, <3>2
      <4>2. ~EndNoted(r) /\ Present(r, r, RootNoted(r))
        BY <1>2, <4>1 DEF Followed1, RootTold
      <4>3. <<fs[r].inode, "delete">> \notin notes
        BY <1>1, <3>2, <4>1 DEF Noticed, TypeInv, FsTypes
      <4>4. CASE fs'[r] = fs[r]
        BY <1>2, <1>3, <3>1, <3>2, <4>1, <4>2, <4>3, <4>4 DEF Present
      <4>5. CASE fs'[r] # fs[r]
        <5>1. r \notin Directory /\ <<kernel[it.fd].inode, "write">> \in notes
          BY <1>1, <3>2, <4>1, <4>5 DEF Noticed, Note
        <5>2. RootNoted(r)'
          BY <1>3, <1>6, <1>7, <1>8, <5>1 DEF RootNoted
        <5> QED BY <1>2, <1>3, <3>1, <3>2, <4>1, <4>2, <4>3, <5>2 DEF Present
      <4> QED BY <4>4, <4>5
    <3>3. CASE r \notin DOMAIN fs' /\ r \notin DOMAIN fs
      <4>1. EndNoted(r) \/ RenameNoted(r) \/ r \notin DOMAIN mirror \/ Ended(Queue(r), r)
        BY <1>2, <3>3 DEF Followed1, RootTold
      <4> QED BY <1>2, <1>3, <3>1, <3>3, <4>1
    <3>4. CASE r \notin DOMAIN fs' /\ r \in DOMAIN fs
      <4>1. Note(r, "delete") \in notes \/ (r \notin Directory /\ Note(r, "rename") \in notes)
        BY <1>1, <1>4, <3>4 DEF Noticed, Leaves
      <4>2. <<kernel[it.fd].inode, "delete">> \in notes
            \/ (r \notin Directory /\ <<kernel[it.fd].inode, "rename">> \in notes)
        BY <2>1, <3>4, <4>1 DEF Note
      <4>3. EndNoted(r)' \/ RenameNoted(r)'
        BY <1>3, <1>6, <1>7, <1>8, <4>2 DEF EndNoted, RenameNoted
      <4> QED BY <3>4, <4>3
    <3> QED BY <3>2, <3>3, <3>4
  <2> QED BY <1>10, <2>4, <2>7, <2>8, <2>9, <2>10 DEF Followed1
<1> QED BY <1>13, <1>14

LEMMA FilesKeepFresh ==
  ASSUME TypeInv, TypeInv', FsStep, NEW r, Alone(r), Fresh1(r)
  PROVE  Fresh1(r)'
<1>1. PICK notes, records, unnoticed : Changes(notes, records, unnoticed) /\ Noticed(notes)
  BY ChangeIsNoticed
<1>2. UNCHANGED call /\ missed \subseteq missed'
  BY <1>1 DEF Changes
<1>3. r \in Path /\ \A p \in Child(r) : p \in Path /\ Front(p) = r
  BY AroundIs DEF Around, Child
<1> SUFFICES ASSUME NEW th \in Thread, call[th].at = "scanned", call[th].item.path = r
             PROVE  LET it == call[th].item IN
                    /\ r \in DOMAIN fs' => kernel'[it.fd].inode = fs'[r].inode \/ AllMissed(r)'
                    /\ r \in missed' \/ r \in DOMAIN fs'
                    /\ \A p \in Child(r) \ missed' : p \in DOMAIN it.children <=> p \in DOMAIN fs'
  BY <1>2 DEF Fresh1, Child, Thread
<1> DEFINE it == call[th].item
<1>4. /\ r \in DOMAIN fs => kernel[it.fd].inode = fs[r].inode \/ AllMissed(r)
      /\ r \in missed \/ r \in DOMAIN fs
      /\ \A p \in Child(r) \ missed : p \in DOMAIN it.children <=> p \in DOMAIN fs
  BY DEF Fresh1
<1>5. kernel'[it.fd].inode = kernel[it.fd].inode
  <2>1. it.fd \in DOMAIN kernel
    BY DEF TypeInv, KqInv, Scanned, Apart
  <2> QED BY <1>1, <2>1, NotesOfChange
<1>6. Undelivered(r) /\ BeingAdded(r) /\ \A p \in Child(r) : BeingAdded(p)
  BY <1>3 DEF Undelivered, BeingAdded
<1> HIDE DEF it
<1>7. r \in DOMAIN fs' => kernel'[it.fd].inode = fs'[r].inode \/ AllMissed(r)'
  <2>1. CASE Arrives(r)
    BY <1>1, <1>3, <1>6, <2>1 DEF Noticed, AllMissed
  <2>2. CASE ~Arrives(r)
    BY <1>2, <1>4, <1>5, <2>2 DEF Arrives, AllMissed
  <2> QED BY <2>1, <2>2
<1>8. r \in missed' \/ r \in DOMAIN fs'
  BY <1>1, <1>2, <1>3, <1>4, <1>6 DEF Noticed, Leaves
<1>9. \A p \in Child(r) \ missed' : p \in DOMAIN it.children <=> p \in DOMAIN fs'
  BY <1>1, <1>2, <1>3, <1>4, <1>6 DEF Noticed, Leaves, Arrives
<1> QED BY <1>7, <1>8, <1>9 DEF it

-----------------------------------------------------------------------------
(* Who follows r has it.                                                    *)

LEMMA MirrorAtFirst == ASSUME Init, NEW r PROVE MirrorInv(r)
<1>1. m_kqWatches = << >> /\ call = [th \in Thread |-> Idle]
  BY DEF Init, KqInit
<1>2. r \notin DOMAIN m_kqWatches /\ \A th \in Thread : call[th].at # "scanned"
  BY <1>1 DEF Idle
<1> QED BY <1>2 DEF MirrorInv, Fresh1

LEMMA MirrorInductive ==
  ASSUME TypeInv, TypeInv', [Next]_vars, NEW r, Alone(r), MirrorInv(r)
  PROVE  MirrorInv(r)'
<1>1. CASE FsStep
  <2>1. m_kqWatches' = m_kqWatches
    BY <1>1, ChangeIsNoticed DEF Changes
  <2> QED BY <1>1, <2>1, FilesKeepFollowed, FilesKeepFresh DEF MirrorInv
<1>2. CASE Next /\ ~FsStep
  BY <1>2, MirrorKept
<1>3. CASE UNCHANGED vars
  <2>1. UNCHANGED <<fs, kernel, item, m_kqWatches, m_pendingEvents, lp, call, mirror, missed>>
    BY <1>3 DEF vars, kqVars, tables, loopVars, userVars
  <2>2. Followed1(r) => Followed1(r)'
    BY <2>1 DEF Followed1, Snapshot, Departed, Entered, RootOpen, ChildrenOpen, RootTold, Remaining, ChildOpen,
                Present, Absent, AllMissed, DirNoted, EndNoted, RootNoted, RenameNoted, ChildNoted, Noted, It,
                Queue, Dispatching, Found, Scanning, Syncing, Child, Interest
  <2>3. Fresh1(r) => Fresh1(r)'
    BY <2>1 DEF Fresh1, AllMissed, Child, Thread
  <2> QED BY <2>1, <2>2, <2>3 DEF MirrorInv
<1> QED BY <1>1, <1>2, <1>3

\* When nothing is on its way, the copies are right.
LEMMA QuietMirror ==
  ASSUME TypeInv, Quiescent, NEW r \in DOMAIN m_kqWatches, Alone(r), Followed1(r), NEW p \in Around(r)
  PROVE  InSync(mirror, p) \/ p \in missed
<1>1. lp.at = "kevent" /\ Active = {} /\ m_pendingEvents = << >>
  BY DEF Quiescent
<1>2. lp.events = {} /\ ~Syncing(r) /\ ~Scanning(r)
  BY <1>1 DEF TypeInv, QueueTypes, Syncing, Scanning
<1>3. \A fd, n : ~Noted(fd, n)
  BY <1>1, <1>2 DEF Noted, Active
<1>4. ~DirNoted(r) /\ ~EndNoted(r) /\ ~RootNoted(r) /\ ~RenameNoted(r) /\ \A x : ~ChildNoted(r, x)
  BY <1>2, <1>3 DEF DirNoted, EndNoted, RootNoted, RenameNoted, ChildNoted
<1>5. Queue(r) = << >>
  BY <1>1, <1>2 DEF Queue, Dispatching, Found
<1>6. \A x : ~Given(Queue(r), x) /\ ~Taken(Queue(r), x) /\ ~Ended(Queue(r), x)
  BY <1>5, SaidByNone
<1> SUFFICES ASSUME p \notin missed PROVE InSync(mirror, p)
  OBVIOUS
<1>7. CASE p = r
  <2>1. IF r \in DOMAIN fs THEN Present(r, r, RootNoted(r)) ELSE r \notin DOMAIN mirror
    BY <1>4, <1>6, <1>7 DEF Followed1, RootTold
  <2> QED BY <1>4, <1>6, <1>7, <2>1 DEF Present, InSync
<1>8. CASE p \in Child(r)
  <2>1. p \in DOMAIN It(r).children <=> p \in DOMAIN fs
    BY <1>4, <1>8 DEF Followed1, Snapshot
  <2>2. CASE p \in DOMAIN fs
    <3>1. Present(r, p, ChildNoted(r, p))
      BY <1>8, <2>1, <2>2 DEF Followed1, Entered, Remaining
    <3> QED BY <1>4, <1>6, <2>2, <3>1 DEF Present, InSync
  <2>3. CASE p \notin DOMAIN fs
    <3>1. Absent(r, p)
      BY <1>8, <2>1, <2>3 DEF Followed1, Departed
    <3> QED BY <1>6, <2>3, <3>1 DEF Absent, InSync
  <2> QED BY <2>2, <2>3
<1> QED BY <1>7, <1>8 DEF Around

\* Where no path watched by kqueue overlaps another root, whatever the files, the threads,
\* their calls and the bounds: who follows the events of such a path, of a file or of a
\* directory, has it as it is, entries and contents, once all is quiet, except for what
\* missed names.
THEOREM KqueueIsFollowed ==
  ASSUME \A r \in Root \ RecursiveRoot : \A t \in Root \ {r} : ~Under(r, t) /\ ~Under(t, r)
  PROVE  Spec => []KqMirror
<1> DEFINE Inv == TypeInv /\ \A r \in Root \ RecursiveRoot : MirrorInv(r)
<1>1. \A r \in Root \ RecursiveRoot : Alone(r)
  BY DEF Alone
<1>2. Init => Inv
  BY TypesAtFirst, MirrorAtFirst
<1>3. Inv /\ [Next]_vars => Inv'
  <2> SUFFICES ASSUME Inv, [Next]_vars PROVE Inv'
    OBVIOUS
  <2>1. TypeInv'
    BY TypesInductive
  <2>2. \A r \in Root \ RecursiveRoot : MirrorInv(r)'
    BY <1>1, <2>1, MirrorInductive
  <2> QED BY <2>1, <2>2
<1>4. Inv => KqMirror
  <2> SUFFICES ASSUME Inv, Quiescent, NEW r \in DOMAIN m_kqWatches,
                      NEW p \in {r} \cup {p \in Path : r \in Directory /\ Front(p) = r}
               PROVE  InSync(mirror, p) \/ p \in missed
    BY DEF KqMirror
  <2>1. r \in Root \ RecursiveRoot
    BY WatchedItem DEF TypeInv, ItemTypes, OfItem, It
  <2>2. p \in Around(r)
    BY DEF Around, Child
  <2>3. Followed1(r) /\ Alone(r)
    BY <1>1, <2>1 DEF MirrorInv
  <2> QED BY <2>2, <2>3, QuietMirror
<1> HIDE DEF Inv
<1> QED BY <1>2, <1>3, <1>4, PTL DEF Spec

===============================================================================
