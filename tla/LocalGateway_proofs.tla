------------------------ MODULE LocalGateway_proofs ------------------------
(***************************************************************************)
(* Proofs about LocalGateway, for any contents, any limits of the queue,   *)
(* of its age and of the retry delay, any number of events and of deaths   *)
(* of the process.                                                         *)
(*                                                                         *)
(* Up to three copies of an event exist at a time: in the queue, in the    *)
(* file and in the copy of the queue being written.  The invariant says    *)
(* how they agree.                                                         *)
(***************************************************************************)
EXTENDS LocalGateway, FiniteSetTheorems, SequenceTheorems, TLAPS

Fates == {"kept", "aged", "displaced"}

\* Events are in the order of their ids, the oldest first.
Increasing(q) ==
    \A i, j \in 1 .. Len(q) : i < j => q[i].id < q[j].id /\ q[j].age =< q[i].age

Before(q, n) == \A i \in 1 .. Len(q) : q[i].id < n

\* What was discarded for its age is too old wherever it is still to be found.
GoneOld(q, f) == \A i \in 1 .. Len(q) : f[q[i].id] = "aged" => q[i].age > BufferAge

Good(q, n, f) == Len(q) =< MaxQueue /\ Increasing(q) /\ Before(q, n) /\ GoneOld(q, f)

SameAges(p, q) ==
    \A i \in 1 .. Len(p), j \in 1 .. Len(q) : p[i].id = q[j].id => p[i].age = q[j].age

\* What is in q and not stored comes after all that is.
WellAhead(q, r) == \A i \in 1 .. Len(q) : q[i].id \in r \/ \A k \in r : k < q[i].id

\* The same, but for what the next flush discards.
Ahead(q, r) ==
    \A i \in 1 .. Len(q) : q[i].id \in r \/ q[i].age > BufferAge \/ \A k \in r : k < q[i].id

\* s is what is left of q when events at its head are gone.
Suffix(s, q) ==
    \E c \in 0 .. Len(q) : Len(s) = Len(q) - c /\ \A i \in 1 .. Len(s) : s[i] = q[c + i]

-----------------------------------------------------------------------------
(***************************************************************************)
(* What the operators on queues return.                                    *)
(***************************************************************************)
LEMMA Numbers ==
    /\ MaxQueue \in Nat /\ MaxQueue > 0 /\ SaveEvery \in Nat /\ DedupeSpan \in Nat
    /\ MaxDelay \in Nat /\ MaxDelay > 0 /\ Bucket \in Nat /\ Bucket > 0
    /\ BufferAge \in Nat /\ MaxEvents \in Nat /\ MaxRestarts \in Nat
  BY BoundsAssumption

LEMMA Entries ==
    ASSUME NEW q \in Seq(Entry)
    PROVE  /\ Len(q) \in Nat /\ DOMAIN q = 1 .. Len(q)
           /\ \A i \in 1 .. Len(q) : /\ q[i] \in Entry /\ q[i].id \in Ids /\ q[i].age \in Nat
                                     /\ q[i].id \in Nat /\ q[i].age =< BufferAge + 1
<1>1. \A e \in Entry : e.id \in Ids /\ e.age \in Nat /\ e.id \in Nat /\ e.age =< BufferAge + 1
  BY Numbers DEF Entry, Ids
<1>2. Len(q) \in Nat /\ DOMAIN q = 1 .. Len(q) /\ \A i \in 1 .. Len(q) : q[i] \in Entry
  OBVIOUS
<1> QED
  BY <1>1, <1>2

LEMMA SuffixKeeps ==
    ASSUME NEW q \in Seq(Entry), NEW s \in Seq(Entry), Suffix(s, q)
    PROVE  /\ Len(s) =< Len(q)
           /\ \A i \in 1 .. Len(s) : \E j \in 1 .. Len(q) : s[i] = q[j]
           /\ IdsOf(s) \subseteq IdsOf(q)
           /\ Increasing(q) => Increasing(s)
           /\ \A n : Before(q, n) => Before(s, n)
           /\ \A f : GoneOld(q, f) => GoneOld(s, f)
           /\ \A n, f : Good(q, n, f) => Good(s, n, f)
           /\ \A l : SameAges(q, l) => SameAges(s, l)
           /\ \A r : Ahead(q, r) => Ahead(s, r)
           /\ \A r : WellAhead(q, r) => WellAhead(s, r)
<1>1. PICK c \in 0 .. Len(q) : Len(s) = Len(q) - c /\ \A i \in 1 .. Len(s) : s[i] = q[c + i]
  BY DEF Suffix
<1>2. Len(q) \in Nat /\ Len(s) \in Nat /\ c \in Nat
  OBVIOUS
<1>3. \A i \in 1 .. Len(s) : c + i \in 1 .. Len(q) /\ s[i] = q[c + i]
  BY <1>1, <1>2
<1>4. \A i \in 1 .. Len(s) : \E j \in 1 .. Len(q) : s[i] = q[j]
  BY <1>3
<1>5. Increasing(q) => Increasing(s)
  <2>1. SUFFICES ASSUME Increasing(q), NEW i \in 1 .. Len(s), NEW j \in 1 .. Len(s), i < j
                 PROVE  s[i].id < s[j].id /\ s[j].age =< s[i].age
    BY DEF Increasing
  <2>2. c + i \in 1 .. Len(q) /\ c + j \in 1 .. Len(q) /\ c + i < c + j /\ s[i] = q[c + i] /\ s[j] = q[c + j]
    BY <1>2, <1>3, <2>1
  <2> QED
    BY <2>1, <2>2 DEF Increasing
<1>6. Len(s) =< Len(q)
  BY <1>1, <1>2
<1>7. \A n, f : Good(q, n, f) => Good(s, n, f)
  <2>1. \A n, f : Before(q, n) /\ GoneOld(q, f) => Before(s, n) /\ GoneOld(s, f)
    BY <1>4 DEF Before, GoneOld
  <2>2. Len(q) =< MaxQueue => Len(s) =< MaxQueue
    BY <1>2, <1>6, Numbers
  <2> QED
    BY <1>5, <2>1, <2>2 DEF Good
<1>8. IdsOf(s) \subseteq IdsOf(q)
  BY <1>4 DEF IdsOf
<1>10. (\A n : Before(q, n) => Before(s, n)) /\ \A f : GoneOld(q, f) => GoneOld(s, f)
  BY <1>4 DEF Before, GoneOld
<1>9. /\ \A l : SameAges(q, l) => SameAges(s, l)
      /\ \A r : Ahead(q, r) => Ahead(s, r)
      /\ \A r : WellAhead(q, r) => WellAhead(s, r)
  <2>1. \A l : SameAges(q, l) => SameAges(s, l)
    BY <1>4 DEF SameAges
  <2>2. \A r : Ahead(q, r) => Ahead(s, r)
    BY <1>4 DEF Ahead
  <2>3. \A r : WellAhead(q, r) => WellAhead(s, r)
    BY <1>4 DEF WellAhead
  <2> QED
    BY <2>1, <2>2, <2>3
<1> QED
  BY <1>4, <1>5, <1>6, <1>7, <1>8, <1>9, <1>10

LEMMA SubSeqSuffix ==
    ASSUME NEW q \in Seq(Entry), NEW c \in 0 .. Len(q)
    PROVE  /\ SubSeq(q, c + 1, Len(q)) \in Seq(Entry)
           /\ Len(SubSeq(q, c + 1, Len(q))) = Len(q) - c
           /\ \A i \in 1 .. Len(q) - c : SubSeq(q, c + 1, Len(q))[i] = q[c + i]
           /\ Suffix(SubSeq(q, c + 1, Len(q)), q)
<1>1. Len(q) \in Nat /\ c \in Nat /\ c + 1 \in Int /\ \A i \in c + 1 .. Len(q) : q[i] \in Entry
  BY Entries
<1>2. /\ SubSeq(q, c + 1, Len(q)) \in Seq(Entry)
      /\ Len(SubSeq(q, c + 1, Len(q))) = IF c + 1 <= Len(q) THEN Len(q) - (c + 1) + 1 ELSE 0
      /\ \A i \in 1 .. Len(q) - (c + 1) + 1 : SubSeq(q, c + 1, Len(q))[i] = q[c + 1 + i - 1]
  BY <1>1, SubSeqProperties
<1>3. Len(SubSeq(q, c + 1, Len(q))) = Len(q) - c
  BY <1>1, <1>2
<1>4. \A i \in 1 .. Len(q) - c : SubSeq(q, c + 1, Len(q))[i] = q[c + i]
  <2> TAKE i \in 1 .. Len(q) - c
  <2>1. i \in 1 .. Len(q) - (c + 1) + 1 /\ c + 1 + i - 1 = c + i
    BY <1>1
  <2> QED
    BY <1>2, <2>1
<1> QED
  BY <1>2, <1>3, <1>4 DEF Suffix

\* The events that a flush discards are the first so many.
LEMMA FreshFacts ==
    ASSUME NEW q \in Seq(Entry)
    PROVE  /\ Fresh(q) \in Seq(Entry) /\ Suffix(Fresh(q), q)
           /\ Fresh(q) # <<>> => Fresh(q)[1].age =< BufferAge
           /\ \A i \in 1 .. Len(q) : q[i].id \in IdsOf(Fresh(q)) \/ q[i].age > BufferAge
<1> DEFINE old == {i \in 1 .. Len(q) : \A j \in 1 .. i : q[j].age > BufferAge}
           c == Cardinality(old)
<1>1. Len(q) \in Nat
  OBVIOUS
<1>2. IsFiniteSet(1 .. Len(q)) /\ Cardinality(1 .. Len(q)) = Len(q)
  <2>1. 1 \in Int /\ Len(q) \in Int /\ (1 > Len(q) <=> Len(q) = 0) /\ Len(q) - 1 + 1 = Len(q)
    BY <1>1
  <2>2. /\ IsFiniteSet(1 .. Len(q))
        /\ Cardinality(1 .. Len(q)) = IF 1 > Len(q) THEN 0 ELSE Len(q) - 1 + 1
    BY <2>1, FS_Interval, ZenonT(40)
  <2> QED
    BY <2>1, <2>2
<1>3. IsFiniteSet(old) /\ c =< Len(q) /\ c \in Nat
  <2>1. old \in SUBSET (1 .. Len(q))
    OBVIOUS
  <2> QED
    BY <1>2, <2>1, FS_Subset, FS_CardinalityType
<1>4. ASSUME NEW i \in old
      PROVE  i =< c
  <2>1. 1 .. i \in SUBSET old /\ i \in Nat /\ i >= 1
    BY <1>1, <1>4
  <2>2. Cardinality(1 .. i) = i
    BY <2>1, FS_Interval
  <2> HIDE DEF old
  <2> QED
    BY <1>3, <2>1, <2>2, FS_Subset
<1>5. old = 1 .. c
  <2>1. old \in SUBSET (1 .. c)
    BY <1>1, <1>3, <1>4
  <2>2. IsFiniteSet(1 .. c) /\ Cardinality(1 .. c) = c
    BY <1>3, FS_Interval
  <2> HIDE DEF old
  <2> QED
    BY <2>1, <2>2, FS_Subset
<1>6. Fresh(q) = SubSeq(q, c + 1, Len(q))
  BY DEF Fresh
<1>7. c \in 0 .. Len(q)
  BY <1>1, <1>3
<1> HIDE DEF c
<1>8. \A i \in 1 .. c : q[i].age > BufferAge
  BY <1>3, <1>5
<1>9. c < Len(q) => ~(q[c + 1].age > BufferAge)
  <2>1. SUFFICES ASSUME c < Len(q), q[c + 1].age > BufferAge
                 PROVE  c + 1 \in old
    BY <1>3, <1>5
  <2> QED
    BY <1>1, <1>3, <1>8, <2>1
<1>10. /\ Fresh(q) \in Seq(Entry) /\ Len(Fresh(q)) = Len(q) - c /\ Suffix(Fresh(q), q)
       /\ \A i \in 1 .. Len(q) - c : Fresh(q)[i] = q[c + i]
  BY <1>6, <1>7, SubSeqSuffix
<1>11. Fresh(q) # <<>> => Fresh(q)[1].age =< BufferAge
  <2>1. SUFFICES ASSUME Fresh(q) # <<>>
                 PROVE  Fresh(q)[1].age =< BufferAge
    OBVIOUS
  <2>2. c < Len(q) /\ c + 1 \in 1 .. Len(q) /\ Fresh(q)[1] = q[c + 1]
    BY <1>1, <1>3, <1>10, <2>1
  <2> QED
    BY <1>9, <2>2, Entries, Numbers
<1>12. ASSUME NEW i \in 1 .. Len(q)
       PROVE  q[i].id \in IdsOf(Fresh(q)) \/ q[i].age > BufferAge
  <2>1. CASE i =< c
    BY <1>8, <2>1
  <2>2. CASE i > c
    <3>1. i - c \in 1 .. Len(q) - c /\ c + (i - c) = i
      BY <1>1, <1>3, <2>2
    <3>2. i - c \in 1 .. Len(Fresh(q)) /\ Fresh(q)[i - c] = q[i]
      BY <1>10, <3>1
    <3> QED
      BY <3>2 DEF IdsOf
  <2> QED
    BY <1>3, <2>1, <2>2
<1> QED
  BY <1>10, <1>11, <1>12

\* A flush goes on with events that are not too old.
LEMMA FreshIsYoung ==
    ASSUME NEW q \in Seq(Entry), Increasing(q)
    PROVE  \A i \in 1 .. Len(Fresh(q)) : Fresh(q)[i].age =< BufferAge
<1>1. PICK s \in Seq(Entry) : s = Fresh(q)
  BY FreshFacts
<1>2. Increasing(s) /\ (s # <<>> => s[1].age =< BufferAge)
  BY <1>1, FreshFacts, SuffixKeeps
<1>3. \A i \in 1 .. Len(s) : s[i].age =< BufferAge
  BY <1>2, Entries, Numbers DEF Increasing
<1> QED
  BY <1>1, <1>3

LEMMA ShiftFacts ==
    ASSUME NEW q \in Seq(Entry), q # <<>>
    PROVE  /\ Shift(q) \in Seq(Entry) /\ Suffix(Shift(q), q)
           /\ Len(Shift(q)) = Len(q) - 1
           /\ \A i \in 1 .. Len(q) - 1 : Shift(q)[i] = q[i + 1]
<1>1. Len(q) \in Nat /\ Len(q) >= 1
  OBVIOUS
<1>2. Shift(q) \in Seq(Entry) /\ Len(Shift(q)) = Len(q) - 1 /\ \A i \in 1 .. Len(Shift(q)) : Shift(q)[i] = q[i + 1]
  BY HeadTailProperties DEF Shift
<1>3. Suffix(Shift(q), q)
  <2>1. 1 \in 0 .. Len(q) /\ \A i \in 1 .. Len(Shift(q)) : Shift(q)[i] = q[1 + i]
    BY <1>1, <1>2
  <2> QED
    BY <1>2, <2>1 DEF Suffix
<1> QED
  BY <1>2, <1>3

LEMMA LatestFacts ==
    ASSUME NEW q \in Seq(Entry)
    PROVE  Latest(q) \in Seq(Entry) /\ Suffix(Latest(q), q) /\ Len(Latest(q)) =< MaxQueue
<1>1. PICK c : c = Greater(Len(q) - MaxQueue, 0)
  OBVIOUS
<1>2. c \in 0 .. Len(q) /\ Len(q) - c =< MaxQueue
  BY <1>1, Numbers, Entries DEF Greater
<1>3. Latest(q) = SubSeq(q, c + 1, Len(q))
  BY <1>1 DEF Latest
<1> QED
  BY <1>2, <1>3, SubSeqSuffix

LEMMA OlderFacts ==
    ASSUME NEW q \in Seq(Entry)
    PROVE  /\ Older(q) \in Seq(Entry) /\ Len(Older(q)) = Len(q)
           /\ \A i \in 1 .. Len(q) : Older(q)[i].id = q[i].id
                                     /\ Older(q)[i].age = Lesser(q[i].age + 1, BufferAge + 1)
<1>1. Len(q) \in Nat /\ DOMAIN q = 1 .. Len(q) /\ \A i \in 1 .. Len(q) : q[i] \in Entry
  BY Entries
<1>2. ASSUME NEW i \in 1 .. Len(q), NEW e, e = [q[i] EXCEPT !.age = Lesser(@ + 1, BufferAge + 1)]
      PROVE  e \in Entry /\ e.id = q[i].id /\ e.age = Lesser(q[i].age + 1, BufferAge + 1)
  <2>1. q[i] \in Entry /\ q[i].age \in 0 .. BufferAge + 1
    BY <1>1 DEF Entry
  <2>2. Lesser(q[i].age + 1, BufferAge + 1) \in 0 .. BufferAge + 1
    BY <2>1, Numbers DEF Lesser
  <2> QED
    BY <1>2, <2>1, <2>2 DEF Entry
<1>3. \A i \in 1 .. Len(q) : Older(q)[i] = [q[i] EXCEPT !.age = Lesser(@ + 1, BufferAge + 1)]
  BY <1>1 DEF Older
<1>4. Older(q) \in [1 .. Len(q) -> Entry]
  BY <1>1, <1>2, <1>3 DEF Older
<1>5. Older(q) \in Seq(Entry) /\ Len(Older(q)) = Len(q)
  BY <1>1, <1>4
<1> QED
  BY <1>2, <1>3, <1>5

LEMMA OlderKeeps ==
    ASSUME NEW q \in Seq(Entry)
    PROVE  /\ IdsOf(Older(q)) = IdsOf(q)
           /\ \A n, f : Good(q, n, f) => Good(Older(q), n, f)
           /\ \A r : Ahead(q, r) => Ahead(Older(q), r)
           /\ \A r : WellAhead(q, r) => WellAhead(Older(q), r)
<1> DEFINE s == Older(q)
<1>1. /\ Len(s) = Len(q) /\ Len(q) \in Nat
      /\ \A i \in 1 .. Len(q) : s[i].id = q[i].id /\ s[i].age = Lesser(q[i].age + 1, BufferAge + 1)
                                /\ q[i].age \in Nat /\ q[i].id \in Nat
  BY OlderFacts, Entries
<1> HIDE DEF s
<1>2. IdsOf(s) = IdsOf(q)
  BY <1>1 DEF IdsOf
<1>3. \A i \in 1 .. Len(q) : q[i].age > BufferAge => s[i].age > BufferAge
  BY <1>1, Numbers DEF Lesser
<1>4. Increasing(q) => Increasing(s)
  <2>1. SUFFICES ASSUME Increasing(q), NEW i \in 1 .. Len(s), NEW j \in 1 .. Len(s), i < j
                 PROVE  s[i].id < s[j].id /\ s[j].age =< s[i].age
    BY DEF Increasing
  <2>2. i \in 1 .. Len(q) /\ j \in 1 .. Len(q)
    BY <1>1
  <2>3. q[i].id < q[j].id /\ q[j].age =< q[i].age
    BY <2>1, <2>2 DEF Increasing
  <2>4. Lesser(q[j].age + 1, BufferAge + 1) =< Lesser(q[i].age + 1, BufferAge + 1)
    BY <1>1, <2>2, <2>3, Numbers DEF Lesser
  <2> QED
    BY <1>1, <2>2, <2>3, <2>4
<1>5. \A n, f : Good(q, n, f) => Good(s, n, f)
  <2>1. \A n, f : Before(q, n) /\ GoneOld(q, f) => Before(s, n) /\ GoneOld(s, f)
    BY <1>1, <1>3 DEF Before, GoneOld
  <2> QED
    BY <1>1, <1>4, <2>1 DEF Good
<1>6. \A r : Ahead(q, r) => Ahead(s, r)
  BY <1>1, <1>3 DEF Ahead
<1>7. \A r : WellAhead(q, r) => WellAhead(s, r)
  BY <1>1 DEF WellAhead
<1> QED
  BY <1>2, <1>5, <1>6, <1>7 DEF s

LEMMA OlderAges ==
    ASSUME NEW p \in Seq(Entry), NEW q \in Seq(Entry), SameAges(p, q)
    PROVE  SameAges(Older(p), Older(q))
<1>1. PICK o : o = Older(p)
  OBVIOUS
<1>2. PICK r : r = Older(q)
  OBVIOUS
<1>3. Len(o) = Len(p) /\ \A i \in 1 .. Len(p) : o[i].id = p[i].id /\ o[i].age = Lesser(p[i].age + 1, BufferAge + 1)
  BY <1>1, OlderFacts
<1>4. Len(r) = Len(q) /\ \A i \in 1 .. Len(q) : r[i].id = q[i].id /\ r[i].age = Lesser(q[i].age + 1, BufferAge + 1)
  BY <1>2, OlderFacts
<1>5. SameAges(o, r)
  BY <1>3, <1>4 DEF SameAges
<1> QED
  BY <1>1, <1>2, <1>5

\* In a queue in order no two events have one id.
LEMMA OneAge ==
    ASSUME NEW q \in Seq(Entry), Increasing(q)
    PROVE  SameAges(q, q)
<1>1. SUFFICES ASSUME NEW i \in 1 .. Len(q), NEW j \in 1 .. Len(q), q[i].id = q[j].id
               PROVE  i = j
  BY DEF SameAges
<1>2. q[i].id \in Nat /\ q[j].id \in Nat /\ i \in Int /\ j \in Int
  BY Entries
<1> QED
  BY <1>1, <1>2 DEF Increasing

\* An event is appended: the latest, and the youngest.
LEMMA GrownFacts ==
    ASSUME NEW q \in Seq(Entry), NEW e \in Entry, NEW g, g = Append(q, e), e.age = 0
    PROVE  /\ g \in Seq(Entry) /\ Len(g) = Len(q) + 1
           /\ IdsOf(g) = IdsOf(q) \cup {e.id}
           /\ Increasing(q) /\ Before(q, e.id) => Increasing(g)
           /\ Before(q, e.id) => Before(g, e.id + 1)
           /\ \A f : GoneOld(q, f) /\ f[e.id] # "aged" => GoneOld(g, f)
           /\ \A l : SameAges(q, l) /\ Before(l, e.id) => SameAges(g, l)
           /\ \A r : (\A k \in r : k < e.id) => /\ Ahead(q, r) => Ahead(g, r)
                                                /\ WellAhead(q, r) => WellAhead(g, r)
<1>1. /\ g \in Seq(Entry) /\ Len(g) = Len(q) + 1 /\ Len(q) \in Nat
      /\ \A i \in 1 .. Len(q) : g[i] = q[i]
      /\ g[Len(q) + 1] = e
  BY AppendProperties
<1>2. \A i \in 1 .. Len(g) : (i \in 1 .. Len(q) /\ g[i] = q[i]) \/ (i = Len(q) + 1 /\ g[i] = e)
  BY <1>1
<1>3. IdsOf(g) = IdsOf(q) \cup {e.id}
  <2>1. \A i \in 1 .. Len(q) : i \in 1 .. Len(g)
    BY <1>1
  <2>2. Len(q) + 1 \in 1 .. Len(g)
    BY <1>1
  <2> QED
    BY <1>1, <1>2, <2>1, <2>2 DEF IdsOf
<1>4. ASSUME Increasing(q), Before(q, e.id)
      PROVE  Increasing(g)
  <2>1. SUFFICES ASSUME NEW i \in 1 .. Len(g), NEW j \in 1 .. Len(g), i < j
                 PROVE  g[i].id < g[j].id /\ g[j].age =< g[i].age
    BY DEF Increasing
  <2>2. i \in 1 .. Len(q) /\ g[i] = q[i] /\ q[i].age \in Nat
    BY <1>1, <1>2, <2>1, Entries
  <2>3. CASE j \in 1 .. Len(q)
    BY <1>1, <1>4, <2>1, <2>2, <2>3 DEF Increasing
  <2>4. CASE j = Len(q) + 1
    BY <1>1, <1>4, <2>2, <2>4 DEF Before
  <2> QED
    BY <1>2, <2>3, <2>4
<1>5. Before(q, e.id) => Before(g, e.id + 1)
  <2>1. e.id \in Nat /\ \A i \in 1 .. Len(q) : q[i].id \in Nat
    <3>1. e.id \in Nat
      BY Numbers DEF Entry, Ids
    <3> QED
      BY <3>1, Entries
  <2> QED
    BY <1>2, <2>1 DEF Before
<1>6. \A f : GoneOld(q, f) /\ f[e.id] # "aged" => GoneOld(g, f)
  BY <1>2 DEF GoneOld
<1>7. \A l : SameAges(q, l) /\ Before(l, e.id) => SameAges(g, l)
  <2>1. e.id \in Nat
    BY Numbers DEF Entry, Ids
  <2>2. SUFFICES ASSUME NEW l, SameAges(q, l), Before(l, e.id), NEW i \in 1 .. Len(g), NEW j \in 1 .. Len(l),
                        g[i].id = l[j].id
                 PROVE  g[i].age = l[j].age
    BY DEF SameAges
  <2>3. l[j].id < e.id
    BY <2>2 DEF Before
  <2>4. g[i] # e
    BY <2>1, <2>2, <2>3
  <2> QED
    BY <1>2, <2>2, <2>4 DEF SameAges
<1>8. \A r : (\A k \in r : k < e.id) => /\ Ahead(q, r) => Ahead(g, r)
                                        /\ WellAhead(q, r) => WellAhead(g, r)
  BY <1>2 DEF Ahead, WellAhead
<1> QED
  BY <1>1, <1>3, <1>4, <1>5, <1>6, <1>7, <1>8

-----------------------------------------------------------------------------
(***************************************************************************)
(* The inductive invariant, over TypeOK.  q is the queue, n the next id    *)
(* and f the fates: a step may change them twice, first to take an event   *)
(* in and then to flush.                                                   *)
(***************************************************************************)
Copies(q, n, f) ==
    /\ Good(q, n, f) /\ Good(file, n, f) /\ SameAges(q, file)
    /\ pc \in Saving => Good(snap, n, f) /\ SameAges(q, snap)
    /\ \A i \in Ids : f[i] # "kept" => i < n

Counters(q, n) ==
    /\ pc = "send" => q # <<>> /\ sending \in Ids /\ sending < n
    /\ pc = "dead" => q = <<>> /\ restarts > 0
    /\ \A k \in received \cup saved : k < n
    /\ IdsOf(file) \subseteq saved

\* Nothing was displaced; then an event that is still to be delivered is where it must be,
\* and is delivered after all that were.
Room(q, n, f) ==
    /\ \A i \in Ids : f[i] # "displaced"
    /\ pc = "send" => sending = q[1].id
    /\ \A i \in Ids : i < n /\ f[i] = "kept" /\ i \notin received =>
         /\ pc # "dead" /\ (i \in saved \/ restarts = 0) => i \in IdsOf(q)
         /\ i \in saved => i \in IdsOf(file) /\ (pc \in Saving => i \in IdsOf(snap))
         /\ pc \in Saving /\ i \in IdsOf(snap) => i \in IdsOf(q)
    /\ Ahead(q, received) /\ Ahead(file, received)
    /\ pc \in Saving => Ahead(snap, received)
    /\ pc \in {"send", "saveInLoop"} => WellAhead(q, received)

IInv ==
    /\ TypeOK
    /\ Copies(queue, next, fate)
    /\ Counters(queue, next)
    /\ ~displaced => Room(queue, next, fate)

-----------------------------------------------------------------------------
(***************************************************************************)
(* What flushQueue comes to at its first await, called with a queue q and  *)
(* fates f.                                                                *)
(***************************************************************************)
Rests(q, f) ==
    /\ queue' = q /\ fate' = f
    /\ UNCHANGED <<pc, sending, snap, retryIn, delay>>

Sends(q, f) ==
    /\ pc = "idle" /\ pc' = "send"
    /\ queue' = Fresh(q) /\ queue' # <<>> /\ sending' = queue'[1].id
    /\ fate' = Discard(f, q, Fresh(q), "aged")
    /\ UNCHANGED <<snap, retryIn, delay>>

Empties(q, f) ==
    /\ pc = "idle" /\ pc' = "saveAtEnd"
    /\ Fresh(q) = <<>> /\ queue' = <<>> /\ snap' = <<>> /\ sending' = 0
    /\ fate' = Discard(f, q, Fresh(q), "aged")
    /\ retryIn' = 0 /\ delay' = 1

LEMMA FlushOutcomes ==
    ASSUME NEW q, NEW t, NEW f, FlushQueue(q, t, f)
    PROVE  /\ Rests(q, f) \/ Sends(q, f) \/ Empties(q, f)
           /\ timer' = t \/ timer' = retryIn
  BY DEF FlushQueue, SendNext, Rests, Sends, Empties

LEMMA Discarded ==
    ASSUME NEW q \in Seq(Entry), NEW s \in Seq(Entry), NEW f \in [Ids -> Fates], NEW why \in Fates
    PROVE  /\ Discard(f, q, s, why) \in [Ids -> Fates]
           /\ \A i \in Ids : Discard(f, q, s, why)[i] = IF i \in IdsOf(q) \ IdsOf(s) THEN why ELSE f[i]
  BY DEF Discard

LEMMA FlushTyped ==
    ASSUME TypeOK, NEW q \in Seq(Entry), NEW t \in Off .. MaxDelay, NEW f \in [Ids -> Fates], FlushQueue(q, t, f)
    PROVE  /\ pc' \in {"dead", "idle", "send"} \cup Saving
           /\ queue' \in Seq(Entry) /\ snap' \in Seq(Entry)
           /\ sending' \in Ids \cup {0}
           /\ retryIn' \in 0 .. MaxDelay /\ delay' \in 1 .. MaxDelay /\ timer' \in Off .. MaxDelay
           /\ fate' \in [Ids -> Fates]
<1> USE Numbers
<1>1. timer' \in Off .. MaxDelay
  BY FlushOutcomes DEF TypeOK, Off
<1>2. CASE Rests(q, f)
  BY <1>1, <1>2 DEF Rests, TypeOK
<1>3. "aged" \in Fates /\ Fresh(q) \in Seq(Entry)
  BY FreshFacts DEF Fates
<1>4. CASE Sends(q, f)
  <2>1. fate' \in [Ids -> Fates]
    BY <1>3, <1>4, Discarded DEF Sends
  <2>2. queue' \in Seq(Entry) /\ queue' # <<>>
    BY <1>3, <1>4 DEF Sends
  <2>3. sending' \in Ids
    <3>1. PICK s \in Seq(Entry) : s = queue'
      BY <2>2
    <3>2. 1 \in 1 .. Len(s)
      BY <2>2, <3>1
    <3>3. s[1].id \in Ids
      BY <3>2, Entries
    <3> QED
      BY <1>4, <3>1, <3>3 DEF Sends
  <2> QED
    BY <1>1, <1>4, <2>1, <2>2, <2>3 DEF Sends, TypeOK
<1>5. CASE Empties(q, f)
  <2>1. fate' \in [Ids -> Fates]
    BY <1>3, <1>5, Discarded DEF Empties
  <2>2. <<>> \in Seq(Entry) /\ 0 \in 0 .. MaxDelay /\ 1 \in 1 .. MaxDelay
    OBVIOUS
  <2> QED
    BY <1>1, <1>5, <2>1, <2>2 DEF Empties, Saving
<1> QED
  BY <1>2, <1>4, <1>5, FlushOutcomes

\* A flush keeps the invariant: what it discards is too old in every copy, what it goes on
\* with is young and so comes after all that is stored.
LEMMA FlushCopies ==
    ASSUME TypeOK, NEW q \in Seq(Entry), NEW t, NEW f \in [Ids -> Fates], FlushQueue(q, t, f),
           Copies(q, next', f), UNCHANGED file
    PROVE  Copies(queue, next, fate)'
<1>1. CASE Rests(q, f)
  BY <1>1 DEF Rests, Copies
<1>2. ASSUME pc = "idle", pc' \in {"send", "saveAtEnd"}, queue' = Fresh(q), pc' = "saveAtEnd" => snap' = <<>>,
             fate' = Discard(f, q, Fresh(q), "aged")
      PROVE  Copies(queue, next, fate)'
  <2>1. PICK s \in Seq(Entry) : s = Fresh(q)
    BY FreshFacts
  <2>2. PICK g : g = fate'
    OBVIOUS
  <2>3. Suffix(s, q) /\ \A i \in 1 .. Len(q) : q[i].id \in IdsOf(s) \/ q[i].age > BufferAge
    BY <2>1, FreshFacts
  <2>4. Good(q, next', f) /\ Good(file, next', f) /\ SameAges(q, file)
    BY DEF Copies
  <2>5. Good(s, next', f) /\ SameAges(s, file)
    BY <2>3, <2>4, SuffixKeeps
  <2>6. \A i \in Ids : g[i] = IF i \in IdsOf(q) \ IdsOf(s) THEN "aged" ELSE f[i]
    BY <1>2, <2>1, <2>2, Discarded DEF Fates
  <2>7. GoneOld(s, g)
    <3>1. \A i \in 1 .. Len(s) : s[i].id \in IdsOf(s) /\ s[i].id \in Ids
      BY Entries DEF IdsOf
    <3> QED
      BY <2>5, <2>6, <3>1 DEF Good, GoneOld
  <2>8. GoneOld(file, g)
    <3>1. SUFFICES ASSUME NEW i \in 1 .. Len(file), g[file[i].id] = "aged"
                   PROVE  file[i].age > BufferAge
      BY DEF GoneOld
    <3>2. file[i].id \in Ids
      BY Entries DEF TypeOK
    <3>3. CASE f[file[i].id] = "aged"
      BY <2>4, <3>3 DEF Good, GoneOld
    <3>4. CASE file[i].id \in IdsOf(q) \ IdsOf(s)
      <4>1. PICK j \in 1 .. Len(q) : q[j].id = file[i].id
        BY <3>4 DEF IdsOf
      <4>2. q[j].age > BufferAge /\ q[j].age = file[i].age
        BY <2>3, <2>4, <3>4, <4>1 DEF SameAges
      <4> QED
        BY <4>2
    <3> QED
      BY <2>6, <3>1, <3>2, <3>3, <3>4
  <2>9. Good(s, next', g) /\ Good(file, next', g)
    BY <2>4, <2>5, <2>7, <2>8 DEF Good
  <2>10. s = <<>> => Good(<<>>, next', g)
    BY <2>9
  <2>11. pc' = "saveAtEnd" => Good(snap', next', g) /\ SameAges(s, snap')
    BY <1>2, Numbers DEF Good, Increasing, Before, GoneOld, SameAges
  <2>12. \A i \in Ids : g[i] # "kept" => i < next'
    BY <2>4, <2>6 DEF Copies, Good, Before, IdsOf
  <2> QED
    BY <1>2, <2>1, <2>2, <2>5, <2>9, <2>11, <2>12 DEF Copies, Saving
<1> QED
  BY <1>1, <1>2, FlushOutcomes DEF Sends, Empties

LEMMA FlushCounters ==
    ASSUME TypeOK, NEW q \in Seq(Entry), NEW t, NEW f \in [Ids -> Fates], FlushQueue(q, t, f),
           Copies(q, next', f), Counters(q, next'), UNCHANGED <<file, received, saved, restarts>>
    PROVE  Counters(queue, next)'
<1>1. CASE Rests(q, f)
  BY <1>1 DEF Rests, Counters
<1>2. CASE Sends(q, f)
  <2>1. PICK s \in Seq(Entry) : s = Fresh(q) /\ s # <<>>
    BY <1>2, FreshFacts DEF Sends
  <2>2. 1 \in 1 .. Len(s)
    BY <2>1
  <2>3. s[1].id \in Ids /\ s[1].id < next'
    BY <2>1, <2>2, Entries, FreshFacts, SuffixKeeps DEF Copies, Good, Before
  <2> QED
    BY <1>2, <2>1, <2>3 DEF Sends, Counters
<1>3. CASE Empties(q, f)
  BY <1>3 DEF Empties, Counters
<1> QED
  BY <1>1, <1>2, <1>3, FlushOutcomes

LEMMA FlushRoom ==
    ASSUME TypeOK, NEW q \in Seq(Entry), NEW t, NEW f \in [Ids -> Fates], FlushQueue(q, t, f),
           Copies(q, next', f), Room(q, next', f), UNCHANGED <<file, received, saved, restarts>>
    PROVE  Room(queue, next, fate)'
<1>1. CASE Rests(q, f)
  BY <1>1 DEF Rests, Room
<1>2. ASSUME pc = "idle", queue' = Fresh(q), fate' = Discard(f, q, Fresh(q), "aged"),
             \/ pc' = "send" /\ sending' = queue'[1].id
             \/ pc' = "saveAtEnd" /\ Fresh(q) = <<>> /\ snap' = <<>>
      PROVE  Room(queue, next, fate)'
  <2>1. PICK s \in Seq(Entry) : s = Fresh(q)
    BY FreshFacts
  <2>2. PICK g : g = fate'
    OBVIOUS
  <2>3. \A i \in Ids : g[i] = IF i \in IdsOf(q) \ IdsOf(s) THEN "aged" ELSE f[i]
    BY <1>2, <2>1, <2>2, Discarded DEF Fates
  <2>4. Suffix(s, q) /\ Increasing(q)
    BY <2>1, FreshFacts DEF Copies, Good
  <2>5. Ahead(s, received)
    BY <2>4, SuffixKeeps DEF Room
  <2>6. WellAhead(s, received)
    <3>1. \A i \in 1 .. Len(s) : s[i].age =< BufferAge /\ s[i].age \in Nat
      BY <2>1, <2>4, FreshIsYoung, Entries
    <3> QED
      BY <2>5, <3>1, Numbers DEF Ahead, WellAhead
  <2>7. \A i \in Ids : g[i] # "displaced"
    BY <2>3 DEF Room
  <2>8. ASSUME NEW i \in Ids, i < next', g[i] = "kept", i \notin received
        PROVE  /\ i \in saved \/ restarts = 0 => i \in IdsOf(s)
               /\ i \in saved => i \in IdsOf(file)
    BY <1>2, <2>3, <2>8 DEF Room
  <2>9. pc' = "saveAtEnd" => Ahead(snap', received) /\ IdsOf(snap') = IdsOf(s)
    BY <1>2, <2>1 DEF Ahead
  <2> QED
    BY <1>2, <2>1, <2>2, <2>5, <2>6, <2>7, <2>8, <2>9 DEF Room, Saving
<1> QED
  BY <1>1, <1>2, FlushOutcomes DEF Sends, Empties

-----------------------------------------------------------------------------
(***************************************************************************)
(* Types.  That the queue is not too long is a part of Copies.             *)
(***************************************************************************)
FlushVars ==
    /\ pc \in {"dead", "idle", "send"} \cup Saving
    /\ queue \in Seq(Entry) /\ snap \in Seq(Entry)
    /\ sending \in Ids \cup {0}
    /\ retryIn \in 0 .. MaxDelay /\ delay \in 1 .. MaxDelay /\ timer \in Off .. MaxDelay
    /\ fate \in [Ids -> Fates]

OtherVars ==
    /\ file \in Seq(Entry)
    /\ phase \in 0 .. Bucket - 1
    /\ next \in 1 .. MaxEvents + 1
    /\ received \subseteq Ids
    /\ saved \subseteq Ids
    /\ displaced \in BOOLEAN
    /\ restarts \in 0 .. MaxRestarts

LEMMA Typed == TypeOK <=> FlushVars /\ OtherVars /\ Len(queue) =< MaxQueue
  BY DEF TypeOK, FlushVars, OtherVars, Fates

LEMMA IdsTyped ==
    ASSUME NEW q \in Seq(Entry)
    PROVE  IdsOf(q) \subseteq Ids
  BY Entries DEF IdsOf

LEMMA SendNextTyped ==
    ASSUME NEW q \in Seq(Entry), SendNext(q), FlushVars
    PROVE  /\ pc' \in {"send", "saveAtEnd"}
           /\ sending' \in Ids \cup {0} /\ snap' \in Seq(Entry)
           /\ retryIn' \in 0 .. MaxDelay /\ delay' \in 1 .. MaxDelay
<1>1. CASE q # <<>>
  <2>1. 1 \in 1 .. Len(q)
    BY <1>1
  <2> QED
    BY <1>1, <2>1, Entries DEF SendNext, FlushVars
<1>2. CASE q = <<>>
  BY <1>2, Numbers DEF SendNext
<1> QED
  BY <1>1, <1>2

LEMMA BackOffTyped ==
    ASSUME FlushVars, BackOff
    PROVE  /\ pc' = "saveAfterError" /\ sending' = 0 /\ snap' = queue
           /\ retryIn' \in 0 .. MaxDelay /\ delay' \in 1 .. MaxDelay
  BY Numbers DEF FlushVars, BackOff, Lesser

LEMMA TypeStep ==
    ASSUME TypeOK, Counters(queue, next), Next, (Len(queue) =< MaxQueue)'
    PROVE  TypeOK'
<1> USE Numbers
<1>0. FlushVars /\ OtherVars
  BY Typed
<1>1. SUFFICES FlushVars' /\ OtherVars'
  BY DEF TypeOK, FlushVars, OtherVars, Fates
<1>2. ASSUME NEW c \in Contents, Enqueue(c)
      PROVE  FlushVars' /\ OtherVars'
  <2>1. PICK e : e = [id |-> next, content |-> c, age |-> 0]
    OBVIOUS
  <2>2. next \in Ids /\ e \in Entry
    BY <1>0, <1>2, <2>1 DEF OtherVars, Enqueue, Ids, Entry
  <2>3. PICK g \in Seq(Entry) : g = Append(queue, e)
    BY <1>0, <2>2, AppendProperties DEF FlushVars
  <2>4. Latest(g) \in Seq(Entry)
    BY <2>3, LatestFacts
  <2>5. PICK f \in [Ids -> Fates] : f = Discard(fate, g, Latest(g), "displaced")
    BY <1>0, <2>3, <2>4, Discarded DEF FlushVars, Fates
  <2>6. /\ FlushQueue(Latest(g), timer, f) /\ next' = next + 1 /\ next =< MaxEvents
        /\ displaced' = (displaced \/ Latest(g) # g)
        /\ UNCHANGED <<file, phase, received, saved, restarts>>
    BY <1>2, <2>1, <2>3, <2>5 DEF Enqueue
  <2>7. FlushVars'
    <3>1. timer \in Off .. MaxDelay
      BY <1>0 DEF FlushVars
    <3> QED
      BY <2>4, <2>6, <3>1, FlushTyped DEF FlushVars
  <2>8. next' \in 1 .. MaxEvents + 1
    BY <1>0, <2>6 DEF OtherVars
  <2>9. displaced' \in BOOLEAN
    BY <2>6
  <2>10. OtherVars'
    BY <1>0, <2>6, <2>8, <2>9 DEF OtherVars
  <2> QED
    BY <2>7, <2>10
<1>3. ASSUME NEW t \in Off .. MaxDelay, FlushQueue(queue, t, fate),
             UNCHANGED <<file, phase, next, received, saved, displaced, restarts>>
      PROVE  FlushVars' /\ OtherVars'
  <2>1. queue \in Seq(Entry) /\ fate \in [Ids -> Fates]
    BY <1>0 DEF FlushVars
  <2>2. FlushVars'
    BY <1>3, <2>1, FlushTyped DEF FlushVars
  <2> QED
    BY <1>0, <1>3, <2>2 DEF OtherVars
<1>4. CASE Beat
  <2>1. timer \in Off .. MaxDelay
    BY <1>0 DEF FlushVars
  <2> QED
    BY <1>2, <1>3, <1>4, <2>1, ContentsAssumption DEF Beat
<1>5. CASE TimerFires
  <2>1. Off \in Off .. MaxDelay
    BY DEF Off
  <2> QED
    BY <1>3, <1>5, <2>1 DEF TimerFires
<1>6. CASE SendOk
  <2>1. pc = "send" /\ queue # <<>> /\ sending \in Ids
    BY <1>6 DEF SendOk, Counters
  <2>2. PICK q \in Seq(Entry) : q = Shift(queue)
    BY <1>0, <2>1, ShiftFacts DEF FlushVars
  <2>3. /\ received' = received \cup {sending} /\ queue' = q
        /\ UNCHANGED <<file, timer, phase, next, fate, saved, displaced, restarts>>
    BY <1>6, <2>2 DEF SendOk, history
  <2>4. /\ pc' \in {"send", "saveAtEnd", "saveInLoop"}
        /\ sending' \in Ids \cup {0} /\ snap' \in Seq(Entry)
        /\ retryIn' \in 0 .. MaxDelay /\ delay' \in 1 .. MaxDelay
    <3>1. CASE SendNext(q)
      BY <1>0, <3>1, SendNextTyped
    <3>2. CASE pc' = "saveInLoop" /\ snap' = q /\ sending' = 0 /\ UNCHANGED <<retryIn, delay>>
      BY <1>0, <3>2 DEF FlushVars
    <3> QED
      BY <1>6, <2>2, <3>1, <3>2 DEF SendOk
  <2>5. FlushVars'
    BY <1>0, <2>3, <2>4 DEF FlushVars, Saving
  <2> QED
    BY <1>0, <2>1, <2>3, <2>5 DEF OtherVars
<1>7. ASSUME NEW stored \in BOOLEAN, SendFails(stored)
      PROVE  FlushVars' /\ OtherVars'
  <2>1. sending \in Ids /\ BackOff /\ UNCHANGED <<queue, file, timer, phase, next, fate, saved, displaced, restarts>>
    BY <1>7 DEF SendFails, Counters, history
  <2>2. received' \subseteq Ids
    BY <1>0, <1>7, <2>1 DEF SendFails, OtherVars
  <2> QED
    BY <1>0, <2>1, <2>2, BackOffTyped DEF FlushVars, OtherVars, Saving
<1>8. CASE SaveFails
  BY <1>0, <1>8, BackOffTyped DEF SaveFails, history, FlushVars, OtherVars, Saving
<1>9. CASE SaveDone
  <2>1. /\ file' = snap /\ saved' = saved \cup IdsOf(snap)
        /\ UNCHANGED <<queue, phase, next, received, fate, displaced, restarts>>
    BY <1>9 DEF SaveDone
  <2>2. OtherVars'
    BY <1>0, <2>1, IdsTyped DEF OtherVars, FlushVars
  <2>3. CASE SendNext(queue) /\ UNCHANGED timer
    BY <1>0, <2>1, <2>2, <2>3, SendNextTyped DEF FlushVars, Saving
  <2>4. CASE pc' = "idle" /\ UNCHANGED <<sending, snap, retryIn, delay>> /\ timer' \in {timer, retryIn}
    <3>1. timer' \in Off .. MaxDelay
      BY <1>0, <2>4 DEF FlushVars, Off
    <3> QED
      BY <1>0, <2>1, <2>2, <2>4, <3>1 DEF FlushVars
  <2> QED
    BY <1>9, <2>3, <2>4 DEF SaveDone
<1>10. CASE Tick
  <2>1. retryIn' \in 0 .. MaxDelay /\ timer' \in Off .. MaxDelay
    BY <1>0, <1>10 DEF Tick, Greater, Off, FlushVars
  <2>2. phase' \in 0 .. Bucket - 1
    <3>1. phase' = (phase + 1) % Bucket /\ phase \in Nat
      BY <1>0, <1>10 DEF Tick, OtherVars
    <3> QED
      BY <3>1
  <2> QED
    BY <1>0, <1>10, <2>1, <2>2, OlderFacts DEF Tick, history, FlushVars, OtherVars
<1>11. CASE Die
  <2>1. PICK f \in Seq(Entry) : file' = f /\ saved' = saved \cup IdsOf(f)
    BY <1>0, <1>11 DEF Die, FlushVars, OtherVars
  <2>2. saved' \subseteq Ids
    BY <1>0, <2>1, IdsTyped DEF OtherVars
  <2>3. received' \subseteq Ids
    BY <1>0, <1>11 DEF Die, Counters, OtherVars
  <2>4. <<>> \in Seq(Entry) /\ Off \in Off .. MaxDelay
    BY DEF Off
  <2>5. FlushVars'
    BY <1>0, <1>11, <2>4 DEF Die, FlushVars
  <2>6. restarts' \in 0 .. MaxRestarts
    BY <1>0, <1>11 DEF Die, OtherVars
  <2> QED
    BY <1>0, <1>11, <2>1, <2>2, <2>3, <2>5, <2>6 DEF Die, OtherVars
<1>12. CASE Restart
  <2>1. 0 \in Off .. MaxDelay
    BY DEF Off
  <2> QED
    BY <1>0, <1>12, <2>1 DEF Restart, history, FlushVars, OtherVars
<1> QED
  BY <1>2, <1>4, <1>5, <1>6, <1>7, <1>8, <1>9, <1>10, <1>11, <1>12 DEF Next, EventArrives, Answer, Write

-----------------------------------------------------------------------------
(***************************************************************************)
(* An event is taken in.                                                   *)
(***************************************************************************)
\* What enqueue does before it flushes: the queue q, the fates f.
TakesIn(q, f) ==
    \E e \in Entry, g \in Seq(Entry) :
        /\ e.id = next /\ e.age = 0 /\ g = Append(queue, e)
        /\ q = Latest(g) /\ f = Discard(fate, g, q, "displaced")
        /\ displaced' = (displaced \/ q # g)
        /\ next' = next + 1 /\ pc # "dead"
        /\ UNCHANGED <<file, received, saved, restarts>>

LEMMA EnqueueOutcome ==
    ASSUME TypeOK, NEW c \in Contents, Enqueue(c)
    PROVE  \E q \in Seq(Entry), f \in [Ids -> Fates] : TakesIn(q, f) /\ FlushQueue(q, timer, f)
<1>1. PICK e : e = [id |-> next, content |-> c, age |-> 0]
  OBVIOUS
<1>2. e \in Entry /\ e.id = next /\ e.age = 0
  BY <1>1, Numbers DEF TypeOK, Enqueue, Ids, Entry
<1>3. PICK g \in Seq(Entry) : g = Append(queue, e)
  BY <1>2, AppendProperties DEF TypeOK
<1>4. PICK q \in Seq(Entry) : q = Latest(g)
  BY <1>3, LatestFacts
<1>5. fate \in [Ids -> Fates] /\ "displaced" \in Fates
  BY DEF TypeOK, Fates
<1>6. PICK f \in [Ids -> Fates] : f = Discard(fate, g, q, "displaced")
  BY <1>3, <1>4, <1>5, Discarded
<1>7. TakesIn(q, f)
  BY <1>1, <1>2, <1>3, <1>4, <1>6 DEF TakesIn, Enqueue
<1>8. FlushQueue(q, timer, f)
  BY <1>1, <1>3, <1>4, <1>6 DEF Enqueue
<1> QED
  BY <1>7, <1>8

LEMMA TakenCopies ==
    ASSUME TypeOK, Copies(queue, next, fate), NEW q \in Seq(Entry), NEW f \in [Ids -> Fates], TakesIn(q, f)
    PROVE  Copies(q, next', f)
<1>1. PICK e \in Entry, g \in Seq(Entry) :
        /\ e.id = next /\ e.age = 0 /\ g = Append(queue, e)
        /\ q = Latest(g) /\ f = Discard(fate, g, q, "displaced") /\ next' = next + 1
  BY DEF TakesIn
<1>2. next \in Nat /\ next \in Ids /\ queue \in Seq(Entry) /\ file \in Seq(Entry) /\ snap \in Seq(Entry)
  <2>1. e.id \in Ids
    BY <1>1 DEF Entry
  <2> QED
    BY <1>1, <2>1 DEF TypeOK
<1>3. fate \in [Ids -> Fates] /\ "displaced" \in Fates
  BY DEF TypeOK, Fates
<1>4. \A i \in Ids : f[i] = IF i \in IdsOf(g) \ IdsOf(q) THEN "displaced" ELSE fate[i]
  BY <1>1 DEF Discard
<1>5. /\ Good(queue, next, fate) /\ Good(file, next, fate) /\ SameAges(queue, file)
      /\ pc \in Saving => Good(snap, next, fate) /\ SameAges(queue, snap)
      /\ \A i \in Ids : fate[i] # "kept" => i < next
  BY DEF Copies
<1>6. ~(fate[next] = "aged")
  BY <1>2, <1>5
<1>7. Increasing(g) /\ Before(g, next + 1) /\ GoneOld(g, fate) /\ IdsOf(g) = IdsOf(queue) \cup {next}
  BY <1>1, <1>2, <1>5, <1>6, GrownFacts DEF Good
<1>8. \A l : SameAges(queue, l) /\ Before(l, next) => SameAges(g, l)
  BY <1>1, <1>2, GrownFacts
<1>9. Suffix(q, g) /\ Len(q) =< MaxQueue
  BY <1>1, LatestFacts
<1>10. ASSUME NEW s \in Seq(Entry), GoneOld(s, fate)
       PROVE  GoneOld(s, f)
  <2>1. \A i \in 1 .. Len(s) : s[i].id \in Ids
    BY Entries
  <2> QED
    BY <1>4, <1>10, <2>1 DEF GoneOld
<1>11. Increasing(q) /\ Before(q, next') /\ GoneOld(q, f)
  BY <1>1, <1>7, <1>9, <1>10, SuffixKeeps
<1>12. ASSUME NEW s \in Seq(Entry), Good(s, next, fate)
       PROVE  Good(s, next', f)
  <2>1. Before(s, next')
    BY <1>1, <1>2, <1>12, Entries DEF Good, Before
  <2> QED
    BY <1>10, <1>12, <2>1 DEF Good
<1>13. ASSUME NEW l, SameAges(queue, l), Before(l, next)
       PROVE  SameAges(q, l)
  BY <1>8, <1>9, <1>13, SuffixKeeps
<1>14. Good(file, next', f) /\ SameAges(q, file)
  BY <1>2, <1>5, <1>12, <1>13 DEF Good
<1>15. pc \in Saving => Good(snap, next', f) /\ SameAges(q, snap)
  BY <1>2, <1>5, <1>12, <1>13 DEF Good
<1>16. \A i \in Ids : f[i] # "kept" => i < next'
  <2>1. ASSUME NEW i \in IdsOf(g)
        PROVE  i < next'
    BY <1>1, <1>7 DEF IdsOf, Before
  <2>2. next' = next + 1 /\ \A i \in Ids : i \in Nat
    BY <1>1, Numbers DEF Ids
  <2>3. ASSUME NEW i \in Ids, fate[i] # "kept"
        PROVE  i < next'
    BY <1>2, <1>5, <2>2, <2>3
  <2>4. ASSUME NEW i \in Ids, f[i] # "kept"
        PROVE  i \in IdsOf(g) \/ fate[i] # "kept"
    BY <1>4, <2>4
  <2> QED
    BY <2>1, <2>3, <2>4
<1> QED
  BY <1>9, <1>11, <1>14, <1>15, <1>16 DEF Copies, Good

LEMMA TakenCounters ==
    ASSUME TypeOK, Counters(queue, next), NEW q \in Seq(Entry), NEW f, TakesIn(q, f)
    PROVE  Counters(q, next')
<1>1. PICK e \in Entry, g \in Seq(Entry) :
        /\ g = Append(queue, e) /\ q = Latest(g) /\ next' = next + 1 /\ pc # "dead"
  BY DEF TakesIn
<1>2. next \in Nat /\ received \subseteq Ids /\ saved \subseteq Ids /\ \A i \in Ids : i \in Nat
  BY Numbers DEF TypeOK, Ids
<1>3. q # <<>>
  <2>1. Len(g) \in Nat /\ Len(g) > 0
    BY <1>1, AppendProperties DEF TypeOK
  <2>2. PICK c : c = Greater(Len(g) - MaxQueue, 0)
    OBVIOUS
  <2>3. c \in 0 .. Len(g) /\ c < Len(g)
    BY <2>1, <2>2, Numbers DEF Greater
  <2>4. q = SubSeq(g, c + 1, Len(g))
    BY <1>1, <2>2 DEF Latest
  <2>5. Len(q) = Len(g) - c
    BY <2>3, <2>4, SubSeqSuffix
  <2> QED
    BY <2>1, <2>3, <2>5
<1>4. \A k \in received \cup saved : k < next'
  BY <1>1, <1>2 DEF Counters
<1>5. sending \in Ids /\ sending < next => sending < next'
  BY <1>1, <1>2
<1> QED
  BY <1>1, <1>3, <1>4, <1>5 DEF Counters

LEMMA TakenRoom ==
    ASSUME TypeOK, Counters(queue, next), ~displaced => Room(queue, next, fate),
           NEW q \in Seq(Entry), NEW f \in [Ids -> Fates], TakesIn(q, f), ~displaced'
    PROVE  Room(q, next', f)
<1>1. PICK e \in Entry, g \in Seq(Entry) :
        /\ e.id = next /\ e.age = 0 /\ g = Append(queue, e)
        /\ q = Latest(g) /\ f = Discard(fate, g, q, "displaced") /\ next' = next + 1
        /\ displaced' = (displaced \/ q # g)
  BY DEF TakesIn
<1>2. q = g /\ ~displaced
  BY <1>1
<1>3. fate \in [Ids -> Fates] /\ "displaced" \in Fates /\ queue \in Seq(Entry)
  BY DEF TypeOK, Fates
<1>4. \A i \in Ids : f[i] = fate[i]
  BY <1>1, <1>2 DEF Discard
<1>5. Room(queue, next, fate)
  BY <1>2
<1>6. next \in Nat /\ \A i \in Ids : i \in Nat
  BY Numbers DEF TypeOK, Ids
<1>7. \A k \in received \cup saved : k < next
  BY DEF Counters
<1>8. IdsOf(q) = IdsOf(queue) \cup {next}
  BY <1>1, <1>2, <1>3, GrownFacts
<1>9. Ahead(q, received)
  BY <1>1, <1>2, <1>3, <1>5, <1>7, GrownFacts DEF Room
<1>10. WellAhead(queue, received) => WellAhead(q, received)
  BY <1>1, <1>2, <1>3, <1>7, GrownFacts
<1>11. pc = "send" => sending = q[1].id
  <2>1. pc = "send" => 1 \in 1 .. Len(queue) /\ queue # <<>>
    BY <1>3 DEF Counters
  <2> QED
    BY <1>1, <1>2, <1>3, <1>5, <2>1, AppendProperties DEF Room
<1>12. ASSUME NEW i \in Ids, i < next', f[i] = "kept", i \notin received
       PROVE  /\ pc # "dead" /\ (i \in saved \/ restarts = 0) => i \in IdsOf(q)
              /\ i \in saved => i \in IdsOf(file) /\ (pc \in Saving => i \in IdsOf(snap))
              /\ pc \in Saving /\ i \in IdsOf(snap) => i \in IdsOf(q)
  <2>1. CASE i < next
    BY <1>4, <1>5, <1>8, <1>12, <2>1 DEF Room
  <2>2. CASE i = next
    BY <1>6, <1>7, <1>8, <2>2
  <2> QED
    BY <1>1, <1>6, <1>12, <2>1, <2>2
<1> QED
  BY <1>4, <1>5, <1>9, <1>10, <1>11, <1>12 DEF Room

-----------------------------------------------------------------------------
(***************************************************************************)
(* The steps keep the invariant.                                           *)
(***************************************************************************)
Parts ==
    /\ Copies(queue, next, fate)
    /\ Counters(queue, next)
    /\ ~displaced => Room(queue, next, fate)

LEMMA FlushStep ==
    ASSUME TypeOK, NEW q \in Seq(Entry), NEW t, NEW f \in [Ids -> Fates], FlushQueue(q, t, f),
           Copies(q, next', f), Counters(q, next'), ~displaced' => Room(q, next', f),
           UNCHANGED <<file, received, saved, restarts>>
    PROVE  Parts'
<1>1. Copies(queue, next, fate)'
  BY FlushCopies
<1>2. Counters(queue, next)'
  BY FlushCounters
<1>3. ~displaced' => Room(queue, next, fate)'
  BY FlushRoom
<1> QED
  BY <1>1, <1>2, <1>3 DEF Parts

LEMMA EnqueueStep ==
    ASSUME IInv, NEW c \in Contents, Enqueue(c)
    PROVE  Parts'
<1>0. TypeOK /\ Copies(queue, next, fate) /\ Counters(queue, next) /\ (~displaced => Room(queue, next, fate))
  BY DEF IInv
<1>1. PICK q \in Seq(Entry), f \in [Ids -> Fates] : TakesIn(q, f) /\ FlushQueue(q, timer, f)
  BY <1>0, EnqueueOutcome
<1>2. Copies(q, next', f) /\ Counters(q, next')
  BY <1>0, <1>1, TakenCopies, TakenCounters
<1>3. ~displaced' => Room(q, next', f)
  BY <1>0, <1>1, TakenRoom
<1>4. UNCHANGED <<file, received, saved, restarts>>
  BY <1>1 DEF TakesIn
<1> QED
  BY <1>0, <1>1, <1>2, <1>3, <1>4, FlushStep

LEMMA PlainFlushStep ==
    ASSUME IInv, NEW t, FlushQueue(queue, t, fate),
           UNCHANGED <<file, phase, next, received, saved, displaced, restarts>>
    PROVE  Parts'
<1>1. queue \in Seq(Entry) /\ fate \in [Ids -> Fates]
  BY DEF IInv, TypeOK, Fates
<1>2. Copies(queue, next', fate) /\ Counters(queue, next') /\ (~displaced' => Room(queue, next', fate))
  BY DEF IInv
<1> QED
  BY <1>1, <1>2, FlushStep DEF IInv

\* The event that is sent comes after all that is stored; once it is stored too, the rest
\* of the queue and of the file comes after it.
LEMMA SendAhead ==
    ASSUME IInv, ~displaced, pc = "send"
    PROVE  /\ sending = queue[1].id /\ 1 \in 1 .. Len(queue)
           /\ sending \in received \/ \A k \in received : k < sending
           /\ WellAhead(queue, received \cup {sending}) /\ WellAhead(queue, received)
           /\ Ahead(file, received \cup {sending})
<1>0. /\ TypeOK /\ Room(queue, next, fate) /\ Copies(queue, next, fate)
      /\ queue # <<>> /\ sending \in Ids
      /\ queue \in Seq(Entry) /\ file \in Seq(Entry)
  BY DEF IInv, Counters, TypeOK
<1>1. sending = queue[1].id /\ 1 \in 1 .. Len(queue) /\ WellAhead(queue, received)
  BY <1>0 DEF Room
<1>2. sending \in received \/ \A k \in received : k < sending
  BY <1>1 DEF WellAhead
<1>3. \A i \in 1 .. Len(queue) : queue[i].id = sending \/ sending < queue[i].id
  <2>1. Increasing(queue) /\ \A i \in 1 .. Len(queue) : i \in Int
    BY <1>0 DEF Copies, Good
  <2> QED
    BY <1>1, <2>1 DEF Increasing
<1>4. WellAhead(queue, received \cup {sending})
  BY <1>1, <1>3 DEF WellAhead
<1>5. Ahead(file, received \cup {sending})
  <2>1. SUFFICES ASSUME NEW j \in 1 .. Len(file), file[j].id \notin received \cup {sending},
                        ~(file[j].age > BufferAge)
                 PROVE  \A k \in received \cup {sending} : k < file[j].id
    BY DEF Ahead
  <2>2. file[j].id \in Ids /\ file[j].id \in IdsOf(file) /\ file[j].id < next
    BY <1>0, Entries DEF IdsOf, Copies, Good, Before
  <2>3. file[j].id \in saved
    BY <2>2 DEF IInv, Counters
  <2>4. fate[file[j].id] = "kept"
    BY <1>0, <2>1, <2>2 DEF Room, Copies, Good, GoneOld, TypeOK
  <2>5. file[j].id \in IdsOf(queue)
    BY <1>0, <2>1, <2>2, <2>3, <2>4 DEF Room
  <2>6. sending < file[j].id
    BY <1>3, <2>1, <2>5 DEF IdsOf
  <2>7. \A k \in received : k < file[j].id
    BY <1>0, <2>1 DEF Room, Ahead
  <2> QED
    BY <2>6, <2>7
<1> QED
  BY <1>1, <1>2, <1>4, <1>5

LEMMA AheadToo ==
    ASSUME NEW q, NEW r, WellAhead(q, r)
    PROVE  Ahead(q, r)
  BY DEF WellAhead, Ahead

LEMMA SendOkStep ==
    ASSUME IInv, SendOk
    PROVE  Parts'
<1>0. /\ TypeOK /\ Copies(queue, next, fate) /\ Counters(queue, next)
      /\ pc = "send" /\ queue # <<>> /\ sending \in Ids /\ sending < next
      /\ queue \in Seq(Entry) /\ file \in Seq(Entry)
  BY DEF IInv, TypeOK, SendOk, Counters
<1>1. PICK q \in Seq(Entry) : q = Shift(queue)
  BY <1>0, ShiftFacts
<1>2. Suffix(q, queue) /\ Len(q) = Len(queue) - 1 /\ \A i \in 1 .. Len(queue) - 1 : q[i] = queue[i + 1]
  BY <1>0, <1>1, ShiftFacts
<1>3. /\ received' = received \cup {sending} /\ queue' = q
      /\ UNCHANGED <<file, next, fate, saved, displaced, restarts>>
  BY <1>1 DEF SendOk, history
<1>4. /\ pc' \in {"send", "saveAtEnd", "saveInLoop"}
      /\ pc' = "send" => q # <<>> /\ sending' = q[1].id
      /\ pc' # "send" => snap' = q
  BY <1>1 DEF SendOk, SendNext
<1>5. Good(q, next, fate) /\ SameAges(q, file) /\ SameAges(q, q)
  BY <1>0, <1>2, SuffixKeeps, OneAge DEF Copies, Good
<1>6. Copies(queue, next, fate)'
  BY <1>0, <1>3, <1>4, <1>5 DEF Copies, Saving
<1>7. Counters(queue, next)'
  <2>1. q # <<>> => 1 \in 1 .. Len(q)
    OBVIOUS
  <2>2. q # <<>> => q[1].id \in Ids /\ q[1].id < next
    BY <1>5, <2>1, Entries DEF Good, Before
  <2> QED
    BY <1>0, <1>3, <1>4, <2>2 DEF Counters
<1>8. ASSUME ~displaced'
      PROVE  Room(queue, next, fate)'
  <2>1. ~displaced /\ Room(queue, next, fate)
    BY <1>3, <1>8 DEF IInv
  <2>2. sending = queue[1].id /\ WellAhead(queue, received') /\ Ahead(file, received')
    BY <1>0, <1>3, <2>1, SendAhead
  <2>3. WellAhead(q, received') /\ Ahead(q, received')
    BY <1>0, <1>2, <2>2, SuffixKeeps, AheadToo
  <2>4. ASSUME NEW i \in Ids, i \in IdsOf(queue), i # sending
        PROVE  i \in IdsOf(q)
    <3>1. PICK j \in 1 .. Len(queue) : queue[j].id = i
      BY <2>4 DEF IdsOf
    <3>2. j - 1 \in 1 .. Len(queue) - 1 /\ (j - 1) + 1 = j
      BY <1>0, <2>2, <2>4, <3>1
    <3>3. q[j - 1] = queue[j] /\ j - 1 \in 1 .. Len(q)
      BY <1>2, <3>2
    <3> QED
      BY <3>1, <3>3 DEF IdsOf
  <2>5. ASSUME NEW i \in Ids, i < next, fate[i] = "kept", i \notin received'
        PROVE  /\ i \in saved \/ restarts = 0 => i \in IdsOf(q)
               /\ i \in saved => i \in IdsOf(file)
    BY <1>0, <1>3, <2>1, <2>4, <2>5 DEF Room
  <2> QED
    BY <1>3, <1>4, <2>1, <2>2, <2>3, <2>5 DEF Room, Saving
<1> QED
  BY <1>6, <1>7, <1>8 DEF Parts

\* The queue is about to be saved as it is.
LEMMA BackOffStep ==
    ASSUME IInv, pc \in Saving \cup {"send"}, BackOff, UNCHANGED <<queue, file, next, fate, saved, displaced, restarts>>,
           received' = received \/ (pc = "send" /\ received' = received \cup {sending})
    PROVE  Parts'
<1>0. TypeOK /\ Copies(queue, next, fate) /\ Counters(queue, next) /\ queue \in Seq(Entry)
  BY DEF IInv, TypeOK
<1>1. pc' = "saveAfterError" /\ snap' = queue /\ queue' = queue
  BY DEF BackOff
<1>2. SameAges(queue, queue)
  BY <1>0, OneAge DEF Copies, Good
<1>3. Copies(queue, next, fate)'
  BY <1>0, <1>1, <1>2 DEF Copies, Saving
<1>4. Counters(queue, next)'
  BY <1>0, <1>1 DEF Counters
<1>5. ASSUME ~displaced'
      PROVE  Room(queue, next, fate)'
  <2>1. ~displaced /\ Room(queue, next, fate)
    BY <1>5 DEF IInv
  <2>2. Ahead(queue, received') /\ Ahead(file, received')
    BY <2>1, SendAhead, AheadToo DEF Room
  <2>3. \A i \in Ids : i \notin received' => i \notin received
    OBVIOUS
  <2>4. pc # "dead"
    BY DEF Saving
  <2> QED
    BY <1>1, <2>1, <2>2, <2>3, <2>4 DEF Room, Saving
<1> QED
  BY <1>3, <1>4, <1>5 DEF Parts

LEMMA SaveDoneStep ==
    ASSUME IInv, SaveDone
    PROVE  Parts'
<1>0. /\ TypeOK /\ Copies(queue, next, fate) /\ Counters(queue, next) /\ pc \in Saving
      /\ queue \in Seq(Entry) /\ snap \in Seq(Entry)
  BY DEF IInv, TypeOK, SaveDone
<1>1. /\ file' = snap /\ saved' = saved \cup IdsOf(snap)
      /\ UNCHANGED <<queue, next, received, fate, displaced, restarts>>
  BY DEF SaveDone
<1>2. \/ pc' = "idle" /\ snap' = snap
      \/ pc = "saveInLoop" /\ pc' = "send" /\ queue # <<>> /\ sending' = queue[1].id
      \/ pc' = "saveAtEnd" /\ queue = <<>> /\ snap' = queue
  BY DEF SaveDone, SendNext
<1>3. Good(queue, next, fate) /\ Good(snap, next, fate) /\ SameAges(queue, snap) /\ SameAges(queue, queue)
  BY <1>0, OneAge DEF Copies, Good
<1>4. Copies(queue, next, fate)'
  BY <1>0, <1>1, <1>2, <1>3 DEF Copies, Saving
<1>5. Counters(queue, next)'
  <2>1. queue # <<>> => 1 \in 1 .. Len(queue)
    BY <1>0
  <2>2. queue # <<>> => queue[1].id \in Ids /\ queue[1].id < next
    BY <1>0, <1>3, <2>1, Entries DEF Good, Before
  <2>3. \A k \in IdsOf(snap) : k < next
    BY <1>3 DEF IdsOf, Good, Before
  <2> QED
    BY <1>0, <1>1, <1>2, <2>2, <2>3 DEF Counters, Saving
<1>6. ASSUME ~displaced'
      PROVE  Room(queue, next, fate)'
  <2>1. Room(queue, next, fate) /\ pc # "dead"
    BY <1>0, <1>1, <1>6 DEF IInv, Saving
  <2>2. Ahead(queue, received) /\ Ahead(snap, received) /\ (pc = "saveInLoop" => WellAhead(queue, received))
    BY <1>0, <2>1 DEF Room
  <2>3. ASSUME NEW i \in Ids, i < next, fate[i] = "kept", i \notin received
        PROVE  /\ i \in saved' \/ restarts = 0 => i \in IdsOf(queue)
               /\ i \in saved' => i \in IdsOf(snap)
    BY <1>0, <1>1, <2>1, <2>3 DEF Room
  <2>4. \A i \in Ids : fate[i] # "displaced"
    BY <2>1 DEF Room
  <2>5. CASE pc' = "saveAtEnd" /\ queue = <<>> /\ snap' = queue
    BY <1>1, <2>2, <2>3, <2>4, <2>5 DEF Room
  <2>6. CASE pc' \in {"idle", "send"}
    BY <1>1, <1>2, <2>2, <2>3, <2>4, <2>6 DEF Room, Saving
  <2> QED
    BY <1>2, <2>5, <2>6
<1> QED
  BY <1>4, <1>5, <1>6 DEF Parts

LEMMA TickStep ==
    ASSUME IInv, Tick
    PROVE  Parts'
<1>0. /\ TypeOK /\ Copies(queue, next, fate) /\ Counters(queue, next)
      /\ queue \in Seq(Entry) /\ snap \in Seq(Entry) /\ file \in Seq(Entry)
  BY DEF IInv, TypeOK
<1>1. /\ queue' = Older(queue) /\ snap' = Older(snap) /\ file' = Older(file)
      /\ UNCHANGED <<pc, sending, next, received, fate, saved, displaced, restarts>>
  BY DEF Tick, history
<1>2. PICK q \in Seq(Entry) : q = Older(queue)
  BY <1>0, OlderFacts
<1>3. PICK s \in Seq(Entry) : s = Older(snap)
  BY <1>0, OlderFacts
<1>4. PICK l \in Seq(Entry) : l = Older(file)
  BY <1>0, OlderFacts
<1>5. IdsOf(q) = IdsOf(queue) /\ IdsOf(s) = IdsOf(snap) /\ IdsOf(l) = IdsOf(file)
  BY <1>0, <1>2, <1>3, <1>4, OlderKeeps
<1>6. Copies(queue, next, fate)'
  <2>1. Good(q, next, fate) /\ Good(l, next, fate) /\ SameAges(q, l)
    BY <1>0, <1>2, <1>4, OlderKeeps, OlderAges DEF Copies
  <2>2. pc \in Saving => Good(s, next, fate) /\ SameAges(q, s)
    BY <1>0, <1>2, <1>3, OlderKeeps, OlderAges DEF Copies
  <2> QED
    BY <1>0, <1>1, <1>2, <1>3, <1>4, <2>1, <2>2 DEF Copies
<1>11. Len(q) = Len(queue) /\ \A i \in 1 .. Len(queue) : q[i].id = queue[i].id
  BY <1>0, <1>2, OlderFacts
<1>7. queue # <<>> => q # <<>> /\ q[1].id = queue[1].id
  <2>1. queue # <<>> => 1 \in 1 .. Len(queue)
    BY <1>0
  <2> QED
    BY <1>11, <2>1
<1>8. queue = <<>> => q = <<>>
  BY <1>11
<1>9. Counters(queue, next)'
  BY <1>0, <1>1, <1>2, <1>4, <1>5, <1>7, <1>8 DEF Counters
<1>10. ASSUME ~displaced'
       PROVE  Room(queue, next, fate)'
  <2>1. Room(queue, next, fate)
    BY <1>1, <1>10 DEF IInv
  <2>2. Ahead(q, received) /\ Ahead(l, received) /\ (WellAhead(queue, received) => WellAhead(q, received))
    BY <1>0, <1>2, <1>4, <2>1, OlderKeeps DEF Room
  <2>3. pc \in Saving => Ahead(s, received)
    BY <1>0, <1>3, <2>1, OlderKeeps DEF Room
  <2>4. pc = "send" => sending = q[1].id
    BY <1>0, <1>7, <2>1 DEF Room, Counters
  <2> QED
    BY <1>1, <1>2, <1>3, <1>4, <1>5, <2>1, <2>2, <2>3, <2>4 DEF Room
<1> QED
  BY <1>6, <1>9, <1>10 DEF Parts

LEMMA DieStep ==
    ASSUME IInv, Die
    PROVE  Parts'
<1>0. /\ TypeOK /\ Copies(queue, next, fate) /\ Counters(queue, next)
      /\ queue \in Seq(Entry) /\ snap \in Seq(Entry) /\ file \in Seq(Entry) /\ restarts \in Nat
  BY Numbers DEF IInv, TypeOK
<1>1. PICK l \in {file, queue} \cup (IF pc \in Saving THEN {snap} ELSE {}) :
        file' = l /\ saved' = saved \cup IdsOf(l)
  BY DEF Die
<1>2. /\ pc # "dead" /\ pc' = "dead" /\ restarts' = restarts + 1 /\ queue' = <<>>
      /\ received' = received \/ (pc = "send" /\ received' = received \cup {sending})
      /\ UNCHANGED <<next, fate, displaced>>
  BY DEF Die
<1>3. Good(l, next, fate) /\ l \in Seq(Entry)
  BY <1>0, <1>1 DEF Copies
<1>4. Good(<<>>, next, fate) /\ SameAges(<<>>, l)
  BY Numbers DEF Good, Increasing, Before, GoneOld, SameAges
<1>5. Copies(queue, next, fate)'
  BY <1>0, <1>1, <1>2, <1>3, <1>4 DEF Copies, Saving
<1>6. Counters(queue, next)'
  <2>1. \A k \in IdsOf(l) : k < next
    BY <1>3 DEF IdsOf, Good, Before
  <2> QED
    BY <1>0, <1>1, <1>2, <2>1 DEF Counters
<1>7. ASSUME ~displaced'
      PROVE  Room(queue, next, fate)'
  <2>1. ~displaced /\ Room(queue, next, fate)
    BY <1>2, <1>7 DEF IInv
  <2>2. Ahead(file, received') /\ Ahead(queue, received')
    BY <1>2, <2>1, SendAhead, AheadToo DEF Room
  <2>3. Ahead(l, received')
    <3>1. CASE l \in {file, queue}
      BY <2>2, <3>1
    <3>2. CASE pc \in Saving /\ l = snap
      BY <1>2, <2>1, <3>2 DEF Room, Saving
    <3> QED
      BY <1>1, <3>1, <3>2
  <2>4. Ahead(<<>>, received')
    BY DEF Ahead
  <2>5. ASSUME NEW i \in Ids, i < next, fate[i] = "kept", i \notin received'
        PROVE  i \in saved' => i \in IdsOf(l)
    BY <1>1, <1>2, <2>1, <2>5 DEF Room
  <2> QED
    BY <1>1, <1>2, <2>1, <2>3, <2>4, <2>5 DEF Room, Saving
<1> QED
  BY <1>5, <1>6, <1>7 DEF Parts

LEMMA RestartStep ==
    ASSUME IInv, Restart
    PROVE  Parts'
<1>0. /\ TypeOK /\ Copies(queue, next, fate) /\ Counters(queue, next) /\ file \in Seq(Entry)
      /\ pc = "dead" /\ restarts > 0 /\ restarts \in Nat
  BY Numbers DEF IInv, TypeOK, Restart, Counters
<1>1. /\ pc' = "idle" /\ queue' = file
      /\ UNCHANGED <<file, next, received, fate, saved, displaced, restarts>>
  BY DEF Restart, history
<1>2. SameAges(file, file)
  BY <1>0, OneAge DEF Copies, Good
<1>3. Copies(queue, next, fate)'
  BY <1>0, <1>1, <1>2 DEF Copies, Saving
<1>4. Counters(queue, next)'
  BY <1>0, <1>1 DEF Counters
<1>5. ~displaced' => Room(queue, next, fate)'
  BY <1>0, <1>1 DEF IInv, Room, Saving
<1> QED
  BY <1>3, <1>4, <1>5 DEF Parts

LEMMA Inductive ==
    ASSUME IInv, [Next]_vars
    PROVE  IInv'
<1>1. CASE Next
  <2>1. Parts'
    <3>1. CASE EventArrives
      BY <3>1, EnqueueStep DEF EventArrives
    <3>2. CASE Beat
      BY <3>2, EnqueueStep, PlainFlushStep, ContentsAssumption DEF Beat
    <3>3. CASE TimerFires
      BY <3>3, PlainFlushStep DEF TimerFires
    <3>4. ASSUME NEW stored \in BOOLEAN, SendFails(stored)
          PROVE  Parts'
      <4>1. /\ pc = "send" /\ BackOff /\ UNCHANGED <<queue, file, next, fate, saved, displaced, restarts>>
            /\ received' = received \/ received' = received \cup {sending}
        BY <3>4 DEF SendFails, history
      <4> QED
        BY <4>1, BackOffStep
    <3>5. CASE SaveFails
      <4>1. /\ pc \in Saving /\ BackOff /\ UNCHANGED <<queue, file, next, fate, saved, displaced, restarts>>
            /\ received' = received
        BY <3>5 DEF SaveFails, history
      <4> QED
        BY <4>1, BackOffStep
    <3> QED
      BY <1>1, <3>1, <3>2, <3>3, <3>4, <3>5, SendOkStep, SaveDoneStep, TickStep, DieStep, RestartStep
         DEF Next, Answer, Write
  <2>2. TypeOK'
    BY <1>1, <2>1, TypeStep DEF IInv, Parts, Copies, Good
  <2> QED
    BY <2>1, <2>2 DEF IInv, Parts
<1>2. CASE UNCHANGED vars
  BY <1>2 DEF IInv, vars, memory, history, TypeOK, Copies, Counters, Room
<1> QED
  BY <1>1, <1>2

LEMMA Start ==
    ASSUME Init
    PROVE  IInv
<1> USE Numbers
<1>1. TypeOK
  <2>1. FlushVars
    <3>1. <<>> \in Seq(Entry) /\ Off \in Off .. MaxDelay
      BY DEF Off
    <3> QED
      BY <3>1 DEF Init, FlushVars, Fates
  <2>2. OtherVars
    <3>1. displaced \in BOOLEAN
      BY DEF Init
    <3>2. <<>> \in Seq(Entry) /\ 0 \in 0 .. Bucket - 1 /\ 1 \in 1 .. MaxEvents + 1 /\ 0 \in 0 .. MaxRestarts
      OBVIOUS
    <3> QED
      BY <3>1, <3>2 DEF Init, OtherVars
  <2>3. Len(queue) =< MaxQueue
    BY DEF Init
  <2> QED
    BY <2>1, <2>2, <2>3, Typed
<1>2. Good(<<>>, next, fate) /\ SameAges(<<>>, <<>>)
  BY DEF Good, Increasing, Before, GoneOld, SameAges
<1>3. Copies(queue, next, fate)
  BY <1>2 DEF Init, Copies, Saving
<1>4. Counters(queue, next)
  BY DEF Init, Counters, IdsOf
<1>5. Room(queue, next, fate)
  <2>1. Ahead(<<>>, received)
    BY DEF Ahead
  <2>2. \A i \in Ids : i >= 1 /\ i \in Int
    BY DEF Ids
  <2> QED
    BY <2>1, <2>2 DEF Init, Room, Saving
<1> QED
  BY <1>1, <1>3, <1>4, <1>5 DEF IInv

\* In every reachable state the copies of an event agree, in the queue, in the file and in
\* what is being written.
THEOREM Invariant == Spec => []IInv
<1>1. Init => IInv
  BY Start
<1>2. IInv /\ [Next]_vars => IInv'
  BY Inductive
<1> QED
  BY <1>1, <1>2, PTL DEF Spec

\* Every variable keeps its type; the queue never holds more than MaxQueue events, also
\* after a restart.
THEOREM TypeCorrect == Spec => []TypeOK
<1>1. IInv => TypeOK
  BY DEF IInv
<1> QED
  BY <1>1, Invariant, PTL

\* No event of a queue with room disappears before it is stored or too old, and none that
\* was saved is lost when the process dies: for any limits and any number of deaths.
THEOREM NoneLost == Spec => []NothingLost
<1>1. IInv => NothingLost
  <2>1. SUFFICES ASSUME IInv, ~displaced, NEW i \in Ids, Kept(i), i \in saved \/ restarts = 0
                 PROVE  i \in Buffered
    BY DEF NothingLost
  <2>2. Room(queue, next, fate) /\ Counters(queue, next)
    BY <2>1 DEF IInv
  <2>3. CASE pc = "dead"
    BY <2>1, <2>2, <2>3 DEF Room, Counters, Kept, Buffered, IInv, TypeOK
  <2>4. CASE pc # "dead"
    BY <2>1, <2>2, <2>4 DEF Room, Kept, Buffered
  <2> QED
    BY <2>3, <2>4
<1> QED
  BY <1>1, Invariant, PTL

\* The first deliveries of events are in the order in which the events were observed, as long
\* as the queue has room: whatever is retried, restored from the file, or sent twice.
THEOREM InOrder == Spec => FirstDeliveriesInOrder
<1>1. ASSUME IInv, Next, ~displaced
      PROVE  \A i \in received' \ received : \A k \in received : k < i
  <2>1. received' = received \/ (pc = "send" /\ received' = received \cup {sending})
    <3>1. CASE EventArrives
      BY <3>1 DEF EventArrives, Enqueue
    <3>2. CASE Beat
      BY <3>2 DEF Beat, Enqueue
    <3>3. CASE Answer
      BY <3>3 DEF Answer, SendOk, SendFails
    <3>4. CASE Write \/ TimerFires \/ Tick \/ Restart
      BY <3>4 DEF Write, SaveDone, SaveFails, TimerFires, Tick, Restart
    <3>5. CASE Die
      BY <3>5 DEF Die
    <3> QED
      BY <1>1, <3>1, <3>2, <3>3, <3>4, <3>5 DEF Next
  <2> QED
    BY <1>1, <2>1, SendAhead
<1>2. IInv /\ [Next]_vars => [~displaced => \A i \in received' \ received : \A k \in received : k < i]_vars
  BY <1>1 DEF vars, memory, history
<1> QED
  BY <1>2, Invariant, PTL DEF Spec, FirstDeliveriesInOrder

=============================================================================
