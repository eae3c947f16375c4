--------------------------- MODULE CompilationProofs ---------------------------
(***************************************************************************)
(* What is proved of an optimization set, whoever calls its operations.     *)
(***************************************************************************)
EXTENDS Compilation, SequenceTheorems, Inductions

-----------------------------------------------------------------------------
(***************************************************************************)
(* Inserting into a sequence and cutting out of it.                         *)
(***************************************************************************)

(* An element is inserted: what was before it stays, the rest moves up.     *)
LEMMA InsertAtIs ==
  ASSUME NEW S, NEW s \in Seq(S), NEW e \in S, NEW p \in 1..(Len(s) + 1),
         NEW t, t = InsertAt(s, p, e)
  PROVE  /\ t \in Seq(S)
         /\ Len(t) = Len(s) + 1
         /\ \A k \in 1..(Len(s) + 1) :
              t[k] = IF k < p THEN s[k] ELSE IF k = p THEN e ELSE s[k - 1]
<1> DEFINE front == SubSeq(s, 1, p - 1)
           back == SubSeq(s, p, Len(s))
           one == <<e>>
<1>1. /\ front \in Seq(S)
      /\ Len(front) = p - 1
      /\ \A k \in 1..(p - 1) : front[k] = s[k]
  <2>1. \A k \in 1..(p - 1) : s[k] \in S
    OBVIOUS
  <2>2. /\ front \in Seq(S)
        /\ Len(front) = IF 1 <= p - 1 THEN p - 1 - 1 + 1 ELSE 0
        /\ \A k \in 1..(p - 1 - 1 + 1) : front[k] = s[1 + k - 1]
    BY <2>1, SubSeqProperties, 1 \in Int, p - 1 \in Int
  <2> HIDE DEF front
  <2> QED
    BY <2>2
<1>2. /\ back \in Seq(S)
      /\ Len(back) = Len(s) - p + 1
      /\ \A k \in 1..(Len(s) - p + 1) : back[k] = s[p + k - 1]
  <2>1. \A k \in p..Len(s) : s[k] \in S
    OBVIOUS
  <2>2. /\ back \in Seq(S)
        /\ Len(back) = IF p <= Len(s) THEN Len(s) - p + 1 ELSE 0
        /\ \A k \in 1..(Len(s) - p + 1) : back[k] = s[p + k - 1]
    BY <2>1, SubSeqProperties, p \in Int, Len(s) \in Int
  <2> HIDE DEF back
  <2> QED
    BY <2>2
<1>3. one \in Seq(S) /\ Len(one) = 1 /\ one[1] = e
  OBVIOUS
<1>4. t = front \o one \o back
  BY DEF InsertAt
<1> HIDE DEF front, back, one
<1>5. PICK start : start = front \o one
  OBVIOUS
<1>6. /\ start \in Seq(S)
      /\ Len(start) = Len(front) + Len(one)
      /\ \A k \in 1..(Len(front) + Len(one)) :
           start[k] = IF k <= Len(front) THEN front[k] ELSE one[k - Len(front)]
  <2>1. /\ front \o one \in Seq(S)
        /\ Len(front \o one) = Len(front) + Len(one)
        /\ \A k \in 1..(Len(front) + Len(one)) :
             (front \o one)[k] = IF k <= Len(front) THEN front[k] ELSE one[k - Len(front)]
    BY <1>1, <1>3, ConcatProperties
  <2> QED
    BY ONLY <1>5, <2>1
<1>7. /\ t \in Seq(S)
      /\ Len(t) = Len(start) + Len(back)
      /\ \A k \in 1..(Len(start) + Len(back)) :
           t[k] = IF k <= Len(start) THEN start[k] ELSE back[k - Len(start)]
  <2>1. /\ start \o back \in Seq(S)
        /\ Len(start \o back) = Len(start) + Len(back)
        /\ \A k \in 1..(Len(start) + Len(back)) :
             (start \o back)[k] = IF k <= Len(start) THEN start[k] ELSE back[k - Len(start)]
    <3>1. start \in Seq(S) /\ back \in Seq(S)
      BY <1>2, <1>6
    <3> QED
      BY ONLY <3>1, ConcatProperties
  <2>2. t = start \o back
    BY <1>4, <1>5
  <2> QED
    BY ONLY <2>1, <2>2
<1>8. p \in Nat /\ p >= 1 /\ Len(s) \in Nat /\ p <= Len(s) + 1
  OBVIOUS
<1>9. Len(start) = p /\ \A k \in 1..p : start[k] = IF k < p THEN s[k] ELSE e
  <2>1. Len(start) = p
    BY ONLY <1>1, <1>3, <1>6, <1>8
  <2>2. ASSUME NEW k \in 1..p
        PROVE  start[k] = IF k < p THEN s[k] ELSE e
    <3>1. start[k] = IF k <= p - 1 THEN front[k] ELSE one[k - (p - 1)]
      BY ONLY <1>1, <1>3, <1>6, <1>8, k \in 1..p
    <3>2. CASE k < p
      BY ONLY <1>1, <1>8, <3>1, <3>2, k \in 1..p
    <3>3. CASE k = p
      BY ONLY <1>3, <1>8, <3>1, <3>3, k \in 1..p
    <3> QED
      BY <3>2, <3>3
  <2> QED
    BY <2>1, <2>2
<1>10. ASSUME NEW k \in 1..(Len(s) + 1)
      PROVE  t[k] = IF k < p THEN s[k] ELSE IF k = p THEN e ELSE s[k - 1]
  <2>1. t[k] = IF k <= p THEN start[k] ELSE back[k - p]
    BY ONLY <1>2, <1>7, <1>8, <1>9, k \in 1..(Len(s) + 1)
  <2>2. k > p => back[k - p] = s[p + (k - p) - 1]
    BY ONLY <1>2, <1>8, k \in 1..(Len(s) + 1)
  <2>3. k > p => p + (k - p) - 1 = k - 1
    BY <1>8
  <2> QED
    BY ONLY <1>8, <1>9, <2>1, <2>2, <2>3, k \in 1..(Len(s) + 1)
<1>11. Len(t) = Len(s) + 1
  BY ONLY <1>2, <1>7, <1>8, <1>9
<1> QED
  BY ONLY <1>7, <1>10, <1>11

(* The elements between two places are cut out: the rest moves down.        *)
Cut(s, a, b) == SubSeq(s, 1, a) \o SubSeq(s, b + 1, Len(s))

LEMMA CutIs ==
  ASSUME NEW S, NEW s \in Seq(S), NEW a \in 0..Len(s), NEW b \in a..Len(s)
  PROVE  /\ Cut(s, a, b) \in Seq(S)
         /\ Len(Cut(s, a, b)) = Len(s) - (b - a)
         /\ \A k \in 1..(Len(s) - (b - a)) :
              Cut(s, a, b)[k] = IF k <= a THEN s[k] ELSE s[k + (b - a)]
<1> PICK t : t = Cut(s, a, b)
  OBVIOUS
<1> DEFINE front == SubSeq(s, 1, a)
           back == SubSeq(s, b + 1, Len(s))
<1>1. /\ front \in Seq(S)
      /\ Len(front) = a
      /\ \A k \in 1..a : front[k] = s[k]
  <2>1. \A k \in 1..a : s[k] \in S
    OBVIOUS
  <2>2. /\ front \in Seq(S)
        /\ Len(front) = IF 1 <= a THEN a - 1 + 1 ELSE 0
        /\ \A k \in 1..(a - 1 + 1) : front[k] = s[1 + k - 1]
    BY <2>1, SubSeqProperties, 1 \in Int, a \in Int
  <2> HIDE DEF front
  <2> QED
    BY <2>2
<1>2. /\ back \in Seq(S)
      /\ Len(back) = Len(s) - b
      /\ \A k \in 1..(Len(s) - b) : back[k] = s[b + k]
  <2>1. \A k \in (b + 1)..Len(s) : s[k] \in S
    OBVIOUS
  <2>2. /\ back \in Seq(S)
        /\ Len(back) = IF b + 1 <= Len(s) THEN Len(s) - (b + 1) + 1 ELSE 0
        /\ \A k \in 1..(Len(s) - (b + 1) + 1) : back[k] = s[(b + 1) + k - 1]
    BY <2>1, SubSeqProperties, b + 1 \in Int, Len(s) \in Int
  <2> HIDE DEF back
  <2> QED
    BY <2>2
<1>3. t = front \o back
  BY DEF Cut
<1> HIDE DEF front, back
<1>4. /\ front \o back \in Seq(S)
      /\ Len(front \o back) = Len(front) + Len(back)
      /\ \A k \in 1..(Len(front) + Len(back)) :
           (front \o back)[k] = IF k <= Len(front) THEN front[k] ELSE back[k - Len(front)]
  BY <1>1, <1>2, ConcatProperties
<1>5. a \in Nat /\ b \in Nat /\ a <= b /\ b <= Len(s) /\ Len(s) \in Nat
  OBVIOUS
<1>6. PICK rest : rest = Len(s) - (b - a)
  OBVIOUS
<1>7. /\ t \in Seq(S)
      /\ Len(t) = rest
      /\ \A k \in 1..rest : t[k] = IF k <= a THEN front[k] ELSE back[k - a]
  <2>1. Len(front) + Len(back) = rest
    BY <1>1, <1>2, <1>5, <1>6
  <2> QED
    BY ONLY <1>1, <1>3, <1>4, <2>1
<1>8. ASSUME NEW k \in 1..rest
      PROVE  t[k] = IF k <= a THEN s[k] ELSE s[k + (b - a)]
  <2>1. k > a => back[k - a] = s[b + (k - a)]
    BY ONLY <1>2, <1>5, <1>6, k \in 1..rest
  <2>2. k > a => b + (k - a) = k + (b - a)
    BY <1>5, <1>6
  <2>3. k <= a => front[k] = s[k]
    BY ONLY <1>1, <1>5, <1>6, k \in 1..rest
  <2> QED
    BY ONLY <1>7, <2>1, <2>2, <2>3, k \in 1..rest
<1> QED
  BY ONLY t = Cut(s, a, b), <1>6, <1>7, <1>8

(* A set of the first numbers is known by how many they are.                *)
LEMMA PrefixIs ==
  ASSUME NEW n \in Nat, NEW D \in SUBSET (1..n), \A k \in D : \A m \in 1..k : m \in D
  PROVE  Cardinality(D) \in 0..n /\ D = 1..Cardinality(D)
<1>1. PICK T : T = {m \in 1..(n + 1) : m \notin D}
  OBVIOUS
<1>2. PICK j \in T : \A m \in T : j <= m
  <2>1. T \subseteq Nat /\ n + 1 \in T
    BY <1>1
  <2> QED
    BY <2>1, SmallestOf
<1>3. j \in 1..(n + 1) /\ j \notin D
  BY <1>1
<1>4. D = 1..(j - 1)
  <2>1. ASSUME NEW m \in 1..(j - 1)
        PROVE  m \in D
    BY <1>1, <1>2, <1>3
  <2>2. ASSUME NEW m \in D
        PROVE  m \in 1..(j - 1)
    <3>1. j \in 1..m => j \in D
      OBVIOUS
    <3> QED
      BY <1>3, <3>1
  <2> QED
    BY <2>1, <2>2
<1>5. Cardinality(1..(j - 1)) = j - 1
  <2>1. 1 \in Int /\ j - 1 \in Int
    BY <1>3
  <2>2. Cardinality(1..(j - 1)) = IF 1 > j - 1 THEN 0 ELSE (j - 1) - 1 + 1
    BY <2>1, FS_Interval
  <2> QED
    BY <1>3, <2>2
<1> QED
  BY <1>3, <1>4, <1>5

-----------------------------------------------------------------------------
(***************************************************************************)
(* The entries of a set: ordered by optimization, and distinct as long as   *)
(* nobody writes through a reference.                                       *)
(***************************************************************************)
Slot == [info : Infos, rep : Nat]

Ordered(entries) ==
  \A k, m \in DOMAIN entries : k < m => entries[k].info[1] <= entries[m].info[1]

Distinct(entries) ==
  \A k, m \in DOMAIN entries : k < m => entries[k].info # entries[m].info

MultiMaps == {entries \in Seq(Slot) : Ordered(entries)}

InfosIn(entries) == {entries[k].info : k \in DOMAIN entries}

(* The entry of an info that is found first, and the map that callers see.   *)
FoundIn(entries, i) == {k \in DOMAIN entries : entries[k].info = i}

FirstOf(entries, i) ==
  CHOOSE k \in FoundIn(entries, i) : \A m \in FoundIn(entries, i) : k <= m

RepsOf(entries) == [i \in InfosIn(entries) |-> entries[FirstOf(entries, i)].rep]

LEMMA InfosArePairs ==
  ASSUME NEW i \in Infos
  PROVE  /\ i[1] \in Nat
         /\ i[1] \in Optimizations
         /\ <<i[1], Default>> \in Infos
BY SetAssumption DEF Optimizations

LEMMA SlotsOf ==
  ASSUME NEW entries \in MultiMaps, NEW k \in DOMAIN entries
  PROVE  /\ k \in 1..Len(entries)
         /\ entries[k] \in Slot
         /\ entries[k].info \in Infos
         /\ entries[k].info[1] \in Nat
         /\ entries[k].rep \in Nat
<1>1. entries \in Seq(Slot)
  BY DEF MultiMaps
<1>2. k \in 1..Len(entries) /\ entries[k] \in Slot
  BY <1>1
<1>3. entries[k].info \in Infos /\ entries[k].rep \in Nat
  BY <1>2 DEF Slot
<1> QED
  BY <1>2, <1>3, InfosArePairs

LEMMA LengthOf ==
  ASSUME NEW entries \in MultiMaps
  PROVE  Len(entries) \in Nat /\ DOMAIN entries = 1..Len(entries)
BY DEF MultiMaps

(* equal_range finds the end of the entries of an optimization.             *)
LEMMA UpToIs ==
  ASSUME NEW entries \in MultiMaps, NEW o \in Int
  PROVE  /\ UpTo(entries, o) \in 0..Len(entries)
         /\ \A k \in DOMAIN entries : entries[k].info[1] <= o <=> k <= UpTo(entries, o)
<1>1. PICK D : D = {k \in DOMAIN entries : entries[k].info[1] <= o}
  OBVIOUS
<1>2. PICK n \in Nat : n = Len(entries) /\ DOMAIN entries = 1..n
  BY LengthOf
<1>3. \A k \in D : \A m \in 1..k : m \in D
  <2>1. ASSUME NEW k \in D, NEW m \in 1..k
        PROVE  m \in D
    <3>1. k \in 1..n /\ m \in 1..n /\ k \in DOMAIN entries /\ m \in DOMAIN entries
      BY <1>1, <1>2
    <3>2. entries[k].info[1] \in Nat /\ entries[m].info[1] \in Nat
      BY <3>1, SlotsOf
    <3>3. m < k => entries[m].info[1] <= entries[k].info[1]
      BY <3>1 DEF MultiMaps, Ordered
    <3> QED
      BY <1>1, <3>1, <3>2, <3>3
  <2> QED
    BY <2>1
<1>4. D \in SUBSET (1..n)
  BY <1>1, <1>2
<1>5. Cardinality(D) \in 0..n /\ D = 1..Cardinality(D)
  BY <1>3, <1>4, PrefixIs
<1>6. UpTo(entries, o) = Cardinality(D)
  BY <1>1 DEF UpTo
<1>7. ASSUME NEW k \in DOMAIN entries
      PROVE  entries[k].info[1] <= o <=> k <= Cardinality(D)
  BY ONLY <1>1, <1>2, <1>5, k \in DOMAIN entries
<1> QED
  BY <1>2, <1>5, <1>6, <1>7

(* The first entry of an info; the only one of a distinct set.              *)
LEMMA FirstIs ==
  ASSUME NEW entries \in MultiMaps, NEW i \in InfosIn(entries)
  PROVE  /\ FirstOf(entries, i) \in DOMAIN entries
         /\ entries[FirstOf(entries, i)].info = i
         /\ \A m \in DOMAIN entries : entries[m].info = i => FirstOf(entries, i) <= m
<1>1. PICK F : F = FoundIn(entries, i)
  OBVIOUS
<1>2. F # {} /\ F \subseteq Nat
  BY <1>1, LengthOf DEF FoundIn, InfosIn
<1>3. \E k \in F : \A m \in F : k <= m
  BY <1>2, SmallestOf
<1>4. FirstOf(entries, i) \in F /\ \A m \in F : FirstOf(entries, i) <= m
  BY <1>1, <1>3 DEF FirstOf
<1> QED
  BY <1>1, <1>4 DEF FoundIn

LEMMA OnlyOne ==
  ASSUME NEW entries \in MultiMaps, Distinct(entries),
         NEW k \in DOMAIN entries, NEW m \in DOMAIN entries,
         entries[k].info = entries[m].info
  PROVE  k = m
BY LengthOf DEF Distinct

LEMMA RepOf ==
  ASSUME NEW entries \in MultiMaps, Distinct(entries), NEW k \in DOMAIN entries
  PROVE  RepsOf(entries)[entries[k].info] = entries[k].rep
<1>1. PICK i \in InfosIn(entries) : i = entries[k].info
  BY DEF InfosIn
<1>2. FirstOf(entries, i) = k
  BY <1>1, FirstIs, OnlyOne
<1> QED
  BY <1>1, <1>2 DEF RepsOf

LEMMA RepsAre ==
  ASSUME NEW entries \in MultiMaps, Distinct(entries),
         NEW reps, reps = [i \in InfosIn(entries) |-> reps[i]],
         \A k \in DOMAIN entries : reps[entries[k].info] = entries[k].rep
  PROVE  RepsOf(entries) = reps
<1>1. ASSUME NEW i \in InfosIn(entries)
      PROVE  RepsOf(entries)[i] = reps[i]
  <2>1. PICK k \in DOMAIN entries : entries[k].info = i
    BY DEF InfosIn
  <2> QED
    BY <2>1, RepOf
<1>2. RepsOf(entries) = [i \in InfosIn(entries) |-> RepsOf(entries)[i]]
  BY DEF RepsOf
<1> QED
  BY <1>1, <1>2

-----------------------------------------------------------------------------
(***************************************************************************)
(* What the operations do to the entries.                                   *)
(***************************************************************************)

(* A new entry goes behind those of its optimization.                       *)
LEMMA InsertedIs ==
  ASSUME NEW entries \in MultiMaps, NEW i \in Infos, NEW r \in Nat
  PROVE  \E p \in 1..(Len(entries) + 1) :
           /\ Inserted(entries, i, r) \in Seq(Slot)
           /\ Len(Inserted(entries, i, r)) = Len(entries) + 1
           /\ \A k \in 1..(Len(entries) + 1) : Inserted(entries, i, r)[k] =
                IF k < p THEN entries[k] ELSE IF k = p THEN [info |-> i, rep |-> r]
                                                       ELSE entries[k - 1]
           /\ \A k \in DOMAIN entries : entries[k].info[1] <= i[1] <=> k < p
<1>1. i[1] \in Int
  <2>1. i[1] \in Nat
    BY InfosArePairs
  <2> QED
    BY <2>1
<1>2. PICK u : u = UpTo(entries, i[1])
  OBVIOUS
<1>3. u \in 0..Len(entries) /\ \A k \in DOMAIN entries : entries[k].info[1] <= i[1] <=> k <= u
  BY <1>1, <1>2, UpToIs
<1>4. PICK slot : slot = [info |-> i, rep |-> r]
  OBVIOUS
<1>5. slot \in Slot
  BY <1>4 DEF Slot
<1>6. PICK p : p = u + 1
  OBVIOUS
<1>7. entries \in Seq(Slot) /\ p \in 1..(Len(entries) + 1)
  BY <1>3, <1>6, LengthOf DEF MultiMaps
<1>8. Inserted(entries, i, r) = InsertAt(entries, p, slot)
  BY <1>2, <1>4, <1>6 DEF Inserted
<1>9. /\ InsertAt(entries, p, slot) \in Seq(Slot)
      /\ Len(InsertAt(entries, p, slot)) = Len(entries) + 1
      /\ \A k \in 1..(Len(entries) + 1) : InsertAt(entries, p, slot)[k] =
           IF k < p THEN entries[k] ELSE IF k = p THEN slot ELSE entries[k - 1]
  BY ONLY <1>5, <1>7, InsertAtIs
<1>10. \A k \in DOMAIN entries : entries[k].info[1] <= i[1] <=> k < p
  BY <1>3, <1>6, LengthOf
<1> QED
  BY ONLY <1>4, <1>7, <1>8, <1>9, <1>10

(* An info that was not there has the repetition it is given.               *)
Extended(entries, i, r) ==
  [j \in InfosIn(entries) \cup {i} |->
     IF j \in InfosIn(entries) THEN RepsOf(entries)[j] ELSE r]

LEMMA InsertedKeeps ==
  ASSUME NEW entries \in MultiMaps, NEW i \in Infos, NEW r \in Nat,
         NEW t, t = Inserted(entries, i, r)
  PROVE  /\ t \in MultiMaps
         /\ InfosIn(t) = InfosIn(entries) \cup {i}
         /\ Distinct(entries) /\ i \notin InfosIn(entries) =>
              /\ Distinct(t)
              /\ RepsOf(t) = Extended(entries, i, r)
<1>1. PICK n \in Nat : n = Len(entries) /\ DOMAIN entries = 1..n
  BY LengthOf
<1>2. PICK p \in 1..(n + 1) :
        /\ t \in Seq(Slot)
        /\ Len(t) = n + 1
        /\ \A k \in 1..(n + 1) : t[k] =
             IF k < p THEN entries[k] ELSE IF k = p THEN [info |-> i, rep |-> r]
                                                    ELSE entries[k - 1]
        /\ \A k \in DOMAIN entries : entries[k].info[1] <= i[1] <=> k < p
  <2>1. \E p \in 1..(Len(entries) + 1) :
           /\ Inserted(entries, i, r) \in Seq(Slot)
           /\ Len(Inserted(entries, i, r)) = Len(entries) + 1
           /\ \A k \in 1..(Len(entries) + 1) : Inserted(entries, i, r)[k] =
                IF k < p THEN entries[k] ELSE IF k = p THEN [info |-> i, rep |-> r]
                                                       ELSE entries[k - 1]
           /\ \A k \in DOMAIN entries : entries[k].info[1] <= i[1] <=> k < p
    BY InsertedIs
  <2> QED
    BY ONLY t = Inserted(entries, i, r), <1>1, <2>1
<1>3. DOMAIN t = 1..(n + 1)
  BY <1>2
<1>4. ASSUME NEW k \in 1..n
      PROVE  /\ entries[k].info[1] \in Nat
             /\ entries[k].info \in InfosIn(entries)
             /\ \A m \in 1..n : k < m => entries[k].info[1] <= entries[m].info[1]
             /\ k < p <=> entries[k].info[1] <= i[1]
  BY <1>1, <1>2, SlotsOf DEF MultiMaps, Ordered, InfosIn
<1>5. i[1] \in Nat
  BY InfosArePairs
<1>6. /\ \A k \in 1..(n + 1) : k < p => k \in 1..n /\ t[k] = entries[k]
      /\ t[p].info = i /\ t[p].rep = r
      /\ \A k \in 1..(n + 1) : p < k => k - 1 \in 1..n /\ t[k] = entries[k - 1] /\ ~(k - 1 < p)
      /\ \A k \in 1..(n + 1) : k < p \/ k = p \/ p < k
  <2>1. \A k \in 1..(n + 1) : k < p => t[k] = entries[k]
    BY <1>2
  <2>2. t[p] = [info |-> i, rep |-> r]
    BY <1>2
  <2>3. \A k \in 1..(n + 1) : p < k => t[k] = entries[k - 1]
    BY <1>2
  <2> QED
    BY <2>1, <2>2, <2>3
<1>7. t \in MultiMaps
  <2>1. ASSUME NEW k \in 1..(n + 1), NEW m \in 1..(n + 1), k < m
        PROVE  t[k].info[1] <= t[m].info[1]
    <3>1. CASE m < p
      BY <1>4, <1>6, <2>1, <3>1
    <3>2. CASE m = p
      BY <1>4, <1>6, <2>1, <3>2
    <3>3. CASE p < m /\ k < p
      <4>1. t[k] = entries[k] /\ k \in 1..n /\ k < p /\ t[m] = entries[m - 1] /\ m - 1 \in 1..n
            /\ ~(m - 1 < p)
        BY <1>6, <3>3
      <4>2. k < m - 1
        BY <4>1
      <4> QED
        BY <1>4, <4>1, <4>2
    <3>4. CASE p < m /\ k = p
      <4>1. t[m] = entries[m - 1] /\ m - 1 \in 1..n /\ ~(m - 1 < p)
        BY <1>6, <3>4
      <4> QED
        BY <1>4, <1>5, <1>6, <3>4, <4>1
    <3>5. CASE p < m /\ p < k
      <4>1. /\ t[m] = entries[m - 1] /\ m - 1 \in 1..n
            /\ t[k] = entries[k - 1] /\ k - 1 \in 1..n
        BY <1>6, <3>5
      <4> QED
        BY <1>4, <2>1, <4>1
    <3> QED
      BY <1>6, <3>1, <3>2, <3>3, <3>4, <3>5
  <2> QED
    BY <1>2, <1>3, <2>1 DEF MultiMaps, Ordered
<1>8. ASSUME NEW k \in 1..n
      PROVE  \E m \in 1..(n + 1) : m # p /\ t[m] = entries[k]
  <2>1. CASE k < p
    BY <1>6, <2>1
  <2>2. CASE ~(k < p)
    <3>1. k + 1 \in 1..(n + 1) /\ p < k + 1 /\ (k + 1) - 1 = k
      BY <2>2
    <3>2. t[k + 1] = entries[k]
      BY <1>6, <3>1
    <3> QED
      BY <3>1, <3>2
  <2> QED
    BY <2>1, <2>2
<1>9. ASSUME NEW m \in 1..(n + 1), m # p
      PROVE  \E k \in 1..n : t[m] = entries[k]
  BY <1>6, <1>9
<1>10. InfosIn(t) = InfosIn(entries) \cup {i}
  <2>1. InfosIn(entries) \subseteq InfosIn(t)
    BY <1>1, <1>3, <1>8 DEF InfosIn
  <2>2. i \in InfosIn(t)
    BY <1>3, <1>6 DEF InfosIn
  <2>3. InfosIn(t) \subseteq InfosIn(entries) \cup {i}
    <3>1. ASSUME NEW m \in 1..(n + 1)
          PROVE  t[m].info \in InfosIn(entries) \cup {i}
      BY <1>4, <1>6, <1>9
    <3> QED
      BY <1>3, <3>1 DEF InfosIn
  <2> QED
    BY <2>1, <2>2, <2>3
<1>11. ASSUME Distinct(entries), i \notin InfosIn(entries)
       PROVE  /\ Distinct(t)
              /\ RepsOf(t) = Extended(entries, i, r)
  <2>1. ASSUME NEW k \in 1..(n + 1), NEW m \in 1..(n + 1), k < m
        PROVE  t[k].info # t[m].info
    <3>1. CASE k = p \/ m = p
      BY <1>4, <1>6, <1>9, <1>11, <2>1, <3>1
    <3>2. CASE k < p /\ m < p
      BY <1>1, <1>6, <1>11, <2>1, <3>2 DEF Distinct
    <3>3. CASE k < p /\ p < m
      <4>1. k \in 1..n /\ t[k] = entries[k] /\ m - 1 \in 1..n /\ t[m] = entries[m - 1] /\ k < m - 1
        BY <1>6, <3>3
      <4> QED
        BY <1>1, <1>11, <4>1 DEF Distinct
    <3>4. CASE p < k /\ p < m
      <4>1. k - 1 \in 1..n /\ t[k] = entries[k - 1] /\ m - 1 \in 1..n /\ t[m] = entries[m - 1]
            /\ k - 1 < m - 1
        BY <1>6, <2>1, <3>4
      <4> QED
        BY <1>1, <1>11, <4>1 DEF Distinct
    <3> QED
      BY <1>6, <2>1, <3>1, <3>2, <3>3, <3>4
  <2>2. Distinct(t)
    BY <1>3, <2>1 DEF Distinct
  <2>3. PICK reps :
          /\ reps = Extended(entries, i, r)
          /\ reps = [j \in InfosIn(entries) \cup {i} |->
                       IF j \in InfosIn(entries) THEN RepsOf(entries)[j] ELSE r]
    BY DEF Extended
  <2>4. ASSUME NEW m \in DOMAIN t
        PROVE  reps[t[m].info] = t[m].rep
    <3>1. CASE m = p
      BY <1>6, <1>11, <2>3, <3>1
    <3>2. CASE m # p
      <4>1. PICK k \in DOMAIN entries : t[m] = entries[k]
        BY <1>1, <1>3, <1>9, <3>2
      <4>2. entries[k].info \in InfosIn(entries)
        BY DEF InfosIn
      <4>3. RepsOf(entries)[entries[k].info] = entries[k].rep
        BY <1>11, RepOf
      <4> QED
        BY <1>11, <2>3, <4>1, <4>2, <4>3
    <3> QED
      BY <3>1, <3>2
  <2>5. reps = [j \in InfosIn(t) |-> reps[j]]
    BY <1>10, <2>3
  <2> QED
    BY <1>7, <2>2, <2>3, <2>4, <2>5, RepsAre
<1> QED
  BY <1>7, <1>10, <1>11

CutOut(entries, a, b) == {entries[k].info : k \in (a + 1)..b}

(* Entries that are cut out are gone, with their infos if they had them for  *)
(* themselves; the others keep their order and their repetitions.           *)
LEMMA CutKeeps ==
  ASSUME NEW entries \in MultiMaps, NEW a \in 0..Len(entries), NEW b \in a..Len(entries),
         NEW t, t = Cut(entries, a, b)
  PROVE  /\ t \in MultiMaps
         /\ Distinct(entries) =>
              /\ Distinct(t)
              /\ InfosIn(t) = InfosIn(entries) \ CutOut(entries, a, b)
              /\ RepsOf(t) = Restrict(RepsOf(entries), InfosIn(t))
<1> PICK gone : gone = CutOut(entries, a, b)
  OBVIOUS
<1>1. PICK n \in Nat : n = Len(entries) /\ DOMAIN entries = 1..n
  BY LengthOf
<1>2. a \in Nat /\ b \in Nat /\ a <= b /\ b <= n
  BY <1>1
<1>3. PICK d \in Nat : d = b - a /\ d <= n
  BY <1>2
<1>4. PICK rest \in Nat : rest = n - d
  BY <1>3
<1>5. /\ t \in Seq(Slot)
      /\ Len(t) = rest
      /\ \A k \in 1..rest : t[k] = IF k <= a THEN entries[k] ELSE entries[k + d]
  <2>1. entries \in Seq(Slot)
    BY DEF MultiMaps
  <2>2. /\ t \in Seq(Slot)
        /\ Len(t) = Len(entries) - (b - a)
        /\ \A k \in 1..(Len(entries) - (b - a)) :
             t[k] = IF k <= a THEN entries[k] ELSE entries[k + (b - a)]
    <3>1. /\ Cut(entries, a, b) \in Seq(Slot)
          /\ Len(Cut(entries, a, b)) = Len(entries) - (b - a)
          /\ \A k \in 1..(Len(entries) - (b - a)) :
               Cut(entries, a, b)[k] = IF k <= a THEN entries[k] ELSE entries[k + (b - a)]
      BY ONLY <2>1, a \in 0..Len(entries), b \in a..Len(entries), CutIs
    <3> QED
      BY ONLY <3>1, t = Cut(entries, a, b)
  <2> QED
    BY ONLY <1>1, <1>3, <1>4, <2>2
<1>6. DOMAIN t = 1..rest
  BY ONLY <1>4, <1>5
<1> DEFINE From(k) == IF k <= a THEN k ELSE k + d
<1>7. ASSUME NEW k \in 1..rest
      PROVE  /\ From(k) \in 1..n
             /\ t[k] = entries[From(k)]
             /\ \A m \in 1..rest : k < m => From(k) < From(m)
             /\ From(k) \notin (a + 1)..b
  <2>1. From(k) \in 1..n /\ From(k) \notin (a + 1)..b
    BY ONLY <1>2, <1>3, <1>4, n \in Nat, d \in Nat, rest \in Nat, k \in 1..rest
  <2>2. t[k] = entries[From(k)]
    BY ONLY <1>5, k \in 1..rest
  <2>3. \A m \in 1..rest : k < m => From(k) < From(m)
    BY ONLY <1>2, d \in Nat, rest \in Nat, k \in 1..rest
  <2> QED
    BY <2>1, <2>2, <2>3
<1>8. ASSUME NEW k \in 1..n, k \notin (a + 1)..b
      PROVE  \E m \in 1..rest : From(m) = k
  <2>1. CASE k <= a
    <3>1. k \in 1..rest /\ From(k) = k
      BY <1>2, <1>3, <1>4, <2>1
    <3> QED
      BY <3>1
  <2>2. CASE ~(k <= a)
    <3>1. k - d \in 1..rest /\ From(k - d) = k
      BY <1>2, <1>3, <1>4, <1>8, <2>2
    <3> QED
      BY <3>1
  <2> QED
    BY <2>1, <2>2
<1> HIDE DEF From
<1>9. t \in MultiMaps
  <2>1. ASSUME NEW k \in 1..rest, NEW m \in 1..rest, k < m
        PROVE  t[k].info[1] <= t[m].info[1]
    <3>1. /\ From(k) \in DOMAIN entries /\ From(m) \in DOMAIN entries /\ From(k) < From(m)
          /\ t[k] = entries[From(k)] /\ t[m] = entries[From(m)]
      BY ONLY <1>1, <1>7, <2>1
    <3>2. Ordered(entries)
      BY DEF MultiMaps
    <3> QED
      BY ONLY <3>1, <3>2 DEF Ordered
  <2> QED
    BY ONLY <1>5, <1>6, <2>1 DEF MultiMaps, Ordered
<1>10. ASSUME Distinct(entries)
       PROVE  /\ Distinct(t)
              /\ InfosIn(t) = InfosIn(entries) \ gone
              /\ RepsOf(t) = Restrict(RepsOf(entries), InfosIn(t))
  <2>1. Distinct(t)
    <3>1. ASSUME NEW k \in 1..rest, NEW m \in 1..rest, k < m
          PROVE  t[k].info # t[m].info
      <4>1. /\ From(k) \in DOMAIN entries /\ From(m) \in DOMAIN entries /\ From(k) < From(m)
            /\ t[k] = entries[From(k)] /\ t[m] = entries[From(m)]
        BY ONLY <1>1, <1>7, <3>1
      <4> QED
        BY ONLY <1>10, <4>1 DEF Distinct
    <3> QED
      BY ONLY <1>6, <3>1 DEF Distinct
  <2>2. ASSUME NEW i \in InfosIn(t)
        PROVE  i \in InfosIn(entries) /\ i \notin gone
    <3>1. PICK k \in 1..rest : t[k].info = i
      BY <1>6 DEF InfosIn
    <3>2. From(k) \in DOMAIN entries /\ entries[From(k)].info = i
      BY <1>1, <1>7, <3>1
    <3>3. ASSUME NEW m \in (a + 1)..b
          PROVE  entries[m].info # i
      <4>1. m \in DOMAIN entries /\ m # From(k)
        <5>1. m \in 1..n
          BY <1>2
        <5>2. From(k) \notin (a + 1)..b
          BY ONLY <1>7, k \in 1..rest
        <5> QED
          BY ONLY <1>1, <5>1, <5>2, m \in (a + 1)..b
      <4> QED
        BY <1>10, <3>2, <4>1, OnlyOne
    <3> QED
      BY <3>2, <3>3 DEF InfosIn, CutOut
  <2>3. ASSUME NEW i \in InfosIn(entries), i \notin gone
        PROVE  i \in InfosIn(t)
    <3>1. PICK k \in 1..n : entries[k].info = i
      BY <1>1 DEF InfosIn
    <3>2. k \notin (a + 1)..b
      BY <2>3, <3>1 DEF CutOut
    <3>3. PICK m \in 1..rest : From(m) = k
      BY <1>8, <3>2
    <3>4. t[m].info = i
      BY <1>7, <3>1, <3>3
    <3> QED
      BY <1>6, <3>4 DEF InfosIn
  <2>4. PICK reps : reps = Restrict(RepsOf(entries), InfosIn(t))
    OBVIOUS
  <2>5. reps = [i \in InfosIn(t) |-> RepsOf(entries)[i]]
    BY <2>4 DEF Restrict
  <2>6. ASSUME NEW k \in DOMAIN t
        PROVE  reps[t[k].info] = t[k].rep
    <3>1. From(k) \in DOMAIN entries /\ t[k] = entries[From(k)]
      BY <1>1, <1>6, <1>7
    <3>2. RepsOf(entries)[t[k].info] = t[k].rep
      BY <1>10, <3>1, RepOf
    <3>3. t[k].info \in InfosIn(t)
      BY DEF InfosIn
    <3> QED
      BY <2>5, <3>2, <3>3
  <2>7. reps = [i \in InfosIn(t) |-> reps[i]]
    BY <2>5
  <2>8. RepsOf(t) = reps
    BY <1>9, <2>1, <2>6, <2>7, RepsAre
  <2> QED
    BY <2>1, <2>2, <2>3, <2>4, <2>8
<1> QED
  BY <1>9, <1>10

(* An info that is found is erased.                                         *)
LEMMA RemovedKeeps ==
  ASSUME NEW entries \in MultiMaps, NEW k \in DOMAIN entries,
         NEW t, t = RemoveAt(entries, k)
  PROVE  /\ t \in MultiMaps
         /\ Distinct(entries) =>
              /\ Distinct(t)
              /\ RepsOf(t) = Restrict(RepsOf(entries), InfosIn(entries) \ {entries[k].info})
<1>1. k \in 1..Len(entries) /\ Len(entries) \in Nat
  BY LengthOf
<1>2. PICK a : a = k - 1
  OBVIOUS
<1>3. a \in 0..Len(entries) /\ k \in a..Len(entries)
  BY <1>1, <1>2
<1>4. t = Cut(entries, a, k)
  BY <1>2 DEF RemoveAt, Cut
<1>5. (a + 1)..k = {k}
  BY <1>1, <1>2
<1>6. CutOut(entries, a, k) = {entries[k].info}
  BY <1>5 DEF CutOut
<1>7. /\ t \in MultiMaps
      /\ Distinct(entries) =>
           /\ Distinct(t)
           /\ InfosIn(t) = InfosIn(entries) \ {entries[k].info}
           /\ RepsOf(t) = Restrict(RepsOf(entries), InfosIn(t))
  BY ONLY entries \in MultiMaps, <1>3, <1>4, <1>6, CutKeeps
<1> QED
  BY ONLY <1>7

(* All entries of an optimization are erased, and no others.                *)
LEMMA ErasedKeeps ==
  ASSUME NEW entries \in MultiMaps, NEW o \in Nat,
         NEW t, t = Erased(entries, o)
  PROVE  /\ t \in MultiMaps
         /\ Distinct(entries) =>
              /\ Distinct(t)
              /\ RepsOf(t) = Restrict(RepsOf(entries),
                                      InfosIn(entries) \ {j \in Infos : j[1] = o})
<1>1. o \in Int /\ o - 1 \in Int
  OBVIOUS
<1>2. PICK a : a = UpTo(entries, o - 1)
  OBVIOUS
<1>3. PICK b : b = UpTo(entries, o)
  OBVIOUS
<1>4. a \in 0..Len(entries) /\ \A k \in DOMAIN entries : entries[k].info[1] <= o - 1 <=> k <= a
  BY <1>1, <1>2, UpToIs
<1>5. b \in 0..Len(entries) /\ \A k \in DOMAIN entries : entries[k].info[1] <= o <=> k <= b
  BY <1>1, <1>3, UpToIs
<1>6. b \in a..Len(entries)
  <2>1. CASE a = 0
    BY <1>4, <1>5, <2>1, LengthOf
  <2>2. CASE a # 0
    <3>1. a \in DOMAIN entries
      BY <1>4, <2>2, LengthOf
    <3>2. entries[a].info[1] <= o - 1 /\ entries[a].info[1] \in Nat
      BY <1>4, <3>1, SlotsOf
    <3>3. entries[a].info[1] <= o
      BY <3>2
    <3> QED
      BY <1>4, <1>5, <3>1, <3>3
  <2> QED
    BY <2>1, <2>2
<1>7. t = Cut(entries, a, b)
  BY <1>2, <1>3 DEF Erased, Cut
<1>8. ASSUME NEW k \in DOMAIN entries
      PROVE  k \in (a + 1)..b <=> entries[k].info[1] = o
  <2>1. entries[k].info[1] \in Nat /\ k \in Nat /\ k \in 1..Len(entries)
    BY SlotsOf
  <2> QED
    BY ONLY <1>4, <1>5, <2>1, o \in Nat, k \in DOMAIN entries
<1>9. (a + 1)..b \subseteq DOMAIN entries
  BY <1>4, <1>5, LengthOf
<1>10. PICK gone : gone = {entries[k].info : k \in (a + 1)..b} /\ gone = CutOut(entries, a, b)
  BY DEF CutOut
<1>11. InfosIn(entries) \ gone = InfosIn(entries) \ {j \in Infos : j[1] = o}
  <2>1. ASSUME NEW i \in InfosIn(entries)
        PROVE  i \in gone <=> i \in {j \in Infos : j[1] = o}
    <3>1. PICK k \in DOMAIN entries : entries[k].info = i
      BY DEF InfosIn
    <3>2. i \in Infos
      BY <3>1, SlotsOf
    <3>3. i[1] = o => i \in gone
      BY <1>8, <1>10, <3>1
    <3>4. i \in gone => i[1] = o
      BY <1>8, <1>9, <1>10
    <3> QED
      BY <3>2, <3>3, <3>4
  <2> QED
    BY <2>1
<1>12. /\ t \in MultiMaps
       /\ Distinct(entries) =>
            /\ Distinct(t)
            /\ InfosIn(t) = InfosIn(entries) \ gone
            /\ RepsOf(t) = Restrict(RepsOf(entries), InfosIn(t))
  BY ONLY entries \in MultiMaps, <1>4, <1>6, <1>7, <1>10, CutKeeps
<1> QED
  BY ONLY <1>11, <1>12

(* An entry gets another repetition, or another info of its optimization.   *)
GivenAt(entries, k, r) == [entries EXCEPT ![k].rep = r]
Regiven(reps, i, r)    == [reps EXCEPT ![i] = r]

LEMMA GivenKeeps ==
  ASSUME NEW entries \in MultiMaps, NEW k \in DOMAIN entries, NEW r \in Nat,
         NEW t, t = GivenAt(entries, k, r)
  PROVE  /\ t \in MultiMaps
         /\ InfosIn(t) = InfosIn(entries)
         /\ Distinct(entries) =>
              /\ Distinct(t)
              /\ RepsOf(t) = Regiven(RepsOf(entries), entries[k].info, r)
<1>1. entries \in Seq(Slot)
  BY DEF MultiMaps
<1>2. PICK slot : slot = [entries[k] EXCEPT !.rep = r]
  OBVIOUS
<1>3. slot \in Slot /\ slot.info = entries[k].info /\ slot.rep = r
  BY <1>2, SlotsOf DEF Slot
<1>4. t = [entries EXCEPT ![k] = slot]
  BY <1>2 DEF GivenAt
<1>5. t \in Seq(Slot) /\ DOMAIN t = DOMAIN entries
  BY <1>1, <1>3, <1>4
<1>6. \A m \in DOMAIN entries :
        t[m].info = entries[m].info /\ t[m].rep = IF m = k THEN r ELSE entries[m].rep
  BY <1>3, <1>4
<1>7. t \in MultiMaps /\ InfosIn(t) = InfosIn(entries) /\ (Distinct(entries) => Distinct(t))
  BY ONLY <1>5, <1>6, entries \in MultiMaps DEF MultiMaps, Ordered, InfosIn, Distinct
<1>8. ASSUME Distinct(entries)
      PROVE  RepsOf(t) = Regiven(RepsOf(entries), entries[k].info, r)
  <2>1. PICK reps : /\ reps = Regiven(RepsOf(entries), entries[k].info, r)
                    /\ reps = [RepsOf(entries) EXCEPT ![entries[k].info] = r]
    BY DEF Regiven
  <2>2. reps = [i \in InfosIn(t) |-> reps[i]]
    BY <1>7, <2>1 DEF RepsOf
  <2>3. ASSUME NEW m \in DOMAIN t
        PROVE  reps[t[m].info] = t[m].rep
    <3>1. RepsOf(entries)[entries[m].info] = entries[m].rep
      BY <1>5, <1>8, RepOf
    <3>2. entries[m].info \in DOMAIN RepsOf(entries)
      BY <1>5 DEF InfosIn, RepsOf
    <3>3. CASE m = k
      BY <1>6, <2>1, <3>2, <3>3
    <3>4. CASE m # k
      <4>1. entries[m].info # entries[k].info
        BY <1>5, <1>8, <3>4, OnlyOne
      <4> QED
        BY <1>5, <1>6, <2>1, <3>1, <3>2, <3>4, <4>1
    <3> QED
      BY <3>3, <3>4
  <2> QED
    <3>1. RepsOf(t) = reps
      BY ONLY <1>7, <1>8, <2>2, <2>3, RepsAre, Zenon
    <3> QED
      BY <2>1, <3>1
<1> QED
  BY <1>7, <1>8

WrittenAt(entries, k, i) == [entries EXCEPT ![k].info = i]

LEMMA WrittenKeeps ==
  ASSUME NEW entries \in MultiMaps, NEW k \in DOMAIN entries, NEW i \in Infos,
         i[1] = entries[k].info[1],
         NEW t, t = WrittenAt(entries, k, i)
  PROVE  t \in MultiMaps /\ DOMAIN t = DOMAIN entries
<1>1. entries \in Seq(Slot)
  BY DEF MultiMaps
<1>2. PICK slot : slot = [entries[k] EXCEPT !.info = i]
  OBVIOUS
<1>3. slot \in Slot /\ slot.info = i
  BY <1>2, SlotsOf DEF Slot
<1>4. t = [entries EXCEPT ![k] = slot]
  BY <1>2 DEF WrittenAt
<1>5. t \in Seq(Slot) /\ DOMAIN t = DOMAIN entries
  BY <1>1, <1>3, <1>4
<1>6. \A m \in DOMAIN entries : t[m].info[1] = entries[m].info[1]
  BY <1>3, <1>4
<1> QED
  BY ONLY <1>5, <1>6, entries \in MultiMaps DEF MultiMaps, Ordered

-----------------------------------------------------------------------------
(***************************************************************************)
(* Enabling several, one after the other.                                   *)
(***************************************************************************)
LEMMA WithEnabledKeeps ==
  ASSUME NEW entries \in MultiMaps, NEW i \in Infos, NEW r \in Nat,
         NEW t, t = WithEnabled(entries, i, r)
  PROVE  /\ t \in MultiMaps
         /\ InfosIn(t) = InfosIn(entries) \cup {i}
         /\ Distinct(entries) =>
              /\ Distinct(t)
              /\ RepsOf(t) = Extended(entries, i, r)
<1>1. CASE i \in InfosIn(entries)
  <2>1. t = entries
    BY <1>1 DEF WithEnabled, InfosIn
  <2>2. InfosIn(entries) \cup {i} = InfosIn(entries)
    BY <1>1
  <2>3. RepsOf(entries) = Extended(entries, i, r)
    BY <2>2 DEF RepsOf, Extended
  <2> QED
    BY ONLY entries \in MultiMaps, <2>1, <2>2, <2>3
<1>2. CASE i \notin InfosIn(entries)
  <2>1. t = Inserted(entries, i, r)
    BY <1>2 DEF WithEnabled, InfosIn
  <2> QED
    BY <1>2, <2>1, InsertedKeeps
<1> QED
  BY <1>1, <1>2

LEMMA OptimizationsFinite ==
  IsFiniteSet(Optimizations) /\ \A S \in SUBSET Optimizations : IsFiniteSet(S)
<1>1. PICK f : f = [i \in Infos |-> i[1]]
  OBVIOUS
<1>2. f \in Surjection(Infos, Optimizations)
  BY <1>1 DEF Surjection, Optimizations
<1>3. IsFiniteSet(Optimizations)
  BY <1>2, FS_Surjection, SetAssumption
<1> QED
  BY <1>3, FS_Subset

LEMMA DefaultInfos ==
  ASSUME NEW o \in Optimizations
  PROVE  <<o, Default>> \in Infos
BY InfosArePairs DEF Optimizations

(* The fold of enableOptimizations, as a function of what it has enabled.   *)
EnablingAll(start, S) ==
  CHOOSE iter : iter = [s \in SUBSET S |->
    IF s = {} THEN start
    ELSE LET x == CHOOSE x \in s : TRUE
         IN  WithEnabled(iter[s \ {x}], <<x, Default>>, 1)]

LEMMA EnablingAllIs ==
  ASSUME NEW start \in MultiMaps, NEW S \in SUBSET Optimizations
  PROVE  /\ FoldSet(LAMBDA o, entries : WithEnabled(entries, <<o, Default>>, 1), start, S)
              = EnablingAll(start, S)[S]
         /\ EnablingAll(start, S)[{}] = start
         /\ \A s \in SUBSET S : s # {} =>
              \E x \in s : EnablingAll(start, S)[s] =
                             WithEnabled(EnablingAll(start, S)[s \ {x}], <<x, Default>>, 1)
<1>1. FoldSet(LAMBDA o, entries : WithEnabled(entries, <<o, Default>>, 1), start, S)
        = EnablingAll(start, S)[S]
  BY DEF FoldSet, MapThenFoldSet, EnablingAll
<1>2. PICK step : step = [o \in S |-> [e \in MultiMaps |-> WithEnabled(e, <<o, Default>>, 1)]]
  OBVIOUS
<1>3. PICK chosen : chosen = [s \in SUBSET S |-> CHOOSE x \in s : TRUE]
  OBVIOUS
<1>4. \A s \in SUBSET S : s # {} => chosen[s] \in s
  BY <1>3
<1>5. \A x \in S : \A v \in MultiMaps : step[x][v] \in MultiMaps
  <2>1. ASSUME NEW x \in S, NEW v \in MultiMaps
        PROVE  step[x][v] \in MultiMaps
    <3>1. <<x, Default>> \in Infos /\ 1 \in Nat
      BY DefaultInfos
    <3>2. WithEnabled(v, <<x, Default>>, 1) \in MultiMaps
      BY <3>1, WithEnabledKeeps
    <3> QED
      BY <1>2, <3>2
  <2> QED
    BY <2>1
<1>6. PICK iter \in [SUBSET S -> MultiMaps] : \A s \in SUBSET S :
        iter[s] = IF s = {} THEN start ELSE step[chosen[s]][iter[s \ {chosen[s]}]]
  <2>1. IsFiniteSet(S)
    BY OptimizationsFinite
  <2>2. \E iter \in [SUBSET S -> MultiMaps] : IsFold(iter, S, start, chosen, step)
    BY ONLY <1>4, <1>5, <2>1, FoldExists, start \in MultiMaps
  <2> QED
    BY ONLY <2>2 DEF IsFold
<1> DEFINE Is(f) ==
      f = [s \in SUBSET S |->
             IF s = {} THEN start
             ELSE LET x == CHOOSE x \in s : TRUE
                  IN  WithEnabled(f[s \ {x}], <<x, Default>>, 1)]
<1>7. Is(iter)
  <2>1. ASSUME NEW s \in SUBSET S, s # {}
        PROVE  iter[s] = LET x == CHOOSE x \in s : TRUE
                         IN  WithEnabled(iter[s \ {x}], <<x, Default>>, 1)
    <3>1. PICK x : x = CHOOSE y \in s : TRUE
      OBVIOUS
    <3>2. x = chosen[s] /\ x \in S /\ iter[s \ {x}] \in MultiMaps
      BY <1>3, <1>6, <2>1, <3>1
    <3>3. iter[s] = step[x][iter[s \ {x}]]
      BY <1>6, <2>1, <3>2
    <3>4. iter[s] = WithEnabled(iter[s \ {x}], <<x, Default>>, 1)
      BY <1>2, <3>2, <3>3
    <3> QED
      BY <3>1, <3>4
  <2>2. \A s \in SUBSET S : s = {} => iter[s] = start
    BY <1>6
  <2> QED
    BY <1>6, <2>1, <2>2
<1>8. Is(EnablingAll(start, S))
  BY <1>7 DEF EnablingAll
<1>9. EnablingAll(start, S)[{}] = start
  BY <1>8
<1>10. ASSUME NEW s \in SUBSET S, s # {}
       PROVE  \E x \in s : EnablingAll(start, S)[s] =
                             WithEnabled(EnablingAll(start, S)[s \ {x}], <<x, Default>>, 1)
  <2>1. PICK x : x = CHOOSE y \in s : TRUE
    OBVIOUS
  <2>2. x \in s
    BY <1>10, <2>1
  <2>3. EnablingAll(start, S)[s] = WithEnabled(EnablingAll(start, S)[s \ {x}], <<x, Default>>, 1)
    BY <1>8, <1>10, <2>1
  <2> QED
    BY <2>2, <2>3
<1> QED
  BY <1>1, <1>9, <1>10

LEMMA ProductWithout ==
  ASSUME NEW S, NEW d, NEW x \in S
  PROVE  S \X {d} = ((S \ {x}) \X {d}) \cup {<<x, d>>}
<1>1. ASSUME NEW p \in S \X {d}
      PROVE  p \in ((S \ {x}) \X {d}) \cup {<<x, d>>}
  <2>1. PICK y \in S : p = <<y, d>>
    OBVIOUS
  <2> QED
    BY <2>1
<1>2. ASSUME NEW p \in ((S \ {x}) \X {d}) \cup {<<x, d>>}
      PROVE  p \in S \X {d}
  <2>1. CASE p = <<x, d>>
    BY <2>1
  <2>2. CASE p \in (S \ {x}) \X {d}
    BY <2>2
  <2> QED
    BY <2>1, <2>2
<1> QED
  BY <1>1, <1>2

(* All of a set are enabled once; what was enabled before stays as it was.   *)
LEMMA EnableAllKeeps ==
  ASSUME NEW start \in MultiMaps, NEW S \in SUBSET Optimizations, NEW t,
         t = FoldSet(LAMBDA o, entries : WithEnabled(entries, <<o, Default>>, 1), start, S)
  PROVE  /\ t \in MultiMaps
         /\ Distinct(start) =>
              /\ Distinct(t)
              /\ RepsOf(t) = [i \in InfosIn(start) \cup (S \X {Default}) |->
                                IF i \in InfosIn(start) THEN RepsOf(start)[i] ELSE 1]
<1> DEFINE After(s) == EnablingAll(start, S)[s]
           Reps(s) == [i \in InfosIn(start) \cup (s \X {Default}) |->
                         IF i \in InfosIn(start) THEN RepsOf(start)[i] ELSE 1]
           Fine(s) == /\ After(s) \in MultiMaps
                      /\ Distinct(start) => Distinct(After(s)) /\ RepsOf(After(s)) = Reps(s)
           Good == {s \in SUBSET S : Fine(s)}
<1>1. /\ t = After(S)
      /\ After({}) = start
      /\ \A s \in SUBSET S : s # {} =>
           \E x \in s : After(s) = WithEnabled(After(s \ {x}), <<x, Default>>, 1)
  BY EnablingAllIs
<1> HIDE DEF After
<1>2. Fine({})
  <2>1. RepsOf(start) = Reps({})
    <3>1. InfosIn(start) \cup ({} \X {Default}) = InfosIn(start)
      OBVIOUS
    <3> QED
      BY <3>1 DEF RepsOf
  <2> QED
    BY <1>1, <2>1
<1>3. ASSUME NEW s \in SUBSET S, NEW x \in s, Fine(s \ {x}),
             After(s) = WithEnabled(After(s \ {x}), <<x, Default>>, 1)
      PROVE  Fine(s)
  <2>1. PICK before : before = After(s \ {x})
    OBVIOUS
  <2>2. PICK i : i = <<x, Default>>
    OBVIOUS
  <2>3. before \in MultiMaps /\ i \in Infos /\ 1 \in Nat
    BY <1>3, <2>1, <2>2, DefaultInfos
  <2>4. After(s) = WithEnabled(before, i, 1)
    BY <1>3, <2>1, <2>2
  <2>5. /\ After(s) \in MultiMaps
        /\ Distinct(before) => Distinct(After(s)) /\ RepsOf(After(s)) = Extended(before, i, 1)
    BY <2>3, <2>4, WithEnabledKeeps
  <2>6. ASSUME Distinct(start)
        PROVE  Extended(before, i, 1) = Reps(s) /\ Distinct(before)
    <3>1. Distinct(before) /\ RepsOf(before) = Reps(s \ {x})
      BY <1>3, <2>1, <2>6
    <3>2. InfosIn(before) = InfosIn(start) \cup ((s \ {x}) \X {Default})
      <4>1. DOMAIN RepsOf(before) = InfosIn(before)
        BY DEF RepsOf
      <4> QED
        BY <3>1, <4>1
    <3>3. InfosIn(before) \cup {i} = InfosIn(start) \cup (s \X {Default})
      <4>1. s \X {Default} = ((s \ {x}) \X {Default}) \cup {i}
        BY ONLY <2>2, ProductWithout, x \in s
      <4> QED
        BY ONLY <3>2, <4>1
    <3>4. ASSUME NEW j \in InfosIn(start) \cup (s \X {Default})
          PROVE  (IF j \in InfosIn(before) THEN RepsOf(before)[j] ELSE 1)
                   = IF j \in InfosIn(start) THEN RepsOf(start)[j] ELSE 1
      <4>1. CASE j \in InfosIn(before)
        BY <3>1, <3>2, <4>1
      <4>2. CASE j \notin InfosIn(before)
        BY <3>2, <4>2
      <4> QED
        BY <4>1, <4>2
    <3> QED
      BY <3>1, <3>3, <3>4 DEF Extended
  <2> QED
    BY <2>5, <2>6
<1> HIDE DEF Fine
<1>4. \A s \in SUBSET S : (\A x \in s : s \ {x} \in Good) => s \in Good
  <2>1. ASSUME NEW s \in SUBSET S, \A x \in s : s \ {x} \in Good, s # {}
        PROVE  s \in Good
    <3>1. PICK x \in s : After(s) = WithEnabled(After(s \ {x}), <<x, Default>>, 1)
      BY <1>1, <2>1
    <3>2. Fine(s \ {x})
      BY <2>1
    <3> QED
      BY <1>3, <3>1, <3>2
  <2>2. {} \in Good
    BY <1>2
  <2> QED
    BY <2>1, <2>2
<1>5. S \in Good
  <2>1. IsFiniteSet(S)
    BY OptimizationsFinite
  <2> HIDE DEF Good
  <2> QED
    BY ONLY <1>4, <2>1, FiniteInduction
<1>6. Fine(S)
  BY <1>5
<1> QED
  BY <1>1, <1>6 DEF Fine

(* The fold of generate from a sequence, as a function of the places of the  *)
(* sequence it has come to.                                                 *)
LEMMA MaxIs ==
  ASSUME NEW n \in Nat, NEW s \in SUBSET (1..n), s # {}
  PROVE  Max(s) \in s /\ \A m \in s : Max(s) >= m
<1>1. PICK T : T = {k \in Nat : \A m \in s : k >= m}
  OBVIOUS
<1>2. n \in T /\ T \subseteq Nat
  BY <1>1
<1>3. PICK k \in T : \A l \in T : k <= l
  BY <1>2, SmallestOf
<1>4. k \in s
  <2> SUFFICES ASSUME k \notin s
               PROVE  FALSE
    OBVIOUS
  <2>1. k \in Nat /\ \A m \in s : k > m /\ m \in Nat
    BY <1>1
  <2>2. PICK m \in s : m \in Nat /\ k > m
    BY <2>1
  <2>3. k - 1 \in Nat
    BY <2>1, <2>2
  <2>4. \A l \in s : k - 1 >= l
    BY <2>1
  <2>5. k - 1 \in T
    BY <1>1, <2>3, <2>4
  <2> QED
    BY <1>3, <2>1, <2>5
<1>5. \E k1 \in s : \A m \in s : k1 >= m
  BY <1>1, <1>4
<1> QED
  BY <1>5 DEF Max

EmptyIsFine == <<>> \in MultiMaps /\ Distinct(<<>>) /\ InfosIn(<<>>) = {}

LEMMA EmptySet == EmptyIsFine
<1>1. <<>> \in Seq(Slot) /\ DOMAIN <<>> = {}
  OBVIOUS
<1> QED
  BY <1>1 DEF EmptyIsFine, MultiMaps, Ordered, Distinct, InfosIn

Collecting(seq) ==
  CHOOSE iter : iter = [s \in SUBSET DOMAIN seq |->
    IF s = {} THEN <<>>
    ELSE LET x == Max(s)
         IN  WithEnabled(iter[s \ {x}], seq[x], Occurrences(seq[x], seq))]

LEMMA OccurrencesType ==
  ASSUME NEW seq \in Seq(Infos), NEW i
  PROVE  Occurrences(i, seq) \in Nat
<1>1. IsFiniteSet(1..Len(seq))
  BY FS_Interval
<1>2. PICK D : D = {k \in DOMAIN seq : seq[k] = i}
  OBVIOUS
<1>3. D \in SUBSET (1..Len(seq))
  BY <1>2
<1> QED
  BY <1>1, <1>2, <1>3, FS_Subset, FS_CardinalityType DEF Occurrences

LEMMA CollectingIs ==
  ASSUME NEW seq \in Seq(Infos)
  PROVE  /\ FoldLeft(LAMBDA entries, i : WithEnabled(entries, i, Occurrences(i, seq)), <<>>, seq)
              = Collecting(seq)[DOMAIN seq]
         /\ Collecting(seq)[{}] = <<>>
         /\ \A s \in SUBSET DOMAIN seq : s # {} =>
              \E x \in s : Collecting(seq)[s] =
                WithEnabled(Collecting(seq)[s \ {x}], seq[x], Occurrences(seq[x], seq))
<1>1. FoldLeft(LAMBDA entries, i : WithEnabled(entries, i, Occurrences(i, seq)), <<>>, seq)
        = Collecting(seq)[DOMAIN seq]
  BY DEF FoldLeft, MapThenFoldSet, Collecting
<1>2. PICK n \in Nat : n = Len(seq) /\ DOMAIN seq = 1..n
  OBVIOUS
<1>3. IsFiniteSet(1..n)
  BY FS_Interval
<1>4. PICK step : step = [k \in 1..n |-> [e \in MultiMaps |->
                            WithEnabled(e, seq[k], Occurrences(seq[k], seq))]]
  OBVIOUS
<1>5. PICK chosen : chosen = [s \in SUBSET (1..n) |-> Max(s)]
  OBVIOUS
<1>6. \A s \in SUBSET (1..n) : s # {} => chosen[s] \in s
  BY <1>5, MaxIs
<1>7. \A k \in 1..n : \A v \in MultiMaps : step[k][v] \in MultiMaps
  <2>1. ASSUME NEW k \in 1..n, NEW v \in MultiMaps
        PROVE  step[k][v] \in MultiMaps
    <3>1. seq[k] \in Infos /\ Occurrences(seq[k], seq) \in Nat
      BY <1>2, OccurrencesType
    <3>2. WithEnabled(v, seq[k], Occurrences(seq[k], seq)) \in MultiMaps
      BY <3>1, WithEnabledKeeps
    <3> QED
      BY <1>4, <3>2
  <2> QED
    BY <2>1
<1>8. PICK iter \in [SUBSET (1..n) -> MultiMaps] : \A s \in SUBSET (1..n) :
        iter[s] = IF s = {} THEN <<>> ELSE step[chosen[s]][iter[s \ {chosen[s]}]]
  <2>1. \E iter \in [SUBSET (1..n) -> MultiMaps] : IsFold(iter, 1..n, <<>>, chosen, step)
    <3>1. <<>> \in MultiMaps
      BY EmptySet DEF EmptyIsFine
    <3> QED
      BY ONLY <1>3, <1>6, <1>7, <3>1, FoldExists
  <2> QED
    BY ONLY <2>1 DEF IsFold
<1> DEFINE Is(f) ==
      f = [s \in SUBSET DOMAIN seq |->
             IF s = {} THEN <<>>
             ELSE LET x == Max(s)
                  IN  WithEnabled(f[s \ {x}], seq[x], Occurrences(seq[x], seq))]
<1>9. Is(iter)
  <2>1. ASSUME NEW s \in SUBSET (1..n), s # {}
        PROVE  iter[s] = LET x == Max(s)
                         IN  WithEnabled(iter[s \ {x}], seq[x], Occurrences(seq[x], seq))
    <3>1. PICK x : x = Max(s)
      OBVIOUS
    <3>2. x = chosen[s] /\ x \in 1..n
      BY <1>5, <1>6, <2>1, <3>1
    <3>3. iter[s \ {x}] \in MultiMaps
      BY <1>8
    <3>4. iter[s] = step[x][iter[s \ {x}]]
      BY <1>8, <2>1, <3>2
    <3>5. iter[s] = WithEnabled(iter[s \ {x}], seq[x], Occurrences(seq[x], seq))
      BY <1>4, <3>2, <3>3, <3>4
    <3> QED
      BY <3>1, <3>5
  <2>2. \A s \in SUBSET (1..n) : s = {} => iter[s] = <<>>
    BY <1>8
  <2> QED
    BY <1>2, <1>8, <2>1, <2>2
<1>10. Is(Collecting(seq))
  BY <1>9 DEF Collecting
<1>11. Collecting(seq)[{}] = <<>>
  BY <1>10
<1>12. ASSUME NEW s \in SUBSET DOMAIN seq, s # {}
       PROVE  \E x \in s : Collecting(seq)[s] =
                WithEnabled(Collecting(seq)[s \ {x}], seq[x], Occurrences(seq[x], seq))
  <2>1. PICK x : x = Max(s)
    OBVIOUS
  <2>2. x \in s
    BY <1>2, <1>12, <2>1, MaxIs
  <2>3. Collecting(seq)[s] = WithEnabled(Collecting(seq)[s \ {x}], seq[x], Occurrences(seq[x], seq))
    BY <1>10, <1>12, <2>1
  <2> QED
    BY <2>2, <2>3
<1> QED
  BY <1>1, <1>11, <1>12

(* The set made of a sequence has each of its infos, as often as it is there. *)
LEMMA CollectKeeps ==
  ASSUME NEW seq \in Seq(Infos), NEW t,
         t = FoldLeft(LAMBDA entries, i : WithEnabled(entries, i, Occurrences(i, seq)), <<>>, seq)
  PROVE  /\ t \in MultiMaps
         /\ Distinct(t)
         /\ RepsOf(t) = [i \in Range(seq) |-> Occurrences(i, seq)]
<1>0. PICK n \in Nat : n = Len(seq) /\ DOMAIN seq = 1..n /\ \A k \in 1..n : seq[k] \in Infos
  BY ONLY seq \in Seq(Infos)
<1> DEFINE After(s) == Collecting(seq)[s]
           Met(s) == {seq[k] : k \in s}
           Fine(s) == /\ After(s) \in MultiMaps
                      /\ Distinct(After(s))
                      /\ InfosIn(After(s)) = Met(s)
                      /\ \A i \in Met(s) : RepsOf(After(s))[i] = Occurrences(i, seq)
           Good == {s \in SUBSET DOMAIN seq : Fine(s)}
<1>1. /\ t = After(DOMAIN seq)
      /\ After({}) = <<>>
      /\ \A s \in SUBSET DOMAIN seq : s # {} =>
           \E x \in s : After(s) = WithEnabled(After(s \ {x}), seq[x], Occurrences(seq[x], seq))
  BY CollectingIs
<1> HIDE DEF After
<1>2. Fine({})
  BY <1>1, EmptySet DEF EmptyIsFine
<1>3. ASSUME NEW s \in SUBSET DOMAIN seq, NEW x \in s, Fine(s \ {x}),
             After(s) = WithEnabled(After(s \ {x}), seq[x], Occurrences(seq[x], seq))
      PROVE  Fine(s)
  <2>1. PICK before : before = After(s \ {x})
    OBVIOUS
  <2>2. PICK i : i = seq[x]
    OBVIOUS
  <2>3. PICK r \in Nat : r = Occurrences(i, seq)
    BY OccurrencesType
  <2>4. before \in MultiMaps /\ i \in Infos
    <3>1. x \in 1..n
      BY <1>0
    <3> QED
      BY <1>0, <1>3, <2>1, <2>2, <3>1
  <2>5. After(s) = WithEnabled(before, i, r)
    BY <1>3, <2>1, <2>2, <2>3
  <2>6. /\ After(s) \in MultiMaps
        /\ InfosIn(After(s)) = InfosIn(before) \cup {i}
        /\ Distinct(before) => Distinct(After(s)) /\ RepsOf(After(s)) = Extended(before, i, r)
    BY <2>4, <2>5, WithEnabledKeeps
  <2>7. Distinct(before) /\ InfosIn(before) = Met(s \ {x})
    BY <1>3, <2>1
  <2>8. Met(s) = Met(s \ {x}) \cup {i}
    BY <2>2
  <2>9. ASSUME NEW j \in Met(s)
        PROVE  RepsOf(After(s))[j] = Occurrences(j, seq)
    <3>1. RepsOf(After(s))[j] = IF j \in InfosIn(before) THEN RepsOf(before)[j] ELSE r
      BY <2>6, <2>7, <2>8 DEF Extended
    <3>2. CASE j \in InfosIn(before)
      BY <1>3, <2>1, <2>7, <3>1, <3>2
    <3>3. CASE j \notin InfosIn(before)
      BY <2>3, <2>7, <2>8, <3>1, <3>3
    <3> QED
      BY <3>2, <3>3
  <2> QED
    BY <2>6, <2>7, <2>8, <2>9
<1> HIDE DEF Fine
<1>4. \A s \in SUBSET DOMAIN seq : (\A x \in s : s \ {x} \in Good) => s \in Good
  <2>1. ASSUME NEW s \in SUBSET DOMAIN seq, \A x \in s : s \ {x} \in Good, s # {}
        PROVE  s \in Good
    <3>1. PICK x \in s :
            After(s) = WithEnabled(After(s \ {x}), seq[x], Occurrences(seq[x], seq))
      BY <1>1, <2>1
    <3>2. Fine(s \ {x})
      BY <2>1
    <3> QED
      BY <1>3, <3>1, <3>2
  <2>2. {} \in Good
    BY <1>2
  <2> QED
    BY <2>1, <2>2
<1>5. DOMAIN seq \in Good
  <2>1. IsFiniteSet(DOMAIN seq)
    <3>1. 1 \in Int /\ n \in Int
      BY ONLY n \in Nat
    <3>2. IsFiniteSet(1..n)
      BY ONLY <3>1, FS_Interval
    <3> QED
      BY <1>0, <3>2
  <2> HIDE DEF Good
  <2> QED
    BY ONLY <1>4, <2>1, FiniteInduction
<1>6. Fine(DOMAIN seq)
  BY <1>5
<1>7. Met(DOMAIN seq) = Range(seq)
  BY DEF Range
<1>8. RepsOf(t) = [i \in Range(seq) |-> Occurrences(i, seq)]
  <2>1. RepsOf(t) = [i \in InfosIn(t) |-> RepsOf(t)[i]]
    BY DEF RepsOf
  <2>2. InfosIn(t) = Range(seq) /\ \A i \in Range(seq) : RepsOf(t)[i] = Occurrences(i, seq)
    BY <1>1, <1>6, <1>7 DEF Fine
  <2> QED
    BY <2>1, <2>2
<1> QED
  BY <1>1, <1>6, <1>8 DEF Fine

-----------------------------------------------------------------------------
(***************************************************************************)
(* The state of a set.                                                      *)
(***************************************************************************)

(* Between two rounds: what was looked at has its share of the repetitions,  *)
(* picked or left, and nothing of what the pass came by wants another one   *)
(* as long as it is to be the last.                                         *)
GenerationSound ==
  /\ at \in DOMAIN Enabled
  /\ Finish \in BOOLEAN
  /\ Repetition \in [Looked -> Nat]
  /\ Looked \subseteq InfosIn(Enabled)
  /\ \A k \in DOMAIN Enabled : k < at =>
       /\ Enabled[k].info \in Looked
       /\ Finish => Repetition[Enabled[k].info] = 0

SetSound ==
  /\ Enabled \in MultiMaps
  /\ overwritten \in BOOLEAN
  /\ overwritten \/ Distinct(Enabled)
  /\ OptSeq \in Seq(Infos)
  /\ \A seq \in Range(DefaultSequence) : seq \in Seq(Infos)
  /\ call # "none" => GenerationSound
  /\ Budget

(* What a client of a set may call, and the rounds of a generation.         *)
Changes ==
  \/ \E i \in Infos, r \in 0..MaxRep :
       enableOptimization(i, r) \/ setRepetition(i, r) \/ setRepetitionOpt(i[1], r)
  \/ \E i \in Infos :
       disableOptimization(i) \/ disableOptimizationOpt(i[1]) \/ addOptimization(i)
  \/ \E S \in SUBSET Optimizations : enableOptimizations(S)
  \/ \E seq \in Seq(Infos) : generateSet(seq)

Calls ==
  \/ Changes
  \/ \E i \in Infos : setArg(i[1], i[2])
  \/ generateRandomSequenceIfNone
  \/ \E size : generate(size)

LEMMA ClientInfosAre ==
  ClientInfos \subseteq Infos /\ Clients \subseteq Optimizations /\ MaxRep \in Nat
BY SetAssumption DEF Clients, Optimizations

LEMMA UpdatesAreChanges ==
  ASSUME SetSound, Updates
  PROVE  Changes
<1>1. ASSUME NEW o \in Clients
      PROVE  \E i \in Infos : i[1] = o
  BY ClientInfosAre DEF Clients
<1>2. \A seq \in {OptSeq} \cup Range(DefaultSequence) : seq \in Seq(Infos)
  BY DEF SetSound
<1>3. CASE \E i \in ClientInfos, r \in 0..MaxRep : enableOptimization(i, r) \/ setRepetition(i, r)
  BY <1>3, ClientInfosAre DEF Changes
<1>4. CASE \E i \in ClientInfos : disableOptimization(i) \/ addOptimization(i)
  BY <1>4, ClientInfosAre DEF Changes
<1>5. CASE \E o \in Clients : disableOptimizationOpt(o)
  BY <1>1, <1>5 DEF Changes
<1>6. CASE \E S \in SUBSET Clients : enableOptimizations(S)
  BY <1>6, ClientInfosAre DEF Changes
<1>7. CASE \E seq \in {OptSeq} \cup Range(DefaultSequence) : generateSet(seq)
  BY <1>2, <1>7 DEF Changes
<1>8. CASE \E o \in Clients, r \in 0..MaxRep : setRepetitionOpt(o, r)
  BY <1>1, <1>8 DEF Changes
<1> QED
  BY <1>3, <1>4, <1>5, <1>6, <1>7, <1>8 DEF Updates

(* The operations find entries where the map has them.                      *)
LEMMA Lookups ==
  /\ Repetitions = RepsOf(Enabled)
  /\ Bag!enabled = InfosIn(Enabled)
  /\ \A i : /\ hasEnabled(i) <=> i \in InfosIn(Enabled)
            /\ findOptimizationInfo(i) = FirstOf(Enabled, i)
            /\ getRepetition(i) = IF i \in InfosIn(Enabled) THEN RepsOf(Enabled)[i] ELSE 0
<1>1. \A i : hasEnabled(i) <=> i \in InfosIn(Enabled)
  BY DEF hasEnabled, Found, Entries, InfosIn
<1>2. \A i : findOptimizationInfo(i) = FirstOf(Enabled, i)
  BY DEF findOptimizationInfo, FirstOf, Found, FoundIn, Entries
<1>3. \A i : getRepetition(i) = IF i \in InfosIn(Enabled) THEN RepsOf(Enabled)[i] ELSE 0
  BY <1>1, <1>2 DEF getRepetition, RepsOf
<1>4. Repetitions = RepsOf(Enabled)
  <2>1. Repetitions = [i \in InfosIn(Enabled) |-> getRepetition(i)]
    BY DEF Repetitions, Entries, InfosIn
  <2>2. RepsOf(Enabled) = [i \in InfosIn(Enabled) |-> RepsOf(Enabled)[i]]
    BY DEF RepsOf
  <2> QED
    BY <1>3, <2>1, <2>2
<1>5. Bag!enabled = InfosIn(Enabled)
  BY <1>4 DEF Bag!enabled, RepsOf
<1> QED
  BY <1>1, <1>2, <1>3, <1>4, <1>5

LEMMA RepetitionsNext == Repetitions' = RepsOf(Enabled')
<1>1. \A i : hasEnabled(i)' <=> i \in InfosIn(Enabled')
  BY DEF hasEnabled, Found, Entries, InfosIn
<1>2. \A i : findOptimizationInfo(i)' = FirstOf(Enabled', i)
  BY DEF findOptimizationInfo, FirstOf, Found, FoundIn, Entries
<1>3. \A i : getRepetition(i)' =
               IF i \in InfosIn(Enabled') THEN Enabled'[FirstOf(Enabled', i)].rep ELSE 0
  BY <1>1, <1>2 DEF getRepetition
<1>4. Repetitions' = [i \in InfosIn(Enabled') |-> getRepetition(i)']
  BY DEF Repetitions, Entries, InfosIn
<1>5. RepsOf(Enabled') = [i \in InfosIn(Enabled') |-> Enabled'[FirstOf(Enabled', i)].rep]
  BY DEF RepsOf
<1> QED
  BY <1>3, <1>4, <1>5

-----------------------------------------------------------------------------
(***************************************************************************)
(* Every change keeps the entries in order and, as a map, does what the      *)
(* abstract one says.                                                       *)
(***************************************************************************)
LEMMA EnableChange ==
  ASSUME Enabled \in MultiMaps, NEW i \in Infos, NEW r \in Nat,
         Enabled' = WithEnabled(Enabled, i, r)
  PROVE  /\ Enabled' \in MultiMaps
         /\ Distinct(Enabled) => Distinct(Enabled') /\ Bag!Enable(i, r)
<1>1. PICK t : t = Enabled'
  OBVIOUS
<1>2. /\ t \in MultiMaps
      /\ Distinct(Enabled) => Distinct(t) /\ RepsOf(t) = Extended(Enabled, i, r)
  BY <1>1, WithEnabledKeeps
<1>3. Extended(Enabled, i, r) =
        IF i \in InfosIn(Enabled) THEN RepsOf(Enabled)
        ELSE [j \in InfosIn(Enabled) \cup {i} |-> IF j = i THEN r ELSE RepsOf(Enabled)[j]]
  <2>1. CASE i \in InfosIn(Enabled)
    <3>1. InfosIn(Enabled) \cup {i} = InfosIn(Enabled)
      BY <2>1
    <3> QED
      BY <2>1, <3>1 DEF Extended, RepsOf
  <2>2. CASE i \notin InfosIn(Enabled)
    BY <2>2 DEF Extended
  <2> QED
    BY <2>1, <2>2
<1>4. Repetitions = RepsOf(Enabled) /\ Repetitions' = RepsOf(t) /\ Bag!enabled = InfosIn(Enabled)
  BY <1>1, Lookups, RepetitionsNext
<1>5. Distinct(Enabled) => Bag!Enable(i, r)
  BY ONLY <1>2, <1>3, <1>4 DEF Bag!Enable
<1> QED
  BY <1>1, <1>2, <1>5

LEMMA GiveChange ==
  ASSUME Enabled \in MultiMaps, NEW i \in Infos, NEW r \in Nat,
         Enabled' = WithRepetition(i, r)
  PROVE  /\ Enabled' \in MultiMaps
         /\ Distinct(Enabled) => Distinct(Enabled') /\ Bag!SetRep(i, r)
<1>1. PICK t : t = Enabled'
  OBVIOUS
<1>2. Repetitions = RepsOf(Enabled) /\ Repetitions' = RepsOf(t) /\ Bag!enabled = InfosIn(Enabled)
  BY <1>1, Lookups, RepetitionsNext
<1>3. CASE i \in InfosIn(Enabled)
  <2>1. PICK k \in DOMAIN Enabled : k = FirstOf(Enabled, i) /\ Enabled[k].info = i
    BY <1>3, FirstIs
  <2>2. t = [Enabled EXCEPT ![k].rep = r]
    BY <1>1, <1>3, <2>1, Lookups DEF WithRepetition
  <2>3. /\ t \in MultiMaps
        /\ Distinct(Enabled) =>
             Distinct(t) /\ RepsOf(t) = Regiven(RepsOf(Enabled), Enabled[k].info, r)
    <3>1. t = GivenAt(Enabled, k, r)
      BY <2>2 DEF GivenAt
    <3> QED
      BY ONLY Enabled \in MultiMaps, k \in DOMAIN Enabled, r \in Nat, <3>1, GivenKeeps
  <2> QED
    BY ONLY <1>1, <1>2, <1>3, <2>1, <2>3 DEF Bag!SetRep, Regiven
<1>4. CASE i \notin InfosIn(Enabled)
  <2>1. t = Enabled
    BY <1>1, <1>4, Lookups DEF WithRepetition
  <2> QED
    BY <1>1, <1>2, <1>4, <2>1 DEF Bag!SetRep
<1> QED
  BY <1>3, <1>4

LEMMA GiveOptChange ==
  ASSUME Enabled \in MultiMaps, NEW i \in Infos, NEW r \in Nat,
         Enabled' = IF hasEnabledOpt(i[1]) THEN WithRepetition(<<i[1], Default>>, r) ELSE Enabled
  PROVE  /\ Enabled' \in MultiMaps
         /\ Distinct(Enabled) => Distinct(Enabled') /\ Bag!SetRep(<<i[1], Default>>, r)
<1>1. PICK d \in Infos : d = <<i[1], Default>>
  BY InfosArePairs
<1>2. CASE hasEnabledOpt(i[1])
  BY <1>1, <1>2, GiveChange
<1>3. CASE ~hasEnabledOpt(i[1])
  <2>1. d \notin InfosIn(Enabled)
    BY <1>1, <1>3 DEF hasEnabledOpt, EntriesOf, Entries, InfosIn
  <2>2. PICK t : t = Enabled'
    OBVIOUS
  <2>3. t = Enabled
    BY <1>3, <2>2
  <2>4. /\ Repetitions = RepsOf(Enabled) /\ Repetitions' = RepsOf(t)
        /\ Bag!enabled = InfosIn(Enabled)
    BY <2>2, Lookups, RepetitionsNext
  <2> QED
    BY <1>1, <2>1, <2>2, <2>3, <2>4 DEF Bag!SetRep
<1> QED
  BY <1>2, <1>3

LEMMA AddChange ==
  ASSUME Enabled \in MultiMaps, NEW i \in Infos,
         Enabled' = IF hasEnabled(i) THEN WithRepetition(i, getRepetition(i) + 1)
                                     ELSE WithEnabled(Enabled, i, 1)
  PROVE  /\ Enabled' \in MultiMaps
         /\ Distinct(Enabled) => Distinct(Enabled') /\ Bag!Add(i)
<1>1. Repetitions = RepsOf(Enabled) /\ Bag!enabled = InfosIn(Enabled)
  BY Lookups
<1>2. CASE i \in InfosIn(Enabled)
  <2>1. PICK k \in DOMAIN Enabled : k = FirstOf(Enabled, i) /\ Enabled[k].info = i
    BY <1>2, FirstIs
  <2>2. RepsOf(Enabled)[i] \in Nat
    BY <1>2, <2>1, SlotsOf DEF RepsOf
  <2>3. getRepetition(i) = RepsOf(Enabled)[i]
    BY <1>2, Lookups
  <2>4. PICK r \in Nat : r = Repetitions[i] + 1 /\ r = getRepetition(i) + 1
    BY <1>1, <2>2, <2>3
  <2>5. Enabled' = WithRepetition(i, r)
    BY <1>2, <2>4, Lookups
  <2> QED
    BY <1>1, <1>2, <2>4, <2>5, GiveChange DEF Bag!Add
<1>3. CASE i \notin InfosIn(Enabled)
  <2>1. PICK r \in Nat : r = 1
    OBVIOUS
  <2>2. Enabled' = WithEnabled(Enabled, i, r)
    BY <1>3, <2>1, Lookups
  <2> QED
    BY <1>1, <1>3, <2>1, <2>2, EnableChange DEF Bag!Add
<1> QED
  BY <1>2, <1>3

LEMMA DisableChange ==
  ASSUME Enabled \in MultiMaps, NEW i \in Infos,
         Enabled' = IF hasEnabled(i) THEN RemoveAt(Enabled, findOptimizationInfo(i)) ELSE Enabled
  PROVE  /\ Enabled' \in MultiMaps
         /\ Distinct(Enabled) => Distinct(Enabled') /\ Bag!Disable({i})
<1>1. PICK t : t = Enabled'
  OBVIOUS
<1>2. Repetitions = RepsOf(Enabled) /\ Repetitions' = RepsOf(t) /\ Bag!enabled = InfosIn(Enabled)
  BY <1>1, Lookups, RepetitionsNext
<1>3. CASE i \in InfosIn(Enabled)
  <2>1. PICK k \in DOMAIN Enabled : k = FirstOf(Enabled, i) /\ Enabled[k].info = i
    BY <1>3, FirstIs
  <2>2. t = RemoveAt(Enabled, k)
    BY <1>1, <1>3, <2>1, Lookups
  <2>3. /\ t \in MultiMaps
        /\ Distinct(Enabled) =>
             /\ Distinct(t)
             /\ RepsOf(t) = Restrict(RepsOf(Enabled), InfosIn(Enabled) \ {Enabled[k].info})
    BY <2>2, RemovedKeeps
  <2> QED
    BY ONLY <1>1, <1>2, <2>1, <2>3 DEF Bag!Disable, Bag!Restrict, Restrict
<1>4. CASE i \notin InfosIn(Enabled)
  <2>1. t = Enabled
    BY <1>1, <1>4, Lookups
  <2>2. InfosIn(Enabled) \ {i} = InfosIn(Enabled)
    BY <1>4
  <2>3. Restrict(RepsOf(Enabled), InfosIn(Enabled)) = RepsOf(Enabled)
    BY DEF Restrict, RepsOf
  <2> QED
    BY ONLY Enabled \in MultiMaps, <1>1, <1>2, <2>1, <2>2, <2>3
    DEF Bag!Disable, Bag!Restrict, Restrict
<1> QED
  BY <1>3, <1>4

LEMMA DisableOptChange ==
  ASSUME Enabled \in MultiMaps, NEW i \in Infos, Enabled' = Erased(Enabled, i[1])
  PROVE  /\ Enabled' \in MultiMaps
         /\ Distinct(Enabled) =>
              Distinct(Enabled') /\ Bag!Disable({j \in Infos : j[1] = i[1]})
<1>1. PICK t : t = Enabled'
  OBVIOUS
<1>2. PICK o \in Nat : o = i[1]
  BY InfosArePairs
<1>3. Repetitions = RepsOf(Enabled) /\ Repetitions' = RepsOf(t) /\ Bag!enabled = InfosIn(Enabled)
  BY <1>1, Lookups, RepetitionsNext
<1>4. t = Erased(Enabled, o)
  BY <1>1, <1>2
<1>5. /\ t \in MultiMaps
      /\ Distinct(Enabled) =>
           /\ Distinct(t)
           /\ RepsOf(t) = Restrict(RepsOf(Enabled), InfosIn(Enabled) \ {j \in Infos : j[1] = o})
  BY <1>4, ErasedKeeps
<1> QED
  BY ONLY <1>1, <1>2, <1>3, <1>5 DEF Bag!Disable, Bag!Restrict, Restrict

LEMMA EnableAllChange ==
  ASSUME Enabled \in MultiMaps, NEW S \in SUBSET Optimizations, enableOptimizations(S)
  PROVE  /\ Enabled' \in MultiMaps
         /\ Distinct(Enabled) => Distinct(Enabled') /\ Bag!EnableAll(S)
<1>1. PICK t : t = Enabled'
  OBVIOUS
<1>2. Repetitions = RepsOf(Enabled) /\ Repetitions' = RepsOf(t) /\ Bag!enabled = InfosIn(Enabled)
  BY <1>1, Lookups, RepetitionsNext
<1>3. t = FoldSet(LAMBDA o, entries : WithEnabled(entries, <<o, Default>>, 1), Enabled, S)
  BY <1>1 DEF enableOptimizations
<1>4. /\ t \in MultiMaps
      /\ Distinct(Enabled) =>
           /\ Distinct(t)
           /\ RepsOf(t) = [i \in InfosIn(Enabled) \cup (S \X {Default}) |->
                             IF i \in InfosIn(Enabled) THEN RepsOf(Enabled)[i] ELSE 1]
  BY <1>3, EnableAllKeeps
<1> QED
  BY ONLY <1>1, <1>2, <1>4 DEF Bag!EnableAll

LEMMA CollectChange ==
  ASSUME NEW seq \in Seq(Infos), generateSet(seq)
  PROVE  /\ Enabled' \in MultiMaps
         /\ Distinct(Enabled')
         /\ Bag!Collect(seq)
<1>1. PICK t : t = Enabled'
  OBVIOUS
<1>2. Repetitions' = RepsOf(t)
  BY <1>1, RepetitionsNext
<1>3. t = FoldLeft(LAMBDA entries, i : WithEnabled(entries, i, Occurrences(i, seq)), <<>>, seq)
  BY <1>1 DEF generateSet, Occurrences
<1>4. /\ t \in MultiMaps
      /\ Distinct(t)
      /\ RepsOf(t) = [i \in Range(seq) |-> Occurrences(i, seq)]
  BY <1>3, CollectKeeps
<1> QED
  BY ONLY <1>1, <1>2, <1>4
  DEF Bag!Collect, Bag!Range, Range, Bag!Cardinality, Cardinality, Occurrences

-----------------------------------------------------------------------------
(***************************************************************************)
(* A call is made between two generations, and ends what the last one left.  *)
(***************************************************************************)
LEMMA OperationKeeps ==
  ASSUME SetSound, NEW name, name[1] # "setArg", Operation(name),
         Enabled' \in MultiMaps, Distinct(Enabled) => Distinct(Enabled') /\ Bag!BagNext
  PROVE  SetSound' /\ (overwritten' \/ Bag!BagNext)
<1>1. /\ call = "none" /\ call' = "none"
      /\ OptSeq' = <<>>
      /\ overwritten' = (overwritten \/ FALSE)
      /\ DefaultSequence' = DefaultSequence
  BY DEF Operation, Forget
<1>2. overwritten' \in BOOLEAN /\ (overwritten' \/ (Distinct(Enabled') /\ Bag!BagNext))
  BY <1>1 DEF SetSound
<1>3. \A seq \in Range(DefaultSequence') : seq \in Seq(Infos)
  BY <1>1 DEF SetSound
<1>4. Budget'
  BY <1>1 DEF Budget
<1>5. OptSeq' \in Seq(Infos)
  BY <1>1
<1> QED
  BY <1>1, <1>2, <1>3, <1>4, <1>5 DEF SetSound

LEMMA ChangesKeep ==
  ASSUME SetSound, Changes
  PROVE  SetSound' /\ (overwritten' \/ Bag!BagNext)
<1>1. Enabled \in MultiMaps /\ \A r \in 0..MaxRep : r \in Nat
  BY DEF SetSound
<1>2. ASSUME NEW i \in Infos, NEW r \in 0..MaxRep, enableOptimization(i, r)
      PROVE  SetSound' /\ (overwritten' \/ Bag!BagNext)
  <2>1. /\ Enabled' \in MultiMaps
        /\ Distinct(Enabled) => Distinct(Enabled') /\ Bag!Enable(i, r)
    BY <1>1, <1>2, EnableChange DEF enableOptimization
  <2>2. Operation(<<"enableOptimization", i, r>>) /\ op' = <<"enableOptimization", i, r>>
    BY <1>2 DEF enableOptimization, Operation
  <2>3. Bag!Enable(i, r) => Bag!BagNext
    BY <2>2 DEF Bag!BagNext, Bag!Reps
  <2> QED
    BY <2>1, <2>2, <2>3, OperationKeeps
<1>3. ASSUME NEW i \in Infos, NEW r \in 0..MaxRep, setRepetition(i, r)
      PROVE  SetSound' /\ (overwritten' \/ Bag!BagNext)
  <2>1. /\ Enabled' \in MultiMaps
        /\ Distinct(Enabled) => Distinct(Enabled') /\ Bag!SetRep(i, r)
    BY <1>1, <1>3, GiveChange DEF setRepetition
  <2>2. Operation(<<"setRepetition", i, r>>) /\ op' = <<"setRepetition", i, r>>
    BY <1>3 DEF setRepetition, Operation
  <2>3. Bag!SetRep(i, r) => Bag!BagNext
    BY <2>2 DEF Bag!BagNext, Bag!Reps
  <2> QED
    BY <2>1, <2>2, <2>3, OperationKeeps
<1>4. ASSUME NEW i \in Infos, NEW r \in 0..MaxRep, setRepetitionOpt(i[1], r)
      PROVE  SetSound' /\ (overwritten' \/ Bag!BagNext)
  <2>1. /\ Enabled' \in MultiMaps
        /\ Distinct(Enabled) => Distinct(Enabled') /\ Bag!SetRep(<<i[1], Default>>, r)
    BY <1>1, <1>4, GiveOptChange DEF setRepetitionOpt
  <2>2. Operation(<<"setRepetitionOpt", i[1], r>>) /\ op' = <<"setRepetitionOpt", i[1], r>>
    BY <1>4 DEF setRepetitionOpt, Operation
  <2>3. Bag!SetRep(<<i[1], Default>>, r) => Bag!BagNext
    BY <2>2 DEF Bag!BagNext, Bag!Reps
  <2> QED
    BY <2>1, <2>2, <2>3, OperationKeeps
<1>5. ASSUME NEW i \in Infos, disableOptimization(i)
      PROVE  SetSound' /\ (overwritten' \/ Bag!BagNext)
  <2>1. /\ Enabled' \in MultiMaps
        /\ Distinct(Enabled) => Distinct(Enabled') /\ Bag!Disable({i})
    BY <1>1, <1>5, DisableChange DEF disableOptimization
  <2>2. Operation(<<"disableOptimization", i>>) /\ op' = <<"disableOptimization", i>>
    BY <1>5 DEF disableOptimization, Operation
  <2>3. Bag!Disable({i}) => Bag!BagNext
    BY <2>2 DEF Bag!BagNext
  <2> QED
    BY <2>1, <2>2, <2>3, OperationKeeps
<1>6. ASSUME NEW i \in Infos, disableOptimizationOpt(i[1])
      PROVE  SetSound' /\ (overwritten' \/ Bag!BagNext)
  <2>1. /\ Enabled' \in MultiMaps
        /\ Distinct(Enabled) => Distinct(Enabled') /\ Bag!Disable({j \in Infos : j[1] = i[1]})
    BY <1>1, <1>6, DisableOptChange DEF disableOptimizationOpt
  <2>2. /\ Operation(<<"disableOptimizationOpt", i[1]>>)
        /\ op' = <<"disableOptimizationOpt", i[1]>>
    BY <1>6 DEF disableOptimizationOpt, Operation
  <2>3. Bag!Disable({j \in Infos : j[1] = i[1]}) => Bag!BagNext
    BY <2>2 DEF Bag!BagNext
  <2> QED
    BY <2>1, <2>2, <2>3, OperationKeeps
<1>7. ASSUME NEW i \in Infos, addOptimization(i)
      PROVE  SetSound' /\ (overwritten' \/ Bag!BagNext)
  <2>1. /\ Enabled' \in MultiMaps
        /\ Distinct(Enabled) => Distinct(Enabled') /\ Bag!Add(i)
    BY <1>1, <1>7, AddChange DEF addOptimization
  <2>2. Operation(<<"addOptimization", i>>) /\ op' = <<"addOptimization", i>>
    BY <1>7 DEF addOptimization, Operation
  <2>3. Bag!Add(i) => Bag!BagNext
    BY <2>2 DEF Bag!BagNext
  <2> QED
    BY <2>1, <2>2, <2>3, OperationKeeps
<1>8. ASSUME NEW S \in SUBSET Optimizations, enableOptimizations(S)
      PROVE  SetSound' /\ (overwritten' \/ Bag!BagNext)
  <2>1. /\ Enabled' \in MultiMaps
        /\ Distinct(Enabled) => Distinct(Enabled') /\ Bag!EnableAll(S)
    BY <1>1, <1>8, EnableAllChange
  <2>2. Operation(<<"enableOptimizations", S>>) /\ op' = <<"enableOptimizations", S>>
    BY <1>8 DEF enableOptimizations, Operation
  <2>3. Bag!EnableAll(S) => Bag!BagNext
    BY <2>2 DEF Bag!BagNext, Optimizations
  <2> QED
    BY <2>1, <2>2, <2>3, OperationKeeps
<1>9. ASSUME NEW seq \in Seq(Infos), generateSet(seq)
      PROVE  SetSound' /\ (overwritten' \/ Bag!BagNext)
  <2>1. Enabled' \in MultiMaps /\ Distinct(Enabled') /\ Bag!Collect(seq)
    BY <1>9, CollectChange
  <2>2. /\ op' = <<"generateSet", seq>>
        /\ DefaultSequence' = Null
        /\ overwritten' = FALSE
        /\ OptSeq' = <<>>
        /\ call' = "none"
    BY <1>9 DEF generateSet, Forget
  <2>3. Bag!BagNext
    <3>1. op' # <<>> /\ op'[1] = "generateSet" /\ op'[2] = seq
      BY <2>2
    <3> QED
      BY <2>1, <3>1 DEF Bag!BagNext
  <2>4. Range(DefaultSequence') = {}
    BY <2>2 DEF Range, Null
  <2>5. OptSeq' \in Seq(Infos)
    BY <2>2
  <2>6. Budget'
    BY <2>2 DEF Budget
  <2> QED
    BY <2>1, <2>2, <2>3, <2>4, <2>5, <2>6 DEF SetSound
<1> QED
  BY <1>2, <1>3, <1>4, <1>5, <1>6, <1>7, <1>8, <1>9 DEF Changes

(* Arguments are written: the order of the entries stays.                    *)
LEMMA SetArgKeeps ==
  ASSUME SetSound, NEW o, NEW a, setArg(o, a)
  PROVE  SetSound' /\ overwritten'
<1>1. /\ call' = "none"
      /\ OptSeq' = <<>>
      /\ overwritten'
      /\ overwritten' \in BOOLEAN
      /\ DefaultSequence' = DefaultSequence
  BY DEF setArg, Operation, Forget
<1>2. PICK k : k = CHOOSE j \in EntriesOf(o) : \A m \in EntriesOf(o) : j <= m
  OBVIOUS
<1>3. k \in EntriesOf(o)
  <2>1. EntriesOf(o) # {} /\ EntriesOf(o) \subseteq Nat
    <3>1. DOMAIN Enabled \subseteq Nat
      BY LengthOf DEF SetSound
    <3> QED
      BY <3>1 DEF setArg, hasEnabledOpt, EntriesOf, Entries
  <2>2. \E l \in EntriesOf(o) : \A m \in EntriesOf(o) : l <= m
    BY <2>1, SmallestOf
  <2> QED
    BY <1>2, <2>2
<1>4. PICK i \in Infos : i = <<o, a>>
  BY DEF setArg
<1>5. PICK t : t = [Enabled EXCEPT ![k].info = i]
  OBVIOUS
<1>6. t = Enabled'
  BY <1>2, <1>4, <1>5 DEF setArg
<1>7. Enabled \in MultiMaps /\ k \in DOMAIN Enabled /\ i[1] = Enabled[k].info[1]
  BY <1>3, <1>4 DEF SetSound, EntriesOf, Entries
<1>8. t \in MultiMaps
  <2>1. t = WrittenAt(Enabled, k, i)
    BY <1>5 DEF WrittenAt
  <2> QED
    BY ONLY <1>7, <2>1, i \in Infos, WrittenKeeps
<1>9. \A seq \in Range(DefaultSequence') : seq \in Seq(Infos)
  BY <1>1 DEF SetSound
<1>10. Budget'
  BY <1>1 DEF Budget
<1>11. OptSeq' \in Seq(Infos)
  BY <1>1
<1> QED
  BY <1>1, <1>6, <1>8, <1>9, <1>10, <1>11 DEF SetSound

-----------------------------------------------------------------------------
(***************************************************************************)
(* A generation: it begins with nothing picked and nothing looked at, and a  *)
(* round takes from what is left of an info what it adds to the sequence.    *)
(***************************************************************************)
LEMMA GetRepetitionType ==
  ASSUME Enabled \in MultiMaps, NEW i
  PROVE  getRepetition(i) \in Nat
<1>1. CASE i \in InfosIn(Enabled)
  <2>1. FirstOf(Enabled, i) \in DOMAIN Enabled
    BY <1>1, FirstIs
  <2>2. RepsOf(Enabled)[i] \in Nat
    BY <1>1, <2>1, SlotsOf DEF RepsOf
  <2> QED
    BY <1>1, <2>2, Lookups
<1>2. CASE i \notin InfosIn(Enabled)
  BY <1>2, Lookups
<1> QED
  BY <1>1, <1>2

LEMMA CallKeeps ==
  ASSUME SetSound, NEW who, NEW size, Call(who, size), UNCHANGED overwritten
  PROVE  SetSound' /\ UNCHANGED Repetitions
<1>1. /\ call = "none" /\ Enabled # <<>>
      /\ at' = 1 /\ Finish' = TRUE /\ Repetition' = <<>> /\ OptSeq' = <<>>
      /\ Enabled' = Enabled /\ DefaultSequence' = DefaultSequence
      /\ overwritten' = overwritten
  BY DEF Call
<1>2. PICK n \in Nat : n = Len(Enabled) /\ DOMAIN Enabled = 1..n
  BY LengthOf DEF SetSound
<1>3. 1 \in DOMAIN Enabled
  <2>1. n # 0
    BY <1>1, <1>2 DEF SetSound, MultiMaps
  <2> QED
    BY <1>2, <2>1
<1>4. DOMAIN Repetition' = {} /\ Repetition' \in [{} -> Nat]
  BY <1>1
<1>5. GenerationSound'
  BY <1>1, <1>2, <1>3, <1>4 DEF GenerationSound, Looked
<1>6. ASSUME NEW i \in Infos
      PROVE  Occurrences(i, OptSeq') = 0 /\ getRepetition(i)' = getRepetition(i)
  <2>1. {k \in DOMAIN OptSeq' : OptSeq'[k] = i} = {}
    BY <1>1
  <2>2. Cardinality({}) = 0
    BY FS_EmptySet
  <2>3. Occurrences(i, OptSeq') = 0
    BY <2>1, <2>2 DEF Occurrences
  <2>4. getRepetition(i)' = getRepetition(i)
    BY <1>1 DEF getRepetition, hasEnabled, Found, Entries, findOptimizationInfo
  <2> QED
    BY <2>3, <2>4
<1>7. Budget'
  <2>1. \A i \in Infos : getRepetition(i) \in Nat
    BY GetRepetitionType DEF SetSound
  <2>2. ASSUME NEW i \in Infos
        PROVE  Occurrences(i, OptSeq') +
                 (IF i \in DOMAIN Repetition' THEN Repetition'[i] ELSE getRepetition(i)')
                   = getRepetition(i)'
    BY <1>4, <1>6, <2>1
  <2> QED
    BY <2>2 DEF Budget
<1>8. OptSeq' \in Seq(Infos)
  BY <1>1
<1>9. Repetitions' = Repetitions
  BY <1>1, Lookups, RepetitionsNext
<1> QED
  BY <1>1, <1>5, <1>7, <1>8, <1>9 DEF SetSound

(* What a round leaves of each info and the sequence it makes: it looks at   *)
(* one info only, and together they are what they were.                     *)
Balanced(left, seq) ==
  /\ left \in [Looked \cup {Enabled[at].info} -> Nat]
  /\ \A i \in Looked : i # Enabled[at].info => left[i] = Repetition[i]
  /\ seq \in Seq(Infos)
  /\ \A i \in Infos :
       Occurrences(i, seq) + (IF i \in DOMAIN left THEN left[i] ELSE getRepetition(i))
         = getRepetition(i)

LEMMA LeftIs ==
  ASSUME SetSound, call # "none"
  PROVE  /\ Balanced(Left, OptSeq)
         /\ Enabled[at].info \in Infos
         /\ Left[Enabled[at].info] \in Nat
<1>1. GenerationSound /\ Enabled \in MultiMaps /\ Budget /\ OptSeq \in Seq(Infos)
  BY DEF SetSound
<1>2. at \in DOMAIN Enabled /\ at \in Nat
  BY <1>1, LengthOf DEF GenerationSound
<1>3. PICK info \in Infos : info = Enabled[at].info
  BY <1>1, <1>2, SlotsOf
<1>4. PICK reps : reps = Repetition /\ reps \in [Looked -> Nat]
  BY <1>1 DEF GenerationSound
<1>5. PICK left : left = Left
  OBVIOUS
<1>6. left = [i \in Looked \cup {info} |-> IF i \in Looked THEN reps[i] ELSE Enabled[at].rep]
  BY <1>3, <1>4, <1>5 DEF Left
<1>7. Enabled[at].rep \in Nat
  BY <1>1, <1>2, SlotsOf
<1>8. left \in [Looked \cup {info} -> Nat]
  BY ONLY <1>4, <1>6, <1>7
<1>9. \A i \in Looked : left[i] = reps[i]
  BY ONLY <1>6
<1>10. info \notin Looked => left[info] = getRepetition(info)
  <2> SUFFICES ASSUME info \notin Looked
               PROVE  left[info] = getRepetition(info)
    OBVIOUS
  <2>1. info \in InfosIn(Enabled)
    BY <1>2, <1>3 DEF InfosIn
  <2>2. PICK k \in DOMAIN Enabled : /\ k = FirstOf(Enabled, info)
                                    /\ Enabled[k].info = info
                                    /\ k <= at
    BY <1>1, <1>2, <1>3, <2>1, FirstIs
  <2>3. ~(k < at)
    BY <1>1, <2>2 DEF GenerationSound
  <2>4. k = at
    BY <1>1, <1>2, <2>2, <2>3, LengthOf
  <2>5. getRepetition(info) = Enabled[at].rep
    BY <2>1, <2>2, <2>4, Lookups DEF RepsOf
  <2>6. left[info] = Enabled[at].rep
    BY ONLY <1>6, info \notin Looked
  <2> QED
    BY <2>5, <2>6
<1>11. ASSUME NEW i \in Infos
       PROVE  Occurrences(i, OptSeq) + (IF i \in DOMAIN left THEN left[i] ELSE getRepetition(i))
                = getRepetition(i)
  <2>1. Occurrences(i, OptSeq) + (IF i \in Looked THEN reps[i] ELSE getRepetition(i))
          = getRepetition(i)
    BY <1>1, <1>4 DEF Budget, Looked
  <2>2. DOMAIN left = Looked \cup {info}
    BY ONLY <1>8
  <2> QED
    BY ONLY <1>9, <1>10, <2>1, <2>2
<1>12. left[info] \in Nat
  BY ONLY <1>8
<1> QED
  BY ONLY <1>1, <1>3, <1>4, <1>5, <1>8, <1>9, <1>11, <1>12, info \in Infos DEF Balanced

LEMMA OccurrencesAppended ==
  ASSUME NEW seq \in Seq(Infos), NEW x \in Infos, NEW i
  PROVE  Occurrences(i, Append(seq, x)) = Occurrences(i, seq) + (IF i = x THEN 1 ELSE 0)
<1>1. PICK n \in Nat : n = Len(seq) /\ DOMAIN seq = 1..n
  OBVIOUS
<1>2. PICK t : t = Append(seq, x)
  OBVIOUS
<1>3. DOMAIN t = 1..(n + 1) /\ t[n + 1] = x /\ \A k \in 1..n : t[k] = seq[k]
  BY <1>1, <1>2
<1>4. PICK D : D = {k \in DOMAIN seq : seq[k] = i}
  OBVIOUS
<1>5. IsFiniteSet(D) /\ D \subseteq 1..n
  <2>1. IsFiniteSet(1..n)
    BY FS_Interval
  <2> QED
    BY <1>1, <1>4, <2>1, FS_Subset
<1>6. {k \in DOMAIN t : t[k] = i} = IF i = x THEN D \cup {n + 1} ELSE D
  BY ONLY <1>1, <1>3, <1>4, n \in Nat
<1>7. n + 1 \notin D
  BY <1>5
<1>8. Cardinality(D) \in Nat /\ Cardinality(D \cup {n + 1}) = Cardinality(D) + 1
  BY <1>5, <1>7, FS_CardinalityType, FS_AddElement
<1>9. Occurrences(i, seq) = Cardinality(D)
  BY <1>4 DEF Occurrences
<1>10. Occurrences(i, t) = IF i = x THEN Cardinality(D \cup {n + 1}) ELSE Cardinality(D)
  BY <1>6 DEF Occurrences
<1> QED
  BY <1>2, <1>8, <1>9, <1>10

(* A generation leaves out only what is behind the entry it ends at, and     *)
(* only because the sequence has the size asked for.                        *)
LeavesStep ==
  Returned => \A k \in Entries : UsedUp(k) \/ (Len(OptSeq') = Size /\ k > at)

(* No more of an info than its repetition is picked.                         *)
WithinStep == \A i \in Infos : Occurrences(i, OptSeq') <= getRepetition(i)

LEMMA RoundEnds ==
  ASSUME SetSound, call # "none", NEW left, NEW seq, NEW finish \in BOOLEAN,
         Balanced(left, seq),
         finish => Finish /\ left[Enabled[at].info] = 0,
         Repetition' = left, OptSeq' = seq, UNCHANGED <<Enabled, overwritten>>,
         Advance(finish, seq) \/ (Len(seq) = Size /\ EndPass(finish, seq))
  PROVE  SetSound' /\ LeavesStep /\ WithinStep
<1>1. GenerationSound /\ Enabled \in MultiMaps /\ Budget
  BY DEF SetSound
<1>2. PICK n \in Nat : n = Len(Enabled) /\ DOMAIN Enabled = 1..n
  BY <1>1, LengthOf
<1>3. at \in 1..n
  BY <1>1, <1>2 DEF GenerationSound
<1>4. PICK info : info = Enabled[at].info
  OBVIOUS
<1>5. info \in Infos /\ info \in InfosIn(Enabled)
  BY <1>1, <1>2, <1>3, <1>4, SlotsOf DEF InfosIn
<1>6. /\ left \in [Looked \cup {info} -> Nat]
      /\ \A i \in Looked : i # info => left[i] = Repetition[i]
      /\ seq \in Seq(Infos)
      /\ \A i \in Infos :
           Occurrences(i, seq) + (IF i \in DOMAIN left THEN left[i] ELSE getRepetition(i))
             = getRepetition(i)
  BY <1>4 DEF Balanced
<1>7. DOMAIN left = Looked \cup {info} /\ Looked' = Looked \cup {info}
  BY <1>6 DEF Looked
<1>8. \A i \in Infos : getRepetition(i)' = getRepetition(i)
  BY DEF getRepetition, hasEnabled, Found, Entries, findOptimizationInfo
<1>9. Budget'
  BY <1>6, <1>8 DEF Budget
<1>10. /\ OptSeq' \in Seq(Infos)
       /\ Enabled' \in MultiMaps
       /\ overwritten' \in BOOLEAN
       /\ overwritten' \/ Distinct(Enabled')
  BY <1>6 DEF SetSound
<1>11. \/ at < n /\ at' = at + 1 /\ Finish' = finish /\ UNCHANGED <<call, DefaultSequence>>
       \/ (at = n \/ Len(seq) = Size) /\ EndPass(finish, seq)
  BY <1>2, <1>3 DEF Advance
<1>12. \/ at < n /\ at' = at + 1 /\ Finish' = finish /\ UNCHANGED <<call, DefaultSequence>>
       \/ /\ finish /\ (at = n \/ Len(seq) = Size)
          /\ call' = "none"
          /\ DefaultSequence' = Pointer(seq) \/ DefaultSequence' = DefaultSequence
       \/ ~finish /\ at' = 1 /\ Finish' = TRUE /\ UNCHANGED <<call, DefaultSequence>>
  BY <1>11 DEF EndPass
<1>13. finish => /\ left[info] = 0
                 /\ \A k \in 1..n : k <= at =>
                      /\ Enabled[k].info \in DOMAIN left
                      /\ left[Enabled[k].info] = 0
  <2> SUFFICES ASSUME finish, NEW k \in 1..n, k <= at
               PROVE  /\ left[info] = 0
                      /\ Enabled[k].info \in DOMAIN left
                      /\ left[Enabled[k].info] = 0
    BY <1>4
  <2>1. Finish /\ left[info] = 0
    BY <1>4
  <2>2. CASE k = at
    BY <1>4, <1>7, <2>1, <2>2
  <2>3. CASE k < at
    <3>1. Enabled[k].info \in Looked /\ Repetition[Enabled[k].info] = 0
      BY <1>1, <1>2, <2>1, <2>3 DEF GenerationSound
    <3> QED
      BY <1>6, <1>7, <2>1, <3>1
  <2> QED
    BY <1>3, <2>2, <2>3
<1>14. /\ Repetition' \in [Looked' -> Nat]
       /\ Looked' \subseteq InfosIn(Enabled')
  BY <1>1, <1>5, <1>6, <1>7 DEF GenerationSound
<1>15. \A k \in 1..n : k <= at => Enabled[k].info \in Looked'
  BY <1>1, <1>2, <1>3, <1>4, <1>7 DEF GenerationSound
<1>16. \A s \in Range(DefaultSequence) : s \in Seq(Infos)
  BY DEF SetSound
<1>17. WithinStep
  <2>1. ASSUME NEW i \in Infos
        PROVE  Occurrences(i, seq) <= getRepetition(i)
    <3>1. Occurrences(i, seq) \in Nat /\ getRepetition(i) \in Nat
      BY <1>1, <1>6, OccurrencesType, GetRepetitionType
    <3>2. i \in DOMAIN left => left[i] \in Nat
      BY <1>6
    <3>3. Occurrences(i, seq) + (IF i \in DOMAIN left THEN left[i] ELSE getRepetition(i))
            = getRepetition(i)
      BY <1>6
    <3> QED
      BY ONLY <3>1, <3>2, <3>3
  <2> QED
    BY <2>1 DEF WithinStep
<1>18. CASE at < n /\ at' = at + 1 /\ Finish' = finish /\ UNCHANGED <<call, DefaultSequence>>
  <2>1. at' \in 1..n
    BY <1>3, <1>18
  <2>2. ASSUME NEW k \in 1..n, k < at'
        PROVE  /\ Enabled[k].info \in Looked'
               /\ Finish' => left[Enabled[k].info] = 0
    <3>1. k <= at
      BY <1>3, <1>18, <2>2
    <3> QED
      BY <1>13, <1>15, <1>18, <3>1
  <2>3. GenerationSound'
    BY <1>2, <1>14, <1>18, <2>1, <2>2 DEF GenerationSound
  <2>4. SetSound'
    BY <1>9, <1>10, <1>16, <1>18, <2>3 DEF SetSound
  <2> QED
    BY <1>17, <1>18, <2>4 DEF LeavesStep, Returned
<1>19. CASE /\ finish /\ (at = n \/ Len(seq) = Size)
            /\ call' = "none"
            /\ DefaultSequence' = Pointer(seq) \/ DefaultSequence' = DefaultSequence
  <2>1. \A s \in Range(DefaultSequence') : s \in Seq(Infos)
    <3>1. Range(Pointer(seq)) = {seq}
      BY DEF Range, Pointer
    <3> QED
      BY <1>6, <1>16, <1>19, <3>1
  <2>2. SetSound'
    BY <1>9, <1>10, <1>19, <2>1 DEF SetSound
  <2>3. ASSUME NEW k \in 1..n
        PROVE  UsedUp(k) \/ (Len(OptSeq') = Size /\ k > at)
    <3>1. CASE k <= at
      <4>1. PICK i : i = Enabled[k].info
        OBVIOUS
      <4>2. i \in Infos
        BY <1>1, <1>2, <4>1, SlotsOf
      <4>3. Occurrences(i, seq) + 0 = getRepetition(i)
        BY <1>6, <1>13, <1>19, <3>1, <4>1, <4>2
      <4>4. Occurrences(i, seq) \in Nat
        BY <1>6, OccurrencesType
      <4> QED
        BY <4>1, <4>3, <4>4 DEF UsedUp
    <3>2. CASE k > at
      BY <1>3, <1>19, <3>2
    <3> QED
      BY <1>3, <3>1, <3>2
  <2>4. LeavesStep
    BY <1>2, <2>3 DEF LeavesStep, Entries
  <2> QED
    BY <1>17, <2>2, <2>4
<1>20. CASE ~finish /\ at' = 1 /\ Finish' = TRUE /\ UNCHANGED <<call, DefaultSequence>>
  <2>1. GenerationSound'
    BY <1>2, <1>3, <1>14, <1>20 DEF GenerationSound
  <2>2. SetSound'
    BY <1>9, <1>10, <1>16, <1>20, <2>1 DEF SetSound
  <2> QED
    BY <1>17, <1>20, <2>2 DEF LeavesStep, Returned
<1> QED
  BY <1>12, <1>18, <1>19, <1>20, <1>17

LEMMA RoundKeeps ==
  ASSUME SetSound, Round
  PROVE  SetSound' /\ LeavesStep /\ WithinStep /\ UNCHANGED Repetitions
<1>1. /\ call # "none"
      /\ UNCHANGED <<Enabled, op, overwritten>>
  BY DEF Round, Generating, Skip, Pick, Spare, Settle
<1>2. PICK info : info = Enabled[at].info
  OBVIOUS
<1>3. PICK left : left = Left
  OBVIOUS
<1>4. Balanced(left, OptSeq) /\ info \in Infos /\ left[info] \in Nat
  BY <1>1, <1>2, <1>3, LeftIs
<1>5. Finish \in BOOLEAN
  BY <1>1 DEF SetSound, GenerationSound
<1>6. Repetitions' = Repetitions
  BY <1>1, Lookups, RepetitionsNext
<1>7. CASE Skip
  <2>1. /\ left[info] = 0
        /\ Repetition' = left /\ OptSeq' = OptSeq
        /\ Advance(Finish, OptSeq)
    BY <1>2, <1>3, <1>7 DEF Skip
  <2> QED
    BY <1>1, <1>2, <1>4, <1>5, <1>6, <2>1, RoundEnds
<1>8. ASSUME NEW rest, NEW seq, Balanced(rest, seq), Settle(rest, seq)
      PROVE  SetSound' /\ LeavesStep /\ WithinStep
  <2>1. PICK finish \in BOOLEAN : finish = (Finish /\ rest[info] = 0)
    OBVIOUS
  <2>2. /\ Repetition' = rest /\ OptSeq' = seq
        /\ Advance(finish, seq) \/ (Len(seq) = Size /\ EndPass(finish, seq))
    BY <1>2, <1>8, <2>1 DEF Settle
  <2>3. finish => Finish /\ rest[Enabled[at].info] = 0
    BY <1>2, <2>1
  <2> QED
    BY <1>1, <1>8, <2>2, <2>3, RoundEnds
<1>9. CASE Spare
  BY <1>3, <1>4, <1>6, <1>8, <1>9 DEF Spare
<1>10. CASE Pick
  <2>1. PICK rest : rest = [left EXCEPT ![info] = @ - 1]
    OBVIOUS
  <2>2. PICK seq : seq = Append(OptSeq, info)
    OBVIOUS
  <2>3. left[info] # 0 /\ Settle(rest, seq)
    BY <1>2, <1>3, <1>10, <2>1, <2>2 DEF Pick
  <2>4. /\ left \in [Looked \cup {info} -> Nat]
        /\ \A i \in Looked : i # info => left[i] = Repetition[i]
        /\ OptSeq \in Seq(Infos)
        /\ \A i \in Infos :
             Occurrences(i, OptSeq) + (IF i \in DOMAIN left THEN left[i] ELSE getRepetition(i))
               = getRepetition(i)
    BY <1>2, <1>4 DEF Balanced
  <2>5. /\ rest \in [Looked \cup {info} -> Nat]
        /\ rest[info] = left[info] - 1
        /\ \A i \in Looked : i # info => rest[i] = left[i]
        /\ DOMAIN rest = DOMAIN left
        /\ info \in DOMAIN left
    BY ONLY <1>4, <2>1, <2>3, <2>4
  <2>6. seq \in Seq(Infos)
    BY <1>4, <2>2, <2>4
  <2>7. ASSUME NEW i \in Infos
        PROVE  Occurrences(i, seq) + (IF i \in DOMAIN rest THEN rest[i] ELSE getRepetition(i))
                 = getRepetition(i)
    <3>1. Occurrences(i, seq) = Occurrences(i, OptSeq) + (IF i = info THEN 1 ELSE 0)
      BY <1>4, <2>2, <2>4, OccurrencesAppended
    <3>2. Occurrences(i, OptSeq) \in Nat
      BY <2>4, OccurrencesType
    <3>3. CASE i = info
      BY <1>4, <2>4, <2>5, <3>1, <3>2, <3>3
    <3>4. CASE i # info
      <4>1. Occurrences(i, seq) = Occurrences(i, OptSeq)
        BY <3>1, <3>2, <3>4
      <4>2. i \in DOMAIN left => rest[i] = left[i]
        BY <2>1, <3>4
      <4> QED
        BY <2>4, <2>5, <4>1, <4>2
    <3> QED
      BY <3>3, <3>4
  <2>8. Balanced(rest, seq)
    BY <1>2, <2>4, <2>5, <2>6, <2>7 DEF Balanced
  <2> QED
    BY <1>6, <1>8, <2>3, <2>8
<1> QED
  BY <1>7, <1>9, <1>10 DEF Round, Generating

-----------------------------------------------------------------------------
(***************************************************************************)
(* The loop over the candidate always has a first point to come to.         *)
(***************************************************************************)
PointSet == {0, 1} \X Optimizations

LEMMA PointsArePairs ==
  ASSUME NEW p \in PointSet
  PROVE  /\ p[1] \in {0, 1}
         /\ p[1] \in Nat
         /\ p[2] \in Optimizations
         /\ p[2] \in Nat
         /\ p = <<p[1], p[2]>>
<1>1. \A o \in Optimizations : o \in Nat
  BY InfosArePairs DEF Optimizations
<1>2. p[1] \in {0, 1} /\ p[2] \in Optimizations /\ p = <<p[1], p[2]>>
  BY DEF PointSet
<1> QED
  BY <1>1, <1>2

LEMMA PointIs ==
  ASSUME points \in SUBSET PointSet, points # {}
  PROVE  /\ point \in points
         /\ point \in PointSet
         /\ \A q \in points : point = q \/ Before(point, q)
<1>1. PICK kinds : kinds = {p[1] : p \in points}
  OBVIOUS
<1>2. kinds \subseteq Nat /\ kinds # {}
  BY <1>1, PointsArePairs
<1>3. PICK a \in kinds : \A b \in kinds : a <= b
  BY <1>2, SmallestOf
<1>4. PICK T : T = {p[2] : p \in {q \in points : q[1] = a}}
  OBVIOUS
<1>5. T \subseteq Nat /\ T # {}
  BY <1>1, <1>3, <1>4, PointsArePairs
<1>6. PICK o \in T : \A u \in T : o <= u
  BY <1>5, SmallestOf
<1>7. PICK p \in points : p[1] = a /\ p[2] = o
  BY <1>4, <1>6
<1>8. ASSUME NEW q \in points
      PROVE  p = q \/ Before(p, q)
  <2>1. /\ p[1] \in Nat /\ p[2] \in Nat /\ q[1] \in Nat /\ q[2] \in Nat
        /\ p = <<p[1], p[2]>> /\ q = <<q[1], q[2]>>
    BY PointsArePairs
  <2>2. p[1] <= q[1]
    BY <1>1, <1>3, <1>7
  <2>3. q[1] = p[1] => p[2] <= q[2]
    BY <1>4, <1>6, <1>7
  <2>4. p[1] < q[1] \/ (p[1] = q[1] /\ p[2] < q[2]) \/ (p[1] = q[1] /\ p[2] = q[2])
    BY ONLY <2>1, <2>2, <2>3
  <2>5. p[1] = q[1] /\ p[2] = q[2] => p = q
    BY <2>1
  <2> QED
    BY <2>4, <2>5 DEF Before
<1>9. point \in points /\ \A q \in points : point = q \/ Before(point, q)
  BY <1>8 DEF point
<1> QED
  BY <1>9

-----------------------------------------------------------------------------
(***************************************************************************)
(* What every step of a client or of a compilation does to the set.         *)
(***************************************************************************)
SetInv == SetSound /\ points \in SUBSET PointSet

LEMMA Steps ==
  ASSUME SetInv, [CompilationNext]_<<vars, compiling>>
  PROVE  \/ Changes
         \/ \E o, a : setArg(o, a)
         \/ \E who, size : Call(who, size) /\ op' = <<"generate">> /\ UNCHANGED overwritten
         \/ Round
         \/ UNCHANGED vars
<1>1. SetSound
  BY DEF SetInv
<1>2. CASE ClientCalls
  <2>1. CASE Updates
    BY <1>1, <2>1, UpdatesAreChanges
  <2>2. CASE WriteArgs
    BY <2>2 DEF WriteArgs
  <2>3. CASE Generate
    BY <2>3 DEF Generate, generateRandomSequenceIfNone, generate
  <2> QED
    BY <1>2, <2>1, <2>2, <2>3 DEF ClientCalls
<1>3. CASE Enable
  <2>1. point \in PointSet /\ addOptimization(<<point[2], Default>>)
    BY <1>3, PointIs DEF SetInv, Enable, NextPoint
  <2>2. <<point[2], Default>> \in Infos
    BY <2>1, PointsArePairs, DefaultInfos
  <2> QED
    BY <2>1, <2>2 DEF Changes
<1>4. CASE SkipPoint
  BY <1>4 DEF SkipPoint
<1>5. CASE WriteArg
  BY <1>5 DEF WriteArg
<1>6. CASE ArrangeSequence
  BY <1>6 DEF ArrangeSequence
<1>7. CASE ApplySequence
  BY <1>7 DEF ApplySequence
<1>8. CASE GenerateDefault
  BY <1>8 DEF GenerateDefault, generateRandomSequenceIfNone
<1>9. CASE GenerateRound
  BY <1>9 DEF GenerateRound
<1>10. CASE ApplySet
  BY <1>10 DEF ApplySet
<1>11. CASE UNCHANGED <<vars, compiling>>
  BY <1>11
<1> QED
  BY <1>2, <1>3, <1>4, <1>5, <1>6, <1>7, <1>8, <1>9, <1>10, <1>11 DEF CompilationNext

LEMMA PointsKept ==
  ASSUME SetInv, [CompilationNext]_<<vars, compiling>>
  PROVE  points' \in SUBSET PointSet
BY DEF SetInv, CompilationNext, ClientCalls, Enable, SkipPoint, WriteArg, NextPoint,
       ArrangeSequence, ApplySequence, GenerateDefault, GenerateRound, ApplySet, compiling

LEMMA SetSteps ==
  ASSUME SetInv, [CompilationNext]_<<vars, compiling>>
  PROVE  /\ SetInv'
         /\ LeavesStep \/ UNCHANGED vars
         /\ overwritten' \/ Bag!BagNext \/ UNCHANGED <<op, Repetitions>>
<1>1. SetSound /\ points' \in SUBSET PointSet
  BY PointsKept DEF SetInv
<1>2. CASE Changes
  <2>1. call' = "none" /\ call = "none"
    BY <1>2 DEF Changes, Operation, enableOptimization, setRepetition, setRepetitionOpt,
               disableOptimization, disableOptimizationOpt, addOptimization,
               enableOptimizations, generateSet
  <2> QED
    BY <1>1, <1>2, <2>1, ChangesKeep DEF SetInv, LeavesStep, Returned
<1>3. CASE \E o, a : setArg(o, a)
  <2>1. SetSound' /\ overwritten'
    BY <1>1, <1>3, SetArgKeeps
  <2>2. call = "none"
    BY <1>3 DEF setArg, Operation
  <2> QED
    BY <1>1, <2>1, <2>2 DEF SetInv, LeavesStep, Returned
<1>4. CASE \E who, size : Call(who, size) /\ op' = <<"generate">> /\ UNCHANGED overwritten
  <2>1. SetSound' /\ UNCHANGED Repetitions
    BY <1>1, <1>4, CallKeeps
  <2>2. call = "none" /\ op' = <<"generate">>
    BY <1>4 DEF Call
  <2>3. Bag!BagNext
    BY <2>1, <2>2 DEF Bag!BagNext
  <2> QED
    BY <1>1, <2>1, <2>2, <2>3 DEF SetInv, LeavesStep, Returned
<1>5. CASE Round
  <2>1. SetSound' /\ LeavesStep /\ UNCHANGED Repetitions
    BY <1>1, <1>5, RoundKeeps
  <2>2. UNCHANGED op
    BY <1>5 DEF Round
  <2> QED
    BY <1>1, <2>1, <2>2 DEF SetInv
<1>6. CASE UNCHANGED vars
  <2>1. SetSound'
    <3>1. UNCHANGED <<Enabled, overwritten, call, OptSeq, DefaultSequence, at, Finish, Repetition>>
      BY <1>6 DEF vars, generating
    <3>2. GenerationSound' = GenerationSound
      BY <3>1 DEF GenerationSound, Looked
    <3>3. Budget' = Budget
      BY <3>1 DEF Budget, getRepetition, hasEnabled, Found, Entries, findOptimizationInfo
    <3> QED
      BY <1>1, <3>1, <3>2, <3>3 DEF SetSound
  <2>2. UNCHANGED <<op, Repetitions>>
    BY <1>6, Lookups, RepetitionsNext DEF vars
  <2> QED
    BY <1>1, <1>6, <2>1, <2>2 DEF SetInv
<1> QED
  BY <1>2, <1>3, <1>4, <1>5, <1>6, Steps

LEMMA SetStarts ==
  ASSUME CompilationInit \/ ClientInit
  PROVE  SetInv /\ Bag!BagInit
<1>1. Init
  BY DEF CompilationInit, ClientInit
<1>2. /\ Enabled = <<>> /\ DefaultSequence = Null /\ call = "none" /\ OptSeq = <<>>
      /\ op = <<>> /\ overwritten = FALSE
  BY <1>1 DEF Init, Fresh
<1>3. Enabled \in MultiMaps /\ Distinct(Enabled) /\ InfosIn(Enabled) = {}
  BY <1>2, EmptySet DEF EmptyIsFine
<1>4. Range(DefaultSequence) = {}
  BY <1>2 DEF Range, Null
<1>5. OptSeq \in Seq(Infos)
  BY <1>2
<1>6. SetSound
  BY <1>2, <1>3, <1>4, <1>5 DEF SetSound, Budget
<1>7. points \in SUBSET PointSet
  <2>1. EnablingPoints \subseteq PointSet
    BY DEF EnablingPoints, PointSet
  <2>2. ArgPoints \subseteq PointSet
    BY DEF ArgPoints, HaveArgs, PointSet
  <2> QED
    BY <2>1, <2>2 DEF CompilationInit, ClientInit
<1>8. Repetitions = <<>>
  <2>1. DOMAIN Repetitions = {}
    BY <1>3, Lookups DEF RepsOf
  <2>2. Repetitions = [i \in {} |-> Repetitions[i]]
    BY <2>1 DEF Repetitions
  <2> QED
    BY <2>2
<1> QED
  BY <1>2, <1>6, <1>7, <1>8 DEF SetInv, Bag!BagInit

LEMMA SetInvHolds == ClientSpec => []SetInv
<1>1. CompilationInit \/ ClientInit => SetInv
  BY SetStarts
<1>2. SetInv /\ [CompilationNext]_<<vars, compiling>> => SetInv'
  BY SetSteps
<1> QED
  BY <1>1, <1>2, PTL DEF ClientSpec

(* No info has two entries, and the entries are in the order of their        *)
(* optimizations, whatever a client or a compilation calls.                 *)
THEOREM InfosHaveOneEntry == ClientSpec => []OneEntryPerInfo
<1>1. SetInv => OneEntryPerInfo
  BY DEF SetInv, SetSound, MultiMaps, Ordered, Distinct, OneEntryPerInfo, Entries
<1> QED
  BY <1>1, SetInvHolds, PTL

(* However the passes of a generation go, what was picked of an info and     *)
(* what is left of it make up its repetition.                               *)
THEOREM RepetitionsAreSpent == ClientSpec => []Budget
<1>1. SetInv => Budget
  BY DEF SetInv, SetSound
<1> QED
  BY <1>1, SetInvHolds, PTL

(* A generation leaves out repetitions of the last entries only, and only   *)
(* when the sequence has the size asked for.                                *)
THEOREM OnlyTheLastAreLeftOut == ClientSpec => LeavesOutTheLast
<1>1. SetInv /\ [CompilationNext]_<<vars, compiling>> => [LeavesStep]_vars
  BY SetSteps
<1> QED
  BY <1>1, SetInvHolds, PTL DEF ClientSpec, LeavesOutTheLast, LeavesStep

(* The multimap, its order and the iterators into it are a map from infos to *)
(* repetitions, until a caller writes through the reference.                *)
THEOREM SetIsABag == ClientSpec => ImplementsBag
<1>1. CompilationInit \/ ClientInit => Bag!BagInit
  BY SetStarts
<1>2. SetInv /\ [CompilationNext]_<<vars, compiling>> =>
        [overwritten' \/ Bag!BagNext]_<<op, Repetitions>>
  BY SetSteps
<1> QED
  BY <1>1, <1>2, SetInvHolds, PTL DEF ClientSpec, ImplementsBag

-----------------------------------------------------------------------------
(***************************************************************************)
(* From the decisions of a candidate to what a module is compiled with.     *)
(***************************************************************************)

(* A sequence that repeats nothing is as long as what is in it.             *)
LEMMA RangeSize ==
  ASSUME NEW n \in Nat, NEW f, DOMAIN f = 1..n,
         \A j, k \in 1..n : f[j] = f[k] => j = k
  PROVE  IsFiniteSet(Range(f)) /\ Cardinality(Range(f)) = n
<1>1. PICK R : R = Range(f)
  OBVIOUS
<1>2. R = {f[k] : k \in 1..n}
  BY <1>1 DEF Range
<1>3. PICK g : g = [k \in 1..n |-> f[k]]
  OBVIOUS
<1>4. g \in [1..n -> R] /\ \A k \in 1..n : g[k] = f[k]
  BY <1>2, <1>3
<1>5. g \in Surjection(1..n, R)
  BY <1>2, <1>4 DEF Surjection
<1>6. g \in Injection(1..n, R)
  BY <1>4 DEF Injection, IsInjective
<1>7. IsFiniteSet(1..n) /\ Cardinality(1..n) = n
  <2>1. 1 \in Int /\ n \in Int
    OBVIOUS
  <2>2. IsFiniteSet(1..n) /\ Cardinality(1..n) = IF 1 > n THEN 0 ELSE n - 1 + 1
    BY ONLY <2>1, FS_Interval
  <2> QED
    BY <2>2
<1>8. IsFiniteSet(R) /\ Cardinality(R) = Cardinality(1..n)
  BY <1>5, <1>6, <1>7, FS_Surjection
<1> QED
  BY <1>1, <1>7, <1>8

(* A sequence file names each optimization once.                            *)
LEMMA SequenceIsAll ==
  ASSUME NEW seq \in SetToSeqs(Optimizations)
  PROVE  \E n \in Nat :
           /\ DOMAIN seq = 1..n
           /\ \A j \in 1..n : seq[j] \in Optimizations
           /\ \A j, k \in 1..n : seq[j] = seq[k] => j = k
           /\ \A o \in Optimizations : \E j \in 1..n : seq[j] = o
<1>1. IsFiniteSet(Optimizations)
  BY OptimizationsFinite
<1>2. PICK n \in Nat : n = Cardinality(Optimizations)
  BY <1>1, FS_CardinalityType
<1>3. /\ DOMAIN seq = 1..n
      /\ \A j \in 1..n : seq[j] \in Optimizations
      /\ \A j, k \in 1..n : seq[j] = seq[k] => j = k
  BY <1>2 DEF SetToSeqs
<1>4. Cardinality(Range(seq)) = n
  BY <1>3, RangeSize
<1>5. Range(seq) \in SUBSET Optimizations
  BY <1>3 DEF Range
<1>6. Optimizations = Range(seq)
  BY <1>1, <1>2, <1>4, <1>5, FS_Subset
<1>7. \A o \in Optimizations : \E j \in 1..n : seq[j] = o
  BY <1>3, <1>6 DEF Range
<1> QED
  BY <1>3, <1>7

(* The set made of decisions: one entry for each optimization decided for,   *)
(* once, with the arguments decided.                                        *)
Made(entries, infos) ==
  /\ \A k \in DOMAIN entries :
       /\ entries[k].info[1] \in DOMAIN infos
       /\ entries[k].info = infos[entries[k].info[1]]
       /\ entries[k].rep = 1
  /\ \A o \in DOMAIN infos : \E k \in DOMAIN entries : entries[k].info[1] = o
  /\ \A j, k \in DOMAIN entries : entries[j].info[1] = entries[k].info[1] => j = k

LEMMA MadeDistinct ==
  ASSUME NEW entries \in MultiMaps, NEW infos, Made(entries, infos)
  PROVE  Distinct(entries)
BY LengthOf DEF Made, Distinct

LEMMA EnableMakes ==
  ASSUME NEW entries \in MultiMaps, NEW f, Made(entries, f),
         NEW o \in Optimizations, o \notin DOMAIN f,
         NEW g, DOMAIN g = DOMAIN f \cup {o}, g[o] = <<o, Default>>,
         \A u \in DOMAIN f : g[u] = f[u],
         NEW t, t = WithEnabled(entries, <<o, Default>>, 1)
  PROVE  t \in MultiMaps /\ Made(t, g)
<1>1. PICK i \in Infos : i = <<o, Default>>
  BY DefaultInfos
<1>2. i[1] = o
  BY <1>1
<1>3. Distinct(entries)
  BY MadeDistinct
<1>4. /\ t \in MultiMaps
      /\ InfosIn(t) = InfosIn(entries) \cup {i}
      /\ Distinct(t)
      /\ RepsOf(t) = Extended(entries, i, 1)
  <2>1. PICK r \in Nat : r = 1
    OBVIOUS
  <2>2. t = WithEnabled(entries, i, r)
    BY <1>1, <2>1
  <2> QED
    BY <1>3, <2>1, <2>2, WithEnabledKeeps
<1>5. i \notin InfosIn(entries)
  BY <1>2 DEF InfosIn, Made
<1>6. ASSUME NEW k \in DOMAIN t
      PROVE  /\ t[k].info[1] \in DOMAIN g
             /\ t[k].info = g[t[k].info[1]]
             /\ t[k].rep = 1
  <2>1. PICK j \in InfosIn(t) : j = t[k].info
    BY DEF InfosIn
  <2>2. t[k].rep = RepsOf(t)[j]
    BY <1>4, <2>1, RepOf
  <2>3. CASE j = i
    <3>1. RepsOf(t)[j] = 1
      BY <1>4, <1>5, <2>3 DEF Extended
    <3> QED
      BY <1>1, <1>2, <2>1, <2>2, <2>3, <3>1
  <2>4. CASE j # i
    <3>1. PICK m \in DOMAIN entries : entries[m].info = j
      BY <1>4, <2>4 DEF InfosIn
    <3>2. RepsOf(entries)[j] = entries[m].rep
      BY <1>3, <3>1, RepOf
    <3>3. RepsOf(t)[j] = RepsOf(entries)[j]
      BY <1>4, <2>4 DEF Extended
    <3>4. j[1] \in DOMAIN f /\ j = f[j[1]] /\ entries[m].rep = 1
      BY <3>1 DEF Made
    <3> QED
      BY <2>1, <2>2, <3>2, <3>3, <3>4
  <2> QED
    BY <2>3, <2>4
<1>7. ASSUME NEW u \in DOMAIN g
      PROVE  \E k \in DOMAIN t : t[k].info[1] = u
  <2>1. \E j \in InfosIn(t) : j[1] = u
    <3>1. CASE u = o
      BY <1>2, <1>4, <3>1
    <3>2. CASE u # o
      <4>1. PICK m \in DOMAIN entries : entries[m].info[1] = u
        BY <3>2 DEF Made
      <4> QED
        BY <1>4, <4>1 DEF InfosIn
    <3> QED
      BY <3>1, <3>2
  <2> QED
    BY <2>1 DEF InfosIn
<1>8. ASSUME NEW j \in DOMAIN t, NEW k \in DOMAIN t, t[j].info[1] = t[k].info[1]
      PROVE  j = k
  <2>1. t[j].info = t[k].info
    BY <1>6, <1>8
  <2> QED
    BY <1>4, <2>1, OnlyOne
<1> QED
  BY <1>4, <1>6, <1>7, <1>8 DEF Made

LEMMA WriteMakes ==
  ASSUME NEW entries \in MultiMaps, NEW f, Made(entries, f),
         NEW k \in DOMAIN entries, NEW i \in Infos, i[1] = entries[k].info[1],
         NEW g, DOMAIN g = DOMAIN f, g[i[1]] = i,
         \A u \in DOMAIN f : u # i[1] => g[u] = f[u],
         NEW t, t = WrittenAt(entries, k, i)
  PROVE  t \in MultiMaps /\ Made(t, g)
<1>1. t \in MultiMaps /\ DOMAIN t = DOMAIN entries
  BY WrittenKeeps
<1>2. PICK slot : slot = [entries[k] EXCEPT !.info = i]
  OBVIOUS
<1>3. slot.info = i /\ slot.rep = entries[k].rep
  BY <1>2, SlotsOf DEF Slot
<1>4. t = [entries EXCEPT ![k] = slot]
  BY <1>2 DEF WrittenAt
<1>5. \A m \in DOMAIN entries :
        /\ t[m].info = IF m = k THEN i ELSE entries[m].info
        /\ t[m].rep = entries[m].rep
        /\ t[m].info[1] = entries[m].info[1]
  BY <1>3, <1>4
<1>6. \A m \in DOMAIN entries : m # k => entries[m].info[1] # i[1]
  BY DEF Made
<1>7. i[1] \in DOMAIN f
  BY DEF Made
<1>8. ASSUME NEW m \in DOMAIN t
      PROVE  /\ t[m].info[1] \in DOMAIN g
             /\ t[m].info = g[t[m].info[1]]
             /\ t[m].rep = 1
  BY <1>1, <1>5, <1>6, <1>7 DEF Made
<1>9. \A o \in DOMAIN g : \E m \in DOMAIN t : t[m].info[1] = o
  BY <1>1, <1>5 DEF Made
<1>10. \A j, m \in DOMAIN t : t[j].info[1] = t[m].info[1] => j = m
  BY <1>1, <1>5 DEF Made
<1> QED
  BY <1>1, <1>8, <1>9, <1>10 DEF Made

LEMMA InfosCount ==
  ASSUME NEW entries \in MultiMaps, Distinct(entries)
  PROVE  /\ IsFiniteSet(InfosIn(entries))
         /\ Cardinality(InfosIn(entries)) = Len(entries)
<1>1. PICK n \in Nat : n = Len(entries) /\ DOMAIN entries = 1..n
  BY LengthOf
<1>2. PICK f : f = [k \in 1..n |-> entries[k].info]
  OBVIOUS
<1>3. DOMAIN f = 1..n /\ \A j, k \in 1..n : f[j] = f[k] => j = k
  BY <1>1, <1>2, OnlyOne
<1>4. IsFiniteSet(Range(f)) /\ Cardinality(Range(f)) = n
  BY <1>3, RangeSize
<1>5. Range(f) = InfosIn(entries)
  BY <1>1, <1>2 DEF Range, InfosIn
<1> QED
  BY <1>1, <1>4, <1>5

(* A sequence with each entry of the set in it once.                        *)
Complete(seq, entries) ==
  /\ Len(seq) = Len(entries)
  /\ Range(seq) = InfosIn(entries)

LEMMA AllPicked ==
  ASSUME Enabled \in MultiMaps, NEW infos, Made(Enabled, infos), NEW seq \in Seq(Infos),
         \A i \in Infos : Occurrences(i, seq) <= getRepetition(i),
         \A k \in Entries : \/ Occurrences(Enabled[k].info, seq) = getRepetition(Enabled[k].info)
                            \/ Len(seq) = Len(Enabled)
  PROVE  Complete(seq, Enabled)
<1>1. PICK n \in Nat : n = Len(Enabled) /\ DOMAIN Enabled = 1..n
  BY LengthOf
<1>2. Distinct(Enabled)
  BY MadeDistinct
<1>3. \A i : getRepetition(i) = IF i \in InfosIn(Enabled) THEN 1 ELSE 0
  <2>1. ASSUME NEW i \in InfosIn(Enabled)
        PROVE  RepsOf(Enabled)[i] = 1
    <3>1. PICK k \in DOMAIN Enabled : Enabled[k].info = i
      BY DEF InfosIn
    <3> QED
      BY <1>2, <3>1, RepOf DEF Made
  <2> QED
    BY <2>1, Lookups
<1>4. PICK l \in Nat : l = Len(seq) /\ DOMAIN seq = 1..l /\ \A k \in 1..l : seq[k] \in Infos
  BY ONLY seq \in Seq(Infos)
<1> DEFINE At(i) == {k \in DOMAIN seq : seq[k] = i}
<1>5. \A i : IsFiniteSet(At(i)) /\ Cardinality(At(i)) \in Nat
               /\ Occurrences(i, seq) = Cardinality(At(i))
  <2>1. IsFiniteSet(1..l)
    BY FS_Interval
  <2>2. ASSUME NEW i
        PROVE  IsFiniteSet(At(i)) /\ Cardinality(At(i)) \in Nat
    <3>1. At(i) \in SUBSET (1..l)
      BY <1>4
    <3> HIDE DEF At
    <3> QED
      BY <2>1, <3>1, FS_Subset, FS_CardinalityType
  <2> QED
    BY <2>2 DEF Occurrences
<1>6. \A j, k \in 1..l : seq[j] = seq[k] => j = k
  <2> SUFFICES ASSUME NEW j \in 1..l, NEW k \in 1..l, seq[j] = seq[k]
               PROVE  j = k
    OBVIOUS
  <2>1. PICK D : D = At(seq[j])
    OBVIOUS
  <2>2. j \in D /\ k \in D
    BY <1>4, <2>1
  <2>3. IsFiniteSet(D) /\ Cardinality(D) \in Nat /\ Cardinality(D) <= 1
    <3>1. PICK i \in Infos : i = seq[j]
      BY <1>4
    <3>2. IsFiniteSet(D) /\ Cardinality(D) \in Nat /\ Occurrences(i, seq) = Cardinality(D)
      BY <1>5, <2>1, <3>1
    <3>3. getRepetition(i) \in {0, 1}
      BY <1>3
    <3>4. Occurrences(i, seq) <= getRepetition(i)
      BY <3>1
    <3> QED
      BY ONLY <3>2, <3>3, <3>4
  <2>4. Cardinality(D) # 0
    BY <2>2, <2>3, FS_EmptySet
  <2>5. Cardinality(D) = 1
    BY ONLY <2>3, <2>4
  <2>6. \E x : D = {x}
    BY ONLY <2>3, <2>5, FS_Singleton
  <2> QED
    BY <2>2, <2>6
<1>7. IsFiniteSet(Range(seq)) /\ Cardinality(Range(seq)) = l
  BY <1>4, <1>6, RangeSize
<1>8. IsFiniteSet(InfosIn(Enabled)) /\ Cardinality(InfosIn(Enabled)) = n
  BY <1>1, <1>2, InfosCount
<1>9. Range(seq) \in SUBSET InfosIn(Enabled)
  <2> SUFFICES ASSUME NEW k \in 1..l
               PROVE  seq[k] \in InfosIn(Enabled)
    BY <1>4 DEF Range
  <2>1. PICK D : D = At(seq[k])
    OBVIOUS
  <2>2. k \in D
    BY <1>4, <2>1
  <2>3. Cardinality(D) # 0
    BY <1>5, <2>1, <2>2, FS_EmptySet
  <2>4. seq[k] \notin InfosIn(Enabled) => Cardinality(D) <= 0 /\ Cardinality(D) \in Nat
    BY <1>3, <1>4, <1>5, <2>1
  <2> QED
    BY <2>3, <2>4
<1>10. CASE l = n
  BY <1>1, <1>4, <1>7, <1>8, <1>9, <1>10, FS_Subset DEF Complete
<1>11. CASE l # n
  <2>1. ASSUME NEW i \in InfosIn(Enabled)
        PROVE  i \in Range(seq)
    <3>1. PICK k \in DOMAIN Enabled : Enabled[k].info = i
      BY DEF InfosIn
    <3>2. Occurrences(i, seq) = 1
      BY <1>1, <1>3, <1>4, <1>11, <3>1 DEF Entries
    <3>3. PICK D : D = At(i)
      OBVIOUS
    <3>4. D # {}
      BY <1>5, <3>2, <3>3, FS_EmptySet
    <3> QED
      BY <3>3, <3>4 DEF Range
  <2>2. Range(seq) = InfosIn(Enabled)
    BY <1>9, <2>1
  <2> QED
    BY <1>7, <1>8, <1>11, <2>2
<1> QED
  BY <1>10, <1>11

(* A sequence of what some numbers have, in their order.                    *)
Added(seq, d, infos) ==
  /\ seq \in Seq(Infos)
  /\ \A m \in DOMAIN seq : \E j \in d : seq[m] = infos[j]
  /\ \A j \in d : \E m \in DOMAIN seq : seq[m] = infos[j]
  /\ \A m, p \in DOMAIN seq : \A j, k \in d :
       m < p /\ seq[m] = infos[j] /\ seq[p] = infos[k] => j < k

LEMMA AddedOne ==
  ASSUME NEW d \in SUBSET Nat, NEW x \in Nat, \A y \in d : y < x,
         NEW infos, infos[x] \in Infos, \A y \in d : infos[y] # infos[x],
         \A j, k \in d : infos[j] = infos[k] => j = k,
         NEW before, Added(before, d, infos), NEW seq, seq = Append(before, infos[x])
  PROVE  Added(seq, d \cup {x}, infos)
<1>1. PICK l \in Nat : l = Len(before) /\ DOMAIN before = 1..l
  BY DEF Added
<1>2. PICK info \in Infos : info = infos[x]
  OBVIOUS
<1>3. /\ seq \in Seq(Infos)
      /\ DOMAIN seq = 1..(l + 1)
      /\ seq[l + 1] = info
      /\ \A m \in 1..l : seq[m] = before[m]
  BY <1>1, <1>2 DEF Added
<1>4. \A m \in 1..l : \E j \in d : before[m] = infos[j]
  BY <1>1 DEF Added
<1>5. \A j \in d : \E m \in 1..l : before[m] = infos[j]
  BY <1>1 DEF Added
<1>6. ASSUME NEW m \in 1..l, NEW p \in 1..l, m < p, NEW j \in d, NEW k \in d,
             before[m] = infos[j], before[p] = infos[k]
      PROVE  j < k
  BY <1>1, <1>6 DEF Added
<1>7. \A m \in 1..(l + 1) : m \in 1..l \/ m = l + 1
  OBVIOUS
<1>8. ASSUME NEW m \in 1..(l + 1)
      PROVE  \E j \in d \cup {x} : seq[m] = infos[j]
  BY <1>2, <1>3, <1>4, <1>7
<1>9. ASSUME NEW j \in d \cup {x}
      PROVE  \E m \in 1..(l + 1) : seq[m] = infos[j]
  <2>1. CASE j = x
    BY <1>2, <1>3, <2>1
  <2>2. CASE j # x
    <3>1. PICK m \in 1..l : before[m] = infos[j]
      BY <1>5, <2>2
    <3> QED
      BY <1>3, <3>1
  <2> QED
    BY <2>1, <2>2
<1>10. ASSUME NEW m \in 1..(l + 1), NEW p \in 1..(l + 1),
              NEW j \in d \cup {x}, NEW k \in d \cup {x},
              m < p, seq[m] = infos[j], seq[p] = infos[k]
       PROVE  j < k
  <2>1. m \in 1..l /\ seq[m] = before[m]
    BY <1>3, <1>10
  <2>2. PICK i \in d : before[m] = infos[i]
    BY <1>4, <2>1
  <2>3. j \in d
    BY <1>10, <2>1, <2>2
  <2>4. CASE k = x
    BY <2>3, <2>4
  <2>5. CASE k # x
    <3>1. k \in d /\ infos[k] # info
      BY <1>2, <2>5
    <3>2. p # l + 1
      BY <1>3, <1>10, <3>1
    <3>3. p \in 1..l /\ seq[p] = before[p]
      BY <1>3, <1>7, <3>2
    <3>4. before[m] = infos[j] /\ before[p] = infos[k] /\ m < p
      BY <1>10, <2>1, <3>3
    <3> QED
      BY ONLY <1>6, <2>1, <2>3, <3>1, <3>3, <3>4
  <2> QED
    BY <2>4, <2>5
<1>11. \A m, p \in DOMAIN seq : \A j, k \in d \cup {x} :
         m < p /\ seq[m] = infos[j] /\ seq[p] = infos[k] => j < k
  BY <1>3, <1>10
<1>12. /\ \A m \in DOMAIN seq : \E j \in d \cup {x} : seq[m] = infos[j]
       /\ \A j \in d \cup {x} : \E m \in DOMAIN seq : seq[m] = infos[j]
  BY <1>3, <1>8, <1>9
<1> QED
  BY ONLY <1>3, <1>11, <1>12 DEF Added

(* Going over the places of a sequence from the first to the last, and       *)
(* adding what some of them have, keeps their order.                        *)
LEMMA AddedInOrder ==
  ASSUME NEW n \in Nat, NEW on \in SUBSET (1..n), NEW infos,
         \A j \in on : infos[j] \in Infos,
         \A j, k \in on : infos[j] = infos[k] => j = k,
         NEW after, after[{}] = <<>>,
         \A s \in SUBSET (1..n) : s # {} =>
           \E x \in s : /\ \A y \in s : x >= y
                        /\ after[s] = IF x \in on THEN Append(after[s \ {x}], infos[x])
                                                  ELSE after[s \ {x}]
  PROVE  Added(after[1..n], on, infos)
<1> DEFINE Good == {s \in SUBSET (1..n) : Added(after[s], s \cap on, infos)}
<1>1. {} \in Good
  <2>1. PICK none : none = <<>>
    OBVIOUS
  <2>2. none \in Seq(Infos) /\ DOMAIN none = {}
    BY <2>1
  <2>3. Added(none, {}, infos)
    BY ONLY <2>2 DEF Added
  <2>4. {} \cap on = {}
    OBVIOUS
  <2> QED
    BY <2>1, <2>3, <2>4
<1>2. ASSUME NEW s \in SUBSET (1..n), \A x \in s : s \ {x} \in Good, s # {}
      PROVE  s \in Good
  <2>1. PICK x \in s : /\ \A y \in s : x >= y
                       /\ after[s] = IF x \in on THEN Append(after[s \ {x}], infos[x])
                                                 ELSE after[s \ {x}]
    BY <1>2
  <2>2. PICK before : before = after[s \ {x}]
    OBVIOUS
  <2>3. PICK d : d = (s \ {x}) \cap on
    OBVIOUS
  <2>4. Added(before, d, infos)
    BY <1>2, <2>2, <2>3
  <2>5. CASE x \in on
    <3>1. d \in SUBSET Nat /\ x \in Nat /\ s \cap on = d \cup {x}
      BY <2>3, <2>5
    <3>2. \A y \in d : y < x
      BY <2>1, <2>3
    <3>3. after[s] = Append(before, infos[x])
      BY <2>1, <2>2, <2>5
    <3>4. infos[x] \in Infos
      BY <2>5
    <3>5. /\ \A y \in d : infos[y] # infos[x]
          /\ \A j, k \in d : infos[j] = infos[k] => j = k
      BY <2>3, <2>5
    <3>6. Added(after[s], d \cup {x}, infos)
      BY ONLY <2>4, <3>1, <3>2, <3>3, <3>4, <3>5, AddedOne
    <3> QED
      BY <3>1, <3>6
  <2>6. CASE x \notin on
    <3>1. d = s \cap on
      BY <2>3, <2>6
    <3> QED
      BY <2>1, <2>2, <2>4, <2>6, <3>1
  <2> QED
    BY <2>5, <2>6
<1>3. \A s \in SUBSET (1..n) : (\A x \in s : s \ {x} \in Good) => s \in Good
  BY <1>1, <1>2
<1>4. 1..n \in Good
  <2>1. 1 \in Int /\ n \in Int
    OBVIOUS
  <2>2. IsFiniteSet(1..n)
    BY ONLY <2>1, FS_Interval
  <2> HIDE DEF Good
  <2> QED
    BY ONLY <1>3, <2>2, FiniteInduction
<1>5. (1..n) \cap on = on
  OBVIOUS
<1> QED
  BY <1>4, <1>5

(* The fold of compileWithCandidate over the sequence of the file.          *)
Arranging ==
  CHOOSE iter : iter = [s \in SUBSET DOMAIN Sequence |->
    IF s = {} THEN <<>>
    ELSE LET x == Max(s)
         IN  IF hasEnabledOpt(Sequence[x])
             THEN Append(iter[s \ {x}], InfoOf(Sequence[x])) ELSE iter[s \ {x}]]

LEMMA InfoOfIs ==
  ASSUME Enabled \in MultiMaps, NEW o, hasEnabledOpt(o)
  PROVE  \E k \in DOMAIN Enabled : Enabled[k].info[1] = o /\ InfoOf(o) = Enabled[k].info
<1>1. EntriesOf(o) # {} /\ EntriesOf(o) \subseteq Nat
  BY LengthOf DEF hasEnabledOpt, EntriesOf, Entries
<1>2. \E k \in EntriesOf(o) : \A m \in EntriesOf(o) : k <= m
  BY <1>1, SmallestOf
<1>3. PICK k : k = CHOOSE j \in EntriesOf(o) : \A m \in EntriesOf(o) : j <= m
  OBVIOUS
<1>4. k \in EntriesOf(o) /\ InfoOf(o) = Enabled[k].info
  BY <1>2, <1>3 DEF InfoOf
<1> QED
  BY <1>4 DEF EntriesOf, Entries

LEMMA ArrangingIs ==
  ASSUME Enabled \in MultiMaps, NEW n \in Nat, DOMAIN Sequence = 1..n
  PROVE  /\ Arranged = Arranging[1..n]
         /\ Arranging[{}] = <<>>
         /\ \A s \in SUBSET (1..n) : s # {} =>
              \E x \in s : /\ \A y \in s : x >= y
                           /\ Arranging[s] = IF hasEnabledOpt(Sequence[x])
                                THEN Append(Arranging[s \ {x}], InfoOf(Sequence[x]))
                                ELSE Arranging[s \ {x}]
<1>1. Arranged = Arranging[DOMAIN Sequence]
  BY DEF Arranged, FoldLeft, MapThenFoldSet, Arranging
<1>2. PICK step : step = [k \in 1..n |-> [v \in Seq(Infos) |->
        IF hasEnabledOpt(Sequence[k]) THEN Append(v, InfoOf(Sequence[k])) ELSE v]]
  OBVIOUS
<1>3. PICK chosen : chosen = [s \in SUBSET (1..n) |-> Max(s)]
  OBVIOUS
<1>4. \A s \in SUBSET (1..n) : s # {} => chosen[s] \in s
  BY <1>3, MaxIs
<1>5. \A k \in 1..n : \A v \in Seq(Infos) : step[k][v] \in Seq(Infos)
  <2>1. ASSUME NEW k \in 1..n, NEW v \in Seq(Infos)
        PROVE  step[k][v] \in Seq(Infos)
    <3>1. CASE hasEnabledOpt(Sequence[k])
      <4>1. InfoOf(Sequence[k]) \in Infos
        BY <3>1, InfoOfIs, SlotsOf
      <4>2. Append(v, InfoOf(Sequence[k])) \in Seq(Infos)
        BY <4>1
      <4> QED
        BY <1>2, <3>1, <4>2
    <3>2. CASE ~hasEnabledOpt(Sequence[k])
      BY <1>2, <3>2
    <3> QED
      BY <3>1, <3>2
  <2> QED
    BY <2>1
<1>6. PICK iter \in [SUBSET (1..n) -> Seq(Infos)] : \A s \in SUBSET (1..n) :
        iter[s] = IF s = {} THEN <<>> ELSE step[chosen[s]][iter[s \ {chosen[s]}]]
  <2>1. \E iter \in [SUBSET (1..n) -> Seq(Infos)] : IsFold(iter, 1..n, <<>>, chosen, step)
    <3>1. <<>> \in Seq(Infos)
      OBVIOUS
    <3>2. 1 \in Int /\ n \in Int
      OBVIOUS
    <3>3. IsFiniteSet(1..n)
      BY ONLY <3>2, FS_Interval
    <3> QED
      BY ONLY <1>4, <1>5, <3>1, <3>3, FoldExists
  <2> QED
    BY ONLY <2>1 DEF IsFold
<1> DEFINE Is(f) ==
      f = [s \in SUBSET DOMAIN Sequence |->
             IF s = {} THEN <<>>
             ELSE LET x == Max(s)
                  IN  IF hasEnabledOpt(Sequence[x])
                      THEN Append(f[s \ {x}], InfoOf(Sequence[x])) ELSE f[s \ {x}]]
<1>7. Is(iter)
  <2>1. ASSUME NEW s \in SUBSET (1..n), s # {}
        PROVE  iter[s] = LET x == Max(s)
                         IN  IF hasEnabledOpt(Sequence[x])
                             THEN Append(iter[s \ {x}], InfoOf(Sequence[x])) ELSE iter[s \ {x}]
    <3>1. PICK x : x = Max(s)
      OBVIOUS
    <3>2. x = chosen[s] /\ x \in 1..n
      BY <1>3, <1>4, <2>1, <3>1
    <3>3. iter[s \ {x}] \in Seq(Infos)
      BY <1>6
    <3>4. iter[s] = step[x][iter[s \ {x}]]
      BY <1>6, <2>1, <3>2
    <3>5. iter[s] = IF hasEnabledOpt(Sequence[x])
                    THEN Append(iter[s \ {x}], InfoOf(Sequence[x])) ELSE iter[s \ {x}]
      BY <1>2, <3>2, <3>3, <3>4
    <3> QED
      BY <3>1, <3>5
  <2>2. \A s \in SUBSET (1..n) : s = {} => iter[s] = <<>>
    BY <1>6
  <2> QED
    BY <1>6, <2>1, <2>2
<1>8. Is(Arranging)
  BY <1>7 DEF Arranging
<1>9. Arranging[{}] = <<>>
  BY <1>8
<1>10. ASSUME NEW s \in SUBSET (1..n), s # {}
       PROVE  \E x \in s : /\ \A y \in s : x >= y
                           /\ Arranging[s] = IF hasEnabledOpt(Sequence[x])
                                THEN Append(Arranging[s \ {x}], InfoOf(Sequence[x]))
                                ELSE Arranging[s \ {x}]
  <2>1. PICK x : x = Max(s)
    OBVIOUS
  <2>2. x \in s /\ \A y \in s : x >= y
    BY <1>10, <2>1, MaxIs
  <2>3. Arranging[s] = IF hasEnabledOpt(Sequence[x])
                       THEN Append(Arranging[s \ {x}], InfoOf(Sequence[x]))
                       ELSE Arranging[s \ {x}]
    BY <1>8, <1>10, <2>1
  <2> QED
    BY <2>2, <2>3
<1> QED
  BY <1>1, <1>9, <1>10

(* Whatever is enabled is arranged in the order of the sequence file.       *)
Placed(seq, sequence) ==
  \A j, k \in DOMAIN sequence : j < k =>
    \A m, n \in DOMAIN seq : seq[m][1] = sequence[j] /\ seq[n][1] = sequence[k] => m < n

LEMMA ArrangedIs ==
  ASSUME Enabled \in MultiMaps, NEW infos, Made(Enabled, infos),
         DOMAIN infos \subseteq Optimizations, Sequence \in SetToSeqs(Optimizations)
  PROVE  Complete(Arranged, Enabled) /\ Placed(Arranged, Sequence)
<1>1. PICK n \in Nat :
        /\ DOMAIN Sequence = 1..n
        /\ \A j \in 1..n : Sequence[j] \in Optimizations
        /\ \A j, k \in 1..n : Sequence[j] = Sequence[k] => j = k
        /\ \A o \in Optimizations : \E j \in 1..n : Sequence[j] = o
  BY SequenceIsAll
<1>2. PICK on \in SUBSET (1..n) : on = {j \in 1..n : hasEnabledOpt(Sequence[j])}
  OBVIOUS
<1>3. PICK found : found = [j \in 1..n |-> InfoOf(Sequence[j])]
  OBVIOUS
<1>4. \A j \in on : /\ found[j] \in Infos
                    /\ found[j] \in InfosIn(Enabled)
                    /\ found[j][1] = Sequence[j]
  <2> SUFFICES ASSUME NEW j \in on
               PROVE  /\ found[j] \in Infos
                      /\ found[j] \in InfosIn(Enabled)
                      /\ found[j][1] = Sequence[j]
    OBVIOUS
  <2>1. PICK k \in DOMAIN Enabled :
          Enabled[k].info[1] = Sequence[j] /\ InfoOf(Sequence[j]) = Enabled[k].info
    BY <1>2, InfoOfIs
  <2>2. found[j] = Enabled[k].info
    BY <1>2, <1>3, <2>1
  <2> QED
    BY <2>1, <2>2, SlotsOf DEF InfosIn
<1>5. \A j, k \in on : found[j] = found[k] => j = k
  BY <1>1, <1>2, <1>4
<1>6. PICK seq : seq = Arranged
  OBVIOUS
<1>7. Added(seq, on, found)
  <2>1. PICK after : after = Arranging
    OBVIOUS
  <2>2. after[{}] = <<>> /\ seq = after[1..n]
    BY <1>1, <1>6, <2>1, ArrangingIs
  <2>3. ASSUME NEW s \in SUBSET (1..n), s # {}
        PROVE  \E x \in s : /\ \A y \in s : x >= y
                            /\ after[s] = IF x \in on THEN Append(after[s \ {x}], found[x])
                                                      ELSE after[s \ {x}]
    <3>1. PICK x \in s : /\ \A y \in s : x >= y
                         /\ after[s] = IF hasEnabledOpt(Sequence[x])
                              THEN Append(after[s \ {x}], InfoOf(Sequence[x]))
                              ELSE after[s \ {x}]
      BY <1>1, <2>1, <2>3, ArrangingIs
    <3>2. (x \in on <=> hasEnabledOpt(Sequence[x])) /\ found[x] = InfoOf(Sequence[x])
      BY <1>2, <1>3
    <3> QED
      BY <3>1, <3>2
  <2> QED
    BY ONLY <1>4, <1>5, <2>2, <2>3, n \in Nat, on \in SUBSET (1..n), AddedInOrder
<1>8. PICK l \in Nat : l = Len(seq) /\ DOMAIN seq = 1..l
  BY <1>7 DEF Added
<1>9. \A m \in 1..l : \E j \in on : seq[m] = found[j]
  BY <1>7, <1>8 DEF Added
<1>10. \A j \in on : \E m \in 1..l : seq[m] = found[j]
  BY <1>7, <1>8 DEF Added
<1>11. ASSUME NEW m \in 1..l, NEW p \in 1..l, NEW j \in on, NEW k \in on,
              m < p, seq[m] = found[j], seq[p] = found[k]
       PROVE  j < k
  BY <1>7, <1>8, <1>11 DEF Added
<1>12. Range(seq) = InfosIn(Enabled)
  <2>1. ASSUME NEW i \in InfosIn(Enabled)
        PROVE  i \in Range(seq)
    <3>1. PICK k \in DOMAIN Enabled : Enabled[k].info = i
      BY DEF InfosIn
    <3>2. PICK j \in 1..n : Sequence[j] = i[1]
      BY <1>1, <3>1 DEF Made
    <3>3. j \in on
      BY <1>2, <3>1, <3>2 DEF hasEnabledOpt, EntriesOf, Entries
    <3>4. PICK m \in DOMAIN Enabled : Enabled[m].info = found[j]
      BY <1>4, <3>3 DEF InfosIn
    <3>5. m = k
      BY <1>4, <3>1, <3>2, <3>3, <3>4 DEF Made
    <3> QED
      BY <1>8, <1>10, <3>1, <3>3, <3>4, <3>5 DEF Range
  <2>2. Range(seq) \subseteq InfosIn(Enabled)
    BY <1>4, <1>8, <1>9 DEF Range
  <2> QED
    BY <2>1, <2>2
<1>13. \A m, p \in 1..l : seq[m] = seq[p] => m = p
  <2>1. ASSUME NEW m \in 1..l, NEW p \in 1..l, seq[m] = seq[p], m < p
        PROVE  FALSE
    <3>1. PICK j \in on : seq[m] = found[j]
      BY <1>9
    <3>2. seq[p] = found[j]
      BY <2>1, <3>1
    <3>3. j < j
      BY ONLY <1>11, <2>1, <3>1, <3>2, j \in on, m \in 1..l, p \in 1..l
    <3> QED
      BY ONLY <3>3, j \in on, on \in SUBSET (1..n), n \in Nat
  <2> QED
    BY <2>1
<1>14. Cardinality(Range(seq)) = l
  BY <1>8, <1>13, RangeSize
<1>15. Cardinality(InfosIn(Enabled)) = Len(Enabled)
  BY MadeDistinct, InfosCount
<1>16. ASSUME NEW j \in 1..n, NEW k \in 1..n, j < k, NEW m \in 1..l, NEW p \in 1..l,
              seq[m][1] = Sequence[j], seq[p][1] = Sequence[k]
       PROVE  m < p
  <2>1. PICK a \in on : seq[m] = found[a]
    BY <1>9
  <2>2. PICK b \in on : seq[p] = found[b]
    BY <1>9
  <2>3. a = j /\ b = k
    BY <1>1, <1>4, <1>16, <2>1, <2>2
  <2>4. m # p
    BY <1>5, <1>16, <2>1, <2>2, <2>3
  <2>5. p < m => b < a
    BY <1>11, <2>1, <2>2
  <2> QED
    BY <1>16, <2>3, <2>4, <2>5
<1> QED
  BY <1>1, <1>6, <1>8, <1>12, <1>14, <1>15, <1>16 DEF Complete, Placed

(***************************************************************************)
(* How far the loop over the candidate has come: the points it came to are   *)
(* before all that are left, and the set is what they decide.               *)
(***************************************************************************)
CandidateSound ==
  /\ Parameterized \in BOOLEAN
  /\ Sequence \in SetToSeqs(Optimizations)
  /\ EnablingPoints \subseteq DOMAIN values
  /\ DOMAIN values \subseteq EnablingPoints \cup ArgPoints
  /\ Parameterized => ArgPoints \subseteq DOMAIN values

Yet == DOMAIN values \ points

DecidedYet == {o \in Optimizations : <<0, o>> \in Yet /\ values[<<0, o>>] = 1}

InfoYet(o) ==
  <<o, IF Parameterized /\ <<1, o>> \in Yet THEN values[<<1, o>>] ELSE Default>>

InfosYet == [o \in DecidedYet |-> InfoYet(o)]

PointsInOrder == points \subseteq DOMAIN values /\ \A p \in Yet : \A q \in points : Before(p, q)

(* What the set and the sequences have to do with each other afterwards.    *)
Phase ==
  /\ pc \in {"decide", "apply", "applied", "failed"}
  /\ pc # "decide" =>
       points = {} /\ Complete(OptSequence, Enabled) /\ Placed(OptSequence, Sequence)
  /\ pc = "decide" \/ ~Parameterized => call = "none" /\ DefaultSequence = Null
  /\ call # "none" => call = "default" /\ Size = Len(Enabled)
  /\ \/ DefaultSequence = Null
     \/ DefaultSequence = Pointer(DefaultSequence[1]) /\ Complete(DefaultSequence[1], Enabled)
  /\ pc = "applied" /\ Parameterized => DefaultSequence # Null

DecisionsSound == CandidateSound /\ PointsInOrder /\ Made(Enabled, InfosYet) /\ Phase

DecideInv == pc = "client" \/ DecisionsSound

LEMMA DecidingStarts ==
  ASSUME CompilationInit
  PROVE  DecisionsSound
<1>1. /\ Enabled = <<>> /\ DefaultSequence = Null /\ call = "none" /\ pc = "decide"
  BY DEF CompilationInit, Init
<1>2. PICK S \in {EnablingPoints, EnablingPoints \cup ArgPoints} :
        /\ Parameterized => ArgPoints \subseteq S
        /\ DOMAIN values = S
        /\ points = S
  BY DEF CompilationInit
<1>3. CandidateSound
  BY <1>2 DEF CompilationInit, CandidateSound
<1>4. Yet = {}
  BY <1>2 DEF Yet
<1>5. PointsInOrder
  BY <1>2, <1>4 DEF PointsInOrder
<1>6. DOMAIN InfosYet = {} /\ DOMAIN Enabled = {}
  BY <1>1, <1>4 DEF InfosYet, DecidedYet
<1>7. Made(Enabled, InfosYet)
  BY ONLY <1>6 DEF Made
<1>8. Phase
  BY <1>1 DEF Phase
<1> QED
  BY <1>3, <1>5, <1>7, <1>8 DEF DecisionsSound

(* The loop comes to the first point that is left.                          *)
LEMMA PointTaken ==
  ASSUME points \in SUBSET PointSet, DecisionsSound, NEW kind, NextPoint(kind)
  PROVE  /\ point \in points /\ point \notin Yet /\ point \in DOMAIN values
         /\ point = <<kind, point[2]>> /\ point[2] \in Optimizations
         /\ points' = points \ {point}
         /\ Yet' = Yet \cup {point}
         /\ PointsInOrder'
         /\ CandidateSound'
<1>1. /\ point \in points
      /\ point = <<kind, point[2]>> /\ point[2] \in Optimizations
      /\ \A q \in points : point = q \/ Before(point, q)
  BY PointIs, PointsArePairs DEF NextPoint
<1>2. /\ points' = points \ {point}
      /\ values' = values /\ Parameterized' = Parameterized /\ Sequence' = Sequence
  BY DEF NextPoint, candidate
<1>3. points \subseteq DOMAIN values /\ \A p \in Yet : \A q \in points : Before(p, q)
  BY DEF DecisionsSound, PointsInOrder
<1>4. Yet' = Yet \cup {point}
  BY <1>1, <1>2, <1>3 DEF Yet
<1>5. PointsInOrder'
  BY <1>1, <1>2, <1>3, <1>4 DEF PointsInOrder
<1>6. CandidateSound'
  BY <1>2 DEF DecisionsSound, CandidateSound
<1> QED
  BY <1>1, <1>2, <1>3, <1>4, <1>5, <1>6 DEF Yet

LEMMA StillDeciding ==
  ASSUME points \in SUBSET PointSet, DecisionsSound, NEW kind, NextPoint(kind),
         call' = "none", UNCHANGED DefaultSequence, Made(Enabled', InfosYet')
  PROVE  DecisionsSound'
<1>1. PointsInOrder' /\ CandidateSound'
  BY PointTaken
<1>2. pc' = "decide" /\ DefaultSequence' = Null
  BY DEF NextPoint, DecisionsSound, Phase
<1>3. Phase'
  BY <1>2 DEF Phase
<1> QED
  BY <1>1, <1>3 DEF DecisionsSound

LEMMA EnableDecides ==
  ASSUME points \in SUBSET PointSet, Enabled \in MultiMaps, DecisionsSound, Enable
  PROVE  DecisionsSound'
<1>1. NextPoint(0) /\ values[point] = 1 /\ values' = values /\ Parameterized' = Parameterized
  BY DEF Enable, NextPoint, candidate
<1>2. PICK o \in Optimizations : point = <<0, o>>
  BY <1>1, PointTaken
<1>3. <<0, o>> \notin Yet /\ Yet' = Yet \cup {<<0, o>>} /\ point \in points
  BY <1>1, <1>2, PointTaken
<1>4. <<1, o>> \notin Yet
  BY <1>2, <1>3, InfosArePairs DEF DecisionsSound, PointsInOrder, Before
<1>5. DecidedYet' = DecidedYet \cup {o} /\ o \notin DecidedYet
  BY <1>1, <1>2, <1>3 DEF DecidedYet
<1>6. \A u \in Optimizations : InfoYet(u)' = InfoYet(u)
  BY <1>1, <1>3 DEF InfoYet
<1>7. InfoYet(o) = <<o, Default>>
  BY <1>4 DEF InfoYet
<1>8. PICK f : f = InfosYet
  OBVIOUS
<1>9. PICK g : g = InfosYet'
  OBVIOUS
<1>10. /\ DOMAIN f = DecidedYet /\ Made(Enabled, f)
       /\ \A u \in DecidedYet : f[u] = InfoYet(u)
  BY <1>8 DEF InfosYet, DecisionsSound
<1>11. /\ DOMAIN g = DOMAIN f \cup {o}
       /\ g[o] = <<o, Default>>
       /\ \A u \in DOMAIN f : g[u] = f[u]
  <2>1. DOMAIN g = DecidedYet' /\ \A u \in DecidedYet' : g[u] = InfoYet(u)'
    BY <1>9 DEF InfosYet
  <2>2. DecidedYet \subseteq Optimizations
    BY DEF DecidedYet
  <2> QED
    BY <1>5, <1>6, <1>7, <1>10, <2>1, <2>2
<1>12. PICK i \in Infos : i = <<o, Default>>
  BY DefaultInfos
<1>13. i \notin InfosIn(Enabled)
  <2>1. i[1] = o
    BY <1>12
  <2> QED
    BY <1>5, <1>10, <2>1 DEF InfosIn, Made
<1>14. /\ Enabled' = WithEnabled(Enabled, <<o, Default>>, 1)
       /\ call' = "none" /\ UNCHANGED DefaultSequence
  <2>1. addOptimization(i)
    BY <1>2, <1>12 DEF Enable
  <2>2. ~hasEnabled(i)
    BY <1>13, Lookups
  <2> QED
    BY <1>12, <2>1, <2>2 DEF addOptimization, Operation
<1>15. PICK t : t = Enabled'
  OBVIOUS
<1>16. Made(t, g)
  <2>1. o \notin DOMAIN f /\ t = WithEnabled(Enabled, <<o, Default>>, 1)
    BY <1>5, <1>10, <1>14, <1>15
  <2> QED
    BY ONLY Enabled \in MultiMaps, o \in Optimizations, <1>10, <1>11, <2>1, EnableMakes
<1> QED
  BY <1>1, <1>9, <1>14, <1>15, <1>16, StillDeciding

LEMMA SkipDecides ==
  ASSUME points \in SUBSET PointSet, Enabled \in MultiMaps, DecisionsSound, SkipPoint
  PROVE  DecisionsSound'
<1>1. PICK kind \in {0, 1} :
        /\ NextPoint(kind)
        /\ \/ kind = 0 /\ values[point] = 0
           \/ kind = 1 /\ ~(Parameterized /\ hasEnabledOpt(point[2]))
  BY DEF SkipPoint
<1>2. /\ values' = values /\ Parameterized' = Parameterized
      /\ Enabled' = Enabled /\ call' = call /\ DefaultSequence' = DefaultSequence
      /\ pc = "decide"
  BY <1>1 DEF SkipPoint, NextPoint, candidate, vars
<1>3. PICK o \in Optimizations : point = <<kind, o>>
  BY <1>1, PointTaken
<1>4. Yet' = Yet \cup {<<kind, o>>} /\ <<kind, o>> \notin Yet
  BY <1>1, <1>3, PointTaken
<1>5. Made(Enabled, InfosYet)
  BY DEF DecisionsSound
<1>6. DecidedYet' = DecidedYet
  BY <1>1, <1>2, <1>3, <1>4 DEF DecidedYet
<1>7. \A u \in DecidedYet : InfoYet(u)' = InfoYet(u)
  <2>1. CASE kind = 0
    BY <1>2, <1>4, <2>1 DEF InfoYet
  <2>2. CASE kind = 1 /\ ~Parameterized
    BY <1>2, <2>2 DEF InfoYet
  <2>3. CASE kind = 1 /\ Parameterized
    <3>1. ~hasEnabledOpt(o)
      BY <1>1, <1>3, <2>3
    <3>2. o \notin DecidedYet
      BY <1>5, <3>1 DEF Made, InfosYet, hasEnabledOpt, EntriesOf, Entries
    <3> QED
      BY <1>2, <1>4, <3>2 DEF InfoYet
  <2> QED
    BY <1>1, <2>1, <2>2, <2>3
<1>8. InfosYet' = InfosYet
  BY <1>6, <1>7 DEF InfosYet
<1>9. call' = "none"
  BY <1>2 DEF DecisionsSound, Phase
<1> QED
  BY <1>1, <1>2, <1>5, <1>8, <1>9, StillDeciding

LEMMA WriteDecides ==
  ASSUME points \in SUBSET PointSet, Enabled \in MultiMaps, DecisionsSound, WriteArg
  PROVE  DecisionsSound'
<1>1. /\ NextPoint(1) /\ Parameterized /\ setArg(point[2], values[point])
      /\ values' = values /\ Parameterized' = Parameterized
  BY DEF WriteArg, NextPoint, candidate
<1>2. PICK o \in Optimizations : point = <<1, o>>
  BY <1>1, PointTaken
<1>3. Yet' = Yet \cup {<<1, o>>}
  BY <1>1, <1>2, PointTaken
<1>4. DecidedYet' = DecidedYet
  BY <1>1, <1>3 DEF DecidedYet
<1>5. \A u \in Optimizations : u # o => InfoYet(u)' = InfoYet(u)
  BY <1>1, <1>3 DEF InfoYet
<1>6. InfoYet(o)' = <<o, values[<<1, o>>]>>
  BY <1>1, <1>3 DEF InfoYet
<1>7. setArg(o, values[<<1, o>>])
  <2>1. point[2] = o
    BY <1>2
  <2> QED
    BY <1>1, <1>2, <2>1
<1>8. PICK i \in Infos : i = <<o, values[<<1, o>>]>>
  BY <1>7 DEF setArg
<1>9. PICK k : k = CHOOSE j \in EntriesOf(o) : \A m \in EntriesOf(o) : j <= m
  OBVIOUS
<1>10. k \in DOMAIN Enabled /\ Enabled[k].info[1] = o
  <2>1. EntriesOf(o) # {} /\ EntriesOf(o) \subseteq Nat
    <3>1. hasEnabledOpt(o)
      BY <1>7 DEF setArg
    <3>2. DOMAIN Enabled \subseteq Nat
      BY LengthOf
    <3> QED
      BY ONLY <3>1, <3>2 DEF hasEnabledOpt, EntriesOf, Entries
  <2>2. \E l \in EntriesOf(o) : \A m \in EntriesOf(o) : l <= m
    BY <2>1, SmallestOf
  <2>3. k \in EntriesOf(o)
    BY <1>9, <2>2
  <2> QED
    BY <2>3 DEF EntriesOf, Entries
<1>11. PICK t : t = Enabled' /\ t = WrittenAt(Enabled, k, i)
  BY <1>7, <1>8, <1>9 DEF setArg, WrittenAt
<1>12. PICK f : f = InfosYet
  OBVIOUS
<1>13. PICK g : g = InfosYet'
  OBVIOUS
<1>14. /\ DOMAIN f = DecidedYet /\ Made(Enabled, f)
       /\ \A u \in DecidedYet : f[u] = InfoYet(u)
  BY <1>12 DEF InfosYet, DecisionsSound
<1>15. i[1] = o /\ o \in DecidedYet
  BY <1>8, <1>10, <1>14 DEF Made
<1>16. /\ DOMAIN g = DOMAIN f
       /\ g[i[1]] = i
       /\ \A u \in DOMAIN f : u # i[1] => g[u] = f[u]
  <2>1. DOMAIN g = DecidedYet' /\ \A u \in DecidedYet' : g[u] = InfoYet(u)'
    BY <1>13 DEF InfosYet
  <2>2. DecidedYet \subseteq Optimizations
    BY DEF DecidedYet
  <2> QED
    BY <1>4, <1>5, <1>6, <1>8, <1>14, <1>15, <2>1, <2>2
<1>17. Made(t, g)
  <2>1. i[1] = Enabled[k].info[1]
    BY <1>10, <1>15
  <2> QED
    BY ONLY Enabled \in MultiMaps, i \in Infos, <1>10, <1>11, <1>14, <1>16, <2>1, WriteMakes
<1>18. call' = "none" /\ UNCHANGED DefaultSequence
  BY <1>7 DEF setArg, Operation
<1> QED
  BY <1>1, <1>11, <1>13, <1>17, <1>18, StillDeciding

(* What was decided stays while the candidate, its points and the set do.    *)
LEMMA DecidedStays ==
  ASSUME DecisionsSound, UNCHANGED <<candidate, points, Enabled>>, Phase'
  PROVE  DecisionsSound'
<1>1. UNCHANGED <<Parameterized, Sequence, values, points, Enabled>>
  BY DEF candidate
<1>2. Yet' = Yet
  BY <1>1 DEF Yet
<1>3. DecidedYet' = DecidedYet /\ \A o : InfoYet(o)' = InfoYet(o)
  BY <1>1, <1>2 DEF DecidedYet, InfoYet
<1>4. InfosYet' = InfosYet
  BY <1>3 DEF InfosYet
<1>5. CandidateSound' /\ PointsInOrder'
  BY <1>1, <1>2 DEF DecisionsSound, CandidateSound, PointsInOrder
<1> QED
  BY <1>1, <1>4, <1>5 DEF DecisionsSound

LEMMA ArrangeDecides ==
  ASSUME Enabled \in MultiMaps, DecisionsSound, ArrangeSequence
  PROVE  DecisionsSound'
<1>1. /\ pc = "decide" /\ pc' = "apply" /\ points = {} /\ OptSequence' = Arranged
      /\ UNCHANGED <<candidate, points, Enabled, call, DefaultSequence>>
  BY DEF ArrangeSequence, vars
<1>2. Complete(Arranged, Enabled) /\ Placed(Arranged, Sequence)
  <2>1. DOMAIN InfosYet \subseteq Optimizations
    BY DEF InfosYet, DecidedYet
  <2> QED
    BY <2>1, ArrangedIs DEF DecisionsSound, CandidateSound
<1>3. Phase'
  <2>1. call = "none" /\ DefaultSequence = Null
    BY <1>1 DEF DecisionsSound, Phase
  <2>2. points' = {} /\ Enabled' = Enabled /\ Sequence' = Sequence
    BY <1>1 DEF candidate
  <2>3. Complete(OptSequence', Enabled') /\ Placed(OptSequence', Sequence')
    BY <1>1, <1>2, <2>2
  <2> QED
    BY <1>1, <2>1, <2>2, <2>3 DEF Phase
<1> QED
  BY <1>1, <1>3, DecidedStays

LEMMA ApplyDecides ==
  ASSUME DecisionsSound, ApplySequence \/ ApplySet
  PROVE  DecisionsSound'
<1>1. /\ pc = "apply" /\ pc' \in {"applied", "failed"}
      /\ UNCHANGED <<candidate, points, OptSequence, Enabled, call, DefaultSequence, Size>>
      /\ pc' = "applied" /\ Parameterized => DefaultSequence # Null
  BY DEF ApplySequence, ApplySet, vars, generating
<1>2. Parameterized' = Parameterized /\ Sequence' = Sequence
  BY <1>1 DEF candidate
<1>3. Phase'
  BY <1>1, <1>2 DEF DecisionsSound, Phase
<1> QED
  BY <1>1, <1>3, DecidedStays

LEMMA GenerateDecides ==
  ASSUME DecisionsSound, GenerateDefault
  PROVE  DecisionsSound'
<1>1. /\ pc = "apply" /\ Parameterized /\ DefaultSequence = Null
      /\ call' = "default" /\ Size' = Len(Enabled)
      /\ UNCHANGED <<candidate, pc, points, OptSequence, Enabled, DefaultSequence>>
  BY DEF GenerateDefault, generateRandomSequenceIfNone, Call, compiling
<1>2. Parameterized' = Parameterized /\ Sequence' = Sequence
  BY <1>1 DEF candidate
<1>3. Phase'
  BY <1>1, <1>2 DEF DecisionsSound, Phase
<1> QED
  BY <1>1, <1>3, DecidedStays

(* A round goes on, or gives the sequence to the set it is generated for.    *)
LEMMA RoundReturns ==
  ASSUME Round
  PROVE  /\ call # "none"
         /\ UNCHANGED <<Enabled, Size>>
         /\ \/ UNCHANGED <<call, DefaultSequence>>
            \/ /\ call' = "none"
               /\ DefaultSequence' = IF call = "default" THEN Pointer(OptSeq')
                                                         ELSE DefaultSequence
<1>1. CASE Skip
  BY <1>1 DEF Skip, Advance, EndPass
<1>2. ASSUME NEW left, NEW seq, call # "none", Settle(left, seq)
      PROVE  /\ UNCHANGED <<Enabled, Size>>
             /\ \/ UNCHANGED <<call, DefaultSequence>>
                \/ /\ call' = "none"
                   /\ DefaultSequence' = IF call = "default" THEN Pointer(OptSeq')
                                                             ELSE DefaultSequence
  BY <1>2 DEF Settle, Advance, EndPass
<1>3. CASE Pick
  BY <1>2, <1>3 DEF Pick
<1>4. CASE Spare
  BY <1>2, <1>4 DEF Spare
<1> QED
  BY <1>1, <1>3, <1>4 DEF Round, Generating

LEMMA RoundDecides ==
  ASSUME SetSound, DecisionsSound, GenerateRound
  PROVE  DecisionsSound'
<1>1. /\ Round /\ call # "none"
      /\ UNCHANGED <<candidate, pc, points, OptSequence, Enabled, Size>>
  BY RoundReturns DEF GenerateRound, compiling
<1>2. Parameterized' = Parameterized /\ Sequence' = Sequence
  BY <1>1 DEF candidate
<1>3. call = "default" /\ Size = Len(Enabled) /\ pc # "decide" /\ Parameterized
  BY <1>1 DEF DecisionsSound, Phase, CandidateSound
<1>4. CASE UNCHANGED <<call, DefaultSequence>>
  <2>1. Phase'
    BY <1>1, <1>2, <1>3, <1>4 DEF DecisionsSound, Phase
  <2> QED
    BY <1>1, <2>1, DecidedStays
<1>5. CASE call' = "none" /\ DefaultSequence' = Pointer(OptSeq')
  <2>1. Complete(OptSeq', Enabled)
    <3>1. PICK seq : seq = OptSeq'
      OBVIOUS
    <3>2. SetSound' /\ LeavesStep /\ WithinStep /\ Returned
      BY <1>1, <1>5, RoundKeeps DEF Returned
    <3>3. seq \in Seq(Infos)
      BY <3>1, <3>2 DEF SetSound
    <3>4. \A i \in Infos : Occurrences(i, seq) <= getRepetition(i)
      BY <3>1, <3>2 DEF WithinStep
    <3>5. \A k \in Entries :
            \/ Occurrences(Enabled[k].info, seq) = getRepetition(Enabled[k].info)
            \/ Len(seq) = Len(Enabled)
      BY <1>3, <3>1, <3>2 DEF LeavesStep, UsedUp
    <3>6. Enabled \in MultiMaps /\ Made(Enabled, InfosYet)
      BY DEF SetSound, DecisionsSound
    <3>7. Complete(seq, Enabled)
      BY <3>3, <3>4, <3>5, <3>6, AllPicked
    <3> QED
      BY <3>1, <3>7
  <2>2. DefaultSequence' # Null /\ DefaultSequence'[1] = OptSeq'
    BY <1>5 DEF Pointer, Null
  <2>3. Phase'
    BY <1>1, <1>2, <1>3, <1>5, <2>1, <2>2 DEF DecisionsSound, Phase
  <2> QED
    BY <1>1, <2>3, DecidedStays
<1> QED
  BY <1>1, <1>3, <1>4, <1>5, RoundReturns

LEMMA DecideSteps ==
  ASSUME SetInv, DecideInv, [CompilationNext]_<<vars, compiling>>
  PROVE  DecideInv'
<1>1. SetSound /\ Enabled \in MultiMaps /\ points \in SUBSET PointSet
  BY DEF SetInv, SetSound
<1>2. CASE pc = "client"
  <2>1. pc' = "client"
    BY <1>2 DEF CompilationNext, ClientCalls, Enable, SkipPoint, WriteArg, NextPoint,
         ArrangeSequence, ApplySequence, GenerateDefault, GenerateRound, ApplySet, compiling
  <2> QED
    BY <2>1 DEF DecideInv
<1>3. CASE pc # "client"
  <2>1. DecisionsSound
    BY <1>3 DEF DecideInv
  <2>2. CASE UNCHANGED <<vars, compiling>>
    <3>1. UNCHANGED <<pc, points, candidate, OptSequence, call, Enabled, DefaultSequence, Size>>
      BY <2>2 DEF vars, compiling, generating
    <3>2. Parameterized' = Parameterized /\ Sequence' = Sequence
      BY <3>1 DEF candidate
    <3>3. Phase'
      BY <2>1, <3>1, <3>2 DEF DecisionsSound, Phase
    <3> QED
      BY <2>1, <3>1, <3>3, DecidedStays DEF DecideInv
  <2>3. CASE ClientCalls
    BY <1>3, <2>3 DEF ClientCalls
  <2>4. CASE CompilationNext /\ ~ClientCalls
    <3>1. CASE Enable
      BY <1>1, <2>1, <3>1, EnableDecides DEF DecideInv
    <3>2. CASE SkipPoint
      BY <1>1, <2>1, <3>2, SkipDecides DEF DecideInv
    <3>3. CASE WriteArg
      BY <1>1, <2>1, <3>3, WriteDecides DEF DecideInv
    <3>4. CASE ArrangeSequence
      BY <1>1, <2>1, <3>4, ArrangeDecides DEF DecideInv
    <3>5. CASE ApplySequence \/ ApplySet
      BY <2>1, <3>5, ApplyDecides DEF DecideInv
    <3>6. CASE GenerateDefault
      BY <2>1, <3>6, GenerateDecides DEF DecideInv
    <3>7. CASE GenerateRound
      BY <1>1, <2>1, <3>7, RoundDecides DEF DecideInv
    <3> QED
      BY <2>4, <3>1, <3>2, <3>3, <3>4, <3>5, <3>6, <3>7 DEF CompilationNext
  <2> QED
    BY <2>2, <2>3, <2>4
<1> QED
  BY <1>2, <1>3

(* At the end every point is decided: the set is the decisions, and the      *)
(* sequence applied is the set.                                             *)
LEMMA AppliedIsDecided ==
  ASSUME SetInv, DecideInv
  PROVE  AppliesDecisions
<1> SUFFICES ASSUME pc = "applied"
             PROVE  AppliesDecisions
  BY DEF AppliesDecisions, AppliesInOrder
<1>1. /\ CandidateSound /\ Made(Enabled, InfosYet) /\ Phase
      /\ Enabled \in MultiMaps
  BY DEF DecideInv, DecisionsSound, SetInv, SetSound
<1>2. Yet = DOMAIN values
  BY <1>1 DEF Phase, Yet
<1>3. DecidedYet = Decided
  BY <1>1, <1>2 DEF DecidedYet, Decided, CandidateSound, EnablingPoints
<1>4. \A o \in Optimizations : InfoYet(o) = DecidedInfo(o)
  <2> SUFFICES ASSUME NEW o \in Optimizations, Parameterized
               PROVE  <<1, o>> \in Yet <=> o \in HaveArgs
    BY DEF InfoYet, DecidedInfo
  <2>1. o \in HaveArgs => <<1, o>> \in Yet
    BY <1>1, <1>2 DEF CandidateSound, ArgPoints
  <2>2. <<1, o>> \in Yet => o \in HaveArgs
    BY <1>1, <1>2 DEF CandidateSound, ArgPoints, EnablingPoints
  <2> QED
    BY <2>1, <2>2
<1>5. Decided \subseteq Optimizations
  BY DEF Decided
<1>6. InfosIn(Enabled) = {DecidedInfo(o) : o \in Decided}
  <2>1. DOMAIN InfosYet = Decided /\ \A o \in Decided : InfosYet[o] = DecidedInfo(o)
    BY <1>3, <1>4, <1>5 DEF InfosYet
  <2>2. \A k \in DOMAIN Enabled : \E o \in Decided : Enabled[k].info = DecidedInfo(o)
    BY <1>1, <2>1 DEF Made
  <2>3. \A o \in Decided : \E k \in DOMAIN Enabled : Enabled[k].info = DecidedInfo(o)
    BY <1>1, <2>1 DEF Made
  <2> QED
    BY <2>2, <2>3 DEF InfosIn
<1>7. Len(Enabled) = Cardinality(Decided)
  <2>1. PICK n \in Nat : n = Len(Enabled) /\ DOMAIN Enabled = 1..n
    BY <1>1, LengthOf
  <2>2. PICK f : f = [k \in 1..n |-> Enabled[k].info[1]]
    OBVIOUS
  <2>3. DOMAIN f = 1..n /\ \A j, k \in 1..n : f[j] = f[k] => j = k
    BY <1>1, <2>1, <2>2 DEF Made
  <2>4. Cardinality(Range(f)) = n
    BY <2>3, RangeSize
  <2>5. DOMAIN InfosYet = Decided
    BY <1>3 DEF InfosYet
  <2>6. Range(f) = Decided
    BY <1>1, <2>1, <2>2, <2>5 DEF Made, Range
  <2> QED
    BY <2>1, <2>4, <2>6
<1>8. Complete(Applied, Enabled)
  BY <1>1 DEF Applied, Phase, CandidateSound
<1>9. /\ Len(Applied) = Cardinality(Decided)
      /\ {Applied[k] : k \in DOMAIN Applied} = {DecidedInfo(o) : o \in Decided}
  BY <1>6, <1>7, <1>8 DEF Complete, Range
<1>10. ~Parameterized => AppliesInOrder
  BY <1>1 DEF Phase, Placed, Applied, AppliesInOrder
<1> QED
  BY <1>9, <1>10 DEF AppliesDecisions

(* What a module is compiled with is what the candidate decides, whatever    *)
(* the optimizations, their arguments, the sequence file and the dice are.   *)
THEOREM DecisionsAreApplied == ClientSpec => []AppliesDecisions
<1>1. CompilationInit \/ ClientInit => DecideInv
  BY DecidingStarts DEF DecideInv, ClientInit
<1>2. SetInv /\ DecideInv /\ [CompilationNext]_<<vars, compiling>> => DecideInv'
  BY DecideSteps
<1>3. SetInv /\ DecideInv => AppliesDecisions
  BY AppliedIsDecided
<1> QED
  BY <1>1, <1>2, <1>3, SetInvHolds, PTL DEF ClientSpec

=============================================================================
