------------------------ MODULE SessionHistoryProofs ------------------------
(***************************************************************************)
(* Theorems about SessionHistory, for any number of turns, messages,       *)
(* failed commits and restarts, and any thresholds.                        *)
(***************************************************************************)
EXTENDS SessionHistory, FiniteSetTheorems, SequenceTheorems, TLAPS

LEMMA ConstantFacts ==
  /\ MaxMsgs \in Nat /\ MaxFaults \in Nat
  /\ MaxSystem \in Nat /\ MaxContext \in Nat
  /\ MinHistory \in Nat \ {0} /\ RecentKeep \in Nat \ {0} /\ RecentKeep < MinHistory
  /\ IsFiniteSet(Turns) /\ NoTurn \notin Turns
  /\ Msgs = 1 .. MaxMsgs /\ NoObj \notin Objs /\ 1 \in Objs /\ Objs \subseteq Nat
<1>1. Cardinality(Turns) \in Nat BY SessionHistoryAssumption, FS_CardinalityType
<1> QED BY <1>1, SessionHistoryAssumption DEF Msgs, Objs, NoObj

-----------------------------------------------------------------------------
(* Lists of messages. *)

\* A list in turn order of messages up to the n-th, but for the summaries sums.
Good(s, sums, n) ==
    /\ s \in Seq(Msgs)
    /\ \A i \in DOMAIN s : s[i] <= n
    /\ \A i, j \in DOMAIN s : i < j => s[i] < s[j] \/ (s[i] \in sums /\ s[i] # s[j])

LEMMA GoodEmpty == ASSUME NEW sums, NEW n \in Nat PROVE Good(<<>>, sums, n)
BY DEF Good

LEMMA GoodGrows ==
  ASSUME NEW s, NEW sums, NEW more, NEW n \in Nat, NEW m \in Nat,
         sums \subseteq more, n <= m, Good(s, sums, n)
  PROVE  Good(s, more, m)
<1>1. \A i \in DOMAIN s : s[i] \in Nat BY ConstantFacts DEF Good
<1> QED BY <1>1 DEF Good

LEMMA GoodAppend ==
  ASSUME NEW s, NEW sums, NEW n \in Nat, n + 1 \in Msgs, Good(s, sums, n)
  PROVE  Good(Append(s, n + 1), sums, n + 1)
<1>1. PICK a : a = Append(s, n + 1) OBVIOUS
<1>2. /\ a \in Seq(Msgs) /\ DOMAIN a = 1 .. Len(s) + 1 /\ Len(s) \in Nat
      /\ \A i \in 1 .. Len(s) : a[i] = s[i] /\ s[i] \in Nat /\ s[i] <= n
      /\ a[Len(s) + 1] = n + 1
  BY <1>1, ConstantFacts DEF Good
<1>3. \A i \in DOMAIN a : a[i] <= n + 1 BY <1>2
<1>4. \A i, j \in DOMAIN a : i < j => a[i] < a[j] \/ (a[i] \in sums /\ a[i] # a[j])
  <2> SUFFICES ASSUME NEW i \in DOMAIN a, NEW j \in DOMAIN a, i < j
               PROVE  a[i] < a[j] \/ (a[i] \in sums /\ a[i] # a[j])
    OBVIOUS
  <2>1. CASE j = Len(s) + 1 BY <1>2, <2>1
  <2>2. CASE j # Len(s) + 1
    <3>1. i \in 1 .. Len(s) /\ j \in 1 .. Len(s) BY <1>2, <2>2
    <3> QED BY <1>2, <3>1 DEF Good
  <2> QED BY <2>1, <2>2
<1> QED BY <1>1, <1>2, <1>3, <1>4 DEF Good

LEMMA ElementsAppend ==
  ASSUME NEW s \in Seq(Msgs), NEW m \in Msgs
  PROVE  Elements(Append(s, m)) = Elements(s) \cup {m}
<1>1. PICK a : a = Append(s, m) OBVIOUS
<1>2. /\ DOMAIN a = 1 .. Len(s) + 1 /\ Len(s) \in Nat /\ DOMAIN s = 1 .. Len(s)
      /\ \A i \in 1 .. Len(s) : a[i] = s[i]
      /\ a[Len(s) + 1] = m
  BY <1>1
<1>3. \A i \in DOMAIN a : i \in DOMAIN s \/ i = Len(s) + 1 BY <1>2
<1>4. \A i \in DOMAIN s : i \in DOMAIN a BY <1>2
<1>5. Len(s) + 1 \in DOMAIN a BY <1>2
<1> QED BY <1>1, <1>2, <1>3, <1>4, <1>5 DEF Elements

LEMMA GoodSub ==
  ASSUME NEW s, NEW sums, NEW n \in Nat, Good(s, sums, n),
         NEW a \in Nat \ {0}, NEW b \in Int, b <= Len(s)
  PROVE  /\ Good(SubSeq(s, a, b), sums, n)
         /\ Elements(SubSeq(s, a, b)) \subseteq {s[i] : i \in a .. b}
         /\ Len(SubSeq(s, a, b)) = IF a <= b THEN b - a + 1 ELSE 0
<1>0. s \in Seq(Msgs) /\ Len(s) \in Nat BY DEF Good
<1>1. PICK u : u = SubSeq(s, a, b) OBVIOUS
<1>2. /\ u \in Seq(Msgs)
      /\ Len(u) = IF a <= b THEN b - a + 1 ELSE 0
      /\ \A i \in 1 .. b - a + 1 : u[i] = s[a + i - 1]
  BY <1>0, <1>1, SubSeqProperties
<1>3. \A i \in DOMAIN u : a + i - 1 \in DOMAIN s /\ a + i - 1 \in a .. b /\ u[i] = s[a + i - 1]
  <2> TAKE i \in DOMAIN u
  <2>1. a <= b /\ i \in 1 .. b - a + 1 BY <1>2
  <2>2. a + i - 1 \in a .. b BY <2>1
  <2>3. a + i - 1 \in 1 .. Len(s) BY <1>0, <2>1
  <2> QED BY <1>0, <1>2, <2>1, <2>2, <2>3, SMTT(30)
<1>4. \A i \in DOMAIN u : u[i] <= n BY <1>3 DEF Good
<1>5. \A i, j \in DOMAIN u : i < j => u[i] < u[j] \/ (u[i] \in sums /\ u[i] # u[j])
  <2> SUFFICES ASSUME NEW i \in DOMAIN u, NEW j \in DOMAIN u, i < j
               PROVE  u[i] < u[j] \/ (u[i] \in sums /\ u[i] # u[j])
    OBVIOUS
  <2>1. i \in Nat /\ j \in Nat BY <1>2
  <2>2. a + i - 1 < a + j - 1 BY <2>1
  <2> QED BY <1>3, <2>2 DEF Good
<1>6. Elements(u) \subseteq {s[i] : i \in a .. b} BY <1>3 DEF Elements
<1> QED BY <1>1, <1>2, <1>4, <1>5, <1>6 DEF Good

LEMMA ElementsSub ==
  ASSUME NEW s \in Seq(Msgs), NEW a \in Nat \ {0}, NEW b \in Int, b <= Len(s)
  PROVE  {s[i] : i \in a .. b} \subseteq Elements(s)
BY DEF Elements

LEMMA GoodConcat ==
  ASSUME NEW s, NEW u, NEW sums, NEW n \in Nat, Good(s, sums, n), Good(u, sums, n),
         \A i \in DOMAIN s, j \in DOMAIN u : s[i] < u[j] \/ (s[i] \in sums /\ s[i] # u[j])
  PROVE  Good(s \o u, sums, n) /\ Elements(s \o u) = Elements(s) \cup Elements(u)
<1>0. /\ s \in Seq(Msgs) /\ Len(s) \in Nat /\ DOMAIN s = 1 .. Len(s)
      /\ u \in Seq(Msgs) /\ Len(u) \in Nat /\ DOMAIN u = 1 .. Len(u)
  BY DEF Good
<1>1. PICK c : c = s \o u OBVIOUS
<1>2. /\ c \in Seq(Msgs) /\ Len(c) = Len(s) + Len(u)
      /\ \A i \in 1 .. Len(s) + Len(u) : c[i] = IF i <= Len(s) THEN s[i] ELSE u[i - Len(s)]
  BY <1>0, <1>1, ConcatProperties
<1>3. DOMAIN c = 1 .. Len(s) + Len(u) BY <1>2
<1>4. \A i \in DOMAIN c :
        \/ i \in DOMAIN s /\ c[i] = s[i]
        \/ i - Len(s) \in DOMAIN u /\ c[i] = u[i - Len(s)] /\ i > Len(s)
  BY <1>0, <1>2, <1>3
<1>5. \A i \in DOMAIN c : c[i] <= n BY <1>4 DEF Good
<1>6. \A i, j \in DOMAIN c : i < j => c[i] < c[j] \/ (c[i] \in sums /\ c[i] # c[j])
  <2> SUFFICES ASSUME NEW i \in DOMAIN c, NEW j \in DOMAIN c, i < j
               PROVE  c[i] < c[j] \/ (c[i] \in sums /\ c[i] # c[j])
    OBVIOUS
  <2>0. i \in Nat /\ j \in Nat BY <1>0, <1>3
  <2>1. CASE j \in DOMAIN s /\ c[j] = s[j]
    <3>1. i \in DOMAIN s /\ c[i] = s[i] BY <1>0, <1>4, <2>0, <2>1
    <3> QED BY <2>1, <3>1 DEF Good
  <2>2. CASE j - Len(s) \in DOMAIN u /\ c[j] = u[j - Len(s)] /\ j > Len(s)
    <3>1. CASE i \in DOMAIN s /\ c[i] = s[i] BY <2>2, <3>1
    <3>2. CASE i - Len(s) \in DOMAIN u /\ c[i] = u[i - Len(s)]
      <4>1. i - Len(s) < j - Len(s) BY <1>0, <2>0
      <4> QED BY <2>2, <3>2, <4>1 DEF Good
    <3> QED BY <1>4, <3>1, <3>2
  <2> QED BY <1>4, <2>1, <2>2
<1>7. Elements(c) = Elements(s) \cup Elements(u)
  <2>1. Elements(c) \subseteq Elements(s) \cup Elements(u) BY <1>4 DEF Elements
  <2>2. \A i \in DOMAIN s : i \in DOMAIN c /\ c[i] = s[i] BY <1>0, <1>2, <1>3
  <2>3. \A i \in DOMAIN u : Len(s) + i \in DOMAIN c /\ c[Len(s) + i] = u[i]
    <3> SUFFICES ASSUME NEW i \in DOMAIN u
                 PROVE  Len(s) + i \in DOMAIN c /\ c[Len(s) + i] = u[i]
      OBVIOUS
    <3>1. Len(s) + i \in 1 .. Len(s) + Len(u) /\ ~(Len(s) + i <= Len(s)) BY <1>0
    <3>2. (Len(s) + i) - Len(s) = i BY <1>0
    <3> QED BY <1>2, <1>3, <3>1, <3>2
  <2>4. Elements(s) \subseteq Elements(c) BY <2>2 DEF Elements
  <2>5. Elements(u) \subseteq Elements(c) BY <2>3 DEF Elements
  <2> QED BY <2>1, <2>4, <2>5
<1> QED BY <1>1, <1>2, <1>5, <1>6, <1>7 DEF Good

LEMMA GoodOne ==
  ASSUME NEW m \in Msgs, NEW sums
  PROVE  Good(<<m>>, sums, m) /\ Elements(<<m>>) = {m}
<1>1. m \in Nat BY ConstantFacts
<1> QED BY <1>1 DEF Good, Elements

LEMMA GoodDrop ==
  ASSUME NEW s, NEW sums, NEW n \in Nat, Good(s, sums, n), NEW i \in Int
  PROVE  Good(DropAt(s, i), sums, n) /\ Elements(DropAt(s, i)) \subseteq Elements(s)
<1>0. s \in Seq(Msgs) /\ Len(s) \in Nat /\ DOMAIN s = 1 .. Len(s)
      /\ \A j \in DOMAIN s : s[j] \in Nat
  BY ConstantFacts DEF Good
<1>1. CASE i \notin DOMAIN s BY <1>1 DEF DropAt
<1>2. CASE i \in DOMAIN s
  <2>1. PICK p : p = SubSeq(s, 1, i - 1) OBVIOUS
  <2>2. PICK q : q = SubSeq(s, i + 1, Len(s)) OBVIOUS
  <2>i. /\ i + 1 \in Nat \ {0} /\ Len(s) \in Int /\ Len(s) <= Len(s)
        /\ i - 1 \in Int /\ i - 1 <= Len(s)
    BY <1>0, <1>2
  <2>3. Good(p, sums, n) /\ Elements(p) \subseteq {s[j] : j \in 1 .. i - 1}
    BY <2>i, <2>1, GoodSub
  <2>4. Good(q, sums, n) /\ Elements(q) \subseteq {s[j] : j \in i + 1 .. Len(s)}
    <3>1. PICK c \in Nat \ {0} : c = i + 1 BY <2>i
    <3>2. PICK l \in Int : l = Len(s) BY <2>i
    <3>3. l <= Len(s) BY <3>2
    <3>4. /\ Good(SubSeq(s, c, l), sums, n)
          /\ Elements(SubSeq(s, c, l)) \subseteq {s[j] : j \in c .. l}
      BY <3>3, GoodSub
    <3> QED BY <2>2, <3>1, <3>2, <3>4
  <2>5. \A a \in 1 .. i - 1, b \in i + 1 .. Len(s) : s[a] < s[b] \/ (s[a] \in sums /\ s[a] # s[b])
    BY <1>0, <1>2 DEF Good
  <2>6. \A a \in DOMAIN p, b \in DOMAIN q : p[a] < q[b] \/ (p[a] \in sums /\ p[a] # q[b])
    <3> SUFFICES ASSUME NEW a \in DOMAIN p, NEW b \in DOMAIN q
                 PROVE  p[a] < q[b] \/ (p[a] \in sums /\ p[a] # q[b])
      OBVIOUS
    <3>1. PICK j \in 1 .. i - 1 : p[a] = s[j] BY <2>3 DEF Elements
    <3>2. PICK k \in i + 1 .. Len(s) : q[b] = s[k] BY <2>4 DEF Elements
    <3> QED BY <2>5, <3>1, <3>2
  <2>7. Good(p \o q, sums, n) /\ Elements(p \o q) = Elements(p) \cup Elements(q)
    BY <2>3, <2>4, <2>6, GoodConcat
  <2>8. Elements(p) \subseteq Elements(s) /\ Elements(q) \subseteq Elements(s)
    <3>1. \A j \in 1 .. i - 1 : s[j] \in Elements(s) BY <1>0, <1>2 DEF Elements
    <3>2. \A j \in i + 1 .. Len(s) : s[j] \in Elements(s) BY <1>0, <1>2 DEF Elements
    <3> QED BY <2>3, <2>4, <3>1, <3>2
  <2>9. DropAt(s, i) = p \o q BY <1>2, <2>1, <2>2, Zenon DEF DropAt
  <2> QED BY <2>7, <2>8, <2>9
<1> QED BY <1>1, <1>2

LEMMA GoodKept ==
  ASSUME NEW s, NEW sums, NEW n \in Nat, Good(s, sums, n), NEW by, NEW x \in Msgs
  PROVE  Good(Kept(by, x, s), sums, n) /\ Elements(Kept(by, x, s)) \subseteq Elements(s)
<1>1. CASE by = "index"
  <2>1. x \in Int BY ConstantFacts
  <2> QED BY <1>1, <2>1, GoodDrop DEF Kept
<1>2. CASE by # "index" /\ x \in Elements(s)
  <2>1. Place(s, x) \in DOMAIN s BY <1>2 DEF Place, Elements
  <2>2. Place(s, x) \in Int BY <2>1 DEF Good
  <2> QED BY <1>2, <2>2, GoodDrop DEF Kept
<1>3. CASE by # "index" /\ x \notin Elements(s) BY <1>3 DEF Kept
<1> QED BY <1>1, <1>2, <1>3

\* What a compaction makes of a history h: a prefix, the summary, a tail.
LEMMA GoodCompacted ==
  ASSUME NEW h, NEW sums, NEW n \in Nat, Good(h, sums, n), n + 1 \in Msgs,
         NEW a \in Nat, a <= Len(h), NEW b \in Nat, a <= b
  PROVE  LET new == SubSeq(h, 1, a) \o <<n + 1>> \o SubSeq(h, b + 1, Len(h))
         IN  /\ Good(new, sums \cup {n + 1}, n + 1)
             /\ Elements(new) \subseteq Elements(h) \cup {n + 1}
<1>0. h \in Seq(Msgs) /\ Len(h) \in Nat /\ DOMAIN h = 1 .. Len(h)
      /\ \A j \in DOMAIN h : h[j] \in Nat /\ h[j] <= n
  BY ConstantFacts DEF Good
<1>1. PICK p : p = SubSeq(h, 1, a) OBVIOUS
<1>2. PICK q : q = SubSeq(h, b + 1, Len(h)) OBVIOUS
<1>3. PICK m : m = n + 1 OBVIOUS
<1>s. PICK S : S = sums \cup {m} OBVIOUS
<1>g. Good(h, S, m) BY <1>3, <1>s, GoodGrows
<1>m. m \in Nat /\ m \in Msgs BY <1>3
<1>4. Good(p, S, m) /\ Elements(p) \subseteq {h[j] : j \in 1 .. a}
  BY <1>0, <1>1, <1>g, <1>m, GoodSub
<1>5. Good(q, S, m) /\ Elements(q) \subseteq {h[j] : j \in b + 1 .. Len(h)}
  BY <1>0, <1>2, <1>g, <1>m, GoodSub, SMTT(30)
<1>6. Good(<<m>>, S, m) /\ Elements(<<m>>) = {m} BY <1>m, GoodOne
<1>7. PICK o : o = <<m>> /\ Good(o, S, m) /\ Elements(o) = {m} /\ DOMAIN o = {1} /\ o[1] = m
  BY <1>6
<1>p. \A i \in DOMAIN p : \E j \in 1 .. a : p[i] = h[j] BY <1>4 DEF Elements
<1>q. \A i \in DOMAIN q : \E j \in b + 1 .. Len(h) : q[i] = h[j] BY <1>5 DEF Elements
<1>8. \A i \in DOMAIN p, j \in DOMAIN o : p[i] < o[j] \/ (p[i] \in S /\ p[i] # o[j])
  <2> SUFFICES ASSUME NEW i \in DOMAIN p PROVE p[i] < m BY <1>7
  <2>1. PICK j \in 1 .. a : p[i] = h[j] BY <1>p
  <2>2. h[j] \in Nat /\ h[j] <= n BY <1>0, <2>1
  <2> QED BY <1>3, <2>1, <2>2
<1>9. Good(p \o o, S, m) /\ Elements(p \o o) = Elements(p) \cup {m}
  <2>1. Good(p \o o, S, m) /\ Elements(p \o o) = Elements(p) \cup Elements(o)
    BY <1>4, <1>7, <1>8, <1>m, GoodConcat, ZenonT(60)
  <2> QED BY <1>7, <2>1
<1>10. PICK r : r = p \o o OBVIOUS
<1>11. \A i \in DOMAIN r, j \in DOMAIN q : r[i] < q[j] \/ (r[i] \in S /\ r[i] # q[j])
  <2> SUFFICES ASSUME NEW i \in DOMAIN r, NEW j \in DOMAIN q
               PROVE  r[i] < q[j] \/ (r[i] \in S /\ r[i] # q[j])
    OBVIOUS
  <2>1. PICK k \in b + 1 .. Len(h) : q[j] = h[k] BY <1>q
  <2>2. k \in DOMAIN h BY <1>0, <2>1
  <2>3. r[i] \in Elements(p) \cup {m} BY <1>9, <1>10 DEF Elements
  <2>4. CASE r[i] = m
    <3>1. h[k] # m BY <1>0, <1>3, <2>2
    <3> QED BY <1>s, <2>1, <2>4, <3>1
  <2>5. CASE r[i] \in Elements(p)
    <3>1. PICK l \in 1 .. a : r[i] = h[l] BY <1>4, <2>5
    <3>2. l \in DOMAIN h /\ l < k BY <1>0, <2>1
    <3> QED BY <1>g, <2>1, <2>2, <3>1, <3>2 DEF Good
  <2> QED BY <2>3, <2>4, <2>5
<1>12. Good(r \o q, S, m) /\ Elements(r \o q) = Elements(r) \cup Elements(q)
  BY <1>5, <1>9, <1>10, <1>11, <1>m, GoodConcat
<1>13. Elements(p) \subseteq Elements(h) /\ Elements(q) \subseteq Elements(h)
  <2>1. \A j \in 1 .. a : h[j] \in Elements(h) BY <1>0 DEF Elements
  <2>2. \A j \in b + 1 .. Len(h) : h[j] \in Elements(h) BY <1>0 DEF Elements
  <2> QED BY <1>4, <1>5, <2>1, <2>2
<1>14. r \o q = SubSeq(h, 1, a) \o <<n + 1>> \o SubSeq(h, b + 1, Len(h))
  BY <1>1, <1>2, <1>3, <1>7, <1>10, Zenon
<1> QED BY <1>3, <1>9, <1>10, <1>12, <1>13, <1>14, <1>s, Zenon

-----------------------------------------------------------------------------
(* The store. *)

HeldType == held \in [Turns -> Objs \cup {NoObj}]

\* Every list there is, stored or cached, in turn order; nothing of a deleted session.
StoreInv(S, sums, n) ==
    /\ S \in Stores
    /\ Good(S.rows, sums, n)
    /\ \A o \in Objs : Good(S.hist[o], sums, n)
    /\ ~S.live => S.rows = <<>>

\* The cached history is the stored transcript or was not read yet.
Whole(S) == S.cache # NoObj => S.hist[S.cache] \in {S.rows, <<>>}

\* Also, every turn holds the cached object, with the whole transcript.
InSync(S) ==
    /\ Whole(S)
    /\ \A t \in Turns : held[t] # NoObj => held[t] = S.cache /\ S.hist[S.cache] = S.rows

\* ... as it is after get_session.
Tight(S) ==
    /\ S.hist[S.cache] = S.rows
    /\ \A t \in Turns : held[t] # NoObj => held[t] = S.cache

LEMMA FreshFacts == ASSUME HeldType PROVE Fresh \in Objs /\ Fresh \notin HeldBy(Turns)
<1>1. \E o \in Objs : o \notin HeldBy(Turns)
  <2> SUFFICES ASSUME \A o \in Objs : o \in HeldBy(Turns) PROVE FALSE OBVIOUS
  <2> DEFINE T == {t \in Turns : held[t] \in Objs}
             f == [t \in T |-> held[t]]
  <2>1. IsFiniteSet(T) /\ Cardinality(T) <= Cardinality(Turns)
    BY ConstantFacts, FS_Subset
  <2>2. f \in Surjection(T, Objs)
    <3>1. f \in [T -> Objs] OBVIOUS
    <3>2. \A o \in Objs : \E t \in T : f[t] = o BY DEF HeldBy
    <3> QED BY <3>1, <3>2 DEF Surjection
  <2>3. Cardinality(Objs) <= Cardinality(T) BY <2>1, <2>2, FS_Surjection
  <2>4. Cardinality(Turns) \in Nat /\ Cardinality(T) \in Nat
    BY <2>1, ConstantFacts, FS_CardinalityType
  <2>5. Cardinality(Objs) = Cardinality(Turns) + 1 BY <2>4, FS_Interval DEF Objs
  <2> QED BY <2>1, <2>3, <2>4, <2>5
<1> QED BY <1>1 DEF Fresh

\* What a load makes of S.
LEMMA InstalledFacts ==
  ASSUME HeldType, NEW S \in Stores, NEW l \in Seq(Msgs)
  PROVE  /\ Installed(S, l) \in Stores
         /\ Installed(S, l).live = S.live /\ Installed(S, l).rows = S.rows
         /\ Installed(S, l).column = S.column /\ Installed(S, l).cache = Fresh
         /\ \A o \in Objs : Installed(S, l).hist[o] =
                              IF o = Fresh THEN l
                              ELSE IF o \in HeldBy(Turns) THEN S.hist[o] ELSE <<>>
<1>1. Fresh \in Objs BY FreshFacts
<1>2. PICK R : R = [S EXCEPT !.cache = Fresh, !.hist[Fresh] = l] OBVIOUS
<1>3. /\ R \in Stores /\ R.live = S.live /\ R.rows = S.rows /\ R.column = S.column
      /\ R.cache = Fresh /\ R.hist = [S.hist EXCEPT ![Fresh] = l]
  BY <1>1, <1>2 DEF Stores
<1>4. PICK H : H = [o \in Objs |-> IF o \in HeldBy(Turns) \cup {R.cache} THEN R.hist[o] ELSE <<>>]
  OBVIOUS
<1>5. H \in [Objs -> Seq(Msgs)]
  <2>1. <<>> \in Seq(Msgs) OBVIOUS
  <2> QED BY <1>3, <1>4, <2>1 DEF Stores
<1>6. PICK I : I = Installed(S, l) OBVIOUS
<1>7. I = [R EXCEPT !.hist = H]
  <2>1. I = Collected(R, HeldBy(Turns)) BY <1>2, <1>6, Zenon DEF Installed
  <2>2. Collected(R, HeldBy(Turns)) = [R EXCEPT !.hist = H] BY <1>3, <1>4 DEF Collected, Stores
  <2> QED BY <2>1, <2>2
<1>8. /\ I \in Stores
      /\ I.live = S.live /\ I.rows = S.rows
      /\ I.column = S.column /\ I.cache = Fresh /\ I.hist = H
  BY <1>3, <1>5, <1>7 DEF Stores
<1>9. \A o \in Objs : H[o] = IF o = Fresh THEN l
                             ELSE IF o \in HeldBy(Turns) THEN S.hist[o] ELSE <<>>
  BY <1>1, <1>3, <1>4 DEF Stores
<1> QED BY <1>6, <1>8, <1>9

LEMMA LoadedFacts ==
  ASSUME HeldType, NEW S \in Stores
  PROVE  /\ Loaded(S) \in Stores
         /\ Loaded(S).live = S.live /\ Loaded(S).rows = S.rows
         /\ Loaded(S).column = S.column /\ Loaded(S).cache = Fresh
         /\ \A o \in Objs : Loaded(S).hist[o] = IF o = Fresh THEN S.rows
                                                ELSE IF o \in HeldBy(Turns) THEN S.hist[o]
                                                ELSE <<>>
<1>1. S.rows \in Seq(Msgs) BY DEF Stores
<1>2. Loaded(S) = Installed(S, S.rows) BY DEF Loaded
<1> QED BY <1>1, <1>2, InstalledFacts

LEMMA GotKeeps ==
  ASSUME HeldType, NEW S, NEW sums, NEW n \in Nat, StoreInv(S, sums, n)
  PROVE  /\ StoreInv(Got(S), sums, n) /\ Got(S).live = S.live /\ Got(S).rows = S.rows
         /\ Got(S).column = S.column /\ Got(S).cache \in Objs
         /\ \A t \in Turns : held[t] # NoObj => Got(S).hist[held[t]] = S.hist[held[t]]
         /\ InSync(S) => Tight(Got(S))
         /\ Whole(S) => Got(S).hist[Got(S).cache] = S.rows
         /\ ~S.live /\ S.cache # NoObj => Got(S) = S
<1>1. CASE Short(S)
  <2>1. Got(S) = Loaded(S) BY <1>1 DEF Got
  <2>2. S \in Stores BY DEF StoreInv
  <2>3. \A o \in Objs : Good(Got(S).hist[o], sums, n)
    BY <2>1, <2>2, LoadedFacts, GoodEmpty DEF StoreInv
  <2>4. \A t \in Turns : held[t] # NoObj => Got(S).hist[held[t]] = S.hist[held[t]]
    BY <2>1, <2>2, LoadedFacts, FreshFacts DEF HeldType, HeldBy
  <2>5. InSync(S) => Tight(Got(S))
    <3> SUFFICES ASSUME InSync(S) PROVE Tight(Got(S)) OBVIOUS
    <3>1. \A t \in Turns : held[t] = NoObj
      <4> SUFFICES ASSUME NEW t \in Turns, held[t] # NoObj PROVE FALSE OBVIOUS
      <4>1. held[t] = S.cache /\ S.hist[S.cache] = S.rows BY DEF InSync
      <4>2. S.cache \in Objs /\ S.rows \in Seq(Msgs) BY <4>1, <2>2 DEF Stores
      <4>3. Len(S.rows) \in Nat BY <4>2
      <4> QED BY <1>1, <4>1, <4>2, <4>3 DEF Short
    <3> QED BY <2>1, <2>2, <3>1, LoadedFacts, FreshFacts DEF Tight
  <2>6. Got(S).hist[Got(S).cache] = S.rows BY <2>1, <2>2, LoadedFacts, FreshFacts
  <2>7. S.live \/ S.cache = NoObj
    <3> SUFFICES ASSUME ~S.live, S.cache # NoObj PROVE FALSE OBVIOUS
    <3>1. Len(S.rows) = 0 /\ S.hist[S.cache] \in Seq(Msgs) BY <2>2 DEF StoreInv, Stores
    <3>2. Len(S.hist[S.cache]) \in Nat BY <3>1
    <3> QED BY <1>1, <3>1, <3>2 DEF Short
  <2> QED BY <2>1, <2>2, <2>3, <2>4, <2>5, <2>6, <2>7, LoadedFacts, FreshFacts DEF StoreInv
<1>2. CASE ~Short(S)
  <2>1. Got(S) = S BY <1>2 DEF Got
  <2>2. S \in Stores /\ S.cache \in Objs BY <1>2 DEF StoreInv, Short, Stores
  <2>3. Whole(S) => S.hist[S.cache] = S.rows
    <3> SUFFICES ASSUME Whole(S) PROVE S.hist[S.cache] = S.rows OBVIOUS
    <3>1. CASE S.hist[S.cache] = <<>>
      <4>1. Len(S.hist[S.cache]) = 0 BY <3>1
      <4>2. S.rows \in Seq(Msgs) /\ Len(S.rows) \in Nat BY <2>2 DEF Stores
      <4>3. ~(0 < Len(S.rows)) BY <1>2, <4>1 DEF Short
      <4>4. S.rows = <<>> BY <4>2, <4>3
      <4> QED BY <3>1, <4>4
    <3>2. CASE S.hist[S.cache] # <<>> BY <2>2, <3>2, ConstantFacts DEF Whole
    <3> QED BY <3>1, <3>2
  <2>4. InSync(S) => Tight(S) BY <2>3 DEF InSync, Tight
  <2> QED BY <2>1, <2>2, <2>3, <2>4
<1> QED BY <1>1, <1>2

LEMMA TightInSync == ASSUME NEW S, Tight(S) PROVE InSync(S)
BY DEF Tight, InSync, Whole

LEMMA StoreGrows ==
  ASSUME NEW S, NEW sums, NEW more, NEW n \in Nat, NEW m \in Nat,
         sums \subseteq more, n <= m, StoreInv(S, sums, n)
  PROVE  StoreInv(S, more, m)
BY GoodGrows DEF StoreInv

\* What add_message on the object o makes of S.
AddedTo(A, S, sums, n, o, ok) ==
    /\ StoreInv(A, sums, n + 1) /\ A.live = S.live
    /\ A.hist = [S.hist EXCEPT ![o] = Append(S.hist[o], n + 1)]
    /\ A.cache = IF S.live THEN S.cache ELSE NoObj
    /\ A.rows = IF S.live /\ ok THEN Append(S.rows, n + 1) ELSE S.rows
    /\ A.column = IF S.live /\ ok
                  THEN IF S.cache = NoObj THEN 0 ELSE Len(A.hist[S.cache])
                  ELSE S.column

LEMMA AddedKeeps ==
  ASSUME NEW S, NEW sums, NEW n \in Nat, n + 1 \in Msgs, StoreInv(S, sums, n),
         NEW o \in Objs, NEW ok \in BOOLEAN
  PROVE  AddedTo(Added(S, o, n + 1, ok), S, sums, n, o, ok)
<1>a. PICK A : A = Added(S, o, n + 1, ok) OBVIOUS
<1> SUFFICES AddedTo(A, S, sums, n, o, ok) BY <1>a
<1> USE DEF AddedTo
<1>0. PICK m \in Msgs : m = n + 1 OBVIOUS
<1>1. PICK H : H = [S.hist EXCEPT ![o] = Append(S.hist[o], m)] OBVIOUS
<1>2. S \in Stores BY DEF StoreInv
<1>3. H \in [Objs -> Seq(Msgs)] /\ \A q \in Objs : Good(H[q], sums, m)
  <2>1. Append(S.hist[o], m) \in Seq(Msgs) BY <1>2 DEF Stores
  <2>2. Good(Append(S.hist[o], m), sums, m) BY <1>0, GoodAppend DEF StoreInv
  <2>3. \A q \in Objs : Good(S.hist[q], sums, m)
    <3>1. m \in Nat /\ n <= m BY <1>0
    <3> QED BY <3>1, GoodGrows DEF StoreInv
  <2> QED BY <1>1, <1>2, <2>1, <2>2, <2>3 DEF Stores
<1>4. PICK R : R = [S EXCEPT !.hist = H] OBVIOUS
<1>5. /\ R \in Stores /\ R.live = S.live /\ R.rows = S.rows /\ R.column = S.column
      /\ R.cache = S.cache /\ R.hist = H
  BY <1>2, <1>3, <1>4 DEF Stores
<1>6. A = Persisted(R, m, ok)
  <2>1. [S EXCEPT !.hist[o] = Append(@, m)] = R BY <1>1, <1>2, <1>4 DEF Stores
  <2> QED BY <1>a, <1>0, <2>1, Zenon DEF Added
<1>7. Good(S.rows, sums, m) /\ Good(Append(S.rows, m), sums, m)
  <2>1. m \in Nat /\ n <= m BY <1>0
  <2> QED BY <1>0, <2>1, GoodGrows, GoodAppend DEF StoreInv
<1>8. Append(S.rows, m) \in Seq(Msgs) BY <1>2 DEF Stores
<1>9. CachedLen(R) \in Nat
  <2>1. S.cache # NoObj => H[S.cache] \in Seq(Msgs) BY <1>2, <1>3 DEF Stores
  <2> QED BY <1>5, <2>1 DEF CachedLen, NoObj
<1>10. CASE ~S.live
  <2>1. Persisted(R, m, ok) = [R EXCEPT !.cache = NoObj] BY <1>5, <1>10 DEF Persisted
  <2>2. A = Persisted(R, m, ok) BY <1>6
  <2>3. /\ A \in Stores /\ A.live = S.live /\ A.rows = S.rows /\ A.column = S.column
        /\ A.cache = NoObj /\ A.hist = H
    BY <1>5, <2>1, <2>2 DEF Stores
  <2>4. StoreInv(A, sums, m) BY <1>3, <1>7, <1>10, <2>3 DEF StoreInv
  <2> QED BY <1>0, <1>1, <1>6, <1>10, <2>2, <2>3, <2>4
<1>11. CASE S.live /\ ok
  <2>1. Persisted(R, m, ok) = [R EXCEPT !.rows = Append(S.rows, m), !.column = CachedLen(R)]
    BY <1>5, <1>11 DEF Persisted
  <2>2. A = Persisted(R, m, ok) BY <1>6
  <2>3. /\ A \in Stores /\ A.live = S.live /\ A.rows = Append(S.rows, m)
        /\ A.column = CachedLen(R) /\ A.cache = S.cache /\ A.hist = H
    BY <1>5, <1>8, <1>9, <2>1, <2>2 DEF Stores
  <2>4. StoreInv(A, sums, m) BY <1>3, <1>7, <1>11, <2>3 DEF StoreInv
  <2>5. CachedLen(R) = IF S.cache = NoObj THEN 0 ELSE Len(H[S.cache])
    BY <1>5 DEF CachedLen
  <2> QED BY <1>0, <1>1, <1>6, <1>11, <2>2, <2>3, <2>4, <2>5
<1>12. CASE S.live /\ ~ok
  <2>1. Persisted(R, m, ok) = R BY <1>5, <1>12 DEF Persisted
  <2>2. StoreInv(R, sums, m) BY <1>3, <1>5, <1>7, <1>12 DEF StoreInv
  <2>3. A = R BY <1>6, <2>1
  <2> QED BY <2>3, <1>0, <1>1, <1>5, <1>6, <1>12, <2>1, <2>2
<1> QED BY <1>10, <1>11, <1>12

\* The rows, the count and the cached history of S become r, c and h.
Rewrite(S, r, c, h) == [S EXCEPT !.rows = r, !.column = c, !.hist[S.cache] = h]
Rewritten(A, S, sums, n, r, c, h) ==
    /\ StoreInv(A, sums, n) /\ A.live /\ A.cache = S.cache /\ A.rows = r
    /\ A.column = c /\ A.hist = [S.hist EXCEPT ![S.cache] = h]
    /\ A.hist[S.cache] = h

LEMMA RewrittenKeeps ==
  ASSUME NEW S, NEW sums, NEW more, NEW n \in Nat, NEW m \in Nat,
         StoreInv(S, sums, n), S.live, S.cache \in Objs,
         sums \subseteq more, n <= m, NEW r, NEW h, Good(r, more, m), Good(h, more, m),
         NEW c \in Nat
  PROVE  Rewritten(Rewrite(S, r, c, h), S, more, m, r, c, h)
<1>1. PICK A : A = [S EXCEPT !.rows = r, !.column = c, !.hist[S.cache] = h] OBVIOUS
<1>2. S \in Stores BY DEF StoreInv
<1>3. r \in Seq(Msgs) /\ h \in Seq(Msgs) BY DEF Good
<1>4. /\ A \in Stores /\ A.live /\ A.cache = S.cache /\ A.rows = r
      /\ A.column = c /\ A.hist = [S.hist EXCEPT ![S.cache] = h]
  BY <1>1, <1>2, <1>3 DEF Stores
<1>5. \A o \in Objs : Good(S.hist[o], more, m) BY GoodGrows DEF StoreInv
<1>6. \A o \in Objs : A.hist[o] = IF o = S.cache THEN h ELSE S.hist[o]
  BY <1>2, <1>4 DEF Stores
<1>7. StoreInv(A, more, m) BY <1>4, <1>5, <1>6 DEF StoreInv
<1>8. A.hist[S.cache] = h BY <1>6
<1>9. Rewritten(A, S, more, m, r, c, h) BY <1>4, <1>7, <1>8 DEF Rewritten
<1> QED BY <1>1, <1>9, Zenon DEF Rewrite

\* ... to the same list, when S was read for this.
LEMMA RewrittenSync ==
  ASSUME NEW A, NEW S, NEW sums, NEW n, NEW r, NEW c, Rewritten(A, S, sums, n, r, c, r), Tight(S)
  PROVE  InSync(A)
BY DEF Rewritten, Tight, InSync, Whole

-----------------------------------------------------------------------------
(* The invariant. *)

TypeRest ==
    /\ made \in 0..MaxMsgs /\ summaries \subseteq Msgs
    /\ phase \in [Turns -> Phase] /\ HeldType
    /\ context \in [Turns -> Seq(Msgs)]
    /\ active \in Turns \cup {NoTurn}
    /\ compact \in [base : Seq(Msgs), older : SUBSET Msgs, recent : Seq(Msgs)]
    /\ faults \in 0..MaxFaults
    /\ {healthy, overtaken, deleting, reread, loading} \subseteq BOOLEAN

\* A turn in progress holds an object.
HeldOpen == \A t \in Turns : phase[t] # "idle" => held[t] \in Objs

\* What a waiting compaction has read.
CompactInv ==
    /\ Good(compact.recent, summaries, made)
    /\ Compacting => /\ Len(compact.base) >= MinHistory
                     /\ compact.older = {compact.base[i] : i \in 1 .. Len(compact.base) - RecentKeep}
                     /\ compact.recent = Recent(compact.base)

\* While nothing has gone wrong since the start, memory and database agree, and from
\* the drop of the cached object to the commit of the deletion at least a cached one;
\* while nothing has at all, the denormalized count is right.
SyncInv ==
    /\ healthy /\ store.live => Whole(store) /\ (deleting \/ InSync(store))
    /\ faults = 0 => healthy /\ store.column = Len(store.rows)

Ghost == ~store.live /\ store.cache # NoObj

RemovedInv ==
    /\ removed \subseteq 1 .. made
    /\ faults = 0 /\ ~overtaken =>
         /\ removed \cap Elements(store.rows) = {}
         /\ Ghost => removed \cap Elements(store.hist[store.cache]) = {}

\* What the threads of the pool are about.
ThreadInv ==
    /\ deleting => store.live
    /\ Good(loaded, summaries, made)
    /\ Ghost => reread

Inv == TypeRest /\ HeldOpen /\ StoreInv(store, summaries, made) /\ CompactInv
       /\ SyncInv /\ RemovedInv /\ ThreadInv

LEMMA AttemptFacts ==
  ASSUME TypeRest, NEW ok \in BOOLEAN, Attempt(ok)
  PROVE  /\ faults' \in 0..MaxFaults /\ healthy' \in BOOLEAN
         /\ healthy' => healthy /\ ok
         /\ faults' = 0 => faults = 0 /\ ok
         /\ ok => faults' = faults /\ healthy' = healthy
         /\ ~ok => healthy' = FALSE
<1>1. CASE ok BY <1>1 DEF Attempt, TypeRest
<1>2. CASE ~ok
  <2>1. faults < MaxFaults /\ faults' = faults + 1 /\ healthy' = FALSE BY <1>2 DEF Attempt
  <2>2. faults' \in 0..MaxFaults /\ faults' # 0 BY <2>1, ConstantFacts DEF TypeRest
  <2> QED BY <1>2, <2>1, <2>2, Zenon
<1> QED BY <1>1, <1>2, Zenon

LEMMA CommitFacts ==
  ASSUME TypeRest, NEW ok \in BOOLEAN, Commit(ok)
  PROVE  /\ faults' \in 0..MaxFaults /\ healthy' \in BOOLEAN
         /\ healthy' => healthy /\ ok
         /\ faults' = 0 => faults = 0 /\ ok
         /\ ok => faults' = faults /\ healthy' = healthy /\ ~deleting
         /\ UNCHANGED <<threads, deleting, reread, loading, loaded>>
BY AttemptFacts DEF Commit, threads, load

LEMMA ThreadKeeps ==
  ASSUME Inv, UNCHANGED threads, store'.live = store.live,
         ~store.live => store'.cache \in {store.cache, NoObj},
         made' \in Nat, made <= made', summaries \subseteq summaries'
  PROVE  ThreadInv'
<1>1. made \in Nat BY ConstantFacts DEF Inv, TypeRest
<1>2. UNCHANGED <<deleting, reread, loaded>> BY DEF threads, load
<1>3. Good(loaded', summaries', made') BY <1>1, <1>2, GoodGrows DEF Inv, ThreadInv
<1> QED BY <1>2, <1>3 DEF Inv, ThreadInv, Ghost

LEMMA MakeFacts ==
  ASSUME TypeRest, Make
  PROVE  /\ made \in Nat /\ made' = made + 1 /\ made' \in 0..MaxMsgs /\ New = made + 1
         /\ made + 1 \in Msgs /\ New \in Msgs /\ made' \in Nat
BY ConstantFacts DEF TypeRest, Make, New

LEMMA CompactGrows ==
  ASSUME TypeRest, CompactInv, compact' = compact, made' \in Nat, made <= made',
         summaries \subseteq summaries'
  PROVE  CompactInv'
<1>1. made \in Nat BY ConstantFacts DEF TypeRest
<1>2. Good(compact.recent, summaries', made') BY <1>1, GoodGrows DEF CompactInv
<1> QED BY <1>2 DEF CompactInv, Compacting

\* A step whose only transaction commits (ok) or fails.
LEMMA StepSuffices ==
  ASSUME Inv, TypeRest', HeldOpen', CompactInv', StoreInv(store', summaries', made'),
         RemovedInv', ThreadInv', NEW ok \in BOOLEAN, Commit(ok),
         ok /\ healthy /\ ~deleting /\ store'.live => InSync(store)',
         ok /\ faults = 0 => store'.column = Len(store'.rows)
  PROVE  Inv'
<1>1. SyncInv'
  <2>1. ASSUME healthy', store'.live PROVE InSync(store)'
    BY <2>1, CommitFacts DEF Inv
  <2>2. faults' = 0 => healthy' /\ store'.column = Len(store'.rows)
    BY CommitFacts DEF Inv, SyncInv
  <2> QED BY <2>1, <2>2 DEF SyncInv, InSync
<1> QED BY <1>1 DEF Inv

LEMMA InvInit == Init => Inv
<1> SUFFICES ASSUME Init PROVE Inv OBVIOUS
<1> USE ConstantFacts DEF Init
<1>1. HeldType BY DEF HeldType
<1>2. TypeRest
  <2>1. <<>> \in Seq(Msgs) /\ {} \in SUBSET Msgs OBVIOUS
  <2>2. compact \in [base : Seq(Msgs), older : SUBSET Msgs, recent : Seq(Msgs)]
    BY <2>1 DEF NoCompaction
  <2>3. context \in [Turns -> Seq(Msgs)] BY <2>1
  <2>4. made \in 0..MaxMsgs /\ faults \in 0..MaxFaults OBVIOUS
  <2>5. phase \in [Turns -> Phase] BY DEF Phase
  <2>6. /\ summaries \subseteq Msgs /\ active \in Turns \cup {NoTurn}
        /\ {healthy, overtaken, deleting, reread, loading} \subseteq BOOLEAN
    OBVIOUS
  <2> HIDE ConstantFacts DEF Init
  <2> QED BY <1>1, <2>2, <2>3, <2>4, <2>5, <2>6 DEF TypeRest
<1>3. HeldOpen BY DEF HeldOpen
<1>4. StoreInv(store, summaries, made)
  <2>1. store \in Stores BY DEF Stores
  <2>2. /\ store.live = TRUE /\ store.rows = <<>>
        /\ \A o \in Objs : store.hist[o] = <<>>
    OBVIOUS
  <2> QED BY <2>1, <2>2, GoodEmpty DEF StoreInv
<1>5. CompactInv
  <2>1. Good(<<>>, summaries, made) BY GoodEmpty
  <2> QED BY <2>1 DEF CompactInv, Compacting, NoCompaction
<1>6. SyncInv BY DEF SyncInv, InSync, Whole
<1>7. RemovedInv BY DEF RemovedInv, Ghost
<1>8. ThreadInv
  <2>1. Good(<<>>, summaries, made) BY GoodEmpty
  <2> QED BY <2>1 DEF ThreadInv, Ghost
<1> QED BY <1>2, <1>3, <1>4, <1>5, <1>6, <1>7, <1>8 DEF Inv

LEMMA InvTypes == Inv => TypeOK
<1> SUFFICES ASSUME Inv PROVE TypeOK OBVIOUS
<1>1. removed \subseteq Msgs BY ConstantFacts DEF Inv, RemovedInv, TypeRest
<1>2. store \in Stores BY DEF Inv, StoreInv
<1>3. loaded \in Seq(Msgs) BY DEF Inv, ThreadInv, Good
<1> QED BY <1>1, <1>2, <1>3 DEF Inv, TypeRest, HeldType, TypeOK

-----------------------------------------------------------------------------
(* Turns. *)

LEMMA StoreFacts ==
  ASSUME Inv
  PROVE  /\ HeldType /\ made \in Nat /\ StoreInv(store, summaries, made) /\ store \in Stores
         /\ store.rows \in Seq(Msgs) /\ Len(store.rows) \in Nat
         /\ \A o \in Objs : store.hist[o] \in Seq(Msgs)
BY ConstantFacts DEF Inv, StoreInv, TypeRest, Stores

LEMMA OpenKeeps == ASSUME Inv, NEW t \in Turns, Open(t) PROVE Inv'
<1>1. /\ StoreInv(store', summaries, made) /\ store.live /\ store'.live
      /\ store'.rows = store.rows
      /\ store'.column = store.column /\ store'.cache \in Objs
      /\ InSync(store) => Tight(store')
      /\ Whole(store) => store'.hist[store'.cache] = store'.rows
  BY StoreFacts, GotKeeps DEF Open
<1>2. UNCHANGED <<made, summaries, context, active, compact, faults, healthy,
                  overtaken, removed, threads, deleting, reread, loading, loaded>>
  BY DEF Open, threads, load
<1>3. TypeRest' /\ HeldOpen'
  <2>1. HeldType' /\ HeldOpen' BY <1>1 DEF Open, Inv, TypeRest, HeldType, HeldOpen
  <2> QED BY <1>2, <2>1 DEF Open, Inv, TypeRest, Phase
<1>4. CompactInv' BY <1>2 DEF Inv, CompactInv, Compacting
<1>5. RemovedInv' BY <1>1, <1>2 DEF Inv, RemovedInv, Ghost
<1>6. SyncInv'
  <2>1. ASSUME healthy, ~deleting PROVE InSync(store)'
    <3>1. Tight(store') BY <1>1, <2>1 DEF Inv, SyncInv
    <3>2. \A u \in Turns : held'[u] # NoObj => held'[u] = store'.cache
      BY <3>1 DEF Open, Inv, TypeRest, HeldType, Tight
    <3> QED BY <3>1, <3>2 DEF InSync, Whole, Tight
  <2>2. ASSUME healthy PROVE Whole(store') BY <1>1, <2>2 DEF Inv, SyncInv, Whole
  <2> QED BY <1>1, <1>2, <2>1, <2>2 DEF Inv, SyncInv
<1>7. ThreadInv' BY <1>1, <1>2, StoreFacts, ThreadKeeps
<1> QED BY <1>1, <1>2, <1>3, <1>4, <1>5, <1>6, <1>7 DEF Inv

\* A turn adds a message to the object it holds.
LEMMA TurnAdds ==
  ASSUME Inv, NEW t \in Turns, held[t] \in Objs, Make, NEW ok \in BOOLEAN, Commit(ok),
         store' = Added(store, held[t], New, ok), HeldOpen', phase' \in [Turns -> Phase],
         context' \in [Turns -> Seq(Msgs)],
         UNCHANGED <<summaries, held, active, compact, overtaken, removed>>
  PROVE  /\ Inv' /\ store'.hist[held[t]] = Append(store.hist[held[t]], made + 1)
         /\ ok /\ store.live => store'.rows = Append(store.rows, made + 1)
<1>0. TypeRest BY DEF Inv
<1>1. /\ StoreInv(store', summaries, made + 1) /\ store'.live = store.live
      /\ store'.hist = [store.hist EXCEPT ![held[t]] = Append(store.hist[held[t]], made + 1)]
      /\ store'.cache = IF store.live THEN store.cache ELSE NoObj
      /\ store'.rows = IF store.live /\ ok THEN Append(store.rows, made + 1) ELSE store.rows
      /\ store'.column = IF store.live /\ ok
                         THEN IF store.cache = NoObj THEN 0 ELSE Len(store'.hist[store.cache])
                         ELSE store.column
  <2>1. store' = Added(store, held[t], made + 1, ok) BY DEF New
  <2>2. made \in Nat /\ made + 1 \in Msgs /\ StoreInv(store, summaries, made)
    BY <1>0, StoreFacts, MakeFacts
  <2>3. AddedTo(Added(store, held[t], made + 1, ok), store, summaries, made, held[t], ok)
    BY <2>2, AddedKeeps, Zenon
  <2> QED BY <2>1, <2>3, Zenon DEF AddedTo
<1>2. TypeRest' BY <1>0, MakeFacts, CommitFacts DEF TypeRest, HeldType
<1>3. CompactInv'
  <2>1. made <= made' /\ made' \in Nat BY <1>0, MakeFacts
  <2> QED BY <1>0, <2>1, CompactGrows DEF Inv
<1>4. RemovedInv'
  <2>1. removed' \subseteq 1 .. made' /\ made + 1 \notin removed
    BY <1>0, MakeFacts DEF Inv, RemovedInv
  <2>2. Elements(store'.rows) \subseteq Elements(store.rows) \cup {made + 1}
    BY <1>0, <1>1, StoreFacts, MakeFacts, ElementsAppend
  <2>3. faults' = 0 => faults = 0 BY <1>0, CommitFacts
  <2>4. ~Ghost' BY <1>1 DEF Ghost
  <2> QED BY <2>1, <2>2, <2>3, <2>4 DEF Inv, RemovedInv
<1>5. store'.hist[held[t]] = Append(store.hist[held[t]], made + 1)
  BY <1>1, StoreFacts DEF Stores
<1>6. ASSUME ok, healthy, store.live
      PROVE  /\ InSync(store)' /\ store'.column = Len(store'.rows)
  <2>1. InSync(store) BY <1>0, <1>6, CommitFacts DEF Inv, SyncInv
  <2>2. held[t] = store.cache /\ store.hist[store.cache] = store.rows
    BY <2>1, ConstantFacts DEF InSync
  <2>3. store'.hist[store.cache] = store'.rows /\ store'.cache = store.cache
    BY <1>1, <1>5, <1>6, <2>2
  <2>4. \A u \in Turns : held[u] # NoObj => held[u] = store.cache BY <2>1 DEF InSync
  <2>5. InSync(store)' BY <2>3, <2>4 DEF InSync, Whole
  <2>6. store.cache # NoObj BY <2>2, ConstantFacts
  <2> QED BY <1>1, <1>6, <2>3, <2>5, <2>6
<1>7. ASSUME ok, faults = 0 PROVE store'.column = Len(store'.rows)
  <2>1. healthy /\ store.column = Len(store.rows) BY <1>7 DEF Inv, SyncInv
  <2>2. CASE store.live BY <1>6, <1>7, <2>1, <2>2
  <2>3. CASE ~store.live BY <1>1, <2>1, <2>3
  <2> QED BY <2>2, <2>3
<1>8. StoreInv(store', summaries', made') BY <1>0, <1>1, MakeFacts
<1>9. ThreadInv' BY <1>0, <1>1, MakeFacts, CommitFacts, ThreadKeeps
<1>10. Inv' BY <1>1, <1>2, <1>3, <1>4, <1>6, <1>7, <1>8, <1>9, StepSuffices
<1> QED BY <1>1, <1>5, <1>10

LEMMA AskKeeps ==
  ASSUME Inv, NEW t \in Turns, Ask(t)
  PROVE  Inv' /\ (healthy' /\ store.live => context'[t] = store'.rows)
<1>0. TypeRest /\ held[t] \in Objs BY DEF Inv, HeldOpen, Ask
<1>1. PICK ok \in BOOLEAN : Commit(ok) /\ store' = Added(store, held[t], New, ok) BY DEF Ask
<1>2. PICK A : A = store' OBVIOUS
<1>3. phase' \in [Turns -> Phase] /\ HeldOpen' BY DEF Ask, Inv, TypeRest, Phase, HeldOpen
<1>4. context' \in [Turns -> Seq(Msgs)]
  <2>1. StoreInv(store', summaries, made + 1)
    <3>1. made \in Nat /\ made + 1 \in Msgs /\ StoreInv(store, summaries, made)
      BY <1>0, StoreFacts, MakeFacts DEF Ask
    <3>2. AddedTo(Added(store, held[t], made + 1, ok), store, summaries, made, held[t], ok)
      BY <1>0, <3>1, AddedKeeps, Zenon
    <3> QED BY <1>1, <3>2, Zenon DEF AddedTo, New
  <2>2. store'.hist[held[t]] \in Seq(Msgs) BY <1>0, <2>1 DEF StoreInv, Stores
  <2> QED BY <2>2 DEF Ask, Inv, TypeRest
<1>5. /\ Inv' /\ store'.hist[held[t]] = Append(store.hist[held[t]], made + 1)
      /\ ok /\ store.live => store'.rows = Append(store.rows, made + 1)
  BY <1>0, <1>1, <1>3, <1>4, TurnAdds DEF Ask
<1>6. ASSUME healthy', store.live PROVE context'[t] = store'.rows
  <2>1. healthy /\ ok /\ ~deleting BY <1>0, <1>1, <1>6, CommitFacts
  <2>2. held[t] = store.cache /\ store.hist[store.cache] = store.rows
    BY <1>0, <1>6, <2>1, ConstantFacts DEF Inv, SyncInv, InSync
  <2>3. context'[t] = store'.hist[held[t]] BY DEF Ask, Inv, TypeRest
  <2> QED BY <1>5, <1>6, <2>1, <2>2, <2>3
<1> QED BY <1>5, <1>6

LEMMA AnswerKeeps == ASSUME Inv, NEW t \in Turns, Answer(t) PROVE Inv'
<1>0. held[t] \in Objs BY DEF Inv, HeldOpen, Answer
<1>1. PICK ok \in BOOLEAN : Commit(ok) /\ store' = Added(store, held[t], New, ok) BY DEF Answer
<1>2. phase' \in [Turns -> Phase] /\ HeldOpen' BY DEF Answer, Inv, TypeRest, Phase, HeldOpen
<1>3. context' \in [Turns -> Seq(Msgs)]
  <2>1. <<>> \in Seq(Msgs) OBVIOUS
  <2> QED BY <2>1 DEF Answer, Inv, TypeRest
<1> QED BY <1>0, <1>1, <1>2, <1>3, TurnAdds DEF Answer

LEMMA StartKeeps == ASSUME Inv, NEW t \in Turns, Start(t) PROVE Inv'
<1>1. UNCHANGED <<store, made, summaries, held, context, compact, faults, healthy,
                  overtaken, removed, threads, deleting, reread, loading, loaded>>
  BY DEF Start, threads, load
<1>2. TypeRest' BY <1>1 DEF Start, Inv, TypeRest, HeldType, Phase
<1>3. HeldOpen' BY <1>1 DEF Start, Inv, HeldOpen, TypeRest
<1>4. CompactInv' /\ SyncInv' /\ RemovedInv' /\ ThreadInv'
  BY <1>1 DEF Inv, CompactInv, Compacting, SyncInv, InSync, RemovedInv, ThreadInv, Ghost
<1> QED BY <1>1, <1>2, <1>3, <1>4 DEF Inv

LEMMA GotFacts ==
  ASSUME Inv
  PROVE  /\ StoreInv(Got(store), summaries, made) /\ Got(store).live = store.live
         /\ Got(store).rows = store.rows /\ Got(store).column = store.column
         /\ Got(store).cache \in Objs
         /\ healthy /\ store.live /\ ~deleting => Tight(Got(store))
         /\ healthy /\ store.live => Got(store).hist[Got(store).cache] = store.rows
         /\ Ghost => Got(store) = store
         /\ faults = 0 => healthy /\ store.column = Len(store.rows)
         /\ Got(store) \in Stores
         /\ Good(Got(store).rows, summaries, made)
         /\ Good(Got(store).hist[Got(store).cache], summaries, made)
<1>1. HeldType /\ made \in Nat /\ StoreInv(store, summaries, made) BY StoreFacts
<1>2. /\ StoreInv(Got(store), summaries, made) /\ Got(store).live = store.live
      /\ Got(store).rows = store.rows /\ Got(store).column = store.column
      /\ Got(store).cache \in Objs
      /\ InSync(store) => Tight(Got(store))
      /\ Whole(store) => Got(store).hist[Got(store).cache] = store.rows
      /\ Ghost => Got(store) = store
  BY <1>1, GotKeeps DEF Ghost
<1>3. SyncInv BY DEF Inv
<1> QED BY <1>2, <1>3 DEF SyncInv, StoreInv

\* maybe_compact's list: what it keeps before and after the summary.
LEMMA AutoCompactNew ==
  ASSUME Inv, NEW t \in Turns, NEW k \in 1..MaxSystem, NEW p \in 0..MaxContext, NEW d \in 0..1,
         held[t] \in Objs, made + 1 \in Msgs,
         k + Len(context[t]) - Cardinality(Convo(t)) + Split(t, p, d) < Len(store.hist[held[t]])
  PROVE  LET h == store.hist[held[t]]
             prefix == k + Len(context[t]) - Cardinality(Convo(t))
             new == SubSeq(h, 1, Least(prefix, Len(h))) \o <<made + 1>>
                      \o SubSeq(h, prefix + Split(t, p, d) + 1, Len(h))
         IN  /\ Good(new, summaries \cup {made + 1}, made + 1)
             /\ Elements(new) \subseteq Elements(h) \cup {made + 1}
             /\ \E i, j \in 1..(Len(h) - 1) :
                  i <= j /\ new = SubSeq(h, 1, i) \o <<made + 1>> \o SubSeq(h, j + 1, Len(h))
<1>1. context[t] \in Seq(Msgs) /\ made \in Nat BY StoreFacts DEF Inv, TypeRest
<1>2. PICK l \in Nat : l = Len(context[t]) BY <1>1
<1>3. Cardinality(Convo(t)) \in Nat /\ Cardinality(Convo(t)) <= l
  <2>1. Convo(t) \subseteq 1 .. l BY <1>1, <1>2 DEF Convo
  <2>2. IsFiniteSet(1 .. l) /\ Cardinality(1 .. l) = l
    <3>1. 1 \in Int /\ l \in Int OBVIOUS
    <3>2. /\ IsFiniteSet(1 .. l)
          /\ Cardinality(1 .. l) = IF 1 > l THEN 0 ELSE l - 1 + 1
      BY <3>1, FS_Interval, Zenon
    <3> QED BY <3>2
  <2>3. IsFiniteSet(Convo(t)) /\ Cardinality(Convo(t)) <= Cardinality(1 .. l)
    BY <2>1, <2>2, FS_Subset
  <2> QED BY <2>2, <2>3, FS_CardinalityType
<1>4. PICK n \in Nat : n = Cardinality(Convo(t)) /\ n <= l BY <1>3
<1>5. Split(t, p, d) \in Nat
  <2>1. PICK q \in Nat : q = p + n + d BY ConstantFacts
  <2>2. q \div 2 \in Nat BY <2>1
  <2> QED BY <1>4, <2>1, <2>2 DEF Split
<1>6. PICK a \in Nat : a = k + l - n /\ a >= 1 BY <1>2, <1>4, ConstantFacts
<1>7. PICK b \in Nat : b = a + Split(t, p, d) /\ a <= b BY <1>5, <1>6, SMTT(30)
<1>8. PICK h : h = store.hist[held[t]] OBVIOUS
<1>9. Good(h, summaries, made) /\ Len(h) \in Nat
  BY <1>8, StoreFacts DEF StoreInv
<1>10. k + Len(context[t]) - Cardinality(Convo(t)) = a BY <1>2, <1>4, <1>6
<1>11. b < Len(h) /\ a <= Len(h) BY <1>7, <1>8, <1>9, <1>10
<1>12. Least(a, Len(h)) = a BY <1>7, <1>9, <1>11 DEF Least
<1>13. /\ Good(SubSeq(h, 1, a) \o <<made + 1>> \o SubSeq(h, b + 1, Len(h)),
               summaries \cup {made + 1}, made + 1)
       /\ Elements(SubSeq(h, 1, a) \o <<made + 1>> \o SubSeq(h, b + 1, Len(h)))
            \subseteq Elements(h) \cup {made + 1}
  BY <1>1, <1>7, <1>9, <1>11, GoodCompacted
<1>14. a \in 1..(Len(h) - 1) /\ b \in 1..(Len(h) - 1) BY <1>6, <1>7, <1>9, <1>11
<1> QED BY <1>7, <1>8, <1>10, <1>12, <1>13, <1>14, Zenon

LEMMA AutoCompactKeeps ==
  ASSUME Inv, NEW t \in Turns, NEW k \in 1..MaxSystem, NEW p \in 0..MaxContext, NEW d \in 0..1,
         AutoCompact(t, k, p, d)
  PROVE  Inv'
<1>0. /\ TypeRest /\ held[t] \in Objs /\ Make /\ (store.live \/ Ghost)
      /\ TailLeft(k + Len(context[t]) - Cardinality(Convo(t)) + Split(t, p, d),
                  store.hist[held[t]])
  BY DEF Inv, HeldOpen, AutoCompact, Known, Ghost
<1>m. /\ made \in Nat /\ made' = made + 1 /\ made' \in 0..MaxMsgs /\ New = made + 1
      /\ made + 1 \in Msgs /\ made' \in Nat /\ made <= made'
  BY <1>0, MakeFacts
<1>1. PICK h : h = store.hist[held[t]] OBVIOUS
<1>2. PICK new :
        /\ new = SubSeq(h, 1, Least(k + Len(context[t]) - Cardinality(Convo(t)), Len(h)))
                   \o <<made + 1>>
                   \o SubSeq(h, k + Len(context[t]) - Cardinality(Convo(t)) + Split(t, p, d) + 1, Len(h))
        /\ Good(new, summaries \cup {made + 1}, made + 1)
        /\ Elements(new) \subseteq Elements(h) \cup {made + 1}
  BY <1>0, <1>1, <1>m, AutoCompactNew DEF TailLeft
<1>3. PICK ok \in BOOLEAN :
        /\ Commit(ok)
        /\ store' = IF ok /\ store.live
                    THEN Replaced(Got(store), new)
                    ELSE [Got(store) EXCEPT !.hist[held[t]] = new]
  BY <1>1, <1>2, <1>m DEF AutoCompact
<1>4. /\ summaries' = summaries \cup {made + 1}
      /\ context' = [context EXCEPT ![t] = <<>>]
      /\ UNCHANGED <<phase, held, active, compact, overtaken, removed>>
  BY <1>m DEF AutoCompact
<1>5. PICK S : S = Got(store) OBVIOUS
<1>6. /\ StoreInv(S, summaries, made) /\ S.live = store.live /\ S.rows = store.rows
      /\ S.cache \in Objs
      /\ healthy /\ ok /\ store.live => Tight(S)
      /\ faults = 0 => healthy
      /\ S \in Stores /\ (Ghost => S = store)
  BY <1>0, <1>3, <1>5, GotFacts, CommitFacts
<1>g. Good(new, summaries \cup {made + 1}, made + 1) BY <1>2, Zenon
<1>n. new \in Seq(Msgs) /\ Len(new) \in Nat BY <1>g DEF Good
<1>9. /\ StoreInv(store', summaries', made') /\ store'.live = store.live
      /\ ok /\ store.live => /\ store'.rows = new /\ store'.column = Len(new)
                             /\ healthy => InSync(store')
      /\ ~(ok /\ store.live) =>
           /\ store'.rows = store.rows /\ store'.column = S.column /\ store'.cache = S.cache
           /\ \A o \in Objs : store'.hist[o] = IF o = held[t] THEN new ELSE S.hist[o]
  <2>1. CASE ok /\ store.live
    <3>1. store' = Rewrite(S, new, Len(new), new)
      BY <1>3, <1>5, <2>1, Zenon DEF Replaced, Rewrite
    <3>2. Rewritten(store', S, summaries', made', new, Len(new), new)
      <4>1. summaries \subseteq summaries' /\ Good(new, summaries', made') BY <1>2, <1>4, <1>m
      <4>2. PICK sm, n : sm = summaries' /\ n = made' OBVIOUS
      <4>3. /\ summaries \subseteq sm /\ Good(new, sm, n) /\ n \in Nat /\ made <= n
            /\ made \in Nat /\ S.live /\ S.cache \in Objs /\ Len(new) \in Nat
            /\ StoreInv(S, summaries, made)
        BY <1>6, <1>m, <1>n, <2>1, <4>1, <4>2, Zenon
      <4>4. Rewritten(Rewrite(S, new, Len(new), new), S, sm, n, new, Len(new), new)
        BY <4>3, RewrittenKeeps
      <4> QED BY <3>1, <4>2, <4>4, Zenon
    <3>3. /\ StoreInv(store', summaries', made') /\ store'.live /\ store'.rows = new
          /\ store'.column = Len(new)
      BY <3>2 DEF Rewritten
    <3>4. healthy => InSync(store')
      <4> SUFFICES ASSUME healthy PROVE InSync(store') OBVIOUS
      <4>1. PICK A : A = store' OBVIOUS
      <4>2. PICK sm, n : sm = summaries' /\ n = made' OBVIOUS
      <4>3. Rewritten(A, S, sm, n, new, Len(new), new) /\ Tight(S)
        BY <1>6, <2>1, <3>2, <4>1, <4>2, Zenon
      <4>4. InSync(A) BY <4>3, RewrittenSync, Zenon
      <4> QED BY <4>1, <4>4, Zenon
    <3>5. store'.live = store.live
      BY <1>6, <2>1, <3>1, <3>3 DEF Rewrite, Stores
    <3> QED BY <2>1, <3>3, <3>4, <3>5, Zenon
  <2>2. CASE ~(ok /\ store.live)
    <3>1. store' = [S EXCEPT !.hist[held[t]] = new] BY <1>3, <1>5, <2>2
    <3>2. /\ store' \in Stores /\ store'.live = S.live /\ store'.rows = S.rows
          /\ store'.column = S.column /\ store'.cache = S.cache
          /\ \A o \in Objs : store'.hist[o] = IF o = held[t] THEN new ELSE S.hist[o]
      BY <1>0, <1>6, <1>n, <3>1 DEF Stores
    <3>3. summaries \subseteq summaries' /\ Good(new, summaries', made') BY <1>2, <1>4, <1>m
    <3>4. StoreInv(S, summaries', made') BY <1>6, <1>m, <3>3, StoreGrows
    <3>5. StoreInv(store', summaries', made')
      <4>1. \A o \in Objs : Good(store'.hist[o], summaries', made')
        BY <3>2, <3>3, <3>4, Zenon DEF StoreInv
      <4>2. Good(store'.rows, summaries', made') BY <3>2, <3>4, Zenon DEF StoreInv
      <4>3. ~store'.live => store'.rows = <<>> BY <3>2, <3>4, Zenon DEF StoreInv
      <4> QED BY <3>2, <4>1, <4>2, <4>3, Zenon DEF StoreInv
    <3> QED BY <1>6, <2>2, <3>2, <3>5, Zenon
  <2> QED BY <2>1, <2>2
<1>10. healthy /\ ok /\ store'.live => InSync(store)' BY <1>4, <1>9, Zenon DEF InSync
<1>11. TypeRest'
  <2>1. <<>> \in Seq(Msgs) OBVIOUS
  <2>2. context' \in [Turns -> Seq(Msgs)] BY <1>0, <1>4, <2>1 DEF TypeRest
  <2>3. summaries' \subseteq Msgs BY <1>0, <1>4, <1>m DEF TypeRest
  <2> QED BY <1>0, <1>3, <1>4, <1>m, <2>2, <2>3, CommitFacts DEF TypeRest, HeldType
<1>12. HeldOpen' BY <1>4 DEF Inv, HeldOpen
<1>13. CompactInv' BY <1>0, <1>4, <1>m, CompactGrows DEF Inv
<1>14. RemovedInv'
  <2>1. removed' \subseteq 1 .. made' /\ made + 1 \notin removed
    BY <1>4, <1>m DEF Inv, RemovedInv
  <2> SUFFICES ASSUME faults' = 0, ~overtaken'
               PROVE  /\ removed' \cap Elements(store'.rows) = {}
                      /\ Ghost' => removed' \cap Elements(store'.hist[store'.cache]) = {}
    BY <2>1 DEF RemovedInv
  <2>2. faults = 0 /\ ok /\ healthy /\ ~deleting BY <1>0, <1>3, <1>6, CommitFacts
  <2>3. CASE store.live
    <3>1. h = store.rows
      BY <1>0, <1>1, <2>2, <2>3, ConstantFacts DEF Inv, SyncInv, InSync
    <3>2. Elements(store'.rows) \subseteq Elements(store.rows) \cup {made + 1}
      BY <1>2, <1>9, <2>2, <2>3, <3>1
    <3>3. ~Ghost' BY <1>9, <2>3 DEF Ghost
    <3> QED BY <1>4, <2>1, <2>2, <3>2, <3>3 DEF Inv, RemovedInv
  <2>4. CASE Ghost
    <3>1. ~store.live /\ S = store BY <1>6, <2>4 DEF Ghost
    <3>2. /\ store'.rows = store.rows /\ store'.cache = store.cache
          /\ store'.hist[store.cache] \in {store.hist[store.cache], new}
          /\ store'.hist[store.cache] = new => h = store.hist[store.cache]
                                               \/ new = store.hist[store.cache]
      BY <1>1, <1>6, <1>9, <3>1
    <3>3. /\ removed \cap Elements(store.rows) = {}
          /\ removed \cap Elements(store.hist[store.cache]) = {}
      BY <1>4, <2>2, <2>4 DEF Inv, RemovedInv
    <3>4. Elements(store'.hist[store.cache])
            \subseteq Elements(store.hist[store.cache]) \cup {made + 1}
      BY <1>2, <3>2
    <3> QED BY <1>4, <2>1, <3>2, <3>3, <3>4
  <2> QED BY <1>0, <2>3, <2>4
<1>15. ThreadInv'
  <2>1. ~store.live => store'.cache \in {store.cache, NoObj}
    BY <1>0, <1>6, <1>9
  <2> QED BY <1>0, <1>3, <1>4, <1>9, <1>m, <2>1, CommitFacts, ThreadKeeps
<1>16. ok /\ faults = 0 => store'.column = Len(store'.rows)
  <2>1. CASE store.live BY <1>9, <2>1
  <2>2. CASE ~store.live
    <3>1. S.column = store.column /\ (faults = 0 => store.column = Len(store.rows))
      BY <1>5, GotFacts
    <3> QED BY <1>9, <2>2, <3>1
  <2> QED BY <2>1, <2>2
<1> QED BY <1>3, <1>9, <1>10, <1>11, <1>12, <1>13, <1>14, <1>15, <1>16, StepSuffices

LEMMA CollectedFacts ==
  ASSUME NEW S \in Stores, NEW refs
  PROVE  /\ Collected(S, refs) \in Stores
         /\ Collected(S, refs).live = S.live /\ Collected(S, refs).rows = S.rows
         /\ Collected(S, refs).column = S.column /\ Collected(S, refs).cache = S.cache
         /\ \A o \in Objs : Collected(S, refs).hist[o] =
                            IF o \in refs \cup {S.cache} THEN S.hist[o] ELSE <<>>
<1>1. PICK H : H = [o \in Objs |-> IF o \in refs \cup {S.cache} THEN S.hist[o] ELSE <<>>]
  OBVIOUS
<1>2. H \in [Objs -> Seq(Msgs)]
  <2>1. <<>> \in Seq(Msgs) OBVIOUS
  <2>2. \A o \in Objs : S.hist[o] \in Seq(Msgs) BY DEF Stores
  <2>3. \A o \in Objs : (IF o \in refs \cup {S.cache} THEN S.hist[o] ELSE <<>>) \in Seq(Msgs)
    BY <2>1, <2>2, Zenon
  <2> QED BY <1>1, <2>3, Zenon
<1>3. Collected(S, refs) = [S EXCEPT !.hist = H] BY <1>1 DEF Collected, Stores
<1>4. PICK C : C = Collected(S, refs) OBVIOUS
<1>5. /\ C \in Stores /\ C.live = S.live /\ C.rows = S.rows
      /\ C.column = S.column /\ C.cache = S.cache /\ C.hist = H
  BY <1>2, <1>3, <1>4 DEF Stores
<1>6. \A o \in Objs : H[o] = IF o \in refs \cup {S.cache} THEN S.hist[o] ELSE <<>>
  BY <1>1, Zenon
<1> QED BY <1>4, <1>5, <1>6, Zenon

LEMMA LeaveKeeps == ASSUME Inv, NEW t \in Turns, Leave(t) PROVE Inv'
<1>1. UNCHANGED <<made, summaries, compact, faults, healthy, overtaken, removed,
                  threads, deleting, reread, loading, loaded>>
  BY DEF Leave, threads, load
<1>2. /\ phase' = [phase EXCEPT ![t] = "idle"]
      /\ held' = [held EXCEPT ![t] = NoObj]
      /\ context' = [context EXCEPT ![t] = <<>>]
      /\ active' = IF active = t THEN NoTurn ELSE active
      /\ store' = Collected(store, HeldBy(Turns \ {t}))
  BY DEF Leave
<1>3. /\ store' \in Stores /\ store'.live = store.live /\ store'.rows = store.rows
      /\ store'.column = store.column /\ store'.cache = store.cache
      /\ \A o \in Objs : store'.hist[o] = IF o \in HeldBy(Turns \ {t}) \cup {store.cache}
                                         THEN store.hist[o] ELSE <<>>
  BY <1>2, StoreFacts, CollectedFacts
<1>4. StoreInv(store', summaries, made)
  <2>1. \A o \in Objs : Good(store'.hist[o], summaries, made)
    BY <1>3, StoreFacts, GoodEmpty DEF StoreInv
  <2> QED BY <1>3, <2>1, StoreFacts DEF StoreInv
<1>5. TypeRest'
  <2>1. <<>> \in Seq(Msgs) OBVIOUS
  <2>2. context' \in [Turns -> Seq(Msgs)] BY <1>2, <2>1 DEF Inv, TypeRest
  <2>3. HeldType' BY <1>2 DEF Inv, TypeRest, HeldType
  <2>4. phase' \in [Turns -> Phase] BY <1>2 DEF Inv, TypeRest, Phase
  <2>5. active' \in Turns \cup {NoTurn} BY <1>2 DEF Inv, TypeRest
  <2> QED BY <1>1, <2>2, <2>3, <2>4, <2>5 DEF Inv, TypeRest
<1>6. HeldOpen' BY <1>2 DEF Inv, HeldOpen, TypeRest, HeldType
<1>7. CompactInv' BY <1>1 DEF Inv, CompactInv, Compacting
<1>c. store.cache # NoObj => store'.hist[store.cache] = store.hist[store.cache]
  <2>1. store.cache \in Objs \cup {NoObj} BY StoreFacts DEF Stores
  <2> QED BY <1>3, <2>1
<1>8. RemovedInv' BY <1>1, <1>3, <1>c DEF Inv, RemovedInv, Ghost
<1>w. ASSUME Whole(store) PROVE Whole(store)' BY <1>3, <1>c, <1>w DEF Whole
<1>9. ASSUME InSync(store) PROVE InSync(store)'
  <2>3. \A u \in Turns : held'[u] # NoObj => held[u] = held'[u]
    BY <1>2 DEF Inv, TypeRest, HeldType
  <2> QED BY <1>3, <1>9, <1>c, <1>w, <2>3 DEF InSync
<1>10. SyncInv' BY <1>1, <1>3, <1>w, <1>9 DEF Inv, SyncInv
<1>11. ThreadInv' BY <1>1, <1>3, StoreFacts, ThreadKeeps
<1> QED BY <1>1, <1>4, <1>5, <1>6, <1>7, <1>8, <1>10, <1>11 DEF Inv

-----------------------------------------------------------------------------
(* Other requests. *)

LEMMA PostKeeps == ASSUME Inv, Post PROVE Inv'
<1>0. TypeRest /\ (store.live \/ Ghost) BY DEF Inv, Post, Known, Ghost
<1>1. PICK ok \in BOOLEAN : Commit(ok) /\ store' = Added(Got(store), Got(store).cache, New, ok)
  BY DEF Post
<1>2. /\ UNCHANGED <<summaries, phase, held, context, active, compact,
                     overtaken, removed>>
      /\ Make
  BY DEF Post, otherVars, turnVars
<1>m. /\ made \in Nat /\ made' = made + 1 /\ New = made + 1 /\ made + 1 \in Msgs
      /\ made' \in 0..MaxMsgs /\ made' \in Nat /\ made <= made'
  BY <1>0, <1>2, MakeFacts
<1>3. PICK S : S = Got(store) OBVIOUS
<1>4. /\ StoreInv(S, summaries, made) /\ S.live = store.live /\ S.rows = store.rows
      /\ S.cache \in Objs /\ S.column = store.column
      /\ healthy /\ ok /\ store.live => Tight(S)
      /\ faults = 0 => healthy /\ store.column = Len(store.rows)
      /\ S \in Stores
  BY <1>0, <1>1, <1>3, GotFacts, CommitFacts
<1>5. AddedTo(store', S, summaries, made, S.cache, ok)
  <2>1. AddedTo(Added(S, S.cache, made + 1, ok), S, summaries, made, S.cache, ok)
    BY <1>4, <1>m, AddedKeeps, Zenon
  <2>2. store' = Added(S, S.cache, made + 1, ok) BY <1>1, <1>3, <1>m, Zenon
  <2> QED BY <2>1, <2>2, Zenon
<1>6. /\ StoreInv(store', summaries, made + 1) /\ store'.live = store.live
      /\ store'.cache = IF store.live THEN S.cache ELSE NoObj
      /\ store'.hist = [S.hist EXCEPT ![S.cache] = Append(S.hist[S.cache], made + 1)]
      /\ store'.rows = IF store.live /\ ok THEN Append(store.rows, made + 1) ELSE store.rows
      /\ store'.column = IF store.live /\ ok THEN Len(store'.hist[S.cache]) ELSE store.column
  BY <1>4, <1>5, ConstantFacts DEF AddedTo
<1>7. store'.hist[S.cache] = Append(S.hist[S.cache], made + 1)
  BY <1>4, <1>6 DEF Stores
<1>8. ASSUME ok, healthy, store.live PROVE InSync(store)' /\ store'.column = Len(store'.rows)
  <2>1. Tight(S) BY <1>4, <1>8
  <2>2. store'.hist[S.cache] = store'.rows BY <1>4, <1>6, <1>7, <1>8, <2>1 DEF Tight
  <2>3. \A u \in Turns : held'[u] # NoObj => held'[u] = store'.cache
    BY <1>2, <1>6, <1>8, <2>1 DEF Tight
  <2>4. InSync(store)' BY <1>6, <1>8, <2>2, <2>3 DEF InSync, Whole
  <2> QED BY <1>6, <1>8, <2>2, <2>4
<1>9. TypeRest' BY <1>0, <1>1, <1>2, <1>m, CommitFacts DEF TypeRest, HeldType
<1>10. HeldOpen' BY <1>2 DEF Inv, HeldOpen
<1>11. CompactInv' BY <1>0, <1>2, <1>m, CompactGrows DEF Inv
<1>12. RemovedInv'
  <2>1. removed' \subseteq 1 .. made' /\ made + 1 \notin removed
    BY <1>2, <1>m DEF Inv, RemovedInv
  <2>2. Elements(store'.rows) \subseteq Elements(store.rows) \cup {made + 1}
    BY <1>6, <1>m, StoreFacts, ElementsAppend
  <2>3. faults' = 0 => faults = 0 BY <1>0, <1>1, CommitFacts
  <2>4. ~Ghost' BY <1>6 DEF Ghost
  <2> QED BY <1>2, <2>1, <2>2, <2>3, <2>4 DEF Inv, RemovedInv
<1>13. StoreInv(store', summaries', made') BY <1>2, <1>6, <1>m
<1>14. ok /\ faults = 0 => store'.column = Len(store'.rows)
  <2>1. CASE store.live BY <1>4, <1>8, <2>1
  <2>2. CASE ~store.live BY <1>4, <1>6, <2>2
  <2> QED BY <2>1, <2>2
<1>15. ThreadInv' BY <1>0, <1>1, <1>2, <1>6, <1>m, CommitFacts, ThreadKeeps
<1>16. ok /\ healthy /\ ~deleting /\ store'.live => InSync(store)' BY <1>6, <1>8
<1> QED BY <1>1, <1>9, <1>10, <1>11, <1>12, <1>13, <1>14, <1>15, <1>16, StepSuffices

\* A request that cuts the stored transcript to r and the cached one to h.
LEMMA EditKeeps ==
  ASSUME Inv, store.live, NEW ok \in BOOLEAN, Commit(ok),
         NEW r, NEW h, NEW c \in Nat, Good(r, summaries, made), Good(h, summaries, made),
         Elements(r) \subseteq Elements(store.rows),
         Tight(Got(store)) => h = r /\ c = Len(r),
         ok => store' = Rewrite(Got(store), r, c, h),
         ~ok => StoreInv(store', summaries, made) /\ store'.live /\ store'.rows = store.rows,
         removed' = removed \cup (Elements(store.rows) \ Elements(store'.rows)),
         UNCHANGED <<made, otherVars>>
  PROVE  Inv'
<1>0. TypeRest BY DEF Inv
<1>2. UNCHANGED <<made, summaries, phase, held, context, active, compact, overtaken>>
  BY DEF otherVars, turnVars
<1>3. PICK S : S = Got(store) OBVIOUS
<1>4. /\ StoreInv(S, summaries, made) /\ S.live /\ S.rows = store.rows /\ S.cache \in Objs
      /\ healthy /\ ok => Tight(S)
      /\ faults = 0 => healthy
      /\ S \in Stores /\ made \in Nat
  BY <1>0, <1>3, GotFacts, StoreFacts, CommitFacts
<1>7. /\ StoreInv(store', summaries', made') /\ RemovedInv'
      /\ ok => (healthy => InSync(store)' /\ store'.column = Len(store'.rows))
      /\ store'.live
  <2>1. CASE ok
    <3>1. Rewritten(Rewrite(S, r, c, h), S, summaries, made, r, c, h)
      <4>1. made <= made BY <1>4
      <4> QED BY <1>4, <4>1, RewrittenKeeps
    <3>2. Rewritten(store', S, summaries, made, r, c, h) BY <1>3, <2>1, <3>1, Zenon
    <3>3. /\ StoreInv(store', summaries, made) /\ store'.live /\ store'.rows = r
          /\ store'.column = c
      BY <3>2 DEF Rewritten
    <3>4. healthy => InSync(store)' /\ store'.column = Len(store'.rows)
      <4> SUFFICES ASSUME healthy PROVE InSync(store)' /\ store'.column = Len(store'.rows) OBVIOUS
      <4>1. PICK A : A = store' OBVIOUS
      <4>2. h = r /\ c = Len(r) /\ Tight(S) BY <1>3, <1>4, <2>1
      <4>3. Rewritten(A, S, summaries, made, r, c, r) BY <3>2, <4>1, <4>2, Zenon
      <4>4. InSync(A) BY <4>2, <4>3, RewrittenSync, Zenon
      <4>5. InSync(store)' BY <1>2, <4>1, <4>4, Zenon DEF InSync, Whole
      <4> QED BY <3>3, <4>2, <4>5
    <3>5. StoreInv(store', summaries', made') BY <1>2, <3>3
    <3>6. RemovedInv'
      <4>1. \A x \in Elements(store.rows) : x \in 1 .. made
        BY <1>4, StoreFacts, ConstantFacts DEF Elements, StoreInv, Good
      <4>2. removed' \subseteq 1 .. made' BY <1>2, <4>1 DEF Inv, RemovedInv
      <4>3. faults' = 0 => faults = 0 BY <1>0, CommitFacts
      <4>4. Elements(store'.rows) \subseteq Elements(store.rows) BY <3>3
      <4> QED BY <1>2, <3>3, <4>2, <4>3, <4>4 DEF Inv, RemovedInv, Ghost
    <3> QED BY <3>3, <3>4, <3>5, <3>6, Zenon
  <2>2. CASE ~ok
    <3>1. StoreInv(store', summaries', made') BY <1>2, <2>2
    <3>2. RemovedInv'
      <4>1. removed' = removed BY <2>2
      <4>2. faults' = 0 => faults = 0 BY <1>0, CommitFacts
      <4> QED BY <1>2, <2>2, <4>1, <4>2 DEF Inv, RemovedInv, Ghost
    <3> QED BY <2>2, <3>1, <3>2, Zenon
  <2> QED BY <2>1, <2>2
<1>8. TypeRest' BY <1>0, <1>2, CommitFacts DEF TypeRest, HeldType
<1>9. HeldOpen' BY <1>2 DEF Inv, HeldOpen
<1>10. CompactInv' BY <1>2 DEF Inv, CompactInv, Compacting
<1>11. ok /\ healthy /\ store'.live => InSync(store)' BY <1>7
<1>12. ok /\ faults = 0 => store'.column = Len(store'.rows) BY <1>4, <1>7
<1>13. ThreadInv' BY <1>0, <1>2, <1>4, <1>7, CommitFacts, ThreadKeeps
<1> QED BY <1>7, <1>8, <1>9, <1>10, <1>11, <1>12, <1>13, StepSuffices

LEMMA TruncateKeeps == ASSUME Inv, NEW k \in 0..MaxMsgs, Truncate(k) PROVE Inv'
<1>0. store.live BY DEF Truncate
<1>1. PICK ok \in BOOLEAN :
        Commit(ok) /\ store' = IF ok THEN Truncated(Got(store), k) ELSE Got(store)
  BY DEF Truncate
<1>2. /\ removed' = removed \cup (Elements(store.rows) \ Elements(store'.rows))
      /\ UNCHANGED <<made, otherVars>>
  BY DEF Truncate
<1>3. PICK S : S = Got(store) OBVIOUS
<1>4. /\ StoreInv(S, summaries, made) /\ S.live /\ S.rows = store.rows /\ S.cache \in Objs
      /\ Good(S.rows, summaries, made) /\ Good(S.hist[S.cache], summaries, made)
      /\ made \in Nat
  BY <1>0, <1>3, GotFacts, StoreFacts
<1>5. ASSUME NEW s, Good(s, summaries, made)
      PROVE  /\ Good(SubSeq(s, 1, Least(k, Len(s))), summaries, made)
             /\ Elements(SubSeq(s, 1, Least(k, Len(s)))) \subseteq Elements(s)
             /\ Len(SubSeq(s, 1, Least(k, Len(s)))) = Least(k, Len(s))
             /\ Least(k, Len(s)) \in Nat
  <2>1. s \in Seq(Msgs) /\ Len(s) \in Nat /\ k \in Nat BY <1>5, ConstantFacts DEF Good
  <2>2. PICK b \in Nat : b = Least(k, Len(s)) /\ b <= Len(s) BY <2>1 DEF Least
  <2>a. 1 \in Nat \ {0} /\ b \in Int /\ b <= Len(s) BY <2>2
  <2>3. /\ Good(SubSeq(s, 1, b), summaries, made)
        /\ Elements(SubSeq(s, 1, b)) \subseteq {s[i] : i \in 1 .. b}
        /\ Len(SubSeq(s, 1, b)) = IF 1 <= b THEN b - 1 + 1 ELSE 0
    BY <1>4, <1>5, <2>a, GoodSub, Zenon
  <2>4. {s[i] : i \in 1 .. b} \subseteq Elements(s) BY <2>1, <2>2, ElementsSub
  <2>5. Len(SubSeq(s, 1, b)) = b BY <2>3
  <2> QED BY <2>2, <2>3, <2>4, <2>5, Zenon
<1>6. PICK r : r = SubSeq(S.rows, 1, Least(k, Len(S.rows))) OBVIOUS
<1>7. PICK h : h = SubSeq(S.hist[S.cache], 1, Least(k, Len(S.hist[S.cache]))) OBVIOUS
<1>8. PICK c \in Nat : c = Least(k, Len(S.rows)) BY <1>4, <1>5
<1>9. /\ Good(r, summaries, made) /\ Good(h, summaries, made)
      /\ Elements(r) \subseteq Elements(store.rows) /\ c = Len(r)
  BY <1>4, <1>5, <1>6, <1>7, <1>8, Zenon
<1>10. Tight(Got(store)) => h = r /\ c = Len(r)
  BY <1>3, <1>6, <1>7, <1>9, Zenon DEF Tight
<1>11. ok => store' = Rewrite(Got(store), r, c, h)
  BY <1>1, <1>3, <1>6, <1>7, <1>8, Zenon DEF Truncated, Rewrite
<1>12. ~ok => StoreInv(store', summaries, made) /\ store'.live /\ store'.rows = store.rows
  BY <1>1, <1>3, <1>4
<1> QED BY <1>0, <1>1, <1>2, <1>9, <1>10, <1>11, <1>12, EditKeeps

LEMMA EraseKeeps == ASSUME Inv, NEW by, NEW x \in Msgs, Erase(by, x) PROVE Inv'
<1>0. store.live BY DEF Erase
<1>1. PICK S : S = Got(store) OBVIOUS
<1>2. PICK h : h = Kept(by, x, S.hist[S.cache]) OBVIOUS
<1>3. PICK r : r = Kept(by, x, S.rows) OBVIOUS
<1>4. PICK M : M = [S EXCEPT !.hist[S.cache] = h] OBVIOUS
<1>5. PICK ok \in BOOLEAN :
        Commit(ok) /\ store' = IF ok THEN [M EXCEPT !.rows = Kept(by, x, @),
                                                   !.column = Len(M.hist[S.cache])]
                                     ELSE M
  BY <1>1, <1>2, <1>4, Zenon DEF Erase
<1>6. /\ removed' = removed \cup (Elements(store.rows) \ Elements(store'.rows))
      /\ UNCHANGED <<made, otherVars>>
  BY DEF Erase
<1>7. /\ StoreInv(S, summaries, made) /\ S.live /\ S.rows = store.rows /\ S.cache \in Objs
      /\ Good(S.rows, summaries, made) /\ Good(S.hist[S.cache], summaries, made)
      /\ made \in Nat /\ S \in Stores
  BY <1>0, <1>1, GotFacts, StoreFacts
<1>8. /\ Good(r, summaries, made) /\ Good(h, summaries, made)
      /\ Elements(r) \subseteq Elements(store.rows)
  BY <1>2, <1>3, <1>7, GoodKept, Zenon
<1>9. h \in Seq(Msgs) BY <1>8 DEF Good
<1>10. /\ M \in Stores /\ M.live /\ M.rows = S.rows /\ M.cache = S.cache
       /\ M.hist = [S.hist EXCEPT ![S.cache] = h] /\ M.column = S.column
       /\ M.hist[S.cache] = h
       /\ \A o \in Objs : M.hist[o] = IF o = S.cache THEN h ELSE S.hist[o]
  BY <1>4, <1>7, <1>9 DEF Stores
<1>11. PICK c \in Nat : c = Len(h) BY <1>9
<1>12. ok => store' = Rewrite(Got(store), r, c, h)
  <2> SUFFICES ASSUME ok PROVE store' = Rewrite(S, r, c, h) BY <1>1
  <2>1. store' = [M EXCEPT !.rows = Kept(by, x, M.rows), !.column = Len(M.hist[S.cache])]
    BY <1>5
  <2>2. store' = [M EXCEPT !.rows = r, !.column = c] BY <1>3, <1>10, <1>11, <2>1
  <2>3. [M EXCEPT !.rows = r, !.column = c] = Rewrite(S, r, c, h)
    BY <1>4, <1>7, <1>9 DEF Rewrite, Stores
  <2> QED BY <2>2, <2>3
<1>13. StoreInv(M, summaries, made) BY <1>7, <1>8, <1>10 DEF StoreInv
<1>14. ~ok => StoreInv(store', summaries, made) /\ store'.live /\ store'.rows = store.rows
  BY <1>5, <1>7, <1>10, <1>13
<1>15. Tight(Got(store)) => h = r /\ c = Len(r)
  BY <1>1, <1>2, <1>3, <1>11, Zenon DEF Tight
<1> QED BY <1>0, <1>5, <1>6, <1>8, <1>12, <1>14, <1>15, EditKeeps

LEMMA CompactBeginKeeps == ASSUME Inv, CompactBegin PROVE Inv'
<1>0. store.live BY DEF CompactBegin
<1>1. PICK S : S = Got(store) OBVIOUS
<1>2. PICK h : h = S.hist[S.cache] OBVIOUS
<1>3. PICK l : l = Len(h) OBVIOUS
<1>4. /\ store' = S /\ l >= MinHistory
      /\ compact' = [base |-> h, older |-> {h[i] : i \in 1..(l - RecentKeep)},
                      recent |-> Recent(h)]
      /\ UNCHANGED <<made, summaries, phase, held, context, active, faults,
                      healthy, overtaken, removed, threads, deleting, reread, loading, loaded>>
  BY <1>1, <1>2, <1>3, Zenon DEF CompactBegin, turnVars, threads, load
<1>5. /\ StoreInv(S, summaries, made) /\ S.live /\ S.rows = store.rows /\ S.cache \in Objs
      /\ S.column = store.column
      /\ Good(h, summaries, made) /\ made \in Nat
      /\ healthy /\ ~deleting => Tight(S)
      /\ healthy => h = store.rows
  BY <1>0, <1>1, <1>2, GotFacts, StoreFacts
<1>6. h \in Seq(Msgs) /\ l \in Nat /\ DOMAIN h = 1 .. l BY <1>3, <1>5 DEF Good
<1>7. Good(Recent(h), summaries, made)
  <2>1. PICK a \in Nat \ {0} : a = l - RecentKeep + 1 BY <1>4, <1>6, ConstantFacts
  <2>2. Good(SubSeq(h, a, l), summaries, made) BY <1>3, <1>5, <1>6, <2>1, GoodSub
  <2> QED BY <1>3, <2>1, <2>2, Zenon DEF Recent
<1>8. compact' \in [base : Seq(Msgs), older : SUBSET Msgs, recent : Seq(Msgs)]
  <2>1. Recent(h) \in Seq(Msgs) BY <1>7 DEF Good
  <2>2. \A i \in 1..(l - RecentKeep) : i \in DOMAIN h BY <1>4, <1>6, ConstantFacts
  <2>3. {h[i] : i \in 1..(l - RecentKeep)} \in SUBSET Msgs BY <1>6, <2>2
  <2> QED BY <1>4, <1>6, <2>1, <2>3
<1>9. TypeRest' BY <1>4, <1>8 DEF Inv, TypeRest, HeldType
<1>10. HeldOpen' BY <1>4 DEF Inv, HeldOpen
<1>11. CompactInv'
  <2>1. /\ compact'.base = h /\ compact'.recent = Recent(h)
        /\ compact'.older = {h[i] : i \in 1..(l - RecentKeep)}
    BY <1>4
  <2> QED BY <1>3, <1>4, <1>7, <2>1 DEF CompactInv
<1>12. RemovedInv' BY <1>4, <1>5 DEF Inv, RemovedInv, Ghost
<1>13. SyncInv'
  <2>1. healthy /\ ~deleting => InSync(S)
    <3> SUFFICES ASSUME healthy, ~deleting PROVE InSync(S) OBVIOUS
    <3> QED BY <1>5, TightInSync
  <2>2. healthy /\ ~deleting => InSync(store)' BY <1>4, <2>1, Zenon DEF InSync
  <2>3. healthy => Whole(store)' BY <1>2, <1>4, <1>5 DEF Whole
  <2>4. SyncInv BY DEF Inv
  <2> QED BY <1>4, <1>5, <2>2, <2>3, <2>4, Zenon DEF SyncInv
<1>14. ThreadInv' BY <1>0, <1>4, <1>5, ThreadKeeps
<1> QED BY <1>4, <1>5, <1>9, <1>10, <1>11, <1>12, <1>13, <1>14 DEF Inv

LEMMA CompactEndKeeps ==
  ASSUME Inv, CompactEnd
  PROVE  Inv' /\ (~overtaken' /\ healthy => Dropped \subseteq compact.older)
<1>0. TypeRest /\ store.live /\ Make /\ Compacting BY DEF Inv, CompactEnd
<1>m. /\ made \in Nat /\ made' = made + 1 /\ New = made + 1 /\ made + 1 \in Msgs
      /\ made' \in 0..MaxMsgs /\ made' \in Nat /\ made <= made'
  BY <1>0, MakeFacts
<1>1. PICK S : S = Got(store) OBVIOUS
<1>2. PICK recent : recent = compact.recent OBVIOUS
<1>3. PICK base : base = compact.base OBVIOUS
<1>4. PICK new : new = <<made + 1>> \o recent OBVIOUS
<1>5. PICK ok \in BOOLEAN :
        /\ Commit(ok)
        /\ store' = IF ok THEN Replaced(S, new) ELSE S
        /\ overtaken' = (overtaken \/ (ok /\ S.hist[S.cache] # base))
  BY <1>1, <1>2, <1>3, <1>4, <1>m, Zenon DEF CompactEnd
<1>6. /\ summaries' = summaries \cup {made + 1}
      /\ compact' = NoCompaction
      /\ UNCHANGED <<phase, held, context, active, removed>>
  BY <1>m DEF CompactEnd, turnVars
<1>7. /\ StoreInv(S, summaries, made) /\ S.live /\ S.rows = store.rows /\ S.cache \in Objs
      /\ healthy /\ ok => Tight(S)
      /\ faults = 0 => healthy
      /\ S \in Stores
  BY <1>0, <1>1, <1>5, GotFacts, CommitFacts
<1>8. /\ base \in Seq(Msgs) /\ Len(base) \in Nat /\ Len(base) >= MinHistory
      /\ compact.older = {base[i] : i \in 1 .. Len(base) - RecentKeep}
      /\ recent = Recent(base) /\ Good(recent, summaries, made)
  <2>1. base \in Seq(Msgs) BY <1>0, <1>3 DEF TypeRest
  <2>2. CompactInv BY DEF Inv
  <2>3. /\ Len(base) >= MinHistory /\ recent = Recent(base) /\ Good(recent, summaries, made)
        /\ compact.older = {base[i] : i \in 1 .. Len(base) - RecentKeep}
    BY <1>0, <1>2, <1>3, <2>2, Zenon DEF CompactInv
  <2> QED BY <2>1, <2>3
<1>9. /\ Good(new, summaries', made')
      /\ Elements(new) = {made + 1} \cup Elements(recent)
  <2>1. PICK m : m = made + 1 OBVIOUS
  <2>2. PICK sm : sm = summaries \cup {m} OBVIOUS
  <2>3. m \in Msgs /\ m \in Nat /\ summaries \subseteq sm /\ made <= m BY <1>m, <2>1, <2>2
  <2>4. Good(recent, sm, m) BY <1>8, <1>m, <2>3, GoodGrows
  <2>5. PICK o : o = <<m>> OBVIOUS
  <2>6. Good(o, sm, m) /\ Elements(o) = {m} /\ DOMAIN o = {1} /\ o[1] = m
    BY <2>3, <2>5, GoodOne
  <2>7. \A i \in DOMAIN o, j \in DOMAIN recent :
          o[i] < recent[j] \/ (o[i] \in sm /\ o[i] # recent[j])
    <3>1. \A j \in DOMAIN recent : recent[j] \in Nat /\ recent[j] <= made
      BY <1>8, ConstantFacts DEF Good
    <3> QED BY <1>m, <2>1, <2>2, <2>6, <3>1
  <2>8. Good(o \o recent, sm, m) /\ Elements(o \o recent) = Elements(o) \cup Elements(recent)
    BY <2>3, <2>4, <2>6, <2>7, GoodConcat
  <2> QED BY <1>4, <1>6, <1>m, <2>1, <2>2, <2>5, <2>6, <2>8, Zenon
<1>n. new \in Seq(Msgs) /\ Len(new) \in Nat BY <1>9 DEF Good
<1>10. /\ StoreInv(store', summaries', made') /\ store'.live
       /\ ok => /\ store'.rows = new /\ store'.column = Len(new)
                /\ healthy => InSync(store')
       /\ ~ok => store'.rows = store.rows
  <2>1. CASE ok
    <3>1. store' = Rewrite(S, new, Len(new), new) BY <1>5, <2>1, Zenon DEF Replaced, Rewrite
    <3>2. Rewritten(store', S, summaries', made', new, Len(new), new)
      <4>1. PICK sm, n : sm = summaries' /\ n = made' OBVIOUS
      <4>2. /\ summaries \subseteq sm /\ Good(new, sm, n) /\ n \in Nat /\ made <= n
            /\ made \in Nat /\ S.live /\ S.cache \in Objs /\ Len(new) \in Nat
            /\ StoreInv(S, summaries, made)
        <5>1. summaries \subseteq summaries' BY <1>6
        <5> QED BY <1>7, <1>9, <1>m, <1>n, <4>1, <5>1, Zenon
      <4>3. Rewritten(Rewrite(S, new, Len(new), new), S, sm, n, new, Len(new), new)
        BY <4>2, RewrittenKeeps
      <4> QED BY <3>1, <4>1, <4>3, Zenon
    <3>3. /\ StoreInv(store', summaries', made') /\ store'.live /\ store'.rows = new
          /\ store'.column = Len(new)
      BY <3>2 DEF Rewritten
    <3>4. healthy => InSync(store')
      <4> SUFFICES ASSUME healthy PROVE InSync(store') OBVIOUS
      <4>1. PICK A : A = store' OBVIOUS
      <4>2. PICK sm, n : sm = summaries' /\ n = made' OBVIOUS
      <4>3. Rewritten(A, S, sm, n, new, Len(new), new) /\ Tight(S)
        BY <1>7, <2>1, <3>2, <4>1, <4>2, Zenon
      <4>4. InSync(A) BY <4>3, RewrittenSync, Zenon
      <4> QED BY <4>1, <4>4, Zenon
    <3> QED BY <2>1, <3>3, <3>4, Zenon
  <2>2. CASE ~ok
    <3>1. store' = S BY <1>5, <2>2
    <3>2. StoreInv(S, summaries', made') BY <1>6, <1>7, <1>m, StoreGrows
    <3> QED BY <1>7, <2>2, <3>1, <3>2, Zenon
  <2> QED BY <2>1, <2>2
<1>11. healthy /\ ok => InSync(store)' BY <1>6, <1>10, Zenon DEF InSync
<1>12. TypeRest'
  <2>1. <<>> \in Seq(Msgs) /\ {} \in SUBSET Msgs OBVIOUS
  <2>2. compact' \in [base : Seq(Msgs), older : SUBSET Msgs, recent : Seq(Msgs)]
    BY <1>6, <2>1 DEF NoCompaction
  <2>3. summaries' \subseteq Msgs BY <1>0, <1>6, <1>m DEF TypeRest
  <2>4. overtaken' \in BOOLEAN /\ UNCHANGED <<deleting, reread, loading>>
    BY <1>0, <1>5, CommitFacts
  <2>5. faults' \in 0..MaxFaults /\ healthy' \in BOOLEAN BY <1>0, <1>5, CommitFacts
  <2> QED BY <1>0, <1>6, <1>m, <2>2, <2>3, <2>4, <2>5, Zenon DEF TypeRest, HeldType
<1>13. HeldOpen' BY <1>6 DEF Inv, HeldOpen
<1>14. CompactInv'
  <2>1. Good(<<>>, summaries', made') BY <1>m, GoodEmpty
  <2> QED BY <1>6, <2>1 DEF CompactInv, Compacting, NoCompaction
<1>a. PICK a : a = Len(base) - RecentKeep + 1 OBVIOUS
<1>15. a \in Nat \ {0} /\ a = Len(base) - RecentKeep + 1 /\ a <= Len(base)
  BY <1>8, <1>a, ConstantFacts
<1>16. recent = SubSeq(base, a, Len(base)) BY <1>8, <1>15, Zenon DEF Recent
<1>17. Elements(recent) \subseteq Elements(base)
  BY <1>8, <1>15, <1>16, SubSeqProperties DEF Elements
<1>18. ASSUME ~overtaken', healthy, ok PROVE base = store.rows
  <2>1. S.hist[S.cache] = base BY <1>5, <1>18, Zenon
  <2> QED BY <1>7, <1>18, <2>1 DEF Tight
<1>19. RemovedInv'
  <2>1. removed' \subseteq 1 .. made' /\ made + 1 \notin removed
    BY <1>6, <1>m DEF Inv, RemovedInv
  <2>5. ~Ghost' BY <1>10 DEF Ghost
  <2> SUFFICES ASSUME faults' = 0, ~overtaken' PROVE removed' \cap Elements(store'.rows) = {}
    BY <2>1, <2>5 DEF RemovedInv
  <2>2. faults = 0 /\ ok /\ healthy BY <1>0, <1>5, <1>7, CommitFacts
  <2>3. ~overtaken BY <1>5, Zenon
  <2>4. Elements(store'.rows) \subseteq Elements(store.rows) \cup {made + 1}
    BY <1>9, <1>10, <1>17, <1>18, <2>2
  <2> QED BY <1>6, <2>1, <2>2, <2>3, <2>4 DEF Inv, RemovedInv
<1>t. ThreadInv' BY <1>0, <1>5, <1>6, <1>10, <1>m, CommitFacts, ThreadKeeps
<1>c. ok /\ faults = 0 => store'.column = Len(store'.rows) BY <1>10
<1>20. Inv' BY <1>5, <1>10, <1>11, <1>12, <1>13, <1>14, <1>19, <1>t, <1>c, StepSuffices
<1>21. ASSUME ~overtaken', healthy PROVE Dropped \subseteq compact.older
  <2>1. CASE ~ok BY <1>10, <2>1 DEF Dropped
  <2>2. CASE ok
    <3>1. base = store.rows /\ store'.rows = new BY <1>10, <1>18, <1>21, <2>2
    <3> SUFFICES ASSUME NEW i \in DOMAIN base, base[i] \notin Elements(new)
                 PROVE  base[i] \in compact.older
      BY <3>1 DEF Dropped, Elements
    <3>2. i \in 1 .. Len(base) BY <1>8
    <3>3. CASE i < a
      <4>1. i \in 1 .. Len(base) - RecentKeep BY <1>8, <1>15, <3>2, <3>3, ConstantFacts
      <4> QED BY <1>8, <4>1
    <3>4. CASE ~(i < a)
      <4>j. PICK j : j = i - a + 1 OBVIOUS
      <4>1. j \in Nat /\ i = a + j - 1 /\ j \in 1 .. Len(base) - a + 1
        BY <1>8, <1>15, <3>2, <3>4, <4>j
      <4>2. j \in DOMAIN recent /\ recent[j] = base[i]
        <5>1. /\ Len(recent) = Len(base) - a + 1
              /\ \A q \in 1 .. Len(base) - a + 1 : recent[q] = base[a + q - 1]
          BY <1>8, <1>15, <1>16, SubSeqProperties
        <5>2. DOMAIN recent = 1 .. Len(recent) BY <1>8 DEF Good
        <5> QED BY <4>1, <5>1, <5>2
      <4> QED BY <1>9, <4>2 DEF Elements
    <3> QED BY <3>3, <3>4
  <2> QED BY <2>1, <2>2
<1> QED BY <1>20, <1>21

LEMMA CompactFailKeeps == ASSUME Inv, CompactFail PROVE Inv'
<1>1. /\ compact' = NoCompaction
      /\ UNCHANGED <<store, made, summaries, phase, held, context, active, faults,
                     healthy, overtaken, removed, threads, deleting, reread, loading, loaded>>
  BY DEF CompactFail, turnVars, threads, load
<1>2. TypeRest'
  <2>1. <<>> \in Seq(Msgs) /\ {} \in SUBSET Msgs OBVIOUS
  <2>2. compact' \in [base : Seq(Msgs), older : SUBSET Msgs, recent : Seq(Msgs)]
    BY <1>1, <2>1 DEF NoCompaction
  <2> QED BY <1>1, <2>2 DEF Inv, TypeRest, HeldType
<1>3. CompactInv'
  <2>1. Good(<<>>, summaries', made') BY <1>1, StoreFacts, GoodEmpty
  <2> QED BY <1>1, <2>1 DEF CompactInv, Compacting, NoCompaction
<1>4. HeldOpen' /\ SyncInv' /\ RemovedInv' /\ ThreadInv'
  BY <1>1 DEF Inv, HeldOpen, SyncInv, InSync, RemovedInv, ThreadInv, Ghost
<1> QED BY <1>1, <1>2, <1>3, <1>4 DEF Inv

LEMMA DeletedFacts ==
  ASSUME NEW S \in Stores
  PROVE  /\ Deleted(S) \in Stores /\ ~Deleted(S).live /\ Deleted(S).rows = <<>>
         /\ Deleted(S).column = 0 /\ Deleted(S).cache = S.cache /\ Deleted(S).hist = S.hist
<1>1. <<>> \in Seq(Msgs) OBVIOUS
<1> QED BY <1>1 DEF Deleted, Stores

\* The session goes.
LEMMA GoneKeeps ==
  ASSUME Inv, StoreInv(store', summaries, made), ~store'.live, store'.rows = <<>>,
         store'.column = 0, TypeRest', ThreadInv', RemovedInv',
         UNCHANGED <<made, otherVars, faults, healthy>>
  PROVE  Inv'
<1>1. UNCHANGED <<made, summaries, phase, held, context, active, compact, overtaken,
                  faults, healthy>>
  BY DEF otherVars, turnVars
<1>2. HeldOpen' BY <1>1 DEF Inv, HeldOpen
<1>3. CompactInv' BY <1>1 DEF Inv, CompactInv, Compacting
<1>4. SyncInv' BY <1>1 DEF Inv, SyncInv
<1> QED BY <1>1, <1>2, <1>3, <1>4 DEF Inv

LEMMA DeletePopKeeps == ASSUME Inv, DeletePop PROVE Inv'
<1>1. /\ store' = [store EXCEPT !.cache = NoObj] /\ deleting' = store.live
      /\ UNCHANGED <<made, summaries, phase, held, context, active, compact, overtaken,
                     faults, healthy, removed, reread, loading, loaded>>
  BY DEF DeletePop, otherVars, turnVars, load
<1>2. /\ store' \in Stores /\ store'.live = store.live /\ store'.rows = store.rows
      /\ store'.cache = NoObj /\ store'.column = store.column /\ store'.hist = store.hist
  BY <1>1, StoreFacts DEF Stores
<1>3. StoreInv(store', summaries, made) BY <1>2, StoreFacts DEF StoreInv
<1>4. TypeRest' BY <1>1, <1>2, StoreFacts DEF Inv, TypeRest, HeldType, Stores
<1>5. HeldOpen' BY <1>1 DEF Inv, HeldOpen
<1>6. CompactInv' BY <1>1 DEF Inv, CompactInv, Compacting
<1>7. SyncInv' BY <1>1, <1>2 DEF Inv, SyncInv, Whole
<1>8. RemovedInv' BY <1>1, <1>2 DEF Inv, RemovedInv, Ghost
<1>9. ThreadInv' BY <1>1, <1>2 DEF Inv, ThreadInv, Ghost
<1> QED BY <1>1, <1>3, <1>4, <1>5, <1>6, <1>7, <1>8, <1>9 DEF Inv

LEMMA DeleteCommitKeeps == ASSUME Inv, DeleteCommit PROVE Inv'
<1>0. TypeRest /\ store.live BY DEF Inv, ThreadInv, DeleteCommit
<1>1. PICK ok \in BOOLEAN :
        /\ Attempt(ok) /\ store' = IF ok THEN Deleted(store) ELSE store
        /\ reread' = (reread \/ (ok /\ store.cache # NoObj))
  BY DEF DeleteCommit
<1>2. /\ UNCHANGED <<made, otherVars>>
      /\ UNCHANGED <<made, summaries, phase, held, context, active, compact, overtaken,
                     removed, loading, loaded>>
      /\ deleting' = FALSE
  BY DEF DeleteCommit, otherVars, turnVars, load
<1>3. /\ faults' \in 0..MaxFaults /\ healthy' \in BOOLEAN
      /\ ok => faults' = faults /\ healthy' = healthy
      /\ ~ok => healthy' = FALSE /\ faults' # 0
  BY <1>0, <1>1, AttemptFacts
<1>4. TypeRest'
  <2>1. reread' \in BOOLEAN BY <1>0, <1>1 DEF TypeRest
  <2> QED BY <1>0, <1>2, <1>3, <2>1 DEF TypeRest, HeldType
<1>5. CASE ok
  <2>1. /\ store' \in Stores /\ ~store'.live /\ store'.rows = <<>>
        /\ store'.column = 0 /\ store'.cache = store.cache /\ store'.hist = store.hist
    BY <1>1, <1>5, StoreFacts, DeletedFacts
  <2>2. StoreInv(store', summaries, made)
    BY <2>1, StoreFacts, GoodEmpty DEF StoreInv
  <2>3. ThreadInv' BY <1>1, <1>2, <1>5, <2>1 DEF Inv, ThreadInv, Ghost
  <2>4. RemovedInv'
    <3> SUFFICES ASSUME faults = 0, ~overtaken, store.cache # NoObj
                 PROVE  removed \cap Elements(store.hist[store.cache]) = {}
      <4>1. Elements(<<>>) = {} BY DEF Elements
      <4> QED BY <1>2, <1>3, <1>5, <2>1, <4>1 DEF Inv, RemovedInv, Ghost
    <3>1. store.hist[store.cache] \in {store.rows, <<>>} BY <1>0 DEF Inv, SyncInv, Whole
    <3>2. removed \cap Elements(store.rows) = {} BY DEF Inv, RemovedInv
    <3>3. Elements(<<>>) = {} BY DEF Elements
    <3> QED BY <3>1, <3>2, <3>3
  <2> QED BY <1>2, <1>3, <1>4, <1>5, <2>1, <2>2, <2>3, <2>4, GoneKeeps
<1>6. CASE ~ok
  <2>1. store' = store /\ healthy' = FALSE /\ faults' # 0 /\ reread' = reread
    BY <1>0, <1>1, <1>3, <1>6 DEF TypeRest
  <2>2. HeldOpen' /\ CompactInv' /\ SyncInv'
    BY <1>2, <2>1 DEF Inv, HeldOpen, CompactInv, Compacting, SyncInv
  <2>3. RemovedInv' /\ ThreadInv'
    BY <1>0, <1>2, <2>1 DEF Inv, RemovedInv, ThreadInv, Ghost
  <2> QED BY <1>2, <1>4, <2>1, <2>2, <2>3 DEF Inv
<1> QED BY <1>5, <1>6

LEMMA LoadReadKeeps == ASSUME Inv, LoadRead PROVE Inv'
<1>1. /\ loading' = TRUE /\ loaded' = store.rows
      /\ UNCHANGED <<store, made, summaries, phase, held, context, active, compact,
                     overtaken, faults, healthy, removed, deleting, reread>>
  BY DEF LoadRead, otherVars, turnVars
<1>2. TypeRest' BY <1>1 DEF Inv, TypeRest, HeldType
<1>3. HeldOpen' /\ CompactInv' /\ SyncInv'
  BY <1>1 DEF Inv, HeldOpen, CompactInv, Compacting, SyncInv, InSync
<1>4. RemovedInv' /\ ThreadInv'
  BY <1>1 DEF Inv, StoreInv, RemovedInv, ThreadInv, Ghost
<1> QED BY <1>1, <1>2, <1>3, <1>4 DEF Inv

LEMMA LoadInstallKeeps == ASSUME Inv, LoadInstall PROVE Inv'
<1>0. /\ TypeRest /\ HeldType /\ Good(loaded, summaries, made) /\ loaded \in Seq(Msgs)
      /\ store \in Stores /\ made \in Nat /\ StoreInv(store, summaries, made)
  BY StoreFacts DEF Inv, ThreadInv, Good
<1>1. PICK ok \in BOOLEAN : ok = (loaded = store.rows /\ Short(store)) OBVIOUS
<1>2. /\ Attempt(ok)
      /\ store' = Installed(store, loaded)
      /\ reread' = (reread \/ ~store.live)
      /\ loading' = FALSE /\ loaded' = <<>>
      /\ UNCHANGED <<made, summaries, phase, held, context, active, compact,
                     overtaken, removed, deleting>>
  BY <1>1 DEF LoadInstall, otherVars, turnVars
<1>3. /\ faults' \in 0..MaxFaults /\ healthy' \in BOOLEAN
      /\ healthy' => healthy /\ ok
      /\ faults' = 0 => faults = 0 /\ ok /\ healthy' = healthy
  BY <1>0, <1>2, AttemptFacts
<1>4. /\ store' \in Stores /\ store'.live = store.live /\ store'.rows = store.rows
      /\ store'.column = store.column /\ store'.cache = Fresh
      /\ \A o \in Objs : store'.hist[o] = IF o = Fresh THEN loaded
                                           ELSE IF o \in HeldBy(Turns) THEN store.hist[o]
                                           ELSE <<>>
  BY <1>0, <1>2, InstalledFacts
<1>f. Fresh \in Objs /\ Fresh # NoObj BY <1>0, FreshFacts, ConstantFacts
<1>5. StoreInv(store', summaries, made)
  <2>1. \A o \in Objs : Good(store'.hist[o], summaries, made)
    BY <1>0, <1>4, GoodEmpty DEF StoreInv
  <2> QED BY <1>0, <1>4, <2>1 DEF StoreInv
<1>6. TypeRest'
  <2>1. reread' \in BOOLEAN /\ loading' \in BOOLEAN
    BY <1>0, <1>2 DEF TypeRest, StoreInv, Stores
  <2> QED BY <1>0, <1>2, <1>3, <2>1 DEF TypeRest, HeldType
<1>7. HeldOpen' BY <1>2 DEF Inv, HeldOpen
<1>8. CompactInv' BY <1>2 DEF Inv, CompactInv, Compacting
<1>9. store'.hist[store'.cache] = loaded BY <1>4, <1>f
<1>10. SyncInv'
  <2>1. ASSUME healthy', store.live
        PROVE  Whole(store') /\ (deleting \/ InSync(store)')
    <3>1. loaded = store.rows /\ Short(store) /\ healthy BY <1>1, <1>3, <2>1
    <3>2. Whole(store') BY <1>4, <1>9, <3>1 DEF Whole
    <3>3. ASSUME InSync(store), NEW t \in Turns, held[t] # NoObj PROVE FALSE
      <4>1. held[t] = store.cache /\ store.hist[store.cache] = store.rows
        BY <3>3 DEF InSync
      <4>2. Len(store.rows) \in Nat BY StoreFacts
      <4> QED BY <3>1, <3>3, <4>1, <4>2 DEF Short
    <3>4. deleting \/ InSync(store)' BY <1>2, <2>1, <3>1, <3>2, <3>3 DEF Inv, SyncInv, InSync
    <3> QED BY <3>2, <3>4
  <2>2. faults' = 0 => healthy' /\ store'.column = Len(store'.rows)
    BY <1>3, <1>4 DEF Inv, SyncInv
  <2> QED BY <1>2, <1>4, <2>1, <2>2 DEF SyncInv
<1>11. RemovedInv'
  <2>1. faults' = 0 => faults = 0 /\ loaded = store.rows BY <1>1, <1>3
  <2> QED BY <1>2, <1>4, <1>9, <2>1 DEF Inv, RemovedInv
<1>12. ThreadInv'
  <2>1. Good(<<>>, summaries, made) BY <1>0, GoodEmpty
  <2> QED BY <1>2, <1>4, <2>1 DEF Inv, ThreadInv, Ghost
<1> QED BY <1>2, <1>5, <1>6, <1>7, <1>8, <1>10, <1>11, <1>12 DEF Inv

LEMMA CleanupKeeps ==
  ASSUME Inv, Cleanup
  PROVE  Inv' /\ (faults = 0 => Len(store.rows) < KeepLong)
<1>1. /\ store.live /\ ~deleting /\ store.column < KeepLong
      /\ store' = [Deleted(store) EXCEPT !.cache = NoObj]
      /\ UNCHANGED <<made, otherVars, faults, healthy>>
      /\ UNCHANGED <<made, summaries, phase, held, context, active, compact,
                     overtaken, faults, healthy, removed, deleting, reread, loading, loaded>>
  BY DEF Cleanup, otherVars, turnVars, threads, load
<1>2. /\ store' \in Stores /\ ~store'.live /\ store'.rows = <<>>
      /\ store'.column = 0 /\ store'.cache = NoObj /\ store'.hist = store.hist
  <2>1. PICK D : D = Deleted(store) OBVIOUS
  <2>2. D \in Stores /\ ~D.live /\ D.rows = <<>> /\ D.column = 0 /\ D.hist = store.hist
    BY <2>1, StoreFacts, DeletedFacts
  <2> QED BY <1>1, <2>1, <2>2 DEF Stores
<1>3. StoreInv(store', summaries, made) BY <1>2, StoreFacts, GoodEmpty DEF StoreInv
<1>4. TypeRest' BY <1>1 DEF Inv, TypeRest, HeldType
<1>5. ThreadInv' BY <1>1, <1>2 DEF Inv, ThreadInv, Ghost
<1>6. RemovedInv'
  <2>1. Elements(<<>>) = {} BY DEF Elements
  <2> QED BY <1>1, <1>2, <2>1 DEF Inv, RemovedInv, Ghost
<1>7. Inv' BY <1>1, <1>2, <1>3, <1>4, <1>5, <1>6, GoneKeeps
<1> QED BY <1>1, <1>7 DEF Inv, SyncInv

LEMMA RestartKeeps == ASSUME Inv, Restart PROVE Inv'
<1>1. /\ phase'   = [t \in Turns |-> "idle"]
      /\ held'    = [t \in Turns |-> NoObj]
      /\ context' = [t \in Turns |-> <<>>]
      /\ active' = NoTurn /\ compact' = NoCompaction /\ healthy' = TRUE
      /\ deleting' = FALSE /\ loading' = FALSE /\ loaded' = <<>>
      /\ UNCHANGED <<made, summaries, faults, overtaken, removed, reread>>
  BY DEF Restart
<1>2. PICK o \in IF store.live /\ store.rows # <<>> THEN {NoObj, 1} ELSE {NoObj} :
        store' = [store EXCEPT !.cache = o, !.hist = [q \in Objs |-> <<>>]]
  BY DEF Restart
<1>3. o \in Objs \cup {NoObj} /\ (~store.live => o = NoObj) BY <1>2, ConstantFacts
<1>4. /\ store' \in Stores /\ store'.live = store.live /\ store'.rows = store.rows
      /\ store'.column = store.column /\ store'.cache = o
      /\ \A q \in Objs : store'.hist[q] = <<>>
  <2>1. PICK H : H = [q \in Objs |-> <<>>] OBVIOUS
  <2>2. H \in [Objs -> Seq(Msgs)] /\ \A q \in Objs : H[q] = <<>>
    <3>1. <<>> \in Seq(Msgs) OBVIOUS
    <3> QED BY <2>1, <3>1
  <2>3. store' = [store EXCEPT !.cache = o, !.hist = H] BY <1>2, <2>1
  <2> QED BY <1>3, <2>2, <2>3, StoreFacts DEF Stores
<1>5. StoreInv(store', summaries, made)
  BY <1>3, <1>4, StoreFacts, GoodEmpty DEF StoreInv
<1>6. TypeRest'
  <2>1. <<>> \in Seq(Msgs) /\ {} \in SUBSET Msgs OBVIOUS
  <2>2. compact' \in [base : Seq(Msgs), older : SUBSET Msgs, recent : Seq(Msgs)]
    BY <1>1, <2>1 DEF NoCompaction
  <2>3. context' \in [Turns -> Seq(Msgs)] BY <1>1, <2>1
  <2>4. HeldType' BY <1>1 DEF HeldType
  <2>5. phase' \in [Turns -> Phase] BY <1>1 DEF Phase
  <2> QED BY <1>1, <2>2, <2>3, <2>4, <2>5 DEF Inv, TypeRest
<1>7. HeldOpen' BY <1>1 DEF HeldOpen
<1>8. CompactInv'
  <2>1. Good(<<>>, summaries', made') BY <1>1, StoreFacts, GoodEmpty
  <2> QED BY <1>1, <2>1 DEF CompactInv, Compacting, NoCompaction
<1>9. SyncInv'
  <2>1. InSync(store)' BY <1>1, <1>3, <1>4 DEF InSync, Whole
  <2> QED BY <1>1, <1>4, <2>1 DEF Inv, SyncInv, InSync
<1>10. RemovedInv' BY <1>1, <1>3, <1>4 DEF Inv, RemovedInv, Ghost
<1>11. ThreadInv'
  <2>1. Good(<<>>, summaries', made') BY <1>1, StoreFacts, GoodEmpty
  <2> QED BY <1>1, <1>3, <1>4, <2>1 DEF ThreadInv, Ghost
<1> QED BY <1>1, <1>5, <1>6, <1>7, <1>8, <1>9, <1>10, <1>11 DEF Inv

-----------------------------------------------------------------------------
LEMMA InvStep == Inv /\ [Next]_vars => Inv'
<1> SUFFICES ASSUME Inv, [Next]_vars PROVE Inv' OBVIOUS
<1>1. CASE \E t \in Turns : TurnStep(t)
  <2>1. PICK t \in Turns : TurnStep(t) BY <1>1
  <2>2. CASE \E k \in 1..MaxSystem, p \in 0..MaxContext, d \in 0..1 : AutoCompact(t, k, p, d)
    BY <2>2, AutoCompactKeeps
  <2> QED BY <2>1, <2>2, OpenKeeps, AskKeeps, StartKeeps, AnswerKeeps, LeaveKeeps DEF TurnStep
<1>2. CASE Edit
  <2>1. CASE \E k \in 0..MaxMsgs : Truncate(k) BY <2>1, TruncateKeeps
  <2>2. CASE \E m \in Msgs : DeleteById(m) \/ DeleteByIndex(m)
    BY <2>2, EraseKeeps DEF DeleteById, DeleteByIndex
  <2> QED BY <1>2, <2>1, <2>2, PostKeeps, CleanupKeeps DEF Edit
<1>t. CASE ThreadStep
  BY <1>t, DeletePopKeeps, DeleteCommitKeeps, LoadReadKeeps, LoadInstallKeeps DEF ThreadStep
<1>3. CASE UNCHANGED vars
  <2>0. UNCHANGED <<store, made, summaries, phase, held, context, active, compact, faults,
                    healthy, overtaken, removed, deleting, reread, loading, loaded>>
    BY <1>3 DEF vars, threads, load
  <2>1. TypeRest' /\ HeldOpen' BY <2>0 DEF Inv, TypeRest, HeldType, HeldOpen
  <2>2. CompactInv' /\ SyncInv' /\ RemovedInv' /\ ThreadInv'
    BY <2>0 DEF Inv, CompactInv, Compacting, SyncInv, InSync, RemovedInv, ThreadInv, Ghost
  <2> QED BY <2>0, <2>1, <2>2 DEF Inv
<1> QED
  BY <1>1, <1>2, <1>3, <1>t, CompactBeginKeeps, CompactEndKeeps, CompactFailKeeps, RestartKeeps
  DEF Next

LEMMA Invariant == Spec => []Inv
<1> QED BY InvInit, InvStep, PTL DEF Spec

\* Every variable keeps its type.
THEOREM TypeCorrect == Spec => []TypeOK
<1> QED BY Invariant, InvTypes, PTL

\* The stored messages keep the order of their creation, through failed commits,
\* reloads, edits, compactions and restarts.
THEOREM RowsOrdered == Spec => []RowsInTurnOrder
<1>1. Inv => RowsInTurnOrder
  <2> SUFFICES ASSUME Inv PROVE RowsInTurnOrder OBVIOUS
  <2>1. Good(store.rows, summaries, made) BY DEF Inv, StoreInv
  <2> QED BY <2>1 DEF Good, RowsInTurnOrder
<1> QED BY <1>1, Invariant, PTL

\* What users removed comes back neither in the rows nor in the cached history, unless
\* something went wrong; into a deleted session nothing is ever stored, and only a
\* request that read it before the deletion's commit caches it again.
THEOREM RemovedGone == Spec => []RemovedStaysRemoved
<1>1. Inv /\ ~store.live => store.rows = <<>> /\ (store.cache # NoObj => reread)
  BY DEF Inv, StoreInv, ThreadInv, Ghost
<1>2. Inv => RemovedStaysRemoved
  <2> SUFFICES ASSUME Inv, faults = 0, ~overtaken
               PROVE  /\ removed \cap Elements(store.rows) = {}
                      /\ store.cache # NoObj =>
                           removed \cap Elements(store.hist[store.cache]) = {}
    BY <1>1 DEF RemovedStaysRemoved
  <2>1. removed \cap Elements(store.rows) = {} BY DEF Inv, RemovedInv
  <2>2. ASSUME store.cache # NoObj, store.live
        PROVE  removed \cap Elements(store.hist[store.cache]) = {}
    <3>1. store.hist[store.cache] \in {store.rows, <<>>}
      BY <2>2 DEF Inv, SyncInv, Whole
    <3>2. Elements(<<>>) = {} BY DEF Elements
    <3> QED BY <2>1, <3>1, <3>2
  <2> QED BY <2>1, <2>2 DEF Inv, RemovedInv, Ghost
<1> QED BY <1>2, Invariant, PTL

\* The model is sent the whole stored transcript, whichever requests edited, compacted
\* or reloaded the session since the turn fetched it.
THEOREM PromptsWhole == Spec => PromptIsWhole
<1>1. Inv /\ [Next]_vars =>
        [\A t \in Turns : Ask(t) /\ healthy' /\ store.live => context'[t] = store'.rows]_vars
  BY AskKeeps
<1> QED BY <1>1, Invariant, PTL DEF Spec, PromptIsWhole

\* The clean-up deletes no long session while no commit failed.
THEOREM LongKept == Spec => LongSessionsKept
<1>1. Inv /\ [Next]_vars => [Cleanup /\ faults = 0 => Len(store.rows) < KeepLong]_vars
  BY CleanupKeeps
<1> QED BY <1>1, Invariant, PTL DEF Spec, LongSessionsKept

\* A manual compaction drops only what its summary stands for.
THEOREM ManualExact == Spec => ManualSummarisesWhatItDrops
<1>1. Inv /\ [Next]_vars =>
        [CompactEnd /\ ~overtaken' /\ healthy => Dropped \subseteq compact.older]_vars
  BY CompactEndKeeps
<1> QED BY <1>1, Invariant, PTL DEF Spec, ManualSummarisesWhatItDrops
-----------------------------------------------------------------------------
(* The transcript as one list. *)

LEMMA CommitMaps ==
  ASSUME Inv, NEW ok \in BOOLEAN, Commit(ok)
  PROVE  /\ healthy' \in {healthy, FALSE}
         /\ ok => healthy' = healthy
         /\ ~ok => healthy' = FALSE
BY DEF Commit, Attempt, Inv, TypeRest

\* get_session changes nothing of it.
LEMMA SaysStep ==
  ASSUME Inv, Make, NEW ok \in BOOLEAN, Commit(ok), NEW S,
         StoreInv(S, summaries, made), S.live = store.live, S.rows = store.rows,
         NEW o \in Objs, store' = Added(S, o, New, ok)
  PROVE  OneList!Says /\ store'.live = store.live
<1>1. made \in Nat /\ made + 1 \in Msgs /\ made' = made + 1 BY MakeFacts DEF Inv
<1>2. AddedTo(store', S, summaries, made, o, ok)
  <2>1. AddedTo(Added(S, o, made + 1, ok), S, summaries, made, o, ok)
    BY <1>1, AddedKeeps, Zenon
  <2> QED BY <2>1, Zenon DEF New
<1>3. /\ store'.live = store.live
      /\ store'.rows = IF store.live /\ ok THEN Append(store.rows, made') ELSE store.rows
  BY <1>1, <1>2 DEF AddedTo
<1> QED BY <1>1, <1>3, CommitMaps DEF OneList!Says, OneList!Becomes, OneList!MayFail

LEMMA AskMaps == ASSUME Inv, NEW t \in Turns, Ask(t) PROVE OneList!Ask(t)
<1>1. PICK ok \in BOOLEAN : Commit(ok) /\ store' = Added(store, held[t], New, ok) BY DEF Ask
<1>2. held[t] \in Objs /\ Make BY DEF Inv, HeldOpen, Ask
<1>3. OneList!Says /\ store'.live = store.live BY <1>1, <1>2, StoreFacts, SaysStep
<1>4. healthy' /\ store.live => context'[t] = store'.rows BY AskKeeps
<1>5. context' = [context EXCEPT ![t] = context'[t]] /\ compact' = compact
  BY DEF Ask, Inv, TypeRest
<1> QED BY <1>3, <1>4, <1>5 DEF OneList!Ask

LEMMA ForgetsOne ==
  ASSUME Inv, NEW t \in Turns, context' = [context EXCEPT ![t] = <<>>] PROVE OneList!Forgets
BY DEF OneList!Forgets, Inv, TypeRest

LEMMA ForgetsNone == ASSUME Inv, context' = context PROVE OneList!Forgets
BY DEF OneList!Forgets, Inv, TypeRest

LEMMA AnswerMaps == ASSUME Inv, NEW t \in Turns, Answer(t) PROVE OneList!Post
<1>1. PICK ok \in BOOLEAN : Commit(ok) /\ store' = Added(store, held[t], New, ok) BY DEF Answer
<1>2. held[t] \in Objs /\ Make BY DEF Inv, HeldOpen, Answer
<1>3. OneList!Says /\ store'.live = store.live BY <1>1, <1>2, StoreFacts, SaysStep
<1>4. OneList!Forgets /\ compact' = compact BY ForgetsOne DEF Answer
<1> QED BY <1>3, <1>4 DEF OneList!Post

LEMMA PostMaps == ASSUME Inv, Post PROVE OneList!Post
<1>1. PICK ok \in BOOLEAN : Commit(ok) /\ store' = Added(Got(store), Got(store).cache, New, ok)
  BY DEF Post
<1>2. Make BY DEF Post
<1>3. OneList!Says /\ store'.live = store.live BY <1>1, <1>2, GotFacts, SaysStep
<1>4. OneList!Forgets /\ compact' = compact BY ForgetsNone DEF Post, otherVars, turnVars
<1> QED BY <1>3, <1>4 DEF OneList!Post

\* A request that replaces the list, or fails to.
LEMMA BecomesStep ==
  ASSUME Inv, NEW ok \in BOOLEAN, Commit(ok), NEW new,
         store'.rows = IF ok THEN new ELSE store.rows
  PROVE  OneList!Becomes(new)
BY CommitMaps DEF OneList!Becomes

LEMMA TruncateMaps == ASSUME Inv, NEW k \in 0..MaxMsgs, Truncate(k) PROVE OneList!Remove
<1>1. PICK ok \in BOOLEAN :
        Commit(ok) /\ store' = IF ok THEN Truncated(Got(store), k) ELSE Got(store)
  BY DEF Truncate
<1>2. /\ store.live /\ made' = made /\ context' = context /\ compact' = compact
  BY DEF Truncate, otherVars, turnVars
<1>3. PICK S : S = Got(store) OBVIOUS
<1>4. S \in Stores /\ S.live /\ S.rows = store.rows /\ S.cache \in Objs BY <1>2, <1>3, GotFacts
<1>5. PICK n \in 0..Len(store.rows) : n = Least(k, Len(store.rows))
  BY StoreFacts, ConstantFacts DEF Least
<1>6. /\ Truncated(S, k).rows = SubSeq(store.rows, 1, n)
      /\ Truncated(S, k).live
  BY <1>4, <1>5 DEF Truncated, Stores
<1>7. store'.rows = IF ok THEN SubSeq(store.rows, 1, n) ELSE store.rows
  BY <1>1, <1>3, <1>4, <1>6
<1>8. store'.live = store.live BY <1>1, <1>2, <1>3, <1>4, <1>6
<1>9. OneList!Becomes(SubSeq(store.rows, 1, n)) BY <1>1, <1>7, BecomesStep
<1>10. SubSeq(store.rows, 1, n) \in OneList!Prefixes BY DEF OneList!Prefixes
<1> QED BY <1>2, <1>8, <1>9, <1>10 DEF OneList!Remove

LEMMA KeptIsList ==
  ASSUME NEW s \in Seq(Msgs), NEW by \in {"id", "index"}, NEW x \in Msgs,
         by = "id" => x \in Elements(s), by = "index" => x \in DOMAIN s
  PROVE  \E i \in DOMAIN s : Kept(by, x, s) = SubSeq(s, 1, i - 1) \o SubSeq(s, i + 1, Len(s))
<1>1. CASE by = "index" BY <1>1 DEF Kept, DropAt
<1>2. CASE by = "id"
  <2>1. Place(s, x) \in DOMAIN s BY <1>2 DEF Place, Elements
  <2> QED BY <1>2, <2>1 DEF Kept, DropAt
<1> QED BY <1>1, <1>2

LEMMA EraseMaps ==
  ASSUME Inv, NEW by \in {"id", "index"}, NEW x \in Msgs, Erase(by, x),
         by = "id" => x \in Elements(store.rows), by = "index" => x \in DOMAIN store.rows
  PROVE  OneList!Remove
<1>0. /\ store.live /\ made' = made /\ context' = context /\ compact' = compact
  BY DEF Erase, otherVars, turnVars
<1>1. PICK S : S = Got(store) OBVIOUS
<1>2. PICK h : h = Kept(by, x, S.hist[S.cache]) OBVIOUS
<1>3. PICK M : M = [S EXCEPT !.hist[S.cache] = h] OBVIOUS
<1>4. PICK ok \in BOOLEAN :
        Commit(ok) /\ store' = IF ok THEN [M EXCEPT !.rows = Kept(by, x, @),
                                                   !.column = Len(M.hist[S.cache])]
                                     ELSE M
  BY <1>1, <1>2, <1>3, Zenon DEF Erase
<1>5. S \in Stores /\ S.live /\ S.rows = store.rows /\ S.cache \in Objs BY <1>0, <1>1, GotFacts
<1>6. DOMAIN M = DOMAIN S /\ M.rows = store.rows /\ M.live /\ DOMAIN M = {"live", "rows", "column", "cache", "hist"}
  BY <1>3, <1>5 DEF Stores
<1>7. /\ store'.rows = IF ok THEN Kept(by, x, store.rows) ELSE store.rows
      /\ store'.live = store.live
  BY <1>0, <1>4, <1>6
<1>8. OneList!Becomes(Kept(by, x, store.rows)) BY <1>4, <1>7, BecomesStep
<1>9. \E i \in DOMAIN store.rows : Kept(by, x, store.rows) = OneList!Without(i)
  BY StoreFacts, KeptIsList DEF OneList!Without
<1> QED BY <1>0, <1>7, <1>8, <1>9 DEF OneList!Remove

LEMMA AutoCompactMaps ==
  ASSUME Inv, NEW t \in Turns, NEW k \in 1..MaxSystem, NEW p \in 0..MaxContext, NEW d \in 0..1,
         AutoCompact(t, k, p, d)
  PROVE  OneList!Condense \/ OneList!Post
<1>0. /\ TypeRest /\ held[t] \in Objs /\ Make /\ (store.live \/ Ghost)
      /\ TailLeft(k + Len(context[t]) - Cardinality(Convo(t)) + Split(t, p, d),
                  store.hist[held[t]])
  BY DEF Inv, HeldOpen, AutoCompact, Known, Ghost
<1>m. made \in Nat /\ made' = made + 1 /\ New = made + 1 /\ made + 1 \in Msgs BY <1>0, MakeFacts
<1>1. PICK h : h = store.hist[held[t]] OBVIOUS
<1>i. PICK i \in 1..(Len(h) - 1), j \in 1..(Len(h) - 1) :
        /\ i <= j
        /\ SubSeq(h, 1, Least(k + Len(context[t]) - Cardinality(Convo(t)), Len(h)))
              \o <<made + 1>>
              \o SubSeq(h, k + Len(context[t]) - Cardinality(Convo(t)) + Split(t, p, d) + 1, Len(h))
            = SubSeq(h, 1, i) \o <<made + 1>> \o SubSeq(h, j + 1, Len(h))
  <2>1. k + Len(context[t]) - Cardinality(Convo(t)) + Split(t, p, d) < Len(store.hist[held[t]])
    BY <1>0 DEF TailLeft
  <2>2. PICK i \in 1..(Len(store.hist[held[t]]) - 1), j \in 1..(Len(store.hist[held[t]]) - 1) :
          /\ i <= j
          /\ SubSeq(store.hist[held[t]], 1, Least(k + Len(context[t]) - Cardinality(Convo(t)),
                                                 Len(store.hist[held[t]])))
                \o <<made + 1>>
                \o SubSeq(store.hist[held[t]],
                          k + Len(context[t]) - Cardinality(Convo(t)) + Split(t, p, d) + 1,
                          Len(store.hist[held[t]]))
              = SubSeq(store.hist[held[t]], 1, i) \o <<made + 1>>
                  \o SubSeq(store.hist[held[t]], j + 1, Len(store.hist[held[t]]))
    BY <1>0, <1>m, <2>1, AutoCompactNew, Zenon
  <2> QED BY <1>1, <2>2
<1>n. PICK new : new = SubSeq(h, 1, i) \o <<made + 1>> \o SubSeq(h, j + 1, Len(h)) OBVIOUS
<1>3. PICK ok \in BOOLEAN :
        /\ Commit(ok)
        /\ store' = IF ok /\ store.live
                    THEN Replaced(Got(store), new)
                    ELSE [Got(store) EXCEPT !.hist[held[t]] = new]
  BY <1>1, <1>i, <1>n, <1>m DEF AutoCompact
<1>4. context' = [context EXCEPT ![t] = <<>>] /\ compact' = compact BY DEF AutoCompact
<1>5. PICK S : S = Got(store) OBVIOUS
<1>6. S \in Stores /\ S.live = store.live /\ S.rows = store.rows /\ S.cache \in Objs
  BY <1>0, <1>5, GotFacts
<1>7. /\ store'.live = store.live /\ (ok /\ store.live => store'.rows = new)
      /\ ~store.live => store'.rows = store.rows
  BY <1>3, <1>5, <1>6 DEF Replaced, Stores
<1>8. ASSUME healthy', store.live
      PROVE  \E a, b \in 1..(Len(store.rows) - 1) :
               /\ a <= b
               /\ store'.rows = SubSeq(store.rows, 1, a) \o <<made'>>
                                  \o SubSeq(store.rows, b + 1, Len(store.rows))
  <2>1. healthy /\ ok /\ ~deleting BY <1>0, <1>3, <1>8, CommitFacts
  <2>2. h = store.rows
    BY <1>0, <1>1, <1>8, <2>1, ConstantFacts DEF Inv, SyncInv, InSync
  <2> QED BY <1>i, <1>n, <1>7, <1>8, <1>m, <2>1, <2>2
<1>9. OneList!Forgets /\ OneList!MayFail
  BY <1>3, <1>4, ForgetsOne, CommitMaps DEF OneList!MayFail
<1>10. CASE store.live BY <1>4, <1>7, <1>8, <1>9, <1>10, <1>m DEF OneList!Condense
<1>11. CASE ~store.live
  BY <1>4, <1>7, <1>9, <1>11, <1>m DEF OneList!Post, OneList!Says
<1> QED BY <1>10, <1>11

LEMMA CompactBeginMaps == ASSUME Inv, CompactBegin PROVE OneList!Read
<1>0. store.live /\ compact = NoCompaction BY DEF CompactBegin, Compacting
<1>1. PICK S : S = Got(store) OBVIOUS
<1>2. PICK h : h = S.hist[S.cache] OBVIOUS
<1>3. /\ store' = S /\ Len(h) >= MinHistory
      /\ compact' = [base |-> h, older |-> {h[i] : i \in 1..(Len(h) - RecentKeep)},
                      recent |-> Recent(h)]
      /\ UNCHANGED <<made, context, healthy>>
  BY <1>1, <1>2, Zenon DEF CompactBegin, turnVars
<1>4. S.live /\ S.rows = store.rows /\ (healthy => h = store.rows) /\ h \in Seq(Msgs)
  BY <1>0, <1>1, <1>2, GotFacts DEF Good
<1>l. Len(h) \in Nat BY <1>4
<1>5. PICK n \in 1..Len(h) : n = Len(h) - RecentKeep
  <2>1. Len(h) - RecentKeep \in 1..Len(h) BY <1>3, <1>l, ConstantFacts
  <2> QED BY <2>1, Zenon
<1>6. compact' = [base   |-> compact'.base,
                  older  |-> {compact'.base[i] : i \in 1..n},
                  recent |-> SubSeq(compact'.base, n + 1, Len(compact'.base))]
      /\ compact'.base = h
  BY <1>3, <1>5 DEF Recent
<1>7. UNCHANGED <<store.live, store.rows, made, context, healthy>> BY <1>0, <1>3, <1>4
<1> QED BY <1>0, <1>4, <1>6, <1>7 DEF OneList!Read

LEMMA CompactEndMaps == ASSUME Inv, CompactEnd PROVE OneList!Summarise
<1>0. /\ compact # NoCompaction /\ store.live /\ Make
      /\ compact' = NoCompaction /\ context' = context
  BY DEF CompactEnd, Compacting, turnVars
<1>1. made' = made + 1 /\ New = made' BY <1>0, MakeFacts DEF Inv
<1>2. PICK S : S = Got(store) OBVIOUS
<1>3. PICK new : new = <<made'>> \o compact.recent OBVIOUS
<1>4. PICK ok \in BOOLEAN : Commit(ok) /\ store' = IF ok THEN Replaced(S, new) ELSE S
  BY <1>1, <1>2, <1>3, Zenon DEF CompactEnd
<1>5. S \in Stores /\ S.live /\ S.rows = store.rows /\ S.cache \in Objs BY <1>0, <1>2, GotFacts
<1>6. store'.live /\ store'.rows = IF ok THEN new ELSE store.rows
  BY <1>4, <1>5 DEF Replaced, Stores
<1>7. OneList!Becomes(new) BY <1>4, <1>6, BecomesStep
<1> QED BY <1>0, <1>1, <1>3, <1>6, <1>7 DEF OneList!Summarise

LEMMA CompactFailMaps == ASSUME CompactFail PROVE OneList!Drop
BY DEF CompactFail, turnVars, OneList!Drop

LEMMA CleanupMaps == ASSUME Inv, Cleanup PROVE OneList!Delete
<1>1. /\ store' = [Deleted(store) EXCEPT !.cache = NoObj]
      /\ UNCHANGED <<made, context, compact, healthy>>
  BY DEF Cleanup, otherVars, turnVars
<1>2. ~store'.live /\ store'.live \in BOOLEAN /\ store'.rows = <<>>
  BY <1>1, StoreFacts, DeletedFacts DEF Stores
<1> QED BY <1>1, <1>2 DEF OneList!Delete

\* A deletion takes effect with its commit, and a load by a thread may go wrong.
LEMMA ThreadMaps ==
  ASSUME Inv, ThreadStep
  PROVE  OneList!Delete \/ OneList!Fail \/ UNCHANGED OneList!tvars
<1>1. CASE DeletePop
  <2>1. /\ store' = [store EXCEPT !.cache = NoObj]
        /\ UNCHANGED <<made, context, compact, healthy>>
    BY <1>1 DEF DeletePop, otherVars, turnVars
  <2>2. store'.live = store.live /\ store'.rows = store.rows BY <2>1, StoreFacts DEF Stores
  <2> QED BY <2>1, <2>2 DEF OneList!tvars
<1>2. CASE DeleteCommit
  <2>1. PICK ok \in BOOLEAN : Attempt(ok) /\ store' = IF ok THEN Deleted(store) ELSE store
    BY <1>2 DEF DeleteCommit
  <2>2. UNCHANGED <<made, context, compact>> BY <1>2 DEF DeleteCommit, otherVars, turnVars
  <2>3. /\ ok => healthy' = healthy
        /\ ~ok => healthy' = FALSE
    BY <2>1, AttemptFacts DEF Inv
  <2>4. CASE ok
    <3>1. ~store'.live /\ store'.live \in BOOLEAN /\ store'.rows = <<>>
      BY <2>1, <2>4, StoreFacts, DeletedFacts DEF Stores
    <3> QED BY <2>2, <2>3, <2>4, <3>1 DEF OneList!Delete
  <2>5. CASE ~ok BY <2>1, <2>2, <2>3, <2>5 DEF OneList!Fail
  <2> QED BY <2>4, <2>5
<1>3. CASE LoadRead BY <1>3 DEF LoadRead, otherVars, turnVars, OneList!tvars
<1>4. CASE LoadInstall
  <2>1. PICK ok \in BOOLEAN : ok = (loaded = store.rows /\ Short(store)) OBVIOUS
  <2>2. /\ Attempt(ok) /\ UNCHANGED <<made, context, compact>>
        /\ store' = Installed(store, loaded)
    BY <1>4, <2>1 DEF LoadInstall, otherVars, turnVars
  <2>3. loaded \in Seq(Msgs) BY DEF Inv, ThreadInv, Good
  <2>4. store'.live = store.live /\ store'.rows = store.rows
    BY <2>2, <2>3, StoreFacts, InstalledFacts
  <2>5. healthy' = healthy \/ healthy' = FALSE BY <2>2, AttemptFacts DEF Inv
  <2> QED BY <2>2, <2>4, <2>5 DEF OneList!Fail, OneList!tvars
<1> QED BY <1>1, <1>2, <1>3, <1>4 DEF ThreadStep

LEMMA RestartMaps == ASSUME Inv, Restart PROVE OneList!Restart
<1>1. /\ context' = [t \in Turns |-> <<>>] /\ compact' = NoCompaction /\ healthy' = TRUE
      /\ made' = made
  BY DEF Restart
<1>2. PICK o : store' = [store EXCEPT !.cache = o, !.hist = [q \in Objs |-> <<>>]]
  BY DEF Restart
<1>3. store'.live = store.live /\ store'.rows = store.rows BY <1>2, StoreFacts DEF Stores
<1> QED BY <1>1, <1>3 DEF OneList!Restart

LEMMA QuietSteps ==
  ASSUME Inv, NEW t \in Turns, Open(t) \/ Start(t) \/ Leave(t) PROVE OneList!Forget
<1>1. UNCHANGED <<store.live, store.rows, made, compact, healthy>>
  <2>1. CASE Open(t)
    <3>1. store.live /\ store' = Got(store) BY <2>1 DEF Open
    <3>2. store'.live /\ store'.rows = store.rows BY <3>1, GotFacts
    <3> QED BY <2>1, <3>1, <3>2 DEF Open
  <2>2. CASE Start(t) BY <2>2 DEF Start
  <2>3. CASE Leave(t)
    <3>1. store'.live = store.live /\ store'.rows = store.rows
      BY <2>3, StoreFacts, CollectedFacts DEF Leave
    <3> QED BY <2>3, <3>1 DEF Leave
  <2> QED BY <2>1, <2>2, <2>3
<1>2. context' = context \/ context' = [context EXCEPT ![t] = <<>>] BY DEF Open, Start, Leave
<1>3. OneList!Forgets BY <1>2, ForgetsOne, ForgetsNone
<1> QED BY <1>1, <1>3 DEF OneList!Forget

LEMMA ListInit == Init => OneList!TInit
BY DEF Init, OneList!TInit

LEMMA ListStep == Inv /\ [Next]_vars => [OneList!TNext]_OneList!tvars
<1> SUFFICES ASSUME Inv, [Next]_vars PROVE [OneList!TNext]_OneList!tvars OBVIOUS
<1>1. CASE \E t \in Turns : TurnStep(t)
  <2>1. PICK t \in Turns : TurnStep(t) BY <1>1
  <2>2. CASE \E k \in 1..MaxSystem, p \in 0..MaxContext, d \in 0..1 : AutoCompact(t, k, p, d)
    BY <2>2, AutoCompactMaps DEF OneList!TNext
  <2> QED BY <2>1, <2>2, AskMaps, AnswerMaps, QuietSteps DEF TurnStep, OneList!TNext
<1>2. CASE Edit
  <2>1. CASE \E k \in 0..MaxMsgs : Truncate(k) BY <2>1, TruncateMaps DEF OneList!TNext
  <2>2. ASSUME NEW m \in Msgs, DeleteById(m) \/ DeleteByIndex(m) PROVE OneList!Remove
    BY <2>2, EraseMaps DEF DeleteById, DeleteByIndex
  <2> QED BY <1>2, <2>1, <2>2, PostMaps, CleanupMaps DEF Edit, OneList!TNext
<1>t. CASE ThreadStep BY <1>t, ThreadMaps DEF OneList!TNext
<1>3. CASE UNCHANGED vars BY <1>3 DEF vars, OneList!tvars
<1> QED
  BY <1>1, <1>2, <1>3, <1>t, CompactBeginMaps, CompactEndMaps, CompactFailMaps, RestartMaps
  DEF Next, OneList!TNext

\* The session's rows, objects and requests implement one list.
THEOREM TranscriptImplemented == Spec => ImplementsTranscript
<1> QED BY ListInit, ListStep, Invariant, PTL DEF Spec, ImplementsTranscript, OneList!TSpec
=============================================================================
