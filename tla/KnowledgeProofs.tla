--------------------------- MODULE KnowledgeProofs ---------------------------
(***************************************************************************)
(* Proofs about the knowledge base.  QueryGuards: how much the limiter and    *)
(* the breaker let through.  IndexSync: the types, for any number of          *)
(* processes that overlap as they like, and that a document which says it is  *)
(* searchable can be found, as long as calls do not overlap.                *)
(***************************************************************************)
EXTENDS QueryGuards, IndexSync, NatFacts, SequenceTheorems, TLAPS

-----------------------------------------------------------------------------
(* What a cut leaves. *)

\* The first k stamps are older than the limit, and the next one is not.
CutAt(s, k, limit) ==
  /\ \A i \in 1..k : s[i] > limit
  /\ k < Len(s) => s[k + 1] <= limit

\* A cut takes a prefix off.
LEMMA CutPrefix ==
  ASSUME NEW s \in Seq(Nat), NEW limit \in Nat
  PROVE  \E k \in 0..Len(s) : CutAt(s, k, limit) /\ Cut(s, limit) = SubSeq(s, k + 1, Len(s))
<1>1. CASE Within(s, limit) = {}
  <2>1. \A i \in 1..Len(s) : s[i] > limit
    BY <1>1 DEF Within
  <2>2. SubSeq(s, Len(s) + 1, Len(s)) = <<>>
    OBVIOUS
  <2>3. QED BY <1>1, <2>1, <2>2 DEF Cut, CutAt
<1>2. CASE Within(s, limit) # {}
  <2> DEFINE m == Min(Within(s, limit))
  <2>1. Within(s, limit) \in SUBSET Nat
    BY DEF Within
  <2>2. m \in Within(s, limit) /\ \A n \in Within(s, limit) : m <= n
    BY <1>2, <2>1, MinIn
  <2>3. m \in 1..Len(s) /\ s[m] <= limit
    BY <2>2 DEF Within
  <2>4. \A i \in 1..(m - 1) : s[i] > limit
    <3> SUFFICES ASSUME NEW i \in 1..(m - 1), ~(s[i] > limit) PROVE FALSE
      OBVIOUS
    <3>1. i \in DOMAIN s /\ s[i] \in Nat /\ i < m
      BY <2>3
    <3>2. i \in Within(s, limit)
      BY <3>1 DEF Within
    <3>3. m <= i
      BY <3>2, <2>2
    <3>4. QED BY <3>1, <3>3, <2>3
  <2>5. Cut(s, limit) = SubSeq(s, m, Len(s))
    BY <1>2 DEF Cut
  <2> HIDE DEF m
  <2>6. m - 1 \in 0..Len(s) /\ (m - 1) + 1 = m
    BY <2>3
  <2>7. QED BY <2>3, <2>4, <2>5, <2>6 DEF CutAt
<1>3. QED BY <1>1, <1>2

\* What is left behind a cut.
LEMMA CutLeaves ==
  ASSUME NEW s \in Seq(Nat), NEW k \in 0..Len(s)
  PROVE  LET c == SubSeq(s, k + 1, Len(s))
         IN  /\ c \in Seq(Nat) /\ Len(c) = Len(s) - k
             /\ \A i \in 1..Len(c) : c[i] = s[k + i]
<1>1. /\ Len(s) \in Int /\ k + 1 \in Int
      /\ \A i \in (k + 1)..Len(s) : s[i] \in Nat
  OBVIOUS
<1> DEFINE c == SubSeq(s, k + 1, Len(s))
<1>2. /\ c \in Seq(Nat)
      /\ Len(c) = IF k + 1 <= Len(s) THEN Len(s) - (k + 1) + 1 ELSE 0
      /\ \A i \in 1..(Len(s) - (k + 1) + 1) : c[i] = s[k + 1 + i - 1]
  BY <1>1, SubSeqProperties
<1> HIDE DEF c
<1>3. Len(c) = Len(s) - k
  BY <1>2
<1>4. \A i \in 1..(Len(s) - k) : c[i] = s[k + i]
  BY <1>2
<1>5. QED BY <1>2, <1>3, <1>4 DEF c

\* Stamps stay stamps as time passes, and no stamp gets older by more than it should.
LEMMA AgedStamps ==
  ASSUME NEW s \in Seq(Nat)
  PROVE  /\ Aged(s) \in Seq(Nat) /\ Len(Aged(s)) = Len(s)
         /\ \A i \in 1..Len(s) : /\ Aged(s)[i] <= s[i] + 1
                                 /\ s[i] <= Window + MaxWait => Aged(s)[i] = s[i] + 1
<1>1. Window + MaxWait + 1 \in Nat /\ Window \in Nat /\ MaxWait \in Nat
  BY GuardConstants
<1>2. \A n \in Nat : /\ Older(n, Window + MaxWait + 1) \in Nat
                     /\ Older(n, Window + MaxWait + 1) <= n + 1
                     /\ n <= Window + MaxWait => Older(n, Window + MaxWait + 1) = n + 1
  BY <1>1 DEF Older
<1>3. Aged(s) = [i \in 1..Len(s) |-> Older(s[i], Window + MaxWait + 1)]
  BY DEF Aged
<1>4. \A i \in 1..Len(s) : s[i] \in Nat
  OBVIOUS
<1> HIDE DEF Older
<1>5. Aged(s) \in Seq(Nat) /\ Len(Aged(s)) = Len(s)
  <2>1. Aged(s) \in [1..Len(s) -> Nat]
    BY <1>2, <1>3, <1>4
  <2>2. Len(s) \in Nat
    OBVIOUS
  <2>3. QED BY <2>1, <2>2
<1>6. QED BY <1>2, <1>3, <1>4, <1>5

-----------------------------------------------------------------------------
(* The limiter. *)

\* A deque covers a history: it is not over its limit, and its last stamps are those of the
\* requests in the history, each older than its request was let through by no more than the wait.
Covers(stamps, admitted, most) ==
  /\ stamps \in Seq(Nat) /\ admitted \in Seq(Nat)
  /\ Len(admitted) <= Len(stamps) /\ Len(stamps) <= most
  /\ \A i \in 1..Len(admitted) :
       /\ admitted[i] <= Span
       /\ stamps[Len(stamps) - Len(admitted) + i] <= admitted[i] + MaxWait
  /\ \A i, j \in 1..Len(admitted) : i <= j => admitted[j] <= admitted[i]

\* A purge takes no stamp whose request is in the history, however late it comes.
LEMMA PurgeCovers ==
  ASSUME Span + MaxWait <= Window, NEW s, NEW a, NEW most \in Nat, Covers(s, a, most),
         NEW late \in Nat
  PROVE  Covers(Purged(s, late), a, most)
<1>c. Window \in Nat /\ MaxWait \in Nat /\ Span \in Nat
  BY GuardConstants
<1>0. s \in Seq(Nat) /\ a \in Seq(Nat)
  BY DEF Covers
<1>e. (\A i \in 1..Len(s) : s[i] \in Nat) /\ \A i \in 1..Len(a) : a[i] \in Nat
  BY <1>0
<1>1. PICK k \in 0..Len(s) :
        CutAt(s, k, Window + late) /\ Cut(s, Window + late) = SubSeq(s, k + 1, Len(s))
  <2>1. Window + late \in Nat
    BY <1>c
  <2>2. QED BY <1>0, <2>1, CutPrefix
<1> DEFINE m == Len(s)
           n == Len(a)
           p == Purged(s, late)
<1>2. p \in Seq(Nat) /\ Len(p) = m - k /\ \A i \in 1..Len(p) : p[i] = s[k + i]
  BY <1>0, <1>1, CutLeaves DEF Purged
<1>3. m \in Nat /\ n \in Nat /\ n <= m /\ m <= most
  BY <1>0 DEF Covers
<1>4. k <= m - n
  <2> SUFFICES ASSUME k > m - n PROVE FALSE
    BY <1>3
  <2>1. k - (m - n) \in 1..n /\ (m - n) + (k - (m - n)) = k /\ k \in 1..m
    BY <1>3
  <2>2. a[k - (m - n)] <= Span /\ s[k] <= a[k - (m - n)] + MaxWait
    BY <2>1 DEF Covers
  <2>3. s[k] > Window + late
    BY <2>1, <1>1 DEF CutAt
  <2>4. a[k - (m - n)] \in Nat /\ s[k] \in Nat
    BY <1>e, <2>1
  <2>5. QED BY <1>c, <2>2, <2>3, <2>4
<1>5. ASSUME NEW i \in 1..n
      PROVE  p[Len(p) - n + i] <= a[i] + MaxWait
  <2>1. Len(p) - n + i \in 1..Len(p) /\ k + (Len(p) - n + i) = m - n + i
    BY <1>2, <1>3, <1>4
  <2>2. p[Len(p) - n + i] = s[m - n + i]
    BY <1>2, <2>1
  <2>3. QED BY <2>2 DEF Covers
<1> HIDE DEF p
<1>6. n <= Len(p) /\ Len(p) <= most
  BY <1>2, <1>3, <1>4
<1>7. Covers(p, a, most)
  BY <1>2, <1>5, <1>6 DEF Covers
<1>8. QED BY <1>7 DEF p

\* A request let through enters both.
LEMMA AppendCovers ==
  ASSUME NEW s, NEW a, NEW most \in Nat, Covers(s, a, most), Len(s) < most,
         NEW late \in 0..MaxWait
  PROVE  Covers(Append(s, late), Append(a, 0), most)
<1>c. MaxWait \in Nat /\ Span \in Nat /\ late \in Nat /\ late <= MaxWait
  BY GuardConstants
<1>0. s \in Seq(Nat) /\ a \in Seq(Nat)
  BY DEF Covers
<1> DEFINE m == Len(s)
           n == Len(a)
           q == Append(s, late)
           b == Append(a, 0)
<1>1. /\ q \in Seq(Nat) /\ Len(q) = m + 1 /\ q[m + 1] = late /\ \A i \in 1..m : q[i] = s[i]
      /\ b \in Seq(Nat) /\ Len(b) = n + 1 /\ b[n + 1] = 0 /\ \A i \in 1..n : b[i] = a[i]
  BY <1>0
<1>2. m \in Nat /\ n \in Nat /\ n <= m /\ m < most
  BY <1>0 DEF Covers
<1> HIDE DEF q, b
<1>3. ASSUME NEW i \in 1..(n + 1)
      PROVE  b[i] <= Span /\ q[Len(q) - Len(b) + i] <= b[i] + MaxWait
  <2>1. CASE i \in 1..n
    <3>1. m - n + i \in 1..m /\ Len(q) - Len(b) + i = m - n + i
      BY <1>1, <1>2, <2>1
    <3>2. QED BY <1>1, <2>1, <3>1 DEF Covers
  <2>2. CASE i = n + 1
    <3>1. Len(q) - Len(b) + i = m + 1
      BY <1>1, <1>2, <2>2
    <3>2. QED BY <1>c, <1>1, <2>2, <3>1
  <2>3. QED BY <1>2, <2>1, <2>2
<1>4. ASSUME NEW i \in 1..(n + 1), NEW j \in 1..(n + 1), i <= j
      PROVE  b[j] <= b[i]
  <2>1. CASE j = n + 1
    BY <1>1, <2>1
  <2>2. CASE j \in 1..n
    <3>1. i \in 1..n
      BY <1>4, <1>2, <2>2
    <3>2. QED BY <1>1, <1>4, <2>2, <3>1 DEF Covers
  <2>3. QED BY <1>2, <2>1, <2>2
<1>5. Covers(q, b, most)
  BY <1>1, <1>2, <1>3, <1>4 DEF Covers
<1>6. QED BY <1>5 DEF q, b

\* Time passes for both, and the history forgets what is older than its span.
LEMMA AgedCovers ==
  ASSUME Span + MaxWait <= Window, NEW s, NEW a, NEW most \in Nat, Covers(s, a, most)
  PROVE  Covers(Aged(s), Recalled(a), most)
<1>c. Window \in Nat /\ MaxWait \in Nat /\ Span \in Nat
  BY GuardConstants
<1>0. s \in Seq(Nat) /\ a \in Seq(Nat)
  BY DEF Covers
<1>e. (\A i \in 1..Len(s) : s[i] \in Nat) /\ \A i \in 1..Len(a) : a[i] \in Nat
  BY <1>0
<1> DEFINE m == Len(s)
           n == Len(a)
           q == Aged(s)
           b == Aged(a)
           r == Recalled(a)
<1>1. m \in Nat /\ n \in Nat /\ n <= m /\ m <= most
  BY <1>0 DEF Covers
<1>2. /\ q \in Seq(Nat) /\ Len(q) = m /\ \A i \in 1..m : q[i] <= s[i] + 1
      /\ b \in Seq(Nat) /\ Len(b) = n
  BY <1>0, AgedStamps
<1>f. \A i \in 1..m : q[i] \in Nat
  BY <1>2
<1>3. ASSUME NEW i \in 1..n PROVE b[i] = a[i] + 1 /\ a[i] \in Nat
  <2>1. a[i] <= Span /\ a[i] \in Nat
    BY <1>e DEF Covers
  <2>2. a[i] <= Window + MaxWait
    BY <1>c, <2>1
  <2>3. QED BY <1>0, <2>1, <2>2, AgedStamps
<1>4. PICK l \in 0..Len(b) : CutAt(b, l, Span) /\ Cut(b, Span) = SubSeq(b, l + 1, Len(b))
  BY <1>c, <1>2, CutPrefix
<1>5. r \in Seq(Nat) /\ Len(r) = n - l /\ \A i \in 1..Len(r) : r[i] = b[l + i]
  BY <1>2, <1>4, CutLeaves DEF Recalled
<1>6. l \in 0..n
  BY <1>2, <1>4
<1> HIDE DEF q, b, r
<1>7. ASSUME NEW i \in 1..Len(r) PROVE l + i \in 1..n /\ r[i] = a[l + i] + 1 /\ a[l + i] \in Nat
  <2>1. l + i \in 1..n
    BY <1>1, <1>5, <1>6
  <2>2. QED BY <2>1, <1>3, <1>5
<1>8. ASSUME NEW i \in 1..Len(r), NEW j \in 1..Len(r), i <= j
      PROVE  r[j] <= r[i]
  <2>1. a[l + j] <= a[l + i]
    <3>1. l + i \in 1..n /\ l + j \in 1..n /\ l + i <= l + j
      BY <1>7, <1>8, <1>6
    <3>2. QED BY <3>1 DEF Covers
  <2>2. QED BY <2>1, <1>7
<1>9. ASSUME NEW i \in 1..Len(r) PROVE r[i] <= Span
  <2>1. 1 \in 1..Len(r) /\ 1 <= i /\ l < n
    BY <1>1, <1>5, <1>6
  <2>2. r[1] <= Span
    BY <2>1, <1>2, <1>4, <1>5 DEF CutAt
  <2>3. r[i] <= r[1] /\ r[i] \in Nat /\ r[1] \in Nat
    BY <2>1, <1>5, <1>8
  <2>4. QED BY <2>2, <2>3, <1>c
<1>10. ASSUME NEW i \in 1..Len(r) PROVE q[Len(q) - Len(r) + i] <= r[i] + MaxWait
  <2>1. Len(q) - Len(r) + i = m - n + (l + i) /\ m - n + (l + i) \in 1..m
    BY <1>1, <1>2, <1>5, <1>6, <1>7
  <2>2. q[m - n + (l + i)] <= s[m - n + (l + i)] + 1
    BY <1>2, <2>1
  <2>3. s[m - n + (l + i)] <= a[l + i] + MaxWait
    BY <1>7 DEF Covers
  <2>4. q[m - n + (l + i)] \in Nat /\ s[m - n + (l + i)] \in Nat
    BY <1>e, <1>f, <2>1
  <2>5. a[l + i] \in Nat /\ r[i] = a[l + i] + 1
    BY <1>7
  <2>6. q[m - n + (l + i)] <= r[i] + MaxWait
    BY <1>c, <2>2, <2>3, <2>4, <2>5
  <2>7. QED BY <2>1, <2>6
<1>11. Len(r) <= Len(q) /\ Len(q) <= most
  BY <1>1, <1>2, <1>5, <1>6
<1>12. Covers(q, r, most)
  BY <1>2, <1>5, <1>8, <1>9, <1>10, <1>11 DEF Covers
<1>13. QED BY <1>12 DEF q, r

\* What a thread is doing; who waits for the lock has not waited for too long.
Asking == [at : {"idle", "ask", "wait", "table"}, stage : Stages]
Waiting == [at : {"lock"}, user : Users, late : 0..MaxWait]
Windows == [all : Seq(Nat), user : [Users -> Seq(Nat)]]

LimiterInv ==
  /\ query \in [Threads -> Asking \cup Waiting]
  /\ windows \in Windows /\ passed \in Windows
  /\ Covers(windows.all, passed.all, MaxGlobal)
  /\ \A u \in Users : Covers(windows.user[u], passed.user[u], MaxUser)

LEMMA InitLimits ==
  GuardsInit => LimiterInv
<1> SUFFICES ASSUME GuardsInit PROVE LimiterInv
  OBVIOUS
<1>1. \A most \in Nat : Covers(<<>>, <<>>, most)
  BY DEF Covers
<1>2. query \in [Threads -> Asking \cup Waiting]
  BY DEF GuardsInit, NoQuery, Asking, Stages
<1>3. windows \in Windows /\ passed \in Windows
  BY DEF GuardsInit, Windows
<1>4. Covers(windows.all, passed.all, MaxGlobal)
  BY <1>1, GuardConstants DEF GuardsInit
<1>5. \A u \in Users : Covers(windows.user[u], passed.user[u], MaxUser)
  BY <1>1, GuardConstants DEF GuardsInit
<1>6. QED BY <1>2, <1>3, <1>4, <1>5 DEF LimiterInv

\* What a request does to the limiter once it has the lock.
LEMMA AdmitLimits ==
  ASSUME Span + MaxWait <= Window, LimiterInv, NEW t \in Threads, Admit(t)
  PROVE  LimiterInv'
<1>1. PICK u \in Users, late \in 0..MaxWait : u = query[t].user /\ late = query[t].late
  BY DEF LimiterInv, Admit, QueryAt, Asking, Waiting
<1> DEFINE all == Purged(windows.all, late)
           one == Purged(windows.user[u], late)
<1>2. /\ windows.all \in Seq(Nat) /\ windows.user \in [Users -> Seq(Nat)]
      /\ windows = [all |-> windows.all, user |-> windows.user]
      /\ passed.all \in Seq(Nat) /\ passed.user \in [Users -> Seq(Nat)]
      /\ passed = [all |-> passed.all, user |-> passed.user]
  BY DEF LimiterInv, Windows
<1>3. MaxGlobal \in Nat /\ MaxUser \in Nat /\ MaxWait \in Nat /\ late \in Nat
  BY GuardConstants
<1>4. Covers(all, passed.all, MaxGlobal) /\ Covers(one, passed.user[u], MaxUser)
  BY <1>3, PurgeCovers DEF LimiterInv
<1>5. all \in Seq(Nat) /\ one \in Seq(Nat)
  BY <1>4 DEF Covers
<1>6. \A v \in Users : Covers(windows.user[v], passed.user[v], MaxUser)
  BY DEF LimiterInv
<1>7. windows' = WindowsAfter(u, late)
  BY <1>1 DEF Admit
<1>8. CASE Passes(u, late)
  <2> DEFINE more == Append(all, late)
             next == Append(one, late)
  <2>1. Len(all) < MaxGlobal /\ Len(one) < MaxUser
    BY <1>8 DEF Passes
  <2>2. /\ Covers(more, Append(passed.all, 0), MaxGlobal)
        /\ Covers(next, Append(passed.user[u], 0), MaxUser)
    BY <1>3, <1>4, <2>1, AppendCovers
  <2>3. windows' = [all |-> more, user |-> [windows.user EXCEPT ![u] = next]]
    BY <1>7, <1>8 DEF WindowsAfter
  <2>4. /\ passed' = [all |-> Append(passed.all, 0),
                      user |-> [passed.user EXCEPT ![u] = Append(passed.user[u], 0)]]
        /\ \E stage \in Stages : query' = [query EXCEPT ![t] = [at |-> "ask", stage |-> stage]]
    BY <1>1, <1>8 DEF Admit
  <2>5. query' \in [Threads -> Asking \cup Waiting]
    BY <2>4 DEF LimiterInv, Asking
  <2> HIDE DEF all, one, more, next
  <2>6. more \in Seq(Nat) /\ next \in Seq(Nat)
        /\ Append(passed.all, 0) \in Seq(Nat) /\ Append(passed.user[u], 0) \in Seq(Nat)
    BY <2>2 DEF Covers
  <2>7. windows' \in Windows /\ passed' \in Windows
    BY <1>2, <2>3, <2>4, <2>6 DEF Windows
  <2>8. Covers(windows'.all, passed'.all, MaxGlobal)
    BY <2>2, <2>3, <2>4
  <2>9. ASSUME NEW v \in Users PROVE Covers(windows'.user[v], passed'.user[v], MaxUser)
    <3>1. CASE v = u
      BY <3>1, <1>2, <2>2, <2>3, <2>4
    <3>2. CASE v # u
      BY <3>2, <1>2, <1>6, <2>3, <2>4
    <3>3. QED BY <3>1, <3>2
  <2>10. QED BY <2>5, <2>7, <2>8, <2>9 DEF LimiterInv
<1>9. CASE ~Passes(u, late)
  <2>1. query' = [query EXCEPT ![t] = NoQuery] /\ passed' = passed
    BY <1>1, <1>9 DEF Admit
  <2>2. query' \in [Threads -> Asking \cup Waiting]
    BY <2>1 DEF LimiterInv, Asking, NoQuery, Stages
  <2>3. \/ windows' = [all |-> all, user |-> [windows.user EXCEPT ![u] = one]]
        \/ windows' = [all |-> all, user |-> windows.user]
    BY <1>7, <1>9 DEF WindowsAfter
  <2> HIDE DEF all, one
  <2>4. windows' \in Windows /\ passed' \in Windows
    <3>1. passed' \in Windows
      BY <2>1 DEF LimiterInv
    <3>2. [windows.user EXCEPT ![u] = one] \in [Users -> Seq(Nat)]
      BY <1>2, <1>5
    <3>3. PICK user \in [Users -> Seq(Nat)] : windows' = [all |-> all, user |-> user]
      BY <1>2, <2>3, <3>2
    <3>4. windows' \in Windows
      BY <1>5, <3>3 DEF Windows
    <3>5. QED BY <3>1, <3>4
  <2>5. Covers(windows'.all, passed'.all, MaxGlobal)
    BY <1>4, <2>1, <2>3
  <2>6. ASSUME NEW v \in Users PROVE Covers(windows'.user[v], passed'.user[v], MaxUser)
    <3>1. CASE v = u
      BY <3>1, <1>2, <1>4, <1>6, <2>1, <2>3
    <3>2. CASE v # u
      BY <3>2, <1>2, <1>6, <2>1, <2>3
    <3>3. QED BY <3>1, <3>2
  <2>7. QED BY <2>2, <2>4, <2>5, <2>6 DEF LimiterInv
<1>10. QED BY <1>8, <1>9

\* Time passes for the deques, the history and whoever waits.
LEMMA TickLimits ==
  ASSUME Span + MaxWait <= Window, LimiterInv, Tick
  PROVE  LimiterInv'
<1>1. query' \in [Threads -> Asking \cup Waiting]
  <2> SUFFICES ASSUME NEW t \in Threads
               PROVE  (IF QueryAt(t, "lock") THEN [query[t] EXCEPT !.late = @ + 1] ELSE query[t])
                        \in Asking \cup Waiting
    BY DEF Tick
  <2>1. query[t] \in Asking \cup Waiting
    BY DEF LimiterInv
  <2>2. CASE QueryAt(t, "lock")
    <3>1. query[t] \in Waiting /\ query[t].late < MaxWait
      BY <2>1, <2>2 DEF QueryAt, Asking, Waiting, Tick
    <3>2. query[t].late \in Nat /\ query[t].late + 1 \in 0..MaxWait
      BY <3>1, GuardConstants DEF Waiting
    <3>3. [query[t] EXCEPT !.late = query[t].late + 1] \in Waiting
      BY <3>1, <3>2 DEF Waiting
    <3>4. QED BY <2>2, <3>3
  <2>3. QED BY <2>1, <2>2
<1>2. /\ windows.all \in Seq(Nat) /\ \A v \in Users : windows.user[v] \in Seq(Nat)
      /\ passed.all \in Seq(Nat) /\ \A v \in Users : passed.user[v] \in Seq(Nat)
  BY DEF LimiterInv, Windows
<1>3. /\ windows' = [all |-> Aged(windows.all), user |-> [v \in Users |-> Aged(windows.user[v])]]
      /\ passed' = [all |-> Recalled(passed.all),
                    user |-> [v \in Users |-> Recalled(passed.user[v])]]
  BY DEF Tick
<1>4. MaxGlobal \in Nat /\ MaxUser \in Nat
  BY GuardConstants
<1>5. Covers(Aged(windows.all), Recalled(passed.all), MaxGlobal)
  BY <1>4, AgedCovers DEF LimiterInv
<1>6. \A v \in Users : Covers(Aged(windows.user[v]), Recalled(passed.user[v]), MaxUser)
  BY <1>4, AgedCovers DEF LimiterInv
<1>7. windows' \in Windows /\ passed' \in Windows
  BY <1>3, <1>5, <1>6 DEF Windows, Covers
<1>8. Covers(windows'.all, passed'.all, MaxGlobal)
  BY <1>3, <1>5
<1>9. \A v \in Users : Covers(windows'.user[v], passed'.user[v], MaxUser)
  BY <1>3, <1>6
<1>10. QED BY <1>1, <1>7, <1>8, <1>9 DEF LimiterInv

\* What a question goes on to is none of the limiter's business.
LEMMA OnwardTyped ==
  ASSUME NEW q \in Asking, NEW kind
  PROVE  Continued(q, kind) \in Asking
BY DEF Continued, NoQuery, Asking, Stages

LEMMA QuestionLimits ==
  ASSUME LimiterInv, UNCHANGED <<windows, passed>>, NEW t \in Threads,
         \/ \E u \in Users : Arrive(t, u)
         \/ Ask(t) \/ Generated(t) \/ GenerationFails(t) \/ Interrupted(t) \/ ComputeTable(t)
  PROVE  LimiterInv'
<1>1. query \in [Threads -> Asking \cup Waiting]
  BY DEF LimiterInv
<1>2. ASSUME NEW q \in Asking \cup Waiting, query' = [query EXCEPT ![t] = q]
      PROVE  LimiterInv'
  <2>1. query' \in [Threads -> Asking \cup Waiting]
    BY <1>1, <1>2
  <2>2. QED BY <2>1 DEF LimiterInv
<1>3. NoQuery \in Asking
  BY DEF NoQuery, Asking, Stages
<1>4. ASSUME NEW u \in Users, Arrive(t, u) PROVE LimiterInv'
  <2>1. [at |-> "lock", user |-> u, late |-> 0] \in Waiting
    BY GuardConstants DEF Waiting
  <2>2. QED BY <1>2, <1>4, <2>1 DEF Arrive
<1>5. ASSUME query[t].at # "lock" PROVE query[t] \in Asking
  BY <1>1, <1>5 DEF Waiting
<1>6. CASE Ask(t)
  <2>1. query[t] \in Asking
    BY <1>5, <1>6 DEF Ask, QueryAt
  <2>2. [query[t] EXCEPT !.at = "wait"] \in Asking
    BY <2>1 DEF Asking
  <2>3. Continued(query[t], "fallback") \in Asking
    BY <2>1, OnwardTyped
  <2>4. QED BY <1>2, <1>6, <2>2, <2>3 DEF Ask
<1>7. CASE Generated(t)
  <2>1. query[t] \in Asking
    BY <1>5, <1>7 DEF Generated, QueryAt
  <2>2. PICK kind \in {"plain", "request"} :
          query' = [query EXCEPT ![t] = Continued(query[t], kind)]
    BY <1>7 DEF Generated
  <2>3. Continued(query[t], kind) \in Asking
    BY <2>1, OnwardTyped
  <2>4. QED BY <1>2, <2>2, <2>3
<1>8. CASE GenerationFails(t) \/ Interrupted(t)
  BY <1>2, <1>3, <1>8 DEF GenerationFails, Interrupted
<1>9. CASE ComputeTable(t)
  <2>1. query[t] \in Asking
    BY <1>5, <1>9 DEF ComputeTable, QueryAt
  <2>2. [query[t] EXCEPT !.at = "ask"] \in Asking
    BY <2>1 DEF Asking
  <2>3. QED BY <1>2, <1>3, <1>9, <2>2 DEF ComputeTable
<1>10. QED BY <1>4, <1>6, <1>7, <1>8, <1>9

LEMMA StepLimits ==
  ASSUME Span + MaxWait <= Window
  PROVE  LimiterInv /\ [GuardsNext]_guardVars => LimiterInv'
<1> SUFFICES ASSUME LimiterInv, [GuardsNext]_guardVars PROVE LimiterInv'
  OBVIOUS
<1>1. ASSUME NEW t \in Threads, Admit(t) PROVE LimiterInv'
  BY <1>1, AdmitLimits
<1>2. CASE Tick
  BY <1>2, TickLimits
<1>3. ASSUME NEW t \in Threads,
             \/ Asks(t) \/ Ask(t) \/ Generated(t) \/ GenerationFails(t) \/ Interrupted(t)
             \/ ComputeTable(t)
      PROVE  LimiterInv'
  <2>1. UNCHANGED <<windows, passed>>
    BY <1>3 DEF Asks, Arrive, Ask, Generated, GenerationFails, Interrupted, ComputeTable
  <2>2. QED BY <1>3, <2>1, QuestionLimits DEF Asks
<1>4. CASE UNCHANGED guardVars
  BY <1>4 DEF LimiterInv, guardVars
<1>5. QED BY <1>1, <1>2, <1>3, <1>4 DEF GuardsNext, QueryStep

\* The stamps are as many as may be, and the history is covered by them.
LEMMA LimiterHolds == LimiterInv => WindowsHeld
<1> SUFFICES ASSUME LimiterInv PROVE WindowsHeld
  OBVIOUS
<1>1. ASSUME NEW s, NEW a, NEW most \in Nat, Covers(s, a, most) PROVE Len(a) <= most
  <2>1. Len(s) \in Nat /\ Len(a) \in Nat /\ Len(a) <= Len(s) /\ Len(s) <= most
    BY <1>1 DEF Covers
  <2>2. QED BY <2>1
<1>2. QED BY <1>1, GuardConstants DEF LimiterInv, Windows, WindowsHeld

-----------------------------------------------------------------------------
(* The breaker. *)

Breakers == [state : {"closed", "open", "half_open"}, fails : Nat, successes : Nat, probes : Nat,
             age : 0..Cooldown]

\* A closed breaker counts no probes, an open one has let none through since it opened, and a
\* half-open one has counted every one it let through.
BreakerInv ==
  /\ breaker \in Breakers
  /\ breaker.state = "closed" => breaker.probes = 0
  /\ ProbesBounded

LEMMA InitProbes == GuardsInit => BreakerInv
BY GuardConstants DEF GuardsInit, BreakerInv, Breakers, ProbesBounded

LEMMA AskProbes ==
  ASSUME BreakerInv, NEW t \in Threads, Ask(t)
  PROVE  BreakerInv'
<1>1. PICK b \in Breakers : b = breaker
  BY DEF BreakerInv
<1>2. /\ breaker' = BreakerAsked
      /\ asked' = IF b.state = "closed" THEN 0
                  ELSE (IF breaker'.age < b.age THEN 0 ELSE asked) + (IF Admits THEN 1 ELSE 0)
  BY <1>1 DEF Ask
<1>c. Cooldown \in Nat /\ Cooldown # 0 /\ MaxProbes \in Nat /\ MaxProbes # 0
  BY GuardConstants
<1>3. CASE b.state = "closed"
  BY <1>1, <1>2, <1>3 DEF BreakerAsked, BreakerInv, ProbesBounded
<1>4. CASE b.state # "closed" /\ b.age < Cooldown
  <2>1. HalfOpened(breaker) = b
    BY <1>1, <1>4 DEF HalfOpened
  <2>2. asked = b.probes /\ asked <= MaxProbes /\ (b.state = "open" => asked = 0)
    BY <1>1, <1>4 DEF BreakerInv, ProbesBounded
  <2>3. CASE b.state = "half_open" /\ b.probes < MaxProbes
    <3>1. Admits /\ breaker' = [b EXCEPT !.probes = b.probes + 1]
      BY <1>1, <1>2, <1>4, <2>1, <2>3 DEF Admits, BreakerAsked
    <3>2. breaker' \in Breakers /\ breaker'.age = b.age /\ breaker'.state = b.state
          /\ breaker'.probes = b.probes + 1
      BY <3>1, <1>1 DEF Breakers
    <3>3. asked' = asked + 1
      BY <1>1, <1>2, <1>4, <3>1, <3>2 DEF Breakers
    <3>4. QED BY <1>1, <1>c, <2>2, <2>3, <3>2, <3>3 DEF BreakerInv, ProbesBounded, Breakers
  <2>4. CASE ~(b.state = "half_open" /\ b.probes < MaxProbes)
    <3>1. ~Admits /\ breaker' = b
      BY <1>1, <1>2, <1>4, <2>1, <2>4 DEF Admits, BreakerAsked
    <3>2. asked' = asked
      BY <1>1, <1>2, <1>4, <2>2, <3>1 DEF Breakers
    <3>3. QED BY <1>1, <3>1, <3>2, <2>2, <1>4 DEF BreakerInv, ProbesBounded
  <2>5. QED BY <2>3, <2>4
<1>5. CASE b.state # "closed" /\ ~(b.age < Cooldown)
  <2> DEFINE h == [b EXCEPT !.state = "half_open", !.probes = 0, !.age = 0,
                            !.successes = IF b.state = "open" THEN 0 ELSE @]
  <2>1. HalfOpened(breaker) = h
    BY <1>1, <1>5 DEF HalfOpened
  <2> DEFINE n == IF b.state = "open" THEN 0 ELSE b.successes
  <2>n. /\ n \in Nat /\ b.fails \in Nat
        /\ h = [state |-> "half_open", fails |-> b.fails, successes |-> n, probes |-> 0, age |-> 0]
    <3>1. /\ b = [state |-> b.state, fails |-> b.fails, successes |-> b.successes,
                  probes |-> b.probes, age |-> b.age]
          /\ b.fails \in Nat /\ b.successes \in Nat
      BY <1>1 DEF Breakers
    <3>2. n \in Nat /\ h = [b EXCEPT !.state = "half_open", !.probes = 0, !.age = 0, !.successes = n]
      BY <3>1
    <3> HIDE DEF n, h
    <3>3. QED BY <3>1, <3>2
  <2> HIDE DEF n, h
  <2>2. /\ h \in Breakers /\ h.state = "half_open" /\ h.probes = 0 /\ h.age = 0
    BY <1>1, <1>c, <2>n DEF Breakers
  <2>3. Admits
    BY <1>c, <2>1, <2>2 DEF Admits
  <2>4. breaker' = [h EXCEPT !.probes = 1]
    BY <1>1, <1>2, <1>5, <2>1, <2>2, <2>3 DEF BreakerAsked
  <2>5. breaker' \in Breakers /\ breaker'.state = "half_open" /\ breaker'.probes = 1 /\ breaker'.age = 0
    BY <2>2, <2>4 DEF Breakers
  <2>6. asked' = 1
    BY <1>1, <1>2, <1>5, <1>c, <2>3, <2>5 DEF Breakers
  <2>7. QED BY <1>c, <2>5, <2>6 DEF BreakerInv, ProbesBounded
<1>6. QED BY <1>3, <1>4, <1>5

\* Answers: only a failure reopens the breaker, and it forgets the probes.
LEMMA AnswerProbes ==
  ASSUME BreakerInv,
         \/ breaker' = Succeeded(breaker) /\ asked' = asked
         \/ breaker' = Failed(breaker) /\ asked' = IF Opens(breaker) THEN 0 ELSE asked
  PROVE  BreakerInv'
<1>1. PICK b \in Breakers : b = breaker
  BY DEF BreakerInv
<1>c. Cooldown \in Nat /\ Threshold \in Nat /\ SuccessThreshold \in Nat
  BY GuardConstants
<1>b. /\ b = [state |-> b.state, fails |-> b.fails, successes |-> b.successes, probes |-> b.probes,
              age |-> b.age]
      /\ {b.fails, b.successes, b.probes} \subseteq Nat /\ b.fails + 1 \in Nat
      /\ b.age \in 0..Cooldown /\ 0 \in 0..Cooldown
  BY <1>1, <1>c DEF Breakers
<1>2. CASE breaker' = Succeeded(breaker) /\ asked' = asked
  <2>1. CASE b.state = "closed"
    <3>1. breaker' = [b EXCEPT !.fails = 0]
      BY <1>1, <1>2, <2>1 DEF Succeeded
    <3>2. breaker' \in Breakers /\ breaker'.state = "closed" /\ breaker'.probes = b.probes
      BY <1>1, <2>1, <3>1 DEF Breakers
    <3>3. QED BY <1>1, <2>1, <3>2 DEF BreakerInv, ProbesBounded
  <2>2. CASE b.state = "half_open" /\ b.successes + 1 >= SuccessThreshold
    <3>1. breaker' = [b EXCEPT !.state = "closed", !.fails = 0, !.successes = 0, !.probes = 0]
      BY <1>1, <1>2, <1>c, <2>2 DEF Succeeded, Breakers
    <3>2. breaker' \in Breakers /\ breaker'.state = "closed" /\ breaker'.probes = 0
      BY <1>1, <3>1 DEF Breakers
    <3>3. QED BY <3>2 DEF BreakerInv, ProbesBounded
  <2>3. CASE b.state = "half_open" /\ b.successes + 1 < SuccessThreshold
    <3>1. breaker' = [b EXCEPT !.successes = b.successes + 1]
      BY <1>1, <1>2, <1>c, <2>3 DEF Succeeded, Breakers
    <3>2. breaker' \in Breakers /\ breaker'.state = "half_open" /\ breaker'.probes = b.probes
      BY <1>1, <2>3, <3>1 DEF Breakers
    <3>3. QED BY <1>1, <1>2, <2>3, <3>2 DEF BreakerInv, ProbesBounded
  <2>4. CASE b.state = "open"
    <3>1. breaker' = b
      BY <1>1, <1>2, <2>4 DEF Succeeded
    <3>2. QED BY <1>1, <1>2, <3>1 DEF BreakerInv, ProbesBounded
  <2>5. QED BY <1>1, <1>c, <2>1, <2>2, <2>3, <2>4 DEF Breakers
<1>3. CASE breaker' = Failed(breaker) /\ asked' = IF Opens(breaker) THEN 0 ELSE asked
  <2>1. CASE b.state = "half_open"
    <3>1. breaker' = [b EXCEPT !.state = "open", !.age = 0, !.fails = Threshold, !.probes = 0]
      BY <1>1, <1>3, <2>1 DEF Failed
    <3>2. breaker' \in Breakers /\ breaker'.state = "open" /\ breaker'.probes = 0
      BY <1>b, <1>c, <3>1 DEF Breakers
    <3>3. asked' = 0
      BY <1>1, <1>3, <2>1 DEF Opens
    <3>4. QED BY <3>2, <3>3, GuardConstants DEF BreakerInv, ProbesBounded
  <2>2. CASE b.state = "closed" /\ Opens(breaker)
    <3>1. breaker' = [b EXCEPT !.fails = b.fails + 1, !.age = 0, !.state = "open"]
      BY <1>1, <1>3, <2>2 DEF Failed
    <3>2. breaker' \in Breakers /\ breaker'.state = "open" /\ breaker'.probes = b.probes
      BY <1>b, <1>c, <3>1 DEF Breakers
    <3>3. asked' = 0 /\ b.probes = 0
      BY <1>1, <1>3, <2>2 DEF BreakerInv
    <3>4. QED BY <3>2, <3>3, GuardConstants DEF BreakerInv, ProbesBounded
  <2>3. CASE b.state = "closed" /\ ~Opens(breaker)
    <3>1. breaker' = [b EXCEPT !.fails = b.fails + 1, !.age = b.age, !.state = b.state]
      BY <1>1, <1>3, <2>3 DEF Failed
    <3>2. breaker' \in Breakers /\ breaker'.state = "closed" /\ breaker'.probes = b.probes
      BY <1>b, <2>3, <3>1 DEF Breakers
    <3>3. QED BY <1>1, <2>3, <3>2 DEF BreakerInv, ProbesBounded
  <2>4. CASE b.state = "open"
    <3>1. breaker' = b /\ asked' = asked
      BY <1>1, <1>3, <2>4 DEF Failed, Opens
    <3>2. QED BY <1>1, <3>1 DEF BreakerInv, ProbesBounded
  <2>5. QED BY <1>1, <2>1, <2>2, <2>3, <2>4 DEF Breakers
<1>4. QED BY <1>2, <1>3

LEMMA StepProbes ==
  BreakerInv /\ [GuardsNext]_guardVars => BreakerInv'
<1> SUFFICES ASSUME BreakerInv, [GuardsNext]_guardVars PROVE BreakerInv'
  OBVIOUS
<1>1. ASSUME NEW t \in Threads, Ask(t) PROVE BreakerInv'
  BY <1>1, AskProbes
<1>2. ASSUME NEW t \in Threads, Generated(t) PROVE BreakerInv'
  BY <1>2, AnswerProbes DEF Generated
<1>3. ASSUME NEW t \in Threads, GenerationFails(t) PROVE BreakerInv'
  BY <1>3, AnswerProbes DEF GenerationFails
<1>4. CASE Tick
  <2>1. PICK b \in Breakers : b = breaker
    BY DEF BreakerInv
  <2>2. breaker' = [b EXCEPT !.age = Older(b.age, Cooldown)] /\ asked' = asked
    BY <1>4, <2>1 DEF Tick
  <2>3. Older(b.age, Cooldown) \in 0..Cooldown
    BY <2>1, GuardConstants DEF Older, Breakers
  <2>4. breaker' \in Breakers /\ breaker'.state = b.state /\ breaker'.probes = b.probes
    BY <2>1, <2>2, <2>3 DEF Breakers
  <2>5. QED BY <2>1, <2>2, <2>4 DEF BreakerInv, ProbesBounded
<1>5. CASE UNCHANGED <<breaker, asked>>
  BY <1>5 DEF BreakerInv, ProbesBounded
<1>6. QED
  BY <1>1, <1>2, <1>3, <1>4, <1>5
  DEF GuardsNext, QueryStep, Asks, Arrive, Admit, Interrupted, ComputeTable, guardVars

-----------------------------------------------------------------------------

\* guard.py:204, for every number of threads and every limit: a breaker that is not closed lets no
\* more than half_open_max_probes generations through for each cooldown, none of them while it is
\* open, however late the answers come.
THEOREM ProbesAreBounded == GuardsSpec => []ProbesBounded
<1>1. BreakerInv => ProbesBounded
  BY DEF BreakerInv
<1>2. QED BY InitProbes, StepProbes, <1>1, PTL DEF GuardsSpec

\* guard.py:76, for every number of threads and users and every limit: a request waits for the lock
\* with the time it came by, and in no stretch of time that is shorter than the window by the longest
\* such wait are more requests let through than the limits allow.
THEOREM RequestsAreLimited ==
  ASSUME Span + MaxWait <= Window
  PROVE  GuardsSpec => []WindowsHeld
<1>1. GuardsInit => LimiterInv
  BY InitLimits
<1>2. LimiterInv /\ [GuardsNext]_guardVars => LimiterInv'
  BY StepLimits
<1>3. LimiterInv => WindowsHeld
  BY LimiterHolds
<1>4. QED BY <1>1, <1>2, <1>3, PTL DEF GuardsSpec

\* The two together, which is what the run checks.
THEOREM GuardsNeverExceeded ==
  ASSUME Span + MaxWait <= Window
  PROVE  GuardsSpec => []GuardsHold
<1>1. GuardsSpec => []WindowsHeld
  BY RequestsAreLimited
<1>2. ProbesBounded /\ WindowsHeld => GuardsHold
  BY DEF GuardsHold
<1>3. QED BY ProbesAreBounded, <1>1, <1>2, PTL

-----------------------------------------------------------------------------
(* The types.                                                               *)

\* The places of a process: outside the queues, and from the selection of a task on.
Outside ==
  {"idle", "ins_facts", "ins_vectors", "ins_ready", "ins_failed",
   "del_mark", "del_off", "del_unready", "del_vectors", "del_enqueue", "del_error", "del_tier",
   "del_done", "reb_mark", "reb_request", "reb_unready", "reb_failed",
   "sum_save", "sum_unready", "sum_vectors", "sum_enqueue", "sum_error", "sum_ready", "sum_done",
   "pump", "tier_list", "tier_check", "tier_enqueue", "tier_pump"}
AtWork == {"claim", "anchor", "tier_look", "tier_set", "sync_drop", "sync_look", "sync_embed",
           "sync_clear", "sync_off", "sync_delete", "sync_upsert", "sync_ready", "complete", "fail"}
Labels == Outside \cup AtWork

\* What a process is doing, and that it has room left for the task it has taken from the queue.
Jobs == [at : Labels, rev : 0..MaxCalls, urgent : BOOLEAN, left : 0..2, tier : {"hot", "cold"},
         task : Rows, held : Docs, seen : Rows, fresh : BOOLEAN]
InBudget(p) ==
  job[p].at \in AtWork /\ (job[p].task.stage = "index_sync" \/ job[p].at = "anchor") =>
    job[p].left > 0

TypeInv ==
  /\ doc \in Docs /\ row \in Rows /\ vectors \in 0..MaxCalls
  /\ calls \in 0..MaxCalls /\ faults \in 0..MaxFaults
  /\ job \in [Procs -> Jobs]
  /\ \A p \in Procs : InBudget(p)

\* Rows and documents as the code makes them have their types.
LEMMA Values ==
  ASSUME IndexConstants
  PROVE  /\ MaxCalls \in Nat /\ MaxFaults \in Nat /\ NoDoc \in Docs /\ NoRow \in Rows
         /\ Idle \in Jobs /\ Idle.at = "idle"
         /\ \A s \in {"index", "delete", "rebuild"},
               u \in {"processing", "ready", "failed", "deleting", "deleted", "rebuilding"} :
              Row(s, u) \in Rows
<1>1. MaxCalls \in Nat /\ MaxFaults \in Nat
  BY DEF IndexConstants
<1>2. NoDoc \in Docs
  BY <1>1 DEF NoDoc, Docs
<1>3. \A s \in {"none", "index", "delete", "rebuild"},
        u \in {"none", "processing", "ready", "failed", "deleting", "deleted", "rebuilding"} :
        Row(s, u) \in Rows
  <2> TAKE s \in {"none", "index", "delete", "rebuild"},
           u \in {"none", "processing", "ready", "failed", "deleting", "deleted", "rebuilding"}
  <2> QED BY <1>1 DEF Row, Rows
<1>4. NoRow \in Rows
  BY <1>3 DEF NoRow
<1>5. Idle \in Jobs /\ Idle.at = "idle"
  BY <1>1, <1>2, <1>4 DEF Idle, Jobs, Labels, Outside
<1> QED BY <1>1, <1>2, <1>3, <1>4, <1>5

\* And so have the rows the queues make of them.
LEMMA QueueRows ==
  ASSUME IndexConstants, NEW r \in Rows
  PROVE  /\ Claimed(r) \in Rows /\ Completed(r) \in Rows /\ MarkedFailed(r) \in Rows
         /\ Claimed(r).stage = r.stage
         /\ \A stage \in {"index_sync", "storage_lifecycle"},
               op \in {"delete_document", "upsert_summary", "migrate_storage_tier"},
               anchor \in 0..MaxCalls, due \in BOOLEAN :
              Enqueued(r, stage, op, anchor, due) \in Rows
<1>1. Claimed(r) \in Rows /\ Completed(r) \in Rows /\ MarkedFailed(r) \in Rows
  BY DEF Rows, Claimed, Completed, MarkedFailed
<1>2. Claimed(r).stage = r.stage
  BY DEF Rows, Claimed
<1>3. ASSUME NEW stage \in {"index_sync", "storage_lifecycle"},
             NEW op \in {"delete_document", "upsert_summary", "migrate_storage_tier"},
             NEW anchor \in 0..MaxCalls, NEW due \in BOOLEAN
      PROVE  Enqueued(r, stage, op, anchor, due) \in Rows
  BY DEF Rows, Enqueued
<1> QED BY <1>1, <1>2, <1>3

\* A process goes on to another place: with its task only from a place where it has it.
LEMMA GoesOn ==
  ASSUME IndexConstants, TypeInv, NEW p \in Procs, NEW label \in Labels, Goto(p, label),
         label \in AtWork => job[p].at \in AtWork,
         label = "anchor" => job[p].task.stage = "index_sync"
  PROVE  job' \in [Procs -> Jobs] /\ \A q \in Procs : InBudget(q)'
<1>0. Idle \in Jobs /\ Idle.at = "idle" /\ "idle" \notin AtWork
  BY Values DEF AtWork
<1>1. CASE label = "idle"
  <2>1. job' = [job EXCEPT ![p] = Idle]
    BY <1>1 DEF Goto, Return
  <2> QED BY <1>0, <2>1 DEF TypeInv, InBudget
<1>2. CASE label # "idle"
  <2>1. job' = [job EXCEPT ![p].at = label, ![p].fresh = FALSE]
    BY <1>2 DEF Goto
  <2>2. job[p] \in Jobs /\ InBudget(p)
    BY DEF TypeInv
  <2>3. job'[p] \in Jobs /\ job'[p].task = job[p].task /\ job'[p].left = job[p].left
        /\ job'[p].at = label
    BY <2>1, <2>2 DEF TypeInv, Jobs
  <2>4. \A q \in Procs \ {p} : job'[q] = job[q]
    BY <2>1 DEF TypeInv
  <2>5. job' \in [Procs -> Jobs]
    BY <2>1, <2>3, <2>4 DEF TypeInv
  <2> QED BY <2>2, <2>3, <2>4, <2>5 DEF TypeInv, InBudget
<1> QED BY <1>1, <1>2

\* The shapes of a step keep the types.
LEMMA SavesDoc ==
  ASSUME IndexConstants, TypeInv, NEW p \in Procs, NEW label, NEW d \in Docs, NEW next \in Labels,
         SaveDoc(p, label, d, next), next \in AtWork => label \in AtWork,
         next # "anchor"
  PROVE  TypeInv'
<1>1. job[p].at = label /\ Goto(p, next) /\ doc' = d /\ UNCHANGED <<row, vectors, calls, faults>>
  BY DEF SaveDoc, Copied, At
<1>2. job' \in [Procs -> Jobs] /\ \A q \in Procs : InBudget(q)'
  BY <1>1, GoesOn
<1> QED BY <1>1, <1>2 DEF TypeInv

LEMMA SavesRow ==
  ASSUME IndexConstants, TypeInv, NEW p \in Procs, NEW label, NEW r \in Rows, NEW next \in Labels,
         SaveRow(p, label, r, next), next \in AtWork => label \in AtWork,
         next # "anchor"
  PROVE  TypeInv'
<1>1. job[p].at = label /\ Goto(p, next) /\ row' = r /\ UNCHANGED <<doc, vectors, calls, faults>>
  BY DEF SaveRow, Copied, At
<1>2. job' \in [Procs -> Jobs] /\ \A q \in Procs : InBudget(q)'
  BY <1>1, GoesOn
<1> QED BY <1>1, <1>2 DEF TypeInv

LEMMA WritesRow ==
  ASSUME IndexConstants, TypeInv, NEW p \in Procs, NEW label, NEW r \in Rows, NEW next \in Labels,
         WriteRow(p, label, r, next), next \in AtWork => label \in AtWork,
         next = "anchor" => job[p].task.stage = "index_sync"
  PROVE  TypeInv'
<1>1. job[p].at = label /\ Goto(p, next) /\ row' = r /\ UNCHANGED <<doc, vectors, calls, faults>>
  BY DEF WriteRow, At
<1>2. job' \in [Procs -> Jobs] /\ \A q \in Procs : InBudget(q)'
  BY <1>1, GoesOn
<1> QED BY <1>1, <1>2 DEF TypeInv

LEMMA CallsVectors ==
  ASSUME IndexConstants, TypeInv, NEW p \in Procs, NEW label, NEW call, NEW v \in 0..MaxCalls,
         NEW next \in Labels, NEW raised \in Labels, Vectors(p, label, call, v, next, raised),
         next \in AtWork => label \in AtWork, raised \in AtWork => label \in AtWork,
         next # "anchor", raised # "anchor"
  PROVE  TypeInv'
<1>1. job[p].at = label /\ UNCHANGED <<doc, row, calls>>
  BY DEF Vectors, At
<1>2. CASE vectors' = v /\ Goto(p, next) /\ UNCHANGED faults
  <2>1. job' \in [Procs -> Jobs] /\ \A q \in Procs : InBudget(q)'
    BY <1>1, <1>2, GoesOn
  <2> QED BY <1>1, <1>2, <2>1 DEF TypeInv
<1>3. CASE faults < MaxFaults /\ faults' = faults + 1 /\ Goto(p, raised) /\ UNCHANGED vectors
  <2>1. job' \in [Procs -> Jobs] /\ \A q \in Procs : InBudget(q)'
    BY <1>1, <1>3, GoesOn
  <2>2. faults' \in 0..MaxFaults
    BY <1>3, Values DEF TypeInv
  <2> QED BY <1>1, <1>3, <2>1, <2>2 DEF TypeInv
<1> QED BY <1>2, <1>3 DEF Vectors

\* A step that only changes what its process is doing keeps them if that has its type.
LEMMA OwnJob ==
  ASSUME TypeInv, NEW p \in Procs, UNCHANGED <<doc, row, vectors, calls, faults>>,
         NEW j \in Jobs, job' = [job EXCEPT ![p] = j],
         j.at \in AtWork /\ (j.task.stage = "index_sync" \/ j.at = "anchor") => j.left > 0
  PROVE  TypeInv'
<1>1. job' \in [Procs -> Jobs] /\ \A q \in Procs : InBudget(q)'
  BY DEF TypeInv, InBudget
<1> QED BY <1>1 DEF TypeInv

\* Every call begins with a copy of the document and outside the queues.
LEMMA Begins ==
  ASSUME IndexConstants, TypeInv, NEW p \in Procs, NEW op, NEW label \in Outside,
         NEW urgent \in BOOLEAN, Begin(p, op, label, urgent)
  PROVE  TypeInv'
<1> DEFINE j == [Idle EXCEPT !.at = label, !.rev = calls + 1, !.held = doc, !.urgent = urgent,
                             !.left = 1]
<1>1. calls' \in 0..MaxCalls /\ calls + 1 \in 0..MaxCalls
  BY Values DEF Begin, TypeInv
<1>2. j \in Jobs /\ j.at = label
  <2>1. label \in Labels /\ doc \in Docs /\ Idle \in Jobs
    BY Values DEF Labels, TypeInv
  <2>2. ASSUME NEW k \in Jobs, NEW n \in 0..MaxCalls, NEW m \in 0..2
        PROVE  /\ [k EXCEPT !.at = label, !.rev = n, !.held = doc, !.urgent = urgent,
                             !.left = m] \in Jobs
               /\ [k EXCEPT !.at = label, !.rev = n, !.held = doc, !.urgent = urgent,
                             !.left = m].at = label
    BY <2>1 DEF Jobs
  <2>3. 1 \in 0..2
    OBVIOUS
  <2> QED BY <1>1, <2>1, <2>2, <2>3
<1>3. label \notin AtWork
  BY DEF Outside, AtWork
<1>4. job' = [job EXCEPT ![p] = j]
  BY DEF Begin
<1>5. job' \in [Procs -> Jobs] /\ \A q \in Procs : InBudget(q)'
  <2> HIDE DEF j
  <2> QED BY <1>2, <1>3, <1>4 DEF TypeInv, InBudget
<1> QED BY <1>1, <1>5 DEF Begin, TypeInv

LEMMA InsertTypes ==
  ASSUME IndexConstants, TypeInv, NEW p \in Procs, InsertStep(p)
  PROVE  TypeInv'
<1>0. job[p] \in Jobs
  BY DEF TypeInv
<1>1. CASE InsertFacts(p)
  <2>1. doc' \in Docs
    BY <1>1, Values DEF InsertFacts, NoDoc, Docs
  <2>2. row' \in Rows
    BY <1>1, Values DEF InsertFacts
  <2>3. job' \in [Procs -> Jobs] /\ \A q \in Procs : InBudget(q)'
    <3>1. Goto(p, "ins_vectors")
      BY <1>1 DEF InsertFacts
    <3> QED BY <3>1, GoesOn DEF Labels, Outside, AtWork
  <2> QED BY <1>1, <2>1, <2>2, <2>3 DEF InsertFacts, TypeInv
<1>2. CASE InsertVectors(p)
  <2>1. job[p].rev \in 0..MaxCalls
    BY <1>0 DEF Jobs
  <2> QED BY <1>2, <2>1, CallsVectors DEF InsertVectors, Labels, Outside, AtWork
<1>3. ASSUME NEW label, NEW status \in {"ready", "failed"}, NEW ready \in BOOLEAN,
             NEW next \in {"idle", "pump"}, InsertOutcome(p, label, status, ready, Goto(p, next))
      PROVE  TypeInv'
  <2>1. doc' \in Docs
    BY <1>3 DEF InsertOutcome, TypeInv, Docs
  <2>2. row' \in Rows
    BY <1>3, Values DEF InsertOutcome
  <2>3. job' \in [Procs -> Jobs] /\ \A q \in Procs : InBudget(q)'
    <3>1. Goto(p, next)
      BY <1>3 DEF InsertOutcome
    <3> QED BY <3>1, GoesOn DEF Labels, Outside, AtWork
  <2> QED BY <1>3, <2>1, <2>2, <2>3 DEF InsertOutcome, TypeInv
<1>4. CASE InsertReady(p)
  BY <1>3, <1>4 DEF InsertReady
<1>5. CASE InsertFailed(p)
  <2>1. Goto(p, "idle") <=> Return(p)
    BY DEF Goto
  <2>2. InsertOutcome(p, "ins_failed", "failed", FALSE, Goto(p, "idle"))
    BY <1>5, <2>1 DEF InsertFailed, InsertOutcome
  <2> QED BY <1>3, <2>2
<1> QED BY <1>1, <1>2, <1>4, <1>5 DEF InsertStep

LEMMA DeleteTypes ==
  ASSUME IndexConstants, TypeInv, NEW p \in Procs, DeleteStep(p)
  PROVE  TypeInv'
<1> USE DEF Labels, Outside, AtWork
<1>0. /\ job[p].rev \in 0..MaxCalls /\ job[p].seen \in Rows
      /\ [job[p].held EXCEPT !.active = FALSE] \in Docs
      /\ [job[p].held EXCEPT !.ready = FALSE] \in Docs
      /\ [job[p].held EXCEPT !.tier = "cold"] \in Docs
  <2>1. job[p] \in Jobs
    BY DEF TypeInv
  <2>2. job[p].held \in Docs /\ job[p].rev \in 0..MaxCalls /\ job[p].seen \in Rows
    BY <2>1 DEF Jobs
  <2> QED BY <2>2 DEF Docs
<1>1. CASE DeleteMark(p)
  BY <1>1, Values, WritesRow DEF DeleteMark
<1>2. CASE DeleteOff(p)
  BY <1>0, <1>2, SavesDoc DEF DeleteOff
<1>3. CASE DeleteUnready(p)
  BY <1>0, <1>3, SavesDoc DEF DeleteUnready
<1>4. CASE DeleteVectors(p)
  BY <1>4, Values, CallsVectors DEF DeleteVectors
<1>5. CASE DeleteEnqueue(p)
  <2>1. Enqueued(job[p].seen, "index_sync", "delete_document", job[p].rev, FALSE) \in Rows
    BY <1>0, QueueRows
  <2> QED BY <1>5, <2>1, SavesRow DEF DeleteEnqueue
<1>6. CASE DeleteError(p)
  BY <1>0, <1>6, SavesDoc DEF DeleteError
<1>7. CASE DeleteTier(p)
  BY <1>0, <1>7, SavesDoc DEF DeleteTier
<1>8. CASE DeleteDone(p)
  BY <1>8, Values, WritesRow DEF DeleteDone
<1> QED BY <1>1, <1>2, <1>3, <1>4, <1>5, <1>6, <1>7, <1>8 DEF DeleteStep

LEMMA RebuildTypes ==
  ASSUME IndexConstants, TypeInv, NEW p \in Procs, RebuildStep(p)
  PROVE  TypeInv'
<1> USE DEF Labels, Outside, AtWork
<1>1. CASE RebuildMark(p)
  BY <1>1, Values, WritesRow DEF RebuildMark
<1>2. CASE RebuildRequest(p)
  <2>1. CASE Goto(p, "ins_facts") /\ UNCHANGED faults
    <3>1. job' \in [Procs -> Jobs] /\ \A q \in Procs : InBudget(q)'
      BY <2>1, GoesOn
    <3> QED BY <1>2, <2>1, <3>1 DEF RebuildRequest, TypeInv
  <2>2. CASE Goto(p, "reb_unready") /\ faults < MaxFaults /\ faults' = faults + 1
    <3>1. job' \in [Procs -> Jobs] /\ \A q \in Procs : InBudget(q)'
      BY <2>2, GoesOn
    <3>2. faults' \in 0..MaxFaults
      BY <2>2, Values DEF TypeInv
    <3> QED BY <1>2, <3>1, <3>2 DEF RebuildRequest, TypeInv
  <2> QED BY <1>2, <2>1, <2>2 DEF RebuildRequest
<1>3. CASE RebuildUnready(p)
  <2>1. job[p].held \in Docs
    BY DEF TypeInv, Jobs
  <2>2. [job[p].held EXCEPT !.ready = FALSE] \in Docs
    BY <2>1 DEF Docs
  <2> QED BY <1>3, <2>2, SavesDoc DEF RebuildUnready
<1>4. CASE RebuildFailed(p)
  BY <1>4, Values, WritesRow DEF RebuildFailed
<1> QED BY <1>1, <1>2, <1>3, <1>4 DEF RebuildStep

LEMMA SummaryTypes ==
  ASSUME IndexConstants, TypeInv, NEW p \in Procs, SummaryStep(p)
  PROVE  TypeInv'
<1> USE DEF Labels, Outside, AtWork
<1>0. /\ job[p].rev \in 0..MaxCalls /\ job[p].seen \in Rows /\ job[p].urgent \in BOOLEAN
      /\ [job[p].held EXCEPT !.summary = job[p].rev] \in Docs
      /\ [job[p].held EXCEPT !.ready = FALSE] \in Docs
      /\ [job[p].held EXCEPT !.ready = TRUE] \in Docs
  <2>1. job[p] \in Jobs
    BY DEF TypeInv
  <2>2. /\ job[p].held \in Docs /\ job[p].rev \in 0..MaxCalls /\ job[p].seen \in Rows
        /\ job[p].urgent \in BOOLEAN
    BY <2>1 DEF Jobs
  <2> QED BY <2>2 DEF Docs
<1>1. CASE SummarySave(p)
  <2>1. Goto(p, "sum_unready") /\ doc' \in Docs /\ UNCHANGED <<row, vectors, calls, faults>>
    BY <1>0, <1>1 DEF SummarySave
  <2>2. job' \in [Procs -> Jobs] /\ \A q \in Procs : InBudget(q)'
    BY <2>1, GoesOn
  <2> QED BY <2>1, <2>2 DEF TypeInv
<1>2. CASE SummaryUnready(p)
  <2>1. (IF job[p].urgent THEN "sum_vectors" ELSE "sum_enqueue") \in Outside
    OBVIOUS
  <2>2. \A l \in Outside : l \in Labels /\ l \notin AtWork /\ l # "anchor"
    OBVIOUS
  <2> QED BY <1>0, <1>2, <2>1, <2>2, SavesDoc DEF SummaryUnready
<1>3. CASE SummaryVectors(p)
  BY <1>0, <1>3, CallsVectors DEF SummaryVectors
<1>4. CASE SummaryEnqueue(p)
  <2>1. Enqueued(job[p].seen, "index_sync", "upsert_summary", job[p].rev, ~job[p].urgent) \in Rows
    BY <1>0, QueueRows
  <2>2. (IF job[p].urgent THEN "sum_error" ELSE "idle") \in Outside
    OBVIOUS
  <2>3. \A l \in Outside : l \in Labels /\ l \notin AtWork /\ l # "anchor"
    OBVIOUS
  <2> QED BY <1>4, <2>1, <2>2, <2>3, SavesRow DEF SummaryEnqueue
<1>5. CASE SummaryError(p)
  BY <1>0, <1>5, SavesDoc DEF SummaryError
<1>6. CASE SummaryReady(p)
  BY <1>0, <1>6, SavesDoc DEF SummaryReady
<1>7. CASE SummaryDone(p)
  <2>1. (IF job[p].seen = NoRow THEN NoRow ELSE Completed(job[p].seen)) \in Rows
    BY <1>0, Values, QueueRows
  <2> QED BY <1>7, <2>1, SavesRow DEF SummaryDone
<1> QED BY <1>1, <1>2, <1>3, <1>4, <1>5, <1>6, <1>7 DEF SummaryStep

\* A task is taken from a queue with room for one, and only from the place that looks for one.
LEMMA Selects ==
  ASSUME IndexConstants, TypeInv, NEW p \in Procs, NEW label, NEW stage,
         Select(p, label, stage, "claim", Goto(p, "tier_list")) \/ Select(p, label, stage, "claim", Return(p))
  PROVE  TypeInv'
<1>1. job[p] \in Jobs /\ UNCHANGED <<doc, row, vectors, calls, faults>>
  BY DEF TypeInv, Select
<1>2. CASE Claimable(row, stage) /\ job[p].left > 0
  <2>1. job' = [job EXCEPT ![p].at = "claim", ![p].task = Claimed(row)]
    BY <1>2 DEF Select
  <2>2. "claim" \in Labels /\ Claimed(row) \in Rows
    BY QueueRows DEF Labels, AtWork, TypeInv
  <2>3. PICK k \in Jobs : k = job[p]
    BY <1>1
  <2>4. [k EXCEPT !.at = "claim", !.task = Claimed(row)] \in Jobs
        /\ [k EXCEPT !.at = "claim", !.task = Claimed(row)].left = k.left
    BY <2>2, <2>3 DEF Jobs
  <2>5. job' = [job EXCEPT ![p] = [k EXCEPT !.at = "claim", !.task = Claimed(row)]]
    BY <2>1, <2>3
  <2> QED BY <1>1, <1>2, <2>3, <2>4, <2>5, OwnJob
<1>3. CASE ~(Claimable(row, stage) /\ job[p].left > 0)
  <2>1. Goto(p, "tier_list") \/ Goto(p, "idle")
    BY <1>3 DEF Select, Goto
  <2>2. job' \in [Procs -> Jobs] /\ \A q \in Procs : InBudget(q)'
    BY <2>1, GoesOn DEF Labels, Outside, AtWork
  <2> QED BY <1>1, <2>2 DEF TypeInv
<1> QED BY <1>2, <1>3

\* After a task the process is outside the queues.
LEMMA NextTasks ==
  ASSUME IndexConstants, TypeInv, NEW p \in Procs, NEW stage, NEW stop \in BOOLEAN,
         NextTask(p, stage, stop), stage = "index_sync" => job[p].left > 0
  PROVE  job' \in [Procs -> Jobs] /\ \A q \in Procs : InBudget(q)'
<1>1. PICK k \in Jobs : k = job[p]
  BY DEF TypeInv
<1>2. CASE stage = "index_sync"
  <2> DEFINE to == IF stop THEN "tier_list" ELSE "pump"
  <2>1. job' = [job EXCEPT ![p].at = to, ![p].left = @ - 1, ![p].fresh = FALSE]
    BY <1>2 DEF NextTask
  <2>2. to \in Outside /\ to \notin AtWork /\ to \in Labels
    BY DEF Labels, Outside, AtWork
  <2> HIDE DEF to
  <2>3. k.left - 1 \in 0..2
    BY <1>1, <1>2 DEF Jobs
  <2>4. ASSUME NEW n \in 0..2
        PROVE  LET i == [k EXCEPT !.at = to, !.left = n, !.fresh = FALSE]
               IN  i \in Jobs /\ i.at = to
    BY <2>2 DEF Jobs
  <2>5. job' = [job EXCEPT ![p] = [k EXCEPT !.at = to, !.left = k.left - 1, !.fresh = FALSE]]
    BY <1>1, <2>1
  <2> QED BY <2>2, <2>3, <2>4, <2>5 DEF TypeInv, InBudget
<1>3. CASE stage # "index_sync"
  <2>1. Goto(p, "idle")
    BY <1>3 DEF NextTask, Goto
  <2> QED BY <2>1, GoesOn DEF Labels, Outside, AtWork
<1> QED BY <1>2, <1>3

LEMMA QueueTypes ==
  ASSUME IndexConstants, TypeInv, NEW p \in Procs,
         \/ SelectIndex(p) \/ SelectTier(p) \/ Claim(p) \/ CheckAnchor(p) \/ MarkCompleted(p)
         \/ MarkFailed(p) \/ ListDue(p) \/ CheckBlocked(p) \/ EnqueueMigration(p)
         \/ MigrationLook(p) \/ MigrationSet(p)
  PROVE  TypeInv'
<1> USE DEF Labels, Outside, AtWork
<1>0. /\ job[p] \in Jobs /\ job[p].task \in Rows /\ job[p].seen \in Rows
      /\ [job[p].held EXCEPT !.tier = job[p].tier] \in Docs
  <2>1. job[p] \in Jobs
    BY DEF TypeInv
  <2>2. job[p].held \in Docs /\ job[p].tier \in {"hot", "cold"} /\ job[p].task \in Rows
        /\ job[p].seen \in Rows
    BY <2>1 DEF Jobs
  <2> QED BY <2>1, <2>2 DEF Docs
<1>1. CASE SelectIndex(p)
  BY <1>1, Selects DEF SelectIndex
<1>2. CASE SelectTier(p)
  BY <1>2, Selects DEF SelectTier
<1>3. CASE Claim(p)
  <2>1. (IF job[p].task.stage = "index_sync" THEN "anchor" ELSE "tier_look") \in AtWork
    OBVIOUS
  <2>2. \A l \in AtWork : l \in Labels
    OBVIOUS
  <2>3. "claim" \in AtWork
    OBVIOUS
  <2> QED BY <1>0, <1>3, <2>1, <2>2, <2>3, WritesRow DEF Claim
<1>4. CASE CheckAnchor(p)
  <2>0. job[p].at = "anchor" /\ UNCHANGED <<doc, row, vectors, calls, faults>>
    BY <1>4 DEF CheckAnchor, At
  <2>1. CASE StaleAnchor(job[p].task)
    <3>1. (row.status = "pending") \in BOOLEAN
      OBVIOUS
    <3>2. NextTask(p, "index_sync", row.status = "pending")
      BY <1>4, <2>1 DEF CheckAnchor
    <3>3. job[p].left > 0
      BY <2>0 DEF TypeInv, InBudget
    <3>4. job' \in [Procs -> Jobs] /\ \A q \in Procs : InBudget(q)'
      BY <3>1, <3>2, <3>3, NextTasks
    <3> QED BY <2>0, <3>4 DEF TypeInv
  <2>2. CASE ~StaleAnchor(job[p].task)
    <3>1. Goto(p, "sync_drop") \/ Goto(p, "sync_look")
      BY <1>4, <2>2 DEF CheckAnchor
    <3>2. \A l \in {"sync_drop", "sync_look"} : l \in Labels /\ l # "anchor"
      OBVIOUS
    <3>3. job[p].at \in AtWork
      BY <2>0
    <3> HIDE DEF Labels, Outside, AtWork
    <3>4. job' \in [Procs -> Jobs] /\ \A q \in Procs : InBudget(q)'
      BY <3>1, <3>2, <3>3, GoesOn
    <3> QED BY <2>0, <3>4 DEF TypeInv
  <2> QED BY <2>1, <2>2
<1>5. CASE MarkCompleted(p)
  <2>0. job[p].at = "complete" /\ UNCHANGED <<doc, vectors, calls, faults>>
        /\ row' = Completed(job[p].seen) /\ NextTask(p, job[p].task.stage, FALSE)
    BY <1>5 DEF MarkCompleted, Copied, At
  <2>1. job[p].task.stage = "index_sync" => job[p].left > 0
    BY <2>0 DEF TypeInv, InBudget
  <2>2. job' \in [Procs -> Jobs] /\ \A q \in Procs : InBudget(q)'
    BY <2>0, <2>1, NextTasks
  <2>3. row' \in Rows
    BY <1>0, <2>0, QueueRows
  <2> QED BY <2>0, <2>2, <2>3 DEF TypeInv
<1>6. CASE MarkFailed(p)
  BY <1>0, <1>6, QueueRows, SavesRow DEF MarkFailed
<1>7. CASE ListDue(p)
  <2> DEFINE to == IF doc.known /\ doc.tier # DesiredTier(doc) THEN "tier_check" ELSE "tier_pump"
  <2>1. UNCHANGED <<doc, row, vectors, calls, faults>>
        /\ job' = [job EXCEPT ![p].left = 1, ![p].at = to]
    BY <1>7 DEF ListDue
  <2>2. to \in Labels /\ to \notin AtWork
    OBVIOUS
  <2> HIDE DEF to, Labels, Outside, AtWork
  <2>3. PICK k \in Jobs : k = job[p]
    BY <1>0
  <2>4. ASSUME NEW n \in 0..2
        PROVE  [k EXCEPT !.left = n, !.at = to] \in Jobs /\ [k EXCEPT !.left = n, !.at = to].at = to
    BY <2>2 DEF Jobs
  <2>5. 1 \in 0..2
    OBVIOUS
  <2>6. job' = [job EXCEPT ![p] = [k EXCEPT !.left = 1, !.at = to]]
    BY <2>1, <2>3
  <2> QED BY <2>1, <2>2, <2>4, <2>5, <2>6, OwnJob
<1>8. CASE CheckBlocked(p)
  <2>1. UNCHANGED <<doc, row, vectors, calls, faults>>
        /\ (Goto(p, "tier_pump") \/ Goto(p, "tier_enqueue"))
    BY <1>8 DEF CheckBlocked
  <2>2. job' \in [Procs -> Jobs] /\ \A q \in Procs : InBudget(q)'
    BY <2>1, GoesOn
  <2> QED BY <2>1, <2>2 DEF TypeInv
<1>9. CASE EnqueueMigration(p)
  <2>1. Enqueued(job[p].seen, "storage_lifecycle", "migrate_storage_tier", 0, TRUE) \in Rows
    <3>1. 0 \in 0..MaxCalls
      BY Values
    <3> QED BY <1>0, <3>1, QueueRows
  <2> QED BY <1>9, <2>1, SavesRow DEF EnqueueMigration
<1>10. CASE MigrationLook(p)
  <2> DEFINE to == IF doc.tier # DesiredTier(doc) THEN "tier_set" ELSE "sync_look"
  <2>1. UNCHANGED <<doc, row, vectors, calls, faults>> /\ job[p].at = "tier_look"
        /\ job' = [job EXCEPT ![p].tier = DesiredTier(doc), ![p].at = to]
    BY <1>10 DEF MigrationLook, At
  <2>2. to \in Labels /\ to # "anchor" /\ DesiredTier(doc) \in {"hot", "cold"} /\ "tier_look" \in AtWork
    BY DEF DesiredTier
  <2> HIDE DEF to, Labels, Outside, AtWork
  <2>3. PICK k \in Jobs : k = job[p]
    BY <1>0
  <2> DEFINE i == [k EXCEPT !.tier = DesiredTier(doc), !.at = to]
  <2>4. i \in Jobs /\ i.at = to /\ i.task = k.task /\ i.left = k.left
    BY <2>2 DEF Jobs
  <2>5. job' = [job EXCEPT ![p] = i]
    BY <2>1, <2>3
  <2>6. k.task.stage = "index_sync" => k.left > 0
    BY <2>1, <2>2, <2>3 DEF TypeInv, InBudget
  <2> HIDE DEF i
  <2> QED BY <2>1, <2>2, <2>4, <2>5, <2>6, OwnJob
<1>11. CASE MigrationSet(p)
  BY <1>0, <1>11, SavesDoc DEF MigrationSet
<1> QED BY <1>1, <1>2, <1>3, <1>4, <1>5, <1>6, <1>7, <1>8, <1>9, <1>10, <1>11

LEMMA SyncTypes ==
  ASSUME IndexConstants, TypeInv, NEW p \in Procs, SyncStep(p)
  PROVE  TypeInv'
<1> USE DEF Labels, Outside, AtWork
<1>0. /\ job[p] \in Jobs /\ job[p].held.summary \in 0..MaxCalls
      /\ [job[p].held EXCEPT !.ready = FALSE] \in Docs
      /\ [job[p].held EXCEPT !.ready = TRUE] \in Docs
      /\ vectors \in 0..MaxCalls /\ 0 \in 0..MaxCalls
  <2>1. job[p] \in Jobs
    BY DEF TypeInv
  <2>2. job[p].held \in Docs
    BY <2>1 DEF Jobs
  <2> HIDE DEF Labels, Outside, AtWork
  <2>3. vectors \in 0..MaxCalls /\ 0 \in 0..MaxCalls
    BY Values DEF TypeInv
  <2> QED BY <2>1, <2>2, <2>3 DEF Docs
<1>1. CASE SyncDrop(p)
  BY <1>0, <1>1, CallsVectors DEF SyncDrop
<1>2. CASE SyncLook(p)
  <2> DEFINE to == IF ~doc.active THEN "sync_clear" ELSE IF doc.summary = 0 THEN "fail" ELSE "sync_embed"
  <2>1. UNCHANGED <<doc, row, vectors, calls, faults>> /\ job[p].at = "sync_look"
        /\ job' = [job EXCEPT ![p].held = doc, ![p].at = to]
    BY <1>2 DEF SyncLook, At
  <2>2. to \in Labels /\ to # "anchor" /\ doc \in Docs /\ "sync_look" \in AtWork
    BY DEF TypeInv
  <2> HIDE DEF to, Labels, Outside, AtWork
  <2>3. PICK k \in Jobs : k = job[p]
    BY <1>0
  <2> DEFINE i == [k EXCEPT !.held = doc, !.at = to]
  <2>4. i \in Jobs /\ i.at = to /\ i.task = k.task /\ i.left = k.left
    BY <2>2 DEF Jobs
  <2>5. job' = [job EXCEPT ![p] = i]
    BY <2>1, <2>3
  <2>6. k.task.stage = "index_sync" => k.left > 0
    BY <2>1, <2>2, <2>3 DEF TypeInv, InBudget
  <2> HIDE DEF i
  <2> QED BY <2>1, <2>2, <2>4, <2>5, <2>6, OwnJob
<1>3. CASE SyncEmbed(p)
  BY <1>0, <1>3, CallsVectors DEF SyncEmbed
<1>4. CASE SyncClear(p)
  BY <1>0, <1>4, CallsVectors DEF SyncClear
<1>5. CASE SyncOff(p)
  BY <1>0, <1>5, SavesDoc DEF SyncOff
<1>6. CASE SyncDelete(p)
  BY <1>0, <1>6, CallsVectors DEF SyncDelete
<1>7. CASE SyncUpsert(p)
  BY <1>0, <1>7, CallsVectors DEF SyncUpsert
<1>8. CASE SyncReady(p)
  BY <1>0, <1>8, SavesDoc DEF SyncReady
<1> QED BY <1>1, <1>2, <1>3, <1>4, <1>5, <1>6, <1>7, <1>8, QueueTypes DEF SyncStep

LEMMA TypesKept ==
  ASSUME IndexConstants, TypeInv, [Next]_vars
  PROVE  TypeInv'
<1>1. ASSUME NEW p \in Procs, Read(p)
      PROVE  TypeInv'
  <2>1. /\ job' = [job EXCEPT ![p].held = doc, ![p].seen = row, ![p].fresh = TRUE]
        /\ UNCHANGED <<doc, row, vectors, calls, faults>>
    BY <1>1 DEF Read
  <2>2. PICK k \in Jobs : k = job[p]
    BY DEF TypeInv
  <2> DEFINE i == [k EXCEPT !.held = doc, !.seen = row, !.fresh = TRUE]
  <2>3. i \in Jobs /\ i.at = k.at /\ i.task = k.task /\ i.left = k.left
    BY DEF TypeInv, Jobs
  <2>4. job' = [job EXCEPT ![p] = i]
    BY <2>1, <2>2
  <2>5. k.at \in AtWork /\ (k.task.stage = "index_sync" \/ k.at = "anchor") => k.left > 0
    BY <2>2 DEF TypeInv, InBudget
  <2> HIDE DEF i
  <2> QED BY <2>1, <2>3, <2>4, <2>5, OwnJob
<1>2. ASSUME NEW p \in Procs, Call(p)
      PROVE  TypeInv'
  <2>1. \A l \in {"ins_facts", "del_mark", "reb_mark", "sum_save", "pump"} : l \in Outside
    BY DEF Outside
  <2>2. CASE CallInsert(p) \/ CallDelete(p) \/ CallRebuild(p)
    BY <2>1, <2>2, Begins DEF CallInsert, CallDelete, CallRebuild
  <2>3. CASE CallSaveSummary(p)
    BY <2>1, <2>3, Begins DEF CallSaveSummary
  <2>4. CASE CallQuery(p)
    <3> DEFINE i == [Idle EXCEPT !.at = "pump", !.left = 2]
    <3>1. ASSUME NEW k \in Jobs, NEW l \in Labels, NEW n \in 0..2
          PROVE  [k EXCEPT !.at = l, !.left = n] \in Jobs /\ [k EXCEPT !.at = l, !.left = n].at = l
      BY DEF Jobs
    <3>2. i \in Jobs /\ i.at = "pump"
      <4>1. 2 \in 0..2 /\ "pump" \in Labels
        BY <2>1 DEF Labels
      <4> QED BY <3>1, <4>1, Values
    <3>3. "pump" \notin AtWork
      BY DEF AtWork
    <3>4. job' = [job EXCEPT ![p] = i] /\ UNCHANGED <<doc, row, vectors, calls, faults>>
      BY <2>4 DEF CallQuery
    <3> HIDE DEF i
    <3> QED BY <3>2, <3>3, <3>4, OwnJob
  <2> QED BY <1>2, <2>2, <2>3, <2>4 DEF Call
<1>3. ASSUME NEW p \in Procs, Crash(p)
      PROVE  TypeInv'
  <2>1. Goto(p, "idle") /\ faults' \in 0..MaxFaults /\ UNCHANGED <<doc, row, vectors, calls>>
    BY <1>3, Values DEF Crash, Goto, TypeInv
  <2>2. job' \in [Procs -> Jobs] /\ \A q \in Procs : InBudget(q)'
    BY <2>1, GoesOn DEF Labels, Outside, AtWork
  <2> QED BY <2>1, <2>2 DEF TypeInv
<1>4. CASE LeaseExpires \/ BackoffPasses
  <2>1. row' \in Rows
    BY <1>4 DEF LeaseExpires, BackoffPasses, TypeInv, Rows
  <2>2. UNCHANGED <<doc, vectors, job, calls, faults>>
    BY <1>4 DEF LeaseExpires, BackoffPasses
  <2> QED BY <2>1, <2>2 DEF TypeInv, InBudget
<1>5. CASE UNCHANGED vars
  BY <1>5 DEF vars, TypeInv, InBudget
<1> QED
  BY <1>1, <1>2, <1>3, <1>4, <1>5, InsertTypes, DeleteTypes, RebuildTypes, SummaryTypes, SyncTypes
  DEF Next, Step

\* The two rows, the vectors and every process's copies of the rows have their types in every
\* state, for any number of processes that overlap, fail and crash as they like.
THEOREM IndexTyping ==
  ASSUME IndexConstants
  PROVE  Spec => []IndexTypeOK
<1>1. Init => TypeInv
  BY Values DEF Init, TypeInv, InBudget, AtWork
<1>2. TypeInv /\ [Next]_vars => TypeInv'
  BY TypesKept
<1>3. TypeInv => IndexTypeOK
  BY DEF TypeInv, IndexTypeOK, Jobs
<1> QED BY <1>1, <1>2, <1>3, PTL DEF Spec

-----------------------------------------------------------------------------
(* A searchable document is found, as long as calls do not overlap.         *)

\* No two calls run at the same time.
Serial == \A p, q \in Procs : p # q => At(p, "idle") \/ At(q, "idle")

\* At every moment, not only at rest: a document that claims to be searchable has vectors, or its
\* row says who will put them back.
Sound == doc.active /\ doc.ready => vectors # 0 \/ Queued \/ CutOff

\* A request to drop the vectors is only in the row of a document that is off.
Dropped == row.op = "delete_document" => ~doc.active

\* A fresh copy is still what the repository holds, but for the clocks of the row.
SameRequest(r) == r.stage = row.stage /\ r.status = row.status /\ r.op = row.op
Stamped(p) == job[p].fresh => job[p].at \in Rereads /\ job[p].held = doc /\ SameRequest(job[p].seen)

\* What a process knows at each of its places.
Knows(p) ==
  /\ job[p].at \in {"ins_facts", "ins_vectors", "sum_save", "sum_unready", "sum_vectors",
                    "reb_mark", "reb_request"} => job[p].rev # 0
  /\ job[p].at \in {"ins_vectors", "reb_failed"} => ~doc.ready
  /\ job[p].at \in {"ins_ready", "sum_ready", "sum_done", "sync_ready"} => vectors # 0
  /\ job[p].at \in {"del_unready", "del_vectors", "del_enqueue", "del_error", "del_tier",
                    "del_done", "sync_drop"} => ~doc.active
  /\ job[p].at \in {"del_off", "reb_request", "reb_unready"} => CutOff
  /\ job[p].at = "sum_save" => job[p].held = doc
  /\ job[p].at \in AtWork => Queued
  /\ job[p].at \in {"claim", "anchor"} =>
       job[p].task.stage = row.stage /\ job[p].task.status = "processing" /\ job[p].task.op = row.op
  /\ job[p].at \in {"sync_embed", "sync_delete", "sync_upsert"} => job[p].held.summary # 0
  /\ job[p].at = "complete" => vectors # 0 \/ ~(doc.active /\ doc.ready)

SerialInv == Sound /\ Dropped /\ \A p \in Procs : Stamped(p) /\ Knows(p)

\* Two states in which the rows and the vectors are the same are both sound.
LEMMA SoundStays ==
  ASSUME SerialInv, UNCHANGED <<doc, row, vectors>>
  PROVE  Sound' /\ Dropped'
BY DEF SerialInv, Sound, Dropped, Queued, CutOff

\* A process that is idle, or that nobody touches while it is idle, knows nothing.
LEMMA IdleKnows ==
  ASSUME NEW q \in Procs, (job[q].at = "idle" /\ ~job[q].fresh)'
  PROVE  Stamped(q)' /\ Knows(q)'
BY DEF Stamped, Knows, AtWork

\* An idle process has no copies.
LEMMA IdleIsStale ==
  ASSUME SerialInv, NEW q \in Procs, job[q].at = "idle"
  PROVE  ~job[q].fresh
BY DEF SerialInv, Stamped, Rereads

\* When the running process goes on to a label, the others are idle, and what is left to show is
\* what it knows there.
LEMMA Moves ==
  ASSUME TypeInv, Serial, SerialInv, NEW p \in Procs, job[p].at # "idle",
         NEW label \in Labels, Goto(p, label)
  PROVE  /\ label # "idle" => /\ job'[p].at = label
                              /\ job'[p].rev = job[p].rev
                              /\ job'[p].task = job[p].task
                              /\ job'[p].held = job[p].held
         /\ label = "idle" => Knows(p)'
         /\ Sound' /\ Dropped' /\ Knows(p)' => SerialInv'
<1>1. ASSUME NEW q \in Procs \ {p}, job'[q] = job[q]
      PROVE  Stamped(q)' /\ Knows(q)'
  <2>1. job[q].at = "idle"
    BY DEF Serial, At
  <2>2. ~job[q].fresh
    BY <2>1, IdleIsStale
  <2> QED BY <1>1, <2>1, <2>2, IdleKnows
<1>2. CASE label = "idle"
  <2>1. job' = [job EXCEPT ![p] = Idle]
    BY <1>2 DEF Goto, Return
  <2>2. job'[p].at = "idle" /\ ~job'[p].fresh
    BY <2>1 DEF TypeInv, Idle
  <2>3. \A q \in Procs \ {p} : job'[q] = job[q]
    BY <2>1 DEF TypeInv
  <2>4. Stamped(p)' /\ Knows(p)'
    BY <2>2, IdleKnows
  <2> QED BY <1>1, <1>2, <2>3, <2>4 DEF SerialInv
<1>3. CASE label # "idle"
  <2>1. job' = [job EXCEPT ![p].at = label, ![p].fresh = FALSE]
    BY <1>3 DEF Goto
  <2>2. PICK k \in Jobs : k = job[p]
    BY DEF TypeInv
  <2>3. job'[p] = [k EXCEPT !.at = label, !.fresh = FALSE]
    BY <2>1, <2>2 DEF TypeInv
  <2>4. /\ job'[p].at = label /\ ~job'[p].fresh
        /\ job'[p].rev = k.rev /\ job'[p].task = k.task /\ job'[p].held = k.held
    BY <2>3 DEF Jobs
  <2>5. \A q \in Procs \ {p} : job'[q] = job[q]
    BY <2>1 DEF TypeInv
  <2>6. Stamped(p)'
    BY <2>4 DEF Stamped
  <2> QED BY <1>1, <1>3, <2>2, <2>4, <2>5, <2>6 DEF SerialInv
<1> QED BY <1>2, <1>3

\* What a process relies on when it writes from its copy of the document, or of the row.
LEMMA SavesFresh ==
  ASSUME TypeInv, SerialInv, NEW p \in Procs, NEW label, NEW d, NEW next, SaveDoc(p, label, d, next)
  PROVE  /\ job[p].at = label /\ job[p].held = doc /\ doc \in Docs
         /\ doc' = d /\ UNCHANGED <<row, vectors, calls, faults>> /\ Goto(p, next)
BY DEF SaveDoc, Copied, At, SerialInv, Stamped, TypeInv

LEMMA SavesRequest ==
  ASSUME TypeInv, SerialInv, NEW p \in Procs, NEW label, NEW r, NEW next, SaveRow(p, label, r, next)
  PROVE  /\ job[p].at = label /\ SameRequest(job[p].seen) /\ job[p].seen \in Rows
         /\ row' = r /\ UNCHANGED <<doc, vectors, calls, faults>> /\ Goto(p, next)
<1>1. job[p].seen \in Rows
  BY DEF TypeInv, Jobs
<1> QED BY <1>1 DEF SaveRow, Copied, At, SerialInv, Stamped, TypeInv

\* A call to the vector store goes on with the vectors it wrote, or fails and leaves them.
LEMMA VectorsOrRaise ==
  ASSUME TypeInv, Serial, SerialInv, NEW p \in Procs, NEW label, NEW call, NEW v, NEW next \in Labels,
         NEW raised \in Labels, Vectors(p, label, call, v, next, raised)
  PROVE  /\ job[p].at = label /\ UNCHANGED <<doc, row>>
         /\ \/ vectors' = v /\ Goto(p, next)
            \/ vectors' = vectors /\ Goto(p, raised)
BY DEF Vectors, At

LEMMA InsertSerial ==
  ASSUME TypeInv, Serial, SerialInv, NEW p \in Procs, InsertStep(p)
  PROVE  SerialInv'
<1>0. \A l \in {"idle", "ins_vectors", "ins_ready", "ins_failed", "pump"} : l \in Labels
  BY DEF Labels, Outside
<1>1. Knows(p) /\ Sound
  BY DEF SerialInv
<1>2. CASE InsertFacts(p)
  <2>1. job[p].at = "ins_facts" /\ Goto(p, "ins_vectors") /\ vectors' = vectors
        /\ doc' = [NoDoc EXCEPT !.known = TRUE, !.active = TRUE] /\ row' = Row("index", "processing")
    BY <1>2 DEF InsertFacts, At
  <2>2. ~doc'.ready /\ row'.op = "none"
    BY <2>1 DEF NoDoc, Row
  <2>3. job[p].rev # 0
    BY <1>1, <2>1 DEF Knows
  <2>4. Sound' /\ Dropped'
    BY <2>2 DEF Sound, Dropped
  <2>5. Knows(p)'
    BY <1>0, <2>1, <2>2, <2>3, Moves DEF Knows, AtWork
  <2> QED BY <1>0, <2>1, <2>4, <2>5, Moves
<1>3. CASE InsertVectors(p)
  <2>1. /\ job[p].at = "ins_vectors" /\ UNCHANGED <<doc, row>>
        /\ \/ vectors' = job[p].rev /\ Goto(p, "ins_ready")
           \/ vectors' = vectors /\ Goto(p, "ins_failed")
    BY <1>0, <1>3, VectorsOrRaise DEF InsertVectors
  <2>2. job[p].rev # 0 /\ ~doc.ready
    BY <1>1, <2>1 DEF Knows
  <2>3. Sound' /\ Dropped'
    BY <2>1, <2>2 DEF SerialInv, Sound, Dropped
  <2>4. CASE vectors' = job[p].rev /\ Goto(p, "ins_ready")
    <3>1. Knows(p)'
      BY <1>0, <2>1, <2>2, <2>4, Moves DEF Knows, AtWork
    <3> QED BY <1>0, <2>1, <2>3, <2>4, <3>1, Moves
  <2>5. CASE vectors' = vectors /\ Goto(p, "ins_failed")
    <3>1. Knows(p)'
      BY <1>0, <2>1, <2>5, Moves DEF Knows, AtWork
    <3> QED BY <1>0, <2>1, <2>3, <2>5, <3>1, Moves
  <2> QED BY <2>1, <2>4, <2>5
<1>4. CASE InsertReady(p)
  <2>1. job[p].at = "ins_ready" /\ Goto(p, "pump") /\ vectors' = vectors /\ row' = Row("index", "ready")
    BY <1>4 DEF InsertReady, InsertOutcome, At
  <2>2. vectors # 0
    BY <1>1, <2>1 DEF Knows
  <2>3. Sound' /\ Dropped'
    BY <2>1, <2>2 DEF Sound, Dropped, Row
  <2>4. Knows(p)'
    BY <1>0, <2>1, Moves DEF Knows, AtWork
  <2> QED BY <1>0, <2>1, <2>3, <2>4, Moves
<1>5. CASE InsertFailed(p)
  <2>1. job[p].at = "ins_failed" /\ Goto(p, "idle") /\ row' = Row("index", "failed")
        /\ doc' = [doc EXCEPT !.ready = FALSE]
    BY <1>5 DEF InsertFailed, InsertOutcome, At, Goto
  <2>2. ~doc'.ready
    BY <2>1 DEF TypeInv, Docs
  <2>3. Sound' /\ Dropped'
    BY <2>1, <2>2 DEF Sound, Dropped, Row
  <2> QED BY <1>0, <2>1, <2>3, Moves
<1> QED BY <1>2, <1>3, <1>4, <1>5 DEF InsertStep

LEMMA DeleteSerial ==
  ASSUME TypeInv, Serial, SerialInv, NEW p \in Procs, DeleteStep(p)
  PROVE  SerialInv'
<1>0. \A l \in {"idle", "del_off", "del_unready", "del_vectors", "del_enqueue", "del_error",
                "del_tier", "del_done"} : l \in Labels
  BY DEF Labels, Outside
<1>1. Knows(p) /\ Sound /\ Dropped
  BY DEF SerialInv
\* From the moment the document is off, it stays off.
<1>2. ASSUME job[p].at # "idle", ~doc'.active,
             NEW l \in {"idle", "del_unready", "del_vectors", "del_enqueue", "del_error", "del_tier",
                        "del_done"}, Goto(p, l)
      PROVE  SerialInv'
  <2>1. Sound' /\ Dropped'
    BY <1>2 DEF Sound, Dropped
  <2>2. l # "idle" => Knows(p)'
    <3> SUFFICES ASSUME l # "idle"
                 PROVE  Knows(p)'
      OBVIOUS
    <3>1. job'[p].at = l
      BY <1>0, <1>2, Moves
    <3> QED BY <1>2, <3>1 DEF Knows, AtWork
  <2> QED BY <1>0, <1>2, <2>1, <2>2, Moves
<1>3. ASSUME NEW d \in Docs
      PROVE  /\ ~[d EXCEPT !.active = FALSE].active
             /\ [d EXCEPT !.ready = FALSE].active = d.active
             /\ [d EXCEPT !.tier = "cold"].active = d.active
  BY DEF Docs
<1>4. job[p].at \in {"del_unready", "del_vectors", "del_enqueue", "del_error", "del_tier",
                     "del_done"} => ~doc.active
  BY <1>1 DEF Knows
<1>5. CASE DeleteMark(p)
  <2>1. job[p].at = "del_mark" /\ Goto(p, "del_off") /\ UNCHANGED <<doc, vectors>>
        /\ row' = Row("delete", "deleting")
    BY <1>5 DEF DeleteMark, WriteRow, At
  <2>2. row'.status = "deleting" /\ row'.op = "none"
    BY <2>1 DEF Row
  <2>3. Sound' /\ Dropped'
    BY <2>2 DEF Sound, Dropped, CutOff
  <2>4. job'[p].at = "del_off"
    BY <1>0, <2>1, Moves
  <2>5. Knows(p)'
    BY <2>2, <2>4 DEF Knows, AtWork, CutOff
  <2> QED BY <1>0, <2>1, <2>3, <2>5, Moves
<1>6. CASE DeleteOff(p)
  <2>1. job[p].at = "del_off" /\ Goto(p, "del_unready") /\ doc \in Docs
        /\ doc' = [doc EXCEPT !.active = FALSE]
    BY <1>6, SavesFresh DEF DeleteOff
  <2>2. ~doc'.active
    BY <1>3, <2>1
  <2> QED BY <1>2, <2>1, <2>2
<1>7. CASE DeleteUnready(p)
  <2>1. job[p].at = "del_unready" /\ doc'.active = doc.active /\ Goto(p, "del_vectors")
    BY <1>3, <1>7, SavesFresh DEF DeleteUnready
  <2> QED BY <1>2, <1>4, <2>1
<1>8. CASE DeleteVectors(p)
  <2>1. job[p].at = "del_vectors" /\ doc' = doc /\ (Goto(p, "del_tier") \/ Goto(p, "del_enqueue"))
    BY <1>0, <1>8, VectorsOrRaise DEF DeleteVectors
  <2> QED BY <1>2, <1>4, <2>1
<1>9. CASE DeleteEnqueue(p)
  <2>1. job[p].at = "del_enqueue" /\ doc' = doc /\ Goto(p, "del_error")
    BY <1>9, SavesRequest DEF DeleteEnqueue
  <2> QED BY <1>2, <1>4, <2>1
<1>10. CASE DeleteError(p)
  <2>1. job[p].at = "del_error" /\ doc'.active = doc.active /\ Goto(p, "del_tier")
    BY <1>3, <1>10, SavesFresh DEF DeleteError
  <2> QED BY <1>2, <1>4, <2>1
<1>11. CASE DeleteTier(p)
  <2>1. job[p].at = "del_tier" /\ doc'.active = doc.active /\ Goto(p, "del_done")
    BY <1>3, <1>11, SavesFresh DEF DeleteTier
  <2> QED BY <1>2, <1>4, <2>1
<1>12. CASE DeleteDone(p)
  <2>1. job[p].at = "del_done" /\ doc' = doc /\ Goto(p, "idle")
    BY <1>12 DEF DeleteDone, WriteRow, At
  <2> QED BY <1>2, <1>4, <2>1
<1> QED
  BY <1>5, <1>6, <1>7, <1>8, <1>9, <1>10, <1>11, <1>12 DEF DeleteStep

LEMMA RebuildSerial ==
  ASSUME TypeInv, Serial, SerialInv, NEW p \in Procs, RebuildStep(p)
  PROVE  SerialInv'
<1>0. \A l \in {"idle", "ins_facts", "reb_request", "reb_unready", "reb_failed"} : l \in Labels
  BY DEF Labels, Outside
<1>1. Knows(p) /\ Sound /\ Dropped
  BY DEF SerialInv
<1>2. CASE RebuildMark(p)
  <2>1. job[p].at = "reb_mark" /\ Goto(p, "reb_request") /\ UNCHANGED <<doc, vectors>>
        /\ row' = Row("rebuild", "rebuilding")
    BY <1>2 DEF RebuildMark, WriteRow, At
  <2>2. row'.status = "rebuilding" /\ row'.op = "none"
    BY <2>1 DEF Row
  <2>3. Sound' /\ Dropped'
    BY <2>2 DEF Sound, Dropped, CutOff
  <2>4. job'[p].at = "reb_request" /\ job'[p].rev = job[p].rev
    BY <1>0, <2>1, Moves
  <2>5. job[p].rev # 0
    BY <1>1, <2>1 DEF Knows
  <2>6. Knows(p)'
    BY <2>2, <2>4, <2>5 DEF Knows, AtWork, CutOff
  <2> QED BY <1>0, <2>1, <2>3, <2>6, Moves
<1>3. CASE RebuildRequest(p)
  <2>1. job[p].at = "reb_request" /\ (Goto(p, "ins_facts") \/ Goto(p, "reb_unready"))
        /\ UNCHANGED <<doc, row, vectors>>
    BY <1>3 DEF RebuildRequest, At
  <2>2. Sound' /\ Dropped'
    BY <2>1, SoundStays
  <2>3. job[p].rev # 0 /\ CutOff'
    BY <1>1, <2>1 DEF Knows, CutOff
  <2>4. job'[p].rev = job[p].rev /\ (job'[p].at = "ins_facts" \/ job'[p].at = "reb_unready")
    BY <1>0, <2>1, Moves
  <2>5. Knows(p)'
    BY <2>3, <2>4 DEF Knows, AtWork
  <2> QED BY <1>0, <2>1, <2>2, <2>5, Moves
<1>4. CASE RebuildUnready(p)
  <2>1. job[p].at = "reb_unready" /\ doc' = [doc EXCEPT !.ready = FALSE] /\ Goto(p, "reb_failed")
        /\ row' = row /\ doc \in Docs
    BY <1>4, SavesFresh DEF RebuildUnready
  <2>2. ~doc'.ready /\ doc'.active = doc.active
    BY <2>1 DEF Docs
  <2>3. Sound' /\ Dropped'
    BY <1>1, <2>1, <2>2 DEF Sound, Dropped
  <2>4. job'[p].at = "reb_failed"
    BY <1>0, <2>1, Moves
  <2>5. Knows(p)'
    BY <2>2, <2>4 DEF Knows, AtWork
  <2> QED BY <1>0, <2>1, <2>3, <2>5, Moves
<1>5. CASE RebuildFailed(p)
  <2>1. job[p].at = "reb_failed" /\ Goto(p, "idle") /\ doc' = doc /\ row' = Row("rebuild", "failed")
    BY <1>5 DEF RebuildFailed, WriteRow, At
  <2>2. ~doc.ready
    BY <1>1, <2>1 DEF Knows
  <2>3. Sound' /\ Dropped'
    BY <2>1, <2>2 DEF Sound, Dropped, Row
  <2> QED BY <1>0, <2>1, <2>3, Moves
<1> QED BY <1>2, <1>3, <1>4, <1>5 DEF RebuildStep

LEMMA SummarySerial ==
  ASSUME TypeInv, Serial, SerialInv, NEW p \in Procs, SummaryStep(p)
  PROVE  SerialInv'
<1>0. \A l \in {"idle", "sum_unready", "sum_vectors", "sum_enqueue", "sum_error", "sum_ready",
                "sum_done"} : l \in Labels
  BY DEF Labels, Outside
<1>1. Knows(p) /\ Sound /\ Dropped
  BY DEF SerialInv
<1>2. ASSUME NEW d \in Docs, NEW n, NEW b
      PROVE  /\ [d EXCEPT !.summary = n].active = d.active
             /\ [d EXCEPT !.summary = n].ready = d.ready
             /\ [d EXCEPT !.ready = b].active = d.active
             /\ [d EXCEPT !.ready = b].ready = b
  BY DEF Docs
<1>3. job[p].at \in {"sum_save", "sum_unready", "sum_vectors"} => job[p].rev # 0
  BY <1>1 DEF Knows
<1>4. CASE SummarySave(p)
  <2>1. /\ job[p].at = "sum_save" /\ doc' = [job[p].held EXCEPT !.summary = job[p].rev]
        /\ Goto(p, "sum_unready") /\ UNCHANGED <<row, vectors>>
    BY <1>4 DEF SummarySave, At
  <2>2. job[p].held = doc /\ doc \in Docs
    BY <1>1, <2>1 DEF Knows, TypeInv
  <2>3. doc'.active = doc.active /\ doc'.ready = doc.ready
    BY <1>2, <2>1, <2>2
  <2>4. Sound' /\ Dropped'
    BY <1>1, <2>1, <2>3 DEF Sound, Dropped, Queued, CutOff
  <2>5. job'[p].at = "sum_unready" /\ job'[p].rev = job[p].rev
    BY <1>0, <2>1, Moves
  <2>6. Knows(p)'
    BY <1>3, <2>1, <2>5 DEF Knows, AtWork
  <2> QED BY <1>0, <2>1, <2>4, <2>6, Moves
<1>5. CASE SummaryUnready(p)
  <2>1. /\ job[p].at = "sum_unready" /\ doc' = [doc EXCEPT !.ready = FALSE] /\ doc \in Docs
        /\ (Goto(p, "sum_vectors") \/ Goto(p, "sum_enqueue")) /\ UNCHANGED <<row, vectors>>
    BY <1>5, SavesFresh DEF SummaryUnready
  <2>2. doc'.active = doc.active /\ ~doc'.ready
    BY <1>2, <2>1
  <2>3. Sound' /\ Dropped'
    BY <1>1, <2>1, <2>2 DEF Sound, Dropped
  <2>4. (job'[p].at = "sum_vectors" \/ job'[p].at = "sum_enqueue") /\ job'[p].rev = job[p].rev
    BY <1>0, <2>1, Moves
  <2>5. Knows(p)'
    BY <1>3, <2>1, <2>4 DEF Knows, AtWork
  <2> QED BY <1>0, <2>1, <2>3, <2>5, Moves
<1>6. CASE SummaryVectors(p)
  <2>1. /\ job[p].at = "sum_vectors" /\ UNCHANGED <<doc, row>>
        /\ \/ vectors' = job[p].rev /\ Goto(p, "sum_ready")
           \/ vectors' = vectors /\ Goto(p, "sum_enqueue")
    BY <1>0, <1>6, VectorsOrRaise DEF SummaryVectors
  <2>2. Sound' /\ Dropped'
    BY <1>1, <1>3, <2>1 DEF Sound, Dropped, Queued, CutOff
  <2>3. CASE vectors' = job[p].rev /\ Goto(p, "sum_ready")
    <3>1. job'[p].at = "sum_ready"
      BY <1>0, <2>1, <2>3, Moves
    <3>2. Knows(p)'
      BY <1>3, <2>1, <2>3, <3>1 DEF Knows, AtWork
    <3> QED BY <1>0, <2>1, <2>2, <2>3, <3>2, Moves
  <2>4. CASE vectors' = vectors /\ Goto(p, "sum_enqueue")
    <3>1. job'[p].at = "sum_enqueue"
      BY <1>0, <2>1, <2>4, Moves
    <3>2. Knows(p)'
      BY <3>1 DEF Knows, AtWork
    <3> QED BY <1>0, <2>1, <2>2, <2>4, <3>2, Moves
  <2> QED BY <2>1, <2>3, <2>4
<1>7. CASE SummaryEnqueue(p)
  <2>1. /\ job[p].at = "sum_enqueue" /\ job[p].seen \in Rows /\ doc' = doc
        /\ row' = Enqueued(job[p].seen, "index_sync", "upsert_summary", job[p].rev, ~job[p].urgent)
        /\ (Goto(p, "sum_error") \/ Goto(p, "idle"))
    BY <1>7, SavesRequest DEF SummaryEnqueue
  <2>2. row'.stage = "index_sync" /\ row'.status = "pending" /\ row'.op = "upsert_summary"
    BY <2>1 DEF Enqueued, Rows
  <2>3. Sound' /\ Dropped'
    BY <2>2 DEF Sound, Dropped, Queued
  <2>4. CASE Goto(p, "sum_error")
    <3>1. job'[p].at = "sum_error"
      BY <1>0, <2>1, <2>4, Moves
    <3>2. Knows(p)'
      BY <3>1 DEF Knows, AtWork
    <3> QED BY <1>0, <2>1, <2>3, <2>4, <3>2, Moves
  <2>5. CASE Goto(p, "idle")
    BY <1>0, <2>1, <2>3, <2>5, Moves
  <2> QED BY <2>1, <2>4, <2>5
<1>8. CASE SummaryError(p)
  <2>1. /\ job[p].at = "sum_error" /\ doc' = [doc EXCEPT !.ready = FALSE] /\ doc \in Docs
        /\ Goto(p, "idle") /\ UNCHANGED <<row, vectors>>
    BY <1>8, SavesFresh DEF SummaryError
  <2>2. doc'.active = doc.active /\ ~doc'.ready
    BY <1>2, <2>1
  <2>3. Sound' /\ Dropped'
    BY <1>1, <2>1, <2>2 DEF Sound, Dropped
  <2> QED BY <1>0, <2>1, <2>3, Moves
<1>9. CASE SummaryReady(p)
  <2>1. /\ job[p].at = "sum_ready" /\ doc' = [doc EXCEPT !.ready = TRUE] /\ doc \in Docs
        /\ Goto(p, "sum_done") /\ UNCHANGED <<row, vectors>>
    BY <1>9, SavesFresh DEF SummaryReady
  <2>2. doc'.active = doc.active /\ vectors' # 0
    BY <1>1, <1>2, <2>1 DEF Knows
  <2>3. Sound' /\ Dropped'
    BY <1>1, <2>1, <2>2 DEF Sound, Dropped
  <2>4. job'[p].at = "sum_done"
    BY <1>0, <2>1, Moves
  <2>5. Knows(p)'
    BY <2>2, <2>4 DEF Knows, AtWork
  <2> QED BY <1>0, <2>1, <2>3, <2>5, Moves
<1>10. CASE SummaryDone(p)
  <2>1. /\ job[p].at = "sum_done" /\ SameRequest(job[p].seen) /\ job[p].seen \in Rows
        /\ row' = (IF job[p].seen = NoRow THEN NoRow ELSE Completed(job[p].seen))
        /\ UNCHANGED <<doc, vectors>> /\ Goto(p, "idle")
    BY <1>10, SavesRequest DEF SummaryDone
  <2>2. row'.op = row.op
    <3>1. Completed(job[p].seen).op = job[p].seen.op
      BY <2>1 DEF Completed, Rows
    <3> QED BY <2>1, <3>1 DEF SameRequest
  <2>3. vectors # 0
    BY <1>1, <2>1 DEF Knows
  <2>4. Sound' /\ Dropped'
    BY <1>1, <2>1, <2>2, <2>3 DEF Sound, Dropped
  <2> QED BY <1>0, <2>1, <2>4, Moves
<1> QED BY <1>4, <1>5, <1>6, <1>7, <1>8, <1>9, <1>10 DEF SummaryStep

\* A process that goes on to a place outside the queues, and past the calls, knows nothing there.
LEMMA MovesOut ==
  ASSUME TypeInv, Serial, SerialInv, NEW p \in Procs, job[p].at # "idle", Sound', Dropped',
         NEW l \in {"idle", "pump", "tier_list", "tier_check", "tier_enqueue", "tier_pump"}, Goto(p, l)
  PROVE  SerialInv'
<1>1. l \in Labels
  BY DEF Labels, Outside
<1>2. l # "idle" => Knows(p)'
  <2> SUFFICES ASSUME l # "idle"
               PROVE  Knows(p)'
    OBVIOUS
  <2>1. job'[p].at = l
    BY <1>1, Moves
  <2> QED BY <2>1 DEF Knows, AtWork
<1> QED BY <1>1, <1>2, Moves

\* Within a task: the row says somebody is at it, and that is all there is to know at most places.
LEMMA MovesAtWork ==
  ASSUME TypeInv, Serial, SerialInv, NEW p \in Procs, job[p].at # "idle", Dropped', Queued',
         NEW l \in {"tier_look", "tier_set", "sync_look", "sync_clear", "sync_off", "fail"}, Goto(p, l)
  PROVE  SerialInv'
<1>1. l \in Labels /\ l # "idle"
  BY DEF Labels, AtWork
<1>2. job'[p].at = l
  BY <1>1, Moves
<1>3. Knows(p)'
  BY <1>2 DEF Knows
<1>4. Sound'
  BY DEF Sound
<1> QED BY <1>1, <1>3, <1>4, Moves

\* A step that changes its process otherwise leaves it without fresh copies, and the others alone.
LEMMA ChangesJob ==
  ASSUME TypeInv, Serial, SerialInv, NEW p \in Procs, job[p].at # "idle",
         NEW i, job' = [job EXCEPT ![p] = i], ~i.fresh, Sound', Dropped', Knows(p)'
  PROVE  SerialInv'
<1>1. Stamped(p)'
  BY DEF Stamped, TypeInv
<1>2. ASSUME NEW q \in Procs \ {p}
      PROVE  Stamped(q)' /\ Knows(q)'
  <2>1. job[q].at = "idle" /\ job'[q] = job[q]
    BY DEF Serial, At, TypeInv
  <2>2. ~job[q].fresh
    BY <2>1, IdleIsStale
  <2> QED BY <2>1, <2>2, IdleKnows
<1> QED BY <1>1, <1>2 DEF SerialInv

\* The queue's next task is looked for outside the queues.
LEMMA NextTaskSerial ==
  ASSUME TypeInv, Serial, SerialInv, NEW p \in Procs, job[p].at # "idle", NEW stage,
         NEW stop \in BOOLEAN, NextTask(p, stage, stop), Sound', Dropped'
  PROVE  SerialInv'
<1>1. CASE stage = "index_sync"
  <2>1. PICK k \in Jobs : k = job[p]
    BY DEF TypeInv
  <2> DEFINE to == IF stop THEN "tier_list" ELSE "pump"
             i == [k EXCEPT !.at = to, !.left = @ - 1, !.fresh = FALSE]
  <2>2. job' = [job EXCEPT ![p] = i]
    BY <1>1, <2>1 DEF NextTask
  <2>3. to \in {"tier_list", "pump"}
    OBVIOUS
  <2> HIDE DEF to
  <2>4. i.at = to /\ ~i.fresh
    BY DEF Jobs
  <2> HIDE DEF i
  <2>5. job'[p].at = to
    BY <2>2, <2>4 DEF TypeInv
  <2>6. Knows(p)'
    BY <2>3, <2>5 DEF Knows, AtWork
  <2> QED BY <2>2, <2>4, <2>6, ChangesJob
<1>2. CASE stage # "index_sync"
  <2>1. Goto(p, "idle")
    BY <1>2 DEF NextTask, Goto
  <2> QED BY <2>1, MovesOut
<1> QED BY <1>1, <1>2

\* Outside the places that copy rows there are no fresh copies.
LEMMA StaleElsewhere ==
  ASSUME SerialInv, NEW p \in Procs, job[p].at \notin Rereads
  PROVE  ~job[p].fresh
BY DEF SerialInv, Stamped

LEMMA QueueSerial ==
  ASSUME IndexConstants, TypeInv, Serial, SerialInv, NEW p \in Procs,
         \/ SelectIndex(p) \/ SelectTier(p) \/ Claim(p) \/ CheckAnchor(p) \/ MarkCompleted(p)
         \/ MarkFailed(p) \/ ListDue(p) \/ CheckBlocked(p) \/ EnqueueMigration(p)
         \/ MigrationLook(p) \/ MigrationSet(p)
  PROVE  SerialInv'
<1>1. Knows(p) /\ Sound /\ Dropped
  BY DEF SerialInv
<1>2. PICK k \in Jobs : k = job[p]
  BY DEF TypeInv
<1>3. ASSUME NEW label \in {"pump", "tier_pump"}, NEW stage \in {"index_sync", "storage_lifecycle"},
             \/ Select(p, label, stage, "claim", Goto(p, "tier_list"))
             \/ Select(p, label, stage, "claim", Return(p))
      PROVE  SerialInv'
  <2>1. job[p].at = label /\ UNCHANGED <<doc, row, vectors>>
    BY <1>3 DEF Select, At
  <2>2. job[p].at # "idle" /\ ~job[p].fresh
    BY <2>1, StaleElsewhere DEF Rereads
  <2>3. Sound' /\ Dropped'
    BY <2>1, SoundStays
  <2>4. CASE Claimable(row, stage) /\ job[p].left > 0
    <3> DEFINE i == [k EXCEPT !.at = "claim", !.task = Claimed(row)]
    <3>1. job' = [job EXCEPT ![p] = i]
      BY <1>2, <1>3, <2>4 DEF Select
    <3>2. i.at = "claim" /\ i.task = Claimed(row) /\ i.fresh = k.fresh
      BY DEF Jobs
    <3>3. row.stage = stage /\ row.status \in {"pending", "processing"}
      BY <2>4 DEF Claimable
    <3>4. Claimed(row).stage = row.stage /\ Claimed(row).status = "processing"
          /\ Claimed(row).op = row.op
      BY DEF TypeInv, Rows, Claimed
    <3> HIDE DEF i
    <3>5. job'[p].at = "claim" /\ job'[p].task = Claimed(row)
      BY <3>1, <3>2 DEF TypeInv
    <3>6. Queued'
      BY <2>1, <3>3 DEF Queued
    <3>7. job'[p].task.stage = row'.stage /\ job'[p].task.status = "processing"
          /\ job'[p].task.op = row'.op
      BY <2>1, <3>4, <3>5
    <3>8. Knows(p)'
      BY <3>5, <3>6, <3>7 DEF Knows
    <3> QED BY <1>2, <2>2, <2>3, <3>1, <3>2, <3>8, ChangesJob
  <2>5. CASE ~(Claimable(row, stage) /\ job[p].left > 0)
    <3>1. Goto(p, "tier_list") \/ Goto(p, "idle")
      BY <1>3, <2>5 DEF Select, Goto
    <3> QED BY <2>2, <2>3, <3>1, MovesOut
  <2> QED BY <2>4, <2>5
<1>4. CASE SelectIndex(p) \/ SelectTier(p)
  BY <1>3, <1>4 DEF SelectIndex, SelectTier
<1>5. CASE Claim(p)
  <2>1. job[p].at = "claim" /\ row' = job[p].task /\ UNCHANGED <<doc, vectors>>
        /\ Goto(p, IF job[p].task.stage = "index_sync" THEN "anchor" ELSE "tier_look")
    BY <1>5 DEF Claim, WriteRow, At
  <2>2. /\ Queued /\ job[p].task.stage = row.stage /\ job[p].task.status = "processing"
        /\ job[p].task.op = row.op
    BY <1>1, <2>1 DEF Knows, AtWork
  <2>3. row'.op = row.op /\ Queued'
    BY <2>1, <2>2 DEF Queued
  <2>4. Sound' /\ Dropped'
    BY <1>1, <2>1, <2>3 DEF Sound, Dropped
  <2>5. CASE job[p].task.stage = "index_sync"
    <3>1. Goto(p, "anchor")
      BY <2>1, <2>5
    <3>2. "anchor" \in Labels
      BY DEF Labels, AtWork
    <3>3. job'[p].at = "anchor" /\ job'[p].task = job[p].task
      BY <2>1, <3>1, <3>2, Moves
    <3>4. Knows(p)'
      BY <2>1, <2>2, <2>3, <3>3 DEF Knows
    <3> QED BY <2>1, <2>4, <3>1, <3>2, <3>4, Moves
  <2>6. CASE job[p].task.stage # "index_sync"
    <3>1. Goto(p, "tier_look")
      BY <2>1, <2>6
    <3> QED BY <2>1, <2>3, <2>4, <3>1, MovesAtWork
  <2> QED BY <2>5, <2>6
<1>6. CASE CheckAnchor(p)
  <2>1. job[p].at = "anchor" /\ UNCHANGED <<doc, row, vectors>>
    BY <1>6 DEF CheckAnchor, At
  <2>2. Sound' /\ Dropped'
    BY <2>1, SoundStays
  <2>3. Queued' /\ job[p].task.op = row.op
    BY <1>1, <2>1 DEF Knows, AtWork, Queued
  <2>4. CASE StaleAnchor(job[p].task)
    <3>1. (row.status = "pending") \in BOOLEAN /\ NextTask(p, "index_sync", row.status = "pending")
      BY <1>6, <2>4 DEF CheckAnchor
    <3> QED BY <2>1, <2>2, <3>1, NextTaskSerial
  <2>5. CASE ~StaleAnchor(job[p].task) /\ job[p].task.op = "delete_document"
    <3>1. Goto(p, "sync_drop") /\ ~doc'.active
      BY <1>1, <1>6, <2>1, <2>3, <2>5 DEF CheckAnchor, Dropped
    <3>2. "sync_drop" \in Labels
      BY DEF Labels, AtWork
    <3>3. job'[p].at = "sync_drop"
      BY <2>1, <3>1, <3>2, Moves
    <3>4. Knows(p)'
      BY <2>3, <3>1, <3>3 DEF Knows
    <3> QED BY <2>1, <2>2, <3>1, <3>2, <3>4, Moves
  <2>6. CASE ~StaleAnchor(job[p].task) /\ job[p].task.op # "delete_document"
    <3>1. Goto(p, "sync_look")
      BY <1>6, <2>6 DEF CheckAnchor
    <3> QED BY <2>1, <2>2, <2>3, <3>1, MovesAtWork
  <2> QED BY <2>4, <2>5, <2>6
<1>7. CASE MarkCompleted(p)
  <2>1. /\ job[p].at = "complete" /\ job[p].fresh /\ UNCHANGED <<doc, vectors>>
        /\ row' = Completed(job[p].seen) /\ NextTask(p, job[p].task.stage, FALSE)
    BY <1>7 DEF MarkCompleted, Copied, At
  <2>2. SameRequest(job[p].seen) /\ job[p].seen \in Rows
    BY <1>2, <2>1 DEF SerialInv, Stamped, Jobs
  <2>3. row'.op = row.op
    BY <2>1, <2>2 DEF SameRequest, Completed, Rows
  <2>4. vectors # 0 \/ ~(doc.active /\ doc.ready)
    BY <1>1, <2>1 DEF Knows
  <2>5. Sound' /\ Dropped'
    BY <1>1, <2>1, <2>3, <2>4 DEF Sound, Dropped
  <2> QED BY <2>1, <2>5, NextTaskSerial
<1>8. CASE MarkFailed(p)
  <2>1. /\ job[p].at = "fail" /\ SameRequest(job[p].seen) /\ job[p].seen \in Rows
        /\ row' = MarkedFailed(job[p].seen) /\ UNCHANGED <<doc, vectors>> /\ Goto(p, "idle")
    BY <1>8, SavesRequest DEF MarkFailed
  <2>2. row'.op = row.op /\ row'.stage = row.stage /\ row'.status = "pending"
    BY <2>1 DEF SameRequest, MarkedFailed, Rows
  <2>3. Queued
    BY <1>1, <2>1 DEF Knows, AtWork
  <2>4. Sound' /\ Dropped'
    BY <1>1, <2>1, <2>2, <2>3 DEF Sound, Dropped, Queued
  <2> QED BY <2>1, <2>4, MovesOut
<1>9. CASE ListDue(p)
  <2> DEFINE to == IF doc.known /\ doc.tier # DesiredTier(doc) THEN "tier_check" ELSE "tier_pump"
             i == [k EXCEPT !.left = 1, !.at = to]
  <2>1. job[p].at = "tier_list" /\ UNCHANGED <<doc, row, vectors>>
    BY <1>9 DEF ListDue, At
  <2>2. ~job[p].fresh
    BY <2>1, StaleElsewhere DEF Rereads
  <2>3. job' = [job EXCEPT ![p] = i]
    BY <1>2, <1>9 DEF ListDue
  <2>4. to \in {"tier_check", "tier_pump"}
    OBVIOUS
  <2> HIDE DEF to
  <2>5. i.at = to /\ i.fresh = k.fresh
    BY DEF Jobs
  <2> HIDE DEF i
  <2>6. job'[p].at = to
    BY <2>3, <2>5 DEF TypeInv
  <2>7. Knows(p)'
    BY <2>4, <2>6 DEF Knows, AtWork
  <2>8. Sound' /\ Dropped'
    BY <2>1, SoundStays
  <2> QED BY <1>2, <2>1, <2>2, <2>3, <2>5, <2>7, <2>8, ChangesJob
<1>10. CASE CheckBlocked(p)
  <2>1. job[p].at = "tier_check" /\ UNCHANGED <<doc, row, vectors>>
        /\ (Goto(p, "tier_pump") \/ Goto(p, "tier_enqueue"))
    BY <1>10 DEF CheckBlocked, At
  <2>2. Sound' /\ Dropped'
    BY <2>1, SoundStays
  <2> QED BY <2>1, <2>2, MovesOut
<1>11. CASE EnqueueMigration(p)
  <2>1. /\ job[p].at = "tier_enqueue" /\ job[p].seen \in Rows /\ doc' = doc
        /\ row' = Enqueued(job[p].seen, "storage_lifecycle", "migrate_storage_tier", 0, TRUE)
        /\ Goto(p, "tier_pump")
    BY <1>11, SavesRequest DEF EnqueueMigration
  <2>2. row'.stage = "storage_lifecycle" /\ row'.status = "pending" /\ row'.op = "migrate_storage_tier"
    BY <2>1 DEF Enqueued, Rows
  <2>3. Sound' /\ Dropped'
    BY <2>2 DEF Sound, Dropped, Queued
  <2> QED BY <2>1, <2>3, MovesOut
<1>12. CASE MigrationLook(p)
  <2> DEFINE to == IF doc.tier # DesiredTier(doc) THEN "tier_set" ELSE "sync_look"
             i == [k EXCEPT !.tier = DesiredTier(doc), !.at = to]
  <2>1. job[p].at = "tier_look" /\ UNCHANGED <<doc, row, vectors>>
    BY <1>12 DEF MigrationLook, At
  <2>2. ~job[p].fresh
    BY <2>1, StaleElsewhere DEF Rereads
  <2>3. job' = [job EXCEPT ![p] = i]
    BY <1>2, <1>12 DEF MigrationLook
  <2>4. to \in {"tier_set", "sync_look"}
    OBVIOUS
  <2> HIDE DEF to
  <2>5. i.at = to /\ i.fresh = k.fresh
    BY DEF Jobs
  <2> HIDE DEF i
  <2>6. job'[p].at = to
    BY <2>3, <2>5 DEF TypeInv
  <2>7. Queued'
    BY <1>1, <2>1 DEF Knows, AtWork, Queued
  <2>8. Knows(p)'
    BY <2>4, <2>6, <2>7 DEF Knows
  <2>9. Sound' /\ Dropped'
    BY <2>1, SoundStays
  <2> QED BY <1>2, <2>1, <2>2, <2>3, <2>5, <2>8, <2>9, ChangesJob
<1>13. CASE MigrationSet(p)
  <2>1. /\ job[p].at = "tier_set" /\ doc' = [doc EXCEPT !.tier = job[p].tier] /\ doc \in Docs
        /\ row' = row /\ Goto(p, "sync_look")
    BY <1>13, SavesFresh DEF MigrationSet
  <2>2. doc'.active = doc.active
    BY <2>1 DEF Docs
  <2>3. Queued' /\ Dropped'
    BY <1>1, <2>1, <2>2 DEF Knows, AtWork, Queued, Dropped
  <2> QED BY <2>1, <2>3, MovesAtWork
<1> QED
  BY <1>4, <1>5, <1>6, <1>7, <1>8, <1>9, <1>10, <1>11, <1>12, <1>13

LEMMA SyncSerial ==
  ASSUME IndexConstants, TypeInv, Serial, SerialInv, NEW p \in Procs, SyncStep(p)
  PROVE  SerialInv'
<1>0. \A l \in {"sync_embed", "sync_delete", "sync_upsert", "sync_ready", "sync_off", "complete",
                "fail"} : l \in Labels /\ l # "idle"
  BY DEF Labels, AtWork
<1>1. Knows(p) /\ Sound /\ Dropped
  BY DEF SerialInv
\* A call of a sync that raises leaves everything as it was, with the row still taken.
<1>2. ASSUME job[p].at \in AtWork \ {"claim"}, UNCHANGED <<doc, row, vectors>>, Goto(p, "fail")
      PROVE  SerialInv'
  <2>1. Queued' /\ job[p].at # "idle"
    BY <1>1, <1>2 DEF Knows, Queued, AtWork
  <2>2. Dropped'
    BY <1>2, SoundStays
  <2> QED BY <1>2, <2>1, <2>2, MovesAtWork
\* With the row taken, a sync may drop the vectors before it writes the new ones.
<1>3. ASSUME job[p].at \in AtWork \ {"claim"}, UNCHANGED <<doc, row>>
      PROVE  Sound' /\ Dropped' /\ Queued' /\ job[p].at # "idle"
  BY <1>1, <1>3 DEF Knows, Sound, Dropped, Queued, AtWork
<1>4. CASE SyncDrop(p)
  <2>1. /\ job[p].at = "sync_drop" /\ UNCHANGED <<doc, row>>
        /\ Goto(p, "complete") \/ (vectors' = vectors /\ Goto(p, "fail"))
    BY <1>0, <1>4, VectorsOrRaise DEF SyncDrop
  <2>2. job[p].at \in AtWork \ {"claim"}
    BY <2>1 DEF AtWork
  <2>3. CASE Goto(p, "complete")
    <3>1. job'[p].at = "complete"
      BY <1>0, <2>1, <2>3, Moves
    <3>2. ~doc'.active
      BY <1>1, <2>1 DEF Knows
    <3>3. Knows(p)'
      BY <1>3, <2>1, <2>2, <3>1, <3>2 DEF Knows
    <3> QED BY <1>0, <1>3, <2>1, <2>2, <2>3, <3>3, Moves
  <2> QED BY <1>2, <2>1, <2>2, <2>3
<1>5. CASE SyncLook(p)
  <2>1. job[p].at = "sync_look" /\ UNCHANGED <<doc, row, vectors>>
    BY <1>5 DEF SyncLook, At
  <2>2. PICK k \in Jobs : k = job[p]
    BY DEF TypeInv
  <2> DEFINE to == IF ~doc.active THEN "sync_clear"
                   ELSE IF doc.summary = 0 THEN "fail" ELSE "sync_embed"
             i == [k EXCEPT !.held = doc, !.at = to]
  <2>3. job' = [job EXCEPT ![p] = i]
    BY <1>5, <2>2 DEF SyncLook
  <2>4. to \in {"sync_clear", "fail", "sync_embed"} /\ (to = "sync_embed" => doc.summary # 0)
    OBVIOUS
  <2> HIDE DEF to
  <2>5. i.at = to /\ i.held = doc /\ i.fresh = k.fresh
    BY DEF Jobs
  <2> HIDE DEF i
  <2>6. job'[p].at = to /\ job'[p].held = doc
    BY <2>3, <2>5 DEF TypeInv
  <2>7. job[p].at \in AtWork \ {"claim"}
    BY <2>1 DEF AtWork
  <2>8. Sound' /\ Dropped' /\ Queued'
    BY <1>3, <2>1, <2>7
  <2>9. Knows(p)'
    BY <2>4, <2>6, <2>8 DEF Knows
  <2>10. ~job[p].fresh
    BY <2>1, StaleElsewhere DEF Rereads
  <2> QED BY <2>1, <2>2, <2>3, <2>5, <2>8, <2>9, <2>10, ChangesJob
\* Embedding, deleting the old vectors and writing the new ones, with a summary in hand.
<1>6. ASSUME job[p].at \in {"sync_embed", "sync_delete"}, UNCHANGED <<doc, row>>,
             NEW l \in {"sync_delete", "sync_upsert"}, Goto(p, l)
      PROVE  SerialInv'
  <2>1. job[p].at \in AtWork \ {"claim"} /\ job[p].held.summary # 0
    BY <1>1, <1>6 DEF AtWork, Knows
  <2>2. Sound' /\ Dropped' /\ Queued' /\ job[p].at # "idle"
    BY <1>3, <1>6, <2>1
  <2>3. job'[p].at = l /\ job'[p].held = job[p].held
    BY <1>0, <1>6, <2>2, Moves
  <2>4. Knows(p)'
    BY <2>1, <2>2, <2>3 DEF Knows
  <2> QED BY <1>0, <1>6, <2>2, <2>4, Moves
<1>7. CASE SyncEmbed(p)
  <2>1. /\ job[p].at = "sync_embed" /\ UNCHANGED <<doc, row>>
        /\ Goto(p, "sync_delete") \/ (vectors' = vectors /\ Goto(p, "fail"))
    BY <1>0, <1>7, VectorsOrRaise DEF SyncEmbed
  <2>2. job[p].at \in AtWork \ {"claim"}
    BY <2>1 DEF AtWork
  <2> QED BY <1>2, <1>6, <2>1, <2>2
<1>8. CASE SyncDelete(p)
  <2>1. /\ job[p].at = "sync_delete" /\ UNCHANGED <<doc, row>>
        /\ Goto(p, "sync_upsert") \/ (vectors' = vectors /\ Goto(p, "fail"))
    BY <1>0, <1>8, VectorsOrRaise DEF SyncDelete
  <2>2. job[p].at \in AtWork \ {"claim"}
    BY <2>1 DEF AtWork
  <2> QED BY <1>2, <1>6, <2>1, <2>2
<1>9. CASE SyncUpsert(p)
  <2>1. /\ job[p].at = "sync_upsert" /\ UNCHANGED <<doc, row>>
        /\ \/ vectors' = job[p].held.summary /\ Goto(p, "sync_ready")
           \/ vectors' = vectors /\ Goto(p, "fail")
    BY <1>0, <1>9, VectorsOrRaise DEF SyncUpsert
  <2>2. job[p].at \in AtWork \ {"claim"}
    BY <2>1 DEF AtWork
  <2>3. CASE vectors' = job[p].held.summary /\ Goto(p, "sync_ready")
    <3>1. vectors' # 0
      BY <1>1, <2>1, <2>3 DEF Knows
    <3>2. job'[p].at = "sync_ready"
      BY <1>0, <2>1, <2>3, Moves
    <3>3. Sound' /\ Dropped' /\ Queued'
      BY <1>3, <2>1, <2>2
    <3>4. Knows(p)'
      BY <3>1, <3>2, <3>3 DEF Knows
    <3> QED BY <1>0, <2>1, <2>3, <3>3, <3>4, Moves
  <2> QED BY <1>2, <2>1, <2>2, <2>3
<1>10. CASE SyncClear(p)
  <2>1. /\ job[p].at = "sync_clear" /\ UNCHANGED <<doc, row>>
        /\ Goto(p, "sync_off") \/ (vectors' = vectors /\ Goto(p, "fail"))
    BY <1>0, <1>10, VectorsOrRaise DEF SyncClear
  <2>2. job[p].at \in AtWork \ {"claim"}
    BY <2>1 DEF AtWork
  <2> QED BY <1>2, <1>3, <2>1, <2>2, MovesAtWork
\* The outcome of a sync in the document's row.
<1>11. ASSUME job[p].at \in {"sync_off", "sync_ready"}, UNCHANGED <<row, vectors>>,
              NEW b \in BOOLEAN, doc' = [doc EXCEPT !.ready = b], b => vectors # 0, Goto(p, "complete")
       PROVE  SerialInv'
  <2>1. doc'.active = doc.active /\ doc'.ready = b
    BY <1>11 DEF TypeInv, Docs
  <2>2. job'[p].at = "complete"
    BY <1>0, <1>11, Moves
  <2>3. Queued'
    BY <1>1, <1>11 DEF Knows, AtWork, Queued
  <2>4. Sound' /\ Dropped'
    BY <1>1, <1>11, <2>1, <2>3 DEF Sound, Dropped
  <2>5. Knows(p)'
    BY <1>11, <2>1, <2>2, <2>3 DEF Knows
  <2> QED BY <1>0, <1>11, <2>4, <2>5, Moves
<1>12. CASE SyncOff(p)
  <2>1. /\ job[p].at = "sync_off" /\ doc' = [doc EXCEPT !.ready = FALSE]
        /\ UNCHANGED <<row, vectors>> /\ Goto(p, "complete")
    BY <1>12, SavesFresh DEF SyncOff
  <2> QED BY <1>11, <2>1
<1>13. CASE SyncReady(p)
  <2>1. /\ job[p].at = "sync_ready" /\ doc' = [doc EXCEPT !.ready = TRUE]
        /\ UNCHANGED <<row, vectors>> /\ Goto(p, "complete")
    BY <1>13, SavesFresh DEF SyncReady
  <2>2. vectors # 0
    BY <1>1, <2>1 DEF Knows
  <2> QED BY <1>11, <2>1, <2>2
<1> QED
  BY <1>4, <1>5, <1>7, <1>8, <1>9, <1>10, <1>12, <1>13, QueueSerial DEF SyncStep

LEMMA CallSerial ==
  ASSUME IndexConstants, TypeInv, SerialInv, Serial', NEW p \in Procs, Call(p)
  PROVE  SerialInv'
\* A call begins in an idle process with a copy of the document, and then no other runs.
<1>1. ASSUME NEW i, job' = [job EXCEPT ![p] = i], i.at # "idle", ~i.fresh,
             UNCHANGED <<doc, row, vectors>>, Knows(p)'
      PROVE  SerialInv'
  <2>1. job'[p] = i
    BY <1>1 DEF TypeInv
  <2>2. Stamped(p)'
    BY <1>1, <2>1 DEF Stamped
  <2>3. ASSUME NEW q \in Procs \ {p}
        PROVE  Stamped(q)' /\ Knows(q)'
    <3>1. job'[q] = job[q] /\ job'[q].at = "idle"
      BY <1>1, <2>1 DEF Serial, At, TypeInv
    <3>2. ~job[q].fresh
      BY <3>1, IdleIsStale
    <3> QED BY <3>1, <3>2, IdleKnows
  <2>4. Sound' /\ Dropped'
    BY <1>1, SoundStays
  <2> QED BY <1>1, <2>2, <2>3, <2>4 DEF SerialInv
<1>2. Idle \in Jobs /\ ~Idle.fresh
  BY Values DEF Idle
<1>3. ASSUME NEW op, NEW label \in {"ins_facts", "del_mark", "reb_mark", "sum_save"},
             NEW urgent \in BOOLEAN, Begin(p, op, label, urgent)
      PROVE  SerialInv'
  <2> DEFINE i == [Idle EXCEPT !.at = label, !.rev = calls + 1, !.held = doc, !.urgent = urgent,
                               !.left = 1]
  <2>1. job' = [job EXCEPT ![p] = i] /\ UNCHANGED <<doc, row, vectors>>
    BY <1>3 DEF Begin
  <2>2. i.at = label /\ i.rev = calls + 1 /\ i.held = doc /\ ~i.fresh
    BY <1>2 DEF Jobs
  <2> HIDE DEF i
  <2>3. calls + 1 # 0
    BY Values DEF TypeInv
  <2>4. job'[p].at = label /\ job'[p].rev # 0 /\ job'[p].held = doc'
    BY <2>1, <2>2, <2>3 DEF TypeInv
  <2>5. Knows(p)'
    BY <2>4 DEF Knows, AtWork
  <2> QED BY <1>1, <2>1, <2>2, <2>5
<1>4. CASE CallQuery(p)
  <2> DEFINE i == [Idle EXCEPT !.at = "pump", !.left = 2]
  <2>1. job' = [job EXCEPT ![p] = i] /\ UNCHANGED <<doc, row, vectors>>
    BY <1>4 DEF CallQuery
  <2>2. i.at = "pump" /\ ~i.fresh
    BY <1>2 DEF Jobs
  <2> HIDE DEF i
  <2>3. job'[p].at = "pump"
    BY <2>1, <2>2 DEF TypeInv
  <2>4. Knows(p)'
    BY <2>3 DEF Knows, AtWork
  <2> QED BY <1>1, <2>1, <2>2, <2>4
<1> QED BY <1>3, <1>4 DEF Call, CallInsert, CallDelete, CallRebuild, CallSaveSummary

LEMMA SerialKept ==
  ASSUME IndexConstants, TypeInv, SerialInv, Serial, Serial', [Next]_vars
  PROVE  SerialInv'
<1>1. ASSUME NEW p \in Procs, Read(p)
      PROVE  SerialInv'
  <2>1. /\ job[p].at \in Rereads /\ UNCHANGED <<doc, row, vectors>>
        /\ job' = [job EXCEPT ![p].held = doc, ![p].seen = row, ![p].fresh = TRUE]
    BY <1>1 DEF Read
  <2>2. PICK k \in Jobs : k = job[p]
    BY DEF TypeInv
  <2> DEFINE i == [k EXCEPT !.held = doc, !.seen = row, !.fresh = TRUE]
  <2>3. /\ i.at = k.at /\ i.task = k.task /\ i.rev = k.rev /\ i.held = doc /\ i.seen = row
    BY DEF Jobs
  <2>4. job'[p] = i /\ \A q \in Procs \ {p} : job'[q] = job[q]
    BY <2>1, <2>2 DEF TypeInv
  <2> HIDE DEF i
  <2>5. Stamped(p)'
    BY <2>1, <2>2, <2>3, <2>4 DEF Stamped, SameRequest
  <2>6. Knows(p)'
    <3>1. /\ job'[p].at = job[p].at /\ job'[p].task = job[p].task /\ job'[p].rev = job[p].rev
          /\ job'[p].held = doc
      BY <2>2, <2>3, <2>4
    <3>2. job[p].at \notin {"sync_embed", "sync_delete", "sync_upsert"}
      BY <2>1 DEF Rereads
    <3>3. Knows(p)
      BY DEF SerialInv
    <3> QED BY <2>1, <3>1, <3>2, <3>3 DEF Knows, Queued, CutOff
  <2>7. ASSUME NEW q \in Procs \ {p}
        PROVE  Stamped(q)' /\ Knows(q)'
    <3>1. job'[q] = job[q] /\ job[q].at = "idle"
      BY <2>1, <2>4 DEF Serial, At, Rereads
    <3>2. ~job[q].fresh
      BY <3>1, IdleIsStale
    <3> QED BY <3>1, <3>2, IdleKnows
  <2>8. Sound' /\ Dropped'
    BY <2>1, SoundStays
  <2> QED BY <2>5, <2>6, <2>7, <2>8 DEF SerialInv
<1>2. ASSUME NEW p \in Procs, Crash(p)
      PROVE  SerialInv'
  <2>1. job[p].at # "idle" /\ Goto(p, "idle") /\ UNCHANGED <<doc, row, vectors>>
    BY <1>2 DEF Crash, Goto, At
  <2>2. Sound' /\ Dropped'
    BY <2>1, SoundStays
  <2> QED BY <2>1, <2>2, MovesOut
<1>3. CASE LeaseExpires \/ BackoffPasses
  <2>1. /\ UNCHANGED <<doc, vectors, job>> /\ row'.stage = row.stage /\ row'.status = row.status
        /\ row'.op = row.op
    BY <1>3 DEF LeaseExpires, BackoffPasses, TypeInv, Rows
  <2>2. Sound' /\ Dropped' /\ (Queued' <=> Queued) /\ (CutOff' <=> CutOff)
    BY <2>1 DEF SerialInv, Sound, Dropped, Queued, CutOff
  <2>3. ASSUME NEW q \in Procs
        PROVE  Stamped(q)' /\ Knows(q)'
    <3>1. Stamped(q) /\ Knows(q)
      BY DEF SerialInv
    <3>2. Stamped(q)'
      BY <2>1, <3>1 DEF Stamped, SameRequest
    <3>3. Knows(q)'
      BY <2>1, <2>2, <3>1 DEF Knows
    <3> QED BY <3>2, <3>3
  <2> QED BY <2>2, <2>3 DEF SerialInv
<1>4. CASE UNCHANGED vars
  <2>1. \A q \in Procs : (Stamped(q)' <=> Stamped(q)) /\ (Knows(q)' <=> Knows(q))
    BY <1>4 DEF vars, Stamped, SameRequest, Knows, Queued, CutOff
  <2>2. Sound' /\ Dropped'
    BY <1>4, SoundStays DEF vars
  <2> QED BY <2>1, <2>2 DEF SerialInv
<1> QED
  BY <1>1, <1>2, <1>3, <1>4, InsertSerial, DeleteSerial, RebuildSerial, SummarySerial, SyncSerial,
     CallSerial
  DEF Next, Step

\* As long as calls do not overlap, whatever raises, crashes or is repeated on the way, a document
\* that claims to be searchable has vectors or a queued request to make them, unless a delete or a
\* rebuild was cut off right after it took the row.
THEOREM SearchableIsFound ==
  ASSUME IndexConstants
  PROVE  Spec /\ []Serial => []IndexSound
<1>1. Init => TypeInv
  BY Values DEF Init, TypeInv, InBudget, AtWork
<1>2. TypeInv /\ [Next]_vars => TypeInv'
  BY TypesKept
<1>3. Init => SerialInv
  <2>1. Init => Sound /\ Dropped
    BY DEF Init, NoDoc, NoRow, Row, Sound, Dropped
  <2>2. Idle.at = "idle" /\ ~Idle.fresh
    BY DEF Idle
  <2>3. Init => \A p \in Procs : Stamped(p) /\ Knows(p)
    BY <2>2 DEF Init, Stamped, Knows, AtWork
  <2> QED BY <2>1, <2>3 DEF SerialInv
<1>4. TypeInv /\ SerialInv /\ Serial /\ Serial' /\ [Next]_vars => SerialInv'
  BY SerialKept
<1>5. TypeInv /\ SerialInv => IndexSound
  <2>1. SerialInv => ReadyIsSearchable
    BY DEF SerialInv, Sound, ReadyIsSearchable
  <2>2. TypeInv => IndexTypeOK
    BY DEF TypeInv, IndexTypeOK, Jobs
  <2> QED BY <2>1, <2>2 DEF IndexSound
<1> QED BY <1>1, <1>2, <1>3, <1>4, <1>5, PTL DEF Spec

\* In particular when one process makes all the calls, one after the other.
COROLLARY OneProcessFinds ==
  ASSUME IndexConstants, NEW p, Procs = {p}
  PROVE  Spec => []IndexSound
<1>1. Serial
  BY DEF Serial
<1>2. []Serial
  BY <1>1, PTL
<1> QED BY <1>2, SearchableIsFound, PTL
=============================================================================
