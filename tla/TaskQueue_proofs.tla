-------------------------- MODULE TaskQueue_proofs --------------------------
(***************************************************************************)
(* The safety of one download queue for any number of tasks, keys, owners, *)
(* workers and requests, any limits, and with restarts and store failures. *)
(***************************************************************************)
EXTENDS TaskQueue, SequencesExt, SequenceTheorems, FiniteSetTheorems, TLAPS

-----------------------------------------------------------------------------
(* Sequences that list each of their elements once, as the pending deque   *)
(* and the history do.                                                     *)

\* Append adds the element to what is listed.
LEMMA AppendOnce ==
  ASSUME NEW S, NEW s \in Seq(S), NEW e \in S
  PROVE  /\ Append(s, e) \in Seq(S)
         /\ ToSet(Append(s, e)) = ToSet(s) \cup {e}
         /\ IsInjective(s) /\ e \notin ToSet(s) => IsInjective(Append(s, e))
<1>1. /\ Append(s, e) \in Seq(S) /\ Len(Append(s, e)) = Len(s) + 1
      /\ \A i \in 1..Len(s) : Append(s, e)[i] = s[i]
      /\ Append(s, e)[Len(s) + 1] = e
      /\ Len(s) \in Nat
      /\ DOMAIN s = 1..Len(s)
      /\ DOMAIN Append(s, e) = 1..(Len(s) + 1)
  BY AppendProperties, LenProperties
<1>2. ToSet(Append(s, e)) = ToSet(s) \cup {e}
  BY <1>1 DEF ToSet
<1>3. ASSUME IsInjective(s), e \notin ToSet(s) PROVE IsInjective(Append(s, e))
  BY <1>1, <1>3 DEF ToSet, IsInjective
<1> QED BY <1>1, <1>2, <1>3

\* Concatenation lists what its parts list.
LEMMA ConcatOnce ==
  ASSUME NEW S, NEW s \in Seq(S), NEW u \in Seq(S)
  PROVE  /\ s \o u \in Seq(S)
         /\ Len(s \o u) = Len(s) + Len(u)
         /\ ToSet(s \o u) = ToSet(s) \cup ToSet(u)
         /\ IsInjective(s) /\ IsInjective(u) /\ ToSet(s) \cap ToSet(u) = {}
              => IsInjective(s \o u)
<1> DEFINE m == Len(s)  n == Len(u)  r == s \o u
<1>1. /\ r \in Seq(S) /\ Len(r) = m + n
      /\ \A i \in 1..(m + n) : r[i] = IF i <= m THEN s[i] ELSE u[i - m]
      /\ m \in Nat /\ n \in Nat
      /\ DOMAIN s = 1..m /\ DOMAIN u = 1..n /\ DOMAIN r = 1..(m + n)
  BY ConcatProperties, LenProperties
<1> HIDE DEF m, n, r
<1>2. ToSet(r) = ToSet(s) \cup ToSet(u)
  <2>1. ASSUME NEW i \in DOMAIN s PROVE s[i] \in ToSet(r)
    <3>1. i \in DOMAIN r /\ r[i] = s[i] BY <1>1, <2>1
    <3> QED BY <3>1 DEF ToSet
  <2>2. ASSUME NEW i \in DOMAIN u PROVE u[i] \in ToSet(r)
    <3>1. i + m \in DOMAIN r /\ r[i + m] = u[i] BY <1>1, <2>2
    <3> QED BY <3>1 DEF ToSet
  <2>3. ASSUME NEW i \in DOMAIN r PROVE r[i] \in ToSet(s) \cup ToSet(u)
    <3>1. CASE i <= m BY <1>1, <2>3, <3>1 DEF ToSet
    <3>2. CASE ~(i <= m)
      <4>1. i - m \in DOMAIN u /\ r[i] = u[i - m] BY <1>1, <2>3, <3>2
      <4> QED BY <4>1 DEF ToSet
    <3> QED BY <3>1, <3>2
  <2> QED BY <2>1, <2>2, <2>3 DEF ToSet
<1>3. ASSUME IsInjective(s), IsInjective(u), ToSet(s) \cap ToSet(u) = {}
      PROVE  IsInjective(r)
  <2> SUFFICES ASSUME NEW i \in DOMAIN r, NEW j \in DOMAIN r, r[i] = r[j]
               PROVE  i = j
    BY DEF IsInjective
  <2>1. CASE i <= m /\ j <= m BY <1>1, <1>3, <2>1 DEF IsInjective
  <2>2. CASE ~(i <= m) /\ ~(j <= m)
    <3>1. /\ i - m \in DOMAIN u /\ j - m \in DOMAIN u /\ u[i - m] = u[j - m]
          /\ i \in Nat /\ j \in Nat
      BY <1>1, <2>2
    <3>2. i - m = j - m BY <3>1, <1>3 DEF IsInjective
    <3> QED BY <3>1, <3>2, <1>1
  <2>3. ASSUME NEW k \in DOMAIN r, NEW l \in DOMAIN r, k <= m, ~(l <= m), r[k] = r[l]
        PROVE  FALSE
    <3>1. k \in DOMAIN s /\ r[k] = s[k] BY <1>1, <2>3
    <3>2. l - m \in DOMAIN u /\ r[l] = u[l - m] BY <1>1, <2>3
    <3>3. s[k] \in ToSet(s) /\ u[l - m] \in ToSet(u) BY <3>1, <3>2 DEF ToSet
    <3> QED BY <3>1, <3>2, <3>3, <2>3, <1>3
  <2> QED BY <2>1, <2>2, <2>3
<1> QED BY <1>1, <1>2, <1>3 DEF r, m, n

\* A sequence cut in two: each element is listed in one part.
LEMMA SplitOnce ==
  ASSUME NEW S, NEW s \in Seq(S), NEW n \in 0..Len(s)
  PROVE  LET a == SubSeq(s, 1, n)
             b == SubSeq(s, n + 1, Len(s))
         IN /\ a \in Seq(S) /\ b \in Seq(S)
            /\ Len(a) = n /\ Len(b) = Len(s) - n
            /\ ToSet(s) = ToSet(a) \cup ToSet(b)
            /\ IsInjective(s) => /\ IsInjective(a) /\ IsInjective(b)
                                 /\ ToSet(a) \cap ToSet(b) = {}
<1> DEFINE m == Len(s)  a == SubSeq(s, 1, n)  b == SubSeq(s, n + 1, m)
<1>1. m \in Nat /\ n \in Nat /\ n <= m /\ DOMAIN s = 1..m
      /\ \A i \in 1..m : s[i] \in S
  BY LenProperties
<1>2. /\ a \in Seq(S) /\ Len(a) = n /\ \A i \in 1..n : a[i] = s[i]
      /\ DOMAIN a = 1..n
  <2>1. \A i \in 1..n : s[i] \in S BY <1>1
  <2>2. a \in Seq(S) /\ Len(a) = IF 1 <= n THEN n - 1 + 1 ELSE 0
    BY <2>1, <1>1, SubSeqProperties, Z3
  <2>3. Len(a) = n BY <2>2, <1>1
  <2>4. DOMAIN a = 1..n BY <2>2, <2>3, LenProperties
  <2>5. \A i \in 1..n : a[i] = s[i] BY <1>1
  <2> QED BY <2>2, <2>3, <2>4, <2>5
<1>3. /\ b \in Seq(S) /\ Len(b) = m - n /\ \A i \in 1..(m - n) : b[i] = s[n + i]
      /\ DOMAIN b = 1..(m - n)
  <2>1. \A i \in (n + 1)..m : s[i] \in S BY <1>1
  <2>2. b \in Seq(S) /\ Len(b) = IF n + 1 <= m THEN m - (n + 1) + 1 ELSE 0
    BY <2>1, <1>1, SubSeqProperties, Z3
  <2> HIDE DEF b, m
  <2>3. Len(b) = m - n
    <3>1. CASE n + 1 <= m BY <2>2, <1>1, <3>1
    <3>2. CASE ~(n + 1 <= m) BY <2>2, <1>1, <3>2
    <3> QED BY <3>1, <3>2
  <2> USE DEF b, m
  <2>4. DOMAIN b = 1..(m - n) BY <2>2, <2>3, LenProperties
  <2>5. \A i \in 1..(m - n) : b[i] = s[n + i] BY <1>1
  <2> QED BY <2>2, <2>3, <2>4, <2>5
<1> HIDE DEF m, a, b
<1>4. ToSet(s) = ToSet(a) \cup ToSet(b)
  <2>1. ASSUME NEW i \in 1..m PROVE s[i] \in ToSet(a) \cup ToSet(b)
    <3>1. CASE i <= n
      <4>1. i \in DOMAIN a /\ a[i] = s[i] BY <1>1, <1>2, <3>1
      <4> QED BY <4>1 DEF ToSet
    <3>2. CASE ~(i <= n)
      <4>1. i - n \in DOMAIN b /\ b[i - n] = s[i] BY <1>1, <1>3, <3>2
      <4> QED BY <4>1 DEF ToSet
    <3> QED BY <3>1, <3>2
  <2>2. ASSUME NEW i \in 1..n PROVE a[i] \in ToSet(s)
    <3>1. i \in DOMAIN s /\ a[i] = s[i] BY <1>1, <1>2
    <3> QED BY <3>1 DEF ToSet
  <2>3. ASSUME NEW i \in 1..(m - n) PROVE b[i] \in ToSet(s)
    <3>1. n + i \in DOMAIN s /\ b[i] = s[n + i] BY <1>1, <1>3
    <3> QED BY <3>1 DEF ToSet
  <2> QED BY <2>1, <2>2, <2>3, <1>1, <1>2, <1>3 DEF ToSet
<1>5. ASSUME IsInjective(s) PROVE IsInjective(a)
  BY <1>1, <1>2, <1>5 DEF IsInjective
<1>6. ASSUME IsInjective(s) PROVE IsInjective(b)
  <2> SUFFICES ASSUME NEW i \in DOMAIN b, NEW j \in DOMAIN b, b[i] = b[j]
               PROVE  i = j
    BY DEF IsInjective
  <2>1. /\ n + i \in DOMAIN s /\ n + j \in DOMAIN s /\ s[n + i] = s[n + j]
        /\ i \in Nat /\ j \in Nat
    BY <1>1, <1>3
  <2>2. n + i = n + j BY <2>1, <1>6 DEF IsInjective
  <2> QED BY <2>1, <2>2, <1>1
<1>7. ASSUME IsInjective(s) PROVE ToSet(a) \cap ToSet(b) = {}
  <2> SUFFICES ASSUME NEW i \in 1..n, NEW j \in 1..(m - n), a[i] = b[j]
               PROVE  FALSE
    BY <1>2, <1>3 DEF ToSet
  <2>1. i \in DOMAIN s /\ n + j \in DOMAIN s /\ s[i] = s[n + j]
    BY <1>1, <1>2, <1>3
  <2>2. i = n + j BY <2>1, <1>7 DEF IsInjective
  <2> QED BY <2>2, <1>1
<1> QED BY <1>2, <1>3, <1>4, <1>5, <1>6, <1>7 DEF m, a, b

\* Tail of a sequence without repetition no longer lists its head.
LEMMA TailOnce ==
  ASSUME NEW S, NEW s \in Seq(S), s # <<>>
  PROVE  /\ Tail(s) \in Seq(S) /\ Head(s) \in ToSet(s) /\ Head(s) \in S
         /\ ToSet(s) = ToSet(Tail(s)) \cup {Head(s)}
         /\ IsInjective(s) => IsInjective(Tail(s)) /\ Head(s) \notin ToSet(Tail(s))
<1> DEFINE m == Len(s)  b == Tail(s)
<1>1. /\ m \in Nat /\ m > 0 /\ DOMAIN s = 1..m
      /\ b \in Seq(S) /\ Len(b) = m - 1 /\ DOMAIN b = 1..(m - 1)
      /\ \A i \in 1..(m - 1) : b[i] = s[i + 1]
      /\ Head(s) = s[1] /\ Head(s) \in S
  BY EmptySeq, LenProperties, HeadTailProperties
<1> HIDE DEF m, b
<1>2. Head(s) \in ToSet(s) BY <1>1 DEF ToSet
<1>3. ToSet(s) = ToSet(b) \cup {Head(s)}
  <2>1. ASSUME NEW i \in 1..m PROVE s[i] \in ToSet(b) \cup {Head(s)}
    <3>1. CASE i = 1 BY <1>1, <3>1
    <3>2. CASE i # 1
      <4>1. i - 1 \in DOMAIN b /\ b[i - 1] = s[i] BY <1>1, <3>2
      <4> QED BY <4>1 DEF ToSet
    <3> QED BY <3>1, <3>2
  <2>2. ASSUME NEW i \in DOMAIN b PROVE b[i] \in ToSet(s)
    <3>1. i + 1 \in DOMAIN s /\ b[i] = s[i + 1] BY <1>1
    <3> QED BY <3>1 DEF ToSet
  <2> QED BY <2>1, <2>2, <1>2, <1>1 DEF ToSet
<1>4. ASSUME IsInjective(s) PROVE IsInjective(b)
  <2> SUFFICES ASSUME NEW i \in DOMAIN b, NEW j \in DOMAIN b, b[i] = b[j]
               PROVE  i = j
    BY DEF IsInjective
  <2>1. /\ i + 1 \in DOMAIN s /\ j + 1 \in DOMAIN s /\ s[i + 1] = s[j + 1]
        /\ i \in Nat /\ j \in Nat
    BY <1>1
  <2>2. i + 1 = j + 1 BY <2>1, <1>4 DEF IsInjective
  <2> QED BY <2>1, <2>2
<1>5. ASSUME IsInjective(s) PROVE Head(s) \notin ToSet(b)
  <2> SUFFICES ASSUME NEW i \in DOMAIN b, b[i] = Head(s) PROVE FALSE
    BY DEF ToSet
  <2>1. i + 1 \in DOMAIN s /\ 1 \in DOMAIN s /\ s[i + 1] = s[1] /\ i \in Nat /\ i > 0
    BY <1>1
  <2>2. i + 1 = 1 BY <2>1, <1>5 DEF IsInjective
  <2> QED BY <2>1, <2>2
<1> QED BY <1>1, <1>2, <1>3, <1>4, <1>5 DEF b

\* RemoveFirst takes its element off a sequence without repetition.
LEMMA RemoveOnce ==
  ASSUME NEW S, NEW s \in Seq(S), NEW e, IsInjective(s)
  PROVE  /\ RemoveFirst(s, e) \in Seq(S)
         /\ ToSet(RemoveFirst(s, e)) = ToSet(s) \ {e}
         /\ IsInjective(RemoveFirst(s, e))
         /\ Len(RemoveFirst(s, e)) <= Len(s)
         /\ e \in ToSet(s) => Len(RemoveFirst(s, e)) = Len(s) - 1
<1> DEFINE m == Len(s)
<1>1. m \in Nat /\ DOMAIN s = 1..m BY LenProperties
<1>2. CASE ~ \E i \in 1..m : s[i] = e
  <2>1. RemoveFirst(s, e) = s BY <1>2 DEF RemoveFirst
  <2>2. e \notin ToSet(s) BY <1>1, <1>2 DEF ToSet
  <2>3. Len(s) <= Len(s) BY <1>1
  <2> HIDE DEF m
  <2> QED BY <2>1, <2>2, <2>3
<1>3. CASE \E i \in 1..m : s[i] = e
  <2>1. PICK k \in 1..m : s[k] = e BY <1>3
  <2>2. {i \in 1..m : s[i] = e} = {k} BY <2>1, <1>1 DEF IsInjective
  <2>3. SelectInSeq(s, LAMBDA v : v = e) = Min({k})
    BY <2>2 DEF SelectInSeq
  <2>4. Min({k}) = k BY <2>1, <1>1 DEF Min
  <2>5. RemoveFirst(s, e) = RemoveAt(s, k)
    BY <1>3, <2>3, <2>4 DEF RemoveFirst
  <2> DEFINE a == SubSeq(s, 1, k - 1)
             b == SubSeq(s, (k - 1) + 1, m)
             c == SubSeq(s, k + 1, m)
  <2>6. /\ b \in Seq(S) /\ Len(b) = m - (k - 1)
        /\ a \in Seq(S) /\ Len(a) = k - 1
        /\ ToSet(s) = ToSet(a) \cup ToSet(b)
        /\ IsInjective(a) /\ IsInjective(b) /\ ToSet(a) \cap ToSet(b) = {}
    <3> DEFINE n == k - 1
    <3>1. n \in 0..Len(s) BY <2>1, <1>1
    <3> HIDE DEF n
    <3>2. /\ SubSeq(s, n + 1, m) \in Seq(S) /\ Len(SubSeq(s, n + 1, m)) = m - n
          /\ SubSeq(s, 1, n) \in Seq(S) /\ Len(SubSeq(s, 1, n)) = n
          /\ ToSet(s) = ToSet(SubSeq(s, 1, n)) \cup ToSet(SubSeq(s, n + 1, m))
          /\ IsInjective(SubSeq(s, 1, n)) /\ IsInjective(SubSeq(s, n + 1, m))
          /\ ToSet(SubSeq(s, 1, n)) \cap ToSet(SubSeq(s, n + 1, m)) = {}
      BY <3>1, SplitOnce
    <3> QED BY <3>2 DEF n
  <2>7. b # <<>>
    <3>1. Len(b) > 0 BY <2>6, <1>1, <2>1
    <3> HIDE DEF b
    <3> SUFFICES ASSUME b = <<>> PROVE FALSE OBVIOUS
    <3>2. Len(b) = 0 OBVIOUS
    <3> QED BY <3>1, <3>2
  <2>8. Head(b) = e /\ Tail(b) = c
    <3>1. (k - 1) + 1 = k /\ k \in 1..Len(s) /\ m \in k..Len(s) BY <2>1, <1>1
    <3>2. b = SubSeq(s, k, m) BY <3>1
    <3> QED BY <3>1, <3>2, <2>1, HeadTailOfSubSeq
  <2> HIDE DEF a, b, c, m
  <2>9. /\ c \in Seq(S) /\ IsInjective(c) /\ e \notin ToSet(c)
        /\ ToSet(b) = ToSet(c) \cup {e} /\ e \in ToSet(b)
    BY <2>6, <2>7, <2>8, TailOnce
  <2>10. Len(c) = Len(b) - 1 BY <2>6, <2>7, <2>8, HeadTailProperties
  <2>11. ToSet(a) \cap ToSet(c) = {} /\ e \notin ToSet(a) BY <2>6, <2>9
  <2>12. /\ a \o c \in Seq(S) /\ Len(a \o c) = Len(a) + Len(c)
         /\ ToSet(a \o c) = ToSet(a) \cup ToSet(c) /\ IsInjective(a \o c)
    BY <2>6, <2>9, <2>11, ConcatOnce
  <2>13. ToSet(a \o c) = ToSet(s) \ {e} BY <2>12, <2>6, <2>9, <2>11
  <2>14. Len(a \o c) <= Len(s) /\ Len(a \o c) = Len(s) - 1 BY <2>12, <2>10, <2>6, <2>1, <1>1 DEF m
  <2>15. RemoveAt(s, k) = a \o c BY DEF RemoveAt, a, c, m
  <2>16. RemoveFirst(s, e) = a \o c BY <2>5, <2>15
  <2> QED BY <2>12, <2>13, <2>14, <2>16
<1> QED BY <1>2, <1>3

\* A listing of a finite set lists all of it.
LEMMA ListingOnce ==
  ASSUME NEW S, IsFiniteSet(S), NEW q \in SetToSeqs(S)
  PROVE  /\ q \in Seq(S) /\ Len(q) = Cardinality(S)
         /\ ToSet(q) = S /\ IsInjective(q)
<1> DEFINE n == Cardinality(S)
<1>1. n \in Nat BY FS_CardinalityType
<1>2. q \in [1..n -> S] /\ \A i, j \in 1..n : i # j => q[i] # q[j]
  BY DEF SetToSeqs
<1>3. q \in Seq(S) BY <1>1, <1>2
<1>4. Len(q) = n BY <1>1, <1>2, <1>3, LenProperties
<1>5. IsInjective(q) BY <1>2 DEF IsInjective
<1>6. q \in Injection(1..n, S) BY <1>2, <1>5 DEF Injection
<1>7. Cardinality(1..n) = n BY <1>1, FS_Interval
<1>8. q \in Surjection(1..n, S) BY <1>6, <1>7, FS_Injection
<1>9. ToSet(q) = S BY <1>8, <1>2 DEF ToSet, Surjection
<1> QED BY <1>3, <1>4, <1>5, <1>9

\* A sequence lists no more elements than it is long.
LEMMA ListedCount ==
  ASSUME NEW S, NEW s \in Seq(S)
  PROVE  /\ IsFiniteSet(ToSet(s)) /\ Cardinality(ToSet(s)) \in Nat
         /\ Cardinality(ToSet(s)) <= Len(s)
<1> DEFINE n == Len(s)
<1>1. n \in Nat /\ DOMAIN s = 1..n /\ s \in [1..n -> S] BY LenProperties
<1>2. ToSet(s) = {s[i] : i \in 1..n} BY <1>1 DEF ToSet
<1>3. s \in Surjection(1..n, ToSet(s)) BY <1>1, <1>2 DEF Surjection
<1>4. IsFiniteSet(1..n) /\ Cardinality(1..n) = n BY <1>1, FS_Interval
<1> HIDE DEF n
<1>5. IsFiniteSet(ToSet(s)) /\ Cardinality(ToSet(s)) <= n BY <1>3, <1>4, FS_Surjection
<1> QED BY <1>5, FS_CardinalityType DEF n

-----------------------------------------------------------------------------
(* The inductive invariant.                                                *)

USE TasksAssumption, ThreadsAssumption, LimitsAssumption

(***************************************************************************)
(* The invariants refer to wtask[w], ctask[c] and holding; this part says  *)
(* when those are meaningful: a thread with something to do has a task, and*)
(* a worker holds no permit before it has acquired one.                    *)
(***************************************************************************)
ThreadsPlaced ==
  /\ \A w \in Workers : wpc[w] # "idle" => wtask[w] \in Tasks
  /\ \A w \in Workers : wpc[w] \in {"idle", "waiting"} => w \notin holding
  /\ \A c \in Clients :
       cpc[c] \in {"call", "recheck", "clean", "purge"} => ctask[c] \in Tasks

\* The inductive invariant.
IInv ==
  /\ TypeOK /\ ThreadsPlaced
  /\ LineIsQueued /\ HistoryIsEnded
  /\ OneWorkerPerTask /\ SlotsConserved /\ StopIntentTracked

-----------------------------------------------------------------------------
(* Operators.                                                              *)

LEMMA StatusFacts ==
  /\ Terminal \cap Active = {} /\ Terminal \cap Unknown = {} /\ Active \cap Unknown = {}
  /\ Active = {"queued", "running"} /\ "dropped" \in Unknown /\ "new" \in Unknown
  /\ Statuses = Active \cup Terminal \cup Unknown
  /\ Working \subseteq Phases /\ Stopping \subseteq Phases /\ Final \subseteq Phases
  /\ {"none", "queued"} \subseteq Phases
  /\ Working \cap Stopping = {} /\ Final \cap Stopping = {}
  /\ "queued" \notin Stopping /\ "none" \notin Stopping
  /\ {"success", "failed", "cancelled", "skipped"} \subseteq Terminal
  /\ {"completed", "failed", "cancelled", "paused", "skipped"} \subseteq Final
BY DEF Terminal, Active, Unknown, Statuses, Working, Stopping, Final, Phases

\* Trimming cuts the history in two.
LEMMA TrimOnce ==
  ASSUME NEW n \in Nat, NEW h \in Seq(Tasks)
  PROVE  /\ Trimmed(n, h) \in Seq(Tasks) /\ Kept(n, h) \in Seq(Tasks)
         /\ ToSet(h) = ToSet(Trimmed(n, h)) \cup ToSet(Kept(n, h))
         /\ IsInjective(h) => /\ IsInjective(Kept(n, h))
                              /\ ToSet(Trimmed(n, h)) \cap ToSet(Kept(n, h)) = {}
<1>1. Len(h) \in Nat BY LenProperties
<1>2. TrimCount(n, h) \in 0..Len(h)
  BY <1>1 DEF TrimCount
<1> HIDE DEF TrimCount
<1> QED BY <1>2, SplitOnce DEF Trimmed, Kept

\* What is appended to the notifications are notifications.
LEMMA NotesTyped ==
  /\ \A t \in Tasks, s \in Statuses, p \in Phases : <<Snapshot(t, s, p)>> \in Seq(Notes)
  /\ \A t \in Tasks : <<Dropped(t)>> \in Seq(Notes)
  /\ \A q \in Seq(Tasks) : DroppedNotes(q) \in Seq(Notes)
<1>1. \A t \in Tasks, s \in Statuses, p \in Phases : Snapshot(t, s, p) \in Notes
  BY DEF Snapshot, Notes
<1>2. \A t \in Tasks : Dropped(t) \in Notes
  BY <1>1, StatusFacts DEF Dropped, Notes
<1>3. ASSUME NEW q \in Seq(Tasks) PROVE DroppedNotes(q) \in Seq(Notes)
  <2>1. Len(q) \in Nat /\ \A i \in 1..Len(q) : q[i] \in Tasks BY LenProperties
  <2>2. \A i \in 1..Len(q) : Dropped(q[i]) \in Notes BY <2>1, <1>2
  <2> HIDE DEF Dropped, Notes
  <2> QED BY <2>1, <2>2 DEF DroppedNotes
<1> QED BY <1>1, <1>2, <1>3

LEMMA ActiveFinite ==
  ASSUME NEW S \in SUBSET Tasks
  PROVE  IsFiniteSet(S) /\ Cardinality(S) \in Nat
BY FS_Subset, FS_CardinalityType

-----------------------------------------------------------------------------
(* What a step that ends task t does to the tasks.                         *)

LEMMA SettleEffect ==
  ASSUME TypeOK, HistoryIsEnded,
         NEW a \in Threads, NEW t \in Tasks, status[t] \in Active,
         NEW s \in Terminal, NEW p \in Final, NEW sig \in SUBSET Tasks,
         Settle(a, t, s, p, sig)
  PROVE  /\ status' \in [Tasks -> Statuses] /\ phase' \in [Tasks -> Phases]
         /\ signalled' \subseteq Tasks /\ pauseReq' \subseteq Tasks
         /\ history' \in Seq(Tasks)
         /\ notifs' \in Seq(Notes) /\ owesFlush' \subseteq Threads
         /\ HistoryIsEnded'
         /\ status'[t] \notin Active /\ t \notin pauseReq'
         /\ \A u \in Tasks \ {t} :
              IF status[u] \in Terminal
              THEN status'[u] \notin Active /\ (u \in pauseReq' => u \in pauseReq)
              ELSE /\ status'[u] = status[u] /\ phase'[u] = phase[u]
                   /\ u \in pauseReq' <=> u \in pauseReq
                   /\ u \in signalled' <=> u \in sig
<1> DEFINE n == Cardinality(ActiveTasks \ {t})
           h == Append(Unlisted(t), t)
           cut == Trimmed(n, h)
           gone == ToSet(cut)
           st == [status EXCEPT ![t] = s]
           ph == [phase EXCEPT ![t] = p]
<1>1. n \in Nat
  <2>1. ActiveTasks \ {t} \in SUBSET Tasks BY DEF ActiveTasks
  <2> QED BY <2>1, ActiveFinite
<1>2. /\ h \in Seq(Tasks) /\ IsInjective(h)
      /\ ToSet(h) = ToSet(history) \cup {t}
  <2>1. history \in Seq(Tasks) /\ IsInjective(history)
    BY DEF TypeOK, QueueTyped, HistoryIsEnded
  <2>2. t \notin ToSet(history) BY StatusFacts DEF HistoryIsEnded
  <2>3. /\ Unlisted(t) \in Seq(Tasks) /\ IsInjective(Unlisted(t))
        /\ ToSet(Unlisted(t)) = ToSet(history)
    <3>1. /\ RemoveFirst(history, t) \in Seq(Tasks)
          /\ IsInjective(RemoveFirst(history, t))
          /\ ToSet(RemoveFirst(history, t)) = ToSet(history) \ {t}
      BY <2>1, RemoveOnce
    <3> QED BY <2>2, <3>1 DEF Unlisted
  <2> QED BY <2>2, <2>3, AppendOnce
<1> HIDE DEF n, h
<1>3. /\ cut \in Seq(Tasks) /\ Kept(n, h) \in Seq(Tasks) /\ IsInjective(Kept(n, h))
      /\ ToSet(h) = gone \cup ToSet(Kept(n, h))
      /\ gone \cap ToSet(Kept(n, h)) = {}
  BY <1>1, <1>2, TrimOnce
<1>4. /\ status' = DropStatus(st, gone) /\ phase' = DropPhase(ph, gone)
      /\ history' = Kept(n, h)
      /\ notifs' = notifs \o (DroppedNotes(cut) \o <<Snapshot(t, s, p)>>)
      /\ owesFlush' = owesFlush \cup {a}
      /\ pauseReq' = (pauseReq \ {t}) \ gone
      /\ signalled' = sig \ gone
  BY DEF Settle, Notify, n, h
<1> HIDE DEF cut, gone
<1>5. /\ st \in [Tasks -> Statuses] /\ ph \in [Tasks -> Phases]
      /\ status \in [Tasks -> Statuses] /\ phase \in [Tasks -> Phases]
  BY StatusFacts DEF TypeOK, QueueTyped
<1>6. \A u \in Tasks : /\ status'[u] = IF u \in gone THEN "dropped" ELSE st[u]
                       /\ phase'[u] = IF u \in gone THEN "none" ELSE ph[u]
  BY <1>4 DEF DropStatus, DropPhase
<1>7. status' \in [Tasks -> Statuses] /\ phase' \in [Tasks -> Phases]
  BY <1>4, <1>5, StatusFacts DEF DropStatus, DropPhase
<1>8. notifs' \in Seq(Notes) /\ owesFlush' \subseteq Threads
  <2>1. s \in Statuses /\ p \in Phases BY StatusFacts
  <2>2. /\ DroppedNotes(cut) \in Seq(Notes) /\ <<Snapshot(t, s, p)>> \in Seq(Notes)
    BY <1>3, <2>1, NotesTyped
  <2>3. notifs \in Seq(Notes) /\ owesFlush \subseteq Threads BY DEF TypeOK, StoreTyped
  <2>4. DroppedNotes(cut) \o <<Snapshot(t, s, p)>> \in Seq(Notes)
    BY <2>2, ConcatProperties
  <2> QED BY <1>4, <2>3, <2>4, ConcatProperties
<1>9. HistoryIsEnded'
  <2>1. ASSUME NEW u \in Tasks
        PROVE  status'[u] \in Terminal <=> u \in ToSet(history')
    <3>1. u \in ToSet(h) <=> u = t \/ status[u] \in Terminal
      BY <1>2 DEF HistoryIsEnded
    <3>2. CASE u \in gone BY <3>2, <1>3, <1>4, <1>6, StatusFacts
    <3>3. CASE u \notin gone
      <4>1. status'[u] = st[u] BY <1>6, <3>3
      <4>2. st[u] = IF u = t THEN s ELSE status[u] BY <1>5 DEF TypeOK, QueueTyped
      <4> QED BY <3>1, <3>3, <4>1, <4>2, <1>3, <1>4
    <3> QED BY <3>2, <3>3
  <2> QED BY <2>1, <1>3, <1>4 DEF HistoryIsEnded
<1>10. \A u \in gone : u = t \/ status[u] \in Terminal
  <2>1. ASSUME NEW u \in gone PROVE u \in Tasks
    <3>1. cut \in Seq(Tasks) BY <1>3
    <3> QED BY <3>1, LenProperties DEF gone, ToSet
  <2> QED BY <2>1, <1>2, <1>3 DEF HistoryIsEnded
<1>11. status'[t] \notin Active /\ t \notin pauseReq'
  <2>1. st[t] = s BY <1>5 DEF TypeOK, QueueTyped
  <2> QED BY <2>1, <1>4, <1>6, StatusFacts
<1>12. ASSUME NEW u \in Tasks \ {t}, status[u] \in Terminal
       PROVE  status'[u] \notin Active /\ (u \in pauseReq' => u \in pauseReq)
  <2>1. st[u] = status[u] BY <1>5
  <2> QED BY <2>1, <1>4, <1>6, <1>12, StatusFacts
<1>13. ASSUME NEW u \in Tasks \ {t}, status[u] \notin Terminal
       PROVE  /\ status'[u] = status[u] /\ phase'[u] = phase[u]
              /\ u \in pauseReq' <=> u \in pauseReq
              /\ u \in signalled' <=> u \in sig
  <2>1. u \notin gone BY <1>10, <1>13
  <2>2. st[u] = status[u] /\ ph[u] = phase[u] BY <1>5
  <2> QED BY <2>1, <2>2, <1>4, <1>6
<1>14. signalled' \subseteq Tasks /\ pauseReq' \subseteq Tasks /\ history' \in Seq(Tasks)
  BY <1>3, <1>4 DEF TypeOK, QueueTyped
<1> QED BY <1>7, <1>8, <1>9, <1>11, <1>12, <1>13, <1>14
LEMMA OutOfLineEffect ==
  ASSUME TypeOK, LineIsQueued, NEW t
  PROVE  /\ OutOfLine(t) \in Seq(Tasks) /\ IsInjective(OutOfLine(t))
         /\ ToSet(OutOfLine(t)) = ToSet(pending) \ {t}
BY RemoveOnce DEF OutOfLine, TypeOK, QueueTyped, LineIsQueued

LEMMA UnlistedEffect ==
  ASSUME TypeOK, HistoryIsEnded, NEW t
  PROVE  /\ Unlisted(t) \in Seq(Tasks) /\ IsInjective(Unlisted(t))
         /\ ToSet(Unlisted(t)) = ToSet(history) \ {t}
BY RemoveOnce DEF Unlisted, TypeOK, QueueTyped, HistoryIsEnded

\* One notification is appended and its flush owed.
LEMMA NotifyEffect ==
  ASSUME TypeOK, NEW a \in Threads, NEW ns \in Seq(Notes), Notify(a, ns)
  PROVE  notifs' \in Seq(Notes) /\ owesFlush' \subseteq Threads
BY ConcatProperties DEF Notify, TypeOK, StoreTyped

\* A finishing worker leaves its task ended and every other running task as it was.
LEMMA FinishEffect ==
  ASSUME IInv, NEW w \in Workers, wpc[w] \in Executing,
         NEW st \in {"success", "failed", "cancelled"}, Finish(w, st)
  PROVE  /\ QueueTyped' /\ notifs' \in Seq(Notes) /\ owesFlush' \subseteq Threads
         /\ LineIsQueued' /\ HistoryIsEnded' /\ OneWorkerPerTask' /\ StopIntentTracked'
         /\ wpc' = [wpc EXCEPT ![w] = "finished"]
         /\ UNCHANGED <<wtask, db, clientVars, bounds>>
<1> DEFINE t == wtask[w]
           p == IF st = "success" THEN "completed"
                ELSE IF st = "cancelled" /\ t \in pauseReq THEN "paused" ELSE st
<1>1. /\ TypeOK /\ HistoryIsEnded /\ LineIsQueued /\ OneWorkerPerTask /\ StopIntentTracked
      /\ w \in Threads /\ signalled \in SUBSET Tasks
      /\ t \in Tasks /\ status[t] = "running"
  BY DEF IInv, TypeOK, QueueTyped, ThreadsPlaced, OneWorkerPerTask, Threads, Executing, InRun
<1>2. st \in Terminal /\ p \in Final BY StatusFacts DEF Final
<1>3. /\ Settle(w, t, st, p, signalled)
      /\ wpc' = [wpc EXCEPT ![w] = "finished"]
      /\ UNCHANGED <<wtask, qualityErr, pending, stopping, db, clientVars, bounds>>
  BY DEF Finish, Goto
<1> HIDE DEF t, p
<1>4. /\ status' \in [Tasks -> Statuses] /\ phase' \in [Tasks -> Phases]
      /\ signalled' \subseteq Tasks /\ pauseReq' \subseteq Tasks
      /\ history' \in Seq(Tasks)
      /\ notifs' \in Seq(Notes) /\ owesFlush' \subseteq Threads
      /\ HistoryIsEnded'
      /\ status'[t] \notin Active /\ t \notin pauseReq'
      /\ \A u \in Tasks \ {t} :
           IF status[u] \in Terminal
           THEN status'[u] \notin Active /\ (u \in pauseReq' => u \in pauseReq)
           ELSE /\ status'[u] = status[u] /\ phase'[u] = phase[u]
                /\ u \in pauseReq' <=> u \in pauseReq
                /\ u \in signalled' <=> u \in signalled
  <2>1. status[t] \in Active BY <1>1, StatusFacts
  <2> QED BY <1>1, <1>2, <1>3, <2>1, SettleEffect
<1>5. QueueTyped'
  BY <1>1, <1>3, <1>4 DEF QueueTyped, TypeOK
<1>6. \A u \in Tasks : \A x \in Active : u # t =>
        (status'[u] = x <=> status[u] = x)
  BY <1>4, StatusFacts
<1>7. LineIsQueued'
  <2>1. \A u \in Tasks : status'[u] = "queued" <=> status[u] = "queued"
    BY <1>1, <1>4, <1>6, StatusFacts
  <2> QED BY <2>1, <1>1, <1>3 DEF LineIsQueued
<1>8. OneWorkerPerTask'
  <2>1. \A v \in Workers : /\ wpc'[v] = IF v = w THEN "finished" ELSE wpc[v]
                           /\ wtask'[v] = wtask[v]
    BY <1>1, <1>3 DEF TypeOK, WorkersTyped
  <2>2. "finished" \notin Executing BY DEF Executing, InRun
  <2>3. ASSUME NEW v \in Workers, wpc'[v] \in Executing
        PROVE  v # w /\ wpc[v] \in Executing /\ wtask[v] # t /\ wtask[v] \in Tasks
    <3>1. v # w /\ wpc[v] \in Executing BY <2>1, <2>2, <2>3
    <3>2. wtask[v] # t BY <3>1, <1>1 DEF OneWorkerPerTask, t
    <3>3. wtask[v] \in Tasks
      BY <3>1 DEF IInv, ThreadsPlaced, Executing, InRun
    <3> QED BY <3>1, <3>2, <3>3
  <2>4. \A v \in Workers : wpc'[v] \in Executing => status'[wtask'[v]] = "running"
    BY <2>1, <2>3, <1>1, <1>6, StatusFacts DEF OneWorkerPerTask
  <2>5. \A u, v \in Workers : wpc'[u] \in Executing /\ wpc'[v] \in Executing
                                /\ wtask'[u] = wtask'[v] => u = v
    BY <2>1, <2>3, <1>1 DEF OneWorkerPerTask
  <2>6. ASSUME ~stopping', NEW u \in Tasks, status'[u] = "running"
        PROVE  \E v \in Workers : wpc'[v] \in Executing /\ wtask'[v] = u
    <3>1. u # t /\ status[u] = "running" BY <2>6, <1>4, <1>6, StatusFacts
    <3>2. PICK v \in Workers : wpc[v] \in Executing /\ wtask[v] = u
      BY <3>1, <2>6, <1>1, <1>3 DEF OneWorkerPerTask
    <3>3. v # w BY <3>1, <3>2 DEF t
    <3> QED BY <3>2, <3>3, <2>1
  <2> QED BY <2>4, <2>5, <2>6 DEF OneWorkerPerTask
<1>9. StopIntentTracked'
  <2>1. ASSUME NEW u \in pauseReq' PROVE status'[u] = "running"
    <3>1. u \in Tasks \ {t} BY <2>1, <1>4
    <3>2. u \in pauseReq BY <2>1, <3>1, <1>4
    <3>3. status[u] = "running" BY <3>2, <1>1 DEF StopIntentTracked
    <3> QED BY <3>1, <3>3, <1>6, StatusFacts
  <2>2. ASSUME NEW u \in Tasks, status'[u] = "running"
        PROVE  /\ phase'[u] = "pausing" <=> u \in pauseReq'
               /\ phase'[u] \in Stopping => u \in signalled'
    <3>1. u # t /\ status[u] = "running" BY <2>2, <1>4, <1>6, StatusFacts
    <3>2. /\ phase'[u] = phase[u] /\ (u \in pauseReq' <=> u \in pauseReq)
          /\ (u \in signalled' <=> u \in signalled)
      BY <3>1, <1>4, StatusFacts
    <3> QED BY <3>1, <3>2, <1>1 DEF StopIntentTracked
  <2> QED BY <2>1, <2>2 DEF StopIntentTracked
<1> QED BY <1>3, <1>4, <1>5, <1>7, <1>8, <1>9
-----------------------------------------------------------------------------
(* Steps that leave the tasks and the workers alone.                       *)

LEMMA QueueUntouched ==
  ASSUME IInv, UNCHANGED <<taskVars, queueVars, stopping, slotVars, workerVars>>,
         StoreTyped', ClientsTyped',
         \A c \in Clients :
           cpc'[c] \in {"call", "recheck", "clean", "purge"} => ctask'[c] \in Tasks
  PROVE  IInv'
<1> USE DEF IInv, taskVars, queueVars, slotVars, workerVars
<1>1. TypeOK' BY DEF TypeOK, QueueTyped, WorkersTyped
<1>2. ThreadsPlaced' BY DEF ThreadsPlaced
<1>3. LineIsQueued' /\ HistoryIsEnded' BY DEF LineIsQueued, HistoryIsEnded
<1>4. OneWorkerPerTask' BY DEF OneWorkerPerTask
<1>5. SlotsConserved' BY DEF SlotsConserved
<1>6. StopIntentTracked' BY DEF StopIntentTracked
<1> QED BY <1>1, <1>2, <1>3, <1>4, <1>5, <1>6

\* One request moves on, on its own task, and the queue is not touched.
LEMMA RequestMoves ==
  ASSUME IInv, NEW c \in Clients,
         UNCHANGED <<taskVars, queueVars, stopping, slotVars, workerVars>>,
         StoreTyped',
         NEW pc \in {"idle", "call", "recheck", "clean", "purge", "reply"},
         cpc' = [cpc EXCEPT ![c] = pc],
         ctask'[c] \in Tasks \/ pc \in {"idle", "reply"},
         \E t \in Tasks \cup {NoTask} : ctask' = [ctask EXCEPT ![c] = t],
         \E op \in {"none", "enqueue", "retry", "delete"} \cup Intents :
           cop' = [cop EXCEPT ![c] = op],
         \E r \in {"none", "done", "seen", "refused"} : reply' = [reply EXCEPT ![c] = r],
         retries' \in Nat, restarts' \in Nat
  PROVE  IInv'
<1>1. ClientsTyped' BY DEF IInv, TypeOK, ClientsTyped
<1>2. \A d \in Clients :
        cpc'[d] \in {"call", "recheck", "clean", "purge"} => ctask'[d] \in Tasks
  BY DEF IInv, TypeOK, ClientsTyped, ThreadsPlaced
<1> QED BY <1>1, <1>2, QueueUntouched

LEMMA RequestKeeps ==
  ASSUME IInv, NEW c \in Clients,
         \/ \E t \in Tasks, op \in Intents : RequestStop(c, op, t)
         \/ \E t \in Tasks : RequestRetry(c, t)
         \/ StopTooLate(c) \/ Recheck(c) \/ StopAgain(c) \/ RefuseRetry(c)
         \/ RetryCleanup(c) \/ PurgeRow(c) \/ EndRequest(c)
  PROVE  IInv'
<1> USE DEF Answer, Begins, storeVars, fileVars, bounds
<1>1. /\ ClientsTyped /\ StoreTyped /\ ThreadsPlaced
      /\ Intents \subseteq {"none", "enqueue", "retry", "delete"} \cup Intents
  BY DEF IInv, TypeOK
<1>2. \A S, f : f \in [Clients -> S] => f = [f EXCEPT ![c] = f[c]]
  OBVIOUS
<1>3. /\ cop = [cop EXCEPT ![c] = cop[c]] /\ ctask = [ctask EXCEPT ![c] = ctask[c]]
      /\ reply = [reply EXCEPT ![c] = reply[c]]
      /\ cop[c] \in {"none", "enqueue", "retry", "delete"} \cup Intents
      /\ ctask[c] \in Tasks \cup {NoTask}
      /\ reply[c] \in {"none", "done", "seen", "refused"}
      /\ retries \in Nat /\ restarts \in Nat
  BY <1>1, <1>2 DEF ClientsTyped
<1>4. ASSUME NEW t \in Tasks, NEW op \in Intents, RequestStop(c, op, t) PROVE IInv'
  BY <1>1, <1>3, <1>4, RequestMoves DEF RequestStop, StoreTyped, StopAnswer, ClientsTyped
<1>5. ASSUME NEW t \in Tasks, RequestRetry(c, t) PROVE IInv'
  <2>1. /\ UNCHANGED <<taskVars, queueVars, stopping, slotVars, workerVars>>
        /\ UNCHANGED <<storeVars, fileVars, restarts>>
        /\ ctask' = [ctask EXCEPT ![c] = t] /\ cop' = [cop EXCEPT ![c] = "retry"]
        /\ retries' = retries + 1
        /\ \/ cpc' = [cpc EXCEPT ![c] = "call"] /\ UNCHANGED reply
           \/ cpc' = [cpc EXCEPT ![c] = "reply"]
              /\ reply' = [reply EXCEPT ![c] = "refused"]
    BY <1>5 DEF RequestRetry
  <2>2. StoreTyped' BY <1>1, <2>1 DEF StoreTyped
  <2>3. ctask'[c] \in Tasks /\ retries' \in Nat /\ restarts' \in Nat
    BY <1>1, <1>3, <2>1 DEF ClientsTyped
  <2> QED BY <1>3, <2>1, <2>2, <2>3, RequestMoves
<1>6. CASE StopTooLate(c)
  BY <1>1, <1>3, <1>6, RequestMoves DEF StopTooLate, StoreTyped, ThreadsPlaced
<1>7. CASE Recheck(c) \/ StopAgain(c) \/ RefuseRetry(c)
  BY <1>1, <1>3, <1>7, RequestMoves DEF Recheck, StopAgain, RefuseRetry, StoreTyped
<1>8. CASE RetryCleanup(c)
  BY <1>1, <1>3, <1>8, RequestMoves DEF RetryCleanup, StoreTyped
<1>9. CASE PurgeRow(c)
  BY <1>1, <1>3, <1>9, RequestMoves, StatusFacts DEF PurgeRow, StoreTyped, Rows
<1>10. CASE EndRequest(c)
  BY <1>1, <1>3, <1>10, RequestMoves DEF EndRequest, StoreTyped
<1> QED BY <1>4, <1>5, <1>6, <1>7, <1>8, <1>9, <1>10

LEMMA FlushKeeps ==
  ASSUME IInv, Flush
  PROVE  IInv'
<1> USE DEF IInv, TypeOK, ThreadsPlaced, clientVars, bounds
<1>1. CASE FlushOne
  <2>1. db' \in [Tasks -> Rows] /\ notifs' \in Seq(Notes)
    <3>1. /\ notifs \in Seq(Notes) /\ notifs # <<>> /\ db \in [Tasks -> Rows]
          /\ Persist(Head(notifs)) /\ notifs' = Tail(notifs)
      BY <1>1 DEF FlushOne, StoreTyped
    <3>2. Head(notifs) \in Notes /\ Tail(notifs) \in Seq(Notes)
      BY <3>1, HeadTailProperties
    <3>3. ASSUME NEW n \in Notes, Persist(n) PROVE db' \in [Tasks -> Rows]
      BY <3>1, <3>3 DEF Persist, Notes, Rows
    <3> QED BY <3>1, <3>2, <3>3
  <2>2. StoreTyped' BY <1>1, <2>1 DEF StoreTyped, FlushOne, fileVars
  <2>3. ClientsTyped' BY <1>1 DEF ClientsTyped, FlushOne
  <2> QED BY <1>1, <2>2, <2>3, QueueUntouched DEF FlushOne
<1>2. ASSUME NEW a \in Threads, FlushDone(a) PROVE IInv'
  <2>1. StoreTyped' BY <1>2 DEF StoreTyped, FlushDone, fileVars
  <2>2. ClientsTyped' BY <1>2 DEF ClientsTyped, FlushDone
  <2> QED BY <1>2, <2>1, <2>2, QueueUntouched DEF FlushDone
<1> QED BY <1>1, <1>2 DEF Flush

-----------------------------------------------------------------------------
(* Requests that change the tasks.                                         *)

LEMMA ThreadsKept ==
  ASSUME IInv, UNCHANGED <<slotVars, workerVars, bounds>>,
         NEW c \in Clients,
         NEW pc \in {"call", "recheck", "clean", "purge", "reply"},
         cpc' = [cpc EXCEPT ![c] = pc],
         NEW t \in Tasks, ctask' = [ctask EXCEPT ![c] = t],
         \E op \in {"none", "enqueue", "retry", "delete"} \cup Intents :
           cop' = [cop EXCEPT ![c] = op],
         \E r \in {"none", "done", "seen", "refused"} : reply' = [reply EXCEPT ![c] = r]
  PROVE  WorkersTyped' /\ ClientsTyped' /\ SlotsConserved' /\ ThreadsPlaced'
<1> USE DEF IInv, TypeOK, slotVars, workerVars, bounds
<1>1. WorkersTyped' BY DEF WorkersTyped
<1>2. ClientsTyped' BY DEF ClientsTyped
<1>3. SlotsConserved' BY DEF SlotsConserved
<1>4. ThreadsPlaced' BY DEF ThreadsPlaced, ClientsTyped
<1> QED BY <1>1, <1>2, <1>3, <1>4

LEMMA RunnersKept ==
  ASSUME IInv, UNCHANGED <<workerVars, stopping>>,
         \A t \in Tasks : status'[t] = "running" <=> status[t] = "running"
  PROVE  OneWorkerPerTask'
<1>1. \A w \in Workers : wpc[w] \in Executing => wtask[w] \in Tasks
  BY DEF IInv, ThreadsPlaced, Executing, InRun
<1> QED BY <1>1 DEF IInv, OneWorkerPerTask, workerVars

\* The request's own fields, for the actions that keep cop, ctask or reply.
LEMMA RequestFields ==
  ASSUME IInv, NEW c \in Clients
  PROVE  /\ cop = [cop EXCEPT ![c] = cop[c]] /\ ctask = [ctask EXCEPT ![c] = ctask[c]]
         /\ reply = [reply EXCEPT ![c] = reply[c]]
         /\ cop[c] \in {"none", "enqueue", "retry", "delete"} \cup Intents
         /\ reply[c] \in {"none", "done", "seen", "refused"}
         /\ cpc[c] \in {"call", "recheck", "clean", "purge"} => ctask[c] \in Tasks
         /\ c \in Threads
BY DEF IInv, TypeOK, ClientsTyped, ThreadsPlaced, Threads

\* The same, for the second half of a request.
LEMMA CallKept ==
  ASSUME IInv, NEW c \in Clients, cpc[c] = "call",
         UNCHANGED <<slotVars, workerVars, bounds, cop, ctask>>,
         NEW pc \in {"clean", "reply"}, cpc' = [cpc EXCEPT ![c] = pc],
         \/ UNCHANGED reply
         \/ reply' = [reply EXCEPT ![c] = "done"]
  PROVE  WorkersTyped' /\ ClientsTyped' /\ SlotsConserved' /\ ThreadsPlaced'
<1> USE DEF IInv, TypeOK, slotVars, workerVars, bounds
<1>1. WorkersTyped' BY DEF WorkersTyped
<1>2. ClientsTyped' BY DEF ClientsTyped
<1>3. SlotsConserved' BY DEF SlotsConserved
<1>4. ThreadsPlaced' BY DEF ThreadsPlaced, ClientsTyped
<1> QED BY <1>1, <1>2, <1>3, <1>4

LEMMA StopQueuedKeeps ==
  ASSUME IInv, NEW c \in Clients, StopQueued(c)
  PROVE  IInv'
<1> DEFINE t == ctask[c]
           p == IF cop[c] = "pause" THEN "paused" ELSE "cancelled"
           sig == signalled \cup {t}
<1>1. /\ TypeOK /\ HistoryIsEnded /\ LineIsQueued /\ StopIntentTracked
      /\ t \in Tasks /\ status[t] = "queued" /\ c \in Threads /\ cpc[c] = "call"
      /\ sig \in SUBSET Tasks
  BY RequestFields DEF IInv, TypeOK, QueueTyped, StopQueued
<1>2. /\ Settle(c, t, "cancelled", p, sig)
      /\ pending' = OutOfLine(t)
      /\ cpc' = [cpc EXCEPT ![c] = "reply"] /\ reply' = [reply EXCEPT ![c] = "done"]
      /\ UNCHANGED <<qualityErr, stopping, db, slotVars, workerVars, fileVars, cop,
                     ctask, bounds>>
  BY DEF StopQueued, Answer
<1>3. p \in Final /\ "cancelled" \in Terminal BY StatusFacts
<1> HIDE DEF t, p, sig
<1>4. /\ status' \in [Tasks -> Statuses] /\ phase' \in [Tasks -> Phases]
      /\ signalled' \subseteq Tasks /\ pauseReq' \subseteq Tasks
      /\ history' \in Seq(Tasks)
      /\ notifs' \in Seq(Notes) /\ owesFlush' \subseteq Threads
      /\ HistoryIsEnded'
      /\ status'[t] \notin Active /\ t \notin pauseReq'
      /\ \A u \in Tasks \ {t} :
           IF status[u] \in Terminal
           THEN status'[u] \notin Active /\ (u \in pauseReq' => u \in pauseReq)
           ELSE /\ status'[u] = status[u] /\ phase'[u] = phase[u]
                /\ u \in pauseReq' <=> u \in pauseReq
                /\ u \in signalled' <=> u \in sig
  <2>1. status[t] \in Active BY <1>1, StatusFacts
  <2> QED BY <1>1, <1>2, <1>3, <2>1, SettleEffect
<1>5. \A u \in Tasks : \A x \in Active : u # t =>
        (status'[u] = x <=> status[u] = x)
  BY <1>4, StatusFacts
<1>6. /\ pending' \in Seq(Tasks) /\ IsInjective(pending')
      /\ ToSet(pending') = ToSet(pending) \ {t}
  BY <1>1, <1>2, OutOfLineEffect
<1>7. QueueTyped' BY <1>1, <1>2, <1>4, <1>6 DEF QueueTyped, TypeOK
<1>8. StoreTyped' BY <1>1, <1>2, <1>4 DEF StoreTyped, TypeOK, fileVars
<1>9. WorkersTyped' /\ ClientsTyped' /\ SlotsConserved' /\ ThreadsPlaced'
  BY <1>1, <1>2, CallKept
<1>10. LineIsQueued'
  <2>1. \A u \in Tasks : status'[u] = "queued" <=> status[u] = "queued" /\ u # t
    BY <1>4, <1>5, StatusFacts
  <2> QED BY <2>1, <1>1, <1>6 DEF LineIsQueued
<1>11. OneWorkerPerTask'
  <2>1. \A u \in Tasks : status'[u] = "running" <=> status[u] = "running"
    BY <1>1, <1>4, <1>5, StatusFacts
  <2> QED BY <2>1, <1>2, RunnersKept
<1>12. StopIntentTracked'
  <2>1. ASSUME NEW u \in pauseReq' PROVE status'[u] = "running"
    <3>1. u \in Tasks \ {t} BY <2>1, <1>4
    <3>2. u \in pauseReq BY <2>1, <3>1, <1>4
    <3>3. status[u] = "running" BY <3>2, <1>1 DEF StopIntentTracked
    <3> QED BY <3>1, <3>3, <1>5, StatusFacts
  <2>2. ASSUME NEW u \in Tasks, status'[u] = "running"
        PROVE  /\ phase'[u] = "pausing" <=> u \in pauseReq'
               /\ phase'[u] \in Stopping => u \in signalled'
    <3>1. u # t /\ status[u] = "running" BY <2>2, <1>4, <1>5, StatusFacts
    <3>2. /\ phase'[u] = phase[u] /\ (u \in pauseReq' <=> u \in pauseReq)
          /\ (u \in signalled => u \in signalled')
      BY <3>1, <1>4, StatusFacts DEF sig
    <3> QED BY <3>1, <3>2, <1>1 DEF StopIntentTracked
  <2> QED BY <2>1, <2>2 DEF StopIntentTracked
<1> QED BY <1>4, <1>7, <1>8, <1>9, <1>10, <1>11, <1>12 DEF IInv, TypeOK

LEMMA StopRunningKeeps ==
  ASSUME IInv, NEW c \in Clients, StopRunning(c)
  PROVE  IInv'
<1> DEFINE t == ctask[c]
           p == IF cop[c] = "pause" THEN "pausing" ELSE "cancelling"
<1>1. /\ TypeOK /\ HistoryIsEnded /\ LineIsQueued /\ StopIntentTracked
      /\ t \in Tasks /\ status[t] = "running" /\ c \in Threads /\ cpc[c] = "call"
      /\ phase \in [Tasks -> Phases]
  BY RequestFields DEF IInv, TypeOK, QueueTyped, StopRunning
<1>2. /\ signalled' = signalled \cup {t}
      /\ pauseReq' = PauseSet(cop[c], t)
      /\ phase' = [phase EXCEPT ![t] = p]
      /\ Notify(c, <<Snapshot(t, "running", p)>>)
      /\ cpc' = [cpc EXCEPT ![c] = "reply"] /\ reply' = [reply EXCEPT ![c] = "done"]
      /\ UNCHANGED <<status, qualityErr, queueVars, stopping, db, slotVars, workerVars,
                     fileVars, cop, ctask, bounds>>
  BY DEF StopRunning, Answer
<1>3. p \in Stopping /\ p \in Phases /\ "running" \in Statuses
  BY StatusFacts DEF Stopping
<1>4. /\ pauseReq' \subseteq Tasks /\ (t \in pauseReq' <=> p = "pausing")
      /\ \A u \in Tasks \ {t} : u \in pauseReq' <=> u \in pauseReq
  BY <1>1, <1>2 DEF PauseSet, TypeOK, QueueTyped
<1> HIDE DEF t, p
<1>5. notifs' \in Seq(Notes) /\ owesFlush' \subseteq Threads
  <2>1. <<Snapshot(t, "running", p)>> \in Seq(Notes) BY <1>1, <1>3, NotesTyped
  <2> QED BY <1>1, <1>2, <2>1, NotifyEffect
<1>6. QueueTyped'
  BY <1>1, <1>2, <1>3, <1>4 DEF QueueTyped, TypeOK, queueVars
<1>7. StoreTyped' BY <1>1, <1>2, <1>5 DEF StoreTyped, TypeOK, fileVars
<1>8. WorkersTyped' /\ ClientsTyped' /\ SlotsConserved' /\ ThreadsPlaced'
  BY <1>1, <1>2, CallKept
<1>9. LineIsQueued' /\ HistoryIsEnded'
  BY <1>1, <1>2 DEF LineIsQueued, HistoryIsEnded, queueVars
<1>10. OneWorkerPerTask' BY <1>2, RunnersKept
<1>11. StopIntentTracked'
  BY <1>1, <1>2, <1>3, <1>4 DEF StopIntentTracked
<1> QED BY <1>6, <1>7, <1>8, <1>9, <1>10, <1>11 DEF IInv, TypeOK

LEMMA RetryKeeps ==
  ASSUME IInv, NEW c \in Clients, Retry(c)
  PROVE  IInv'
<1> DEFINE t == ctask[c]
<1>1. /\ TypeOK /\ HistoryIsEnded /\ LineIsQueued /\ StopIntentTracked
      /\ t \in Tasks /\ status[t] \in Terminal /\ c \in Threads /\ cpc[c] = "call"
  BY RequestFields DEF IInv, Retry, Retryable
<1>2. /\ status' = [status EXCEPT ![t] = "queued"]
      /\ phase' = [phase EXCEPT ![t] = "queued"]
      /\ signalled' = signalled \ {t} /\ pauseReq' = pauseReq \ {t}
      /\ qualityErr' = qualityErr \ {t}
      /\ pending' = Append(OutOfLine(t), t) /\ history' = Unlisted(t)
      /\ Notify(c, <<Snapshot(t, "queued", "queued")>>)
      /\ cpc' = [cpc EXCEPT ![c] = "clean"]
      /\ UNCHANGED <<stopping, db, slotVars, workerVars, fileVars, cop, ctask, reply,
                     bounds>>
  BY DEF Retry
<1> HIDE DEF t
<1>3. /\ status \in [Tasks -> Statuses] /\ phase \in [Tasks -> Phases]
      /\ "queued" \in Statuses /\ "queued" \in Phases
  BY <1>1, StatusFacts DEF TypeOK, QueueTyped
<1>4. \A u \in Tasks : /\ status'[u] = IF u = t THEN "queued" ELSE status[u]
                       /\ phase'[u] = IF u = t THEN "queued" ELSE phase[u]
  BY <1>2, <1>3
<1>5. /\ pending' \in Seq(Tasks) /\ IsInjective(pending')
      /\ ToSet(pending') = ToSet(pending) \cup {t}
  <2>1. /\ OutOfLine(t) \in Seq(Tasks) /\ IsInjective(OutOfLine(t))
        /\ ToSet(OutOfLine(t)) = ToSet(pending) \ {t}
    BY <1>1, OutOfLineEffect
  <2> HIDE DEF OutOfLine
  <2>2. t \notin ToSet(OutOfLine(t)) BY <2>1
  <2> QED BY <1>1, <1>2, <2>1, <2>2, AppendOnce
<1>6. /\ history' \in Seq(Tasks) /\ IsInjective(history')
      /\ ToSet(history') = ToSet(history) \ {t}
  BY <1>1, <1>2, UnlistedEffect
<1>7. notifs' \in Seq(Notes) /\ owesFlush' \subseteq Threads
  <2>1. <<Snapshot(t, "queued", "queued")>> \in Seq(Notes) BY <1>1, <1>3, NotesTyped
  <2> QED BY <1>1, <1>2, <2>1, NotifyEffect
<1>8. QueueTyped'
  BY <1>1, <1>2, <1>3, <1>5, <1>6 DEF QueueTyped, TypeOK
<1>9. StoreTyped' BY <1>1, <1>2, <1>7 DEF StoreTyped, TypeOK, fileVars
<1>10. WorkersTyped' /\ ClientsTyped' /\ SlotsConserved' /\ ThreadsPlaced'
  BY <1>1, <1>2, CallKept
<1>11. LineIsQueued' BY <1>1, <1>4, <1>5 DEF LineIsQueued
<1>12. HistoryIsEnded' BY <1>1, <1>4, <1>6, StatusFacts DEF HistoryIsEnded
<1>13. OneWorkerPerTask'
  <2>1. \A u \in Tasks : status'[u] = "running" <=> status[u] = "running"
    BY <1>1, <1>4, StatusFacts
  <2> QED BY <2>1, <1>2, RunnersKept
<1>14. StopIntentTracked'
  BY <1>1, <1>2, <1>4 DEF StopIntentTracked, TypeOK, QueueTyped
<1> QED BY <1>8, <1>9, <1>10, <1>11, <1>12, <1>13, <1>14 DEF IInv, TypeOK

LEMMA DeleteKeeps ==
  ASSUME IInv, NEW c \in Clients, NEW t \in Tasks, Delete(c, t)
  PROVE  IInv'
<1>1. /\ TypeOK /\ HistoryIsEnded /\ LineIsQueued /\ StopIntentTracked
      /\ status[t] \in Terminal /\ c \in Threads
  BY RequestFields DEF IInv, Delete
<1>2. /\ status' = DropStatus(status, {t}) /\ phase' = DropPhase(phase, {t})
      /\ signalled' = signalled \ {t} /\ pauseReq' = pauseReq \ {t}
      /\ history' = Unlisted(t)
      /\ Notify(c, <<Dropped(t)>>)
      /\ cpc' = [cpc EXCEPT ![c] = "purge"]
      /\ cop' = [cop EXCEPT ![c] = "delete"] /\ ctask' = [ctask EXCEPT ![c] = t]
      /\ UNCHANGED <<qualityErr, pending, stopping, db, slotVars, workerVars, fileVars,
                     reply, bounds>>
  BY DEF Delete, Begins
<1>3. /\ status \in [Tasks -> Statuses] /\ phase \in [Tasks -> Phases]
  BY <1>1 DEF TypeOK, QueueTyped
<1>4. /\ \A u \in Tasks : /\ status'[u] = IF u = t THEN "dropped" ELSE status[u]
                          /\ phase'[u] = IF u = t THEN "none" ELSE phase[u]
      /\ status' \in [Tasks -> Statuses] /\ phase' \in [Tasks -> Phases]
  BY <1>2, <1>3, StatusFacts DEF DropStatus, DropPhase
<1>5. /\ history' \in Seq(Tasks) /\ IsInjective(history')
      /\ ToSet(history') = ToSet(history) \ {t}
  BY <1>1, <1>2, UnlistedEffect
<1>6. notifs' \in Seq(Notes) /\ owesFlush' \subseteq Threads
  <2>1. <<Dropped(t)>> \in Seq(Notes) BY NotesTyped
  <2> QED BY <1>1, <1>2, <2>1, NotifyEffect
<1>7. QueueTyped' BY <1>1, <1>2, <1>4, <1>5 DEF QueueTyped, TypeOK
<1>8. StoreTyped' BY <1>1, <1>2, <1>6 DEF StoreTyped, TypeOK, fileVars
<1>9. WorkersTyped' /\ ClientsTyped' /\ SlotsConserved' /\ ThreadsPlaced'
  BY <1>1, <1>2, RequestFields, ThreadsKept
<1>10. LineIsQueued' BY <1>1, <1>2, <1>4, StatusFacts DEF LineIsQueued
<1>11. HistoryIsEnded' BY <1>1, <1>4, <1>5, StatusFacts DEF HistoryIsEnded
<1>12. OneWorkerPerTask'
  <2>1. \A u \in Tasks : status'[u] = "running" <=> status[u] = "running"
    BY <1>1, <1>4, StatusFacts
  <2> QED BY <2>1, <1>2, RunnersKept
<1>13. StopIntentTracked'
  BY <1>1, <1>2, <1>4, StatusFacts DEF StopIntentTracked, TypeOK, QueueTyped
<1> QED BY <1>7, <1>8, <1>9, <1>10, <1>11, <1>12, <1>13 DEF IInv, TypeOK

LEMMA EnqueueKeeps ==
  ASSUME IInv, NEW c \in Clients, NEW fresh \in Batches, NEW dups \in Batches,
         NEW strict \in BOOLEAN, Enqueue(c, fresh, dups, strict)
  PROVE  IInv'
<1> DEFINE queued == ToSet(fresh)
           skipped == ToSet(dups)
           n == Cardinality(ActiveTasks) + Len(fresh)
           h == history \o dups
           cut == Trimmed(n, h)
           gone == ToSet(cut)
           stat == [t \in Tasks |-> IF t \in queued THEN "queued"
                                    ELSE IF t \in skipped THEN "skipped" ELSE status[t]]
           phas == [t \in Tasks |-> IF t \in queued THEN "queued"
                                    ELSE IF t \in skipped THEN "skipped" ELSE phase[t]]
           created == fresh \o dups
           notes == [i \in DOMAIN created |->
                       Snapshot(created[i], stat[created[i]], phas[created[i]])]
<1>1. /\ TypeOK /\ HistoryIsEnded /\ LineIsQueued /\ StopIntentTracked /\ c \in Threads
      /\ status \in [Tasks -> Statuses] /\ phase \in [Tasks -> Phases]
      /\ pending \in Seq(Tasks) /\ history \in Seq(Tasks)
  BY RequestFields DEF IInv, TypeOK, QueueTyped
<1>2. /\ Plan(fresh, dups)
      /\ cpc' = [cpc EXCEPT ![c] = "reply"] /\ reply' = [reply EXCEPT ![c] = "done"]
      /\ cop' = [cop EXCEPT ![c] = "enqueue"]
      /\ ctask' = [ctask EXCEPT ![c] = created[1]]
      /\ status' = DropStatus(stat, gone) /\ phase' = DropPhase(phas, gone)
      /\ signalled' = (signalled \ queued) \ gone
      /\ pauseReq' = pauseReq \ gone
      /\ pending' = pending \o fresh
      /\ history' = Kept(n, h)
      /\ Notify(c, notes \o DroppedNotes(cut))
      /\ db' = [t \in Tasks |-> IF strict /\ t \in queued
                                THEN [status |-> "queued", phase |-> "queued"] ELSE db[t]]
      /\ UNCHANGED <<qualityErr, stopping, slotVars, workerVars, fileVars, bounds>>
  BY DEF Enqueue, Answer, Begins
<1>3. fresh \in Seq(Tasks) /\ dups \in Seq(Tasks)
  <2>1. ASSUME NEW b \in Batches PROVE b \in Seq(Tasks)
    <3>1. PICK k \in 0..MaxBatch : b \in [1..k -> Tasks] BY DEF Batches
    <3>2. k \in Nat OBVIOUS
    <3> QED BY <3>1, <3>2
  <2> QED BY <2>1
<1>4. /\ IsInjective(fresh) /\ IsInjective(dups) /\ queued \cap skipped = {}
      /\ \A t \in queued \cup skipped : status[t] = "new"
      /\ Len(fresh) + Len(dups) > 0
  BY <1>2 DEF Plan, IsInjective
<1>5. queued \subseteq Tasks /\ skipped \subseteq Tasks
  BY <1>3, LenProperties DEF ToSet
<1>6. n \in Nat
  <2>1. ActiveTasks \in SUBSET Tasks BY DEF ActiveTasks
  <2> QED BY <2>1, <1>3, ActiveFinite, LenProperties
<1>7. /\ h \in Seq(Tasks) /\ IsInjective(h) /\ ToSet(h) = ToSet(history) \cup skipped
  <2>1. ToSet(history) \cap skipped = {}
    BY <1>1, <1>4, <1>5, StatusFacts DEF HistoryIsEnded
  <2> QED BY <2>1, <1>1, <1>3, <1>4, ConcatOnce DEF HistoryIsEnded
<1> HIDE DEF n, h
<1>8. /\ cut \in Seq(Tasks) /\ Kept(n, h) \in Seq(Tasks) /\ IsInjective(Kept(n, h))
      /\ ToSet(h) = gone \cup ToSet(Kept(n, h))
      /\ gone \cap ToSet(Kept(n, h)) = {}
  BY <1>6, <1>7, TrimOnce
<1>9. /\ stat \in [Tasks -> Statuses] /\ phas \in [Tasks -> Phases]
  BY <1>1, StatusFacts DEF Terminal, Final
<1>10. /\ pending' \in Seq(Tasks) /\ IsInjective(pending')
       /\ ToSet(pending') = ToSet(pending) \cup queued
  <2>1. ToSet(pending) \cap queued = {}
    BY <1>1, <1>4, <1>5 DEF LineIsQueued
  <2> QED BY <2>1, <1>1, <1>2, <1>3, <1>4, ConcatOnce DEF LineIsQueued
<1>11. created \in Seq(Tasks) /\ created[1] \in Tasks
  <2>1. created \in Seq(Tasks) /\ Len(created) = Len(fresh) + Len(dups)
    BY <1>3, ConcatOnce
  <2>2. Len(created) \in Nat /\ Len(created) > 0 BY <2>1, <1>3, <1>4, LenProperties
  <2> HIDE DEF created
  <2> QED BY <2>1, <2>2, LenProperties
<1>12. notifs' \in Seq(Notes) /\ owesFlush' \subseteq Threads
  <2>1. DroppedNotes(cut) \in Seq(Notes) BY <1>8, NotesTyped
  <2>2. notes \in Seq(Notes)
    <3> HIDE DEF stat, phas, created
    <3>1. /\ Len(created) \in Nat /\ DOMAIN created = 1..Len(created)
          /\ \A i \in 1..Len(created) : created[i] \in Tasks
      BY <1>11, LenProperties
    <3>2. \A i \in 1..Len(created) :
            Snapshot(created[i], stat[created[i]], phas[created[i]]) \in Notes
      BY <3>1, <1>9 DEF Snapshot, Notes
    <3> HIDE DEF Notes
    <3> QED BY <3>1, <3>2 DEF notes
  <2> HIDE DEF notes, cut
  <2>3. notes \o DroppedNotes(cut) \in Seq(Notes) BY <2>1, <2>2, ConcatProperties
  <2> QED BY <1>1, <1>2, <2>3, NotifyEffect
<1>13. \A t \in gone : t \in skipped \/ status[t] \in Terminal
  <2>1. gone \subseteq Tasks BY <1>8, LenProperties DEF ToSet
  <2> QED BY <2>1, <1>1, <1>7, <1>8 DEF HistoryIsEnded
<1>14. /\ gone \cap queued = {}
       /\ \A t \in gone : t \in Tasks => status[t] \notin Active
  BY <1>4, <1>5, <1>13, StatusFacts
<1> HIDE DEF cut, gone, queued, skipped, notes
<1>15. \A t \in Tasks :
         /\ status'[t] = IF t \in gone THEN "dropped"
                         ELSE IF t \in queued THEN "queued"
                         ELSE IF t \in skipped THEN "skipped" ELSE status[t]
         /\ phase'[t] = IF t \in gone THEN "none"
                        ELSE IF t \in queued THEN "queued"
                        ELSE IF t \in skipped THEN "skipped" ELSE phase[t]
  BY <1>2 DEF DropStatus, DropPhase
<1>16. status' \in [Tasks -> Statuses] /\ phase' \in [Tasks -> Phases]
  BY <1>2, <1>9, StatusFacts DEF DropStatus, DropPhase
<1> HIDE DEF stat, phas, created
<1>17. QueueTyped'
  BY <1>1, <1>2, <1>8, <1>10, <1>16 DEF QueueTyped, TypeOK
<1>18. StoreTyped'
  <2>1. db' \in [Tasks -> Rows]
    <3>1. db \in [Tasks -> Rows] BY <1>1 DEF TypeOK, StoreTyped
    <3>2. [status |-> "queued", phase |-> "queued"] \in Rows BY StatusFacts DEF Rows
    <3> HIDE DEF Rows
    <3> QED BY <1>2, <3>1, <3>2
  <2> QED BY <1>1, <1>2, <1>12, <2>1 DEF StoreTyped, TypeOK, fileVars
<1>19. WorkersTyped' /\ ClientsTyped' /\ SlotsConserved' /\ ThreadsPlaced'
  BY <1>1, <1>2, <1>11, ThreadsKept
<1>20. \A t \in Tasks : /\ status'[t] = "running" <=> status[t] = "running"
                        /\ status'[t] = "queued" <=> status[t] = "queued" \/ t \in queued
  BY <1>4, <1>14, <1>15, StatusFacts
<1>21. LineIsQueued' BY <1>1, <1>10, <1>20 DEF LineIsQueued
<1>22. HistoryIsEnded'
  <2>1. ASSUME NEW t \in Tasks
        PROVE  status'[t] \in Terminal <=> t \in gone \cup ToSet(history') /\ t \notin gone
    <3>1. ToSet(h) = gone \cup ToSet(history') BY <1>2, <1>8
    <3>2. t \in ToSet(h) <=> t \in skipped \/ status[t] \in Terminal
      BY <1>1, <1>7 DEF HistoryIsEnded
    <3> QED BY <3>1, <3>2, <1>4, <1>15, StatusFacts
  <2> QED BY <2>1, <1>2, <1>8 DEF HistoryIsEnded
<1>23. OneWorkerPerTask' BY <1>2, <1>20, RunnersKept
<1>24. StopIntentTracked'
  <2>1. ASSUME NEW t \in pauseReq' PROVE status'[t] = "running"
    <3>1. t \in pauseReq /\ t \in Tasks BY <2>1, <1>1, <1>2 DEF TypeOK, QueueTyped
    <3> QED BY <3>1, <1>1, <1>20 DEF StopIntentTracked
  <2>2. ASSUME NEW t \in Tasks, status'[t] = "running"
        PROVE  /\ phase'[t] = "pausing" <=> t \in pauseReq'
               /\ phase'[t] \in Stopping => t \in signalled'
    <3>1. status[t] = "running" BY <2>2, <1>20
    <3>2. t \notin gone /\ t \notin queued /\ t \notin skipped
      BY <3>1, <1>4, <1>14, StatusFacts
    <3>3. phase'[t] = phase[t] BY <3>2, <1>15
    <3> QED BY <3>1, <3>2, <3>3, <1>1, <1>2 DEF StopIntentTracked
  <2> QED BY <2>1, <2>2 DEF StopIntentTracked
<1> QED BY <1>17, <1>18, <1>19, <1>21, <1>22, <1>23, <1>24 DEF IInv, TypeOK

-----------------------------------------------------------------------------
(* Workers.                                                                *)

LEMMA ExecutingFacts ==
  /\ InRun = {"precheck", "probing", "downloading", "finalizing"}
  /\ Executing = {"waiting", "failing", "committed"} \cup InRun
  /\ "idle" \notin Executing /\ "finished" \notin Executing
BY DEF Executing, InRun

\* A worker in its run goes on to another part of it.
LEMMA RunGoesOn ==
  ASSUME IInv, NEW w \in Workers, wpc[w] \in Executing \ {"waiting"},
         NEW pc \in Executing \ {"waiting"}, wpc' = [wpc EXCEPT ![w] = pc],
         UNCHANGED <<wtask, status, stopping, slotVars, clientVars, bounds>>
  PROVE  /\ WorkersTyped' /\ ClientsTyped' /\ SlotsConserved' /\ ThreadsPlaced'
         /\ OneWorkerPerTask'
<1> USE ExecutingFacts DEF IInv, TypeOK, slotVars, clientVars, bounds
<1>1. \A v \in Workers : wpc'[v] = IF v = w THEN pc ELSE wpc[v]
  BY DEF WorkersTyped
<1>2. WorkersTyped' BY DEF WorkersTyped
<1>3. ClientsTyped' BY DEF ClientsTyped
<1>4. SlotsConserved' BY <1>1 DEF SlotsConserved
<1>5. ThreadsPlaced' BY <1>1 DEF ThreadsPlaced
<1>6. OneWorkerPerTask'
  <2>1. \A v \in Workers : wpc'[v] \in Executing <=> wpc[v] \in Executing BY <1>1
  <2> QED BY <2>1 DEF OneWorkerPerTask
<1> QED BY <1>2, <1>3, <1>4, <1>5, <1>6

\* Showing a phase keeps the stop intent of the task, and the types.
LEMMA ShowPhaseEffect ==
  ASSUME IInv, NEW w \in Workers, wpc[w] \in Executing, NEW p \in Working,
         ShowPhase(w, p), UNCHANGED <<status, signalled, pauseReq>>
  PROVE  /\ phase' \in [Tasks -> Phases]
         /\ notifs' \in Seq(Notes) /\ owesFlush' \subseteq Threads
         /\ StopIntentTracked'
<1> DEFINE t == wtask[w]
<1>1. /\ TypeOK /\ StopIntentTracked /\ t \in Tasks /\ w \in Threads
      /\ phase \in [Tasks -> Phases]
  BY ExecutingFacts DEF IInv, TypeOK, QueueTyped, ThreadsPlaced, Threads
<1>2. CASE UNCHANGED <<phase, notifs, owesFlush>>
  BY <1>1, <1>2 DEF StopIntentTracked, TypeOK, StoreTyped
<1>3. CASE /\ phase[t] \notin Stopping
           /\ phase' = [phase EXCEPT ![t] = p]
           /\ Notify(w, <<Snapshot(t, "running", p)>>)
  <2> HIDE DEF t
  <2>1. <<Snapshot(t, "running", p)>> \in Seq(Notes)
    BY <1>1, StatusFacts, NotesTyped
  <2>2. notifs' \in Seq(Notes) /\ owesFlush' \subseteq Threads
    BY <1>1, <1>3, <2>1, NotifyEffect
  <2>3. p \notin Stopping /\ p # "pausing" /\ phase[t] # "pausing" /\ p \in Phases
    BY <1>3, StatusFacts DEF Stopping
  <2>4. phase' \in [Tasks -> Phases] BY <1>1, <1>3, <2>3
  <2>5. StopIntentTracked' BY <1>1, <1>3, <2>3 DEF StopIntentTracked
  <2> QED BY <2>2, <2>4, <2>5
<1> QED BY <1>2, <1>3 DEF ShowPhase

\* The parts of a run that show a phase, or only move on.
LEMMA RunMovesKeep ==
  ASSUME IInv, NEW w \in Workers,
         \/ Precheck(w) \/ ProbeOk(w) \/ DownloadOk(w) \/ CommitMedia(w)
         \/ RunBreaks(w) \/ Progress(w) \/ QualityMismatch(w)
  PROVE  IInv'
<1> USE ExecutingFacts
<1>1. /\ wpc[w] \in Executing \ {"waiting"}
      /\ UNCHANGED <<wtask, status, stopping, slotVars, clientVars, bounds>>
      /\ \E pc \in Executing \ {"waiting"} : wpc' = [wpc EXCEPT ![w] = pc]
  <2>1. wpc = [wpc EXCEPT ![w] = wpc[w]] BY DEF IInv, TypeOK, WorkersTyped
  <2> USE DEF At, Goto, taskVars, workerVars
  <2>2. CASE Precheck(w) BY <2>2 DEF Precheck
  <2>3. CASE ProbeOk(w) BY <2>3 DEF ProbeOk
  <2>4. CASE DownloadOk(w) BY <2>4 DEF DownloadOk
  <2>5. CASE CommitMedia(w) BY <2>5 DEF CommitMedia
  <2>6. CASE RunBreaks(w) BY <2>6 DEF RunBreaks
  <2>7. CASE Progress(w) BY <2>1, <2>7 DEF Progress
  <2>8. CASE QualityMismatch(w) BY <2>1, <2>8 DEF QualityMismatch
  <2> QED BY <2>2, <2>3, <2>4, <2>5, <2>6, <2>7, <2>8
<1>2. /\ WorkersTyped' /\ ClientsTyped' /\ SlotsConserved' /\ ThreadsPlaced'
      /\ OneWorkerPerTask'
  BY <1>1, RunGoesOn
<1>3. UNCHANGED <<pending, history, status>> /\ LineIsQueued' /\ HistoryIsEnded'
  <2>1. UNCHANGED <<pending, history, status>>
    BY DEF Precheck, ProbeOk, DownloadOk, CommitMedia, RunBreaks, Progress,
           QualityMismatch, queueVars, taskVars
  <2> QED BY <2>1 DEF IInv, LineIsQueued, HistoryIsEnded
<1>4. wtask[w] \in Tasks BY <1>1 DEF IInv, ThreadsPlaced
<1>5. \/ /\ \E p \in Working : ShowPhase(w, p)
         /\ UNCHANGED <<signalled, pauseReq, qualityErr>>
      \/ UNCHANGED <<taskVars, storeVars>>
      \/ /\ signalled' = signalled \cup {wtask[w]}
         /\ qualityErr' = qualityErr \cup {wtask[w]}
         /\ UNCHANGED <<phase, pauseReq, storeVars>>
  BY DEF Precheck, ProbeOk, DownloadOk, CommitMedia, RunBreaks, Progress,
         QualityMismatch, Working
<1>6. /\ phase' \in [Tasks -> Phases] /\ StopIntentTracked'
      /\ notifs' \in Seq(Notes) /\ owesFlush' \subseteq Threads
      /\ signalled' \subseteq Tasks /\ pauseReq' \subseteq Tasks /\ qualityErr' \subseteq Tasks
  <2>1. ASSUME NEW p \in Working, ShowPhase(w, p),
               UNCHANGED <<signalled, pauseReq, qualityErr>>
        PROVE  /\ phase' \in [Tasks -> Phases] /\ StopIntentTracked'
               /\ notifs' \in Seq(Notes) /\ owesFlush' \subseteq Threads
               /\ signalled' \subseteq Tasks /\ pauseReq' \subseteq Tasks
               /\ qualityErr' \subseteq Tasks
    BY <1>1, <1>3, <2>1, ShowPhaseEffect DEF IInv, TypeOK, QueueTyped
  <2>2. CASE UNCHANGED <<taskVars, storeVars>>
    BY <2>2 DEF IInv, TypeOK, QueueTyped, StoreTyped, StopIntentTracked, taskVars,
                storeVars
  <2>3. CASE /\ signalled' = signalled \cup {wtask[w]}
             /\ qualityErr' = qualityErr \cup {wtask[w]}
             /\ UNCHANGED <<phase, pauseReq, storeVars>>
    BY <1>3, <1>4, <2>3 DEF IInv, TypeOK, QueueTyped, StoreTyped, StopIntentTracked,
                            storeVars
  <2> QED BY <1>5, <2>1, <2>2, <2>3
<1>7. workDir' \subseteq Tasks /\ artifact' \subseteq Tasks /\ UNCHANGED <<db, stopping>>
  <2>1. workDir \subseteq Tasks /\ artifact \subseteq Tasks
    BY DEF IInv, TypeOK, StoreTyped
  <2>2. UNCHANGED <<db, stopping>>
    BY DEF Precheck, ProbeOk, DownloadOk, CommitMedia, RunBreaks, Progress,
           QualityMismatch, storeVars
  <2>3. CASE Precheck(w) \/ DownloadOk(w) \/ Progress(w) \/ QualityMismatch(w)
    BY <2>1, <2>2, <2>3 DEF Precheck, DownloadOk, Progress, QualityMismatch, fileVars
  <2>4. CASE ProbeOk(w) BY <1>4, <2>1, <2>2, <2>4 DEF ProbeOk
  <2>5. CASE CommitMedia(w) BY <1>4, <2>1, <2>2, <2>5 DEF CommitMedia
  <2>6. CASE RunBreaks(w) BY <2>1, <2>2, <2>6 DEF RunBreaks, CleanWorkDir
  <2> QED BY <2>3, <2>4, <2>5, <2>6
<1>8. QueueTyped' BY <1>3, <1>6, <1>7 DEF IInv, TypeOK, QueueTyped
<1>9. StoreTyped' BY <1>6, <1>7 DEF IInv, TypeOK, StoreTyped
<1> QED BY <1>2, <1>3, <1>6, <1>8, <1>9 DEF IInv, TypeOK

\* A worker that finishes, and what happened to its permit meanwhile.
LEMMA FinishPlaces ==
  ASSUME IInv, NEW w \in Workers, wpc[w] \in Executing,
         wpc' = [wpc EXCEPT ![w] = "finished"], UNCHANGED <<wtask, clientVars, bounds>>,
         \/ UNCHANGED slotVars
         \/ wpc[w] = "waiting" /\ slots > 0
            /\ slots' = slots - 1 /\ holding' = holding \cup {w}
  PROVE  WorkersTyped' /\ ClientsTyped' /\ SlotsConserved' /\ ThreadsPlaced'
<1> USE ExecutingFacts DEF IInv, TypeOK, slotVars, clientVars, bounds
<1>1. \A v \in Workers : wpc'[v] = IF v = w THEN "finished" ELSE wpc[v]
  BY DEF WorkersTyped
<1>2. slots' \in 0..Slots /\ holding' \subseteq Workers
  BY DEF WorkersTyped
<1>3. WorkersTyped' BY <1>2 DEF WorkersTyped
<1>4. ClientsTyped' BY DEF ClientsTyped
<1>5. SlotsConserved'
  <2>1. slots' + Cardinality(holding') = Slots
    <3>1. CASE UNCHANGED slotVars BY <3>1 DEF SlotsConserved
    <3>2. CASE /\ wpc[w] = "waiting" /\ slots > 0
               /\ slots' = slots - 1 /\ holding' = holding \cup {w}
      <4>1. IsFiniteSet(holding) /\ Cardinality(holding) \in Nat /\ w \notin holding
        BY <3>2, FS_Subset, FS_CardinalityType DEF WorkersTyped, ThreadsPlaced
      <4>2. Cardinality(holding') = Cardinality(holding) + 1
        BY <3>2, <4>1, FS_AddElement
      <4> QED BY <3>2, <4>1, <4>2 DEF SlotsConserved, WorkersTyped
    <3> QED BY <3>1, <3>2
  <2> QED BY <2>1, <1>1 DEF SlotsConserved
<1>6. ThreadsPlaced' BY <1>1 DEF ThreadsPlaced
<1> QED BY <1>3, <1>4, <1>5, <1>6

LEMMA RunEndsKeep ==
  ASSUME IInv, NEW w \in Workers,
         \/ RunCancelled(w) \/ FailRun(w) \/ Succeed(w) \/ CancelWhileWaiting(w)
         \/ AcquireSlot(w) /\ wtask[w] \in signalled
  PROVE  IInv'
<1> USE ExecutingFacts
<1>1. wpc[w] \in Executing
  BY DEF RunCancelled, FailRun, Succeed, CancelWhileWaiting, AcquireSlot, At
<1>2. \E st \in {"success", "failed", "cancelled"} : Finish(w, st)
  BY DEF RunCancelled, FailRun, Succeed, CancelWhileWaiting, AcquireSlot
<1>3. PICK st \in {"success", "failed", "cancelled"} : Finish(w, st) BY <1>2
<1>4. /\ QueueTyped' /\ notifs' \in Seq(Notes) /\ owesFlush' \subseteq Threads
      /\ LineIsQueued' /\ HistoryIsEnded' /\ OneWorkerPerTask' /\ StopIntentTracked'
      /\ wpc' = [wpc EXCEPT ![w] = "finished"]
      /\ UNCHANGED <<wtask, db, clientVars, bounds>>
  BY <1>1, <1>3, FinishEffect
<1>5. \/ UNCHANGED slotVars
      \/ wpc[w] = "waiting" /\ slots > 0
         /\ slots' = slots - 1 /\ holding' = holding \cup {w}
  BY DEF RunCancelled, FailRun, Succeed, CancelWhileWaiting, AcquireSlot, At
<1>6. WorkersTyped' /\ ClientsTyped' /\ SlotsConserved' /\ ThreadsPlaced'
  BY <1>1, <1>4, <1>5, FinishPlaces
<1>7. StoreTyped'
  <2>1. workDir' \subseteq workDir /\ artifact' = artifact
    BY DEF RunCancelled, CleanWorkDir, FailRun, Succeed, CancelWhileWaiting,
           AcquireSlot, fileVars
  <2> QED BY <2>1, <1>4 DEF IInv, TypeOK, StoreTyped
<1> QED BY <1>4, <1>6, <1>7 DEF IInv, TypeOK

LEMMA AcquireSlotKeeps ==
  ASSUME IInv, NEW w \in Workers, AcquireSlot(w)
  PROVE  IInv'
<1>1. CASE wtask[w] \in signalled BY <1>1, RunEndsKeep
<1>2. CASE wtask[w] \notin signalled
  <2> USE ExecutingFacts DEF IInv, TypeOK
  <2>1. /\ wpc[w] = "waiting" /\ slots > 0
        /\ slots' = slots - 1 /\ holding' = holding \cup {w}
        /\ wpc' = [wpc EXCEPT ![w] = "precheck"]
        /\ UNCHANGED <<wtask, taskVars, queueVars, stopping, storeVars, fileVars,
                       clientVars, bounds>>
    BY <1>2 DEF AcquireSlot, At, Goto
  <2>2. \A v \in Workers : wpc'[v] = IF v = w THEN "precheck" ELSE wpc[v]
    BY <2>1 DEF WorkersTyped
  <2>3. QueueTyped' BY <2>1 DEF QueueTyped, taskVars, queueVars
  <2>4. StoreTyped' BY <2>1 DEF StoreTyped, storeVars, fileVars
  <2>5. WorkersTyped' BY <2>1 DEF WorkersTyped
  <2>6. ClientsTyped' BY <2>1 DEF ClientsTyped, clientVars, bounds
  <2>7. ThreadsPlaced' BY <2>1, <2>2 DEF ThreadsPlaced, clientVars
  <2>8. LineIsQueued' /\ HistoryIsEnded'
    BY <2>1 DEF LineIsQueued, HistoryIsEnded, taskVars, queueVars
  <2>9. OneWorkerPerTask' BY <2>1, <2>2 DEF OneWorkerPerTask, taskVars
  <2>10. SlotsConserved'
    <3>1. IsFiniteSet(holding) /\ Cardinality(holding) \in Nat /\ w \notin holding
      BY <2>1, FS_Subset, FS_CardinalityType DEF WorkersTyped, ThreadsPlaced
    <3>2. Cardinality(holding') = Cardinality(holding) + 1
      BY <2>1, <3>1, FS_AddElement
    <3>3. slots' + Cardinality(holding') = Slots
      BY <2>1, <3>1, <3>2 DEF SlotsConserved, WorkersTyped
    <3> QED BY <2>1, <2>2, <3>3 DEF SlotsConserved
  <2>11. StopIntentTracked' BY <2>1 DEF StopIntentTracked, taskVars
  <2> QED BY <2>3, <2>4, <2>5, <2>6, <2>7, <2>8, <2>9, <2>10, <2>11
<1> QED BY <1>1, <1>2

LEMMA EndRunKeeps ==
  ASSUME IInv, NEW w \in Workers, EndRun(w)
  PROVE  IInv'
<1> USE ExecutingFacts DEF IInv, TypeOK
<1>1. /\ wpc[w] = "finished" /\ slots' = Released(w) /\ holding' = holding \ {w}
      /\ wpc' = [wpc EXCEPT ![w] = "idle"] /\ wtask' = [wtask EXCEPT ![w] = NoTask]
      /\ UNCHANGED <<taskVars, queueVars, stopping, storeVars, fileVars, clientVars,
                     bounds>>
  BY DEF EndRun, At
<1>2. \A v \in Workers : /\ wpc'[v] = IF v = w THEN "idle" ELSE wpc[v]
                         /\ wtask'[v] = IF v = w THEN NoTask ELSE wtask[v]
  BY <1>1 DEF WorkersTyped
<1>3. IsFiniteSet(holding) /\ Cardinality(holding) \in Nat
  BY FS_Subset, FS_CardinalityType DEF WorkersTyped
<1>4. slots' + Cardinality(holding') = Slots /\ slots' \in 0..Slots
  <2>1. CASE w \in holding
    <3>1. Cardinality(holding') = Cardinality(holding) - 1
          /\ Cardinality(holding') \in Nat
      BY <2>1, <1>1, <1>3, FS_RemoveElement, FS_CardinalityType
    <3> QED BY <2>1, <3>1, <1>1, <1>3 DEF Released, SlotsConserved, WorkersTyped
  <2>2. CASE w \notin holding
    <3>1. holding' = holding /\ slots' = slots BY <2>2, <1>1 DEF Released
    <3> QED BY <3>1 DEF SlotsConserved, WorkersTyped
  <2> QED BY <2>1, <2>2
<1>5. QueueTyped' BY <1>1 DEF QueueTyped, taskVars, queueVars
<1>6. StoreTyped' BY <1>1 DEF StoreTyped, storeVars, fileVars
<1>7. WorkersTyped' BY <1>1, <1>4 DEF WorkersTyped
<1>8. ClientsTyped' BY <1>1 DEF ClientsTyped, clientVars, bounds
<1>9. ThreadsPlaced' BY <1>1, <1>2 DEF ThreadsPlaced, clientVars
<1>10. LineIsQueued' /\ HistoryIsEnded'
  BY <1>1 DEF LineIsQueued, HistoryIsEnded, taskVars, queueVars
<1>11. OneWorkerPerTask'
  <2>1. \A v \in Workers : wpc'[v] \in Executing <=> v # w /\ wpc[v] \in Executing
    BY <1>1, <1>2
  <2> QED BY <2>1, <1>1, <1>2 DEF OneWorkerPerTask, taskVars
<1>12. SlotsConserved' BY <1>1, <1>2, <1>4 DEF SlotsConserved
<1>13. StopIntentTracked' BY <1>1 DEF StopIntentTracked, taskVars
<1> QED BY <1>5, <1>6, <1>7, <1>8, <1>9, <1>10, <1>11, <1>12, <1>13

LEMMA AbandonAtStopKeeps ==
  ASSUME IInv, NEW w \in Workers, AbandonAtStop(w)
  PROVE  IInv'
<1> USE ExecutingFacts DEF IInv, TypeOK
<1>1. /\ wpc[w] = "waiting" /\ stopping
      /\ wpc' = [wpc EXCEPT ![w] = "idle"] /\ wtask' = [wtask EXCEPT ![w] = NoTask]
      /\ UNCHANGED <<taskVars, queueVars, stopping, storeVars, slotVars, fileVars,
                     clientVars, bounds>>
  BY DEF AbandonAtStop, At
<1>2. \A v \in Workers : /\ wpc'[v] = IF v = w THEN "idle" ELSE wpc[v]
                         /\ wtask'[v] = IF v = w THEN NoTask ELSE wtask[v]
  BY <1>1 DEF WorkersTyped
<1>3. QueueTyped' BY <1>1 DEF QueueTyped, taskVars, queueVars
<1>4. StoreTyped' BY <1>1 DEF StoreTyped, storeVars, fileVars
<1>5. WorkersTyped' BY <1>1 DEF WorkersTyped, slotVars
<1>6. ClientsTyped' BY <1>1 DEF ClientsTyped, clientVars, bounds
<1>7. ThreadsPlaced' BY <1>1, <1>2 DEF ThreadsPlaced, clientVars, slotVars
<1>8. LineIsQueued' /\ HistoryIsEnded'
  BY <1>1 DEF LineIsQueued, HistoryIsEnded, taskVars, queueVars
<1>9. OneWorkerPerTask'
  <2>1. \A v \in Workers : wpc'[v] \in Executing <=> v # w /\ wpc[v] \in Executing
    BY <1>1, <1>2
  <2> QED BY <2>1, <1>1, <1>2 DEF OneWorkerPerTask, taskVars
<1>10. SlotsConserved' BY <1>1, <1>2 DEF SlotsConserved, slotVars
<1>11. StopIntentTracked' BY <1>1 DEF StopIntentTracked, taskVars
<1> QED BY <1>3, <1>4, <1>5, <1>6, <1>7, <1>8, <1>9, <1>10, <1>11

LEMMA PopTaskKeeps ==
  ASSUME IInv, NEW w \in Workers, PopTask(w)
  PROVE  IInv'
<1> DEFINE t == Head(pending)
<1> USE ExecutingFacts DEF IInv, TypeOK
<1>1. /\ wpc[w] = "idle" /\ ~stopping /\ pending # <<>> /\ pending' = Tail(pending)
      /\ UNCHANGED <<signalled, pauseReq, qualityErr, history, stopping, db, slotVars,
                     fileVars, clientVars, bounds>>
  BY DEF PopTask, At
<1>2. /\ t \in Tasks /\ t \in ToSet(pending) /\ pending' \in Seq(Tasks)
      /\ ToSet(pending) = ToSet(pending') \cup {t}
      /\ IsInjective(pending') /\ t \notin ToSet(pending')
  BY <1>1, TailOnce DEF QueueTyped, LineIsQueued
<1>3. status[t] = "queued" BY <1>2 DEF LineIsQueued
<1>4. /\ status' = [status EXCEPT ![t] = "running"]
      /\ phase' = [phase EXCEPT ![t] = "resolving"]
      /\ wtask' = [wtask EXCEPT ![w] = t]
      /\ wpc' = [wpc EXCEPT ![w] = "waiting"]
      /\ Notify(w, <<Snapshot(t, "running", "resolving")>>)
  BY <1>3 DEF PopTask
<1> HIDE DEF t
<1>5. /\ \A u \in Tasks : /\ status'[u] = IF u = t THEN "running" ELSE status[u]
                          /\ phase'[u] = IF u = t THEN "resolving" ELSE phase[u]
      /\ \A v \in Workers : /\ wpc'[v] = IF v = w THEN "waiting" ELSE wpc[v]
                            /\ wtask'[v] = IF v = w THEN t ELSE wtask[v]
  BY <1>4 DEF QueueTyped, WorkersTyped
<1>6. "running" \in Statuses /\ "resolving" \in Phases /\ "resolving" \notin Stopping
  BY StatusFacts DEF Working
<1>7. notifs' \in Seq(Notes) /\ owesFlush' \subseteq Threads
  <2>1. <<Snapshot(t, "running", "resolving")>> \in Seq(Notes)
    BY <1>2, <1>6, NotesTyped
  <2> QED BY <1>4, <2>1, NotifyEffect DEF Threads
<1>8. QueueTyped' BY <1>1, <1>2, <1>4, <1>6 DEF QueueTyped
<1>9. StoreTyped' BY <1>1, <1>7 DEF StoreTyped, fileVars
<1>10. WorkersTyped' BY <1>1, <1>2, <1>4 DEF WorkersTyped, slotVars
<1>11. ClientsTyped' BY <1>1 DEF ClientsTyped, clientVars, bounds
<1>12. ThreadsPlaced' BY <1>1, <1>2, <1>5 DEF ThreadsPlaced, slotVars, clientVars
<1>13. LineIsQueued' BY <1>2, <1>3, <1>5 DEF LineIsQueued
<1>14. HistoryIsEnded' BY <1>1, <1>3, <1>5, StatusFacts DEF HistoryIsEnded
<1>15. OneWorkerPerTask'
  <2>1. \A v \in Workers : wpc[v] \in Executing => v # w /\ wtask[v] # t
    BY <1>1, <1>3 DEF OneWorkerPerTask
  <2>2. \A v \in Workers : wpc'[v] \in Executing <=> v = w \/ wpc[v] \in Executing
    BY <1>5
  <2>3. \A v \in Workers : wpc'[v] \in Executing => status'[wtask'[v]] = "running"
    <3>1. \A v \in Workers : wpc[v] \in Executing => wtask[v] \in Tasks
      BY DEF ThreadsPlaced
    <3> QED BY <2>1, <2>2, <3>1, <1>2, <1>5 DEF OneWorkerPerTask
  <2>4. \A u, v \in Workers : wpc'[u] \in Executing /\ wpc'[v] \in Executing
                                /\ wtask'[u] = wtask'[v] => u = v
    BY <2>1, <2>2, <1>5 DEF OneWorkerPerTask
  <2>5. ASSUME NEW u \in Tasks, status'[u] = "running"
        PROVE  \E v \in Workers : wpc'[v] \in Executing /\ wtask'[v] = u
    <3>1. CASE u = t BY <3>1, <1>5
    <3>2. CASE u # t
      <4>1. PICK v \in Workers : wpc[v] \in Executing /\ wtask[v] = u
        BY <3>2, <2>5, <1>1, <1>5 DEF OneWorkerPerTask
      <4> QED BY <4>1, <2>1, <1>5
    <3> QED BY <3>1, <3>2
  <2> QED BY <2>3, <2>4, <2>5 DEF OneWorkerPerTask
<1>16. SlotsConserved' BY <1>1, <1>5 DEF SlotsConserved, slotVars
<1>17. StopIntentTracked'
  BY <1>1, <1>3, <1>5, <1>6 DEF StopIntentTracked, QueueTyped
<1> QED BY <1>8, <1>9, <1>10, <1>11, <1>12, <1>13, <1>14, <1>15, <1>16, <1>17

-----------------------------------------------------------------------------
(* The process.                                                            *)

LEMMA StopKeeps ==
  ASSUME IInv, Stop
  PROVE  IInv'
<1> USE DEF IInv, TypeOK
<1>1. /\ stopping' = TRUE /\ signalled' = signalled \cup ActiveTasks
      /\ UNCHANGED <<status, phase, pauseReq, qualityErr, queueVars, storeVars, slotVars,
                     workerVars, fileVars, clientVars, bounds>>
  BY DEF Stop
<1>2. ActiveTasks \subseteq Tasks BY DEF ActiveTasks
<1>3. QueueTyped' BY <1>1, <1>2 DEF QueueTyped, queueVars
<1>4. StoreTyped' BY <1>1 DEF StoreTyped, storeVars, fileVars
<1>5. WorkersTyped' BY <1>1 DEF WorkersTyped, slotVars, workerVars
<1>6. ClientsTyped' BY <1>1 DEF ClientsTyped, clientVars, bounds
<1>7. ThreadsPlaced' BY <1>1 DEF ThreadsPlaced, slotVars, workerVars, clientVars
<1>8. LineIsQueued' /\ HistoryIsEnded'
  BY <1>1 DEF LineIsQueued, HistoryIsEnded, queueVars
<1>9. OneWorkerPerTask' BY <1>1 DEF OneWorkerPerTask, workerVars
<1>10. SlotsConserved' BY <1>1 DEF SlotsConserved, slotVars, workerVars
<1>11. StopIntentTracked' BY <1>1 DEF StopIntentTracked
<1> QED BY <1>3, <1>4, <1>5, <1>6, <1>7, <1>8, <1>9, <1>10, <1>11

\* All permits are free, all threads idle and nobody holds an intent: the state
\* of the threads when a process starts.
LEMMA FreshThreads ==
  ASSUME slots' = Slots, holding' = {}, stopping' = FALSE,
         wpc' = [w \in Workers |-> "idle"], wtask' = [w \in Workers |-> NoTask],
         cpc' = [c \in Clients |-> "idle"], cop' = [c \in Clients |-> "none"],
         ctask' = [c \in Clients |-> NoTask], reply' = [c \in Clients |-> "none"],
         retries' \in Nat, restarts' \in Nat,
         pauseReq' = {}, \A t \in Tasks : status'[t] # "running"
  PROVE  /\ WorkersTyped' /\ ClientsTyped' /\ ThreadsPlaced'
         /\ OneWorkerPerTask' /\ SlotsConserved' /\ StopIntentTracked'
<1> USE ExecutingFacts
<1>1. WorkersTyped' BY DEF WorkersTyped
<1>2. ClientsTyped' BY DEF ClientsTyped
<1>3. ThreadsPlaced' BY DEF ThreadsPlaced
<1>4. OneWorkerPerTask' BY DEF OneWorkerPerTask
<1>5. SlotsConserved' BY FS_EmptySet DEF SlotsConserved
<1>6. StopIntentTracked' BY DEF StopIntentTracked
<1> QED BY <1>1, <1>2, <1>3, <1>4, <1>5, <1>6

LEMMA RestartKeeps ==
  ASSUME IInv, Restart
  PROVE  IInv'
<1> DEFINE row(t) == Restored(db[t])
           again  == {t \in Tasks : row(t).status = "queued"}
           ended  == {t \in Tasks : row(t).status \in Terminal}
           stat   == [t \in Tasks |-> IF status[t] # "new" /\ row(t).status = "new"
                                      THEN "dropped" ELSE row(t).status]
           phas   == [t \in Tasks |-> row(t).phase]
<1>1. PICK p \in SetToSeqs(again), h \in SetToSeqs(ended) :
        LET gone == ToSet(Trimmed(Len(p), h))
        IN /\ pending' = p
           /\ history' = Kept(Len(p), h)
           /\ status' = DropStatus(stat, gone)
           /\ phase' = DropPhase(phas, gone)
           /\ \E unsaved \in SUBSET LossyTasks :
                db' = [t \in Tasks |->
                         IF t \in unsaved THEN db[t]
                         ELSE IF t \in gone THEN [status |-> "dropped", phase |-> "none"]
                         ELSE row(t)]
  BY DEF Restart
<1> DEFINE cut == Trimmed(Len(p), h)
           gone == ToSet(cut)
<1>2. /\ signalled' = {} /\ pauseReq' = {} /\ qualityErr' = {} /\ stopping' = FALSE
      /\ notifs' = <<>> /\ owesFlush' = {} /\ slots' = Slots /\ holding' = {}
      /\ wpc' = [w \in Workers |-> "idle"] /\ wtask' = [w \in Workers |-> NoTask]
      /\ cpc' = [c \in Clients |-> "idle"] /\ cop' = [c \in Clients |-> "none"]
      /\ ctask' = [c \in Clients |-> NoTask] /\ reply' = [c \in Clients |-> "none"]
      /\ restarts' = restarts + 1
      /\ UNCHANGED <<fileVars, retries>>
  BY DEF Restart
<1>3. /\ status \in [Tasks -> Statuses] /\ db \in [Tasks -> Rows]
      /\ retries \in Nat /\ restarts \in Nat
      /\ workDir \subseteq Tasks /\ artifact \subseteq Tasks
  BY DEF IInv, TypeOK, QueueTyped, StoreTyped, ClientsTyped
<1>4. \A t \in Tasks : row(t) \in Rows /\ row(t).status # "running"
  BY <1>3, StatusFacts DEF Restored, Rows, Terminal, Final
<1> HIDE DEF row
<1>5. stat \in [Tasks -> Statuses] /\ phas \in [Tasks -> Phases]
  BY <1>4, StatusFacts DEF Rows
<1>6. /\ p \in Seq(Tasks) /\ ToSet(p) = again /\ IsInjective(p)
      /\ h \in Seq(Tasks) /\ ToSet(h) = ended /\ IsInjective(h)
  <2>1. again \in SUBSET Tasks /\ ended \in SUBSET Tasks OBVIOUS
  <2>2. IsFiniteSet(again) /\ IsFiniteSet(ended) BY <2>1, ActiveFinite
  <2> HIDE DEF again, ended
  <2>3. /\ p \in Seq(again) /\ ToSet(p) = again /\ IsInjective(p)
        /\ h \in Seq(ended) /\ ToSet(h) = ended /\ IsInjective(h)
    BY <2>2, ListingOnce
  <2> QED BY <2>1, <2>3, SeqMonotonic
<1>7. /\ Kept(Len(p), h) \in Seq(Tasks) /\ IsInjective(Kept(Len(p), h))
      /\ ended = gone \cup ToSet(Kept(Len(p), h))
      /\ gone \cap ToSet(Kept(Len(p), h)) = {}
  <2>1. Len(p) \in Nat BY <1>6, LenProperties
  <2> QED BY <2>1, <1>6, TrimOnce
<1>8. /\ pending' = p /\ history' = Kept(Len(p), h)
      /\ status' = DropStatus(stat, gone) /\ phase' = DropPhase(phas, gone)
  BY <1>1
<1>9. db' \in [Tasks -> Rows]
  <2>1. PICK unsaved \in SUBSET Tasks :
          db' = [t \in Tasks |->
                   IF t \in unsaved THEN db[t]
                   ELSE IF t \in gone THEN [status |-> "dropped", phase |-> "none"]
                   ELSE row(t)]
    BY <1>1
  <2>2. [status |-> "dropped", phase |-> "none"] \in Rows BY StatusFacts DEF Rows
  <2> HIDE DEF Rows, gone
  <2> QED BY <2>1, <2>2, <1>3, <1>4
<1> HIDE DEF cut, gone
<1>10. \A t \in Tasks :
         status'[t] = IF t \in gone THEN "dropped"
                      ELSE IF status[t] # "new" /\ row(t).status = "new"
                           THEN "dropped" ELSE row(t).status
  BY <1>8 DEF DropStatus
<1>11. status' \in [Tasks -> Statuses] /\ phase' \in [Tasks -> Phases]
  BY <1>5, <1>8, StatusFacts DEF DropStatus, DropPhase
<1>12. \A t \in Tasks : /\ status'[t] # "running"
                        /\ status'[t] = "queued" <=> t \in again
                        /\ status'[t] \in Terminal <=> t \in ended /\ t \notin gone
  <2>1. \A t \in gone : row(t).status \in Terminal BY <1>7
  <2> QED BY <2>1, <1>4, <1>10, StatusFacts
<1> HIDE DEF again, ended, stat, phas
<1>13. QueueTyped' BY <1>2, <1>6, <1>7, <1>8, <1>11 DEF QueueTyped
<1>14. StoreTyped' BY <1>2, <1>3, <1>9 DEF StoreTyped, fileVars
<1>15. LineIsQueued' BY <1>6, <1>8, <1>12 DEF LineIsQueued
<1>16. HistoryIsEnded' BY <1>7, <1>8, <1>12 DEF HistoryIsEnded
<1>17. /\ WorkersTyped' /\ ClientsTyped' /\ ThreadsPlaced'
       /\ OneWorkerPerTask' /\ SlotsConserved' /\ StopIntentTracked'
  <2>1. retries' \in Nat /\ restarts' \in Nat BY <1>2, <1>3
  <2> HIDE DEF row
  <2>2. \A t \in Tasks : status'[t] # "running" BY <1>12
  <2> QED BY <1>2, <2>1, <2>2, FreshThreads
<1> QED BY <1>13, <1>14, <1>15, <1>16, <1>17 DEF IInv, TypeOK

-----------------------------------------------------------------------------
(* The invariant.                                                          *)

LEMMA InitHolds == Init => IInv
<1> SUFFICES ASSUME Init PROVE IInv OBVIOUS
<1> USE StatusFacts, ExecutingFacts DEF Init
<1>1. QueueTyped
  <2>1. "new" \in Statuses /\ "none" \in Phases BY DEF Statuses, Phases, Unknown
  <2>2. /\ status \in [Tasks -> Statuses] /\ phase \in [Tasks -> Phases]
        /\ pending \in Seq(Tasks) /\ history \in Seq(Tasks)
    BY <2>1
  <2> QED BY <2>2 DEF QueueTyped
<1>2. StoreTyped BY DEF StoreTyped, Rows
<1>3. WorkersTyped BY DEF WorkersTyped
<1>4. ClientsTyped BY DEF ClientsTyped
<1>5. ThreadsPlaced BY DEF ThreadsPlaced
<1>6. LineIsQueued /\ HistoryIsEnded
  BY DEF LineIsQueued, HistoryIsEnded, ToSet, IsInjective
<1>7. OneWorkerPerTask BY DEF OneWorkerPerTask
<1>8. SlotsConserved BY FS_EmptySet DEF SlotsConserved
<1>9. StopIntentTracked BY DEF StopIntentTracked
<1> QED BY <1>1, <1>2, <1>3, <1>4, <1>5, <1>6, <1>7, <1>8, <1>9 DEF IInv, TypeOK

LEMMA StutterKeeps == IInv /\ UNCHANGED vars => IInv'
<1> SUFFICES ASSUME IInv, UNCHANGED vars PROVE IInv' OBVIOUS
<1>1. StoreTyped' /\ ClientsTyped'
  BY DEF IInv, TypeOK, StoreTyped, ClientsTyped, vars, storeVars, fileVars, clientVars,
         bounds
<1>2. \A c \in Clients :
        cpc'[c] \in {"call", "recheck", "clean", "purge"} => ctask'[c] \in Tasks
  BY DEF IInv, ThreadsPlaced, vars, clientVars
<1> QED BY <1>1, <1>2, QueueUntouched DEF vars

LEMMA StepKeeps == IInv /\ [Next]_vars => IInv'
<1> SUFFICES ASSUME IInv, [Next]_vars PROVE IInv' OBVIOUS
<1>1. ASSUME NEW c \in Clients, ClientStep(c) PROVE IInv'
  <2>1. ASSUME NEW fresh \in Batches, NEW dups \in Batches, NEW strict \in BOOLEAN,
               Enqueue(c, fresh, dups, strict)
        PROVE  IInv'
    BY <2>1, EnqueueKeeps
  <2>2. ASSUME NEW t \in Tasks, Delete(c, t) PROVE IInv'
    BY <2>2, DeleteKeeps
  <2>3. CASE StopQueued(c) BY <2>3, StopQueuedKeeps
  <2>4. CASE StopRunning(c) BY <2>4, StopRunningKeeps
  <2>5. CASE Retry(c) BY <2>5, RetryKeeps
  <2>6. CASE \/ \E t \in Tasks, op \in Intents : RequestStop(c, op, t)
             \/ \E t \in Tasks : RequestRetry(c, t)
             \/ StopTooLate(c) \/ Recheck(c) \/ StopAgain(c) \/ RefuseRetry(c)
             \/ RetryCleanup(c) \/ PurgeRow(c) \/ EndRequest(c)
    BY <2>6, RequestKeeps
  <2> QED BY <1>1, <2>1, <2>2, <2>3, <2>4, <2>5, <2>6 DEF ClientStep
<1>2. ASSUME NEW w \in Workers, WorkerStep(w) PROVE IInv'
  <2>1. CASE PopTask(w) BY <2>1, PopTaskKeeps
  <2>2. CASE AcquireSlot(w) BY <2>2, AcquireSlotKeeps
  <2>3. CASE AbandonAtStop(w) BY <2>3, AbandonAtStopKeeps
  <2>4. CASE EndRun(w) BY <2>4, EndRunKeeps
  <2>5. CASE CancelWhileWaiting(w) \/ RunCancelled(w) \/ FailRun(w) \/ Succeed(w)
    BY <2>5, RunEndsKeep
  <2>6. CASE \/ Precheck(w) \/ ProbeOk(w) \/ DownloadOk(w) \/ CommitMedia(w)
             \/ RunBreaks(w) \/ Progress(w) \/ QualityMismatch(w)
    BY <2>6, RunMovesKeep
  <2> QED BY <1>2, <2>1, <2>2, <2>3, <2>4, <2>5, <2>6 DEF WorkerStep, Run
<1>3. CASE Flush BY <1>3, FlushKeeps
<1>4. CASE Stop BY <1>4, StopKeeps
<1>5. CASE Restart BY <1>5, RestartKeeps
<1>6. CASE Rest \/ UNCHANGED vars BY <1>6, StutterKeeps DEF Rest
<1> QED BY <1>1, <1>2, <1>3, <1>4, <1>5, <1>6 DEF Next, Operate

\* Every state of every behaviour, restarts and store failures included.
THEOREM Invariance == Spec => []IInv
BY InitHolds, StepKeeps, PTL DEF Spec

\* The state of the queue, its threads and its rows keeps its type.
THEOREM TypeCorrect == Spec => []TypeOK
<1>1. IInv => TypeOK BY DEF IInv
<1> QED BY Invariance, <1>1, PTL

\* The deque lists exactly the queued tasks, each once.
THEOREM LineCorrect == Spec => []LineIsQueued
<1>1. IInv => LineIsQueued BY DEF IInv
<1> QED BY Invariance, <1>1, PTL

\* The history lists exactly the ended tasks in memory, each once.
THEOREM HistoryCorrect == Spec => []HistoryIsEnded
<1>1. IInv => HistoryIsEnded BY DEF IInv
<1> QED BY Invariance, <1>1, PTL

\* Every task is where its status says: in line, in the history, or in neither.
THEOREM TasksInPlace == Spec => []TasksAreInPlace
<1>1. IInv => TasksAreInPlace BY DEF IInv, TasksAreInPlace
<1> QED BY Invariance, <1>1, PTL

\* No task is executed by two workers, or by one without being "running".
THEOREM OneWorker == Spec => []OneWorkerPerTask
<1>1. IInv => OneWorkerPerTask BY DEF IInv
<1> QED BY Invariance, <1>1, PTL

\* Permits are neither lost nor duplicated, and runs need one.
THEOREM SlotsSafe == Spec => []SlotsConserved
<1>1. IInv => SlotsConserved BY DEF IInv
<1> QED BY Invariance, <1>1, PTL

\* Workers share neither tasks nor permits, whatever way a run takes out.
THEOREM WorkersSafe == Spec => []WorkersAreSafe
<1>1. IInv => WorkersAreSafe BY DEF IInv, WorkersAreSafe
<1> QED BY Invariance, <1>1, PTL

\* The stop intents of a running task agree in its three places.
THEOREM IntentSafe == Spec => []StopIntentTracked
<1>1. IInv => StopIntentTracked BY DEF IInv
<1> QED BY Invariance, <1>1, PTL
-----------------------------------------------------------------------------
(* The snapshots: what the notifications and the rows say of the tasks.    *)

NoNote(q, t) == \A i \in 1 .. Len(q) : q[i].task # t
NoneNew(q) == \A i \in 1 .. Len(q) : q[i].status # "new"
LastNote(q, t, i) ==
  i \in 1 .. Len(q) /\ q[i].task = t /\ \A j \in 1 .. Len(q) : j > i => q[j].task # t

\* A snapshot <<s, p>> agrees with task t in memory.
Tells(s, p, t) ==
  \/ s \in Unknown /\ status[t] \in Unknown
  \/ s = status[t] /\ (s # "running" => p = phase[t])

\* The last word on t, in the notifications or else in its row, is true.
Told(t) ==
  /\ \A i \in 1 .. Len(notifs) :
       LastNote(notifs, t, i) => Tells(notifs[i].status, notifs[i].phase, t)
  /\ NoNote(notifs, t) => Tells(db[t].status, db[t].phase, t)
RowsInv == \A t \in Tasks \ LossyTasks : Told(t)

\* The trimming of the history finds something other than the task that just ended.
FewActive == Cardinality(ActiveTasks) <= MaxHistory

Deciding == {"call", "recheck", "clean", "purge"}

StoreInv ==
  /\ NoStrandedSnapshot
  /\ NoneNew(notifs)
  /\ \A c \in Clients : cpc[c] \in Deciding => cop[c] # "enqueue"
  /\ \A c \in Clients : cpc[c] = "purge" => status[ctask[c]] = "dropped"
  /\ \A c \in Clients : cop[c] = "enqueue" /\ cpc[c] = "reply" =>
       /\ ctask[c] \in Tasks
       /\ \/ db[ctask[c]].status # "new"
          \/ ctask[c] \in LossyTasks
          \/ c \in owesFlush /\ ~NoNote(notifs, ctask[c])

\* What a step other than a flush and a restart appends to the notifications.
AppendsNotes(ns) ==
  /\ ns \in Seq(Notes) /\ notifs' = notifs \o ns
  /\ owesFlush \subseteq owesFlush' /\ (ns # <<>> => owesFlush' # {})
  /\ NoneNew(ns)
  /\ \A t \in Tasks : NoNote(ns, t) =>
       /\ status'[t] = status[t] /\ phase'[t] = phase[t]
       /\ \/ db'[t] = db[t]
          \/ db'[t].status = "dropped" /\ status[t] = "dropped"
  /\ FewActive => \A t \in Tasks, i \in 1 .. Len(ns) :
       LastNote(ns, t, i) => status'[t] = ns[i].status /\ phase'[t] = ns[i].phase
  /\ \A t \in Tasks : db'[t] = db[t] \/ db'[t].status # "new"
  /\ \A t \in Tasks : status[t] = "dropped" => status'[t] = "dropped"

\* The requests meanwhile.
ClientsFollow(ns) ==
  /\ \A c \in Clients : cpc'[c] \in Deciding => cop'[c] # "enqueue"
  /\ \A c \in Clients : cpc'[c] = "purge" =>
       \/ cpc[c] = "purge" /\ ctask'[c] = ctask[c]
       \/ status'[ctask'[c]] = "dropped"
  /\ \A c \in Clients : cop'[c] = "enqueue" /\ cpc'[c] = "reply" =>
       \/ cop[c] = "enqueue" /\ cpc[c] = "reply" /\ ctask'[c] = ctask[c]
       \/ ctask'[c] \in Tasks /\ c \in owesFlush' /\ ~NoNote(ns, ctask'[c])

LEMMA ConcatParts ==
  ASSUME NEW q \in Seq(Notes), NEW ns \in Seq(Notes)
  PROVE  /\ q \o ns \in Seq(Notes) /\ Len(q) \in Nat /\ Len(ns) \in Nat
         /\ Len(q \o ns) = Len(q) + Len(ns)
         /\ \A i \in 1 .. Len(q) : (q \o ns)[i] = q[i]
         /\ \A i \in 1 .. Len(ns) : (q \o ns)[Len(q) + i] = ns[i]
         /\ \A i \in 1 .. Len(q \o ns) :
              i \in 1 .. Len(q) \/ (i - Len(q) \in 1 .. Len(ns) /\ (q \o ns)[i] = ns[i - Len(q)])
BY ConcatProperties, LenProperties

LEMMA NoteConcat ==
  ASSUME NEW q \in Seq(Notes), NEW ns \in Seq(Notes), NEW t
  PROVE  NoNote(q \o ns, t) <=> NoNote(q, t) /\ NoNote(ns, t)
<1> DEFINE r == q \o ns
           m == Len(q)
           n == Len(ns)
<1>1. /\ m \in Nat /\ n \in Nat /\ Len(r) = m + n
      /\ \A i \in 1 .. m : r[i] = q[i]
      /\ \A i \in 1 .. n : r[m + i] = ns[i]
      /\ \A i \in 1 .. Len(r) : i \in 1 .. m \/ (i - m \in 1 .. n /\ r[i] = ns[i - m])
  BY ConcatParts
<1> HIDE DEF r
<1>2. NoNote(r, t) => NoNote(q, t)
  BY <1>1 DEF NoNote
<1>3. NoNote(r, t) => NoNote(ns, t)
  <2>1. \A i \in 1 .. n : m + i \in 1 .. Len(r)
    BY <1>1
  <2> QED BY <1>1, <2>1 DEF NoNote
<1>4. NoNote(q, t) /\ NoNote(ns, t) => NoNote(r, t)
  BY <1>1 DEF NoNote
<1> QED BY <1>2, <1>3, <1>4 DEF r

LEMMA LastConcat ==
  ASSUME NEW q \in Seq(Notes), NEW ns \in Seq(Notes), NEW t,
         NEW i \in 1 .. Len(q \o ns), LastNote(q \o ns, t, i)
  PROVE  \/ i \in 1 .. Len(q) /\ LastNote(q, t, i) /\ NoNote(ns, t) /\ (q \o ns)[i] = q[i]
         \/ \E k \in 1 .. Len(ns) : LastNote(ns, t, k) /\ (q \o ns)[i] = ns[k]
<1> DEFINE r == q \o ns
           m == Len(q)
           n == Len(ns)
<1>1. /\ m \in Nat /\ n \in Nat /\ Len(r) = m + n
      /\ \A j \in 1 .. m : r[j] = q[j]
      /\ \A j \in 1 .. n : r[m + j] = ns[j]
      /\ \A j \in 1 .. Len(r) : j \in 1 .. m \/ (j - m \in 1 .. n /\ r[j] = ns[j - m])
  BY ConcatParts
<1>2. i \in 1 .. Len(r) /\ r[i].task = t /\ \A j \in 1 .. Len(r) : j > i => r[j].task # t
  BY DEF LastNote
<1> HIDE DEF r
<1>3. CASE i \in 1 .. m
  <2>1. LastNote(q, t, i)
    BY <1>1, <1>2, <1>3 DEF LastNote
  <2>2. \A k \in 1 .. n : m + k \in 1 .. Len(r) /\ m + k > i
    BY <1>1, <1>3
  <2>3. NoNote(ns, t)
    BY <1>1, <1>2, <2>2 DEF NoNote
  <2> QED BY <1>1, <1>3, <2>1, <2>3 DEF r
<1>4. CASE i - m \in 1 .. n /\ r[i] = ns[i - m]
  <2>1. \A k \in 1 .. n : k > i - m => m + k \in 1 .. Len(r) /\ m + k > i
    BY <1>1, <1>2
  <2>2. LastNote(ns, t, i - m)
    BY <1>1, <1>2, <1>4, <2>1 DEF LastNote
  <2> QED BY <1>4, <2>2 DEF r
<1> QED BY <1>1, <1>2, <1>3, <1>4

LEMMA NewConcat ==
  ASSUME NEW q \in Seq(Notes), NEW ns \in Seq(Notes), NoneNew(q), NoneNew(ns)
  PROVE  NoneNew(q \o ns)
<1> DEFINE r == q \o ns
<1>1. \A i \in 1 .. Len(r) :
        \/ i \in 1 .. Len(q) /\ r[i] = q[i]
        \/ i - Len(q) \in 1 .. Len(ns) /\ r[i] = ns[i - Len(q)]
  BY ConcatParts
<1> HIDE DEF r
<1>2. NoneNew(r)
  BY <1>1 DEF NoneNew
<1> QED BY <1>2 DEF r

LEMMA AppendKeeps ==
  ASSUME IInv, StoreInv, NEW ns, AppendsNotes(ns), ClientsFollow(ns)
  PROVE  StoreInv' /\ (RowsInv /\ FewActive => RowsInv')
<1>1. notifs \in Seq(Notes) /\ ns \in Seq(Notes) /\ notifs' = notifs \o ns
  BY DEF IInv, TypeOK, StoreTyped, AppendsNotes
<1>2. NoStrandedSnapshot'
  <2>1. CASE ns = <<>>
    BY <1>1, <2>1 DEF StoreInv, AppendsNotes, NoStrandedSnapshot
  <2>2. CASE ns # <<>>
    BY <2>2 DEF AppendsNotes, NoStrandedSnapshot
  <2> QED BY <2>1, <2>2
<1>3. NoneNew(notifs')
  BY <1>1, NewConcat DEF StoreInv, AppendsNotes
<1>4. \A t \in Tasks : NoNote(notifs', t) => NoNote(notifs, t) /\ NoNote(ns, t)
  BY <1>1, NoteConcat
<1>5. ASSUME NEW c \in Clients, cpc'[c] = "purge" PROVE status'[ctask'[c]] = "dropped"
  <2>1. CASE cpc[c] = "purge" /\ ctask'[c] = ctask[c]
    <3>1. ctask[c] \in Tasks /\ status[ctask[c]] = "dropped"
      BY <2>1 DEF IInv, ThreadsPlaced, StoreInv
    <3> QED BY <2>1, <3>1 DEF AppendsNotes
  <2> QED BY <1>5, <2>1 DEF ClientsFollow
<1>6. ASSUME NEW c \in Clients, cop'[c] = "enqueue", cpc'[c] = "reply"
      PROVE  /\ ctask'[c] \in Tasks
             /\ \/ db'[ctask'[c]].status # "new"
                \/ ctask'[c] \in LossyTasks
                \/ c \in owesFlush' /\ ~NoNote(notifs', ctask'[c])
  <2>1. CASE cop[c] = "enqueue" /\ cpc[c] = "reply" /\ ctask'[c] = ctask[c]
    <3>1. /\ ctask[c] \in Tasks
          /\ \/ db[ctask[c]].status # "new"
             \/ ctask[c] \in LossyTasks
             \/ c \in owesFlush /\ ~NoNote(notifs, ctask[c])
      BY <2>1 DEF StoreInv
    <3>2. db'[ctask[c]] = db[ctask[c]] \/ db'[ctask[c]].status # "new"
      BY <3>1 DEF AppendsNotes
    <3>3. owesFlush \subseteq owesFlush'
      BY DEF AppendsNotes
    <3> QED BY <1>4, <2>1, <3>1, <3>2, <3>3
  <2>2. CASE ctask'[c] \in Tasks /\ c \in owesFlush' /\ ~NoNote(ns, ctask'[c])
    BY <1>4, <2>2
  <2> QED BY <1>6, <2>1, <2>2 DEF ClientsFollow
<1>7. StoreInv'
  BY <1>2, <1>3, <1>5, <1>6 DEF StoreInv, ClientsFollow, NoNote, NoneNew
<1>8. ASSUME RowsInv, FewActive, NEW t \in Tasks \ LossyTasks PROVE Told(t)'
  <2> DEFINE Now(s, p) == \/ s \in Unknown /\ status'[t] \in Unknown
                          \/ s = status'[t] /\ (s # "running" => p = phase'[t])
  <2>1. ASSUME NEW i \in 1 .. Len(notifs'), LastNote(notifs', t, i)
        PROVE  Now(notifs'[i].status, notifs'[i].phase)
    <3>1. CASE i \in 1 .. Len(notifs) /\ LastNote(notifs, t, i) /\ NoNote(ns, t) /\ notifs'[i] = notifs[i]
      <4>1. Tells(notifs[i].status, notifs[i].phase, t)
        BY <1>8, <3>1 DEF RowsInv, Told
      <4>2. status'[t] = status[t] /\ phase'[t] = phase[t]
        BY <3>1 DEF AppendsNotes
      <4> QED BY <3>1, <4>1, <4>2 DEF Tells
    <3>2. ASSUME NEW k \in 1 .. Len(ns), LastNote(ns, t, k), notifs'[i] = ns[k]
          PROVE  Now(notifs'[i].status, notifs'[i].phase)
      <4>1. status'[t] = ns[k].status /\ phase'[t] = ns[k].phase
        BY <1>8, <3>2 DEF AppendsNotes
      <4> QED BY <3>2, <4>1 DEF Tells
    <3> QED BY <1>1, <2>1, <3>1, <3>2, LastConcat
  <2>2. ASSUME NoNote(notifs', t) PROVE Now(db'[t].status, db'[t].phase)
    <3>1. NoNote(notifs, t) /\ NoNote(ns, t)
      BY <1>4, <2>2
    <3>2. Tells(db[t].status, db[t].phase, t)
      BY <1>8, <3>1 DEF RowsInv, Told
    <3>3. /\ status'[t] = status[t] /\ phase'[t] = phase[t]
          /\ \/ db'[t] = db[t]
             \/ db'[t].status = "dropped" /\ status[t] = "dropped"
      BY <3>1 DEF AppendsNotes
    <3> QED BY <3>2, <3>3, StatusFacts DEF Tells
  <2> QED BY <2>1, <2>2 DEF Told, Tells, NoNote, LastNote
<1> QED BY <1>7, <1>8 DEF RowsInv

-----------------------------------------------------------------------------
(* What each step appends.                                                 *)

LEMMA QuietNotes ==
  ASSUME IInv, UNCHANGED <<status, phase, notifs, owesFlush>>,
         \A t \in Tasks : \/ db'[t] = db[t]
                          \/ db'[t].status = "dropped" /\ status[t] = "dropped"
  PROVE  AppendsNotes(<<>>)
<1>1. notifs \in Seq(Notes) /\ <<>> \in Seq(Notes) /\ Len(<<>>) = 0
  BY DEF IInv, TypeOK, StoreTyped
<1>2. notifs' = notifs \o <<>>
  BY <1>1
<1>3. \A t \in Tasks, i \in 1 .. Len(<<>>) : ~LastNote(<<>>, t, i)
  BY <1>1 DEF LastNote
<1> QED BY <1>1, <1>2, <1>3 DEF AppendsNotes, NoneNew

LEMMA OneNote ==
  ASSUME NEW u \in Tasks, NEW s \in Statuses, NEW p \in Phases
  PROVE  /\ <<Snapshot(u, s, p)>> \in Seq(Notes) /\ Len(<<Snapshot(u, s, p)>>) = 1
         /\ \A i \in 1 .. 1 : /\ <<Snapshot(u, s, p)>>[i].task = u
                              /\ <<Snapshot(u, s, p)>>[i].status = s
                              /\ <<Snapshot(u, s, p)>>[i].phase = p
         /\ \A t : NoNote(<<Snapshot(u, s, p)>>, t) <=> t # u
<1>1. <<Snapshot(u, s, p)>> \in Seq(Notes)
  BY NotesTyped
<1>2. \A i \in 1 .. 1 : <<Snapshot(u, s, p)>>[i] = Snapshot(u, s, p)
  OBVIOUS
<1>3. \A i \in 1 .. 1 : /\ <<Snapshot(u, s, p)>>[i].task = u
                        /\ <<Snapshot(u, s, p)>>[i].status = s
                        /\ <<Snapshot(u, s, p)>>[i].phase = p
  BY <1>2 DEF Snapshot
<1> QED BY <1>1, <1>3 DEF NoNote

LEMMA NotedNotes ==
  ASSUME IInv, NEW a \in Threads, NEW u \in Tasks, NEW s \in Statuses \ {"new"},
         NEW p \in Phases, Notify(a, <<Snapshot(u, s, p)>>),
         \A t \in Tasks : /\ status'[t] = (IF t = u THEN s ELSE status[t])
                          /\ phase'[t] = (IF t = u THEN p ELSE phase[t]),
         UNCHANGED db, status[u] # "dropped"
  PROVE  AppendsNotes(<<Snapshot(u, s, p)>>)
<1> DEFINE ns == <<Snapshot(u, s, p)>>
<1>1. /\ ns \in Seq(Notes) /\ Len(ns) = 1
      /\ \A i \in 1 .. 1 : ns[i].task = u /\ ns[i].status = s /\ ns[i].phase = p
      /\ \A t : NoNote(ns, t) <=> t # u
  BY OneNote
<1>2. notifs' = notifs \o ns /\ owesFlush' = owesFlush \cup {a}
  BY DEF Notify
<1> HIDE DEF ns
<1>3. \A t \in Tasks, i \in 1 .. Len(ns) :
        LastNote(ns, t, i) => status'[t] = ns[i].status /\ phase'[t] = ns[i].phase
  BY <1>1 DEF LastNote
<1>4. AppendsNotes(ns)
  BY <1>1, <1>2, <1>3 DEF AppendsNotes, NoneNew
<1> QED BY <1>4 DEF ns

\* The deletions that a trimming notifies.
LEMMA DropNotes ==
  ASSUME NEW q \in Seq(Tasks)
  PROVE  /\ DroppedNotes(q) \in Seq(Notes) /\ Len(DroppedNotes(q)) = Len(q)
         /\ \A i \in 1 .. Len(q) : /\ DroppedNotes(q)[i].task \in ToSet(q)
                                   /\ DroppedNotes(q)[i].status = "dropped"
                                   /\ DroppedNotes(q)[i].phase = "none"
         /\ \A t : NoNote(DroppedNotes(q), t) <=> t \notin ToSet(q)
<1>1. DroppedNotes(q) \in Seq(Notes)
  BY NotesTyped
<1>2. Len(q) \in Nat /\ DOMAIN q = 1 .. Len(q)
  BY LenProperties
<1>3. Len(DroppedNotes(q)) = Len(q) /\ \A i \in 1 .. Len(q) : DroppedNotes(q)[i] = Dropped(q[i])
  BY <1>2 DEF DroppedNotes
<1>0. \A t \in Tasks :
        Dropped(t).task = t /\ Dropped(t).status = "dropped" /\ Dropped(t).phase = "none"
  BY DEF Dropped, Snapshot
<1>4. \A i \in 1 .. Len(q) : /\ DroppedNotes(q)[i].task = q[i]
                             /\ DroppedNotes(q)[i].status = "dropped"
                             /\ DroppedNotes(q)[i].phase = "none"
  <2> HIDE DEF DroppedNotes, Dropped
  <2>1. \A i \in 1 .. Len(q) : q[i] \in Tasks
    BY <1>2
  <2> QED BY <1>3, <1>0, <2>1
<1>5. ToSet(q) = {q[i] : i \in 1 .. Len(q)}
  BY <1>2 DEF ToSet
<1> HIDE DEF DroppedNotes
<1> QED BY <1>1, <1>3, <1>4, <1>5 DEF NoNote

\* A task that ends while others can be trimmed is remembered.
LEMMA JustEndedKept ==
  ASSUME NEW n \in Nat, n < MaxHistory, NEW q \in Seq(Tasks), NEW t \in Tasks,
         IsInjective(Append(q, t))
  PROVE  t \notin ToSet(Trimmed(n, Append(q, t)))
<1> DEFINE h == Append(q, t)
           k == TrimCount(n, h)
<1>1. /\ h \in Seq(Tasks) /\ Len(q) \in Nat /\ Len(h) = Len(q) + 1 /\ h[Len(h)] = t
      /\ DOMAIN h = 1 .. Len(h)
  BY AppendProperties, LenProperties
<1>2. IsInjective(h)
  OBVIOUS
<1> HIDE DEF h
<1>3. k \in 0 .. (Len(h) - 1)
  BY <1>1, LimitsAssumption DEF TrimCount
<1> HIDE DEF k
<1>4. /\ Len(SubSeq(h, 1, k)) = k
      /\ \A i \in 1 .. k : SubSeq(h, 1, k)[i] = h[i]
      /\ DOMAIN SubSeq(h, 1, k) = 1 .. k
  BY <1>1, <1>3
<1>5. ASSUME NEW i \in 1 .. k, h[i] = t PROVE FALSE
  <2>1. i \in DOMAIN h /\ Len(h) \in DOMAIN h /\ i # Len(h)
    BY <1>1, <1>3
  <2> QED BY <1>1, <1>2, <1>5, <2>1 DEF IsInjective
<1>6. ToSet(SubSeq(h, 1, k)) = {SubSeq(h, 1, k)[i] : i \in 1 .. k}
  BY <1>4 DEF ToSet
<1>7. t \notin ToSet(SubSeq(h, 1, k))
  BY <1>4, <1>5, <1>6
<1> QED BY <1>7 DEF Trimmed, k, h

LEMMA SettleNotes ==
  ASSUME IInv, NEW a \in Threads, NEW t \in Tasks, status[t] \in Active,
         NEW s \in Terminal, NEW p \in Final, NEW sig \in SUBSET Tasks,
         Settle(a, t, s, p, sig), UNCHANGED db
  PROVE  \E ns : AppendsNotes(ns)
<1> DEFINE n == Cardinality(ActiveTasks \ {t})
           h == Append(Unlisted(t), t)
           cut == Trimmed(n, h)
           gone == ToSet(cut)
           st == [status EXCEPT ![t] = s]
           ph == [phase EXCEPT ![t] = p]
           one == <<Snapshot(t, s, p)>>
           del == DroppedNotes(cut)
           ns == del \o one
<1>1. n \in Nat /\ (FewActive => n < MaxHistory)
  <2>1. IsFiniteSet(ActiveTasks) /\ t \in ActiveTasks
    BY ActiveFinite DEF ActiveTasks
  <2>2. Cardinality(ActiveTasks) \in Nat /\ n = Cardinality(ActiveTasks) - 1 /\ n \in Nat
    <3>1. IsFiniteSet(ActiveTasks \ {t})
      BY <2>1, FS_Subset
    <3>2. n \in Nat
      BY <3>1, FS_CardinalityType
    <3> QED BY <2>1, <3>2, FS_RemoveElement, FS_CardinalityType
  <2> QED BY <2>2, LimitsAssumption DEF FewActive
<1>2. /\ Unlisted(t) \in Seq(Tasks) /\ h \in Seq(Tasks) /\ IsInjective(h)
      /\ ToSet(h) = ToSet(history) \cup {t}
  <2>1. /\ Unlisted(t) \in Seq(Tasks) /\ IsInjective(Unlisted(t))
        /\ ToSet(Unlisted(t)) = ToSet(history) \ {t}
    BY UnlistedEffect DEF IInv
  <2> HIDE DEF Unlisted
  <2>2. t \in ToSet(history) \/ t \notin ToSet(history)
    OBVIOUS
  <2> QED BY <2>1, AppendOnce
<1>3. FewActive => t \notin gone
  BY <1>1, <1>2, JustEndedKept
<1> HIDE DEF n, h
<1>4. cut \in Seq(Tasks) /\ gone \subseteq ToSet(h)
  BY <1>1, <1>2, TrimOnce
<1>5. \A u \in gone : u = t \/ status[u] # "dropped"
  <2>1. \A u \in gone : u \in Tasks
    BY <1>2, <1>4, LenProperties DEF ToSet
  <2> QED BY <1>2, <1>4, <2>1, StatusFacts DEF IInv, HistoryIsEnded
<1>6. /\ status' = DropStatus(st, gone) /\ phase' = DropPhase(ph, gone)
      /\ notifs' = notifs \o ns /\ owesFlush' = owesFlush \cup {a}
  BY DEF Settle, Notify, n, h
<1>7. /\ one \in Seq(Notes) /\ Len(one) = 1
      /\ \A i \in 1 .. 1 : one[i].task = t /\ one[i].status = s /\ one[i].phase = p
      /\ \A u : NoNote(one, u) <=> u # t
  <2>1. s \in Statuses /\ p \in Phases
    BY StatusFacts
  <2> QED BY <2>1, OneNote
<1> HIDE DEF cut
<1>8. /\ del \in Seq(Notes) /\ Len(del) = Len(cut)
      /\ \A i \in 1 .. Len(cut) : /\ del[i].task \in gone
                                  /\ del[i].status = "dropped" /\ del[i].phase = "none"
      /\ \A u : NoNote(del, u) <=> u \notin gone
  BY <1>4, DropNotes
<1> HIDE DEF one, del, gone
<1>9. /\ status \in [Tasks -> Statuses] /\ phase \in [Tasks -> Phases]
  BY DEF IInv, TypeOK, QueueTyped
<1>10. \A u \in Tasks :
         /\ status'[u] = IF u \in gone THEN "dropped" ELSE IF u = t THEN s ELSE status[u]
         /\ phase'[u] = IF u \in gone THEN "none" ELSE IF u = t THEN p ELSE phase[u]
  BY <1>6, <1>9 DEF DropStatus, DropPhase
<1>11. ns \in Seq(Notes) /\ ns # <<>>
  <2>1. ns \in Seq(Notes) /\ Len(ns) = Len(del) + Len(one) /\ Len(del) \in Nat
    <3>1. del \in Seq(Notes) /\ one \in Seq(Notes)
      BY <1>7, <1>8
    <3>2. ns \in Seq(Notes)
      BY <3>1
    <3>3. Len(del) \in Nat
      BY <3>1, LenProperties
    <3>4. Len(ns) = Len(del) + Len(one)
      BY <3>1, ConcatProperties
    <3> QED BY <3>2, <3>3, <3>4
  <2> QED BY <2>1, <1>7
<1>12. \A u : NoNote(ns, u) <=> u \notin gone /\ u # t
  BY <1>7, <1>8, NoteConcat
<1>13. NoneNew(ns)
  <2>1. NoneNew(del) /\ NoneNew(one)
    BY <1>7, <1>8, StatusFacts DEF NoneNew
  <2> QED BY <1>7, <1>8, <2>1, NewConcat
<1>14. ASSUME FewActive, NEW u \in Tasks, NEW i \in 1 .. Len(ns), LastNote(ns, u, i)
       PROVE  status'[u] = ns[i].status /\ phase'[u] = ns[i].phase
  <2>1. \/ i \in 1 .. Len(del) /\ LastNote(del, u, i) /\ NoNote(one, u) /\ ns[i] = del[i]
        \/ \E k \in 1 .. Len(one) : LastNote(one, u, k) /\ ns[i] = one[k]
    <3>1. del \in Seq(Notes) /\ one \in Seq(Notes)
      BY <1>7, <1>8
    <3> QED BY <1>14, <3>1, LastConcat
  <2>2. CASE i \in 1 .. Len(del) /\ LastNote(del, u, i) /\ NoNote(one, u) /\ ns[i] = del[i]
    BY <1>8, <1>10, <2>2 DEF LastNote
  <2>3. ASSUME NEW k \in 1 .. Len(one), LastNote(one, u, k), ns[i] = one[k]
        PROVE  status'[u] = ns[i].status /\ phase'[u] = ns[i].phase
    BY <1>3, <1>7, <1>10, <1>14, <2>3 DEF LastNote
  <2> QED BY <2>1, <2>2, <2>3
<1>15. \A u \in Tasks : status[u] = "dropped" => status'[u] = "dropped"
  BY <1>10, StatusFacts
<1> HIDE DEF ns
<1>16. AppendsNotes(ns)
  <2>1. owesFlush \subseteq owesFlush' /\ owesFlush' # {}
    BY <1>6
  <2>2. \A u \in Tasks : NoNote(ns, u) => status'[u] = status[u] /\ phase'[u] = phase[u]
    BY <1>10, <1>12
  <2> QED BY <1>6, <1>11, <1>13, <1>14, <1>15, <2>1, <2>2 DEF AppendsNotes
<1> QED BY <1>16

LEMMA EnqueueNotes ==
  ASSUME IInv, NEW c \in Clients, NEW fresh \in Batches, NEW dups \in Batches,
         NEW strict \in BOOLEAN, Enqueue(c, fresh, dups, strict)
  PROVE  \E ns : AppendsNotes(ns) /\ c \in owesFlush' /\ ctask'[c] \in Tasks
                 /\ ~NoNote(ns, ctask'[c])
<1> DEFINE queued == ToSet(fresh)
           skipped == ToSet(dups)
           n == Cardinality(ActiveTasks) + Len(fresh)
           h == history \o dups
           cut == Trimmed(n, h)
           gone == ToSet(cut)
           stat == [t \in Tasks |-> IF t \in queued THEN "queued"
                                    ELSE IF t \in skipped THEN "skipped" ELSE status[t]]
           phas == [t \in Tasks |-> IF t \in queued THEN "queued"
                                    ELSE IF t \in skipped THEN "skipped" ELSE phase[t]]
           created == fresh \o dups
           notes == [i \in DOMAIN created |->
                       Snapshot(created[i], stat[created[i]], phas[created[i]])]
           del == DroppedNotes(cut)
           ns == notes \o del
<1>1. /\ Plan(fresh, dups)
      /\ ctask' = [ctask EXCEPT ![c] = created[1]]
      /\ status' = DropStatus(stat, gone) /\ phase' = DropPhase(phas, gone)
      /\ notifs' = notifs \o ns /\ owesFlush' = owesFlush \cup {c}
      /\ db' = [t \in Tasks |-> IF strict /\ t \in queued
                                THEN [status |-> "queued", phase |-> "queued"] ELSE db[t]]
  BY DEF Enqueue, Answer, Begins, Notify
<1>2. fresh \in Seq(Tasks) /\ dups \in Seq(Tasks)
  <2>1. ASSUME NEW b \in Batches PROVE b \in Seq(Tasks)
    <3>1. PICK k \in 0 .. MaxBatch : b \in [1 .. k -> Tasks] BY DEF Batches
    <3>2. k \in Nat OBVIOUS
    <3> QED BY <3>1, <3>2
  <2> QED BY <2>1
<1>3. /\ \A t \in queued \cup skipped : status[t] = "new"
      /\ Len(fresh) + Len(dups) > 0 /\ queued \cap skipped = {}
  BY <1>1 DEF Plan
<1>4. created \in Seq(Tasks) /\ ToSet(created) = queued \cup skipped /\ Len(created) > 0
  BY <1>2, <1>3, ConcatOnce
<1>5. cut \in Seq(Tasks) /\ gone \subseteq ToSet(h) /\ ToSet(h) = ToSet(history) \cup skipped
  <2>1. history \in Seq(Tasks)
    BY DEF IInv, TypeOK, QueueTyped
  <2>2. h \in Seq(Tasks) /\ ToSet(h) = ToSet(history) \cup skipped
    BY <2>1, <1>2, ConcatOnce
  <2>3. n \in Nat
    <3>1. ActiveTasks \in SUBSET Tasks BY DEF ActiveTasks
    <3> QED BY <3>1, <1>2, ActiveFinite, LenProperties
  <2> HIDE DEF n, h
  <2> QED BY <2>2, <2>3, TrimOnce
<1> HIDE DEF n, h, cut
<1>6. /\ status \in [Tasks -> Statuses] /\ phase \in [Tasks -> Phases] /\ c \in Threads
      /\ db \in [Tasks -> Rows] /\ ctask \in [Clients -> Tasks \cup {NoTask}]
  BY RequestFields DEF IInv, TypeOK, QueueTyped, StoreTyped, ClientsTyped
<1>7. \A u \in Tasks :
         /\ status'[u] = IF u \in gone THEN "dropped" ELSE stat[u]
         /\ phase'[u] = IF u \in gone THEN "none" ELSE phas[u]
  BY <1>1 DEF DropStatus, DropPhase
<1>8. /\ \A u \in Tasks : stat[u] = IF u \in queued THEN "queued"
                                    ELSE IF u \in skipped THEN "skipped" ELSE status[u]
      /\ \A u \in Tasks : phas[u] = IF u \in queued THEN "queued"
                                    ELSE IF u \in skipped THEN "skipped" ELSE phase[u]
  OBVIOUS
<1>9. stat \in [Tasks -> Statuses] /\ phas \in [Tasks -> Phases]
  BY <1>6, StatusFacts
<1> HIDE DEF stat, phas, created
<1>10. /\ notes \in Seq(Notes) /\ Len(notes) = Len(created)
       /\ \A i \in 1 .. Len(created) :
            /\ notes[i].task = created[i] /\ notes[i].task \in ToSet(created)
            /\ notes[i].status = stat[created[i]] /\ notes[i].phase = phas[created[i]]
       /\ \A u : NoNote(notes, u) <=> u \notin ToSet(created)
  <2>1. Len(created) \in Nat /\ DOMAIN created = 1 .. Len(created)
        /\ \A i \in 1 .. Len(created) : created[i] \in Tasks
    BY <1>4, LenProperties
  <2>2. ToSet(created) = {created[i] : i \in 1 .. Len(created)}
    BY <2>1 DEF ToSet
  <2>3. \A i \in 1 .. Len(created) :
          notes[i] = Snapshot(created[i], stat[created[i]], phas[created[i]])
    BY <2>1
  <2>4. \A u \in Tasks : Snapshot(u, stat[u], phas[u]) \in Notes
    BY <1>9 DEF Snapshot, Notes
  <2>5. notes \in Seq(Notes) /\ Len(notes) = Len(created)
    BY <2>1, <2>4
  <2>6. \A u \in Tasks : /\ Snapshot(u, stat[u], phas[u]).task = u
                         /\ Snapshot(u, stat[u], phas[u]).status = stat[u]
                         /\ Snapshot(u, stat[u], phas[u]).phase = phas[u]
    BY DEF Snapshot
  <2> HIDE DEF notes
  <2>7. \A i \in 1 .. Len(created) :
            /\ notes[i].task = created[i]
            /\ notes[i].status = stat[created[i]] /\ notes[i].phase = phas[created[i]]
    BY <2>1, <2>3, <2>6
  <2>8. \A u : NoNote(notes, u) <=> u \notin ToSet(created)
    BY <2>2, <2>5, <2>7 DEF NoNote
  <2> QED BY <2>2, <2>5, <2>7, <2>8
<1>11. /\ del \in Seq(Notes) /\ Len(del) = Len(cut)
       /\ \A i \in 1 .. Len(cut) : /\ del[i].task \in gone
                                   /\ del[i].status = "dropped" /\ del[i].phase = "none"
       /\ \A u : NoNote(del, u) <=> u \notin gone
  BY <1>5, DropNotes
<1> HIDE DEF notes, del, gone, queued, skipped
<1>12. ns \in Seq(Notes)
  BY <1>10, <1>11
<1>13. \A u : NoNote(ns, u) <=> u \notin ToSet(created) /\ u \notin gone
  BY <1>10, <1>11, NoteConcat
<1>14. NoneNew(ns)
  <2>1. NoneNew(del)
    BY <1>11 DEF NoneNew
  <2>2. \A u \in ToSet(created) : u \in Tasks
    BY <1>4, LenProperties DEF ToSet
  <2>3. NoneNew(notes)
    <3>1. ASSUME NEW i \in 1 .. Len(notes) PROVE notes[i].status # "new"
      <4>1. created[i] \in ToSet(created) /\ notes[i].status = stat[created[i]]
        BY <1>10
      <4> QED BY <1>4, <1>8, <2>2, <4>1
    <3> QED BY <3>1 DEF NoneNew
  <2> QED BY <1>10, <1>11, <2>1, <2>3, NewConcat
<1>15. ASSUME NEW u \in Tasks, NEW i \in 1 .. Len(ns), LastNote(ns, u, i)
       PROVE  status'[u] = ns[i].status /\ phase'[u] = ns[i].phase
  <2>1. \/ i \in 1 .. Len(notes) /\ LastNote(notes, u, i) /\ NoNote(del, u) /\ ns[i] = notes[i]
        \/ \E k \in 1 .. Len(del) : LastNote(del, u, k) /\ ns[i] = del[k]
    BY <1>10, <1>11, <1>15, LastConcat
  <2>2. CASE i \in 1 .. Len(notes) /\ LastNote(notes, u, i) /\ NoNote(del, u) /\ ns[i] = notes[i]
    BY <1>7, <1>10, <1>11, <2>2 DEF LastNote
  <2>3. ASSUME NEW k \in 1 .. Len(del), LastNote(del, u, k), ns[i] = del[k]
        PROVE  status'[u] = ns[i].status /\ phase'[u] = ns[i].phase
    BY <1>7, <1>11, <2>3 DEF LastNote
  <2> QED BY <2>1, <2>2, <2>3
<1> HIDE DEF ns
<1>16. AppendsNotes(ns)
  <2>1. owesFlush \subseteq owesFlush' /\ owesFlush' # {}
    BY <1>1
  <2>2. ASSUME NEW u \in Tasks, NoNote(ns, u)
        PROVE  status'[u] = status[u] /\ phase'[u] = phase[u] /\ db'[u] = db[u]
    <3>1. u \notin queued /\ u \notin skipped /\ u \notin gone
      BY <1>4, <1>13, <2>2
    <3> QED BY <1>1, <1>7, <1>8, <3>1
  <2>3. \A u \in Tasks : db'[u] = db[u] \/ db'[u].status # "new"
    BY <1>1
  <2>4. \A u \in Tasks : status[u] = "dropped" => status'[u] = "dropped"
    BY <1>3, <1>7, <1>8
  <2> QED BY <1>1, <1>12, <1>14, <1>15, <2>1, <2>2, <2>3, <2>4 DEF AppendsNotes
<1>17. ctask'[c] \in Tasks /\ ~NoNote(ns, ctask'[c])
  <2>1. created[1] \in ToSet(created) /\ created[1] \in Tasks
    BY <1>4, LenProperties DEF ToSet
  <2> QED BY <1>1, <1>6, <1>13, <2>1
<1> QED BY <1>1, <1>16, <1>17

-----------------------------------------------------------------------------
(* What each step does to the requests.                                    *)

LEMMA ClientsStay ==
  ASSUME StoreInv, UNCHANGED <<cpc, cop, ctask>>, NEW ns
  PROVE  ClientsFollow(ns)
BY DEF StoreInv, ClientsFollow

LEMMA OneClientMoves ==
  ASSUME StoreInv, NEW c \in Clients, NEW ns,
         \A d \in Clients \ {c} : cpc'[d] = cpc[d] /\ cop'[d] = cop[d] /\ ctask'[d] = ctask[d],
         cpc'[c] \in Deciding => cop'[c] # "enqueue",
         cpc'[c] = "purge" => status'[ctask'[c]] = "dropped",
         cop'[c] = "enqueue" /\ cpc'[c] = "reply" =>
           ctask'[c] \in Tasks /\ c \in owesFlush' /\ ~NoNote(ns, ctask'[c])
  PROVE  ClientsFollow(ns)
<1>1. ASSUME NEW d \in Clients, cpc'[d] \in Deciding PROVE cop'[d] # "enqueue"
  BY <1>1 DEF StoreInv
<1>2. ASSUME NEW d \in Clients, cpc'[d] = "purge"
      PROVE  \/ cpc[d] = "purge" /\ ctask'[d] = ctask[d]
             \/ status'[ctask'[d]] = "dropped"
  BY <1>2
<1>3. ASSUME NEW d \in Clients, cop'[d] = "enqueue", cpc'[d] = "reply"
      PROVE  \/ cop[d] = "enqueue" /\ cpc[d] = "reply" /\ ctask'[d] = ctask[d]
             \/ ctask'[d] \in Tasks /\ d \in owesFlush' /\ ~NoNote(ns, ctask'[d])
  BY <1>3
<1> QED BY <1>1, <1>2, <1>3 DEF ClientsFollow

\* Requests that only look, answer or clean up.
LEMMA RequestFollows ==
  ASSUME IInv, StoreInv, NEW c \in Clients, NEW ns,
         \/ \E t \in Tasks, op \in Intents : RequestStop(c, op, t)
         \/ \E t \in Tasks : RequestRetry(c, t)
         \/ StopTooLate(c) \/ Recheck(c) \/ StopAgain(c) \/ RefuseRetry(c)
         \/ RetryCleanup(c) \/ PurgeRow(c) \/ EndRequest(c)
         \/ StopQueued(c) \/ StopRunning(c) \/ Retry(c)
  PROVE  ClientsFollow(ns)
<1>1. /\ cpc \in [Clients -> {"idle", "call", "recheck", "clean", "purge", "reply"}]
      /\ cop \in [Clients -> {"none", "enqueue", "retry", "delete"} \cup Intents]
      /\ ctask \in [Clients -> Tasks \cup {NoTask}]
      /\ cpc[c] \in Deciding => cop[c] # "enqueue"
  BY DEF IInv, TypeOK, ClientsTyped, StoreInv
<1>2. "enqueue" \notin Intents
  BY DEF Intents
<1>3. ASSUME cpc[c] \in Deciding,
             NEW pc \in {"call", "recheck", "clean", "reply"}, cpc' = [cpc EXCEPT ![c] = pc],
             UNCHANGED <<cop, ctask>>
      PROVE  ClientsFollow(ns)
  BY <1>1, <1>3, OneClientMoves
<1>4. ASSUME NEW op \in {"retry", "none"} \cup Intents, cop' = [cop EXCEPT ![c] = op],
             NEW pc \in {"call", "reply", "idle"}, cpc' = [cpc EXCEPT ![c] = pc],
             NEW t, ctask' = [ctask EXCEPT ![c] = t]
      PROVE  ClientsFollow(ns)
  <2>1. op # "enqueue"
    BY <1>2
  <2>2. /\ cop'[c] = op /\ cpc'[c] = pc
        /\ \A d \in Clients \ {c} : cpc'[d] = cpc[d] /\ cop'[d] = cop[d] /\ ctask'[d] = ctask[d]
    BY <1>1, <1>4
  <2> QED BY <2>1, <2>2, OneClientMoves
<1>5. CASE \E t \in Tasks, op \in Intents : RequestStop(c, op, t)
  BY <1>4, <1>5 DEF RequestStop, Begins, Answer
<1>6. CASE \E t \in Tasks : RequestRetry(c, t)
  <2>1. PICK t \in Tasks : RequestRetry(c, t)
    BY <1>6
  <2>2. /\ cop' = [cop EXCEPT ![c] = "retry"] /\ ctask' = [ctask EXCEPT ![c] = t]
        /\ \E pc \in {"call", "reply"} : cpc' = [cpc EXCEPT ![c] = pc]
    BY <2>1 DEF RequestRetry, Begins, Answer
  <2> QED BY <1>4, <2>2
<1>7. CASE StopTooLate(c)
  BY <1>3, <1>7 DEF StopTooLate, Answer, Deciding
<1>8. CASE Recheck(c) \/ StopAgain(c) \/ RefuseRetry(c)
  BY <1>3, <1>8 DEF Recheck, StopAgain, RefuseRetry, Answer, Deciding
<1>9. CASE RetryCleanup(c) \/ PurgeRow(c) \/ Retry(c)
  BY <1>3, <1>9 DEF RetryCleanup, PurgeRow, Retry, Answer, Deciding
<1>10. CASE StopQueued(c)
  BY <1>3, <1>10 DEF StopQueued, Answer, Deciding
<1>11. CASE StopRunning(c)
  BY <1>3, <1>11 DEF StopRunning, Answer, Deciding
<1>12. CASE EndRequest(c)
  BY <1>4, <1>12 DEF EndRequest
<1> QED BY <1>5, <1>6, <1>7, <1>8, <1>9, <1>10, <1>11, <1>12

-----------------------------------------------------------------------------
(* Every step other than a flush and a restart appends its notifications.  *)

Appends == \E ns : AppendsNotes(ns) /\ ClientsFollow(ns)

LEMMA ShowPhaseNotes ==
  ASSUME IInv, StoreInv, NEW w \in Workers, wpc[w] \in Executing, NEW p \in Phases,
         ShowPhase(w, p), UNCHANGED <<status, db, clientVars>>
  PROVE  Appends
<1> DEFINE t == wtask[w]
<1>1. /\ t \in Tasks /\ status[t] = "running" /\ w \in Threads /\ "running" \in Statuses
      /\ phase \in [Tasks -> Phases]
  BY StatusFacts DEF IInv, TypeOK, QueueTyped, ThreadsPlaced, OneWorkerPerTask, Threads,
                     Executing, InRun
<1>2. \A ns : ClientsFollow(ns)
  BY ClientsStay DEF clientVars
<1>3. CASE UNCHANGED <<phase, notifs, owesFlush>>
  BY <1>2, <1>3, QuietNotes DEF Appends
<1>4. CASE phase' = [phase EXCEPT ![t] = p] /\ Notify(w, <<Snapshot(t, "running", p)>>)
  <2> HIDE DEF t
  <2>1. \A u \in Tasks : /\ status'[u] = (IF u = t THEN "running" ELSE status[u])
                         /\ phase'[u] = (IF u = t THEN p ELSE phase[u])
    BY <1>1, <1>4
  <2>2. AppendsNotes(<<Snapshot(t, "running", p)>>)
    BY <1>1, <1>4, <2>1, NotedNotes
  <2> QED BY <1>2, <2>2 DEF Appends
<1> QED BY <1>3, <1>4 DEF ShowPhase

LEMMA FinishNotes ==
  ASSUME IInv, StoreInv, NEW w \in Workers, wpc[w] \in Executing,
         NEW st \in {"success", "failed", "cancelled"}, Finish(w, st)
  PROVE  Appends
<1> DEFINE t == wtask[w]
           p == IF st = "success" THEN "completed"
                ELSE IF st = "cancelled" /\ t \in pauseReq THEN "paused" ELSE st
<1>1. /\ t \in Tasks /\ status[t] = "running" /\ w \in Threads /\ signalled \in SUBSET Tasks
  BY DEF IInv, TypeOK, QueueTyped, ThreadsPlaced, OneWorkerPerTask, Threads, Executing, InRun
<1>2. st \in Terminal /\ p \in Final BY StatusFacts DEF Final
<1>3. Settle(w, t, st, p, signalled) /\ UNCHANGED <<db, clientVars>>
  BY DEF Finish
<1> HIDE DEF t, p
<1>4. status[t] \in Active BY <1>1, StatusFacts
<1>5. \E ns : AppendsNotes(ns)
  BY <1>1, <1>2, <1>3, <1>4, SettleNotes
<1> QED BY <1>3, <1>5, ClientsStay DEF Appends, clientVars

LEMMA QuietStep ==
  ASSUME IInv, StoreInv,
         UNCHANGED <<status, phase, notifs, owesFlush, db>>, NEW c \in Clients,
         \/ UNCHANGED clientVars
         \/ \E t \in Tasks, op \in Intents : RequestStop(c, op, t)
         \/ \E t \in Tasks : RequestRetry(c, t)
         \/ StopTooLate(c) \/ Recheck(c) \/ StopAgain(c) \/ RefuseRetry(c)
         \/ RetryCleanup(c) \/ EndRequest(c)
  PROVE  Appends
<1>1. AppendsNotes(<<>>)
  BY QuietNotes
<1>2. ClientsFollow(<<>>)
  BY ClientsStay, RequestFollows DEF clientVars
<1> QED BY <1>1, <1>2 DEF Appends

LEMMA IdleStep ==
  ASSUME IInv, StoreInv, UNCHANGED <<status, phase, notifs, owesFlush, db, clientVars>>
  PROVE  Appends
<1>1. AppendsNotes(<<>>)
  BY QuietNotes
<1>2. ClientsFollow(<<>>)
  BY ClientsStay DEF clientVars
<1> QED BY <1>1, <1>2 DEF Appends

LEMMA PurgeNotes ==
  ASSUME IInv, StoreInv, NEW c \in Clients, PurgeRow(c)
  PROVE  Appends
<1>1. status[ctask[c]] = "dropped" /\ db \in [Tasks -> Rows]
  BY DEF PurgeRow, StoreInv, IInv, TypeOK, StoreTyped
<1>2. AppendsNotes(<<>>)
  BY <1>1, QuietNotes DEF PurgeRow, taskVars
<1>3. ClientsFollow(<<>>)
  BY RequestFollows
<1> QED BY <1>2, <1>3 DEF Appends

LEMMA DeleteNotes ==
  ASSUME IInv, StoreInv, NEW c \in Clients, NEW t \in Tasks, Delete(c, t)
  PROVE  Appends
<1>1. /\ status[t] \in Terminal /\ c \in Threads
      /\ status' = DropStatus(status, {t}) /\ phase' = DropPhase(phase, {t})
      /\ Notify(c, <<Dropped(t)>>)
      /\ cpc' = [cpc EXCEPT ![c] = "purge"]
      /\ cop' = [cop EXCEPT ![c] = "delete"] /\ ctask' = [ctask EXCEPT ![c] = t]
      /\ UNCHANGED db
  BY RequestFields DEF Delete, Begins
<1>2. /\ status \in [Tasks -> Statuses] /\ phase \in [Tasks -> Phases]
      /\ cpc \in [Clients -> {"idle", "call", "recheck", "clean", "purge", "reply"}]
      /\ cop \in [Clients -> {"none", "enqueue", "retry", "delete"} \cup Intents]
      /\ ctask \in [Clients -> Tasks \cup {NoTask}]
  BY DEF IInv, TypeOK, QueueTyped, ClientsTyped
<1>3. \A u \in Tasks : /\ status'[u] = (IF u = t THEN "dropped" ELSE status[u])
                       /\ phase'[u] = (IF u = t THEN "none" ELSE phase[u])
  BY <1>1, <1>2 DEF DropStatus, DropPhase
<1>4. AppendsNotes(<<Snapshot(t, "dropped", "none")>>)
  <2>1. "dropped" \in Statuses \ {"new"} /\ "none" \in Phases /\ status[t] # "dropped"
    BY <1>1, StatusFacts
  <2>2. Notify(c, <<Snapshot(t, "dropped", "none")>>)
    BY <1>1 DEF Dropped
  <2> QED BY <1>1, <1>3, <2>1, <2>2, NotedNotes
<1>5. ASSUME NEW ns PROVE ClientsFollow(ns)
  <2>1. /\ \A d \in Clients \ {c} : cpc'[d] = cpc[d] /\ cop'[d] = cop[d] /\ ctask'[d] = ctask[d]
        /\ cpc'[c] = "purge" /\ cop'[c] = "delete" /\ ctask'[c] = t
    BY <1>1, <1>2
  <2>2. status'[t] = "dropped"
    BY <1>3
  <2> QED BY <2>1, <2>2, OneClientMoves
<1> QED BY <1>4, <1>5 DEF Appends

LEMMA EnqueueAppends ==
  ASSUME IInv, StoreInv, NEW c \in Clients, NEW fresh \in Batches, NEW dups \in Batches,
         NEW strict \in BOOLEAN, Enqueue(c, fresh, dups, strict)
  PROVE  Appends
<1>1. PICK ns : /\ AppendsNotes(ns) /\ c \in owesFlush' /\ ctask'[c] \in Tasks
                /\ ~NoNote(ns, ctask'[c])
  BY EnqueueNotes
<1>2. /\ cpc \in [Clients -> {"idle", "call", "recheck", "clean", "purge", "reply"}]
      /\ cop \in [Clients -> {"none", "enqueue", "retry", "delete"} \cup Intents]
      /\ ctask \in [Clients -> Tasks \cup {NoTask}]
  BY DEF IInv, TypeOK, ClientsTyped
<1>3. /\ cpc' = [cpc EXCEPT ![c] = "reply"] /\ cop' = [cop EXCEPT ![c] = "enqueue"]
      /\ \E t : ctask' = [ctask EXCEPT ![c] = t]
  BY DEF Enqueue, Begins, Answer
<1>4. ClientsFollow(ns)
  <2>1. /\ \A d \in Clients \ {c} : cpc'[d] = cpc[d] /\ cop'[d] = cop[d] /\ ctask'[d] = ctask[d]
        /\ cpc'[c] = "reply"
    BY <1>2, <1>3
  <2> QED BY <1>1, <2>1, OneClientMoves DEF Deciding
<1> QED BY <1>1, <1>4 DEF Appends

\* The second half of a stop or a retry.
LEMMA CallNotes ==
  ASSUME IInv, StoreInv, NEW c \in Clients,
         StopQueued(c) \/ StopRunning(c) \/ Retry(c)
  PROVE  Appends
<1> DEFINE t == ctask[c]
<1>1. /\ status \in [Tasks -> Statuses] /\ phase \in [Tasks -> Phases]
      /\ c \in Threads /\ t \in Tasks /\ signalled \in SUBSET Tasks
  <2>1. cpc[c] = "call"
    BY DEF StopQueued, StopRunning, Retry
  <2> QED BY <2>1, RequestFields DEF IInv, TypeOK, QueueTyped
<1>2. \A ns : ClientsFollow(ns)
  BY RequestFollows
<1>3. CASE StopQueued(c)
  <2> DEFINE p == IF cop[c] = "pause" THEN "paused" ELSE "cancelled"
             sig == signalled \cup {t}
  <2>1. /\ Settle(c, t, "cancelled", p, sig)
        /\ status[t] = "queued" /\ UNCHANGED db
    BY <1>3 DEF StopQueued
  <2>2. p \in Final /\ "cancelled" \in Terminal /\ status[t] \in Active /\ sig \in SUBSET Tasks
    BY <1>1, <2>1, StatusFacts
  <2> HIDE DEF t, p, sig
  <2>3. \E ns : AppendsNotes(ns)
    BY <1>1, <2>1, <2>2, SettleNotes
  <2> QED BY <1>2, <2>3 DEF Appends
<1>4. CASE StopRunning(c)
  <2> DEFINE p == IF cop[c] = "pause" THEN "pausing" ELSE "cancelling"
  <2>1. /\ status[t] = "running" /\ phase' = [phase EXCEPT ![t] = p]
        /\ Notify(c, <<Snapshot(t, "running", p)>>) /\ UNCHANGED <<status, db>>
    BY <1>4 DEF StopRunning
  <2>2. p \in Phases /\ "running" \in Statuses \ {"new"}
    BY StatusFacts DEF Stopping
  <2> HIDE DEF t, p
  <2>3. \A u \in Tasks : /\ status'[u] = (IF u = t THEN "running" ELSE status[u])
                         /\ phase'[u] = (IF u = t THEN p ELSE phase[u])
    BY <1>1, <2>1
  <2>4. AppendsNotes(<<Snapshot(t, "running", p)>>)
    BY <1>1, <2>1, <2>2, <2>3, NotedNotes
  <2> QED BY <1>2, <2>4 DEF Appends
<1>5. CASE Retry(c)
  <2>1. /\ status[t] \in Terminal
        /\ status' = [status EXCEPT ![t] = "queued"] /\ phase' = [phase EXCEPT ![t] = "queued"]
        /\ Notify(c, <<Snapshot(t, "queued", "queued")>>) /\ UNCHANGED db
    BY <1>5 DEF Retry, Retryable
  <2>2. "queued" \in Phases /\ "queued" \in Statuses \ {"new"} /\ status[t] # "dropped"
    BY <2>1, StatusFacts
  <2> HIDE DEF t
  <2>3. \A u \in Tasks : /\ status'[u] = (IF u = t THEN "queued" ELSE status[u])
                         /\ phase'[u] = (IF u = t THEN "queued" ELSE phase[u])
    BY <1>1, <2>1
  <2>4. AppendsNotes(<<Snapshot(t, "queued", "queued")>>)
    BY <1>1, <2>1, <2>2, <2>3, NotedNotes
  <2> QED BY <1>2, <2>4 DEF Appends
<1> QED BY <1>3, <1>4, <1>5

LEMMA PopTaskNotes ==
  ASSUME IInv, StoreInv, NEW w \in Workers, PopTask(w)
  PROVE  Appends
<1> DEFINE t == Head(pending)
<1>1. /\ pending \in Seq(Tasks) /\ pending # <<>> /\ w \in Threads /\ UNCHANGED <<db, clientVars>>
      /\ status \in [Tasks -> Statuses] /\ phase \in [Tasks -> Phases]
  BY DEF PopTask, IInv, TypeOK, QueueTyped, Threads
<1>2. t \in Tasks
  BY <1>1, TailOnce
<1>3. \A ns : ClientsFollow(ns)
  BY <1>1, ClientsStay DEF clientVars
<1>4. CASE UNCHANGED <<status, phase, notifs, owesFlush>>
  BY <1>1, <1>4, IdleStep
<1>5. CASE /\ status' = [status EXCEPT ![t] = "running"]
           /\ phase' = [phase EXCEPT ![t] = "resolving"]
           /\ status[t] = "queued"
           /\ Notify(w, <<Snapshot(t, "running", "resolving")>>)
  <2> HIDE DEF t
  <2>1. "resolving" \in Phases /\ "running" \in Statuses \ {"new"} /\ status[t] # "dropped"
    BY <1>5, StatusFacts DEF Working
  <2>2. \A u \in Tasks : /\ status'[u] = (IF u = t THEN "running" ELSE status[u])
                         /\ phase'[u] = (IF u = t THEN "resolving" ELSE phase[u])
    BY <1>1, <1>5
  <2>3. AppendsNotes(<<Snapshot(t, "running", "resolving")>>)
    BY <1>1, <1>2, <1>5, <2>1, <2>2, NotedNotes
  <2> QED BY <1>3, <2>3 DEF Appends
<1> QED BY <1>4, <1>5 DEF PopTask

LEMMA WorkerAppends ==
  ASSUME IInv, StoreInv, NEW w \in Workers, WorkerStep(w)
  PROVE  Appends
<1> USE DEF taskVars, storeVars, At, Goto
<1>1. CASE PopTask(w)
  BY <1>1, PopTaskNotes
<1>2. CASE AcquireSlot(w)
  <2>1. wpc[w] \in Executing
    BY <1>2 DEF AcquireSlot, Executing
  <2>2. Finish(w, "cancelled") \/ UNCHANGED <<status, phase, notifs, owesFlush, db, clientVars>>
    BY <1>2 DEF AcquireSlot
  <2> QED BY <2>1, <2>2, FinishNotes, IdleStep
<1>3. CASE CancelWhileWaiting(w) \/ RunCancelled(w) \/ FailRun(w) \/ Succeed(w)
  <2>1. /\ wpc[w] \in Executing
        /\ Finish(w, "cancelled") \/ Finish(w, "failed") \/ Finish(w, "success")
    BY <1>3 DEF CancelWhileWaiting, RunCancelled, FailRun, Succeed, Executing, InRun
  <2> QED BY <2>1, FinishNotes
<1>4. CASE AbandonAtStop(w) \/ RunBreaks(w) \/ CommitMedia(w) \/ EndRun(w) \/ QualityMismatch(w)
  BY <1>4, IdleStep DEF AbandonAtStop, RunBreaks, CommitMedia, EndRun, QualityMismatch
<1>5. CASE Precheck(w) \/ ProbeOk(w) \/ DownloadOk(w) \/ Progress(w)
  <2>1. /\ wpc[w] \in Executing
        /\ \/ ShowPhase(w, "quality_check") \/ ShowPhase(w, "resolving")
           \/ ShowPhase(w, "finalizing") \/ ShowPhase(w, "downloading")
        /\ UNCHANGED <<status, db, clientVars>>
    BY <1>5 DEF Precheck, ProbeOk, DownloadOk, Progress, Executing, InRun
  <2>2. {"quality_check", "resolving", "finalizing", "downloading"} \subseteq Phases
    BY StatusFacts DEF Working
  <2> QED BY <2>1, <2>2, ShowPhaseNotes
<1> QED BY <1>1, <1>2, <1>3, <1>4, <1>5 DEF WorkerStep, Run

LEMMA ClientAppends ==
  ASSUME IInv, StoreInv, NEW c \in Clients, ClientStep(c)
  PROVE  Appends
<1>1. ASSUME NEW fresh \in Batches, NEW dups \in Batches, NEW strict \in BOOLEAN,
             Enqueue(c, fresh, dups, strict)
      PROVE  Appends
  BY <1>1, EnqueueAppends
<1>2. ASSUME NEW t \in Tasks, Delete(c, t) PROVE Appends
  BY <1>2, DeleteNotes
<1>3. CASE StopQueued(c) \/ StopRunning(c) \/ Retry(c)
  BY <1>3, CallNotes
<1>4. CASE PurgeRow(c)
  BY <1>4, PurgeNotes
<1>5. CASE \/ \E t \in Tasks, op \in Intents : RequestStop(c, op, t)
           \/ \E t \in Tasks : RequestRetry(c, t)
           \/ StopTooLate(c) \/ Recheck(c) \/ StopAgain(c) \/ RefuseRetry(c)
           \/ RetryCleanup(c) \/ EndRequest(c)
  <2>1. UNCHANGED <<status, phase, notifs, owesFlush, db>>
    BY <1>5 DEF RequestStop, RequestRetry, StopTooLate, Recheck, StopAgain, RefuseRetry,
                RetryCleanup, EndRequest, taskVars, storeVars
  <2> QED BY <1>5, <2>1, QuietStep
<1> QED BY <1>1, <1>2, <1>3, <1>4, <1>5 DEF ClientStep

-----------------------------------------------------------------------------
(* Flushes and restarts.                                                   *)

\* What saving one notification does to the rows.
LEMMA PersistEffect ==
  ASSUME NEW n \in Notes, db \in [Tasks -> Rows], Persist(n)
  PROVE  /\ \A t \in Tasks : t # n.task => db'[t] = db[t]
         /\ \/ db'[n.task].status = n.status /\ db'[n.task].phase = n.phase
            \/ n.status = "running" /\ db[n.task].status = "running" /\ db' = db
            \/ n.task \in LossyTasks /\ db' = db
<1>1. n.task \in Tasks
  BY DEF Notes
<1>2. CASE db' = [db EXCEPT ![n.task] = [status |-> n.status, phase |-> n.phase]]
  BY <1>1, <1>2
<1>3. CASE n.status = "running" /\ db[n.task].status = "running" /\ UNCHANGED db
  BY <1>3
<1>4. CASE n.task \in LossyTasks /\ UNCHANGED db
  BY <1>4
<1> QED BY <1>2, <1>3, <1>4 DEF Persist

LEMMA FlushOneStore ==
  ASSUME IInv, StoreInv, FlushOne
  PROVE  StoreInv' /\ (RowsInv => RowsInv')
<1> DEFINE n == Head(notifs)
<1>1. /\ notifs \in Seq(Notes) /\ notifs # <<>> /\ owesFlush # {} /\ db \in [Tasks -> Rows]
      /\ Persist(n) /\ notifs' = Tail(notifs)
      /\ UNCHANGED <<status, phase, owesFlush, cpc, cop, ctask>>
  BY DEF IInv, TypeOK, StoreTyped, FlushOne, taskVars, clientVars
<1>2. /\ n = notifs[1] /\ n \in Notes /\ n.task \in Tasks
      /\ Len(notifs) \in Nat /\ Len(notifs) >= 1 /\ Len(notifs') = Len(notifs) - 1
      /\ \A i \in 1 .. Len(notifs') : notifs'[i] = notifs[i + 1]
  <2>1. n \in Notes
    BY <1>1
  <2> QED BY <1>1, <2>1 DEF Notes
<1> HIDE DEF n
<1>3. /\ \A t \in Tasks : t # n.task => db'[t] = db[t]
      /\ \/ db'[n.task].status = n.status /\ db'[n.task].phase = n.phase
         \/ n.status = "running" /\ db[n.task].status = "running" /\ db' = db
         \/ n.task \in LossyTasks /\ db' = db
  <2>1. ASSUME NEW m \in Notes, Persist(m)
        PROVE  /\ \A t \in Tasks : t # m.task => db'[t] = db[t]
               /\ \/ db'[m.task].status = m.status /\ db'[m.task].phase = m.phase
                  \/ m.status = "running" /\ db[m.task].status = "running" /\ db' = db
                  \/ m.task \in LossyTasks /\ db' = db
    BY <1>1, <2>1, PersistEffect
  <2> QED BY <1>1, <1>2, <2>1
<1>4. \A t : NoNote(notifs', t) => NoNote(notifs, t) \/ n.task = t
  <2>1. \A i \in 1 .. Len(notifs) : i = 1 \/ (i - 1 \in 1 .. Len(notifs') /\ notifs'[i - 1] = notifs[i])
    BY <1>2
  <2> QED BY <1>2, <2>1 DEF NoNote
<1>5. n.status # "new" /\ NoneNew(notifs')
  BY <1>2 DEF StoreInv, NoneNew
<1>6. StoreInv'
  <2>1. NoStrandedSnapshot'
    BY <1>1 DEF NoStrandedSnapshot
  <2>2. ASSUME NEW c \in Clients, cop'[c] = "enqueue", cpc'[c] = "reply"
        PROVE  /\ ctask'[c] \in Tasks
               /\ \/ db'[ctask'[c]].status # "new"
                  \/ ctask'[c] \in LossyTasks
                  \/ c \in owesFlush' /\ ~NoNote(notifs', ctask'[c])
    <3> DEFINE x == ctask[c]
    <3>1. /\ x \in Tasks /\ ctask'[c] = x
          /\ \/ db[x].status # "new"
             \/ x \in LossyTasks
             \/ c \in owesFlush /\ ~NoNote(notifs, x)
      BY <1>1, <2>2 DEF StoreInv
    <3> HIDE DEF x
    <3>2. CASE n.task = x
      BY <1>3, <1>5, <3>1, <3>2
    <3>3. CASE n.task # x
      BY <1>1, <1>3, <1>4, <3>1, <3>3
    <3> QED BY <3>2, <3>3
  <2>3. \A c \in Clients : /\ cpc'[c] \in Deciding => cop'[c] # "enqueue"
                           /\ cpc'[c] = "purge" => status'[ctask'[c]] = "dropped"
    BY <1>1 DEF StoreInv
  <2> QED BY <1>5, <2>1, <2>2, <2>3 DEF StoreInv, NoneNew, NoNote
<1>7. ASSUME RowsInv, NEW t \in Tasks \ LossyTasks PROVE Told(t)'
  <2> DEFINE Now(s, p) == \/ s \in Unknown /\ status'[t] \in Unknown
                          \/ s = status'[t] /\ (s # "running" => p = phase'[t])
  <2>0. \A s, p : Tells(s, p, t) <=> Now(s, p)
    BY <1>1 DEF Tells
  <2>1. Told(t)
    BY <1>7 DEF RowsInv
  <2>2. ASSUME NEW i \in 1 .. Len(notifs'), LastNote(notifs', t, i)
        PROVE  Now(notifs'[i].status, notifs'[i].phase)
    <3>1. i + 1 \in 1 .. Len(notifs) /\ notifs[i + 1] = notifs'[i]
      BY <1>2
    <3>2. \A j \in 1 .. Len(notifs) :
            j > i + 1 => j - 1 \in 1 .. Len(notifs') /\ j - 1 > i /\ notifs'[j - 1] = notifs[j]
      BY <1>2
    <3>3. LastNote(notifs, t, i + 1)
      BY <2>2, <3>1, <3>2 DEF LastNote
    <3> QED BY <2>0, <2>1, <3>1, <3>3 DEF Told
  <2>3. ASSUME NoNote(notifs', t) PROVE Now(db'[t].status, db'[t].phase)
    <3>1. CASE n.task = t
      <4>1. \A j \in 1 .. Len(notifs) :
              j > 1 => j - 1 \in 1 .. Len(notifs') /\ notifs'[j - 1] = notifs[j]
        BY <1>2
      <4>2. LastNote(notifs, t, 1)
        BY <1>2, <2>3, <3>1, <4>1 DEF LastNote, NoNote
      <4>3. Now(n.status, n.phase)
        BY <1>2, <2>0, <2>1, <4>2 DEF Told
      <4> QED BY <1>3, <1>7, <3>1, <4>3, StatusFacts
    <3>2. CASE n.task # t
      BY <1>3, <1>4, <2>0, <2>1, <2>3, <3>2 DEF Told
    <3> QED BY <3>1, <3>2
  <2> QED BY <2>2, <2>3 DEF Told, Tells, NoNote, LastNote
<1> QED BY <1>6, <1>7 DEF RowsInv

LEMMA FlushDoneStore ==
  ASSUME IInv, StoreInv, NEW a \in Threads, FlushDone(a)
  PROVE  StoreInv' /\ (RowsInv => RowsInv')
<1>1. /\ notifs = <<>> /\ UNCHANGED <<status, phase, notifs, db, cpc, cop, ctask>>
  BY DEF FlushDone, Flushed, taskVars, clientVars
<1>2. \A t : NoNote(notifs, t)
  BY <1>1 DEF NoNote
<1>3. StoreInv'
  BY <1>1, <1>2 DEF StoreInv, NoStrandedSnapshot, NoneNew, NoNote
<1>4. RowsInv => RowsInv'
  BY <1>1 DEF RowsInv, Told, Tells, NoNote, LastNote
<1> QED BY <1>3, <1>4

LEMMA RestartStore ==
  ASSUME IInv, Restart
  PROVE  StoreInv' /\ RowsInv'
<1>1. /\ notifs' = <<>> /\ \A c \in Clients : cpc'[c] = "idle"
  BY DEF Restart
<1>2. StoreInv'
  BY <1>1 DEF StoreInv, NoStrandedSnapshot, NoneNew, Deciding
<1>3. ASSUME NEW t \in Tasks \ LossyTasks PROVE Told(t)'
  <2> DEFINE row(u) == Restored(db[u])
             again  == {u \in Tasks : row(u).status = "queued"}
             ended  == {u \in Tasks : row(u).status \in Terminal}
             stat   == [u \in Tasks |-> IF status[u] # "new" /\ row(u).status = "new"
                                        THEN "dropped" ELSE row(u).status]
             phas   == [u \in Tasks |-> row(u).phase]
  <2>1. PICK p \in SetToSeqs(again), h \in SetToSeqs(ended) :
          LET gone == ToSet(Trimmed(Len(p), h))
          IN /\ status' = DropStatus(stat, gone)
             /\ phase' = DropPhase(phas, gone)
             /\ \E unsaved \in SUBSET LossyTasks :
                  db' = [u \in Tasks |->
                           IF u \in unsaved THEN db[u]
                           ELSE IF u \in gone THEN [status |-> "dropped", phase |-> "none"]
                           ELSE row(u)]
    BY DEF Restart
  <2> DEFINE gone == ToSet(Trimmed(Len(p), h))
  <2>2. PICK unsaved \in SUBSET LossyTasks :
          db' = [u \in Tasks |->
                   IF u \in unsaved THEN db[u]
                   ELSE IF u \in gone THEN [status |-> "dropped", phase |-> "none"]
                   ELSE row(u)]
    BY <2>1
  <2> HIDE DEF row, gone
  <2>3. /\ status'[t] = IF t \in gone THEN "dropped"
                        ELSE IF status[t] # "new" /\ row(t).status = "new" THEN "dropped"
                        ELSE row(t).status
        /\ phase'[t] = IF t \in gone THEN "none" ELSE row(t).phase
        /\ db'[t] = IF t \in gone THEN [status |-> "dropped", phase |-> "none"] ELSE row(t)
    BY <2>1, <2>2 DEF DropStatus, DropPhase, gone
  <2>4. \/ db'[t].status \in Unknown /\ status'[t] \in Unknown
        \/ db'[t].status = status'[t] /\ (db'[t].status # "running" => db'[t].phase = phase'[t])
    BY <2>3, StatusFacts
  <2>5. \A i \in 1 .. Len(notifs') : FALSE
    BY <1>1
  <2> QED BY <2>4, <2>5 DEF Told, Tells, NoNote, LastNote
<1> QED BY <1>2, <1>3 DEF RowsInv

LEMMA StoreStep ==
  ASSUME IInv, StoreInv, [Next]_vars
  PROVE  StoreInv' /\ (RowsInv /\ FewActive => RowsInv')
<1>1. ASSUME Appends PROVE StoreInv' /\ (RowsInv /\ FewActive => RowsInv')
  <2>1. PICK ns : AppendsNotes(ns) /\ ClientsFollow(ns)
    BY <1>1 DEF Appends
  <2> QED BY <2>1, AppendKeeps
<1>2. ASSUME NEW c \in Clients, ClientStep(c) PROVE Appends
  BY <1>2, ClientAppends
<1>3. ASSUME NEW w \in Workers, WorkerStep(w) PROVE Appends
  BY <1>3, WorkerAppends
<1>4. CASE Flush
  BY <1>4, FlushOneStore, FlushDoneStore DEF Flush
<1>5. CASE Restart
  BY <1>5, RestartStore
<1>6. CASE Stop
  BY <1>1, <1>6, IdleStep DEF Stop, storeVars
<1>7. CASE Rest \/ UNCHANGED vars
  BY <1>1, <1>7, IdleStep DEF Rest, vars, taskVars, storeVars, clientVars
<1> QED BY <1>1, <1>2, <1>3, <1>4, <1>5, <1>6, <1>7 DEF Next, Operate

LEMMA StoreInit == Init => StoreInv /\ RowsInv
BY StatusFacts DEF Init, StoreInv, RowsInv, Told, Tells, NoNote, LastNote, NoneNew, Deciding,
                   NoStrandedSnapshot

LEMMA StoreInvariance == Spec => []StoreInv
<1>1. IInv /\ StoreInv /\ [Next]_vars => StoreInv'
  BY StoreStep
<1> QED BY <1>1, Invariance, StoreInit, PTL DEF Spec

\* No snapshot waits in memory without a thread that is on its way to save it, over every
\* interleaving of flushes, requests, workers and restarts.
THEOREM NoneStranded == Spec => []NoStrandedSnapshot
<1>1. StoreInv => NoStrandedSnapshot BY DEF StoreInv
<1> QED BY <1>1, StoreInvariance, PTL

\* When the store fails no save, an answered creation is on disk, whichever thread of those
\* flushing saved it.  (A failed save of the first snapshot is swallowed by the callback.)
THEOREM AnswersDurable ==
  ASSUME LossyTasks = {}
  PROVE  Spec => []AnsweredIsDurable
<1>1. StoreInv => AnsweredIsDurable
  BY DEF StoreInv, AnsweredIsDurable, Free
<1> QED BY <1>1, StoreInvariance, PTL

\* As long as the active tasks alone never fill the memory, the last word the rows or the
\* waiting snapshots have on a task that can be saved is true: the snapshots that two
\* threads append and a third saves are saved in the order of the changes.
THEOREM RowsTrue == Spec /\ []FewActive => []RowsCatchUp
<1>1. IInv /\ StoreInv /\ RowsInv /\ FewActive /\ [Next]_vars => RowsInv'
  BY StoreStep
<1>2. RowsInv => RowsCatchUp
  <2>1. ASSUME RowsInv, notifs = <<>>, NEW t \in Tasks \ LossyTasks
        PROVE  \/ status[t] \in Unknown /\ db[t].status \in Unknown
               \/ /\ db[t].status = status[t]
                  /\ status[t] # "running" => db[t].phase = phase[t]
    <3>1. NoNote(notifs, t)
      BY <2>1 DEF NoNote
    <3> QED BY <2>1, <3>1 DEF RowsInv, Told, Tells
  <2> QED BY <2>1 DEF RowsCatchUp
<1> QED BY <1>1, <1>2, Invariance, StoreInvariance, StoreInit, PTL DEF Spec

-----------------------------------------------------------------------------
(* Who becomes active, and what the memory holds.                          *)

LEMMA KeptFits ==
  ASSUME NEW n \in Nat, n <= MaxHistory, NEW h \in Seq(Tasks)
  PROVE  n + Len(Kept(n, h)) <= MaxHistory
<1> DEFINE k == TrimCount(n, h)
<1>1. Len(h) \in Nat
  BY LenProperties
<1>2. k \in 0 .. Len(h) /\ n + (Len(h) - k) <= MaxHistory
  BY <1>1, LimitsAssumption DEF TrimCount
<1> HIDE DEF k
<1>3. Len(SubSeq(h, k + 1, Len(h))) = Len(h) - k
  BY <1>1, <1>2, SplitOnce
<1> QED BY <1>1, <1>2, <1>3 DEF Kept, k

LEMMA SettleMemory ==
  ASSUME IInv, NEW a \in Threads, NEW t \in Tasks, status[t] \in Active,
         NEW s \in Terminal, NEW p \in Final, NEW sig \in SUBSET Tasks,
         Settle(a, t, s, p, sig)
  PROVE  /\ ActiveTasks' = ActiveTasks \ {t}
         /\ FewActive => MemoryBounded'
<1>1. /\ status'[t] \notin Active
      /\ \A u \in Tasks \ {t} : IF status[u] \in Terminal THEN status'[u] \notin Active
                                ELSE status'[u] = status[u]
  <2>1. TypeOK /\ HistoryIsEnded
    BY DEF IInv
  <2> QED BY <2>1, SettleEffect
<1>2. ActiveTasks' = ActiveTasks \ {t}
  BY <1>1, StatusFacts DEF ActiveTasks
<1>3. ASSUME FewActive PROVE MemoryBounded'
  <2> DEFINE n == Cardinality(ActiveTasks \ {t})
             h == Append(Unlisted(t), t)
  <2>1. IsFiniteSet(ActiveTasks) /\ Cardinality(ActiveTasks) \in Nat
    BY ActiveFinite DEF ActiveTasks
  <2>2. n \in Nat /\ n <= MaxHistory
    <3>1. IsFiniteSet(ActiveTasks \ {t}) /\ n <= Cardinality(ActiveTasks)
      BY <2>1, FS_Subset
    <3>2. n \in Nat
      BY <3>1, FS_CardinalityType
    <3> QED BY <1>3, <2>1, <3>1, <3>2, LimitsAssumption DEF FewActive
  <2>3. h \in Seq(Tasks)
    <3>1. Unlisted(t) \in Seq(Tasks)
      BY UnlistedEffect DEF IInv
    <3> HIDE DEF Unlisted
    <3> QED BY <3>1
  <2>4. history' = Kept(n, h)
    BY DEF Settle
  <2> HIDE DEF h
  <2>5. n + Len(history') <= MaxHistory
    <3> HIDE DEF n
    <3> QED BY <2>2, <2>3, <2>4, KeptFits
  <2> QED BY <1>2, <2>5 DEF MemoryBounded
<1> QED BY <1>2, <1>3

LEMMA EnqueueMemory ==
  ASSUME IInv, NEW c \in Clients, NEW fresh \in Batches, NEW dups \in Batches,
         NEW strict \in BOOLEAN, Enqueue(c, fresh, dups, strict)
  PROVE  /\ ActiveTasks' \subseteq ActiveTasks \cup ToSet(fresh)
         /\ \A t, u \in ToSet(fresh) : KeyOf[t] = KeyOf[u] => t = u
         /\ \A t \in ToSet(fresh), u \in ActiveTasks : KeyOf[t] # KeyOf[u]
         /\ Cardinality(ActiveTasks') <= MaxPending
         /\ MemoryBounded'
<1> DEFINE n == Cardinality(ActiveTasks) + Len(fresh)
           h == history \o dups
           gone == ToSet(Trimmed(n, h))
           stat == [t \in Tasks |-> IF t \in ToSet(fresh) THEN "queued"
                                    ELSE IF t \in ToSet(dups) THEN "skipped" ELSE status[t]]
<1>1. /\ Plan(fresh, dups) /\ n <= MaxPending
      /\ status' = DropStatus(stat, gone) /\ history' = Kept(n, h)
  BY DEF Enqueue, Fits
<1>2. fresh \in Seq(Tasks) /\ dups \in Seq(Tasks) /\ history \in Seq(Tasks)
  <2>1. ASSUME NEW b \in Batches PROVE b \in Seq(Tasks)
    <3>1. PICK k \in 0 .. MaxBatch : b \in [1 .. k -> Tasks] BY DEF Batches
    <3>2. k \in Nat OBVIOUS
    <3> QED BY <3>1, <3>2
  <2> QED BY <2>1 DEF IInv, TypeOK, QueueTyped
<1>3. ToSet(fresh) = {fresh[i] : i \in DOMAIN fresh}
  BY DEF ToSet
<1>4. /\ \A t, u \in ToSet(fresh) : KeyOf[t] = KeyOf[u] => t = u
      /\ \A t \in ToSet(fresh), u \in ActiveTasks : KeyOf[t] # KeyOf[u]
  BY <1>1, <1>3 DEF Plan, ActiveKeys
<1>5. ActiveTasks' \subseteq ActiveTasks \cup ToSet(fresh)
  <2>1. ASSUME NEW t \in Tasks, status'[t] \in Active PROVE t \in ActiveTasks \cup ToSet(fresh)
    <3> HIDE DEF gone
    <3>1. status'[t] = IF t \in gone THEN "dropped" ELSE stat[t]
      BY <1>1 DEF DropStatus
    <3>2. stat[t] \in Active
      BY <2>1, <3>1, StatusFacts
    <3> QED BY <3>2, StatusFacts DEF ActiveTasks
  <2> QED BY <2>1 DEF ActiveTasks
<1>6. /\ IsFiniteSet(ActiveTasks) /\ Cardinality(ActiveTasks) \in Nat
      /\ IsFiniteSet(ActiveTasks') /\ Cardinality(ActiveTasks') \in Nat
  BY ActiveFinite DEF ActiveTasks
<1>7. Cardinality(ActiveTasks') <= n /\ n \in Nat
  <2>1. /\ IsFiniteSet(ToSet(fresh)) /\ Cardinality(ToSet(fresh)) \in Nat
        /\ Cardinality(ToSet(fresh)) <= Len(fresh) /\ Len(fresh) \in Nat
    BY <1>2, ListedCount, LenProperties
  <2> DEFINE A == ActiveTasks
             F == ToSet(fresh)
  <2>2. IsFiniteSet(A) /\ IsFiniteSet(F)
    BY <1>6, <2>1
  <2> HIDE DEF A, F
  <2>3. /\ IsFiniteSet(A \cup F) /\ IsFiniteSet(A \cap F)
        /\ Cardinality(A \cup F) = Cardinality(A) + Cardinality(F) - Cardinality(A \cap F)
    BY <2>2, FS_Union, FS_Subset
  <2>4. Cardinality(A \cup F) \in Nat /\ Cardinality(A \cap F) \in Nat
    BY <2>3, FS_CardinalityType
  <2>5. ActiveTasks' \in SUBSET (A \cup F)
    BY <1>5 DEF A, F
  <2>6. Cardinality(ActiveTasks') <= Cardinality(A \cup F)
    BY <2>3, <2>5, FS_Subset
  <2>7. Cardinality(A) \in Nat /\ Cardinality(F) \in Nat /\ Cardinality(F) <= Len(fresh)
        /\ n = Cardinality(A) + Len(fresh)
    BY <1>6, <2>1 DEF A, F
  <2> QED BY <1>6, <2>1, <2>3, <2>4, <2>6, <2>7
<1>8. h \in Seq(Tasks)
  BY <1>2
<1> HIDE DEF n, h
<1>9. n <= MaxHistory
  BY <1>1, <1>7, LimitsAssumption
<1>10. n + Len(history') <= MaxHistory
  BY <1>1, <1>7, <1>8, <1>9, KeptFits
<1>11. MemoryBounded'
  <2>1. Len(history') \in Nat
    <3>1. Kept(n, h) \in Seq(Tasks)
      BY <1>7, <1>8, TrimOnce
    <3> QED BY <1>1, <3>1, LenProperties
  <2> QED BY <1>6, <1>7, <1>10, <2>1, LimitsAssumption DEF MemoryBounded
<1> QED BY <1>1, <1>4, <1>5, <1>6, <1>7, <1>11, LimitsAssumption

LEMMA RetryMemory ==
  ASSUME IInv, NEW c \in Clients, Retry(c)
  PROVE  /\ ctask[c] \in Tasks
         /\ ActiveTasks' = ActiveTasks \cup {ctask[c]}
         /\ \A u \in ActiveTasks \ {ctask[c]} : KeyOf[u] # KeyOf[ctask[c]]
         /\ Cardinality(ActiveTasks') <= MaxPending
         /\ MemoryBounded => MemoryBounded'
<1> DEFINE t == ctask[c]
<1>1. /\ t \in Tasks /\ status[t] \in Terminal /\ history \in Seq(Tasks) /\ IsInjective(history)
      /\ status \in [Tasks -> Statuses]
      /\ \A u \in ActiveTasks \ {t} : KeyOf[u] # KeyOf[t]
      /\ Cardinality(ActiveTasks) < MaxPending
      /\ status' = [status EXCEPT ![t] = "queued"] /\ history' = Unlisted(t)
  BY RequestFields DEF IInv, TypeOK, QueueTyped, HistoryIsEnded, Retry, Retryable
<1>2. t \in ToSet(history) /\ t \notin ActiveTasks
  BY <1>1, StatusFacts DEF IInv, HistoryIsEnded, ActiveTasks
<1> HIDE DEF t
<1>3. ActiveTasks' = ActiveTasks \cup {t}
  BY <1>1, StatusFacts DEF ActiveTasks
<1>4. IsFiniteSet(ActiveTasks) /\ Cardinality(ActiveTasks) \in Nat
  BY ActiveFinite DEF ActiveTasks
<1>5. Cardinality(ActiveTasks') = Cardinality(ActiveTasks) + 1
  BY <1>2, <1>3, <1>4, FS_AddElement
<1>6. Len(history') = Len(history) - 1 /\ Len(history) \in Nat
  BY <1>1, <1>2, RemoveOnce, LenProperties DEF Unlisted
<1>7. MemoryBounded => MemoryBounded'
  BY <1>4, <1>5, <1>6, LimitsAssumption DEF MemoryBounded
<1> QED BY <1>1, <1>3, <1>4, <1>5, <1>7, LimitsAssumption DEF t

\* Any other step of the running process makes no task active and forgets at least what
\* it remembers.
Shrinks ==
  /\ ActiveTasks' \subseteq ActiveTasks
  /\ FewActive /\ MemoryBounded => MemoryBounded'

LEMMA SameShrinks ==
  ASSUME IInv, ActiveTasks' = ActiveTasks, UNCHANGED history
  PROVE  Shrinks
BY DEF Shrinks, MemoryBounded

LEMMA FinishShrinks ==
  ASSUME IInv, NEW w \in Workers, wpc[w] \in Executing,
         NEW st \in {"success", "failed", "cancelled"}, Finish(w, st)
  PROVE  Shrinks
<1> DEFINE t == wtask[w]
           p == IF st = "success" THEN "completed"
                ELSE IF st = "cancelled" /\ t \in pauseReq THEN "paused" ELSE st
<1>1. /\ t \in Tasks /\ status[t] = "running" /\ w \in Threads /\ signalled \in SUBSET Tasks
  BY DEF IInv, TypeOK, QueueTyped, ThreadsPlaced, OneWorkerPerTask, Threads, Executing, InRun
<1>2. st \in Terminal /\ p \in Final BY StatusFacts DEF Final
<1>3. Settle(w, t, st, p, signalled)
  BY DEF Finish
<1> HIDE DEF t, p
<1>4. status[t] \in Active BY <1>1, StatusFacts
<1>5. ActiveTasks' = ActiveTasks \ {t} /\ (FewActive => MemoryBounded')
  BY <1>1, <1>2, <1>3, <1>4, SettleMemory
<1> QED BY <1>5 DEF Shrinks

LEMMA WorkerShrinks ==
  ASSUME IInv, NEW w \in Workers, WorkerStep(w)
  PROVE  Shrinks
<1> USE DEF taskVars, queueVars, At, Goto
<1>1. CASE PopTask(w)
  <2> DEFINE t == Head(pending)
  <2>1. pending \in Seq(Tasks) /\ pending # <<>> /\ status \in [Tasks -> Statuses] /\ UNCHANGED history
    BY <1>1 DEF PopTask, IInv, TypeOK, QueueTyped
  <2>2. \/ UNCHANGED status
        \/ status[t] = "queued" /\ status' = [status EXCEPT ![t] = "running"]
    BY <1>1 DEF PopTask
  <2>3. t \in Tasks
    BY <2>1, TailOnce
  <2> HIDE DEF t
  <2>4. ActiveTasks' = ActiveTasks
    BY <2>1, <2>2, <2>3, StatusFacts DEF ActiveTasks
  <2> QED BY <2>1, <2>4, SameShrinks
<1>2. CASE UNCHANGED <<status, history>>
  BY <1>2, SameShrinks DEF ActiveTasks
<1>3. CASE AcquireSlot(w)
  <2>1. wpc[w] \in Executing
    BY <1>3 DEF AcquireSlot, Executing
  <2>2. Finish(w, "cancelled") \/ UNCHANGED <<status, history>>
    BY <1>3 DEF AcquireSlot
  <2> QED BY <1>2, <2>1, <2>2, FinishShrinks
<1>4. CASE CancelWhileWaiting(w) \/ RunCancelled(w) \/ FailRun(w) \/ Succeed(w)
  <2>1. /\ wpc[w] \in Executing
        /\ Finish(w, "cancelled") \/ Finish(w, "failed") \/ Finish(w, "success")
    BY <1>4 DEF CancelWhileWaiting, RunCancelled, FailRun, Succeed, Executing, InRun
  <2> QED BY <2>1, FinishShrinks
<1>5. CASE AbandonAtStop(w) \/ RunBreaks(w) \/ CommitMedia(w) \/ EndRun(w) \/ QualityMismatch(w)
  BY <1>2, <1>5 DEF AbandonAtStop, RunBreaks, CommitMedia, EndRun, QualityMismatch
<1>6. CASE Precheck(w) \/ ProbeOk(w) \/ DownloadOk(w) \/ Progress(w)
  BY <1>2, <1>6 DEF Precheck, ProbeOk, DownloadOk, Progress
<1> QED BY <1>1, <1>3, <1>4, <1>5, <1>6 DEF WorkerStep, Run

LEMMA ClientShrinks ==
  ASSUME IInv, NEW c \in Clients, ClientStep(c)
  PROVE  \/ \E fresh, dups \in Batches, strict \in BOOLEAN : Enqueue(c, fresh, dups, strict)
         \/ Retry(c)
         \/ Shrinks
<1>1. CASE UNCHANGED <<status, history>>
  BY <1>1, SameShrinks DEF ActiveTasks
<1>2. ASSUME NEW t \in Tasks, Delete(c, t) PROVE Shrinks
  <2>1. /\ status[t] \in Terminal /\ status' = DropStatus(status, {t})
        /\ history' = Unlisted(t) /\ status \in [Tasks -> Statuses]
    BY <1>2 DEF Delete, IInv, TypeOK, QueueTyped
  <2>2. ActiveTasks' = ActiveTasks
    BY <2>1, StatusFacts DEF ActiveTasks, DropStatus
  <2>3. Len(history') <= Len(history) /\ Len(history) \in Nat /\ Len(history') \in Nat
    BY <2>1, RemoveOnce, LenProperties DEF Unlisted, IInv, TypeOK, QueueTyped, HistoryIsEnded
  <2>4. Cardinality(ActiveTasks) \in Nat
    BY ActiveFinite DEF ActiveTasks
  <2> QED BY <2>2, <2>3, <2>4, LimitsAssumption DEF Shrinks, MemoryBounded
<1>3. CASE StopQueued(c)
  <2> DEFINE t == ctask[c]
             p == IF cop[c] = "pause" THEN "paused" ELSE "cancelled"
             sig == signalled \cup {t}
  <2>1. cpc[c] = "call" /\ status[t] = "queued" /\ Settle(c, t, "cancelled", p, sig)
    BY <1>3 DEF StopQueued
  <2>2. c \in Threads /\ t \in Tasks /\ sig \in SUBSET Tasks
    BY <2>1, RequestFields DEF IInv, TypeOK, QueueTyped
  <2>3. p \in Final /\ "cancelled" \in Terminal /\ status[t] \in Active
    BY <2>1, StatusFacts
  <2> HIDE DEF t, p, sig
  <2>4. ActiveTasks' = ActiveTasks \ {t} /\ (FewActive => MemoryBounded')
    BY <2>1, <2>2, <2>3, SettleMemory
  <2> QED BY <2>4 DEF Shrinks
<1>4. CASE \/ \E t \in Tasks, op \in Intents : RequestStop(c, op, t)
           \/ \E t \in Tasks : RequestRetry(c, t)
           \/ StopTooLate(c) \/ Recheck(c) \/ StopAgain(c) \/ RefuseRetry(c) \/ StopRunning(c)
           \/ RetryCleanup(c) \/ PurgeRow(c) \/ EndRequest(c)
  BY <1>1, <1>4 DEF RequestStop, RequestRetry, StopTooLate, Recheck, StopAgain, RefuseRetry,
              StopRunning, RetryCleanup, PurgeRow, EndRequest, taskVars, queueVars
<1> QED BY <1>2, <1>3, <1>4 DEF ClientStep

LEMMA OperateStep ==
  ASSUME IInv, Operate \/ Stop \/ UNCHANGED vars
  PROVE  \/ \E c \in Clients, fresh, dups \in Batches, strict \in BOOLEAN :
              Enqueue(c, fresh, dups, strict)
         \/ \E c \in Clients : Retry(c)
         \/ Shrinks
<1>1. CASE Flush \/ Stop \/ Rest \/ UNCHANGED vars
  <2>1. UNCHANGED <<status, history>>
    BY <1>1 DEF Flush, FlushOne, FlushDone, Stop, Rest, vars, taskVars, queueVars
  <2> QED BY <2>1, SameShrinks DEF ActiveTasks
<1> QED BY <1>1, ClientShrinks, WorkerShrinks DEF Operate

\* A restart makes active again only what its row shows active.
LEMMA RestartActive ==
  ASSUME IInv, Restart
  PROVE  /\ restarts' # restarts
         /\ \A t \in ActiveTasks' : db[t].status \in Active
<1> DEFINE row(u) == Restored(db[u])
           again  == {u \in Tasks : row(u).status = "queued"}
           ended  == {u \in Tasks : row(u).status \in Terminal}
           stat   == [u \in Tasks |-> IF status[u] # "new" /\ row(u).status = "new"
                                      THEN "dropped" ELSE row(u).status]
<1>1. PICK p \in SetToSeqs(again), h \in SetToSeqs(ended) :
        status' = DropStatus(stat, ToSet(Trimmed(Len(p), h)))
  BY DEF Restart
<1> DEFINE gone == ToSet(Trimmed(Len(p), h))
<1> HIDE DEF row, gone
<1>2. ASSUME NEW t \in Tasks, status'[t] \in Active PROVE db[t].status \in Active
  <2>1. status'[t] = IF t \in gone THEN "dropped" ELSE stat[t]
    BY <1>1 DEF DropStatus, gone
  <2>2. row(t).status \in Active
    BY <1>2, <2>1, StatusFacts
  <2> QED BY <2>2, StatusFacts DEF row, Restored
<1>3. restarts' = restarts + 1 /\ restarts \in Nat
  BY DEF Restart, IInv, TypeOK, ClientsTyped
<1> QED BY <1>2, <1>3 DEF ActiveTasks

\* No interleaving of batches, stops, ends and retries makes two tasks of one key active:
\* the checks of enqueue and retry are made where their tasks are published.  A restart may,
\* when a row tells of an activity that is over.
THEOREM OnePerKey == Spec => OneActivePerKey
<1> DEFINE Step ==
      \A t, u \in Tasks : t # u /\ KeyOf[t] = KeyOf[u] /\ {t, u} \subseteq ActiveTasks' =>
         \/ {t, u} \subseteq ActiveTasks
         \/ restarts' # restarts /\ \E x \in {t, u} \ ActiveTasks : db[x].status \in Active
<1>1. ASSUME NEW c \in Clients, NEW fresh \in Batches, NEW dups \in Batches,
             NEW strict \in BOOLEAN, IInv, Enqueue(c, fresh, dups, strict)
      PROVE  Step
  <2>1. /\ ActiveTasks' \subseteq ActiveTasks \cup ToSet(fresh)
        /\ \A t, u \in ToSet(fresh) : KeyOf[t] = KeyOf[u] => t = u
        /\ \A t \in ToSet(fresh), u \in ActiveTasks : KeyOf[t] # KeyOf[u]
    BY <1>1, EnqueueMemory
  <2> QED BY <2>1
<1>2. ASSUME NEW c \in Clients, IInv, Retry(c) PROVE Step
  <2>1. /\ ActiveTasks' = ActiveTasks \cup {ctask[c]}
        /\ \A u \in ActiveTasks \ {ctask[c]} : KeyOf[u] # KeyOf[ctask[c]]
    BY <1>2, RetryMemory
  <2> QED BY <2>1
<1>3. ASSUME Shrinks PROVE Step
  BY <1>3 DEF Shrinks
<1>4. ASSUME IInv, Restart PROVE Step
  BY <1>4, RestartActive
<1>5. IInv /\ [Next]_vars => Step
  BY <1>1, <1>2, <1>3, <1>4, OperateStep DEF Next
<1> QED BY <1>5, Invariance, PTL DEF Spec, OneActivePerKey

-----------------------------------------------------------------------------
(* While the process is up.                                                *)

\* The active tasks respect max_pending, and all that is remembered max_history.
UpInv == MemoryBounded /\ Cardinality(ActiveTasks) <= MaxPending

LEMMA UpFits == UpInv => FewActive
<1>1. Cardinality(ActiveTasks) \in Nat
  BY ActiveFinite DEF ActiveTasks
<1> QED BY <1>1, LimitsAssumption DEF UpInv, FewActive

LEMMA UpStep ==
  ASSUME IInv, UpInv, [Operate \/ Stop]_vars
  PROVE  UpInv'
<1>1. ASSUME NEW c \in Clients, NEW fresh \in Batches, NEW dups \in Batches,
             NEW strict \in BOOLEAN, Enqueue(c, fresh, dups, strict)
      PROVE  UpInv'
  BY <1>1, EnqueueMemory DEF UpInv
<1>2. ASSUME NEW c \in Clients, Retry(c) PROVE UpInv'
  BY <1>2, RetryMemory DEF UpInv
<1>3. ASSUME Shrinks PROVE UpInv'
  <2>1. IsFiniteSet(ActiveTasks) /\ Cardinality(ActiveTasks) \in Nat
    BY ActiveFinite DEF ActiveTasks
  <2>2. ActiveTasks' \in SUBSET ActiveTasks
    BY <1>3 DEF Shrinks
  <2>3. IsFiniteSet(ActiveTasks') /\ Cardinality(ActiveTasks') <= Cardinality(ActiveTasks)
    BY <2>1, <2>2, FS_Subset
  <2>4. Cardinality(ActiveTasks') \in Nat
    BY <2>3, FS_CardinalityType
  <2> QED BY <1>3, <2>1, <2>3, <2>4, UpFits, LimitsAssumption DEF UpInv, Shrinks
<1> QED BY <1>1, <1>2, <1>3, OperateStep

LEMMA UpInit == Init => UpInv
<1> SUFFICES ASSUME Init PROVE UpInv
  OBVIOUS
<1>1. ActiveTasks = {} /\ history = <<>>
  BY StatusFacts DEF Init, ActiveTasks
<1>2. Cardinality(ActiveTasks) = 0
  BY <1>1, FS_EmptySet
<1>3. Len(history) = 0
  BY <1>1
<1> QED BY <1>2, <1>3, LimitsAssumption DEF UpInv, MemoryBounded

LEMMA UpIsSpec == SpecUp => Spec
<1>1. [Operate \/ Stop]_vars => [Next]_vars
  BY DEF Next
<1> QED BY <1>1, PTL DEF SpecUp, Spec

LEMMA UpInvariance == SpecUp => []UpInv
BY UpIsSpec, Invariance, UpInit, UpStep, PTL DEF SpecUp

\* While the process is up, memory holds at most max_history tasks, whatever batches, ends
\* and retries follow one another.
THEOREM MemoryFits == SpecUp => []MemoryBounded
<1>1. UpInv => MemoryBounded BY DEF UpInv
<1> QED BY <1>1, UpInvariance, PTL

\* And the rows that can be saved catch up with memory, with no hypothesis left.
THEOREM RowsTrueWhileUp == SpecUp => []RowsCatchUp
BY UpIsSpec, UpInvariance, UpFits, RowsTrue, PTL

-----------------------------------------------------------------------------
(* The queue implements the public life of its tasks.                      *)

\* The phase of an active task fits its status.
PhasesFit ==
  \A t \in Tasks : /\ status[t] = "queued" => phase[t] = "queued"
                   /\ status[t] = "running" => phase[t] \in Working \cup Stopping

LEMMA SettleBecomes ==
  ASSUME IInv, NEW a \in Threads, NEW t \in Tasks, status[t] \in Active,
         NEW s \in Terminal, NEW p \in Final, NEW sig \in SUBSET Tasks,
         Settle(a, t, s, p, sig), FewActive
  PROVE  Life!Becomes(t, s, p)
<1> DEFINE n == Cardinality(ActiveTasks \ {t})
           h == Append(Unlisted(t), t)
           gone == ToSet(Trimmed(n, h))
           st == [status EXCEPT ![t] = s]
           ph == [phase EXCEPT ![t] = p]
<1>1. n \in Nat /\ n < MaxHistory
  <2>1. IsFiniteSet(ActiveTasks) /\ t \in ActiveTasks
    BY ActiveFinite DEF ActiveTasks
  <2>2. Cardinality(ActiveTasks) \in Nat /\ n = Cardinality(ActiveTasks) - 1 /\ n \in Nat
    <3>1. IsFiniteSet(ActiveTasks \ {t})
      BY <2>1, FS_Subset
    <3>2. n \in Nat
      BY <3>1, FS_CardinalityType
    <3> QED BY <2>1, <3>2, FS_RemoveElement, FS_CardinalityType
  <2> QED BY <2>2, LimitsAssumption DEF FewActive
<1>2. /\ Unlisted(t) \in Seq(Tasks) /\ h \in Seq(Tasks) /\ IsInjective(h)
      /\ ToSet(h) = ToSet(history) \cup {t}
  <2>1. /\ Unlisted(t) \in Seq(Tasks) /\ IsInjective(Unlisted(t))
        /\ ToSet(Unlisted(t)) = ToSet(history) \ {t}
    BY UnlistedEffect DEF IInv
  <2> HIDE DEF Unlisted
  <2> QED BY <2>1, AppendOnce
<1>3. t \notin gone
  BY <1>1, <1>2, JustEndedKept
<1> HIDE DEF n, h
<1>4. \A u \in gone : u \in Tasks \ {t} /\ status[u] \in Terminal
  <2>1. Trimmed(n, h) \in Seq(Tasks) /\ gone \subseteq ToSet(h)
    BY <1>1, <1>2, TrimOnce
  <2>2. \A u \in gone : u \in Tasks
    BY <2>1, LenProperties DEF ToSet
  <2> QED BY <1>2, <1>3, <2>1, <2>2 DEF IInv, HistoryIsEnded
<1>5. status' = DropStatus(st, gone) /\ phase' = DropPhase(ph, gone)
  BY DEF Settle, n, h
<1> HIDE DEF gone
<1>6. status \in [Tasks -> Statuses] /\ phase \in [Tasks -> Phases]
  BY DEF IInv, TypeOK, QueueTyped
<1>7. /\ status' = [u \in Tasks |-> IF u = t THEN s ELSE IF u \in gone THEN "dropped"
                                    ELSE status[u]]
      /\ phase'  = [u \in Tasks |-> IF u = t THEN p ELSE IF u \in gone THEN "none"
                                    ELSE phase[u]]
  BY <1>3, <1>5, <1>6 DEF DropStatus, DropPhase
<1>8. gone \in SUBSET {u \in Tasks \ {t} : status[u] \in Terminal}
  BY <1>4
<1> QED BY <1>7, <1>8 DEF Life!Becomes, Life!Terminal, Terminal

\* A step of one task alone.
LEMMA AloneBecomes ==
  ASSUME IInv, NEW t \in Tasks, NEW s, NEW p,
         status' = [status EXCEPT ![t] = s], phase' = [phase EXCEPT ![t] = p]
  PROVE  Life!Becomes(t, s, p)
<1>1. status \in [Tasks -> Statuses] /\ phase \in [Tasks -> Phases]
  BY DEF IInv, TypeOK, QueueTyped
<1>2. /\ status' = [u \in Tasks |-> IF u = t THEN s ELSE IF u \in {} THEN "dropped"
                                    ELSE status[u]]
      /\ phase'  = [u \in Tasks |-> IF u = t THEN p ELSE IF u \in {} THEN "none"
                                    ELSE phase[u]]
  BY <1>1
<1>3. {} \in SUBSET {u \in Tasks \ {t} : status[u] \in Life!Terminal}
  OBVIOUS
<1> QED BY <1>2, <1>3 DEF Life!Becomes

LEMMA ShowPhaseLife ==
  ASSUME IInv, PhasesFit, NEW w \in Workers, wpc[w] \in Executing, NEW p \in Working,
         ShowPhase(w, p), UNCHANGED status
  PROVE  Life!LifeNext \/ UNCHANGED <<status, phase>>
<1> DEFINE t == wtask[w]
<1>1. /\ t \in Tasks /\ status \in [Tasks -> Statuses]
  BY DEF IInv, TypeOK, QueueTyped, ThreadsPlaced, Executing, InRun
<1>2. CASE UNCHANGED phase
  BY <1>2
<1>3. CASE /\ status[t] = "running" /\ phase[t] \notin Stopping
           /\ phase' = [phase EXCEPT ![t] = p]
  <2> HIDE DEF t
  <2>1. status' = [status EXCEPT ![t] = "running"]
    BY <1>1, <1>3
  <2>2. Life!Becomes(t, "running", p)
    BY <1>1, <1>3, <2>1, AloneBecomes
  <2>3. phase[t] \in Working
    BY <1>1, <1>3 DEF PhasesFit
  <2>4. Life!Advance(t)
    BY <1>3, <2>2, <2>3 DEF Life!Advance, Life!Working, Working
  <2> QED BY <1>1, <2>4 DEF Life!LifeNext
<1> QED BY <1>2, <1>3 DEF ShowPhase

LEMMA FinishLife ==
  ASSUME IInv, FewActive, NEW w \in Workers, wpc[w] \in Executing,
         NEW st \in {"success", "failed", "cancelled"}, Finish(w, st)
  PROVE  Life!LifeNext
<1> DEFINE t == wtask[w]
           p == IF st = "success" THEN "completed"
                ELSE IF st = "cancelled" /\ t \in pauseReq THEN "paused" ELSE st
<1>1. /\ t \in Tasks /\ status[t] = "running" /\ w \in Threads /\ signalled \in SUBSET Tasks
  BY DEF IInv, TypeOK, QueueTyped, ThreadsPlaced, OneWorkerPerTask, Threads, Executing, InRun
<1>2. st \in Terminal /\ p \in Final BY StatusFacts DEF Final
<1>3. Settle(w, t, st, p, signalled)
  BY DEF Finish
<1>4. phase[t] = "pausing" <=> t \in pauseReq
  BY <1>1 DEF IInv, StopIntentTracked
<1>5. \/ st = "success" /\ p = "completed"
      \/ st = "failed" /\ p = "failed"
      \/ st = "cancelled" /\ p = "cancelled" /\ phase[t] # "pausing"
      \/ st = "cancelled" /\ p = "paused" /\ phase[t] = "pausing"
  BY <1>4
<1> HIDE DEF t, p
<1>6. status[t] \in Active BY <1>1, StatusFacts
<1>7. Life!Becomes(t, st, p)
  BY <1>1, <1>2, <1>3, <1>6, SettleBecomes
<1>8. Life!Finish(t)
  BY <1>1, <1>5, <1>7 DEF Life!Finish
<1> QED BY <1>1, <1>8 DEF Life!LifeNext

LEMMA PopTaskLife ==
  ASSUME IInv, PhasesFit, NEW w \in Workers, PopTask(w)
  PROVE  Life!LifeNext \/ UNCHANGED <<status, phase>>
<1> DEFINE t == Head(pending)
<1>1. pending \in Seq(Tasks) /\ pending # <<>>
  BY DEF PopTask, IInv, TypeOK, QueueTyped
<1>2. t \in Tasks
  BY <1>1, TailOnce
<1>3. CASE UNCHANGED <<status, phase>>
  BY <1>3
<1>4. CASE /\ status[t] = "queued"
           /\ status' = [status EXCEPT ![t] = "running"]
           /\ phase' = [phase EXCEPT ![t] = "resolving"]
  <2> HIDE DEF t
  <2>1. Life!Becomes(t, "running", "resolving")
    BY <1>2, <1>4, AloneBecomes
  <2>2. phase[t] = "queued"
    BY <1>2, <1>4 DEF PhasesFit
  <2>3. Life!Start(t)
    BY <1>4, <2>1, <2>2 DEF Life!Start, Life!In
  <2> QED BY <1>2, <2>3 DEF Life!LifeNext
<1> QED BY <1>3, <1>4 DEF PopTask

LEMMA WorkerLife ==
  ASSUME IInv, PhasesFit, FewActive, NEW w \in Workers, WorkerStep(w)
  PROVE  Life!LifeNext \/ UNCHANGED <<status, phase>>
<1> USE DEF taskVars, At, Goto
<1>1. CASE PopTask(w)
  BY <1>1, PopTaskLife
<1>2. CASE AcquireSlot(w)
  <2>1. wpc[w] \in Executing
    BY <1>2 DEF AcquireSlot, Executing
  <2>2. Finish(w, "cancelled") \/ UNCHANGED <<status, phase>>
    BY <1>2 DEF AcquireSlot
  <2> QED BY <2>1, <2>2, FinishLife
<1>3. CASE CancelWhileWaiting(w) \/ RunCancelled(w) \/ FailRun(w) \/ Succeed(w)
  <2>1. /\ wpc[w] \in Executing
        /\ Finish(w, "cancelled") \/ Finish(w, "failed") \/ Finish(w, "success")
    BY <1>3 DEF CancelWhileWaiting, RunCancelled, FailRun, Succeed, Executing, InRun
  <2> QED BY <2>1, FinishLife
<1>4. CASE AbandonAtStop(w) \/ RunBreaks(w) \/ CommitMedia(w) \/ EndRun(w) \/ QualityMismatch(w)
  BY <1>4 DEF AbandonAtStop, RunBreaks, CommitMedia, EndRun, QualityMismatch
<1>5. CASE Precheck(w) \/ ProbeOk(w) \/ DownloadOk(w) \/ Progress(w)
  <2>1. /\ wpc[w] \in Executing
        /\ \/ ShowPhase(w, "quality_check") \/ ShowPhase(w, "resolving")
           \/ ShowPhase(w, "finalizing") \/ ShowPhase(w, "downloading")
        /\ UNCHANGED status
    BY <1>5 DEF Precheck, ProbeOk, DownloadOk, Progress, Executing, InRun
  <2>2. {"quality_check", "resolving", "finalizing", "downloading"} \subseteq Working
    BY DEF Working
  <2> QED BY <2>1, <2>2, ShowPhaseLife
<1> QED BY <1>1, <1>2, <1>3, <1>4, <1>5 DEF WorkerStep, Run

LEMMA EnqueueLife ==
  ASSUME IInv, NEW c \in Clients, NEW fresh \in Batches, NEW dups \in Batches,
         NEW strict \in BOOLEAN, Enqueue(c, fresh, dups, strict)
  PROVE  Life!Publish
<1> DEFINE queued == ToSet(fresh)
           skipped == ToSet(dups)
           n == Cardinality(ActiveTasks) + Len(fresh)
           h == history \o dups
           gone == ToSet(Trimmed(n, h))
           stat == [t \in Tasks |-> IF t \in queued THEN "queued"
                                    ELSE IF t \in skipped THEN "skipped" ELSE status[t]]
           phas == [t \in Tasks |-> IF t \in queued THEN "queued"
                                    ELSE IF t \in skipped THEN "skipped" ELSE phase[t]]
<1>1. /\ Plan(fresh, dups)
      /\ status' = DropStatus(stat, gone) /\ phase' = DropPhase(phas, gone)
  BY DEF Enqueue
<1>2. fresh \in Seq(Tasks) /\ dups \in Seq(Tasks) /\ history \in Seq(Tasks)
  <2>1. ASSUME NEW b \in Batches PROVE b \in Seq(Tasks)
    <3>1. PICK k \in 0 .. MaxBatch : b \in [1 .. k -> Tasks] BY DEF Batches
    <3>2. k \in Nat OBVIOUS
    <3> QED BY <3>1, <3>2
  <2> QED BY <2>1 DEF IInv, TypeOK, QueueTyped
<1>3. /\ queued \cap skipped = {} /\ \A t \in queued \cup skipped : status[t] = "new"
  BY <1>1 DEF Plan
<1>4. queued \in SUBSET Tasks /\ skipped \in SUBSET Tasks
  BY <1>2, LenProperties DEF ToSet
<1>5. gone \subseteq ToSet(history) \cup skipped
  <2>1. h \in Seq(Tasks) /\ ToSet(h) = ToSet(history) \cup skipped
    BY <1>2, ConcatOnce
  <2>2. n \in Nat
    <3>1. ActiveTasks \in SUBSET Tasks BY DEF ActiveTasks
    <3> QED BY <3>1, <1>2, ActiveFinite, LenProperties
  <2> HIDE DEF n, h
  <2> QED BY <2>1, <2>2, TrimOnce
<1>6. ToSet(history) \subseteq Tasks
  BY <1>2, LenProperties DEF ToSet
<1> HIDE DEF queued, skipped, gone
<1>7. gone \in SUBSET Tasks /\ \A t \in gone : t \in skipped \/ status[t] \in Terminal
  BY <1>4, <1>5, <1>6 DEF IInv, HistoryIsEnded
<1>8. /\ status' = [t \in Tasks |-> IF t \in gone THEN "dropped"
                                    ELSE IF t \in queued THEN "queued"
                                    ELSE IF t \in skipped THEN "skipped" ELSE status[t]]
      /\ phase' = [t \in Tasks |-> IF t \in gone THEN "none"
                                   ELSE IF t \in queued THEN "queued"
                                   ELSE IF t \in skipped THEN "skipped" ELSE phase[t]]
  BY <1>1 DEF DropStatus, DropPhase
<1>9. \A t \in gone : t \in skipped \/ status[t] \in Life!Terminal
  BY <1>7 DEF Life!Terminal, Terminal
<1> HIDE DEF stat, phas
<1> QED BY <1>3, <1>4, <1>7, <1>8, <1>9 DEF Life!Publish

LEMMA CallLife ==
  ASSUME IInv, PhasesFit, FewActive, NEW c \in Clients,
         StopQueued(c) \/ StopRunning(c) \/ Retry(c)
  PROVE  Life!LifeNext
<1> DEFINE t == ctask[c]
<1>1. /\ status \in [Tasks -> Statuses] /\ c \in Threads /\ t \in Tasks
      /\ signalled \in SUBSET Tasks
  <2>1. cpc[c] = "call"
    BY DEF StopQueued, StopRunning, Retry
  <2> QED BY <2>1, RequestFields DEF IInv, TypeOK, QueueTyped
<1>2. CASE StopQueued(c)
  <2> DEFINE p == IF cop[c] = "pause" THEN "paused" ELSE "cancelled"
             sig == signalled \cup {t}
  <2>1. Settle(c, t, "cancelled", p, sig) /\ status[t] = "queued"
    BY <1>2 DEF StopQueued
  <2>2. /\ p \in Final /\ "cancelled" \in Terminal /\ status[t] \in Active
        /\ sig \in SUBSET Tasks /\ p \in {"paused", "cancelled"}
    BY <1>1, <2>1, StatusFacts
  <2>3. phase[t] = "queued"
    BY <1>1, <2>1 DEF PhasesFit
  <2> HIDE DEF t, p, sig
  <2>4. Life!Becomes(t, "cancelled", p)
    BY <1>1, <2>1, <2>2, SettleBecomes
  <2>5. Life!StopQueued(t)
    BY <2>1, <2>2, <2>3, <2>4 DEF Life!StopQueued, Life!In
  <2> QED BY <1>1, <2>5 DEF Life!LifeNext
<1>3. CASE StopRunning(c)
  <2> DEFINE p == IF cop[c] = "pause" THEN "pausing" ELSE "cancelling"
  <2>1. /\ status[t] = "running" /\ phase' = [phase EXCEPT ![t] = p]
        /\ phase[t] # "cancelling" /\ phase[t] # p /\ UNCHANGED status
    BY <1>3 DEF StopRunning
  <2>2. p \in {"pausing", "cancelling"}
    OBVIOUS
  <2> HIDE DEF t, p
  <2>3. Life!Becomes(t, "running", p)
    <3>1. status' = [status EXCEPT ![t] = "running"]
      BY <1>1, <2>1
    <3> QED BY <1>1, <2>1, <3>1, AloneBecomes
  <2>4. phase[t] \in Working \cup Stopping
    BY <1>1, <2>1 DEF PhasesFit
  <2>5. CASE p = "pausing"
    <3>1. Life!AskPause(t)
      BY <2>1, <2>3, <2>4, <2>5 DEF Life!AskPause, Life!Working, Working, Stopping
    <3> QED BY <1>1, <3>1 DEF Life!LifeNext
  <2>6. CASE p = "cancelling"
    <3>1. Life!AskCancel(t)
      BY <2>1, <2>3, <2>4, <2>6 DEF Life!AskCancel, Life!Working, Working, Stopping
    <3> QED BY <1>1, <3>1 DEF Life!LifeNext
  <2> QED BY <2>2, <2>5, <2>6
<1>4. CASE Retry(c)
  <2>1. /\ status[t] \in Terminal
        /\ status' = [status EXCEPT ![t] = "queued"] /\ phase' = [phase EXCEPT ![t] = "queued"]
    BY <1>4 DEF Retry, Retryable
  <2> HIDE DEF t
  <2>2. Life!Becomes(t, "queued", "queued")
    BY <1>1, <2>1, AloneBecomes
  <2>3. Life!Retry(t)
    BY <2>1, <2>2 DEF Life!Retry, Life!Terminal, Terminal
  <2> QED BY <1>1, <2>3 DEF Life!LifeNext
<1> QED BY <1>2, <1>3, <1>4

LEMMA ClientLife ==
  ASSUME IInv, PhasesFit, FewActive, NEW c \in Clients, ClientStep(c)
  PROVE  Life!LifeNext \/ UNCHANGED <<status, phase>>
<1>1. ASSUME NEW fresh \in Batches, NEW dups \in Batches, NEW strict \in BOOLEAN,
             Enqueue(c, fresh, dups, strict)
      PROVE  Life!LifeNext
  BY <1>1, EnqueueLife DEF Life!LifeNext
<1>2. ASSUME NEW t \in Tasks, Delete(c, t) PROVE Life!LifeNext
  <2>1. /\ status[t] \in Terminal
        /\ status' = DropStatus(status, {t}) /\ phase' = DropPhase(phase, {t})
        /\ status \in [Tasks -> Statuses] /\ phase \in [Tasks -> Phases]
    BY <1>2 DEF Delete, IInv, TypeOK, QueueTyped
  <2>2. /\ status' = [status EXCEPT ![t] = "dropped"] /\ phase' = [phase EXCEPT ![t] = "none"]
    BY <2>1 DEF DropStatus, DropPhase
  <2>3. Life!Becomes(t, "dropped", "none")
    BY <2>2, AloneBecomes
  <2>4. Life!Forget(t)
    BY <2>1, <2>3 DEF Life!Forget, Life!Terminal, Terminal
  <2> QED BY <2>4 DEF Life!LifeNext
<1>3. CASE StopQueued(c) \/ StopRunning(c) \/ Retry(c)
  BY <1>3, CallLife
<1>4. CASE \/ \E t \in Tasks, op \in Intents : RequestStop(c, op, t)
           \/ \E t \in Tasks : RequestRetry(c, t)
           \/ StopTooLate(c) \/ Recheck(c) \/ StopAgain(c) \/ RefuseRetry(c)
           \/ RetryCleanup(c) \/ PurgeRow(c) \/ EndRequest(c)
  BY <1>4 DEF RequestStop, RequestRetry, StopTooLate, Recheck, StopAgain, RefuseRetry,
              RetryCleanup, PurgeRow, EndRequest, taskVars
<1> QED BY <1>1, <1>2, <1>3, <1>4 DEF ClientStep

LEMMA LifeStep ==
  ASSUME IInv, PhasesFit, FewActive, [Operate \/ Stop]_vars
  PROVE  Life!LifeNext \/ UNCHANGED <<status, phase>>
<1>1. CASE Flush \/ Stop \/ Rest \/ UNCHANGED vars
  BY <1>1 DEF Flush, FlushOne, FlushDone, Stop, Rest, vars, taskVars
<1> QED BY <1>1, ClientLife, WorkerLife DEF Operate

\* The fit of phases to statuses is kept by the abstract steps themselves.
LEMMA LifeFits ==
  ASSUME PhasesFit, Life!LifeNext
  PROVE  PhasesFit'
<1>1. ASSUME NEW t \in Tasks, NEW s, NEW p, Life!Becomes(t, s, p),
             s = "queued" => p = "queued", s = "running" => p \in Working \cup Stopping
      PROVE  PhasesFit'
  <2>1. PICK lost : /\ status' = [u \in Tasks |->
                          IF u = t THEN s ELSE IF u \in lost THEN "dropped" ELSE status[u]]
                    /\ phase'  = [u \in Tasks |->
                          IF u = t THEN p ELSE IF u \in lost THEN "none" ELSE phase[u]]
    BY <1>1 DEF Life!Becomes
  <2>2. ASSUME NEW u \in Tasks
        PROVE  /\ status'[u] = "queued" => phase'[u] = "queued"
               /\ status'[u] = "running" => phase'[u] \in Working \cup Stopping
    BY <1>1, <2>1 DEF PhasesFit
  <2> QED BY <2>2 DEF PhasesFit
<1>2. CASE Life!Publish
  <2>1. PICK queued \in SUBSET Tasks, skipped \in SUBSET Tasks, lost \in SUBSET Tasks :
          /\ queued \cap skipped = {}
          /\ \A t \in queued \cup skipped : status[t] = "new"
          /\ \A t \in lost : t \in skipped \/ status[t] \in Life!Terminal
          /\ status' = [t \in Tasks |-> IF t \in lost THEN "dropped"
                                        ELSE IF t \in queued THEN "queued"
                                        ELSE IF t \in skipped THEN "skipped" ELSE status[t]]
          /\ phase'  = [t \in Tasks |-> IF t \in lost THEN "none"
                                        ELSE IF t \in queued THEN "queued"
                                        ELSE IF t \in skipped THEN "skipped" ELSE phase[t]]
    BY <1>2 DEF Life!Publish
  <2>2. ASSUME NEW u \in Tasks
        PROVE  /\ status'[u] = "queued" => phase'[u] = "queued"
               /\ status'[u] = "running" => phase'[u] \in Working \cup Stopping
    BY <2>1 DEF PhasesFit
  <2> QED BY <2>2 DEF PhasesFit
<1>3. ASSUME NEW t \in Tasks,
             \/ Life!Start(t) \/ Life!Advance(t) \/ Life!AskPause(t) \/ Life!AskCancel(t)
             \/ Life!StopQueued(t) \/ Life!Finish(t) \/ Life!Retry(t) \/ Life!Forget(t)
      PROVE  PhasesFit'
  <2>1. \E s, p : /\ Life!Becomes(t, s, p)
                  /\ s = "queued" => p = "queued"
                  /\ s = "running" => p \in Working \cup Stopping
    <3>1. CASE Life!Start(t)
      BY <3>1 DEF Life!Start, Working
    <3>2. CASE Life!Advance(t)
      BY <3>2 DEF Life!Advance, Life!Working, Working
    <3>3. CASE Life!AskPause(t) \/ Life!AskCancel(t)
      BY <3>3 DEF Life!AskPause, Life!AskCancel, Stopping
    <3>4. CASE Life!StopQueued(t)
      BY <3>4 DEF Life!StopQueued
    <3>5. CASE Life!Finish(t)
      BY <3>5 DEF Life!Finish
    <3>6. CASE Life!Retry(t) \/ Life!Forget(t)
      BY <3>6 DEF Life!Retry, Life!Forget
    <3> QED BY <1>3, <3>1, <3>2, <3>3, <3>4, <3>5, <3>6
  <2> QED BY <1>1, <2>1
<1> QED BY <1>2, <1>3 DEF Life!LifeNext

\* The public status and phase of the tasks move as their owners were promised: with all its
\* threads, locks, flushes and trimmings, every step of the queue is one step of one task's
\* life, the publication of a batch, or invisible.
THEOREM Implements == SpecUp => ImplementsLifecycle
<1>1. Init => PhasesFit
  BY DEF Init, PhasesFit
<1>2. IInv /\ UpInv /\ PhasesFit /\ [Operate \/ Stop]_vars => PhasesFit'
  <2>1. ASSUME PhasesFit, UNCHANGED <<status, phase>> PROVE PhasesFit'
    BY <2>1 DEF PhasesFit
  <2> QED BY <2>1, LifeStep, LifeFits, UpFits
<1>3. SpecUp => []PhasesFit
  BY <1>1, <1>2, UpIsSpec, Invariance, UpInvariance, PTL DEF SpecUp
<1>4. Init => Life!LifeInit
  BY DEF Init, Life!LifeInit
<1>5. IInv /\ UpInv /\ PhasesFit /\ [Operate \/ Stop]_vars => [Life!LifeNext]_(Life!lifeVars)
  BY LifeStep, UpFits DEF Life!lifeVars
<1> QED BY <1>3, <1>4, <1>5, UpIsSpec, Invariance, UpInvariance, PTL
        DEF SpecUp, ImplementsLifecycle, Life!LifeSpec
=============================================================================
