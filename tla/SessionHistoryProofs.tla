------------------------ MODULE SessionHistoryProofs ------------------------
(***************************************************************************)
(* Theorems about SessionHistory, for any number of keys, windows and      *)
(* turns, and every choice of faults.                                      *)
(*                                                                         *)
(* The parts of the invariant are operators on the contents of the store   *)
(* and of the loop, so that one lemma can be stated for each thing an      *)
(* action is made of: pruning, the change of one window, a save, the pop   *)
(* of the queue.                                                           *)
(***************************************************************************)
EXTENDS SessionHistory, FiniteSetTheorems, TLAPS

-----------------------------------------------------------------------------
(* The inductive invariant. *)

Disjoint(s, r) == s.turns \cap r.turns = {}

OpenOf(E) == {E[k] : k \in {k \in Keys : IsOpen(E[k])}}
LoopOf(T, F) == Range(T) \cup Range(F)

\* The turns that were stored have a number up to Used, and no session was
\* touched after Latest: while a turn is in progress, since it has begun.
Used   == IF turn = NoTurn THEN turns ELSE turns - 1
Latest == IF turn = NoTurn THEN now ELSE turn.at

\* A session is one talk, it was touched when its last turn was stored.
IsTalk(s) ==
  \A x \in s.turns :
    \/ \A y \in s.turns : x.at <= y.at
    \/ \E y \in s.turns, w \in Windows : y.at < x.at /\ x.at <= y.at + w
    \/ \E y \in s.turns : y.at = x.at /\ y.id < x.id

Touched(s) ==
  /\ \A x \in s.turns : x.at <= s.last
  /\ s.turns # {} => \E x \in s.turns : x.at = s.last

Fine(s) ==
  /\ s \in Sessions
  /\ IsTalk(s) /\ Touched(s)
  /\ \A x \in s.turns : x.id <= Used
  /\ s.last <= Latest

Known      == OpenSessions \cup WaitingSessions \cup handed
Everywhere == Known \cup OpenOf(rows)

\* Windows of different keys have no turn in common, nor have the sessions
\* that are open, queued and with the loop.
KeysApart(E) ==
  \A k, j \in Keys : k # j /\ IsOpen(E[k]) /\ IsOpen(E[j]) => Disjoint(E[k], E[j])

Apart(E, C, T, F) ==
  /\ KeysApart(E)
  /\ \A s \in OpenOf(E), r \in C \cup LoopOf(T, F) : Disjoint(s, r)
  /\ \A s, r \in C : s # r => Disjoint(s, r)
  /\ \A s \in C, r \in LoopOf(T, F) : Disjoint(s, r)
  /\ \A i, j \in DOMAIN T : i # j => Disjoint(T[i], T[j])
  /\ \A i, j \in DOMAIN F : i # j => Disjoint(F[i], F[j])
  /\ \A i \in DOMAIN T, j \in DOMAIN F : Disjoint(T[i], F[j])

\* What follows holds as long as the window was not enlarged: whoever waits or
\* was summarised is out of the window, and so is an old row of it.
TooOld(S) == \A s \in S : now > s.last + window

RowsLag(R, S) ==
  \A k \in Keys : IsOpen(R[k]) =>
    \A s \in S : ~Disjoint(R[k], s) => R[k].last <= s.last

SummarisedApart(H, S) == \A h \in H, s \in S : Disjoint(h, s)

\* The sessions of a key go through the queue and the loop in their order; one
\* that was retried may come late.
Before(S, Q) == \A s \in S, r \in Q : s.key = r.key => s.last <= r.last

InOrder(E, C, T, F, H, R) ==
  /\ Range(F) \subseteq R
  /\ Before(H \cup C \cup LoopOf(T, F), OpenOf(E))
  /\ Before(H \cup LoopOf(T, F), C)
  /\ Before(H, Range(T) \ R)
  /\ \A i, j \in DOMAIN T :
       i < j /\ T[j] \notin R /\ T[i].key = T[j].key => T[i].last <= T[j].last

WhileNotWidened ==
  /\ twice = {}
  /\ TooOld(WaitingSessions \cup handed)
  /\ RowsLag(rows, OpenSessions \cup WaitingSessions \cup handed)
  /\ SummarisedApart(handed, OpenSessions \cup WaitingSessions)
  /\ InOrder(entries, closed, todo, failed, handed, retried)

SessionInv ==
  /\ SessionTypeOK
  /\ IsFiniteSet(closed)
  /\ turn # NoTurn => turn.at <= now /\ turns > 0
  /\ \A s \in Everywhere : Fine(s)
  /\ Apart(entries, closed, todo, failed)
  /\ KeysApart(rows)
  /\ widened \/ WhileNotWidened

-----------------------------------------------------------------------------
(* The operators. *)

\* A conversation is told from the absence of one.
LEMMA NoSessionIsNone == NoSession \notin Sessions
BY DEF NoSession, Sessions

LEMMA OpenIsSession ==
  ASSUME SessionTypeOK, NEW k \in Keys, IsOpen(entries[k])
  PROVE  entries[k] \in Sessions /\ entries[k].key = k
BY DEF SessionTypeOK, IsOpen

LEMMA RowIsSession ==
  ASSUME SessionTypeOK, NEW k \in Keys, IsOpen(rows[k])
  PROVE  rows[k] \in Sessions /\ rows[k].key = k
BY DEF SessionTypeOK, IsOpen

\* What pruneExpiredLocked leaves, and what it queues.
LEMMA PrunedWindows ==
  ASSUME SessionTypeOK, NEW at, NEW k \in Keys
  PROVE  /\ IsOpen(Pruned(at)[k]) => /\ Pruned(at)[k] = entries[k]
                                     /\ IsOpen(entries[k])
                                     /\ ~(at > entries[k].last + window)
         /\ IsOpen(entries[k]) => IsOpen(Pruned(at)[k]) \/ entries[k] \in Enqueued(at)
BY DEF Pruned, Enqueued, Expired, IsOpen

LEMMA QueuedSessions ==
  ASSUME SessionTypeOK, NEW at, NEW s \in Enqueued(at)
  PROVE  \E k \in Keys : /\ IsOpen(entries[k]) /\ s = entries[k]
                         /\ at > s.last + window
                         /\ ~IsOpen(Pruned(at)[k])
BY DEF Pruned, Enqueued, Expired, IsOpen

LEMMA QueuedFinite ==
  ASSUME NEW at
  PROVE  IsFiniteSet(Enqueued(at))
<1> DEFINE K == {k \in Keys : Expired(entries[k], at)}
           f == [k \in K |-> entries[k]]
<1>1. IsFiniteSet(K)
  BY FS_Subset, KeysAssumption
<1>2. f \in Surjection(K, Enqueued(at))
  BY DEF Surjection, Enqueued
<1> HIDE DEF K, f
<1> QED BY <1>1, <1>2, FS_Surjection

\* sort.Slice neither loses a session nor doubles one.
LEMMA SortedSessions ==
  ASSUME NEW S \in SUBSET Sessions, IsFiniteSet(S), NEW s \in SortedByLastActive(S)
  PROVE  /\ s \in Seq(Sessions)
         /\ Range(s) = S
         /\ \A i, j \in DOMAIN s : i # j => s[i] # s[j]
         /\ \A i, j \in DOMAIN s : i < j => s[i].last <= s[j].last
<1> DEFINE n == Cardinality(S)
<1>1. n \in Nat
  BY FS_CardinalityType
<1>2. s \in [1..n -> S] /\ DOMAIN s = 1..n
  BY DEF SortedByLastActive
<1>3. /\ \A i, j \in DOMAIN s : i < j => s[i] # s[j]
      /\ \A i, j \in DOMAIN s : i < j => s[i].last <= s[j].last
  BY DEF SortedByLastActive
<1> HIDE DEF n
<1>4. \A i, j \in DOMAIN s : i # j => s[i] # s[j]
  <2> SUFFICES ASSUME NEW i \in DOMAIN s, NEW j \in DOMAIN s, i # j
               PROVE  s[i] # s[j]
    OBVIOUS
  <2>1. i \in Int /\ j \in Int
    BY <1>1, <1>2
  <2>2. i < j \/ j < i
    BY <2>1
  <2> QED BY <1>3, <2>2
<1>5. s \in Injection(1..n, S)
  BY <1>2, <1>4 DEF Injection, IsInjective
<1>6. IsFiniteSet(1..n) /\ Cardinality(1..n) = n
  BY <1>1, FS_Interval
<1>7. s \in Surjection(1..n, S)
  BY <1>5, <1>6, FS_Injection DEF n
<1>8. Range(s) = S
  BY <1>2, <1>7 DEF Range, Surjection
<1>9. s \in Seq(Sessions)
  BY <1>1, <1>2
<1> QED BY <1>3, <1>4, <1>8, <1>9

LEMMA SequenceRanges ==
  ASSUME NEW S, NEW T \in Seq(S), NEW F \in Seq(S)
  PROVE  /\ Range(F \o T) = Range(F) \cup Range(T)
         /\ Range(<< >>) = {}
         /\ T # << >> => /\ Range(T) = Range(Tail(T)) \cup {Head(T)}
                         /\ Range(Append(F, Head(T))) = Range(F) \cup {Head(T)}
<1>1. Range(F \o T) \subseteq Range(F) \cup Range(T)
  BY DEF Range
<1>2. Range(F) \subseteq Range(F \o T)
  BY DEF Range
<1>3. Range(T) \subseteq Range(F \o T)
  <2> SUFFICES ASSUME NEW i \in DOMAIN T PROVE T[i] \in Range(F \o T)
    BY DEF Range
  <2>1. Len(F) + i \in DOMAIN (F \o T) /\ (F \o T)[Len(F) + i] = T[i]
    OBVIOUS
  <2> QED BY <2>1 DEF Range
<1>4. Range(<< >>) = {}
  BY DEF Range
<1>5. ASSUME T # << >>
      PROVE  /\ Range(T) = Range(Tail(T)) \cup {Head(T)}
             /\ Range(Append(F, Head(T))) = Range(F) \cup {Head(T)}
  <2>1. Range(T) \subseteq Range(Tail(T)) \cup {Head(T)}
    <3> SUFFICES ASSUME NEW i \in DOMAIN T, i # 1 PROVE T[i] \in Range(Tail(T))
      BY <1>5 DEF Range
    <3>1. i - 1 \in DOMAIN Tail(T) /\ Tail(T)[i - 1] = T[i]
      BY <1>5
    <3> QED BY <3>1 DEF Range
  <2>2. Range(Tail(T)) \cup {Head(T)} \subseteq Range(T)
    BY <1>5 DEF Range
  <2>3. Range(Append(F, Head(T))) \subseteq Range(F) \cup {Head(T)}
    BY <1>5 DEF Range
  <2>4. Range(F) \subseteq Range(Append(F, Head(T)))
    BY <1>5 DEF Range
  <2>5. Len(F) + 1 \in DOMAIN Append(F, Head(T)) /\ Append(F, Head(T))[Len(F) + 1] = Head(T)
    BY <1>5
  <2> QED BY <2>1, <2>2, <2>3, <2>4, <2>5 DEF Range
<1> QED BY <1>1, <1>2, <1>3, <1>4, <1>5

\* Pruning neither makes a session nor loses one.
LEMMA PrunedSessions ==
  ASSUME SessionTypeOK, NEW at
  PROVE  OpenOf(Pruned(at)) \cup Enqueued(at) = OpenSessions
BY DEF OpenOf, OpenSessions, Pruned, Enqueued, Expired, IsOpen

LEMMA PrunedApart ==
  ASSUME SessionTypeOK, Apart(entries, closed, todo, failed), NEW at
  PROVE  Apart(Pruned(at), closed \cup Enqueued(at), todo, failed)
<1> DEFINE P == Pruned(at)
           Q == Enqueued(at)
<1>1. OpenOf(P) \subseteq OpenOf(entries) /\ Q \subseteq OpenOf(entries)
  BY PrunedSessions DEF OpenOf, OpenSessions
<1>2. KeysApart(P)
  BY PrunedWindows DEF Apart, KeysApart
<1>3. \A s \in OpenOf(P), r \in Q : Disjoint(s, r)
  <2> SUFFICES ASSUME NEW k \in Keys, IsOpen(P[k]), NEW r \in Q
               PROVE  Disjoint(P[k], r)
    BY DEF OpenOf
  <2>1. PICK j \in Keys : IsOpen(entries[j]) /\ r = entries[j] /\ ~IsOpen(P[j])
    BY QueuedSessions
  <2>2. P[k] = entries[k] /\ IsOpen(entries[k]) /\ k # j
    BY <2>1, PrunedWindows
  <2> QED BY <2>1, <2>2 DEF Apart, KeysApart
<1>4. \A s, r \in Q : s # r => Disjoint(s, r)
  <2> SUFFICES ASSUME NEW s \in Q, NEW r \in Q, s # r PROVE Disjoint(s, r)
    OBVIOUS
  <2>1. PICK j \in Keys : IsOpen(entries[j]) /\ r = entries[j]
    BY QueuedSessions
  <2>2. PICK k \in Keys : IsOpen(entries[k]) /\ s = entries[k]
    BY QueuedSessions
  <2> QED BY <2>1, <2>2 DEF Apart, KeysApart
<1>5. /\ \A s \in OpenOf(entries), r \in closed \cup LoopOf(todo, failed) : Disjoint(s, r)
      /\ \A s, r \in closed : s # r => Disjoint(s, r)
      /\ \A s \in closed, r \in LoopOf(todo, failed) : Disjoint(s, r)
  BY DEF Apart
<1>6. \A s, r : Disjoint(s, r) => Disjoint(r, s)
  BY DEF Disjoint
<1>7. \A s \in OpenOf(P), r \in closed \cup Q \cup LoopOf(todo, failed) : Disjoint(s, r)
  BY <1>1, <1>3, <1>5
<1>8. \A s, r \in closed \cup Q : s # r => Disjoint(s, r)
  BY <1>1, <1>4, <1>5, <1>6
<1>9. \A s \in closed \cup Q, r \in LoopOf(todo, failed) : Disjoint(s, r)
  BY <1>1, <1>5
<1> HIDE DEF P, Q
<1> QED BY <1>2, <1>7, <1>8, <1>9 DEF Apart, P, Q

\* A session that is opened or goes on: what it has more than before, nobody has.
LEMMA OpenedApart ==
  ASSUME NEW E, NEW C, NEW T, NEW F, DOMAIN E = Keys, Apart(E, C, T, F),
         NEW k \in Keys, NEW e,
         \A x \in e.turns :
           \/ IsOpen(E[k]) /\ x \in E[k].turns
           \/ \A s \in OpenOf(E) \cup C \cup LoopOf(T, F) : x \notin s.turns
  PROVE  Apart([E EXCEPT ![k] = e], C, T, F)
<1> DEFINE N == [E EXCEPT ![k] = e]
<1>1. \A j \in Keys : N[j] = IF j = k THEN e ELSE E[j]
  OBVIOUS
<1> HIDE DEF N
<1>2. ASSUME NEW s \in C \cup LoopOf(T, F) PROVE Disjoint(e, s)
  <2> SUFFICES ASSUME NEW x \in e.turns, x \in s.turns PROVE FALSE
    BY DEF Disjoint
  <2>1. IsOpen(E[k]) /\ x \in E[k].turns
    BY <1>2
  <2>2. E[k] \in OpenOf(E)
    BY <2>1 DEF OpenOf
  <2> QED BY <1>2, <2>1, <2>2 DEF Apart, Disjoint
<1>3. ASSUME NEW j \in Keys, j # k, IsOpen(E[j])
      PROVE  Disjoint(e, E[j]) /\ Disjoint(E[j], e)
  <2> SUFFICES ASSUME NEW x \in e.turns, x \in E[j].turns PROVE FALSE
    BY DEF Disjoint
  <2>1. E[j] \in OpenOf(E)
    BY <1>3 DEF OpenOf
  <2>2. IsOpen(E[k]) /\ x \in E[k].turns
    BY <2>1
  <2> QED BY <1>3, <2>2 DEF Apart, KeysApart, Disjoint
<1>4. KeysApart(N)
  BY <1>1, <1>3 DEF Apart, KeysApart
<1>5. OpenOf(N) \subseteq OpenOf(E) \cup {e}
  BY <1>1 DEF OpenOf
<1>6. \A s \in OpenOf(N), r \in C \cup LoopOf(T, F) : Disjoint(s, r)
  BY <1>2, <1>5 DEF Apart
<1> QED BY <1>4, <1>6 DEF Apart, N

\* PopExpiredSessions gives the queue to the loop.
LEMMA PoppedApart ==
  ASSUME NEW E, NEW C, NEW F \in Seq(Sessions), NEW s \in Seq(Sessions),
         Apart(E, C, << >>, F), Range(s) = C,
         \A i, j \in DOMAIN s : i # j => s[i] # s[j]
  PROVE  Apart(E, {}, F \o s, << >>)
<1>1. LoopOf(F \o s, << >>) = C \cup LoopOf(<< >>, F)
  BY SequenceRanges DEF LoopOf
<1>2. ASSUME NEW i \in DOMAIN (F \o s), NEW j \in DOMAIN (F \o s), i # j
      PROVE  Disjoint((F \o s)[i], (F \o s)[j])
  <2>1. ASSUME NEW a \in DOMAIN F, NEW b \in DOMAIN F, a # b
        PROVE  Disjoint(F[a], F[b])
    BY <2>1 DEF Apart
  <2>2. ASSUME NEW a \in DOMAIN s, NEW b \in DOMAIN s, a # b
        PROVE  Disjoint(s[a], s[b])
    BY <2>2 DEF Apart, Range
  <2>3. ASSUME NEW a \in DOMAIN F, NEW b \in DOMAIN s
        PROVE  Disjoint(F[a], s[b]) /\ Disjoint(s[b], F[a])
    <3>1. s[b] \in C /\ F[a] \in LoopOf(<< >>, F)
      BY DEF LoopOf, Range
    <3> QED BY <3>1 DEF Apart, Disjoint
  <2>4. CASE i \in DOMAIN F /\ j \in DOMAIN F
    BY <1>2, <2>1, <2>4
  <2>5. CASE i \in DOMAIN F /\ j \notin DOMAIN F
    <3>1. j - Len(F) \in DOMAIN s /\ (F \o s)[j] = s[j - Len(F)]
      BY <2>5
    <3> QED BY <2>3, <2>5, <3>1
  <2>6. CASE i \notin DOMAIN F /\ j \in DOMAIN F
    <3>1. i - Len(F) \in DOMAIN s /\ (F \o s)[i] = s[i - Len(F)]
      BY <2>6
    <3> QED BY <2>3, <2>6, <3>1
  <2>7. CASE i \notin DOMAIN F /\ j \notin DOMAIN F
    <3>1. i - Len(F) \in DOMAIN s /\ (F \o s)[i] = s[i - Len(F)]
      BY <2>7
    <3>2. j - Len(F) \in DOMAIN s /\ (F \o s)[j] = s[j - Len(F)]
      BY <2>7
    <3>3. i - Len(F) # j - Len(F)
      BY <1>2
    <3> QED BY <2>2, <3>1, <3>2, <3>3
  <2> QED BY <2>4, <2>5, <2>6, <2>7
<1>3. \A r \in OpenOf(E), q \in LoopOf(F \o s, << >>) : Disjoint(r, q)
  BY <1>1 DEF Apart
<1>4. KeysApart(E) /\ DOMAIN << >> = {}
  BY DEF Apart
<1> HIDE DEF LoopOf
<1> QED BY <1>2, <1>3, <1>4 DEF Apart

\* The loop takes the first of its sessions; it is done with it, or keeps it.
LEMMA TakenApart ==
  ASSUME NEW E, NEW C, NEW T \in Seq(Sessions), NEW F \in Seq(Sessions),
         T # << >>, Apart(E, C, T, F)
  PROVE  /\ Apart(E, C, Tail(T), F)
         /\ Apart(E, C, Tail(T), Append(F, Head(T)))
         /\ \A s \in OpenOf(E) \cup C \cup LoopOf(Tail(T), F) : Disjoint(Head(T), s)
<1> DEFINE A == Append(F, Head(T))
<1>1. /\ LoopOf(Tail(T), F) \subseteq LoopOf(T, F)
      /\ LoopOf(Tail(T), A) \subseteq LoopOf(T, F)
      /\ Head(T) \in LoopOf(T, F)
  BY SequenceRanges DEF LoopOf
<1>2. \A i \in DOMAIN Tail(T) : i + 1 \in DOMAIN T /\ i + 1 # 1 /\ Tail(T)[i] = T[i + 1]
  OBVIOUS
<1>3. 1 \in DOMAIN T /\ Head(T) = T[1]
  OBVIOUS
<1>4. \A i \in DOMAIN A : \/ i \in DOMAIN F /\ A[i] = F[i]
                          \/ i = Len(F) + 1 /\ A[i] = Head(T)
  OBVIOUS
<1>5. \A s, r : Disjoint(s, r) => Disjoint(r, s)
  BY DEF Disjoint
<1>6. \A i \in DOMAIN Tail(T) : Disjoint(Tail(T)[i], Head(T))
  BY <1>2, <1>3 DEF Apart
<1>7. \A i \in DOMAIN F : Disjoint(Head(T), F[i]) /\ Disjoint(F[i], Head(T))
  BY <1>3, <1>5 DEF Apart
<1>8. \A i, j \in DOMAIN Tail(T) : i # j => Disjoint(Tail(T)[i], Tail(T)[j])
  <2> SUFFICES ASSUME NEW i \in DOMAIN Tail(T), NEW j \in DOMAIN Tail(T), i # j
               PROVE  Disjoint(Tail(T)[i], Tail(T)[j])
    OBVIOUS
  <2>1. i + 1 # j + 1
    OBVIOUS
  <2> QED BY <1>2, <2>1 DEF Apart
<1>9. \A i \in DOMAIN Tail(T), j \in DOMAIN F : Disjoint(Tail(T)[i], F[j])
  BY <1>2 DEF Apart
<1>10. \A i, j \in DOMAIN A : i # j => Disjoint(A[i], A[j])
  BY <1>4, <1>7 DEF Apart
<1>11. \A i \in DOMAIN Tail(T), j \in DOMAIN A : Disjoint(Tail(T)[i], A[j])
  BY <1>4, <1>6, <1>9
<1>12. Apart(E, C, Tail(T), F)
  BY <1>1, <1>8, <1>9 DEF Apart
<1>13. Apart(E, C, Tail(T), A)
  <2> HIDE DEF A
  <2> QED BY <1>1, <1>8, <1>10, <1>11 DEF Apart
<1>14. \A s \in OpenOf(E) \cup C : Disjoint(Head(T), s)
  BY <1>1, <1>5 DEF Apart
<1>15. \A s \in LoopOf(Tail(T), F) : Disjoint(Head(T), s)
  BY <1>5, <1>6, <1>7 DEF LoopOf, Range
<1> QED BY <1>12, <1>13, <1>14, <1>15

-----------------------------------------------------------------------------
(* The order of the summaries. *)

LEMMA PrunedInOrder ==
  ASSUME SessionTypeOK, NEW at,
         InOrder(entries, closed, todo, failed, handed, retried)
  PROVE  InOrder(Pruned(at), closed \cup Enqueued(at), todo, failed, handed, retried)
<1> DEFINE P == Pruned(at)
           Q == Enqueued(at)
           L == LoopOf(todo, failed)
<1>1. OpenOf(P) \subseteq OpenOf(entries) /\ Q \subseteq OpenOf(entries)
  BY PrunedSessions DEF OpenOf, OpenSessions
<1>2. Before(Q, OpenOf(P))
  <2> SUFFICES ASSUME NEW s \in Q, NEW k \in Keys, IsOpen(P[k]), s.key = P[k].key
               PROVE  FALSE
    BY DEF Before, OpenOf
  <2>1. PICK j \in Keys : IsOpen(entries[j]) /\ s = entries[j] /\ ~IsOpen(P[j])
    BY QueuedSessions
  <2>2. P[k] = entries[k] /\ IsOpen(entries[k])
    BY PrunedWindows
  <2> QED BY <2>1, <2>2, OpenIsSession
<1>3. Before(handed \cup closed \cup L, OpenOf(entries)) /\ Before(handed \cup L, closed)
  BY DEF InOrder
<1>4. Before(handed \cup (closed \cup Q) \cup L, OpenOf(P))
  BY <1>1, <1>2, <1>3 DEF Before
<1>5. Before(handed \cup L, closed \cup Q)
  BY <1>1, <1>3 DEF Before
<1> HIDE DEF P, Q
<1> QED BY <1>4, <1>5 DEF InOrder, P, Q

LEMMA OpenedInOrder ==
  ASSUME NEW E, NEW C, NEW T, NEW F, NEW H, NEW R, DOMAIN E = Keys,
         InOrder(E, C, T, F, H, R), NEW k \in Keys, NEW e,
         \A s \in H \cup C \cup LoopOf(T, F) : s.last <= e.last
  PROVE  InOrder([E EXCEPT ![k] = e], C, T, F, H, R)
<1> DEFINE N == [E EXCEPT ![k] = e]
<1>1. OpenOf(N) \subseteq OpenOf(E) \cup {e}
  BY DEF OpenOf
<1>2. Before(H \cup C \cup LoopOf(T, F), OpenOf(N))
  BY <1>1 DEF InOrder, Before
<1> HIDE DEF N
<1> QED BY <1>2 DEF InOrder, N

LEMMA PoppedInOrder ==
  ASSUME NEW E, NEW C, NEW F \in Seq(Sessions), NEW s \in Seq(Sessions),
         NEW H, NEW R, InOrder(E, C, << >>, F, H, R), Range(s) = C,
         \A i, j \in DOMAIN s : i < j => s[i].last <= s[j].last
  PROVE  InOrder(E, {}, F \o s, << >>, H, R)
<1> DEFINE T == F \o s
<1>1. LoopOf(T, << >>) = C \cup LoopOf(<< >>, F)
  BY SequenceRanges DEF LoopOf
<1>2. Range(T) = Range(F) \cup C /\ Range(F) \subseteq LoopOf(<< >>, F)
  BY SequenceRanges DEF LoopOf
<1>3. /\ Range(F) \subseteq R
      /\ Before(H \cup C \cup LoopOf(<< >>, F), OpenOf(E))
      /\ Before(H \cup LoopOf(<< >>, F), C)
  BY DEF InOrder
<1>4. Before(H, Range(T) \ R)
  BY <1>2, <1>3 DEF Before
<1>5. ASSUME NEW i \in DOMAIN T, NEW j \in DOMAIN T, i < j, T[j] \notin R,
             T[i].key = T[j].key
      PROVE  T[i].last <= T[j].last
  <2>1. j \notin DOMAIN F
    BY <1>3, <1>5 DEF Range
  <2>2. j - Len(F) \in DOMAIN s /\ T[j] = s[j - Len(F)]
    BY <2>1
  <2>3. CASE i \in DOMAIN F
    <3>1. T[i] = F[i] /\ F[i] \in Range(F) /\ s[j - Len(F)] \in C
      BY <2>2, <2>3 DEF Range
    <3> QED BY <1>2, <1>3, <1>5, <2>2, <3>1 DEF Before
  <2>4. CASE i \notin DOMAIN F
    <3>1. i - Len(F) \in DOMAIN s /\ T[i] = s[i - Len(F)]
      BY <2>4
    <3>2. i - Len(F) < j - Len(F)
      BY <1>5
    <3> QED BY <2>2, <3>1, <3>2
  <2> QED BY <2>3, <2>4
<1>6. Range(<< >>) = {}
  BY SequenceRanges
<1>7. Before(H \cup {} \cup LoopOf(T, << >>), OpenOf(E)) /\ Before(H \cup LoopOf(T, << >>), {})
  BY <1>1, <1>3 DEF Before
<1> HIDE DEF T
<1> QED BY <1>4, <1>5, <1>6, <1>7 DEF InOrder, T

LEMMA TakenInOrder ==
  ASSUME NEW E, NEW C, NEW T \in Seq(Sessions), NEW F \in Seq(Sessions),
         NEW H, NEW R, T # << >>, InOrder(E, C, T, F, H, R)
  PROVE  /\ InOrder(E, C, Tail(T), F, H, R)
         /\ InOrder(E, C, Tail(T), F, H \cup {Head(T)}, R)
         /\ InOrder(E, C, Tail(T), Append(F, Head(T)), H, R \cup {Head(T)})
         /\ Before(H, {Head(T)} \ R)
<1> DEFINE A == Append(F, Head(T))
<1>1. /\ Range(T) = Range(Tail(T)) \cup {Head(T)}
      /\ Range(A) = Range(F) \cup {Head(T)}
  BY SequenceRanges
<1>2. \A i \in DOMAIN Tail(T) : i + 1 \in DOMAIN T /\ i + 1 > 1 /\ Tail(T)[i] = T[i + 1]
  OBVIOUS
<1>3. 1 \in DOMAIN T /\ Head(T) = T[1]
  OBVIOUS
<1>4. Before({Head(T)}, Range(Tail(T)) \ R)
  BY <1>2, <1>3 DEF InOrder, Before, Range
<1>5. ASSUME NEW i \in DOMAIN Tail(T), NEW j \in DOMAIN Tail(T), i < j,
             Tail(T)[j] \notin R, Tail(T)[i].key = Tail(T)[j].key
      PROVE  Tail(T)[i].last <= Tail(T)[j].last
  <2>1. i + 1 < j + 1
    BY <1>5
  <2> QED BY <1>2, <1>5, <2>1 DEF InOrder
<1>6. /\ Range(F) \subseteq R
      /\ Before(H \cup C \cup LoopOf(T, F), OpenOf(E))
      /\ Before(H \cup LoopOf(T, F), C)
      /\ Before(H, Range(T) \ R)
  BY DEF InOrder
<1> HIDE DEF A
<1>7. /\ Before(H \cup C \cup LoopOf(Tail(T), F), OpenOf(E))
      /\ Before((H \cup {Head(T)}) \cup C \cup LoopOf(Tail(T), F), OpenOf(E))
      /\ Before(H \cup C \cup LoopOf(Tail(T), A), OpenOf(E))
  BY <1>1, <1>6 DEF Before, LoopOf
<1>8. /\ Before(H \cup LoopOf(Tail(T), F), C)
      /\ Before((H \cup {Head(T)}) \cup LoopOf(Tail(T), F), C)
      /\ Before(H \cup LoopOf(Tail(T), A), C)
  BY <1>1, <1>6 DEF Before, LoopOf
<1>9. /\ Before(H, Range(Tail(T)) \ R)
      /\ Before(H \cup {Head(T)}, Range(Tail(T)) \ R)
      /\ Before(H, Range(Tail(T)) \ (R \cup {Head(T)}))
      /\ Before(H, {Head(T)} \ R)
  BY <1>1, <1>4, <1>6 DEF Before
<1>10. Range(A) \subseteq R \cup {Head(T)}
  BY <1>1, <1>6
<1> QED BY <1>5, <1>6, <1>7, <1>8, <1>9, <1>10 DEF InOrder, A

\* A reset leaves no window.
LEMMA ClearedInOrder ==
  ASSUME NEW E, NEW C, NEW T, NEW F, NEW H, NEW R, InOrder(E, C, T, F, H, R)
  PROVE  InOrder(EmptyStore, C, T, F, H, R)
<1>1. OpenOf(EmptyStore) = {}
  BY DEF OpenOf, EmptyStore, IsOpen
<1> QED BY <1>1 DEF InOrder, Before

-----------------------------------------------------------------------------
(* The types. *)

LEMMA PrunedTypes ==
  ASSUME SessionTypeOK, NEW at
  PROVE  /\ \A k \in Keys : \/ Pruned(at)[k] = NoSession
                            \/ Pruned(at)[k] \in Sessions /\ Pruned(at)[k].key = k
         /\ Enqueued(at) \subseteq Sessions
         /\ OpenOf(Pruned(at)) \subseteq Sessions
<1>1. \A k \in Keys : \/ Pruned(at)[k] = NoSession
                      \/ Pruned(at)[k] \in Sessions /\ Pruned(at)[k].key = k
  BY DEF SessionTypeOK, Pruned
<1>2. Enqueued(at) \subseteq Sessions
  BY OpenIsSession DEF Enqueued, Expired
<1> QED BY <1>1, <1>2 DEF OpenOf, IsOpen

LEMMA SavedRows ==
  ASSUME NEW changed, Save(changed)
  PROVE  rows' = rows \/ rows' = entries'
BY DEF Save

LEMMA StoredTypes ==
  ASSUME SessionTypeOK, NEW changed, Save(changed),
         \A k \in Keys : entries'[k] = NoSession \/ (entries'[k] \in Sessions /\ entries'[k].key = k)
  PROVE  \A k \in Keys : \A e \in {entries'[k], rows'[k]} :
           e = NoSession \/ (e \in Sessions /\ e.key = k)
<1>1. rows' = rows \/ rows' = entries'
  BY SavedRows
<1> QED BY <1>1 DEF SessionTypeOK

\* The session that a turn begins with, and the one it leaves.
LEMMA EnsuredSession ==
  ASSUME SessionTypeOK, NEW at \in 0..MaxTime, NEW k \in Keys
  PROVE  /\ Ensured(k, at) \in Sessions
         /\ Ensured(k, at).key = k
         /\ \/ IsOpen(Pruned(at)[k]) /\ Ensured(k, at) = Pruned(at)[k]
            \/ Ensured(k, at).turns = {} /\ Ensured(k, at).last = at
BY PrunedTypes DEF Ensured, NewSession, Sessions, IsOpen

Continued(k, at) ==
  [Ensured(k, at) EXCEPT !.last = at, !.turns = @ \cup {[id |-> turns, at |-> at]}]

LEMMA ContinuedSession ==
  ASSUME SessionTypeOK, NEW at \in 0..MaxTime, NEW k \in Keys, turns > 0
  PROVE  /\ Continued(k, at) \in Sessions
         /\ Continued(k, at).key = k
         /\ Continued(k, at).last = at
         /\ Continued(k, at).turns = Ensured(k, at).turns \cup {[id |-> turns, at |-> at]}
<1>1. Ensured(k, at) \in Sessions /\ Ensured(k, at).key = k
  BY EnsuredSession
<1>2. [id |-> turns, at |-> at] \in Turns
  BY BoundsAssumption DEF SessionTypeOK, Turns
<1> QED BY <1>1, <1>2 DEF Continued, Sessions

LEMMA TurnTimeIsPast ==
  ASSUME SessionInv, turn # NoTurn
  PROVE  TurnTime \in 0..now /\ turn.at <= TurnTime /\ turn.key \in Keys
<1>1. turn.at \in 0..now /\ now \in Nat /\ turn.key \in Keys
  BY BoundsAssumption DEF SessionInv, SessionTypeOK
<1> QED BY <1>1 DEF TurnTime

LEMMA TypesPreserved ==
  ASSUME SessionInv, SessionNext
  PROVE  SessionTypeOK'
<1> USE BoundsAssumption
<1>0. SessionTypeOK
  BY DEF SessionInv
<1>1. ASSUME NEW k \in Keys, NEW kind \in {"user", "report"}, BeginTurn(k, kind)
      PROVE  SessionTypeOK'
  <2>1. now \in 0..MaxTime
    BY <1>0 DEF SessionTypeOK
  <2>2. \A j \in Keys : entries'[j] = IF j = k THEN Ensured(k, now) ELSE Pruned(now)[j]
    BY <1>1 DEF BeginTurn, PruneThen, Pruned
  <2>3. \A j \in Keys : entries'[j] = NoSession \/ (entries'[j] \in Sessions /\ entries'[j].key = j)
    BY <1>0, <2>1, <2>2, EnsuredSession, PrunedTypes
  <2>4. \A j \in Keys : \A e \in {entries'[j], rows'[j]} :
           e = NoSession \/ (e \in Sessions /\ e.key = j)
    BY <1>0, <1>1, <2>3, StoredTypes DEF BeginTurn, PruneThen
  <2>5. closed' \subseteq Sessions
    BY <1>0, <1>1, PrunedTypes DEF BeginTurn, PruneThen, SessionTypeOK
  <2>6. turns' \in 0..MaxTurns
    BY <1>0, <1>1 DEF BeginTurn, SessionTypeOK
  <2>7. turn' \in [kind : {"user", "report"}, key : Keys, at : 0..MaxTime]
    BY <1>1, <2>1 DEF BeginTurn
  <2> QED BY <1>0, <1>1, <2>4, <2>5, <2>6, <2>7 DEF BeginTurn, SessionTypeOK, loopVars
<1>2. ASSUME StoreTurn PROVE SessionTypeOK'
  <2> DEFINE at == TurnTime
  <2>1. /\ at \in 0..now /\ at \in 0..MaxTime /\ turn.key \in Keys
        /\ turns > 0 /\ turn # NoTurn
    BY <1>2, TurnTimeIsPast DEF StoreTurn, SessionInv, SessionTypeOK
  <2>2. PICK k : k = turn.key
    OBVIOUS
  <2>3. entries' = [Pruned(at) EXCEPT ![k] = Continued(k, at)] /\ closed' = closed \cup Enqueued(at)
    BY <1>2, <2>2 DEF StoreTurn, PruneThen, Continued
  <2>4. \A j \in Keys : entries'[j] = IF j = k THEN Continued(k, at) ELSE Pruned(at)[j]
    BY <2>3 DEF Pruned
  <2>5. \A j \in Keys : entries'[j] = NoSession \/ (entries'[j] \in Sessions /\ entries'[j].key = j)
    BY <1>0, <2>1, <2>2, <2>4, ContinuedSession, PrunedTypes
  <2>6. \A j \in Keys : \A e \in {entries'[j], rows'[j]} :
           e = NoSession \/ (e \in Sessions /\ e.key = j)
    BY <1>0, <1>2, <2>5, StoredTypes DEF StoreTurn, PruneThen
  <2>7. closed' \subseteq Sessions
    BY <1>0, <2>3, PrunedTypes DEF SessionTypeOK
  <2> QED BY <1>0, <1>2, <2>6, <2>7 DEF StoreTurn, SessionTypeOK, loopVars
<1>3. ASSUME DropTurn PROVE SessionTypeOK'
  BY <1>0, <1>3 DEF DropTurn, SessionTypeOK, loopVars, historyVars
<1>4. ASSUME SnapshotAll PROVE SessionTypeOK'
  <2>1. \A j \in Keys : entries'[j] = NoSession \/ (entries'[j] \in Sessions /\ entries'[j].key = j)
    BY <1>0, <1>4, PrunedTypes DEF SnapshotAll, PruneThen
  <2>2. \A j \in Keys : \A e \in {entries'[j], rows'[j]} :
           e = NoSession \/ (e \in Sessions /\ e.key = j)
    BY <1>0, <1>4, <2>1, StoredTypes DEF SnapshotAll, PruneThen
  <2>3. closed' \subseteq Sessions
    BY <1>0, <1>4, PrunedTypes DEF SnapshotAll, PruneThen, SessionTypeOK
  <2> QED BY <1>0, <1>4, <2>2, <2>3 DEF SnapshotAll, SessionTypeOK, loopVars
<1>5. ASSUME NEW w \in Windows, SetWindow(w) PROVE SessionTypeOK'
  BY <1>0, <1>5 DEF SetWindow, SessionTypeOK, loopVars, historyVars
<1>6. ASSUME Reset PROVE SessionTypeOK'
  <2>1. rows' = rows \/ rows' = EmptyStore
    BY <1>6 DEF Reset
  <2>2. \A j \in Keys : \A e \in {entries'[j], rows'[j]} :
           e = NoSession \/ (e \in Sessions /\ e.key = j)
    BY <1>0, <1>6, <2>1 DEF Reset, EmptyStore, SessionTypeOK
  <2> QED BY <1>0, <1>6, <2>2 DEF Reset, SessionTypeOK, loopVars
<1>7. ASSUME Tick PROVE SessionTypeOK'
  BY <1>0, <1>7 DEF Tick, SessionTypeOK, loopVars, historyVars
<1>8. ASSUME Restart PROVE SessionTypeOK'
  <2>1. \A j \in Keys : \A e \in {entries'[j], rows'[j]} :
           e = NoSession \/ (e \in Sessions /\ e.key = j)
    BY <1>0, <1>8 DEF Restart, SessionTypeOK
  <2> QED BY <1>0, <1>8, <2>1 DEF Restart, SessionTypeOK
<1>9. ASSUME NEW at \in 0..now, Sweep(at) PROVE SessionTypeOK'
  <2>1. \A j \in Keys : entries'[j] = NoSession \/ (entries'[j] \in Sessions /\ entries'[j].key = j)
    BY <1>0, <1>9, PrunedTypes DEF Sweep
  <2>2. \A j \in Keys : \A e \in {entries'[j], rows'[j]} :
           e = NoSession \/ (e \in Sessions /\ e.key = j)
    BY <1>0, <1>9, <2>1, StoredTypes DEF Sweep
  <2>3. PICK s \in SortedByLastActive(closed \cup Enqueued(at)) : todo' = failed \o s
    BY <1>9 DEF Sweep
  <2>4. closed \cup Enqueued(at) \in SUBSET Sessions /\ IsFiniteSet(closed \cup Enqueued(at))
    BY <1>0, PrunedTypes, QueuedFinite, FS_Union DEF SessionInv, SessionTypeOK
  <2>5. s \in Seq(Sessions)
    BY <2>3, <2>4, SortedSessions
  <2>6. todo' \in Seq(Sessions)
    BY <1>0, <2>3, <2>5 DEF SessionTypeOK
  <2> QED BY <1>0, <1>9, <2>2, <2>6 DEF Sweep, SessionTypeOK, EmptyQueue
<1>10. ASSUME SkipEmpty PROVE SessionTypeOK'
  BY <1>0, <1>10 DEF SkipEmpty, SessionTypeOK, historyVars
<1>11. ASSUME NEW ok \in BOOLEAN, HandOver(ok) PROVE SessionTypeOK'
  <2>1. Head(todo) \in Sessions /\ Tail(todo) \in Seq(Sessions) /\ todo # << >>
    BY <1>0, <1>11 DEF HandOver, SessionTypeOK
  <2>2. failed' \in Seq(Sessions)
    BY <1>0, <1>11, <2>1 DEF HandOver, NextPending, SessionTypeOK
  <2>3. handed' \subseteq Sessions /\ retried' \subseteq Sessions
    BY <1>0, <1>11, <2>1 DEF HandOver, SessionTypeOK
  <2>4. twice' \subseteq Turns
    BY <1>0, <1>11, <2>1 DEF HandOver, SessionTypeOK, Sessions
  <2> QED BY <1>0, <1>11, <2>1, <2>2, <2>3, <2>4 DEF HandOver, SessionTypeOK, historyVars
<1> QED BY <1>1, <1>2, <1>3, <1>4, <1>5, <1>6, <1>7, <1>8, <1>9, <1>10, <1>11
        DEF SessionNext, VoiceStep, Environment

-----------------------------------------------------------------------------
(* The sessions themselves. *)

\* Turns are numbered and sessions are touched in the order of time.
LEMMA TimePasses ==
  ASSUME SessionInv, SessionNext
  PROVE  /\ now' \in Nat /\ now <= now'
         /\ Used \in Int /\ Used' \in Int /\ Used <= Used'
         /\ Latest \in Nat /\ Latest' \in Nat /\ Latest <= Latest' /\ Latest <= now
         /\ turn' # NoTurn => turn'.at <= now' /\ turns' > 0
<1> USE BoundsAssumption
<1>1. SessionTypeOK /\ SessionTypeOK' /\ (turn # NoTurn => turn.at <= now /\ turns > 0)
  BY TypesPreserved DEF SessionInv
<1>2. /\ now \in Nat /\ now' \in Nat /\ turns \in Nat /\ turns' \in Nat
      /\ turn # NoTurn => turn.at \in Nat
      /\ turn' # NoTurn => turn'.at \in Nat
  BY <1>1 DEF SessionTypeOK
<1>3. /\ now <= now'
      /\ \/ turn' = turn /\ turns' = turns
         \/ turn' = NoTurn /\ turns' = turns
         \/ /\ turn = NoTurn /\ turns' = turns + 1 /\ now' = now
            /\ turn' # NoTurn /\ turn'.at = now
  <2>1. ASSUME NEW k \in Keys, NEW kind \in {"user", "report"}, BeginTurn(k, kind)
        PROVE  /\ turn = NoTurn /\ turns' = turns + 1 /\ now' = now
               /\ turn' # NoTurn /\ turn'.at = now
    <3>1. turn' = [kind |-> kind, key |-> k, at |-> now]
      BY <2>1 DEF BeginTurn
    <3>2. turn' # NoTurn
      BY <3>1 DEF NoTurn
    <3> QED BY <2>1, <3>1, <3>2 DEF BeginTurn
  <2>2. CASE StoreTurn \/ DropTurn \/ Restart
    BY <1>2, <2>2 DEF StoreTurn, DropTurn, Restart
  <2>3. CASE SnapshotAll \/ Reset \/ SkipEmpty \/ \E w \in Windows : SetWindow(w)
    BY <1>2, <2>3 DEF SnapshotAll, Reset, SkipEmpty, SetWindow
  <2>4. CASE Tick
    BY <1>2, <2>4 DEF Tick
  <2>5. ASSUME NEW at \in 0..now, Sweep(at) PROVE now' = now /\ turn' = turn /\ turns' = turns
    BY <2>5 DEF Sweep
  <2>6. ASSUME NEW ok \in BOOLEAN, HandOver(ok) PROVE now' = now /\ turn' = turn /\ turns' = turns
    BY <2>6 DEF HandOver
  <2>7. CASE now' = now /\ turn' = turn /\ turns' = turns
    BY <1>2, <2>7
  <2>8. CASE VoiceStep
    BY <1>2, <2>1, <2>2, <2>8 DEF VoiceStep
  <2>9. CASE Environment
    BY <1>2, <2>2, <2>3, <2>4, <2>9 DEF Environment
  <2>10. CASE SkipEmpty
    BY <1>2, <2>3, <2>10
  <2>11. CASE (\E at \in 0..now : Sweep(at)) \/ HandOver(TRUE) \/ HandOver(FALSE)
    BY <2>5, <2>6, <2>7, <2>11
  <2> QED BY <2>8, <2>9, <2>10, <2>11 DEF SessionNext
<1>4. CASE turn' = turn /\ turns' = turns
  BY <1>1, <1>2, <1>3, <1>4 DEF Used, Latest
<1>5. CASE turn' = NoTurn /\ turns' = turns
  BY <1>1, <1>2, <1>3, <1>5 DEF Used, Latest
<1>6. CASE /\ turn = NoTurn /\ turns' = turns + 1 /\ now' = now
           /\ turn' # NoTurn /\ turn'.at = now
  BY <1>1, <1>2, <1>6 DEF Used, Latest
<1> QED BY <1>3, <1>4, <1>5, <1>6

LEMMA FineStays ==
  ASSUME SessionInv, SessionNext, NEW s, Fine(s)
  PROVE  Fine(s)'
<1> USE BoundsAssumption
<1>1. \A x \in s.turns : x.id \in Nat
  BY DEF Fine, Sessions, Turns
<1>2. s.last \in Nat
  BY DEF Fine, Sessions
<1> QED BY <1>1, <1>2, TimePasses DEF Fine, IsTalk, Touched

\* A session that a turn opens has nothing in it.
LEMMA EmptySessionIsFine ==
  ASSUME SessionTypeOK', NEW s \in Sessions, s.turns = {}, s.last <= Latest'
  PROVE  Fine(s)'
BY DEF Fine, IsTalk, Touched

\* One talk goes on when a turn is added within the window, with a greater
\* number than those before.
LEMMA ContinuedIsTalk ==
  ASSUME NEW s \in Sessions, IsTalk(s), Touched(s), NEW at \in 0..MaxTime, NEW n \in Nat,
         s.last <= at, s.turns # {} => at <= s.last + window, window \in Windows,
         \A y \in s.turns : y.id < n,
         NEW r, r.turns = s.turns \cup {[id |-> n, at |-> at]}, r.last = at
  PROVE  IsTalk(r) /\ Touched(r)
<1> USE BoundsAssumption
<1> DEFINE x == [id |-> n, at |-> at]
<1>1. \A y \in s.turns : y.at \in Nat /\ y.at <= at
  BY DEF Touched, Sessions, Turns
<1>2. x \in r.turns /\ x.at = at /\ x.id = n /\ s.turns \subseteq r.turns
      /\ \A y \in r.turns : y \in s.turns \/ y = x
  OBVIOUS
<1> HIDE DEF x
<1>3. ASSUME NEW z \in s.turns
      PROVE  \/ \A y \in r.turns : z.at <= y.at
             \/ \E y \in r.turns, w \in Windows : y.at < z.at /\ z.at <= y.at + w
             \/ \E y \in r.turns : y.at = z.at /\ y.id < z.id
  <2>1. CASE \A y \in s.turns : z.at <= y.at
    BY <1>1, <1>2, <2>1
  <2>2. CASE \E y \in s.turns, w \in Windows : y.at < z.at /\ z.at <= y.at + w
    BY <1>2, <2>2
  <2>3. CASE \E y \in s.turns : y.at = z.at /\ y.id < z.id
    BY <1>2, <2>3
  <2> QED BY <2>1, <2>2, <2>3 DEF IsTalk
<1>4. \/ \A y \in r.turns : x.at <= y.at
      \/ \E y \in r.turns, w \in Windows : y.at < x.at /\ x.at <= y.at + w
      \/ \E y \in r.turns : y.at = x.at /\ y.id < x.id
  <2>1. CASE s.turns = {}
    BY <1>2, <2>1
  <2>2. CASE s.turns # {}
    <3>1. PICK y \in s.turns : y.at = s.last
      BY <2>2 DEF Touched
    <3>2. y \in r.turns /\ y.at <= at /\ at <= y.at + window /\ y.id < n /\ y.at \in Nat
      BY <1>1, <1>2, <2>2, <3>1
    <3>3. CASE y.at < at
      BY <1>2, <3>2, <3>3
    <3>4. CASE y.at = at
      BY <1>2, <3>2, <3>4
    <3> QED BY <3>2, <3>3, <3>4
  <2> QED BY <2>1, <2>2
<1>5. IsTalk(r)
  BY <1>2, <1>3, <1>4 DEF IsTalk
<1>6. Touched(r)
  BY <1>1, <1>2 DEF Touched
<1> QED BY <1>5, <1>6

\* What a turn has and the key had not: a turn with a number not used before.
IsFresh(e, P) ==
  \A x \in e.turns : (IsOpen(P) /\ x \in P.turns) \/ x.id > Used

LEMMA ContinuedIsFine ==
  ASSUME SessionInv, SessionNext, StoreTurn, NEW e, e = Continued(turn.key, TurnTime)
  PROVE  Fine(e)' /\ IsFresh(e, Pruned(TurnTime)[turn.key]) /\ Latest <= e.last
<1> USE BoundsAssumption, WindowsAssumption
<1>1. PICK k : k = turn.key
  OBVIOUS
<1>2. PICK at : at = TurnTime
  OBVIOUS
<1> DEFINE s == Ensured(k, at)
<1>3. /\ at \in 0..now /\ turn.at <= at /\ k \in Keys /\ turn # NoTurn
      /\ now \in 0..MaxTime /\ turns > 0 /\ turns \in 0..MaxTurns
      /\ turn' = NoTurn /\ turns' = turns /\ now' = now /\ SessionTypeOK
      /\ window \in Windows /\ turn.at \in Nat
  BY <1>1, <1>2, TurnTimeIsPast DEF StoreTurn, SessionInv, SessionTypeOK
<1>4. at \in 0..MaxTime
  BY <1>3
<1>5. /\ e \in Sessions /\ e.last = at /\ e.turns = s.turns \cup {[id |-> turns, at |-> at]}
  BY <1>1, <1>2, <1>3, <1>4, ContinuedSession
<1>6. Used = turns - 1 /\ Used' = turns /\ Latest = turn.at /\ Latest' = now
  BY <1>3 DEF Used, Latest
<1>7. s \in Sessions
  BY <1>3, <1>4, EnsuredSession
<1>8. /\ IsTalk(s) /\ Touched(s) /\ s.last <= at
      /\ s.turns # {} => at <= s.last + window
      /\ \A y \in s.turns : y.id <= Used
  <2>1. CASE IsOpen(Pruned(at)[k]) /\ s = Pruned(at)[k]
    <3>1. s = entries[k] /\ IsOpen(entries[k]) /\ ~(at > s.last + window)
      BY <1>3, <2>1, PrunedWindows
    <3>2. Fine(s)
      BY <1>3, <3>1 DEF SessionInv, Everywhere, Known, OpenSessions
    <3>3. s.last \in Nat /\ window \in Nat
      BY <1>3, <1>7 DEF Sessions
    <3> QED BY <1>3, <1>6, <3>1, <3>2, <3>3 DEF Fine
  <2>2. CASE s.turns = {} /\ s.last = at
    BY <1>3, <2>2 DEF IsTalk, Touched
  <2> HIDE DEF s
  <2> QED BY <1>3, <1>4, <2>1, <2>2, EnsuredSession DEF s
<1>9. \A y \in s.turns : y.id \in Nat /\ y.id < turns
  BY <1>3, <1>6, <1>7, <1>8 DEF Sessions, Turns
<1> HIDE DEF s
<1>10. IsTalk(e) /\ Touched(e)
  BY <1>3, <1>4, <1>5, <1>7, <1>8, <1>9, ContinuedIsTalk
<1>11. \A x \in e.turns : x.id <= Used'
  BY <1>3, <1>5, <1>6, <1>9
<1>12. e.last <= Latest'
  BY <1>3, <1>5, <1>6
<1>13. Fine(e)'
  BY <1>5, <1>10, <1>11, <1>12 DEF Fine, IsTalk, Touched
<1>14. IsFresh(e, Pruned(at)[k])
  <2>1. ASSUME NEW x \in e.turns, ~(x.id > Used)
        PROVE  IsOpen(Pruned(at)[k]) /\ x \in Pruned(at)[k].turns
    <3>1. x \in s.turns
      BY <1>3, <1>5, <1>6, <2>1
    <3> QED BY <1>3, <1>4, <3>1, EnsuredSession DEF s
  <2> QED BY <2>1 DEF IsFresh
<1> QED BY <1>1, <1>2, <1>3, <1>5, <1>6, <1>13, <1>14

-----------------------------------------------------------------------------
(* What pruning and a change of one window leave of the invariant. *)

\* A commit of the windows: a row that shares a turn is the session itself.
LEMMA RowsOfWindows ==
  ASSUME NEW E, NEW C, NEW T, NEW F, NEW H, Apart(E, C, T, F),
         SummarisedApart(H, OpenOf(E)),
         \A k \in Keys : IsOpen(E[k]) => E[k] \in Sessions
  PROVE  RowsLag(E, OpenOf(E) \cup C \cup LoopOf(T, F) \cup H)
<1> USE BoundsAssumption
<1> SUFFICES ASSUME NEW k \in Keys, IsOpen(E[k]),
                    NEW s \in OpenOf(E) \cup C \cup LoopOf(T, F) \cup H,
                    ~Disjoint(E[k], s)
             PROVE  E[k].last <= s.last
  BY DEF RowsLag
<1>1. E[k] \in OpenOf(E) /\ E[k].last \in Nat
  BY DEF OpenOf, Sessions
<1>2. s \notin C \cup LoopOf(T, F)
  BY <1>1 DEF Apart
<1>3. s \notin H
  BY <1>1 DEF SummarisedApart, Disjoint
<1>4. PICK j \in Keys : IsOpen(E[j]) /\ s = E[j]
  BY <1>2, <1>3 DEF OpenOf
<1>5. j = k
  BY <1>4 DEF Apart, KeysApart
<1> QED BY <1>1, <1>4, <1>5

\* The rows that were committed before lag behind a session that goes on.
LEMMA RowsOfOpened ==
  ASSUME NEW E, NEW R, NEW W, DOMAIN E = Keys, RowsLag(R, OpenOf(E) \cup W),
         NEW k \in Keys, NEW e \in Sessions,
         \A j \in Keys : IsOpen(R[j]) => R[j] \in Sessions,
         IsOpen(E[k]) => E[k] \in Sessions /\ E[k].last <= e.last,
         \A x \in e.turns : \/ IsOpen(E[k]) /\ x \in E[k].turns
                            \/ \A s \in OpenOf(R) : x \notin s.turns
  PROVE  RowsLag(R, OpenOf([E EXCEPT ![k] = e]) \cup W)
<1> USE BoundsAssumption
<1> DEFINE N == [E EXCEPT ![k] = e]
<1>1. OpenOf(N) \subseteq OpenOf(E) \cup {e}
  BY DEF OpenOf
<1>2. ASSUME NEW j \in Keys, IsOpen(R[j]), ~Disjoint(R[j], e)
      PROVE  R[j].last <= e.last
  <2>1. PICK x : x \in R[j].turns /\ x \in e.turns
    BY <1>2 DEF Disjoint
  <2>2. R[j] \in OpenOf(R)
    BY <1>2 DEF OpenOf
  <2>3. IsOpen(E[k]) /\ x \in E[k].turns
    BY <2>1, <2>2
  <2>4. E[k] \in OpenOf(E) /\ ~Disjoint(R[j], E[k])
    BY <2>1, <2>3 DEF OpenOf, Disjoint
  <2>5. R[j].last <= E[k].last
    BY <1>2, <2>4 DEF RowsLag
  <2>6. R[j].last \in Nat /\ E[k].last \in Nat /\ e.last \in Nat
    BY <1>2, <2>3 DEF Sessions
  <2> QED BY <2>3, <2>5, <2>6
<1> HIDE DEF N
<1>3. RowsLag(R, OpenOf(N) \cup W)
  BY <1>1, <1>2 DEF RowsLag
<1> QED BY <1>3 DEF N

LEMMA PrunedTooOld ==
  ASSUME SessionInv, NEW at \in 0..now, TooOld(WaitingSessions \cup handed)
  PROVE  TooOld((closed \cup Enqueued(at)) \cup LoopOf(todo, failed) \cup handed)
<1> USE BoundsAssumption, WindowsAssumption
<1> SUFFICES ASSUME NEW s \in Enqueued(at) PROVE now > s.last + window
  BY DEF TooOld, LoopOf, WaitingSessions
<1>1. s \in Sessions /\ now \in Nat /\ window \in Nat /\ at > s.last + window
  BY PrunedTypes, QueuedSessions DEF SessionInv, SessionTypeOK
<1> QED BY <1>1 DEF Sessions

LEMMA KnownSessions ==
  ASSUME SessionInv, NEW at
  PROVE  /\ OpenOf(Pruned(at)) \cup (closed \cup Enqueued(at)) \cup LoopOf(todo, failed)
              = OpenSessions \cup WaitingSessions
         /\ OpenSessions = OpenOf(entries)
         /\ WaitingSessions = closed \cup LoopOf(todo, failed)
<1>1. OpenOf(Pruned(at)) \cup Enqueued(at) = OpenSessions
  BY PrunedSessions DEF SessionInv
<1> QED BY <1>1 DEF WaitingSessions, LoopOf, OpenOf, OpenSessions

\* The parts of the invariant that speak of the store, after a locked section
\* that pruned and then left `new`.
StoreInv ==
  /\ Apart(entries, closed, todo, failed)
  /\ KeysApart(rows)
  /\ widened \/ WhileNotWidened

LEMMA StoreStep ==
  ASSUME SessionInv, now' = now, UNCHANGED <<window, widened, loopVars>>,
         NEW E, NEW C, entries' = E, closed' = C, rows' = rows \/ rows' = E,
         Apart(E, C, todo, failed),
         \A k \in Keys : IsOpen(E[k]) => E[k] \in Sessions,
         ~widened => LET S == OpenOf(E) \cup C \cup LoopOf(todo, failed)
                     IN  /\ TooOld(C \cup LoopOf(todo, failed) \cup handed)
                         /\ RowsLag(rows, S \cup handed)
                         /\ SummarisedApart(handed, S)
                         /\ InOrder(E, C, todo, failed, handed, retried)
  PROVE  StoreInv'
<1> DEFINE S == OpenOf(E) \cup C \cup LoopOf(todo, failed)
<1>1. /\ todo' = todo /\ failed' = failed /\ handed' = handed /\ twice' = twice
      /\ retried' = retried /\ window' = window /\ widened' = widened
  BY DEF loopVars
<1>2. KeysApart(rows')
  BY DEF SessionInv, Apart
<1>3. OpenSessions' = OpenOf(E) /\ WaitingSessions' = C \cup LoopOf(todo, failed)
  BY <1>1 DEF OpenSessions, WaitingSessions, OpenOf, LoopOf
<1>4. ASSUME ~widened PROVE WhileNotWidened'
  <2>1. RowsLag(E, S \cup handed)
    <3>1. SummarisedApart(handed, OpenOf(E))
      BY <1>4 DEF SummarisedApart
    <3> QED BY <3>1, RowsOfWindows
  <2>2. RowsLag(rows', S \cup handed)
    BY <1>4, <2>1
  <2>3. twice' = {}
    BY <1>1, <1>4 DEF WhileNotWidened, SessionInv
  <2>4. TooOld(WaitingSessions \cup handed)'
    BY <1>1, <1>3, <1>4 DEF TooOld
  <2>5. RowsLag(rows, OpenSessions \cup WaitingSessions \cup handed)'
    BY <1>1, <1>3, <2>2 DEF RowsLag
  <2>6. SummarisedApart(handed, OpenSessions \cup WaitingSessions)'
    BY <1>1, <1>3, <1>4 DEF SummarisedApart
  <2>7. InOrder(entries, closed, todo, failed, handed, retried)'
    BY <1>1, <1>4 DEF InOrder, OpenOf, LoopOf, Before
  <2> QED BY <2>3, <2>4, <2>5, <2>6, <2>7 DEF WhileNotWidened
<1>5. Apart(entries, closed, todo, failed)' /\ KeysApart(rows)'
  BY <1>1, <1>2 DEF Apart, KeysApart, OpenOf, LoopOf
<1> QED BY <1>1, <1>4, <1>5 DEF StoreInv

\* What pruning alone leaves: the store of SnapshotAll.
LEMMA PrunedStore ==
  ASSUME SessionInv, NEW at \in 0..now
  PROVE  LET P == Pruned(at)
             C == closed \cup Enqueued(at)
             S == OpenOf(P) \cup C \cup LoopOf(todo, failed)
         IN  /\ Apart(P, C, todo, failed)
             /\ \A k \in Keys : IsOpen(P[k]) => P[k] \in Sessions /\ P[k].key = k
             /\ S = OpenSessions \cup WaitingSessions
             /\ ~widened => /\ TooOld(C \cup LoopOf(todo, failed) \cup handed)
                            /\ RowsLag(rows, S \cup handed)
                            /\ SummarisedApart(handed, S)
                            /\ InOrder(P, C, todo, failed, handed, retried)
<1>1. SessionTypeOK /\ Apart(entries, closed, todo, failed)
  BY DEF SessionInv
<1>2. Apart(Pruned(at), closed \cup Enqueued(at), todo, failed)
  BY <1>1, PrunedApart
<1>3. ~widened => WhileNotWidened
  BY DEF SessionInv
<1> QED BY <1>1, <1>2, <1>3, KnownSessions, PrunedTooOld, PrunedInOrder, PrunedTypes
        DEF WhileNotWidened, IsOpen

LEMMA PruneStep ==
  ASSUME SessionInv, NEW at \in 0..now, PruneThen(at, Pruned(at)), now' = now,
         UNCHANGED <<window, widened, loopVars>>
  PROVE  /\ StoreInv' /\ Everywhere' \subseteq Everywhere
         /\ Known' = Known
<1>1. /\ entries' = Pruned(at) /\ closed' = closed \cup Enqueued(at)
      /\ rows' = rows \/ rows' = Pruned(at)
      /\ todo' = todo /\ failed' = failed /\ handed' = handed
  BY SavedRows DEF PruneThen, loopVars
<1>2. StoreInv'
  BY <1>1, PrunedStore, StoreStep
<1>3. OpenSessions' \cup WaitingSessions' = OpenSessions \cup WaitingSessions
  BY <1>1, KnownSessions DEF OpenSessions, WaitingSessions, OpenOf, LoopOf
<1>4. OpenOf(rows)' \subseteq OpenOf(rows) \cup OpenSessions'
  BY <1>1 DEF OpenOf, OpenSessions
<1> QED BY <1>1, <1>2, <1>3, <1>4 DEF Everywhere, Known

\* What an opened or continued session changes.
LEMMA OpenStep ==
  ASSUME SessionInv, NEW at \in 0..now, NEW k \in Keys, NEW e \in Sessions, e.key = k,
         PruneThen(at, [Pruned(at) EXCEPT ![k] = e]), now' = now,
         UNCHANGED <<window, widened, loopVars>>,
         IsFresh(e, Pruned(at)[k]), Latest <= e.last, Latest \in Nat
  PROVE  StoreInv' /\ Everywhere' \subseteq Everywhere \cup {e}
<1> USE BoundsAssumption
<1> DEFINE P == Pruned(at)
           N == [P EXCEPT ![k] = e]
           C == closed \cup Enqueued(at)
           L == LoopOf(todo, failed)
<1>1. /\ entries' = N /\ closed' = C
      /\ rows' = rows \/ rows' = N
      /\ todo' = todo /\ failed' = failed /\ handed' = handed
  BY SavedRows DEF PruneThen, loopVars
<1>2. /\ DOMAIN P = Keys
      /\ \A j \in Keys : N[j] = IF j = k THEN e ELSE P[j]
  BY DEF Pruned
<1>3. /\ Apart(P, C, todo, failed)
      /\ \A j \in Keys : IsOpen(P[j]) => P[j] \in Sessions /\ P[j].key = j
      /\ OpenOf(P) \cup C \cup L = OpenSessions \cup WaitingSessions
      /\ ~widened => /\ TooOld(C \cup L \cup handed)
                     /\ RowsLag(rows, OpenOf(P) \cup (C \cup L \cup handed))
                     /\ SummarisedApart(handed, OpenOf(P) \cup C \cup L)
                     /\ InOrder(P, C, todo, failed, handed, retried)
  <2>1. OpenOf(P) \cup (C \cup L \cup handed) = (OpenOf(P) \cup C \cup L) \cup handed
    OBVIOUS
  <2> QED BY <2>1, PrunedStore
<1> HIDE DEF P, N, C, L
<1>4. OpenOf(N) \subseteq OpenOf(P) \cup {e}
  BY <1>2 DEF OpenOf
<1>5. \A s \in Everywhere : /\ s \in Sessions /\ s.last <= e.last
                            /\ \A x \in s.turns : ~(x.id > Used)
  <2> SUFFICES ASSUME NEW s \in Everywhere
               PROVE  /\ s \in Sessions /\ s.last <= e.last
                      /\ \A x \in s.turns : ~(x.id > Used)
    OBVIOUS
  <2>1. Fine(s)
    BY DEF SessionInv
  <2>2. turns \in Nat
    BY DEF SessionInv, SessionTypeOK
  <2>3. s.last \in Nat /\ e.last \in Nat /\ Used \in Int /\ \A x \in s.turns : x.id \in Nat
    BY <2>1, <2>2 DEF Fine, Sessions, Turns, Used
  <2> QED BY <2>1, <2>3 DEF Fine
<1>6. \A s \in OpenOf(P) \cup C \cup L \cup handed \cup OpenOf(rows) : s \in Everywhere
  BY <1>3 DEF Everywhere, Known
<1>7. \A x \in e.turns : \/ IsOpen(P[k]) /\ x \in P[k].turns
                         \/ \A s \in Everywhere : x \notin s.turns
  BY <1>5 DEF IsFresh, P
<1>8. Apart(N, C, todo, failed)
  BY <1>2, <1>3, <1>6, <1>7, OpenedApart DEF N, L
<1>9. \A j \in Keys : IsOpen(N[j]) => N[j] \in Sessions
  BY <1>2, <1>3
<1>10. ASSUME ~widened
       PROVE  /\ TooOld(C \cup L \cup handed)
              /\ RowsLag(rows, (OpenOf(N) \cup C \cup L) \cup handed)
              /\ SummarisedApart(handed, OpenOf(N) \cup C \cup L)
              /\ InOrder(N, C, todo, failed, handed, retried)
  <2>1. InOrder(N, C, todo, failed, handed, retried)
    <3>1. \A s \in handed \cup C \cup LoopOf(todo, failed) : s.last <= e.last
      BY <1>5, <1>6 DEF L
    <3> QED BY <1>2, <1>3, <1>10, <3>1, OpenedInOrder DEF N
  <2>2. SummarisedApart(handed, {e})
    <3> SUFFICES ASSUME NEW h \in handed, NEW x \in e.turns, x \in h.turns PROVE FALSE
      BY DEF SummarisedApart, Disjoint
    <3>1. IsOpen(P[k]) /\ x \in P[k].turns
      BY <1>6, <1>7
    <3>2. P[k] \in OpenOf(P)
      BY <3>1 DEF OpenOf
    <3> QED BY <1>3, <1>10, <3>1, <3>2 DEF SummarisedApart, Disjoint
  <2>3. SummarisedApart(handed, OpenOf(N) \cup C \cup L)
    BY <1>3, <1>4, <1>10, <2>2 DEF SummarisedApart
  <2>4. RowsLag(rows, OpenOf(N) \cup (C \cup L \cup handed))
    <3>1. \A j \in Keys : IsOpen(rows[j]) => rows[j] \in Sessions
      BY RowIsSession DEF SessionInv
    <3>2. IsOpen(P[k]) => P[k] \in Sessions /\ P[k].last <= e.last
      BY <1>3, <1>5, <1>6 DEF OpenOf
    <3>3. \A x \in e.turns : \/ IsOpen(P[k]) /\ x \in P[k].turns
                             \/ \A s \in OpenOf(rows) : x \notin s.turns
      BY <1>6, <1>7
    <3> QED BY <1>2, <1>3, <1>10, <3>1, <3>2, <3>3, RowsOfOpened DEF N
  <2>5. OpenOf(N) \cup (C \cup L \cup handed) = (OpenOf(N) \cup C \cup L) \cup handed
    OBVIOUS
  <2> QED BY <1>3, <1>10, <2>1, <2>3, <2>4, <2>5
<1>11. StoreInv'
  BY <1>1, <1>8, <1>9, <1>10, StoreStep DEF L
<1>12. OpenSessions' = OpenOf(N) /\ WaitingSessions' = C \cup L
  BY <1>1 DEF OpenSessions, WaitingSessions, OpenOf, LoopOf, L
<1>13. OpenOf(rows)' \subseteq OpenOf(rows) \cup OpenOf(N)
  BY <1>1 DEF OpenOf
<1> QED BY <1>1, <1>4, <1>6, <1>11, <1>12, <1>13 DEF Everywhere, Known

-----------------------------------------------------------------------------
(* The actions. *)

\* What is left to show of an action once its types and the time are settled.
Keeps(new) ==
  /\ IsFiniteSet(closed')
  /\ \A s \in Everywhere' : s \in Everywhere \/ s = new
  /\ StoreInv'

LEMMA BeginTurnKeeps ==
  ASSUME SessionInv, SessionNext,
         NEW k \in Keys, NEW kind \in {"user", "report"}, BeginTurn(k, kind)
  PROVE  \E e : Keeps(e) /\ Fine(e)'
<1> USE BoundsAssumption
<1>1. /\ now \in 0..MaxTime /\ now \in 0..now /\ Latest = now /\ Latest' = now
      /\ SessionTypeOK /\ IsFiniteSet(closed)
      /\ now' = now /\ UNCHANGED <<window, widened, loopVars>>
      /\ PruneThen(now, [Pruned(now) EXCEPT ![k] = Ensured(k, now)])
  <2>1. turn = NoTurn /\ turn' # NoTurn /\ turn'.at = now
    BY DEF BeginTurn, NoTurn
  <2> QED BY <2>1 DEF BeginTurn, Latest, SessionInv, SessionTypeOK
<1>2. IsFiniteSet(closed')
  BY <1>1, QueuedFinite, FS_Union DEF PruneThen
<1>3. PICK e : e = Ensured(k, now)
  OBVIOUS
<1>4. e \in Sessions /\ e.key = k
  BY <1>1, <1>3, EnsuredSession
<1>5. CASE IsOpen(Pruned(now)[k]) /\ e = Pruned(now)[k]
  <2>1. [Pruned(now) EXCEPT ![k] = e] = Pruned(now)
    BY <1>5 DEF Pruned
  <2>2. StoreInv' /\ Everywhere' \subseteq Everywhere
    BY <1>1, <1>3, <2>1, PruneStep
  <2>3. Fine(e)
    BY <1>1, <1>5, PrunedWindows DEF SessionInv, Everywhere, Known, OpenSessions
  <2> QED BY <1>2, <2>2, <2>3, FineStays DEF Keeps
<1>6. CASE e.turns = {} /\ e.last = now
  <2>1. IsFresh(e, Pruned(now)[k]) /\ Latest <= e.last /\ Latest \in Nat
    BY <1>1, <1>6 DEF IsFresh
  <2>2. StoreInv' /\ Everywhere' \subseteq Everywhere \cup {e}
    BY <1>1, <1>3, <1>4, <2>1, OpenStep
  <2>3. Fine(e)'
    BY <1>1, <1>4, <1>6, TypesPreserved, EmptySessionIsFine
  <2> QED BY <1>2, <2>2, <2>3 DEF Keeps
<1> QED BY <1>1, <1>3, <1>5, <1>6, EnsuredSession

LEMMA StoreTurnKeeps ==
  ASSUME SessionInv, SessionNext, StoreTurn
  PROVE  \E e : Keeps(e) /\ Fine(e)'
<1>1. PICK k : k = turn.key
  OBVIOUS
<1>2. PICK at : at = TurnTime
  OBVIOUS
<1>3. PICK e : e = Continued(k, at)
  OBVIOUS
<1>4. /\ at \in 0..now /\ at \in 0..MaxTime /\ k \in Keys /\ turns > 0
      /\ SessionTypeOK /\ IsFiniteSet(closed)
  BY <1>1, <1>2, TurnTimeIsPast, BoundsAssumption DEF StoreTurn, SessionInv, SessionTypeOK
<1>5. Fine(e)' /\ IsFresh(e, Pruned(at)[k]) /\ Latest <= e.last /\ Latest \in Nat
  BY <1>1, <1>2, <1>3, ContinuedIsFine, TimePasses
<1>6. e \in Sessions /\ e.key = k
  BY <1>3, <1>4, ContinuedSession
<1>7. PruneThen(at, [Pruned(at) EXCEPT ![k] = e])
  BY <1>1, <1>2, <1>3 DEF StoreTurn, Continued
<1>8. StoreInv' /\ Everywhere' \subseteq Everywhere \cup {e}
  BY <1>4, <1>5, <1>6, <1>7, OpenStep DEF StoreTurn
<1>9. IsFiniteSet(closed')
  BY <1>4, <1>7, QueuedFinite, FS_Union DEF PruneThen
<1> QED BY <1>5, <1>8, <1>9 DEF Keeps

LEMMA SnapshotAllStays ==
  ASSUME SessionInv, SnapshotAll
  PROVE  IsFiniteSet(closed') /\ StoreInv' /\ Everywhere' \subseteq Everywhere
<1>1. now \in 0..now /\ IsFiniteSet(closed)
  BY BoundsAssumption DEF SessionInv, SessionTypeOK
<1>2. IsFiniteSet(closed')
  BY <1>1, QueuedFinite, FS_Union DEF SnapshotAll, PruneThen
<1> QED BY <1>1, <1>2, PruneStep DEF SnapshotAll

LEMMA SweepStays ==
  ASSUME SessionInv, NEW at \in 0..now, Sweep(at)
  PROVE  /\ IsFiniteSet(closed') /\ StoreInv' /\ Everywhere' \subseteq Everywhere
         /\ Known' = Known
<1> DEFINE P == Pruned(at)
           C == closed \cup Enqueued(at)
<1>1. PICK s \in SortedByLastActive(C) : todo' = failed \o s
  BY DEF Sweep
<1>2. /\ todo = << >> /\ entries' = P /\ closed' = {} /\ failed' = << >>
      /\ rows' = rows \/ rows' = P
      /\ UNCHANGED <<now, window, handed, twice, retried, widened>>
  BY SavedRows DEF Sweep, EmptyQueue
<1>3. C \in SUBSET Sessions /\ IsFiniteSet(C) /\ failed \in Seq(Sessions)
  BY PrunedTypes, QueuedFinite, FS_Union DEF SessionInv, SessionTypeOK
<1>4. /\ s \in Seq(Sessions) /\ Range(s) = C
      /\ \A i, j \in DOMAIN s : i # j => s[i] # s[j]
      /\ \A i, j \in DOMAIN s : i < j => s[i].last <= s[j].last
  BY <1>3, SortedSessions
<1>5. /\ Apart(P, C, << >>, failed)
      /\ \A k \in Keys : IsOpen(P[k]) => P[k] \in Sessions
      /\ OpenOf(P) \cup C \cup LoopOf(<< >>, failed) = OpenSessions \cup WaitingSessions
      /\ ~widened => /\ TooOld(C \cup LoopOf(<< >>, failed) \cup handed)
                     /\ RowsLag(rows, OpenOf(P) \cup C \cup LoopOf(<< >>, failed) \cup handed)
                     /\ SummarisedApart(handed, OpenOf(P) \cup C \cup LoopOf(<< >>, failed))
                     /\ InOrder(P, C, << >>, failed, handed, retried)
  BY <1>2, PrunedStore
<1> HIDE DEF P, C
<1>6. LoopOf(todo', << >>) = C \cup LoopOf(<< >>, failed) /\ LoopOf(todo, failed) = LoopOf(<< >>, failed)
  BY <1>1, <1>2, <1>3, <1>4, SequenceRanges DEF LoopOf
<1>7. Apart(P, {}, todo', << >>)
  BY <1>1, <1>3, <1>4, <1>5, PoppedApart
<1>8. OpenSessions' = OpenOf(P) /\ WaitingSessions' = C \cup LoopOf(<< >>, failed)
  BY <1>2, <1>6 DEF OpenSessions, WaitingSessions, OpenOf, LoopOf
<1>9. KeysApart(rows')
  BY <1>2, <1>5 DEF SessionInv, Apart
<1>10. ASSUME ~widened PROVE WhileNotWidened'
  <2>1. InOrder(P, {}, todo', << >>, handed, retried)
    BY <1>1, <1>3, <1>4, <1>5, <1>10, PoppedInOrder
  <2>2. RowsLag(P, OpenOf(P) \cup C \cup LoopOf(<< >>, failed) \cup handed)
    <3>1. SummarisedApart(handed, OpenOf(P))
      BY <1>5, <1>10 DEF SummarisedApart
    <3> QED BY <1>5, <3>1, RowsOfWindows
  <2>3. RowsLag(rows', OpenOf(P) \cup C \cup LoopOf(<< >>, failed) \cup handed)
    BY <1>2, <1>5, <1>10, <2>2
  <2>4. twice' = {}
    BY <1>2, <1>10 DEF WhileNotWidened, SessionInv
  <2>5. TooOld(WaitingSessions \cup handed)'
    BY <1>2, <1>5, <1>8, <1>10 DEF TooOld
  <2>6. RowsLag(rows, OpenSessions \cup WaitingSessions \cup handed)'
    BY <1>2, <1>8, <2>3 DEF RowsLag
  <2>7. SummarisedApart(handed, OpenSessions \cup WaitingSessions)'
    BY <1>2, <1>5, <1>8, <1>10 DEF SummarisedApart
  <2>8. InOrder(entries, closed, todo, failed, handed, retried)'
    BY <1>2, <2>1 DEF InOrder, OpenOf, LoopOf, Before
  <2> QED BY <2>3, <2>4, <2>5, <2>6, <2>7, <2>8 DEF WhileNotWidened
<1>11. Apart(entries, closed, todo, failed)' /\ KeysApart(rows)'
  BY <1>2, <1>7, <1>9 DEF Apart, KeysApart, OpenOf, LoopOf
<1>12. StoreInv'
  BY <1>2, <1>10, <1>11 DEF StoreInv
<1>13. OpenOf(rows)' \subseteq OpenOf(rows) \cup OpenOf(P)
  BY <1>2 DEF OpenOf
<1>14. Everywhere' \subseteq Everywhere
  BY <1>2, <1>5, <1>8, <1>13 DEF Everywhere, Known
<1>15. IsFiniteSet(closed')
  BY <1>2, FS_EmptySet
<1>16. Known' = Known
  BY <1>2, <1>5, <1>8 DEF Known
<1> QED BY <1>12, <1>14, <1>15, <1>16

\* The actions that leave the store and the loop alone.
LEMMA OthersStay ==
  ASSUME SessionInv, DropTurn \/ Tick \/ \E w \in Windows : SetWindow(w)
  PROVE  IsFiniteSet(closed') /\ StoreInv' /\ Everywhere' \subseteq Everywhere
<1> USE BoundsAssumption, WindowsAssumption
<1>1. /\ entries' = entries /\ closed' = closed /\ rows' = rows /\ todo' = todo
      /\ failed' = failed /\ handed' = handed /\ twice' = twice /\ retried' = retried
  BY DEF DropTurn, Tick, SetWindow, historyVars, loopVars
<1>2. /\ now \in Nat /\ window \in Nat /\ widened \in BOOLEAN
      /\ now' \in Nat /\ now <= now' /\ window' \in Nat /\ widened' \in BOOLEAN
      /\ widened => widened'
      /\ ~widened' => window' <= window
  <2>1. now \in Nat /\ window \in Nat /\ widened \in BOOLEAN
    BY DEF SessionInv, SessionTypeOK
  <2>2. CASE DropTurn \/ Tick
    BY <2>1, <2>2 DEF DropTurn, Tick
  <2>3. CASE \E w \in Windows : SetWindow(w)
    <3>1. PICK w \in Windows : SetWindow(w)
      BY <2>3
    <3>2. w \in Nat /\ window' = w /\ now' = now /\ widened' \in BOOLEAN /\ (widened => widened')
      BY <3>1 DEF SetWindow
    <3>3. ~widened' => ~(w > window)
      BY <3>1 DEF SetWindow
    <3> QED BY <2>1, <3>2, <3>3
  <2> QED BY <2>2, <2>3
<1>3. ASSUME ~widened' PROVE WhileNotWidened'
  <2>1. WhileNotWidened
    BY <1>2, <1>3 DEF SessionInv
  <2>2. ASSUME NEW s \in WaitingSessions \cup handed PROVE now' > s.last + window'
    <3>1. now > s.last + window
      BY <2>1 DEF WhileNotWidened, TooOld
    <3>2. s.last \in Nat
      BY DEF SessionInv, Everywhere, Known, Fine, Sessions
    <3> QED BY <1>2, <1>3, <3>1, <3>2
  <2>3. TooOld(WaitingSessions \cup handed)'
    BY <1>1, <2>2 DEF TooOld, WaitingSessions
  <2>4. twice' = {} /\ InOrder(entries, closed, todo, failed, handed, retried)'
    BY <1>1, <2>1 DEF WhileNotWidened, InOrder, OpenOf, LoopOf, Before
  <2>5. SummarisedApart(handed, OpenSessions \cup WaitingSessions)'
    BY <1>1, <2>1 DEF WhileNotWidened, SummarisedApart, OpenSessions, WaitingSessions
  <2>6. RowsLag(rows, OpenSessions \cup WaitingSessions \cup handed)'
    BY <1>1, <2>1 DEF WhileNotWidened, RowsLag, OpenSessions, WaitingSessions
  <2> QED BY <2>3, <2>4, <2>5, <2>6 DEF WhileNotWidened
<1>4. Apart(entries, closed, todo, failed)' /\ KeysApart(rows)'
  BY <1>1 DEF SessionInv, Apart, KeysApart, OpenOf, LoopOf
<1>5. Everywhere' \subseteq Everywhere
  BY <1>1 DEF Everywhere, Known, OpenSessions, WaitingSessions, OpenOf
<1> QED BY <1>1, <1>3, <1>4, <1>5 DEF StoreInv, SessionInv

LEMMA NothingOpen == OpenOf(EmptyStore) = {}
BY DEF OpenOf, EmptyStore, IsOpen

LEMMA ResetStays ==
  ASSUME SessionInv, Reset
  PROVE  IsFiniteSet(closed') /\ StoreInv' /\ Everywhere' \subseteq Everywhere
<1>0. PICK E : E = EmptyStore
  OBVIOUS
<1>1. /\ closed' = closed /\ todo' = todo /\ failed' = failed /\ handed' = handed
      /\ entries' = E
      /\ rows' = rows \/ rows' = E
      /\ now' = now /\ UNCHANGED <<window, widened, loopVars>>
  BY <1>0 DEF Reset, loopVars
<1>2. Apart(E, closed, todo, failed)
  <2>1. KeysApart(E)
    BY <1>0 DEF KeysApart, EmptyStore, IsOpen
  <2>2. Apart(entries, closed, todo, failed)
    BY DEF SessionInv
  <2> QED BY <1>0, <2>1, <2>2, NothingOpen DEF Apart
<1>3. \A k \in Keys : IsOpen(E[k]) => E[k] \in Sessions
  BY <1>0 DEF EmptyStore, IsOpen
<1>4. ASSUME ~widened
      PROVE  LET S == OpenOf(E) \cup closed \cup LoopOf(todo, failed)
             IN  /\ TooOld(closed \cup LoopOf(todo, failed) \cup handed)
                 /\ RowsLag(rows, S \cup handed)
                 /\ SummarisedApart(handed, S)
                 /\ InOrder(E, closed, todo, failed, handed, retried)
  <2>1. WhileNotWidened
    BY <1>4 DEF SessionInv
  <2>2. OpenOf(E) \cup closed \cup LoopOf(todo, failed) = WaitingSessions
    BY <1>0, NothingOpen DEF WaitingSessions, LoopOf
  <2>3. closed \cup LoopOf(todo, failed) \cup handed = WaitingSessions \cup handed
    BY DEF WaitingSessions, LoopOf
  <2>4. RowsLag(rows, WaitingSessions \cup handed) /\ SummarisedApart(handed, WaitingSessions)
    BY <2>1 DEF WhileNotWidened, RowsLag, SummarisedApart
  <2>5. InOrder(E, closed, todo, failed, handed, retried)
    BY <1>0, <2>1, ClearedInOrder DEF WhileNotWidened
  <2> QED BY <2>1, <2>2, <2>3, <2>4, <2>5 DEF WhileNotWidened
<1>5. StoreInv'
  BY <1>1, <1>2, <1>3, <1>4, StoreStep
<1>6. OpenSessions' = {}
  <2>1. \A k \in Keys : ~IsOpen(entries'[k])
    BY <1>0, <1>1 DEF EmptyStore, IsOpen
  <2> QED BY <2>1 DEF OpenSessions
<1>7. OpenOf(rows)' \subseteq OpenOf(rows)
  BY <1>0, <1>1, NothingOpen DEF OpenOf
<1> QED BY <1>1, <1>5, <1>6, <1>7 DEF Everywhere, Known, WaitingSessions, SessionInv

\* A row that load takes is not older than the window; what was summarised is.
LEMMA RestartStays ==
  ASSUME SessionInv, Restart
  PROVE  IsFiniteSet(closed') /\ StoreInv' /\ Everywhere' \subseteq Everywhere
<1> USE BoundsAssumption, WindowsAssumption
<1> DEFINE E == [k \in Keys |-> IF LoadsRow(rows[k]) THEN rows[k] ELSE NoSession]
<1>1. /\ entries' = E /\ closed' = {} /\ todo' = << >> /\ failed' = << >> /\ rows' = rows
      /\ UNCHANGED <<now, window, handed, twice, retried, widened>>
  BY DEF Restart
<1>2. \A k \in Keys : IsOpen(E[k]) => /\ E[k] = rows[k] /\ IsOpen(rows[k])
                                      /\ ~(now > rows[k].last + window)
                                      /\ rows[k] \in Sessions /\ rows[k].key = k
  BY RowIsSession DEF LoadsRow, Expired, IsOpen, SessionInv
<1> HIDE DEF E
<1>3. KeysApart(E) /\ KeysApart(rows)
  BY <1>2 DEF SessionInv, KeysApart
<1>4. WaitingSessions' = {} /\ LoopOf(todo', failed') = {} /\ LoopOf(<< >>, << >>) = {}
  BY <1>1 DEF WaitingSessions, Range, LoopOf
<1>5. OpenSessions' = OpenOf(E) /\ OpenOf(E) \subseteq OpenOf(rows)
  BY <1>1, <1>2 DEF OpenSessions, OpenOf
<1>6. Apart(E, {}, << >>, << >>)
  BY <1>3, <1>4 DEF Apart
<1>7. Apart(entries, closed, todo, failed)' /\ KeysApart(rows)'
  BY <1>1, <1>3, <1>6 DEF Apart, KeysApart, OpenOf, LoopOf
<1>8. ASSUME ~widened PROVE WhileNotWidened'
  <2>1. WhileNotWidened /\ now \in Nat /\ window \in Nat
    BY <1>8 DEF SessionInv, SessionTypeOK
  <2>2. ASSUME NEW h \in handed, NEW k \in Keys, IsOpen(E[k])
        PROVE  /\ h.last <= E[k].last
               /\ Disjoint(h, E[k])
    <3>1. now > h.last + window
      BY <2>1 DEF WhileNotWidened, TooOld
    <3>2. h.last \in Nat /\ E[k].last \in Nat
      BY <1>2, <2>2 DEF SessionInv, SessionTypeOK, Sessions
    <3>3. h.last < E[k].last
      BY <1>2, <2>1, <2>2, <3>1, <3>2
    <3>4. ~Disjoint(rows[k], h) => rows[k].last <= h.last
      BY <1>2, <2>1, <2>2 DEF WhileNotWidened, RowsLag
    <3> QED BY <1>2, <2>2, <3>2, <3>3, <3>4 DEF Disjoint
  <2>3. SummarisedApart(handed, OpenOf(E)) /\ Before(handed, OpenOf(E))
    BY <2>2 DEF SummarisedApart, Before, OpenOf
  <2>4. SummarisedApart(handed, OpenSessions \cup WaitingSessions)'
    BY <1>1, <1>4, <1>5, <2>3 DEF SummarisedApart
  <2>5. TooOld(WaitingSessions \cup handed)'
    BY <1>1, <1>4, <2>1 DEF TooOld, WhileNotWidened
  <2>6. ASSUME NEW k \in Keys, IsOpen(rows[k]), NEW s \in OpenOf(E), ~Disjoint(rows[k], s)
        PROVE  rows[k].last <= s.last
    <3>1. PICK j \in Keys : IsOpen(E[j]) /\ s = E[j]
      BY DEF OpenOf
    <3>2. j = k
      BY <1>2, <1>3, <2>6, <3>1 DEF KeysApart
    <3> QED BY <1>2, <3>1, <3>2 DEF Sessions
  <2>7. RowsLag(rows, OpenOf(E) \cup handed)
    BY <2>1, <2>6 DEF WhileNotWidened, RowsLag
  <2>8. RowsLag(rows, OpenSessions \cup WaitingSessions \cup handed)'
    BY <1>1, <1>4, <1>5, <2>7 DEF RowsLag
  <2>9. InOrder(E, {}, << >>, << >>, handed, retried)
    BY <1>4, <2>3 DEF InOrder, Before, LoopOf
  <2>10. InOrder(entries, closed, todo, failed, handed, retried)'
    BY <1>1, <2>9 DEF InOrder, OpenOf, LoopOf, Before
  <2> QED BY <1>1, <2>1, <2>4, <2>5, <2>8, <2>10 DEF WhileNotWidened
<1>9. StoreInv'
  BY <1>1, <1>7, <1>8 DEF StoreInv
<1>10. Everywhere' \subseteq Everywhere
  BY <1>1, <1>4, <1>5 DEF Everywhere, Known, OpenOf
<1> QED BY <1>1, <1>9, <1>10, FS_EmptySet

LEMMA SkipEmptyStays ==
  ASSUME SessionInv, SkipEmpty
  PROVE  IsFiniteSet(closed') /\ StoreInv' /\ Everywhere' \subseteq Everywhere
<1>1. /\ todo # << >> /\ todo' = Tail(todo) /\ todo \in Seq(Sessions) /\ failed \in Seq(Sessions)
      /\ UNCHANGED <<now, window, failed, handed, twice, retried, widened, entries, closed, rows>>
  BY DEF SkipEmpty, historyVars, SessionInv, SessionTypeOK
<1>2. Apart(entries, closed, Tail(todo), failed)
  BY <1>1, TakenApart DEF SessionInv
<1>3. Range(Tail(todo)) \subseteq Range(todo)
  BY <1>1, SequenceRanges
<1>4. OpenSessions' = OpenSessions /\ WaitingSessions' \subseteq WaitingSessions
  BY <1>1, <1>3 DEF OpenSessions, WaitingSessions
<1>5. ASSUME ~widened PROVE WhileNotWidened'
  <2>1. WhileNotWidened
    BY <1>5 DEF SessionInv
  <2>2. InOrder(entries, closed, Tail(todo), failed, handed, retried)
    BY <1>1, <2>1, TakenInOrder DEF WhileNotWidened
  <2>3. InOrder(entries, closed, todo, failed, handed, retried)'
    BY <1>1, <2>2 DEF InOrder, OpenOf, LoopOf, Before
  <2>4. TooOld(WaitingSessions \cup handed)'
    BY <1>1, <1>4, <2>1 DEF WhileNotWidened, TooOld
  <2>5. RowsLag(rows, OpenSessions \cup WaitingSessions \cup handed)'
    BY <1>1, <1>4, <2>1 DEF WhileNotWidened, RowsLag
  <2>6. SummarisedApart(handed, OpenSessions \cup WaitingSessions)'
    BY <1>1, <1>4, <2>1 DEF WhileNotWidened, SummarisedApart
  <2> QED BY <1>1, <2>1, <2>3, <2>4, <2>5, <2>6 DEF WhileNotWidened
<1>6. Apart(entries, closed, todo, failed)' /\ KeysApart(rows)'
  BY <1>1, <1>2 DEF SessionInv, Apart, KeysApart, OpenOf, LoopOf
<1>7. Everywhere' \subseteq Everywhere
  BY <1>1, <1>4 DEF Everywhere, Known, OpenOf
<1> QED BY <1>1, <1>5, <1>6, <1>7 DEF StoreInv, SessionInv

\* The first of the loop's sessions was summarised, or comes again later.
LEMMA HandOverStays ==
  ASSUME SessionInv, NEW ok \in BOOLEAN, HandOver(ok)
  PROVE  /\ IsFiniteSet(closed') /\ StoreInv' /\ Everywhere' \subseteq Everywhere
         /\ Known' = Known
<1>1. /\ todo # << >> /\ todo' = Tail(todo) /\ todo \in Seq(Sessions) /\ failed \in Seq(Sessions)
      /\ UNCHANGED <<now, window, widened, entries, closed, rows>>
  BY DEF HandOver, historyVars, SessionInv, SessionTypeOK
<1>2. PICK h : h = Head(todo)
  OBVIOUS
<1>3. \/ /\ failed' = failed /\ handed' = handed \cup {h} /\ retried' = retried
         /\ twice' = twice \cup (h.turns \cap TurnsOf(handed))
      \/ /\ failed' = Append(failed, h) /\ handed' = handed /\ retried' = retried \cup {h}
         /\ twice' = twice
  BY <1>2 DEF HandOver, NextPending
<1>4. /\ Apart(entries, closed, Tail(todo), failed)
      /\ Apart(entries, closed, Tail(todo), Append(failed, h))
      /\ \A s \in OpenOf(entries) \cup closed \cup LoopOf(Tail(todo), failed) : Disjoint(h, s)
  BY <1>1, <1>2, TakenApart DEF SessionInv
<1>5. /\ Range(todo) = Range(Tail(todo)) \cup {h}
      /\ Range(Append(failed, h)) = Range(failed) \cup {h}
  BY <1>1, <1>2, SequenceRanges
<1>6. Apart(entries, closed, todo', failed')
  BY <1>1, <1>3, <1>4
<1>7. /\ OpenSessions' = OpenSessions /\ OpenSessions = OpenOf(entries)
      /\ h \in WaitingSessions
      /\ WaitingSessions' \cup handed' = WaitingSessions \cup handed
      /\ WaitingSessions' \subseteq WaitingSessions
  BY <1>1, <1>3, <1>5 DEF OpenSessions, WaitingSessions, OpenOf
<1>8. ASSUME ~widened PROVE WhileNotWidened'
  <2>1. WhileNotWidened
    BY <1>8 DEF SessionInv
  <2>2. /\ InOrder(entries, closed, Tail(todo), failed, handed \cup {h}, retried)
        /\ InOrder(entries, closed, Tail(todo), Append(failed, h), handed, retried \cup {h})
    BY <1>1, <1>2, <2>1, TakenInOrder DEF WhileNotWidened
  <2>3. InOrder(entries, closed, todo', failed', handed', retried')
    BY <1>1, <1>3, <2>2
  <2>4. InOrder(entries, closed, todo, failed, handed, retried)'
    BY <1>1, <2>3 DEF InOrder, OpenOf, LoopOf, Before
  <2>5. TooOld(WaitingSessions \cup handed)'
    BY <1>1, <1>7, <2>1 DEF WhileNotWidened, TooOld
  <2>6. RowsLag(rows, OpenSessions \cup WaitingSessions \cup handed)'
    BY <1>1, <1>7, <2>1 DEF WhileNotWidened, RowsLag
  <2>7. ASSUME NEW r \in handed', NEW s \in OpenSessions' \cup WaitingSessions'
        PROVE  Disjoint(r, s)
    <3>1. CASE r \in handed
      BY <1>7, <2>1, <3>1 DEF WhileNotWidened, SummarisedApart
    <3>2. CASE r = h /\ failed' = failed
      <4>1. WaitingSessions' = closed \cup LoopOf(Tail(todo), failed)
        BY <1>1, <3>2 DEF WaitingSessions, LoopOf
      <4> QED BY <1>4, <1>7, <3>2, <4>1
    <3> QED BY <1>3, <3>1, <3>2
  <2>8. SummarisedApart(handed, OpenSessions \cup WaitingSessions)'
    BY <2>7 DEF SummarisedApart
  <2>9. h.turns \cap TurnsOf(handed) = {}
    BY <1>7, <2>1 DEF WhileNotWidened, SummarisedApart, Disjoint, TurnsOf
  <2>10. twice' = {}
    BY <1>3, <2>1, <2>9 DEF WhileNotWidened
  <2> QED BY <2>4, <2>5, <2>6, <2>8, <2>10 DEF WhileNotWidened
<1>9. Apart(entries, closed, todo, failed)' /\ KeysApart(rows)'
  BY <1>1, <1>6 DEF SessionInv, Apart, KeysApart, OpenOf, LoopOf
<1>10. OpenOf(rows)' = OpenOf(rows)
  BY <1>1 DEF OpenOf
<1>11. Everywhere' \subseteq Everywhere
  BY <1>1, <1>7, <1>10 DEF Everywhere, Known
<1>12. Known' = Known
  BY <1>1, <1>7 DEF Known
<1> QED BY <1>1, <1>8, <1>9, <1>11, <1>12 DEF StoreInv, SessionInv

-----------------------------------------------------------------------------
(* The theorems. *)

LEMMA SessionInitially ==
  ASSUME Init
  PROVE  SessionInv
<1> USE BoundsAssumption, WindowsAssumption
<1>1. SessionTypeOK
  <2>1. \A k \in Keys : entries[k] = NoSession /\ rows[k] = NoSession
    BY DEF Init, EmptyStore
  <2>2. todo \in Seq(Sessions) /\ failed \in Seq(Sessions)
    BY DEF Init
  <2>3. now \in 0..MaxTime /\ turns \in 0..MaxTurns
    BY DEF Init
  <2>4. /\ window \in Windows /\ closed = {} /\ turn = NoTurn /\ handed = {}
        /\ twice = {} /\ retried = {} /\ widened \in BOOLEAN
    BY DEF Init
  <2> QED BY <2>1, <2>2, <2>3, <2>4 DEF SessionTypeOK
<1>2. /\ OpenSessions = {} /\ OpenOf(rows) = {} /\ OpenOf(entries) = {}
      /\ WaitingSessions = {} /\ LoopOf(todo, failed) = {}
      /\ closed = {} /\ handed = {} /\ Range(failed) = {}
      /\ DOMAIN todo = {} /\ DOMAIN failed = {}
  BY DEF Init, OpenSessions, OpenOf, WaitingSessions, LoopOf, Range, EmptyStore, IsOpen
<1>3. KeysApart(entries) /\ KeysApart(rows)
  BY DEF Init, KeysApart, EmptyStore, IsOpen
<1>4. Apart(entries, closed, todo, failed)
  BY <1>2, <1>3 DEF Apart
<1>5. WhileNotWidened
  BY <1>2 DEF WhileNotWidened, Init, TooOld, RowsLag, SummarisedApart, InOrder, Before
<1> QED BY <1>1, <1>2, <1>3, <1>4, <1>5, FS_EmptySet DEF SessionInv, Everywhere, Known, Init

LEMMA SessionInvPreserved ==
  ASSUME SessionInv, [SessionNext]_sessionVars
  PROVE  SessionInv'
<1>1. ASSUME SessionNext PROVE SessionInv'
  <2>1. \/ IsFiniteSet(closed') /\ StoreInv' /\ Everywhere' \subseteq Everywhere
        \/ \E e : Keeps(e) /\ Fine(e)'
    <3>1. CASE VoiceStep
      BY <1>1, <3>1, BeginTurnKeeps, StoreTurnKeeps, OthersStay DEF VoiceStep
    <3>2. CASE Environment
      BY <3>2, SnapshotAllStays, OthersStay, ResetStays, RestartStays DEF Environment
    <3>3. CASE \E at \in 0..now : Sweep(at)
      BY <3>3, SweepStays
    <3>4. CASE SkipEmpty
      BY <3>4, SkipEmptyStays
    <3>5. CASE HandOver(TRUE) \/ HandOver(FALSE)
      BY <3>5, HandOverStays
    <3> QED BY <1>1, <3>1, <3>2, <3>3, <3>4, <3>5 DEF SessionNext
  <2>2. IsFiniteSet(closed') /\ StoreInv'
    BY <2>1 DEF Keeps
  <2>3. ASSUME NEW s \in Everywhere' PROVE Fine(s)'
    <3>1. CASE s \in Everywhere
      <4>1. Fine(s)
        BY <3>1 DEF SessionInv
      <4> QED BY <1>1, <4>1, FineStays
    <3>2. CASE s \notin Everywhere
      BY <2>1, <3>2 DEF Keeps
    <3> QED BY <3>1, <3>2
  <2>4. SessionTypeOK' /\ (turn' # NoTurn => turn'.at <= now' /\ turns' > 0)
    BY <1>1, TypesPreserved, TimePasses
  <2> QED BY <2>2, <2>3, <2>4 DEF SessionInv, StoreInv
<1>2. ASSUME UNCHANGED sessionVars PROVE SessionInv'
  BY <1>2 DEF sessionVars, SessionInv, SessionTypeOK, Everywhere, Known, OpenSessions,
     WaitingSessions, OpenOf, LoopOf, Apart, KeysApart, WhileNotWidened, TooOld, RowsLag,
     SummarisedApart, InOrder, Before, Fine, Used, Latest, Disjoint, IsTalk, Touched
<1> QED BY <1>1, <1>2

THEOREM SessionInvariance == SessionSpec => []SessionInv
<1>1. Init => SessionInv
  BY SessionInitially
<1>2. SessionInv /\ [SessionNext]_sessionVars => SessionInv'
  BY SessionInvPreserved
<1> QED BY <1>1, <1>2, PTL DEF SessionSpec

\* The variables of the store and of the loop keep their types.
THEOREM SessionTypes == SessionSpec => []SessionTypeOK
<1>1. SessionInv => SessionTypeOK
  BY DEF SessionInv
<1> QED BY <1>1, SessionInvariance, PTL

LEMMA ApartIsOneSession ==
  ASSUME SessionInv
  PROVE  EveryTurnInOneSession
<1> DEFINE L == LoopOf(todo, failed)
           W == todo \o failed
<1>0. /\ Apart(entries, closed, todo, failed) /\ todo \in Seq(Sessions) /\ failed \in Seq(Sessions)
      /\ OpenSessions = OpenOf(entries) /\ WaitingSessions = closed \cup L
      /\ L = Range(todo) \cup Range(failed)
  BY DEF SessionInv, SessionTypeOK, OpenSessions, OpenOf, WaitingSessions, LoopOf
<1>1. \A s, r : Disjoint(s, r) <=> Disjoint(r, s)
  BY DEF Disjoint
<1>2. \A s, r \in OpenOf(entries) : s # r => Disjoint(s, r)
  BY <1>0 DEF Apart, KeysApart, OpenOf
<1>3. \A s \in OpenOf(entries), r \in closed \cup L : Disjoint(s, r)
  BY <1>0 DEF Apart
<1>4. \A s \in closed, r \in L : Disjoint(s, r)
  BY <1>0 DEF Apart
<1>5. \A s, r \in L : s # r => Disjoint(s, r)
  <2>1. \A s, r \in Range(todo) : s # r => Disjoint(s, r)
    BY <1>0 DEF Apart, Range
  <2>2. \A s, r \in Range(failed) : s # r => Disjoint(s, r)
    BY <1>0 DEF Apart, Range
  <2>3. \A s \in Range(todo), r \in Range(failed) : Disjoint(s, r)
    BY <1>0 DEF Apart, Range
  <2> HIDE DEF L
  <2> QED BY <1>0, <1>1, <2>1, <2>2, <2>3
<1>6. \A s, r \in OpenSessions \cup WaitingSessions : s # r => Disjoint(s, r)
  <2>1. \A s, r \in closed : s # r => Disjoint(s, r)
    BY <1>0 DEF Apart
  <2> HIDE DEF L
  <2> QED BY <1>0, <1>1, <1>2, <1>3, <1>4, <1>5, <2>1
<1>7. \A s, r \in OpenSessions \cup WaitingSessions : s.turns \cap r.turns # {} => s = r
  BY <1>6 DEF Disjoint
<1>8. TurnsOf(OpenSessions) \cap TurnsOf(WaitingSessions) = {}
  BY <1>0, <1>3 DEF TurnsOf, Disjoint
<1>9. TurnsOf(closed) \cap TurnsOf(Range(todo) \cup Range(failed)) = {}
  BY <1>0, <1>4 DEF TurnsOf, Disjoint
<1>10. ASSUME NEW i \in DOMAIN W, NEW j \in DOMAIN W, i # j
       PROVE  W[i].turns \cap W[j].turns = {}
  <2>1. \A a, b \in DOMAIN todo : a # b => Disjoint(todo[a], todo[b])
    BY <1>0 DEF Apart
  <2>2. \A a, b \in DOMAIN failed : a # b => Disjoint(failed[a], failed[b])
    BY <1>0 DEF Apart
  <2>3. \A a \in DOMAIN todo, b \in DOMAIN failed : Disjoint(todo[a], failed[b])
    BY <1>0 DEF Apart
  <2>4. \A n \in DOMAIN W : \/ n \in DOMAIN todo /\ W[n] = todo[n]
                            \/ /\ n \notin DOMAIN todo /\ n - Len(todo) \in DOMAIN failed
                               /\ W[n] = failed[n - Len(todo)]
    BY <1>0
  <2>5. i \in Int /\ j \in Int /\ Len(todo) \in Int
    BY <1>0
  <2>6. i - Len(todo) # j - Len(todo)
    BY <1>10, <2>5
  <2> HIDE DEF W
  <2>7. Disjoint(W[i], W[j])
    BY <1>1, <1>10, <2>1, <2>2, <2>3, <2>4, <2>6
  <2> QED BY <2>7 DEF Disjoint
<1> HIDE DEF L
<1> QED BY <1>7, <1>8, <1>9, <1>10 DEF EveryTurnInOneSession

\* Whatever is pruned, rotated, popped, retried or loaded again, a turn is in
\* one session, and the session in one place.
THEOREM TurnsStayInOneSession == SessionSpec => []EveryTurnInOneSession
BY SessionInvariance, ApartIsOneSession, PTL

\* A session that was handed to the memory is not handed over again, in spite
\* of failed saves and restarts, as long as the window was not enlarged.
THEOREM SummarisedOnlyOnce == SessionSpec => []SummarisedOnce
<1>1. SessionInv => SummarisedOnce
  BY DEF SessionInv, WhileNotWidened, SummarisedOnce
<1> QED BY <1>1, SessionInvariance, PTL

\* The messages of an open or waiting session are one talk: no gap between them
\* is greater than a session window.
THEOREM SessionsAreOneTalk == SessionSpec => []NoGapInSession
<1>1. SessionInv => NoGapInSession
  BY DEF SessionInv, Everywhere, Known, Fine, IsTalk, NoGapInSession
<1> QED BY <1>1, SessionInvariance, PTL

LEMMA SummaryIsLatest ==
  ASSUME SessionInv, [SessionNext]_sessionVars, NEW s \in handed' \ handed, NEW r \in handed,
         s.key = r.key, r.last > s.last
  PROVE  s \in retried \/ widened
<1> USE BoundsAssumption
<1>1. HandOver(TRUE)
  <2>1. handed' # handed
    OBVIOUS
  <2> QED BY <2>1 DEF SessionNext, sessionVars, VoiceStep, Environment, BeginTurn, StoreTurn,
           DropTurn, SnapshotAll, SetWindow, Reset, Tick, Restart, Sweep, SkipEmpty, HandOver,
           loopVars
<1>2. s = Head(todo) /\ todo # << >> /\ todo \in Seq(Sessions) /\ failed \in Seq(Sessions)
  BY <1>1 DEF HandOver, SessionInv, SessionTypeOK
<1>3. ASSUME ~widened, s \notin retried PROVE FALSE
  <2>1. InOrder(entries, closed, todo, failed, handed, retried)
    BY <1>3 DEF SessionInv, WhileNotWidened
  <2>2. Before(handed, {s} \ retried)
    BY <1>2, <2>1, TakenInOrder
  <2>3. r.last <= s.last
    BY <1>3, <2>2 DEF Before
  <2>4. r.last \in Nat /\ s.last \in Nat
    <3>1. r \in Sessions /\ s \in Sessions
      BY <1>2 DEF SessionInv, SessionTypeOK
    <3> QED BY <3>1 DEF Sessions
  <2> QED BY <2>3, <2>4
<1> QED BY <1>3

\* The summaries of a key are made in the order of its sessions; late come only
\* those whose summary failed before, or was made before a window was enlarged.
THEOREM SummariesAreInOrder == SessionSpec => SummariesInOrder
<1>1. ASSUME SessionInv, [SessionNext]_sessionVars
      PROVE  [\A s \in handed' \ handed, r \in handed :
                s.key = r.key /\ s.last < r.last => s \in retried \/ widened]_sessionVars
  BY <1>1, SummaryIsLatest
<1> QED BY <1>1, SessionInvariance, PTL DEF SessionSpec, SummariesInOrder

\* A stored turn stays in a session that is open, waiting or summarised.
LEMMA OpenKeepsTurns ==
  ASSUME SessionInv, NEW at, NEW k \in Keys, NEW e, IsOpen(e),
         PruneThen(at, [Pruned(at) EXCEPT ![k] = e]), UNCHANGED loopVars,
         IsOpen(Pruned(at)[k]) => Pruned(at)[k].turns \subseteq e.turns
  PROVE  TurnsOf(Known) \subseteq TurnsOf(Known')
<1> DEFINE P == Pruned(at)
           C == closed \cup Enqueued(at)
           L == LoopOf(todo, failed)
<1>1. /\ entries' = [P EXCEPT ![k] = e] /\ closed' = C
      /\ todo' = todo /\ failed' = failed /\ handed' = handed /\ DOMAIN P = Keys
  BY DEF PruneThen, loopVars, Pruned
<1>2. Known = OpenOf(P) \cup C \cup L \cup handed
  BY KnownSessions DEF Known
<1>3. Known' = OpenOf(entries') \cup C \cup L \cup handed
  BY <1>1 DEF Known, OpenSessions, WaitingSessions, OpenOf, LoopOf
<1> HIDE DEF P, C, L
<1>4. ASSUME NEW s \in OpenOf(P) PROVE \E r \in OpenOf(entries') : s.turns \subseteq r.turns
  <2>1. PICK j \in Keys : IsOpen(P[j]) /\ s = P[j]
    BY DEF OpenOf
  <2>2. entries'[j] = IF j = k THEN e ELSE P[j]
    BY <1>1
  <2>3. IsOpen(entries'[j]) /\ s.turns \subseteq entries'[j].turns
    BY <2>1, <2>2 DEF P
  <2> QED BY <2>3 DEF OpenOf
<1>5. \A s \in Known : \E r \in Known' : s.turns \subseteq r.turns
  BY <1>2, <1>3, <1>4
<1> QED BY <1>5 DEF TurnsOf

LEMMA TurnsAreKept ==
  ASSUME SessionInv, SessionNext
  PROVE  Restart \/ Reset \/ TurnsOf(Known) \subseteq TurnsOf(Known')
<1> USE BoundsAssumption
<1>0. SessionTypeOK
  BY DEF SessionInv
<1>1. ASSUME NEW k \in Keys, NEW kind \in {"user", "report"}, BeginTurn(k, kind)
      PROVE  TurnsOf(Known) \subseteq TurnsOf(Known')
  <2>1. now \in 0..MaxTime
    BY <1>0 DEF SessionTypeOK
  <2>2. PICK e : e = Ensured(k, now)
    OBVIOUS
  <2>3. IsOpen(e)
    BY <1>0, <2>1, <2>2, EnsuredSession, NoSessionIsNone DEF IsOpen
  <2>4. IsOpen(Pruned(now)[k]) => Pruned(now)[k].turns \subseteq e.turns
    BY <2>2 DEF Ensured
  <2>5. PruneThen(now, [Pruned(now) EXCEPT ![k] = e]) /\ UNCHANGED loopVars
    BY <1>1, <2>2 DEF BeginTurn
  <2> QED BY <2>3, <2>4, <2>5, OpenKeepsTurns
<1>2. ASSUME StoreTurn PROVE TurnsOf(Known) \subseteq TurnsOf(Known')
  <2>1. PICK k : k = turn.key
    OBVIOUS
  <2>2. PICK at : at = TurnTime
    OBVIOUS
  <2>3. PICK e : e = Continued(k, at)
    OBVIOUS
  <2>4. at \in 0..MaxTime /\ k \in Keys /\ turns > 0
    BY <1>2, <2>1, <2>2, TurnTimeIsPast DEF StoreTurn, SessionInv, SessionTypeOK
  <2>5. e \in Sessions /\ Ensured(k, at).turns \subseteq e.turns
    BY <1>0, <2>3, <2>4, ContinuedSession
  <2>6. IsOpen(e)
    BY <2>5, NoSessionIsNone DEF IsOpen
  <2>7. IsOpen(Pruned(at)[k]) => Pruned(at)[k].turns \subseteq e.turns
    BY <2>5 DEF Ensured
  <2>8. PruneThen(at, [Pruned(at) EXCEPT ![k] = e]) /\ UNCHANGED loopVars
    BY <1>2, <2>1, <2>2, <2>3 DEF StoreTurn, Continued
  <2> QED BY <2>4, <2>6, <2>7, <2>8, OpenKeepsTurns
<1>3. ASSUME DropTurn \/ Tick \/ \E w \in Windows : SetWindow(w) PROVE Known' = Known
  <2>1. /\ entries' = entries /\ closed' = closed /\ todo' = todo
        /\ failed' = failed /\ handed' = handed
    BY <1>3 DEF DropTurn, Tick, SetWindow, historyVars, loopVars
  <2> QED BY <2>1 DEF Known, OpenSessions, WaitingSessions
<1>4. ASSUME SnapshotAll PROVE Known' = Known
  <2>1. now \in 0..now
    BY <1>0 DEF SessionTypeOK
  <2> QED BY <1>4, <2>1, PruneStep DEF SnapshotAll
<1>5. ASSUME SkipEmpty PROVE TurnsOf(Known) \subseteq TurnsOf(Known')
  <2>1. /\ todo # << >> /\ todo \in Seq(Sessions) /\ Head(todo).turns = {} /\ todo' = Tail(todo)
        /\ entries' = entries /\ closed' = closed /\ failed' = failed /\ handed' = handed
    BY <1>0, <1>5 DEF SkipEmpty, historyVars, SessionTypeOK
  <2>2. Range(todo) = Range(todo') \cup {Head(todo)}
    BY <2>1, SequenceRanges
  <2>3. Known = Known' \cup {Head(todo)}
    BY <2>1, <2>2 DEF Known, OpenSessions, WaitingSessions
  <2> QED BY <2>1, <2>3 DEF TurnsOf
<1>6. CASE VoiceStep
  BY <1>1, <1>2, <1>3, <1>6 DEF VoiceStep
<1>7. CASE Environment
  BY <1>3, <1>4, <1>7 DEF Environment
<1>8. CASE \E at \in 0..now : Sweep(at)
  BY <1>8, SweepStays
<1>9. CASE HandOver(TRUE) \/ HandOver(FALSE)
  BY <1>9, HandOverStays
<1> QED BY <1>5, <1>6, <1>7, <1>8, <1>9 DEF SessionNext

\* A stored message reaches the long-term memory or is still on its way there,
\* unless the process ends or the user resets the conversation.
THEOREM OnlyCrashOrResetForget == SessionSpec => OnlyCrashOrResetForgets
<1> DEFINE K == TurnsOf(OpenSessions \cup WaitingSessions \cup handed)
<1>1. ASSUME SessionInv, [SessionNext]_sessionVars
      PROVE  [Restart \/ Reset \/ K \subseteq K']_sessionVars
  <2>1. K = TurnsOf(Known) /\ K' = TurnsOf(Known')
    BY DEF Known, TurnsOf
  <2> HIDE DEF K
  <2> QED BY <1>1, <2>1, TurnsAreKept
<1> QED BY <1>1, SessionInvariance, PTL DEF SessionSpec, OnlyCrashOrResetForgets

=============================================================================
