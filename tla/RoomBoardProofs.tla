--------------------------- MODULE RoomBoardProofs ---------------------------
(***************************************************************************)
(* For any number of players, sessions and users, what the room remembers  *)
(* of them when its handlers come late.                                    *)
(*                                                                         *)
(* A death and a new life change the player at once and the leaderboard    *)
(* only when the notice is handled.  With annihilation the player may be   *)
(* forgotten in between, and a notice still be in the strand for it: so    *)
(* the invariant says what the notices tell, and in which order.           *)
(*                                                                         *)
(* A session is closed at once and leaves the room only when its leave is  *)
(* handled; so the last part is about the jobs between the two.            *)
(***************************************************************************)
EXTENDS RoomLifeProofs, WellFoundedInduction
-----------------------------------------------------------------------------
\* What the strand tells of the life of a player.

\* A notice about the life of p, and the places of those in a queue of jobs.
IsLife(j, p) == j.op \in {"respawned", "died"} /\ j.player = p
NoticesIn(q, p) == {k \in DOMAIN q : IsLife(q[k], p)}

\* The last notice of p in q is op.
Ends(q, p, op) == \E k \in NoticesIn(q, p) : q[k].op = op /\ \A l \in NoticesIn(q, p) : l <= k

\* The notices of p in q take turns, and lead from alive = a to alive = b.
Leads(q, p, a, b) ==
    /\ NoticesIn(q, p) = {} => (a <=> b)
    /\ \A k \in NoticesIn(q, p) :
          (\A l \in NoticesIn(q, p) : k <= l) => (q[k].op = "respawned" <=> ~a)
    /\ \A k \in NoticesIn(q, p) :
          (\A l \in NoticesIn(q, p) : l <= k) => (q[k].op = "respawned" <=> b)
    /\ \A k, l \in NoticesIn(q, p) :
          k < l /\ (\A m \in NoticesIn(q, p) : m <= k \/ l <= m) => q[k].op # q[l].op

\* Where the room will have heard of all that happened to p ...
Ranked(p) ==
    /\ isAlive[p] => idOf[p] # NoId
    /\ Ends(strand, p, "died") => ~isAlive[p]
    /\ isAlive[p] /\ NoticesIn(strand, p) = {} /\ Referenced(p)
          => leaderboard[p] > 0 /\ p \in fighters
RankInv == \A p \in Player : Ranked(p)

\* What the room shows of p follows its life, as the notices tell it.
Follows(p) ==
    /\ leaderboard[p] <= 1
    /\ p \in fighters => leaderboard[p] = 1
    /\ isAlive[p] /\ NoticesIn(strand, p) = {} => p \in fighters
    /\ NoticesIn(strand, p) # {} => idOf[p] # NoId
    /\ Leads(strand, p, leaderboard[p] = 1, isAlive[p])
BoardInv == \A p \in Player : Follows(p)

-----------------------------------------------------------------------------
\* Where the notices of p are after one more job.
LEMMA NoticesOfAppend ==
    ASSUME NEW q \in Seq(Job), NEW j \in Job, NEW p
    PROVE  /\ NoticesIn(Append(q, j), p) =
                 NoticesIn(q, p) \cup (IF IsLife(j, p) THEN {Len(q) + 1} ELSE {})
           /\ \A k \in NoticesIn(q, p) : k \in 1..Len(q) /\ Append(q, j)[k] = q[k]
           /\ Append(q, j)[Len(q) + 1] = j
           /\ Len(q) \in Nat
<1> DEFINE r == Append(q, j)
<1>1. /\ r \in Seq(Job) /\ Len(r) = Len(q) + 1 /\ Len(q) \in Nat
      /\ r[Len(q) + 1] = j /\ \A k \in 1..Len(q) : r[k] = q[k]
      /\ DOMAIN q = 1..Len(q) /\ DOMAIN r = 1..Len(r)
    <2>1. /\ r \in Seq(Job) /\ Len(r) = Len(q) + 1 /\ Len(q) \in Nat
          /\ r[Len(q) + 1] = j /\ \A k \in 1..Len(q) : r[k] = q[k]
        BY AppendProperties
    <2> HIDE DEF r
    <2> QED
        BY <2>1, LenProperties
<1> HIDE DEF r
<1>2. \A k \in NoticesIn(q, p) : k \in 1..Len(q) /\ r[k] = q[k]
    BY <1>1 DEF NoticesIn
<1>3. NoticesIn(r, p) = NoticesIn(q, p) \cup (IF IsLife(j, p) THEN {Len(q) + 1} ELSE {})
    <2>1. ASSUME NEW k
          PROVE  k \in NoticesIn(r, p)
                     <=> k \in NoticesIn(q, p) \cup (IF IsLife(j, p) THEN {Len(q) + 1} ELSE {})
        <3>1. CASE k \in 1..Len(q)
            <4>1. k \in DOMAIN q /\ k \in DOMAIN r /\ r[k] = q[k] /\ k # Len(q) + 1
                BY <1>1, <3>1
            <4> QED
                BY <4>1, Zenon DEF NoticesIn
        <3>2. CASE k = Len(q) + 1
            <4>1. k \notin DOMAIN q /\ k \in DOMAIN r /\ r[k] = j
                BY <1>1, <3>2
            <4> QED
                BY <3>2, <4>1, Zenon DEF NoticesIn
        <3>3. CASE k \notin 1..Len(q) /\ k # Len(q) + 1
            <4>1. k \notin DOMAIN q /\ k \notin DOMAIN r
                BY <1>1, <3>3
            <4> QED
                BY <3>3, <4>1, Zenon DEF NoticesIn
        <3> QED
            BY <3>1, <3>2, <3>3
    <2> QED
        BY <2>1
<1> QED
    BY <1>1, <1>2, <1>3 DEF r

\* Where they are once the job at the front is handled.
LEMMA NoticesOfTail ==
    ASSUME NEW q \in Seq(Job), q # <<>>, NEW p
    PROVE  /\ \A k : k \in NoticesIn(Tail(q), p) <=>
                         k \in Nat \ {0} /\ k + 1 \in NoticesIn(q, p)
           /\ \A k \in NoticesIn(Tail(q), p) : Tail(q)[k] = q[k + 1]
           /\ 1 \in NoticesIn(q, p) <=> IsLife(Head(q), p)
           /\ q[1] = Head(q)
           /\ NoticesIn(q, p) \subseteq Nat \ {0}
<1> DEFINE r == Tail(q)
<1>1. /\ r \in Seq(Job) /\ Len(r) = Len(q) - 1 /\ Len(q) \in Nat \ {0}
      /\ \A k \in 1..Len(r) : r[k] = q[k + 1]
      /\ Head(q) = q[1]
      /\ DOMAIN q = 1..Len(q) /\ DOMAIN r = 1..Len(r)
    <2>1. /\ r \in Seq(Job) /\ Len(r) = Len(q) - 1 /\ Len(q) \in Nat \ {0}
          /\ \A k \in 1..Len(r) : r[k] = q[k + 1]
          /\ Head(q) = q[1]
        BY HeadTailProperties, EmptySeq
    <2> HIDE DEF r
    <2> QED
        BY <2>1, LenProperties
<1> HIDE DEF r
<1>2. ASSUME NEW k
      PROVE  k \in NoticesIn(r, p) <=> k \in Nat \ {0} /\ k + 1 \in NoticesIn(q, p)
    <2>1. CASE k \in 1..Len(r)
        <3>1. k \in Nat \ {0} /\ k \in DOMAIN r /\ k + 1 \in DOMAIN q /\ r[k] = q[k + 1]
            BY <1>1, <2>1
        <3> QED
            BY <3>1, Zenon DEF NoticesIn
    <2>2. CASE k \notin 1..Len(r)
        <3>1. k \notin DOMAIN r
            BY <1>1, <2>2
        <3>2. ~(k \in Nat \ {0} /\ k + 1 \in DOMAIN q)
            BY <1>1, <2>2
        <3> QED
            BY <3>1, <3>2, Zenon DEF NoticesIn
    <2> QED
        BY <2>1, <2>2
<1>3. \A k \in NoticesIn(r, p) : r[k] = q[k + 1]
    BY <1>1 DEF NoticesIn
<1>4. 1 \in NoticesIn(q, p) <=> IsLife(Head(q), p)
    <2>1. 1 \in DOMAIN q /\ q[1] = Head(q)
        BY <1>1
    <2> QED
        BY <2>1, Zenon DEF NoticesIn
<1>5. NoticesIn(q, p) \subseteq Nat \ {0}
    BY <1>1 DEF NoticesIn
<1> QED
    BY <1>1, <1>2, <1>3, <1>4, <1>5 DEF r

\* What a notice is about.
LEMMA NoticeOfPlayer ==
    ASSUME NEW op \in {"respawned", "died", "annihilated"}, NEW o \in Player,
           NEW j, j = Notice(op, o)
    PROVE  /\ j \in Job /\ j.op = op /\ j.player = o
           /\ \A p : IsLife(j, p) <=> op # "annihilated" /\ o = p
<1>1. j \in Job /\ j.op = op /\ j.player = o
    BY DEF Notice, Job
<1> QED
    BY <1>1 DEF IsLife

\* Two queues that say the same about p.
SameTale(q, r, p) ==
    /\ NoticesIn(q, p) = {} <=> NoticesIn(r, p) = {}
    /\ \A op : Ends(q, p, op) <=> Ends(r, p, op)
    /\ \A a, b \in BOOLEAN : Leads(q, p, a, b) => Leads(r, p, a, b)

\* A job that is not about the life of p tells nothing about it, when it comes ...
LEMMA SameTaleOfAppend ==
    ASSUME NEW q \in Seq(Job), NEW j \in Job, NEW p, ~IsLife(j, p)
    PROVE  SameTale(q, Append(q, j), p)
<1> DEFINE r == Append(q, j)
<1>1. NoticesIn(r, p) = NoticesIn(q, p) /\ \A k \in NoticesIn(q, p) : r[k] = q[k]
    <2>1. /\ NoticesIn(r, p) =
                 NoticesIn(q, p) \cup (IF IsLife(j, p) THEN {Len(q) + 1} ELSE {})
          /\ \A k \in NoticesIn(q, p) : r[k] = q[k]
        BY NoticesOfAppend
    <2> HIDE DEF r
    <2>2. NoticesIn(r, p) = NoticesIn(q, p) \cup {}
        BY <2>1
    <2> QED
        BY <2>1, <2>2
<1> HIDE DEF r
<1>2. \A op : Ends(q, p, op) <=> Ends(r, p, op)
    BY <1>1, Zenon DEF Ends
<1>3. \A a, b \in BOOLEAN : Leads(q, p, a, b) => Leads(r, p, a, b)
    <2> SUFFICES ASSUME NEW a \in BOOLEAN, NEW b \in BOOLEAN, Leads(q, p, a, b)
                 PROVE  Leads(r, p, a, b)
        OBVIOUS
    <2> QED
        BY <1>1, SMT DEF Leads
<1> QED
    BY <1>1, <1>2, <1>3 DEF SameTale, r

\* ... and when it goes.
LEMMA SameTaleOfTail ==
    ASSUME NEW q \in Seq(Job), q # <<>>, NEW p, ~IsLife(Head(q), p)
    PROVE  SameTale(q, Tail(q), p)
<1> DEFINE r == Tail(q)
           N == NoticesIn(q, p)
           M == NoticesIn(r, p)
<1>1. /\ \A k : k \in M <=> k \in Nat \ {0} /\ k + 1 \in N
      /\ \A k \in M : r[k] = q[k + 1]
      /\ 1 \notin N /\ N \subseteq Nat \ {0}
    BY NoticesOfTail
<1>2. \A k \in N : k \in Nat /\ k - 1 \in M /\ r[k - 1] = q[k] /\ (k - 1) + 1 = k
    <2> SUFFICES ASSUME NEW k \in N
                 PROVE  k \in Nat /\ k - 1 \in M /\ r[k - 1] = q[k] /\ (k - 1) + 1 = k
        OBVIOUS
    <2>1. k \in Nat \ {0} /\ k # 1
        BY <1>1
    <2>2. k - 1 \in Nat \ {0} /\ (k - 1) + 1 = k
        BY <2>1
    <2> HIDE DEF M, N, r
    <2> QED
        BY <1>1, <2>1, <2>2
<1>3. \A k \in M : k \in Nat /\ k + 1 \in N /\ r[k] = q[k + 1]
    BY <1>1
<1> HIDE DEF r, M, N
<1>4. N = {} <=> M = {}
    BY <1>2, <1>3
<1>5. ASSUME NEW op
      PROVE  Ends(q, p, op) <=> Ends(r, p, op)
    <2>1. ASSUME NEW k \in N, q[k].op = op, \A l \in N : l <= k
          PROVE  \E i \in M : r[i].op = op /\ \A l \in M : l <= i
        <3>1. k - 1 \in M /\ r[k - 1].op = op /\ \A l \in M : l <= k - 1
            BY <1>2, <1>3, <2>1
        <3> QED
            BY <3>1
    <2>2. ASSUME NEW i \in M, r[i].op = op, \A l \in M : l <= i
          PROVE  \E k \in N : q[k].op = op /\ \A l \in N : l <= k
        <3>1. i + 1 \in N /\ q[i + 1].op = op /\ \A l \in N : l <= i + 1
            BY <1>2, <1>3, <2>2
        <3> QED
            BY <3>1
    <2> QED
        BY <2>1, <2>2 DEF Ends, M, N
<1>6. ASSUME NEW a \in BOOLEAN, NEW b \in BOOLEAN, Leads(q, p, a, b)
      PROVE  Leads(r, p, a, b)
    <2>0. /\ N = {} => (a <=> b)
          /\ \A k \in N : (\A l \in N : k <= l) => (q[k].op = "respawned" <=> ~a)
          /\ \A k \in N : (\A l \in N : l <= k) => (q[k].op = "respawned" <=> b)
          /\ \A k, l \in N : k < l /\ (\A m \in N : m <= k \/ l <= m) => q[k].op # q[l].op
        BY <1>6 DEF Leads, N
    <2>1. M = {} => (a <=> b)
        BY <1>4, <2>0
    <2>2. ASSUME NEW k \in M, \A l \in M : k <= l
          PROVE  r[k].op = "respawned" <=> ~a
        <3>1. k + 1 \in N /\ r[k] = q[k + 1] /\ \A l \in N : k + 1 <= l
            BY <1>2, <1>3, <2>2
        <3>2. q[k + 1].op = "respawned" <=> ~a
            BY <2>0, <3>1
        <3> QED
            BY <3>1, <3>2
    <2>3. ASSUME NEW k \in M, \A l \in M : l <= k
          PROVE  r[k].op = "respawned" <=> b
        <3>1. k + 1 \in N /\ r[k] = q[k + 1] /\ \A l \in N : l <= k + 1
            BY <1>2, <1>3, <2>3
        <3>2. q[k + 1].op = "respawned" <=> b
            BY <2>0, <3>1
        <3> QED
            BY <3>1, <3>2
    <2>4. ASSUME NEW k \in M, NEW l \in M, k < l, \A m \in M : m <= k \/ l <= m
          PROVE  r[k].op # r[l].op
        <3>1. /\ k \in Nat /\ k + 1 \in N /\ r[k] = q[k + 1]
              /\ l \in Nat /\ l + 1 \in N /\ r[l] = q[l + 1]
            BY <1>3
        <3>2. k + 1 < l + 1
            BY <2>4, <3>1
        <3>3. ASSUME NEW m \in N
              PROVE  m <= k + 1 \/ l + 1 <= m
            <4>1. m \in Nat /\ m - 1 \in M
                BY <1>2
            <4>2. m - 1 <= k \/ l <= m - 1
                BY <2>4, <4>1
            <4> QED
                BY <3>1, <4>1, <4>2
        <3>4. q[k + 1].op # q[l + 1].op
            BY <2>0, <3>1, <3>2, <3>3
        <3> QED
            BY <3>1, <3>4
    <2> QED
        BY <2>1, <2>2, <2>3, <2>4 DEF Leads, M
<1> QED
    BY <1>4, <1>5, <1>6 DEF SameTale, M, N, r

\* The queue r is q with a notice of p at the back.
EndsWith(r, q, op, p) == r = Append(q, Notice(op, p))

\* The notice is at the end, the others stay where they are, and of other players
\* the same is told.
LEMMA PlaceOfNotice ==
    ASSUME NEW q \in Seq(Job), NEW p \in Player, NEW op \in {"respawned", "died"},
           NEW r, EndsWith(r, q, op, p)
    PROVE  /\ Len(q) \in Nat /\ NoticesIn(r, p) = NoticesIn(q, p) \cup {Len(q) + 1}
           /\ r[Len(q) + 1].op = op
           /\ \A k \in NoticesIn(q, p) : k \in 1..Len(q) /\ r[k] = q[k]
           /\ \A o \in Player : o # p => SameTale(q, r, o)
<1> DEFINE j == Notice(op, p)
<1>1. j \in Job /\ j.op = op /\ j.player = p
    BY DEF Notice, Job
<1>2. IsLife(j, p) /\ \A o \in Player : o # p => ~IsLife(j, o)
    BY <1>1 DEF IsLife
<1> HIDE DEF j
<1>3. /\ NoticesIn(Append(q, j), p) =
             NoticesIn(q, p) \cup (IF IsLife(j, p) THEN {Len(q) + 1} ELSE {})
      /\ \A k \in NoticesIn(q, p) : k \in 1..Len(q) /\ Append(q, j)[k] = q[k]
      /\ Append(q, j)[Len(q) + 1] = j
      /\ Len(q) \in Nat
    BY <1>1, NoticesOfAppend
<1>4. r = Append(q, j)
    BY DEF j, EndsWith
<1>5. \A o \in Player : o # p => SameTale(q, r, o)
    BY <1>1, <1>2, <1>4, SameTaleOfAppend
<1> QED
    BY <1>1, <1>2, <1>3, <1>4, <1>5

\* So it is the last notice of p.
LEMMA TaleOfNotice ==
    ASSUME NEW q \in Seq(Job), NEW p \in Player, NEW op \in {"respawned", "died"},
           NEW r, EndsWith(r, q, op, p)
    PROVE  /\ NoticesIn(r, p) # {}
           /\ \A o : Ends(r, p, o) => o = op
           /\ \A o \in Player : o # p => SameTale(q, r, o)
<1>1. /\ Len(q) \in Nat /\ NoticesIn(r, p) = NoticesIn(q, p) \cup {Len(q) + 1}
      /\ r[Len(q) + 1].op = op
      /\ \A k \in NoticesIn(q, p) : k \in 1..Len(q) /\ r[k] = q[k]
      /\ \A o \in Player : o # p => SameTale(q, r, o)
    BY PlaceOfNotice
<1>2. ASSUME NEW o, Ends(r, p, o)
      PROVE  o = op
    <2>1. PICK k \in NoticesIn(r, p) : r[k].op = o /\ \A l \in NoticesIn(r, p) : l <= k
        BY <1>2 DEF Ends
    <2>2. k = Len(q) + 1
        BY <1>1, <2>1
    <2> QED
        BY <1>1, <2>1, <2>2
<1> QED
    BY <1>1, <1>2

\* What led to one state of p now leads to the other.
TurnsTale(q, r, p, op) ==
    \A a, b, c \in BOOLEAN :
        Leads(q, p, a, b) /\ c = ~b /\ (c <=> op = "respawned") => Leads(r, p, a, c)

\* A notice of the opposite turns the end around.
LEMMA TurnOfNotice ==
    ASSUME NEW q \in Seq(Job), NEW p \in Player, NEW op \in {"respawned", "died"},
           NEW r, EndsWith(r, q, op, p)
    PROVE  TurnsTale(q, r, p, op)
<1> SUFFICES ASSUME NEW a \in BOOLEAN, NEW b \in BOOLEAN, NEW c \in BOOLEAN,
                    Leads(q, p, a, b), c = ~b, c <=> op = "respawned"
             PROVE  Leads(r, p, a, c)
    BY DEF TurnsTale
<1> DEFINE n == Len(q) + 1
           N == NoticesIn(q, p)
           M == NoticesIn(r, p)
<1>1. /\ M = N \cup {n} /\ r[n].op = op /\ n \in Nat
      /\ \A k \in N : k \in 1..(n - 1) /\ r[k] = q[k]
    BY PlaceOfNotice
<1> HIDE DEF n, M, N
<1>2. /\ N = {} => (a <=> b)
      /\ \A k \in N : (\A l \in N : k <= l) => (q[k].op = "respawned" <=> ~a)
      /\ \A k \in N : (\A l \in N : l <= k) => (q[k].op = "respawned" <=> b)
      /\ \A k, l \in N : k < l /\ (\A m \in N : m <= k \/ l <= m) => q[k].op # q[l].op
    BY DEF Leads, N
<1>3. M # {}
    BY <1>1
<1>4. ASSUME NEW k \in M, \A l \in M : k <= l
      PROVE  r[k].op = "respawned" <=> ~a
    <2>1. CASE k = n
        <3>1. N = {}
            BY <1>1, <1>4, <2>1
        <3> QED
            BY <1>1, <1>2, <2>1, <3>1
    <2>2. CASE k \in N
        BY <1>1, <1>2, <1>4, <2>2
    <2> QED
        BY <1>1, <2>1, <2>2
<1>5. ASSUME NEW k \in M, \A l \in M : l <= k
      PROVE  r[k].op = "respawned" <=> c
    <2>1. k = n
        BY <1>1, <1>5
    <2> QED
        BY <1>1, <2>1
<1>6. ASSUME NEW k \in M, NEW l \in M, k < l, \A m \in M : m <= k \/ l <= m
      PROVE  r[k].op # r[l].op
    <2>0. /\ \A i \in M : i = n \/ i \in N
          /\ \A i \in N : i \in Nat /\ i < n /\ i \in M /\ r[i] = q[i]
        <3>1. \A i \in M : i = n \/ i \in N
            BY <1>1
        <3>2. \A i \in N : i \in M /\ r[i] = q[i] /\ i \in 1..(n - 1)
            BY <1>1
        <3>3. \A i \in 1..(n - 1) : i \in Nat /\ i < n
            BY <1>1
        <3> QED
            BY <3>1, <3>2, <3>3
    <2>1. k \in N /\ r[k] = q[k]
        <3>1. k # n
            BY <1>1, <1>6, <2>0
        <3> QED
            BY <2>0, <3>1
    <2>2. CASE l \in N
        <3>1. \A m \in N : m <= k \/ l <= m
            BY <1>6, <2>0
        <3>2. q[k].op # q[l].op
            BY <1>2, <1>6, <2>1, <2>2, <3>1
        <3> QED
            BY <2>0, <2>1, <2>2, <3>2
    <2>3. CASE l = n
        <3>1. \A m \in N : m <= k
            BY <1>1, <1>6, <2>3
        <3>2. q[k].op = "respawned" <=> b
            BY <1>2, <2>1, <3>1
        <3>3. r[l].op = op
            BY <1>1, <2>3
        <3> QED
            BY <2>1, <3>2, <3>3
    <2> QED
        BY <1>1, <2>2, <2>3
<1> QED
    BY <1>3, <1>4, <1>5, <1>6 DEF Leads, M

\* A notice at the front turns the beginning around, and is the last one if none
\* comes behind it.
LEMMA TaleOfTail ==
    ASSUME NEW q \in Seq(Job), q # <<>>, NEW p, IsLife(Head(q), p)
    PROVE  /\ NoticesIn(Tail(q), p) = {} => Ends(q, p, Head(q).op)
           /\ \A op : Ends(Tail(q), p, op) => Ends(q, p, op)
           /\ NoticesIn(q, p) # {}
           /\ \A a, b \in BOOLEAN : Leads(q, p, a, b) =>
                 (Head(q).op = "respawned" <=> ~a) /\ Leads(Tail(q), p, ~a, b)
<1> DEFINE r == Tail(q)
           N == NoticesIn(q, p)
           M == NoticesIn(r, p)
<1>1. /\ \A k : k \in M <=> k \in Nat \ {0} /\ k + 1 \in N
      /\ \A k \in M : r[k] = q[k + 1]
      /\ 1 \in N /\ q[1] = Head(q) /\ N \subseteq Nat \ {0}
    BY NoticesOfTail
<1>2. \A k \in N : k = 1 \/ (k \in Nat /\ k - 1 \in M /\ r[k - 1] = q[k] /\ (k - 1) + 1 = k)
    <2> SUFFICES ASSUME NEW k \in N, k # 1
                 PROVE  k \in Nat /\ k - 1 \in M /\ r[k - 1] = q[k] /\ (k - 1) + 1 = k
        OBVIOUS
    <2>1. k \in Nat \ {0} /\ k # 1
        BY <1>1
    <2>2. k - 1 \in Nat \ {0} /\ (k - 1) + 1 = k
        BY <2>1
    <2> HIDE DEF M, N, r
    <2> QED
        BY <1>1, <2>1, <2>2
<1>3. \A k \in M : k \in Nat \ {0} /\ k + 1 \in N /\ r[k] = q[k + 1]
    BY <1>1
<1>4. \A k \in N : k \in Nat \ {0}
    BY <1>1
<1> HIDE DEF r, M, N
<1>5. q[1].op \in {"respawned", "died"}
    BY <1>1 DEF IsLife
<1>6. ASSUME M = {}
      PROVE  Ends(q, p, q[1].op)
    <2>1. \A l \in N : l <= 1
        BY <1>2, <1>6
    <2> QED
        BY <1>1, <2>1 DEF Ends, N
<1>7. ASSUME NEW op, Ends(r, p, op)
      PROVE  Ends(q, p, op)
    <2>1. PICK k \in M : r[k].op = op /\ \A l \in M : l <= k
        BY <1>7 DEF Ends, M
    <2>2. k + 1 \in N /\ q[k + 1].op = op /\ \A l \in N : l <= k + 1
        BY <1>2, <1>3, <2>1
    <2> QED
        BY <2>2 DEF Ends, N
<1>8. ASSUME NEW a \in BOOLEAN, NEW b \in BOOLEAN, Leads(q, p, a, b)
      PROVE  (q[1].op = "respawned" <=> ~a) /\ Leads(r, p, ~a, b)
    <2>0. /\ \A k \in N : (\A l \in N : k <= l) => (q[k].op = "respawned" <=> ~a)
          /\ \A k \in N : (\A l \in N : l <= k) => (q[k].op = "respawned" <=> b)
          /\ \A k, l \in N : k < l /\ (\A m \in N : m <= k \/ l <= m) => q[k].op # q[l].op
          /\ \A k \in N : q[k].op \in {"respawned", "died"}
        BY <1>8 DEF Leads, N, NoticesIn, IsLife
    <2>1. q[1].op = "respawned" <=> ~a
        BY <1>1, <1>4, <2>0
    <2>2. M = {} => (~a <=> b)
        <3> SUFFICES ASSUME M = {}
                     PROVE  ~a <=> b
            OBVIOUS
        <3>1. \A l \in N : l <= 1
            BY <1>2
        <3> QED
            BY <1>1, <2>0, <2>1, <3>1
    <2>3. ASSUME NEW k \in M, \A l \in M : k <= l
          PROVE  r[k].op = "respawned" <=> a
        <3>1. k + 1 \in N /\ r[k] = q[k + 1] /\ 1 < k + 1
            BY <1>3
        <3>2. \A m \in N : m <= 1 \/ k + 1 <= m
            BY <1>2, <1>3, <2>3
        <3>3. q[1].op # q[k + 1].op /\ q[k + 1].op \in {"respawned", "died"}
            BY <1>1, <2>0, <3>1, <3>2
        <3> QED
            BY <1>5, <2>1, <3>1, <3>3
    <2>4. ASSUME NEW k \in M, \A l \in M : l <= k
          PROVE  r[k].op = "respawned" <=> b
        <3>1. k + 1 \in N /\ r[k] = q[k + 1] /\ \A l \in N : l <= k + 1
            BY <1>2, <1>3, <2>4
        <3>2. q[k + 1].op = "respawned" <=> b
            BY <2>0, <3>1
        <3> QED
            BY <3>1, <3>2
    <2>5. ASSUME NEW k \in M, NEW l \in M, k < l, \A m \in M : m <= k \/ l <= m
          PROVE  r[k].op # r[l].op
        <3>1. /\ k \in Nat \ {0} /\ k + 1 \in N /\ r[k] = q[k + 1]
              /\ l \in Nat \ {0} /\ l + 1 \in N /\ r[l] = q[l + 1]
            BY <1>3
        <3>2. k + 1 < l + 1
            BY <2>5, <3>1
        <3>3. ASSUME NEW m \in N
              PROVE  m <= k + 1 \/ l + 1 <= m
            <4>1. CASE m = 1
                BY <3>1, <4>1
            <4>2. CASE m # 1
                <5>1. m \in Nat /\ m - 1 \in M
                    BY <1>2, <4>2
                <5>2. m - 1 <= k \/ l <= m - 1
                    BY <2>5, <5>1
                <5> QED
                    BY <3>1, <5>1, <5>2
            <4> QED
                BY <4>1, <4>2
        <3>4. q[k + 1].op # q[l + 1].op
            BY <2>0, <3>1, <3>2, <3>3
        <3> QED
            BY <3>1, <3>4
    <2> QED
        BY <2>1, <2>2, <2>3, <2>4, <2>5 DEF Leads, M
<1>9. NoticesIn(q, p) # {}
    BY <1>1 DEF N
<1> QED
    BY <1>1, <1>6, <1>7, <1>8, <1>9 DEF M, r

-----------------------------------------------------------------------------
\* Who is kept alive by a session.

\* From L to R, sessions are tied to nobody new but the players of T.
TiesOnly(L, R, T) ==
    \A t \in Session : /\ R.player[t] \in {L.player[t], NoPlayer} \cup T
                       /\ R.observable[t] \in {L.observable[t], NoPlayer} \cup T

\* Letting a session go ties nobody.
LEMMA RemoveSessionTies ==
    ASSUME NEW L \in Links, NEW p \in Player, NEW s \in Session,
           NEW R, R = RemoveSession(L, p, s)
    PROVE  R \in Links /\ TiesOnly(L, R, {})
<1>1. /\ L.player \in [Session -> PlayerPtr] /\ L.observable \in [Session -> PlayerPtr]
      /\ L.viewers \in [Player -> SUBSET Session] /\ L.main \in [Player -> SessionPtr]
    BY DEF Links
<1>2. R \in Links
    BY <1>1 DEF RemoveSession, Links, PlayerPtr, SessionPtr
<1>3. TiesOnly(L, R, {})
    BY <1>1 DEF RemoveSession, Links, TiesOnly
<1> QED
    BY <1>2, <1>3

\* Nor does Forget, and what it is made of.
LEMMA ForgetTies ==
    ASSUME NEW L \in Links, NEW s \in Session
    PROVE  /\ StopObserving(L, s) \in Links /\ TiesOnly(L, StopObserving(L, s), {})
           /\ StopPlaying(L, s) \in Links /\ TiesOnly(L, StopPlaying(L, s), {})
           /\ Forget(L, s) \in Links /\ TiesOnly(L, Forget(L, s), {})
<1>1. ASSUME NEW K \in Links
      PROVE  StopPlaying(K, s) \in Links /\ TiesOnly(K, StopPlaying(K, s), {})
    <2>1. CASE K.player[s] = NoPlayer
        BY <2>1 DEF StopPlaying, TiesOnly
    <2>2. CASE K.player[s] # NoPlayer
        <3>1. K.player[s] \in Player
            BY <2>2 DEF Links, PlayerPtr
        <3> QED
            BY <2>2, <3>1, RemoveSessionTies DEF StopPlaying
    <2> QED
        BY <2>1, <2>2
<1>2. ASSUME NEW K \in Links
      PROVE  StopObserving(K, s) \in Links /\ TiesOnly(K, StopObserving(K, s), {})
    <2>1. CASE K.observable[s] = NoPlayer
        BY <2>1 DEF StopObserving, TiesOnly
    <2>2. CASE K.observable[s] # NoPlayer
        <3>1. K.observable[s] \in Player
            BY <2>2 DEF Links, PlayerPtr
        <3>2. PICK D : D = RemoveSession(K, K.observable[s], s)
            OBVIOUS
        <3>3. D \in Links /\ TiesOnly(K, D, {})
            BY <3>1, <3>2, RemoveSessionTies
        <3>4. StopObserving(K, s) = [D EXCEPT !.observable[s] = NoPlayer]
            BY <2>2, <3>2 DEF StopObserving
        <3>5. PICK R : R = [D EXCEPT !.observable[s] = NoPlayer]
            OBVIOUS
        <3>6. R \in Links
            BY <3>3, <3>5 DEF Links, PlayerPtr
        <3>7. TiesOnly(K, R, {})
            BY <3>3, <3>5 DEF Links, TiesOnly
        <3> QED
            BY <3>4, <3>5, <3>6, <3>7
    <2> QED
        BY <2>1, <2>2
<1>3. PICK D : D = StopPlaying(L, s)
    OBVIOUS
<1>4. D \in Links /\ TiesOnly(L, D, {})
    BY <1>1, <1>3
<1>5. Forget(L, s) = StopObserving(D, s)
    BY <1>3 DEF Forget
<1>6. StopObserving(D, s) \in Links /\ TiesOnly(D, StopObserving(D, s), {})
    BY <1>2, <1>4
<1>7. TiesOnly(L, StopObserving(D, s), {})
    BY <1>4, <1>6 DEF TiesOnly
<1> QED
    BY <1>1, <1>2, <1>5, <1>6, <1>7

\* A main session is tied to its player only.
LEMMA SetMainSessionTies ==
    ASSUME NEW L \in Links, NEW p \in Player, NEW s \in Session,
           NEW R, R = SetMainSession(L, p, s)
    PROVE  R \in Links /\ TiesOnly(L, R, {p})
<1>1. PICK D : D = Displace(L, p)
    OBVIOUS
<1>2. D \in Links /\ TiesOnly(L, D, {})
    <2>1. CASE L.main[p] = NoSession
        BY <1>1, <2>1 DEF Displace, TiesOnly
    <2>2. CASE L.main[p] # NoSession
        <3>1. PICK m \in Session : m = L.main[p]
            BY <2>2 DEF Links, SessionPtr
        <3>2. D = [L EXCEPT !.viewers[p] = @ \ {m}, !.main[p] = NoSession, !.player[m] = NoPlayer]
            BY <1>1, <2>2, <3>1 DEF Displace
        <3>3. D \in Links
            BY <3>2 DEF Links, PlayerPtr, SessionPtr
        <3>4. TiesOnly(L, D, {})
            BY <3>2 DEF Links, TiesOnly
        <3> QED
            BY <3>3, <3>4
    <2> QED
        BY <2>1, <2>2
<1>3. R = [D EXCEPT !.main[p] = s, !.player[s] = p, !.viewers[p] = @ \cup {s}]
    BY <1>1, <1>2 DEF SetMainSession, Install, AddSession, Links
<1>4. R \in Links
    <2>1. /\ D.viewers \in [Player -> SUBSET Session] /\ D.main \in [Player -> SessionPtr]
          /\ D.player \in [Session -> PlayerPtr] /\ D.observable \in [Session -> PlayerPtr]
        BY <1>2 DEF Links
    <2>2. /\ R = [viewers |-> R.viewers, main |-> R.main, player |-> R.player,
                  observable |-> R.observable]
          /\ R.viewers = [D.viewers EXCEPT ![p] = @ \cup {s}]
          /\ R.main = [D.main EXCEPT ![p] = s]
          /\ R.player = [D.player EXCEPT ![s] = p]
          /\ R.observable = D.observable
        BY <1>2, <1>3 DEF Links
    <2>3. R.main \in [Player -> SessionPtr] /\ R.player \in [Session -> PlayerPtr]
        BY <2>1, <2>2 DEF PlayerPtr, SessionPtr
    <2>4. R.viewers \in [Player -> SUBSET Session] /\ R.observable \in [Session -> PlayerPtr]
        BY <2>1, <2>2
    <2> QED
        BY <2>2, <2>3, <2>4 DEF Links
<1>5. TiesOnly(L, R, {p})
    BY <1>2, <1>3 DEF Links, TiesOnly
<1> QED
    BY <1>4, <1>5

\* A session that watches is tied to its target only.
LEMMA ObserveTies ==
    ASSUME NEW L \in Links, NEW p \in Player, NEW s \in Session
    PROVE  TiesOnly(L, Observe(L, s, p), {p})
<1>1. PICK D : D = Forget(L, s)
    OBVIOUS
<1>2. D \in Links /\ TiesOnly(L, D, {})
    BY <1>1, ForgetTies
<1>3. Observe(L, s, p) = [D EXCEPT !.viewers[p] = @ \cup {s}, !.observable[s] = p]
    BY <1>1, <1>2 DEF Observe, AddSession, Links
<1>4. PICK R : R = [D EXCEPT !.viewers[p] = @ \cup {s}, !.observable[s] = p]
    OBVIOUS
<1>5. TiesOnly(L, R, {p})
    BY <1>2, <1>4 DEF Links, TiesOnly
<1> QED
    BY <1>3, <1>4, <1>5

\* A death ties sessions to the survivor only.
LEMMA DeathTies ==
    ASSUME NEW L \in Links, NEW p \in Player, NEW w \in Player
    PROVE  TiesOnly(L, ClearSessions(L, p), {}) /\ TiesOnly(L, ShowSurvivor(L, p, w), {w})
<1>1. ASSUME NEW K \in Links
      PROVE  TiesOnly(K, ClearSessions(K, p), {})
    <2>1. CASE K.main[p] = NoSession
        BY <2>1 DEF ClearSessions, Links, TiesOnly
    <2>2. CASE K.main[p] # NoSession
        <3>1. PICK m \in Session : m = K.main[p]
            BY <2>2 DEF Links, SessionPtr
        <3>2. ClearSessions(K, p) = [K EXCEPT !.viewers[p] = {}, !.main[p] = NoSession,
                                              !.player[m] = NoPlayer]
            BY <2>2, <3>1 DEF ClearSessions
        <3>3. PICK R : R = [K EXCEPT !.viewers[p] = {}, !.main[p] = NoSession,
                                     !.player[m] = NoPlayer]
            OBVIOUS
        <3>4. TiesOnly(K, R, {})
            BY <3>3 DEF Links, TiesOnly
        <3> QED
            BY <3>2, <3>3, <3>4
    <2> QED
        BY <2>1, <2>2
<1>2. PICK H : H = HandOver(L, p, w)
    OBVIOUS
<1>3. H \in Links /\ TiesOnly(L, H, {w})
    <2>1. H \in Links
        BY <1>2 DEF HandOver, Links, PlayerPtr
    <2>2. TiesOnly(L, H, {w})
        BY <1>2 DEF HandOver, Links, TiesOnly
    <2> QED
        BY <2>1, <2>2
<1>4. TiesOnly(H, ClearSessions(H, p), {})
    BY <1>1, <1>3
<1>5. TiesOnly(L, ClearSessions(H, p), {w})
    BY <1>3, <1>4 DEF TiesOnly
<1> QED
    BY <1>1, <1>2, <1>5 DEF ShowSurvivor

\* So a player that nothing refers to stays so, unless it is in T.
LEMMA StaysUnreferenced ==
    ASSUME TypeOK, NEW p \in Player, ~Referenced(p), NEW T, p \notin T, LinksAssumption,
           TiesOnly(links, links', T),
           \A i \in Id : players'[i] # p, p \notin fighters', ~(leaderboard'[p] > 0)
    PROVE  ~Referenced(p)'
<1>1. p # NoPlayer
    BY DEF LinksAssumption
<1>2. \A s \in Session : links.player[s] # p /\ links.observable[s] # p
    BY DEF Referenced
<1>3. \A s \in Session : links'.player[s] # p /\ links'.observable[s] # p
    BY <1>1, <1>2 DEF TiesOnly
<1> QED
    BY <1>3 DEF Referenced

-----------------------------------------------------------------------------
\* What a step means to one player.

\* Nothing that matters for its place on the board.
Quiet(p) ==
    /\ SameTale(strand, strand', p)
    /\ isAlive'[p] = isAlive[p]
    /\ idOf[p] # NoId => idOf'[p] # NoId
    /\ leaderboard'[p] = leaderboard[p]
    /\ p \in fighters' => p \in fighters
    /\ isAlive[p] /\ p \in fighters => p \in fighters'
    /\ isAlive[p] /\ Referenced(p)' => Referenced(p)

\* It wakes up or dies, and the room is sent word of it.
Turns(p, op) ==
    /\ isAlive'[p] = (op = "respawned")
    /\ leaderboard'[p] = leaderboard[p]
    /\ fighters' = fighters
    /\ \E q \in Seq(Job) : SameTale(strand, q, p) /\ strand' = Append(q, Notice(op, p))

Wakes(p) == Turns(p, "respawned") /\ ~isAlive[p] /\ idOf'[p] # NoId
Falls(p) ==
    /\ Turns(p, "died") /\ idOf'[p] = idOf[p]
    /\ deaths # <<>> /\ (Head(deaths).listed => isAlive[p])

\* The room hears of it.
Told(p) == (OnPlayerRespawn \/ OnPlayerDeath) /\ Head(strand).player = p

\* What connections post is no notice.
LEMMA ConnectionsPost ==
    ASSUME IInv, Connections
    PROVE  \/ strand' = strand
           \/ \E j \in Job : /\ j.op \in {"join", "leave", "play", "spectate", "split"}
                             /\ strand' = Append(strand, j)
<1>1. PICK s \in Session :
          \/ \E i \in Id : Greet(s, i)
          \/ EnterRoom(s)
          \/ Command(s)
          \/ Disconnect(s)
    BY DEF Connections
<1>2. TypeOK
    BY DEF IInv
<1>3. ASSUME NEW jobs, Post(jobs),
             \/ jobs = <<>>
             \/ \E j \in Job : /\ j.op \in {"join", "leave", "play", "spectate", "split"}
                               /\ jobs = <<j>>
      PROVE  \/ strand' = strand
             \/ \E j \in Job : /\ j.op \in {"join", "leave", "play", "spectate", "split"}
                               /\ strand' = Append(strand, j)
    BY <1>2, <1>3, PostOne, PostNone DEF Post
<1>4. ASSUME NEW i \in Id, Greet(s, i)
      PROVE  \E jobs : Post(jobs) /\ \/ jobs = <<>>
                                     \/ \E j \in Job :
                                            /\ j.op \in {"join", "leave", "play", "spectate", "split"}
                                            /\ jobs = <<j>>
    <2>1. holder[i] # NoSession => SessionJob("leave", holder[i]) \in Job
        BY <1>2 DEF TypeOK, SessionPtr, SessionJob, Job
    <2>2. SessionJob("leave", holder[i]).op = "leave"
        BY DEF SessionJob
    <2> QED
        BY <1>4, <2>1, <2>2 DEF Greet
<1>5. ASSUME EnterRoom(s)
      PROVE  \E j \in Job : /\ j.op \in {"join", "leave", "play", "spectate", "split"}
                            /\ Post(<<j>>)
    <2>1. user[s] \in Id
        BY <1>5 DEF IInv, JobInv, EnterRoom
    <2>2. JoinJob(s, user[s]) \in Job /\ JoinJob(s, user[s]).op = "join"
        BY <2>1 DEF JoinJob, Job
    <2> QED
        BY <1>5, <2>2 DEF EnterRoom
<1>6. ASSUME Command(s)
      PROVE  \E j \in Job : /\ j.op \in {"join", "leave", "play", "spectate", "split"}
                            /\ Post(<<j>>)
    <2>1. \A op \in {"play", "split"} : SessionJob(op, s) \in Job /\ SessionJob(op, s).op = op
        BY DEF SessionJob, Job
    <2>2. \A i \in Id : SpectateJob(s, i) \in Job /\ SpectateJob(s, i).op = "spectate"
        BY DEF SpectateJob, Job
    <2> QED
        BY <1>6, <2>1, <2>2 DEF Command
<1>7. ASSUME Disconnect(s)
      PROVE  \E jobs : Post(jobs) /\ \/ jobs = <<>>
                                     \/ \E j \in Job :
                                            /\ j.op \in {"join", "leave", "play", "spectate", "split"}
                                            /\ jobs = <<j>>
    <2>1. SessionJob("leave", s) \in Job /\ SessionJob("leave", s).op = "leave"
        BY DEF SessionJob, Job
    <2> QED
        BY <1>7, <2>1 DEF Disconnect
<1> QED
    BY <1>1, <1>3, <1>4, <1>5, <1>6, <1>7

\* Nothing changes, and nothing is told.
LEMMA SameTaleOfSame ==
    ASSUME NEW q, NEW r, NEW p
    PROVE  /\ SameTale(q, q, p)
           /\ \A x : SameTale(q, r, p) /\ SameTale(r, x, p) => SameTale(q, x, p)
BY Zenon DEF SameTale

\* Steps of the connections, and of the timers but one.
LEMMA QuietOutside ==
    ASSUME IInv, NEW p \in Player,
           \/ Connections \/ Interactions \/ EndInteractions \/ UNCHANGED vars
           \/ BeginUpdate \/ Synchronize \/ UpdateLeaderboard
    PROVE  Quiet(p)
<1> USE DEF roomVars, boardVars, cellVars, playerVars
<1>1. /\ UNCHANGED <<isAlive, idOf, leaderboard, links, players>>
      /\ \/ fighters' = fighters
         \/ fighters' = {q \in fighters : isAlive[q]}
    BY DEF Connections, Greet, EnterRoom, Command, Disconnect, Interactions, Eat, EatenByMother,
           Explode, EndInteractions, vars, BeginUpdate, Synchronize, UpdateLeaderboard
<1>2. SameTale(strand, strand', p)
    <2>1. CASE strand' = strand
        BY <2>1, SameTaleOfSame
    <2>2. CASE Connections
        <3>1. ASSUME NEW j \in Job, j.op \in {"join", "leave", "play", "spectate", "split"},
                     strand' = Append(strand, j)
              PROVE  SameTale(strand, strand', p)
            <4>1. ~IsLife(j, p)
                BY <3>1 DEF IsLife
            <4> QED
                BY <3>1, <4>1, SameTaleOfAppend DEF IInv, TypeOK
        <3> QED
            BY <2>1, <2>2, <3>1, ConnectionsPost
    <2> QED
        BY <2>1, <2>2 DEF Interactions, Eat, EatenByMother, Explode, EndInteractions, vars,
                          BeginUpdate, Synchronize, UpdateLeaderboard
<1>3. p \in fighters' => p \in fighters
    BY <1>1
<1>4. isAlive[p] /\ p \in fighters => p \in fighters'
    BY <1>1
<1>5. Referenced(p)' => Referenced(p)
    BY <1>1, <1>3 DEF Referenced
<1> QED
    BY <1>1, <1>2, <1>3, <1>4, <1>5 DEF Quiet

\* A handler that tells nobody of a death or a new life.
LEMMA QuietHandler ==
    ASSUME LinksAssumption, IInv, NEW p \in Player, NEW op, Handle(op),
           op \notin {"respawned", "died"},
           strand' = Tail(strand), UNCHANGED <<isAlive, idOf, leaderboard, fighters>>,
           \A i \in Id : players'[i] = p => players[i] = p,
           NEW T, TiesOnly(links, links', T), p \in T => Referenced(p)
    PROVE  Quiet(p)
<1>1. strand \in Seq(Job) /\ strand # <<>> /\ Head(strand).op = op
    BY HandledJob DEF IInv, TypeOK
<1>2. SameTale(strand, strand', p)
    <2>1. ~IsLife(Head(strand), p)
        BY <1>1 DEF IsLife
    <2> QED
        BY <1>1, <2>1, SameTaleOfTail
<1>3. Referenced(p)' => Referenced(p)
    <2> SUFFICES ASSUME ~Referenced(p)
                 PROVE  ~Referenced(p)'
        OBVIOUS
    <2>1. \A i \in Id : players'[i] # p
        BY DEF Referenced
    <2>2. p \notin fighters' /\ ~(leaderboard'[p] > 0)
        BY DEF Referenced
    <2> QED
        BY <2>1, <2>2, StaysUnreferenced DEF IInv
<1> QED
    BY <1>2, <1>3 DEF Quiet

\* The jobs of sessions, except play.
LEMMA QuietJobs ==
    ASSUME LinksAssumption, RoomAssumption, IInv, NEW p \in Player,
           DoJoin \/ DoLeave \/ DoSpectate \/ DoSplit \/ OnPlayerAnnihilates
    PROVE  Quiet(p)
<1> USE DEF roomVars, boardVars, playerVars
<1>1. links \in Links /\ players \in [Id -> PlayerPtr]
    BY DEF IInv, TypeOK
<1>2. TiesOnly(links, links, {})
    BY DEF TiesOnly
<1>3. CASE DoJoin
    <2> DEFINE s == Head(strand).sess
               q == players[Head(strand).id]
    <2>1. Handle("join") /\ s \in Session /\ Head(strand).id \in Id
        BY <1>3, HandledJob DEF DoJoin, IInv
    <2>2. q \in PlayerPtr /\ (q = p => Referenced(p))
        BY <1>1, <2>1 DEF Referenced
    <2>3. links' = links \/ (q # NoPlayer /\ links' = SetMainSession(links, q, s))
        BY <1>3 DEF DoJoin
    <2> HIDE DEF s, q
    <2>4. TiesOnly(links, links', {q})
        <3>1. CASE links' = links
            BY <3>1 DEF TiesOnly
        <3>2. CASE q # NoPlayer /\ links' = SetMainSession(links, q, s)
            BY <1>1, <2>1, <2>2, <3>2, SetMainSessionTies DEF PlayerPtr
        <3> QED
            BY <2>3, <3>1, <3>2
    <2>5. strand' = Tail(strand) /\ UNCHANGED <<isAlive, idOf, leaderboard, fighters, players>>
        BY <1>3 DEF DoJoin
    <2> QED
        BY <2>1, <2>2, <2>4, <2>5, QuietHandler
<1>4. CASE DoLeave
    <2> DEFINE s == Head(strand).sess
    <2>1. Handle("leave") /\ s \in Session
        BY <1>4, HandledJob DEF DoLeave, IInv
    <2>2. links' = links \/ links' = Forget(links, s)
        BY <1>4 DEF DoLeave
    <2>3. TiesOnly(links, links', {})
        BY <1>1, <1>2, <2>1, <2>2, ForgetTies
    <2>4. strand' = Tail(strand) /\ UNCHANGED <<isAlive, idOf, leaderboard, fighters, players>>
        BY <1>4 DEF DoLeave
    <2> QED
        BY <2>1, <2>3, <2>4, QuietHandler
<1>5. CASE DoSpectate
    <2> DEFINE s == Head(strand).sess
               i == Head(strand).id
    <2>1. Handle("spectate") /\ s \in Session /\ i \in Id
        BY <1>5, HandledJob DEF DoSpectate, IInv
    <2>2. \A t \in SpectateTarget(i) : t \in Player /\ Referenced(t)
        BY <1>1, <2>1 DEF SpectateTarget, Referenced, PlayerPtr
    <2>3. links' = links \/ \E t \in SpectateTarget(i) : links' = Observe(links, s, t)
        BY <1>5 DEF DoSpectate
    <2>4. strand' = Tail(strand) /\ UNCHANGED <<isAlive, idOf, leaderboard, fighters, players>>
        BY <1>5 DEF DoSpectate
    <2> HIDE DEF s, i
    <2>5. CASE links' = links
        BY <1>2, <2>1, <2>4, <2>5, QuietHandler
    <2>6. ASSUME NEW t \in SpectateTarget(i), links' = Observe(links, s, t)
          PROVE  Quiet(p)
        <3>1. TiesOnly(links, links', {t}) /\ (p \in {t} => Referenced(p))
            BY <1>1, <2>1, <2>2, <2>6, ObserveTies
        <3> QED
            BY <2>1, <2>4, <3>1, QuietHandler
    <2> QED
        BY <2>3, <2>5, <2>6
<1>6. CASE DoSplit
    <2>1. /\ Handle("split") /\ strand' = Tail(strand)
          /\ UNCHANGED <<isAlive, idOf, leaderboard, fighters, players, links>>
        BY <1>6 DEF DoSplit
    <2> QED
        BY <1>2, <2>1, QuietHandler
<1>7. CASE OnPlayerAnnihilates
    <2>1. /\ Handle("annihilated") /\ strand' = Tail(strand)
          /\ UNCHANGED <<isAlive, idOf, leaderboard, fighters, links>>
          /\ \/ players' = players
             \/ \E i : players' = [players EXCEPT ![i] = NoPlayer]
        BY <1>7 DEF OnPlayerAnnihilates
    <2>2. \A i \in Id : players'[i] = p => players[i] = p
        BY <1>1, <2>1 DEF LinksAssumption
    <2> QED
        BY <1>2, <2>1, <2>2, QuietHandler
<1> QED
    BY <1>3, <1>4, <1>5, <1>6, <1>7
\* The session that plays is known, and so is the player of its user.
LEMMA PlayedIsKnown ==
    ASSUME LinksAssumption, IInv, DoPlay, NEW s, s = Head(strand).sess
    PROVE  /\ s \in Session /\ playerId[s] \in Id
           /\ Handle("play") /\ strand \in Seq(Job) /\ Tail(strand) \in Seq(Job)
           /\ KnownPlayer(s) \in PlayerPtr
           /\ KnownPlayer(s) # NoPlayer =>
                 KnownPlayer(s) \in Player /\ idOf[KnownPlayer(s)] = playerId[s]
                     /\ Referenced(KnownPlayer(s))
           /\ KnownPlayer(s) = NoPlayer => players[playerId[s]] = NoPlayer
<1>1. Handle("play")
    BY DEF DoPlay
<1>2. s \in Session /\ Head(strand).op = "play" /\ strand # <<>> /\ Tail(strand) \in Seq(Job)
    BY <1>1, HandledJob DEF IInv
<1>3. s \in Known
    <2>1. Head(strand).op = "play" => Head(strand).sess \in Known
        BY <1>2, QueueTail DEF IInv, TypeOK, JobInv
    <2> QED
        BY <1>2, <2>1
<1>4. playerId[s] \in Id
    BY <1>3 DEF Known
<1>5. links.player[s] \in PlayerPtr /\ players[playerId[s]] \in PlayerPtr
    BY <1>2, <1>4 DEF IInv, TypeOK, Links
<1>6. /\ links.player[s] # NoPlayer => idOf[links.player[s]] = playerId[s]
      /\ players[playerId[s]] # NoPlayer => idOf[players[playerId[s]]] = playerId[s]
    BY <1>2, <1>4 DEF IInv, OwnInv
<1>7. KnownPlayer(s) # NoPlayer => Referenced(KnownPlayer(s))
    BY <1>2, <1>4 DEF KnownPlayer, Referenced
<1> QED
    BY <1>1, <1>2, <1>4, <1>5, <1>6, <1>7 DEF KnownPlayer, PlayerPtr, IInv, TypeOK

\* A player that is played wakes up, and the others do not notice.
LEMMA PlayedTurns ==
    ASSUME LinksAssumption, RoomAssumption, IInv, RankInv, NEW p \in Player, DoPlay
    PROVE  Quiet(p) \/ Wakes(p)
<1> DEFINE s == Head(strand).sess
           known == KnownPlayer(s)
<1>1. /\ s \in Session /\ playerId[s] \in Id
      /\ Handle("play") /\ strand \in Seq(Job) /\ Tail(strand) \in Seq(Job)
      /\ known # NoPlayer => /\ known \in Player
                             /\ idOf[known] = playerId[s]
                             /\ Referenced(known)
      /\ known = NoPlayer => players[playerId[s]] = NoPlayer
    BY PlayedIsKnown
<1>2. UNCHANGED <<leaderboard, fighters>>
    BY DEF DoPlay, boardVars
<1> HIDE DEF s, known
<1>3. /\ links \in Links /\ isAlive \in [Player -> BOOLEAN] /\ idOf \in [Player -> IdPtr]
      /\ players \in [Id -> PlayerPtr] /\ NoId \notin Id
    BY DEF IInv, TypeOK, RoomAssumption
<1>4. SameTale(strand, Tail(strand), p)
    <2>1. strand # <<>> /\ ~IsLife(Head(strand), p)
        BY <1>1 DEF Handle, IsLife
    <2> QED
        BY <1>1, <2>1, SameTaleOfTail
<1>5. ASSUME NEW o \in Player, PlayAs(s, o)
      PROVE  /\ TiesOnly(links, links', {o})
             /\ isAlive' = [isAlive EXCEPT ![o] = TRUE]
             /\ strand' = IF isAlive[o] THEN Tail(strand)
                          ELSE Append(Tail(strand), Notice("respawned", o))
             /\ p # o => SameTale(strand, strand', p) /\ isAlive'[p] = isAlive[p]
    <2>1. PICK D : D = StopObserving(links, s)
        OBVIOUS
    <2>2. D \in Links /\ TiesOnly(links, D, {})
        BY <1>1, <1>3, <2>1, ForgetTies
    <2>3. links' = SetMainSession(D, o, s)
        BY <1>5, <2>1 DEF PlayAs
    <2>4. TiesOnly(D, links', {o})
        BY <1>1, <2>2, <2>3, SetMainSessionTies
    <2>5. TiesOnly(links, links', {o})
        BY <2>2, <2>4 DEF TiesOnly
    <2>6. isAlive' = [isAlive EXCEPT ![o] = TRUE]
        BY <1>5 DEF PlayAs
    <2>7. strand' = IF isAlive[o] THEN Tail(strand)
                    ELSE Append(Tail(strand), Notice("respawned", o))
        BY <1>5 DEF PlayAs
    <2>8. ASSUME p # o
          PROVE  SameTale(strand, strand', p)
        <3>1. CASE isAlive[o]
            BY <1>4, <2>7, <3>1
        <3>2. CASE ~isAlive[o]
            <4>1. PICK j \in Job : j = Notice("respawned", o) /\ ~IsLife(j, p)
                BY <2>8, NoticeOfPlayer
            <4>2. SameTale(Tail(strand), Append(Tail(strand), j), p)
                BY <1>1, <4>1, SameTaleOfAppend
            <4>3. strand' = Append(Tail(strand), j)
                BY <2>7, <3>2, <4>1
            <4> QED
                BY <1>4, <4>2, <4>3, SameTaleOfSame
        <3> QED
            BY <3>1, <3>2
    <2> QED
        BY <1>3, <2>5, <2>6, <2>7, <2>8
<1>6. ASSUME NEW o \in Player, PlayAs(s, o), p # o,
             \A i \in Id : players'[i] = p => players[i] = p,
             idOf'[p] = idOf[p]
      PROVE  Quiet(p)
    <2>1. Referenced(p)' => Referenced(p)
        <3>1. TiesOnly(links, links', {o}) /\ p \notin {o}
            BY <1>5, <1>6
        <3> SUFFICES ASSUME ~Referenced(p)
                     PROVE  ~Referenced(p)'
            OBVIOUS
        <3>2. (\A i \in Id : players'[i] # p) /\ p \notin fighters' /\ ~(leaderboard'[p] > 0)
            BY <1>2, <1>6 DEF Referenced
        <3> QED
            BY <3>1, <3>2, StaysUnreferenced DEF IInv
    <2> QED
        BY <1>2, <1>5, <1>6, <2>1 DEF Quiet
<1>7. ASSUME PlayAs(s, p), ~isAlive[p], idOf'[p] # NoId
      PROVE  Wakes(p)
    <2>1. strand' = Append(Tail(strand), Notice("respawned", p)) /\ isAlive'[p] = TRUE
        BY <1>3, <1>5, <1>7
    <2> QED
        BY <1>1, <1>2, <1>4, <1>7, <2>1 DEF Wakes, Turns
<1>8. CASE known # NoPlayer /\ PlayAs(s, known) /\ UNCHANGED <<players, idOf>>
    <2>1. CASE known # p
        BY <1>1, <1>6, <1>8, <2>1
    <2>2. CASE known = p /\ ~isAlive[p]
        BY <1>1, <1>3, <1>7, <1>8, <2>2
    <2>3. CASE known = p /\ isAlive[p]
        <3>1. strand' = Tail(strand) /\ isAlive'[p] = isAlive[p]
            BY <1>3, <1>5, <1>8, <2>3
        <3> QED
            BY <1>1, <1>2, <1>4, <1>8, <2>3, <3>1 DEF Quiet
    <2> QED
        BY <2>1, <2>2, <2>3
<1>9. ASSUME NEW o \in Uncreated, known = NoPlayer, PlayAs(s, o),
             players' = [players EXCEPT ![playerId[s]] = o],
             idOf' = [idOf EXCEPT ![o] = playerId[s]]
      PROVE  Quiet(p) \/ Wakes(p)
    <2>1. o \in Player /\ idOf[o] = NoId /\ ~isAlive[o]
        BY DEF Uncreated, RankInv, Ranked
    <2>2. CASE p # o
        <3>1. (\A i \in Id : players'[i] = p => players[i] = p) /\ idOf'[p] = idOf[p]
            BY <1>3, <1>9, <2>1, <2>2
        <3> QED
            BY <1>6, <1>9, <2>1, <2>2, <3>1
    <2>3. CASE p = o
        <3>1. idOf'[p] # NoId
            BY <1>1, <1>3, <1>9, <2>3
        <3> QED
            BY <1>7, <1>9, <2>1, <2>3, <3>1
    <2> QED
        BY <2>2, <2>3
<1>10. CASE strand' = Tail(strand) /\ UNCHANGED <<players, idOf, links, isAlive>>
    <2>1. TiesOnly(links, links', {})
        BY <1>10 DEF TiesOnly
    <2> QED
        BY <1>1, <1>2, <1>10, <2>1, QuietHandler
<1> QED
    BY <1>8, <1>9, <1>10 DEF DoPlay, s, known

\* The player whose last avatar is removed dies; the survivor its watchers are
\* shown was there before.
LEMMA DeathTurns ==
    ASSUME LinksAssumption, RoomAssumption, IInv, LifeInv, NEW p \in Player, RemoveAvatar
    PROVE  Quiet(p) \/ Falls(p)
<1> DEFINE k == Head(deaths)
           o == k.owner
<1>1. k \in Killed /\ o \in Player
    <2>1. deaths \in Seq(Killed) /\ deaths # <<>>
        BY DEF IInv, DeathsInv, TypeOK, RemoveAvatar
    <2>2. k \in Killed
        BY <2>1, HeadTailProperties
    <2> QED
        BY <2>2 DEF Killed
<1>2. UNCHANGED <<idOf, leaderboard, fighters, players>> /\ deaths # <<>>
    BY DEF RemoveAvatar, roomVars, boardVars, IInv, DeathsInv
<1>3. \/ WasLast(k) /\ Die(o)
      \/ UNCHANGED <<isAlive, strand, links>>
    BY DEF RemoveAvatar
<1> HIDE DEF k, o
<1>4. /\ links \in Links /\ isAlive \in [Player -> BOOLEAN] /\ strand \in Seq(Job)
      /\ killer[o] \in PlayerPtr /\ topPlayer \in PlayerPtr
    BY <1>1 DEF IInv, TypeOK
<1>5. CASE UNCHANGED <<isAlive, strand, links>>
    <2>1. Referenced(p)' = Referenced(p)
        BY <1>2, <1>5 DEF Referenced
    <2> QED
        BY <1>2, <1>5, <2>1, SameTaleOfSame DEF Quiet
<1>6. CASE WasLast(k) /\ Die(o)
    <2>1. /\ strand' = Append(strand, Notice("died", o))
          /\ isAlive' = [isAlive EXCEPT ![o] = FALSE]
        <3>1. Notice("died", o) \in Job
            BY <1>1 DEF Notice, Job
        <3> QED
            BY <1>6, <3>1, PostOne DEF Die, Post, IInv
    <2>2. ASSUME k.listed
          PROVE  isAlive[o]
        <3>1. Held(o) = 1
            BY <1>6, <2>2 DEF WasLast, o
        <3> QED
            BY <1>1, <3>1 DEF LifeInv, Lives
    <2>3. CASE p = o
        <3>1. Turns(p, "died")
            BY <1>2, <1>4, <2>1, <2>3, SameTaleOfSame DEF Turns
        <3> QED
            BY <1>2, <2>2, <2>3, <3>1 DEF Falls, k
    <2>4. CASE p # o
        <3>1. SameTale(strand, strand', p) /\ isAlive'[p] = isAlive[p]
            <4>1. PICK op \in {"respawned", "died"} : op = "died"
                OBVIOUS
            <4>2. EndsWith(strand', strand, op, o)
                BY <2>1, <4>1 DEF EndsWith
            <4>3. SameTale(strand, strand', p)
                BY <1>1, <1>4, <2>4, <4>2, TaleOfNotice
            <4> QED
                BY <1>1, <1>4, <2>1, <2>4, <4>3
        <3>2. \/ links' = ClearSessions(links, o)
              \/ \E w \in Player : Referenced(w) /\ links' = ShowSurvivor(links, o, w)
            BY <1>4, <1>6 DEF Die, Shown, PlayerPtr
        <3>3. Referenced(p)' => Referenced(p)
            <4> SUFFICES ASSUME ~Referenced(p)
                         PROVE  ~Referenced(p)'
                OBVIOUS
            <4>1. \E T : p \notin T /\ TiesOnly(links, links', T)
                <5>1. CASE links' = ClearSessions(links, o)
                    <6>1. TiesOnly(links, links', {}) /\ p \notin {}
                        BY <1>1, <1>4, <5>1, DeathTies
                    <6> QED
                        BY <6>1
                <5>2. ASSUME NEW w \in Player, Referenced(w), links' = ShowSurvivor(links, o, w)
                      PROVE  \E T : p \notin T /\ TiesOnly(links, links', T)
                    <6>1. TiesOnly(links, links', {w}) /\ p \notin {w}
                        BY <1>1, <1>4, <5>2, DeathTies
                    <6> QED
                        BY <6>1
                <5> QED
                    BY <3>2, <5>1, <5>2
            <4>2. (\A i \in Id : players'[i] # p) /\ p \notin fighters' /\ ~(leaderboard'[p] > 0)
                BY <1>2 DEF Referenced
            <4> QED
                BY <4>1, <4>2, StaysUnreferenced DEF IInv
        <3> QED
            BY <1>2, <3>1, <3>3 DEF Quiet
    <2> QED
        BY <2>3, <2>4
<1> QED
    BY <1>3, <1>5, <1>6
\* So every step is of one of six kinds for a player.
LEMMA StepOfPlayer ==
    ASSUME LinksAssumption, RoomAssumption, IInv, LifeInv, RankInv, NEW p \in Player, [Next]_vars
    PROVE  Quiet(p) \/ Wakes(p) \/ Falls(p) \/ Told(p) \/ Annihilate(p)
<1>1. CASE \/ Connections \/ Interactions \/ EndInteractions \/ UNCHANGED vars
           \/ BeginUpdate \/ Synchronize \/ UpdateLeaderboard
    BY <1>1, QuietOutside
<1>2. CASE \/ DoJoin \/ DoLeave \/ DoSpectate \/ DoSplit \/ OnPlayerAnnihilates
    BY <1>2, QuietJobs
<1>3. CASE DoPlay
    BY <1>3, PlayedTurns
<1>4. CASE RemoveAvatar
    BY <1>4, DeathTurns
<1>5. CASE OnPlayerRespawn \/ OnPlayerDeath
    <2> DEFINE o == Head(strand).player
    <2>1. PICK op \in {"respawned", "died"} : Handle(op)
        BY <1>5 DEF OnPlayerRespawn, OnPlayerDeath
    <2>2. strand # <<>> /\ strand \in Seq(Job) /\ Head(strand).op = op /\ o \in Player
        BY <2>1, HandledJob DEF IInv, TypeOK
    <2>3. CASE o = p
        BY <1>5, <2>3 DEF Told
    <2>4. CASE o # p
        <3>1. /\ strand' = Tail(strand)
              /\ UNCHANGED <<isAlive, idOf, links, players>>
              /\ \/ fighters' = fighters \cup {o} /\ leaderboard' = [leaderboard EXCEPT ![o] = @ + 1]
                 \/ fighters' = fighters /\ leaderboard' = leaderboard
                 \/ /\ fighters' = fighters \ {o}
                    /\ leaderboard' = [leaderboard EXCEPT ![o] = IF @ > 0 THEN @ - 1 ELSE 0]
            BY <1>5 DEF OnPlayerRespawn, OnPlayerDeath, roomVars, playerVars
        <3>2. ~IsLife(Head(strand), p)
            BY <2>4 DEF IsLife
        <3>3. SameTale(strand, strand', p)
            BY <2>2, <3>1, <3>2, SameTaleOfTail
        <3>4. leaderboard'[p] = leaderboard[p] /\ (p \in fighters' <=> p \in fighters)
            BY <2>4, <3>1 DEF IInv, TypeOK
        <3>5. Referenced(p)' => Referenced(p)
            BY <3>1, <3>4 DEF Referenced
        <3> QED
            BY <3>1, <3>3, <3>4, <3>5 DEF Quiet
    <2> QED
        BY <2>3, <2>4
<1>6. ASSUME NEW o \in Player, Annihilate(o), o # p
      PROVE  Quiet(p)
    <2>1. /\ strand' = strand \o <<Notice("annihilated", o)>>
          /\ UNCHANGED <<idOf, links, players, leaderboard, fighters>>
          /\ isAlive' = [isAlive EXCEPT ![o] = FALSE]
        BY <1>6 DEF Annihilate, Post, roomVars, boardVars
    <2>2. PICK j \in Job : j = Notice("annihilated", o) /\ ~IsLife(j, p)
        BY NoticeOfPlayer
    <2>3. SameTale(strand, strand', p)
        <3>1. strand \in Seq(Job) /\ strand' = Append(strand, j)
            BY <2>1, <2>2, PostOne DEF IInv, TypeOK
        <3> QED
            BY <2>2, <3>1, SameTaleOfAppend
    <2>4. isAlive'[p] = isAlive[p]
        BY <1>6, <2>1 DEF IInv, TypeOK
    <2>5. Referenced(p)' => Referenced(p)
        BY <2>1 DEF Referenced
    <2> QED
        BY <2>1, <2>3, <2>4, <2>5 DEF Quiet
<1> QED
    BY <1>1, <1>2, <1>3, <1>4, <1>5, <1>6 DEF Next, Jobs, Timers

-----------------------------------------------------------------------------
\* The living are ranked.

\* What is handled when the room hears of p.
LEMMA ToldOf ==
    ASSUME IInv, NEW p \in Player, Told(p)
    PROVE  /\ strand \in Seq(Job) /\ strand # <<>> /\ IsLife(Head(strand), p)
           /\ strand' = Tail(strand)
           /\ UNCHANGED <<isAlive, idOf, links, players>>
           /\ leaderboard[p] \in Nat
           /\ \/ /\ Head(strand).op = "respawned" /\ Referenced(p)
                 /\ leaderboard'[p] = leaderboard[p] + 1 /\ p \in fighters'
              \/ /\ Head(strand).op = "respawned" /\ ~Referenced(p)
                 /\ leaderboard'[p] = leaderboard[p] /\ (p \in fighters' <=> p \in fighters)
              \/ /\ Head(strand).op = "died" /\ p \notin fighters'
                 /\ leaderboard'[p] = IF leaderboard[p] > 0 THEN leaderboard[p] - 1 ELSE 0
<1>1. PICK op \in {"respawned", "died"} : Handle(op)
    BY DEF Told, OnPlayerRespawn, OnPlayerDeath
<1>2. strand # <<>> /\ Head(strand).op = op
    BY <1>1, HandledJob DEF IInv
<1>3. strand' = Tail(strand) /\ UNCHANGED <<isAlive, idOf, links, players>>
    BY DEF Told, OnPlayerRespawn, OnPlayerDeath, roomVars, playerVars
<1>4. leaderboard \in [Player -> Nat] /\ strand \in Seq(Job)
    BY DEF IInv, TypeOK
<1>5. CASE OnPlayerRespawn
    <2>1. Head(strand).op = "respawned"
        BY <1>5 DEF OnPlayerRespawn, Handle
    <2>2. Head(strand).player = p
        BY DEF Told
    <2>3. IF Referenced(p)
          THEN /\ leaderboard' = [leaderboard EXCEPT ![p] = @ + 1]
               /\ fighters' = fighters \cup {p}
          ELSE UNCHANGED <<leaderboard, fighters>>
        BY <1>5, <2>2 DEF OnPlayerRespawn
    <2> QED
        BY <1>2, <1>3, <1>4, <2>1, <2>2, <2>3 DEF IsLife
<1>6. CASE OnPlayerDeath
    <2>1. Head(strand).op = "died"
        BY <1>6 DEF OnPlayerDeath, Handle
    <2>2. Head(strand).player = p
        BY DEF Told
    <2>3. /\ leaderboard' = [leaderboard EXCEPT ![p] = IF @ > 0 THEN @ - 1 ELSE 0]
          /\ fighters' = fighters \ {p}
        BY <1>6, <2>2 DEF OnPlayerDeath
    <2> QED
        BY <1>2, <1>3, <1>4, <2>1, <2>2, <2>3 DEF IsLife
<1> QED
    BY <1>5, <1>6 DEF Told

\* A notice is behind every death, and in front of every place on the board.
LEMMA StepRankInv ==
    ASSUME LinksAssumption, RoomAssumption, IInv, LifeInv, RankInv, [Next]_vars
    PROVE  RankInv'
<1> SUFFICES ASSUME NEW p \in Player
             PROVE  Ranked(p)'
    BY DEF RankInv
<1>1. Ranked(p)
    BY DEF RankInv
<1>2. CASE Quiet(p)
    <2>1. /\ NoticesIn(strand, p) = {} <=> NoticesIn(strand', p) = {}
          /\ Ends(strand, p, "died") <=> Ends(strand', p, "died")
        BY <1>2 DEF Quiet, SameTale
    <2> QED
        BY <1>1, <1>2, <2>1 DEF Quiet, Ranked
<1>3. CASE Wakes(p)
    <2>1. PICK q \in Seq(Job) : strand' = Append(q, Notice("respawned", p))
        BY <1>3 DEF Wakes, Turns
    <2>2. NoticesIn(strand', p) # {} /\ ~Ends(strand', p, "died")
        <3>1. PICK op \in {"respawned", "died"} : op = "respawned"
            OBVIOUS
        <3>2. EndsWith(strand', q, op, p)
            BY <2>1, <3>1 DEF EndsWith
        <3>3. NoticesIn(strand', p) # {} /\ \A o : Ends(strand', p, o) => o = op
            BY <3>2, TaleOfNotice
        <3> QED
            BY <3>1, <3>3
    <2> QED
        BY <1>3, <2>2 DEF Wakes, Turns, Ranked
<1>4. CASE Falls(p) \/ Annihilate(p)
    <2>1. ~isAlive'[p]
        BY <1>4 DEF Falls, Turns, Annihilate, IInv, TypeOK
    <2> QED
        BY <2>1 DEF Ranked
<1>5. CASE Told(p)
    <2>1. /\ strand \in Seq(Job) /\ strand # <<>> /\ IsLife(Head(strand), p)
          /\ strand' = Tail(strand)
          /\ UNCHANGED <<isAlive, idOf, links, players>>
          /\ leaderboard[p] \in Nat
          /\ \/ /\ Head(strand).op = "respawned" /\ Referenced(p)
                /\ leaderboard'[p] = leaderboard[p] + 1 /\ p \in fighters'
             \/ /\ Head(strand).op = "respawned" /\ ~Referenced(p)
                /\ leaderboard'[p] = leaderboard[p] /\ (p \in fighters' <=> p \in fighters)
             \/ Head(strand).op = "died"
        BY <1>5, ToldOf
    <2>2. /\ NoticesIn(strand', p) = {} => Ends(strand, p, Head(strand).op)
          /\ \A op : Ends(strand', p, op) => Ends(strand, p, op)
        BY <2>1, TaleOfTail
    <2>3. Ends(strand, p, "died") => ~isAlive[p]
        BY <1>1 DEF Ranked
    <2>4. isAlive'[p] /\ NoticesIn(strand', p) = {} /\ Referenced(p)'
              => leaderboard'[p] > 0 /\ p \in fighters'
        <3> SUFFICES ASSUME isAlive[p], NoticesIn(strand', p) = {}, Referenced(p)'
                     PROVE  leaderboard'[p] > 0 /\ p \in fighters'
            BY <2>1
        <3>1. Head(strand).op = "respawned"
            BY <2>1, <2>2, <2>3
        <3>2. CASE Referenced(p)
            BY <2>1, <3>1, <3>2
        <3>3. CASE ~Referenced(p)
            <4>1. leaderboard'[p] = leaderboard[p] /\ (p \in fighters' <=> p \in fighters)
                BY <2>1, <3>1, <3>3
            <4> QED
                BY <2>1, <3>3, <4>1 DEF Referenced
        <3> QED
            BY <3>2, <3>3
    <2> QED
        BY <1>1, <2>1, <2>2, <2>4 DEF Ranked
<1> QED
    BY <1>2, <1>3, <1>4, <1>5, StepOfPlayer

\* The last of some natural numbers up to n.
LEMMA LastOfSome ==
    ASSUME NEW n \in Nat, NEW N \in SUBSET (1..n), N # {}
    PROVE  Max(N) \in N /\ \A l \in N : l <= Max(N)
<1> DEFINE M == {n - k : k \in N}
<1>1. M \subseteq Nat /\ M # {}
    <2>1. \A k \in N : k \in 1..n /\ n - k \in Nat
        OBVIOUS
    <2> QED
        BY <2>1
<1>2. PICK x \in M : \A y \in M : ~(<<y, x>> \in OpToRel(<, Nat))
    <2> HIDE DEF M
    <2> QED
        BY <1>1, NatLessThanWellFounded, WFMin
<1>3. PICK k \in N : x = n - k
    OBVIOUS
<1>4. \A y \in M : ~(y < x)
    BY <1>1, <1>2 DEF OpToRel
<1>5. \A l \in N : l <= k
    <2> SUFFICES ASSUME NEW l \in N
                 PROVE  l <= k
        OBVIOUS
    <2>1. n - l \in M
        OBVIOUS
    <2>2. ~(n - l < n - k)
        BY <1>3, <1>4, <2>1
    <2> QED
        BY <2>2
<1>6. \E m \in N : \A l \in N : m >= l
    BY <1>5
<1>7. Max(N) \in N /\ \A l \in N : Max(N) >= l
    BY <1>6 DEF Max
<1> QED
    BY <1>7

\* LastNotice() is the notice the strand ends with.
LEMMA LastNoticeEnds ==
    ASSUME TypeOK, NEW p \in Player
    PROVE  /\ LastNotice(p) = "none" <=> NoticesIn(strand, p) = {}
           /\ NoticesIn(strand, p) # {} => Ends(strand, p, LastNotice(p))
<1>1. Notices(p) = NoticesIn(strand, p)
    BY DEF Notices, NoticesIn, IsLife
<1>2. CASE Notices(p) = {}
    BY <1>1, <1>2 DEF LastNotice
<1>3. CASE Notices(p) # {}
    <2>1. Len(strand) \in Nat /\ Notices(p) \in SUBSET (1..Len(strand))
        BY LenProperties DEF TypeOK, Notices
    <2>2. PICK m : m = Max(Notices(p))
        OBVIOUS
    <2>3. m \in Notices(p) /\ \A l \in Notices(p) : l <= m
        BY <1>3, <2>1, <2>2, LastOfSome
    <2>4. LastNotice(p) = strand[m].op
        BY <1>3, <2>2 DEF LastNotice
    <2>5. strand[m].op \in {"respawned", "died"}
        BY <2>3 DEF Notices
    <2>6. Ends(strand, p, strand[m].op)
        BY <1>1, <2>3 DEF Ends
    <2> QED
        BY <1>1, <1>3, <2>4, <2>5, <2>6
<1> QED
    BY <1>2, <1>3

\* From the start.
LEMMA AlwaysRankInv ==
    Spec => [](IInv /\ LifeInv /\ FreeInv /\ RankInv)
<1>1. Init => RankInv
    <2> SUFFICES ASSUME Init, NEW p \in Player
                 PROVE  Ranked(p)
        BY DEF RankInv
    <2>1. NoticesIn(strand, p) = {} /\ ~isAlive[p]
        BY DEF Init, NoticesIn
    <2> QED
        BY <2>1 DEF Ranked
<1>2. IInv /\ LifeInv /\ FreeInv /\ RankInv /\ [Next]_vars
          => IInv' /\ LifeInv' /\ FreeInv' /\ RankInv'
    BY StepIInv, StepLifeInv, StepFreeInv, StepRankInv, LinksAssumption, RoomAssumption
<1>3. Init => IInv
    BY InitIInv, LinksAssumption, RoomAssumption
<1>4. Init => LifeInv /\ FreeInv
    BY InitLifeInv
<1> QED
    BY <1>1, <1>2, <1>3, <1>4, PTL DEF Spec

\* A player that is alive, that the room was told about all of its lives, and
\* that still exists, is among the fighters and on the leaderboard; even when it
\* is annihilated and respawns while notices are on their way.
THEOREM RoomAliveIsRanked == Spec => []AliveIsRanked
<1>1. IInv /\ RankInv => AliveIsRanked
    <2> SUFFICES ASSUME IInv, RankInv, NEW p \in Player, isAlive[p], LastNotice(p) = "none",
                        Referenced(p)
                 PROVE  leaderboard[p] > 0 /\ p \in fighters
        BY DEF AliveIsRanked
    <2>1. NoticesIn(strand, p) = {}
        BY LastNoticeEnds DEF IInv
    <2> QED
        BY <2>1 DEF RankInv, Ranked
<1> QED
    BY <1>1, AlwaysRankInv, PTL
-----------------------------------------------------------------------------
\* Without annihilation a player stays registered under its user.

\* What is in a queue was in it, or came to the back.
LEMMA MembersOfQueue ==
    ASSUME NEW S, NEW q \in Seq(S)
    PROVE  /\ \A j \in S : \A k \in DOMAIN Append(q, j) :
                 Append(q, j)[k] = j \/ \E i \in DOMAIN q : Append(q, j)[k] = q[i]
           /\ q # <<>> => /\ \A k \in DOMAIN Tail(q) : \E i \in DOMAIN q : Tail(q)[k] = q[i]
                          /\ \E i \in DOMAIN q : Head(q) = q[i]
<1>1. Len(q) \in Nat /\ DOMAIN q = 1..Len(q)
    BY LenProperties
<1>2. ASSUME NEW j \in S, NEW r, r = Append(q, j), NEW k \in DOMAIN r
      PROVE  r[k] = j \/ \E i \in DOMAIN q : r[k] = q[i]
    <2>1. /\ r \in Seq(S) /\ Len(r) = Len(q) + 1
          /\ r[Len(q) + 1] = j /\ \A i \in 1..Len(q) : r[i] = q[i]
        BY <1>2, AppendProperties
    <2>2. k \in 1..Len(r)
        BY <1>2, <2>1, LenProperties
    <2> QED
        BY <1>1, <2>1, <2>2
<1>3. ASSUME q # <<>>, NEW r, r = Tail(q), NEW k \in DOMAIN r
      PROVE  \E i \in DOMAIN q : r[k] = q[i]
    <2>1. r \in Seq(S) /\ Len(r) = Len(q) - 1 /\ \A i \in 1..Len(r) : r[i] = q[i + 1]
        BY <1>3, HeadTailProperties
    <2>2. k \in 1..Len(r)
        BY <1>3, <2>1, LenProperties
    <2> QED
        BY <1>1, <2>1, <2>2
<1>4. ASSUME q # <<>>
      PROVE  \E i \in DOMAIN q : Head(q) = q[i]
    <2>1. Head(q) = q[1] /\ 1 \in DOMAIN q
        BY <1>1, <1>4, HeadTailProperties, EmptySeq
    <2> QED
        BY <2>1
<1> QED
    BY <1>2, <1>3, <1>4

\* Nobody asks the room to forget a player, and no avatar is forgotten before
\* its death is handled.
NoAnnihilated == \A k \in DOMAIN strand : strand[k].op # "annihilated"
AllListed == \A k \in DOMAIN deaths : deaths[k].listed

\* One more job, or one less.
LEMMA KeepsNoAnnihilated ==
    ASSUME NoAnnihilated, strand \in Seq(Job), NEW q \in Seq(Job),
           q = strand \/ (strand # <<>> /\ q = Tail(strand)),
           \/ strand' = q
           \/ \E j \in Job : j.op # "annihilated" /\ strand' = Append(q, j)
    PROVE  NoAnnihilated'
<1>1. \A k \in DOMAIN q : q[k].op # "annihilated"
    <2>1. CASE q = strand
        BY <2>1 DEF NoAnnihilated
    <2>2. CASE strand # <<>> /\ q = Tail(strand)
        <3>1. \A k \in DOMAIN q : \E i \in DOMAIN strand : q[k] = strand[i]
            BY <2>2, MembersOfQueue
        <3> QED
            BY <3>1 DEF NoAnnihilated
    <2> QED
        BY <2>1, <2>2
<1>2. CASE strand' = q
    BY <1>1, <1>2 DEF NoAnnihilated
<1>3. ASSUME NEW j \in Job, j.op # "annihilated", NEW r, r = Append(q, j), strand' = r
      PROVE  NoAnnihilated'
    <2>1. \A k \in DOMAIN r : r[k] = j \/ \E i \in DOMAIN q : r[k] = q[i]
        BY <1>3, MembersOfQueue
    <2> QED
        BY <1>1, <1>3, <2>1 DEF NoAnnihilated
<1> QED
    BY <1>2, <1>3

\* Every step keeps it that way.
LEMMA StepNoAnnihilated ==
    ASSUME LinksAssumption, RoomAssumption, Annihilation = FALSE, IInv, NoAnnihilated, [Next]_vars
    PROVE  NoAnnihilated'
<1>1. strand \in Seq(Job)
    BY DEF IInv, TypeOK
<1>2. CASE strand' = strand
    BY <1>2 DEF NoAnnihilated
<1>3. CASE Connections
    <2>1. \/ strand' = strand
          \/ \E j \in Job : j.op # "annihilated" /\ strand' = Append(strand, j)
        BY <1>3, ConnectionsPost
    <2> QED
        BY <1>1, <2>1, KeepsNoAnnihilated
<1>4. CASE Jobs
    <2>1. PICK op : Handle(op)
        BY <1>4 DEF Jobs, DoJoin, DoLeave, DoPlay, DoSpectate, DoSplit, OnPlayerRespawn,
                    OnPlayerDeath, OnPlayerAnnihilates
    <2>2. strand # <<>> /\ Tail(strand) \in Seq(Job)
        BY <2>1, HandledJob DEF IInv
    <2>3. CASE strand' = Tail(strand)
        BY <1>1, <2>2, <2>3, KeepsNoAnnihilated
    <2>4. ASSUME NEW o \in Player, strand' = Append(Tail(strand), Notice("respawned", o))
          PROVE  NoAnnihilated'
        <3>1. PICK j \in Job : j = Notice("respawned", o) /\ j.op = "respawned"
            BY NoticeOfPlayer
        <3> QED
            BY <1>1, <2>2, <2>4, <3>1, KeepsNoAnnihilated
    <2>5. ASSUME DoPlay
          PROVE  \/ strand' = Tail(strand)
                 \/ \E o \in Player : strand' = Append(Tail(strand), Notice("respawned", o))
        <3>1. PICK s : s = Head(strand).sess
            OBVIOUS
        <3>2. KnownPlayer(s) # NoPlayer => KnownPlayer(s) \in Player
            BY <2>5, <3>1, PlayedIsKnown
        <3> QED
            BY <2>5, <3>1, <3>2 DEF DoPlay, PlayAs, Uncreated
    <2>6. strand' = Tail(strand) \/ DoPlay
        BY <1>4 DEF Jobs, DoJoin, DoLeave, DoSpectate, DoSplit, OnPlayerRespawn,
                    OnPlayerDeath, OnPlayerAnnihilates
    <2> QED
        BY <2>3, <2>4, <2>5, <2>6
<1>5. CASE Timers \/ Interactions \/ EndInteractions \/ UNCHANGED vars
    BY <1>2, <1>5 DEF Timers, BeginUpdate, Synchronize, UpdateLeaderboard, Annihilate,
                      Interactions, Eat, EatenByMother, Explode, EndInteractions, vars
<1>6. CASE RemoveAvatar
    <2>1. CASE Die(Head(deaths).owner)
        <3>1. Head(deaths).owner \in Player
            <4>1. deaths \in Seq(Killed) /\ deaths # <<>>
                BY <1>6 DEF IInv, DeathsInv, TypeOK, RemoveAvatar
            <4>2. Head(deaths) \in Killed
                BY <4>1, HeadTailProperties
            <4> QED
                BY <4>2 DEF Killed
        <3>2. PICK j \in Job : j = Notice("died", Head(deaths).owner) /\ j.op = "died"
            BY <3>1, NoticeOfPlayer
        <3>3. strand' = Append(strand, j)
            BY <2>1, <3>2, PostOne DEF Die, Post, IInv
        <3> QED
            BY <1>1, <3>2, <3>3, KeepsNoAnnihilated
    <2> QED
        BY <1>2, <1>6, <2>1 DEF RemoveAvatar
<1> QED
    BY <1>3, <1>4, <1>5, <1>6 DEF Next

\* Every killed avatar is still held by its player.
LEMMA StepAllListed ==
    ASSUME Annihilation = FALSE, IInv, AllListed, [Next]_vars
    PROVE  AllListed'
<1>1. deaths \in Seq(Killed)
    BY DEF IInv, TypeOK
<1>2. CASE deaths' = deaths
    BY <1>2 DEF AllListed
<1>3. ASSUME NEW q \in Player, NEW k, k = [owner |-> q, listed |-> TRUE],
             NEW r, r = Append(deaths, k), deaths' = r
      PROVE  AllListed'
    <2>1. k \in Killed /\ k.listed
        BY <1>3 DEF Killed
    <2>2. \A i \in DOMAIN r : r[i] = k \/ \E l \in DOMAIN deaths : r[i] = deaths[l]
        BY <1>1, <1>3, <2>1, MembersOfQueue
    <2> QED
        BY <1>3, <2>1, <2>2 DEF AllListed
<1>4. CASE RemoveAvatar
    <2>1. PICK r : r = Tail(deaths) /\ deaths' = r
        BY <1>4 DEF RemoveAvatar
    <2>2. \A i \in DOMAIN r : \E l \in DOMAIN deaths : r[i] = deaths[l]
        <3>1. deaths # <<>>
            BY <1>4 DEF RemoveAvatar, IInv, DeathsInv
        <3> QED
            BY <1>1, <2>1, <3>1, MembersOfQueue
    <2> QED
        BY <2>1, <2>2 DEF AllListed
<1>5. CASE Connections \/ Jobs \/ Timers \/ EndInteractions \/ UNCHANGED vars
    BY <1>2, <1>5
       DEF Connections, Greet, EnterRoom, Command, Disconnect, Jobs, DoJoin, DoLeave, DoPlay,
           DoSpectate, DoSplit, OnPlayerRespawn, OnPlayerDeath, OnPlayerAnnihilates, Timers,
           BeginUpdate, Synchronize, UpdateLeaderboard, Annihilate, EndInteractions, vars, cellVars
<1>6. CASE Interactions
    <2>1. \/ deaths' = deaths
          \/ \E q \in Player : deaths' = Append(deaths, [owner |-> q, listed |-> TRUE])
        BY <1>6 DEF Interactions, Eat, EatenByMother, Explode
    <2> QED
        BY <1>2, <1>3, <2>1
<1> QED
    BY <1>4, <1>5, <1>6 DEF Next

\* A player object that was created is the one registered under its user.
Registered == \A p \in Player : idOf[p] # NoId => players[idOf[p]] = p

\* Two objects for one user would need the first one to be forgotten.
LEMMA StepRegistered ==
    ASSUME LinksAssumption, RoomAssumption, IInv, NoAnnihilated, Registered, [Next]_vars
    PROVE  Registered'
<1>1. /\ players \in [Id -> PlayerPtr] /\ idOf \in [Player -> IdPtr] /\ strand \in Seq(Job)
      /\ NoPlayer \notin Player
    BY DEF IInv, TypeOK, LinksAssumption
<1>2. CASE UNCHANGED <<players, idOf>>
    BY <1>2 DEF Registered
<1>3. ~OnPlayerAnnihilates
    <2>1. strand # <<>> => \E i \in DOMAIN strand : Head(strand) = strand[i]
        BY <1>1, MembersOfQueue
    <2> QED
        BY <2>1 DEF OnPlayerAnnihilates, Handle, NoAnnihilated
<1>4. CASE DoPlay
    <2>1. PICK s : s = Head(strand).sess
        OBVIOUS
    <2>2. playerId[s] \in Id /\ (KnownPlayer(s) = NoPlayer => players[playerId[s]] = NoPlayer)
        BY <1>4, <2>1, PlayedIsKnown
    <2>3. ASSUME NEW o \in Player, KnownPlayer(s) = NoPlayer,
                 players' = [players EXCEPT ![playerId[s]] = o],
                 idOf' = [idOf EXCEPT ![o] = playerId[s]],
                 NEW p \in Player, idOf'[p] # NoId
          PROVE  players'[idOf'[p]] = p
        <3>1. CASE p = o
            BY <1>1, <2>2, <2>3, <3>1
        <3>2. CASE p # o
            <4>1. idOf'[p] = idOf[p] /\ players[idOf[p]] = p /\ idOf[p] \in Id
                BY <1>1, <2>3, <3>2 DEF Registered, IdPtr
            <4>2. idOf[p] # playerId[s]
                BY <1>1, <2>2, <2>3, <4>1
            <4> QED
                BY <1>1, <2>3, <4>1, <4>2
        <3> QED
            BY <3>1, <3>2
    <2> QED
        BY <1>2, <1>4, <2>1, <2>3 DEF DoPlay, Uncreated, Registered
<1>5. CASE Connections \/ Timers \/ Interactions \/ EndInteractions \/ RemoveAvatar \/ UNCHANGED vars
    BY <1>2, <1>5
       DEF Connections, Greet, EnterRoom, Command, Disconnect, Timers, BeginUpdate, Synchronize,
           UpdateLeaderboard, Annihilate, Interactions, Eat, EatenByMother, Explode,
           EndInteractions, RemoveAvatar, vars, roomVars, playerVars
<1>6. CASE Jobs
    BY <1>2, <1>3, <1>4, <1>6
       DEF Jobs, DoJoin, DoLeave, DoSpectate, DoSplit, OnPlayerRespawn, OnPlayerDeath,
           roomVars, playerVars
<1> QED
    BY <1>5, <1>6 DEF Next

-----------------------------------------------------------------------------
\* Fighters and leaderboard follow the life of a player.

\* The notices on their way lead from what the room knows to what is so.
LEMMA StepBoardInv ==
    ASSUME LinksAssumption, RoomAssumption, Annihilation = FALSE, IInv, LifeInv, RankInv,
           AllListed, Registered, BoardInv, [Next]_vars
    PROVE  BoardInv'
<1> SUFFICES ASSUME NEW p \in Player
             PROVE  Follows(p)'
    BY DEF BoardInv
<1>1. Follows(p) /\ Ranked(p) /\ isAlive[p] \in BOOLEAN /\ leaderboard[p] \in Nat
    BY DEF BoardInv, RankInv, IInv, TypeOK
<1>2. CASE Quiet(p)
    <2>1. NoticesIn(strand, p) = {} <=> NoticesIn(strand', p) = {}
        BY <1>2 DEF Quiet, SameTale
    <2>2. Leads(strand', p, leaderboard'[p] = 1, isAlive'[p])
        <3>1. Leads(strand', p, leaderboard[p] = 1, isAlive[p])
            <4>1. Leads(strand, p, leaderboard[p] = 1, isAlive[p])
                BY <1>1 DEF Follows
            <4>2. (leaderboard[p] = 1) \in BOOLEAN
                OBVIOUS
            <4>3. \A a, b \in BOOLEAN : Leads(strand, p, a, b) => Leads(strand', p, a, b)
                BY <1>2 DEF Quiet, SameTale
            <4> QED
                BY <1>1, <4>1, <4>2, <4>3, Zenon
        <3>2. leaderboard'[p] = leaderboard[p] /\ isAlive'[p] = isAlive[p]
            BY <1>2 DEF Quiet
        <3> QED
            BY <3>1, <3>2, Zenon
    <2> QED
        BY <1>1, <1>2, <2>1, <2>2 DEF Quiet, Follows
<1>3. ASSUME NEW op \in {"respawned", "died"}, Turns(p, op), op = "respawned" <=> ~isAlive[p],
             idOf'[p] # NoId
      PROVE  Follows(p)'
    <2>1. PICK q \in Seq(Job) : SameTale(strand, q, p) /\ strand' = Append(q, Notice(op, p))
        BY <1>3 DEF Turns
    <2> DEFINE a == leaderboard[p] = 1
               b == isAlive[p]
    <2>2. a \in BOOLEAN /\ b \in BOOLEAN
        BY <1>1
    <2>3. Leads(strand, p, a, b)
        BY <1>1 DEF Follows
    <2>4. /\ leaderboard'[p] = leaderboard[p] /\ fighters' = fighters
          /\ isAlive'[p] = ~b
        BY <1>1, <1>3 DEF Turns
    <2> HIDE DEF a, b
    <2>5. Leads(q, p, a, b)
        BY <2>1, <2>2, <2>3 DEF SameTale
    <2>6. NoticesIn(strand', p) # {} /\ Leads(strand', p, a, ~b)
        <3>1. EndsWith(strand', q, op, p)
            BY <2>1 DEF EndsWith
        <3>2. NoticesIn(strand', p) # {}
            BY <3>1, TaleOfNotice
        <3>3. PICK x \in BOOLEAN, y \in BOOLEAN, c \in BOOLEAN :
                  x = a /\ y = b /\ c = ~y /\ (c <=> op = "respawned")
            BY <1>3, <2>2 DEF b
        <3>4. Leads(q, p, x, y)
            BY <2>5, <3>3
        <3>5. Leads(strand', p, x, c)
            <4>1. TurnsTale(q, strand', p, op)
                BY <3>1, TurnOfNotice
            <4> QED
                BY <3>3, <3>4, <4>1 DEF TurnsTale
        <3> QED
            BY <3>2, <3>3, <3>5
    <2>7. Leads(strand', p, leaderboard'[p] = 1, isAlive'[p])
        <3>1. Leads(strand', p, leaderboard[p] = 1, isAlive'[p])
            BY <2>4, <2>6, Zenon DEF a
        <3> QED
            BY <2>4, <3>1, Zenon
    <2> QED
        BY <1>1, <1>3, <2>4, <2>6, <2>7 DEF Follows
<1>4. CASE Wakes(p)
    BY <1>3, <1>4 DEF Wakes
<1>5. CASE Falls(p)
    <2>1. isAlive[p]
        <3>1. deaths \in Seq(Killed) /\ deaths # <<>>
            BY <1>5 DEF Falls, IInv, TypeOK
        <3>2. \E i \in DOMAIN deaths : Head(deaths) = deaths[i]
            BY <3>1, MembersOfQueue
        <3> QED
            BY <1>5, <3>2 DEF Falls, AllListed
    <2>2. idOf'[p] # NoId
        BY <1>1, <1>5, <2>1 DEF Falls, Ranked
    <2> QED
        BY <1>3, <1>5, <2>1, <2>2 DEF Falls
<1>6. CASE Told(p)
    <2>1. /\ strand \in Seq(Job) /\ strand # <<>> /\ IsLife(Head(strand), p)
          /\ strand' = Tail(strand)
          /\ UNCHANGED <<isAlive, idOf, links, players>>
          /\ \/ /\ Head(strand).op = "respawned" /\ Referenced(p)
                /\ leaderboard'[p] = leaderboard[p] + 1 /\ p \in fighters'
             \/ /\ Head(strand).op = "respawned" /\ ~Referenced(p)
                /\ leaderboard'[p] = leaderboard[p] /\ (p \in fighters' <=> p \in fighters)
             \/ /\ Head(strand).op = "died" /\ p \notin fighters'
                /\ leaderboard'[p] = IF leaderboard[p] > 0 THEN leaderboard[p] - 1 ELSE 0
        BY <1>6, ToldOf
    <2> DEFINE a == leaderboard[p] = 1
               b == isAlive[p]
    <2>2. a \in BOOLEAN /\ b \in BOOLEAN
        BY <1>1
    <2>3. Leads(strand, p, a, b)
        BY <1>1 DEF Follows
    <2> HIDE DEF a, b
    <2>4. /\ NoticesIn(strand, p) # {}
          /\ NoticesIn(strand', p) = {} => Ends(strand, p, Head(strand).op)
          /\ (Head(strand).op = "respawned" <=> ~a) /\ Leads(strand', p, ~a, b)
        BY <2>1, <2>2, <2>3, TaleOfTail
    <2>5. Referenced(p)
        <3>1. idOf[p] # NoId /\ players[idOf[p]] = p /\ idOf[p] \in Id
            BY <1>1, <2>4 DEF Follows, Registered, IInv, TypeOK, IdPtr
        <3> QED
            BY <3>1 DEF Referenced
    <2>6. CASE Head(strand).op = "respawned"
        <3>1. leaderboard'[p] = 1 /\ p \in fighters' /\ ~a
            <4>1. leaderboard[p] = 0
                BY <1>1, <2>4, <2>6 DEF a, Follows
            <4> QED
                BY <2>1, <2>4, <2>5, <2>6, <4>1
        <3>2. Leads(strand', p, leaderboard'[p] = 1, isAlive'[p])
            <4>1. (leaderboard'[p] = 1) = ~a /\ isAlive'[p] = b
                BY <2>1, <3>1 DEF b
            <4> QED
                BY <2>4, <4>1, Zenon
        <3> QED
            BY <1>1, <2>1, <2>4, <3>1, <3>2 DEF Follows
    <2>7. CASE Head(strand).op = "died"
        <3>1. leaderboard'[p] = 0 /\ p \notin fighters' /\ a
            <4>1. leaderboard[p] = 1
                BY <2>4, <2>7 DEF a
            <4> QED
                BY <2>1, <2>4, <2>7, <4>1
        <3>2. Leads(strand', p, leaderboard'[p] = 1, isAlive'[p])
            <4>1. (leaderboard'[p] = 1) = ~a /\ isAlive'[p] = b
                BY <2>1, <2>2, <3>1 DEF b
            <4> QED
                BY <2>4, <4>1, Zenon
        <3>3. NoticesIn(strand', p) = {} => ~isAlive[p]
            BY <1>1, <2>4, <2>7 DEF Ranked
        <3> QED
            BY <1>1, <2>1, <2>4, <3>1, <3>2, <3>3 DEF Follows
    <2> QED
        BY <2>1, <2>6, <2>7
<1>7. ~Annihilate(p)
    BY DEF Annihilate
<1> QED
    BY <1>2, <1>4, <1>5, <1>6, <1>7, StepOfPlayer

\* Without annihilation, from the start.
LEMMA AlwaysBoardInv ==
    ASSUME Annihilation = FALSE
    PROVE  Spec => [](IInv /\ RankInv /\ Registered /\ BoardInv)
<1> DEFINE L == IInv /\ LifeInv /\ FreeInv /\ RankInv
           B == NoAnnihilated /\ AllListed /\ Registered /\ BoardInv
<1>1. Init => B
    <2> SUFFICES ASSUME Init
                 PROVE  B
        OBVIOUS
    <2>1. NoAnnihilated /\ AllListed
        BY DEF Init, NoAnnihilated, AllListed
    <2>2. Registered
        BY DEF Init, Registered
    <2>3. ASSUME NEW p \in Player
          PROVE  Follows(p)
        <3>1. /\ NoticesIn(strand, p) = {} /\ ~isAlive[p] /\ leaderboard[p] = 0
              /\ p \notin fighters
            BY DEF Init, NoticesIn
        <3>2. Leads(strand, p, leaderboard[p] = 1, isAlive[p])
            BY <3>1 DEF Leads
        <3> QED
            BY <3>1, <3>2 DEF Follows
    <2> QED
        BY <2>1, <2>2, <2>3 DEF BoardInv
<1>2. L /\ B /\ [Next]_vars => B'
    BY StepNoAnnihilated, StepAllListed, StepRegistered, StepBoardInv,
       LinksAssumption, RoomAssumption
<1>3. L => IInv /\ RankInv
    OBVIOUS
<1>4. B => Registered /\ BoardInv
    OBVIOUS
<1>5. Spec => []L
    BY AlwaysRankInv
<1> HIDE DEF L, B
<1> QED
    BY <1>1, <1>2, <1>3, <1>4, <1>5, PTL DEF Spec

\* Where nobody is annihilated, a user has one living player at most, however
\* often its account changes hands.
THEOREM RoomOnePlayerPerUser ==
    ASSUME Annihilation = FALSE
    PROVE  Spec => []OnePlayerPerUser
<1>1. RankInv /\ Registered => OnePlayerPerUser
    BY DEF RankInv, Ranked, Registered, OnePlayerPerUser
<1> QED
    BY <1>1, AlwaysBoardInv, PTL

\* Where nobody is annihilated, fighters and leaderboard follow the life of every
\* player, each once, whatever is on its way in the strand.
THEOREM RoomBoardFollowsLife ==
    ASSUME Annihilation = FALSE
    PROVE  Spec => []BoardFollowsLife
<1>1. IInv /\ BoardInv => BoardFollowsLife
    <2> SUFFICES ASSUME IInv, BoardInv, NEW p \in Player
                 PROVE  /\ leaderboard[p] <= 1
                        /\ LastNotice(p) = "none" => /\ isAlive[p] <=> leaderboard[p] = 1
                                                     /\ isAlive[p] <=> p \in fighters
                        /\ LastNotice(p) = "respawned" => isAlive[p]
                        /\ LastNotice(p) = "died" => ~isAlive[p]
        BY DEF BoardFollowsLife
    <2>1. Follows(p)
        BY DEF BoardInv
    <2>2. /\ LastNotice(p) = "none" <=> NoticesIn(strand, p) = {}
          /\ NoticesIn(strand, p) # {} => Ends(strand, p, LastNotice(p))
        BY LastNoticeEnds DEF IInv
    <2>3. ASSUME NEW op, Ends(strand, p, op)
          PROVE  op = "respawned" <=> isAlive[p]
        BY <2>1, <2>3 DEF Follows, Leads, Ends
    <2>4. CASE LastNotice(p) = "none"
        BY <2>1, <2>2, <2>4 DEF Follows, Leads
    <2>5. CASE LastNotice(p) # "none"
        <3>1. LastNotice(p) = "respawned" <=> isAlive[p]
            BY <2>2, <2>3, <2>5
        <3> QED
            BY <2>1, <2>5, <3>1 DEF Follows
    <2> QED
        BY <2>4, <2>5
<1> QED
    BY <1>1, AlwaysBoardInv, PTL
-----------------------------------------------------------------------------
\* Sessions that leave, where no connection takes an account over.

\* The sessions a queue asks to forget, and what is said of one of them: nothing
\* behind its leave, and nothing before its join unless it is in the room (K).
Leaves(q) == {s \in Session : \E k \in 1..Len(q) : q[k].op = "leave" /\ q[k].sess = s}
Orderly(q, s, K) ==
    /\ \A k \in 1..Len(q) : q[k].op = "leave" /\ q[k].sess = s =>
          \A l \in 1..Len(q) : About(q[l], s) => l <= k
    /\ \A k \in 1..Len(q) : About(q[k], s) =>
          s \in K \/ \E j \in 1..k : q[j].op = "join" /\ q[j].sess = s

\* A session is open as long as it has a room, which it leaves once, at the end,
\* and the room has to do only with sessions that are in it.
Regular(s) ==
    /\ conn[s] # "taking"
    /\ room[s] <=> conn[s] = "open"
    /\ conn[s] = "open" => s \in inRoom \cup Joins(strand)
    /\ s \in Leaves(strand) => conn[s] = "gone"
    /\ conn[s] = "gone" /\ s \in inRoom \cup Joins(strand) => s \in Leaves(strand)
    /\ Orderly(strand, s, inRoom)
    /\ s \notin inRoom => Unlinked(links, s) /\ s \notin splits
HolderInv ==
    \A i \in Id : holder[i] # NoSession =>
        /\ conn[holder[i]] \in {"open", "gone"}
        /\ room[holder[i]] => user[holder[i]] = i

\* One more job.
LEMMA OrderlyAppend ==
    ASSUME NEW q \in Seq(Job), NEW s \in Session, NEW K, Orderly(q, s, K),
           NEW j \in Job, About(j, s) => /\ s \notin Leaves(q)
                                         /\ j.op = "join" \/ s \in K \cup Joins(q),
           NEW r, r = Append(q, j)
    PROVE  /\ Orderly(r, s, K)
           /\ s \in Leaves(r) <=> s \in Leaves(q) \/ (j.op = "leave" /\ j.sess = s)
           /\ s \in Joins(r) <=> s \in Joins(q) \/ (j.op = "join" /\ j.sess = s)
<1>1. /\ Len(q) \in Nat /\ Len(r) = Len(q) + 1 /\ r[Len(q) + 1] = j
      /\ \A k \in 1..Len(q) : r[k] = q[k]
    BY AppendProperties, LenProperties
<1>2. PICK n \in Nat : n = Len(q)
    BY <1>1
<1>3. /\ \A k \in 1..(n + 1) : k \in 1..n \/ k = n + 1
      /\ \A k \in 1..n : k \in 1..(n + 1) /\ k <= n + 1 /\ ~(n + 1 <= k)
      /\ n + 1 \in 1..(n + 1) /\ n + 1 <= n + 1
      /\ \A k \in 1..n : \A l \in 1..k : l \in 1..n
      /\ \A k \in 1..n : k \in 1..k
      /\ n + 1 \notin 1..n
    OBVIOUS
<1>4. s \in Leaves(r) <=> s \in Leaves(q) \/ (j.op = "leave" /\ j.sess = s)
    BY <1>1, <1>2, <1>3 DEF Leaves
<1>5. s \in Joins(r) <=> s \in Joins(q) \/ (j.op = "join" /\ j.sess = s)
    BY <1>1, <1>2, <1>3 DEF Joins
<1>6. ASSUME NEW k \in 1..(n + 1), r[k].op = "leave", r[k].sess = s,
             NEW l \in 1..(n + 1), About(r[l], s)
      PROVE  l <= k
    <2>1. CASE k = n + 1
        BY <1>3, <2>1
    <2>2. CASE k \in 1..n /\ l \in 1..n
        BY <1>1, <1>2, <1>6, <2>2 DEF Orderly
    <2>3. CASE k \in 1..n /\ l = n + 1
        <3>1. s \in Leaves(q)
            BY <1>1, <1>2, <1>6, <2>3 DEF Leaves
        <3>2. About(j, s)
            BY <1>1, <1>2, <1>6, <2>3
        <3> QED
            BY <3>1, <3>2
    <2> QED
        BY <1>3, <2>1, <2>2, <2>3
<1>7. ASSUME NEW k \in 1..(n + 1), About(r[k], s), s \notin K
      PROVE  \E i \in 1..k : r[i].op = "join" /\ r[i].sess = s
    <2>1. CASE k \in 1..n
        <3>1. PICK i \in 1..k : q[i].op = "join" /\ q[i].sess = s
            BY <1>1, <1>2, <1>7, <2>1 DEF Orderly
        <3>2. i \in 1..n
            BY <1>3, <2>1
        <3> QED
            BY <1>1, <1>2, <3>1, <3>2
    <2>2. CASE k = n + 1 /\ j.op = "join"
        BY <1>1, <1>2, <1>3, <1>7, <2>2 DEF About
    <2>3. CASE k = n + 1 /\ j.op # "join"
        <3>1. About(j, s)
            BY <1>1, <1>2, <1>7, <2>3
        <3>2. s \in Joins(q)
            BY <1>7, <2>3, <3>1
        <3>3. PICK i \in 1..n : q[i].op = "join" /\ q[i].sess = s
            BY <1>2, <3>2 DEF Joins
        <3> QED
            BY <1>1, <1>2, <1>3, <2>3, <3>3
    <2> QED
        BY <1>3, <2>1, <2>2, <2>3
<1>8. Orderly(r, s, K)
    BY <1>1, <1>2, <1>6, <1>7 DEF Orderly
<1> QED
    BY <1>4, <1>5, <1>8

\* One less.
LEMMA OrderlyTail ==
    ASSUME NEW q \in Seq(Job), q # <<>>, NEW s \in Session, NEW K, Orderly(q, s, K),
           NEW M,
           Head(q).op = "join" /\ Head(q).sess = s => s \in M,
           s \in K /\ ~(Head(q).op = "leave" /\ Head(q).sess = s) => s \in M,
           NEW r, r = Tail(q)
    PROVE  /\ Orderly(r, s, M)
           /\ s \in Leaves(q) <=> s \in Leaves(r) \/ (Head(q).op = "leave" /\ Head(q).sess = s)
           /\ s \in Joins(q) <=> s \in Joins(r) \/ (Head(q).op = "join" /\ Head(q).sess = s)
           /\ Head(q).op = "leave" /\ Head(q).sess = s => s \notin Leaves(r) \cup Joins(r)
           /\ About(Head(q), s) => s \in K \/ Head(q).op = "join"
<1>1. /\ r \in Seq(Job) /\ Len(r) = Len(q) - 1 /\ Len(q) \in Nat \ {0}
      /\ Head(q) = q[1] /\ \A k \in 1..Len(r) : r[k] = q[k + 1]
    BY HeadTailProperties, EmptySeq, LenProperties
<1>2. PICK n \in Nat : n = Len(r) /\ Len(q) = n + 1
    <2>1. Len(q) - 1 \in Nat /\ Len(q) = (Len(q) - 1) + 1
        BY <1>1
    <2> QED
        BY <1>1, <2>1
<1>3. /\ \A k \in 1..(n + 1) : k = 1 \/ \E l \in 1..n : k = l + 1
      /\ \A k \in 1..n : k + 1 \in 1..(n + 1) /\ ~(k + 1 <= 1)
      /\ 1 \in 1..(n + 1)
      /\ \A k, l \in 1..n : k + 1 <= l + 1 => k <= l
      /\ \A k \in 1..n : \A i \in 1..(k + 1) : i = 1 \/ \E m \in 1..k : i = m + 1
      /\ \A k \in 1..n : \A m \in 1..k : m \in 1..n
      /\ \A i \in 1..1 : i = 1
    <2>1. \A k \in 1..(n + 1) : k = 1 \/ (k - 1 \in 1..n /\ k = (k - 1) + 1)
        OBVIOUS
    <2>2. \A k \in 1..n : \A i \in 1..(k + 1) : i = 1 \/ (i - 1 \in 1..k /\ i = (i - 1) + 1)
        OBVIOUS
    <2>3. /\ \A k \in 1..(n + 1) : k = 1 \/ \E l \in 1..n : k = l + 1
          /\ \A k \in 1..n : \A i \in 1..(k + 1) : i = 1 \/ \E m \in 1..k : i = m + 1
        BY <2>1, <2>2, Zenon
    <2>4. /\ \A k \in 1..n : k + 1 \in 1..(n + 1) /\ ~(k + 1 <= 1)
          /\ 1 \in 1..(n + 1)
          /\ \A k, l \in 1..n : k + 1 <= l + 1 => k <= l
          /\ \A k \in 1..n : \A m \in 1..k : m \in 1..n
          /\ \A i \in 1..1 : i = 1
        OBVIOUS
    <2> QED
        BY <2>3, <2>4
<1>4. s \in Leaves(q) <=> s \in Leaves(r) \/ (Head(q).op = "leave" /\ Head(q).sess = s)
    BY <1>1, <1>2, <1>3 DEF Leaves
<1>5. s \in Joins(q) <=> s \in Joins(r) \/ (Head(q).op = "join" /\ Head(q).sess = s)
    BY <1>1, <1>2, <1>3 DEF Joins
<1>6. ASSUME Head(q).op = "leave", Head(q).sess = s, NEW k \in 1..n
      PROVE  ~About(r[k], s)
    <2>1. About(q[k + 1], s) => k + 1 <= 1
        BY <1>1, <1>2, <1>3, <1>6 DEF Orderly
    <2> QED
        BY <1>1, <1>2, <1>3, <2>1
<1>7. ASSUME Head(q).op = "leave", Head(q).sess = s
      PROVE  s \notin Leaves(r) \cup Joins(r)
    BY <1>2, <1>6, <1>7 DEF Leaves, Joins, About
<1>8. ASSUME About(Head(q), s)
      PROVE  s \in K \/ Head(q).op = "join"
    BY <1>1, <1>2, <1>3, <1>8 DEF Orderly
<1>9. ASSUME NEW k \in 1..n, r[k].op = "leave", r[k].sess = s,
             NEW l \in 1..n, About(r[l], s)
      PROVE  l <= k
    <2>1. l + 1 <= k + 1
        BY <1>1, <1>2, <1>3, <1>9 DEF Orderly
    <2> QED
        BY <1>3, <2>1
<1>10. ASSUME NEW k \in 1..n, About(r[k], s), s \notin M
       PROVE  \E i \in 1..k : r[i].op = "join" /\ r[i].sess = s
    <2>1. ~(Head(q).op = "leave" /\ Head(q).sess = s)
        BY <1>6, <1>10
    <2>2. s \notin K
        BY <1>10, <2>1
    <2>3. About(q[k + 1], s) /\ k + 1 \in 1..Len(q)
        BY <1>1, <1>2, <1>3, <1>10
    <2>4. PICK i \in 1..(k + 1) : q[i].op = "join" /\ q[i].sess = s
        BY <2>2, <2>3 DEF Orderly
    <2>5. i # 1
        BY <1>1, <1>10, <2>4
    <2>6. PICK m \in 1..k : i = m + 1
        BY <1>3, <2>5
    <2>7. m \in 1..n
        BY <1>3
    <2>8. r[m] = q[i]
        BY <1>1, <1>2, <2>6, <2>7
    <2> QED
        BY <2>4, <2>8
<1>11. Orderly(r, s, M)
    BY <1>2, <1>9, <1>10 DEF Orderly
<1> QED
    BY <1>4, <1>5, <1>7, <1>8, <1>11

\* A step that has nothing to do with the session, or posts a notice.
LEMMA RegularAside ==
    ASSUME strand \in Seq(Job), NEW s \in Session, Regular(s),
           \/ strand' = strand
           \/ \E j : IsNotice(j) /\ strand' = Append(strand, j),
           conn'[s] = conn[s], room'[s] = room[s],
           inRoom' = inRoom,
           Unlinked(links, s) => Unlinked(links', s),
           s \in splits' => s \in splits
    PROVE  Regular(s)'
<1>1. /\ Orderly(strand', s, inRoom)
      /\ s \in Leaves(strand') <=> s \in Leaves(strand)
      /\ s \in Joins(strand') <=> s \in Joins(strand)
    <2>1. CASE strand' = strand
        BY <2>1 DEF Regular
    <2>2. ASSUME NEW j, IsNotice(j), NEW r, r = Append(strand, j), strand' = r
          PROVE  /\ Orderly(r, s, inRoom)
                 /\ s \in Leaves(r) <=> s \in Leaves(strand)
                 /\ s \in Joins(r) <=> s \in Joins(strand)
        <3>1. j \in Job /\ j.op # "join" /\ j.op # "leave" /\ ~About(j, s)
            BY <2>2, NoticeIsAboutNobody DEF IsNotice
        <3>2. Orderly(strand, s, inRoom)
            BY DEF Regular
        <3> QED
            BY <2>2, <3>1, <3>2, OrderlyAppend
    <2> QED
        BY <2>1, <2>2
<1> QED
    BY <1>1 DEF Regular

\* A step that handles a job and may post a notice.
LEMMA RegularHandled ==
    ASSUME strand \in Seq(Job), strand # <<>>, NEW s \in Session, Regular(s),
           \/ strand' = Tail(strand)
           \/ \E j : IsNotice(j) /\ strand' = Append(Tail(strand), j),
           conn' = conn, room' = room,
           Head(strand).op = "join" /\ Head(strand).sess = s => s \in inRoom',
           Head(strand).op = "leave" /\ Head(strand).sess = s => s \notin inRoom',
           ~(Head(strand).op \in {"join", "leave"} /\ Head(strand).sess = s)
               => (s \in inRoom' <=> s \in inRoom),
           s \notin inRoom' => Unlinked(links', s) /\ s \notin splits'
    PROVE  Regular(s)'
<1>1. PICK q : q = Tail(strand)
    OBVIOUS
<1>2. q \in Seq(Job)
    BY <1>1, HeadTailProperties
<1>3. /\ Orderly(q, s, inRoom')
      /\ s \in Leaves(strand) <=>
            s \in Leaves(q) \/ (Head(strand).op = "leave" /\ Head(strand).sess = s)
      /\ s \in Joins(strand) <=>
            s \in Joins(q) \/ (Head(strand).op = "join" /\ Head(strand).sess = s)
      /\ Head(strand).op = "leave" /\ Head(strand).sess = s => s \notin Leaves(q) \cup Joins(q)
    <2>1. Orderly(strand, s, inRoom)
        BY DEF Regular
    <2>2. s \in inRoom /\ ~(Head(strand).op = "leave" /\ Head(strand).sess = s) => s \in inRoom'
        OBVIOUS
    <2>3. PICK K, M : K = inRoom /\ M = inRoom'
        OBVIOUS
    <2>4. /\ Orderly(q, s, M)
          /\ s \in Leaves(strand) <=>
                s \in Leaves(q) \/ (Head(strand).op = "leave" /\ Head(strand).sess = s)
          /\ s \in Joins(strand) <=>
                s \in Joins(q) \/ (Head(strand).op = "join" /\ Head(strand).sess = s)
          /\ Head(strand).op = "leave" /\ Head(strand).sess = s => s \notin Leaves(q) \cup Joins(q)
        BY <1>1, <2>1, <2>2, <2>3, OrderlyTail
    <2> QED
        BY <2>3, <2>4
<1>4. /\ Orderly(strand', s, inRoom')
      /\ s \in Leaves(strand') <=> s \in Leaves(q)
      /\ s \in Joins(strand') <=> s \in Joins(q)
    <2>1. CASE strand' = q
        BY <1>3, <2>1
    <2>2. ASSUME NEW j, IsNotice(j), NEW r, r = Append(q, j), strand' = r
          PROVE  /\ Orderly(r, s, inRoom')
                 /\ s \in Leaves(r) <=> s \in Leaves(q)
                 /\ s \in Joins(r) <=> s \in Joins(q)
        <3>1. j \in Job /\ j.op # "join" /\ j.op # "leave" /\ ~About(j, s)
            BY <2>2, NoticeIsAboutNobody DEF IsNotice
        <3> QED
            BY <1>2, <1>3, <2>2, <3>1, OrderlyAppend
    <2> QED
        BY <1>1, <2>1, <2>2
<1>5. CASE Head(strand).op = "leave" /\ Head(strand).sess = s
    BY <1>3, <1>4, <1>5 DEF Regular
<1>6. CASE Head(strand).op = "join" /\ Head(strand).sess = s
    BY <1>3, <1>4, <1>6 DEF Regular
<1>7. CASE ~(Head(strand).op \in {"join", "leave"} /\ Head(strand).sess = s)
    BY <1>3, <1>4, <1>7 DEF Regular
<1> QED
    BY <1>5, <1>6, <1>7

\* Connections: a session is greeted, enters, commands and leaves, in this order.
LEMMA ConnectionsKeepRegular ==
    ASSUME LinksAssumption, RoomAssumption, TakeOver = FALSE, IInv,
           \A s \in Session : Regular(s), HolderInv, Connections, NEW s \in Session
    PROVE  Regular(s)'
<1>1. /\ UNCHANGED <<links, inRoom, splits>>
      /\ strand \in Seq(Job) /\ conn \in [Session -> {"fresh", "taking", "entering", "open", "gone"}]
      /\ room \in [Session -> BOOLEAN] /\ user \in [Session -> IdPtr]
      /\ Regular(s)
    BY DEF Connections, Greet, EnterRoom, Command, Disconnect, roomVars, IInv, TypeOK
<1>2. PICK t \in Session :
          \/ \E i \in Id : Greet(t, i)
          \/ EnterRoom(t)
          \/ Command(t)
          \/ Disconnect(t)
    BY DEF Connections
<1>3. ASSUME NEW i \in Id, Greet(t, i)
      PROVE  Regular(s)'
    <2>1. ~(holder[i] # NoSession /\ room[holder[i]])
        <3>1. holder[i] \in SessionPtr
            BY DEF IInv, TypeOK
        <3> QED
            BY <1>3, <3>1 DEF Greet, HolderInv, SessionPtr
    <2>2. /\ strand' = strand \o <<>> /\ room' = room
          /\ conn[t] = "fresh" /\ conn' = [conn EXCEPT ![t] = "entering"]
        BY <1>3, <2>1 DEF Greet, Post
    <2>3. strand' = strand
        BY <1>1, <2>2, PostNone
    <2> QED
        BY <1>1, <2>2, <2>3 DEF Regular
<1>4. ASSUME NEW j \in Job, About(j, t), \A o : About(j, o) => o = t,
             NEW r, r = Append(strand, j), strand' = r,
             conn[t] # "gone", conn[t] = "fresh" => FALSE,
             j.op = "join" \/ t \in inRoom \cup Joins(strand),
             conn' = [conn EXCEPT ![t] = IF j.op = "leave" THEN "gone" ELSE "open"],
             room' = [room EXCEPT ![t] = j.op # "leave"]
      PROVE  Regular(s)'
    <2>1. CASE s # t
        <3>1. ~About(j, s)
            BY <1>4, <2>1
        <3>2. /\ Orderly(r, s, inRoom)
              /\ s \in Leaves(r) <=> s \in Leaves(strand)
              /\ s \in Joins(r) <=> s \in Joins(strand)
            <4>1. Orderly(strand, s, inRoom)
                BY <1>1 DEF Regular
            <4>2. ~(j.op = "leave" /\ j.sess = s) /\ ~(j.op = "join" /\ j.sess = s)
                BY <3>1 DEF About
            <4> QED
                BY <1>1, <1>4, <3>1, <4>1, <4>2, OrderlyAppend
        <3>3. conn'[s] = conn[s] /\ room'[s] = room[s]
            BY <1>1, <1>4, <2>1
        <3> QED
            BY <1>1, <1>4, <3>2, <3>3 DEF Regular
    <2>2. CASE s = t
        <3>1. s \notin Leaves(strand)
            BY <1>1, <1>4, <2>2 DEF Regular
        <3>2. /\ Orderly(r, s, inRoom)
              /\ s \in Leaves(r) <=> j.op = "leave"
              /\ s \in Joins(r) <=> s \in Joins(strand) \/ j.op = "join"
            <4>1. Orderly(strand, s, inRoom)
                BY <1>1 DEF Regular
            <4>2. j.sess = s
                BY <1>4, <2>2 DEF About
            <4>3. j.op = "join" \/ s \in inRoom \cup Joins(strand)
                BY <1>4, <2>2
            <4>4. /\ Orderly(r, s, inRoom)
                  /\ s \in Leaves(r) <=> s \in Leaves(strand) \/ (j.op = "leave" /\ j.sess = s)
                  /\ s \in Joins(r) <=> s \in Joins(strand) \/ (j.op = "join" /\ j.sess = s)
                BY <1>1, <1>4, <3>1, <4>1, <4>3, OrderlyAppend
            <4> QED
                BY <3>1, <4>2, <4>4
        <3>3. /\ conn'[s] = IF j.op = "leave" THEN "gone" ELSE "open"
              /\ room'[s] = (j.op # "leave")
            BY <1>1, <1>4, <2>2
        <3> QED
            BY <1>1, <1>4, <2>2, <3>1, <3>2, <3>3 DEF Regular
    <2> QED
        BY <2>1, <2>2
<1>5. Regular(t)
    OBVIOUS
<1>6. CASE EnterRoom(t)
    <2>1. conn[t] = "entering" /\ room' = [room EXCEPT ![t] = TRUE]
        BY <1>5, <1>6 DEF EnterRoom, Regular
    <2>2. user[t] \in Id
        BY <2>1 DEF IInv, JobInv
    <2>3. PICK j : j = JoinJob(t, user[t])
        OBVIOUS
    <2>4. j \in Job /\ About(j, t) /\ (\A o : About(j, o) => o = t) /\ j.op = "join"
        BY <2>2, <2>3 DEF JoinJob, Job, About
    <2>5. strand' = Append(strand, j)
        BY <1>1, <1>6, <2>3, <2>4, PostOne DEF EnterRoom, Post
    <2>6. conn' = [conn EXCEPT ![t] = "open"]
        BY <1>6 DEF EnterRoom
    <2> QED
        BY <1>4, <2>1, <2>4, <2>5, <2>6
<1>7. CASE Command(t)
    <2>1. conn[t] = "open" /\ room[t] = TRUE /\ conn' = conn /\ room' = room
        BY <1>1, <1>7 DEF Command
    <2>2. PICK j : /\ \/ j = SessionJob("play", t) \/ j = SessionJob("split", t)
                      \/ \E i \in Id : j = SpectateJob(t, i)
                   /\ strand' = strand \o <<j>>
        BY <1>7 DEF Command, Post
    <2>3. /\ j \in Job /\ About(j, t) /\ (\A o : About(j, o) => o = t)
          /\ j.op # "leave" /\ j.op # "join"
        BY <2>2 DEF SessionJob, SpectateJob, Job, About
    <2>4. strand' = Append(strand, j)
        BY <1>1, <2>2, <2>3, PostOne
    <2>5. t \in inRoom \cup Joins(strand)
        BY <1>5, <2>1 DEF Regular
    <2>6. conn' = [conn EXCEPT ![t] = "open"] /\ room' = [room EXCEPT ![t] = TRUE]
        BY <1>1, <2>1
    <2> QED
        BY <1>4, <2>1, <2>3, <2>4, <2>5, <2>6
<1>8. CASE Disconnect(t)
    <2>1. /\ conn[t] = "open" /\ conn' = [conn EXCEPT ![t] = "gone"]
          /\ room' = [room EXCEPT ![t] = FALSE]
        BY <1>8 DEF Disconnect
    <2>2. room[t] /\ t \in inRoom \cup Joins(strand)
        BY <1>5, <2>1 DEF Regular
    <2>3. PICK j : j = SessionJob("leave", t)
        OBVIOUS
    <2>4. j \in Job /\ About(j, t) /\ (\A o : About(j, o) => o = t) /\ j.op = "leave"
        BY <2>3 DEF SessionJob, Job, About
    <2>5. strand' = Append(strand, j)
        <3>1. strand' = strand \o <<j>>
            BY <1>8, <2>2, <2>3 DEF Disconnect, Post
        <3> QED
            BY <1>1, <2>4, <3>1, PostOne
    <2> QED
        BY <1>4, <2>1, <2>2, <2>4, <2>5
<1> QED
    BY <1>2, <1>3, <1>6, <1>7, <1>8

\* Whoever held the account last and still has a room is its user.
LEMMA StepHolderInv ==
    ASSUME LinksAssumption, RoomAssumption, IInv, HolderInv, \A s \in Session : Regular(s),
           [Next]_vars
    PROVE  HolderInv'
<1>1. /\ conn \in [Session -> {"fresh", "taking", "entering", "open", "gone"}]
      /\ room \in [Session -> BOOLEAN] /\ user \in [Session -> IdPtr]
      /\ holder \in [Id -> SessionPtr] /\ NoSession \notin Session
    BY DEF IInv, TypeOK, LinksAssumption
<1>2. CASE UNCHANGED <<conn, room, user, holder>>
    BY <1>2 DEF HolderInv
<1>3. ASSUME NEW t \in Session,
             (\E i \in Id : Greet(t, i)) \/ EnterRoom(t) \/ Command(t) \/ Disconnect(t)
      PROVE  HolderInv'
    <2> SUFFICES ASSUME NEW i \in Id, holder'[i] # NoSession
                 PROVE  /\ conn'[holder'[i]] \in {"open", "gone"}
                        /\ room'[holder'[i]] => user'[holder'[i]] = i
        BY DEF HolderInv
    <2>1. CASE \E k \in Id : Greet(t, k)
        <3>1. /\ conn[t] = "fresh" /\ holder' = holder /\ room' = room
              /\ \A s \in Session : s # t => conn'[s] = conn[s] /\ user'[s] = user[s]
            BY <1>1, <2>1 DEF Greet
        <3>2. holder[i] \in Session /\ holder[i] # t
            BY <1>1, <3>1 DEF HolderInv, SessionPtr
        <3> QED
            BY <3>1, <3>2 DEF HolderInv
    <2>2. CASE EnterRoom(t)
        <3>1. /\ conn[t] = "entering" /\ user[t] \in Id
              /\ holder' = [holder EXCEPT ![user[t]] = t]
              /\ conn' = [conn EXCEPT ![t] = "open"]
              /\ room' = [room EXCEPT ![t] = TRUE] /\ user' = user
            BY <2>2 DEF EnterRoom, Regular, IInv, JobInv
        <3>2. CASE i = user[t]
            BY <1>1, <3>1, <3>2
        <3>3. CASE i # user[t]
            <4>1. holder'[i] = holder[i] /\ holder[i] \in Session /\ holder[i] # t
                BY <1>1, <3>1, <3>3 DEF HolderInv, SessionPtr
            <4> QED
                BY <1>1, <3>1, <4>1 DEF HolderInv
        <3> QED
            BY <3>2, <3>3
    <2>3. CASE Command(t)
        BY <1>2, <2>3 DEF Command, HolderInv
    <2>4. CASE Disconnect(t)
        <3>1. /\ holder' = holder
              /\ conn' = [conn EXCEPT ![t] = "gone"] /\ room' = [room EXCEPT ![t] = FALSE]
              /\ \A s \in Session : s # t => user'[s] = user[s]
            BY <1>1, <2>4 DEF Disconnect
        <3>2. holder[i] \in Session
            BY <1>1, <3>1 DEF SessionPtr
        <3> QED
            BY <1>1, <3>1, <3>2 DEF HolderInv
    <2> QED
        BY <1>3, <2>1, <2>2, <2>3, <2>4
<1>4. CASE Jobs \/ Timers \/ Interactions \/ EndInteractions \/ RemoveAvatar \/ UNCHANGED vars
    <2>1. UNCHANGED appVars
        BY <1>4 DEF Jobs, DoJoin, DoLeave, DoPlay, DoSpectate, DoSplit, OnPlayerRespawn,
                    OnPlayerDeath, OnPlayerAnnihilates, Timers, BeginUpdate, Synchronize,
                    UpdateLeaderboard, Annihilate, Interactions, Eat, EatenByMother, Explode,
                    EndInteractions, RemoveAvatar, vars
    <2> QED
        BY <1>2, <2>1 DEF appVars
<1> QED
    BY <1>3, <1>4 DEF Next, Connections

\* The job at the front is handled for a session of the room, or lets it in, or
\* lets it go.
LEMMA JobsKeepRegular ==
    ASSUME LinksAssumption, RoomAssumption, IInv, NEW s \in Session, Regular(s), Jobs
    PROVE  Regular(s)'
<1>1. strand \in Seq(Job) /\ links \in Links /\ LinksConsistent(links)
    BY DEF IInv, TypeOK, LinksAreConsistent
<1>2. conn' = conn /\ room' = room
    BY DEF Jobs, DoJoin, DoLeave, DoPlay, DoSpectate, DoSplit, OnPlayerRespawn,
           OnPlayerDeath, OnPlayerAnnihilates, appVars
<1>3. PICK t : t = Head(strand).sess
    OBVIOUS
<1>4. PICK op : Handle(op)
    BY DEF Jobs, DoJoin, DoLeave, DoPlay, DoSpectate, DoSplit, OnPlayerRespawn,
           OnPlayerDeath, OnPlayerAnnihilates
<1>5. /\ strand # <<>> /\ Head(strand).op = op
      /\ op \in {"join", "leave", "play", "spectate", "split"} => t \in Session
    BY <1>3, <1>4, HandledJob DEF IInv
<1>6. \/ strand' = Tail(strand)
      \/ \E j : IsNotice(j) /\ strand' = Append(Tail(strand), j)
    <2>1. CASE DoPlay
        <3>1. KnownPlayer(t) # NoPlayer => KnownPlayer(t) \in Player
            BY <1>3, <2>1, PlayedIsKnown
        <3>2. ASSUME NEW p \in Player
              PROVE  IsNotice(Notice("respawned", p))
            BY DEF IsNotice, Notice, Job
        <3> QED
            BY <1>3, <2>1, <3>1, <3>2 DEF DoPlay, PlayAs, Uncreated
    <2> QED
        BY <2>1 DEF Jobs, DoJoin, DoLeave, DoSpectate, DoSplit, OnPlayerRespawn, OnPlayerDeath,
                    OnPlayerAnnihilates
<1>7. About(Head(strand), s) /\ op # "join" => s \in inRoom
    <2>1. PICK q : q = Tail(strand)
        OBVIOUS
    <2>2. Orderly(strand, s, inRoom)
        BY DEF Regular
    <2>3. About(Head(strand), s) => s \in inRoom \/ Head(strand).op = "join"
        <3>1. PICK M : M = inRoom \cup {s}
            OBVIOUS
        <3> QED
            BY <1>1, <1>5, <2>1, <2>2, <3>1, OrderlyTail
    <2> QED
        BY <1>5, <2>3
<1>8. CASE DoJoin \/ DoLeave \/ DoPlay \/ DoSpectate
    <2>1. OthersKeep(t)
        BY <1>3, <1>8, DoJoinKeepsIInv, DoLeaveKeepsIInv, DoPlayKeepsIInv, DoSpectateKeepsIInv
    <2>2. CASE s # t
        <3>1. (s \in inRoom' <=> s \in inRoom) /\ (s \in splits' <=> s \in splits)
            BY <1>3, <1>8, <2>2 DEF DoJoin, DoLeave, DoPlay, DoSpectate, roomVars
        <3>2. Unlinked(links, s) => Unlinked(links', s)
            BY <2>1, <2>2 DEF OthersKeep, Unlinked
        <3> QED
            BY <1>1, <1>2, <1>3, <1>5, <1>6, <2>2, <3>1, <3>2, RegularHandled DEF Regular
    <2>3. CASE s = t /\ (DoJoin \/ DoPlay \/ DoSpectate)
        <3>1. /\ s \in inRoom'
              /\ op = "join" \/ (op # "leave" /\ inRoom' = inRoom)
            BY <1>3, <1>5, <1>7, <2>3
               DEF DoJoin, DoPlay, DoSpectate, roomVars, Handle, About
        <3> QED
            BY <1>1, <1>2, <1>3, <1>5, <1>6, <2>3, <3>1, RegularHandled
    <2>4. CASE s = t /\ DoLeave
        <3>1. op = "leave" /\ s \notin inRoom'
            BY <1>3, <1>5, <2>4 DEF DoLeave, Handle
        <3>2. Unlinked(links', s) /\ s \notin splits'
            <4>1. CASE s \in inRoom
                <5>1. links' = Forget(links, s) /\ splits' = splits \ {s}
                    BY <1>3, <2>4, <4>1 DEF DoLeave
                <5>2. /\ links'.observable = [links.observable EXCEPT ![s] = NoPlayer]
                      /\ links'.player = [links.player EXCEPT ![s] = NoPlayer]
                    BY <1>1, <5>1, ForgetConsistent
                <5> QED
                    BY <1>1, <5>1, <5>2 DEF Unlinked, Links
            <4>2. CASE s \notin inRoom
                <5>1. links' = links /\ splits' = splits
                    BY <1>3, <2>4, <4>2 DEF DoLeave
                <5> QED
                    BY <4>2, <5>1 DEF Regular
            <4> QED
                BY <4>1, <4>2
        <3> QED
            BY <1>1, <1>2, <1>3, <1>5, <1>6, <2>4, <3>1, <3>2, RegularHandled
    <2> QED
        BY <1>8, <2>2, <2>3, <2>4
<1>9. CASE DoSplit
    <2>1. /\ inRoom' = inRoom /\ links' = links /\ op = "split"
          /\ splits' = splits \cup {t}
        BY <1>3, <1>5, <1>9 DEF DoSplit, roomVars, Handle
    <2>2. s = t => s \in inRoom
        BY <1>3, <1>5, <1>7, <2>1 DEF About
    <2>3. s \notin inRoom => Unlinked(links', s) /\ s \notin splits'
        BY <2>1, <2>2 DEF Regular
    <2> QED
        BY <1>1, <1>2, <1>5, <1>6, <2>1, <2>3, RegularHandled
<1>10. CASE OnPlayerRespawn \/ OnPlayerDeath \/ OnPlayerAnnihilates
    <2>1. /\ inRoom' = inRoom /\ links' = links /\ splits' = splits
          /\ op \in {"respawned", "died", "annihilated"}
        BY <1>5, <1>10 DEF OnPlayerRespawn, OnPlayerDeath, OnPlayerAnnihilates, roomVars, Handle
    <2>2. s \notin inRoom => Unlinked(links', s) /\ s \notin splits'
        BY <2>1 DEF Regular
    <2> QED
        BY <1>1, <1>2, <1>5, <1>6, <2>1, <2>2, RegularHandled
<1> QED
    BY <1>8, <1>9, <1>10 DEF Jobs

\* Every step of the room keeps sessions regular.
LEMMA StepRegular ==
    ASSUME LinksAssumption, RoomAssumption, TakeOver = FALSE, IInv,
           \A s \in Session : Regular(s), HolderInv, [Next]_vars, NEW s \in Session
    PROVE  Regular(s)'
<1>1. CASE Connections
    BY <1>1, ConnectionsKeepRegular
<1>2. CASE Jobs
    BY <1>2, JobsKeepRegular
<1>3. strand \in Seq(Job) /\ Regular(s)
    BY DEF IInv, TypeOK
<1>4. CASE Timers \/ Interactions \/ EndInteractions \/ UNCHANGED vars
    <2>1. UNCHANGED <<conn, room, inRoom, links>> /\ (s \in splits' => s \in splits)
        BY <1>4 DEF Timers, BeginUpdate, Synchronize, UpdateLeaderboard, Annihilate, Interactions,
                    Eat, EatenByMother, Explode, EndInteractions, vars, appVars, roomVars
    <2>2. strand' = strand \/ \E j : IsNotice(j) /\ strand' = Append(strand, j)
        <3>1. ASSUME NEW p \in Player, Annihilate(p)
              PROVE  \E j : IsNotice(j) /\ strand' = Append(strand, j)
            <4>1. IsNotice(Notice("annihilated", p))
                BY DEF IsNotice, Notice, Job
            <4>2. PICK j : j = Notice("annihilated", p) /\ IsNotice(j)
                BY <4>1
            <4>3. strand' = Append(strand, j)
                BY <3>1, <4>2, PostOne DEF Annihilate, Post, IInv, IsNotice
            <4> QED
                BY <4>2, <4>3
        <3> QED
            BY <1>4, <3>1 DEF Timers, BeginUpdate, Synchronize, UpdateLeaderboard, Interactions,
                              Eat, EatenByMother, Explode, EndInteractions, vars
    <2> QED
        BY <1>3, <2>1, <2>2, RegularAside
<1>5. CASE RemoveAvatar
    <2>1. UNCHANGED <<conn, room, inRoom, splits>>
        BY <1>5 DEF RemoveAvatar, appVars, roomVars
    <2>2. Unlinked(links, s) => Unlinked(links', s)
        BY <1>5, RemoveAvatarKeepsIInv
    <2>3. strand' = strand \/ \E j : IsNotice(j) /\ strand' = Append(strand, j)
        <3>1. CASE Die(Head(deaths).owner)
            <4>1. deaths \in Seq(Killed) /\ deaths # <<>>
                BY <1>5 DEF IInv, DeathsInv, TypeOK, RemoveAvatar
            <4>2. Head(deaths) \in Killed
                BY <4>1, HeadTailProperties
            <4>3. IsNotice(Notice("died", Head(deaths).owner))
                BY <4>2 DEF IsNotice, Notice, Job, Killed
            <4>4. PICK j : j = Notice("died", Head(deaths).owner) /\ IsNotice(j)
                BY <4>3
            <4>5. strand' = Append(strand, j)
                BY <3>1, <4>4, PostOne DEF Die, Post, IInv, IsNotice
            <4> QED
                BY <4>4, <4>5
        <3> QED
            BY <1>5, <3>1 DEF RemoveAvatar
    <2> QED
        BY <1>3, <2>1, <2>2, <2>3, RegularAside
<1> QED
    BY <1>1, <1>2, <1>4, <1>5 DEF Next

\* Where no connection takes an account over: a session that is not in the room
\* plays, watches and splits nothing and is nobody's viewer, and one that is gone
\* is in the room only until its leave, which is in the strand, is handled.
THEOREM RoomLeftIsForgotten ==
    ASSUME TakeOver = FALSE
    PROVE  Spec => []LeftIsForgotten
<1> DEFINE R == HolderInv /\ \A s \in Session : Regular(s)
<1>1. Init => IInv
    BY InitIInv, LinksAssumption, RoomAssumption
<1>2. Init => R
    <2> SUFFICES ASSUME Init
                 PROVE  R
        OBVIOUS
    <2>1. HolderInv
        BY DEF Init, HolderInv
    <2>2. ASSUME NEW s \in Session
          PROVE  Regular(s)
        <3>1. /\ Len(strand) = 0 /\ 1..0 = {}
              /\ conn[s] = "fresh" /\ room[s] = FALSE /\ inRoom = {} /\ splits = {}
            BY DEF Init
        <3>2. Unlinked(links, s)
            BY DEF Init, NoLinks, Unlinked
        <3>3. Leaves(strand) = {} /\ Joins(strand) = {} /\ Orderly(strand, s, inRoom)
            BY <3>1 DEF Leaves, Joins, Orderly
        <3> QED
            BY <3>1, <3>2, <3>3 DEF Regular
    <2> QED
        BY <2>1, <2>2
<1>3. IInv /\ R /\ [Next]_vars => IInv' /\ R'
    BY StepIInv, StepHolderInv, StepRegular, LinksAssumption, RoomAssumption
<1>4. IInv /\ R => LeftIsForgotten
    <2> SUFFICES ASSUME IInv, R, NEW s \in Session
                 PROVE  /\ s \notin inRoom => /\ links.player[s] = NoPlayer
                                              /\ links.observable[s] = NoPlayer
                                              /\ \A p \in Player : s \notin links.viewers[p]
                                              /\ s \notin splits
                        /\ conn[s] = "gone" /\ s \in inRoom => LeaveIsPending(s)
        BY DEF LeftIsForgotten
    <2>1. Regular(s)
        OBVIOUS
    <2>2. ASSUME s \notin inRoom, NEW p \in Player
          PROVE  s \notin links.viewers[p]
        <3>1. Unlinked(links, s) /\ p # NoPlayer
            BY <2>1, <2>2, LinksAssumption DEF Regular, LinksAssumption
        <3> QED
            BY <3>1 DEF Unlinked, IInv, LinksAreConsistent, LinksConsistent, ViewerHasReason
    <2>3. ASSUME conn[s] = "gone", s \in inRoom
          PROVE  LeaveIsPending(s)
        <3>1. s \in Leaves(strand)
            BY <2>1, <2>3 DEF Regular
        <3>2. PICK k \in 1..Len(strand) : strand[k].op = "leave" /\ strand[k].sess = s
            BY <3>1 DEF Leaves
        <3>3. strand[k] \in Job /\ k \in DOMAIN strand
            BY ElementOfSeq, LenProperties DEF IInv, TypeOK
        <3>4. strand[k] = SessionJob("leave", s)
            BY <3>2, <3>3 DEF Job, SessionJob
        <3> QED
            BY <3>3, <3>4 DEF LeaveIsPending, Range
    <2> QED
        BY <2>1, <2>2, <2>3 DEF Regular, Unlinked
<1> HIDE DEF R
<1> QED
    BY <1>1, <1>2, <1>3, <1>4, PTL DEF Spec
=============================================================================
