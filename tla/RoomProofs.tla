----------------------------- MODULE RoomProofs -----------------------------
(***************************************************************************)
(* For any number of sessions, users and players, with take-over and       *)
(* annihilation: the pointers between sessions and players stay consistent *)
(* and a session plays only the player of its own user.                    *)
(*                                                                         *)
(* The operations of Links preserve consistency only if a session that     *)
(* joins has no player yet and watches nobody.  That is a fact about the   *)
(* strand: nothing about a session is posted before its join, so the       *)
(* inductive invariant has to speak about the order of the jobs.           *)
(***************************************************************************)
EXTENDS Room, LinksProofs, SequenceTheorems, FiniteSetTheorems

\* The job is about session s.
About(j, s) ==
    /\ j.op \in {"join", "leave", "play", "spectate", "split"}
    /\ j.sess = s

Mentioned(q) == {s \in Session : \E k \in 1..Len(q) : About(q[k], s)}
Joins(q) == {s \in Session : \E k \in 1..Len(q) : q[k].op = "join" /\ q[k].sess = s}

\* No job about a session comes before its join.
JoinsFirst(q) ==
    \A k \in 1..Len(q) : q[k].op = "join" => \A j \in 1..(k - 1) : ~About(q[j], q[k].sess)

\* A session that plays is known to the room by the time its job runs.
PlaysKnown(q, K) ==
    \A k \in 1..Len(q) :
        q[k].op = "play" =>
            \/ q[k].sess \in K
            \/ \E j \in 1..(k - 1) : q[j].op = "join" /\ q[j].sess = q[k].sess

-----------------------------------------------------------------------------
\* What a job at the back of the strand changes.
LEMMA QueueAppend ==
    ASSUME NEW q \in Seq(Job), NEW j \in Job, NEW K,
           JoinsFirst(q), PlaysKnown(q, K),
           j.op = "join" => j.sess \notin Mentioned(q),
           j.op = "play" => j.sess \in K \cup Joins(q)
    PROVE  /\ JoinsFirst(Append(q, j))
           /\ PlaysKnown(Append(q, j), K)
           /\ Mentioned(Append(q, j)) = Mentioned(q) \cup {s \in Session : About(j, s)}
           /\ Joins(Append(q, j)) =
                 Joins(q) \cup {s \in Session : j.op = "join" /\ j.sess = s}
<1> DEFINE r == Append(q, j)
<1>1. /\ r \in Seq(Job)
      /\ Len(r) = Len(q) + 1
      /\ Len(q) \in Nat
      /\ r[Len(q) + 1] = j
      /\ \A k \in 1..Len(q) : r[k] = q[k]
    BY AppendProperties
<1> HIDE DEF r
<1>2. \A k \in 1..Len(r) : k \in 1..Len(q) \/ k = Len(q) + 1
    BY <1>1
<1>3. Mentioned(r) = Mentioned(q) \cup {s \in Session : About(j, s)}
    BY <1>1, <1>2 DEF Mentioned
<1>4. Joins(r) = Joins(q) \cup {s \in Session : j.op = "join" /\ j.sess = s}
    BY <1>1, <1>2 DEF Joins
<1>5. j.op \in {"join", "play"} => j.sess \in Session
    BY DEF Job
<1>6. JoinsFirst(r)
    <2> SUFFICES ASSUME NEW k \in 1..Len(r), r[k].op = "join", NEW i \in 1..(k - 1)
                 PROVE  ~About(r[i], r[k].sess)
        BY DEF JoinsFirst
    <2>1. i \in 1..Len(q) /\ r[i] = q[i]
        BY <1>1
    <2>2. CASE k \in 1..Len(q)
        BY <1>1, <2>1, <2>2 DEF JoinsFirst
    <2>3. CASE k = Len(q) + 1
        BY <1>1, <1>5, <2>1, <2>3 DEF Mentioned
    <2> QED
        BY <1>2, <2>2, <2>3
<1>7. PlaysKnown(r, K)
    <2> SUFFICES ASSUME NEW k \in 1..Len(r), r[k].op = "play", r[k].sess \notin K
                 PROVE  \E i \in 1..(k - 1) : r[i].op = "join" /\ r[i].sess = r[k].sess
        BY DEF PlaysKnown
    <2>1. CASE k \in 1..Len(q)
        <3>1. PICK i \in 1..(k - 1) : q[i].op = "join" /\ q[i].sess = q[k].sess
            BY <1>1, <2>1 DEF PlaysKnown
        <3>2. i \in 1..Len(q)
            BY <1>1, <2>1
        <3> QED
            BY <1>1, <2>1, <3>1, <3>2
    <2>2. CASE k = Len(q) + 1
        <3>1. PICK i \in 1..Len(q) : q[i].op = "join" /\ q[i].sess = j.sess
            BY <1>1, <2>2 DEF Joins
        <3> QED
            BY <1>1, <2>2, <3>1
    <2> QED
        BY <1>2, <2>1, <2>2
<1> QED
    BY <1>3, <1>4, <1>6, <1>7 DEF r

\* What the job at the front of the strand leaves behind.
LEMMA QueueTail ==
    ASSUME NEW q \in Seq(Job), q # <<>>, NEW K, NEW M,
           JoinsFirst(q), PlaysKnown(q, K),
           K \subseteq M,
           Head(q).op = "join" => Head(q).sess \in M,
           NEW r, r = Tail(q)
    PROVE  /\ r \in Seq(Job)
           /\ JoinsFirst(r)
           /\ PlaysKnown(r, M)
           /\ Mentioned(r) \subseteq Mentioned(q)
           /\ Joins(r) \subseteq Joins(q)
           /\ \A s \in Joins(q) : s \in Joins(r) \/ (Head(q).op = "join" /\ Head(q).sess = s)
           /\ \A s \in Joins(r) : ~About(Head(q), s)
           /\ Head(q).op = "play" => Head(q).sess \in K
           /\ Head(q).op = "join" => Head(q).sess \in Joins(q)
<1>1. /\ r \in Seq(Job)
      /\ Len(r) = Len(q) - 1
      /\ Len(q) \in Nat \ {0}
      /\ \A k \in 1..Len(r) : r[k] = q[k + 1]
      /\ Head(q) = q[1]
      /\ Head(q) \in Job
    BY HeadTailProperties, EmptySeq
<1>2. \A k \in 1..Len(r) : k + 1 \in 1..Len(q)
    BY <1>1
<1>3. \A k \in 1..Len(q) : k = 1 \/ (k - 1 \in 1..Len(r) /\ r[k - 1] = q[k])
    BY <1>1
<1>4. JoinsFirst(r)
    <2> SUFFICES ASSUME NEW k \in 1..Len(r), r[k].op = "join", NEW i \in 1..(k - 1)
                 PROVE  ~About(r[i], r[k].sess)
        BY DEF JoinsFirst
    <2>1. i + 1 \in 1..((k + 1) - 1) /\ r[i] = q[i + 1] /\ r[k] = q[k + 1]
        BY <1>1
    <2> QED
        BY <1>2, <2>1 DEF JoinsFirst
<1>5. PlaysKnown(r, M)
    <2> SUFFICES ASSUME NEW k \in 1..Len(r), r[k].op = "play", r[k].sess \notin M
                 PROVE  \E i \in 1..(k - 1) : r[i].op = "join" /\ r[i].sess = r[k].sess
        BY DEF PlaysKnown
    <2>1. PICK i \in 1..((k + 1) - 1) : q[i].op = "join" /\ q[i].sess = r[k].sess
        BY <1>1, <1>2 DEF PlaysKnown
    <2>2. i # 1
        BY <1>1, <2>1
    <2>3. i - 1 \in 1..(k - 1) /\ r[i - 1] = q[i]
        BY <1>1, <2>1, <2>2
    <2> QED
        BY <2>1, <2>3
<1>6. Mentioned(r) \subseteq Mentioned(q) /\ Joins(r) \subseteq Joins(q)
    BY <1>1, <1>2 DEF Mentioned, Joins
<1>7. \A s \in Joins(q) : s \in Joins(r) \/ (Head(q).op = "join" /\ Head(q).sess = s)
    <2> SUFFICES ASSUME NEW s \in Joins(q)
                 PROVE  s \in Joins(r) \/ (q[1].op = "join" /\ q[1].sess = s)
        BY <1>1
    <2>1. PICK k \in 1..Len(q) : q[k].op = "join" /\ q[k].sess = s
        BY DEF Joins
    <2>2. CASE k = 1
        BY <2>1, <2>2
    <2>3. CASE k # 1
        <3>1. k - 1 \in 1..Len(r) /\ r[k - 1] = q[k]
            BY <1>3, <2>3
        <3> QED
            BY <2>1, <3>1 DEF Joins
    <2> QED
        BY <2>2, <2>3
<1>8. \A s \in Joins(r) : ~About(Head(q), s)
    <2> SUFFICES ASSUME NEW s \in Joins(r)
                 PROVE  ~About(q[1], s)
        BY <1>1
    <2>1. PICK k \in 1..Len(r) : r[k].op = "join" /\ r[k].sess = s
        BY DEF Joins
    <2>2. q[k + 1].op = "join" /\ q[k + 1].sess = s /\ k + 1 \in 1..Len(q)
        BY <1>1, <1>2, <2>1
    <2>3. 1 \in 1..((k + 1) - 1)
        BY <1>1
    <2> QED
        BY <2>2, <2>3 DEF JoinsFirst
<1>9. Head(q).op = "play" => Head(q).sess \in K
    <2>1. 1 \in 1..Len(q) /\ 1..(1 - 1) = {}
        BY <1>1
    <2> QED
        BY <1>1, <2>1 DEF PlaysKnown
<1>10. Head(q).op = "join" => Head(q).sess \in Joins(q)
    <2> SUFFICES ASSUME q[1].op = "join"
                 PROVE  q[1].sess \in Joins(q)
        BY <1>1
    <2>1. 1 \in 1..Len(q)
        BY <1>1
    <2>2. q[1].sess \in Session
        BY <1>1 DEF Job
    <2> QED
        BY <2>1, <2>2 DEF Joins
<1> QED
    BY <1>1, <1>4, <1>5, <1>6, <1>7, <1>8, <1>9, <1>10

-----------------------------------------------------------------------------
\* The sessions whose user the room knows.
Known == {s \in Session : playerId[s] \in Id}

\* Sessions that did not enter the room yet are in no job and have no links;
\* sessions that did are known, or their join is on its way and finds them
\* without links.
JobInv ==
    /\ JoinsFirst(strand)
    /\ PlaysKnown(strand, Known)
    /\ \A s \in Joins(strand) : Unlinked(links, s)
    /\ \A s \in Session :
          conn[s] \in {"fresh", "taking", "entering"} =>
              ~room[s] /\ Unlinked(links, s) /\ s \notin Mentioned(strand)
    /\ \A s \in Session : conn[s] \in {"taking", "entering"} => user[s] \in Id
    /\ \A s \in Session : conn[s] = "open" => s \in Known \cup Joins(strand)
    /\ inRoom \subseteq Known

\* The room registers a player under its own id.
OwnInv ==
    /\ \A i \in Id : players[i] # NoPlayer => idOf[players[i]] = i
    /\ \A s \in Session :
          links.player[s] # NoPlayer => s \in Known /\ idOf[links.player[s]] = playerId[s]

\* update() handles deaths only while there are some.
DeathsInv == phase = "death" => deaths # <<>>

IInv ==
    /\ TypeOK
    /\ DeathsInv
    /\ LinksAreConsistent
    /\ JobInv
    /\ OwnInv

\* A room nobody has entered satisfies the invariant.
LEMMA InitIInv ==
    ASSUME LinksAssumption, RoomAssumption, Init
    PROVE  IInv
<1>1. links \in Links /\ LinksConsistent(links)
    BY NoLinksConsistent DEF Init
<1>2. TypeOK
    <2>1. <<>> \in Seq(Job) /\ <<>> \in Seq(Killed)
        OBVIOUS
    <2>2. \A i \in Id : NoId # i
        BY DEF RoomAssumption
    <2>3. 0 \in 0..MaxPlays /\ 0 \in Nat
        BY DEF RoomAssumption
    <2>4. FreeSpace(0) \in BOOLEAN
        BY DEF FreeSpace
    <2> QED
        BY <1>1, <2>1, <2>3, <2>4 DEF Init, TypeOK, IdPtr, SessionPtr, PlayerPtr
<1>3. JobInv
    <2>1. Len(strand) = 0 /\ 1..0 = {}
        BY DEF Init
    <2>2. \A s \in Session : Unlinked(links, s)
        BY DEF Init, NoLinks, Unlinked
    <2> QED
        BY <2>1, <2>2 DEF Init, JobInv, JoinsFirst, PlaysKnown, Joins, Mentioned
<1>4. OwnInv
    BY DEF Init, OwnInv, NoLinks
<1> QED
    BY <1>1, <1>2, <1>3, <1>4 DEF IInv, LinksAreConsistent, DeathsInv, Init

\* One more job on the strand is an Append.
LEMMA PostOne ==
    ASSUME TypeOK, NEW j \in Job
    PROVE  strand \o <<j>> = Append(strand, j)
BY AppendIsConcat DEF TypeOK

\* Posting nothing leaves the strand alone.
LEMMA PostNone ==
    ASSUME TypeOK
    PROVE  strand \o <<>> = strand
BY ConcatEmptySeq DEF TypeOK

-----------------------------------------------------------------------------
\* Types, action by action.  What becomes of links is shown elsewhere.

\* Handlers of connections post jobs and change their own session.
LEMMA ConnectionsKeepTypes ==
    ASSUME RoomAssumption, TypeOK, JobInv, Connections
    PROVE  TypeOK'
<1> SUFFICES ASSUME NEW s \in Session,
                    \/ \E i \in Id : Greet(s, i)
                    \/ EnterRoom(s)
                    \/ Command(s)
                    \/ Disconnect(s)
             PROVE  TypeOK'
    BY DEF Connections
<1> USE DEF TypeOK, appVars, roomVars, boardVars, cellVars, playerVars
<1>1. /\ strand \o <<>> \in Seq(Job)
      /\ \A j \in Job : strand \o <<j>> \in Seq(Job)
    BY PostOne, PostNone, AppendProperties
<1>2. \A op \in {"leave", "play", "split"}, r \in Session : SessionJob(op, r) \in Job
    BY DEF SessionJob, Job
<1>3. \A i \in Id, r \in Session : JoinJob(r, i) \in Job /\ SpectateJob(r, i) \in Job
    BY DEF JoinJob, SpectateJob, Job
<1>4. ASSUME NEW i \in Id, Greet(s, i)
      PROVE  TypeOK'
    <2>1. strand' \in Seq(Job)
        BY <1>1, <1>2, <1>4 DEF Greet, Post, SessionPtr
    <2> QED
        BY <1>4, <2>1 DEF Greet, IdPtr
<1>5. CASE EnterRoom(s)
    <2>1. user[s] \in Id
        BY <1>5 DEF EnterRoom, JobInv
    <2>2. strand' \in Seq(Job)
        BY <1>1, <1>3, <1>5, <2>1 DEF EnterRoom, Post
    <2>3. holder' \in [Id -> SessionPtr]
        BY <1>5 DEF EnterRoom, SessionPtr
    <2> QED
        BY <1>5, <2>2, <2>3 DEF EnterRoom
<1>6. CASE Command(s)
    <2>1. strand' \in Seq(Job)
        <3>1. PICK j \in Job : Post(<<j>>)
            BY <1>2, <1>3, <1>6 DEF Command
        <3> QED
            BY <1>1, <3>1 DEF Post
    <2>2. plays' \in 0..MaxPlays
        BY <1>6 DEF Command, RoomAssumption
    <2> QED
        BY <1>6, <2>1, <2>2 DEF Command
<1>7. CASE Disconnect(s)
    <2>1. strand' \in Seq(Job)
        BY <1>1, <1>2, <1>7 DEF Disconnect, Post
    <2> QED
        BY <1>7, <2>1 DEF Disconnect, IdPtr
<1> QED
    BY <1>4, <1>5, <1>6, <1>7

\* A job that ran leaves the rest of the strand.
LEMMA HandledJob ==
    ASSUME TypeOK, NEW op, Handle(op)
    PROVE  /\ strand # <<>>
           /\ Head(strand) \in Job
           /\ Head(strand).op = op
           /\ Tail(strand) \in Seq(Job)
           /\ op \in {"join", "spectate", "leave", "play", "split"}
                => Head(strand).sess \in Session
           /\ op \in {"join", "spectate"} => Head(strand).id \in Id
           /\ op \in {"respawned", "died", "annihilated"} => Head(strand).player \in Player
<1>1. /\ strand # <<>>
      /\ Head(strand) \in Job
      /\ Head(strand).op = op
      /\ Tail(strand) \in Seq(Job)
    BY HeadTailProperties DEF TypeOK, Handle
<1> QED
    BY <1>1 DEF Job

\* Counters of players stay natural numbers.
LEMMA CountUp ==
    ASSUME NEW f \in [Player -> Nat], NEW p \in Player, NEW d \in Nat
    PROVE  [f EXCEPT ![p] = @ + d] \in [Player -> Nat]
<1>1. f[p] + d \in Nat
    OBVIOUS
<1> QED
    BY <1>1

\* ... and so do they when there is something to take away.
LEMMA CountDown ==
    ASSUME NEW f \in [Player -> Nat], NEW p \in Player, f[p] > 0
    PROVE  [f EXCEPT ![p] = @ - 1] \in [Player -> Nat]
<1>1. f[p] - 1 \in Nat
    OBVIOUS
<1> QED
    BY <1>1

\* Handlers of notices, and of a request to split.
LEMMA NoticesKeepTypes ==
    ASSUME RoomAssumption, TypeOK,
           OnPlayerRespawn \/ OnPlayerDeath \/ OnPlayerAnnihilates \/ DoSplit
    PROVE  TypeOK'
<1> USE DEF TypeOK, appVars, roomVars, boardVars, cellVars, playerVars
<1>1. CASE OnPlayerRespawn
    <2>1. Head(strand).player \in Player /\ strand' \in Seq(Job)
        BY <1>1, HandledJob DEF OnPlayerRespawn
    <2> DEFINE p == Head(strand).player
    <2>2. [leaderboard EXCEPT ![p] = @ + 1] \in [Player -> Nat]
        BY <2>1, CountUp
    <2>3. leaderboard' \in [Player -> Nat]
        BY <1>1, <2>2 DEF OnPlayerRespawn
    <2> QED
        BY <1>1, <2>1, <2>3 DEF OnPlayerRespawn
<1>2. CASE OnPlayerDeath
    <2>1. Head(strand).player \in Player /\ strand' \in Seq(Job)
        BY <1>2, HandledJob DEF OnPlayerDeath
    <2>2. leaderboard' \in [Player -> Nat]
        <3>1. \A n \in Nat : (IF n > 0 THEN n - 1 ELSE 0) \in Nat
            OBVIOUS
        <3> QED
            BY <1>2, <2>1, <3>1 DEF OnPlayerDeath
    <2> QED
        BY <1>2, <2>1, <2>2 DEF OnPlayerDeath
<1>3. CASE OnPlayerAnnihilates
    <2>1. Head(strand).player \in Player /\ strand' \in Seq(Job)
        BY <1>3, HandledJob DEF OnPlayerAnnihilates
    <2> QED
        BY <1>3, <2>1 DEF OnPlayerAnnihilates, PlayerPtr
<1>4. CASE DoSplit
    <2>1. Head(strand).sess \in Session /\ strand' \in Seq(Job)
        BY <1>4, HandledJob DEF DoSplit
    <2> QED
        BY <1>4, <2>1 DEF DoSplit
<1> QED
    BY <1>1, <1>2, <1>3, <1>4

\* Handlers of the jobs that change the links of a session.
LEMMA SessionJobsKeepTypes ==
    ASSUME RoomAssumption, TypeOK, links' \in Links,
           Head(strand).op = "play" => Head(strand).sess \in Known,
           DoJoin \/ DoLeave \/ DoPlay \/ DoSpectate
    PROVE  TypeOK'
<1> USE DEF TypeOK, appVars, roomVars, boardVars, cellVars, playerVars
<1> DEFINE s == Head(strand).sess
<1>1. CASE DoJoin
    <2>1. s \in Session /\ Head(strand).id \in Id /\ strand' \in Seq(Job)
        BY <1>1, HandledJob DEF DoJoin
    <2> QED
        BY <1>1, <2>1 DEF DoJoin, IdPtr
<1>2. CASE DoLeave
    <2>1. s \in Session /\ strand' \in Seq(Job)
        BY <1>2, HandledJob DEF DoLeave
    <2> QED
        BY <1>2, <2>1 DEF DoLeave
<1>3. CASE DoSpectate
    <2>1. strand' \in Seq(Job)
        BY <1>3, HandledJob DEF DoSpectate
    <2> QED
        BY <1>3, <2>1 DEF DoSpectate
<1>4. CASE DoPlay
    <2>1. s \in Session /\ Tail(strand) \in Seq(Job) /\ playerId[s] \in Id
        BY <1>4, HandledJob DEF DoPlay, Known
    <2>2. KnownPlayer(s) \in PlayerPtr
        BY <2>1 DEF KnownPlayer, Links
    <2>3. ASSUME NEW p \in Player, PlayAs(s, p)
          PROVE  /\ strand' \in Seq(Job)
                 /\ isAlive' \in [Player -> BOOLEAN]
                 /\ avatars' \in [Player -> Nat]
        <3>1. Notice("respawned", p) \in Job
            BY DEF Notice, Job
        <3>2. Append(Tail(strand), Notice("respawned", p)) \in Seq(Job)
            BY <2>1, <3>1, AppendProperties
        <3>3. CASE isAlive[p]
            BY <2>1, <2>3, <3>3 DEF PlayAs
        <3>4. CASE ~isAlive[p]
            <4>1. [avatars EXCEPT ![p] = @ + 1] \in [Player -> Nat]
                BY CountUp
            <4> QED
                BY <2>3, <3>2, <3>4, <4>1 DEF PlayAs
        <3> QED
            BY <3>3, <3>4
    <2>4. CASE KnownPlayer(s) # NoPlayer /\ PlayAs(s, KnownPlayer(s))
               /\ armed' = [armed EXCEPT ![KnownPlayer(s)] = @ \/ ~isAlive[KnownPlayer(s)]]
               /\ UNCHANGED <<players, idOf, hasFreeSpace>>
        <3>1. KnownPlayer(s) \in Player
            BY <2>2, <2>4 DEF PlayerPtr
        <3>2. armed' \in [Player -> BOOLEAN]
            BY <2>4, <3>1
        <3>3. /\ strand' \in Seq(Job)
              /\ isAlive' \in [Player -> BOOLEAN]
              /\ avatars' \in [Player -> Nat]
            BY <2>3, <2>4, <3>1
        <3> QED
            BY <1>4, <2>4, <3>2, <3>3 DEF DoPlay
    <2>5. ASSUME NEW p \in Uncreated, PlayAs(s, p),
                 armed' = [armed EXCEPT ![p] = TRUE],
                 players' = [players EXCEPT ![playerId[s]] = p],
                 idOf' = [idOf EXCEPT ![p] = playerId[s]],
                 hasFreeSpace' = FreeSpace(Cardinality(InRoomIds) + 1)
          PROVE  TypeOK'
        <3>1. p \in Player
            BY DEF Uncreated
        <3>2. /\ strand' \in Seq(Job)
              /\ isAlive' \in [Player -> BOOLEAN]
              /\ avatars' \in [Player -> Nat]
            BY <2>3, <2>5, <3>1
        <3>3. hasFreeSpace' \in BOOLEAN
            BY <2>5 DEF FreeSpace
        <3>4. players' \in [Id -> PlayerPtr] /\ idOf' \in [Player -> IdPtr]
            BY <2>1, <2>5, <3>1 DEF PlayerPtr, IdPtr
        <3>5. armed' \in [Player -> BOOLEAN]
            BY <2>5, <3>1
        <3> QED
            BY <1>4, <3>2, <3>3, <3>4, <3>5 DEF DoPlay
    <2>6. CASE strand' = Tail(strand) /\ UNCHANGED <<players, idOf, hasFreeSpace, links,
                                                     isAlive, avatars, armed>>
        BY <1>4, <2>1, <2>6 DEF DoPlay
    <2> QED
        BY <1>4, <2>4, <2>5, <2>6 DEF DoPlay
<1> QED
    BY <1>1, <1>2, <1>3, <1>4

\* Annihilate() lists the avatars of a player as a function.
LEMMA FunctionIsSeq ==
    ASSUME NEW S, NEW n \in Nat, NEW f \in [1..n -> S]
    PROVE  f \in Seq(S) /\ Len(f) = n
OBVIOUS

\* Timers, and the end of the interactions.
LEMMA TimersKeepTypes ==
    ASSUME RoomAssumption, TypeOK, Timers \/ EndInteractions
    PROVE  TypeOK'
<1> USE DEF TypeOK, appVars, roomVars, boardVars, cellVars, playerVars
<1>1. CASE BeginUpdate
    <2>1. avatars' \in [Player -> 0..(2 * MaxAvatars)]
        BY <1>1 DEF BeginUpdate
    <2>2. avatars' \in [Player -> Nat]
        BY <2>1 DEF RoomAssumption
    <2> QED
        BY <1>1, <2>2 DEF BeginUpdate
<1>2. CASE Synchronize
    BY <1>2 DEF Synchronize
<1>3. CASE UpdateLeaderboard
    BY <1>3 DEF UpdateLeaderboard, PlayerPtr
<1>4. ASSUME NEW p \in Player, Annihilate(p)
      PROVE  TypeOK'
    <2>1. strand' \in Seq(Job)
        <3>1. Notice("annihilated", p) \in Job
            BY DEF Notice, Job
        <3> QED
            BY <1>4, <3>1, PostOne, AppendProperties DEF Annihilate, Post
    <2>2. deaths' \in Seq(Killed)
        <3> DEFINE d == [k \in 1..avatars[p] |-> [owner |-> p, listed |-> FALSE]]
        <3>1. d \in Seq(Killed)
            <4>1. avatars[p] \in Nat /\ [owner |-> p, listed |-> FALSE] \in Killed
                BY DEF Killed
            <4>2. d \in [1..avatars[p] -> Killed]
                BY <4>1
            <4> HIDE DEF d
            <4> QED
                BY <4>1, <4>2, FunctionIsSeq
        <3> QED
            BY <1>4, <3>1, ConcatProperties DEF Annihilate
    <2> QED
        BY <1>4, <2>1, <2>2 DEF Annihilate
<1>5. CASE EndInteractions
    BY <1>5 DEF EndInteractions
<1> QED
    BY <1>1, <1>2, <1>3, <1>4, <1>5 DEF Timers

\* A player holds finitely many avatars.
LEMMA HeldIsNat ==
    ASSUME TypeOK, NEW p \in Player
    PROVE  /\ IsFiniteSet(ListedDeaths(p))
           /\ Cardinality(ListedDeaths(p)) \in Nat
           /\ Held(p) \in Nat
<1>1. DOMAIN deaths = 1..Len(deaths) /\ Len(deaths) \in Nat
    BY LenProperties DEF TypeOK
<1>2. IsFiniteSet(ListedDeaths(p))
    <2>1. ListedDeaths(p) \in SUBSET (1..Len(deaths))
        BY <1>1 DEF ListedDeaths
    <2>2. IsFiniteSet(1..Len(deaths))
        BY <1>1, FS_Interval
    <2> QED
        BY <2>1, <2>2, FS_Subset
<1>3. Cardinality(ListedDeaths(p)) \in Nat
    BY <1>2, FS_CardinalityType
<1> QED
    BY <1>2, <1>3 DEF Held, TypeOK

\* The interactions of update(), and the deaths they lead to.
LEMMA UpdateKeepsTypes ==
    ASSUME RoomAssumption, TypeOK, DeathsInv, links' \in Links, Interactions \/ RemoveAvatar
    PROVE  TypeOK'
<1> USE DEF TypeOK, appVars, roomVars, boardVars, cellVars, playerVars
<1>1. \A q \in Player : Append(deaths, [owner |-> q, listed |-> TRUE]) \in Seq(Killed)
    BY AppendProperties DEF Killed
<1>2. ASSUME NEW p \in Player, NEW q \in Player, Eat(p, q)
      PROVE  TypeOK'
    <2>1. avatars[q] > 0
        BY <1>2 DEF Eat
    <2>2. avatars' \in [Player -> Nat]
        BY <1>2, <2>1, CountDown DEF Eat
    <2> QED
        BY <1>1, <1>2, <2>2 DEF Eat, PlayerPtr
<1>3. ASSUME NEW q \in Player, EatenByMother(q)
      PROVE  TypeOK'
    <2>1. avatars' \in [Player -> Nat]
        BY <1>3, CountDown DEF EatenByMother
    <2> QED
        BY <1>1, <1>3, <2>1 DEF EatenByMother
<1>4. ASSUME NEW p \in Player, Explode(p)
      PROVE  TypeOK'
    <2>1. PICK parts \in 1..(MaxAvatars - Held(p)) :
              avatars' = [avatars EXCEPT ![p] = @ + parts]
        BY <1>4 DEF Explode
    <2>2. parts \in Nat
        BY HeldIsNat DEF RoomAssumption
    <2>3. avatars' \in [Player -> Nat]
        BY <2>1, <2>2, CountUp
    <2> QED
        BY <1>4, <2>3 DEF Explode
<1>5. CASE RemoveAvatar
    <2> DEFINE p == Head(deaths).owner
    <2>1. deaths # <<>>
        BY <1>5 DEF RemoveAvatar, DeathsInv
    <2>2. p \in Player /\ Tail(deaths) \in Seq(Killed)
        <3>1. Head(deaths) \in Killed /\ Tail(deaths) \in Seq(Killed)
            BY <2>1, HeadTailProperties
        <3> QED
            BY <3>1 DEF Killed
    <2>3. CASE Die(p)
        <3>1. strand' = Append(strand, Notice("died", p))
            BY <2>2, <2>3, PostOne DEF Die, Post, Notice, Job
        <3>2. strand' \in Seq(Job)
            BY <2>2, <3>1, AppendProperties DEF Notice, Job
        <3> QED
            BY <1>5, <2>2, <2>3, <3>2 DEF RemoveAvatar, Die
    <2>4. CASE UNCHANGED <<isAlive, strand, links>>
        BY <1>5, <2>2, <2>4 DEF RemoveAvatar
    <2> QED
        BY <1>5, <2>3, <2>4 DEF RemoveAvatar
<1> QED
    BY <1>2, <1>3, <1>4, <1>5 DEF Interactions

-----------------------------------------------------------------------------
\* The order of the jobs.

\* A job that only tells the room something about a player.
IsNotice(j) == j \in Job /\ j.op \in {"respawned", "died", "annihilated"}

\* No session is tied to anything by a notice.
LEMMA NoticeIsAboutNobody ==
    ASSUME NEW j, IsNotice(j)
    PROVE  /\ j \in Job
           /\ j.op # "join"
           /\ j.op # "play"
           /\ \A s \in Session : ~About(j, s)
BY DEF IsNotice, About

\* The same of the strand.
LEMMA StrandAppend ==
    ASSUME strand \in Seq(Job), JoinsFirst(strand), PlaysKnown(strand, Known),
           NEW j \in Job,
           j.op = "join" => j.sess \notin Mentioned(strand),
           j.op = "play" => j.sess \in Known \cup Joins(strand),
           strand' = Append(strand, j)
    PROVE  /\ JoinsFirst(strand')
           /\ PlaysKnown(strand', Known)
           /\ Mentioned(strand') = Mentioned(strand) \cup {s \in Session : About(j, s)}
           /\ Joins(strand') =
                 Joins(strand) \cup {s \in Session : j.op = "join" /\ j.sess = s}
<1> DEFINE r == Append(strand, j)
<1>1. /\ JoinsFirst(r)
      /\ PlaysKnown(r, Known)
      /\ Mentioned(r) = Mentioned(strand) \cup {s \in Session : About(j, s)}
      /\ Joins(r) = Joins(strand) \cup {s \in Session : j.op = "join" /\ j.sess = s}
    BY QueueAppend
<1>2. strand' = r
    OBVIOUS
<1> QED
    BY <1>1, <1>2

\* A step that posts a notice or nothing.
LEMMA NothingHandled ==
    ASSUME TypeOK, JobInv,
           \/ strand' = strand
           \/ \E j : IsNotice(j) /\ strand' = Append(strand, j),
           UNCHANGED <<conn, room, user, playerId, inRoom>>,
           \A t \in Session : Unlinked(links, t) => Unlinked(links', t)
    PROVE  JobInv'
<1>1. Known' = Known
    BY DEF Known
<1>2. /\ JoinsFirst(strand')
      /\ PlaysKnown(strand', Known)
      /\ Mentioned(strand') = Mentioned(strand)
      /\ Joins(strand') = Joins(strand)
    <2>1. CASE strand' = strand
        BY <2>1 DEF JobInv
    <2>2. ASSUME NEW j, IsNotice(j), strand' = Append(strand, j)
          PROVE  /\ JoinsFirst(strand')
                 /\ PlaysKnown(strand', Known)
                 /\ Mentioned(strand') = Mentioned(strand)
                 /\ Joins(strand') = Joins(strand)
        <3>0. strand \in Seq(Job) /\ JoinsFirst(strand) /\ PlaysKnown(strand, Known)
            BY DEF TypeOK, JobInv
        <3>1. /\ JoinsFirst(strand')
              /\ PlaysKnown(strand', Known)
              /\ Mentioned(strand') = Mentioned(strand) \cup {s \in Session : About(j, s)}
              /\ Joins(strand') =
                    Joins(strand) \cup {s \in Session : j.op = "join" /\ j.sess = s}
            <4>1. j \in Job /\ j.op # "join" /\ j.op # "play"
                BY <2>2, NoticeIsAboutNobody
            <4>2. strand' = Append(strand, j)
                BY <2>2
            <4> HIDE <2>2
            <4> QED
                BY <3>0, <4>1, <4>2, StrandAppend
        <3>2. {s \in Session : About(j, s)} = {}
            BY <2>2, NoticeIsAboutNobody
        <3>3. {s \in Session : j.op = "join" /\ j.sess = s} = {}
            BY <2>2, NoticeIsAboutNobody
        <3> QED
            BY <3>1, <3>2, <3>3
    <2> QED
        BY <2>1, <2>2
<1>3. \A s \in Joins(strand') : s \in Session /\ Unlinked(links', s)
    BY <1>2 DEF JobInv, Joins
<1>4. \A s \in Session :
          conn'[s] \in {"fresh", "taking", "entering"} =>
              ~room'[s] /\ Unlinked(links', s) /\ s \notin Mentioned(strand')
    BY <1>2 DEF JobInv
<1>5. \A s \in Session : conn'[s] = "open" => s \in Known' \cup Joins(strand')
    BY <1>1, <1>2 DEF JobInv
<1>6. \A s \in Session : conn'[s] \in {"taking", "entering"} => user'[s] \in Id
    BY DEF JobInv
<1>7. inRoom' \subseteq Known'
    BY <1>1 DEF JobInv
<1> QED
    BY <1>1, <1>2, <1>3, <1>4, <1>5, <1>6, <1>7 DEF JobInv

\* A step that handles the job at the front of the strand.
LEMMA FrontHandled ==
    ASSUME TypeOK, JobInv, strand # <<>>,
           \/ strand' = Tail(strand)
           \/ \E j : IsNotice(j) /\ strand' = Append(Tail(strand), j),
           UNCHANGED <<conn, room, user>>,
           Known \subseteq Known',
           inRoom' \subseteq Known',
           Head(strand).op = "join" => Head(strand).sess \in Known',
           \A t \in Session :
              Unlinked(links, t) /\ ~About(Head(strand), t) => Unlinked(links', t)
    PROVE  JobInv'
<1> DEFINE r == Tail(strand)
<1>1. /\ r \in Seq(Job)
      /\ JoinsFirst(r)
      /\ PlaysKnown(r, Known')
      /\ Mentioned(r) \subseteq Mentioned(strand)
      /\ Joins(r) \subseteq Joins(strand)
      /\ \A s \in Joins(strand) :
            s \in Joins(r) \/ (Head(strand).op = "join" /\ Head(strand).sess = s)
      /\ \A s \in Joins(r) : ~About(Head(strand), s)
    BY QueueTail DEF TypeOK, JobInv
<1>2. \A s \in Session : About(Head(strand), s) => s \in Mentioned(strand)
    <2>1. Head(strand) = strand[1] /\ 1 \in 1..Len(strand)
        BY EmptySeq DEF TypeOK
    <2> QED
        BY <2>1 DEF Mentioned
<1> HIDE DEF r
<1>3. /\ JoinsFirst(strand')
      /\ PlaysKnown(strand', Known')
      /\ Mentioned(strand') = Mentioned(r)
      /\ Joins(strand') = Joins(r)
    <2>1. CASE strand' = r
        BY <1>1, <2>1
    <2>2. ASSUME NEW j, IsNotice(j), strand' = Append(r, j)
          PROVE  /\ JoinsFirst(strand')
                 /\ PlaysKnown(strand', Known')
                 /\ Mentioned(strand') = Mentioned(r)
                 /\ Joins(strand') = Joins(r)
        <3>1. /\ JoinsFirst(strand')
              /\ PlaysKnown(strand', Known')
              /\ Mentioned(strand') = Mentioned(r) \cup {s \in Session : About(j, s)}
              /\ Joins(strand') =
                    Joins(r) \cup {s \in Session : j.op = "join" /\ j.sess = s}
            BY <1>1, <2>2, NoticeIsAboutNobody, QueueAppend
        <3>2. {s \in Session : About(j, s)} = {}
            BY <2>2, NoticeIsAboutNobody
        <3>3. {s \in Session : j.op = "join" /\ j.sess = s} = {}
            BY <2>2, NoticeIsAboutNobody
        <3> QED
            BY <3>1, <3>2, <3>3
    <2> QED
        BY <2>1, <2>2 DEF r
<1>4. \A s \in Joins(strand') : s \in Session /\ Unlinked(links', s)
    BY <1>1, <1>3 DEF JobInv, Joins
<1>5. \A s \in Session :
          conn'[s] \in {"fresh", "taking", "entering"} =>
              ~room'[s] /\ Unlinked(links', s) /\ s \notin Mentioned(strand')
    BY <1>1, <1>2, <1>3 DEF JobInv
<1>6. \A s \in Session : conn'[s] = "open" => s \in Known' \cup Joins(strand')
    BY <1>1, <1>3 DEF JobInv
<1>7. \A s \in Session : conn'[s] \in {"taking", "entering"} => user'[s] \in Id
    BY DEF JobInv
<1> QED
    BY <1>3, <1>4, <1>5, <1>6, <1>7 DEF JobInv

-----------------------------------------------------------------------------
\* The invariant, action by action.

\* A session enters its room with the job that joins it, posts commands only
\* after that, and leaves when it is closed.
LEMMA ConnectionsKeepIInv ==
    ASSUME LinksAssumption, RoomAssumption, IInv, Connections
    PROVE  IInv'
<1>1. TypeOK'
    BY ConnectionsKeepTypes DEF IInv
<1>2. UNCHANGED <<links, players, idOf, playerId, inRoom, phase, deaths>>
    BY DEF Connections, Greet, EnterRoom, Command, Disconnect, roomVars, cellVars, playerVars
<1>3. DeathsInv' /\ LinksAreConsistent' /\ OwnInv' /\ Known' = Known
    BY <1>2 DEF IInv, DeathsInv, LinksAreConsistent, OwnInv, Known
<1>4. strand \in Seq(Job) /\ JoinsFirst(strand) /\ PlaysKnown(strand, Known)
    BY DEF IInv, TypeOK, JobInv
<1>5. PICK s \in Session :
          \/ \E i \in Id : Greet(s, i)
          \/ EnterRoom(s)
          \/ Command(s)
          \/ Disconnect(s)
    BY DEF Connections
<1>6. ASSUME strand' = strand,
             conn'[s] \in {"taking", "entering"} => conn[s] = "fresh" /\ user'[s] \in Id,
             conn'[s] \in {"fresh", "taking", "entering"} => conn[s] = "fresh",
             conn'[s] # "open",
             room'[s] => room[s],
             \A t \in Session : t # s => conn'[t] = conn[t] /\ user'[t] = user[t]
                                          /\ room'[t] = room[t]
      PROVE  JobInv'
    BY <1>2, <1>3, <1>6 DEF IInv, JobInv
<1>7. ASSUME NEW j \in Job, strand' = strand \o <<j>>,
             j.op = "join" => j.sess \notin Mentioned(strand) /\ Unlinked(links, j.sess),
             j.op = "play" => j.sess \in Known \cup Joins(strand),
             \A t \in Session :
                /\ conn'[t] \in {"taking", "entering"} => user'[t] \in Id
                /\ conn'[t] \in {"fresh", "taking", "entering"} =>
                      /\ conn[t] \in {"fresh", "taking", "entering"}
                      /\ ~room'[t]
                      /\ ~About(j, t)
                /\ conn'[t] = "open" => conn[t] = "open" \/ (j.op = "join" /\ j.sess = t)
      PROVE  JobInv'
    <2>1. /\ JoinsFirst(strand')
          /\ PlaysKnown(strand', Known)
          /\ Mentioned(strand') = Mentioned(strand) \cup {t \in Session : About(j, t)}
          /\ Joins(strand') = Joins(strand) \cup {t \in Session : j.op = "join" /\ j.sess = t}
        <3>1. strand' = Append(strand, j)
            BY <1>7, PostOne DEF IInv
        <3>2. /\ j.op = "join" => j.sess \notin Mentioned(strand)
              /\ j.op = "play" => j.sess \in Known \cup Joins(strand)
            BY <1>7
        <3> QED
            BY <1>4, <1>7, <3>1, <3>2, StrandAppend
    <2>2. \A t \in Joins(strand') : Unlinked(links', t)
        BY <1>2, <1>7, <2>1 DEF IInv, JobInv
    <2>3. \A t \in Session :
              conn'[t] \in {"fresh", "taking", "entering"} =>
                  ~room'[t] /\ Unlinked(links', t) /\ t \notin Mentioned(strand')
        BY <1>2, <1>7, <2>1 DEF IInv, JobInv
    <2>4. \A t \in Session : conn'[t] = "open" => t \in Known' \cup Joins(strand')
        BY <1>3, <1>7, <2>1 DEF IInv, JobInv
    <2>5. \A t \in Session : conn'[t] \in {"taking", "entering"} => user'[t] \in Id
        BY <1>7
    <2>6. inRoom' \subseteq Known'
        BY <1>2, <1>3 DEF IInv, JobInv
    <2> QED
        BY <1>3, <2>1, <2>2, <2>3, <2>4, <2>5, <2>6 DEF JobInv
<1>8. \A op \in {"leave", "play", "split"}, r \in Session :
          /\ SessionJob(op, r) \in Job
          /\ SessionJob(op, r).op = op
          /\ SessionJob(op, r).sess = r
          /\ \A t \in Session : About(SessionJob(op, r), t) => t = r
    BY DEF SessionJob, Job, About
<1>9. \A i \in Id, r \in Session :
          /\ JoinJob(r, i) \in Job
          /\ JoinJob(r, i).op = "join"
          /\ JoinJob(r, i).sess = r
          /\ \A t \in Session : About(JoinJob(r, i), t) => t = r
          /\ SpectateJob(r, i) \in Job
          /\ SpectateJob(r, i).op = "spectate"
          /\ \A t \in Session : About(SpectateJob(r, i), t) => t = r
    BY DEF JoinJob, SpectateJob, Job, About
<1>10. ASSUME NEW i \in Id, Greet(s, i)
       PROVE  JobInv'
    <2>1. conn[s] = "fresh" /\ room' = room
        BY <1>10 DEF Greet
    <2>2. /\ conn'[s] \in {"taking", "entering"}
          /\ user'[s] = i
          /\ \A t \in Session : t # s => conn'[t] = conn[t] /\ user'[t] = user[t]
        BY <1>10 DEF Greet, IInv, TypeOK
    <2>3. CASE holder[i] # NoSession /\ room[holder[i]]
        <3> DEFINE prev == holder[i]
        <3>1. prev \in Session /\ strand' = strand \o <<SessionJob("leave", prev)>>
            BY <1>10, <2>3 DEF Greet, Post, IInv, TypeOK, SessionPtr
        <3>2. conn[prev] \notin {"fresh", "taking", "entering"}
            BY <2>3, <3>1 DEF IInv, JobInv
        <3> QED
            BY <1>7, <1>8, <2>1, <2>2, <3>1, <3>2 DEF IInv, JobInv
    <2>4. CASE ~(holder[i] # NoSession /\ room[holder[i]])
        <3>1. strand' = strand
            BY <1>10, <2>4, PostNone DEF Greet, Post, IInv
        <3> QED
            BY <1>6, <2>1, <2>2, <3>1
    <2> QED
        BY <2>3, <2>4
<1>11. ASSUME EnterRoom(s)
       PROVE  JobInv'
    <2>1. /\ conn[s] \in {"taking", "entering"}
          /\ conn'[s] = "open"
          /\ user' = user
          /\ \A t \in Session : t # s => conn'[t] = conn[t] /\ room'[t] = room[t]
        BY <1>11 DEF EnterRoom, IInv, TypeOK
    <2>2. /\ user[s] \in Id
          /\ Unlinked(links, s)
          /\ s \notin Mentioned(strand)
        BY <2>1 DEF IInv, JobInv
    <2>3. strand' = strand \o <<JoinJob(s, user[s])>>
        BY <1>11 DEF EnterRoom, Post
    <2>4. \A t \in Session :
              /\ conn'[t] \in {"taking", "entering"} => user'[t] \in Id
              /\ conn'[t] \in {"fresh", "taking", "entering"} =>
                    /\ conn[t] \in {"fresh", "taking", "entering"}
                    /\ ~room'[t]
                    /\ ~About(JoinJob(s, user[s]), t)
              /\ conn'[t] = "open" => conn[t] = "open" \/ (JoinJob(s, user[s]).op = "join" /\ JoinJob(s, user[s]).sess = t)
        BY <1>9, <2>1, <2>2 DEF IInv, JobInv
    <2> QED
        BY <1>7, <1>9, <2>2, <2>3, <2>4
<1>12. ASSUME Command(s)
       PROVE  JobInv'
    <2>1. conn[s] = "open" /\ UNCHANGED <<conn, user, room>>
        BY <1>12 DEF Command
    <2>2. s \in Known \cup Joins(strand)
        BY <2>1 DEF IInv, JobInv
    <2>3. PICK j \in Job : /\ strand' = strand \o <<j>>
                           /\ j.op # "join"
                           /\ j.op = "play" => j.sess = s
                           /\ \A t \in Session : About(j, t) => t = s
        <3>1. CASE strand' = strand \o <<SessionJob("play", s)>>
            BY <1>8, <3>1
        <3>2. CASE strand' = strand \o <<SessionJob("split", s)>>
            BY <1>8, <3>2
        <3>3. ASSUME NEW i \in Id, strand' = strand \o <<SpectateJob(s, i)>>
              PROVE  \E j \in Job : /\ strand' = strand \o <<j>>
                                    /\ j.op # "join"
                                    /\ j.op = "play" => j.sess = s
                                    /\ \A t \in Session : About(j, t) => t = s
            <4>1. /\ SpectateJob(s, i) \in Job
                  /\ SpectateJob(s, i).op # "join"
                  /\ SpectateJob(s, i).op # "play"
                  /\ \A t \in Session : About(SpectateJob(s, i), t) => t = s
                BY <1>9
            <4>2. strand' = strand \o <<SpectateJob(s, i)>>
                BY <3>3
            <4> QED
                BY <4>1, <4>2
        <3>4. \/ strand' = strand \o <<SessionJob("play", s)>>
              \/ strand' = strand \o <<SessionJob("split", s)>>
              \/ \E i \in Id : strand' = strand \o <<SpectateJob(s, i)>>
            BY <1>12 DEF Command, Post
        <3> QED
            BY <3>1, <3>2, <3>3, <3>4
    <2>4. \A t \in Session :
              /\ conn'[t] \in {"taking", "entering"} => user'[t] \in Id
              /\ conn'[t] \in {"fresh", "taking", "entering"} =>
                    /\ conn[t] \in {"fresh", "taking", "entering"}
                    /\ ~room'[t]
                    /\ ~About(j, t)
              /\ conn'[t] = "open" => conn[t] = "open" \/ (j.op = "join" /\ j.sess = t)
        BY <2>1, <2>3 DEF IInv, JobInv
    <2> QED
        BY <1>7, <2>2, <2>3, <2>4
<1>13. ASSUME Disconnect(s)
       PROVE  JobInv'
    <2>1. /\ conn'[s] = "gone"
          /\ ~room'[s]
          /\ \A t \in Session : t # s => conn'[t] = conn[t] /\ user'[t] = user[t]
                                         /\ room'[t] = room[t]
        BY <1>13 DEF Disconnect, IInv, TypeOK
    <2>2. CASE room[s]
        <3>1. strand' = strand \o <<SessionJob("leave", s)>>
            BY <1>13, <2>2 DEF Disconnect, Post
        <3>2. \A t \in Session :
                  /\ conn'[t] \in {"taking", "entering"} => user'[t] \in Id
                  /\ conn'[t] \in {"fresh", "taking", "entering"} =>
                        /\ conn[t] \in {"fresh", "taking", "entering"}
                        /\ ~room'[t]
                        /\ ~About(SessionJob("leave", s), t)
                  /\ conn'[t] = "open" => conn[t] = "open" \/ (SessionJob("leave", s).op = "join" /\ SessionJob("leave", s).sess = t)
            BY <1>8, <2>1 DEF IInv, JobInv
        <3> QED
            BY <1>7, <1>8, <3>1, <3>2
    <2>3. CASE ~room[s]
        <3>1. strand' = strand
            BY <1>13, <2>3, PostNone DEF Disconnect, Post, IInv
        <3> QED
            BY <1>6, <2>1, <3>1
    <2> QED
        BY <2>2, <2>3
<1> QED
    BY <1>1, <1>3, <1>5, <1>10, <1>11, <1>12, <1>13 DEF IInv

\* The notices of players are about no session, and only annihilation takes a
\* player from the room.
LEMMA NoticesKeepIInv ==
    ASSUME LinksAssumption, RoomAssumption, IInv,
           OnPlayerRespawn \/ OnPlayerDeath \/ OnPlayerAnnihilates \/ DoSplit
    PROVE  IInv'
<1> USE DEF appVars, roomVars, boardVars, cellVars, playerVars
<1>1. TypeOK'
    BY NoticesKeepTypes DEF IInv
<1>2. UNCHANGED <<links, idOf, playerId, inRoom, phase, deaths, conn, room, user>>
    BY DEF OnPlayerRespawn, OnPlayerDeath, OnPlayerAnnihilates, DoSplit
<1>3. DeathsInv' /\ LinksAreConsistent' /\ Known' = Known
    BY <1>2 DEF IInv, DeathsInv, LinksAreConsistent, Known
<1>4. strand # <<>> /\ strand' = Tail(strand) /\ Head(strand).op # "join"
    BY DEF OnPlayerRespawn, OnPlayerDeath, OnPlayerAnnihilates, DoSplit, Handle
<1>5. JobInv'
    BY <1>2, <1>3, <1>4, FrontHandled DEF IInv, JobInv
<1>6. \A i \in Id : players'[i] \in {players[i], NoPlayer}
    BY DEF OnPlayerRespawn, OnPlayerDeath, OnPlayerAnnihilates, DoSplit, IInv, TypeOK
<1>7. OwnInv'
    BY <1>2, <1>3, <1>6 DEF IInv, OwnInv
<1> QED
    BY <1>1, <1>3, <1>5, <1>7 DEF IInv

\* Timers and what happens on the field tie no session to a player.
LEMMA FieldKeepsIInv ==
    ASSUME LinksAssumption, RoomAssumption, IInv,
           Timers \/ EndInteractions \/ Interactions
    PROVE  IInv'
<1> USE DEF appVars, roomVars, boardVars, cellVars, playerVars
<1>1. /\ UNCHANGED <<links, idOf, players, playerId, inRoom, conn, room, user>>
      /\ phase' # "death" \/ (phase' = phase /\ deaths' = deaths) \/ deaths' # <<>>
    BY DEF Timers, EndInteractions, Interactions, BeginUpdate, Synchronize, UpdateLeaderboard,
           Annihilate, Eat, EatenByMother, Explode
<1>2. TypeOK'
    <2>1. links' \in Links
        BY <1>1 DEF IInv, TypeOK
    <2> QED
        BY <2>1, TimersKeepTypes, UpdateKeepsTypes DEF IInv
<1>3. DeathsInv' /\ LinksAreConsistent' /\ OwnInv' /\ Known' = Known
    BY <1>1 DEF IInv, DeathsInv, LinksAreConsistent, OwnInv, Known
<1>4. strand' = strand \/ \E j : IsNotice(j) /\ strand' = Append(strand, j)
    <2>1. ASSUME NEW p \in Player, Annihilate(p)
          PROVE  \E j : IsNotice(j) /\ strand' = Append(strand, j)
        <3>1. IsNotice(Notice("annihilated", p))
            BY DEF IsNotice, Notice, Job
        <3>2. strand' = Append(strand, Notice("annihilated", p))
            BY <2>1, <3>1, PostOne DEF Annihilate, Post, IInv, IsNotice
        <3> QED
            BY <3>1, <3>2
    <2> QED
        BY <2>1 DEF Timers, EndInteractions, Interactions, BeginUpdate, Synchronize,
                    UpdateLeaderboard, Eat, EatenByMother, Explode
<1>5. JobInv'
    BY <1>1, <1>4, NothingHandled DEF IInv
<1> QED
    BY <1>2, <1>3, <1>5 DEF IInv

\* What a handler does to the links must not touch the sessions it is not about.
OthersKeep(s) ==
    \A t \in Session : t # s =>
        /\ links'.player[t] \in {links.player[t], NoPlayer}
        /\ links'.observable[t] = links.observable[t]

\* Handlers about one session: their parts of the invariant that are alike.
LEMMA HandlersAreAlike ==
    ASSUME LinksAssumption, RoomAssumption, IInv, NEW op, Handle(op),
           op \in {"join", "leave", "play", "spectate"},
           \/ strand' = Tail(strand)
           \/ \E j : IsNotice(j) /\ strand' = Append(Tail(strand), j),
           UNCHANGED <<conn, room, user, phase, deaths>>,
           Known \subseteq Known',
           inRoom' \subseteq Known',
           op = "join" => Head(strand).sess \in Known',
           links' \in Links, LinksConsistent(links'),
           OthersKeep(Head(strand).sess),
           TypeOK', OwnInv'
    PROVE  IInv' /\ OthersKeep(Head(strand).sess)
<1>1. strand # <<>> /\ Head(strand).op = op /\ Head(strand).sess \in Session
    BY HandledJob DEF IInv
<1>2. \A t \in Session : Unlinked(links, t) /\ ~About(Head(strand), t) => Unlinked(links', t)
    <2> SUFFICES ASSUME NEW t \in Session, Unlinked(links, t), ~About(Head(strand), t)
                 PROVE  Unlinked(links', t)
        OBVIOUS
    <2>1. t # Head(strand).sess
        BY <1>1 DEF About
    <2> QED
        BY <2>1 DEF OthersKeep, Unlinked
<1>3. JobInv'
    BY <1>1, <1>2, FrontHandled DEF IInv
<1> QED
    BY <1>3 DEF IInv, DeathsInv, LinksAreConsistent

\* doJoin() finds the session without links, so it may become a main session.
LEMMA DoJoinKeepsIInv ==
    ASSUME LinksAssumption, RoomAssumption, IInv, DoJoin
    PROVE  IInv' /\ OthersKeep(Head(strand).sess)
<1> DEFINE s == Head(strand).sess
           i == Head(strand).id
           p == players[i]
<1>1. /\ Handle("join")
      /\ strand' = Tail(strand)
      /\ inRoom' = inRoom \cup {s}
      /\ UNCHANGED <<conn, room, user, phase, deaths, players, idOf>>
    BY DEF DoJoin, appVars, cellVars, playerVars
<1>2. strand # <<>> /\ s \in Session /\ i \in Id /\ Head(strand).op = "join"
    BY <1>1, HandledJob DEF IInv
<1>3. s \in Joins(strand) /\ Unlinked(links, s)
    <2>1. Head(strand) = strand[1] /\ 1 \in 1..Len(strand)
        BY <1>2, EmptySeq DEF IInv, TypeOK
    <2> QED
        BY <1>2, <2>1 DEF Joins, IInv, JobInv
<1>4. /\ playerId \in [Session -> IdPtr] /\ links \in Links /\ LinksConsistent(links)
      /\ p \in PlayerPtr
    BY <1>2 DEF IInv, TypeOK, LinksAreConsistent
<1>5. CASE s \in inRoom
    <2>1. UNCHANGED <<playerId, links>>
        BY <1>5 DEF DoJoin
    <2>2. Known' = Known /\ inRoom' \subseteq Known' /\ s \in Known'
        BY <1>1, <1>5, <2>1 DEF Known, IInv, JobInv
    <2>3. OwnInv'
        BY <1>1, <2>1, <2>2 DEF OwnInv, IInv
    <2>4. TypeOK'
        BY <1>4, <1>2, <2>1, SessionJobsKeepTypes DEF IInv
    <2>5. OthersKeep(s)
        BY <2>1 DEF OthersKeep
    <2> QED
        BY <1>1, <1>4, <2>1, <2>2, <2>3, <2>4, <2>5, HandlersAreAlike
<1>6. CASE s \notin inRoom
    <2>1. /\ playerId' = [playerId EXCEPT ![s] = i]
          /\ links' = IF p = NoPlayer THEN links ELSE SetMainSession(links, p, s)
        BY <1>6 DEF DoJoin
    <2>2. Known \subseteq Known' /\ s \in Known' /\ inRoom' \subseteq Known'
        BY <1>1, <1>2, <1>4, <2>1 DEF Known, IInv, JobInv
    <2>3. /\ links' \in Links
          /\ LinksConsistent(links')
          /\ OthersKeep(s)
          /\ links'.player[s] = p
        <3>1. CASE p = NoPlayer
            BY <1>3, <1>4, <2>1, <3>1 DEF OthersKeep, Unlinked
        <3>2. CASE p # NoPlayer
            <4>1. p \in Player /\ links' = SetMainSession(links, p, s)
                BY <1>4, <2>1, <3>2 DEF PlayerPtr
            <4>2. links.observable[s] = NoPlayer /\ links.player[s] \in {NoPlayer, p}
                BY <1>3 DEF Unlinked
            <4> HIDE DEF p
            <4>3. /\ links' \in Links
                  /\ LinksConsistent(links')
                  /\ links'.observable = links.observable
                  /\ links'.player[s] = p
                  /\ \A t \in Session : t # s => links'.player[t] \in {links.player[t], NoPlayer}
                BY <1>2, <1>4, <4>1, <4>2, SetMainSessionConsistent
            <4> QED
                BY <4>3 DEF OthersKeep
        <3> QED
            BY <3>1, <3>2
    <2>4. OwnInv'
        <3>1. \A t \in Session : links'.player[t] # NoPlayer =>
                  t \in Known' /\ idOf'[links'.player[t]] = playerId'[t]
            <4> SUFFICES ASSUME NEW t \in Session, links'.player[t] # NoPlayer
                         PROVE  t \in Known' /\ idOf'[links'.player[t]] = playerId'[t]
                OBVIOUS
            <4>1. CASE t = s
                BY <1>1, <1>2, <1>4, <2>1, <2>2, <2>3, <4>1 DEF IInv, OwnInv
            <4>2. CASE t # s
                BY <1>1, <1>4, <2>1, <2>2, <2>3, <4>2 DEF IInv, OwnInv, OthersKeep
            <4> QED
                BY <4>1, <4>2
        <3> QED
            BY <1>1, <3>1 DEF IInv, OwnInv
    <2>5. TypeOK'
        BY <1>2, <2>3, SessionJobsKeepTypes DEF IInv
    <2> QED
        BY <1>1, <2>2, <2>3, <2>4, <2>5, HandlersAreAlike
<1> QED
    BY <1>5, <1>6

\* doLeave() only takes links away.
LEMMA DoLeaveKeepsIInv ==
    ASSUME LinksAssumption, RoomAssumption, IInv, DoLeave
    PROVE  IInv' /\ OthersKeep(Head(strand).sess)
<1> DEFINE s == Head(strand).sess
<1>1. /\ Handle("leave")
      /\ strand' = Tail(strand)
      /\ inRoom' \subseteq inRoom
      /\ UNCHANGED <<conn, room, user, phase, deaths, players, idOf, playerId>>
    BY DEF DoLeave, appVars, cellVars, playerVars
<1>2. s \in Session /\ Head(strand).op = "leave"
    BY <1>1, HandledJob DEF IInv
<1>3. Known' = Known /\ inRoom' \subseteq Known'
    BY <1>1 DEF Known, IInv, JobInv
<1>4. links \in Links /\ LinksConsistent(links)
    BY DEF IInv, TypeOK, LinksAreConsistent
<1>5. /\ links' \in Links
      /\ LinksConsistent(links')
      /\ \A t \in Session : /\ links'.player[t] \in {links.player[t], NoPlayer}
                            /\ t # s => links'.observable[t] = links.observable[t]
    <2>1. CASE s \in inRoom
        <3>1. links' = Forget(links, s)
            BY <2>1 DEF DoLeave
        <3>2. /\ links' \in Links
              /\ LinksConsistent(links')
              /\ links'.observable = [links.observable EXCEPT ![s] = NoPlayer]
              /\ links'.player = [links.player EXCEPT ![s] = NoPlayer]
            BY <1>2, <1>4, <3>1, ForgetConsistent
        <3> QED
            BY <1>4, <3>2 DEF Links
    <2>2. CASE s \notin inRoom
        <3>1. links' = links
            BY <2>2 DEF DoLeave
        <3> QED
            BY <1>4, <3>1
    <2> QED
        BY <2>1, <2>2
<1>6. OthersKeep(s)
    BY <1>5 DEF OthersKeep
<1>7. OwnInv'
    BY <1>1, <1>3, <1>5 DEF IInv, OwnInv
<1>8. TypeOK'
    BY <1>2, <1>5, SessionJobsKeepTypes DEF IInv
<1> QED
    BY <1>1, <1>3, <1>5, <1>6, <1>7, <1>8, HandlersAreAlike

\* doSpectate() ends the play before it starts to watch.
LEMMA DoSpectateKeepsIInv ==
    ASSUME LinksAssumption, RoomAssumption, IInv, DoSpectate
    PROVE  IInv' /\ OthersKeep(Head(strand).sess)
<1> DEFINE s == Head(strand).sess
<1>1. /\ Handle("spectate")
      /\ strand' = Tail(strand)
      /\ UNCHANGED <<conn, room, user, phase, deaths, players, idOf, playerId, inRoom>>
    BY DEF DoSpectate, appVars, roomVars, cellVars, playerVars
<1>2. s \in Session /\ Head(strand).op = "spectate" /\ Head(strand).id \in Id
    BY <1>1, HandledJob DEF IInv
<1>3. Known' = Known /\ inRoom' \subseteq Known'
    BY <1>1 DEF Known, IInv, JobInv
<1>4. links \in Links /\ LinksConsistent(links)
    BY DEF IInv, TypeOK, LinksAreConsistent
<1>5. \A q \in SpectateTarget(Head(strand).id) : q \in Player
    BY <1>2 DEF SpectateTarget, IInv, TypeOK, PlayerPtr
<1>6. /\ links' \in Links
      /\ LinksConsistent(links')
      /\ \A t \in Session : /\ links'.player[t] \in {links.player[t], NoPlayer}
                            /\ t # s => links'.observable[t] = links.observable[t]
    <2>1. CASE links' = links
        BY <1>4, <2>1
    <2>2. ASSUME NEW q \in Player, links' = Observe(links, s, q)
          PROVE  /\ links' \in Links
                 /\ LinksConsistent(links')
                 /\ \A t \in Session :
                        /\ links'.player[t] \in {links.player[t], NoPlayer}
                        /\ t # s => links'.observable[t] = links.observable[t]
        <3>1. /\ links' \in Links
              /\ LinksConsistent(links')
              /\ links'.observable = [links.observable EXCEPT ![s] = q]
              /\ links'.player = [links.player EXCEPT ![s] = NoPlayer]
            BY <1>2, <1>4, <2>2, ObserveConsistent
        <3> QED
            BY <1>4, <3>1 DEF Links
    <2>3. links' = links \/ \E q \in Player : links' = Observe(links, s, q)
        BY <1>5 DEF DoSpectate
    <2> QED
        BY <2>1, <2>2, <2>3
<1>7. OthersKeep(s)
    BY <1>6 DEF OthersKeep
<1>8. OwnInv'
    BY <1>1, <1>3, <1>6 DEF IInv, OwnInv
<1>9. TypeOK'
    BY <1>2, <1>6, SessionJobsKeepTypes DEF IInv
<1> QED
    BY <1>1, <1>3, <1>6, <1>7, <1>8, <1>9, HandlersAreAlike

\* A session that starts to play p leaves its observable and displaces whoever
\* played p before.
LEMMA PlayAsLinks ==
    ASSUME LinksAssumption, links \in Links, LinksConsistent(links),
           NEW s \in Session, NEW p \in Player,
           links.player[s] \in {NoPlayer, p},
           PlayAs(s, p)
    PROVE  /\ links' \in Links
           /\ LinksConsistent(links')
           /\ OthersKeep(s)
           /\ links'.player[s] = p
<1>1. /\ StopObserving(links, s) \in Links
      /\ LinksConsistent(StopObserving(links, s))
      /\ StopObserving(links, s).observable = [links.observable EXCEPT ![s] = NoPlayer]
      /\ StopObserving(links, s).player = links.player
    BY StopObservingConsistent
<1>2. PICK D \in Links : /\ D = StopObserving(links, s)
                         /\ LinksConsistent(D)
                         /\ D.observable = [links.observable EXCEPT ![s] = NoPlayer]
                         /\ D.player = links.player
    BY <1>1
<1>3. links' = SetMainSession(D, p, s)
    BY <1>2 DEF PlayAs
<1>4. D.observable[s] = NoPlayer /\ D.player[s] \in {NoPlayer, p}
    BY <1>2 DEF Links
<1>5. /\ links' \in Links
      /\ LinksConsistent(links')
      /\ links'.observable = D.observable
      /\ links'.player[s] = p
      /\ \A t \in Session : t # s => links'.player[t] \in {D.player[t], NoPlayer}
    <2> HIDE <1>1
    <2>1. LinksConsistent(D)
        BY <1>2
    <2> QED
        BY <1>3, <1>4, <2>1, SetMainSessionConsistent
<1> QED
    BY <1>2, <1>5 DEF OthersKeep, Links

\* doPlay() gives a session the player of its own user, a new one if need be.
LEMMA DoPlayKeepsIInv ==
    ASSUME LinksAssumption, RoomAssumption, IInv, DoPlay
    PROVE  IInv' /\ OthersKeep(Head(strand).sess)
<1> DEFINE s == Head(strand).sess
           known == KnownPlayer(s)
<1>1. /\ Handle("play")
      /\ UNCHANGED <<conn, room, user, phase, deaths, playerId, inRoom>>
    BY DEF DoPlay, appVars
<1>2. s \in Session /\ Head(strand).op = "play" /\ strand # <<>>
    BY <1>1, HandledJob DEF IInv
<1>3. Known' = Known /\ inRoom' \subseteq Known'
    BY <1>1 DEF Known, IInv, JobInv
<1>4. s \in Known /\ playerId[s] \in Id
    <2>1. Head(strand).op = "play" => Head(strand).sess \in Known
        BY <1>2, QueueTail DEF IInv, TypeOK, JobInv
    <2> QED
        BY <1>2, <2>1 DEF Known
<1>5. links \in Links /\ LinksConsistent(links)
    BY DEF IInv, TypeOK, LinksAreConsistent
<1>6. /\ links.player[s] \in {NoPlayer, known}
      /\ known \in PlayerPtr
      /\ known # NoPlayer => idOf[known] = playerId[s]
    <2>1. links.player[s] \in PlayerPtr /\ players[playerId[s]] \in PlayerPtr
        BY <1>2, <1>4, <1>5 DEF IInv, TypeOK, Links
    <2>2. /\ links.player[s] # NoPlayer => idOf[links.player[s]] = playerId[s]
          /\ players[playerId[s]] # NoPlayer => idOf[players[playerId[s]]] = playerId[s]
        BY <1>2, <1>4 DEF IInv, OwnInv
    <2> QED
        BY <2>1, <2>2 DEF KnownPlayer
<1>7. ASSUME NEW p \in Player, PlayAs(s, p)
      PROVE  \/ strand' = Tail(strand)
             \/ \E j : IsNotice(j) /\ strand' = Append(Tail(strand), j)
    <2>1. IsNotice(Notice("respawned", p))
        BY DEF IsNotice, Notice, Job
    <2> QED
        BY <1>7, <2>1 DEF PlayAs
<1> HIDE DEF s, known
<1>8. ASSUME links' \in Links
      PROVE  TypeOK'
    BY <1>2, <1>4, <1>8, SessionJobsKeepTypes DEF IInv, s
<1>9. CASE known # NoPlayer /\ PlayAs(s, known) /\ UNCHANGED <<players, idOf>>
    <2>1. known \in Player
        BY <1>6, <1>9 DEF PlayerPtr
    <2>2. /\ links' \in Links
          /\ LinksConsistent(links')
          /\ OthersKeep(s)
          /\ links'.player[s] = known
        BY <1>2, <1>5, <1>6, <1>9, <2>1, PlayAsLinks
    <2>3. OwnInv'
        <3>1. \A t \in Session : links'.player[t] # NoPlayer =>
                  t \in Known' /\ idOf'[links'.player[t]] = playerId'[t]
            BY <1>1, <1>3, <1>4, <1>6, <1>9, <2>2 DEF IInv, OwnInv, OthersKeep
        <3> QED
            BY <1>9, <3>1 DEF IInv, OwnInv
    <2> QED
        BY <1>1, <1>3, <1>7, <1>8, <1>9, <2>1, <2>2, <2>3, HandlersAreAlike DEF s
<1>10. ASSUME NEW p \in Uncreated, known = NoPlayer, PlayAs(s, p),
              players' = [players EXCEPT ![playerId[s]] = p],
              idOf' = [idOf EXCEPT ![p] = playerId[s]]
       PROVE  IInv' /\ OthersKeep(s)
    <2>1. p \in Player /\ idOf[p] = NoId /\ NoId \notin Id
        BY DEF Uncreated, RoomAssumption
    <2>2. /\ links' \in Links
          /\ LinksConsistent(links')
          /\ OthersKeep(s)
          /\ links'.player[s] = p
        BY <1>2, <1>5, <1>6, <1>10, <2>1, PlayAsLinks
    <2>3. /\ players \in [Id -> PlayerPtr]
          /\ idOf \in [Player -> IdPtr]
          /\ links.player \in [Session -> PlayerPtr]
        BY <1>5 DEF IInv, TypeOK, Links
    <2>4. \A t \in Session : links'.player[t] # NoPlayer =>
              t \in Known' /\ idOf'[links'.player[t]] = playerId'[t]
        <3> SUFFICES ASSUME NEW t \in Session, links'.player[t] # NoPlayer
                     PROVE  t \in Known' /\ idOf'[links'.player[t]] = playerId'[t]
            OBVIOUS
        <3>1. CASE t = s
            BY <1>1, <1>3, <1>4, <1>10, <2>1, <2>2, <2>3, <3>1
        <3>2. CASE t # s
            <4>1. links'.player[t] = links.player[t] /\ links.player[t] \in Player
                BY <2>2, <2>3, <3>2 DEF OthersKeep, PlayerPtr
            <4>2. t \in Known /\ idOf[links.player[t]] = playerId[t]
                BY <4>1 DEF IInv, OwnInv
            <4>3. links.player[t] # p
                BY <2>1, <4>2 DEF Known
            <4> QED
                BY <1>1, <1>3, <1>10, <2>3, <4>1, <4>2, <4>3
        <3> QED
            BY <3>1, <3>2
    <2>5. \A i \in Id : players'[i] # NoPlayer => idOf'[players'[i]] = i
        <3> SUFFICES ASSUME NEW i \in Id, players'[i] # NoPlayer
                     PROVE  idOf'[players'[i]] = i
            OBVIOUS
        <3>1. CASE i = playerId[s]
            BY <1>4, <1>10, <2>1, <2>3, <3>1
        <3>2. CASE i # playerId[s]
            <4>1. players'[i] = players[i] /\ players[i] \in Player
                BY <1>4, <1>10, <2>3, <3>2 DEF PlayerPtr
            <4>2. idOf[players[i]] = i
                BY <4>1 DEF IInv, OwnInv
            <4> QED
                BY <1>10, <2>1, <2>3, <4>1, <4>2
        <3> QED
            BY <3>1, <3>2
    <2>6. OwnInv'
        BY <2>4, <2>5 DEF OwnInv
    <2> QED
        BY <1>1, <1>3, <1>7, <1>8, <1>10, <2>1, <2>2, <2>6, HandlersAreAlike DEF s
<1>11. CASE strand' = Tail(strand) /\ UNCHANGED <<players, idOf, links>>
    <2>1. OwnInv' /\ OthersKeep(s)
        BY <1>1, <1>3, <1>11 DEF IInv, OwnInv, OthersKeep
    <2> QED
        BY <1>1, <1>3, <1>5, <1>8, <1>11, <2>1, HandlersAreAlike DEF s
<1> QED
    BY <1>9, <1>10, <1>11 DEF DoPlay, s, known

\* onDeath() gives the player away from nobody: sessions only lose links to the
\* dead, and watchers of the dead go on watching.
LEMMA RemoveAvatarKeepsIInv ==
    ASSUME LinksAssumption, RoomAssumption, IInv, RemoveAvatar
    PROVE  IInv' /\ \A t \in Session : Unlinked(links, t) => Unlinked(links', t)
<1> DEFINE p == Head(deaths).owner
<1>1. /\ UNCHANGED <<conn, room, user, playerId, inRoom, players, idOf>>
      /\ phase = "death"
      /\ deaths' = Tail(deaths)
      /\ phase' = IF Len(deaths) = 1 THEN "idle" ELSE "death"
      /\ Die(p) \/ UNCHANGED <<isAlive, strand, links>>
    BY DEF RemoveAvatar, appVars, roomVars
<1>2. deaths # <<>> /\ deaths \in Seq(Killed)
    BY <1>1 DEF IInv, DeathsInv, TypeOK
<1>3. p \in Player
    <2>1. Head(deaths) \in Killed
        BY <1>2, HeadTailProperties
    <2> QED
        BY <2>1 DEF Killed
<1>4. DeathsInv'
    <2>1. Len(Tail(deaths)) = Len(deaths) - 1 /\ Len(deaths) \in Nat
        BY <1>2, HeadTailProperties, LenProperties
    <2>2. Len(deaths) # 1 => Len(Tail(deaths)) # 0
        BY <2>1
    <2> QED
        BY <1>1, <2>2 DEF DeathsInv
<1>5. links \in Links /\ LinksConsistent(links)
    BY DEF IInv, TypeOK, LinksAreConsistent
<1>6. /\ links' \in Links
      /\ LinksConsistent(links')
      /\ \A t \in Session :
            /\ links'.player[t] \in {links.player[t], NoPlayer}
            /\ Unlinked(links, t) => Unlinked(links', t)
    <2>1. CASE links' = links
        BY <1>5, <2>1
    <2>2. CASE links' = ClearSessions(links, p)
        <3>1. /\ links' \in Links
              /\ LinksConsistent(links')
              /\ links'.observable = links.observable
              /\ \A t \in Session : links'.player[t] \in {links.player[t], NoPlayer}
            BY <1>3, <1>5, <2>2, ClearSessionsConsistent
        <3> QED
            BY <3>1 DEF Unlinked
    <2>3. ASSUME NEW w \in Player, w # p, links' = ShowSurvivor(links, p, w)
          PROVE  /\ links' \in Links
                 /\ LinksConsistent(links')
                 /\ \A t \in Session :
                       /\ links'.player[t] \in {links.player[t], NoPlayer}
                       /\ Unlinked(links, t) => Unlinked(links', t)
        <3>1. /\ links' \in Links
              /\ LinksConsistent(links')
              /\ \A t \in Session :
                    /\ links'.player[t] \in {links.player[t], NoPlayer}
                    /\ links.player[t] = NoPlayer /\ links.observable[t] = NoPlayer
                        => links'.observable[t] = NoPlayer
            BY <1>3, <1>5, <2>3, ShowSurvivorConsistent
        <3> QED
            BY <3>1 DEF Unlinked
    <2>4. \/ links' = links
          \/ links' = ClearSessions(links, p)
          \/ \E w \in Player : w # p /\ links' = ShowSurvivor(links, p, w)
        <3>1. killer[p] \in PlayerPtr /\ topPlayer \in PlayerPtr
            BY <1>3 DEF IInv, TypeOK
        <3> QED
            BY <1>1, <3>1 DEF Die, Shown, PlayerPtr
    <2> QED
        BY <2>1, <2>2, <2>3, <2>4
<1>7. strand' = strand \/ \E j : IsNotice(j) /\ strand' = Append(strand, j)
    <2>1. IsNotice(Notice("died", p))
        BY <1>3 DEF IsNotice, Notice, Job
    <2>2. ASSUME Die(p)
          PROVE  strand' = Append(strand, Notice("died", p))
        BY <2>1, <2>2, PostOne DEF Die, Post, IInv, IsNotice
    <2> QED
        BY <1>1, <2>1, <2>2
<1>8. JobInv'
    BY <1>1, <1>6, <1>7, NothingHandled DEF IInv
<1>9. OwnInv'
    <2>1. Known' = Known
        BY <1>1 DEF Known
    <2> QED
        BY <1>1, <1>6, <2>1 DEF IInv, OwnInv
<1>10. TypeOK'
    BY <1>6, UpdateKeepsTypes DEF IInv
<1> QED
    BY <1>4, <1>6, <1>8, <1>9, <1>10 DEF IInv, LinksAreConsistent

\* Every step of the room keeps the invariant.
LEMMA StepIInv ==
    ASSUME LinksAssumption, RoomAssumption, IInv, [Next]_vars
    PROVE  IInv'
<1>1. CASE Connections
    BY <1>1, ConnectionsKeepIInv
<1>2. CASE Jobs
    BY <1>2, DoJoinKeepsIInv, DoLeaveKeepsIInv, DoPlayKeepsIInv, DoSpectateKeepsIInv,
       NoticesKeepIInv DEF Jobs
<1>3. CASE Timers \/ EndInteractions \/ Interactions
    BY <1>3, FieldKeepsIInv
<1>4. CASE RemoveAvatar
    BY <1>4, RemoveAvatarKeepsIInv
<1>5. CASE UNCHANGED vars
    <2> USE <1>5 DEF vars, appVars, roomVars, boardVars, cellVars, playerVars
    <2>1. TypeOK'
        BY DEF IInv, TypeOK
    <2>2. DeathsInv' /\ LinksAreConsistent'
        BY DEF IInv, DeathsInv, LinksAreConsistent
    <2>3. Known' = Known
        BY DEF Known
    <2>4. OwnInv'
        BY <2>3 DEF IInv, OwnInv
    <2>5. JobInv'
        BY NothingHandled DEF IInv
    <2> QED
        BY <2>1, <2>2, <2>4, <2>5 DEF IInv
<1> QED
    BY <1>1, <1>2, <1>3, <1>4, <1>5 DEF Next

-----------------------------------------------------------------------------
\* Types, for any number of sessions, users and players.
THEOREM RoomTypeOK == Spec => []TypeOK
<1>1. Init => IInv
    BY InitIInv, LinksAssumption, RoomAssumption
<1>2. IInv /\ [Next]_vars => IInv'
    BY StepIInv, LinksAssumption, RoomAssumption
<1>3. IInv => TypeOK
    BY DEF IInv
<1> QED
    BY <1>1, <1>2, <1>3, PTL DEF Spec

\* Sessions and players stay in step, whatever sequence of joins, plays, deaths,
\* hand-overs, take-overs and annihilations: a player and its main session point
\* at each other, receivers of frames have a reason, nobody plays and watches.
THEOREM RoomLinksAreConsistent == Spec => []LinksAreConsistent
<1>1. Init => IInv
    BY InitIInv, LinksAssumption, RoomAssumption
<1>2. IInv /\ [Next]_vars => IInv'
    BY StepIInv, LinksAssumption, RoomAssumption
<1>3. IInv => LinksAreConsistent
    BY DEF IInv
<1> QED
    BY <1>1, <1>2, <1>3, PTL DEF Spec

\* No session receives the frames of two players.
THEOREM RoomHasOneView == Spec => []OneView(links)
<1>1. Init => IInv
    BY InitIInv, LinksAssumption, RoomAssumption
<1>2. IInv /\ [Next]_vars => IInv'
    BY StepIInv, LinksAssumption, RoomAssumption
<1>3. IInv => OneView(links)
    BY OneViewFollows, LinksAssumption DEF IInv, TypeOK, LinksAreConsistent
<1> QED
    BY <1>1, <1>2, <1>3, PTL DEF Spec

\* A session plays only the player of its own user.
THEOREM RoomOwnPlayerOnly == Spec => []OwnPlayerOnly
<1>1. Init => IInv
    BY InitIInv, LinksAssumption, RoomAssumption
<1>2. IInv /\ [Next]_vars => IInv'
    BY StepIInv, LinksAssumption, RoomAssumption
<1>3. IInv => OwnPlayerOnly
    BY DEF IInv, OwnInv, OwnPlayerOnly
<1> QED
    BY <1>1, <1>2, <1>3, PTL DEF Spec
=============================================================================
