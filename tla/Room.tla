-------------------------------- MODULE Room --------------------------------
(***************************************************************************)
(* One game room and the sessions that use it: logging in, taking over an  *)
(* account, playing, splitting, being eaten, watching, leaving and being   *)
(* annihilated (src/src/Application.cpp, Room.cpp and Player.cpp).         *)
(*                                                                         *)
(* Every Room method is posted to the strand of the room, and so are the   *)
(* notices of its players, so the room is a FIFO queue of jobs and a       *)
(* handler is one action.  Timers run in the strand too, between any two   *)
(* jobs.  Room::update() is one turn of the strand that runs its own two   *)
(* event queues to the end: it is split into the phases "interact" and     *)
(* "death", during which no other handler runs.                            *)
(*                                                                         *)
(* Cells are abstracted to the number of avatars each player has; mass and *)
(* geometry decide who eats whom, so any legal outcome may happen.         *)
(***************************************************************************)
EXTENDS Naturals, Sequences, FiniteSets, SequencesExt, Links

CONSTANTS
    Id,             \* user ids, which are player ids
    NoId,
    MaxAvatars,     \* config player.maxAvatars
    MaxPlayers,     \* config maxPlayers
    Commands,       \* what clients ask for: a subset of {"play", "spectate", "split"}
    MaxPlays,       \* bound on the play commands of all clients together
    MaxStrand,      \* bound on the strand when a client may post to it
    TakeOver,       \* may a connection greet with the token of a live one?
    Annihilation    \* may a player stay idle for annihilationThreshold?

ASSUME RoomAssumption ==
    /\ NoId \notin Id
    /\ MaxAvatars \in Nat \ {0}
    /\ MaxPlayers \in Nat
    /\ Commands \subseteq {"play", "spectate", "split"}
    /\ MaxPlays \in Nat
    /\ MaxStrand \in Nat
    /\ TakeOver \in BOOLEAN
    /\ Annihilation \in BOOLEAN

VARIABLES
    \* Application: the connections
    conn,           \* "fresh", "taking", "entering" (both in actionGreeting), "open", "gone"
    user,           \* UserData::m_user
    room,           \* is UserData::m_room set?
    holder,         \* User::m_session
    plays,          \* play commands so far
    \* Room: the sessions and the players
    inRoom,         \* m_sessions
    playerId,       \* UserData::m_playerId
    links,          \* see Links
    players,        \* m_players
    fighters,       \* m_fighters
    leaderboard,    \* m_leaderboard, as the number of entries of each player
    topPlayer,      \* m_topPlayer
    hasFreeSpace,   \* m_hasFreeSpace
    splits,         \* m_splitRequests
    strand,         \* the jobs posted to m_executor
    phase,          \* "idle", or where update() stands
    deaths,         \* m_deathContext: killed avatars whose death is not handled
    \* Player
    idOf,           \* m_id; NoId for an object that was not created yet
    isAlive,        \* m_status.isAlive
    avatars,        \* avatars in m_avatars that are not zombies
    killer,         \* m_killer
    armed           \* m_annihilationTimer is running

appVars == <<conn, user, room, holder, plays>>
roomVars == <<inRoom, playerId, players, hasFreeSpace>>
boardVars == <<fighters, leaderboard, topPlayer>>
cellVars == <<deaths, avatars, killer>>
playerVars == <<idOf, isAlive, armed>>
vars == <<appVars, roomVars, boardVars, cellVars, playerVars, links, splits,
          strand, phase>>

IdPtr == Id \cup {NoId}

\* A killed avatar: its owner, and whether m_avatars still holds it.
Killed == [owner : Player, listed : BOOLEAN]

Job ==
    [op : {"join", "spectate"}, sess : Session, id : Id]
        \cup [op : {"leave", "play", "split"}, sess : Session]
        \cup [op : {"respawned", "died", "annihilated"}, player : Player]

JoinJob(s, i) == [op |-> "join", sess |-> s, id |-> i]
SpectateJob(s, i) == [op |-> "spectate", sess |-> s, id |-> i]
SessionJob(op, s) == [op |-> op, sess |-> s]
Notice(op, p) == [op |-> op, player |-> p]

\* Mutant of FreeSpace: off by one.
FreeSpaceAtLimit(n) == n <= MaxPlayers

\* m_players.size() < maxPlayers
FreeSpace(n) == n < MaxPlayers

TypeOK ==
    /\ conn \in [Session -> {"fresh", "taking", "entering", "open", "gone"}]
    /\ user \in [Session -> IdPtr]
    /\ room \in [Session -> BOOLEAN]
    /\ holder \in [Id -> SessionPtr]
    /\ inRoom \subseteq Session
    /\ playerId \in [Session -> IdPtr]
    /\ links \in Links
    /\ players \in [Id -> PlayerPtr]
    /\ fighters \subseteq Player
    /\ leaderboard \in [Player -> Nat]
    /\ topPlayer \in PlayerPtr
    /\ hasFreeSpace \in BOOLEAN
    /\ splits \subseteq Session
    /\ strand \in Seq(Job)
    /\ phase \in {"idle", "interact", "death"}
    /\ deaths \in Seq(Killed)
    /\ idOf \in [Player -> IdPtr]
    /\ isAlive \in [Player -> BOOLEAN]
    /\ avatars \in [Player -> Nat]
    /\ killer \in [Player -> PlayerPtr]
    /\ armed \in [Player -> BOOLEAN]
    /\ plays \in 0..MaxPlays

Init ==
    /\ conn = [s \in Session |-> "fresh"]
    /\ user = [s \in Session |-> NoId]
    /\ room = [s \in Session |-> FALSE]
    /\ holder = [i \in Id |-> NoSession]
    /\ inRoom = {}
    /\ playerId = [s \in Session |-> NoId]
    /\ links = NoLinks
    /\ players = [i \in Id |-> NoPlayer]
    /\ fighters = {}
    /\ leaderboard = [p \in Player |-> 0]
    /\ topPlayer = NoPlayer
    /\ hasFreeSpace = FreeSpace(0)
    /\ splits = {}
    /\ strand = <<>>
    /\ phase = "idle"
    /\ deaths = <<>>
    /\ idOf = [p \in Player |-> NoId]
    /\ isAlive = [p \in Player |-> FALSE]
    /\ avatars = [p \in Player |-> 0]
    /\ killer = [p \in Player |-> NoPlayer]
    /\ armed = [p \in Player |-> FALSE]
    /\ plays = 0

-----------------------------------------------------------------------------
\* Reading the state.

InRoomIds == {i \in Id : players[i] # NoPlayer}

\* Some shared_ptr keeps the object alive, so that a weak_ptr can be locked.
Referenced(p) ==
    \/ \E i \in Id : players[i] = p
    \/ p \in fighters
    \/ leaderboard[p] > 0
    \/ \E s \in Session : links.player[s] = p \/ links.observable[s] = p

\* What is in m_avatars: the living, and zombies whose death is not handled.
ListedDeaths(p) == {k \in DOMAIN deaths : deaths[k].owner = p /\ deaths[k].listed}
Held(p) == avatars[p] + Cardinality(ListedDeaths(p))

\* weak_ptr::lock() followed by isDead().
Shown(w) == w # NoPlayer /\ Referenced(w) /\ isAlive[w]

\* Mutants of KnownPlayer: whoever the session is tied to, and no m_players.
TiedPlayer(s) ==
    IF links.observable[s] # NoPlayer THEN links.observable[s]
    ELSE IF links.player[s] # NoPlayer THEN links.player[s] ELSE players[playerId[s]]
SessionPlayer(s) == links.player[s]

\* The player of the session, or the one registered for its user.
KnownPlayer(s) ==
    IF links.player[s] # NoPlayer THEN links.player[s] ELSE players[playerId[s]]

\* Mutant of WasLast: the test before the avatar is erased, among the living.
WasLastAlive(death) == avatars[death.owner] = 0

\* removeAvatar() finds m_avatars empty after it took this avatar out.
WasLast(death) == Held(death.owner) = IF death.listed THEN 1 ELSE 0

Uncreated == {p \in Player : idOf[p] = NoId}

Post(jobs) == strand' = strand \o jobs
RoomToPost == Len(strand) < MaxStrand

-----------------------------------------------------------------------------
\* Application: handlers of the connections, which run in threads of their own.

\* actionGreeting() up to the claim of the account.  A live connection of the
\* same user is made to leave and is closed; it may still send what it likes
\* until its close handler has run.
Greet(s, i) ==
    LET prev == holder[i]
        found == prev # NoSession /\ room[prev]
    IN  /\ conn[s] = "fresh"
        /\ RoomToPost
        /\ TakeOver \/ \A t \in Session : user[t] # i
        /\ user' = [user EXCEPT ![s] = i]
        /\ conn' = [conn EXCEPT ![s] = IF found THEN "taking" ELSE "entering"]
        /\ Post(IF found THEN <<SessionJob("leave", prev)>> ELSE <<>>)
        /\ UNCHANGED <<room, holder, plays, roomVars, boardVars, cellVars, playerVars, links,
                       splits, phase>>

\* The rest of actionGreeting().  A session that takes a room over from its
\* predecessor is not told its room; the others obtain a room with free space.
EnterRoom(s) ==
    /\ \/ conn[s] = "taking" /\ UNCHANGED room
       \/ conn[s] = "entering" /\ hasFreeSpace /\ room' = [room EXCEPT ![s] = TRUE]
    /\ holder' = [holder EXCEPT ![user[s]] = s]
    /\ conn' = [conn EXCEPT ![s] = "open"]
    /\ Post(<<JoinJob(s, user[s])>>)
    /\ UNCHANGED <<user, plays, roomVars, boardVars, cellVars, playerVars, links, splits, phase>>

\* actionPlay(), actionSplit() and actionSpectate(): a session without a room
\* is ignored.
Command(s) ==
    /\ conn[s] = "open"
    /\ room[s]
    /\ RoomToPost
    /\ \/ /\ "play" \in Commands
          /\ plays < MaxPlays
          /\ plays' = plays + 1
          /\ Post(<<SessionJob("play", s)>>)
       \/ /\ "split" \in Commands
          /\ Post(<<SessionJob("split", s)>>)
          /\ UNCHANGED plays
       \/ /\ "spectate" \in Commands
          /\ \E i \in Id : Post(<<SpectateJob(s, i)>>)
          /\ UNCHANGED plays
    /\ UNCHANGED <<conn, user, room, holder, roomVars, boardVars, cellVars, playerVars, links, splits, phase>>

\* Mutant of Disconnect: the room is reset before it is asked to leave.
DisconnectResetFirst(s) ==
    /\ conn[s] = "open"
    /\ conn' = [conn EXCEPT ![s] = "gone"]
    /\ user' = [user EXCEPT ![s] = NoId]
    /\ room' = [room EXCEPT ![s] = FALSE]
    /\ UNCHANGED <<strand, holder, plays, roomVars, boardVars, cellVars, playerVars, links,
                   splits, phase>>

\* sessionCloseHandler()
Disconnect(s) ==
    /\ conn[s] = "open"
    /\ conn' = [conn EXCEPT ![s] = "gone"]
    /\ user' = [user EXCEPT ![s] = NoId]
    /\ room' = [room EXCEPT ![s] = FALSE]
    /\ Post(IF room[s] THEN <<SessionJob("leave", s)>> ELSE <<>>)
    /\ UNCHANGED <<holder, plays, roomVars, boardVars, cellVars, playerVars, links, splits, phase>>

-----------------------------------------------------------------------------
\* Room: jobs of the strand.

Handle(op) ==
    /\ phase = "idle"
    /\ strand # <<>>
    /\ Head(strand).op = op

DoJoin ==
    LET s == Head(strand).sess
        i == Head(strand).id
    IN  /\ Handle("join")
        /\ strand' = Tail(strand)
        /\ inRoom' = inRoom \cup {s}
        /\ IF s \in inRoom
           THEN UNCHANGED <<playerId, links>>
           ELSE /\ playerId' = [playerId EXCEPT ![s] = i]
                /\ links' = IF players[i] = NoPlayer
                            THEN links
                            ELSE SetMainSession(links, players[i], s)
        /\ UNCHANGED <<appVars, players, hasFreeSpace, boardVars, cellVars, playerVars,
                       splits, phase>>

DoLeave ==
    LET s == Head(strand).sess
    IN  /\ Handle("leave")
        /\ strand' = Tail(strand)
        /\ inRoom' = inRoom \ {s}
        /\ IF s \in inRoom
           THEN /\ splits' = splits \ {s}
                /\ links' = Forget(links, s)
           ELSE UNCHANGED <<splits, links>>
        /\ UNCHANGED <<appVars, playerId, players, hasFreeSpace, boardVars, cellVars,
                       playerVars, phase>>

\* The tail of doPlay() for player p: the main session changes hands, and a dead
\* player is respawned with one avatar and a notice to the room.
PlayAs(s, p) ==
    /\ links' = SetMainSession(StopObserving(links, s), p, s)
    /\ isAlive' = [isAlive EXCEPT ![p] = TRUE]
    /\ IF isAlive[p]
       THEN /\ strand' = Tail(strand)
            /\ UNCHANGED avatars
       ELSE /\ strand' = Append(Tail(strand), Notice("respawned", p))
            /\ avatars' = [avatars EXCEPT ![p] = @ + 1]

\* doPlay().  respawn() wakes the player up.  Bound: the room creates each player
\* object once; when all of Player is used up a play that needs another one is
\* dropped, as if the client had not asked.
DoPlay ==
    LET s == Head(strand).sess
        known == KnownPlayer(s)
    IN  /\ Handle("play")
        /\ \/ /\ known # NoPlayer
              /\ PlayAs(s, known)
              /\ armed' = [armed EXCEPT ![known] = @ \/ ~isAlive[known]]
              /\ UNCHANGED <<players, idOf, hasFreeSpace>>
           \/ /\ known = NoPlayer
              /\ \E p \in Uncreated :
                 /\ PlayAs(s, p)
                 /\ armed' = [armed EXCEPT ![p] = TRUE]
                 /\ players' = [players EXCEPT ![playerId[s]] = p]
                 /\ idOf' = [idOf EXCEPT ![p] = playerId[s]]
                 /\ hasFreeSpace' = FreeSpace(Cardinality(InRoomIds) + 1)
           \/ /\ known = NoPlayer
              /\ Uncreated = {}
              /\ strand' = Tail(strand)
              /\ UNCHANGED <<players, idOf, hasFreeSpace, links, isAlive, avatars, armed>>
        /\ UNCHANGED <<appVars, inRoom, playerId, boardVars, deaths, killer, splits, phase>>

\* An unknown target falls back to m_leaderboard.at(0), which is any entry
\* between two sorts.
SpectateTarget(i) ==
    IF players[i] # NoPlayer
    THEN {players[i]}
    ELSE {p \in Player : leaderboard[p] > 0}

DoSpectate ==
    LET s == Head(strand).sess
        p == links.player[s]
        busy == p # NoPlayer /\ isAlive[p]
        targets == SpectateTarget(Head(strand).id)
        wanted(t) == t \in fighters /\ t # p /\ t # links.observable[s]
    IN  /\ Handle("spectate")
        /\ strand' = Tail(strand)
        /\ \/ /\ busy \/ targets = {} \/ \E t \in targets : ~wanted(t)
              /\ UNCHANGED links
           \/ /\ ~busy
              /\ \E t \in targets : wanted(t) /\ links' = Observe(links, s, t)
        /\ UNCHANGED <<appVars, roomVars, boardVars, cellVars, playerVars, splits, phase>>

DoSplit ==
    /\ Handle("split")
    /\ strand' = Tail(strand)
    /\ splits' = splits \cup {Head(strand).sess}
    /\ UNCHANGED <<appVars, roomVars, boardVars, cellVars, playerVars, links, phase>>

\* Mutant of OnPlayerRespawn: an idle player that comes back to an old entry of
\* the leaderboard is not inserted again.
OnPlayerRespawnOnce ==
    LET p == Head(strand).player
    IN  /\ Handle("respawned")
        /\ strand' = Tail(strand)
        /\ IF Referenced(p) /\ leaderboard[p] = 0
           THEN /\ leaderboard' = [leaderboard EXCEPT ![p] = @ + 1]
                /\ fighters' = fighters \cup {p}
           ELSE UNCHANGED <<leaderboard, fighters>>
        /\ UNCHANGED <<appVars, roomVars, topPlayer, cellVars, playerVars, links, splits, phase>>

\* The notices of a player hold a weak_ptr: they find a destroyed player gone.
OnPlayerRespawn ==
    LET p == Head(strand).player
    IN  /\ Handle("respawned")
        /\ strand' = Tail(strand)
        /\ IF Referenced(p)
           THEN /\ leaderboard' = [leaderboard EXCEPT ![p] = @ + 1]
                /\ fighters' = fighters \cup {p}
           ELSE UNCHANGED <<leaderboard, fighters>>
        /\ UNCHANGED <<appVars, roomVars, topPlayer, cellVars, playerVars, links, splits, phase>>

\* Mutants of OnPlayerDeath: the fighters are left to synchronize(), and the
\* leaderboard is left to the next sort.
OnPlayerDeathStillFighting ==
    LET p == Head(strand).player
    IN  /\ Handle("died")
        /\ strand' = Tail(strand)
        /\ leaderboard' = [leaderboard EXCEPT ![p] = IF @ > 0 THEN @ - 1 ELSE 0]
        /\ UNCHANGED <<appVars, roomVars, fighters, topPlayer, cellVars, playerVars, links,
                       splits, phase>>
OnPlayerDeathStillRanked ==
    LET p == Head(strand).player
    IN  /\ Handle("died")
        /\ strand' = Tail(strand)
        /\ fighters' = fighters \ {p}
        /\ UNCHANGED <<appVars, roomVars, leaderboard, topPlayer, cellVars, playerVars, links,
                       splits, phase>>

OnPlayerDeath ==
    LET p == Head(strand).player
    IN  /\ Handle("died")
        /\ strand' = Tail(strand)
        /\ leaderboard' = [leaderboard EXCEPT ![p] = IF @ > 0 THEN @ - 1 ELSE 0]
        /\ fighters' = fighters \ {p}
        /\ UNCHANGED <<appVars, roomVars, topPlayer, cellVars, playerVars, links, splits, phase>>

\* m_players.erase(): whatever object is registered under the id goes, and
\* m_hasFreeSpace stays as it was.
OnPlayerAnnihilates ==
    LET p == Head(strand).player
    IN  /\ Handle("annihilated")
        /\ strand' = Tail(strand)
        /\ players' = IF Referenced(p)
                      THEN [players EXCEPT ![idOf[p]] = NoPlayer]
                      ELSE players
        /\ UNCHANGED <<appVars, inRoom, playerId, hasFreeSpace, boardVars, cellVars, playerVars,
                       links, splits, phase>>

-----------------------------------------------------------------------------
\* Room::update(), phase by phase.

\* handlePlayerRequests(): every avatar of a player that asked may split once,
\* if it is heavy enough and while the player has less than the maximum.
SplitsTo(p, n) ==
    \/ n = avatars[p]
    \/ /\ \E s \in splits : links.player[s] = p
       /\ isAlive[p]
       /\ n \in avatars[p]..(2 * avatars[p])
       /\ Held(p) + n - avatars[p] <= MaxAvatars

BeginUpdate ==
    /\ phase = "idle"
    /\ phase' = "interact"
    /\ avatars' \in {f \in [Player -> 0..(2 * MaxAvatars)] : \A p \in Player : SplitsTo(p, f[p])}
    /\ splits' = {}
    /\ UNCHANGED <<appVars, roomVars, boardVars, deaths, killer, playerVars, links, strand>>

\* Mutant of Eat: update() does not ask whether the target is a zombie.
EatZombie(p, q) ==
    /\ phase = "interact"
    /\ avatars[p] > 0
    /\ Held(q) > IF p = q THEN 1 ELSE 0
    /\ avatars' = [avatars EXCEPT ![q] = @ - 1]
    /\ deaths' = Append(deaths, [owner |-> q, listed |-> TRUE])
    /\ killer' = [killer EXCEPT ![q] = p]
    /\ armed' = [armed EXCEPT ![p] = @ \/ p # q]
    /\ UNCHANGED <<appVars, roomVars, boardVars, idOf, isAlive, links, splits, strand, phase>>

\* An avatar of p eats an avatar of q; of its own player only when recombined.
\* That wakes p up, and so does eating food or a bullet, which changes nothing
\* else here: it restarts a timer that runs as long as p has avatars.
Eat(p, q) ==
    /\ phase = "interact"
    /\ avatars[p] > 0
    /\ avatars[q] > IF p = q THEN 1 ELSE 0
    /\ avatars' = [avatars EXCEPT ![q] = @ - 1]
    /\ deaths' = Append(deaths, [owner |-> q, listed |-> TRUE])
    /\ killer' = [killer EXCEPT ![q] = p]
    /\ armed' = [armed EXCEPT ![p] = @ \/ p # q]
    /\ UNCHANGED <<appVars, roomVars, boardVars, idOf, isAlive, links, splits, strand, phase>>

\* A mother eats an avatar of q: nobody is told who did it.
EatenByMother(q) ==
    /\ phase = "interact"
    /\ avatars[q] > 0
    /\ avatars' = [avatars EXCEPT ![q] = @ - 1]
    /\ deaths' = Append(deaths, [owner |-> q, listed |-> TRUE])
    /\ UNCHANGED <<appVars, roomVars, boardVars, killer, playerVars, links, splits, strand, phase>>

\* Mutant of Explode: avatars that died in this update are not counted.
ExplodeAmongLiving(p) ==
    /\ phase = "interact"
    /\ avatars[p] > 0
    /\ avatars[p] < MaxAvatars
    /\ \E parts \in 1..(MaxAvatars - avatars[p]) : avatars' = [avatars EXCEPT ![p] = @ + parts]
    /\ UNCHANGED <<appVars, roomVars, boardVars, deaths, killer, playerVars, links, splits,
                   strand, phase>>

\* onAvatarExplode(), after an avatar of p ate a virus or a mother.  The parts
\* are in reach of the others from the next update on; here, from now on.
Explode(p) ==
    /\ phase = "interact"
    /\ avatars[p] > 0
    /\ Held(p) < MaxAvatars
    /\ \E parts \in 1..(MaxAvatars - Held(p)) : avatars' = [avatars EXCEPT ![p] = @ + parts]
    /\ UNCHANGED <<appVars, roomVars, boardVars, deaths, killer, playerVars, links, splits,
                   strand, phase>>

EndInteractions ==
    /\ phase = "interact"
    /\ phase' = IF deaths = <<>> THEN "idle" ELSE "death"
    /\ UNCHANGED <<appVars, roomVars, boardVars, cellVars, playerVars, links, splits, strand>>

\* Player::onDeath(): the notice, and the survivor the spectators are shown.
Die(p) ==
    LET first == killer[p]
        other(w) == w # p /\ Shown(w)
        survivor == IF other(first) THEN first
                    ELSE IF other(topPlayer) THEN topPlayer ELSE NoPlayer
    IN  /\ isAlive' = [isAlive EXCEPT ![p] = FALSE]
        /\ Post(<<Notice("died", p)>>)
        /\ links' = IF survivor = NoPlayer
                     THEN ClearSessions(links, p)
                     ELSE ShowSurvivor(links, p, survivor)

\* Player::removeAvatar(), for the deaths in their order.
RemoveAvatar ==
    LET p == Head(deaths).owner
    IN  /\ phase = "death"
        /\ deaths' = Tail(deaths)
        /\ phase' = IF Len(deaths) = 1 THEN "idle" ELSE "death"
        /\ IF WasLast(Head(deaths))
           THEN Die(p)
           ELSE UNCHANGED <<isAlive, strand, links>>
        /\ UNCHANGED <<appVars, roomVars, boardVars, avatars, killer, idOf, armed, splits>>

-----------------------------------------------------------------------------
\* The other timers that matter here.

\* synchronize()
Synchronize ==
    /\ phase = "idle"
    /\ fighters' = {p \in fighters : isAlive[p]}
    /\ UNCHANGED <<appVars, roomVars, leaderboard, topPlayer, cellVars, playerVars, links,
                   splits, strand, phase>>

\* updateLeaderboard(): masses change all the time, so the sort may put any
\* entry first.
UpdateLeaderboard ==
    LET entries == {p \in Player : leaderboard[p] > 0}
    IN  /\ phase = "idle"
        /\ topPlayer' \in IF entries = {} THEN {NoPlayer} ELSE entries
        /\ UNCHANGED <<appVars, roomVars, fighters, leaderboard, cellVars, playerVars, links,
                       splits, strand, phase>>

\* handleAnnihilation(): the avatars become viruses and are forgotten at once,
\* their deaths are handled in the next update().  A player is not annihilated
\* again before that update (a minute against 20 ms).  Bound: nor while it is on
\* the leaderboard twice.
Annihilate(p) ==
    /\ Annihilation
    /\ phase = "idle"
    /\ armed[p]
    /\ Referenced(p)
    /\ \A k \in DOMAIN deaths : deaths[k].owner # p
    /\ leaderboard[p] < 2
    /\ armed' = [armed EXCEPT ![p] = FALSE]
    /\ deaths' = deaths \o [k \in 1..avatars[p] |-> [owner |-> p, listed |-> FALSE]]
    /\ avatars' = [avatars EXCEPT ![p] = 0]
    /\ isAlive' = [isAlive EXCEPT ![p] = FALSE]
    /\ Post(<<Notice("annihilated", p)>>)
    /\ UNCHANGED <<appVars, roomVars, boardVars, killer, idOf, links, splits, phase>>

-----------------------------------------------------------------------------
Connections ==
    \E s \in Session :
        \/ \E i \in Id : Greet(s, i)
        \/ EnterRoom(s)
        \/ Command(s)
        \/ Disconnect(s)

Jobs ==
    \/ DoJoin
    \/ DoLeave
    \/ DoPlay
    \/ DoSpectate
    \/ DoSplit
    \/ OnPlayerRespawn
    \/ OnPlayerDeath
    \/ OnPlayerAnnihilates

Interactions ==
    \E p \in Player :
        \/ \E q \in Player : Eat(p, q)
        \/ EatenByMother(p)
        \/ Explode(p)

Timers ==
    \/ BeginUpdate
    \/ Synchronize
    \/ UpdateLeaderboard
    \/ \E p \in Player : Annihilate(p)

Next ==
    \/ Connections
    \/ Jobs
    \/ Timers
    \/ Interactions
    \/ EndInteractions
    \/ RemoveAvatar

Spec == Init /\ [][Next]_vars

\* A strand is first in, first out, and a timer queues up again behind the jobs
\* it finds there: timers cannot keep a job from its turn, which between turns
\* of update() makes the fairness strong.  An update() that began runs to its
\* end.  No client and no timer has to do anything.
Fairness ==
    /\ SF_vars(Jobs)
    /\ WF_vars(EndInteractions)
    /\ WF_vars(RemoveAvatar)

FairSpec == Spec /\ Fairness

-----------------------------------------------------------------------------
LinksAreConsistent == LinksConsistent(links)

\* A session plays nobody but the player of its own user, whoever ate whom and
\* whatever was handed over.
OwnPlayerOnly ==
    \A s \in Session : links.player[s] # NoPlayer => idOf[links.player[s]] = playerId[s]

\* A player is alive exactly as long as it holds an avatar, a zombie included.
AliveHasAvatars ==
    \A p \in Player : isAlive[p] <=> Held(p) > 0

\* Splitting and exploding never exceed the configured number of avatars.
AvatarLimit ==
    \A p \in Player : Held(p) <= MaxAvatars

\* The notices in the strand about the life of p, and the last of them.
Notices(p) ==
    {k \in DOMAIN strand : strand[k].op \in {"respawned", "died"} /\ strand[k].player = p}
LastNotice(p) == IF Notices(p) = {} THEN "none" ELSE strand[Max(Notices(p))].op

\* Fighters and leaderboard follow the life of a player: it is in both, once,
\* exactly while it is alive, except that a notice is still on its way.
BoardFollowsLife ==
    \A p \in Player :
        /\ leaderboard[p] <= 1
        /\ LastNotice(p) = "none" => /\ isAlive[p] <=> leaderboard[p] = 1
                                     /\ isAlive[p] <=> p \in fighters
        /\ LastNotice(p) = "respawned" => isAlive[p]
        /\ LastNotice(p) = "died" => ~isAlive[p]

LeaveIsPending(s) == SessionJob("leave", s) \in Range(strand)

\* A room works for its sessions only, and a session that has gone away is
\* forgotten once its leave was handled: no frames, no player, no requests.
LeftIsForgotten ==
    \A s \in Session :
        /\ s \notin inRoom => /\ links.player[s] = NoPlayer
                              /\ links.observable[s] = NoPlayer
                              /\ \A p \in Player : s \notin links.viewers[p]
                              /\ s \notin splits
        /\ conn[s] = "gone" /\ s \in inRoom => LeaveIsPending(s)

\* What RoomManager reads without entering the strand errs on the safe side.
FreeSpaceIsSafe ==
    hasFreeSpace => Cardinality(InRoomIds) < MaxPlayers

\* With players that may be annihilated while they come back to play, a living
\* player can be listed twice, but never be missing among the fighters or on the
\* leaderboard.
AliveIsRanked ==
    \A p \in Player :
        isAlive[p] /\ LastNotice(p) = "none" /\ Referenced(p)
            => leaderboard[p] > 0 /\ p \in fighters

\* An account that changes hands is not played twice.
OnePlayerPerUser ==
    \A p, q \in Player : isAlive[p] /\ isAlive[q] /\ idOf[p] = idOf[q] => p = q

\* A connected client whose session is the main session of a living player
\* controls its cells: the session has a room to send its commands to.
MainSessionControls ==
    \A p \in Player, s \in Session :
        isAlive[p] /\ links.main[p] = s /\ conn[s] = "open" => room[s]

\* The room never has more players than it is configured for.
RoomNeverOverfull == Cardinality(InRoomIds) <= MaxPlayers

\* A session that went away leaves the room in the end.
GoneLeavesRoom ==
    \A s \in Session : conn[s] = "gone" ~> s \notin inRoom

\* A dead player leaves the leaderboard, unless it plays again.
DeadLeavesBoard ==
    \A p \in Player :
        ~isAlive[p] /\ leaderboard[p] > 0 ~> isAlive[p] \/ leaderboard[p] = 0
=============================================================================
