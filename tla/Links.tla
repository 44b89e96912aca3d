------------------------------- MODULE Links -------------------------------
(***************************************************************************)
(* Who plays and who watches whom: the pointers that tie sessions to       *)
(* players, and the operations of Player and Room that change them.        *)
(*                                                                         *)
(* The pointers live in two places and nothing but these operations keeps  *)
(* them in step: a player keeps m_sessions and m_mainSession               *)
(* (src/src/Player.hpp), a session keeps m_player and m_observable         *)
(* (src/src/Session.hpp).  Each operator takes the record of all four and  *)
(* returns the record after the C++ call.                                  *)
(***************************************************************************)
CONSTANTS
    Session,
    Player,     \* player objects
    NoSession,  \* a null SessionPtr
    NoPlayer    \* a null PlayerPtr

ASSUME LinksAssumption ==
    /\ NoSession \notin Session
    /\ NoPlayer \notin Player

SessionPtr == Session \cup {NoSession}
PlayerPtr == Player \cup {NoPlayer}

Links == [viewers    : [Player -> SUBSET Session],  \* Player::m_sessions
          main       : [Player -> SessionPtr],      \* Player::m_mainSession
          player     : [Session -> PlayerPtr],      \* UserData::m_player
          observable : [Session -> PlayerPtr]]      \* UserData::m_observable

NoLinks == [viewers    |-> [p \in Player |-> {}],
            main       |-> [p \in Player |-> NoSession],
            player     |-> [s \in Session |-> NoPlayer],
            observable |-> [s \in Session |-> NoPlayer]]

-----------------------------------------------------------------------------
AddSession(L, p, s) ==
    [L EXCEPT !.viewers[p] = @ \cup {s}]

RemoveSession(L, p, s) ==
    IF s \in L.viewers[p] /\ L.main[p] = s
    THEN [L EXCEPT !.viewers[p] = @ \ {s},
                   !.main[p] = NoSession,
                   !.player[s] = NoPlayer]
    ELSE [L EXCEPT !.viewers[p] = @ \ {s}]

\* The previous main session loses the player, and the right to look.
Displace(L, p) ==
    IF L.main[p] = NoSession
    THEN L
    ELSE [L EXCEPT !.viewers[p] = @ \ {L.main[p]},
                   !.main[p] = NoSession,
                   !.player[L.main[p]] = NoPlayer]

\* Both are told, and the new main session looks at its player.
Install(L, p, s) ==
    AddSession([L EXCEPT !.main[p] = s, !.player[s] = p], p, s)

SetMainSession(L, p, s) == Install(Displace(L, p), p, s)

\* Mutant of ClearSessions: the main session keeps its player.
ClearSessionsOneSided(L, p) ==
    [L EXCEPT !.viewers[p] = {}, !.main[p] = NoSession]

ClearSessions(L, p) ==
    IF L.main[p] = NoSession
    THEN [L EXCEPT !.viewers[p] = {}]
    ELSE [L EXCEPT !.viewers[p] = {},
                   !.main[p] = NoSession,
                   !.player[L.main[p]] = NoPlayer]

\* The `if (observable) { removeSession; observable(nullptr) }` of doPlay and
\* doLeave.
StopObserving(L, s) ==
    IF L.observable[s] = NoPlayer
    THEN L
    ELSE [RemoveSession(L, L.observable[s], s) EXCEPT !.observable[s] = NoPlayer]

\* The `if (player) player->removeSession(sess)` of doLeave and doSpectate.
StopPlaying(L, s) ==
    IF L.player[s] = NoPlayer THEN L ELSE RemoveSession(L, L.player[s], s)

\* Mutant of Forget: a leaving spectator is left with its observable.
ForgetPlayerOnly(L, s) == StopPlaying(L, s)

\* doLeave
Forget(L, s) == StopObserving(StopPlaying(L, s), s)

\* The tail of doSpectate.
Observe(L, s, target) ==
    [AddSession(Forget(L, s), target, s)
        EXCEPT !.observable[s] = target]

\* onDeath() shows the survivor to everyone who was looking at the dead player.
HandOver(L, dead, survivor) ==
    [L EXCEPT !.viewers[survivor] = @ \cup L.viewers[dead],
              !.observable = [s \in Session |->
                  IF s \in L.viewers[dead] THEN survivor ELSE L.observable[s]]]

\* onDeath() with a survivor: its clearSessions() comes last.
ShowSurvivor(L, dead, survivor) ==
    ClearSessions(HandOver(L, dead, survivor), dead)

-----------------------------------------------------------------------------
\* A player and its main session point at each other.
MainIsMutual(L) ==
    \A p \in Player, s \in Session : L.main[p] = s <=> L.player[s] = p

\* The main session receives the frames of its player.
MainIsViewer(L) ==
    \A p \in Player : L.main[p] # NoSession => L.main[p] \in L.viewers[p]

\* Whoever receives frames of a player plays it or watches it.
ViewerHasReason(L) ==
    \A p \in Player : \A s \in L.viewers[p] : L.player[s] = p \/ L.observable[s] = p

\* Nobody plays and watches at once.
OneRole(L) ==
    \A s \in Session : L.player[s] = NoPlayer \/ L.observable[s] = NoPlayer

LinksConsistent(L) ==
    /\ MainIsMutual(L)
    /\ MainIsViewer(L)
    /\ ViewerHasReason(L)
    /\ OneRole(L)

\* So a session receives the frames of at most one player.
OneView(L) ==
    \A s \in Session, p, q \in Player :
        s \in L.viewers[p] /\ s \in L.viewers[q] => p = q
=============================================================================
