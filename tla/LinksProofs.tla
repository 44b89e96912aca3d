---------------------------- MODULE LinksProofs ----------------------------
(***************************************************************************)
(* Every operation of Links preserves the consistency of the pointers.     *)
(* The operations with a precondition state it: a session may be made the  *)
(* main session of a player only when it plays nobody else and watches     *)
(* nobody.                                                                 *)
(***************************************************************************)
EXTENDS Links, TLAPS

Unlinked(L, s) == L.player[s] = NoPlayer /\ L.observable[s] = NoPlayer

\* The pointers of a room nobody has entered are consistent.
LEMMA NoLinksConsistent ==
    ASSUME LinksAssumption
    PROVE  NoLinks \in Links /\ LinksConsistent(NoLinks)
BY DEF LinksAssumption, NoLinks, Links, LinksConsistent, MainIsMutual, MainIsViewer,
       ViewerHasReason, OneRole, SessionPtr, PlayerPtr

\* A session that watches nobody and may be p's player becomes p's main session.
LEMMA InstallConsistent ==
    ASSUME LinksAssumption, NEW D \in Links, LinksConsistent(D),
           NEW p \in Player, NEW s \in Session,
           D.main[p] = NoSession,
           Unlinked(D, s),
           NEW R, R = Install(D, p, s)
    PROVE  /\ R \in Links
           /\ LinksConsistent(R)
           /\ R.player[s] = p
           /\ R.observable = D.observable
           /\ \A t \in Session : t # s => R.player[t] = D.player[t]
<1>1. R = [D EXCEPT !.main[p] = s, !.player[s] = p, !.viewers[p] = @ \cup {s}]
    BY DEF Install, AddSession, Links
<1>3. R.viewers = [D.viewers EXCEPT ![p] = @ \cup {s}]
    BY <1>1 DEF Links
<1>4. R.main = [D.main EXCEPT ![p] = s]
    BY <1>1 DEF Links
<1>5. R.player = [D.player EXCEPT ![s] = p]
    BY <1>1 DEF Links
<1>6. R.observable = D.observable
    BY <1>1 DEF Links
<1>2. R \in Links
    <2>1. /\ R.viewers \in [Player -> SUBSET Session]
          /\ R.main \in [Player -> SessionPtr]
          /\ R.player \in [Session -> PlayerPtr]
          /\ R.observable \in [Session -> PlayerPtr]
        BY <1>3, <1>4, <1>5, <1>6 DEF Links, SessionPtr, PlayerPtr
    <2>2. R = [D EXCEPT !.viewers = R.viewers, !.main = R.main, !.player = R.player]
        BY <1>1, <1>3, <1>4, <1>5 DEF Links
    <2> QED
        BY <2>1, <2>2 DEF Links
<1>7. MainIsMutual(R)
    BY <1>4, <1>5 DEF LinksAssumption, LinksConsistent, MainIsMutual, Links, Unlinked
<1>8. MainIsViewer(R)
    BY <1>3, <1>4 DEF LinksConsistent, MainIsViewer, Links
<1>9. ViewerHasReason(R)
    BY <1>3, <1>5, <1>6 DEF LinksConsistent, ViewerHasReason, Links, Unlinked, LinksAssumption
<1>10. OneRole(R)
    BY <1>5, <1>6 DEF LinksConsistent, OneRole, Links, Unlinked
<1> QED
    BY <1>2, <1>5, <1>6, <1>7, <1>8, <1>9, <1>10 DEF LinksConsistent, Links

\* Displace takes the player, and the sight of it, from its main session.
LEMMA DisplaceConsistent ==
    ASSUME LinksAssumption, NEW L \in Links, LinksConsistent(L),
           NEW p \in Player,
           NEW R, R = Displace(L, p)
    PROVE  /\ R \in Links
           /\ LinksConsistent(R)
           /\ R.main[p] = NoSession
           /\ R.observable = L.observable
           /\ \A t \in Session :
                R.player[t] = IF L.player[t] = p THEN NoPlayer ELSE L.player[t]
<1>1. CASE L.main[p] = NoSession
    <2>1. R = L
        BY <1>1 DEF Displace
    <2>2. \A t \in Session : L.player[t] # p
        BY <1>1 DEF LinksConsistent, MainIsMutual, LinksAssumption
    <2> QED
        BY <1>1, <2>1, <2>2
<1>2. CASE L.main[p] # NoSession
    <2> DEFINE m == L.main[p]
    <2>1. m \in Session /\ L.player[m] = p /\ m \in L.viewers[p]
        BY <1>2 DEF LinksConsistent, MainIsMutual, MainIsViewer, Links, SessionPtr
    <2>2. R = [L EXCEPT !.viewers[p] = @ \ {m}, !.main[p] = NoSession, !.player[m] = NoPlayer]
        BY <1>2 DEF Displace
    <2>4. R.viewers = [L.viewers EXCEPT ![p] = @ \ {m}]
        BY <2>2 DEF Links
    <2>5. R.main = [L.main EXCEPT ![p] = NoSession]
        BY <2>2 DEF Links
    <2>6. R.player = [L.player EXCEPT ![m] = NoPlayer]
        BY <2>2 DEF Links
    <2>7. R.observable = L.observable
        BY <2>2 DEF Links
    <2>3. R \in Links
        <3>1. /\ R.viewers \in [Player -> SUBSET Session]
              /\ R.main \in [Player -> SessionPtr]
              /\ R.player \in [Session -> PlayerPtr]
              /\ R.observable \in [Session -> PlayerPtr]
            BY <2>1, <2>4, <2>5, <2>6, <2>7 DEF Links, SessionPtr, PlayerPtr
        <3>2. R = [L EXCEPT !.viewers = R.viewers, !.main = R.main, !.player = R.player]
            BY <2>2, <2>4, <2>5, <2>6 DEF Links
        <3> QED
            BY <3>1, <3>2 DEF Links
    <2>8. \A t \in Session : L.player[t] = p <=> t = m
        BY <2>1 DEF LinksConsistent, MainIsMutual
    <2>9. MainIsMutual(R)
        BY <2>1, <2>5, <2>6, <2>8 DEF LinksAssumption, LinksConsistent, MainIsMutual, Links
    <2>10. MainIsViewer(R)
        BY <2>4, <2>5, <2>1 DEF LinksConsistent, MainIsViewer, MainIsMutual, Links, SessionPtr
    <2>11. ViewerHasReason(R)
        BY <2>4, <2>6, <2>7, <2>8, <2>1 DEF LinksConsistent, ViewerHasReason, Links
    <2>12. OneRole(R)
        BY <2>6, <2>7 DEF LinksConsistent, OneRole, Links
    <2> QED
        BY <2>1, <2>3, <2>5, <2>6, <2>7, <2>8, <2>9, <2>10, <2>11, <2>12
           DEF LinksConsistent, Links
<1> QED
    BY <1>1, <1>2

\* removeSession() costs the main session its player, and nobody else anything.
LEMMA RemoveSessionConsistent ==
    ASSUME LinksAssumption, NEW L \in Links, LinksConsistent(L),
           NEW p \in Player, NEW s \in Session,
           NEW R, R = RemoveSession(L, p, s)
    PROVE  /\ R \in Links
           /\ LinksConsistent(R)
           /\ s \notin R.viewers[p]
           /\ \A o \in Player : R.viewers[o] \subseteq L.viewers[o]
           /\ R.observable = L.observable
           /\ R.player[s] = IF L.player[s] = p THEN NoPlayer ELSE L.player[s]
           /\ \A t \in Session : t # s => R.player[t] = L.player[t]
<1>1. CASE L.player[s] = p
    <2>1. L.main[p] = s /\ s \in L.viewers[p]
        BY <1>1 DEF LinksConsistent, MainIsMutual, MainIsViewer, LinksAssumption
    <2>2. R = Displace(L, p)
        BY <2>1 DEF RemoveSession, Displace, LinksAssumption
    <2>3. R.viewers = [L.viewers EXCEPT ![p] = @ \ {s}]
        BY <2>1, <2>2 DEF Displace, Links, LinksAssumption
    <2>4. R.player = [L.player EXCEPT ![s] = NoPlayer]
        BY <2>1, <2>2 DEF Displace, Links, LinksAssumption
    <2>5. s \notin R.viewers[p] /\ \A o \in Player : R.viewers[o] \subseteq L.viewers[o]
        BY <2>3 DEF Links
    <2>6. R.player[s] = NoPlayer /\ \A t \in Session : t # s => R.player[t] = L.player[t]
        BY <2>4 DEF Links
    <2> QED
        BY <1>1, <2>2, <2>5, <2>6, DisplaceConsistent
<1>2. CASE L.player[s] # p
    <2>1. L.main[p] # s
        BY <1>2 DEF LinksConsistent, MainIsMutual
    <2>2. R = [L EXCEPT !.viewers[p] = @ \ {s}]
        BY <2>1 DEF RemoveSession
    <2>3. R.viewers = [L.viewers EXCEPT ![p] = @ \ {s}]
        BY <2>2 DEF Links
    <2>4. R.main = L.main /\ R.player = L.player /\ R.observable = L.observable
        BY <2>2 DEF Links
    <2>5. R \in Links
        <3>1. R.viewers \in [Player -> SUBSET Session]
            BY <2>3 DEF Links
        <3>2. R = [L EXCEPT !.viewers = R.viewers]
            BY <2>2, <2>3 DEF Links
        <3> QED
            BY <3>1, <3>2 DEF Links
    <2>6. MainIsViewer(R)
        BY <2>1, <2>3, <2>4 DEF LinksConsistent, MainIsViewer, Links, SessionPtr
    <2>7. ViewerHasReason(R)
        BY <2>3, <2>4 DEF LinksConsistent, ViewerHasReason, Links
    <2>8. MainIsMutual(R) /\ OneRole(R)
        BY <2>4 DEF LinksConsistent, MainIsMutual, OneRole
    <2>9. s \notin R.viewers[p] /\ \A o \in Player : R.viewers[o] \subseteq L.viewers[o]
        BY <2>3 DEF Links
    <2> QED
        BY <1>2, <2>4, <2>5, <2>6, <2>7, <2>8, <2>9 DEF LinksConsistent
<1> QED
    BY <1>1, <1>2

\* A session lets go of its player.
LEMMA StopPlayingConsistent ==
    ASSUME LinksAssumption, NEW L \in Links, LinksConsistent(L), NEW s \in Session,
           NEW R, R = StopPlaying(L, s)
    PROVE  /\ R \in Links
           /\ LinksConsistent(R)
           /\ R.observable = L.observable
           /\ R.player = [L.player EXCEPT ![s] = NoPlayer]
<1>1. CASE L.player[s] = NoPlayer
    BY <1>1 DEF StopPlaying, Links
<1>2. CASE L.player[s] # NoPlayer
    <2>1. PICK p \in Player : p = L.player[s]
        BY <1>2 DEF Links, PlayerPtr
    <2>2. R = RemoveSession(L, p, s)
        BY <1>2, <2>1 DEF StopPlaying
    <2>3. /\ R \in Links
          /\ LinksConsistent(R)
          /\ R.observable = L.observable
          /\ R.player[s] = NoPlayer
          /\ \A t \in Session : t # s => R.player[t] = L.player[t]
        BY <2>1, <2>2, RemoveSessionConsistent
    <2>4. R.player \in [Session -> PlayerPtr] /\ L.player \in [Session -> PlayerPtr]
        BY <2>3 DEF Links
    <2>5. R.player = [L.player EXCEPT ![s] = NoPlayer]
        BY <2>3, <2>4
    <2> QED
        BY <2>3, <2>5
<1> QED
    BY <1>1, <1>2

\* A session plays and watches nobody once it stopped to do the other.
LEMMA StopObservingConsistent ==
    ASSUME LinksAssumption, NEW L \in Links, LinksConsistent(L), NEW s \in Session,
           NEW R, R = StopObserving(L, s)
    PROVE  /\ R \in Links
           /\ LinksConsistent(R)
           /\ R.observable = [L.observable EXCEPT ![s] = NoPlayer]
           /\ R.player = L.player
<1>1. CASE L.observable[s] = NoPlayer
    BY <1>1 DEF StopObserving, Links
<1>2. CASE L.observable[s] # NoPlayer
    <2> DEFINE q == L.observable[s]
               D == RemoveSession(L, q, s)
    <2>1. q \in Player /\ L.player[s] = NoPlayer
        BY <1>2 DEF Links, PlayerPtr, LinksConsistent, OneRole
    <2>2. /\ D \in Links
          /\ LinksConsistent(D)
          /\ s \notin D.viewers[q]
          /\ \A o \in Player : D.viewers[o] \subseteq L.viewers[o]
          /\ D.observable = L.observable
          /\ \A t \in Session : D.player[t] = L.player[t]
        BY <2>1, RemoveSessionConsistent DEF LinksAssumption
    <2>3. R = [D EXCEPT !.observable[s] = NoPlayer]
        BY <1>2 DEF StopObserving
    <2> HIDE DEF D
    <2>4. R.observable = [D.observable EXCEPT ![s] = NoPlayer]
        BY <2>2, <2>3 DEF Links
    <2>5. R.viewers = D.viewers /\ R.main = D.main /\ R.player = D.player
        BY <2>2, <2>3 DEF Links
    <2>6. R \in Links
        <3>1. R.observable \in [Session -> PlayerPtr]
            BY <2>2, <2>4 DEF Links, PlayerPtr
        <3>2. R = [D EXCEPT !.observable = R.observable]
            BY <2>2, <2>3, <2>4 DEF Links
        <3> QED
            BY <2>2, <3>1, <3>2 DEF Links
    <2>7. \A p \in Player : s \notin R.viewers[p]
        <3>1. \A p \in Player : s \in L.viewers[p] => p = q
            BY <2>1 DEF LinksConsistent, ViewerHasReason, LinksAssumption
        <3> QED
            BY <2>1, <2>2, <2>5, <3>1 DEF Links
    <2>8. ViewerHasReason(R)
        BY <2>2, <2>4, <2>5, <2>7 DEF LinksConsistent, ViewerHasReason, Links
    <2>9. OneRole(R)
        <3>1. OneRole(L)
            BY DEF LinksConsistent
        <3>2. \A t \in Session : R.player[t] = L.player[t]
            BY <2>2, <2>5
        <3>3. R.observable[s] = NoPlayer
            BY <2>2, <2>4 DEF Links
        <3>4. \A t \in Session : t # s => R.observable[t] = L.observable[t]
            BY <2>2, <2>4 DEF Links
        <3> QED
            BY <3>1, <3>2, <3>3, <3>4 DEF OneRole
    <2>10. MainIsMutual(R) /\ MainIsViewer(R)
        BY <2>2, <2>5 DEF LinksConsistent, MainIsMutual, MainIsViewer
    <2>11. R.player = L.player
        BY <2>2, <2>5 DEF Links
    <2> QED
        BY <2>2, <2>4, <2>6, <2>8, <2>9, <2>10, <2>11 DEF LinksConsistent
<1> QED
    BY <1>1, <1>2

\* A session that leaves plays and watches nobody.
LEMMA ForgetConsistent ==
    ASSUME LinksAssumption, NEW L \in Links, LinksConsistent(L), NEW s \in Session,
           NEW R, R = Forget(L, s)
    PROVE  /\ R \in Links
           /\ LinksConsistent(R)
           /\ R.observable = [L.observable EXCEPT ![s] = NoPlayer]
           /\ R.player = [L.player EXCEPT ![s] = NoPlayer]
<1> DEFINE D == StopPlaying(L, s)
<1>1. /\ D \in Links
      /\ LinksConsistent(D)
      /\ D.observable = L.observable
      /\ D.player = [L.player EXCEPT ![s] = NoPlayer]
    BY StopPlayingConsistent
<1>2. R = StopObserving(D, s)
    BY DEF Forget
<1> HIDE DEF D
<1>3. /\ R \in Links
      /\ LinksConsistent(R)
      /\ R.observable = [D.observable EXCEPT ![s] = NoPlayer]
      /\ R.player = D.player
    BY <1>1, <1>2, StopObservingConsistent
<1> QED
    BY <1>1, <1>3

\* A session becomes the main session of p if it watches nobody and plays
\* nobody but p.
LEMMA SetMainSessionConsistent ==
    ASSUME LinksAssumption, NEW L \in Links, LinksConsistent(L),
           NEW p \in Player, NEW s \in Session,
           L.observable[s] = NoPlayer,
           L.player[s] \in {NoPlayer, p},
           NEW R, R = SetMainSession(L, p, s)
    PROVE  /\ R \in Links
           /\ LinksConsistent(R)
           /\ R.observable = L.observable
           /\ R.player[s] = p
           /\ \A t \in Session : t # s => R.player[t] \in {L.player[t], NoPlayer}
<1> DEFINE D == Displace(L, p)
<1>1. /\ D \in Links
      /\ LinksConsistent(D)
      /\ D.main[p] = NoSession
      /\ D.observable = L.observable
      /\ \A t \in Session :
            D.player[t] = IF L.player[t] = p THEN NoPlayer ELSE L.player[t]
    BY DisplaceConsistent
<1>2. R = Install(D, p, s)
    BY DEF SetMainSession
<1>3. Unlinked(D, s)
    BY <1>1 DEF Unlinked
<1> HIDE DEF D
<1>4. /\ R \in Links
      /\ LinksConsistent(R)
      /\ R.player[s] = p
      /\ R.observable = D.observable
      /\ \A t \in Session : t # s => R.player[t] = D.player[t]
    BY <1>1, <1>2, <1>3, InstallConsistent
<1>5. \A t \in Session : t # s => R.player[t] \in {L.player[t], NoPlayer}
    BY <1>1, <1>4
<1> QED
    BY <1>1, <1>4, <1>5

\* A session watches the target and nobody else, and plays nobody.
LEMMA ObserveConsistent ==
    ASSUME LinksAssumption, NEW L \in Links, LinksConsistent(L),
           NEW s \in Session, NEW q \in Player,
           NEW R, R = Observe(L, s, q)
    PROVE  /\ R \in Links
           /\ LinksConsistent(R)
           /\ R.observable = [L.observable EXCEPT ![s] = q]
           /\ R.player = [L.player EXCEPT ![s] = NoPlayer]
<1> DEFINE D == Forget(L, s)
<1>1. /\ D \in Links
      /\ LinksConsistent(D)
      /\ D.observable = [L.observable EXCEPT ![s] = NoPlayer]
      /\ D.player = [L.player EXCEPT ![s] = NoPlayer]
    BY ForgetConsistent
<1>2. R = [AddSession(D, q, s) EXCEPT !.observable[s] = q]
    BY DEF Observe
<1> HIDE DEF D
<1>3. R.viewers = [D.viewers EXCEPT ![q] = @ \cup {s}]
    BY <1>1, <1>2 DEF AddSession, Links
<1>4. R.observable = [D.observable EXCEPT ![s] = q]
    BY <1>1, <1>2 DEF AddSession, Links
<1>5. R.main = D.main /\ R.player = D.player
    BY <1>1, <1>2 DEF AddSession, Links
<1>6. R \in Links
    <2>1. R.viewers \in [Player -> SUBSET Session] /\ R.observable \in [Session -> PlayerPtr]
        BY <1>1, <1>3, <1>4 DEF Links, PlayerPtr
    <2>2. R = [D EXCEPT !.viewers = R.viewers, !.observable = R.observable]
        BY <1>1, <1>2, <1>3, <1>4 DEF AddSession, Links
    <2> QED
        BY <1>1, <2>1, <2>2 DEF Links
<1>7. D.player[s] = NoPlayer /\ D.observable[s] = NoPlayer
    BY <1>1 DEF Links
<1>8. MainIsMutual(R)
    BY <1>1, <1>5 DEF LinksConsistent, MainIsMutual
<1>9. MainIsViewer(R)
    BY <1>1, <1>3, <1>5 DEF LinksConsistent, MainIsViewer, Links
<1>10. ViewerHasReason(R)
    BY <1>1, <1>3, <1>4, <1>5, <1>7 DEF LinksConsistent, ViewerHasReason, Links, LinksAssumption
<1>11. OneRole(R)
    BY <1>1, <1>4, <1>5, <1>7 DEF LinksConsistent, OneRole, Links
<1> QED
    BY <1>1, <1>4, <1>5, <1>6, <1>8, <1>9, <1>10, <1>11 DEF LinksConsistent

\* A dead player with nobody to show has neither main session nor viewers.
LEMMA ClearSessionsConsistent ==
    ASSUME LinksAssumption, NEW L \in Links, LinksConsistent(L), NEW p \in Player,
           NEW R, R = ClearSessions(L, p)
    PROVE  /\ R \in Links
           /\ LinksConsistent(R)
           /\ R.observable = L.observable
           /\ \A t \in Session : R.player[t] \in {L.player[t], NoPlayer}
<1> DEFINE D == Displace(L, p)
<1>1. /\ D \in Links
      /\ LinksConsistent(D)
      /\ D.main[p] = NoSession
      /\ D.observable = L.observable
      /\ \A t \in Session :
            D.player[t] = IF L.player[t] = p THEN NoPlayer ELSE L.player[t]
    BY DisplaceConsistent
<1>2. R = [D EXCEPT !.viewers[p] = {}]
    BY DEF Displace, ClearSessions, Links
<1> HIDE DEF D
<1>3. R.viewers = [D.viewers EXCEPT ![p] = {}]
    BY <1>1, <1>2 DEF Links
<1>4. R.main = D.main /\ R.player = D.player /\ R.observable = D.observable
    BY <1>1, <1>2 DEF Links
<1>5. R \in Links
    <2>1. R.viewers \in [Player -> SUBSET Session]
        BY <1>1, <1>3 DEF Links
    <2>2. R = [D EXCEPT !.viewers = R.viewers]
        BY <1>1, <1>2, <1>3 DEF Links
    <2> QED
        BY <1>1, <2>1, <2>2 DEF Links
<1>6. MainIsMutual(R) /\ OneRole(R)
    BY <1>1, <1>4 DEF LinksConsistent, MainIsMutual, OneRole
<1>7. MainIsViewer(R)
    BY <1>1, <1>3, <1>4 DEF LinksConsistent, MainIsViewer, Links
<1>8. ViewerHasReason(R)
    BY <1>1, <1>3, <1>4 DEF LinksConsistent, ViewerHasReason, Links
<1> QED
    BY <1>1, <1>4, <1>5, <1>6, <1>7, <1>8 DEF LinksConsistent

\* A session receives the frames of one player at most.
LEMMA OneViewFollows ==
    ASSUME LinksAssumption, NEW L \in Links, LinksConsistent(L)
    PROVE  OneView(L)
<1> SUFFICES ASSUME NEW s \in Session, NEW p \in Player, NEW q \in Player,
                    s \in L.viewers[p], s \in L.viewers[q]
             PROVE  p = q
    BY DEF OneView
<1>1. L.player[s] = p \/ L.observable[s] = p
    BY DEF LinksConsistent, ViewerHasReason
<1>2. L.player[s] = q \/ L.observable[s] = q
    BY DEF LinksConsistent, ViewerHasReason
<1>3. L.player[s] = NoPlayer \/ L.observable[s] = NoPlayer
    BY DEF LinksConsistent, OneRole
<1> QED
    BY <1>1, <1>2, <1>3 DEF LinksAssumption

\* Everyone who looked at the dead player is shown the survivor, its main
\* session included, and nobody is left with the dead one.
LEMMA ShowSurvivorConsistent ==
    ASSUME LinksAssumption, NEW L \in Links, LinksConsistent(L),
           NEW dead \in Player, NEW survivor \in Player, dead # survivor,
           NEW R, R = ShowSurvivor(L, dead, survivor)
    PROVE  /\ R \in Links
           /\ LinksConsistent(R)
           /\ \A t \in Session :
                /\ R.player[t] \in {L.player[t], NoPlayer}
                /\ L.player[t] = NoPlayer /\ L.observable[t] = NoPlayer
                    => R.observable[t] = NoPlayer
<1> DEFINE H == HandOver(L, dead, survivor)
           seen == L.viewers[dead]
<1>1. /\ H.viewers = [L.viewers EXCEPT ![survivor] = @ \cup seen]
      /\ H.observable = [s \in Session |-> IF s \in seen THEN survivor ELSE L.observable[s]]
      /\ H.main = L.main
      /\ H.player = L.player
    BY DEF HandOver, Links
<1>2. H \in Links
    <2>1. H.viewers \in [Player -> SUBSET Session]
        BY <1>1 DEF Links
    <2>2. H.observable \in [Session -> PlayerPtr]
        BY <1>1 DEF Links, PlayerPtr
    <2>3. H = [L EXCEPT !.viewers = H.viewers, !.observable = H.observable]
        BY <1>1 DEF HandOver, Links
    <2> HIDE DEF H
    <2> QED
        BY <2>1, <2>2, <2>3 DEF Links
<1>3. R = ClearSessions(H, dead)
    BY DEF ShowSurvivor
<1> HIDE DEF H
<1>4. /\ R.viewers = [H.viewers EXCEPT ![dead] = {}]
      /\ R.main = [L.main EXCEPT ![dead] = NoSession]
      /\ R.observable = H.observable
    <2>1. CASE H.main[dead] = NoSession
        <3>1. R = [H EXCEPT !.viewers[dead] = {}]
            BY <1>3, <2>1 DEF ClearSessions
        <3> QED
            BY <1>1, <1>2, <2>1, <3>1 DEF Links
    <2>2. CASE H.main[dead] # NoSession
        <3>1. R = [H EXCEPT !.viewers[dead] = {}, !.main[dead] = NoSession,
                            !.player[H.main[dead]] = NoPlayer]
            BY <1>3, <2>2 DEF ClearSessions
        <3> QED
            BY <1>1, <1>2, <3>1 DEF Links
    <2> QED
        BY <2>1, <2>2
<1>5. /\ R.player \in [Session -> PlayerPtr]
      /\ \A t \in Session :
            R.player[t] = IF L.player[t] = dead THEN NoPlayer ELSE L.player[t]
    <2>1. CASE H.main[dead] = NoSession
        <3>1. R = [H EXCEPT !.viewers[dead] = {}]
            BY <1>3, <2>1 DEF ClearSessions
        <3>2. R.player = L.player
            BY <1>1, <1>2, <3>1 DEF Links
        <3>3. \A t \in Session : L.player[t] # dead
            BY <1>1, <2>1 DEF LinksConsistent, MainIsMutual, LinksAssumption
        <3> QED
            BY <3>2, <3>3 DEF Links
    <2>2. CASE H.main[dead] # NoSession
        <3> DEFINE m == L.main[dead]
        <3>1. R = [H EXCEPT !.viewers[dead] = {}, !.main[dead] = NoSession,
                            !.player[m] = NoPlayer]
            BY <1>1, <1>3, <2>2 DEF ClearSessions
        <3>2. R.player = [L.player EXCEPT ![m] = NoPlayer]
            BY <1>1, <1>2, <3>1 DEF Links
        <3>3. m \in Session /\ \A t \in Session : L.player[t] = dead <=> t = m
            BY <1>1, <2>2 DEF LinksConsistent, MainIsMutual, Links, SessionPtr
        <3> QED
            BY <3>2, <3>3 DEF Links, PlayerPtr
    <2> QED
        BY <2>1, <2>2
<1>6. R \in Links
    <2>1. R.viewers \in [Player -> SUBSET Session] /\ R.main \in [Player -> SessionPtr]
        BY <1>2, <1>4 DEF Links, SessionPtr
    <2>2. R.observable \in [Session -> PlayerPtr]
        BY <1>2, <1>4 DEF Links
    <2>3. R = [H EXCEPT !.viewers = R.viewers, !.main = R.main, !.player = R.player]
        BY <1>2, <1>3 DEF ClearSessions, Links
    <2> QED
        BY <1>2, <1>5, <2>1, <2>2, <2>3 DEF Links
<1>7. \A t \in Session : t \in seen => R.player[t] = NoPlayer
    BY <1>5 DEF LinksConsistent, ViewerHasReason, OneRole, LinksAssumption, Links, PlayerPtr
<1>8. MainIsMutual(R)
    BY <1>4, <1>5 DEF LinksConsistent, MainIsMutual, Links, LinksAssumption
<1>9. MainIsViewer(R)
    BY <1>1, <1>4 DEF LinksConsistent, MainIsViewer, Links, LinksAssumption
<1>10. ViewerHasReason(R)
    <2> SUFFICES ASSUME NEW p \in Player, NEW t \in R.viewers[p]
                 PROVE  R.player[t] = p \/ R.observable[t] = p
        BY DEF ViewerHasReason
    <2>1. p # dead /\ t \in H.viewers[p] /\ t \in Session
        BY <1>2, <1>4, <1>6 DEF Links
    <2>2. CASE t \in seen
        <3>1. p = survivor
            <4>1. t \notin L.viewers[p]
                BY <2>1, <2>2, OneViewFollows DEF OneView
            <4> QED
                BY <1>1, <2>1, <4>1 DEF Links
        <3> QED
            BY <1>1, <1>4, <2>1, <2>2, <3>1
    <2>3. CASE t \notin seen
        <3>1. t \in L.viewers[p]
            BY <1>1, <2>1, <2>3 DEF Links
        <3>2. L.player[t] = p \/ L.observable[t] = p
            BY <3>1 DEF LinksConsistent, ViewerHasReason
        <3> QED
            BY <1>1, <1>4, <1>5, <2>1, <2>3, <3>2
    <2> QED
        BY <2>2, <2>3
<1>11. OneRole(R)
    <2> SUFFICES ASSUME NEW t \in Session
                 PROVE  R.player[t] = NoPlayer \/ R.observable[t] = NoPlayer
        BY DEF OneRole
    <2>1. CASE t \in seen
        BY <1>7, <2>1
    <2>2. CASE t \notin seen
        <3>1. R.observable[t] = L.observable[t]
            BY <1>1, <1>4, <2>2
        <3>2. R.player[t] \in {L.player[t], NoPlayer}
            BY <1>5
        <3> QED
            BY <3>1, <3>2 DEF LinksConsistent, OneRole
    <2> QED
        BY <2>1, <2>2
<1>12. \A t \in Session :
          L.player[t] = NoPlayer /\ L.observable[t] = NoPlayer => R.observable[t] = NoPlayer
    BY <1>1, <1>4 DEF LinksConsistent, ViewerHasReason, LinksAssumption
<1> QED
    BY <1>5, <1>6, <1>8, <1>9, <1>10, <1>11, <1>12 DEF LinksConsistent
=============================================================================
