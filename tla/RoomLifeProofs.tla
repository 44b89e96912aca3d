--------------------------- MODULE RoomLifeProofs ---------------------------
(***************************************************************************)
(* For any number of players, sessions and users: a player is alive as     *)
(* long as it has avatars, never has too many of them, and the room that   *)
(* offers a place has one.                                                 *)
(*                                                                         *)
(* What a player holds are its avatars that live, and those that were      *)
(* killed and wait for removeAvatar(); so the queue of deaths is counted.  *)
(***************************************************************************)
EXTENDS RoomProofs

-----------------------------------------------------------------------------
\* Counting deaths.

\* The avatars of p in a queue of deaths that m_avatars still holds.
Listed(d, p) == {k \in DOMAIN d : d[k].owner = p /\ d[k].listed}

\* They are finitely many.
LEMMA ListedFinite ==
    ASSUME NEW d \in Seq(Killed), NEW p
    PROVE  IsFiniteSet(Listed(d, p)) /\ Cardinality(Listed(d, p)) \in Nat
<1>1. Len(d) \in Nat /\ DOMAIN d = 1..Len(d)
    BY LenProperties
<1>2. Listed(d, p) \in SUBSET (1..Len(d))
    BY <1>1 DEF Listed
<1>3. IsFiniteSet(1..Len(d))
    BY <1>1, FS_Interval
<1> QED
    BY <1>2, <1>3, FS_Subset, FS_CardinalityType

\* A death that is not of p, or not listed, at the back changes nothing for p;
\* one that is counts.
LEMMA ListedOfAppend ==
    ASSUME NEW d \in Seq(Killed), NEW k \in Killed, NEW p
    PROVE  Cardinality(Listed(Append(d, k), p)) =
               Cardinality(Listed(d, p)) + (IF k.owner = p /\ k.listed THEN 1 ELSE 0)
<1> DEFINE n == Len(d) + 1
           e == Append(d, k)
<1>1. /\ n \in Nat \ {0} /\ DOMAIN d = 1..(n - 1) /\ DOMAIN e = 1..n
      /\ e[n] = k /\ \A i \in 1..(n - 1) : e[i] = d[i]
    <2>1. e \in Seq(Killed) /\ Len(e) = Len(d) + 1 /\ Len(d) \in Nat
        BY AppendProperties, LenProperties
    <2>2. DOMAIN e = 1..n /\ DOMAIN d = 1..Len(d)
        BY <2>1, LenProperties
    <2>3. e[n] = k /\ \A i \in 1..Len(d) : e[i] = d[i]
        BY AppendProperties
    <2> HIDE DEF e
    <2> QED
        BY <2>1, <2>2, <2>3
<1> HIDE DEF n, e
<1>2. k.listed \in BOOLEAN /\ n \notin Listed(d, p)
    BY <1>1 DEF Killed, Listed
<1>3. CASE k.owner = p /\ k.listed
    <2>1. Listed(e, p) = Listed(d, p) \cup {n}
        <3>1. ASSUME NEW i
              PROVE  i \in Listed(e, p) <=> i \in Listed(d, p) \cup {n}
            <4>1. CASE i = n
                <5>1. n \in DOMAIN e /\ e[n] = k
                    BY <1>1
                <5> QED
                    BY <1>3, <4>1, <5>1, Zenon DEF Listed
            <4>2. CASE i # n
                BY <1>1, <4>2 DEF Listed
            <4> QED
                BY <4>1, <4>2
        <3> QED
            BY <3>1
    <2>2. Cardinality(Listed(e, p)) = Cardinality(Listed(d, p)) + 1
        BY <1>2, <2>1, ListedFinite, FS_AddElement
    <2> QED
        BY <1>3, <2>2 DEF e
<1>4. CASE ~(k.owner = p /\ k.listed)
    <2>1. Listed(e, p) = Listed(d, p)
        <3>1. ASSUME NEW i
              PROVE  i \in Listed(e, p) <=> i \in Listed(d, p)
            BY <1>1, <1>4 DEF Listed
        <3> QED
            BY <3>1
    <2>2. Cardinality(Listed(d, p)) \in Nat
        BY ListedFinite
    <2> QED
        BY <1>4, <2>1, <2>2 DEF e
<1> QED
    BY <1>3, <1>4

\* The death at the front is handled.
LEMMA ListedOfTail ==
    ASSUME NEW d \in Seq(Killed), d # <<>>, NEW p
    PROVE  /\ Head(d) \in Killed /\ Tail(d) \in Seq(Killed)
           /\ Cardinality(Listed(d, p)) = Cardinality(Listed(Tail(d), p))
                  + (IF Head(d).owner = p /\ Head(d).listed THEN 1 ELSE 0)
<1> DEFINE n == Len(d)
           t == Tail(d)
           f == [i \in Listed(t, p) |-> i + 1]
           B == {i \in Listed(d, p) : i # 1}
<1>1. /\ n \in Nat \ {0} /\ DOMAIN d = 1..n /\ DOMAIN t = 1..(n - 1)
      /\ Head(d) = d[1] /\ \A i \in 1..(n - 1) : t[i] = d[i + 1]
      /\ Head(d) \in Killed /\ t \in Seq(Killed)
    <2>1. Head(d) \in Killed /\ t \in Seq(Killed) /\ Len(t) = Len(d) - 1
          /\ Head(d) = d[1] /\ \A i \in 1..Len(t) : t[i] = d[i + 1]
        BY HeadTailProperties
    <2>2. Len(d) \in Nat \ {0} /\ DOMAIN d = 1..Len(d)
        BY EmptySeq, LenProperties
    <2>3. DOMAIN t = 1..Len(t)
        BY <2>1, LenProperties
    <2> HIDE DEF t
    <2> QED
        BY <2>1, <2>2, <2>3
<1> HIDE DEF n, t
<1>2. f \in Bijection(Listed(t, p), B)
    <2>1. f \in [Listed(t, p) -> B]
        <3> SUFFICES ASSUME NEW i \in Listed(t, p)
                     PROVE  i + 1 \in B
            OBVIOUS
        <3> QED
            BY <1>1 DEF Listed
    <2>2. \A i, j \in Listed(t, p) : f[i] = f[j] => i = j
        BY <1>1 DEF Listed
    <2>3. \A j \in B : \E i \in Listed(t, p) : f[i] = j
        <3> SUFFICES ASSUME NEW j \in B
                     PROVE  j - 1 \in Listed(t, p) /\ f[j - 1] = j
            OBVIOUS
        <3>1. j \in 2..n /\ d[j].owner = p /\ d[j].listed
            BY <1>1 DEF Listed
        <3>2. j - 1 \in 1..(n - 1) /\ (j - 1) + 1 = j
            BY <1>1, <3>1
        <3>3. j - 1 \in Listed(t, p)
            BY <1>1, <3>1, <3>2 DEF Listed
        <3> QED
            BY <3>2, <3>3
    <2> HIDE DEF f, B
    <2> QED
        BY <2>1, <2>2, <2>3 DEF Bijection, Injection, Surjection, IsInjective
<1> HIDE DEF f
<1>3. IsFiniteSet(B) /\ Cardinality(B) = Cardinality(Listed(t, p))
    BY <1>1, <1>2, ListedFinite, FS_Bijection DEF ExistsBijection
<1>4. Head(d).listed \in BOOLEAN /\ Cardinality(B) \in Nat
    BY <1>1, <1>3, ListedFinite DEF Killed
<1>5. CASE Head(d).owner = p /\ Head(d).listed
    <2>1. Listed(d, p) = B \cup {1} /\ 1 \notin B
        BY <1>1, <1>5 DEF Listed
    <2> HIDE DEF B
    <2>2. Cardinality(Listed(d, p)) = Cardinality(B) + 1
        BY <1>3, <2>1, FS_AddElement
    <2> QED
        BY <1>1, <1>3, <1>5, <2>2 DEF t
<1>6. CASE ~(Head(d).owner = p /\ Head(d).listed)
    <2>1. 1 \notin Listed(d, p)
        <3>1. Head(d) = d[1]
            BY <1>1
        <3> QED
            BY <1>6, <3>1, Zenon DEF Listed
    <2>2. Listed(d, p) = B
        BY <2>1
    <2> HIDE DEF B
    <2> QED
        <3>1. Cardinality(Listed(d, p)) = Cardinality(Listed(t, p)) + 0
            BY <1>3, <1>4, <2>2
        <3>2. (IF Head(d).owner = p /\ Head(d).listed THEN 1 ELSE 0) = 0
            BY <1>6, Zenon
        <3> QED
            BY <1>1, <3>1, <3>2 DEF t
<1> QED
    BY <1>5, <1>6

\* Avatars that are annihilated are not listed.
LEMMA ListedOfAnnihilated ==
    ASSUME NEW d \in Seq(Killed), NEW n \in Nat, NEW p \in Player, NEW q
    PROVE  Listed(d \o [k \in 1..n |-> [owner |-> p, listed |-> FALSE]], q) = Listed(d, q)
<1> DEFINE e == [k \in 1..n |-> [owner |-> p, listed |-> FALSE]]
<1>1. e \in Seq(Killed) /\ Len(e) = n /\ \A k \in 1..n : ~e[k].listed
    <2>1. e \in Seq(Killed)
        BY IsASeq DEF Killed
    <2>2. Len(e) = n
        OBVIOUS
    <2>3. \A k \in 1..n : ~e[k].listed
        OBVIOUS
    <2> QED
        BY <2>1, <2>2, <2>3
<1> HIDE DEF e
<1>2. /\ Len(d) \in Nat /\ DOMAIN d = 1..Len(d) /\ DOMAIN (d \o e) = 1..(Len(d) + n)
      /\ \A i \in 1..(Len(d) + n) : (d \o e)[i] = IF i <= Len(d) THEN d[i] ELSE e[i - Len(d)]
    <2>1. /\ d \o e \in Seq(Killed) /\ Len(d \o e) = Len(d) + n
          /\ \A i \in 1..(Len(d) + n) : (d \o e)[i] = IF i <= Len(d) THEN d[i] ELSE e[i - Len(d)]
        BY <1>1, ConcatProperties
    <2> QED
        BY <2>1, LenProperties
<1>3. ASSUME NEW i
      PROVE  i \in Listed(d \o e, q) <=> i \in Listed(d, q)
    <2>1. CASE i \in DOMAIN d
        <3>1. i \in DOMAIN (d \o e) /\ (d \o e)[i] = d[i]
            BY <1>2, <2>1
        <3> QED
            BY <2>1, <3>1, Zenon DEF Listed
    <2>2. CASE i \in DOMAIN (d \o e) /\ i \notin DOMAIN d
        <3>1. (d \o e)[i] = e[i - Len(d)] /\ i - Len(d) \in 1..n
            BY <1>2, <2>2
        <3>2. ~e[i - Len(d)].listed
            BY <1>1, <3>1
        <3> QED
            BY <2>2, <3>1, <3>2, Zenon DEF Listed
    <2>3. CASE i \notin DOMAIN (d \o e) /\ i \notin DOMAIN d
        BY <2>3 DEF Listed
    <2> QED
        BY <2>1, <2>2, <2>3
<1> QED
    BY <1>3 DEF e

-----------------------------------------------------------------------------
\* The life of a player and the number of its avatars.
Lives(p) == (isAlive[p] <=> Held(p) > 0) /\ Held(p) <= MaxAvatars
LifeInv == \A p \in Player : Lives(p)

\* What a player holds, counted over the queue of deaths.
LEMMA HeldIs ==
    ASSUME NEW p
    PROVE  /\ Held(p) = avatars[p] + Cardinality(Listed(deaths, p))
           /\ Held(p)' = avatars'[p] + Cardinality(Listed(deaths', p))
BY DEF Held, ListedDeaths, Listed

\* A player that holds what it held, and whose life has not changed.
LEMMA SameLife ==
    ASSUME NEW p, Lives(p), isAlive'[p] = isAlive[p], Held(p)' = Held(p)
    PROVE  Lives(p)'
BY DEF Lives

\* A player that holds something else.
LEMMA OtherLife ==
    ASSUME NEW p, isAlive'[p] <=> Held(p)' > 0, Held(p)' <= MaxAvatars
    PROVE  Lives(p)'
BY DEF Lives

\* Every avatar that is eaten waits in the queue of deaths: its player holds as
\* many as before.
LEMMA EatKeepsLife ==
    ASSUME TypeOK, LifeInv, NEW q \in Player, avatars[q] > 0,
           avatars' = [avatars EXCEPT ![q] = @ - 1],
           deaths' = Append(deaths, [owner |-> q, listed |-> TRUE]),
           UNCHANGED isAlive
    PROVE  LifeInv'
<1> DEFINE k == [owner |-> q, listed |-> TRUE]
<1>1. avatars \in [Player -> Nat] /\ deaths \in Seq(Killed) /\ k \in Killed
    BY DEF TypeOK, Killed
<1>2. k.owner = q /\ k.listed
    OBVIOUS
<1> HIDE DEF k
<1>3. SUFFICES ASSUME NEW p \in Player
               PROVE  Held(p)' = Held(p)
    BY SameLife DEF LifeInv
<1>4. Cardinality(Listed(deaths', p)) = Cardinality(Listed(deaths, p)) + (IF q = p THEN 1 ELSE 0)
    <2>1. CASE q = p
        <3>1. Cardinality(Listed(Append(deaths, k), p)) =
                  Cardinality(Listed(deaths, p)) + (IF k.owner = p /\ k.listed THEN 1 ELSE 0)
            BY <1>1, ListedOfAppend
        <3> QED
            BY <1>2, <2>1, <3>1 DEF k
    <2>2. CASE q # p
        <3>1. Cardinality(Listed(Append(deaths, k), p)) =
                  Cardinality(Listed(deaths, p)) + (IF k.owner = p /\ k.listed THEN 1 ELSE 0)
            BY <1>1, ListedOfAppend
        <3> QED
            BY <1>2, <2>2, <3>1 DEF k
    <2> QED
        BY <2>1, <2>2
<1>5. Cardinality(Listed(deaths, p)) \in Nat
    BY <1>1, ListedFinite
<1>6. avatars'[p] = avatars[p] - (IF q = p THEN 1 ELSE 0) /\ avatars[p] \in Nat
    BY <1>1
<1> QED
    <2>1. /\ Held(p) = avatars[p] + Cardinality(Listed(deaths, p))
          /\ Held(p)' = avatars'[p] + Cardinality(Listed(deaths', p))
        BY HeldIs
    <2>2. avatars'[p] + Cardinality(Listed(deaths', p)) = avatars[p] + Cardinality(Listed(deaths, p))
        BY <1>4, <1>5, <1>6
    <2> QED
        BY <2>1, <2>2

\* Only avatars that live change in number, and not those of the dead.
LEMMA GrowKeepsLife ==
    ASSUME TypeOK, LifeInv, UNCHANGED <<deaths, isAlive>>, avatars' \in [Player -> Nat],
           \A p \in Player : \/ avatars'[p] = avatars[p]
                             \/ /\ isAlive[p] /\ avatars'[p] >= avatars[p]
                                /\ Held(p) + (avatars'[p] - avatars[p]) <= MaxAvatars
    PROVE  LifeInv'
<1> SUFFICES ASSUME NEW p \in Player
             PROVE  Lives(p)'
    BY DEF LifeInv
<1>1. /\ avatars[p] \in Nat /\ avatars'[p] \in Nat
      /\ Held(p) \in Nat /\ Lives(p) /\ Cardinality(Listed(deaths, p)) \in Nat
    BY HeldIsNat, ListedFinite DEF TypeOK, LifeInv
<1>2. Held(p)' = Held(p) + (avatars'[p] - avatars[p])
    BY <1>1, HeldIs
<1>3. CASE avatars'[p] = avatars[p]
    BY <1>1, <1>2, <1>3, SameLife
<1>4. CASE isAlive[p] /\ avatars'[p] >= avatars[p] /\ Held(p) + (avatars'[p] - avatars[p]) <= MaxAvatars
    <2>1. Held(p) > 0
        BY <1>1, <1>4 DEF Lives
    <2>2. Held(p)' > 0 /\ Held(p)' <= MaxAvatars
        BY <1>1, <1>2, <1>4, <2>1
    <2> QED
        BY <1>4, <2>2, OtherLife
<1> QED
    BY <1>3, <1>4

\* A split or an explosion leaves a player within its limit.
LEMMA SplitKeepsLife ==
    ASSUME RoomAssumption, TypeOK, LifeInv, BeginUpdate \/ (\E p \in Player : Explode(p))
    PROVE  LifeInv'
<1>1. avatars \in [Player -> Nat] /\ MaxAvatars \in Nat
    BY DEF TypeOK, RoomAssumption
<1>2. CASE BeginUpdate
    <2>1. avatars' \in [Player -> 0..(2 * MaxAvatars)] /\ \A p \in Player : SplitsTo(p, avatars'[p])
        BY <1>2 DEF BeginUpdate
    <2>2. avatars' \in [Player -> Nat]
        BY <1>1, <2>1
    <2>3. ASSUME NEW p \in Player, avatars'[p] # avatars[p]
          PROVE  /\ isAlive[p] /\ avatars'[p] >= avatars[p]
                 /\ Held(p) + (avatars'[p] - avatars[p]) <= MaxAvatars
        <3>1. /\ isAlive[p] /\ avatars'[p] \in avatars[p]..(2 * avatars[p])
              /\ Held(p) + avatars'[p] - avatars[p] <= MaxAvatars
            BY <2>1, <2>3 DEF SplitsTo
        <3>2. Held(p) \in Nat /\ avatars[p] \in Nat /\ avatars'[p] \in Nat
            BY <1>1, <2>2, HeldIsNat
        <3>3. avatars'[p] >= avatars[p] /\ Held(p) + (avatars'[p] - avatars[p]) <= MaxAvatars
            BY <1>1, <3>1, <3>2
        <3> QED
            BY <3>1, <3>3
    <2> QED
        BY <1>2, <2>2, <2>3, GrowKeepsLife DEF BeginUpdate, cellVars, playerVars
<1>3. ASSUME NEW p \in Player, Explode(p)
      PROVE  LifeInv'
    <2>1. PICK parts \in 1..(MaxAvatars - Held(p)) : avatars' = [avatars EXCEPT ![p] = @ + parts]
        BY <1>3 DEF Explode
    <2>2. Held(p) \in Nat /\ avatars[p] \in Nat /\ avatars[p] > 0 /\ parts \in Nat
        BY <1>1, <1>3, HeldIsNat DEF Explode
    <2>3. /\ avatars' \in [Player -> Nat] /\ avatars'[p] = avatars[p] + parts
          /\ \A q \in Player : q # p => avatars'[q] = avatars[q]
        BY <1>1, <2>1, <2>2
    <2>4. Held(p) > 0
        BY <1>1, <2>2, HeldIs, ListedFinite DEF TypeOK
    <2>5. isAlive[p]
        BY <2>4 DEF LifeInv, Lives
    <2>6. avatars'[p] >= avatars[p] /\ Held(p) + (avatars'[p] - avatars[p]) <= MaxAvatars
        BY <1>1, <2>1, <2>2, <2>3
    <2> QED
        BY <1>3, <2>3, <2>5, <2>6, GrowKeepsLife DEF Explode, playerVars
<1> QED
    BY <1>2, <1>3

\* doPlay(): a player that is dead holds nothing, and gets one avatar.
LEMMA PlayKeepsLife ==
    ASSUME RoomAssumption, TypeOK, LifeInv, NEW s, NEW p, PlayAs(s, p), UNCHANGED deaths
    PROVE  LifeInv'
<1> SUFFICES ASSUME NEW q \in Player
             PROVE  Lives(q)'
    BY DEF LifeInv
<1>1. /\ avatars \in [Player -> Nat] /\ isAlive \in [Player -> BOOLEAN]
      /\ isAlive' = [isAlive EXCEPT ![p] = TRUE]
      /\ avatars' = IF isAlive[p] THEN avatars ELSE [avatars EXCEPT ![p] = @ + 1]
    BY DEF TypeOK, PlayAs
<1>2. /\ Lives(q) /\ Held(q) \in Nat
      /\ Cardinality(Listed(deaths, q)) \in Nat /\ Listed(deaths', q) = Listed(deaths, q)
    BY HeldIsNat, ListedFinite DEF TypeOK, LifeInv
<1>3. /\ Held(q) = avatars[q] + Cardinality(Listed(deaths, q))
      /\ Held(q)' = avatars'[q] + Cardinality(Listed(deaths, q))
    BY <1>2, HeldIs
<1>4. CASE q # p \/ isAlive[p]
    <2>1. avatars'[q] = avatars[q]
        BY <1>1, <1>4
    <2>2. isAlive'[q] = isAlive[q]
        <3>1. CASE q # p
            BY <1>1, <3>1
        <3>2. CASE q = p /\ isAlive[p]
            <4>1. isAlive[q] = TRUE
                BY <1>1, <3>2
            <4> QED
                BY <1>1, <3>2, <4>1
        <3> QED
            BY <1>4, <3>1, <3>2
    <2> QED
        BY <1>2, <1>3, <2>1, <2>2, SameLife
<1>5. CASE q = p /\ ~isAlive[p]
    <2>1. Held(q) = 0
        BY <1>2, <1>5 DEF Lives
    <2>2. avatars'[q] = avatars[q] + 1 /\ avatars[q] \in Nat
        BY <1>1, <1>5
    <2>3. Held(q)' = 1
        BY <1>2, <1>3, <2>1, <2>2
    <2>4. isAlive'[q] = TRUE
        BY <1>1, <1>5
    <2>5. Held(q)' > 0 /\ Held(q)' <= MaxAvatars
        BY <2>3 DEF RoomAssumption
    <2> QED
        BY <2>4, <2>5, OtherLife
<1> QED
    BY <1>4, <1>5

\* removeAvatar(): the player dies with the last avatar it holds.
LEMMA RemoveAvatarKeepsLife ==
    ASSUME RoomAssumption, TypeOK, DeathsInv, LifeInv, RemoveAvatar
    PROVE  LifeInv'
<1> DEFINE k == Head(deaths)
<1>1. deaths \in Seq(Killed) /\ deaths # <<>> /\ deaths' = Tail(deaths) /\ avatars' = avatars
    BY DEF RemoveAvatar, DeathsInv, TypeOK
<1>2. /\ k \in Killed /\ Tail(deaths) \in Seq(Killed)
      /\ \A q : Cardinality(Listed(deaths, q)) =
                   Cardinality(Listed(deaths', q)) + (IF k.owner = q /\ k.listed THEN 1 ELSE 0)
    BY <1>1, ListedOfTail
<1>3. /\ isAlive \in [Player -> BOOLEAN] /\ MaxAvatars \in Nat
      /\ \/ WasLast(k) /\ isAlive' = [isAlive EXCEPT ![k.owner] = FALSE]
         \/ ~WasLast(k) /\ isAlive' = isAlive
    BY DEF RemoveAvatar, Die, TypeOK, RoomAssumption
<1>4. WasLast(k) <=> Held(k.owner) = IF k.listed THEN 1 ELSE 0
    BY DEF WasLast
<1> HIDE DEF k
<1>5. SUFFICES ASSUME NEW q \in Player
               PROVE  Lives(q)'
    BY DEF LifeInv
<1>6. /\ Lives(q) /\ Held(q) \in Nat /\ avatars[q] \in Nat
      /\ Cardinality(Listed(deaths', q)) \in Nat
    BY <1>1, <1>2, HeldIsNat, ListedFinite DEF TypeOK, LifeInv
<1>7. Held(q) = Held(q)' + (IF k.owner = q /\ k.listed THEN 1 ELSE 0) /\ Held(q)' \in Nat
    <2>1. /\ Held(q) = avatars[q] + Cardinality(Listed(deaths, q))
          /\ Held(q)' = avatars[q] + Cardinality(Listed(deaths', q))
        BY <1>1, HeldIs
    <2> QED
        BY <1>2, <1>6, <2>1
<1>8. CASE k.owner # q
    <2>1. isAlive'[q] = isAlive[q]
        BY <1>3, <1>8
    <2>2. Held(q)' = Held(q)
        BY <1>7, <1>8
    <2> QED
        BY <1>6, <2>1, <2>2, SameLife
<1>9. CASE k.owner = q /\ WasLast(k)
    <2>1. Held(q) = IF k.listed THEN 1 ELSE 0
        BY <1>4, <1>9
    <2>2. Held(q)' = 0
        <3>1. CASE k.listed
            BY <1>7, <1>9, <2>1, <3>1
        <3>2. CASE ~k.listed
            BY <1>7, <1>9, <2>1, <3>2
        <3> QED
            BY <3>1, <3>2
    <2>3. isAlive'[q] = FALSE
        BY <1>3, <1>9
    <2>4. ~(Held(q)' > 0) /\ Held(q)' <= MaxAvatars
        BY <1>3, <2>2
    <2> QED
        BY <2>3, <2>4, OtherLife
<1>10. CASE k.owner = q /\ ~WasLast(k)
    <2>1. isAlive' = isAlive
        BY <1>3, <1>10
    <2>2. CASE k.listed
        <3>1. Held(q) # 1 /\ Held(q) = Held(q)' + 1
            BY <1>4, <1>7, <1>10, <2>2
        <3>2. Held(q)' > 0 /\ Held(q) > 0 /\ Held(q)' <= Held(q) /\ Held(q) <= MaxAvatars
            BY <1>6, <1>7, <3>1 DEF Lives
        <3>3. isAlive'[q]
            BY <1>6, <2>1, <3>2 DEF Lives
        <3>4. Held(q)' <= MaxAvatars
            BY <1>3, <1>6, <1>7, <3>2
        <3> QED
            BY <3>2, <3>3, <3>4, OtherLife
    <2>3. CASE ~k.listed
        <3>1. Held(q)' = Held(q)
            BY <1>7, <2>3
        <3> QED
            BY <1>6, <2>1, <3>1, SameLife
    <2> QED
        BY <2>2, <2>3
<1> QED
    BY <1>3, <1>8, <1>9, <1>10

\* An annihilated player holds nothing, and is dead.
LEMMA AnnihilateKeepsLife ==
    ASSUME RoomAssumption, TypeOK, LifeInv, NEW p \in Player, Annihilate(p)
    PROVE  LifeInv'
<1>1. /\ avatars \in [Player -> Nat] /\ isAlive \in [Player -> BOOLEAN] /\ deaths \in Seq(Killed)
      /\ avatars' = [avatars EXCEPT ![p] = 0] /\ isAlive' = [isAlive EXCEPT ![p] = FALSE]
      /\ MaxAvatars \in Nat
    BY DEF Annihilate, TypeOK, RoomAssumption
<1>2. \A q : Listed(deaths', q) = Listed(deaths, q)
    <2> DEFINE n == avatars[p]
    <2>1. n \in Nat
        BY <1>1
    <2>2. deaths' = deaths \o [k \in 1..n |-> [owner |-> p, listed |-> FALSE]]
        BY DEF Annihilate
    <2> HIDE DEF n
    <2>3. \A q : Listed(deaths \o [k \in 1..n |-> [owner |-> p, listed |-> FALSE]], q) = Listed(deaths, q)
        BY <1>1, <2>1, ListedOfAnnihilated
    <2> QED
        BY <2>2, <2>3, Zenon
<1> SUFFICES ASSUME NEW q \in Player
             PROVE  Lives(q)'
    BY DEF LifeInv
<1>3. /\ Held(q) = avatars[q] + Cardinality(Listed(deaths, q))
      /\ Held(q)' = avatars'[q] + Cardinality(Listed(deaths, q))
    BY <1>2, HeldIs
<1>4. CASE q = p
    <2>1. Listed(deaths, p) = {}
        BY DEF Annihilate, Listed
    <2>2. Cardinality(Listed(deaths, p)) = 0
        BY <2>1, FS_EmptySet
    <2>3. avatars'[p] = 0
        BY <1>1
    <2>4. Held(q)' = 0
        BY <1>3, <1>4, <2>2, <2>3
    <2>5. isAlive'[q] = FALSE
        BY <1>1, <1>4
    <2>6. ~(Held(q)' > 0) /\ Held(q)' <= MaxAvatars
        BY <1>1, <2>4
    <2> QED
        BY <2>5, <2>6, OtherLife
<1>5. CASE q # p
    <2>1. isAlive'[q] = isAlive[q] /\ avatars'[q] = avatars[q] /\ Lives(q)
        BY <1>1, <1>5 DEF LifeInv
    <2> QED
        BY <1>3, <2>1, SameLife
<1> QED
    BY <1>4, <1>5

\* Every step keeps life and avatars together.
LEMMA StepLifeInv ==
    ASSUME RoomAssumption, IInv, LifeInv, [Next]_vars
    PROVE  LifeInv'
<1>1. TypeOK /\ DeathsInv
    BY DEF IInv
<1>2. ASSUME UNCHANGED <<isAlive, avatars, deaths>>
      PROVE  LifeInv'
    <2>1. \A p \in Player : Held(p)' = Held(p) /\ isAlive'[p] = isAlive[p]
        BY <1>2, HeldIs
    <2> QED
        BY <2>1, SameLife DEF LifeInv
<1>3. CASE Connections
    BY <1>2, <1>3 DEF Connections, Greet, EnterRoom, Command, Disconnect, cellVars, playerVars
<1>4. CASE Jobs
    <2>1. ASSUME DoPlay
          PROVE  LifeInv'
        <3>1. /\ deaths' = deaths
              /\ \/ \E s, p : PlayAs(s, p)
                 \/ UNCHANGED <<isAlive, avatars>>
            BY <2>1 DEF DoPlay
        <3> QED
            BY <1>1, <1>2, <3>1, PlayKeepsLife
    <2>2. ASSUME DoJoin \/ DoLeave \/ DoSpectate \/ DoSplit
          PROVE  LifeInv'
        BY <1>2, <2>2 DEF DoJoin, DoLeave, DoSpectate, DoSplit, cellVars, playerVars
    <2>3. ASSUME OnPlayerRespawn \/ OnPlayerDeath \/ OnPlayerAnnihilates
          PROVE  LifeInv'
        BY <1>2, <2>3 DEF OnPlayerRespawn, OnPlayerDeath, OnPlayerAnnihilates, cellVars, playerVars
    <2> QED
        BY <1>4, <2>1, <2>2, <2>3 DEF Jobs
<1>5. CASE Timers
    <2>1. ASSUME Synchronize \/ UpdateLeaderboard
          PROVE  LifeInv'
        BY <1>2, <2>1 DEF Synchronize, UpdateLeaderboard, cellVars, playerVars
    <2> QED
        BY <1>1, <1>5, <2>1, SplitKeepsLife, AnnihilateKeepsLife DEF Timers
<1>6. CASE Interactions
    <2>1. ASSUME NEW p \in Player, NEW q \in Player, Eat(p, q) \/ EatenByMother(q)
          PROVE  LifeInv'
        <3>1. avatars[q] \in Nat
            BY <1>1 DEF TypeOK
        <3>2. avatars[q] > 0
            BY <2>1, <3>1 DEF Eat, EatenByMother
        <3> QED
            BY <1>1, <2>1, <3>2, EatKeepsLife DEF Eat, EatenByMother, playerVars
    <2> QED
        BY <1>1, <1>6, <2>1, SplitKeepsLife DEF Interactions
<1>7. CASE EndInteractions
    BY <1>2, <1>7 DEF EndInteractions, cellVars, playerVars
<1>8. CASE RemoveAvatar
    BY <1>1, <1>8, RemoveAvatarKeepsLife
<1>9. CASE UNCHANGED vars
    BY <1>2, <1>9 DEF vars, cellVars, playerVars
<1> QED
    BY <1>3, <1>4, <1>5, <1>6, <1>7, <1>8, <1>9 DEF Next

-----------------------------------------------------------------------------
\* The place the room offers.
FreeInv ==
    /\ IsFiniteSet(InRoomIds)
    /\ FreeSpaceIsSafe

\* Players come one at a time, and each time the room counts.
LEMMA StepFreeInv ==
    ASSUME LinksAssumption, RoomAssumption, IInv, FreeInv, [Next]_vars
    PROVE  FreeInv'
<1>1. players \in [Id -> PlayerPtr] /\ MaxPlayers \in Nat
    BY DEF IInv, TypeOK, RoomAssumption
<1>2. ASSUME UNCHANGED <<players, hasFreeSpace>>
      PROVE  FreeInv'
    BY <1>2 DEF FreeInv, FreeSpaceIsSafe, InRoomIds
<1>3. ASSUME OnPlayerAnnihilates
      PROVE  FreeInv'
    <2>1. InRoomIds' \subseteq InRoomIds /\ hasFreeSpace' = hasFreeSpace
        <3>1. hasFreeSpace' = hasFreeSpace /\ \/ players' = players
                                              \/ \E i : players' = [players EXCEPT ![i] = NoPlayer]
            BY <1>3 DEF OnPlayerAnnihilates
        <3> QED
            BY <1>1, <3>1 DEF InRoomIds
    <2>2. /\ IsFiniteSet(InRoomIds') /\ Cardinality(InRoomIds) \in Nat /\ Cardinality(InRoomIds') \in Nat
          /\ Cardinality(InRoomIds') <= Cardinality(InRoomIds)
        BY <2>1, FS_Subset, FS_CardinalityType DEF FreeInv
    <2> QED
        BY <1>1, <2>1, <2>2 DEF FreeInv, FreeSpaceIsSafe
<1>4. ASSUME DoPlay
      PROVE  FreeInv'
    <2> DEFINE i == playerId[Head(strand).sess]
    <2>1. CASE UNCHANGED <<players, hasFreeSpace>>
        BY <1>2, <2>1
    <2>2. CASE \E p \in Player : /\ players' = [players EXCEPT ![i] = p]
                                 /\ hasFreeSpace' = FreeSpace(Cardinality(InRoomIds) + 1)
        <3> HIDE DEF i
        <3>1. InRoomIds' \subseteq InRoomIds \cup {i}
            BY <1>1, <2>2 DEF InRoomIds
        <3>2. /\ IsFiniteSet(InRoomIds) /\ Cardinality(InRoomIds) \in Nat
              /\ IsFiniteSet(InRoomIds \cup {i})
              /\ Cardinality(InRoomIds \cup {i}) <= Cardinality(InRoomIds) + 1
            <4>1. IsFiniteSet(InRoomIds) /\ Cardinality(InRoomIds) \in Nat
                BY FS_CardinalityType DEF FreeInv
            <4>2. /\ IsFiniteSet(InRoomIds \cup {i})
                  /\ \/ Cardinality(InRoomIds \cup {i}) = Cardinality(InRoomIds)
                     \/ Cardinality(InRoomIds \cup {i}) = Cardinality(InRoomIds) + 1
                BY <4>1, FS_AddElement
            <4> QED
                BY <4>1, <4>2
        <3>3. /\ IsFiniteSet(InRoomIds') /\ Cardinality(InRoomIds') \in Nat
              /\ Cardinality(InRoomIds \cup {i}) \in Nat
              /\ Cardinality(InRoomIds') <= Cardinality(InRoomIds \cup {i})
            BY <3>1, <3>2, FS_Subset, FS_CardinalityType
        <3>4. hasFreeSpace' => Cardinality(InRoomIds) + 1 < MaxPlayers
            BY <2>2 DEF FreeSpace
        <3>5. hasFreeSpace' => Cardinality(InRoomIds') < MaxPlayers
            BY <1>1, <3>2, <3>3, <3>4
        <3> QED
            BY <3>3, <3>5 DEF FreeInv, FreeSpaceIsSafe
    <2> QED
        BY <1>4, <2>1, <2>2 DEF DoPlay, Uncreated
<1>5. CASE Connections
    BY <1>2, <1>5 DEF Connections, Greet, EnterRoom, Command, Disconnect, roomVars
<1>6. CASE Jobs
    <2>1. ASSUME DoJoin \/ DoLeave \/ DoSpectate \/ DoSplit
          PROVE  FreeInv'
        BY <1>2, <2>1 DEF DoJoin, DoLeave, DoSpectate, DoSplit, roomVars
    <2>2. ASSUME OnPlayerRespawn \/ OnPlayerDeath
          PROVE  FreeInv'
        BY <1>2, <2>2 DEF OnPlayerRespawn, OnPlayerDeath, roomVars
    <2> QED
        BY <1>3, <1>4, <1>6, <2>1, <2>2 DEF Jobs
<1>7. CASE Timers
    BY <1>2, <1>7 DEF Timers, BeginUpdate, Synchronize, UpdateLeaderboard, Annihilate, roomVars
<1>8. CASE Interactions \/ EndInteractions \/ RemoveAvatar
    BY <1>2, <1>8 DEF Interactions, Eat, EatenByMother, Explode, EndInteractions, RemoveAvatar, roomVars
<1>9. CASE UNCHANGED vars
    BY <1>2, <1>9 DEF vars, roomVars
<1> QED
    BY <1>5, <1>6, <1>7, <1>8, <1>9 DEF Next

-----------------------------------------------------------------------------
\* Nobody is alive in a room that was just created, and no place is taken.
LEMMA InitLifeInv ==
    ASSUME Init
    PROVE  LifeInv /\ FreeInv
<1>1. ASSUME NEW p \in Player
      PROVE  Lives(p)
    <2>1. Listed(deaths, p) = {}
        BY DEF Init, Listed
    <2>2. Cardinality(Listed(deaths, p)) = 0
        BY <2>1, FS_EmptySet
    <2>3. Held(p) = 0
        BY <2>2, HeldIs DEF Init
    <2> QED
        BY <2>3, RoomAssumption DEF Init, Lives, RoomAssumption
<1>2. FreeInv
    <2>1. InRoomIds = {}
        BY DEF Init, InRoomIds
    <2>2. hasFreeSpace <=> 0 < MaxPlayers
        BY DEF Init, FreeSpace
    <2> QED
        BY <2>1, <2>2, FS_EmptySet DEF FreeInv, FreeSpaceIsSafe
<1> QED
    BY <1>1, <1>2 DEF LifeInv

\* All of it together, from the start.
LEMMA AlwaysLifeInv ==
    Spec => [](LifeInv /\ FreeInv)
<1>1. Init => IInv /\ LifeInv /\ FreeInv
    BY InitIInv, InitLifeInv, LinksAssumption, RoomAssumption
<1>2. IInv /\ LifeInv /\ FreeInv /\ [Next]_vars => IInv' /\ LifeInv' /\ FreeInv'
    BY StepIInv, StepLifeInv, StepFreeInv, LinksAssumption, RoomAssumption
<1> QED
    BY <1>1, <1>2, PTL DEF Spec

\* A player is alive exactly as long as it holds an avatar, however its avatars
\* are eaten, split, explode and are annihilated, and whoever plays it again.
THEOREM RoomAliveHasAvatars == Spec => []AliveHasAvatars
<1>1. LifeInv => AliveHasAvatars
    BY DEF LifeInv, Lives, AliveHasAvatars
<1> QED
    BY <1>1, AlwaysLifeInv, PTL

\* A player never holds more avatars than configured, zombies included.
THEOREM RoomAvatarLimit == Spec => []AvatarLimit
<1>1. LifeInv => AvatarLimit
    BY DEF LifeInv, Lives, AvatarLimit
<1> QED
    BY <1>1, AlwaysLifeInv, PTL

\* A room that says it has a place has one.
THEOREM RoomFreeSpaceIsSafe == Spec => []FreeSpaceIsSafe
<1>1. FreeInv => FreeSpaceIsSafe
    BY DEF FreeInv
<1> QED
    BY <1>1, AlwaysLifeInv, PTL
=============================================================================
