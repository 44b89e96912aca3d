---------------------------- MODULE CellsProofs ----------------------------
(***************************************************************************)
(* For any number of addresses, limits and batches: the pointers the room  *)
(* keeps are to cells that were not deleted, a buried cell is forgotten,   *)
(* no cell dies twice, the counters agree, what lives is on the grid, and  *)
(* what moves is simulated.                                                *)
(***************************************************************************)
EXTENDS Cells, SequenceTheorems, FiniteSetTheorems, TLAPS

-----------------------------------------------------------------------------
\* Lists of different elements.

\* A list is a sequence, and has as many elements as it is long.
LEMMA ListIsSeq ==
    ASSUME NEW S, NEW n \in Nat, NEW list \in Lists(S, n)
    PROVE  /\ list \in Seq(S) /\ Len(list) = n /\ DOMAIN list = 1..n
           /\ Range(list) \subseteq S /\ IsInjective(list)
           /\ IsFiniteSet(Range(list)) /\ Cardinality(Range(list)) = n
<1>1. list \in [1..n -> S] /\ IsInjective(list)
    BY DEF Lists
<1>2. list \in Seq(S) /\ Len(list) = n /\ DOMAIN list = 1..n
    BY <1>1
<1>3. Range(list) \subseteq S
    BY <1>1 DEF Range
<1>4. list \in Bijection(1..n, Range(list))
    BY <1>1 DEF Range, Bijection, Injection, Surjection, IsInjective
<1>5. IsFiniteSet(1..n) /\ Cardinality(1..n) = n
    BY FS_Interval
<1>6. IsFiniteSet(Range(list)) /\ Cardinality(Range(list)) = n
    BY <1>4, <1>5, FS_Bijection DEF ExistsBijection
<1> QED
    BY <1>1, <1>2, <1>3, <1>6

\* Two sequences, one behind the other, repeat nothing.
LEMMA InjectiveConcat ==
    ASSUME NEW S, NEW s \in Seq(S), NEW t \in Seq(S)
    PROVE  IsInjective(s \o t) <=>
               IsInjective(s) /\ IsInjective(t) /\ Range(s) \cap Range(t) = {}
<1> DEFINE n == Len(s)
           m == Len(t)
           u == s \o t
<1>1. /\ n \in Nat /\ m \in Nat /\ DOMAIN s = 1..n /\ DOMAIN t = 1..m /\ DOMAIN u = 1..(n + m)
      /\ \A i \in 1..(n + m) : u[i] = IF i <= n THEN s[i] ELSE t[i - n]
    <2>1. /\ u \in Seq(S) /\ Len(u) = n + m
          /\ \A i \in 1..(n + m) : u[i] = IF i <= n THEN s[i] ELSE t[i - n]
        BY ConcatProperties
    <2> HIDE DEF u
    <2> QED
        BY <2>1, LenProperties
<1> HIDE DEF n, m, u
<1>2. /\ \A i \in 1..n : i \in 1..(n + m) /\ u[i] = s[i]
      /\ \A i \in 1..m : i + n \in 1..(n + m) /\ u[i + n] = t[i]
    BY <1>1
<1>3. ASSUME IsInjective(u)
      PROVE  IsInjective(s) /\ IsInjective(t) /\ Range(s) \cap Range(t) = {}
    <2>1. IsInjective(s)
        BY <1>1, <1>2, <1>3 DEF IsInjective
    <2>2. IsInjective(t)
        <3> SUFFICES ASSUME NEW i \in 1..m, NEW j \in 1..m, t[i] = t[j]
                     PROVE  i = j
            BY <1>1 DEF IsInjective
        <3>1. i + n = j + n
            BY <1>1, <1>2, <1>3 DEF IsInjective
        <3> QED
            BY <1>1, <3>1
    <2>3. Range(s) \cap Range(t) = {}
        <3> SUFFICES ASSUME NEW i \in 1..n, NEW j \in 1..m, s[i] = t[j]
                     PROVE  FALSE
            BY <1>1 DEF Range
        <3>1. i = j + n
            BY <1>1, <1>2, <1>3 DEF IsInjective
        <3> QED
            BY <1>1, <3>1
    <2> QED
        BY <2>1, <2>2, <2>3
<1>4. ASSUME IsInjective(s), IsInjective(t), Range(s) \cap Range(t) = {}
      PROVE  IsInjective(u)
    <2> SUFFICES ASSUME NEW i \in 1..(n + m), NEW j \in 1..(n + m), u[i] = u[j]
                 PROVE  i = j
        BY <1>1 DEF IsInjective
    <2>1. \A k \in 1..(n + m) : \/ k \in 1..n /\ u[k] = s[k]
                                \/ k - n \in 1..m /\ u[k] = t[k - n]
        BY <1>1
    <2>2. \A k \in 1..n, l \in 1..m : s[k] # t[l]
        BY <1>1, <1>4 DEF Range
    <2>3. CASE i \in 1..n /\ j \in 1..n
        <3>1. s[i] = s[j]
            BY <1>2, <2>3
        <3> QED
            BY <1>1, <1>4, <2>3, <3>1 DEF IsInjective
    <2>4. CASE i \notin 1..n /\ j \notin 1..n
        <3>1. i - n \in 1..m /\ j - n \in 1..m /\ t[i - n] = t[j - n]
            BY <2>1, <2>4
        <3>2. i - n = j - n
            BY <1>1, <1>4, <3>1 DEF IsInjective
        <3> QED
            BY <1>1, <3>2
    <2>5. CASE i \in 1..n /\ j \notin 1..n
        <3>1. u[i] = s[i] /\ j - n \in 1..m /\ u[j] = t[j - n]
            BY <2>1, <2>5, <1>2
        <3> QED
            BY <2>2, <2>5, <3>1, Zenon
    <2>6. CASE i \notin 1..n /\ j \in 1..n
        <3>1. u[j] = s[j] /\ i - n \in 1..m /\ u[i] = t[i - n]
            BY <2>1, <2>6, <1>2
        <3> QED
            BY <2>2, <2>6, <3>1, Zenon
    <2> QED
        BY <2>3, <2>4, <2>5, <2>6
<1> QED
    BY <1>3, <1>4 DEF u

\* A sequence of one or of two elements.
LEMMA ShortLists ==
    ASSUME NEW c, NEW d
    PROVE  /\ <<c>> \in Seq({c}) /\ Range(<<c>>) = {c} /\ IsInjective(<<c>>)
           /\ <<c, d>> \in Seq({c, d}) /\ Range(<<c, d>>) = {c, d}
           /\ c # d => IsInjective(<<c, d>>)
BY DEF Range, IsInjective

\* The first element of a sequence that repeats nothing.
LEMMA InjectiveTail ==
    ASSUME NEW S, NEW s \in Seq(S), s # <<>>, IsInjective(s)
    PROVE  /\ Head(s) \in S /\ Tail(s) \in Seq(S) /\ IsInjective(Tail(s))
           /\ Range(s) = Range(Tail(s)) \cup {Head(s)} /\ Head(s) \notin Range(Tail(s))
<1>1. /\ Head(s) \in S /\ Tail(s) \in Seq(S) /\ s = <<Head(s)>> \o Tail(s)
      /\ <<Head(s)>> \in Seq(S)
    <2>1. /\ Len(s) \in Nat /\ Len(s) >= 1 /\ Head(s) = s[1]
        BY EmptySeq
    <2>2. 1 \in 1..Len(s) /\ Len(s) \in 1..Len(s)
        BY <2>1
    <2>3. SubSeq(s, 1, Len(s)) = <<s[1]>> \o SubSeq(s, 2, Len(s))
        BY <2>2, SubSeqRecursiveFirst
    <2>4. SubSeq(s, 1, Len(s)) = s /\ SubSeq(s, 2, Len(s)) = Tail(s)
        BY SubSeqFull, TailIsSubSeq
    <2>5. Head(s) \in S /\ Tail(s) \in Seq(S)
        BY HeadTailProperties
    <2>6. <<Head(s)>> \in Seq(S)
        BY <2>5
    <2> QED
        BY <2>1, <2>3, <2>4, <2>5, <2>6, Zenon
<1> DEFINE h == <<Head(s)>>
           r == Tail(s)
<1>2. Range(h) = {Head(s)} /\ h \in Seq(S) /\ r \in Seq(S) /\ s = h \o r
    BY <1>1, ShortLists
<1>3. Range(h \o r) = Range(h) \cup Range(r) /\ Range(h) \cap Range(r) = {} /\ IsInjective(r)
    <2> HIDE DEF h, r
    <2>1. Range(h \o r) = Range(h) \cup Range(r)
        BY <1>2, RangeConcatenation
    <2>2. IsInjective(h \o r)
        BY <1>2, Zenon
    <2> QED
        BY <1>2, <2>1, <2>2, InjectiveConcat
<1>4. Head(s) \notin Range(r) /\ Range(s) = Range(r) \cup {Head(s)}
    <2> HIDE DEF h, r
    <2> QED
        BY <1>2, <1>3
<1> QED
    BY <1>1, <1>3, <1>4

-----------------------------------------------------------------------------
\* The invariant.

\* The cells that are neither free nor buried.
Here == Allocated \ Range(deadCells)

EventOf(S) == [op : {"mass", "started", "stopped"}, cell : S]
Going(S) == [op : {"mass", "started"}, cell : S]

\* What the room points to, and what is left to handle.
Known ==
    /\ \A r \in Registries : registry[r] \subseteq Here
    /\ grid \cup mobs \subseteq Here
    /\ game \in Seq(EventOf(Here))
    /\ Range(deaths) \cup Range(deadCells) \subseteq Allocated

\* A cell dies once: its death is to come, or behind it.
Once ==
    /\ zombie = Range(deaths) \cup Range(deadCells)
    /\ IsInjective(deaths) /\ IsInjective(deadCells)
    /\ Range(deaths) \cap Range(deadCells) = {}

\* When the deaths are handled, no event is left that could name the dead.
DeathsLast == phase = "death" => game = <<>>

IInv == TypeOK /\ Known /\ Once /\ QuantitiesAgree /\ LivingAreOnGrid /\ DeathsLast

-----------------------------------------------------------------------------
\* What making cells does, and what not making any does.

\* The cells of N are made, and added to the registries reg.
Makes(reg, N) ==
    /\ kind' \in [Cell -> Kinds \cup {"none"}]
    /\ id' \in [Cell -> Nat] /\ unusedIds' \in Seq(Nat) /\ nextId' \in Nat
    /\ quantity' \in [Counted -> Nat]
    /\ registry' \in [Registries -> SUBSET Cell]
    /\ N \subseteq Free
    /\ Allocated' = Allocated \cup N
    /\ \A r \in Registries : registry'[r] \subseteq reg[r] \cup N
    /\ registry'["created"] = reg["created"] \cup N
    /\ registry'["processing"] = reg["processing"]
    /\ mobs' \subseteq mobs \cup N
    /\ \A k \in Counted : quantity'[k] = Cardinality(OfKind(k)' \ Range(deadCells))

\* Ids are taken from the stack, then from the counter.
LEMMA PopIdsGives ==
    ASSUME unusedIds \in Seq(Nat), nextId \in Nat, NEW n \in Nat, PopIds(n)
    PROVE  /\ unusedIds' \in Seq(Nat) /\ nextId' \in Nat
           /\ \A i \in 1..n : Popped(n)[i] \in Nat
<1> DEFINE u == Len(unusedIds)
           m == u - Min2(n, u)
<1>1. u \in Nat /\ \A i \in 1..u : unusedIds[i] \in Nat
    OBVIOUS
<1>2. m \in Nat /\ m <= u /\ n - Min2(n, u) \in Nat
    BY <1>1 DEF Min2
<1>3. SubSeq(unusedIds, 1, m) \in Seq(Nat)
    <2>1. \A i \in 1..m : unusedIds[i] \in Nat
        BY <1>1, <1>2
    <2> HIDE DEF m
    <2> QED
        BY <1>2, <2>1, SubSeqProperties
<1>4. \A i \in 1..n : Popped(n)[i] \in Nat
    BY <1>1 DEF Popped
<1> QED
    BY <1>2, <1>3, <1>4 DEF PopIds

\* Nothing is made.
LEMMA NothingMade ==
    ASSUME IInv, NEW reg \in [Registries -> SUBSET Cell], registry' = reg,
           UNCHANGED <<kind, id, mobs, quantity, unusedIds, nextId>>
    PROVE  Makes(reg, {})
<1>1. Allocated' = Allocated /\ \A k \in Counted : OfKind(k)' = OfKind(k)
    BY DEF Allocated, OfKind
<1> QED
    BY <1>1 DEF IInv, TypeOK, Makes, QuantitiesAgree

\* n cells of kind k are made.
LEMMA CellsMade ==
    ASSUME CellsAssumption, IInv, NEW reg \in [Registries -> SUBSET Cell],
           NEW n \in Nat, NEW new \in Lists(Free, n), NEW k \in Kinds, CreateIn(reg, new, k)
    PROVE  Makes(reg, Range(new))
<1> DEFINE N == Range(new)
           dead == Range(deadCells)
<1>1. /\ DOMAIN new = 1..n /\ Len(new) = n /\ N \subseteq Free
      /\ IsFiniteSet(N) /\ Cardinality(N) = n
    BY ListIsSeq
<1>2. TypeOK /\ N \subseteq Cell /\ \A c \in N : kind[c] = "none"
    BY <1>1 DEF IInv, Free, Allocated
<1>3. PopIds(n)
    BY <1>1 DEF CreateIn
<1>4. /\ unusedIds' \in Seq(Nat) /\ nextId' \in Nat
      /\ \A i \in 1..n : Popped(n)[i] \in Nat
    BY <1>2, <1>3, PopIdsGives DEF TypeOK
<1>5. id' \in [Cell -> Nat]
    <2>1. \A c \in N : (CHOOSE i \in DOMAIN new : new[i] = c) \in 1..n
        BY <1>1 DEF Range
    <2>2. id' = [c \in Cell |-> IF c \in N THEN Popped(n)[CHOOSE i \in DOMAIN new : new[i] = c]
                                           ELSE id[c]]
        BY <1>1 DEF CreateIn
    <2>3. \A c \in Cell : c \in N => Popped(n)[CHOOSE i \in DOMAIN new : new[i] = c] \in Nat
        BY <1>4, <2>1
    <2> HIDE DEF N
    <2> QED
        BY <1>2, <2>2, <2>3 DEF TypeOK
<1>6. /\ kind' = [c \in Cell |-> IF c \in N THEN k ELSE kind[c]]
      /\ registry' = [r \in Registries |-> IF r \in Options(k) THEN reg[r] \cup N ELSE reg[r]]
      /\ mobs' \subseteq mobs \cup N
      /\ quantity' = IF k \in Counted THEN [quantity EXCEPT ![k] = @ + n] ELSE quantity
    BY <1>1 DEF CreateIn
<1> HIDE DEF N
<1>7. "created" \in Options(k) /\ "processing" \notin Options(k)
    BY DEF Options
<1>8. kind' \in [Cell -> Kinds \cup {"none"}] /\ Allocated' = Allocated \cup N
    BY <1>2, <1>6 DEF TypeOK, Allocated, Kinds, Counted
<1>9. /\ registry' \in [Registries -> SUBSET Cell]
      /\ \A r \in Registries : registry'[r] \subseteq reg[r] \cup N
      /\ registry'["created"] = reg["created"] \cup N
      /\ registry'["processing"] = reg["processing"]
    BY <1>2, <1>6, <1>7 DEF Registries
<1>10. ASSUME NEW q \in Counted
       PROVE  quantity'[q] \in Nat /\ quantity'[q] = Cardinality(OfKind(q)' \ dead)
    <2> DEFINE Q == OfKind(q) \ dead
    <2>1. IsFiniteSet(Q) /\ quantity[q] = Cardinality(Q) /\ quantity[q] \in Nat
        <3>1. IsFiniteSet(Q)
            BY FS_Subset DEF CellsAssumption, OfKind
        <3> QED
            BY <1>2, <3>1 DEF IInv, QuantitiesAgree, TypeOK
    <2>2. N \cap Q = {} /\ N \cap dead = {}
        BY <1>2 DEF IInv, Known, Allocated, OfKind, Counted
    <2>3. CASE q = k
        <3>1. OfKind(q)' \ dead = Q \cup N
            BY <1>2, <1>6, <2>2, <2>3 DEF OfKind
        <3>2. Cardinality(Q \cup N) = Cardinality(Q) + n
            <4>1. Q \cap N = {}
                BY <2>2
            <4> HIDE DEF Q
            <4> QED
                <5>1. IsFiniteSet(N) /\ Cardinality(N) = n
                    BY <1>1 DEF N
                <5>2. Cardinality(Q \cup N) = Cardinality(Q) + Cardinality(N) - Cardinality(Q \cap N)
                    BY <2>1, <5>1, FS_Union
                <5>3. Cardinality(Q \cap N) = 0 /\ Cardinality(Q) \in Nat
                    BY <2>1, <4>1, FS_EmptySet, FS_CardinalityType
                <5> QED
                    BY <5>1, <5>2, <5>3
        <3>3. quantity'[q] = quantity[q] + n
            BY <1>2, <1>6, <2>3 DEF TypeOK
        <3>4. quantity'[q] \in Nat
            BY <2>1, <3>3
        <3>5. quantity'[q] = Cardinality(Q \cup N)
            BY <2>1, <3>2, <3>3
        <3> QED
            BY <3>1, <3>4, <3>5, Zenon
    <2>4. CASE q # k
        <3>1. OfKind(q)' \ dead = Q
            BY <1>2, <1>6, <2>4 DEF OfKind, Counted
        <3>2. quantity'[q] = quantity[q]
            BY <1>2, <1>6, <2>4 DEF TypeOK
        <3> QED
            BY <2>1, <3>1, <3>2
    <2> QED
        BY <2>3, <2>4
<1>11. quantity' \in [Counted -> Nat]
    BY <1>2, <1>6, <1>10 DEF TypeOK
<1> QED
    BY <1>1, <1>4, <1>5, <1>6, <1>8, <1>9, <1>10, <1>11 DEF Makes, N

-----------------------------------------------------------------------------
\* What killing cells does, and what not killing any does.
Kills ==
    /\ zombie' \subseteq Cell /\ deaths' \in Seq(Cell)
    /\ Range(deaths') \subseteq Allocated
    /\ Once'

LEMMA NobodyKilled ==
    ASSUME IInv, NoKill, deadCells' = deadCells
    PROVE  Kills
BY DEF Kills, NoKill, IInv, TypeOK, Known, Once

LEMMA CellsKilled ==
    ASSUME IInv, NEW list \in Seq(Here \ zombie), IsInjective(list), Kill(list),
           deadCells' = deadCells
    PROVE  Kills
<1>1. /\ TypeOK /\ Once /\ Range(deaths) \subseteq Allocated
      /\ Here \subseteq Cell \ Range(deadCells) /\ Here \subseteq Allocated
    BY DEF IInv, Known, Here, Allocated
<1>2. list \in Seq(Cell) /\ Range(list) \subseteq Here \ zombie
    <2>1. Range(list) \in SUBSET (Here \ zombie)
        BY RangeOfSeq
    <2>2. Here \ zombie \subseteq Cell
        BY <1>1
    <2> QED
        BY <2>1, <2>2, SeqMonotonic
<1>3. deaths \in Seq(Cell)
    BY <1>1 DEF TypeOK
<1>4. deaths' = deaths \o list /\ zombie' = zombie \cup Range(list)
    BY DEF Kill
<1>5. deaths' \in Seq(Cell) /\ Range(deaths') = Range(deaths) \cup Range(list)
    BY <1>2, <1>3, <1>4, RangeConcatenation, ConcatProperties
<1>6. IsInjective(deaths')
    <2>1. Range(deaths) \cap Range(list) = {}
        BY <1>1, <1>2 DEF Once
    <2> QED
        BY <1>1, <1>2, <1>3, <1>4, <2>1, InjectiveConcat DEF Once
<1>7. Once'
    <2>1. zombie' = Range(deaths') \cup Range(deadCells')
        BY <1>1, <1>4, <1>5 DEF Once
    <2>2. Range(deaths') \cap Range(deadCells') = {}
        BY <1>1, <1>2, <1>5 DEF Once
    <2> QED
        BY <1>1, <1>6, <2>1, <2>2 DEF Once
<1>8. Range(deaths') \subseteq Allocated /\ zombie' \subseteq Cell
    BY <1>1, <1>2, <1>4, <1>5 DEF TypeOK
<1> QED
    BY <1>5, <1>7, <1>8 DEF Kills

-----------------------------------------------------------------------------
\* What emitting events does.

\* Events about cells of T are posted behind events about cells of S.
LEMMA EventsPosted ==
    ASSUME NEW S, NEW T, S \subseteq T, NEW g \in Seq(EventOf(S)), NEW h \in Seq(EventOf(T))
    PROVE  g \o h \in Seq(EventOf(T))
<1>1. EventOf(S) \subseteq EventOf(T)
    BY DEF EventOf
<1>2. g \in Seq(EventOf(T))
    BY <1>1, SeqMonotonic
<1> QED
    BY <1>2, ConcatProperties

\* Masses and starts are events.
LEMMA GoingAreEvents ==
    ASSUME NEW S, NEW h \in Seq(Going(S))
    PROVE  h \in Seq(EventOf(S))
<1>1. Going(S) \subseteq EventOf(S)
    BY DEF Going, EventOf
<1> QED
    BY <1>1, SeqMonotonic

\* The masses and the starts of one cell, of a list of cells, and none at all.
LEMMA GoingEmitted ==
    ASSUME NEW S, NEW op \in {"mass", "started"}, NEW k
    PROVE  /\ <<>> \in Seq(Going(S))
           /\ \A c \in S : Emit(op, c, k) \in Seq(Going(S))
           /\ \A n \in Nat : \A list \in [1..n -> S] : EmitAll(op, list, k) \in Seq(Going(S))
<1>1. <<>> \in Seq(Going(S))
    OBVIOUS
<1>2. ASSUME NEW c \in S
      PROVE  Emit(op, c, k) \in Seq(Going(S))
    <2>1. [op |-> op, cell |-> c] \in Going(S)
        BY DEF Going
    <2> QED
        BY <1>1, <2>1 DEF Emit
<1>3. ASSUME NEW n \in Nat, NEW list \in [1..n -> S]
      PROVE  EmitAll(op, list, k) \in Seq(Going(S))
    <2> DEFINE all == [i \in 1..n |-> [op |-> op, cell |-> list[i]]]
    <2>1. all \in [1..n -> Going(S)]
        BY DEF Going
    <2>2. all \in Seq(Going(S))
        <3> HIDE DEF all
        <3> QED
            BY <2>1
    <2>3. DOMAIN list = 1..n
        OBVIOUS
    <2> QED
        BY <1>1, <2>2, <2>3, Zenon DEF EmitAll
<1> QED
    BY <1>1, <1>2, <1>3

LEMMA EventsEmitted ==
    ASSUME NEW S, NEW op \in {"mass", "started"}, NEW k
    PROVE  /\ <<>> \in Seq(EventOf(S))
           /\ \A c \in S : Emit(op, c, k) \in Seq(EventOf(S))
           /\ \A n \in Nat : \A list \in [1..n -> S] : EmitAll(op, list, k) \in Seq(EventOf(S))
BY GoingEmitted, GoingAreEvents

-----------------------------------------------------------------------------
\* A step that buries no cell and puts none on the grid.
LEMMA LivingStep ==
    ASSUME IInv, NEW N, NEW reg, Makes(reg, N), Kills,
           \A r \in Registries : reg[r] \subseteq Here,
           reg["created"] = registry["created"],
           grid' = grid, deadCells' = deadCells, moving' \subseteq Cell,
           game' \in Seq(EventOf(Here \cup N)),
           phase' \in {"idle", "requests", "interact", "game", "death"},
           phase' = "interact" =>
               phase = "interact" /\ reg["processing"] = registry["processing"],
           phase' = "death" => game' = <<>>
    PROVE  IInv'
<1>1. /\ TypeOK /\ Known /\ Once /\ LivingAreOnGrid
      /\ {"created", "processing"} \subseteq Registries
    BY DEF IInv, Registries
<1>2. /\ Here = Allocated \ Range(deadCells)
      /\ N \cap Allocated = {} /\ N \subseteq Cell
      /\ Range(deadCells) \subseteq Allocated
    BY <1>1 DEF Here, Makes, Free, Known
<1>3. Here' = Here \cup N
    BY <1>2 DEF Here, Makes
<1>4. Here' \subseteq Cell
    BY DEF Here, Allocated
<1>5. game' \in Seq(EventOf(Here'))
    BY <1>3
<1>6. game' \in Seq(Event)
    <2>1. EventOf(Here') \subseteq Event
        BY <1>4 DEF EventOf, Event
    <2> QED
        BY <1>5, <2>1, SeqMonotonic
<1>7. grid' \cup mobs' \subseteq Here'
    BY <1>1, <1>3 DEF Known, Makes
<1>8. TypeOK'
    BY <1>1, <1>4, <1>6, <1>7 DEF TypeOK, Makes, Kills
<1>9. Known'
    <2>1. \A r \in Registries : registry'[r] \subseteq Here'
        BY <1>3 DEF Makes
    <2>2. Range(deaths') \cup Range(deadCells') \subseteq Allocated'
        BY <1>2 DEF Makes, Kills
    <2> QED
        BY <1>5, <1>7, <2>1, <2>2 DEF Known
<1>10. QuantitiesAgree'
    BY DEF Makes, QuantitiesAgree
<1>11. LivingAreOnGrid'
    <2>1. grid' \cup registry'["created"] = Here'
        BY <1>1, <1>3 DEF Makes, LivingAreOnGrid, Here
    <2>2. grid' \cap registry'["created"] = {}
        BY <1>1, <1>2 DEF Makes, LivingAreOnGrid, Known
    <2>3. phase' = "interact" => registry'["processing"] \subseteq grid'
        BY <1>1 DEF Makes, LivingAreOnGrid
    <2> QED
        BY <2>1, <2>2, <2>3 DEF LivingAreOnGrid, Here
<1>12. DeathsLast' /\ Once'
    BY DEF DeathsLast, Kills
<1> QED
    BY <1>8, <1>9, <1>10, <1>11, <1>12 DEF IInv

\* What the invariant says of the cells the actions name.
LEMMA Present ==
    ASSUME CellsAssumption, IInv
    PROVE  /\ registry \in [Registries -> SUBSET Cell] /\ moving \subseteq Cell /\ Here \subseteq Cell
           /\ \A r \in Registries : registry[r] \subseteq Here
           /\ grid \subseteq Here /\ mobs \subseteq Here
           /\ game \in Seq(EventOf(Here))
           /\ \A S \in SUBSET Cell : IsFiniteSet(S) /\ Cardinality(S) \in Nat
           /\ Free \subseteq Cell /\ Here \cap Free = {}
           /\ \A k \in Kinds : OfKind(k) \subseteq Cell /\ Living(k) \subseteq Here \ zombie
           /\ Counted \subseteq Kinds
<1>1. \A S \in SUBSET Cell : IsFiniteSet(S) /\ Cardinality(S) \in Nat
    BY FS_Subset, FS_CardinalityType DEF CellsAssumption
<1>2. \A k \in Kinds : OfKind(k) \subseteq Cell /\ Living(k) \subseteq Here \ zombie
    BY DEF IInv, Once, Living, OfKind, Here, Allocated, Kinds, Counted
<1>3. Free \subseteq Cell /\ Here \cap Free = {} /\ Here \subseteq Cell /\ Counted \subseteq Kinds
    BY DEF Free, Here, Allocated, Kinds
<1> QED
    BY <1>1, <1>2, <1>3 DEF IInv, TypeOK, Known

\* A list of cells that are here and live is one that can be killed.
LEMMA ListKilled ==
    ASSUME IInv, NEW S, S \subseteq Here \ zombie, NEW n \in Nat, NEW list \in Lists(S, n),
           Kill(list), deadCells' = deadCells
    PROVE  Kills
<1>1. list \in Seq(S) /\ IsInjective(list)
    BY ListIsSeq
<1>2. list \in Seq(Here \ zombie)
    BY <1>1, SeqMonotonic
<1> QED
    BY <1>1, <1>2, CellsKilled

\* A step that makes the cells of a list.
LEMMA MakingStep ==
    ASSUME CellsAssumption, IInv,
           NEW n \in Nat, NEW new \in Lists(Free, n), NEW k \in Kinds, Create(new, k), Kills,
           phase \in {"idle", "requests", "interact"}, phase' = phase,
           grid' = grid, deadCells' = deadCells, moving' \subseteq moving \cup Range(new) \cup Here,
           game' \in Seq(EventOf(Here \cup Range(new)))
    PROVE  IInv'
<1>1. /\ registry \in [Registries -> SUBSET Cell]
      /\ \A r \in Registries : registry[r] \subseteq Here
      /\ moving \subseteq Cell /\ Here \subseteq Cell /\ Free \subseteq Cell
    BY Present
<1>2. Makes(registry, Range(new))
    BY <1>1, CellsMade DEF Create
<1>3. moving' \subseteq Cell
    BY <1>1, <1>2 DEF Makes
<1> QED
    BY <1>1, <1>2, <1>3, LivingStep

\* A step that makes no cell.
LEMMA QuietStep ==
    ASSUME CellsAssumption, IInv, Unmade, Kills,
           phase' \in {"idle", "requests", "interact", "game", "death"},
           phase' = "interact" => phase = "interact",
           phase' = "death" => game' = <<>>,
           grid' = grid, deadCells' = deadCells, moving' \subseteq moving \cup Here,
           game' \in Seq(EventOf(Here))
    PROVE  IInv'
<1>1. /\ registry \in [Registries -> SUBSET Cell]
      /\ \A r \in Registries : registry[r] \subseteq Here
      /\ moving \subseteq Cell /\ Here \subseteq Cell
    BY Present
<1>2. Makes(registry, {})
    BY <1>1, NothingMade DEF Unmade
<1>3. Here \cup {} = Here
    OBVIOUS
<1> QED
    BY <1>1, <1>2, <1>3, LivingStep

-----------------------------------------------------------------------------
\* The handlers between two updates, and the requests.

\* Cells of one kind are made and announced, with others or without.
LEMMA AnnouncedStep ==
    ASSUME CellsAssumption, IInv,
           NEW n \in Nat, NEW new \in Lists(Free, n), NEW k \in Kinds, Create(new, k), Kills,
           phase \in {"idle", "requests", "interact"}, phase' = phase,
           grid' = grid, deadCells' = deadCells, moving' \subseteq moving \cup Range(new) \cup Here,
           game' = game \o EmitAll("mass", new, k)
    PROVE  IInv'
<1>1. new \in [1..n -> Here \cup Range(new)]
    BY DEF Lists, Range
<1>2. EmitAll("mass", new, k) \in Seq(EventOf(Here \cup Range(new)))
    BY <1>1, EventsEmitted
<1>3. game' \in Seq(EventOf(Here \cup Range(new)))
    BY <1>2, Present, EventsPosted
<1> QED
    BY <1>3, MakingStep

LEMMA GenerateIInv ==
    ASSUME CellsAssumption, IInv, NEW k \in Counted, Generate(k)
    PROVE  IInv'
<1>1. ToGenerate(k) \in Nat
    BY DEF ToGenerate, Min2, Generate, CellsAssumption, IInv, TypeOK
<1>2. PICK new \in Lists(Free, ToGenerate(k)) :
          Create(new, k) /\ game' = game \o EmitAll("mass", new, k)
    BY DEF Generate
<1>3. /\ NoKill /\ grid' = grid /\ moving' = moving /\ deadCells' = deadCells
      /\ phase = "idle" /\ phase' = phase
    BY DEF Generate
<1>4. Kills
    BY <1>3, NobodyKilled
<1>5. k \in Kinds
    BY DEF Kinds
<1> QED
    BY <1>1, <1>2, <1>3, <1>4, <1>5, AnnouncedStep

LEMMA GenerateFoodByMothersIInv ==
    ASSUME CellsAssumption, IInv, GenerateFoodByMothers
    PROVE  IInv'
<1>1. PICK n \in 1..Cardinality(Free) : \E new \in Lists(Free, n) :
          Create(new, "food") /\ moving' = moving \cup Range(new)
    BY DEF GenerateFoodByMothers
<1>2. n \in Nat
    BY Present
<1>3. PICK new \in Lists(Free, n) : Create(new, "food") /\ moving' = moving \cup Range(new)
    BY <1>1
<1>4. /\ NoKill /\ grid' = grid /\ deadCells' = deadCells /\ game' = game
      /\ phase = "idle" /\ phase' = phase
    BY DEF GenerateFoodByMothers
<1>5. Kills
    BY <1>4, NobodyKilled
<1>6. game' \in Seq(EventOf(Here \cup Range(new)))
    <2>1. EventOf(Here) \subseteq EventOf(Here \cup Range(new))
        BY DEF EventOf
    <2> QED
        BY <1>4, <2>1, Present, SeqMonotonic
<1>7. "food" \in Kinds
    BY DEF Kinds, Counted
<1> QED
    BY <1>2, <1>3, <1>4, <1>5, <1>6, <1>7, MakingStep

LEMMA RespawnIInv ==
    ASSUME CellsAssumption, IInv, Respawn
    PROVE  IInv'
<1>1. PICK new \in Lists(Free, 1) :
          Create(new, "avatar") /\ game' = game \o EmitAll("mass", new, "avatar")
    BY DEF Respawn
<1>2. /\ NoKill /\ grid' = grid /\ moving' = moving /\ deadCells' = deadCells
      /\ phase = "idle" /\ phase' = phase
    BY DEF Respawn
<1>3. Kills
    BY <1>2, NobodyKilled
<1>4. "avatar" \in Kinds
    BY DEF Kinds
<1> QED
    BY <1>1, <1>2, <1>3, <1>4, AnnouncedStep

LEMMA AnnihilateIInv ==
    ASSUME CellsAssumption, IInv, Annihilate
    PROVE  IInv'
<1>1. "avatar" \in Kinds /\ "virus" \in Kinds
    BY DEF Kinds, Counted
<1>2. Living("avatar") \subseteq Here \ zombie /\ Cardinality(Living("avatar")) \in Nat
    BY <1>1, Present
<1>3. PICK n \in 1..Cardinality(Living("avatar")) :
          \E list \in Lists(Living("avatar"), n), new \in Lists(Free, n) :
              /\ Create(new, "virus")
              /\ game' = game \o EmitAll("mass", new, "virus")
              /\ Kill(list)
    BY DEF Annihilate
<1>4. n \in Nat
    BY <1>2
<1>5. PICK list \in Lists(Living("avatar"), n), new \in Lists(Free, n) :
              /\ Create(new, "virus")
              /\ game' = game \o EmitAll("mass", new, "virus")
              /\ Kill(list)
    BY <1>3
<1>6. /\ grid' = grid /\ moving' = moving /\ deadCells' = deadCells
      /\ phase = "idle" /\ phase' = phase
    BY DEF Annihilate
<1>7. Kills
    BY <1>2, <1>4, <1>5, <1>6, ListKilled
<1> QED
    BY <1>1, <1>4, <1>5, <1>6, <1>7, AnnouncedStep

LEMMA KillExpiredCellsIInv ==
    ASSUME CellsAssumption, IInv, KillExpiredCells
    PROVE  IInv'
<1>1. mobs \ zombie \subseteq Here \ zombie /\ Cardinality(mobs \ zombie) \in Nat
    <2>1. mobs \ zombie \subseteq Cell
        BY Present
    <2> QED
        BY <2>1, Present
<1>2. PICK n \in 1..Cardinality(mobs \ zombie) : \E list \in Lists(mobs \ zombie, n) : Kill(list)
    BY DEF KillExpiredCells
<1>3. n \in Nat
    BY <1>1
<1>4. /\ Unmade /\ grid' = grid /\ moving' = moving /\ deadCells' = deadCells
      /\ game' = game /\ phase = "idle" /\ phase' = phase
    BY DEF KillExpiredCells
<1>5. Kills
    BY <1>1, <1>2, <1>3, <1>4, ListKilled
<1>6. game' \in Seq(EventOf(Here))
    BY <1>4, Present
<1> QED
    BY <1>4, <1>5, <1>6, QuietStep

LEMMA EmitForAvatarsIInv ==
    ASSUME CellsAssumption, IInv, NEW op \in {"mass", "started"}, EmitForAvatars(op),
           phase \in {"idle", "requests"}
    PROVE  IInv'
<1>1. Living("avatar") \subseteq Here /\ Cardinality(Living("avatar")) \in Nat
    <2>1. "avatar" \in Kinds
        BY DEF Kinds
    <2> QED
        BY <2>1, Present
<1>2. PICK n \in 1..Cardinality(Living("avatar")) : \E list \in Lists(Living("avatar"), n) :
          game' = game \o EmitAll(op, list, "avatar")
    BY DEF EmitForAvatars
<1>3. n \in Nat
    BY <1>1
<1>4. PICK list \in Lists(Living("avatar"), n) : game' = game \o EmitAll(op, list, "avatar")
    BY <1>2
<1>5. EmitAll(op, list, "avatar") \in Seq(EventOf(Here))
    <2>1. list \in [1..n -> Here]
        BY <1>1 DEF Lists
    <2> QED
        BY <1>3, <2>1, EventsEmitted
<1>6. game' \in Seq(EventOf(Here))
    BY <1>4, <1>5, Present, ConcatProperties
<1>7. /\ Unmade /\ NoKill /\ grid' = grid /\ moving' = moving /\ deadCells' = deadCells
      /\ phase' = phase
    BY DEF EmitForAvatars
<1>8. Kills
    BY <1>7, NobodyKilled
<1> QED
    BY <1>6, <1>7, <1>8, QuietStep

LEMMA EjectIInv ==
    ASSUME CellsAssumption, IInv, NEW c \in Living("avatar"), Eject(c)
    PROVE  IInv'
<1>1. "avatar" \in Kinds /\ "bullet" \in Kinds
    BY DEF Kinds
<1>2. c \in Here
    BY <1>1, Present
<1>3. PICK new \in Lists(Free, 1) :
          Create(new, "bullet") /\ moving' \subseteq moving \cup Range(new)
    BY DEF Eject
<1>4. /\ NoKill /\ grid' = grid /\ deadCells' = deadCells
      /\ phase = "requests" /\ phase' = phase /\ game' = game \o Emit("mass", c, "avatar")
    BY DEF Eject
<1>5. Kills
    BY <1>4, NobodyKilled
<1>6. game' \in Seq(EventOf(Here \cup Range(new)))
    <2>1. Emit("mass", c, "avatar") \in Seq(EventOf(Here \cup Range(new)))
        BY <1>2, EventsEmitted
    <2> QED
        BY <1>4, <2>1, Present, EventsPosted
<1> QED
    BY <1>1, <1>3, <1>4, <1>5, <1>6, MakingStep

LEMMA SplitIInv ==
    ASSUME CellsAssumption, IInv, NEW c \in Living("avatar"), Split(c)
    PROVE  IInv'
<1>1. "avatar" \in Kinds
    BY DEF Kinds
<1>2. c \in Here
    BY <1>1, Present
<1>3. PICK new \in Lists(Free, 1), pushed \in BOOLEAN :
          /\ Create(new, "avatar") /\ moving' \subseteq moving \cup Range(new)
          /\ game' = game \o EmitAll("mass", new, "avatar") \o Emit("mass", c, "avatar")
                          \o (IF pushed THEN EmitAll("started", new, "avatar") ELSE <<>>)
    BY DEF Split
<1>4. /\ NoKill /\ grid' = grid /\ deadCells' = deadCells
      /\ phase = "requests" /\ phase' = phase
    BY DEF Split
<1>5. Kills
    BY <1>4, NobodyKilled
<1>6. game' \in Seq(EventOf(Here \cup Range(new)))
    <2> DEFINE E == Seq(EventOf(Here \cup Range(new)))
               started == IF pushed THEN EmitAll("started", new, "avatar") ELSE <<>>
    <2>1. new \in [1..1 -> Here \cup Range(new)]
        BY DEF Lists, Range
    <2>2. EmitAll("mass", new, "avatar") \in E /\ EmitAll("started", new, "avatar") \in E
        BY <2>1, EventsEmitted
    <2>3. Emit("mass", c, "avatar") \in E /\ started \in E
        BY <1>2, <2>2, EventsEmitted
    <2>4. game \o EmitAll("mass", new, "avatar") \in E
        BY <2>2, Present, EventsPosted
    <2>5. game \o EmitAll("mass", new, "avatar") \o Emit("mass", c, "avatar") \in E
        BY <2>3, <2>4, ConcatProperties
    <2> HIDE DEF started
    <2>6. game \o EmitAll("mass", new, "avatar") \o Emit("mass", c, "avatar") \o started \in E
        BY <2>3, <2>5, ConcatProperties
    <2> QED
        BY <1>3, <2>6 DEF started
<1> QED
    BY <1>1, <1>3, <1>4, <1>5, <1>6, MakingStep

-----------------------------------------------------------------------------
\* The simulation and the collisions.

LEMMA SimulateIInv ==
    ASSUME CellsAssumption, IInv, Simulate
    PROVE  IInv'
<1>1. /\ TypeOK /\ Known /\ Once /\ LivingAreOnGrid /\ QuantitiesAgree
      /\ {"created", "processing", "activated", "modified"} \subseteq Registries
    BY DEF IInv, Registries
<1>2. /\ UNCHANGED <<kind, id, zombie, deaths, mobs, quantity, deadCells, unusedIds, nextId>>
      /\ phase' = "interact" /\ grid' = grid \cup registry["created"]
      /\ registry' = [registry EXCEPT !["created"] = {}, !["activated"] = {},
                         !["processing"] = ToProcess, !["modified"] = @ \cup ToProcess]
    BY DEF Simulate, NoKill, ToGrid
<1>3. Here' = Here /\ Allocated' = Allocated /\ \A k \in Counted : OfKind(k)' = OfKind(k)
    BY <1>2 DEF Here, Allocated, OfKind
<1>4. Here \subseteq Cell /\ Here = grid \cup registry["created"]
    BY <1>1 DEF LivingAreOnGrid, Here, Allocated
<1>5. ToProcess \subseteq Here
    BY <1>1 DEF ToProcess, Known
<1>6. \A r \in Registries : registry'[r] \subseteq Here
    BY <1>1, <1>2, <1>5 DEF TypeOK, Known
<1>7. game' \in Seq(EventOf(Here)) /\ moving' \subseteq Cell
    <2>1. Cardinality(ToProcess \cap moving) \in Nat
        <3>1. ToProcess \cap moving \subseteq Cell
            BY <1>4, <1>5
        <3> QED
            BY <3>1, Present
    <2>2. PICK driven \in SUBSET (ToProcess \cap OfKind("avatar")),
               n \in 0..Cardinality(ToProcess \cap moving) :
            \E stopped \in Lists((ToProcess \cap moving) \ driven, n) :
                /\ moving' = (moving \cup driven) \ Range(stopped)
                /\ game' = game \o [i \in 1..n |-> [op |-> "stopped", cell |-> stopped[i]]]
        BY DEF Simulate
    <2>3. n \in Nat
        BY <2>1
    <2>4. PICK stopped \in Lists((ToProcess \cap moving) \ driven, n) :
              /\ moving' = (moving \cup driven) \ Range(stopped)
              /\ game' = game \o [i \in 1..n |-> [op |-> "stopped", cell |-> stopped[i]]]
        BY <2>2
    <2> DEFINE posted == [i \in 1..n |-> [op |-> "stopped", cell |-> stopped[i]]]
    <2>5. stopped \in [1..n -> Here]
        BY <1>5 DEF Lists
    <2>6. posted \in [1..n -> EventOf(Here)]
        BY <2>5 DEF EventOf
    <2>7. posted \in Seq(EventOf(Here)) /\ game' = game \o posted
        <3> HIDE DEF posted
        <3>1. posted \in Seq(EventOf(Here))
            BY <2>3, <2>6
        <3> QED
            BY <2>4, <3>1 DEF posted
    <2> HIDE DEF posted
    <2>8. game' \in Seq(EventOf(Here))
        BY <1>1, <2>7, ConcatProperties DEF Known
    <2>9. driven \subseteq Cell
        BY <1>4, <1>5
    <2> QED
        BY <1>1, <2>4, <2>8, <2>9 DEF TypeOK
<1>8. TypeOK'
    <2>1. EventOf(Here) \subseteq Event
        BY <1>4 DEF EventOf, Event
    <2>2. game' \in Seq(Event)
        BY <1>7, <2>1, SeqMonotonic
    <2>3. registry' \in [Registries -> SUBSET Cell]
        BY <1>1, <1>2, <1>4, <1>5 DEF TypeOK
    <2>4. grid' \subseteq Cell
        BY <1>2, <1>4
    <2> QED
        BY <1>1, <1>2, <1>7, <2>2, <2>3, <2>4 DEF TypeOK
<1>9. Known' /\ Once'
    BY <1>1, <1>2, <1>3, <1>4, <1>6, <1>7 DEF Known, Once
<1>10. LivingAreOnGrid'
    <2>1. registry'["created"] = {} /\ registry'["processing"] = ToProcess
        BY <1>1, <1>2 DEF TypeOK
    <2> QED
        BY <1>2, <1>3, <1>4, <1>5, <2>1 DEF LivingAreOnGrid, Here
<1>11. QuantitiesAgree' /\ DeathsLast'
    BY <1>1, <1>2, <1>3 DEF QuantitiesAgree, DeathsLast
<1> QED
    BY <1>8, <1>9, <1>10, <1>11 DEF IInv

\* One cell is killed, or two.
LEMMA OneOrTwoKilled ==
    ASSUME IInv, NEW c \in Here \ zombie, NEW d \in Here \ zombie, c # d,
           Kill(<<d>>) \/ Kill(<<c, d>>), deadCells' = deadCells
    PROVE  Kills
<1>1. <<d>> \in Seq({d}) /\ IsInjective(<<d>>)
    BY ShortLists
<1>2. <<c, d>> \in Seq({c, d}) /\ IsInjective(<<c, d>>)
    BY ShortLists
<1>3. {d} \subseteq Here \ zombie /\ {c, d} \subseteq Here \ zombie
    OBVIOUS
<1>4. <<d>> \in Seq(Here \ zombie) /\ <<c, d>> \in Seq(Here \ zombie)
    BY <1>1, <1>2, <1>3, SeqMonotonic
<1>5. CASE Kill(<<d>>)
    BY <1>1, <1>4, <1>5, CellsKilled
<1>6. CASE Kill(<<c, d>>)
    BY <1>2, <1>4, <1>6, CellsKilled
<1> QED
    BY <1>5, <1>6

\* The events of n cells that an explosion makes, two of each.
LEMMA BurstEvents ==
    ASSUME NEW n \in Nat, NEW S, NEW new \in [1..n -> S]
    PROVE  [i \in 1..(2 * n) |-> [op |-> IF i % 2 = 1 THEN "mass" ELSE "started",
                                 cell |-> new[(i + 1) \div 2]]] \in Seq(Going(S))
<1> DEFINE e == [i \in 1..(2 * n) |-> [op |-> IF i % 2 = 1 THEN "mass" ELSE "started",
                                      cell |-> new[(i + 1) \div 2]]]
<1>1. ASSUME NEW i \in 1..(2 * n)
      PROVE  (i + 1) \div 2 \in 1..n
    OBVIOUS
<1>2. ASSUME NEW i \in 1..(2 * n)
      PROVE  e[i] \in Going(S)
    <2>1. new[(i + 1) \div 2] \in S
        BY <1>1
    <2> DEFINE op == IF i % 2 = 1 THEN "mass" ELSE "started"
    <2>2. op \in {"mass", "started"}
        OBVIOUS
    <2>3. e[i] = [op |-> op, cell |-> new[(i + 1) \div 2]]
        OBVIOUS
    <2> HIDE DEF e, op
    <2> QED
        BY <2>1, <2>2, <2>3 DEF Going
<1>3. DOMAIN e = 1..(2 * n) /\ e = [i \in 1..(2 * n) |-> e[i]] /\ 2 * n \in Nat
    OBVIOUS
<1> HIDE DEF e
<1>4. e \in Seq(Going(S))
    BY <1>2, <1>3
<1> QED
    BY <1>4 DEF e

LEMMA InteractIInv ==
    ASSUME CellsAssumption, IInv, NEW c \in Cell, NEW d \in Cell, Interact(c, d)
    PROVE  IInv'
<1>1. /\ c # d /\ phase = "interact" /\ phase' = phase /\ grid' = grid /\ deadCells' = deadCells
      /\ c \in grid \ zombie /\ d \in grid \ zombie
    BY DEF Interact, Meet
<1>2. c \in Here \ zombie /\ d \in Here \ zombie /\ game \in Seq(EventOf(Here))
    BY <1>1, Present
<1>3. Kill(<<d>>) \/ Kill(<<c, d>>) => Kills
    BY <1>1, <1>2, OneOrTwoKilled
<1>4. NoKill => Kills
    BY <1>1, NobodyKilled
<1>5. \A op \in {"mass", "started"}, k \in Kinds \cup {"none"} :
          /\ game \o Emit(op, c, k) \in Seq(EventOf(Here))
          /\ game \o Emit(op, d, k) \in Seq(EventOf(Here))
    <2> TAKE op \in {"mass", "started"}, k \in Kinds \cup {"none"}
    <2>1. Emit(op, c, k) \in Seq(EventOf(Here)) /\ Emit(op, d, k) \in Seq(EventOf(Here))
        BY <1>2, EventsEmitted
    <2> QED
        BY <1>2, <2>1, ConcatProperties
<1>6. kind[c] \in Kinds \cup {"none"} /\ kind[d] \in Kinds \cup {"none"} /\ "avatar" \in Kinds
    BY DEF IInv, TypeOK, Kinds
<1>7. ASSUME Absorb(c, d)
      PROVE  IInv'
    <2>1. /\ Kill(<<d>>) /\ Unmade /\ moving' = moving
          /\ game' \in Seq(EventOf(Here))
        BY <1>5, <1>6, <1>7 DEF Absorb
    <2> QED
        BY <1>1, <1>3, <2>1, QuietStep
<1>8. ASSUME Crush(c, d)
      PROVE  IInv'
    <2>1. /\ Kill(<<d>>) /\ Unmade /\ moving' = moving
          /\ game' \in Seq(EventOf(Here))
        BY <1>2, <1>8 DEF Crush
    <2> QED
        BY <1>1, <1>3, <2>1, QuietStep
<1>9. ASSUME Bounce(c, d)
      PROVE  IInv'
    <2>1. /\ Kill(<<d>>) /\ Unmade /\ moving' \subseteq moving \cup Here
          /\ game' \in Seq(EventOf(Here))
        BY <1>2, <1>5, <1>6, <1>9 DEF Bounce, Push
    <2> QED
        BY <1>1, <1>3, <2>1, QuietStep
<1>10. ASSUME Drain(c, d)
       PROVE  IInv'
    <2>1. /\ NoKill /\ Unmade /\ moving' = moving
          /\ game' \in Seq(EventOf(Here))
        BY <1>5, <1>6, <1>10 DEF Drain
    <2> QED
        BY <1>1, <1>4, <2>1, QuietStep
<1>11. ASSUME Burst(c, d)
       PROVE  IInv'
    <2> DEFINE room == MaxAvatars - Cardinality(OfKind("avatar"))
               events(n, new) == [i \in 1..(2 * n) |->
                                     [op |-> IF i % 2 = 1 THEN "mass" ELSE "started",
                                      cell |-> new[(i + 1) \div 2]]]
               last(n) == IF n > 0 THEN Emit("mass", c, "avatar") ELSE <<>>
    <2>1. room \in Int
        <3>1. OfKind("avatar") \subseteq Cell
            BY DEF OfKind
        <3>2. Cardinality(OfKind("avatar")) \in Nat
            BY <3>1, Present
        <3> QED
            BY <3>2 DEF CellsAssumption
    <2>2. /\ Kill(<<d>>)
          /\ \E n \in 0..room : \E new \in Lists(Free, n) :
                 /\ Create(new, "avatar")
                 /\ moving' = moving \cup Range(new)
                 /\ game' = game \o events(n, new) \o last(n)
        BY <1>11 DEF Burst
    <2> HIDE DEF room
    <2>3. PICK n \in 0..room : \E new \in Lists(Free, n) :
                 /\ Create(new, "avatar")
                 /\ moving' = moving \cup Range(new)
                 /\ game' = game \o events(n, new) \o last(n)
        BY <2>2
    <2>4. n \in Nat
        BY <2>1
    <2>5. PICK new \in Lists(Free, n) :
                 /\ Create(new, "avatar")
                 /\ moving' = moving \cup Range(new)
                 /\ game' = game \o events(n, new) \o last(n)
        BY <2>3
    <2> DEFINE S == Here \cup Range(new)
    <2>6. new \in [1..n -> S]
        BY DEF Lists, Range
    <2>7. events(n, new) \in Seq(EventOf(S))
        <3> HIDE DEF S
        <3>1. events(n, new) \in Seq(Going(S))
            BY <2>4, <2>6, BurstEvents
        <3> QED
            BY <3>1, GoingAreEvents
    <2>8. last(n) \in Seq(EventOf(S))
        BY <1>2, EventsEmitted
    <2> HIDE DEF events, last
    <2>9. game \o events(n, new) \in Seq(EventOf(S))
        BY <1>2, <2>7, EventsPosted
    <2>10. game \o events(n, new) \o last(n) \in Seq(EventOf(S))
        <3> HIDE DEF S
        <3> QED
            BY <2>8, <2>9, ConcatProperties
    <2>11. game' \in Seq(EventOf(Here \cup Range(new)))
        BY <2>5, <2>10
    <2> QED
        BY <1>1, <1>3, <1>6, <2>2, <2>4, <2>5, <2>11, MakingStep
<1>12. ASSUME Merge(c, d)
       PROVE  IInv'
    <2> DEFINE k == IF kind[c] = kind[d] THEN kind[c] ELSE "mother"
    <2>1. k \in Kinds
        BY <1>12 DEF Merge, Kinds, Counted
    <2>2. /\ Kill(<<c, d>>) /\ moving' = moving
          /\ \E new \in Lists(Free, 1) : Create(new, k) /\ game' = game \o EmitAll("mass", new, k)
        BY <1>12 DEF Merge
    <2> HIDE DEF k
    <2>3. PICK new \in Lists(Free, 1) : Create(new, k) /\ game' = game \o EmitAll("mass", new, k)
        BY <2>2
    <2> QED
        BY <1>1, <1>3, <2>1, <2>2, <2>3, AnnouncedStep
<1> QED
    BY <1>7, <1>8, <1>9, <1>10, <1>11, <1>12 DEF Interact

-----------------------------------------------------------------------------
\* The events of a cell, its burial and its deletion.

LEMMA GameEventIInv ==
    ASSUME CellsAssumption, IInv, GameEvent
    PROVE  IInv'
<1> DEFINE c == Head(game).cell
<1>1. /\ phase = "game" /\ phase' = phase /\ game # <<>>
      /\ NoKill /\ grid' = grid /\ deadCells' = deadCells
    BY DEF GameEvent
<1>2. Kills
    BY <1>1, NobodyKilled
<1>3. c \in Here /\ Tail(game) \in Seq(EventOf(Here))
    <2>1. Head(game) \in EventOf(Here) /\ Tail(game) \in Seq(EventOf(Here))
        BY <1>1, Present, HeadTailProperties
    <2> QED
        BY <2>1 DEF EventOf
<1>4. \/ MassChanged(c) \/ MotherExplodes(c) \/ MotionStarted(c) \/ MotionStopped(c)
    BY DEF GameEvent
<1>5. /\ registry \in [Registries -> SUBSET Cell] /\ moving \subseteq Cell /\ Here \subseteq Cell
      /\ \A r \in Registries : registry[r] \subseteq Here
      /\ {"created", "processing", "modified"} \subseteq Registries
    BY Present DEF Registries
<1> HIDE DEF c
<1>6. ASSUME NEW reg \in [Registries -> SUBSET Cell], NEW S \in SUBSET Here,
             reg = [Modified(c) EXCEPT !["processing"] = S] \/ reg = Modified(c)
      PROVE  (\A r \in Registries : reg[r] \subseteq Here) /\ reg["created"] = registry["created"]
    BY <1>3, <1>5, <1>6 DEF Modified
<1>7. ASSUME NEW S \in SUBSET Here,
             registry' = [Modified(c) EXCEPT !["processing"] = S] \/ registry' = Modified(c),
             game' = Tail(game), moving' = moving,
             UNCHANGED <<kind, id, mobs, quantity, unusedIds, nextId>>
      PROVE  IInv'
    <2>1. registry' \in [Registries -> SUBSET Cell]
        BY <1>3, <1>5, <1>7 DEF Modified
    <2>2. Makes(registry', {})
        BY <1>7, <2>1, NothingMade
    <2>3. game' \in Seq(EventOf(Here \cup {}))
        BY <1>3, <1>7
    <2>4. (\A r \in Registries : registry'[r] \subseteq Here) /\ registry'["created"] = registry["created"]
        BY <1>6, <1>7, <2>1
    <2> QED
        BY <1>1, <1>2, <1>5, <1>7, <2>2, <2>3, <2>4, LivingStep
<1>8. MassChanged(c) => IInv'
    BY <1>1, <1>7 DEF MassChanged, GameEvent
<1>9. MotionStarted(c) => IInv'
    <2>1. Modified(c)["processing"] \cup {c} \subseteq Here
        BY <1>3, <1>5 DEF Modified
    <2> QED
        BY <1>7, <2>1 DEF MotionStarted
<1>10. MotionStopped(c) => IInv'
    <2>1. Modified(c)["processing"] \ {c} \subseteq Here
        BY <1>3, <1>5 DEF Modified
    <2> QED
        BY <1>7, <2>1 DEF MotionStopped
<1>11. ASSUME MotherExplodes(c)
       PROVE  IInv'
    <2>1. PICK n \in 1..Cardinality(Free) : \E new \in Lists(Free, n) :
              /\ CreateIn(Modified(c), new, "mother")
              /\ moving' = moving \cup Range(new)
              /\ game' = Tail(game) \o Emit("mass", c, "mother") \o EmitAll("mass", new, "mother")
        BY <1>11 DEF MotherExplodes
    <2>2. n \in Nat
        BY Present
    <2>3. PICK new \in Lists(Free, n) :
              /\ CreateIn(Modified(c), new, "mother")
              /\ moving' = moving \cup Range(new)
              /\ game' = Tail(game) \o Emit("mass", c, "mother") \o EmitAll("mass", new, "mother")
        BY <2>1
    <2>4. Modified(c) \in [Registries -> SUBSET Cell]
        BY <1>3, <1>5 DEF Modified
    <2>5. "mother" \in Kinds
        BY DEF Kinds, Counted
    <2>6. Makes(Modified(c), Range(new))
        BY <2>2, <2>3, <2>4, <2>5, CellsMade
    <2>7. /\ \A r \in Registries : Modified(c)[r] \subseteq Here
          /\ Modified(c)["created"] = registry["created"]
        BY <1>6, <2>4
    <2> DEFINE S == Here \cup Range(new)
    <2>8. game' \in Seq(EventOf(S))
        <3>1. new \in [1..n -> S] /\ Here \subseteq S
            BY DEF Lists, Range
        <3> HIDE DEF S
        <3>2. Emit("mass", c, "mother") \in Seq(EventOf(S)) /\ EmitAll("mass", new, "mother") \in Seq(EventOf(S))
            BY <1>3, <2>2, <3>1, EventsEmitted
        <3>3. Tail(game) \o Emit("mass", c, "mother") \in Seq(EventOf(S))
            BY <1>3, <3>1, <3>2, EventsPosted
        <3> QED
            BY <2>3, <3>2, <3>3, ConcatProperties
    <2>9. moving' \subseteq Cell
        BY <1>5, <2>3, <2>6 DEF Makes, Free
    <2> QED
        BY <1>1, <1>2, <2>6, <2>7, <2>8, <2>9, LivingStep
<1> QED
    BY <1>4, <1>8, <1>9, <1>10, <1>11

LEMMA BuryIInv ==
    ASSUME CellsAssumption, IInv, Bury
    PROVE  IInv'
<1> DEFINE c == Head(deaths)
           k == kind[c]
           dead == Range(deadCells)
<1>1. TypeOK /\ Known /\ Once /\ QuantitiesAgree /\ LivingAreOnGrid /\ DeathsLast
    BY DEF IInv
<1>2. /\ phase = "death" /\ phase' = phase /\ game' = game
      /\ deaths # <<>> /\ deaths' = Tail(deaths) /\ deadCells' = Append(deadCells, c)
      /\ registry' = [r \in Registries |-> registry[r] \ {c}]
      /\ grid' = grid \ {c} /\ mobs' = mobs \ {c}
      /\ quantity' = IF k \in Counted THEN [quantity EXCEPT ![k] = @ - 1] ELSE quantity
      /\ UNCHANGED <<kind, id, zombie, moving, unusedIds, nextId>>
    BY DEF Bury, Forget, Uncount
<1>3. game = <<>>
    BY <1>1, <1>2 DEF DeathsLast
<1>4. /\ c \in Cell /\ Tail(deaths) \in Seq(Cell) /\ IsInjective(Tail(deaths))
      /\ Range(deaths) = Range(Tail(deaths)) \cup {c} /\ c \notin Range(Tail(deaths))
    BY <1>1, <1>2, InjectiveTail DEF TypeOK, Once
<1>5. /\ deadCells' \in Seq(Cell) /\ Range(deadCells') = dead \cup {c} /\ IsInjective(deadCells')
    <2> DEFINE one == <<c>>
    <2>1. one \in Seq({c}) /\ Range(one) = {c} /\ IsInjective(one)
        BY ShortLists
    <2>2. one \in Seq(Cell)
        BY <1>4
    <2>3. deadCells \in Seq(Cell) /\ deadCells' = deadCells \o one
        BY <1>1, <1>2, <1>4, AppendIsConcat DEF TypeOK
    <2>4. c \notin dead
        BY <1>1, <1>4 DEF Once
    <2> HIDE DEF one, c
    <2>5. Range(deadCells \o one) = dead \cup {c}
        BY <2>1, <2>2, <2>3, RangeConcatenation
    <2>6. dead \cap Range(one) = {}
        BY <2>1, <2>4
    <2>7. IsInjective(deadCells \o one)
        BY <1>1, <2>1, <2>2, <2>3, <2>6, InjectiveConcat DEF Once
    <2>8. deadCells \o one \in Seq(Cell)
        BY <2>2, <2>3, ConcatProperties
    <2> QED
        BY <2>3, <2>5, <2>7, <2>8
<1> HIDE DEF c
<1>6. c \in Here /\ c \notin dead
    BY <1>1, <1>4 DEF Once, Known, Here
<1>7. Allocated' = Allocated /\ Here' = Here \ {c} /\ \A q \in Counted : OfKind(q)' = OfKind(q)
    <2>1. Allocated' = Allocated /\ \A q \in Counted : OfKind(q)' = OfKind(q)
        BY <1>2 DEF Allocated, OfKind
    <2> QED
        BY <1>5, <2>1 DEF Here
<1>8. ASSUME NEW q \in Counted
      PROVE  quantity'[q] \in Nat /\ quantity'[q] = Cardinality(OfKind(q)' \ Range(deadCells'))
    <2> DEFINE Q == OfKind(q) \ dead
    <2>1. IsFiniteSet(Q) /\ quantity[q] = Cardinality(Q)
        <3>1. IsFiniteSet(Q)
            BY FS_Subset DEF CellsAssumption, OfKind
        <3> QED
            BY <1>1, <3>1 DEF QuantitiesAgree
    <2>2. OfKind(q)' \ Range(deadCells') = Q \ {c}
        BY <1>5, <1>7
    <2>3. (c \in Q) <=> (q = k)
        BY <1>4, <1>6 DEF OfKind
    <2>4. quantity'[q] = IF c \in Q THEN quantity[q] - 1 ELSE quantity[q]
        BY <1>1, <1>2, <2>3 DEF TypeOK
    <2> HIDE DEF Q
    <2>5. /\ IsFiniteSet(Q \ {c})
          /\ Cardinality(Q \ {c}) = IF c \in Q THEN Cardinality(Q) - 1 ELSE Cardinality(Q)
        BY <2>1, FS_RemoveElement
    <2>6. quantity'[q] = Cardinality(Q \ {c})
        BY <2>1, <2>4, <2>5
    <2>7. Cardinality(Q \ {c}) \in Nat
        BY <2>5, FS_CardinalityType
    <2> QED
        BY <2>2, <2>6, <2>7, Zenon
<1>9. TypeOK'
    <2>1. quantity' \in [Counted -> Nat]
        BY <1>1, <1>2, <1>8 DEF TypeOK
    <2>2. registry' \in [Registries -> SUBSET Cell]
        BY <1>1, <1>2 DEF TypeOK
    <2> QED
        BY <1>1, <1>2, <1>4, <1>5, <2>1, <2>2 DEF TypeOK
<1>10. Known'
    <2>1. game' \in Seq(EventOf(Here'))
        BY <1>2, <1>3
    <2>2. grid' \cup mobs' \subseteq Here'
        BY <1>1, <1>2, <1>7 DEF Known
    <2>3. \A r \in Registries : registry'[r] \subseteq Here'
        BY <1>1, <1>2, <1>7 DEF Known
    <2>4. Range(deaths') \cup Range(deadCells') \subseteq Allocated'
        BY <1>1, <1>2, <1>4, <1>5, <1>7 DEF Known
    <2> QED
        BY <2>1, <2>2, <2>3, <2>4 DEF Known
<1>11. Once'
    <2>1. zombie' = Range(deaths') \cup Range(deadCells')
        BY <1>1, <1>2, <1>4, <1>5 DEF Once
    <2>2. Range(deaths') \cap Range(deadCells') = {}
        BY <1>1, <1>2, <1>4, <1>5 DEF Once
    <2> QED
        BY <1>2, <1>4, <1>5, <2>1, <2>2 DEF Once
<1>12. LivingAreOnGrid'
    <2>1. registry'["created"] = registry["created"] \ {c}
        BY <1>2 DEF Registries
    <2> QED
        BY <1>1, <1>2, <1>7, <2>1 DEF LivingAreOnGrid, Here
<1>13. QuantitiesAgree' /\ DeathsLast'
    BY <1>2, <1>3, <1>8 DEF QuantitiesAgree, DeathsLast
<1> QED
    BY <1>9, <1>10, <1>11, <1>12, <1>13 DEF IInv

LEMMA SynchronizeIInv ==
    ASSUME CellsAssumption, IInv, Synchronize
    PROVE  IInv'
<1> DEFINE dead == Range(deadCells)
           ids == [i \in DOMAIN deadCells |-> id[deadCells[i]]]
<1>1. TypeOK /\ Known /\ Once /\ QuantitiesAgree /\ LivingAreOnGrid /\ DeathsLast
    BY DEF IInv
<1>2. /\ kind' = [x \in Cell |-> IF x \in dead THEN "none" ELSE kind[x]]
      /\ id' = [x \in Cell |-> IF x \in dead THEN 0 ELSE id[x]]
      /\ zombie' = zombie \ dead /\ moving' = moving \ dead
      /\ unusedIds' = unusedIds \o ids
      /\ registry' = [registry EXCEPT !["modified"] = {}, !["new"] = {}]
      /\ deadCells' = <<>> /\ phase = "idle"
      /\ UNCHANGED <<grid, mobs, quantity, game, deaths, nextId, phase>>
    BY DEF Synchronize, Delete
<1>3. deadCells' \in Seq(Cell) /\ Range(deadCells') = {} /\ IsInjective(deadCells')
    BY <1>2 DEF Range, IsInjective
<1>4. unusedIds' \in Seq(Nat)
    <2>1. DOMAIN deadCells = 1..Len(deadCells) /\ Len(deadCells) \in Nat
        BY <1>1 DEF TypeOK
    <2>2. ids \in [1..Len(deadCells) -> Nat]
        BY <1>1, <2>1 DEF TypeOK
    <2> HIDE DEF ids
    <2>3. ids \in Seq(Nat)
        BY <2>1, <2>2
    <2> QED
        BY <1>1, <1>2, <2>3, ConcatProperties DEF TypeOK
<1> HIDE DEF dead, ids
<1>5. Allocated' = Allocated \ dead /\ \A k \in Counted : OfKind(k)' = OfKind(k) \ dead
    BY <1>2 DEF Allocated, OfKind, Counted
<1>6. Here' = Here /\ Here' = Allocated'
    BY <1>3, <1>5 DEF Here, dead
<1>7. TypeOK'
    <2>1. kind' \in [Cell -> Kinds \cup {"none"}] /\ id' \in [Cell -> Nat]
        BY <1>1, <1>2 DEF TypeOK
    <2>2. registry' \in [Registries -> SUBSET Cell]
        BY <1>1, <1>2 DEF TypeOK
    <2>3. zombie' \subseteq Cell /\ moving' \subseteq Cell
        BY <1>1, <1>2 DEF TypeOK
    <2> QED
        BY <1>1, <1>2, <1>3, <1>4, <2>1, <2>2, <2>3 DEF TypeOK
<1>8. Known'
    <2>1. \A r \in Registries : registry'[r] \subseteq Here'
        BY <1>1, <1>2, <1>6 DEF TypeOK, Known
    <2>2. Range(deaths') \cup Range(deadCells') \subseteq Allocated'
        BY <1>1, <1>2, <1>3, <1>5 DEF Known, Once, dead
    <2> QED
        BY <1>1, <1>2, <1>6, <2>1, <2>2 DEF Known
<1>9. Once'
    <2>1. zombie' = Range(deaths') \cup Range(deadCells')
        BY <1>1, <1>2, <1>3 DEF Once, dead
    <2> QED
        BY <1>1, <1>2, <1>3, <2>1 DEF Once
<1>10. QuantitiesAgree'
    BY <1>1, <1>2, <1>3, <1>5 DEF QuantitiesAgree, dead
<1>11. LivingAreOnGrid'
    <2>1. registry'["created"] = registry["created"] /\ registry'["processing"] = registry["processing"]
        BY <1>1, <1>2 DEF TypeOK, Registries
    <2> QED
        BY <1>1, <1>2, <1>6, <2>1 DEF LivingAreOnGrid, Here
<1>12. DeathsLast'
    BY <1>2 DEF DeathsLast
<1> QED
    BY <1>7, <1>8, <1>9, <1>10, <1>11, <1>12 DEF IInv

\* update() goes on to its next phase.
LEMMA PhaseIInv ==
    ASSUME CellsAssumption, IInv, BeginUpdate \/ RunGameEvents \/ RunDeaths \/ EndUpdate
    PROVE  IInv'
<1>1. /\ NoKill /\ Unmade /\ grid' = grid /\ moving' = moving /\ deadCells' = deadCells /\ game' = game
      /\ phase' \in {"idle", "requests", "game", "death"}
      /\ phase' = "death" => game = <<>>
    BY DEF BeginUpdate, RunGameEvents, RunDeaths, EndUpdate, GameEventsDone
<1>2. Kills
    BY <1>1, NobodyKilled
<1>3. game' \in Seq(EventOf(Here))
    BY <1>1, Present
<1> QED
    BY <1>1, <1>2, <1>3, QuietStep

-----------------------------------------------------------------------------
\* Ids.  The cells have different ids, the unused ids are different from them
\* and from each other, and there are no others below the counter.

Used == {id[c] : c \in Allocated}

IdsInv ==
    /\ nextId >= 1
    /\ \A c, d \in Allocated : id[c] = id[d] => c = d
    /\ IsInjective(unusedIds)
    /\ Range(unusedIds) \cap Used = {}
    /\ 1..(nextId - 1) = Range(unusedIds) \cup Used

\* A larger counter has more ids below it.
LEMMA IntervalGrows ==
    \A a, b \in Nat : a <= b => 1..(a - 1) \subseteq 1..(b - 1)
OBVIOUS

\* n calls of pop() give ids that no cell has and that are not unused any more.
LEMMA PoppedAreNew ==
    ASSUME IInv, IdsInv, NEW n \in Nat, PopIds(n)
    PROVE  LET F == {Popped(n)[i] : i \in 1..n}
           IN  /\ \A i, j \in 1..n : Popped(n)[i] = Popped(n)[j] => i = j
               /\ F \cap Used = {} /\ F \cap Range(unusedIds') = {}
               /\ nextId' >= 1 /\ IsInjective(unusedIds') /\ Range(unusedIds') \cap Used = {}
               /\ 1..(nextId' - 1) = Range(unusedIds') \cup Used \cup F
<1> DEFINE q == unusedIds
           u == Len(q)
           m == u - Min2(n, u)
           f == Popped(n)
           F == {f[i] : i \in 1..n}
<1>1. /\ q \in Seq(Nat) /\ u \in Nat /\ DOMAIN q = 1..u /\ nextId \in Nat
      /\ \A i \in 1..u : q[i] \in Nat
    BY DEF IInv, TypeOK
<1>2. /\ m \in Nat /\ m <= u /\ nextId' \in Nat
      /\ n <= u => m = u - n /\ nextId' = nextId
      /\ n > u => m = 0 /\ nextId' = nextId + (n - u)
      /\ nextId <= nextId'
    <2>1. nextId' = nextId + n - Min2(n, u)
        BY DEF PopIds
    <2>2. CASE n <= u
        <3> HIDE DEF u
        <3>1. Min2(n, u) = n
            BY <2>2 DEF Min2
        <3> QED
            BY <1>1, <2>1, <2>2, <3>1
    <2>3. CASE n > u
        <3> HIDE DEF u
        <3>1. ~(n <= u)
            BY <1>1, <2>3
        <3>2. Min2(n, u) = u
            BY <3>1 DEF Min2
        <3> QED
            BY <1>1, <2>1, <2>3, <3>1, <3>2
    <2> HIDE DEF u, m
    <2> QED
        BY <1>1, <2>2, <2>3
<1>3. DOMAIN q' = 1..m /\ \A i \in 1..m : q'[i] = q[i]
    <2>1. \A i \in 1..m : q[i] \in Nat
        BY <1>1, <1>2
    <2>2. q' = SubSeq(q, 1, m)
        BY DEF PopIds
    <2> HIDE DEF m, q
    <2>3. SubSeq(q, 1, m) \in Seq(Nat) /\ Len(SubSeq(q, 1, m)) = m
          /\ \A i \in 1..m : SubSeq(q, 1, m)[i] = q[i]
        BY <1>2, <2>1, SubSeqProperties
    <2> QED
        BY <2>2, <2>3, LenProperties
<1>4. \A i \in 1..n : f[i] = IF i <= u THEN q[u + 1 - i] ELSE nextId + i - u - 1
    BY DEF Popped
<1>5. /\ nextId >= 1 /\ \A i, j \in 1..u : q[i] = q[j] => i = j
      /\ \A i \in 1..u : q[i] \in 1..(nextId - 1) /\ q[i] \notin Used
      /\ \A x \in 1..(nextId - 1) : x \notin Used => \E i \in 1..u : q[i] = x
      /\ Used \subseteq 1..(nextId - 1)
    <2>1. Range(q) = {q[i] : i \in 1..u}
        BY <1>1 DEF Range
    <2> HIDE DEF q, u
    <2> QED
        BY <1>1, <2>1 DEF IdsInv, IsInjective, q
<1> HIDE DEF q, u, m, f
\* An id that was popped is the top of the stack, or new.
<1>6. ASSUME NEW i \in 1..n
      PROVE  \/ i <= u /\ u + 1 - i \in (m + 1)..u /\ f[i] = q[u + 1 - i] /\ f[i] < nextId
             \/ i > u /\ f[i] = nextId + i - u - 1 /\ f[i] \in nextId..(nextId' - 1)
    <2>1. CASE i <= u
        <3>1. u + 1 - i \in (m + 1)..u /\ u + 1 - i \in 1..u
            BY <1>1, <1>2, <2>1
        <3>2. f[i] = q[u + 1 - i]
            BY <1>4, <2>1
        <3> QED
            BY <1>1, <1>5, <2>1, <3>1, <3>2
    <2>2. CASE i > u
        <3>1. f[i] = nextId + i - u - 1
            BY <1>1, <1>4, <2>2
        <3>2. n > u
            BY <1>1, <2>2
        <3>3. nextId' = nextId + (n - u)
            BY <1>2, <3>2
        <3>4. nextId + i - u - 1 \in nextId..(nextId' - 1)
            BY <1>1, <2>2, <3>3
        <3> QED
            BY <2>2, <3>1, <3>4
    <2> QED
        BY <1>1, <2>1, <2>2
<1>7. \A i, j \in 1..n : f[i] = f[j] => i = j
    <2> SUFFICES ASSUME NEW i \in 1..n, NEW j \in 1..n, f[i] = f[j]
                 PROVE  i = j
        OBVIOUS
    <2>1. CASE i <= u /\ j <= u
        <3>1. u + 1 - i = u + 1 - j
            BY <1>1, <1>2, <1>5, <1>6, <2>1
        <3> QED
            BY <1>1, <3>1
    <2>2. CASE i > u /\ j > u
        BY <1>1, <1>6, <2>2
    <2>3. CASE (i <= u /\ j > u) \/ (i > u /\ j <= u)
        BY <1>1, <1>6, <2>3
    <2> QED
        BY <1>1, <2>1, <2>2, <2>3
<1>8. ASSUME NEW i \in 1..n
      PROVE  f[i] \notin Used /\ (\A j \in 1..m : q'[j] # f[i]) /\ f[i] \in 1..(nextId' - 1)
    <2>1. CASE i <= u
        <3>1. u + 1 - i \in (m + 1)..u /\ f[i] = q[u + 1 - i] /\ u + 1 - i \in 1..u
            BY <1>1, <1>2, <1>6, <2>1
        <3>2. \A j \in 1..m : q'[j] = q[j] /\ j \in 1..u /\ j # u + 1 - i
            BY <1>1, <1>2, <1>3, <3>1
        <3>3. f[i] \notin Used /\ f[i] \in 1..(nextId - 1)
            BY <1>5, <3>1
        <3>4. nextId <= nextId'
            BY <1>1, <1>2
        <3>5. f[i] \in 1..(nextId' - 1)
            BY <1>1, <1>2, <3>3, <3>4
        <3> QED
            BY <1>5, <3>1, <3>2, <3>3, <3>5
    <2>2. CASE i > u
        <3>1. f[i] \in nextId..(nextId' - 1) /\ n > u /\ m = 0
            BY <1>1, <1>2, <1>6, <2>2
        <3>2. f[i] \in 1..(nextId' - 1) /\ f[i] \notin 1..(nextId - 1)
            BY <1>1, <1>2, <1>5, <3>1
        <3>3. 1..m = {}
            BY <3>1
        <3> QED
            BY <1>5, <3>2, <3>3
    <2> QED
        BY <1>1, <2>1, <2>2
\* Nothing is lost.
<1>9. ASSUME NEW x \in 1..(nextId' - 1), x \notin Used, \A j \in 1..m : q'[j] # x
      PROVE  \E i \in 1..n : f[i] = x
    <2>1. CASE x < nextId
        <3>1. x \in 1..(nextId - 1)
            BY <1>1, <1>2, <2>1
        <3>2. PICK j \in 1..u : q[j] = x
            BY <1>5, <1>9, <3>1
        <3>3. j \notin 1..m
            BY <1>3, <1>9, <3>2
        <3>4. u + 1 - j \in 1..n /\ u + 1 - j <= u /\ u + 1 - (u + 1 - j) = j
            BY <1>1, <1>2, <3>3
        <3>5. f[u + 1 - j] = x
            BY <1>4, <3>2, <3>4
        <3> QED
            BY <3>4, <3>5
    <2>2. CASE x >= nextId
        <3> DEFINE i == x - nextId + u + 1
        <3>1. i \in 1..n /\ i > u /\ nextId + i - u - 1 = x
            <4>1. n > u
                <5>1. CASE n <= u
                    <6>1. nextId' = nextId
                        BY <1>2, <5>1
                    <6>2. x \in 1..(nextId - 1)
                        BY <6>1
                    <6> QED
                        BY <1>1, <2>2, <6>2
                <5> QED
                    BY <1>1, <5>1
            <4>2. nextId' = nextId + (n - u)
                BY <1>2, <4>1
            <4> QED
                BY <1>1, <2>2, <4>2
        <3>2. ~(i <= u)
            BY <1>1, <3>1
        <3> HIDE DEF i
        <3>3. f[i] = x
            BY <1>4, <3>1, <3>2
        <3> QED
            BY <3>1, <3>3
    <2> QED
        BY <1>1, <1>2, <2>1, <2>2
<1>10. Range(q') = {q'[j] : j \in 1..m}
    BY <1>3 DEF Range
<1>11. IsInjective(q')
    BY <1>2, <1>1, <1>3, <1>5 DEF IsInjective
<1>12. \A j \in 1..m : q'[j] \notin Used /\ q'[j] \in 1..(nextId' - 1)
    <2> TAKE j \in 1..m
    <2>1. j \in 1..u /\ nextId <= nextId'
        BY <1>1, <1>2
    <2> QED
        BY <1>1, <1>2, <1>3, <1>5, <2>1
<1>13. Used \subseteq 1..(nextId' - 1) /\ nextId' >= 1
    <2>1. nextId \in Nat /\ nextId' \in Nat /\ nextId <= nextId' /\ nextId >= 1
        BY <1>1, <1>2, <1>5
    <2>2. 1..(nextId - 1) \subseteq 1..(nextId' - 1)
        BY <2>1, IntervalGrows, Zenon
    <2>3. nextId' >= 1
        BY <2>1
    <2> QED
        BY <1>5, <2>2, <2>3
<1>14. F \cap Used = {} /\ F \cap Range(q') = {} /\ Range(q') \cap Used = {}
    BY <1>8, <1>10, <1>12
<1>15. 1..(nextId' - 1) = Range(q') \cup Used \cup F
    <2>1. Range(q') \cup Used \cup F \subseteq 1..(nextId' - 1)
        BY <1>8, <1>10, <1>12, <1>13
    <2>2. \A x \in 1..(nextId' - 1) : x \in Range(q') \cup Used \cup F
        BY <1>9, <1>10
    <2> QED
        BY <2>1, <2>2
<1> QED
    BY <1>7, <1>11, <1>13, <1>14, <1>15 DEF q, f

\* Cells that are made have ids of their own.
LEMMA MadeKeepsIds ==
    ASSUME IInv, IdsInv, NEW n \in Nat, NEW new \in Lists(Free, n), NEW k \in Kinds,
           NEW reg, CreateIn(reg, new, k)
    PROVE  IdsInv'
<1> DEFINE N == Range(new)
           f == Popped(n)
           F == {f[i] : i \in 1..n}
           place(c) == CHOOSE i \in 1..n : new[i] = c
<1>1. /\ DOMAIN new = 1..n /\ Len(new) = n /\ N \subseteq Free /\ IsInjective(new)
    BY ListIsSeq
<1>2. /\ kind' = [c \in Cell |-> IF c \in N THEN k ELSE kind[c]]
      /\ id' = [c \in Cell |-> IF c \in N THEN f[place(c)] ELSE id[c]]
      /\ PopIds(n)
    BY <1>1 DEF CreateIn
<1>3. /\ \A i, j \in 1..n : f[i] = f[j] => i = j
      /\ F \cap Used = {} /\ F \cap Range(unusedIds') = {}
      /\ nextId' >= 1 /\ IsInjective(unusedIds') /\ Range(unusedIds') \cap Used = {}
      /\ 1..(nextId' - 1) = Range(unusedIds') \cup Used \cup F
    BY <1>2, PoppedAreNew
<1>4. \A i \in 1..n : place(new[i]) = i /\ new[i] \in N
    BY <1>1 DEF IsInjective, Range
<1>5. \A c \in N : place(c) \in 1..n /\ new[place(c)] = c
    BY <1>1 DEF Range
<1> HIDE DEF place, N, f
<1>6. N \subseteq Cell /\ N \cap Allocated = {} /\ Allocated \subseteq Cell
    BY <1>1 DEF Free, Allocated
<1>7. Allocated' = Allocated \cup N
    BY <1>2, <1>6 DEF Allocated, Kinds, Counted
<1>8. /\ \A c \in N : id'[c] = f[place(c)]
      /\ \A c \in Allocated : id'[c] = id[c]
    BY <1>2, <1>6
<1>9. Used' = Used \cup F
    <2>1. Used' = {id'[c] : c \in Allocated \cup N}
        BY <1>7 DEF Used
    <2>2. {id'[c] : c \in N} = F
        BY <1>4, <1>5, <1>8
    <2>3. {id'[c] : c \in Allocated} = Used
        BY <1>8 DEF Used
    <2> QED
        BY <2>1, <2>2, <2>3
<1>10. \A c, d \in Allocated' : id'[c] = id'[d] => c = d
    <2> SUFFICES ASSUME NEW c \in Allocated \cup N, NEW d \in Allocated \cup N, id'[c] = id'[d]
                 PROVE  c = d
        BY <1>7
    <2>1. CASE c \in Allocated /\ d \in Allocated
        BY <1>8, <2>1 DEF IdsInv
    <2>2. CASE c \in N /\ d \in N
        BY <1>3, <1>5, <1>8, <2>2
    <2>3. CASE c \in N /\ d \in Allocated
        <3>1. id'[c] \in F /\ id'[d] \in Used
            BY <1>5, <1>8, <2>3 DEF Used
        <3> QED
            BY <1>3, <3>1
    <2>4. CASE c \in Allocated /\ d \in N
        <3>1. id'[d] \in F /\ id'[c] \in Used
            BY <1>5, <1>8, <2>4 DEF Used
        <3> QED
            BY <1>3, <3>1
    <2> QED
        BY <2>1, <2>2, <2>3, <2>4
<1>11. Range(unusedIds') \cap Used' = {} /\ 1..(nextId' - 1) = Range(unusedIds') \cup Used'
    BY <1>3, <1>9
<1> QED
    BY <1>3, <1>10, <1>11 DEF IdsInv

\* The ids of the cells that are deleted are unused again.
LEMMA DeletedGiveIdsBack ==
    ASSUME IInv, IdsInv, Synchronize
    PROVE  IdsInv'
<1> DEFINE dead == Range(deadCells)
           ids == [i \in DOMAIN deadCells |-> id[deadCells[i]]]
           D == {id[c] : c \in dead}
<1>1. /\ TypeOK /\ dead \subseteq Allocated /\ IsInjective(deadCells) /\ Allocated \subseteq Cell
    BY DEF IInv, Known, Once, Allocated
<1>2. /\ kind' = [x \in Cell |-> IF x \in dead THEN "none" ELSE kind[x]]
      /\ id' = [x \in Cell |-> IF x \in dead THEN 0 ELSE id[x]]
      /\ unusedIds' = unusedIds \o ids /\ nextId' = nextId
    BY DEF Synchronize, Delete
<1>3. \A i \in DOMAIN deadCells : deadCells[i] \in dead
    BY DEF Range
<1>4. Range(ids) = D
    BY DEF Range
<1>5. IsInjective(ids)
    BY <1>1, <1>3 DEF IsInjective, IdsInv
<1>6. ids \in Seq(Nat)
    <2>1. DOMAIN deadCells = 1..Len(deadCells) /\ Len(deadCells) \in Nat
        BY <1>1 DEF TypeOK
    <2>2. ids \in [1..Len(deadCells) -> Nat]
        BY <1>1, <2>1 DEF TypeOK
    <2> HIDE DEF ids
    <2> QED
        BY <2>1, <2>2
<1> HIDE DEF dead, ids
<1>7. D \subseteq Used /\ Range(unusedIds) \cap Used = {} /\ unusedIds \in Seq(Nat)
    BY <1>1 DEF Used, IdsInv, TypeOK
<1>8. IsInjective(unusedIds') /\ Range(unusedIds') = Range(unusedIds) \cup D
    <2>1. Range(unusedIds) \cap Range(ids) = {}
        BY <1>4, <1>7
    <2>2. IsInjective(unusedIds \o ids)
        BY <1>5, <1>6, <1>7, <2>1, InjectiveConcat DEF IdsInv
    <2>3. Range(unusedIds \o ids) = Range(unusedIds) \cup Range(ids)
        BY <1>6, <1>7, RangeConcatenation
    <2> QED
        BY <1>2, <1>4, <2>2, <2>3
<1>9. Allocated' = Allocated \ dead /\ \A c \in Allocated' : id'[c] = id[c]
    BY <1>2 DEF Allocated
<1>10. Used' = Used \ D
    <2>1. Used' = {id[c] : c \in Allocated \ dead}
        BY <1>9 DEF Used
    <2>2. \A c \in Allocated \ dead : id[c] \notin D
        BY <1>1 DEF IdsInv
    <2> QED
        BY <2>1, <2>2 DEF Used
<1>11. \A c, d \in Allocated' : id'[c] = id'[d] => c = d
    BY <1>9 DEF IdsInv
<1>12. Range(unusedIds') \cap Used' = {} /\ 1..(nextId' - 1) = Range(unusedIds') \cup Used'
    BY <1>2, <1>7, <1>8, <1>10 DEF IdsInv
<1> QED
    BY <1>2, <1>8, <1>11, <1>12 DEF IdsInv

\* No id is given out or back.
LEMMA SameIds ==
    ASSUME IdsInv, UNCHANGED <<kind, id, unusedIds, nextId>>
    PROVE  IdsInv'
BY DEF IdsInv, Used, Allocated

LEMMA StepIdsInv ==
    ASSUME CellsAssumption, IInv, IdsInv, [Next]_vars
    PROVE  IdsInv'
<1> DEFINE Made == \E n \in Nat : \E new \in Lists(Free, n) : \E k \in Kinds :
                        Create(new, k) \/ \E c \in Here : CreateIn(Modified(c), new, k)
           Kept == UNCHANGED <<kind, id, unusedIds, nextId>>
<1>1. Made => IdsInv'
    BY MadeKeepsIds DEF Create
<1>2. Kept => IdsInv'
    BY SameIds
<1>3. Kinds = {"food", "virus", "phage", "mother", "avatar", "bullet"} /\ 1 \in Nat
    BY DEF Kinds, Counted
<1>4. Unmade => Kept
    BY DEF Unmade
<1>5. ASSUME NEW k \in Counted, Generate(k)
      PROVE  Made
    <2>1. ToGenerate(k) \in Nat /\ k \in Kinds
        BY <1>5 DEF ToGenerate, Min2, Generate, CellsAssumption, IInv, TypeOK, Kinds
    <2> QED
        BY <1>5, <2>1 DEF Generate
<1>6. GenerateFoodByMothers => Made
    <2>1. Cardinality(Free) \in Nat
        BY Present
    <2>2. 1..Cardinality(Free) \subseteq Nat
        BY <2>1
    <2> QED
        BY <1>3, <2>2 DEF GenerateFoodByMothers
<1>7. Annihilate => Made
    <2>1. Cardinality(Living("avatar")) \in Nat
        BY <1>3, Present DEF Living
    <2>2. 1..Cardinality(Living("avatar")) \subseteq Nat
        BY <2>1
    <2> QED
        BY <1>3, <2>2 DEF Annihilate
<1>8. Respawn => Made
    BY <1>3 DEF Respawn
<1>9. KillExpiredCells \/ Deflate \/ StartMotion => Kept
    BY <1>4 DEF KillExpiredCells, Deflate, StartMotion, EmitForAvatars
<1>10. Requests => Made
    BY <1>3 DEF Requests, Eject, Split
<1>11. ASSUME NEW c \in Cell, NEW d \in Cell, Interact(c, d)
       PROVE  Made \/ Kept
    <2>1. Absorb(c, d) \/ Crush(c, d) \/ Bounce(c, d) \/ Drain(c, d) => Kept
        BY <1>4 DEF Absorb, Crush, Bounce, Drain
    <2>2. Burst(c, d) => Made
        <3>1. MaxAvatars - Cardinality(OfKind("avatar")) \in Int
            BY <1>3, Present DEF CellsAssumption
        <3>2. 0..(MaxAvatars - Cardinality(OfKind("avatar"))) \subseteq Nat
            BY <3>1
        <3> QED
            BY <1>3, <3>2 DEF Burst
    <2>3. ASSUME Merge(c, d)
          PROVE  Made
        <3> DEFINE k == IF kind[c] = kind[d] THEN kind[c] ELSE "mother"
        <3>1. k \in Kinds /\ \E new \in Lists(Free, 1) : Create(new, k)
            BY <1>3, <2>3 DEF Merge
        <3> QED
            BY <1>3, <3>1
    <2> QED
        BY <1>11, <2>1, <2>2, <2>3 DEF Interact
<1>12. BeginUpdate \/ Simulate \/ RunGameEvents \/ RunDeaths \/ EndUpdate \/ Bury => Kept
    BY <1>4 DEF BeginUpdate, Simulate, RunGameEvents, RunDeaths, EndUpdate, Bury
<1>13. GameEvent => Made \/ Kept
    <2> SUFFICES ASSUME GameEvent
                 PROVE  Made \/ Kept
        OBVIOUS
    <2> DEFINE c == Head(game).cell
    <2>1. c \in Here
        <3>1. Head(game) \in EventOf(Here)
            BY Present, HeadTailProperties DEF GameEvent
        <3> QED
            BY <3>1 DEF EventOf
    <2>2. MassChanged(c) \/ MotherExplodes(c) \/ MotionStarted(c) \/ MotionStopped(c)
        BY DEF GameEvent
    <2> HIDE DEF c
    <2>3. MassChanged(c) \/ MotionStarted(c) \/ MotionStopped(c) => Kept
        BY DEF MassChanged, MotionStarted, MotionStopped
    <2>4. MotherExplodes(c) => Made
        <3>1. Cardinality(Free) \in Nat
            BY Present
        <3>2. 1..Cardinality(Free) \subseteq Nat
            BY <3>1
        <3> QED
            BY <1>3, <2>1, <3>2 DEF MotherExplodes
    <2> QED
        BY <2>2, <2>3, <2>4
<1>14. UNCHANGED vars => Kept
    BY DEF vars
<1> HIDE DEF Made, Kept
<1>15. Synchronize => IdsInv'
    BY DeletedGiveIdsBack
<1>16. Collisions => Made \/ Kept
    BY <1>11 DEF Collisions
<1>17. RestOfUpdate => Made \/ Kept
    BY <1>12, <1>13 DEF RestOfUpdate
<1> QED
    BY <1>1, <1>2, <1>5, <1>6, <1>7, <1>8, <1>9, <1>10, <1>12, <1>14, <1>15, <1>16, <1>17 DEF Next

\* Counting the ids.
LEMMA IdsAreCounted ==
    ASSUME CellsAssumption, IInv, IdsInv
    PROVE  IdsAreConserved
<1>1. /\ unusedIds \in Seq(Nat) /\ nextId \in Nat /\ nextId >= 1
      /\ DOMAIN unusedIds = 1..Len(unusedIds) /\ Len(unusedIds) \in Nat
    BY DEF IInv, TypeOK, IdsInv
<1>2. IsFiniteSet(Range(unusedIds)) /\ Cardinality(Range(unusedIds)) = Len(unusedIds)
    <2>1. unusedIds \in Bijection(1..Len(unusedIds), Range(unusedIds))
        BY <1>1 DEF IdsInv, Range, Bijection, Injection, Surjection, IsInjective
    <2>2. IsFiniteSet(1..Len(unusedIds)) /\ Cardinality(1..Len(unusedIds)) = Len(unusedIds)
        BY <1>1, FS_Interval
    <2> QED
        BY <2>1, <2>2, FS_Bijection DEF ExistsBijection
<1>3. IsFiniteSet(Used) /\ Cardinality(Used) = Cardinality(Allocated)
    <2> DEFINE g == [c \in Allocated |-> id[c]]
    <2>1. g \in Bijection(Allocated, Used)
        BY DEF IdsInv, Used, Bijection, Injection, Surjection, IsInjective
    <2>2. IsFiniteSet(Allocated)
        <3>1. Allocated \subseteq Cell
            BY DEF Allocated
        <3> QED
            BY <3>1, Present
    <2> HIDE DEF g
    <2> QED
        BY <2>1, <2>2, FS_Bijection DEF ExistsBijection
<1>4. Cardinality(1..(nextId - 1)) = nextId - 1
    BY <1>1, FS_Interval
<1>5. Cardinality(Range(unusedIds) \cup Used) = Len(unusedIds) + Cardinality(Allocated)
    <2>1. Range(unusedIds) \cap Used = {}
        BY DEF IdsInv
    <2>2. Cardinality(Allocated) \in Nat
        BY <1>3, FS_CardinalityType
    <2>3. Cardinality(Range(unusedIds) \cap Used) = 0
        BY <2>1, FS_EmptySet
    <2> DEFINE A == Range(unusedIds)
    <2>4. Cardinality(A \cup Used) = Cardinality(A) + Cardinality(Used) - Cardinality(A \cap Used)
        <3>1. IsFiniteSet(A) /\ IsFiniteSet(Used)
            BY <1>2, <1>3
        <3> HIDE DEF A
        <3> QED
            BY <3>1, FS_Union
    <2>5. /\ Cardinality(A) = Len(unusedIds) /\ Cardinality(A \cap Used) = 0
          /\ Cardinality(Used) = Cardinality(Allocated)
        BY <1>2, <1>3, <2>3
    <2> HIDE DEF A
    <2>6. Cardinality(A \cup Used) = Len(unusedIds) + Cardinality(Allocated)
        BY <1>1, <2>2, <2>4, <2>5
    <2> QED
        BY <2>6 DEF A
<1> QED
    BY <1>4, <1>5 DEF IdsInv, IdsAreConserved, Used

-----------------------------------------------------------------------------
\* All steps together.

LEMMA InitIInv ==
    ASSUME Init
    PROVE  IInv
<1>1. Allocated = {} /\ \A k \in Counted : OfKind(k) = {}
    BY DEF Init, Allocated, OfKind, Counted
<1>2. Range(<<>>) = {} /\ IsInjective(<<>>)
    BY DEF Range, IsInjective
<1>3. Here = {}
    BY <1>1 DEF Here
<1>4. TypeOK
    BY DEF Init, TypeOK
<1>5. Known /\ Once /\ DeathsLast
    BY <1>1, <1>2, <1>3 DEF Init, Known, Once, DeathsLast
<1>6. QuantitiesAgree
    BY <1>1, FS_EmptySet DEF Init, QuantitiesAgree
<1>7. LivingAreOnGrid
    BY <1>1 DEF Init, LivingAreOnGrid, Registries
<1> QED
    BY <1>4, <1>5, <1>6, <1>7 DEF IInv

LEMMA StepIInv ==
    ASSUME CellsAssumption, IInv, [Next]_vars
    PROVE  IInv'
<1>1. ASSUME NEW k \in Counted, Generate(k)
      PROVE  IInv'
    BY <1>1, GenerateIInv
<1>2. CASE GenerateFoodByMothers \/ Respawn \/ Annihilate \/ KillExpiredCells
    BY <1>2, GenerateFoodByMothersIInv, RespawnIInv, AnnihilateIInv, KillExpiredCellsIInv
<1>3. CASE Deflate \/ StartMotion
    BY <1>3, EmitForAvatarsIInv DEF Deflate, StartMotion
<1>4. CASE Requests
    BY <1>4, EjectIInv, SplitIInv DEF Requests
<1>5. CASE Collisions
    BY <1>5, InteractIInv DEF Collisions
<1>6. CASE Synchronize \/ BeginUpdate \/ RestOfUpdate
    BY <1>6, SynchronizeIInv, PhaseIInv, SimulateIInv, GameEventIInv, BuryIInv DEF RestOfUpdate
<1>7. CASE UNCHANGED vars
    <2>1. Here' = Here /\ Allocated' = Allocated /\ \A k \in Counted : OfKind(k)' = OfKind(k)
        BY <1>7 DEF vars, Here, Allocated, OfKind
    <2> QED
        BY <1>7, <2>1 DEF vars, IInv, TypeOK, Known, Once, QuantitiesAgree, LivingAreOnGrid, DeathsLast
<1> QED
    BY <1>1, <1>2, <1>3, <1>4, <1>5, <1>6, <1>7 DEF Next

LEMMA AlwaysIInv == Spec => []IInv
<1>1. Init => IInv
    BY InitIInv
<1>2. IInv /\ [Next]_vars => IInv'
    BY StepIInv, CellsAssumption
<1> QED
    BY <1>1, <1>2, PTL DEF Spec

\* Types of the cells, the registries, the queues and the ids.
THEOREM CellsTypeOK == Spec => []TypeOK
<1>1. IInv => TypeOK
    BY DEF IInv
<1> QED
    BY <1>1, AlwaysIInv, PTL

\* No registry, queue or list of the room points to a cell that was deleted.
THEOREM CellsNoDanglingPointers == Spec => []NoDanglingPointers
<1>1. IInv => NoDanglingPointers
    <2> SUFFICES ASSUME IInv
                 PROVE  NoDanglingPointers
        OBVIOUS
    <2>1. \A i \in DOMAIN game : game[i].cell \in Here
        <3>1. game \in Seq(EventOf(Here))
            BY DEF IInv, Known
        <3>2. \A i \in DOMAIN game : game[i] \in EventOf(Here)
            BY <3>1
        <3> QED
            BY <3>2 DEF EventOf
    <2> QED
        BY <2>1 DEF IInv, Known, NoDanglingPointers, Here
<1> QED
    BY <1>1, AlwaysIInv, PTL

\* No registry and no event that is left names a cell that was buried.
THEOREM CellsDeadAreForgotten == Spec => []DeadAreForgotten
<1>1. IInv => DeadAreForgotten
    <2> SUFFICES ASSUME IInv
                 PROVE  DeadAreForgotten
        OBVIOUS
    <2>1. \A i \in DOMAIN game : game[i].cell \in Here
        <3>1. game \in Seq(EventOf(Here))
            BY DEF IInv, Known
        <3>2. \A i \in DOMAIN game : game[i] \in EventOf(Here)
            BY <3>1
        <3> QED
            BY <3>2 DEF EventOf
    <2> QED
        BY <2>1 DEF IInv, Known, DeadAreForgotten, Here
<1> QED
    BY <1>1, AlwaysIInv, PTL

\* A cell that was killed has one death, to come or behind it.
THEOREM CellsZombiesDieOnce == Spec => []ZombiesDieOnce
<1>1. IInv => ZombiesDieOnce
    <2> SUFFICES ASSUME IInv
                 PROVE  ZombiesDieOnce
        OBVIOUS
    <2>1. deaths \in Seq(Cell) /\ deadCells \in Seq(Cell)
        BY DEF IInv, TypeOK
    <2>2. Range(deaths \o deadCells) = Range(deaths) \cup Range(deadCells)
        BY <2>1, RangeConcatenation
    <2>3. IsInjective(deaths \o deadCells)
        BY <2>1, InjectiveConcat DEF IInv, Once
    <2> QED
        BY <2>2, <2>3 DEF IInv, Once, ZombiesDieOnce
<1> QED
    BY <1>1, AlwaysIInv, PTL

\* The generators compare the limits with the true numbers of cells.
THEOREM CellsQuantitiesAgree == Spec => []QuantitiesAgree
<1>1. IInv => QuantitiesAgree
    BY DEF IInv
<1> QED
    BY <1>1, AlwaysIInv, PTL

\* What lives is on the grid or will be before it is simulated.
THEOREM CellsLivingAreOnGrid == Spec => []LivingAreOnGrid
<1>1. IInv => LivingAreOnGrid
    BY DEF IInv
<1> QED
    BY <1>1, AlwaysIInv, PTL

\* Every id below the counter is that of one cell, or is unused once.
THEOREM CellsIdsAreConserved == Spec => []IdsAreConserved
<1>1. Init => IdsInv
    <2> SUFFICES ASSUME Init
                 PROVE  IdsInv
        OBVIOUS
    <2>1. Allocated = {} /\ Range(unusedIds) = {} /\ IsInjective(unusedIds) /\ nextId = 1
        BY DEF Init, Allocated, Range, IsInjective
    <2>2. 1..(nextId - 1) = {}
        BY <2>1
    <2> QED
        BY <2>1, <2>2 DEF IdsInv, Used
<1>2. IInv /\ IdsInv /\ [Next]_vars => IdsInv'
    BY StepIdsInv, CellsAssumption
<1>3. IInv /\ IdsInv => IdsAreConserved
    BY IdsAreCounted, CellsAssumption
<1> QED
    BY <1>1, <1>2, <1>3, AlwaysIInv, PTL DEF Spec
-----------------------------------------------------------------------------
\* Motion.  A cell that moves is simulated already, was just made, or has an
\* event in the queue after which it is simulated.

Stop(c) == [op |-> "stopped", cell |-> c]
Start(c) == [op |-> "started", cell |-> c]

\* The cell c is started by the events q and not stopped afterwards.
Restarted(q, c) ==
    \E i \in DOMAIN q : q[i] = Start(c) /\ \A j \in DOMAIN q : j > i => q[j] # Stop(c)

StoppedBy(q, c) == \E i \in DOMAIN q : q[i] = Stop(c)

\* Once the events q are handled, c is simulated.
WillRun(reg, q, c) ==
    \/ c \in reg["created"]
    \/ c \in reg["processing"] /\ ~StoppedBy(q, c)
    \/ Restarted(q, c)

\* What moves and is not buried.
Movers == moving \ Range(deadCells)

\* Outside the simulation nothing waits to be stopped, nor to be started.
Calm ==
    /\ \A c \in Cell : ~StoppedBy(game, c)
    /\ Movers \subseteq registry["processing"] \cup registry["created"]

MotionInv ==
    /\ phase \in {"idle", "requests"} => Calm
    /\ \A c \in Movers : WillRun(registry, game, c)

\* What a queue still says when events are posted behind it.
LEMMA BehindQueue ==
    ASSUME NEW E, NEW q \in Seq(E), NEW h \in Seq(E), NEW c
    PROVE  /\ StoppedBy(q \o h, c) <=> StoppedBy(q, c) \/ StoppedBy(h, c)
           /\ Restarted(h, c) => Restarted(q \o h, c)
           /\ Restarted(q, c) /\ ~StoppedBy(h, c) => Restarted(q \o h, c)
<1> DEFINE n == Len(q)
           m == Len(h)
           u == q \o h
<1>1. /\ n \in Nat /\ m \in Nat /\ DOMAIN q = 1..n /\ DOMAIN h = 1..m /\ DOMAIN u = 1..(n + m)
      /\ \A i \in 1..(n + m) : u[i] = IF i <= n THEN q[i] ELSE h[i - n]
    <2>1. /\ u \in Seq(E) /\ Len(u) = n + m
          /\ \A i \in 1..(n + m) : u[i] = IF i <= n THEN q[i] ELSE h[i - n]
        BY ConcatProperties
    <2> HIDE DEF u
    <2> QED
        BY <2>1, LenProperties
<1> HIDE DEF n, m, u
<1>2. /\ \A i \in 1..n : i \in 1..(n + m) /\ u[i] = q[i]
      /\ \A i \in 1..m : i + n \in 1..(n + m) /\ u[i + n] = h[i]
      /\ \A i \in 1..(n + m) : \/ i \in 1..n /\ u[i] = q[i]
                               \/ i - n \in 1..m /\ u[i] = h[i - n]
    BY <1>1
<1>3. StoppedBy(u, c) <=> StoppedBy(q, c) \/ StoppedBy(h, c)
    <2>1. ASSUME NEW i \in 1..n, q[i] = Stop(c)
          PROVE  StoppedBy(u, c)
        <3>1. i \in 1..(n + m) /\ u[i] = Stop(c)
            BY <1>2, <2>1
        <3> QED
            BY <1>1, <3>1 DEF StoppedBy
    <2>2. ASSUME NEW i \in 1..m, h[i] = Stop(c)
          PROVE  StoppedBy(u, c)
        <3>1. i + n \in 1..(n + m) /\ u[i + n] = Stop(c)
            BY <1>2, <2>2
        <3> QED
            BY <1>1, <3>1 DEF StoppedBy
    <2>3. ASSUME NEW i \in 1..(n + m), u[i] = Stop(c)
          PROVE  StoppedBy(q, c) \/ StoppedBy(h, c)
        <3>1. \/ i \in 1..n /\ q[i] = Stop(c)
              \/ i - n \in 1..m /\ h[i - n] = Stop(c)
            BY <1>2, <2>3
        <3> QED
            BY <1>1, <3>1 DEF StoppedBy
    <2> QED
        BY <1>1, <2>1, <2>2, <2>3 DEF StoppedBy
<1>4. ASSUME Restarted(h, c)
      PROVE  Restarted(u, c)
    <2>1. PICK i \in 1..m : h[i] = Start(c) /\ \A j \in 1..m : j > i => h[j] # Stop(c)
        BY <1>1, <1>4 DEF Restarted
    <2>2. ASSUME NEW j \in 1..(n + m), j > i + n
          PROVE  u[j] # Stop(c)
        <3>1. j - n \in 1..m /\ j - n > i /\ u[j] = h[j - n]
            BY <1>1, <1>2, <2>2
        <3> QED
            BY <2>1, <3>1
    <2> QED
        BY <1>1, <1>2, <2>1, <2>2 DEF Restarted
<1>5. ASSUME Restarted(q, c), ~StoppedBy(h, c)
      PROVE  Restarted(u, c)
    <2>1. PICK i \in 1..n : q[i] = Start(c) /\ \A j \in 1..n : j > i => q[j] # Stop(c)
        BY <1>1, <1>5 DEF Restarted
    <2>2. ASSUME NEW j \in 1..(n + m), j > i
          PROVE  u[j] # Stop(c)
        BY <1>1, <1>2, <1>5, <2>1, <2>2 DEF StoppedBy
    <2> QED
        BY <1>1, <1>2, <2>1, <2>2 DEF Restarted
<1> QED
    BY <1>3, <1>4, <1>5 DEF u

\* What it still says when its first event is handled.
LEMMA BehindHead ==
    ASSUME NEW E, NEW q \in Seq(E), q # <<>>, NEW c
    PROVE  /\ Tail(q) \in Seq(E)
           /\ StoppedBy(Tail(q), c) => StoppedBy(q, c)
           /\ Head(q) = Stop(c) => StoppedBy(q, c)
           /\ Restarted(q, c) =>
                  \/ Restarted(Tail(q), c)
                  \/ Head(q) = Start(c) /\ ~StoppedBy(Tail(q), c)
<1> DEFINE n == Len(q)
           t == Tail(q)
<1>1. /\ t \in Seq(E) /\ n \in Nat /\ n >= 1 /\ DOMAIN q = 1..n /\ DOMAIN t = 1..(n - 1)
      /\ Head(q) = q[1] /\ \A i \in 1..(n - 1) : t[i] = q[i + 1]
    BY EmptySeq, HeadTailProperties
<1> HIDE DEF n, t
<1>2. /\ 1 \in 1..n
      /\ \A i \in 1..(n - 1) : i + 1 \in 1..n
      /\ \A i \in 1..n : i # 1 => i - 1 \in 1..(n - 1) /\ t[i - 1] = q[i]
    BY <1>1
<1>3. StoppedBy(t, c) => StoppedBy(q, c)
    <2> SUFFICES ASSUME NEW i \in 1..(n - 1), t[i] = Stop(c)
                 PROVE  StoppedBy(q, c)
        BY <1>1 DEF StoppedBy
    <2>1. i + 1 \in 1..n /\ q[i + 1] = Stop(c)
        BY <1>1, <1>2
    <2> QED
        BY <1>1, <2>1 DEF StoppedBy
<1>4. Head(q) = Stop(c) => StoppedBy(q, c)
    BY <1>1, <1>2 DEF StoppedBy
<1>5. ASSUME Restarted(q, c)
      PROVE  \/ Restarted(t, c)
             \/ Head(q) = Start(c) /\ ~StoppedBy(t, c)
    <2>1. PICK i \in 1..n : q[i] = Start(c) /\ \A j \in 1..n : j > i => q[j] # Stop(c)
        BY <1>1, <1>5 DEF Restarted
    <2>2. \A j \in 1..(n - 1) : j + 1 > i => t[j] # Stop(c)
        BY <1>1, <1>2, <2>1
    <2>3. CASE i = 1
        <3>1. \A j \in 1..(n - 1) : t[j] # Stop(c)
            BY <2>2, <2>3
        <3> QED
            BY <1>1, <2>1, <2>3, <3>1 DEF StoppedBy
    <2>4. CASE i # 1
        <3>1. i - 1 \in 1..(n - 1) /\ t[i - 1] = Start(c)
            BY <1>2, <2>1, <2>4
        <3>2. \A j \in 1..(n - 1) : j > i - 1 => t[j] # Stop(c)
            BY <2>2
        <3> QED
            BY <1>1, <3>1, <3>2 DEF Restarted
    <2> QED
        BY <2>3, <2>4
<1> QED
    BY <1>1, <1>3, <1>4, <1>5 DEF t

\* Events of masses and starts stop nothing.
LEMMA GoingStopsNothing ==
    ASSUME NEW h \in Seq(Going(Cell)), NEW c
    PROVE  h \in Seq(Event) /\ ~StoppedBy(h, c)
<1>1. Going(Cell) \subseteq Event
    BY DEF Going, Event
<1>2. \A i \in DOMAIN h : h[i] \in Going(Cell)
    OBVIOUS
<1>3. Stop(c) \notin Going(Cell)
    BY DEF Stop, Going
<1> QED
    BY <1>1, <1>2, <1>3, SeqMonotonic DEF StoppedBy

\* A step that posts events, and sets in motion only what it makes or starts.
LEMMA MotionGoesOn ==
    ASSUME IInv, MotionInv, NEW h \in Seq(Going(Cell)), game' = game \o h, deadCells' = deadCells,
           registry["created"] \subseteq registry'["created"],
           registry'["processing"] = registry["processing"],
           phase' \in {"idle", "requests"} => phase \in {"idle", "requests"},
           \A c \in moving' \ moving :
               \/ c \in registry'["created"]
               \/ phase' = "interact" /\ Restarted(h, c)
    PROVE  MotionInv'
<1>1. game \in Seq(Event) /\ h \in Seq(Event)
    BY GoingStopsNothing DEF IInv, TypeOK
<1>2. \A c : /\ StoppedBy(game', c) <=> StoppedBy(game, c)
             /\ Restarted(h, c) => Restarted(game', c)
             /\ Restarted(game, c) => Restarted(game', c)
    <2> TAKE c
    <2>1. ~StoppedBy(h, c)
        BY GoingStopsNothing
    <2> QED
        BY <1>1, <2>1, BehindQueue
<1>3. \A c \in Movers' :
          \/ c \in Movers
          \/ c \in registry'["created"]
          \/ phase' = "interact" /\ Restarted(h, c)
    BY DEF Movers
<1>4. ASSUME phase' \in {"idle", "requests"}
      PROVE  Calm'
    <2>1. Calm /\ phase' # "interact"
        BY <1>4 DEF MotionInv
    <2> QED
        BY <1>2, <1>3, <2>1 DEF Calm
<1>5. ASSUME NEW c \in Movers'
      PROVE  WillRun(registry', game', c)
    <2>1. CASE c \in Movers
        <3>1. WillRun(registry, game, c)
            BY <2>1 DEF MotionInv
        <3> QED
            BY <1>2, <3>1 DEF WillRun
    <2>2. CASE c \notin Movers
        BY <1>2, <1>3, <2>2 DEF WillRun
    <2> QED
        BY <2>1, <2>2
<1> QED
    BY <1>4, <1>5 DEF MotionInv

\* Such a step that makes cells, and one that makes none.
LEMMA MadeGoOn ==
    ASSUME CellsAssumption, IInv, MotionInv,
           NEW n \in Nat, NEW new \in Lists(Free, n), NEW k \in Kinds, Create(new, k),
           NEW h \in Seq(Going(Cell)), game' = game \o h, deadCells' = deadCells, phase' = phase,
           moving' \subseteq moving \cup Range(new)
    PROVE  MotionInv'
<1>1. registry \in [Registries -> SUBSET Cell]
    BY Present
<1>2. Makes(registry, Range(new))
    BY <1>1, CellsMade DEF Create
<1>3. /\ registry'["created"] = registry["created"] \cup Range(new)
      /\ registry'["processing"] = registry["processing"]
    BY <1>2 DEF Makes
<1> QED
    BY <1>3, MotionGoesOn

LEMMA UnmadeGoOn ==
    ASSUME IInv, MotionInv, Unmade, NEW h \in Seq(Going(Cell)), game' = game \o h,
           deadCells' = deadCells, phase' = phase, moving' = moving
    PROVE  MotionInv'
BY MotionGoesOn DEF Unmade

\* A list of cells that are free or live, as a list of cells.
LEMMA ListOfCells ==
    ASSUME NEW S \in SUBSET Cell, NEW n \in Nat, NEW list \in Lists(S, n)
    PROVE  list \in [1..n -> Cell]
BY DEF Lists

\* No event is posted.
LEMMA NothingPosted ==
    ASSUME IInv, game' = game
    PROVE  game' = game \o <<>> /\ <<>> \in Seq(Going(Cell))
<1>1. game \in Seq(Event)
    BY DEF IInv, TypeOK
<1> QED
    BY <1>1, ConcatEmptySeq

\* Events posted one behind the other are posted together.
LEMMA PostedTogether ==
    ASSUME NEW g \in Seq(Event), NEW h \in Seq(Going(Cell)), NEW l \in Seq(Going(Cell))
    PROVE  h \o l \in Seq(Going(Cell)) /\ (g \o h) \o l = g \o (h \o l)
<1>1. h \in Seq(Event) /\ l \in Seq(Event)
    BY GoingStopsNothing
<1>2. (g \o h) \o l = g \o (h \o l)
    BY <1>1, ConcatAssociative
<1>3. h \o l \in Seq(Going(Cell))
    BY ConcatProperties
<1> QED
    BY <1>2, <1>3

LEMMA GenerateMotion ==
    ASSUME CellsAssumption, IInv, MotionInv, NEW k \in Counted, Generate(k)
    PROVE  MotionInv'
<1>1. ToGenerate(k) \in Nat /\ k \in Kinds /\ Free \in SUBSET Cell
    BY DEF ToGenerate, Min2, Generate, CellsAssumption, IInv, TypeOK, Kinds, Free
<1>2. PICK new \in Lists(Free, ToGenerate(k)) :
          Create(new, k) /\ game' = game \o EmitAll("mass", new, k)
    BY DEF Generate
<1>3. new \in [1..ToGenerate(k) -> Cell]
    BY <1>1, ListOfCells
<1>4. EmitAll("mass", new, k) \in Seq(Going(Cell))
    BY <1>1, <1>3, GoingEmitted
<1>5. phase' = phase /\ deadCells' = deadCells /\ moving' = moving
    BY DEF Generate
<1> QED
    BY <1>1, <1>2, <1>4, <1>5, MadeGoOn

LEMMA GenerateFoodByMothersMotion ==
    ASSUME CellsAssumption, IInv, MotionInv, GenerateFoodByMothers
    PROVE  MotionInv'
<1>1. PICK n \in 1..Cardinality(Free) : \E new \in Lists(Free, n) :
          Create(new, "food") /\ moving' = moving \cup Range(new)
    BY DEF GenerateFoodByMothers
<1>2. n \in Nat /\ "food" \in Kinds
    BY Present DEF Kinds, Counted
<1>3. PICK new \in Lists(Free, n) : Create(new, "food") /\ moving' = moving \cup Range(new)
    BY <1>1
<1>4. phase' = phase /\ deadCells' = deadCells /\ game' = game
    BY DEF GenerateFoodByMothers
<1>5. game' = game \o <<>> /\ <<>> \in Seq(Going(Cell))
    BY <1>4, NothingPosted
<1> QED
    BY <1>2, <1>3, <1>4, <1>5, MadeGoOn

LEMMA RespawnMotion ==
    ASSUME CellsAssumption, IInv, MotionInv, Respawn
    PROVE  MotionInv'
<1>1. PICK new \in Lists(Free, 1) :
          Create(new, "avatar") /\ game' = game \o EmitAll("mass", new, "avatar")
    BY DEF Respawn
<1>2. new \in [1..1 -> Cell] /\ "avatar" \in Kinds
    BY ListOfCells DEF Free, Kinds
<1>3. EmitAll("mass", new, "avatar") \in Seq(Going(Cell))
    BY <1>2, GoingEmitted
<1>4. phase' = phase /\ deadCells' = deadCells /\ moving' = moving
    BY DEF Respawn
<1> QED
    BY <1>1, <1>2, <1>3, <1>4, MadeGoOn

LEMMA AnnihilateMotion ==
    ASSUME CellsAssumption, IInv, MotionInv, Annihilate
    PROVE  MotionInv'
<1>1. PICK n \in 1..Cardinality(Living("avatar")) :
          \E new \in Lists(Free, n) : Create(new, "virus") /\ game' = game \o EmitAll("mass", new, "virus")
    BY DEF Annihilate
<1>2. n \in Nat /\ "virus" \in Kinds
    <2>1. Living("avatar") \subseteq Cell
        BY DEF Living, OfKind
    <2> QED
        BY <2>1, Present DEF Kinds, Counted
<1>3. PICK new \in Lists(Free, n) : Create(new, "virus") /\ game' = game \o EmitAll("mass", new, "virus")
    BY <1>1
<1>4. new \in [1..n -> Cell]
    BY <1>2, ListOfCells DEF Free
<1>5. EmitAll("mass", new, "virus") \in Seq(Going(Cell))
    BY <1>2, <1>4, GoingEmitted
<1>6. phase' = phase /\ deadCells' = deadCells /\ moving' = moving
    BY DEF Annihilate
<1> QED
    BY <1>2, <1>3, <1>5, <1>6, MadeGoOn

LEMMA KillExpiredCellsMotion ==
    ASSUME IInv, MotionInv, KillExpiredCells
    PROVE  MotionInv'
<1>1. Unmade /\ phase' = phase /\ deadCells' = deadCells /\ moving' = moving /\ game' = game
    BY DEF KillExpiredCells
<1>2. game' = game \o <<>> /\ <<>> \in Seq(Going(Cell))
    BY <1>1, NothingPosted
<1> QED
    BY <1>1, <1>2, UnmadeGoOn

LEMMA EmitForAvatarsMotion ==
    ASSUME CellsAssumption, IInv, MotionInv,
           NEW op \in {"mass", "started"}, EmitForAvatars(op), phase' = phase
    PROVE  MotionInv'
<1>1. Living("avatar") \in SUBSET Cell /\ Cardinality(Living("avatar")) \in Nat
    <2>1. Living("avatar") \subseteq Cell
        BY DEF Living, OfKind
    <2> QED
        BY <2>1, Present
<1>2. PICK n \in 1..Cardinality(Living("avatar")) : \E list \in Lists(Living("avatar"), n) :
          game' = game \o EmitAll(op, list, "avatar")
    BY DEF EmitForAvatars
<1>3. n \in Nat
    BY <1>1
<1>4. PICK list \in Lists(Living("avatar"), n) : game' = game \o EmitAll(op, list, "avatar")
    BY <1>2
<1>5. list \in [1..n -> Cell]
    BY <1>1, <1>3, ListOfCells
<1>6. EmitAll(op, list, "avatar") \in Seq(Going(Cell))
    BY <1>3, <1>5, GoingEmitted
<1>7. Unmade /\ deadCells' = deadCells /\ moving' = moving
    BY DEF EmitForAvatars
<1> QED
    BY <1>4, <1>6, <1>7, UnmadeGoOn

LEMMA EjectMotion ==
    ASSUME CellsAssumption, IInv, MotionInv, NEW c \in Living("avatar"), Eject(c)
    PROVE  MotionInv'
<1>1. PICK new \in Lists(Free, 1) : Create(new, "bullet") /\ moving' \subseteq moving \cup Range(new)
    BY DEF Eject
<1>2. c \in Cell /\ "bullet" \in Kinds
    BY DEF Living, OfKind, Kinds
<1>3. Emit("mass", c, "avatar") \in Seq(Going(Cell))
    BY <1>2, GoingEmitted
<1>4. game' = game \o Emit("mass", c, "avatar") /\ phase' = phase /\ deadCells' = deadCells
    BY DEF Eject
<1> QED
    BY <1>1, <1>2, <1>3, <1>4, MadeGoOn

LEMMA SplitMotion ==
    ASSUME CellsAssumption, IInv, MotionInv, NEW c \in Living("avatar"), Split(c)
    PROVE  MotionInv'
<1>1. PICK new \in Lists(Free, 1), pushed \in BOOLEAN :
          /\ Create(new, "avatar") /\ moving' \subseteq moving \cup Range(new)
          /\ game' = game \o EmitAll("mass", new, "avatar") \o Emit("mass", c, "avatar")
                          \o (IF pushed THEN EmitAll("started", new, "avatar") ELSE <<>>)
    BY DEF Split
<1> DEFINE a == EmitAll("mass", new, "avatar")
           b == Emit("mass", c, "avatar")
           d == IF pushed THEN EmitAll("started", new, "avatar") ELSE <<>>
<1>2. c \in Cell /\ "avatar" \in Kinds /\ new \in [1..1 -> Cell]
    BY ListOfCells DEF Living, OfKind, Kinds, Free
<1>3. a \in Seq(Going(Cell)) /\ b \in Seq(Going(Cell)) /\ d \in Seq(Going(Cell))
    BY <1>2, GoingEmitted
<1>4. phase' = phase /\ deadCells' = deadCells /\ game \in Seq(Event)
    BY DEF Split, IInv, TypeOK
<1>5. game' = game \o a \o b \o d
    BY <1>1
<1> HIDE DEF a, b, d
<1> DEFINE e == a \o b
<1>6. e \in Seq(Going(Cell)) /\ (game \o a) \o b = game \o e
    BY <1>3, <1>4, PostedTogether
<1> HIDE DEF e
<1>7. e \o d \in Seq(Going(Cell)) /\ (game \o e) \o d = game \o (e \o d)
    BY <1>3, <1>4, <1>6, PostedTogether
<1>8. game' = (game \o e) \o d
    BY <1>5, <1>6, Zenon
<1> QED
    BY <1>1, <1>2, <1>4, <1>7, <1>8, MadeGoOn

LEMMA InteractMotion ==
    ASSUME CellsAssumption, IInv, MotionInv, NEW c \in Cell, NEW d \in Cell, Interact(c, d)
    PROVE  MotionInv'
<1>1. phase = "interact" /\ phase' = phase /\ deadCells' = deadCells
    BY DEF Interact
<1>2. /\ game \in Seq(Event)
      /\ "avatar" \in Kinds /\ \A S \in SUBSET Cell : Cardinality(S) \in Nat
    BY Present DEF IInv, TypeOK, Kinds
<1>3. ASSUME NEW op \in {"mass", "started"}, NEW k
      PROVE  Emit(op, c, k) \in Seq(Going(Cell)) /\ Emit(op, d, k) \in Seq(Going(Cell))
    BY GoingEmitted
<1>4. ASSUME Absorb(c, d)
      PROVE  MotionInv'
    <2>1. Unmade /\ moving' = moving /\ game' = game \o Emit("mass", c, kind[c])
        BY <1>4 DEF Absorb
    <2> QED
        BY <1>1, <1>3, <2>1, UnmadeGoOn
<1>5. ASSUME Crush(c, d)
      PROVE  MotionInv'
    <2>1. Unmade /\ moving' = moving /\ game' = game
        BY <1>5 DEF Crush
    <2> QED
        BY <1>1, <2>1, NothingPosted, UnmadeGoOn
<1>6. ASSUME Bounce(c, d)
      PROVE  MotionInv'
    <2> DEFINE h == Emit("started", c, kind[c])
    <2>1. Unmade /\ moving' = moving \cup {c} /\ game' = game \o h /\ kind[c] \in {"virus", "phage"}
        BY <1>6 DEF Bounce, Push
    <2>2. h = <<Start(c)>>
        BY <2>1 DEF Emit, Subscribed, Start
    <2>3. Restarted(h, c)
        <3>1. DOMAIN h = {1} /\ h[1] = Start(c)
            BY <2>2
        <3>2. \A j \in DOMAIN h : ~(j > 1)
            BY <3>1
        <3> QED
            BY <3>1, <3>2 DEF Restarted
    <2>4. h \in Seq(Going(Cell))
        BY <1>3
    <2> HIDE DEF h
    <2> QED
        BY <1>1, <2>1, <2>3, <2>4, MotionGoesOn DEF Unmade
<1>7. ASSUME Drain(c, d)
      PROVE  MotionInv'
    <2>1. Unmade /\ moving' = moving /\ game' = game \o Emit("mass", d, "avatar")
        BY <1>7 DEF Drain
    <2> QED
        BY <1>1, <1>3, <2>1, UnmadeGoOn
<1>8. ASSUME Burst(c, d)
      PROVE  MotionInv'
    <2> DEFINE room == MaxAvatars - Cardinality(OfKind("avatar"))
               events(n, new) == [i \in 1..(2 * n) |->
                                     [op |-> IF i % 2 = 1 THEN "mass" ELSE "started",
                                      cell |-> new[(i + 1) \div 2]]]
               last(n) == IF n > 0 THEN Emit("mass", c, "avatar") ELSE <<>>
    <2>1. room \in Int
        <3>1. OfKind("avatar") \subseteq Cell
            BY DEF OfKind
        <3>2. Cardinality(OfKind("avatar")) \in Nat
            BY <1>2, <3>1
        <3> QED
            BY <3>2 DEF CellsAssumption
    <2>2. \E n \in 0..room : \E new \in Lists(Free, n) :
                 /\ Create(new, "avatar")
                 /\ moving' = moving \cup Range(new)
                 /\ game' = game \o events(n, new) \o last(n)
        BY <1>8 DEF Burst
    <2> HIDE DEF room
    <2>3. PICK n \in 0..room : \E new \in Lists(Free, n) :
                 /\ Create(new, "avatar")
                 /\ moving' = moving \cup Range(new)
                 /\ game' = game \o events(n, new) \o last(n)
        BY <2>2
    <2>4. n \in Nat
        BY <2>1
    <2>5. PICK new \in Lists(Free, n) :
                 /\ Create(new, "avatar")
                 /\ moving' = moving \cup Range(new)
                 /\ game' = game \o events(n, new) \o last(n)
        BY <2>3
    <2>6. new \in [1..n -> Cell]
        BY <2>4, ListOfCells DEF Free
    <2>7. events(n, new) \in Seq(Going(Cell))
        BY <2>4, <2>6, BurstEvents
    <2>8. last(n) \in Seq(Going(Cell))
        BY <1>3, GoingEmitted
    <2> HIDE DEF events, last
    <2> DEFINE ev == events(n, new)
               la == last(n)
    <2>9. ev \in Seq(Going(Cell)) /\ la \in Seq(Going(Cell)) /\ game' = (game \o ev) \o la
        BY <2>5, <2>7, <2>8
    <2> HIDE DEF ev, la
    <2>10. ev \o la \in Seq(Going(Cell)) /\ (game \o ev) \o la = game \o (ev \o la)
        BY <1>2, <2>9, PostedTogether
    <2> QED
        BY <1>1, <1>2, <2>4, <2>5, <2>9, <2>10, MadeGoOn
<1>9. ASSUME Merge(c, d)
      PROVE  MotionInv'
    <2> DEFINE k == IF kind[c] = kind[d] THEN kind[c] ELSE "mother"
    <2>1. k \in Kinds
        BY <1>9 DEF Merge, Kinds, Counted
    <2>2. /\ moving' = moving
          /\ \E new \in Lists(Free, 1) : Create(new, k) /\ game' = game \o EmitAll("mass", new, k)
        BY <1>9 DEF Merge
    <2> HIDE DEF k
    <2>3. PICK new \in Lists(Free, 1) : Create(new, k) /\ game' = game \o EmitAll("mass", new, k)
        BY <2>2
    <2>4. new \in [1..1 -> Cell]
        BY ListOfCells DEF Free
    <2>5. EmitAll("mass", new, k) \in Seq(Going(Cell))
        BY <2>4, GoingEmitted
    <2> QED
        BY <1>1, <2>1, <2>2, <2>3, <2>5, MadeGoOn
<1> QED
    BY <1>4, <1>5, <1>6, <1>7, <1>8, <1>9 DEF Interact

\* The simulation takes over what moves, and stops what it takes out of motion.
LEMMA SimulateMotion ==
    ASSUME CellsAssumption, IInv, MotionInv, Simulate
    PROVE  MotionInv'
<1>1. /\ phase = "requests" /\ phase' = "interact" /\ deadCells' = deadCells
      /\ registry'["processing"] = ToProcess
    BY DEF Simulate, IInv, TypeOK, Registries
<1>2. Calm
    BY <1>1 DEF MotionInv
<1>3. Cardinality(ToProcess \cap moving) \in Nat
    <2>1. ToProcess \cap moving \subseteq Cell
        BY DEF IInv, TypeOK
    <2> QED
        BY <2>1, Present
<1>4. PICK driven \in SUBSET (ToProcess \cap OfKind("avatar")),
           n \in 0..Cardinality(ToProcess \cap moving) :
        \E stopped \in Lists((ToProcess \cap moving) \ driven, n) :
            /\ moving' = (moving \cup driven) \ Range(stopped)
            /\ game' = game \o [i \in 1..n |-> [op |-> "stopped", cell |-> stopped[i]]]
    BY DEF Simulate
<1>5. n \in Nat
    BY <1>3
<1>6. PICK stopped \in Lists((ToProcess \cap moving) \ driven, n) :
          /\ moving' = (moving \cup driven) \ Range(stopped)
          /\ game' = game \o [i \in 1..n |-> [op |-> "stopped", cell |-> stopped[i]]]
    BY <1>4
<1> DEFINE posted == [i \in 1..n |-> [op |-> "stopped", cell |-> stopped[i]]]
<1>7. DOMAIN stopped = 1..n /\ stopped \in [1..n -> Cell]
    BY DEF Lists, IInv, TypeOK
<1>8. posted \in Seq(Event)
    <2>1. posted \in [1..n -> Event]
        BY <1>7 DEF Event
    <2> HIDE DEF posted
    <2> QED
        BY <1>5, <2>1
<1>9. ASSUME NEW c, StoppedBy(posted, c)
      PROVE  c \in Range(stopped)
    <2>1. PICK i \in 1..n : posted[i] = Stop(c)
        BY <1>9 DEF StoppedBy
    <2>2. stopped[i] = c
        BY <2>1 DEF Stop
    <2> QED
        BY <1>7, <2>2 DEF Range
<1>10. game \in Seq(Event) /\ game' = game \o posted
    BY <1>6 DEF IInv, TypeOK
<1> HIDE DEF posted
<1>11. ASSUME NEW c \in Movers'
       PROVE  WillRun(registry', game', c)
    <2>1. c \in moving \cup driven /\ c \notin Range(stopped) /\ c \in Cell
        BY <1>4, <1>6 DEF Movers, IInv, TypeOK, OfKind
    <2>2. ~StoppedBy(game, c)
        BY <1>2, <2>1 DEF Calm
    <2>3. ~StoppedBy(game', c)
        BY <1>8, <1>9, <1>10, <2>1, <2>2, BehindQueue
    <2>4. CASE c \in driven
        BY <1>1, <1>4, <2>3, <2>4 DEF WillRun
    <2>5. CASE c \in moving
        <3>1. c \in registry["processing"] \cup (registry["created"] \cap moving)
            BY <1>1, <1>2, <1>11, <2>5 DEF Calm, Movers
        <3>2. c \in ToProcess
            BY <3>1 DEF ToProcess
        <3> QED
            BY <1>1, <2>3, <3>2 DEF WillRun
    <2> QED
        BY <2>1, <2>4, <2>5
<1> QED
    BY <1>1, <1>11 DEF MotionInv

\* An event that is handled was waited for, or is about another cell.
LEMMA GameEventMotion ==
    ASSUME CellsAssumption, IInv, MotionInv, GameEvent
    PROVE  MotionInv'
<1> DEFINE e == Head(game)
           c == e.cell
<1>1. /\ phase = "game" /\ phase' = phase /\ game # <<>> /\ deadCells' = deadCells
      /\ game \in Seq(Event) /\ e \in Event /\ c \in Cell
    <2>1. game # <<>> /\ game \in Seq(Event)
        BY DEF GameEvent, IInv, TypeOK
    <2>2. e \in Event
        BY <2>1, HeadTailProperties
    <2> QED
        BY <2>1, <2>2 DEF GameEvent, Event
<1>2. \/ e.op = "mass" /\ (MassChanged(c) \/ MotherExplodes(c))
      \/ e.op = "started" /\ MotionStarted(c)
      \/ e.op = "stopped" /\ MotionStopped(c)
    BY DEF GameEvent
<1>3. registry \in [Registries -> SUBSET Cell] /\ {"created", "processing", "modified"} \subseteq Registries
    BY Present DEF Registries
<1>4. \A x : /\ (e = Start(x)) <=> (e.op = "started" /\ c = x)
             /\ (e = Stop(x)) <=> (e.op = "stopped" /\ c = x)
    BY <1>1 DEF Start, Stop, Event
<1>5. \A x : /\ Tail(game) \in Seq(Event)
             /\ StoppedBy(Tail(game), x) => StoppedBy(game, x)
             /\ e = Stop(x) => StoppedBy(game, x)
             /\ Restarted(game, x) => \/ Restarted(Tail(game), x)
                                      \/ e = Start(x) /\ ~StoppedBy(Tail(game), x)
    BY <1>1, BehindHead
<1> HIDE DEF e, c
<1>6. \A x \in Movers : WillRun(registry, game, x)
    BY DEF MotionInv
<1>7. CASE e.op = "mass" /\ MassChanged(c)
    <2>1. /\ game' = Tail(game) /\ moving' = moving
          /\ registry'["created"] = registry["created"]
          /\ registry'["processing"] = registry["processing"]
        BY <1>3, <1>7 DEF MassChanged, Modified
    <2>2. \A x : e # Start(x)
        BY <1>4, <1>7
    <2>3. Movers' = Movers
        BY <1>1, <2>1 DEF Movers
    <2> QED
        BY <1>1, <1>5, <1>6, <2>1, <2>2, <2>3 DEF MotionInv, WillRun
<1>8. CASE e.op = "mass" /\ MotherExplodes(c)
    <2>1. PICK n \in 1..Cardinality(Free) : \E new \in Lists(Free, n) :
              /\ CreateIn(Modified(c), new, "mother")
              /\ moving' = moving \cup Range(new)
              /\ game' = Tail(game) \o Emit("mass", c, "mother") \o EmitAll("mass", new, "mother")
        BY <1>8 DEF MotherExplodes
    <2>2. n \in Nat /\ "mother" \in Kinds
        BY Present DEF Kinds, Counted
    <2>3. PICK new \in Lists(Free, n) :
              /\ CreateIn(Modified(c), new, "mother")
              /\ moving' = moving \cup Range(new)
              /\ game' = Tail(game) \o Emit("mass", c, "mother") \o EmitAll("mass", new, "mother")
        BY <2>1
    <2>4. Modified(c) \in [Registries -> SUBSET Cell]
        BY <1>1, <1>3 DEF Modified
    <2>5. Makes(Modified(c), Range(new))
        BY <2>2, <2>3, <2>4, CellsMade
    <2>6. /\ registry'["created"] = registry["created"] \cup Range(new)
          /\ registry'["processing"] = registry["processing"]
        BY <1>3, <2>5 DEF Makes, Modified
    <2> DEFINE a == Emit("mass", c, "mother")
               b == EmitAll("mass", new, "mother")
    <2>7. new \in [1..n -> Cell]
        BY <2>2, ListOfCells DEF Free
    <2>8. a \in Seq(Going(Cell)) /\ b \in Seq(Going(Cell)) /\ game' = (Tail(game) \o a) \o b
        BY <1>1, <2>2, <2>3, <2>7, GoingEmitted
    <2> HIDE DEF a, b
    <2>9. Tail(game) \in Seq(Event)
        BY <1>5
    <2>10. a \o b \in Seq(Going(Cell)) /\ (Tail(game) \o a) \o b = Tail(game) \o (a \o b)
        BY <2>8, <2>9, PostedTogether
    <2>12. \A x : /\ StoppedBy(game', x) => StoppedBy(Tail(game), x)
                  /\ Restarted(Tail(game), x) => Restarted(game', x)
        <3> TAKE x
        <3> DEFINE h == a \o b
        <3>1. h \in Seq(Event) /\ ~StoppedBy(h, x)
            BY <2>10, GoingStopsNothing
        <3>2. game' = Tail(game) \o h
            BY <2>8, <2>10
        <3> HIDE DEF h
        <3> QED
            BY <1>5, <3>1, <3>2, BehindQueue
    <2>13. \A x : e # Start(x)
        BY <1>4, <1>8
    <2>14. Movers' \subseteq Movers \cup Range(new)
        BY <1>1, <2>3 DEF Movers
    <2>15. ASSUME NEW x \in Movers'
           PROVE  WillRun(registry', game', x)
        <3>1. CASE x \in Range(new)
            BY <2>6, <3>1 DEF WillRun
        <3>2. CASE x \in Movers
            <4>1. WillRun(registry, game, x)
                BY <1>6, <3>2
            <4> QED
                BY <1>5, <2>6, <2>12, <2>13, <4>1 DEF WillRun
        <3> QED
            BY <2>14, <3>1, <3>2
    <2> QED
        BY <1>1, <2>15 DEF MotionInv
<1>9. CASE e.op = "started" /\ MotionStarted(c)
    <2>1. /\ game' = Tail(game) /\ moving' = moving
          /\ registry'["created"] = registry["created"]
          /\ registry'["processing"] = registry["processing"] \cup {c}
        BY <1>3, <1>9 DEF MotionStarted, Modified
    <2>2. \A x : e = Start(x) => x = c
        BY <1>4
    <2>3. Movers' = Movers
        BY <1>1, <2>1 DEF Movers
    <2> QED
        BY <1>1, <1>5, <1>6, <2>1, <2>2, <2>3 DEF MotionInv, WillRun
<1>10. CASE e.op = "stopped" /\ MotionStopped(c)
    <2>1. /\ game' = Tail(game) /\ moving' = moving
          /\ registry'["created"] = registry["created"]
          /\ registry'["processing"] = registry["processing"] \ {c}
        BY <1>3, <1>10 DEF MotionStopped, Modified
    <2>2. (\A x : e # Start(x)) /\ StoppedBy(game, c)
        BY <1>4, <1>5, <1>10
    <2>3. Movers' = Movers
        BY <1>1, <2>1 DEF Movers
    <2> QED
        BY <1>1, <1>5, <1>6, <2>1, <2>2, <2>3 DEF MotionInv, WillRun
<1> QED
    BY <1>2, <1>7, <1>8, <1>9, <1>10

\* No event is left when the deaths are handled, and then nothing waits.
LEMMA NothingLeft ==
    ASSUME NEW c
    PROVE  ~StoppedBy(<<>>, c) /\ ~Restarted(<<>>, c)
BY DEF StoppedBy, Restarted

LEMMA BuryMotion ==
    ASSUME IInv, MotionInv, Bury
    PROVE  MotionInv'
<1> DEFINE c == Head(deaths)
<1>1. /\ phase = "death" /\ phase' = phase /\ game' = game /\ moving' = moving
      /\ deadCells' = Append(deadCells, c)
      /\ registry'["created"] = registry["created"] \ {c}
      /\ registry'["processing"] = registry["processing"] \ {c}
    BY DEF Bury, Forget, Registries
<1>2. game = <<>> /\ deaths # <<>>
    BY <1>1 DEF IInv, DeathsLast, Bury
<1>3. c \in Range(deadCells') /\ Range(deadCells) \subseteq Range(deadCells')
    <2>1. deadCells \in Seq(Cell) /\ c \in Cell
        BY <1>2 DEF IInv, TypeOK
    <2> HIDE DEF c
    <2>2. /\ DOMAIN deadCells' = 1..(Len(deadCells) + 1) /\ Len(deadCells) \in Nat
          /\ DOMAIN deadCells = 1..Len(deadCells) /\ deadCells'[Len(deadCells) + 1] = c
          /\ \A i \in 1..Len(deadCells) : deadCells'[i] = deadCells[i]
        BY <1>1, <2>1
    <2>3. Len(deadCells) + 1 \in DOMAIN deadCells' /\ DOMAIN deadCells \subseteq DOMAIN deadCells'
        BY <2>2
    <2> QED
        BY <2>2, <2>3 DEF Range
<1> HIDE DEF c
<1>4. ASSUME NEW x \in Movers'
      PROVE  WillRun(registry', game', x)
    <2>1. x \in Movers /\ x # c
        BY <1>1, <1>3 DEF Movers
    <2>2. WillRun(registry, game, x)
        BY <2>1 DEF MotionInv
    <2> QED
        BY <1>1, <1>2, <2>1, <2>2, NothingLeft DEF WillRun
<1> QED
    BY <1>1, <1>4 DEF MotionInv

LEMMA SynchronizeMotion ==
    ASSUME IInv, MotionInv, Synchronize
    PROVE  MotionInv'
<1>1. /\ phase' = phase /\ game' = game
      /\ moving' = moving \ Range(deadCells) /\ deadCells' = <<>>
      /\ registry'["created"] = registry["created"]
      /\ registry'["processing"] = registry["processing"]
    BY DEF Synchronize, Delete, IInv, TypeOK, Registries
<1>2. Movers' = Movers
    BY <1>1 DEF Movers, Range
<1> QED
    BY <1>1, <1>2 DEF MotionInv, Calm, WillRun, StoppedBy, Restarted

LEMMA PhaseMotion ==
    ASSUME IInv, MotionInv, BeginUpdate \/ RunGameEvents \/ RunDeaths \/ EndUpdate
    PROVE  MotionInv'
<1>1. Unmade /\ deadCells' = deadCells /\ moving' = moving /\ game' = game
    BY DEF BeginUpdate, RunGameEvents, RunDeaths, EndUpdate
<1>2. Movers' = Movers /\ registry' = registry
    BY <1>1 DEF Movers, Unmade
<1>3. phase' \in {"idle", "requests"} => Calm
    <2>1. CASE EndUpdate
        <3>1. game = <<>>
            BY <2>1 DEF EndUpdate, IInv, DeathsLast
        <3>2. \A c \in Movers : WillRun(registry, <<>>, c)
            BY <3>1 DEF MotionInv
        <3> QED
            BY <3>1, <3>2, NothingLeft DEF Calm, WillRun
    <2>2. CASE ~EndUpdate
        BY <2>2 DEF BeginUpdate, RunGameEvents, RunDeaths, MotionInv
    <2> QED
        BY <2>1, <2>2
<1> QED
    BY <1>1, <1>2, <1>3 DEF MotionInv, Calm, WillRun, StoppedBy, Restarted

LEMMA StepMotion ==
    ASSUME CellsAssumption, IInv, MotionInv, [Next]_vars
    PROVE  MotionInv'
<1>1. ASSUME NEW k \in Counted, Generate(k)
      PROVE  MotionInv'
    BY <1>1, GenerateMotion
<1>2. CASE GenerateFoodByMothers \/ Respawn \/ Annihilate \/ KillExpiredCells
    BY <1>2, GenerateFoodByMothersMotion, RespawnMotion, AnnihilateMotion, KillExpiredCellsMotion
<1>3. CASE Deflate \/ StartMotion
    <2>1. \E op \in {"mass", "started"} : EmitForAvatars(op) /\ phase' = phase
        BY <1>3 DEF Deflate, StartMotion, EmitForAvatars
    <2> QED
        BY <2>1, EmitForAvatarsMotion
<1>4. CASE Requests
    BY <1>4, EjectMotion, SplitMotion DEF Requests
<1>5. CASE Collisions
    BY <1>5, InteractMotion DEF Collisions
<1>6. CASE Synchronize \/ BeginUpdate \/ RestOfUpdate
    BY <1>6, SynchronizeMotion, PhaseMotion, SimulateMotion, GameEventMotion, BuryMotion
       DEF RestOfUpdate
<1>7. CASE UNCHANGED vars
    BY <1>7 DEF vars, MotionInv, Calm, Movers, WillRun, StoppedBy, Restarted
<1> QED
    BY <1>1, <1>2, <1>3, <1>4, <1>5, <1>6, <1>7 DEF Next

\* Between two updates, what moves is simulated or was just made.
THEOREM CellsMovingAreSimulated == Spec => []MovingAreSimulated
<1>1. Init => MotionInv
    BY NothingLeft DEF Init, MotionInv, Calm, Movers
<1>2. IInv /\ MotionInv /\ [Next]_vars => MotionInv'
    BY StepMotion, CellsAssumption
<1>3. MotionInv => MovingAreSimulated
    BY DEF MotionInv, Calm, Movers, MovingAreSimulated
<1> QED
    BY <1>1, <1>2, <1>3, AlwaysIInv, PTL DEF Spec
=============================================================================
