---------------------------- MODULE ServerProofs ----------------------------
(***************************************************************************)
(* For any number of workers, clients, rooms and reloads: the acceptor is  *)
(* never opened twice, accepts are kept, and a room keeps time until it is *)
(* told to stop.                                                           *)
(***************************************************************************)
EXTENDS Server, FiniteSetTheorems, SequenceTheorems, TLAPS

-----------------------------------------------------------------------------
\* Sequences of handlers.

\* What a handler that is appended does to a queue.
LEMMA PostIsConcat ==
  ASSUME NEW S, NEW q \in Seq(S), NEW h \in S
  PROVE  Append(q, h) = q \o <<h>> /\ <<h>> \in Seq(S)
BY SMT

\* A sequence of the same handler.
LEMMA RepeatType ==
  ASSUME NEW k \in Nat, NEW S, NEW h \in S
  PROVE  /\ [i \in 1 .. k |-> h] \in Seq(S)
         /\ Len([i \in 1 .. k |-> h]) = k
         /\ \A i \in 1 .. k : [j \in 1 .. k |-> h][i] = h
<1>1. [i \in 1 .. k |-> h] \in Seq(S)
  BY IsASeq
<1> QED
  BY <1>1

\* The stop jobs for a finite set of rooms.
LEMMA StopJobsType ==
  ASSUME NEW S, IsFiniteSet(S)
  PROVE  SetToSeq(S) \in Seq(S)
<1>1. \E f \in [1 .. Cardinality(S) -> S] : IsInjective(f)
  BY FS_CardinalityType DEF ExistsBijection, Bijection, Injection
<1>2. SetToSeq(S) \in [1 .. Cardinality(S) -> S]
  BY <1>1 DEF SetToSeq
<1>3. Cardinality(S) \in Nat
  BY FS_CardinalityType
<1> QED
  BY <1>2, <1>3

-----------------------------------------------------------------------------
\* The handlers of accepts that are over.
Done(q) == {i \in DOMAIN q : q[i].kind \in {"accepted", "acceptFailed"}}

\* They are finitely many.
LEMMA DoneFinite ==
  ASSUME NEW q \in Seq(Handler)
  PROVE  IsFiniteSet(Done(q)) /\ Cardinality(Done(q)) \in Nat
<1>1. Len(q) \in Nat /\ DOMAIN q = 1 .. Len(q)
  BY LenProperties
<1>2. Done(q) \in SUBSET (1 .. Len(q))
  BY <1>1 DEF Done
<1>3. IsFiniteSet(1 .. Len(q))
  BY <1>1, FS_Interval
<1> QED
  BY <1>2, <1>3, FS_Subset, FS_CardinalityType

\* Those of two queues, one behind the other, are added.
LEMMA DoneOfConcat ==
  ASSUME NEW q \in Seq(Handler), NEW e \in Seq(Handler)
  PROVE  Cardinality(Done(q \o e)) = Cardinality(Done(q)) + Cardinality(Done(e))
<1> DEFINE n == Len(q)
           m == Len(e)
           B == {i \in (n + 1) .. (n + m) : e[i - n].kind \in {"accepted", "acceptFailed"}}
<1>1. n \in Nat /\ m \in Nat /\ DOMAIN q = 1 .. n /\ DOMAIN e = 1 .. m
  BY LenProperties
<1>2. /\ DOMAIN (q \o e) = 1 .. (n + m)
      /\ \A i \in 1 .. (n + m) : (q \o e)[i] = IF i <= n THEN q[i] ELSE e[i - n]
  <2>1. q \o e \in Seq(Handler) /\ Len(q \o e) = n + m
    BY ConcatProperties
  <2>2. DOMAIN (q \o e) = 1 .. (n + m)
    BY <2>1, LenProperties
  <2> QED
    BY <2>2, ConcatProperties
<1> HIDE DEF n, m
<1>3. Done(q \o e) = Done(q) \cup B /\ Done(q) \cap B = {}
  <2>1. ASSUME NEW i
        PROVE  i \in Done(q \o e) <=> i \in Done(q) \cup B
    BY <1>1, <1>2 DEF Done
  <2>2. Done(q) \cap B = {}
    BY <1>1 DEF Done
  <2> QED
    BY <2>1, <2>2
<1>4. [i \in Done(e) |-> i + n] \in Bijection(Done(e), B)
  <2> DEFINE f == [i \in Done(e) |-> i + n]
  <2>1. Done(e) \subseteq 1 .. m
    BY <1>1 DEF Done
  <2>2. f \in [Done(e) -> B]
    <3> SUFFICES ASSUME NEW i \in Done(e)
                 PROVE  i + n \in B
      OBVIOUS
    <3>1. i \in 1 .. m /\ e[i].kind \in {"accepted", "acceptFailed"}
      BY <1>1 DEF Done
    <3>2. i + n \in (n + 1) .. (n + m) /\ (i + n) - n = i
      BY <1>1, <3>1
    <3> QED
      BY <3>1, <3>2
  <2>3. \A i, j \in Done(e) : f[i] = f[j] => i = j
    BY <1>1, <2>1
  <2>4. \A j \in B : \E i \in Done(e) : f[i] = j
    <3> SUFFICES ASSUME NEW j \in B
                 PROVE  j - n \in Done(e) /\ f[j - n] = j
      OBVIOUS
    <3>1. j \in (n + 1) .. (n + m) /\ e[j - n].kind \in {"accepted", "acceptFailed"}
      OBVIOUS
    <3>2. j - n \in 1 .. m /\ (j - n) + n = j
      BY <1>1, <3>1
    <3> QED
      BY <1>1, <3>1, <3>2 DEF Done
  <2> HIDE DEF f, B
  <2>5. f \in Bijection(Done(e), B)
    BY <2>2, <2>3, <2>4 DEF Bijection, Injection, Surjection, IsInjective
  <2> QED
    BY <2>5 DEF f
<1>5. IsFiniteSet(B) /\ Cardinality(B) = Cardinality(Done(e))
  BY <1>4, DoneFinite, FS_Bijection DEF ExistsBijection
<1> HIDE DEF B
<1>6. Cardinality(Done(q) \cap B) = 0
  BY <1>3, FS_EmptySet
<1>7. Cardinality(Done(q \o e)) = Cardinality(Done(q)) + Cardinality(B) - 0
  BY <1>3, <1>5, <1>6, DoneFinite, FS_Union
<1>8. Cardinality(Done(q)) \in Nat /\ Cardinality(Done(e)) \in Nat
  BY DoneFinite
<1> QED
  BY <1>5, <1>7, <1>8

\* What one handler counts.
LEMMA DoneOfOne ==
  ASSUME NEW h \in Handler
  PROVE  Cardinality(Done(<<h>>)) = IF h.kind \in {"accepted", "acceptFailed"} THEN 1 ELSE 0
<1>1. CASE h.kind \in {"accepted", "acceptFailed"}
  <2>1. Done(<<h>>) = {1}
    BY <1>1 DEF Done
  <2> QED
    BY <1>1, <2>1, FS_Singleton
<1>2. CASE h.kind \notin {"accepted", "acceptFailed"}
  <2>1. Done(<<h>>) = {}
    BY <1>2 DEF Done
  <2> QED
    BY <1>2, <2>1, FS_EmptySet
<1> QED
  BY <1>1, <1>2

\* A handler that is appended.
LEMMA DoneOfAppend ==
  ASSUME NEW q \in Seq(Handler), NEW h \in Handler
  PROVE  /\ Append(q, h) \in Seq(Handler)
         /\ Cardinality(Done(Append(q, h))) =
              Cardinality(Done(q)) + (IF h.kind \in {"accepted", "acceptFailed"} THEN 1 ELSE 0)
<1>1. Append(q, h) = q \o <<h>> /\ <<h>> \in Seq(Handler)
  BY PostIsConcat
<1>2. Append(q, h) \in Seq(Handler)
  BY <1>1, ConcatProperties
<1> QED
  BY <1>1, <1>2, DoneOfConcat, DoneOfOne

\* The first handler is taken.
LEMMA DoneOfTail ==
  ASSUME NEW q \in Seq(Handler), q # <<>>
  PROVE  /\ Head(q) \in Handler /\ Tail(q) \in Seq(Handler)
         /\ Cardinality(Done(q)) = Cardinality(Done(Tail(q)))
              + (IF Head(q).kind \in {"accepted", "acceptFailed"} THEN 1 ELSE 0)
<1>1. /\ Head(q) \in Handler /\ Tail(q) \in Seq(Handler)
      /\ q = <<Head(q)>> \o Tail(q) /\ <<Head(q)>> \in Seq(Handler)
  BY SMT
<1>2. Cardinality(Done(q)) = Cardinality(Done(<<Head(q)>>)) + Cardinality(Done(Tail(q)))
  BY <1>1, DoneOfConcat
<1>3. Cardinality(Done(<<Head(q)>>)) = IF Head(q).kind \in {"accepted", "acceptFailed"} THEN 1 ELSE 0
  BY <1>1, DoneOfOne
<1>4. Cardinality(Done(Tail(q))) \in Nat
  BY <1>1, DoneFinite
<1> QED
  BY <1>1, <1>2, <1>3, <1>4

\* Every accept that is aborted.
LEMMA DoneOfAborted ==
  ASSUME NEW k \in Nat, NEW q \in Seq(Handler), Plain("acceptFailed") \in Handler
  PROVE  /\ q \o [i \in 1 .. k |-> Plain("acceptFailed")] \in Seq(Handler)
         /\ Cardinality(Done(q \o [i \in 1 .. k |-> Plain("acceptFailed")])) = Cardinality(Done(q)) + k
<1> DEFINE e == [i \in 1 .. k |-> Plain("acceptFailed")]
<1>1. e \in Seq(Handler)
  BY RepeatType
<1>2. Done(e) = 1 .. k
  BY DEF Done, Plain
<1>3. Cardinality(Done(e)) = k
  BY <1>2, FS_Interval
<1> HIDE DEF e
<1>4. q \o e \in Seq(Handler)
  BY <1>1, ConcatProperties
<1> QED
  BY <1>1, <1>3, <1>4, DoneOfConcat DEF e

-----------------------------------------------------------------------------
\* Between two doRun() is a doStop(); before the first, if the acceptor is
\* open; and behind all, from the stop of the application to its next start.
Waiting == {"stopped", "joining", "joined", "starting"}
StopWithin(q, i, j) == \E k \in DOMAIN q : i < k /\ k < j /\ q[k].kind = "doStop"
StopBehind(q, i) == \E k \in DOMAIN q : i < k /\ q[k].kind = "doStop"
Chain(q, o, m) ==
  /\ o => \A j \in DOMAIN q : q[j].kind = "doRun" => StopWithin(q, 0, j)
  /\ \A i, j \in DOMAIN q :
       i < j /\ q[i].kind = "doRun" /\ q[j].kind = "doRun" => StopWithin(q, i, j)
  /\ m \in Waiting =>
       /\ \A i \in DOMAIN q : q[i].kind = "doRun" => StopBehind(q, i)
       /\ o => StopBehind(q, 0)

\* What is known of a queue when handlers are appended to it.
LEMMA Extended ==
  ASSUME NEW q \in Seq(Handler), NEW e \in Seq(Handler)
  PROVE  /\ q \o e \in Seq(Handler)
         /\ Len(q) \in Nat /\ Len(e) \in Nat
         /\ DOMAIN q = 1 .. Len(q) /\ DOMAIN e = 1 .. Len(e)
         /\ DOMAIN (q \o e) = 1 .. Len(q) + Len(e)
         /\ \A i \in DOMAIN q : i \in DOMAIN (q \o e) /\ (q \o e)[i] = q[i]
         /\ \A i \in DOMAIN e : i + Len(q) \in DOMAIN (q \o e) /\ (q \o e)[i + Len(q)] = e[i]
         /\ \A i \in DOMAIN (q \o e) : i \in DOMAIN q \/ i - Len(q) \in DOMAIN e
<1>1. /\ q \o e \in Seq(Handler)
      /\ Len(q \o e) = Len(q) + Len(e)
      /\ \A i \in 1 .. Len(q) + Len(e) : (q \o e)[i] = IF i <= Len(q) THEN q[i] ELSE e[i - Len(q)]
  BY ConcatProperties
<1>2. /\ Len(q) \in Nat /\ Len(e) \in Nat
      /\ DOMAIN q = 1 .. Len(q) /\ DOMAIN e = 1 .. Len(e)
      /\ DOMAIN (q \o e) = 1 .. Len(q) + Len(e)
  BY <1>1, LenProperties
<1> QED
  BY <1>1, <1>2

\* Other handlers behind the queue change nothing of it.
LEMMA ChainExtended ==
  ASSUME NEW q \in Seq(Handler), NEW e \in Seq(Handler), NEW o, NEW m,
         \A i \in DOMAIN e : e[i].kind \notin {"doRun", "doStop"},
         Chain(q, o, m)
  PROVE  Chain(q \o e, o, m)
<1> DEFINE p == q \o e
<1>1. /\ \A i \in DOMAIN q : i \in DOMAIN p /\ p[i] = q[i]
      /\ \A i \in DOMAIN p : p[i].kind = "doRun" => i \in DOMAIN q /\ q[i].kind = "doRun"
  <2>1. \A i \in DOMAIN q : i \in DOMAIN p /\ p[i] = q[i]
    BY Extended
  <2>2. ASSUME NEW i \in DOMAIN p, i \notin DOMAIN q
        PROVE  p[i].kind # "doRun"
    <3>1. i - Len(q) \in DOMAIN e /\ p[(i - Len(q)) + Len(q)] = e[i - Len(q)]
      BY <2>2, Extended
    <3>2. (i - Len(q)) + Len(q) = i
      <4>1. i \in Int /\ Len(q) \in Int
        BY Extended
      <4> QED
        BY <4>1
    <3> QED
      BY <3>1, <3>2
  <2> QED
    BY <2>1, <2>2
<1> HIDE DEF p
<1>2. \A i, j : StopWithin(q, i, j) => StopWithin(p, i, j)
  BY <1>1 DEF StopWithin
<1>3. \A i : StopBehind(q, i) => StopBehind(p, i)
  BY <1>1 DEF StopBehind
<1> QED
  BY <1>1, <1>2, <1>3 DEF Chain, p

\* What is known of a queue without its first handler.
LEMMA Shortened ==
  ASSUME NEW q \in Seq(Handler), q # <<>>
  PROVE  /\ Tail(q) \in Seq(Handler) /\ Head(q) \in Handler /\ 1 \in DOMAIN q /\ q[1] = Head(q)
         /\ DOMAIN q \subseteq Nat \ {0} /\ DOMAIN Tail(q) \subseteq Nat \ {0}
         /\ \A i \in DOMAIN Tail(q) : i + 1 \in DOMAIN q /\ Tail(q)[i] = q[i + 1]
         /\ \A i \in DOMAIN q : 1 < i => i - 1 \in DOMAIN Tail(q) /\ Tail(q)[i - 1] = q[i]
<1>1. /\ Head(q) \in Handler /\ Tail(q) \in Seq(Handler)
      /\ Len(Tail(q)) = Len(q) - 1
      /\ \A i \in 1 .. Len(Tail(q)) : Tail(q)[i] = q[i + 1]
  BY HeadTailProperties
<1>2. /\ Len(q) \in Nat \ {0} /\ DOMAIN q = 1 .. Len(q)
      /\ DOMAIN Tail(q) = 1 .. Len(q) - 1
  BY <1>1, LenProperties, EmptySeq
<1>3. q[1] = Head(q)
  BY SMT
<1> QED
  BY <1>1, <1>2, <1>3

\* A stop that lies behind the first handler stays.
LEMMA StopStays ==
  ASSUME NEW q \in Seq(Handler), q # <<>>, NEW i \in Nat
  PROVE  /\ StopBehind(q, i + 1) => StopBehind(Tail(q), i)
         /\ \A j \in Nat : StopWithin(q, i + 1, j + 1) => StopWithin(Tail(q), i, j)
<1>1. ASSUME NEW k \in DOMAIN q, i + 1 < k
      PROVE  /\ k - 1 \in DOMAIN Tail(q) /\ i < k - 1 /\ Tail(q)[k - 1] = q[k]
             /\ \A j \in Nat : k < j + 1 => k - 1 < j
  <2>1. k \in Nat
    BY Shortened
  <2> QED
    BY <1>1, <2>1, Shortened
<1>2. StopBehind(q, i + 1) => StopBehind(Tail(q), i)
  BY <1>1 DEF StopBehind
<1>3. ASSUME NEW j \in Nat, StopWithin(q, i + 1, j + 1)
      PROVE  StopWithin(Tail(q), i, j)
  BY <1>1, <1>3 DEF StopWithin
<1> QED
  BY <1>2, <1>3

\* If no doRun() was first, one that is left has the stop it needs behind the
\* first handler; so has an open acceptor, unless doStop() was first.
LEMMA ChainShortened ==
  ASSUME NEW q \in Seq(Handler), q # <<>>, NEW o, NEW m, Chain(q, o, m)
  PROVE  /\ Head(q).kind \notin {"doRun", "doStop"} => Chain(Tail(q), o, m)
         /\ Head(q).kind = "doStop" => Chain(Tail(q), FALSE, m)
         /\ Head(q).kind = "doRun" => ~o /\ Chain(Tail(q), TRUE, m)
<1> DEFINE t == Tail(q)
<1>1. /\ DOMAIN q \subseteq Nat \ {0} /\ DOMAIN t \subseteq Nat \ {0} /\ 1 \in DOMAIN q /\ q[1] = Head(q)
      /\ \A i \in DOMAIN t : i + 1 \in DOMAIN q /\ t[i] = q[i + 1]
  BY Shortened
<1>2. /\ \A i \in Nat : StopBehind(q, i + 1) => StopBehind(t, i)
      /\ \A i, j \in Nat : StopWithin(q, i + 1, j + 1) => StopWithin(t, i, j)
  BY StopStays
<1> HIDE DEF t
<1>3. ASSUME NEW i \in DOMAIN t, NEW j \in DOMAIN t, i < j, t[i].kind = "doRun", t[j].kind = "doRun"
      PROVE  StopWithin(t, i, j)
  <2>1. i \in Nat /\ j \in Nat /\ i + 1 < j + 1
    BY <1>1, <1>3
  <2>2. StopWithin(q, i + 1, j + 1)
    BY <1>1, <1>3, <2>1 DEF Chain
  <2> QED
    BY <1>2, <2>1, <2>2
<1>4. ASSUME m \in Waiting, NEW i \in DOMAIN t, t[i].kind = "doRun"
      PROVE  StopBehind(t, i)
  <2>1. i \in Nat /\ StopBehind(q, i + 1)
    BY <1>1, <1>4 DEF Chain
  <2> QED
    BY <1>2, <2>1
<1>5. ASSUME Head(q).kind \notin {"doRun", "doStop"}
      PROVE  Chain(t, o, m)
  <2>1. \A j \in Nat : StopWithin(q, 0, j + 1) => StopWithin(q, 1, j + 1)
    BY <1>1, <1>5 DEF StopWithin
  <2>2. StopBehind(q, 0) => StopBehind(q, 1)
    BY <1>1, <1>5 DEF StopBehind
  <2>3. ASSUME o, NEW j \in DOMAIN t, t[j].kind = "doRun"
        PROVE  StopWithin(t, 0, j)
    <3>1. j \in Nat /\ StopWithin(q, 0, j + 1)
      BY <1>1, <2>3 DEF Chain
    <3>2. StopWithin(q, 0 + 1, j + 1)
      BY <2>1, <3>1
    <3> QED
      BY <1>2, <3>1, <3>2
  <2>4. m \in Waiting /\ o => StopBehind(t, 0)
    <3>1. m \in Waiting /\ o => StopBehind(q, 0 + 1)
      BY <2>2 DEF Chain
    <3> QED
      BY <1>2, <3>1
  <2> QED
    BY <1>3, <1>4, <2>3, <2>4 DEF Chain
<1>6. ASSUME Head(q).kind = "doStop"
      PROVE  Chain(t, FALSE, m)
  BY <1>3, <1>4 DEF Chain
<1>7. ASSUME Head(q).kind = "doRun"
      PROVE  ~o /\ Chain(t, TRUE, m)
  <2>1. ~o
    <3>1. ~StopWithin(q, 0, 1)
      BY <1>1 DEF StopWithin
    <3> QED
      BY <1>1, <1>7, <3>1 DEF Chain
  <2>2. ASSUME NEW j \in DOMAIN t, t[j].kind = "doRun"
        PROVE  StopWithin(t, 0, j)
    <3>1. j \in Nat /\ 1 < j + 1 /\ j + 1 \in DOMAIN q /\ q[j + 1].kind = "doRun"
      BY <1>1, <2>2
    <3>2. StopWithin(q, 0 + 1, j + 1)
      BY <1>1, <1>7, <3>1 DEF Chain
    <3> QED
      BY <1>2, <3>1, <3>2
  <2>3. m \in Waiting => StopBehind(t, 0)
    <3>1. m \in Waiting => StopBehind(q, 0 + 1)
      BY <1>1, <1>7 DEF Chain
    <3> QED
      BY <1>2, <3>1
  <2> QED
    BY <1>3, <1>4, <2>1, <2>2, <2>3 DEF Chain
<1> QED
  BY <1>5, <1>6, <1>7 DEF t

\* start() puts doRun() behind the stop of the last time.
LEMMA ChainStarted ==
  ASSUME NEW q \in Seq(Handler), NEW h \in Handler, h.kind = "doRun", NEW o, Chain(q, o, "starting")
  PROVE  Chain(q \o <<h>>, o, "idle")
<1> DEFINE p == q \o <<h>>
           n == Len(q) + 1
<1>1. /\ n \in Nat /\ \A i \in DOMAIN q : i \in Nat /\ i < n /\ i \in DOMAIN p /\ p[i] = q[i]
      /\ \A i \in DOMAIN p : i \in DOMAIN q \/ i = n
  <2>1. <<h>> \in Seq(Handler) /\ DOMAIN <<h>> = {1}
    OBVIOUS
  <2>2. Len(q) \in Nat /\ DOMAIN q = 1 .. Len(q)
    BY LenProperties
  <2>3. /\ \A i \in DOMAIN q : i \in DOMAIN p /\ p[i] = q[i]
        /\ \A i \in DOMAIN p : i \in Int /\ (i \in DOMAIN q \/ i - Len(q) \in {1})
    BY <2>1, Extended
  <2> HIDE DEF p
  <2> QED
    BY <2>2, <2>3
<1> HIDE DEF p, n
<1>2. /\ \A i \in DOMAIN q : q[i].kind = "doRun" => StopBehind(q, i)
      /\ o => StopBehind(q, 0)
  BY DEF Chain, Waiting
<1>3. \A i : StopBehind(q, i) => StopWithin(p, i, n)
  BY <1>1 DEF StopBehind, StopWithin
<1>4. \A i, j : StopWithin(q, i, j) => StopWithin(p, i, j)
  BY <1>1 DEF StopWithin
<1>5. ASSUME o, NEW j \in DOMAIN p, p[j].kind = "doRun"
      PROVE  StopWithin(p, 0, j)
  BY <1>1, <1>2, <1>3, <1>4, <1>5 DEF Chain
<1>6. ASSUME NEW i \in DOMAIN p, NEW j \in DOMAIN p, i < j, p[i].kind = "doRun", p[j].kind = "doRun"
      PROVE  StopWithin(p, i, j)
  <2>1. i \in DOMAIN q
    BY <1>1, <1>6
  <2>2. CASE j = n
    BY <1>1, <1>2, <1>3, <1>6, <2>1, <2>2
  <2>3. CASE j \in DOMAIN q
    BY <1>1, <1>4, <1>6, <2>1, <2>3 DEF Chain
  <2> QED
    BY <1>1, <2>2, <2>3
<1> QED
  BY <1>5, <1>6 DEF Chain, Waiting, p

\* stop() puts doStop() behind whatever is in the queue.
LEMMA ChainStopped ==
  ASSUME NEW q \in Seq(Handler), NEW h \in Handler, h.kind = "doStop", NEW o, NEW m, NEW l, Chain(q, o, l)
  PROVE  Chain(q \o <<h>>, o, m)
<1> DEFINE p == q \o <<h>>
           n == Len(q) + 1
<1>1. /\ n \in Nat \ {0} /\ \A i \in DOMAIN q : i \in Nat /\ i < n /\ i \in DOMAIN p /\ p[i] = q[i]
      /\ \A i \in DOMAIN p : i \in DOMAIN q \/ i = n
      /\ n \in DOMAIN p /\ p[n] = h
  <2>1. <<h>> \in Seq(Handler) /\ DOMAIN <<h>> = {1} /\ <<h>>[1] = h
    OBVIOUS
  <2>2. Len(q) \in Nat /\ DOMAIN q = 1 .. Len(q)
    BY LenProperties
  <2>3. /\ \A i \in DOMAIN q : i \in DOMAIN p /\ p[i] = q[i]
        /\ \A i \in DOMAIN p : i \in Int /\ (i \in DOMAIN q \/ i - Len(q) \in {1})
        /\ 1 + Len(q) \in DOMAIN p /\ p[1 + Len(q)] = h
    BY <2>1, Extended
  <2>4. 1 + Len(q) = n
    BY <2>2
  <2> HIDE DEF p
  <2> QED
    BY <2>2, <2>3, <2>4
<1> HIDE DEF p, n
<1>2. /\ \A i \in DOMAIN q : StopBehind(p, i)
      /\ StopBehind(p, 0)
  BY <1>1 DEF StopBehind
<1>3. \A i, j : StopWithin(q, i, j) => StopWithin(p, i, j)
  BY <1>1 DEF StopWithin
<1>4. \A i \in DOMAIN p : p[i].kind = "doRun" => i \in DOMAIN q /\ q[i].kind = "doRun"
  BY <1>1
<1> QED
  BY <1>2, <1>3, <1>4 DEF Chain, p

\* The state of the main thread matters only while it stops.
LEMMA ChainAt ==
  ASSUME NEW q, NEW o, NEW l, NEW m, Chain(q, o, l), m \in Waiting => l \in Waiting
  PROVE  Chain(q, o, m)
BY DEF Chain

-----------------------------------------------------------------------------
\* What opens or closes a session belongs to a client.
Owners == {h \in Handler : h.kind \in {"open", "close"} => h.client \in Connection}
Handled ==
  /\ queue \in Seq(Owners)
  /\ \A w \in Worker : worker[w].kind \in {"open", "close"} => worker[w].client \in Connection

\* obtain() holds the mutex of the rooms: one worker creates a room at a time,
\* which is not in the list yet.
OneCreates ==
  /\ IsFiniteSet(rooms) /\ halted \subseteq rooms
  /\ \A w \in Worker : worker[w].kind = "creating" => creating \in Room \ rooms
  /\ \A v, w \in Worker : worker[v].kind = "creating" /\ worker[w].kind = "creating" => v = w
  /\ creating \notin rooms

\* The timers of a room are about to be started, or run.
KeepsTime(r) == timer[r] # Off \/ \E i \in DOMAIN jobs : jobs[i] = [kind |-> "start", room |-> r]
Keeps ==
  /\ \A i \in DOMAIN jobs : jobs[i].kind = "stop" => jobs[i].room \in halted
  /\ \A r \in Room \ halted : r \in rooms \/ r = creating => KeepsTime(r)
  /\ ~guard => rooms # {}
  /\ halted = {} => pool # "dry"

IInv ==
  /\ TypeOK
  /\ Handled
  /\ OneCreates
  /\ Keeps
  /\ Chain(queue, open, main) /\ ~failed
  /\ AcceptsAreKept

\* Whoever owns a handler, it is a handler.
LEMMA OwnersAreHandlers ==
  ASSUME NEW q \in Seq(Owners)
  PROVE  q \in Seq(Handler)
<1>1. Owners \subseteq Handler
  BY DEF Owners
<1> QED
  BY <1>1, SeqMonotonic

\* The handlers the program posts for itself.
LEMMA PlainOwners ==
  ASSUME NEW kind \in {"doRun", "doStop", "timerStart", "timerStop", "tick", "acceptFailed"}
  PROVE  Plain(kind) \in Owners /\ Plain(kind).kind = kind /\ Plain(kind) \in Handler
BY DEF Plain, Owners, Handler

\* The timers of a room stay timers, and none of these steps turns one off
\* but cancel().
LEMMA TimerType ==
  ASSUME ServerAssumption, NEW t \in Timers
  PROVE  /\ Tick(t) \in Timers /\ Tick(t) # Off
         /\ Cancel(t) \in Timers
         /\ t.ready > 0 => Fired(t) \in Timers /\ Fired(t) # Off
         /\ t.ready < MaxTicks => Expired(t) \in Timers /\ Expired(t) # Off
<1>1. t.waiting \in BOOLEAN /\ t.ready \in 0 .. MaxTicks /\ MaxTicks \in Nat
  BY DEF Timers, ServerAssumption
<1>2. Tick(t) \in Timers /\ Tick(t).waiting
  BY DEF Timers, Tick
<1>3. Cancel(t) \in Timers
  BY DEF Timers, Cancel
<1>4. ASSUME t.ready > 0
      PROVE  Fired(t) \in Timers /\ Fired(t).waiting
  <2>1. t.ready - 1 \in 0 .. MaxTicks
    BY <1>1, <1>4
  <2>2. [t EXCEPT !.ready = t.ready - 1] \in Timers
    BY <2>1 DEF Timers
  <2> QED
    BY <2>2 DEF Fired, Tick, Timers
<1>5. ASSUME t.ready < MaxTicks
      PROVE  Expired(t) \in Timers /\ Expired(t).ready # 0
  BY <1>1, <1>5 DEF Expired, Timers
<1> QED
  BY <1>2, <1>3, <1>4, <1>5 DEF Off

\* Accepts are counted by Done.
LEMMA CountKept ==
  /\ AcceptsAreKept <=> accepting + Cardinality(Done(queue)) = listens
  /\ AcceptsAreKept' <=> accepting' + Cardinality(Done(queue')) = listens'
BY DEF AcceptsAreKept, Done

\* What the listener does not see, and no step of stop() ends.
LEMMA ListenerUntouched ==
  ASSUME IInv, UNCHANGED <<queue, listenerVars>>, main' \in Waiting => main \in Waiting
  PROVE  /\ queue' \in Seq(Owners)
         /\ Chain(queue', open', main') /\ ~failed'
         /\ AcceptsAreKept'
<1>1. Chain(queue, open, main')
  BY ChainAt DEF IInv
<1> QED
  BY <1>1 DEF listenerVars, IInv, Handled, AcceptsAreKept

\* A handler is posted that is not one of the listener.
LEMMA ListenerPosted ==
  ASSUME IInv, NEW h \in Owners, h.kind \notin {"accepted", "acceptFailed", "doRun", "doStop"},
         queue' = Append(queue, h), UNCHANGED listenerVars, UNCHANGED main
  PROVE  /\ queue' \in Seq(Owners)
         /\ Chain(queue', open', main') /\ ~failed'
         /\ AcceptsAreKept'
<1>1. queue \in Seq(Owners) /\ queue \in Seq(Handler) /\ h \in Handler
  BY OwnersAreHandlers DEF IInv, Handled, Owners
<1>2. queue' \in Seq(Owners)
  BY <1>1
<1>3. queue' = queue \o <<h>> /\ <<h>> \in Seq(Handler)
  BY <1>1, PostIsConcat
<1>4. \A i \in DOMAIN <<h>> : <<h>>[i].kind \notin {"doRun", "doStop"}
  OBVIOUS
<1>5. Chain(queue', open', main') /\ ~failed'
  BY <1>1, <1>3, <1>4, ChainExtended DEF listenerVars, IInv
<1>6. Cardinality(Done(queue')) = Cardinality(Done(queue)) + 0
  BY <1>1, DoneOfAppend
<1>7. Cardinality(Done(queue)) \in Nat
  BY <1>1, DoneFinite
<1>8. AcceptsAreKept'
  BY <1>6, <1>7, CountKept DEF listenerVars, IInv
<1> QED
  BY <1>2, <1>5, <1>8

\* Rooms and their timers are left alone.
LEMMA RoomsUntouched ==
  ASSUME IInv, UNCHANGED roomVars, worker' \in [Worker -> [kind : {"out", "idle", "greet", "creating"} \cup NeedsMutex,
                                                          client : Connection \cup {Nobody}]],
         \A w \in Worker : worker'[w].kind = "creating" => worker[w].kind = "creating"
  PROVE  OneCreates' /\ Keeps'
BY DEF IInv, OneCreates, Keeps, KeepsTime, roomVars

-----------------------------------------------------------------------------
\* The program starts with nothing.
LEMMA InitIInv ==
  ASSUME ServerAssumption, Init
  PROVE  IInv
<1>1. TypeOK
  <2>1. Off \in Timers
    BY DEF ServerAssumption, Timers, Off
  <2>2. reloads \in 0 .. MaxReloads /\ timer \in [Room -> Timers]
    BY <2>1 DEF ServerAssumption, Init
  <2>3. queue \in Seq(Handler) /\ jobs \in Seq(Job)
    BY DEF Init
  <2> QED
    BY <2>2, <2>3 DEF Init, TypeOK, Plain
<1>2. Handled
  BY DEF Init, Handled, Plain
<1>3. OneCreates
  BY FS_EmptySet DEF Init, OneCreates, Plain
<1>4. Keeps
  BY DEF ServerAssumption, Init, Keeps
<1>5. Chain(queue, open, main) /\ ~failed
  BY DEF Init, Chain
<1>6. AcceptsAreKept
  <2>1. Done(<<>>) = {}
    BY DEF Done
  <2>2. Cardinality(Done(queue)) = 0
    BY <2>1, FS_EmptySet DEF Init
  <2> QED
    BY <2>2 DEF Init, AcceptsAreKept, Done
<1> QED
  BY <1>1, <1>2, <1>3, <1>4, <1>5, <1>6 DEF IInv

\* Application::start
LEMMA StartKeepsIInv ==
  ASSUME ServerAssumption, IInv, Start
  PROVE  IInv'
<1> DEFINE e == IF Statistics THEN <<Plain("timerStart")>> ELSE <<>>
           p == queue \o e
<1>1. queue \in Seq(Owners) /\ queue \in Seq(Handler)
  BY OwnersAreHandlers DEF IInv, Handled
<1>2. /\ e \in Seq(Owners) /\ e \in Seq(Handler)
      /\ \A i \in DOMAIN e : e[i].kind \notin {"doRun", "doStop", "accepted", "acceptFailed"}
  BY PlainOwners
<1>3. queue' = p \o <<Plain("doRun")>> /\ Plain("doRun") \in Owners /\ Plain("doRun") \in Handler
      /\ Plain("doRun").kind = "doRun"
  BY PlainOwners DEF Start
<1>4. p \in Seq(Owners) /\ p \in Seq(Handler) /\ Chain(p, open, "starting")
  <2>1. Chain(queue, open, "starting")
    BY DEF IInv, Start
  <2>2. \A i \in DOMAIN e : e[i].kind \notin {"doRun", "doStop"}
    BY <1>2
  <2> HIDE DEF e
  <2> QED
    BY <1>1, <1>2, <2>1, <2>2, ConcatProperties, ChainExtended
<1>5. Cardinality(Done(p)) = Cardinality(Done(queue))
  <2>1. Done(e) = {}
    BY <1>2 DEF Done
  <2>2. Cardinality(Done(e)) = 0
    BY <2>1, FS_EmptySet
  <2>3. Cardinality(Done(queue)) \in Nat
    BY <1>1, DoneFinite
  <2> HIDE DEF e
  <2>4. Cardinality(Done(p)) = Cardinality(Done(queue)) + Cardinality(Done(e))
    BY <1>1, <1>2, DoneOfConcat
  <2> QED
    BY <2>2, <2>3, <2>4
<1> HIDE DEF p, e
<1>6. queue' = Append(p, Plain("doRun")) /\ queue' \in Seq(Owners) /\ queue' \in Seq(Handler)
  <2>1. queue' = Append(p, Plain("doRun"))
    BY <1>3, <1>4, PostIsConcat
  <2> QED
    BY <1>3, <1>4, <2>1
<1>7. Chain(queue', open', main') /\ ~failed'
  BY <1>3, <1>4, ChainStarted DEF Start, listenerVars, IInv
<1>8. AcceptsAreKept'
  <2>1. Cardinality(Done(queue')) = Cardinality(Done(p)) + 0
    BY <1>3, <1>4, <1>6, DoneOfAppend
  <2>2. Cardinality(Done(queue)) \in Nat
    BY <1>1, DoneFinite
  <2> QED
    BY <1>5, <2>1, <2>2, CountKept DEF Start, listenerVars, IInv
<1>9. worker' = [w \in Worker |-> Idle] /\ Idle.kind = "idle" /\ Idle.client = Nobody
  BY DEF Start, Idle, Plain
<1>10. TypeOK'
  BY <1>6, <1>9 DEF Start, listenerVars, IInv, TypeOK, Idle, Plain
<1>11. Handled' /\ OneCreates'
  BY <1>6, <1>9 DEF Start, IInv, Handled, OneCreates
<1>12. Keeps'
  BY DEF Start, IInv, Keeps, KeepsTime
<1> QED
  BY <1>7, <1>8, <1>10, <1>11, <1>12 DEF IInv

\* A signal is taken.
LEMMA SignalKeepsIInv ==
  ASSUME ServerAssumption, IInv, Signal
  PROVE  IInv'
<1>1. queue' \in Seq(Owners) /\ Chain(queue', open', main') /\ ~failed' /\ AcceptsAreKept'
  BY ListenerUntouched DEF Signal, Waiting
<1>2. TypeOK'
  <2>1. again' \in BOOLEAN
    BY DEF Signal
  <2>2. reloads \in 0 .. MaxReloads /\ MaxReloads \in Nat
    BY DEF IInv, TypeOK, ServerAssumption
  <2>3. reloads' = reloads \/ (reloads < MaxReloads /\ reloads' = reloads + 1)
    BY DEF Signal
  <2>4. reloads' \in 0 .. MaxReloads
    BY <2>2, <2>3
  <2> QED
    BY <2>1, <2>4 DEF Signal, listenerVars, roomVars, IInv, TypeOK
<1>3. OneCreates' /\ Keeps'
  BY <1>2, RoomsUntouched DEF Signal, TypeOK
<1> QED
  BY <1>1, <1>2, <1>3 DEF Signal, IInv, Handled

\* stop() takes the mutex and posts.
LEMMA StopListenerKeepsIInv ==
  ASSUME ServerAssumption, IInv, StopListener
  PROVE  IInv'
<1> DEFINE p == queue \o <<Plain("doStop")>>
<1>1. queue \in Seq(Owners) /\ queue \in Seq(Handler)
  BY OwnersAreHandlers DEF IInv, Handled
<1>2. /\ Plain("doStop") \in Owners /\ Plain("doStop") \in Handler /\ Plain("doStop").kind = "doStop"
      /\ Plain("timerStop") \in Owners /\ Plain("timerStop") \in Handler /\ Plain("timerStop").kind = "timerStop"
  BY PlainOwners
<1>3. /\ p = Append(queue, Plain("doStop"))
      /\ p \in Seq(Owners) /\ p \in Seq(Handler)
  <2>1. p = Append(queue, Plain("doStop"))
    BY <1>1, <1>2, PostIsConcat
  <2> HIDE DEF p
  <2> QED
    BY <1>1, <1>2, <2>1
<1>4. queue' = p \o <<Plain("timerStop")>>
  <2>1. queue' = queue \o <<Plain("doStop"), Plain("timerStop")>>
    BY DEF StopListener
  <2>2. <<Plain("doStop"), Plain("timerStop")>> = <<Plain("doStop")>> \o <<Plain("timerStop")>>
    OBVIOUS
  <2>3. <<Plain("doStop")>> \in Seq(Handler) /\ <<Plain("timerStop")>> \in Seq(Handler)
    BY <1>2
  <2> QED
    BY <1>1, <2>1, <2>2, <2>3, ConcatAssociative
<1>5. Chain(p, open, "stopped")
  BY <1>1, <1>2, ChainStopped DEF IInv
<1>6. Cardinality(Done(p)) = Cardinality(Done(queue)) + 0
  BY <1>1, <1>2, <1>3, DoneOfAppend
<1> HIDE DEF p
<1>7. /\ queue' = Append(p, Plain("timerStop"))
      /\ queue' \in Seq(Owners) /\ queue' \in Seq(Handler)
      /\ <<Plain("timerStop")>> \in Seq(Handler)
  <2>1. queue' = Append(p, Plain("timerStop"))
    BY <1>2, <1>3, <1>4, PostIsConcat
  <2> QED
    BY <1>2, <1>3, <2>1
<1>8. Chain(queue', open', main') /\ ~failed'
  <2>1. \A i \in DOMAIN <<Plain("timerStop")>> : <<Plain("timerStop")>>[i].kind \notin {"doRun", "doStop"}
    BY <1>2
  <2>2. Chain(queue', open, "stopped")
    BY <1>3, <1>4, <1>5, <1>7, <2>1, ChainExtended
  <2> QED
    BY <2>2 DEF StopListener, listenerVars, IInv
<1>9. AcceptsAreKept'
  <2>1. Cardinality(Done(queue')) = Cardinality(Done(p)) + 0
    BY <1>2, <1>3, <1>7, DoneOfAppend
  <2>2. Cardinality(Done(queue)) \in Nat
    BY <1>1, DoneFinite
  <2> QED
    BY <1>6, <2>1, <2>2, CountKept DEF StopListener, listenerVars, IInv
<1>10. TypeOK'
  BY <1>7 DEF StopListener, listenerVars, roomVars, IInv, TypeOK
<1>11. OneCreates' /\ Keeps'
  BY <1>10, RoomsUntouched DEF StopListener, TypeOK
<1> QED
  BY <1>7, <1>8, <1>9, <1>10, <1>11 DEF StopListener, IInv, Handled

\* The context is stopped.
LEMMA StopContextKeepsIInv ==
  ASSUME ServerAssumption, IInv, StopContext
  PROVE  IInv'
<1>1. queue' \in Seq(Owners) /\ Chain(queue', open', main') /\ ~failed' /\ AcceptsAreKept'
  BY ListenerUntouched DEF StopContext, Waiting
<1>2. TypeOK'
  BY DEF StopContext, listenerVars, roomVars, IInv, TypeOK
<1>3. OneCreates' /\ Keeps'
  BY <1>2, RoomsUntouched DEF StopContext, TypeOK
<1> QED
  BY <1>1, <1>2, <1>3 DEF StopContext, IInv, Handled

\* All rooms are told to stop.
LEMMA StopRoomsKeepsIInv ==
  ASSUME ServerAssumption, IInv, StopRooms
  PROVE  IInv'
<1> DEFINE Stops == {[kind |-> "stop", room |-> r] : r \in rooms}
           e == SetToSeq(Stops)
<1>1. queue' \in Seq(Owners) /\ Chain(queue', open', main') /\ ~failed' /\ AcceptsAreKept'
  BY ListenerUntouched DEF StopRooms, Waiting
<1>2. e \in Seq(Stops) /\ Stops \subseteq Job
  <2>1. [r \in rooms |-> [kind |-> "stop", room |-> r]] \in Bijection(rooms, Stops)
    <3> DEFINE f == [r \in rooms |-> [kind |-> "stop", room |-> r]]
    <3>1. f \in [rooms -> Stops]
      OBVIOUS
    <3>2. \A r, s \in rooms : f[r] = f[s] => r = s
      <4>1. \A r \in rooms : f[r].room = r
        OBVIOUS
      <4> HIDE DEF f
      <4> QED
        BY <4>1
    <3>3. \A t \in Stops : \E r \in rooms : f[r] = t
      OBVIOUS
    <3> HIDE DEF f, Stops
    <3>4. f \in Bijection(rooms, Stops)
      BY <3>1, <3>2, <3>3 DEF Bijection, Injection, Surjection, IsInjective
    <3> QED
      BY <3>4 DEF f
  <2>2. IsFiniteSet(Stops)
    BY <2>1, FS_Bijection DEF ExistsBijection, IInv, OneCreates
  <2>3. Stops \subseteq Job
    BY DEF Job, IInv, TypeOK
  <2> HIDE DEF Stops
  <2> QED
    BY <2>2, <2>3, StopJobsType
<1>3. jobs' = jobs \o e /\ halted' = rooms
  BY DEF StopRooms
<1>4. jobs \in Seq(Job) /\ halted \subseteq rooms
  BY DEF IInv, TypeOK, OneCreates
<1>5. /\ jobs' \in Seq(Job)
      /\ \A i \in DOMAIN jobs' : jobs'[i] \in Stops \/ \E j \in DOMAIN jobs : jobs'[i] = jobs[j]
  <2> HIDE DEF e, Stops
  <2>1. e \in Seq(Job)
    BY <1>2, SeqMonotonic
  <2>2. /\ jobs' \in Seq(Job) /\ Len(jobs') = Len(jobs) + Len(e)
        /\ \A i \in 1 .. Len(jobs) + Len(e) : jobs'[i] = IF i <= Len(jobs) THEN jobs[i] ELSE e[i - Len(jobs)]
    BY <1>3, <1>4, <2>1, ConcatProperties
  <2>3. /\ Len(jobs) \in Nat /\ DOMAIN jobs = 1 .. Len(jobs)
        /\ Len(e) \in Nat /\ DOMAIN e = 1 .. Len(e)
        /\ DOMAIN jobs' = 1 .. Len(jobs')
    BY <1>4, <2>1, <2>2, LenProperties
  <2>4. \A i \in 1 .. Len(e) : e[i] \in Stops
    BY <1>2, ElementOfSeq
  <2> QED
    BY <2>2, <2>3, <2>4
<1>6. TypeOK'
  BY <1>5 DEF StopRooms, listenerVars, IInv, TypeOK
<1>7. OneCreates'
  BY DEF StopRooms, IInv, OneCreates
<1>8. Keeps'
  <2>1. \A i \in DOMAIN jobs' : jobs'[i].kind = "stop" => jobs'[i].room \in halted'
    <3>1. \A t \in Stops : t.room \in rooms
      OBVIOUS
    <3> HIDE DEF Stops, e
    <3> QED
      BY <3>1, <1>3, <1>4, <1>5 DEF IInv, Keeps
  <2>2. ASSUME NEW r \in Room \ halted', r \in rooms' \/ r = creating'
        PROVE  KeepsTime(r)'
    <3>1. r \in Room \ halted /\ r = creating
      BY <1>4, <2>2 DEF StopRooms
    <3>2. KeepsTime(r)
      BY <3>1 DEF IInv, Keeps
    <3>3. \A i \in DOMAIN jobs : i \in DOMAIN jobs' /\ jobs'[i] = jobs[i]
      <4> HIDE DEF e, Stops
      <4>1. e \in Seq(Job)
        BY <1>2, SeqMonotonic
      <4>2. /\ jobs' \in Seq(Job) /\ Len(jobs') = Len(jobs) + Len(e)
            /\ \A i \in 1 .. Len(jobs) + Len(e) : jobs'[i] = IF i <= Len(jobs) THEN jobs[i] ELSE e[i - Len(jobs)]
        BY <1>3, <1>4, <4>1, ConcatProperties
      <4>3. /\ Len(jobs) \in Nat /\ DOMAIN jobs = 1 .. Len(jobs) /\ Len(e) \in Nat
            /\ DOMAIN jobs' = 1 .. Len(jobs')
        BY <1>4, <4>1, <4>2, LenProperties
      <4> QED
        BY <4>2, <4>3
    <3> QED
      BY <3>2, <3>3 DEF KeepsTime, StopRooms
  <2>3. halted' = {} => halted = {}
    BY <1>3, <1>4
  <2> QED
    BY <2>1, <2>2, <2>3 DEF StopRooms, IInv, Keeps
<1> QED
  BY <1>1, <1>6, <1>7, <1>8 DEF StopRooms, IInv, Handled

\* The threads of the rooms are joined.
LEMMA StopPoolKeepsIInv ==
  ASSUME ServerAssumption, IInv, StopPool
  PROVE  IInv'
<1>1. queue' \in Seq(Owners) /\ Chain(queue', open', main') /\ ~failed' /\ AcceptsAreKept'
  BY ListenerUntouched DEF StopPool, Waiting
<1>2. TypeOK'
  BY DEF StopPool, listenerVars, IInv, TypeOK
<1>3. OneCreates' /\ Keeps'
  BY DEF StopPool, IInv, OneCreates, Keeps, KeepsTime
<1> QED
  BY <1>1, <1>2, <1>3 DEF StopPool, IInv, Handled

-----------------------------------------------------------------------------
\* The types of what the workers do.
WorkerType == [kind : {"out", "idle", "greet", "creating"} \cup NeedsMutex,
               client : Connection \cup {Nobody}]
ClientType == {"new", "arriving", "accepted", "waiting", "open", "in"}

\* The first handler of the queue is taken.
LEMMA QueueTaken ==
  ASSUME IInv, queue # <<>>
  PROVE  /\ queue \in Seq(Handler)
         /\ Head(queue) \in Owners /\ Head(queue) \in Handler
         /\ Tail(queue) \in Seq(Owners) /\ Tail(queue) \in Seq(Handler)
         /\ Cardinality(Done(Tail(queue))) \in Nat /\ accepting \in Nat /\ listens \in Nat
         /\ accepting + (Cardinality(Done(Tail(queue)))
              + (IF Head(queue).kind \in {"accepted", "acceptFailed"} THEN 1 ELSE 0)) = listens
<1>1. queue \in Seq(Owners) /\ queue \in Seq(Handler)
  BY OwnersAreHandlers DEF IInv, Handled
<1>2. Head(queue) \in Owners /\ Tail(queue) \in Seq(Owners)
  BY <1>1
<1>3. /\ Head(queue) \in Handler /\ Tail(queue) \in Seq(Handler)
      /\ Cardinality(Done(queue)) = Cardinality(Done(Tail(queue)))
           + (IF Head(queue).kind \in {"accepted", "acceptFailed"} THEN 1 ELSE 0)
  BY <1>1, DoneOfTail
<1>4. Cardinality(Done(Tail(queue))) \in Nat
  BY <1>3, DoneFinite
<1>5. accepting + Cardinality(Done(queue)) = listens /\ accepting \in Nat /\ listens \in Nat
  BY CountKept DEF IInv, TypeOK
<1> QED
  BY <1>1, <1>2, <1>3, <1>4, <1>5

\* A handler of the listener or of a timer leaves the rest as it is.
LEMMA HandlerKeepsRest ==
  ASSUME IInv, UNCHANGED <<appVars, stopped, sessions, roomVars, worker>>,
         client' \in [Connection -> ClientType], statistic' \in BOOLEAN,
         open' \in BOOLEAN, accepting' \in Nat, listens' \in Nat, failed' \in BOOLEAN,
         queue' \in Seq(Owners), Chain(queue', open', main'), ~failed', AcceptsAreKept'
  PROVE  IInv'
<1>1. queue' \in Seq(Handler)
  BY OwnersAreHandlers
<1>2. TypeOK'
  BY <1>1 DEF appVars, roomVars, IInv, TypeOK, ClientType
<1>3. OneCreates' /\ Keeps'
  BY RoomsUntouched DEF IInv, TypeOK
<1>4. Handled'
  BY DEF IInv, Handled
<1> QED
  BY <1>2, <1>3, <1>4 DEF IInv

\* Listener::doRun finds the acceptor closed: it never throws.
LEMMA DoRunKeepsIInv ==
  ASSUME IInv, queue # <<>>, DoRun, UNCHANGED <<appVars, stopped, sessions, roomVars>>
  PROVE  IInv'
<1>1. Chain(queue, open, main) /\ ~failed /\ failed \in BOOLEAN
  BY DEF IInv, TypeOK
<1>2. ~open /\ Chain(Tail(queue), TRUE, main)
  BY <1>1, QueueTaken, ChainShortened DEF DoRun
<1>3. /\ open' = TRUE /\ accepting' = accepting + 1 /\ listens' = listens + 1
      /\ failed' = failed /\ queue' = Tail(queue)
  BY <1>2 DEF DoRun
<1>4. queue' \in Seq(Owners) /\ accepting' \in Nat /\ listens' \in Nat
  BY <1>3, QueueTaken
<1>5. Chain(queue', open', main')
  BY <1>2, <1>3 DEF appVars
<1>6. AcceptsAreKept'
  <2>1. accepting + (Cardinality(Done(Tail(queue))) + 0) = listens
    BY QueueTaken DEF DoRun
  <2> QED
    BY <1>3, <2>1, QueueTaken, CountKept
<1>7. client' \in [Connection -> ClientType] /\ statistic' \in BOOLEAN
  BY DEF DoRun, IInv, TypeOK, ClientType
<1> QED
  BY <1>1, <1>3, <1>4, <1>5, <1>6, <1>7, HandlerKeepsRest DEF DoRun

\* Listener::doStop aborts every accept under way.
LEMMA DoStopKeepsIInv ==
  ASSUME IInv, queue # <<>>, DoStop, UNCHANGED <<appVars, stopped, sessions, roomVars>>
  PROVE  IInv'
<1> DEFINE e == [i \in 1 .. accepting |-> Plain("acceptFailed")]
<1>1. Chain(queue, open, main) /\ ~failed /\ failed \in BOOLEAN
  BY DEF IInv, TypeOK
<1>2. Chain(Tail(queue), FALSE, main)
  BY <1>1, QueueTaken, ChainShortened DEF DoStop
<1>3. /\ open' = FALSE /\ accepting' = 0 /\ listens' = listens
      /\ failed' = failed /\ queue' = Tail(queue) \o e
  BY DEF DoStop
<1>4. e \in Seq(Owners) /\ e \in Seq(Handler)
  BY QueueTaken, PlainOwners, RepeatType
<1>5. \A i \in DOMAIN e : e[i].kind \notin {"doRun", "doStop"}
  BY PlainOwners
<1>6. Cardinality(Done(queue')) = Cardinality(Done(Tail(queue))) + accepting
  BY <1>3, QueueTaken, PlainOwners, DoneOfAborted
<1> HIDE DEF e
<1>7. queue' \in Seq(Owners)
  BY <1>3, <1>4, QueueTaken, ConcatProperties
<1>8. Chain(queue', open', main')
  BY <1>2, <1>3, <1>4, <1>5, QueueTaken, ChainExtended DEF appVars
<1>9. AcceptsAreKept'
  <2>1. accepting + (Cardinality(Done(Tail(queue))) + 0) = listens
    BY QueueTaken DEF DoStop
  <2> QED
    BY <1>3, <1>6, <2>1, QueueTaken, CountKept
<1>10. client' \in [Connection -> ClientType] /\ statistic' \in BOOLEAN
  BY DEF DoStop, IInv, TypeOK, ClientType
<1>11. accepting' \in Nat /\ listens' \in Nat
  BY <1>3, QueueTaken
<1>12. UNCHANGED worker
  BY DEF DoStop
<1> QED
  BY <1>1, <1>3, <1>7, <1>8, <1>9, <1>10, <1>11, <1>12, HandlerKeepsRest

\* Listener::onAccept starts another accept, or its error is posted.
LEMMA OnAcceptKeepsIInv ==
  ASSUME IInv, queue # <<>>, OnAccept, UNCHANGED <<appVars, stopped, sessions, roomVars>>
  PROVE  IInv'
<1>1. Chain(queue, open, main) /\ ~failed /\ failed \in BOOLEAN /\ open \in BOOLEAN
  BY DEF IInv, TypeOK
<1>2. Chain(Tail(queue), open, main)
  BY <1>1, QueueTaken, ChainShortened DEF OnAccept
<1>3. accepting + (Cardinality(Done(Tail(queue))) + 1) = listens
  BY QueueTaken DEF OnAccept
<1>4. open' = open /\ listens' = listens /\ failed' = failed
  BY DEF OnAccept
<1>5. /\ queue' \in Seq(Owners) /\ accepting' \in Nat
      /\ Chain(queue', open', main') /\ AcceptsAreKept'
  <2>1. CASE open
    <3>1. accepting' = accepting + 1 /\ queue' = Tail(queue)
      BY <2>1 DEF OnAccept, Accept
    <3>2. AcceptsAreKept'
      BY <1>3, <1>4, <3>1, QueueTaken, CountKept
    <3> QED
      BY <1>2, <1>4, <3>1, <3>2, QueueTaken DEF appVars
  <2>2. CASE ~open
    <3> DEFINE h == Plain("acceptFailed")
    <3>1. accepting' = accepting /\ queue' = Append(Tail(queue), h)
      BY <2>2 DEF OnAccept, Accept
    <3>2. h \in Owners /\ h \in Handler /\ h.kind = "acceptFailed"
      BY PlainOwners
    <3> HIDE DEF h
    <3>3. queue' = Tail(queue) \o <<h>> /\ <<h>> \in Seq(Handler)
      BY <3>1, <3>2, QueueTaken, PostIsConcat
    <3>4. \A i \in DOMAIN <<h>> : <<h>>[i].kind \notin {"doRun", "doStop"}
      BY <3>2
    <3>5. Chain(queue', open', main')
      BY <1>2, <1>4, <3>3, <3>4, QueueTaken, ChainExtended DEF appVars
    <3>6. Cardinality(Done(queue')) = Cardinality(Done(Tail(queue))) + 1
      BY <3>1, <3>2, QueueTaken, DoneOfAppend
    <3>7. AcceptsAreKept'
      BY <1>3, <1>4, <3>1, <3>6, QueueTaken, CountKept
    <3>8. queue' \in Seq(Owners)
      BY <3>1, <3>2, QueueTaken
    <3> QED
      BY <3>1, <3>5, <3>7, <3>8, QueueTaken
  <2> QED
    BY <2>1, <2>2
<1>6. client' \in [Connection -> ClientType] /\ statistic' \in BOOLEAN
  <2>1. client \in [Connection -> ClientType] /\ statistic' \in BOOLEAN
    BY DEF OnAccept, IInv, TypeOK, ClientType
  <2> QED
    BY <2>1 DEF OnAccept, ClientType
<1>7. listens' \in Nat
  BY <1>4, QueueTaken
<1> QED
  BY <1>1, <1>4, <1>5, <1>6, <1>7, HandlerKeepsRest DEF OnAccept

\* A handler is taken that is none of the listener.
LEMMA ListenerSpared ==
  ASSUME IInv, queue # <<>>, queue' = Tail(queue), UNCHANGED <<main, listenerVars>>,
         Head(queue).kind \notin {"accepted", "acceptFailed", "doRun", "doStop"}
  PROVE  /\ queue' \in Seq(Owners) /\ Chain(queue', open', main') /\ ~failed' /\ AcceptsAreKept'
         /\ open' \in BOOLEAN /\ accepting' \in Nat /\ listens' \in Nat /\ failed' \in BOOLEAN
<1>1. Chain(queue, open, main) /\ ~failed /\ failed \in BOOLEAN /\ open \in BOOLEAN
  BY DEF IInv, TypeOK
<1>2. Chain(Tail(queue), open, main)
  BY <1>1, QueueTaken, ChainShortened
<1>3. accepting + (Cardinality(Done(Tail(queue))) + 0) = listens
  BY QueueTaken
<1>4. AcceptsAreKept'
  BY <1>3, QueueTaken, CountKept DEF listenerVars
<1> QED
  BY <1>1, <1>2, <1>4, QueueTaken DEF listenerVars

\* The timer of the statistic is started or stopped.
LEMMA StartOrStopTimerKeepsIInv ==
  ASSUME IInv, queue # <<>>, StartOrStopTimer, UNCHANGED <<appVars, stopped, sessions, roomVars>>
  PROVE  IInv'
<1>1. client' \in [Connection -> ClientType] /\ statistic' \in BOOLEAN
  BY DEF StartOrStopTimer, IInv, TypeOK, ClientType
<1>2. /\ queue' \in Seq(Owners) /\ Chain(queue', open', main') /\ ~failed' /\ AcceptsAreKept'
      /\ open' \in BOOLEAN /\ accepting' \in Nat /\ listens' \in Nat /\ failed' \in BOOLEAN
  BY ListenerSpared DEF StartOrStopTimer, appVars
<1> QED
  BY <1>1, <1>2, HandlerKeepsRest DEF StartOrStopTimer

\* A handler that has to wait for a mutex is taken by its worker.
LEMMA BeginHandlerKeepsIInv ==
  ASSUME IInv, NEW w \in Worker, queue # <<>>, BeginHandler(w),
         UNCHANGED <<appVars, stopped, sessions, roomVars>>
  PROVE  IInv'
<1> DEFINE h == Head(queue)
<1>1. h \in Owners /\ h \in Handler /\ h.kind \in NeedsMutex \cup {"greet"}
  BY QueueTaken DEF BeginHandler
<1>2. h \in WorkerType
  BY <1>1 DEF WorkerType, Handler
<1>3. worker \in [Worker -> WorkerType] /\ worker' = [worker EXCEPT ![w] = h]
  BY DEF BeginHandler, IInv, TypeOK, WorkerType
<1>4. /\ queue' \in Seq(Owners) /\ Chain(queue', open', main') /\ ~failed' /\ AcceptsAreKept'
      /\ open' \in BOOLEAN /\ accepting' \in Nat /\ listens' \in Nat /\ failed' \in BOOLEAN
  BY <1>1, ListenerSpared DEF BeginHandler, appVars, NeedsMutex
<1> HIDE DEF h
<1>5. worker' \in [Worker -> WorkerType]
  BY <1>2, <1>3
<1>6. TypeOK'
  <2>1. queue' \in Seq(Handler)
    BY <1>4, OwnersAreHandlers
  <2> QED
    BY <1>4, <1>5, <2>1 DEF BeginHandler, appVars, roomVars, IInv, TypeOK, WorkerType
<1>7. OneCreates' /\ Keeps'
  <2>1. \A v \in Worker : worker'[v].kind = "creating" => worker[v].kind = "creating"
    BY <1>1, <1>3 DEF NeedsMutex
  <2> QED
    BY <1>5, <2>1, RoomsUntouched DEF WorkerType
<1>8. Handled'
  BY <1>1, <1>3, <1>4 DEF IInv, Handled, Owners
<1> QED
  BY <1>4, <1>6, <1>7, <1>8 DEF IInv

\* A worker runs the first handler.
LEMMA RunHandlerKeepsIInv ==
  ASSUME IInv, NEW w \in Worker, RunHandler(w)
  PROVE  IInv'
<1>1. queue # <<>> /\ UNCHANGED <<appVars, stopped, sessions, roomVars>>
  BY DEF RunHandler
<1>2. DoRun \/ DoStop \/ OnAccept \/ StartOrStopTimer \/ BeginHandler(w)
  BY DEF RunHandler
<1> QED
  BY <1>1, <1>2, DoRunKeepsIInv, DoStopKeepsIInv, OnAcceptKeepsIInv,
     StartOrStopTimerKeepsIInv, BeginHandlerKeepsIInv

\* A worker is done, with its handler or for good.
LEMMA WorkerDone ==
  ASSUME IInv, NEW w \in Worker, NEW rest \in {Idle, Out}, worker' = [worker EXCEPT ![w] = rest],
         UNCHANGED <<appVars, stopped, queue, listenerVars, roomVars>>,
         client' \in [Connection -> ClientType], sessions' \subseteq Connection, statistic' \in BOOLEAN
  PROVE  IInv'
<1>1. rest \in WorkerType /\ rest.kind \in {"idle", "out"}
  BY DEF Idle, Out, Plain, WorkerType
<1>2. worker \in [Worker -> WorkerType]
  BY DEF IInv, TypeOK, WorkerType
<1>3. worker' \in [Worker -> WorkerType]
  BY <1>1, <1>2
<1>4. queue' \in Seq(Owners) /\ Chain(queue', open', main') /\ ~failed' /\ AcceptsAreKept'
  BY ListenerUntouched DEF appVars
<1>5. TypeOK'
  BY <1>3 DEF appVars, listenerVars, roomVars, IInv, TypeOK, WorkerType, ClientType
<1>6. OneCreates' /\ Keeps'
  <2>1. \A v \in Worker : worker'[v].kind = "creating" => worker[v].kind = "creating"
    BY <1>1, <1>2
  <2> QED
    BY <1>3, <2>1, RoomsUntouched DEF WorkerType
<1>7. Handled'
  BY <1>1, <1>2, <1>4 DEF IInv, Handled
<1> QED
  BY <1>4, <1>5, <1>6, <1>7 DEF IInv

\* A thread ends.
LEMMA EndThreadKeepsIInv ==
  ASSUME IInv, NEW w \in Worker, EndThread(w)
  PROVE  IInv'
<1>1. client' \in [Connection -> ClientType] /\ sessions' \subseteq Connection /\ statistic' \in BOOLEAN
  BY DEF EndThread, IInv, TypeOK, ClientType
<1> QED
  BY <1>1, WorkerDone DEF EndThread

\* A session is opened or closed, or the statistic is sent.
LEMMA WithMutexKeepsIInv ==
  ASSUME IInv, NEW w \in Worker, WithMutex(w)
  PROVE  IInv'
<1> DEFINE h == worker[w]
<1>1. client \in [Connection -> ClientType] /\ sessions \subseteq Connection /\ statistic \in BOOLEAN
  BY DEF IInv, TypeOK, ClientType
<1>2. h.kind \in {"open", "close", "tick"}
  BY DEF WithMutex, NeedsMutex
<1>3. h.kind \in {"open", "close"} => h.client \in Connection
  BY DEF IInv, Handled
<1> HIDE DEF h
<1>4. /\ worker' = [worker EXCEPT ![w] = Idle]
      /\ sessions' = CASE h.kind = "open" -> sessions \cup {h.client}
                       [] h.kind = "close" -> sessions \ {h.client}
                       [] OTHER -> sessions
      /\ client' = CASE h.kind = "open" -> [client EXCEPT ![h.client] = "open"]
                     [] h.kind = "close" -> [client EXCEPT ![h.client] = "new"]
                     [] OTHER -> client
      /\ statistic' = (statistic \/ h.kind = "tick")
      /\ UNCHANGED <<appVars, stopped, queue, listenerVars, roomVars>>
  BY DEF WithMutex, h
<1>5. sessions' \subseteq Connection
  BY <1>1, <1>2, <1>3, <1>4
<1>6. client' \in [Connection -> ClientType]
  <2>1. CASE h.kind = "open"
    BY <1>1, <1>4, <2>1 DEF ClientType
  <2>2. CASE h.kind = "close"
    BY <1>1, <1>4, <2>2 DEF ClientType
  <2>3. CASE h.kind = "tick"
    BY <1>1, <1>4, <2>3
  <2> QED
    BY <1>2, <2>1, <2>2, <2>3
<1>7. statistic' \in BOOLEAN
  BY <1>4
<1> QED
  BY <1>4, <1>5, <1>6, <1>7, WorkerDone

\* A client enters a room that is there.
LEMMA EnterRoomKeepsIInv ==
  ASSUME IInv, NEW w \in Worker, EnterRoom(w)
  PROVE  IInv'
<1>1. client' \in [Connection -> ClientType] /\ sessions' \subseteq Connection /\ statistic' \in BOOLEAN
  BY DEF EnterRoom, IInv, TypeOK, ClientType
<1> QED
  BY <1>1, WorkerDone DEF EnterRoom

\* What the rooms do is not seen by the listener.
LEMMA RoomsKeepListener ==
  ASSUME IInv, UNCHANGED <<appVars, stopped, queue, listenerVars>>
  PROVE  /\ queue' \in Seq(Owners) /\ Chain(queue', open', main') /\ ~failed' /\ AcceptsAreKept'
BY ListenerUntouched DEF appVars

\* A job is appended, or the first one is taken.
LEMMA JobsType ==
  ASSUME IInv
  PROVE  /\ \A job \in Job : Append(jobs, job) \in Seq(Job)
         /\ \A job \in Job : Len(jobs) + 1 \in DOMAIN Append(jobs, job)
         /\ \A job \in Job : Append(jobs, job)[Len(jobs) + 1] = job
         /\ \A job \in Job : \A i \in DOMAIN jobs :
              i \in DOMAIN Append(jobs, job) /\ Append(jobs, job)[i] = jobs[i]
         /\ \A job \in Job : \A i \in DOMAIN Append(jobs, job) :
              Append(jobs, job)[i] = job \/ (i \in DOMAIN jobs /\ Append(jobs, job)[i] = jobs[i])
<1>1. jobs \in Seq(Job)
  BY DEF IInv, TypeOK
<1>2. Len(jobs) \in Nat /\ DOMAIN jobs = 1 .. Len(jobs)
  BY <1>1, LenProperties
<1>3. ASSUME NEW job \in Job
      PROVE  /\ Append(jobs, job) \in Seq(Job)
             /\ DOMAIN Append(jobs, job) = 1 .. Len(jobs) + 1
             /\ Append(jobs, job)[Len(jobs) + 1] = job
             /\ \A i \in 1 .. Len(jobs) : Append(jobs, job)[i] = jobs[i]
  BY <1>1, AppendProperties, LenProperties
<1> QED
  BY <1>2, <1>3

\* obtain() posts start() of a room that is not in the list yet.
LEMMA CreateRoomKeepsIInv ==
  ASSUME ServerAssumption, IInv, NEW w \in Worker, CreateRoom(w)
  PROVE  IInv'
<1>1. PICK r \in Room \ rooms :
        creating' = r /\ jobs' = Append(jobs, [kind |-> "start", room |-> r])
  BY DEF CreateRoom
<1> DEFINE job == [kind |-> "start", room |-> r]
<1>2. job \in Job /\ job.kind = "start"
  BY DEF Job
<1>3. worker \in [Worker -> WorkerType] /\ creating = Nobody /\ Nobody \notin Room
  BY DEF CreateRoom, IInv, TypeOK, WorkerType, ServerAssumption
<1>4. worker' = [worker EXCEPT ![w].kind = "creating"] /\ worker' \in [Worker -> WorkerType]
  BY <1>3 DEF CreateRoom, WorkerType
<1>5. \A v \in Worker : worker[v].kind # "creating"
  BY <1>3 DEF IInv, OneCreates
<1>6. queue' \in Seq(Owners) /\ Chain(queue', open', main') /\ ~failed' /\ AcceptsAreKept'
  BY RoomsKeepListener DEF CreateRoom
<1>7. TypeOK'
  <2>1. jobs' \in Seq(Job)
    BY <1>1, <1>2, JobsType
  <2>2. creating' \in Room \cup {Nobody}
    BY <1>1
  <2> QED
    BY <1>4, <2>1, <2>2 DEF CreateRoom, appVars, listenerVars, IInv, TypeOK, WorkerType
<1>8. OneCreates'
  <2>1. \A v \in Worker : worker'[v].kind = "creating" => v = w
    BY <1>3, <1>4, <1>5
  <2> QED
    BY <1>1, <2>1 DEF CreateRoom, IInv, OneCreates
<1>9. Keeps'
  <2>1. \A i \in DOMAIN jobs' : jobs'[i].kind = "stop" => jobs'[i].room \in halted'
    BY <1>1, <1>2, JobsType DEF CreateRoom, IInv, Keeps
  <2>2. ASSUME NEW s \in Room \ halted', s \in rooms' \/ s = creating'
        PROVE  KeepsTime(s)'
    <3>1. CASE s = r
      <4>1. Len(jobs) + 1 \in DOMAIN jobs' /\ jobs'[Len(jobs) + 1] = [kind |-> "start", room |-> s]
        BY <1>1, <1>2, <3>1, JobsType
      <4> QED
        BY <4>1 DEF KeepsTime
    <3>2. CASE s # r
      <4>1. s \in Room \ halted /\ s \in rooms
        BY <1>1, <2>2, <3>2 DEF CreateRoom
      <4>2. KeepsTime(s)
        BY <4>1 DEF IInv, Keeps
      <4>3. \A i \in DOMAIN jobs : i \in DOMAIN jobs' /\ jobs'[i] = jobs[i]
        BY <1>1, <1>2, JobsType
      <4> QED
        BY <4>2, <4>3 DEF KeepsTime, CreateRoom
    <3> QED
      BY <3>1, <3>2
  <2> QED
    BY <2>1, <2>2 DEF CreateRoom, IInv, Keeps
<1>10. Handled'
  <2>1. \A v \in Worker : worker'[v].kind \in {"open", "close"} => worker'[v] = worker[v]
    BY <1>3, <1>4
  <2> QED
    BY <1>6, <2>1 DEF IInv, Handled
<1> QED
  BY <1>6, <1>7, <1>8, <1>9, <1>10 DEF IInv

\* obtain() puts it into the list; the guard goes with the first room.
LEMMA AddRoomKeepsIInv ==
  ASSUME ServerAssumption, IInv, NEW w \in Worker, AddRoom(w)
  PROVE  IInv'
<1>1. worker \in [Worker -> WorkerType] /\ rooms \subseteq Room /\ Nobody \notin Room
  BY DEF IInv, TypeOK, WorkerType, ServerAssumption
<1>2. creating \in Room \ rooms /\ \A v \in Worker : worker[v].kind = "creating" => v = w
  BY DEF AddRoom, IInv, OneCreates
<1>3. Idle \in WorkerType /\ Idle.kind = "idle"
  BY DEF Idle, Plain, WorkerType
<1>4. worker' = [worker EXCEPT ![w] = Idle] /\ worker' \in [Worker -> WorkerType]
  BY <1>1, <1>3 DEF AddRoom
<1>5. queue' \in Seq(Owners) /\ Chain(queue', open', main') /\ ~failed' /\ AcceptsAreKept'
  BY RoomsKeepListener DEF AddRoom
<1>6. rooms' = rooms \cup {creating} /\ creating' = Nobody /\ halted' = halted
  BY DEF AddRoom
<1>7. TypeOK'
  <2>1. client' \in [Connection -> ClientType]
    <3>1. client \in [Connection -> ClientType]
      BY DEF IInv, TypeOK, ClientType
    <3>2. client' = [client EXCEPT ![worker[w].client] = "in"]
      BY DEF AddRoom
    <3> QED
      BY <3>1, <3>2 DEF ClientType
  <2>2. guard' \in BOOLEAN /\ rooms' \subseteq Room /\ creating' \in Room \cup {Nobody}
    BY <1>1, <1>2, <1>6 DEF AddRoom
  <2> QED
    BY <1>4, <2>1, <2>2 DEF AddRoom, appVars, listenerVars, IInv, TypeOK, WorkerType, ClientType
<1>8. OneCreates'
  <2>1. IsFiniteSet(rooms')
    BY <1>6, FS_AddElement DEF IInv, OneCreates
  <2>2. \A v \in Worker : worker'[v].kind # "creating"
    BY <1>1, <1>2, <1>3, <1>4
  <2>3. halted' \subseteq rooms' /\ creating' \notin rooms'
    BY <1>1, <1>2, <1>6 DEF IInv, OneCreates
  <2> QED
    BY <2>1, <2>2, <2>3 DEF OneCreates
<1>9. Keeps'
  <2>1. ~guard' => rooms' # {}
    BY <1>6
  <2>2. ASSUME NEW r \in Room \ halted', r \in rooms' \/ r = creating'
        PROVE  KeepsTime(r)'
    <3>1. r \in Room \ halted /\ (r \in rooms \/ r = creating)
      BY <1>1, <1>6, <2>2
    <3> QED
      BY <3>1 DEF AddRoom, IInv, Keeps, KeepsTime
  <2> QED
    BY <2>1, <2>2 DEF AddRoom, IInv, Keeps
<1>10. Handled'
  BY <1>1, <1>3, <1>4, <1>5 DEF IInv, Handled
<1> QED
  BY <1>5, <1>7, <1>8, <1>9, <1>10 DEF IInv

\* Whatever makes timers run on keeps the rest.
LEMMA TimersRunOn ==
  ASSUME IInv, UNCHANGED <<appVars, worker, stopped, queue, listenerVars, client, sessions, statistic,
                           pool, guard, rooms, creating, halted>>,
         timer' \in [Room -> Timers], jobs' \in Seq(Job),
         \A i \in DOMAIN jobs' : \E j \in DOMAIN jobs : jobs'[i] = jobs[j],
         \A r \in Room \ halted : KeepsTime(r) => KeepsTime(r)'
  PROVE  IInv'
<1>1. queue' \in Seq(Owners) /\ Chain(queue', open', main') /\ ~failed' /\ AcceptsAreKept'
  BY RoomsKeepListener
<1>2. TypeOK'
  BY DEF appVars, listenerVars, IInv, TypeOK
<1>3. Handled' /\ OneCreates'
  BY DEF IInv, Handled, OneCreates
<1>4. Keeps'
  <2>1. \A i \in DOMAIN jobs' : jobs'[i].kind = "stop" => jobs'[i].room \in halted'
    BY DEF IInv, Keeps
  <2>2. ASSUME NEW r \in Room \ halted', r \in rooms' \/ r = creating'
        PROVE  KeepsTime(r)'
    BY <2>2 DEF IInv, Keeps
  <2> QED
    BY <2>1, <2>2 DEF IInv, Keeps
<1> QED
  BY <1>1, <1>2, <1>3, <1>4 DEF IInv

\* Timers of a room are started or stopped: only a room that was told to stop
\* loses them.
LEMMA RunJobKeepsIInv ==
  ASSUME ServerAssumption, IInv, RunJob
  PROVE  IInv'
<1> DEFINE job == Head(jobs)
<1>1. jobs \in Seq(Job) /\ jobs # <<>> /\ timer \in [Room -> Timers]
  BY DEF RunJob, IInv, TypeOK
<1>2. /\ job \in Job /\ 1 \in DOMAIN jobs /\ jobs[1] = job
      /\ jobs' \in Seq(Job) /\ jobs' = Tail(jobs)
      /\ \A i \in DOMAIN jobs' : i + 1 \in DOMAIN jobs /\ jobs'[i] = jobs[i + 1]
      /\ \A i \in DOMAIN jobs : i = 1 \/ (i - 1 \in DOMAIN jobs' /\ jobs'[i - 1] = jobs[i])
  <2>1. jobs' = Tail(jobs)
    BY DEF RunJob
  <2>2. /\ Tail(jobs) \in Seq(Job) /\ Len(Tail(jobs)) = Len(jobs) - 1
        /\ \A i \in 1 .. Len(Tail(jobs)) : Tail(jobs)[i] = jobs[i + 1]
        /\ job \in Job
    BY <1>1, HeadTailProperties
  <2>3. /\ Len(jobs) \in Nat \ {0} /\ DOMAIN jobs = 1 .. Len(jobs)
        /\ DOMAIN Tail(jobs) = 1 .. Len(jobs) - 1
    BY <1>1, <2>2, LenProperties, EmptySeq
  <2>4. jobs[1] = job
    BY <1>1
  <2> HIDE DEF job
  <2> QED
    BY <2>1, <2>2, <2>3, <2>4
<1>3. /\ job.room \in Room /\ job.kind \in {"start", "stop"}
      /\ job = [kind |-> job.kind, room |-> job.room]
  BY <1>2 DEF Job
<1>4. timer' = [timer EXCEPT ![job.room] = IF job.kind = "start" THEN Tick(@) ELSE Cancel(@)]
  BY DEF RunJob
<1> HIDE DEF job
<1>5. timer' \in [Room -> Timers]
  BY <1>1, <1>3, <1>4, TimerType
<1>6. ASSUME NEW r \in Room \ halted, KeepsTime(r)
      PROVE  KeepsTime(r)'
  <2>1. CASE job.room = r
    <3>1. job.kind = "start"
      BY <1>2, <1>3, <2>1 DEF IInv, Keeps
    <3>2. timer'[r] # Off
      BY <1>1, <1>4, <2>1, <3>1, TimerType
    <3> QED
      BY <3>2 DEF KeepsTime
  <2>2. CASE job.room # r
    <3>1. timer'[r] = timer[r]
      BY <1>1, <1>4, <2>2
    <3>2. ASSUME NEW i \in DOMAIN jobs, jobs[i] = [kind |-> "start", room |-> r]
          PROVE  \E j \in DOMAIN jobs' : jobs'[j] = [kind |-> "start", room |-> r]
      <4>1. i # 1
        BY <1>2, <2>2, <3>2
      <4> QED
        BY <1>2, <3>2, <4>1
    <3> QED
      BY <1>6, <3>1, <3>2 DEF KeepsTime
  <2> QED
    BY <2>1, <2>2
<1>7. \A i \in DOMAIN jobs' : \E j \in DOMAIN jobs : jobs'[i] = jobs[j]
  BY <1>2
<1> QED
  BY <1>2, <1>5, <1>6, <1>7, TimersRunOn DEF RunJob

\* A timer has its handler run, or its wait is over: it runs on.
LEMMA TimerStepKeepsIInv ==
  ASSUME ServerAssumption, IInv, NEW r \in Room, FireTimer(r) \/ Expire(r)
  PROVE  IInv'
<1>1. timer \in [Room -> Timers] /\ jobs \in Seq(Job)
  BY DEF IInv, TypeOK
<1>2. timer' \in [Room -> Timers] /\ timer'[r] # Off /\ \A s \in Room \ {r} : timer'[s] = timer[s]
  <2>1. CASE FireTimer(r)
    BY <1>1, <2>1, TimerType DEF FireTimer
  <2>2. CASE Expire(r)
    BY <1>1, <2>2, TimerType DEF Expire
  <2> QED
    BY <2>1, <2>2
<1>3. jobs' = jobs
  BY DEF FireTimer, Expire
<1>4. \A s \in Room \ halted : KeepsTime(s) => KeepsTime(s)'
  BY <1>2, <1>3 DEF KeepsTime
<1> QED
  BY <1>1, <1>2, <1>3, <1>4, TimersRunOn DEF FireTimer, Expire

\* The threads of the rooms have no work: then every room was told to stop.
LEMMA RunDryKeepsIInv ==
  ASSUME IInv, RunDry
  PROVE  IInv'
<1>1. queue' \in Seq(Owners) /\ Chain(queue', open', main') /\ ~failed' /\ AcceptsAreKept'
  BY RoomsKeepListener DEF RunDry
<1>2. TypeOK'
  BY DEF RunDry, appVars, listenerVars, IInv, TypeOK
<1>3. Handled' /\ OneCreates'
  BY DEF RunDry, IInv, Handled, OneCreates
<1>4. halted # {}
  <2>1. SUFFICES ASSUME halted = {}
                 PROVE  FALSE
    OBVIOUS
  <2>2. PICK r \in rooms : r \in Room
    BY DEF RunDry, IInv, Keeps, TypeOK
  <2>3. KeepsTime(r)
    BY <2>1, <2>2 DEF IInv, Keeps
  <2>4. timer[r] = Off /\ DOMAIN jobs = {}
    <3>1. timer[r] = Off /\ jobs = <<>>
      BY <2>2 DEF RunDry
    <3> QED
      BY <3>1
  <2> QED
    BY <2>3, <2>4 DEF KeepsTime
<1>5. Keeps'
  BY <1>4 DEF RunDry, IInv, Keeps, KeepsTime
<1> QED
  BY <1>1, <1>2, <1>3, <1>5 DEF IInv

-----------------------------------------------------------------------------
\* Time and clients post handlers, and leave the rest.
LEMMA PostingKeepsRest ==
  ASSUME IInv, UNCHANGED <<appVars, worker, stopped, open, failed, listens, sessions, roomVars>>,
         client' \in [Connection -> ClientType], statistic' \in BOOLEAN, accepting' \in Nat,
         queue' \in Seq(Owners), Chain(queue', open', main'), ~failed', AcceptsAreKept'
  PROVE  IInv'
<1>1. open' \in BOOLEAN /\ listens' \in Nat /\ failed' \in BOOLEAN
  BY DEF IInv, TypeOK
<1> QED
  BY <1>1, HandlerKeepsRest

\* The timer of the statistic has expired.
LEMMA ExpireStatisticKeepsIInv ==
  ASSUME IInv, ExpireStatistic
  PROVE  IInv'
<1>1. queue' \in Seq(Owners) /\ Chain(queue', open', main') /\ ~failed' /\ AcceptsAreKept'
  BY PlainOwners, ListenerPosted DEF ExpireStatistic, appVars
<1>2. client' \in [Connection -> ClientType] /\ statistic' \in BOOLEAN /\ accepting' \in Nat
  BY DEF ExpireStatistic, listenerVars, IInv, TypeOK, ClientType
<1> QED
  BY <1>1, <1>2, PostingKeepsRest DEF ExpireStatistic, listenerVars

\* An accept becomes a handler.
LEMMA ConnectKeepsIInv ==
  ASSUME IInv, NEW c \in Connection, Connect(c)
  PROVE  IInv'
<1> DEFINE h == Of("accepted", c)
<1>1. h \in Owners /\ h \in Handler /\ h.kind = "accepted"
  BY DEF Of, Owners, Handler
<1>2. /\ queue \in Seq(Owners) /\ queue \in Seq(Handler) /\ Chain(queue, open, main) /\ ~failed
      /\ accepting \in Nat /\ accepting + Cardinality(Done(queue)) = listens
  BY OwnersAreHandlers, CountKept DEF IInv, Handled, TypeOK
<1>3. queue' = Append(queue, h) /\ accepting > 0 /\ accepting' = accepting - 1
      /\ UNCHANGED <<main, open, failed, listens>>
  BY DEF Connect, appVars
<1> HIDE DEF h
<1>4. queue' \in Seq(Owners)
  BY <1>1, <1>2, <1>3
<1>5. Chain(queue', open', main') /\ ~failed'
  <2>1. queue' = queue \o <<h>> /\ <<h>> \in Seq(Handler)
    BY <1>1, <1>2, <1>3, PostIsConcat
  <2>2. \A i \in DOMAIN <<h>> : <<h>>[i].kind \notin {"doRun", "doStop"}
    BY <1>1
  <2> QED
    BY <1>2, <1>3, <2>1, <2>2, ChainExtended
<1>6. AcceptsAreKept'
  <2>1. Cardinality(Done(queue')) = Cardinality(Done(queue)) + 1
    BY <1>1, <1>2, <1>3, DoneOfAppend
  <2>2. Cardinality(Done(queue)) \in Nat
    BY <1>2, DoneFinite
  <2> QED
    BY <1>2, <1>3, <2>1, <2>2, CountKept
<1>7. client' \in [Connection -> ClientType] /\ statistic' \in BOOLEAN /\ accepting' \in Nat
  <2>1. client \in [Connection -> ClientType] /\ client' = [client EXCEPT ![c] = "arriving"]
    BY DEF Connect, IInv, TypeOK, ClientType
  <2>2. client' \in [Connection -> ClientType]
    BY <2>1 DEF ClientType
  <2>3. statistic' \in BOOLEAN
    BY DEF Connect, IInv, TypeOK
  <2> QED
    BY <1>2, <1>3, <2>2, <2>3
<1> QED
  BY <1>4, <1>5, <1>6, <1>7, PostingKeepsRest DEF Connect

\* A session goes on with its handshake, its log in or its end.
LEMMA ProceedKeepsIInv ==
  ASSUME IInv, NEW c \in Connection, NEW from, NEW kind \in {"open", "greet", "close"},
         Proceed(c, from, kind)
  PROVE  IInv'
<1> DEFINE h == Of(kind, c)
<1>1. h \in Owners /\ h.kind = kind
  BY DEF Of, Owners, Handler
<1>2. queue' \in Seq(Owners) /\ Chain(queue', open', main') /\ ~failed' /\ AcceptsAreKept'
  BY <1>1, ListenerPosted DEF Proceed, appVars
<1>3. client' \in [Connection -> ClientType] /\ statistic' \in BOOLEAN /\ accepting' \in Nat
  <2>1. client \in [Connection -> ClientType] /\ client' = [client EXCEPT ![c] = "waiting"]
    BY DEF Proceed, IInv, TypeOK, ClientType
  <2>2. client' \in [Connection -> ClientType]
    BY <2>1 DEF ClientType
  <2> QED
    BY <2>2 DEF Proceed, listenerVars, IInv, TypeOK
<1> QED
  BY <1>2, <1>3, PostingKeepsRest DEF Proceed, listenerVars

-----------------------------------------------------------------------------
\* A step that changes nothing.
LEMMA StutterKeepsIInv ==
  ASSUME IInv, UNCHANGED vars
  PROVE  IInv'
<1>1. UNCHANGED <<appVars, worker, stopped, open, failed, listens, sessions, roomVars>>
  BY DEF vars, listenerVars
<1>2. queue' \in Seq(Owners) /\ Chain(queue', open', main') /\ ~failed' /\ AcceptsAreKept'
  BY RoomsKeepListener DEF vars
<1>3. client' \in [Connection -> ClientType] /\ statistic' \in BOOLEAN /\ accepting' \in Nat
  BY DEF vars, listenerVars, IInv, TypeOK, ClientType
<1> QED
  BY <1>1, <1>2, <1>3, PostingKeepsRest

\* Every step keeps the invariant.
LEMMA NextKeepsIInv ==
  ASSUME IInv, [Next]_vars
  PROVE  IInv'
<1>1. ASSUME MainThread
      PROVE  IInv'
  BY <1>1, ServerAssumption, StartKeepsIInv, StopListenerKeepsIInv, StopContextKeepsIInv,
     StopRoomsKeepsIInv, StopPoolKeepsIInv DEF MainThread
<1>2. ASSUME Signal
      PROVE  IInv'
  BY <1>2, ServerAssumption, SignalKeepsIInv
<1>3. ASSUME NEW w \in Worker, Work(w)
      PROVE  IInv'
  BY <1>3, ServerAssumption, RunHandlerKeepsIInv, EndThreadKeepsIInv, WithMutexKeepsIInv,
     EnterRoomKeepsIInv, CreateRoomKeepsIInv, AddRoomKeepsIInv DEF Work
<1>4. ASSUME RunJob \/ RunDry \/ ExpireStatistic
      PROVE  IInv'
  BY <1>4, ServerAssumption, RunJobKeepsIInv, RunDryKeepsIInv, ExpireStatisticKeepsIInv
<1>5. ASSUME NEW r \in Room, FireTimer(r) \/ Expire(r)
      PROVE  IInv'
  BY <1>5, ServerAssumption, TimerStepKeepsIInv
<1>6. ASSUME NEW c \in Connection, Connect(c) \/ Handshake(c) \/ Greet(c) \/ Disconnect(c)
      PROVE  IInv'
  BY <1>6, ConnectKeepsIInv, ProceedKeepsIInv DEF Handshake, Greet, Disconnect
<1>7. ASSUME UNCHANGED vars
      PROVE  IInv'
  BY <1>7, StutterKeepsIInv
<1> QED
  BY <1>1, <1>2, <1>3, <1>4, <1>5, <1>6, <1>7 DEF Next

\* A room that is in the list and was not told to stop keeps time.
LEMMA IInvKeepsTime ==
  ASSUME IInv
  PROVE  RoomsKeepTime
<1> SUFFICES ASSUME NEW r \in rooms \ halted
             PROVE  /\ \/ \E i \in DOMAIN jobs : jobs[i] = [kind |-> "start", room |-> r]
                       \/ timer[r] # Off
                    /\ halted = {} => pool # "dry"
  BY DEF RoomsKeepTime
<1>1. r \in Room \ halted
  BY DEF IInv, TypeOK
<1>2. KeepsTime(r)
  BY <1>1 DEF IInv, Keeps
<1> QED
  BY <1>2 DEF KeepsTime, IInv, Keeps

\* The invariant always holds.
LEMMA AlwaysIInv ==
  Spec => []IInv
<1>1. Init => IInv
  BY ServerAssumption, InitIInv
<1>2. IInv /\ [Next]_vars => IInv'
  BY NextKeepsIInv
<1> QED
  BY <1>1, <1>2, PTL DEF Spec

\* The state of the server keeps its type, however many workers, clients,
\* rooms and reloads there are.
THEOREM ServerTypeOK ==
  Spec => []TypeOK
<1>1. IInv => TypeOK
  BY DEF IInv
<1> QED
  BY <1>1, AlwaysIInv, PTL

\* No reload opens an acceptor that is still open.
THEOREM ServerNeverOpenedTwice ==
  Spec => []NeverOpenedTwice
<1>1. IInv => NeverOpenedTwice
  BY DEF IInv, NeverOpenedTwice
<1> QED
  BY <1>1, AlwaysIInv, PTL

\* An accept is under way or its handler is queued, one for every start.
THEOREM ServerAcceptsAreKept ==
  Spec => []AcceptsAreKept
<1>1. IInv => AcceptsAreKept
  BY DEF IInv
<1> QED
  BY <1>1, AlwaysIInv, PTL

\* A room keeps time until it is told to stop.
THEOREM ServerRoomsKeepTime ==
  Spec => []RoomsKeepTime
<1>1. IInv => RoomsKeepTime
  BY IInvKeepsTime
<1> QED
  BY <1>1, AlwaysIInv, PTL
=============================================================================
