------------------------------- MODULE Server -------------------------------
(***************************************************************************)
(* The frame of the program: signals, Application::start and stop, the two *)
(* pools of threads, the listener, the timers and the list of rooms.       *)
(*                                                                         *)
(* A worker takes the first handler of the context of the application and  *)
(* runs it in one step, unless it has to wait for m_mutex or opens a room. *)
(* The workers of the rooms wait for nothing; of their context only the    *)
(* jobs and timers of rooms are kept.  One timer stands for each of a room.*)
(***************************************************************************)
EXTENDS Naturals, Sequences, FiniteSets, SequencesExt

CONSTANTS Worker,       \* threads of m_ioThreadPool
          Connection,   \* clients, with one session at a time
          Room,         \* rooms that may be created
          Statistics,   \* config.influxdb.enabled
          MaxReloads,   \* bound: SIGHUPs
          MaxTicks,     \* bound: expirations of a timer that were not handled yet
          Nobody        \* no connection, no room, nobody

ASSUME ServerAssumption ==
  /\ Statistics \in BOOLEAN
  /\ MaxReloads \in Nat
  /\ MaxTicks \in Nat \ {0}
  /\ Nobody \notin Connection \cup Room

VARIABLES
  main,       \* what the main thread does
  again,      \* it starts the application again after stop()
  reloads,    \* SIGHUPs so far
  locked,     \* the main thread holds Application::m_mutex and waits
  worker,     \* what each thread of the pool does
  stopped,    \* m_ioContext.stopped()
  queue,      \* handlers that are ready in m_ioContext
  open,       \* m_acceptor.is_open()
  accepting,  \* async_accepts under way
  failed,     \* doRun() threw
  client,     \* what each client does
  sessions,   \* m_sessions
  statistic,  \* whether m_statisticTimer waits
  pool,       \* threads of the rooms: "off", "running", "dry" (out of work)
  guard,      \* RoomManager::m_workGuard
  rooms,      \* RoomManager::m_items
  creating,   \* the room obtain() creates, under the mutex of RoomManager
  jobs,       \* jobs of rooms that start or stop their timers
  timer,      \* a timer of each room
  halted,     \* history: rooms that were told to stop
  listens     \* history: how often doRun() opened the acceptor

appVars == <<main, again, reloads, locked>>
listenerVars == <<open, accepting, failed, listens>>
roomVars == <<pool, guard, rooms, creating, jobs, timer, halted>>
vars == <<appVars, worker, stopped, queue, listenerVars, client, sessions, statistic, roomVars>>

Handler == [kind : {"doRun", "doStop", "timerStart", "timerStop", "tick", "acceptFailed",
                    "accepted", "open", "greet", "close"},
            client : Connection \cup {Nobody}]
Plain(kind) == [kind |-> kind, client |-> Nobody]
Of(kind, c) == [kind |-> kind, client |-> c]
NeedsMutex == {"open", "close", "tick"}

(* A timer: a wait under way, and handlers of waits that are over. *)
Timers == [waiting : BOOLEAN, ready : 0 .. MaxTicks]
Off == [waiting |-> FALSE, ready |-> 0]
Expired(t) == [waiting |-> FALSE, ready |-> t.ready + 1]
(* tick() makes the wait under way a new one; cancel() reaches only that one. *)
Tick(t) == [t EXCEPT !.waiting = TRUE]
Cancel(t) == [t EXCEPT !.waiting = FALSE]
(* Mutant: the timer is not armed again. *)
FiredOnce(t) == [t EXCEPT !.ready = @ - 1]
Fired(t) == Tick([t EXCEPT !.ready = @ - 1])

Init ==
  /\ main = "starting" /\ again = FALSE /\ reloads = 0 /\ locked = FALSE
  /\ worker = [w \in Worker |-> Plain("out")]
  /\ stopped = FALSE /\ queue = <<>>
  /\ open = FALSE /\ accepting = 0 /\ failed = FALSE /\ listens = 0
  /\ client = [c \in Connection |-> "new"] /\ sessions = {}
  /\ statistic = FALSE
  /\ pool = "off" /\ guard = TRUE /\ rooms = {} /\ creating = Nobody /\ jobs = <<>>
  /\ timer = [r \in Room |-> Off] /\ halted = {}

-----------------------------------------------------------------------------
(* The main thread *)

Out == Plain("out")
Idle == Plain("idle")

(* Application::start, the first time or after a reload *)
Start ==
  /\ main = "starting"
  /\ ~locked
  /\ queue' = queue \o (IF Statistics THEN <<Plain("timerStart")>> ELSE <<>>) \o <<Plain("doRun")>>
  /\ pool' = "running"
  /\ worker' = [w \in Worker |-> Idle]
  /\ main' = "idle"
  /\ UNCHANGED <<again, reloads, locked, stopped, listenerVars, client, sessions, statistic,
                 guard, rooms, creating, jobs, timer, halted>>

(* SIGINT and SIGTERM end the program, SIGHUP stops and starts the application. *)
Signal ==
  /\ main = "idle"
  /\ \/ again' = FALSE /\ UNCHANGED reloads
     \/ again' = TRUE /\ reloads < MaxReloads /\ reloads' = reloads + 1
  /\ main' = "stopping"
  /\ UNCHANGED <<locked, worker, stopped, queue, listenerVars, client, sessions, statistic, roomVars>>

(* Application::stop keeps m_mutex from here to the end of StopPool. *)
StopListener ==
  /\ main = "stopping"
  /\ ~locked
  /\ locked' = TRUE
  /\ queue' = queue \o <<Plain("doStop"), Plain("timerStop")>>
  /\ main' = "stopped"
  /\ UNCHANGED <<again, reloads, worker, stopped, listenerVars, client, sessions, statistic, roomVars>>

(* Mutant: the threads are joined but not told to end. *)
StopContextByJoining ==
  /\ main = "stopped"
  /\ main' = "joining"
  /\ UNCHANGED <<again, reloads, locked, worker, stopped, queue, listenerVars, client, sessions,
                 statistic, roomVars>>

StopContext ==
  /\ main = "stopped"
  /\ stopped' = TRUE
  /\ main' = "joining"
  /\ UNCHANGED <<again, reloads, locked, worker, queue, listenerVars, client, sessions, statistic, roomVars>>

(* Mutant: the context is not restarted. *)
StopRoomsNoRestart ==
  /\ main = "joining"
  /\ \A w \in Worker : worker[w] = Out
  /\ jobs' = jobs \o SetToSeq({[kind |-> "stop", room |-> r] : r \in rooms})
  /\ halted' = rooms
  /\ main' = "joined"
  /\ UNCHANGED <<again, reloads, locked, worker, stopped, queue, listenerVars, client, sessions,
                 statistic, pool, guard, rooms, creating, timer>>

(* All threads have ended; the rooms are told to stop. *)
StopRooms ==
  /\ main = "joining"
  /\ \A w \in Worker : worker[w] = Out
  /\ stopped' = FALSE
  /\ jobs' = jobs \o SetToSeq({[kind |-> "stop", room |-> r] : r \in rooms})
  /\ halted' = rooms
  /\ main' = "joined"
  /\ UNCHANGED <<again, reloads, locked, worker, queue, listenerVars, client, sessions, statistic,
                 pool, guard, rooms, creating, timer>>

(* Their threads are joined, whether they have run those jobs or not. *)
StopPool ==
  /\ main = "joined"
  /\ pool' = "off"
  /\ locked' = FALSE
  /\ main' = IF again THEN "starting" ELSE "ended"
  /\ UNCHANGED <<again, reloads, worker, stopped, queue, listenerVars, client, sessions, statistic,
                 guard, rooms, creating, jobs, timer, halted>>

MainThread == Start \/ StopListener \/ StopContext \/ StopRooms \/ StopPool

-----------------------------------------------------------------------------
(* The workers of the application *)

(* Listener::doAccept fails at once on a closed acceptor. *)
Accept(q) ==
  IF open THEN accepting' = accepting + 1 /\ queue' = q
  ELSE accepting' = accepting /\ queue' = Append(q, Plain("acceptFailed"))

(* Opening an acceptor that is open throws, and nobody starts it again. *)
DoRun ==
  /\ Head(queue).kind = "doRun"
  /\ IF open THEN failed' = TRUE /\ UNCHANGED <<open, accepting, listens>>
     ELSE /\ open' = TRUE
          /\ accepting' = accepting + 1
          /\ listens' = listens + 1
          /\ UNCHANGED failed
  /\ queue' = Tail(queue)
  /\ UNCHANGED <<worker, client, statistic>>

(* Mutant: the accept is cancelled, but the acceptor stays open. *)
DoStopCancelling ==
  /\ Head(queue).kind = "doStop"
  /\ accepting' = 0
  /\ queue' = Tail(queue) \o [i \in 1 .. accepting |-> Plain("acceptFailed")]
  /\ UNCHANGED <<worker, client, statistic, open, failed, listens>>

DoStop ==
  /\ Head(queue).kind = "doStop"
  /\ open' = FALSE
  /\ accepting' = 0
  /\ queue' = Tail(queue) \o [i \in 1 .. accepting |-> Plain("acceptFailed")]
  /\ UNCHANGED <<worker, client, statistic, failed, listens>>

(* Mutant: a session is made of a connection that failed, too. *)
OnAcceptUnchecked ==
  LET h == Head(queue)
  IN  /\ h.kind \in {"accepted", "acceptFailed"}
      /\ client' = (h.client :> "accepted") @@ client
      /\ Accept(Tail(queue))
      /\ UNCHANGED <<worker, statistic, open, failed, listens>>

(* Mutant: an error ends the chain of accepts. *)
OnAcceptUnlessError ==
  LET h == Head(queue)
  IN  /\ h.kind \in {"accepted", "acceptFailed"}
      /\ client' = IF h.kind = "accepted" THEN [client EXCEPT ![h.client] = "accepted"] ELSE client
      /\ IF h.kind = "accepted" THEN Accept(Tail(queue))
         ELSE queue' = Tail(queue) /\ UNCHANGED accepting
      /\ UNCHANGED <<worker, statistic, open, failed, listens>>

(* Listener::onAccept accepts again, whether it got a connection or an error. *)
OnAccept ==
  LET h == Head(queue)
  IN  /\ h.kind \in {"accepted", "acceptFailed"}
      /\ client' = IF h.kind = "accepted" THEN [client EXCEPT ![h.client] = "accepted"] ELSE client
      /\ Accept(Tail(queue))
      /\ UNCHANGED <<worker, statistic, open, failed, listens>>

StartOrStopTimer ==
  /\ Head(queue).kind \in {"timerStart", "timerStop"}
  /\ statistic' = (Head(queue).kind = "timerStart")
  /\ queue' = Tail(queue)
  /\ UNCHANGED <<worker, client, listenerVars>>

(* These wait for m_mutex, or for that of the rooms. *)
BeginHandler(w) ==
  /\ Head(queue).kind \in NeedsMutex \cup {"greet"}
  /\ worker' = [worker EXCEPT ![w] = Head(queue)]
  /\ queue' = Tail(queue)
  /\ UNCHANGED <<client, listenerVars, statistic>>

RunHandler(w) ==
  /\ worker[w] = Idle
  /\ ~stopped
  /\ queue # <<>>
  /\ DoRun \/ DoStop \/ OnAccept \/ StartOrStopTimer \/ BeginHandler(w)
  /\ UNCHANGED <<appVars, stopped, sessions, roomVars>>

(* run() returns once the context is stopped, and the thread ends. *)
EndThread(w) ==
  /\ worker[w] = Idle
  /\ stopped
  /\ worker' = [worker EXCEPT ![w] = Out]
  /\ UNCHANGED <<appVars, stopped, queue, listenerVars, client, sessions, statistic, roomVars>>

(* sessionOpenHandler, sessionCloseHandler and statistic, with m_mutex; the timer *)
(* is armed again behind its handler.                                             *)
WithMutex(w) ==
  LET h == worker[w]
  IN  /\ h.kind \in NeedsMutex
      /\ ~locked
      /\ worker' = [worker EXCEPT ![w] = Idle]
      /\ sessions' = CASE h.kind = "open" -> sessions \cup {h.client}
                       [] h.kind = "close" -> sessions \ {h.client}
                       [] OTHER -> sessions
      /\ client' = CASE h.kind = "open" -> [client EXCEPT ![h.client] = "open"]
                     [] h.kind = "close" -> [client EXCEPT ![h.client] = "new"]
                     [] OTHER -> client
      /\ statistic' = (statistic \/ h.kind = "tick")
      /\ UNCHANGED <<appVars, stopped, queue, listenerVars, roomVars>>

(* RoomManager::obtain: a room with free space, or else a new one.  Which rooms *)
(* are full is not known here.                                                  *)
EnterRoom(w) ==
  /\ worker[w].kind = "greet"
  /\ creating = Nobody
  /\ rooms # {}
  /\ client' = [client EXCEPT ![worker[w].client] = "in"]
  /\ worker' = [worker EXCEPT ![w] = Idle]
  /\ UNCHANGED <<appVars, stopped, queue, listenerVars, sessions, statistic, roomVars>>

CreateRoom(w) ==
  /\ worker[w].kind = "greet"
  /\ creating = Nobody
  /\ \E r \in Room \ rooms :
       /\ creating' = r
       /\ jobs' = Append(jobs, [kind |-> "start", room |-> r])
  /\ worker' = [worker EXCEPT ![w].kind = "creating"]
  /\ UNCHANGED <<appVars, stopped, queue, listenerVars, client, sessions, statistic,
                 pool, guard, rooms, timer, halted>>

(* The first room takes over from the guard to keep the threads of rooms busy. *)
AddRoom(w) ==
  /\ worker[w].kind = "creating"
  /\ guard' = (guard /\ rooms # {})
  /\ rooms' = rooms \cup {creating}
  /\ creating' = Nobody
  /\ client' = [client EXCEPT ![worker[w].client] = "in"]
  /\ worker' = [worker EXCEPT ![w] = Idle]
  /\ UNCHANGED <<appVars, stopped, queue, listenerVars, sessions, statistic,
                 pool, jobs, timer, halted>>

Work(w) == RunHandler(w) \/ EndThread(w) \/ WithMutex(w) \/ EnterRoom(w) \/ CreateRoom(w) \/ AddRoom(w)

-----------------------------------------------------------------------------
(* The threads of the rooms, and time *)

RunJob ==
  /\ pool = "running"
  /\ jobs # <<>>
  /\ LET job == Head(jobs)
     IN  timer' = [timer EXCEPT ![job.room] = IF job.kind = "start" THEN Tick(@) ELSE Cancel(@)]
  /\ jobs' = Tail(jobs)
  /\ UNCHANGED <<appVars, worker, stopped, queue, listenerVars, client, sessions, statistic,
                 pool, guard, rooms, creating, halted>>

FireTimer(r) ==
  /\ pool = "running"
  /\ timer[r].ready > 0
  /\ timer' = [timer EXCEPT ![r] = Fired(@)]
  /\ UNCHANGED <<appVars, worker, stopped, queue, listenerVars, client, sessions, statistic,
                 pool, guard, rooms, creating, jobs, halted>>

(* Out of work: run() returns in all threads and nobody starts them again. *)
RunDry ==
  /\ pool = "running"
  /\ ~guard /\ jobs = <<>> /\ \A r \in Room : timer[r] = Off
  /\ pool' = "dry"
  /\ UNCHANGED <<appVars, worker, stopped, queue, listenerVars, client, sessions, statistic,
                 guard, rooms, creating, jobs, timer, halted>>

(* That a wait is over is noticed by the threads that run. *)
Expire(r) ==
  /\ pool = "running"
  /\ timer[r].waiting
  /\ timer[r].ready < MaxTicks
  /\ timer' = [timer EXCEPT ![r] = Expired(@)]
  /\ UNCHANGED <<appVars, worker, stopped, queue, listenerVars, client, sessions, statistic,
                 pool, guard, rooms, creating, jobs, halted>>

ExpireStatistic ==
  /\ statistic
  /\ Cardinality({i \in DOMAIN queue : queue[i].kind = "tick"}) < MaxTicks
  /\ statistic' = FALSE
  /\ queue' = Append(queue, Plain("tick"))
  /\ UNCHANGED <<appVars, worker, stopped, listenerVars, client, sessions, roomVars>>

-----------------------------------------------------------------------------
(* The clients, and the chain of handlers of their sessions (SessionIO) *)

Connect(c) ==
  /\ client[c] = "new"
  /\ accepting > 0
  /\ accepting' = accepting - 1
  /\ client' = [client EXCEPT ![c] = "arriving"]
  /\ queue' = Append(queue, Of("accepted", c))
  /\ UNCHANGED <<appVars, worker, stopped, open, failed, listens, sessions, statistic, roomVars>>

Proceed(c, from, kind) ==
  /\ client[c] \in from
  /\ client' = [client EXCEPT ![c] = "waiting"]
  /\ queue' = Append(queue, Of(kind, c))
  /\ UNCHANGED <<appVars, worker, stopped, listenerVars, sessions, statistic, roomVars>>

Handshake(c) == Proceed(c, {"accepted"}, "open")
Greet(c) == Proceed(c, {"open"}, "greet")
Disconnect(c) == Proceed(c, {"accepted", "open", "in"}, "close")

Next ==
  \/ MainThread
  \/ Signal
  \/ \E w \in Worker : Work(w)
  \/ RunJob \/ RunDry \/ ExpireStatistic
  \/ \E r \in Room : FireTimer(r) \/ Expire(r)
  \/ \E c \in Connection : Connect(c) \/ Handshake(c) \/ Greet(c) \/ Disconnect(c)

(* Threads that can run do.  Nothing is assumed of signals, clients and time. *)
Fairness == WF_vars(MainThread) /\ \A w \in Worker : WF_vars(Work(w))

Spec == Init /\ [][Next]_vars /\ Fairness

-----------------------------------------------------------------------------
(* Properties *)

Job == [kind : {"start", "stop"}, room : Room]
TypeOK ==
  /\ main \in {"starting", "idle", "stopping", "stopped", "joining", "joined", "ended"}
  /\ again \in BOOLEAN /\ reloads \in 0 .. MaxReloads /\ locked \in BOOLEAN
  /\ worker \in [Worker -> [kind : {"out", "idle", "greet", "creating"} \cup NeedsMutex,
                           client : Connection \cup {Nobody}]]
  /\ stopped \in BOOLEAN /\ queue \in Seq(Handler)
  /\ open \in BOOLEAN /\ accepting \in Nat /\ failed \in BOOLEAN /\ listens \in Nat
  /\ client \in [Connection -> {"new", "arriving", "accepted", "waiting", "open", "in"}]
  /\ sessions \subseteq Connection
  /\ statistic \in BOOLEAN
  /\ pool \in {"off", "running", "dry"} /\ guard \in BOOLEAN
  /\ rooms \subseteq Room /\ creating \in Room \cup {Nobody}
  /\ jobs \in Seq(Job) /\ timer \in [Room -> Timers] /\ halted \subseteq Room

(* A reload never opens an acceptor that is still open, which would throw and  *)
(* leave the server without a listener: although stop() ends the threads       *)
(* without waiting for doStop(), the job is kept and runs before the next      *)
(* doRun().                                                                    *)
NeverOpenedTwice == ~failed

(* An accept is never lost.  It is under way or its handler is in the queue,   *)
(* over aborts, errors and reloads; one is added by every start, so that after *)
(* a reload there is one more than needed.                                     *)
AcceptsAreKept ==
  accepting + Cardinality({i \in DOMAIN queue : queue[i].kind \in {"accepted", "acceptFailed"}})
    = listens

(* A room that was not told to stop keeps time: its timers are about to be     *)
(* started, wait, or have a handler that is ready, and the threads of the      *)
(* rooms are not out of work, although nobody but the rooms keeps them busy    *)
(* after the first one.                                                        *)
RoomsKeepTime ==
  \A r \in rooms \ halted :
    /\ \/ \E i \in DOMAIN jobs : jobs[i] = [kind |-> "start", room |-> r]
       \/ timer[r] # Off
    /\ halted = {} => pool # "dry"

(* stop() comes to its end, or a thread that it joins waits for the mutex it   *)
(* holds: there is no other reason for the program to hang there.              *)
StopEndsOrIsBlocked ==
  (main \in {"stopping", "stopped", "joining", "joined"}) ~>
    \/ main \in {"starting", "ended"}
    \/ locked /\ (\E w \in Worker : worker[w].kind \in NeedsMutex)

(* Once started, also after a reload, the server accepts, unless it is told    *)
(* to stop before.                                                             *)
StartedServerAccepts ==
  (main = "starting") ~> (accepting > 0 \/ main \notin {"starting", "idle"})
=============================================================================
