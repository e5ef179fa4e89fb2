--------------------------- MODULE YardStickWorker ---------------------------
(***************************************************************************)
(* The YARD Stick One backend (rf/yardstick.py) and the supervised worker  *)
(* process that drives the radio (rf/yardstick_worker.py).                 *)
(*                                                                         *)
(* A call of the backend takes the asyncio operation lock and makes two    *)
(* requests to the supervisor, OPEN and then its own.  A request runs in a *)
(* thread of the executor: it starts the worker if needed, writes to its   *)
(* pipe, polls for an answer and reads it.  When the caller is cancelled   *)
(* or its wait_for expires, the lock is released while the thread goes on. *)
(* An action is a stretch of code between two points where another task,   *)
(* thread or process may step in.  `with self._lock' is one action, except *)
(* for the start of a worker: _terminate_worker takes no lock, and may     *)
(* find the process before it runs or before its pipe is assigned.         *)
(***************************************************************************)
EXTENDS Integers, Sequences, FiniteSets

CONSTANTS
  Callers,    \* tasks that call send or receive
  Threads,    \* slots for supervisor requests in the executor
  Nobody,     \* no caller: a free lock, a request its caller has left
  MaxCalls,   \* bound: calls made
  MaxWorkers  \* bound: worker processes started

ASSUME WorkerAssumption ==
  /\ Nobody \notin Callers /\ "close" \notin Callers \cup {Nobody}
  /\ MaxCalls \in Nat /\ MaxWorkers \in Nat

VARIABLES
  holder,       \* _operation_lock: a caller, "close" or Nobody
  call,         \* the backend calls in progress
  made,         \* number of calls so far, the last id
  thread,       \* the supervisor requests in progress
  handle,       \* _process: the worker it names, 0 for None
  conn,         \* _conn: the worker whose pipe it is, 0 for None
  generation,   \* worker_generation
  alive,        \* worker processes that run
  radioOpen,    \* state.radio of the worker at the end of _conn
  inbox, outbox,\* the two directions of the pipe of _conn
  cooling,      \* now < _next_allowed_start_monotonic
  outstanding,  \* diagnostics.outstanding_request_id is set
  refusing,     \* _shutdown_requested of the supervisor
  closer,       \* backend.close and supervisor.stop
  transmitted,  \* history: ids whose payload went on the air
  returned,     \* history: ids of sends that returned a SendResult
  mixed,        \* history: the worker of _conn got a request, or became the one of
                \* _conn, before the answer to an earlier request had been read
  missed        \* history: workers that a terminate met while they were being
                \* started, and left alone because is_alive() was false

callVars   == <<holder, call, made, returned>>
workerVars == <<handle, conn, generation, alive, radioOpen, inbox, outbox, missed>>
vars == <<callVars, thread, workerVars, cooling, outstanding, refusing, closer,
          transmitted, mixed>>

Ids      == 1..MaxCalls
Workers  == 1..MaxWorkers
Commands == {"OPEN", "SEND", "RECEIVE", "STOP"}
Requests == [cmd : Commands, id : 0..MaxCalls]

Calls == [pc : {"idle", "lock", "open", "main"}, op : {"SEND", "RECEIVE"}, id : 0..MaxCalls]
ThreadStates == [pc : {"idle", "request", "start", "spawn", "poll", "recv", "kill", "cleanup"},
                 req : Requests, owner : Callers \cup {Nobody}, worker : 0..MaxWorkers]
Closers == [pc : {"no", "lock", "stop", "wait", "kill", "cleanup", "closed", "failed"},
            worker : 0..MaxWorkers]

IdleCall   == [pc |-> "idle", op |-> "SEND", id |-> 0]
IdleThread == [pc |-> "idle", req |-> [cmd |-> "OPEN", id |-> 0], owner |-> Nobody, worker |-> 0]

WorkerTypeOK ==
  /\ holder \in Callers \cup {"close", Nobody}
  /\ call \in [Callers -> Calls]
  /\ made \in 0..MaxCalls
  /\ thread \in [Threads -> ThreadStates]
  /\ {handle, conn} \subseteq 0..MaxWorkers
  /\ generation \in 0..MaxWorkers
  /\ alive \subseteq Workers
  /\ missed \subseteq Workers
  /\ {radioOpen, cooling, outstanding, refusing, mixed} \subseteq BOOLEAN
  /\ inbox \in Seq(Requests)
  /\ outbox \in Seq(BOOLEAN)
  /\ closer \in Closers
  /\ transmitted \subseteq Ids
  /\ returned \subseteq Ids

Init ==
  /\ holder = Nobody
  /\ call = [c \in Callers |-> IdleCall]
  /\ made = 0
  /\ thread = [t \in Threads |-> IdleThread]
  /\ handle = 0 /\ conn = 0 /\ generation = 0 /\ alive = {} /\ missed = {}
  /\ radioOpen = FALSE
  /\ inbox = <<>> /\ outbox = <<>>
  /\ cooling = FALSE /\ outstanding = FALSE /\ refusing = FALSE
  /\ closer = [pc |-> "no", worker |-> 0]
  /\ transmitted = {} /\ returned = {}
  /\ mixed = FALSE

-----------------------------------------------------------------------------
\* The calls of the backend.

\* send or receive is called: only its first line looks at the shutdown flag of
\* the backend, which close sets before anything else.
Call(c, op) ==
  /\ closer.pc = "no"
  /\ call[c].pc = "idle"
  /\ made < MaxCalls
  /\ made' = made + 1
  /\ call' = [call EXCEPT ![c] = [pc |-> "lock", op |-> op, id |-> made + 1]]
  /\ UNCHANGED <<holder, returned, thread, workerVars, cooling, outstanding, refusing,
                 closer, transmitted, mixed>>

OpenRequest(c) == [pc |-> "request", req |-> [cmd |-> "OPEN", id |-> call[c].id],
                   owner |-> c, worker |-> 0]

\* The lock is taken and the OPEN request handed to the executor.
AcquireLock(c, t) ==
  /\ call[c].pc = "lock" /\ holder = Nobody
  /\ thread[t].pc = "idle"
  /\ holder' = c
  /\ call' = [call EXCEPT ![c].pc = "open"]
  /\ thread' = [thread EXCEPT ![t] = OpenRequest(c)]
  /\ UNCHANGED <<made, returned, workerVars, cooling, outstanding, refusing, closer,
                 transmitted, mixed>>

\* The lock is not free in time, or the task is cancelled while it waits.
GiveUpLock(c) ==
  /\ call[c].pc = "lock"
  /\ call' = [call EXCEPT ![c] = IdleCall]
  /\ UNCHANGED <<holder, made, returned, thread, workerVars, cooling, outstanding,
                 refusing, closer, transmitted, mixed>>

\* The task is cancelled, or its wait_for expires, while a request is under way:
\* the finally clause releases the lock and nothing stops the thread.
Abandon(c) ==
  /\ call[c].pc \in {"open", "main"}
  /\ holder' = Nobody
  /\ call' = [call EXCEPT ![c] = IdleCall]
  /\ thread' = [t \in Threads |->
                  IF thread[t].owner = c THEN [thread[t] EXCEPT !.owner = Nobody] ELSE thread[t]]
  /\ UNCHANGED <<made, returned, workerVars, cooling, outstanding, refusing, closer,
                 transmitted, mixed>>

-----------------------------------------------------------------------------
\* The end of a supervisor request, and what its caller does with it.

\* The caller has left: the result is dropped.
ReturnsToNobody(t) ==
  /\ thread[t].owner = Nobody
  /\ thread' = [thread EXCEPT ![t] = IdleThread]
  /\ UNCHANGED <<holder, call, returned>>

\* OPEN has succeeded: the call makes its second request.
OpenReturns(t) ==
  LET c == thread[t].owner IN
  /\ c # Nobody
  /\ thread[t].req.cmd = "OPEN"
  /\ thread' = [thread EXCEPT ![t].pc = "request", ![t].req.cmd = call[c].op]
  /\ call' = [call EXCEPT ![c].pc = "main"]
  /\ UNCHANGED <<holder, returned>>

\* The call is over and releases the lock.
CallReturns(t, sends) ==
  LET c == thread[t].owner IN
  /\ c # Nobody
  /\ thread' = [thread EXCEPT ![t] = IdleThread]
  /\ call' = [call EXCEPT ![c] = IdleCall]
  /\ holder' = Nobody
  /\ returned' = returned \cup sends

Succeeds(t) ==
  \/ ReturnsToNobody(t)
  \/ OpenReturns(t)
  \/ thread[t].req.cmd = "SEND" /\ CallReturns(t, {thread[t].req.id})
  \/ thread[t].req.cmd = "RECEIVE" /\ CallReturns(t, {})

Raises(t) == ReturnsToNobody(t) \/ CallReturns(t, {})

-----------------------------------------------------------------------------
\* YardStickWorkerSupervisor.request, in a thread.

Running == handle \in alive
Waiting(t) == \E u \in Threads \ {t} : thread[u].pc \in {"poll", "recv"}
Starting(t) == thread[t].pc \in {"start", "spawn"}

\* Nobody holds self._lock: only the start of a worker holds it for more than a step.
LockFree == \A u \in Threads : ~Starting(u)

RequestRefused(t) ==
  /\ thread[t].pc = "request" /\ LockFree /\ refusing
  /\ Raises(t)
  /\ UNCHANGED <<made, workerVars, cooling, outstanding, refusing, closer, transmitted, mixed>>

PipeCloses == conn' = 0 /\ inbox' = <<>> /\ outbox' = <<>>

\* _ensure_worker_started finds no process, or a dead one, whose handles it drops.
FindsNoWorker(t) ==
  /\ thread[t].pc = "request" /\ LockFree
  /\ ~Running
  /\ IF handle = 0 THEN UNCHANGED <<conn, inbox, outbox>> ELSE PipeCloses

\* The cooldown is not over, or, at the bound, the process cannot be started.
RequestInCooldown(t) ==
  /\ ~refusing
  /\ FindsNoWorker(t)
  /\ cooling \/ generation = MaxWorkers
  /\ handle' = 0
  /\ Raises(t)
  /\ UNCHANGED <<made, generation, alive, radioOpen, missed, cooling, outstanding, refusing,
                 closer, transmitted, mixed>>

SendRequest(t, worker) ==
  /\ thread' = [thread EXCEPT ![t].pc = "poll", ![t].worker = worker]
  /\ outstanding' = TRUE
  /\ UNCHANGED <<callVars, cooling, refusing, closer, transmitted>>

RequestToRunningWorker(t) ==
  /\ thread[t].pc = "request" /\ LockFree
  /\ ~refusing
  /\ Running
  /\ SendRequest(t, conn)
  /\ inbox' = Append(inbox, thread[t].req)
  /\ mixed' = (mixed \/ Waiting(t) \/ inbox # <<>> \/ outbox # <<>>)
  /\ UNCHANGED <<handle, conn, generation, alive, radioOpen, missed, outbox>>

AssignsProcess(t) ==
  /\ FindsNoWorker(t)
  /\ ~cooling /\ generation < MaxWorkers
  /\ generation' = generation + 1
  /\ handle' = generation + 1
  /\ thread' = [thread EXCEPT ![t].pc = "start", ![t].worker = generation + 1]
  /\ UNCHANGED <<callVars, alive, radioOpen, missed, cooling, outstanding, refusing, closer,
                 transmitted, mixed>>

\* Mutant: a thread that was late does not see that the shutdown has begun.
RequestStartsWorker_after_stop(t) == AssignsProcess(t)

\* _process names the worker before it is started; the thread keeps the lock.
RequestStartsWorker(t) == ~refusing /\ AssignsProcess(t)

\* self._process.start(): the process runs; until the call returns is_alive() is false.
StartSpawns(t) ==
  /\ thread[t].pc = "start" /\ handle # 0
  /\ alive' = alive \cup {handle}
  /\ thread' = [thread EXCEPT ![t].pc = "spawn"]
  /\ UNCHANGED <<callVars, handle, conn, generation, radioOpen, inbox, outbox, missed, cooling,
                 outstanding, refusing, closer, transmitted, mixed>>

\* A terminate has set _process to None: start of None, and no process.
StartFails(t) ==
  /\ thread[t].pc = "start" /\ handle = 0
  /\ Raises(t)
  /\ UNCHANGED <<made, workerVars, cooling, outstanding, refusing, closer, transmitted, mixed>>

\* _conn is the pipe of the new worker, whose pipe is empty.
Connects(t) ==
  /\ thread[t].pc = "spawn"
  /\ conn' = thread[t].worker /\ radioOpen' = FALSE /\ outbox' = <<>>
  /\ mixed' = Waiting(t)
  /\ UNCHANGED <<handle, generation, alive, missed>>

\* The worker has its pipe and gets the request.
StartConnects(t) ==
  /\ handle # 0
  /\ Connects(t)
  /\ SendRequest(t, thread[t].worker)
  /\ inbox' = <<thread[t].req>>

\* A terminate has set _process to None: the process runs, its pid cannot be read, and
\* _conn is left with its pipe.
StartLosesWorker(t) ==
  /\ handle = 0
  /\ Connects(t)
  /\ inbox' = <<>>
  /\ Raises(t)
  /\ UNCHANGED <<made, cooling, outstanding, refusing, closer, transmitted>>

\* The worker dies between the look at it, or its start, and the write to its pipe.
RequestBreaks(t) ==
  /\ \/ thread[t].pc = "request" /\ LockFree /\ ~refusing /\ Running
     \/ thread[t].pc = "spawn" /\ handle # 0
  /\ alive' = alive \ {handle}
  /\ handle' = 0 /\ PipeCloses
  /\ cooling' = TRUE /\ outstanding' = FALSE
  /\ Raises(t)
  /\ UNCHANGED <<made, generation, radioOpen, missed, refusing, closer, transmitted, mixed>>

\* Mutant: what poll returned is not looked at.
PollReady_unchecked(t) ==
  /\ thread[t].pc = "poll"
  /\ thread' = [thread EXCEPT ![t].pc = "recv"]
  /\ UNCHANGED <<callVars, workerVars, cooling, outstanding, refusing, closer, transmitted, mixed>>

\* poll returns: there is an answer, or the other end is gone.
PollReady(t) ==
  /\ thread[t].pc = "poll"
  /\ outbox # <<>> \/ thread[t].worker # conn \/ conn \notin alive
  /\ thread' = [thread EXCEPT ![t].pc = "recv"]
  /\ UNCHANGED <<callVars, workerVars, cooling, outstanding, refusing, closer, transmitted, mixed>>

PollTimesOut(t) ==
  /\ thread[t].pc = "poll"
  /\ thread[t].worker \in {conn} \cup alive
  /\ thread' = [thread EXCEPT ![t].pc = "kill"]
  /\ UNCHANGED <<callVars, workerVars, cooling, outstanding, refusing, closer, transmitted, mixed>>

\* Mutant: an answer that reports an error counts as an answer.
RecvAnswer_error_accepted(t) ==
  /\ thread[t].pc = "recv"
  /\ outbox # <<>>
  /\ outbox' = Tail(outbox)
  /\ Succeeds(t)
  /\ outstanding' = FALSE
  /\ UNCHANGED <<made, handle, conn, generation, alive, radioOpen, missed, inbox, cooling,
                 refusing, closer, transmitted, mixed>>

\* recv reads _conn anew and takes the oldest answer in it, whichever request it
\* answers: its request_id is not looked at.  Without an answer it blocks.
RecvAnswer(t) ==
  /\ thread[t].pc = "recv"
  /\ outbox # <<>>
  /\ outbox' = Tail(outbox)
  /\ IF Head(outbox) THEN Succeeds(t) ELSE Raises(t)
  /\ outstanding' = FALSE
  /\ UNCHANGED <<made, handle, conn, generation, alive, radioOpen, missed, inbox, cooling,
                 refusing, closer, transmitted, mixed>>

RecvEOF(t) ==
  /\ thread[t].pc = "recv"
  /\ conn # 0 /\ conn \notin alive /\ outbox = <<>>
  /\ thread' = [thread EXCEPT ![t].pc = "kill"]
  /\ UNCHANGED <<callVars, workerVars, cooling, outstanding, refusing, closer, transmitted, mixed>>

\* Another thread has dropped the handles: recv of None.
RecvOnNothing(t) ==
  /\ thread[t].pc = "recv"
  /\ conn = 0
  /\ Raises(t)
  /\ outstanding' = FALSE
  /\ UNCHANGED <<made, workerVars, cooling, refusing, closer, transmitted, mixed>>

-----------------------------------------------------------------------------
\* _terminate_worker, outside the lock of the supervisor.

\* It reads _process again: the worker it ends need not be the one that was asked.
KillWorker ==
  /\ handle # 0
  /\ alive' = alive \ {handle}
  /\ UNCHANGED <<handle, conn, generation, radioOpen, inbox, outbox, missed>>

\* Mutant: the handles are dropped whichever worker they name by now.
DropWorker_any(worker) ==
  /\ cooling' = TRUE
  /\ handle' = 0 /\ PipeCloses
  /\ UNCHANGED <<generation, alive, radioOpen, missed>>

\* The cooldown starts; the handles are dropped if _process still is that worker, which
\* may have been started meanwhile.  One action, though no lock is held: _process can
\* become another worker between the check and the drop only when the cooldown, which
\* starts before both, is over.  A worker that runs on has lost its pipe: what it still
\* does with requests in it is left out, nobody gets the answers.
DropWorker(worker) ==
  /\ cooling' = TRUE
  /\ IF handle = worker THEN handle' = 0 /\ PipeCloses
     ELSE UNCHANGED <<handle, conn, inbox, outbox>>
  /\ UNCHANGED <<generation, alive, radioOpen, missed>>

\* terminate or kill, and join: the process has run since its start() returned.
TerminateKills(t) ==
  /\ thread[t].pc = "kill"
  /\ \A u \in Threads : thread[u].pc # "start"
  /\ KillWorker
  /\ thread' = [thread EXCEPT ![t].pc = "cleanup", ![t].worker = handle]
  /\ UNCHANGED <<callVars, cooling, outstanding, refusing, closer, transmitted, mixed>>

\* The process is assigned but not started, or still in start(): is_alive() is false.
TerminateMisses(t) ==
  /\ thread[t].pc = "kill"
  /\ handle # 0 /\ \E u \in Threads : Starting(u)
  /\ missed' = missed \cup {handle}
  /\ thread' = [thread EXCEPT ![t].pc = "cleanup", ![t].worker = handle]
  /\ UNCHANGED <<callVars, handle, conn, generation, alive, radioOpen, inbox, outbox, cooling,
                 outstanding, refusing, closer, transmitted, mixed>>

TerminateFindsNothing(t) ==
  /\ thread[t].pc = "kill"
  /\ handle = 0
  /\ Raises(t)
  /\ outstanding' = FALSE
  /\ UNCHANGED <<made, workerVars, cooling, refusing, closer, transmitted, mixed>>

TerminateEnds(t) ==
  /\ thread[t].pc = "cleanup"
  /\ DropWorker(thread[t].worker)
  /\ Raises(t)
  /\ outstanding' = FALSE
  /\ UNCHANGED <<made, refusing, closer, transmitted, mixed>>

CoolsDown ==
  /\ cooling
  /\ cooling' = FALSE
  /\ UNCHANGED <<callVars, thread, workerVars, outstanding, refusing, closer, transmitted, mixed>>

-----------------------------------------------------------------------------
\* yardstick_worker_main: one request at a time, in the order they came.

Answer(ok) ==
  /\ conn \in alive /\ inbox # <<>>
  /\ inbox' = Tail(inbox)
  /\ outbox' = Append(outbox, ok)
  /\ UNCHANGED <<callVars, thread, handle, conn, generation, missed, cooling, outstanding,
                 refusing, closer, mixed>>

WorkerOpens ==
  /\ Answer(TRUE) /\ Head(inbox).cmd = "OPEN"
  /\ radioOpen' = TRUE
  /\ UNCHANGED <<alive, transmitted>>

WorkerTransmits ==
  /\ Answer(TRUE) /\ Head(inbox).cmd = "SEND"
  /\ radioOpen
  /\ transmitted' = transmitted \cup {Head(inbox).id}
  /\ UNCHANGED <<alive, radioOpen>>

WorkerReceives ==
  /\ Answer(TRUE) /\ Head(inbox).cmd = "RECEIVE"
  /\ radioOpen
  /\ UNCHANGED <<alive, radioOpen, transmitted>>

\* The command raises: no device, no open radio, an error of rflib.
WorkerRaises ==
  /\ Answer(FALSE)
  /\ Head(inbox).cmd # "STOP"
  /\ Head(inbox).cmd = "OPEN" => ~radioOpen
  /\ UNCHANGED <<alive, radioOpen, transmitted>>

WorkerStops ==
  /\ Answer(TRUE) /\ Head(inbox).cmd = "STOP"
  /\ alive' = alive \ {conn}
  /\ UNCHANGED <<radioOpen, transmitted>>

\* The process dies, by a fault in rflib or libusb, or ends because its pipe is closed.
WorkerDies ==
  /\ \E w \in alive : alive' = alive \ {w}
  /\ UNCHANGED <<callVars, thread, handle, conn, generation, radioOpen, inbox, outbox, missed,
                 cooling, outstanding, refusing, closer, transmitted, mixed>>

-----------------------------------------------------------------------------
\* YardStickBackend.close and YardStickWorkerSupervisor.stop.

CloseCalled ==
  /\ closer.pc = "no"
  /\ closer' = [closer EXCEPT !.pc = "lock"]
  /\ UNCHANGED <<callVars, thread, workerVars, cooling, outstanding, refusing, transmitted, mixed>>

CloseAcquires ==
  /\ closer.pc = "lock" /\ holder = Nobody
  /\ holder' = "close"
  /\ closer' = [closer EXCEPT !.pc = "stop"]
  /\ UNCHANGED <<call, made, returned, thread, workerVars, cooling, outstanding, refusing,
                 transmitted, mixed>>

\* A call holds the lock for longer than close waits: close raises and the
\* supervisor is never told to stop.
CloseGivesUp ==
  /\ closer.pc = "lock" /\ holder # Nobody
  /\ closer' = [closer EXCEPT !.pc = "failed"]
  /\ UNCHANGED <<callVars, thread, workerVars, cooling, outstanding, refusing, transmitted, mixed>>

CloseEnds ==
  /\ closer' = [closer EXCEPT !.pc = "closed"]
  /\ holder' = Nobody
  /\ UNCHANGED <<call, made, returned, thread, transmitted, mixed>>

StopFindsNothing ==
  /\ closer.pc = "stop" /\ LockFree /\ handle = 0
  /\ refusing' = TRUE
  /\ CloseEnds
  /\ UNCHANGED <<workerVars, cooling, outstanding>>

\* The worker is asked to stop, unless it is dead or busy with a request.
StopAsks ==
  /\ closer.pc = "stop" /\ LockFree /\ Running /\ ~outstanding
  /\ refusing' = TRUE /\ outstanding' = TRUE
  /\ inbox' = Append(inbox, [cmd |-> "STOP", id |-> 0])
  /\ closer' = [closer EXCEPT !.pc = "wait"]
  /\ UNCHANGED <<callVars, thread, handle, conn, generation, alive, radioOpen, outbox, missed,
                 cooling, transmitted, mixed>>

StopForces ==
  /\ closer.pc = "stop" /\ LockFree /\ handle # 0 /\ (~Running \/ outstanding)
  /\ refusing' = TRUE
  /\ closer' = [closer EXCEPT !.pc = "kill"]
  /\ UNCHANGED <<callVars, thread, workerVars, cooling, outstanding, transmitted, mixed>>

\* An answer, the time limit, or an error of the pipe.
StopAnswered ==
  /\ closer.pc = "wait"
  /\ outbox' \in {outbox} \cup (IF outbox = <<>> THEN {} ELSE {Tail(outbox)})
  /\ outstanding' = FALSE
  /\ closer' = [closer EXCEPT !.pc = "kill"]
  /\ UNCHANGED <<callVars, thread, handle, conn, generation, alive, radioOpen, inbox, missed,
                 cooling, refusing, transmitted, mixed>>

StopKills ==
  /\ closer.pc = "kill"
  /\ KillWorker
  /\ closer' = [pc |-> "cleanup", worker |-> handle]
  /\ UNCHANGED <<callVars, thread, cooling, outstanding, refusing, transmitted, mixed>>

StopFindsItKilled ==
  /\ closer.pc = "kill" /\ handle = 0
  /\ CloseEnds
  /\ UNCHANGED <<workerVars, cooling, outstanding, refusing>>

StopEnds ==
  /\ closer.pc = "cleanup"
  /\ DropWorker(closer.worker)
  /\ CloseEnds
  /\ UNCHANGED <<outstanding, refusing>>

-----------------------------------------------------------------------------

CallStep(c) == \/ \E t \in Threads : AcquireLock(c, t)
               \/ GiveUpLock(c) \/ Abandon(c)

ThreadStep(t) ==
  \/ RequestRefused(t) \/ RequestInCooldown(t)
  \/ RequestToRunningWorker(t) \/ RequestBreaks(t)
  \/ RequestStartsWorker(t) \/ StartSpawns(t) \/ StartFails(t)
  \/ StartConnects(t) \/ StartLosesWorker(t)
  \/ PollReady(t) \/ PollTimesOut(t)
  \/ RecvAnswer(t) \/ RecvEOF(t) \/ RecvOnNothing(t)
  \/ TerminateKills(t) \/ TerminateMisses(t)
  \/ TerminateFindsNothing(t) \/ TerminateEnds(t)

WorkerStep == WorkerOpens \/ WorkerTransmits \/ WorkerReceives \/ WorkerRaises \/ WorkerStops

CloseStep ==
  \/ CloseAcquires \/ CloseGivesUp
  \/ StopFindsNothing \/ StopAsks \/ StopForces \/ StopAnswered
  \/ StopKills \/ StopFindsItKilled \/ StopEnds

Next ==
  \/ \E c \in Callers : CallStep(c) \/ \E op \in {"SEND", "RECEIVE"} : Call(c, op)
  \/ \E t \in Threads : ThreadStep(t)
  \/ CoolsDown
  \/ WorkerStep \/ WorkerDies
  \/ CloseCalled \/ CloseStep

Spec == Init /\ [][Next]_vars

-----------------------------------------------------------------------------
\* A worker that no handle names runs only if a terminate met it while another thread
\* was starting it, between the assignment of _process and the return of start():
\* then the code does lose it.  Nothing else does, whatever threads time out, read an
\* end of file, drop handles or start a worker at the same time, and in whatever order
\* (_ensure_worker_started, _terminate_worker).
NoOrphan == alive \subseteq {handle} \cup missed

\* Once close has returned no other worker runs, and no request that outlives it
\* starts one (stop, the _shutdown_requested flags of the backend and the supervisor).
ClosedMeansStopped == closer.pc = "closed" => alive \subseteq missed

\* A send returns only if its payload was transmitted, whatever restarts and
\* late answers precede it, as long as no request was made to this worker while
\* another one was waiting (request, send).
SendIsTruthful == [][returned' \subseteq returned \cup transmitted \/ mixed]_vars

\* What the docstring of send claims, "Transmit one prepared Proflame2 packet via
\* Yard Stick One.": a send that returns has transmitted.
SendTransmits == returned \subseteq transmitted

\* A thread that has been told that there is an answer finds one, so that the time
\* limit of its poll bounds the whole request: recv has none.  It may wait for
\* another answer only after requests crossed on the pipe, or for the end of the
\* worker when a stop reads the pipe too (request, stop).
RecvDoesNotBlock == \A t \in Threads :
  thread[t].pc = "recv" /\ ~mixed /\ ~refusing => outbox # <<>> \/ conn \notin alive
=============================================================================
