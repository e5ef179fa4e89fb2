----------------------- MODULE YardStickWorkerProofs -----------------------
(***************************************************************************)
(* What holds of YardStickWorker for every number of callers, threads,     *)
(* calls and workers.                                                      *)
(***************************************************************************)
EXTENDS YardStickWorker, TLAPS

-----------------------------------------------------------------------------
\* Types.

\* A caller waits for one thread at most, and is in a call while it waits.
Owned == \A t \in Threads : thread[t].owner # Nobody =>
  /\ call[thread[t].owner].pc \in {"open", "main"}
  /\ \A u \in Threads : thread[u].owner = thread[t].owner => u = t

\* A call, and every request made for one, has the id of a call: only the STOP of
\* the supervisor has none.
Numbered ==
  /\ \A c \in Callers : call[c].pc # "idle" => call[c].id \in Ids
  /\ \A t \in Threads : thread[t].pc # "idle" => thread[t].req.id \in Ids
  /\ Owned
  /\ \A i \in 1..Len(inbox) : inbox[i].cmd # "STOP" => inbox[i].id \in Ids

Typed == WorkerTypeOK /\ Numbered

\* The part of the type invariant that the request of a thread, and its end, can disturb.
CallTypes ==
  /\ holder \in Callers \cup {"close", Nobody}
  /\ call \in [Callers -> Calls]
  /\ returned \subseteq Ids
  /\ thread \in [Threads -> ThreadStates]
  /\ \A c \in Callers : call[c].pc # "idle" => call[c].id \in Ids
  /\ \A t \in Threads : thread[t].pc # "idle" => thread[t].req.id \in Ids
  /\ Owned

\* The part about the worker and its pipe.
PipeTypes ==
  /\ handle \in 0..MaxWorkers /\ conn \in 0..MaxWorkers
  /\ generation \in 0..MaxWorkers
  /\ alive \subseteq Workers /\ missed \subseteq Workers
  /\ radioOpen \in BOOLEAN
  /\ inbox \in Seq(Requests)
  /\ outbox \in Seq(BOOLEAN)
  /\ \A i \in 1..Len(inbox) : inbox[i].cmd # "STOP" => inbox[i].id \in Ids

\* The rest.
FlagTypes ==
  /\ made \in 0..MaxCalls
  /\ {cooling, outstanding, refusing, mixed} \subseteq BOOLEAN
  /\ closer \in Closers
  /\ transmitted \subseteq Ids

LEMMA TypedParts == Typed <=> CallTypes /\ PipeTypes /\ FlagTypes
BY DEF Typed, WorkerTypeOK, Numbered, CallTypes, PipeTypes, FlagTypes

LEMMA TypedPartsNext == Typed' <=> CallTypes' /\ PipeTypes' /\ FlagTypes'
BY DEF Typed, WorkerTypeOK, Numbered, CallTypes, PipeTypes, FlagTypes

LEMMA IdleThreadTyped == IdleThread \in ThreadStates
BY WorkerAssumption DEF IdleThread, ThreadStates, Requests, Commands

LEMMA IdleCallTyped == IdleCall \in Calls
BY WorkerAssumption DEF IdleCall, Calls

\* The end of a request leaves calls and threads typed.
LEMMA EndTyped ==
  ASSUME CallTypes, NEW t \in Threads, thread[t].pc # "idle",
         Succeeds(t) \/ Raises(t)
  PROVE  CallTypes'
<1>1. thread[t] \in ThreadStates /\ thread[t].req.id \in Ids /\ thread[t].req \in Requests
  BY DEF CallTypes, ThreadStates
<1>2. CASE ReturnsToNobody(t)
  BY <1>2, IdleThreadTyped DEF ReturnsToNobody, CallTypes, IdleThread, Owned
<1>3. CASE OpenReturns(t)
  <2> DEFINE c == thread[t].owner
  <2>1. c \in Callers /\ call[c] \in Calls /\ call[c].pc # "idle" /\ call[c].id \in Ids
    BY <1>1, <1>3 DEF OpenReturns, CallTypes, ThreadStates, Owned
  <2>2. [thread[t].req EXCEPT !.cmd = call[c].op] \in Requests
    BY <1>1, <2>1 DEF Requests, Calls, Commands
  <2>3. thread'[t] = [thread[t] EXCEPT !.pc = "request",
                       !.req = [thread[t].req EXCEPT !.cmd = call[c].op]]
    BY <1>1, <1>3 DEF OpenReturns, CallTypes
  <2>4. \A u \in Threads \ {t} : thread'[u] = thread[u]
    BY <1>3 DEF OpenReturns, CallTypes
  <2>5. thread' \in [Threads -> ThreadStates]
    <3>1. thread'[t] \in ThreadStates
      BY <1>1, <2>2, <2>3 DEF ThreadStates
    <3>2. thread' = [u \in Threads |-> thread'[u]]
      BY <1>3 DEF OpenReturns, CallTypes
    <3> QED BY <3>1, <3>2, <2>4 DEF CallTypes
  <2>6. /\ call' \in [Callers -> Calls]
        /\ \A d \in Callers : call'[d].id = call[d].id
        /\ \A d \in Callers \ {c} : call'[d] = call[d]
        /\ call'[c].pc = "main"
    BY <1>3, <2>1 DEF OpenReturns, CallTypes, Calls
  <2>7. thread'[t].owner = c /\ thread'[t].req.id \in Ids
    BY <1>1, <2>2, <2>3 DEF ThreadStates, Requests
  <2>8. \A u \in Threads : thread'[u].owner = thread[u].owner
    BY <2>4, <2>7
  <2>9. UNCHANGED <<holder, returned>>
    BY <1>3 DEF OpenReturns
  <2> HIDE DEF c
  <2>10. Owned'
    <3>1. SUFFICES ASSUME NEW u \in Threads, thread'[u].owner # Nobody
                   PROVE  /\ call'[thread'[u].owner].pc \in {"open", "main"}
                          /\ \A v \in Threads : thread'[v].owner = thread'[u].owner => v = u
      BY DEF Owned
    <3> DEFINE d == thread[u].owner
    <3>2. d \in Callers /\ call[d].pc \in {"open", "main"}
          /\ \A v \in Threads : thread[v].owner = d => v = u
      BY <2>8, <3>1 DEF Owned, CallTypes, ThreadStates
    <3> HIDE DEF d
    <3>3. call'[d].pc \in {"open", "main"}
      BY <2>6, <3>2
    <3> QED BY <2>8, <3>2, <3>3 DEF d
  <2> QED BY <2>1, <2>4, <2>5, <2>6, <2>7, <2>9, <2>10 DEF CallTypes
<1>4. ASSUME NEW sends, CallReturns(t, sends), sends \subseteq Ids
      PROVE  CallTypes'
  <2> DEFINE c == thread[t].owner
  <2>1. c \in Callers
    BY <1>1, <1>4 DEF CallReturns, ThreadStates
  <2>2. /\ thread' = [thread EXCEPT ![t] = IdleThread]
        /\ call' = [call EXCEPT ![c] = IdleCall]
        /\ holder' = Nobody
        /\ returned' = returned \cup sends
    BY <1>4 DEF CallReturns
  <2>3. \A u \in Threads \ {t} : thread[u].owner # c
    BY <1>4 DEF CallReturns, CallTypes, Owned
  <2> HIDE DEF c
  <2>4. Owned'
    BY <2>1, <2>2, <2>3 DEF Owned, CallTypes, IdleThread
  <2> QED BY <1>4, <2>1, <2>2, <2>4, IdleThreadTyped, IdleCallTyped DEF CallTypes, IdleThread, IdleCall
<1> QED BY <1>1, <1>2, <1>3, <1>4 DEF Succeeds, Raises

\* A thread that goes on leaves calls and threads typed.
LEMMA MoveTyped ==
  ASSUME CallTypes, NEW t \in Threads, thread[t].pc # "idle",
         NEW p \in {"start", "spawn", "poll", "recv", "kill", "cleanup"}, NEW w \in 0..MaxWorkers,
         \/ thread' = [thread EXCEPT ![t].pc = p]
         \/ thread' = [thread EXCEPT ![t].pc = p, ![t].worker = w],
         UNCHANGED <<holder, call, returned>>
  PROVE  CallTypes'
<1>1. /\ thread' \in [Threads -> ThreadStates]
      /\ \A u \in Threads : /\ thread'[u].owner = thread[u].owner
                            /\ thread'[u].req = thread[u].req
                            /\ thread'[u].pc # "idle" => thread[u].pc # "idle"
  BY DEF CallTypes, ThreadStates
<1>2. Owned'
  BY <1>1 DEF CallTypes, Owned
<1> QED BY <1>1, <1>2 DEF CallTypes

\* The calls that begin, wait for the lock or leave.
LEMMA CallsTyped ==
  ASSUME Typed, NEW c \in Callers, CallStep(c) \/ \E op \in {"SEND", "RECEIVE"} : Call(c, op)
  PROVE  CallTypes' /\ made' \in 0..MaxCalls
<1> USE TypedParts, WorkerAssumption
<1>1. CASE \E op \in {"SEND", "RECEIVE"} : Call(c, op)
  <2>1. PICK op \in {"SEND", "RECEIVE"} : Call(c, op)
    BY <1>1
  <2>2. [pc |-> "lock", op |-> op, id |-> made + 1] \in Calls /\ made + 1 \in Ids
    BY <2>1 DEF Call, FlagTypes, Calls, Ids
  <2>3. Owned'
    BY <2>1 DEF Call, CallTypes, Owned
  <2> QED BY <2>1, <2>2, <2>3 DEF Call, CallTypes, Ids
<1>2. CASE \E t \in Threads : AcquireLock(c, t)
  <2>1. PICK t \in Threads : AcquireLock(c, t)
    BY <1>2
  <2>2. call[c] \in Calls /\ call[c].id \in Ids /\ call[c].pc = "lock"
    BY <2>1 DEF AcquireLock, CallTypes
  <2> DEFINE new == OpenRequest(c)
  <2>3. new \in ThreadStates /\ new.req.id = call[c].id /\ new.owner = c
    BY <2>2 DEF OpenRequest, ThreadStates, Requests, Commands, Ids
  <2>4. /\ thread' = [thread EXCEPT ![t] = new]
        /\ call' = [call EXCEPT ![c].pc = "open"]
        /\ holder' = c
        /\ UNCHANGED <<made, returned>>
    BY <2>1 DEF AcquireLock
  <2> HIDE DEF new
  <2>5. /\ call' \in [Callers -> Calls]
        /\ \A d \in Callers : call'[d].id = call[d].id
        /\ \A d \in Callers \ {c} : call'[d] = call[d]
        /\ call'[c].pc = "open"
    BY <2>2, <2>4 DEF CallTypes, Calls
  <2>6. \A u \in Threads : thread[u].owner # c
    BY <2>2 DEF CallTypes, Owned
  <2>7. Owned'
    BY <2>3, <2>4, <2>5, <2>6 DEF CallTypes, ThreadStates, Owned
  <2> QED BY <2>2, <2>3, <2>4, <2>5, <2>7 DEF CallTypes, FlagTypes
<1>3. CASE GiveUpLock(c)
  <2>1. \A u \in Threads : thread[u].owner # c
    BY <1>3 DEF GiveUpLock, CallTypes, Owned
  <2>2. Owned'
    BY <1>3, <2>1 DEF GiveUpLock, CallTypes, ThreadStates, Owned
  <2> QED BY <1>3, <2>2, IdleCallTyped DEF GiveUpLock, CallTypes, FlagTypes, IdleCall
<1>4. CASE Abandon(c)
  <2>1. \A u \in Threads :
          /\ thread'[u] \in ThreadStates
          /\ thread'[u].pc = thread[u].pc /\ thread'[u].req = thread[u].req
          /\ thread'[u].owner = IF thread[u].owner = c THEN Nobody ELSE thread[u].owner
    BY <1>4 DEF Abandon, CallTypes, ThreadStates
  <2>2. thread' \in [Threads -> ThreadStates]
    BY <1>4, <2>1 DEF Abandon
  <2>3. Owned'
    BY <1>4, <2>1 DEF Abandon, CallTypes, ThreadStates, Owned
  <2> QED BY <1>4, <2>1, <2>2, <2>3, IdleCallTyped DEF Abandon, CallTypes, FlagTypes, IdleCall
<1> QED BY <1>1, <1>2, <1>3, <1>4 DEF CallStep

-----------------------------------------------------------------------------
\* One lemma for each part of the next-state relation.

\* An empty pipe, and a shorter one, carry what the pipe carried.
LEMMA PipeShrinks ==
  ASSUME inbox \in Seq(Requests), outbox \in Seq(BOOLEAN),
         \A i \in 1..Len(inbox) : inbox[i].cmd # "STOP" => inbox[i].id \in Ids
  PROVE  /\ inbox # <<>> =>
              /\ Tail(inbox) \in Seq(Requests) /\ Head(inbox) \in Requests
              /\ Head(inbox).cmd # "STOP" => Head(inbox).id \in Ids
              /\ \A i \in 1..Len(Tail(inbox)) :
                   Tail(inbox)[i].cmd # "STOP" => Tail(inbox)[i].id \in Ids
         /\ outbox # <<>> => Tail(outbox) \in Seq(BOOLEAN)
<1>1. ASSUME inbox # <<>>
      PROVE  /\ Tail(inbox) \in Seq(Requests) /\ Head(inbox) = inbox[1]
             /\ 1 \in 1..Len(inbox) /\ inbox[1] \in Requests
             /\ \A i \in 1..Len(Tail(inbox)) :
                  i + 1 \in 1..Len(inbox) /\ Tail(inbox)[i] = inbox[i + 1]
  BY <1>1
<1> QED BY <1>1

LEMMA InboxGrows ==
  ASSUME PipeTypes, NEW r \in Requests, r.cmd # "STOP" => r.id \in Ids
  PROVE  /\ Append(inbox, r) \in Seq(Requests)
         /\ \A i \in 1..Len(Append(inbox, r)) :
              Append(inbox, r)[i].cmd # "STOP" => Append(inbox, r)[i].id \in Ids
<1>1. /\ Append(inbox, r) \in Seq(Requests)
      /\ Len(Append(inbox, r)) = Len(inbox) + 1 /\ Len(inbox) \in Nat
      /\ Append(inbox, r)[Len(inbox) + 1] = r
      /\ \A i \in 1..Len(inbox) : Append(inbox, r)[i] = inbox[i]
  BY DEF PipeTypes
<1> QED BY <1>1 DEF PipeTypes

\* The pipe when the handles of a dead worker are dropped.
LEMMA PipeDropped ==
  ASSUME PipeTypes, PipeCloses \/ UNCHANGED <<conn, inbox, outbox>>
  PROVE  /\ conn' \in 0..MaxWorkers
         /\ inbox' \in Seq(Requests) /\ outbox' \in Seq(BOOLEAN)
         /\ \A i \in 1..Len(inbox') : inbox'[i].cmd # "STOP" => inbox'[i].id \in Ids
<1>1. CASE PipeCloses
  <2>1. /\ conn' \in 0..MaxWorkers /\ Len(inbox') = 0
        /\ inbox' \in Seq(Requests) /\ outbox' \in Seq(BOOLEAN)
    BY <1>1, WorkerAssumption DEF PipeCloses
  <2>2. \A i \in 1..Len(inbox') : FALSE
    BY <2>1
  <2> QED BY <2>1, <2>2
<1>2. CASE UNCHANGED <<conn, inbox, outbox>>
  BY <1>2 DEF PipeTypes
<1> QED BY <1>1, <1>2

\* The types of one worker are kept.
LEMMA RequestTyped ==
  ASSUME Typed, NEW t \in Threads,
         \/ RequestRefused(t) \/ RequestInCooldown(t) \/ RequestToRunningWorker(t)
         \/ RequestBreaks(t)
  PROVE  Typed'
<1> USE TypedParts, TypedPartsNext, WorkerAssumption
<1>1. thread[t].req \in Requests /\ thread[t].req.id \in Ids /\ thread[t].pc # "idle"
  BY DEF RequestRefused, RequestInCooldown, FindsNoWorker, RequestToRunningWorker,
         RequestBreaks, CallTypes, ThreadStates
<1>2. CASE RequestRefused(t)
  <2>1. CallTypes'
    BY <1>1, <1>2, EndTyped DEF RequestRefused
  <2> QED BY <1>2, <2>1 DEF RequestRefused, PipeTypes, FlagTypes, workerVars
<1>3. CASE RequestInCooldown(t)
  <2>1. CallTypes'
    BY <1>1, <1>3, EndTyped DEF RequestInCooldown
  <2>2. PipeTypes'
    BY <1>3, PipeDropped DEF RequestInCooldown, FindsNoWorker, PipeTypes
  <2> QED BY <1>3, <2>1, <2>2 DEF RequestInCooldown, FlagTypes
<1>4. CASE RequestToRunningWorker(t)
  <2>1. CallTypes'
    BY <1>1, <1>4, MoveTyped DEF RequestToRunningWorker, SendRequest, callVars, PipeTypes
  <2>2. PipeTypes'
    BY <1>1, <1>4, InboxGrows DEF RequestToRunningWorker, PipeTypes
  <2>3. FlagTypes'
    BY <1>4 DEF RequestToRunningWorker, SendRequest, callVars, FlagTypes
  <2> QED BY <2>1, <2>2, <2>3
<1>5. CASE RequestBreaks(t)
  <2>1. CallTypes'
    BY <1>1, <1>5, EndTyped DEF RequestBreaks
  <2>2. PipeTypes'
    BY <1>5 DEF RequestBreaks, PipeCloses, PipeTypes
  <2> QED BY <1>5, <2>1, <2>2 DEF RequestBreaks, FlagTypes
<1> QED BY <1>2, <1>3, <1>4, <1>5

\* The start of a worker.
LEMMA StartTyped ==
  ASSUME Typed, NEW t \in Threads,
         \/ RequestStartsWorker(t) \/ StartSpawns(t) \/ StartFails(t)
         \/ StartConnects(t) \/ StartLosesWorker(t)
  PROVE  Typed'
<1> USE TypedParts, TypedPartsNext, WorkerAssumption
<1>1. /\ thread[t].req \in Requests /\ thread[t].req.id \in Ids /\ thread[t].pc # "idle"
      /\ thread[t].worker \in 0..MaxWorkers
  BY DEF RequestStartsWorker, AssignsProcess, FindsNoWorker, StartSpawns, StartFails,
         StartConnects, StartLosesWorker, Connects, CallTypes, ThreadStates
<1>2. CASE RequestStartsWorker(t)
  <2>1. generation + 1 \in 0..MaxWorkers
    BY <1>2 DEF RequestStartsWorker, AssignsProcess, PipeTypes
  <2>2. CallTypes'
    <3>1. /\ thread' = [thread EXCEPT ![t].pc = "start", ![t].worker = generation + 1]
          /\ UNCHANGED <<holder, call, returned>>
      BY <1>2 DEF RequestStartsWorker, AssignsProcess, callVars
    <3> QED BY <1>1, <2>1, <3>1, MoveTyped
  <2>3. PipeTypes'
    BY <1>2, <2>1, PipeDropped DEF RequestStartsWorker, AssignsProcess, FindsNoWorker, PipeTypes
  <2> QED BY <1>2, <2>2, <2>3 DEF RequestStartsWorker, AssignsProcess, callVars, FlagTypes
<1>3. CASE StartSpawns(t)
  <2>1. CallTypes'
    <3>1. /\ thread' = [thread EXCEPT ![t].pc = "spawn"]
          /\ UNCHANGED <<holder, call, returned>>
      BY <1>3 DEF StartSpawns, callVars
    <3> QED BY <1>1, <3>1, MoveTyped
  <2>2. PipeTypes'
    BY <1>3 DEF StartSpawns, PipeTypes, Workers
  <2> QED BY <1>3, <2>1, <2>2 DEF StartSpawns, callVars, FlagTypes
<1>4. CASE StartFails(t)
  <2>1. CallTypes'
    BY <1>1, <1>4, EndTyped DEF StartFails
  <2> QED BY <1>4, <2>1 DEF StartFails, workerVars, PipeTypes, FlagTypes
<1>5. CASE StartConnects(t)
  <2>1. CallTypes'
    <3>1. /\ thread' = [thread EXCEPT ![t].pc = "poll", ![t].worker = thread[t].worker]
          /\ UNCHANGED <<holder, call, returned>>
      BY <1>5 DEF StartConnects, SendRequest, callVars
    <3> QED BY <1>1, <3>1, MoveTyped
  <2>2. PipeTypes'
    <3>1. /\ <<thread[t].req>> \in Seq(Requests)
          /\ \A i \in 1..Len(<<thread[t].req>>) : <<thread[t].req>>[i].id \in Ids
      BY <1>1
    <3>2. /\ conn' = thread[t].worker /\ radioOpen' = FALSE
          /\ inbox' = <<thread[t].req>> /\ outbox' = <<>>
          /\ UNCHANGED <<handle, generation, alive, missed>>
      BY <1>5 DEF StartConnects, Connects
    <3>3. outbox' \in Seq(BOOLEAN)
      BY <3>2
    <3> QED BY <1>1, <3>1, <3>2, <3>3 DEF PipeTypes
  <2>3. FlagTypes'
    BY <1>5 DEF StartConnects, Connects, SendRequest, callVars, FlagTypes, Waiting
  <2> QED BY <2>1, <2>2, <2>3
<1>6. CASE StartLosesWorker(t)
  <2>1. CallTypes'
    BY <1>1, <1>6, EndTyped DEF StartLosesWorker
  <2>2. PipeTypes'
    <3>1. /\ conn' = thread[t].worker /\ radioOpen' = FALSE
          /\ inbox' = <<>> /\ outbox' = <<>>
          /\ UNCHANGED <<handle, generation, alive, missed>>
      BY <1>6 DEF StartLosesWorker, Connects
    <3>2. inbox' \in Seq(Requests) /\ outbox' \in Seq(BOOLEAN) /\ Len(inbox') = 0
      BY <3>1
    <3>3. \A i \in 1..Len(inbox') : FALSE
      BY <3>2
    <3> QED BY <1>1, <3>1, <3>2, <3>3 DEF PipeTypes
  <2> QED BY <1>6, <2>1, <2>2 DEF StartLosesWorker, Connects, FlagTypes, Waiting
<1> QED BY <1>2, <1>3, <1>4, <1>5, <1>6

LEMMA PollTyped ==
  ASSUME Typed, NEW t \in Threads,
         \/ PollReady(t) \/ PollTimesOut(t)
         \/ RecvAnswer(t) \/ RecvEOF(t) \/ RecvOnNothing(t)
  PROVE  Typed'
<1> USE TypedParts, TypedPartsNext, WorkerAssumption
<1>1. thread[t].pc # "idle"
  BY DEF PollReady, PollTimesOut, RecvAnswer, RecvEOF, RecvOnNothing
<1>2. CASE PollReady(t) \/ PollTimesOut(t) \/ RecvEOF(t)
  <2>1. \E p \in {"poll", "recv", "kill", "cleanup"} :
          thread' = [thread EXCEPT ![t].pc = p] /\ UNCHANGED <<holder, call, returned>>
    BY <1>2 DEF PollReady, PollTimesOut, RecvEOF, callVars
  <2>2. CallTypes'
    <3>1. 0 \in 0..MaxWorkers
      OBVIOUS
    <3> QED BY <1>1, <2>1, <3>1, MoveTyped
  <2> QED BY <1>2, <2>2
          DEF PollReady, PollTimesOut, RecvEOF, callVars, workerVars, PipeTypes, FlagTypes
<1>3. CASE RecvAnswer(t)
  <2>1. CallTypes'
    BY <1>1, <1>3, EndTyped DEF RecvAnswer
  <2>2. PipeTypes'
    BY <1>3, PipeShrinks DEF RecvAnswer, PipeTypes
  <2> QED BY <1>3, <2>1, <2>2 DEF RecvAnswer, FlagTypes
<1>4. CASE RecvOnNothing(t)
  <2>1. CallTypes'
    BY <1>1, <1>4, EndTyped DEF RecvOnNothing
  <2> QED BY <1>4, <2>1 DEF RecvOnNothing, workerVars, PipeTypes, FlagTypes
<1> QED BY <1>2, <1>3, <1>4

LEMMA DropTyped ==
  ASSUME PipeTypes, NEW w, DropWorker(w)
  PROVE  PipeTypes' /\ cooling' \in BOOLEAN
<1>1. CASE handle = w
  BY <1>1, WorkerAssumption DEF DropWorker, PipeCloses, PipeTypes
<1>2. CASE handle # w
  BY <1>2 DEF DropWorker, PipeTypes
<1> QED BY <1>1, <1>2

LEMMA TerminateTyped ==
  ASSUME Typed, NEW t \in Threads,
         \/ TerminateKills(t) \/ TerminateMisses(t)
         \/ TerminateFindsNothing(t) \/ TerminateEnds(t)
  PROVE  Typed'
<1> USE TypedParts, TypedPartsNext, WorkerAssumption
<1>1. thread[t].pc # "idle"
  BY DEF TerminateKills, TerminateMisses, TerminateFindsNothing, TerminateEnds
<1>2. CASE TerminateKills(t)
  <2>1. CallTypes'
    BY <1>1, <1>2, MoveTyped DEF TerminateKills, callVars, PipeTypes
  <2> QED BY <1>2, <2>1 DEF TerminateKills, KillWorker, callVars, PipeTypes, FlagTypes
<1>3. CASE TerminateFindsNothing(t)
  <2>1. CallTypes'
    BY <1>1, <1>3, EndTyped DEF TerminateFindsNothing
  <2> QED BY <1>3, <2>1 DEF TerminateFindsNothing, workerVars, PipeTypes, FlagTypes
<1>4. CASE TerminateEnds(t)
  <2>1. CallTypes'
    BY <1>1, <1>4, EndTyped DEF TerminateEnds
  <2> QED BY <1>4, <2>1, DropTyped DEF TerminateEnds, FlagTypes
<1>5. CASE TerminateMisses(t)
  <2>1. CallTypes'
    BY <1>1, <1>5, MoveTyped DEF TerminateMisses, callVars, PipeTypes
  <2>2. PipeTypes'
    BY <1>5 DEF TerminateMisses, PipeTypes, Workers
  <2> QED BY <1>5, <2>1, <2>2 DEF TerminateMisses, callVars, FlagTypes
<1> QED BY <1>2, <1>3, <1>4, <1>5

LEMMA SameCalls ==
  ASSUME CallTypes, UNCHANGED <<call, returned, thread>>,
         holder' \in Callers \cup {"close", Nobody}
  PROVE  CallTypes'
BY DEF CallTypes, Owned

LEMMA WorkerTyped ==
  ASSUME Typed, WorkerStep \/ WorkerDies
  PROVE  Typed'
<1> USE TypedParts, TypedPartsNext, WorkerAssumption
<1>1. CASE WorkerDies
  BY <1>1, SameCalls DEF WorkerDies, callVars, CallTypes, PipeTypes, FlagTypes
<1>2. ASSUME NEW ok \in BOOLEAN, Answer(ok), radioOpen' \in BOOLEAN, alive' \subseteq alive,
             \/ UNCHANGED transmitted
             \/ Head(inbox).cmd = "SEND" /\ transmitted' = transmitted \cup {Head(inbox).id}
      PROVE  Typed'
  <2>1. CallTypes'
    BY <1>2, SameCalls DEF Answer, callVars, CallTypes
  <2>2. PipeTypes'
    BY <1>2, PipeShrinks DEF Answer, PipeTypes
  <2>3. FlagTypes'
    BY <1>2, PipeShrinks DEF Answer, callVars, PipeTypes, FlagTypes
  <2> QED BY <2>1, <2>2, <2>3
<1>3. WorkerStep => Typed'
  <2>1. radioOpen \in BOOLEAN
    BY DEF PipeTypes
  <2> QED BY <1>2, <2>1 DEF WorkerStep, WorkerOpens, WorkerTransmits, WorkerReceives,
                            WorkerRaises, WorkerStops
<1> QED BY <1>1, <1>3

LEMMA CloseTyped ==
  ASSUME Typed, CloseCalled \/ CloseStep \/ CoolsDown
  PROVE  Typed'
<1> USE TypedParts, TypedPartsNext, WorkerAssumption
<1>1. CallTypes'
  BY SameCalls DEF CloseCalled, CloseStep, CoolsDown, CloseAcquires, CloseGivesUp, CloseEnds,
     StopFindsNothing, StopAsks, StopForces, StopAnswered, StopKills, StopFindsItKilled,
     StopEnds, callVars, CallTypes
<1>2. PipeTypes'
  <2>1. [cmd |-> "STOP", id |-> 0] \in Requests
    BY DEF Requests, Commands
  <2>2. StopAsks => PipeTypes'
    BY <2>1, InboxGrows DEF StopAsks, PipeTypes
  <2>3. StopAnswered => PipeTypes'
    BY PipeShrinks DEF StopAnswered, PipeTypes
  <2>4. StopEnds => PipeTypes'
    BY DropTyped DEF StopEnds
  <2>5. StopKills => PipeTypes'
    BY DEF StopKills, KillWorker, PipeTypes
  <2> QED BY <2>2, <2>3, <2>4, <2>5
          DEF CloseCalled, CloseStep, CoolsDown, CloseAcquires, CloseGivesUp, StopFindsNothing,
              StopForces, StopFindsItKilled, workerVars, PipeTypes
<1>3. FlagTypes'
  <2>1. cooling' \in BOOLEAN
    BY DropTyped DEF CloseCalled, CloseStep, CoolsDown, CloseAcquires, CloseGivesUp, CloseEnds,
       StopFindsNothing, StopAsks, StopForces, StopAnswered, StopKills, StopFindsItKilled,
       StopEnds, FlagTypes
  <2>2. closer' \in Closers
    BY DEF CloseCalled, CloseStep, CoolsDown, CloseAcquires, CloseGivesUp, CloseEnds,
       StopFindsNothing, StopAsks, StopForces, StopAnswered, StopKills, StopFindsItKilled,
       StopEnds, FlagTypes, Closers, PipeTypes
  <2> QED BY <2>1, <2>2
       DEF CloseCalled, CloseStep, CoolsDown, CloseAcquires, CloseGivesUp, CloseEnds,
       StopFindsNothing, StopAsks, StopForces, StopAnswered, StopKills, StopFindsItKilled,
       StopEnds, FlagTypes, callVars
<1> QED BY <1>1, <1>2, <1>3

LEMMA TypedInit == Init => Typed
<1> USE WorkerAssumption
<1> SUFFICES ASSUME Init PROVE Typed
  OBVIOUS
<1>1. CallTypes
  BY IdleThreadTyped, IdleCallTyped
     DEF Init, CallTypes, Owned, IdleThread, IdleCall
<1>2. 0 \in 0..MaxWorkers /\ 0 \in 0..MaxCalls
  OBVIOUS
<1>3. PipeTypes
  <2>1. /\ inbox = <<>> /\ outbox = <<>> /\ handle = 0 /\ conn = 0 /\ generation = 0
        /\ alive = {} /\ missed = {} /\ radioOpen = FALSE
    BY DEF Init
  <2>2. inbox \in Seq(Requests) /\ outbox \in Seq(BOOLEAN) /\ Len(inbox) = 0
    BY <2>1
  <2>3. \A i \in 1..Len(inbox) : FALSE
    BY <2>2
  <2>4. /\ handle \in 0..MaxWorkers /\ conn \in 0..MaxWorkers /\ generation \in 0..MaxWorkers
        /\ alive \subseteq Workers /\ missed \subseteq Workers /\ radioOpen \in BOOLEAN
    BY <1>2, <2>1
  <2> QED BY <2>2, <2>3, <2>4 DEF PipeTypes
<1>4. FlagTypes
  BY <1>2 DEF Init, FlagTypes, Closers
<1> QED BY <1>1, <1>3, <1>4, TypedParts

LEMMA TypedStep == Typed /\ [Next]_vars => Typed'
<1> SUFFICES ASSUME Typed, [Next]_vars PROVE Typed'
  OBVIOUS
<1>1. ASSUME NEW c \in Callers,
             CallStep(c) \/ \E op \in {"SEND", "RECEIVE"} : Call(c, op)
      PROVE  Typed'
  <2>1. CallTypes' /\ made' \in 0..MaxCalls
    BY <1>1, CallsTyped
  <2> QED BY <1>1, <2>1, TypedParts, TypedPartsNext
          DEF CallStep, Call, AcquireLock, GiveUpLock, Abandon, workerVars, PipeTypes, FlagTypes
<1>2. ASSUME NEW t \in Threads, ThreadStep(t) PROVE Typed'
  BY <1>2, RequestTyped, StartTyped, PollTyped, TerminateTyped DEF ThreadStep
<1>3. CASE UNCHANGED vars
  BY <1>3 DEF vars, callVars, workerVars, Typed, WorkerTypeOK, Numbered, Owned
<1> QED BY <1>1, <1>2, <1>3, WorkerTyped, CloseTyped DEF Next

\* Every variable keeps its type; what went on the air, and what a send returned
\* for, is the payload of a call.
THEOREM WorkerTypeCorrect == Spec => []WorkerTypeOK
<1>1. Typed => WorkerTypeOK
  BY DEF Typed
<1> QED BY TypedInit, TypedStep, <1>1, PTL DEF Spec

-----------------------------------------------------------------------------
\* One worker.

\* Whoever forgets this worker forgets none that runs or is about to, except one that a
\* terminate met while it was being started (of the missed, alive and thread of a state).
Gone(w, m, a, th) ==
  \/ w \in m
  \/ w \notin a /\ \A t \in Threads : th[t].pc = "start" => th[t].worker # w

\* The thread that starts a worker is the only one, and starts the newest, which has no
\* pipe yet; _process names it or has been set to None.
Newest(t) ==
  /\ thread[t].worker = generation
  /\ conn < generation /\ handle \in {0, generation}
  /\ \A u \in Threads : Starting(u) => u = t

\* No worker has a number above the generation, so that a new one is not mistaken for
\* one that is being forgotten.
Sole ==
  /\ NoOrphan
  /\ handle <= generation /\ conn <= generation
  /\ \A w \in alive \cup missed : w <= generation
  /\ \A t \in Threads : /\ thread[t].worker <= generation
                        /\ thread[t].pc = "cleanup" => Gone(thread[t].worker, missed, alive, thread)
                        /\ Starting(t) => Newest(t)

\* The supervisor refuses requests, and starts no worker, before the worker is told to
\* stop.
Stopped ==
  /\ closer.pc \in {"wait", "kill", "cleanup", "closed"} => refusing
  /\ refusing => LockFree
  /\ closer.pc \in {"cleanup", "closed"} => alive \subseteq missed

\* The handle is kept, or dropped when the worker has ended or was missed.
Forgets ==
  \/ handle' = handle
  \/ handle' = 0 /\ (handle \in alive' => handle \in missed)

\* A thread after a step that starts no worker: it is as it was, or forgets a worker
\* that has ended.
Moves(t) ==
  \/ thread'[t].pc = thread[t].pc /\ thread'[t].worker = thread[t].worker
  \/ /\ thread'[t].pc \notin {"start", "spawn", "cleanup"}
     /\ thread'[t].worker \in {0, thread[t].worker, conn}
  \/ /\ thread'[t].pc = "cleanup" /\ thread'[t].worker = handle
     /\ handle \notin alive' /\ \A u \in Threads : thread[u].pc # "start"

\* What a step may do that starts no worker.
LEMMA SoleKept ==
  ASSUME Typed, Sole, alive' \subseteq alive, generation' = generation, missed' = missed,
         Forgets, conn' \in {0, conn}, \A t \in Threads : Moves(t)
  PROVE  Sole'
<1>1. generation \in Nat /\ handle \in Nat /\ conn \in Nat
  BY WorkerAssumption DEF Typed, WorkerTypeOK
<1>2. /\ NoOrphan' /\ handle' <= generation' /\ conn' <= generation'
      /\ \A w \in alive' \cup missed' : w <= generation'
  <2>1. NoOrphan'
    BY DEF Sole, NoOrphan, Forgets
  <2>2. \A w \in alive' \cup missed' : w <= generation'
    BY DEF Sole
  <2>3. handle' <= generation' /\ conn' <= generation'
    BY <1>1 DEF Sole, Forgets
  <2> QED BY <2>1, <2>2, <2>3
<1>3. \A t \in Threads : thread'[t].pc = "start" =>
        thread[t].pc = "start" /\ thread'[t].worker = thread[t].worker
  BY DEF Moves
<1>4. ASSUME NEW w, Gone(w, missed, alive, thread) PROVE Gone(w, missed', alive', thread')
  BY <1>3, <1>4 DEF Gone
<1>5. \A t \in Threads : Starting(t)' => Starting(t) /\ thread'[t].worker = thread[t].worker
  BY DEF Moves, Starting
<1>6. ASSUME NEW t \in Threads
      PROVE  /\ thread'[t].worker <= generation'
             /\ thread'[t].pc = "cleanup" => Gone(thread'[t].worker, missed', alive', thread')
             /\ Starting(t)' => Newest(t)'
  <2>1. thread'[t].worker <= generation'
    BY <1>1 DEF Moves, Sole
  <2>2. ASSUME thread'[t].pc = "cleanup" PROVE Gone(thread'[t].worker, missed', alive', thread')
    <3>1. CASE thread'[t].pc = thread[t].pc /\ thread'[t].worker = thread[t].worker
      BY <1>4, <2>2, <3>1 DEF Sole
    <3>2. CASE handle \notin alive' /\ (\A u \in Threads : thread[u].pc # "start") /\ thread'[t].worker = handle
      BY <1>3, <3>2 DEF Gone
    <3> QED BY <2>2, <3>1, <3>2 DEF Moves
  <2>3. ASSUME Starting(t)' PROVE Newest(t)'
    <3>1. Newest(t) /\ thread'[t].worker = thread[t].worker
      BY <1>5, <2>3 DEF Sole
    <3>2. conn' < generation' /\ handle' \in {0, generation'}
      BY <1>1, <3>1 DEF Newest, Forgets
    <3> QED BY <1>5, <3>1, <3>2 DEF Newest
  <2> QED BY <2>1, <2>2, <2>3
<1> QED BY <1>2, <1>6 DEF Sole

\* The thread at the end of a request is idle, or makes the second one.
LEMMA EndThreads ==
  ASSUME Typed, NEW t \in Threads, Succeeds(t) \/ Raises(t)
  PROVE  /\ \A u \in Threads : Moves(u)
         /\ \A u \in Threads \ {t} : thread'[u] = thread[u]
         /\ thread'[t].pc \in {"idle", "request"} /\ thread'[t].worker \in {0, thread[t].worker}
<1>1. thread \in [Threads -> ThreadStates]
  BY DEF Typed, WorkerTypeOK
<1>2. CASE thread' = [thread EXCEPT ![t] = IdleThread]
  BY <1>1, <1>2 DEF IdleThread, Moves
<1>3. CASE OpenReturns(t)
  <2>1. thread'[t].pc = "request" /\ thread'[t].worker = thread[t].worker
    BY <1>1, <1>3 DEF OpenReturns, ThreadStates
  <2>2. \A u \in Threads \ {t} : thread'[u] = thread[u]
    BY <1>1, <1>3 DEF OpenReturns
  <2> QED BY <2>1, <2>2 DEF Moves
<1> QED BY <1>2, <1>3 DEF Succeeds, Raises, ReturnsToNobody, CallReturns

\* A thread that goes on to another part of the request.
LEMMA GoesOn ==
  ASSUME Typed, NEW t \in Threads, NEW p \in {"start", "spawn", "poll", "recv", "kill", "cleanup"},
         thread' = [thread EXCEPT ![t].pc = p]
  PROVE  /\ thread'[t].pc = p /\ thread'[t].worker = thread[t].worker
         /\ thread'[t].owner = thread[t].owner
         /\ \A u \in Threads \ {t} : thread'[u] = thread[u]
BY DEF Typed, WorkerTypeOK, ThreadStates

LEMMA GoesOnWith ==
  ASSUME Typed, NEW t \in Threads, NEW p \in {"start", "poll", "cleanup"}, NEW w \in Nat,
         thread' = [thread EXCEPT ![t].pc = p, ![t].worker = w]
  PROVE  /\ thread'[t].pc = p /\ thread'[t].worker = w
         /\ thread'[t].owner = thread[t].owner
         /\ \A u \in Threads \ {t} : thread'[u] = thread[u]
BY DEF Typed, WorkerTypeOK, ThreadStates

LEMMA Numbers ==
  ASSUME Typed
  PROVE  /\ generation \in Nat /\ handle \in Nat /\ conn \in Nat
         /\ \A t \in Threads : thread[t].worker \in Nat
BY WorkerAssumption DEF Typed, WorkerTypeOK, ThreadStates

\* The handles are dropped only when their worker has ended, or was missed.
LEMMA DropIsSafe ==
  ASSUME Sole, NEW w, w \in alive => w \in missed, DropWorker(w)
  PROVE  /\ alive' = alive /\ generation' = generation /\ missed' = missed
         /\ Forgets /\ conn' \in {0, conn}
BY DEF DropWorker, PipeCloses, Forgets

LEMMA SoleRequest ==
  ASSUME Typed, Sole, NEW t \in Threads,
         \/ RequestRefused(t) \/ RequestInCooldown(t) \/ RequestToRunningWorker(t)
         \/ RequestBreaks(t) \/ StartFails(t)
  PROVE  Sole'
<1>1. CASE RequestRefused(t) \/ StartFails(t)
  <2>1. Raises(t) /\ UNCHANGED workerVars
    BY <1>1 DEF RequestRefused, StartFails
  <2> QED BY <2>1, EndThreads, SoleKept DEF workerVars, Forgets
<1>2. CASE RequestInCooldown(t) \/ RequestBreaks(t)
  <2>1. /\ alive' \subseteq alive /\ handle \notin alive' /\ handle' = 0 /\ conn' \in {0, conn}
        /\ generation' = generation /\ missed' = missed /\ Raises(t)
    BY <1>2 DEF RequestInCooldown, FindsNoWorker, Running, RequestBreaks, PipeCloses
  <2> QED BY <2>1, EndThreads, SoleKept DEF Forgets
<1>3. CASE RequestToRunningWorker(t)
  <2>1. thread' = [thread EXCEPT ![t].pc = "poll", ![t].worker = conn]
    BY <1>3 DEF RequestToRunningWorker, SendRequest
  <2>2. \A u \in Threads : Moves(u)
    <3>1. /\ thread'[t].pc = "poll" /\ thread'[t].worker = conn
          /\ \A u \in Threads \ {t} : thread'[u] = thread[u]
      BY <2>1, GoesOnWith, Numbers
    <3> QED BY <3>1 DEF Moves
  <2> QED BY <1>3, <2>2, SoleKept DEF RequestToRunningWorker, Forgets
<1> QED BY <1>1, <1>2, <1>3

LEMMA SoleAssigns ==
  ASSUME Typed, Sole, NEW t \in Threads, RequestStartsWorker(t)
  PROVE  Sole'
<1>1. generation \in Nat /\ handle \in Nat /\ conn \in Nat /\ missed \subseteq Nat /\ alive \subseteq Nat
  BY WorkerAssumption DEF Typed, WorkerTypeOK, Workers
<1>2. /\ LockFree /\ ~Running /\ generation' = generation + 1 /\ handle' = generation + 1
      /\ thread' = [thread EXCEPT ![t].pc = "start", ![t].worker = generation + 1]
      /\ alive' = alive /\ missed' = missed /\ conn' \in {0, conn}
  BY DEF RequestStartsWorker, AssignsProcess, FindsNoWorker, PipeCloses
<1>3. /\ thread'[t].pc = "start" /\ thread'[t].worker = generation + 1
      /\ \A u \in Threads \ {t} : thread'[u] = thread[u]
  <2>1. generation + 1 \in Nat
    BY <1>1
  <2> QED BY <1>2, <2>1, GoesOnWith
<1>4. \A u \in Threads : thread[u].worker \in Nat
  BY WorkerAssumption DEF Typed, WorkerTypeOK, ThreadStates
<1>5. /\ NoOrphan' /\ handle' <= generation' /\ conn' <= generation' /\ conn' < generation'
      /\ \A w \in alive' \cup missed' : w <= generation'
  BY <1>1, <1>2 DEF Sole, NoOrphan, Running
<1>6. ASSUME NEW u \in Threads, u # t
      PROVE  /\ thread'[u].worker <= generation'
             /\ thread'[u].pc = "cleanup" => Gone(thread'[u].worker, missed', alive', thread')
             /\ ~Starting(u)'
  <2>1. thread[u].worker <= generation /\ thread[u].worker # generation + 1
    BY <1>1, <1>4 DEF Sole
  <2>2. ~Starting(u) /\ thread'[u] = thread[u]
    BY <1>2, <1>3, <1>6 DEF LockFree
  <2>3. ASSUME thread[u].pc = "cleanup" PROVE Gone(thread[u].worker, missed', alive', thread')
    <3>1. Gone(thread[u].worker, missed, alive, thread)
      BY <2>3 DEF Sole
    <3>2. CASE thread[u].worker \in missed
      BY <1>2, <2>2, <3>2 DEF Gone
    <3>3. CASE thread[u].worker \notin alive
      <4>1. \A v \in Threads : thread'[v].pc = "start" => v = t
        BY <1>2, <1>3 DEF LockFree, Starting
      <4> QED BY <1>2, <1>3, <2>1, <2>2, <3>3, <4>1 DEF Gone
    <3> QED BY <3>1, <3>2, <3>3 DEF Gone
  <2>4. thread[u].worker <= generation + 1
    BY <1>1, <1>4, <2>1
  <2> QED BY <1>2, <2>2, <2>3, <2>4 DEF Starting
<1>7. thread'[t].worker <= generation' /\ Newest(t)'
  BY <1>1, <1>2, <1>3, <1>5, <1>6 DEF Newest
<1> QED BY <1>3, <1>5, <1>6, <1>7 DEF Sole

LEMMA SoleSpawns ==
  ASSUME Typed, Sole, NEW t \in Threads, StartSpawns(t)
  PROVE  Sole'
<1>1. /\ thread[t].pc = "start" /\ handle # 0 /\ alive' = alive \cup {handle}
      /\ thread' = [thread EXCEPT ![t].pc = "spawn"]
      /\ UNCHANGED <<handle, conn, generation, missed>>
  BY DEF StartSpawns
<1>2. Starting(t) /\ Newest(t) /\ handle = generation /\ thread[t].worker = generation
  BY <1>1 DEF Sole, Starting, Newest
<1>3. /\ thread'[t].pc = "spawn" /\ thread'[t].worker = thread[t].worker
      /\ \A u \in Threads \ {t} : thread'[u] = thread[u]
  BY <1>1, GoesOn
<1>4. generation \in Nat
  BY WorkerAssumption DEF Typed, WorkerTypeOK
<1>5. /\ NoOrphan' /\ handle' <= generation' /\ conn' <= generation'
      /\ \A w \in alive' \cup missed' : w <= generation'
  BY <1>1, <1>2, <1>4 DEF Sole, NoOrphan
<1>6. ASSUME NEW w, Gone(w, missed, alive, thread) PROVE Gone(w, missed', alive', thread')
  <2>1. CASE w \in missed
    BY <1>1, <2>1 DEF Gone
  <2>2. CASE w \notin missed
    <3>1. w \notin alive /\ w # handle
      BY <1>1, <1>2, <1>6, <2>2 DEF Gone
    <3>2. \A u \in Threads : thread'[u].pc = "start" => thread'[u].worker # w
      BY <1>3, <1>6, <2>2 DEF Gone
    <3> QED BY <1>1, <3>1, <3>2 DEF Gone
  <2> QED BY <2>1, <2>2
<1>7. \A u \in Threads : Starting(u)' => u = t
  BY <1>2, <1>3 DEF Newest, Starting
<1>8. Newest(t)'
  BY <1>1, <1>2, <1>3, <1>7 DEF Newest
<1>9. ASSUME NEW u \in Threads
      PROVE  /\ thread'[u].worker <= generation'
             /\ thread'[u].pc = "cleanup" => Gone(thread'[u].worker, missed', alive', thread')
  BY <1>1, <1>3, <1>6 DEF Sole
<1> QED BY <1>5, <1>7, <1>8, <1>9 DEF Sole

LEMMA SoleConnects ==
  ASSUME Typed, Sole, NEW t \in Threads, StartConnects(t) \/ StartLosesWorker(t)
  PROVE  Sole'
<1>1. /\ thread[t].pc = "spawn" /\ conn' = thread[t].worker
      /\ UNCHANGED <<handle, generation, alive, missed>>
  BY DEF StartConnects, StartLosesWorker, Connects
<1>2. Starting(t) /\ Newest(t) /\ thread[t].worker = generation
  BY <1>1 DEF Sole, Starting, Newest
<1>3. /\ thread'[t].pc \in {"poll", "idle", "request"} /\ thread'[t].worker \in {0, generation}
      /\ \A u \in Threads \ {t} : thread'[u] = thread[u]
  <2>1. CASE StartConnects(t)
    BY <1>2, <2>1, GoesOnWith, Numbers DEF StartConnects, SendRequest
  <2>2. CASE StartLosesWorker(t)
    BY <1>2, <2>2, EndThreads DEF StartLosesWorker
  <2> QED BY <2>1, <2>2
<1>4. generation \in Nat
  BY WorkerAssumption DEF Typed, WorkerTypeOK
<1>5. LockFree'
  BY <1>2, <1>3 DEF LockFree, Starting, Newest
<1>6. /\ NoOrphan' /\ handle' <= generation' /\ conn' <= generation'
      /\ \A w \in alive' \cup missed' : w <= generation'
  BY <1>1, <1>2, <1>4 DEF Sole, NoOrphan
<1>7. ASSUME NEW w, Gone(w, missed, alive, thread) PROVE Gone(w, missed', alive', thread')
  <2>1. \A u \in Threads : thread'[u].pc # "start"
    BY <1>5 DEF LockFree, Starting
  <2> QED BY <1>1, <1>7, <2>1 DEF Gone
<1>8. ASSUME NEW u \in Threads
      PROVE  /\ thread'[u].worker <= generation'
             /\ thread'[u].pc = "cleanup" => Gone(thread'[u].worker, missed', alive', thread')
  BY <1>1, <1>3, <1>4, <1>7 DEF Sole
<1> QED BY <1>5, <1>6, <1>8 DEF Sole, LockFree

LEMMA SoleMisses ==
  ASSUME Typed, Sole, NEW t \in Threads, TerminateMisses(t)
  PROVE  Sole'
<1>1. /\ thread[t].pc = "kill" /\ missed' = missed \cup {handle}
      /\ thread' = [thread EXCEPT ![t].pc = "cleanup", ![t].worker = handle]
      /\ UNCHANGED <<handle, conn, generation, alive>>
  BY DEF TerminateMisses
<1>2. /\ thread'[t].pc = "cleanup" /\ thread'[t].worker = handle
      /\ \A u \in Threads \ {t} : thread'[u] = thread[u]
  BY <1>1, GoesOnWith, Numbers
<1>3. /\ NoOrphan' /\ handle' <= generation' /\ conn' <= generation'
      /\ \A w \in alive' \cup missed' : w <= generation'
  BY <1>1 DEF Sole, NoOrphan
<1>4. ASSUME NEW w, Gone(w, missed, alive, thread) PROVE Gone(w, missed', alive', thread')
  BY <1>1, <1>2, <1>4 DEF Gone
<1>5. Gone(handle, missed', alive', thread')
  BY <1>1 DEF Gone
<1>6. \A u \in Threads : Starting(u)' => u # t /\ Starting(u) /\ thread'[u] = thread[u]
  BY <1>2 DEF Starting
<1>7. ASSUME NEW u \in Threads, Starting(u)' PROVE Newest(u)'
  BY <1>1, <1>6, <1>7 DEF Sole, Newest
<1>8. ASSUME NEW u \in Threads
      PROVE  /\ thread'[u].worker <= generation'
             /\ thread'[u].pc = "cleanup" => Gone(thread'[u].worker, missed', alive', thread')
  <2>1. CASE u = t
    BY <1>1, <1>2, <1>5, <2>1 DEF Sole
  <2>2. CASE u # t
    BY <1>1, <1>2, <1>4, <2>2 DEF Sole
  <2> QED BY <2>1, <2>2
<1> QED BY <1>3, <1>7, <1>8 DEF Sole

LEMMA SoleThreadStep ==
  ASSUME Typed, Sole, NEW t \in Threads, ThreadStep(t)
  PROVE  Sole'
<1>1. CASE RecvAnswer(t) \/ RecvOnNothing(t) \/ TerminateFindsNothing(t)
  <2>1. (Succeeds(t) \/ Raises(t)) /\ UNCHANGED <<alive, generation, handle, conn, missed>>
    BY <1>1 DEF RecvAnswer, RecvOnNothing, TerminateFindsNothing, workerVars
  <2> QED BY <2>1, EndThreads, SoleKept DEF Forgets
<1>2. CASE PollReady(t) \/ PollTimesOut(t) \/ RecvEOF(t)
  <2>1. PICK p \in {"recv", "kill"} : thread' = [thread EXCEPT ![t].pc = p]
    BY <1>2 DEF PollReady, PollTimesOut, RecvEOF
  <2>2. \A u \in Threads : Moves(u)
    BY <2>1, GoesOn DEF Moves
  <2>3. UNCHANGED <<alive, generation, handle, conn, missed>>
    BY <1>2 DEF PollReady, PollTimesOut, RecvEOF, workerVars
  <2> QED BY <2>2, <2>3, SoleKept DEF Forgets
<1>3. CASE TerminateKills(t)
  <2>1. /\ alive' \subseteq alive /\ handle \notin alive'
        /\ UNCHANGED <<generation, handle, conn, missed>>
        /\ thread' = [thread EXCEPT ![t].pc = "cleanup", ![t].worker = handle]
        /\ \A u \in Threads : thread[u].pc # "start"
    BY <1>3 DEF TerminateKills, KillWorker
  <2>2. \A u \in Threads : Moves(u)
    <3>1. /\ thread'[t].pc = "cleanup" /\ thread'[t].worker = handle
          /\ \A u \in Threads \ {t} : thread'[u] = thread[u]
      BY <2>1, GoesOnWith, Numbers
    <3> QED BY <2>1, <3>1 DEF Moves
  <2> QED BY <2>1, <2>2, SoleKept DEF Forgets
<1>4. CASE TerminateEnds(t)
  <2>1. thread[t].worker \in alive => thread[t].worker \in missed
    BY <1>4 DEF TerminateEnds, Sole, Gone
  <2>2. /\ alive' = alive /\ generation' = generation /\ missed' = missed
        /\ Forgets /\ conn' \in {0, conn} /\ Raises(t)
    BY <1>4, <2>1, DropIsSafe DEF TerminateEnds
  <2> QED BY <2>2, EndThreads, SoleKept
<1> QED BY <1>1, <1>2, <1>3, <1>4, SoleRequest, SoleAssigns, SoleSpawns, SoleConnects, SoleMisses
        DEF ThreadStep

LEMMA SoleStep ==
  ASSUME Typed, Sole, Stopped, [Next]_vars
  PROVE  Sole'
<1>1. ASSUME NEW c \in Callers, NEW t \in Threads, AcquireLock(c, t) PROVE Sole'
  <2>1. \A u \in Threads : thread'[u] = thread[u] \/
          (thread'[u].pc = "request" /\ thread'[u].worker = 0)
    BY <1>1 DEF AcquireLock, OpenRequest, Typed, WorkerTypeOK
  <2>2. \A u \in Threads : Moves(u)
    BY <2>1 DEF Moves
  <2> QED BY <1>1, <2>2, SoleKept DEF AcquireLock, workerVars, Forgets
<1>2. ASSUME NEW c \in Callers, Abandon(c) PROVE Sole'
  <2>1. \A u \in Threads : thread'[u].worker = thread[u].worker /\ thread'[u].pc = thread[u].pc
    BY <1>2 DEF Abandon, Typed, WorkerTypeOK, ThreadStates
  <2>2. \A u \in Threads : Moves(u)
    BY <2>1 DEF Moves
  <2> QED BY <1>2, <2>2, SoleKept DEF Abandon, workerVars, Forgets
<1>3. ASSUME UNCHANGED <<thread, handle, conn, generation, missed>>, alive' \subseteq alive
      PROVE  Sole'
  BY <1>3, SoleKept DEF Moves, Forgets
<1>4. CASE StopEnds
  <2>1. /\ closer.worker \in alive => closer.worker \in missed
        /\ DropWorker(closer.worker) /\ UNCHANGED thread
    BY <1>4 DEF StopEnds, CloseEnds, Stopped
  <2> QED BY <2>1, DropIsSafe, SoleKept DEF Moves
<1>5. CASE \E c \in Callers : CallStep(c) \/ \E op \in {"SEND", "RECEIVE"} : Call(c, op)
  BY <1>1, <1>2, <1>3, <1>5 DEF CallStep, GiveUpLock, Call, workerVars
<1>6. CASE CloseCalled \/ CloseStep \/ CoolsDown
  BY <1>3, <1>4, <1>6
     DEF CloseCalled, CloseStep, CoolsDown, CloseAcquires, CloseGivesUp, CloseEnds,
         StopFindsNothing, StopAsks, StopForces, StopAnswered, StopKills, KillWorker,
         StopFindsItKilled, workerVars
<1>7. CASE WorkerStep \/ WorkerDies
  BY <1>3, <1>7 DEF WorkerStep, WorkerDies, WorkerOpens, WorkerTransmits, WorkerReceives,
                    WorkerRaises, WorkerStops, Answer
<1>8. CASE UNCHANGED vars
  BY <1>3, <1>8 DEF vars, workerVars
<1> QED BY <1>5, <1>6, <1>7, <1>8, SoleThreadStep DEF Next

LEMMA StoppedStep ==
  ASSUME Typed, Sole, Stopped, [Next]_vars
  PROVE  Stopped'
<1>1. 0 \notin alive /\ closer \in Closers
  BY DEF Typed, WorkerTypeOK, Workers
<1>2. ASSUME UNCHANGED <<closer, refusing>>, alive' \subseteq alive, missed \subseteq missed',
             LockFree => LockFree'
      PROVE  Stopped'
  BY <1>2 DEF Stopped
<1>3. ASSUME NEW t \in Threads, ThreadStep(t) PROVE Stopped'
  <2>1. CASE ~refusing
    <3>1. UNCHANGED <<closer, refusing>>
      BY <1>3 DEF ThreadStep, RequestRefused, RequestInCooldown, RequestToRunningWorker,
             RequestStartsWorker, AssignsProcess, StartSpawns, StartFails, StartConnects,
             StartLosesWorker, SendRequest, RequestBreaks, PollReady, PollTimesOut, RecvAnswer,
             RecvEOF, RecvOnNothing, TerminateKills, TerminateMisses, TerminateFindsNothing,
             TerminateEnds
    <3> QED BY <1>1, <2>1, <3>1 DEF Stopped, Closers
  <2>2. CASE refusing
    <3>1. LockFree
      BY <2>2 DEF Stopped
    <3>2. CASE Succeeds(t) \/ Raises(t)
      <4>1. LockFree'
        BY <3>1, <3>2, EndThreads DEF LockFree, Starting
      <4>2. UNCHANGED <<closer, refusing>> /\ alive' \subseteq alive /\ missed' = missed
        <5>1. \/ RequestRefused(t) \/ RequestInCooldown(t) \/ RequestToRunningWorker(t)
              \/ RequestBreaks(t) \/ PollReady(t) \/ PollTimesOut(t)
              \/ RecvAnswer(t) \/ RecvEOF(t) \/ RecvOnNothing(t)
              \/ TerminateKills(t) \/ TerminateFindsNothing(t) \/ TerminateEnds(t)
          BY <1>3, <2>2, <3>1
             DEF ThreadStep, RequestStartsWorker, StartSpawns, StartFails, StartConnects, Connects,
                 StartLosesWorker, TerminateMisses, LockFree, Starting
        <5> QED BY <5>1
            DEF RequestRefused, RequestInCooldown, RequestToRunningWorker, SendRequest,
                RequestBreaks, PollReady, PollTimesOut, RecvAnswer, RecvEOF, RecvOnNothing,
                TerminateKills, KillWorker, TerminateFindsNothing, TerminateEnds, DropWorker,
                workerVars
      <4> QED BY <1>2, <4>1, <4>2
    <3>3. CASE PollReady(t) \/ PollTimesOut(t) \/ RecvEOF(t) \/ TerminateKills(t)
      <4>1. \/ \E p \in {"recv", "kill"} : thread' = [thread EXCEPT ![t].pc = p]
            \/ thread' = [thread EXCEPT ![t].pc = "cleanup", ![t].worker = handle]
        BY <3>3 DEF PollReady, PollTimesOut, RecvEOF, TerminateKills
      <4>2. thread'[t].pc \in {"recv", "kill", "cleanup"} /\ \A u \in Threads \ {t} : thread'[u] = thread[u]
        BY <4>1, GoesOn, GoesOnWith, Numbers
      <4>4. LockFree'
        BY <3>1, <4>2 DEF LockFree, Starting
      <4>3. UNCHANGED <<closer, refusing>> /\ alive' \subseteq alive /\ missed' = missed
        BY <3>3 DEF PollReady, PollTimesOut, RecvEOF, TerminateKills, KillWorker, workerVars
      <4> QED BY <1>2, <4>3, <4>4
    <3> QED BY <1>3, <2>2, <3>1, <3>2, <3>3
            DEF ThreadStep, RequestRefused, RequestInCooldown, RequestToRunningWorker,
                RequestStartsWorker, StartSpawns, StartFails, StartConnects, StartLosesWorker,
                Connects, RequestBreaks, RecvAnswer, RecvOnNothing, TerminateMisses,
                TerminateFindsNothing, TerminateEnds, LockFree, Starting
  <2> QED BY <2>1, <2>2
<1>4. ASSUME NEW c \in Callers, CallStep(c) \/ \E op \in {"SEND", "RECEIVE"} : Call(c, op)
      PROVE  Stopped'
  <2>1. UNCHANGED <<closer, refusing, alive, missed>>
    BY <1>4 DEF CallStep, AcquireLock, GiveUpLock, Abandon, Call, workerVars
  <2>2. \A t \in Threads : Starting(t)' => Starting(t)
    BY <1>4 DEF CallStep, AcquireLock, OpenRequest, GiveUpLock, Abandon, Call, Starting, Typed,
                WorkerTypeOK, ThreadStates
  <2> QED BY <1>2, <2>1, <2>2 DEF LockFree
<1>5. CASE CoolsDown \/ WorkerStep \/ WorkerDies
  <2>1. UNCHANGED <<closer, refusing, missed, thread>> /\ alive' \subseteq alive
    BY <1>5 DEF CoolsDown, WorkerStep, WorkerDies, WorkerOpens, WorkerTransmits,
                WorkerReceives, WorkerRaises, WorkerStops, Answer, workerVars
  <2> QED BY <1>2, <2>1 DEF LockFree, Starting
<1>6. CASE CloseCalled \/ CloseStep
  <2>1. LockFree' = LockFree
    BY <1>6 DEF CloseCalled, CloseStep, CloseAcquires, CloseGivesUp, StopFindsNothing, StopAsks,
                StopForces, StopAnswered, StopKills, StopFindsItKilled, StopEnds, CloseEnds,
                LockFree, Starting
  <2>2. CASE CloseCalled \/ CloseAcquires \/ CloseGivesUp
    BY <1>1, <2>1, <2>2 DEF CloseCalled, CloseAcquires, CloseGivesUp, Closers, Stopped
  <2>3. CASE StopAsks \/ StopForces \/ StopAnswered
    BY <1>1, <2>1, <2>3 DEF StopAsks, StopForces, StopAnswered, Closers, Stopped
  <2>4. CASE StopFindsNothing \/ StopFindsItKilled
    <3>1. alive \subseteq missed
      BY <1>1, <2>4 DEF StopFindsNothing, StopFindsItKilled, Sole, NoOrphan
    <3> QED BY <1>1, <2>1, <2>4, <3>1
            DEF StopFindsNothing, StopFindsItKilled, CloseEnds, workerVars, Closers, Stopped
  <2>5. CASE StopKills
    <3>1. alive' \subseteq missed /\ missed' = missed
      BY <2>5 DEF StopKills, KillWorker, Sole, NoOrphan
    <3> QED BY <2>1, <2>5, <3>1 DEF StopKills, Stopped
  <2>6. CASE StopEnds
    BY <1>1, <2>1, <2>6 DEF StopEnds, CloseEnds, DropWorker, Closers, Stopped
  <2> QED BY <1>6, <2>2, <2>3, <2>4, <2>5, <2>6 DEF CloseStep
<1>7. CASE UNCHANGED vars
  BY <1>2, <1>7 DEF vars, workerVars, LockFree, Starting
<1> QED BY <1>3, <1>4, <1>5, <1>6, <1>7 DEF Next

LEMMA StartsSole == Init => Typed /\ Sole /\ Stopped
<1> SUFFICES ASSUME Init PROVE Sole /\ Stopped
  BY TypedInit
<1> QED BY DEF Init, Sole, NoOrphan, Stopped, IdleThread, Starting, LockFree

LEMMA StaysSole ==
  Typed /\ Sole /\ Stopped /\ [Next]_vars => Typed' /\ Sole' /\ Stopped'
BY TypedStep, SoleStep, StoppedStep

\* A worker process runs that the supervisor has forgotten only if a terminate met it
\* between the assignment of _process and the return of start(); apart from those at
\* most one runs, whatever threads time out late, drop handles or start a worker.
THEOREM OneWorker == Spec => []NoOrphan
<1>1. Sole => NoOrphan
  BY DEF Sole
<1> QED BY StartsSole, StaysSole, <1>1, PTL DEF Spec

\* After a close that returned none is started, and none runs but one that a terminate
\* met while it was being started.
THEOREM CloseStops == Spec => []ClosedMeansStopped
<1>1. Stopped => ClosedMeansStopped
  BY DEF Stopped, ClosedMeansStopped
<1> QED BY StartsSole, StaysSole, <1>1, PTL DEF Spec

-----------------------------------------------------------------------------
\* Whose answer is on the pipe.

Waits(t) == thread[t].pc \in {"poll", "recv"}

\* The pipe holds the request of a waiting thread or its answer, unless the worker
\* is gone.
Served(t) ==
  /\ thread[t].worker = conn \/ conn \notin alive
  /\ \/ inbox = <<thread[t].req>> /\ outbox = <<>>
     \/ /\ inbox = <<>>
        /\ \E ok \in BOOLEAN :
             /\ outbox = <<ok>>
             /\ ok /\ thread[t].req.cmd = "SEND" => thread[t].req.id \in transmitted
     \/ inbox = <<>> /\ outbox = <<>> /\ conn \notin alive
  /\ thread[t].pc = "recv" => outbox # <<>> \/ conn \notin alive

\* Requests have not crossed on the pipe, and no stop uses it.
Private == ~mixed /\ ~refusing =>
  \A t \in Threads : Waits(t) => Served(t) /\ \A u \in Threads : Waits(u) => u = t

\* Who makes a request holds the operation lock; a stop holds it too, so that no
\* caller waits for an answer once the supervisor refuses.
Guarded ==
  /\ \A c \in Callers : call[c].pc \in {"open", "main"} => holder = c
  /\ closer.pc \in {"stop", "wait", "kill", "cleanup"} => holder = "close"
  /\ refusing => \A t \in Threads : thread[t].owner # Nobody => thread[t].pc = "request"

\* A step that sends no request and reads no answer.
LEMMA PrivateKept ==
  ASSUME Private, mixed' = mixed, ~refusing' => ~refusing, transmitted \subseteq transmitted',
         \A t \in Threads : Waits(t)' =>
           /\ Waits(t) /\ thread'[t].req = thread[t].req /\ thread'[t].worker = thread[t].worker
           /\ thread'[t].pc = "recv" => thread[t].pc = "recv",
         \/ UNCHANGED <<inbox, outbox, conn>> /\ (conn \notin alive => conn \notin alive')
         \/ alive' \subseteq Workers /\ PipeCloses
  PROVE  Private'
<1> SUFFICES ASSUME ~mixed', ~refusing', NEW t \in Threads, Waits(t)'
             PROVE  Served(t)' /\ \A u \in Threads : Waits(u)' => u = t
  BY DEF Private
<1>1. Served(t) /\ \A u \in Threads : Waits(u) => u = t
  BY DEF Private
<1>2. CASE UNCHANGED <<inbox, outbox, conn>> /\ (conn \notin alive => conn \notin alive')
  BY <1>1, <1>2 DEF Served
<1>3. CASE alive' \subseteq Workers /\ PipeCloses
  <2>1. conn' \notin alive' /\ inbox' = <<>> /\ outbox' = <<>>
    BY <1>3 DEF PipeCloses, Workers
  <2> QED  BY <1>1, <2>1 DEF Served
<1> QED  BY <1>2, <1>3

\* A thread at the end of a request waits no more.
LEMMA EndWaits ==
  ASSUME Typed, NEW t \in Threads, Succeeds(t) \/ Raises(t)
  PROVE  \A u \in Threads : thread'[u].pc \notin {"poll", "recv"} \/ (u # t /\ thread'[u] = thread[u])
<1>1. thread \in [Threads -> ThreadStates]
  BY DEF Typed, WorkerTypeOK
<1>2. CASE thread' = [thread EXCEPT ![t] = IdleThread]
  BY <1>1, <1>2 DEF IdleThread
<1>3. CASE OpenReturns(t)
  <2>1. thread'[t].pc = "request"
    BY <1>1, <1>3 DEF OpenReturns, ThreadStates
  <2> QED BY <1>1, <1>3, <2>1 DEF OpenReturns
<1> QED BY <1>2, <1>3 DEF Succeeds, Raises, ReturnsToNobody, CallReturns

\* The request of a thread that nobody competes with is alone on the pipe.
LEMMA RequestIsAlone ==
  ASSUME Typed, NEW t \in Threads,
         thread' = [thread EXCEPT ![t].pc = "poll", ![t].worker = conn'],
         ~mixed' => ~Waiting(t) /\ inbox' = <<thread[t].req>> /\ outbox' = <<>>
  PROVE  Private'
<1>1. thread \in [Threads -> ThreadStates]
  BY DEF Typed, WorkerTypeOK
<1>2. /\ thread'[t].pc = "poll" /\ thread'[t].worker = conn' /\ thread'[t].req = thread[t].req
      /\ \A u \in Threads \ {t} : thread'[u] = thread[u]
  BY <1>1 DEF ThreadStates
<1>3. ~mixed' => \A u \in Threads : Waits(u)' => u = t
  BY <1>2 DEF Waiting, Waits
<1>4. ~mixed' => Served(t)'
  BY <1>2 DEF Served
<1> QED  BY <1>3, <1>4 DEF Private

\* A worker that starts is not the one whose pipe is in use.
LEMMA SpawnedApart ==
  ASSUME Typed, Sole, NEW t \in Threads, StartSpawns(t), conn \notin alive
  PROVE  conn \notin alive'
<1>1. Newest(t) /\ handle # 0 /\ alive' = alive \cup {handle}
  BY DEF StartSpawns, Sole, Starting
<1>2. conn \in Nat /\ generation \in Nat
  BY WorkerAssumption DEF Typed, WorkerTypeOK
<1> QED BY <1>1, <1>2 DEF Newest

LEMMA PrivateThreadStep ==
  ASSUME Typed, Sole, Private, NEW t \in Threads, ThreadStep(t)
  PROVE  Private'
<1>1. thread \in [Threads -> ThreadStates] /\ thread[t] \in ThreadStates /\ alive \subseteq Workers
  BY DEF Typed, WorkerTypeOK
<1>2. CASE RequestRefused(t) \/ RecvOnNothing(t) \/ TerminateFindsNothing(t) \/ StartFails(t)
  <2>1. Raises(t) /\ UNCHANGED <<workerVars, refusing, transmitted, mixed>>
    BY <1>2 DEF RequestRefused, RecvOnNothing, TerminateFindsNothing, StartFails
  <2> QED  BY <2>1, EndWaits, PrivateKept DEF Waits, workerVars
<1>3. CASE RequestInCooldown(t) \/ RequestBreaks(t)
  <2>1. /\ Raises(t) /\ UNCHANGED <<refusing, transmitted, mixed>>
        /\ alive' \subseteq alive /\ (PipeCloses \/ UNCHANGED <<conn, inbox, outbox>>)
    BY <1>3 DEF RequestInCooldown, FindsNoWorker, RequestBreaks
  <2> QED  BY <1>1, <2>1, EndWaits, PrivateKept DEF Waits
<1>4. CASE RequestToRunningWorker(t)
  <2>1. thread' = [thread EXCEPT ![t].pc = "poll", ![t].worker = conn'] /\ outbox' = outbox
    BY <1>4 DEF RequestToRunningWorker, SendRequest
  <2>2. ~mixed' => ~Waiting(t) /\ inbox = <<>> /\ outbox = <<>>
    BY <1>4 DEF RequestToRunningWorker
  <2>3. inbox = <<>> => inbox' = <<thread[t].req>>
    BY <1>4 DEF RequestToRunningWorker
  <2> QED  BY <2>1, <2>2, <2>3, RequestIsAlone
<1>5. CASE StartConnects(t)
  <2>1. /\ thread' = [thread EXCEPT ![t].pc = "poll", ![t].worker = conn']
        /\ inbox' = <<thread[t].req>> /\ outbox' = <<>> /\ mixed' = Waiting(t)
    BY <1>5 DEF StartConnects, Connects, SendRequest
  <2> QED  BY <2>1, RequestIsAlone
<1>10. CASE StartLosesWorker(t)
  <2>1. Raises(t) /\ mixed' = Waiting(t)
    BY <1>10 DEF StartLosesWorker, Connects
  <2>2. ~mixed' => \A u \in Threads : ~Waits(u)'
    BY <2>1, EndWaits DEF Waiting, Waits
  <2> QED  BY <2>2 DEF Private
<1>11. CASE RequestStartsWorker(t)
  <2>1. /\ thread' = [thread EXCEPT ![t].pc = "start", ![t].worker = generation + 1]
        /\ UNCHANGED <<refusing, transmitted, mixed, alive>>
        /\ PipeCloses \/ UNCHANGED <<conn, inbox, outbox>>
    BY <1>11 DEF RequestStartsWorker, AssignsProcess, FindsNoWorker
  <2>2. \A u \in Threads : Waits(u)' => u # t /\ thread'[u] = thread[u]
    <3>1. thread'[t].pc = "start" /\ \A u \in Threads \ {t} : thread'[u] = thread[u]
      <4>1. generation + 1 \in Nat
        BY Numbers
      <4> QED BY <2>1, <4>1, GoesOnWith
    <3> QED BY <3>1 DEF Waits
  <2> QED  BY <1>1, <2>1, <2>2, PrivateKept DEF Waits
<1>12. CASE StartSpawns(t)
  <2>1. /\ thread' = [thread EXCEPT ![t].pc = "spawn"]
        /\ UNCHANGED <<refusing, transmitted, mixed, conn, inbox, outbox>>
    BY <1>12 DEF StartSpawns
  <2>2. \A u \in Threads : Waits(u)' => u # t /\ thread'[u] = thread[u]
    <3>1. thread'[t].pc = "spawn" /\ \A u \in Threads \ {t} : thread'[u] = thread[u]
      BY <2>1, GoesOn
    <3> QED BY <3>1 DEF Waits
  <2> QED  BY <1>12, <2>1, <2>2, SpawnedApart, PrivateKept DEF Waits
<1>6. CASE PollReady(t)
  <2>1. /\ thread' = [thread EXCEPT ![t].pc = "recv"] /\ thread[t].pc = "poll"
        /\ UNCHANGED <<workerVars, refusing, transmitted, mixed>>
        /\ outbox # <<>> \/ thread[t].worker # conn \/ conn \notin alive
    BY <1>6 DEF PollReady
  <2>2. \A u \in Threads : /\ thread'[u].req = thread[u].req
                           /\ thread'[u].worker = thread[u].worker
                           /\ Waits(u)' = Waits(u)
                           /\ u # t => thread'[u] = thread[u]
    BY <1>1, <2>1 DEF ThreadStates, Waits
  <2>3. UNCHANGED <<conn, alive>>
    BY <2>1 DEF workerVars
  <2>4. ASSUME ~mixed', ~refusing', NEW u \in Threads, Waits(u)'
        PROVE  Served(u)' /\ \A v \in Threads : Waits(v)' => v = u
    <3>1. Served(u) /\ u = t
      BY <2>1, <2>2, <2>4 DEF Private, Waits
    <3>2. UNCHANGED <<inbox, outbox, transmitted>>
      BY <2>1 DEF workerVars
    <3>3. outbox # <<>> \/ conn \notin alive
      BY <2>1, <3>1 DEF Served
    <3>4. Served(u)'
      BY <2>2, <2>3, <3>1, <3>2, <3>3 DEF Served
    <3> QED  BY <2>1, <2>2, <2>4, <3>4 DEF Private
  <2> QED  BY <2>4 DEF Private
<1>7. CASE PollTimesOut(t) \/ RecvEOF(t) \/ TerminateKills(t) \/ TerminateMisses(t)
  <2>1. \A u \in Threads : Waits(u)' => u # t /\ thread'[u] = thread[u]
    BY <1>1, <1>7 DEF PollTimesOut, RecvEOF, TerminateKills, TerminateMisses, Waits, ThreadStates
  <2>2. UNCHANGED <<inbox, outbox, conn, refusing, transmitted, mixed>> /\ alive' \subseteq alive
    BY <1>7 DEF PollTimesOut, RecvEOF, TerminateKills, TerminateMisses, KillWorker, workerVars
  <2> QED  BY <2>1, <2>2, PrivateKept DEF Waits
<1>8. CASE RecvAnswer(t)
  <2>1. (Succeeds(t) \/ Raises(t)) /\ thread[t].pc = "recv" /\ UNCHANGED <<refusing, mixed>>
    BY <1>8 DEF RecvAnswer
  <2>2. ~mixed' /\ ~refusing' => \A u \in Threads : ~Waits(u)'
    BY <2>1, EndWaits DEF Private, Waits
  <2> QED  BY <2>2 DEF Private
<1>9. CASE TerminateEnds(t)
  <2>1. Raises(t) /\ DropWorker(thread[t].worker) /\ UNCHANGED <<refusing, transmitted, mixed>>
    BY <1>9 DEF TerminateEnds
  <2>2. alive' \subseteq Workers /\ alive' = alive /\ (UNCHANGED <<inbox, outbox, conn>> \/ PipeCloses)
    BY <1>1, <2>1 DEF DropWorker
  <2> QED  BY <2>1, <2>2, EndWaits, PrivateKept DEF Waits
<1> QED BY <1>2, <1>3, <1>4, <1>5, <1>6, <1>7, <1>8, <1>9, <1>10, <1>11, <1>12 DEF ThreadStep

\* The worker answers the request that is alone on the pipe.
LEMMA PrivateAnswer ==
  ASSUME Typed, Private, NEW ok \in BOOLEAN, Answer(ok),
         ok /\ Head(inbox).cmd = "SEND" => Head(inbox).id \in transmitted',
         transmitted \subseteq transmitted', alive' \subseteq alive
  PROVE  Private'
<1>1. /\ UNCHANGED <<thread, conn, refusing, mixed>>
      /\ inbox # <<>> /\ inbox' = Tail(inbox) /\ outbox' = Append(outbox, ok)
  BY DEF Answer
<1> SUFFICES ASSUME ~mixed', ~refusing', NEW t \in Threads, Waits(t)'
             PROVE  Served(t)' /\ \A u \in Threads : Waits(u)' => u = t
  BY DEF Private
<1>2. Served(t) /\ \A u \in Threads : Waits(u) => u = t
  BY <1>1 DEF Private, Waits
<1>3. inbox = <<thread[t].req>> /\ outbox = <<>>
  BY <1>1, <1>2 DEF Served
<1>4. inbox' = <<>> /\ outbox' = <<ok>> /\ Head(inbox) = thread[t].req
  BY <1>1, <1>3
<1>5. conn \notin alive => conn' \notin alive'
  BY <1>1
<1>6. outbox' # <<>>
  BY <1>4
<1>7. Served(t)'
  BY <1>1, <1>2, <1>4, <1>5, <1>6 DEF Served
<1> QED  BY <1>1, <1>2, <1>7 DEF Waits

LEMMA PrivateStep ==
  ASSUME Typed, Sole, Stopped, Private, [Next]_vars
  PROVE  Private'
<1>1. thread \in [Threads -> ThreadStates] /\ alive \subseteq Workers /\ transmitted \subseteq transmitted
  BY DEF Typed, WorkerTypeOK
<1>2. ASSUME UNCHANGED <<thread, inbox, outbox, conn, transmitted, mixed>>, alive' \subseteq alive,
             ~refusing' => ~refusing
      PROVE  Private'
  BY <1>2, PrivateKept DEF Waits
<1>3. ASSUME NEW c \in Callers, NEW t \in Threads, AcquireLock(c, t) PROVE Private'
  <2>1. \A u \in Threads : Waits(u)' => u # t /\ thread'[u] = thread[u]
    BY <1>1, <1>3 DEF AcquireLock, OpenRequest, Waits
  <2> QED  BY <1>3, <2>1, PrivateKept DEF AcquireLock, workerVars, Waits
<1>4. ASSUME NEW c \in Callers, Abandon(c) PROVE Private'
  <2>1. \A u \in Threads : /\ thread'[u].worker = thread[u].worker /\ thread'[u].pc = thread[u].pc
                           /\ thread'[u].req = thread[u].req
    BY <1>1, <1>4 DEF Abandon, ThreadStates
  <2> QED  BY <1>4, <2>1, PrivateKept DEF Abandon, workerVars, Waits
<1>5. CASE \E c \in Callers : CallStep(c) \/ \E op \in {"SEND", "RECEIVE"} : Call(c, op)
  BY <1>2, <1>3, <1>4, <1>5 DEF CallStep, GiveUpLock, Call, workerVars
<1>6. CASE CloseCalled \/ CloseStep
  <2>1. CASE StopFindsNothing \/ StopAsks \/ StopForces
    BY <2>1 DEF StopFindsNothing, StopAsks, StopForces, Private
  <2>2. CASE StopAnswered \/ StopKills \/ StopFindsItKilled \/ StopEnds
    <3>1. refusing /\ refusing' = refusing
      BY <2>2 DEF StopAnswered, StopKills, StopFindsItKilled, StopEnds, Stopped
    <3> QED  BY <3>1 DEF Private
  <2>3. CASE CloseCalled \/ CloseAcquires \/ CloseGivesUp
    BY <1>2, <2>3 DEF CloseCalled, CloseAcquires, CloseGivesUp, workerVars
  <2> QED  BY <1>6, <2>1, <2>2, <2>3 DEF CloseStep
<1>7. CASE WorkerStep
  <2>1. CASE WorkerOpens
    BY <2>1, PrivateAnswer DEF WorkerOpens
  <2>2. CASE WorkerTransmits
    BY <2>2, PrivateAnswer DEF WorkerTransmits
  <2>3. CASE WorkerReceives
    BY <2>3, PrivateAnswer DEF WorkerReceives
  <2>4. CASE WorkerRaises
    BY <2>4, PrivateAnswer DEF WorkerRaises
  <2>5. CASE WorkerStops
    BY <2>5, PrivateAnswer DEF WorkerStops
  <2> QED  BY <1>7, <2>1, <2>2, <2>3, <2>4, <2>5 DEF WorkerStep
<1>8. CASE WorkerDies \/ CoolsDown \/ UNCHANGED vars
  BY <1>2, <1>8 DEF WorkerDies, CoolsDown, vars, workerVars
<1>9. CASE \E t \in Threads : ThreadStep(t)
  BY <1>9, PrivateThreadStep
<1> QED BY <1>5, <1>6, <1>7, <1>8, <1>9 DEF Next

\* The end of a request releases the lock of its own call.
LEMMA GuardedEnd ==
  ASSUME Typed, Guarded, NEW t \in Threads, Succeeds(t) \/ Raises(t), UNCHANGED <<refusing, closer>>
  PROVE  Guarded'
<1> DEFINE c == thread[t].owner
<1>1. /\ thread \in [Threads -> ThreadStates] /\ call \in [Callers -> Calls]
      /\ c \in Callers \cup {Nobody}
  BY DEF Typed, WorkerTypeOK, ThreadStates
<1>2. c # Nobody => c \in Callers /\ holder = c
  BY <1>1 DEF Typed, Numbered, Owned, Guarded
<1>3. c # Nobody => c # "close" /\ closer.pc \notin {"stop", "wait", "kill", "cleanup"}
  BY <1>2, WorkerAssumption DEF Guarded
<1>4. CASE ReturnsToNobody(t)
  BY <1>1, <1>4 DEF ReturnsToNobody, Guarded, IdleThread
<1>5. CASE OpenReturns(t)
  <2>1. c # Nobody /\ holder' = holder /\ call' = [call EXCEPT ![c].pc = "main"]
    BY <1>5 DEF OpenReturns
  <2>2. /\ thread'[t].pc = "request"
        /\ \A u \in Threads \ {t} : thread'[u] = thread[u]
    BY <1>1, <1>5 DEF OpenReturns, ThreadStates
  <2>3. \A d \in Callers : d # c => call'[d] = call[d]
    BY <1>1, <2>1
  <2> QED  BY <1>2, <2>1, <2>2, <2>3 DEF Guarded
<1>6. ASSUME NEW sends, CallReturns(t, sends) PROVE Guarded'
  <2>1. /\ c # Nobody /\ holder' = Nobody
        /\ thread' = [thread EXCEPT ![t] = IdleThread] /\ call' = [call EXCEPT ![c] = IdleCall]
    BY <1>6 DEF CallReturns
  <2>2. \A d \in Callers : call'[d].pc \notin {"open", "main"}
    BY <1>1, <1>2, <2>1 DEF Guarded, IdleCall
  <2>3. \A u \in Threads : thread'[u].owner # Nobody => thread'[u] = thread[u]
    BY <1>1, <2>1 DEF IdleThread
  <2> QED  BY <1>3, <2>1, <2>2, <2>3 DEF Guarded
<1> QED BY <1>4, <1>5, <1>6 DEF Succeeds, Raises

LEMMA GuardedThreadStep ==
  ASSUME Typed, Guarded, NEW t \in Threads, ThreadStep(t)
  PROVE  Guarded'
<1>1. thread \in [Threads -> ThreadStates]
  BY DEF Typed, WorkerTypeOK
<1>2. CASE Succeeds(t) \/ Raises(t)
  <2>1. UNCHANGED <<refusing, closer>>
    BY DEF ThreadStep, RequestRefused, RequestInCooldown, RequestToRunningWorker,
           RequestStartsWorker, AssignsProcess, StartSpawns, StartFails, StartConnects,
           StartLosesWorker, SendRequest, RequestBreaks, PollReady, PollTimesOut, RecvAnswer,
           RecvEOF, RecvOnNothing, TerminateKills, TerminateMisses, TerminateFindsNothing,
           TerminateEnds
  <2> QED BY <1>2, <2>1, GuardedEnd
<1>3. CASE RequestToRunningWorker(t)
  BY <1>3 DEF RequestToRunningWorker, SendRequest, callVars, Guarded
<1>5. CASE RequestStartsWorker(t)
  BY <1>5 DEF RequestStartsWorker, AssignsProcess, callVars, Guarded
<1>4. CASE \/ PollReady(t) \/ PollTimesOut(t) \/ RecvEOF(t)
           \/ TerminateKills(t) \/ TerminateMisses(t) \/ StartSpawns(t) \/ StartConnects(t)
  <2>1. UNCHANGED <<holder, call, refusing, closer>> /\ thread[t].pc # "request"
    BY <1>4 DEF PollReady, PollTimesOut, RecvEOF, TerminateKills, TerminateMisses, StartSpawns,
                StartConnects, Connects, SendRequest, callVars
  <2>2. \A u \in Threads : thread'[u].owner = thread[u].owner /\ (u # t => thread'[u] = thread[u])
    <3>1. \/ \E p \in {"recv", "kill", "spawn"} : thread' = [thread EXCEPT ![t].pc = p]
          \/ thread' = [thread EXCEPT ![t].pc = "cleanup", ![t].worker = handle]
          \/ thread' = [thread EXCEPT ![t].pc = "poll", ![t].worker = thread[t].worker]
      BY <1>4 DEF PollReady, PollTimesOut, RecvEOF, TerminateKills, TerminateMisses, StartSpawns,
                  StartConnects, SendRequest
    <3> QED BY <3>1, GoesOn, GoesOnWith, Numbers
  <2> QED  BY <2>1, <2>2 DEF Guarded
<1> QED BY <1>2, <1>3, <1>4, <1>5
        DEF ThreadStep, RequestRefused, RequestInCooldown, RequestBreaks, RecvAnswer,
            RecvOnNothing, TerminateFindsNothing, TerminateEnds, StartFails, StartLosesWorker

LEMMA GuardedStep == Typed /\ Guarded /\ [Next]_vars => Guarded'
<1> SUFFICES ASSUME Typed, Guarded, [Next]_vars PROVE Guarded'
  OBVIOUS
<1>1. /\ thread \in [Threads -> ThreadStates] /\ call \in [Callers -> Calls]
      /\ closer \in Closers /\ Nobody \notin Callers /\ "close" \notin Callers /\ Nobody # "close"
  BY WorkerAssumption DEF Typed, WorkerTypeOK
<1>2. CASE \E t \in Threads : ThreadStep(t)
  BY <1>2, GuardedThreadStep
<1>3. CASE UNCHANGED <<holder, call, thread, refusing, closer>>
  BY <1>3 DEF Guarded
<1>4. CASE CoolsDown \/ WorkerStep \/ WorkerDies \/ UNCHANGED vars
  BY <1>3, <1>4 DEF CoolsDown, WorkerStep, WorkerOpens, WorkerTransmits, WorkerReceives,
                    WorkerRaises, WorkerStops, Answer, WorkerDies, vars, callVars
<1>5. ASSUME NEW c \in Callers, CallStep(c) \/ \E op \in {"SEND", "RECEIVE"} : Call(c, op)
      PROVE  Guarded'
  <2>1. CASE GiveUpLock(c) \/ \E op \in {"SEND", "RECEIVE"} : Call(c, op)
    <3>1. /\ UNCHANGED <<holder, thread, refusing, closer>>
          /\ \A d \in Callers : call'[d].pc \in {"open", "main"} => call'[d] = call[d]
      BY <1>1, <2>1 DEF GiveUpLock, Call, IdleCall
    <3> QED  BY <3>1 DEF Guarded
  <2>2. ASSUME NEW t \in Threads, AcquireLock(c, t) PROVE Guarded'
    <3>1. /\ holder = Nobody /\ holder' = c /\ UNCHANGED <<refusing, closer>>
          /\ \A d \in Callers : d # c => call'[d] = call[d]
          /\ thread'[t].pc = "request"
          /\ \A u \in Threads : u # t => thread'[u] = thread[u]
      BY <1>1, <2>2 DEF AcquireLock, OpenRequest
    <3> QED  BY <1>1, <3>1 DEF Guarded
  <2>3. CASE Abandon(c)
    <3>1. /\ holder = c /\ holder' = Nobody /\ UNCHANGED <<refusing, closer>>
          /\ \A d \in Callers : d # c => call'[d] = call[d]
          /\ call'[c].pc \notin {"open", "main"}
      BY <1>1, <2>3 DEF Abandon, Guarded, IdleCall
    <3>2. \A u \in Threads : thread'[u].owner # Nobody => thread'[u] = thread[u]
      BY <1>1, <2>3 DEF Abandon, ThreadStates
    <3> QED  BY <1>1, <3>1, <3>2 DEF Guarded
  <2> QED  BY <1>5, <2>1, <2>2, <2>3 DEF CallStep
<1>6. CASE CloseCalled \/ CloseStep
  <2>1. UNCHANGED <<call, thread>>
    BY <1>6 DEF CloseCalled, CloseStep, CloseAcquires, CloseGivesUp, StopFindsNothing, StopAsks,
                StopForces, StopAnswered, StopKills, StopFindsItKilled, StopEnds, CloseEnds, callVars
  <2>2. CASE CloseCalled \/ CloseAcquires \/ CloseGivesUp
    BY <1>1, <2>1, <2>2 DEF CloseCalled, CloseAcquires, CloseGivesUp, callVars, Guarded, Closers
  <2>3. ASSUME holder = "close" PROVE \A c \in Callers : call[c].pc \notin {"open", "main"}
    BY <1>1, <2>3 DEF Guarded
  <2>4. ASSUME holder = "close" PROVE \A t \in Threads : thread[t].owner = Nobody
    BY <1>1, <2>3, <2>4 DEF Typed, Numbered, Owned, ThreadStates
  <2>5. CASE StopAsks \/ StopForces \/ StopAnswered \/ StopKills
    <3>1. holder' = holder /\ holder = "close"
      BY <2>5 DEF StopAsks, StopForces, StopAnswered, StopKills, callVars, Guarded
    <3> QED  BY <2>1, <2>3, <2>4, <3>1 DEF Guarded
  <2>6. CASE StopFindsNothing \/ StopFindsItKilled \/ StopEnds
    <3>1. holder = "close" /\ closer'.pc = "closed"
      BY <1>1, <2>6 DEF StopFindsNothing, StopFindsItKilled, StopEnds, CloseEnds, Guarded, Closers
    <3> QED  BY <2>1, <2>3, <2>4, <3>1 DEF Guarded
  <2> QED  BY <1>6, <2>2, <2>5, <2>6 DEF CloseStep
<1> QED BY <1>2, <1>4, <1>5, <1>6 DEF Next

\* Who makes a request holds the operation lock, and it is free after its call.
LEMMA StartsPrivate == Init => Private /\ Guarded
BY DEF Init, Private, Guarded, Waits, IdleCall, IdleThread

LEMMA StaysPrivate ==
  Typed /\ Sole /\ Stopped /\ Private /\ Guarded /\ [Next]_vars => Private' /\ Guarded'
BY PrivateStep, GuardedStep

\* Only the answer to a SEND makes a send return, and it says that the payload of
\* this send went on the air.
LEMMA ReturnIsTrue ==
  Typed /\ Private /\ Guarded /\ [Next]_vars
    => [returned' \subseteq returned \cup transmitted \/ mixed]_vars
<1> SUFFICES ASSUME Typed, Private, Guarded, Next, ~mixed
             PROVE  returned' \subseteq returned \cup transmitted
  OBVIOUS
<1>1. CASE returned' = returned
  BY <1>1
<1>2. ASSUME NEW t \in Threads, Raises(t) PROVE returned' = returned
  BY <1>2 DEF Raises, ReturnsToNobody, CallReturns
<1>3. ASSUME NEW t \in Threads, RecvAnswer(t) PROVE returned' \subseteq returned \cup transmitted
  <2>1. CASE ~Head(outbox)
    BY <1>2, <1>3, <2>1 DEF RecvAnswer
  <2>2. CASE Head(outbox) /\ (ReturnsToNobody(t) \/ OpenReturns(t) \/ CallReturns(t, {}))
    BY <2>2 DEF ReturnsToNobody, OpenReturns, CallReturns
  <2>3. CASE Head(outbox) /\ thread[t].req.cmd = "SEND" /\ CallReturns(t, {thread[t].req.id})
    <3>1. thread[t].pc = "recv" /\ outbox # <<>> /\ thread[t].owner # Nobody
      BY <1>3, <2>3 DEF RecvAnswer, CallReturns
    <3>2. ~refusing
      BY <3>1 DEF Guarded
    <3>3. Served(t)
      BY <3>1, <3>2 DEF Private, Waits
    <3>4. PICK ok \in BOOLEAN :
            /\ outbox = <<ok>>
            /\ ok /\ thread[t].req.cmd = "SEND" => thread[t].req.id \in transmitted
      <4>1. outbox # <<>>
        BY <3>1
      <4> QED  BY <3>3, <4>1 DEF Served
    <3>5. Head(outbox) = ok
      BY <3>4
    <3> QED  BY <2>3, <3>4, <3>5 DEF CallReturns
  <2> QED  BY <1>3, <2>1, <2>2, <2>3 DEF RecvAnswer, Succeeds
<1>4. CASE \E t \in Threads : ThreadStep(t)
  BY <1>1, <1>2, <1>3, <1>4
     DEF ThreadStep, RequestRefused, RequestInCooldown, RequestToRunningWorker,
         RequestStartsWorker, AssignsProcess, StartSpawns, StartFails, StartConnects,
         StartLosesWorker, SendRequest, RequestBreaks, PollReady, PollTimesOut, RecvEOF,
         RecvOnNothing, TerminateKills, TerminateMisses, TerminateFindsNothing, TerminateEnds,
         callVars
<1>5. CASE \E c \in Callers : CallStep(c) \/ \E op \in {"SEND", "RECEIVE"} : Call(c, op)
  BY <1>1, <1>5 DEF CallStep, AcquireLock, GiveUpLock, Abandon, Call
<1>6. CASE CoolsDown \/ WorkerStep \/ WorkerDies
  BY <1>1, <1>6 DEF CoolsDown, WorkerStep, WorkerOpens, WorkerTransmits, WorkerReceives,
                    WorkerRaises, WorkerStops, Answer, WorkerDies, callVars
<1>7. CASE CloseCalled \/ CloseStep
  BY <1>1, <1>7
     DEF CloseCalled, CloseStep, CloseAcquires, CloseGivesUp, StopFindsNothing, StopAsks,
         StopForces, StopAnswered, StopKills, StopFindsItKilled, StopEnds, CloseEnds, callVars
<1> QED BY <1>4, <1>5, <1>6, <1>7 DEF Next

\* A thread that poll has told of an answer does not wait for it: nobody else takes
\* it, as long as requests have not crossed and no stop reads the pipe.
THEOREM RecvFindsItsAnswer == Spec => []RecvDoesNotBlock
<1>1. Private => RecvDoesNotBlock
  BY DEF Private, RecvDoesNotBlock, Waits, Served
<1> QED BY StartsSole, StaysSole, StartsPrivate, StaysPrivate, <1>1, PTL DEF Spec

\* A send that returns has been transmitted, whichever calls were abandoned and
\* whichever workers died before it, as long as requests have not crossed.
THEOREM SendsAreTruthful == Spec => SendIsTruthful
BY StartsSole, StaysSole, StartsPrivate, StaysPrivate, ReturnIsTrue, PTL DEF Spec, SendIsTruthful

=============================================================================
