---------------------- MODULE EndpointReceptionProofs ----------------------
(***************************************************************************)
(* What EndpointReception promises at every step, proved for every set of  *)
(* captures, every backlog and every number of outages.                    *)
(***************************************************************************)
EXTENDS EndpointReception, SequenceTheorems, TLAPS

Modes    == {"off", "strict", "raw"}
Policies == [op : {"set_active_listening"}, mode : Modes]
Calls    == {Stop, Tx} \cup Policies
HeardFrames == [capture : Captures, fresh : BOOLEAN]
Messages == HeardFrames \cup {Result}

SendSteps == {"idle", "entry_stop", "connect", "stop", "tx", "restore"}
Sends     == [pc : SendSteps, service : BOOLEAN, restore : BOOLEAN, ok : BOOLEAN, cancel : BOOLEAN]
Confirmations == [pc : {"idle", "recv", "end"}, cancel : BOOLEAN]
Backends  == [connected : BOOLEAN, listening : BOOLEAN, extended : BOOLEAN]
Histories == [stale : BOOLEAN, cut : BOOLEAN, late : BOOLEAN]

ReceptionTypeOK ==
  /\ phase \in {"open", "unloading", "stopping", "closed"}
  /\ enabled \in BOOLEAN /\ open \in BOOLEAN
  /\ backend \in Backends
  /\ queue \in Seq(HeardFrames)
  /\ snd \in Sends
  /\ cnf \in Confirmations
  /\ lst \in {"off", "recv", "connect"}
  /\ syn \in {"sleep", "policy", "connect", "over"}
  /\ observed \in {NoState} \cup [remote : Remotes, state : States \cup {NoState}]
  /\ calls \in Seq(Calls) /\ wire \in Seq(Messages)
  /\ link \in {"absent", "down", "up"}
  /\ mode \in Modes
  /\ history \in Histories

-----------------------------------------------------------------------------
\* Calls and messages.

LEMMA CallsDiffer ==
  /\ Stop # Tx
  /\ \A p \in Policies : p # Tx /\ p # Stop
<1>1. Stop.op # Tx.op
  BY DEF Stop, Tx
<1>2. \A p \in Policies : p.op # Tx.op /\ p.op # Stop.op
  BY DEF Policies, Tx, Stop
<1> QED  BY <1>1, <1>2

LEMMA FramesAreNoResults == \A f \in HeardFrames : f # Result
<1>1. ASSUME NEW f \in HeardFrames PROVE "fresh" \in DOMAIN f
  BY DEF HeardFrames
<1>2. "fresh" \notin DOMAIN Result
  BY DEF Result
<1> QED  BY <1>1, <1>2

LEMMA PolicyIsCall == \A on \in BOOLEAN : Policy(on) \in Policies
BY DEF Policy, Policies, Modes

\* What a call leaves on the way.
LEMMA CallAppends ==
  ASSUME NEW c, Call(c)
  PROVE  calls' \in {calls, Append(calls, c)} /\ (~Up => calls' = calls)
BY DEF Call

LEMMA CallTyped ==
  ASSUME NEW c \in Calls, calls \in Seq(Calls), Call(c)
  PROVE  calls' \in Seq(Calls)
BY AppendProperties DEF Call

LEMMA PolicyTyped ==
  ASSUME NEW on \in BOOLEAN, calls \in Seq(Calls), queue \in Seq(HeardFrames),
         set_active_listening(on)
  PROVE  calls' \in Seq(Calls) /\ queue' \in Seq(HeardFrames)
<1>1. Policy(on) \in Calls
  BY PolicyIsCall DEF Calls
<1>2. calls' \in Seq(Calls)
  BY <1>1, CallTyped DEF set_active_listening
<1> QED  BY <1>2 DEF set_active_listening

LEMMA ConnectTyped ==
  ASSUME ReceptionTypeOK, connect
  PROVE  open' \in BOOLEAN /\ calls' \in Seq(Calls) /\ queue' \in Seq(HeardFrames)
<1>1. backend.listening \in BOOLEAN
  BY DEF ReceptionTypeOK, Backends
<1>2. open' \in BOOLEAN
  BY DEF connect
<1>3. CASE link = "absent"
  BY <1>2, <1>3 DEF connect, ReceptionTypeOK
<1>4. CASE link # "absent"
  BY <1>1, <1>2, <1>4, PolicyTyped DEF connect, ReceptionTypeOK
<1> QED  BY <1>3, <1>4

LEMMA StopTyped ==
  ASSUME ReceptionTypeOK, stop_rx
  PROVE  calls' \in Seq(Calls) /\ queue' \in Seq(HeardFrames)
<1>1. Stop \in Calls
  BY DEF Calls
<1>2. calls \in Seq(Calls) /\ queue \in Seq(HeardFrames) /\ <<>> \in Seq(HeardFrames)
  BY DEF ReceptionTypeOK
<1>3. CASE open /\ Up
  <2>1. Call(Stop) /\ queue' = <<>>
    BY <1>3 DEF stop_rx
  <2> QED  BY <2>1, <1>1, <1>2, CallTyped
<1>4. CASE ~(open /\ Up)
  BY <1>2, <1>4 DEF stop_rx
<1> QED  BY <1>3, <1>4

LEMMA OldTyped ==
  /\ \A w \in Seq(Messages) : Old(w) \in Seq(Messages) /\ Len(Old(w)) = Len(w)
  /\ \A q \in Seq(HeardFrames) : Old(q) \in Seq(HeardFrames) /\ Len(Old(q)) = Len(q)
<1>1. ASSUME NEW f \in HeardFrames PROVE [f EXCEPT !.fresh = FALSE] \in HeardFrames
  BY DEF HeardFrames
<1>2. ASSUME NEW w \in Seq(Messages) PROVE Old(w) \in Seq(Messages) /\ Len(Old(w)) = Len(w)
  <2>1. w = [i \in 1..Len(w) |-> w[i]] /\ Len(w) \in Nat /\ DOMAIN w = 1..Len(w)
    OBVIOUS
  <2>2. ASSUME NEW i \in 1..Len(w)
        PROVE  (IF w[i] = Result THEN w[i] ELSE [w[i] EXCEPT !.fresh = FALSE]) \in Messages
    <3>1. w[i] \in Messages
      BY ElementOfSeq
    <3> QED  BY <3>1, <1>1 DEF Messages
  <2> QED  BY <2>1, <2>2 DEF Old
<1>3. ASSUME NEW q \in Seq(HeardFrames)
      PROVE  Old(q) \in Seq(HeardFrames) /\ Len(Old(q)) = Len(q)
  <2>1. Len(q) \in Nat /\ DOMAIN q = 1..Len(q)
    OBVIOUS
  <2>2. ASSUME NEW i \in 1..Len(q)
        PROVE  (IF q[i] = Result THEN q[i] ELSE [q[i] EXCEPT !.fresh = FALSE]) \in HeardFrames
    <3>1. q[i] \in HeardFrames
      BY ElementOfSeq
    <3> QED  BY <3>1, <1>1
  <2> QED  BY <2>1, <2>2 DEF Old
<1> QED  BY <1>2, <1>3

-----------------------------------------------------------------------------
\* Types.

LEMMA UpdatesTyped ==
  /\ Idle \in Sends /\ NoConfirmation \in Confirmations
  /\ \A s \in Sends, pc \in SendSteps, b \in BOOLEAN :
       /\ [s EXCEPT !.pc = pc] \in Sends /\ [s EXCEPT !.cancel = b] \in Sends
       /\ [s EXCEPT !.pc = pc, !.service = b] \in Sends
       /\ [s EXCEPT !.pc = pc, !.restore = b] \in Sends
       /\ [s EXCEPT !.pc = pc, !.ok = b] \in Sends
  /\ \A c \in Confirmations : [c EXCEPT !.cancel = TRUE] \in Confirmations /\ [c EXCEPT !.pc = "end"] \in Confirmations
  /\ [pc |-> "recv", cancel |-> FALSE] \in Confirmations
  /\ \A b \in Backends, on \in BOOLEAN :
       /\ [b EXCEPT !.listening = on] \in Backends /\ [b EXCEPT !.connected = on] \in Backends
       /\ [b EXCEPT !.connected = FALSE, !.listening = FALSE] \in Backends
  /\ \A h \in Histories, b \in BOOLEAN :
       /\ [h EXCEPT !.stale = b] \in Histories /\ [h EXCEPT !.cut = b] \in Histories
       /\ [h EXCEPT !.late = b] \in Histories
  /\ \A s \in Sends : s.service \in BOOLEAN /\ s.restore \in BOOLEAN
  /\ \A b \in Backends : b.connected \in BOOLEAN /\ b.listening \in BOOLEAN
BY DEF Sends, SendSteps, Confirmations, Backends, Histories, Idle, NoConfirmation

LEMMA EmptySequences ==
  <<>> \in Seq(HeardFrames) /\ <<>> \in Seq(Calls) /\ <<>> \in Seq(Messages)
OBVIOUS

LEMMA TypeInit == Init => ReceptionTypeOK
<1> SUFFICES ASSUME Init PROVE ReceptionTypeOK
  OBVIOUS
<1>1. backend \in Backends /\ mode \in Modes /\ history \in Histories
  BY DEF Init, Modes, Backends, Histories
<1> QED  BY <1>1, UpdatesTyped, EmptySequences DEF Init, ReceptionTypeOK

\* The actions of a send.
LEMMA SendTyped ==
  ASSUME ReceptionTypeOK, SendStarts \/ Send
  PROVE  ReceptionTypeOK'
<1> USE UpdatesTyped, EmptySequences DEF ReceptionTypeOK, SendSteps
<1>r. ASSUME NEW ok \in BOOLEAN, Restores(ok)
      PROVE  /\ calls' \in Seq(Calls) /\ queue' \in Seq(HeardFrames)
             /\ backend' \in Backends
             /\ snd' \in Sends
  <2>1. set_active_listening(TRUE) => calls' \in Seq(Calls) /\ queue' \in Seq(HeardFrames)
    BY PolicyTyped
  <2>2. calls' \in Seq(Calls) /\ queue' \in Seq(HeardFrames)
    BY <1>r, <2>1 DEF Restores
  <2>3. backend' \in Backends
    BY <1>r DEF Restores
  <2>4. snd' = [snd EXCEPT !.pc = "restore", !.ok = ok]
    BY <1>r DEF Restores
  <2>5. snd' \in Sends
    BY <2>4
  <2> QED  BY <2>2, <2>3, <2>5
<1>1. CASE SendStarts
  <2>1. calls' \in Seq(Calls) /\ queue' \in Seq(HeardFrames)
    BY <1>1, StopTyped DEF SendStarts
  <2>2. PICK service \in BOOLEAN : snd' = [Idle EXCEPT !.pc = "entry_stop", !.service = service]
    BY <1>1 DEF SendStarts
  <2>3. snd' \in Sends
    BY <2>2
  <2>4. cnf' \in Confirmations
    BY <1>1 DEF SendStarts
  <2> QED  BY <1>1, <2>1, <2>3, <2>4 DEF SendStarts
<1>2. CASE SendStops
  <2>1. calls' \in Seq(Calls) /\ queue' \in Seq(HeardFrames)
    BY <1>2, StopTyped DEF SendStops
  <2>2. snd' \in Sends
    BY <1>2 DEF SendStops
  <2>3. backend' \in {backend, [backend EXCEPT !.connected = open]}
    BY <1>2 DEF SendStops, connected
  <2> QED  BY <1>2, <2>1, <2>2, <2>3 DEF SendStops
<1>3. CASE SendConnects
  <2>1. open' \in BOOLEAN /\ calls' \in Seq(Calls) /\ queue' \in Seq(HeardFrames)
    BY <1>3, ConnectTyped DEF SendConnects
  <2> QED  BY <1>3, <2>1 DEF SendConnects
<1>4. CASE SendConnectFails
  BY <1>4 DEF SendConnectFails, world
<1>5. CASE SendTransmits
  <2>1. Tx \in Calls
    BY DEF Calls
  <2>2. calls' \in Seq(Calls)
    BY <1>5, <2>1, CallTyped DEF SendTransmits
  <2> QED  BY <1>5, <2>2 DEF SendTransmits
<1>6. CASE SendConfirmed
  <2>1. wire' \in Seq(Messages)
    BY <1>6, HeadTailProperties DEF SendConfirmed
  <2>2. CASE snd.cancel
    BY <1>6, <2>1, <2>2 DEF SendConfirmed
  <2>3. CASE ~snd.cancel
    BY <1>6, <2>1, <2>3, <1>r DEF SendConfirmed
  <2> QED  BY <2>2, <2>3
<1>7. CASE SendFails
  BY <1>7, <1>r DEF SendFails
<1>8. CASE SendEnds
  <2>1. lst' \in {"off", "recv", "connect"}
    BY <1>8 DEF SendEnds, Revived
  <2>2. cnf' \in Confirmations
    BY <1>8 DEF SendEnds
  <2> QED  BY <1>8, <2>1, <2>2 DEF SendEnds, world
<1> QED  BY <1>1, <1>2, <1>3, <1>4, <1>5, <1>6, <1>7, <1>8 DEF Send

\* The other tasks of the entry, its unload and its close.
LEMMA EntryTyped ==
  ASSUME ReceptionTypeOK,
         ConfirmationReceives \/ Confirmation \/ Listener \/ Sync \/ Unload \/ Close \/ Closed
  PROVE  ReceptionTypeOK'
<1> USE UpdatesTyped, EmptySequences DEF ReceptionTypeOK, SendSteps
<1>t. Take => Taken \in Captures /\ queue' \in Seq(HeardFrames)
  <2>1. ASSUME Take PROVE Head(queue) \in HeardFrames /\ queue' \in Seq(HeardFrames)
    BY <2>1, HeadTailProperties DEF Take
  <2> QED  BY <2>1 DEF Taken, HeardFrames
<1>a. ASSUME Take, Apply(Taken)
      PROVE  observed' \in [remote : Remotes, state : States \cup {NoState}]
  BY <1>t, <1>a, ReceptionAssumption DEF Apply
<1>1. CASE ConfirmationReceives
  <2>1. observed' \in {NoState} \cup [remote : Remotes, state : States \cup {NoState}]
    BY <1>1, <1>a DEF ConfirmationReceives
  <2> QED  BY <1>1, <1>t, <2>1 DEF ConfirmationReceives, world
<1>2. CASE Confirmation
  <2>1. CASE ConfirmationEnds
    BY <2>1 DEF ConfirmationEnds, world
  <2>2. CASE ConfirmationStops
    <3>1. calls' \in Seq(Calls) /\ queue' \in Seq(HeardFrames)
      BY <2>2, StopTyped DEF ConfirmationStops
    <3> QED  BY <2>2, <3>1 DEF ConfirmationStops
  <2> QED  BY <1>2, <2>1, <2>2 DEF Confirmation
<1>3. CASE Listener
  <2>1. CASE ListenerReceives
    <3>1. observed' \in {NoState} \cup [remote : Remotes, state : States \cup {NoState}]
      BY <2>1, <1>a DEF ListenerReceives
    <3>a. Head(queue) \in HeardFrames
      BY <2>1, HeadTailProperties DEF ListenerReceives, Take
    <3>2. queue' \in Seq(HeardFrames) /\ Head(queue).fresh \in BOOLEAN
      BY <2>1, <1>t, <3>a DEF ListenerReceives, HeardFrames
    <3>3. history' \in Histories
      BY <2>1, <3>2 DEF ListenerReceives
    <3>4. lst' \in {"off", "recv", "connect"}
      BY <2>1 DEF ListenerReceives
    <3> QED  BY <2>1, <3>1, <3>2, <3>3, <3>4 DEF ListenerReceives, world
  <2>2. CASE ListenerConnects
    <3>1. open' \in BOOLEAN /\ calls' \in Seq(Calls) /\ queue' \in Seq(HeardFrames)
      BY <2>2, ConnectTyped DEF ListenerConnects
    <3> QED  BY <2>2, <3>1 DEF ListenerConnects
  <2>3. CASE ListenerConnected
    BY <2>3 DEF ListenerConnected, connected, world
  <2>4. CASE ListenerStops
    BY <2>4 DEF ListenerStops, world
  <2> QED  BY <1>3, <2>1, <2>2, <2>3, <2>4 DEF Listener
<1>4. CASE Sync
  <2>1. CASE SyncPolicy
    <3>1. calls' \in Seq(Calls) /\ queue' \in Seq(HeardFrames)
      BY <2>1, PolicyTyped DEF SyncPolicy
    <3> QED  BY <2>1, <3>1 DEF SyncPolicy
  <2>2. CASE SyncDisplay
    BY <2>2 DEF SyncDisplay, Revived, world
  <2>3. CASE SyncConnects
    <3>1. open' \in BOOLEAN /\ calls' \in Seq(Calls) /\ queue' \in Seq(HeardFrames)
      BY <2>3, ConnectTyped DEF SyncConnects
    <3> QED  BY <2>3, <3>1 DEF SyncConnects, Revived
  <2>4. CASE SyncConnected
    BY <2>4 DEF SyncConnected, connected, world
  <2>5. CASE SyncStops
    BY <2>5 DEF SyncStops, world
  <2> QED  BY <1>4, <2>1, <2>2, <2>3, <2>4, <2>5 DEF Sync
<1>5. CASE Unload
  BY <1>5 DEF Unload, world
<1>6. CASE Close
  <2>1. calls' \in Seq(Calls) /\ queue' \in Seq(HeardFrames)
    BY <1>6, StopTyped DEF Close
  <2> QED  BY <1>6, <2>1 DEF Close, tasks
<1>7. CASE Closed
  BY <1>7 DEF Closed, tasks, world
<1> QED  BY <1>1, <1>2, <1>3, <1>4, <1>5, <1>6, <1>7

\* The link and the endpoint.
LEMMA WorldTyped ==
  ASSUME ReceptionTypeOK,
         (\E e \in Captures : Hear(e)) \/ HandleCall \/ Deliver \/ LinkLost \/ LinkBack
  PROVE  ReceptionTypeOK'
<1> USE UpdatesTyped, EmptySequences DEF ReceptionTypeOK, SendSteps
<1>1. ASSUME NEW e \in Captures, Hear(e) PROVE ReceptionTypeOK'
  <2>1. [capture |-> e, fresh |-> TRUE] \in Messages
    BY DEF Messages, HeardFrames
  <2>2. wire' \in Seq(Messages)
    BY <1>1, <2>1, AppendProperties DEF Hear
  <2> QED  BY <1>1, <2>2 DEF Hear, tasks
<1>2. CASE HandleCall
  <2>1. calls' \in Seq(Calls) /\ Head(calls) \in Calls
    BY <1>2, HeadTailProperties DEF HandleCall
  <2>2. CASE Head(calls).op = "tx"
    <3>1. wire' = Append(Old(wire), Result) /\ queue' = Old(queue) /\ mode' = mode
      BY <1>2, <2>2 DEF HandleCall
    <3>2. Result \in Messages
      BY DEF Messages
    <3>3. wire' \in Seq(Messages) /\ queue' \in Seq(HeardFrames)
      BY <3>1, <3>2, OldTyped, AppendProperties
    <3> QED  BY <1>2, <2>1, <3>1, <3>3 DEF HandleCall, tasks
  <2>3. CASE Head(calls).op = "rx_stop"
    BY <1>2, <2>1, <2>3 DEF HandleCall, tasks, Modes
  <2>4. CASE Head(calls).op \notin {"tx", "rx_stop"}
    <3>a. Tx.op = "tx" /\ Stop.op = "rx_stop"
      BY DEF Tx, Stop
    <3>1. Head(calls) \in Policies
      BY <2>1, <2>4, <3>a DEF Calls
    <3>2. mode' = Head(calls).mode /\ wire' = wire /\ queue' = queue
      BY <1>2, <2>4 DEF HandleCall
    <3>3. mode' \in Modes
      BY <3>1, <3>2 DEF Policies
    <3> QED  BY <1>2, <2>1, <3>2, <3>3 DEF HandleCall, tasks
  <2> QED  BY <2>2, <2>3, <2>4
<1>3. CASE Deliver
  <2>1. wire' \in Seq(Messages) /\ Head(wire) \in Messages
    BY <1>3, HeadTailProperties DEF Deliver
  <2>2. CASE Head(wire) = Result
    BY <1>3, <2>1, <2>2 DEF Deliver, tasks
  <2>3. CASE Head(wire) # Result
    <3>1. Head(wire) \in HeardFrames
      BY <2>1, <2>3 DEF Messages
    <3>2. queue' \in {queue, Append(queue, Head(wire))}
      BY <1>3, <2>3 DEF Deliver
    <3>3. Append(queue, Head(wire)) \in Seq(HeardFrames)
      BY <3>1, AppendProperties
    <3> QED  BY <1>3, <2>1, <3>2, <3>3 DEF Deliver, tasks
  <2> QED  BY <2>2, <2>3
<1>4. CASE LinkLost
  BY <1>4 DEF LinkLost, tasks, Modes
<1>5. CASE LinkBack
  BY <1>5 DEF LinkBack, tasks
<1> QED  BY <1>1, <1>2, <1>3, <1>4, <1>5

LEMMA TypeStep == ReceptionTypeOK /\ [Next]_vars => ReceptionTypeOK'
<1> SUFFICES ASSUME ReceptionTypeOK, [Next]_vars PROVE ReceptionTypeOK'
  OBVIOUS
<1>1. CASE UNCHANGED vars
  BY <1>1 DEF ReceptionTypeOK, vars, tasks, world
<1>2. CASE Next
  BY <1>2, SendTyped, EntryTyped, WorldTyped DEF Next
<1> QED  BY <1>1, <1>2

\* Every variable of EndpointReception keeps its type: what is on the way are
\* calls one way, frames and results the other.
THEOREM ReceptionTypeCorrect == Spec => []ReceptionTypeOK
BY TypeInit, TypeStep, PTL DEF Spec

-----------------------------------------------------------------------------
\* The close.

\* From the start of the close on no task is left, and what is on the way to
\* the endpoint ends with a stop, unless it was cut off.  A late send is left out.
Closing == phase \in {"stopping", "closed"} /\ ~history.late

Quiet ==
  /\ snd.pc = "idle" => ~snd.service
  /\ phase = "open" => ~history.late
  /\ phase # "open" /\ ~history.late => ~snd.service
  /\ Closing => snd.pc = "idle" /\ cnf.pc = "idle" /\ lst = "off" /\ syn = "over"
  /\ Closing /\ phase = "closed" => ~open /\ queue = <<>>
  /\ Closing /\ ~history.cut =>
       Up /\ IF calls = <<>> THEN mode = "off" ELSE calls[Len(calls)] = Stop

LEMMA QuietInit == Init => Quiet
BY DEF Init, Quiet, Closing, Idle

\* The tasks keep the phase; none of them runs when the entry is closed.
LEMMA QuietSend ==
  ASSUME ReceptionTypeOK, Quiet, SendStarts \/ Send
  PROVE  Quiet'
<1>1. snd \in Sends /\ phase' = phase /\ history' = history
  BY DEF ReceptionTypeOK, SendStarts, Send, SendStops, SendConnects, SendConnectFails,
         SendTransmits, SendConfirmed, SendFails, SendEnds, world
<1>2. snd.pc # "idle" \/ phase = "open"
  BY DEF SendStarts, Send, SendStops, SendConnects, SendConnectFails,
         SendTransmits, SendConfirmed, SendFails, SendEnds
<1>3. ~Closing
  BY <1>2 DEF Closing, Quiet
<1>4. \/ snd' = Idle
      \/ snd'.service = snd.service /\ snd'.pc # "idle"
      \/ SendStarts /\ snd'.pc = "entry_stop"
  BY <1>1, <1>2 DEF SendStarts, Send, SendStops, SendConnects, SendConnectFails,
         SendTransmits, SendConfirmed, SendFails, SendEnds, Restores, Sends, Idle
<1>5. snd'.pc = "idle" => ~snd'.service
  BY <1>4 DEF Idle
<1>6. phase' # "open" /\ ~history'.late => ~snd'.service
  <2>1. SendStarts => phase = "open"
    BY DEF SendStarts
  <2>2. Idle.service = FALSE
    BY DEF Idle
  <2> QED  BY <1>1, <1>4, <2>1, <2>2 DEF Quiet
<1> QED  BY <1>1, <1>3, <1>5, <1>6 DEF Quiet, Closing

LEMMA QuietEntry ==
  ASSUME ReceptionTypeOK, Quiet,
         ConfirmationReceives \/ Confirmation \/ Listener \/ Sync \/ Unload \/ Close \/ Closed
  PROVE  Quiet'
<1>s. snd \in Sends /\ history \in Histories /\ snd.service \in BOOLEAN
  BY UpdatesTyped DEF ReceptionTypeOK
<1>1. CASE ConfirmationReceives \/ Confirmation \/ Listener \/ Sync
  <2>1. snd' = snd /\ phase' = phase /\ history'.late = history.late
    BY <1>1, <1>s DEF ConfirmationReceives, Confirmation, ConfirmationEnds, ConfirmationStops,
         Listener, ListenerReceives, ListenerConnects, ListenerConnected, ListenerStops,
         Sync, SyncPolicy, SyncDisplay, SyncConnects, SyncConnected, SyncStops, world, Histories
  <2>2. ~Closing
    BY <1>1 DEF ConfirmationReceives, Confirmation, ConfirmationEnds, ConfirmationStops, Closing,
         Quiet, Listener, ListenerReceives, ListenerConnects, ListenerConnected, ListenerStops,
         Sync, SyncPolicy, SyncDisplay, SyncConnects, SyncConnected, SyncStops, Listening
  <2> QED  BY <2>1, <2>2 DEF Quiet, Closing
<1>2. CASE Unload
  <2>1. snd'.service = snd.service /\ snd'.pc = snd.pc
    BY <1>2, <1>s DEF Unload, Sends
  <2>2. history'.late = snd.service /\ phase' = "unloading"
    BY <1>2, <1>s DEF Unload, Histories
  <2> QED  BY <2>1, <2>2 DEF Quiet, Closing
<1>3. CASE Close
  <2>1. /\ snd' = snd /\ cnf' = cnf /\ lst' = lst /\ syn' = syn
        /\ phase' = "stopping" /\ phase = "unloading" /\ link' = link
        /\ cnf.pc = "idle" /\ lst = "off" /\ syn = "over"
    BY <1>3 DEF Close, tasks, AllDone
  <2>2. history'.late = history.late /\ history'.cut = ~(open /\ Up)
    BY <1>3, <1>s DEF Close, Histories
  <2>3. ~history.late => snd.pc = "idle"
    BY <1>3, <2>1 DEF Close, AllDone, Quiet
  <2>4. open /\ Up => calls' # <<>> /\ calls'[Len(calls')] = Stop
    <3>1. open /\ Up => calls' = Append(calls, Stop)
      BY <1>3 DEF Close, stop_rx, Call
    <3>2. calls \in Seq(Calls) /\ Stop \in Calls
      BY DEF ReceptionTypeOK, Calls
    <3> QED  BY <3>1, <3>2, AppendProperties
  <2> QED  BY <2>1, <2>2, <2>3, <2>4 DEF Quiet, Closing, Up
<1>4. CASE Closed
  BY <1>4 DEF Closed, tasks, world, Quiet, Closing, Up
<1> QED  BY <1>1, <1>2, <1>3, <1>4

LEMMA QuietWorld ==
  ASSUME ReceptionTypeOK, Quiet,
         (\E e \in Captures : Hear(e)) \/ HandleCall \/ Deliver \/ LinkLost \/ LinkBack
  PROVE  Quiet'
<1>s. history \in Histories
  BY DEF ReceptionTypeOK
<1>1. ASSUME NEW e \in Captures, Hear(e) PROVE Quiet'
  BY <1>1 DEF Hear, tasks, Quiet, Closing, Up
<1>2. CASE HandleCall
  <2>1. /\ UNCHANGED <<phase, open, snd, cnf, lst, syn, link, history>>
        /\ calls # <<>> /\ calls' = Tail(calls)
    BY <1>2 DEF HandleCall, tasks
  <2>2. queue = <<>> => queue' = <<>>
    BY <1>2 DEF HandleCall, Old
  <2>3. ASSUME calls[Len(calls)] = Stop
        PROVE  IF calls' = <<>> THEN mode' = "off" ELSE calls'[Len(calls')] = Stop
    <3>1. calls \in Seq(Calls)
      BY DEF ReceptionTypeOK
    <3>2. CASE Len(calls) = 1
      <4>1. Head(calls) = Stop /\ calls' = <<>>
        BY <2>1, <2>3, <3>1, <3>2, HeadTailProperties
      <4> QED  BY <1>2, <4>1 DEF HandleCall, Stop
    <3>3. CASE Len(calls) # 1
      <4>a. Len(calls) \in Nat /\ Len(calls) # 0
        BY <2>1, <3>1, EmptySeq
      <4>b. Len(Tail(calls)) = Len(calls) - 1
        BY <2>1, <3>1, HeadTailProperties
      <4>1. Len(calls) > 1 /\ Len(Tail(calls)) = Len(calls) - 1
        BY <3>3, <4>a, <4>b
      <4>2. Tail(calls)[Len(calls) - 1] = calls[Len(calls)]
        BY <2>1, <3>1, <4>1, HeadTailProperties
      <4>3. calls' # <<>>
        BY <2>1, <4>1
      <4> QED  BY <2>1, <2>3, <4>1, <4>2, <4>3
    <3> QED  BY <3>2, <3>3
  <2> QED  BY <2>1, <2>2, <2>3 DEF Quiet, Closing, Up
<1>3. CASE Deliver
  <2>1. UNCHANGED <<phase, open, snd, cnf, lst, syn, link, history, calls, mode>>
    BY <1>3 DEF Deliver, tasks
  <2>2. ~open /\ queue = <<>> => queue' = <<>>
    BY <1>3 DEF Deliver
  <2> QED  BY <2>1, <2>2 DEF Quiet, Closing, Up
<1>4. CASE LinkLost
  <2>1. UNCHANGED <<phase, open, snd, cnf, lst, syn, queue>>
    BY <1>4 DEF LinkLost, tasks
  <2>2. history'.late = history.late /\ (phase \in {"stopping", "closed"} => history'.cut)
    BY <1>4, <1>s DEF LinkLost, Histories
  <2> QED  BY <2>1, <2>2 DEF Quiet, Closing
<1>5. CASE LinkBack
  BY <1>5 DEF LinkBack, tasks, Quiet, Closing, Up
<1> QED  BY <1>1, <1>2, <1>3, <1>4, <1>5

LEMMA QuietStep == ReceptionTypeOK /\ Quiet /\ [Next]_vars => Quiet'
<1> SUFFICES ASSUME ReceptionTypeOK, Quiet, [Next]_vars PROVE Quiet'
  OBVIOUS
<1>1. CASE UNCHANGED vars
  BY <1>1 DEF Quiet, Closing, Up, vars, tasks, world
<1>2. CASE Next
  BY <1>2, QuietSend, QuietEntry, QuietWorld DEF Next
<1> QED  BY <1>1, <1>2

\* However the tasks, the link and the unload interleave, an entry that was
\* closed has no transport and no events, and the endpoint, told everything,
\* receives nothing (close, after the send the unload cancelled).
THEOREM SilenceAfterClose == Spec => []ClosedIsQuiet
<1>1. Quiet => ClosedIsQuiet
  BY DEF Quiet, Closing, ClosedIsQuiet
<1> QED  BY <1>1, TypeInit, TypeStep, QuietInit, QuietStep, PTL DEF Spec

-----------------------------------------------------------------------------
\* No frame of before a transmission.

NoTx(s)  == \A i \in DOMAIN s : s[i] # Tx
OneTx(s) == \A i, j \in DOMAIN s : s[i] = Tx /\ s[j] = Tx => i = j
Fresh(s) == \A i \in DOMAIN s : s[i] # Result /\ s[i].fresh
\* One result, and what was heard after it.
Answered(s) == \E k \in DOMAIN s : s[k] = Result /\ \A i \in DOMAIN s :
                 /\ i # k => s[i] # Result
                 /\ i > k => s[i].fresh

LEMMA CallsOnTheWay ==
  ASSUME NEW s \in Seq(Calls)
  PROVE  /\ \A c \in Calls : c # Tx /\ NoTx(s) => NoTx(Append(s, c))
         /\ \A c \in Calls : c # Tx /\ OneTx(s) => OneTx(Append(s, c))
         /\ NoTx(s) => OneTx(s) /\ OneTx(Append(s, Tx))
         /\ s # <<>> /\ NoTx(s) => NoTx(Tail(s)) /\ Head(s) # Tx
         /\ s # <<>> /\ OneTx(s) => OneTx(Tail(s))
         /\ s # <<>> /\ OneTx(s) /\ Head(s) = Tx => NoTx(Tail(s))
<1>1. ASSUME NEW c \in Calls
      PROVE  /\ Len(Append(s, c)) = Len(s) + 1 /\ Len(s) \in Nat
             /\ DOMAIN s = 1..Len(s) /\ DOMAIN Append(s, c) = 1..(Len(s) + 1)
             /\ Append(s, c)[Len(s) + 1] = c
             /\ \A i \in 1..Len(s) : Append(s, c)[i] = s[i]
  BY AppendProperties
<1>2. ASSUME NEW c \in Calls, c # Tx, NoTx(s) PROVE NoTx(Append(s, c))
  BY <1>1, <1>2 DEF NoTx
<1>3. ASSUME NEW c \in Calls, c # Tx, OneTx(s) PROVE OneTx(Append(s, c))
  BY <1>1, <1>3 DEF OneTx
<1>4. ASSUME NoTx(s) PROVE OneTx(s) /\ OneTx(Append(s, Tx))
  <2>1. Tx \in Calls
    BY DEF Calls
  <2> QED  BY <1>1, <1>4, <2>1 DEF NoTx, OneTx
<1>5. ASSUME s # <<>>
      PROVE  /\ Len(s) \in Nat /\ DOMAIN s = 1..Len(s) /\ Len(s) >= 1 /\ Head(s) = s[1]
             /\ DOMAIN Tail(s) = 1..(Len(s) - 1)
             /\ \A i \in 1..(Len(s) - 1) : Tail(s)[i] = s[i + 1]
  <2>1. Len(s) \in Nat /\ Len(s) # 0 /\ DOMAIN s = 1..Len(s)
    BY <1>5, EmptySeq
  <2>2. /\ Tail(s) \in Seq(Calls) /\ Len(Tail(s)) = Len(s) - 1
        /\ \A i \in 1..Len(Tail(s)) : Tail(s)[i] = s[i + 1]
    BY <1>5, HeadTailProperties
  <2>3. DOMAIN Tail(s) = 1..Len(Tail(s))
    BY <2>2
  <2>4. Head(s) = s[1]
    BY <1>5
  <2> QED  BY <2>1, <2>2, <2>3, <2>4
<1>6. s # <<>> /\ NoTx(s) => NoTx(Tail(s)) /\ Head(s) # Tx
  BY <1>5 DEF NoTx
<1>7. s # <<>> /\ OneTx(s) => OneTx(Tail(s))
  BY <1>5 DEF OneTx
<1>8. s # <<>> /\ OneTx(s) /\ Head(s) = Tx => NoTx(Tail(s))
  BY <1>5 DEF OneTx, NoTx
<1> QED  BY <1>2, <1>3, <1>4, <1>6, <1>7, <1>8

LEMMA FramesOnTheWay ==
  ASSUME NEW s \in Seq(Messages)
  PROVE  /\ \A f \in HeardFrames : f.fresh /\ Fresh(s) => Fresh(Append(s, f))
         /\ \A f \in HeardFrames : f.fresh /\ Answered(s) => Answered(Append(s, f))
         /\ s # <<>> /\ Fresh(s) => Fresh(Tail(s)) /\ Head(s) # Result /\ Head(s).fresh
         /\ s # <<>> /\ Answered(s) /\ Head(s) = Result => Fresh(Tail(s))
         /\ s # <<>> /\ Answered(s) /\ Head(s) # Result => Answered(Tail(s))
         /\ Fresh(s) => Answered(Append(Old(s), Result))
<1>1. ASSUME NEW t \in Seq(Messages), NEW m \in Messages
      PROVE  /\ Len(t) \in Nat
             /\ DOMAIN t = 1..Len(t) /\ DOMAIN Append(t, m) = 1..(Len(t) + 1)
             /\ Append(t, m)[Len(t) + 1] = m
             /\ \A i \in 1..Len(t) : Append(t, m)[i] = t[i]
  BY AppendProperties
<1>2. ASSUME NEW f \in HeardFrames, f.fresh
      PROVE  f \in Messages /\ f # Result
  BY FramesAreNoResults DEF Messages
<1>3. ASSUME NEW f \in HeardFrames, f.fresh, Fresh(s) PROVE Fresh(Append(s, f))
  BY <1>1, <1>2, <1>3 DEF Fresh
<1>4. ASSUME NEW f \in HeardFrames, f.fresh, Answered(s) PROVE Answered(Append(s, f))
  <2>1. PICK k \in DOMAIN s : s[k] = Result /\ \A i \in DOMAIN s :
                 /\ i # k => s[i] # Result
                 /\ i > k => s[i].fresh
    BY <1>4 DEF Answered
  <2>2. k \in DOMAIN Append(s, f) /\ Append(s, f)[k] = Result
    BY <2>1, <1>1, <1>2, <1>4
  <2>3. ASSUME NEW i \in DOMAIN Append(s, f)
        PROVE  /\ i # k => Append(s, f)[i] # Result
               /\ i > k => Append(s, f)[i].fresh
    <3>1. CASE i \in DOMAIN s
      BY <3>1, <2>1, <1>1, <1>2, <1>4
    <3>2. CASE i \notin DOMAIN s
      <4>1. i = Len(s) + 1
        BY <3>2, <1>1, <1>2, <1>4
      <4>2. Append(s, f)[i] = f
        BY <4>1, <1>1, <1>2, <1>4
      <4> QED  BY <4>2, <1>2, <1>4
    <3> QED  BY <3>1, <3>2
  <2> QED  BY <2>2, <2>3 DEF Answered
<1>5. ASSUME s # <<>>
      PROVE  /\ Len(s) \in Nat /\ DOMAIN s = 1..Len(s) /\ Len(s) >= 1 /\ Head(s) = s[1]
             /\ DOMAIN Tail(s) = 1..(Len(s) - 1)
             /\ \A i \in 1..(Len(s) - 1) : Tail(s)[i] = s[i + 1]
  <2>1. Len(s) \in Nat /\ Len(s) # 0 /\ DOMAIN s = 1..Len(s)
    BY <1>5, EmptySeq
  <2>2. /\ Tail(s) \in Seq(Messages) /\ Len(Tail(s)) = Len(s) - 1
        /\ \A i \in 1..Len(Tail(s)) : Tail(s)[i] = s[i + 1]
    BY <1>5, HeadTailProperties
  <2>3. DOMAIN Tail(s) = 1..Len(Tail(s))
    BY <2>2
  <2>4. Head(s) = s[1]
    BY <1>5
  <2> QED  BY <2>1, <2>2, <2>3, <2>4
<1>6. s # <<>> /\ Fresh(s) => Fresh(Tail(s)) /\ Head(s) # Result /\ Head(s).fresh
  BY <1>5 DEF Fresh
<1>7. s # <<>> /\ Answered(s) /\ Head(s) = Result => Fresh(Tail(s))
  BY <1>5 DEF Answered, Fresh
<1>8. ASSUME s # <<>>, Answered(s), Head(s) # Result PROVE Answered(Tail(s))
  <2>1. PICK k \in DOMAIN s : s[k] = Result /\ \A i \in DOMAIN s :
                 /\ i # k => s[i] # Result
                 /\ i > k => s[i].fresh
    BY <1>8 DEF Answered
  <2>2. k # 1 /\ k - 1 \in DOMAIN Tail(s) /\ Tail(s)[k - 1] = Result
    BY <2>1, <1>5, <1>8
  <2>3. ASSUME NEW i \in DOMAIN Tail(s)
        PROVE  /\ i # k - 1 => Tail(s)[i] # Result
               /\ i > k - 1 => Tail(s)[i].fresh
    <3>1. i + 1 \in DOMAIN s /\ Tail(s)[i] = s[i + 1] /\ i \in Nat /\ k \in Nat
      BY <2>1, <1>5, <1>8
    <3> QED  BY <3>1, <2>1
  <2> QED  BY <2>2, <2>3 DEF Answered
<1>9. ASSUME Fresh(s) PROVE Answered(Append(Old(s), Result))
  <2>1. Old(s) \in Seq(Messages) /\ Len(Old(s)) = Len(s) /\ Result \in Messages
    BY OldTyped DEF Messages
  <2>2. ASSUME NEW i \in 1..Len(s) PROVE Old(s)[i] # Result
    <3>1. s[i] \in Messages /\ s[i] # Result
      BY <1>9, ElementOfSeq DEF Fresh
    <3>2. [s[i] EXCEPT !.fresh = FALSE] \in HeardFrames
      BY <3>1 DEF Messages, HeardFrames
    <3>3. Old(s)[i] = [s[i] EXCEPT !.fresh = FALSE]
      <4>1. i \in DOMAIN s
        BY <2>1
      <4> QED  BY <3>1, <4>1 DEF Old
    <3> QED  BY <3>2, <3>3, FramesAreNoResults
  <2> DEFINE a == Append(Old(s), Result)
             k == Len(s) + 1
  <2>3. DOMAIN a = 1..k /\ a[k] = Result /\ Len(s) \in Nat /\ \A i \in 1..Len(s) : a[i] = Old(s)[i]
    BY <2>1, <1>1
  <2> HIDE DEF a
  <2>4. ASSUME NEW i \in DOMAIN a PROVE (i # k => a[i] # Result) /\ ~(i > k)
    BY <2>2, <2>3
  <2> QED  BY <2>3, <2>4 DEF Answered, a
<1> QED  BY <1>3, <1>4, <1>6, <1>7, <1>8, <1>9

\* An enabled entry that is open stops what it hears for a send and restores it
\* after; then nothing is left of before.
Traffic ==
  IF snd.pc = "tx"
    THEN \/ OneTx(calls) /\ Fresh(wire)
         \/ NoTx(calls) /\ Answered(wire)
    ELSE NoTx(calls) /\ Fresh(wire) /\ Fresh(queue)

Restoring ==
  /\ backend.listening = enabled /\ ~snd.cancel
  /\ backend.connected \/ lst = "connect" \/ syn = "connect" => open
  /\ snd.pc \in {"stop", "tx"} => backend.connected /\ snd.restore = enabled

Clean ==
  /\ ~history.stale
  /\ ~Up => calls = <<>> /\ wire = <<>>
  /\ phase = "open" => Restoring /\ (enabled => Traffic)
  /\ observed # NoState => observed.remote = Own /\ observed.state \in States

LEMMA CleanInit == Init => Clean
<1> SUFFICES ASSUME Init PROVE Clean
  OBVIOUS
<1>1. Restoring /\ snd.pc # "tx"
  BY DEF Init, Restoring, Idle
<1>2. NoTx(calls) /\ Fresh(wire) /\ Fresh(queue)
  BY DEF Init, NoTx, Fresh
<1> QED  BY <1>1, <1>2 DEF Init, Clean, Traffic

\* What the calls but tx and what receiving leave on the way.
OtherCalls ==
  /\ \/ calls' = calls
     \/ Up /\ \E c \in Calls : c # Tx /\ calls' = Append(calls, c)
  /\ queue' \in {queue, <<>>} \/ Take

LEMMA OtherCallsMade ==
  ASSUME ReceptionTypeOK
  PROVE  /\ stop_rx => OtherCalls
         /\ \A on \in BOOLEAN : set_active_listening(on) => OtherCalls
         /\ connect => OtherCalls /\ (Up \/ open => open')
<1>1. stop_rx => OtherCalls
  BY CallsDiffer DEF stop_rx, Call, OtherCalls, Calls
<1>2. ASSUME NEW on \in BOOLEAN, set_active_listening(on) PROVE OtherCalls
  <2>1. Policy(on) \in Calls /\ Policy(on) # Tx
    BY PolicyIsCall, CallsDiffer DEF Calls
  <2> QED  BY <1>2, <2>1 DEF set_active_listening, Call, OtherCalls
<1>3. ASSUME connect PROVE OtherCalls /\ (Up \/ open => open')
  <2>1. backend.listening \in BOOLEAN
    BY UpdatesTyped DEF ReceptionTypeOK
  <2>2. OtherCalls
    BY <1>2, <1>3, <2>1 DEF connect, OtherCalls
  <2> QED  BY <1>3, <2>2 DEF connect, Up
<1> QED  BY <1>1, <1>2, <1>3

LEMMA QueueIsMessages == ReceptionTypeOK => queue \in Seq(Messages)
BY SeqMonotonic DEF ReceptionTypeOK, Messages

LEMMA OtherCallsKeepTraffic ==
  ASSUME ReceptionTypeOK, OtherCalls, wire' = wire, Traffic,
         snd'.pc = "tx" <=> snd.pc = "tx"
  PROVE  Traffic'
<1>1. calls \in Seq(Calls) /\ queue \in Seq(Messages)
  BY QueueIsMessages DEF ReceptionTypeOK
<1>2. (NoTx(calls) => NoTx(calls')) /\ (OneTx(calls) => OneTx(calls'))
  BY <1>1, CallsOnTheWay DEF OtherCalls
<1>3. Fresh(<<>>)
  BY DEF Fresh
<1>4. Fresh(queue) => Fresh(queue')
  BY <1>1, <1>3, FramesOnTheWay DEF OtherCalls, Take
<1> QED  BY <1>2, <1>4 DEF Traffic

\* The part of Clean about the whole path.
LEMMA OtherCallsKeepClean ==
  ASSUME ReceptionTypeOK, Clean, OtherCalls, wire' = wire, link' = link,
         snd'.pc = "tx" <=> snd.pc = "tx",
         phase' = "open" => phase = "open" /\ enabled' = enabled /\ Restoring',
         ~history'.stale,
         observed' # NoState => observed'.remote = Own /\ observed'.state \in States
  PROVE  Clean'
<1>1. ~Up' => calls' = <<>> /\ wire' = <<>>
  BY DEF Clean, Up, OtherCalls
<1>2. phase' = "open" /\ enabled' => Traffic'
  BY OtherCallsKeepTraffic DEF Clean
<1> QED  BY <1>1, <1>2 DEF Clean

LEMMA CleanSend ==
  ASSUME ReceptionTypeOK, Clean, SendStarts \/ Send
  PROVE  Clean'
<1> USE DEF Clean
<1>s. /\ snd \in Sends /\ backend \in Backends /\ calls \in Seq(Calls) /\ wire \in Seq(Messages)
      /\ enabled \in BOOLEAN
  BY DEF ReceptionTypeOK
<1>1. CASE SendStarts
  <2>1. OtherCalls
    BY <1>1, OtherCallsMade DEF SendStarts
  <2>2. snd'.pc = "entry_stop" /\ ~snd'.cancel
    BY <1>1 DEF SendStarts, Idle
  <2>3. phase = "open" => Restoring'
    BY <1>1, <2>2 DEF SendStarts, Restoring
  <2> QED  BY <1>1, <2>1, <2>2, <2>3, OtherCallsKeepClean DEF SendStarts
<1>2. CASE SendStops
  <2>1. OtherCalls
    BY <1>2, OtherCallsMade DEF SendStops
  <2>2. snd'.pc = "stop" /\ snd'.cancel = snd.cancel /\ snd'.restore = backend.listening
    BY <1>2, <1>s DEF SendStops, Sends
  <2>3. backend'.listening = backend.listening /\ (backend'.connected => open \/ backend.connected)
    BY <1>2, <1>s DEF SendStops, connected, Backends
  <2>4. backend'.connected
    BY <1>2, <1>s DEF SendStops, connected, Backends
  <2>5. phase = "open" => Restoring'
    BY <1>2, <2>2, <2>3, <2>4 DEF SendStops, Restoring
  <2>6. snd.pc # "tx"
    BY <1>2 DEF SendStops
  <2> QED  BY <1>2, <2>1, <2>2, <2>5, <2>6, OtherCallsKeepClean DEF SendStops
<1>3. CASE SendConnects
  <2>1. OtherCalls /\ (open => open')
    BY <1>3, OtherCallsMade DEF SendConnects
  <2>2. snd'.pc \in {"connect", "idle"} /\ ~snd'.cancel /\ snd.pc = "entry_stop"
    BY <1>3, <1>s DEF SendConnects, Sends, Idle
  <2>3. phase = "open" => Restoring'
    BY <1>3, <2>1, <2>2 DEF SendConnects, Restoring
  <2> QED  BY <1>3, <2>1, <2>2, <2>3, OtherCallsKeepClean DEF SendConnects
<1>4. CASE SendConnectFails
  <2>1. OtherCalls /\ snd'.pc = "idle" /\ ~snd'.cancel /\ snd.pc = "connect"
    BY <1>4 DEF SendConnectFails, OtherCalls, world, Idle
  <2>2. phase = "open" => Restoring'
    BY <1>4, <2>1 DEF SendConnectFails, Restoring
  <2> QED  BY <1>4, <2>1, <2>2, OtherCallsKeepClean DEF SendConnectFails, world
<1>5. CASE SendTransmits
  <2>1. snd'.pc = "tx" /\ snd'.cancel = snd.cancel /\ snd'.restore = snd.restore /\ snd.pc = "stop"
    BY <1>5, <1>s DEF SendTransmits, Sends
  <2>2. Restoring => Restoring'
    BY <1>5, <2>1 DEF SendTransmits, Restoring
  <2>3. Traffic => OneTx(calls') /\ Fresh(wire')
    BY <1>5, <1>s, <2>1, CallsOnTheWay DEF SendTransmits, Traffic, Call
  <2>4. Up' = Up /\ Up
    BY <1>5 DEF SendTransmits, Up
  <2> QED  BY <1>5, <2>1, <2>2, <2>3, <2>4 DEF SendTransmits, Traffic
<1>6. CASE SendConfirmed
  <2>1. wire # <<>> /\ Head(wire) = Result /\ wire' = Tail(wire) /\ Up' = Up
    BY <1>6 DEF SendConfirmed, Up
  <2>2. Up
    BY <2>1
  <2>3. phase' = "open" => /\ phase = "open" /\ Restores(TRUE) /\ enabled' = enabled /\ snd.pc = "tx"
    BY <1>6 DEF SendConfirmed, Restoring
  <2>4. ASSUME phase' = "open"
        PROVE  Restoring' /\ (enabled => Traffic')
    <3>1. snd'.pc = "restore" /\ snd'.cancel = snd.cancel
      BY <2>3, <2>4, <1>s DEF Restores, Sends
    <3>2. Restoring'
      BY <1>6, <2>3, <2>4, <3>1, <1>s DEF SendConfirmed, Restores, Restoring, Backends
    <3>3. ASSUME enabled PROVE Traffic'
      <4>1. set_active_listening(TRUE)
        BY <2>3, <2>4, <3>3 DEF Restores, Restoring
      <4>2. OtherCalls /\ queue' = <<>>
        BY <4>1, OtherCallsMade DEF set_active_listening
      <4>3. NoTx(calls) /\ Fresh(wire')
        BY <2>1, <2>3, <2>4, <3>3, <1>s, FramesOnTheWay DEF Traffic
      <4>4. NoTx(calls')
        BY <4>2, <4>3, <1>s, CallsOnTheWay DEF OtherCalls
      <4> QED  BY <3>1, <4>2, <4>3, <4>4 DEF Traffic, Fresh
    <3> QED  BY <3>2, <3>3
  <2> QED  BY <1>6, <2>1, <2>2, <2>3, <2>4 DEF SendConfirmed
<1>7. CASE SendFails
  <2>1. /\ Restores(FALSE) /\ snd.pc \in {"stop", "tx"} /\ Up' = Up
        /\ UNCHANGED <<phase, enabled, open, lst, syn, wire, observed, history>>
    BY <1>7 DEF SendFails, Up
  <2>2. OtherCalls
    BY <2>1, OtherCallsMade DEF Restores, OtherCalls
  <2>3. ~Up' => calls' = <<>> /\ wire' = <<>>
    BY <2>1, <2>2 DEF OtherCalls
  <2>4. ASSUME phase = "open"
        PROVE  Restoring' /\ (enabled => Traffic')
    <3>1. snd'.pc = "restore" /\ snd'.cancel = snd.cancel
      BY <2>1, <1>s DEF Restores, Sends
    <3>2. Restoring'
      BY <2>1, <2>4, <3>1, <1>s DEF Restores, Restoring, Backends
    <3>3. ASSUME enabled PROVE Traffic'
      <4>1. set_active_listening(TRUE)
        BY <2>1, <2>4, <3>3 DEF Restores, Restoring
      <4>2. queue' = <<>>
        BY <4>1 DEF set_active_listening
      <4>3. NoTx(calls) /\ Fresh(wire)
        <5>1. CASE snd.pc = "stop"
          BY <5>1, <2>4, <3>3 DEF Traffic
        <5>2. CASE snd.pc = "tx" /\ ~Up
          BY <5>2 DEF NoTx, Fresh
        <5>3. CASE snd.pc = "tx" /\ Up
          <6>1. open /\ ~snd.cancel
            BY <5>3, <2>4 DEF Restoring
          <6>2. ResultLost
            BY <1>7, <5>3, <6>1 DEF SendFails
          <6>3. NoTx(calls) /\ ~Answered(wire)
            BY <6>2 DEF ResultLost, NoTx, Answered
          <6> QED  BY <6>3, <5>3, <2>4, <3>3 DEF Traffic
        <5> QED  BY <2>1, <5>1, <5>2, <5>3
      <4>4. NoTx(calls')
        BY <2>2, <4>3, <1>s, CallsOnTheWay DEF OtherCalls
      <4> QED  BY <2>1, <3>1, <4>2, <4>3, <4>4 DEF Traffic, Fresh
    <3> QED  BY <3>2, <3>3
  <2> QED  BY <2>1, <2>3, <2>4
<1>8. CASE SendEnds
  <2>1. OtherCalls /\ snd'.pc = "idle" /\ ~snd'.cancel
    BY <1>8 DEF SendEnds, OtherCalls, world, Idle
  <2>2. snd.pc # "tx"
    BY <1>8 DEF SendEnds
  <2>3. lst' = "connect" => lst = "connect"
    BY <1>8 DEF SendEnds, Revived
  <2>4. phase = "open" => Restoring'
    BY <1>8, <2>1, <2>3 DEF SendEnds, Restoring
  <2> QED  BY <1>8, <2>1, <2>2, <2>4, OtherCallsKeepClean DEF SendEnds, world
<1> QED  BY <1>1, <1>2, <1>3, <1>4, <1>5, <1>6, <1>7, <1>8 DEF Send

\* What is received of the entry's own remote has a state.
LEMMA DecodedIsTrue ==
  ASSUME ReceptionTypeOK, Take, Decodes(Taken), Taken.remote = Own, Apply(Taken)
  PROVE  observed'.remote = Own /\ observed'.state \in States
<1>1. Head(queue) \in HeardFrames
  BY HeadTailProperties DEF ReceptionTypeOK, Take
<1>2. Taken \in Captures
  BY <1>1 DEF Taken, HeardFrames
<1>3. /\ Taken.state \in States \cup {NoState} /\ (Taken.ecc => Taken.state # NoState)
      /\ Taken.kind \in {"rx_packet", "fifo_capture", "pulse_capture"}
  BY <1>2, ReceptionAssumption
<1>4. Taken.state # NoState
  BY <1>3 DEF Decodes, packet_from_decoded_rx_event, scan_fifo_event, scan_pulse_event
<1> QED  BY <1>3, <1>4 DEF Apply

LEMMA CleanEntry ==
  ASSUME ReceptionTypeOK, Clean,
         ConfirmationReceives \/ Confirmation \/ Listener \/ Sync \/ Unload \/ Close \/ Closed
  PROVE  Clean'
<1>s. /\ snd \in Sends /\ backend \in Backends /\ history \in Histories
      /\ queue \in Seq(HeardFrames) /\ queue \in Seq(Messages)
      /\ enabled \in BOOLEAN
  BY QueueIsMessages DEF ReceptionTypeOK
<1>1. CASE ConfirmationReceives
  <2>1. OtherCalls
    BY <1>1 DEF ConfirmationReceives, OtherCalls, world
  <2>2. observed' # NoState => observed'.remote = Own /\ observed'.state \in States
    BY <1>1, DecodedIsTrue DEF ConfirmationReceives, Clean
  <2>3. phase = "open" => Restoring'
    BY <1>1 DEF ConfirmationReceives, Restoring, Clean
  <2> QED  BY <1>1, <2>1, <2>2, <2>3, OtherCallsKeepClean DEF ConfirmationReceives, world, Clean
<1>2. CASE Confirmation
  <2>1. OtherCalls
    BY <1>2, OtherCallsMade DEF Confirmation, ConfirmationEnds, ConfirmationStops, OtherCalls, world
  <2>2. UNCHANGED <<phase, enabled, backend, open, snd, lst, syn, observed, wire, link, history>>
    BY <1>2 DEF Confirmation, ConfirmationEnds, ConfirmationStops, world
  <2>3. phase = "open" => Restoring'
    BY <2>2 DEF Restoring, Clean
  <2> QED  BY <2>1, <2>2, <2>3, OtherCallsKeepClean DEF Clean
<1>3. CASE Listener
  <2>1. CASE ListenerReceives
    <3>1. OtherCalls
      BY <2>1 DEF ListenerReceives, OtherCalls, world
    <3>2. phase = "open" /\ enabled
      BY <2>1 DEF ListenerReceives, Listening
    <3>3. snd.pc # "tx" => Head(queue).fresh
      BY <2>1, <3>2, <1>s, FramesOnTheWay DEF Clean, Traffic, ListenerReceives, Take
    <3>4. ~history'.stale
      BY <2>1, <3>3, <1>s DEF ListenerReceives, Clean, Histories
    <3>5. observed' # NoState => observed'.remote = Own /\ observed'.state \in States
      BY <2>1, DecodedIsTrue DEF ListenerReceives, Clean
    <3>6. Restoring'
      BY <2>1, <3>2 DEF ListenerReceives, Restoring, Clean
    <3> QED  BY <2>1, <3>1, <3>2, <3>4, <3>5, <3>6, OtherCallsKeepClean DEF ListenerReceives, world
  <2>2. CASE ListenerConnects
    <3>1. OtherCalls /\ (Up \/ open => open')
      BY <2>2, OtherCallsMade DEF ListenerConnects
    <3>2. phase = "open" => Restoring'
      BY <2>2, <3>1 DEF ListenerConnects, Restoring, Clean
    <3> QED  BY <2>2, <3>1, <3>2, OtherCallsKeepClean DEF ListenerConnects, Clean
  <2>3. CASE ListenerConnected
    <3>1. OtherCalls
      BY <2>3 DEF ListenerConnected, OtherCalls, world
    <3>2. backend'.connected = open /\ backend'.listening = backend.listening
      BY <2>3, <1>s DEF ListenerConnected, connected, Backends
    <3>3. phase = "open" => Restoring'
      BY <2>3, <3>2 DEF ListenerConnected, Restoring, Clean
    <3> QED  BY <2>3, <3>1, <3>3, OtherCallsKeepClean DEF ListenerConnected, world, Clean
  <2>4. CASE ListenerStops
    <3>1. OtherCalls
      BY <2>4 DEF ListenerStops, OtherCalls, world
    <3>2. phase = "open" => Restoring'
      BY <2>4 DEF ListenerStops, Restoring, Clean
    <3> QED  BY <2>4, <3>1, <3>2, OtherCallsKeepClean DEF ListenerStops, world, Clean
  <2> QED  BY <1>3, <2>1, <2>2, <2>3, <2>4 DEF Listener
<1>4. CASE Sync
  <2>1. OtherCalls
    BY <1>4, <1>s, OtherCallsMade
       DEF Sync, SyncPolicy, SyncDisplay, SyncConnects, SyncConnected, SyncStops, OtherCalls, world
  <2>2. UNCHANGED <<phase, enabled, snd, wire, link, observed, history>>
    BY <1>4 DEF Sync, SyncPolicy, SyncDisplay, SyncConnects, SyncConnected, SyncStops, world
  <2>3. CASE SyncPolicy
    <3>1. backend'.connected = backend.connected /\ backend'.listening = enabled
      BY <2>3, <1>s DEF SyncPolicy, Backends
    <3>2. phase = "open" => Restoring'
      BY <2>3, <3>1 DEF SyncPolicy, Restoring, Clean
    <3> QED  BY <2>1, <2>2, <3>2, OtherCallsKeepClean DEF Clean
  <2>4. CASE SyncDisplay
    <3>1. phase = "open" => Restoring'
      BY <2>4 DEF SyncDisplay, Restoring, Revived, Clean
    <3> QED  BY <2>1, <2>2, <3>1, OtherCallsKeepClean DEF Clean
  <2>5. CASE SyncConnects
    <3>1. backend'.connected = backend.connected /\ backend'.listening = enabled
      BY <2>5, <1>s DEF SyncConnects, Backends
    <3>2. (Up \/ open) => open'
      BY <2>5, OtherCallsMade DEF SyncConnects
    <3>3. phase = "open" => Restoring'
      BY <2>5, <3>1, <3>2 DEF SyncConnects, Restoring, Revived, Clean
    <3> QED  BY <2>1, <2>2, <3>3, OtherCallsKeepClean DEF Clean
  <2>6. CASE SyncConnected
    <3>1. backend'.connected = open /\ backend'.listening = backend.listening
      BY <2>6, <1>s DEF SyncConnected, connected, Backends
    <3>2. phase = "open" => Restoring'
      BY <2>6, <3>1 DEF SyncConnected, Restoring, Clean
    <3> QED  BY <2>1, <2>2, <3>2, OtherCallsKeepClean DEF Clean
  <2>7. CASE SyncStops
    <3>1. phase = "open" => Restoring'
      BY <2>7 DEF SyncStops, Restoring, Clean
    <3> QED  BY <2>1, <2>2, <3>1, OtherCallsKeepClean DEF Clean
  <2> QED  BY <1>4, <2>3, <2>4, <2>5, <2>6, <2>7 DEF Sync
<1>5. CASE Unload
  <2>1. history'.stale = history.stale /\ phase' # "open"
    BY <1>5, <1>s DEF Unload, Histories
  <2> QED  BY <1>5, <2>1 DEF Unload, Clean, Up, world
<1>6. CASE Close
  <2>1. history'.stale = history.stale /\ phase' # "open"
    BY <1>6, <1>s DEF Close, Histories
  <2>2. stop_rx /\ UNCHANGED <<link, wire, observed>>
    BY <1>6 DEF Close
  <2>3. ~Up => calls' = calls
    BY <2>2 DEF stop_rx
  <2> QED  BY <2>1, <2>2, <2>3 DEF Clean, Up
<1>7. CASE Closed
  <2>1. history'.stale = history.stale /\ phase' # "open"
    BY <1>7 DEF Closed
  <2> QED  BY <1>7, <2>1 DEF Closed, Clean, Up, world
<1> QED  BY <1>1, <1>2, <1>3, <1>4, <1>5, <1>6, <1>7

LEMMA CleanWorld ==
  ASSUME ReceptionTypeOK, Clean,
         (\E e \in Captures : Hear(e)) \/ HandleCall \/ Deliver \/ LinkLost \/ LinkBack
  PROVE  Clean'
<1>s. /\ calls \in Seq(Calls) /\ wire \in Seq(Messages) /\ history \in Histories
      /\ queue \in Seq(HeardFrames) /\ queue \in Seq(Messages)
  BY QueueIsMessages DEF ReceptionTypeOK
<1>t. UNCHANGED <<phase, enabled, backend, open, tasks, observed>>
  BY DEF Hear, HandleCall, Deliver, LinkLost, LinkBack
<1>r. phase = "open" => Restoring'
  BY <1>t DEF Restoring, Clean, tasks
<1>c. ASSUME ~history'.stale, ~Up' => calls' = <<>> /\ wire' = <<>>,
             phase = "open" /\ enabled => Traffic'
      PROVE  Clean'
  BY <1>c, <1>t, <1>r DEF Clean
<1>1. ASSUME NEW e \in Captures, Hear(e) PROVE Clean'
  <2> DEFINE f == [capture |-> e, fresh |-> TRUE]
  <2>1. f \in HeardFrames /\ f.fresh
    BY DEF HeardFrames
  <2>2. wire' = Append(wire, f) /\ UNCHANGED <<calls, queue, snd, link, history>> /\ Up
    BY <1>1 DEF Hear, tasks
  <2> HIDE DEF f
  <2>3. (Fresh(wire) => Fresh(wire')) /\ (Answered(wire) => Answered(wire'))
    BY <2>1, <2>2, <1>s, FramesOnTheWay
  <2>4. Traffic => Traffic'
    BY <2>2, <2>3 DEF Traffic
  <2> QED  BY <2>2, <2>4, <1>c DEF Clean, Up
<1>2. CASE HandleCall
  <2>1. calls # <<>> /\ calls' = Tail(calls) /\ UNCHANGED <<snd, link, history>>
    BY <1>2 DEF HandleCall, tasks
  <2>2. Up /\ Up'
    BY <2>1 DEF Clean, Up
  <2>3. Head(calls) \in Calls
    BY <2>1, <1>s, HeadTailProperties
  <2>4. CASE Head(calls).op = "tx"
    <3>1. Head(calls) = Tx
      BY <2>3, <2>4 DEF Calls, Stop, Policies
    <3>2. wire' = Append(Old(wire), Result)
      BY <1>2, <2>4 DEF HandleCall
    <3>3. ~NoTx(calls) /\ (OneTx(calls) => NoTx(calls'))
      BY <2>1, <3>1, <1>s, CallsOnTheWay
    <3>4. Fresh(wire) => Answered(wire')
      BY <3>2, <1>s, FramesOnTheWay
    <3>5. Traffic => Traffic'
      BY <2>1, <3>3, <3>4 DEF Traffic
    <3> QED  BY <2>1, <2>2, <3>5, <1>c DEF Clean
  <2>5. CASE Head(calls).op # "tx"
    <3>1. wire' = wire /\ queue' = queue
      BY <1>2, <2>5 DEF HandleCall
    <3>2. (OneTx(calls) => OneTx(calls')) /\ (NoTx(calls) => NoTx(calls'))
      BY <2>1, <1>s, CallsOnTheWay
    <3>3. Traffic => Traffic'
      BY <2>1, <3>1, <3>2 DEF Traffic
    <3> QED  BY <2>1, <2>2, <3>3, <1>c DEF Clean
  <2> QED  BY <2>4, <2>5
<1>3. CASE Deliver
  <2>1. wire # <<>> /\ wire' = Tail(wire) /\ UNCHANGED <<calls, snd, link, history>>
    BY <1>3 DEF Deliver, tasks
  <2>2. Up /\ Up'
    BY <2>1 DEF Clean, Up
  <2>3. ASSUME phase = "open", enabled PROVE Traffic'
    <3>1. Traffic /\ (snd.pc = "tx" => open)
      BY <2>3 DEF Clean, Restoring
    <3>2. Head(wire) # Result
      <4>1. snd.pc # "tx" => Fresh(wire)
        BY <3>1 DEF Traffic
      <4>2. Head(wire) = Result => ~(snd.pc = "tx" /\ open)
        BY <1>3 DEF Deliver
      <4> QED  BY <2>1, <3>1, <4>1, <4>2, <1>s, FramesOnTheWay
    <3>3. Head(wire) \in HeardFrames
      BY <2>1, <3>2, <1>s, HeadTailProperties DEF Messages
    <3>4. queue' \in {queue, Append(queue, Head(wire))}
      BY <1>3, <3>2 DEF Deliver
    <3>5. Fresh(queue) /\ Fresh(wire) => Fresh(queue')
      BY <2>1, <3>3, <3>4, <1>s, FramesOnTheWay
    <3>6. (Fresh(wire) => Fresh(wire')) /\ (Answered(wire) => Answered(wire'))
      BY <2>1, <3>2, <1>s, FramesOnTheWay
    <3> QED  BY <2>1, <3>1, <3>5, <3>6 DEF Traffic
  <2> QED  BY <2>1, <2>2, <2>3, <1>c DEF Clean
<1>4. CASE LinkLost
  <2>1. calls' = <<>> /\ wire' = <<>> /\ UNCHANGED <<snd, queue>>
    BY <1>4 DEF LinkLost, tasks
  <2>2. ~history'.stale
    BY <1>4, <1>s DEF LinkLost, Histories, Clean
  <2>3. Traffic => Traffic'
    BY <2>1 DEF Traffic, NoTx, OneTx, Fresh
  <2> QED  BY <2>1, <2>2, <2>3, <1>c DEF Clean
<1>5. CASE LinkBack
  <2>1. UNCHANGED <<calls, wire, snd, queue, history>> /\ ~Up
    BY <1>5 DEF LinkBack, tasks
  <2>2. Traffic => Traffic'
    BY <2>1 DEF Traffic
  <2> QED  BY <2>1, <2>2, <1>c DEF Clean
<1> QED  BY <1>1, <1>2, <1>3, <1>4, <1>5

LEMMA CleanStep == ReceptionTypeOK /\ Clean /\ [Next]_vars => Clean'
<1> SUFFICES ASSUME ReceptionTypeOK, Clean, [Next]_vars PROVE Clean'
  OBVIOUS
<1>1. CASE UNCHANGED vars
  <2>1. (Restoring => Restoring') /\ (Traffic => Traffic')
    BY <1>1 DEF Restoring, Traffic, vars, tasks, world
  <2> QED  BY <1>1, <2>1 DEF Clean, Up, vars, tasks, world
<1>2. CASE Next
  BY <1>2, CleanSend, CleanEntry, CleanWorld DEF Next
<1> QED  BY <1>1, <1>2

\* Whatever is on the way when a send begins, and whatever is lost with the
\* link, the listener shows states of the entry's remote only, and none that was
\* heard before the transmission last recorded.
THEOREM ObservedIsNew == Spec => []ObservedIsTrue
<1>1. Clean => ObservedIsTrue
  BY DEF Clean, ObservedIsTrue
<1> QED  BY <1>1, TypeInit, TypeStep, CleanInit, CleanStep, PTL DEF Spec

=============================================================================
