----------------------------- MODULE KnownState -----------------------------
(***************************************************************************)
(* What the runtime entry promises about the fireplace it shows, without   *)
(* tasks, timers or storage: the known state becomes a requested state     *)
(* only when a transmission of that state ends, an observed one only when  *)
(* a frame is heard, and an unsent one only while the fireplace is off     *)
(* before and after.  ProflameControl is shown to implement it.            *)
(***************************************************************************)
CONSTANTS
  States, NoState, IsOff(_),
  Carried(_)   \* what a frame keeps of a state

VARIABLES known, confidence, profile,
          air      \* the states being transmitted

absvars == <<known, confidence, profile, air>>

AbsInit ==
  /\ confidence \in {"restored", "requested", "observed"}
  /\ \E stored \in States : known = Carried(stored) /\ profile \in {NoState, stored}
  /\ air = {}

Transmit ==
  /\ \E r \in air' : air' = air \cup {r}
  /\ UNCHANGED <<known, confidence, profile>>

\* The same state can be in the air twice, so one transmission may remain.
TransmissionEnds(r) == air' \in {air, air \ {r}}

Transmitted(r) ==
  /\ TransmissionEnds(r)
  /\ known' = r
  /\ confidence' = "requested"
  /\ profile' \in {NoState, r}

NotTransmitted(r) ==
  /\ TransmissionEnds(r)
  /\ UNCHANGED <<known, confidence, profile>>

\* What was heard or kept is the new known state itself.
FollowProfile == profile' = IF profile = known' THEN profile ELSE NoState

Hear ==
  /\ known' \in States
  /\ confidence' = "observed"
  /\ FollowProfile
  /\ UNCHANGED air

KeepWhileOff ==
  /\ known' \in States
  /\ IsOff(known) /\ IsOff(known')
  /\ confidence' = "requested"
  /\ FollowProfile
  /\ UNCHANGED air

\* A confirmation window closed unanswered.
StayUnconfirmed ==
  /\ confidence' = "requested"
  /\ UNCHANGED <<known, profile, air>>

\* An edit that leads away from the active profile drops it at once.
DropProfile ==
  /\ profile' = NoState
  /\ UNCHANGED <<known, confidence, air>>

AbsNext ==
  \/ Transmit
  \/ \E r \in air : Transmitted(r) \/ NotTransmitted(r)
  \/ Hear \/ KeepWhileOff \/ StayUnconfirmed \/ DropProfile

AbsSpec == AbsInit /\ [][AbsNext]_absvars
=============================================================================
