--------------------------- MODULE FireplaceState ---------------------------
(***************************************************************************)
(* The full-state command model of a Proflame 2 fireplace and the pure     *)
(* functions every control path goes through: building a request from      *)
(* service or profile data, merging one entity edit into a full state,     *)
(* validating it, and the mapping between a state and the two command      *)
(* bytes of a frame (control.py, protocol/models.py, protocol/encoder.py,  *)
(* protocol/packet.py).                                                    *)
(*                                                                         *)
(* A state keeps the five optional features as levels; the boolean ones    *)
(* (front, aux, cpi) have level 0 or 1.  Request data and edits are        *)
(* functions on a subset of Keys, as the mappings of the code are, with    *)
(* the booleans written 0 and 1.                                           *)
(***************************************************************************)
EXTENDS Integers

CONSTANT Enabled     \* the features the user declared for this fireplace

Features == {"fan", "light", "front", "aux", "cpi"}
Toggles  == {"front", "aux", "cpi"}
Keys     == {"power", "flame"} \cup Features

ASSUME EnabledAssumption == Enabled \subseteq Features

FireplaceStates ==
  [power : BOOLEAN, flame : 0..7, thermostat : BOOLEAN, level : [Features -> 0..7]]

-----------------------------------------------------------------------------
\* Request data: what a service call or a saved profile carries.

IsData(d) ==
  /\ DOMAIN d \subseteq Keys
  /\ \A k \in DOMAIN d : d[k] \in Int
  /\ \A k \in DOMAIN d \cap (Toggles \cup {"power"}) : d[k] \in {0, 1}

\* The checks of build_requested_state; it raises StateValidationError when
\* one of them fails, for a disabled feature as well.
RequestAccepted(d) ==
  /\ "power" \in DOMAIN d
  /\ d["power"] = 1 => "flame" \in DOMAIN d /\ d["flame"] \in 1..6
  /\ d["power"] = 0 /\ "flame" \in DOMAIN d => d["flame"] = 0
  /\ \A k \in {"fan", "light"} \cap DOMAIN d : d[k] \in 0..6

build_requested_state(d) ==
  [power      |-> d["power"] = 1,
   flame      |-> IF d["power"] = 1 THEN d["flame"] ELSE 0,
   thermostat |-> FALSE,
   level      |-> [k \in Features |-> IF k \in DOMAIN d \cap Enabled THEN d[k] ELSE 0]]

-----------------------------------------------------------------------------
\* Entity edits: partial changes merged into the staged or the current state.

IsEdit(c) ==
  /\ DOMAIN c \subseteq Keys
  /\ \A k \in DOMAIN c : /\ k = "flame" => c[k] \in 1..6
                         /\ k \in {"fan", "light"} => c[k] \in 0..6
                         /\ k \in Toggles \cup {"power"} => c[k] \in {0, 1}

StagedPower(base, c) ==
  \/ "flame" \in DOMAIN c /\ c["flame"] > 0
  \/ IF "power" \in DOMAIN c THEN c["power"] = 1 ELSE base.power

\* Mutant: a fireplace that is off has no flame level to start from.
StagedFlame_no_default(base, c) == IF "flame" \in DOMAIN c THEN c["flame"] ELSE base.flame

StagedFlame(base, c) ==
  IF "flame" \in DOMAIN c THEN c["flame"] ELSE IF base.flame > 0 THEN base.flame ELSE 1

StagedLevel(base, c) ==
  [k \in Features |-> IF k \notin Enabled THEN 0
                      ELSE IF k \in DOMAIN c THEN c[k] ELSE base.level[k]]

\* The mapping build_staged_state hands to build_requested_state.
StagedRequest(base, c) ==
  [k \in Keys |-> CASE k = "power" -> 1
                    [] k = "flame" -> StagedFlame(base, c)
                    [] OTHER       -> StagedLevel(base, c)[k]]

\* An edit that leaves the power on goes through build_requested_state and can
\* be rejected there; an edit that leaves it off is never checked.
StageAccepted(base, c) ==
  StagedPower(base, c) => RequestAccepted(StagedRequest(base, c))

\* Mutant: an edit keeps the thermostat mode it was observed in.
build_staged_state_keeps_thermostat(base, c) ==
  [power |-> StagedPower(base, c), flame |-> StagedFlame(base, c),
   thermostat |-> base.thermostat, level |-> StagedLevel(base, c)]

build_staged_state(base, c) ==
  IF StagedPower(base, c)
    THEN build_requested_state(StagedRequest(base, c))
    ELSE [power |-> FALSE, flame |-> StagedFlame(base, c),
          thermostat |-> FALSE, level |-> StagedLevel(base, c)]

-----------------------------------------------------------------------------
\* Validation of states on their way to and from the air.

LevelsValid(s) ==
  /\ s.level["fan"] \in 0..6
  /\ s.level["light"] \in 0..7

\* encode_state never passes allow_thermostat.
validate_transmit(s, allow_power_off_flame) ==
  /\ LevelsValid(s)
  /\ ~s.thermostat
  /\ IF s.power THEN s.flame \in 1..6
     ELSE IF allow_power_off_flame THEN s.flame \in 0..6 ELSE s.flame = 0

\* state_from_frame always passes allow_thermostat.
validate_observed(s) ==
  /\ LevelsValid(s)
  /\ IF s.power /\ ~s.thermostat THEN s.flame \in 1..6 ELSE s.flame \in 0..6

-----------------------------------------------------------------------------
\* The command bytes.  Bit fields are written with * % and \div.

Bit(b) == IF b THEN 1 ELSE 0

build_cmd1(s) ==
  Bit(s.power) + 2 * Bit(s.thermostat) + 16 * (s.level["light"] % 8) + 128 * s.level["cpi"]

\* Mutant: the front bit is one position too high.
build_cmd2_front_shifted(s) ==
  (s.flame % 8) + 8 * s.level["aux"] + 16 * (s.level["fan"] % 8) + 256 * s.level["front"]

build_cmd2(s) ==
  (s.flame % 8) + 8 * s.level["aux"] + 16 * (s.level["fan"] % 8) + 128 * s.level["front"]

\* The state part of a frame.  An extended frame ORs the learned high bit of
\* W4 into cmd1 (template 0 or 1); a legacy frame has template 0.
encode_state(s, extended, template) ==
  [cmd1     |-> IF template = 1 /\ s.level["cpi"] = 0 THEN build_cmd1(s) + 128 ELSE build_cmd1(s),
   cmd2     |-> build_cmd2(s),
   extended |-> extended]

\* What state_from_frame reads off the bytes, before validate_observed.
state_from_frame(f) ==
  [power      |-> f.cmd1 % 2 = 1,
   flame      |-> f.cmd2 % 8,
   thermostat |-> (f.cmd1 \div 2) % 2 = 1,
   level      |-> [k \in Features |->
                     CASE k = "light" -> (f.cmd1 \div 16) % 8
                       [] k = "cpi"   -> IF f.extended THEN 0 ELSE f.cmd1 \div 128
                       [] k = "aux"   -> (f.cmd2 \div 8) % 2
                       [] k = "fan"   -> (f.cmd2 \div 16) % 8
                       [] k = "front" -> f.cmd2 \div 128]]
=============================================================================
