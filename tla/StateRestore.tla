---------------------------- MODULE StateRestore ----------------------------
(***************************************************************************)
(* What survives a restart or a reload: the entry keeps a packet (a state  *)
(* together with the frame that carried it), persists both, and rebuilds   *)
(* the packet from the frame bytes when it is set up again (runtime.py).   *)
(* The options decide which features an edit has and what the profile      *)
(* buttons send, and a dialog that changes them reloads the entry.  The    *)
(* operations of the entry are completed ones here; ProflameControl has    *)
(* their interleavings.                                                    *)
(***************************************************************************)
EXTENDS OptionsFlow

INSTANCE FireplaceState WITH Enabled <- options.features

CONSTANTS
  Remotes,       \* profiles a remote may have: seven or ten words (extended), and
                 \* the learned high bit of W4, 0 for a legacy profile (template)
  NoState,
  Edits, Requests,
  Frames         \* frames other transmitters send, bytes only

ASSUME RestoreAssumption ==
  /\ Remotes \subseteq [extended : BOOLEAN, template : {0, 1}]
  /\ \A r \in Remotes : ~r.extended => r.template = 0
  /\ NoState \notin FireplaceStates
  /\ \A d \in Requests : Model({})!IsData(d)
  /\ \A c \in Edits : Model({})!IsEdit(c)
  /\ Frames \subseteq [cmd1 : 0..255, cmd2 : 0..255, extended : BOOLEAN]

VARIABLES
  remote,    \* the profile of the entry
  packet,    \* last_packet: its state and its frame
  marker,    \* active_profile_state
  record     \* the persisted record of the entry

entryVars == <<remote, packet, marker, record>>
vars == <<options, dialog, entryVars>>

encode_packet(s) == [state |-> s, frame |-> encode_state(s, remote.extended, remote.template)]

\* ProflamePacket.from_frame; it raises when validate_observed does.
packet_from_frame(f) == [state |-> state_from_frame(f), frame |-> f]

Persisted(p, m) == [state |-> p.state, frame |-> p.frame, profiled |-> m # NoState]

\* async_initialize_safe_default_runtime_state: nothing to restore.
SafeDefault == [power |-> FALSE, flame |-> 0, thermostat |-> FALSE,
                level |-> [k \in Features |-> 0]]

Init ==
  /\ OptionsInit
  /\ remote \in Remotes
  /\ packet = encode_packet(SafeDefault)
  /\ marker = NoState
  /\ record = Persisted(packet, marker)

SetPacket(p) ==
  /\ packet' = p
  /\ record' = Persisted(p, marker')
  /\ UNCHANGED <<remote, options, dialog>>

\* A service sends a request, and the send succeeds.
SetState(d) ==
  /\ RequestAccepted(d)
  /\ marker' = NoState
  /\ SetPacket(encode_packet(build_requested_state(d)))

\* A profile button or the service applies a saved profile.
ApplyProfile(id) ==
  /\ RequestAccepted(options.profiles[id])
  /\ marker' = build_requested_state(options.profiles[id])
  /\ SetPacket(encode_packet(marker'))

\* An edit is sent, or kept because the fireplace stays off: the same packet
\* either way.
Edit(c) ==
  /\ StageAccepted(packet.state, c)
  /\ build_staged_state(packet.state, c) # packet.state
  /\ marker' = IF marker = build_staged_state(packet.state, c) THEN marker ELSE NoState
  /\ SetPacket(encode_packet(build_staged_state(packet.state, c)))

\* A frame of the remote is heard; its bytes decide the state.
Hear(f) ==
  /\ validate_observed(state_from_frame(f))
  /\ marker' = IF marker = state_from_frame(f) THEN marker ELSE NoState
  /\ SetPacket(packet_from_frame(f))

\* async_restore_runtime_state, when the entry is set up again.
Restored ==
  /\ packet' = packet_from_frame(record.frame)
  /\ marker' = IF record.profiled THEN record.state ELSE NoState
  /\ UNCHANGED <<remote, record>>

\* A user reloads the entry, or Home Assistant restarts and every dialog is gone.
Restart ==
  /\ Restored
  /\ dialog' \in {dialog, [d \in Dialogs |-> Closed]}
  /\ UNCHANGED options

\* OptionsFlowWithReload: a save that changes the options reloads the entry.
Dialog ==
  /\ DialogStep
  /\ IF options' = options THEN UNCHANGED entryVars ELSE Restored

Next ==
  \/ \E d \in Requests : SetState(d)
  \/ \E id \in Stored : ApplyProfile(id)
  \/ \E c \in Edits : Edit(c)
  \/ \E f \in Frames : f.extended = remote.extended /\ Hear(f)
  \/ Restart
  \/ Dialog

Spec == Init /\ [][Next]_vars

-----------------------------------------------------------------------------

\* What a frame carries of the states s and t is the same: all but the cpi feature
\* of a ten-word frame, which state_from_frame reads as off.
Agree(s, t) ==
  s = [t EXCEPT !.level["cpi"] = IF remote.extended THEN s.level["cpi"] ELSE @]

\* "Restore the last known state from persistent storage if one exists."
\* (async_restore_runtime_state): setup never fails on the persisted frame, whose
\* state validate_observed accepts; a restart, and a reload after a change of the
\* features or the profiles, changes nothing the frame of the known state carries;
\* and it restores the whole profile, which is that state.
RestartKeepsState == [][Restart \/ options' # options =>
  /\ validate_observed(state_from_frame(record.frame))
  /\ Agree(packet'.state, packet.state)
  /\ marker' = marker
  /\ marker' # NoState => Agree(marker', packet'.state)]_vars

\* An edit of the entity controls is refused only because the remote left the
\* light at level 7, which it can send and the controls cannot.
OnlyLightSevenBlocksEdits == \A c \in Edits :
  ~StageAccepted(packet.state, c) =>
    /\ packet.state.level["light"] = 7 /\ "light" \in options.features
    /\ "light" \notin DOMAIN c

\* "When you activate a profile, the full saved state is sent immediately"
\* (README.md): whatever features were switched and whichever dialogs were open
\* meanwhile, a stored profile still passes the checks of a request, so that the
\* entry loads with it, and what it requests is what is stored
\* (normalize_entry_options, async_execute_apply_profile).
StoredProfilesApply == \A id \in Stored :
  /\ RequestAccepted(options.profiles[id])
  /\ SavedData(build_requested_state(options.profiles[id])) = options.profiles[id]

SavedBy(step, id) == \E d \in Dialogs :
  dialog[d].step = step /\ dialog[d].selected = id /\ dialog'[d] = Closed

Added == \E d \in Dialogs : Shows(d, "add_profile") /\ dialog'[d] = Closed

\* The settings of profile id are the old ones, without features that are off.
OnlyCleared(id) == \A k \in Keys : options'.profiles[id][k] =
  IF k \in Features \ options'.features THEN 0 ELSE options.profiles[id][k]

\* A save changes only what its form is about, whatever other dialogs saved since
\* the form was shown: no edit brings back a profile that was deleted or touches
\* another, adding one takes none away, and switching features off only clears
\* their settings.  Two forms about one profile, or about the features, are not
\* kept apart: the later save overwrites the earlier one (Proflame2OptionsFlow).
SavesAreNarrow == [][
  LET before == DOMAIN options.profiles
      after  == DOMAIN options'.profiles
  IN /\ \A id \in before \ after : SavedBy("delete_profile", id)
     /\ after \ before # {} => Added /\ options'.features = options.features
     /\ \A id \in before \cap after : SavedBy("edit_profile", id) \/ OnlyCleared(id)]_vars
=============================================================================
