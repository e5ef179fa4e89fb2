---------------------------- MODULE OptionsFlow ----------------------------
(***************************************************************************)
(* The options of an entry, its features and its saved profiles, and the   *)
(* dialogs that change them (Proflame2OptionsFlow of config_flow.py with   *)
(* the normalisation of profile.py).  Any number of dialogs may be open on *)
(* one entry; a step of a dialog is one handler, which never awaits, and   *)
(* what it shows may be out of date when it is submitted.                  *)
(*                                                                         *)
(* A stored profile is its data, a function on all Keys; its display name  *)
(* counts only for the id made from it.                                    *)
(***************************************************************************)
EXTENDS Integers, Functions

CONSTANTS
  Dialogs,
  Names, IdOf,      \* what users type as a name, and the slug it gives
  EmptyName, NoId,  \* NoId: build_profile_id raises
  Forms,            \* the data of a profile form, which may be older than the features
  FeatureChoices    \* the features a user may declare

Model(features) == INSTANCE FireplaceState WITH Enabled <- features

ProfileIds == {IdOf[n] : n \in Names} \ {NoId}

ASSUME OptionsAssumption ==
  /\ EmptyName \in Names /\ IdOf[EmptyName] = NoId
  /\ \A d \in Forms : Model({})!IsData(d)
  /\ FeatureChoices \subseteq SUBSET Model({})!Features

VARIABLES
  options,   \* the options of the entry: features and profiles
  dialog     \* per dialog the form or menu it shows, the profile it has selected
             \* and the profiles the last menu or choice offered

Closed == [step |-> "closed", selected |-> NoId, offered |-> {}]

OptionsInit ==
  /\ options \in [features : FeatureChoices, profiles : {<<>>}]
  /\ dialog = [d \in Dialogs |-> Closed]

-----------------------------------------------------------------------------
\* Normalisation.

SavedData(s) ==
  [k \in Model({})!Keys |-> CASE k = "power" -> IF s.power THEN 1 ELSE 0
                              [] k = "flame" -> s.flame
                              [] OTHER       -> s.level[k]]

\* Mutant: what the form says is stored as it is.
normalize_saved_profile_input_raw(data, features) ==
  [k \in Model({})!Keys |-> IF k \in DOMAIN data THEN data[k] ELSE 0]

\* The data stored for a form that build_requested_state accepts.
normalize_saved_profile_input(data, features) ==
  SavedData(Model(features)!build_requested_state(data))

FormAccepted(name, data) == name # EmptyName /\ Model({})!RequestAccepted(data)

normalize_profiles(profiles, features) ==
  [id \in DOMAIN profiles |-> normalize_saved_profile_input(profiles[id], features)]

normalize_entry_options(o) == [o EXCEPT !.profiles = normalize_profiles(@, o.features)]

-----------------------------------------------------------------------------
\* The dialogs.

Stored == DOMAIN options.profiles

Show(d, step, selected) ==
  /\ dialog' = [dialog EXCEPT ![d] = [step |-> step, selected |-> selected,
                  offered |-> IF step \in {"profiles", "select_profile"} THEN Stored ELSE {}]]
  /\ UNCHANGED options

Shows(d, step) == dialog[d].step = step

\* async_create_entry: Home Assistant stores the new options and the dialog ends.
Save(d, updated) ==
  /\ options' = updated
  /\ dialog' = [dialog EXCEPT ![d] = Closed]

\* The profile of the dialog is gone, so the choice is shown again, or the
\* menu when there is nothing to choose from.
async_step_select_profile(d) ==
  IF Stored = {} THEN Show(d, "profiles", dialog[d].selected)
  ELSE Show(d, "select_profile", dialog[d].selected)

Open(d) == Shows(d, "closed") /\ Show(d, "init", NoId)

Dismiss(d) ==
  /\ ~Shows(d, "closed")
  /\ dialog' = [dialog EXCEPT ![d] = Closed]
  /\ UNCHANGED options

\* A choice in one of the two menus; the second one offers the stored profiles
\* only if there were some.
ChooseMenu(d) ==
  \/ Shows(d, "init") /\ \E step \in {"features", "profiles"} : Show(d, step, NoId)
  \/ Shows(d, "profiles") /\ Show(d, "add_profile", dialog[d].selected)
  \/ Shows(d, "profiles") /\ dialog[d].offered # {} /\ async_step_select_profile(d)

async_step_features(d, features) ==
  /\ Shows(d, "features")
  /\ Save(d, normalize_entry_options([options EXCEPT !.features = features]))

\* A chosen profile that is gone is an error of the form, unless none is left.
SubmitSelection(d, id, step) ==
  /\ Shows(d, "select_profile") /\ id \in dialog[d].offered
  /\ IF Stored = {} THEN Show(d, "profiles", dialog[d].selected)
     ELSE Show(d, IF id \in Stored THEN step ELSE "select_profile", id)

SetProfile(id, data) ==
  [features |-> options.features,
   profiles |-> [i \in Stored \cup {id} |->
                   IF i = id THEN normalize_saved_profile_input(data, options.features)
                   ELSE options.profiles[i]]]

async_step_add_profile(d, name, data) ==
  /\ Shows(d, "add_profile") /\ FormAccepted(name, data)
  /\ IdOf[name] \notin Stored \cup {NoId}
  /\ Save(d, SetProfile(IdOf[name], data))

\* Mutant: the dialog goes on with the profile it showed, gone or not.
async_step_edit_profile_no_recheck(d, name, data) ==
  /\ Shows(d, "edit_profile")
  /\ FormAccepted(name, data)
  /\ Save(d, SetProfile(dialog[d].selected, data))

\* An edited profile keeps its id under any name that is not empty.
async_step_edit_profile(d, name, data) ==
  LET id == dialog[d].selected
  IN /\ Shows(d, "edit_profile")
     /\ IF id \notin Stored THEN async_step_select_profile(d)
        ELSE FormAccepted(name, data) /\ Save(d, SetProfile(id, data))

async_step_delete_profile(d) ==
  LET id == dialog[d].selected
  IN /\ Shows(d, "delete_profile")
     /\ IF id \notin Stored THEN async_step_select_profile(d)
        ELSE Save(d, [options EXCEPT !.profiles = Restrict(@, Stored \ {id})])

\* The steps of a dialog; those that save change the options, or try to.
DialogStep ==
  \E d \in Dialogs :
    \/ Open(d) \/ Dismiss(d) \/ ChooseMenu(d) \/ async_step_delete_profile(d)
    \/ \E f \in FeatureChoices : async_step_features(d, f)
    \/ \E id \in ProfileIds, step \in {"edit_profile", "delete_profile"} :
         SubmitSelection(d, id, step)
    \/ \E name \in Names, data \in Forms :
         async_step_add_profile(d, name, data) \/ async_step_edit_profile(d, name, data)
=============================================================================
