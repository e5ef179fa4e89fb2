------------------------- MODULE StateRestoreProofs -------------------------
(***************************************************************************)
(* What holds of StateRestore for every remote, request, edit and frame,   *)
(* any dialogs and any declarable features.                                *)
(***************************************************************************)
EXTENDS StateRestore, TLAPS

-----------------------------------------------------------------------------
\* Requests, edits and stored profiles.

\* A state a request, an edit or a frame may lead to.
WellFormed(s) ==
  /\ s \in FireplaceStates
  /\ \A k \in Toggles : s.level[k] \in {0, 1}
  /\ validate_observed(s)

\* A stored profile that needs no normalisation for the features F.
Fits(p, F) ==
  /\ p \in [Keys -> 0..6]
  /\ \A k \in Toggles \cup {"power"} : p[k] \in {0, 1}
  /\ IF p["power"] = 1 THEN p["flame"] \in 1..6 ELSE p["flame"] = 0
  /\ \A k \in Features \ F : p[k] = 0

\* The definitions that the features do not matter for are the same in each instance.
LEMMA SameDefinitions ==
  /\ Model({})!Keys = Keys
  /\ Model({})!Features = Features
  /\ \A d : Model({})!RequestAccepted(d) <=> RequestAccepted(d)
  /\ \A d : Model({})!IsData(d) <=> IsData(d)
  /\ \A c : Model({})!IsEdit(c) <=> IsEdit(c)
<1>1. Model({})!Features = Features /\ Model({})!Toggles = Toggles
  BY DEF Model!Features, Features, Model!Toggles, Toggles
<1>2. Model({})!Keys = Keys
  BY <1>1 DEF Model!Keys, Keys
<1>3. \A d : Model({})!RequestAccepted(d) <=> RequestAccepted(d)
  BY DEF Model!RequestAccepted, RequestAccepted
<1>4. \A d : Model({})!IsData(d) <=> IsData(d)
  BY <1>1, <1>2 DEF Model!IsData, IsData
<1>5. \A c : Model({})!IsEdit(c) <=> IsEdit(c)
  BY <1>1, <1>2 DEF Model!IsEdit, IsEdit
<1> QED BY <1>1, <1>2, <1>3, <1>4, <1>5

\* What build_requested_state makes of accepted data, for any features.
Built(d, F) ==
  [power      |-> d["power"] = 1,
   flame      |-> IF d["power"] = 1 THEN d["flame"] ELSE 0,
   thermostat |-> FALSE,
   level      |-> [k \in Features |-> IF k \in DOMAIN d \cap F THEN d[k] ELSE 0]]

LEMMA BuiltIs ==
  /\ \A d : build_requested_state(d) = Built(d, options.features)
  /\ \A d, F : Model(F)!build_requested_state(d) = Built(d, F)
BY DEF build_requested_state, Model!build_requested_state, Built, Features, Model!Features

LEMMA AcceptedLevels ==
  ASSUME NEW d, IsData(d), RequestAccepted(d), NEW F
  PROVE  \A k \in Features :
           (IF k \in DOMAIN d \cap F THEN d[k] ELSE 0) \in (IF k \in Toggles THEN {0, 1} ELSE 0..6)
BY DEF IsData, RequestAccepted, Features, Toggles

LEMMA BuiltIsWellFormed ==
  ASSUME NEW d, IsData(d), RequestAccepted(d), NEW F
  PROVE  WellFormed(Built(d, F))
<1> DEFINE s == Built(d, F)
           l == [k \in Features |-> IF k \in DOMAIN d \cap F THEN d[k] ELSE 0]
           f == IF d["power"] = 1 THEN d["flame"] ELSE 0
           b == d["power"] = 1
<1>1. \A k \in Features : l[k] \in (IF k \in Toggles THEN {0, 1} ELSE 0..6)
  BY AcceptedLevels
<1>2. l \in [Features -> 0..7] /\ (\A k \in Toggles : l[k] \in {0, 1}) /\ l["fan"] \in 0..6 /\ l["light"] \in 0..7
  BY <1>1 DEF Features, Toggles
<1>3. f \in 0..6 /\ (b => f \in 1..6)
  BY DEF RequestAccepted
<1>4. s = [power |-> b, flame |-> f, thermostat |-> FALSE, level |-> l]
  BY DEF Built
<1>5. b \in BOOLEAN
  OBVIOUS
<1> HIDE DEF s, l, f, b
<1>6. s \in FireplaceStates /\ s.level = l /\ s.flame = f /\ s.power = b
  BY <1>2, <1>3, <1>4, <1>5 DEF FireplaceStates
<1>7. validate_observed(s)
  BY <1>2, <1>3, <1>6 DEF validate_observed, LevelsValid
<1> QED BY <1>2, <1>6, <1>7 DEF WellFormed, s

LEMMA SavedDataIs ==
  \A s : SavedData(s) = [k \in Keys |-> CASE k = "power" -> IF s.power THEN 1 ELSE 0
                                         [] k = "flame" -> s.flame
                                         [] OTHER       -> s.level[k]]
BY SameDefinitions DEF SavedData

\* What is stored for accepted data fits the features it was normalised for.
LEMMA NormalizedFits ==
  ASSUME NEW d, IsData(d), RequestAccepted(d), NEW F
  PROVE  Fits(normalize_saved_profile_input(d, F), F)
<1> DEFINE s == Built(d, F)
           p == SavedData(s)
           l == [k \in Features |-> IF k \in DOMAIN d \cap F THEN d[k] ELSE 0]
<1>1. normalize_saved_profile_input(d, F) = p
  BY BuiltIs DEF normalize_saved_profile_input
<1>2. \A k \in Features : l[k] \in (IF k \in Toggles THEN {0, 1} ELSE 0..6)
  BY AcceptedLevels
<1>3. \A k \in Features \ F : l[k] = 0
  OBVIOUS
<1>4. s.level = l /\ s.flame = (IF d["power"] = 1 THEN d["flame"] ELSE 0) /\ s.power = (d["power"] = 1)
  BY DEF Built
<1>5. /\ p["power"] = IF s.power THEN 1 ELSE 0
      /\ p["flame"] = s.flame
      /\ \A k \in Features : p[k] = s.level[k]
      /\ p = [k \in Keys |-> p[k]]
  BY SavedDataIs DEF Keys, Features
<1>6. p["power"] = IF d["power"] = 1 THEN 1 ELSE 0
  BY <1>4, <1>5
<1> HIDE DEF s, p, l
<1>7. p["flame"] \in 0..6 /\ IF p["power"] = 1 THEN p["flame"] \in 1..6 ELSE p["flame"] = 0
  BY <1>4, <1>5, <1>6 DEF RequestAccepted
<1>8. /\ \A k \in Keys : p[k] \in 0..6
      /\ \A k \in Toggles \cup {"power"} : p[k] \in {0, 1}
      /\ \A k \in Features \ F : p[k] = 0
  BY <1>2, <1>3, <1>4, <1>5, <1>6, <1>7 DEF Keys, Features, Toggles
<1>9. p \in [Keys -> 0..6]
  BY <1>5, <1>8
<1> QED BY <1>1, <1>7, <1>8, <1>9 DEF Fits

\* A profile that fits some features passes the checks of a request.
LEMMA FittingIsAccepted ==
  ASSUME NEW p, NEW F, Fits(p, F)
  PROVE  IsData(p) /\ RequestAccepted(p)
<1>1. DOMAIN p = Keys /\ \A k \in Keys : p[k] \in 0..6
  BY DEF Fits
<1> QED BY <1>1 DEF Fits, IsData, RequestAccepted, Keys, Features, Toggles

\* Normalising it again changes only what the features take away.
LEMMA NormalizedAgain ==
  ASSUME NEW p, NEW F, NEW G, Fits(p, F)
  PROVE  \A k \in Keys : normalize_saved_profile_input(p, G)[k] =
           IF k \in Features \ G THEN 0 ELSE p[k]
<1>1. DOMAIN p = Keys
  BY DEF Fits
<1>2. normalize_saved_profile_input(p, G) = SavedData(Built(p, G))
  BY BuiltIs DEF normalize_saved_profile_input
<1> DEFINE s == Built(p, G)
<1>3. /\ SavedData(s)["power"] = IF s.power THEN 1 ELSE 0
      /\ SavedData(s)["flame"] = s.flame
      /\ \A k \in Features : SavedData(s)[k] = s.level[k]
  BY SavedDataIs DEF Keys, Features
<1>4. s.flame = (IF p["power"] = 1 THEN p["flame"] ELSE 0) /\ s.power = (p["power"] = 1)
  BY DEF Built
<1>5. \A k \in Features : s.level[k] = IF k \in G THEN p[k] ELSE 0
  BY <1>1 DEF Built, Keys
<1> HIDE DEF s
<1>6. SavedData(s)["power"] = p["power"] /\ SavedData(s)["flame"] = p["flame"]
  BY <1>3, <1>4 DEF Fits
<1>7. \A k \in Features : SavedData(s)[k] = IF k \in Features \ G THEN 0 ELSE p[k]
  BY <1>3, <1>5
<1> QED BY <1>2, <1>6, <1>7 DEF Keys, Features, s

-----------------------------------------------------------------------------
\* Edits.

\* An edit of a state that may have been heard leads to such a state, and is refused
\* only for the light level that the controls do not have.
LEMMA StagedLevels ==
  ASSUME NEW s, WellFormed(s), NEW c, IsEdit(c)
  PROVE  /\ \A k \in Features : StagedLevel(s, c)[k] \in (IF k \in Toggles THEN {0, 1} ELSE 0..7)
         /\ StagedLevel(s, c)["fan"] \in 0..6
         /\ StagedLevel(s, c)["light"] = 7 =>
              s.level["light"] = 7 /\ "light" \in options.features /\ "light" \notin DOMAIN c
         /\ StagedFlame(s, c) \in 1..6
<1>1. /\ s.level \in [Features -> 0..7] /\ s.flame \in 0..7
      /\ \A k \in Toggles : s.level[k] \in {0, 1}
      /\ s.level["fan"] \in 0..6 /\ s.flame \in 0..6
  BY DEF WellFormed, FireplaceStates, validate_observed, LevelsValid
<1>2. \A k \in Features : StagedLevel(s, c)[k] =
        IF k \notin options.features THEN 0 ELSE IF k \in DOMAIN c THEN c[k] ELSE s.level[k]
  BY DEF StagedLevel
<1>3. \A k \in DOMAIN c :
        /\ k \in {"fan", "light"} => c[k] \in 0..6
        /\ k \in Toggles => c[k] \in {0, 1}
        /\ k = "flame" => c[k] \in 1..6
  BY DEF IsEdit
<1>4. StagedFlame(s, c) \in 1..6
  <2>1. CASE "flame" \in DOMAIN c
    <3>1. c["flame"] \in 1..6
      BY <1>3, <2>1, Zenon
    <3>2. StagedFlame(s, c) = c["flame"]
      BY <2>1, Zenon DEF StagedFlame
    <3> QED  BY <3>1, <3>2, Zenon
  <2>2. CASE "flame" \notin DOMAIN c
    <3>1. StagedFlame(s, c) = IF s.flame > 0 THEN s.flame ELSE 1
      BY <2>2 DEF StagedFlame
    <3> QED  BY <1>1, <3>1
  <2> QED  BY <2>1, <2>2
<1>5. ASSUME NEW k \in Features
      PROVE  /\ StagedLevel(s, c)[k] \in (IF k \in Toggles THEN {0, 1} ELSE 0..7)
             /\ k = "fan" => StagedLevel(s, c)[k] \in 0..6
             /\ k = "light" /\ StagedLevel(s, c)[k] = 7 =>
                  s.level["light"] = 7 /\ "light" \in options.features /\ "light" \notin DOMAIN c
  <2>1. CASE k \notin options.features
    BY <1>2, <2>1
  <2>2. CASE k \in options.features /\ k \in DOMAIN c
    <3> DEFINE v == c[k]
    <3>1. StagedLevel(s, c)[k] = v
      BY <1>2, <2>2
    <3>2. (k \in {"fan", "light"} => v \in 0..6) /\ (k \in Toggles => v \in {0, 1})
      BY <1>3, <2>2, Zenon
    <3> HIDE DEF v
    <3> QED  BY <3>1, <3>2 DEF Features, Toggles
  <2>3. CASE k \in options.features /\ k \notin DOMAIN c
    <3>1. StagedLevel(s, c)[k] = s.level[k]
      BY <1>2, <2>3
    <3> QED  BY <1>1, <2>3, <3>1 DEF Features, Toggles
  <2> QED  BY <2>1, <2>2, <2>3
<1>6. "fan" \in Features /\ "light" \in Features
  BY DEF Features
<1> QED BY <1>4, <1>5, <1>6

LEMMA StagedRequestIs ==
  ASSUME NEW s, WellFormed(s), NEW c, IsEdit(c)
  PROVE  /\ IsData(StagedRequest(s, c))
         /\ StagedLevel(s, c)["light"] # 7 => RequestAccepted(StagedRequest(s, c))
<1> DEFINE d == StagedRequest(s, c)
<1>1. /\ DOMAIN d = Keys /\ d["power"] = 1 /\ d["flame"] = StagedFlame(s, c)
      /\ \A k \in Features : d[k] = StagedLevel(s, c)[k]
  BY DEF StagedRequest, Keys, Features
<1> HIDE DEF d
<1>2. IsData(d)
  BY <1>1, StagedLevels DEF IsData, Keys, Features, Toggles
<1>3. ASSUME StagedLevel(s, c)["light"] # 7 PROVE RequestAccepted(d)
  BY <1>1, <1>3, StagedLevels DEF RequestAccepted, Keys, Features, Toggles
<1> QED BY <1>2, <1>3 DEF d

LEMMA RefusedForLight ==
  ASSUME NEW s, WellFormed(s), NEW c, IsEdit(c), ~StageAccepted(s, c)
  PROVE  s.level["light"] = 7 /\ "light" \in options.features /\ "light" \notin DOMAIN c
BY StagedLevels, StagedRequestIs DEF StageAccepted

LEMMA StagedIsWellFormed ==
  ASSUME NEW s, WellFormed(s), NEW c, IsEdit(c), StageAccepted(s, c)
  PROVE  WellFormed(build_staged_state(s, c))
<1>1. CASE StagedPower(s, c)
  <2>1. RequestAccepted(StagedRequest(s, c))
    BY <1>1 DEF StageAccepted
  <2>2. build_staged_state(s, c) = Built(StagedRequest(s, c), options.features)
    BY <1>1, BuiltIs DEF build_staged_state
  <2> QED  BY <2>1, <2>2, StagedRequestIs, BuiltIsWellFormed
<1>2. CASE ~StagedPower(s, c)
  <2> DEFINE l == StagedLevel(s, c)
             f == StagedFlame(s, c)
             t == build_staged_state(s, c)
  <2>1. t = [power |-> FALSE, flame |-> f, thermostat |-> FALSE, level |-> l]
    BY <1>2 DEF build_staged_state
  <2>2. /\ l = [k \in Features |-> l[k]]
        /\ \A k \in Features : l[k] \in (IF k \in Toggles THEN {0, 1} ELSE 0..7)
        /\ l["fan"] \in 0..6 /\ f \in 1..6
    BY StagedLevels DEF StagedLevel
  <2> HIDE DEF l, f, t
  <2>3. l \in [Features -> 0..7] /\ (\A k \in Toggles : l[k] \in {0, 1}) /\ l["light"] \in 0..7
    BY <2>2 DEF Features, Toggles
  <2>4. t \in FireplaceStates /\ t.level = l /\ t.flame = f /\ ~t.power
    BY <2>1, <2>2, <2>3 DEF FireplaceStates
  <2>5. validate_observed(t)
    BY <2>2, <2>3, <2>4 DEF validate_observed, LevelsValid
  <2> QED  BY <2>3, <2>4, <2>5 DEF WellFormed, t
<1> QED BY <1>1, <1>2

-----------------------------------------------------------------------------
\* The command bytes.

FrameBytes == [cmd1 : 0..255, cmd2 : 0..255, extended : BOOLEAN]

LEMMA Cmd1Bits ==
  \A p, t, c \in {0, 1}, l \in 0..7 :
    LET n == p + 2 * t + 16 * l + 128 * c IN
    /\ n \in 0..255
    /\ n % 2 = p /\ (n \div 2) % 2 = t /\ (n \div 16) % 8 = l /\ n \div 128 = c
OBVIOUS

LEMMA Cmd2Bits ==
  \A a, r \in {0, 1}, f, v \in 0..7 :
    LET n == f + 8 * a + 16 * v + 128 * r IN
    /\ n \in 0..255
    /\ n % 8 = f /\ (n \div 8) % 2 = a /\ (n \div 16) % 8 = v /\ n \div 128 = r
OBVIOUS

LEMMA Small == \A n \in 0..7 : n % 8 = n
OBVIOUS

LEMMA ReadBits ==
  \A n \in 0..255 :
    /\ n % 8 \in 0..7 /\ (n \div 16) % 8 \in 0..7
    /\ (n \div 8) % 2 \in {0, 1} /\ n \div 128 \in {0, 1}
OBVIOUS

\* What is read off any two bytes has the types of a state.
LEMMA ReadIsTyped ==
  ASSUME NEW f \in FrameBytes
  PROVE  /\ state_from_frame(f) \in FireplaceStates
         /\ \A k \in Toggles : state_from_frame(f).level[k] \in {0, 1}
<1> DEFINE l == state_from_frame(f).level
<1>1. f.cmd1 \in 0..255 /\ f.cmd2 \in 0..255
  BY DEF FrameBytes
<1>2. /\ state_from_frame(f) = [power      |-> f.cmd1 % 2 = 1,
                               flame      |-> f.cmd2 % 8,
                               thermostat |-> (f.cmd1 \div 2) % 2 = 1,
                               level      |-> l]
      /\ l = [k \in Features |-> l[k]]
      /\ l["light"] = (f.cmd1 \div 16) % 8
      /\ l["cpi"] = IF f.extended THEN 0 ELSE f.cmd1 \div 128
      /\ l["aux"] = (f.cmd2 \div 8) % 2
      /\ l["fan"] = (f.cmd2 \div 16) % 8
      /\ l["front"] = f.cmd2 \div 128
  BY DEF state_from_frame, Features
<1> HIDE DEF l
<1>3. \A k \in Features : l[k] \in (IF k \in Toggles THEN {0, 1} ELSE 0..7)
  BY <1>1, <1>2, ReadBits DEF Features, Toggles
<1>4. l \in [Features -> 0..7] /\ \A k \in Toggles : l[k] \in {0, 1}
  BY <1>2, <1>3 DEF Features, Toggles
<1> DEFINE p == f.cmd1 % 2 = 1
           t == (f.cmd1 \div 2) % 2 = 1
           m == f.cmd2 % 8
<1>5. p \in BOOLEAN /\ t \in BOOLEAN /\ m \in 0..7
  BY <1>1, ReadBits
<1> HIDE DEF p, t, m
<1>6. state_from_frame(f) = [power |-> p, flame |-> m, thermostat |-> t, level |-> l]
  BY <1>2 DEF p, t, m
<1>7. state_from_frame(f) \in FireplaceStates
  BY <1>4, <1>5, <1>6 DEF FireplaceStates
<1> QED BY <1>4, <1>7 DEF l

\* Two states a frame cannot tell apart.
Same(s, t) ==
  /\ s.power = t.power /\ s.flame = t.flame /\ s.thermostat = t.thermostat
  /\ \A k \in Features : (k = "cpi" /\ remote.extended) \/ s.level[k] = t.level[k]

LEMMA AgreeIsSame ==
  ASSUME NEW s \in FireplaceStates, NEW t \in FireplaceStates, Same(s, t)
  PROVE  Agree(s, t)
<1> DEFINE v == IF remote.extended THEN s.level["cpi"] ELSE t.level["cpi"]
           l == [t.level EXCEPT !["cpi"] = v]
<1>1. s.level \in [Features -> 0..7] /\ t.level \in [Features -> 0..7] /\ "cpi" \in Features
  BY DEF FireplaceStates, Features
<1>2. s.level = l
  BY <1>1 DEF Same
<1>3. [t EXCEPT !.level["cpi"] = IF remote.extended THEN s.level["cpi"] ELSE @] = [t EXCEPT !.level = l]
  BY <1>1 DEF FireplaceStates
<1> HIDE DEF l
<1>4. [t EXCEPT !.level = l] = s
  BY <1>2 DEF Same, FireplaceStates
<1> QED BY <1>3, <1>4 DEF Agree

\* A state comes back from its frame, but for the cpi feature of a ten-word frame.
LEMMA RoundTrip ==
  ASSUME NEW s, WellFormed(s), NEW r \in Remotes, remote = r
  PROVE  LET f == encode_state(s, remote.extended, remote.template)
         IN /\ f \in FrameBytes
            /\ Same(state_from_frame(f), s)
            /\ validate_observed(state_from_frame(f))
<1> DEFINE f == encode_state(s, remote.extended, remote.template)
           l == s.level
           p == Bit(s.power)
           t == Bit(s.thermostat)
           c == IF r.template = 1 THEN 1 ELSE l["cpi"]
<1>1. /\ r.extended \in BOOLEAN /\ r.template \in {0, 1}
      /\ ~r.extended => r.template = 0
  BY RestoreAssumption
<1>2. /\ s.power \in BOOLEAN /\ s.thermostat \in BOOLEAN /\ s.flame \in 0..7
      /\ \A k \in Features : l[k] \in 0..7
      /\ l["aux"] \in {0, 1} /\ l["front"] \in {0, 1} /\ l["cpi"] \in {0, 1}
  BY DEF WellFormed, FireplaceStates, Toggles
<1>3. p \in {0, 1} /\ t \in {0, 1} /\ (p = 1 <=> s.power) /\ (t = 1 <=> s.thermostat)
  BY <1>2 DEF Bit
<1>4. c \in {0, 1} /\ (~r.extended => c = l["cpi"])
  BY <1>1, <1>2
<1>5. l["light"] \in 0..7 /\ l["fan"] \in 0..7
  BY <1>2 DEF Features
<1>6. build_cmd1(s) = p + 2 * t + 16 * l["light"] + 128 * l["cpi"]
  BY <1>5, Small DEF build_cmd1
<1>7. build_cmd2(s) = s.flame + 8 * l["aux"] + 16 * l["fan"] + 128 * l["front"]
  BY <1>2, <1>5, Small DEF build_cmd2
<1>8. f = [cmd1 |-> IF r.template = 1 /\ l["cpi"] = 0 THEN build_cmd1(s) + 128 ELSE build_cmd1(s),
           cmd2 |-> build_cmd2(s), extended |-> r.extended]
  BY DEF encode_state
<1> DEFINE a == s.flame
           b == l["light"]
           d == l["fan"]
           e == l["aux"]
           g == l["front"]
           h == l["cpi"]
<1>9. /\ f.cmd1 = p + 2 * t + 16 * b + 128 * c
      /\ f.cmd2 = a + 8 * e + 16 * d + 128 * g
      /\ f.extended = r.extended
  <2>1. (IF r.template = 1 /\ h = 0 THEN build_cmd1(s) + 128 ELSE build_cmd1(s))
          = p + 2 * t + 16 * b + 128 * c
    BY <1>1, <1>2, <1>3, <1>5, <1>6
  <2> QED  BY <1>7, <1>8, <2>1
<1>10. /\ f.cmd1 \in 0..255 /\ f.cmd1 % 2 = p /\ (f.cmd1 \div 2) % 2 = t
       /\ (f.cmd1 \div 16) % 8 = b /\ f.cmd1 \div 128 = c
  BY <1>3, <1>4, <1>5, <1>9, Cmd1Bits
<1>11. /\ f.cmd2 \in 0..255 /\ f.cmd2 % 8 = a /\ (f.cmd2 \div 8) % 2 = e
       /\ (f.cmd2 \div 16) % 8 = d /\ f.cmd2 \div 128 = g
  BY <1>2, <1>5, <1>9, Cmd2Bits
<1>12. f = [cmd1 |-> f.cmd1, cmd2 |-> f.cmd2, extended |-> r.extended]
  BY <1>8
<1> DEFINE q == state_from_frame(f)
<1> HIDE DEF f, p, t, c, a, b, d, e, g, h
<1>13. f \in FrameBytes
  BY <1>1, <1>10, <1>11, <1>12 DEF FrameBytes
<1>14. /\ q.flame = a /\ q.power = (p = 1) /\ q.thermostat = (t = 1)
       /\ q.level["light"] = b /\ q.level["fan"] = d
       /\ q.level["aux"] = e /\ q.level["front"] = g
       /\ q.level["cpi"] = IF r.extended THEN 0 ELSE c
  BY <1>9, <1>10, <1>11 DEF state_from_frame, Features
<1> HIDE DEF q
<1>15. Same(q, s)
  BY <1>1, <1>2, <1>3, <1>4, <1>14 DEF Same, Features, a, b, d, e, g, h
<1>16. validate_observed(q)
  BY <1>3, <1>14 DEF WellFormed, validate_observed, LevelsValid, a, b, d
<1> QED BY <1>13, <1>15, <1>16 DEF f, q

-----------------------------------------------------------------------------
\* The invariant.

Profiles == UNION {[I -> [Keys -> 0..6]] : I \in SUBSET ProfileIds}

\* The stored profiles fit the features they are stored with.
OptionsOK ==
  /\ dialog = [d \in Dialogs |-> dialog[d]]
  /\ options \in [features : SUBSET Features, profiles : Profiles]
  /\ \A id \in Stored : Fits(options.profiles[id], options.features)

\* The frame of the last packet carries its state, and can be read again.
PacketOK ==
  /\ remote \in Remotes
  /\ WellFormed(packet.state)
  /\ packet.frame \in FrameBytes
  /\ Same(state_from_frame(packet.frame), packet.state)
  /\ validate_observed(state_from_frame(packet.frame))

\* The record has that frame; the marker is its state or none.
RecordOK ==
  /\ record.frame = packet.frame
  /\ record.profiled <=> marker # NoState
  /\ record.state \in FireplaceStates
  /\ Same(record.state, state_from_frame(packet.frame))
  /\ marker # NoState => marker = record.state

RestoreInv == OptionsOK /\ PacketOK /\ RecordOK

LEMMA SameIsSymmetric == ASSUME NEW s, NEW t, Same(s, t) PROVE Same(t, s)
BY DEF Same

\* A packet whose frame carries its state.
Carries(p) ==
  /\ WellFormed(p.state)
  /\ p.frame \in FrameBytes
  /\ Same(state_from_frame(p.frame), p.state)
  /\ validate_observed(state_from_frame(p.frame))

LEMMA EncodedCarries ==
  ASSUME NEW s, WellFormed(s), remote \in Remotes
  PROVE  Carries(encode_packet(s)) /\ encode_packet(s).state = s
<1>1. /\ encode_packet(s).state = s
      /\ encode_packet(s).frame = encode_state(s, remote.extended, remote.template)
  BY DEF encode_packet
<1> QED BY <1>1, RoundTrip DEF Carries

LEMMA HeardCarries ==
  ASSUME NEW f \in FrameBytes, validate_observed(state_from_frame(f))
  PROVE  Carries(packet_from_frame(f)) /\ packet_from_frame(f).state = state_from_frame(f)
<1>1. packet_from_frame(f).state = state_from_frame(f) /\ packet_from_frame(f).frame = f
  BY DEF packet_from_frame
<1>2. WellFormed(state_from_frame(f))
  BY ReadIsTyped DEF WellFormed
<1>3. Same(state_from_frame(f), state_from_frame(f))
  BY DEF Same
<1> QED BY <1>1, <1>2, <1>3 DEF Carries

\* A new packet and its record.
LEMMA PacketSet ==
  ASSUME RestoreInv, NEW p, Carries(p), SetPacket(p), marker' \in {NoState, p.state}
  PROVE  RestoreInv'
<1>1. packet' = p /\ UNCHANGED <<remote, options, dialog>>
  BY DEF SetPacket
<1>2. OptionsOK'
  BY <1>1 DEF RestoreInv, OptionsOK, Stored, Fits
<1>3. PacketOK'
  BY <1>1 DEF RestoreInv, PacketOK, Carries, Same
<1>4. /\ record'.state = p.state /\ record'.frame = p.frame
      /\ record'.profiled = (marker' # NoState)
  BY DEF SetPacket, Persisted
<1>5. p.state \in FireplaceStates
  BY DEF Carries, WellFormed
<1>6. Same(p.state, state_from_frame(p.frame))
  BY SameIsSymmetric DEF Carries
<1>7. RecordOK'
  BY <1>1, <1>4, <1>5, <1>6 DEF RecordOK, Same
<1> QED BY <1>2, <1>3, <1>7 DEF RestoreInv

\* What a restart finds.
LEMMA RestoredKeeps ==
  ASSUME RestoreInv, Restored
  PROVE  /\ validate_observed(state_from_frame(record.frame))
         /\ Agree(packet'.state, packet.state)
         /\ marker' = marker
         /\ marker' # NoState => Agree(marker', packet'.state)
         /\ PacketOK' /\ RecordOK'
<1> DEFINE q == state_from_frame(packet.frame)
<1>1. /\ packet' = packet_from_frame(packet.frame) /\ UNCHANGED <<remote, record>>
      /\ marker' = IF record.profiled THEN record.state ELSE NoState
  BY DEF Restored, RestoreInv, RecordOK
<1>2. packet'.state = q /\ packet'.frame = packet.frame
  BY <1>1 DEF packet_from_frame
<1>3. /\ q \in FireplaceStates /\ WellFormed(q) /\ Same(q, packet.state) /\ validate_observed(q)
      /\ packet.state \in FireplaceStates /\ record.frame = packet.frame
  BY ReadIsTyped DEF RestoreInv, PacketOK, RecordOK, WellFormed
<1>4. marker' = marker
  BY <1>1 DEF RestoreInv, RecordOK
<1>5. marker # NoState => marker \in FireplaceStates /\ Same(marker, q)
  BY DEF RestoreInv, RecordOK
<1> HIDE DEF q
<1>6. Agree(packet'.state, packet.state)
  BY <1>2, <1>3, AgreeIsSame
<1>7. marker' # NoState => Agree(marker', packet'.state)
  BY <1>2, <1>3, <1>4, <1>5, AgreeIsSame
<1>8. Same(q, q)
  BY DEF Same
<1>9. PacketOK'
  BY <1>1, <1>2, <1>3, <1>8 DEF RestoreInv, PacketOK, Same, q
<1>10. RecordOK'
  BY <1>1, <1>2, <1>4 DEF RestoreInv, RecordOK, Same
<1> QED BY <1>3, <1>4, <1>6, <1>7, <1>9, <1>10 DEF q

-----------------------------------------------------------------------------
\* The steps.

LEMMA StoredFits ==
  ASSUME OptionsOK, NEW id \in Stored
  PROVE  IsData(options.profiles[id]) /\ RequestAccepted(options.profiles[id])
BY FittingIsAccepted DEF OptionsOK

LEMMA RequestSteps ==
  ASSUME RestoreInv,
         \/ \E d \in Requests : SetState(d)
         \/ \E id \in Stored : ApplyProfile(id)
         \/ \E c \in Edits : Edit(c)
         \/ \E f \in Frames : Hear(f)
  PROVE  RestoreInv'
<1> USE DEF RestoreInv
<1>0. remote \in Remotes /\ WellFormed(packet.state)
  BY DEF PacketOK
<1>1. ASSUME NEW d \in Requests, SetState(d) PROVE RestoreInv'
  <2>1. IsData(d) /\ RequestAccepted(d)
    BY <1>1, RestoreAssumption, SameDefinitions DEF SetState
  <2>2. WellFormed(build_requested_state(d))
    BY <2>1, BuiltIs, BuiltIsWellFormed
  <2> QED  BY <1>0, <1>1, <2>2, EncodedCarries, PacketSet DEF SetState
<1>2. ASSUME NEW id \in Stored, ApplyProfile(id) PROVE RestoreInv'
  <2> DEFINE s == build_requested_state(options.profiles[id])
  <2>1. WellFormed(s)
    BY StoredFits, BuiltIs, BuiltIsWellFormed
  <2>2. marker' = s /\ SetPacket(encode_packet(s))
    BY <1>2 DEF ApplyProfile
  <2> HIDE DEF s
  <2> QED  BY <1>0, <2>1, <2>2, EncodedCarries, PacketSet
<1>3. ASSUME NEW c \in Edits, Edit(c) PROVE RestoreInv'
  <2> DEFINE s == build_staged_state(packet.state, c)
  <2>1. IsEdit(c) /\ StageAccepted(packet.state, c)
    BY <1>3, RestoreAssumption, SameDefinitions DEF Edit
  <2>2. WellFormed(s)
    BY <1>0, <2>1, StagedIsWellFormed
  <2>3. marker' \in {NoState, s} /\ SetPacket(encode_packet(s))
    BY <1>3 DEF Edit
  <2> HIDE DEF s
  <2> QED  BY <1>0, <2>2, <2>3, EncodedCarries, PacketSet
<1>4. ASSUME NEW f \in Frames, Hear(f) PROVE RestoreInv'
  <2>1. f \in FrameBytes /\ validate_observed(state_from_frame(f))
    BY <1>4, RestoreAssumption DEF Hear, FrameBytes
  <2>2. marker' \in {NoState, state_from_frame(f)} /\ SetPacket(packet_from_frame(f))
    BY <1>4 DEF Hear
  <2> QED  BY <2>1, <2>2, HeardCarries, PacketSet
<1> QED BY <1>1, <1>2, <1>3, <1>4

\* What SavesAreNarrow says of one step.
Narrow ==
  LET before == DOMAIN options.profiles
      after  == DOMAIN options'.profiles
  IN /\ \A id \in before \ after : SavedBy("delete_profile", id)
     /\ after \ before # {} => Added /\ options'.features = options.features
     /\ \A id \in before \cap after : SavedBy("edit_profile", id) \/ OnlyCleared(id)

\* Profiles that are stored as they were.
LEMMA UnchangedIsCleared ==
  ASSUME OptionsOK, NEW id \in Stored, options'.profiles[id] = options.profiles[id],
         options'.features = options.features
  PROVE  OnlyCleared(id)
BY DEF OnlyCleared, OptionsOK, Fits

LEMMA OptionsKept ==
  ASSUME OptionsOK, UNCHANGED options, dialog' = [d \in Dialogs |-> dialog'[d]]
  PROVE  OptionsOK' /\ Narrow
<1>1. OptionsOK'
  BY DEF OptionsOK, Stored, Fits
<1>2. \A id \in Stored : OnlyCleared(id)
  BY UnchangedIsCleared
<1> QED BY <1>1, <1>2 DEF Narrow, Stored

\* How new options are seen to be right: by their features and each profile.
LEMMA OptionsSaved ==
  ASSUME NEW features \in SUBSET Features, NEW I \in SUBSET ProfileIds,
         NEW profiles, profiles = [id \in I |-> profiles[id]],
         \A id \in I : Fits(profiles[id], features),
         options' = [features |-> features, profiles |-> profiles],
         dialog' = [d \in Dialogs |-> dialog'[d]]
  PROVE  /\ OptionsOK'
         /\ options'.features = features /\ options'.profiles = profiles
         /\ DOMAIN options'.profiles = I
<1>1. options'.features = features /\ options'.profiles = profiles /\ DOMAIN profiles = I
  OBVIOUS
<1>2. profiles \in [I -> [Keys -> 0..6]]
  BY DEF Fits
<1>3. profiles \in Profiles
  BY <1>2 DEF Profiles
<1> QED BY <1>1, <1>3 DEF OptionsOK, Stored, Fits

LEMMA FeaturesSaved ==
  ASSUME OptionsOK, NEW d \in Dialogs, NEW f \in FeatureChoices, async_step_features(d, f)
  PROVE  OptionsOK' /\ Narrow
<1> DEFINE profiles == [id \in Stored |-> normalize_saved_profile_input(options.profiles[id], f)]
           o == [features |-> f, profiles |-> options.profiles]
<1>1. f \in SUBSET Features
  BY OptionsAssumption, SameDefinitions
<1>2. options \in [features : SUBSET Features, profiles : Profiles] /\ Stored \in SUBSET ProfileIds
  BY DEF OptionsOK, Stored, Profiles
<1>3. [options EXCEPT !.features = f] = o
  BY <1>2
<1>4. normalize_entry_options(o) = [features |-> f, profiles |-> normalize_profiles(options.profiles, f)]
  BY DEF normalize_entry_options
<1>5. normalize_profiles(options.profiles, f) = profiles
  BY DEF normalize_profiles, Stored
<1>6. options' = [features |-> f, profiles |-> profiles]
  BY <1>3, <1>4, <1>5 DEF async_step_features, Save
<1>7. \A id \in Stored : Fits(profiles[id], f)
  BY StoredFits, NormalizedFits
<1>8. dialog' = [e \in Dialogs |-> dialog'[e]]
  BY DEF async_step_features, Save, OptionsOK
<1>9. \A id \in Stored, k \in Keys : profiles[id][k] =
        IF k \in Features \ f THEN 0 ELSE options.profiles[id][k]
  BY NormalizedAgain DEF OptionsOK
<1>10. profiles = [id \in Stored |-> profiles[id]]
  OBVIOUS
<1> HIDE DEF profiles, o
<1>11. /\ OptionsOK' /\ options'.features = f /\ options'.profiles = profiles
       /\ DOMAIN options'.profiles = Stored
  BY <1>1, <1>2, <1>6, <1>7, <1>8, <1>10, OptionsSaved
<1>12. \A id \in Stored : OnlyCleared(id)
  BY <1>9, <1>11 DEF OnlyCleared
<1> QED BY <1>11, <1>12 DEF Narrow, Stored

\* A profile is added or replaced.
LEMMA ProfileSaved ==
  ASSUME OptionsOK, NEW d \in Dialogs, NEW id \in ProfileIds, NEW data \in Forms,
         RequestAccepted(data), Save(d, SetProfile(id, data)),
         \/ Shows(d, "add_profile") /\ id \notin Stored
         \/ Shows(d, "edit_profile") /\ dialog[d].selected = id /\ id \in Stored
  PROVE  OptionsOK' /\ Narrow
<1> DEFINE features == options.features
           I == Stored \cup {id}
           profiles == [i \in I |-> IF i = id THEN normalize_saved_profile_input(data, features)
                                    ELSE options.profiles[i]]
<1>1. features \in SUBSET Features /\ Stored \in SUBSET ProfileIds
  BY DEF OptionsOK, Stored, Profiles
<1>2. Fits(normalize_saved_profile_input(data, features), features)
  BY OptionsAssumption, SameDefinitions, NormalizedFits
<1>3. \A i \in I : Fits(profiles[i], features)
  BY <1>2 DEF OptionsOK
<1>4. options' = [features |-> features, profiles |-> profiles]
  BY DEF Save, SetProfile
<1>5. dialog' = [e \in Dialogs |-> dialog'[e]] /\ dialog'[d] = Closed
  BY DEF Save, OptionsOK
<1>6. \A i \in Stored : i # id => profiles[i] = options.profiles[i]
  OBVIOUS
<1>7. profiles = [i \in I |-> profiles[i]] /\ I \in SUBSET ProfileIds
  BY <1>1
<1> HIDE DEF profiles, I
<1>8. /\ OptionsOK' /\ options'.features = features /\ options'.profiles = profiles
      /\ DOMAIN options'.profiles = I
  BY <1>1, <1>3, <1>4, <1>5, <1>7, OptionsSaved
<1>9. \A i \in Stored : i # id => OnlyCleared(i)
  BY <1>6, <1>8, UnchangedIsCleared
<1>10. id \in Stored => SavedBy("edit_profile", id)
  BY <1>5 DEF Shows, SavedBy
<1>11. I \ Stored # {} => Added
  BY <1>5 DEF I, Shows, Added
<1> QED BY <1>8, <1>9, <1>10, <1>11 DEF Narrow, Stored, I

LEMMA ProfileDeleted ==
  ASSUME OptionsOK, NEW d \in Dialogs, Shows(d, "delete_profile"), dialog[d].selected \in Stored,
         Save(d, [options EXCEPT !.profiles = Restrict(@, Stored \ {dialog[d].selected})])
  PROVE  OptionsOK' /\ Narrow
<1> DEFINE id == dialog[d].selected
           I == Stored \ {id}
           profiles == [i \in I |-> options.profiles[i]]
<1>1. /\ options \in [features : SUBSET Features, profiles : Profiles]
      /\ options.features \in SUBSET Features /\ Stored \in SUBSET ProfileIds
  BY DEF OptionsOK, Stored, Profiles
<1>2. Restrict(options.profiles, I) = profiles
  BY DEF Restrict
<1>3. options' = [features |-> options.features, profiles |-> profiles]
  BY <1>1, <1>2 DEF Save
<1>4. dialog' = [e \in Dialogs |-> dialog'[e]] /\ dialog'[d] = Closed
  BY DEF Save, OptionsOK
<1>5. \A i \in I : profiles[i] = options.profiles[i] /\ Fits(profiles[i], options.features)
  BY DEF OptionsOK
<1>6. profiles = [i \in I |-> profiles[i]] /\ I \in SUBSET ProfileIds
  BY <1>1
<1> HIDE DEF profiles, I
<1>7. /\ OptionsOK' /\ options'.features = options.features /\ options'.profiles = profiles
      /\ DOMAIN options'.profiles = I
  BY <1>1, <1>3, <1>4, <1>5, <1>6, OptionsSaved
<1>8. \A i \in I : OnlyCleared(i)
  BY <1>5, <1>7, UnchangedIsCleared DEF I
<1>9. SavedBy("delete_profile", id)
  BY <1>4 DEF Shows, SavedBy
<1> QED BY <1>7, <1>8, <1>9 DEF Narrow, Stored, I

LEMMA DialogSteps ==
  ASSUME OptionsOK, DialogStep
  PROVE  OptionsOK' /\ Narrow
<1>1. ASSUME NEW d \in Dialogs, NEW step, NEW selected, Show(d, step, selected)
      PROVE  OptionsOK' /\ Narrow
  <2>1. UNCHANGED options /\ dialog' = [e \in Dialogs |-> dialog'[e]]
    BY <1>1 DEF Show, OptionsOK
  <2> QED  BY <2>1, OptionsKept
<1>2. ASSUME NEW d \in Dialogs, async_step_select_profile(d) PROVE OptionsOK' /\ Narrow
  BY <1>1, <1>2 DEF async_step_select_profile
<1>3. ASSUME NEW d \in Dialogs, Open(d) \/ ChooseMenu(d) PROVE OptionsOK' /\ Narrow
  BY <1>1, <1>2, <1>3 DEF Open, ChooseMenu
<1>4. ASSUME NEW d \in Dialogs, Dismiss(d) PROVE OptionsOK' /\ Narrow
  <2>1. UNCHANGED options /\ dialog' = [e \in Dialogs |-> dialog'[e]]
    BY <1>4 DEF Dismiss, OptionsOK
  <2> QED  BY <2>1, OptionsKept
<1>5. ASSUME NEW d \in Dialogs, NEW id, NEW step, SubmitSelection(d, id, step)
      PROVE  OptionsOK' /\ Narrow
  BY <1>1, <1>5 DEF SubmitSelection
<1>6. ASSUME NEW d \in Dialogs, async_step_delete_profile(d) PROVE OptionsOK' /\ Narrow
  BY <1>2, <1>6, ProfileDeleted DEF async_step_delete_profile
<1>7. ASSUME NEW d \in Dialogs, NEW name \in Names, NEW data \in Forms,
             async_step_add_profile(d, name, data)
      PROVE  OptionsOK' /\ Narrow
  <2>1. IdOf[name] \in ProfileIds /\ RequestAccepted(data)
    BY <1>7, SameDefinitions DEF async_step_add_profile, FormAccepted, ProfileIds
  <2> QED  BY <1>7, <2>1, ProfileSaved DEF async_step_add_profile
<1>8. ASSUME NEW d \in Dialogs, NEW name \in Names, NEW data \in Forms,
             async_step_edit_profile(d, name, data)
      PROVE  OptionsOK' /\ Narrow
  <2> DEFINE id == dialog[d].selected
  <2>1. CASE id \notin Stored
    BY <1>2, <1>8, <2>1 DEF async_step_edit_profile
  <2>2. CASE id \in Stored
    <3>1. /\ Shows(d, "edit_profile") /\ RequestAccepted(data) /\ Save(d, SetProfile(id, data))
          /\ id \in ProfileIds
      BY <1>8, <2>2, SameDefinitions
         DEF async_step_edit_profile, FormAccepted, OptionsOK, Stored, Profiles
    <3> QED  BY <2>2, <3>1, ProfileSaved
  <2> QED  BY <2>1, <2>2
<1> QED BY <1>3, <1>4, <1>5, <1>6, <1>7, <1>8, FeaturesSaved DEF DialogStep

LEMMA InitHolds == ASSUME Init PROVE RestoreInv
<1>1. OptionsOK
  <2>1. options.features \in FeatureChoices /\ options = [features |-> options.features, profiles |-> <<>>]
    BY DEF Init, OptionsInit
  <2>2. options.features \in SUBSET Features
    BY <2>1, OptionsAssumption, SameDefinitions
  <2>3. options.profiles = <<>> /\ Stored = {}
    BY <2>1 DEF Stored
  <2>4. options.profiles \in [{} -> [Keys -> 0..6]]
    BY <2>3
  <2>5. options.profiles \in Profiles
    BY <2>4 DEF Profiles
  <2>6. dialog = [d \in Dialogs |-> dialog[d]]
    BY DEF Init, OptionsInit
  <2> QED  BY <2>1, <2>2, <2>3, <2>5, <2>6 DEF OptionsOK
<1>2. WellFormed(SafeDefault)
  BY DEF SafeDefault, WellFormed, FireplaceStates, validate_observed, LevelsValid, Features, Toggles
<1>3. remote \in Remotes /\ packet = encode_packet(SafeDefault) /\ marker = NoState
  BY DEF Init, OptionsInit
<1>4. Carries(packet)
  BY <1>2, <1>3, EncodedCarries
<1>5. PacketOK
  BY <1>3, <1>4 DEF PacketOK, Carries
<1>6. /\ record.state = packet.state /\ record.frame = packet.frame
      /\ record.profiled = (marker # NoState)
  BY DEF Init, Persisted
<1>7. packet.state \in FireplaceStates /\ Same(packet.state, state_from_frame(packet.frame))
  BY <1>4, SameIsSymmetric DEF Carries, WellFormed
<1>8. RecordOK
  BY <1>3, <1>6, <1>7 DEF RecordOK
<1> QED BY <1>1, <1>5, <1>8 DEF RestoreInv

LEMMA RestartStep ==
  ASSUME RestoreInv, Restart
  PROVE  RestoreInv' /\ Narrow
<1>1. Restored /\ UNCHANGED options
  BY DEF Restart
<1>2. dialog' = [d \in Dialogs |-> dialog'[d]]
  BY DEF Restart, RestoreInv, OptionsOK
<1>3. OptionsOK' /\ Narrow
  BY <1>1, <1>2, OptionsKept DEF RestoreInv
<1> QED BY <1>1, <1>3, RestoredKeeps DEF RestoreInv

LEMMA EntryUnchanged ==
  ASSUME PacketOK, RecordOK, UNCHANGED entryVars
  PROVE  PacketOK' /\ RecordOK'
BY DEF entryVars, PacketOK, RecordOK, Same

LEMMA DialogIsSafe ==
  ASSUME RestoreInv, Dialog
  PROVE  RestoreInv' /\ Narrow
<1>1. OptionsOK' /\ Narrow
  BY DialogSteps DEF Dialog, RestoreInv
<1>2. PacketOK' /\ RecordOK'
  BY RestoredKeeps, EntryUnchanged DEF Dialog, RestoreInv
<1> QED BY <1>1, <1>2 DEF RestoreInv

LEMMA RequestsKeepOptions ==
  ASSUME \/ \E d \in Requests : SetState(d)
         \/ \E id \in Stored : ApplyProfile(id)
         \/ \E c \in Edits : Edit(c)
         \/ \E f \in Frames : Hear(f)
  PROVE  UNCHANGED <<options, dialog>>
BY DEF SetState, ApplyProfile, Edit, Hear, SetPacket

LEMMA EveryStep ==
  ASSUME RestoreInv, [Next]_vars
  PROVE  RestoreInv' /\ Narrow
<1>0. dialog = [d \in Dialogs |-> dialog[d]] /\ OptionsOK
  BY DEF RestoreInv, OptionsOK
<1>1. CASE \/ \E d \in Requests : SetState(d)
           \/ \E id \in Stored : ApplyProfile(id)
           \/ \E c \in Edits : Edit(c)
           \/ \E f \in Frames : Hear(f)
  <2>1. UNCHANGED <<options, dialog>>
    BY <1>1, RequestsKeepOptions
  <2>2. Narrow
    BY <1>0, <2>1, OptionsKept
  <2>3. RestoreInv'
    BY <1>1, RequestSteps
  <2> QED  BY <2>2, <2>3
<1>2. CASE Restart
  BY <1>2, RestartStep
<1>3. CASE Dialog
  BY <1>3, DialogIsSafe
<1>4. CASE UNCHANGED vars
  <2>1. UNCHANGED <<options, dialog>> /\ UNCHANGED entryVars
    BY <1>4 DEF vars
  <2>2. OptionsOK' /\ Narrow
    BY <1>0, <2>1, OptionsKept
  <2>3. PacketOK' /\ RecordOK'
    BY <2>1, EntryUnchanged DEF RestoreInv
  <2> QED  BY <2>2, <2>3 DEF RestoreInv
<1> QED BY <1>1, <1>2, <1>3, <1>4 DEF Next

LEMMA InvariantHolds == Spec => []RestoreInv
<1>1. RestoreInv /\ [Next]_vars => RestoreInv'
  BY EveryStep
<1> QED BY <1>1, InitHolds, PTL DEF Spec

\* Only a dialog that saves changes the options, and it reloads the entry.
LEMMA ChangeReloads ==
  ASSUME [Next]_vars, Restart \/ options' # options
  PROVE  Restored
<1>1. ASSUME UNCHANGED options PROVE Restart
  BY <1>1
<1>2. CASE Restart
  BY <1>2 DEF Restart
<1>3. CASE options' # options
  <2>1. ~(UNCHANGED vars)
    BY <1>3 DEF vars
  <2>2. Next
    BY <2>1
  <2>3. Restart \/ Dialog
    BY <1>3, <2>2, RequestsKeepOptions DEF Next
  <2> QED  BY <1>2, <1>3, <2>3 DEF Dialog
<1> QED BY <1>2, <1>3

-----------------------------------------------------------------------------
\* The theorems.

\* An edit of the entity controls is refused only because the remote left the
\* light at level 7 (build_staged_state, build_requested_state): for every edit
\* the controls can make and every way the entry came to its state.
THEOREM LightSevenBlocks == Spec => []OnlyLightSevenBlocksEdits
<1>1. RestoreInv => OnlyLightSevenBlocksEdits
  BY RestoreAssumption, SameDefinitions, RefusedForLight
     DEF RestoreInv, PacketOK, OnlyLightSevenBlocksEdits
<1> QED BY <1>1, InvariantHolds, PTL

\* A stored profile still passes the checks of a request, and requests what is
\* stored, for any number of dialogs, names, forms and declared features
\* (Proflame2OptionsFlow, normalize_entry_options, async_execute_apply_profile).
THEOREM ProfilesApply == Spec => []StoredProfilesApply
<1>1. ASSUME RestoreInv, NEW id \in Stored
      PROVE  /\ RequestAccepted(options.profiles[id])
             /\ SavedData(build_requested_state(options.profiles[id])) = options.profiles[id]
  <2> DEFINE p == options.profiles[id]
             F == options.features
             q == SavedData(build_requested_state(p))
  <2>1. Fits(p, F)
    BY <1>1 DEF RestoreInv, OptionsOK
  <2>2. normalize_saved_profile_input(p, F) = q
    BY BuiltIs DEF normalize_saved_profile_input
  <2> HIDE DEF p, F
  <2>3. \A k \in Keys : q[k] = IF k \in Features \ F THEN 0 ELSE p[k]
    BY <2>1, <2>2, NormalizedAgain
  <2>4. \A k \in Features \ F : p[k] = 0
    BY <2>1 DEF Fits
  <2>5. \A k \in Keys : q[k] = p[k]
    BY <2>3, <2>4
  <2>6. p = [k \in Keys |-> p[k]]
    BY <2>1 DEF Fits
  <2>7. q = [k \in Keys |-> q[k]]
    BY SavedDataIs
  <2> HIDE DEF q
  <2>8. q = p
    BY <2>5, <2>6, <2>7
  <2> QED  BY <2>1, <2>8, FittingIsAccepted DEF p, q
<1>2. RestoreInv => StoredProfilesApply
  BY <1>1 DEF StoredProfilesApply
<1> QED BY <1>2, InvariantHolds, PTL

\* A restart, or the reload after a save of the options, finds a frame that can be
\* read, changes nothing the frame carries and restores the profile marker whole
\* (async_restore_runtime_state), for every remote profile, request and frame.
THEOREM RestartKeeps == Spec => RestartKeepsState
<1>1. RestoreInv /\ [Next]_vars =>
        (Restart \/ options' # options =>
           /\ validate_observed(state_from_frame(record.frame))
           /\ Agree(packet'.state, packet.state)
           /\ marker' = marker
           /\ marker' # NoState => Agree(marker', packet'.state))
  BY ChangeReloads, RestoredKeeps
<1> QED BY <1>1, InvariantHolds, PTL DEF Spec, RestartKeepsState

\* A save changes only the profile its form is about, however many dialogs are open:
\* an edit brings no deleted profile back (the steps of Proflame2OptionsFlow check the
\* stored profiles again).
THEOREM NarrowSaves == Spec => SavesAreNarrow
<1>1. RestoreInv /\ [Next]_vars => Narrow
  BY EveryStep
<1> QED BY <1>1, InvariantHolds, PTL DEF Spec, SavesAreNarrow, Narrow
=============================================================================
