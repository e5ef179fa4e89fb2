------------------------- MODULE MCProflameControl -------------------------
\* A small instance of ProflameControl for TLC: one feature.
EXTENDS ProflameControl, TLC

Off0 == [power |-> FALSE, flame |-> 0, thermostat |-> FALSE, level |-> [k \in Features |-> 0]]
On2  == [Off0 EXCEPT !.power = TRUE, !.flame = 2]
\* A remote can leave the fireplace in thermostat mode.
Auto2 == [On2 EXCEPT !.thermostat = TRUE]

\* A ten-word frame does not carry the cpi of a profile.
On2Cpi == [On2 EXCEPT !.level["cpi"] = 1]

MCEnabled  == {"cpi"}
MCInitial  == {Off0, On2Cpi}
MCEdits    == {"cpi" :> 1}
MCRequests == {"power" :> 0, "power" :> 1 @@ "flame" :> 9}
MCProfiles == {"power" :> 1 @@ "flame" :> 2 @@ "cpi" :> 1}
MCPackets  == {Auto2}

\* The inputs of the run that spends its states on overlapping tasks.
FewEdits    == {"flame" :> 2}
FewRequests == {"power" :> 0}
None        == {}

Symmetry == Permutations(Senders) \cup Permutations(Confirmers)
=============================================================================
