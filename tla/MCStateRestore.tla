--------------------------- MODULE MCStateRestore ---------------------------
\* Two option dialogs on an entry with up to two profiles, and the frames,
\* edits and requests that reach the boundaries of the two command bytes.
EXTENDS StateRestore, TLC

\* Seven words, ten words with either learned bit.
SomeRemotes ==
  {[extended |-> x, template |-> b] : x \in BOOLEAN, b \in {0, 1}}
    \ {[extended |-> FALSE, template |-> 1]}

SomeFeatures == {{"fan", "light", "front", "cpi"}, {"light", "aux"}}

SomeEdits ==
  {"power" :> 0, "power" :> 1, "flame" :> 6, "light" :> 6}

SomeRequests ==
  {"power" :> 1 @@ "flame" :> 6 @@ "fan" :> 6 @@ "front" :> 1 @@ "cpi" :> 1,
   "power" :> 1 @@ "flame" :> 7}

\* Light 7; thermostat mode with flame 0; flame 7 with the learned bit.
SomeFrames ==
  {[cmd1 |-> 113, cmd2 |-> 54, extended |-> x] : x \in BOOLEAN}
  \cup {[cmd1 |-> 83, cmd2 |-> 0, extended |-> x] : x \in BOOLEAN}
  \cup {[cmd1 |-> 129, cmd2 |-> 143, extended |-> x] : x \in BOOLEAN}

\* Names of which two give one id, and one gives none.
SomeNames == {"Cosy", "cosy!", "Late", "!!", ""}
SomeIds == "Cosy" :> "cosy" @@ "cosy!" :> "cosy" @@ "Late" :> "late" @@ "!!" :> NoId @@ "" :> NoId

SomeForms ==
  {"power" :> 1 @@ "flame" :> 2 @@ "fan" :> 3, "power" :> 0 @@ "flame" :> 1}

DialogSymmetry == Permutations(Dialogs)
=============================================================================
