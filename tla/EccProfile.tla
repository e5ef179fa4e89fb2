----------------------------- MODULE EccProfile -----------------------------
(***************************************************************************)
(* The validation bytes of Proflame frames and the inference of a remote's *)
(* C/D constants from frames of it (protocol/ecc.py, protocol/decoder.py). *)
(* A byte is a number below 256; XOR is taken nibble by nibble.            *)
(***************************************************************************)
EXTENDS Integers, Sequences, FiniteSets

Byte   == 0..255
Nibble == 0..15

BitOf(n, i) == (n \div 2^i) % 2

NibbleXor == [a \in Nibble |-> [b \in Nibble |->
  LET x(i) == IF BitOf(a, i) # BitOf(b, i) THEN 2^i ELSE 0 IN x(0) + x(1) + x(2) + x(3)]]

Xor(a, b) == 16 * NibbleXor[a \div 16][b \div 16] + NibbleXor[a % 16][b % 16]

\* n << 1 within a nibble.
Shifted(n) == (2 * n) % 16

build_err_byte(command, c, d) ==
  LET high == command \div 16
      low  == command % 16
  IN 16 * NibbleXor[c][NibbleXor[high][NibbleXor[Shifted(high)][Shifted(low)]]]
       + NibbleXor[d][NibbleXor[high][low]]

\* One integrity lane of a ten-word frame.
build_extended_integrity_byte(values, final_xor) ==
  LET lane[i \in 0..Len(values)] ==
        IF i = 0 THEN 0 ELSE build_err_byte(Xor(lane[i - 1], values[i]), 0, 0)
  IN Xor(lane[Len(values)], final_xor)

\* The words W9 and W10 of a ten-word frame with W4..W8 as given.
build_extended_integrity_words(w4, w5, w6, w7, w8) ==
  <<build_extended_integrity_byte(<<w5, w7>>, 35), build_extended_integrity_byte(<<w4, w6, w8>>, 101)>>

extended_frame_integrity_matches(words) ==
  /\ Len(words) = 10
  /\ build_extended_integrity_byte(<<words[5], words[7]>>, 35) = words[9]
  /\ build_extended_integrity_byte(<<words[4], words[6], words[8]>>, 101) = words[10]

combine_cd(c, d) == 16 * c + d
split_cd(cd)     == <<cd \div 16, cd % 16>>

-----------------------------------------------------------------------------
\* Inference of the constants.  A sample is a pair <<command, observed Err>>.

derive_cd_candidates(command, observed_err) ==
  {cd \in Byte : build_err_byte(command, split_cd(cd)[1], split_cd(cd)[2]) = observed_err}

\* The C/D bytes that explain every sample; derive_stable_cd raises "No stable"
\* when there is none and "Ambiguous stable" when there are several.
stable_candidates(samples, candidates) ==
  {cd \in candidates[CHOOSE s \in samples : TRUE] : \A s \in samples : cd \in candidates[s]}

derive_stable_cd(samples, candidates) ==
  LET stable == stable_candidates(samples, candidates)
  IN [outcome |-> IF stable = {} THEN "no_stable"
                  ELSE IF Cardinality(stable) > 1 THEN "ambiguous" ELSE "stable",
      cd      |-> IF Cardinality(stable) = 1 THEN CHOOSE cd \in stable : TRUE ELSE 0]

\* The Cmd1 group is derived first, and its error is the one that is raised.
derive_ecc_profile(samples1, samples2, candidates) ==
  LET one == derive_stable_cd(samples1, candidates)
      two == derive_stable_cd(samples2, candidates)
  IN [outcome |-> IF one.outcome = "stable" THEN two.outcome ELSE one.outcome,
      profile |-> split_cd(one.cd) \o split_cd(two.cd)]

err1_for(command, profile) == build_err_byte(command, profile[1], profile[2])
err2_for(command, profile) == build_err_byte(command, profile[3], profile[4])
=============================================================================
