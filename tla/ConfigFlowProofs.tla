-------------------------- MODULE ConfigFlowProofs --------------------------
(***************************************************************************)
(* What holds of a configuration flow for all packets, batches of rows,    *)
(* choices and sessions: an entry is proven by the frames it came from.    *)
(***************************************************************************)
EXTENDS ConfigFlow, FiniteSetTheorems, SequenceTheorems, WellFoundedInduction, TLAPS

-----------------------------------------------------------------------------
\* What one sample determines.

\* The bits of a nibble.
LEMMA NibbleBits ==
  ASSUME NEW a \in Nibble
  PROVE  /\ \A i \in 0..3 : BitOf(a, i) \in {0, 1}
         /\ a = 8 * BitOf(a, 3) + 4 * BitOf(a, 2) + 2 * BitOf(a, 1) + BitOf(a, 0)
<1>1. 2^0 = 1 /\ 2^1 = 2 /\ 2^2 = 4 /\ 2^3 = 8
  OBVIOUS
<1>2. /\ BitOf(a, 0) = a % 2 /\ BitOf(a, 1) = (a \div 2) % 2
      /\ BitOf(a, 2) = (a \div 4) % 2 /\ BitOf(a, 3) = (a \div 8) % 2
  BY <1>1 DEF BitOf, Nibble
<1>3. \A i \in 0..3 : i = 0 \/ i = 1 \/ i = 2 \/ i = 3
  OBVIOUS
<1>4. \A i \in 0..3 : BitOf(a, i) \in {0, 1}
  BY <1>2, <1>3 DEF Nibble
<1>5. /\ a % 2 = a - 2 * (a \div 2)
      /\ (a \div 2) % 2 = (a \div 2) - 2 * (a \div 4)
      /\ (a \div 4) % 2 = (a \div 4) - 2 * (a \div 8)
      /\ (a \div 8) % 2 = a \div 8
  BY DEF Nibble
<1>6. a \in Int /\ a \div 2 \in Int /\ a \div 4 \in Int /\ a \div 8 \in Int
  BY DEF Nibble
<1> DEFINE a0 == BitOf(a, 0)
           a1 == BitOf(a, 1)
           a2 == BitOf(a, 2)
           a3 == BitOf(a, 3)
<1>7. /\ a0 = a - 2 * (a \div 2) /\ a1 = (a \div 2) - 2 * (a \div 4)
      /\ a2 = (a \div 4) - 2 * (a \div 8) /\ a3 = a \div 8
  BY <1>2, <1>5
<1>8. a = 8 * a3 + 4 * a2 + 2 * a1 + a0
  <2> HIDE DEF a0, a1, a2, a3
  <2> QED  BY <1>6, <1>7
<1> QED BY <1>4, <1>8

\* The weight of bit i in the XOR of two nibbles.
XorBit(a, b, i) == IF BitOf(a, i) # BitOf(b, i) THEN 2^i ELSE 0

LEMMA XorOfBits ==
  ASSUME NEW a \in Nibble, NEW b \in Nibble
  PROVE  /\ NibbleXor[a][b] = XorBit(a, b, 0) + XorBit(a, b, 1) + XorBit(a, b, 2) + XorBit(a, b, 3)
         /\ XorBit(a, b, 0) = (IF BitOf(a, 0) # BitOf(b, 0) THEN 1 ELSE 0)
         /\ XorBit(a, b, 1) = (IF BitOf(a, 1) # BitOf(b, 1) THEN 2 ELSE 0)
         /\ XorBit(a, b, 2) = (IF BitOf(a, 2) # BitOf(b, 2) THEN 4 ELSE 0)
         /\ XorBit(a, b, 3) = (IF BitOf(a, 3) # BitOf(b, 3) THEN 8 ELSE 0)
         /\ NibbleXor[a][b] \in Nibble
<1>1. 2^0 = 1 /\ 2^1 = 2 /\ 2^2 = 4 /\ 2^3 = 8
  OBVIOUS
<1>2. NibbleXor[a][b] = XorBit(a, b, 0) + XorBit(a, b, 1) + XorBit(a, b, 2) + XorBit(a, b, 3)
  BY DEF NibbleXor, XorBit
<1>3. /\ XorBit(a, b, 0) = (IF BitOf(a, 0) # BitOf(b, 0) THEN 1 ELSE 0)
      /\ XorBit(a, b, 1) = (IF BitOf(a, 1) # BitOf(b, 1) THEN 2 ELSE 0)
      /\ XorBit(a, b, 2) = (IF BitOf(a, 2) # BitOf(b, 2) THEN 4 ELSE 0)
      /\ XorBit(a, b, 3) = (IF BitOf(a, 3) # BitOf(b, 3) THEN 8 ELSE 0)
  BY <1>1 DEF XorBit
<1>4. NibbleXor[a][b] \in Nibble
  BY <1>2, <1>3 DEF Nibble
<1> QED BY <1>2, <1>3, <1>4

\* XOR with one nibble tells two nibbles apart.
LEMMA XorCancels ==
  ASSUME NEW a \in Nibble, NEW b \in Nibble, NEW x \in Nibble, NibbleXor[a][x] = NibbleXor[b][x]
  PROVE  a = b
<1> DEFINE p(i) == XorBit(a, x, i)
           q(i) == XorBit(b, x, i)
<1>1. p(0) + p(1) + p(2) + p(3) = q(0) + q(1) + q(2) + q(3)
  BY XorOfBits
<1>2. /\ p(0) \in {0, 1} /\ p(1) \in {0, 2} /\ p(2) \in {0, 4} /\ p(3) \in {0, 8}
      /\ q(0) \in {0, 1} /\ q(1) \in {0, 2} /\ q(2) \in {0, 4} /\ q(3) \in {0, 8}
  BY XorOfBits
<1>3. p(0) = q(0) /\ p(1) = q(1) /\ p(2) = q(2) /\ p(3) = q(3)
  <2> HIDE DEF p, q
  <2> QED BY <1>1, <1>2
<1>4. \A i \in 0..3 : BitOf(a, i) \in {0, 1} /\ BitOf(b, i) \in {0, 1} /\ BitOf(x, i) \in {0, 1}
  BY NibbleBits
<1>5. /\ BitOf(a, 0) = BitOf(b, 0) /\ BitOf(a, 1) = BitOf(b, 1)
      /\ BitOf(a, 2) = BitOf(b, 2) /\ BitOf(a, 3) = BitOf(b, 3)
  BY <1>3, <1>4, XorOfBits
<1> QED BY <1>5, NibbleBits

LEMMA NibblesOfByte ==
  ASSUME NEW u \in Nibble, NEW v \in Nibble, NEW w \in Nibble, NEW z \in Nibble,
         16 * u + v = 16 * w + z
  PROVE  u = w /\ v = z
BY DEF Nibble

\* The constants are what a sample says they are.
LEMMA SampleDetermines ==
  ASSUME NEW command \in Byte, NEW c \in Nibble, NEW d \in Nibble, NEW e \in Nibble, NEW g \in Nibble,
         build_err_byte(command, c, d) = build_err_byte(command, e, g)
  PROVE  c = e /\ d = g
<1> DEFINE high == command \div 16
           low  == command % 16
           x    == NibbleXor[high][NibbleXor[Shifted(high)][Shifted(low)]]
           y    == NibbleXor[high][low]
<1>1. high \in Nibble /\ low \in Nibble
  BY DEF Byte, Nibble
<1>2. Shifted(high) \in Nibble /\ Shifted(low) \in Nibble
  BY <1>1 DEF Shifted, Nibble
<1> HIDE DEF high, low
<1>3. x \in Nibble
  <2>1. NibbleXor[Shifted(high)][Shifted(low)] \in Nibble
    BY <1>2, XorOfBits
  <2> QED BY <1>1, <2>1, XorOfBits
<1>4. y \in Nibble
  BY <1>1, XorOfBits
<1>5. \A m, n \in Nibble : build_err_byte(command, m, n) = 16 * NibbleXor[m][x] + NibbleXor[n][NibbleXor[high][low]]
  BY DEF build_err_byte, high, low
<1> HIDE DEF x, y
<1>6. 16 * NibbleXor[c][x] + NibbleXor[d][y] = 16 * NibbleXor[e][x] + NibbleXor[g][y]
  BY <1>5 DEF y
<1>7. NibbleXor[c][x] \in Nibble /\ NibbleXor[d][y] \in Nibble /\ NibbleXor[e][x] \in Nibble /\ NibbleXor[g][y] \in Nibble
  BY <1>3, <1>4, XorOfBits
<1>8. NibbleXor[c][x] = NibbleXor[e][x] /\ NibbleXor[d][y] = NibbleXor[g][y]
  BY <1>6, <1>7, NibblesOfByte
<1> QED BY <1>3, <1>4, <1>8, XorCancels

LEMMA CombineSplit ==
  ASSUME NEW c \in Nibble, NEW d \in Nibble
  PROVE  combine_cd(c, d) \in Byte /\ split_cd(combine_cd(c, d)) = <<c, d>>
BY DEF combine_cd, split_cd, Byte, Nibble

LEMMA HalvesOfByte ==
  ASSUME NEW cd \in Byte
  PROVE  /\ split_cd(cd)[1] \in Nibble /\ split_cd(cd)[2] \in Nibble
         /\ cd = combine_cd(split_cd(cd)[1], split_cd(cd)[2])
BY DEF combine_cd, split_cd, Byte, Nibble

\* One sample leaves one candidate: the constants that it was made with.
LEMMA OneCandidate ==
  ASSUME NEW command \in Byte, NEW c \in Nibble, NEW d \in Nibble
  PROVE  derive_cd_candidates(command, build_err_byte(command, c, d)) = {combine_cd(c, d)}
<1>1. combine_cd(c, d) \in Byte /\ split_cd(combine_cd(c, d)) = <<c, d>>
  BY CombineSplit
<1>2. combine_cd(c, d) \in derive_cd_candidates(command, build_err_byte(command, c, d))
  BY <1>1 DEF derive_cd_candidates
<1>3. ASSUME NEW cd \in derive_cd_candidates(command, build_err_byte(command, c, d))
      PROVE  cd = combine_cd(c, d)
  <2>1. /\ cd \in Byte
        /\ build_err_byte(command, split_cd(cd)[1], split_cd(cd)[2]) = build_err_byte(command, c, d)
    BY <1>3 DEF derive_cd_candidates
  <2>2. split_cd(cd)[1] = c /\ split_cd(cd)[2] = d
    BY <2>1, HalvesOfByte, SampleDetermines
  <2> QED  BY <2>1, <2>2, HalvesOfByte
<1> QED BY <1>2, <1>3

\* No sample leaves more than one candidate.
LEMMA AtMostOneCandidate ==
  ASSUME NEW command \in Byte, NEW err,
         NEW x \in derive_cd_candidates(command, err), NEW y \in derive_cd_candidates(command, err)
  PROVE  x = y
<1>1. /\ x \in Byte /\ y \in Byte
      /\ build_err_byte(command, split_cd(x)[1], split_cd(x)[2])
           = build_err_byte(command, split_cd(y)[1], split_cd(y)[2])
  BY DEF derive_cd_candidates
<1>2. split_cd(x)[1] = split_cd(y)[1] /\ split_cd(x)[2] = split_cd(y)[2]
  BY <1>1, HalvesOfByte, SampleDetermines
<1> QED BY <1>1, <1>2, HalvesOfByte

-----------------------------------------------------------------------------
\* What a set of samples proves.

LEMMA ByteIsFinite == IsFiniteSet(Byte)
<1>1. 0 \in Int /\ 255 \in Int
  OBVIOUS
<1>2. IsFiniteSet(0..255)
  BY ONLY <1>1, FS_Interval, Zenon
<1> QED BY <1>2 DEF Byte

\* A set that is not empty and has not more than one element is a singleton.
LEMMA OneElement ==
  ASSUME NEW S \in SUBSET Byte, S # {}, ~(Cardinality(S) > 1)
  PROVE  Cardinality(S) = 1 /\ \E x : S = {x}
<1>1. IsFiniteSet(S)
  BY ByteIsFinite, FS_Subset
<1>2. Cardinality(S) \in Nat /\ Cardinality(S) # 0
  BY <1>1, FS_CardinalityType, FS_EmptySet
<1>3. Cardinality(S) = 1
  BY <1>2
<1> QED BY <1>1, <1>3, FS_Singleton

\* A stable C/D byte is a candidate of every sample.
LEMMA StableExplains ==
  ASSUME NEW samples, samples # {}, NEW candidates,
         \A s \in samples : candidates[s] = derive_cd_candidates(s[1], s[2]),
         derive_stable_cd(samples, candidates).outcome = "stable"
  PROVE  LET cd == derive_stable_cd(samples, candidates).cd IN
         cd \in Byte /\ \A s \in samples : build_err_byte(s[1], split_cd(cd)[1], split_cd(cd)[2]) = s[2]
<1> DEFINE S == stable_candidates(samples, candidates)
<1> DEFINE first == CHOOSE s \in samples : TRUE
<1>1. S \subseteq candidates[first] /\ first \in samples
  BY DEF stable_candidates
<1>2. S \in SUBSET Byte
  BY <1>1 DEF derive_cd_candidates
<1>3. S # {} /\ ~(Cardinality(S) > 1)
  BY DEF derive_stable_cd
<1>4. Cardinality(S) = 1 /\ \E x : S = {x}
  BY <1>2, <1>3, OneElement
<1> DEFINE cd == CHOOSE x \in S : TRUE
<1>5. derive_stable_cd(samples, candidates).cd = cd
  BY <1>4 DEF derive_stable_cd
<1>6. cd \in S
  BY <1>4
<1>7. \A s \in samples : cd \in candidates[s]
  BY <1>6 DEF stable_candidates
<1>8. \A s \in samples : cd \in derive_cd_candidates(s[1], s[2])
  BY <1>7
<1> HIDE DEF S, first, cd
<1>9. cd \in Byte /\ \A s \in samples : build_err_byte(s[1], split_cd(cd)[1], split_cd(cd)[2]) = s[2]
  BY <1>2, <1>6, <1>8 DEF derive_cd_candidates
<1> QED BY <1>5, <1>9

LEMMA CandidatesOf ==
  \A s \in cmd1_samples(Packets) \cup cmd2_samples(Packets) :
    Candidates[s] = derive_cd_candidates(s[1], s[2])
BY DEF Candidates

Legacy == {p \in Packets : ~is_extended(p)}

EccConstants == Nibble \X Nibble \X Nibble \X Nibble

LEMMA FourNibbles ==
  ASSUME NEW a \in Nibble, NEW b \in Nibble, NEW c \in Nibble, NEW d \in Nibble
  PROVE  <<a, b>> \o <<c, d>> = <<a, b, c, d>>
<1> DEFINE s == <<a, b>> \o <<c, d>>
           t == <<a, b, c, d>>
<1>1. s \in Seq(Nibble) /\ Len(s) = 4 /\ t \in Seq(Nibble) /\ Len(t) = 4
  OBVIOUS
<1>2. s[1] = t[1] /\ s[2] = t[2] /\ s[3] = t[3] /\ s[4] = t[4]
  OBVIOUS
<1> HIDE DEF s, t
<1>3. \A i \in 1..Len(s) : s[i] = t[i]
  <2>1. \A i \in 1..Len(s) : i = 1 \/ i = 2 \/ i = 3 \/ i = 4
    BY <1>1
  <2> QED  BY <1>2, <2>1
<1>4. s = t
  BY <1>1, <1>3, SeqEqual
<1> QED BY <1>4 DEF s, t

\* A profile that was derived from some packets has the validation bytes of each.
LEMMA DerivedExplains ==
  ASSUME NEW P \in SUBSET Packets, P # {}, Derived(P).outcome = "stable"
  PROVE  /\ Derived(P).profile \in EccConstants
         /\ \A p \in P : /\ p.err1 = err1_for(p.cmd1, Derived(P).profile)
                         /\ p.err2 = err2_for(p.cmd2, Derived(P).profile)
<1> DEFINE one == derive_stable_cd(cmd1_samples(P), Candidates)
           two == derive_stable_cd(cmd2_samples(P), Candidates)
<1>1. one.outcome = "stable" /\ two.outcome = "stable"
  BY DEF Derived, derive_ecc_profile
<1>2. Derived(P).profile = split_cd(one.cd) \o split_cd(two.cd)
  BY DEF Derived, derive_ecc_profile
<1>3. /\ cmd1_samples(P) # {} /\ cmd1_samples(P) \subseteq cmd1_samples(Packets)
      /\ cmd2_samples(P) # {} /\ cmd2_samples(P) \subseteq cmd2_samples(Packets)
  BY DEF cmd1_samples, cmd2_samples
<1>4. /\ \A s \in cmd1_samples(P) : Candidates[s] = derive_cd_candidates(s[1], s[2])
      /\ \A s \in cmd2_samples(P) : Candidates[s] = derive_cd_candidates(s[1], s[2])
  BY <1>3, CandidatesOf
<1>5. one.cd \in Byte /\ \A s \in cmd1_samples(P) :
        build_err_byte(s[1], split_cd(one.cd)[1], split_cd(one.cd)[2]) = s[2]
  BY <1>1, <1>3, <1>4, StableExplains
<1>6. two.cd \in Byte /\ \A s \in cmd2_samples(P) :
        build_err_byte(s[1], split_cd(two.cd)[1], split_cd(two.cd)[2]) = s[2]
  BY <1>1, <1>3, <1>4, StableExplains
<1> HIDE DEF one, two
<1>7. /\ Derived(P).profile[1] = split_cd(one.cd)[1]
      /\ Derived(P).profile[2] = split_cd(one.cd)[2]
      /\ Derived(P).profile[3] = split_cd(two.cd)[1]
      /\ Derived(P).profile[4] = split_cd(two.cd)[2]
  BY <1>2 DEF split_cd
<1> DEFINE a == split_cd(one.cd)[1]
           b == split_cd(one.cd)[2]
           c == split_cd(two.cd)[1]
           d == split_cd(two.cd)[2]
<1>8. a \in Nibble /\ b \in Nibble /\ c \in Nibble /\ d \in Nibble
  BY <1>5, <1>6, HalvesOfByte
<1>9. Derived(P).profile = <<a, b, c, d>>
  <2>1. split_cd(one.cd) = <<a, b>> /\ split_cd(two.cd) = <<c, d>>
    BY DEF split_cd
  <2> HIDE DEF a, b, c, d
  <2> QED  BY <1>2, <1>8, <2>1, FourNibbles
<1>10. Derived(P).profile \in EccConstants
  <2> HIDE DEF a, b, c, d
  <2> QED  BY <1>8, <1>9 DEF EccConstants
<1>11. ASSUME NEW p \in P
      PROVE  /\ p.err1 = err1_for(p.cmd1, Derived(P).profile)
             /\ p.err2 = err2_for(p.cmd2, Derived(P).profile)
  <2>1. Sample1(p) \in cmd1_samples(P) /\ Sample2(p) \in cmd2_samples(P)
    BY DEF cmd1_samples, cmd2_samples
  <2>2. /\ Sample1(p)[1] = p.cmd1 /\ Sample1(p)[2] = p.err1
        /\ Sample2(p)[1] = p.cmd2 /\ Sample2(p)[2] = p.err2
    BY DEF Sample1, Sample2
  <2> QED  BY <1>5, <1>6, <1>7, <2>1, <2>2 DEF err1_for, err2_for
<1> QED BY <1>11, <1>10

\* The candidates of a group of samples are at most one, so there is no ambiguity.
LEMMA StableIsDecided ==
  ASSUME NEW samples, samples # {}, NEW candidates,
         \A s \in samples : s[1] \in Byte /\ candidates[s] = derive_cd_candidates(s[1], s[2])
  PROVE  derive_stable_cd(samples, candidates).outcome # "ambiguous"
<1> DEFINE S == stable_candidates(samples, candidates)
           first == CHOOSE s \in samples : TRUE
<1>1. first \in samples /\ S \subseteq candidates[first]
  BY DEF stable_candidates
<1> HIDE DEF first
<1>2. \A x, y \in S : x = y
  <2> SUFFICES ASSUME NEW x \in S, NEW y \in S PROVE x = y
    OBVIOUS
  <2>1. /\ x \in derive_cd_candidates(first[1], first[2])
        /\ y \in derive_cd_candidates(first[1], first[2])
    BY <1>1
  <2>2. first[1] \in Byte
    BY <1>1
  <2> HIDE DEF S
  <2> QED  BY <2>1, <2>2, AtMostOneCandidate
<1> HIDE DEF S
<1>3. ~(Cardinality(S) > 1)
  <2>1. CASE S = {}
    BY <2>1, FS_EmptySet
  <2>2. CASE S # {}
    <3>1. PICK x : S = {x}
      BY <1>2, <2>2
    <3>2. Cardinality(S) = 1
      BY <3>1, FS_Singleton
    <3> QED  BY <3>2
  <2> QED  BY <2>1, <2>2
<1> QED BY <1>3 DEF derive_stable_cd, S

\* Samples made with two constants are explained by these and no others.
LEMMA SamplesAgree ==
  ASSUME NEW samples, samples # {}, NEW candidates, NEW c \in Nibble, NEW d \in Nibble,
         \A s \in samples : /\ s[1] \in Byte /\ s[2] = build_err_byte(s[1], c, d)
                           /\ candidates[s] = derive_cd_candidates(s[1], s[2])
  PROVE  /\ derive_stable_cd(samples, candidates).outcome = "stable"
         /\ derive_stable_cd(samples, candidates).cd = combine_cd(c, d)
<1> DEFINE S == stable_candidates(samples, candidates)
           x == combine_cd(c, d)
           first == CHOOSE s \in samples : TRUE
<1> HIDE DEF x
<1>1. \A s \in samples : candidates[s] = {x}
  <2> SUFFICES ASSUME NEW s \in samples PROVE candidates[s] = {x}
    OBVIOUS
  <2>1. candidates[s] = derive_cd_candidates(s[1], build_err_byte(s[1], c, d)) /\ s[1] \in Byte
    OBVIOUS
  <2>2. derive_cd_candidates(s[1], build_err_byte(s[1], c, d)) = {x}
    BY <2>1, OneCandidate DEF x
  <2> QED  BY <2>1, <2>2
<1>2. first \in samples
  OBVIOUS
<1>3. S = {x}
  BY <1>1, <1>2 DEF stable_candidates
<1> HIDE DEF S
<1>4. Cardinality(S) = 1 /\ S # {} /\ (CHOOSE y \in S : TRUE) = x
  BY <1>3, FS_Singleton
<1> QED BY <1>4 DEF derive_stable_cd, S, x

\* Whatever frames were heard, damaged or not, the inference decides: they prove one
\* pair of constants or none.  The branch of the code for several candidates that are
\* left ("Ambiguous stable", derive_stable_cd) is never taken.
THEOREM InferenceDecides ==
  ASSUME NEW P \in SUBSET Packets, P # {}
  PROVE  Derived(P).outcome \in {"stable", "no_stable"}
<1> DEFINE one == derive_stable_cd(cmd1_samples(P), Candidates)
           two == derive_stable_cd(cmd2_samples(P), Candidates)
<1>1. /\ cmd1_samples(P) # {} /\ cmd1_samples(P) \subseteq cmd1_samples(Packets)
      /\ cmd2_samples(P) # {} /\ cmd2_samples(P) \subseteq cmd2_samples(Packets)
  BY DEF cmd1_samples, cmd2_samples
<1>2. \A s \in cmd1_samples(P) \cup cmd2_samples(P) : s[1] \in Byte
  BY PacketAssumption DEF cmd1_samples, cmd2_samples, Sample1, Sample2
<1>3. \A s \in cmd1_samples(P) : s[1] \in Byte /\ Candidates[s] = derive_cd_candidates(s[1], s[2])
  BY <1>1, <1>2, CandidatesOf
<1>4. \A s \in cmd2_samples(P) : s[1] \in Byte /\ Candidates[s] = derive_cd_candidates(s[1], s[2])
  BY <1>1, <1>2, CandidatesOf
<1>5. one.outcome # "ambiguous" /\ two.outcome # "ambiguous"
  BY <1>1, <1>3, <1>4, StableIsDecided
<1>6. one.outcome \in {"stable", "no_stable"} /\ two.outcome \in {"stable", "no_stable"}
  BY <1>5 DEF derive_stable_cd
<1> HIDE DEF one, two
<1> QED BY <1>6 DEF Derived, derive_ecc_profile, one, two

\* Only one profile explains a legacy frame.
LEMMA OneExplanation ==
  ASSUME NEW p \in Packets, ~is_extended(p),
         NEW k \in EccConstants, NEW m \in EccConstants, Explains(k, p), Explains(m, p)
  PROVE  k = m
<1>1. p.cmd1 \in Byte /\ p.cmd2 \in Byte
  BY PacketAssumption
<1>2. /\ build_err_byte(p.cmd1, k[1], k[2]) = build_err_byte(p.cmd1, m[1], m[2])
      /\ build_err_byte(p.cmd2, k[3], k[4]) = build_err_byte(p.cmd2, m[3], m[4])
  BY DEF Explains, err1_for, err2_for
<1>3. /\ k[1] \in Nibble /\ k[2] \in Nibble /\ k[3] \in Nibble /\ k[4] \in Nibble
      /\ m[1] \in Nibble /\ m[2] \in Nibble /\ m[3] \in Nibble /\ m[4] \in Nibble
  BY DEF EccConstants
<1>4. k[1] = m[1] /\ k[2] = m[2] /\ k[3] = m[3] /\ k[4] = m[4]
  BY <1>1, <1>2, <1>3, SampleDetermines
<1>5. k = <<k[1], k[2], k[3], k[4]>> /\ m = <<m[1], m[2], m[3], m[4]>>
  BY DEF EccConstants
<1> QED BY <1>4, <1>5

\* From undamaged legacy frames of one remote, in any number, the inference concludes the
\* constants of that remote (derive_ecc_profile).
THEOREM InferenceIsExact ==
  ASSUME NEW P \in SUBSET Packets, P # {}, NEW k \in EccConstants,
         \A p \in P : ~is_extended(p) /\ Explains(k, p)
  PROVE  Derived(P).outcome = "stable" /\ Derived(P).profile = k
<1> DEFINE one == derive_stable_cd(cmd1_samples(P), Candidates)
           two == derive_stable_cd(cmd2_samples(P), Candidates)
<1>1. /\ cmd1_samples(P) # {} /\ cmd1_samples(P) \subseteq cmd1_samples(Packets)
      /\ cmd2_samples(P) # {} /\ cmd2_samples(P) \subseteq cmd2_samples(Packets)
  BY DEF cmd1_samples, cmd2_samples
<1>2. /\ k[1] \in Nibble /\ k[2] \in Nibble /\ k[3] \in Nibble /\ k[4] \in Nibble
      /\ k = <<k[1], k[2], k[3], k[4]>>
  BY DEF EccConstants
<1>3. ASSUME NEW s \in cmd1_samples(P)
      PROVE  /\ s[1] \in Byte /\ s[2] = build_err_byte(s[1], k[1], k[2])
             /\ Candidates[s] = derive_cd_candidates(s[1], s[2])
  <2>1. PICK p \in P : s = <<p.cmd1, p.err1>>
    BY DEF cmd1_samples, Sample1
  <2>2. s[1] \in Byte /\ s[2] = build_err_byte(s[1], k[1], k[2])
    BY <2>1, PacketAssumption DEF Explains, err1_for
  <2> QED  BY <1>1, <2>2, CandidatesOf
<1>4. ASSUME NEW s \in cmd2_samples(P)
      PROVE  /\ s[1] \in Byte /\ s[2] = build_err_byte(s[1], k[3], k[4])
             /\ Candidates[s] = derive_cd_candidates(s[1], s[2])
  <2>1. PICK p \in P : s = <<p.cmd2, p.err2>>
    BY DEF cmd2_samples, Sample2
  <2>2. s[1] \in Byte /\ s[2] = build_err_byte(s[1], k[3], k[4])
    BY <2>1, PacketAssumption DEF Explains, err2_for
  <2> QED  BY <1>1, <2>2, CandidatesOf
<1>5. one.outcome = "stable" /\ one.cd = combine_cd(k[1], k[2])
  BY <1>1, <1>2, <1>3, SamplesAgree
<1>6. two.outcome = "stable" /\ two.cd = combine_cd(k[3], k[4])
  BY <1>1, <1>2, <1>4, SamplesAgree
<1>7. /\ split_cd(combine_cd(k[1], k[2])) = <<k[1], k[2]>>
      /\ split_cd(combine_cd(k[3], k[4])) = <<k[3], k[4]>>
  BY <1>2, CombineSplit
<1> HIDE DEF one, two
<1>8. /\ Derived(P).outcome = two.outcome
      /\ Derived(P).profile = split_cd(one.cd) \o split_cd(two.cd)
  BY <1>5 DEF Derived, derive_ecc_profile, one, two
<1>9. <<k[1], k[2]>> \o <<k[3], k[4]>> = k
  BY <1>2, FourNibbles
<1> QED BY <1>5, <1>6, <1>7, <1>8, <1>9

\* The remote and the profile hold of every packet of a set, and the profile of a
\* legacy packet is four nibbles.
Proves(profile, remote, P) == \A p \in P :
  /\ p \in Packets /\ p.remote = remote
  /\ Explains(profile, p) /\ (is_extended(p) \/ profile \in EccConstants)

LEMMA ElementsOf == ASSUME NEW S, NEW s \in Seq(S) PROVE ToSet(s) \subseteq S /\ (s # <<>> => ToSet(s) # {})
BY DEF ToSet

\* The three words an extended remote keeps are those of each manual frame.
LEMMA ExtendedExplains ==
  ASSUME NEW packets \in Seq(Packets), NEW remote,
         derive_extended(packets, remote).status = "learned"
  PROVE  /\ derive_extended(packets, remote).remote = remote
         /\ \A p \in ToSet(packets) : Explains(derive_extended(packets, remote).profile, p)
<1> DEFINE P == ToSet(packets)
           manual == {p \in P : p.cmd1 % 4 = 1}
           w4 == {128 * (p.cmd1 \div 128) : p \in manual}
           w6 == {p.err1 : p \in manual}
           w8 == {p.extension[1] : p \in manual}
           learned == Learned(<<CHOOSE w \in w4 : TRUE, CHOOSE w \in w6 : TRUE,
                                CHOOSE w \in w8 : TRUE>>, remote, Last(packets))
<1>1. P \subseteq Packets
  BY ElementsOf
<1>2. /\ \A p \in P : is_extended(p)
      /\ \A W \in {w4, w6, w8} : Cardinality(W) = 1
      /\ derive_extended(packets, remote) = learned
  BY DEF derive_extended, Result
<1>3. \A p \in manual : p.extension[1] \in Byte
  <2>1. \A p \in P : p.extension \in Seq(Byte) /\ Len(p.extension) \in {0, 3} /\ p.extension # <<>>
    BY <1>1, <1>2, PacketAssumption DEF is_extended
  <2> QED  BY <2>1
<1>4. w6 \in SUBSET Byte /\ w8 \in SUBSET Byte /\ w4 \in SUBSET Byte
  <2>1. \A p \in P : p.cmd1 \in 0..255 /\ p.err1 \in Byte
    BY <1>1, PacketAssumption DEF Byte
  <2>2. \A n \in 0..255 : 128 * (n \div 128) \in 0..255
    <3>1. ASSUME NEW n \in 0..255 PROVE n \div 128 \in {0, 1}
      <4>1. n = 128 * (n \div 128) + (n % 128) /\ n \div 128 \in Int /\ n % 128 \in 0..127
        OBVIOUS
      <4> QED  BY <4>1
    <3> QED  BY <3>1
  <2>3. w4 \subseteq Byte
    <3>1. \A p \in manual : 128 * (p.cmd1 \div 128) \in Byte
      BY <2>1, <2>2, Zenon DEF Byte
    <3> QED  BY <3>1, Zenon
  <2>4. w6 \subseteq Byte /\ w8 \subseteq Byte
    BY <1>3, <2>1, Zenon
  <2> QED  BY <2>3, <2>4
<1>5. \A W \in {w4, w6, w8} : \E x : W = {x}
  <2>1. \A W \in {w4, w6, w8} : IsFiniteSet(W)
    BY <1>4, ByteIsFinite, FS_Subset
  <2> QED  BY <1>2, <2>1, FS_Singleton
<1>6. \A p \in manual : /\ 128 * (p.cmd1 \div 128) = CHOOSE w \in w4 : TRUE
                        /\ p.err1 = CHOOSE w \in w6 : TRUE
                        /\ p.extension[1] = CHOOSE w \in w8 : TRUE
  <2>1. \E x : w4 = {x}
    BY <1>5
  <2>2. \E x : w6 = {x}
    BY <1>5
  <2>3. \E x : w8 = {x}
    BY <1>5
  <2>4. \A p \in manual : 128 * (p.cmd1 \div 128) \in w4 /\ p.err1 \in w6 /\ p.extension[1] \in w8
    OBVIOUS
  <2> HIDE DEF w4, w6, w8
  <2> QED  BY <2>1, <2>2, <2>3, <2>4
<1>7. learned.remote = remote
  BY DEF Learned
<1>8. learned.profile = <<CHOOSE w \in w4 : TRUE, CHOOSE w \in w6 : TRUE, CHOOSE w \in w8 : TRUE>>
  BY DEF Learned
<1> HIDE DEF w4, w6, w8, learned
<1>9. \A p \in P : Explains(learned.profile, p)
  BY <1>2, <1>6, <1>8 DEF Explains
<1> QED BY <1>2, <1>7, <1>9

\* Guided learning concludes only what its packets prove.
LEMMA LearnedIsProven ==
  ASSUME NEW packets \in Seq(Packets), NEW remote, NEW valid,
         \A p \in ToSet(packets) : p.remote = remote,
         derive_learn_result_from_session(packets, valid, remote).status = "learned"
  PROVE  LET maybe == derive_learn_result_from_session(packets, valid, remote)
         IN Proves(maybe.profile, maybe.remote, ToSet(packets))
<1> DEFINE P == ToSet(packets)
           maybe == derive_learn_result_from_session(packets, valid, remote)
<1>1. P \in SUBSET Packets
  BY ElementsOf
<1>2. CASE \E p \in P : is_extended(p)
  <2>1. maybe = derive_extended(packets, remote)
    BY <1>2 DEF derive_learn_result_from_session
  <2> HIDE DEF maybe
  <2>2. maybe.remote = remote /\ \A p \in P : Explains(maybe.profile, p)
    BY <2>1, ExtendedExplains DEF maybe
  <2>3. \A p \in P : is_extended(p)
    BY <2>1 DEF maybe, derive_extended, Result
  <2> HIDE DEF P
  <2>4. Proves(maybe.profile, maybe.remote, P)
    <3>1. \A p \in P : p \in Packets /\ p.remote = remote
      BY <1>1 DEF P
    <3> QED  BY <2>2, <2>3, <3>1 DEF Proves
  <2> QED  BY <2>4 DEF maybe, P
<1>3. CASE \A p \in P : ~is_extended(p)
  <2>1. /\ EnoughSamples(P, valid)
        /\ Derived(P).outcome \notin {"no_stable", "ambiguous"}
        /\ maybe = Learned(Derived(P).profile, remote, Last(packets))
    BY <1>3 DEF derive_learn_result_from_session, Result
  <2>2. Derived(P).outcome = "stable"
    BY <2>1 DEF Derived, derive_ecc_profile, derive_stable_cd
  <2>3. P # {}
    <3>1. SUFFICES ASSUME P = {} PROVE FALSE
      OBVIOUS
    <3>2. cmd1_samples(P) = {}
      BY <3>1 DEF cmd1_samples
    <3>3. Cardinality(cmd1_samples(P)) = 0
      BY <3>2, FS_EmptySet
    <3> QED  BY <2>1, <3>3 DEF EnoughSamples, MIN_UNIQUE_CMD1_SAMPLES
  <2>4. /\ Derived(P).profile \in EccConstants
        /\ \A p \in P : /\ p.err1 = err1_for(p.cmd1, Derived(P).profile)
                        /\ p.err2 = err2_for(p.cmd2, Derived(P).profile)
    BY <1>1, <2>2, <2>3, DerivedExplains
  <2>5. maybe.remote = remote /\ maybe.profile = Derived(P).profile
    BY <2>1 DEF Learned
  <2> HIDE DEF maybe, P
  <2>6. Proves(maybe.profile, maybe.remote, P)
    <3>1. \A p \in P : p \in Packets /\ p.remote = remote
      BY <1>1 DEF P
    <3> QED  BY <1>3, <2>4, <2>5, <3>1 DEF Proves, Explains, P
  <2> QED  BY <2>6 DEF maybe, P
<1> QED BY <1>2, <1>3

\* The rows of a paste prove what is built from them.
LEMMA PastedIsProven ==
  ASSUME NEW pasted \in Seq(Legacy), RowsAccepted(pasted),
         try_build_manual_rtl433_learn_result(pasted).status = "learned"
  PROVE  LET maybe == try_build_manual_rtl433_learn_result(pasted)
         IN Proves(maybe.profile, maybe.remote, ToSet(pasted))
<1> DEFINE P == ToSet(pasted)
           maybe == try_build_manual_rtl433_learn_result(pasted)
<1>1. P \in SUBSET Packets /\ P # {} /\ \A p \in P : ~is_extended(p)
  BY ElementsOf DEF Legacy, RowsAccepted
<1>2. \A p \in P : p.remote = pasted[1].remote
  BY DEF RowsAccepted, ToSet
<1>3. Derived(P).outcome = "stable"
  BY DEF RowsAccepted
<1>4. maybe = Learned(Derived(P).profile, pasted[1].remote, Last(pasted))
  BY DEF try_build_manual_rtl433_learn_result, Result
<1>5. /\ Derived(P).profile \in EccConstants
      /\ \A p \in P : /\ p.err1 = err1_for(p.cmd1, Derived(P).profile)
                      /\ p.err2 = err2_for(p.cmd2, Derived(P).profile)
  BY <1>1, <1>3, DerivedExplains
<1>6. maybe.remote = pasted[1].remote /\ maybe.profile = Derived(P).profile
  BY <1>4 DEF Learned
<1> HIDE DEF maybe, P
<1>7. Proves(maybe.profile, maybe.remote, P)
  BY <1>1, <1>2, <1>5, <1>6 DEF Proves, Explains
<1> QED BY <1>7 DEF maybe, P

\* A set of numbers has a least one.
LEMMA LeastNumber ==
  ASSUME NEW T \in SUBSET Nat, T # {}
  PROVE  \E n \in T : \A m \in T : ~(m < n)
<1> DEFINE R == OpToRel(<, Nat)
<1>1. IsWellFoundedOn(R, Nat)
  BY NatLessThanWellFounded
<1>2. \A a, b \in Nat : a < b => <<a, b>> \in R
  BY DEF OpToRel
<1> HIDE DEF R
<1>3. \E n \in T : \A m \in T : <<m, n>> \notin R
  BY <1>1, WFMin
<1> QED BY <1>2, <1>3

\* The packet that ends learning without prompts is the first that ends it.
LEMMA StreamEnds ==
  ASSUME NEW stream \in Seq(Packets),
         \E i \in DOMAIN stream : StreamOutcome(stream, i).status \notin {"none", "ambiguous"}
  PROVE  \E n \in 1..Len(stream) :
           /\ async_learn_remote_profile(stream) = StreamOutcome(stream, n)
           /\ StreamOutcome(stream, n).status \notin {"none", "ambiguous"}
           /\ \A j \in 1..(n - 1) : StreamOutcome(stream, j).status \in {"none", "ambiguous"}
<1> DEFINE Ends(i) == StreamOutcome(stream, i).status \notin {"none", "ambiguous"}
           first == CHOOSE i \in DOMAIN stream : Ends(i) /\ \A j \in 1..(i - 1) : ~Ends(j)
           T == {i \in DOMAIN stream : Ends(i)}
<1>1. DOMAIN stream = 1..Len(stream) /\ Len(stream) \in Nat
  OBVIOUS
<1>2. T # {} /\ async_learn_remote_profile(stream) = StreamOutcome(stream, first)
  BY DEF async_learn_remote_profile, Result
<1>3. T \in SUBSET Nat
  BY <1>1
<1>4. PICK n \in T : \A m \in T : ~(m < n)
  <2> HIDE DEF T
  <2> QED  BY <1>2, <1>3, LeastNumber
<1>5. \A j \in 1..(n - 1) : ~Ends(j)
  BY <1>1, <1>4
<1>6. first \in DOMAIN stream /\ Ends(first) /\ \A j \in 1..(first - 1) : ~Ends(j)
  BY <1>4, <1>5
<1> QED BY <1>1, <1>2, <1>6

\* Learning without prompts never ends, at its time limit, with the error
\* "ambiguous_profile" (async_learn_remote_profile).
THEOREM LearningIsNotAmbiguous ==
  ASSUME NEW stream \in Seq(Packets)
  PROVE  async_learn_remote_profile(stream).status # "ambiguous"
<1>1. ASSUME NEW i \in DOMAIN stream PROVE StreamOutcome(stream, i).status # "ambiguous"
  <2> DEFINE P == {stream[j] : j \in 1..i}
  <2>1. P \in SUBSET Packets /\ P # {}
    OBVIOUS
  <2> HIDE DEF P
  <2>2. Derived(P).outcome \in {"stable", "no_stable"}
    BY <2>1, InferenceDecides
  <2>3. StreamOutcome(stream, i) \in {Result("inconsistent"), Result("none"), Result("contradictory"),
          Learned(Derived(P).profile, stream[1].remote, NoPacket)}
    BY <2>2 DEF StreamOutcome, P
  <2> QED  BY <2>3 DEF Result, Learned
<1>2. CASE \E i \in DOMAIN stream : StreamOutcome(stream, i).status \notin {"none", "ambiguous"}
  <2>1. PICK n \in 1..Len(stream) : async_learn_remote_profile(stream) = StreamOutcome(stream, n)
    BY <1>2, StreamEnds
  <2> QED  BY <1>1, <2>1
<1>3. CASE ~\E i \in DOMAIN stream : StreamOutcome(stream, i).status \notin {"none", "ambiguous"}
  BY <1>1, <1>3 DEF async_learn_remote_profile, Result
<1> QED BY <1>2, <1>3

\* Learning without prompts, from undamaged legacy frames of one remote, ends as soon as they
\* are enough, and with the constants of that remote (async_learn_remote_profile).
THEOREM UndamagedStreamIsLearned ==
  ASSUME NEW stream \in Seq(Legacy), NEW k \in EccConstants,
         \A i \in DOMAIN stream : stream[i].remote = stream[1].remote /\ Explains(k, stream[i])
  PROVE  LET maybe == async_learn_remote_profile(stream) IN
         /\ maybe.status \in {"learned", "timeout"}
         /\ maybe.status = "learned" => maybe.profile = k
         /\ (\E i \in DOMAIN stream : EnoughSamples({stream[j] : j \in 1..i}, i))
              => maybe.status = "learned"
<1> DEFINE maybe == async_learn_remote_profile(stream)
           Heard(i) == {stream[j] : j \in 1..i}
           learned == Learned(k, stream[1].remote, NoPacket)
<1>1. ASSUME NEW i \in DOMAIN stream
      PROVE  StreamOutcome(stream, i) = IF EnoughSamples(Heard(i), i) THEN learned ELSE Result("none")
  <2>1. /\ Heard(i) \in SUBSET Packets /\ Heard(i) # {}
        /\ \A p \in Heard(i) : ~is_extended(p) /\ Explains(k, p)
    BY DEF Legacy
  <2>2. Derived(Heard(i)).outcome = "stable" /\ Derived(Heard(i)).profile = k
    <3> HIDE DEF Heard
    <3> QED  BY <2>1, InferenceIsExact
  <2> QED  BY <2>2 DEF StreamOutcome
<1>2. learned.status = "learned" /\ learned.profile = k /\ Result("none").status = "none"
  BY DEF Learned, Result
<1> HIDE DEF learned, Heard
<1>3. CASE \E i \in DOMAIN stream : EnoughSamples(Heard(i), i)
  <2>1. \E i \in DOMAIN stream : StreamOutcome(stream, i).status \notin {"none", "ambiguous"}
    BY <1>1, <1>2, <1>3
  <2>2. stream \in Seq(Packets)
    BY DEF Legacy
  <2>3. \E i \in DOMAIN stream : StreamOutcome(stream, i).status \notin {"none", "ambiguous"}
                                    /\ maybe = StreamOutcome(stream, i)
    BY <2>1, <2>2, StreamEnds
  <2>4. maybe = learned
    BY <1>1, <1>2, <2>3
  <2> QED  BY <1>2, <1>3, <2>4 DEF Heard
<1>4. CASE ~\E i \in DOMAIN stream : EnoughSamples(Heard(i), i)
  <2>1. \A i \in DOMAIN stream : StreamOutcome(stream, i).status = "none"
    BY <1>1, <1>2, <1>4
  <2>2. maybe = Result("timeout")
    BY <2>1 DEF async_learn_remote_profile
  <2>3. maybe.status = "timeout"
    BY <2>2 DEF Result
  <2> QED  BY <1>4, <2>3 DEF Heard
<1> QED BY <1>3, <1>4

\* Learning without prompts concludes what every packet until then proves.
LEMMA StreamIsProven ==
  ASSUME NEW stream \in Seq(Legacy), async_learn_remote_profile(stream).status = "learned"
  PROVE  LET maybe == async_learn_remote_profile(stream)
         IN \E n \in MIN_VALID_PACKETS..Len(stream) :
              \A i \in 1..n : stream[i].remote = maybe.remote /\ Explains(maybe.profile, stream[i])
<1> DEFINE maybe == async_learn_remote_profile(stream)
<1>1. stream \in Seq(Packets)
  BY DEF Legacy
<1>2. PICK n \in 1..Len(stream) :
        /\ maybe = StreamOutcome(stream, n)
        /\ \A j \in 1..(n - 1) : StreamOutcome(stream, j).status \in {"none", "ambiguous"}
  <2>1. \E i \in DOMAIN stream : StreamOutcome(stream, i).status \notin {"none", "ambiguous"}
    BY DEF async_learn_remote_profile, Result
  <2> QED  BY <1>1, <2>1, StreamEnds
<1> DEFINE P == {stream[j] : j \in 1..n}
<1>3. maybe.status = "learned"
  OBVIOUS
<1> HIDE DEF maybe
<1>4. /\ EnoughSamples(P, n) /\ stream[n].remote = stream[1].remote
      /\ Derived(P).outcome \notin {"no_stable", "ambiguous"}
      /\ maybe = Learned(Derived(P).profile, stream[1].remote, NoPacket)
  BY <1>2, <1>3 DEF StreamOutcome, Result
<1>5. Derived(P).outcome = "stable"
  BY <1>4 DEF Derived, derive_ecc_profile, derive_stable_cd
<1>6. P \in SUBSET Packets /\ P # {} /\ \A p \in P : ~is_extended(p)
  BY <1>1 DEF Legacy
<1>7. \A p \in P : /\ p.err1 = err1_for(p.cmd1, Derived(P).profile)
                   /\ p.err2 = err2_for(p.cmd2, Derived(P).profile)
  BY <1>5, <1>6, DerivedExplains
<1>8. \A i \in 1..n : stream[i].remote = stream[1].remote
  <2>1. ASSUME NEW j \in 1..(n - 1) PROVE stream[j].remote = stream[1].remote
    BY <1>2, <2>1 DEF StreamOutcome, Result
  <2>2. \A i \in 1..n : i = n \/ i \in 1..(n - 1)
    OBVIOUS
  <2> QED  BY <1>4, <2>1, <2>2
<1>9. n \in MIN_VALID_PACKETS..Len(stream)
  BY <1>4 DEF EnoughSamples, MIN_VALID_PACKETS
<1>10. maybe.remote = stream[1].remote /\ maybe.profile = Derived(P).profile
  BY <1>4 DEF Learned
<1>11. \A i \in 1..n : stream[i] \in P
  OBVIOUS
<1> HIDE DEF P
<1>12. \A i \in 1..n : stream[i].remote = maybe.remote /\ Explains(maybe.profile, stream[i])
  BY <1>6, <1>7, <1>8, <1>10, <1>11 DEF Explains
<1> QED BY <1>9, <1>12 DEF maybe

-----------------------------------------------------------------------------
\* The invariant.

Remotes == {p.remote : p \in Packets} \cup {<<>>}
Heards  == [packets : Seq(Packets), remote : Remotes, valid : Nat, records : BOOLEAN]

\* What a session has kept is of the remote it heard first.
OfOneRemote ==
  /\ heard \in Heards
  /\ \A p \in ToSet(heard.packets) : p.remote = heard.remote

\* A result on its way to an entry is proven by what it was concluded from.
Concluded ==
  /\ then # "power_off"
  /\ step \in {"features", "power_off"} \/ (at = "disposing" /\ then = "features")
       => Proves(learn_result.profile, learn_result.remote, evidence)

EntriesProven == \A e \in entries : Proves(e.profile, e.remote, e.proof)

FlowInv == OfOneRemote /\ rows \in Seq(Legacy) /\ Concluded /\ EntriesProven

LEMMA NewSessionIsEmpty ==
  /\ NewSession \in Heards
  /\ \A p \in ToSet(NewSession.packets) : p.remote = NewSession.remote
BY DEF NewSession, Heards, Remotes, ToSet

\* A step that concludes nothing and hears nothing.
LEMMA FlowKept ==
  ASSUME FlowInv, UNCHANGED <<rows, entries>>, heard' \in {heard, NewSession},
         then' \in {then, "start", "failed"},
         \/ /\ step' \notin {"features", "power_off"}
            /\ ~(at' = "disposing" /\ then' = "features")
         \/ /\ UNCHANGED <<learn_result, evidence>>
            /\ step \in {"features", "power_off"} \/ (at = "disposing" /\ then = "features")
  PROVE  FlowInv'
<1>1. OfOneRemote'
  BY NewSessionIsEmpty DEF FlowInv, OfOneRemote
<1>2. Concluded'
  BY DEF FlowInv, Concluded
<1> QED BY <1>1, <1>2 DEF FlowInv, EntriesProven

\* The end of the flow: the entry it creates is proven.
LEMMA FlowCreates ==
  ASSUME FlowInv, NEW c, NEW remote, NEW profile, NEW proof,
         CreateEntry(c, remote, profile, proof), Proves(profile, remote, proof),
         UNCHANGED <<rows, heard, learn_result, evidence, at, then>>
  PROVE  FlowInv'
<1> DEFINE e == [controller |-> c.controller, link |-> c.link, remote |-> remote,
                 profile |-> profile, proof |-> proof]
<1>1. entries' \subseteq entries \cup {e} /\ step' = "over"
  BY DEF CreateEntry
<1>2. e.remote = remote /\ e.profile = profile /\ e.proof = proof
  OBVIOUS
<1> HIDE DEF e
<1>3. EntriesProven'
  BY <1>1, <1>2 DEF FlowInv, EntriesProven, Proves
<1>4. Concluded' /\ OfOneRemote'
  BY <1>1 DEF FlowInv, Concluded, OfOneRemote
<1> QED BY <1>3, <1>4 DEF FlowInv

LEMMA FlowStarts == Init => FlowInv
<1> SUFFICES ASSUME Init PROVE FlowInv
  OBVIOUS
<1>1. OfOneRemote
  BY NewSessionIsEmpty DEF Init, OfOneRemote
<1>2. Concluded /\ rows \in Seq(Legacy)
  BY DEF Init, Concluded
<1>3. EntriesProven
  BY FlowAssumption DEF Init, EntriesProven, Proves
<1> QED BY <1>1, <1>2, <1>3 DEF FlowInv

\* The setup forms, and what leads to a session.
LEMMA FormSteps ==
  ASSUME FlowInv,
         \/ \E c \in {"manual", "rtl433", "learn"} : Menu(c)
         \/ \E c \in Setups, m \in ManualProfiles : async_step_manual(c, m)
         \/ \E l \in EsphomeEntries \cup {""}, m \in ManualProfiles : async_step_manual_esphome(l, m)
         \/ \E c \in Setups : async_step_learn(c)
         \/ \E l \in EsphomeEntries \cup {""} : async_step_learn_esphome(l)
         \/ async_step_retry_learn
         \/ async_step_learn_features
  PROVE  FlowInv'
<1>1. ASSUME NEW c, Menu(c), c \in {"manual", "rtl433", "learn"} PROVE FlowInv'
  BY <1>1, FlowKept DEF Menu, Showing, taskVars
<1>2. ASSUME NEW c, NEW m, async_step_manual(c, m) PROVE FlowInv'
  <2>1. CASE LinkOk(c)
    <3>1. /\ CreateEntry(c, m.remote, m.profile, {})
          /\ UNCHANGED <<rows, heard, learn_result, evidence, at, then>>
      BY <1>2, <2>1 DEF async_step_manual, taskVars
    <3>2. Proves(m.profile, m.remote, {})
      BY DEF Proves
    <3> QED  BY <3>1, <3>2, FlowCreates
  <2>2. CASE ~LinkOk(c)
    BY <1>2, <2>2, FlowKept DEF async_step_manual, Showing, taskVars
  <2> QED  BY <2>1, <2>2
<1>3. ASSUME NEW l, NEW m, async_step_manual_esphome(l, m) PROVE FlowInv'
  <2>1. CASE LinkOk(pending')
    <3>1. /\ CreateEntry(pending', m.remote, m.profile, {})
          /\ UNCHANGED <<rows, heard, learn_result, evidence, at, then>>
      BY <1>3, <2>1 DEF async_step_manual_esphome, taskVars
    <3>2. Proves(m.profile, m.remote, {})
      BY DEF Proves
    <3> DEFINE c == pending'
    <3>3. CreateEntry(c, m.remote, m.profile, {})
      BY <3>1
    <3> HIDE DEF c
    <3> QED  BY <3>1, <3>2, <3>3, FlowCreates
  <2>2. CASE ~LinkOk(pending')
    BY <1>3, <2>2, FlowKept DEF async_step_manual_esphome, Showing, taskVars
  <2> QED  BY <2>1, <2>2
<1>4. ASSUME NEW c, async_step_learn(c) \/ async_step_learn_esphome(c) \/ async_step_retry_learn
      PROVE  FlowInv'
  <2>1. /\ step' \notin {"features", "power_off"} /\ ~(at' = "disposing" /\ then' = "features")
        /\ UNCHANGED <<rows, entries, heard>> /\ then' \in {then, "start"}
    BY <1>4 DEF async_step_learn, async_step_learn_esphome, async_step_retry_learn, BeginLearning,
                DisposeThen, Showing, taskVars
  <2> QED  BY <2>1, FlowKept
<1>5. CASE async_step_learn_features
  <2>1. Proves(learn_result.profile, learn_result.remote, evidence)
    BY <1>5 DEF async_step_learn_features, Showing, FlowInv, Concluded
  <2> QED  BY <1>5, <2>1, FlowCreates DEF async_step_learn_features, taskVars
<1> QED BY <1>1, <1>2, <1>3, <1>4, <1>5

\* Disposals, starts, background closes and the end of the dialog.
LEMMA SessionSteps ==
  ASSUME FlowInv, Disposal \/ Starts \/ BackgroundCloses \/ async_remove
  PROVE  FlowInv'
<1>1. ASSUME NEW b \in BOOLEAN, LogAwaited(b) PROVE FlowInv'
  BY <1>1, FlowKept DEF LogAwaited, taskVars
<1>2. ASSUME NEW b \in BOOLEAN, Disposed(b) PROVE FlowInv'
  <2>1. /\ UNCHANGED <<rows, entries, learn_result, evidence, then>> /\ at = "disposing"
        /\ heard' \in {heard, NewSession} /\ at' # "disposing"
        /\ step' = step \/ step' = then
    BY <1>2 DEF Disposed
  <2>2. CASE step' \notin {"features", "power_off"}
    BY <2>1, <2>2, FlowKept
  <2>3. CASE step' \in {"features", "power_off"}
    <3>1. step \in {"features", "power_off"} \/ (at = "disposing" /\ then = "features")
      BY <2>1, <2>3 DEF FlowInv, Concluded
    <3> QED  BY <2>1, <3>1, FlowKept
  <2> QED  BY <2>2, <2>3
<1>3. ASSUME NEW s \in Sessions, NEW b, Started(s) \/ StartUnavailable(s) \/ StartRaises(s, b)
      PROVE  FlowInv'
  <2>1. /\ UNCHANGED <<rows, entries, evidence>> /\ heard' \in {heard, NewSession} /\ at' = "idle"
        /\ learn_result' = learn_result \/ step' \in {"over", "failed"}
        /\ step' \in {"progress", "failed", "over", step} /\ then' = then
    BY <1>3 DEF Started, StartUnavailable, StartRaises, Over, taskVars
  <2> QED  BY <2>1, FlowKept
<1>4. ASSUME NEW s \in Sessions, NEW b, BackgroundClosed(s, b) PROVE FlowInv'
  BY <1>4, FlowKept DEF BackgroundClosed, taskVars
<1>5. CASE async_remove
  BY <1>5, FlowKept DEF async_remove
<1> QED BY <1>1, <1>2, <1>3, <1>4, <1>5 DEF Disposal, Starts, BackgroundCloses

LEMMA ObservedTyped ==
  ASSUME NEW p \in Packets, heard \in Heards
  PROVE  /\ Observed(p) \in Heards
         /\ Observed(p).packets = heard.packets
         /\ Observed(p).remote = IF heard.remote = <<>> THEN p.remote ELSE heard.remote
<1> DEFINE v == IF heard.valid < MIN_VALID_PACKETS THEN heard.valid + 1 ELSE heard.valid
           r == IF heard.remote = <<>> THEN p.remote ELSE heard.remote
           d == heard.records \/ (is_extended(p) /\ learn_input.controller = "lilygo")
<1>1. v \in Nat
  BY DEF Heards
<1>2. r \in Remotes
  BY DEF Heards, Remotes
<1>3. d \in BOOLEAN
  BY DEF Heards
<1>4. Observed(p) = [heard EXCEPT !.valid = v, !.remote = r, !.records = d]
  BY DEF Heards, Observed
<1> HIDE DEF v, r, d
<1>5. /\ Observed(p) \in Heards
      /\ Observed(p).packets = heard.packets
      /\ Observed(p).remote = r
  BY <1>1, <1>2, <1>3, <1>4 DEF Heards
<1> QED BY <1>5 DEF r

\* What the capture task hears, and what its outcome leads to.
LEMMA CaptureSteps ==
  ASSUME FlowInv,
         \/ \E p \in Packets, b \in BOOLEAN : Hear(p, b)
         \/ \E o \in {"timeout", "raised"} : CaptureEnds(o)
         \/ async_step_learn_prompt \/ Progress
  PROVE  FlowInv'
<1>1. ASSUME NEW p \in Packets, NEW b \in BOOLEAN, Hear(p, b) PROVE FlowInv'
  <2>1. /\ heard \in Heards /\ p.remote # <<>>
        /\ \A q \in ToSet(heard.packets) : q.remote = heard.remote
    BY PacketAssumption DEF FlowInv, OfOneRemote
  <2>2. /\ Observed(p) \in Heards
        /\ Observed(p).packets = heard.packets
        /\ Observed(p).remote = IF heard.remote = <<>> THEN p.remote ELSE heard.remote
    BY <2>1, ObservedTyped
  <2>3. \A q \in ToSet(heard.packets) : q.remote # <<>>
    BY <2>1, ElementsOf, PacketAssumption DEF Heards
  <2>4. \A q \in ToSet(heard.packets) : q.remote = Observed(p).remote
    BY <2>1, <2>2, <2>3
  <2>5. CASE RemoteIsConsistent(p) /\ ~Seen(p)
    <3>1. heard' = [Observed(p) EXCEPT !.packets = Append(@, p)]
      BY <1>1, <2>5 DEF Hear, Accepted
    <3> DEFINE kept == Append(heard.packets, p)
    <3>2. /\ heard' \in Heards /\ heard'.remote = Observed(p).remote
          /\ heard'.packets = Append(heard.packets, p)
      <4>1. kept \in Seq(Packets)
        BY <2>1, AppendProperties DEF Heards
      <4>2. heard' = [Observed(p) EXCEPT !.packets = kept]
        BY <2>2, <3>1
      <4> HIDE DEF kept
      <4>3. heard' \in Heards /\ heard'.packets = kept /\ heard'.remote = Observed(p).remote
        BY <2>2, <4>1, <4>2 DEF Heards
      <4> QED  BY <4>3 DEF kept
    <3>3. ToSet(heard'.packets) \subseteq ToSet(heard.packets) \cup {p}
      BY <2>1, <3>2 DEF ToSet, Heards
    <3>4. \A q \in ToSet(heard'.packets) : q.remote = heard'.remote
      BY <2>4, <2>5, <3>2, <3>3 DEF RemoteIsConsistent
    <3> QED  BY <1>1, <3>2, <3>4 DEF Hear, FlowInv, OfOneRemote, Concluded, EntriesProven
  <2>6. CASE ~(RemoteIsConsistent(p) /\ ~Seen(p))
    <3>1. heard' = Observed(p)
      BY <1>1, <2>6 DEF Hear
    <3> QED  BY <1>1, <2>2, <2>4, <3>1 DEF Hear, FlowInv, OfOneRemote, Concluded, EntriesProven
  <2> QED  BY <2>5, <2>6
<1>2. ASSUME NEW o, CaptureEnds(o) PROVE FlowInv'
  BY <1>2, FlowKept DEF CaptureEnds
<1>3. CASE async_step_learn_prompt
  BY <1>3, FlowKept DEF async_step_learn_prompt, Showing
<1>4. CASE CaptureFailed \/ DiagnosticPacket
  BY <1>4, FlowKept DEF CaptureFailed, DiagnosticPacket, ProgressOf, EndsWith, DisposeThen, Showing
<1>5. CASE LearnedPacket
  <2> DEFINE maybe == derive_learn_result_from_session(heard.packets, heard.valid, heard.remote)
  <2>1. /\ step = "progress" /\ at = "idle" /\ UNCHANGED <<rows, entries, heard>>
    BY <1>5 DEF LearnedPacket, ProgressOf, Showing
  <2>2. CASE step' = "prompt" /\ at' = at /\ then' = then
    BY <2>1, <2>2, FlowKept
  <2>3. CASE /\ EndsWith(maybe, IF maybe.status = "learned" THEN "features" ELSE "failed")
             /\ evidence' = ToSet(heard.packets) /\ step' = step
    <3>1. CASE maybe.status = "learned"
      <4>1. heard.packets \in Seq(Packets) /\ \A p \in ToSet(heard.packets) : p.remote = heard.remote
        BY DEF FlowInv, OfOneRemote, Heards
      <4>2. Proves(maybe.profile, maybe.remote, ToSet(heard.packets))
        BY <3>1, <4>1, LearnedIsProven
      <4>3. learn_result' = maybe
        BY <2>3 DEF EndsWith
      <4> HIDE DEF maybe
      <4>4. Concluded'
        BY <2>3, <4>2, <4>3 DEF EndsWith, DisposeThen, Concluded, Proves
      <4> QED  BY <2>1, <4>4 DEF FlowInv, OfOneRemote, EntriesProven
    <3>2. CASE maybe.status # "learned"
      BY <2>1, <2>3, <3>2, FlowKept DEF EndsWith, DisposeThen
    <3> QED  BY <3>1, <3>2
  <2> QED  BY <1>5, <2>2, <2>3 DEF LearnedPacket
<1>6. CASE ProgressLost
  BY <1>6, FlowKept DEF ProgressLost, Showing, taskVars
<1> QED BY <1>1, <1>2, <1>3, <1>4, <1>5, <1>6 DEF Progress

\* Pasted rows.
LEMMA PasteSteps ==
  ASSUME FlowInv,
         \/ \E c \in Setups : async_step_manual_rtl433(c)
         \/ \E l \in EsphomeEntries \cup {""} : async_step_manual_rtl433_esphome(l)
         \/ \E b \in Batches : async_step_manual_rtl433_prompt(b)
         \/ async_step_manual_rtl433_power_off
  PROVE  FlowInv'
<1>1. ASSUME NEW c, async_step_manual_rtl433(c) PROVE FlowInv'
  <2>1. /\ rows' = <<>> /\ UNCHANGED <<entries, heard, then>> /\ at' = "idle"
        /\ step' \notin {"features", "power_off"}
    BY <1>1 DEF async_step_manual_rtl433, Showing, taskVars
  <2>2. rows' \in Seq(Legacy)
    BY <2>1, EmptySeq
  <2> QED  BY <2>1, <2>2 DEF FlowInv, OfOneRemote, Concluded, EntriesProven
<1>2. ASSUME NEW l, async_step_manual_rtl433_esphome(l) PROVE FlowInv'
  BY <1>2, FlowKept DEF async_step_manual_rtl433_esphome, Showing, taskVars
<1>3. ASSUME NEW b \in Batches, async_step_manual_rtl433_prompt(b) PROVE FlowInv'
  <2> DEFINE updated == rows \o b
             maybe == try_build_manual_rtl433_learn_result(updated)
  <2>1. b \in Seq(Legacy) /\ rows \in Seq(Legacy)
    BY FlowAssumption DEF Legacy, FlowInv
  <2>2. updated \in Seq(Legacy)
    BY <2>1, ConcatProperties
  <2>3. /\ rows' = updated /\ UNCHANGED <<entries, heard, at, then>> /\ RowsAccepted(updated)
        /\ step = "rtl433_prompt" /\ at = "idle"
        /\ IF maybe.status = "learned"
             THEN learn_result' = maybe /\ evidence' = ToSet(updated) /\ step' = "power_off"
             ELSE UNCHANGED <<learn_result, evidence, step>>
    BY <1>3 DEF async_step_manual_rtl433_prompt, Showing, taskVars
  <2>4. maybe.status = "learned" => Proves(maybe.profile, maybe.remote, ToSet(updated))
    BY <2>2, <2>3, PastedIsProven
  <2> HIDE DEF maybe, updated
  <2>5. Concluded'
    BY <2>3, <2>4 DEF FlowInv, Concluded, Proves
  <2> QED  BY <2>2, <2>3, <2>5 DEF FlowInv, OfOneRemote, EntriesProven
<1>4. CASE async_step_manual_rtl433_power_off
  BY <1>4, FlowKept DEF async_step_manual_rtl433_power_off, Showing, taskVars
<1> QED BY <1>1, <1>2, <1>3, <1>4

LEMMA FlowStep == FlowInv /\ [Next]_vars => FlowInv'
<1> SUFFICES ASSUME FlowInv, [Next]_vars PROVE FlowInv'
  OBVIOUS
<1>1. CASE UNCHANGED vars
  BY <1>1 DEF vars, taskVars, FlowInv, OfOneRemote, Concluded, EntriesProven
<1> QED BY <1>1, FormSteps, SessionSteps, CaptureSteps, PasteSteps DEF Next

\* Every entry the flow creates, by whichever of its ways and after whatever retries,
\* other remotes and refused pastes, explains each packet it was concluded from.
THEOREM ProvenEntries == Spec => []EntryIsProven
<1>1. FlowInv => EntryIsProven
  BY DEF FlowInv, EntriesProven, EntryIsProven, Proves
<1> QED BY FlowStarts, FlowStep, <1>1, PTL DEF Spec

\* One undamaged legacy frame is enough: if constants explain any of the frames behind
\* an entry, they are the constants of its profile.
EntryIsDetermined == \A e \in entries : \A p \in e.proof : \A k \in EccConstants :
  ~is_extended(p) /\ Explains(k, p) => e.profile = k

\* An entry learned from frames one of which came whole from the remote has the constants
\* of that remote, whatever else was heard (derive_learn_result_from_session).
THEOREM TrueConstants == Spec => []EntryIsDetermined
<1>1. ASSUME FlowInv PROVE EntryIsDetermined
  <2> SUFFICES ASSUME NEW e \in entries, NEW p \in e.proof, NEW k \in EccConstants,
                      ~is_extended(p), Explains(k, p)
               PROVE  e.profile = k
    BY DEF EntryIsDetermined
  <2>1. p \in Packets /\ e.profile \in EccConstants /\ Explains(e.profile, p)
    BY <1>1 DEF FlowInv, EntriesProven, Proves
  <2> QED  BY <2>1, OneExplanation
<1> QED BY FlowStarts, FlowStep, <1>1, PTL DEF Spec

\* From the same legacy frames, in any number and however damaged, learning without
\* prompts and learning from pasted rows conclude a profile only if it explains each
\* frame heard until then (async_learn_remote_profile, _try_build_manual_rtl433_learn_result).
THEOREM ProvenLearning == Spec => []LearningIsProven
<1>1. ASSUME FlowInv PROVE LearningIsProven
  <2> DEFINE frames == heard.packets
             stream == async_learn_remote_profile(frames)
             pasted == try_build_manual_rtl433_learn_result(frames)
  <2>1. SUFFICES ASSUME frames # <<>>, \A p \in ToSet(frames) : ~is_extended(p)
                 PROVE  /\ stream.status = "learned" =>
                             \E n \in MIN_VALID_PACKETS..Len(frames) : \A i \in 1..n :
                               frames[i].remote = stream.remote /\ Explains(stream.profile, frames[i])
                        /\ RowsAccepted(frames) /\ pasted.status = "learned" =>
                             \A i \in 1..Len(frames) :
                               frames[i].remote = pasted.remote /\ Explains(pasted.profile, frames[i])
    BY DEF LearningIsProven
  <2>2. frames \in Seq(Packets)
    BY <1>1 DEF FlowInv, OfOneRemote, Heards
  <2>3. frames \in Seq(Legacy) /\ \A i \in 1..Len(frames) : frames[i] \in ToSet(frames)
    BY <2>1, <2>2 DEF Legacy, ToSet
  <2> HIDE DEF frames
  <2>4. RowsAccepted(frames) /\ pasted.status = "learned" =>
          Proves(pasted.profile, pasted.remote, ToSet(frames))
    BY <2>3, PastedIsProven
  <2>5. stream.status = "learned" =>
          \E n \in MIN_VALID_PACKETS..Len(frames) : \A i \in 1..n :
            frames[i].remote = stream.remote /\ Explains(stream.profile, frames[i])
    BY <2>3, StreamIsProven
  <2> QED  BY <2>3, <2>4, <2>5 DEF Proves
<1> QED BY FlowStarts, FlowStep, <1>1, PTL DEF Spec

-----------------------------------------------------------------------------
\* Types.

FormChoices == [controller : {"none", "yardstick", "lilygo"}, link : EsphomeEntries \cup {""}]

\* FlowTypeOK but for what FlowInv says of frames and rows.
FormTypes ==
  /\ step \in Steps
  /\ at \in {"idle", "disposing", "starting", "prompting"}
  /\ then \in {"start", "features", "failed"}
  /\ learn_input \in FormChoices /\ rtl433_input \in FormChoices /\ pending \in FormChoices
  /\ learn_result.status \in Statuses

SessionTypes ==
  /\ learn_session \in Sessions \cup {NoSession}
  /\ radio \in [Sessions -> {"unused", "opening", "open", "closed"}]
  /\ closers \subseteq Sessions /\ orphans \subseteq Sessions

TaskTypes ==
  /\ learn_task \in {"none", "listening"} \cup Outcomes
  /\ prompt_index \in 0..Len(LEARN_PROMPTS)
  /\ diagnostic \in BOOLEAN
  /\ log_task \in {"none", "running", "raised"}

DataTypes ==
  /\ Len(rows) <= MaxRows
  /\ heard.valid \in 0..MIN_VALID_PACKETS
  /\ evidence \subseteq Packets

FlowTypes == FormTypes /\ SessionTypes /\ TaskTypes /\ DataTypes

LEMMA TypesOfParts == FlowInv /\ FlowTypes => FlowTypeOK
<1> SUFFICES ASSUME FlowInv, FlowTypes PROVE FlowTypeOK
  OBVIOUS
<1>1. ToSet(rows) \subseteq Packets
  BY ElementsOf DEF FlowInv, Legacy
<1>2. ToSet(heard.packets) \subseteq Packets
  BY ElementsOf DEF FlowInv, OfOneRemote, Heards
<1> QED BY <1>1, <1>2 DEF FlowTypes, FormTypes, SessionTypes, TaskTypes, DataTypes, FormChoices, FlowTypeOK

LEMMA PromptsAreFour ==
  /\ Len(LEARN_PROMPTS) = 4
  /\ 0 \in 0..Len(LEARN_PROMPTS)
BY DEF LEARN_PROMPTS

LEMMA ChoicesTyped ==
  /\ NoChoice \in FormChoices /\ Setups \subseteq FormChoices
  /\ \A c \in FormChoices, l \in EsphomeEntries \cup {""} : [c EXCEPT !.link = l] \in FormChoices
BY FlowAssumption DEF NoChoice, FormChoices

LEMMA ResultsTyped ==
  \A o \in {"none", "timeout", "inconsistent", "unavailable", "diagnostic"} : Result(o).status \in Statuses
BY DEF Result, Statuses

LEMMA FreshIsTyped == NewSession.valid \in 0..MIN_VALID_PACKETS
BY DEF NewSession, MIN_VALID_PACKETS

LEMMA NoRows == Len(<<>>) <= MaxRows
<1>1. MaxRows \in Nat
  BY Zenon, FlowAssumption
<1> QED BY <1>1

LEMMA NoSessionIsNone == NoSession \notin Sessions
<1>1. Sessions = 1..Cardinality(Sessions)
  BY Zenon, FlowAssumption
<1>2. \A i \in 1..Cardinality(Sessions) : i # 0
  OBVIOUS
<1> QED BY <1>1, <1>2 DEF NoSession

LEMMA TypesStart == Init => FlowTypes
<1> SUFFICES ASSUME Init PROVE FlowTypes
  OBVIOUS
<1>1. FormTypes
  BY ChoicesTyped, ResultsTyped DEF Init, FormTypes, Steps
<1>2. SessionTypes
  BY DEF Init, SessionTypes
<1>3. TaskTypes
  <2>1. learn_task \in {"none", "listening"} \cup Outcomes
    BY DEF Init
  <2>2. prompt_index \in 0..Len(LEARN_PROMPTS)
    BY PromptsAreFour DEF Init
  <2> QED  BY <2>1, <2>2 DEF Init, TaskTypes
<1>4. DataTypes
  <2>1. Len(rows) <= MaxRows
    BY NoRows DEF Init
  <2> QED  BY <2>1, FreshIsTyped DEF Init, DataTypes
<1> QED BY <1>1, <1>2, <1>3, <1>4 DEF FlowTypes

LEMMA FormsTyped ==
  ASSUME FlowTypes,
         \/ \E c \in {"manual", "rtl433", "learn"} : Menu(c)
         \/ \E c \in Setups, m \in ManualProfiles : async_step_manual(c, m)
         \/ \E l \in EsphomeEntries \cup {""}, m \in ManualProfiles : async_step_manual_esphome(l, m)
         \/ \E c \in Setups : async_step_learn(c)
         \/ \E l \in EsphomeEntries \cup {""} : async_step_learn_esphome(l)
         \/ async_step_retry_learn
         \/ async_step_learn_features
  PROVE  FlowTypes'
<1> USE DEF FlowTypes
<1>1. UNCHANGED <<taskVars, log_task, rows, evidence, learn_session, radio, closers, orphans>>
  BY DEF Menu, async_step_manual, async_step_manual_esphome, async_step_learn,
         async_step_learn_esphome, async_step_retry_learn, async_step_learn_features,
         BeginLearning, DisposeThen, taskVars, sessionVars
<1>2. SessionTypes' /\ TaskTypes' /\ DataTypes'
  BY <1>1 DEF SessionTypes, TaskTypes, DataTypes, taskVars
<1>3. FormTypes'
  <2> USE ChoicesTyped, ResultsTyped DEF FormTypes, Steps
  <2>1. ASSUME NEW c \in {"manual", "rtl433", "learn"}, Menu(c) PROVE FormTypes'
    BY <2>1 DEF Menu, inputVars
  <2>2. ASSUME NEW c \in Setups, NEW m, async_step_manual(c, m) PROVE FormTypes'
    BY <2>2 DEF async_step_manual, CreateEntry
  <2>3. ASSUME NEW l \in EsphomeEntries \cup {""}, NEW m, async_step_manual_esphome(l, m)
        PROVE  FormTypes'
    BY <2>3 DEF async_step_manual_esphome, CreateEntry
  <2>4. ASSUME NEW c \in Setups, async_step_learn(c) PROVE FormTypes'
    BY <2>4 DEF async_step_learn, BeginLearning, DisposeThen
  <2>5. ASSUME NEW l \in EsphomeEntries \cup {""}, async_step_learn_esphome(l) PROVE FormTypes'
    BY <2>5 DEF async_step_learn_esphome, BeginLearning, DisposeThen
  <2>6. CASE async_step_retry_learn
    BY <2>6 DEF async_step_retry_learn, BeginLearning, DisposeThen, inputVars
  <2>7. CASE async_step_learn_features
    BY <2>7 DEF async_step_learn_features, CreateEntry, inputVars
  <2> QED  BY <2>1, <2>2, <2>3, <2>4, <2>5, <2>6, <2>7
<1> QED BY <1>2, <1>3

LEMMA SessionsTyped ==
  ASSUME FlowTypes, Disposal \/ Starts \/ BackgroundCloses \/ async_remove
  PROVE  FlowTypes'
<1> USE FreshIsTyped, ResultsTyped, PromptsAreFour
    DEF FlowTypes, FormTypes, SessionTypes, TaskTypes, DataTypes, Steps, inputVars, sessionVars, taskVars
<1>1. ASSUME NEW b \in BOOLEAN, LogAwaited(b) PROVE FlowTypes'
  BY <1>1 DEF LogAwaited
<1>2. ASSUME NEW b \in BOOLEAN, Disposed(b) PROVE FlowTypes'
  BY <1>2 DEF Disposed, Over
<1>3. ASSUME NEW s \in Sessions, Started(s) PROVE FlowTypes'
  <2>1. FormTypes'
    BY <1>3 DEF Started, Over
  <2>2. SessionTypes'
    BY <1>3 DEF Started
  <2>3. TaskTypes'
    <3>1. learn_task' = "listening" /\ prompt_index' = 0 /\ diagnostic' = FALSE /\ log_task' = "none"
      BY <1>3 DEF Started
    <3>2. prompt_index' \in 0..Len(LEARN_PROMPTS)
      BY <3>1
    <3>3. learn_task' \in {"none", "listening"} \cup Outcomes
      BY <3>1
    <3> QED  BY <3>1, <3>2, <3>3
  <2>4. DataTypes'
    BY <1>3 DEF Started
  <2> QED  BY <2>1, <2>2, <2>3, <2>4
<1>4. ASSUME NEW s \in Sessions, StartUnavailable(s) PROVE FlowTypes'
  BY <1>4 DEF StartUnavailable, Over
<1>5. ASSUME NEW s \in Sessions, NEW b \in BOOLEAN, StartRaises(s, b) PROVE FlowTypes'
  BY <1>5 DEF StartRaises
<1>6. ASSUME NEW s \in Sessions, NEW b \in BOOLEAN, BackgroundClosed(s, b) PROVE FlowTypes'
  BY <1>6 DEF BackgroundClosed
<1>7. CASE async_remove
  BY <1>7 DEF async_remove, NoSession
<1> QED BY <1>1, <1>2, <1>3, <1>4, <1>5, <1>6, <1>7 DEF Disposal, Starts, BackgroundCloses

LEMMA CapturesTyped ==
  ASSUME FlowInv, FlowTypes,
         \/ \E p \in Packets, b \in BOOLEAN : Hear(p, b)
         \/ \E o \in {"timeout", "raised"} : CaptureEnds(o)
         \/ async_step_learn_prompt \/ Progress
  PROVE  FlowTypes'
<1> USE DEF FlowTypes, FormTypes, SessionTypes, TaskTypes, DataTypes, Steps, Outcomes,
            inputVars, sessionVars, taskVars
<1>1. ASSUME NEW p \in Packets, NEW b \in BOOLEAN, Hear(p, b) PROVE FlowTypes'
  <2>1. heard \in Heards
    BY DEF FlowInv, OfOneRemote
  <2>2. Observed(p).valid = (IF heard.valid < MIN_VALID_PACKETS THEN heard.valid + 1 ELSE heard.valid)
    BY <2>1 DEF Observed, Heards
  <2>3. Observed(p).valid \in 0..MIN_VALID_PACKETS
    BY <2>2 DEF MIN_VALID_PACKETS
  <2>4. heard'.valid = Observed(p).valid
    BY <1>1, <2>1, ObservedTyped DEF Hear, Accepted, Heards
  <2>5. learn_task' \in {"none", "listening"} \cup Outcomes
    BY <1>1 DEF Hear, Accepted, SeenFrame
  <2> QED  BY <1>1, <2>3, <2>4, <2>5 DEF Hear
<1>2. ASSUME NEW o \in {"timeout", "raised"}, CaptureEnds(o) PROVE FlowTypes'
  BY <1>2 DEF CaptureEnds
<1>3. CASE async_step_learn_prompt
  BY <1>3 DEF async_step_learn_prompt
<1>4. NextPrompt \in 0..Len(LEARN_PROMPTS)
  BY PromptsAreFour DEF NextPrompt
<1>5. CASE CaptureFailed
  <2>1. learn_result'.status \in Statuses
    BY <1>5, ResultsTyped DEF CaptureFailed, ProgressOf, EndsWith
  <2> QED  BY <1>5, <2>1 DEF CaptureFailed, ProgressOf, EndsWith, DisposeThen
<1>6. CASE DiagnosticPacket
  BY <1>4, <1>6, ResultsTyped DEF DiagnosticPacket, ProgressOf, EndsWith, DisposeThen
<1>7. CASE LearnedPacket
  <2> DEFINE maybe == derive_learn_result_from_session(heard.packets, heard.valid, heard.remote)
  <2>1. ToSet(heard.packets) \subseteq Packets
    BY ElementsOf DEF FlowInv, OfOneRemote, Heards
  <2>2. /\ ProgressOf({"packet"})
        /\ prompt_index' \in {0, NextPrompt} /\ diagnostic' \in {TRUE, diagnostic}
        /\ log_task' \in {"running", log_task} /\ evidence' \in {evidence, ToSet(heard.packets)}
        /\ step' \in {"prompt", step} /\ at' \in {at, "disposing"}
        /\ then' \in {then, "features", "failed"} /\ UNCHANGED <<radio, learn_session>>
        /\ learn_result' = learn_result \/ learn_result'.status \in {"learned", "contradictory"}
    BY <1>7 DEF LearnedPacket, EndsWith, DisposeThen
  <2>3. learn_result'.status \in Statuses
    BY <2>2 DEF Statuses
  <2>4. prompt_index' \in 0..Len(LEARN_PROMPTS)
    BY <1>4, <2>2, PromptsAreFour
  <2>5. FormTypes'
    BY <2>2, <2>3 DEF ProgressOf
  <2>6. SessionTypes'
    BY <2>2 DEF ProgressOf
  <2>7. TaskTypes'
    BY <2>2, <2>4 DEF ProgressOf
  <2>8. DataTypes'
    BY <2>1, <2>2 DEF ProgressOf
  <2> QED  BY <2>5, <2>6, <2>7, <2>8
<1>8. CASE ProgressLost
  BY <1>8 DEF ProgressLost
<1> QED BY <1>1, <1>2, <1>3, <1>5, <1>6, <1>7, <1>8 DEF Progress

LEMMA PastesTyped ==
  ASSUME FlowInv, FlowTypes,
         \/ \E c \in Setups : async_step_manual_rtl433(c)
         \/ \E l \in EsphomeEntries \cup {""} : async_step_manual_rtl433_esphome(l)
         \/ \E b \in Batches : async_step_manual_rtl433_prompt(b)
         \/ async_step_manual_rtl433_power_off
  PROVE  FlowTypes'
<1> USE ChoicesTyped DEF FlowTypes, FormTypes, SessionTypes, TaskTypes, DataTypes, Steps,
            inputVars, sessionVars, taskVars
<1>1. ASSUME NEW c \in Setups, async_step_manual_rtl433(c) PROVE FlowTypes'
  <2>1. rtl433_input' \in FormChoices
    BY <1>1 DEF async_step_manual_rtl433
  <2>2. Len(rows') <= MaxRows
    BY <1>1, NoRows DEF async_step_manual_rtl433
  <2>3. UNCHANGED taskVars /\ step' \in {"rtl433_esphome", "rtl433_prompt"}
    BY <1>1 DEF async_step_manual_rtl433
  <2>4. FormTypes'
    BY <1>1, <2>1, <2>3 DEF async_step_manual_rtl433
  <2>5. SessionTypes' /\ TaskTypes'
    BY <1>1, <2>3 DEF async_step_manual_rtl433
  <2>6. DataTypes'
    BY <1>1, <2>2, <2>3 DEF async_step_manual_rtl433
  <2> QED  BY <2>4, <2>5, <2>6
<1>2. ASSUME NEW l \in EsphomeEntries \cup {""}, async_step_manual_rtl433_esphome(l)
      PROVE  FlowTypes'
  BY <1>2 DEF async_step_manual_rtl433_esphome
<1>3. ASSUME NEW b \in Batches, async_step_manual_rtl433_prompt(b) PROVE FlowTypes'
  <2> DEFINE updated == rows \o b
             maybe == try_build_manual_rtl433_learn_result(updated)
  <2>1. updated \in Seq(Legacy)
    BY FlowAssumption, ConcatProperties DEF Legacy, FlowInv
  <2>2. ToSet(updated) \subseteq Packets
    BY <2>1, ElementsOf DEF Legacy
  <2>3. /\ rows' = updated /\ Len(updated) <= MaxRows
        /\ IF maybe.status = "learned"
             THEN /\ learn_result' = maybe /\ learn_input' = rtl433_input
                  /\ evidence' = ToSet(updated) /\ step' = "power_off"
             ELSE UNCHANGED <<learn_result, learn_input, evidence, step>>
        /\ UNCHANGED <<at, then, rtl433_input, pending, sessionVars, taskVars, log_task>>
    BY <1>3 DEF async_step_manual_rtl433_prompt
  <2> HIDE DEF maybe, updated
  <2>4. learn_result'.status \in Statuses
    BY <2>3 DEF Statuses
  <2>5. FormTypes'
    BY <2>3, <2>4
  <2>6. SessionTypes' /\ TaskTypes'
    BY <2>3
  <2>7. evidence' \subseteq Packets
    BY <2>2, <2>3
  <2>8. DataTypes'
    BY <2>3, <2>7
  <2> QED  BY <2>5, <2>6, <2>8
<1>4. CASE async_step_manual_rtl433_power_off
  BY <1>4 DEF async_step_manual_rtl433_power_off
<1> QED BY <1>1, <1>2, <1>3, <1>4

LEMMA TypesStep == FlowInv /\ FlowTypes /\ [Next]_vars => FlowTypes'
<1> SUFFICES ASSUME FlowInv, FlowTypes, [Next]_vars PROVE FlowTypes'
  OBVIOUS
<1>1. CASE UNCHANGED vars
  BY <1>1 DEF vars, inputVars, sessionVars, taskVars, FlowTypes, FormTypes, SessionTypes, TaskTypes,
              DataTypes
<1> QED BY <1>1, FormsTyped, SessionsTyped, CapturesTyped, PastesTyped DEF Next

\* Every variable of the flow keeps its type: a step is one Home Assistant can show,
\* a result has one of the known outcomes, and what is kept are packets.
THEOREM FlowTypeCorrect == Spec => []FlowTypeOK
BY FlowStarts, FlowStep, TypesStart, TypesStep, TypesOfParts, PTL DEF Spec

-----------------------------------------------------------------------------
\* The radios.

\* A session is held, and a start finds the flow without one.
Held ==
  /\ RadioIsHeld
  /\ at = "starting" => learn_session = NoSession

LEMMA HeldStep ==
  ASSUME SessionTypes, Held, [Next]_vars
  PROVE  Held'
<1> USE DEF Held, RadioIsHeld
<1>1. CASE UNCHANGED <<sessionVars, at>> \/ (UNCHANGED sessionVars /\ at' # "starting")
  BY <1>1 DEF sessionVars
<1>2. ASSUME NEW b \in BOOLEAN, LogAwaited(b) PROVE Held'
  BY <1>1, <1>2 DEF LogAwaited
<1>3. ASSUME NEW b \in BOOLEAN, Disposed(b) PROVE Held'
  BY <1>3 DEF Disposed, SessionTypes, NoSession
<1>4. ASSUME NEW s \in Sessions, Started(s) PROVE Held'
  <2>1. learn_session = NoSession /\ radio \in [Sessions -> {"unused", "opening", "open", "closed"}]
    BY <1>4 DEF Started, SessionTypes
  <2>2. NoSession \notin Sessions
    BY NoSessionIsNone
  <2>3. /\ radio' = [radio EXCEPT ![s] = "open"] /\ learn_session' = s /\ closers' = closers
        /\ orphans \subseteq orphans' /\ at' = "idle"
    BY <1>4 DEF Started
  <2>4. ASSUME NEW t \in Sessions, radio'[t] = "open", t # s PROVE t \in closers \cup orphans
    BY <2>1, <2>2, <2>3, <2>4
  <2> QED  BY <2>3, <2>4
<1>5. ASSUME NEW s \in Sessions, NEW b \in BOOLEAN, StartUnavailable(s) \/ StartRaises(s, b)
      PROVE  Held'
  BY <1>5 DEF StartUnavailable, StartRaises, SessionTypes, Opening
<1>6. ASSUME NEW s \in Sessions, NEW b \in BOOLEAN, BackgroundClosed(s, b) PROVE Held'
  BY <1>6 DEF BackgroundClosed, SessionTypes
<1>7. CASE async_remove
  BY <1>7 DEF async_remove, SessionTypes, NoSession
<1>8. CASE \/ \E c \in {"manual", "rtl433", "learn"} : Menu(c)
           \/ \E c \in Setups, m \in ManualProfiles : async_step_manual(c, m)
           \/ \E l \in EsphomeEntries \cup {""}, m \in ManualProfiles : async_step_manual_esphome(l, m)
           \/ \E c \in Setups : async_step_learn(c)
           \/ \E l \in EsphomeEntries \cup {""} : async_step_learn_esphome(l)
           \/ async_step_retry_learn \/ async_step_learn_features
  <2>1. UNCHANGED sessionVars /\ (at' = at \/ at' # "starting")
    BY <1>8 DEF Menu, async_step_manual, async_step_manual_esphome, async_step_learn,
                async_step_learn_esphome, async_step_retry_learn, async_step_learn_features,
                BeginLearning, DisposeThen, sessionVars
  <2> QED  BY <1>1, <2>1
<1>9. CASE \/ \E p \in Packets, b \in BOOLEAN : Hear(p, b)
           \/ \E o \in {"timeout", "raised"} : CaptureEnds(o)
           \/ async_step_learn_prompt \/ Progress
  <2>1. UNCHANGED sessionVars /\ (at' = at \/ at' # "starting")
    BY <1>9 DEF Hear, CaptureEnds, async_step_learn_prompt, Progress, CaptureFailed,
                DiagnosticPacket, LearnedPacket, ProgressLost, ProgressOf, EndsWith, DisposeThen,
                sessionVars
  <2> QED  BY <1>1, <2>1
<1>10. CASE \/ \E c \in Setups : async_step_manual_rtl433(c)
            \/ \E l \in EsphomeEntries \cup {""} : async_step_manual_rtl433_esphome(l)
            \/ \E b \in Batches : async_step_manual_rtl433_prompt(b)
            \/ async_step_manual_rtl433_power_off
  <2>1. UNCHANGED <<sessionVars, at>>
    BY <1>10 DEF async_step_manual_rtl433, async_step_manual_rtl433_esphome,
                 async_step_manual_rtl433_prompt, async_step_manual_rtl433_power_off
  <2> QED  BY <1>1, <2>1
<1>11. CASE UNCHANGED vars
  BY <1>1, <1>11 DEF vars
<1> QED BY <1>2, <1>3, <1>4, <1>5, <1>6, <1>7, <1>8, <1>9, <1>10, <1>11
       DEF Next, Disposal, Starts, BackgroundCloses

\* However a dialog is closed, retried and started again, for any number of sessions,
\* an open radio is the session of the flow, is being closed, or is one of the known
\* losses (_async_dispose_learning_session, async_remove).
THEOREM RadiosAreHeld == Spec => []RadioIsHeld
<1>1. Init => Held
  BY DEF Init, Held, RadioIsHeld
<1>2. FlowTypes /\ Held /\ [Next]_vars => Held'
  BY HeldStep DEF FlowTypes
<1>3. Held => RadioIsHeld
  BY DEF Held
<1> QED BY <1>1, <1>2, <1>3, FlowStarts, FlowStep, TypesStart, TypesStep, PTL DEF Spec
=============================================================================
