-------------------------- MODULE ProfileLearning ---------------------------
(***************************************************************************)
(* What a set of observed frames proves about a remote: the three ways the *)
(* integration infers a profile, guided learning and learning without      *)
(* prompts (learning.py) and pasted rtl_433 rows (profile.py).             *)
(*                                                                         *)
(* A packet has the remote, the words of its frame and the extension words *)
(* of a ten-word frame, none for a legacy one; equal packets have equal    *)
(* wire words, and none below has a warning.                               *)
(***************************************************************************)
EXTENDS EccProfile, SequencesExt

CONSTANT Packets   \* the packets a backend may deliver

MIN_VALID_PACKETS == 3
MIN_UNIQUE_CMD1_SAMPLES == 2
MIN_UNIQUE_CMD2_SAMPLES == 2

ASSUME PacketAssumption == \A p \in Packets :
  /\ {p.cmd1, p.err1, p.cmd2, p.err2} \subseteq Byte
  /\ p.remote # <<>>
  /\ p.extension \in Seq(Byte) /\ Len(p.extension) \in {0, 3}

is_extended(p) == p.extension # <<>>
\* The ten words of an extended frame.
wire_words(p) == p.remote \o <<p.cmd1, p.cmd2, p.err1, p.err2>> \o p.extension

Sample1(p) == <<p.cmd1, p.err1>>
Sample2(p) == <<p.cmd2, p.err2>>
cmd1_samples(P) == {Sample1(p) : p \in P}
cmd2_samples(P) == {Sample2(p) : p \in P}

Candidates == [s \in cmd1_samples(Packets) \cup cmd2_samples(Packets) |->
                 derive_cd_candidates(s[1], s[2])]

Derived(P) == derive_ecc_profile(cmd1_samples(P), cmd2_samples(P), Candidates)

-----------------------------------------------------------------------------
\* A result has a status, the profile learned if any (C1 D1 C2 D2, or W4 base,
\* W6 and W8 of an extended remote), the remote and the packet heard last.

NoPacket == [remote |-> <<>>, cmd1 |-> 0, err1 |-> 0, cmd2 |-> 0, err2 |-> 0, extension |-> <<>>]

Statuses == {"none", "learned", "contradictory", "ambiguous", "inconsistent", "timeout",
             "unavailable", "diagnostic"}

Result(status) == [status |-> status, profile |-> <<>>, remote |-> <<>>, final |-> NoPacket]

Learned(profile, remote, final) ==
  [status |-> "learned", profile |-> profile, remote |-> remote, final |-> final]

EnoughSamples(P, valid) ==
  /\ valid >= MIN_VALID_PACKETS
  /\ Cardinality(cmd1_samples(P)) >= MIN_UNIQUE_CMD1_SAMPLES
  /\ Cardinality(cmd2_samples(P)) >= MIN_UNIQUE_CMD2_SAMPLES

\* _derive_extended_learn_result; packets are the distinct ones, in order.
derive_extended(packets, remote) ==
  LET manual == {p \in ToSet(packets) : p.cmd1 % 4 = 1}
      w4 == {128 * (p.cmd1 \div 128) : p \in manual}
      w6 == {p.err1 : p \in manual}
      w8 == {p.extension[1] : p \in manual}
  IN IF \E p \in ToSet(packets) : ~is_extended(p) THEN Result("contradictory")
     ELSE IF Len(packets) < MIN_VALID_PACKETS \/ Cardinality({p.cmd2 : p \in manual}) < 2
       THEN Result("none")
     ELSE IF \E W \in {w4, w6, w8} : Cardinality(W) # 1 THEN Result("contradictory")
     ELSE Learned(<<CHOOSE w \in w4 : TRUE, CHOOSE w \in w6 : TRUE, CHOOSE w \in w8 : TRUE>>,
                  remote, Last(packets))

\* derive_learn_result_from_session: "none" means that another prompt follows.
derive_learn_result_from_session(packets, valid, remote) ==
  IF \E p \in ToSet(packets) : is_extended(p) THEN derive_extended(packets, remote)
  ELSE IF ~EnoughSamples(ToSet(packets), valid) THEN Result("none")
  ELSE LET ecc == Derived(ToSet(packets))
       IN CASE ecc.outcome = "no_stable" -> Result("contradictory")
            [] ecc.outcome = "ambiguous" -> Result("none")
            [] OTHER -> Learned(ecc.profile, remote, Last(packets))

-----------------------------------------------------------------------------
\* Learning without prompts: after each packet of the stream, until a result.

\* Mutant: only the packet heard last is looked at.
async_learn_remote_profile_last_only(stream) ==
  LET ecc == Derived({Last(stream)})
  IN IF Len(stream) >= MIN_VALID_PACKETS /\ ecc.outcome = "stable"
       THEN Learned(ecc.profile, Last(stream).remote, NoPacket) ELSE Result("timeout")

\* What the i-th packet of the stream leads to; an ambiguity is not the end.
StreamOutcome(stream, i) ==
  LET P   == {stream[j] : j \in 1..i}
      ecc == Derived(P)
  IN IF stream[i].remote # stream[1].remote THEN Result("inconsistent")
     ELSE IF ~EnoughSamples(P, i) THEN Result("none")
     ELSE CASE ecc.outcome = "no_stable" -> Result("contradictory")
            [] ecc.outcome = "ambiguous" -> Result("ambiguous")
            [] OTHER -> Learned(ecc.profile, stream[1].remote, NoPacket)

async_learn_remote_profile(stream) ==
  LET Ends(i) == StreamOutcome(stream, i).status \notin {"none", "ambiguous"}
      Ambiguous(i) == StreamOutcome(stream, i).status = "ambiguous"
      first == CHOOSE i \in DOMAIN stream : Ends(i) /\ \A j \in 1..(i - 1) : ~Ends(j)
  IN IF \E i \in DOMAIN stream : Ends(i) THEN StreamOutcome(stream, first)
     ELSE Result(IF \E i \in DOMAIN stream : Ambiguous(i) THEN "ambiguous" ELSE "timeout")

-----------------------------------------------------------------------------
\* Pasted rtl_433 rows: the accumulated rows are validated as a whole.

\* normalize_manual_rtl433_profile_samples raises unless this holds.
RowsAccepted(rows) ==
  /\ rows # <<>>
  /\ \A i, j \in DOMAIN rows : rows[i].remote = rows[j].remote
  /\ Derived(ToSet(rows)).outcome = "stable"

try_build_manual_rtl433_learn_result(rows) ==
  IF EnoughSamples(ToSet(rows), Len(rows))
    THEN Learned(Derived(ToSet(rows)).profile, rows[1].remote, Last(rows))
    ELSE Result("none")
=============================================================================
