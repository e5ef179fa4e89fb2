------------------------------ MODULE Waveform ------------------------------
(***************************************************************************)
(* The air format of Proflame frames: what a transmission puts on the air  *)
(* (rf/waveform.py), and the two decoders that look for frames in what a   *)
(* receiver captured of it, the scanner of FIFO payloads (rf/capture.py)   *)
(* and that of RMT pulse rows (rf/pulse.py).                               *)
(*                                                                         *)
(* A frame is the sequence of its wire words, seven or ten.  A capture is  *)
(* a sequence of bits that starts anywhere in a transmission.              *)
(***************************************************************************)
EXTENDS EccProfile, SequencesExt

CONSTANTS
  Frames,     \* frames that may be sent, as wire words
  Noise,      \* bit sequences received before a transmission
  Losses,     \* numbers of bits lost at either end of a capture
  Jitters,    \* microseconds a pulse is measured too long or too short
  Repeats,    \* transmissions of one burst
  MaxBursts, MaxFaults   \* bounds: bursts and faults of one capture

ASSUME WaveformAssumption ==
  /\ \A f \in Frames : f \in Seq(Byte) /\ Len(f) \in {7, 10}
  /\ \A f \in Frames : Len(f) = 10 => extended_frame_integrity_matches(f)
  /\ Repeats \in Nat \ {0} /\ Losses \subseteq Nat \ {0}
  /\ Noise \subseteq Seq({0, 1}) /\ Jitters \subseteq -208..208
  /\ MaxBursts \in Nat /\ MaxFaults \in Nat

PROFLAME_WORD_COUNT  == 7
EXTENDED_WORD_COUNT  == 10
SYMBOLS_PER_WORD     == 13
TRAILING_ZERO_SYMBOLS == 9
TOTAL_SYMBOLS        == PROFLAME_WORD_COUNT * SYMBOLS_PER_WORD + TRAILING_ZERO_SYMBOLS
WORD_BITS            == 2 * SYMBOLS_PER_WORD
NATIVE_REPEAT_SEPARATOR_BITS == 12
PCM_UNIT_US          == 417
MIN_REPEAT_GAP_BITS  == 10
MAX_RUN_UNITS        == 3
MAX_REPEAT_GAP_UNITS == 16

-----------------------------------------------------------------------------
\* Transmission.

SYMBOL_TO_BITS == [S |-> <<1, 1>>, Zero |-> <<0, 1>>, One |-> <<1, 0>>, Z |-> <<0, 0>>]
BitSymbol(b) == IF b = 1 THEN "One" ELSE "Zero"

Repeated(x, n) == [i \in 1..n |-> x]
\* The parts, of n elements each, one after the other.
Joined(parts, n) ==
  [i \in 1..n * Len(parts) |-> parts[((i - 1) \div n) + 1][((i - 1) % n) + 1]]
Ones(bits) == Cardinality({i \in DOMAIN bits : bits[i] = 1})

\* The nine bits of a word; only the first word has a trailing one.
word_bits(byte, index) == [i \in 1..8 |-> BitOf(byte, 8 - i)] \o <<IF index = 1 THEN 1 ELSE 0>>

\* Mutant: the parity symbol covers the byte without its trailing bit.
word_symbols_parity_of_byte(byte, index) ==
  LET bits == word_bits(byte, index)
  IN <<"S", "One">> \o [i \in 1..9 |-> BitSymbol(bits[i])]
       \o <<BitSymbol(Ones(SubSeq(bits, 1, 8)) % 2), "One">>

word_symbols(byte, index) ==
  LET bits == word_bits(byte, index)
  IN <<"S", "One">> \o [i \in 1..9 |-> BitSymbol(bits[i])] \o <<BitSymbol(Ones(bits) % 2), "One">>

frame_to_symbol_string(words) ==
  Joined([i \in DOMAIN words |-> word_symbols(words[i], i)], SYMBOLS_PER_WORD)
    \o Repeated("Z", TRAILING_ZERO_SYMBOLS)

\* Zeros up to a whole number of bytes: the bits of a payload.
AsBytes(bits) == bits \o Repeated(0, (8 - (Len(bits) % 8)) % 8)

symbols_to_air_bytes(symbols) ==
  AsBytes(Joined([i \in DOMAIN symbols |-> SYMBOL_TO_BITS[symbols[i]]], 2))

\* air_payload and air_payload_bit_length, which leaves the trailing Z out.
build_transmission_plan(words) ==
  [air_payload |-> symbols_to_air_bytes(frame_to_symbol_string(words)),
   air_payload_bit_length |-> WORD_BITS * Len(words)]

build_repeated_air_payload(plan, repeat_count) ==
  LET frame_bits == SubSeq(plan.air_payload, 1, plan.air_payload_bit_length)
      repeat     == Repeated(0, NATIVE_REPEAT_SEPARATOR_BITS) \o frame_bits
  IN AsBytes(frame_bits \o Joined(Repeated(repeat, repeat_count - 1), Len(repeat)))

-----------------------------------------------------------------------------
\* Words in a capture.  Offsets count from 0.

BITS_TO_SYMBOL(bits, o) ==
  CHOOSE s \in DOMAIN SYMBOL_TO_BITS : SYMBOL_TO_BITS[s] = <<bits[o + 1], bits[o + 2]>>

IsBinary(bits, o) == bits[o + 1] # bits[o + 2]

\* Sync, start guard, nine data symbols and their parity at offset o.
WordBodyValid(bits, o, index) ==
  /\ BITS_TO_SYMBOL(bits, o) = "S" /\ BITS_TO_SYMBOL(bits, o + 2) = "One"
  /\ \A k \in 2..11 : IsBinary(bits, o + 2 * k)
  /\ bits[o + 23] = Cardinality({k \in 2..10 : bits[o + 2 * k + 1] = 1}) % 2
  /\ bits[o + 21] = IF index = 1 THEN 1 ELSE 0

WordValid(bits, o, index) ==
  WordBodyValid(bits, o, index) /\ BITS_TO_SYMBOL(bits, o + 24) = "One"

WordValue(bits, o) ==
  LET bit(k) == bits[o + 2 * k + 3]
  IN 128 * bit(1) + 64 * bit(2) + 32 * bit(3) + 16 * bit(4) + 8 * bit(5) + 4 * bit(6) + 2 * bit(7) + bit(8)

WordsAt(bits, o, count) == [i \in 1..count |-> WordValue(bits, o + WORD_BITS * (i - 1))]

WordsValid(bits, o, count) == \A i \in 1..count : WordValid(bits, o + WORD_BITS * (i - 1), i)

Min2(a, b) == IF a < b THEN a ELSE b

\* n low bits follow offset o.
Zeros(bits, o, n) == o + n <= Len(bits) /\ \A i \in o + 1..o + n : bits[i] = 0

-----------------------------------------------------------------------------
\* The scanner of FIFO payloads, rf/capture.py.

\* _sample_from_symbol_window: of the nine trailing Z symbols four will do.
sample_accepted(bits, o) ==
  /\ WordsValid(bits, o, PROFLAME_WORD_COUNT)
  /\ Zeros(bits, o + WORD_BITS * PROFLAME_WORD_COUNT, 8)

Hits(bits) == {o \in 0..Len(bits) - 2 * TOTAL_SYMBOLS : sample_accepted(bits, o)}

\* The alignments, bit offset below eight and symbol offset, that lead to o.
Alignments(o) == Min2(4, o \div 2 + 1)

FullGuard(bits, o) == Zeros(bits, o + WORD_BITS * PROFLAME_WORD_COUNT, 2 * TRAILING_ZERO_SYMBOLS)

\* One candidate for each frame found: its first hit in the order of the scan,
\* even offsets before odd ones, and all its alignments as repeat_count.
CandidateOf(bits, all, words) ==
  LET hits  == {o \in all : WordsAt(bits, o, PROFLAME_WORD_COUNT) = words}
      first == CHOOSE o \in hits : \A p \in hits :
                 o % 2 < p % 2 \/ (o % 2 = p % 2 /\ o <= p)
      count == FoldSet(LAMBDA o, n : n + Alignments(o), 0, hits)
  IN [words |-> words, offset |-> first, repeat_count |-> count,
      confidence |-> 100 + 20 * count -
        (IF FullGuard(bits, first) THEN 0 ELSE IF count > 1 THEN 10 ELSE 20)]

find_proflame_candidates(bits) ==
  LET all == Hits(bits)
  IN {CandidateOf(bits, all, words) : words \in {WordsAt(bits, o, PROFLAME_WORD_COUNT) : o \in all}}

\* The order of the sorted list: its head is the sample a receiver takes.
RanksBefore(c, d) ==
  \/ c.repeat_count > d.repeat_count
  \/ c.repeat_count = d.repeat_count /\ c.confidence > d.confidence
  \/ c.repeat_count = d.repeat_count /\ c.confidence = d.confidence /\ c.offset <= d.offset

decode_single_sample(bits) ==
  CHOOSE c \in find_proflame_candidates(bits) :
    \A d \in find_proflame_candidates(bits) : RanksBefore(c, d)

-----------------------------------------------------------------------------
\* The scanner of RMT pulse rows, rf/pulse.py.

\* _decode_words succeeds; the end of the row may cut the last bit of the last
\* word, whose end guard is then half there.
words_decode(bits, o, count) ==
  LET last == o + WORD_BITS * (count - 1)
  IN \/ o + WORD_BITS * count <= Len(bits) /\ WordsValid(bits, o, count)
     \/ /\ o + WORD_BITS * count = Len(bits) + 1
        /\ WordsValid(bits, o, count - 1)
        /\ WordBodyValid(bits, last, count) /\ bits[Len(bits)] = 1

TruncatedAt(bits, o, count) == o + WORD_BITS * count = Len(bits) + 1

\* Mutant: the guard behind the seventh word is not looked at.
StandardAt_unguarded(bits, o) == words_decode(bits, o, PROFLAME_WORD_COUNT)

StandardAt(bits, o) ==
  /\ words_decode(bits, o, PROFLAME_WORD_COUNT)
  /\ \/ TruncatedAt(bits, o, PROFLAME_WORD_COUNT)
     \/ FullGuard(bits, o)

ExtendedAt(bits, o) ==
  /\ ~StandardAt(bits, o)
  /\ words_decode(bits, o, PROFLAME_WORD_COUNT) /\ words_decode(bits, o, EXTENDED_WORD_COUNT)
  /\ extended_frame_integrity_matches(WordsAt(bits, o, EXTENDED_WORD_COUNT))
  /\ \/ TruncatedAt(bits, o, EXTENDED_WORD_COUNT)
     \/ Zeros(bits, o + WORD_BITS * EXTENDED_WORD_COUNT, MIN_REPEAT_GAP_BITS)

find_proflame_pcm_candidates(bits) ==
  LET offsets == 0..Len(bits) - (WORD_BITS * PROFLAME_WORD_COUNT - 1)
  IN {WordsAt(bits, o, PROFLAME_WORD_COUNT) : o \in {p \in offsets : StandardAt(bits, p)}}
       \cup {WordsAt(bits, o, EXTENDED_WORD_COUNT) : o \in {p \in offsets : ExtendedAt(bits, p)}}

\* Runs of equal bits, each named by the position of its first bit.
Runs(bits) ==
  LET starts   == {i \in 1..Len(bits) : i = 1 \/ bits[i] # bits[i - 1]}
      After(i) == Min({j \in starts : j > i} \cup {Len(bits) + 1})
  IN [i \in starts |-> [bit |-> bits[i], units |-> After(i) - i]]

units_of(duration) == (duration + PCM_UNIT_US \div 2) \div PCM_UNIT_US

RunRefused(high, units) ==
  \/ units = 0
  \/ units > MAX_RUN_UNITS /\ (high \/ units > MAX_REPEAT_GAP_UNITS)

\* pulse_durations_to_bits, of the runs that the bits of the result have; none
\* when a run is refused.
pulse_durations_to_runs(pulses) ==
  LET runs == [i \in DOMAIN pulses |-> [bit |-> pulses[i].bit, units |-> units_of(pulses[i].us)]]
  IN IF \E i \in DOMAIN runs : RunRefused(runs[i].bit = 1, runs[i].units) THEN <<>> ELSE runs

-----------------------------------------------------------------------------
\* One capture.

VARIABLES
  sent,    \* the frames of the bursts in the capture
  air,     \* the captured bits
  noisy,   \* how many of them, at most, come before all transmissions: noise
  faults   \* counted against MaxFaults

vars == <<sent, air, noisy, faults>>

Init == sent = <<>> /\ air = <<>> /\ noisy = 0 /\ faults = 0

\* A burst: the payload of the YARD Stick, or a single frame with its guard.
Transmit(words, payload) ==
  /\ Len(sent) < MaxBursts
  /\ sent' = Append(sent, words)
  /\ air' = air \o payload
  /\ UNCHANGED <<noisy, faults>>

TransmitRepeated(words) ==
  Transmit(words, build_repeated_air_payload(build_transmission_plan(words), Repeats))

TransmitOnce(words) == Transmit(words, build_transmission_plan(words).air_payload)

Fault(bits, noise) ==
  /\ faults < MaxFaults /\ sent # <<>>
  /\ air' = bits /\ noisy' = noise /\ faults' = faults + 1
  /\ UNCHANGED sent

\* What is left of n when m are lost.
Less(n, m) == IF n > m THEN n - m ELSE 0

NoiseBefore(bits) == Fault(bits \o air, noisy + Len(bits))
StartsLate(n) == n < Len(air) /\ Fault(SubSeq(air, n + 1, Len(air)), Less(noisy, n))
EndsEarly(n) == n < Len(air) /\ Fault(SubSeq(air, 1, Len(air) - n), noisy)

Next ==
  \/ \E f \in Frames : TransmitRepeated(f) \/ TransmitOnce(f)
  \/ \E bits \in Noise : NoiseBefore(bits)
  \/ \E n \in Losses : StartsLate(n) \/ EndsEarly(n)

Spec == Init /\ [][Next]_vars

-----------------------------------------------------------------------------
FrameBits == [f \in Frames |->
  LET plan == build_transmission_plan(f) IN SubSeq(plan.air_payload, 1, plan.air_payload_bit_length)]

\* Where the capture holds the whole frame f.
Whole(f) == {o \in 0..Len(air) - Len(FrameBits[f]) :
  /\ air[o + 1] = 1 /\ air[o + 2] = 1 /\ air[o + 3] = 1
  /\ SubSeq(air, o + 1, o + Len(FrameBits[f])) = FrameBits[f]}

\* A whole frame is found wherever it starts in a capture: a legacy one by the
\* payload scanner when a window with four Z symbols follows it, by the pulse
\* scanner with the full guard; a ten-word one by the pulse scanner when a repeat
\* gap follows (find_proflame_candidates, find_proflame_pcm_candidates).
WholeFrameIsFound ==
  LET scanned == {c.words : c \in find_proflame_candidates(air)}
      pulsed  == find_proflame_pcm_candidates(air)
  IN \A f \in ToSet(sent) : \A o \in Whole(f) :
       LET end == o + Len(FrameBits[f])
       IN IF Len(f) = 7
            THEN /\ Zeros(air, end, 8) /\ end + 18 <= Len(air) => f \in scanned
                 /\ Zeros(air, end, 18) => f \in pulsed
            ELSE Zeros(air, end, MIN_REPEAT_GAP_BITS) => f \in pulsed

\* The row rebuilt from measured pulses is the row that was on the air, whatever
\* the jitter of high and of low runs, unless a run of it is refused
\* ("Long low runs are retained", pulse_durations_to_bits).
PulsesKeepTheRow ==
  LET runs == Runs(air)
      refused == \E i \in DOMAIN runs : RunRefused(runs[i].bit = 1, runs[i].units)
  IN \A high, low \in Jitters :
       pulse_durations_to_runs([i \in DOMAIN runs |->
         [bit |-> runs[i].bit, us |-> PCM_UNIT_US * runs[i].units + (IF runs[i].bit = 1 THEN high ELSE low)]])
       = IF refused THEN <<>> ELSE runs

\* The capture ends one bit short of the seventh word of the ten-word frame f.
CutInSeventhWord(f) ==
  LET n == WORD_BITS * PROFLAME_WORD_COUNT - 1
  IN /\ Len(f) = EXTENDED_WORD_COUNT /\ Len(air) >= n
     /\ \A p \in 1..n : air[(Len(air) - n) + p] = FrameBits[f][p]

\* The shortest noise that, with a word cut to end behind it, makes another word of
\* it: sync, guard and two data symbols, whose two errors leave the parity alone.
UNDETECTED_NOISE == 8

\* No decoder makes a frame up: whatever is lost, cut or heard before it, a
\* candidate has the words of a frame that was sent, as long as there is less noise
\* than the one parity symbol of a word can tell.  The one exception is a row that
\* ends one bit short of the seventh word of a ten-word frame, where the scanner
\* wants no guard: it is taken for a legacy frame (find_proflame_candidates,
\* find_proflame_pcm_candidates).
DecodersAreTruthful ==
  /\ PulsesKeepTheRow
  /\ noisy < UNDETECTED_NOISE =>
       /\ \A c \in find_proflame_candidates(air) : c.words \in ToSet(sent)
       /\ \A words \in find_proflame_pcm_candidates(air) :
            \/ words \in ToSet(sent)
            \/ \E f \in ToSet(sent) : CutInSeventhWord(f) /\ words = SubSeq(f, 1, PROFLAME_WORD_COUNT)
=============================================================================
