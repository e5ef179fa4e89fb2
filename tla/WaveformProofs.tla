---------------------------- MODULE WaveformProofs ----------------------------
(***************************************************************************)
(* What a decoder finds of a transmission, for every frame and any number  *)
(* of bits lost: the symbols of a word are read back as the word, wherever *)
(* in a capture they stand; what is read stood on the air; and with less   *)
(* than eight bits of noise it is the frame that was sent.                 *)
(***************************************************************************)
EXTENDS Waveform, FiniteSetTheorems, SequenceTheorems, WellFoundedInduction, TLAPS

Bits == {0, 1}
Symbols == DOMAIN SYMBOL_TO_BITS

-----------------------------------------------------------------------------
\* Numbers and symbols.

LEMMA ByteBits ==
  ASSUME NEW b \in Byte
  PROVE  /\ \A i \in 0..7 : BitOf(b, i) \in Bits
         /\ 128 * BitOf(b, 7) + 64 * BitOf(b, 6) + 32 * BitOf(b, 5) + 16 * BitOf(b, 4)
              + 8 * BitOf(b, 3) + 4 * BitOf(b, 2) + 2 * BitOf(b, 1) + BitOf(b, 0) = b
<1>1. /\ 2^0 = 1 /\ 2^1 = 2 /\ 2^2 = 4 /\ 2^3 = 8
      /\ 2^4 = 16 /\ 2^5 = 32 /\ 2^6 = 64 /\ 2^7 = 128
  OBVIOUS
<1>2. /\ BitOf(b, 0) = b % 2 /\ BitOf(b, 1) = (b \div 2) % 2
      /\ BitOf(b, 2) = (b \div 4) % 2 /\ BitOf(b, 3) = (b \div 8) % 2
      /\ BitOf(b, 4) = (b \div 16) % 2 /\ BitOf(b, 5) = (b \div 32) % 2
      /\ BitOf(b, 6) = (b \div 64) % 2 /\ BitOf(b, 7) = (b \div 128) % 2
  BY <1>1 DEF BitOf, Byte
<1>3. b \in 0..255
  BY DEF Byte
<1>4. \A i \in 0..7 : i \in {0, 1, 2, 3, 4, 5, 6, 7}
  OBVIOUS
<1>5. \A i \in 0..7 : BitOf(b, i) \in Bits
  BY <1>2, <1>3, <1>4 DEF Bits
<1>6. /\ b % 2 = b - 2 * (b \div 2)
      /\ (b \div 2) % 2 = (b \div 2) - 2 * (b \div 4)
      /\ (b \div 4) % 2 = (b \div 4) - 2 * (b \div 8)
      /\ (b \div 8) % 2 = (b \div 8) - 2 * (b \div 16)
  BY <1>3
<1>7. /\ (b \div 16) % 2 = (b \div 16) - 2 * (b \div 32)
      /\ (b \div 32) % 2 = (b \div 32) - 2 * (b \div 64)
      /\ (b \div 64) % 2 = (b \div 64) - 2 * (b \div 128)
      /\ (b \div 128) % 2 = b \div 128
  BY <1>3
<1>8. /\ b \div 2 \in Int /\ b \div 4 \in Int /\ b \div 8 \in Int /\ b \div 16 \in Int
      /\ b \div 32 \in Int /\ b \div 64 \in Int /\ b \div 128 \in Int
  BY <1>3
<1> DEFINE b0 == BitOf(b, 0)
           b1 == BitOf(b, 1)
           b2 == BitOf(b, 2)
           b3 == BitOf(b, 3)
           b4 == BitOf(b, 4)
           b5 == BitOf(b, 5)
           b6 == BitOf(b, 6)
           b7 == BitOf(b, 7)
<1>9. /\ b0 \in Int /\ b1 \in Int /\ b2 \in Int /\ b3 \in Int
      /\ b4 \in Int /\ b5 \in Int /\ b6 \in Int /\ b7 \in Int
  BY <1>5 DEF Bits
<1>10. /\ b0 = b - 2 * (b \div 2) /\ b1 = (b \div 2) - 2 * (b \div 4)
       /\ b2 = (b \div 4) - 2 * (b \div 8) /\ b3 = (b \div 8) - 2 * (b \div 16)
       /\ b4 = (b \div 16) - 2 * (b \div 32) /\ b5 = (b \div 32) - 2 * (b \div 64)
       /\ b6 = (b \div 64) - 2 * (b \div 128) /\ b7 = b \div 128
  BY <1>2, <1>6, <1>7
<1>11. 128 * b7 + 64 * b6 + 32 * b5 + 16 * b4 + 8 * b3 + 4 * b2 + 2 * b1 + b0 = b
  <2> HIDE DEF b0, b1, b2, b3, b4, b5, b6, b7
  <2> QED  BY <1>3, <1>8, <1>9, <1>10
<1> QED BY <1>5, <1>11

LEMMA SymbolBits ==
  /\ Symbols = {"S", "Zero", "One", "Z"}
  /\ \A s \in Symbols : /\ SYMBOL_TO_BITS[s] \in Seq(Bits) /\ Len(SYMBOL_TO_BITS[s]) = 2
                        /\ SYMBOL_TO_BITS[s][1] \in Bits /\ SYMBOL_TO_BITS[s][2] \in Bits
  /\ SYMBOL_TO_BITS["S"][1] = 1 /\ SYMBOL_TO_BITS["S"][2] = 1
  /\ SYMBOL_TO_BITS["One"][1] = 1 /\ SYMBOL_TO_BITS["One"][2] = 0
  /\ SYMBOL_TO_BITS["Zero"][1] = 0 /\ SYMBOL_TO_BITS["Zero"][2] = 1
  /\ SYMBOL_TO_BITS["Z"][1] = 0 /\ SYMBOL_TO_BITS["Z"][2] = 0
<1>1. Symbols = {"S", "Zero", "One", "Z"}
  BY DEF SYMBOL_TO_BITS, Symbols
<1>2. /\ SYMBOL_TO_BITS["S"] = <<1, 1>> /\ SYMBOL_TO_BITS["One"] = <<1, 0>>
      /\ SYMBOL_TO_BITS["Zero"] = <<0, 1>> /\ SYMBOL_TO_BITS["Z"] = <<0, 0>>
  BY DEF SYMBOL_TO_BITS
<1>3. \A x, y \in Bits : <<x, y>> \in Seq(Bits) /\ Len(<<x, y>>) = 2
  OBVIOUS
<1>4. 0 \in Bits /\ 1 \in Bits
  BY DEF Bits
<1>5. \A s \in Symbols : \E x, y \in Bits : SYMBOL_TO_BITS[s] = <<x, y>>
  BY <1>1, <1>2, <1>4
<1>6. \A s \in Symbols : SYMBOL_TO_BITS[s] \in Seq(Bits) /\ Len(SYMBOL_TO_BITS[s]) = 2
  BY <1>3, <1>5
<1>7. \A s \in Symbols : SYMBOL_TO_BITS[s][1] \in Bits /\ SYMBOL_TO_BITS[s][2] \in Bits
  BY <1>5
<1> QED BY <1>1, <1>2, <1>6, <1>7

\* Two bits are read as the symbol they were made of.
LEMMA SymbolRead ==
  ASSUME NEW bits, NEW o, NEW s \in Symbols,
         bits[o + 1] = SYMBOL_TO_BITS[s][1], bits[o + 2] = SYMBOL_TO_BITS[s][2]
  PROVE  BITS_TO_SYMBOL(bits, o) = s
<1>1. \A t \in Symbols : SYMBOL_TO_BITS[t] = <<SYMBOL_TO_BITS[t][1], SYMBOL_TO_BITS[t][2]>>
  BY DEF SYMBOL_TO_BITS, Symbols
<1>2. SYMBOL_TO_BITS[s] = <<bits[o + 1], bits[o + 2]>>
  BY <1>1
<1>3. \A t \in Symbols : SYMBOL_TO_BITS[t] = <<bits[o + 1], bits[o + 2]>> => t = s
  BY <1>2 DEF SYMBOL_TO_BITS, Symbols
<1> QED BY <1>2, <1>3 DEF BITS_TO_SYMBOL, Symbols

\* The parts joined stand where they belong.
LEMMA JoinedAt ==
  ASSUME NEW parts, Len(parts) \in Nat, NEW i \in 1..Len(parts)
  PROVE  /\ \A k \in 1..13 : /\ 13 * (i - 1) + k \in 1..13 * Len(parts)
                             /\ Joined(parts, 13)[13 * (i - 1) + k] = parts[i][k]
         /\ \A k \in 1..2 : /\ 2 * (i - 1) + k \in 1..2 * Len(parts)
                            /\ Joined(parts, 2)[2 * (i - 1) + k] = parts[i][k]
<1>1. ASSUME NEW k \in 1..13
      PROVE  /\ 13 * (i - 1) + k \in 1..13 * Len(parts)
             /\ Joined(parts, 13)[13 * (i - 1) + k] = parts[i][k]
  <2> DEFINE p == 13 * (i - 1) + k
  <2>1. p \in 1..13 * Len(parts) /\ ((p - 1) \div 13) + 1 = i /\ ((p - 1) % 13) + 1 = k
    OBVIOUS
  <2> HIDE DEF p
  <2>2. Joined(parts, 13)[p] = parts[((p - 1) \div 13) + 1][((p - 1) % 13) + 1]
    BY <2>1, Zenon DEF Joined
  <2>3. Joined(parts, 13)[p] = parts[i][k]
    BY <2>1, <2>2
  <2> QED  BY <2>1, <2>3 DEF p
<1>2. ASSUME NEW k \in 1..2
      PROVE  /\ 2 * (i - 1) + k \in 1..2 * Len(parts)
             /\ Joined(parts, 2)[2 * (i - 1) + k] = parts[i][k]
  <2> DEFINE p == 2 * (i - 1) + k
  <2>1. p \in 1..2 * Len(parts) /\ ((p - 1) \div 2) + 1 = i /\ ((p - 1) % 2) + 1 = k
    OBVIOUS
  <2> HIDE DEF p
  <2>2. Joined(parts, 2)[p] = parts[((p - 1) \div 2) + 1][((p - 1) % 2) + 1]
    BY <2>1, Zenon DEF Joined
  <2>3. Joined(parts, 2)[p] = parts[i][k]
    BY <2>1, <2>2
  <2> QED  BY <2>1, <2>3 DEF p
<1> QED BY <1>1, <1>2

-----------------------------------------------------------------------------
\* The symbols of a word, and what they are read back as.

LEMMA WordBits ==
  ASSUME NEW byte \in Byte, NEW index \in Nat
  PROVE  LET w == word_bits(byte, index) IN
         /\ w \in [1..9 -> Bits] /\ \A k \in 1..8 : w[k] = BitOf(byte, 8 - k)
         /\ w[9] = IF index = 1 THEN 1 ELSE 0
<1> DEFINE head == [i \in 1..8 |-> BitOf(byte, 8 - i)]
           last == IF index = 1 THEN 1 ELSE 0
           w == word_bits(byte, index)
<1>1. \A i \in 1..8 : 8 - i \in 0..7
  OBVIOUS
<1>2. \A i \in 1..8 : BitOf(byte, 8 - i) \in Bits
  BY <1>1, ByteBits
<1>3. head \in Seq(Bits) /\ Len(head) = 8 /\ \A i \in 1..8 : head[i] = BitOf(byte, 8 - i)
  BY <1>2
<1>4. last \in Bits
  BY DEF Bits
<1>5. w = head \o <<last>>
  BY DEF word_bits
<1> HIDE DEF head, last, w
<1>6. <<last>> \in Seq(Bits) /\ Len(<<last>>) = 1 /\ <<last>>[1] = last
  BY <1>4
<1>7. /\ w \in Seq(Bits) /\ Len(w) = 9
      /\ \A i \in 1..8 : w[i] = head[i]
      /\ w[9] = last
  <2>0. /\ w \in Seq(Bits) /\ Len(w) = Len(head) + Len(<<last>>)
        /\ \A i \in 1..(Len(head) + Len(<<last>>)) :
             w[i] = IF i <= Len(head) THEN head[i] ELSE <<last>>[i - Len(head)]
    BY <1>3, <1>5, <1>6, ConcatProperties, Zenon
  <2>1. /\ w \in Seq(Bits) /\ Len(w) = 8 + 1
        /\ \A i \in 1..(8 + 1) : w[i] = IF i <= 8 THEN head[i] ELSE <<last>>[i - 8]
    BY <1>3, <1>6, <2>0
  <2> QED  BY <1>6, <2>1
<1>8. w \in [1..9 -> Bits]
  BY <1>7, LenProperties
<1> QED BY <1>3, <1>7, <1>8 DEF last, w

LEMMA BitSymbolIs == \A b : BitSymbol(b) \in {"One", "Zero"} /\ (BitSymbol(b) = "One" <=> b = 1)
BY DEF BitSymbol

LEMMA WordSymbols ==
  ASSUME NEW byte \in Byte, NEW index \in Nat
  PROVE  LET w == word_bits(byte, index)
             s == word_symbols(byte, index)
         IN /\ s \in [1..SYMBOLS_PER_WORD -> Symbols]
            /\ s[1] = "S" /\ s[2] = "One" /\ s[13] = "One"
            /\ \A k \in 1..9 : s[k + 2] = BitSymbol(w[k])
            /\ s[12] = BitSymbol(Ones(w) % 2)
<1> DEFINE w == word_bits(byte, index)
           s == word_symbols(byte, index)
           body == [i \in 1..9 |-> BitSymbol(w[i])]
           parity == BitSymbol(Ones(w) % 2)
<1>1. Symbols = {"S", "Zero", "One", "Z"}
  BY SymbolBits
<1>2. s = <<"S", "One">> \o body \o <<parity, "One">>
  BY DEF word_symbols
<1>3. body \in Seq(Symbols) /\ Len(body) = 9 /\ \A k \in 1..9 : body[k] = BitSymbol(w[k])
  BY <1>1, BitSymbolIs
<1>4. parity \in Symbols
  BY <1>1, BitSymbolIs
<1> HIDE DEF w, s, body, parity
<1>5. <<"S", "One">> \in Seq(Symbols) /\ <<parity, "One">> \in Seq(Symbols)
  BY <1>1, <1>4
<1> DEFINE front == <<"S", "One">> \o body
<1>6. /\ front \in Seq(Symbols) /\ Len(front) = 11
      /\ front[1] = "S" /\ front[2] = "One" /\ \A k \in 1..9 : front[k + 2] = body[k]
  <2>1. Len(<<"S", "One">>) = 2 /\ <<"S", "One">>[1] = "S" /\ <<"S", "One">>[2] = "One"
    OBVIOUS
  <2> DEFINE a == <<"S", "One">>
  <2>0. /\ front \in Seq(Symbols) /\ Len(front) = Len(a) + Len(body)
        /\ \A i \in 1..(Len(a) + Len(body)) :
             front[i] = IF i <= Len(a) THEN a[i] ELSE body[i - Len(a)]
    BY <1>3, <1>5, ConcatProperties, Zenon
  <2>2. /\ front \in Seq(Symbols) /\ Len(front) = 2 + 9
        /\ \A i \in 1..(2 + 9) : front[i] = IF i <= 2 THEN <<"S", "One">>[i] ELSE body[i - 2]
    BY <1>3, <2>0, <2>1
  <2>3. \A k \in 1..9 : k + 2 \in 1..(2 + 9) /\ ~(k + 2 <= 2) /\ (k + 2) - 2 = k
    OBVIOUS
  <2> HIDE DEF front
  <2> QED  BY <2>1, <2>2, <2>3
<1> HIDE DEF front
<1>7. /\ s \in Seq(Symbols) /\ Len(s) = 13
      /\ \A i \in 1..11 : s[i] = front[i]
      /\ s[12] = parity /\ s[13] = "One"
  <2>1. Len(<<parity, "One">>) = 2 /\ <<parity, "One">>[1] = parity /\ <<parity, "One">>[2] = "One"
    OBVIOUS
  <2>2. s = front \o <<parity, "One">>
    BY <1>2 DEF front
  <2> DEFINE e == <<parity, "One">>
  <2>4. front \in Seq(Symbols) /\ e \in Seq(Symbols) /\ s = front \o e
    BY <1>5, <1>6, <2>2
  <2> HIDE DEF e
  <2>0. /\ s \in Seq(Symbols) /\ Len(s) = Len(front) + Len(e)
        /\ \A i \in 1..(Len(front) + Len(e)) :
             s[i] = IF i <= Len(front) THEN front[i] ELSE e[i - Len(front)]
    BY <2>4, ConcatProperties, Zenon
  <2> USE DEF e
  <2>3. /\ s \in Seq(Symbols) /\ Len(s) = 11 + 2
        /\ \A i \in 1..(11 + 2) : s[i] = IF i <= 11 THEN front[i] ELSE <<parity, "One">>[i - 11]
    BY <1>6, <2>0, <2>1
  <2> QED  BY <2>1, <2>3
<1>8. s \in [1..SYMBOLS_PER_WORD -> Symbols]
  BY <1>7, LenProperties DEF SYMBOLS_PER_WORD
<1>9. s[1] = "S" /\ s[2] = "One" /\ \A k \in 1..9 : s[k + 2] = BitSymbol(w[k])
  <2>1. 1 \in 1..11 /\ 2 \in 1..11 /\ \A k \in 1..9 : k + 2 \in 1..11
    OBVIOUS
  <2> QED  BY <1>3, <1>6, <1>7, <2>1
<1> QED BY <1>7, <1>8, <1>9 DEF w, s, parity

\* A word's symbols stand at offset o of the bits.
Stands(bits, o, s) ==
  \A k \in 1..SYMBOLS_PER_WORD : /\ bits[o + 2 * k - 1] = SYMBOL_TO_BITS[s[k]][1]
                                 /\ bits[o + 2 * k] = SYMBOL_TO_BITS[s[k]][2]

\* The number of ones among the data symbols is that among the bits of the word.
LEMMA SameOnes ==
  ASSUME NEW w \in [1..9 -> Bits], NEW bits, NEW o \in Int,
         \A k \in 1..9 : bits[o + 2 * (k + 1) + 1] = w[k]
  PROVE  Cardinality({k \in 2..10 : bits[o + 2 * k + 1] = 1}) = Ones(w)
<1> DEFINE A == {i \in 1..9 : w[i] = 1}
           B == {k \in 2..10 : bits[o + 2 * k + 1] = 1}
           g == [i \in A |-> i + 1]
<1>1. IsFiniteSet(A)
  <2>1. IsFiniteSet(1..9)
    BY FS_Interval, 1 \in Int, 9 \in Int, Zenon
  <2>2. A \subseteq 1..9
    OBVIOUS
  <2> QED  BY <2>1, <2>2, FS_Subset
<1>2. g \in Bijection(A, B)
  <2>1. \A i \in A : i + 1 \in B
    OBVIOUS
  <2>2. \A k \in B : k - 1 \in A
    <3>1. TAKE k \in B
    <3>2. k - 1 \in 1..9 /\ o + 2 * ((k - 1) + 1) + 1 = o + 2 * k + 1
      OBVIOUS
    <3> QED  BY <3>2
  <2>3. \A i, j \in A : i + 1 = j + 1 => i = j
    OBVIOUS
  <2>4. \A k \in B : (k - 1) + 1 = k
    OBVIOUS
  <2> QED  BY <2>1, <2>2, <2>3, <2>4 DEF Bijection, Injection, Surjection, IsInjective
<1>3. Cardinality(B) = Cardinality(A)
  BY <1>1, <1>2, FS_Bijection DEF ExistsBijection
<1>4. Ones(w) = Cardinality(A)
  BY DEF Ones
<1> QED BY <1>3, <1>4

LEMMA WordIsRead ==
  ASSUME NEW byte \in Byte, NEW index \in Nat, NEW bits, NEW o \in Int,
         Stands(bits, o, word_symbols(byte, index))
  PROVE  WordValid(bits, o, index) /\ WordValue(bits, o) = byte
<1> DEFINE w == word_bits(byte, index)
           s == word_symbols(byte, index)
<1>1. /\ w \in [1..9 -> Bits] /\ \A k \in 1..8 : w[k] = BitOf(byte, 8 - k)
      /\ w[9] = IF index = 1 THEN 1 ELSE 0
  BY WordBits
<1>2. /\ s \in [1..13 -> Symbols] /\ s[1] = "S" /\ s[2] = "One" /\ s[13] = "One"
      /\ \A k \in 1..9 : s[k + 2] = BitSymbol(w[k])
      /\ s[12] = BitSymbol(Ones(w) % 2)
  BY WordSymbols DEF SYMBOLS_PER_WORD
<1> HIDE DEF w
<1>3. \A k \in 1..13 : /\ bits[o + 2 * k - 1] = SYMBOL_TO_BITS[s[k]][1]
                       /\ bits[o + 2 * k] = SYMBOL_TO_BITS[s[k]][2]
  BY DEF Stands, SYMBOLS_PER_WORD
<1> HIDE DEF s
\* The symbol at position k, as the decoder reads it.
<1>4. \A k \in 0..12 : BITS_TO_SYMBOL(bits, o + 2 * k) = s[k + 1]
  <2>1. TAKE k \in 0..12
  <2>2. /\ k + 1 \in 1..13 /\ o + 2 * (k + 1) - 1 = (o + 2 * k) + 1
        /\ o + 2 * (k + 1) = (o + 2 * k) + 2
    OBVIOUS
  <2>3. /\ bits[(o + 2 * k) + 1] = SYMBOL_TO_BITS[s[k + 1]][1]
        /\ bits[(o + 2 * k) + 2] = SYMBOL_TO_BITS[s[k + 1]][2]
    BY <1>3, <2>2
  <2>4. s[k + 1] \in Symbols
    BY <1>2, <2>2
  <2> QED  BY <2>3, <2>4, SymbolRead
<1>5. BITS_TO_SYMBOL(bits, o) = "S" /\ BITS_TO_SYMBOL(bits, o + 2) = "One" /\ BITS_TO_SYMBOL(bits, o + 24) = "One"
  <2>1. BITS_TO_SYMBOL(bits, o + 2 * 0) = s[0 + 1] /\ BITS_TO_SYMBOL(bits, o + 2 * 1) = s[1 + 1]
        /\ BITS_TO_SYMBOL(bits, o + 2 * 12) = s[12 + 1]
    BY <1>4
  <2> QED  BY <1>2, <2>1
\* The two bits of a data symbol: the first is its value, the second the other one.
<1>6. \A k \in 3..12 : s[k] \in {"One", "Zero"}
  <2>1. TAKE k \in 3..12
  <2>2. k = 12 \/ (k - 2 \in 1..9 /\ (k - 2) + 2 = k)
    OBVIOUS
  <2> QED  BY <1>2, <2>2, BitSymbolIs
<1>7. \A k \in 3..12 : /\ bits[o + 2 * k - 1] # bits[o + 2 * k]
                       /\ bits[o + 2 * k - 1] = IF s[k] = "One" THEN 1 ELSE 0
  <2>1. TAKE k \in 3..12
  <2>2. k \in 1..13
    OBVIOUS
  <2>3. /\ bits[o + 2 * k - 1] = SYMBOL_TO_BITS[s[k]][1]
        /\ bits[o + 2 * k] = SYMBOL_TO_BITS[s[k]][2]
    BY <1>3, <2>2
  <2>4. CASE s[k] = "One"
    BY <2>3, <2>4, SymbolBits
  <2>5. CASE s[k] = "Zero"
    BY <2>3, <2>5, SymbolBits
  <2> QED  BY <1>6, <2>4, <2>5
<1>8. \A k \in 2..11 : IsBinary(bits, o + 2 * k)
  <2>1. TAKE k \in 2..11
  <2>2. /\ k + 1 \in 3..12 /\ o + 2 * (k + 1) - 1 = (o + 2 * k) + 1
        /\ o + 2 * (k + 1) = (o + 2 * k) + 2
    OBVIOUS
  <2> QED  BY <1>7, <2>2 DEF IsBinary
<1>9. \A k \in 1..9 : bits[o + 2 * (k + 1) + 1] = w[k]
  <2>1. TAKE k \in 1..9
  <2>2. k + 2 \in 3..12 /\ o + 2 * (k + 2) - 1 = o + 2 * (k + 1) + 1
    OBVIOUS
  <2>3. s[k + 2] = "One" <=> w[k] = 1
    BY <1>2, BitSymbolIs
  <2> QED  BY <1>1, <1>7, <2>2, <2>3 DEF Bits
<1>10. Cardinality({k \in 2..10 : bits[o + 2 * k + 1] = 1}) = Ones(w)
  BY <1>1, <1>9, SameOnes
<1>11. bits[o + 23] = Ones(w) % 2
  <2>1. 12 \in 3..12 /\ o + 2 * 12 - 1 = o + 23
    OBVIOUS
  <2>2. bits[o + 23] = IF s[12] = "One" THEN 1 ELSE 0
    BY <1>7, <2>1
  <2>3. s[12] = "One" <=> Ones(w) % 2 = 1
    BY <1>2, BitSymbolIs
  <2>4. Ones(w) \in Nat
    <3> DEFINE A == {i \in 1..9 : w[i] = 1}
    <3>1. IsFiniteSet(1..9)
      BY FS_Interval, 1 \in Int, 9 \in Int, Zenon
    <3>2. A \subseteq 1..9
      OBVIOUS
    <3>4. IsFiniteSet(A)
      BY <3>1, <3>2, FS_Subset
    <3>3. DOMAIN w = 1..9
      BY <1>1
    <3> QED  BY <3>4, <3>3, FS_CardinalityType DEF Ones
  <2>5. Ones(w) % 2 \in {0, 1}
    BY <2>4
  <2> QED  BY <2>2, <2>3, <2>5
<1>12. bits[o + 21] = IF index = 1 THEN 1 ELSE 0
  <2>1. 9 \in 1..9 /\ o + 2 * (9 + 1) + 1 = o + 21
    OBVIOUS
  <2> QED  BY <1>1, <1>9, <2>1
<1>13. WordValid(bits, o, index)
  BY <1>5, <1>8, <1>10, <1>11, <1>12 DEF WordValid, WordBodyValid
<1>14. \A k \in 1..8 : bits[o + 2 * k + 3] = BitOf(byte, 8 - k)
  <2>1. TAKE k \in 1..8
  <2>2. k \in 1..9 /\ o + 2 * (k + 1) + 1 = o + 2 * k + 3
    OBVIOUS
  <2> QED  BY <1>1, <1>9, <2>2
<1>15. /\ bits[o + 2 * 1 + 3] = BitOf(byte, 7) /\ bits[o + 2 * 2 + 3] = BitOf(byte, 6)
       /\ bits[o + 2 * 3 + 3] = BitOf(byte, 5) /\ bits[o + 2 * 4 + 3] = BitOf(byte, 4)
       /\ bits[o + 2 * 5 + 3] = BitOf(byte, 3) /\ bits[o + 2 * 6 + 3] = BitOf(byte, 2)
       /\ bits[o + 2 * 7 + 3] = BitOf(byte, 1) /\ bits[o + 2 * 8 + 3] = BitOf(byte, 0)
  <2>1. 8 - 1 = 7 /\ 8 - 2 = 6 /\ 8 - 3 = 5 /\ 8 - 4 = 4 /\ 8 - 5 = 3 /\ 8 - 6 = 2 /\ 8 - 7 = 1 /\ 8 - 8 = 0
    OBVIOUS
  <2>2. /\ bits[o + 2 * 1 + 3] = BitOf(byte, 8 - 1) /\ bits[o + 2 * 2 + 3] = BitOf(byte, 8 - 2)
        /\ bits[o + 2 * 3 + 3] = BitOf(byte, 8 - 3) /\ bits[o + 2 * 4 + 3] = BitOf(byte, 8 - 4)
        /\ bits[o + 2 * 5 + 3] = BitOf(byte, 8 - 5) /\ bits[o + 2 * 6 + 3] = BitOf(byte, 8 - 6)
        /\ bits[o + 2 * 7 + 3] = BitOf(byte, 8 - 7) /\ bits[o + 2 * 8 + 3] = BitOf(byte, 8 - 8)
    BY <1>14
  <2> QED  BY <2>1, <2>2
<1>16. WordValue(bits, o) = byte
  BY <1>15, ByteBits DEF WordValue
<1> QED BY <1>13, <1>16
-----------------------------------------------------------------------------
\* What is read was sent in these bits: the converse of WordIsRead.

\* Eight bits are those of the byte that they add up to.
LEMMA BitsOfSum ==
  ASSUME NEW b \in [1..8 -> Bits], NEW v,
         v = 128 * b[1] + 64 * b[2] + 32 * b[3] + 16 * b[4] + 8 * b[5] + 4 * b[6] + 2 * b[7] + b[8]
  PROVE  v \in Byte /\ \A k \in 1..8 : BitOf(v, 8 - k) = b[k]
<1> DEFINE b1 == b[1]
           b2 == b[2]
           b3 == b[3]
           b4 == b[4]
           b5 == b[5]
           b6 == b[6]
           b7 == b[7]
           b8 == b[8]
<1>0. /\ b1 \in 0..1 /\ b2 \in 0..1 /\ b3 \in 0..1 /\ b4 \in 0..1
      /\ b5 \in 0..1 /\ b6 \in 0..1 /\ b7 \in 0..1 /\ b8 \in 0..1
  <2>1. Bits = 0..1
    BY DEF Bits
  <2> QED  BY <2>1
<1>1. v = 128 * b1 + 64 * b2 + 32 * b3 + 16 * b4 + 8 * b5 + 4 * b6 + 2 * b7 + b8
  OBVIOUS
<1> HIDE DEF b1, b2, b3, b4, b5, b6, b7, b8
<1>12. /\ 2^0 = 1 /\ 2^1 = 2 /\ 2^2 = 4 /\ 2^3 = 8
      /\ 2^4 = 16 /\ 2^5 = 32 /\ 2^6 = 64 /\ 2^7 = 128
  OBVIOUS
<1>2. v \in 0..255
  BY <1>0, <1>1
<1>3. /\ v \div 2 = 64 * b1 + 32 * b2 + 16 * b3 + 8 * b4 + 4 * b5 + 2 * b6 + b7
      /\ v \div 4 = 32 * b1 + 16 * b2 + 8 * b3 + 4 * b4 + 2 * b5 + b6
  BY <1>0, <1>1
<1>4. /\ v \div 8 = 16 * b1 + 8 * b2 + 4 * b3 + 2 * b4 + b5
      /\ v \div 16 = 8 * b1 + 4 * b2 + 2 * b3 + b4
  BY <1>0, <1>1
<1>5. /\ v \div 32 = 4 * b1 + 2 * b2 + b3
      /\ v \div 64 = 2 * b1 + b2 /\ v \div 128 = b1
  BY <1>0, <1>1
<1>6. /\ v % 2 = b8
      /\ (64 * b1 + 32 * b2 + 16 * b3 + 8 * b4 + 4 * b5 + 2 * b6 + b7) % 2 = b7
      /\ (32 * b1 + 16 * b2 + 8 * b3 + 4 * b4 + 2 * b5 + b6) % 2 = b6
      /\ (16 * b1 + 8 * b2 + 4 * b3 + 2 * b4 + b5) % 2 = b5
  BY <1>0, <1>1
<1>7. /\ (8 * b1 + 4 * b2 + 2 * b3 + b4) % 2 = b4
      /\ (4 * b1 + 2 * b2 + b3) % 2 = b3
      /\ (2 * b1 + b2) % 2 = b2 /\ b1 % 2 = b1
  BY <1>0, <1>1
<1>8. v \div 1 = v
  BY <1>2
<1>9. /\ BitOf(v, 0) = v % 2 /\ BitOf(v, 1) = (v \div 2) % 2
      /\ BitOf(v, 2) = (v \div 4) % 2 /\ BitOf(v, 3) = (v \div 8) % 2
      /\ BitOf(v, 4) = (v \div 16) % 2 /\ BitOf(v, 5) = (v \div 32) % 2
      /\ BitOf(v, 6) = (v \div 64) % 2 /\ BitOf(v, 7) = (v \div 128) % 2
  BY <1>12, <1>8 DEF BitOf
<1>10. /\ BitOf(v, 7) = b1 /\ BitOf(v, 6) = b2 /\ BitOf(v, 5) = b3 /\ BitOf(v, 4) = b4
       /\ BitOf(v, 3) = b5 /\ BitOf(v, 2) = b6 /\ BitOf(v, 1) = b7 /\ BitOf(v, 0) = b8
  BY <1>3, <1>4, <1>5, <1>6, <1>7, <1>9
<1>11. \A k \in 1..8 : BitOf(v, 8 - k) = b[k]
  <2>1. /\ 8 - 1 = 7 /\ 8 - 2 = 6 /\ 8 - 3 = 5 /\ 8 - 4 = 4
        /\ 8 - 5 = 3 /\ 8 - 6 = 2 /\ 8 - 7 = 1 /\ 8 - 8 = 0
    OBVIOUS
  <2>2. \A k \in 1..8 : k \in {1, 2, 3, 4, 5, 6, 7, 8}
    OBVIOUS
  <2> QED  BY <1>10, <2>1, <2>2 DEF b1, b2, b3, b4, b5, b6, b7, b8
<1> QED BY <1>2, <1>11 DEF Byte

\* A symbol that is read stands there.
LEMMA SymbolStands ==
  ASSUME NEW bits, NEW o, bits[o + 1] \in Bits, bits[o + 2] \in Bits
  PROVE  LET s == BITS_TO_SYMBOL(bits, o)
         IN s \in Symbols /\ bits[o + 1] = SYMBOL_TO_BITS[s][1] /\ bits[o + 2] = SYMBOL_TO_BITS[s][2]
<1>1. /\ SYMBOL_TO_BITS["S"] = <<1, 1>> /\ SYMBOL_TO_BITS["One"] = <<1, 0>>
      /\ SYMBOL_TO_BITS["Zero"] = <<0, 1>> /\ SYMBOL_TO_BITS["Z"] = <<0, 0>>
  BY DEF SYMBOL_TO_BITS
<1> DEFINE pair == <<bits[o + 1], bits[o + 2]>>
<1>2. pair \in {<<1, 1>>, <<1, 0>>, <<0, 1>>, <<0, 0>>}
  BY DEF Bits
<1>3. \E s \in Symbols : SYMBOL_TO_BITS[s] = pair
  <2> HIDE DEF pair
  <2>1. {"S", "One", "Zero", "Z"} = Symbols
    BY SymbolBits
  <2> QED  BY <1>1, <1>2, <2>1
<1> DEFINE s == BITS_TO_SYMBOL(bits, o)
<1>4. s = CHOOSE t \in Symbols : SYMBOL_TO_BITS[t] = pair
  BY DEF BITS_TO_SYMBOL, Symbols
<1> HIDE DEF s
<1>5. s \in Symbols /\ SYMBOL_TO_BITS[s] = pair
  <2> HIDE DEF pair
  <2> QED  BY <1>3, <1>4, Zenon
<1> QED BY <1>5 DEF s

\* Bit q of the 26 of a word.
BitOfWord(s, q) == SYMBOL_TO_BITS[s[(q + 1) \div 2]][IF q % 2 = 1 THEN 1 ELSE 2]

\* Of a word that is read all bits are those of the byte it is read as; the last
\* one is not looked at where the row ends before it.
LEMMA WordIsWritten ==
  ASSUME NEW bits, NEW o \in Int, NEW index \in Nat, \A q \in 1..25 : bits[o + q] \in Bits,
         WordBodyValid(bits, o, index), bits[o + 25] = 1
  PROVE  /\ WordValue(bits, o) \in Byte
         /\ \A q \in 1..25 : bits[o + q] = BitOfWord(word_symbols(WordValue(bits, o), index), q)
         /\ BitOfWord(word_symbols(WordValue(bits, o), index), 26) = 0
<1> DEFINE v == WordValue(bits, o)
           w == word_bits(v, index)
           s == word_symbols(v, index)
<1> DEFINE x == [k \in 1..8 |-> bits[o + 2 * k + 3]]
<1>1. x \in [1..8 -> Bits]
  <2>1. \A k \in 1..8 : 2 * k + 3 \in 1..25 /\ o + (2 * k + 3) = o + 2 * k + 3
    OBVIOUS
  <2>2. \A k \in 1..8 : bits[o + 2 * k + 3] \in Bits
    BY <2>1
  <2> QED  BY <2>2
<1>2. v = 128 * x[1] + 64 * x[2] + 32 * x[3] + 16 * x[4] + 8 * x[5] + 4 * x[6] + 2 * x[7] + x[8]
  BY DEF WordValue
<1>3. v \in Byte /\ \A k \in 1..8 : BitOf(v, 8 - k) = bits[o + 2 * k + 3]
  <2> HIDE DEF x, v
  <2>1. v \in Byte /\ \A k \in 1..8 : BitOf(v, 8 - k) = x[k]
    BY <1>1, <1>2, BitsOfSum
  <2> QED  BY <2>1 DEF x
<1> HIDE DEF v
<1>4. /\ w \in [1..9 -> Bits] /\ \A k \in 1..8 : w[k] = BitOf(v, 8 - k)
      /\ w[9] = IF index = 1 THEN 1 ELSE 0
  BY <1>3, WordBits
<1>5. /\ s \in [1..13 -> Symbols] /\ s[1] = "S" /\ s[2] = "One" /\ s[13] = "One"
      /\ \A k \in 1..9 : s[k + 2] = BitSymbol(w[k])
      /\ s[12] = BitSymbol(Ones(w) % 2)
  BY <1>3, WordSymbols DEF SYMBOLS_PER_WORD
<1> HIDE DEF w, s
\* The data bits of the word are the first bits of its data symbols.
<1>6. \A k \in 1..9 : bits[o + 2 * (k + 1) + 1] = w[k]
  <2>1. TAKE k \in 1..9
  <2>2. CASE k = 9
    <3>1. o + 2 * (k + 1) + 1 = o + 21
      BY <2>2
    <3> QED  BY <1>4, <2>2, <3>1 DEF WordBodyValid
  <2>3. CASE k # 9
    <3>1. k \in 1..8 /\ o + 2 * (k + 1) + 1 = o + 2 * k + 3
      BY <2>3
    <3> QED  BY <1>3, <1>4, <3>1
  <2> QED  BY <2>2, <2>3
<1>7. bits[o + 23] = Ones(w) % 2
  <2>1. Cardinality({k \in 2..10 : bits[o + 2 * k + 1] = 1}) = Ones(w)
    BY <1>4, <1>6, SameOnes
  <2> QED  BY <2>1 DEF WordBodyValid
\* The two bits of each symbol.
<1>8. /\ bits[o + 1] = SYMBOL_TO_BITS[s[1]][1] /\ bits[o + 2] = SYMBOL_TO_BITS[s[1]][2]
      /\ bits[o + 3] = SYMBOL_TO_BITS[s[2]][1] /\ bits[o + 4] = SYMBOL_TO_BITS[s[2]][2]
  <2>1. BITS_TO_SYMBOL(bits, o) = "S" /\ BITS_TO_SYMBOL(bits, o + 2) = "One"
    BY DEF WordBodyValid
  <2>2. /\ bits[o + 1] \in Bits /\ bits[o + 2] \in Bits
        /\ bits[(o + 2) + 1] = bits[o + 3] /\ bits[(o + 2) + 2] = bits[o + 4]
        /\ bits[o + 3] \in Bits /\ bits[o + 4] \in Bits
    OBVIOUS
  <2>3. bits[o + 1] = SYMBOL_TO_BITS["S"][1] /\ bits[o + 2] = SYMBOL_TO_BITS["S"][2]
    BY <2>1, <2>2, SymbolStands
  <2>4. bits[(o + 2) + 1] = SYMBOL_TO_BITS["One"][1] /\ bits[(o + 2) + 2] = SYMBOL_TO_BITS["One"][2]
    BY <2>1, <2>2, SymbolStands
  <2> QED  BY <1>5, <2>2, <2>3, <2>4
<1>9. \A t \in Bits : SYMBOL_TO_BITS[BitSymbol(t)][1] = t /\ SYMBOL_TO_BITS[BitSymbol(t)][2] = 1 - t
  <2>1. BitSymbol(1) = "One" /\ BitSymbol(0) = "Zero"
    BY DEF BitSymbol
  <2>2. \A t \in Bits : t = 0 \/ t = 1
    BY DEF Bits
  <2>3. 1 - 1 = 0 /\ 1 - 0 = 1
    OBVIOUS
  <2> QED  BY <2>1, <2>2, <2>3, SymbolBits
<1>10. \A k \in 3..12 : /\ bits[o + 2 * k - 1] = SYMBOL_TO_BITS[s[k]][1]
                        /\ bits[o + 2 * k] = SYMBOL_TO_BITS[s[k]][2]
  <2>1. TAKE k \in 3..12
  <2>2. s[k] = BitSymbol(bits[o + 2 * k - 1])
    <3>1. CASE k = 12
      <4>1. bits[o + 2 * k - 1] = bits[o + 23]
        BY <3>1
      <4> QED  BY <1>5, <1>7, <3>1, <4>1
    <3>2. CASE k # 12
      <4>1. k - 2 \in 1..9 /\ (k - 2) + 2 = k /\ o + 2 * ((k - 2) + 1) + 1 = o + 2 * k - 1
        BY <3>2
      <4> QED  BY <1>5, <1>6, <4>1
    <3> QED  BY <3>1, <3>2
  <2>3. /\ k - 1 \in 2..11 /\ o + 2 * (k - 1) + 1 = o + 2 * k - 1 /\ o + 2 * (k - 1) + 2 = o + 2 * k
        /\ 2 * k - 1 \in 1..25 /\ 2 * k \in 1..25 /\ o + (2 * k - 1) = o + 2 * k - 1
    OBVIOUS
  <2>4. bits[o + 2 * k - 1] # bits[o + 2 * k]
    BY <2>3 DEF WordBodyValid, IsBinary
  <2>5. bits[o + 2 * k - 1] \in Bits /\ bits[o + 2 * k] \in Bits
    BY <2>3
  <2>6. bits[o + 2 * k] = 1 - bits[o + 2 * k - 1]
    BY <2>4, <2>5 DEF Bits
  <2> QED  BY <1>9, <2>2, <2>5, <2>6
<1>11. \A k \in 1..12 : /\ bits[o + 2 * k - 1] = SYMBOL_TO_BITS[s[k]][1]
                        /\ bits[o + 2 * k] = SYMBOL_TO_BITS[s[k]][2]
  <2>1. TAKE k \in 1..12
  <2>2. CASE k = 1
    <3>1. o + 2 * k - 1 = o + 1 /\ o + 2 * k = o + 2
      BY <2>2
    <3> QED  BY <1>8, <2>2, <3>1
  <2>3. CASE k = 2
    <3>1. o + 2 * k - 1 = o + 3 /\ o + 2 * k = o + 4
      BY <2>3
    <3> QED  BY <1>8, <2>3, <3>1
  <2>4. CASE k \in 3..12
    BY <1>10, <2>4
  <2> QED  BY <2>2, <2>3, <2>4
<1>12. ASSUME NEW q \in 1..25 PROVE bits[o + q] = BitOfWord(s, q)
  <2> DEFINE k == (q + 1) \div 2
  <2>1. CASE q = 25
    <3>1. (q + 1) \div 2 = 13 /\ q % 2 = 1
      BY <2>1
    <3>2. BitOfWord(s, q) = SYMBOL_TO_BITS[s[13]][1]
      BY <3>1 DEF BitOfWord
    <3> QED  BY <1>5, <2>1, <3>2, SymbolBits
  <2>2. CASE q # 25
    <3>1. k \in 1..12 /\ (q % 2 = 1 => q = 2 * k - 1) /\ (q % 2 # 1 => q = 2 * k)
      BY <2>2
    <3>2. BitOfWord(s, q) = SYMBOL_TO_BITS[s[k]][IF q % 2 = 1 THEN 1 ELSE 2]
      BY DEF BitOfWord
    <3> HIDE DEF k
    <3>3. CASE q % 2 = 1
      <4>1. o + q = o + 2 * k - 1
        BY <3>1, <3>3
      <4> QED  BY <1>11, <3>1, <3>2, <3>3, <4>1
    <3>4. CASE q % 2 # 1
      <4>1. o + q = o + 2 * k
        BY <3>1, <3>4
      <4> QED  BY <1>11, <3>1, <3>2, <3>4, <4>1
    <3> QED  BY <3>3, <3>4
  <2> QED  BY <2>1, <2>2
<1>13. BitOfWord(s, 26) = 0
  <2>1. (26 + 1) \div 2 = 13 /\ ~(26 % 2 = 1)
    OBVIOUS
  <2> QED  BY <1>5, <2>1, SymbolBits DEF BitOfWord
<1> QED BY <1>3, <1>12, <1>13 DEF v, s

-----------------------------------------------------------------------------
\* The bits of a frame.

LEMMA JoinedIs ==
  ASSUME NEW S, NEW n \in Nat \ {0}, NEW parts, Len(parts) \in Nat,
         \A i \in 1..Len(parts) : \A k \in 1..n : parts[i][k] \in S
  PROVE  Joined(parts, n) \in Seq(S) /\ Len(Joined(parts, n)) = n * Len(parts)
<1> DEFINE m == Len(parts)
           e(i) == parts[((i - 1) \div n) + 1][((i - 1) % n) + 1]
<1>1. m \in Nat /\ n * m \in Nat
  OBVIOUS
<1> HIDE DEF m
<1>2. ASSUME NEW i \in 1..n * m
      PROVE  ((i - 1) \div n) + 1 \in 1..m /\ ((i - 1) % n) + 1 \in 1..n
  <2>1. i - 1 \in Nat /\ i - 1 < n * m
    BY <1>1
  <2>2. (i - 1) \div n \in Nat /\ (i - 1) \div n < m /\ (i - 1) % n \in 0..(n - 1)
    BY <1>1, <2>1
  <2> QED  BY <1>1, <2>2
<1>3. \A i \in 1..n * m : e(i) \in S
  BY <1>2 DEF m
<1>4. Joined(parts, n) = [i \in 1..n * m |-> e(i)]
  BY DEF Joined, m
<1> HIDE DEF e
<1>5. [i \in 1..n * m |-> e(i)] \in Seq(S) /\ Len([i \in 1..n * m |-> e(i)]) = n * m
  BY <1>1, <1>3
<1> QED BY <1>4, <1>5 DEF m

LEMMA RepeatedIs ==
  ASSUME NEW S, NEW x \in S, NEW n \in Nat
  PROVE  Repeated(x, n) \in Seq(S) /\ Len(Repeated(x, n)) = n /\ \A i \in 1..n : Repeated(x, n)[i] = x
BY DEF Repeated

LEMMA AsBytesIs ==
  ASSUME NEW bits \in Seq(Bits)
  PROVE  /\ AsBytes(bits) \in Seq(Bits) /\ Len(AsBytes(bits)) >= Len(bits)
         /\ \A p \in 1..Len(bits) : AsBytes(bits)[p] = bits[p]
         /\ \A p \in Len(bits) + 1..Len(AsBytes(bits)) : AsBytes(bits)[p] = 0
<1> DEFINE n == (8 - (Len(bits) % 8)) % 8
           pad == Repeated(0, n)
<1>1. n \in Nat /\ 0 \in Bits
  BY DEF Bits
<1> HIDE DEF n
<1>2. pad \in Seq(Bits) /\ Len(pad) \in Nat
  BY <1>1, RepeatedIs
<1>5. \A i \in 1..Len(pad) : pad[i] = 0
  BY <1>1, RepeatedIs
<1>3. AsBytes(bits) = bits \o pad
  BY DEF AsBytes, n
<1> HIDE DEF pad
<1>4. /\ AsBytes(bits) \in Seq(Bits) /\ Len(AsBytes(bits)) = Len(bits) + Len(pad)
      /\ \A i \in 1..(Len(bits) + Len(pad)) :
           AsBytes(bits)[i] = IF i <= Len(bits) THEN bits[i] ELSE pad[i - Len(bits)]
  BY <1>2, <1>3, ConcatProperties, Zenon
<1>6. \A p \in Len(bits) + 1..Len(AsBytes(bits)) : AsBytes(bits)[p] = 0
  <2>1. TAKE p \in Len(bits) + 1..Len(AsBytes(bits))
  <2>2. /\ p \in 1..(Len(bits) + Len(pad)) /\ ~(p <= Len(bits)) /\ p - Len(bits) \in 1..Len(pad)
    BY <1>2, <1>4
  <2> QED  BY <1>4, <1>5, <2>2
<1> QED BY <1>2, <1>4, <1>6

LEMMA FrameIs ==
  ASSUME NEW f \in Frames
  PROVE  /\ f \in Seq(Byte) /\ Len(f) \in {7, 10}
         /\ \A i \in 1..Len(f) : f[i] \in Byte
BY WaveformAssumption

LEMMA FrameSymbols ==
  ASSUME NEW f \in Seq(Byte)
  PROVE  LET s == frame_to_symbol_string(f) IN
         /\ s \in Seq(Symbols) /\ Len(s) = 13 * Len(f) + 9
         /\ \A i \in 1..Len(f), k \in 1..13 : s[13 * (i - 1) + k] = word_symbols(f[i], i)[k]
         /\ \A p \in 13 * Len(f) + 1..13 * Len(f) + 9 : s[p] = "Z"
<1> DEFINE parts == [i \in DOMAIN f |-> word_symbols(f[i], i)]
           j == Joined(parts, 13)
           z == Repeated("Z", 9)
           s == frame_to_symbol_string(f)
<1>1. f \in Seq(Byte) /\ Len(f) \in Nat /\ DOMAIN f = 1..Len(f)
  OBVIOUS
<1>2. \A i \in 1..Len(f) : word_symbols(f[i], i) \in [1..13 -> Symbols]
  BY <1>1, WordSymbols DEF SYMBOLS_PER_WORD
<1>3. Len(parts) = Len(f) /\ \A i \in 1..Len(f) : parts[i] = word_symbols(f[i], i)
  <2>1. parts = [i \in 1..Len(f) |-> word_symbols(f[i], i)]
    BY <1>1
  <2>2. parts \in Seq([1..13 -> Symbols])
    BY <1>1, <1>2, <2>1
  <2> QED  BY <1>1, <2>1, <2>2, LenProperties
<1>4. s = j \o z
  BY DEF frame_to_symbol_string, SYMBOLS_PER_WORD, TRAILING_ZERO_SYMBOLS
<1> HIDE DEF parts, s
<1>5. j \in Seq(Symbols) /\ Len(j) = 13 * Len(f)
  <2>1. \A i \in 1..Len(parts) : \A k \in 1..13 : parts[i][k] \in Symbols
    BY <1>2, <1>3
  <2>2. Len(parts) \in Nat /\ 13 \in Nat \ {0}
    BY <1>1, <1>3
  <2>3. j \in Seq(Symbols) /\ Len(j) = 13 * Len(parts)
    BY <2>1, <2>2, JoinedIs, Zenon
  <2> QED  BY <1>3, <2>3
<1>6. \A i \in 1..Len(f), k \in 1..13 :
        /\ 13 * (i - 1) + k \in 1..Len(j)
        /\ j[13 * (i - 1) + k] = word_symbols(f[i], i)[k]
  <2>1. TAKE i \in 1..Len(f), k \in 1..13
  <2>2. Len(parts) \in Nat /\ i \in 1..Len(parts)
    BY <1>1, <1>3
  <2>3. 13 * (i - 1) + k \in 1..13 * Len(parts) /\ j[13 * (i - 1) + k] = parts[i][k]
    BY <2>2, JoinedAt, Zenon
  <2> QED  BY <1>3, <1>5, <2>3
<1>7. z \in Seq(Symbols) /\ Len(z) = 9 /\ \A p \in 1..9 : z[p] = "Z"
  <2>1. "Z" \in Symbols /\ 9 \in Nat
    BY SymbolBits
  <2> QED  BY <2>1 DEF Repeated
<1> HIDE DEF j, z
<1>8. /\ s \in Seq(Symbols) /\ Len(s) = Len(j) + Len(z)
      /\ \A p \in 1..(Len(j) + Len(z)) : s[p] = IF p <= Len(j) THEN j[p] ELSE z[p - Len(j)]
  BY <1>4, <1>5, <1>7, ConcatProperties, Zenon
<1>9. \A i \in 1..Len(f), k \in 1..13 : s[13 * (i - 1) + k] = word_symbols(f[i], i)[k]
  <2>1. \A p \in 1..Len(j) : s[p] = j[p]
    BY <1>1, <1>5, <1>7, <1>8
  <2> QED  BY <1>6, <2>1
<1>10. \A p \in 13 * Len(f) + 1..13 * Len(f) + 9 : s[p] = "Z"
  <2>1. TAKE p \in 13 * Len(f) + 1..13 * Len(f) + 9
  <2>2. p \in 1..(Len(j) + Len(z)) /\ ~(p <= Len(j)) /\ p - Len(j) \in 1..9
    <3>1. Len(j) = 13 * Len(f) /\ Len(z) = 9 /\ Len(f) \in Nat
      BY <1>1, <1>5, <1>7
    <3> QED  BY <3>1
  <2> QED  BY <1>7, <1>8, <2>2
<1> QED BY <1>5, <1>7, <1>8, <1>9, <1>10 DEF s

LEMMA SymbolsSent ==
  ASSUME NEW s \in Seq(Symbols)
  PROVE  LET a == symbols_to_air_bytes(s) IN
         /\ a \in Seq(Bits) /\ Len(a) >= 2 * Len(s)
         /\ \A i \in 1..Len(s), h \in 1..2 : a[2 * (i - 1) + h] = SYMBOL_TO_BITS[s[i]][h]
         /\ \A p \in 2 * Len(s) + 1..Len(a) : a[p] = 0
<1> DEFINE parts == [i \in DOMAIN s |-> SYMBOL_TO_BITS[s[i]]]
           j == Joined(parts, 2)
           a == symbols_to_air_bytes(s)
<1>1. Len(s) \in Nat /\ DOMAIN s = 1..Len(s) /\ \A i \in 1..Len(s) : s[i] \in Symbols
  OBVIOUS
<1>2. Len(parts) = Len(s) /\ \A i \in 1..Len(s) : parts[i] = SYMBOL_TO_BITS[s[i]]
  <2>1. parts = [i \in 1..Len(s) |-> SYMBOL_TO_BITS[s[i]]]
    BY <1>1
  <2>2. parts \in Seq(Seq(Bits))
    BY <1>1, <2>1, SymbolBits
  <2> QED  BY <1>1, <2>1, <2>2, LenProperties
<1>3. a = AsBytes(j)
  BY DEF symbols_to_air_bytes
<1> HIDE DEF parts, a
<1>4. j \in Seq(Bits) /\ Len(j) = 2 * Len(s)
  <2>1. \A i \in 1..Len(parts) : \A k \in 1..2 : parts[i][k] \in Bits
    BY <1>1, <1>2, SymbolBits
  <2>2. Len(parts) \in Nat /\ 2 \in Nat \ {0}
    BY <1>1, <1>2
  <2>3. j \in Seq(Bits) /\ Len(j) = 2 * Len(parts)
    BY <2>1, <2>2, JoinedIs, Zenon
  <2> QED  BY <1>2, <2>3
<1>5. \A i \in 1..Len(s), h \in 1..2 :
        2 * (i - 1) + h \in 1..Len(j) /\ j[2 * (i - 1) + h] = SYMBOL_TO_BITS[s[i]][h]
  <2>1. TAKE i \in 1..Len(s), h \in 1..2
  <2>2. Len(parts) \in Nat /\ i \in 1..Len(parts)
    BY <1>1, <1>2
  <2>3. 2 * (i - 1) + h \in 1..2 * Len(parts) /\ j[2 * (i - 1) + h] = parts[i][h]
    BY <2>2, JoinedAt, Zenon
  <2> QED  BY <1>2, <1>4, <2>3
<1> HIDE DEF j
<1>6. /\ a \in Seq(Bits) /\ Len(a) >= Len(j) /\ \A p \in 1..Len(j) : a[p] = j[p]
      /\ \A p \in Len(j) + 1..Len(a) : a[p] = 0
  BY <1>3, <1>4, AsBytesIs
<1> QED BY <1>4, <1>5, <1>6 DEF a

\* The part of the payload that carries the words.
Encoded(words) ==
  LET plan == build_transmission_plan(words) IN SubSeq(plan.air_payload, 1, plan.air_payload_bit_length)

\* It has each word in its place.
LEMMA EncodedIs ==
  ASSUME NEW f \in Seq(Byte)
  PROVE  /\ Encoded(f) \in Seq(Bits) /\ Len(Encoded(f)) = WORD_BITS * Len(f)
         /\ LET payload == build_transmission_plan(f).air_payload
            IN /\ payload \in Seq(Bits) /\ Len(payload) >= 26 * Len(f)
               /\ \A p \in 1..26 * Len(f) : payload[p] = Encoded(f)[p]
               /\ \A p \in 26 * Len(f) + 1..Len(payload) : payload[p] = 0
         /\ \A i \in 1..Len(f) : Stands(Encoded(f), WORD_BITS * (i - 1), word_symbols(f[i], i))
<1> DEFINE s == frame_to_symbol_string(f)
           a == symbols_to_air_bytes(s)
           n == 26 * Len(f)
<1>1. WORD_BITS = 26 /\ Len(f) \in Nat
  BY DEF WORD_BITS, SYMBOLS_PER_WORD
<1>2. Encoded(f) = SubSeq(a, 1, n) /\ build_transmission_plan(f).air_payload = a
  BY <1>1 DEF Encoded, build_transmission_plan
<1>3. /\ s \in Seq(Symbols) /\ Len(s) = 13 * Len(f) + 9
      /\ \A i \in 1..Len(f), k \in 1..13 : s[13 * (i - 1) + k] = word_symbols(f[i], i)[k]
      /\ \A p \in 13 * Len(f) + 1..13 * Len(f) + 9 : s[p] = "Z"
  BY FrameSymbols
<1> HIDE DEF s
<1>4. /\ a \in Seq(Bits) /\ Len(a) >= 2 * Len(s)
      /\ \A i \in 1..Len(s), h \in 1..2 : a[2 * (i - 1) + h] = SYMBOL_TO_BITS[s[i]][h]
      /\ \A p \in 2 * Len(s) + 1..Len(a) : a[p] = 0
  BY <1>3, SymbolsSent
<1> HIDE DEF a
<1>5. /\ SubSeq(a, 1, n) \in Seq(Bits) /\ Len(SubSeq(a, 1, n)) = n
      /\ \A p \in 1..n : SubSeq(a, 1, n)[p] = a[p]
  <2>1. n \in Nat /\ n <= Len(a) /\ Len(a) \in Nat
    BY <1>1, <1>3, <1>4
  <2>2. \A p \in 1..n : a[p] \in Bits
    BY <1>4, <2>1
  <2> HIDE DEF n
  <2> QED  BY <1>4, <2>1, <2>2, SubSeqProperties
<1>6. ASSUME NEW i \in 1..Len(f), NEW k \in 1..13
      PROVE  /\ a[26 * (i - 1) + 2 * k - 1] = SYMBOL_TO_BITS[word_symbols(f[i], i)[k]][1]
             /\ a[26 * (i - 1) + 2 * k] = SYMBOL_TO_BITS[word_symbols(f[i], i)[k]][2]
             /\ 26 * (i - 1) + 2 * k - 1 \in 1..n /\ 26 * (i - 1) + 2 * k \in 1..n
  <2> DEFINE j == 13 * (i - 1) + k
  <2>0. Len(f) \in Nat /\ Len(s) = 13 * Len(f) + 9 /\ i \in 1..Len(f) /\ k \in 1..13
    BY <1>1, <1>3
  <2>1. /\ j \in 1..Len(s) /\ 2 * (j - 1) + 1 = 26 * (i - 1) + 2 * k - 1
        /\ 2 * (j - 1) + 2 = 26 * (i - 1) + 2 * k
        /\ 26 * (i - 1) + 2 * k - 1 \in 1..n /\ 26 * (i - 1) + 2 * k \in 1..n
    BY <2>0
  <2>2. s[j] = word_symbols(f[i], i)[k]
    BY <1>3
  <2> HIDE DEF j
  <2>3. /\ a[2 * (j - 1) + 1] = SYMBOL_TO_BITS[s[j]][1]
        /\ a[2 * (j - 1) + 2] = SYMBOL_TO_BITS[s[j]][2]
    BY <1>4, <2>1
  <2> QED  BY <2>1, <2>2, <2>3
<1>7. \A i \in 1..Len(f) : Stands(Encoded(f), 26 * (i - 1), word_symbols(f[i], i))
  <2> HIDE DEF n
  <2> QED  BY <1>2, <1>5, <1>6 DEF Stands, SYMBOLS_PER_WORD
\* Behind the words there are Z symbols and the padding.
<1>8. \A p \in n + 1..Len(a) : a[p] = 0
  <2>1. TAKE p \in n + 1..Len(a)
  <2>2. CASE p > 2 * Len(s)
    <3>1. p \in 2 * Len(s) + 1..Len(a)
      BY <1>1, <1>3, <1>4, <2>2
    <3> QED  BY <1>4, <3>1
  <2>3. CASE p <= 2 * Len(s)
    <3> DEFINE i == (p + 1) \div 2
               h == IF p % 2 = 1 THEN 1 ELSE 2
    <3>1. /\ i \in 13 * Len(f) + 1..13 * Len(f) + 9 /\ i \in 1..Len(s)
          /\ h \in 1..2 /\ 2 * (i - 1) + h = p
      <4>1. p \in Nat /\ p > 26 * Len(f) /\ p <= 26 * Len(f) + 18 /\ Len(f) \in Nat
        BY <1>1, <1>3, <2>3
      <4>2. Len(s) = 13 * Len(f) + 9
        BY <1>3
      <4>3. (p % 2 = 1 /\ p = 2 * i - 1) \/ (p % 2 = 0 /\ p = 2 * i)
        BY <4>1
      <4> HIDE DEF i
      <4>4. i \in Int
        BY <4>1 DEF i
      <4> QED  BY <4>1, <4>2, <4>3, <4>4
    <3> HIDE DEF i, h
    <3>2. s[i] = "Z" /\ a[2 * (i - 1) + h] = SYMBOL_TO_BITS[s[i]][h]
      BY <1>3, <1>4, <3>1
    <3>3. h = 1 \/ h = 2
      BY <3>1
    <3> QED  BY <3>1, <3>2, <3>3, SymbolBits
  <2>4. p \in Int /\ Len(s) \in Nat
    BY <1>1, <1>3
  <2> QED  BY <2>2, <2>3, <2>4
<1>9. Len(a) >= n /\ \A p \in 1..n : a[p] = Encoded(f)[p]
  <2>1. Len(a) \in Nat
    BY <1>4
  <2>2. Len(a) >= n
    BY <1>1, <1>3, <1>4, <2>1
  <2> QED  BY <1>2, <1>5, <2>2
<1> QED BY <1>1, <1>2, <1>4, <1>5, <1>7, <1>8, <1>9

LEMMA FrameBitsAre ==
  ASSUME NEW f \in Frames
  PROVE  /\ FrameBits[f] \in Seq(Bits) /\ Len(FrameBits[f]) = WORD_BITS * Len(f)
         /\ build_transmission_plan(f).air_payload \in Seq(Bits)
         /\ \A i \in 1..Len(f) : Stands(FrameBits[f], WORD_BITS * (i - 1), word_symbols(f[i], i))
<1>1. FrameBits[f] = Encoded(f)
  BY DEF FrameBits, Encoded
<1> QED BY <1>1, FrameIs, EncodedIs
-----------------------------------------------------------------------------
\* Where a capture holds a whole frame, its words are read.

LEMMA WholeIsRead ==
  ASSUME air \in Seq(Bits), NEW f \in Frames, NEW o \in Whole(f)
  PROVE  /\ o \in Nat /\ Len(air) \in Nat /\ o + 26 * Len(f) <= Len(air)
         /\ \A i \in 1..Len(f) : /\ WordValid(air, o + 26 * (i - 1), i)
                                 /\ WordValue(air, o + 26 * (i - 1)) = f[i]
                                 /\ air[o + 26 * (i - 1) + 1] = 1
<1> DEFINE n == 26 * Len(f)
<1>1. /\ Len(FrameBits[f]) = n
      /\ \A i \in 1..Len(f) : Stands(FrameBits[f], 26 * (i - 1), word_symbols(f[i], i))
  BY FrameBitsAre DEF WORD_BITS, SYMBOLS_PER_WORD
<1>2. Len(f) \in Nat /\ n \in Nat /\ Len(air) \in Nat
  BY FrameIs
<1>3. o \in 0..Len(air) - n /\ SubSeq(air, o + 1, o + n) = FrameBits[f]
  BY <1>1 DEF Whole
<1>4. o \in Nat /\ o + n <= Len(air)
  BY <1>2, <1>3
<1>5. \A p \in 1..n : FrameBits[f][p] = air[o + p]
  <2>1. o + 1 \in Int /\ o + n \in Int /\ \A p \in (o + 1)..(o + n) : air[p] \in Bits
    BY <1>2, <1>4
  <2> HIDE DEF n
  <2>2. \A p \in 1..((o + n) - (o + 1) + 1) : SubSeq(air, o + 1, o + n)[p] = air[(o + 1) + p - 1]
    BY <2>1, SubSeqProperties
  <2>3. \A p \in 1..n : p \in 1..((o + n) - (o + 1) + 1) /\ (o + 1) + p - 1 = o + p
    BY <1>2, <1>4
  <2> QED  BY <1>3, <2>2, <2>3
<1>6. ASSUME NEW i \in 1..Len(f)
      PROVE  Stands(air, o + 26 * (i - 1), word_symbols(f[i], i))
  <2> DEFINE s == word_symbols(f[i], i)
             b == 26 * (i - 1)
  <2>1. \A k \in 1..13 : /\ FrameBits[f][b + 2 * k - 1] = SYMBOL_TO_BITS[s[k]][1]
                         /\ FrameBits[f][b + 2 * k] = SYMBOL_TO_BITS[s[k]][2]
    BY <1>1 DEF Stands, SYMBOLS_PER_WORD
  <2> HIDE DEF s
  <2>2. \A k \in 1..13 : /\ b + 2 * k - 1 \in 1..n /\ b + 2 * k \in 1..n
                         /\ o + (b + 2 * k - 1) = (o + b) + 2 * k - 1
                         /\ o + (b + 2 * k) = (o + b) + 2 * k
    BY <1>2, <1>4
  <2> HIDE DEF b, n
  <2>3. \A k \in 1..13 : /\ air[(o + b) + 2 * k - 1] = SYMBOL_TO_BITS[s[k]][1]
                         /\ air[(o + b) + 2 * k] = SYMBOL_TO_BITS[s[k]][2]
    BY <1>5, <2>1, <2>2
  <2> QED  BY <2>3 DEF Stands, SYMBOLS_PER_WORD, s, b
<1>7. ASSUME NEW i \in 1..Len(f)
      PROVE  /\ WordValid(air, o + 26 * (i - 1), i)
             /\ WordValue(air, o + 26 * (i - 1)) = f[i]
             /\ air[o + 26 * (i - 1) + 1] = 1
  <2>1. f[i] \in Byte /\ i \in Nat /\ o + 26 * (i - 1) \in Int
    BY <1>2, <1>4, FrameIs
  <2>2. Stands(air, o + 26 * (i - 1), word_symbols(f[i], i))
    BY <1>6
  <2>3. word_symbols(f[i], i)[1] = "S"
    BY <2>1, WordSymbols
  <2>4. 1 \in 1..13 /\ (o + 26 * (i - 1)) + 2 * 1 - 1 = o + 26 * (i - 1) + 1
    BY <2>1
  <2>5. air[o + 26 * (i - 1) + 1] = 1
    BY <2>2, <2>3, <2>4, SymbolBits DEF Stands, SYMBOLS_PER_WORD
  <2> QED  BY <2>1, <2>2, <2>5, WordIsRead
<1> QED BY <1>2, <1>4, <1>7

LEMMA WholeWords ==
  ASSUME air \in Seq(Bits), NEW f \in Frames, NEW o \in Whole(f)
  PROVE  /\ WordsAt(air, o, Len(f)) = f
         /\ \A n \in 0..Len(f) : WordsValid(air, o, n)
<1>1. WORD_BITS = 26 /\ Len(f) \in Nat
  BY FrameIs DEF WORD_BITS, SYMBOLS_PER_WORD
<1>2. \A i \in 1..Len(f) : /\ WordValid(air, o + 26 * (i - 1), i)
                           /\ WordValue(air, o + 26 * (i - 1)) = f[i]
  BY WholeIsRead
<1>3. f = [i \in 1..Len(f) |-> f[i]]
  BY FrameIs
<1>4. WordsAt(air, o, Len(f)) = [i \in 1..Len(f) |-> f[i]]
  BY <1>1, <1>2 DEF WordsAt
<1>5. \A n \in 0..Len(f) : \A i \in 1..n : i \in 1..Len(f)
  BY <1>1
<1> QED BY <1>1, <1>2, <1>3, <1>4, <1>5 DEF WordsValid

\* The payload scanner: a frame is one of the candidates where it is accepted.
LEMMA CandidateNames ==
  ASSUME NEW bits, NEW all, NEW words PROVE CandidateOf(bits, all, words).words = words
<1>1. \A a, b, c, d : [words |-> a, offset |-> b, repeat_count |-> c, confidence |-> d].words = a
  OBVIOUS
<1> QED BY <1>1, Zenon DEF CandidateOf

LEMMA Scanned ==
  ASSUME NEW bits, NEW o \in Hits(bits)
  PROVE  WordsAt(bits, o, 7) \in {c.words : c \in find_proflame_candidates(bits)}
<1> DEFINE all == Hits(bits)
           words == WordsAt(bits, o, 7)
           c == CandidateOf(bits, all, words)
<1>1. find_proflame_candidates(bits) = {CandidateOf(bits, all, w) : w \in {WordsAt(bits, p, 7) : p \in all}}
  BY DEF find_proflame_candidates, PROFLAME_WORD_COUNT
<1>2. words \in {WordsAt(bits, p, 7) : p \in all}
  OBVIOUS
<1>3. c.words = words
  BY CandidateNames
<1> HIDE DEF all, words
<1>4. c \in find_proflame_candidates(bits)
  BY <1>1, <1>2, Zenon
<1> HIDE DEF c
<1>5. words \in {d.words : d \in find_proflame_candidates(bits)}
  BY <1>3, <1>4
<1> QED BY <1>5 DEF words

LEMMA LegacyIsFound ==
  ASSUME air \in Seq(Bits), NEW f \in Frames, Len(f) = 7, NEW o \in Whole(f)
  PROVE  /\ Zeros(air, o + 182, 8) /\ o + 182 + 18 <= Len(air) =>
              f \in {c.words : c \in find_proflame_candidates(air)}
         /\ Zeros(air, o + 182, 18) => f \in find_proflame_pcm_candidates(air)
<1>1. o \in Nat /\ Len(air) \in Nat /\ o + 182 <= Len(air)
  <2>1. o \in Nat /\ Len(air) \in Nat /\ o + 26 * Len(f) <= Len(air)
    BY WholeIsRead, Zenon
  <2>2. 26 * Len(f) = 182
    OBVIOUS
  <2> QED  BY <2>1, <2>2
<1>2. WordsAt(air, o, 7) = f /\ WordsValid(air, o, 7)
  <2>1. 7 \in 0..7
    OBVIOUS
  <2> QED  BY <2>1, WholeWords
<1>3. WORD_BITS = 26 /\ PROFLAME_WORD_COUNT = 7 /\ 2 * TOTAL_SYMBOLS = 200 /\ 2 * TRAILING_ZERO_SYMBOLS = 18
  BY DEF WORD_BITS, SYMBOLS_PER_WORD, PROFLAME_WORD_COUNT, TOTAL_SYMBOLS, TRAILING_ZERO_SYMBOLS
<1>4. ASSUME Zeros(air, o + 182, 8), o + 182 + 18 <= Len(air)
      PROVE  f \in {c.words : c \in find_proflame_candidates(air)}
  <2>1. sample_accepted(air, o)
    BY <1>2, <1>3, <1>4 DEF sample_accepted
  <2>2. o \in 0..Len(air) - 200
    BY <1>1, <1>4
  <2>3. o \in Hits(air)
    BY <1>3, <2>1, <2>2 DEF Hits
  <2> QED  BY <1>2, <2>3, Scanned
<1>5. ASSUME Zeros(air, o + 182, 18) PROVE f \in find_proflame_pcm_candidates(air)
  <2>1. words_decode(air, o, 7)
    BY <1>1, <1>2, <1>3 DEF words_decode
  <2>2. StandardAt(air, o)
    BY <1>3, <1>5, <2>1 DEF StandardAt, FullGuard
  <2>3. o \in 0..Len(air) - (26 * 7 - 1)
    BY <1>1
  <2>4. o \in {p \in 0..Len(air) - (26 * 7 - 1) : StandardAt(air, p)}
    BY <2>2, <2>3
  <2> QED  BY <1>2, <1>3, <2>4 DEF find_proflame_pcm_candidates
<1> QED BY <1>4, <1>5

\* A ten-word frame is not taken for its first seven words: the eighth begins
\* where a seven-word frame has its guard.
LEMMA ExtendedIsFound ==
  ASSUME air \in Seq(Bits), NEW f \in Frames, Len(f) = 10, NEW o \in Whole(f),
         Zeros(air, o + 260, 10)
  PROVE  f \in find_proflame_pcm_candidates(air)
<1>1. o \in Nat /\ Len(air) \in Nat /\ o + 260 <= Len(air)
  <2>1. o \in Nat /\ Len(air) \in Nat /\ o + 26 * Len(f) <= Len(air)
    BY WholeIsRead, Zenon
  <2>2. 26 * Len(f) = 260
    OBVIOUS
  <2> QED  BY <2>1, <2>2
<1>2. WordsAt(air, o, 10) = f /\ WordsValid(air, o, 7) /\ WordsValid(air, o, 10)
  <2>1. 7 \in 0..10 /\ 10 \in 0..10
    OBVIOUS
  <2> QED  BY <2>1, WholeWords
<1>3. WORD_BITS = 26 /\ PROFLAME_WORD_COUNT = 7 /\ EXTENDED_WORD_COUNT = 10
      /\ 2 * TRAILING_ZERO_SYMBOLS = 18 /\ MIN_REPEAT_GAP_BITS = 10
  BY DEF WORD_BITS, SYMBOLS_PER_WORD, PROFLAME_WORD_COUNT, EXTENDED_WORD_COUNT,
         TRAILING_ZERO_SYMBOLS, MIN_REPEAT_GAP_BITS
<1>4. words_decode(air, o, 7) /\ words_decode(air, o, 10)
  <2>1. o + 26 * 7 <= Len(air) /\ o + 26 * 10 <= Len(air)
    BY <1>1
  <2> QED  BY <1>2, <1>3, <2>1 DEF words_decode
<1>5. air[o + 183] = 1
  <2>1. 8 \in 1..Len(f) /\ o + 26 * (8 - 1) + 1 = o + 183
    BY <1>1
  <2>2. air[o + 26 * (8 - 1) + 1] = 1
    BY <2>1, WholeIsRead, Zenon
  <2> QED  BY <2>1, <2>2
<1>6. ~StandardAt(air, o)
  <2>1. ~TruncatedAt(air, o, 7)
    BY <1>1, <1>3 DEF TruncatedAt
  <2>2. ~FullGuard(air, o)
    <3>1. o + 183 \in (o + 182) + 1..(o + 182) + 18
      BY <1>1
    <3>2. ~Zeros(air, o + 182, 18)
      BY <1>5, <3>1 DEF Zeros
    <3> QED  BY <1>3, <3>2 DEF FullGuard
  <2> QED  BY <1>3, <2>1, <2>2 DEF StandardAt
<1>7. extended_frame_integrity_matches(f)
  BY WaveformAssumption
<1>8. ExtendedAt(air, o)
  BY <1>2, <1>3, <1>4, <1>6, <1>7 DEF ExtendedAt
<1>9. o \in 0..Len(air) - (26 * 7 - 1)
  BY <1>1
<1>10. o \in {p \in 0..Len(air) - (26 * 7 - 1) : ExtendedAt(air, p)}
  BY <1>8, <1>9
<1> QED BY <1>2, <1>3, <1>10 DEF find_proflame_pcm_candidates

-----------------------------------------------------------------------------
\* A capture is made of bits and of what was sent.
Captured == sent \in Seq(Frames) /\ air \in Seq(Bits)

\* The bits of a repeated payload: the words, then for every repeat the separator
\* and the words again, and the padding.
LEMMA RepeatedPayload ==
  ASSUME NEW f \in Frames
  PROVE  LET payload == build_repeated_air_payload(build_transmission_plan(f), Repeats)
             n == 26 * Len(f)
             m == (Repeats - 1) * (n + 12)
         IN /\ payload \in Seq(Bits) /\ Len(payload) >= n + m
            /\ \A p \in 1..n : payload[p] = Encoded(f)[p]
            /\ \A p \in 1..m : LET x == (p - 1) % (n + 12)
                               IN payload[n + p] = IF x < 12 THEN 0 ELSE Encoded(f)[x - 11]
            /\ \A p \in n + m + 1..Len(payload) : payload[p] = 0
<1> DEFINE payload == build_repeated_air_payload(build_transmission_plan(f), Repeats)
           b == Encoded(f)
           n == 26 * Len(f)
           size == n + 12
           m == (Repeats - 1) * size
           z == Repeated(0, NATIVE_REPEAT_SEPARATOR_BITS)
           repeat == z \o b
           parts == Repeated(repeat, Repeats - 1)
           j == Joined(parts, Len(repeat))
           whole == b \o j
<1>1. b \in Seq(Bits) /\ Len(b) = n
  BY FrameIs, EncodedIs DEF WORD_BITS, SYMBOLS_PER_WORD
<1>2. n \in {182, 260} /\ size \in {194, 272} /\ Repeats - 1 \in Nat
  <2>1. Len(f) = 7 \/ Len(f) = 10
    BY FrameIs
  <2>2. CASE Len(f) = 7
    <3>1. n = 182 /\ size = 194
      BY <2>2
    <3> QED  BY <3>1, WaveformAssumption
  <2>3. CASE Len(f) = 10
    <3>1. n = 260 /\ size = 272
      BY <2>3
    <3> QED  BY <3>1, WaveformAssumption
  <2> QED  BY <2>1, <2>2, <2>3
<1>3. payload = AsBytes(whole)
  BY DEF build_repeated_air_payload, Encoded
<1> HIDE DEF payload, b, n
<1>4. z \in Seq(Bits) /\ Len(z) = 12 /\ \A i \in 1..12 : z[i] = 0
  BY DEF Bits, Repeated, NATIVE_REPEAT_SEPARATOR_BITS
<1> HIDE DEF z
<1>5. /\ repeat \in Seq(Bits) /\ Len(repeat) = Len(z) + Len(b)
      /\ \A i \in 1..(Len(z) + Len(b)) : repeat[i] = IF i <= Len(z) THEN z[i] ELSE b[i - Len(z)]
  <2> USE ConcatProperties
  <2>1. z \in Seq(Bits) /\ b \in Seq(Bits)
    BY <1>1, <1>4
  <2> QED  BY <2>1, Zenon
<1>6. /\ Len(repeat) = size /\ \A i \in 1..size : repeat[i] \in Bits
      /\ \A i \in 1..size : repeat[i] = IF i <= 12 THEN 0 ELSE b[i - 12]
  <2>1. 12 + n = size
    BY <1>2
  <2>2. /\ Len(repeat) = size
        /\ \A i \in 1..size : repeat[i] = IF i <= 12 THEN z[i] ELSE b[i - 12]
    BY <1>1, <1>4, <1>5, <2>1
  <2>3. \A i \in 1..size : i <= 12 => i \in 1..12
    OBVIOUS
  <2>4. \A i \in 1..size : repeat[i] \in Bits
    BY <1>5, <2>2
  <2> HIDE DEF size, repeat
  <2> QED  BY <1>4, <2>2, <2>3, <2>4
<1> HIDE DEF repeat
<1>7. Len(parts) = Repeats - 1 /\ \A i \in 1..Len(parts) : parts[i] = repeat
  BY <1>2 DEF Repeated
<1> HIDE DEF parts
<1>8. size * Len(parts) = m /\ m \in Nat
  <2>1. size * (Repeats - 1) = (Repeats - 1) * size
    BY <1>2
  <2>2. (Repeats - 1) * size \in Nat
    BY <1>2
  <2> QED  BY <1>7, <2>1, <2>2
<1>9. j \in Seq(Bits) /\ Len(j) = m
  <2>1. Len(parts) \in Nat /\ Len(repeat) \in Nat \ {0}
    BY <1>2, <1>6, <1>7
  <2>2. \A i \in 1..Len(parts) : \A k \in 1..Len(repeat) : parts[i][k] \in Bits
    BY <1>6, <1>7
  <2>3. j \in Seq(Bits) /\ Len(j) = Len(repeat) * Len(parts)
    BY <2>1, <2>2, JoinedIs, Zenon
  <2> QED  BY <1>6, <1>8, <2>3
<1>10. \A p \in 1..m : LET x == (p - 1) % size IN j[p] = IF x < 12 THEN 0 ELSE b[x - 11]
  <2>1. TAKE p \in 1..m
  <2> DEFINE x == (p - 1) % size
             i == ((p - 1) \div size) + 1
  <2>2. p \in 1..size * Len(parts) /\ Len(parts) \in Nat
    BY <1>2, <1>7, <1>8
  <2>3. i \in 1..Len(parts) /\ x + 1 \in 1..size /\ x \in Nat
    <3> DEFINE l == Len(parts)
    <3>1. l \in Nat /\ p \in 1..size * l
      BY <2>2
    <3> HIDE DEF l
    <3>2. CASE size = 194
      <4>1. p \in 1..194 * l
        BY <3>1, <3>2
      <4> QED  BY <3>1, <3>2, <4>1 DEF l
    <3>3. CASE size = 272
      <4>1. p \in 1..272 * l
        BY <3>1, <3>3
      <4> QED  BY <3>1, <3>3, <4>1 DEF l
    <3> QED  BY <1>2, <3>2, <3>3
  <2>4. j[p] = parts[i][x + 1]
    <3>1. p \in 1..Len(repeat) * Len(parts)
      BY <1>6, <2>2
    <3> QED  BY <1>6, <3>1 DEF Joined
  <2>5. j[p] = repeat[x + 1]
    BY <1>7, <2>3, <2>4
  <2> HIDE DEF j, size, x, i
  <2>6. (x + 1) - 12 = x - 11 /\ (x + 1 <= 12 <=> x < 12)
    BY <2>3
  <2> QED  BY <1>6, <2>3, <2>5, <2>6 DEF x
<1> HIDE DEF j
<1>11. /\ whole \in Seq(Bits) /\ Len(whole) = Len(b) + Len(j)
       /\ \A i \in 1..(Len(b) + Len(j)) : whole[i] = IF i <= Len(b) THEN b[i] ELSE j[i - Len(b)]
  <2>1. b \in Seq(Bits) /\ j \in Seq(Bits)
    BY <1>1, <1>9
  <2> QED  BY <2>1, ConcatProperties, Zenon
<1> HIDE DEF whole, m
<1>12. /\ payload \in Seq(Bits) /\ Len(payload) >= n + m
       /\ \A p \in 1..n + m : payload[p] = whole[p]
       /\ \A p \in n + m + 1..Len(payload) : payload[p] = 0
  <2>1. Len(whole) = n + m
    BY <1>1, <1>9, <1>11
  <2> QED  BY <1>3, <1>11, <2>1, AsBytesIs
<1>13. \A p \in 1..n + m : whole[p] = IF p <= n THEN b[p] ELSE j[p - n]
  BY <1>1, <1>9, <1>11
<1>14. \A p \in 1..n : payload[p] = b[p]
  BY <1>2, <1>8, <1>12, <1>13
<1>15. \A p \in 1..m : payload[n + p] = j[p]
  <2>1. \A p \in 1..m : n + p \in 1..n + m /\ ~(n + p <= n) /\ (n + p) - n = p
    BY <1>2, <1>8
  <2> QED  BY <1>12, <1>13, <2>1
<1> QED BY <1>10, <1>12, <1>14, <1>15 DEF payload, b, n, m

LEMMA CapturedStart == ASSUME Init PROVE Captured
BY DEF Init, Captured

LEMMA CapturedKept == ASSUME Captured, [Next]_vars PROVE Captured'
<1>1. sent \in Seq(Frames) /\ air \in Seq(Bits) /\ Len(air) \in Nat
  BY DEF Captured
<1>2. ASSUME NEW f \in Frames, NEW payload \in Seq(Bits), Transmit(f, payload) PROVE Captured'
  BY <1>1, <1>2 DEF Transmit, Captured
<1>3. ASSUME NEW bits \in Seq(Bits), NEW noise, Fault(bits, noise) PROVE Captured'
  BY <1>1, <1>3 DEF Fault, Captured
<1>4. ASSUME NEW f \in Frames, TransmitRepeated(f) PROVE Captured'
  BY <1>2, <1>4, RepeatedPayload DEF TransmitRepeated
<1>5. ASSUME NEW f \in Frames, TransmitOnce(f) PROVE Captured'
  BY <1>2, <1>5, FrameBitsAre DEF TransmitOnce
<1>6. ASSUME NEW bits \in Noise, NoiseBefore(bits) PROVE Captured'
  <2>1. bits \in Seq(Bits)
    BY WaveformAssumption DEF Bits
  <2>2. bits \o air \in Seq(Bits)
    BY <1>1, <2>1
  <2> QED  BY <1>3, <1>6, <2>2 DEF NoiseBefore
<1>7. ASSUME NEW n \in Losses, StartsLate(n) \/ EndsEarly(n) PROVE Captured'
  <2>1. n \in Nat /\ n < Len(air)
    BY <1>7, WaveformAssumption DEF StartsLate, EndsEarly
  <2>2. SubSeq(air, n + 1, Len(air)) \in Seq(Bits) /\ SubSeq(air, 1, Len(air) - n) \in Seq(Bits)
    BY <1>1, <2>1
  <2> QED  BY <1>3, <1>7, <2>2 DEF StartsLate, EndsEarly
<1>8. CASE UNCHANGED vars
  BY <1>1, <1>8 DEF vars, Captured
<1> QED BY <1>4, <1>5, <1>6, <1>7, <1>8 DEF Next

LEMMA CapturedIsFound == ASSUME Captured PROVE WholeFrameIsFound
<1>1. air \in Seq(Bits) /\ ToSet(sent) \subseteq Frames
  BY DEF Captured, ToSet
<1>2. ASSUME NEW f \in ToSet(sent), NEW o \in Whole(f)
      PROVE  LET end == o + Len(FrameBits[f])
             IN IF Len(f) = 7
                  THEN /\ Zeros(air, end, 8) /\ end + 18 <= Len(air) =>
                            f \in {c.words : c \in find_proflame_candidates(air)}
                       /\ Zeros(air, end, 18) => f \in find_proflame_pcm_candidates(air)
                  ELSE Zeros(air, end, MIN_REPEAT_GAP_BITS) => f \in find_proflame_pcm_candidates(air)
  <2>1. f \in Frames /\ Len(f) \in {7, 10} /\ Len(FrameBits[f]) = 26 * Len(f)
    BY <1>1, FrameIs, FrameBitsAre DEF WORD_BITS, SYMBOLS_PER_WORD
  <2>2. CASE Len(f) = 7
    <3>1. Len(FrameBits[f]) = 182
      BY <2>1, <2>2
    <3> QED  BY <1>1, <2>1, <2>2, <3>1, LegacyIsFound
  <2>3. CASE Len(f) = 10
    <3>1. Len(FrameBits[f]) = 260
      BY <2>1, <2>3
    <3> QED  BY <1>1, <2>1, <2>3, <3>1, ExtendedIsFound DEF MIN_REPEAT_GAP_BITS
  <2> QED  BY <2>1, <2>2, <2>3
<1> QED BY <1>2 DEF WholeFrameIsFound

\* A whole frame is found wherever it starts in a capture, by the scanner of FIFO
\* payloads and by that of pulse rows (find_proflame_candidates,
\* find_proflame_pcm_candidates): for all frames, bursts, noise and bits lost.
THEOREM FoundWhole == Spec => []WholeFrameIsFound
<1>1. Captured /\ [Next]_vars => Captured'
  BY CapturedKept
<1>2. Captured => WholeFrameIsFound
  BY CapturedIsFound
<1> QED BY <1>1, <1>2, CapturedStart, PTL DEF Spec

-----------------------------------------------------------------------------
\* Measured pulses.

LEMMA LeastNumber ==
  ASSUME NEW T \in SUBSET Nat, T # {}
  PROVE  \E n \in T : \A m \in T : ~(m < n)
<1> DEFINE R == OpToRel(<, Nat)
<1>1. IsWellFoundedOn(R, Nat)
  BY NatLessThanWellFounded
<1>2. \A a, b \in Nat : a < b => <<a, b>> \in R
  BY DEF OpToRel
<1> HIDE DEF R
<1>3. \E n \in T : \A m \in T : <<m, n>> \notin R
  BY <1>1, WFMin
<1> QED BY <1>2, <1>3

LEMMA MinIsLeast == ASSUME NEW T \in SUBSET Nat, T # {} PROVE Min(T) \in T
<1>1. PICK n \in T : \A m \in T : ~(m < n)
  BY LeastNumber
<1>2. \A m \in T : n <= m
  BY <1>1
<1>3. \E x \in T : \A y \in T : x <= y
  BY <1>2
<1> QED BY <1>3, Zenon DEF Min

LEMMA RunsHaveLengths ==
  ASSUME NEW bits \in Seq(Bits), NEW i \in DOMAIN Runs(bits)
  PROVE  Runs(bits)[i].units \in Nat \ {0}
<1> DEFINE starts == {p \in 1..Len(bits) : p = 1 \/ bits[p] # bits[p - 1]}
           T == {j \in starts : j > i} \cup {Len(bits) + 1}
<1>1. i \in starts /\ Runs(bits)[i] = [bit |-> bits[i], units |-> Min(T) - i]
  BY DEF Runs
<1>2. Len(bits) \in Nat /\ i \in Nat /\ T \in SUBSET Nat /\ T # {} /\ \A j \in T : j > i
  BY <1>1
<1> HIDE DEF starts, T
<1>3. Min(T) \in T
  BY <1>2, MinIsLeast
<1> DEFINE m == Min(T)
<1>4. m \in Nat /\ m > i
  BY <1>2, <1>3
<1> HIDE DEF m
<1>5. m - i \in Nat \ {0}
  BY <1>2, <1>4
<1> QED BY <1>1, <1>5 DEF m

\* A pulse that is off by less than half a unit keeps its length.
LEMMA UnitsOfRun ==
  ASSUME NEW u \in Nat, NEW jitter \in -208..208
  PROVE  units_of(PCM_UNIT_US * u + jitter) = u
BY DEF units_of, PCM_UNIT_US

LEMMA PulsesAreRuns == ASSUME Captured PROVE PulsesKeepTheRow
<1> DEFINE runs == Runs(air)
           off(i, high, low) == IF runs[i].bit = 1 THEN high ELSE low
           pulses(high, low) == [i \in DOMAIN runs |->
             [bit |-> runs[i].bit, us |-> PCM_UNIT_US * runs[i].units + off(i, high, low)]]
<1>1. \A i \in DOMAIN runs : runs[i].units \in Nat
  BY RunsHaveLengths DEF Captured
<1>2. runs = [i \in DOMAIN runs |-> [bit |-> runs[i].bit, units |-> runs[i].units]]
  BY DEF Runs
<1> HIDE DEF runs
<1>3. ASSUME NEW high \in Jitters, NEW low \in Jitters
      PROVE  pulse_durations_to_runs(pulses(high, low)) =
               IF \E i \in DOMAIN runs : RunRefused(runs[i].bit = 1, runs[i].units) THEN <<>> ELSE runs
  <2> DEFINE p == pulses(high, low)
             measured == [i \in DOMAIN p |-> [bit |-> p[i].bit, units |-> units_of(p[i].us)]]
  <2>1. DOMAIN p = DOMAIN runs /\ \A i \in DOMAIN runs :
          p[i] = [bit |-> runs[i].bit, us |-> PCM_UNIT_US * runs[i].units + off(i, high, low)]
    OBVIOUS
  <2> HIDE DEF p
  <2>2. \A i \in DOMAIN runs : off(i, high, low) \in -208..208
    BY WaveformAssumption
  <2>3. \A i \in DOMAIN runs : units_of(p[i].us) = runs[i].units /\ p[i].bit = runs[i].bit
    <3>1. TAKE i \in DOMAIN runs
    <3>2. p[i].us = PCM_UNIT_US * runs[i].units + off(i, high, low) /\ p[i].bit = runs[i].bit
      BY <2>1
    <3>3. runs[i].units \in Nat /\ off(i, high, low) \in -208..208
      BY <1>1, <2>2
    <3> HIDE DEF off
    <3> QED  BY <3>2, <3>3, UnitsOfRun
  <2>4. measured = runs
    BY <1>2, <2>1, <2>3
  <2>5. pulse_durations_to_runs(p) =
          IF \E i \in DOMAIN measured : RunRefused(measured[i].bit = 1, measured[i].units)
          THEN <<>> ELSE measured
    BY DEF pulse_durations_to_runs
  <2> HIDE DEF measured
  <2> QED  BY <2>4, <2>5 DEF p
<1> QED BY <1>3 DEF PulsesKeepTheRow, runs

\* The row rebuilt from measured pulses is the row on the air, unless a run of it
\* is refused (pulse_durations_to_bits): whatever jitter of less than half a unit
\* the high and the low runs have.
THEOREM RowsKept == Spec => []PulsesKeepTheRow
<1>1. Captured /\ [Next]_vars => Captured'
  BY CapturedKept
<1>2. Captured => PulsesKeepTheRow
  BY PulsesAreRuns
<1> QED BY <1>1, <1>2, CapturedStart, PTL DEF Spec

-----------------------------------------------------------------------------
\* What the decoders return stood on the air.

\* The first n bits of the words as they are sent stand at offset o of the capture.
StandsOnAir(words, o, n) == o + n <= Len(air) /\ \A p \in 1..n : air[o + p] = Encoded(words)[p]

\* Where the words that the scanner of pulse rows returns stand, and what follows them.
RowStands(words) ==
  /\ words \in Seq(Byte)
  /\ Len(words) = 7 \/ extended_frame_integrity_matches(words)
  /\ \E o \in Nat :
       LET n == 26 * Len(words)
       IN \/ StandsOnAir(words, o, n) /\ Zeros(air, o + n, IF Len(words) = 7 THEN 18 ELSE 10)
          \/ o + n = Len(air) + 1 /\ StandsOnAir(words, o, n - 1)

DecodedIsOnAir ==
  /\ \A c \in find_proflame_candidates(air) :
       /\ c.words \in Seq(Byte) /\ Len(c.words) = 7 /\ c.offset \in Nat
       /\ StandsOnAir(c.words, c.offset, 182) /\ Zeros(air, c.offset + 182, 8)
  /\ \A words \in find_proflame_pcm_candidates(air) : RowStands(words)

\* The bits of a word within those of the words it is sent with.
LEMMA EncodedBit ==
  ASSUME NEW words \in Seq(Byte), NEW i \in 1..Len(words), NEW q \in 1..26
  PROVE  Encoded(words)[26 * (i - 1) + q] = BitOfWord(word_symbols(words[i], i), q)
<1> DEFINE s == word_symbols(words[i], i)
           b == 26 * (i - 1)
           k == (q + 1) \div 2
<1>1. Stands(Encoded(words), b, s) /\ Len(words) \in Nat
  BY EncodedIs DEF WORD_BITS, SYMBOLS_PER_WORD
<1>2. b \in Int /\ k \in 1..13 /\ (q % 2 = 1 => q = 2 * k - 1) /\ (q % 2 # 1 => q = 2 * k)
  BY <1>1
<1>3. BitOfWord(s, q) = SYMBOL_TO_BITS[s[k]][IF q % 2 = 1 THEN 1 ELSE 2]
  BY DEF BitOfWord
<1> HIDE DEF s, b, k
<1>4. /\ Encoded(words)[b + 2 * k - 1] = SYMBOL_TO_BITS[s[k]][1]
      /\ Encoded(words)[b + 2 * k] = SYMBOL_TO_BITS[s[k]][2]
  BY <1>1, <1>2 DEF Stands, SYMBOLS_PER_WORD
<1>5. CASE q % 2 = 1
  <2>1. b + q = b + 2 * k - 1
    BY <1>2, <1>5
  <2> QED  BY <1>3, <1>4, <1>5, <2>1 DEF s, b
<1>6. CASE q % 2 # 1
  <2>1. b + q = b + 2 * k
    BY <1>2, <1>6
  <2> QED  BY <1>3, <1>4, <1>6, <2>1 DEF s, b
<1> QED BY <1>5, <1>6

\* The words read at o, all of them but perhaps the last bit of the last one, are
\* on the air there.
LEMMA ReadIsOnAir ==
  ASSUME air \in Seq(Bits), NEW o \in Nat, NEW count \in Nat \ {0}, NEW n \in Nat,
         n = 26 * count \/ n = 26 * count - 1, o + n <= Len(air),
         \A i \in 1..count : WordBodyValid(air, o + 26 * (i - 1), i),
         \A i \in 1..count : air[o + 26 * (i - 1) + 25] = 1,
         \A i \in 1..count : 26 * i <= n => air[o + 26 * (i - 1) + 26] = 0
  PROVE  LET words == WordsAt(air, o, count)
         IN words \in Seq(Byte) /\ Len(words) = count /\ StandsOnAir(words, o, n)
<1> DEFINE words == WordsAt(air, o, count)
           v(i) == WordValue(air, o + 26 * (i - 1))
<1>1. Len(air) \in Nat /\ \A p \in 1..Len(air) : air[p] \in Bits
  OBVIOUS
<1>2. ASSUME NEW i \in 1..count
      PROVE  /\ v(i) \in Byte
             /\ \A q \in 1..25 : air[(o + 26 * (i - 1)) + q] = BitOfWord(word_symbols(v(i), i), q)
             /\ BitOfWord(word_symbols(v(i), i), 26) = 0
  <2> DEFINE b == o + 26 * (i - 1)
  <2>1. b \in Int /\ i \in Nat /\ \A q \in 1..25 : b + q \in 1..Len(air)
    BY <1>1
  <2>2. WordBodyValid(air, b, i) /\ air[b + 25] = 1
    OBVIOUS
  <2> HIDE DEF b
  <2>3. \A q \in 1..25 : air[b + q] \in Bits
    BY <1>1, <2>1
  <2>4. /\ WordValue(air, b) \in Byte
        /\ \A q \in 1..25 : air[b + q] = BitOfWord(word_symbols(WordValue(air, b), i), q)
        /\ BitOfWord(word_symbols(WordValue(air, b), i), 26) = 0
    BY <2>1, <2>2, <2>3, WordIsWritten
  <2> QED  BY <2>4 DEF b
<1>3. words = [i \in 1..count |-> v(i)]
  BY DEF WordsAt, WORD_BITS, SYMBOLS_PER_WORD
<1> HIDE DEF words, v
<1>4. words \in Seq(Byte) /\ Len(words) = count /\ \A i \in 1..count : words[i] = v(i)
  <2>1. \A i \in 1..count : v(i) \in Byte
    BY <1>2
  <2>2. words \in [1..count -> Byte] /\ \A i \in 1..count : words[i] = v(i)
    BY <1>3, <2>1
  <2>3. words \in Seq(Byte)
    BY <2>2
  <2> QED  BY <2>2, <2>3, LenProperties
<1>5. ASSUME NEW p \in 1..n PROVE air[o + p] = Encoded(words)[p]
  <2> DEFINE i == ((p - 1) \div 26) + 1
             q == ((p - 1) % 26) + 1
  <2>1. i \in 1..count /\ q \in 1..26 /\ p = 26 * (i - 1) + q
    OBVIOUS
  <2> HIDE DEF i, q
  <2>2. Encoded(words)[26 * (i - 1) + q] = BitOfWord(word_symbols(words[i], i), q)
    BY <1>4, <2>1, EncodedBit
  <2>3. Encoded(words)[p] = BitOfWord(word_symbols(v(i), i), q)
    BY <1>4, <2>1, <2>2
  <2>4. o + p = (o + 26 * (i - 1)) + q
    BY <2>1
  <2>5. CASE q = 26
    <3>1. 26 * i <= n /\ (o + 26 * (i - 1)) + q = o + 26 * (i - 1) + 26
      BY <2>1, <2>5
    <3>2. air[o + 26 * (i - 1) + 26] = 0
      BY <2>1, <3>1
    <3> QED  BY <1>2, <2>1, <2>3, <2>4, <2>5, <3>1, <3>2
  <2>6. CASE q \in 1..25
    BY <1>2, <2>1, <2>3, <2>4, <2>6
  <2> QED  BY <2>1, <2>5, <2>6
<1> QED BY <1>4, <1>5 DEF StandsOnAir, words

\* The end guard of a valid word.
LEMMA ValidWord ==
  ASSUME NEW bits, NEW o \in Int, NEW index, WordValid(bits, o, index),
         bits[o + 25] \in Bits, bits[o + 26] \in Bits
  PROVE  WordBodyValid(bits, o, index) /\ bits[o + 25] = 1 /\ bits[o + 26] = 0
<1>1. BITS_TO_SYMBOL(bits, o + 24) = "One" /\ WordBodyValid(bits, o, index)
  BY DEF WordValid
<1>2. (o + 24) + 1 = o + 25 /\ (o + 24) + 2 = o + 26
  OBVIOUS
<1>3. bits[(o + 24) + 1] = SYMBOL_TO_BITS["One"][1] /\ bits[(o + 24) + 2] = SYMBOL_TO_BITS["One"][2]
  BY <1>1, <1>2, SymbolStands
<1> QED BY <1>1, <1>2, <1>3, SymbolBits

LEMMA ValidWords ==
  ASSUME air \in Seq(Bits), NEW o \in Nat, NEW count \in Nat,
         WordsValid(air, o, count), o + 26 * count <= Len(air)
  PROVE  \A i \in 1..count : /\ WordBodyValid(air, o + 26 * (i - 1), i)
                             /\ air[o + 26 * (i - 1) + 25] = 1 /\ air[o + 26 * (i - 1) + 26] = 0
<1>1. TAKE i \in 1..count
<1> DEFINE b == o + 26 * (i - 1)
<1>2. Len(air) \in Nat /\ \A p \in 1..Len(air) : air[p] \in Bits
  OBVIOUS
<1>3. b \in Int /\ b + 25 \in 1..Len(air) /\ b + 26 \in 1..Len(air)
  BY <1>2
<1>4. WordValid(air, b, i)
  BY DEF WordsValid, WORD_BITS, SYMBOLS_PER_WORD
<1> HIDE DEF b
<1>5. WordBodyValid(air, b, i) /\ air[b + 25] = 1 /\ air[b + 26] = 0
  BY <1>2, <1>3, <1>4, ValidWord
<1> QED BY <1>5 DEF b

LEMMA WholeWordsOnAir ==
  ASSUME air \in Seq(Bits), NEW o \in Nat, NEW count \in Nat \ {0},
         WordsValid(air, o, count), o + 26 * count <= Len(air)
  PROVE  LET words == WordsAt(air, o, count)
         IN words \in Seq(Byte) /\ Len(words) = count /\ StandsOnAir(words, o, 26 * count)
<1>1. \A i \in 1..count : /\ WordBodyValid(air, o + 26 * (i - 1), i)
                          /\ air[o + 26 * (i - 1) + 25] = 1 /\ air[o + 26 * (i - 1) + 26] = 0
  BY ValidWords
<1> DEFINE n == 26 * count
<1>2. n \in Nat /\ n = 26 * count /\ o + n <= Len(air)
  OBVIOUS
<1> HIDE DEF n
<1>3. LET words == WordsAt(air, o, count)
      IN words \in Seq(Byte) /\ Len(words) = count /\ StandsOnAir(words, o, n)
  BY <1>1, <1>2, ReadIsOnAir
<1> QED BY <1>3 DEF n

\* A row that decodes: whole, or cut in the last bit of its last word.
LEMMA DecodedWordsOnAir ==
  ASSUME air \in Seq(Bits), NEW o \in Nat, NEW count \in Nat \ {0}, words_decode(air, o, count)
  PROVE  LET words == WordsAt(air, o, count)
         IN /\ words \in Seq(Byte) /\ Len(words) = count
            /\ \/ o + 26 * count <= Len(air) /\ StandsOnAir(words, o, 26 * count)
               \/ o + 26 * count = Len(air) + 1 /\ StandsOnAir(words, o, 26 * count - 1)
<1>1. WORD_BITS = 26 /\ Len(air) \in Nat
  BY DEF WORD_BITS, SYMBOLS_PER_WORD
<1>2. CASE o + 26 * count <= Len(air) /\ WordsValid(air, o, count)
  BY <1>2, WholeWordsOnAir
<1>3. CASE /\ o + 26 * count = Len(air) + 1 /\ WordsValid(air, o, count - 1)
           /\ WordBodyValid(air, o + 26 * (count - 1), count) /\ air[Len(air)] = 1
  <2> DEFINE n == 26 * count - 1
             m == count - 1
  <2>1. /\ n \in Nat /\ n = 26 * count - 1 /\ o + n <= Len(air)
        /\ m \in Nat /\ o + 26 * m <= Len(air) /\ Len(air) = o + 26 * (count - 1) + 25
    BY <1>1, <1>3
  <2>2. \A i \in 1..m : /\ WordBodyValid(air, o + 26 * (i - 1), i)
                        /\ air[o + 26 * (i - 1) + 25] = 1 /\ air[o + 26 * (i - 1) + 26] = 0
    <3>1. WordsValid(air, o, m)
      BY <1>3
    <3> HIDE DEF m
    <3> QED  BY <2>1, <3>1, ValidWords
  <2>3. \A i \in 1..count : i = count \/ i \in 1..m
    OBVIOUS
  <2>4. \A i \in 1..count : /\ WordBodyValid(air, o + 26 * (i - 1), i)
                            /\ air[o + 26 * (i - 1) + 25] = 1
    <3> HIDE DEF m, n
    <3> QED  BY <1>3, <2>1, <2>2, <2>3
  <2>5. \A i \in 1..count : 26 * i <= n => air[o + 26 * (i - 1) + 26] = 0
    <3>1. ~(26 * count <= n)
      BY <2>1
    <3> HIDE DEF m, n
    <3> QED  BY <2>2, <2>3, <3>1
  <2> HIDE DEF n, m
  <2>6. LET words == WordsAt(air, o, count)
        IN words \in Seq(Byte) /\ Len(words) = count /\ StandsOnAir(words, o, n)
    BY <2>1, <2>4, <2>5, ReadIsOnAir
  <2> QED  BY <1>3, <2>1, <2>6
<1> QED BY <1>1, <1>2, <1>3 DEF words_decode

\* The offset of a candidate is one of its hits.
LEMMA CandidateIsHit ==
  ASSUME NEW bits, Len(bits) \in Nat, NEW all, all \subseteq 0..Len(bits),
         NEW words, \E o \in all : WordsAt(bits, o, 7) = words
  PROVE  LET c == CandidateOf(bits, all, words)
         IN c.words = words /\ c.offset \in all /\ WordsAt(bits, c.offset, 7) = words
<1> DEFINE hits == {o \in all : WordsAt(bits, o, 7) = words}
           Ahead(o, p) == o % 2 < p % 2 \/ (o % 2 = p % 2 /\ o <= p)
           even == {o \in hits : o % 2 = 0}
           first == CHOOSE o \in hits : \A p \in hits : Ahead(o, p)
           c == CandidateOf(bits, all, words)
<1>1. hits \in SUBSET Nat /\ hits # {}
  <2>1. all \subseteq Nat
    OBVIOUS
  <2>2. PICK o \in all : WordsAt(bits, o, 7) = words
    OBVIOUS
  <2>3. o \in hits
    BY <2>2
  <2> QED  BY <2>1, <2>3
<1>2. c.words = words /\ c.offset = first
  <2>1. \A a, b, r, d : /\ [words |-> a, offset |-> b, repeat_count |-> r, confidence |-> d].words = a
                        /\ [words |-> a, offset |-> b, repeat_count |-> r, confidence |-> d].offset = b
    OBVIOUS
  <2> QED  BY <2>1, Zenon DEF CandidateOf, PROFLAME_WORD_COUNT
<1> HIDE DEF hits, c
<1>3. \E o \in hits : \A p \in hits : Ahead(o, p)
  <2>1. \A o \in hits : o \in Nat /\ o % 2 \in {0, 1}
    <3>1. \A o \in Nat : o % 2 \in {0, 1}
      OBVIOUS
    <3> QED  BY <1>1, <3>1
  <2>2. CASE even # {}
    <3>1. even \in SUBSET Nat
      BY <1>1
    <3>2. PICK o \in even : \A p \in even : ~(p < o)
      BY <2>2, <3>1, LeastNumber
    <3>3. \A p \in hits : Ahead(o, p)
      <4>1. TAKE p \in hits
      <4>2. CASE p \in even
        BY <2>1, <3>2, <4>2
      <4>3. CASE p \notin even
        BY <2>1, <3>2, <4>3
      <4> QED  BY <4>2, <4>3
    <3> QED  BY <3>2, <3>3
  <2>3. CASE even = {}
    <3>1. PICK o \in hits : \A p \in hits : ~(p < o)
      BY <1>1, LeastNumber
    <3>2. \A p \in hits : p % 2 = 1
      BY <2>1, <2>3
    <3>3. \A p \in hits : Ahead(o, p)
      BY <2>1, <3>1, <3>2
    <3> QED  BY <3>3
  <2> QED  BY <2>2, <2>3
<1>4. first \in hits
  <2> HIDE DEF Ahead
  <2> QED  BY <1>3, Zenon
<1> HIDE DEF first
<1> QED BY <1>2, <1>4 DEF hits, c

LEMMA ScannedIsOnAir ==
  ASSUME air \in Seq(Bits), NEW c \in find_proflame_candidates(air)
  PROVE  /\ c.words \in Seq(Byte) /\ Len(c.words) = 7 /\ c.offset \in Nat
         /\ StandsOnAir(c.words, c.offset, 182) /\ Zeros(air, c.offset + 182, 8)
<1> DEFINE all == Hits(air)
<1>1. Len(air) \in Nat
  OBVIOUS
<1>2. /\ WORD_BITS = 26 /\ PROFLAME_WORD_COUNT = 7 /\ 2 * TOTAL_SYMBOLS = 200
      /\ WORD_BITS * PROFLAME_WORD_COUNT = 182
  BY DEF WORD_BITS, SYMBOLS_PER_WORD, PROFLAME_WORD_COUNT, TOTAL_SYMBOLS, TRAILING_ZERO_SYMBOLS
<1>3. \A o \in all : /\ o \in 0..Len(air) /\ o + 200 <= Len(air)
                     /\ WordsValid(air, o, 7) /\ Zeros(air, o + 182, 8)
  BY <1>1, <1>2 DEF Hits, sample_accepted
<1>4. PICK o \in all : c = CandidateOf(air, all, WordsAt(air, o, 7))
  BY <1>2, Zenon DEF find_proflame_candidates
<1> DEFINE words == WordsAt(air, o, 7)
<1> HIDE DEF all
<1>5. c.words = words /\ c.offset \in all /\ WordsAt(air, c.offset, 7) = words
  <2>1. all \subseteq 0..Len(air) /\ \E p \in all : WordsAt(air, p, 7) = words
    BY <1>3
  <2>2. c = CandidateOf(air, all, words)
    BY <1>4
  <2> HIDE DEF words
  <2> QED  BY <1>1, <2>1, <2>2, CandidateIsHit
<1> HIDE DEF words
<1>6. c.offset \in Nat /\ c.offset + 26 * 7 <= Len(air) /\ WordsValid(air, c.offset, 7)
  BY <1>1, <1>3, <1>5
<1>7. words \in Seq(Byte) /\ Len(words) = 7 /\ StandsOnAir(words, c.offset, 26 * 7)
  <2>1. 7 \in Nat \ {0}
    OBVIOUS
  <2> DEFINE p == c.offset
  <2>2. p \in Nat /\ p + 26 * 7 <= Len(air) /\ WordsValid(air, p, 7)
    BY <1>6
  <2>3. words = WordsAt(air, p, 7)
    BY <1>5
  <2> HIDE DEF p
  <2>4. LET r == WordsAt(air, p, 7)
        IN r \in Seq(Byte) /\ Len(r) = 7 /\ StandsOnAir(r, p, 26 * 7)
    BY <2>1, <2>2, WholeWordsOnAir
  <2> QED  BY <2>3, <2>4 DEF p
<1>8. 26 * 7 = 182
  OBVIOUS
<1> QED BY <1>3, <1>5, <1>6, <1>7, <1>8

LEMMA PulsedIsOnAir ==
  ASSUME air \in Seq(Bits), NEW words \in find_proflame_pcm_candidates(air)
  PROVE  RowStands(words)
<1>1. /\ WORD_BITS = 26 /\ PROFLAME_WORD_COUNT = 7 /\ EXTENDED_WORD_COUNT = 10
      /\ WORD_BITS * PROFLAME_WORD_COUNT = 182 /\ WORD_BITS * EXTENDED_WORD_COUNT = 260
      /\ 2 * TRAILING_ZERO_SYMBOLS = 18 /\ MIN_REPEAT_GAP_BITS = 10 /\ Len(air) \in Nat
  BY DEF WORD_BITS, SYMBOLS_PER_WORD, PROFLAME_WORD_COUNT, EXTENDED_WORD_COUNT,
         TRAILING_ZERO_SYMBOLS, MIN_REPEAT_GAP_BITS
\* One of the two, at the offset o.
<1>2. PICK o \in Nat, count \in {7, 10} :
        /\ words = WordsAt(air, o, count) /\ words_decode(air, o, count)
        /\ count = 10 => extended_frame_integrity_matches(words)
        /\ TruncatedAt(air, o, count) \/ Zeros(air, o + 26 * count, IF count = 7 THEN 18 ELSE 10)
  <2> DEFINE offsets == 0..Len(air) - (WORD_BITS * PROFLAME_WORD_COUNT - 1)
  <2>1. offsets \subseteq Nat
    OBVIOUS
  <2>2. \/ \E o \in offsets : StandardAt(air, o) /\ words = WordsAt(air, o, 7)
        \/ \E o \in offsets : ExtendedAt(air, o) /\ words = WordsAt(air, o, 10)
    BY <1>1 DEF find_proflame_pcm_candidates
  <2> HIDE DEF offsets
  <2>3. CASE \E o \in offsets : StandardAt(air, o) /\ words = WordsAt(air, o, 7)
    <3>1. PICK o \in offsets : StandardAt(air, o) /\ words = WordsAt(air, o, 7)
      BY <2>3
    <3>2. /\ words_decode(air, o, 7)
          /\ TruncatedAt(air, o, 7) \/ Zeros(air, o + 26 * 7, 18)
      <4>1. 26 * 7 = 182
        OBVIOUS
      <4> QED  BY <1>1, <3>1, <4>1 DEF StandardAt, FullGuard
    <3> QED  BY <2>1, <3>1, <3>2
  <2>4. CASE \E o \in offsets : ExtendedAt(air, o) /\ words = WordsAt(air, o, 10)
    <3>1. PICK o \in offsets : ExtendedAt(air, o) /\ words = WordsAt(air, o, 10)
      BY <2>4
    <3>2. /\ words_decode(air, o, 10) /\ extended_frame_integrity_matches(words)
          /\ TruncatedAt(air, o, 10) \/ Zeros(air, o + 26 * 10, 10)
      <4>1. 26 * 10 = 260
        OBVIOUS
      <4> QED  BY <1>1, <3>1, <4>1 DEF ExtendedAt
    <3> QED  BY <2>1, <3>1, <3>2
  <2> QED  BY <2>2, <2>3, <2>4
<1> DEFINE n == 26 * count
<1>3. n \in Nat /\ count \in Nat \ {0}
  OBVIOUS
<1>4. /\ words \in Seq(Byte) /\ Len(words) = count
      /\ \/ o + n <= Len(air) /\ StandsOnAir(words, o, n)
         \/ o + n = Len(air) + 1 /\ StandsOnAir(words, o, n - 1)
  <2>1. LET r == WordsAt(air, o, count)
        IN /\ r \in Seq(Byte) /\ Len(r) = count
           /\ \/ o + 26 * count <= Len(air) /\ StandsOnAir(r, o, 26 * count)
              \/ o + 26 * count = Len(air) + 1 /\ StandsOnAir(r, o, 26 * count - 1)
    BY <1>2, <1>3, DecodedWordsOnAir
  <2> QED  BY <1>2, <2>1
<1>5. TruncatedAt(air, o, count) => o + n = Len(air) + 1
  BY <1>1 DEF TruncatedAt
<1>6. Zeros(air, o + n, IF count = 7 THEN 18 ELSE 10) => o + n <= Len(air)
  BY <1>1, <1>3 DEF Zeros
<1>7. 26 * Len(words) = n
  BY <1>4
<1> HIDE DEF n
<1>8. \/ StandsOnAir(words, o, n) /\ Zeros(air, o + n, IF Len(words) = 7 THEN 18 ELSE 10)
      \/ o + n = Len(air) + 1 /\ StandsOnAir(words, o, n - 1)
  <2>1. o + n <= Len(air) => ~(o + n = Len(air) + 1)
    BY <1>1, <1>3
  <2>2. TruncatedAt(air, o, count) \/ Zeros(air, o + n, IF count = 7 THEN 18 ELSE 10)
    BY <1>2 DEF n
  <2> QED  BY <1>4, <1>5, <1>6, <2>1, <2>2
<1>9. Len(words) = 7 \/ extended_frame_integrity_matches(words)
  BY <1>2, <1>4
<1> QED BY <1>2, <1>4, <1>7, <1>8, <1>9 DEF RowStands

\* The decoders make nothing up, whatever noise there is and however the capture is
\* cut: the words they return stood on the air bit for bit, as build_transmission_plan
\* sends them, with the guard or the gap that the decoder asks for; of a row of pulses
\* that ends with its last word the last bit may be missing
\* (_sample_from_symbol_window, _decode_words).
THEOREM NothingIsMadeUp == Spec => []DecodedIsOnAir
<1>1. Captured /\ [Next]_vars => Captured'
  BY CapturedKept
<1>2. Captured => DecodedIsOnAir
  <2>1. SUFFICES ASSUME air \in Seq(Bits) PROVE DecodedIsOnAir
    BY DEF Captured
  <2>2. \A words \in find_proflame_pcm_candidates(air) : RowStands(words)
    BY <2>1, PulsedIsOnAir
  <2> QED  BY <2>1, <2>2, ScannedIsOnAir DEF DecodedIsOnAir, RowStands
<1> QED BY <1>1, <1>2, CapturedStart, PTL DEF Spec

-----------------------------------------------------------------------------
\* Where the bits of a capture come from.

\* A place in a transmission: a bit of a word of a frame, or a zero between frames,
\* whose word is 0.
IsPlace(a, frames) == a.frame \in frames /\ a.word \in 0..Len(a.frame) /\ a.bit \in 1..26
BitAt(a) == IF a.word = 0 THEN 0 ELSE BitOfWord(word_symbols(a.frame[a.word], a.word), a.bit)

\* The place after a: any burst may begin there.
Follows(a, b) ==
  \/ b.word = 1 /\ b.bit = 1
  \/ /\ a.word # 0 /\ a.bit < 26
     /\ b.frame = a.frame /\ b.word = a.word /\ b.bit = a.bit + 1
  \/ /\ a.word # 0 /\ a.bit = 26 /\ a.word < Len(a.frame)
     /\ b.frame = a.frame /\ b.word = a.word + 1 /\ b.bit = 1
  \/ b.word = 0 /\ (a.word = 0 \/ (a.bit = 26 /\ a.word = Len(a.frame)))

\* All bits but the first z, which may be noise, come from the places src.
CarriedBy(bits, frames, z, src) ==
  /\ \A p \in 1..Len(bits) : p > z => IsPlace(src[p], frames) /\ bits[p] = BitAt(src[p])
  /\ \A p \in 1..Len(bits) - 1 : p > z => Follows(src[p], src[p + 1])

\* The place of bit p of a payload whose last word ends at end.
PlaceOf(f, end, p) ==
  LET n == 26 * Len(f)
      r == (p - 1) % (n + 12)
      inWord == p <= end /\ r < n
  IN [frame |-> f, word |-> IF inWord THEN (r \div 26) + 1 ELSE 0,
      bit |-> IF inWord THEN (r % 26) + 1 ELSE 1]

LEMMA SplitBits ==
  ASSUME NEW r \in Nat
  PROVE  /\ r \div 26 \in Nat /\ r % 26 \in 0..25 /\ r = 26 * (r \div 26) + (r % 26)
         /\ r % 26 < 25 => (r + 1) \div 26 = r \div 26 /\ (r + 1) % 26 = (r % 26) + 1
         /\ r % 26 = 25 => (r + 1) \div 26 = r \div 26 + 1 /\ (r + 1) % 26 = 0
OBVIOUS

\* How far bit p is into its repeat, counted from the frame and from the separator.
IntoRepeatIs(n, p, r) ==
  /\ r \in 0..n + 11
  /\ p <= n => r = p - 1
  /\ p > n => ((p - n) - 1) % (n + 12) = IF r < n THEN r + 12 ELSE r - n

LEMMA Remainder ==
  ASSUME NEW y \in Int, NEW u \in Int, NEW c \in Int
  PROVE  /\ (y = 194 * u + c \/ y + 194 = 194 * u + c) /\ c \in 0..193 => y % 194 = c
         /\ (y = 272 * u + c \/ y + 272 = 272 * u + c) /\ c \in 0..271 => y % 272 = c
OBVIOUS

LEMMA Repeat194 ==
  ASSUME NEW p \in Nat \ {0}, NEW r, r = (p - 1) % 194
  PROVE  /\ r \in 0..193
         /\ p <= 182 => r = p - 1
         /\ p > 182 => (p - 183) % 194 = IF r < 182 THEN r + 12 ELSE r - 182
<1> DEFINE u == (p - 1) \div 194
<1>1. p - 1 = 194 * u + r /\ u \in Int /\ r \in 0..193
  OBVIOUS
<1>2. p <= 182 => r = p - 1
  OBVIOUS
<1> HIDE DEF u
<1>3. CASE r < 182
  <2> DEFINE y == p - 183
             c == r + 12
  <2>1. y + 194 = 194 * u + c /\ y \in Int /\ c \in 0..193
    BY <1>1, <1>3
  <2> HIDE DEF y, c
  <2>2. y % 194 = c
    BY <1>1, <2>1, Remainder
  <2> QED  BY <1>1, <1>2, <1>3, <2>2 DEF y, c
<1>4. CASE ~(r < 182)
  <2> DEFINE y == p - 183
             c == r - 182
  <2>1. y = 194 * u + c /\ y \in Int /\ c \in 0..193
    BY <1>1, <1>4
  <2> HIDE DEF y, c
  <2>2. y % 194 = c
    BY <1>1, <2>1, Remainder
  <2> QED  BY <1>1, <1>2, <1>4, <2>2 DEF y, c
<1> QED BY <1>3, <1>4

LEMMA Repeat272 ==
  ASSUME NEW p \in Nat \ {0}, NEW r, r = (p - 1) % 272
  PROVE  /\ r \in 0..271
         /\ p <= 260 => r = p - 1
         /\ p > 260 => (p - 261) % 272 = IF r < 260 THEN r + 12 ELSE r - 260
<1> DEFINE u == (p - 1) \div 272
<1>1. p - 1 = 272 * u + r /\ u \in Int /\ r \in 0..271
  OBVIOUS
<1>2. p <= 260 => r = p - 1
  OBVIOUS
<1> HIDE DEF u
<1>3. CASE r < 260
  <2> DEFINE y == p - 261
             c == r + 12
  <2>1. y + 272 = 272 * u + c /\ y \in Int /\ c \in 0..271
    BY <1>1, <1>3
  <2> HIDE DEF y, c
  <2>2. y % 272 = c
    BY <1>1, <2>1, Remainder
  <2> QED  BY <1>1, <1>2, <1>3, <2>2 DEF y, c
<1>4. CASE ~(r < 260)
  <2> DEFINE y == p - 261
             c == r - 260
  <2>1. y = 272 * u + c /\ y \in Int /\ c \in 0..271
    BY <1>1, <1>4
  <2> HIDE DEF y, c
  <2>2. y % 272 = c
    BY <1>1, <2>1, Remainder
  <2> QED  BY <1>1, <1>2, <1>4, <2>2 DEF y, c
<1> QED BY <1>3, <1>4

LEMMA IntoRepeat ==
  ASSUME NEW n, n = 182 \/ n = 260, NEW p \in Nat \ {0}, NEW r, r = (p - 1) % (n + 12)
  PROVE  IntoRepeatIs(n, p, r)
<1>1. CASE n = 182
  <2>1. n + 12 = 194 /\ n + 11 = 193 /\ (p - n) - 1 = p - 183
    BY <1>1
  <2>2. r = (p - 1) % 194
    BY <2>1
  <2> QED  BY <1>1, <2>1, <2>2, Repeat194 DEF IntoRepeatIs
<1>2. CASE n = 260
  <2>1. n + 12 = 272 /\ n + 11 = 271 /\ (p - n) - 1 = p - 261
    BY <1>2
  <2>2. r = (p - 1) % 272
    BY <2>1
  <2> QED  BY <1>2, <2>1, <2>2, Repeat272 DEF IntoRepeatIs
<1> QED BY <1>1, <1>2

\* The place of bit p by its distance r from the start of its repeat.
PlacedAt(a, f, n, r, end, p) ==
  /\ a.frame = f
  /\ p <= end /\ r < n => a.word = (r \div 26) + 1 /\ a.bit = (r % 26) + 1
  /\ ~(p <= end /\ r < n) => a.word = 0 /\ a.bit = 1

LEMMA PlaceAt ==
  ASSUME NEW f, NEW end \in Nat, NEW p \in Nat, NEW r \in Nat, NEW n \in Nat,
         n = 26 * Len(f), r = (p - 1) % (n + 12)
  PROVE  PlacedAt(PlaceOf(f, end, p), f, n, r, end, p)
<1>1. PlaceOf(f, end, p) =
        [frame |-> f, word |-> IF p <= end /\ r < n THEN (r \div 26) + 1 ELSE 0,
         bit |-> IF p <= end /\ r < n THEN (r % 26) + 1 ELSE 1]
  BY Zenon DEF PlaceOf
<1> QED BY <1>1 DEF PlacedAt

LEMMA PlacesFollow ==
  ASSUME NEW f \in Frames, NEW k \in Nat, NEW end, end = 26 * Len(f) + k * (26 * Len(f) + 12),
         NEW p \in Nat \ {0}
  PROVE  /\ IsPlace(PlaceOf(f, end, p), {f})
         /\ Follows(PlaceOf(f, end, p), PlaceOf(f, end, p + 1))
<1> DEFINE n == 26 * Len(f)
           r == (p - 1) % (n + 12)
           r1 == ((p + 1) - 1) % (n + 12)
           a == PlaceOf(f, end, p)
           b == PlaceOf(f, end, p + 1)
<1>1. Len(f) = 7 \/ Len(f) = 10
  BY FrameIs
<1>2. r \in 0..n + 11 /\ r1 = IF r = n + 11 THEN 0 ELSE r + 1
  <2>1. CASE Len(f) = 7
    <3>1. r = (p - 1) % 194 /\ r1 = p % 194 /\ n = 182
      BY <2>1
    <3> HIDE DEF r, r1, n
    <3> QED  BY <3>1
  <2>2. CASE Len(f) = 10
    <3>1. r = (p - 1) % 272 /\ r1 = p % 272 /\ n = 260
      BY <2>2
    <3> HIDE DEF r, r1, n
    <3> QED  BY <3>1
  <2> QED  BY <1>1, <2>1, <2>2
<1>3. end \in Nat /\ (p = end => r = n - 1)
  <2>1. CASE Len(f) = 7
    <3>1. end = 182 + k * 194 /\ r = (p - 1) % 194 /\ n = 182
      BY <2>1
    <3> HIDE DEF r, n
    <3>2. p = end => p - 1 = 194 * k + 181
      BY <3>1
    <3> QED  BY <3>1, <3>2
  <2>2. CASE Len(f) = 10
    <3>1. end = 260 + k * 272 /\ r = (p - 1) % 272 /\ n = 260
      BY <2>2
    <3> HIDE DEF r, n
    <3>2. p = end => p - 1 = 272 * k + 259
      BY <3>1
    <3> QED  BY <3>1, <3>2
  <2> QED  BY <1>1, <2>1, <2>2
<1>4. n = 26 * Len(f) /\ n \in Nat /\ Len(f) \in Nat /\ r \in Nat /\ r1 \in Nat
  BY <1>1, <1>2
<1>5. /\ a.frame = f
      /\ p <= end /\ r < n => a.word = (r \div 26) + 1 /\ a.bit = (r % 26) + 1
      /\ ~(p <= end /\ r < n) => a.word = 0 /\ a.bit = 1
  <2>1. /\ n = 26 * Len(f) /\ r = (p - 1) % (n + 12)
        /\ end \in Nat /\ p \in Nat /\ r \in Nat /\ n \in Nat
    BY <1>3, <1>4
  <2> HIDE DEF n, r
  <2>2. PlacedAt(PlaceOf(f, end, p), f, n, r, end, p)
    BY <2>1, PlaceAt
  <2> QED  BY <2>2 DEF PlacedAt
<1>6. /\ b.frame = f
      /\ p + 1 <= end /\ r1 < n => b.word = (r1 \div 26) + 1 /\ b.bit = (r1 % 26) + 1
      /\ ~(p + 1 <= end /\ r1 < n) => b.word = 0 /\ b.bit = 1
  <2>1. /\ n = 26 * Len(f) /\ r1 = ((p + 1) - 1) % (n + 12)
        /\ end \in Nat /\ p + 1 \in Nat /\ r1 \in Nat /\ n \in Nat
    BY <1>3, <1>4
  <2> HIDE DEF n, r1
  <2>2. PlacedAt(PlaceOf(f, end, p + 1), f, n, r1, end, p + 1)
    BY <2>1, PlaceAt
  <2> QED  BY <2>2 DEF PlacedAt
<1> DEFINE w == r \div 26
           c == r % 26
<1>7. /\ w \in Nat /\ c \in 0..25 /\ r = 26 * w + c
      /\ c < 25 => (r + 1) \div 26 = w /\ (r + 1) % 26 = c + 1
      /\ c = 25 => (r + 1) \div 26 = w + 1 /\ (r + 1) % 26 = 0
  BY <1>4, SplitBits
<1> SUFFICES IsPlace(a, {f}) /\ Follows(a, b)
  OBVIOUS
<1> HIDE DEF n, r, r1, a, b, w, c
<1>8. CASE p <= end /\ r < n
  <2>1. a.word = w + 1 /\ a.bit = c + 1 /\ w < Len(f)
    <3>1. w < Len(f)
      BY <1>4, <1>7, <1>8
    <3> QED  BY <1>5, <1>8, <3>1 DEF w, c
  <2>2. IsPlace(a, {f})
    <3>1. w + 1 \in 0..Len(f) /\ c + 1 \in 1..26
      BY <1>4, <1>7, <2>1
    <3> QED  BY <1>5, <2>1, <3>1 DEF IsPlace
  <2>3. a.word # 0
    BY <1>7, <2>1
  <2>4. CASE p + 1 <= end /\ r + 1 < n
    <3>1. r1 = r + 1
      BY <1>2, <1>4, <2>4
    <3>2. b.word = ((r + 1) \div 26) + 1 /\ b.bit = ((r + 1) % 26) + 1
      BY <1>6, <2>4, <3>1
    <3>3. CASE c < 25
      <4>1. b.word = a.word /\ b.bit = a.bit + 1 /\ a.bit < 26
        BY <1>7, <2>1, <3>2, <3>3
      <4> QED  BY <1>5, <1>6, <2>2, <2>3, <4>1 DEF Follows
    <3>4. CASE c = 25
      <4>1. b.word = a.word + 1 /\ b.bit = 1 /\ a.bit = 26 /\ a.word < Len(a.frame)
        <5>1. w + 1 < Len(f)
          BY <1>4, <1>7, <2>4, <3>4
        <5> QED  BY <1>5, <1>7, <2>1, <3>2, <3>4, <5>1
      <4> QED  BY <1>5, <1>6, <2>2, <2>3, <4>1 DEF Follows
    <3> QED  BY <1>7, <3>3, <3>4
  <2>5. CASE ~(p + 1 <= end /\ r + 1 < n)
    <3>1. r = n - 1
      BY <1>3, <1>4, <1>8, <2>5
    <3>2. a.bit = 26 /\ a.word = Len(a.frame)
      <4>1. w + 1 = Len(f) /\ c = 25
        BY <1>4, <1>7, <3>1
      <4> QED  BY <1>5, <2>1, <4>1
    <3>3. b.word = 0
      <4>1. r1 = n
        BY <1>2, <1>4, <3>1
      <4> QED  BY <1>4, <1>6, <4>1
    <3> QED  BY <2>2, <3>2, <3>3 DEF Follows
  <2> QED  BY <2>4, <2>5
<1>9. CASE ~(p <= end /\ r < n)
  <2>1. a.word = 0 /\ a.bit = 1
    BY <1>5, <1>9
  <2>2. IsPlace(a, {f})
    <3>1. 0 \in 0..Len(f) /\ 1 \in 1..26
      BY <1>4
    <3> QED  BY <1>5, <2>1, <3>1 DEF IsPlace
  <2>3. CASE p + 1 <= end /\ r1 < n
    <3>1. r1 = 0
      BY <1>2, <1>3, <1>4, <1>9, <2>3
    <3>2. (0 \div 26) + 1 = 1 /\ (0 % 26) + 1 = 1
      OBVIOUS
    <3>3. b.word = 1 /\ b.bit = 1
      BY <1>6, <2>3, <3>1, <3>2
    <3> QED  BY <2>2, <3>3 DEF Follows
  <2>4. CASE ~(p + 1 <= end /\ r1 < n)
    BY <1>6, <2>1, <2>2, <2>4 DEF Follows
  <2> QED  BY <2>3, <2>4
<1> QED BY <1>8, <1>9

\* The bits of a payload, with k repeats of the words and their separator.
LEMMA PayloadIsCarried ==
  ASSUME NEW f \in Frames, NEW payload \in Seq(Bits), NEW k \in Nat, NEW m, m = k * (26 * Len(f) + 12),
         Len(payload) >= 26 * Len(f) + m,
         \A p \in 1..26 * Len(f) : payload[p] = Encoded(f)[p],
         \A p \in 1..m : LET x == (p - 1) % (26 * Len(f) + 12)
                         IN payload[26 * Len(f) + p] = IF x < 12 THEN 0 ELSE Encoded(f)[x - 11],
         \A p \in 26 * Len(f) + m + 1..Len(payload) : payload[p] = 0
  PROVE  \E src : /\ CarriedBy(payload, {f}, 0, src)
                  /\ src[1].word = 1 /\ src[1].bit = 1
<1> DEFINE n == 26 * Len(f)
           end == n + m
           src == [p \in 1..Len(payload) |-> PlaceOf(f, end, p)]
<1>1. f \in Seq(Byte) /\ (Len(f) = 7 \/ Len(f) = 10) /\ Len(payload) \in Nat
  BY FrameIs
<1>2. n \in Nat \ {0} /\ n = 26 * Len(f) /\ Len(f) \in Nat /\ m \in Nat /\ end \in Nat
  <2>1. CASE Len(f) = 7
    BY <2>1
  <2>2. CASE Len(f) = 10
    BY <2>2
  <2> QED  BY <1>1, <2>1, <2>2
<1>3. /\ Len(payload) >= n + m
      /\ \A p \in 1..n : payload[p] = Encoded(f)[p]
      /\ \A p \in 1..m : LET x == (p - 1) % (n + 12)
                         IN payload[n + p] = IF x < 12 THEN 0 ELSE Encoded(f)[x - 11]
      /\ \A p \in n + m + 1..Len(payload) : payload[p] = 0
  OBVIOUS
<1>4. \A p \in 1..Len(payload) : src[p] = PlaceOf(f, end, p)
  OBVIOUS
<1>5. \A p \in Nat \ {0} : /\ IsPlace(PlaceOf(f, end, p), {f})
                          /\ Follows(PlaceOf(f, end, p), PlaceOf(f, end, p + 1))
  <2>1. end = 26 * Len(f) + k * (26 * Len(f) + 12)
    OBVIOUS
  <2> HIDE DEF end
  <2> QED  BY <2>1, PlacesFollow
\* The bits of the words in their places.
<1>6. \A y \in 0..n - 1 : /\ (y \div 26) + 1 \in 1..Len(f)
                         /\ Encoded(f)[y + 1] =
                              BitOfWord(word_symbols(f[(y \div 26) + 1], (y \div 26) + 1), (y % 26) + 1)
  <2>1. TAKE y \in 0..n - 1
  <2> DEFINE i == (y \div 26) + 1
             q == (y % 26) + 1
  <2>2. i \in 1..Len(f) /\ q \in 1..26 /\ y + 1 = 26 * (i - 1) + q
    BY <1>2
  <2> HIDE DEF i, q
  <2>3. Encoded(f)[26 * (i - 1) + q] = BitOfWord(word_symbols(f[i], i), q)
    BY <1>1, <2>2, EncodedBit
  <2> QED  BY <2>2, <2>3 DEF i, q
<1> HIDE DEF src
<1>7. ASSUME NEW p \in 1..Len(payload) PROVE payload[p] = BitAt(PlaceOf(f, end, p))
  <2> DEFINE r == (p - 1) % (n + 12)
             x == ((p - n) - 1) % (n + 12)
             a == PlaceOf(f, end, p)
  <2>1. /\ r \in 0..n + 11 /\ p \in Nat \ {0}
        /\ p <= n => r = p - 1
        /\ p > n => x = IF r < n THEN r + 12 ELSE r - n
    <3>1. n = 182 \/ n = 260
      <4>1. CASE Len(f) = 7
        BY <4>1
      <4>2. CASE Len(f) = 10
        BY <4>2
      <4> QED  BY <1>1, <4>1, <4>2
    <3>2. p \in Nat \ {0} /\ r = (p - 1) % (n + 12)
      OBVIOUS
    <3>3. IntoRepeatIs(n, p, r)
      <4> HIDE DEF n, r
      <4> QED  BY <3>1, <3>2, IntoRepeat
    <3> QED  BY <3>2, <3>3 DEF IntoRepeatIs
  <2>2. /\ a.frame = f
        /\ p <= end /\ r < n => a.word = (r \div 26) + 1 /\ a.bit = (r % 26) + 1
        /\ ~(p <= end /\ r < n) => a.word = 0 /\ a.bit = 1
    <3>1. /\ n = 26 * Len(f) /\ r = (p - 1) % (n + 12)
          /\ end \in Nat /\ p \in Nat /\ r \in Nat /\ n \in Nat
      BY <1>2, <2>1
    <3> HIDE DEF n, r, end
    <3>2. PlacedAt(PlaceOf(f, end, p), f, n, r, end, p)
      BY <3>1, PlaceAt
    <3> QED  BY <3>2 DEF PlacedAt
  <2>5. p > n /\ p <= end => payload[p] = IF x < 12 THEN 0 ELSE Encoded(f)[x - 11]
    <3>1. ASSUME p > n, p <= end PROVE p - n \in 1..m /\ n + (p - n) = p
      BY <1>2, <2>1, <3>1
    <3>2. \A y \in 1..m : payload[n + y] = IF ((y - 1) % (n + 12)) < 12 THEN 0
                                           ELSE Encoded(f)[((y - 1) % (n + 12)) - 11]
      BY <1>3
    <3> QED  BY <3>1, <3>2
  <2> HIDE DEF a, r, x
  <2>6. CASE p <= end /\ r < n
    <3>1. BitAt(a) = Encoded(f)[r + 1]
      <4>1. r \in 0..n - 1 /\ (r \div 26) + 1 # 0
        BY <1>2, <2>1, <2>6
      <4> HIDE DEF n
      <4> QED  BY <1>6, <2>2, <2>6, <4>1 DEF BitAt
    <3>2. CASE p <= n
      <4>1. r + 1 = p /\ p \in 1..n
        BY <1>2, <2>1, <3>2
      <4> HIDE DEF n
      <4> QED  BY <1>3, <3>1, <4>1 DEF a
    <3>3. CASE p > n
      <4>1. ~(x < 12) /\ x - 11 = r + 1
        BY <1>2, <2>1, <2>6, <3>3
      <4> QED  BY <2>5, <2>6, <3>1, <3>3, <4>1 DEF a
    <3> QED  BY <1>2, <2>1, <3>2, <3>3
  <2>7. CASE p <= end /\ ~(r < n)
    <3>1. p > n /\ x < 12
      BY <1>2, <2>1, <2>7
    <3> QED  BY <2>2, <2>5, <2>7, <3>1 DEF a, BitAt
  <2>8. CASE ~(p <= end)
    <3>1. p \in n + m + 1..Len(payload)
      BY <1>1, <1>2, <2>1, <2>8
    <3> HIDE DEF n
    <3> QED  BY <1>3, <2>2, <2>8, <3>1 DEF a, BitAt
  <2> QED  BY <2>6, <2>7, <2>8
<1>8. CarriedBy(payload, {f}, 0, src)
  <2>1. ASSUME NEW p \in 1..Len(payload) PROVE IsPlace(src[p], {f}) /\ payload[p] = BitAt(src[p])
    <3>1. p \in Nat \ {0}
      OBVIOUS
    <3> HIDE DEF end
    <3> QED  BY <1>4, <1>5, <1>7, <3>1
  <2>2. \A p \in 1..Len(payload) - 1 : Follows(src[p], src[p + 1])
    <3>1. TAKE p \in 1..Len(payload) - 1
    <3>2. p \in 1..Len(payload) /\ p + 1 \in 1..Len(payload) /\ p \in Nat \ {0}
      BY <1>1
    <3> QED  BY <1>4, <1>5, <3>2
  <2> QED  BY <2>1, <2>2 DEF CarriedBy
<1>9. src[1].word = 1 /\ src[1].bit = 1
  <2>1. 1 \in 1..Len(payload) /\ 1 <= end /\ 0 < n /\ 0 = (1 - 1) % (n + 12)
    BY <1>1, <1>2, <1>3
  <2>2. PlaceOf(f, end, 1).word = (0 \div 26) + 1 /\ PlaceOf(f, end, 1).bit = (0 % 26) + 1
    <3>1. 1 \in Nat /\ 0 \in Nat /\ n \in Nat /\ 1 <= end /\ 0 < n
      BY <1>2, <2>1
    <3> DEFINE one == 1
               zero == 0
    <3>2. zero = (one - 1) % (n + 12) /\ one \in Nat /\ zero \in Nat /\ one <= end /\ zero < n
      BY <2>1, <3>1
    <3> HIDE DEF n, end, one, zero
    <3>3. PlaceOf(f, end, one).word = (zero \div 26) + 1 /\ PlaceOf(f, end, one).bit = (zero % 26) + 1
      <4>1. n = 26 * Len(f) /\ end \in Nat /\ n \in Nat
        BY <1>2 DEF n, end
      <4>2. PlacedAt(PlaceOf(f, end, one), f, n, zero, end, one)
        BY <3>2, <4>1, PlaceAt
      <4> QED  BY <3>2, <4>2 DEF PlacedAt
    <3> QED  BY <3>3 DEF one, zero
  <2>3. (0 \div 26) + 1 = 1 /\ (0 % 26) + 1 = 1
    OBVIOUS
  <2> HIDE DEF end
  <2> QED  BY <1>4, <2>1, <2>2, <2>3
<1> QED BY <1>8, <1>9

-----------------------------------------------------------------------------
\* All that is heard but the noise before it comes from the frames that were sent.

Heard == Captured /\ noisy \in Nat /\ \E src : CarriedBy(air, ToSet(sent), noisy, src)

LEMMA MoreFrames ==
  ASSUME NEW bits, NEW F, NEW G, F \subseteq G, NEW z, NEW src, CarriedBy(bits, F, z, src)
  PROVE  CarriedBy(bits, G, z, src)
BY DEF CarriedBy, IsPlace

\* A payload after what was heard before.
LEMMA CarriedThen ==
  ASSUME NEW a \in Seq(Bits), NEW b \in Seq(Bits), NEW F, NEW z \in Nat, NEW src, NEW more,
         CarriedBy(a, F, z, src), CarriedBy(b, F, 0, more), more[1].word = 1, more[1].bit = 1
  PROVE  \E both : CarriedBy(a \o b, F, z, both)
<1> DEFINE c == a \o b
           both == [p \in 1..Len(c) |-> IF p <= Len(a) THEN src[p] ELSE more[p - Len(a)]]
<1>1. /\ Len(c) = Len(a) + Len(b)
      /\ \A p \in 1..(Len(a) + Len(b)) : c[p] = IF p <= Len(a) THEN a[p] ELSE b[p - Len(a)]
  BY ConcatProperties, Zenon
<1>2. Len(a) \in Nat /\ Len(b) \in Nat /\ Len(c) \in Nat
  BY <1>1
<1> HIDE DEF c
<1>3. \A p \in 1..Len(c) : both[p] = IF p <= Len(a) THEN src[p] ELSE more[p - Len(a)]
  OBVIOUS
<1> HIDE DEF both
<1>4. ASSUME NEW p \in 1..Len(c), p > z PROVE IsPlace(both[p], F) /\ c[p] = BitAt(both[p])
  <2>1. CASE p <= Len(a)
    <3>1. p \in 1..Len(a) /\ both[p] = src[p] /\ c[p] = a[p]
      BY <1>1, <1>2, <1>3, <2>1
    <3> QED  BY <1>4, <3>1 DEF CarriedBy
  <2>2. CASE ~(p <= Len(a))
    <3> DEFINE q == p - Len(a)
    <3>1. q \in 1..Len(b) /\ q > 0 /\ both[p] = more[q] /\ c[p] = b[q]
      BY <1>1, <1>2, <1>3, <2>2
    <3> HIDE DEF q
    <3> QED  BY <3>1 DEF CarriedBy
  <2> QED  BY <2>1, <2>2
<1>5. ASSUME NEW p \in 1..Len(c) - 1, p > z PROVE Follows(both[p], both[p + 1])
  <2>0. p \in 1..Len(c) /\ p + 1 \in 1..Len(c)
    BY <1>2
  <2>1. CASE p + 1 <= Len(a)
    <3>1. p \in 1..Len(a) - 1 /\ both[p] = src[p] /\ both[p + 1] = src[p + 1]
      BY <1>2, <1>3, <2>0, <2>1
    <3> QED  BY <1>5, <3>1 DEF CarriedBy
  <2>2. CASE p = Len(a)
    <3>1. both[p + 1] = more[1]
      <4>1. ~(p + 1 <= Len(a)) /\ (p + 1) - Len(a) = 1
        BY <1>2, <2>2
      <4> QED  BY <1>3, <2>0, <4>1
    <3> QED  BY <3>1 DEF Follows
  <2>3. CASE p > Len(a)
    <3> DEFINE q == p - Len(a)
    <3>1. /\ q \in 1..Len(b) - 1 /\ q > 0
          /\ ~(p <= Len(a)) /\ ~(p + 1 <= Len(a)) /\ (p + 1) - Len(a) = q + 1
      BY <1>1, <1>2, <2>0, <2>3
    <3>2. both[p] = more[q] /\ both[p + 1] = more[q + 1]
      BY <1>3, <2>0, <3>1
    <3> HIDE DEF q
    <3> QED  BY <3>1, <3>2 DEF CarriedBy
  <2> QED  BY <1>2, <2>0, <2>1, <2>2, <2>3
<1> QED BY <1>4, <1>5 DEF CarriedBy, c

\* Noise before it.
LEMMA CarriedAfterNoise ==
  ASSUME NEW a \in Seq(Bits), NEW noise \in Seq(Bits), NEW F, NEW z \in Nat, NEW src,
         CarriedBy(a, F, z, src)
  PROVE  \E later : CarriedBy(noise \o a, F, z + Len(noise), later)
<1> DEFINE c == noise \o a
           k == Len(noise)
           later == [p \in 1..Len(c) |-> src[p - k]]
<1>1. /\ Len(c) = k + Len(a)
      /\ \A p \in 1..(k + Len(a)) : c[p] = IF p <= k THEN noise[p] ELSE a[p - k]
  BY ConcatProperties, Zenon
<1>2. Len(a) \in Nat /\ k \in Nat /\ Len(c) \in Nat
  BY <1>1
<1> HIDE DEF c
<1>3. \A p \in 1..Len(c) : later[p] = src[p - k]
  OBVIOUS
<1> HIDE DEF later, k
<1>4. ASSUME NEW p \in 1..Len(c), p > z + k PROVE IsPlace(later[p], F) /\ c[p] = BitAt(later[p])
  <2> DEFINE q == p - k
  <2>1. q \in 1..Len(a) /\ q > z /\ later[p] = src[q] /\ c[p] = a[q]
    BY <1>1, <1>2, <1>3, <1>4
  <2> HIDE DEF q
  <2> QED  BY <2>1 DEF CarriedBy
<1>5. ASSUME NEW p \in 1..Len(c) - 1, p > z + k PROVE Follows(later[p], later[p + 1])
  <2> DEFINE q == p - k
  <2>1. p \in 1..Len(c) /\ p + 1 \in 1..Len(c) /\ (p + 1) - k = q + 1
    BY <1>2
  <2>2. q \in 1..Len(a) - 1 /\ q > z /\ later[p] = src[q] /\ later[p + 1] = src[q + 1]
    BY <1>1, <1>2, <1>3, <1>5, <2>1
  <2> HIDE DEF q
  <2> QED  BY <2>2 DEF CarriedBy
<1> QED BY <1>4, <1>5 DEF CarriedBy, c, k

\* A part of it.
LEMMA CarriedPart ==
  ASSUME NEW a \in Seq(Bits), NEW F, NEW z \in Nat, NEW src, CarriedBy(a, F, z, src),
         NEW n \in Nat, NEW m \in Nat, n <= m, m <= Len(a)
  PROVE  Less(z, n) \in Nat /\ \E part : CarriedBy(SubSeq(a, n + 1, m), F, Less(z, n), part)
<1> DEFINE c == SubSeq(a, n + 1, m)
           y == Less(z, n)
           part == [p \in 1..Len(c) |-> src[p + n]]
<1>1. Len(a) \in Nat /\ y \in Nat /\ z <= y + n
  BY DEF Less
<1>2. Len(c) = m - n /\ \A p \in 1..m - n : c[p] = a[p + n]
  <2>1. n + 1 \in Int /\ m \in Int /\ \A p \in (n + 1)..m : a[p] \in Bits
    BY <1>1
  <2>2. /\ Len(c) = IF n + 1 <= m THEN m - (n + 1) + 1 ELSE 0
        /\ \A p \in 1..(m - (n + 1) + 1) : c[p] = a[(n + 1) + p - 1]
    BY <2>1, SubSeqProperties
  <2>3. /\ (IF n + 1 <= m THEN m - (n + 1) + 1 ELSE 0) = m - n
        /\ \A p \in 1..m - n : p \in 1..(m - (n + 1) + 1) /\ (n + 1) + p - 1 = p + n
    OBVIOUS
  <2> HIDE DEF c
  <2> QED  BY <2>2, <2>3
<1> HIDE DEF c, y
<1>3. \A p \in 1..Len(c) : part[p] = src[p + n]
  OBVIOUS
<1> HIDE DEF part
<1>4. ASSUME NEW p \in 1..Len(c), p > y PROVE IsPlace(part[p], F) /\ c[p] = BitAt(part[p])
  <2> DEFINE q == p + n
  <2>1. q \in 1..Len(a) /\ q > z /\ part[p] = src[q] /\ c[p] = a[q]
    BY <1>1, <1>2, <1>3, <1>4
  <2> HIDE DEF q
  <2> QED  BY <2>1 DEF CarriedBy
<1>5. ASSUME NEW p \in 1..Len(c) - 1, p > y PROVE Follows(part[p], part[p + 1])
  <2> DEFINE q == p + n
  <2>1. p \in 1..Len(c) /\ p + 1 \in 1..Len(c) /\ (p + 1) + n = q + 1
    BY <1>2
  <2>2. q \in 1..Len(a) - 1 /\ q > z /\ part[p] = src[q] /\ part[p + 1] = src[q + 1]
    BY <1>1, <1>2, <1>3, <1>5, <2>1
  <2> HIDE DEF q
  <2> QED  BY <2>2 DEF CarriedBy
<1>6. CarriedBy(c, F, y, part)
  BY <1>4, <1>5 DEF CarriedBy
<1> QED BY <1>1, <1>6 DEF c, y

LEMMA HeardStart == ASSUME Init PROVE Heard
<1>1. \A src : CarriedBy(<<>>, {}, 0, src)
  BY DEF CarriedBy
<1>2. ToSet(sent) = {} /\ air = <<>> /\ noisy = 0
  BY DEF Init, ToSet
<1> QED BY <1>1, <1>2, CapturedStart DEF Heard

LEMMA HeardKept == ASSUME Heard, [Next]_vars PROVE Heard'
<1>1. sent \in Seq(Frames) /\ air \in Seq(Bits) /\ Len(air) \in Nat /\ noisy \in Nat
  BY DEF Heard, Captured
<1>2. Captured'
  BY CapturedKept DEF Heard
<1> PICK src : CarriedBy(air, ToSet(sent), noisy, src)
  BY DEF Heard
<1>4. ASSUME NEW f \in Frames, NEW payload \in Seq(Bits), NEW more, Transmit(f, payload),
             CarriedBy(payload, {f}, 0, more), more[1].word = 1, more[1].bit = 1
      PROVE  Heard'
  <2>1. ToSet(sent) \subseteq ToSet(sent') /\ {f} \subseteq ToSet(sent')
    <3>1. sent' = Append(sent, f) /\ Len(sent) \in Nat
      BY <1>1, <1>4 DEF Transmit
    <3>2. /\ Len(sent') = Len(sent) + 1 /\ sent'[Len(sent) + 1] = f
          /\ \A i \in 1..Len(sent) : sent'[i] = sent[i]
      BY <1>1, <3>1, AppendProperties
    <3>3. DOMAIN sent = 1..Len(sent) /\ DOMAIN sent' = 1..Len(sent')
      BY <1>1, <1>2 DEF Captured
    <3> QED  BY <3>1, <3>2, <3>3 DEF ToSet
  <2>2. /\ CarriedBy(air, ToSet(sent'), noisy, src) /\ CarriedBy(payload, ToSet(sent'), 0, more)
    BY <1>4, <2>1, MoreFrames
  <2>3. PICK both : CarriedBy(air \o payload, ToSet(sent'), noisy, both)
    BY <1>1, <1>4, <2>2, CarriedThen
  <2>4. air' = air \o payload /\ noisy' = noisy
    BY <1>4 DEF Transmit
  <2> QED  BY <1>1, <1>2, <2>3, <2>4 DEF Heard
<1>5. ASSUME NEW bits, NEW y \in Nat, Fault(bits, y), NEW other, CarriedBy(bits, ToSet(sent), y, other)
      PROVE  Heard'
  BY <1>2, <1>5 DEF Heard, Fault
<1>6. ASSUME NEW f \in Frames, TransmitRepeated(f) PROVE Heard'
  <2> DEFINE payload == build_repeated_air_payload(build_transmission_plan(f), Repeats)
  <2>1. \E more : CarriedBy(payload, {f}, 0, more) /\ more[1].word = 1 /\ more[1].bit = 1
    <3> DEFINE n == 26 * Len(f)
               k == Repeats - 1
               m == k * (n + 12)
    <3>1. k \in Nat
      BY WaveformAssumption
    <3>2. /\ payload \in Seq(Bits) /\ Len(payload) >= n + m
          /\ \A p \in 1..n : payload[p] = Encoded(f)[p]
          /\ \A p \in 1..m : LET x == (p - 1) % (n + 12)
                             IN payload[n + p] = IF x < 12 THEN 0 ELSE Encoded(f)[x - 11]
          /\ \A p \in n + m + 1..Len(payload) : payload[p] = 0
      BY RepeatedPayload
    <3> HIDE DEF payload, k
    <3> QED  BY <3>1, <3>2, PayloadIsCarried
  <2>2. payload \in Seq(Bits) /\ Transmit(f, payload)
    BY <1>6, RepeatedPayload DEF TransmitRepeated
  <2> HIDE DEF payload
  <2> QED  BY <1>4, <2>1, <2>2
<1>7. ASSUME NEW f \in Frames, TransmitOnce(f) PROVE Heard'
  <2> DEFINE payload == build_transmission_plan(f).air_payload
  <2>1. \E more : CarriedBy(payload, {f}, 0, more) /\ more[1].word = 1 /\ more[1].bit = 1
    <3> DEFINE n == 26 * Len(f)
               k == 0
               m == k * (n + 12)
    <3>1. m = 0 /\ Len(f) \in Nat
      BY FrameIs
    <3>2. /\ payload \in Seq(Bits) /\ Len(payload) >= n
          /\ \A p \in 1..n : payload[p] = Encoded(f)[p]
          /\ \A p \in n + 1..Len(payload) : payload[p] = 0
      BY FrameIs, EncodedIs
    <3> HIDE DEF payload
    <3>3. /\ Len(payload) >= n + m /\ k \in Nat
          /\ \A p \in 1..m : LET x == (p - 1) % (n + 12)
                             IN payload[n + p] = IF x < 12 THEN 0 ELSE Encoded(f)[x - 11]
          /\ \A p \in n + m + 1..Len(payload) : payload[p] = 0
      <4>1. n + m = n /\ n \in Nat
        BY <3>1
      <4> HIDE DEF m, n
      <4> QED  BY <3>1, <3>2, <4>1
    <3>4. /\ payload \in Seq(Bits) /\ Len(payload) >= n + m
          /\ \A p \in 1..n : payload[p] = Encoded(f)[p]
          /\ \A p \in 1..m : LET x == (p - 1) % (n + 12)
                             IN payload[n + p] = IF x < 12 THEN 0 ELSE Encoded(f)[x - 11]
          /\ \A p \in n + m + 1..Len(payload) : payload[p] = 0
      <4> HIDE DEF m, n
      <4> QED  BY <3>2, <3>3
    <3> HIDE DEF k
    <3> QED  BY <3>3, <3>4, PayloadIsCarried
  <2>2. payload \in Seq(Bits) /\ Transmit(f, payload)
    BY <1>7, FrameBitsAre, FrameIs, EncodedIs DEF TransmitOnce
  <2> HIDE DEF payload
  <2> QED  BY <1>4, <2>1, <2>2
<1>8. ASSUME NEW bits \in Noise, NoiseBefore(bits) PROVE Heard'
  <2>1. bits \in Seq(Bits) /\ Len(bits) \in Nat
    BY WaveformAssumption DEF Bits
  <2>2. \E later : CarriedBy(bits \o air, ToSet(sent), noisy + Len(bits), later)
    BY <1>1, <2>1, CarriedAfterNoise
  <2>3. Fault(bits \o air, noisy + Len(bits)) /\ noisy + Len(bits) \in Nat
    BY <1>1, <1>8, <2>1 DEF NoiseBefore
  <2> QED  BY <1>5, <2>2, <2>3
<1>9. ASSUME NEW n \in Losses, StartsLate(n) \/ EndsEarly(n) PROVE Heard'
  <2>1. n \in Nat /\ n < Len(air)
    BY <1>9, WaveformAssumption DEF StartsLate, EndsEarly
  <2>2. CASE StartsLate(n)
    <3>1. n <= Len(air) /\ Len(air) <= Len(air)
      BY <1>1, <2>1
    <3>2. /\ Less(noisy, n) \in Nat
          /\ \E part : CarriedBy(SubSeq(air, n + 1, Len(air)), ToSet(sent), Less(noisy, n), part)
      BY <1>1, <2>1, <3>1, CarriedPart
    <3>3. Fault(SubSeq(air, n + 1, Len(air)), Less(noisy, n))
      BY <2>2 DEF StartsLate
    <3> QED  BY <1>5, <3>2, <3>3
  <2>3. CASE EndsEarly(n)
    <3>1. 0 <= Len(air) - n /\ Len(air) - n <= Len(air) /\ Len(air) - n \in Nat /\ 0 + 1 = 1 /\ 0 \in Nat
      BY <1>1, <2>1
    <3>2. Less(noisy, 0) = noisy
      BY <1>1 DEF Less
    <3>3. \E part : CarriedBy(SubSeq(air, 0 + 1, Len(air) - n), ToSet(sent), noisy, part)
      <4>1. PICK m \in Nat, k \in Nat : m = Len(air) - n /\ k = 0 /\ k <= m /\ m <= Len(air)
        BY <3>1
      <4>2. PICK whole : CarriedBy(air, ToSet(sent), noisy, whole)
        BY <1>1
      <4>3. \E part : CarriedBy(SubSeq(air, k + 1, m), ToSet(sent), Less(noisy, k), part)
        BY <1>1, <4>1, <4>2, CarriedPart
      <4> QED  BY <3>2, <4>1, <4>3
    <3>4. Fault(SubSeq(air, 0 + 1, Len(air) - n), noisy)
      BY <2>3, <3>1 DEF EndsEarly
    <3> QED  BY <1>1, <1>5, <3>3, <3>4
  <2> QED  BY <1>9, <2>2, <2>3
<1>10. CASE UNCHANGED vars
  BY <1>1, <1>2, <1>10 DEF vars, Heard
<1> QED BY <1>6, <1>7, <1>8, <1>9, <1>10 DEF Next

-----------------------------------------------------------------------------
\* What stands on the air as a word was sent as that word.

\* The sync and the guards of a word, and the two bits of its other symbols.
WordShape(b, v, i) ==
  /\ \A q \in 1..26 : b[q] \in Bits
  /\ b[1] = 1 /\ b[2] = 1 /\ b[3] = 1 /\ b[4] = 0 /\ b[25] = 1 /\ b[26] = 0
  /\ \A k \in 3..12 : b[2 * k] = 1 - b[2 * k - 1]
  /\ \A k \in 1..9 : b[2 * k + 3] = word_bits(v, i)[k]
  /\ b[23] = Ones(word_bits(v, i)) % 2

BitsOfWord(v, i) == [q \in 1..26 |-> BitOfWord(word_symbols(v, i), q)]

LEMMA OnesOfWord ==
  ASSUME NEW w \in [1..9 -> Bits]
  PROVE  Ones(w) \in Nat /\ Ones(w) % 2 \in Bits
<1> DEFINE A == {i \in 1..9 : w[i] = 1}
<1>1. Ones(w) = Cardinality(A)
  BY DEF Ones
<1>2. IsFiniteSet(A)
  <2>1. IsFiniteSet(1..9)
    BY FS_Interval, 1 \in Int, 9 \in Int, Zenon
  <2>2. A \subseteq 1..9
    OBVIOUS
  <2> QED  BY <2>1, <2>2, FS_Subset
<1>3. Ones(w) \in Nat
  BY <1>1, <1>2, FS_CardinalityType
<1>4. \A n \in Nat : n % 2 \in {0, 1}
  OBVIOUS
<1> QED BY <1>3, <1>4 DEF Bits

LEMMA WordHasShape ==
  ASSUME NEW v \in Byte, NEW i \in Nat
  PROVE  WordShape(BitsOfWord(v, i), v, i)
<1> DEFINE w == word_bits(v, i)
           s == word_symbols(v, i)
           b == BitsOfWord(v, i)
<1>1. w \in [1..9 -> Bits] /\ Ones(w) % 2 \in Bits
  BY WordBits, OnesOfWord
<1>2. /\ s \in [1..13 -> Symbols] /\ s[1] = "S" /\ s[2] = "One" /\ s[13] = "One"
      /\ \A k \in 1..9 : s[k + 2] = BitSymbol(w[k])
      /\ s[12] = BitSymbol(Ones(w) % 2)
  BY WordSymbols DEF SYMBOLS_PER_WORD
<1>3. \A q \in 1..26 : b[q] = SYMBOL_TO_BITS[s[(q + 1) \div 2]][IF q % 2 = 1 THEN 1 ELSE 2]
  BY DEF BitsOfWord, BitOfWord
<1> HIDE DEF w, s, b
<1>4. \A k \in 1..13 : b[2 * k - 1] = SYMBOL_TO_BITS[s[k]][1] /\ b[2 * k] = SYMBOL_TO_BITS[s[k]][2]
  <2>1. TAKE k \in 1..13
  <2>2. /\ 2 * k - 1 \in 1..26 /\ 2 * k \in 1..26
        /\ ((2 * k - 1) + 1) \div 2 = k /\ (2 * k - 1) % 2 = 1
        /\ (2 * k + 1) \div 2 = k /\ ~((2 * k) % 2 = 1)
    OBVIOUS
  <2> QED  BY <1>3, <2>2
<1>5. \A t \in Bits : SYMBOL_TO_BITS[BitSymbol(t)][1] = t /\ SYMBOL_TO_BITS[BitSymbol(t)][2] = 1 - t
  <2>1. BitSymbol(1) = "One" /\ BitSymbol(0) = "Zero"
    BY DEF BitSymbol
  <2>2. \A t \in Bits : t = 0 \/ t = 1
    BY DEF Bits
  <2>3. 1 - 1 = 0 /\ 1 - 0 = 1
    OBVIOUS
  <2> QED  BY <2>1, <2>2, <2>3, SymbolBits
<1>6. \A k \in 3..12 : \E t \in Bits : s[k] = BitSymbol(t)
  <2>1. TAKE k \in 3..12
  <2>2. CASE k = 12
    BY <1>1, <1>2, <2>2
  <2>3. CASE k # 12
    <3>1. k - 2 \in 1..9 /\ (k - 2) + 2 = k
      BY <2>3
    <3> QED  BY <1>1, <1>2, <3>1
  <2> QED  BY <2>2, <2>3
<1>7. \A k \in 3..12 : b[2 * k - 1] \in Bits /\ b[2 * k] = 1 - b[2 * k - 1]
  <2>1. TAKE k \in 3..12
  <2>2. PICK t \in Bits : s[k] = BitSymbol(t)
    BY <1>6
  <2> QED  BY <1>4, <1>5, <2>2
<1>8. /\ b[1] = 1 /\ b[2] = 1 /\ b[3] = 1 /\ b[4] = 0 /\ b[25] = 1 /\ b[26] = 0
  <2>1. /\ 2 * 1 - 1 = 1 /\ 2 * 1 = 2 /\ 2 * 2 - 1 = 3 /\ 2 * 2 = 4
        /\ 2 * 13 - 1 = 25 /\ 2 * 13 = 26
    OBVIOUS
  <2>2. \A k \in {1, 2, 13} : b[2 * k - 1] = SYMBOL_TO_BITS[s[k]][1] /\ b[2 * k] = SYMBOL_TO_BITS[s[k]][2]
    BY <1>4
  <2>3. /\ b[1] = SYMBOL_TO_BITS[s[1]][1] /\ b[2] = SYMBOL_TO_BITS[s[1]][2]
        /\ b[3] = SYMBOL_TO_BITS[s[2]][1] /\ b[4] = SYMBOL_TO_BITS[s[2]][2]
        /\ b[25] = SYMBOL_TO_BITS[s[13]][1] /\ b[26] = SYMBOL_TO_BITS[s[13]][2]
    BY <2>1, <2>2
  <2> QED  BY <1>2, <2>3, SymbolBits
<1>9. \A q \in 1..26 : b[q] \in Bits
  <2>1. TAKE q \in 1..26
  <2>2. 0 \in Bits /\ 1 \in Bits /\ \A t \in Bits : 1 - t \in Bits
    BY DEF Bits
  <2>3. CASE q \in 5..24 /\ q % 2 = 1
    <3>1. \E k \in 3..12 : q = 2 * k - 1
      <4>1. (q + 1) \div 2 \in 3..12 /\ q = 2 * ((q + 1) \div 2) - 1
        BY <2>3
      <4> QED  BY <4>1
    <3> QED  BY <1>7, <3>1
  <2>4. CASE q \in 5..24 /\ q % 2 # 1
    <3>1. \E k \in 3..12 : q = 2 * k
      <4>1. q \div 2 \in 3..12 /\ q = 2 * (q \div 2)
        BY <2>4
      <4> QED  BY <4>1
    <3> QED  BY <1>7, <2>2, <3>1
  <2>5. CASE ~(q \in 5..24)
    <3>1. q \in {1, 2, 3, 4, 25, 26}
      BY <2>5
    <3> QED  BY <1>8, <2>2, <3>1
  <2> QED  BY <2>3, <2>4, <2>5
<1>10. \A k \in 1..9 : b[2 * k + 3] = w[k]
  <2>1. TAKE k \in 1..9
  <2>2. k + 2 \in 1..13 /\ 2 * (k + 2) - 1 = 2 * k + 3
    OBVIOUS
  <2> QED  BY <1>1, <1>2, <1>4, <1>5, <2>2
<1>11. b[23] = Ones(w) % 2
  <2>1. 12 \in 1..13 /\ 2 * 12 - 1 = 23
    OBVIOUS
  <2> QED  BY <1>1, <1>2, <1>4, <1>5, <2>1
<1> QED BY <1>7, <1>8, <1>9, <1>10, <1>11 DEF WordShape, w, b

\* Three ones in a row are the start of a word.
LEMMA OnlyOneSync ==
  ASSUME NEW v, NEW i, NEW b, WordShape(b, v, i), NEW q \in 2..24
  PROVE  ~(b[q] = 1 /\ b[q + 1] = 1 /\ b[q + 2] = 1)
<1>1. b[4] = 0 /\ b[26] = 0 /\ \A k \in 3..12 : b[2 * k] = 1 - b[2 * k - 1]
  BY DEF WordShape
<1>2. CASE q \in {2, 3, 4}
  <2>1. q = 4 \/ q + 1 = 4 \/ q + 2 = 4
    BY <1>2
  <2> QED  BY <1>1, <2>1
<1>3. CASE q = 24
  <2>1. q + 2 = 26
    BY <1>3
  <2> QED  BY <1>1, <2>1
<1>4. CASE q \in 5..23 /\ q % 2 = 1
  <2> DEFINE k == (q + 1) \div 2
  <2>1. k \in 3..12 /\ q = 2 * k - 1 /\ q + 1 = 2 * k
    BY <1>4
  <2> HIDE DEF k
  <2>2. b[2 * k] = 1 - b[2 * k - 1]
    BY <1>1, <2>1
  <2>3. b[q + 1] = 1 - b[q]
    BY <2>1, <2>2
  <2>4. b[q] = 1 => b[q + 1] = 0
    BY <2>3
  <2> QED  BY <2>4
<1>5. CASE q \in 5..23 /\ q % 2 # 1
  <2> DEFINE k == (q + 2) \div 2
  <2>1. k \in 3..12 /\ q + 1 = 2 * k - 1 /\ q + 2 = 2 * k
    BY <1>5
  <2> HIDE DEF k
  <2>2. b[2 * k] = 1 - b[2 * k - 1]
    BY <1>1, <2>1
  <2>3. b[q + 2] = 1 - b[q + 1]
    BY <2>1, <2>2
  <2>4. b[q + 1] = 1 => b[q + 2] = 0
    BY <2>3
  <2> QED  BY <2>4
<1> QED BY <1>2, <1>3, <1>4, <1>5

\* The parity symbol tells the first bit of a word from the others.
LEMMA ParityFixes ==
  ASSUME NEW w \in [1..9 -> Bits], NEW x \in [1..9 -> Bits],
         \A k \in 2..9 : w[k] = x[k], Ones(w) % 2 = Ones(x) % 2
  PROVE  w[1] = x[1]
<1> DEFINE T(y) == {i \in 1..9 : y[i] = 1}
           R == {i \in 2..9 : w[i] = 1}
<1>1. IsFiniteSet(R) /\ Cardinality(R) \in Nat /\ 1 \notin R
  <2>1. IsFiniteSet(2..9)
    BY FS_Interval, 2 \in Int, 9 \in Int, Zenon
  <2>2. R \subseteq 2..9 /\ 1 \notin R
    OBVIOUS
  <2> QED  BY <2>1, <2>2, FS_Subset, FS_CardinalityType
<1>2. \A y \in [1..9 -> Bits] : (\A k \in 2..9 : w[k] = y[k]) =>
        /\ y[1] = 1 => Ones(y) = Cardinality(R) + 1
        /\ y[1] # 1 => Ones(y) = Cardinality(R)
  <2>1. TAKE y \in [1..9 -> Bits]
  <2>2. HAVE \A k \in 2..9 : w[k] = y[k]
  <2>3. Ones(y) = Cardinality(T(y))
    BY DEF Ones
  <2>4. R = {i \in 2..9 : y[i] = 1}
    BY <2>2
  <2>5. y[1] = 1 => T(y) = R \cup {1}
    BY <2>4
  <2>6. y[1] # 1 => T(y) = R
    BY <2>4
  <2> HIDE DEF T, R
  <2>7. Cardinality(R \cup {1}) = Cardinality(R) + 1
    BY <1>1, FS_AddElement
  <2> QED  BY <2>3, <2>5, <2>6, <2>7
<1> HIDE DEF R
<1> DEFINE n == Cardinality(R)
<1>3. n \in Nat /\ n % 2 # (n + 1) % 2
  <2>1. n \in Nat
    BY <1>1
  <2> HIDE DEF n
  <2> QED  BY <2>1
<1>4. w[1] \in {0, 1} /\ x[1] \in {0, 1}
  BY DEF Bits
<1>5. /\ w[1] = 1 => Ones(w) = n + 1
      /\ w[1] # 1 => Ones(w) = n
      /\ x[1] = 1 => Ones(x) = n + 1
      /\ x[1] # 1 => Ones(x) = n
  BY <1>2
<1> HIDE DEF n
<1> QED BY <1>3, <1>4, <1>5

\* Words with the same bits are the same, but for their place, of which the bits
\* tell only whether it is the first.
LEMMA SameWord ==
  ASSUME NEW v \in Byte, NEW w \in Byte, NEW i \in Nat, NEW j \in Nat,
         \A k \in 1..9 : word_bits(v, i)[k] = word_bits(w, j)[k]
  PROVE  v = w /\ (i = 1 <=> j = 1)
<1>1. \A k \in 1..8 : BitOf(v, 8 - k) = BitOf(w, 8 - k)
  <2>1. TAKE k \in 1..8
  <2>2. k \in 1..9
    OBVIOUS
  <2> QED  BY <2>2, WordBits
<1>2. /\ BitOf(v, 7) = BitOf(w, 7) /\ BitOf(v, 6) = BitOf(w, 6)
      /\ BitOf(v, 5) = BitOf(w, 5) /\ BitOf(v, 4) = BitOf(w, 4)
      /\ BitOf(v, 3) = BitOf(w, 3) /\ BitOf(v, 2) = BitOf(w, 2)
      /\ BitOf(v, 1) = BitOf(w, 1) /\ BitOf(v, 0) = BitOf(w, 0)
  <2>1. /\ 8 - 1 = 7 /\ 8 - 2 = 6 /\ 8 - 3 = 5 /\ 8 - 4 = 4
        /\ 8 - 5 = 3 /\ 8 - 6 = 2 /\ 8 - 7 = 1 /\ 8 - 8 = 0
    OBVIOUS
  <2>2. \A k \in {1, 2, 3, 4, 5, 6, 7, 8} : BitOf(v, 8 - k) = BitOf(w, 8 - k)
    BY <1>1
  <2> QED  BY <2>1, <2>2
<1>3. v = w
  BY <1>2, ByteBits
<1>4. i = 1 <=> j = 1
  <2>1. 9 \in 1..9 /\ 1 # 0
    OBVIOUS
  <2>2. (IF i = 1 THEN 1 ELSE 0) = (IF j = 1 THEN 1 ELSE 0)
    BY <2>1, WordBits
  <2> QED  BY <2>1, <2>2
<1> QED BY <1>3, <1>4

At(a, f, i, q) == a.frame = f /\ a.word = i /\ a.bit = q

\* The bits behind the noise come from frames that may be sent.
FromFrames(bits, F, z, src) ==
  bits \in Seq(Bits) /\ F \subseteq Frames /\ z \in 0..7 /\ CarriedBy(bits, F, z, src)

LEMMA PlaceInWord ==
  ASSUME NEW F, F \subseteq Frames, NEW a, IsPlace(a, F), a.word # 0
  PROVE  /\ a.frame \in F /\ Len(a.frame) \in {7, 10} /\ a.word \in 1..Len(a.frame)
         /\ a.frame[a.word] \in Byte /\ a.bit \in 1..26
         /\ WordShape(BitsOfWord(a.frame[a.word], a.word), a.frame[a.word], a.word)
         /\ BitAt(a) = BitsOfWord(a.frame[a.word], a.word)[a.bit]
<1>1. a.frame \in F /\ a.word \in 0..Len(a.frame) /\ a.bit \in 1..26
  BY DEF IsPlace
<1>2. a.frame \in Frames /\ Len(a.frame) \in {7, 10}
  BY <1>1, FrameIs
<1>3. a.word \in 1..Len(a.frame) /\ a.word \in Nat
  BY <1>1, <1>2
<1>4. a.frame[a.word] \in Byte
  BY <1>2, <1>3, FrameIs
<1>5. WordShape(BitsOfWord(a.frame[a.word], a.word), a.frame[a.word], a.word)
  BY <1>3, <1>4, WordHasShape
<1>6. BitAt(a) = BitsOfWord(a.frame[a.word], a.word)[a.bit]
  BY <1>1 DEF BitAt, BitsOfWord
<1> QED BY <1>1, <1>2, <1>3, <1>4, <1>5, <1>6

\* What comes before a place within a word, and before a word but the first.
LEMMA Before ==
  ASSUME NEW F, F \subseteq Frames, NEW a, NEW b, IsPlace(a, F), Follows(a, b),
         NEW f, NEW i \in Nat \ {0}, NEW q \in Nat, At(b, f, i, q)
  PROVE  /\ q > 1 => At(a, f, i, q - 1)
         /\ q = 1 /\ i > 1 => At(a, f, i - 1, 26)
<1>1. b.bit = q /\ b.word = i /\ b.frame = f
  BY DEF At
<1>2. PICK p \in 1..26 : a.bit = p
  BY DEF IsPlace
<1>3. CASE a.word = 0
  BY <1>1, <1>3 DEF Follows
<1>4. CASE a.word # 0
  <2>1. PICK j \in Nat : a.word = j
    BY <1>4, PlaceInWord
  <2>2. ASSUME q > 1 PROVE At(a, f, i, q - 1)
    <3>1. q = p + 1 /\ a.word = i /\ a.frame = f
      BY <1>1, <1>2, <2>2 DEF Follows
    <3> QED  BY <1>2, <3>1 DEF At
  <2>3. ASSUME q = 1, i > 1 PROVE At(a, f, i - 1, 26)
    <3>1. p = 26 /\ i = j + 1 /\ a.frame = f
      BY <1>1, <1>2, <2>1, <2>3 DEF Follows
    <3> QED  BY <1>2, <2>1, <3>1 DEF At
  <2> QED  BY <2>2, <2>3
<1> QED BY <1>3, <1>4

\* What comes after a place within a word.
LEMMA After ==
  ASSUME NEW F, NEW a, NEW b, IsPlace(a, F), Follows(a, b), a.word # 0, a.bit # 26
  PROVE  At(b, a.frame, a.word, a.bit + 1) \/ (b.word = 1 /\ b.bit = 1)
BY DEF Follows, At, IsPlace

\* Within the sync of a first word there are only ones.
LEMMA InSync ==
  ASSUME NEW F, F \subseteq Frames, NEW a, NEW m \in 1..3, IsPlace(a, F), a.word = 1, a.bit \in 1..m
  PROVE  /\ BitAt(a) = 1
         /\ \A b : Follows(a, b) => b.word = 1 /\ b.bit \in 1..m + 1
<1>1. a.bit = 1 \/ a.bit = 2 \/ a.bit = 3
  OBVIOUS
<1>2. BitAt(a) = 1
  <2> DEFINE b == BitsOfWord(a.frame[a.word], a.word)
  <2>1. a.word # 0
    OBVIOUS
  <2>2. WordShape(b, a.frame[a.word], a.word) /\ BitAt(a) = b[a.bit]
    BY <2>1, PlaceInWord
  <2> HIDE DEF b
  <2>3. b[1] = 1 /\ b[2] = 1 /\ b[3] = 1
    BY <2>2 DEF WordShape
  <2> QED  BY <1>1, <2>2, <2>3
<1>3. ASSUME NEW b, Follows(a, b) PROVE b.word = 1 /\ b.bit \in 1..m + 1
  <2>1. At(b, a.frame, a.word, a.bit + 1) \/ (b.word = 1 /\ b.bit = 1)
    BY <1>1, <1>3, After
  <2> QED  BY <2>1 DEF At
<1> QED BY <1>2, <1>3

\* The places and bits behind the noise.
LEMMA Behind ==
  ASSUME NEW bits, NEW F, NEW z, NEW src, FromFrames(bits, F, z, src)
  PROVE  /\ Len(bits) \in Nat
         /\ \A p \in Nat : z < p /\ p <= Len(bits) => IsPlace(src[p], F) /\ bits[p] = BitAt(src[p])
         /\ \A p \in Nat : z < p /\ p + 1 <= Len(bits) => Follows(src[p], src[p + 1])
<1>1. Len(bits) \in Nat /\ z \in 0..7
  BY DEF FromFrames
<1>2. \A p \in Nat : z < p /\ p <= Len(bits) => p \in 1..Len(bits) /\ p > z
  BY <1>1
<1>3. \A p \in Nat : z < p /\ p + 1 <= Len(bits) => p \in 1..Len(bits) - 1 /\ p > z
  BY <1>1
<1> QED BY <1>1, <1>2, <1>3 DEF FromFrames, CarriedBy

\* Three ones wherever a burst begins.
LEMMA BurstBegins ==
  ASSUME NEW bits, NEW F, NEW z, NEW src, FromFrames(bits, F, z, src),
         NEW p \in Nat, z < p, p <= Len(bits), src[p].word = 1, src[p].bit = 1
  PROVE  /\ bits[p] = 1
         /\ p + 1 <= Len(bits) => bits[p + 1] = 1
         /\ p + 2 <= Len(bits) => bits[p + 2] = 1
<1>1. F \subseteq Frames /\ z \in 0..7 /\ Len(bits) \in Nat
  BY Behind DEF FromFrames
<1>2. IsPlace(src[p], F) /\ bits[p] = BitAt(src[p])
  BY Behind
<1>3. BitAt(src[p]) = 1 /\ \A b : Follows(src[p], b) => b.word = 1 /\ b.bit \in 1..2
  <2>1. 1 \in 1..3 /\ 1 \in 1..1 /\ 1 + 1 = 2
    OBVIOUS
  <2>2. \A b : Follows(src[p], b) => b.word = 1 /\ b.bit \in 1..1 + 1
    BY <1>1, <1>2, <2>1, InSync
  <2> QED  BY <1>1, <1>2, <2>1, <2>2, InSync
<1>4. ASSUME p + 1 <= Len(bits) PROVE bits[p + 1] = 1 /\ src[p + 1].word = 1 /\ src[p + 1].bit \in 1..2
  <2>1. IsPlace(src[p + 1], F) /\ bits[p + 1] = BitAt(src[p + 1]) /\ Follows(src[p], src[p + 1])
    BY <1>1, <1>4, Behind
  <2>2. src[p + 1].word = 1 /\ src[p + 1].bit \in 1..2
    BY <1>3, <2>1
  <2>3. 2 \in 1..3
    OBVIOUS
  <2>4. BitAt(src[p + 1]) = 1
    BY <1>1, <2>1, <2>2, <2>3, InSync
  <2> QED  BY <2>1, <2>2, <2>4
<1>5. ASSUME p + 2 <= Len(bits) PROVE bits[p + 2] = 1
  <2>1. p + 1 <= Len(bits) /\ p + 1 \in Nat /\ (p + 1) + 1 = p + 2 /\ p + 2 \in Nat
    BY <1>1, <1>5
  <2>2. /\ IsPlace(src[p + 1], F)
        /\ IsPlace(src[p + 2], F) /\ bits[p + 2] = BitAt(src[p + 2]) /\ Follows(src[p + 1], src[p + 2])
    BY <1>1, <1>5, <2>1, Behind
  <2>3. src[p + 2].word = 1 /\ src[p + 2].bit \in 1..3
    <3>1. 2 \in 1..3 /\ 2 + 1 = 3
      OBVIOUS
    <3>2. src[p + 2].word = 1 /\ src[p + 2].bit \in 1..2 + 1
      BY <1>1, <1>4, <2>1, <2>2, <3>1, InSync
    <3> QED  BY <3>1, <3>2
  <2>4. 3 \in 1..3
    OBVIOUS
  <2>5. BitAt(src[p + 2]) = 1
    BY <1>1, <2>2, <2>3, <2>4, InSync
  <2> QED  BY <2>2, <2>5
<1> QED BY <1>2, <1>3, <1>4, <1>5

\* Three ones and a zero are the sync and the start guard of one word.
LEMMA SyncPlaces ==
  ASSUME NEW F, F \subseteq Frames, NEW a, NEW c, NEW d, NEW e,
         IsPlace(e, F), IsPlace(d, F), IsPlace(c, F), IsPlace(a, F),
         BitAt(e) = 1, BitAt(d) = 1, BitAt(c) = 1, BitAt(a) = 0,
         Follows(e, d), Follows(d, c), Follows(c, a)
  PROVE  /\ a.word # 0 /\ a.bit = 4
         /\ At(e, a.frame, a.word, 1) /\ At(d, a.frame, a.word, 2) /\ At(c, a.frame, a.word, 3)
\* The zero is no gap.
<1>1. a.word # 0
  <2>1. c.word # 0
    BY DEF BitAt
  <2> DEFINE b == BitsOfWord(c.frame[c.word], c.word)
  <2>2. WordShape(b, c.frame[c.word], c.word) /\ BitAt(c) = b[c.bit]
    BY <2>1, PlaceInWord
  <2> HIDE DEF b
  <2>3. c.bit # 26
    BY <2>2 DEF WordShape
  <2> QED  BY <2>1, <2>3 DEF Follows
<1> DEFINE b == BitsOfWord(a.frame[a.word], a.word)
<1>2. /\ a.frame \in F /\ a.word \in 1..Len(a.frame) /\ a.frame[a.word] \in Byte /\ Len(a.frame) \in {7, 10}
      /\ a.bit \in 1..26 /\ b[a.bit] = 0 /\ WordShape(b, a.frame[a.word], a.word)
  BY <1>1, PlaceInWord
<1>3. \A x, q : IsPlace(x, F) /\ BitAt(x) = 1 /\ At(x, a.frame, a.word, q) => b[q] = 1
  <2>1. TAKE x, q
  <2>2. HAVE IsPlace(x, F) /\ BitAt(x) = 1 /\ At(x, a.frame, a.word, q)
  <2>3. x.word # 0 /\ x.word = a.word /\ x.frame = a.frame /\ x.bit = q
    BY <1>1, <2>2 DEF At
  <2>4. BitAt(x) = BitsOfWord(x.frame[x.word], x.word)[x.bit]
    BY <2>2, <2>3, PlaceInWord
  <2> QED  BY <2>2, <2>3, <2>4
<1>4. PICK n \in 1..26 : a.bit = n
  BY <1>2
<1>5. PICK f, i : a.frame = f /\ a.word = i
  OBVIOUS
<1>6. i \in Nat \ {0} /\ At(a, f, i, n) /\ b[n] = 0 /\ WordShape(b, f[i], i)
  BY <1>1, <1>2, <1>4, <1>5 DEF At
<1>7. \A x, q : IsPlace(x, F) /\ BitAt(x) = 1 /\ At(x, f, i, q) => b[q] = 1
  BY <1>3, <1>5
<1> HIDE DEF b
<1>8. b[1] = 1 /\ b[2] = 1 /\ b[3] = 1
  BY <1>6 DEF WordShape
\* Nor are the ones the sync of a burst.
<1>9. n > 1
  BY <1>6, <1>8
<1>10. At(c, f, i, n - 1) /\ b[n - 1] = 1 /\ n - 1 \in Nat
  <2>1. At(c, f, i, n - 1)
    BY <1>6, <1>9, Before
  <2> QED  BY <1>7, <2>1
<1>11. n > 2
  <2>1. b[2] # 0
    BY <1>8
  <2> QED  BY <1>6, <1>9, <2>1
<1>12. At(d, f, i, n - 2) /\ b[n - 2] = 1 /\ n - 2 \in Nat
  <2>1. n - 1 > 1 /\ (n - 1) - 1 = n - 2 /\ n - 2 \in Nat
    BY <1>11
  <2>2. At(d, f, i, (n - 1) - 1)
    BY <1>6, <1>10, <2>1, Before
  <2> QED  BY <1>7, <2>1, <2>2
<1>13. n > 3
  <2>1. b[3] # 0
    BY <1>8
  <2> QED  BY <1>6, <1>11, <2>1
<1>14. At(e, f, i, n - 3) /\ b[n - 3] = 1
  <2>1. n - 2 > 1 /\ (n - 2) - 1 = n - 3
    BY <1>13
  <2>2. At(e, f, i, (n - 2) - 1)
    BY <1>6, <1>12, <2>1, Before
  <2> QED  BY <1>7, <2>1, <2>2
<1>15. n = 4
  <2> DEFINE q == n - 3
  <2>1. q \in 1..23 /\ q + 1 = n - 2 /\ q + 2 = n - 1
    BY <1>13
  <2> HIDE DEF q
  <2>2. q \notin 2..24
    <3>1. b[q] = 1 /\ b[q + 1] = 1 /\ b[q + 2] = 1
      BY <1>10, <1>12, <1>14, <2>1 DEF q
    <3> QED  BY <1>6, <3>1, OnlyOneSync
  <2>3. q = 1
    BY <2>1, <2>2
  <2> QED  BY <2>3 DEF q
<1>16. n - 1 = 3 /\ n - 2 = 2 /\ n - 3 = 1
  BY <1>15
<1> QED BY <1>1, <1>4, <1>5, <1>10, <1>12, <1>14, <1>15, <1>16

LEMMA SyncIsGenuine ==
  ASSUME NEW bits, NEW F, NEW z, NEW src, FromFrames(bits, F, z, src),
         NEW s \in Nat, z <= s, s + 4 <= Len(bits),
         bits[s + 1] = 1, bits[s + 2] = 1, bits[s + 3] = 1, bits[s + 4] = 0
  PROVE  LET a == src[s + 4]
         IN /\ IsPlace(a, F) /\ a.word # 0 /\ a.bit = 4
            /\ At(src[s + 1], a.frame, a.word, 1) /\ At(src[s + 2], a.frame, a.word, 2)
            /\ At(src[s + 3], a.frame, a.word, 3)
<1>1. F \subseteq Frames /\ z \in 0..7 /\ Len(bits) \in Nat
  BY Behind DEF FromFrames
<1>2. \A q \in 1..4 : s + q \in Nat /\ z < s + q /\ s + q <= Len(bits)
  BY <1>1
<1>3. \A q \in 1..4 : IsPlace(src[s + q], F) /\ bits[s + q] = BitAt(src[s + q])
  BY <1>2, Behind
<1>4. \A q \in 1..3 : Follows(src[s + q], src[s + (q + 1)])
  <2>1. \A q \in 1..3 : s + q \in Nat /\ z < s + q /\ (s + q) + 1 <= Len(bits) /\ (s + q) + 1 = s + (q + 1)
    BY <1>1
  <2> QED  BY <2>1, Behind
<1>5. /\ IsPlace(src[s + 1], F) /\ IsPlace(src[s + 2], F) /\ IsPlace(src[s + 3], F) /\ IsPlace(src[s + 4], F)
      /\ BitAt(src[s + 1]) = 1 /\ BitAt(src[s + 2]) = 1 /\ BitAt(src[s + 3]) = 1 /\ BitAt(src[s + 4]) = 0
  BY <1>3
<1>6. /\ Follows(src[s + 1], src[s + 2]) /\ Follows(src[s + 2], src[s + 3])
      /\ Follows(src[s + 3], src[s + 4])
  <2>1. 1 + 1 = 2 /\ 2 + 1 = 3 /\ 3 + 1 = 4
    OBVIOUS
  <2> QED  BY <1>4, <2>1
<1> QED BY <1>1, <1>5, <1>6, SyncPlaces

\* The first n bits of word w at index j stand behind offset s.
WordStands(bits, s, n, w, j) ==
  /\ s + n <= Len(bits) /\ w \in Byte /\ j \in Nat \ {0}
  /\ \A q \in 1..n : bits[s + q] = BitsOfWord(w, j)[q]

\* The first m bits of the word come from word i of f.
ComesFrom(src, s, m, w, j, f, i) ==
  \A q \in 1..m : At(src[s + q], f, i, q) /\ BitsOfWord(w, j)[q] = BitsOfWord(f[i], i)[q]

\* A word that stands behind the noise was sent as the word it is read as.
LEMMA WordsPlaces ==
  ASSUME NEW bits, NEW F, NEW z, NEW src, FromFrames(bits, F, z, src),
         NEW s \in Nat, z <= s, NEW n \in {25, 26}, NEW w, NEW j, WordStands(bits, s, n, w, j)
  PROVE  \E f \in F, i \in Nat \ {0} :
           /\ i <= Len(f) /\ f[i] \in Byte
           /\ ComesFrom(src, s, IF n = 26 THEN 26 ELSE 23, w, j, f, i)
<1> DEFINE b == BitsOfWord(w, j)
           m == IF n = 26 THEN 26 ELSE 23
<1>1. F \subseteq Frames /\ z \in 0..7 /\ Len(bits) \in Nat
  BY Behind DEF FromFrames
<1>2. WordShape(b, w, j) /\ s + n <= Len(bits) /\ \A q \in 1..n : bits[s + q] = b[q]
  BY WordHasShape DEF WordStands
<1> HIDE DEF b
<1>3. m \in {23, 26} /\ m <= n /\ (n = 25 => m = 23)
  OBVIOUS
<1> HIDE DEF m
<1>4. /\ b[1] = 1 /\ b[2] = 1 /\ b[3] = 1 /\ b[4] = 0 /\ b[25] = 1 /\ b[26] = 0
  BY <1>2 DEF WordShape
<1>5. /\ bits[s + 1] = 1 /\ bits[s + 2] = 1 /\ bits[s + 3] = 1 /\ bits[s + 4] = 0
      /\ s + 4 <= Len(bits)
  <2>1. 1 \in 1..n /\ 2 \in 1..n /\ 3 \in 1..n /\ 4 \in 1..n /\ s + 4 <= s + n
    OBVIOUS
  <2>2. s + 4 <= Len(bits)
    BY <1>1, <1>2, <2>1
  <2> QED  BY <1>2, <1>4, <2>1, <2>2
<1> DEFINE a == src[s + 4]
<1>6. /\ IsPlace(a, F) /\ a.word # 0 /\ a.bit = 4
      /\ At(src[s + 1], a.frame, a.word, 1) /\ At(src[s + 2], a.frame, a.word, 2)
      /\ At(src[s + 3], a.frame, a.word, 3)
  BY <1>5, SyncIsGenuine
<1>7. PICK f \in F, i \in Nat \ {0} : a.frame = f /\ a.word = i /\ i <= Len(f) /\ f[i] \in Byte
  <2>1. /\ a.frame \in F /\ Len(a.frame) \in {7, 10} /\ a.word \in 1..Len(a.frame)
        /\ a.frame[a.word] \in Byte
    BY <1>1, <1>6, PlaceInWord
  <2>2. a.word \in Nat \ {0} /\ a.word <= Len(a.frame)
    BY <2>1
  <2> QED  BY <2>1, <2>2
<1>8. \A q \in 1..4 : At(src[s + q], f, i, q)
  <2>1. At(a, f, i, 4)
    BY <1>6, <1>7 DEF At
  <2>2. \A q \in 1..4 : q \in {1, 2, 3, 4}
    OBVIOUS
  <2> QED  BY <1>6, <1>7, <2>1, <2>2
<1> HIDE DEF a
<1>9. \A q \in 1..n : s + q \in Nat /\ z < s + q /\ s + q <= Len(bits)
  BY <1>1, <1>2
<1>10. \A q \in 1..m : At(src[s + q], f, i, q)
  <2> DEFINE T == {q \in 1..m : ~At(src[s + q], f, i, q)}
  <2>1. SUFFICES ASSUME T # {} PROVE FALSE
    OBVIOUS
  <2>2. T \in SUBSET Nat
    BY <1>3
  <2>3. PICK q \in T : \A r \in T : ~(r < q)
    BY <2>1, <2>2, LeastNumber
  <2>4. q \in 5..m /\ q - 1 \in 1..m /\ q - 1 \in 4..25
    BY <1>3, <1>8, <2>3
  <2>5. At(src[s + (q - 1)], f, i, q - 1)
    <3>1. q - 1 \notin T
      BY <2>3, <2>4
    <3> QED  BY <2>4, <3>1
  <2>6. ~At(src[s + q], f, i, q)
    BY <2>3
  <2> HIDE DEF T
  <2>7. src[s + q].word = 1 /\ src[s + q].bit = 1
    <3> DEFINE x == src[s + (q - 1)]
               y == src[s + q]
    <3>1. IsPlace(x, F) /\ Follows(x, y)
      <4>1. s + (q - 1) \in Nat /\ z < s + (q - 1) /\ (s + (q - 1)) + 1 = s + q /\ s + q <= Len(bits)
        BY <1>1, <1>2, <1>3, <2>4
      <4>2. s + (q - 1) <= Len(bits)
        BY <1>1, <4>1
      <4> QED  BY <4>1, <4>2, Behind
    <3>2. x.frame = f /\ x.word = i /\ x.bit = q - 1 /\ x.word # 0 /\ x.bit # 26
      BY <2>4, <2>5 DEF At
    <3>3. (q - 1) + 1 = q
      BY <2>4
    <3> HIDE DEF x, y
    <3>4. At(y, f, i, q) \/ (y.word = 1 /\ y.bit = 1)
      BY <3>1, <3>2, <3>3, After
    <3> QED  BY <2>6, <3>4 DEF y
  <2>8. /\ bits[s + q] = 1
        /\ (s + q) + 1 <= Len(bits) => bits[(s + q) + 1] = 1
        /\ (s + q) + 2 <= Len(bits) => bits[(s + q) + 2] = 1
    <3>1. s + q \in Nat /\ z < s + q /\ s + q <= Len(bits)
      BY <1>1, <1>2, <1>3, <2>4
    <3> QED  BY <2>7, <3>1, BurstBegins
  <2>9. /\ b[q] = 1
        /\ q + 1 <= n => b[q + 1] = 1
        /\ q + 2 <= n => b[q + 2] = 1
    <3>1. /\ q \in 1..n
          /\ q + 1 <= n => q + 1 \in 1..n /\ (s + q) + 1 = s + (q + 1) /\ s + (q + 1) <= Len(bits)
          /\ q + 2 <= n => q + 2 \in 1..n /\ (s + q) + 2 = s + (q + 2) /\ s + (q + 2) <= Len(bits)
      <4>1. s \in Nat /\ q \in Nat /\ q >= 1 /\ n \in Nat /\ q <= n /\ Len(bits) \in Nat /\ s + n <= Len(bits)
        BY <1>1, <1>2, <1>3, <2>4
      <4> QED  BY <4>1
    <3> QED  BY <1>2, <2>8, <3>1
  <2>10. CASE q + 2 <= n
    <3>1. q \in 2..24
      BY <2>4, <2>10
    <3>2. b[q] = 1 /\ b[q + 1] = 1 /\ b[q + 2] = 1
      <4>1. q + 1 <= n
        BY <2>4, <2>10
      <4> QED  BY <2>9, <2>10, <4>1
    <3>3. WordShape(b, w, j)
      BY <1>2
    <3> QED  BY <3>1, <3>2, <3>3, OnlyOneSync, Zenon
  <2>11. CASE ~(q + 2 <= n)
    <3>1. n = 26 /\ (q = 25 \/ q = 26)
      BY <1>3, <2>4, <2>11
    <3>2. q = 25 => q + 1 <= n /\ q + 1 = 26
      BY <3>1
    <3> QED  BY <1>4, <2>9, <3>1, <3>2
  <2> QED  BY <2>10, <2>11
<1>11. \A q \in 1..m : b[q] = BitsOfWord(f[i], i)[q]
  <2>1. TAKE q \in 1..m
  <2>2. q \in 1..n /\ At(src[s + q], f, i, q)
    BY <1>3, <1>10
  <2>3. IsPlace(src[s + q], F) /\ bits[s + q] = BitAt(src[s + q])
    <3>1. s + q \in Nat /\ z < s + q /\ s + q <= Len(bits)
      BY <1>9, <2>2
    <3> QED  BY <3>1, Behind
  <2>4. src[s + q].frame = f /\ src[s + q].word = i /\ src[s + q].bit = q /\ i # 0
    BY <2>2 DEF At
  <2>5. BitAt(src[s + q]) = BitsOfWord(f[i], i)[q]
    BY <1>1, <2>3, <2>4, PlaceInWord
  <2> QED  BY <1>2, <2>2, <2>3, <2>5
<1> QED BY <1>7, <1>10, <1>11 DEF m, b, ComesFrom

LEMMA WordSent ==
  ASSUME NEW bits, NEW F, NEW z, NEW src, FromFrames(bits, F, z, src),
         NEW s \in Nat, z <= s, NEW n \in {25, 26}, NEW w, NEW j, WordStands(bits, s, n, w, j)
  PROVE  \E f \in F, i \in Nat \ {0} :
           /\ i <= Len(f) /\ w = f[i] /\ (i = 1 <=> j = 1)
           /\ At(src[s + 1], f, i, 1) /\ (n = 26 => At(src[s + 26], f, i, 26))
<1>1. PICK f \in F, i \in Nat \ {0} :
           /\ i <= Len(f) /\ f[i] \in Byte
           /\ ComesFrom(src, s, IF n = 26 THEN 26 ELSE 23, w, j, f, i)
  BY WordsPlaces
<1>2. w \in Byte /\ j \in Nat
  BY DEF WordStands
<1> DEFINE b == BitsOfWord(w, j)
           c == BitsOfWord(f[i], i)
<1>3. WordShape(b, w, j) /\ WordShape(c, f[i], i)
  BY <1>1, <1>2, WordHasShape
<1>4. \A q \in 1..23 : b[q] = c[q]
  BY <1>1 DEF ComesFrom
<1>5. At(src[s + 1], f, i, 1) /\ (n = 26 => At(src[s + 26], f, i, 26))
  BY <1>1 DEF ComesFrom
<1> HIDE DEF b, c
<1>6. \A k \in 1..9 : word_bits(w, j)[k] = word_bits(f[i], i)[k]
  <2>1. TAKE k \in 1..9
  <2>2. 2 * k + 3 \in 1..23
    OBVIOUS
  <2>3. b[2 * k + 3] = word_bits(w, j)[k] /\ c[2 * k + 3] = word_bits(f[i], i)[k]
    BY <1>3 DEF WordShape
  <2> QED  BY <1>4, <2>2, <2>3
<1>7. w = f[i] /\ (i = 1 <=> j = 1)
  <2>1. f[i] \in Byte /\ i \in Nat
    BY <1>1
  <2> QED  BY <1>2, <1>6, <2>1, SameWord
<1> QED BY <1>1, <1>5, <1>7

\* From the end of a word back to its first bit behind the noise.
LEMMA BackInWord ==
  ASSUME NEW bits, NEW F, NEW z, NEW src, FromFrames(bits, F, z, src),
         NEW o \in Nat, o + 26 <= Len(bits), NEW f, NEW i \in Nat \ {0}, At(src[o + 26], f, i, 26),
         NEW r \in 1..26, z < o + r
  PROVE  At(src[o + r], f, i, r)
<1>1. F \subseteq Frames /\ z \in 0..7 /\ Len(bits) \in Nat
  BY Behind DEF FromFrames
<1> DEFINE T == {t \in 0..25 : z < o + (26 - t) /\ ~At(src[o + (26 - t)], f, i, 26 - t)}
<1>2. ASSUME T # {} PROVE FALSE
  <2>1. T \in SUBSET Nat
    <3>1. T \subseteq 0..25 /\ 0..25 \subseteq Nat
      OBVIOUS
    <3> HIDE DEF T
    <3> QED  BY <3>1
  <2>2. PICK t \in T : \A u \in T : ~(u < t)
    BY <1>2, <2>1, LeastNumber
  <2>3. t \in 0..25 /\ z < o + (26 - t) /\ ~At(src[o + (26 - t)], f, i, 26 - t)
    BY <2>2
  <2>4. t # 0
    <3>1. t = 0 => 26 - t = 26
      OBVIOUS
    <3> QED  BY <2>3, <3>1
  <2> DEFINE q == 26 - (t - 1)
  <2>5. /\ t - 1 \in 0..25 /\ t - 1 < t /\ z < o + q /\ q \in 2..26 /\ q - 1 = 26 - t
    BY <1>1, <2>3, <2>4
  <2>6. At(src[o + q], f, i, q)
    <3>1. t - 1 \notin T
      BY <2>2, <2>5
    <3> QED  BY <2>5, <3>1
  <2> HIDE DEF T, q
  <2>7. /\ IsPlace(src[o + (q - 1)], F) /\ IsPlace(src[o + q], F)
        /\ Follows(src[o + (q - 1)], src[o + q])
    <3>1. /\ o + (q - 1) \in Nat /\ z < o + (q - 1) /\ (o + (q - 1)) + 1 = o + q
          /\ o + q \in Nat /\ z < o + q /\ o + q <= Len(bits) /\ o + (q - 1) <= Len(bits)
      BY <1>1, <2>3, <2>5
    <3> QED  BY <3>1, Behind
  <2>8. At(src[o + (q - 1)], f, i, q - 1)
    <3>1. q \in Nat /\ q > 1
      BY <2>5
    <3> QED  BY <1>1, <2>6, <2>7, <3>1, Before
  <2> QED  BY <2>3, <2>5, <2>8
<1>3. 26 - r \in 0..25 /\ 26 - (26 - r) = r
  OBVIOUS
<1> QED BY <1>2, <1>3

\* The first word of what stands on the air, of which up to seven bits may be noise,
\* is the first of a frame: its parity and its guard leave no other choice.
LEMMA FirstWordSent ==
  ASSUME NEW bits, NEW F, NEW z, NEW src, FromFrames(bits, F, z, src),
         NEW o \in Nat, NEW n \in {25, 26}, NEW w, NEW x,
         WordStands(bits, o, 26, w, 1), WordStands(bits, o + 26, n, x, 2)
  PROVE  \E f \in F : 1 <= Len(f) /\ w = f[1] /\ At(src[o + 26], f, 1, 26)
<1>1. F \subseteq Frames /\ z \in 0..7 /\ Len(bits) \in Nat
  BY Behind DEF FromFrames
<1>2. CASE z <= o
  <2>1. PICK f \in F, i \in Nat \ {0} :
           /\ i <= Len(f) /\ w = f[i] /\ (i = 1 <=> 1 = 1)
           /\ At(src[o + 1], f, i, 1) /\ (26 = 26 => At(src[o + 26], f, i, 26))
    BY <1>2, WordSent
  <2> QED  BY <2>1
<1>3. CASE ~(z <= o)
  <2>1. z <= o + 26 /\ o + 26 \in Nat /\ (o + 26) + 1 = o + 27
    BY <1>1
  <2>2. PICK f \in F, h \in Nat \ {0} :
           /\ h <= Len(f) /\ x = f[h] /\ (h = 1 <=> 2 = 1)
           /\ At(src[(o + 26) + 1], f, h, 1)
    BY <2>1, WordSent
  <2>3. h \in Nat \ {0} /\ h > 1 /\ At(src[o + 27], f, h, 1)
    BY <2>1, <2>2
  <2> DEFINE i == h - 1
  <2>4. i \in Nat \ {0} /\ i <= Len(f) /\ Len(f) \in Nat /\ f[i] \in Byte
    <3>1. Len(f) \in Nat /\ f \in Frames
      BY <1>1, FrameIs
    <3>2. i \in 1..Len(f)
      BY <2>2, <2>3, <3>1
    <3> HIDE DEF i
    <3> QED  BY <3>1, <3>2, FrameIs
\* Back to the last bit of the first word, and from there to the noise.
  <2>5. o + 27 <= Len(bits) /\ o + 26 <= Len(bits)
    <3>1. (o + 26) + n <= Len(bits) /\ n >= 25
      BY DEF WordStands
    <3> QED  BY <1>1, <3>1
  <2>6. At(src[o + 26], f, i, 26)
    <3>1. /\ IsPlace(src[o + 26], F) /\ IsPlace(src[o + 27], F)
          /\ Follows(src[o + 26], src[o + 27])
      <4>1. /\ o + 26 \in Nat /\ o + 27 \in Nat /\ z < o + 26 /\ z < o + 27 /\ (o + 26) + 1 = o + 27
        BY <1>1
      <4> QED  BY <2>5, <4>1, Behind
    <3>2. 1 \in Nat /\ 1 = 1
      OBVIOUS
    <3> QED  BY <1>1, <2>3, <3>1, <3>2, Before
  <2> HIDE DEF i
  <2> DEFINE b == BitsOfWord(w, 1)
             c == BitsOfWord(f[i], i)
  <2>7. w \in Byte /\ \A q \in 1..26 : bits[o + q] = b[q]
    BY DEF WordStands
  <2>8. WordShape(b, w, 1) /\ WordShape(c, f[i], i)
    BY <2>4, <2>7, WordHasShape
  <2>9. \A q \in 8..26 : b[q] = c[q]
    <3>1. TAKE q \in 8..26
    <3>2. q \in 1..26 /\ z < o + q /\ o + q \in Nat /\ o + q <= Len(bits)
      BY <1>1, <2>5
    <3>3. At(src[o + q], f, i, q)
      BY <2>4, <2>5, <2>6, <3>2, BackInWord
    <3>4. IsPlace(src[o + q], F) /\ bits[o + q] = BitAt(src[o + q])
      BY <3>2, Behind
    <3>5. src[o + q].frame = f /\ src[o + q].word = i /\ src[o + q].bit = q /\ i # 0
      BY <2>4, <3>3 DEF At
    <3>6. BitAt(src[o + q]) = c[q]
      BY <1>1, <3>4, <3>5, PlaceInWord
    <3> QED  BY <2>7, <3>2, <3>4, <3>6
  <2> HIDE DEF b, c
  <2>10. b[7] = c[7]
    <3>1. 4 \in 3..12 /\ 2 * 4 = 8 /\ 2 * 4 - 1 = 7 /\ 7 \in 1..26 /\ 8 \in 8..26
      OBVIOUS
    <3>2. b[8] = 1 - b[7] /\ c[8] = 1 - c[7] /\ b[7] \in Bits /\ c[7] \in Bits
      BY <2>8, <3>1 DEF WordShape
    <3> QED  BY <2>9, <3>1, <3>2 DEF Bits
  <2> DEFINE u == word_bits(w, 1)
             v == word_bits(f[i], i)
  <2>11. u \in [1..9 -> Bits] /\ v \in [1..9 -> Bits]
    BY <2>4, <2>7, WordBits
  <2>12. /\ \A k \in 1..9 : b[2 * k + 3] = u[k] /\ c[2 * k + 3] = v[k]
         /\ b[23] = Ones(u) % 2 /\ c[23] = Ones(v) % 2
    BY <2>8 DEF WordShape
  <2> HIDE DEF u, v
  <2>13. \A k \in 2..9 : u[k] = v[k]
    <3>1. TAKE k \in 2..9
    <3>2. k \in 1..9 /\ (2 * k + 3 = 7 \/ 2 * k + 3 \in 8..26)
      OBVIOUS
    <3>3. b[2 * k + 3] = c[2 * k + 3]
      BY <2>9, <2>10, <3>2
    <3> QED  BY <2>12, <3>2, <3>3
  <2>14. Ones(u) % 2 = Ones(v) % 2
    <3>1. 23 \in 8..26
      OBVIOUS
    <3> QED  BY <2>9, <2>12, <3>1
  <2>15. u[1] = v[1]
    BY <2>11, <2>13, <2>14, ParityFixes
  <2>16. \A k \in 1..9 : u[k] = v[k]
    <3>1. \A k \in 1..9 : k = 1 \/ k \in 2..9
      OBVIOUS
    <3> QED  BY <2>13, <2>15, <3>1
  <2>17. w = f[i] /\ (1 = 1 <=> i = 1)
    <3>1. 1 \in Nat /\ i \in Nat
      BY <2>4
    <3>2. \A k \in 1..9 : word_bits(w, 1)[k] = word_bits(f[i], i)[k]
      BY <2>16 DEF u, v
    <3>3. f[i] \in Byte /\ w \in Byte
      BY <2>4, <2>7
    <3> QED  BY <3>1, <3>2, <3>3, SameWord
  <2> QED  BY <2>4, <2>6, <2>17
<1> QED BY <1>2, <1>3

\* The first n bits that the words are sent with stand behind offset o: of the last
\* word the last bit may be missing.
WordsStand(bits, o, n, words) ==
  \A j \in 1..Len(words) :
    WordStands(bits, o + 26 * (j - 1), IF 26 * j <= n THEN 26 ELSE 25, words[j], j)

\* The words begin the frame f; the place of the last bit, when it is there.
BeginFrame(src, o, n, words, f) ==
  /\ Len(words) <= Len(f) /\ \A j \in 1..Len(words) : words[j] = f[j]
  /\ n = 26 * Len(words) => At(src[o + n], f, Len(words), 26)

\* Words that stand on the air are those that a frame was sent with, or begins with.
LEMMA WordsSent ==
  ASSUME NEW bits, NEW F, NEW z, NEW src, FromFrames(bits, F, z, src),
         NEW o \in Nat, NEW words \in Seq(Byte), Len(words) >= 2,
         NEW n \in {26 * Len(words) - 1, 26 * Len(words)}, WordsStand(bits, o, n, words)
  PROVE  \E f \in F : BeginFrame(src, o, n, words, f)
<1> DEFINE L == Len(words)
           len(j) == IF 26 * j <= n THEN 26 ELSE 25
<1>1. F \subseteq Frames /\ z \in 0..7 /\ Len(bits) \in Nat /\ L \in Nat /\ L >= 2
  BY Behind DEF FromFrames
<1>2. \A j \in 1..L : WordStands(bits, o + 26 * (j - 1), len(j), words[j], j)
  BY DEF WordsStand
<1>3. /\ \A j \in 1..L : len(j) \in {25, 26}
      /\ \A j \in 1..L - 1 : len(j) = 26
      /\ n = 26 * L => len(L) = 26
  BY <1>1
<1> HIDE DEF L, len
<1>4. PICK f \in F : 1 <= Len(f) /\ words[1] = f[1] /\ At(src[o + 26], f, 1, 26)
  <2>1. 1 \in 1..L - 1 /\ 2 \in 1..L /\ 1 \in 1..L /\ o + 26 * (1 - 1) = o /\ o + 26 * (2 - 1) = o + 26
    BY <1>1
  <2>2. WordStands(bits, o, 26, words[1], 1) /\ WordStands(bits, o + 26, len(2), words[2], 2) /\ len(2) \in {25, 26}
    BY <1>2, <1>3, <2>1
  <2> QED  BY <2>2, FirstWordSent
<1>5. Len(f) \in Nat
  BY <1>1, FrameIs
<1> DEFINE Good(j) == /\ j <= Len(f) /\ words[j] = f[j]
                      /\ len(j) = 26 => At(src[o + 26 * (j - 1) + 26], f, j, 26)
           T == {j \in 1..L : ~Good(j)}
<1>6. ASSUME T # {} PROVE FALSE
  <2>1. T \in SUBSET Nat /\ T \subseteq 1..L
    <3>1. T \subseteq 1..L /\ 1..L \subseteq Nat
      OBVIOUS
    <3> HIDE DEF T
    <3> QED  BY <3>1
  <2>2. PICK j \in T : \A m \in T : ~(m < j)
    BY <1>6, <2>1, LeastNumber
  <2>3. j \in 1..L /\ ~Good(j)
    BY <2>2
  <2>4. j # 1
    <3>1. Good(1)
      <4>1. o + 26 * (1 - 1) + 26 = o + 26
        OBVIOUS
      <4> QED  BY <1>4, <4>1
    <3> QED  BY <2>3, <3>1
  <2> DEFINE s == o + 26 * (j - 1)
             h == j - 1
  <2>5. /\ h \in 1..L - 1 /\ h \in 1..L /\ h < j /\ s \in Nat /\ z <= s /\ z < s
        /\ o + 26 * (h - 1) + 26 = s /\ j = h + 1
    BY <1>1, <2>3, <2>4
  <2>6. Good(h)
    BY <2>2, <2>5
  <2>7. h <= Len(f) /\ At(src[s], f, h, 26)
    BY <1>3, <2>5, <2>6
  <2>8. o + 26 * (j - 1) = s
    OBVIOUS
  <2> HIDE DEF T, s, h
  <2>9. WordStands(bits, s, len(j), words[j], j) /\ len(j) \in {25, 26}
    BY <1>2, <1>3, <2>3, <2>8
  <2>10. PICK g \in F, i \in Nat \ {0} :
           /\ i <= Len(g) /\ words[j] = g[i] /\ (i = 1 <=> j = 1)
           /\ At(src[s + 1], g, i, 1) /\ (len(j) = 26 => At(src[s + 26], g, i, 26))
    BY <2>5, <2>9, WordSent
\* What precedes a word but the first is the word before it.
  <2>11. At(src[s], g, i - 1, 26)
    <3>1. IsPlace(src[s], F) /\ IsPlace(src[s + 1], F) /\ Follows(src[s], src[s + 1])
      <4>1. s + 1 \in Nat /\ z < s + 1 /\ s + 1 <= Len(bits) /\ s <= Len(bits)
        <5>1. s + len(j) <= Len(bits) /\ len(j) >= 1
          BY <2>9 DEF WordStands
        <5> QED  BY <1>1, <2>5, <2>9, <5>1
      <4> QED  BY <2>5, <4>1, Behind
    <3>2. i > 1 /\ 1 \in Nat
      BY <2>4, <2>10
    <3> QED  BY <1>1, <2>10, <3>1, <3>2, Before
  <2>12. g = f /\ i - 1 = h
    BY <2>7, <2>11 DEF At
  <2>13. g = f /\ i = j
    BY <2>3, <2>5, <2>10, <2>12
  <2> QED  BY <2>3, <2>8, <2>10, <2>13
<1>7. \A j \in 1..L : Good(j)
  BY <1>6
<1> HIDE DEF T, Good
<1>8. L \in 1..L
  BY <1>1
<1>9. L <= Len(f) /\ \A j \in 1..L : words[j] = f[j]
  BY <1>7, <1>8 DEF Good
<1>10. n = 26 * L => At(src[o + n], f, L, 26)
  <2>1. o + 26 * (L - 1) + 26 = o + 26 * L
    BY <1>1
  <2> QED  BY <1>3, <1>7, <1>8, <2>1 DEF Good
<1> QED BY <1>9, <1>10 DEF L, BeginFrame

LEMMA OnAirStands ==
  ASSUME NEW words \in Seq(Byte), NEW o \in Nat, NEW n \in {26 * Len(words) - 1, 26 * Len(words)},
         StandsOnAir(words, o, n), air \in Seq(Bits)
  PROVE  WordsStand(air, o, n, words)
<1>1. Len(words) \in Nat /\ Len(air) \in Nat /\ o + n <= Len(air)
  BY DEF StandsOnAir
<1>2. ASSUME NEW j \in 1..Len(words)
      PROVE  WordStands(air, o + 26 * (j - 1), IF 26 * j <= n THEN 26 ELSE 25, words[j], j)
  <2> DEFINE m == IF 26 * j <= n THEN 26 ELSE 25
             b == 26 * (j - 1)
  <2>1. m \in 1..26 /\ b + m <= n /\ b \in Nat /\ j \in Nat \ {0} /\ words[j] \in Byte
    BY <1>1
  <2>2. ASSUME NEW q \in 1..m PROVE air[(o + b) + q] = BitsOfWord(words[j], j)[q]
    <3>1. q \in 1..26 /\ b + q \in 1..n /\ (o + b) + q = o + (b + q)
      BY <1>1, <2>1
    <3>2. air[o + (b + q)] = Encoded(words)[b + q]
      BY <3>1 DEF StandsOnAir
    <3>3. Encoded(words)[b + q] = BitOfWord(word_symbols(words[j], j), q)
      BY <3>1, EncodedBit
    <3> QED  BY <3>1, <3>2, <3>3 DEF BitsOfWord
  <2>3. (o + b) + m <= Len(air)
    BY <1>1, <2>1
  <2> HIDE DEF m
  <2>4. WordStands(air, o + b, m, words[j], j)
    BY <2>1, <2>2, <2>3 DEF WordStands
  <2> QED  BY <2>4 DEF m
<1> QED BY <1>2 DEF WordsStand

\* A zero behind the last bit of a word tells that the frame ends with it.
LEMMA EndsWithZero ==
  ASSUME NEW F, F \subseteq Frames, NEW a, NEW b, IsPlace(a, F), IsPlace(b, F), Follows(a, b),
         BitAt(b) = 0, NEW f \in F, NEW i \in Nat \ {0}, At(a, f, i, 26)
  PROVE  i = Len(f)
<1>1. a.frame = f /\ a.word = i /\ a.bit = 26 /\ a.word # 0
  BY DEF At
<1>2. ASSUME b.word # 0, b.bit = 1 PROVE FALSE
  <2> DEFINE c == BitsOfWord(b.frame[b.word], b.word)
  <2>1. WordShape(c, b.frame[b.word], b.word) /\ BitAt(b) = c[b.bit]
    BY <1>2, PlaceInWord
  <2> HIDE DEF c
  <2>2. c[1] = 1
    BY <2>1 DEF WordShape
  <2> QED  BY <1>2, <2>1, <2>2
<1>3. ~(b.word = 1 /\ b.bit = 1)
  <2>1. 1 # 0
    OBVIOUS
  <2> QED  BY <1>2, <2>1
<1>4. ~(b.word = i + 1 /\ b.bit = 1)
  <2>1. i + 1 # 0
    OBVIOUS
  <2> QED  BY <1>2, <2>1
<1> QED BY <1>1, <1>3, <1>4 DEF Follows

\* The words are those of f, or its first seven; only f itself ends with a zero.
SentAs(words, o, n, f) ==
  /\ words = f \/ (words = SubSeq(f, 1, 7) /\ Len(f) = 10)
  /\ n = 26 * Len(words) /\ Zeros(air, o + n, 1) => words = f

\* What stands on the air is a frame that was sent or the beginning of one; a zero
\* behind it leaves the frame itself.
LEMMA OnAirIsSent ==
  ASSUME Heard, noisy \in 0..7, NEW words \in Seq(Byte), NEW L \in {7, 10}, Len(words) = L, NEW o \in Nat,
         NEW n \in {26 * L - 1, 26 * L}, StandsOnAir(words, o, n)
  PROVE  \E f \in ToSet(sent) : SentAs(words, o, n, f)
<1>1. sent \in Seq(Frames) /\ air \in Seq(Bits) /\ ToSet(sent) \subseteq Frames
  <2>1. sent \in Seq(Frames) /\ air \in Seq(Bits)
    BY DEF Heard, Captured
  <2> QED  BY <2>1 DEF ToSet
<1> DEFINE F == ToSet(sent)
<1>0. L \in Nat \ {0} /\ L >= 2 /\ Len(words) >= 2 /\ n \in Nat /\ n >= 181
  OBVIOUS
<1>2. PICK z \in 0..7 : z = noisy
  OBVIOUS
<1>3. PICK src : CarriedBy(air, F, z, src)
  BY <1>2 DEF Heard
<1>4. FromFrames(air, F, z, src)
  BY <1>1, <1>3 DEF FromFrames
<1>5. WordsStand(air, o, n, words)
  BY <1>1, OnAirStands
<1> HIDE DEF F
<1>6. PICK f \in F : /\ L <= Len(f) /\ \A j \in 1..L : words[j] = f[j]
                     /\ n = 26 * L => At(src[o + n], f, L, 26)
  <2>1. n \in {26 * Len(words) - 1, 26 * Len(words)}
    OBVIOUS
  <2>2. \E f \in F : BeginFrame(src, o, n, words, f)
    BY <1>0, <1>4, <1>5, <2>1, WordsSent
  <2> QED  BY <2>2 DEF BeginFrame
<1>7. f \in Seq(Byte) /\ (Len(f) = 7 \/ Len(f) = 10) /\ (L = 7 \/ L = 10)
  BY <1>1, FrameIs DEF F
<1>8. L = Len(f) => words = f
  BY <1>6, <1>7
<1>9. L # Len(f) => words = SubSeq(f, 1, 7) /\ Len(f) = 10
  <2>1. ASSUME L # Len(f) PROVE L = 7 /\ Len(f) = 10
    BY <1>6, <1>7, <2>1
  <2>2. ASSUME L # Len(f) PROVE words = SubSeq(f, 1, 7)
    <3>1. SubSeq(f, 1, 7) = [j \in 1..7 |-> f[j]]
      BY <1>7, <2>1, <2>2
    <3>2. words = [j \in 1..7 |-> words[j]]
      BY <2>1, <2>2
    <3> QED  BY <1>6, <2>1, <2>2, <3>1, <3>2
  <2> QED  BY <2>1, <2>2
<1>10. ASSUME n = 26 * L, Zeros(air, o + n, 1) PROVE L = Len(f)
  <2>1. Len(air) \in Nat /\ o + n \in Nat /\ z < o + n /\ (o + n) + 1 <= Len(air) /\ o + n <= Len(air)
    <3>1. (o + n) + 1 <= Len(air) /\ Len(air) \in Nat
      BY <1>1, <1>10 DEF Zeros
    <3> QED  BY <1>0, <3>1
  <2>2. air[(o + n) + 1] = 0
    BY <2>1, <1>10 DEF Zeros
  <2>3. /\ IsPlace(src[o + n], F) /\ IsPlace(src[(o + n) + 1], F) /\ Follows(src[o + n], src[(o + n) + 1])
        /\ air[(o + n) + 1] = BitAt(src[(o + n) + 1])
    <3>1. (o + n) + 1 \in Nat /\ z < (o + n) + 1
      BY <2>1
    <3> QED  BY <1>4, <2>1, <3>1, Behind
  <2>4. At(src[o + n], f, L, 26) /\ L \in Nat \ {0} /\ F \subseteq Frames
    <3>1. F \subseteq Frames
      BY <1>1 DEF F
    <3> QED  BY <1>0, <1>6, <1>10, <3>1
  <2> QED  BY <2>2, <2>3, <2>4, EndsWithZero
<1>11. SentAs(words, o, n, f)
  BY <1>8, <1>9, <1>10 DEF SentAs
<1> QED BY <1>6, <1>11 DEF F

\* The numbers of CutInSeventhWord.
LEMMA CutShown ==
  ASSUME NEW f, Len(f) = 10, Len(air) >= 181,
         \A p \in 1..181 : air[(Len(air) - 181) + p] = FrameBits[f][p]
  PROVE  CutInSeventhWord(f)
<1>1. WORD_BITS * PROFLAME_WORD_COUNT - 1 = 181 /\ EXTENDED_WORD_COUNT = 10
  BY DEF WORD_BITS, SYMBOLS_PER_WORD, PROFLAME_WORD_COUNT, EXTENDED_WORD_COUNT
<1> DEFINE n == WORD_BITS * PROFLAME_WORD_COUNT - 1
           reads == \A p \in 1..n : air[(Len(air) - n) + p] = FrameBits[f][p]
<1>2. CutInSeventhWord(f) = (Len(f) = EXTENDED_WORD_COUNT /\ Len(air) >= n /\ reads)
  BY Zenon DEF CutInSeventhWord
<1>3. n = 181
  BY <1>1
<1> HIDE DEF n
<1>4. Len(air) >= n /\ reads
  BY <1>3
<1> QED BY <1>1, <1>2, <1>4

LEMMA HeardIsTruthful == ASSUME Heard PROVE DecodersAreTruthful
<1>1. Captured /\ air \in Seq(Bits)
  BY DEF Heard, Captured
<1>2. PulsesKeepTheRow
  BY <1>1, PulsesAreRuns
<1>3. \A p \in Nat, k \in {8, 10, 18} : Zeros(air, p, k) => Zeros(air, p, 1)
  <2>1. Len(air) \in Nat
    BY <1>1
  <2> QED  BY <2>1 DEF Zeros
<1>4. ASSUME noisy \in 0..7, NEW c \in find_proflame_candidates(air) PROVE c.words \in ToSet(sent)
  <2>1. /\ c.words \in Seq(Byte) /\ Len(c.words) = 7 /\ c.offset \in Nat
        /\ StandsOnAir(c.words, c.offset, 182) /\ Zeros(air, c.offset + 182, 8)
    BY <1>1, ScannedIsOnAir
  <2>2. Zeros(air, c.offset + 182, 1)
    BY <1>3, <2>1
  <2> DEFINE L == 7
             n == 182
  <2>3. L \in {7, 10} /\ n \in {26 * L - 1, 26 * L} /\ n = 26 * L
    OBVIOUS
  <2>4. Len(c.words) = L /\ StandsOnAir(c.words, c.offset, n) /\ Zeros(air, c.offset + n, 1)
    BY <2>1, <2>2
  <2> HIDE DEF L, n
  <2>5. \E f \in ToSet(sent) : SentAs(c.words, c.offset, n, f)
    BY <1>4, <2>1, <2>3, <2>4, OnAirIsSent
  <2> QED  BY <2>3, <2>4, <2>5 DEF SentAs
<1>5. ASSUME noisy \in 0..7, NEW words \in find_proflame_pcm_candidates(air)
      PROVE  \/ words \in ToSet(sent)
             \/ \E f \in ToSet(sent) : CutInSeventhWord(f) /\ words = SubSeq(f, 1, 7)
  <2> DEFINE m == 26 * Len(words)
  <2>1. RowStands(words)
    BY <1>1, PulsedIsOnAir
  <2>2. words \in Seq(Byte) /\ Len(words) \in {7, 10}
    BY <2>1 DEF RowStands, extended_frame_integrity_matches
  <2>3. PICK o \in Nat :
          \/ StandsOnAir(words, o, m) /\ Zeros(air, o + m, IF Len(words) = 7 THEN 18 ELSE 10)
          \/ o + m = Len(air) + 1 /\ StandsOnAir(words, o, m - 1)
    BY <2>1 DEF RowStands
  <2>4. PICK L \in {7, 10} : Len(words) = L
    BY <2>2
  <2>5. CASE StandsOnAir(words, o, m) /\ Zeros(air, o + m, IF Len(words) = 7 THEN 18 ELSE 10)
    <3>1. PICK n \in {26 * L - 1, 26 * L} : n = 26 * L
      OBVIOUS
    <3>2. n = m /\ n = 26 * Len(words)
      BY <2>4, <3>1
    <3>3. \E f \in ToSet(sent) : SentAs(words, o, n, f)
      BY <1>5, <2>2, <2>4, <2>5, <3>2, OnAirIsSent
    <3>4. Zeros(air, o + n, 1)
      BY <1>1, <1>3, <2>5, <3>2 DEF Zeros
    <3> QED  BY <3>2, <3>3, <3>4 DEF SentAs
  <2>6. CASE o + m = Len(air) + 1 /\ StandsOnAir(words, o, m - 1)
    <3>1. PICK n \in {26 * L - 1, 26 * L} : n = 26 * L - 1
      OBVIOUS
    <3>2. n = m - 1
      BY <2>4, <3>1
    <3>3. PICK f \in ToSet(sent) : SentAs(words, o, n, f)
      BY <1>5, <2>2, <2>4, <2>6, <3>2, OnAirIsSent
    <3>4. ASSUME words = SubSeq(f, 1, 7), Len(f) = 10 PROVE CutInSeventhWord(f)
      <4>1. f \in Frames /\ f \in Seq(Byte)
        BY <1>1, FrameIs DEF Captured, ToSet
      <4>2. words = [j \in 1..7 |-> f[j]] /\ Len(words) = 7
        BY <3>4, <4>1
      <4>3. n = 181 /\ o + 182 = Len(air) + 1 /\ Len(air) \in Nat /\ StandsOnAir(words, o, 181)
        BY <1>1, <2>6, <3>2, <4>2
      <4>4. ASSUME NEW p \in 1..181 PROVE air[o + p] = FrameBits[f][p]
        <5>1. air[o + p] = Encoded(words)[p] /\ FrameBits[f] = Encoded(f)
          BY <4>1, <4>3 DEF StandsOnAir, FrameBits, Encoded
        <5>2. PICK j \in 1..7, q \in 1..26 : p = 26 * (j - 1) + q
          <6>1. ((p - 1) \div 26) + 1 \in 1..7 /\ ((p - 1) % 26) + 1 \in 1..26
                /\ p = 26 * ((((p - 1) \div 26) + 1) - 1) + (((p - 1) % 26) + 1)
            OBVIOUS
          <6> QED  BY <6>1
        <5>3. Encoded(words)[p] = BitOfWord(word_symbols(words[j], j), q)
          BY <2>2, <4>2, <5>2, EncodedBit
        <5>4. Encoded(f)[p] = BitOfWord(word_symbols(f[j], j), q)
          <6>1. j \in 1..Len(f)
            BY <3>4, <5>2
          <6> QED  BY <4>1, <5>2, <6>1, EncodedBit
        <5> QED  BY <4>2, <5>1, <5>3, <5>4
      <4>5. Len(air) >= 181 /\ Len(air) - 181 = o
        BY <4>3
      <4>6. \A p \in 1..181 : air[(Len(air) - 181) + p] = FrameBits[f][p]
        BY <4>4, <4>5
      <4> QED  BY <3>4, <4>5, <4>6, CutShown
    <3> QED  BY <3>3, <3>4 DEF SentAs
  <2> QED  BY <2>3, <2>5, <2>6
<1>6. noisy < UNDETECTED_NOISE => noisy \in 0..7
  BY DEF Heard, UNDETECTED_NOISE
<1> QED BY <1>2, <1>4, <1>5, <1>6 DEF DecodersAreTruthful, PROFLAME_WORD_COUNT

\* No decoder makes a frame up, whatever the frames are, however often and with how
\* many repeats they are sent, wherever the capture is cut and whatever noise comes
\* before it: with less noise than the parity of a word can tell, what is decoded is
\* a frame that was sent, but for the row that ends one bit short of the seventh word
\* of a ten-word one; a row of pulses is rebuilt as it was (find_proflame_candidates,
\* find_proflame_pcm_candidates, pulse_durations_to_bits).
THEOREM TruthfulDecoders == Spec => []DecodersAreTruthful
<1>1. Heard /\ [Next]_vars => Heard'
  BY HeardKept
<1>2. Heard => DecodersAreTruthful
  BY HeardIsTruthful
<1> QED BY <1>1, <1>2, HeardStart, PTL DEF Spec

=============================================================================
