------------------------ MODULE MidiRoundTripProofs ------------------------
(***************************************************************************)
(* Proofs about MidiRoundTrip and SysexTransfer, for every cable, whatever *)
(* operations it carries and data of any bytes: each send function causes  *)
(* the call of its callback with its arguments, no call is lost, and data  *)
(* that were encoded and sent are decoded to what they were.               *)
(*                                                                         *)
(* Causes says which calls a sequence of bytes makes a listener in a given *)
(* state owe; what each operation sends causes the call it promises, and   *)
(* what is underway and what is due are related by Causes in every state.  *)
(***************************************************************************)
EXTENDS SysexTransfer, MidiParserProofs, WellFoundedInduction

-----------------------------------------------------------------------------
(* sysex_decode undoes sysex_encode, for every sequence of bytes whose     *)
(* encoded length fits into a uint16_t: 8191 groups of seven bytes and one *)
(* of six, where the index arithmetic of full groups and of the last one   *)
(* meet.                                                                   *)
Byte == 0 .. 255

-----------------------------------------------------------------------------
(* Arithmetic. *)

(* Groups of seven and of eight. *)
LEMMA BySeven ==
    ASSUME NEW n \in Nat
    PROVE  /\ n \div 7 \in Nat /\ n % 7 \in 0 .. 6
           /\ n = 7 * (n \div 7) + (n % 7)
  OBVIOUS

LEMMA ByEight ==
    ASSUME NEW q \in Nat, NEW r \in 0 .. 7
    PROVE  (8 * q + r) \div 8 = q /\ (8 * q + r) % 8 = r
  OBVIOUS

LEMMA NoOverflow == ASSUME NEW n \in Nat, n <= 65535 PROVE n % 65536 = n
  OBVIOUS

(* The length of the encoded bytes: one more for each group begun.         *)
LEMMA EncodedLength ==
    ASSUME NEW l \in Nat, l <= 57343
    PROVE  sysex_encoded_length(l) =
               8 * (l \div 7) + (IF l % 7 = 0 THEN 0 ELSE (l % 7) + 1)
<1>1. PICK q \in Nat, r \in 0 .. 6 : l = 7 * q + r /\ l \div 7 = q /\ l % 7 = r
  BY BySeven
<1>2. sysex_encoded_length(l) = (8 * q + (IF r = 0 THEN 0 ELSE r + 1)) % 65536
  BY <1>1 DEF sysex_encoded_length, LengthRange
<1>3. CASE r = 0
  <2>1. 8 * q \in Nat /\ 8 * q <= 65535
    BY <1>1
  <2> QED  BY <1>1, <1>2, <1>3, <2>1, NoOverflow
<1>4. CASE r # 0
  <2>1. 8 * q + (r + 1) \in Nat /\ 8 * q + (r + 1) <= 65535
    BY <1>1
  <2> QED  BY <1>1, <1>2, <1>4, <2>1, NoOverflow
<1> QED  BY <1>3, <1>4

LEMMA DecodedLength ==
    ASSUME NEW l \in Nat, l <= 57343
    PROVE  sysex_decoded_length(sysex_encoded_length(l)) = l
<1> DEFINE q == l \div 7
           r == l % 7
           m == sysex_encoded_length(l)
<1>1. q \in Nat /\ r \in 0 .. 6 /\ l = 7 * q + r
  BY BySeven
<1>2. m = 8 * q + (IF r = 0 THEN 0 ELSE r + 1)
  BY EncodedLength
<1> HIDE DEF q, r, m
<1>3. CASE r = 0
  <2>1. m \div 8 = q /\ m % 8 = 0
    BY <1>1, <1>2, <1>3, ByEight
  <2>2. sysex_decoded_length(m) = l
    BY <1>1, <1>3, <2>1 DEF sysex_decoded_length
  <2> QED  BY <2>2 DEF m
<1>4. CASE r # 0
  <2>1. m \div 8 = q /\ m % 8 = r + 1
    BY <1>1, <1>2, <1>4, ByEight
  <2>2. sysex_decoded_length(m) = l
    BY <1>1, <1>4, <2>1 DEF sysex_decoded_length
  <2> QED  BY <2>2 DEF m
<1> QED  BY <1>3, <1>4

(* Where byte n of the data stands, and its group's top bits.              *)
LEMMA Places ==
    ASSUME NEW l \in Nat, l <= 57343, NEW n \in 1 .. l
    PROVE  LET i == (n - 1) \div 7
               j == (n - 1) % 7 IN
           /\ i \in Nat /\ j \in 0 .. 6 /\ n = 7 * i + j + 1
           /\ i * 8 + j + 2 \in 1 .. sysex_encoded_length(l)
           /\ i * 8 + 1 \in 1 .. sysex_encoded_length(l)
<1> DEFINE i == (n - 1) \div 7
           j == (n - 1) % 7
<1>1. i \in Nat /\ j \in 0 .. 6 /\ n = 7 * i + j + 1
  BY BySeven
<1> DEFINE q == l \div 7
           r == l % 7
           m == sysex_encoded_length(l)
<1>2. q \in Nat /\ r \in 0 .. 6 /\ l = 7 * q + r
  BY BySeven
<1>3. m = 8 * q + (IF r = 0 THEN 0 ELSE r + 1)
  BY EncodedLength
<1> HIDE DEF q, r, m, i, j
<1>4. 7 * i + j < 7 * q + r
  BY <1>1, <1>2
<1>5. i < q \/ (i = q /\ j < r)
  BY <1>1, <1>2, <1>4
<1>6. i * 8 + j + 2 \in 1 .. m /\ i * 8 + 1 \in 1 .. m
  BY <1>1, <1>2, <1>3, <1>5
<1> QED  BY <1>1, <1>6 DEF m, i, j

-----------------------------------------------------------------------------
(* Bits. *)

(* A byte, its top bit and the others.                                     *)
LEMMA TopAndRest ==
    ASSUME NEW x \in Byte
    PROVE  /\ x \div 128 \in 0 .. 1
           /\ ((x % 128) % 128) + 128 * (x \div 128) = x
  BY DEF Byte

LEMMA Weights ==
    /\ 2 ^ (6 - 0) = 64 /\ 2 ^ (6 - 1) = 32 /\ 2 ^ (6 - 2) = 16 /\ 2 ^ (6 - 3) = 8
    /\ 2 ^ (6 - 4) = 4 /\ 2 ^ (6 - 5) = 2 /\ 2 ^ (6 - 6) = 1
  OBVIOUS

(* The bits collected for a group are the top bits of its bytes.           *)
LEMMA TopBitsHold ==
    ASSUME NEW source \in Seq(Byte), NEW n \in 1 .. Len(source),
           NEW i \in Nat, NEW j \in 0 .. 6, n = 7 * i + j + 1
    PROVE  BitOf(TopBits(source, i), j) = 128 * (source[n] \div 128)
<1> DEFINE top == [k \in 0 .. 6 |->
                      IF i * 7 + k < Len(source) THEN source[i * 7 + k + 1] \div 128 ELSE 0]
<1>1. ASSUME NEW k \in 0 .. 6
      PROVE  /\ top[k] \in 0 .. 1
             /\ i * 7 + k < Len(source) => TopBit(source, i, k) = top[k] * 2 ^ (6 - k)
             /\ ~(i * 7 + k < Len(source)) => top[k] = 0 /\ TopBit(source, i, k) = 0
  <2>1. CASE i * 7 + k < Len(source)
    <3>1. i * 7 + k + 1 \in 1 .. Len(source)
      BY <2>1, LenProperties
    <3>2. source[i * 7 + k + 1] \div 128 \in 0 .. 1
      BY <3>1, ElementOfSeq, TopAndRest
    <3> QED  BY <2>1, <3>2 DEF TopBit
  <2>2. CASE ~(i * 7 + k < Len(source))
    BY <2>2 DEF TopBit
  <2> QED  BY <2>1, <2>2
<1>2. top[j] = source[n] \div 128
  <2>1. i * 7 + j + 1 = n /\ i * 7 + j < Len(source)
    BY LenProperties
  <2> QED  BY <2>1
<1> HIDE DEF top
<1>3. ASSUME NEW k \in 0 .. 6, NEW w \in Nat, 2 ^ (6 - k) = w
      PROVE  TopBit(source, i, k) = top[k] * w
  <2>1. CASE i * 7 + k < Len(source)
    BY <1>1, <1>3, <2>1
  <2>2. CASE ~(i * 7 + k < Len(source))
    <3>1. top[k] = 0 /\ TopBit(source, i, k) = 0
      BY <1>1, <2>2, Zenon
    <3>2. 0 * w = 0
      OBVIOUS
    <3> QED  BY <3>1, <3>2
  <2> QED  BY <2>1, <2>2
<1>4. PICK a \in 0 .. 1, b \in 0 .. 1, c \in 0 .. 1, d \in 0 .. 1 :
          a = top[0] /\ b = top[1] /\ c = top[2] /\ d = top[3]
  <2>1. top[0] \in 0 .. 1 /\ top[1] \in 0 .. 1 /\ top[2] \in 0 .. 1 /\ top[3] \in 0 .. 1
    <3>1. \A k \in 0 .. 6 : top[k] \in 0 .. 1
      BY <1>1
    <3> QED  BY <3>1
  <2> QED  BY <2>1, Zenon
<1>5. PICK e \in 0 .. 1, f \in 0 .. 1, g \in 0 .. 1 : e = top[4] /\ f = top[5] /\ g = top[6]
  <2>1. top[4] \in 0 .. 1 /\ top[5] \in 0 .. 1 /\ top[6] \in 0 .. 1
    <3>1. \A k \in 0 .. 6 : top[k] \in 0 .. 1
      BY <1>1
    <3> QED  BY <3>1
  <2> QED  BY <2>1, Zenon
<1> DEFINE x == a * 64 + b * 32 + c * 16 + d * 8 + e * 4 + f * 2 + g
<1>6. TopBits(source, i) = x
  <2>1. /\ TopBit(source, i, 0) = a * 64 /\ TopBit(source, i, 1) = b * 32
        /\ TopBit(source, i, 2) = c * 16
    BY <1>3, <1>4, Weights
  <2>2. TopBit(source, i, 3) = d * 8 /\ TopBit(source, i, 4) = e * 4
    BY <1>3, <1>4, <1>5, Weights
  <2>3. TopBit(source, i, 5) = f * 2 /\ TopBit(source, i, 6) = g * 1
    BY <1>3, <1>5, Weights
  <2>4. /\ a * 64 \in Int /\ b * 32 \in Int /\ c * 16 \in Int /\ d * 8 \in Int
        /\ e * 4 \in Int /\ f * 2 \in Int /\ g * 1 = g
    OBVIOUS
  <2> QED  BY <2>1, <2>2, <2>3, <2>4, SMTT(60) DEF TopBits
<1>7. (x \div 64) % 2 = a /\ (x \div 32) % 2 = b
  OBVIOUS
<1>8. (x \div 16) % 2 = c /\ (x \div 8) % 2 = d
  OBVIOUS
<1>9. (x \div 4) % 2 = e /\ (x \div 2) % 2 = f
  OBVIOUS
<1>10. (x \div 1) % 2 = g
  OBVIOUS
<1> HIDE DEF x
<1>11. (x \div 2 ^ (6 - j)) % 2 = top[j]
  <2>1. (x \div 2 ^ (6 - 0)) % 2 = top[0] /\ (x \div 2 ^ (6 - 1)) % 2 = top[1]
    BY <1>4, <1>7, Weights, Zenon
  <2>2. (x \div 2 ^ (6 - 2)) % 2 = top[2] /\ (x \div 2 ^ (6 - 3)) % 2 = top[3]
    BY <1>4, <1>8, Weights, Zenon
  <2>3. (x \div 2 ^ (6 - 4)) % 2 = top[4] /\ (x \div 2 ^ (6 - 5)) % 2 = top[5]
    BY <1>5, <1>9, Weights, Zenon
  <2>4. (x \div 2 ^ (6 - 6)) % 2 = top[6]
    BY <1>5, <1>10, Weights, Zenon
  <2>5. j = 0 \/ j = 1 \/ j = 2 \/ j = 3 \/ j = 4 \/ j = 5 \/ j = 6
    OBVIOUS
  <2> QED  BY <2>1, <2>2, <2>3, <2>4, <2>5, Zenon
<1> QED  BY <1>2, <1>6, <1>11 DEF BitOf

-----------------------------------------------------------------------------
(* Decoding gives back the bytes that were encoded, every one and no more, *)
(* in full groups and in a last one of any size (sysex_encode,             *)
(* sysex_decode).                                                          *)
THEOREM DecodeEncoded ==
    ASSUME NEW source \in Seq(Byte), Len(source) <= MaxDecoded
    PROVE  sysex_decode(sysex_encode(source)) = source
<1> DEFINE l == Len(source)
           m == sysex_encoded_length(l)
           encoded == sysex_encode(source)
<1>1. l \in Nat /\ l <= 57343
  BY LenProperties DEF MaxDecoded
<1>2. m \in Nat /\ (l > 0 => m >= 2) /\ (l = 0 => m = 0)
  <2> DEFINE q == l \div 7
             r == l % 7
  <2>1. q \in Nat /\ r \in 0 .. 6 /\ l = 7 * q + r
    <3>1. l \in Nat
      BY LenProperties
    <3> HIDE DEF l
    <3> QED  BY <3>1, BySeven
  <2>2. m = 8 * q + (IF r = 0 THEN 0 ELSE r + 1)
    <3>1. l \in Nat /\ l <= 57343
      BY <1>1
    <3> HIDE DEF l
    <3> QED  BY <3>1, EncodedLength
  <2> HIDE DEF q, r, m, l
  <2>3. CASE r = 0
    BY <2>1, <2>2, <2>3
  <2>4. CASE r # 0
    <3>1. m = 8 * q + (r + 1)
      BY <2>2, <2>4
    <3> QED  BY <2>1, <2>4, <3>1
  <2> QED  BY <2>3, <2>4
<1>3. Len(encoded) = m /\ \A n \in 1 .. m : encoded[n] =
          (IF (n - 1) % 8 = 0 THEN TopBits(source, (n - 1) \div 8)
           ELSE source[((n - 1) \div 8) * 7 + ((n - 1) % 8)] % 128)
  BY <1>2 DEF sysex_encode
<1>4. sysex_decoded_length(m) = l
  BY <1>1, DecodedLength
<1> HIDE DEF m, encoded
<1>5. CASE l = 0
  <2>1. Len(encoded) < 2
    BY <1>2, <1>3, <1>5
  <2>2. sysex_decode(encoded) = <<>>
    BY <2>1 DEF sysex_decode
  <2> QED  BY <1>5, <2>2 DEF encoded
<1>6. CASE l > 0
  <2>1. ~(Len(encoded) < 2) /\ sysex_decoded_length(Len(encoded)) = l
    BY <1>2, <1>3, <1>4, <1>6
  <2>2. sysex_decode(encoded) =
            [n \in 1 .. l |-> (encoded[((n - 1) \div 7) * 8 + ((n - 1) % 7) + 2] % 128)
                                  + BitOf(encoded[((n - 1) \div 7) * 8 + 1], (n - 1) % 7)]
    BY <2>1 DEF sysex_decode
  <2>3. ASSUME NEW n \in 1 .. l
        PROVE  (encoded[((n - 1) \div 7) * 8 + ((n - 1) % 7) + 2] % 128)
                   + BitOf(encoded[((n - 1) \div 7) * 8 + 1], (n - 1) % 7) = source[n]
    <3> DEFINE i == (n - 1) \div 7
               j == (n - 1) % 7
    <3>1. /\ i \in Nat /\ j \in 0 .. 6 /\ n = 7 * i + j + 1
          /\ i * 8 + j + 2 \in 1 .. m /\ i * 8 + 1 \in 1 .. m
      BY <1>1, Places DEF m
    <3>2. source[n] \in Byte
      BY ElementOfSeq
    <3> HIDE DEF i, j
    <3>3. encoded[i * 8 + j + 2] = source[n] % 128
      <4> DEFINE p == i * 8 + j + 2
      <4>1. (p - 1) \div 8 = i /\ (p - 1) % 8 = j + 1
        BY <3>1, ByEight
      <4>2. ((p - 1) \div 8) * 7 + ((p - 1) % 8) = n /\ (p - 1) % 8 # 0
        BY <3>1, <4>1
      <4> QED  BY <1>3, <3>1, <4>2
    <3>4. encoded[i * 8 + 1] = TopBits(source, i)
      <4> DEFINE p == i * 8 + 1
      <4>1. (p - 1) \div 8 = i /\ (p - 1) % 8 = 0
        BY <3>1, ByEight
      <4> QED  BY <1>3, <3>1, <4>1
    <3>5. BitOf(TopBits(source, i), j) = 128 * (source[n] \div 128)
      BY <3>1, TopBitsHold
    <3>6. ((source[n] % 128) % 128) + 128 * (source[n] \div 128) = source[n]
      BY <3>2, TopAndRest
    <3>7. (encoded[i * 8 + j + 2] % 128) + BitOf(encoded[i * 8 + 1], j) = source[n]
      BY <3>3, <3>4, <3>5, <3>6
    <3> QED  BY <3>7 DEF i, j
  <2>4. sysex_decode(encoded) = [n \in 1 .. l |-> source[n]]
    BY <2>2, <2>3
  <2>5. [n \in 1 .. l |-> source[n]] = source
    BY LenProperties
  <2> QED  BY <2>4, <2>5 DEF encoded
<1> QED  BY <1>1, <1>5, <1>6

-----------------------------------------------------------------------------
(* What is encoded can be sent: its bytes are data bytes, without top bit. *)

LEMMA TopBitsRange ==
    ASSUME NEW source \in Seq(Byte), NEW i \in Nat
    PROVE  TopBits(source, i) \in 0 .. 127
<1>1. ASSUME NEW k \in 0 .. 6, NEW w \in Nat, 2 ^ (6 - k) = w
      PROVE  TopBit(source, i, k) \in 0 .. w
  <2>1. CASE i * 7 + k < Len(source)
    <3>1. i * 7 + k + 1 \in 1 .. Len(source)
      BY <2>1, LenProperties
    <3>2. PICK t \in 0 .. 1 : t = source[i * 7 + k + 1] \div 128
      BY <3>1, ElementOfSeq, TopAndRest
    <3>3. TopBit(source, i, k) = t * w
      BY <1>1, <2>1, <3>2 DEF TopBit
    <3>4. t * w \in 0 .. w
      <4>1. t = 0 \/ t = 1
        OBVIOUS
      <4> QED  BY <4>1
    <3> QED  BY <3>3, <3>4
  <2>2. CASE ~(i * 7 + k < Len(source))
    BY <2>2 DEF TopBit
  <2> QED  BY <2>1, <2>2
<1>2. TopBit(source, i, 0) \in 0 .. 64 /\ TopBit(source, i, 1) \in 0 .. 32
  <2>1. 0 \in 0 .. 6 /\ 1 \in 0 .. 6 /\ 64 \in Nat /\ 32 \in Nat
    OBVIOUS
  <2> QED  BY <1>1, <2>1, Weights, ZenonT(40)
<1>3. TopBit(source, i, 2) \in 0 .. 16 /\ TopBit(source, i, 3) \in 0 .. 8
  <2>1. 2 \in 0 .. 6 /\ 3 \in 0 .. 6 /\ 16 \in Nat /\ 8 \in Nat
    OBVIOUS
  <2> QED  BY <1>1, <2>1, Weights, Zenon
<1>4. TopBit(source, i, 4) \in 0 .. 4 /\ TopBit(source, i, 5) \in 0 .. 2
  <2>1. 4 \in 0 .. 6 /\ 5 \in 0 .. 6 /\ 4 \in Nat /\ 2 \in Nat
    OBVIOUS
  <2> QED  BY <1>1, <2>1, Weights, Zenon
<1>5. TopBit(source, i, 6) \in 0 .. 1
  <2>1. 6 \in 0 .. 6 /\ 1 \in Nat
    OBVIOUS
  <2> QED  BY <1>1, <2>1, Weights, Zenon
<1>6. PICK a \in 0 .. 64, b \in 0 .. 32 : a = TopBit(source, i, 0) /\ b = TopBit(source, i, 1)
  BY <1>2, Zenon
<1>7. PICK c \in 0 .. 16, d \in 0 .. 8 : c = TopBit(source, i, 2) /\ d = TopBit(source, i, 3)
  BY <1>3, Zenon
<1>8. PICK e \in 0 .. 4, f \in 0 .. 2, g \in 0 .. 1 :
          e = TopBit(source, i, 4) /\ f = TopBit(source, i, 5) /\ g = TopBit(source, i, 6)
  BY <1>4, <1>5, Zenon
<1>9. TopBits(source, i) = a + b + c + d + e + f + g
  BY <1>6, <1>7, <1>8, Zenon DEF TopBits
<1>10. a + b + c + d + e + f + g \in 0 .. 127
  OBVIOUS
<1> QED  BY <1>9, <1>10, Zenon

(* The byte of the data that byte n of the encoded ones stands for.        *)
LEMMA EncodedPlaces ==
    ASSUME NEW l \in Nat, l <= 57343, NEW n \in 1 .. sysex_encoded_length(l)
    PROVE  LET i == (n - 1) \div 8
               j == (n - 1) % 8 IN
           i \in Nat /\ j \in 0 .. 7 /\ (j # 0 => i * 7 + j \in 1 .. l)
<1> DEFINE i == (n - 1) \div 8
           j == (n - 1) % 8
           q == l \div 7
           r == l % 7
           m == sysex_encoded_length(l)
<1>1. m = 8 * q + (IF r = 0 THEN 0 ELSE r + 1)
  BY EncodedLength
<1>2. q \in Nat /\ r \in 0 .. 6 /\ l = 7 * q + r
  BY BySeven
<1>3. n \in 1 .. m
  OBVIOUS
<1> HIDE DEF q, r, m
<1>4. n \in Nat /\ n >= 1 /\ n <= m
  BY <1>1, <1>2, <1>3
<1>5. i \in Nat /\ j \in 0 .. 7 /\ n = 8 * i + j + 1
  BY <1>4
<1> HIDE DEF i, j
<1>6. 8 * i + j < 8 * q + (IF r = 0 THEN 0 ELSE r + 1)
  BY <1>1, <1>2, <1>4, <1>5
<1>7. i < q \/ (i = q /\ j < r + 1 /\ r # 0)
  BY <1>2, <1>5, <1>6
<1>8. j # 0 => i * 7 + j \in 1 .. l
  BY <1>2, <1>5, <1>7
<1> QED  BY <1>5, <1>8 DEF i, j

(* Whatever bytes are encoded, none of the encoded ones has its top bit:   *)
(* they can stand between the bytes that begin and end a message           *)
(* (sysex_encode).                                                         *)
THEOREM EncodedIsData ==
    ASSUME NEW source \in Seq(Byte), Len(source) <= MaxDecoded
    PROVE  sysex_encode(source) \in Seq(0 .. 127)
<1> DEFINE l == Len(source)
           m == sysex_encoded_length(l)
<1>1. l \in Nat /\ l <= 57343
  BY LenProperties DEF MaxDecoded
<1>2. m \in Nat
  <2> HIDE DEF l
  <2>1. l \div 7 \in Nat /\ l % 7 \in 0 .. 6
    BY <1>1, BySeven
  <2>2. m = 8 * (l \div 7) + (IF l % 7 = 0 THEN 0 ELSE (l % 7) + 1)
    BY <1>1, EncodedLength
  <2> HIDE DEF m
  <2> QED  BY <2>1, <2>2
<1>3. ASSUME NEW n \in 1 .. m
      PROVE  LET i == (n - 1) \div 8
                 j == (n - 1) % 8 IN
             (IF j = 0 THEN TopBits(source, i) ELSE source[i * 7 + j] % 128) \in 0 .. 127
  <2> DEFINE i == (n - 1) \div 8
             j == (n - 1) % 8
  <2>1. i \in Nat /\ j \in 0 .. 7 /\ (j # 0 => i * 7 + j \in 1 .. l)
    BY <1>1, EncodedPlaces
  <2> HIDE DEF i, j
  <2>2. j = 0 => TopBits(source, i) \in 0 .. 127
    BY <2>1, TopBitsRange
  <2>3. ASSUME j # 0 PROVE source[i * 7 + j] % 128 \in 0 .. 127
    <3>1. source[i * 7 + j] \in Byte
      BY <2>1, <2>3, ElementOfSeq
    <3>2. ASSUME NEW x \in Byte PROVE x % 128 \in 0 .. 127
      BY DEF Byte
    <3> QED  BY <3>1, <3>2, Zenon
  <2>4. (IF j = 0 THEN TopBits(source, i) ELSE source[i * 7 + j] % 128) \in 0 .. 127
    BY <2>2, <2>3, Zenon
  <2> QED  BY <2>4 DEF i, j
<1>4. sysex_encode(source) \in [1 .. m -> 0 .. 127]
  BY <1>3, Zenon DEF sysex_encode
<1> HIDE DEF m
<1>5. \A f \in [1 .. m -> 0 .. 127] : f \in Seq(0 .. 127)
  BY <1>2, SeqDef
<1> QED  BY <1>4, <1>5, Zenon

-----------------------------------------------------------------------------
(* Induction by the least counterexample, and what it shows of the         *)
(* concatenation of many sequences.                                        *)

LEMMA Least ==
    ASSUME NEW T \in SUBSET Nat, T # {}
    PROVE  \E x \in T : \A y \in T : x <= y
<1>1. IsWellFoundedOn(OpToRel(<, Nat), Nat)
  BY NatLessThanWellFounded
<1>2. PICK x \in T : \A y \in T : ~ (<<y, x>> \in OpToRel(<, Nat))
  BY <1>1, WFMin, Zenon
<1>3. ASSUME NEW y \in T PROVE x <= y
  <2>1. x \in Nat /\ y \in Nat
    OBVIOUS
  <2>2. <<y, x>> \notin OpToRel(<, Nat)
    BY <1>2
  <2>3. ~(y < x)
    BY <2>1, <2>2 DEF OpToRel
  <2> QED  BY <2>1, <2>3
<1> QED  BY <1>3

LEMMA Induction ==
    ASSUME NEW T, 0 \in T, \A n \in Nat : n \in T => n + 1 \in T
    PROVE  Nat \subseteq T
<1> DEFINE U == Nat \ T
<1>1. CASE U = {}
  BY <1>1
<1>2. CASE U # {}
  <2>1. PICK x \in U : \A y \in U : x <= y
    BY <1>2, Least
  <2>2. x # 0 /\ x \in Nat
    OBVIOUS
  <2>3. x - 1 \in Nat /\ x - 1 \in T
    BY <2>1, <2>2
  <2>4. (x - 1) + 1 \in T
    BY <2>3
  <2> QED  BY <2>2, <2>4
<1> QED  BY <1>1, <1>2

(* FlattenSeq, when what it should come to after each element is known.    *)
Grows(g, ss, n) ==
    /\ n \in Nat \ {0} /\ Len(ss) = n
    /\ g = [i \in 1 .. n |-> g[i]]
    /\ g[1] = ss[1]
    /\ \A i \in 2 .. n : g[i] = g[i - 1] \o ss[i]

LEMMA FlattenIs ==
    ASSUME NEW g, NEW ss, NEW n, Grows(g, ss, n)
    PROVE  Seqs!FlattenSeq(ss) = g[n]
<1>0. /\ n \in Nat \ {0} /\ Len(ss) = n /\ g = [i \in 1 .. n |-> g[i]]
      /\ g[1] = ss[1] /\ \A i \in 2 .. n : g[i] = g[i - 1] \o ss[i]
  BY DEF Grows
<1> USE <1>0
<1> DEFINE Def(f) == [i \in 1 .. n |-> IF i = 1 THEN ss[i] ELSE f[i - 1] \o ss[i]]
           f == CHOOSE f : f = Def(f)
<1>1. g = Def(g)
  <2>1. \A i \in 1 .. n : g[i] = IF i = 1 THEN ss[i] ELSE g[i - 1] \o ss[i]
    <3> TAKE i \in 1 .. n
    <3>1. i = 1 \/ i \in 2 .. n
      OBVIOUS
    <3> QED  BY <3>1
  <2> QED  BY <2>1
<1>2. f = Def(f)
  BY <1>1
<1> HIDE DEF f
<1>3. f[1] = ss[1] /\ \A i \in 2 .. n : f[i] = f[i - 1] \o ss[i]
  <2>1. \A i \in 1 .. n : f[i] = IF i = 1 THEN ss[i] ELSE f[i - 1] \o ss[i]
    BY <1>2
  <2>2. 1 \in 1 .. n /\ \A i \in 2 .. n : i \in 1 .. n /\ i # 1
    OBVIOUS
  <2> QED  BY <2>1, <2>2
<1> DEFINE T == {k \in Nat : k < n => f[k + 1] = g[k + 1]}
<1>4. 0 \in T
  BY <1>3
<1>5. ASSUME NEW k \in Nat, k \in T PROVE k + 1 \in T
  <2> SUFFICES ASSUME k + 1 < n PROVE f[(k + 1) + 1] = g[(k + 1) + 1]
    OBVIOUS
  <2>1. (k + 1) + 1 \in 2 .. n /\ ((k + 1) + 1) - 1 = k + 1
    OBVIOUS
  <2>2. f[k + 1] = g[k + 1]
    BY <1>5
  <2>3. f[(k + 1) + 1] = f[k + 1] \o ss[(k + 1) + 1]
    BY <1>3, <2>1
  <2>4. g[(k + 1) + 1] = g[k + 1] \o ss[(k + 1) + 1]
    BY <2>1
  <2> QED  BY <2>2, <2>3, <2>4
<1>6. Nat \subseteq T
  <2> HIDE DEF T
  <2> QED  BY <1>4, <1>5, Induction
<1>7. f[n] = g[n]
  <2>1. n - 1 \in Nat /\ n - 1 < n /\ (n - 1) + 1 = n
    OBVIOUS
  <2>2. n - 1 \in T
    BY <1>6, <2>1
  <2> QED  BY <2>1, <2>2
<1>8. Seqs!FlattenSeq(ss) = f[n]
  BY DEF Seqs!FlattenSeq, f
<1> QED  BY <1>7, <1>8

LEMMA FlattenOne == ASSUME NEW s PROVE Seqs!FlattenSeq(<<s>>) = s
<1> DEFINE f == CHOOSE f : f = [i \in 1 .. 1 |-> IF i = 1 THEN s ELSE f[i - 1] \o s]
<1>1. Len(<<s>>) = 1 /\ <<s>>[1] = s
  OBVIOUS
<1>2. f = [i \in 1 .. 1 |-> IF i = 1 THEN s ELSE f[i - 1] \o s]
  OBVIOUS
<1> QED BY <1>1, <1>2 DEF Seqs!FlattenSeq

-----------------------------------------------------------------------------
(* The bytes of a call at the other end of each cable.                     *)

CableTypes == cable \in {"serial", "usb", "host"}

LEMMA SerialIs ==
    ASSUME NEW cnt \in 1 .. 3, NEW b0, NEW b1, NEW b2, cable = "serial"
    PROVE  CableBytes(SendCall(cnt, b0, b1, b2)) = SubSeq(<<b0, b1, b2>>, 1, cnt)
  BY DEF CableBytes, SerialBytes, SendCall

(* Over USB: what the packet says, and what the other end makes of it.     *)
LEMMA UsbIs ==
    ASSUME NEW cnt \in 1 .. 3, NEW b0 \in Uint8, NEW b1, NEW b2, NEW event, cable # "serial",
           LET call == SendCall(cnt, b0, b1, b2) IN
               /\ usb_send_func(call) = <<Packet(event, <<b0, b1, b2>>)>>
               /\ cable = "usb" => InputLength(Packet(event, <<b0, b1, b2>>)) = cnt
               /\ cable # "usb" => CodeLength(event) = cnt
    PROVE  CableBytes(SendCall(cnt, b0, b1, b2)) = SubSeq(<<b0, b1, b2>>, 1, cnt)
<1> DEFINE call == SendCall(cnt, b0, b1, b2)
           p    == Packet(event, <<b0, b1, b2>>)
           heard(q) == IF cable = "usb" THEN usb_get_midi(q) ELSE HostBytes(q)
<1>1. p.bytes = <<b0, b1, b2>> /\ p.event = event
  BY DEF Packet
<1>2. heard(p) = SubSeq(<<b0, b1, b2>>, 1, cnt)
  BY <1>1 DEF usb_get_midi, HostBytes
<1>3. usb_send_func(call) = <<p>>
  OBVIOUS
<1> HIDE DEF p, call
<1>4. [k \in DOMAIN <<p>> |-> heard(<<p>>[k])] = <<heard(p)>>
  OBVIOUS
<1>5. UsbBytes(call) = Seqs!FlattenSeq(<<heard(p)>>)
  BY <1>3, <1>4 DEF UsbBytes
<1> QED  BY <1>2, <1>5, FlattenOne DEF CableBytes, call

LEMMA MessageCarried ==
    ASSUME CableTypes, NEW cnt \in 1 .. 3, NEW b0 \in Uint8, NEW b1, NEW b2,
           midi_packet_length(b0) = cnt, cable = "host" => cnt = 1 \/ b0 < 240
    PROVE  CableBytes(SendCall(cnt, b0, b1, b2)) = SubSeq(<<b0, b1, b2>>, 1, cnt)
<1>1. CASE cable = "serial"
  BY <1>1, SerialIs
<1>2. CASE cable # "serial"
  <2> DEFINE event == MIDI_EVENT(0, CommonEvent(b0))
             call  == SendCall(cnt, b0, b1, b2)
  <2>1. call.bytes = <<b0, b1, b2>> /\ call.cnt = cnt
    BY DEF SendCall
  <2>2. usb_send_func(call) = <<Packet(event, <<b0, b1, b2>>)>>
    BY <2>1 DEF usb_send_func, UNDEFINED
  <2>3. InputLength(Packet(event, <<b0, b1, b2>>)) = cnt
    <3> HIDE DEF event
    <3>1. Packet(event, <<b0, b1, b2>>).bytes[1] = b0
      BY DEF Packet
    <3> QED  BY <3>1 DEF InputLength, UNDEFINED
  <2>4. ASSUME cable # "usb" PROVE CodeLength(event) = cnt
    <3>1. cable = "host"
      BY <1>2, <2>4 DEF CableTypes
    <3>2. CASE cnt = 1
      <4>1. b0 \in 246 .. 255
        BY <3>2 DEF midi_packet_length, Uint8, HighNibble, ONE, TWO, THREE, UNDEFINED, ListedRealtime,
              MIDI_TUNEREQUEST
      <4>2. HighNibble(b0) = 240 /\ b0 \div 16 = 15
        BY <4>1 DEF HighNibble
      <4>3. CommonEvent(b0) = b0
        BY <4>2 DEF CommonEvent, MIDI_SONGPOSITION, MIDI_SONGSELECT, MIDI_TC_QUARTERFRAME
      <4>4. event = 15
        BY <4>1, <4>2, <4>3 DEF MIDI_EVENT
      <4> QED  BY <3>2, <4>4 DEF CodeLength
    <3>3. CASE cnt # 1
      <4>1. b0 \in 128 .. 239
        BY <3>1, <3>3 DEF midi_packet_length, Uint8, HighNibble, ONE, TWO, THREE, UNDEFINED,
              ListedRealtime, MIDI_TUNEREQUEST, MIDI_SONGPOSITION, MIDI_SONGSELECT, MIDI_TC_QUARTERFRAME,
              MIDI_CC, MIDI_NOTEON, MIDI_NOTEOFF, MIDI_AFTERTOUCH, MIDI_PITCHBEND, MIDI_PROGCHANGE,
              MIDI_CHANPRESSURE
      <4>2. PICK h \in 8 .. 14 : h = b0 \div 16
        BY <4>1
      <4>3. HighNibble(b0) = h * 16
        BY <4>2 DEF HighNibble
      <4>4. CommonEvent(b0) = b0
        BY <4>2, <4>3 DEF CommonEvent, MIDI_SONGPOSITION, MIDI_SONGSELECT, MIDI_TC_QUARTERFRAME
      <4>5. event = h
        BY <4>1, <4>2, <4>4 DEF MIDI_EVENT
      <4>6. cnt = IF h \in {12, 13} THEN 2 ELSE 3
        <5>1. CASE h \in {12, 13}
          <6>1. HighNibble(b0) \in {192, 208}
            BY <4>3, <5>1
          <6> QED  BY <5>1, <6>1, <4>1 DEF ListedRealtime, MIDI_TUNEREQUEST, MIDI_SONGPOSITION,
                MIDI_SONGSELECT, MIDI_TC_QUARTERFRAME, midi_packet_length, ONE, TWO, THREE, UNDEFINED,
                MIDI_CC, MIDI_NOTEON, MIDI_NOTEOFF, MIDI_AFTERTOUCH, MIDI_PITCHBEND, MIDI_PROGCHANGE,
                MIDI_CHANPRESSURE
        <5>2. CASE h \in {8, 9, 10, 11, 14}
          <6>1. HighNibble(b0) \in {128, 144, 160, 176, 224}
            BY <4>3, <5>2
          <6> QED  BY <5>2, <6>1, <4>1 DEF ListedRealtime, MIDI_TUNEREQUEST, MIDI_SONGPOSITION,
                MIDI_SONGSELECT, MIDI_TC_QUARTERFRAME, midi_packet_length, ONE, TWO, THREE, UNDEFINED,
                MIDI_CC, MIDI_NOTEON, MIDI_NOTEOFF, MIDI_AFTERTOUCH, MIDI_PITCHBEND, MIDI_PROGCHANGE,
                MIDI_CHANPRESSURE
        <5> QED  BY <4>2, <5>1, <5>2
      <4> QED  BY <4>2, <4>5, <4>6 DEF CodeLength
    <3> QED  BY <3>2, <3>3
  <2> QED  BY <1>2, <2>2, <2>3, <2>4, UsbIs, ZenonT(40)
<1> QED  BY <1>1, <1>2

(* A piece of a system exclusive message.                                  *)
LEMMA PieceCarried ==
    ASSUME CableTypes, NEW cnt \in 1 .. 3, NEW b0 \in Uint8, NEW b1, NEW b2,
           midi_packet_length(b0) = UNDEFINED, cnt < 3 => <<b0, b1, b2>>[cnt] = SYSEX_END
    PROVE  CableBytes(SendCall(cnt, b0, b1, b2)) = SubSeq(<<b0, b1, b2>>, 1, cnt)
<1>1. CASE cable = "serial"
  BY <1>1, SerialIs
<1>2. CASE cable # "serial"
  <2> DEFINE code  == SysexEvent(cnt, <<b0, b1, b2>>)
             event == MIDI_EVENT(0, code)
             call  == SendCall(cnt, b0, b1, b2)
  <2>1. call.bytes = <<b0, b1, b2>> /\ call.cnt = cnt
    BY DEF SendCall
  <2>2. usb_send_func(call) = <<Packet(event, <<b0, b1, b2>>)>>
    BY <2>1 DEF usb_send_func, UNDEFINED
  <2>3. \/ cnt = 3 /\ (code = SYSEX_ENDS_IN_3 \/ code = SYSEX_START_OR_CONT)
        \/ cnt = 2 /\ code = SYSEX_ENDS_IN_2
        \/ cnt = 1 /\ code = SYSEX_ENDS_IN_1
    <3>1. CASE <<b0, b1, b2>>[cnt] = SYSEX_END
      BY <3>1 DEF SysexEvent
    <3>2. CASE <<b0, b1, b2>>[cnt] # SYSEX_END
      BY <3>2 DEF SysexEvent
    <3> QED  BY <3>1, <3>2
  <2>4. /\ MIDI_EVENT(0, SYSEX_ENDS_IN_3) = 7 /\ MIDI_EVENT(0, SYSEX_START_OR_CONT) = 4
        /\ MIDI_EVENT(0, SYSEX_ENDS_IN_2) = 6 /\ MIDI_EVENT(0, SYSEX_ENDS_IN_1) = 5
    BY DEF MIDI_EVENT, SYSEX_ENDS_IN_3, SYSEX_START_OR_CONT, SYSEX_ENDS_IN_2, SYSEX_ENDS_IN_1
  <2> HIDE DEF code
  <2>5. \/ cnt = 3 /\ event \in {4, 7}
        \/ cnt = 2 /\ event = 6
        \/ cnt = 1 /\ event = 5
    BY <2>3, <2>4
  <2> HIDE DEF event
  <2>6. InputLength(Packet(event, <<b0, b1, b2>>)) = cnt
    <3>1. Packet(event, <<b0, b1, b2>>).event = event /\ Packet(event, <<b0, b1, b2>>).bytes[1] = b0
      BY DEF Packet
    <3> QED  BY <2>4, <2>5, <3>1 DEF InputLength, UNDEFINED
  <2>7. CodeLength(event) = cnt
    BY <2>5 DEF CodeLength
  <2> QED  BY <1>2, <2>2, <2>6, <2>7, UsbIs DEF event, code
<1> QED  BY <1>1, <1>2

-----------------------------------------------------------------------------
(* The bytes of an operation at the other end.                             *)

LEMMA ArrivingOne == ASSUME NEW o, NEW c, SendCalls(o) = <<c>> PROVE Arriving(o) = CableBytes(c)
<1>1. [k \in DOMAIN <<c>> |-> CableBytes(<<c>>[k])] = <<CableBytes(c)>>
  OBVIOUS
<1> QED  BY <1>1, FlattenOne DEF Arriving

LEMMA SysexIs ==
    ASSUME NEW a, IsSysex(a)
    PROVE  /\ IsSeq(a) /\ Len(a) \in Nat /\ Len(a) >= 2 /\ Len(a) < CountRange
           /\ \A k \in 1 .. Len(a) : a[k] \in Uint8 /\ midi_packet_length(a[k]) = UNDEFINED
<1>1. a \in Seq(Uint8) /\ Len(a) \in 2 .. CountRange - 1 /\ CountRange \in Nat
  BY CountRangeAssumption DEF IsSysex
<1>2. ASSUME NEW k \in 1 .. Len(a) PROVE a[k] \in Uint8 /\ midi_packet_length(a[k]) = UNDEFINED
  <2>1. a[k] \in Uint8
    BY <1>1, <1>2, ElementOfSeq
  <2>2. k = 1 \/ k = Len(a) \/ k \in 2 .. Len(a) - 1
    BY <1>1
  <2>3. a[k] = 240 \/ a[k] = 247 \/ a[k] \in 0 .. 127
    <3>1. a[1] = 240 /\ a[Len(a)] = 247 /\ \A j \in 2 .. Len(a) - 1 : a[j] \in 0 .. 127
      BY DEF IsSysex, SYSEX_BEGIN, SYSEX_END, Data7
    <3> HIDE DEF IsSysex
    <3>2. CASE k = 1
      BY <3>1, <3>2
    <3>3. CASE k = Len(a)
      BY <3>1, <3>3
    <3>4. CASE k \in 2 .. Len(a) - 1
      BY <3>1, <3>4
    <3> QED  BY <2>2, <3>2, <3>3, <3>4
  <2>4. ASSUME NEW b, b = 240 \/ b = 247 \/ b \in 0 .. 127 PROVE midi_packet_length(b) = UNDEFINED
    <3>1. CASE b \in 0 .. 127
      <4>1. b \in Uint8 /\ ~midi_is_statusbyte(b)
        BY <3>1 DEF Uint8, midi_is_statusbyte
      <4> QED  BY <4>1, PacketLengths
    <3>2. ASSUME NEW x \in {240, 247} PROVE midi_packet_length(x) = UNDEFINED
      <4>1. HighNibble(x) = 240
        BY DEF HighNibble
      <4>2. x \notin ListedRealtime \cup {246} /\ x # 242 /\ x \notin {241, 243}
        BY DEF ListedRealtime
      <4> QED  BY <4>1, <4>2 DEF midi_packet_length, MIDI_TUNEREQUEST, MIDI_SONGPOSITION,
          MIDI_SONGSELECT, MIDI_TC_QUARTERFRAME, MIDI_CC, MIDI_NOTEON, MIDI_NOTEOFF, MIDI_AFTERTOUCH,
          MIDI_PITCHBEND, MIDI_PROGCHANGE, MIDI_CHANPRESSURE
    <3> QED  BY <2>4, <3>1, <3>2
  <2> QED  BY <2>1, <2>3, <2>4
<1>3. IsSeq(a)
  BY <1>1 DEF IsSeq
<1> QED  BY <1>1, <1>2, <1>3

(* The pieces of L bytes.                                                  *)
Pieces(L) == (L + 2) \div 3
End(L, k) == IF L < 3 * k THEN L ELSE 3 * k

LEMMA PiecesAre ==
    ASSUME NEW L \in Nat \ {0}
    PROVE  /\ Pieces(L) \in Nat \ {0} /\ End(L, Pieces(L)) = L
           /\ \A k \in 1 .. Pieces(L) : 3 * k - 2 <= L /\ End(L, k) \in 3 * k - 2 .. L
           /\ \A k \in 2 .. Pieces(L) : k - 1 \in 1 .. Pieces(L) /\ End(L, k - 1) = 3 * k - 3
<1>1. PICK q \in Nat, r \in 0 .. 2 : L + 2 = 3 * q + r
  <2>1. (L + 2) \div 3 \in Nat /\ (L + 2) % 3 \in 0 .. 2 /\ L + 2 = 3 * ((L + 2) \div 3) + ((L + 2) % 3)
    OBVIOUS
  <2> QED  BY <2>1
<1>2. Pieces(L) = q
  BY <1>1 DEF Pieces
<1>3. q >= 1 /\ L <= 3 * q /\ 3 * q - 2 <= L
  BY <1>1
<1>4. \A k \in 1 .. q : 3 * k - 2 <= L /\ End(L, k) \in 3 * k - 2 .. L
  BY <1>3 DEF End
<1>5. \A k \in 2 .. q : k - 1 \in 1 .. q /\ End(L, k - 1) = 3 * k - 3
  BY <1>3 DEF End
<1>6. End(L, q) = L
  BY <1>3 DEF End
<1> QED  BY <1>2, <1>3, <1>4, <1>5, <1>6

(* The bytes of one round of midi_send_array.                              *)
LEMMA RoundIs ==
    ASSUME NEW a, NEW k \in 1 .. (Len(a) + 2) \div 3
    PROVE  midi_send_array(a)[k] =
               midi_send_data(ToSend(a, k), Chunk(a, k)[1], Chunk(a, k)[2], Chunk(a, k)[3])
  BY DEF midi_send_array

LEMMA RoundCarried ==
    ASSUME CableTypes, NEW a, IsSysex(a), NEW k \in 1 .. Pieces(Len(a))
    PROVE  CableBytes(midi_send_array(a)[k]) = SubSeq(a, 3 * k - 2, End(Len(a), k))
<1> DEFINE L == Len(a)
           cnt == ToSend(a, k)
           b == Chunk(a, k)
           c == SendCall(cnt, b[1], b[2], b[3])
<1>1. /\ IsSeq(a) /\ L \in Nat /\ L >= 2
      /\ \A j \in 1 .. L : a[j] \in Uint8 /\ midi_packet_length(a[j]) = UNDEFINED
  BY SysexIs
<1>2. k \in Nat /\ k >= 1 /\ 3 * k - 2 <= L /\ End(L, k) \in 3 * k - 2 .. L
  BY <1>1, PiecesAre
<1>3. midi_send_array(a)[k] = c
  <2>1. k \in 1 .. (Len(a) + 2) \div 3
    BY DEF Pieces
  <2> QED  BY <2>1, RoundIs DEF midi_send_data
<1>4. cnt = End(L, k) - (3 * k - 2) + 1 /\ cnt \in 1 .. 3
  <2>1. ToSend(a, k) = IF L - 3 * (k - 1) > 3 THEN 3 ELSE L - 3 * (k - 1)
    BY DEF ToSend
  <2>2. End(L, k) = IF L < 3 * k THEN L ELSE 3 * k
    BY DEF End
  <2>3. CASE L - 3 * (k - 1) > 3
    <3>1. End(L, k) = 3 * k
      BY <1>1, <1>2, <2>2, <2>3
    <3> QED  BY <1>2, <2>1, <2>3, <3>1
  <2>4. CASE ~(L - 3 * (k - 1) > 3)
    <3>1. End(L, k) = L
      BY <1>1, <1>2, <2>2, <2>4
    <3>2. ToSend(a, k) = L - 3 * (k - 1)
      BY <2>1, <2>4
    <3> HIDE DEF L
    <3> QED  BY <1>1, <1>2, <2>4, <3>1, <3>2
  <2> QED  BY <2>3, <2>4
<1>5. \A j \in 1 .. cnt : b[j] = a[3 * k - 3 + j] /\ 3 * k - 3 + j \in 1 .. L
  <2> TAKE j \in 1 .. cnt
  <2>1. j \in 1 .. 3 /\ 3 * (k - 1) + j = 3 * k - 3 + j /\ 3 * k - 3 + j \in 1 .. L
    BY <1>1, <1>2, <1>4 DEF End
  <2>2. j <= ToSend(a, k)
    BY <1>4
  <2>3. b[j] = a[3 * (k - 1) + j]
    BY <2>1, <2>2 DEF Chunk
  <2> QED  BY <2>1, <2>3
<1> HIDE DEF b, cnt
<1>6. cnt < 3 => <<b[1], b[2], b[3]>>[cnt] = SYSEX_END
  <2> SUFFICES ASSUME cnt < 3 PROVE <<b[1], b[2], b[3]>>[cnt] = SYSEX_END
    OBVIOUS
  <2>1. End(L, k) = L /\ 3 * k - 3 + cnt = L
    <3>1. CASE L < 3 * k
      <4>1. End(L, k) = L
        BY <3>1 DEF End
      <4> QED  BY <1>1, <1>2, <1>4, <4>1
    <3>2. CASE L >= 3 * k
      <4>1. End(L, k) = 3 * k
        BY <1>1, <1>2, <3>2 DEF End
      <4> QED  BY <1>1, <1>2, <1>4, <4>1
    <3> QED  BY <1>1, <1>2, <3>1, <3>2
  <2>2. b[cnt] = a[L]
    <3>1. cnt \in 1 .. cnt
      BY <1>4
    <3>2. b[cnt] = a[3 * k - 3 + cnt]
      BY <1>5, <3>1, Zenon
    <3> QED  BY <2>1, <3>2, Zenon
  <2>3. <<b[1], b[2], b[3]>>[cnt] = b[cnt]
    BY <1>4
  <2> QED  BY <2>2, <2>3 DEF IsSysex
<1>7. b[1] \in Uint8 /\ midi_packet_length(b[1]) = UNDEFINED
  <2>1. 1 \in 1 .. cnt
    BY <1>4
  <2> QED  BY <1>1, <1>5, <2>1
<1>8. CableBytes(c) = SubSeq(<<b[1], b[2], b[3]>>, 1, cnt)
  BY <1>4, <1>6, <1>7, PieceCarried, ZenonT(40)
<1> DEFINE s == SubSeq(<<b[1], b[2], b[3]>>, 1, cnt)
           t == SubSeq(a, 3 * k - 2, End(L, k))
<1>9. IsSeq(s) /\ Len(s) = cnt /\ \A j \in 1 .. cnt : s[j] = a[3 * k - 3 + j]
  <2> DEFINE u == <<b[1], b[2], b[3]>>
  <2>1. Len(u) = 3 /\ \A j \in 1 .. 3 : u[j] = b[j]
    OBVIOUS
  <2>2. IsSeq(u)
    <3>1. u \in Seq({b[1], b[2], b[3]})
      OBVIOUS
    <3> QED  BY <3>1 DEF IsSeq
  <2> HIDE DEF u
  <2>3. 1 \in 1 .. Len(u) + 1 /\ cnt \in 0 .. Len(u) /\ 1 <= cnt + 1 /\ cnt - 1 + 1 = cnt
    BY <1>4, <2>1
  <2>4. /\ IsSeq(SubSeq(u, 1, cnt)) /\ Len(SubSeq(u, 1, cnt)) = cnt - 1 + 1
        /\ \A j \in 1 .. cnt - 1 + 1 : SubSeq(u, 1, cnt)[j] = u[1 + j - 1]
    BY <2>2, <2>3, PartIs
  <2>5. ASSUME NEW j \in 1 .. cnt PROVE SubSeq(u, 1, cnt)[j] = a[3 * k - 3 + j]
    <3>1. j \in 1 .. 3 /\ 1 + j - 1 = j
      BY <1>4
    <3>2. SubSeq(u, 1, cnt)[j] = u[j]
      BY <2>3, <2>4, <3>1
    <3> QED  BY <1>5, <2>1, <3>1, <3>2
  <2> QED  BY <2>3, <2>4, <2>5 DEF u
<1>10. IsSeq(t) /\ Len(t) = cnt /\ \A j \in 1 .. cnt : t[j] = a[3 * k - 3 + j]
  <2>1. /\ 3 * k - 2 \in 1 .. Len(a) + 1 /\ End(L, k) \in 0 .. Len(a) /\ 3 * k - 2 <= End(L, k) + 1
    BY <1>1, <1>2
  <2>2. /\ IsSeq(t) /\ Len(t) = End(L, k) - (3 * k - 2) + 1
        /\ \A j \in 1 .. End(L, k) - (3 * k - 2) + 1 : t[j] = a[(3 * k - 2) + j - 1]
    BY <1>1, <2>1, PartIs
  <2>3. ASSUME NEW j \in 1 .. cnt PROVE t[j] = a[3 * k - 3 + j]
    <3>1. (3 * k - 2) + j - 1 = 3 * k - 3 + j
      BY <1>2, <1>4
    <3> QED  BY <1>4, <2>2, <3>1
  <2> QED  BY <1>4, <2>2, <2>3
<1> HIDE DEF s, t
<1>11. s = t
  BY <1>9, <1>10, SameSeq
<1> QED  BY <1>3, <1>8, <1>11 DEF s, t

LEMMA ArrayArrives ==
    ASSUME CableTypes, NEW a, IsSysex(a), NEW o, o = <<"array", a>>
    PROVE  Arriving(o) = a
<1> DEFINE L == Len(a)
           n == Pieces(L)
           ss == [k \in 1 .. n |-> CableBytes(midi_send_array(a)[k])]
           g == [k \in 1 .. n |-> SubSeq(a, 1, End(L, k))]
<1>1. IsSeq(a) /\ L \in Nat /\ L >= 2
  BY SysexIs
<1>2. /\ n \in Nat \ {0} /\ End(L, n) = L
      /\ \A k \in 1 .. n : 3 * k - 2 <= L /\ End(L, k) \in 3 * k - 2 .. L
      /\ \A k \in 2 .. n : k - 1 \in 1 .. n /\ End(L, k - 1) = 3 * k - 3
  BY <1>1, PiecesAre
<1>3. Arriving(o) = Seqs!FlattenSeq(ss)
  <2>1. SendCalls(o) = midi_send_array(a)
    BY DEF SendCalls
  <2>2. DOMAIN midi_send_array(a) = 1 .. n
    BY DEF midi_send_array, Pieces
  <2> QED  BY <2>1, <2>2 DEF Arriving
<1> HIDE DEF n
<1>4. \A k \in 1 .. n : ss[k] = SubSeq(a, 3 * k - 2, End(L, k))
  BY RoundCarried DEF n
<1>5. Len(ss) = n
  <2>1. ss = [k \in 1 .. n |-> ss[k]]
    OBVIOUS
  <2> HIDE DEF ss
  <2> QED  BY <1>2, <2>1, FunctionSeq
<1>6. g = [k \in 1 .. n |-> g[k]]
  OBVIOUS
<1>7. 1 \in 1 .. n /\ g[1] = ss[1]
  <2>1. 1 \in 1 .. n /\ 3 * 1 - 2 = 1
    BY <1>2
  <2> QED  BY <1>4, <2>1
<1>8. ASSUME NEW k \in 2 .. n PROVE g[k] = g[k - 1] \o ss[k]
  <2>1. k \in 1 .. n /\ k - 1 \in 1 .. n /\ End(L, k - 1) = 3 * k - 3 /\ (3 * k - 3) + 1 = 3 * k - 2
    BY <1>2
  <2>2. g[k] = SubSeq(a, 1, End(L, k)) /\ g[k - 1] = SubSeq(a, 1, 3 * k - 3)
    BY <2>1
  <2>3. ss[k] = SubSeq(a, (3 * k - 3) + 1, End(L, k))
    BY <1>4, <2>1
  <2>4. 3 * k - 3 \in 0 .. Len(a) /\ End(L, k) \in 3 * k - 3 .. Len(a)
    <3>1. k \in Nat /\ k >= 2 /\ 3 * k - 2 <= L /\ End(L, k) \in 3 * k - 2 .. L
      BY <1>2, <2>1, SMTT(30)
    <3> QED  BY <1>1, <3>1
  <2> HIDE DEF g, ss
  <2>5. SubSeq(a, 1, 3 * k - 3) \o SubSeq(a, (3 * k - 3) + 1, End(L, k)) = SubSeq(a, 1, End(L, k))
    BY <1>1, <2>4, PartsJoin
  <2> QED  BY <2>2, <2>3, <2>5
<1>9. g[n] = SubSeq(a, 1, L)
  BY <1>2
<1> HIDE DEF g, ss
<1>10. Seqs!FlattenSeq(ss) = g[n]
  <2>1. Grows(g, ss, n)
    BY <1>2, <1>5, <1>6, <1>7, <1>8 DEF Grows
  <2> QED  BY <2>1, FlattenIs
<1>11. SubSeq(a, 1, L) = a
  <2>1. 1 \in 1 .. Len(a) + 1 /\ L \in 0 .. Len(a) /\ 1 <= L + 1 /\ L - 1 + 1 = L
    BY <1>1
  <2>2. /\ IsSeq(SubSeq(a, 1, L)) /\ Len(SubSeq(a, 1, L)) = L - 1 + 1
        /\ \A i \in 1 .. L - 1 + 1 : SubSeq(a, 1, L)[i] = a[1 + i - 1]
    BY <1>1, <2>1, PartIs
  <2>3. \A i \in 1 .. L : SubSeq(a, 1, L)[i] = a[i]
    BY <2>1, <2>2
  <2> QED  BY <1>1, <2>1, <2>2, <2>3, SameSeq
<1> QED  BY <1>3, <1>9, <1>10, <1>11

(* Byte by byte, on a serial line. *)
LEMMA BytesArrive ==
    ASSUME cable = "serial", NEW a, IsSysex(a), NEW o, o = <<"bytes", a>>
    PROVE  Arriving(o) = a
<1> DEFINE L == Len(a)
           ss == [k \in 1 .. L |-> CableBytes(midi_send_byte(a[k]))]
           g == [k \in 1 .. L |-> SubSeq(a, 1, k)]
<1>1. IsSeq(a) /\ L \in Nat \ {0} /\ DOMAIN a = 1 .. L
  BY SysexIs, SeqIs
<1>2. Arriving(o) = Seqs!FlattenSeq(ss)
  <2>1. SendCalls(o) = [k \in 1 .. L |-> midi_send_byte(a[k])]
    BY <1>1 DEF SendCalls
  <2> QED  BY <2>1 DEF Arriving
<1>3. ASSUME NEW k \in 1 .. L PROVE ss[k] = SubSeq(a, k, k) /\ ss[k] = <<a[k]>>
  <2>1. ss[k] = SubSeq(<<a[k], 0, 0>>, 1, 1)
    BY SerialIs DEF midi_send_byte
  <2>2. SubSeq(<<a[k], 0, 0>>, 1, 1) = <<a[k]>>
    <3> DEFINE u == <<a[k], 0, 0>>
    <3>1. u \in [1 .. 3 -> Uint8]
      <4>1. a[k] \in Uint8
        BY SysexIs
      <4>2. 0 \in Uint8
        BY DEF Uint8
      <4> QED  BY <4>1, <4>2
    <3>2. SubSeq(u, 1, 1) = <<u[1]>>
      BY <3>1, FirstBytes
    <3> QED  BY <3>2
  <2>3. SubSeq(a, k, k) = <<a[k]>>
    <3>1. k \in 1 .. Len(a) + 1 /\ k \in 0 .. Len(a) /\ k <= k + 1 /\ k - k + 1 = 1
      BY <1>1
    <3>2. IsSeq(SubSeq(a, k, k)) /\ Len(SubSeq(a, k, k)) = k - k + 1
          /\ \A i \in 1 .. k - k + 1 : SubSeq(a, k, k)[i] = a[k + i - 1]
      BY <1>1, <3>1, PartIs
    <3>3. Len(SubSeq(a, k, k)) = 1 /\ SubSeq(a, k, k)[1] = a[k]
      BY <3>1, <3>2
    <3>4. IsSeq(<<a[k]>>) /\ Len(<<a[k]>>) = 1 /\ <<a[k]>>[1] = a[k]
      <4>1. <<a[k]>> \in Seq({a[k]})
        OBVIOUS
      <4> QED  BY <4>1 DEF IsSeq
    <3>5. \A i \in 1 .. 1 : SubSeq(a, k, k)[i] = <<a[k]>>[i]
      BY <3>3, <3>4
    <3> QED  BY <3>2, <3>3, <3>4, <3>5, SameSeq
  <2> QED  BY <2>1, <2>2, <2>3
<1>4. Len(ss) = L
  <2>1. ss = [k \in 1 .. L |-> ss[k]]
    OBVIOUS
  <2> HIDE DEF ss
  <2> QED  BY <1>1, <2>1, FunctionSeq
<1>5. g = [k \in 1 .. L |-> g[k]] /\ g[1] = ss[1]
  <2>1. 1 \in 1 .. L
    BY <1>1
  <2>2. g[1] = SubSeq(a, 1, 1)
    BY <2>1
  <2>3. ss[1] = SubSeq(a, 1, 1)
    BY <1>3, <2>1
  <2> QED  BY <2>2, <2>3
<1>6. ASSUME NEW k \in 2 .. L PROVE g[k] = g[k - 1] \o ss[k]
  <2>1. k \in 1 .. L /\ k - 1 \in 1 .. L /\ k - 1 \in 0 .. L /\ k \in k - 1 .. L /\ (k - 1) + 1 = k
    BY <1>1
  <2>2. g[k] = SubSeq(a, 1, k) /\ g[k - 1] = SubSeq(a, 1, k - 1)
    BY <2>1
  <2>3. ss[k] = SubSeq(a, (k - 1) + 1, k)
    BY <1>3, <2>1
  <2> HIDE DEF g, ss
  <2>4. SubSeq(a, 1, k - 1) \o SubSeq(a, (k - 1) + 1, k) = SubSeq(a, 1, k)
    BY <1>1, <2>1, PartsJoin
  <2> QED  BY <2>2, <2>3, <2>4
<1>7. g[L] = SubSeq(a, 1, L)
  BY <1>1
<1> HIDE DEF g, ss
<1>8. Seqs!FlattenSeq(ss) = g[L]
  <2>1. Grows(g, ss, L)
    BY <1>1, <1>4, <1>5, <1>6 DEF Grows
  <2> QED  BY <2>1, FlattenIs
<1>9. SubSeq(a, 1, L) = a
  <2>1. 1 \in 1 .. Len(a) + 1 /\ L \in 0 .. Len(a) /\ 1 <= L + 1 /\ L - 1 + 1 = L
    BY <1>1
  <2>2. /\ IsSeq(SubSeq(a, 1, L)) /\ Len(SubSeq(a, 1, L)) = L - 1 + 1
        /\ \A i \in 1 .. L - 1 + 1 : SubSeq(a, 1, L)[i] = a[1 + i - 1]
    BY <1>1, <2>1, PartIs
  <2>3. \A i \in 1 .. L : SubSeq(a, 1, L)[i] = a[i]
    BY <2>1, <2>2
  <2> QED  BY <1>1, <2>1, <2>2, <2>3, SameSeq
<1> QED  BY <1>2, <1>7, <1>8, <1>9

-----------------------------------------------------------------------------
(* The listener as a receiver of MidiStream: the status in force, the data *)
(* and the offset, and the message the last byte completed, if it did, and *)
(* whether that is a piece of a system exclusive message.                  *)

State(s, d, o, m, c) == [status |-> s, data |-> d, offset |-> o, said |-> m, piece |-> c]

NextState(r, b) ==
    IF midi_is_realtime(b) THEN State(r.status, r.data, r.offset, <<0, <<b>>>>, FALSE)
    ELSE IF b = SYSEX_BEGIN THEN State(b, <<b>>, 0, <<>>, FALSE)
    ELSE IF b = SYSEX_END THEN State(256, <<>>, 0, <<r.offset, Append(r.data, b)>>, TRUE)
    ELSE IF midi_packet_length(b) = ONE THEN State(256, <<>>, 0, <<0, <<b>>>>, FALSE)
    ELSE IF midi_is_statusbyte(b) THEN State(b, <<>>, 0, <<>>, FALSE)
    ELSE IF r.status = SYSEX_BEGIN
    THEN IF Len(r.data) = 2
         THEN State(r.status, <<>>, r.offset + 3, <<r.offset, Append(r.data, b)>>, TRUE)
         ELSE State(r.status, Append(r.data, b), r.offset, <<>>, FALSE)
    ELSE IF Len(r.data) + 2 = midi_packet_length(r.status)
    THEN State(r.status, <<>>, r.offset, <<0, <<r.status>> \o Append(r.data, b)>>, FALSE)
    ELSE State(r.status, Append(r.data, b), r.offset, <<>>, FALSE)

(* The bytes the send functions cause: every message is finished, and a    *)
(* system exclusive one fits the count.                                    *)
Fine(r, b) ==
    /\ b \in Uint8
    /\ cable = "serial" => b # MIDI_CLOCK
    /\ b = SYSEX_END => r.status = SYSEX_BEGIN
    /\ ~midi_is_statusbyte(b) => r.status # 256
    /\ midi_is_statusbyte(b) /\ midi_packet_length(b) = UNDEFINED =>
           b \in {SYSEX_BEGIN, SYSEX_END} \/ midi_is_realtime(b)
    /\ r.status = SYSEX_BEGIN =>
           \/ midi_is_realtime(b)
           \/ (b = SYSEX_END \/ ~midi_is_statusbyte(b)) /\ r.offset + Len(r.data) + 1 < CountRange

(* The call that a message causes.                                         *)
Args(bytes) == [i \in 1 .. Len(bytes) |-> IF i = 1 THEN Unchanneled(bytes[1]) ELSE bytes[i]]

Tells(said, piece, call) ==
    IF piece THEN call = <<"sysex", said>>
    ELSE \/ \E e \in Dispatch : /\ e[1] = Len(said[2]) /\ e[2] = Kind(said[2][1])
                                /\ call = Meaning(e[3], Args(said[2]))
         \/ /\ Len(said[2]) = 1 /\ midi_is_realtime(said[2][1])
            /\ call = Meaning("realtime", Args(said[2]))

(* One byte more, and the calls d of which t, then u have been caused.     *)
Link(r, t, b, s, u, d) ==
    /\ Fine(r, b) /\ s = NextState(r, b)
    /\ s.said = <<>> => u = t
    /\ s.said # <<>> => u = t + 1 /\ u \in 1 .. Len(d) /\ Tells(s.said, s.piece, d[u])

Trace(run, told, p, d) ==
    /\ \A i \in 1 .. Len(p), j \in 0 .. Len(p) :
           i = j + 1 => Link(run[j], told[j], p[i], run[i], told[i], d)
    /\ \A i \in 0 .. Len(p) : told[i] \in 0 .. Len(d)
    /\ \A i, j \in 0 .. Len(p) : i <= j => told[i] <= told[j]
    /\ told[Len(p)] = Len(d) /\ run[Len(p)].status # SYSEX_BEGIN

(* From state r on, the bytes p cause the calls of d that come after the   *)
(* first t of them, and leave no message unfinished.                       *)
Causes(r, p, t, d) ==
    \E run, told : Trace(run, told, p, d) /\ run[0] = r /\ told[0] = t

LEMMA CausesNone ==
    ASSUME NEW r, r.status # SYSEX_BEGIN, NEW d, IsSeq(d)
    PROVE  Causes(r, <<>>, Len(d), d)
<1> DEFINE run  == [i \in 0 .. 0 |-> r]
           told == [i \in 0 .. 0 |-> Len(d)]
<1>1. run[0] = r /\ told[0] = Len(d) /\ Len(d) \in Nat
  BY SeqIs
<1>2. \A i \in 0 .. 0 : i = 0
  OBVIOUS
<1>3. Len(<<>>) = 0 /\ 1 .. 0 = {}
  OBVIOUS
<1> HIDE DEF run, told
<1>4. Trace(run, told, <<>>, d)
  BY <1>1, <1>2, <1>3 DEF Trace
<1> QED  BY <1>1, <1>4 DEF Causes

LEMMA CausesHead ==
    ASSUME NEW r, NEW p, IsSeq(p), p # <<>>, NEW t, NEW d, IsSeq(d), Causes(r, p, t, d)
    PROVE  \E s, u : Link(r, t, Head(p), s, u, d) /\ u \in t .. Len(d) /\ Causes(s, Tail(p), u, d)
<1>1. PICK run, told : Trace(run, told, p, d) /\ run[0] = r /\ told[0] = t
  BY DEF Causes
<1>2. PICK n \in Nat : Len(p) = n + 1
  <2>1. Len(p) \in Nat \ {0}
    BY SeqIs
  <2>2. Len(p) - 1 \in Nat /\ Len(p) = (Len(p) - 1) + 1
    BY <2>1
  <2> QED  BY <2>2
<1>3. Len(d) \in Nat
  BY SeqIs
<1>4. Head(p) = p[1] /\ Len(Tail(p)) = n /\ \A i \in 1 .. n : Tail(p)[i] = p[i + 1]
  <2>1. /\ Head(p) = p[1] /\ Len(Tail(p)) = Len(p) - 1
        /\ \A i \in 1 .. Len(Tail(p)) : Tail(p)[i] = p[i + 1]
    BY SeqIs
  <2>2. Len(Tail(p)) = n
    BY <1>2, <2>1
  <2> QED  BY <2>1, <2>2
<1>5. /\ \A i \in 1 .. n + 1, j \in 0 .. n + 1 :
             i = j + 1 => Link(run[j], told[j], p[i], run[i], told[i], d)
      /\ \A i \in 0 .. n + 1 : told[i] \in 0 .. Len(d)
      /\ \A i, j \in 0 .. n + 1 : i <= j => told[i] <= told[j]
      /\ told[n + 1] = Len(d) /\ run[n + 1].status # SYSEX_BEGIN
  BY <1>1, <1>2 DEF Trace
<1> DEFINE run2  == [i \in 0 .. n |-> run[i + 1]]
           told2 == [i \in 0 .. n |-> told[i + 1]]
<1>6. \A i \in 0 .. n : run2[i] = run[i + 1] /\ told2[i] = told[i + 1] /\ i + 1 \in 0 .. n + 1
  BY <1>2
<1> HIDE DEF run2, told2
<1>7. Trace(run2, told2, Tail(p), d)
  <2>1. ASSUME NEW i \in 1 .. n, NEW j \in 0 .. n, i = j + 1
        PROVE  Link(run2[j], told2[j], Tail(p)[i], run2[i], told2[i], d)
    <3>1. i + 1 \in 1 .. n + 1 /\ j + 1 \in 0 .. n + 1 /\ i + 1 = (j + 1) + 1 /\ i \in 0 .. n
      BY <1>2, <2>1
    <3>2. Link(run[j + 1], told[j + 1], p[i + 1], run[i + 1], told[i + 1], d)
      BY <1>5, <3>1
    <3> QED  BY <1>4, <1>6, <3>1, <3>2
  <2>2. \A i \in 0 .. n : told2[i] \in 0 .. Len(d)
    BY <1>5, <1>6
  <2>3. ASSUME NEW i \in 0 .. n, NEW j \in 0 .. n, i <= j PROVE told2[i] <= told2[j]
    <3>1. i + 1 <= j + 1
      BY <1>2, <2>3
    <3> QED  BY <1>5, <1>6, <3>1
  <2>4. n \in 0 .. n
    BY <1>2
  <2>5. told2[n] = Len(d) /\ run2[n].status # SYSEX_BEGIN
    BY <1>5, <1>6, <2>4
  <2> QED  BY <1>4, <2>1, <2>2, <2>3, <2>5 DEF Trace
<1>8. 0 \in 0 .. n /\ 0 \in 0 .. n + 1 /\ 1 \in 0 .. n + 1 /\ 1 \in 1 .. n + 1 /\ 1 = 0 + 1 /\ 0 <= 1
  BY <1>2
<1>9. run2[0] = run[1] /\ told2[0] = told[1]
  BY <1>6, <1>8
<1>10. Causes(run[1], Tail(p), told[1], d)
  BY <1>7, <1>9 DEF Causes
<1>11. Link(r, t, Head(p), run[1], told[1], d)
  BY <1>1, <1>4, <1>5, <1>8
<1>12. told[1] \in t .. Len(d)
  <2>1. told[0] <= told[1] /\ told[0] \in 0 .. Len(d) /\ told[1] \in 0 .. Len(d)
    BY <1>5, <1>8
  <2> QED  BY <1>1, <1>3, <2>1
<1> QED  BY <1>10, <1>11, <1>12

LEMMA CausesCons ==
    ASSUME NEW r, NEW p, IsSeq(p), p # <<>>, NEW d, IsSeq(d), NEW t \in 0 .. Len(d), NEW s, NEW u,
           Link(r, t, Head(p), s, u, d), Causes(s, Tail(p), u, d)
    PROVE  Causes(r, p, t, d)
<1>1. PICK run, told : Trace(run, told, Tail(p), d) /\ run[0] = s /\ told[0] = u
  BY DEF Causes
<1>2. PICK n \in Nat : Len(p) = n + 1
  <2>1. Len(p) \in Nat \ {0}
    BY SeqIs
  <2>2. Len(p) - 1 \in Nat /\ Len(p) = (Len(p) - 1) + 1
    BY <2>1
  <2> QED  BY <2>2
<1>3. Len(d) \in Nat
  BY SeqIs
<1>4. Head(p) = p[1] /\ Len(Tail(p)) = n /\ \A i \in 1 .. n : Tail(p)[i] = p[i + 1]
  <2>1. /\ Head(p) = p[1] /\ Len(Tail(p)) = Len(p) - 1
        /\ \A i \in 1 .. Len(Tail(p)) : Tail(p)[i] = p[i + 1]
    BY SeqIs
  <2>2. Len(Tail(p)) = n
    BY <1>2, <2>1
  <2> QED  BY <2>1, <2>2
<1>5. /\ \A i \in 1 .. n, j \in 0 .. n :
             i = j + 1 => Link(run[j], told[j], Tail(p)[i], run[i], told[i], d)
      /\ \A i \in 0 .. n : told[i] \in 0 .. Len(d)
      /\ \A i, j \in 0 .. n : i <= j => told[i] <= told[j]
      /\ told[n] = Len(d) /\ run[n].status # SYSEX_BEGIN
  BY <1>1, <1>4 DEF Trace
<1> DEFINE run2  == [i \in 0 .. n + 1 |-> IF i = 0 THEN r ELSE run[i - 1]]
           told2 == [i \in 0 .. n + 1 |-> IF i = 0 THEN t ELSE told[i - 1]]
<1>6. \A i \in 0 .. n : run2[i + 1] = run[i] /\ told2[i + 1] = told[i]
  <2> TAKE i \in 0 .. n
  <2>1. i + 1 \in 0 .. n + 1 /\ i + 1 # 0 /\ (i + 1) - 1 = i
    BY <1>2
  <2> QED  BY <2>1
<1>7. run2[0] = r /\ told2[0] = t
  BY <1>2
<1> HIDE DEF run2, told2
<1>8. \A i \in 0 .. n + 1 : i = 0 \/ \E l \in 0 .. n : i = l + 1
  <2> SUFFICES ASSUME NEW i \in 0 .. n + 1, i # 0 PROVE \E l \in 0 .. n : i = l + 1
    OBVIOUS
  <2>1. i - 1 \in 0 .. n /\ i = (i - 1) + 1
    BY <1>2
  <2> QED  BY <2>1
<1>9. t <= u /\ 0 \in 0 .. n /\ n \in 0 .. n
  <2>1. u = t \/ u = t + 1
    BY DEF Link
  <2> QED  BY <1>2, <1>3, <2>1
<1>10. \A i \in 0 .. n + 1 : told2[i] \in 0 .. Len(d)
  BY <1>5, <1>6, <1>7, <1>8
<1>11. ASSUME NEW i \in 0 .. n + 1, NEW j \in 0 .. n + 1, i <= j PROVE told2[i] <= told2[j]
  <2>1. CASE i = 0 /\ j = 0
    BY <1>3, <1>7, <2>1
  <2>2. CASE i = 0 /\ j # 0
    <3>1. PICK l \in 0 .. n : j = l + 1
      BY <1>8, <2>2
    <3>2. u <= told[l] /\ told[l] \in 0 .. Len(d) /\ u \in 0 .. Len(d)
      BY <1>1, <1>5, <1>9
    <3>3. told2[i] = t /\ told2[j] = told[l]
      BY <1>6, <1>7, <2>2, <3>1
    <3> QED  BY <1>3, <1>9, <3>2, <3>3
  <2>3. CASE i # 0
    <3>1. PICK k \in 0 .. n : i = k + 1
      BY <1>8, <2>3
    <3>2. j # 0
      BY <1>2, <1>11, <2>3
    <3>3. PICK l \in 0 .. n : j = l + 1
      BY <1>8, <3>2
    <3>4. k <= l
      BY <1>2, <1>11, <3>1, <3>3
    <3> QED  BY <1>5, <1>6, <3>1, <3>3, <3>4
  <2> QED  BY <2>1, <2>2, <2>3
<1>12. ASSUME NEW i \in 1 .. n + 1, NEW j \in 0 .. n + 1, i = j + 1
       PROVE  Link(run2[j], told2[j], p[i], run2[i], told2[i], d)
  <2>1. CASE j = 0
    <3>1. i = 0 + 1
      BY <1>12, <2>1
    <3>2. run2[i] = s /\ told2[i] = u
      BY <1>1, <1>6, <1>9, <3>1
    <3>3. p[i] = Head(p)
      BY <1>4, <3>1
    <3> QED  BY <1>7, <2>1, <3>2, <3>3
  <2>2. CASE j # 0
    <3>1. PICK l \in 0 .. n : j = l + 1
      BY <1>8, <2>2
    <3>2. j \in 1 .. n /\ j \in 0 .. n
      BY <1>2, <1>12, <3>1
    <3>3. Link(run[l], told[l], Tail(p)[j], run[j], told[j], d)
      BY <1>5, <3>1, <3>2
    <3>4. Tail(p)[j] = p[i]
      BY <1>4, <1>12, <3>2
    <3>5. run2[j] = run[l] /\ told2[j] = told[l] /\ run2[i] = run[j] /\ told2[i] = told[j]
      BY <1>6, <1>12, <3>1, <3>2
    <3> QED  BY <3>3, <3>4, <3>5
  <2> QED  BY <2>1, <2>2
<1>13. told2[n + 1] = Len(d) /\ run2[n + 1].status # SYSEX_BEGIN
  BY <1>5, <1>6, <1>9
<1>14. Trace(run2, told2, p, d)
  BY <1>2, <1>10, <1>11, <1>12, <1>13 DEF Trace
<1> QED  BY <1>7, <1>14 DEF Causes

(* The first call of d has been made.                                      *)
LEMMA CausesRest ==
    ASSUME NEW r, NEW p, IsSeq(p), NEW d, IsSeq(d), d # <<>>, Causes(r, p, 1, d)
    PROVE  Causes(r, p, 0, Tail(d))
<1>1. PICK run, told : Trace(run, told, p, d) /\ run[0] = r /\ told[0] = 1
  BY DEF Causes
<1>2. PICK n \in Nat : n = Len(p)
  BY SeqIs
<1>3. PICK m \in Nat : /\ Len(d) = m + 1 /\ Len(Tail(d)) = m
                       /\ \A i \in 1 .. m : Tail(d)[i] = d[i + 1]
  <2>1. /\ Len(d) \in Nat \ {0} /\ Len(Tail(d)) = Len(d) - 1
        /\ \A i \in 1 .. Len(Tail(d)) : Tail(d)[i] = d[i + 1]
    BY SeqIs
  <2>2. Len(Tail(d)) \in Nat /\ Len(d) = Len(Tail(d)) + 1
    BY <2>1
  <2> QED  BY <2>1, <2>2
<1>4. /\ \A i \in 1 .. n, j \in 0 .. n :
             i = j + 1 => Link(run[j], told[j], p[i], run[i], told[i], d)
      /\ \A i \in 0 .. n : told[i] \in 0 .. m + 1
      /\ \A i, j \in 0 .. n : i <= j => told[i] <= told[j]
      /\ told[n] = m + 1 /\ run[n].status # SYSEX_BEGIN
  BY <1>1, <1>2, <1>3 DEF Trace
<1> DEFINE told2 == [i \in 0 .. n |-> told[i] - 1]
<1>5. \A i \in 0 .. n : told2[i] = told[i] - 1
  OBVIOUS
<1> HIDE DEF told2
<1>6. 0 \in 0 .. n /\ n \in 0 .. n
  BY <1>2
<1>7. \A i \in 0 .. n : told[i] \in 1 .. m + 1 /\ told2[i] \in 0 .. m /\ told[i] = told2[i] + 1
  <2> TAKE i \in 0 .. n
  <2>1. told[0] <= told[i] /\ told[i] \in 0 .. m + 1
    BY <1>2, <1>4, <1>6
  <2> QED  BY <1>1, <1>3, <1>5, <2>1
<1>8. \A i, j \in 0 .. n : i <= j => told2[i] <= told2[j]
  <2> SUFFICES ASSUME NEW i \in 0 .. n, NEW j \in 0 .. n, i <= j PROVE told2[i] <= told2[j]
    OBVIOUS
  <2>1. told[i] <= told[j] /\ told[i] \in 1 .. m + 1 /\ told[j] \in 1 .. m + 1
    BY <1>4, <1>7
  <2> QED  BY <1>3, <1>5, <2>1
<1>9. ASSUME NEW i \in 1 .. n, NEW j \in 0 .. n, i = j + 1
      PROVE  Link(run[j], told2[j], p[i], run[i], told2[i], Tail(d))
  <2>1. Link(run[j], told[j], p[i], run[i], told[i], d)
    BY <1>4, <1>9
  <2>2. i \in 0 .. n
    BY <1>2
  <2>3. /\ told2[i] \in 0 .. m /\ told[i] = told2[i] + 1
        /\ told2[j] \in 0 .. m /\ told[j] = told2[j] + 1
    BY <1>7, <2>2
  <2>4. Fine(run[j], p[i]) /\ run[i] = NextState(run[j], p[i])
    BY <2>1 DEF Link
  <2>5. run[i].said = <<>> => told2[i] = told2[j]
    <3>1. run[i].said = <<>> => told[i] = told[j]
      BY <2>1 DEF Link
    <3> QED  BY <2>3, <3>1, <1>3
  <2>6. ASSUME run[i].said # <<>>
        PROVE  /\ told2[i] = told2[j] + 1 /\ told2[i] \in 1 .. m
               /\ Tells(run[i].said, run[i].piece, Tail(d)[told2[i]])
    <3>1. told[i] = told[j] + 1 /\ Tells(run[i].said, run[i].piece, d[told[i]])
      BY <2>1, <2>6 DEF Link
    <3>2. told2[i] = told2[j] + 1 /\ told2[i] \in 1 .. m
      BY <1>3, <2>3, <3>1
    <3> QED  BY <1>3, <2>3, <3>1, <3>2
  <2> QED  BY <1>3, <2>4, <2>5, <2>6 DEF Link
<1>10. told2[n] = m
  BY <1>3, <1>4, <1>5, <1>6
<1>11. Trace(run, told2, p, Tail(d))
  BY <1>2, <1>3, <1>4, <1>7, <1>8, <1>9, <1>10 DEF Trace
<1>12. told2[0] = 0
  BY <1>1, <1>5, <1>6
<1> QED  BY <1>1, <1>11, <1>12 DEF Causes

LEMMA OneOn ==
    ASSUME NEW D \in Nat, NEW E \in Nat, NEW x \in Nat, NEW y \in 1 .. E, y = x + 1
    PROVE  y + D = (x + D) + 1 /\ y + D \in 1 .. D + E
  OBVIOUS

(* What more bytes cause is added to it.                                   *)
LEMMA CausesJoin ==
    ASSUME NEW r, NEW p, IsSeq(p), NEW q, IsSeq(q), NEW t, NEW d, IsSeq(d), NEW e, IsSeq(e),
           Causes(r, p, t, d), \A s : s.status # SYSEX_BEGIN => Causes(s, q, 0, e)
    PROVE  Causes(r, p \o q, t, d \o e)
<1>1. PICK run1, told1 : Trace(run1, told1, p, d) /\ run1[0] = r /\ told1[0] = t
  BY DEF Causes
<1>2. PICK n \in Nat, m \in Nat, D \in Nat, E \in Nat :
          n = Len(p) /\ m = Len(q) /\ D = Len(d) /\ E = Len(e)
  BY SeqIs
<1>3. /\ \A i \in 1 .. n, j \in 0 .. n :
             i = j + 1 => Link(run1[j], told1[j], p[i], run1[i], told1[i], d)
      /\ \A i \in 0 .. n : told1[i] \in 0 .. D
      /\ \A i, j \in 0 .. n : i <= j => told1[i] <= told1[j]
      /\ told1[n] = D /\ run1[n].status # SYSEX_BEGIN
  BY <1>1, <1>2 DEF Trace
<1>4. PICK run2, told2 : Trace(run2, told2, q, e) /\ run2[0] = run1[n] /\ told2[0] = 0
  BY <1>3 DEF Causes
<1>5. /\ \A i \in 1 .. m, j \in 0 .. m :
             i = j + 1 => Link(run2[j], told2[j], q[i], run2[i], told2[i], e)
      /\ \A i \in 0 .. m : told2[i] \in 0 .. E
      /\ \A i, j \in 0 .. m : i <= j => told2[i] <= told2[j]
      /\ told2[m] = E /\ run2[m].status # SYSEX_BEGIN
  BY <1>2, <1>4 DEF Trace
<1>6. /\ Len(p \o q) = n + m
      /\ \A i \in 1 .. n : (p \o q)[i] = p[i]
      /\ \A i \in 1 .. m : (p \o q)[n + i] = q[i]
  BY <1>2, ConcatIs
<1>7. /\ Len(d \o e) = D + E
      /\ \A i \in 1 .. D : (d \o e)[i] = d[i]
      /\ \A i \in 1 .. E : (d \o e)[D + i] = e[i]
  BY <1>2, ConcatIs
<1> DEFINE run  == [i \in 0 .. n + m |-> IF i <= n THEN run1[i] ELSE run2[i - n]]
           told == [i \in 0 .. n + m |-> IF i <= n THEN told1[i] ELSE told2[i - n] + D]
<1>8. \A i \in 0 .. n : run[i] = run1[i] /\ told[i] = told1[i]
  BY <1>2
<1>9. ASSUME NEW k \in 0 .. m PROVE run[n + k] = run2[k] /\ told[n + k] = told2[k] + D
  <2>1. CASE k = 0
    <3>1. n + k = n /\ n \in 0 .. n
      BY <1>2, <2>1
    <3>2. told2[k] + D = D
      BY <1>2, <1>4, <2>1
    <3> QED  BY <1>3, <1>4, <1>8, <2>1, <3>1, <3>2
  <2>2. CASE k # 0
    <3>1. n + k \in 0 .. n + m /\ ~(n + k <= n) /\ (n + k) - n = k
      BY <1>2, <2>2
    <3> QED  BY <3>1
  <2> QED  BY <2>1, <2>2
<1> HIDE DEF run, told
<1>10. \A i \in 0 .. n + m : i \in 0 .. n \/ \E k \in 1 .. m : i = n + k
  <2> SUFFICES ASSUME NEW i \in 0 .. n + m, i \notin 0 .. n PROVE \E k \in 1 .. m : i = n + k
    OBVIOUS
  <2>1. i - n \in 1 .. m /\ i = n + (i - n)
    BY <1>2
  <2> QED  BY <2>1
<1>11. \A i \in 0 .. n + m : told[i] \in 0 .. D + E
  <2> TAKE i \in 0 .. n + m
  <2>1. CASE i \in 0 .. n
    <3>1. told[i] = told1[i] /\ told1[i] \in 0 .. D
      BY <1>3, <1>8, <2>1
    <3> QED  BY <1>2, <3>1
  <2>2. CASE i \notin 0 .. n
    <3>1. PICK k \in 1 .. m : i = n + k
      BY <1>10, <2>2
    <3>2. told[i] = told2[k] + D /\ told2[k] \in 0 .. E
      BY <1>2, <1>5, <1>9, <3>1
    <3> QED  BY <1>2, <3>2
  <2> QED  BY <2>1, <2>2
<1>12. ASSUME NEW i \in 0 .. n + m, NEW j \in 0 .. n + m, i <= j PROVE told[i] <= told[j]
  <2>1. CASE j \in 0 .. n
    <3>1. i \in 0 .. n
      BY <1>2, <1>12, <2>1
    <3> QED  BY <1>3, <1>8, <1>12, <2>1, <3>1
  <2>2. CASE j \notin 0 .. n
    <3>1. PICK l \in 1 .. m : j = n + l
      BY <1>10, <2>2
    <3>2. told[j] = told2[l] + D /\ told2[l] \in 0 .. E
      BY <1>2, <1>5, <1>9, <3>1
    <3>3. CASE i \in 0 .. n
      <4>1. told[i] \in 0 .. D
        BY <1>3, <1>8, <3>3
      <4> QED  BY <1>2, <3>2, <4>1
    <3>4. CASE i \notin 0 .. n
      <4>1. PICK k \in 1 .. m : i = n + k
        BY <1>10, <3>4
      <4>2. k <= l /\ k \in 0 .. m /\ l \in 0 .. m
        BY <1>2, <1>12, <3>1, <4>1
      <4>3. told[i] = told2[k] + D /\ told2[k] \in 0 .. E /\ told2[k] <= told2[l]
        BY <1>5, <1>9, <4>1, <4>2
      <4> QED  BY <1>2, <3>2, <4>3
    <3> QED  BY <3>3, <3>4
  <2> QED  BY <2>1, <2>2
<1>13. ASSUME NEW i \in 1 .. n + m, NEW j \in 0 .. n + m, i = j + 1
       PROVE  Link(run[j], told[j], (p \o q)[i], run[i], told[i], d \o e)
  <2>1. CASE i \in 0 .. n
    <3>1. i \in 1 .. n /\ j \in 0 .. n
      BY <1>2, <1>13, <2>1
    <3>2. Link(run[j], told[j], (p \o q)[i], run[i], told[i], d)
      <4>1. Link(run1[j], told1[j], p[i], run1[i], told1[i], d)
        BY <1>3, <1>13, <3>1
      <4>2. /\ run[j] = run1[j] /\ told[j] = told1[j]
            /\ run[i] = run1[i] /\ told[i] = told1[i] /\ (p \o q)[i] = p[i]
        BY <1>6, <1>8, <2>1, <3>1
      <4> QED  BY <4>1, <4>2
    <3>3. \A x \in 1 .. Len(d) : (d \o e)[x] = d[x] /\ x \in 1 .. Len(d \o e)
      BY <1>2, <1>7
    <3> QED  BY <3>2, <3>3 DEF Link
  <2>2. CASE i \notin 0 .. n
    <3>1. PICK k \in 1 .. m : i = n + k
      BY <1>2, <1>10, <2>2
    <3>2. PICK l \in 0 .. m : j = n + l /\ k = l + 1 /\ k \in 0 .. m
      <4>1. k - 1 \in 0 .. m /\ j = n + (k - 1) /\ k = (k - 1) + 1 /\ k \in 0 .. m
        BY <1>2, <1>13, <3>1
      <4> QED  BY <4>1
    <3>3. Link(run2[l], told2[l], q[k], run2[k], told2[k], e)
      BY <1>5, <3>2
    <3>4. /\ run[j] = run2[l] /\ told[j] = told2[l] + D
          /\ run[i] = run2[k] /\ told[i] = told2[k] + D /\ (p \o q)[i] = q[k]
      BY <1>6, <1>9, <3>1, <3>2
    <3>5. told2[l] \in Nat /\ told2[k] \in Nat
      BY <1>2, <1>5, <3>2
    <3>6. Fine(run[j], (p \o q)[i]) /\ run[i] = NextState(run[j], (p \o q)[i])
      BY <3>3, <3>4 DEF Link
    <3>7. run[i].said = <<>> => told[i] = told[j]
      BY <3>3, <3>4 DEF Link
    <3>8. ASSUME run[i].said # <<>>
          PROVE  /\ told[i] = told[j] + 1 /\ told[i] \in 1 .. Len(d \o e)
                 /\ Tells(run[i].said, run[i].piece, (d \o e)[told[i]])
      <4>1. told2[k] = told2[l] + 1 /\ told2[k] \in 1 .. E /\ Tells(run[i].said, run[i].piece, e[told2[k]])
        BY <1>2, <3>3, <3>4, <3>8 DEF Link
      <4>2. D + told2[k] = told[i]
        BY <1>2, <3>4, <3>5
      <4>3. told[i] = told[j] + 1 /\ told[i] \in 1 .. Len(d \o e)
        <5>1. told2[k] + D = (told2[l] + D) + 1 /\ told2[k] + D \in 1 .. D + E
          BY <3>5, <4>1, OneOn, Zenon
        <5> QED  BY <1>7, <3>4, <5>1, Zenon
      <4>4. (d \o e)[told[i]] = e[told2[k]]
        BY <1>7, <4>1, <4>2
      <4> QED  BY <4>1, <4>3, <4>4
    <3> QED  BY <3>6, <3>7, <3>8 DEF Link
  <2> QED  BY <2>1, <2>2
<1>14. told[n + m] = D + E /\ run[n + m].status # SYSEX_BEGIN
  <2>1. m \in 0 .. m
    BY <1>2
  <2>2. run[n + m] = run2[m] /\ told[n + m] = told2[m] + D
    BY <1>9, <2>1
  <2> QED  BY <1>2, <1>5, <2>2
<1>15. Trace(run, told, p \o q, d \o e)
  BY <1>6, <1>7, <1>11, <1>12, <1>13, <1>14 DEF Trace
<1>16. run[0] = r /\ told[0] = t
  BY <1>1, <1>2, <1>8
<1> QED  BY <1>15, <1>16 DEF Causes

-----------------------------------------------------------------------------
(* What the operations cause, from every state outside system exclusive    *)
(* messages: what they promise.                                            *)

ClockHeard == <<"realtime", <<MIDI_CLOCK>>>>

NoClock(d) == cable = "serial" => \A i \in 1 .. Len(d) : d[i] # ClockHeard

OpCauses(p, d) ==
    /\ p \in Seq(Uint8) /\ IsSeq(d) /\ NoClock(d)
    /\ \A r : r.status # SYSEX_BEGIN => Causes(r, p, 0, d)

LEMMA TupleSeq ==
    /\ IsSeq(<<>>)
    /\ \A a : IsSeq(<<a>>) /\ <<a>> # <<>> /\ Head(<<a>>) = a /\ Tail(<<a>>) = <<>> /\ Len(<<a>>) = 1
    /\ \A a, b : IsSeq(<<a, b>>) /\ <<a, b>> # <<>> /\ Head(<<a, b>>) = a /\ Tail(<<a, b>>) = <<b>>
    /\ \A a, b, c : IsSeq(<<a, b, c>>) /\ <<a, b, c>> # <<>>
                      /\ Head(<<a, b, c>>) = a /\ Tail(<<a, b, c>>) = <<b, c>>
<1>1. IsSeq(<<>>)
  <2>1. <<>> \in Seq({})
    OBVIOUS
  <2> QED  BY <2>1 DEF IsSeq
<1>2. ASSUME NEW a
      PROVE  IsSeq(<<a>>) /\ <<a>> # <<>> /\ Head(<<a>>) = a /\ Tail(<<a>>) = <<>> /\ Len(<<a>>) = 1
  <2>1. <<a>> \in Seq({a})
    OBVIOUS
  <2>2. <<a>> # <<>> /\ Head(<<a>>) = a /\ Tail(<<a>>) = <<>> /\ Len(<<a>>) = 1
    OBVIOUS
  <2> QED  BY <2>1, <2>2 DEF IsSeq
<1>3. ASSUME NEW a, NEW b
      PROVE  IsSeq(<<a, b>>) /\ <<a, b>> # <<>> /\ Head(<<a, b>>) = a /\ Tail(<<a, b>>) = <<b>>
  <2>1. <<a, b>> \in Seq({a, b})
    OBVIOUS
  <2>2. <<a, b>> # <<>> /\ Head(<<a, b>>) = a /\ Tail(<<a, b>>) = <<b>>
    OBVIOUS
  <2> QED  BY <2>1, <2>2 DEF IsSeq
<1>4. ASSUME NEW a, NEW b, NEW c
      PROVE  IsSeq(<<a, b, c>>) /\ <<a, b, c>> # <<>>
               /\ Head(<<a, b, c>>) = a /\ Tail(<<a, b, c>>) = <<b, c>>
  <2>1. <<a, b, c>> \in Seq({a, b, c})
    OBVIOUS
  <2>2. <<a, b, c>> # <<>> /\ Head(<<a, b, c>>) = a /\ Tail(<<a, b, c>>) = <<b, c>>
    OBVIOUS
  <2> QED  BY <2>1, <2>2 DEF IsSeq
<1> QED  BY <1>1, <1>2, <1>3, <1>4

(* A status byte of a message on its own or with data bytes to come.       *)
Begins(b, cnt) ==
    /\ b \in 128 .. 255 /\ b \notin {SYSEX_BEGIN, SYSEX_END} /\ midi_packet_length(b) = cnt
    /\ midi_is_realtime(b) => cnt = 1 /\ (cable = "serial" => b # MIDI_CLOCK)

LEMMA DataHere ==
    ASSUME NEW b \in Data7
    PROVE  b \in Uint8 /\ ~midi_is_statusbyte(b) /\ ~midi_is_realtime(b)
             /\ b # SYSEX_BEGIN /\ b # SYSEX_END /\ b # MIDI_CLOCK /\ midi_packet_length(b) = UNDEFINED
<1>1. b \in Uint8 /\ ~midi_is_statusbyte(b)
  BY DEF Data7, Uint8, midi_is_statusbyte
<1>2. ~midi_is_realtime(b) /\ b # SYSEX_BEGIN /\ b # SYSEX_END /\ b # MIDI_CLOCK
  BY DEF Data7, midi_is_realtime, MIDI_CLOCK, SYSEX_BEGIN, SYSEX_END
<1> QED  BY <1>1, <1>2, PacketLengths

LEMMA StatusHere ==
    ASSUME NEW b, NEW cnt \in 1 .. 3, Begins(b, cnt)
    PROVE  b \in Uint8 /\ midi_is_statusbyte(b) /\ b # 256
  BY DEF Begins, Uint8, midi_is_statusbyte

LEMMA LinkSilent ==
    ASSUME NEW r, NEW b, NEW s, NEW t, NEW d, Fine(r, b), s = NextState(r, b), s.said = <<>>
    PROVE  Link(r, t, b, s, t, d)
  BY DEF Link

LEMMA LinkSaid ==
    ASSUME NEW r, NEW b, NEW s, NEW d, Fine(r, b), s = NextState(r, b), s.said # <<>>,
           Len(d) = 1, Tells(s.said, s.piece, d[1])
    PROVE  Link(r, 0, b, s, 1, d)
<1>1. 1 = 0 + 1 /\ 1 \in 1 .. Len(d)
  OBVIOUS
<1> QED  BY <1>1 DEF Link

LEMMA ByteCauses ==
    ASSUME NEW p, NEW b, NEW q, IsSeq(p) /\ p # <<>> /\ Head(p) = b /\ Tail(p) = q,
           NEW d, IsSeq(d), Len(d) = 1, NEW r, NEW t \in {0, 1}, NEW s, NEW u,
           Link(r, t, b, s, u, d), Causes(s, q, u, d)
    PROVE  Causes(r, p, t, d)
<1>1. t \in 0 .. Len(d)
  OBVIOUS
<1> QED  BY <1>1, CausesCons

LEMMA ThreeCause ==
    ASSUME NEW b0, NEW b1 \in Data7, NEW b2 \in Data7, Begins(b0, 3), NEW c,
           Tells(<<0, <<b0, b1, b2>>>>, FALSE, c), cable = "serial" => c # ClockHeard
    PROVE  OpCauses(<<b0, b1, b2>>, <<c>>)
<1> DEFINE d  == <<c>>
           p1 == <<b2>>
           p2 == <<b1, b2>>
           p3 == <<b0, b1, b2>>
           s1 == State(b0, <<>>, 0, <<>>, FALSE)
           s2 == State(b0, <<b1>>, 0, <<>>, FALSE)
           s3 == State(b0, <<>>, 0, <<0, <<b0, b1, b2>>>>, FALSE)
<1>1. b0 \in Uint8 /\ midi_is_statusbyte(b0) /\ b0 # 256 /\ ~midi_is_realtime(b0)
        /\ b0 # SYSEX_BEGIN /\ b0 # SYSEX_END /\ midi_packet_length(b0) = 3
        /\ (cable = "serial" => b0 # MIDI_CLOCK)
  BY StatusHere DEF Begins, midi_is_realtime
<1>2. IsSeq(d) /\ Len(d) = 1 /\ d[1] = c
  BY TupleSeq
<1>3. s3.status # SYSEX_BEGIN
  BY <1>1 DEF State
<1> HIDE DEF d
<1>4. Causes(s3, <<>>, 1, d)
  BY <1>2, <1>3, CausesNone
<1>5. Link(s2, 0, b2, s3, 1, d)
  <2>1. Append(<<b1>>, b2) = <<b1, b2>> /\ <<b0>> \o <<b1, b2>> = <<b0, b1, b2>>
    BY AppendIs
  <2>2. NextState(s2, b2) = s3
    <3>1. s2.status = b0 /\ s2.data = <<b1>> /\ s2.offset = 0 /\ Len(<<b1>>) = 1
      BY DEF State
    <3> HIDE DEF s2
    <3> QED  BY <1>1, <2>1, <3>1, DataHere DEF NextState, UNDEFINED, ONE
  <2>3. Fine(s2, b2)
    BY <1>1, DataHere DEF Fine, State
  <2>4. s3.said # <<>> /\ Tells(s3.said, s3.piece, c)
    <3>1. s3.said = <<0, <<b0, b1, b2>>>> /\ s3.piece = FALSE
      BY DEF State
    <3>2. <<0, <<b0, b1, b2>>>> # <<>>
      OBVIOUS
    <3> QED  BY <3>1, <3>2
  <2> QED  BY <1>2, <2>2, <2>3, <2>4, LinkSaid
<1>6. Link(s1, 0, b1, s2, 0, d)
  <2>1. NextState(s1, b1) = s2
    <3>1. s1.status = b0 /\ s1.data = <<>> /\ s1.offset = 0 /\ Len(<<>>) = 0 /\ Append(<<>>, b1) = <<b1>>
      BY AppendIs DEF State
    <3>2. /\ ~midi_is_realtime(b1) /\ b1 # SYSEX_BEGIN /\ b1 # SYSEX_END
          /\ midi_packet_length(b1) # 1 /\ ~midi_is_statusbyte(b1)
      BY DataHere DEF UNDEFINED
    <3> HIDE DEF s1
    <3>3. Len(s1.data) + 2 # midi_packet_length(s1.status)
      <4>1. Len(s1.data) = 0 /\ midi_packet_length(s1.status) = 3
        BY <1>1, <3>1
      <4> QED  BY <4>1
    <3> QED  BY <1>1, <3>1, <3>2, <3>3 DEF NextState, ONE
  <2>2. Fine(s1, b1)
    BY <1>1, DataHere DEF Fine, State
  <2>3. s2.said = <<>>
    BY DEF State
  <2> QED  BY <2>1, <2>2, <2>3, LinkSilent
<1>7. ASSUME NEW r, r.status # SYSEX_BEGIN PROVE Link(r, 0, b0, s1, 0, d)
  <2>1. NextState(r, b0) = s1
    BY <1>1 DEF NextState, ONE
  <2>2. Fine(r, b0)
    BY <1>1, <1>7 DEF Fine, UNDEFINED
  <2>3. s1.said = <<>>
    BY DEF State
  <2> QED  BY <2>1, <2>2, <2>3, LinkSilent
<1>8. /\ IsSeq(p1) /\ p1 # <<>> /\ Head(p1) = b2 /\ Tail(p1) = <<>>
      /\ IsSeq(p2) /\ p2 # <<>> /\ Head(p2) = b1 /\ Tail(p2) = p1
      /\ IsSeq(p3) /\ p3 # <<>> /\ Head(p3) = b0 /\ Tail(p3) = p2
  BY TupleSeq
<1>12. p3 \in Seq(Uint8)
  BY <1>1, DataHere
<1> HIDE DEF s1, s2, s3, p1, p2, p3
<1>9. Causes(s2, p1, 0, d)
  BY <1>2, <1>4, <1>5, <1>8, ByteCauses
<1>10. Causes(s1, p2, 0, d)
  BY <1>2, <1>6, <1>8, <1>9, ByteCauses
<1>11. ASSUME NEW r, r.status # SYSEX_BEGIN PROVE Causes(r, p3, 0, d)
  BY <1>2, <1>7, <1>8, <1>10, <1>11, ByteCauses
<1>13. NoClock(d)
  <2>1. \A i \in 1 .. 1 : i = 1
    OBVIOUS
  <2> QED  BY <1>2, <2>1 DEF NoClock
<1> QED  BY <1>2, <1>11, <1>12, <1>13 DEF OpCauses, d, p3

LEMMA TwoCause ==
    ASSUME NEW b0, NEW b1 \in Data7, Begins(b0, 2), NEW c,
           Tells(<<0, <<b0, b1>>>>, FALSE, c), cable = "serial" => c # ClockHeard
    PROVE  OpCauses(<<b0, b1>>, <<c>>)
<1> DEFINE d  == <<c>>
           p1 == <<b1>>
           p2 == <<b0, b1>>
           s1 == State(b0, <<>>, 0, <<>>, FALSE)
           s2 == State(b0, <<>>, 0, <<0, <<b0, b1>>>>, FALSE)
<1>1. b0 \in Uint8 /\ midi_is_statusbyte(b0) /\ b0 # 256 /\ ~midi_is_realtime(b0)
        /\ b0 # SYSEX_BEGIN /\ b0 # SYSEX_END /\ midi_packet_length(b0) = 2
        /\ (cable = "serial" => b0 # MIDI_CLOCK)
  BY StatusHere DEF Begins, midi_is_realtime
<1>2. IsSeq(d) /\ Len(d) = 1 /\ d[1] = c
  BY TupleSeq
<1>3. s2.status # SYSEX_BEGIN
  BY <1>1 DEF State
<1> HIDE DEF d
<1>4. Causes(s2, <<>>, 1, d)
  BY <1>2, <1>3, CausesNone
<1>5. Link(s1, 0, b1, s2, 1, d)
  <2>1. Append(<<>>, b1) = <<b1>> /\ <<b0>> \o <<b1>> = <<b0, b1>>
    BY AppendIs
  <2>2. NextState(s1, b1) = s2
    <3>1. s1.status = b0 /\ s1.data = <<>> /\ s1.offset = 0 /\ Len(<<>>) = 0
      BY DEF State
    <3> HIDE DEF s1
    <3> QED  BY <1>1, <2>1, <3>1, DataHere DEF NextState, UNDEFINED, ONE
  <2>3. Fine(s1, b1)
    BY <1>1, DataHere DEF Fine, State
  <2>4. s2.said # <<>> /\ Tells(s2.said, s2.piece, c)
    <3>1. s2.said = <<0, <<b0, b1>>>> /\ s2.piece = FALSE
      BY DEF State
    <3>2. <<0, <<b0, b1>>>> # <<>>
      OBVIOUS
    <3> QED  BY <3>1, <3>2
  <2> QED  BY <1>2, <2>2, <2>3, <2>4, LinkSaid
<1>7. ASSUME NEW r, r.status # SYSEX_BEGIN PROVE Link(r, 0, b0, s1, 0, d)
  <2>1. NextState(r, b0) = s1
    BY <1>1 DEF NextState, ONE
  <2>2. Fine(r, b0)
    BY <1>1, <1>7 DEF Fine, UNDEFINED
  <2>3. s1.said = <<>>
    BY DEF State
  <2> QED  BY <2>1, <2>2, <2>3, LinkSilent
<1>8. /\ IsSeq(p1) /\ p1 # <<>> /\ Head(p1) = b1 /\ Tail(p1) = <<>>
      /\ IsSeq(p2) /\ p2 # <<>> /\ Head(p2) = b0 /\ Tail(p2) = p1
  BY TupleSeq
<1>12. p2 \in Seq(Uint8)
  BY <1>1, DataHere
<1> HIDE DEF s1, s2, p1, p2
<1>9. Causes(s1, p1, 0, d)
  BY <1>2, <1>4, <1>5, <1>8, ByteCauses
<1>11. ASSUME NEW r, r.status # SYSEX_BEGIN PROVE Causes(r, p2, 0, d)
  BY <1>2, <1>7, <1>8, <1>9, <1>11, ByteCauses
<1>13. NoClock(d)
  <2>1. \A i \in 1 .. 1 : i = 1
    OBVIOUS
  <2> QED  BY <1>2, <2>1 DEF NoClock
<1> QED  BY <1>2, <1>11, <1>12, <1>13 DEF OpCauses, d, p2

LEMMA OneCauses ==
    ASSUME NEW b0, Begins(b0, 1), NEW c,
           Tells(<<0, <<b0>>>>, FALSE, c), cable = "serial" => c # ClockHeard
    PROVE  OpCauses(<<b0>>, <<c>>)
<1> DEFINE d  == <<c>>
<1>1. b0 \in Uint8 /\ midi_is_statusbyte(b0)
        /\ b0 # SYSEX_BEGIN /\ b0 # SYSEX_END /\ midi_packet_length(b0) = 1
        /\ (cable = "serial" => b0 # MIDI_CLOCK)
  BY StatusHere DEF Begins, midi_is_realtime, MIDI_CLOCK
<1>2. IsSeq(d) /\ Len(d) = 1 /\ d[1] = c
  BY TupleSeq
<1> HIDE DEF d
<1>3. 0 \in 0 .. Len(d) /\ 1 \in 0 .. Len(d) /\ 1 \in 1 .. Len(d)
  BY <1>2
<1>4. ASSUME NEW r, r.status # SYSEX_BEGIN PROVE Causes(r, <<b0>>, 0, d)
  <2> DEFINE s == NextState(r, b0)
  <2>1. s.said = <<0, <<b0>>>> /\ s.piece = FALSE /\ s.status # SYSEX_BEGIN
    <3>1. s = IF midi_is_realtime(b0) THEN State(r.status, r.data, r.offset, <<0, <<b0>>>>, FALSE)
              ELSE State(256, <<>>, 0, <<0, <<b0>>>>, FALSE)
      BY <1>1 DEF NextState, ONE
    <3> QED  BY <1>4, <3>1 DEF State, SYSEX_BEGIN
  <2>2. Fine(r, b0)
    BY <1>1, <1>4 DEF Fine, UNDEFINED
  <2> HIDE DEF s
  <2>3. Causes(s, <<>>, 1, d)
    BY <1>2, <2>1, CausesNone
  <2>4. <<0, <<b0>>>> # <<>>
    OBVIOUS
  <2>5. Link(r, 0, b0, s, 1, d)
    BY <1>2, <2>1, <2>2, <2>4, LinkSaid DEF s
  <2> QED  BY <1>2, <2>3, <2>5, TupleSeq, ByteCauses
<1>5. <<b0>> \in Seq(Uint8)
  BY <1>1
<1>6. NoClock(d)
  <2>1. \A i \in 1 .. 1 : i = 1
    OBVIOUS
  <2> QED  BY <1>2, <2>1 DEF NoClock
<1> QED  BY <1>2, <1>4, <1>5, <1>6 DEF OpCauses, d

(* A system exclusive message, after i bytes: the bytes since the last     *)
(* piece are kept, and every third byte completes a piece.                 *)
Base(i) == (i \div 3) * 3

SysexState(a, i) ==
    IF i < Len(a)
    THEN State(SYSEX_BEGIN, SubSeq(a, Base(i) + 1, i), Base(i),
               IF i % 3 = 0 THEN <<Base(i) - 3, SubSeq(a, Base(i) - 2, i)>> ELSE <<>>, i % 3 = 0)
    ELSE State(256, <<>>, 0, <<Base(i - 1), SubSeq(a, Base(i - 1) + 1, i)>>, TRUE)

SysexTold(a, i) == IF i < Len(a) THEN i \div 3 ELSE Pieces(Len(a))

LEMMA BaseIs ==
    ASSUME NEW i \in Nat
    PROVE  /\ i % 3 \in 0 .. 2 /\ Base(i) \in Nat /\ i \div 3 \in Nat
           /\ Base(i) = 3 * (i \div 3) /\ i = Base(i) + (i % 3)
           /\ (i + 1) % 3 = IF i % 3 = 2 THEN 0 ELSE (i % 3) + 1
           /\ Base(i + 1) = IF i % 3 = 2 THEN Base(i) + 3 ELSE Base(i)
           /\ (i + 1) \div 3 = IF i % 3 = 2 THEN (i \div 3) + 1 ELSE i \div 3
           /\ Pieces(i + 1) = (i \div 3) + 1
<1>1. PICK q \in Nat, c \in 0 .. 2 : i = 3 * q + c
  <2>1. i \div 3 \in Nat /\ i % 3 \in 0 .. 2 /\ i = 3 * (i \div 3) + (i % 3)
    OBVIOUS
  <2> QED  BY <2>1
<1>2. i \div 3 = q /\ i % 3 = c
  BY <1>1
<1>3. (i + 1) % 3 = (IF c = 2 THEN 0 ELSE c + 1) /\ (i + 1) \div 3 = (IF c = 2 THEN q + 1 ELSE q)
  <2>1. CASE c = 2
    <3>1. i + 1 = 3 * (q + 1) + 0
      BY <1>1, <2>1
    <3> QED  BY <1>1, <2>1, <3>1
  <2>2. CASE c # 2
    <3>1. i + 1 = 3 * q + (c + 1)
      BY <1>1, <2>2
    <3> QED  BY <1>1, <2>2, <3>1
  <2> QED  BY <2>1, <2>2
<1>4. Pieces(i + 1) = q + 1
  <2>1. (i + 1) + 2 = 3 * (q + 1) + c
    BY <1>1
  <2> QED  BY <1>1, <2>1 DEF Pieces
<1> QED  BY <1>1, <1>2, <1>3, <1>4 DEF Base

LEMMA SysexBytes ==
    ASSUME NEW a, IsSysex(a)
    PROVE  /\ IsSeq(a) /\ Len(a) \in Nat /\ Len(a) >= 2 /\ Len(a) < CountRange
           /\ a[1] = SYSEX_BEGIN /\ a[Len(a)] = SYSEX_END
           /\ \A i \in 2 .. Len(a) - 1 : a[i] \in Data7
  BY SysexIs DEF IsSysex

LEMMA SysexKept ==
    ASSUME NEW a, IsSysex(a), NEW i \in 1 .. Len(a) - 1
    PROVE  /\ SysexState(a, i).status = SYSEX_BEGIN /\ SysexState(a, i).offset = Base(i)
           /\ SysexState(a, i).data = SubSeq(a, Base(i) + 1, i) /\ Len(SysexState(a, i).data) = i % 3
           /\ Append(SysexState(a, i).data, a[i + 1]) = SubSeq(a, Base(i) + 1, i + 1)
           /\ SysexState(a, i).offset + Len(SysexState(a, i).data) + 1 < CountRange
<1> DEFINE L == Len(a)
<1>1. IsSeq(a) /\ L \in Nat /\ L >= 2 /\ L < CountRange /\ CountRange \in Nat
  BY SysexBytes, CountRangeAssumption
<1>2. i \in Nat /\ i < L /\ i \in 0 .. L /\ i + 1 \in 1 .. L /\ (i + 1) - 1 = i
  BY <1>1
<1>3. i % 3 \in 0 .. 2 /\ Base(i) \in Nat /\ i = Base(i) + (i % 3)
  BY <1>2, BaseIs
<1>4. /\ SysexState(a, i).status = SYSEX_BEGIN /\ SysexState(a, i).offset = Base(i)
      /\ SysexState(a, i).data = SubSeq(a, Base(i) + 1, i)
  BY <1>2 DEF SysexState, State
<1>5. Len(SubSeq(a, Base(i) + 1, i)) = i % 3
  <2>1. Base(i) + 1 \in 1 .. Len(a) + 1 /\ i \in 0 .. Len(a) /\ Base(i) + 1 <= i + 1
        /\ i - (Base(i) + 1) + 1 = i % 3
    <3>1. PICK q \in Nat, c \in Nat : q = Base(i) /\ c = i % 3 /\ i = q + c
      BY <1>3
    <3>3. i = q + c
      BY <3>1
    <3>2. q + 1 \in 1 .. L + 1 /\ i \in 0 .. L /\ q + 1 <= i + 1 /\ i - (q + 1) + 1 = c
      <4>1. q \in Nat /\ c \in Nat /\ i = q + c
        BY <3>3
      <4>2. i \in Nat /\ i < L /\ L \in Nat
        BY <1>1, <1>2
      <4> HIDE DEF L
      <4>3. q <= i /\ q < L
        BY <4>1, <4>2
      <4>4. i - (q + 1) + 1 = c
        BY <4>1
      <4>5. q + 1 \in 1 .. L + 1 /\ i \in 0 .. L /\ q + 1 <= i + 1
        BY <4>1, <4>2, <4>3
      <4> QED  BY <4>4, <4>5
    <3> QED  BY <3>1, <3>2
  <2>2. Len(SubSeq(a, Base(i) + 1, i)) = i - (Base(i) + 1) + 1
    BY <1>1, <2>1, PartIs
  <2> QED  BY <2>1, <2>2
<1>6. Append(SubSeq(a, Base(i) + 1, i), a[i + 1]) = SubSeq(a, Base(i) + 1, i + 1)
  <2>1. i + 1 \in 1 .. Len(a) /\ Base(i) + 1 \in 1 .. i + 1
    BY <1>1, <1>2, <1>3
  <2>2. Append(SubSeq(a, Base(i) + 1, (i + 1) - 1), a[i + 1]) = SubSeq(a, Base(i) + 1, i + 1)
    BY <1>1, <2>1, PartMore
  <2> QED  BY <1>2, <2>2
<1>7. Base(i) + (i % 3) + 1 < CountRange
  BY <1>1, <1>2, <1>3
<1> QED  BY <1>4, <1>5, <1>6, <1>7

LEMMA SysexFirst ==
    ASSUME NEW a, IsSysex(a), NEW r, r.status # SYSEX_BEGIN
    PROVE  Fine(r, a[1]) /\ NextState(r, a[1]) = SysexState(a, 1) /\ SysexState(a, 1).said = <<>>
<1>1. IsSeq(a) /\ Len(a) \in Nat /\ Len(a) >= 2 /\ a[1] = SYSEX_BEGIN
  BY SysexBytes
<1>2. Fine(r, a[1])
  BY <1>1 DEF Fine, SYSEX_BEGIN, SYSEX_END, Uint8, MIDI_CLOCK, midi_is_statusbyte
<1>3. NextState(r, a[1]) = State(SYSEX_BEGIN, <<a[1]>>, 0, <<>>, FALSE)
  BY <1>1 DEF NextState, midi_is_realtime, MIDI_CLOCK, SYSEX_BEGIN
<1>4. 1 < Len(a) /\ 1 % 3 = 1 /\ Base(1) = 0
  BY <1>1 DEF Base
<1>5. SubSeq(a, 1, 1) = <<a[1]>>
  <2>1. 1 \in 1 .. Len(a) + 1 /\ 1 \in 0 .. Len(a) /\ 1 <= 1 + 1 /\ 1 - 1 + 1 = 1
    BY <1>1
  <2>2. /\ IsSeq(SubSeq(a, 1, 1)) /\ Len(SubSeq(a, 1, 1)) = 1 - 1 + 1
        /\ \A i \in 1 .. 1 - 1 + 1 : SubSeq(a, 1, 1)[i] = a[1 + i - 1]
    BY <1>1, <2>1, PartIs
  <2>3. Len(SubSeq(a, 1, 1)) = 1 /\ SubSeq(a, 1, 1)[1] = a[1]
    BY <2>1, <2>2
  <2>4. IsSeq(<<a[1]>>) /\ Len(<<a[1]>>) = 1 /\ <<a[1]>>[1] = a[1]
    BY TupleSeq
  <2>5. \A i \in 1 .. 1 : SubSeq(a, 1, 1)[i] = <<a[1]>>[i]
    BY <2>3, <2>4
  <2> QED  BY <2>2, <2>3, <2>4, <2>5, SameSeq
<1>6. SysexState(a, 1) = State(SYSEX_BEGIN, <<a[1]>>, 0, <<>>, FALSE)
  <2>1. SysexState(a, 1) = State(SYSEX_BEGIN, SubSeq(a, Base(1) + 1, 1), Base(1), <<>>, FALSE)
    <3>1. SysexState(a, 1) = State(SYSEX_BEGIN, SubSeq(a, Base(1) + 1, 1), Base(1),
              IF 1 % 3 = 0 THEN <<Base(1) - 3, SubSeq(a, Base(1) - 2, 1)>> ELSE <<>>, 1 % 3 = 0)
      BY <1>4 DEF SysexState
    <3>2. (1 % 3 = 0) = FALSE
      BY <1>4
    <3> QED  BY <3>1, <3>2
  <2>2. Base(1) + 1 = 1
    BY <1>4
  <2> QED  BY <1>4, <1>5, <2>1, <2>2
<1>7. State(SYSEX_BEGIN, <<a[1]>>, 0, <<>>, FALSE).said = <<>>
  BY DEF State
<1> QED  BY <1>2, <1>3, <1>6, <1>7

LEMMA SysexMore ==
    ASSUME NEW a, IsSysex(a), NEW i \in 1 .. Len(a) - 2
    PROVE  /\ Fine(SysexState(a, i), a[i + 1])
           /\ NextState(SysexState(a, i), a[i + 1]) = SysexState(a, i + 1)
           /\ (i + 1) % 3 # 0 => SysexState(a, i + 1).said = <<>>
           /\ (i + 1) % 3 = 0 => /\ SysexState(a, i + 1).said = <<Base(i), SubSeq(a, Base(i) + 1, i + 1)>>
                                 /\ SysexState(a, i + 1).piece
<1> DEFINE s == SysexState(a, i)
           b == a[i + 1]
<1>1. Len(a) \in Nat /\ b \in Data7
  <2>1. Len(a) \in Nat /\ \A j \in 2 .. Len(a) - 1 : a[j] \in Data7
    BY SysexBytes
  <2>2. i + 1 \in 2 .. Len(a) - 1
    BY <2>1
  <2> QED  BY <2>1, <2>2
<1>2. i \in Nat /\ i \in 1 .. Len(a) - 1 /\ i + 1 < Len(a)
  BY <1>1
<1>3. /\ s.status = SYSEX_BEGIN /\ s.offset = Base(i)
      /\ Len(s.data) = i % 3 /\ Append(s.data, b) = SubSeq(a, Base(i) + 1, i + 1)
      /\ s.offset + Len(s.data) + 1 < CountRange
  BY <1>2, SysexKept
<1>4. /\ i % 3 \in 0 .. 2 /\ Base(i) \in Nat /\ i = Base(i) + (i % 3)
      /\ (i + 1) % 3 = IF i % 3 = 2 THEN 0 ELSE (i % 3) + 1
      /\ Base(i + 1) = IF i % 3 = 2 THEN Base(i) + 3 ELSE Base(i)
  BY <1>2, BaseIs
<1>5. SysexState(a, i + 1) =
          State(SYSEX_BEGIN, SubSeq(a, Base(i + 1) + 1, i + 1), Base(i + 1),
                IF (i + 1) % 3 = 0 THEN <<Base(i + 1) - 3, SubSeq(a, Base(i + 1) - 2, i + 1)>> ELSE <<>>,
                (i + 1) % 3 = 0)
  BY <1>2 DEF SysexState
<1>6. b \in Uint8 /\ ~midi_is_statusbyte(b) /\ ~midi_is_realtime(b)
        /\ b # SYSEX_BEGIN /\ b # SYSEX_END /\ b # MIDI_CLOCK /\ midi_packet_length(b) # ONE
  BY <1>1, DataHere DEF UNDEFINED, ONE
<1> HIDE DEF s, b
<1>7. Fine(s, b)
  BY <1>3, <1>6 DEF Fine, SYSEX_BEGIN
<1>8. NextState(s, b) =
          IF i % 3 = 2
          THEN State(SYSEX_BEGIN, <<>>, Base(i) + 3, <<Base(i), Append(s.data, b)>>, TRUE)
          ELSE State(SYSEX_BEGIN, Append(s.data, b), Base(i), <<>>, FALSE)
  BY <1>3, <1>6 DEF NextState
<1>9. CASE i % 3 = 2
  <2>1. (i + 1) % 3 = 0 /\ Base(i + 1) = Base(i) + 3 /\ i + 1 = Base(i) + 3
    BY <1>4, <1>9
  <2>2. Base(i + 1) - 3 = Base(i) /\ Base(i + 1) - 2 = Base(i) + 1 /\ Base(i + 1) + 1 = (i + 1) + 1
    BY <1>4, <2>1
  <2>3. SubSeq(a, (i + 1) + 1, i + 1) = <<>>
    <3>1. (i + 1) + 1 \in 1 .. Len(a) + 1 /\ i + 1 \in 0 .. Len(a) /\ (i + 1) + 1 <= (i + 1) + 1
          /\ (i + 1) - ((i + 1) + 1) + 1 = 0
      BY <1>1, <1>2
    <3>2. IsSeq(a)
      BY SysexBytes
    <3>3. IsSeq(SubSeq(a, (i + 1) + 1, i + 1)) /\ Len(SubSeq(a, (i + 1) + 1, i + 1)) = 0
      BY <3>1, <3>2, PartIs
    <3> QED  BY <3>3, SeqIs
  <2>4. SysexState(a, i + 1) =
            State(SYSEX_BEGIN, <<>>, Base(i) + 3, <<Base(i), SubSeq(a, Base(i) + 1, i + 1)>>, TRUE)
    BY <1>5, <2>1, <2>2, <2>3
  <2>5. NextState(s, b) = SysexState(a, i + 1)
    BY <1>3, <1>8, <1>9, <2>4
  <2>6. /\ SysexState(a, i + 1).said = <<Base(i), SubSeq(a, Base(i) + 1, i + 1)>>
        /\ SysexState(a, i + 1).piece
    BY <2>4 DEF State
  <2> QED  BY <1>7, <2>1, <2>5, <2>6 DEF s, b
<1>10. CASE i % 3 # 2
  <2>1. (i + 1) % 3 # 0 /\ Base(i + 1) = Base(i)
    BY <1>4, <1>10
  <2>2. SysexState(a, i + 1) =
            State(SYSEX_BEGIN, SubSeq(a, Base(i) + 1, i + 1), Base(i), <<>>, FALSE)
    BY <1>5, <2>1
  <2>3. NextState(s, b) = SysexState(a, i + 1)
    BY <1>3, <1>8, <1>10, <2>2
  <2>4. SysexState(a, i + 1).said = <<>>
    BY <2>2 DEF State
  <2> QED  BY <1>7, <2>1, <2>3, <2>4 DEF s, b
<1> QED  BY <1>9, <1>10

LEMMA SysexLast ==
    ASSUME NEW a, IsSysex(a), NEW i, i = Len(a) - 1
    PROVE  /\ Fine(SysexState(a, i), a[i + 1])
           /\ NextState(SysexState(a, i), a[i + 1]) = SysexState(a, i + 1)
           /\ SysexState(a, i + 1).said = <<Base(i), SubSeq(a, Base(i) + 1, i + 1)>>
           /\ SysexState(a, i + 1).piece /\ SysexState(a, i + 1).status # SYSEX_BEGIN
<1> DEFINE s == SysexState(a, i)
<1>1. Len(a) \in Nat /\ Len(a) >= 2 /\ a[Len(a)] = SYSEX_END
  BY SysexBytes
<1>2. i \in 1 .. Len(a) - 1 /\ i + 1 = Len(a) /\ (i + 1) - 1 = i /\ ~(i + 1 < Len(a))
  BY <1>1
<1>3. /\ s.status = SYSEX_BEGIN /\ s.offset = Base(i)
      /\ Append(s.data, a[i + 1]) = SubSeq(a, Base(i) + 1, i + 1)
      /\ s.offset + Len(s.data) + 1 < CountRange
  BY <1>2, SysexKept
<1>4. a[i + 1] = SYSEX_END
  BY <1>1, <1>2
<1>5. SysexState(a, i + 1) = State(256, <<>>, 0, <<Base(i), SubSeq(a, Base(i) + 1, i + 1)>>, TRUE)
  BY <1>2 DEF SysexState
<1> HIDE DEF s
<1>6. Fine(s, a[i + 1])
  BY <1>3, <1>4 DEF Fine, SYSEX_END, Uint8, MIDI_CLOCK, midi_is_statusbyte
<1>7. NextState(s, a[i + 1]) = State(256, <<>>, 0, <<Base(i), Append(s.data, a[i + 1])>>, TRUE)
  BY <1>3, <1>4 DEF NextState, SYSEX_END, SYSEX_BEGIN, midi_is_realtime, MIDI_CLOCK
<1>8. /\ SysexState(a, i + 1).said = <<Base(i), SubSeq(a, Base(i) + 1, i + 1)>>
      /\ SysexState(a, i + 1).piece /\ SysexState(a, i + 1).status # SYSEX_BEGIN
  BY <1>5 DEF State, SYSEX_BEGIN
<1> QED  BY <1>3, <1>5, <1>6, <1>7, <1>8, ZenonT(40) DEF s

LEMMA ByThreeOrder ==
    ASSUME NEW i \in Nat, NEW j \in Nat, i <= j
    PROVE  i \div 3 <= j \div 3
<1>1. PICK p \in Nat, c \in Nat : p = i \div 3 /\ i = 3 * p + c /\ c <= 2
  <2>1. i \div 3 \in Nat /\ i % 3 \in Nat /\ i % 3 <= 2 /\ i = 3 * (i \div 3) + (i % 3)
    OBVIOUS
  <2> QED  BY <2>1
<1>2. PICK q \in Nat, e \in Nat : q = j \div 3 /\ j = 3 * q + e /\ e <= 2
  <2>1. j \div 3 \in Nat /\ j % 3 \in Nat /\ j % 3 <= 2 /\ j = 3 * (j \div 3) + (j % 3)
    OBVIOUS
  <2> QED  BY <2>1
<1>3. p <= q
  BY <1>1, <1>2
<1> QED  BY <1>1, <1>2, <1>3

LEMMA PiecesSay ==
    ASSUME NEW a, IsSysex(a), NEW i \in 0 .. Len(a) - 1, (i + 1) % 3 = 0 \/ i + 1 = Len(a)
    PROVE  /\ (i \div 3) + 1 \in 1 .. Len(SysexPieces(a))
           /\ SysexPieces(a)[(i \div 3) + 1] = <<"sysex", <<Base(i), SubSeq(a, Base(i) + 1, i + 1)>>>>
<1> DEFINE L == Len(a)
           k == (i \div 3) + 1
<1>1. L \in Nat /\ L >= 2
  BY SysexBytes
<1>2. i \in Nat /\ i + 1 <= L /\ L - 1 \in Nat /\ i <= L - 1 /\ (L - 1) + 1 = L
  BY <1>1
<1>3. /\ i % 3 \in 0 .. 2 /\ Base(i) \in Nat /\ i \div 3 \in Nat
      /\ Base(i) = 3 * (i \div 3) /\ i = Base(i) + (i % 3)
      /\ (i + 1) % 3 = IF i % 3 = 2 THEN 0 ELSE (i % 3) + 1
  BY <1>2, BaseIs
<1>4. Pieces(L) = ((L - 1) \div 3) + 1 /\ (L - 1) \div 3 \in Nat
  <2>1. Pieces((L - 1) + 1) = ((L - 1) \div 3) + 1 /\ (L - 1) \div 3 \in Nat
    BY <1>2, BaseIs
  <2> QED  BY <1>2, <2>1
<1>5. i \div 3 <= (L - 1) \div 3
  BY <1>2, ByThreeOrder
<1>6. k \in 1 .. Pieces(L)
  BY <1>3, <1>4, <1>5
<1>7. Len(SysexPieces(a)) = Pieces(L)
  <2>1. Pieces(L) \in Nat
    BY <1>4
  <2>2. SysexPieces(a) = [j \in 1 .. Pieces(L) |-> SysexPieces(a)[j]]
    BY DEF SysexPieces, Pieces
  <2> QED  BY <2>1, <2>2, FunctionSeq
<1>8. SysexPieces(a)[k] =
          <<"sysex", <<3 * (k - 1), SubSeq(a, 3 * k - 2, IF L < 3 * k THEN L ELSE 3 * k)>>>>
  <2> HIDE DEF k
  <2>1. k \in 1 .. (Len(a) + 2) \div 3
    BY <1>6 DEF Pieces
  <2> QED  BY <2>1 DEF SysexPieces
<1>9. 3 * (k - 1) = Base(i) /\ 3 * k - 2 = Base(i) + 1 /\ 3 * k = Base(i) + 3
  BY <1>3
<1>10. (IF L < 3 * k THEN L ELSE 3 * k) = i + 1
  <2>1. CASE (i + 1) % 3 = 0
    <3>1. i % 3 = 2
      BY <1>3, <2>1
    <3>2. 3 * k = i + 1
      BY <1>3, <1>9, <3>1
    <3> HIDE DEF k, L
    <3> QED  BY <1>1, <1>2, <3>2
  <2>2. CASE i + 1 = L
    <3>1. i < Base(i) + 3
      <4>1. PICK q \in Nat, c \in Nat : q = Base(i) /\ i = q + c /\ c <= 2
        BY <1>3
      <4> QED  BY <4>1
    <3>2. 3 * k \in Nat /\ L <= 3 * k
      <4>1. PICK q \in Nat : q = Base(i)
        BY <1>3
      <4>2. 3 * k = q + 3 /\ i < q + 3
        BY <1>9, <3>1, <4>1
      <4> HIDE DEF k, L
      <4> QED  BY <1>2, <2>2, <4>1, <4>2
    <3> HIDE DEF k, L
    <3> QED  BY <1>1, <2>2, <3>2
  <2> QED  BY <1>2, <2>1, <2>2
<1> HIDE DEF k, L
<1>11. SysexPieces(a)[k] = <<"sysex", <<Base(i), SubSeq(a, Base(i) + 1, i + 1)>>>>
  BY <1>8, <1>9, <1>10
<1> QED  BY <1>6, <1>7, <1>11 DEF k

LEMMA SysexCauses ==
    ASSUME NEW a, IsSysex(a)
    PROVE  OpCauses(a, SysexPieces(a))
<1> DEFINE L == Len(a)
           d == SysexPieces(a)
<1>1. IsSeq(a) /\ L \in Nat /\ L >= 2 /\ a \in Seq(Uint8)
  BY SysexBytes DEF IsSysex
<1>2. IsSeq(d) /\ Len(d) = Pieces(L) /\ Pieces(L) \in Nat
  <2>1. Pieces(L) \in Nat
    BY <1>1, PiecesAre
  <2>2. d = [j \in 1 .. Pieces(L) |-> d[j]]
    BY DEF SysexPieces, Pieces
  <2> HIDE DEF d
  <2> QED  BY <2>1, <2>2, FunctionSeq
<1>3. NoClock(d)
  <2>1. ASSUME NEW k \in 1 .. Pieces(L) PROVE d[k] # ClockHeard
    <3>1. d[k] = <<"sysex", <<3 * (k - 1),
                  SubSeq(a, 3 * k - 2, IF Len(a) < 3 * k THEN Len(a) ELSE 3 * k)>>>>
      BY DEF SysexPieces, Pieces
    <3>2. "sysex" # "realtime"
      OBVIOUS
    <3> HIDE DEF d
    <3> QED  BY <3>1, <3>2 DEF ClockHeard
  <2> QED  BY <1>2, <2>1 DEF NoClock
<1>4. L - 1 \in Nat /\ (L - 1) + 1 = L
  BY <1>1
<1>5. Pieces(L) = ((L - 1) \div 3) + 1 /\ (L - 1) \div 3 \in Nat
  <2>1. Pieces((L - 1) + 1) = ((L - 1) \div 3) + 1 /\ (L - 1) \div 3 \in Nat
    BY <1>4, BaseIs
  <2> QED  BY <1>4, <2>1
<1>6. ASSUME NEW r, r.status # SYSEX_BEGIN PROVE Causes(r, a, 0, d)
  <2> DEFINE run  == [i \in 0 .. L |-> IF i = 0 THEN r ELSE SysexState(a, i)]
             told == [i \in 0 .. L |-> SysexTold(a, i)]
  <2>1. run[0] = r /\ \A i \in 1 .. L : run[i] = SysexState(a, i)
    <3>1. 0 \in 0 .. L /\ \A i \in 1 .. L : i \in 0 .. L /\ i # 0
      BY <1>1
    <3> QED  BY <3>1
  <2>2. \A i \in 0 .. L : told[i] = SysexTold(a, i)
    OBVIOUS
  <2> HIDE DEF run, told
  <2>3. \A i \in 0 .. L - 1 : told[i] = i \div 3 /\ i \in 0 .. L
    <3> TAKE i \in 0 .. L - 1
    <3>1. i \in 0 .. L /\ i < Len(a)
      BY <1>1
    <3> QED  BY <2>2, <3>1 DEF SysexTold
  <2>4. told[L] = Pieces(L)
    <3>1. L \in 0 .. L /\ ~(L < Len(a))
      BY <1>1
    <3> QED  BY <2>2, <3>1 DEF SysexTold
  <2>5. ASSUME NEW i \in 0 .. L - 1 PROVE i \div 3 \in Nat /\ i \div 3 <= (L - 1) \div 3
    <3>1. i \in Nat /\ i <= L - 1
      BY <1>1
    <3> QED  BY <1>4, <3>1, BaseIs, ByThreeOrder
  <2>6. \A i \in 0 .. L : told[i] \in 0 .. Len(d)
    <3> TAKE i \in 0 .. L
    <3>1. CASE i = L
      BY <1>2, <2>4, <3>1
    <3>2. CASE i # L
      <4>1. i \in 0 .. L - 1
        BY <1>1, <3>2
      <4>2. told[i] = i \div 3 /\ i \div 3 \in Nat /\ i \div 3 <= (L - 1) \div 3
        BY <2>3, <2>5, <4>1
      <4> QED  BY <1>2, <1>5, <4>2
    <3> QED  BY <3>1, <3>2
  <2>7. ASSUME NEW i \in 0 .. L, NEW j \in 0 .. L, i <= j PROVE told[i] <= told[j]
    <3>1. CASE j = L
      <4>1. told[i] \in 0 .. Pieces(L)
        BY <1>2, <2>6
      <4> QED  BY <1>2, <2>4, <3>1, <4>1
    <3>2. CASE j # L
      <4>1. i \in 0 .. L - 1 /\ j \in 0 .. L - 1 /\ i \in Nat /\ j \in Nat
        BY <1>1, <2>7, <3>2
      <4>2. told[i] = i \div 3 /\ told[j] = j \div 3
        BY <2>3, <4>1
      <4> QED  BY <2>7, <4>1, <4>2, ByThreeOrder
    <3> QED  BY <3>1, <3>2
  <2>8. ASSUME NEW i \in 1 .. L, NEW j \in 0 .. L, i = j + 1
        PROVE  Link(run[j], told[j], a[i], run[i], told[i], d)
    <3>1. j \in Nat /\ j \in 0 .. L - 1 /\ run[i] = SysexState(a, i) /\ told[j] = j \div 3
      BY <1>1, <2>1, <2>3, <2>8
    <3>2. CASE j = 0
      <4>1. i = 1 /\ a[i] = a[1] /\ run[j] = r
        BY <2>1, <2>8, <3>2
      <4>2. told[i] = told[j]
        <5>1. 1 \in 0 .. L - 1 /\ 1 \div 3 = 0 /\ 0 \div 3 = 0
          BY <1>1
        <5> QED  BY <2>3, <3>1, <3>2, <4>1, <5>1
      <4> HIDE DEF d
      <4> QED  BY <1>6, <3>1, <4>1, <4>2, SysexFirst, LinkSilent
    <3>3. CASE j \in 1 .. L - 2
      <4>1. /\ Fine(SysexState(a, j), a[j + 1])
            /\ NextState(SysexState(a, j), a[j + 1]) = SysexState(a, j + 1)
            /\ (j + 1) % 3 # 0 => SysexState(a, j + 1).said = <<>>
            /\ (j + 1) % 3 = 0 => /\ SysexState(a, j + 1).said = <<Base(j), SubSeq(a, Base(j) + 1, j + 1)>>
                                  /\ SysexState(a, j + 1).piece
        BY <3>3, SysexMore
      <4>2. /\ j % 3 \in 0 .. 2
            /\ (j + 1) % 3 = IF j % 3 = 2 THEN 0 ELSE (j % 3) + 1
            /\ (j + 1) \div 3 = IF j % 3 = 2 THEN (j \div 3) + 1 ELSE j \div 3
        BY <3>1, BaseIs
      <4>3. told[i] = (j + 1) \div 3
        <5>1. i \in 0 .. L - 1
          BY <1>1, <2>8, <3>3
        <5> QED  BY <2>3, <2>8, <5>1
      <4>4. run[j] = SysexState(a, j)
        <5>1. j \in 1 .. L
          BY <1>1, <3>3
        <5> QED  BY <2>1, <5>1
      <4>5. CASE (j + 1) % 3 # 0
        <5>1. told[i] = told[j]
          BY <3>1, <4>2, <4>3, <4>5
        <5> HIDE DEF d
        <5> QED  BY <2>8, <3>1, <4>1, <4>4, <4>5, <5>1, LinkSilent
      <4>6. CASE (j + 1) % 3 = 0
        <5>1. told[i] = told[j] + 1 /\ told[i] = (j \div 3) + 1
          BY <3>1, <4>2, <4>3, <4>6
        <5>2. /\ (j \div 3) + 1 \in 1 .. Len(d)
              /\ d[(j \div 3) + 1] = <<"sysex", <<Base(j), SubSeq(a, Base(j) + 1, j + 1)>>>>
          BY <3>1, <4>6, PiecesSay
        <5>3. run[i].said = <<Base(j), SubSeq(a, Base(j) + 1, j + 1)>> /\ run[i].piece
          BY <2>8, <3>1, <4>1, <4>6
        <5> HIDE DEF d
        <5>4. run[i].said # <<>> /\ Tells(run[i].said, run[i].piece, d[told[i]])
          BY <5>1, <5>2, <5>3 DEF Tells
        <5>5. Fine(run[j], a[i]) /\ run[i] = NextState(run[j], a[i])
          BY <2>8, <3>1, <4>1, <4>4
        <5>6. told[i] \in 1 .. Len(d)
          BY <5>1, <5>2
        <5> QED  BY <5>1, <5>4, <5>5, <5>6 DEF Link
      <4> QED  BY <4>5, <4>6
    <3>4. CASE j = L - 1
      <4>1. /\ Fine(SysexState(a, j), a[j + 1])
            /\ NextState(SysexState(a, j), a[j + 1]) = SysexState(a, j + 1)
            /\ SysexState(a, j + 1).said = <<Base(j), SubSeq(a, Base(j) + 1, j + 1)>>
            /\ SysexState(a, j + 1).piece
        BY <3>4, SysexLast
      <4>2. i = L /\ j + 1 = Len(a) /\ j \in 1 .. L
        BY <1>1, <2>8, <3>4
      <4>3. told[i] = told[j] + 1 /\ told[i] = (j \div 3) + 1
        BY <1>5, <2>4, <3>1, <3>4, <4>2
      <4>4. /\ (j \div 3) + 1 \in 1 .. Len(d)
            /\ d[(j \div 3) + 1] = <<"sysex", <<Base(j), SubSeq(a, Base(j) + 1, j + 1)>>>>
        BY <3>1, <4>2, PiecesSay
      <4>5. run[i].said = <<Base(j), SubSeq(a, Base(j) + 1, j + 1)>> /\ run[i].piece
        BY <2>8, <3>1, <4>1
      <4> HIDE DEF d
      <4>6. run[i].said # <<>> /\ Tells(run[i].said, run[i].piece, d[told[i]])
        BY <4>3, <4>4, <4>5 DEF Tells
      <4>7. run[j] = SysexState(a, j)
        BY <2>1, <4>2
      <4>8. Fine(run[j], a[i]) /\ run[i] = NextState(run[j], a[i])
        BY <2>8, <3>1, <4>1, <4>7
      <4>9. told[i] \in 1 .. Len(d)
        BY <4>3, <4>4
      <4> QED  BY <4>3, <4>6, <4>8, <4>9 DEF Link
    <3> QED  BY <1>1, <3>1, <3>2, <3>3, <3>4
  <2>9. told[L] = Len(d) /\ run[L].status # SYSEX_BEGIN
    <3>1. L \in 1 .. L /\ (L - 1) + 1 = L
      BY <1>1
    <3>2. SysexState(a, (L - 1) + 1).status # SYSEX_BEGIN
      BY SysexLast
    <3> QED  BY <1>2, <2>1, <2>4, <3>1, <3>2
  <2> HIDE DEF d
  <2>10. Trace(run, told, a, d)
    BY <2>6, <2>7, <2>8, <2>9 DEF Trace
  <2>11. told[0] = 0
    <3>1. 0 \in 0 .. L - 1 /\ 0 \div 3 = 0
      BY <1>1
    <3> QED  BY <2>3, <3>1
  <2> QED  BY <2>1, <2>10, <2>11 DEF Causes
<1> QED  BY <1>1, <1>2, <1>3, <1>6 DEF OpCauses

-----------------------------------------------------------------------------
(* The operations one by one.                                              *)

LEMMA TellsIs ==
    ASSUME NEW bytes, NEW f, NEW n, NEW k, <<n, k, f>> \in Dispatch, n = Len(bytes), k = Kind(bytes[1]),
           NEW call, call = Meaning(f, Args(bytes))
    PROVE  Tells(<<0, bytes>>, FALSE, call)
<1>1. <<0, bytes>>[2] = bytes
  OBVIOUS
<1> DEFINE e == <<n, k, f>>
<1>2. e \in Dispatch /\ e[1] = n /\ e[2] = k /\ e[3] = f
  OBVIOUS
<1> HIDE DEF e
<1>3. e[1] = Len(bytes) /\ e[2] = Kind(bytes[1]) /\ call = Meaning(e[3], Args(bytes))
  BY <1>2
<1> QED  BY <1>1, <1>2, <1>3 DEF Tells

LEMMA ArgsAre ==
    ASSUME NEW a, NEW b, NEW c
    PROVE  /\ Args(<<a>>) = <<Unchanneled(a)>>
           /\ Args(<<a, b>>) = <<Unchanneled(a), b>>
           /\ Args(<<a, b, c>>) = <<Unchanneled(a), b, c>>
  BY DEF Args

(* A status byte without a channel is handed on as it is.                  *)
Keeps(b) == Unchanneled(b) = b /\ Kind(b) = b

LEMMA KeptOne ==
    ASSUME NEW a, Keeps(a)
    PROVE  Args(<<a>>) = <<a>>
<1> DEFINE u == Unchanneled(a)
<1>1. Args(<<a>>) = <<u>>
  BY ArgsAre
<1>2. u = a
  BY DEF Keeps
<1> HIDE DEF u
<1> QED  BY <1>1, <1>2

LEMMA KeptTwo ==
    ASSUME NEW a, Keeps(a), NEW b
    PROVE  Args(<<a, b>>) = <<a, b>>
<1> DEFINE u == Unchanneled(a)
<1>1. Args(<<a, b>>) = <<u, b>>
  BY ArgsAre
<1>2. u = a
  BY DEF Keeps
<1> HIDE DEF u
<1> QED  BY <1>1, <1>2

LEMMA KeptThree ==
    ASSUME NEW a, Keeps(a), NEW b, NEW c
    PROVE  Args(<<a, b, c>>) = <<a, b, c>>
<1> DEFINE u == Unchanneled(a)
<1>1. Args(<<a, b, c>>) = <<u, b, c>>
  BY ArgsAre
<1>2. u = a
  BY DEF Keeps
<1> HIDE DEF u
<1> QED  BY <1>1, <1>2

LEMMA OneTells ==
    ASSUME NEW b, NEW f, <<1, Kind(b), f>> \in Dispatch, NEW call, call = Meaning(f, Args(<<b>>))
    PROVE  Tells(<<0, <<b>>>>, FALSE, call)
<1> DEFINE bytes == <<b>>
<1>1. 1 = Len(bytes) /\ bytes[1] = b /\ call = Meaning(f, Args(bytes))
  OBVIOUS
<1> HIDE DEF bytes
<1>2. Tells(<<0, bytes>>, FALSE, call)
  BY <1>1, TellsIs
<1> QED  BY <1>2 DEF bytes

LEMMA TwoTells ==
    ASSUME NEW b, NEW x, NEW f, <<2, Kind(b), f>> \in Dispatch, NEW call,
           call = Meaning(f, Args(<<b, x>>))
    PROVE  Tells(<<0, <<b, x>>>>, FALSE, call)
<1> DEFINE bytes == <<b, x>>
<1>1. 2 = Len(bytes) /\ bytes[1] = b /\ call = Meaning(f, Args(bytes))
  OBVIOUS
<1> HIDE DEF bytes
<1>2. Tells(<<0, bytes>>, FALSE, call)
  BY <1>1, TellsIs
<1> QED  BY <1>2 DEF bytes

LEMMA ThreeTells ==
    ASSUME NEW b, NEW x, NEW y, NEW f, <<3, Kind(b), f>> \in Dispatch, NEW call,
           call = Meaning(f, Args(<<b, x, y>>))
    PROVE  Tells(<<0, <<b, x, y>>>>, FALSE, call)
<1> DEFINE bytes == <<b, x, y>>
<1>1. 3 = Len(bytes) /\ bytes[1] = b /\ call = Meaning(f, Args(bytes))
  OBVIOUS
<1> HIDE DEF bytes
<1>2. Tells(<<0, bytes>>, FALSE, call)
  BY <1>1, TellsIs
<1> QED  BY <1>2 DEF bytes

(* The bytes of system common and realtime messages.                       *)
LEMMA CommonStatus ==
    ASSUME NEW b, b \in {241, 242, 243, 246} \/ b \in ListedRealtime
    PROVE  /\ Keeps(b)
           /\ b \in {241, 243} => midi_packet_length(b) = 2
           /\ b = 242 => midi_packet_length(b) = 3
           /\ b = 246 \/ b \in ListedRealtime => midi_packet_length(b) = 1
<1>1. HighNibble(b) = 240
  <2>1. b \in 241 .. 255
    BY DEF ListedRealtime
  <2>2. b \div 16 = 15
    BY <2>1
  <2> QED  BY <2>2 DEF HighNibble
<1>2. Keeps(b)
  BY <1>1 DEF Kind, Unchanneled, Keeps
<1> USE DEF MIDI_CC, MIDI_NOTEON, MIDI_NOTEOFF, MIDI_AFTERTOUCH, MIDI_PITCHBEND, MIDI_PROGCHANGE,
            MIDI_CHANPRESSURE, ListedRealtime, MIDI_TUNEREQUEST, MIDI_SONGPOSITION,
            MIDI_TC_QUARTERFRAME, MIDI_SONGSELECT, ONE, TWO, THREE
<1>3. CASE b = 241
  <2>1. midi_packet_length(241) = 2
    BY <1>1, <1>3 DEF midi_packet_length
  <2> QED  BY <1>2, <1>3, <2>1
<1>4. CASE b = 243
  <2>1. midi_packet_length(243) = 2
    BY <1>1, <1>4 DEF midi_packet_length
  <2> QED  BY <1>2, <1>4, <2>1
<1>5. CASE b = 242
  <2>1. midi_packet_length(242) = 3
    BY <1>1, <1>5 DEF midi_packet_length
  <2> QED  BY <1>2, <1>5, <2>1
<1>6. CASE b = 246
  <2>1. midi_packet_length(246) = 1
    BY <1>1, <1>6 DEF midi_packet_length
  <2> QED  BY <1>2, <1>6, <2>1
<1>7. CASE b \in 248 .. 255 \ {253}
  <2>1. midi_packet_length(b) = 1
    BY <1>1, <1>7 DEF midi_packet_length
  <2> QED  BY <1>2, <1>7, <2>1
<1> QED  BY <1>3, <1>4, <1>5, <1>6, <1>7

LEMMA ChannelStatus ==
    ASSUME NEW s \in {128, 144, 160, 176, 192, 208, 224}, NEW ch \in Channel,
           NEW b, b = OnChannel(s, ch)
    PROVE  /\ Kind(b) = s /\ Unchanneled(b) = ch /\ b < 240 /\ b = s + ch
           /\ Begins(b, IF s \in {192, 208} THEN 2 ELSE 3)
<1>1. b = s + ch /\ b \in 128 .. 239 /\ b % 16 = ch /\ b \div 16 = s \div 16
  <2>1. ch \in 0 .. 15 /\ ch % 16 = ch
    BY DEF Channel
  <2>2. b = s + ch
    BY <2>1 DEF OnChannel, LowNibble
  <2> QED  BY <2>1, <2>2
<1>2. HighNibble(b) = s
  BY <1>1 DEF HighNibble
<1>3. midi_packet_length(b) = IF s \in {192, 208} THEN 2 ELSE 3
  <2> USE DEF MIDI_CC, MIDI_NOTEON, MIDI_NOTEOFF, MIDI_AFTERTOUCH, MIDI_PITCHBEND, MIDI_PROGCHANGE,
              MIDI_CHANPRESSURE, ListedRealtime, MIDI_TUNEREQUEST, MIDI_SONGPOSITION,
              MIDI_TC_QUARTERFRAME, MIDI_SONGSELECT, ONE, TWO, THREE
  <2>1. CASE s \in {192, 208}
    <3>1. midi_packet_length(b) = 2
      BY <1>1, <1>2, <2>1 DEF midi_packet_length
    <3> QED  BY <2>1, <3>1
  <2>2. CASE s \in {128, 144, 160, 176, 224}
    <3>1. midi_packet_length(b) = 3
      BY <1>1, <1>2, <2>2 DEF midi_packet_length
    <3> QED  BY <2>2, <3>1
  <2> QED  BY <2>1, <2>2
<1>4. Kind(b) = s /\ Unchanneled(b) = ch
  BY <1>1, <1>2 DEF Kind, Unchanneled, LowNibble
<1>5. Begins(b, IF s \in {192, 208} THEN 2 ELSE 3)
  BY <1>1, <1>3 DEF Begins, SYSEX_BEGIN, SYSEX_END, midi_is_realtime, MIDI_CLOCK
<1> QED  BY <1>1, <1>4, <1>5

LEMMA ThreeOp ==
    ASSUME CableTypes, NEW o, NEW b0, NEW b1 \in Data7, NEW b2 \in Data7, Begins(b0, 3),
           cable = "host" => b0 < 240, SendCalls(o) = <<SendCall(3, b0, b1, b2)>>, NEW c,
           Promised(o) = <<c>>, Tells(<<0, <<b0, b1, b2>>>>, FALSE, c), c # ClockHeard
    PROVE  OpCauses(Arriving(o), Promised(o))
<1>1. b0 \in Uint8 /\ b1 \in Uint8 /\ b2 \in Uint8 /\ midi_packet_length(b0) = 3
  BY StatusHere, DataHere DEF Begins
<1>2. Arriving(o) = SubSeq(<<b0, b1, b2>>, 1, 3)
  BY <1>1, ArrivingOne, MessageCarried
<1>3. SubSeq(<<b0, b1, b2>>, 1, 3) = <<b0, b1, b2>>
  BY <1>1, FirstBytes
<1>4. OpCauses(<<b0, b1, b2>>, <<c>>)
  BY ThreeCause
<1> QED  BY <1>2, <1>3, <1>4

LEMMA TwoOp ==
    ASSUME CableTypes, NEW o, NEW b0, NEW b1 \in Data7, Begins(b0, 2),
           cable = "host" => b0 < 240, SendCalls(o) = <<SendCall(2, b0, b1, 0)>>, NEW c,
           Promised(o) = <<c>>, Tells(<<0, <<b0, b1>>>>, FALSE, c), c # ClockHeard
    PROVE  OpCauses(Arriving(o), Promised(o))
<1>1. b0 \in Uint8 /\ b1 \in Uint8 /\ 0 \in Uint8 /\ midi_packet_length(b0) = 2
  BY StatusHere, DataHere DEF Begins, Uint8
<1>2. Arriving(o) = SubSeq(<<b0, b1, 0>>, 1, 2)
  BY <1>1, ArrivingOne, MessageCarried
<1>3. SubSeq(<<b0, b1, 0>>, 1, 2) = <<b0, b1>>
  BY <1>1, FirstBytes
<1>4. OpCauses(<<b0, b1>>, <<c>>)
  BY TwoCause
<1> QED  BY <1>2, <1>3, <1>4

LEMMA OneOp ==
    ASSUME CableTypes, NEW o, NEW b0, Begins(b0, 1), SendCalls(o) = <<SendCall(1, b0, 0, 0)>>, NEW c,
           Promised(o) = <<c>>, Tells(<<0, <<b0>>>>, FALSE, c), cable = "serial" => c # ClockHeard
    PROVE  OpCauses(Arriving(o), Promised(o))
<1>1. b0 \in Uint8 /\ 0 \in Uint8 /\ midi_packet_length(b0) = 1
  BY StatusHere DEF Begins, Uint8
<1>2. Arriving(o) = SubSeq(<<b0, 0, 0>>, 1, 1)
  BY <1>1, ArrivingOne, MessageCarried
<1>3. SubSeq(<<b0, 0, 0>>, 1, 1) = <<b0>>
  BY <1>1, FirstBytes
<1>4. OpCauses(<<b0>>, <<c>>)
  BY OneCauses
<1> QED  BY <1>2, <1>3, <1>4

LEMMA Low7Is ==
    ASSUME NEW n \in Data7
    PROVE  Low7(n) = n
  BY DEF Data7, Low7

LEMMA NotClock ==
    ASSUME NEW f, f # "realtime", NEW args
    PROVE  <<f, args>> # ClockHeard
  BY DEF ClockHeard

LEMMA ThreeChannel ==
    ASSUME CableTypes, NEW f \in {"cc", "noteon", "noteoff", "aftertouch"},
           NEW ch \in Channel, NEW x \in Data7, NEW y \in Data7, NEW o, o = <<f, <<ch, x, y>>>>
    PROVE  OpCauses(Arriving(o), Promised(o))
<1>1. PICK s \in {128, 144, 160, 176} :
          /\ f = "cc" => s = MIDI_CC
          /\ f = "noteon" => s = MIDI_NOTEON
          /\ f = "noteoff" => s = MIDI_NOTEOFF
          /\ f = "aftertouch" => s = MIDI_AFTERTOUCH
  BY DEF MIDI_CC, MIDI_NOTEON, MIDI_NOTEOFF, MIDI_AFTERTOUCH
<1> DEFINE b == OnChannel(s, ch)
<1>2. o[1] = f /\ o[2] = <<ch, x, y>> /\ <<ch, x, y>>[1] = ch /\ <<ch, x, y>>[2] = x /\ <<ch, x, y>>[3] = y
  OBVIOUS
<1>3. SendCalls(o) = <<SendCall(3, b, x, y)>>
  <2>1. SendCalls(o) = <<SimpleCall(o)>>
    BY <1>2 DEF SendCalls
  <2>2. SimpleCall(o) = SendCall(3, b, Low7(x), Low7(y))
    BY <1>1, <1>2 DEF SimpleCall, midi_send_cc, midi_send_noteon, midi_send_noteoff, midi_send_aftertouch
  <2> QED  BY <2>1, <2>2, Low7Is
<1>4. Promised(o) = <<o>>
  BY <1>2 DEF Promised
<1> HIDE DEF b
<1>5. /\ Kind(b) = s /\ Unchanneled(b) = ch /\ b < 240 /\ Begins(b, 3)
  BY ChannelStatus DEF b
<1>6. <<3, Kind(b), f>> \in Dispatch
  BY <1>1, <1>5 DEF Dispatch, Keeps
<1>7. o = Meaning(f, Args(<<b, x, y>>))
  <2>1. Args(<<b, x, y>>) = <<ch, x, y>>
    BY <1>5, ArgsAre
  <2> QED  BY <2>1 DEF Meaning
<1>8. Tells(<<0, <<b, x, y>>>>, FALSE, o)
  BY <1>6, <1>7, ThreeTells
<1>9. o # ClockHeard
  BY NotClock
<1> QED  BY <1>3, <1>4, <1>5, <1>8, <1>9, ThreeOp

LEMMA TwoChannel ==
    ASSUME CableTypes, NEW f \in {"progchange", "chanpressure"},
           NEW ch \in Channel, NEW x \in Data7, NEW o, o = <<f, <<ch, x>>>>
    PROVE  OpCauses(Arriving(o), Promised(o))
<1>1. PICK s \in {192, 208} :
          /\ f = "progchange" => s = MIDI_PROGCHANGE
          /\ f = "chanpressure" => s = MIDI_CHANPRESSURE
  BY DEF MIDI_PROGCHANGE, MIDI_CHANPRESSURE
<1> DEFINE b == OnChannel(s, ch)
<1>2. o[1] = f /\ o[2] = <<ch, x>> /\ <<ch, x>>[1] = ch /\ <<ch, x>>[2] = x
  OBVIOUS
<1>3. SendCalls(o) = <<SendCall(2, b, x, 0)>>
  <2>1. SendCalls(o) = <<SimpleCall(o)>>
    BY <1>2 DEF SendCalls
  <2>2. SimpleCall(o) = SendCall(2, b, Low7(x), 0)
    BY <1>1, <1>2 DEF SimpleCall, midi_send_programchange, midi_send_channelpressure
  <2> QED  BY <2>1, <2>2, Low7Is
<1>4. Promised(o) = <<o>>
  BY <1>2 DEF Promised
<1> HIDE DEF b
<1>5. /\ Kind(b) = s /\ Unchanneled(b) = ch /\ b < 240 /\ Begins(b, 2)
  BY ChannelStatus DEF b
<1>6. <<2, Kind(b), f>> \in Dispatch
  BY <1>1, <1>5 DEF Dispatch, Keeps
<1>7. o = Meaning(f, Args(<<b, x>>))
  <2>1. Args(<<b, x>>) = <<ch, x>>
    BY <1>5, ArgsAre
  <2> QED  BY <2>1 DEF Meaning
<1>8. Tells(<<0, <<b, x>>>>, FALSE, o)
  BY <1>6, <1>7, TwoTells
<1>9. o # ClockHeard
  BY NotClock
<1> QED  BY <1>3, <1>4, <1>5, <1>8, <1>9, TwoOp

(* The two halves of a number of 14 bits.                                  *)
LEMMA Halves ==
    ASSUME NEW n \in Nat, n <= 16383
    PROVE  \E x \in Data7, y \in Data7 : x = Low7(n) /\ y = Low7(n \div 128) /\ x + 128 * y = n
<1> DEFINE q == n \div 128
           c == n % 128
<1>1. q \in Nat /\ c \in 0 .. 127 /\ n = 128 * q + c
  OBVIOUS
<1> HIDE DEF q, c
<1>2. q \in 0 .. 127
  BY <1>1
<1>3. q % 128 = q
  BY <1>2
<1>4. c = Low7(n) /\ q = Low7(n \div 128)
  BY <1>3 DEF Low7, q, c
<1>5. c + 128 * q = n
  BY <1>1, <1>2
<1>6. c \in Data7 /\ q \in Data7
  BY <1>1, <1>2 DEF Data7
<1> QED  BY <1>4, <1>5, <1>6

LEMMA Uint14Is ==
    ASSUME NEW n \in Uint14
    PROVE  n \in Nat /\ n <= 16383
  BY DEF Uint14

LEMMA BendIs ==
    ASSUME NEW amt \in Int
    PROVE  Bend(amt) \in Nat /\ Bend(amt) <= 16383 /\ Clipped(amt, -8192, 8191) = Bend(amt) - 8192
<1>1. CASE amt > 8191
  <2>1. Bend(amt) = 16383
    BY <1>1 DEF Bend
  <2>2. Clipped(amt, -8192, 8191) = 8191
    BY <1>1 DEF Clipped
  <2> QED  BY <2>1, <2>2
<1>2. CASE amt < -8192
  <2>1. Bend(amt) = 0
    BY <1>2 DEF Bend
  <2>2. Clipped(amt, -8192, 8191) = -8192
    BY <1>2 DEF Clipped
  <2> QED  BY <2>1, <2>2
<1>3. CASE amt <= 8191 /\ amt >= -8192
  <2>1. Bend(amt) = amt + 8192
    BY <1>3 DEF Bend
  <2>2. Clipped(amt, -8192, 8191) = amt
    BY <1>3 DEF Clipped
  <2> QED  BY <1>3, <2>1, <2>2
<1>4. amt > 8191 \/ amt < -8192 \/ (amt <= 8191 /\ amt >= -8192)
  OBVIOUS
<1> QED  BY <1>1, <1>2, <1>3, <1>4

LEMMA BendCauses ==
    ASSUME CableTypes, NEW ch \in Channel, NEW amt \in Int,
           NEW o, o = <<"pitchbend", <<ch, amt>>>>
    PROVE  OpCauses(Arriving(o), Promised(o))
<1> DEFINE b == OnChannel(MIDI_PITCHBEND, ch)
           n == Bend(amt)
           k == Clipped(amt, -8192, 8191)
           c == <<"pitchbend", <<ch, k>>>>
<1>1. o[1] = "pitchbend" /\ o[2] = <<ch, amt>> /\ <<ch, amt>>[1] = ch /\ <<ch, amt>>[2] = amt
  OBVIOUS
<1>2. n \in Nat /\ n <= 16383 /\ k = n - 8192
  BY BendIs
<1>3. SendCalls(o) = <<SendCall(3, b, Low7(n), Low7(n \div 128))>>
  <2>1. SendCalls(o) = <<SimpleCall(o)>>
    BY <1>1 DEF SendCalls
  <2>2. SimpleCall(o) = midi_send_pitchbend(ch, amt)
    BY <1>1 DEF SimpleCall
  <2> QED  BY <2>1, <2>2 DEF midi_send_pitchbend
<1>4. Promised(o) = <<c>>
  BY <1>1 DEF Promised
<1> HIDE DEF n, k
<1>5. PICK x \in Data7, y \in Data7 : x = Low7(n) /\ y = Low7(n \div 128) /\ x + 128 * y = n
  BY <1>2, Halves
<1> HIDE DEF b
<1>6. Kind(b) = 224 /\ Unchanneled(b) = ch /\ b < 240 /\ Begins(b, 3)
  BY ChannelStatus DEF b, MIDI_PITCHBEND
<1>7. <<3, Kind(b), "pitchbend">> \in Dispatch
  BY <1>6 DEF Dispatch, MIDI_PITCHBEND
<1>8. c = Meaning("pitchbend", Args(<<b, x, y>>))
  <2>1. Args(<<b, x, y>>) = <<ch, x, y>>
    BY <1>6, ArgsAre
  <2>2. Meaning("pitchbend", <<ch, x, y>>) = <<"pitchbend", <<ch, x + 128 * y - 8192>>>>
    BY DEF Meaning
  <2>3. x + 128 * y - 8192 = k
    BY <1>2, <1>5 DEF Data7
  <2> QED  BY <2>1, <2>2, <2>3
<1>9. c # ClockHeard
  BY NotClock
<1> HIDE DEF c
<1>10. Tells(<<0, <<b, x, y>>>>, FALSE, c)
  BY <1>7, <1>8, ThreeTells
<1>11. SendCalls(o) = <<SendCall(3, b, x, y)>>
  BY <1>3, <1>5
<1> QED  BY <1>4, <1>6, <1>9, <1>10, <1>11, ThreeOp

LEMMA DirectCauses ==
    ASSUME CableTypes, NEW b \in MIDI_NOTEON .. MIDI_NOTEON + 15, NEW x \in Data7, NEW y \in Data7,
           NEW o, o = <<"data", <<3, b, x, y>>>>
    PROVE  OpCauses(Arriving(o), Promised(o))
<1> DEFINE c == <<"noteon", <<LowNibble(b), x, y>>>>
<1>1. /\ o[1] = "data" /\ o[2] = <<3, b, x, y>> /\ <<3, b, x, y>>[1] = 3 /\ <<3, b, x, y>>[2] = b
      /\ <<3, b, x, y>>[3] = x /\ <<3, b, x, y>>[4] = y
  OBVIOUS
<1>2. SendCalls(o) = <<SendCall(3, b, x, y)>>
  <2>1. SendCalls(o) = <<SimpleCall(o)>>
    BY <1>1 DEF SendCalls
  <2>2. SimpleCall(o) = SendCall(3, b, x, y)
    BY <1>1 DEF SimpleCall, midi_send_data
  <2> QED  BY <2>1, <2>2
<1>3. Promised(o) = <<c>>
  BY <1>1 DEF Promised
<1>4. PICK ch \in 0 .. 15 : b = 144 + ch /\ b % 16 = ch
  <2>1. b \in 144 .. 159
    BY DEF MIDI_NOTEON
  <2>2. b - 144 \in 0 .. 15 /\ b = 144 + (b - 144) /\ b % 16 = b - 144
    BY <2>1
  <2> QED  BY <2>2
<1>5. ch \in Channel /\ b = OnChannel(144, ch) /\ LowNibble(b) = ch
  BY <1>4 DEF Channel, OnChannel, LowNibble
<1>6. Kind(b) = 144 /\ Unchanneled(b) = ch /\ b < 240 /\ Begins(b, 3)
  BY <1>5, ChannelStatus
<1>7. <<3, Kind(b), "noteon">> \in Dispatch
  BY <1>6 DEF Dispatch, MIDI_NOTEON
<1>8. c = Meaning("noteon", Args(<<b, x, y>>))
  <2>1. Args(<<b, x, y>>) = <<ch, x, y>>
    BY <1>6, ArgsAre
  <2> QED  BY <1>5, <2>1 DEF Meaning
<1>9. Tells(<<0, <<b, x, y>>>>, FALSE, c)
  BY <1>6, <1>7, <1>8, ThreeTells
<1>10. c # ClockHeard
  BY NotClock
<1> HIDE DEF c
<1> QED  BY <1>2, <1>3, <1>6, <1>9, <1>10, ThreeOp

LEMMA CommonTwo ==
    ASSUME CableTypes, cable # "host", NEW f \in {"tc_quarterframe", "songselect"}, NEW n \in Data7,
           NEW o, o = <<f, <<n>>>>
    PROVE  OpCauses(Arriving(o), Promised(o))
<1>1. PICK b \in {241, 243} : /\ f = "tc_quarterframe" => b = MIDI_TC_QUARTERFRAME
                              /\ f = "songselect" => b = MIDI_SONGSELECT
  BY DEF MIDI_TC_QUARTERFRAME, MIDI_SONGSELECT
<1>2. o[1] = f /\ o[2] = <<n>> /\ <<n>>[1] = n
  OBVIOUS
<1>3. SendCalls(o) = <<SendCall(2, b, n, 0)>>
  <2>1. SendCalls(o) = <<SimpleCall(o)>>
    BY <1>2 DEF SendCalls
  <2>2. SimpleCall(o) = SendCall(2, b, Low7(n), 0)
    BY <1>1, <1>2 DEF SimpleCall, midi_send_tcquarterframe, midi_send_songselect
  <2> QED  BY <2>1, <2>2, Low7Is
<1>4. Promised(o) = <<o>>
  BY <1>2 DEF Promised
<1>5. Keeps(b) /\ midi_packet_length(b) = 2
  BY CommonStatus
<1>7. Begins(b, 2)
  BY <1>5 DEF Begins, SYSEX_BEGIN, SYSEX_END, midi_is_realtime, MIDI_CLOCK
<1>8. <<2, Kind(b), f>> \in Dispatch
  BY <1>1, <1>5 DEF Dispatch, Keeps
<1>9. o = Meaning(f, Args(<<b, n>>))
  <2>1. Args(<<b, n>>) = <<b, n>>
    BY <1>5, KeptTwo
  <2>2. Meaning(f, <<b, n>>) = <<f, <<n>>>>
    BY DEF Meaning
  <2> QED  BY <2>1, <2>2
<1>10. Tells(<<0, <<b, n>>>>, FALSE, o)
  BY <1>8, <1>9, TwoTells
<1>11. o # ClockHeard
  BY NotClock
<1> QED  BY <1>3, <1>4, <1>7, <1>10, <1>11, TwoOp

LEMMA PositionTold ==
    ASSUME CableTypes, cable # "host", NEW x \in Data7, NEW y \in Data7,
           NEW o, SendCalls(o) = <<SendCall(3, MIDI_SONGPOSITION, x, y)>>,
           NEW c, Promised(o) = <<c>>, c = <<"songposition", <<x + 128 * y>>>>
    PROVE  OpCauses(Arriving(o), Promised(o))
<1> DEFINE b == MIDI_SONGPOSITION
<1>1. b = 242
  BY DEF MIDI_SONGPOSITION
<1>2. SendCalls(o) = <<SendCall(3, b, x, y)>>
  OBVIOUS
<1> HIDE DEF b
<1>3. Keeps(b) /\ midi_packet_length(b) = 3
  BY <1>1, CommonStatus
<1>4. Begins(b, 3)
  BY <1>1, <1>3 DEF Begins, SYSEX_BEGIN, SYSEX_END, midi_is_realtime, MIDI_CLOCK
<1>5. <<3, Kind(b), "songposition">> \in Dispatch
  BY <1>1, <1>3 DEF Dispatch, Keeps, MIDI_SONGPOSITION
<1>6. c = Meaning("songposition", Args(<<b, x, y>>))
  <2>1. Args(<<b, x, y>>) = <<b, x, y>>
    BY <1>3, KeptThree
  <2>2. Meaning("songposition", <<b, x, y>>) = <<"songposition", <<x + 128 * y>>>>
    BY DEF Meaning
  <2> QED  BY <2>1, <2>2
<1>7. c # ClockHeard
  BY NotClock
<1>8. Tells(<<0, <<b, x, y>>>>, FALSE, c)
  BY <1>5, <1>6, ThreeTells
<1> QED  BY <1>2, <1>4, <1>7, <1>8, ThreeOp

LEMMA PositionCauses ==
    ASSUME CableTypes, cable # "host", NEW n \in Nat, n <= 16383, NEW o, o = <<"songposition", <<n>>>>
    PROVE  OpCauses(Arriving(o), Promised(o))
<1> DEFINE b == MIDI_SONGPOSITION
<1>1. o[1] = "songposition" /\ o[2] = <<n>> /\ <<n>>[1] = n
  OBVIOUS
<1>2. SendCalls(o) = <<SendCall(3, b, Low7(n), Low7(n \div 128))>>
  <2>1. SendCalls(o) = <<SimpleCall(o)>>
    BY <1>1 DEF SendCalls
  <2>2. SimpleCall(o) = midi_send_songposition(n)
    BY <1>1 DEF SimpleCall
  <2> QED  BY <2>1, <2>2 DEF midi_send_songposition
<1>3. Promised(o) = <<o>>
  BY <1>1 DEF Promised
<1>4. PICK x \in Data7, y \in Data7 : x = Low7(n) /\ y = Low7(n \div 128) /\ x + 128 * y = n
  BY Halves
<1>5. SendCalls(o) = <<SendCall(3, b, x, y)>>
  BY <1>2, <1>4
<1>6. o = <<"songposition", <<x + 128 * y>>>>
  BY <1>4
<1> QED  BY <1>3, <1>5, <1>6, PositionTold

LEMMA TuneCauses ==
    ASSUME CableTypes, NEW o, o = <<"tunerequest", <<>>>>
    PROVE  OpCauses(Arriving(o), Promised(o))
<1> DEFINE b == MIDI_TUNEREQUEST
           c == <<"tunerequest", <<b>>>>
<1>1. o[1] = "tunerequest"
  OBVIOUS
<1>2. SendCalls(o) = <<SendCall(1, b, 0, 0)>>
  <2>1. SendCalls(o) = <<SimpleCall(o)>>
    BY <1>1 DEF SendCalls
  <2>2. SimpleCall(o) = SendCall(1, b, 0, 0)
    BY <1>1 DEF SimpleCall, midi_send_tunerequest
  <2> QED  BY <2>1, <2>2
<1>3. Promised(o) = <<c>>
  BY <1>1 DEF Promised
<1>4. b = 246
  BY DEF MIDI_TUNEREQUEST
<1> HIDE DEF b
<1>5. Keeps(b) /\ midi_packet_length(b) = 1
  BY <1>4, CommonStatus
<1>6. Begins(b, 1)
  BY <1>4, <1>5 DEF Begins, SYSEX_BEGIN, SYSEX_END, midi_is_realtime, MIDI_CLOCK
<1>7. <<1, Kind(b), "tunerequest">> \in Dispatch
  BY <1>4, <1>5 DEF Dispatch, Keeps, MIDI_TUNEREQUEST
<1>8. c = Meaning("tunerequest", Args(<<b>>))
  <2>1. Args(<<b>>) = <<b>>
    BY <1>5, KeptOne
  <2> QED  BY <2>1 DEF Meaning
<1>9. Tells(<<0, <<b>>>>, FALSE, c)
  BY <1>5, <1>7, <1>8, OneTells
<1>10. c # ClockHeard
  BY NotClock
<1> HIDE DEF c
<1> QED  BY <1>2, <1>3, <1>6, <1>9, <1>10, OneOp

LEMMA RealtimeCauses ==
    ASSUME CableTypes, NEW b \in ListedRealtime, cable = "serial" => b # MIDI_CLOCK,
           NEW o, o = <<"realtime", <<b>>>>
    PROVE  OpCauses(Arriving(o), Promised(o))
<1>1. o[1] = "realtime" /\ o[2] = <<b>> /\ <<b>>[1] = b /\ <<0, <<b>>>>[2] = <<b>> /\ Len(<<b>>) = 1
  OBVIOUS
<1>2. SendCalls(o) = <<SendCall(1, b, 0, 0)>>
  <2>1. SendCalls(o) = <<SimpleCall(o)>>
    BY <1>1 DEF SendCalls
  <2>2. SimpleCall(o) = SendCall(1, b, 0, 0)
    BY <1>1 DEF SimpleCall, midi_send_byte
  <2> QED  BY <2>1, <2>2
<1>3. Promised(o) = <<o>>
  BY <1>1 DEF Promised
<1>4. b \in 248 .. 255
  BY DEF ListedRealtime
<1>6. Keeps(b) /\ midi_is_realtime(b) /\ midi_packet_length(b) = 1
  BY <1>4, CommonStatus DEF midi_is_realtime, MIDI_CLOCK
<1>7. Begins(b, 1)
  BY <1>4, <1>6 DEF Begins, SYSEX_BEGIN, SYSEX_END
<1>8. Tells(<<0, <<b>>>>, FALSE, o)
  <2>1. Args(<<b>>) = <<b>>
    BY <1>6, KeptOne
  <2>2. Meaning("realtime", <<b>>) = o
    BY DEF Meaning
  <2> QED  BY <1>1, <1>6, <2>1, <2>2 DEF Tells
<1>9. cable = "serial" => o # ClockHeard
  BY DEF ClockHeard
<1> QED  BY <1>2, <1>3, <1>7, <1>8, <1>9, OneOp

(* Every operation that the cable carries causes what it promises.         *)
LEMMA OperationCauses ==
    ASSUME CableTypes, NEW o, Carries(cable, o)
    PROVE  OpCauses(Arriving(o), Promised(o))
<1>1. CASE o \in {"cc", "noteon", "noteoff", "aftertouch"} \X (Channel \X Data7 \X Data7)
  <2>1. PICK f \in {"cc", "noteon", "noteoff", "aftertouch"}, ch \in Channel, x \in Data7, y \in Data7 :
            o = <<f, <<ch, x, y>>>>
    BY <1>1
  <2> QED  BY <2>1, ThreeChannel
<1>2. CASE o \in {"progchange", "chanpressure"} \X (Channel \X Data7)
  <2>1. PICK f \in {"progchange", "chanpressure"}, ch \in Channel, x \in Data7 : o = <<f, <<ch, x>>>>
    BY <1>2
  <2> QED  BY <2>1, TwoChannel
<1>12. Int16 \subseteq Int
  BY DEF Int16
<1>3. CASE o \in {"pitchbend"} \X (Channel \X Int16)
  <2>1. PICK ch \in Channel, amt \in Int16 : o = <<"pitchbend", <<ch, amt>>>>
    BY <1>3
  <2>2. amt \in Int
    BY <1>12
  <2> QED  BY <2>1, <2>2, BendCauses
<1>4. CASE o \in {"data"} \X ({3} \X (MIDI_NOTEON .. MIDI_NOTEON + 15) \X Data7 \X Data7)
  <2>1. PICK b \in MIDI_NOTEON .. MIDI_NOTEON + 15, x \in Data7, y \in Data7 :
            o = <<"data", <<3, b, x, y>>>>
    BY <1>4
  <2> QED  BY <2>1, DirectCauses
<1>5. CASE o = <<"tunerequest", <<>>>>
  BY <1>5, TuneCauses
<1>6. CASE \E b \in ListedRealtime : o = <<"realtime", <<b>>>> /\ (cable = "serial" => b # MIDI_CLOCK)
  BY <1>6, RealtimeCauses
<1>7. CASE o = <<"array", o[2]>> /\ IsSysex(o[2])
  <2> DEFINE a == o[2]
  <2>1. o = <<"array", a>> /\ IsSysex(a)
    BY <1>7
  <2>2. Promised(o) = SysexPieces(a)
    <3>1. o[1] = "array"
      BY <2>1
    <3> QED  BY <3>1 DEF Promised
  <2> HIDE DEF a
  <2> QED  BY <2>1, <2>2, ArrayArrives, SysexCauses
<1>8. CASE cable = "serial" /\ o = <<"bytes", o[2]>> /\ IsSysex(o[2])
  <2> DEFINE a == o[2]
  <2>1. cable = "serial" /\ o = <<"bytes", a>> /\ IsSysex(a)
    BY <1>8
  <2>2. Promised(o) = SysexPieces(a)
    <3>1. o[1] = "bytes"
      BY <2>1
    <3> QED  BY <3>1 DEF Promised
  <2> HIDE DEF a
  <2> QED  BY <2>1, <2>2, BytesArrive, SysexCauses
<1>9. CASE cable # "host" /\ \E n \in Data7 : o \in {<<"tc_quarterframe", <<n>>>>, <<"songselect", <<n>>>>}
  <2>1. PICK n \in Data7 : o \in {<<"tc_quarterframe", <<n>>>>, <<"songselect", <<n>>>>}
    BY <1>9
  <2>2. PICK f \in {"tc_quarterframe", "songselect"} : o = <<f, <<n>>>>
    BY <2>1
  <2> QED  BY <1>9, <2>2, CommonTwo
<1>10. CASE cable # "host" /\ \E n \in Uint14 : o = <<"songposition", <<n>>>>
  <2>1. PICK n \in Uint14 : o = <<"songposition", <<n>>>>
    BY <1>10
  <2> QED  BY <1>10, <2>1, Uint14Is, PositionCauses
<1>11. \/ o \in {"cc", "noteon", "noteoff", "aftertouch"} \X (Channel \X Data7 \X Data7)
       \/ o \in {"progchange", "chanpressure"} \X (Channel \X Data7)
       \/ o \in {"pitchbend"} \X (Channel \X Int16)
       \/ o \in {"data"} \X ({3} \X (MIDI_NOTEON .. MIDI_NOTEON + 15) \X Data7 \X Data7)
       \/ o = <<"tunerequest", <<>>>>
       \/ \E b \in ListedRealtime : o = <<"realtime", <<b>>>> /\ (cable = "serial" => b # MIDI_CLOCK)
       \/ o = <<"array", o[2]>> /\ IsSysex(o[2])
       \/ cable = "serial" /\ o = <<"bytes", o[2]>> /\ IsSysex(o[2])
       \/ cable # "host" /\ \E n \in Data7 : o \in {<<"tc_quarterframe", <<n>>>>, <<"songselect", <<n>>>>}
       \/ cable # "host" /\ \E n \in Uint14 : o = <<"songposition", <<n>>>>
  BY DEF Carries
<1> QED
  BY <1>1, <1>2, <1>3, <1>4, <1>5, <1>6, <1>7, <1>8, <1>9, <1>10, <1>11

-----------------------------------------------------------------------------
(* The listener receives what NextState says.                              *)

Quiet(r) == State(r.status, r.data, r.offset, <<>>, FALSE)
Listener == State(StatusInForce, DataHeard, OffsetHeard, <<>>, FALSE)

LEMMA StateIs ==
    ASSUME NEW s, NEW d, NEW o, NEW m, NEW c
    PROVE  /\ State(s, d, o, m, c).status = s /\ State(s, d, o, m, c).data = d
           /\ State(s, d, o, m, c).offset = o /\ State(s, d, o, m, c).said = m
           /\ State(s, d, o, m, c).piece = c
  BY DEF State

LEMMA QuietIs ==
    ASSUME NEW r, NEW b
    PROVE  /\ Quiet(r).status = r.status /\ NextState(Quiet(r), b) = NextState(r, b)
           /\ Fine(r, b) => Fine(Quiet(r), b)
<1>1. Quiet(r).status = r.status /\ Quiet(r).data = r.data /\ Quiet(r).offset = r.offset
  BY DEF Quiet, State
<1> HIDE DEF Quiet
<1>2. NextState(Quiet(r), b) = NextState(r, b)
  BY <1>1 DEF NextState
<1>3. Fine(r, b) => Fine(Quiet(r), b)
  BY <1>1 DEF Fine
<1> QED  BY <1>1, <1>2, <1>3

(* What is caused does not depend on what was said before.                 *)
LEMMA CausesQuiet ==
    ASSUME NEW r, NEW p, IsSeq(p), NEW d, IsSeq(d), NEW t \in 0 .. Len(d), Causes(r, p, t, d)
    PROVE  Causes(Quiet(r), p, t, d)
<1>1. CASE p = <<>>
  <2>1. t = Len(d) /\ r.status # SYSEX_BEGIN
    <3>1. PICK run, told : Trace(run, told, p, d) /\ run[0] = r /\ told[0] = t
      BY DEF Causes
    <3>2. Len(p) = 0
      BY <1>1
    <3> QED  BY <3>1, <3>2 DEF Trace
  <2>2. Quiet(r).status # SYSEX_BEGIN
    BY <2>1, QuietIs
  <2> QED  BY <1>1, <2>1, <2>2, CausesNone
<1>2. CASE p # <<>>
  <2>1. PICK s, u : Link(r, t, Head(p), s, u, d) /\ Causes(s, Tail(p), u, d)
    BY <1>2, CausesHead
  <2>2. Link(Quiet(r), t, Head(p), s, u, d)
    BY <2>1, QuietIs DEF Link
  <2> QED  BY <1>2, <2>1, <2>2, CausesCons
<1> QED  BY <1>1, <1>2

LEMMA SysexLengths ==
    /\ midi_packet_length(SYSEX_BEGIN) = UNDEFINED /\ midi_packet_length(SYSEX_END) = UNDEFINED
    /\ UNDEFINED = 0 /\ ONE = 1 /\ TWO = 2 /\ THREE = 3
    /\ midi_is_statusbyte(SYSEX_BEGIN) /\ midi_is_statusbyte(SYSEX_END)
    /\ ~midi_is_realtime(SYSEX_BEGIN) /\ ~midi_is_realtime(SYSEX_END) /\ SYSEX_BEGIN # SYSEX_END
    /\ SYSEX_BEGIN \in Uint8 /\ SYSEX_END \in Uint8
<1>1. midi_packet_length(240) = 0 /\ midi_packet_length(247) = 0
  BY DEF midi_packet_length, HighNibble, MIDI_CC, MIDI_NOTEON, MIDI_NOTEOFF, MIDI_AFTERTOUCH,
         MIDI_PITCHBEND, MIDI_PROGCHANGE, MIDI_CHANPRESSURE, MIDI_TUNEREQUEST, MIDI_SONGPOSITION,
         MIDI_TC_QUARTERFRAME, MIDI_SONGSELECT, ListedRealtime, UNDEFINED, ONE, TWO, THREE
<1> QED
  BY <1>1 DEF SYSEX_BEGIN, SYSEX_END, UNDEFINED, ONE, TWO, THREE, midi_is_statusbyte,
              midi_is_realtime, MIDI_CLOCK, Uint8

LEMMA StatusBytes ==
    ASSUME NEW b \in Uint8
    PROVE  /\ midi_is_realtime(b) => midi_is_statusbyte(b) /\ b # SYSEX_BEGIN /\ b # SYSEX_END
           /\ b # 256 /\ SYSEX_BEGIN # 256
  BY DEF Uint8, midi_is_realtime, midi_is_statusbyte, MIDI_CLOCK, SYSEX_BEGIN, SYSEX_END

(* What the bytes of the buffer amount to.                                 *)
LEMMA HeardBytes ==
    ASSUME IInv, KeptInv, pc = "idle"
    PROVE  /\ HeardIs /\ DeliveredIs /\ Len(DataHeard) \in 0 .. 2
           /\ StatusInForce \in Uint8 \cup {256}
           /\ input_state = "SYSEX" => OffsetHeard + Len(DataHeard) = input_count
<1>1. HeardIs /\ DeliveredIs /\ TypeOK
  BY Mapping DEF IInv
<1>2. /\ StateAfter = input_state /\ CountAfter = input_count
      /\ input_state \in {"IDLE", "TWO", "THREE", "SYSEX"}
      /\ input_buffer \in [0 .. 2 -> Uint8] /\ input_count \in 0 .. CountRange - 1
  BY <1>1, Before
<1>3. CASE input_state = "IDLE"
  BY <1>1, <1>2, <1>3 DEF HeardIs, Heard, Stream!NoStatus
<1>4. CASE input_state \in {"TWO", "THREE"}
  <2>1. CountAfter \in 1 .. 2 /\ input_buffer[0] \in Uint8
    BY <1>2, <1>4 DEF KeptInv
  <2> QED  BY <1>1, <1>2, <1>4, <2>1 DEF HeardIs, Heard
<1>5. CASE input_state = "SYSEX"
  <2>1. input_count \in Nat
    BY <1>2, CountRangeAssumption
  <2>2. /\ input_count % 3 \in 0 .. 2 /\ (input_count \div 3) * 3 \in Nat
        /\ input_count = (input_count \div 3) * 3 + (input_count % 3)
    BY <2>1, ByThree
  <2>3. StatusInForce = SYSEX_BEGIN /\ OffsetHeard = (input_count \div 3) * 3
        /\ Len(DataHeard) = input_count % 3
    <3>1. /\ Len(<<>>) = 0 /\ Len(<<input_buffer[0]>>) = 1
          /\ Len(<<input_buffer[0], input_buffer[1]>>) = 2
      OBVIOUS
    <3>2. CASE input_count % 3 = 0
      BY <1>1, <1>2, <1>5, <3>1, <3>2 DEF HeardIs, Heard
    <3>3. CASE input_count % 3 = 1
      BY <1>1, <1>2, <1>5, <3>1, <3>3 DEF HeardIs, Heard
    <3>4. CASE input_count % 3 = 2
      BY <1>1, <1>2, <1>5, <3>1, <3>4 DEF HeardIs, Heard
    <3> QED  BY <2>2, <3>2, <3>3, <3>4
  <2> QED  BY <1>1, <1>5, <2>2, <2>3, SysexLengths
<1> QED  BY <1>2, <1>3, <1>4, <1>5

LEMMA FineOrderly ==
    ASSUME IInv, KeptInv, pc = "idle", NEW b, Fine(Listener, b)
    PROVE  Orderly(b)
<1>1. b \in Uint8 /\ Listener.status = StatusInForce /\ Listener.data = DataHeard
      /\ Listener.offset = OffsetHeard
  BY DEF Fine, Listener, State
<1>2. /\ HeardIs /\ DeliveredIs
      /\ input_state = "SYSEX" => OffsetHeard + Len(DataHeard) = input_count
  BY HeardBytes
<1>3. input_state = "SYSEX" <=> StatusInForce = SYSEX_BEGIN
  BY <1>2, Before
<1>4. b = SYSEX_END => input_state = "SYSEX"
  BY <1>1, <1>3 DEF Fine
<1>5. ASSUME input_state = "SYSEX"
      PROVE  /\ midi_packet_length(b) \notin {TWO, THREE}
             /\ ~midi_is_realtime(b) => input_count + 1 < CountRange
  <2> HIDE DEF Listener
  <2>1. \/ midi_is_realtime(b)
        \/ /\ b = SYSEX_END \/ ~midi_is_statusbyte(b)
           /\ OffsetHeard + Len(DataHeard) + 1 < CountRange
    BY <1>1, <1>3, <1>5 DEF Fine
  <2>2. midi_packet_length(b) \in {UNDEFINED, ONE}
    BY <1>1, <2>1, PacketLengths, SysexLengths
  <2> QED  BY <1>2, <1>5, <2>1, <2>2, SysexLengths
<1> QED  BY <1>4, <1>5 DEF Orderly

(* The message in the hands of midi_input_callbacks.                       *)
MsgInv ==
    pc # "idle" =>
        /\ branch = "realtime" => input_state = "ONE" /\ msg.cnt = 1
        /\ input_state # "SYSEX" => msg.cnt \in 1 .. 3

LEMMA MsgMade ==
    ASSUME IInv, KeptInv, NEW b \in Bytes, Orderly(b), ProcessByte(b)
    PROVE  /\ MsgInv' /\ pc' \in {"idle", "specific"}
           /\ branch' = "realtime" => midi_is_realtime(b) /\ msg'.bytes[1] = b
           /\ pc' = "specific" =>
                  (input_state' = "SYSEX" <=>
                      /\ input_state = "SYSEX" /\ ~midi_is_realtime(b)
                      /\ b = SYSEX_END \/ ~midi_is_statusbyte(b))
<1>1. pc = "idle" /\ b \in Uint8 /\ TypeOK /\ branch = "none"
  BY BytesAssumption DEF ProcessByte, IInv, TypeOK
<1>2. StateAfter = input_state /\ CountAfter = input_count
  BY <1>1 DEF StateAfter, CountAfter
<1>3. CASE RealtimeByte(b)
  <2>1. /\ branch' = "realtime" /\ msg' = [cnt |-> 1, bytes |-> <<b, 0, 0>>] /\ pc' = "specific"
        /\ input_state' = "ONE" /\ midi_is_realtime(b)
    BY <1>3 DEF RealtimeByte, Callbacks
  <2> QED  BY <2>1 DEF MsgInv
<1>4. CASE StatusOne(b)
  <2>1. /\ branch' = "one" /\ msg' = [cnt |-> 1, bytes |-> <<b, 0, 0>>] /\ pc' = "specific"
        /\ input_state' = "ONE" /\ midi_is_statusbyte(b) /\ b # SYSEX_END
    BY <1>4, SysexLengths DEF StatusOne, Status, Callbacks
  <2> QED  BY <2>1 DEF MsgInv
<1>5. CASE SysexEnd(b)
  <2>1. input_state = "SYSEX" /\ b = SYSEX_END /\ branch' = "sysexend" /\ pc' = "specific"
        /\ input_state' = "SYSEX"
    BY <1>5 DEF SysexEnd, Orderly, Callbacks
  <2> QED  BY <2>1, SysexLengths DEF MsgInv
<1>6. CASE DataByte(b)
  <2>1. /\ ~midi_is_statusbyte(b) /\ input_state \in {"TWO", "THREE", "SYSEX"}
        /\ input_state' = input_state
    BY <1>1, <1>6 DEF DataByte, TypeOK, InputState
  <2>2. ~midi_is_realtime(b)
    BY <1>1, <2>1, StatusBytes
  <2>3. \/ pc' = "idle" /\ branch' = "none"
        \/ /\ pc' = "specific" /\ branch' = "data" /\ msg'.cnt = Plus1(input_count)
           /\ input_count % 3 = 2 \/ (input_count % 3 = 1 /\ input_state = "TWO")
    <3> DEFINE n == input_count % 3
    <3>1. /\ input_count' = Plus1(input_count)
          /\ \/ n = 2 /\ Callbacks("data", input_count',
                                    <<input_buffer'[0], input_buffer'[1], input_buffer'[2]>>)
             \/ n = 1 /\ input_state = "TWO"
                /\ Callbacks("data", input_count', <<input_buffer'[0], input_buffer'[1], 0>>)
             \/ NoCallbacks
      BY <1>6 DEF DataByte
    <3> HIDE DEF n
    <3>2. ASSUME NEW bytes, Callbacks("data", input_count', bytes)
          PROVE  pc' = "specific" /\ branch' = "data" /\ msg'.cnt = Plus1(input_count)
      BY <3>1, <3>2 DEF Callbacks
    <3>3. NoCallbacks => pc' = "idle" /\ branch' = "none"
      BY <1>1 DEF NoCallbacks
    <3> QED  BY <3>1, <3>2, <3>3 DEF n
  <2>4. ASSUME input_state # "SYSEX", pc' = "specific" PROVE msg'.cnt \in 1 .. 3
    <3>1. input_count \in 1 .. 2 /\ input_count \in 0 .. CountRange - 1
      BY <1>1, <1>2, <2>1, <2>4 DEF KeptInv, TypeOK
    <3>2. Plus1(input_count) \in 0 .. CountRange - 1
          /\ Plus1(input_count) = IF input_count + 1 = CountRange THEN 0 ELSE input_count + 1
      BY <3>1, CountIs
    <3>3. Plus1(input_count) \in 1 .. 3
      BY <3>1, <3>2, CountRangeAssumption
    <3> QED  BY <2>3, <2>4, <3>3
  <2> QED  BY <2>1, <2>2, <2>3, <2>4 DEF MsgInv
<1>7. CASE StatusOfMessage(b) \/ SysexBegin(b) \/ StatusUndefined(b) \/ DataIgnored(b)
  <2>1. pc' = "idle" /\ branch' = "none"
    BY <1>1, <1>7 DEF StatusOfMessage, SysexBegin, StatusUndefined, DataIgnored, NoCallbacks
  <2> QED  BY <2>1 DEF MsgInv
<1> QED  BY <1>3, <1>4, <1>5, <1>6, <1>7 DEF ProcessByte

(* One byte: the stream moves as NextState says, and what it delivers is   *)
(* what NextState says.                                                    *)
Follows(b) ==
    /\ Listener' = Quiet(NextState(Listener, b))
    /\ Delivered' = NextState(Listener, b).said

LEMMA FollowsIs ==
    ASSUME NEW b, NEW s, NEW d, NEW o, NEW m, NEW c, NextState(Listener, b) = State(s, d, o, m, c),
           StatusInForce' = s, DataHeard' = d, OffsetHeard' = o, Delivered' = m
    PROVE  Follows(b)
<1> DEFINE n == State(s, d, o, m, c)
<1>1. n.status = s /\ n.data = d /\ n.offset = o /\ n.said = m
  BY StateIs
<1> HIDE DEF n
<1>2. Listener' = State(s, d, o, <<>>, FALSE)
  BY DEF Listener, State
<1>3. Quiet(n) = State(s, d, o, <<>>, FALSE)
  BY <1>1 DEF Quiet
<1>4. NextState(Listener, b) = n
  BY DEF n
<1> QED  BY <1>1, <1>2, <1>3, <1>4 DEF Follows

LEMMA NextIs ==
    ASSUME NEW b
    PROVE  NextState(Listener, b) =
             IF midi_is_realtime(b) THEN State(StatusInForce, DataHeard, OffsetHeard, <<0, <<b>>>>, FALSE)
             ELSE IF b = SYSEX_BEGIN THEN State(b, <<b>>, 0, <<>>, FALSE)
             ELSE IF b = SYSEX_END THEN State(256, <<>>, 0, <<OffsetHeard, Append(DataHeard, b)>>, TRUE)
             ELSE IF midi_packet_length(b) = ONE THEN State(256, <<>>, 0, <<0, <<b>>>>, FALSE)
             ELSE IF midi_is_statusbyte(b) THEN State(b, <<>>, 0, <<>>, FALSE)
             ELSE IF StatusInForce = SYSEX_BEGIN
             THEN IF Len(DataHeard) = 2
                  THEN State(StatusInForce, <<>>, OffsetHeard + 3,
                             <<OffsetHeard, Append(DataHeard, b)>>, TRUE)
                  ELSE State(StatusInForce, Append(DataHeard, b), OffsetHeard, <<>>, FALSE)
             ELSE IF Len(DataHeard) + 2 = midi_packet_length(StatusInForce)
             THEN State(StatusInForce, <<>>, OffsetHeard, <<0, <<StatusInForce>> \o Append(DataHeard, b)>>, FALSE)
             ELSE State(StatusInForce, Append(DataHeard, b), OffsetHeard, <<>>, FALSE)
<1>1. Listener.status = StatusInForce /\ Listener.data = DataHeard /\ Listener.offset = OffsetHeard
  BY DEF Listener, State
<1> HIDE DEF Listener
<1> QED  BY <1>1 DEF NextState

LEMMA ByteHeard ==
    ASSUME IInv, KeptInv, NEW b \in Bytes, Fine(Listener, b), ProcessByte(b)
    PROVE  Follows(b)
<1>1. pc = "idle" /\ b \in Uint8
  BY BytesAssumption DEF ProcessByte
<1>2. /\ Len(DataHeard) \in 0 .. 2 /\ StatusInForce \in Uint8 \cup {256} /\ DeliveredIs
  BY <1>1, HeardBytes
<1>3. Delivered = <<>>
  BY <1>1, <1>2 DEF DeliveredIs, Stream!Nothing
<1>4. Stream!Receive(b)
  BY <1>1, FineOrderly, ByteMaps DEF Maps
<1>5. /\ b = SYSEX_END => StatusInForce = SYSEX_BEGIN
      /\ ~midi_is_statusbyte(b) => StatusInForce # 256
      /\ midi_is_statusbyte(b) /\ midi_packet_length(b) = UNDEFINED =>
           b \in {SYSEX_BEGIN, SYSEX_END} \/ midi_is_realtime(b)
  <2>1. Listener.status = StatusInForce
    BY DEF Listener, State
  <2> HIDE DEF Listener
  <2> QED  BY <2>1 DEF Fine
<1> USE DEF Stream!Deliver, Stream!Message, Stream!InForce, Stream!NoStatus
<1>6. CASE Stream!Realtime(b)
  <2>1. /\ midi_is_realtime(b) /\ StatusInForce' = StatusInForce /\ DataHeard' = DataHeard
        /\ OffsetHeard' = OffsetHeard /\ Delivered' = <<0, <<b>>>>
    BY <1>6, SameBytes DEF Stream!Realtime
  <2>2. NextState(Listener, b) = State(StatusInForce, DataHeard, OffsetHeard, <<0, <<b>>>>, FALSE)
    BY <2>1, NextIs
  <2> QED  BY <2>1, <2>2, FollowsIs
<1>7. CASE Stream!Status(b)
  <2>1. midi_is_statusbyte(b) /\ ~midi_is_realtime(b)
    BY <1>7, SameBytes DEF Stream!Status
  <2>2. CASE midi_packet_length(b) = ONE
    <3>1. /\ StatusInForce' = 256 /\ DataHeard' = <<>> /\ OffsetHeard' = 0 /\ Delivered' = <<0, <<b>>>>
          /\ b # SYSEX_BEGIN /\ b # SYSEX_END
      BY <1>7, <2>2, SameBytes, SysexLengths DEF Stream!Status
    <3>2. NextState(Listener, b) = State(256, <<>>, 0, <<0, <<b>>>>, FALSE)
      BY <2>1, <2>2, <3>1, NextIs
    <3> QED  BY <3>1, <3>2, FollowsIs
  <2>3. CASE midi_packet_length(b) \in {TWO, THREE}
    <3>1. /\ StatusInForce' = b /\ DataHeard' = <<>> /\ OffsetHeard' = 0 /\ Delivered' = <<>>
          /\ b # SYSEX_BEGIN /\ b # SYSEX_END /\ midi_packet_length(b) # ONE
      BY <1>3, <1>7, <2>3, SameBytes, SysexLengths DEF Stream!Status
    <3>2. NextState(Listener, b) = State(b, <<>>, 0, <<>>, FALSE)
      BY <2>1, <3>1, NextIs
    <3> QED  BY <3>1, <3>2, FollowsIs
  <2>4. CASE midi_packet_length(b) = UNDEFINED
    <3>1. b # SYSEX_BEGIN /\ ~(b = SYSEX_END /\ StatusInForce = SYSEX_BEGIN)
      BY <1>7, <2>4, SameBytes, SysexLengths DEF Stream!Status
    <3> QED  BY <1>5, <2>1, <2>4, <3>1
  <2> QED  BY <1>1, <2>2, <2>3, <2>4, PacketLengths
<1>8. CASE Stream!SysexStart(b)
  <2>1. /\ b = SYSEX_BEGIN /\ StatusInForce' = b /\ DataHeard' = <<b>> /\ OffsetHeard' = 0
        /\ Delivered' = <<>>
    BY <1>3, <1>8, SameBytes DEF Stream!SysexStart
  <2>2. NextState(Listener, b) = State(b, <<b>>, 0, <<>>, FALSE)
    BY <2>1, NextIs, SysexLengths
  <2> QED  BY <2>1, <2>2, FollowsIs
<1>9. CASE Stream!SysexStop(b)
  <2> DEFINE m == <<OffsetHeard, Append(DataHeard, b)>>
  <2>1. b = SYSEX_END
    BY <1>9, SameBytes DEF Stream!SysexStop
  <2>2. StatusInForce' = 256 /\ DataHeard' = <<>> /\ OffsetHeard' = 0 /\ Delivered' = m
    BY <1>9, SameBytes DEF Stream!SysexStop
  <2>3. NextState(Listener, b) = State(256, <<>>, 0, m, TRUE)
    BY <2>1, NextIs, SysexLengths
  <2> HIDE DEF m
  <2> QED  BY <2>2, <2>3, FollowsIs
<1>10. CASE Stream!SysexData(b) \/ Stream!Data(b) \/ Stream!Ignored(b)
  <2>1. ~midi_is_statusbyte(b) /\ ~midi_is_realtime(b) /\ b # SYSEX_BEGIN /\ b # SYSEX_END
        /\ midi_packet_length(b) # ONE /\ StatusInForce # 256
    <3>1. ~midi_is_statusbyte(b)
      BY <1>10, SameBytes DEF Stream!SysexData, Stream!Data, Stream!Ignored
    <3> QED  BY <1>1, <1>5, <3>1, PacketLengths, SysexLengths, StatusBytes
  <2>2. NextState(Listener, b) =
             IF StatusInForce = SYSEX_BEGIN
             THEN IF Len(DataHeard) = 2
                  THEN State(StatusInForce, <<>>, OffsetHeard + 3,
                             <<OffsetHeard, Append(DataHeard, b)>>, TRUE)
                  ELSE State(StatusInForce, Append(DataHeard, b), OffsetHeard, <<>>, FALSE)
             ELSE IF Len(DataHeard) + 2 = midi_packet_length(StatusInForce)
             THEN State(StatusInForce, <<>>, OffsetHeard, <<0, <<StatusInForce>> \o Append(DataHeard, b)>>, FALSE)
             ELSE State(StatusInForce, Append(DataHeard, b), OffsetHeard, <<>>, FALSE)
    BY <2>1, NextIs
  <2>3. CASE Stream!SysexData(b)
    <3>1. StatusInForce = SYSEX_BEGIN /\ StatusInForce' = StatusInForce
      BY <2>3, SameBytes DEF Stream!SysexData
    <3>2. CASE Len(DataHeard) = 2
      <4>1. /\ DataHeard' = <<>> /\ OffsetHeard' = OffsetHeard + 3
            /\ Delivered' = <<OffsetHeard, Append(DataHeard, b)>>
        BY <2>3, <3>2 DEF Stream!SysexData
      <4> HIDE DEF Stream!Deliver, Stream!Message, Stream!InForce, Stream!NoStatus
      <4>2. NextState(Listener, b) = State(StatusInForce, <<>>, OffsetHeard + 3,
                             <<OffsetHeard, Append(DataHeard, b)>>, TRUE)
        BY <2>2, <3>1, <3>2
      <4> QED  BY <3>1, <4>1, <4>2, FollowsIs
    <3>3. CASE Len(DataHeard) # 2
      <4>1. /\ DataHeard' = Append(DataHeard, b) /\ OffsetHeard' = OffsetHeard /\ Delivered' = <<>>
        BY <1>3, <2>3, <3>3 DEF Stream!SysexData
      <4>2. NextState(Listener, b) = State(StatusInForce, Append(DataHeard, b), OffsetHeard, <<>>, FALSE)
        BY <2>2, <3>1, <3>3
      <4> QED  BY <3>1, <4>1, <4>2, FollowsIs
    <3> QED  BY <3>2, <3>3
  <2>4. CASE Stream!Data(b)
    <3>1. StatusInForce # SYSEX_BEGIN /\ StatusInForce' = StatusInForce /\ OffsetHeard' = OffsetHeard
      BY <2>4, SameBytes DEF Stream!Data
    <3>2. CASE Len(DataHeard) + 2 = midi_packet_length(StatusInForce)
      <4>1. /\ DataHeard' = <<>>
            /\ Delivered' = <<0, <<StatusInForce>> \o Append(DataHeard, b)>>
        BY <1>2, <2>1, <2>4, <3>2, SameBytes DEF Stream!Data
      <4>2. NextState(Listener, b) =
               State(StatusInForce, <<>>, OffsetHeard, <<0, <<StatusInForce>> \o Append(DataHeard, b)>>, FALSE)
        BY <2>2, <3>1, <3>2
      <4> QED  BY <3>1, <4>1, <4>2, FollowsIs
    <3>3. CASE Len(DataHeard) + 2 # midi_packet_length(StatusInForce)
      <4>1. DataHeard' = Append(DataHeard, b) /\ Delivered' = <<>>
        BY <1>3, <2>4, <3>3, SameBytes DEF Stream!Data
      <4>2. NextState(Listener, b) = State(StatusInForce, Append(DataHeard, b), OffsetHeard, <<>>, FALSE)
        BY <2>2, <3>1, <3>3
      <4> QED  BY <3>1, <4>1, <4>2, FollowsIs
    <3> QED  BY <3>2, <3>3
  <2>5. CASE Stream!Ignored(b)
    BY <2>1, <2>5 DEF Stream!Ignored
  <2> QED  BY <1>10, <2>3, <2>4, <2>5
<1> QED  BY <1>4, <1>6, <1>7, <1>8, <1>9, <1>10 DEF Stream!Receive

-----------------------------------------------------------------------------
(* The call that a message causes is the one of midi_input_callbacks.      *)

LEMMA PieceIs ==
    ASSUME NEW b \in Uint8, Fine(Listener, b), NEW s, s = NextState(Listener, b), s.said # <<>>
    PROVE  /\ s.piece \in BOOLEAN
           /\ s.piece <=> /\ StatusInForce = SYSEX_BEGIN /\ ~midi_is_realtime(b)
                          /\ b = SYSEX_END \/ ~midi_is_statusbyte(b)
<1>1. b = SYSEX_END => StatusInForce = SYSEX_BEGIN
  <2>1. Listener.status = StatusInForce
    BY DEF Listener, State
  <2> HIDE DEF Listener
  <2> QED  BY <2>1 DEF Fine
<1>2. midi_is_realtime(b) => midi_is_statusbyte(b) /\ b # SYSEX_BEGIN /\ b # SYSEX_END
  BY StatusBytes
<1>3. midi_packet_length(b) = ONE => midi_is_statusbyte(b) /\ b # SYSEX_BEGIN /\ b # SYSEX_END
  BY PacketLengths, SysexLengths
<1> HIDE DEF Listener
<1>4. CASE midi_is_realtime(b)
  <2>1. s = State(StatusInForce, DataHeard, OffsetHeard, <<0, <<b>>>>, FALSE)
    BY <1>4, NextIs
  <2> QED  BY <1>4, <2>1 DEF State
<1>5. CASE ~midi_is_realtime(b) /\ b = SYSEX_BEGIN
  <2>1. s = State(b, <<b>>, 0, <<>>, FALSE)
    BY <1>5, NextIs
  <2> QED  BY <2>1 DEF State
<1>6. CASE ~midi_is_realtime(b) /\ b # SYSEX_BEGIN /\ b = SYSEX_END
  <2>1. s = State(256, <<>>, 0, <<OffsetHeard, Append(DataHeard, b)>>, TRUE)
    BY <1>6, NextIs
  <2>2. s.piece = TRUE
    BY <2>1 DEF State
  <2> QED  BY <1>1, <1>6, <2>2
<1>7. CASE ~midi_is_realtime(b) /\ b # SYSEX_BEGIN /\ b # SYSEX_END /\ midi_packet_length(b) = ONE
  <2>1. s = State(256, <<>>, 0, <<0, <<b>>>>, FALSE)
    BY <1>7, NextIs
  <2> QED  BY <1>3, <1>7, <2>1 DEF State
<1>8. CASE /\ ~midi_is_realtime(b) /\ b # SYSEX_BEGIN /\ b # SYSEX_END /\ midi_packet_length(b) # ONE
           /\ midi_is_statusbyte(b)
  <2>1. s = State(b, <<>>, 0, <<>>, FALSE)
    BY <1>8, NextIs
  <2> QED  BY <2>1 DEF State
<1>9. CASE /\ ~midi_is_realtime(b) /\ b # SYSEX_BEGIN /\ b # SYSEX_END /\ midi_packet_length(b) # ONE
           /\ ~midi_is_statusbyte(b)
  <2>1. CASE StatusInForce = SYSEX_BEGIN
    <3>1. s = IF Len(DataHeard) = 2
              THEN State(StatusInForce, <<>>, OffsetHeard + 3,
                         <<OffsetHeard, Append(DataHeard, b)>>, TRUE)
              ELSE State(StatusInForce, Append(DataHeard, b), OffsetHeard, <<>>, FALSE)
      BY <1>9, <2>1, NextIs
    <3>2. s.piece = TRUE
      BY <3>1 DEF State
    <3> QED  BY <1>9, <2>1, <3>2
  <2>2. CASE StatusInForce # SYSEX_BEGIN
    <3>1. s = IF Len(DataHeard) + 2 = midi_packet_length(StatusInForce)
              THEN State(StatusInForce, <<>>, OffsetHeard,
                         <<0, <<StatusInForce>> \o Append(DataHeard, b)>>, FALSE)
              ELSE State(StatusInForce, Append(DataHeard, b), OffsetHeard, <<>>, FALSE)
      BY <1>9, <2>2, NextIs
    <3>2. s.piece = FALSE
      BY <3>1 DEF State
    <3> QED  BY <1>9, <2>2, <3>2
  <2> QED  BY <2>1, <2>2
<1> QED  BY <1>4, <1>5, <1>6, <1>7, <1>8, <1>9

(* The callback for a count and a kind of status byte.                     *)
NameOf(n, k) ==
    IF n = 3 THEN CASE k = 176 -> "cc" [] k = 144 -> "noteon" [] k = 128 -> "noteoff"
                    [] k = 160 -> "aftertouch" [] k = 224 -> "pitchbend" [] k = 242 -> "songposition"
    ELSE IF n = 2 THEN CASE k = 192 -> "progchange" [] k = 208 -> "chanpressure"
                         [] k = 243 -> "songselect" [] k = 241 -> "tc_quarterframe"
    ELSE "tunerequest"

LEMMA DispatchIs ==
    ASSUME NEW e \in Dispatch
    PROVE  /\ e[3] = NameOf(e[1], e[2]) /\ e[3] \in Specific
           /\ e[1] = 1 => e[2] = 246
<1>1. PICK n, k, f : e = <<n, k, f>>
  BY DEF Dispatch
<1>2. \/ n = 3 /\ k = 176 /\ f = "cc"
      \/ n = 3 /\ k = 144 /\ f = "noteon"
      \/ n = 3 /\ k = 128 /\ f = "noteoff"
      \/ n = 3 /\ k = 160 /\ f = "aftertouch"
      \/ n = 3 /\ k = 224 /\ f = "pitchbend"
      \/ n = 3 /\ k = 242 /\ f = "songposition"
      \/ n = 2 /\ k = 192 /\ f = "progchange"
      \/ n = 2 /\ k = 208 /\ f = "chanpressure"
      \/ n = 2 /\ k = 243 /\ f = "songselect"
      \/ n = 2 /\ k = 241 /\ f = "tc_quarterframe"
      \/ n = 1 /\ k = 246 /\ f = "tunerequest"
  BY <1>1 DEF Dispatch, MIDI_CC, MIDI_NOTEON, MIDI_NOTEOFF, MIDI_AFTERTOUCH, MIDI_PITCHBEND,
              MIDI_SONGPOSITION, MIDI_PROGCHANGE, MIDI_CHANPRESSURE, MIDI_SONGSELECT,
              MIDI_TC_QUARTERFRAME, MIDI_TUNEREQUEST
<1>3. f = NameOf(n, k) /\ f \in Specific /\ (n = 1 => k = 246)
  BY <1>2 DEF NameOf, Specific
<1>4. e[1] = n /\ e[2] = k /\ e[3] = f
  BY <1>1
<1> QED  BY <1>3, <1>4

(* A realtime byte is of no kind that is dispatched.                       *)
LEMMA RealtimeKind ==
    ASSUME NEW b \in Uint8, midi_is_realtime(b)
    PROVE  Kind(b) = b /\ Unchanneled(b) = b /\ Kind(b) # 246
<1>1. b \in 248 .. 255
  BY DEF Uint8, midi_is_realtime, MIDI_CLOCK
<1>2. HighNibble(b) = 240
  <2>1. b \div 16 = 15
    BY <1>1
  <2> QED  BY <2>1 DEF HighNibble
<1> QED  BY <1>1, <1>2 DEF Kind, Unchanneled

(* The callbacks that a message other than a system exclusive one matches. *)
LEMMA MatchingIs ==
    ASSUME TypeOK, input_state # "SYSEX", msg.cnt \in 1 .. 3
    PROVE  /\ Matching \subseteq Specific
           /\ \A f : f \in Matching <=>
                 \/ \E e \in Dispatch : e[1] = msg.cnt /\ e[2] = Kind(msg.bytes[1]) /\ f = e[3]
                 \/ f = "realtime" /\ msg.cnt = 1 /\ midi_is_realtime(msg.bytes[1])
           /\ \A f, g \in Matching : f = g
<1>1. \A f : f \in Matching <=>
                 \/ \E e \in Dispatch : e[1] = msg.cnt /\ e[2] = Kind(msg.bytes[1]) /\ f = e[3]
                 \/ f = "realtime" /\ msg.cnt = 1 /\ midi_is_realtime(msg.bytes[1])
  BY DEF Matching
<1>2. Matching \subseteq Specific
  BY <1>1, DispatchIs DEF Specific
<1>3. msg.bytes[1] \in Uint8
  BY DEF TypeOK
<1>4. ASSUME NEW f \in Matching, NEW g \in Matching PROVE f = g
  <2>1. CASE msg.cnt = 1 /\ midi_is_realtime(msg.bytes[1])
    <3>1. Kind(msg.bytes[1]) # 246
      BY <1>3, <2>1, RealtimeKind
    <3>2. ASSUME NEW h \in Matching PROVE h = "realtime"
      BY <1>1, <2>1, <3>1, DispatchIs
    <3> QED  BY <3>2
  <2>2. CASE ~(msg.cnt = 1 /\ midi_is_realtime(msg.bytes[1]))
    <3>1. ASSUME NEW h \in Matching PROVE h = NameOf(msg.cnt, Kind(msg.bytes[1]))
      BY <1>1, <2>2, DispatchIs
    <3> QED  BY <3>1
  <2> QED  BY <2>1, <2>2
<1> QED  BY <1>1, <1>2, <1>4

(* The arguments are those that Tells expects.                             *)
LEMMA CallIs ==
    ASSUME TypeOK, MsgInv, pc # "idle", NEW call, Tells(Delivered, input_state = "SYSEX", call)
    PROVE  /\ \A f \in Matching : Meaning(f, SpecificArgs) = call
           /\ Matching # {} /\ Matching \subseteq Specific
<1>1. CASE input_state = "SYSEX"
  <2>1. Matching = {"sysex"}
    BY <1>1 DEF Matching
  <2>2. Delivered = SpecificArgs
    BY <1>1 DEF Delivered, SpecificArgs
  <2>3. call = <<"sysex", Delivered>>
    BY <1>1 DEF Tells
  <2>4. Meaning("sysex", SpecificArgs) = <<"sysex", SpecificArgs>>
    BY DEF Meaning
  <2> QED  BY <2>1, <2>2, <2>3, <2>4 DEF Specific
<1>2. CASE input_state # "SYSEX"
  <2>1. msg.cnt \in 1 .. 3 /\ msg.bytes \in [1 .. 3 -> Uint8]
    BY <1>2 DEF MsgInv, TypeOK
  <2> DEFINE bytes == SubSeq(msg.bytes, 1, msg.cnt)
  <2>2. Delivered = <<0, bytes>> /\ Delivered[2] = bytes
    BY <1>2 DEF Delivered
  <2>3. /\ IsSeq(msg.bytes) /\ Len(msg.bytes) = 3
    <3>1. msg.bytes = [i \in 1 .. 3 |-> msg.bytes[i]]
      BY <2>1
    <3> QED  BY <3>1, FunctionSeq
  <2>4. Len(bytes) = msg.cnt /\ \A i \in 1 .. msg.cnt : bytes[i] = msg.bytes[i]
    <3>1. /\ Len(bytes) = msg.cnt - 1 + 1
          /\ \A i \in 1 .. msg.cnt - 1 + 1 : bytes[i] = msg.bytes[1 + i - 1]
      BY <2>1, <2>3, PartIs
    <3>2. msg.cnt - 1 + 1 = msg.cnt /\ \A i \in 1 .. msg.cnt : 1 + i - 1 = i
      BY <2>1
    <3> QED  BY <3>1, <3>2
  <2> HIDE DEF bytes
  <2>5. bytes[1] = msg.bytes[1]
    BY <2>1, <2>4
  <2>6. Args(bytes) = SpecificArgs
    <3>1. Args(bytes) = [i \in 1 .. msg.cnt |-> IF i = 1 THEN Unchanneled(msg.bytes[1]) ELSE msg.bytes[i]]
      BY <2>4, <2>5 DEF Args
    <3> QED  BY <1>2, <3>1 DEF SpecificArgs
  <2>7. \E f \in Matching : call = Meaning(f, SpecificArgs)
    <3>1. \/ \E e \in Dispatch : /\ e[1] = Len(bytes) /\ e[2] = Kind(bytes[1])
                                 /\ call = Meaning(e[3], Args(bytes))
          \/ /\ Len(bytes) = 1 /\ midi_is_realtime(bytes[1])
             /\ call = Meaning("realtime", Args(bytes))
      BY <1>2, <2>2 DEF Tells
    <3> QED  BY <1>2, <2>1, <2>4, <2>5, <2>6, <3>1, MatchingIs
  <2> QED  BY <1>2, <2>1, <2>7, MatchingIs
<1> QED  BY <1>1, <1>2

(* A clock byte of another sender causes its own call and no other.        *)
Stray == cable = "serial" /\ branch = "realtime" /\ msg.bytes[1] = MIDI_CLOCK

LEMMA StrayCall ==
    ASSUME TypeOK, MsgInv, pc # "idle", Stray
    PROVE  \A f \in Matching : Meaning(f, SpecificArgs) = ClockHeard
<1>1. input_state = "ONE" /\ msg.cnt = 1 /\ msg.bytes[1] = 248
  BY DEF MsgInv, Stray, MIDI_CLOCK
<1>2. midi_is_realtime(248) /\ 248 \in Uint8
  BY DEF midi_is_realtime, MIDI_CLOCK, Uint8
<1>3. "realtime" \in Matching /\ \A f \in Matching : f = "realtime"
  <2>1. input_state # "SYSEX" /\ msg.cnt \in 1 .. 3
    BY <1>1
  <2> QED  BY <1>1, <1>2, <2>1, MatchingIs
<1>4. SpecificArgs = <<248>>
  <2>1. SpecificArgs = [i \in 1 .. 1 |-> Unchanneled(248)]
    BY <1>1 DEF SpecificArgs
  <2>2. Unchanneled(248) = 248
    BY <1>2, RealtimeKind
  <2> QED  BY <2>1, <2>2
<1>5. Meaning("realtime", <<248>>) = <<"realtime", <<248>>>>
  BY DEF Meaning
<1> QED  BY <1>3, <1>4, <1>5 DEF ClockHeard, MIDI_CLOCK

-----------------------------------------------------------------------------
(* The invariant: what is underway causes, byte by byte, the calls that    *)
(* are due; while a message is on its way to its callback, the first of    *)
(* them is its call.                                                       *)

Waits == pc = "specific" /\ ~Stray

Told == IF Waits THEN 1 ELSE 0

WireInv ==
    /\ CableTypes /\ MsgInv
    /\ underway \in Seq(Uint8) /\ IsSeq(due) /\ NoClock(due)
    /\ registered \in {{}, Specific}
    /\ registered = {} => underway = <<>> /\ due = <<>>
    /\ Causes(Listener, underway, Told, due)
    /\ Waits => /\ registered = Specific /\ due # <<>>
                /\ Tells(Delivered, input_state = "SYSEX", due[1])

TripInv == IInv /\ KeptInv /\ WireInv

(* What the theorems ask of the operations of the sending program.         *)
Carried == \A c \in Cable : \A o \in Operation[c] : Carries(c, o)

LEMMA ByteSeq ==
    ASSUME NEW s \in Seq(Uint8)
    PROVE  /\ IsSeq(s)
           /\ s # <<>> => Head(s) \in Uint8 /\ Tail(s) \in Seq(Uint8)
           /\ \A t \in Seq(Uint8) : s \o t \in Seq(Uint8)
<1>1. IsSeq(s)
  BY DEF IsSeq
<1>2. s # <<>> => Head(s) \in Uint8 /\ Tail(s) \in Seq(Uint8)
  BY HeadTailProperties
<1>3. \A t \in Seq(Uint8) : s \o t \in Seq(Uint8)
  BY ConcatProperties
<1> QED  BY <1>1, <1>2, <1>3

(* The cable stays the same, and with it what bytes cause.                 *)
LEMMA CausesNow ==
    ASSUME cable' = cable, NEW r, NEW p, NEW t, NEW d, Causes(r, p, t, d),
           Listener' = r, underway' = p, Told' = t, due' = d
    PROVE  Causes(Listener, underway, Told, due)'
<1> HIDE DEF Listener, Told
<1>1. PICK run, told : Trace(run, told, p, d) /\ run[0] = r /\ told[0] = t
  BY DEF Causes
<1>2. Trace(run, told, underway, due)'
  BY <1>1 DEF Trace, Link, Fine
<1> QED  BY <1>1, <1>2 DEF Causes

(* Steps that leave what is heard and what is due alone.                   *)
LEMMA WireKept ==
    ASSUME TripInv, UNCHANGED <<trip, parse, branch, state, msg, registered>>,
           (pc = "idle") <=> (pc' = "idle"), (pc = "specific") <=> (pc' = "specific")
    PROVE  KeptInv' /\ WireInv'
<1>1. KeptInv' /\ UNCHANGED Stream!stream
  BY Unheard DEF TripInv
<1>2. /\ Listener' = Listener /\ Delivered' = Delivered /\ cable' = cable /\ underway' = underway
      /\ due' = due /\ input_state' = input_state /\ branch' = branch /\ msg' = msg
      /\ registered' = registered
  BY <1>1 DEF Listener, Stream!stream, trip, parse
<1>3. Stray' = Stray
  BY <1>2 DEF Stray
<1>4. Waits' = Waits /\ Told' = Told /\ MsgInv' = MsgInv /\ CableTypes' = CableTypes /\ NoClock(due)' = NoClock(due)
  BY <1>2, <1>3 DEF Waits, Told, MsgInv, CableTypes, NoClock
<1>5. WireInv
  BY DEF TripInv
<1>6. Causes(Listener, underway, Told, due)'
  BY <1>2, <1>4, <1>5, CausesNow DEF WireInv
<1>7. Tells(Delivered, input_state = "SYSEX", due[1])' = Tells(Delivered, input_state = "SYSEX", due[1])
  BY <1>2 DEF Tells
<1> QED  BY <1>1, <1>2, <1>4, <1>5, <1>6, <1>7 DEF WireInv

LEMMA WaitsIs == pc # "specific" => ~Waits /\ Told = 0
  BY DEF Waits, Told

LEMMA ListenKeeps ==
    ASSUME TripInv, Listen
    PROVE  TripInv'
<1>1. /\ UNCHANGED <<parse, pc, branch, state, msg, called, calls, trip>> /\ pc = "idle"
      /\ registered' = Specific
  BY DEF Listen
<1>2. IInv'
  <2>1. TypeOK'
    BY <1>1, TripByteAssumption DEF TripInv, IInv, TypeOK, parse
  <2>2. BranchInv' /\ CallsInv'
    BY <1>1 DEF TripInv, IInv, BranchInv, CallsInv, parse
  <2> QED  BY <2>1, <2>2 DEF IInv
<1>3. KeptInv' /\ UNCHANGED Stream!stream
  BY <1>1, Unheard DEF TripInv
<1>4. /\ Listener' = Listener /\ cable' = cable /\ underway' = underway /\ due' = due
      /\ Told' = Told /\ ~Waits' /\ MsgInv' /\ CableTypes' /\ NoClock(due)'
  <2>1. Listener' = Listener /\ cable' = cable /\ underway' = underway /\ due' = due /\ pc' = pc
    BY <1>1, <1>3 DEF Listener, Stream!stream, trip
  <2>2. Told = 0 /\ Told' = 0 /\ ~Waits'
    BY <1>1, <2>1, WaitsIs DEF Told, Waits
  <2>3. MsgInv'
    BY <1>1, <2>1 DEF MsgInv
  <2>4. CableTypes' /\ NoClock(due)'
    BY <2>1 DEF TripInv, WireInv, CableTypes, NoClock
  <2> QED  BY <2>1, <2>2, <2>3, <2>4
<1>5. Causes(Listener, underway, Told, due)'
  BY <1>4, CausesNow DEF TripInv, WireInv
<1>6. Specific # {}
  BY DEF Specific
<1>7. WireInv'
  BY <1>1, <1>4, <1>5, <1>6 DEF TripInv, WireInv
<1> QED  BY <1>2, <1>3, <1>7 DEF TripInv

LEMMA OperateKeeps ==
    ASSUME TripInv, NEW o, Carries(cable, o), Operate(o)
    PROVE  TripInv'
<1>1. /\ registered = Specific /\ underway' = underway \o Arriving(o) /\ due' = due \o Promised(o)
      /\ UNCHANGED <<vars, cable>>
  BY DEF Operate
<1>2. IInv' /\ KeptInv' /\ UNCHANGED Stream!stream
  <2>1. IInv'
    BY <1>1, Step DEF TripInv
  <2> QED  BY <1>1, <2>1, Unheard DEF TripInv, vars
<1>3. /\ Listener' = Listener /\ Delivered' = Delivered /\ cable' = cable /\ Told' = Told
      /\ Waits' = Waits /\ MsgInv' = MsgInv /\ CableTypes' /\ registered' = registered
      /\ input_state' = input_state
  BY <1>1, <1>2 DEF Listener, Stream!stream, vars, parse, Told, Waits, Stray, MsgInv, CableTypes,
                    TripInv, WireInv
<1>4. WireInv /\ CableTypes
  BY DEF TripInv, WireInv
<1>5. OpCauses(Arriving(o), Promised(o))
  BY <1>4, OperationCauses
<1> DEFINE p == Arriving(o)
           d == Promised(o)
<1>6. /\ underway \in Seq(Uint8) /\ p \in Seq(Uint8) /\ IsSeq(due) /\ IsSeq(d) /\ NoClock(due) /\ NoClock(d)
      /\ \A r : r.status # SYSEX_BEGIN => Causes(r, p, 0, d)
  BY <1>4, <1>5 DEF WireInv, OpCauses
<1>7. underway' = underway \o p /\ due' = due \o d
  BY <1>1
<1> HIDE DEF p, d
<1>8. Causes(Listener, underway \o p, Told, due \o d)
  <2>1. Causes(Listener, underway, Told, due) /\ IsSeq(underway) /\ IsSeq(p)
    BY <1>4, <1>6, ByteSeq DEF WireInv
  <2> QED  BY <1>6, <2>1, CausesJoin
<1>9. Causes(Listener, underway, Told, due)'
  BY <1>3, <1>7, <1>8, CausesNow
<1>10. /\ IsSeq(due \o d) /\ Len(due) \in Nat /\ Len(d) \in Nat /\ Len(due \o d) = Len(due) + Len(d)
       /\ \A i \in 1 .. Len(due) : (due \o d)[i] = due[i]
       /\ \A i \in 1 .. Len(d) : (due \o d)[Len(due) + i] = d[i]
  BY <1>6, ConcatIs, SeqIs
<1>11. NoClock(due)'
  <2> SUFFICES ASSUME cable = "serial", NEW i \in 1 .. Len(due \o d) PROVE (due \o d)[i] # ClockHeard
    BY <1>3, <1>7 DEF NoClock
  <2>1. CASE i <= Len(due)
    <3>1. i \in 1 .. Len(due)
      BY <1>10, <2>1
    <3> QED  BY <1>6, <1>10, <3>1 DEF NoClock
  <2>2. CASE i > Len(due)
    <3>1. PICK j \in 1 .. Len(d) : i = Len(due) + j
      <4>1. i - Len(due) \in 1 .. Len(d) /\ i = Len(due) + (i - Len(due))
        BY <1>10, <2>2
      <4> QED  BY <4>1
    <3> QED  BY <1>6, <1>10, <3>1 DEF NoClock
  <2>3. i <= Len(due) \/ i > Len(due)
    BY <1>10
  <2> QED  BY <2>1, <2>2, <2>3
<1>12. ASSUME Waits
       PROVE  /\ registered' = Specific /\ due' # <<>>
              /\ Tells(Delivered, input_state = "SYSEX", due[1])'
  <2>1. due # <<>> /\ Tells(Delivered, input_state = "SYSEX", due[1])
    BY <1>4, <1>12 DEF WireInv
  <2>2. 1 \in 1 .. Len(due)
    BY <1>6, <1>10, <2>1, SeqIs
  <2>3. (due \o d)[1] = due[1] /\ due \o d # <<>>
    <3>1. Len(due \o d) # 0
      BY <1>10, <2>2
    <3> QED  BY <1>10, <2>2, <3>1, SeqIs
  <2> QED  BY <1>1, <1>3, <1>7, <2>1, <2>3 DEF Tells
<1>13. underway' \in Seq(Uint8) /\ IsSeq(due')
  BY <1>6, <1>7, <1>10, ByteSeq
<1>14. WireInv'
  BY <1>1, <1>3, <1>4, <1>9, <1>11, <1>12, <1>13 DEF WireInv, Specific
<1> QED  BY <1>2, <1>14 DEF TripInv

LEMMA ClockKeeps ==
    ASSUME TripInv, Clock
    PROVE  TripInv'
<1>1. cable = "serial" /\ ProcessByte(248) /\ UNCHANGED trip /\ pc = "idle"
  BY DEF Clock, MIDI_CLOCK, ProcessByte
<1>2. 248 \in Bytes /\ 248 \in Uint8 /\ midi_is_realtime(248) /\ midi_is_statusbyte(248)
  BY TripByteAssumption DEF Uint8, midi_is_realtime, midi_is_statusbyte, MIDI_CLOCK
<1>3. Orderly(248)
  BY <1>2, PacketLengths, SysexLengths, StatusBytes DEF Orderly
<1>4. IInv'
  BY <1>1, <1>2, ByteStep DEF TripInv
<1>5. KeptInv' /\ Stream!Receive(248)
  BY <1>1, <1>2, <1>3, ByteMaps DEF TripInv, Maps
<1>6. RealtimeByte(248)
  BY <1>1, <1>2, SysexLengths, PacketLengths, StatusBytes
     DEF ProcessByte, StatusOne, StatusOfMessage, Status, SysexBegin, SysexEnd, StatusUndefined,
         DataIgnored, DataByte
<1>7. /\ branch' = "realtime" /\ msg'.bytes[1] = 248 /\ pc' = "specific" /\ registered' = registered
  BY <1>6 DEF RealtimeByte, Callbacks
<1>8. MsgInv'
  BY <1>1, <1>2, <1>3, MsgMade DEF TripInv
<1>9. Listener' = Listener
  <2>1. Stream!Realtime(248)
    BY <1>2, <1>5, SameBytes, SysexLengths, StatusBytes
       DEF Stream!Receive, Stream!Status, Stream!SysexStart, Stream!SysexStop, Stream!SysexData,
           Stream!Data, Stream!Ignored
  <2> QED  BY <2>1 DEF Stream!Realtime, Listener
<1>10. cable' = cable /\ underway' = underway /\ due' = due
  BY <1>1 DEF trip
<1>11. Stray' /\ ~Waits' /\ Told' = 0 /\ Told = 0
  BY <1>1, <1>7, <1>10 DEF Stray, Waits, Told, MIDI_CLOCK
<1>12. Causes(Listener, underway, Told, due)'
  BY <1>9, <1>10, <1>11, CausesNow DEF TripInv, WireInv
<1>13. WireInv'
  BY <1>7, <1>8, <1>10, <1>11, <1>12 DEF TripInv, WireInv, CableTypes, NoClock
<1> QED  BY <1>4, <1>5, <1>13 DEF TripInv

LEMMA ArrivesKeeps ==
    ASSUME TripInv, Arrives
    PROVE  TripInv'
<1> DEFINE b == Head(underway)
           p == Tail(underway)
<1>1. /\ underway # <<>> /\ ProcessByte(b) /\ underway' = p /\ cable' = cable /\ due' = due
      /\ pc = "idle" /\ Told = 0
  BY WaitsIs DEF Arrives, ProcessByte
<1>2. /\ IInv /\ KeptInv /\ CableTypes /\ underway \in Seq(Uint8) /\ IsSeq(due) /\ NoClock(due)
      /\ Causes(Listener, underway, 0, due) /\ registered = Specific
  BY <1>1 DEF TripInv, WireInv
<1>3. IsSeq(underway) /\ b \in Uint8 /\ b \in Bytes /\ p \in Seq(Uint8)
  BY <1>1, <1>2, ByteSeq, TripByteAssumption
<1>4. PICK s, u : Link(Listener, 0, b, s, u, due) /\ u \in 0 .. Len(due) /\ Causes(s, p, u, due)
  BY <1>1, <1>2, <1>3, CausesHead
<1> HIDE DEF b, p
<1>5. /\ Fine(Listener, b) /\ s = NextState(Listener, b)
      /\ s.said = <<>> => u = 0
      /\ s.said # <<>> => u = 1 /\ due # <<>> /\ Tells(s.said, s.piece, due[1])
  <2>1. /\ Fine(Listener, b) /\ s = NextState(Listener, b)
        /\ s.said = <<>> => u = 0
        /\ s.said # <<>> => u = 0 + 1 /\ u \in 1 .. Len(due) /\ Tells(s.said, s.piece, due[u])
    BY <1>4 DEF Link
  <2>2. Len(due) = 0 <=> due = <<>>
    BY <1>2, SeqIs
  <2>3. 0 + 1 = 1 /\ (1 \in 1 .. Len(due) => Len(due) # 0)
    OBVIOUS
  <2> QED  BY <2>1, <2>2, <2>3
<1>6. Orderly(b) /\ Follows(b)
  BY <1>1, <1>2, <1>3, <1>5, FineOrderly, ByteHeard
<1>7. IInv'
  BY <1>1, <1>2, <1>3, ByteStep
<1>8. KeptInv'
  BY <1>1, <1>2, <1>3, <1>6, ByteMaps DEF Maps
<1>9. Listener' = Quiet(s) /\ Delivered' = s.said
  BY <1>5, <1>6 DEF Follows
<1>10. Causes(Quiet(s), p, u, due)
  <2>1. IsSeq(p)
    BY <1>3, ByteSeq
  <2> QED  BY <1>2, <1>4, <2>1, CausesQuiet
<1>11. /\ MsgInv' /\ pc' \in {"idle", "specific"}
       /\ branch' = "realtime" => midi_is_realtime(b) /\ msg'.bytes[1] = b
       /\ pc' = "specific" =>
              (input_state' = "SYSEX" <=>
                  /\ input_state = "SYSEX" /\ ~midi_is_realtime(b)
                  /\ b = SYSEX_END \/ ~midi_is_statusbyte(b))
  BY <1>1, <1>2, <1>3, <1>6, MsgMade
<1>12. pc' = "specific" <=> s.said # <<>>
  <2>1. DeliveredIs'
    BY <1>1, <1>2, <1>3, Mapped DEF Next
  <2> QED  BY <1>9, <1>11, <2>1 DEF DeliveredIs, Stream!Nothing
<1>13. ~Stray'
  <2> SUFFICES ASSUME Stray' PROVE FALSE
    OBVIOUS
  <2>1. cable = "serial" /\ b = MIDI_CLOCK
    BY <1>1, <1>11 DEF Stray
  <2> QED  BY <1>5, <2>1 DEF Fine
<1>14. Told' = u /\ (Waits' <=> s.said # <<>>)
  BY <1>5, <1>12, <1>13 DEF Told, Waits
<1>15. Causes(Listener, underway, Told, due)'
  BY <1>1, <1>9, <1>10, <1>14, CausesNow
<1>16. registered' = Specific
  BY <1>1, <1>2 DEF ProcessByte, RealtimeByte, StatusOne, StatusOfMessage, SysexBegin, SysexEnd,
                    StatusUndefined, DataIgnored, DataByte, Callbacks, NoCallbacks
<1>17. ASSUME Waits'
       PROVE  due' # <<>> /\ Tells(Delivered, input_state = "SYSEX", due[1])'
  <2>1. s.said # <<>> /\ due # <<>> /\ Tells(s.said, s.piece, due[1])
    BY <1>5, <1>14, <1>17
  <2>2. s.piece <=> input_state' = "SYSEX"
    <3>1. s.piece <=> /\ StatusInForce = SYSEX_BEGIN /\ ~midi_is_realtime(b)
                      /\ b = SYSEX_END \/ ~midi_is_statusbyte(b)
      BY <1>3, <1>5, <2>1, PieceIs
    <3>2. input_state = "SYSEX" <=> StatusInForce = SYSEX_BEGIN
      BY <1>1, <1>2, HeardBytes, Before
    <3> QED  BY <1>11, <1>12, <2>1, <3>1, <3>2
  <2>3. s.piece \in BOOLEAN
    BY <1>3, <1>5, <2>1, PieceIs
  <2>4. s.piece = (input_state' = "SYSEX")
    BY <2>2, <2>3
  <2> QED  BY <1>1, <1>9, <2>1, <2>4 DEF Tells
<1>18. CableTypes' /\ NoClock(due)'
  BY <1>1, <1>2 DEF CableTypes, NoClock
<1>19. Specific # {}
  BY DEF Specific
<1>20. underway' \in Seq(Uint8) /\ IsSeq(due')
  BY <1>1, <1>2, <1>3
<1>21. WireInv'
  BY <1>11, <1>15, <1>16, <1>17, <1>18, <1>19, <1>20 DEF WireInv
<1> QED  BY <1>7, <1>8, <1>21 DEF TripInv

(* The specific callback is called with what is due, or with a clock byte  *)
(* that is not.                                                            *)
LEMMA CalledTells ==
    ASSUME TripInv, Called
    PROVE  /\ calls = <<>>
           /\ Waits => /\ due # <<>> /\ due' = Tail(due)
                       /\ \E f, args : calls' = <<<<f, args>>>> /\ Meaning(f, args) = due[1]
           /\ ~Waits => /\ due' = due
                        /\ \/ calls' = <<>>
                           \/ \E f, args : calls' = <<<<f, args>>>> /\ Meaning(f, args) = ClockHeard
<1>1. /\ pc = "specific" /\ registered' = registered
      /\ \/ \E f \in Matching \cap registered : calls' = Append(calls, <<f, SpecificArgs>>)
         \/ Matching \cap registered = {} /\ calls' = calls
      /\ due' = IF calls' # <<>> /\ due # <<>> /\ Meaning(calls'[1][1], calls'[1][2]) = due[1]
                THEN Tail(due) ELSE due
  BY DEF Called, CallSpecific, Runs
<1>2. TypeOK /\ MsgInv /\ calls = <<>>
  BY <1>1 DEF TripInv, WireInv, IInv, CallsInv
<1>3. ASSUME NEW f PROVE Append(<<>>, <<f, SpecificArgs>>) = <<<<f, SpecificArgs>>>>
  OBVIOUS
<1>4. ASSUME NEW f, calls' = <<<<f, SpecificArgs>>>>
      PROVE  /\ calls' # <<>> /\ calls'[1][1] = f /\ calls'[1][2] = SpecificArgs
             /\ \E g, args : calls' = <<<<g, args>>>> /\ Meaning(g, args) = Meaning(f, SpecificArgs)
  BY <1>4
<1>5. CASE Waits
  <2>1. registered = Specific /\ due # <<>> /\ Tells(Delivered, input_state = "SYSEX", due[1])
    BY <1>5 DEF TripInv, WireInv
  <2>2. /\ \A f \in Matching : Meaning(f, SpecificArgs) = due[1]
        /\ Matching # {} /\ Matching \subseteq Specific
    BY <1>1, <1>2, <2>1, CallIs
  <2>3. PICK f \in Matching : calls' = <<<<f, SpecificArgs>>>>
    BY <1>1, <1>2, <1>3, <2>1, <2>2
  <2>4. Meaning(f, SpecificArgs) = due[1]
    BY <2>2
  <2> QED  BY <1>1, <1>2, <1>4, <1>5, <2>1, <2>3, <2>4
<1>6. CASE ~Waits
  <2>1. Stray
    BY <1>1, <1>6 DEF Waits
  <2>2. \A f \in Matching : Meaning(f, SpecificArgs) = ClockHeard
    BY <1>1, <1>2, <2>1, StrayCall
  <2>3. CASE calls' = <<>>
    BY <1>1, <1>2, <1>6, <2>3
  <2>4. CASE calls' # <<>>
    <3>1. PICK f \in Matching : calls' = <<<<f, SpecificArgs>>>>
      BY <1>1, <1>2, <1>3, <2>4
    <3>2. Meaning(f, SpecificArgs) = ClockHeard
      BY <2>2
    <3>3. due # <<>> => due[1] # ClockHeard
      <4>1. cable = "serial" /\ NoClock(due) /\ IsSeq(due)
        BY <2>1 DEF Stray, TripInv, WireInv
      <4>2. due # <<>> => 1 \in 1 .. Len(due)
        BY <4>1, SeqIs
      <4> QED  BY <4>1, <4>2 DEF NoClock
    <3>4. due' = due
      BY <1>1, <1>4, <3>1, <3>2, <3>3
    <3> QED  BY <1>2, <1>4, <1>6, <3>1, <3>2, <3>4
  <2> QED  BY <2>3, <2>4
<1> QED  BY <1>2, <1>5, <1>6

LEMMA CalledKeeps ==
    ASSUME TripInv, Called
    PROVE  TripInv'
<1>1. /\ pc = "specific" /\ pc' = "fallthrough" /\ registered' = registered /\ cable' = cable
      /\ underway' = underway /\ UNCHANGED <<parse, branch, state, msg>>
  BY DEF Called, CallSpecific
<1>2. IInv'
  <2>1. Next
    BY DEF Called, Next, Callout
  <2> QED  BY <2>1, Step DEF TripInv
<1>3. KeptInv' /\ UNCHANGED Stream!stream
  BY <1>1, Unheard DEF TripInv
<1>4. Listener' = Listener /\ ~Waits' /\ Told' = 0
  BY <1>1, <1>3 DEF Listener, Stream!stream, Waits, Told
<1>5. MsgInv'
  BY <1>1 DEF TripInv, WireInv, MsgInv, parse
<1>6. /\ IsSeq(due) /\ NoClock(due) /\ underway \in Seq(Uint8)
      /\ Causes(Listener, underway, Told, due)
  BY DEF TripInv, WireInv
<1>7. CASE Waits
  <2>1. due # <<>> /\ due' = Tail(due) /\ Told = 1
    BY <1>7, CalledTells DEF Told
  <2>2. Causes(Listener, underway, 0, Tail(due))
    BY <1>6, <2>1, ByteSeq, CausesRest
  <2>3. Causes(Listener, underway, Told, due)'
    BY <1>1, <1>4, <2>1, <2>2, CausesNow
  <2>4. IsSeq(due')
    BY <1>6, <2>1, SeqIs
  <2>5. NoClock(due)'
    <3> SUFFICES ASSUME cable = "serial", NEW i \in 1 .. Len(Tail(due)) PROVE Tail(due)[i] # ClockHeard
      BY <1>1, <2>1 DEF NoClock
    <3>1. Len(due) \in Nat /\ Len(Tail(due)) = Len(due) - 1 /\ Tail(due)[i] = due[i + 1]
      BY <1>6, <2>1, SeqIs
    <3>2. i + 1 \in 1 .. Len(due)
      BY <3>1
    <3> QED  BY <1>6, <3>1, <3>2 DEF NoClock
  <2>6. registered = Specific /\ Specific # {}
    BY <1>7 DEF TripInv, WireInv, Specific
  <2>7. CableTypes' /\ registered' = Specific
    BY <1>1, <2>6 DEF TripInv, WireInv, CableTypes
  <2>8. WireInv'
    BY <1>1, <1>4, <1>5, <1>6, <2>3, <2>4, <2>5, <2>6, <2>7 DEF WireInv
  <2> QED  BY <1>2, <1>3, <2>8 DEF TripInv
<1>8. CASE ~Waits
  <2>1. due' = due /\ Told = 0
    BY <1>8, CalledTells DEF Told
  <2>2. Causes(Listener, underway, Told, due)'
    BY <1>1, <1>4, <1>6, <2>1, CausesNow
  <2>3. NoClock(due)' /\ CableTypes'
    BY <1>1, <2>1 DEF TripInv, WireInv, NoClock, CableTypes
  <2>4. WireInv'
    BY <1>1, <1>4, <1>5, <1>6, <2>1, <2>2, <2>3 DEF TripInv, WireInv
  <2> QED  BY <1>2, <1>3, <2>4 DEF TripInv
<1> QED  BY <1>7, <1>8

(* No fallthrough and no catch-all callback is registered.                 *)
LEMMA NoneElse ==
    ASSUME TripInv, CallFallthrough \/ CallCatchall
    PROVE  /\ UNCHANGED <<registered, calls, parse, branch, state, msg>>
           /\ pc \in {"fallthrough", "catchall"} /\ pc' \in {"catchall", "return"}
<1>1. "fallthrough" \notin registered /\ "catchall" \notin registered
  BY DEF TripInv, WireInv, Specific
<1> QED  BY <1>1 DEF CallFallthrough, CallCatchall

LEMMA OthersKeep ==
    ASSUME TripInv, UNCHANGED trip, CallFallthrough \/ CallCatchall \/ Return \/ UNCHANGED vars
    PROVE  TripInv'
<1>1. IInv'
  <2>1. [Next]_vars
    BY DEF Next, Callout
  <2> QED  BY <2>1, Step DEF TripInv
<1>2. CASE CallFallthrough \/ CallCatchall
  BY <1>1, <1>2, NoneElse, WireKept DEF TripInv
<1>3. CASE UNCHANGED vars
  BY <1>1, <1>3, WireKept DEF TripInv, vars
<1>4. CASE Return
  <2>1. DeliveredIs /\ DeliveredIs'
    BY <1>4, Mapped DEF TripInv, Next, Callout
  <2>2. KeptInv' /\ Stream!Settle
    BY <1>4, <2>1, ReturnMaps DEF TripInv
  <2>3. pc = "return" /\ pc' = "idle" /\ registered' = registered
    BY <1>4 DEF Return
  <2>4. /\ Listener' = Listener /\ cable' = cable /\ underway' = underway /\ due' = due
        /\ ~Waits' /\ Told = 0 /\ Told' = 0 /\ MsgInv'
    BY <2>2, <2>3 DEF Stream!Settle, Listener, trip, Waits, Told, MsgInv
  <2>5. Causes(Listener, underway, Told, due)'
    BY <2>4, CausesNow DEF TripInv, WireInv
  <2>6. CableTypes' /\ NoClock(due)'
    BY <2>4 DEF TripInv, WireInv, CableTypes, NoClock
  <2>7. WireInv'
    BY <2>3, <2>4, <2>5, <2>6 DEF TripInv, WireInv
  <2> QED  BY <1>1, <2>2, <2>7 DEF TripInv
<1> QED  BY <1>2, <1>3, <1>4

LEMMA TripStart ==
    ASSUME TripInit PROVE TripInv
<1>1. Init /\ cable \in Cable /\ underway = <<>> /\ due = <<>>
  BY DEF TripInit
<1>2. IInv /\ KeptInv /\ Stream!Init
  BY <1>1, Start, StartMaps
<1>3. pc = "idle" /\ registered = {}
  BY <1>1 DEF Init
<1>4. ~Waits /\ Told = 0 /\ MsgInv
  BY <1>3 DEF Waits, Told, MsgInv
<1>5. IsSeq(<<>>) /\ <<>> \in Seq(Uint8) /\ Len(<<>>) = 0
  BY TupleSeq
<1>6. CableTypes /\ NoClock(due)
  <2>1. cable \in {"serial", "usb", "host"}
    BY <1>1, CableAssumption
  <2>2. 1 .. 0 = {}
    OBVIOUS
  <2> QED  BY <1>1, <1>5, <2>1, <2>2 DEF CableTypes, NoClock
<1>7. Causes(Listener, underway, Told, due)
  <2>1. Listener.status # SYSEX_BEGIN
    <3>1. Listener.status = StatusInForce
      BY DEF Listener, State
    <3> HIDE DEF Listener
    <3> QED  BY <1>2, <3>1 DEF Stream!Init, Stream!NoStatus, SYSEX_BEGIN
  <2>2. Causes(Listener, <<>>, Len(<<>>), <<>>)
    BY <1>5, <2>1, CausesNone
  <2> QED  BY <1>1, <1>4, <1>5, <2>2
<1> QED  BY <1>1, <1>2, <1>3, <1>4, <1>5, <1>6, <1>7 DEF TripInv, WireInv

LEMMA CableKept == TripNext => cable' = cable
  BY DEF TripNext, Listen, Operate, Arrives, Clock, Called, trip

LEMMA TripStep ==
    ASSUME TripInv, cable \in Cable, Carried, [TripNext]_tripVars
    PROVE  TripInv' /\ cable' \in Cable
<1>1. cable' \in Cable
  BY CableKept DEF tripVars, trip
<1>2. ASSUME NEW o \in Operation[cable], Operate(o) PROVE TripInv'
  BY <1>2, OperateKeeps DEF Carried
<1>3. ASSUME (CallFallthrough \/ CallCatchall \/ Return) /\ UNCHANGED trip PROVE TripInv'
  BY <1>3, OthersKeep
<1>4. ASSUME UNCHANGED tripVars PROVE TripInv'
  BY <1>4, OthersKeep DEF tripVars
<1> QED
  BY <1>1, <1>2, <1>3, <1>4, ListenKeeps, ArrivesKeeps, ClockKeeps, CalledKeeps DEF TripNext

(* A call that is made is the one due, or that of a clock byte.            *)
LEMMA StepHeard ==
    ASSUME TripInv, [TripNext]_tripVars, calls' \notin {calls, <<>>}
    PROVE  LET heard == Meaning(calls'[1][1], calls'[1][2]) IN
           heard = <<"realtime", <<MIDI_CLOCK>>>> \/ (due # <<>> /\ heard = due[1])
<1>1. CASE Called
  <2>1. PICK f, args : calls' = <<<<f, args>>>> /\ (Meaning(f, args) = ClockHeard
                                                     \/ (due # <<>> /\ Meaning(f, args) = due[1]))
    BY <1>1, CalledTells
  <2>2. calls'[1][1] = f /\ calls'[1][2] = args
    BY <2>1
  <2> QED  BY <2>1, <2>2 DEF ClockHeard
<1>2. ASSUME NEW b, ProcessByte(b) PROVE calls' = calls
  BY <1>2 DEF ProcessByte, RealtimeByte, StatusOne, StatusOfMessage, SysexBegin, SysexEnd,
              StatusUndefined, DataIgnored, DataByte, Callbacks, NoCallbacks
<1>3. CASE Listen \/ (\E o \in Operation[cable] : Operate(o)) \/ UNCHANGED tripVars
  BY <1>3 DEF Listen, Operate, vars, tripVars
<1>4. CASE Arrives \/ Clock
  BY <1>2, <1>4 DEF Arrives, Clock
<1>5. CASE CallFallthrough \/ CallCatchall
  BY <1>5, NoneElse
<1>6. CASE Return
  BY <1>6 DEF Return
<1> QED  BY <1>1, <1>3, <1>4, <1>5, <1>6 DEF TripNext

LEMMA TripInvariance ==
    ASSUME Carried
    PROVE  TripSpec => [](TripInv /\ cable \in Cable)
<1>1. TripInit => TripInv /\ cable \in Cable
  BY TripStart DEF TripInit
<1>2. (TripInv /\ cable \in Cable) /\ [TripNext]_tripVars => (TripInv /\ cable \in Cable)'
  BY TripStep
<1> QED  BY <1>1, <1>2, PTL DEF TripSpec

(* Over every cable, whatever operations it carries and however clock      *)
(* bytes come in between, each callback is called as the one that is due,  *)
(* with what its send function was given (midi.c, midi_process_byte,       *)
(* serial_midi_send_usartn, usb_send_func, usb_get_midi).                  *)
THEOREM SentIsHeard ==
    ASSUME Carried
    PROVE  TripSpec => HeardAsSent
<1>1. TripInv /\ [TripNext]_tripVars =>
        [calls' \notin {calls, <<>>} =>
          LET heard == Meaning(calls'[1][1], calls'[1][2]) IN
          heard = <<"realtime", <<MIDI_CLOCK>>>> \/ (due # <<>> /\ heard = due[1])]_tripVars
  BY StepHeard
<1> QED  BY <1>1, TripInvariance, PTL DEF TripSpec, HeardAsSent

LEMMA NoneDue == TripInv => AllCalled
<1> SUFFICES ASSUME TripInv, underway = <<>>, pc = "idle" PROVE due = <<>>
  BY DEF AllCalled
<1>1. Told = 0 /\ Causes(Listener, <<>>, Told, due) /\ IsSeq(due)
  BY WaitsIs DEF TripInv, WireInv
<1>2. PICK run, told : Trace(run, told, <<>>, due) /\ told[0] = 0
  BY <1>1 DEF Causes
<1>3. Len(<<>>) = 0
  OBVIOUS
<1>4. Len(due) = 0
  BY <1>2, <1>3 DEF Trace
<1> QED  BY <1>1, <1>4, SeqIs

(* When all bytes have been processed, every callback that was due has     *)
(* been called: no message is lost on any of the cables.                   *)
THEOREM NothingLost ==
    ASSUME Carried
    PROVE  TripSpec => []AllCalled
  BY TripInvariance, NoneDue, PTL

-----------------------------------------------------------------------------
(* Data sent as system exclusive messages.                                 *)

(* What the theorems ask of the data.                                      *)
AllSendable == \A p \in Payload : Sendable(p)

(* The message under way, and where its first k pieces end.                *)
Message == Framed(sysex_encode(payload))

(* The invariant: the pieces that are not due have been put together.      *)
PutTogether(k) ==
    /\ k \in Nat /\ k + Len(due) = Pieces(Len(Message))
    /\ \A i \in 1 .. Len(due) : due[i] = SysexPieces(Message)[k + i]
    /\ buffer = SubSeq(Message, 1, End(Len(Message), k))

TransferInv ==
    /\ TripInv /\ cable \in Cable
    /\ payload = NoPayload \/ (payload \in Payload /\ \E k : PutTogether(k))

LEMMA FramedIs ==
    ASSUME NEW e \in Seq(0 .. 127), Len(e) + 2 < CountRange
    PROVE  /\ IsSysex(Framed(e)) /\ SubSeq(Framed(e), 2, Len(Framed(e)) - 1) = e
<1> DEFINE b == <<SYSEX_BEGIN>>
           z == <<SYSEX_END>>
           f == Framed(e)
           l == Len(e)
<1>1. e \in Seq(Uint8) /\ b \in Seq(Uint8) /\ z \in Seq(Uint8) /\ Len(b) = 1 /\ Len(z) = 1
      /\ b[1] = SYSEX_BEGIN /\ z[1] = SYSEX_END
  <2>1. SYSEX_BEGIN \in Uint8 /\ SYSEX_END \in Uint8 /\ 0 .. 127 \subseteq Uint8
    BY DEF SYSEX_BEGIN, SYSEX_END, Uint8
  <2>2. l \in Nat /\ e \in [1 .. l -> 0 .. 127]
    BY LenProperties
  <2>3. e \in [1 .. l -> Uint8]
    BY <2>1, <2>2
  <2>4. \A s \in [1 .. l -> Uint8] : s \in Seq(Uint8)
    BY <2>2, SeqDef
  <2>5. e \in Seq(Uint8)
    BY <2>3, <2>4, Zenon
  <2>6. \A x \in Uint8 : <<x>> \in Seq(Uint8) /\ Len(<<x>>) = 1 /\ <<x>>[1] = x
    OBVIOUS
  <2> QED  BY <2>1, <2>5, <2>6, Zenon
<1>2. f = (b \o e) \o z
  BY <1>1 DEF Framed
<1>3. l \in Nat /\ \A i \in 1 .. l : e[i] \in Data7
  BY LenProperties, ElementOfSeq DEF Data7
<1> HIDE DEF b, z, f, l
<1>4. b \o e \in Seq(Uint8) /\ IsSeq(b) /\ IsSeq(e) /\ IsSeq(z) /\ IsSeq(b \o e)
  BY <1>1, ConcatProperties DEF IsSeq
<1>5. /\ Len(b \o e) = l + 1 /\ (b \o e)[1] = SYSEX_BEGIN
      /\ \A i \in 1 .. l : (b \o e)[1 + i] = e[i]
  <2>1. /\ Len(b \o e) = Len(b) + Len(e) /\ \A i \in 1 .. Len(b) : (b \o e)[i] = b[i]
        /\ \A i \in 1 .. Len(e) : (b \o e)[Len(b) + i] = e[i]
    BY <1>4, ConcatIs
  <2>2. 1 \in 1 .. 1
    OBVIOUS
  <2> QED  BY <1>1, <1>3, <2>1, <2>2 DEF l
<1>6. /\ f \in Seq(Uint8) /\ Len(f) = l + 2
      /\ \A i \in 1 .. l + 1 : f[i] = (b \o e)[i]
      /\ f[l + 2] = SYSEX_END
  <2>1. /\ Len(f) = Len(b \o e) + Len(z) /\ \A i \in 1 .. Len(b \o e) : f[i] = (b \o e)[i]
        /\ \A i \in 1 .. Len(z) : f[Len(b \o e) + i] = z[i]
    BY <1>2, <1>4, ConcatIs
  <2>2. f \in Seq(Uint8)
    BY <1>1, <1>2, <1>4, ConcatProperties
  <2>3. 1 \in 1 .. 1 /\ (l + 1) + 1 = l + 2
    BY <1>3
  <2> QED  BY <1>1, <1>3, <1>5, <2>1, <2>2, <2>3
<1>7. f[1] = SYSEX_BEGIN /\ \A i \in 1 .. l : f[1 + i] = e[i]
  <2>1. 1 \in 1 .. l + 1 /\ \A i \in 1 .. l : 1 + i \in 1 .. l + 1
    BY <1>3
  <2> QED  BY <1>5, <1>6, <2>1
<1>8. \A k \in 2 .. Len(f) - 1 : f[k] \in Data7
  <2> TAKE k \in 2 .. Len(f) - 1
  <2>1. k - 1 \in 1 .. l /\ 1 + (k - 1) = k
    BY <1>3, <1>6
  <2>2. f[k] = e[k - 1]
    BY <1>7, <2>1
  <2> QED  BY <1>3, <2>1, <2>2
<1>9. IsSysex(f)
  <2>1. Len(f) \in 2 .. CountRange - 1
    <3>1. l + 2 < CountRange
      BY DEF l
    <3> QED  BY <1>3, <1>6, <3>1, CountRangeAssumption
  <2> QED  BY <1>6, <1>7, <1>8, <2>1 DEF IsSysex
<1>10. SubSeq(f, 2, l + 1) = e
  <2>1. IsSeq(f) /\ 2 \in 1 .. Len(f) + 1 /\ l + 1 \in 0 .. Len(f) /\ 2 <= (l + 1) + 1 /\ (l + 1) - 2 + 1 = l
    BY <1>3, <1>6 DEF IsSeq
  <2>2. /\ IsSeq(SubSeq(f, 2, l + 1)) /\ Len(SubSeq(f, 2, l + 1)) = l
        /\ \A i \in 1 .. l : SubSeq(f, 2, l + 1)[i] = f[2 + i - 1]
    BY <2>1, PartIs
  <2>3. \A i \in 1 .. l : SubSeq(f, 2, l + 1)[i] = e[i]
    <3> TAKE i \in 1 .. l
    <3>1. 2 + i - 1 = 1 + i
      BY <1>3
    <3> QED  BY <1>7, <2>2, <3>1
  <2> QED  BY <1>4, <2>2, <2>3, SameSeq DEF l
<1>11. Len(f) - 1 = l + 1
  BY <1>3, <1>6
<1> QED  BY <1>9, <1>10, <1>11 DEF f

(* The message of a payload, and what it is decoded to.                    *)
LEMMA MessageIs ==
    ASSUME AllSendable, NEW p \in Payload
    PROVE  LET a == Framed(sysex_encode(p)) IN
           /\ IsSysex(a) /\ Carries(cable, <<"array", a>>)
           /\ sysex_decode(SubSeq(a, 2, Len(a) - 1)) = p
<1> DEFINE e == sysex_encode(p)
           a == Framed(e)
           o == <<"array", a>>
<1>1. e \in Seq(0 .. 127) /\ sysex_decode(e) = p /\ Len(e) + 2 < CountRange
  BY EncodedIsData, DecodeEncoded DEF AllSendable, Sendable, Byte, Uint8
<1> HIDE DEF e
<1>2. IsSysex(a) /\ SubSeq(a, 2, Len(a) - 1) = e
  BY <1>1, FramedIs
<1> HIDE DEF a
<1>3. o[2] = a /\ o = <<"array", a>>
  OBVIOUS
<1>4. Carries(cable, o)
  <2> HIDE DEF o
  <2> QED  BY <1>2, <1>3 DEF Carries
<1> QED  BY <1>1, <1>2, <1>4 DEF e, a, o

(* The pieces of a message.                                                *)
LEMMA PiecesOf ==
    ASSUME NEW a, IsSysex(a)
    PROVE  /\ IsSeq(a) /\ Len(a) \in Nat \ {0}
           /\ IsSeq(SysexPieces(a)) /\ Len(SysexPieces(a)) = Pieces(Len(a)) /\ Pieces(Len(a)) \in Nat
           /\ \A k \in Nat : k < Pieces(Len(a)) =>
                  SysexPieces(a)[k + 1] =
                      <<"sysex", <<3 * k, SubSeq(a, 3 * k + 1, End(Len(a), k + 1))>>>>
<1> DEFINE n == Pieces(Len(a))
           d == SysexPieces(a)
<1>1. IsSeq(a) /\ Len(a) \in Nat \ {0}
  BY SysexBytes
<1>2. n \in Nat
  BY <1>1, PiecesAre
<1>3. d = [k \in 1 .. n |-> <<"sysex", <<3 * (k - 1), SubSeq(a, 3 * k - 2, End(Len(a), k))>>>>]
  BY DEF SysexPieces, Pieces, End
<1> HIDE DEF d, n
<1>4. d = [k \in 1 .. n |-> d[k]]
  BY <1>3
<1>5. IsSeq(d) /\ Len(d) = n
  BY <1>2, <1>4, FunctionSeq
<1>6. ASSUME NEW k \in Nat, k < n
      PROVE  d[k + 1] = <<"sysex", <<3 * k, SubSeq(a, 3 * k + 1, End(Len(a), k + 1))>>>>
  <2>1. k + 1 \in 1 .. n /\ 3 * ((k + 1) - 1) = 3 * k /\ 3 * (k + 1) - 2 = 3 * k + 1
    BY <1>2, <1>6
  <2>2. d[k + 1] = <<"sysex", <<3 * ((k + 1) - 1), SubSeq(a, 3 * (k + 1) - 2, End(Len(a), k + 1))>>>>
    BY <1>3, <2>1
  <2> QED  BY <2>1, <2>2
<1> QED  BY <1>1, <1>2, <1>5, <1>6 DEF d, n

(* The call for a piece hands over its place and its bytes.                *)
LEMMA PieceMeans ==
    ASSUME NEW f, NEW args, NEW x, Meaning(f, args) = <<"sysex", x>>
    PROVE  f = "sysex" /\ args = x
<1>1. CASE f \in {"pitchbend", "songposition", "songselect", "tc_quarterframe"}
  <2>1. Meaning(f, args)[1] = f
    BY <1>1 DEF Meaning
  <2>2. Meaning(f, args)[1] = "sysex"
    OBVIOUS
  <2> QED  BY <1>1, <2>1, <2>2
<1>2. CASE f \notin {"pitchbend", "songposition", "songselect", "tc_quarterframe"}
  <2>1. Meaning(f, args) = <<f, args>>
    BY <1>2 DEF Meaning
  <2> QED  BY <2>1
<1> QED  BY <1>1, <1>2

LEMMA ClockMeans ==
    ASSUME NEW f, NEW args, Meaning(f, args) = ClockHeard
    PROVE  f # "sysex"
<1> SUFFICES ASSUME f = "sysex" PROVE FALSE
  OBVIOUS
<1>1. Meaning(f, args) = <<f, args>>
  BY DEF Meaning
<1>2. f = "realtime"
  BY <1>1 DEF ClockHeard
<1> QED  BY <1>2

LEMMA OneLess ==
    ASSUME NEW k \in Nat, NEW m \in Nat, m # 0
    PROVE  k < k + m /\ 1 \in 1 .. m /\ (k + 1) + (m - 1) = k + m /\ k + 1 \in Nat
  OBVIOUS

LEMMA PartWhole ==
    ASSUME NEW s, IsSeq(s)
    PROVE  SubSeq(s, 1, Len(s)) = s
<1>1. Len(s) \in Nat
  BY SeqIs
<1>2. 1 \in 1 .. Len(s) + 1 /\ Len(s) \in 0 .. Len(s) /\ 1 <= Len(s) + 1 /\ Len(s) - 1 + 1 = Len(s)
      /\ \A i \in 1 .. Len(s) : 1 + i - 1 = i
  BY <1>1
<1>3. /\ IsSeq(SubSeq(s, 1, Len(s))) /\ Len(SubSeq(s, 1, Len(s))) = Len(s)
      /\ \A i \in 1 .. Len(s) : SubSeq(s, 1, Len(s))[i] = s[1 + i - 1]
  BY <1>2, PartIs
<1>4. \A i \in 1 .. Len(s) : SubSeq(s, 1, Len(s))[i] = s[i]
  BY <1>2, <1>3
<1> QED  BY <1>3, <1>4, SameSeq

LEMMA EmptyJoin ==
    ASSUME NEW s, IsSeq(s)
    PROVE  <<>> \o s = s
  BY ConcatEmptySeq DEF IsSeq

(* Steps of the listener that leave what is due alone.                     *)
LEMMA SameTransfer ==
    ASSUME TransferInv, TripInv', cable' = cable, due' = due, UNCHANGED <<payload, buffer>>
    PROVE  TransferInv'
<1>1. Message' = Message
  BY DEF Message
<1>2. ASSUME NEW k, PutTogether(k) PROVE PutTogether(k)'
  BY <1>1, <1>2 DEF PutTogether
<1> QED  BY <1>2 DEF TransferInv

(* The next piece is stored behind the pieces before it.                   *)
LEMMA PieceStored ==
    ASSUME NEW a, IsSysex(a), NEW k \in Nat, k < Pieces(Len(a)),
           buffer = SubSeq(a, 1, End(Len(a), k))
    PROVE  Stored(3 * k, SubSeq(a, 3 * k + 1, End(Len(a), k + 1))) =
               SubSeq(a, 1, End(Len(a), k + 1))
<1> DEFINE L == Len(a)
           n == End(L, k + 1)
<1>1. IsSeq(a) /\ L \in Nat \ {0} /\ Pieces(L) \in Nat
  BY PiecesOf
<1>2. 3 * k + 1 <= L /\ n \in 3 * k + 1 .. L
  <2>1. k + 1 \in 1 .. Pieces(L) /\ 3 * (k + 1) - 2 = 3 * k + 1
    BY <1>1
  <2> HIDE DEF L
  <2>2. 3 * (k + 1) - 2 <= L /\ End(L, k + 1) \in 3 * (k + 1) - 2 .. L
    BY <1>1, <2>1, PiecesAre
  <2> QED  BY <2>1, <2>2
<1>3. End(L, k) = 3 * k
  <2>1. ~(L < 3 * k)
    BY <1>1, <1>2
  <2> QED  BY <2>1 DEF End
<1> HIDE DEF n, L
<1>4. buffer = SubSeq(a, 1, 3 * k)
  BY <1>3 DEF L
<1>5. 3 * k \in 0 .. L /\ n \in 3 * k .. L
  BY <1>1, <1>2
<1>6. Len(buffer) = 3 * k
  <2>1. 1 \in 1 .. L + 1 /\ 1 <= 3 * k + 1 /\ 3 * k - 1 + 1 = 3 * k
    BY <1>1
  <2>2. Len(SubSeq(a, 1, 3 * k)) = 3 * k - 1 + 1
    BY <1>1, <1>5, <2>1, PartIs DEF L
  <2> QED  BY <1>4, <2>1, <2>2
<1>7. SubSeq(buffer, 1, 3 * k) = buffer
  <2>1. IsSeq(buffer)
    <3>1. 1 \in 1 .. L + 1 /\ 1 <= 3 * k + 1
      BY <1>1
    <3> QED  BY <1>1, <1>4, <1>5, <3>1, PartIs DEF L
  <2> QED  BY <1>6, <2>1, PartWhole
<1>8. Stored(3 * k, SubSeq(a, 3 * k + 1, n)) = SubSeq(a, 1, 3 * k) \o SubSeq(a, 3 * k + 1, n)
  <2>1. (IF 3 * k < Len(buffer) THEN 3 * k ELSE Len(buffer)) = 3 * k
    BY <1>6
  <2> QED  BY <1>4, <1>7, <2>1 DEF Stored
<1>9. SubSeq(a, 1, 3 * k) \o SubSeq(a, 3 * k + 1, n) = SubSeq(a, 1, n)
  BY <1>1, <1>5, PartsJoin DEF L
<1> QED  BY <1>8, <1>9 DEF n, L

(* Nothing has been heard of a message that has just been sent.            *)
LEMMA SendStarts ==
    ASSUME TransferInv, AllSendable, NEW p \in Payload, SendPayload(p)
    PROVE  TransferInv'
<1> DEFINE a == Framed(sysex_encode(p))
           o == <<"array", a>>
<1>1. Operate(o) /\ due = <<>> /\ payload' = p /\ buffer' = <<>>
  BY DEF SendPayload
<1>2. IsSysex(a) /\ Carries(cable, o)
  BY MessageIs
<1>3. TripInv' /\ cable' \in Cable
  BY <1>1, <1>2, OperateKeeps DEF TransferInv, Operate
<1>4. Message' = a
  BY <1>1 DEF Message
<1>5. Promised(o) = SysexPieces(a)
  BY DEF Promised
<1> HIDE DEF a
<1>6. due' = <<>> \o SysexPieces(a)
  BY <1>1, <1>5 DEF Operate
<1>7. /\ IsSeq(a) /\ Len(a) \in Nat \ {0} /\ IsSeq(SysexPieces(a))
      /\ Len(SysexPieces(a)) = Pieces(Len(a)) /\ Pieces(Len(a)) \in Nat
  BY <1>2, PiecesOf
<1>8. due' = SysexPieces(a)
  BY <1>6, <1>7, EmptyJoin
<1>9. buffer' = SubSeq(a, 1, End(Len(a), 0))
  <2>1. End(Len(a), 0) = 0
    BY <1>7 DEF End
  <2>2. 1 \in 1 .. Len(a) + 1 /\ 0 \in 0 .. Len(a) /\ 1 <= 0 + 1 /\ 0 - 1 + 1 = 0
    BY <1>7
  <2>3. IsSeq(SubSeq(a, 1, 0)) /\ Len(SubSeq(a, 1, 0)) = 0
    BY <1>7, <2>2, PartIs
  <2>4. SubSeq(a, 1, 0) = <<>>
    BY <2>3, SeqIs
  <2> QED  BY <1>1, <2>1, <2>4
<1>10. PutTogether(0)'
  <2>1. 0 + Len(due') = Pieces(Len(a)) /\ \A i \in 1 .. Len(due') : 0 + i = i
    BY <1>7, <1>8
  <2> QED  BY <1>4, <1>8, <1>9, <2>1 DEF PutTogether
<1> QED  BY <1>1, <1>3, <1>10 DEF TransferInv

LEMMA ReceivesKeeps ==
    ASSUME TransferInv, AllSendable, Receives
    PROVE  TransferInv'
<1>1. /\ Called /\ payload' = payload
      /\ buffer' = IF payload # NoPayload /\ calls' # <<>> /\ calls'[1][1] = "sysex"
                   THEN Stored(calls'[1][2][1], calls'[1][2][2]) ELSE buffer
  BY DEF Receives
<1>2. TripInv /\ TripInv' /\ cable' \in Cable
  BY <1>1, CalledKeeps DEF TransferInv, Called
<1>3. CASE payload = NoPayload
  BY <1>1, <1>2, <1>3 DEF TransferInv
<1>4. CASE payload # NoPayload
  <2> DEFINE a == Message
  <2>1. payload \in Payload
    BY <1>4 DEF TransferInv
  <2>2. PICK k : PutTogether(k)
    BY <1>4 DEF TransferInv
  <2>3. Message' = a /\ IsSysex(a)
    BY <1>1, <2>1, MessageIs DEF Message
  <2>4. /\ k \in Nat /\ k + Len(due) = Pieces(Len(a))
        /\ \A i \in 1 .. Len(due) : due[i] = SysexPieces(a)[k + i]
        /\ buffer = SubSeq(a, 1, End(Len(a), k))
    BY <2>2 DEF PutTogether
  <2> HIDE DEF a
  <2>5. IsSeq(due)
    BY <1>2 DEF TripInv, WireInv
  <2>6. CASE ~Waits
    <3>1. due' = due /\ (calls' = <<>> \/ \E f, args : calls' = <<<<f, args>>>> /\ Meaning(f, args) = ClockHeard)
      BY <1>1, <1>2, <2>6, CalledTells
    <3>2. buffer' = buffer
      <4>1. CASE calls' = <<>>
        BY <1>1, <4>1
      <4>2. CASE calls' # <<>>
        <5>1. PICK f, args : calls' = <<<<f, args>>>> /\ Meaning(f, args) = ClockHeard
          BY <3>1, <4>2
        <5>2. calls'[1][1] = f
          BY <5>1
        <5>3. f # "sysex"
          BY <5>1, ClockMeans
        <5> QED  BY <1>1, <5>2, <5>3
      <4> QED  BY <4>1, <4>2
    <3>3. PutTogether(k)'
      BY <2>3, <2>4, <3>1, <3>2 DEF PutTogether
    <3> QED  BY <1>1, <1>2, <2>1, <3>3 DEF TransferInv
  <2>7. CASE Waits
    <3>1. due # <<>> /\ due' = Tail(due) /\ \E f, args : calls' = <<<<f, args>>>> /\ Meaning(f, args) = due[1]
      BY <1>1, <1>2, <2>7, CalledTells
    <3>2. /\ Len(due) \in Nat /\ Len(due) # 0 /\ Len(Tail(due)) = Len(due) - 1
          /\ \A i \in 1 .. Len(Tail(due)) : Tail(due)[i] = due[i + 1]
      BY <2>5, <3>1, SeqIs
    <3>3. k < Pieces(Len(a)) /\ 1 \in 1 .. Len(due)
      <4>1. k < k + Len(due) /\ 1 \in 1 .. Len(due)
        BY <2>4, <3>2, OneLess
      <4> QED  BY <2>4, <4>1, Zenon
    <3> DEFINE x == <<3 * k, SubSeq(a, 3 * k + 1, End(Len(a), k + 1))>>
    <3>4. due[1] = <<"sysex", x>>
      BY <2>3, <2>4, <3>3, PiecesOf
    <3> HIDE DEF x
    <3>5. PICK f, args : calls' = <<<<f, args>>>> /\ Meaning(f, args) = <<"sysex", x>>
      BY <3>1, <3>4
    <3>6. f = "sysex" /\ args = x
      BY <3>5, PieceMeans
    <3>7. calls' # <<>> /\ calls'[1][1] = "sysex" /\ calls'[1][2] = x
      BY <3>5, <3>6
    <3>8. buffer' = Stored(x[1], x[2])
      BY <1>1, <1>4, <3>7
    <3>9. buffer' = SubSeq(a, 1, End(Len(a), k + 1))
      <4>1. x[1] = 3 * k /\ x[2] = SubSeq(a, 3 * k + 1, End(Len(a), k + 1))
        BY DEF x
      <4> QED  BY <2>3, <2>4, <3>3, <3>8, <4>1, PieceStored
    <3>10. k + 1 \in Nat /\ (k + 1) + Len(due') = Pieces(Len(a))
      <4>1. (k + 1) + (Len(due) - 1) = k + Len(due) /\ k + 1 \in Nat
        BY <2>4, <3>2, OneLess
      <4>2. Len(due') = Len(due) - 1
        BY <3>1, <3>2, Zenon
      <4> QED  BY <2>4, <4>1, <4>2, Zenon
    <3>11. \A i \in 1 .. Len(due') : due'[i] = SysexPieces(a)[(k + 1) + i]
      <4> TAKE i \in 1 .. Len(due')
      <4>1. PICK m \in Nat : m = Len(due) /\ Len(due') = m - 1
        BY <3>1, <3>2
      <4>2. i + 1 \in 1 .. m /\ k + (i + 1) = (k + 1) + i
        <5>1. i \in 1 .. m - 1 /\ k \in Nat
          BY <2>4, <4>1
        <5> QED  BY <5>1
      <4>3. due'[i] = due[i + 1]
        BY <3>1, <3>2
      <4> QED  BY <2>4, <4>1, <4>2, <4>3
    <3>12. PutTogether(k + 1)'
      BY <2>3, <3>9, <3>10, <3>11 DEF PutTogether
    <3> QED  BY <1>1, <1>2, <2>1, <3>12 DEF TransferInv
  <2> QED  BY <2>6, <2>7
<1> QED  BY <1>3, <1>4

LEMMA TransferStep ==
    ASSUME TransferInv, Carried, AllSendable, [TransferNext]_transferVars
    PROVE  TransferInv'
<1>1. ASSUME NEW o \in Operation[cable], payload = NoPayload, Operate(o), UNCHANGED <<payload, buffer>>
      PROVE  TransferInv'
  BY <1>1, OperateKeeps DEF Carried, TransferInv, Operate
<1>2. ASSUME Listen \/ Arrives \/ Clock, UNCHANGED <<payload, buffer>> PROVE TransferInv'
  <2>1. TripInv' /\ cable' = cable /\ due' = due
    BY <1>2, ListenKeeps, ArrivesKeeps, ClockKeeps DEF TransferInv, Listen, Arrives, Clock, trip
  <2> QED  BY <1>2, <2>1, SameTransfer DEF TransferInv
<1>3. ASSUME CallFallthrough \/ CallCatchall \/ Return \/ UNCHANGED vars, UNCHANGED <<trip, payload, buffer>>
      PROVE  TransferInv'
  <2>1. TripInv' /\ cable' = cable /\ due' = due
    BY <1>3, OthersKeep DEF TransferInv, trip
  <2> QED  BY <1>3, <2>1, SameTransfer DEF TransferInv
<1>4. ASSUME Done PROVE TransferInv'
  <2>1. UNCHANGED vars /\ UNCHANGED trip /\ payload' = NoPayload
    BY <1>4 DEF Done, tripVars
  <2>2. TripInv' /\ cable' = cable
    BY <2>1, OthersKeep DEF TransferInv, trip
  <2> QED  BY <2>1, <2>2 DEF TransferInv
<1>5. ASSUME UNCHANGED transferVars PROVE TransferInv'
  BY <1>3, <1>5 DEF transferVars, tripVars
<1> QED  BY <1>1, <1>2, <1>3, <1>4, <1>5, SendStarts, ReceivesKeeps DEF TransferNext

LEMMA TransferEnds == ASSUME TransferInv, AllSendable PROVE PayloadIntact
<1> SUFFICES ASSUME Arrived PROVE sysex_decode(SubSeq(buffer, 2, Len(buffer) - 1)) = payload
  BY DEF PayloadIntact
<1> DEFINE a == Message
<1>1. payload \in Payload
  BY DEF TransferInv, Arrived
<1>2. PICK k : PutTogether(k)
  BY DEF TransferInv, Arrived
<1>3. IsSysex(a) /\ sysex_decode(SubSeq(a, 2, Len(a) - 1)) = payload
  BY <1>1, MessageIs DEF Message
<1>4. due = <<>>
  BY NoneDue DEF TransferInv, Arrived, AllCalled
<1>5. k \in Nat /\ k + Len(due) = Pieces(Len(a)) /\ buffer = SubSeq(a, 1, End(Len(a), k))
  BY <1>2 DEF PutTogether
<1> HIDE DEF a
<1>6. k = Pieces(Len(a))
  <2>1. Len(due) = 0
    BY <1>4
  <2> QED  BY <1>5, <2>1
<1>7. IsSeq(a) /\ Len(a) \in Nat \ {0}
  BY <1>3, PiecesOf
<1>8. End(Len(a), k) = Len(a)
  BY <1>6, <1>7, PiecesAre
<1>9. buffer = a
  BY <1>5, <1>7, <1>8, PartWhole
<1> QED  BY <1>3, <1>9

(* What is heard is what is due, whoever sends it.                         *)
DueHeard ==
    calls' \notin {calls, <<>>} =>
        LET heard == Meaning(calls'[1][1], calls'[1][2]) IN
        heard = <<"realtime", <<MIDI_CLOCK>>>> \/ (due # <<>> /\ heard = due[1])

LEMMA TransferHeard ==
    ASSUME TransferInv, [TransferNext]_transferVars
    PROVE  [DueHeard]_tripVars
<1> SUFFICES ASSUME calls' \notin {calls, <<>>}
             PROVE  LET heard == Meaning(calls'[1][1], calls'[1][2]) IN
                    heard = <<"realtime", <<MIDI_CLOCK>>>> \/ (due # <<>> /\ heard = due[1])
  BY DEF DueHeard
<1>1. CASE \E p \in Payload : SendPayload(p)
  <2>1. calls' = calls
    BY <1>1 DEF SendPayload, Operate, vars
  <2> QED  BY <2>1
<1>2. CASE ~\E p \in Payload : SendPayload(p)
  <2>1. [TripNext]_tripVars
    BY <1>2 DEF TransferNext, TripNext, Receives, Done, transferVars
  <2> QED  BY <2>1, StepHeard DEF TransferInv
<1> QED  BY <1>1, <1>2

LEMMA TransferInvariance ==
    ASSUME Carried, AllSendable
    PROVE  TransferSpec => []TransferInv
<1>1. TransferInit => TransferInv
  BY TripStart DEF TransferInit, TripInit, TransferInv
<1>2. TransferInv /\ [TransferNext]_transferVars => TransferInv'
  BY TransferStep
<1> QED  BY <1>1, <1>2, PTL DEF TransferSpec

(* Between the operations, data are sent in their messages: still each     *)
(* callback is called as it is due (midi_send_array, midi_process_byte).   *)
THEOREM StillHeard ==
    ASSUME Carried, AllSendable
    PROVE  TransferSpec => HeardAsSent
<1>1. TransferInv /\ [TransferNext]_transferVars => [DueHeard]_tripVars
  BY TransferHeard
<1>2. TransferSpec => [][DueHeard]_tripVars
  BY <1>1, TransferInvariance, PTL DEF TransferSpec
<1> QED  BY <1>2 DEF HeardAsSent, DueHeard

(* And none of the calls due for data or operations is lost.               *)
THEOREM StillNothingLost ==
    ASSUME Carried, AllSendable
    PROVE  TransferSpec => []AllCalled
<1>1. TransferInv => AllCalled
  BY NoneDue DEF TransferInv
<1> QED  BY <1>1, TransferInvariance, PTL

(* Whatever bytes are sent, on every cable and with clock bytes in between *)
(* on a serial one: what was encoded, framed, cut into calls of send_func  *)
(* and received piece by piece is decoded to what it was (sysex_encode,    *)
(* midi_send_array, midi_process_byte, sysex_decode).                      *)
THEOREM DataArrive ==
    ASSUME Carried, AllSendable
    PROVE  TransferSpec => []PayloadIntact
<1>1. TransferInv => PayloadIntact
  BY TransferEnds
<1> QED  BY <1>1, TransferInvariance, PTL

=============================================================================
