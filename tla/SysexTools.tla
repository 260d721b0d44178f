----------------------------- MODULE SysexTools -----------------------------
(***************************************************************************)
(* sysex_tools.c: seven bytes are sent as eight without their top bits,    *)
(* the first of the eight holding those.  The buffers are sequences; the   *)
(* index arithmetic of the code counts from 0.                             *)
(***************************************************************************)
EXTENDS Integers, Sequences

(* Lengths are uint16_t. *)
LengthRange == 65536

(* The longest data whose encoded length they hold. *)
MaxDecoded == 57343

(* A fault the transfer must notice: a last group decoded one byte short. *)
sysex_decoded_length_short(encoded_length) ==
    IF encoded_length % 8 > 1 THEN (encoded_length \div 8) * 7 + (encoded_length % 8) - 2
    ELSE (encoded_length \div 8) * 7

-----------------------------------------------------------------------------
sysex_encoded_length(decoded_length) ==
    LET remainder == decoded_length % 7 IN
    ((decoded_length \div 7) * 8 + (IF remainder # 0 THEN remainder + 1 ELSE 0)) % LengthRange

sysex_decoded_length(encoded_length) ==
    LET remainder == encoded_length % 8 IN
    (encoded_length \div 8) * 7 + (IF remainder # 0 THEN remainder - 1 ELSE 0)

(* The top bit of byte j of group i: (0x80 & current) >> (1 + j), and all  *)
(* of the group's, in the byte before it.                                  *)
TopBit(source, i, j) ==
    IF i * 7 + j < Len(source) THEN (source[i * 7 + j + 1] \div 128) * 2 ^ (6 - j) ELSE 0

TopBits(source, i) ==
    TopBit(source, i, 0) + TopBit(source, i, 1) + TopBit(source, i, 2) + TopBit(source, i, 3)
        + TopBit(source, i, 4) + TopBit(source, i, 5) + TopBit(source, i, 6)

sysex_encode(source) ==
    [n \in 1 .. sysex_encoded_length(Len(source)) |->
        LET i == (n - 1) \div 8
            j == (n - 1) % 8 IN
        IF j = 0 THEN TopBits(source, i) ELSE source[i * 7 + j] % 128]

(* 0x80 & (byte << (1 + j)) *)
BitOf(byte, j) == 128 * ((byte \div 2 ^ (6 - j)) % 2)

sysex_decode(source) ==
    IF Len(source) < 2 THEN <<>>
    ELSE [n \in 1 .. sysex_decoded_length(Len(source)) |->
             LET i == (n - 1) \div 7
                 j == (n - 1) % 7 IN
             (source[i * 8 + j + 2] % 128) + BitOf(source[i * 8 + 1], j)]
=============================================================================
