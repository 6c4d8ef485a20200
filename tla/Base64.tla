------------------------------- MODULE Base64 -------------------------------
(***************************************************************************)
(* base64_encode (crypt/base64_encoder.c), with which the handshake answers *)
(* the client's key.  A character is its index in the alphabet, 0 to 63, or *)
(* Pad, the equal sign.                                                     *)
(***************************************************************************)
EXTENDS Integers, Sequences

Pad == 64

\* One turn of the loop: 24 bits as four times 6.
Group(a, b, c) ==
    LET v == a * 65536 + b * 256 + c
    IN  <<v \div 262144, (v \div 4096) % 64, (v \div 64) % 64, v % 64>>

\* Deliberately wrong: the low bits of two bytes are not shifted up.
Tail2_Unshifted(a, b) ==
    LET v == a * 256 + b IN <<v \div 1024, (v \div 16) % 64, v % 16, Pad>>

\* What is left behind the last whole group: one byte or two.
Tail1(a) == <<a \div 4, (a % 4) * 16, Pad, Pad>>
Tail2(a, b) == LET v == a * 256 + b IN <<v \div 1024, (v \div 16) % 64, (v % 16) * 4, Pad>>

\* The loop fills four characters from three bytes, and the switch behind it the
\* last four from what is left.
base64_encode(text) ==
    LET sz == Len(text)
        encode_sz == 4 * ((sz + 2) \div 3)
        Chars(i) == IF sz - i = 1 THEN Tail1(text[i + 1])
                    ELSE IF sz - i = 2 THEN Tail2(text[i + 1], text[i + 2])
                    ELSE Group(text[i + 1], text[i + 2], text[i + 3])
    IN  [j \in 1 .. encode_sz |-> Chars(3 * ((j - 1) \div 4))[((j - 1) % 4) + 1]]

-----------------------------------------------------------------------------
\* Bit n of a word, and the bits of words of the given width, most significant
\* first.
Weight == <<1, 2, 4, 8, 16, 32, 64, 128>>
Bit(word, n) == (word \div Weight[n + 1]) % 2
Bits(words, width) ==
    [k \in 1 .. (width * Len(words)) |->
        Bit(words[((k - 1) \div width) + 1], (width - 1) - ((k - 1) % width))]

(***************************************************************************)
(* The encoding is that of RFC 4648: the bits of the characters before the  *)
(* padding are the bits of the text followed by zeros, fewer than six of    *)
(* them, and characters and padding fill groups of four.                    *)
(***************************************************************************)
EncodesBits(text) ==
    LET code == base64_encode(text) IN
    /\ Len(code) = 4 * ((Len(text) + 2) \div 3)
    /\ \E pad \in 0 .. 2 :
         LET chars == SubSeq(code, 1, Len(code) - pad)
             bits == Bits(chars, 6) IN
         /\ \A j \in DOMAIN chars : code[j] \in 0 .. 63
         /\ \A j \in DOMAIN code \ DOMAIN chars : code[j] = Pad
         /\ SubSeq(bits, 1, 8 * Len(text)) = Bits(text, 8)
         /\ Len(bits) - 8 * Len(text) \in 0 .. 5
         /\ \A k \in (8 * Len(text) + 1) .. Len(bits) : bits[k] = 0
=============================================================================
