--------------------------- MODULE FunctionProofs ---------------------------
(***************************************************************************)
(* Proofs about the functions: the size classes, base64_encode and          *)
(* SpliteString on arguments of any size, and CheckHeader with any number   *)
(* of clients, for any size of the counter, any limits and any way to hide  *)
(* the number in the header.                                                *)
(***************************************************************************)
EXTENDS PacketCheck, Arguments, FiniteSetTheorems, SequenceTheorems, WellFoundedInduction, TLAPS

-----------------------------------------------------------------------------
(* The functions' arguments.                                                *)

Character == {"a", "b", "&", "="}

Argument == nSize \in Nat /\ strParam \in Seq(Character) /\ text \in Seq(0 .. 255)

LEMMA ArgumentsInv == ArgumentSpec => []Argument
  <1>1. ArgumentInit => Argument
    <2> SUFFICES ASSUME ArgumentInit PROVE Argument
      OBVIOUS
    <2>1. nSize \in 0 .. BeyondPools \/ nSize \in Around(AnySize) \/ nSize \in Around(TenMegabytes)
      BY DEF ArgumentInit
    <2>2. strParam = <<>> /\ text = <<>>
      BY DEF ArgumentInit
    <2>3. AnySize \in Nat /\ AnySize >= 2 /\ TenMegabytes \in Nat /\ TenMegabytes >= 2
      BY DEF AnySize, TenMegabytes
    <2>4. \A n \in Nat : n >= 2 => Around(n) \subseteq Nat
      BY DEF Around
    <2>5. nSize \in Nat
      BY <2>1, <2>3, <2>4
    <2>6. \A S : <<>> \in Seq(S)
      OBVIOUS
    <2> QED BY <2>2, <2>5, <2>6, Zenon DEF Argument
  <1>2. Argument /\ [NextArgument]_arguments => Argument'
    <2> SUFFICES ASSUME Argument, [NextArgument]_arguments PROVE Argument'
      OBVIOUS
    <2>1. CASE NextString
      <3>1. PICK c \in Character : strParam' = Append(strParam, c) /\ nSize' = nSize /\ text' = text
        BY <2>1 DEF NextString, Character
      <3> QED BY <3>1 DEF Argument
    <2>2. CASE NextText
      <3>1. PICK b \in Sample : text' = Append(text, b) /\ nSize' = nSize /\ strParam' = strParam
        BY <2>2 DEF NextText
      <3>2. b \in 0 .. 255
        BY ArgumentAssumption
      <3> QED BY <3>1, <3>2 DEF Argument
    <2>3. CASE UNCHANGED arguments
      BY <2>3 DEF Argument, arguments
    <2> QED BY <2>1, <2>2, <2>3 DEF NextArgument
  <1> QED BY <1>1, <1>2, PTL DEF ArgumentSpec

-----------------------------------------------------------------------------
(* Size classes.                                                            *)

\* A set of natural numbers has a smallest one.
LEMMA Least ==
    ASSUME NEW S \in SUBSET Nat, S # {}
    PROVE  \E x \in S : \A y \in S : x <= y
  <1>1. OpToRel(<, Nat) = {p \in Nat \X Nat : p[1] < p[2]}
    BY DEF OpToRel
  <1>2. PICK R : R = {p \in Nat \X Nat : p[1] < p[2]}
    OBVIOUS
  <1>3. IsWellFoundedOn(R, Nat)
    BY <1>1, <1>2, NatLessThanWellFounded, Zenon
  <1>4. PICK x \in S : \A y \in S : ~(<<y, x>> \in R)
    BY <1>3, WFMin
  <1>5. \A y \in Nat : ~(<<y, x>> \in R) => x <= y
    BY <1>2
  <1> QED BY <1>4, <1>5

\* A request below 64K gets the smallest of the larger classes.
LEMMA SmallestLarger ==
    ASSUME NEW n \in Nat, Larger(n) # {}
    PROVE  AllocDataBuff(n) \in Larger(n) /\ \A d \in Larger(n) : AllocDataBuff(n) <= d
  <1>1. Larger(n) \in SUBSET Nat
    BY DEF Larger, Pooled
  <1>2. \E c \in Larger(n) : \A d \in Larger(n) : c <= d
    BY <1>1, Least
  <1> QED BY <1>2 DEF AllocDataBuff

(***************************************************************************)
(* A request of any size gets a buffer that holds it exactly when it is not *)
(* larger than the buffers of the largest manager: the strict comparisons   *)
(* of CBufferAllocator::AllocDataBuff lose no size, and nothing is refused. *)
(***************************************************************************)
THEOREM SizesFit ==
    /\ \A n \in Nat : Fits(n) <=> n <= AnySize
    /\ ArgumentSpec => []SizesThatFit
  <1>1. AnySize \in Nat /\ \A c \in Pooled : c \in Nat /\ c <= AnySize
    BY DEF AnySize, Pooled
  <1>2. ASSUME NEW n \in Nat
        PROVE  n <= AllocDataBuff(n) <=> n <= AnySize
    <2>1. CASE Larger(n) = {}
      BY <2>1 DEF AllocDataBuff
    <2>2. CASE Larger(n) # {}
      <3>1. PICK c : c = AllocDataBuff(n) /\ c \in Larger(n)
        BY <2>2, SmallestLarger
      <3>2. c \in Pooled /\ n < c
        BY <3>1 DEF Larger
      <3>3. c \in Nat /\ c <= AnySize
        BY <1>1, <3>2
      <3>4. n <= c /\ n <= AnySize
        BY <1>1, <3>2, <3>3
      <3> QED BY <3>1, <3>4
    <2> QED BY <2>1, <2>2
  <1>3. \A n \in Nat : Fits(n) <=> n <= AnySize
    BY <1>2 DEF Fits
  <1>4. Argument => SizesThatFit
    BY <1>3 DEF Argument, SizesThatFit
  <1> QED BY <1>3, <1>4, ArgumentsInv, PTL

-----------------------------------------------------------------------------
(* base64_encode.  A byte is its eight bits; a group of three bytes and its *)
(* four characters have the same 24 bits; a tail is a group of its bytes    *)
(* and zeros.  So bit for bit the code is the text with zeros behind it.    *)

Byte == 0 .. 255

\* The four characters of a group, byte by byte.
LEMMA GroupIs ==
    ASSUME NEW a \in Byte, NEW b \in Byte, NEW c \in Byte
    PROVE  /\ Group(a, b, c)[1] = a \div 4
           /\ Group(a, b, c)[2] = (a % 4) * 16 + b \div 16
           /\ Group(a, b, c)[3] = (b % 16) * 4 + c \div 64
           /\ Group(a, b, c)[4] = c % 64
  <1>1. PICK v \in Nat : v = a * 65536 + b * 256 + c
    BY DEF Byte
  <1>2. Group(a, b, c) = <<v \div 262144, (v \div 4096) % 64, (v \div 64) % 64, v % 64>>
    BY <1>1 DEF Group
  <1>3. PICK p \in 0 .. 63, q \in 0 .. 3 : a = 4 * p + q
    BY DEF Byte
  <1>4. PICK r \in 0 .. 15, s \in 0 .. 15 : b = 16 * r + s
    BY DEF Byte
  <1>5. PICK t \in 0 .. 3, u \in 0 .. 63 : c = 64 * t + u
    BY DEF Byte
  <1>6. a \div 4 = p /\ a % 4 = q /\ b \div 16 = r /\ b % 16 = s /\ c \div 64 = t /\ c % 64 = u
    BY <1>3, <1>4, <1>5
  <1>7. v = 262144 * p + (65536 * q + 4096 * r + 256 * s + 64 * t + u)
    BY <1>1, <1>3, <1>4, <1>5
  <1>8. v \div 262144 = p
    BY <1>7
  <1>9. v \div 4096 = 64 * p + (16 * q + r)
    BY <1>7
  <1>10. v \div 64 = 64 * (64 * p + 16 * q + r) + (4 * s + t)
    BY <1>7
  <1>11. v % 64 = u
    BY <1>7
  <1>12. (v \div 4096) % 64 = 16 * q + r
    BY <1>9
  <1>13. (v \div 64) % 64 = 4 * s + t
    BY <1>10
  <1> QED BY <1>2, <1>6, <1>8, <1>11, <1>12, <1>13

\* A word made of eight bits has these bits.
LEMMA BitsOf ==
    ASSUME NEW b7 \in 0 .. 1, NEW b6 \in 0 .. 1, NEW b5 \in 0 .. 1, NEW b4 \in 0 .. 1,
           NEW b3 \in 0 .. 1, NEW b2 \in 0 .. 1, NEW b1 \in 0 .. 1, NEW b0 \in 0 .. 1,
           NEW w, w = 128 * b7 + 64 * b6 + 32 * b5 + 16 * b4 + 8 * b3 + 4 * b2 + 2 * b1 + b0
    PROVE  /\ Bit(w, 7) = b7 /\ Bit(w, 6) = b6 /\ Bit(w, 5) = b5 /\ Bit(w, 4) = b4
           /\ Bit(w, 3) = b3 /\ Bit(w, 2) = b2 /\ Bit(w, 1) = b1 /\ Bit(w, 0) = b0
  <1>1. w \div 1 = 128 * b7 + 64 * b6 + 32 * b5 + 16 * b4 + 8 * b3 + 4 * b2 + 2 * b1 + b0
    OBVIOUS
  <1>2. w \div 2 = 64 * b7 + 32 * b6 + 16 * b5 + 8 * b4 + 4 * b3 + 2 * b2 + b1
    OBVIOUS
  <1>3. w \div 4 = 32 * b7 + 16 * b6 + 8 * b5 + 4 * b4 + 2 * b3 + b2
    OBVIOUS
  <1>4. w \div 8 = 16 * b7 + 8 * b6 + 4 * b5 + 2 * b4 + b3
    OBVIOUS
  <1>5. w \div 16 = 8 * b7 + 4 * b6 + 2 * b5 + b4
    OBVIOUS
  <1>6. w \div 32 = 4 * b7 + 2 * b6 + b5
    OBVIOUS
  <1>7. w \div 64 = 2 * b7 + b6
    OBVIOUS
  <1>8. w \div 128 = b7
    OBVIOUS
  <1>9. Bit(w, 0) = b0
    BY <1>1 DEF Bit, Weight
  <1>10. Bit(w, 1) = b1
    BY <1>2 DEF Bit, Weight
  <1>11. Bit(w, 2) = b2
    BY <1>3 DEF Bit, Weight
  <1>12. Bit(w, 3) = b3
    BY <1>4 DEF Bit, Weight
  <1>13. Bit(w, 4) = b4
    BY <1>5 DEF Bit, Weight
  <1>14. Bit(w, 5) = b5
    BY <1>6 DEF Bit, Weight
  <1>15. Bit(w, 6) = b6
    BY <1>7 DEF Bit, Weight
  <1>16. Bit(w, 7) = b7
    BY <1>8 DEF Bit, Weight
  <1> QED BY <1>9, <1>10, <1>11, <1>12, <1>13, <1>14, <1>15, <1>16

\* So has one made of six.
LEMMA SixBits ==
    ASSUME NEW b5 \in 0 .. 1, NEW b4 \in 0 .. 1, NEW b3 \in 0 .. 1,
           NEW b2 \in 0 .. 1, NEW b1 \in 0 .. 1, NEW b0 \in 0 .. 1,
           NEW w, w = 32 * b5 + 16 * b4 + 8 * b3 + 4 * b2 + 2 * b1 + b0
    PROVE  /\ Bit(w, 5) = b5 /\ Bit(w, 4) = b4 /\ Bit(w, 3) = b3
           /\ Bit(w, 2) = b2 /\ Bit(w, 1) = b1 /\ Bit(w, 0) = b0
  <1>1. PICK z \in 0 .. 1 : z = 0
    OBVIOUS
  <1>2. w = 128 * z + 64 * z + 32 * b5 + 16 * b4 + 8 * b3 + 4 * b2 + 2 * b1 + b0
    BY <1>1
  <1> QED BY <1>2, BitsOf

\* A byte is made of eight bits.
LEMMA Binary ==
    ASSUME NEW a \in Byte
    PROVE  \E b7, b6, b5, b4, b3, b2, b1, b0 \in 0 .. 1 :
             a = 128 * b7 + 64 * b6 + 32 * b5 + 16 * b4 + 8 * b3 + 4 * b2 + 2 * b1 + b0
  <1>1. PICK h \in 0 .. 15, l \in 0 .. 15 : a = 16 * h + l
    BY DEF Byte
  <1>2. PICK b7, b6, b5, b4 \in 0 .. 1 : h = 8 * b7 + 4 * b6 + 2 * b5 + b4
    OBVIOUS
  <1>3. PICK b3, b2, b1, b0 \in 0 .. 1 : l = 8 * b3 + 4 * b2 + 2 * b1 + b0
    OBVIOUS
  <1> QED BY <1>1, <1>2, <1>3

\* Four characters and three bytes have the same 24 bits.
LEMMA GroupBits ==
    ASSUME NEW a \in Byte, NEW b \in Byte, NEW c \in Byte
    PROVE  /\ \A k \in 1 .. 4 : Group(a, b, c)[k] \in 0 .. 63
           /\ \A p \in 0 .. 23 : Bit(Group(a, b, c)[(p \div 6) + 1], 5 - (p % 6))
                                   = Bit(<<a, b, c>>[(p \div 8) + 1], 7 - (p % 8))
  <1>1. PICK g, w : g = Group(a, b, c) /\ w = <<a, b, c>>
    OBVIOUS
  <1>2. PICK a7, a6, a5, a4, a3, a2, a1, a0 \in 0 .. 1 :
          w[1] = 128 * a7 + 64 * a6 + 32 * a5 + 16 * a4 + 8 * a3 + 4 * a2 + 2 * a1 + a0
    BY <1>1, Binary
  <1>3. PICK b7, b6, b5, b4, b3, b2, b1, b0 \in 0 .. 1 :
          w[2] = 128 * b7 + 64 * b6 + 32 * b5 + 16 * b4 + 8 * b3 + 4 * b2 + 2 * b1 + b0
    BY <1>1, Binary
  <1>4. PICK c7, c6, c5, c4, c3, c2, c1, c0 \in 0 .. 1 :
          w[3] = 128 * c7 + 64 * c6 + 32 * c5 + 16 * c4 + 8 * c3 + 4 * c2 + 2 * c1 + c0
    BY <1>1, Binary
  <1>5. /\ Bit(w[1], 7) = a7 /\ Bit(w[1], 6) = a6 /\ Bit(w[1], 5) = a5 /\ Bit(w[1], 4) = a4
        /\ Bit(w[1], 3) = a3 /\ Bit(w[1], 2) = a2 /\ Bit(w[1], 1) = a1 /\ Bit(w[1], 0) = a0
    BY <1>2, BitsOf
  <1>6. /\ Bit(w[2], 7) = b7 /\ Bit(w[2], 6) = b6 /\ Bit(w[2], 5) = b5 /\ Bit(w[2], 4) = b4
        /\ Bit(w[2], 3) = b3 /\ Bit(w[2], 2) = b2 /\ Bit(w[2], 1) = b1 /\ Bit(w[2], 0) = b0
    BY <1>3, BitsOf
  <1>7. /\ Bit(w[3], 7) = c7 /\ Bit(w[3], 6) = c6 /\ Bit(w[3], 5) = c5 /\ Bit(w[3], 4) = c4
        /\ Bit(w[3], 3) = c3 /\ Bit(w[3], 2) = c2 /\ Bit(w[3], 1) = c1 /\ Bit(w[3], 0) = c0
    BY <1>4, BitsOf
  <1>8. /\ g[1] = w[1] \div 4 /\ g[2] = (w[1] % 4) * 16 + w[2] \div 16
        /\ g[3] = (w[2] % 16) * 4 + w[3] \div 64 /\ g[4] = w[3] % 64
    BY <1>1, GroupIs
  <1>9. w[1] \div 4 = 32 * a7 + 16 * a6 + 8 * a5 + 4 * a4 + 2 * a3 + a2 /\ w[1] % 4 = 2 * a1 + a0
    BY <1>2
  <1>10. w[2] \div 16 = 8 * b7 + 4 * b6 + 2 * b5 + b4 /\ w[2] % 16 = 8 * b3 + 4 * b2 + 2 * b1 + b0
    BY <1>3
  <1>11. w[3] \div 64 = 2 * c7 + c6 /\ w[3] % 64 = 32 * c5 + 16 * c4 + 8 * c3 + 4 * c2 + 2 * c1 + c0
    BY <1>4
  <1>12. g[1] = 32 * a7 + 16 * a6 + 8 * a5 + 4 * a4 + 2 * a3 + a2
    BY <1>8, <1>9, <1>10, <1>11
  <1>13. g[2] = 32 * a1 + 16 * a0 + 8 * b7 + 4 * b6 + 2 * b5 + b4
    BY <1>8, <1>9, <1>10, <1>11
  <1>14. g[3] = 32 * b3 + 16 * b2 + 8 * b1 + 4 * b0 + 2 * c7 + c6
    BY <1>8, <1>9, <1>10, <1>11
  <1>15. g[4] = 32 * c5 + 16 * c4 + 8 * c3 + 4 * c2 + 2 * c1 + c0
    BY <1>8, <1>9, <1>10, <1>11
  <1>16. Bit(g[1], 5) = a7 /\ Bit(g[1], 4) = a6 /\ Bit(g[1], 3) = a5
       /\ Bit(g[1], 2) = a4 /\ Bit(g[1], 1) = a3 /\ Bit(g[1], 0) = a2
    BY <1>12, SixBits
  <1>17. Bit(g[2], 5) = a1 /\ Bit(g[2], 4) = a0 /\ Bit(g[2], 3) = b7
       /\ Bit(g[2], 2) = b6 /\ Bit(g[2], 1) = b5 /\ Bit(g[2], 0) = b4
    BY <1>13, SixBits
  <1>18. Bit(g[3], 5) = b3 /\ Bit(g[3], 4) = b2 /\ Bit(g[3], 3) = b1
       /\ Bit(g[3], 2) = b0 /\ Bit(g[3], 1) = c7 /\ Bit(g[3], 0) = c6
    BY <1>14, SixBits
  <1>19. Bit(g[4], 5) = c5 /\ Bit(g[4], 4) = c4 /\ Bit(g[4], 3) = c3
       /\ Bit(g[4], 2) = c2 /\ Bit(g[4], 1) = c1 /\ Bit(g[4], 0) = c0
    BY <1>15, SixBits
  <1>20. \A k \in 1 .. 4 : g[k] \in 0 .. 63
    BY <1>12, <1>13, <1>14, <1>15
  <1>21. ASSUME NEW p \in 0 .. 23
         PROVE  Bit(g[(p \div 6) + 1], 5 - (p % 6)) = Bit(w[(p \div 8) + 1], 7 - (p % 8))
    <2>1. CASE p \in 0 .. 5
      BY <2>1, <1>16, <1>5
    <2>2. CASE p \in 6 .. 11
      BY <2>2, <1>17, <1>5, <1>6
    <2>3. CASE p \in 12 .. 17
      BY <2>3, <1>18, <1>6, <1>7
    <2>4. CASE p \in 18 .. 23
      BY <2>4, <1>19, <1>7
    <2> QED BY <2>1, <2>2, <2>3, <2>4
  <1> QED BY <1>1, <1>20, <1>21

\* The tails are the groups of their bytes and zeros, with the characters that
\* hold none of their bits replaced by the padding.
LEMMA TailIs ==
    ASSUME NEW a \in Byte, NEW b \in Byte
    PROVE  /\ \A k \in 1 .. 2 : Tail1(a)[k] = Group(a, 0, 0)[k]
           /\ \A k \in 3 .. 4 : Tail1(a)[k] = Pad
           /\ \A k \in 1 .. 3 : Tail2(a, b)[k] = Group(a, b, 0)[k]
           /\ Tail2(a, b)[4] = Pad
  <1>1. 0 \in Byte /\ 0 \div 16 = 0 /\ 0 \div 64 = 0 /\ 0 % 16 = 0
    BY DEF Byte
  <1>2. /\ Group(a, 0, 0)[1] = a \div 4 /\ Group(a, 0, 0)[2] = (a % 4) * 16 + 0 \div 16
    BY <1>1, GroupIs
  <1>3. /\ Group(a, b, 0)[1] = a \div 4 /\ Group(a, b, 0)[2] = (a % 4) * 16 + b \div 16
        /\ Group(a, b, 0)[3] = (b % 16) * 4 + 0 \div 64
    BY <1>1, GroupIs
  <1>4. PICK v \in Nat : v = a * 256 + b
    BY DEF Byte
  <1>5. Tail2(a, b) = <<v \div 1024, (v \div 16) % 64, (v % 16) * 4, Pad>>
    BY <1>4 DEF Tail2
  <1>6. PICK p \in 0 .. 63, q \in 0 .. 3 : a = 4 * p + q
    BY DEF Byte
  <1>7. PICK r \in 0 .. 15, t \in 0 .. 15 : b = 16 * r + t
    BY DEF Byte
  <1>8. v = 1024 * p + 256 * q + 16 * r + t
    BY <1>4, <1>6, <1>7
  <1>9. v \div 1024 = p /\ v \div 16 = 64 * p + (16 * q + r) /\ v % 16 = t
    BY <1>8
  <1>10. (v \div 16) % 64 = 16 * q + r
    BY <1>9
  <1>11. a \div 4 = p /\ a % 4 = q /\ b \div 16 = r /\ b % 16 = t
    BY <1>6, <1>7
  <1>12. \A k \in 1 .. 3 : Tail2(a, b)[k] = Group(a, b, 0)[k]
    <2>1. Tail2(a, b)[1] = p /\ Tail2(a, b)[2] = 16 * q + r /\ Tail2(a, b)[3] = t * 4
      BY <1>5, <1>9, <1>10
    <2>2. Group(a, b, 0)[1] = p /\ Group(a, b, 0)[2] = 16 * q + r /\ Group(a, b, 0)[3] = t * 4
      BY <1>1, <1>3, <1>11
    <2> QED BY <2>1, <2>2
  <1>13. Tail2(a, b)[4] = Pad
    BY <1>5
  <1>14. Tail1(a) = <<p, q * 16, Pad, Pad>>
    BY <1>11 DEF Tail1
  <1>15. \A k \in 1 .. 2 : Tail1(a)[k] = Group(a, 0, 0)[k]
    BY <1>1, <1>2, <1>11, <1>14
  <1>16. \A k \in 3 .. 4 : Tail1(a)[k] = Pad
    BY <1>14
  <1> QED BY <1>12, <1>13, <1>15, <1>16

\* The text with zeros behind it.
At(s, i) == IF i <= Len(s) THEN s[i] ELSE 0
Block(s, g) == Group(At(s, 3 * g + 1), At(s, 3 * g + 2), At(s, 3 * g + 3))

LEMMA AtIsByte ==
    ASSUME NEW s \in Seq(Byte), NEW i \in Nat \ {0}
    PROVE  At(s, i) \in Byte
  <1>1. 0 \in Byte
    BY DEF Byte
  <1>2. i <= Len(s) => s[i] \in Byte
    OBVIOUS
  <1> QED BY <1>1, <1>2 DEF At

LEMMA ByFour ==
    ASSUME NEW x \in Nat
    PROVE  \E g \in Nat, e \in 0 .. 3 : x = 4 * g + e /\ x \div 4 = g /\ x % 4 = e
  <1>1. x = 4 * (x \div 4) + (x % 4) /\ x \div 4 \in Nat /\ x % 4 \in 0 .. 3
    OBVIOUS
  <1> QED BY <1>1

\* How long the encoding is and how much of it is padding.
PadOf(s) == (3 - (Len(s) % 3)) % 3

\* The code, character by character.
LEMMA CodeIs ==
    ASSUME NEW s \in Seq(Byte), NEW m, m = 4 * ((Len(s) + 2) \div 3),
           NEW pad, pad = PadOf(s)
    PROVE  /\ m \in Nat /\ pad \in 0 .. 2 /\ pad <= m
           /\ Len(base64_encode(s)) = m /\ DOMAIN base64_encode(s) = 1 .. m
           /\ 6 * (m - pad) - 8 * Len(s) \in 0 .. 5
           /\ base64_encode(s) \in Seq(0 .. 64)
           /\ \A j \in 1 .. (m - pad) :
                base64_encode(s)[j] = Block(s, (j - 1) \div 4)[((j - 1) % 4) + 1]
           /\ \A j \in (m - pad + 1) .. m : base64_encode(s)[j] = Pad
  <1>1. PICK n \in Nat : n = Len(s)
    OBVIOUS
  <1>2. PICK q \in Nat, r \in 0 .. 2 : n = 3 * q + r
    <2>1. n = 3 * (n \div 3) + (n % 3) /\ n \div 3 \in Nat /\ n % 3 \in 0 .. 2
      OBVIOUS
    <2> QED BY <2>1
  <1>3. n % 3 = r /\ (n + 2) \div 3 = IF r = 0 THEN q ELSE q + 1
    BY <1>2
  <1>4. pad = (IF r = 0 THEN 0 ELSE 3 - r) /\ m = 4 * (IF r = 0 THEN q ELSE q + 1)
    <2>1. pad = (3 - r) % 3 /\ m = 4 * ((n + 2) \div 3)
      BY <1>1, <1>3 DEF PadOf
    <2>2. (3 - r) % 3 = (IF r = 0 THEN 0 ELSE 3 - r)
      OBVIOUS
    <2> QED BY <1>3, <2>1, <2>2
  <1>5. m \in Nat /\ pad \in 0 .. 2 /\ pad <= m /\ 6 * (m - pad) - 8 * n \in 0 .. 5
    BY <1>2, <1>4
  <1>6. PICK code : code = base64_encode(s)
    OBVIOUS
  <1> DEFINE Chars(i) == IF n - i = 1 THEN Tail1(s[i + 1])
                         ELSE IF n - i = 2 THEN Tail2(s[i + 1], s[i + 2])
                         ELSE Group(s[i + 1], s[i + 2], s[i + 3])
  <1>7. code = [j \in 1 .. m |-> Chars(3 * ((j - 1) \div 4))[((j - 1) % 4) + 1]]
    BY <1>1, <1>6 DEF base64_encode
  <1>8. ASSUME NEW j \in 1 .. m
        PROVE  IF j <= m - pad
               THEN code[j] = Block(s, (j - 1) \div 4)[((j - 1) % 4) + 1] /\ code[j] \in 0 .. 63
               ELSE code[j] = Pad
    <2>1. j - 1 \in Nat /\ j \in Nat
      BY <1>5
    <2>2. PICK g \in Nat, e \in 0 .. 3 :
            j - 1 = 4 * g + e /\ (j - 1) \div 4 = g /\ (j - 1) % 4 = e
      BY <2>1, ByFour
    <2>3. j = 4 * g + e + 1
      BY <2>1, <2>2
    <2>4. PICK ch, bl : ch = Chars(3 * g) /\ bl = Block(s, (j - 1) \div 4) /\ bl = Block(s, g)
      BY <2>2
    <2>5. code[j] = ch[e + 1]
      BY <1>7, <2>2, <2>4
    <2>6. \A i \in 1 .. n : s[i] \in Byte
      BY <1>1
    <2>7. 0 \in Byte
      BY DEF Byte
    <2>8. CASE 3 * g + 3 <= n
      <3>1. j <= m - pad
        BY <1>2, <1>4, <2>3, <2>8
      <3>2. PICK a \in Byte, b \in Byte, c \in Byte :
               a = s[3 * g + 1] /\ b = s[3 * g + 2] /\ c = s[3 * g + 3]
        BY <2>6, <2>8
      <3>3. bl = Group(a, b, c)
        BY <1>1, <2>4, <2>8, <3>2 DEF Block, At
      <3>4. ch = Group(a, b, c)
        BY <2>4, <2>8, <3>2
      <3>5. \A k \in 1 .. 4 : bl[k] \in 0 .. 63
        BY <3>3, GroupBits
      <3>6. ch = bl /\ e + 1 \in 1 .. 4
        BY <3>3, <3>4
      <3> QED BY <2>2, <2>4, <2>5, <3>1, <3>5, <3>6
    <2>9. CASE 3 * g + 2 = n
      <3>1. r = 2 /\ g = q /\ pad = 1 /\ m = 4 * g + 4
        BY <1>2, <1>4, <2>9
      <3>2. PICK a \in Byte, b \in Byte : a = s[3 * g + 1] /\ b = s[3 * g + 2]
        BY <2>6, <2>9
      <3>3. bl = Group(a, b, 0)
        BY <1>1, <2>4, <2>9, <3>2 DEF Block, At
      <3>4. ch = Tail2(a, b)
        BY <2>4, <2>9, <3>2
      <3>5. \A k \in 1 .. 3 : ch[k] = bl[k]
        BY <3>3, <3>4, TailIs
      <3>6. ch[4] = Pad
        BY <3>4, TailIs
      <3>7. \A k \in 1 .. 4 : bl[k] \in 0 .. 63
        BY <2>7, <3>3, GroupBits
      <3>8. IF j <= m - pad THEN e + 1 \in 1 .. 3 ELSE e + 1 = 4
        BY <2>3, <3>1
      <3>9. CASE j <= m - pad
        <4>1. e + 1 \in 1 .. 4 /\ ch[e + 1] = bl[e + 1]
          BY <3>5, <3>8, <3>9
        <4>2. code[j] = bl[e + 1] /\ code[j] \in 0 .. 63
          BY <2>5, <3>7, <4>1
        <4> QED BY <2>2, <2>4, <3>9, <4>2, Zenon
      <3>10. CASE ~(j <= m - pad)
        BY <2>5, <3>6, <3>8, <3>10
      <3> QED BY <3>9, <3>10
    <2>10. CASE 3 * g + 1 = n
      <3>1. r = 1 /\ g = q /\ pad = 2 /\ m = 4 * g + 4
        BY <1>2, <1>4, <2>10
      <3>2. PICK a \in Byte : a = s[3 * g + 1]
        BY <2>6, <2>10
      <3>3. bl = Group(a, 0, 0)
        BY <1>1, <2>4, <2>10, <3>2 DEF Block, At
      <3>4. ch = Tail1(a)
        BY <2>4, <2>10, <3>2
      <3>5. \A k \in 1 .. 2 : ch[k] = bl[k]
        BY <3>3, <3>4, TailIs
      <3>6. \A k \in 3 .. 4 : ch[k] = Pad
        BY <3>4, TailIs
      <3>7. \A k \in 1 .. 4 : bl[k] \in 0 .. 63
        BY <2>7, <3>3, GroupBits
      <3>8. IF j <= m - pad THEN e + 1 \in 1 .. 2 ELSE e + 1 \in 3 .. 4
        BY <2>3, <3>1
      <3>9. CASE j <= m - pad
        <4>1. e + 1 \in 1 .. 4 /\ ch[e + 1] = bl[e + 1]
          BY <3>5, <3>8, <3>9
        <4>2. code[j] = bl[e + 1] /\ code[j] \in 0 .. 63
          BY <2>5, <3>7, <4>1
        <4> QED BY <2>2, <2>4, <3>9, <4>2, Zenon
      <3>10. CASE ~(j <= m - pad)
        BY <2>5, <3>6, <3>8, <3>10
      <3> QED BY <3>9, <3>10
    <2>11. 3 * g + 1 <= n
      BY <1>2, <1>4, <2>3
    <2> QED BY <2>8, <2>9, <2>10, <2>11
  <1>9. DOMAIN code = 1 .. m
    BY <1>7
  <1>10. \A j \in 1 .. m : code[j] \in 0 .. 64
    BY <1>8 DEF Pad
  <1>11. code \in [1 .. m -> 0 .. 64]
    BY <1>7, <1>9, <1>10
  <1>12. code \in Seq(0 .. 64) /\ Len(code) = m
    <2>1. \A S : \A k \in Nat : \A f \in [1 .. k -> S] : f \in Seq(S) /\ Len(f) = k
      OBVIOUS
    <2>2. PICK S : S = 0 .. 64
      OBVIOUS
    <2>3. code \in [1 .. m -> S] /\ m \in Nat
      BY <1>5, <1>11, <2>2
    <2>4. code \in Seq(S) /\ Len(code) = m
      BY <2>1, <2>3
    <2> QED BY <2>2, <2>4
  <1>13. \A j \in 1 .. (m - pad) : code[j] = Block(s, (j - 1) \div 4)[((j - 1) % 4) + 1]
    BY <1>5, <1>8, SMTT(40)
  <1>14. \A j \in (m - pad + 1) .. m : code[j] = Pad
    BY <1>5, <1>8
  <1> QED BY <1>1, <1>5, <1>6, <1>9, <1>12, <1>13, <1>14

\* A number of 24 bits.
LEMMA By24 ==
    ASSUME NEW x \in Nat
    PROVE  \E g \in Nat, p \in 0 .. 23 :
             /\ x = 24 * g + p
             /\ x \div 6 = 4 * g + (p \div 6) /\ x % 6 = p % 6 /\ p \div 6 \in 0 .. 3
             /\ x \div 8 = 3 * g + (p \div 8) /\ x % 8 = p % 8 /\ p \div 8 \in 0 .. 2
  <1>1. x = 24 * (x \div 24) + (x % 24) /\ x \div 24 \in Nat /\ x % 24 \in 0 .. 23
    OBVIOUS
  <1>2. PICK g \in Nat, p \in 0 .. 23 : x = 24 * g + p
    BY <1>1
  <1>3. x \div 6 = 4 * g + (p \div 6) /\ x % 6 = p % 6 /\ p \div 6 \in 0 .. 3
    BY <1>2
  <1>4. x \div 8 = 3 * g + (p \div 8) /\ x % 8 = p % 8 /\ p \div 8 \in 0 .. 2
    BY <1>2
  <1> QED BY <1>2, <1>3, <1>4

\* The bits of the characters before the padding are those of the text with
\* zeros behind it.
LEMMA CodeBits ==
    ASSUME NEW s \in Seq(Byte), NEW code, code = base64_encode(s),
           NEW m, m = 4 * ((Len(s) + 2) \div 3), NEW pad, pad = PadOf(s),
           NEW x \in 0 .. (6 * (m - pad) - 1)
    PROVE  Bit(code[(x \div 6) + 1], 5 - (x % 6)) = Bit(At(s, (x \div 8) + 1), 7 - (x % 8))
  <1>1. /\ m \in Nat /\ pad \in 0 .. 2
        /\ \A j \in 1 .. (m - pad) : code[j] = Block(s, (j - 1) \div 4)[((j - 1) % 4) + 1]
    BY CodeIs
  <1>2. PICK g \in Nat, p \in 0 .. 23 :
             /\ x = 24 * g + p
             /\ x \div 6 = 4 * g + (p \div 6) /\ x % 6 = p % 6 /\ p \div 6 \in 0 .. 3
             /\ x \div 8 = 3 * g + (p \div 8) /\ x % 8 = p % 8 /\ p \div 8 \in 0 .. 2
    <2>1. x \in Nat
      BY <1>1
    <2> QED BY <2>1, By24, Zenon
  <1>3. PICK d \in 0 .. 3 : d = p \div 6
    BY <1>2
  <1>4. PICK j \in Nat : j = 4 * g + d + 1
    OBVIOUS
  <1>5. j = (x \div 6) + 1 /\ j \in 1 .. (m - pad)
    <2>1. j = (x \div 6) + 1
      BY <1>2, <1>3, <1>4
    <2>2. 6 * (j - 1) <= x
      BY <1>2, <1>3, <1>4
    <2>3. PICK l \in Int : l = m - pad
      BY <1>1
    <2>4. x <= 6 * l - 1 /\ x \in Int
      BY <2>3
    <2>5. j \in 1 .. l
      BY <1>4, <2>2, <2>4
    <2> QED BY <2>1, <2>3, <2>5
  <1>6. (j - 1) \div 4 = g /\ (j - 1) % 4 = d
    BY <1>4
  <1>7. code[j] = Block(s, g)[d + 1]
    BY <1>1, <1>5, <1>6
  <1>8. PICK a \in Byte, b \in Byte, c \in Byte :
           a = At(s, 3 * g + 1) /\ b = At(s, 3 * g + 2) /\ c = At(s, 3 * g + 3)
    BY AtIsByte
  <1>9. Block(s, g) = Group(a, b, c)
    BY <1>8 DEF Block
  <1>10. PICK f \in 0 .. 2 : f = p \div 8
    BY <1>2
  <1>11. Bit(Group(a, b, c)[d + 1], 5 - (p % 6)) = Bit(<<a, b, c>>[f + 1], 7 - (p % 8))
    BY <1>3, <1>10, GroupBits
  <1>12. <<a, b, c>>[f + 1] = At(s, 3 * g + f + 1)
    BY <1>8
  <1>13. (x \div 8) + 1 = 3 * g + f + 1
    BY <1>2, <1>10
  <1>14. x % 6 = p % 6 /\ x % 8 = p % 8
    BY <1>2
  <1> QED BY <1>5, <1>7, <1>9, <1>11, <1>12, <1>13, <1>14, Zenon

\* A bit is 0 or 1.
LEMMA BitIsBinary ==
    ASSUME NEW w \in Nat, NEW i \in 0 .. 7
    PROVE  Bit(w, i) \in 0 .. 1 /\ Bit(0, i) = 0
  <1>1. Weight[i + 1] \in {1, 2, 4, 8, 16, 32, 64, 128}
    BY DEF Weight
  <1> QED BY <1>1 DEF Bit

\* base64_encode encodes every text.
LEMMA Encodes ==
    ASSUME NEW s \in Seq(Byte)
    PROVE  EncodesBits(s)
  <1>1. PICK code, m, pad, n : /\ code = base64_encode(s) /\ n = Len(s)
                               /\ m = 4 * ((Len(s) + 2) \div 3) /\ pad = PadOf(s)
    OBVIOUS
  <1>2. /\ m \in Nat /\ pad \in 0 .. 2 /\ pad <= m /\ n \in Nat
        /\ Len(code) = m /\ DOMAIN code = 1 .. m /\ code \in Seq(0 .. 64)
        /\ 6 * (m - pad) - 8 * n \in 0 .. 5
        /\ \A j \in 1 .. (m - pad) : code[j] = Block(s, (j - 1) \div 4)[((j - 1) % 4) + 1]
        /\ \A j \in (m - pad + 1) .. m : code[j] = Pad
    <2>1. n \in Nat
      BY <1>1
    <2> QED BY <1>1, <2>1, CodeIs, ZenonT(40)
  <1>3. PICK L \in Nat : L = m - pad
    BY <1>2
  <1>4. PICK chars \in Seq(0 .. 64) :
          /\ chars = SubSeq(code, 1, m - pad) /\ Len(chars) = L /\ DOMAIN chars = 1 .. L
          /\ \A j \in 1 .. L : chars[j] = code[j]
    <2>1. \A S : \A t \in Seq(S) : \A l \in 0 .. Len(t) :
             /\ SubSeq(t, 1, l) \in Seq(S) /\ Len(SubSeq(t, 1, l)) = l
             /\ \A j \in 1 .. l : SubSeq(t, 1, l)[j] = t[j]
      BY SubSeqProperties
    <2>2. PICK S : S = 0 .. 64
      OBVIOUS
    <2>3. code \in Seq(S) /\ L \in 0 .. Len(code)
      BY <1>2, <1>3, <2>2
    <2>4. PICK t \in Seq(S) : t = SubSeq(code, 1, L) /\ Len(t) = L
                              /\ \A j \in 1 .. L : t[j] = code[j]
      BY <2>1, <2>3, ZenonT(40)
    <2>5. DOMAIN t = 1 .. L
      BY <2>4
    <2> QED BY <1>3, <2>2, <2>4, <2>5
  <1>5. \A j \in 1 .. L : code[j] \in 0 .. 63
    <2> SUFFICES ASSUME NEW j \in 1 .. L PROVE code[j] \in 0 .. 63
      OBVIOUS
    <2>1. j - 1 \in Nat
      OBVIOUS
    <2>2. PICK g \in Nat, e \in 0 .. 3 : (j - 1) \div 4 = g /\ (j - 1) % 4 = e
      BY <2>1, ByFour
    <2>3. code[j] = Block(s, g)[e + 1]
      BY <1>2, <1>3, <2>2
    <2>4. \A a, b, c \in Byte : \A k \in 1 .. 4 : Group(a, b, c)[k] \in 0 .. 63
      BY GroupBits
    <2>5. At(s, 3 * g + 1) \in Byte /\ At(s, 3 * g + 2) \in Byte /\ At(s, 3 * g + 3) \in Byte
      BY AtIsByte
    <2>6. PICK a, b, c \in Byte : Block(s, g) = Group(a, b, c)
      BY <2>5 DEF Block
    <2>7. e + 1 \in 1 .. 4
      OBVIOUS
    <2> QED BY <2>3, <2>4, <2>6, <2>7, Zenon
  <1>6. PICK bits : bits = Bits(chars, 6)
    OBVIOUS
  <1>7. bits = [k \in 1 .. (6 * L) |-> Bit(chars[((k - 1) \div 6) + 1], 5 - ((k - 1) % 6))]
    BY <1>4, <1>6 DEF Bits
  <1>8. \A k \in 1 .. (6 * L) : bits[k] = Bit(At(s, ((k - 1) \div 8) + 1), 7 - ((k - 1) % 8))
    <2> SUFFICES ASSUME NEW k \in 1 .. (6 * L)
                 PROVE  bits[k] = Bit(At(s, ((k - 1) \div 8) + 1), 7 - ((k - 1) % 8))
      OBVIOUS
    <2>1. PICK x : x = k - 1 /\ x \in 0 .. (6 * L - 1)
      OBVIOUS
    <2>2. bits[k] = Bit(chars[(x \div 6) + 1], 5 - (x % 6))
      BY <1>7, <2>1
    <2>3. (x \div 6) + 1 \in 1 .. L
      BY <2>1
    <2>4. chars[(x \div 6) + 1] = code[(x \div 6) + 1]
      BY <1>4, <2>3
    <2>5. x \in 0 .. (6 * (m - pad) - 1)
      BY <1>3, <2>1
    <2>6. Bit(code[(x \div 6) + 1], 5 - (x % 6)) = Bit(At(s, (x \div 8) + 1), 7 - (x % 8))
      BY <1>1, <2>5, CodeBits, ZenonT(40)
    <2> QED BY <2>1, <2>2, <2>4, <2>6
  <1>9. \A k \in 1 .. (6 * L) : bits[k] \in 0 .. 1
    <2> SUFFICES ASSUME NEW k \in 1 .. (6 * L) PROVE bits[k] \in 0 .. 1
      OBVIOUS
    <2>1. ((k - 1) \div 8) + 1 \in Nat \ {0} /\ 7 - ((k - 1) % 8) \in 0 .. 7
      OBVIOUS
    <2>2. At(s, ((k - 1) \div 8) + 1) \in Byte /\ Byte \subseteq Nat
      <3>1. PICK i \in Nat \ {0} : i = ((k - 1) \div 8) + 1
        BY <2>1
      <3>2. At(s, i) \in Byte
        BY AtIsByte
      <3>3. Byte \subseteq Nat
        BY DEF Byte
      <3> QED BY <3>1, <3>2, <3>3
    <2> QED BY <1>8, <2>1, <2>2, BitIsBinary, ZenonT(40)
  <1>10. bits \in Seq(0 .. 1) /\ Len(bits) = 6 * L
    <2>1. \A S : \A k \in Nat : \A f \in [1 .. k -> S] : f \in Seq(S) /\ Len(f) = k
      OBVIOUS
    <2>2. PICK S : S = 0 .. 1
      OBVIOUS
    <2>3. DOMAIN bits = 1 .. (6 * L) /\ bits = [k \in 1 .. (6 * L) |-> bits[k]]
      BY <1>7
    <2>4. bits \in [1 .. (6 * L) -> S] /\ 6 * L \in Nat
      BY <1>9, <2>2, <2>3
    <2>5. bits \in Seq(S) /\ Len(bits) = 6 * L
      BY <2>1, <2>4
    <2> QED BY <2>2, <2>5
  <1>11. SubSeq(bits, 1, 8 * n) = Bits(s, 8)
    <2>1. 8 * n \in 0 .. Len(bits)
      BY <1>2, <1>3, <1>10
    <2>2. SubSeq(bits, 1, 8 * n) = [k \in 1 .. (8 * n) |-> bits[k]]
      <3>1. \A S : \A t \in Seq(S) : \A l \in 0 .. Len(t) :
               SubSeq(t, 1, l) = [k \in 1 .. l |-> t[k]]
        BY SubSeqProperties
      <3>2. PICK S : S = 0 .. 1
        OBVIOUS
      <3> QED BY <1>10, <2>1, <3>1, <3>2
    <2>3. Bits(s, 8) = [k \in 1 .. (8 * n) |-> Bit(s[((k - 1) \div 8) + 1], 7 - ((k - 1) % 8))]
      BY <1>1 DEF Bits
    <2>4. ASSUME NEW k \in 1 .. (8 * n)
          PROVE  bits[k] = Bit(s[((k - 1) \div 8) + 1], 7 - ((k - 1) % 8))
      <3>1. ((k - 1) \div 8) + 1 \in 1 .. n
        BY <1>2
      <3>2. At(s, ((k - 1) \div 8) + 1) = s[((k - 1) \div 8) + 1]
        BY <1>1, <3>1 DEF At
      <3>3. k \in 1 .. (6 * L)
        BY <1>10, <2>1
      <3> QED BY <1>8, <3>2, <3>3
    <2> QED BY <2>2, <2>3, <2>4
  <1>12. ASSUME NEW k \in (8 * n + 1) .. (6 * L)
         PROVE  bits[k] = 0
    <2>1. ((k - 1) \div 8) + 1 > n /\ 7 - ((k - 1) % 8) \in 0 .. 7
      <3>1. PICK x \in Nat : x = k - 1 /\ x >= 8 * n
        BY <1>2
      <3>2. x \div 8 >= n
        BY <1>2, <3>1
      <3>3. x % 8 \in 0 .. 7
        OBVIOUS
      <3> QED BY <1>2, <3>1, <3>2, <3>3
    <2>2. At(s, ((k - 1) \div 8) + 1) = 0
      BY <1>1, <1>2, <2>1 DEF At
    <2>3. k \in 1 .. (6 * L)
      BY <1>2
    <2> QED BY <1>8, <2>1, <2>2, <2>3, BitIsBinary
  <1>13. /\ Len(code) = 4 * ((Len(s) + 2) \div 3)
         /\ pad \in 0 .. 2
         /\ \A j \in DOMAIN chars : code[j] \in 0 .. 63
         /\ \A j \in DOMAIN code \ DOMAIN chars : code[j] = Pad
         /\ SubSeq(bits, 1, 8 * Len(s)) = Bits(s, 8)
         /\ Len(bits) - 8 * Len(s) \in 0 .. 5
         /\ \A k \in (8 * Len(s) + 1) .. Len(bits) : bits[k] = 0
    <2>1. \A j \in DOMAIN code \ DOMAIN chars : j \in (m - pad + 1) .. m
      BY <1>2, <1>3, <1>4
    <2> QED BY <1>1, <1>2, <1>3, <1>4, <1>5, <1>10, <1>11, <1>12, <2>1
  <1>14. bits = Bits(SubSeq(code, 1, Len(code) - pad), 6)
         /\ chars = SubSeq(code, 1, Len(code) - pad)
    BY <1>2, <1>4, <1>6
  <1> QED BY <1>1, <1>13, <1>14, Zenon DEF EncodesBits

(***************************************************************************)
(* Every text is encoded as RFC 4648 says: for bytes of any values and      *)
(* texts of any length, so for any key of a handshake.                      *)
(***************************************************************************)
THEOREM AnswerEncoded ==
    (\A s \in Seq(0 .. 255) : EncodesBits(s)) /\ (ArgumentSpec => []EncodeChecked)
  <1>1. \A s \in Seq(0 .. 255) : EncodesBits(s)
    BY Encodes DEF Byte
  <1>2. Argument => EncodeChecked
    BY <1>1 DEF Argument, EncodeChecked
  <1> QED BY <1>1, <1>2, ArgumentsInv, PTL

-----------------------------------------------------------------------------
(* SpliteString.                                                            *)

\* What the loop's recursion demands of its result from each position on.
Splits(f, s, c) ==
    f = [i \in 1 .. (Len(s) + 1) |->
            IF First(s, c, i) = Len(s) + 1 THEN Part(s, i, First(s, c, i))
            ELSE Part(s, i, First(s, c, i)) \o f[First(s, c, i) + 1]]

LEMMA SpliteIs == \A s, c : SpliteString(s, c) = (CHOOSE f : Splits(f, s, c))[1]
  BY DEF SpliteString, Splits

\* The delimiter from i on.
LEMMA FirstIs ==
    ASSUME NEW A, NEW s \in Seq(A), NEW c, NEW i \in 1 .. (Len(s) + 1)
    PROVE  /\ First(s, c, i) \in i .. (Len(s) + 1)
           /\ First(s, c, i) # Len(s) + 1 => s[First(s, c, i)] = c
           /\ \A k \in i .. (First(s, c, i) - 1) : s[k] # c
  <1>1. PICK hits : hits = {k \in i .. Len(s) : s[k] = c}
    OBVIOUS
  <1>2. First(s, c, i) = IF hits = {} THEN Len(s) + 1
                         ELSE CHOOSE k \in hits : \A j \in hits : k <= j
    BY <1>1 DEF First
  <1>3. CASE hits = {}
    BY <1>1, <1>2, <1>3
  <1>4. CASE hits # {}
    <2>1. hits \in SUBSET Nat
      BY <1>1
    <2>2. \E k \in hits : \A j \in hits : k <= j
      BY <1>4, <2>1, Least
    <2>3. PICK e \in hits : e = First(s, c, i) /\ \A j \in hits : e <= j
      BY <1>2, <1>4, <2>2
    <2> QED BY <1>1, <2>3
  <1> QED BY <1>3, <1>4

\* Where the stretches behind position i begin.
Starts(s, c, i) == {k \in i .. Len(s) : s[k] # c /\ (k = i \/ s[k - 1] = c)}

LEMMA StartsIs ==
    ASSUME NEW A, NEW s \in Seq(A), NEW c, NEW i \in 1 .. (Len(s) + 1),
           NEW e, e = First(s, c, i)
    PROVE  /\ e = i => Starts(s, c, i) = Starts(s, c, i + 1)
           /\ e # i => /\ Starts(s, c, i) = Starts(s, c, e + 1) \cup {i}
                       /\ \A k \in Starts(s, c, e + 1) : k > i
  <1>1. /\ e \in i .. (Len(s) + 1)
        /\ e # Len(s) + 1 => s[e] = c
        /\ \A k \in i .. (e - 1) : s[k] # c
    BY FirstIs
  <1>2. CASE e = i
    <2>1. \A k : k \in Starts(s, c, i) <=> k \in Starts(s, c, i + 1)
      BY <1>1, <1>2 DEF Starts
    <2> QED BY <1>2, <2>1
  <1>3. CASE e # i
    <2>1. \A k \in Starts(s, c, e + 1) : k > i
      BY <1>1, <1>3 DEF Starts
    <2>2. i \in Starts(s, c, i)
      BY <1>1, <1>3 DEF Starts
    <2>3. ASSUME NEW k \in Starts(s, c, i), k # i
          PROVE  k \in Starts(s, c, e + 1)
      <3>1. k \in (i + 1) .. Len(s) /\ s[k] # c /\ s[k - 1] = c
        BY <2>3 DEF Starts
      <3>2. ~(k - 1 \in i .. (e - 1))
        BY <1>1, <3>1
      <3>3. k # e
        BY <1>1, <3>1
      <3>4. k \in (e + 1) .. Len(s)
        BY <1>1, <3>1, <3>2, <3>3
      <3> QED BY <3>1, <3>4 DEF Starts
    <2>4. ASSUME NEW k \in Starts(s, c, e + 1)
          PROVE  k \in Starts(s, c, i)
      <3>1. k \in (e + 1) .. Len(s) /\ s[k] # c /\ (k = e + 1 \/ s[k - 1] = c)
        BY DEF Starts
      <3>2. s[k - 1] = c
        BY <1>1, <3>1
      <3> QED BY <1>1, <3>1, <3>2 DEF Starts
    <2> QED BY <1>3, <2>1, <2>2, <2>3, <2>4
  <1> QED BY <1>2, <1>3

Rank(S, k) == Cardinality({m \in S : m < k})

LEMMA RankedIs == \A S, n : Ranked(S, n) = {k \in S : Rank(S, k) = n - 1}
  BY DEF Ranked, Rank

\* A smallest element comes before all others.
AddsFirst(S, i, T) ==
    /\ Cardinality(S) \in Nat /\ Cardinality(T) = Cardinality(S) + 1
    /\ Ranked(T, 1) = {i}
    /\ \A n \in Nat : n > 1 => Ranked(T, n) = Ranked(S, n - 1)

LEMMA RankedAdd ==
    ASSUME NEW S \in SUBSET Nat, NEW i \in Nat, NEW T,
           IsFiniteSet(S), \A k \in S : k > i, T = S \cup {i}
    PROVE  AddsFirst(S, i, T)
  <1>1. IsFiniteSet(T) /\ Cardinality(S) \in Nat /\ Cardinality(T) = Cardinality(S) + 1
    <2>1. ~(i \in S)
      OBVIOUS
    <2> QED BY <2>1, FS_AddElement, FS_CardinalityType
  <1>2. Rank(T, i) = 0
    <2>1. \A m \in T : ~(m < i)
      OBVIOUS
    <2>2. {m \in T : m < i} = {}
      BY <2>1, Zenon
    <2> QED BY <2>2, FS_EmptySet DEF Rank
  <1>3. ASSUME NEW k \in S
        PROVE  Rank(S, k) \in Nat /\ Rank(T, k) = Rank(S, k) + 1
    <2>1. PICK B : B = {m \in S : m < k}
      OBVIOUS
    <2>2. {m \in T : m < k} = B \cup {i} /\ ~(i \in B)
      BY <2>1
    <2>3. IsFiniteSet(B)
      BY <2>1, FS_Subset
    <2> QED BY <2>1, <2>2, <2>3, FS_AddElement, FS_CardinalityType DEF Rank
  <1>4. Ranked(T, 1) = {i}
    <2>1. \A k \in S : Rank(T, k) # 1 - 1
      BY <1>3
    <2>2. Rank(T, i) = 1 - 1
      BY <1>2
    <2>3. {k \in T : Rank(T, k) = 1 - 1} = {i}
      BY <2>1, <2>2, Zenon
    <2> QED BY <2>3, RankedIs
  <1>5. ASSUME NEW n \in Nat, n > 1
        PROVE  Ranked(T, n) = Ranked(S, n - 1)
    <2>1. \A k \in S : Rank(T, k) = n - 1 <=> Rank(S, k) = (n - 1) - 1
      <3> SUFFICES ASSUME NEW k \in S
                   PROVE  Rank(T, k) = n - 1 <=> Rank(S, k) = (n - 1) - 1
        OBVIOUS
      <3>1. PICK r \in Nat : r = Rank(S, k) /\ Rank(T, k) = r + 1
        BY <1>3
      <3>2. r + 1 = n - 1 <=> r = (n - 1) - 1
        OBVIOUS
      <3> QED BY <3>1, <3>2
    <2>2. Rank(T, i) # n - 1
      BY <1>2, <1>5
    <2>3. {k \in T : Rank(T, k) = n - 1} = {k \in S : Rank(S, k) = (n - 1) - 1}
      BY <2>1, <2>2, Zenon
    <2> QED BY <2>3, RankedIs
  <1> QED BY <1>1, <1>4, <1>5 DEF AddsFirst

\* Starts are finitely many, from i on, and every rank is there.
LEMMA StartsRanked ==
    ASSUME NEW A, NEW s \in Seq(A), NEW c
    PROVE  \A i \in 1 .. (Len(s) + 2) :
              /\ Starts(s, c, i) \in SUBSET Nat /\ IsFiniteSet(Starts(s, c, i))
              /\ Cardinality(Starts(s, c, i)) \in Nat
              /\ \A n \in 1 .. Cardinality(Starts(s, c, i)) : Ranked(Starts(s, c, i), n) # {}
  <1>1. PICK l \in Nat : l = Len(s)
    OBVIOUS
  <1>2. \A i \in 1 .. (l + 2) :
              /\ Starts(s, c, i) \in SUBSET Nat /\ IsFiniteSet(Starts(s, c, i))
              /\ Cardinality(Starts(s, c, i)) \in Nat
    <2> SUFFICES ASSUME NEW i \in 1 .. (l + 2)
                 PROVE  /\ Starts(s, c, i) \in SUBSET Nat /\ IsFiniteSet(Starts(s, c, i))
                        /\ Cardinality(Starts(s, c, i)) \in Nat
      OBVIOUS
    <2>1. Starts(s, c, i) \in SUBSET (i .. l)
      BY <1>1 DEF Starts
    <2>2. IsFiniteSet(i .. l)
      BY FS_Interval
    <2> QED BY <2>1, <2>2, FS_Subset, FS_CardinalityType
  <1> DEFINE Full(i) == \A n \in 1 .. Cardinality(Starts(s, c, i)) : Ranked(Starts(s, c, i), n) # {}
  <1>3. ASSUME NEW i \in 1 .. (l + 1), \A j \in (i + 1) .. (l + 2) : Full(j)
        PROVE  Full(i)
    <2>1. PICK e \in i .. (l + 1) : e = First(s, c, i)
      BY <1>1, FirstIs
    <2>2. /\ e = i => Starts(s, c, i) = Starts(s, c, i + 1)
          /\ e # i => /\ Starts(s, c, i) = Starts(s, c, e + 1) \cup {i}
                      /\ \A k \in Starts(s, c, e + 1) : k > i
      <3>1. i \in 1 .. (Len(s) + 1)
        BY <1>1
      <3> QED BY <2>1, <3>1, StartsIs
    <2>3. CASE e = i
      <3>1. Starts(s, c, i) = Starts(s, c, i + 1)
        BY <2>3, <2>2
      <3>2. Full(i + 1)
        BY <1>3
      <3> QED BY <3>1, <3>2
    <2>4. CASE e # i
      <3>1. PICK S, T : S = Starts(s, c, e + 1) /\ T = Starts(s, c, i)
        OBVIOUS
      <3>2. T = S \cup {i} /\ \A k \in S : k > i
        BY <2>4, <2>2, <3>1
      <3>3. S \in SUBSET Nat /\ IsFiniteSet(S) /\ i \in Nat
        BY <1>2, <2>1, <3>1
      <3>4. /\ Cardinality(S) \in Nat /\ Cardinality(T) = Cardinality(S) + 1
            /\ Ranked(T, 1) = {i}
            /\ \A n \in Nat : n > 1 => Ranked(T, n) = Ranked(S, n - 1)
        <4>1. AddsFirst(S, i, T)
          BY <3>2, <3>3, RankedAdd
        <4> QED BY <4>1 DEF AddsFirst
      <3>5. \A n \in 1 .. Cardinality(S) : Ranked(S, n) # {}
        <4>1. Full(e + 1)
          BY <1>3, <2>1, <2>4
        <4> QED BY <3>1, <4>1
      <3>6. ASSUME NEW n \in 1 .. Cardinality(T)
            PROVE  Ranked(T, n) # {}
        <4>1. CASE n = 1
          BY <3>4, <4>1
        <4>2. CASE n # 1
          <5>1. n - 1 \in 1 .. Cardinality(S) /\ n \in Nat /\ n > 1
            BY <3>4, <4>2
          <5> QED BY <3>4, <3>5, <5>1
        <4> QED BY <4>1, <4>2
      <3> QED BY <3>1, <3>6
    <2> QED BY <2>3, <2>4
  <1>4. Full(l + 2)
    <2>1. Starts(s, c, l + 2) = {}
      BY <1>1 DEF Starts
    <2>2. Cardinality(Starts(s, c, l + 2)) = 0
      BY <2>1, FS_EmptySet
    <2> QED BY <2>2
  <1> HIDE DEF Full
  <1>5. ASSUME NEW i \in 1 .. (l + 2), ~Full(i)
        PROVE  FALSE
    <2>1. PICK B : B = {d \in Nat : d <= l + 1 /\ ~Full(l + 2 - d)}
      OBVIOUS
    <2>2. B \in SUBSET Nat /\ l + 2 - i \in B
      <3>1. l + 2 - (l + 2 - i) = i /\ l + 2 - i \in Nat /\ l + 2 - i <= l + 1
        OBVIOUS
      <3> QED BY <1>5, <2>1, <3>1
    <2>3. PICK d \in B : \A b \in B : d <= b
      BY <2>2, Least
    <2>4. PICK k : k = l + 2 - d
      OBVIOUS
    <2>5. d \in Nat /\ d <= l + 1 /\ ~Full(k)
      BY <2>1, <2>3, <2>4
    <2>6. d # 0
      BY <1>4, <2>4, <2>5
    <2>7. k \in 1 .. (l + 1)
      BY <2>4, <2>5, <2>6
    <2>8. ASSUME NEW j \in (k + 1) .. (l + 2)
          PROVE  Full(j)
      <3>1. l + 2 - j \in Nat /\ l + 2 - j < d /\ l + 2 - (l + 2 - j) = j
        BY <2>4, <2>5, <2>7
      <3>2. ~(l + 2 - j \in B)
        BY <2>3, <2>5, <3>1
      <3> QED BY <2>1, <2>5, <3>1, <3>2
    <2> QED BY <1>3, <2>5, <2>7, <2>8
  <1> QED BY <1>1, <1>2, <1>5 DEF Full

StretchesAt(s, c, i) ==
    [n \in 1 .. Cardinality(Starts(s, c, i)) |-> Stretch(s, c, Only(Ranked(Starts(s, c, i), n)))]

LEMMA OnlyIs == (\A S : S # {} => Only(S) \in S) /\ (\A k : Only({k}) = k)
  BY DEF Only

\* The reference definition is what begins at the first position.
LEMMA StretchesIs ==
    ASSUME NEW A, NEW s \in Seq(A), NEW c
    PROVE  Stretches(s, c) = StretchesAt(s, c, 1)
  <1>1. Starts(s, c, 1) = {i \in DOMAIN s : s[i] # c /\ (i = 1 \/ s[i - 1] = c)}
    BY DEF Starts
  <1>2. PICK T : T = Starts(s, c, 1)
    OBVIOUS
  <1>3. T = {i \in DOMAIN s : s[i] # c /\ (i = 1 \/ s[i - 1] = c)}
    BY <1>1, <1>2
  <1>4. Stretches(s, c) = [n \in 1 .. Cardinality(T) |-> Stretch(s, c, Only(Ranked(T, n)))]
    BY <1>3, Zenon DEF Stretches
  <1>5. StretchesAt(s, c, 1) = [n \in 1 .. Cardinality(T) |-> Stretch(s, c, Only(Ranked(T, n)))]
    BY <1>2, Zenon DEF StretchesAt
  <1> QED BY <1>4, <1>5, Zenon

\* A stretch is not empty.
LEMMA StretchIs ==
    ASSUME NEW A, NEW s \in Seq(A), NEW c, NEW k \in 1 .. Len(s), s[k] # c
    PROVE  Stretch(s, c, k) \in Seq(A) /\ Len(Stretch(s, c, k)) > 0
  <1>1. PICK e \in k .. (Len(s) + 1) : e = First(s, c, k) /\ (e # Len(s) + 1 => s[e] = c)
    BY FirstIs
  <1>2. e # k
    BY <1>1
  <1>3. SubSeq(s, k, e - 1) \in Seq(A) /\ Len(SubSeq(s, k, e - 1)) = e - k
    BY <1>1, <1>2
  <1>4. e - k > 0
    BY <1>2
  <1>5. Stretch(s, c, k) = SubSeq(s, k, e - 1)
    BY <1>1 DEF Stretch
  <1> QED BY <1>3, <1>4, <1>5

\* Each of the stretches begins at a start.
LEMMA StretchesTyped ==
    ASSUME NEW A, NEW s \in Seq(A), NEW c, NEW i \in 1 .. (Len(s) + 2)
    PROVE  /\ StretchesAt(s, c, i) \in Seq(Seq(A))
           /\ Len(StretchesAt(s, c, i)) = Cardinality(Starts(s, c, i))
           /\ \A n \in 1 .. Cardinality(Starts(s, c, i)) :
                 \E k \in Starts(s, c, i) : StretchesAt(s, c, i)[n] = Stretch(s, c, k)
  <1>1. PICK T : T = Starts(s, c, i)
    OBVIOUS
  <1>2. PICK l \in Nat : T = Starts(s, c, i) /\ l = Cardinality(T)
    BY <1>1, StartsRanked
  <1>3. \A n \in 1 .. l : Ranked(T, n) # {}
    BY <1>2, StartsRanked
  <1>4. \A n : Ranked(T, n) \subseteq T
    BY RankedIs
  <1>5. \A n \in 1 .. l : Only(Ranked(T, n)) \in T
    BY <1>3, <1>4, OnlyIs
  <1>6. \A k \in T : k \in 1 .. Len(s) /\ s[k] # c
    BY <1>2 DEF Starts
  <1>7. PICK Q : Q = Seq(A)
    OBVIOUS
  <1>8. \A k \in T : Stretch(s, c, k) \in Q
    BY <1>6, <1>7, StretchIs
  <1>9. StretchesAt(s, c, i) = [n \in 1 .. l |-> Stretch(s, c, Only(Ranked(T, n)))]
    BY <1>2 DEF StretchesAt
  <1>10. \A n \in 1 .. l : Stretch(s, c, Only(Ranked(T, n))) \in Q
    BY <1>5, <1>8
  <1>11. StretchesAt(s, c, i) \in [1 .. l -> Q]
    BY <1>9, <1>10
  <1>12. StretchesAt(s, c, i) \in Seq(Q) /\ Len(StretchesAt(s, c, i)) = l
    BY <1>11
  <1>13. \A n \in 1 .. l : \E k \in T : StretchesAt(s, c, i)[n] = Stretch(s, c, k)
    BY <1>5, <1>9
  <1> QED BY <1>2, <1>7, <1>12, <1>13

\* One turn of the loop takes the first stretch off, or a delimiter.
LEMMA OneTurnOfSplit ==
    ASSUME NEW A, NEW s \in Seq(A), NEW c, NEW i \in 1 .. (Len(s) + 1),
           NEW e, e = First(s, c, i)
    PROVE  /\ e \in i .. (Len(s) + 1)
           /\ StretchesAt(s, c, i) = IF e = Len(s) + 1 THEN Part(s, i, e)
                                     ELSE Part(s, i, e) \o StretchesAt(s, c, e + 1)
  <1>1. e \in i .. (Len(s) + 1)
    BY FirstIs
  <1>2. PICK Q : Q = Seq(A)
    OBVIOUS
  <1>3. /\ e = i => Starts(s, c, i) = Starts(s, c, i + 1)
        /\ e # i => /\ Starts(s, c, i) = Starts(s, c, e + 1) \cup {i}
                    /\ \A k \in Starts(s, c, e + 1) : k > i
    BY StartsIs
  <1>4. PICK S, T : S = Starts(s, c, e + 1) /\ T = Starts(s, c, i)
    OBVIOUS
  <1>5. PICK X \in Seq(Q), Y \in Seq(Q) :
           /\ X = StretchesAt(s, c, i) /\ Y = StretchesAt(s, c, e + 1)
           /\ S = Starts(s, c, e + 1) /\ T = Starts(s, c, i)
           /\ Len(X) = Cardinality(T) /\ Len(Y) = Cardinality(S)
    <2>1. i \in 1 .. (Len(s) + 2) /\ e + 1 \in 1 .. (Len(s) + 2)
      BY <1>1
    <2> QED BY <1>4, <1>2, <2>1, StretchesTyped
  <1>6. <<>> \o Y = Y /\ \A st \in Q : <<st>> \in Seq(Q) /\ <<st>> \o <<>> = <<st>>
    <2>1. \A st \in Q : <<st>> \in Seq(Q)
      OBVIOUS
    <2> QED BY <2>1, ConcatEmptySeq
  <1>7. e = Len(s) + 1 => Y = <<>>
    <2>1. e = Len(s) + 1 => S = {}
      BY <1>5 DEF Starts
    <2>2. e = Len(s) + 1 => Len(Y) = 0
      BY <1>5, <2>1, FS_EmptySet
    <2> QED BY <2>2
  <1>8. CASE e = i
    <2>1. Part(s, i, e) = <<>>
      BY <1>8 DEF Part
    <2>2. Part(s, i, e) = <<>> /\ T = S
      <3>1. T = Starts(s, c, i + 1)
        BY <1>5, <1>8, <1>3
      <3>2. e + 1 = i + 1
        BY <1>8
      <3> QED BY <1>5, <2>1, <3>1, <3>2, Zenon
    <2>3. X = Y
      BY <1>5, <2>2, Zenon DEF StretchesAt
    <2> QED BY <1>1, <1>5, <1>6, <1>7, <2>2, <2>3
  <1>9. CASE e # i
    <2>1. T = S \cup {i} /\ \A k \in S : k > i
      BY <1>5, <1>9, <1>3
    <2>2. S \in SUBSET Nat /\ IsFiniteSet(S) /\ i \in Nat
      <3>1. e + 1 \in 1 .. (Len(s) + 2)
        BY <1>1
      <3> QED BY <1>5, <3>1, StartsRanked
    <2>3. AddsFirst(S, i, T)
      BY <2>1, <2>2, RankedAdd
    <2>4. /\ Len(Y) \in Nat /\ Len(X) = Len(Y) + 1
          /\ Ranked(T, 1) = {i}
          /\ \A n \in Nat : n > 1 => Ranked(T, n) = Ranked(S, n - 1)
      BY <1>5, <2>3 DEF AddsFirst
    <2>5. PICK st \in Q : st = Stretch(s, c, i)
      <3>1. i \in 1 .. Len(s) /\ s[i] # c
        BY <1>1, <1>9, FirstIs
      <3> QED BY <1>2, <3>1, StretchIs
    <2>6. Part(s, i, e) = <<st>>
      BY <1>9, <2>5 DEF Part, Stretch
    <2>7. \A n \in 1 .. Len(X) : X[n] = Stretch(s, c, Only(Ranked(T, n)))
      BY <1>5 DEF StretchesAt
    <2>8. \A n \in 1 .. Len(Y) : Y[n] = Stretch(s, c, Only(Ranked(S, n)))
      BY <1>5 DEF StretchesAt
    <2>9. PICK Z \in Seq(Q) : Z = <<st>> \o Y
      <3>1. <<st>> \o Y \in Seq(Q)
        BY <1>6, ConcatProperties
      <3> QED BY <3>1
    <2>10. Len(Z) = Len(Y) + 1 /\ Z[1] = st /\ \A n \in 2 .. (Len(Y) + 1) : Z[n] = Y[n - 1]
      BY <2>9
    <2>11. ASSUME NEW n \in 1 .. Len(X)
           PROVE  X[n] = Z[n]
      <3>1. CASE n = 1
        BY <2>4, <2>5, <2>7, <2>10, <3>1, OnlyIs
      <3>2. CASE n # 1
        <4>1. n - 1 \in 1 .. Len(Y) /\ n \in 2 .. (Len(Y) + 1) /\ n \in Nat /\ n > 1
          BY <2>4, <3>2
        <4>2. X[n] = Stretch(s, c, Only(Ranked(S, n - 1)))
          BY <2>4, <2>7, <4>1
        <4> QED BY <2>8, <2>10, <4>1, <4>2
      <3> QED BY <3>1, <3>2
    <2>12. X = Z
      BY <2>4, <2>10, <2>11, SeqEqual
    <2> QED BY <1>1, <1>5, <1>6, <1>7, <2>5, <2>6, <2>9, <2>12
  <1> QED BY <1>8, <1>9

\* The recursion has one solution.
LEMMA SplitsOnce ==
    ASSUME NEW A, NEW s \in Seq(A), NEW c, NEW f
    PROVE  Splits(f, s, c) <=> f = [i \in 1 .. (Len(s) + 1) |-> StretchesAt(s, c, i)]
  <1>1. PICK l \in Nat : l = Len(s)
    OBVIOUS
  <1> DEFINE e(i) == First(s, c, i)
  <1>2. \A i \in 1 .. (l + 1) :
           /\ e(i) \in i .. (l + 1)
           /\ StretchesAt(s, c, i) = IF e(i) = l + 1 THEN Part(s, i, e(i))
                                     ELSE Part(s, i, e(i)) \o StretchesAt(s, c, e(i) + 1)
    BY <1>1, OneTurnOfSplit
  <1>3. Splits(f, s, c) <=> f = [i \in 1 .. (l + 1) |->
                                   IF e(i) = l + 1 THEN Part(s, i, e(i))
                                   ELSE Part(s, i, e(i)) \o f[e(i) + 1]]
    BY <1>1 DEF Splits
  <1> HIDE DEF e
  <1>4. ASSUME f = [i \in 1 .. (l + 1) |-> StretchesAt(s, c, i)]
        PROVE  Splits(f, s, c)
    <2>1. ASSUME NEW i \in 1 .. (l + 1)
          PROVE  f[i] = IF e(i) = l + 1 THEN Part(s, i, e(i))
                        ELSE Part(s, i, e(i)) \o f[e(i) + 1]
      <3>1. f[i] = StretchesAt(s, c, i)
        BY <1>4
      <3>2. e(i) # l + 1 => e(i) + 1 \in 1 .. (l + 1)
        BY <1>2
      <3>3. e(i) # l + 1 => f[e(i) + 1] = StretchesAt(s, c, e(i) + 1)
        BY <1>4, <3>2
      <3> QED BY <1>2, <3>1, <3>3
    <2>2. f = [i \in 1 .. (l + 1) |-> f[i]]
      BY <1>4
    <2> QED BY <1>3, <2>1, <2>2
  <1>5. ASSUME Splits(f, s, c)
        PROVE  f = [i \in 1 .. (l + 1) |-> StretchesAt(s, c, i)]
    <2>1. f = [i \in 1 .. (l + 1) |-> IF e(i) = l + 1 THEN Part(s, i, e(i))
                                      ELSE Part(s, i, e(i)) \o f[e(i) + 1]]
      BY <1>3, <1>5
    <2>2. \A i \in 1 .. (l + 1) : f[i] = IF e(i) = l + 1 THEN Part(s, i, e(i))
                                         ELSE Part(s, i, e(i)) \o f[e(i) + 1]
      BY <2>1
    <2>3. ASSUME NEW i \in 1 .. (l + 1), f[i] # StretchesAt(s, c, i)
          PROVE  FALSE
      <3>1. PICK B : B = {d \in Nat : d <= l /\ f[l + 1 - d] # StretchesAt(s, c, l + 1 - d)}
        OBVIOUS
      <3>2. B \in SUBSET Nat /\ l + 1 - i \in B
        <4>1. l + 1 - (l + 1 - i) = i /\ l + 1 - i \in Nat /\ l + 1 - i <= l
          OBVIOUS
        <4> QED BY <2>3, <3>1, <4>1
      <3>3. PICK d \in B : \A b \in B : d <= b
        BY <3>2, Least
      <3>4. PICK k : k = l + 1 - d
        OBVIOUS
      <3>5. d \in Nat /\ d <= l /\ f[k] # StretchesAt(s, c, k)
        BY <3>1, <3>3, <3>4
      <3>6. k \in 1 .. (l + 1)
        BY <3>4, <3>5
      <3>7. PICK j : j = e(k) + 1
        OBVIOUS
      <3>8. e(k) # l + 1 => f[j] = StretchesAt(s, c, j)
        <4> SUFFICES ASSUME e(k) # l + 1 PROVE f[j] = StretchesAt(s, c, j)
          OBVIOUS
        <4>1. j \in (k + 1) .. (l + 1)
          BY <1>2, <3>6, <3>7
        <4>2. l + 1 - j \in Nat /\ l + 1 - j < d /\ l + 1 - (l + 1 - j) = j
          BY <3>4, <3>5, <4>1
        <4>3. ~(l + 1 - j \in B)
          BY <3>3, <3>5, <4>2
        <4> QED BY <3>1, <3>5, <4>2, <4>3
      <3>9. f[k] = StretchesAt(s, c, k)
        BY <1>2, <2>2, <3>6, <3>7, <3>8
      <3> QED BY <3>5, <3>9
    <2> QED BY <2>1, <2>3
  <1> QED BY <1>1, <1>4, <1>5

\* SpliteString finds the stretches.
LEMMA SplitFindsStretches ==
    ASSUME NEW A, NEW s \in Seq(A), NEW c
    PROVE  SpliteString(s, c) = Stretches(s, c)
  <1>1. PICK g : g = [i \in 1 .. (Len(s) + 1) |-> StretchesAt(s, c, i)]
    OBVIOUS
  <1>2. \A f : Splits(f, s, c) <=> f = g
    BY <1>1, SplitsOnce
  <1>3. (CHOOSE f : Splits(f, s, c)) = g
    BY <1>2
  <1>4. g[1] = StretchesAt(s, c, 1)
    BY <1>1
  <1> QED BY <1>3, <1>4, SpliteIs, StretchesIs

\* Every stretch is a string, and not the empty one.
LEMMA ItemsOf ==
    ASSUME NEW A, NEW s \in Seq(A), NEW c
    PROVE  \A item \in ToSet(Stretches(s, c)) : item \in Seq(A) /\ Len(item) > 0
  <1>1. PICK X : X = StretchesAt(s, c, 1)
    OBVIOUS
  <1>2. PICK T : T = Starts(s, c, 1)
    OBVIOUS
  <1>3. PICK Q : Q = Seq(A)
    OBVIOUS
  <1>4. X \in Seq(Q) /\ Len(X) = Cardinality(T)
    BY <1>1, <1>2, <1>3, StretchesTyped
  <1>5. DOMAIN X = 1 .. Cardinality(T)
    BY <1>4
  <1>6. ASSUME NEW n \in 1 .. Cardinality(T)
        PROVE  \E k \in T : X[n] = Stretch(s, c, k)
    <2>1. 1 \in 1 .. (Len(s) + 2)
      OBVIOUS
    <2>2. n \in 1 .. Cardinality(Starts(s, c, 1))
      BY <1>2
    <2>3. \E k \in Starts(s, c, 1) : StretchesAt(s, c, 1)[n] = Stretch(s, c, k)
      BY <2>1, <2>2, StretchesTyped
    <2> QED BY <1>1, <1>2, <2>3, Zenon
  <1>7. \A k \in T : k \in 1 .. Len(s) /\ s[k] # c
    BY <1>2 DEF Starts
  <1>8. \A k \in T : Stretch(s, c, k) \in Seq(A) /\ Len(Stretch(s, c, k)) > 0
    BY <1>7, StretchIs
  <1>9. Stretches(s, c) = X
    BY <1>1, StretchesIs
  <1>10. ToSet(X) = {X[n] : n \in DOMAIN X}
    BY DEF ToSet
  <1>11. ASSUME NEW n \in DOMAIN X
         PROVE  X[n] \in Seq(A) /\ Len(X[n]) > 0
    BY <1>5, <1>6, <1>8
  <1> QED BY <1>9, <1>10, <1>11

\* A string has no stretches when it has nothing but delimiters.
LEMMA NoStretches ==
    ASSUME NEW A, NEW s \in Seq(A), NEW c
    PROVE  Stretches(s, c) = <<>> <=> \A k \in 1 .. Len(s) : s[k] = c
  <1>1. PICK T : T = Starts(s, c, 1)
    OBVIOUS
  <1>2. T \in SUBSET (1 .. Len(s)) /\ IsFiniteSet(T)
    <2>1. 1 \in 1 .. (Len(s) + 2)
      OBVIOUS
    <2>2. IsFiniteSet(T)
      BY <1>1, <2>1, StartsRanked
    <2> QED BY <1>1, <2>2 DEF Starts
  <1>3. PICK X : X = Stretches(s, c)
    OBVIOUS
  <1>4. X = <<>> <=> T = {}
    <2>1. PICK Q : Q = Seq(A)
      OBVIOUS
    <2>2. 1 \in 1 .. (Len(s) + 2)
      OBVIOUS
    <2>3. X \in Seq(Q) /\ Len(X) = Cardinality(T)
      BY <1>1, <1>3, <2>1, <2>2, StretchesIs, StretchesTyped
    <2>4. X = <<>> <=> Len(X) = 0
      BY <2>3
    <2>5. Cardinality(T) = 0 <=> T = {}
      BY <1>2, FS_EmptySet
    <2> QED BY <2>3, <2>4, <2>5
  <1>5. ASSUME \A k \in 1 .. Len(s) : s[k] = c
        PROVE  T = {}
    BY <1>1, <1>5 DEF Starts
  <1>6. ASSUME NEW k \in 1 .. Len(s), s[k] # c
        PROVE  T # {}
    <2>1. PICK B : B = {j \in 1 .. Len(s) : s[j] # c}
      OBVIOUS
    <2>2. B \in SUBSET Nat /\ B # {}
      BY <1>6, <2>1
    <2>3. PICK j \in B : \A b \in B : j <= b
      BY <2>2, Least
    <2>4. j \in 1 .. Len(s) /\ s[j] # c /\ (j = 1 \/ s[j - 1] = c)
      BY <2>1, <2>3
    <2>5. j \in T
      BY <1>1, <2>4 DEF Starts
    <2> QED BY <2>5
  <1> QED BY <1>3, <1>4, <1>5, <1>6

LEMMA SplitHolds ==
    ASSUME NEW A, NEW s \in Seq(A)
    PROVE  SplitIsStretches(s) /\ OnlyEqualSigns(s)
  <1>1. \A t \in Seq(A) : \A c : SpliteString(t, c) = Stretches(t, c)
    BY SplitFindsStretches
  <1>2. SplitIsStretches(s)
    BY <1>1 DEF SplitIsStretches
  <1>3. PICK items : items = ToSet(Stretches(s, "&"))
    OBVIOUS
  <1>4. \A item \in items : item \in Seq(A) /\ Len(item) > 0
    BY <1>3, ItemsOf
  <1>5. Undefined(s) <=> \E item \in items : SpliteString(item, "=") = <<>>
    BY <1>1, <1>3 DEF Undefined
  <1>6. ASSUME NEW item \in items
        PROVE  SpliteString(item, "=") = <<>> <=> ToSet(item) = {"="}
    <2>1. item \in Seq(A) /\ Len(item) > 0 /\ DOMAIN item = 1 .. Len(item)
      BY <1>4
    <2>2. SpliteString(item, "=") = <<>> <=> \A k \in 1 .. Len(item) : item[k] = "="
      BY <1>1, <2>1, NoStretches
    <2>3. ToSet(item) = {item[k] : k \in 1 .. Len(item)}
      BY <2>1 DEF ToSet
    <2>4. 1 \in 1 .. Len(item)
      BY <2>1
    <2>5. {item[k] : k \in 1 .. Len(item)} = {"="} <=> \A k \in 1 .. Len(item) : item[k] = "="
      BY <2>4
    <2> QED BY <2>2, <2>3, <2>5
  <1> QED BY <1>2, <1>3, <1>5, <1>6 DEF OnlyEqualSigns

(***************************************************************************)
(* CommonFunc::SpliteString cuts a string of any length over any characters *)
(* into exactly its longest stretches without the delimiter, first to last, *)
(* and HttpParameter::ParseStringToMap steps over the end of an empty vector *)
(* just when an item has nothing but equal signs.                           *)
(***************************************************************************)
THEOREM ParametersSplit ==
    /\ \A A : \A s \in Seq(A) : SplitIsStretches(s) /\ OnlyEqualSigns(s)
    /\ ArgumentSpec => []SplitChecked
  <1>1. \A A : \A s \in Seq(A) : SplitIsStretches(s) /\ OnlyEqualSigns(s)
    BY SplitHolds
  <1>2. Argument => SplitChecked
    BY <1>1 DEF Argument, SplitChecked
  <1> QED BY <1>1, <1>2, ArgumentsInv, PTL

-----------------------------------------------------------------------------
(* CheckHeader.                                                             *)

\* A number at most one turn away from a word is that word modulo WORD.
LEMMA OneTurn ==
    ASSUME NEW w \in Words, NEW x \in Int, x \in {w - WORD, w, w + WORD}
    PROVE  x % WORD = w
  BY CheckAssumption DEF Words

\* What is taken modulo WORD is a word.
LEMMA ModIsWord == \A x \in Int : x % WORD \in Words
  BY CheckAssumption DEF Words

\* What hides the number is a word.
LEMMA KeyIsWord == \A h \in PacketHeader : Key(h) \in Words /\ h.dwPacketNo \in Words
<1>1. \A h \in PacketHeader : h.dwMsgID \in IDs /\ h.dwSize \in SIZEs /\ h.dwPacketNo \in Words
  BY DEF PacketHeader
<1> QED
  BY <1>1, CheckAssumption DEF Key, Words

\* A sum of two words is a word, or a word and one turn.
LEMMA SumOfWords ==
    ASSUME NEW a \in Words, NEW b \in Words
    PROVE  (a + b) % WORD \in {a + b, a + b - WORD}
<1>1. WORD \in Nat /\ a \in 0 .. (WORD - 1) /\ b \in 0 .. (WORD - 1)
  BY CheckAssumption DEF Words
<1>2. CASE a + b < WORD
  BY <1>1, <1>2, OneTurn DEF Words
<1>3. CASE a + b >= WORD
  <2>1. a + b - WORD \in Words
    BY <1>1, <1>3 DEF Words
  <2> QED
    BY <1>1, <2>1, OneTurn
<1> QED
  BY <1>1, <1>2, <1>3

\* Taking the number out of the header gives the number that was put in.
LEMMA NumberComesBack ==
    ASSUME NEW a \in Words, NEW b \in Words
    PROVE  (((a + b) % WORD) - a + 1) % WORD = (b + 1) % WORD
<1>1. WORD \in Nat /\ a \in 0 .. (WORD - 1) /\ b \in 0 .. (WORD - 1) /\ WORD > 1
  BY CheckAssumption DEF Words
<1>2. PICK s \in Int : s = (a + b) % WORD /\ s \in {a + b, a + b - WORD}
  BY <1>1, SumOfWords
<1>3. s - a + 1 \in {b + 1, b + 1 - WORD}
  BY <1>1, <1>2
<1>4. PICK w \in Words : w = (b + 1) % WORD /\ w \in {b + 1, b + 1 - WORD}
  <2>1. 1 \in Words
    BY <1>1 DEF Words
  <2>2. (b + 1) % WORD \in {b + 1, b + 1 - WORD}
    BY <2>1, SumOfWords
  <2>3. (b + 1) % WORD \in Words
    BY <1>1, ModIsWord
  <2> QED
    BY <2>2, <2>3
<1>5. s - a + 1 \in {w - WORD, w, w + WORD} \/ s - a + 1 = w - WORD - WORD
  BY <1>1, <1>3, <1>4 DEF Words
<1>6. s - a + 1 # w - WORD - WORD
  BY <1>1, <1>3, <1>4 DEF Words
<1> QED
  BY <1>1, <1>2, <1>4, <1>5, <1>6, OneTurn

\* Two numbers that hide behind the same key are the same.
LEMMA SameNumber ==
    ASSUME NEW k \in Words, NEW a \in Words, NEW b \in Words, (k + a) % WORD = (k + b) % WORD
    PROVE  a = b
<1>1. WORD \in Nat /\ k \in 0 .. (WORD - 1) /\ a \in 0 .. (WORD - 1) /\ b \in 0 .. (WORD - 1)
  BY CheckAssumption DEF Words
<1>2. PICK s \in Int : s = (k + a) % WORD /\ s \in {k + a, k + a - WORD}
  BY <1>1, SumOfWords
<1>3. s \in {k + b, k + b - WORD}
  BY <1>2, SumOfWords
<1> QED
  BY <1>1, <1>2, <1>3

(***************************************************************************)
(* As long as nobody else has moved the counter, it is 0 or the number of   *)
(* the client's next packet, which is why none is refused.                  *)
(***************************************************************************)
InStep(p) == disturbed[p] \/ (~refused[p] /\ m_nCheckNo \in {0, index[p]})

CheckTypes ==
    /\ m_nCheckNo \in Words
    /\ index \in [Peers -> Words]
    /\ refused \in [Peers -> BOOLEAN]
    /\ disturbed \in [Peers -> BOOLEAN]

Synchronised == CheckTypes /\ \A p \in Peers : InStep(p)

\* The counter stays a word, whatever comes.
LEMMA CounterIsWord ==
    ASSUME m_nCheckNo \in Words, NEW h \in PacketHeader, CheckHeader(h)
    PROVE  m_nCheckNo' \in Words
<1>1. m_nCheckNo' \in {m_nCheckNo, Resync(h), (m_nCheckNo + 1) % WORD}
  BY DEF CheckHeader
<1>2. h.dwPacketNo - Key(h) + 1 \in Int /\ m_nCheckNo + 1 \in Int
  BY KeyIsWord, CheckAssumption DEF Words
<1> QED
  BY <1>1, <1>2, ModIsWord DEF Resync

\* The types, whatever comes.
LEMMA CheckTypesKept ==
    ASSUME CheckTypes, NEW p \in Peers, NEW h \in PacketHeader, SendNext(p, h) \/ SendOther(p, h)
    PROVE  CheckTypes'
<1>1. m_nCheckNo' \in Words
  BY CounterIsWord DEF CheckTypes, SendNext, SendOther
<1>2. index[p] \in Words /\ (index[p] + 1) % WORD \in Words
  BY ModIsWord, CheckAssumption DEF CheckTypes, Words
<1>3. index' \in [Peers -> Words]
  BY <1>2 DEF CheckTypes, SendNext, SendOther
<1>4. refused' \in [Peers -> BOOLEAN]
  <2>1. Accepted(h) \in BOOLEAN
    BY DEF Accepted, Allowed, Expected
  <2> QED
    BY <2>1 DEF CheckTypes, SendNext, SendOther
<1>5. disturbed' \in [Peers -> BOOLEAN]
  BY DEF CheckTypes, SendNext, SendOther
<1> QED
  BY <1>1, <1>3, <1>4, <1>5 DEF CheckTypes

\* The client's next packet, if it is accepted, takes the counter with it and
\* away from the others.
LEMMA SendNextStep ==
    ASSUME Synchronised, NEW p \in Peers, NEW h \in PacketHeader, SendNext(p, h)
    PROVE  Synchronised'
<1>1. CheckTypes'
  BY CheckTypesKept DEF Synchronised
<1>2. Key(h) \in Words /\ index[p] \in Words /\ m_nCheckNo \in Words
  BY KeyIsWord DEF Synchronised, CheckTypes
<1>3. index'[p] = (index[p] + 1) % WORD /\ refused'[p] = ~Accepted(h)
  BY DEF Synchronised, CheckTypes, SendNext
<1>4. \A q \in Peers \ {p} : index'[q] = index[q] /\ refused'[q] = refused[q]
  BY DEF Synchronised, CheckTypes, SendNext
<1>5. CASE Accepted(h)
  <2>1. \A q \in Peers : disturbed'[q] = (q # p)
    BY <1>5 DEF SendNext
  <2>2. m_nCheckNo' = index'[p]
    <3>1. CASE m_nCheckNo = 0
      <4>1. m_nCheckNo' = (((Key(h) + index[p]) % WORD) - Key(h) + 1) % WORD
        BY <1>5, <3>1 DEF SendNext, CheckHeader, Resync
      <4> QED
        BY <1>2, <1>3, <4>1, NumberComesBack
    <3>2. CASE m_nCheckNo # 0
      <4>1. (Key(h) + index[p]) % WORD = (Key(h) + m_nCheckNo) % WORD
        BY <1>5, <3>2 DEF SendNext, Accepted, Expected
      <4>2. index[p] = m_nCheckNo
        BY <1>2, <4>1, SameNumber
      <4> QED
        BY <1>3, <1>5, <3>2, <4>2 DEF SendNext, CheckHeader
    <3> QED
      BY <3>1, <3>2
  <2>3. \A q \in Peers : InStep(q)'
    BY <1>3, <1>5, <2>1, <2>2 DEF InStep
  <2> QED
    BY <1>1, <2>3 DEF Synchronised
<1>6. CASE ~Accepted(h)
  <2>1. m_nCheckNo' = m_nCheckNo /\ disturbed' = disturbed
    BY <1>6 DEF SendNext, CheckHeader
  <2>2. disturbed[p]
    <3>1. m_nCheckNo # 0 /\ m_nCheckNo # index[p]
      BY <1>6 DEF SendNext, Accepted, Expected
    <3> QED
      BY <3>1 DEF Synchronised, InStep
  <2>3. \A q \in Peers : InStep(q)'
    BY <1>4, <2>1, <2>2 DEF Synchronised, InStep
  <2> QED
    BY <1>1, <2>3 DEF Synchronised
<1> QED
  BY <1>5, <1>6

\* Another packet is refused, or disturbs the others; its own client only while
\* the counter is 0 or somebody else has moved it.
LEMMA SendOtherStep ==
    ASSUME Synchronised, NEW p \in Peers, NEW h \in PacketHeader, SendOther(p, h)
    PROVE  Synchronised'
<1>1. CheckTypes'
  BY CheckTypesKept DEF Synchronised
<1>2. index' = index /\ refused' = refused
  BY DEF SendOther
<1>3. CASE ~Accepted(h)
  <2>1. m_nCheckNo' = m_nCheckNo /\ disturbed' = disturbed
    BY <1>3 DEF SendOther, CheckHeader
  <2> QED
    BY <1>1, <1>2, <2>1 DEF Synchronised, InStep
<1>4. CASE Accepted(h)
  <2>1. \A q \in Peers : disturbed'[q] = (disturbed[q] \/ q # p \/ m_nCheckNo = 0)
    BY <1>4 DEF SendOther
  <2>2. m_nCheckNo = 0 \/ m_nCheckNo # index[p]
    BY <1>4 DEF SendOther, Accepted, Expected
  <2>3. disturbed'[p]
    BY <2>1, <2>2 DEF Synchronised, InStep
  <2>4. \A q \in Peers : InStep(q)'
    BY <2>1, <2>3 DEF InStep
  <2> QED
    BY <1>1, <2>4 DEF Synchronised
<1> QED
  BY <1>3, <1>4

(***************************************************************************)
(* For any number of clients that share the counter, and for 32 bits as for *)
(* any other width of it, CheckHeader refuses a packet sent in order only   *)
(* after it has accepted another client's, or one out of order at 0.        *)
(***************************************************************************)
THEOREM NumberedPacketsAccepted == Spec => []NumberedAccepted
<1>1. Init => Synchronised
  <2>1. 0 \in Words
    BY CheckAssumption DEF Words
  <2> QED
    BY <2>1 DEF Init, Synchronised, CheckTypes, InStep
<1>2. Synchronised /\ [Next]_vars => Synchronised'
  <2> SUFFICES ASSUME Synchronised, [Next]_vars
               PROVE  Synchronised'
    OBVIOUS
  <2>1. ASSUME NEW p \in Peers, NEW h \in PacketHeader, SendNext(p, h) \/ SendOther(p, h)
        PROVE  Synchronised'
    BY <2>1, SendNextStep, SendOtherStep
  <2>2. CASE UNCHANGED vars
    BY <2>2 DEF Synchronised, CheckTypes, InStep, vars
  <2> QED
    BY <2>1, <2>2 DEF Next
<1>3. Synchronised => NumberedAccepted
  BY DEF Synchronised, InStep, NumberedAccepted
<1> QED
  BY <1>1, <1>2, <1>3, PTL DEF Spec
=============================================================================
