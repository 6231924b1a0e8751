----------------------------- MODULE AesCipher -----------------------------
(***************************************************************************)
(* kokke_aes.c as it is compiled here: AES with a key of 128 bits, one     *)
(* block at a time.  A block is a sequence of 16 bytes, column after       *)
(* column, like the state_t laid over the buffer.                          *)
(***************************************************************************)
EXTENDS Integers, Sequences, SequencesExt

Byte == 0 .. 255
Nk == 4
Nr == 10

\* Exclusive or of two bytes, tabulated once.
XorTable ==
  [a \in Byte |-> [b \in Byte |->
      (IF a % 2 = b % 2 THEN 0 ELSE 1)
    + (IF (a \div 2) % 2 = (b \div 2) % 2 THEN 0 ELSE 2)
    + (IF (a \div 4) % 2 = (b \div 4) % 2 THEN 0 ELSE 4)
    + (IF (a \div 8) % 2 = (b \div 8) % 2 THEN 0 ELSE 8)
    + (IF (a \div 16) % 2 = (b \div 16) % 2 THEN 0 ELSE 16)
    + (IF (a \div 32) % 2 = (b \div 32) % 2 THEN 0 ELSE 32)
    + (IF (a \div 64) % 2 = (b \div 64) % 2 THEN 0 ELSE 64)
    + (IF a \div 128 = b \div 128 THEN 0 ELSE 128)]]
XorByte(a, b) == XorTable[a][b]

sbox == <<
    99, 124, 119, 123, 242, 107, 111, 197, 48, 1, 103, 43, 254, 215, 171, 118, 202, 130, 201, 125,
    250, 89, 71, 240, 173, 212, 162, 175, 156, 164, 114, 192, 183, 253, 147, 38, 54, 63, 247, 204,
    52, 165, 229, 241, 113, 216, 49, 21, 4, 199, 35, 195, 24, 150, 5, 154, 7, 18, 128, 226,
    235, 39, 178, 117, 9, 131, 44, 26, 27, 110, 90, 160, 82, 59, 214, 179, 41, 227, 47, 132,
    83, 209, 0, 237, 32, 252, 177, 91, 106, 203, 190, 57, 74, 76, 88, 207, 208, 239, 170, 251,
    67, 77, 51, 133, 69, 249, 2, 127, 80, 60, 159, 168, 81, 163, 64, 143, 146, 157, 56, 245,
    188, 182, 218, 33, 16, 255, 243, 210, 205, 12, 19, 236, 95, 151, 68, 23, 196, 167, 126, 61,
    100, 93, 25, 115, 96, 129, 79, 220, 34, 42, 144, 136, 70, 238, 184, 20, 222, 94, 11, 219,
    224, 50, 58, 10, 73, 6, 36, 92, 194, 211, 172, 98, 145, 149, 228, 121, 231, 200, 55, 109,
    141, 213, 78, 169, 108, 86, 244, 234, 101, 122, 174, 8, 186, 120, 37, 46, 28, 166, 180, 198,
    232, 221, 116, 31, 75, 189, 139, 138, 112, 62, 181, 102, 72, 3, 246, 14, 97, 53, 87, 185,
    134, 193, 29, 158, 225, 248, 152, 17, 105, 217, 142, 148, 155, 30, 135, 233, 206, 85, 40, 223,
    140, 161, 137, 13, 191, 230, 66, 104, 65, 153, 45, 15, 176, 84, 187, 22 >>

rsbox == <<
    82, 9, 106, 213, 48, 54, 165, 56, 191, 64, 163, 158, 129, 243, 215, 251, 124, 227, 57, 130,
    155, 47, 255, 135, 52, 142, 67, 68, 196, 222, 233, 203, 84, 123, 148, 50, 166, 194, 35, 61,
    238, 76, 149, 11, 66, 250, 195, 78, 8, 46, 161, 102, 40, 217, 36, 178, 118, 91, 162, 73,
    109, 139, 209, 37, 114, 248, 246, 100, 134, 104, 152, 22, 212, 164, 92, 204, 93, 101, 182, 146,
    108, 112, 72, 80, 253, 237, 185, 218, 94, 21, 70, 87, 167, 141, 157, 132, 144, 216, 171, 0,
    140, 188, 211, 10, 247, 228, 88, 5, 184, 179, 69, 6, 208, 44, 30, 143, 202, 63, 15, 2,
    193, 175, 189, 3, 1, 19, 138, 107, 58, 145, 17, 65, 79, 103, 220, 234, 151, 242, 207, 206,
    240, 180, 230, 115, 150, 172, 116, 34, 231, 173, 53, 133, 226, 249, 55, 232, 28, 117, 223, 110,
    71, 241, 26, 113, 29, 41, 197, 137, 111, 183, 98, 14, 170, 24, 190, 27, 252, 86, 62, 75,
    198, 210, 121, 32, 154, 219, 192, 254, 120, 205, 90, 244, 31, 221, 168, 51, 136, 7, 199, 49,
    177, 18, 16, 89, 39, 128, 236, 95, 96, 81, 127, 169, 25, 181, 74, 13, 45, 229, 122, 159,
    147, 201, 156, 239, 160, 224, 59, 77, 174, 42, 245, 176, 200, 235, 187, 60, 131, 83, 153, 97,
    23, 43, 4, 126, 186, 119, 214, 38, 225, 105, 20, 99, 85, 33, 12, 125 >>

Rcon == <<141, 1, 2, 4, 8, 16, 32, 64, 128, 27, 54>>

getSBoxValue(num)  == sbox[num + 1]
getSBoxInvert(num) == rsbox[num + 1]

\* A block, and a word, from what each of its bytes is.  (Tuples, which TLC computes once.)
Block(at) == <<at[1], at[2], at[3], at[4], at[5], at[6], at[7], at[8],
               at[9], at[10], at[11], at[12], at[13], at[14], at[15], at[16]>>
Word(at)  == <<at[1], at[2], at[3], at[4]>>

Column(i) == (i - 1) \div 4
Row(i)    == (i - 1) % 4

\* RotWord, SubWord and the round constant, for the first word of a round.
FirstOfRound(word, round) ==
  LET sub == Word([j \in 1 .. 4 |-> getSBoxValue(word[(j % 4) + 1])])
  IN  [sub EXCEPT ![1] = XorByte(@, Rcon[round + 1])]

XorWords(a, b) == Word([j \in 1 .. 4 |-> XorByte(a[j], b[j])])

\* The words of a round key from those of the round before: the first from the last one
\* before it, and each of the others from its predecessor.
NextRoundKey(rk, round) ==
  LET w0 == XorWords(rk[1], FirstOfRound(rk[Nk], round))
      w1 == XorWords(rk[2], w0)
      w2 == XorWords(rk[3], w1)
  IN  <<w0, w1, w2, XorWords(rk[4], w2)>>

\* Variant: the round constants start one too early.
KeyExpansionEarly(key) ==
  FoldLeft(LAMBDA rks, round : Append(rks, NextRoundKey(Last(rks), round - 1)),
           <<Word([i \in 1 .. 4 |-> SubSeq(key, 4 * i - 3, 4 * i)])>>, [r \in 1 .. Nr |-> r])

\* The round keys: the key itself and Nr more.
KeyExpansion(key) ==
  FoldLeft(LAMBDA rks, round : Append(rks, NextRoundKey(Last(rks), round)),
           <<Word([i \in 1 .. 4 |-> SubSeq(key, 4 * i - 3, 4 * i)])>>, [r \in 1 .. Nr |-> r])

AddRoundKey(s, w, round) == Block([i \in 1 .. 16 |-> XorByte(s[i], w[round + 1][Column(i) + 1][Row(i) + 1])])

SubBytes(s)    == Block([i \in 1 .. 16 |-> getSBoxValue(s[i])])
InvSubBytes(s) == Block([i \in 1 .. 16 |-> getSBoxInvert(s[i])])

\* Row r moves r columns to the left, or back.
ShiftRows(s)    == Block([i \in 1 .. 16 |-> s[4 * ((Column(i) + Row(i)) % 4) + Row(i) + 1]])
InvShiftRows(s) == Block([i \in 1 .. 16 |-> s[4 * ((Column(i) - Row(i)) % 4) + Row(i) + 1]])

xtime(x) == XorByte((2 * x) % 256, IF x >= 128 THEN 27 ELSE 0)

MixColumns(s) ==
  Block([i \in 1 .. 16 |->
    LET At(r) == s[4 * Column(i) + (r % 4) + 1]
        Tmp   == XorByte(XorByte(At(0), At(1)), XorByte(At(2), At(3)))
    IN  XorByte(s[i], XorByte(xtime(XorByte(At(Row(i)), At(Row(i) + 1))), Tmp))])

\* The product in GF(2^8) with a y of five bits.
Multiply(x, y) ==
  LET x2 == xtime(x)
      x4 == xtime(x2)
      x8 == xtime(x4)
      Bit(n, v) == IF (y \div n) % 2 = 1 THEN v ELSE 0
  IN  XorByte(XorByte(Bit(1, x), Bit(2, x2)), XorByte(XorByte(Bit(4, x4), Bit(8, x8)), Bit(16, xtime(x8))))

InvMixColumns(s) ==
  Block([i \in 1 .. 16 |->
    LET At(k) == s[4 * Column(i) + ((Row(i) + k) % 4) + 1]
    IN  XorByte(XorByte(Multiply(At(0), 14), Multiply(At(1), 11)), XorByte(Multiply(At(2), 13), Multiply(At(3), 9)))])

Cipher(block, key) ==
  LET w == KeyExpansion(key)
      \* (TLC computes the state of a round when it is compared, and not all rounds at once.)
      Round(s, round) == IF s = <<>> THEN s ELSE AddRoundKey(MixColumns(ShiftRows(SubBytes(s))), w, round)
      last == FoldLeft(Round, AddRoundKey(block, w, 0), [r \in 1 .. Nr - 1 |-> r])
  IN  AddRoundKey(ShiftRows(SubBytes(last)), w, Nr)

InvCipher(block, key) ==
  LET w == KeyExpansion(key)
      Round(s, round) == IF s = <<>> THEN s ELSE InvMixColumns(AddRoundKey(InvSubBytes(InvShiftRows(s)), w, round))
      last == FoldLeft(Round, AddRoundKey(block, w, Nr), [r \in 1 .. Nr - 1 |-> Nr - r])
  IN  AddRoundKey(InvSubBytes(InvShiftRows(last)), w, 0)
=============================================================================
