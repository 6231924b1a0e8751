--------------------------- MODULE StreamIOProofs ---------------------------
(***************************************************************************)
(* Proofs about StreamIO: the bytes of the packets are laid out in order   *)
(* over the two ends and the connection, the buffers of the reader are     *)
(* returned, and every step of the loops is one of FrameChannel or none.   *)
(***************************************************************************)
EXTENDS StreamIO, SequenceTheorems, WellFoundedInduction, TLAPS

-----------------------------------------------------------------------------
(* Induction over the natural numbers, for the set of the numbers that a claim holds of. *)

\* A non-empty set of natural numbers has a least element.
LEMMA LeastNat ==
  ASSUME NEW T, T \subseteq Nat, T # {}
  PROVE  \E x \in T : \A y \in T : ~ (y < x)
<1>1. PICK x \in T : \A y \in T : ~ (<<y, x>> \in OpToRel(<, Nat))
  BY WFMin, NatLessThanWellFounded, Zenon
<1>2. \A y \in T : ~ (y < x)
  BY <1>1 DEF OpToRel
<1> QED
  BY <1>2

\* A set that holds 0 and with each number the next one holds every natural number.
LEMMA SetInduction ==
  ASSUME NEW P, 0 \in P, \A n \in Nat : n \in P => n + 1 \in P
  PROVE  \A n \in Nat : n \in P
<1> SUFFICES ASSUME NEW n \in Nat, n \notin P PROVE FALSE
  OBVIOUS
<1> DEFINE T == Nat \ P
<1>1. PICK x \in T : \A y \in T : ~ (y < x)
  BY LeastNat
<1>2. x \in Nat /\ x # 0 /\ x - 1 \in Nat /\ x - 1 < x
  BY <1>1
<1>3. x - 1 \in P
  BY <1>1, <1>2
<1>4. (x - 1) + 1 \in P
  BY <1>2, <1>3
<1> QED
  BY <1>2, <1>4

-----------------------------------------------------------------------------
(* Lengths and frames. *)

\* What division by the powers of 256 gives.
LEMMA Quotients ==
  ASSUME NEW n \in Nat, NEW p \in Nat, NEW q \in Nat, NEW r \in Nat,
         p = n \div 16777216, q = n \div 65536, r = n \div 256
  PROVE  /\ n - 256 * r \in 0 .. 255 /\ r - 256 * q \in 0 .. 255 /\ q - 256 * p \in 0 .. 255
<1>1. n >= 256 * r /\ n < 256 * r + 256
  BY SMT
<1>2. n >= 65536 * q /\ n < 65536 * q + 65536
  BY SMT
<1>3. n >= 16777216 * p /\ n < 16777216 * p + 16777216
  BY SMT
<1> QED
  BY <1>1, <1>2, <1>3, SMT

\* A length of 32 bits survives the way over the connection.
LEMMA NtohlHtonl ==
  ASSUME NEW n \in Nat, n \div 65536 < 65536
  PROVE  Ntohl(Htonl(n)) = n
<1>1. PICK p \in Nat, q \in Nat, r \in Nat : p = n \div 16777216 /\ q = n \div 65536 /\ r = n \div 256
  BY SMT
<1>2. /\ n - 256 * r \in 0 .. 255 /\ r - 256 * q \in 0 .. 255 /\ q - 256 * p \in 0 .. 255
  BY <1>1, Quotients
<1>x. PICK x \in 0 .. 255 : q - 256 * p = x
  BY <1>2
<1>y. PICK y \in 0 .. 255 : r - 256 * q = y
  BY <1>2
<1>z. PICK z \in 0 .. 255 : n - 256 * r = z
  BY <1>2
<1>3. n = 256 * r + z /\ r = 256 * q + y /\ q = 256 * p + x
  BY <1>x, <1>y, <1>z, SMT
<1>4. p \in 0 .. 255
  <2>1. q < 65536
    BY <1>1, SMT
  <2> QED
    BY <1>2, <2>1, SMT
<1>5. p % 256 = p /\ q % 256 = x /\ r % 256 = y /\ n % 256 = z
  <2>1. p % 256 = p
    BY <1>4, SMT
  <2>2. q % 256 = x
    BY <1>3, SMT
  <2>3. r % 256 = y
    BY <1>3, SMT
  <2>4. n % 256 = z
    BY <1>3, SMT
  <2> QED
    BY <2>1, <2>2, <2>3, <2>4
<1>6. Htonl(n) = <<p, x, y, z>>
  BY <1>1, <1>5, SMT DEF Htonl
<1>7. Ntohl(Htonl(n)) = p * 16777216 + x * 65536 + y * 256 + z
  BY <1>6, SMT DEF Ntohl
<1> QED
  BY <1>3, <1>7, SMT

\* Htonl makes four bytes.
LEMMA HtonlType ==
  ASSUME NEW n \in Nat
  PROVE  Htonl(n) \in Seq(Byte) /\ Len(Htonl(n)) = 4
<1>1. /\ (n \div 16777216) % 256 \in Byte /\ (n \div 65536) % 256 \in Byte
      /\ (n \div 256) % 256 \in Byte /\ n % 256 \in Byte
  BY SMT DEF Byte
<1> QED
  BY <1>1, SMT DEF Htonl

\* Every four bytes are the length that they are read as.
LEMMA HtonlNtohl ==
  ASSUME NEW b \in Seq(Byte), Len(b) = 4
  PROVE  Htonl(Ntohl(b)) = b /\ Ntohl(b) \in Nat /\ Ntohl(b) \div 65536 < 65536
<1>1. b[1] \in Byte /\ b[2] \in Byte /\ b[3] \in Byte /\ b[4] \in Byte
  <2>1. \A i \in 1 .. 4 : b[i] \in Byte
    BY ElementOfSeq, Zenon
  <2>2. 1 \in 1 .. 4 /\ 2 \in 1 .. 4 /\ 3 \in 1 .. 4 /\ 4 \in 1 .. 4
    BY SMT
  <2> QED
    BY <2>1, <2>2, Zenon
<1>2. PICK w \in Byte, x \in Byte, y \in Byte, z \in Byte : b = <<w, x, y, z>>
  <2>1. b = <<b[1], b[2], b[3], b[4]>>
    BY SMT
  <2> QED
    BY <1>1, <2>1, Zenon
<1> USE DEF Byte
<1>3. PICK n \in Nat : n = Ntohl(b) /\ n = w * 16777216 + x * 65536 + y * 256 + z
  BY <1>2, SMT DEF Ntohl
<1>4. PICK p \in Nat, q \in Nat, r \in Nat : p = n \div 16777216 /\ q = n \div 65536 /\ r = n \div 256
  BY SMT
<1>5. p = w /\ q = 256 * w + x /\ r = 65536 * w + 256 * x + y
  BY <1>3, <1>4, SMT
<1>6. p % 256 = w /\ q % 256 = x /\ r % 256 = y /\ n % 256 = z
  <2>1. p % 256 = w
    BY <1>5, SMT
  <2>2. q % 256 = x
    BY <1>5, SMT
  <2>3. r % 256 = y
    <3>1. r = 256 * q + y
      BY <1>5, SMT
    <3> QED
      BY <3>1, SMT
  <2>4. n % 256 = z
    <3>1. n = 256 * r + z
      BY <1>3, <1>5, SMT
    <3> QED
      BY <3>1, SMT
  <2> QED
    BY <2>1, <2>2, <2>3, <2>4
<1>7. Htonl(n) = b
  BY <1>2, <1>4, <1>6, SMT DEF Htonl
<1>8. n \div 65536 < 65536
  BY <1>4, <1>5, SMT
<1> QED
  BY <1>3, <1>7, <1>8

Fits(n) == n \div 65536 < 65536

\* The same for lengths that fit.
LEMMA FitsSurvive ==
  ASSUME NEW n \in Nat, Fits(n)
  PROVE  Ntohl(Htonl(n)) = n
BY NtohlHtonl DEF Fits

LEMMA FourAreSome ==
  ASSUME NEW b, Len(b) = 4
  PROVE  b # <<>>
OBVIOUS

\* Frame and Frames for a channel c.
Wrap(c, m) == IF c = "raw" THEN m ELSE Htonl(Len(m)) \o m
WrapAll(c, msgs) ==
  LET upTo[n \in 0 .. Len(msgs)] == IF n = 0 THEN <<>> ELSE upTo[n - 1] \o Wrap(c, msgs[n])
  IN upTo[Len(msgs)]

\* They are those of StreamIO.
LEMMA FramesAreWraps ==
  /\ \A m : Frame(m) = Wrap(chan, m)
  /\ \A msgs : Frames(msgs) = WrapAll(chan, msgs)
BY DEF Frame, Frames, Wrap, WrapAll

LEMMA WrapType ==
  ASSUME NEW c, NEW m \in Seq(Byte)
  PROVE  Wrap(c, m) \in Seq(Byte)
BY HtonlType DEF Wrap

\* f is what WrapAll computes, for the packets up to place n.
IsWrap(f, c, msgs, n) ==
  f = [i \in 0 .. n |-> IF i = 0 THEN <<>> ELSE f[i - 1] \o Wrap(c, msgs[i])]

\* The recursion of WrapAll has a solution.
LEMMA WrapExists ==
  ASSUME NEW c, NEW msgs
  PROVE  \A n \in Nat : \E f : IsWrap(f, c, msgs, n)
<1> DEFINE P == {n \in Nat : \E f : IsWrap(f, c, msgs, n)}
<1>1. 0 \in P
  <2>1. IsWrap([i \in 0 .. 0 |-> <<>>], c, msgs, 0)
    BY DEF IsWrap
  <2> QED
    BY <2>1
<1>2. ASSUME NEW n \in Nat, n \in P PROVE n + 1 \in P
  <2>1. PICK f : IsWrap(f, c, msgs, n)
    BY <1>2
  <2> DEFINE g == [i \in 0 .. n + 1 |-> IF i = n + 1 THEN f[n] \o Wrap(c, msgs[i]) ELSE f[i]]
  <2>2. ASSUME NEW i \in 0 .. n + 1 PROVE g[i] = IF i = 0 THEN <<>> ELSE g[i - 1] \o Wrap(c, msgs[i])
    <3>1. CASE i = n + 1
      <4>1. i # 0 /\ i - 1 = n /\ n \in 0 .. n + 1 /\ n # n + 1
        BY <3>1
      <4>2. g[i] = f[n] \o Wrap(c, msgs[i]) /\ g[n] = f[n]
        BY <3>1, <4>1
      <4> QED
        BY <4>1, <4>2
    <3>2. CASE i # n + 1
      <4>0. i \in 0 .. n
        BY <3>2
      <4>1. f[i] = IF i = 0 THEN <<>> ELSE f[i - 1] \o Wrap(c, msgs[i])
        BY <2>1, <4>0 DEF IsWrap
      <4>2. i # 0 => i - 1 \in 0 .. n + 1 /\ i - 1 # n + 1
        BY <4>0
      <4>3. g[i] = f[i] /\ (i # 0 => g[i - 1] = f[i - 1])
        BY <3>2, <4>2
      <4> QED
        BY <4>1, <4>3
    <3> QED
      BY <3>1, <3>2
  <2>3. IsWrap(g, c, msgs, n + 1)
    BY <2>2 DEF IsWrap
  <2> QED
    BY <2>3
<1> HIDE DEF P
<1>3. \A n \in Nat : n \in P
  BY <1>1, <1>2, SetInduction
<1> QED
  BY <1>3 DEF P

\* Solutions for packets that agree up to place n agree there.
LEMMA WrapUnique ==
  ASSUME NEW c, NEW msgs, NEW more, NEW n \in Nat, NEW k \in Nat, n <= k,
         \A i \in 1 .. n : msgs[i] = more[i],
         NEW f, NEW g, IsWrap(f, c, msgs, n), IsWrap(g, c, more, k)
  PROVE  f[n] = g[n]
<1> DEFINE P == {i \in Nat : i <= n => f[i] = g[i]}
<1>0. ASSUME NEW i \in 0 .. n
      PROVE  /\ f[i] = IF i = 0 THEN <<>> ELSE f[i - 1] \o Wrap(c, msgs[i])
             /\ g[i] = IF i = 0 THEN <<>> ELSE g[i - 1] \o Wrap(c, more[i])
  <2>1. i \in 0 .. k
    OBVIOUS
  <2> QED
    BY <2>1 DEF IsWrap
<1>1. 0 \in P
  BY <1>0
<1>2. ASSUME NEW i \in Nat, i \in P PROVE i + 1 \in P
  <2> SUFFICES ASSUME i + 1 <= n PROVE f[i + 1] = g[i + 1]
    OBVIOUS
  <2>1. f[i] = g[i]
    BY <1>2
  <2>2. i + 1 \in 0 .. n /\ i + 1 \in 1 .. n /\ i + 1 # 0 /\ (i + 1) - 1 = i
    OBVIOUS
  <2> QED
    BY <2>1, <2>2, <1>0
<1> HIDE DEF P
<1>3. \A i \in Nat : i \in P
  BY <1>1, <1>2, SetInduction
<1> QED
  BY <1>3 DEF P

\* WrapAll is the last value of its recursion.
LEMMA WrapAllValue ==
  ASSUME NEW c, NEW msgs, Len(msgs) \in Nat
  PROVE  \E f : IsWrap(f, c, msgs, Len(msgs)) /\ WrapAll(c, msgs) = f[Len(msgs)]
<1> DEFINE F == CHOOSE f : IsWrap(f, c, msgs, Len(msgs))
<1>1. IsWrap(F, c, msgs, Len(msgs))
  BY WrapExists
<1>2. WrapAll(c, msgs) = F[Len(msgs)]
  BY DEF WrapAll, IsWrap
<1> QED
  BY <1>1, <1>2

LEMMA WrapAllEmpty ==
  ASSUME NEW c
  PROVE  WrapAll(c, <<>>) = <<>>
<1>1. PICK f : IsWrap(f, c, <<>>, Len(<<>>)) /\ WrapAll(c, <<>>) = f[Len(<<>>)]
  BY WrapAllValue
<1>2. Len(<<>>) = 0 /\ 0 \in 0 .. 0
  OBVIOUS
<1> QED
  BY <1>1, <1>2 DEF IsWrap

\* The frame of the last packet comes last.
LEMMA WrapAllAppend ==
  ASSUME NEW c, NEW msgs \in Seq(Seq(Byte)), NEW m \in Seq(Byte)
  PROVE  WrapAll(c, Append(msgs, m)) = WrapAll(c, msgs) \o Wrap(c, m)
<1> DEFINE n == Len(msgs)  more == Append(msgs, m)
<1>1. /\ n \in Nat /\ Len(msgs) = n /\ Len(more) = n + 1 /\ more[n + 1] = m
      /\ \A i \in 1 .. n : msgs[i] = more[i]
  OBVIOUS
<1> HIDE DEF n, more
<1>2. n + 1 \in Nat /\ n <= n + 1 /\ n + 1 \in 0 .. n + 1 /\ n + 1 # 0 /\ (n + 1) - 1 = n
  BY <1>1
<1>3. PICK f : IsWrap(f, c, msgs, n) /\ WrapAll(c, msgs) = f[n]
  BY <1>1, WrapAllValue
<1>4. PICK g : IsWrap(g, c, more, n + 1) /\ WrapAll(c, more) = g[n + 1]
  BY <1>1, <1>2, WrapAllValue
<1>5. f[n] = g[n]
  BY ONLY <1>1, <1>2, <1>3, <1>4, WrapUnique
<1>6. g[n + 1] = g[n] \o Wrap(c, m)
  BY <1>1, <1>2, <1>4 DEF IsWrap
<1> QED
  BY <1>3, <1>4, <1>5, <1>6 DEF more

\* The frames of a sequence of packets are bytes.
LEMMA WrapAllType ==
  ASSUME NEW c
  PROVE  \A msgs \in Seq(Seq(Byte)) : WrapAll(c, msgs) \in Seq(Byte)
<1> DEFINE P == {n \in Nat : \A msgs \in Seq(Seq(Byte)) : Len(msgs) = n => WrapAll(c, msgs) \in Seq(Byte)}
<1>1. 0 \in P
  <2>1. ASSUME NEW msgs \in Seq(Seq(Byte)), Len(msgs) = 0 PROVE WrapAll(c, msgs) \in Seq(Byte)
    <3>1. msgs = <<>>
      BY <2>1
    <3>2. WrapAll(c, msgs) = <<>>
      BY <3>1, WrapAllEmpty
    <3> HIDE DEF Byte
    <3> QED
      BY <3>2
  <2> QED
    BY <2>1
<1>2. ASSUME NEW n \in Nat, n \in P PROVE n + 1 \in P
  <2>1. ASSUME NEW msgs \in Seq(Seq(Byte)), Len(msgs) = n + 1 PROVE WrapAll(c, msgs) \in Seq(Byte)
    <3>1. PICK less \in Seq(Seq(Byte)), m \in Seq(Byte) : msgs = Append(less, m)
      <4>1. msgs # <<>>
        BY <2>1
      <4> QED
        BY <4>1, SequenceEmptyOrAppend
    <3>2. Len(less) = n
      BY <2>1, <3>1
    <3>3. WrapAll(c, less) \in Seq(Byte) /\ Wrap(c, m) \in Seq(Byte)
      BY <1>2, <3>2, WrapType
    <3>4. WrapAll(c, msgs) = WrapAll(c, less) \o Wrap(c, m)
      BY <3>1, WrapAllAppend
    <3> QED
      BY <3>3, <3>4
  <2> QED
    BY <2>1
<1> HIDE DEF P
<1>3. \A n \in Nat : n \in P
  BY <1>1, <1>2, SetInduction
<1> QED
  BY <1>3 DEF P

-----------------------------------------------------------------------------
(* Layouts: g has been received, h is in the reader's hands, n on the way, r left with the *)
(* writer, and t is all there is to send.  Join keeps the provers from looking at single   *)
(* bytes.                                                                                  *)

Bytes == Seq(Byte)
Join(s, t) == s \o t

\* What concatenation does, for sequences of bytes.
LEMMA JoinFacts ==
  /\ <<>> \in Bytes
  /\ \A s, t \in Bytes : Join(s, t) \in Bytes
  /\ \A s, t, u \in Bytes : Join(Join(s, t), u) = Join(s, Join(t, u))
  /\ \A s \in Bytes : Join(s, <<>>) = s /\ Join(<<>>, s) = s
<1>1. ASSUME NEW s \in Bytes, NEW t \in Bytes PROVE Join(s, t) \in Bytes
  BY ConcatProperties DEF Bytes, Join
<1>2. ASSUME NEW s \in Bytes, NEW t \in Bytes, NEW u \in Bytes
      PROVE  Join(Join(s, t), u) = Join(s, Join(t, u))
  BY ConcatAssociative DEF Bytes, Join
<1>3. ASSUME NEW s \in Bytes PROVE Join(s, <<>>) = s /\ Join(<<>>, s) = s
  BY ConcatEmptySeq DEF Bytes, Join
<1>4. <<>> \in Bytes
  BY DEF Bytes
<1> QED
  BY <1>1, <1>2, <1>3, <1>4

\* Equal beginnings can be taken off, and only nothing joins to nothing.
LEMMA JoinCancel ==
  /\ \A s, t, u \in Bytes : Join(s, t) = Join(s, u) => t = u
  /\ \A s, t \in Bytes : Join(s, t) = <<>> => s = <<>> /\ t = <<>>
BY ConcatSimplifications DEF Bytes, Join

Begins(s, t) == \E u \in Bytes : Join(s, u) = t

\* A beginning is a prefix.
LEMMA BeginsIsStart ==
  ASSUME NEW s \in Bytes, NEW t \in Bytes, Begins(s, t)
  PROVE  IsStart(s, t)
<1>1. PICK u \in Bytes : Join(s, u) = t
  BY DEF Begins
<1>2. s \in Seq(Byte) /\ u \in Seq(Byte) /\ t = s \o u
  BY <1>1 DEF Join, Bytes
<1>3. Len(t) = Len(s) + Len(u) /\ Len(s) \in Nat /\ Len(u) \in Nat
  BY <1>2
<1>4. s = SubSeq(t, 1, Len(s))
  BY <1>2, <1>3
<1> QED
  BY <1>3, <1>4 DEF IsStart

\* A sequence is what comes before a place and what comes after it.
LEMMA SplitSeq ==
  ASSUME NEW s \in Bytes, NEW k \in 0 .. Len(s)
  PROVE  /\ SubSeq(s, 1, k) \in Bytes /\ Len(SubSeq(s, 1, k)) = k
         /\ From(s, k + 1) \in Bytes
         /\ Join(SubSeq(s, 1, k), From(s, k + 1)) = s
<1> USE DEF Bytes, Join
<1>1. Len(s) \in Nat /\ \A i \in 1 .. Len(s) : s[i] \in Byte
  BY ElementOfSeq
<1>2. SubSeq(s, 1, k) \in Seq(Byte) /\ Len(SubSeq(s, 1, k)) = k
  BY <1>1, SubSeqProperties
<1>3. From(s, k + 1) \in Seq(Byte)
  BY <1>1, SubSeqProperties DEF From
<1>4. SubSeq(s, 1, k) \o SubSeq(s, k + 1, Len(s)) = SubSeq(s, 1, Len(s))
  <2>1. 1 \in 1 .. Len(s) + 1 /\ k \in 1 - 1 .. Len(s) /\ Len(s) \in k .. Len(s)
    BY <1>1
  <2> QED
    BY <2>1, ConcatAdjacentSubSeq, Zenon
<1> QED
  BY <1>2, <1>3, <1>4, SubSeqFull DEF From

\* A beginning of a beginning.
LEMMA BeginsMore ==
  ASSUME NEW s \in Bytes, NEW x \in Bytes, NEW t \in Bytes
  PROVE  /\ Begins(s, t) => Begins(s, Join(t, x))
         /\ Begins(Join(s, x), t) => Begins(s, t)
         /\ Begins(s, s)
<1>1. ASSUME Begins(s, t) PROVE Begins(s, Join(t, x))
  <2>1. PICK u \in Bytes : Join(s, u) = t
    BY <1>1 DEF Begins
  <2>2. Join(s, Join(u, x)) = Join(Join(s, u), x) /\ Join(u, x) \in Bytes
    BY JoinFacts, Zenon
  <2> QED
    BY <2>1, <2>2 DEF Begins
<1>2. ASSUME Begins(Join(s, x), t) PROVE Begins(s, t)
  <2>1. PICK u \in Bytes : Join(Join(s, x), u) = t
    BY <1>2 DEF Begins
  <2>2. Join(s, Join(x, u)) = Join(Join(s, x), u) /\ Join(x, u) \in Bytes
    BY JoinFacts, Zenon
  <2> QED
    BY <2>1, <2>2 DEF Begins
<1>3. Begins(s, s)
  BY JoinFacts DEF Begins
<1> QED
  BY <1>1, <1>2, <1>3

Whole(g, h, n, r, t) == Join(Join(Join(g, h), n), r) = t
Part(g, h, n, t) == Begins(Join(Join(g, h), n), t)

\* What is received begins what is laid out, which begins the stream.
LEMMA LayBegins ==
  ASSUME NEW g \in Bytes, NEW h \in Bytes, NEW n \in Bytes, NEW r \in Bytes, NEW t \in Bytes
  PROVE  /\ Whole(g, h, n, r, t) => Part(g, h, n, t)
         /\ Part(g, h, n, t) => Begins(g, t)
<1>1. Whole(g, h, n, r, t) => Part(g, h, n, t)
  BY DEF Whole, Part, Begins
<1>2. PICK a \in Bytes : a = Join(g, h)
  BY JoinFacts
<1>3. Begins(Join(a, n), t) => Begins(a, t)
  BY <1>2, BeginsMore
<1>4. Begins(Join(g, h), t) => Begins(g, t)
  BY BeginsMore
<1> QED
  BY <1>1, <1>2, <1>3, <1>4 DEF Part

\* There is more to send.
LEMMA LaySend ==
  ASSUME NEW g \in Bytes, NEW h \in Bytes, NEW n \in Bytes, NEW t \in Bytes, NEW x \in Bytes
  PROVE  /\ Whole(g, h, n, <<>>, t) => Whole(g, h, n, x, Join(t, x))
         /\ Part(g, h, n, t) => Part(g, h, n, Join(t, x))
<1>1. PICK a \in Bytes : a = Join(Join(g, h), n)
  BY JoinFacts
<1>2. Join(a, <<>>) = t => Join(a, x) = Join(t, x)
  BY <1>1, JoinFacts
<1>3. Begins(a, t) => Begins(a, Join(t, x))
  BY <1>1, BeginsMore
<1> QED
  BY <1>1, <1>2, <1>3 DEF Whole, Part

\* The writer hands x over.
LEMMA LayWrite ==
  ASSUME NEW g \in Bytes, NEW h \in Bytes, NEW n \in Bytes, NEW x \in Bytes, NEW y \in Bytes, NEW t,
         Whole(g, h, n, Join(x, y), t)
  PROVE  Whole(g, h, Join(n, x), y, t)
<1>1. PICK a \in Bytes : a = Join(g, h)
  BY JoinFacts
<1>2. PICK b \in Bytes : b = Join(a, n)
  BY <1>1, JoinFacts
<1>3. Join(a, Join(n, x)) = Join(b, x)
  BY <1>1, <1>2, JoinFacts
<1>4. Join(Join(b, x), y) = Join(b, Join(x, y))
  BY JoinFacts
<1> QED
  BY <1>1, <1>2, <1>3, <1>4 DEF Whole

\* The reader takes x off the connection, into its hands or all the way.
LEMMA LayRead ==
  ASSUME NEW g \in Bytes, NEW h \in Bytes, NEW x \in Bytes, NEW y \in Bytes, NEW r, NEW t,
         NEW g2, NEW h2, Join(g2, h2) = Join(Join(g, h), x)
  PROVE  /\ Whole(g, h, Join(x, y), r, t) => Whole(g2, h2, y, r, t)
         /\ Part(g, h, Join(x, y), t) => Part(g2, h2, y, t)
<1>1. PICK a \in Bytes : a = Join(g, h)
  BY JoinFacts
<1>2. Join(Join(a, x), y) = Join(a, Join(x, y))
  BY JoinFacts
<1> QED
  BY <1>1, <1>2 DEF Whole, Part

\* A reset drops the end of what is on the way.
LEMMA LayReset ==
  ASSUME NEW g \in Bytes, NEW h \in Bytes, NEW x \in Bytes, NEW y \in Bytes, NEW t \in Bytes,
         Part(g, h, Join(x, y), t)
  PROVE  Part(g, h, x, t)
<1>1. PICK a \in Bytes : a = Join(g, h)
  BY JoinFacts
<1>2. PICK b \in Bytes : b = Join(a, x)
  BY <1>1, JoinFacts
<1>3. Join(b, y) = Join(a, Join(x, y))
  BY <1>1, <1>2, JoinFacts
<1>4. Begins(Join(b, y), t) => Begins(b, t)
  BY <1>2, BeginsMore
<1> QED
  BY <1>1, <1>2, <1>3, <1>4 DEF Part

-----------------------------------------------------------------------------
(* A stream of frames can be read in one way only. *)

LEMMA WrapBytes ==
  ASSUME NEW c, NEW msgs \in Seq(Bytes), NEW m \in Bytes
  PROVE  /\ Wrap(c, m) \in Bytes /\ WrapAll(c, msgs) \in Bytes /\ Append(msgs, m) \in Seq(Bytes)
         /\ WrapAll(c, Append(msgs, m)) = Join(WrapAll(c, msgs), Wrap(c, m))
<1>1. Wrap(c, m) \in Bytes /\ WrapAll(c, msgs) \in Bytes
  BY WrapType, WrapAllType DEF Bytes
<1>2. Append(msgs, m) \in Seq(Bytes)
  OBVIOUS
<1>3. WrapAll(c, Append(msgs, m)) = Join(WrapAll(c, msgs), Wrap(c, m))
  BY WrapAllAppend DEF Bytes, Join
<1> QED
  BY <1>1, <1>2, <1>3

\* Beginnings of the same length are equal.
LEMMA JoinSameLength ==
  ASSUME NEW s \in Bytes, NEW t \in Bytes, NEW u \in Bytes, NEW v \in Bytes,
         Join(s, t) = Join(u, v), Len(s) = Len(u)
  PROVE  s = u /\ t = v
<1>1. s = u
  <2>1. /\ s \in Seq(Byte) /\ t \in Seq(Byte) /\ u \in Seq(Byte) /\ v \in Seq(Byte)
        /\ s \o t = u \o v /\ Len(s) \in Nat /\ Len(t) \in Nat /\ Len(v) \in Nat
    BY DEF Bytes, Join
  <2>2. ASSUME NEW i \in 1 .. Len(s) PROVE s[i] = u[i]
    <3>1. (s \o t)[i] = s[i] /\ (u \o v)[i] = u[i]
      BY <2>1
    <3> QED
      BY <2>1, <3>1
  <2> QED
    BY <2>1, <2>2, SeqEqual
<1>2. t = v
  BY <1>1, JoinCancel
<1> QED
  BY <1>1, <1>2

\* The frames of the first n packets begin the frames of all.
LEMMA WrapPrefix ==
  ASSUME NEW c, NEW S \in Seq(Bytes)
  PROVE  \A n \in 0 .. Len(S) : /\ SubSeq(S, 1, n) \in Seq(Bytes)
                                 /\ Begins(WrapAll(c, SubSeq(S, 1, n)), WrapAll(c, S))
<1> DEFINE P == {k \in Nat : k <= Len(S) => Begins(WrapAll(c, SubSeq(S, 1, Len(S) - k)), WrapAll(c, S))}
<1>0. Len(S) \in Nat /\ WrapAll(c, S) \in Bytes /\ \A i \in 1 .. Len(S) : S[i] \in Bytes
  BY WrapAllType, ElementOfSeq DEF Bytes
<1>a. \A n \in 0 .. Len(S) : SubSeq(S, 1, n) \in Seq(Bytes)
  BY <1>0, SubSeqProperties
<1>1. 0 \in P
  <2>1. SubSeq(S, 1, Len(S) - 0) = S
    BY <1>0, SubSeqFull
  <2> QED
    BY <1>0, <2>1, BeginsMore
<1>2. ASSUME NEW k \in Nat, k \in P PROVE k + 1 \in P
  <2> SUFFICES ASSUME k + 1 <= Len(S)
               PROVE  Begins(WrapAll(c, SubSeq(S, 1, Len(S) - (k + 1))), WrapAll(c, S))
    OBVIOUS
  <2>0. PICK n \in Nat : n = Len(S) - (k + 1)
    <3>1. Len(S) - (k + 1) \in Nat
      BY <1>0
    <3> QED
      BY <3>1, Zenon
  <2>1. n = Len(S) - (k + 1) /\ n + 1 = Len(S) - k /\ n + 1 \in 1 .. Len(S) /\ n \in 0 .. Len(S)
    BY <1>0, <2>0
  <2>2. PICK a \in Seq(Bytes) : a = SubSeq(S, 1, n)
    BY <1>a, <2>1
  <2>3. SubSeq(S, 1, n + 1) = Append(a, S[n + 1])
    BY <1>0, <2>1, <2>2
  <2>4. /\ WrapAll(c, SubSeq(S, 1, n + 1)) = Join(WrapAll(c, a), Wrap(c, S[n + 1]))
        /\ WrapAll(c, a) \in Bytes /\ Wrap(c, S[n + 1]) \in Bytes
    <3>1. S[n + 1] \in Bytes
      BY <1>0, <2>1
    <3> QED
      BY <2>3, <3>1, WrapBytes
  <2>5. Begins(Join(WrapAll(c, a), Wrap(c, S[n + 1])), WrapAll(c, S))
    BY <1>0, <1>2, <2>1, <2>4
  <2>6. Begins(WrapAll(c, a), WrapAll(c, S))
    BY <1>0, <2>4, <2>5, BeginsMore
  <2> QED
    BY <2>1, <2>2, <2>6
<1> HIDE DEF P
<1>3. \A k \in Nat : k \in P
  BY <1>1, <1>2, SetInduction
<1>4. ASSUME NEW n \in 0 .. Len(S) PROVE Begins(WrapAll(c, SubSeq(S, 1, n)), WrapAll(c, S))
  <2>1. Len(S) - n \in Nat /\ Len(S) - n <= Len(S) /\ Len(S) - (Len(S) - n) = n /\ Len(S) - n \in P
    BY <1>0, <1>3
  <2> QED
    BY <2>1 DEF P
<1> QED
  BY <1>a, <1>4

\* The packets of g are the first of S.
IsFirst(g, S) == Len(g) <= Len(S) /\ \A i \in 1 .. Len(g) : g[i] = S[i]

LEMMA FirstIsSubSeq ==
  ASSUME NEW S \in Seq(Bytes), NEW g \in Seq(Bytes), IsFirst(g, S)
  PROVE  Len(g) \in 0 .. Len(S) /\ g = SubSeq(S, 1, Len(g))
BY DEF IsFirst

\* Behind the frames of the first packets of S comes the frame of the next, or nothing.
LEMMA NextFrame ==
  ASSUME NEW c, NEW S \in Seq(Bytes), NEW g \in Seq(Bytes), IsFirst(g, S), NEW x \in Bytes,
         Join(WrapAll(c, g), x) = WrapAll(c, S)
  PROVE  \/ Len(g) = Len(S) /\ x = <<>>
         \/ /\ Len(g) < Len(S) /\ S[Len(g) + 1] \in Bytes
            /\ \E v \in Bytes : x = Join(Wrap(c, S[Len(g) + 1]), v)
<1>0. /\ Len(g) \in Nat /\ Len(S) \in Nat /\ Len(g) <= Len(S) /\ g = SubSeq(S, 1, Len(g))
      /\ WrapAll(c, g) \in Bytes
  BY FirstIsSubSeq, WrapAllType DEF Bytes
<1>1. CASE Len(g) = Len(S)
  <2>1. g = S
    BY <1>0, <1>1, SubSeqFull
  <2>2. Join(WrapAll(c, g), x) = Join(WrapAll(c, g), <<>>)
    BY <1>0, <2>1, JoinFacts
  <2>3. x = <<>>
    BY <1>0, <2>2, JoinCancel, JoinFacts
  <2> QED
    BY <1>1, <2>3
<1>2. CASE Len(g) < Len(S)
  <2>1. PICK n \in Nat : n = Len(g) + 1 /\ n \in 1 .. Len(S) /\ n \in 0 .. Len(S)
    BY <1>0, <1>2
  <2>2. PICK m \in Bytes : m = S[n]
    BY <2>1, ElementOfSeq
  <2>3. SubSeq(S, 1, n) = Append(g, m)
    <3>1. SubSeq(S, 1, n) = Append(SubSeq(S, 1, Len(g)), S[n])
      BY <1>0, <2>1
    <3> QED
      BY <1>0, <2>2, <3>1
  <2>4. Begins(WrapAll(c, Append(g, m)), WrapAll(c, S))
    BY <2>1, <2>3, WrapPrefix
  <2>5. WrapAll(c, Append(g, m)) = Join(WrapAll(c, g), Wrap(c, m)) /\ Wrap(c, m) \in Bytes
    BY WrapBytes
  <2>6. PICK v \in Bytes : Join(Join(WrapAll(c, g), Wrap(c, m)), v) = WrapAll(c, S)
    BY <2>4, <2>5 DEF Begins
  <2>7. PICK w \in Bytes : w = Join(Wrap(c, m), v)
    BY <2>5, JoinFacts
  <2>8. Join(WrapAll(c, g), w) = Join(WrapAll(c, g), x)
    BY <1>0, <2>5, <2>6, <2>7, JoinFacts
  <2>9. x = w
    BY <1>0, <2>8, JoinCancel
  <2> QED
    BY <1>2, <2>1, <2>2, <2>7, <2>9
<1> QED
  BY <1>0, <1>1, <1>2

\* Four bytes in the reader's hands are the length of the next packet.
LEMMA ReadLength ==
  ASSUME NEW c, c # "raw", NEW S \in Seq(Bytes), NEW g \in Seq(Bytes), IsFirst(g, S),
         NEW b \in Bytes, Len(b) = 4, Begins(Join(WrapAll(c, g), b), WrapAll(c, S))
  PROVE  Len(g) < Len(S) /\ b = Htonl(Len(S[Len(g) + 1]))
<1>0. WrapAll(c, g) \in Bytes
  BY WrapAllType DEF Bytes
<1>1. PICK u \in Bytes : Join(Join(WrapAll(c, g), b), u) = WrapAll(c, S)
  BY DEF Begins
<1>2. PICK x \in Bytes : x = Join(b, u)
  BY JoinFacts
<1>3. Join(WrapAll(c, g), x) = WrapAll(c, S)
  BY <1>0, <1>1, <1>2, JoinFacts
<1>4. x # <<>>
  <2>1. b # <<>>
    BY FourAreSome
  <2> QED
    BY <1>2, <2>1, JoinCancel
<1>5. PICK v \in Bytes : /\ Len(g) < Len(S) /\ S[Len(g) + 1] \in Bytes
                          /\ x = Join(Wrap(c, S[Len(g) + 1]), v)
  BY <1>3, <1>4, NextFrame
<1>6. PICK m \in Bytes : m = S[Len(g) + 1]
  BY <1>5
<1>7. PICK h \in Bytes : h = Htonl(Len(m)) /\ Len(h) = 4 /\ Wrap(c, m) = Join(h, m)
  BY HtonlType DEF Wrap, Join, Bytes
<1>8. Join(b, u) = Join(h, Join(m, v)) /\ Join(m, v) \in Bytes
  <2>1. Join(Join(h, m), v) = Join(h, Join(m, v)) /\ Join(m, v) \in Bytes
    BY JoinFacts
  <2> QED
    BY <1>2, <1>5, <1>6, <1>7, <2>1
<1>9. b = h
  BY <1>7, <1>8, JoinSameLength
<1> QED
  BY <1>5, <1>6, <1>7, <1>9

\* A length and as many bytes are the next packet.
LEMMA ReadPacket ==
  ASSUME NEW c, c # "raw", NEW S \in Seq(Bytes), NEW g \in Seq(Bytes), IsFirst(g, S),
         \A i \in 1 .. Len(S) : Fits(Len(S[i])),
         NEW b \in Bytes, Fits(Len(b)),
         NEW u \in Bytes, Join(Join(WrapAll(c, g), Join(Htonl(Len(b)), b)), u) = WrapAll(c, S)
  PROVE  Len(g) < Len(S) /\ b = S[Len(g) + 1]
<1>0. WrapAll(c, g) \in Bytes /\ Len(b) \in Nat /\ Len(g) \in Nat /\ Len(S) \in Nat
  BY WrapAllType DEF Bytes
<1>1. PICK h \in Bytes : h = Htonl(Len(b)) /\ Len(h) = 4
  BY <1>0, HtonlType DEF Bytes
<1>2. PICK x \in Bytes : x = Join(b, u)
  BY JoinFacts
<1>3. PICK y \in Bytes : y = Join(h, x)
  BY JoinFacts
<1>4. Join(Join(h, b), u) = y
  BY <1>1, <1>2, <1>3, JoinFacts
<1>5. Join(WrapAll(c, g), y) = WrapAll(c, S)
  <2>1. PICK a \in Bytes : a = Join(h, b)
    BY JoinFacts
  <2>2. Join(WrapAll(c, g), Join(a, u)) = Join(Join(WrapAll(c, g), a), u)
    BY <1>0, JoinFacts
  <2> QED
    BY <1>1, <1>4, <2>1, <2>2
<1>6. y # <<>>
  <2>1. h # <<>>
    BY <1>1, FourAreSome
  <2> QED
    BY <1>3, <2>1, JoinCancel
<1>7. PICK v \in Bytes : /\ Len(g) < Len(S) /\ S[Len(g) + 1] \in Bytes
                          /\ y = Join(Wrap(c, S[Len(g) + 1]), v)
  BY <1>5, <1>6, NextFrame
<1>8. PICK m \in Bytes : m = S[Len(g) + 1] /\ Len(m) \in Nat /\ Fits(Len(m))
  <2>1. Len(g) + 1 \in 1 .. Len(S)
    BY <1>0, <1>7
  <2>2. Fits(Len(S[Len(g) + 1]))
    BY <2>1
  <2>3. Len(S[Len(g) + 1]) \in Nat
    BY <1>7 DEF Bytes
  <2> QED
    BY <1>7, <2>2, <2>3, Zenon
<1>9. PICK k \in Bytes : k = Htonl(Len(m)) /\ Len(k) = 4 /\ Wrap(c, m) = Join(k, m)
  <2>1. Htonl(Len(m)) \in Bytes /\ Len(Htonl(Len(m))) = 4
    BY <1>8, HtonlType DEF Bytes
  <2>2. Wrap(c, m) = Join(Htonl(Len(m)), m)
    BY DEF Wrap, Join
  <2> QED
    BY <2>1, <2>2
<1>10. Join(h, x) = Join(k, Join(m, v)) /\ Join(m, v) \in Bytes
  <2>1. Join(Join(k, m), v) = Join(k, Join(m, v)) /\ Join(m, v) \in Bytes
    BY JoinFacts
  <2> QED
    BY <1>3, <1>7, <1>8, <1>9, <2>1
<1>11. h = k /\ x = Join(m, v)
  BY <1>1, <1>9, <1>10, JoinSameLength
<1>12. Len(b) = Len(m)
  <2>1. Ntohl(Htonl(Len(b))) = Len(b)
    BY <1>0, FitsSurvive
  <2>2. Ntohl(Htonl(Len(m))) = Len(m)
    BY <1>8, FitsSurvive
  <2> QED
    BY <1>1, <1>9, <1>11, <2>1, <2>2
<1>13. b = m
  <2>1. Join(b, u) = Join(m, v)
    BY <1>2, <1>11
  <2> QED
    BY <1>12, <2>1, JoinSameLength
<1> QED
  BY <1>7, <1>8, <1>13

-----------------------------------------------------------------------------
(* The invariant.  Pending is what was sent and the packet in the writer's hands. *)

Held == ~ (wpc = "idle" \/ (wpc = "thrown" /\ wbuf = <<>>))
Pending == IF Held THEN Append(sent, msg) ELSE sent
Live == ropen /\ rpc # "thrown"

TypeOK ==
  /\ os \in {"posix", "windows"} /\ chan \in {"up", "down", "raw"}
  /\ net \in Bytes /\ msg \in Bytes /\ wbuf \in Bytes /\ rbuf \in Bytes
  /\ sent \in Seq(Bytes) /\ got \in Seq(Bytes)
  /\ wsock \in {"open", "fin", "reset"} /\ ropen \in BOOLEAN
  /\ wpc \in {"idle", "len", "data", "thrown", "killed"}
  /\ rpc \in {"idle", "len", "data", "first", "more", "done", "thrown"}
  /\ want \in Nat /\ heap \in Nat /\ intr \in Nat

WriterInv ==
  /\ wpc \in {"len", "data"} => wsock = "open" /\ msg \in Msg
  /\ wpc = "idle" => wbuf = <<>>
  /\ wpc = "len" => chan # "raw"
  /\ ropen /\ Held => wpc \in {"len", "data"}

ReaderInv ==
  /\ rpc \in {"len", "data"} => chan # "raw" /\ Len(rbuf) <= want
  /\ rpc \in {"first", "more"} => chan = "raw"
  /\ rpc \in {"len", "data", "first", "more"} => ropen
  /\ rpc = "len" => want = 4
  /\ rpc = "data" => Fits(want)
  /\ rpc = "first" => rbuf = <<>>

BufInv ==
  /\ rpc \in {"data", "first", "more"} => heap = 1
  /\ rpc \in {"idle", "len", "done"} => heap = 0
  /\ rpc = "thrown" => heap <= 1 /\ (chan = "down" => heap = 0)

\* What was received is, packet by packet, what was sent.
MsgInv ==
  chan # "raw" =>
    /\ \A i \in 1 .. Len(Pending) :
         Fits(Len(Pending[i])) /\ (chan = "down" => Len(Pending[i]) # 0)
    /\ Len(got) <= Len(Pending)
    /\ \A i \in 1 .. Len(got) : got[i] = Pending[i]

\* And byte by byte.
LayInv ==
  /\ Begins(WrapAll(chan, got), WrapAll(chan, Pending))
  /\ Live => Part(WrapAll(chan, got), InHand, net, WrapAll(chan, Pending))
  /\ Live /\ wsock # "reset" => Whole(WrapAll(chan, got), InHand, net, Rest, WrapAll(chan, Pending))

IInv == TypeOK /\ WriterInv /\ ReaderInv /\ BufInv /\ MsgInv /\ LayInv

-----------------------------------------------------------------------------
(* What the steps that move bytes do. *)

LEMMA Sizes ==
  SockBuf \in Nat /\ ReadHalf \in Nat
<1>1. SockBuf \in Nat \ {0} /\ ReadHalf \in Nat \ {0}
  BY StreamAssumption
<1> QED
  BY <1>1

LEMMA LenBytes ==
  ASSUME NEW s \in Bytes PROVE Len(s) \in Nat
BY DEF Bytes

LEMMA LenJoin ==
  ASSUME NEW s \in Bytes, NEW t \in Bytes PROVE Len(Join(s, t)) = Len(s) + Len(t)
BY ConcatProperties DEF Bytes, Join

\* A call into the kernel takes the first k bytes of a sequence.
LEMMA TakeSome ==
  ASSUME NEW s \in Bytes, NEW k \in 1 .. Len(s)
  PROVE  \E x, y \in Bytes : /\ s = Join(x, y) /\ x = SubSeq(s, 1, k) /\ y = From(s, k + 1) /\ Len(x) = k
<1>1. k \in 0 .. Len(s)
  BY DEF Bytes
<1> QED
  BY <1>1, SplitSeq

LEMMA SendSomeDoes ==
  ASSUME TypeOK, SendSome
  PROVE  \E x, y \in Bytes : /\ wbuf = Join(x, y) /\ wbuf' = y
                             /\ net' = IF ropen THEN Join(net, x) ELSE <<>>
<1>1. PICK k \in 1 .. Least(Len(wbuf), SockBuf - Len(net)) :
        wbuf' = From(wbuf, k + 1) /\ net' = IF ropen THEN net \o SubSeq(wbuf, 1, k) ELSE <<>>
  BY DEF SendSome
<1>2. wbuf \in Bytes /\ Len(wbuf) \in Nat /\ Len(net) \in Nat /\ SockBuf \in Nat
  BY Sizes, LenBytes DEF TypeOK
<1>3. k \in 1 .. Len(wbuf)
  BY <1>1, <1>2 DEF Least
<1> QED
  BY <1>1, <1>2, <1>3, TakeSome DEF Join

LEMMA RecvSomeDoes ==
  ASSUME TypeOK, RecvSome
  PROVE  \E x, y \in Bytes : /\ net = Join(x, y) /\ net' = y /\ rbuf' = Join(rbuf, x)
                             /\ rbuf' \in Bytes /\ Len(rbuf') <= want
<1>1. PICK k \in 1 .. Least(want - Len(rbuf), Len(net)) :
        rbuf' = rbuf \o SubSeq(net, 1, k) /\ net' = From(net, k + 1)
  BY DEF RecvSome
<1>2. net \in Bytes /\ rbuf \in Bytes /\ Len(rbuf) \in Nat /\ Len(net) \in Nat /\ want \in Nat
  BY DEF TypeOK, Bytes
<1>3. k \in 1 .. Len(net) /\ k <= want - Len(rbuf)
  BY <1>1, <1>2 DEF Least
<1>4. PICK x, y \in Bytes : net = Join(x, y) /\ x = SubSeq(net, 1, k) /\ y = From(net, k + 1) /\ Len(x) = k
  BY <1>2, <1>3, TakeSome
<1>5. Len(Join(rbuf, x)) = Len(rbuf) + k /\ Join(rbuf, x) \in Bytes
  BY <1>2, <1>4, JoinFacts, LenJoin
<1>6. rbuf' = Join(rbuf, x) /\ net' = y
  BY <1>1, <1>4 DEF Join
<1>7. Len(rbuf') <= want
  BY <1>2, <1>3, <1>5, <1>6
<1> QED
  BY <1>4, <1>5, <1>6, <1>7

\* recvall passes on what it has, if that is anything.
AllDoes(bytes) ==
  \/ bytes # <<>> /\ got' = Append(got, bytes) /\ rpc' = "idle" /\ heap' = heap - 1 /\ rbuf' = <<>>
  \/ bytes = <<>> /\ got' = got /\ rpc' = "done" /\ heap' = heap - 1 /\ rbuf' = <<>>

LEMMA AllFirstDoes ==
  ASSUME TypeOK, AllFirst
  PROVE  \E x, y \in Bytes : /\ net = Join(x, y) /\ net' = y
                             /\ \/ AllDoes(x)
                                \/ rpc' = "more" /\ rbuf' = x /\ UNCHANGED <<heap, got>>
<1>0. net \in Bytes /\ Len(net) \in Nat /\ ReadHalf \in Nat
  BY Sizes, LenBytes DEF TypeOK
<1>1. ASSUME NEW k \in 1 .. Least(ReadHalf, Len(net)), net' = From(net, k + 1),
             IF k < ReadHalf THEN AllReturn(SubSeq(net, 1, k))
             ELSE rpc' = "more" /\ rbuf' = SubSeq(net, 1, k) /\ UNCHANGED <<heap, got>>
      PROVE  \E x, y \in Bytes : /\ net = Join(x, y) /\ net' = y
                             /\ \/ AllDoes(x)
                                \/ rpc' = "more" /\ rbuf' = x /\ UNCHANGED <<heap, got>>
  <2>1. k \in 1 .. Len(net)
    BY <1>0, <1>1 DEF Least
  <2>2. PICK x, y \in Bytes : net = Join(x, y) /\ x = SubSeq(net, 1, k) /\ y = From(net, k + 1)
    BY <1>0, <2>1, TakeSome
  <2>3. AllReturn(x) => AllDoes(x)
    BY DEF AllReturn, AllDoes
  <2> QED
    BY <1>1, <2>2, <2>3
<1>2. ASSUME AtEnd, AllReturn(<<>>), net' = net
      PROVE  \E x, y \in Bytes : net = Join(x, y) /\ net' = y /\ AllDoes(x)
  <2>1. net = Join(<<>>, <<>>) /\ <<>> \in Bytes
    BY <1>2, JoinFacts DEF AtEnd
  <2>2. AllDoes(<<>>)
    BY <1>2 DEF AllReturn, AllDoes
  <2>3. net' = <<>>
    BY <1>2 DEF AtEnd
  <2> QED
    BY <2>1, <2>2, <2>3
<1> QED
  BY <1>1, <1>2 DEF AllFirst

LEMMA AllMoreDoes ==
  ASSUME TypeOK, AllMore
  PROVE  \E x, y \in Bytes : net = Join(x, y) /\ net' = y /\ AllDoes(Join(rbuf, x))
<1>0. net \in Bytes /\ rbuf \in Bytes /\ Len(net) \in Nat /\ ReadHalf \in Nat
  BY Sizes, LenBytes DEF TypeOK
<1>1. ASSUME NEW k \in 1 .. Least(ReadHalf, Len(net)), net' = From(net, k + 1), AllReturn(rbuf \o SubSeq(net, 1, k))
      PROVE  \E x, y \in Bytes : net = Join(x, y) /\ net' = y /\ AllDoes(Join(rbuf, x))
  <2>1. k \in 1 .. Len(net)
    BY <1>0, <1>1 DEF Least
  <2>2. PICK x, y \in Bytes : net = Join(x, y) /\ x = SubSeq(net, 1, k) /\ y = From(net, k + 1)
    BY <1>0, <2>1, TakeSome
  <2>3. AllReturn(rbuf \o x) => AllDoes(Join(rbuf, x))
    BY DEF AllReturn, AllDoes, Join
  <2> QED
    BY <1>1, <2>2, <2>3
<1>2. ASSUME AtEnd, AllReturn(rbuf), net' = net
      PROVE  \E x, y \in Bytes : net = Join(x, y) /\ net' = y /\ AllDoes(Join(rbuf, x))
  <2>1. net = Join(<<>>, <<>>) /\ <<>> \in Bytes /\ Join(rbuf, <<>>) = rbuf
    BY <1>0, <1>2, JoinFacts DEF AtEnd
  <2>2. AllDoes(rbuf)
    BY <1>2 DEF AllReturn, AllDoes
  <2>3. net' = <<>>
    BY <1>2 DEF AtEnd
  <2> QED
    BY <2>1, <2>2, <2>3
<1> QED
  BY <1>1, <1>2 DEF AllMore

-----------------------------------------------------------------------------
(* Types, the writer, the reader and its buffers. *)

LEMMA InitControl == Init => TypeOK /\ WriterInv /\ ReaderInv /\ BufInv
<1>1. <<>> \in Bytes /\ <<>> \in Seq(Bytes)
  BY JoinFacts
<1> QED
  BY <1>1 DEF Init, TypeOK, WriterInv, ReaderInv, BufInv, Held

\* A length taken off the connection.
LEMMA LengthRead ==
  ASSUME TypeOK, ReaderInv, rpc = "len", Len(rbuf) = want
  PROVE  Ntohl(rbuf) \in Nat /\ Fits(Ntohl(rbuf)) /\ Htonl(Ntohl(rbuf)) = rbuf /\ Len(rbuf) = 4
<1>1. rbuf \in Seq(Byte) /\ Len(rbuf) = 4
  BY DEF TypeOK, ReaderInv, Bytes
<1> QED
  BY <1>1, HtonlNtohl DEF Fits

LEMMA TypeStep ==
  ASSUME TypeOK, ReaderInv, BufInv, [Next]_vars
  PROVE  TypeOK'
<1>0. CASE UNCHANGED vars
  BY <1>0 DEF vars, writer, reader, TypeOK
<1>1. CASE SendPacket
  <2>1. PICK m \in Msg : msg' = m /\ wpc' \in {"len", "data", "thrown"}
                        /\ (wbuf' = m \/ wbuf' = <<>> \/ wbuf' = Htonl(Len(m)))
    BY <1>1 DEF SendPacket
  <2>2. m \in Bytes /\ <<>> \in Bytes
    BY StreamAssumption, JoinFacts DEF Bytes
  <2>3. Htonl(Len(m)) \in Bytes
    BY <2>2, LenBytes, HtonlType DEF Bytes
  <2>4. msg' \in Bytes /\ wbuf' \in Bytes
    BY <2>1, <2>2, <2>3
  <2> QED
    BY <1>1, <2>1, <2>4 DEF SendPacket, TypeOK, reader
<1>2. CASE SendSome
  <2>0. PICK x, y \in Bytes : wbuf' = y /\ net' = IF ropen THEN Join(net, x) ELSE <<>>
    BY <1>2, SendSomeDoes
  <2>1. net' \in Bytes /\ wbuf' \in Bytes
    BY <2>0, JoinFacts DEF TypeOK
  <2> QED
    BY <1>2, <2>1 DEF SendSome, TypeOK, reader
<1>3. CASE SendIntr
  BY <1>3 DEF SendIntr, TypeOK, writer, reader
<1>4. CASE SendFail
  BY <1>4 DEF SendFail, TypeOK, reader
<1>5. CASE SendReturn
  <2>1. sent' \in Seq(Bytes) /\ wbuf' \in Bytes /\ wpc' \in {"data", "idle"}
    BY <1>5 DEF SendReturn, TypeOK
  <2> QED
    BY <1>5, <2>1 DEF SendReturn, TypeOK, reader
<1>6. CASE CloseWriter
  <2>1. net' \in Bytes /\ wsock' \in {"fin", "reset"}
    BY <1>6, SplitSeq DEF CloseWriter, TypeOK
  <2> QED
    BY <1>6, <2>1 DEF CloseWriter, TypeOK, reader
<1>7. CASE Receive
  <2>1. rbuf' \in Bytes
    BY <1>7, JoinFacts DEF Receive
  <2>2. want' \in Nat /\ heap' \in Nat
    BY <1>7, Sizes DEF Receive, TypeOK
  <2> QED
    BY <1>7, <2>1, <2>2 DEF Receive, TypeOK, writer
<1>8. CASE RecvSome
  <2>1. net' \in Bytes /\ rbuf' \in Bytes
    BY <1>8, RecvSomeDoes
  <2> QED
    BY <1>8, <2>1 DEF RecvSome, TypeOK, writer
<1>9. CASE RecvIntr
  BY <1>9 DEF RecvIntr, TypeOK, writer, reader
<1>10. CASE RecvFail
  <2>1. heap' \in Nat
    BY <1>10 DEF RecvFail, TypeOK, BufInv
  <2> QED
    BY <1>10, <2>1 DEF RecvFail, TypeOK, writer
<1>11. CASE RecvReturn
  <2>1. want' \in Nat
    BY <1>11, LengthRead DEF RecvReturn, TypeOK
  <2>2. heap' \in Nat
    BY <1>11 DEF RecvReturn, TypeOK, BufInv
  <2>3. rbuf' \in Bytes
    BY <1>11, JoinFacts DEF RecvReturn, TypeOK
  <2>4. Append(got, rbuf) \in Seq(Bytes)
    BY WrapBytes DEF TypeOK
  <2>5. got' \in Seq(Bytes)
    BY <1>11, <2>4 DEF RecvReturn, TypeOK
  <2> QED
    BY <1>11, <2>1, <2>2, <2>3, <2>5 DEF RecvReturn, TypeOK, writer
<1>12. CASE AllFirst \/ AllMore
  <2>1. PICK b \in Bytes : /\ net' \in Bytes
                           /\ AllDoes(b) \/ (rpc' = "more" /\ rbuf' = b /\ UNCHANGED <<heap, got>>)
    BY <1>12, AllFirstDoes, AllMoreDoes, JoinFacts DEF TypeOK
  <2>2. rpc' \in {"idle", "done", "more"} /\ rbuf' \in Bytes
    BY <2>1, JoinFacts DEF AllDoes
  <2>3. heap = 1 /\ heap' \in Nat
    BY <1>12, <2>1 DEF AllFirst, AllMore, BufInv, AllDoes
  <2>4. got' \in Seq(Bytes)
    <3>1. Append(got, b) \in Seq(Bytes)
      BY WrapBytes DEF TypeOK
    <3> QED
      BY <2>1, <3>1 DEF AllDoes, TypeOK
  <2> QED
    BY <1>12, <2>1, <2>2, <2>3, <2>4 DEF AllFirst, AllMore, TypeOK, writer
<1>13. CASE AllIntr
  BY <1>13 DEF AllIntr, TypeOK, writer
<1>14. CASE AllFail
  BY <1>14 DEF AllFail, TypeOK, writer
<1>15. CASE CloseReader
  BY <1>15, JoinFacts DEF CloseReader, TypeOK, writer
<1> QED
  BY <1>0, <1>1, <1>2, <1>3, <1>4, <1>5, <1>6, <1>7, <1>8, <1>9, <1>10, <1>11, <1>12, <1>13, <1>14, <1>15 DEF Next

LEMMA WriterStep ==
  ASSUME TypeOK, WriterInv, [Next]_vars
  PROVE  WriterInv'
<1> USE DEF WriterInv, Held
<1>0. CASE UNCHANGED writer /\ UNCHANGED chan /\ (ropen' => ropen)
  BY <1>0 DEF writer
<1>1. CASE SendPacket
  BY <1>1 DEF SendPacket, reader
<1>2. CASE SendSome
  BY <1>2 DEF SendSome, reader
<1>3. CASE SendFail
  BY <1>3 DEF SendFail, reader
<1>4. CASE SendReturn
  BY <1>4 DEF SendReturn, reader
<1>5. CASE CloseWriter
  BY <1>5 DEF CloseWriter, reader
<1>6. ASSUME ~ (SendPacket \/ SendSome \/ SendFail \/ SendReturn \/ CloseWriter)
      PROVE  UNCHANGED writer /\ UNCHANGED chan /\ (ropen' => ropen)
  BY <1>6 DEF Next, vars, SendIntr, Receive, RecvSome, RecvIntr, RecvFail, RecvReturn,
     AllFirst, AllMore, AllIntr, AllFail, CloseReader, reader
<1> QED
  BY <1>0, <1>1, <1>2, <1>3, <1>4, <1>5, <1>6

\* The steps of the writer.
WriterStepOf == SendPacket \/ SendSome \/ SendIntr \/ SendFail \/ SendReturn \/ CloseWriter

LEMMA ReaderStep ==
  ASSUME TypeOK, ReaderInv, BufInv, [Next]_vars
  PROVE  ReaderInv' /\ BufInv'
<1> USE DEF ReaderInv, BufInv
<1>0. CASE WriterStepOf \/ UNCHANGED vars \/ RecvIntr
  <2>1. UNCHANGED reader /\ UNCHANGED chan
    BY <1>0 DEF WriterStepOf, SendPacket, SendSome, SendIntr, SendFail, SendReturn, CloseWriter, vars, RecvIntr
  <2> QED
    BY <2>1 DEF reader
<1>1. CASE Receive
  BY <1>1, Sizes DEF Receive, TypeOK
<1>2. CASE RecvSome
  <2>1. Len(rbuf') <= want
    BY <1>2, RecvSomeDoes
  <2> QED
    BY <1>2, <2>1 DEF RecvSome
<1>3. CASE RecvFail
  BY <1>3 DEF RecvFail, TypeOK
<1>4. CASE RecvReturn
  <2>1. CASE rpc = "len"
    <3>1. Ntohl(rbuf) \in Nat /\ Fits(Ntohl(rbuf))
      BY <1>4, <2>1, LengthRead DEF RecvReturn
    <3> QED
      BY <1>4, <2>1, <3>1 DEF RecvReturn, TypeOK
  <2>2. CASE rpc = "data"
    BY <1>4, <2>2 DEF RecvReturn, TypeOK
  <2> QED
    BY <1>4, <2>1, <2>2 DEF RecvReturn
<1>5. CASE AllFirst \/ AllMore
  <2>1. PICK b \in Bytes : AllDoes(b) \/ (rpc' = "more" /\ rbuf' = b /\ UNCHANGED <<heap, got>>)
    BY <1>5, AllFirstDoes, AllMoreDoes, JoinFacts DEF TypeOK
  <2> QED
    BY <1>5, <2>1 DEF AllFirst, AllMore, AllDoes, TypeOK
<1>6. CASE AllIntr
  BY <1>6 DEF AllIntr, TypeOK
<1>7. CASE AllFail
  BY <1>7 DEF AllFail, TypeOK
<1>8. CASE CloseReader
  BY <1>8 DEF CloseReader, TypeOK
<1> QED
  BY <1>0, <1>1, <1>2, <1>3, <1>4, <1>5, <1>6, <1>7, <1>8 DEF Next, WriterStepOf

-----------------------------------------------------------------------------
(* The layout of the bytes.  GotBytes and AllBytes are what was received and what is sent. *)

GotBytes == WrapAll(chan, got)
AllBytes == WrapAll(chan, Pending)

LayTypes ==
  /\ GotBytes \in Bytes /\ InHand \in Bytes /\ net \in Bytes /\ Rest \in Bytes
  /\ AllBytes \in Bytes /\ Pending \in Seq(Bytes)

LEMMA LayType == TypeOK => LayTypes
<1> SUFFICES ASSUME TypeOK PROVE LayTypes
  OBVIOUS
<1>1. Append(sent, msg) \in Seq(Bytes)
  BY WrapBytes DEF TypeOK
<1>2. Pending \in Seq(Bytes)
  BY <1>1 DEF Pending, TypeOK
<1>3. GotBytes \in Bytes /\ AllBytes \in Bytes
  BY <1>2, WrapBytes DEF GotBytes, AllBytes, TypeOK
<1>4. Rest \in Bytes
  <2>1. Join(wbuf, msg) \in Bytes
    BY JoinFacts DEF TypeOK
  <2> QED
    BY <2>1 DEF Rest, Join, TypeOK
<1>5. InHand \in Bytes
  <2>1. Htonl(want) \in Bytes
    BY HtonlType DEF TypeOK, Bytes
  <2>2. Join(Htonl(want), rbuf) \in Bytes /\ <<>> \in Bytes
    BY <2>1, JoinFacts DEF TypeOK
  <2> QED
    BY <2>2 DEF InHand, Join, TypeOK
<1> QED
  BY <1>2, <1>3, <1>4, <1>5 DEF TypeOK, LayTypes

LEMMA LayTypeNext == TypeOK' => LayTypes'
BY LayType, PTL

LEMMA LayIs ==
  /\ LayInv <=> /\ Begins(GotBytes, AllBytes)
                /\ Live => Part(GotBytes, InHand, net, AllBytes)
                /\ Live /\ wsock # "reset" => Whole(GotBytes, InHand, net, Rest, AllBytes)
  /\ LayInv' <=> /\ Begins(GotBytes', AllBytes')
                 /\ Live' => Part(GotBytes', InHand', net', AllBytes')
                 /\ Live' /\ wsock' # "reset" => Whole(GotBytes', InHand', net', Rest', AllBytes')
BY DEF LayInv, GotBytes, AllBytes

\* A step that moves no byte.
LEMMA LaySame ==
  ASSUME LayInv, GotBytes' = GotBytes, AllBytes' = AllBytes,
         Live' => Live /\ InHand' = InHand /\ net' = net /\ Rest' = Rest /\ (wsock = "reset" => wsock' = "reset")
  PROVE  LayInv'
BY LayIs

\* Bytes go from the connection into the reader's hands, or are passed on.
LEMMA LayTake ==
  ASSUME TypeOK, TypeOK', LayInv, Live, NEW x \in Bytes, NEW y \in Bytes, net = Join(x, y), net' = y,
         AllBytes' = AllBytes, Rest' = Rest, wsock' = wsock,
         Join(GotBytes', InHand') = Join(Join(GotBytes, InHand), x)
  PROVE  LayInv' /\ Part(GotBytes', InHand', net', AllBytes')
<1>1. /\ GotBytes \in Bytes /\ InHand \in Bytes /\ net \in Bytes /\ Rest \in Bytes
      /\ AllBytes \in Bytes
  BY LayType DEF LayTypes
<1>2. /\ GotBytes' \in Bytes /\ InHand' \in Bytes /\ net' \in Bytes /\ Rest' \in Bytes
      /\ AllBytes' \in Bytes
  BY LayTypeNext DEF LayTypes
<1>3. /\ Part(GotBytes, InHand, Join(x, y), AllBytes)
      /\ wsock # "reset" => Whole(GotBytes, InHand, Join(x, y), Rest, AllBytes)
  BY LayIs
<1>4. /\ Whole(GotBytes, InHand, Join(x, y), Rest, AllBytes) => Whole(GotBytes', InHand', y, Rest, AllBytes)
      /\ Part(GotBytes, InHand, Join(x, y), AllBytes) => Part(GotBytes', InHand', y, AllBytes)
  BY <1>1, <1>2, LayRead
<1>5. wsock # "reset" => Whole(GotBytes', InHand', y, Rest, AllBytes)
  BY <1>3, <1>4
<1>6. Part(GotBytes', InHand', net', AllBytes')
  BY <1>3, <1>4
<1>7. Begins(GotBytes', AllBytes')
  BY <1>2, <1>6, LayBegins
<1> QED
  BY <1>5, <1>6, <1>7, LayIs

\* The writer's steps do not change what is pending, except when it starts a packet.
LEMMA PendingSame ==
  ASSUME TypeOK, WriterInv, [Next]_vars, ~ SendPacket
  PROVE  Pending' = Pending /\ chan' = chan
<1>1. CASE SendReturn
  BY <1>1 DEF SendReturn, Pending, Held, WriterInv
<1>2. CASE SendSome
  BY <1>2 DEF SendSome, Pending, Held
<1>3. CASE SendFail
  BY <1>3 DEF SendFail, Pending, Held
<1>4. CASE CloseWriter
  BY <1>4 DEF CloseWriter, Pending, Held
<1>5. ASSUME ~ (SendReturn \/ SendSome \/ SendFail \/ CloseWriter)
      PROVE  UNCHANGED writer /\ UNCHANGED chan
  BY <1>5 DEF Next, vars, SendIntr, Receive, RecvSome, RecvIntr, RecvFail, RecvReturn,
     AllFirst, AllMore, AllIntr, AllFail, CloseReader
<1>6. CASE UNCHANGED writer /\ UNCHANGED chan
  BY <1>6 DEF writer, Pending, Held
<1> QED
  BY <1>1, <1>2, <1>3, <1>4, <1>5, <1>6

\* The writer starts a packet, of which nothing has been sent, or refuses it.
LEMMA LaySendPacket ==
  ASSUME IInv, SendPacket
  PROVE  MsgInv' /\ LayInv'
<1>0. wpc = "idle" /\ wbuf = <<>> /\ Pending = sent /\ Rest = <<>> /\ LayTypes
  BY LayType DEF SendPacket, IInv, WriterInv, Pending, Held, Rest
<1>1. UNCHANGED <<chan, net, wsock, sent, reader>>
  BY DEF SendPacket
<1>2. GotBytes' = GotBytes /\ InHand' = InHand /\ Live' = Live
  BY <1>1 DEF GotBytes, InHand, Live, reader
<1>3. PICK m \in Msg :
        /\ chan = "down" => m # <<>>
        /\ msg' = m
        /\ \/ chan = "raw" /\ wbuf' = m /\ wpc' = "data"
           \/ chan # "raw" /\ wbuf' = <<>> /\ wpc' = "thrown"
           \/ chan # "raw" /\ wbuf' = Htonl(Len(m)) /\ wpc' = "len"
  BY DEF SendPacket
<1>4. CASE wpc' = "thrown"
  <2>1. Pending' = Pending /\ Rest' = Rest
    BY <1>0, <1>1, <1>3, <1>4 DEF Pending, Held, Rest
  <2>2. AllBytes' = AllBytes
    BY <1>1, <2>1 DEF AllBytes
  <2>3. LayInv'
    BY <1>1, <1>2, <2>1, <2>2, LaySame DEF IInv
  <2>4. MsgInv'
    BY <1>1, <2>1 DEF IInv, MsgInv, reader
  <2> QED
    BY <2>3, <2>4
<1>5. CASE wpc' # "thrown"
  <2>1. Pending' = Append(sent, m) /\ m \in Bytes /\ sent \in Seq(Bytes)
    BY <1>1, <1>3, <1>5, StreamAssumption DEF Pending, Held, IInv, TypeOK, Bytes
  <2>2. Rest' = Wrap(chan, m)
    BY <1>1, <1>3, <1>5 DEF Rest, Wrap
  <2>3. AllBytes' = Join(AllBytes, Wrap(chan, m)) /\ Wrap(chan, m) \in Bytes
    BY <1>0, <1>1, <2>1, WrapBytes DEF AllBytes
  <2>4. Begins(GotBytes, AllBytes) => Begins(GotBytes, AllBytes')
    BY <1>0, <2>3, BeginsMore DEF LayTypes
  <2>5. /\ Whole(GotBytes, InHand, net, <<>>, AllBytes) => Whole(GotBytes, InHand, net, Rest', AllBytes')
        /\ Part(GotBytes, InHand, net, AllBytes) => Part(GotBytes, InHand, net, AllBytes')
    BY <1>0, <2>2, <2>3, LaySend DEF LayTypes
  <2>6. LayInv'
    BY <1>0, <1>1, <1>2, <2>4, <2>5, LayIs DEF IInv
  <2>7. MsgInv'
    <3>1. Fits(Len(m)) /\ (chan = "down" => Len(m) # 0)
      <4>1. Fits(Len(m))
        BY LengthsFit DEF Fits
      <4>2. m # <<>> => Len(m) # 0
        BY <2>1, EmptySeq DEF Bytes
      <4> QED
        BY <1>3, <4>1, <4>2
    <3>2. /\ Len(Pending') = Len(Pending) + 1 /\ Len(Pending) \in Nat /\ Len(got) \in Nat
          /\ \A i \in 1 .. Len(Pending) : Pending'[i] = Pending[i]
          /\ Pending'[Len(Pending) + 1] = m
      BY <1>0, <2>1, LenProperties, AppendProperties DEF IInv, TypeOK
    <3>3. got' = got /\ chan' = chan
      BY <1>1 DEF reader
    <3> QED
      BY <3>1, <3>2, <3>3 DEF IInv, MsgInv
  <2> QED
    BY <2>6, <2>7
<1> QED
  BY <1>4, <1>5

\* send() accepts the first bytes of what is left.
LEMMA LaySendSome ==
  ASSUME IInv, TypeOK', SendSome, AllBytes' = AllBytes
  PROVE  LayInv'
<1>0. LayTypes /\ LayTypes'
  BY LayType, LayTypeNext DEF IInv
<1>1. PICK x, y \in Bytes : wbuf = Join(x, y) /\ wbuf' = y /\ net' = IF ropen THEN Join(net, x) ELSE <<>>
  BY SendSomeDoes DEF IInv
<1>2. GotBytes' = GotBytes /\ InHand' = InHand /\ Live' = Live
  BY DEF SendSome, GotBytes, InHand, Live, reader
<1>3. wsock = "open" /\ wsock' = wsock
  BY DEF SendSome, IInv, WriterInv
<1>4. Rest = Join(x, Rest')
  <2>1. CASE wpc = "len"
    <3>1. Rest = Join(Join(x, y), msg) /\ Rest' = Join(y, msg) /\ msg \in Bytes
      BY <1>1, <2>1 DEF SendSome, Rest, Join, IInv, TypeOK
    <3> QED
      BY <3>1, JoinFacts
  <2>2. CASE wpc # "len"
    BY <1>1, <2>2 DEF SendSome, Rest
  <2> QED
    BY <2>1, <2>2
<1>5. CASE Live
  <2>1. Whole(GotBytes, InHand, net, Join(x, Rest'), AllBytes) /\ net' = Join(net, x)
    BY <1>1, <1>3, <1>4, <1>5, LayIs DEF IInv, Live
  <2>2. Whole(GotBytes, InHand, net', Rest', AllBytes)
    BY <1>0, <2>1, LayWrite DEF LayTypes
  <2>3. Part(GotBytes, InHand, net', AllBytes)
    BY <1>0, <2>2, LayBegins DEF LayTypes
  <2> QED
    BY <1>2, <2>2, <2>3, LayIs DEF IInv
<1>6. CASE ~ Live
  BY <1>2, <1>6, LaySame DEF IInv
<1> QED
  BY <1>5, <1>6

\* close() in order keeps what is on the way, a reset drops its end.
LEMMA LayCloseWriter ==
  ASSUME IInv, CloseWriter, AllBytes' = AllBytes
  PROVE  LayInv'
<1>0. LayTypes
  BY LayType DEF IInv
<1>1. GotBytes' = GotBytes /\ InHand' = InHand /\ Live' = Live /\ Rest' = Rest /\ wsock = "open"
  BY DEF CloseWriter, GotBytes, InHand, Live, Rest, reader
<1>2. CASE net' = net
  BY <1>1, <1>2, LaySame DEF IInv
<1>3. CASE wsock' = "reset" /\ \E k \in 0 .. Len(net) : net' = SubSeq(net, 1, k)
  <2>1. PICK k \in 0 .. Len(net) : net' = SubSeq(net, 1, k)
    BY <1>3
  <2>2. PICK y \in Bytes : net = Join(net', y) /\ net' \in Bytes
    BY <1>0, <2>1, SplitSeq DEF LayTypes
  <2>3. Live => Part(GotBytes, InHand, Join(net', y), AllBytes)
    BY <2>2, LayIs DEF IInv
  <2>4. Live => Part(GotBytes, InHand, net', AllBytes)
    BY <1>0, <2>2, <2>3, LayReset DEF LayTypes
  <2> QED
    BY <1>1, <1>3, <2>4, LayIs DEF IInv
<1> QED
  BY <1>2, <1>3 DEF CloseWriter

\* The rest of the writer's steps, and a signal: no byte is moved.
LEMMA LayWriterOther ==
  ASSUME IInv, SendIntr \/ SendFail \/ SendReturn \/ RecvIntr, AllBytes' = AllBytes
  PROVE  LayInv'
<1>1. UNCHANGED <<chan, net, reader, wsock>>
  BY DEF SendIntr, SendFail, SendReturn, RecvIntr, writer
<1>2. GotBytes' = GotBytes /\ InHand' = InHand /\ Live' = Live
  BY <1>1 DEF GotBytes, InHand, Live, reader
<1>3. CASE SendFail
  BY <1>1, <1>2, <1>3, LaySame DEF IInv, SendFail, Live
<1>4. CASE SendIntr \/ RecvIntr
  <2>1. Rest' = Rest
    BY <1>4 DEF SendIntr, RecvIntr, writer, Rest
  <2> QED
    BY <1>1, <1>2, <2>1, LaySame DEF IInv
<1>5. CASE SendReturn
  <2>1. Rest' = Rest
    <3>1. CASE wpc = "len"
      <4>1. Rest = Join(<<>>, msg) /\ Rest' = msg /\ msg \in Bytes
        BY <1>5, <3>1 DEF SendReturn, Rest, Join, IInv, TypeOK
      <4> QED
        BY <4>1, JoinFacts
    <3>2. CASE wpc = "data"
      BY <1>5, <3>2 DEF SendReturn, Rest
    <3> QED
      BY <1>5, <3>1, <3>2 DEF SendReturn
  <2> QED
    BY <1>1, <1>2, <2>1, LaySame DEF IInv
<1> QED
  BY <1>3, <1>4, <1>5

\* The reader's steps leave the writer alone.
LEMMA ReaderOnly ==
  ASSUME Receive \/ RecvSome \/ RecvFail \/ RecvReturn \/ AllFirst \/ AllMore \/ AllIntr \/ AllFail \/ CloseReader
  PROVE  Rest' = Rest /\ wsock' = wsock /\ chan' = chan
<1>1. UNCHANGED writer /\ chan' = chan
  BY DEF Receive, RecvSome, RecvFail, RecvReturn, AllFirst, AllMore, AllIntr, AllFail, CloseReader
<1> QED
  BY <1>1 DEF writer, Rest

\* recv() stores the first bytes on the way.
LEMMA LayRecvSome ==
  ASSUME IInv, TypeOK', RecvSome, AllBytes' = AllBytes
  PROVE  LayInv'
<1>0. LayTypes
  BY LayType DEF IInv
<1>1. PICK x, y \in Bytes : net = Join(x, y) /\ net' = y /\ rbuf' = Join(rbuf, x)
  BY RecvSomeDoes DEF IInv
<1>2. Live /\ rbuf \in Bytes
  BY DEF RecvSome, IInv, ReaderInv, Live, TypeOK
<1>3. GotBytes' = GotBytes
  BY DEF RecvSome, GotBytes
<1>4. InHand' = Join(InHand, x)
  <2>1. CASE rpc = "len"
    BY <1>1, <2>1 DEF RecvSome, InHand
  <2>2. CASE rpc = "data"
    <3>1. Htonl(want) \in Bytes
      BY HtonlType DEF IInv, TypeOK, Bytes
    <3>2. InHand = Join(Htonl(want), rbuf) /\ InHand' = Join(Htonl(want), Join(rbuf, x))
      BY <1>1, <2>2 DEF RecvSome, InHand, Join
    <3> QED
      BY <1>2, <3>1, <3>2, JoinFacts
  <2> QED
    BY <2>1, <2>2 DEF RecvSome
<1>5. Join(GotBytes', InHand') = Join(Join(GotBytes, InHand), x)
  BY <1>0, <1>3, <1>4, JoinFacts DEF LayTypes
<1> QED
  BY <1>1, <1>2, <1>5, ReaderOnly, LayTake DEF IInv

\* Steps that neither take a byte off the connection nor pass a packet on.
LEMMA LayReaderOther ==
  ASSUME IInv, Receive \/ RecvFail \/ AllIntr \/ AllFail \/ CloseReader, AllBytes' = AllBytes
  PROVE  LayInv'
<1>1. GotBytes' = GotBytes
  BY DEF Receive, RecvFail, AllIntr, AllFail, CloseReader, GotBytes
<1>2. Live' => Live /\ InHand' = InHand /\ net' = net
  <2>1. CASE Receive
    BY <2>1 DEF Receive, Live, InHand
  <2>2. CASE AllIntr
    BY <2>2 DEF AllIntr, Live, InHand
  <2>3. CASE RecvFail \/ AllFail \/ CloseReader
    BY <2>3 DEF RecvFail, AllFail, CloseReader, Live
  <2> QED
    BY <2>1, <2>2, <2>3
<1> QED
  BY <1>1, <1>2, ReaderOnly, LaySame DEF IInv

\* A length has come: it is that of the packet whose turn it is, and not zero below.
LEMMA LayRecvLength ==
  ASSUME IInv, RecvReturn, rpc = "len", AllBytes' = AllBytes
  PROVE  LayInv' /\ got' = got
<1>0. LayTypes /\ got' = got /\ GotBytes' = GotBytes /\ net' = net /\ ropen' = ropen
  BY LayType DEF IInv, RecvReturn, GotBytes
<1>1. Ntohl(rbuf) \in Nat /\ Htonl(Ntohl(rbuf)) = rbuf /\ Len(rbuf) = 4 /\ rbuf \in Bytes
  BY LengthRead DEF IInv, RecvReturn, TypeOK
<1>2. Live /\ chan # "raw" /\ InHand = rbuf
  BY DEF IInv, ReaderInv, Live, InHand
<1>3. CASE rpc' = "thrown"
  BY <1>0, <1>3, LaySame DEF IInv, Live
<1>4. CASE rpc' = "data"
  <2>1. want' = Ntohl(rbuf) /\ rbuf' = <<>>
    BY <1>4 DEF RecvReturn
  <2>2. InHand' = Join(rbuf, <<>>)
    BY <1>1, <1>4, <2>1 DEF InHand, Join
  <2>3. InHand' = InHand
    BY <1>1, <1>2, <2>2, JoinFacts
  <2> QED
    BY <1>0, <1>2, <2>3, ReaderOnly, LaySame DEF IInv
<1>5. ASSUME rpc' = "done" PROVE FALSE
  <2>1. chan = "down" /\ Ntohl(rbuf) = 0
    BY <1>2, <1>5 DEF RecvReturn, IInv, TypeOK
  <2>2. Begins(Join(GotBytes, rbuf), AllBytes)
    <3>1. Begins(Join(Join(GotBytes, rbuf), net), AllBytes)
      BY <1>2, LayIs DEF IInv, Part
    <3>2. Join(GotBytes, rbuf) \in Bytes
      BY <1>0, <1>1, JoinFacts DEF LayTypes
    <3> QED
      BY <1>0, <3>1, <3>2, BeginsMore DEF LayTypes
  <2>3. IsFirst(got, Pending) /\ got \in Seq(Bytes) /\ Pending \in Seq(Bytes)
    BY <1>0, <1>2 DEF IInv, MsgInv, IsFirst, TypeOK, LayTypes
  <2>4. Len(got) < Len(Pending) /\ rbuf = Htonl(Len(Pending[Len(got) + 1]))
    BY <1>1, <1>2, <2>2, <2>3, ReadLength DEF GotBytes, AllBytes
  <2>5. Len(got) + 1 \in 1 .. Len(Pending) /\ Pending[Len(got) + 1] \in Bytes
    BY <2>3, <2>4, ElementOfSeq, LenProperties
  <2>6. Fits(Len(Pending[Len(got) + 1])) /\ Len(Pending[Len(got) + 1]) # 0
    BY <1>2, <2>1, <2>5 DEF IInv, MsgInv
  <2>7. Ntohl(rbuf) = Len(Pending[Len(got) + 1])
    BY <2>4, <2>5, <2>6, LenBytes, FitsSurvive
  <2> QED
    BY <2>1, <2>6, <2>7
<1>6. rpc' \in {"thrown", "data", "done"}
  BY DEF RecvReturn
<1> QED
  BY <1>0, <1>3, <1>4, <1>5, <1>6

\* A body has come: it is passed on, and it is the packet that was sent.
LEMMA LayRecvBody ==
  ASSUME IInv, TypeOK', RecvReturn, rpc = "data", AllBytes' = AllBytes, Pending' = Pending
  PROVE  LayInv' /\ MsgInv'
<1>0. LayTypes
  BY LayType DEF IInv
<1>1. got' = Append(got, rbuf) /\ rpc' = "idle" /\ net' = net /\ Len(rbuf) = want /\ chan' = chan
  BY DEF RecvReturn
<1>2. Live /\ chan # "raw" /\ rbuf \in Bytes /\ got \in Seq(Bytes) /\ Fits(want) /\ net \in Bytes
  BY DEF IInv, ReaderInv, Live, TypeOK
<1>3. InHand = Wrap(chan, rbuf) /\ InHand = Join(Htonl(Len(rbuf)), rbuf) /\ InHand' = <<>>
  BY <1>1, <1>2 DEF InHand, Wrap, Join
<1>4. GotBytes' = Join(GotBytes, InHand)
  <2>1. WrapAll(chan, Append(got, rbuf)) = Join(WrapAll(chan, got), Wrap(chan, rbuf))
    BY <1>2, WrapBytes
  <2> QED
    BY <1>1, <1>3, <2>1 DEF GotBytes
<1>5. Join(GotBytes', InHand') = Join(Join(GotBytes, InHand), <<>>) /\ net = Join(<<>>, net)
  BY <1>2, <1>3, <1>4, JoinFacts
<1>6. LayInv'
  BY <1>1, <1>2, <1>5, JoinFacts, ReaderOnly, LayTake DEF IInv
<1>7. PICK u \in Bytes : Join(Join(GotBytes, InHand), u) = AllBytes
  <2>1. Begins(Join(Join(GotBytes, InHand), net), AllBytes) /\ Join(GotBytes, InHand) \in Bytes
    BY <1>0, <1>2, LayIs, JoinFacts DEF IInv, Part, LayTypes
  <2>2. Begins(Join(GotBytes, InHand), AllBytes)
    BY <1>0, <2>1, BeginsMore DEF LayTypes
  <2> QED
    BY <2>2 DEF Begins
<1>8. IsFirst(got, Pending) /\ Pending \in Seq(Bytes) /\ \A i \in 1 .. Len(Pending) : Fits(Len(Pending[i]))
  BY <1>0, <1>2 DEF IInv, MsgInv, IsFirst, LayTypes
<1>9. Len(got) < Len(Pending) /\ rbuf = Pending[Len(got) + 1]
  BY <1>1, <1>2, <1>3, <1>7, <1>8, ReadPacket DEF GotBytes, AllBytes
<1>10. IsFirst(got', Pending)
  <2>1. /\ Len(got') = Len(got) + 1 /\ Len(got) \in Nat /\ Len(Pending) \in Nat
        /\ \A i \in 1 .. Len(got) : got'[i] = got[i]
        /\ got'[Len(got) + 1] = rbuf
    BY <1>0, <1>1, <1>2, LenProperties, AppendProperties DEF LayTypes
  <2> QED
    BY <1>8, <1>9, <2>1 DEF IsFirst
<1>11. MsgInv'
  BY <1>1, <1>10 DEF IInv, MsgInv, IsFirst
<1> QED
  BY <1>6, <1>11

\* recvall passes on what it has taken, or waits for more, or has met the end.
LEMMA LayAll ==
  ASSUME IInv, TypeOK', AllFirst \/ AllMore, AllBytes' = AllBytes
  PROVE  LayInv' /\ chan' = "raw"
<1>0. LayTypes /\ Live /\ chan = "raw" /\ chan' = chan /\ InHand = rbuf
  BY LayType, ReaderOnly DEF IInv, ReaderInv, AllFirst, AllMore, Live, InHand
<1>1. PICK x, y \in Bytes : /\ net = Join(x, y) /\ net' = y
                            /\ \/ AllDoes(Join(InHand, x))
                               \/ rpc' = "more" /\ rbuf' = Join(InHand, x) /\ got' = got
  <2>1. CASE AllMore
    BY <1>0, <2>1, AllMoreDoes DEF IInv
  <2>2. CASE AllFirst
    <3>1. InHand = <<>>
      BY <1>0, <2>2 DEF AllFirst, IInv, ReaderInv
    <3>2. \A x \in Bytes : Join(InHand, x) = x
      BY <3>1, JoinFacts
    <3> QED
      BY <2>2, <3>2, AllFirstDoes DEF IInv
  <2> QED
    BY <2>1, <2>2
<1>2. Join(InHand, x) \in Bytes /\ Join(Join(GotBytes, InHand), x) = Join(GotBytes, Join(InHand, x))
  BY <1>0, JoinFacts DEF LayTypes
<1>3. Join(GotBytes', InHand') = Join(GotBytes, Join(InHand, x))
  <2>1. CASE rpc' = "more" /\ rbuf' = Join(InHand, x) /\ got' = got
    BY <1>0, <2>1 DEF GotBytes, InHand
  <2>2. CASE AllDoes(Join(InHand, x)) /\ Join(InHand, x) = <<>>
    <3>1. got' = got /\ InHand' = <<>>
      BY <2>2 DEF AllDoes, InHand
    <3> QED
      BY <1>0, <2>2, <3>1 DEF GotBytes
  <2>3. CASE AllDoes(Join(InHand, x)) /\ Join(InHand, x) # <<>>
    <3>1. got' = Append(got, Join(InHand, x)) /\ InHand' = <<>>
      BY <2>3 DEF AllDoes, InHand
    <3>2. Wrap(chan, Join(InHand, x)) = Join(InHand, x)
      BY <1>0 DEF Wrap
    <3>3. GotBytes' = Join(GotBytes, Join(InHand, x))
      BY <1>0, <1>2, <3>1, <3>2, WrapBytes DEF GotBytes, IInv, TypeOK
    <3>4. Join(GotBytes, Join(InHand, x)) \in Bytes
      BY <1>0, <1>2, JoinFacts DEF LayTypes
    <3> QED
      BY <3>1, <3>3, <3>4, JoinFacts
  <2> QED
    BY <1>1, <2>1, <2>2, <2>3
<1>4. LayInv'
  BY <1>0, <1>1, <1>2, <1>3, ReaderOnly, LayTake DEF IInv
<1> QED
  BY <1>0, <1>4

-----------------------------------------------------------------------------
(* The theorems. *)

LEMMA InitIInv == Init => IInv
<1> SUFFICES ASSUME Init PROVE IInv
  OBVIOUS
<1>1. TypeOK /\ WriterInv /\ ReaderInv /\ BufInv
  BY InitControl
<1>2. got = <<>> /\ Pending = <<>> /\ InHand = <<>> /\ net = <<>> /\ Rest = <<>>
  BY DEF Init, Pending, Held, InHand, Rest
<1>3. GotBytes = <<>> /\ AllBytes = <<>>
  BY <1>2, WrapAllEmpty DEF GotBytes, AllBytes
<1>4. Join(<<>>, <<>>) = <<>> /\ <<>> \in Bytes
  BY JoinFacts
<1>5. LayInv
  BY <1>2, <1>3, <1>4, LayIs DEF Begins, Part, Whole
<1>6. MsgInv
  BY <1>2 DEF MsgInv
<1> QED
  BY <1>1, <1>5, <1>6 DEF IInv

LEMMA StepIInv == IInv /\ [Next]_vars => IInv'
<1> SUFFICES ASSUME IInv, [Next]_vars PROVE IInv'
  OBVIOUS
<1>1. TypeOK' /\ WriterInv' /\ ReaderInv' /\ BufInv'
  BY TypeStep, WriterStep, ReaderStep DEF IInv
<1>2. ASSUME ~ SendPacket PROVE Pending' = Pending /\ chan' = chan /\ AllBytes' = AllBytes
  BY <1>2, PendingSame DEF AllBytes, IInv
<1>3. ASSUME ~ SendPacket, got' = got PROVE MsgInv'
  BY <1>2, <1>3 DEF IInv, MsgInv
<1>4. CASE SendPacket
  BY <1>1, <1>4, LaySendPacket DEF IInv
<1>5. CASE ~ SendPacket /\ (SendSome \/ CloseWriter \/ SendIntr \/ SendFail \/ SendReturn \/ RecvIntr)
  <2>1. got' = got
    BY <1>5 DEF SendSome, CloseWriter, SendIntr, SendFail, SendReturn, RecvIntr, reader
  <2>2. LayInv'
    BY <1>1, <1>2, <1>5, LaySendSome, LayCloseWriter, LayWriterOther
  <2> QED
    BY <1>1, <1>3, <1>5, <2>1, <2>2 DEF IInv
<1>6. CASE ~ SendPacket /\ (RecvSome \/ Receive \/ RecvFail \/ AllIntr \/ AllFail \/ CloseReader)
  <2>1. got' = got
    BY <1>6 DEF RecvSome, Receive, RecvFail, AllIntr, AllFail, CloseReader
  <2>2. LayInv'
    BY <1>1, <1>2, <1>6, LayRecvSome, LayReaderOther
  <2> QED
    BY <1>1, <1>3, <1>6, <2>1, <2>2 DEF IInv
<1>7. CASE ~ SendPacket /\ RecvReturn
  <2>1. CASE rpc = "len"
    BY <1>1, <1>2, <1>3, <1>7, <2>1, LayRecvLength DEF IInv
  <2>2. CASE rpc = "data"
    BY <1>1, <1>2, <1>7, <2>2, LayRecvBody DEF IInv
  <2> QED
    BY <1>7, <2>1, <2>2 DEF RecvReturn
<1>8. CASE ~ SendPacket /\ (AllFirst \/ AllMore)
  <2>1. LayInv' /\ chan' = "raw"
    BY <1>1, <1>2, <1>8, LayAll
  <2>2. MsgInv'
    BY <2>1 DEF MsgInv
  <2> QED
    BY <1>1, <2>1, <2>2 DEF IInv
<1>9. CASE UNCHANGED vars
  <2>1. UNCHANGED <<chan, net, writer, reader>>
    BY <1>9 DEF vars
  <2>2. GotBytes' = GotBytes /\ InHand' = InHand /\ Live' = Live /\ Rest' = Rest /\ Pending' = Pending
    BY <2>1 DEF writer, reader, GotBytes, InHand, Live, Rest, Pending, Held
  <2>3. AllBytes' = AllBytes
    BY <2>1, <2>2 DEF AllBytes
  <2>4. LayInv'
    BY <2>1, <2>2, <2>3, LaySame DEF IInv, writer
  <2>5. MsgInv'
    BY <2>1, <2>2 DEF IInv, MsgInv, reader
  <2> QED
    BY <1>1, <2>4, <2>5 DEF IInv
<1> QED
  BY <1>4, <1>5, <1>6, <1>7, <1>8, <1>9 DEF Next

\* The bytes and the packets of sendn, recvn, recvall and readall stay where IInv places them.
THEOREM SpecIInv == Spec => []IInv
BY InitIInv, StepIInv, PTL DEF Spec

\* For every size of the packets, of the connection and of the buffers: sendn and recvn, or
\* recvall, lay the packets out once and in order over what was received, the reader's hands,
\* the connection and the writer's, whatever the kernel moves in a call.
THEOREM StreamStaysAligned == Spec => []StreamAligned
<1>1. IInv => StreamAligned
  <2> SUFFICES ASSUME IInv PROVE StreamAligned
    OBVIOUS
  <2>1. LayTypes
    BY LayType DEF IInv
  <2>2. Frames(got) = GotBytes /\ Frames(sent) = WrapAll(chan, sent) /\ Frame(msg) = Wrap(chan, msg)
    BY FramesAreWraps DEF GotBytes
  <2>3. Frames(sent) \o Current = AllBytes
    <3>1. /\ WrapAll(chan, sent) \in Bytes
          /\ WrapAll(chan, Append(sent, msg)) = Join(WrapAll(chan, sent), Wrap(chan, msg))
      BY WrapBytes DEF IInv, TypeOK
    <3>2. CASE Held
      BY <2>2, <3>1, <3>2 DEF Held, Current, AllBytes, Pending, Join
    <3>3. CASE ~ Held
      <4>1. Current = <<>> /\ AllBytes = WrapAll(chan, sent)
        BY <3>3 DEF Held, Current, AllBytes, Pending
      <4>2. Join(WrapAll(chan, sent), <<>>) = WrapAll(chan, sent)
        BY <3>1, JoinFacts
      <4> QED
        BY <2>2, <4>1, <4>2 DEF Join
    <3> QED
      BY <3>2, <3>3
  <2>4. IsStart(GotBytes, AllBytes)
    BY <2>1, LayIs, BeginsIsStart DEF IInv, LayTypes
  <2>5. ropen /\ wsock # "reset" /\ rpc # "thrown" => GotBytes \o InHand \o net \o Rest = AllBytes
    BY LayIs DEF IInv, Live, Whole, Join
  <2> QED
    BY <2>2, <2>3, <2>4, <2>5 DEF StreamAligned
<1> QED
  BY <1>1, SpecIInv, PTL

\* Every buffer of the reader is freed or passed on, but for the one that recvall, or
\* recv_length_and_packet, loses when a read fails.
THEOREM BuffersAreReturned == Spec => []BuffersReturned
<1>1. IInv => BuffersReturned
  BY DEF IInv, TypeOK, BufInv, BuffersReturned
<1> QED
  BY <1>1, SpecIInv, PTL

-----------------------------------------------------------------------------
(* The loops implement FrameChannel, but for its fairness. *)

\* Between two packets, what was received are packets all of whose bytes were sent.
GotSent == chan # "raw" /\ ropen /\ rpc = "idle" => IsFirst(got, Sent)

LEMMA ReceivedWasSent == IInv => GotSent
<1> SUFFICES ASSUME IInv, chan # "raw", ropen, rpc = "idle" PROVE IsFirst(got, Sent)
  BY DEF GotSent
<1>0. LayTypes /\ Live /\ InHand = <<>>
  BY LayType DEF IInv, Live, InHand
<1>1. IsFirst(got, Pending)
  BY DEF IInv, MsgInv, IsFirst
<1>2. CASE Sent = Pending
  BY <1>1, <1>2
<1>3. CASE Sent # Pending
  <2>1. Held /\ wpc \in {"len", "data"} /\ Rest # <<>> /\ Sent = sent /\ Pending = Append(sent, msg)
    BY <1>3 DEF IInv, WriterInv, Sent, Pending, Held
  <2>2. Len(got) # Len(Pending)
    <3> SUFFICES ASSUME Len(got) = Len(Pending) PROVE FALSE
      OBVIOUS
    <3>1. got = Pending
      BY <1>0, <1>1, SeqEqual DEF IsFirst, IInv, TypeOK, LayTypes
    <3>2. GotBytes = AllBytes
      BY <3>1 DEF GotBytes, AllBytes
    <3>3. wsock = "open"
      BY <2>1 DEF IInv, WriterInv
    <3>4. Join(Join(Join(AllBytes, <<>>), net), Rest) = AllBytes
      BY <1>0, <3>2, <3>3, LayIs DEF IInv, Whole
    <3>5. /\ Join(AllBytes, <<>>) = AllBytes
          /\ Join(Join(AllBytes, net), Rest) = Join(AllBytes, Join(net, Rest))
          /\ Join(net, Rest) \in Bytes
      BY <1>0, JoinFacts DEF LayTypes
    <3>6. Join(AllBytes, Join(net, Rest)) = Join(AllBytes, <<>>)
      BY <3>4, <3>5
    <3>7. Join(net, Rest) = <<>>
      BY <1>0, <3>5, <3>6, JoinCancel, JoinFacts DEF LayTypes
    <3> QED
      BY <1>0, <2>1, <3>7, JoinCancel DEF LayTypes
  <2>3. /\ Len(Pending) = Len(sent) + 1 /\ Len(sent) \in Nat /\ Len(got) \in Nat
        /\ \A i \in 1 .. Len(sent) : Pending[i] = sent[i]
    BY <2>1, LenProperties, AppendProperties DEF IInv, TypeOK
  <2> QED
    BY <1>1, <2>1, <2>2, <2>3 DEF IsFirst
<1> QED
  BY <1>2, <1>3

LEMMA ReceivedWasSentNext == IInv' => GotSent'
BY ReceivedWasSent, PTL

\* The packets sent, as FrameChannel sees them.
LEMMA SentStep ==
  ASSUME IInv, [Next]_vars, chan # "raw"
  PROVE  \/ Sent' = Sent
         \/ /\ wsock = "open" /\ \E m \in Msg : Sent' = Append(Sent, m)
            /\ UNCHANGED <<got, wsock, ropen, chan>>
<1>1. CASE SendPacket
  <2>1. wpc = "idle" /\ Sent = sent
    BY <1>1 DEF SendPacket, Sent
  <2>2. sent' = sent /\ (wpc' = "thrown" \/ \E m \in Msg : msg' = m /\ wbuf' = Htonl(Len(m)) /\ wpc' = "len")
    BY <1>1 DEF SendPacket
  <2>3. ASSUME wpc' = "len" PROVE Rest' # <<>>
    <3>1. PICK m \in Msg : msg' = m /\ wbuf' = Htonl(Len(m))
      BY <2>2, <2>3
    <3>2. m \in Bytes /\ Len(m) \in Nat
      BY StreamAssumption, LenBytes DEF Bytes
    <3>3. Htonl(Len(m)) \in Bytes /\ Htonl(Len(m)) # <<>>
      BY <3>2, HtonlType, FourAreSome DEF Bytes
    <3>4. Rest' = Join(Htonl(Len(m)), m)
      BY <2>3, <3>1 DEF Rest, Join
    <3> QED
      BY <3>2, <3>3, <3>4, JoinCancel
  <2> QED
    BY <2>1, <2>2, <2>3 DEF Sent
<1>2. CASE SendSome
  <2>1. wbuf # <<>> /\ wpc \in {"len", "data"} /\ wpc' = wpc /\ sent' = sent /\ msg' = msg
        /\ UNCHANGED <<got, wsock, ropen, chan>>
    BY <1>2 DEF SendSome, reader
  <2>2. Rest # <<>>
    <3>1. wbuf \in Bytes /\ msg \in Bytes
      BY DEF IInv, TypeOK
    <3>2. Join(wbuf, msg) # <<>>
      BY <2>1, <3>1, JoinCancel
    <3> QED
      BY <2>1, <3>2 DEF Rest, Join
  <2>3. Sent = sent /\ wsock = "open" /\ msg \in Msg
    BY <2>1, <2>2 DEF Sent, IInv, WriterInv
  <2> QED
    BY <2>1, <2>3 DEF Sent
<1>3. CASE SendFail
  <2>1. wbuf # <<>> /\ wpc \in {"len", "data"} /\ wpc' \in {"thrown", "killed"} /\ sent' = sent
    BY <1>3 DEF SendFail
  <2>2. Rest # <<>>
    <3>1. wbuf \in Bytes /\ msg \in Bytes
      BY DEF IInv, TypeOK
    <3>2. Join(wbuf, msg) # <<>>
      BY <2>1, <3>1, JoinCancel
    <3> QED
      BY <2>1, <3>2 DEF Rest, Join
  <2> QED
    BY <2>1, <2>2 DEF Sent
<1>4. CASE SendReturn
  <2>1. CASE wpc = "len"
    <3>1. Rest = Join(<<>>, msg) /\ Rest' = msg /\ msg \in Bytes
      BY <1>4, <2>1 DEF SendReturn, Rest, Join, IInv, TypeOK
    <3>2. Rest' = Rest
      BY <3>1, JoinFacts
    <3> QED
      BY <1>4, <2>1, <3>2 DEF SendReturn, Sent
  <2>2. CASE wpc = "data"
    BY <1>4, <2>2 DEF SendReturn, Sent, Rest
  <2> QED
    BY <1>4, <2>1, <2>2 DEF SendReturn
<1>5. CASE CloseWriter
  BY <1>5 DEF CloseWriter, Sent
<1>6. CASE UNCHANGED writer
  BY <1>6 DEF writer, Sent, Rest
<1>7. ASSUME ~ (SendPacket \/ SendSome \/ SendFail \/ SendReturn \/ CloseWriter)
      PROVE  UNCHANGED writer
  BY <1>7 DEF Next, vars, SendIntr, Receive, RecvSome, RecvIntr, RecvFail, RecvReturn,
     AllFirst, AllMore, AllIntr, AllFail, CloseReader
<1> QED
  BY <1>1, <1>2, <1>3, <1>4, <1>5, <1>6, <1>7

\* The other variables of FrameChannel: a step changes one of them at most.
LEMMA EndsStep ==
  ASSUME IInv, [Next]_vars
  PROVE  /\ chan' = chan
         /\ \/ UNCHANGED <<got, wsock, ropen>>
            \/ ~ RecvReturn /\ wsock = "open" /\ wsock' # "open" /\ UNCHANGED <<got, ropen, Sent>>
            \/ ~ RecvReturn /\ ropen /\ ~ ropen' /\ UNCHANGED <<got, wsock, Sent>>
            \/ RecvReturn /\ rpc = "data" /\ UNCHANGED <<wsock, ropen, Sent>>
            \/ chan = "raw" /\ UNCHANGED <<wsock, ropen>>
<1>1. CASE CloseWriter
  BY <1>1 DEF CloseWriter, reader, Sent, RecvReturn, writer
<1>2. CASE CloseReader
  BY <1>2 DEF CloseReader, writer, Sent, Rest, RecvReturn
<1>3. CASE RecvReturn
  <2>1. UNCHANGED <<chan, wsock, ropen, Sent>>
    BY <1>3 DEF RecvReturn, writer, Sent, Rest
  <2> QED
    BY <1>3, <2>1 DEF RecvReturn
<1>4. CASE AllFirst \/ AllMore
  BY <1>4 DEF AllFirst, AllMore, writer, IInv, ReaderInv
<1>5. ASSUME ~ (CloseWriter \/ CloseReader \/ RecvReturn \/ AllFirst \/ AllMore)
      PROVE  UNCHANGED <<chan, got, wsock, ropen>>
  BY <1>5 DEF Next, vars, SendPacket, SendSome, SendIntr, SendFail, SendReturn, Receive, RecvSome, RecvIntr,
     RecvFail, AllIntr, AllFail, writer, reader
<1> QED
  BY <1>1, <1>2, <1>3, <1>4, <1>5

LEMMA TunnelInit == Init => Tunnel!Init
<1> SUFFICES ASSUME Init PROVE Tunnel!Init
  OBVIOUS
<1>1. got = <<>> /\ Sent = <<>> /\ wsock = "open" /\ ropen = TRUE
  BY DEF Init, Sent
<1> QED
  BY <1>1 DEF Tunnel!Init

LEMMA TunnelStep == IInv /\ [Next]_vars => [Tunnel!Next]_(Tunnel!vars)
<1> SUFFICES ASSUME IInv, [Next]_vars PROVE [Tunnel!Next]_(Tunnel!vars)
  OBVIOUS
<1> DEFINE TSent == IF chan = "raw" THEN <<>> ELSE Sent
           TGot == IF chan = "raw" THEN <<>> ELSE got
<1>0. chan' = chan
  BY EndsStep
<1>1. CASE UNCHANGED <<got, wsock, ropen>>
  <2>1. UNCHANGED <<TGot, wsock, ropen>>
    BY <1>0, <1>1
  <2>2. TSent' = TSent \/ (wsock = "open" /\ \E m \in Msg : TSent' = Append(TSent, m))
    BY <1>0, SentStep
  <2> QED
    BY <2>1, <2>2 DEF Tunnel!vars, Tunnel!Next, Tunnel!Send
<1>2. CASE wsock = "open" /\ wsock' # "open" /\ UNCHANGED <<got, ropen, Sent>>
  <2>1. UNCHANGED <<TSent, TGot, ropen>>
    BY <1>0, <1>2
  <2> QED
    BY <1>2, <2>1 DEF Tunnel!Next, Tunnel!EndSender
<1>3. CASE ropen /\ ~ ropen' /\ UNCHANGED <<got, wsock, Sent>>
  <2>1. UNCHANGED <<TSent, TGot, wsock>>
    BY <1>0, <1>3
  <2>2. ropen' = FALSE
    BY <1>3, StepIInv DEF IInv, TypeOK
  <2> QED
    BY <1>3, <2>1, <2>2 DEF Tunnel!Next, Tunnel!EndReceiver
<1>4. CASE RecvReturn /\ rpc = "data" /\ UNCHANGED <<wsock, ropen, Sent>>
  <2>1. /\ got' = Append(got, rbuf) /\ rpc' = "idle" /\ chan # "raw" /\ ropen /\ got \in Seq(Bytes)
        /\ rbuf \in Bytes
    BY <1>4 DEF RecvReturn, IInv, ReaderInv, TypeOK
  <2>2. IsFirst(got', Sent)
    BY <1>0, <1>4, <2>1, StepIInv, ReceivedWasSentNext DEF GotSent
  <2>3. Len(got') = Len(got) + 1 /\ got'[Len(got) + 1] = rbuf /\ Len(got) \in Nat
    BY <2>1, LenProperties, AppendProperties
  <2>4. Len(got) + 1 <= Len(Sent) /\ rbuf = Sent[Len(got) + 1]
    BY <2>2, <2>3 DEF IsFirst
  <2>5. Len(got) < Len(Sent)
    <3>1. Len(Sent) \in Nat
      <4>1. Append(sent, msg) \in Seq(Bytes) /\ sent \in Seq(Bytes)
        BY WrapBytes DEF IInv, TypeOK
      <4>2. Sent \in Seq(Bytes)
        BY <4>1 DEF Sent
      <4> QED
        BY <4>2, LenProperties
    <3> QED
      BY <2>3, <2>4, <3>1
  <2>6. TGot = got /\ TGot' = got' /\ TSent = Sent /\ TSent' = TSent
    BY <1>0, <1>4, <2>1
  <2> QED
    BY <1>4, <2>1, <2>4, <2>5, <2>6 DEF Tunnel!Next, Tunnel!Receive
<1>5. CASE chan = "raw" /\ UNCHANGED <<wsock, ropen>>
  <2>1. UNCHANGED <<TSent, TGot>>
    BY <1>0, <1>5
  <2> QED
    BY <1>5, <2>1 DEF Tunnel!vars
<1> QED
  BY <1>1, <1>2, <1>3, <1>4, <1>5, EndsStep

\* Whole packets, in the order of their sending, and nothing else: every step of the loops is a
\* step of FrameChannel, or none.  (That what was sent arrives, the fairness of FrameChannel,
\* is left to the run that checks CarriesPackets.)
THEOREM LoopsCarryWholePackets == Spec => Tunnel!Init /\ [][Tunnel!Next]_(Tunnel!vars)
BY TunnelInit, TunnelStep, SpecIInv, PTL DEF Spec
=============================================================================
