---------------------------- MODULE PacketCodec ----------------------------
(***************************************************************************)
(* The two encryption modules that skcli and sksrv load: se_proxy (AES     *)
(* with a session key drawn by the server) and simple_proxy (XOR with the  *)
(* sum of the passphrase).  One client and one server authenticate, then   *)
(* encode and decode packets in both directions, one at a time.            *)
(*                                                                         *)
(* A buffer is a sequence of bytes, so that the padding, the layout of     *)
(* data_struct, the length fields and the cipher are those of the code.    *)
(***************************************************************************)
EXTENDS AesCipher

CONSTANTS
  Passphrase,   \* the passphrases the two configuration files may hold
  Digits,       \* what sprintf may print for rand(): decimal digits as bytes
  Ip,           \* destination_ip: 16 bytes
  Port,         \* destination_port
  Payload,      \* the payloads of the packets: sequences of bytes
  Junk,         \* what malloc may leave in the bytes that nothing is assigned to
  Heap          \* what may follow a buffer of one byte: 15 bytes

CodecAssumption ==
  /\ Passphrase \subseteq Seq(Byte)
  /\ \A d \in Digits : d \in Seq(48 .. 57) /\ Len(d) \in 1 .. 10
  /\ \A a \in Ip : a \in Seq(Byte) /\ Len(a) = 16
  /\ Port \subseteq 0 .. 65535
  /\ \A p \in Payload : p \in Seq(Byte) /\ Len(p) < 16777216
  /\ Junk \subseteq [1 .. 5 -> Byte]
  /\ \A h \in Heap : h \in Seq(Byte) /\ Len(h) = 15

\* AUTH_STR "SE_PROXYv1" and MAGIC_STR "SE_MAGIC" as bytes.
AUTH_STR  == <<83, 69, 95, 80, 82, 79, 88, 89, 118, 49>>
MAGIC_STR == <<83, 69, 95, 77, 65, 71, 73, 67>>

-----------------------------------------------------------------------------
(* module_util/aes.c *)

Zeros(n) == [i \in 1 .. n |-> 0]

\* Variant: a multiple of the block size is left as it is.
RoundUpExact(base, mult) == ((base + mult - 1) \div mult) * mult

\* Always adds something: a multiple of the block size grows by a whole block.
RoundUp(base, mult) == (base \div mult) * mult + mult

\* The first 16 bytes of the key, padded with zeros.
RKey(key) == IF Len(key) < 16 THEN key \o Zeros(16 - Len(key)) ELSE SubSeq(key, 1, 16)

\* The mode_fill padding: zeros, then the number of bytes added.
Fill(src) ==
  LET n     == RoundUp(Len(src), 16)
      delta == n - Len(src)
  IN  [i \in 1 .. n |-> IF i <= Len(src) THEN src[i] ELSE IF i = n THEN delta ELSE 0]

\* AES_ECB_encrypt copies the buffer and encrypts its first block only.
AES_ECB_encrypt(input, key) == Cipher(SubSeq(input, 1, 16), key) \o SubSeq(input, 17, Len(input))
AES_ECB_decrypt(input, key) == InvCipher(SubSeq(input, 1, 16), key) \o SubSeq(input, 17, Len(input))

AESEncrypt(src, key) == AES_ECB_encrypt(Fill(src), RKey(key))
AESDecrypt(src, key) == AES_ECB_decrypt(src, RKey(key))

\* srclen - result[srclen - 1], where char is signed.  A negative difference is a size_t (or
\* a uint32_t) far beyond the buffer.
RealLen(result) == Len(result) - (IF Last(result) < 128 THEN Last(result) ELSE Last(result) - 256)

-----------------------------------------------------------------------------
(* struct data_struct of the encode and decode functions *)

LittleEndian(n, width) == [i \in 1 .. width |-> (n \div 256 ^ (i - 1)) % 256]

\* The address, the port, two bytes of alignment, plsz, the payload, and the three bytes
\* by which sizeof(struct data_struct) - 1 exceeds the offset of the payload.  The five
\* bytes that nothing is assigned to are those malloc left there.
DataStruct(q, junk) ==
  LET len  == Len(q.payload)
      port == LittleEndian(q.port, 2)
      plsz == LittleEndian(len, 4)
  IN  [i \in 1 .. 27 + len |->
        CASE i \in 1 .. 16              -> q.ip[i]
          [] i \in 17 .. 18             -> port[i - 16]
          [] i \in 19 .. 20             -> junk[i - 18]
          [] i \in 21 .. 24             -> plsz[i - 20]
          [] i \in 25 .. 24 + len       -> q.payload[i - 24]
          [] i \in 25 + len .. 27 + len -> junk[i - 22 - len]]

Plsz(buf) == buf[21] + 256 * buf[22] + 65536 * buf[23] + 16777216 * buf[24]

\* A decode function copies memory from beyond the buffer when plsz says that there is more.
Wild(buf, n) == n \notin 0 .. 24 /\ Plsz(buf) > Len(buf) - 24

\* What a decode function may otherwise make of the first n bytes of a buffer: when they
\* are too few, an empty payload and an address that nothing was assigned to.
Queries(buf, n) ==
  IF n \in 0 .. 24 THEN [ip : Ip, port : Port, payload : {<<>>}]
  ELSE {[ip |-> SubSeq(buf, 1, 16), port |-> buf[17] + 256 * buf[18],
         payload |-> SubSeq(buf, 25, 24 + Plsz(buf))]}

-----------------------------------------------------------------------------
VARIABLES
  mod,          \* the module both ends have loaded
  cpass, spass, \* conn->passphrase of the client and of the server
  ckey, skey,   \* conn->additional_info: se_proxy's session key at either end
  pc,           \* where the session is
  wire,         \* the message in flight, or none: <<>>
  query, out    \* the packet encoded last, and what was decoded from it: <<>> or <<packet>>

vars == <<mod, cpass, spass, ckey, skey, pc, wire, query, out>>

NoKey    == <<>>
None     == <<>>
Packet   == [ip : Ip, port : Port, payload : Payload]

Init ==
  /\ mod \in {"se", "simple"}
  /\ cpass \in Passphrase /\ spass \in Passphrase
  /\ ckey = NoKey /\ skey = NoKey
  /\ pc = "start" /\ wire = None
  /\ query = None /\ out = None

-----------------------------------------------------------------------------
(* se_proxy *)

SeMakeAuthQuery ==
  /\ mod = "se" /\ pc = "start"
  /\ pc' = "asked"
  /\ wire' = AESEncrypt(AUTH_STR, cpass)
  /\ UNCHANGED <<mod, cpass, spass, ckey, skey, query, out>>

\* strfullcmp(request, AUTH_STR, rlen, strlen(AUTH_STR)).
IsAuthStr(request) ==
  RealLen(request) = Len(AUTH_STR) /\ SubSeq(request, 1, Len(AUTH_STR)) = AUTH_STR

\* The server refuses what does not decrypt to AUTH_STR and otherwise draws a session key.
SeMakeAuthReply ==
  /\ mod = "se" /\ pc = "asked"
  /\ IF IsAuthStr(AESDecrypt(wire, spass))
     THEN /\ \E d \in Digits :
               /\ wire' = AESEncrypt(MAGIC_STR \o <<95>> \o d, spass)
               /\ skey' = <<95>> \o d
          /\ pc' = "replied"
     ELSE wire' = <<1>> /\ pc' = "refused" /\ UNCHANGED skey
  /\ UNCHANGED <<mod, cpass, spass, ckey, query, out>>

IsMagic(result) == SubSeq(result, 1, Len(MAGIC_STR)) = MAGIC_STR

\* The one byte of a refusal is decrypted together with what follows it in memory, which
\* does not by chance give MAGIC_STR.
HeapAssumption ==
  \A h \in Heap, pass \in Passphrase : ~ IsMagic(AESDecrypt(<<1>> \o h, pass))

ReplyPlain == {AESDecrypt(IF pc = "refused" THEN wire \o h ELSE wire, cpass) : h \in Heap}

\* Variant: what follows the magic is taken with its padding.
SeDealAuthReplyPadded ==
  /\ mod = "se" /\ pc \in {"replied", "refused"}
  /\ \E result \in ReplyPlain :
       \/ ~ IsMagic(result) /\ pc' = "closed" /\ UNCHANGED ckey
       \/ /\ IsMagic(result) /\ pc' = "ready"
          /\ ckey' = SubSeq(result, Len(MAGIC_STR) + 1, Len(result))
  /\ wire' = None
  /\ UNCHANGED <<mod, cpass, spass, skey, query, out>>

\* The client takes what follows MAGIC_STR as the session key.
SeDealAuthReply ==
  /\ mod = "se" /\ pc \in {"replied", "refused"}
  /\ \E result \in ReplyPlain :
       \/ ~ IsMagic(result) /\ pc' = "closed" /\ UNCHANGED ckey
       \/ /\ IsMagic(result) /\ pc' = "ready"
          /\ ckey' = SubSeq(result, Len(MAGIC_STR) + 1, RealLen(result))
  /\ wire' = None
  /\ UNCHANGED <<mod, cpass, spass, skey, query, out>>

\* An encode function: the packet q goes on the wire as code.
Encode(up, q, code) ==
  /\ pc = "ready" /\ pc' = up
  /\ query' = <<q>> /\ wire' = code /\ out' = None
  /\ UNCHANGED <<mod, cpass, spass, ckey, skey>>

\* A decode function: buf is the buffer in clear, of which the first n bytes count.
Decode(buf, n) ==
  /\ \/ Wild(buf, n) /\ pc' = "wild" /\ UNCHANGED out
     \/ /\ ~ Wild(buf, n) /\ pc' = "ready"
        /\ \E q \in Queries(buf, n) : out' = <<q>>
  /\ wire' = None
  /\ UNCHANGED <<mod, cpass, spass, ckey, skey, query>>

SeEncode(up, key) ==
  \E q \in Packet, junk \in Junk : Encode(up, q, AESEncrypt(DataStruct(q, junk), key))
SeDecode(key) == LET buf == AESDecrypt(wire, key) IN Decode(buf, RealLen(buf))

SeClientEncode == mod = "se" /\ SeEncode("up", ckey)
SeServerDecode == mod = "se" /\ pc = "up" /\ SeDecode(skey)
SeServerEncode == mod = "se" /\ SeEncode("down", skey)
SeClientDecode == mod = "se" /\ pc = "down" /\ SeDecode(ckey)

-----------------------------------------------------------------------------
(* simple_proxy *)

\* simple_hash: the sum of the bytes in a uint8_t.
BssHash(s) == FoldSeq(LAMBDA b, h : (b + h) % 256, 0, s)

\* What either end does to every byte, in either direction.
XorAll(s, pass) == LET k == BssHash(pass) IN [i \in 1 .. Len(s) |-> XorByte(s[i], k)]

SimpleMakeAuthQuery ==
  /\ mod = "simple" /\ pc = "start"
  /\ pc' = "asked" /\ wire' = cpass
  /\ UNCHANGED <<mod, cpass, spass, ckey, skey, query, out>>

\* The server accepts whatever it is sent.
SimpleMakeAuthReply ==
  /\ mod = "simple" /\ pc = "asked"
  /\ pc' = "replied" /\ wire' = <<1>>
  /\ UNCHANGED <<mod, cpass, spass, ckey, skey, query, out>>

SimpleDealAuthReply ==
  /\ mod = "simple" /\ pc = "replied"
  /\ pc' = IF wire[1] # 0 THEN "ready" ELSE "closed"
  /\ wire' = None
  /\ UNCHANGED <<mod, cpass, spass, ckey, skey, query, out>>

SimpleEncode(up, pass) ==
  \E q \in Packet, junk \in Junk : Encode(up, q, XorAll(DataStruct(q, junk), pass))
SimpleDecode(pass) == LET buf == XorAll(wire, pass) IN Decode(buf, Len(buf))

SimpleClientEncode == mod = "simple" /\ SimpleEncode("up", cpass)
SimpleServerDecode == mod = "simple" /\ pc = "up" /\ SimpleDecode(spass)
SimpleServerEncode == mod = "simple" /\ SimpleEncode("down", spass)
SimpleClientDecode == mod = "simple" /\ pc = "down" /\ SimpleDecode(cpass)

Next ==
  \/ SeMakeAuthQuery \/ SeMakeAuthReply \/ SeDealAuthReply
  \/ SeClientEncode \/ SeServerDecode \/ SeServerEncode \/ SeClientDecode
  \/ SimpleMakeAuthQuery \/ SimpleMakeAuthReply \/ SimpleDealAuthReply
  \/ SimpleClientEncode \/ SimpleServerDecode \/ SimpleServerEncode \/ SimpleClientDecode

Spec == Init /\ [][Next]_vars

-----------------------------------------------------------------------------
\* Under se_proxy a session starts exactly when the first 16 bytes of the two passphrases,
\* padded with zeros, are equal, and then both ends hold the same key, however many digits
\* rand() printed and whether or not the reply filled its last block.
SessionAgreement ==
  mod = "se" =>
    /\ pc = "closed" => RKey(cpass) # RKey(spass)
    /\ pc \in {"ready", "up", "down"} => RKey(cpass) = RKey(spass) /\ ckey = skey /\ ckey # NoKey

\* A packet decoded at the other end has the address, the port and the payload it was
\* encoded with, for every length of the payload and whatever malloc left in the buffer;
\* a decode function reads beyond its buffer only under simple_proxy with passphrases of
\* different sums, which its authentication does not tell apart.
RoundTrip ==
  /\ out # None => out = query
  /\ pc = "wild" => mod = "simple" /\ BssHash(cpass) # BssHash(spass)

\* The test vectors of NIST SP 800-38A that the head of kokke_aes.c lists.
KnownKey == <<43, 126, 21, 22, 40, 174, 210, 166, 171, 247, 21, 136, 9, 207, 79, 60>>
KnownBlocks == {
  <<<<107, 193, 190, 226, 46, 64, 159, 150, 233, 61, 126, 17, 115, 147, 23, 42>>,
    <<58, 215, 123, 180, 13, 122, 54, 96, 168, 158, 202, 243, 36, 102, 239, 151>>>>,
  <<<<174, 45, 138, 87, 30, 3, 172, 156, 158, 183, 111, 172, 69, 175, 142, 81>>,
    <<245, 211, 213, 133, 3, 185, 105, 157, 231, 133, 137, 90, 150, 253, 186, 175>>>>,
  <<<<48, 200, 28, 70, 163, 92, 228, 17, 229, 251, 193, 25, 26, 10, 82, 239>>,
    <<67, 177, 205, 127, 89, 142, 206, 35, 136, 27, 0, 227, 237, 3, 6, 136>>>>,
  <<<<246, 159, 36, 69, 223, 79, 155, 23, 173, 43, 65, 123, 230, 108, 55, 16>>,
    <<123, 12, 120, 94, 39, 232, 173, 63, 130, 35, 32, 113, 4, 114, 93, 212>>>>}

\* The block cipher gives, for the key that the head of kokke_aes.c names, the cipher blocks
\* that it names, and takes them back.
KnownAnswers ==
  pc = "start" =>
    \A v \in KnownBlocks : Cipher(v[1], KnownKey) = v[2] /\ InvCipher(v[2], KnownKey) = v[1]
=============================================================================
