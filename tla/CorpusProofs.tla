---------------------------- MODULE CorpusProofs ----------------------------
(***************************************************************************)
(* What gen, dump and one harness make of the same bytes, on every vector  *)
(* of any length: the two programs agree, a link has one id whoever reads   *)
(* it, and the harness prints in expect's places and rejects as expect does.*)
(***************************************************************************)
EXTENDS Harness, FiniteSetTheorems, SequenceTheorems, WellFoundedInduction, TLAPS

-----------------------------------------------------------------------------
(* A slice of Python's that stays inside its object is the bytes C is       *)
(* handed at that address.                                                  *)
LEMMA SliceInside ==
  ASSUME NEW of, NEW len \in Nat, NEW from \in Nat, NEW to \in Nat, from <= to, to <= len
  PROVE  Sliced(of, len, from, to) = Mem(of, from, to - from)
  BY DEF Sliced, Mem, Within, Piece

LEMMA LineSlice ==
  ASSUME NEW b, b.len \in Nat, NEW from \in Nat, NEW to \in Nat, from <= to, to <= b.len
  PROVE  Py(b, from, to) = At(b, from, to - from)
  BY SliceInside DEF Py, At

LEMMA WholeLine ==
  ASSUME NEW b, IsLine(b)
  PROVE  /\ All(b) = Whole(b)
         /\ b.absent => Whole(b) = << >>
         /\ b.len \in Nat
  <1>1. b.len \in Nat /\ (b.absent => b.len = 0)
    BY DEF IsLine
  <1>2. QED
    BY <1>1, LineSlice DEF All, Whole, At, Mem

LEMMA BitRanges ==
  ASSUME NEW flags \in Nat
  PROVE  /\ Bits(flags, 6, 1) \in 0..1
         /\ Bits(flags, 5, 1) \in 0..1
         /\ Bits(flags, 2, 2) \in 0..3
  BY DEF Bits

(* What the two make of a header, side by side: g is parse_header's struct, *)
(* h what describe_header returns.                                          *)
SameHeader(g, h) ==
  /\ g.ok \in BOOLEAN /\ g.ok = h.ok
  /\ ~g.ok => g.lines = h.lines
  /\ g.ok =>
       /\ PrintHeader(g) = h.lines
       /\ g.line = h.line /\ g.at = h.at /\ g.payload_len = h.len
       /\ g.at \in Nat /\ g.payload_len \in Nat
       /\ g.destination_hash = h.dest_hash /\ g.destination_type = h.destination_type
       /\ g.context = h.context /\ g.context_flag = h.context_flag
       /\ g.context \in 0..255 /\ g.context_flag \in 0..1

LEMMA HeaderAgrees ==
  ASSUME NEW b, IsLine(b)
  PROVE  SameHeader(Header(b), DescribeHeader(b))
  <1> DEFINE g == Header(b)
             h == DescribeHeader(b)
             two == Bits(b.flags, 6, 1)
  <1>1. /\ b.len \in Nat /\ b.flags \in 0..255 /\ b.hops \in 0..255 /\ b.context \in 0..255
        /\ two \in 0..1 /\ Bits(b.flags, 5, 1) \in 0..1
    BY BitRanges DEF IsLine
  <1>2. HeaderLen(b) = 3 + ADDRLEN * (two + 1) /\ HeaderLen(b) \in Nat
    BY <1>1 DEF HeaderLen, ADDRLEN
  <1>3. CASE b.len < 2 \/ b.hops >= MAX_HOPS \/ b.len < HeaderLen(b)
    <2>1. g.ok = FALSE /\ h.ok = FALSE
      BY <1>1, <1>2, <1>3 DEF Header, DescribeHeader, Fault
    <2>2. g.lines = h.lines
      BY <1>1, <1>2, <1>3 DEF Header, DescribeHeader, Fault, Invalid
    <2>3. QED
      BY <2>1, <2>2 DEF SameHeader
  <1>4. CASE ~(b.len < 2 \/ b.hops >= MAX_HOPS \/ b.len < HeaderLen(b))
    <2> DEFINE transport == IF two = 1 THEN At(b, 2, ADDRLEN) ELSE << >>
               dest      == At(b, IF two = 1 THEN 2 + ADDRLEN ELSE 2, ADDRLEN)
    <2>1. b.len >= 3 + ADDRLEN * (two + 1)
      BY <1>1, <1>2, <1>4 DEF ADDRLEN
    <2>2. /\ (IF two = 1 THEN Py(b, 2, 2 + ADDRLEN) ELSE << >>) = transport
          /\ (IF two = 1 THEN Py(b, 2 + ADDRLEN, 2 + 2 * ADDRLEN) ELSE Py(b, 2, 2 + ADDRLEN)) = dest
      <3>1. Py(b, 2, 2 + ADDRLEN) = At(b, 2, ADDRLEN)
        BY <1>1, <2>1, LineSlice DEF ADDRLEN
      <3>2. two = 1 => Py(b, 2 + ADDRLEN, 2 + 2 * ADDRLEN) = At(b, 2 + ADDRLEN, ADDRLEN)
        BY <1>1, <2>1, LineSlice DEF ADDRLEN
      <3>3. QED
        BY <3>1, <3>2
    <2>3. g = [ok |-> TRUE, flags |-> b.flags, hops |-> b.hops, type |-> two,
               context_flag |-> Bits(b.flags, 5, 1), destination_type |-> Bits(b.flags, 2, 2),
               transport_id |-> transport, destination_hash |-> dest,
               context |-> b.context, line |-> b.line,
               at |-> HeaderLen(b), payload_len |-> b.len - HeaderLen(b)]
      BY <1>1, <1>4 DEF Header
    <2>4. /\ h.ok = TRUE /\ h.at = HeaderLen(b) /\ h.len = b.len - HeaderLen(b)
          /\ h.line = b.line /\ h.context_flag = Bits(b.flags, 5, 1)
          /\ h.context = b.context /\ h.destination_type = Bits(b.flags, 2, 2)
          /\ h.dest_hash = dest
      BY <1>1, <1>2, <1>4, <2>2 DEF DescribeHeader
    <2>5. h.lines = PrintHeader(g)
      BY <1>1, <1>2, <1>4, <2>2, <2>3 DEF DescribeHeader, PrintHeader
    <2>6. b.len - HeaderLen(b) \in Nat
      BY <1>1, <1>2, <1>4
    <2>7. /\ g.ok = TRUE /\ g.at = HeaderLen(b) /\ g.payload_len = b.len - HeaderLen(b)
          /\ g.line = b.line /\ g.context_flag = Bits(b.flags, 5, 1)
          /\ g.context = b.context /\ g.destination_type = Bits(b.flags, 2, 2)
          /\ g.destination_hash = dest
      BY <2>3
    <2> HIDE DEF g, h, dest
    <2>8. SameHeader(g, h)
      BY <1>1, <1>2, <2>4, <2>5, <2>6, <2>7 DEF SameHeader
    <2>9. QED
      BY <2>8 DEF g, h
  <1>5. QED
    BY <1>3, <1>4

(* A part of the payload, taken as a slice and taken by place and length *)
LEMMA PayloadSlice ==
  ASSUME NEW g, NEW h, SameHeader(g, h), g.ok,
         NEW from \in Nat, NEW to \in Nat, from <= to, to <= h.len
  PROVE  Part(h, from, to) = Payload(g, from, to - from)
  <1>1. /\ h.at = g.at /\ h.line = g.line /\ h.at \in Nat /\ h.len \in Nat
    BY DEF SameHeader
  <1>2. Within(from, h.len) = from /\ Within(to, h.len) = to
    BY <1>1 DEF Within
  <1>3. Part(h, from, to) = Sliced(Line(g.line), h.at + h.len, from + g.at, to + g.at)
    BY <1>1, <1>2 DEF Part
  <1>4. Sliced(Line(g.line), h.at + h.len, from + g.at, to + g.at)
          = Mem(Line(g.line), from + g.at, (to + g.at) - (from + g.at))
    BY <1>1, SliceInside
  <1>5. from + g.at = g.at + from /\ (to + g.at) - (from + g.at) = to - from
    BY <1>1
  <1>6. QED
    BY <1>3, <1>4, <1>5 DEF Payload

LEMMA PayloadRest ==
  ASSUME NEW g, NEW h, SameHeader(g, h), g.ok, NEW from \in Nat, from <= h.len
  PROVE  ToEnd(h, from) = Payload(g, from, g.payload_len - from)
  <1>1. h.len = g.payload_len /\ h.len \in Nat
    BY DEF SameHeader
  <1>2. Part(h, from, h.len) = Payload(g, from, h.len - from)
    BY <1>1, PayloadSlice
  <1>3. QED
    BY <1>1, <1>2 DEF ToEnd

LEMMA KeyHalves ==
  ASSUME NEW b, IsLine(b), b.len = KEYSIZE
  PROVE  /\ Py(b, 0, KEYHALF) = At(b, 0, KEYHALF)
         /\ Py(b, KEYHALF, b.len) = At(b, KEYHALF, KEYHALF)
  BY LineSlice DEF KEYSIZE, KEYHALF

LEMMA PublicsAgree ==
  ASSUME NEW b, IsLine(b), b.len = KEYSIZE
  PROVE  Publics(b) = PublicPair(b)
  BY KeyHalves DEF Publics, PublicPair, PublicOf

-----------------------------------------------------------------------------
(* The kinds without a packet *)
LEMMA IdentityAgrees ==
  ASSUME NEW b, IsLine(b[1]), b[1].len = KEYSIZE
  PROVE  DumpIdentity(b) = Exits(DescribeIdentity(b))
  <1>1. KEYSIZE \div 2 = KEYHALF
    BY DEF KEYSIZE, KEYHALF
  <1>2. QED
    BY <1>1, KeyHalves, WholeLine DEF DumpIdentity, DescribeIdentity

LEMMA KeysetAgrees ==
  ASSUME NEW b, IsLine(b[1]), b[1].len = KEYSIZE
  PROVE  DumpKeyset(b) = Exits(DescribeKeyset(b))
  BY KeyHalves, WholeLine, PublicsAgree DEF DumpKeyset, DescribeKeyset

LEMMA SignatureAgrees ==
  ASSUME NEW b, IsLine(b[1]), IsLine(b[2]), IsLine(b[3]), b[1].len = KEYSIZE, b[3].len = SIGLEN
  PROVE  DumpSignature(b) = Exits(DescribeSignature(b))
  <1>1. KEYHALF = 32 /\ HASHLEN = 32
    BY DEF KEYHALF, HASHLEN
  <1>2. QED
    BY <1>1, KeyHalves, WholeLine DEF DumpSignature, DescribeSignature

LEMMA SignAgrees ==
  ASSUME NEW b, IsLine(b[1]), IsLine(b[2]), b[1].len = KEYSIZE
  PROVE  DumpSign(b) = Exits(DescribeSign(b))
  <1>1. KEYHALF = 32 /\ HASHLEN = 32 /\ SIGLEN = 64
    BY DEF KEYHALF, HASHLEN, SIGLEN
  <1>2. QED
    BY <1>1, KeyHalves, WholeLine DEF DumpSign, DescribeSign, PublicOf

-----------------------------------------------------------------------------
(* The kinds whose packet is read in the open *)
LEMMA PlainAgrees ==
  ASSUME NEW b, IsLine(b[1])
  PROVE  DumpPlain(b) = Exits(DescribePlain(b))
  <1> DEFINE g == Header(b[1])
             h == DescribeHeader(b[1])
  <1>1. SameHeader(g, h)
    BY HeaderAgrees
  <1> HIDE DEF g, h
  <1>2. g.ok => g.payload_len \in Nat /\ h.len = g.payload_len
    BY <1>1 DEF SameHeader
  <1>3. g.ok => ToEnd(h, 0) = Payload(g, 0, g.payload_len - 0)
    BY <1>1, <1>2, PayloadRest
  <1>4. g.ok => ToEnd(h, 0) = Payload(g, 0, g.payload_len)
    BY <1>2, <1>3
  <1>5. QED
    BY <1>1, <1>4 DEF DumpPlain, DescribePlain, SameHeader, g, h

LEMMA ShortPayloadAgrees ==
  ASSUME NEW g, NEW h, SameHeader(g, h), g.ok, NEW need
  PROVE  ShortPayload(g, need) = Invalid("short-payload", "payload_length", h.len,
                                         "minimum_length", need)
  BY DEF SameHeader, ShortPayload, Fault, Invalid

LEMMA AnnounceAgrees ==
  ASSUME NEW b, IsLine(b[1])
  PROVE  DumpAnnounce(b) = Exits(DescribeAnnounce(b))
  <1> DEFINE g == Header(b[1])
             h == DescribeHeader(b[1])
             a == Announce(g)
             r == IF h.context_flag = 1 THEN RATCHETLEN ELSE 0
  <1>1. SameHeader(g, h)
    BY HeaderAgrees
  <1>r. r \in {0, 32} /\ (g.ok => r = RatchetLen(g))
    BY <1>1 DEF SameHeader, RatchetLen, RATCHETLEN
  <1> HIDE DEF g, h, r
  <1>2. CASE ~g.ok
    BY <1>1, <1>2 DEF DumpAnnounce, DescribeAnnounce, SameHeader, g, h
  <1>3. CASE g.ok /\ g.payload_len < 148 + r
    <2>1. ~a.ok /\ a.lines = ShortPayload(g, 148 + r)
      BY <1>1, <1>r, <1>3 DEF Announce, SameHeader, KEYSIZE, NAMEHASHLEN, RANDHASHLEN, SIGLEN
    <2>2. KEYSIZE + NAMEHASHLEN + RANDHASHLEN + SIGLEN + r = 148 + r
      BY <1>r DEF KEYSIZE, NAMEHASHLEN, RANDHASHLEN, SIGLEN
    <2>3. DumpAnnounce(b) = Exits(ShortPayload(g, 148 + r))
      BY <1>3, <2>1 DEF DumpAnnounce, g
    <2>4. /\ h.ok /\ h.len < 148 + r
          /\ ShortPayload(g, 148 + r) = Invalid("short-payload", "payload_length", h.len,
                                                "minimum_length", 148 + r)
      BY <1>1, <1>3, ShortPayloadAgrees, ZenonT(40) DEF SameHeader
    <2> HIDE DEF a
    <2>5. DescribeAnnounce(b) = ShortPayload(g, 148 + r)
      BY ONLY <2>2, <2>4 DEF DescribeAnnounce, h, r
    <2>6. QED
      BY <2>3, <2>5
  <1>4. CASE g.ok /\ g.payload_len >= 148 + r
    <2>1. r \in {0, 32} /\ r = RatchetLen(g)
      BY <1>r, <1>4
    <2>2. h.len \in Nat /\ h.len = g.payload_len
      BY <1>1, <1>4 DEF SameHeader
    <2>3. /\ Part(h, 0, 64) = Payload(g, 0, 64)
          /\ Part(h, 64, 74) = Payload(g, 64, 10)
          /\ Part(h, 74, 84) = Payload(g, 74, 10)
          /\ Part(h, 32, 64) = Payload(g, 32, 32)
      BY <1>1, <1>4, <2>1, <2>2, PayloadSlice
    <2>4. /\ Part(h, 84, 84 + r) = Payload(g, 84, r)
          /\ Part(h, 84 + r, 148 + r) = Payload(g, 84 + r, 64)
          /\ ToEnd(h, 148 + r) = Payload(g, 148 + r, g.payload_len - (148 + r))
      <3>1. Part(h, 84, 84 + r) = Payload(g, 84, (84 + r) - 84)
        BY <1>1, <1>4, <2>1, <2>2, PayloadSlice
      <3>2. Part(h, 84 + r, 148 + r) = Payload(g, 84 + r, (148 + r) - (84 + r))
        BY <1>1, <1>4, <2>1, <2>2, PayloadSlice
      <3>3. (84 + r) - 84 = r /\ (148 + r) - (84 + r) = 64
        BY <2>1
      <3>4. ToEnd(h, 148 + r) = Payload(g, 148 + r, g.payload_len - (148 + r))
        BY <1>1, <1>4, <2>1, <2>2, PayloadRest
      <3>5. QED
        BY <3>1, <3>2, <3>3, <3>4
    <2>5. /\ KEYSIZE = 64 /\ KEYHALF = 32 /\ NAMEHASHLEN = 10 /\ RANDHASHLEN = 10 /\ SIGLEN = 64
          /\ KEYSIZE + NAMEHASHLEN = 74 /\ KEYSIZE + NAMEHASHLEN + RANDHASHLEN = 84
          /\ KEYSIZE + NAMEHASHLEN + RANDHASHLEN + r = 84 + r
          /\ KEYSIZE + NAMEHASHLEN + RANDHASHLEN + r + SIGLEN = 148 + r
          /\ KEYSIZE + NAMEHASHLEN + RANDHASHLEN + SIGLEN + r = 148 + r
      BY <2>1 DEF KEYSIZE, KEYHALF, NAMEHASHLEN, RANDHASHLEN, SIGLEN
    <2>6. ~(g.payload_len < 148 + r) /\ ~(h.len < 148 + r)
      BY <1>4, <2>1, <2>2
    <2>7. a = [ok |-> TRUE,
               public_key  |-> Part(h, 0, 64),
               name_hash   |-> Part(h, 64, 74),
               random_hash |-> Part(h, 74, 84),
               ratchet     |-> Part(h, 84, 84 + r),
               signature   |-> Part(h, 84 + r, 148 + r),
               app_data    |-> ToEnd(h, 148 + r),
               signer      |-> Part(h, 32, 64)]
      <3>1. a = [ok |-> TRUE,
                 public_key  |-> Payload(g, 0, 64),
                 name_hash   |-> Payload(g, 64, 10),
                 random_hash |-> Payload(g, 74, 10),
                 ratchet     |-> Payload(g, 84, r),
                 signature   |-> Payload(g, 84 + r, 64),
                 app_data    |-> Payload(g, 148 + r, g.payload_len - (148 + r)),
                 signer      |-> Payload(g, 32, 32)]
        <4> DEFINE app == KEYSIZE + NAMEHASHLEN + RANDHASHLEN + RatchetLen(g) + SIGLEN
        <4>1. app = 148 + r /\ ~(g.payload_len < app)
          BY <2>1, <2>5, <2>6
        <4>2. a = [ok |-> TRUE,
                   public_key  |-> Payload(g, 0, KEYSIZE),
                   name_hash   |-> Payload(g, KEYSIZE, NAMEHASHLEN),
                   random_hash |-> Payload(g, KEYSIZE + NAMEHASHLEN, RANDHASHLEN),
                   ratchet     |-> Payload(g, KEYSIZE + NAMEHASHLEN + RANDHASHLEN, RatchetLen(g)),
                   signature   |-> Payload(g, KEYSIZE + NAMEHASHLEN + RANDHASHLEN + RatchetLen(g),
                                           SIGLEN),
                   app_data    |-> Payload(g, app, g.payload_len - app),
                   signer      |-> Payload(g, KEYHALF, KEYHALF)]
          BY ONLY <4>1, Zenon DEF Announce, a
        <4> HIDE DEF a, app
        <4>3. QED
          BY ONLY <2>1, <2>5, <4>1, <4>2
      <3>2. QED
        BY ONLY <2>3, <2>4, <3>1
    <2> HIDE DEF a
    <2>8. PrintAnnounce(g, a) = DescribeAnnounce(b)
      <3>1. /\ h.ok /\ PrintHeader(g) = h.lines /\ g.destination_hash = h.dest_hash
        BY <1>1, <1>4 DEF SameHeader
      <3>2. QED
        BY ONLY <3>1, <2>5, <2>6, <2>7, SMTT(30) DEF PrintAnnounce, DescribeAnnounce, h, r
    <2>9. DumpAnnounce(b) = Exits(PrintAnnounce(g, a))
      BY <1>4, <2>7 DEF DumpAnnounce, a, g
    <2>10. QED
      BY <2>8, <2>9
  <1>5. QED
    BY <1>1, <1>r, <1>2, <1>3, <1>4 DEF SameHeader

(* A slice whose end is past the payload's stops there *)
LEMMA PayloadClipped ==
  ASSUME NEW g, NEW h, SameHeader(g, h), g.ok,
         NEW from \in Nat, from <= h.len, NEW to \in Nat, to >= h.len
  PROVE  Part(h, from, to) = Payload(g, from, g.payload_len - from)
  <1>1. h.len \in Nat
    BY DEF SameHeader
  <1>2. Within(to, h.len) = Within(h.len, h.len)
    BY <1>1 DEF Within
  <1>3. Part(h, from, to) = ToEnd(h, from)
    BY <1>2 DEF Part, ToEnd
  <1>4. QED
    BY <1>3, PayloadRest

LEMMA PayloadEmpty ==
  ASSUME NEW g, NEW from, NEW n \in Nat
  PROVE  Payload(g, from, n) = << >> <=> n = 0
  BY DEF Payload, Mem

LEMMA PathRequestAgrees ==
  ASSUME NEW b, IsLine(b[1])
  PROVE  DumpPathRequest(b) = Exits(DescribePathRequest(b))
  <1> DEFINE g == Header(b[1])
             h == DescribeHeader(b[1])
  <1>1. SameHeader(g, h)
    BY HeaderAgrees
  <1> HIDE DEF g, h
  <1>2. CASE ~g.ok
    BY <1>1, <1>2 DEF DumpPathRequest, DescribePathRequest, SameHeader, g, h
  <1>3. CASE g.ok /\ g.payload_len < ADDRLEN
    <2>1. /\ h.ok /\ h.len < ADDRLEN
          /\ ShortPayload(g, ADDRLEN) = Invalid("short-payload", "payload_length", h.len,
                                                "minimum_length", ADDRLEN)
      BY <1>1, <1>3, ShortPayloadAgrees DEF SameHeader
    <2>2. QED
      BY ONLY <1>3, <2>1 DEF DumpPathRequest, DescribePathRequest, g, h
  <1>4. CASE g.ok /\ g.payload_len >= ADDRLEN
    <2> DEFINE from == IF g.payload_len > 2 * ADDRLEN THEN 2 * ADDRLEN ELSE ADDRLEN
               taglen == g.payload_len - from
               unique == IF taglen < ADDRLEN THEN taglen ELSE ADDRLEN
    <2>1. /\ h.len = g.payload_len /\ h.len \in Nat /\ h.ok /\ PrintHeader(g) = h.lines
          /\ ~(h.len < ADDRLEN) /\ ~(g.payload_len < ADDRLEN)
      BY <1>1, <1>4 DEF SameHeader, ADDRLEN
    <2>2. /\ from \in {16, 32} /\ from <= h.len /\ taglen \in Nat
          /\ ADDRLEN = 16 /\ 2 * ADDRLEN = 32 /\ ADDRLEN * 2 = 32
          /\ unique \in Nat /\ (taglen > 0 <=> taglen # 0)
      BY <1>4, <2>1 DEF ADDRLEN
    <2>3. Part(h, 0, ADDRLEN) = Payload(g, 0, ADDRLEN)
      BY <1>1, <1>4, <2>1, <2>2, PayloadSlice
    <2>4. h.len > 32 => Part(h, ADDRLEN, ADDRLEN * 2) = Payload(g, ADDRLEN, ADDRLEN)
      BY <1>1, <1>4, <2>1, <2>2, PayloadSlice
    <2>5. ToEnd(h, from) = Payload(g, from, taglen)
      BY <1>1, <1>4, <2>1, <2>2, PayloadRest
    <2>6. Part(h, from, from + ADDRLEN) = Payload(g, from, unique)
      <3>1. CASE taglen < ADDRLEN
        <4>1. from + ADDRLEN \in Nat /\ from + ADDRLEN >= h.len /\ unique = taglen
          BY <2>1, <2>2, <3>1
        <4>2. QED
          BY <1>1, <1>4, <2>1, <2>2, <4>1, PayloadClipped
      <3>2. CASE ~(taglen < ADDRLEN)
        <4>1. from + ADDRLEN <= h.len /\ unique = (from + ADDRLEN) - from
          BY <2>1, <2>2, <3>2
        <4> HIDE DEF from, unique
        <4>2. QED
          BY <1>1, <1>4, <2>1, <2>2, <4>1, PayloadSlice
      <3>3. QED
        BY <3>1, <3>2
    <2>7. ToEnd(h, from) # << >> <=> taglen > 0
      BY <2>2, <2>5, PayloadEmpty
    <2>8. QED
      <3>1. CASE g.payload_len > 2 * ADDRLEN
        BY ONLY <1>4, <2>1, <2>2, <2>3, <2>4, <2>5, <2>6, <2>7, <3>1, ZenonT(40)
           DEF DumpPathRequest, DescribePathRequest, g, h
      <3>2. CASE ~(g.payload_len > 2 * ADDRLEN)
        BY ONLY <1>4, <2>1, <2>2, <2>3, <2>4, <2>5, <2>6, <2>7, <3>2
           DEF DumpPathRequest, DescribePathRequest, g, h
      <3>3. QED
        BY <3>1, <3>2
  <1>5. QED
    BY <1>1, <1>2, <1>3, <1>4 DEF SameHeader, ADDRLEN

-----------------------------------------------------------------------------
(* What is hashed of a packet *)
LEMMA HashedPart ==
  ASSUME NEW b, IsLine(b), Header(b).ok, NEW cut \in Nat, cut <= Header(b).payload_len
  PROVE  HashablePart(b, Header(b), HashableLen(b, Header(b)) - cut)
           = Join(LowNibble(b.line), Py(b, HashedFrom(Header(b)), b.len - cut))
  <1> DEFINE g == Header(b)
             from == HashedFrom(g)
  <1>1. b.len \in Nat /\ Bits(b.flags, 6, 1) \in 0..1
    BY BitRanges DEF IsLine
  <1>2. g.type = Bits(b.flags, 6, 1) /\ g.payload_len = b.len - HeaderLen(b)
    BY DEF Header, Fault
  <1>3. from \in Nat /\ from <= HeaderLen(b) /\ HeaderLen(b) \in Nat
    BY <1>1, <1>2 DEF HashedFrom, HeaderLen, ADDRLEN
  <1> HIDE DEF g, from
  <1>4. from <= b.len - cut /\ b.len - cut \in Nat /\ b.len - cut <= b.len
    BY <1>1, <1>2, <1>3 DEF g
  <1>5. Py(b, from, b.len - cut) = At(b, from, (b.len - cut) - from)
    BY <1>1, <1>3, <1>4, LineSlice
  <1>6. (b.len - cut) - from = (1 + b.len - from - cut) - 1
    BY <1>1, <1>3
  <1>7. HashableLen(b, g) - cut = 1 + b.len - from - cut
    BY <1>1, <1>3 DEF HashableLen, from
  <1>8. QED
    BY <1>5, <1>6, <1>7 DEF HashablePart, from, g

LEMMA LinkIdAgrees ==
  ASSUME NEW b, IsLine(b), Header(b).ok
  PROVE  LinkId(b, Header(b)) = LinkIdOf(b, DescribeHeader(b).len)
  <1> DEFINE g == Header(b)
             excess == g.payload_len - ECPUBSIZE
             cut == IF excess > 0 THEN excess ELSE 0
  <1>1. SameHeader(g, DescribeHeader(b))
    BY HeaderAgrees
  <1>2. g.payload_len \in Nat /\ DescribeHeader(b).len = g.payload_len /\ g.ok
    BY <1>1 DEF SameHeader
  <1>3. cut \in Nat /\ cut <= g.payload_len
    BY <1>2 DEF ECPUBSIZE
  <1>4. g.type = Bits(b.flags, 6, 1)
    BY DEF Header, Fault
  <1>5. HashablePart(b, g, HashableLen(b, g) - cut)
          = Join(LowNibble(b.line), Py(b, HashedFrom(g), b.len - cut))
    BY <1>3, HashedPart
  <1> HIDE DEF g
  <1>6. Join(LowNibble(b.line), Py(b, HashedFrom(g), b.len - cut)) = Hashed(b, excess)
    BY <1>4 DEF Hashed, HashedFrom
  <1>7. LinkId(b, g) = Sha256(Hashed(b, excess), ADDRLEN)
    BY <1>5, <1>6 DEF LinkId
  <1>8. QED
    BY <1>2, <1>7 DEF LinkIdOf, g

LEMMA PacketHashAgrees ==
  ASSUME NEW b, IsLine(b), Header(b).ok, NEW size
  PROVE  PacketHashOf(b, Header(b), size) = Sha256(PartHash(b), size)
  <1> DEFINE g == Header(b)
             n == HashableLen(b, g)
  <1>1. SameHeader(g, DescribeHeader(b))
    BY HeaderAgrees
  <1>2. g.payload_len \in Nat /\ b.len \in Nat
    BY <1>1 DEF SameHeader, IsLine
  <1>3. g.type = Bits(b.flags, 6, 1)
    BY DEF Header, Fault
  <1>4. HashablePart(b, g, n - 0) = Join(LowNibble(b.line), Py(b, HashedFrom(g), b.len - 0))
    BY <1>2, HashedPart
  <1> HIDE DEF g
  <1>5. n - 0 = n
    BY <1>2 DEF HashableLen, HashedFrom, ADDRLEN
  <1>6. Join(LowNibble(b.line), Py(b, HashedFrom(g), b.len - 0)) = PartHash(b)
    BY <1>3 DEF PartHash, Hashed, HashedFrom
  <1>7. QED
    BY <1>4, <1>5, <1>6 DEF PacketHashOf, g

LEMMA SignallingAgrees ==
  ASSUME NEW p
  PROVE  PrintSignalling(p) = DescribeSignalling(p)
  BY DEF PrintSignalling, DescribeSignalling, Dash

LEMMA LinkRequestAgrees ==
  ASSUME NEW b, IsLine(b[1])
  PROVE  DumpLinkRequest(b) = Exits(DescribeLinkRequest(b))
  <1> DEFINE g == Header(b[1])
             h == DescribeHeader(b[1])
  <1>1. SameHeader(g, h)
    BY HeaderAgrees
  <1>2. g.ok => LinkId(b[1], g) = LinkIdOf(b[1], h.len)
    BY LinkIdAgrees
  <1> HIDE DEF g, h
  <1>3. ECPUBSIZE = 64 /\ SIGNALLEN = 3 /\ ECPUBSIZE + SIGNALLEN = 67 /\ KEYHALF = 32
    BY DEF ECPUBSIZE, SIGNALLEN, KEYHALF
  <1>4. CASE ~g.ok
    BY <1>1, <1>4 DEF DumpLinkRequest, DescribeLinkRequest, SameHeader, g, h
  <1>5. CASE g.ok /\ g.payload_len \notin {64, 67}
    <2>1. /\ h.ok /\ h.len \notin {64, 67}
          /\ NeitherLength(g, "accepted_length", 64, "signalled_length", 67)
               = InvalidLength(h, "accepted_length", 64, "signalled_length", 67)
      BY <1>1, <1>5 DEF SameHeader, NeitherLength, InvalidLength
    <2>2. QED
      BY ONLY <1>3, <1>5, <2>1 DEF DumpLinkRequest, DescribeLinkRequest, g, h
  <1>6. CASE g.ok /\ g.payload_len \in {64, 67}
    <2> DEFINE signalling == IF g.payload_len = 67 THEN Payload(g, 64, 3) ELSE << >>
    <2>1. /\ h.ok /\ h.len = g.payload_len /\ h.len \in {64, 67} /\ PrintHeader(g) = h.lines
      BY <1>1, <1>6 DEF SameHeader
    <2>2. /\ Part(h, 0, 32) = Payload(g, 0, 32)
          /\ Part(h, 32, 64) = Payload(g, 32, 32)
      BY <1>1, <1>6, <2>1, PayloadSlice
    <2>3. ToEnd(h, 64) = signalling
      <3>1. ToEnd(h, 64) = Payload(g, 64, g.payload_len - 64)
        BY <1>1, <1>6, <2>1, PayloadRest
      <3>2. g.payload_len = 64 => Payload(g, 64, g.payload_len - 64) = << >>
        BY PayloadEmpty
      <3>3. QED
        BY <1>6, <3>1, <3>2
    <2>4. PrintSignalling(signalling) = DescribeSignalling(signalling)
      BY SignallingAgrees
    <2> DEFINE lines == h.lines
                 \o <<Field("x25519_public", Hex(Payload(g, 0, 32))),
                      Field("ed25519_public", Hex(Payload(g, 32, 32)))>>
                 \o DescribeSignalling(signalling)
                 \o <<Field("link_id", Hex(LinkIdOf(b[1], h.len)))>>
    <2>5. DumpLinkRequest(b) = Exits(lines)
      BY ONLY <1>2, <1>3, <1>6, <2>1, <2>4 DEF DumpLinkRequest, g
    <2> HIDE DEF signalling
    <2>6. DescribeLinkRequest(b) = lines
      BY ONLY <1>3, <2>1, <2>2, <2>3 DEF DescribeLinkRequest, h
    <2>7. QED
      BY <2>5, <2>6
  <1>7. QED
    BY <1>4, <1>5, <1>6

LEMMA ResourceProofAgrees ==
  ASSUME NEW b, IsLine(b[1]), IsLine(b[2]), b[1].len = HASHLEN
  PROVE  DumpResourceProof(b) = Exits(DescribeResourceProof(b))
  <1> DEFINE g == Header(b[2])
             h == DescribeHeader(b[2])
  <1>1. SameHeader(g, h)
    BY HeaderAgrees
  <1>2. All(b[1]) = Whole(b[1])
    BY WholeLine
  <1>3. HASHLEN = 32 /\ 2 * HASHLEN = 64
    BY DEF HASHLEN
  <1> HIDE DEF g, h
  <1>4. CASE ~g.ok
    <2>1. ~h.ok /\ h.lines = g.lines
      BY <1>1, <1>4 DEF SameHeader
    <2>2. QED
      BY ONLY <1>2, <1>4, <2>1, b[1].len = HASHLEN
         DEF DumpResourceProof, DescribeResourceProof, Rejected, g, h
  <1>5. CASE g.ok /\ g.payload_len # 64
    <2>1. h.ok /\ h.len # 64 /\ h.len = g.payload_len /\ PrintHeader(g) = h.lines
      BY <1>1, <1>5 DEF SameHeader
    <2> DEFINE echo == <<Field("advertised_hash", Hex(Whole(b[1])))>>
               fault == Rejection("invalid-length", <<Field("payload_length", Decimal(h.len)),
                                                      Field("accepted_length", Decimal(64))>>)
    <2>2. DumpResourceProof(b) = Exits(echo \o h.lines \o fault)
      BY ONLY <1>3, <1>5, <2>1, b[1].len = HASHLEN DEF DumpResourceProof, Rejected, g
    <2>3. DescribeResourceProof(b) = echo \o h.lines \o fault
      BY ONLY <1>2, <1>3, <2>1 DEF DescribeResourceProof, Invalid, h
    <2>4. QED
      BY <2>2, <2>3
  <1>6. CASE g.ok /\ g.payload_len = 64
    <2>1. h.ok /\ h.len = 64 /\ PrintHeader(g) = h.lines
      BY <1>1, <1>6 DEF SameHeader
    <2>2. Part(h, 0, 32) = Payload(g, 0, 32)
      BY <1>1, <1>6, <2>1, PayloadSlice
    <2>3. ToEnd(h, 32) = Payload(g, 32, 32)
      <3>1. ToEnd(h, 32) = Payload(g, 32, g.payload_len - 32)
        BY <1>1, <1>6, <2>1, PayloadRest
      <3>2. QED
        BY <1>6, <3>1
    <2>4. QED
      BY ONLY <1>2, <1>3, <1>6, <2>1, <2>2, <2>3, b[1].len = HASHLEN
         DEF DumpResourceProof, DescribeResourceProof, g, h
  <1>7. QED
    BY <1>4, <1>5, <1>6

(* Both carry on with the packet that is proved, or that opened the link,   *)
(* only when it is one: the vector is made from it.                         *)
LEMMA LinkProofAgrees ==
  ASSUME NEW b, IsLine(b[1]), IsLine(b[2]), IsLine(b[3]), b[2].len = KEYSIZE,
         DescribeHeader(b[1]).ok
  PROVE  DumpLinkProof(b) = Exits(DescribeLinkProof(b))
  <1> DEFINE rg == Header(b[1])
             rh == DescribeHeader(b[1])
             g  == Header(b[3])
             h  == DescribeHeader(b[3])
             echo == <<Field("link_request", Hex(Whole(b[1]))),
                       Field("signer_public", Hex(Whole(b[2])))>>
             link_id == LinkIdOf(b[1], rh.len)
             signer  == At(b[2], 32, 32)
  <1>1. SameHeader(g, h) /\ SameHeader(rg, rh)
    BY HeaderAgrees
  <1>2. rg.ok /\ rh.ok
    BY <1>1 DEF SameHeader
  <1>3. LinkId(b[1], rg) = link_id
    BY <1>2, LinkIdAgrees
  <1>4. All(b[1]) = Whole(b[1]) /\ All(b[2]) = Whole(b[2])
    BY WholeLine
  <1>5. /\ SIGLEN = 64 /\ KEYHALF = 32 /\ SIGLEN + KEYHALF = 96 /\ SIGNALLEN = 3
        /\ 64 + 32 = 96 /\ 96 + 3 = 99
    BY DEF SIGLEN, KEYHALF, SIGNALLEN
  <1>6. Py(b[2], 32, b[2].len) = signer
    BY <1>5, KeyHalves
  <1> HIDE DEF rg, rh, g, h, echo, link_id, signer
  <1>7. CASE ~g.ok
    <2>1. ~h.ok /\ h.lines = g.lines
      BY <1>1, <1>7 DEF SameHeader
    <2>2. DumpLinkProof(b) = Exits(echo \o g.lines)
      BY ONLY <1>2, <1>7, b[2].len = KEYSIZE DEF DumpLinkProof, Rejected, g, rg, echo
    <2>3. DescribeLinkProof(b) = echo \o h.lines
      BY ONLY <1>4, <2>1 DEF DescribeLinkProof, h, echo
    <2>4. QED
      BY <2>1, <2>2, <2>3
  <1>8. CASE g.ok /\ g.payload_len \notin {96, 99}
    <2>1. /\ h.ok /\ h.len \notin {96, 99}
          /\ NeitherLength(g, "accepted_length", 96, "signalled_length", 99)
               = InvalidLength(h, "accepted_length", 96, "signalled_length", 99)
      BY <1>1, <1>8 DEF SameHeader, NeitherLength, InvalidLength
    <2> DEFINE fault == InvalidLength(h, "accepted_length", 96, "signalled_length", 99)
    <2>2. DumpLinkProof(b) = Exits(echo \o fault)
      BY ONLY <1>2, <1>5, <1>8, <2>1, b[2].len = KEYSIZE DEF DumpLinkProof, Rejected, g, rg, echo
    <2>3. DescribeLinkProof(b) = echo \o fault
      BY ONLY <1>4, <1>5, <2>1 DEF DescribeLinkProof, h, echo
    <2>4. QED
      BY <2>2, <2>3
  <1>9. CASE g.ok /\ g.payload_len \in {96, 99}
    <2> DEFINE signalling == IF g.payload_len = 99 THEN Payload(g, 96, 3) ELSE << >>
               signature  == Payload(g, 0, 64)
               x25519     == Payload(g, 64, 32)
               signed == Cat(<<link_id, x25519, signer, signalling>>)
               lines  == echo \o h.lines \o
                 <<Field("link_id", Hex(link_id)),
                   Field("link_id_match", Equal(h.dest_hash, link_id)),
                   Field("signature", Hex(signature)), Field("x25519_public", Hex(x25519))>>
                 \o DescribeSignalling(signalling)
                 \o <<Field("signer_ed25519", Hex(signer)), Field("signed_data", Hex(signed)),
                      Field("signature_valid", Verifies(signer, signature, signed))>>
    <2>1. /\ h.ok /\ h.len = g.payload_len /\ h.len \in {96, 99} /\ PrintHeader(g) = h.lines
          /\ g.destination_hash = h.dest_hash
      BY <1>1, <1>9 DEF SameHeader
    <2>2. /\ Part(h, 0, 64) = signature
          /\ Part(h, 64, 96) = x25519
      BY <1>1, <1>9, <2>1, PayloadSlice
    <2>3. ToEnd(h, 96) = signalling
      <3>1. ToEnd(h, 96) = Payload(g, 96, g.payload_len - 96)
        BY <1>1, <1>9, <2>1, PayloadRest
      <3>2. g.payload_len = 96 => Payload(g, 96, g.payload_len - 96) = << >>
        BY PayloadEmpty
      <3>3. QED
        BY <1>9, <3>1, <3>2
    <2>4. PrintSignalling(signalling) = DescribeSignalling(signalling)
      BY SignallingAgrees
    <2>5. DumpLinkProof(b) = Exits(lines)
      BY ONLY <1>2, <1>3, <1>5, <1>9, <2>1, <2>4, b[2].len = KEYSIZE
         DEF DumpLinkProof, g, rg, echo, signer
    <2> HIDE DEF signalling, signature, x25519
    <2>6. DescribeLinkProof(b) = lines
      BY ONLY <1>2, <1>4, <1>5, <1>6, <2>1, <2>2, <2>3, ZenonT(40)
         DEF DescribeLinkProof, h, rh, echo, link_id
    <2>7. QED
      BY <2>5, <2>6
  <1>10. QED
    BY <1>1, <1>7, <1>8, <1>9 DEF SameHeader

LEMMA DestinationType ==
  ASSUME NEW b, Header(b).ok
  PROVE  Header(b).destination_type = Bits(b.flags, 2, 2)
  BY DEF Header, Fault

(* The key a proof is read with is as long as its own flags ask for. *)
LEMMA ProofAgrees ==
  ASSUME NEW b, IsLine(b[1]), IsLine(b[2]), IsLine(b[3]),
         b[2].len = IF Bits(b[3].flags, 2, 2) = 3 THEN KEYHALF ELSE KEYSIZE,
         DescribeHeader(b[1]).ok
  PROVE  DumpProof(b) = Exits(DescribeProof(b))
  <1> DEFINE pg == Header(b[1])
             ph == DescribeHeader(b[1])
             g  == Header(b[3])
             h  == DescribeHeader(b[3])
             echo == <<Field("proved_packet", Hex(Whole(b[1]))),
                       Field("signer_public", Hex(Whole(b[2])))>>
  <1>1. SameHeader(g, h) /\ SameHeader(pg, ph)
    BY HeaderAgrees
  <1>2. pg.ok /\ ph.ok /\ pg.destination_hash = ph.dest_hash
    BY <1>1 DEF SameHeader
  <1>3. /\ PacketHash(b[1], pg) = Sha256(PartHash(b[1]), 32)
        /\ PacketHashOf(b[1], pg, ADDRLEN) = Sha256(PartHash(b[1]), ADDRLEN)
    BY <1>2, PacketHashAgrees DEF PacketHash, HASHLEN
  <1>4. All(b[1]) = Whole(b[1]) /\ All(b[2]) = Whole(b[2])
    BY WholeLine
  <1>5. /\ SIGLEN = 64 /\ KEYHALF = 32 /\ KEYSIZE = 64 /\ HASHLEN = 32
        /\ HASHLEN + SIGLEN = 96 /\ ADDRLEN * 2 = 32 /\ ADDRLEN * 2 + SIGLEN = 96
        /\ 32 + 64 = 96
    BY DEF SIGLEN, KEYHALF, KEYSIZE, HASHLEN, ADDRLEN
  <1>6. b[2].len = 64 => Py(b[2], 32, b[2].len) = At(b[2], 32, 32)
    BY <1>5, KeyHalves
  <1>7. b[2].len \in {KEYSIZE, KEYHALF}
    OBVIOUS
  <1>8. g.ok => b[2].len = IF h.destination_type = 3 THEN 32 ELSE 64
    BY <1>1, <1>5, DestinationType DEF SameHeader
  <1> HIDE DEF pg, ph, g, h, echo
  <1>9. CASE ~g.ok
    <2>1. ~h.ok /\ h.lines = g.lines
      BY <1>1, <1>9 DEF SameHeader
    <2>2. DumpProof(b) = Exits(echo \o g.lines)
      BY ONLY <1>2, <1>7, <1>9 DEF DumpProof, Rejected, g, pg, echo
    <2>3. DescribeProof(b) = echo \o h.lines
      BY ONLY <1>4, <2>1 DEF DescribeProof, h, echo
    <2>4. QED
      BY <2>1, <2>2, <2>3
  <1>10. CASE g.ok /\ g.payload_len \notin {64, 96}
    <2>1. /\ h.ok /\ h.len \notin {64, 96}
          /\ NeitherLength(g, "implicit_length", 64, "explicit_length", 96)
               = InvalidLength(h, "implicit_length", 64, "explicit_length", 96)
      BY <1>1, <1>10 DEF SameHeader, NeitherLength, InvalidLength
    <2> DEFINE fault == InvalidLength(h, "implicit_length", 64, "explicit_length", 96)
    <2>2. DumpProof(b) = Exits(echo \o fault)
      BY ONLY <1>2, <1>5, <1>7, <1>10, <2>1 DEF DumpProof, Rejected, g, pg, echo
    <2>3. DescribeProof(b) = echo \o fault
      BY ONLY <1>4, <1>5, <2>1 DEF DescribeProof, h, echo
    <2>4. QED
      BY <2>2, <2>3
  <1>11. CASE g.ok /\ g.payload_len \in {64, 96}
    <2>1. /\ h.ok /\ h.len = g.payload_len /\ h.len \in {64, 96} /\ PrintHeader(g) = h.lines
          /\ g.destination_hash = h.dest_hash /\ g.destination_type = h.destination_type
      BY <1>1, <1>11 DEF SameHeader
    <2>2. Part(h, 0, 32) = Payload(g, 0, 32)
      BY <1>1, <1>11, <2>1, PayloadSlice
    <2>3. ToEnd(h, 0) = Payload(g, 0, g.payload_len)
      <3>1. ToEnd(h, 0) = Payload(g, 0, g.payload_len - 0) /\ g.payload_len - 0 = g.payload_len
        BY <1>1, <1>11, <2>1, PayloadRest
      <3>2. QED
        BY <3>1
    <2>4. g.payload_len = 96 => ToEnd(h, 32) = Payload(g, 32, 64)
      <3>1. ToEnd(h, 32) = Payload(g, 32, g.payload_len - 32)
        BY <1>1, <1>11, <2>1, PayloadRest
      <3>2. g.payload_len = 96 => g.payload_len - 32 = 64
        OBVIOUS
      <3>3. QED
        BY <3>1, <3>2
    <2>5. CASE h.destination_type = 3
      <3>1. b[2].len = KEYHALF
        BY <1>5, <1>8, <1>11, <2>5
      <3>2. CASE g.payload_len = 96
        BY ONLY <1>2, <1>3, <1>4, <1>5, <1>7, <1>11, <2>1, <2>2, <2>4, <2>5, <3>1, <3>2
           DEF DumpProof, DescribeProof, g, pg, h, ph
      <3>3. CASE g.payload_len = 64
        BY ONLY <1>2, <1>3, <1>4, <1>5, <1>7, <1>11, <2>1, <2>3, <2>5, <3>1, <3>3
           DEF DumpProof, DescribeProof, g, pg, h, ph
      <3>4. QED
        BY <1>11, <3>2, <3>3
    <2>6. CASE h.destination_type # 3
      <3>1. b[2].len = KEYSIZE /\ Py(b[2], 32, b[2].len) = At(b[2], 32, 32)
        BY <1>5, <1>6, <1>8, <1>11, <2>6
      <3>2. CASE g.payload_len = 96
        BY ONLY <1>2, <1>3, <1>4, <1>5, <1>7, <1>11, <2>1, <2>2, <2>4, <2>6, <3>1, <3>2
           DEF DumpProof, DescribeProof, g, pg, h, ph
      <3>3. CASE g.payload_len = 64
        BY ONLY <1>2, <1>3, <1>4, <1>5, <1>7, <1>11, <2>1, <2>3, <2>6, <3>1, <3>3
           DEF DumpProof, DescribeProof, g, pg, h, ph
      <3>4. QED
        BY <1>11, <3>2, <3>3
    <2>7. QED
      BY <2>5, <2>6
  <1>12. QED
    BY <1>9, <1>10, <1>11

-----------------------------------------------------------------------------
(* What the cryptography says of a vector's bytes *)
Sees == [agreed : BOOLEAN, mac_ok : BOOLEAN, pad : 0..255, exhausted : BOOLEAN]

LEMMA KeysAgree ==
  ASSUME NEW private, NEW public, NEW salt, NEW sees
  PROVE  Agreed(private, public, salt, sees) = Exchange(private, public, salt, sees)
  <1>1. 32 * (1 - 1) = 0 /\ 32 * (2 - 1) = 32 /\ KEYHALF = 32 /\ MACLEN = 32
    BY DEF KEYHALF, MACLEN
  <1>2. QED
    BY <1>1 DEF Agreed, Exchange, NoKey, NoSecret, None

LEMMA KeyLinesAgree ==
  ASSUME NEW k
  PROVE  PrintKeys(k) = KeyFields(k)
  BY DEF PrintKeys, KeyFields, NoKey, None

(* t is what token_open fills in, u what the generator's finds *)
SameToken(t, u) ==
  /\ t.iv = u.iv /\ t.ciphertext = u.ct /\ t.mac = u.mac
  /\ t.verdict = u.valid /\ t.plain = u.plain
  /\ t.opened \in BOOLEAN /\ t.opened = u.opened
  /\ t.opened => t.ptlen = u.size /\ t.ptlen \in Nat

LEMMA ExtentOfBytes ==
  ASSUME NEW of, NEW from \in Nat, NEW n \in Nat
  PROVE  Extent(Mem(of, from, n)) = n
  <1>1. CASE n = 0
    BY <1>1 DEF Extent, Mem
  <1>2. CASE n # 0
    <2>1. Mem(of, from, n) = <<[of |-> of, from |-> from, to |-> from + n]>>
      BY <1>2 DEF Mem, Piece
    <2>2. Extent(Mem(of, from, n)) = (from + n) - from
      BY <2>1 DEF Extent
    <2>3. QED
      BY <2>2
  <1>3. QED
    BY <1>1, <1>2

LEMMA TokenAgrees ==
  ASSUME NEW g, NEW h, SameHeader(g, h), g.ok, NEW from \in Nat,
         g.payload_len >= from + TOKEN_OVERHEAD, NEW key, NEW sees \in Sees
  PROVE  SameToken(TokenOpen(g, from, g.payload_len - from, key, sees),
                   Token(h, from, key, sees))
  <1> DEFINE len    == g.payload_len - from
             ctlen  == len - TOKEN_OVERHEAD
             iv     == Payload(g, from, 16)
             ct     == Payload(g, from + 16, ctlen)
             mac    == Payload(g, from + len - 32, 32)
             t      == TokenOpen(g, from, len, key, sees)
             u      == Token(h, from, key, sees)
             blocks == key # NoKey /\ sees.mac_ok /\ ctlen > 0 /\ ctlen % 16 = 0
  <1>1. /\ h.len = g.payload_len /\ h.len \in Nat /\ TOKEN_OVERHEAD = 48
        /\ IVLEN = 16 /\ MACLEN = 32 /\ BLOCK = 16 /\ NoKey = None
        /\ g.at \in Nat
    BY DEF SameHeader, TOKEN_OVERHEAD, IVLEN, MACLEN, BLOCK, NoKey, None
  <1>2. /\ ctlen \in Nat /\ from + 16 <= h.len - 32 /\ h.len - 32 \in Nat
        /\ ctlen = (h.len - 32) - (from + 16) /\ from + len - 32 = h.len - 32
        /\ (from + 16) - from = 16 /\ h.len - (h.len - 32) = 32
        /\ from + 16 \in Nat /\ from + 16 <= h.len /\ from <= from + 16
    BY <1>1
  <1>3. Part(h, from, from + 16) = iv
    BY <1>1, <1>2, PayloadSlice
  <1>4. Part(h, from + 16, h.len - 32) = ct
    BY <1>1, <1>2, PayloadSlice
  <1>5. Part(h, h.len - 32, h.len) = mac
    BY <1>1, <1>2, PayloadSlice
  <1>6. Extent(ct) = ctlen
    <2>1. g.at + (from + 16) \in Nat
      BY <1>1, <1>2
    <2>2. QED
      BY <1>2, <2>1, ExtentOfBytes DEF Payload
  <1>7. sees.pad \in 0..255 /\ sees.mac_ok \in BOOLEAN
    BY DEF Sees
  <1> HIDE DEF ctlen, iv, ct, mac
  <1>8. t = [iv |-> iv, ciphertext |-> ct, mac |-> mac, keyed |-> key # NoKey,
             mac_ok |-> key # NoKey /\ sees.mac_ok,
             opened |-> (IF blocks THEN Unpad(ctlen, sees.pad) ELSE -1) >= 0,
             ptlen |-> IF blocks THEN Unpad(ctlen, sees.pad) ELSE -1,
             plain |-> IF key # NoKey THEN <<"cbc", <<key[2], iv, ct>>>> ELSE << >>,
             verdict |-> IF key # NoKey
                         THEN Equal(mac, Made("hmac", <<key[1], Cat(<<iv, ct>>)>>, 32))
                         ELSE Dash]
    BY ONLY <1>1, ZenonT(40) DEF TokenOpen, t, ctlen, iv, ct, mac
  <1>9. u = [iv |-> iv, ct |-> ct, mac |-> mac,
             opened |-> blocks /\ sees.pad <= 16, size |-> ctlen - sees.pad,
             valid |-> IF key = None THEN Dash
                       ELSE Equal(mac, Made("hmac", <<key[1], Cat(<<iv, ct>>)>>, 32)),
             plain |-> IF key = None THEN None ELSE <<"cbc", <<key[2], iv, ct>>>>]
    BY ONLY <1>1, <1>3, <1>4, <1>5, <1>6, Zenon DEF Token
  <1> HIDE DEF t, u
  <1>10. /\ t.iv = u.iv /\ t.ciphertext = u.ct /\ t.mac = u.mac
         /\ t.verdict = u.valid /\ t.plain = u.plain
    <2>1. t.iv = u.iv /\ t.ciphertext = u.ct /\ t.mac = u.mac
      BY ONLY <1>8, <1>9
    <2>2. CASE key = None
      BY ONLY <1>1, <1>8, <1>9, <2>1, <2>2 DEF None
    <2>3. CASE key # None
      BY ONLY <1>1, <1>8, <1>9, <2>1, <2>3
    <2>4. QED
      BY <2>2, <2>3
  <1>11. CASE blocks /\ sees.pad <= 16
    <2>1. Unpad(ctlen, sees.pad) = ctlen - sees.pad /\ ctlen - sees.pad \in Nat
      <3>1. ctlen >= 16
        BY <1>2, <1>11
      <3>2. QED
        BY <1>1, <1>2, <1>7, <1>11, <3>1 DEF Unpad
    <2>2. t.ptlen = ctlen - sees.pad /\ t.opened = (ctlen - sees.pad >= 0)
      BY <1>8, <1>11, <2>1
    <2>3. t.opened = TRUE
      <3>1. (ctlen - sees.pad >= 0) = TRUE
        BY <2>1
      <3>2. QED
        BY <2>2, <3>1, Zenon
    <2>4. u.opened = TRUE /\ u.size = ctlen - sees.pad
      BY <1>9, <1>11
    <2>5. QED
      BY <1>10, <2>1, <2>2, <2>3, <2>4 DEF SameToken, t, u
  <1>12. CASE ~(blocks /\ sees.pad <= 16)
    <2> DEFINE ptlen == IF blocks THEN Unpad(ctlen, sees.pad) ELSE -1
    <2>1. ptlen = -1
      BY <1>1, <1>7, <1>12 DEF Unpad
    <2>2. t.opened = (ptlen >= 0)
      BY <1>8
    <2>3. t.opened = FALSE
      <3>1. (ptlen >= 0) = FALSE
        BY <2>1
      <3>2. QED
        BY <2>2, <3>1, Zenon
    <2>4. u.opened = FALSE
      BY <1>9, <1>12
    <2>5. QED
      BY <1>10, <2>3, <2>4 DEF SameToken, t, u
  <1>13. QED
    BY <1>11, <1>12

LEMMA TokenLinesAgree ==
  ASSUME NEW t, NEW u, SameToken(t, u)
  PROVE  /\ PrintToken(t) = TokenParts(u)
         /\ PrintPlaintext(t) = TokenPlaintext(u)
  <1>1. PrintToken(t) = TokenParts(u)
    BY DEF SameToken, PrintToken, TokenParts
  <1>2. CASE t.opened
    <2>1. u.opened /\ t.ptlen = u.size /\ u.size \in Nat /\ u.plain = t.plain /\ t.verdict = u.valid
      BY <1>2 DEF SameToken
    <2>2. Sliced(u.plain, u.size, 0, u.size) = Mem(u.plain, 0, u.size - 0)
      BY <2>1, SliceInside
    <2>3. u.size - 0 = u.size
      BY <2>1
    <2>4. QED
      BY <1>1, <1>2, <2>1, <2>2, <2>3 DEF PrintPlaintext, TokenPlaintext
  <1>3. CASE ~t.opened
    <2>1. ~u.opened /\ t.verdict = u.valid
      BY <1>3 DEF SameToken
    <2>2. QED
      BY <1>1, <1>3, <2>1 DEF PrintPlaintext, TokenPlaintext
  <1>4. QED
    BY <1>2, <1>3

LEMMA EncryptedAgrees ==
  ASSUME NEW b, IsLine(b[1]), IsLine(b[2]), IsLine(b[3]), b[1].len = KEYSIZE,
         b[2].len \in {0, RATCHETLEN}, NEW sees \in Sees
  PROVE  DumpEncrypted(b, sees) = Exits(DescribeEncrypted(b, sees))
  <1> DEFINE g == Header(b[3])
             h == DescribeHeader(b[3])
             echo == <<Field("recipient_private", Hex(Whole(b[1]))),
                       Field("ratchet_private", Hex(Whole(b[2])))>>
             identity_hash == Sha256(Cat(PublicPair(b[1])), ADDRLEN)
             with == IF b[2].absent THEN At(b[1], 0, KEYHALF) ELSE Whole(b[2])
  <1>1. SameHeader(g, h)
    BY HeaderAgrees
  <1>2. All(b[1]) = Whole(b[1]) /\ All(b[2]) = Whole(b[2])
    BY WholeLine
  <1>3. KEYHALF = 32 /\ KEYHALF + TOKEN_OVERHEAD = 80
    BY DEF KEYHALF, TOKEN_OVERHEAD, IVLEN, MACLEN
  <1>4. /\ Py(b[1], 0, KEYHALF) = At(b[1], 0, KEYHALF)
        /\ Publics(b[1]) = PublicPair(b[1])
    BY KeyHalves, PublicsAgree
  <1>5. ~(b[1].len # KEYSIZE \/ (~b[2].absent /\ b[2].len # KEYHALF))
    BY DEF IsLine, RATCHETLEN, KEYHALF
  <1> HIDE DEF g, h, echo, identity_hash, with
  <1>6. CASE ~g.ok
    <2>1. ~h.ok /\ h.lines = g.lines
      BY <1>1, <1>6 DEF SameHeader
    <2>2. DumpEncrypted(b, sees) = Exits(echo \o g.lines)
      BY ONLY <1>5, <1>6 DEF DumpEncrypted, Rejected, g, echo
    <2>3. DescribeEncrypted(b, sees) = echo \o h.lines
      BY ONLY <1>2, <2>1 DEF DescribeEncrypted, h, echo
    <2>4. QED
      BY <2>1, <2>2, <2>3
  <1>7. CASE g.ok /\ g.payload_len < 80
    <2>1. /\ h.ok /\ h.len < 80
          /\ ShortPayload(g, 80) = Invalid("short-payload", "payload_length", h.len,
                                           "minimum_length", 80)
      BY <1>1, <1>7, ShortPayloadAgrees, ZenonT(40) DEF SameHeader
    <2> DEFINE fault == ShortPayload(g, 80)
    <2>2. DumpEncrypted(b, sees) = Exits(echo \o fault)
      BY ONLY <1>3, <1>5, <1>7 DEF DumpEncrypted, Rejected, g, echo
    <2>3. DescribeEncrypted(b, sees) = echo \o fault
      BY ONLY <1>2, <1>3, <2>1 DEF DescribeEncrypted, h, echo
    <2>4. QED
      BY <2>2, <2>3
  <1>8. CASE g.ok /\ g.payload_len >= 80
    <2> DEFINE ephemeral == Payload(g, 0, KEYHALF)
               k == Exchange(with, ephemeral, identity_hash, sees)
               t == TokenOpen(g, KEYHALF, g.payload_len - KEYHALF, k.key, sees)
               u == Token(h, KEYHALF, k.key, sees)
               ratchet == IF b[2].absent THEN Dash ELSE Hex(PublicOf(Whole(b[2]), KEYHALF))
               lines == echo \o h.lines \o <<Field("ephemeral_public", Hex(ephemeral))>>
                          \o TokenParts(u)
                          \o <<Field("identity_hash", Hex(identity_hash)),
                               Field("ratchet_public", ratchet)>>
                          \o KeyFields(k) \o TokenPlaintext(u)
    <2>1. /\ h.ok /\ h.len = g.payload_len /\ h.len \in Nat /\ PrintHeader(g) = h.lines
          /\ ~(h.len < 80) /\ ~(g.payload_len < 80)
      BY <1>1, <1>8 DEF SameHeader
    <2>2. Part(h, 0, KEYHALF) = ephemeral
      <3>1. Part(h, 0, 32) = Payload(g, 0, 32 - 0)
        BY <1>1, <1>8, <2>1, PayloadSlice
      <3>2. QED
        BY <1>3, <3>1
    <2>3. Agreed(with, ephemeral, identity_hash, sees) = k
      BY KeysAgree
    <2>4. SameToken(t, u)
      BY <1>1, <1>3, <1>8, TokenAgrees
    <2>5. PrintToken(t) = TokenParts(u) /\ PrintPlaintext(t) = TokenPlaintext(u)
      BY <2>4, TokenLinesAgree
    <2>6. PrintKeys(k) = KeyFields(k)
      BY KeyLinesAgree
    <2> HIDE DEF k, ephemeral
    <2>7. DumpEncrypted(b, sees) = Exits(lines)
      BY ONLY <1>3, <1>5, <1>8, <2>1, <2>3, <2>5, <2>6
         DEF DumpEncrypted, g, echo, identity_hash, with, ephemeral
    <2>8. DescribeEncrypted(b, sees) = lines
      BY ONLY <1>2, <1>3, <1>4, <1>8, <2>1, <2>2, ZenonT(40)
         DEF DescribeEncrypted, PublicOf, h, echo, identity_hash, with, k
    <2>9. QED
      BY <2>7, <2>8
  <1>9. QED
    BY <1>1, <1>6, <1>7, <1>8 DEF SameHeader

LEMMA GroupAgrees ==
  ASSUME NEW b, IsLine(b[1]), IsLine(b[2]), b[1].len \in {DERIVEDLEN \div 2, DERIVEDLEN},
         NEW sees \in Sees
  PROVE  DumpGroup(b, sees) = Exits(DescribeGroup(b, sees))
  <1> DEFINE g == Header(b[2])
             h == DescribeHeader(b[2])
             echo == <<Field("group_key", Hex(Whole(b[1])))>>
             half == b[1].len \div 2
             key  == <<At(b[1], 0, half), At(b[1], half, half)>>
  <1>1. SameHeader(g, h)
    BY HeaderAgrees
  <1>2. All(b[1]) = Whole(b[1]) /\ b[1].len \in Nat
    BY WholeLine
  <1>3. TOKEN_OVERHEAD = 48
    BY DEF TOKEN_OVERHEAD, IVLEN, MACLEN
  <1>4. <<Py(b[1], 0, half), Py(b[1], half, b[1].len)>> = key
    <2>1. b[1].len \in {32, 64}
      BY DEF DERIVEDLEN
    <2>2. half \in Nat /\ half <= b[1].len /\ b[1].len - half = half /\ half - 0 = half
      BY <2>1
    <2> HIDE DEF half
    <2>3. Py(b[1], 0, half) = At(b[1], 0, half - 0)
      BY <1>2, <2>2, LineSlice
    <2>4. Py(b[1], half, b[1].len) = At(b[1], half, b[1].len - half)
      BY <1>2, <2>2, LineSlice
    <2>5. QED
      BY <2>2, <2>3, <2>4
  <1>5. ~(b[1].len \notin {DERIVEDLEN, DERIVEDLEN \div 2})
    OBVIOUS
  <1> HIDE DEF g, h, echo, half, key
  <1>6. CASE ~g.ok
    <2>1. ~h.ok /\ h.lines = g.lines
      BY <1>1, <1>6 DEF SameHeader
    <2>2. DumpGroup(b, sees) = Exits(echo \o g.lines)
      BY ONLY <1>5, <1>6 DEF DumpGroup, Rejected, g, echo
    <2>3. DescribeGroup(b, sees) = echo \o h.lines
      BY ONLY <1>2, <2>1 DEF DescribeGroup, h, echo
    <2>4. QED
      BY <2>1, <2>2, <2>3
  <1>7. CASE g.ok /\ g.payload_len < 48
    <2>1. /\ h.ok /\ h.len < 48
          /\ ShortPayload(g, 48) = Invalid("short-payload", "payload_length", h.len,
                                           "minimum_length", 48)
      BY <1>1, <1>7, ShortPayloadAgrees, ZenonT(40) DEF SameHeader
    <2> DEFINE fault == ShortPayload(g, 48)
    <2>2. DumpGroup(b, sees) = Exits(echo \o fault)
      BY ONLY <1>3, <1>5, <1>7 DEF DumpGroup, Rejected, g, echo
    <2>3. DescribeGroup(b, sees) = echo \o fault
      BY ONLY <1>2, <1>3, <2>1 DEF DescribeGroup, h, echo
    <2>4. QED
      BY <2>2, <2>3
  <1>8. CASE g.ok /\ g.payload_len >= 48
    <2> DEFINE t == TokenOpen(g, 0, g.payload_len, key, sees)
               u == Token(h, 0, key, sees)
               lines == echo \o h.lines \o TokenParts(u)
                          \o <<Field("signing_key", Hex(key[1])),
                               Field("encryption_key", Hex(key[2]))>>
                          \o TokenPlaintext(u)
    <2>1. /\ h.ok /\ h.len = g.payload_len /\ h.len \in Nat /\ PrintHeader(g) = h.lines
          /\ ~(h.len < 48) /\ ~(g.payload_len < 48)
      BY <1>1, <1>8 DEF SameHeader
    <2>2. SameToken(t, u)
      <3>1. g.payload_len - 0 = g.payload_len /\ 0 + TOKEN_OVERHEAD = 48
        BY <1>3, <2>1
      <3>2. SameToken(TokenOpen(g, 0, g.payload_len - 0, key, sees), u)
        BY <1>1, <1>8, <3>1, TokenAgrees
      <3>3. QED
        BY <3>1, <3>2
    <2>3. PrintToken(t) = TokenParts(u) /\ PrintPlaintext(t) = TokenPlaintext(u)
      BY <2>2, TokenLinesAgree
    <2>4. DumpGroup(b, sees) = Exits(lines)
      BY ONLY <1>3, <1>5, <1>8, <2>1, <2>3, SMTT(30) DEF DumpGroup, g, echo, half, key
    <2>5. DescribeGroup(b, sees) = lines
      BY ONLY <1>2, <1>3, <1>4, <2>1 DEF DescribeGroup, h, echo, half
    <2>6. QED
      BY <2>4, <2>5
  <1>9. QED
    BY <1>1, <1>6, <1>7, <1>8 DEF SameHeader

-----------------------------------------------------------------------------
(* The name the decoder goes by, and the byte the generator goes by *)
NameOf(c) == IF c \in DOMAIN ContextName THEN ContextName[c] ELSE "unnamed"

LEMMA ContextNames ==
  ASSUME NEW c \in 0..255
  PROVE  /\ NameOf(c) = "request"       <=> c = 9
         /\ NameOf(c) = "response"      <=> c = 10
         /\ NameOf(c) = "channel"       <=> c = 14
         /\ NameOf(c) = "resource_adv"  <=> c = 2
         /\ NameOf(c) = "resource_req"  <=> c = 3
         /\ NameOf(c) = "resource_hmu"  <=> c = 4
         /\ NameOf(c) = "resource_icl"  <=> c = 6
         /\ NameOf(c) = "resource_rcl"  <=> c = 7
         /\ NameOf(c) = "link_identify" <=> c = 251
         /\ NameOf(c) = "resource"      <=> c = 1
         /\ NameOf(c) = "keepalive"     <=> c = 250
         /\ c \in {2, 3, 4, 6, 7, 9, 10, 14, 251} => NameOf(c) = ContextName[c]
  BY DEF NameOf, ContextName

LEMMA AfterPlaintextAgrees ==
  ASSUME NEW t, NEW u, SameToken(t, u), t.opened, NEW c \in 0..255, NEW link_id,
         NEW sees \in Sees, DescribePlaintext(c, u, link_id, sees) # Raises
  PROVE  AfterPlaintext(NameOf(c), t, link_id, sees) = DescribePlaintext(c, u, link_id, sees)
  <1> DEFINE n == t.ptlen
             of(from, to) == Sliced(u.plain, u.size, from, to)
             body == <<Field("body", <<"body", NameOf(c), PlainAt(t, 0, n)>>)>>
  <1>1. n \in Nat /\ u.size = n /\ u.plain = t.plain
    BY DEF SameToken
  <1>2. ASSUME NEW from \in Nat, NEW to \in Nat, from <= to, to <= n
        PROVE  of(from, to) = PlainAt(t, from, to - from)
    BY <1>1, <1>2, SliceInside DEF PlainAt
  <1>3. of(0, n) = PlainAt(t, 0, n)
    <2>1. of(0, n) = PlainAt(t, 0, n - 0) /\ n - 0 = n
      BY <1>1, <1>2
    <2>2. QED
      BY <2>1
  <1>4. Body(NameOf(c), t) = body
    BY DEF Body
  <1> HIDE DEF of, body, n
  <1>5. /\ HASHLEN = 32 /\ MAPHASHLEN = 4 /\ ENVELOPELEN = 6 /\ KEYSIZE = 64 /\ SIGLEN = 64
        /\ KEYHALF = 32 /\ HASHLEN + 1 = 33 /\ KEYSIZE + SIGLEN = 128
    BY DEF HASHLEN, MAPHASHLEN, ENVELOPELEN, KEYSIZE, SIGLEN, KEYHALF
  <1>6. CASE c = 14
    <2>1. NameOf(c) = "channel" /\ Least("channel") = 6
      BY <1>5, <1>6, ContextNames DEF Least
    <2>2. CASE n < 6
      BY ONLY <1>1, <1>5, <1>6, <2>1, <2>2
         DEF AfterPlaintext, DescribePlaintext, Short, n
    <2>3. CASE n >= 6
      <3>1. /\ of(0, 2) = PlainAt(t, 0, 2) /\ of(2, 4) = PlainAt(t, 2, 2)
            /\ of(4, 6) = PlainAt(t, 4, 2) /\ of(6, n) = PlainAt(t, 6, n - 6)
        BY <1>1, <1>2, <2>3
      <3>2. ~(n < 6)
        BY <1>1, <2>3
      <3>3. AfterPlaintext(NameOf(c), t, link_id, sees)
              = <<Field("msgtype", Hex(PlainAt(t, 0, 2))),
                  Field("sequence", <<"number", PlainAt(t, 2, 2)>>),
                  Field("declared_length", <<"number", PlainAt(t, 4, 2)>>),
                  Field("message", Hex(PlainAt(t, 6, n - 6)))>>
        BY ONLY <1>5, <2>1, <2>3, <3>2 DEF AfterPlaintext, n
      <3>4. DescribePlaintext(c, u, link_id, sees)
              = <<Field("msgtype", Hex(of(0, 2))), Field("sequence", <<"number", of(2, 4)>>),
                  Field("declared_length", <<"number", of(4, 6)>>),
                  Field("message", Hex(of(6, n)))>>
        BY ONLY <1>1, <1>5, <1>6, <3>2 DEF DescribePlaintext, of
      <3>5. QED
        BY <3>1, <3>3, <3>4
    <2>4. QED
      BY <1>1, <2>2, <2>3
  <1>7. CASE c \in {9, 10}
    <2>1. NameOf(c) \in {"request", "response"} /\ Least(NameOf(c)) = 1 /\ NameOf(c) = ContextName[c]
      BY <1>7, ContextNames DEF Least
    <2>2. CASE n < 1
      BY ONLY <1>1, <1>7, <2>1, <2>2 DEF AfterPlaintext, DescribePlaintext, Short, n
    <2>3. CASE ~(n < 1)
      <3>1. n >= 1
        BY <1>1, <2>3
      <3>2. AfterPlaintext(NameOf(c), t, link_id, sees) = body
        BY ONLY <1>4, <2>1, <2>3, <3>1 DEF AfterPlaintext, n
      <3>3. DescribePlaintext(c, u, link_id, sees) = body
        BY ONLY <1>1, <1>3, <1>7, <2>1, <2>3 DEF DescribePlaintext, of, body
      <3>4. QED
        BY <3>2, <3>3
    <2>4. QED
      BY <2>2, <2>3
  <1>8. CASE c = 4
    <2>1. NameOf(c) = "resource_hmu" /\ Least(NameOf(c)) = 33 /\ NameOf(c) = ContextName[c]
      BY <1>5, <1>8, ContextNames DEF Least
    <2>2. CASE n < 33
      BY ONLY <1>1, <1>5, <1>8, <2>1, <2>2 DEF AfterPlaintext, DescribePlaintext, Short, n
    <2>3. CASE ~(n < 33)
      <3>1. n >= 33
        BY <1>1, <2>3
      <3>2. AfterPlaintext(NameOf(c), t, link_id, sees) = body
        BY ONLY <1>4, <2>1, <2>3, <3>1 DEF AfterPlaintext, n
      <3>3. DescribePlaintext(c, u, link_id, sees) = body
        BY ONLY <1>1, <1>3, <1>5, <1>8, <2>1, <2>3 DEF DescribePlaintext, of, body
      <3>4. QED
        BY <3>2, <3>3
    <2>4. QED
      BY <2>2, <2>3
  <1>9. CASE c = 3
    <2> DEFINE need == IF n < 1 THEN 1 ELSE IF sees.exhausted THEN 37 ELSE 33
    <2>1. NameOf(c) = "resource_req" /\ NameOf(c) = ContextName[c] /\ need \in Nat
      BY <1>9, ContextNames
    <2>2. /\ PartRequestNeeds(t, sees) = need
          /\ (IF n < 1 THEN 1
              ELSE 1 + (IF sees.exhausted THEN MAPHASHLEN ELSE 0) + HASHLEN) = need
      BY <1>1, <1>5 DEF PartRequestNeeds, n
    <2> HIDE DEF need
    <2>3. CASE n < need
      BY ONLY <1>1, <1>9, <2>1, <2>2, <2>3 DEF AfterPlaintext, DescribePlaintext, Short, n
    <2>4. CASE ~(n < need)
      <3>1. n >= need
        BY <1>1, <2>1, <2>4
      <3>2. AfterPlaintext(NameOf(c), t, link_id, sees) = body
        BY ONLY <1>4, <2>1, <2>2, <2>4, <3>1 DEF AfterPlaintext, n
      <3>3. DescribePlaintext(c, u, link_id, sees) = body
        BY ONLY <1>1, <1>3, <1>9, <2>1, <2>2, <2>4 DEF DescribePlaintext, of, body
      <3>4. QED
        BY <3>2, <3>3
    <2>5. QED
      BY <2>3, <2>4
  <1>10. CASE c \in {2, 6, 7}
    <2>1. /\ NameOf(c) \in {"resource_adv", "resource_icl", "resource_rcl"}
          /\ Least(NameOf(c)) = 0 /\ NameOf(c) = ContextName[c] /\ ~(n < 0) /\ n >= 0
      BY <1>1, <1>10, ContextNames DEF Least
    <2>2. AfterPlaintext(NameOf(c), t, link_id, sees) = body
      BY ONLY <1>4, <2>1 DEF AfterPlaintext, n
    <2>3. DescribePlaintext(c, u, link_id, sees) = body
      BY ONLY <1>1, <1>3, <1>10, <2>1, DescribePlaintext(c, u, link_id, sees) # Raises
         DEF DescribePlaintext, of, body
    <2>4. QED
      BY <2>2, <2>3
  <1>11. CASE c = 251
    <2> DEFINE key    == PlainAt(t, 0, 64)
               signed == Cat(<<link_id, key>>)
    <2>1. NameOf(c) = "link_identify" /\ Least("link_identify") = 0 /\ ~(n < 0)
      BY <1>1, <1>11, ContextNames DEF Least
    <2>2. CASE n # 128
      BY ONLY <1>1, <1>5, <1>11, <2>1, <2>2 DEF AfterPlaintext, DescribePlaintext, n
    <2>3. CASE n = 128
      <3>1. /\ of(0, 64) = key /\ of(32, 64) = PlainAt(t, 32, 32)
            /\ of(64, n) = PlainAt(t, 64, 64)
        BY <1>1, <1>2, <2>3
      <3> DEFINE lines == <<Field("identity_public", Hex(key)),
                            Field("identity_hash", Hex(Sha256(key, ADDRLEN))),
                            Field("identity_signed", Hex(signed)),
                            Field("identity_valid",
                                  Verifies(PlainAt(t, 32, 32), PlainAt(t, 64, 64), signed))>>
      <3>2. AfterPlaintext(NameOf(c), t, link_id, sees) = lines
        BY ONLY <1>5, <2>1, <2>3 DEF AfterPlaintext, n
      <3>3. DescribePlaintext(c, u, link_id, sees) = lines
        BY ONLY <1>1, <1>5, <1>11, <2>3, <3>1 DEF DescribePlaintext, of
      <3>4. QED
        BY <3>2, <3>3
    <2>4. QED
      BY <2>2, <2>3
  <1>12. CASE c \notin {2, 3, 4, 6, 7, 9, 10, 14, 251}
    <2>1. /\ NameOf(c) \notin {"request", "response", "resource_adv", "resource_req",
                               "resource_hmu", "resource_icl", "resource_rcl", "channel",
                               "link_identify"}
          /\ Least(NameOf(c)) = 0 /\ ~(n < 0)
      BY <1>1, <1>12, ContextNames DEF Least
    <2>2. AfterPlaintext(NameOf(c), t, link_id, sees) = << >>
      BY ONLY <2>1 DEF AfterPlaintext, n
    <2>3. DescribePlaintext(c, u, link_id, sees) = << >>
      BY ONLY <1>12 DEF DescribePlaintext
    <2>4. QED
      BY <2>2, <2>3
  <1>13. QED
    BY <1>6, <1>7, <1>8, <1>9, <1>10, <1>11, <1>12

(* A body that the generator cannot write, it does not file. *)
LEMMA LinkDataAgrees ==
  ASSUME NEW b, IsLine(b[1]), IsLine(b[2]), IsLine(b[3]), b[2].len = KEYHALF,
         DescribeHeader(b[1]).ok, DescribeHeader(b[1]).len >= KEYHALF, NEW sees \in Sees,
         DescribeLinkData(b, sees) # Raises
  PROVE  DumpLinkData(b, sees) = Exits(DescribeLinkData(b, sees))
  <1> DEFINE rg == Header(b[1])
             rh == DescribeHeader(b[1])
             g  == Header(b[3])
             h  == DescribeHeader(b[3])
             echo == <<Field("link_request", Hex(Whole(b[1]))),
                       Field("responder_private", Hex(Whole(b[2])))>>
             link_id == LinkIdOf(b[1], rh.len)
             linked  == echo \o h.lines
               \o <<Field("link_id", Hex(link_id)),
                    Field("link_id_match", Equal(h.dest_hash, link_id))>>
             name == NameOf(h.context)
  <1>1. SameHeader(g, h) /\ SameHeader(rg, rh)
    BY HeaderAgrees
  <1>2. rg.ok /\ rh.ok /\ rh.len = rg.payload_len /\ rh.len \in Nat
    BY <1>1 DEF SameHeader
  <1>3. LinkId(b[1], rg) = link_id
    BY <1>2, LinkIdAgrees
  <1>4. All(b[1]) = Whole(b[1]) /\ All(b[2]) = Whole(b[2])
    BY WholeLine
  <1>5. KEYHALF = 32 /\ TOKEN_OVERHEAD = 48
    BY DEF KEYHALF, TOKEN_OVERHEAD, IVLEN, MACLEN
  <1>9. ~(rh.len < KEYHALF)
    BY <1>2, <1>5
  <1> HIDE DEF rg, rh, g, h, echo, link_id, linked, name
  <1>6. CASE ~g.ok
    <2>1. ~h.ok /\ h.lines = g.lines
      BY <1>1, <1>6 DEF SameHeader
    <2>2. DumpLinkData(b, sees) = Exits(echo \o g.lines)
      BY ONLY <1>2, <1>6, b[2].len = KEYHALF DEF DumpLinkData, Rejected, g, rg, echo
    <2>3. DescribeLinkData(b, sees) = echo \o h.lines
      BY ONLY <1>4, <2>1 DEF DescribeLinkData, h, echo
    <2>4. QED
      BY <2>1, <2>2, <2>3
  <1>7. CASE g.ok
    <2>1. /\ h.ok /\ h.len = g.payload_len /\ h.len \in Nat /\ PrintHeader(g) = h.lines
          /\ g.destination_hash = h.dest_hash /\ g.context = h.context /\ h.context \in 0..255
      BY <1>1, <1>7 DEF SameHeader
    <2>2. name \in Unencrypted <=> h.context \in {1, 250}
      BY <2>1, ContextNames DEF Unencrypted, name
    <2>3. (IF g.context \in DOMAIN ContextName THEN ContextName[g.context] ELSE "unnamed") = name
      BY <2>1 DEF name, NameOf
    <2>4. /\ echo \o PrintHeader(g)
               \o <<Field("link_id", Hex(LinkId(b[1], rg))),
                    Field("link_id_match", Equal(g.destination_hash, LinkId(b[1], rg)))>> = linked
      BY ONLY <1>3, <2>1 DEF linked
    <2>5. CASE h.context \in {1, 250}
      <3>1. ToEnd(h, 0) = Payload(g, 0, g.payload_len)
        <4>1. ToEnd(h, 0) = Payload(g, 0, g.payload_len - 0) /\ g.payload_len - 0 = g.payload_len
          BY <1>1, <1>7, <2>1, PayloadRest
        <4>2. QED
          BY <4>1
      <3> DEFINE lines == linked \o <<Field("encrypted", Word("no")),
                                      Field("plaintext_length", Decimal(h.len)),
                                      Field("plaintext", Hex(ToEnd(h, 0)))>>
      <3>2. name \in Unencrypted
        BY <2>2, <2>5
      <3>3. DumpLinkData(b, sees) = Exits(lines)
        BY ONLY <1>2, <1>7, <2>1, <2>3, <2>4, <3>1, <3>2, b[2].len = KEYHALF
           DEF DumpLinkData, g, rg, echo
      <3>4. DescribeLinkData(b, sees) = lines
        BY ONLY <1>2, <1>4, <2>1, <2>5 DEF DescribeLinkData, h, rh, echo, linked, link_id
      <3>5. QED
        BY <3>3, <3>4
    <2>6. CASE h.context \notin {1, 250} /\ g.payload_len < 48
      <3> DEFINE lines == linked \o <<Field("encrypted", Word("yes"))>> \o ShortPayload(g, 48)
      <3>1. /\ name \notin Unencrypted /\ h.len < 48
            /\ ShortPayload(g, 48) = Invalid("short-payload", "payload_length", h.len,
                                             "minimum_length", 48)
        BY <1>1, <1>7, <2>1, <2>2, <2>6, ShortPayloadAgrees
      <3>2. DumpLinkData(b, sees) = Exits(lines)
        BY ONLY <1>2, <1>5, <1>7, <2>3, <2>4, <2>6, <3>1, b[2].len = KEYHALF
           DEF DumpLinkData, Rejected, g, rg, echo
      <3>3. DescribeLinkData(b, sees) = lines
        BY ONLY <1>2, <1>4, <1>5, <2>1, <2>6, <3>1
           DEF DescribeLinkData, h, rh, echo, linked, link_id
      <3>4. QED
        BY <3>2, <3>3
    <2>7. CASE h.context \notin {1, 250} /\ g.payload_len >= 48
      <3> DEFINE public == Payload(rg, 0, KEYHALF)
                 k    == Exchange(Whole(b[2]), public, link_id, sees)
                 t    == TokenOpen(g, 0, g.payload_len, k.key, sees)
                 u    == Token(h, 0, k.key, sees)
                 rest == IF u.opened THEN DescribePlaintext(h.context, u, link_id, sees) ELSE << >>
                 lines == linked \o <<Field("encrypted", Word("yes"))>>
                            \o TokenParts(u) \o KeyFields(k) \o TokenPlaintext(u) \o rest
      <3>1. name \notin Unencrypted /\ ~(g.payload_len < 48) /\ ~(h.len < 48)
        BY <2>1, <2>2, <2>7
      <3>2. SameToken(t, u)
        <4>1. g.payload_len - 0 = g.payload_len /\ 0 + TOKEN_OVERHEAD = 48
          BY <1>5, <2>1
        <4>2. SameToken(TokenOpen(g, 0, g.payload_len - 0, k.key, sees), u)
          BY <1>1, <1>7, <2>7, <4>1, TokenAgrees
        <4>3. QED
          BY <4>1, <4>2
      <3>3. PrintToken(t) = TokenParts(u) /\ PrintPlaintext(t) = TokenPlaintext(u)
        BY <3>2, TokenLinesAgree
      <3>4. PrintKeys(k) = KeyFields(k)
        BY KeyLinesAgree
      <3>5. Agreed(Whole(b[2]), public, link_id, sees) = k
        BY KeysAgree
      <3>6. Part(rh, 0, KEYHALF) = public
        <4>1. ~(rh.len < 32) => Part(rh, 0, 32) = Payload(rg, 0, 32 - 0)
          BY <1>1, <1>2, PayloadSlice
        <4>2. QED
          BY <1>5, <1>9, <4>1
      <3> HIDE DEF public
      <3>7. rest # Raises /\ DescribeLinkData(b, sees) = lines
        <4>1. Exchange(All(b[2]), Part(rh, 0, KEYHALF), link_id, sees) = k
          BY <1>4, <3>6
        <4> HIDE DEF k
        <4>2. DescribeLinkData(b, sees) = IF rest = Raises THEN Raises ELSE lines
          BY ONLY <1>2, <1>4, <1>5, <1>9, <2>1, <2>7, <3>1, <4>1
             DEF DescribeLinkData, h, rh, echo, linked, link_id
        <4>3. QED
          BY <4>2
      <3>8. (IF t.opened THEN AfterPlaintext(name, t, link_id, sees) ELSE << >>) = rest
        <4>1. t.opened = u.opened
          BY <3>2 DEF SameToken
        <4> HIDE DEF t, u
        <4>2. CASE t.opened
          <5> DEFINE described == DescribePlaintext(h.context, u, link_id, sees)
          <5>1. rest = described
            BY <4>1, <4>2
          <5>2. described # Raises
            BY <3>7, <5>1
          <5>3. AfterPlaintext(NameOf(h.context), t, link_id, sees) = described
            BY ONLY <2>1, <3>2, <4>2, <5>2, sees \in Sees, AfterPlaintextAgrees
          <5> HIDE DEF described
          <5>4. QED
            BY ONLY <4>2, <5>1, <5>3 DEF name
        <4>3. CASE ~t.opened
          BY <4>1, <4>3
        <4>4. QED
          BY <4>2, <4>3
      <3> HIDE DEF k, u, rest
      <3>9. DumpLinkData(b, sees) = Exits(lines)
        BY ONLY <1>2, <1>3, <1>5, <1>7, <2>3, <2>4, <3>1, <3>3, <3>4, <3>5, <3>8, b[2].len = KEYHALF
           DEF DumpLinkData, g, rg, echo, public
      <3>10. QED
        BY <3>7, <3>9
    <2>8. QED
      BY <2>1, <2>5, <2>6, <2>7
  <1>8. QED
    BY <1>6, <1>7

-----------------------------------------------------------------------------
(* The scan for dots against the components that were joined: by the least  *)
(* counterexample, the ends of the components rise.                         *)
LEMMA JoinedParts ==
  ASSUME NEW b, NEW names, Joined(b, names)
  PROVE  /\ Len(names) \in Nat /\ Len(names) >= 1
         /\ \A i \in 1..Len(names) :
              /\ names[i][1] \in Nat /\ names[i][2] \in Nat /\ names[i][1] <= names[i][2]
              /\ names[i][1] = IF i = 1 THEN 0 ELSE names[i - 1][2] + 1
  <1>1. names \in Seq(Nat \X Nat) /\ names # << >>
    BY DEF Joined
  <1>2. Len(names) \in Nat /\ Len(names) >= 1
    BY <1>1
  <1>3. \A i \in 1..Len(names) : names[i] \in Nat \X Nat
    BY <1>1
  <1>4. QED
    BY <1>2, <1>3 DEF Joined

LEMMA LeastOf ==
  ASSUME NEW S \in SUBSET Nat, NEW n \in S
  PROVE  \E m \in S : \A k \in S : m <= k
  <1> DEFINE R == OpToRel(<, Nat)
  <1>1. IsWellFoundedOn(R, Nat)
    BY NatLessThanWellFounded
  <1>2. \A x, y \in Nat : <<x, y>> \in R <=> x < y
    BY DEF OpToRel
  <1> HIDE DEF R
  <1>3. PICK m \in S : \A y \in S : ~(<<y, m>> \in R)
    BY <1>1, WFMin
  <1>4. ASSUME NEW k \in S PROVE m <= k
    <2>1. ~(k < m)
      BY <1>2, <1>3
    <2>2. QED
      BY <2>1
  <1>5. QED
    BY <1>4

LEMMA EndsRise ==
  ASSUME NEW b, NEW names, Joined(b, names),
         NEW i \in 1..Len(names), NEW j \in 1..Len(names), i < j
  PROVE  names[i][2] < names[j][2]
  <1> DEFINE Falls == {k \in Nat : /\ k \in 1..Len(names)
                                   /\ \E l \in 1..Len(names) : l < k /\ names[l][2] >= names[k][2]}
  <1>1. Falls = {}
    <2> SUFFICES ASSUME NEW k \in Falls PROVE FALSE
      OBVIOUS
    <2>1. PICK m \in Falls : \A x \in Falls : m <= x
      BY LeastOf
    <2>2. PICK l \in 1..Len(names) : l < m /\ names[l][2] >= names[m][2]
      BY <2>1
    <2>3. /\ Len(names) \in Nat /\ m \in 1..Len(names) /\ m - 1 \in 1..Len(names) /\ m # 1
          /\ m - 1 < m /\ m - 1 \in Nat /\ l \in 1..Len(names)
      BY <2>1, <2>2, JoinedParts
    <2> DEFINE last == names[m - 1]
    <2>4. /\ names[m][1] = last[2] + 1 /\ names[m][1] <= names[m][2]
          /\ last[2] \in Nat /\ names[m][2] \in Nat /\ names[m][1] \in Nat
          /\ names[l][2] \in Nat
      BY <2>2, <2>3, JoinedParts
    <2> HIDE DEF last
    <2>5. last[2] < names[l][2]
      BY ONLY <2>2, <2>4, SMTT(30)
    <2>6. l # m - 1 /\ l < m - 1
      BY ONLY <2>2, <2>3, <2>4, <2>5, SMTT(30) DEF last
    <2>7. names[l][2] >= names[m - 1][2]
      BY ONLY <2>4, <2>5, SMTT(30) DEF last
    <2>8. m - 1 \in Falls
      BY <2>3, <2>6, <2>7
    <2> HIDE DEF Falls
    <2>9. m <= m - 1
      BY <2>1, <2>8
    <2>10. QED
      BY <2>3, <2>9
  <1>2. names[i][2] \in Nat /\ names[j][2] \in Nat /\ Len(names) \in Nat
    BY JoinedParts
  <1>3. ~(names[i][2] >= names[j][2])
    BY <1>1, <1>2
  <1>4. QED
    BY <1>2, <1>3

LEMMA StopsAreEnds ==
  ASSUME NEW b, NEW names, Joined(b, names)
  PROVE  Stops(b) = {names[i][2] : i \in 1..Len(names)}
  <1>1. /\ Len(names) \in Nat /\ Len(names) >= 1
        /\ b.dots = {names[i][2] : i \in 1..(Len(names) - 1)} /\ b.len = names[Len(names)][2]
    BY JoinedParts DEF Joined
  <1>2. \A i : i \in 1..Len(names) <=> i \in 1..(Len(names) - 1) \/ i = Len(names)
    BY <1>1
  <1>3. QED
    BY <1>1, <1>2 DEF Stops

(* As many stops are passed before the end of a component as there are      *)
(* components before it.                                                    *)
LEMMA PassedBefore ==
  ASSUME NEW b, NEW names, Joined(b, names), NEW i \in 1..Len(names)
  PROVE  Cardinality(Passed(b, names[i][2])) = i - 1
  <1> DEFINE before == 1..(i - 1)
             ends   == {names[j][2] : j \in before}
             f      == [j \in before |-> names[j][2]]
  <1>1. /\ Len(names) \in Nat /\ i \in Nat /\ before \subseteq 1..Len(names)
        /\ \A j \in 1..Len(names) : names[j][2] \in Nat
    BY JoinedParts
  <1>2. Passed(b, names[i][2]) = ends
    <2>1. ASSUME NEW j \in 1..Len(names)
          PROVE  names[j][2] < names[i][2] <=> j \in before
      <3>1. CASE j < i
        BY <1>1, <3>1, EndsRise
      <3>2. CASE j = i
        BY <1>1, <3>2
      <3>3. CASE j > i
        <4>1. names[i][2] < names[j][2]
          BY <1>1, <3>3, EndsRise
        <4>2. QED
          BY <1>1, <3>3, <4>1
      <3>4. QED
        BY <1>1, <3>1, <3>2, <3>3
    <2>2. Stops(b) = {names[j][2] : j \in 1..Len(names)}
      BY StopsAreEnds
    <2>3. {d \in Stops(b) : d < names[i][2]} \subseteq ends
      BY <2>1, <2>2
    <2>4. ends \subseteq {d \in Stops(b) : d < names[i][2]}
      BY <1>1, <2>1, <2>2
    <2>5. QED
      BY <2>3, <2>4 DEF Passed
  <1>3. f \in Bijection(before, ends)
    <2>1. f \in [before -> ends] /\ \A y \in ends : \E x \in before : f[x] = y
      OBVIOUS
    <2>2. ASSUME NEW x \in before, NEW y \in before, f[x] = f[y] PROVE x = y
      <3>1. names[x][2] = names[y][2] /\ x \in 1..Len(names) /\ y \in 1..Len(names)
            /\ names[x][2] \in Nat /\ x \in Nat /\ y \in Nat
        BY <1>1, <2>2
      <3>2. ~(x < y) /\ ~(y < x)
        BY <3>1, EndsRise
      <3>3. QED
        BY <3>1, <3>2
    <2>3. QED
      BY <2>1, <2>2 DEF Bijection, Injection, Surjection, IsInjective
  <1>4. IsFiniteSet(before) /\ Cardinality(before) = i - 1
    <2>1. i - 1 \in Int /\ 1 \in Int /\ (1 > i - 1 => i - 1 = 0) /\ (i - 1) - 1 + 1 = i - 1
      BY <1>1
    <2>2. /\ IsFiniteSet(before)
          /\ Cardinality(before) = IF 1 > i - 1 THEN 0 ELSE (i - 1) - 1 + 1
      BY <2>1, FS_Interval
    <2>3. QED
      BY <2>1, <2>2
  <1>5. Cardinality(ends) = i - 1
    BY <1>3, <1>4, FS_Bijection DEF ExistsBijection
  <1>6. QED
    BY <1>2, <1>5

LEMMA StopIsEnd ==
  ASSUME NEW b, NEW names, Joined(b, names), NEW i \in 1..Len(names)
  PROVE  Stop(b, i) = names[i][2]
  <1>1. names[i][2] \in Stops(b) /\ Cardinality(Passed(b, names[i][2])) = i - 1
    BY PassedBefore, StopsAreEnds
  <1>2. ASSUME NEW e \in Stops(b), Cardinality(Passed(b, e)) = i - 1
        PROVE  e = names[i][2]
    <2>1. PICK j \in 1..Len(names) : e = names[j][2]
      BY StopsAreEnds
    <2>2. j - 1 = i - 1 /\ Len(names) \in Nat
      BY <1>2, <2>1, PassedBefore, JoinedParts
    <2>3. j = i
      BY <2>2
    <2>4. QED
      BY <2>1, <2>3
  <1>3. QED
    BY <1>1, <1>2 DEF Stop

LEMMA StopsCounted ==
  ASSUME NEW b, NEW names, Joined(b, names)
  PROVE  Cardinality(Stops(b)) = Len(names)
  <1> DEFINE n == Len(names)
             before == Passed(b, names[n][2])
  <1>1. n \in Nat /\ n >= 1 /\ n \in 1..n /\ \A j \in 1..n : names[j][2] \in Nat
    BY JoinedParts
  <1>2. Cardinality(before) = n - 1
    BY <1>1, PassedBefore
  <1>3. Stops(b) = before \union {names[n][2]} /\ names[n][2] \notin before
    <2>1. \A j \in 1..n : j # n => names[j][2] < names[n][2]
      BY <1>1, EndsRise
    <2>2. QED
      BY <1>1, <2>1, StopsAreEnds DEF Passed
  <1>4. IsFiniteSet(before)
    <2>1. before \in SUBSET Nat /\ \A x \in before : x <= names[n][2]
      BY <1>1, StopsAreEnds DEF Passed
    <2>2. QED
      BY <1>1, <2>1, FS_BoundedSetOfNaturals
  <1>5. QED
    <2> HIDE DEF before, n
    <2>1. Cardinality(Stops(b)) = Cardinality(before) + 1
      BY <1>3, <1>4, FS_AddElement
    <2>2. Cardinality(before) + 1 = n
      BY <1>1, <1>2
    <2>3. QED
      BY <2>1, <2>2 DEF n

LEMMA ComponentsAgree ==
  ASSUME NEW b, IsLine(b), NEW names, Joined(b, names)
  PROVE  Components(b) = [i \in 1..Len(names) |->
                            Field(IF i = 1 THEN "app_name" ELSE "aspect",
                                  Hex(Py(b, names[i][1], names[i][2])))]
  <1>1. ASSUME NEW i \in 1..Len(names)
        PROVE  /\ Start(b, i) = names[i][1] /\ Stop(b, i) = names[i][2]
               /\ Start(b, i) = 0 <=> i = 1
               /\ At(b, Start(b, i), Stop(b, i) - Start(b, i)) = Py(b, names[i][1], names[i][2])
    <2>1. /\ names[i][1] \in Nat /\ names[i][2] \in Nat /\ names[i][1] <= names[i][2]
          /\ names[i][1] = IF i = 1 THEN 0 ELSE names[i - 1][2] + 1
          /\ Len(names) \in Nat /\ i # 1 => i - 1 \in 1..Len(names)
      BY JoinedParts
    <2>2. Stop(b, i) = names[i][2]
      BY StopIsEnd
    <2>3. Start(b, i) = names[i][1] /\ (Start(b, i) = 0 <=> i = 1)
      <3>1. i # 1 => Stop(b, i - 1) = names[i - 1][2] /\ names[i - 1][2] \in Nat
        BY <2>1, StopIsEnd, JoinedParts
      <3>2. QED
        BY <2>1, <3>1 DEF Start
    <2>4. b.len \in Nat /\ names[i][2] <= b.len
      <3>1. b.len = names[Len(names)][2] /\ Len(names) \in 1..Len(names)
        BY <2>1, JoinedParts DEF Joined
      <3>2. i < Len(names) => names[i][2] < names[Len(names)][2]
        BY <3>1, EndsRise
      <3>3. names[Len(names)][2] \in Nat
        BY <3>1, JoinedParts
      <3>4. QED
        BY <2>1, <3>1, <3>2, <3>3
    <2>5. Py(b, names[i][1], names[i][2]) = At(b, names[i][1], names[i][2] - names[i][1])
      BY <2>1, <2>4, LineSlice
    <2>6. QED
      BY <2>2, <2>3, <2>5
  <1>2. Cardinality(Stops(b)) = Len(names)
    BY StopsCounted
  <1>3. QED
    BY <1>1, <1>2 DEF Components

LEMMA DestinationAgrees ==
  ASSUME NEW b, IsLine(b[1]), IsLine(b[2]), b[2].len \in {0, ADDRLEN},
         NEW names, Joined(b[1], names)
  PROVE  DumpDestination(b) = Exits(DescribeDestination(b, names))
  <1>1. All(b[1]) = Whole(b[1]) /\ All(b[2]) = Whole(b[2])
    BY WholeLine
  <1>2. ~(~b[2].absent /\ b[2].len # ADDRLEN)
    BY DEF IsLine
  <1>3. Components(b[1]) = [i \in 1..Len(names) |->
                              Field(IF i = 1 THEN "app_name" ELSE "aspect",
                                    Hex(Py(b[1], names[i][1], names[i][2])))]
    BY ComponentsAgree
  <1>4. QED
    BY ONLY <1>1, <1>2, <1>3 DEF DumpDestination, DescribeDestination

-----------------------------------------------------------------------------
(* Of a vector that can be filed, the decoder prints what was filed.  It is *)
(* one lemma of those above for each kind.                                  *)
LEMMA DumpedAgrees ==
  ASSUME NEW v, WellMade(v), Described(v) # Raises
  PROVE  Dumped(v) = Exits(Described(v))
  <1> DEFINE b == v.b
  <1>1. /\ v.kind \in Kinds /\ Len(b) = Blobs(v.kind) /\ Lengths(v.kind, b)
        /\ \A i \in 1..Blobs(v.kind) : IsLine(b[i])
        /\ v.kind = "destination" => Joined(b[1], v.names)
        /\ v.kind \in {"linkproof", "linkdata", "proof"} => DescribeHeader(b[1]).ok
        /\ v.sees \in Sees
    BY DEF WellMade, Sees
  <1>2. /\ IsLine(b[1])
        /\ Blobs(v.kind) \in {2, 3} => IsLine(b[2])
        /\ Blobs(v.kind) = 3 => IsLine(b[3])
    BY <1>1 DEF Blobs, Kinds
  <1> HIDE DEF b
  <1>3. CASE v.kind = "identity"
    BY <1>1, <1>2, <1>3, IdentityAgrees DEF Described, Dumped, Lengths, b
  <1>4. CASE v.kind = "keyset"
    BY <1>1, <1>2, <1>4, KeysetAgrees DEF Described, Dumped, Lengths, b
  <1>5. CASE v.kind = "destination"
    <2>1. IsLine(b[2]) /\ b[2].len \in {0, ADDRLEN} /\ Joined(b[1], v.names)
      BY <1>1, <1>2, <1>5 DEF Lengths, Blobs
    <2>2. QED
      BY <1>1, <1>2, <1>5, <2>1, DestinationAgrees DEF Described, Dumped, b
  <1>6. CASE v.kind = "signature"
    <2>1. IsLine(b[2]) /\ IsLine(b[3]) /\ b[1].len = KEYSIZE /\ b[3].len = SIGLEN
      BY <1>1, <1>2, <1>6 DEF Lengths, Blobs
    <2>2. QED
      BY <1>1, <1>2, <1>6, <2>1, SignatureAgrees DEF Described, Dumped, b
  <1>7. CASE v.kind = "sign"
    <2>1. IsLine(b[2]) /\ b[1].len = KEYSIZE
      BY <1>1, <1>2, <1>7 DEF Lengths, Blobs
    <2>2. QED
      BY <1>1, <1>2, <1>7, <2>1, SignAgrees DEF Described, Dumped, b
  <1>8. CASE v.kind = "announce"
    BY <1>1, <1>2, <1>8, AnnounceAgrees DEF Described, Dumped, b
  <1>9. CASE v.kind = "plain"
    BY <1>1, <1>2, <1>9, PlainAgrees DEF Described, Dumped, b
  <1>10. CASE v.kind = "pathrequest"
    BY <1>1, <1>2, <1>10, PathRequestAgrees DEF Described, Dumped, b
  <1>11. CASE v.kind = "encrypted"
    <2>1. /\ IsLine(b[2]) /\ IsLine(b[3]) /\ b[1].len = KEYSIZE /\ b[2].len \in {0, RATCHETLEN}
      BY <1>1, <1>2, <1>11 DEF Lengths, Blobs
    <2>2. QED
      BY <1>1, <1>2, <1>11, <2>1, EncryptedAgrees DEF Described, Dumped, b
  <1>12. CASE v.kind = "group"
    <2>1. IsLine(b[2]) /\ b[1].len \in {DERIVEDLEN \div 2, DERIVEDLEN}
      BY <1>1, <1>2, <1>12 DEF Lengths, Blobs
    <2>2. QED
      BY <1>1, <1>2, <1>12, <2>1, GroupAgrees DEF Described, Dumped, b
  <1>13. CASE v.kind = "linkrequest"
    BY <1>1, <1>2, <1>13, LinkRequestAgrees DEF Described, Dumped, b
  <1>14. CASE v.kind = "linkproof"
    <2>1. IsLine(b[2]) /\ IsLine(b[3]) /\ b[2].len = KEYSIZE /\ DescribeHeader(b[1]).ok
      BY <1>1, <1>2, <1>14 DEF Lengths, Blobs
    <2>2. QED
      BY <1>1, <1>2, <1>14, <2>1, LinkProofAgrees DEF Described, Dumped, b
  <1>15. CASE v.kind = "linkdata"
    <2>1. IsLine(b[2]) /\ IsLine(b[3]) /\ b[2].len = KEYHALF /\ DescribeHeader(b[1]).ok
      BY <1>1, <1>2, <1>15 DEF Lengths, Blobs
    <2>2. Described(v) = DescribeLinkData(b, v.sees) /\ Dumped(v) = DumpLinkData(b, v.sees)
      BY <1>1, <1>15 DEF Described, Dumped, b
    <2>3. DescribeHeader(b[1]).len \in {ECPUBSIZE, ECPUBSIZE + SIGNALLEN}
      BY <1>15 DEF WellMade, b
    <2>4. DescribeHeader(b[1]).len >= KEYHALF
      BY <2>3 DEF ECPUBSIZE, SIGNALLEN, KEYHALF
    <2>5. QED
      BY <1>1, <1>2, <2>1, <2>2, <2>4, LinkDataAgrees
  <1>16. CASE v.kind = "proof"
    <2>1. /\ IsLine(b[2]) /\ IsLine(b[3]) /\ DescribeHeader(b[1]).ok
          /\ b[2].len = IF Bits(b[3].flags, 2, 2) = 3 THEN KEYHALF ELSE KEYSIZE
      BY <1>1, <1>2, <1>16 DEF Lengths, Blobs
    <2>2. QED
      BY <1>1, <1>2, <1>16, <2>1, ProofAgrees DEF Described, Dumped, b
  <1>17. CASE v.kind = "resourceproof"
    <2>1. IsLine(b[2]) /\ b[1].len = HASHLEN
      BY <1>1, <1>2, <1>17 DEF Lengths, Blobs
    <2>2. QED
      BY <1>1, <1>2, <1>17, <2>1, ResourceProofAgrees DEF Described, Dumped, b
  <1>18. QED
    BY <1>1, <1>3, <1>4, <1>5, <1>6, <1>7, <1>8, <1>9, <1>10, <1>11, <1>12, <1>13, <1>14,
       <1>15, <1>16, <1>17 DEF Kinds

-----------------------------------------------------------------------------
(* The two files and the decoder's output are made from one vector, which   *)
(* does not change while it goes round, and a third reader that is asked    *)
(* about it leaves all of them alone.  Agree alone is not inductive: it     *)
(* says nothing of expect before the decoder has run.                       *)
OneVector ==
  /\ vector \in Vectors
  /\ stage \in {"made", "raised", "filed", "decoded", "rebuilt", "answered"}
  /\ stage \in {"filed", "decoded", "rebuilt", "answered"} =>
       expect = Described(vector) /\ expect # Raises
  /\ stage \in {"decoded", "rebuilt", "answered"} => out = Dumped(vector)
  /\ stage = "answered" => vector.kind \in Answered

LEMMA OneVectorInit == Init => OneVector
  BY DEF Init, OneVector

LEMMA OneVectorStep == OneVector /\ [Next]_vars => OneVector'
  <1> SUFFICES ASSUME OneVector, [Next]_vars PROVE OneVector'
    OBVIOUS
  <1> USE DEF OneVector
  <1>1. CASE Generate
    <2> DEFINE lines == Described(vector)
    <2>1. vector' = vector /\ stage = "made"
      BY <1>1 DEF Generate
    <2> HIDE DEF lines
    <2>2. CASE lines = Raises
      <3>1. stage' = "raised"
        BY <1>1, <2>2 DEF Generate, lines
      <3>2. QED
        BY <2>1, <3>1
    <2>3. CASE lines # Raises
      <3>1. stage' = "filed" /\ expect' = lines
        BY <1>1, <2>3 DEF Generate, lines
      <3>2. QED
        BY <2>1, <2>3, <3>1 DEF lines
    <2>4. QED
      BY <2>2, <2>3
  <1>2. CASE Decode
    BY <1>2 DEF Decode
  <1>3. CASE Rebuild
    BY <1>3 DEF Rebuild
  <1>4. CASE UNCHANGED vars
    BY <1>4 DEF vars
  <1>5. QED
    BY <1>1, <1>2, <1>3, <1>4 DEF Next

LEMMA OneVectorAnswered == OneVector /\ [HarnessNext]_harness_vars => OneVector'
  <1>1. OneVector /\ Answer => OneVector'
    BY DEF OneVector, Answer
  <1>2. OneVector /\ UNCHANGED harness_vars => OneVector'
    BY OneVectorStep DEF harness_vars
  <1>3. QED
    BY <1>1, <1>2, OneVectorStep DEF HarnessNext

LEMMA OneVectorAgrees == OneVector => Agree
  <1> SUFFICES ASSUME OneVector, stage \in {"decoded", "rebuilt"} PROVE out = Exits(expect)
    BY DEF Agree
  <1>1. vector \in Vectors /\ expect = Described(vector) /\ expect # Raises /\ out = Dumped(vector)
    BY DEF OneVector
  <1>2. WellMade(vector)
    BY <1>1, VectorsAssumption
  <1>3. QED
    BY <1>1, <1>2, DumpedAgrees

LEMMA OneVectorAlways == HarnessSpec => []OneVector
  <1>1. HarnessInit => OneVector
    BY OneVectorInit DEF HarnessInit
  <1>2. QED
    BY <1>1, OneVectorAnswered, PTL DEF HarnessSpec

(* Every vector the generator files is printed by cmd/dump line for line    *)
(* and from the same bytes, with exit status 0: whatever the length of its  *)
(* lines, its flags, its hops and its context, however many components its  *)
(* name has and whatever the keys, the hmac and the padding say.            *)
THEOREM DecodersAgree == Spec => []Agree
  <1>1. Spec => []OneVector
    BY OneVectorInit, OneVectorStep, PTL DEF Spec
  <1>2. QED
    BY <1>1, OneVectorAgrees, PTL

(* The same of the system the run checks, where the harness is asked too.   *)
THEOREM DecodersAgreeBesideHarness == HarnessSpec => []Agree
  BY OneVectorAlways, OneVectorAgrees, PTL

-----------------------------------------------------------------------------
(* Fields by name: what lookup finds in lines that were put together. *)
IsSeq(s) == \E S : s \in Seq(S)

LEMMA SeqsJoin ==
  ASSUME NEW s, NEW t, IsSeq(s), IsSeq(t)
  PROVE  /\ IsSeq(s \o t) /\ Len(s) \in Nat /\ Len(t) \in Nat
         /\ Len(s \o t) = Len(s) + Len(t)
         /\ \A i \in 1..Len(s) : (s \o t)[i] = s[i]
         /\ \A i \in 1..Len(t) : (s \o t)[Len(s) + i] = t[i]
  <1>1. PICK A, B : s \in Seq(A) /\ t \in Seq(B)
    BY DEF IsSeq
  <1>2. PICK S : S = A \union B
    OBVIOUS
  <1>3. s \in Seq(S) /\ t \in Seq(S)
    BY <1>1, <1>2
  <1>4. s \o t \in Seq(S)
    BY <1>3
  <1>5. QED
    BY <1>3, <1>4 DEF IsSeq

LEMMA TuplesAreSeqs ==
  /\ IsSeq(<< >>)
  /\ \A a : IsSeq(<<a>>)
  /\ \A a, b : IsSeq(<<a, b>>)
  /\ \A a, b, c : IsSeq(<<a, b, c>>)
  /\ \A a, b, c, d : IsSeq(<<a, b, c, d>>)
  <1> SUFFICES ASSUME NEW a, NEW b, NEW c, NEW d
               PROVE  /\ IsSeq(<< >>) /\ IsSeq(<<a>>) /\ IsSeq(<<a, b>>) /\ IsSeq(<<a, b, c>>)
                      /\ IsSeq(<<a, b, c, d>>)
    OBVIOUS
  <1> DEFINE S == {a, b, c, d}
  <1>1. /\ << >> \in Seq(S) /\ <<a>> \in Seq(S) /\ <<a, b>> \in Seq(S) /\ <<a, b, c>> \in Seq(S)
        /\ <<a, b, c, d>> \in Seq(S)
    OBVIOUS
  <1>2. QED
    BY <1>1, Zenon DEF IsSeq

LEMMA NamesJoin ==
  ASSUME NEW s, NEW t, IsSeq(s), IsSeq(t)
  PROVE  Names(s \o t) = Names(s) \union Names(t)
  <1>1. /\ Len(s) \in Nat /\ Len(t) \in Nat /\ Len(s \o t) = Len(s) + Len(t)
        /\ \A i \in 1..Len(s) : (s \o t)[i] = s[i]
        /\ \A i \in 1..Len(t) : (s \o t)[Len(s) + i] = t[i]
    BY SeqsJoin
  <1>2. ASSUME NEW n \in Names(s \o t) PROVE n \in Names(s) \union Names(t)
    <2>1. PICK i \in 1..(Len(s) + Len(t)) : n = (s \o t)[i].name
      BY <1>1 DEF Names
    <2>2. CASE i \in 1..Len(s)
      BY <1>1, <2>1, <2>2 DEF Names
    <2>3. CASE i \notin 1..Len(s)
      <3>1. i - Len(s) \in 1..Len(t) /\ i = Len(s) + (i - Len(s))
        BY <1>1, <2>3
      <3>2. (s \o t)[i] = t[i - Len(s)]
        BY <1>1, <3>1
      <3>3. QED
        BY <2>1, <3>1, <3>2 DEF Names
    <2>4. QED
      BY <2>2, <2>3
  <1>3. ASSUME NEW n \in Names(s) PROVE n \in Names(s \o t)
    <2>1. PICK i \in 1..Len(s) : n = s[i].name
      BY DEF Names
    <2>2. i \in 1..Len(s \o t) /\ (s \o t)[i] = s[i]
      BY <1>1
    <2>3. QED
      BY <2>1, <2>2 DEF Names
  <1>4. ASSUME NEW n \in Names(t) PROVE n \in Names(s \o t)
    <2>1. PICK i \in 1..Len(t) : n = t[i].name
      BY DEF Names
    <2>2. Len(s) + i \in 1..Len(s \o t) /\ (s \o t)[Len(s) + i] = t[i]
      BY <1>1
    <2>3. QED
      BY <2>1, <2>2 DEF Names
  <1>5. QED
    BY <1>2, <1>3, <1>4

LEMMA LookupAt ==
  ASSUME NEW f, NEW name, Len(f) \in Nat, NEW k \in 1..Len(f), f[k].name = name,
         \A i \in 1..(k - 1) : f[i].name # name
  PROVE  Lookup(f, name) = f[k].value
  <1> DEFINE I == {i \in 1..Len(f) : f[i].name = name}
  <1>1. k \in I /\ \A i \in I : k <= i
    OBVIOUS
  <1>2. \A x \in I : (\A y \in I : x <= y) => x = k
    BY <1>1
  <1>3. Min(I) = k
    BY <1>1, <1>2 DEF Min
  <1>4. SelectInSeq(f, LAMBDA l : l.name = name) = k
    BY <1>1, <1>3 DEF SelectInSeq
  <1>5. QED
    BY <1>4 DEF Lookup

LEMMA FirstOfName ==
  ASSUME NEW f, NEW name \in Names(f), Len(f) \in Nat
  PROVE  \E k \in 1..Len(f) : f[k].name = name /\ \A i \in 1..(k - 1) : f[i].name # name
  <1> DEFINE S == {i \in 1..Len(f) : f[i].name = name}
  <1>1. S \subseteq Nat /\ S # {}
    BY DEF Names
  <1>2. PICK k \in S : \A i \in S : k <= i
    BY <1>1, LeastOf
  <1>3. \A i \in 1..(k - 1) : f[i].name # name
    BY <1>2
  <1>4. QED
    BY <1>2, <1>3

LEMMA LookupBefore ==
  ASSUME NEW s, NEW t, IsSeq(s), IsSeq(t), NEW name \in Names(s)
  PROVE  Lookup(s \o t, name) = Lookup(s, name)
  <1>1. /\ Len(s) \in Nat /\ Len(t) \in Nat /\ Len(s \o t) = Len(s) + Len(t)
        /\ \A i \in 1..Len(s) : (s \o t)[i] = s[i]
    BY SeqsJoin
  <1>2. PICK k \in 1..Len(s) : s[k].name = name /\ \A i \in 1..(k - 1) : s[i].name # name
    BY <1>1, FirstOfName
  <1>3. Lookup(s, name) = s[k].value
    BY <1>1, <1>2, LookupAt
  <1>4. /\ Len(s \o t) \in Nat /\ k \in 1..Len(s \o t) /\ (s \o t)[k] = s[k]
        /\ \A i \in 1..(k - 1) : (s \o t)[i].name # name
    BY <1>1, <1>2
  <1>5. Lookup(s \o t, name) = (s \o t)[k].value
    BY <1>2, <1>4, LookupAt
  <1>6. QED
    BY <1>3, <1>4, <1>5

LEMMA LookupBehind ==
  ASSUME NEW s, NEW t, IsSeq(s), IsSeq(t), NEW name \in Names(t), name \notin Names(s)
  PROVE  Lookup(s \o t, name) = Lookup(t, name)
  <1>1. /\ Len(s) \in Nat /\ Len(t) \in Nat /\ Len(s \o t) = Len(s) + Len(t)
        /\ \A i \in 1..Len(s) : (s \o t)[i] = s[i]
        /\ \A i \in 1..Len(t) : (s \o t)[Len(s) + i] = t[i]
    BY SeqsJoin
  <1>2. PICK k \in 1..Len(t) : t[k].name = name /\ \A i \in 1..(k - 1) : t[i].name # name
    BY <1>1, FirstOfName
  <1>3. Lookup(t, name) = t[k].value
    BY <1>1, <1>2, LookupAt
  <1>4. /\ Len(s \o t) \in Nat /\ Len(s) + k \in 1..Len(s \o t) /\ (s \o t)[Len(s) + k] = t[k]
    BY <1>1
  <1>5. ASSUME NEW i \in 1..(Len(s) + k - 1) PROVE (s \o t)[i].name # name
    <2>1. CASE i \in 1..Len(s)
      BY <1>1, <2>1 DEF Names
    <2>2. CASE i \notin 1..Len(s)
      <3>1. i - Len(s) \in 1..(k - 1) /\ i - Len(s) \in 1..Len(t) /\ i = Len(s) + (i - Len(s))
        BY <1>1, <2>2
      <3>2. (s \o t)[i] = t[i - Len(s)]
        BY <1>1, <3>1
      <3>3. QED
        BY <1>2, <3>1, <3>2
    <2>3. QED
      BY <2>1, <2>2
  <1>6. Lookup(s \o t, name) = (s \o t)[Len(s) + k].value
    <2>1. PICK j \in 1..Len(s \o t) : j = Len(s) + k
      BY <1>4
    <2>2. (s \o t)[j].name = name /\ \A i \in 1..(j - 1) : (s \o t)[i].name # name
      BY <1>2, <1>4, <1>5, <2>1
    <2>3. Lookup(s \o t, name) = (s \o t)[j].value
      BY <1>4, <2>2, LookupAt
    <2>4. QED
      BY <2>1, <2>3
  <1>7. QED
    BY <1>3, <1>4, <1>6

(* One more line of another name, or the first of its name. *)
LEMMA NewLine ==
  ASSUME NEW s, IsSeq(s), NEW name, NEW value, name \notin Names(s)
  PROVE  Lookup(s \o <<Field(name, value)>>, name) = value
  <1> DEFINE t == <<Field(name, value)>>
  <1>1. IsSeq(t) /\ Len(t) = 1 /\ t[1].name = name /\ t[1].value = value
    BY TuplesAreSeqs DEF Field
  <1> HIDE DEF t
  <1>2. name \in Names(t)
    BY <1>1 DEF Names
  <1>3. Lookup(t, name) = value
    BY <1>1, LookupAt
  <1>4. QED
    BY <1>1, <1>2, <1>3, LookupBehind DEF t

HeaderNames == {"flags", "header_type", "context_flag", "transport_type", "destination_type",
                "packet_type", "hops", "transport_id", "destination_hash", "context",
                "payload_length"}

LEMMA HeaderLines ==
  ASSUME NEW h
  PROVE  /\ IsSeq(PrintHeader(h)) /\ Len(PrintHeader(h)) = 11
         /\ Names(PrintHeader(h)) = HeaderNames
  <1> DEFINE p == PrintHeader(h)
  <1>1. Len(p) = 11 /\ p = [i \in 1..11 |-> p[i]]
    BY DEF PrintHeader
  <1>2. /\ p[1].name = "flags" /\ p[2].name = "header_type" /\ p[3].name = "context_flag"
        /\ p[4].name = "transport_type" /\ p[5].name = "destination_type"
        /\ p[6].name = "packet_type" /\ p[7].name = "hops" /\ p[8].name = "transport_id"
        /\ p[9].name = "destination_hash" /\ p[10].name = "context"
        /\ p[11].name = "payload_length"
    BY DEF PrintHeader, Field
  <1> HIDE DEF p
  <1>3. p \in Seq({p[i] : i \in 1..11})
    BY <1>1
  <1>4. \A i \in 1..11 : i \in {1, 2, 3, 4, 5, 6, 7, 8, 9, 10, 11}
    OBVIOUS
  <1>5. Names(p) = HeaderNames
    BY <1>1, <1>2, <1>4 DEF Names, HeaderNames
  <1>6. QED
    BY <1>1, <1>3, <1>5 DEF IsSeq, p

LEMMA NamesOfFew ==
  /\ Names(<< >>) = {}
  /\ \A a : Names(<<a>>) = {a.name}
  /\ \A a, b : Names(<<a, b>>) = {a.name, b.name}
  /\ \A a, b, c : Names(<<a, b, c>>) = {a.name, b.name, c.name}
  /\ \A a, b, c, d : Names(<<a, b, c, d>>) = {a.name, b.name, c.name, d.name}
  <1>1. /\ 1..0 = {} /\ 1..1 = {1} /\ 1..2 = {1, 2} /\ 1..3 = {1, 2, 3} /\ 1..4 = {1, 2, 3, 4}
    OBVIOUS
  <1>2. QED
    BY <1>1 DEF Names

LEMMA FieldParts ==
  ASSUME NEW name, NEW value
  PROVE  Field(name, value).name = name /\ Field(name, value).value = value
  BY DEF Field

(* the lines of a packet that is not read *)
LEMMA RejectionLines ==
  ASSUME NEW rule, NEW numbers, IsSeq(numbers)
  PROVE  LET lines == Rejection(rule, numbers)
         IN  /\ IsSeq(lines) /\ Names(lines) = {"invalid"} \union Names(numbers)
             /\ Lookup(lines, "invalid") = Word(rule)
  <1> DEFINE first == <<Field("invalid", Word(rule))>>
  <1>1. IsSeq(first)
    BY TuplesAreSeqs
  <1>2. Names(first) = {"invalid"}
    BY NamesOfFew, FieldParts
  <1>3. Lookup(first, "invalid") = Word(rule)
    <2>1. Len(first) = 1 /\ first[1].name = "invalid" /\ first[1].value = Word(rule)
      BY DEF Field
    <2>2. QED
      BY <2>1, LookupAt
  <1>4. Rejection(rule, numbers) = first \o numbers
    BY DEF Rejection
  <1> HIDE DEF first
  <1>5. "invalid" \in Names(first)
    BY <1>2
  <1>6. QED
    BY <1>1, <1>2, <1>3, <1>4, <1>5, SeqsJoin, NamesJoin, LookupBefore

LEMMA NumbersOf ==
  ASSUME NEW x, NEW l, NEW y, NEW m
  PROVE  IsSeq(<<Field(x, l), Field(y, m)>>) /\ Names(<<Field(x, l), Field(y, m)>>) = {x, y}
  <1>1. IsSeq(<<Field(x, l), Field(y, m)>>)
    BY TuplesAreSeqs
  <1>2. Names(<<Field(x, l), Field(y, m)>>) = {Field(x, l).name, Field(y, m).name}
    BY NamesOfFew
  <1>3. QED
    BY <1>1, <1>2, FieldParts

LEMMA HeaderFaults ==
  ASSUME NEW b, ~Header(b).ok
  PROVE  /\ IsSeq(Header(b).lines)
         /\ Names(Header(b).lines) \subseteq {"invalid", "length", "minimum_length", "hops", "hop_limit"}
         /\ Lookup(Header(b).lines, "invalid") \in {Word("short-header"), Word("hop-limit")}
  <1> DEFINE lines(rule, x, m, y, n) == Rejection(rule, <<Field(x, Decimal(m)), Field(y, Decimal(n))>>)
  <1>1. \/ Header(b).lines = lines("short-header", "length", b.len, "minimum_length", 2)
        \/ Header(b).lines = lines("hop-limit", "hops", b.hops, "hop_limit", MAX_HOPS)
        \/ Header(b).lines = lines("short-header", "length", b.len, "minimum_length", HeaderLen(b))
    BY DEF Header, Fault
  <1>2. ASSUME NEW rule, NEW x, NEW m, NEW y, NEW n
        PROVE  /\ IsSeq(lines(rule, x, m, y, n)) /\ Names(lines(rule, x, m, y, n)) = {"invalid", x, y}
               /\ Lookup(lines(rule, x, m, y, n), "invalid") = Word(rule)
    BY RejectionLines, NumbersOf
  <1> HIDE DEF lines
  <1>3. QED
    BY <1>1, <1>2

LEMMA LengthFaults ==
  ASSUME NEW h, NEW x, NEW m, NEW y, NEW n
  PROVE  LET lines == NeitherLength(h, x, m, y, n)
         IN  /\ IsSeq(lines) /\ Names(lines) = {"invalid", "payload_length", x, y}
             /\ Lookup(lines, "invalid") = Word("invalid-length")
  <1> DEFINE numbers == <<Field("payload_length", Decimal(h.payload_len)),
                          Field(x, Decimal(m)), Field(y, Decimal(n))>>
  <1>1. IsSeq(numbers)
    BY TuplesAreSeqs
  <1>2. Names(numbers) = {"payload_length", x, y}
    <2>1. Names(numbers) = {Field("payload_length", Decimal(h.payload_len)).name,
                            Field(x, Decimal(m)).name, Field(y, Decimal(n)).name}
      BY NamesOfFew
    <2>2. QED
      BY <2>1, FieldParts
  <1> HIDE DEF numbers
  <1>3. NeitherLength(h, x, m, y, n) = Rejection("invalid-length", numbers)
    BY DEF NeitherLength, numbers
  <1>4. QED
    BY <1>1, <1>2, <1>3, RejectionLines

LEMMA PayloadFaults ==
  ASSUME NEW h, NEW need
  PROVE  LET lines == ShortPayload(h, need)
         IN  /\ IsSeq(lines) /\ Names(lines) = {"invalid", "payload_length", "minimum_length"}
             /\ Lookup(lines, "invalid") = Word("short-payload")
  BY RejectionLines, NumbersOf DEF ShortPayload, Fault

-----------------------------------------------------------------------------
(* One id for one link. *)

LEMMA HeaderTaken ==
  ASSUME NEW b, IsLine(b), Header(b).ok
  PROVE  /\ Header(b).type = Bits(b.flags, 6, 1) /\ Header(b).type \in {0, 1}
         /\ Header(b).payload_len = b.len - HeaderLen(b)
         /\ HeaderLen(b) = 19 + 16 * Header(b).type
         /\ b.len \in Nat /\ HeaderLen(b) <= b.len /\ b.hops < MAX_HOPS
  <1>1. b.len \in Nat /\ b.flags \in Nat /\ b.hops \in Nat
    BY DEF IsLine
  <1>2. Bits(b.flags, 6, 1) \in {0, 1}
    BY <1>1, BitRanges
  <1>3. HeaderLen(b) = 19 + 16 * Bits(b.flags, 6, 1)
    BY <1>2 DEF HeaderLen, ADDRLEN
  <1>4. /\ ~(b.len < HeaderLen(b)) /\ ~(b.hops >= MAX_HOPS)
        /\ Header(b).type = Bits(b.flags, 6, 1) /\ Header(b).payload_len = b.len - HeaderLen(b)
    BY DEF Header, Fault
  <1>5. QED
    BY <1>1, <1>2, <1>3, <1>4 DEF MAX_HOPS

Keys(b) == [b EXCEPT !.len = HeaderLen(b) + ECPUBSIZE]

LEMMA KeysAreAPacket ==
  ASSUME NEW b, IsLine(b), Header(b).ok
  PROVE  /\ IsLine(Keys(b)) /\ Header(Keys(b)).ok
         /\ Header(Keys(b)).payload_len = ECPUBSIZE /\ Header(Keys(b)).type = Header(b).type
         /\ HeaderLen(Keys(b)) = HeaderLen(b) /\ Keys(b).line = b.line
         /\ Keys(b).len = HeaderLen(b) + ECPUBSIZE /\ Keys(b).flags = b.flags
  <1> DEFINE k == Keys(b)
  <1>0. /\ Header(b).type = Bits(b.flags, 6, 1) /\ HeaderLen(b) \in Nat /\ HeaderLen(b) >= 19
        /\ HeaderLen(b) <= b.len /\ b.len \in Nat /\ b.hops < MAX_HOPS /\ b.hops \in Nat
    BY HeaderTaken DEF IsLine
  <1>1. /\ k.len = HeaderLen(b) + 64 /\ k.flags = b.flags /\ k.hops = b.hops /\ k.line = b.line
        /\ k.absent = b.absent /\ k.context = b.context /\ k.dots = b.dots
        /\ k = [line |-> k.line, len |-> k.len, absent |-> k.absent, flags |-> k.flags,
                hops |-> k.hops, context |-> k.context, dots |-> k.dots]
    BY DEF Keys, IsLine, ECPUBSIZE
  <1> HIDE DEF k
  <1>2. k.len \in Nat /\ k.len > 0 /\ b.len > 0
    BY <1>0, <1>1
  <1>3. IsLine(k)
    BY <1>1, <1>2 DEF IsLine
  <1>4. HeaderLen(k) = HeaderLen(b)
    BY <1>1 DEF HeaderLen
  <1>5. ~(k.len < 2) /\ ~(k.len < HeaderLen(k)) /\ ~(k.hops >= MAX_HOPS) /\ k.len - HeaderLen(k) = 64
    BY <1>0, <1>1, <1>4 DEF MAX_HOPS
  <1>6. Header(k).ok /\ Header(k).type = Bits(k.flags, 6, 1) /\ Header(k).payload_len = 64
    BY <1>5 DEF Header
  <1>7. QED
    BY <1>0, <1>1, <1>3, <1>4, <1>6 DEF k, ECPUBSIZE

(* What is signalled behind the keys is not hashed. *)
LEMMA SignallingNotHashed ==
  ASSUME NEW b, IsLine(b), Header(b).ok, Header(b).payload_len >= ECPUBSIZE
  PROVE  LinkId(b, Header(b)) = LinkId(Keys(b), Header(Keys(b)))
  <1> DEFINE g == Header(b)
             k == Header(Keys(b))
             excess(h) == IF h.payload_len - ECPUBSIZE > 0 THEN h.payload_len - ECPUBSIZE ELSE 0
  <1>1. /\ k.payload_len = ECPUBSIZE /\ k.type = g.type /\ Keys(b).line = b.line
        /\ Keys(b).len = HeaderLen(b) + ECPUBSIZE
    BY KeysAreAPacket
  <1>2. /\ g.type \in {0, 1} /\ g.payload_len = b.len - HeaderLen(b) /\ b.len \in Nat
        /\ HeaderLen(b) = 19 + 16 * g.type
    BY HeaderTaken
  <1>3. HashedFrom(k) = HashedFrom(g) /\ HashedFrom(g) \in Nat
    BY <1>1 DEF HashedFrom, ADDRLEN
  <1>4. excess(k) = 0 /\ excess(g) = g.payload_len - ECPUBSIZE
    BY <1>1, <1>2 DEF ECPUBSIZE
  <1>5. HashableLen(b, g) - excess(g) = HashableLen(Keys(b), k) - excess(k)
    BY <1>1, <1>2, <1>3, <1>4 DEF HashableLen, ECPUBSIZE
  <1> HIDE DEF g, k
  <1>6. \A n : HashablePart(b, g, n) = HashablePart(Keys(b), k, n)
    BY <1>1, <1>3 DEF HashablePart, At
  <1>7. LinkId(b, g) = Sha256(HashablePart(b, g, HashableLen(b, g) - excess(g)), ADDRLEN)
        /\ LinkId(Keys(b), k)
             = Sha256(HashablePart(Keys(b), k, HashableLen(Keys(b), k) - excess(k)), ADDRLEN)
    BY DEF LinkId
  <1>8. QED
    BY <1>5, <1>6, <1>7 DEF g, k

LEMMA Pairs ==
  ASSUME NEW S, NEW x \in S, NEW y \in S
  PROVE  <<x>> \o <<y>> = <<x, y>>
  <1>1. <<x>> \in Seq(S) /\ <<y>> \in Seq(S) /\ Len(<<x>>) = 1 /\ Len(<<y>>) = 1
    OBVIOUS
  <1> DEFINE s == <<x>> \o <<y>>
  <1>2. s \in Seq(S) /\ Len(s) = 2
    BY <1>1, ConcatProperties
  <1>3. s[1] = x /\ s[2] = y
    BY <1>1, ConcatProperties
  <1> HIDE DEF s
  <1>4. s = [i \in 1..2 |-> s[i]] /\ 1..2 = {1, 2}
    BY <1>2
  <1>5. s = <<s[1], s[2]>>
    BY <1>4
  <1>6. QED
    BY <1>3, <1>5 DEF s

LEMMA JoinApart ==
  ASSUME NEW x, NEW y, x.of # y.of
  PROVE  Join(<<x>>, <<y>>) = <<x, y>>
  <1>1. <<x>> \o <<y>> = <<x, y>>
    <2>1. x \in {x, y} /\ y \in {x, y}
      OBVIOUS
    <2>2. QED
      BY <2>1, Pairs
  <1>2. \A S : \A s \in Seq(S) : s # << >> => Head(s) = s[1]
    OBVIOUS
  <1>3. <<y>> \in Seq({y}) /\ <<y>> # << >> /\ <<y>>[1] = y
    OBVIOUS
  <1>4. Head(<<y>>) = y
    BY <1>2, <1>3
  <1>5. Len(<<x>>) = 1 /\ <<x>>[1] = x /\ <<x>> # << >>
    OBVIOUS
  <1>6. Last(<<x>>) = x
    BY <1>5 DEF Last
  <1>7. QED
    BY <1>1, <1>3, <1>4, <1>5, <1>6 DEF Join

LEMMA TwoExcept ==
  ASSUME NEW r, NEW p, NEW q
  PROVE  /\ [r EXCEPT !.from = p, !.to = q] = [[r EXCEPT !.from = p] EXCEPT !.to = q]
         /\ [r EXCEPT !.len = p, !.flags = q] = [[r EXCEPT !.len = p] EXCEPT !.flags = q]
  OBVIOUS

(* What a link id is the hash of: one half byte and the packet behind its   *)
(* hops, or behind the transport id.                                        *)
IdBytes(b) == LinkId(b, Header(b))[1].of[2][1]
From(b) == HashedFrom(Header(b))

LEMMA KeysHashed ==
  ASSUME NEW b, IsLine(b), Header(b).ok, Header(b).payload_len = ECPUBSIZE
  PROVE  /\ IdBytes(b) = <<Piece(<<"low nibble of", b.line>>, 0, 1),
                           Piece(Line(b.line), From(b), b.len)>>
         /\ From(b) = 2 + 16 * Header(b).type
  <1> DEFINE g == Header(b)
             n == HashableLen(b, g)
             nibble == Piece(<<"low nibble of", b.line>>, 0, 1)
             rest == Piece(Line(b.line), From(b), b.len)
  <1>1. /\ g.type \in {0, 1} /\ b.len \in Nat /\ HeaderLen(b) = 19 + 16 * g.type
        /\ HeaderLen(b) <= b.len
    BY HeaderTaken
  <1>2. From(b) = 2 + 16 * g.type /\ From(b) \in Nat /\ From(b) < b.len
    BY <1>1 DEF From, HashedFrom, ADDRLEN
  <1>3. n - 1 = b.len - From(b) /\ n - 1 # 0 /\ From(b) + (n - 1) = b.len /\ n \in Nat
    BY <1>1, <1>2 DEF HashableLen, From
  <1>4. LinkId(b, g) = Sha256(HashablePart(b, g, n - 0), ADDRLEN)
    BY DEF LinkId, ECPUBSIZE
  <1>5. n - 0 = n
    BY <1>3
  <1> HIDE DEF n
  <1>6. At(b, From(b), n - 1) = <<rest>>
    BY <1>3 DEF At, Mem
  <1>7. LowNibble(b.line) = <<nibble>>
    BY DEF LowNibble, Mem
  <1>8. nibble.of # rest.of
    BY DEF Piece, Line
  <1> HIDE DEF nibble, rest
  <1>9. Join(<<nibble>>, <<rest>>) = <<nibble, rest>>
    BY <1>8, JoinApart
  <1>10. HashablePart(b, g, n) = <<nibble, rest>>
    BY <1>6, <1>7, <1>9 DEF HashablePart, From
  <1>11. \A bytes : Sha256(bytes, ADDRLEN)[1].of[2][1] = bytes
    BY DEF Sha256, Made, Mem, Piece, ADDRLEN
  <1>12. IdBytes(b) = <<nibble, rest>>
    BY <1>4, <1>5, <1>10, <1>11 DEF IdBytes
  <1>13. QED
    BY <1>2, <1>12 DEF nibble, rest

LEMMA TypeBit ==
  ASSUME NEW flags \in 0..255, Bits(flags, 6, 1) = 1
  PROVE  flags - 64 \in 0..255 /\ Bits(flags - 64, 6, 1) = 0
  <1>1. (flags \div 64) % 2 = 1
    BY DEF Bits
  <1>2. flags \div 64 \in {1, 3}
    BY <1>1
  <1>3. flags >= 64 /\ (flags - 64) \div 64 = flags \div 64 - 1
    BY <1>2
  <1>4. ((flags - 64) \div 64) % 2 = 0
    BY <1>2, <1>3
  <1>5. QED
    BY <1>3, <1>4 DEF Bits

LEMMA RelayedKeys ==
  ASSUME NEW b, IsLine(b), Header(b).ok, Header(b).type = 1, Header(b).payload_len = ECPUBSIZE
  PROVE  IdBytes(AsSent(b)) = MovedBack(IdBytes(b))
  <1> DEFINE a == AsSent(b)
  <1>1. /\ Bits(b.flags, 6, 1) = 1 /\ HeaderLen(b) = 35 /\ b.len = 99
        /\ b.hops < MAX_HOPS /\ b.hops \in 0..255 /\ b.flags \in 0..255
    BY HeaderTaken DEF ECPUBSIZE, IsLine
  <1>2. b.flags - 64 \in 0..255 /\ Bits(b.flags - 64, 6, 1) = 0
    BY <1>1, TypeBit
  <1>3. /\ a.len = 83 /\ a.flags = b.flags - 64 /\ a.hops = b.hops /\ a.line = b.line
        /\ a.absent = b.absent /\ a.context = b.context /\ a.dots = b.dots
        /\ a = [line |-> a.line, len |-> a.len, absent |-> a.absent, flags |-> a.flags,
                hops |-> a.hops, context |-> a.context, dots |-> a.dots]
    <2>1. b = [line |-> b.line, len |-> b.len, absent |-> b.absent, flags |-> b.flags,
               hops |-> b.hops, context |-> b.context, dots |-> b.dots]
      BY DEF IsLine
    <2>2. a = [line |-> b.line, len |-> b.len - 16, absent |-> b.absent, flags |-> b.flags - 64,
               hops |-> b.hops, context |-> b.context, dots |-> b.dots]
      <3> DEFINE m == b.len - ADDRLEN
                 f == b.flags - 64
      <3>1. a = [[b EXCEPT !.len = m] EXCEPT !.flags = f]
        BY TwoExcept DEF AsSent
      <3>2. m = b.len - 16
        BY DEF ADDRLEN
      <3> HIDE DEF a, m, f
      <3>3. [b EXCEPT !.len = m]
              = [line |-> b.line, len |-> m, absent |-> b.absent, flags |-> b.flags,
                 hops |-> b.hops, context |-> b.context, dots |-> b.dots]
        BY <2>1
      <3>4. a = [line |-> b.line, len |-> m, absent |-> b.absent, flags |-> f,
                 hops |-> b.hops, context |-> b.context, dots |-> b.dots]
        BY <3>1, <3>3
      <3>5. QED
        BY <3>2, <3>4 DEF f
    <2> HIDE DEF a
    <2>3. b.len - 16 = 83
      BY <1>1
    <2>4. QED
      BY <2>2, <2>3
  <1> HIDE DEF a
  <1>4. IsLine(a)
    BY <1>1, <1>2, <1>3 DEF IsLine
  <1>5. HeaderLen(a) = 19
    BY <1>2, <1>3 DEF HeaderLen, ADDRLEN
  <1>6. Header(a).ok /\ Header(a).type = 0 /\ Header(a).payload_len = ECPUBSIZE
    <2>1. ~(a.len < 2) /\ ~(a.len < HeaderLen(a)) /\ ~(a.hops >= MAX_HOPS) /\ a.len - HeaderLen(a) = 64
      BY <1>1, <1>3, <1>5 DEF MAX_HOPS
    <2>2. QED
      BY <1>2, <1>3, <2>1 DEF Header, ECPUBSIZE
  <1>7. IdBytes(a) = <<Piece(<<"low nibble of", b.line>>, 0, 1), Piece(Line(b.line), 2, 83)>>
    <2>1. From(a) = 2 + 16 * Header(a).type
          /\ IdBytes(a) = <<Piece(<<"low nibble of", a.line>>, 0, 1), Piece(Line(a.line), From(a), a.len)>>
      BY <1>4, <1>6, KeysHashed
    <2>2. From(a) = 2
      <3>1. From(a) = 2 + 16 * Header(a).type
        BY <1>4, <1>6, KeysHashed
      <3>2. Header(a).type = 0
        BY <1>6
      <3>3. QED
        BY <3>1, <3>2
    <2>3. QED
      BY <1>3, <2>1, <2>2
  <1> DEFINE nibble == Piece(<<"low nibble of", b.line>>, 0, 1)
  <1>8. IdBytes(b) = <<nibble, Piece(Line(b.line), 18, 99)>>
    <2>1. From(b) = 2 + 16 * Header(b).type /\ IdBytes(b) = <<nibble, Piece(Line(b.line), From(b), b.len)>>
      BY KeysHashed
    <2>2. From(b) = 18
      <3>1. From(b) = 2 + 16 * Header(b).type
        BY KeysHashed
      <3>2. QED
        BY <3>1
    <2>3. QED
      BY <1>1, <2>1, <2>2
  <1>9. MovedBack(IdBytes(b)) = <<nibble, Piece(Line(b.line), 2, 83)>>
    <2> DEFINE rest == Piece(Line(b.line), 18, 99)
    <2>1. nibble.of[1] # "line" /\ rest.of[1] = "line"
      BY DEF Piece, Line
    <2>2. [rest EXCEPT !.from = @ - ADDRLEN, !.to = @ - ADDRLEN] = Piece(Line(b.line), 2, 83)
      <3>1. [rest EXCEPT !.from = @ - ADDRLEN, !.to = @ - ADDRLEN]
              = [[rest EXCEPT !.from = 2] EXCEPT !.to = 83]
        <4>1. rest.from - ADDRLEN = 2 /\ rest.to - ADDRLEN = 83
          BY DEF Piece, ADDRLEN
        <4>2. QED
          BY <4>1, TwoExcept
      <3>2. [rest EXCEPT !.from = 2] = Piece(Line(b.line), 2, 99)
        BY DEF Piece
      <3>3. [Piece(Line(b.line), 2, 99) EXCEPT !.to = 83] = Piece(Line(b.line), 2, 83)
        BY DEF Piece
      <3>4. QED
        BY <3>1, <3>2, <3>3
    <2>3. 1..2 = {1, 2}
      OBVIOUS
    <2> HIDE DEF nibble, rest
    <2> DEFINE moved == Piece(Line(b.line), 2, 83)
               pair == <<nibble, rest>>
    <2>4. Len(pair) = 2 /\ pair[1] = nibble /\ pair[2] = rest
      OBVIOUS
    <2> HIDE DEF moved, pair
    <2>5. MovedBack(pair) = [i \in {1, 2} |-> IF i = 1 THEN nibble ELSE moved]
      <3> DEFINE turned(x) == IF x.of[1] # "line" THEN x
                            ELSE [x EXCEPT !.from = @ - ADDRLEN, !.to = @ - ADDRLEN]
      <3>1. turned(nibble) = nibble /\ turned(rest) = moved
        BY <2>1, <2>2 DEF moved
      <3>2. MovedBack(pair) = [i \in 1..Len(pair) |-> turned(pair[i])]
        BY DEF MovedBack
      <3> HIDE DEF turned
      <3>3. \A i \in {1, 2} : turned(pair[i]) = IF i = 1 THEN nibble ELSE moved
        BY <2>4, <3>1
      <3>4. QED
        BY <2>3, <2>4, <3>2, <3>3
    <2>6. <<nibble, moved>> = [i \in {1, 2} |-> IF i = 1 THEN nibble ELSE moved]
      BY <2>3
    <2>7. QED
      BY <1>8, <2>5, <2>6 DEF rest, pair, moved
  <1>10. QED
    BY <1>7, <1>9 DEF a, nibble
(* One request, hashed whole, up to the keys, and as its sender made it. *)
LEMMA IdOfRequest ==
  ASSUME NEW b, IsLine(b), Header(b).ok, Header(b).payload_len >= ECPUBSIZE
  PROVE  /\ LinkId(b, Header(b)) = LinkId(Keys(b), Header(Keys(b)))
         /\ Relayed(b) => IdBytes(AsSent(Keys(b))) = MovedBack(IdBytes(Keys(b)))
  <1>1. LinkId(b, Header(b)) = LinkId(Keys(b), Header(Keys(b)))
    BY SignallingNotHashed
  <1>2. ASSUME Relayed(b)
        PROVE  IdBytes(AsSent(Keys(b))) = MovedBack(IdBytes(Keys(b)))
    <2>1. Header(b).type = 1
      BY <1>2, HeaderTaken DEF Relayed
    <2>2. /\ IsLine(Keys(b)) /\ Header(Keys(b)).ok /\ Header(Keys(b)).type = 1
          /\ Header(Keys(b)).payload_len = ECPUBSIZE
      BY <2>1, KeysAreAPacket
    <2>3. QED
      BY <2>2, RelayedKeys
  <1>3. QED
    BY <1>1, <1>2

Says(s, id) == IsSeq(s) /\ "link_id" \in Names(s) /\ Lookup(s, "link_id") = Hex(id)
Silent(s)   == IsSeq(s) /\ "link_id" \notin Names(s)

LEMMA SaysOn ==
  ASSUME NEW s, NEW id, NEW t, Says(s, id), IsSeq(t)
  PROVE  Says(s \o t, id)
  BY SeqsJoin, NamesJoin, LookupBefore DEF Says

LEMMA SaysNow ==
  ASSUME NEW s, NEW id, NEW t, Silent(s), Says(t, id)
  PROVE  Says(s \o t, id)
  BY SeqsJoin, NamesJoin, LookupBehind DEF Says, Silent

LEMMA SilentOn ==
  ASSUME NEW s, NEW t, Silent(s), Silent(t)
  PROVE  Silent(s \o t)
  BY SeqsJoin, NamesJoin DEF Silent

LEMMA SaysFirst ==
  ASSUME NEW id
  PROVE  /\ Says(<<Field("link_id", Hex(id))>>, id)
         /\ \A x : Says(<<Field("link_id", Hex(id)), x>>, id)
         /\ \A x, y, z : Says(<<Field("link_id", Hex(id)), x, y, z>>, id)
  <1> DEFINE first == Field("link_id", Hex(id))
  <1>1. first.name = "link_id" /\ first.value = Hex(id)
    BY FieldParts
  <1> HIDE DEF first
  <1>2. ASSUME NEW s, IsSeq(s), Len(s) \in Nat, Len(s) >= 1, s[1] = first
        PROVE  Says(s, id)
    <2>1. 1 \in 1..Len(s) /\ \A i \in 1..(1 - 1) : s[i].name # "link_id"
      BY <1>2
    <2>2. Lookup(s, "link_id") = Hex(id)
      BY <1>1, <1>2, <2>1, LookupAt
    <2>3. "link_id" \in Names(s)
      BY <1>1, <1>2, <2>1 DEF Names
    <2>4. QED
      BY <1>2, <2>2, <2>3 DEF Says
  <1>3. Says(<<first>>, id)
    <2>1. Len(<<first>>) = 1 /\ <<first>>[1] = first /\ IsSeq(<<first>>)
      BY TuplesAreSeqs
    <2>2. QED
      BY <1>2, <2>1
  <1>4. ASSUME NEW x PROVE Says(<<first, x>>, id)
    <2>1. Len(<<first, x>>) = 2 /\ <<first, x>>[1] = first /\ IsSeq(<<first, x>>)
      BY TuplesAreSeqs
    <2>2. QED
      BY <1>2, <2>1
  <1>5. ASSUME NEW x, NEW y, NEW z PROVE Says(<<first, x, y, z>>, id)
    <2>1. Len(<<first, x, y, z>>) = 4 /\ <<first, x, y, z>>[1] = first /\ IsSeq(<<first, x, y, z>>)
      BY TuplesAreSeqs
    <2>2. QED
      BY <1>2, <2>1
  <1>6. QED
    BY <1>3, <1>4, <1>5 DEF first

LEMMA SilentParts ==
  /\ Silent(<< >>)
  /\ \A h : Silent(PrintHeader(h))
  /\ \A p : Silent(PrintSignalling(p))
  /\ \A b : ~Header(b).ok => Silent(Header(b).lines)
  /\ \A h, m, n : Silent(NeitherLength(h, "accepted_length", m, "signalled_length", n))
  /\ \A l, m : Silent(<<Field("link_request", l), Field("signer_public", m)>>)
  /\ \A l, m : Silent(<<Field("link_request", l), Field("responder_private", m)>>)
  /\ \A l, m : Silent(<<Field("x25519_public", l), Field("ed25519_public", m)>>)
  <1>1. Silent(<< >>)
    BY TuplesAreSeqs, NamesOfFew DEF Silent
  <1>2. \A h : Silent(PrintHeader(h))
    BY HeaderLines DEF Silent, HeaderNames
  <1>3. ASSUME NEW p PROVE Silent(PrintSignalling(p))
    <2>1. ASSUME NEW x, NEW y, NEW z
          PROVE  Silent(<<Field("signalling", x), Field("mode", y), Field("mtu", z)>>)
      <3>1. Names(<<Field("signalling", x), Field("mode", y), Field("mtu", z)>>)
              = {Field("signalling", x).name, Field("mode", y).name, Field("mtu", z).name}
        BY NamesOfFew
      <3>2. "link_id" \notin {Field("signalling", x).name, Field("mode", y).name, Field("mtu", z).name}
        BY FieldParts
      <3>3. QED
        BY <3>1, <3>2, TuplesAreSeqs DEF Silent
    <2>2. QED
      BY <2>1 DEF PrintSignalling
  <1>4. \A b : ~Header(b).ok => Silent(Header(b).lines)
    BY HeaderFaults DEF Silent
  <1>5. \A h, m, n : Silent(NeitherLength(h, "accepted_length", m, "signalled_length", n))
    BY LengthFaults DEF Silent
  <1>6. /\ \A l, m : Silent(<<Field("link_request", l), Field("signer_public", m)>>)
        /\ \A l, m : Silent(<<Field("link_request", l), Field("responder_private", m)>>)
        /\ \A l, m : Silent(<<Field("x25519_public", l), Field("ed25519_public", m)>>)
    BY NumbersOf DEF Silent
  <1>7. QED
    BY <1>1, <1>2, <1>3, <1>4, <1>5, <1>6

(* what the lines of a link's packet say of its id *)
IdSaid(b, lines) ==
  \/ Silent(lines)
  \/ /\ Says(lines, LinkId(b, Header(b)))
     /\ Header(b).ok /\ Header(b).payload_len >= ECPUBSIZE

LEMMA LinkRequestSays ==
  ASSUME NEW b, IsLine(b[1])
  PROVE  IdSaid(b[1], DumpLinkRequest(b).lines)
  <1> DEFINE h == Header(b[1])
             keys == <<Field("x25519_public", Hex(Payload(h, 0, KEYHALF))),
                       Field("ed25519_public", Hex(Payload(h, KEYHALF, KEYHALF)))>>
             signalled == h.payload_len = ECPUBSIZE + SIGNALLEN
             signalling == PrintSignalling(IF signalled THEN Payload(h, ECPUBSIZE, SIGNALLEN) ELSE << >>)
             said == <<Field("link_id", Hex(LinkId(b[1], h)))>>
             fault == NeitherLength(h, "accepted_length", ECPUBSIZE,
                                    "signalled_length", ECPUBSIZE + SIGNALLEN)
  <1>1. DumpLinkRequest(b) = IF ~h.ok THEN Exits(h.lines)
                             ELSE IF ~signalled /\ h.payload_len # ECPUBSIZE THEN Exits(fault)
                             ELSE Exits(PrintHeader(h) \o keys \o signalling \o said)
    BY DEF DumpLinkRequest
  <1>2. Silent(keys) /\ Silent(PrintHeader(h)) /\ Silent(signalling) /\ Silent(fault)
    BY SilentParts
  <1>3. ~h.ok => Silent(h.lines)
    BY SilentParts
  <1>4. Says(said, LinkId(b[1], h))
    BY SaysFirst
  <1>5. signalled \/ h.payload_len = ECPUBSIZE => h.payload_len >= ECPUBSIZE
    BY DEF ECPUBSIZE, SIGNALLEN
  <1> HIDE DEF keys, signalling, said, fault, signalled, h
  <1>6. Says(PrintHeader(h) \o keys \o signalling \o said, LinkId(b[1], h))
    BY <1>2, <1>4, SilentOn, SaysNow
  <1>7. \A l : Exits(l).lines = l
    BY DEF Exits
  <1>8. CASE ~h.ok
    BY <1>1, <1>3, <1>7, <1>8 DEF IdSaid
  <1>9. CASE h.ok /\ ~signalled /\ h.payload_len # ECPUBSIZE
    BY <1>1, <1>2, <1>7, <1>9 DEF IdSaid
  <1>10. CASE h.ok /\ (signalled \/ h.payload_len = ECPUBSIZE)
    <2>1. DumpLinkRequest(b).lines = PrintHeader(h) \o keys \o signalling \o said
      BY <1>1, <1>7, <1>10
    <2>2. h.payload_len >= ECPUBSIZE
      BY <1>5, <1>10
    <2>3. QED
      BY <1>6, <1>10, <2>1, <2>2 DEF IdSaid, h
  <1>11. QED
    BY <1>8, <1>9, <1>10
LEMMA LinkProofSays ==
  ASSUME NEW b, IsLine(b[1]), Header(b[1]).ok, Header(b[1]).payload_len >= ECPUBSIZE
  PROVE  IdSaid(b[1], DumpLinkProof(b).lines)
  <1> DEFINE rh == Header(b[1])
             h  == Header(b[3])
             id == LinkId(b[1], rh)
             short == SIGLEN + KEYHALF
             signer == At(b[2], KEYHALF, KEYHALF)
             sig == Payload(h, 0, SIGLEN)
             x25519 == Payload(h, SIGLEN, KEYHALF)
             bytes == IF h.payload_len = short + SIGNALLEN THEN Payload(h, short, SIGNALLEN) ELSE << >>
             signed == Cat(<<id, x25519, signer, bytes>>)
             echo == <<Field("link_request", Hex(Whole(b[1]))),
                       Field("signer_public", Hex(Whole(b[2])))>>
             four == <<Field("link_id", Hex(id)),
                       Field("link_id_match", Equal(h.destination_hash, id)),
                       Field("signature", Hex(sig)), Field("x25519_public", Hex(x25519))>>
             last == <<Field("signer_ed25519", Hex(signer)), Field("signed_data", Hex(signed)),
                       Field("signature_valid", Verifies(signer, sig, signed))>>
             fault == NeitherLength(h, "accepted_length", short, "signalled_length", short + SIGNALLEN)
  <1>1. DumpLinkProof(b) =
          IF b[2].len # KEYSIZE THEN Fatal(<< >>)
          ELSE IF ~rh.ok THEN Fatal(echo)
          ELSE IF ~h.ok THEN Exits(echo \o h.lines)
          ELSE IF ~(h.payload_len = short + SIGNALLEN) /\ h.payload_len # short
               THEN Exits(echo \o fault)
          ELSE Exits(echo \o PrintHeader(h) \o four \o PrintSignalling(bytes) \o last)
    BY DEF DumpLinkProof, Rejected
  <1>2. /\ Silent(<< >>) /\ Silent(echo) /\ Silent(PrintHeader(h)) /\ Silent(fault)
        /\ IsSeq(PrintSignalling(bytes)) /\ (~h.ok => Silent(h.lines))
    BY SilentParts DEF Silent
  <1>3. Says(four, id) /\ IsSeq(last)
    BY SaysFirst, TuplesAreSeqs
  <1>4. rh.ok /\ rh.payload_len >= ECPUBSIZE
    OBVIOUS
  <1> DEFINE signalling == PrintSignalling(bytes)
             all == echo \o PrintHeader(h) \o four \o signalling \o last
  <1> HIDE DEF echo, four, last, fault, signalling, rh, h, id, short, bytes
  <1>5. Says(all, id)
    <2>1. Says(echo \o PrintHeader(h) \o four, id)
      BY <1>2, <1>3, SilentOn, SaysNow
    <2>2. IsSeq(signalling)
      BY <1>2 DEF signalling
    <2>3. QED
      BY <1>3, <2>1, <2>2, SaysOn
  <1>6. Silent(echo \o fault) /\ (~h.ok => Silent(echo \o h.lines))
    BY <1>2, SilentOn
  <1>7. \A l : Exits(l).lines = l /\ Fatal(l).lines = l
    BY DEF Exits, Fatal
  <1> HIDE DEF all
  <1>8. \/ DumpLinkProof(b) \in {Fatal(<< >>), Fatal(echo), Exits(echo \o fault), Exits(all)}
        \/ ~h.ok /\ DumpLinkProof(b) = Exits(echo \o h.lines)
    BY <1>1 DEF all, signalling
  <1>9. Silent(DumpLinkProof(b).lines) \/ Says(DumpLinkProof(b).lines, id)
    BY <1>2, <1>5, <1>6, <1>7, <1>8
  <1>10. QED
    BY <1>4, <1>9 DEF IdSaid, id, rh

LEMMA PlaintextLinesAreASeq ==
  ASSUME NEW context, NEW t, NEW link_id, NEW sees
  PROVE  IsSeq(AfterPlaintext(context, t, link_id, sees))
  <1> DEFINE lines == AfterPlaintext(context, t, link_id, sees)
             need == IF context = "resource_req" THEN PartRequestNeeds(t, sees) ELSE Least(context)
             key  == PlainAt(t, 0, KEYSIZE)
             sig  == PlainAt(t, KEYSIZE, SIGLEN)
             signed == Cat(<<link_id, key>>)
             channel == <<Field("msgtype", Hex(PlainAt(t, 0, 2))),
                          Field("sequence", <<"number", PlainAt(t, 2, 2)>>),
                          Field("declared_length", <<"number", PlainAt(t, 4, 2)>>),
                          Field("message", Hex(PlainAt(t, ENVELOPELEN, t.ptlen - ENVELOPELEN)))>>
             identity == <<Field("identity_public", Hex(key)),
                           Field("identity_hash", Hex(Sha256(key, ADDRLEN))),
                           Field("identity_signed", Hex(signed)),
                           Field("identity_valid", Verifies(PlainAt(t, KEYHALF, KEYHALF), sig, signed))>>
             long == <<Field("required_length", Decimal(KEYSIZE + SIGLEN))>>
  <1>1. lines = CASE t.ptlen < need -> Short(need)
                  [] t.ptlen >= need /\ context \in {"request", "response", "resource_adv",
                         "resource_req", "resource_hmu", "resource_icl", "resource_rcl"}
                       -> Body(context, t)
                  [] t.ptlen >= need /\ context = "channel" -> channel
                  [] context = "link_identify" ->
                       IF t.ptlen # KEYSIZE + SIGLEN THEN Rejection("identify-length", long)
                       ELSE identity
                  [] OTHER -> << >>
    BY DEF AfterPlaintext
  <1>2. /\ IsSeq(channel) /\ IsSeq(identity) /\ IsSeq(<< >>) /\ IsSeq(Body(context, t))
        /\ IsSeq(long)
    BY TuplesAreSeqs DEF Body
  <1>3. IsSeq(Short(need))
    BY TuplesAreSeqs, RejectionLines DEF Short
  <1> HIDE DEF lines, need, channel, identity, long
  <1>4. IsSeq(Rejection("identify-length", long))
    BY <1>2, RejectionLines
  <1>5. lines \in {Short(need), Body(context, t), channel, identity, << >>,
                   Rejection("identify-length", long)}
    BY <1>1
  <1>6. IsSeq(lines)
    BY <1>2, <1>3, <1>4, <1>5
  <1>7. QED
    BY <1>6 DEF lines

LEMMA LinkDataSays ==
  ASSUME NEW b, NEW sees, IsLine(b[1]), Header(b[1]).ok, Header(b[1]).payload_len >= ECPUBSIZE
  PROVE  IdSaid(b[1], DumpLinkData(b, sees).lines)
  <1> DEFINE rh == Header(b[1])
             h  == Header(b[3])
             id == LinkId(b[1], rh)
             context == IF h.context \in DOMAIN ContextName THEN ContextName[h.context] ELSE "unnamed"
             k == Agreed(Whole(b[2]), Payload(rh, 0, KEYHALF), id, sees)
             t == TokenOpen(h, 0, h.payload_len, k.key, sees)
             echo == <<Field("link_request", Hex(Whole(b[1]))),
                       Field("responder_private", Hex(Whole(b[2])))>>
             two == <<Field("link_id", Hex(id)),
                      Field("link_id_match", Equal(h.destination_hash, id))>>
             linked == echo \o PrintHeader(h) \o two
             open == <<Field("encrypted", Word("no")),
                       Field("plaintext_length", Decimal(h.payload_len)),
                       Field("plaintext", Hex(Payload(h, 0, h.payload_len)))>>
             sealed == <<Field("encrypted", Word("yes"))>>
             rest == IF t.opened THEN AfterPlaintext(context, t, id, sees) ELSE << >>
             fault == ShortPayload(h, TOKEN_OVERHEAD)
             token == PrintToken(t)
             keys == PrintKeys(k)
             plain == PrintPlaintext(t)
  <1>1. DumpLinkData(b, sees) =
          IF b[2].len # KEYHALF THEN Fatal(<< >>)
          ELSE IF ~rh.ok THEN Fatal(echo)
          ELSE IF ~h.ok THEN Exits(echo \o h.lines)
          ELSE IF context \in Unencrypted THEN Exits(linked \o open)
          ELSE IF h.payload_len < TOKEN_OVERHEAD THEN Exits((linked \o sealed) \o fault)
          ELSE Exits(linked \o sealed \o token \o keys \o plain \o rest)
    BY DEF DumpLinkData, Rejected
  <1>2. /\ Silent(<< >>) /\ Silent(echo) /\ Silent(PrintHeader(h))
        /\ (~h.ok => Silent(h.lines))
    BY SilentParts
  <1>3. Says(two, id) /\ IsSeq(open) /\ IsSeq(sealed)
    BY SaysFirst, TuplesAreSeqs
  <1>4. IsSeq(fault)
    BY PayloadFaults
  <1>5. IsSeq(token) /\ IsSeq(keys) /\ IsSeq(plain)
    <2>1. IsSeq(token)
      BY TuplesAreSeqs DEF PrintToken
    <2>2. IsSeq(keys)
      BY TuplesAreSeqs DEF PrintKeys
    <2>3. IsSeq(plain)
      BY TuplesAreSeqs DEF PrintPlaintext
    <2>4. QED
      BY <2>1, <2>2, <2>3
  <1>6. IsSeq(rest)
    BY TuplesAreSeqs, PlaintextLinesAreASeq
  <1>7. rh.ok /\ rh.payload_len >= ECPUBSIZE
    OBVIOUS
  <1> HIDE DEF rh, h, id, context, k, t, echo, two, open, sealed, rest, fault, token, keys, plain
  <1>8. Says(linked, id)
    BY <1>2, <1>3, SilentOn, SaysNow
  <1> DEFINE all == linked \o sealed \o token \o keys \o plain \o rest
  <1> HIDE DEF linked
  <1>9. Says(linked \o open, id) /\ Says((linked \o sealed) \o fault, id)
    BY <1>3, <1>4, <1>8, SaysOn
  <1>10. Says(all, id)
    <2>1. Says(linked \o sealed \o token, id)
      BY <1>3, <1>5, <1>8, SaysOn
    <2>2. Says(linked \o sealed \o token \o keys \o plain, id)
      BY <1>5, <2>1, SaysOn
    <2>3. QED
      BY <1>6, <2>2, SaysOn
  <1>11. ~h.ok => Silent(echo \o h.lines)
    BY <1>2, SilentOn
  <1>12. \A l : Exits(l).lines = l /\ Fatal(l).lines = l
    BY DEF Exits, Fatal
  <1> HIDE DEF all
  <1>13. \/ DumpLinkData(b, sees) \in {Fatal(<< >>), Fatal(echo), Exits(linked \o open),
                                       Exits((linked \o sealed) \o fault), Exits(all)}
         \/ ~h.ok /\ DumpLinkData(b, sees) = Exits(echo \o h.lines)
    BY <1>1 DEF all
  <1>14. Silent(DumpLinkData(b, sees).lines) \/ Says(DumpLinkData(b, sees).lines, id)
    BY <1>2, <1>9, <1>10, <1>11, <1>12, <1>13
  <1>15. QED
    BY <1>7, <1>14 DEF IdSaid, id, rh

(* the request a proof or a data packet of a link comes with was a request *)
LEMMA LinkPacketsSay ==
  ASSUME NEW v, WellMade(v), v.kind \in {"linkrequest", "linkproof", "linkdata"}
  PROVE  IsLine(v.b[1]) /\ IdSaid(v.b[1], Dumped(v).lines)
  <1> DEFINE b == v.b
  <1>1. IsLine(b[1])
    <2>1. Blobs(v.kind) \in {1, 3}
      BY DEF Blobs
    <2>2. QED
      BY <2>1 DEF WellMade
  <1>2. Len(b) = Blobs(v.kind)
    BY DEF WellMade
  <1>3. CASE v.kind = "linkrequest"
    <2>1. Dumped(v) = DumpLinkRequest(b)
      BY <1>2, <1>3 DEF Dumped
    <2>2. QED
      BY <1>1, <2>1, LinkRequestSays
  <1>4. CASE v.kind \in {"linkproof", "linkdata"}
    <2>1. /\ DescribeHeader(b[1]).ok
          /\ DescribeHeader(b[1]).len \in {ECPUBSIZE, ECPUBSIZE + SIGNALLEN}
      BY <1>4 DEF WellMade
    <2>2. SameHeader(Header(b[1]), DescribeHeader(b[1]))
      BY <1>1, HeaderAgrees
    <2>3. Header(b[1]).ok /\ Header(b[1]).payload_len = DescribeHeader(b[1]).len
      BY <2>1, <2>2 DEF SameHeader
    <2>4. Header(b[1]).payload_len >= ECPUBSIZE
      BY <2>1, <2>3 DEF ECPUBSIZE, SIGNALLEN
    <2>5. CASE v.kind = "linkproof"
      <3>1. Dumped(v) = DumpLinkProof(b)
        BY <1>2, <2>5 DEF Dumped
      <3>2. QED
        BY <1>1, <2>3, <2>4, <3>1, LinkProofSays
    <2>6. CASE v.kind = "linkdata"
      <3>1. Dumped(v) = DumpLinkData(b, v.sees)
        BY <1>2, <2>6 DEF Dumped
      <3>2. QED
        BY <1>1, <2>3, <2>4, <3>1, LinkDataSays
    <2>7. QED
      BY <1>4, <2>5, <2>6
  <1>5. QED
    BY <1>3, <1>4

LEMMA OneVectorOneId == OneVector => OneLinkId
  <1> DEFINE b == vector.b[1]
             id(line) == LinkId(line, Header(line))
             hashed(line) == id(line)[1].of[2][1]
             keys == [b EXCEPT !.len = HeaderLen(b) + ECPUBSIZE]
  <1> SUFFICES ASSUME OneVector, stage \in {"decoded", "rebuilt"},
                      vector.kind \in {"linkrequest", "linkproof", "linkdata"},
                      Holds(out.lines, "link_id")
               PROVE  /\ Lookup(out.lines, "link_id") = Hex(id(keys))
                      /\ Relayed(b) => hashed(AsSent(keys)) = MovedBack(hashed(keys))
    BY DEF OneLinkId
  <1>1. vector \in Vectors /\ out = Dumped(vector)
    BY DEF OneVector
  <1>2. IsLine(b) /\ IdSaid(b, out.lines)
    BY <1>1, VectorsAssumption, LinkPacketsSay
  <1>3. Says(out.lines, id(b)) /\ Header(b).ok /\ Header(b).payload_len >= ECPUBSIZE
    BY <1>2 DEF IdSaid, Silent, Holds
  <1>4. /\ id(b) = LinkId(Keys(b), Header(Keys(b)))
        /\ Relayed(b) => IdBytes(AsSent(Keys(b))) = MovedBack(IdBytes(Keys(b)))
    BY <1>2, <1>3, IdOfRequest
  <1>5. keys = Keys(b) /\ \A line : hashed(line) = IdBytes(line)
    BY DEF Keys, IdBytes
  <1> HIDE DEF keys, hashed
  <1>6. QED
    BY <1>3, <1>4, <1>5 DEF Says

(* A link has one id.  Whatever a request signals behind its keys and       *)
(* however far it was carried, the id its lines say, and the lines of the   *)
(* proof and of the data packets that come with it, is the id of the two    *)
(* keys alone (link_id_of cuts the rest off the end), and a request that a  *)
(* transport node put a header of type two on hashes, byte for byte, what   *)
(* its sender's would (hashable_part skips the transport id).               *)
THEOREM OneIdForOneLink == HarnessSpec => []OneLinkId
  BY OneVectorAlways, OneVectorOneId, PTL
-----------------------------------------------------------------------------
(* The harness beside the decoder.  Packet::unpack and parse_header take a  *)
(* packet that both read apart alike.                                       *)
LEMMA UnpackedShort ==
  ASSUME NEW b, IsLine(b)
  PROVE  /\ b.len < HeaderLen(b) => ~Unpacked(b).ok
         /\ Header(b).ok => Unpacked(b) = Header(b)
  <1>1. b.len < HeaderLen(b) => ~Unpacked(b).ok
    BY DEF Unpacked
  <1>2. ASSUME Header(b).ok
        PROVE  Unpacked(b) = Header(b)
    <2> DEFINE c == [b EXCEPT !.hops = 0]
               type == Bits(b.flags, 6, 1)
               taken == TRUE
               flag == Bits(b.flags, 5, 1)
               destination == Bits(b.flags, 2, 2)
               transport == IF type = 1 THEN At(b, 2, ADDRLEN) ELSE << >>
               hash == At(b, IF type = 1 THEN 2 + ADDRLEN ELSE 2, ADDRLEN)
               rest == b.len - HeaderLen(b)
               read(hops) == [ok |-> taken, flags |-> b.flags, hops |-> hops, type |-> type,
                  context_flag |-> flag, destination_type |-> destination,
                  transport_id |-> transport, destination_hash |-> hash,
                  context |-> b.context, line |-> b.line,
                  at |-> HeaderLen(b), payload_len |-> rest]
    <2>1. /\ HeaderLen(b) >= 19 /\ HeaderLen(b) <= b.len /\ b.len \in Nat /\ HeaderLen(b) \in Nat
          /\ ~(b.len < 2) /\ ~(b.len < HeaderLen(b)) /\ ~(b.hops >= MAX_HOPS)
      <3>1. /\ HeaderLen(b) >= 19 /\ HeaderLen(b) \in Nat /\ HeaderLen(b) <= b.len
            /\ b.len \in Nat /\ b.hops < MAX_HOPS /\ b.hops \in Nat /\ MAX_HOPS \in Nat
        BY <1>2, HeaderTaken DEF IsLine, MAX_HOPS
      <3>2. QED
        BY <3>1
    <2>2. Header(b) = read(b.hops)
      BY <2>1 DEF Header
    <2>3. /\ c.len = b.len /\ c.flags = b.flags /\ c.hops = 0 /\ c.context = b.context
          /\ c.line = b.line
      BY DEF IsLine
    <2> HIDE DEF c
    <2>4. HeaderLen(c) = HeaderLen(b) /\ \A from, n : At(c, from, n) = At(b, from, n)
      BY <2>3 DEF HeaderLen, At
    <2>5. ~(c.hops >= MAX_HOPS)
      BY <2>3 DEF MAX_HOPS
    <2>6. Header(c) = read(0)
      BY <2>1, <2>3, <2>4, <2>5 DEF Header
    <2>7. [read(0) EXCEPT !.hops = b.hops] = read(b.hops)
      <3> HIDE DEF taken, type, flag, destination, transport, hash, rest
      <3>1. QED
        OBVIOUS
    <2>8. Unpacked(b) = [Header(c) EXCEPT !.hops = b.hops]
      BY <2>1 DEF Unpacked, c
    <2>9. QED
      BY <2>2, <2>6, <2>7, <2>8
  <1>3. QED
    BY <1>1, <1>2

(* a refusal by its rule, and lines that refuse nothing *)
Refuses(s, rule) == IsSeq(s) /\ "invalid" \in Names(s) /\ Lookup(s, "invalid") = Word(rule)
Accepts(s)       == IsSeq(s) /\ "invalid" \notin Names(s)

LEMMA RefusesBehind ==
  ASSUME NEW s, NEW t, Accepts(s)
  PROVE  /\ Accepts(t) => Accepts(s \o t)
         /\ \A rule : Refuses(t, rule) => Refuses(s \o t, rule)
  BY SeqsJoin, NamesJoin, LookupBehind DEF Accepts, Refuses

LEMMA FieldsOf ==
  ASSUME NEW p, NEW n \in Nat, Len(p) = n, p = [i \in 1..n |-> p[i]]
  PROVE  IsSeq(p) /\ Names(p) = {p[i].name : i \in 1..n}
  <1>1. p \in Seq({p[i] : i \in 1..n})
    OBVIOUS
  <1>2. QED
    BY <1>1 DEF IsSeq, Names

LEMMA FaultsRefuse ==
  /\ \A h, x, m, y, n : /\ x # "invalid" /\ y # "invalid"
                        => Refuses(NeitherLength(h, x, m, y, n), "invalid-length")
  /\ \A h, n : Refuses(ShortPayload(h, n), "short-payload")
  BY LengthFaults, PayloadFaults DEF Refuses

LEMMA HeaderRefuses ==
  ASSUME NEW b, IsLine(b), ~Header(b).ok
  PROVE  LET lines == Header(b).lines
         IN  \/ Refuses(lines, "hop-limit")
             \/ /\ Refuses(lines, "short-header")
                /\ b.len >= 2 => ~Unpacked(b).ok /\ ShortHeader(b) = lines
  <1> DEFINE fault(rule, x, m, y, n) == Rejection(rule, <<Field(x, Decimal(m)), Field(y, Decimal(n))>>)
             lines == Header(b).lines
  <1>1. \/ b.len < 2 /\ lines = fault("short-header", "length", b.len, "minimum_length", 2)
        \/ lines = fault("hop-limit", "hops", b.hops, "hop_limit", MAX_HOPS)
        \/ /\ b.len < HeaderLen(b)
           /\ lines = fault("short-header", "length", b.len, "minimum_length", HeaderLen(b))
    BY DEF Header, Fault
  <1>2. ASSUME NEW rule, NEW x, NEW m, NEW y, NEW n
        PROVE  Refuses(fault(rule, x, m, y, n), rule)
    BY RejectionLines, NumbersOf DEF Refuses
  <1>3. b.len \in Nat
    BY DEF IsLine
  <1>4. b.len >= 2 => ShortHeader(b)
                        = fault("short-header", "length", b.len, "minimum_length", HeaderLen(b))
    BY <1>3 DEF ShortHeader, header_minimum, Fault
  <1>5. b.len < HeaderLen(b) => ~Unpacked(b).ok
    BY UnpackedShort
  <1> HIDE DEF fault, lines
  <1>6. QED
    BY <1>1, <1>2, <1>3, <1>4, <1>5 DEF lines

LEMMA AcceptedParts ==
  /\ Accepts(<< >>)
  /\ \A h : Accepts(PrintHeader(h))
  /\ \A p : Accepts(PrintSignalling(p))
  /\ \A x, l, y, m : x # "invalid" /\ y # "invalid" => Accepts(<<Field(x, l), Field(y, m)>>)
  /\ \A x, l : x # "invalid" => Accepts(<<Field(x, l)>>)
  /\ \A x, l, y, m, z, n : /\ x # "invalid" /\ y # "invalid" /\ z # "invalid"
                           => Accepts(<<Field(x, l), Field(y, m), Field(z, n)>>)
  <1>1. Accepts(<< >>)
    BY TuplesAreSeqs, NamesOfFew DEF Accepts
  <1>2. \A h : Accepts(PrintHeader(h))
    BY HeaderLines DEF Accepts, HeaderNames
  <1>3. ASSUME NEW x, NEW l, NEW y, NEW m, NEW z, NEW n,
               x # "invalid", y # "invalid", z # "invalid"
        PROVE  Accepts(<<Field(x, l), Field(y, m), Field(z, n)>>)
    <2>1. Names(<<Field(x, l), Field(y, m), Field(z, n)>>)
            = {Field(x, l).name, Field(y, m).name, Field(z, n).name}
      BY NamesOfFew
    <2>2. "invalid" \notin {Field(x, l).name, Field(y, m).name, Field(z, n).name}
      BY <1>3, FieldParts
    <2>3. QED
      BY <2>1, <2>2, TuplesAreSeqs DEF Accepts
  <1>4. \A p : Accepts(PrintSignalling(p))
    BY <1>3 DEF PrintSignalling
  <1>5. \A x, l, y, m : x # "invalid" /\ y # "invalid" => Accepts(<<Field(x, l), Field(y, m)>>)
    BY NumbersOf DEF Accepts
  <1>6. ASSUME NEW x, NEW l, x # "invalid"
        PROVE  Accepts(<<Field(x, l)>>)
    <2>1. Names(<<Field(x, l)>>) = {Field(x, l).name}
      BY NamesOfFew
    <2>2. QED
      BY <1>6, <2>1, FieldParts, TuplesAreSeqs DEF Accepts
  <1>7. QED
    BY <1>1, <1>2, <1>3, <1>4, <1>5, <1>6
(* Bytes::mid inside a payload takes what the decoder takes *)
LEMMA MidIsPayload ==
  ASSUME NEW h, h.at \in Nat, h.payload_len \in Nat,
         NEW from \in Nat, NEW n \in Nat, from + n <= h.payload_len
  PROVE  /\ Mid(h, from, n) = Payload(h, from, n)
         /\ Behind(h, from) = Payload(h, from, h.payload_len - from)
  <1>1. Mid(h, from, n) = Payload(h, from, n)
    <2>1. Sliced(Line(h.line), h.at + h.payload_len, h.at + from, h.at + from + n)
            = Mem(Line(h.line), h.at + from, (h.at + from + n) - (h.at + from))
      BY SliceInside
    <2>2. (h.at + from + n) - (h.at + from) = n
      OBVIOUS
    <2>3. QED
      BY <2>1, <2>2 DEF Mid, Payload
  <1>2. Behind(h, from) = Payload(h, from, h.payload_len - from)
    <2> DEFINE a == h.at + from
               z == h.at + h.payload_len
    <2>1. Behind(h, from) = Sliced(Line(h.line), z, a, a + h.payload_len)
      BY DEF Behind, Mid
    <2>2. Within(a, z) = a /\ Within(a + h.payload_len, z) = z /\ a <= z
          /\ a \in Nat /\ z \in Nat /\ h.payload_len - from = z - a /\ a + (z - a) = z
      BY DEF Within
    <2> HIDE DEF a, z
    <2>3. Sliced(Line(h.line), z, a, a + h.payload_len) = Mem(Line(h.line), a, z - a)
      BY <2>2 DEF Sliced, Mem
    <2>4. QED
      BY <2>1, <2>2, <2>3 DEF Payload, a
  <1>3. QED
    BY <1>1, <1>2

LEMMA HeaderPlaces ==
  ASSUME NEW b, IsLine(b), Header(b).ok
  PROVE  Header(b).at \in Nat /\ Header(b).payload_len \in Nat
  <1>1. Header(b).at = HeaderLen(b)
    BY DEF Header, Fault
  <1>2. /\ Header(b).payload_len = b.len - HeaderLen(b) /\ HeaderLen(b) = 19 + 16 * Header(b).type
        /\ Header(b).type \in {0, 1} /\ b.len \in Nat /\ HeaderLen(b) <= b.len
    BY HeaderTaken
  <1>3. HeaderLen(b) \in Nat
    BY <1>2
  <1>4. QED
    BY <1>1, <1>2, <1>3

(* Two outputs that say the same fields in the same places; free are the    *)
(* names whose value may be another one.                                    *)
InPlace(m, e, free) ==
  /\ IsSeq(m) /\ IsSeq(e) /\ Len(m) = Len(e)
  /\ \A i \in 1..Len(e) :
       /\ m[i].name = e[i].name
       /\ m[i].value \in {e[i].value, Dash} \/ m[i].name \in free

LEMMA InPlaceSame ==
  ASSUME NEW s, IsSeq(s), NEW free
  PROVE  InPlace(s, s, free)
  BY DEF InPlace

LEMMA InPlaceJoin ==
  ASSUME NEW m1, NEW e1, NEW m2, NEW e2, NEW free, InPlace(m1, e1, free), InPlace(m2, e2, free)
  PROVE  InPlace(m1 \o m2, e1 \o e2, free)
  <1>0. IsSeq(m1) /\ IsSeq(m2) /\ IsSeq(e1) /\ IsSeq(e2)
    BY DEF InPlace
  <1>1. /\ IsSeq(m1 \o m2) /\ Len(m1) \in Nat /\ Len(m2) \in Nat
        /\ Len(m1 \o m2) = Len(m1) + Len(m2)
        /\ \A i \in 1..Len(m1) : (m1 \o m2)[i] = m1[i]
        /\ \A i \in 1..Len(m2) : (m1 \o m2)[Len(m1) + i] = m2[i]
    BY <1>0, SeqsJoin
  <1>2. /\ IsSeq(e1 \o e2) /\ Len(e1 \o e2) = Len(e1) + Len(e2)
        /\ \A i \in 1..Len(e1) : (e1 \o e2)[i] = e1[i]
        /\ \A i \in 1..Len(e2) : (e1 \o e2)[Len(e1) + i] = e2[i]
    BY <1>0, SeqsJoin
  <1>3. /\ Len(m1) = Len(e1) /\ Len(m2) = Len(e2)
        /\ \A i \in 1..Len(e1) : /\ m1[i].name = e1[i].name
                                 /\ m1[i].value \in {e1[i].value, Dash} \/ m1[i].name \in free
        /\ \A i \in 1..Len(e2) : /\ m2[i].name = e2[i].name
                                 /\ m2[i].value \in {e2[i].value, Dash} \/ m2[i].name \in free
    BY DEF InPlace
  <1> DEFINE m == m1 \o m2
             e == e1 \o e2
  <1> HIDE DEF m, e
  <1>4. ASSUME NEW i \in 1..Len(e)
        PROVE  m[i].name = e[i].name /\ (m[i].value \in {e[i].value, Dash} \/ m[i].name \in free)
    <2>1. CASE i <= Len(e1)
      <3>1. i \in 1..Len(e1) /\ m[i] = m1[i] /\ e[i] = e1[i]
        BY <1>1, <1>2, <1>3, <2>1 DEF m, e
      <3>2. QED
        BY <1>3, <3>1
    <2>2. CASE i > Len(e1)
      <3>1. PICK k : k = i - Len(e1)
        OBVIOUS
      <3>2. k \in 1..Len(e2) /\ Len(e1) + k = i
        BY <1>1, <1>2, <1>3, <2>2, <3>1 DEF e
      <3>3. m[i] = m2[k] /\ e[i] = e2[k]
        BY <1>1, <1>2, <1>3, <3>2 DEF m, e
      <3>4. QED
        BY <1>3, <3>2, <3>3
    <2>3. QED
      BY <1>1, <1>2, <1>3, <2>1, <2>2 DEF e
  <1>5. QED
    BY <1>1, <1>2, <1>3, <1>4 DEF InPlace, m, e

(* What a kind with a packet is answered: a refusal the library knows is    *)
(* the reference's, word for word, and fields that were read stand where    *)
(* the reference has them.  lost are the rules the kind does not know.      *)
Beside(e, m, packet, lost, free) ==
  \/ \E rule : /\ Refuses(e, rule)
               /\ \/ rule \notin {"short-header", "short-payload", "invalid-length"} \ lost
                  \/ rule = "short-header" /\ packet.len < 2
                  \/ m = e
  \/ /\ Accepts(e)
     /\ m \in {Thrown, Crashed} \/ InPlace(m, e, free)

LEMMA BesideSame ==
  ASSUME NEW e, NEW packet, NEW lost, NEW free, Accepts(e)
  PROVE  Beside(e, e, packet, lost, free)
  BY InPlaceSame DEF Beside, Accepts

LEMMA BesideShort ==
  ASSUME NEW b, IsLine(b), ~Header(b).ok, NEW echo, Accepts(echo), NEW m, NEW lost, NEW free,
         ~Unpacked(b).ok => m = echo \o ShortHeader(b)
  PROVE  Beside(echo \o Header(b).lines, m, b, lost, free)
  <1> DEFINE lines == Header(b).lines
  <1>1. \/ Refuses(lines, "hop-limit")
        \/ /\ Refuses(lines, "short-header")
           /\ b.len >= 2 => ~Unpacked(b).ok /\ ShortHeader(b) = lines
    BY HeaderRefuses
  <1>2. b.len \in Nat
    BY DEF IsLine
  <1> HIDE DEF lines
  <1>3. CASE Refuses(lines, "hop-limit")
    <2>1. Refuses(echo \o lines, "hop-limit")
      BY <1>3, RefusesBehind
    <2>2. QED
      BY <2>1 DEF Beside, lines
  <1>4. CASE /\ Refuses(lines, "short-header")
             /\ b.len >= 2 => ~Unpacked(b).ok /\ ShortHeader(b) = lines
    <2>1. Refuses(echo \o lines, "short-header")
      BY <1>4, RefusesBehind
    <2>2. b.len < 2 \/ m = echo \o lines
      BY <1>2, <1>4
    <2>3. QED
      BY <2>1, <2>2 DEF Beside, lines
  <1>5. QED
    BY <1>1, <1>3, <1>4

LEMMA BesideRefused ==
  ASSUME NEW echo, Accepts(echo), NEW lines, NEW rule, Refuses(lines, rule),
         NEW m, NEW packet, NEW lost, NEW free,
         rule \in {"short-header", "short-payload", "invalid-length"} \ lost => m = echo \o lines
  PROVE  Beside(echo \o lines, m, packet, lost, free)
  BY RefusesBehind DEF Beside

(* no echo *)
LEMMA EmptyEcho ==
  ASSUME NEW s, IsSeq(s)
  PROVE  << >> \o s = s
  BY DEF IsSeq

LEMMA AnnounceBeside ==
  ASSUME NEW b, IsLine(b[1])
  PROVE  Beside(DumpAnnounce(b).lines, kind_announce(b), b[1], {}, {})
  <1> DEFINE h == Header(b[1])
             a == Announce(h)
             p == Unpacked(b[1])
             read == PrintAnnounce(h, a)
             short == KEYSIZE + NAMEHASHLEN + RANDHASHLEN + RatchetLen(h) + SIGLEN
  <1>1. DumpAnnounce(b) = IF ~h.ok THEN Exits(h.lines)
                          ELSE IF ~a.ok THEN Exits(a.lines) ELSE Exits(read)
    BY DEF DumpAnnounce
  <1>2. kind_announce(b) = IF ~p.ok THEN ShortHeader(b[1])
                           ELSE IF ~Announce(p).ok THEN Announce(p).lines
                           ELSE PrintAnnounce(p, Announce(p))
    BY DEF kind_announce
  <1>3. h.ok => p = h
    BY UnpackedShort
  <1>4. \A l : Exits(l).lines = l
    BY DEF Exits
  <1>5. Accepts(<< >>)
    BY AcceptedParts
  <1>6. CASE ~h.ok
    <2>1. DumpAnnounce(b).lines = h.lines
      BY <1>1, <1>4, <1>6
    <2>2. << >> \o h.lines = h.lines
      BY <1>6, HeaderFaults, EmptyEcho
    <2>3. ~p.ok => kind_announce(b) = << >> \o ShortHeader(b[1])
      <3>1. << >> \o ShortHeader(b[1]) = ShortHeader(b[1])
        <4>1. IsSeq(ShortHeader(b[1]))
          BY RejectionLines, NumbersOf DEF ShortHeader, Fault
        <4>2. QED
          BY <4>1, EmptyEcho
      <3>2. QED
        BY <1>2, <3>1
    <2>4. Beside(<< >> \o h.lines, kind_announce(b), b[1], {}, {})
      BY <1>5, <1>6, <2>3, BesideShort
    <2>5. QED
      BY <2>1, <2>2, <2>4
  <1>7. CASE h.ok /\ ~a.ok
    <2>1. DumpAnnounce(b).lines = a.lines /\ kind_announce(b) = a.lines
      BY <1>1, <1>2, <1>3, <1>4, <1>7
    <2>2. \E n : a.lines = ShortPayload(h, n)
      BY <1>7 DEF Announce
    <2>3. Refuses(a.lines, "short-payload")
      BY <2>2, FaultsRefuse
    <2>4. QED
      BY <2>1, <2>3 DEF Beside
  <1>8. CASE h.ok /\ a.ok
    <2>1. DumpAnnounce(b).lines = read /\ kind_announce(b) = read
      BY <1>1, <1>2, <1>3, <1>4, <1>8
    <2>2. Accepts(read)
      <3> HIDE DEF h, a
      <3> DEFINE id == Sha256(a.public_key, ADDRLEN)
                 expected == Sha256(Cat(<<a.name_hash, id>>), ADDRLEN)
                 signed == Cat(<<h.destination_hash, a.public_key, a.name_hash,
                                 a.random_hash, a.ratchet, a.app_data>>)
                 t == <<Field("public_key", Hex(a.public_key)),
                        Field("name_hash", Hex(a.name_hash)),
                        Field("random_hash", Hex(a.random_hash)),
                        Field("ratchet", Hex(a.ratchet)),
                        Field("signature", Hex(a.signature)),
                        Field("app_data", Hex(a.app_data)),
                        Field("identity_hash", Hex(id)),
                        Field("expected_hash", Hex(expected)),
                        Field("destination_match", Equal(h.destination_hash, expected)),
                        Field("signed_data", Hex(signed)),
                        Field("signature_valid", Verifies(a.signer, a.signature, signed))>>
      <3>1. read = PrintHeader(h) \o t
        BY DEF PrintAnnounce
      <3> HIDE DEF id, expected, signed
      <3>2. Len(t) = 11 /\ t = [i \in 1..11 |-> t[i]]
        OBVIOUS
      <3>3. /\ t[1].name = "public_key" /\ t[2].name = "name_hash" /\ t[3].name = "random_hash"
            /\ t[4].name = "ratchet" /\ t[5].name = "signature" /\ t[6].name = "app_data"
            /\ t[7].name = "identity_hash" /\ t[8].name = "expected_hash"
            /\ t[9].name = "destination_match" /\ t[10].name = "signed_data"
            /\ t[11].name = "signature_valid"
        BY DEF Field
      <3> HIDE DEF t
      <3>4. \A i \in 1..11 : t[i].name # "invalid"
        <4>1. \A i \in 1..11 : i \in {1, 2, 3, 4, 5, 6, 7, 8, 9, 10, 11}
          OBVIOUS
        <4>2. \A i \in {1, 2, 3, 4, 5, 6, 7, 8, 9, 10, 11} : t[i].name # "invalid"
          BY <3>3
        <4>3. QED
          BY <4>1, <4>2
      <3>5. Accepts(t)
        <4>1. IsSeq(t) /\ Names(t) = {t[i].name : i \in 1..11}
          BY <3>2, FieldsOf, ZenonT(30)
        <4>2. QED
          BY <3>4, <4>1 DEF Accepts
      <3>6. QED
        BY <3>1, <3>5, AcceptedParts, RefusesBehind
    <2>3. QED
      BY <2>1, <2>2, BesideSame
  <1>9. QED
    BY <1>6, <1>7, <1>8
LEMMA AcceptedFour ==
  ASSUME NEW x, NEW l, NEW y, NEW m, NEW z, NEW n, NEW w, NEW o,
         x # "invalid", y # "invalid", z # "invalid", w # "invalid"
  PROVE  Accepts(<<Field(x, l), Field(y, m), Field(z, n), Field(w, o)>>)
  <1>1. Names(<<Field(x, l), Field(y, m), Field(z, n), Field(w, o)>>)
          = {Field(x, l).name, Field(y, m).name, Field(z, n).name, Field(w, o).name}
    BY NamesOfFew
  <1>2. "invalid" \notin {Field(x, l).name, Field(y, m).name, Field(z, n).name, Field(w, o).name}
    BY FieldParts
  <1>3. QED
    BY <1>1, <1>2, TuplesAreSeqs DEF Accepts

LEMMA LinkRequestBeside ==
  ASSUME NEW b, IsLine(b[1])
  PROVE  Beside(DumpLinkRequest(b).lines, kind_linkrequest(b), b[1], {}, {})
  <1> DEFINE h == Header(b[1])
             p == Unpacked(b[1])
             signalled == h.payload_len = ECPUBSIZE + SIGNALLEN
             fault == NeitherLength(h, "accepted_length", ECPUBSIZE,
                                    "signalled_length", ECPUBSIZE + SIGNALLEN)
             keys == <<Field("x25519_public", Hex(Payload(h, 0, KEYHALF))),
                       Field("ed25519_public", Hex(Payload(h, KEYHALF, KEYHALF)))>>
             bytes == IF signalled THEN Payload(h, ECPUBSIZE, SIGNALLEN) ELSE << >>
             said == <<Field("link_id", Hex(LinkId(b[1], h)))>>
             all == PrintHeader(h) \o keys \o PrintSignalling(bytes) \o said
  <1>1. DumpLinkRequest(b) = IF ~h.ok THEN Exits(h.lines)
                             ELSE IF ~signalled /\ h.payload_len # ECPUBSIZE THEN Exits(fault)
                             ELSE Exits(all)
    BY DEF DumpLinkRequest
  <1>2. \A l : Exits(l).lines = l
    BY DEF Exits
  <1>3. CASE ~h.ok
    <2>1. DumpLinkRequest(b).lines = << >> \o h.lines
      <3>1. DumpLinkRequest(b).lines = h.lines
        BY <1>1, <1>2, <1>3
      <3>2. QED
        BY <1>3, <3>1, HeaderFaults, EmptyEcho
    <2>2. ~p.ok => kind_linkrequest(b) = << >> \o ShortHeader(b[1])
      <3>1. IsSeq(ShortHeader(b[1]))
        BY RejectionLines, NumbersOf DEF ShortHeader, Fault
      <3>2. << >> \o ShortHeader(b[1]) = ShortHeader(b[1])
        BY <3>1, EmptyEcho
      <3>3. QED
        BY <3>2 DEF kind_linkrequest
    <2>3. QED
      BY <1>3, <2>1, <2>2, AcceptedParts, BesideShort
  <1>4. CASE h.ok
    <2>1. p = h
      BY <1>4, UnpackedShort
    <2>2. h.at \in Nat /\ h.payload_len \in Nat
      BY <1>4, HeaderPlaces
    <2>3. CASE ~signalled /\ h.payload_len # ECPUBSIZE
      <3>1. DumpLinkRequest(b).lines = fault
        BY <1>1, <1>2, <1>4, <2>3
      <3>2. kind_linkrequest(b) = fault
        BY <1>4, <2>1, <2>3 DEF kind_linkrequest
      <3>3. Refuses(fault, "invalid-length")
        BY FaultsRefuse
      <3>4. QED
        BY <3>1, <3>2, <3>3 DEF Beside
    <2>4. CASE signalled \/ h.payload_len = ECPUBSIZE
      <3>1. DumpLinkRequest(b).lines = all
        BY <1>1, <1>2, <1>4, <2>4
      <3>2. h.payload_len >= 64 /\ (signalled => h.payload_len = 67)
        BY <2>4 DEF ECPUBSIZE, SIGNALLEN
      <3>3. /\ Mid(h, 0, KEYHALF) = Payload(h, 0, KEYHALF)
            /\ Mid(h, KEYHALF, KEYHALF) = Payload(h, KEYHALF, KEYHALF)
        BY <2>2, <3>2, MidIsPayload DEF KEYHALF
      <3>4. signalled => Behind(h, ECPUBSIZE) = Payload(h, ECPUBSIZE, SIGNALLEN)
        <4>1. ASSUME signalled
              PROVE  Behind(h, 64) = Payload(h, 64, h.payload_len - 64) /\ h.payload_len - 64 = 3
          BY <2>2, <3>2, <4>1, MidIsPayload
        <4>2. QED
          BY <4>1 DEF ECPUBSIZE, SIGNALLEN
      <3>5. (IF signalled THEN Behind(h, ECPUBSIZE) ELSE << >>) = bytes
        BY <3>4
      <3>6. kind_linkrequest(b)
              = PrintHeader(h)
                \o <<Field("x25519_public", Hex(Mid(h, 0, KEYHALF))),
                     Field("ed25519_public", Hex(Mid(h, KEYHALF, KEYHALF)))>>
                \o PrintSignalling(IF signalled THEN Behind(h, ECPUBSIZE) ELSE << >>)
                \o said
        BY ONLY <1>4, <2>1, <2>4 DEF kind_linkrequest, p
      <3>7. kind_linkrequest(b) = all
        BY ONLY <3>3, <3>5, <3>6
      <3>8. Accepts(all)
        <4>1. /\ Accepts(PrintHeader(h)) /\ Accepts(keys) /\ Accepts(PrintSignalling(bytes))
              /\ Accepts(said)
          BY AcceptedParts
        <4> DEFINE signalling == PrintSignalling(bytes)
        <4> HIDE DEF h, keys, bytes, said, signalling
        <4>2. Accepts(signalling)
          BY <4>1 DEF signalling
        <4>3. Accepts(PrintHeader(h) \o keys \o signalling \o said)
          BY <4>1, <4>2, RefusesBehind
        <4>4. QED
          BY <4>3 DEF signalling
      <3>9. QED
        BY <3>1, <3>7, <3>8, BesideSame
    <2>5. QED
      BY <2>3, <2>4
  <1>5. QED
    BY <1>3, <1>4

LEMMA LinkProofBeside ==
  ASSUME NEW b, IsLine(b[1]), IsLine(b[3]), b[2].len = KEYSIZE, Header(b[1]).ok
  PROVE  Beside(DumpLinkProof(b).lines, kind_linkproof(b), b[3], {}, {})
  <1> DEFINE rh == Header(b[1])
             h  == Header(b[3])
             p  == Unpacked(b[3])
             id == LinkId(b[1], rh)
             short == SIGLEN + KEYHALF
             signalled == h.payload_len = short + SIGNALLEN
             signer == At(b[2], KEYHALF, KEYHALF)
             sig == Payload(h, 0, SIGLEN)
             x25519 == Payload(h, SIGLEN, KEYHALF)
             bytes == IF signalled THEN Payload(h, short, SIGNALLEN) ELSE << >>
             echo == <<Field("link_request", Hex(Whole(b[1]))),
                       Field("signer_public", Hex(Whole(b[2])))>>
             four(g, i, s, x) == <<Field("link_id", Hex(i)),
                       Field("link_id_match", Equal(g.destination_hash, i)),
                       Field("signature", Hex(s)), Field("x25519_public", Hex(x))>>
             last(i, s, x, t) == <<Field("signer_ed25519", Hex(signer)),
                       Field("signed_data", Hex(Cat(<<i, x, signer, t>>))),
                       Field("signature_valid", Verifies(signer, s, Cat(<<i, x, signer, t>>)))>>
             said(g, i, s, x, t) == echo \o PrintHeader(g) \o four(g, i, s, x)
                                    \o PrintSignalling(t) \o last(i, s, x, t)
             fault(g) == NeitherLength(g, "accepted_length", short, "signalled_length", short + SIGNALLEN)
  <1>1. DumpLinkProof(b) =
          IF ~h.ok THEN Exits(echo \o h.lines)
          ELSE IF ~signalled /\ h.payload_len # short THEN Exits(echo \o fault(h))
          ELSE Exits(said(h, id, sig, x25519, bytes))
    BY DEF DumpLinkProof, Rejected
  <1>2. kind_linkproof(b) =
          IF ~p.ok THEN echo \o ShortHeader(b[3])
          ELSE IF ~(p.payload_len = short + SIGNALLEN) /\ p.payload_len # short
               THEN echo \o fault(p)
          ELSE said(p, LinkId(b[1], Unpacked(b[1])), Mid(p, 0, SIGLEN), Mid(p, SIGLEN, KEYHALF),
                    IF p.payload_len = short + SIGNALLEN THEN Behind(p, short) ELSE << >>)
    BY DEF kind_linkproof
  <1>3. \A l : Exits(l).lines = l
    BY DEF Exits
  <1>4. Unpacked(b[1]) = rh
    BY UnpackedShort
  <1>5. Accepts(echo)
    BY AcceptedParts
  <1>6. CASE ~h.ok
    <2>1. DumpLinkProof(b).lines = echo \o h.lines
      BY <1>1, <1>3, <1>6
    <2>2. ~p.ok => kind_linkproof(b) = echo \o ShortHeader(b[3])
      BY <1>2
    <2>3. QED
      BY <1>5, <1>6, <2>1, <2>2, BesideShort
  <1>7. CASE h.ok
    <2>1. p = h
      BY <1>7, UnpackedShort
    <2>2. h.at \in Nat /\ h.payload_len \in Nat
      BY <1>7, HeaderPlaces
    <2>3. CASE ~signalled /\ h.payload_len # short
      <3>1. DumpLinkProof(b).lines = echo \o fault(h)
        BY <1>1, <1>3, <1>7, <2>3
      <3>2. kind_linkproof(b) = echo \o fault(h)
        BY <1>2, <1>7, <2>1, <2>3
      <3>3. Refuses(fault(h), "invalid-length")
        BY FaultsRefuse
      <3>4. QED
        BY <1>5, <3>1, <3>2, <3>3, BesideRefused
    <2>4. CASE signalled \/ h.payload_len = short
      <3>1. DumpLinkProof(b).lines = said(h, id, sig, x25519, bytes)
        BY <1>1, <1>3, <1>7, <2>4
      <3>2. h.payload_len >= 96 /\ (signalled => h.payload_len = 99) /\ short = 96
        BY <2>4 DEF SIGLEN, KEYHALF, SIGNALLEN
      <3>3. Mid(h, 0, SIGLEN) = sig /\ Mid(h, SIGLEN, KEYHALF) = x25519
        BY <2>2, <3>2, MidIsPayload DEF SIGLEN, KEYHALF
      <3>4. signalled => Behind(h, short) = Payload(h, short, SIGNALLEN)
        <4>1. ASSUME signalled
              PROVE  Behind(h, 96) = Payload(h, 96, h.payload_len - 96) /\ h.payload_len - 96 = 3
          BY <2>2, <3>2, <4>1, MidIsPayload
        <4>2. QED
          BY <3>2, <4>1 DEF SIGNALLEN
      <3>5. (IF signalled THEN Behind(h, short) ELSE << >>) = bytes
        BY <3>4
      <3>6. kind_linkproof(b) = said(h, id, Mid(h, 0, SIGLEN), Mid(h, SIGLEN, KEYHALF),
                                     IF signalled THEN Behind(h, short) ELSE << >>)
        <4> HIDE DEF said, fault, short, h, p, rh
        <4>1. QED
          BY <1>2, <1>4, <1>7, <2>1, <2>4, SMTT(30)
      <3>7. kind_linkproof(b) = said(h, id, sig, x25519, bytes)
        BY ONLY <3>3, <3>5, <3>6
      <3>8. Accepts(said(h, id, sig, x25519, bytes))
        <4> DEFINE f == four(h, id, sig, x25519)
                   l == last(id, sig, x25519, bytes)
                   s == PrintSignalling(bytes)
        <4>1. Accepts(PrintHeader(h)) /\ Accepts(s) /\ Accepts(f) /\ Accepts(l)
          BY AcceptedParts, AcceptedFour
        <4> HIDE DEF f, l, s, echo, h
        <4>2. Accepts(echo \o PrintHeader(h) \o f \o s \o l)
          BY <1>5, <4>1, RefusesBehind
        <4>3. QED
          BY <4>2 DEF f, l, s
      <3>9. QED
        BY <3>1, <3>7, <3>8, BesideSame
    <2>5. QED
      BY <2>3, <2>4
  <1>8. QED
    BY <1>6, <1>7
LEMMA SeqsAgree ==
  ASSUME NEW s, NEW t, IsSeq(s), IsSeq(t), Len(s) = Len(t), \A i \in 1..Len(s) : s[i] = t[i]
  PROVE  s = t
  <1>1. PICK A, B : s \in Seq(A) /\ t \in Seq(B)
    BY DEF IsSeq
  <1>2. s = [i \in 1..Len(s) |-> s[i]] /\ t = [i \in 1..Len(t) |-> t[i]]
    BY <1>1
  <1>3. QED
    BY <1>2

LEMMA JoinsAssociate ==
  ASSUME NEW s, NEW t, NEW u, IsSeq(s), IsSeq(t), IsSeq(u)
  PROVE  s \o t \o u = s \o (t \o u) /\ IsSeq(s \o t) /\ IsSeq(t \o u)
  <1>1. PICK A, B, C : s \in Seq(A) /\ t \in Seq(B) /\ u \in Seq(C)
    BY DEF IsSeq
  <1>2. PICK S : S = A \union B \union C
    OBVIOUS
  <1>3. s \in Seq(S) /\ t \in Seq(S) /\ u \in Seq(S)
    BY <1>1, <1>2
  <1>4. \A x, y, z \in Seq(S) : (x \o y) \o z = x \o (y \o z)
    BY ConcatAssociative
  <1>5. \A x, y \in Seq(S) : x \o y \in Seq(S)
    OBVIOUS
  <1>6. QED
    BY <1>3, <1>4, <1>5 DEF IsSeq

LEMMA NineFields ==
  ASSUME NEW v1, NEW v2, NEW v3, NEW v4, NEW v5, NEW v6, NEW v7, NEW v8, NEW v9
  PROVE  <<v1, v2, v3, v4, v5, v6, v7, v8, v9>>
           = <<v1, v2, v3, v4>> \o <<v5, v6>> \o <<v7, v8, v9>>
  <1> DEFINE all == <<v1, v2, v3, v4, v5, v6, v7, v8, v9>>
             a == <<v1, v2, v3, v4>>
             c == <<v5, v6>>
             d == <<v7, v8, v9>>
  <1>1. Len(all) = 9 /\ IsSeq(all)
    <2>1. Len(all) = 9 /\ all = [i \in 1..9 |-> all[i]]
      OBVIOUS
    <2>2. QED
      BY <2>1, FieldsOf
  <1>2. Len(a) = 4 /\ Len(c) = 2 /\ Len(d) = 3 /\ IsSeq(a) /\ IsSeq(c) /\ IsSeq(d)
    BY TuplesAreSeqs
  <1>3. /\ all[1] = a[1] /\ all[2] = a[2] /\ all[3] = a[3] /\ all[4] = a[4]
        /\ all[5] = c[1] /\ all[6] = c[2] /\ all[7] = d[1] /\ all[8] = d[2] /\ all[9] = d[3]
    OBVIOUS
  <1> HIDE DEF all, a, c, d
  <1>4. /\ IsSeq(a \o c) /\ Len(a \o c) = 6
        /\ \A i \in 1..4 : (a \o c)[i] = a[i]
        /\ \A i \in 1..2 : (a \o c)[4 + i] = c[i]
    <2>1. /\ IsSeq(a \o c) /\ Len(a \o c) = Len(a) + Len(c)
          /\ \A i \in 1..Len(a) : (a \o c)[i] = a[i]
          /\ \A i \in 1..Len(c) : (a \o c)[Len(a) + i] = c[i]
      <3>1. IsSeq(a) /\ IsSeq(c)
        BY <1>2
      <3>2. QED
        BY <3>1, SeqsJoin
    <2>2. QED
      BY <1>2, <2>1
  <1> DEFINE ac == a \o c
  <1> HIDE DEF ac
  <1>5. /\ IsSeq(ac \o d) /\ Len(ac \o d) = 9
        /\ \A i \in 1..6 : (ac \o d)[i] = ac[i]
        /\ \A i \in 1..3 : (ac \o d)[6 + i] = d[i]
    <2>1. IsSeq(ac) /\ Len(ac) = 6
      BY <1>4 DEF ac
    <2>2. /\ IsSeq(ac \o d) /\ Len(ac \o d) = Len(ac) + Len(d)
          /\ \A i \in 1..Len(ac) : (ac \o d)[i] = ac[i]
          /\ \A i \in 1..Len(d) : (ac \o d)[Len(ac) + i] = d[i]
      <3>1. IsSeq(ac) /\ IsSeq(d)
        BY <1>2, <2>1
      <3>2. QED
        BY <3>1, SeqsJoin
    <2>3. QED
      BY <1>2, <2>1, <2>2, SMTT(30)
  <1>7. \A i \in {1, 2, 3, 4} : (ac \o d)[i] = a[i]
    BY <1>4, <1>5, SMTT(30) DEF ac
  <1>8. (ac \o d)[5] = c[1] /\ (ac \o d)[6] = c[2]
    <2>1. (a \o c)[4 + 1] = c[1] /\ (a \o c)[4 + 2] = c[2] /\ 4 + 1 = 5 /\ 4 + 2 = 6
      BY <1>4
    <2>2. ac[5] = c[1] /\ ac[6] = c[2]
      BY <2>1 DEF ac
    <2>3. 5 \in 1..6 /\ 6 \in 1..6
      OBVIOUS
    <2>4. QED
      BY <1>5, <2>2, <2>3
  <1>9. (ac \o d)[7] = d[1] /\ (ac \o d)[8] = d[2] /\ (ac \o d)[9] = d[3]
    <2>1. (ac \o d)[6 + 1] = d[1] /\ (ac \o d)[6 + 2] = d[2] /\ (ac \o d)[6 + 3] = d[3]
      BY <1>5
    <2>2. 6 + 1 = 7 /\ 6 + 2 = 8 /\ 6 + 3 = 9
      OBVIOUS
    <2>3. QED
      BY <2>1, <2>2
  <1>10. \A i \in {1, 2, 3, 4, 5, 6, 7, 8, 9} : all[i] = (ac \o d)[i]
    BY <1>3, <1>7, <1>8, <1>9
  <1>11. \A i \in 1..Len(all) : all[i] = (ac \o d)[i]
    <2>1. ASSUME NEW i \in 1..9 PROVE i \in {1, 2, 3, 4, 5, 6, 7, 8, 9}
      OBVIOUS
    <2>2. \A i \in 1..9 : all[i] = (ac \o d)[i]
      BY <1>10, <2>1
    <2>3. 1..Len(all) = 1..9
      BY <1>1
    <2>4. QED
      BY <2>2, <2>3
  <1>12. all = ac \o d
    BY <1>1, <1>5, <1>11, SeqsAgree
  <1>13. QED
    BY <1>12 DEF ac, all, a, c, d
(* A proof that is neither form is read as the shorter one, which is why    *)
(* this kind loses the rule about its length.                               *)
LEMMA ProofBeside ==
  ASSUME NEW b, IsLine(b[1]), IsLine(b[2]), IsLine(b[3]), Header(b[1]).ok,
         b[2].len = IF Bits(b[3].flags, 2, 2) = 3 THEN KEYHALF ELSE KEYSIZE
  PROVE  Beside(DumpProof(b).lines, kind_proof(b), b[3], {"invalid-length"}, {})
  <1> DEFINE ph == Header(b[1])
             h  == Header(b[3])
             p  == Unpacked(b[3])
             hash == PacketHash(b[1], ph)
             form(g) == g.payload_len = HASHLEN + SIGLEN
             on_link(g) == g.destination_type = 3
             echo == <<Field("proved_packet", Hex(Whole(b[1]))),
                       Field("signer_public", Hex(Whole(b[2])))>>
             signer(g) == IF on_link(g) THEN Whole(b[2]) ELSE At(b[2], KEYHALF, KEYHALF)
             f1(g) == Field("form", Word(IF form(g) THEN "explicit" ELSE "implicit"))
             f2 == Field("packet_hash", Hex(hash))
             f3(g, x) == Field("proof_hash", IF form(g) THEN Hex(x) ELSE Dash)
             f4(g, x) == Field("hash_match", IF form(g) THEN Equal(x, hash) ELSE Word("yes"))
             f5(g, a) == Field(IF on_link(g) THEN "link_id" ELSE "proof_destination", Hex(a))
             f6(g, a) == Field(IF on_link(g) THEN "link_id_match" ELSE "destination_match",
                               Equal(g.destination_hash, a))
             f7(s) == Field("signature", Hex(s))
             f8(g) == Field("signer_ed25519", Hex(signer(g)))
             f9(g, s) == Field("signature_valid", Verifies(signer(g), s, hash))
             x == Payload(h, 0, HASHLEN)
             s == IF form(h) THEN Payload(h, HASHLEN, SIGLEN) ELSE Payload(h, 0, SIGLEN)
             a == IF on_link(h) THEN ph.destination_hash ELSE PacketHashOf(b[1], ph, ADDRLEN)
             said == echo \o PrintHeader(h) \o <<f1(h), f2, f3(h, x), f4(h, x)>>
                     \o <<f5(h, a), f6(h, a)>> \o <<f7(s), f8(h), f9(h, s)>>
             fault == NeitherLength(h, "implicit_length", SIGLEN, "explicit_length", HASHLEN + SIGLEN)
  <1>1. b[2].len \in {KEYSIZE, KEYHALF}
    OBVIOUS
  <1>2. DumpProof(b) =
          IF ~h.ok THEN Exits(echo \o h.lines)
          ELSE IF ~form(h) /\ h.payload_len # SIGLEN THEN Exits(echo \o fault)
          ELSE IF b[2].len # (IF on_link(h) THEN KEYHALF ELSE KEYSIZE) THEN Fatal(echo)
          ELSE Exits(said)
    BY ONLY <1>1, Header(b[1]).ok DEF DumpProof, Rejected
  <1>3. Unpacked(b[1]) = ph
    BY UnpackedShort
  <1> DEFINE mx == Mid(p, 0, HASHLEN)
             ms == IF form(p) THEN Behind(p, HASHLEN) ELSE Behind(p, 0)
             ma == IF on_link(p) THEN ph.destination_hash ELSE Mem(hash[1].of, 0, ADDRLEN)
             nine(g, y, t, c) == <<f1(g), f2, f3(g, y), f4(g, y), f5(g, c), f6(g, c),
                                   f7(t), f8(g), f9(g, t)>>
  <1>4. kind_proof(b) = IF ~p.ok THEN echo \o ShortHeader(b[3])
                        ELSE echo \o PrintHeader(p) \o nine(p, mx, ms, ma)
    BY ONLY <1>3, Header(b[1]).ok DEF kind_proof
  <1>5. \A l : Exits(l).lines = l
    BY DEF Exits
  <1>6. Accepts(echo)
    BY AcceptedParts
  <1>7. CASE ~h.ok
    <2>1. DumpProof(b).lines = echo \o h.lines
      BY <1>2, <1>5, <1>7
    <2>2. ~p.ok => kind_proof(b) = echo \o ShortHeader(b[3])
      BY <1>4
    <2>3. QED
      BY <1>6, <1>7, <2>1, <2>2, BesideShort
  <1>8. CASE h.ok /\ ~form(h) /\ h.payload_len # SIGLEN
    <2>1. DumpProof(b).lines = echo \o fault
      BY <1>2, <1>5, <1>8
    <2>2. Refuses(fault, "invalid-length")
      BY FaultsRefuse
    <2>3. QED
      BY <1>6, <2>1, <2>2, BesideRefused
  <1>9. CASE h.ok /\ (form(h) \/ h.payload_len = SIGLEN)
    <2>1. p = h
      BY <1>9, UnpackedShort
    <2>2. h.at \in Nat /\ h.payload_len \in Nat
      BY <1>9, HeaderPlaces
    <2>3. b[2].len = (IF on_link(h) THEN KEYHALF ELSE KEYSIZE)
      BY <1>9, DestinationType, SMTT(30)
    <2>4. DumpProof(b).lines = said
      BY <1>2, <1>5, <1>9, <2>3, ZenonT(30)
    <2>5. h.payload_len \in {64, 96} /\ (form(h) <=> h.payload_len = 96)
      BY <1>9 DEF HASHLEN, SIGLEN
    <2>6. mx = x /\ ms = s /\ ma = a
      <3>1. mx = x
        BY <2>1, <2>2, <2>5, MidIsPayload DEF HASHLEN
      <3>2. ASSUME form(h) PROVE ms = s
        <4>1. Behind(h, 32) = Payload(h, 32, h.payload_len - 32) /\ h.payload_len - 32 = 64
          BY <2>2, <2>5, <3>2, MidIsPayload
        <4>2. QED
          BY <2>1, <3>2, <4>1 DEF HASHLEN, SIGLEN
      <3>3. ASSUME ~form(h) PROVE ms = s
        <4>1. Behind(h, 0) = Payload(h, 0, h.payload_len - 0) /\ h.payload_len - 0 = 64
          BY <2>2, <2>5, <3>3, MidIsPayload
        <4>2. QED
          BY <2>1, <3>3, <4>1 DEF SIGLEN
      <3>4. Mem(hash[1].of, 0, ADDRLEN) = PacketHashOf(b[1], ph, ADDRLEN)
        <4> DEFINE part == HashablePart(b[1], ph, HashableLen(b[1], ph))
        <4>1. hash = <<Piece(<<"sha256", <<part>>>>, 0, 32)>>
          BY DEF PacketHash, PacketHashOf, Sha256, Made, Mem, HASHLEN
        <4>2. PacketHashOf(b[1], ph, ADDRLEN) = Mem(<<"sha256", <<part>>>>, 0, ADDRLEN)
          BY DEF PacketHashOf, Sha256, Made
        <4> HIDE DEF part, hash, ph
        <4>3. hash[1].of = <<"sha256", <<part>>>>
          BY <4>1 DEF Piece
        <4>4. QED
          BY <4>2, <4>3
      <3>5. QED
        BY <2>1, <3>1, <3>2, <3>3, <3>4
    <2>7. kind_proof(b) = echo \o PrintHeader(h) \o nine(h, x, s, a)
      <3> HIDE DEF mx, ms, ma, x, s, a, nine, echo, p, h
      <3>1. QED
        BY <1>4, <1>9, <2>1, <2>6 DEF p, h
    <2> DEFINE t1 == <<f1(h), f2, f3(h, x), f4(h, x)>>
               t2 == <<f5(h, a), f6(h, a)>>
               t3 == <<f7(s), f8(h), f9(h, s)>>
    <2>8. Accepts(PrintHeader(h)) /\ Accepts(t1) /\ Accepts(t2) /\ Accepts(t3)
      BY AcceptedParts, AcceptedFour
    <2>9. nine(h, x, s, a) = t1 \o t2 \o t3
      <3> DEFINE v1 == f1(h)
                 v2 == f2
                 v3 == f3(h, x)
                 v4 == f4(h, x)
                 v5 == f5(h, a)
                 v6 == f6(h, a)
                 v7 == f7(s)
                 v8 == f8(h)
                 v9 == f9(h, s)
      <3> HIDE DEF v1, v2, v3, v4, v5, v6, v7, v8, v9
      <3>1. <<v1, v2, v3, v4, v5, v6, v7, v8, v9>> = <<v1, v2, v3, v4>> \o <<v5, v6>> \o <<v7, v8, v9>>
        BY NineFields
      <3>2. QED
        BY <3>1 DEF v1, v2, v3, v4, v5, v6, v7, v8, v9
    <2> DEFINE hl == PrintHeader(h)
    <2> HIDE DEF t1, t2, t3, echo, hl
    <2>10. said = echo \o hl \o t1 \o t2 \o t3
      BY DEF t1, t2, t3, hl
    <2>11. kind_proof(b) = echo \o hl \o (t1 \o t2 \o t3)
      BY <2>7, <2>9 DEF hl
    <2>12. Accepts(hl)
      BY <2>8 DEF hl
    <2>13. (echo \o hl \o t1 \o t2 \o t3) = echo \o hl \o (t1 \o t2 \o t3)
      <3>1. IsSeq(echo) /\ IsSeq(hl) /\ IsSeq(t1) /\ IsSeq(t2) /\ IsSeq(t3)
        BY <1>6, <2>8, <2>12 DEF Accepts
      <3>2. QED
        BY <3>1, JoinsAssociate, SMTT(30)
    <2>14. Accepts(echo \o hl \o t1 \o t2 \o t3)
      BY <1>6, <2>8, <2>12, RefusesBehind
    <2> HIDE DEF said, h
    <2>15. DumpProof(b).lines = echo \o hl \o t1 \o t2 \o t3 /\ kind_proof(b) = echo \o hl \o t1 \o t2 \o t3
      BY <2>4, <2>10, <2>11, <2>13
    <2>16. QED
      BY <2>14, <2>15, BesideSame
  <1>10. QED
    BY <1>7, <1>8, <1>9
-----------------------------------------------------------------------------
(* A token, cut by the harness and opened by the library. *)
LEMMA InPlaceOne ==
  ASSUME NEW x, NEW l, NEW l2, NEW free, l \in {l2, Dash} \/ x \in free
  PROVE  InPlace(<<Field(x, l)>>, <<Field(x, l2)>>, free)
  <1> DEFINE m == Field(x, l)
             e == Field(x, l2)
  <1>1. m.name = x /\ e.name = x /\ m.value = l /\ e.value = l2
    BY FieldParts
  <1> HIDE DEF m, e
  <1>2. IsSeq(<<m>>) /\ IsSeq(<<e>>) /\ Len(<<m>>) = 1 /\ Len(<<e>>) = 1
    BY TuplesAreSeqs
  <1>3. \A i \in 1..1 : i = 1
    OBVIOUS
  <1>4. <<m>>[1] = m /\ <<e>>[1] = e
    OBVIOUS
  <1>5. InPlace(<<m>>, <<e>>, free)
    BY <1>1, <1>2, <1>3, <1>4 DEF InPlace
  <1>6. QED
    BY <1>5 DEF m, e

LEMMA ThreeFields ==
  ASSUME NEW x, NEW y, NEW z
  PROVE  <<x, y, z>> = <<x>> \o <<y, z>> /\ <<y, z>> = <<y>> \o <<z>>
  <1> DEFINE S == {x, y, z}
  <1>1. <<x>> \in Seq(S) /\ <<y>> \in Seq(S) /\ <<z>> \in Seq(S) /\ <<y, z>> \in Seq(S)
    OBVIOUS
  <1>2. <<y, z>> = <<y>> \o <<z>>
    <2>1. y \in S /\ z \in S
      OBVIOUS
    <2> HIDE DEF S
    <2>2. QED
      BY <2>1, Pairs
  <1>4. <<x, y, z>> = <<x>> \o <<y, z>>
    <2> DEFINE a == <<x>>
               c == <<y, z>>
               all == <<x, y, z>>
    <2>1. /\ Len(all) = 3 /\ IsSeq(all) /\ IsSeq(a) /\ IsSeq(c) /\ Len(a) = 1 /\ Len(c) = 2
          /\ all[1] = a[1] /\ all[2] = c[1] /\ all[3] = c[2]
      BY TuplesAreSeqs
    <2> HIDE DEF a, c, all
    <2>2. /\ IsSeq(a \o c) /\ Len(a \o c) = Len(a) + Len(c)
          /\ \A i \in 1..Len(a) : (a \o c)[i] = a[i]
          /\ \A i \in 1..Len(c) : (a \o c)[Len(a) + i] = c[i]
      <3>1. IsSeq(a) /\ IsSeq(c)
        BY <2>1
      <3>2. QED
        BY <3>1, SeqsJoin
    <2>3. (a \o c)[1] = a[1] /\ (a \o c)[1 + 1] = c[1] /\ (a \o c)[1 + 2] = c[2]
      BY <2>1, <2>2
    <2>4. 1 + 1 = 2 /\ 1 + 2 = 3
      OBVIOUS
    <2>5. \A i \in {1, 2, 3} : all[i] = (a \o c)[i]
      BY <2>1, <2>3, <2>4
    <2>6. ASSUME NEW i \in 1..3 PROVE i \in {1, 2, 3}
      OBVIOUS
    <2>7. Len(a \o c) = 3 /\ 1..Len(all) = 1..3
      BY <2>1, <2>2
    <2>8. \A i \in 1..Len(all) : all[i] = (a \o c)[i]
      BY <2>5, <2>6, <2>7
    <2>9. all = a \o c
      BY <2>1, <2>2, <2>7, <2>8, SeqsAgree
    <2>10. QED
      BY <2>9 DEF a, c, all
  <1>5. QED
    BY <1>2, <1>4

LEMMA InPlaceThree ==
  ASSUME NEW x, NEW l, NEW l2, NEW y, NEW m, NEW m2, NEW z, NEW n, NEW n2, NEW free,
         l \in {l2, Dash} \/ x \in free, m \in {m2, Dash} \/ y \in free,
         n \in {n2, Dash} \/ z \in free
  PROVE  InPlace(<<Field(x, l), Field(y, m), Field(z, n)>>,
                 <<Field(x, l2), Field(y, m2), Field(z, n2)>>, free)
  <1>1. /\ InPlace(<<Field(x, l)>>, <<Field(x, l2)>>, free)
        /\ InPlace(<<Field(y, m)>>, <<Field(y, m2)>>, free)
        /\ InPlace(<<Field(z, n)>>, <<Field(z, n2)>>, free)
    BY InPlaceOne
  <1> DEFINE a == Field(x, l)
             a2 == Field(x, l2)
             c == Field(y, m)
             c2 == Field(y, m2)
             d == Field(z, n)
             d2 == Field(z, n2)
  <1> HIDE DEF a, a2, c, c2, d, d2
  <1>2. /\ InPlace(<<a>>, <<a2>>, free) /\ InPlace(<<c>>, <<c2>>, free)
        /\ InPlace(<<d>>, <<d2>>, free)
    BY <1>1 DEF a, a2, c, c2, d, d2
  <1>3. InPlace(<<c, d>>, <<c2, d2>>, free)
    <2>1. InPlace(<<c>> \o <<d>>, <<c2>> \o <<d2>>, free)
      BY <1>2, InPlaceJoin
    <2>2. <<c, d>> = <<c>> \o <<d>>
      BY ThreeFields
    <2>3. <<c2, d2>> = <<c2>> \o <<d2>>
      BY ThreeFields
    <2>4. QED
      BY <2>1, <2>2, <2>3
  <1>4. InPlace(<<a, c, d>>, <<a2, c2, d2>>, free)
    <2>1. InPlace(<<a>> \o <<c, d>>, <<a2>> \o <<c2, d2>>, free)
      BY <1>2, <1>3, InPlaceJoin
    <2>2. <<a, c, d>> = <<a>> \o <<c, d>>
      BY ThreeFields
    <2>3. <<a2, c2, d2>> = <<a2>> \o <<c2, d2>>
      BY ThreeFields
    <2>4. QED
      BY <2>1, <2>2, <2>3
  <1>5. QED
    BY <1>4 DEF a, a2, c, c2, d, d2


(* what the library is told of the hmac, when it agreed on the same secret *)
LEMMA SeesTheSame ==
  ASSUME NEW sees \in Sees, sees.agreed
  PROVE  [sees EXCEPT !.mac_ok = sees.agreed /\ sees.mac_ok] = sees
  <1> DEFINE both == sees.agreed /\ sees.mac_ok
  <1>1. both = sees.mac_ok
    BY DEF Sees
  <1> HIDE DEF both
  <1>2. [sees EXCEPT !.mac_ok = both] = sees
    BY <1>1 DEF Sees
  <1>3. QED
    BY <1>2 DEF both

LEMMA TokensBeside ==
  ASSUME NEW h, h.at \in Nat, h.payload_len \in Nat, NEW from \in Nat,
         from + TOKEN_OVERHEAD <= h.payload_len, NEW sees \in Sees,
         NEW private, NEW public, NEW salt
  PROVE  LET kc == Agreed(private, public, salt, sees)
             tc == TokenOpen(h, from, h.payload_len - from, kc.key, sees)
             km == KeysOf(private, public, salt)
             tm == Opened(h, from, km, sees)
         IN  /\ PrintToken(Cut(h, from)) = PrintToken(tc)
             /\ sees.agreed => km = kc /\ tm = tc
             /\ ~sees.agreed => ~tm.mac_ok /\ ~tc.opened
             /\ ~tc.mac_ok => ~tc.opened
  <1> DEFINE kc == Agreed(private, public, salt, sees)
             size == h.payload_len - from
             tc == TokenOpen(h, from, size, kc.key, sees)
             km == KeysOf(private, public, salt)
             tm == Opened(h, from, km, sees)
  <1>1. size \in Nat /\ size >= 48 /\ from + size = h.payload_len
    BY DEF TOKEN_OVERHEAD, IVLEN, MACLEN
  <1> HIDE DEF size
  <1>2. PrintToken(Cut(h, from)) = PrintToken(tc)
    <2>1. tc.iv = Payload(h, from, 16) /\ tc.ciphertext = Payload(h, from + 16, size - 48)
          /\ tc.mac = Payload(h, from + size - 32, 32)
      BY DEF TokenOpen, IVLEN, TOKEN_OVERHEAD, MACLEN
    <2>2. Mid(h, from, 16) = Payload(h, from, 16)
      BY <1>1, MidIsPayload
    <2>3. Mid(h, from + 16, size - 48) = Payload(h, from + 16, size - 48)
      BY <1>1, MidIsPayload
    <2>4. Behind(h, from + size - 32) = Payload(h, from + size - 32, 32)
      <3>1. /\ from + size - 32 \in Nat /\ h.payload_len - (from + size - 32) = 32
            /\ (from + size - 32) + 0 <= h.payload_len
        BY <1>1
      <3>2. Behind(h, from + size - 32)
              = Payload(h, from + size - 32, h.payload_len - (from + size - 32))
        BY <3>1, MidIsPayload
      <3>3. QED
        BY <3>1, <3>2
    <2>5. Cut(h, from) = [iv |-> Mid(h, from, 16), ciphertext |-> Mid(h, from + 16, size - 48),
                          mac |-> Behind(h, from + size - 32)]
      BY <1>1 DEF Cut, WrappingCut, IVLEN, TOKEN_OVERHEAD, MACLEN, size
    <2> HIDE DEF tc
    <2>6. /\ Cut(h, from).iv = tc.iv /\ Cut(h, from).ciphertext = tc.ciphertext
          /\ Cut(h, from).mac = tc.mac
      BY <2>1, <2>2, <2>3, <2>4, <2>5
    <2>7. QED
      BY <2>6 DEF PrintToken
  <1>3. sees.agreed => km = kc /\ tm = tc
    <2>1. ASSUME sees.agreed PROVE km = kc
      BY <2>1 DEF KeysOf, Agreed
    <2>2. ASSUME sees.agreed PROVE tm = tc
      <3>1. [sees EXCEPT !.mac_ok = sees.agreed /\ sees.mac_ok] = sees
        BY <2>2, SeesTheSame
      <3>2. tm = TokenOpen(h, from, h.payload_len - from, km.key,
                           [sees EXCEPT !.mac_ok = sees.agreed /\ sees.mac_ok])
        BY DEF Opened
      <3> HIDE DEF tm, km, kc
      <3>3. km = kc
        BY <2>1, <2>2
      <3>4. QED
        BY <3>1, <3>2, <3>3 DEF size
    <2>3. QED
      BY <2>1, <2>2
  <1>4. ~tc.mac_ok => ~tc.opened
    <2>1. tc.opened = (tc.ptlen >= 0) /\ (~tc.mac_ok => tc.ptlen = -1)
      BY DEF TokenOpen
    <2> HIDE DEF tc
    <2>2. ASSUME ~tc.mac_ok PROVE ~tc.opened
      <3>1. tc.ptlen = -1
        BY <2>1, <2>2
      <3>2. ~(tc.ptlen >= 0)
        BY <3>1
      <3>3. QED
        BY <2>1, <3>2
    <2>3. QED
      BY <2>2
  <1>5. ~sees.agreed => ~tm.mac_ok /\ ~tc.opened
    <2>1. ASSUME ~sees.agreed PROVE ~tm.mac_ok
      <3> DEFINE told == [sees EXCEPT !.mac_ok = sees.agreed /\ sees.mac_ok]
      <3>1. told.mac_ok = (sees.agreed /\ sees.mac_ok)
        BY DEF Sees
      <3>2. ~told.mac_ok
        BY <2>1, <3>1
      <3>3. tm = TokenOpen(h, from, h.payload_len - from, km.key, told)
        BY DEF Opened
      <3> HIDE DEF told, km
      <3>4. tm.mac_ok = (km.key # NoKey /\ told.mac_ok)
        BY <3>3 DEF TokenOpen
      <3>5. QED
        BY <3>2, <3>4
    <2>2. ASSUME ~sees.agreed PROVE ~tc.mac_ok
      <3>1. kc.key = NoKey
        BY <2>2 DEF Agreed
      <3> HIDE DEF kc
      <3>2. QED
        BY <3>1 DEF TokenOpen
    <2>3. QED
      BY <1>4, <2>1, <2>2
  <1>6. QED
    BY <1>2, <1>3, <1>4, <1>5 DEF size
LEMMA KeyLinesBeside ==
  ASSUME NEW km, NEW kc, NEW free,
         km = kc \/ {"shared_key", "signing_key", "encryption_key"} \subseteq free
  PROVE  InPlace(PrintKeys(km), PrintKeys(kc), free)
  <1> DEFINE half(k, i) == IF k.key = NoKey THEN Dash ELSE Hex(k.key[i])
             lines(k) == <<Field("shared_key", Hex(k.shared)), Field("signing_key", half(k, 1)),
                           Field("encryption_key", half(k, 2))>>
  <1>1. PrintKeys(km) = lines(km) /\ PrintKeys(kc) = lines(kc)
    BY DEF PrintKeys
  <1>2. /\ Hex(km.shared) \in {Hex(kc.shared), Dash} \/ "shared_key" \in free
        /\ half(km, 1) \in {half(kc, 1), Dash} \/ "signing_key" \in free
        /\ half(km, 2) \in {half(kc, 2), Dash} \/ "encryption_key" \in free
    <2>1. CASE km = kc
      BY <2>1
    <2>2. CASE {"shared_key", "signing_key", "encryption_key"} \subseteq free
      BY <2>2
    <2>3. QED
      BY <2>1, <2>2
  <1> HIDE DEF half
  <1>3. InPlace(lines(km), lines(kc), free)
    BY <1>2, InPlaceThree
  <1>4. QED
    BY <1>1, <1>3

LEMMA PlaintextAccepted ==
  ASSUME NEW t
  PROVE  Accepts(PrintPlaintext(t)) /\ Accepts(PrintToken(t))
  BY AcceptedParts DEF PrintPlaintext, PrintToken

LEMMA KeyLinesAccepted ==
  ASSUME NEW k
  PROVE  Accepts(PrintKeys(k))
  BY AcceptedParts DEF PrintKeys

LEMMA EncryptedBeside ==
  ASSUME NEW b, IsLine(b[1]), IsLine(b[2]), IsLine(b[3]), b[1].len = KEYSIZE,
         b[2].len \in {0, RATCHETLEN}, NEW sees \in Sees, NEW free,
         ~sees.agreed => {"shared_key", "signing_key", "encryption_key", "hmac_valid"} \subseteq free,
         sees.agreed => "plaintext_length" \in free
  PROVE  Beside(DumpEncrypted(b, sees).lines, kind_encrypted(b, sees), b[3], {}, free)
  <1> DEFINE echo == <<Field("recipient_private", Hex(Whole(b[1]))),
                       Field("ratchet_private", Hex(Whole(b[2])))>>
             h  == Header(b[3])
             p  == Unpacked(b[3])
             id == Sha256(Cat(PublicPair(b[1])), ADDRLEN)
             agree == IF b[2].absent THEN At(b[1], 0, KEYHALF) ELSE Whole(b[2])
             ephemeral == Payload(h, 0, KEYHALF)
             kc == Agreed(agree, ephemeral, id, sees)
             tc == TokenOpen(h, KEYHALF, h.payload_len - KEYHALF, kc.key, sees)
             own == <<Field("identity_hash", Hex(id)),
                      Field("ratchet_public", IF b[2].absent THEN Dash
                                              ELSE Hex(PublicOf(Whole(b[2]), KEYHALF)))>>
             first(x) == <<Field("ephemeral_public", Hex(x))>>
             token == PrintToken(tc)
             keys == PrintKeys(kc)
             plain == PrintPlaintext(tc)
             fault(g) == ShortPayload(g, KEYHALF + TOKEN_OVERHEAD)
             said == echo \o PrintHeader(h) \o first(ephemeral) \o token \o own \o keys \o plain
  <1>1. (b[2].absent <=> b[2].len = 0) /\ b[2].len \in {0, KEYHALF}
    BY DEF IsLine, RATCHETLEN, KEYHALF
  <1>2. DumpEncrypted(b, sees) =
          IF ~h.ok THEN Exits(echo \o h.lines)
          ELSE IF h.payload_len < KEYHALF + TOKEN_OVERHEAD THEN Exits(echo \o fault(h))
          ELSE Exits(said)
    <2>1. ~(b[1].len # KEYSIZE \/ (~b[2].absent /\ b[2].len # KEYHALF))
      BY <1>1
    <2>2. QED
      BY ONLY <2>1 DEF DumpEncrypted, Rejected
  <1> DEFINE km == KeysOf(agree, Mid(p, 0, KEYHALF), id)
             tm == Opened(p, KEYHALF, km, sees)
             read == tm.opened /\ b[2].absent
             verdict == PrintVerdict(tm, IF read THEN PrintPlain(tm.ptlen, Mem(tm.plain, 0, tm.ptlen))
                                         ELSE PrintPlain(0, << >>))
             printed == echo \o PrintHeader(p) \o first(Mid(p, 0, KEYHALF))
                        \o PrintToken(Cut(p, KEYHALF)) \o own \o PrintKeys(km) \o verdict
  <1>3. kind_encrypted(b, sees) =
          IF ~p.ok THEN echo \o ShortHeader(b[3])
          ELSE IF p.payload_len < KEYHALF + TOKEN_OVERHEAD THEN echo \o fault(p)
          ELSE IF tm.mac_ok /\ b[2].absent /\ tm.ciphertext = << >> THEN Crashed
          ELSE printed
    <2>1. (IF b[2].absent THEN Dash ELSE Hex(Whole(b[2]))) = Hex(Whole(b[2]))
      BY WholeLine DEF Dash
    <2>2. QED
      BY ONLY <2>1 DEF kind_encrypted
  <1>4. \A l : Exits(l).lines = l
    BY DEF Exits
  <1>5. Accepts(echo) /\ Accepts(own) /\ Accepts(first(ephemeral)) /\ Accepts(PrintHeader(h))
    BY AcceptedParts
  <1>6. CASE ~h.ok
    <2>1. DumpEncrypted(b, sees).lines = echo \o h.lines
      BY <1>2, <1>4, <1>6
    <2>2. ~p.ok => kind_encrypted(b, sees) = echo \o ShortHeader(b[3])
      BY <1>3
    <2>3. QED
      BY <1>5, <1>6, <2>1, <2>2, BesideShort
  <1>7. CASE h.ok /\ h.payload_len < KEYHALF + TOKEN_OVERHEAD
    <2>1. p = h
      BY <1>7, UnpackedShort
    <2>2. DumpEncrypted(b, sees).lines = echo \o fault(h)
      BY <1>2, <1>4, <1>7
    <2>3. kind_encrypted(b, sees) = echo \o fault(h)
      BY <1>3, <1>7, <2>1
    <2>4. Refuses(fault(h), "short-payload")
      BY FaultsRefuse
    <2>5. QED
      BY <1>5, <2>2, <2>3, <2>4, BesideRefused
  <1>8. CASE h.ok /\ ~(h.payload_len < KEYHALF + TOKEN_OVERHEAD)
    <2>1. p = h
      BY <1>8, UnpackedShort
    <2>2. h.at \in Nat /\ h.payload_len \in Nat
      BY <1>8, HeaderPlaces
    <2>3. KEYHALF = 32 /\ TOKEN_OVERHEAD = 48 /\ KEYHALF + TOKEN_OVERHEAD <= h.payload_len
      BY <1>8, <2>2 DEF KEYHALF, TOKEN_OVERHEAD, IVLEN, MACLEN
    <2>4. DumpEncrypted(b, sees).lines = said
      BY <1>2, <1>4, <1>8, Zenon
    <2>5. kind_encrypted(b, sees) \in {Crashed, printed}
      <3> HIDE DEF printed, h, p, tm, echo, fault
      <3>1. p.ok /\ ~(p.payload_len < KEYHALF + TOKEN_OVERHEAD)
        BY <1>8, <2>1
      <3>2. QED
        BY <1>3, <3>1
    <2>6. Mid(p, 0, KEYHALF) = ephemeral
      BY <2>1, <2>2, <2>3, MidIsPayload
    <2>7. /\ PrintToken(Cut(p, KEYHALF)) = token
          /\ sees.agreed => km = kc /\ tm = tc
          /\ ~sees.agreed => ~tm.mac_ok /\ ~tc.opened
      <3> DEFINE k2 == KeysOf(agree, ephemeral, id)
                 t2 == Opened(h, KEYHALF, k2, sees)
      <3>1. /\ PrintToken(Cut(h, KEYHALF)) = token
            /\ sees.agreed => k2 = kc /\ t2 = tc
            /\ ~sees.agreed => ~t2.mac_ok /\ ~tc.opened
        <4> HIDE DEF h, agree, id, ephemeral
        <4>1. KEYHALF \in Nat
          BY <2>3
        <4>2. QED
          BY <2>2, <2>3, <4>1, TokensBeside
      <3>2. km = k2 /\ tm = t2
        BY <2>1, <2>6
      <3> HIDE DEF km, tm, kc, tc, k2, t2, token
      <3>3. QED
        BY <2>1, <3>1, <3>2
    <2>8. InPlace(PrintKeys(km), keys, free)
      <3> HIDE DEF km, kc
      <3>1. km = kc \/ {"shared_key", "signing_key", "encryption_key"} \subseteq free
        BY <2>7
      <3>2. QED
        BY <3>1, KeyLinesBeside
    <2>9. InPlace(verdict, plain, free)
      <3> DEFINE pl == IF ~tm.mac_ok THEN Dash
                       ELSE IF read THEN Decimal(tm.ptlen) ELSE Decimal(0)
                 pt == IF ~tm.mac_ok THEN Dash
                       ELSE IF read THEN Hex(Mem(tm.plain, 0, tm.ptlen)) ELSE Hex(<< >>)
                 hv == Field("hmac_valid", tm.verdict)
                 dl == IF tc.opened THEN Decimal(tc.ptlen) ELSE Dash
                 dt == IF tc.opened THEN Hex(Mem(tc.plain, 0, tc.ptlen)) ELSE Dash
      <3> HIDE DEF tm, tc, h, p, km, kc
      <3>1. verdict = <<hv>> \o <<Field("plaintext_length", pl), Field("plaintext", pt)>>
        BY DEF PrintVerdict, PrintPlain
      <3>2. plain = <<Field("hmac_valid", tc.verdict), Field("plaintext_length", dl), Field("plaintext", dt)>>
        BY DEF PrintPlaintext
      <3>3. tm.verdict \in {tc.verdict, Dash} \/ "hmac_valid" \in free
        BY <2>7
      <3>4. pl \in {dl, Dash} \/ "plaintext_length" \in free
        BY <2>7
      <3>5. pt \in {dt, Dash} \/ "plaintext" \in free
        BY <2>7 DEF Dash
      <3> DEFINE fl == Field("plaintext_length", pl)
                 ft == Field("plaintext", pt)
      <3>6. <<hv>> \o <<fl, ft>> = <<hv, fl, ft>>
        <4> HIDE DEF hv, fl, ft
        <4>1. QED
          BY ThreeFields
      <3> HIDE DEF pl, pt, dl, dt, verdict, plain
      <3>7. InPlace(<<hv, fl, ft>>, plain, free)
        BY <3>2, <3>3, <3>4, <3>5, InPlaceThree
      <3>8. verdict = <<hv, fl, ft>>
        BY <3>1, <3>6
      <3>9. QED
        BY <3>7, <3>8
    <2>10. Accepts(token) /\ Accepts(keys) /\ Accepts(plain)
      BY PlaintextAccepted, KeyLinesAccepted
    <2> DEFINE hl == PrintHeader(h)
               one == first(ephemeral)
               mkeys == PrintKeys(km)
               start == echo \o hl \o one \o token \o own
    <2>11. printed = echo \o hl \o one \o token \o own \o mkeys \o verdict
      <3> HIDE DEF echo, own, token, mkeys, verdict, ephemeral, p, h
      <3>1. PrintHeader(p) = hl /\ first(Mid(p, 0, KEYHALF)) = one
        BY <2>1, <2>6
      <3>2. QED
        BY <2>7, <3>1 DEF mkeys
    <2>12. Accepts(hl) /\ Accepts(one)
      BY <1>5
    <2> HIDE DEF echo, hl, one, token, own, keys, plain, mkeys, verdict
    <2>13. Accepts(start) /\ Accepts(start \o keys \o plain)
      BY <1>5, <2>10, <2>12, RefusesBehind
    <2>14. said = start \o keys \o plain /\ printed = start \o mkeys \o verdict
      BY <2>11 DEF hl, one
    <2> HIDE DEF start, said, printed
    <2>15. InPlace(start \o mkeys \o verdict, start \o keys \o plain, free)
      <3>1. InPlace(start, start, free)
        BY <2>13, InPlaceSame DEF Accepts
      <3>2. InPlace(mkeys, keys, free)
        BY <2>8 DEF mkeys
      <3>3. InPlace(start \o mkeys, start \o keys, free)
        BY <3>1, <3>2, InPlaceJoin
      <3>4. QED
        BY <2>9, <3>3, InPlaceJoin
    <2>16. QED
      BY <2>4, <2>5, <2>13, <2>14, <2>15 DEF Beside
  <1>9. QED
    BY <1>6, <1>7, <1>8

(* What stands behind the plaintext of a link packet: the library dashes    *)
(* what it has no reader for, and never what the decoder refuses.           *)
LEMMA ReadBeside ==
  ASSUME NEW context, NEW t, t.ptlen \in Nat, NEW link_id, NEW sees, NEW free, "body" \in free
  PROVE  LET e == AfterPlaintext(context, t, link_id, sees)
         IN  \/ \E rule \in {"short-plaintext", "identify-length"} : Refuses(e, rule)
             \/ Accepts(e) /\ InPlace(Read(context, t, link_id), e, free)
  <1> DEFINE need == IF context = "resource_req" THEN PartRequestNeeds(t, sees) ELSE Least(context)
             key  == PlainAt(t, 0, KEYSIZE)
             sig  == PlainAt(t, KEYSIZE, SIGLEN)
             signed == Cat(<<link_id, key>>)
             names == <<"msgtype", "sequence", "declared_length", "message">>
             dashes == [i \in 1..4 |-> Field(names[i], Dash)]
             channel == <<Field("msgtype", Hex(PlainAt(t, 0, 2))),
                          Field("sequence", <<"number", PlainAt(t, 2, 2)>>),
                          Field("declared_length", <<"number", PlainAt(t, 4, 2)>>),
                          Field("message", Hex(PlainAt(t, ENVELOPELEN, t.ptlen - ENVELOPELEN)))>>
             identity == <<Field("identity_public", Hex(key)),
                           Field("identity_hash", Hex(Sha256(key, ADDRLEN))),
                           Field("identity_signed", Hex(signed)),
                           Field("identity_valid", Verifies(PlainAt(t, KEYHALF, KEYHALF), sig, signed))>>
             long == Rejection("identify-length", <<Field("required_length", Decimal(KEYSIZE + SIGLEN))>>)
             advertised == <<Field("body", <<"ResourceAdvertisement::unpack", PlainAt(t, 0, t.ptlen)>>)>>
             dashed == <<Field("body", Dash)>>
             bodies == {"request", "response", "resource_adv", "resource_req", "resource_hmu",
                        "resource_icl", "resource_rcl"}
             exact == t.ptlen = KEYSIZE + SIGLEN
             e == AfterPlaintext(context, t, link_id, sees)
             m == Read(context, t, link_id)
  <1>1. e = CASE t.ptlen < need -> Short(need)
              [] t.ptlen >= need /\ context \in bodies -> Body(context, t)
              [] t.ptlen >= need /\ context = "channel" -> channel
              [] context = "link_identify" -> IF ~exact THEN long ELSE identity
              [] OTHER -> << >>
    BY DEF AfterPlaintext
  <1>2. m = CASE context = "channel" /\ HasEnvelope(t) -> dashes
              [] context = "resource_adv" -> advertised
              [] context \in Unread -> dashed
              [] context = "link_identify" /\ exact -> identity
              [] OTHER -> << >>
    BY DEF Read
  <1>3. Refuses(Short(need), "short-plaintext") /\ Refuses(long, "identify-length")
    <2>1. ASSUME NEW x, NEW rule, NEW n, x # "invalid"
          PROVE  Refuses(Rejection(rule, <<Field(x, Decimal(n))>>), rule)
      BY <2>1, TuplesAreSeqs, RejectionLines DEF Refuses
    <2>2. QED
      BY <2>1 DEF Short
  <1>4. Accepts(Body(context, t)) /\ Accepts(channel) /\ Accepts(identity) /\ Accepts(<< >>)
    BY AcceptedParts, AcceptedFour DEF Body
  <1>5. InPlace(advertised, Body(context, t), free) /\ InPlace(dashed, Body(context, t), free)
    BY InPlaceOne DEF Body
  <1>6. InPlace(identity, identity, free) /\ InPlace(<< >>, << >>, free)
    BY <1>4, InPlaceSame DEF Accepts
  <1>7. InPlace(dashes, channel, free)
    <2>1. /\ Len(channel) = 4 /\ channel[1].name = "msgtype" /\ channel[2].name = "sequence"
          /\ channel[3].name = "declared_length" /\ channel[4].name = "message"
      <3>1. /\ Field("msgtype", Hex(PlainAt(t, 0, 2))).name = "msgtype"
            /\ Field("sequence", <<"number", PlainAt(t, 2, 2)>>).name = "sequence"
            /\ Field("declared_length", <<"number", PlainAt(t, 4, 2)>>).name = "declared_length"
            /\ Field("message", Hex(PlainAt(t, ENVELOPELEN, t.ptlen - ENVELOPELEN))).name = "message"
        BY FieldParts
      <3>2. QED
        BY <3>1
    <2>2. \A i \in 1..4 : dashes[i].name = names[i] /\ dashes[i].value = Dash
      BY FieldParts
    <2>3. /\ names[1] = "msgtype" /\ names[2] = "sequence" /\ names[3] = "declared_length"
          /\ names[4] = "message"
      OBVIOUS
    <2>4. IsSeq(dashes) /\ Len(dashes) = 4
      <3>1. Len(dashes) = 4 /\ dashes = [i \in 1..4 |-> dashes[i]]
        OBVIOUS
      <3>2. QED
        BY <3>1, FieldsOf
    <2>5. IsSeq(channel)
      BY <1>4 DEF Accepts
    <2> HIDE DEF channel, dashes, names
    <2>6. \A i \in {1, 2, 3, 4} : dashes[i].name = channel[i].name
      BY <2>1, <2>2, <2>3
    <2>7. ASSUME NEW i \in 1..4 PROVE i \in {1, 2, 3, 4}
      OBVIOUS
    <2>8. QED
      BY <2>1, <2>2, <2>4, <2>5, <2>6, <2>7 DEF InPlace
  <1>8. /\ context = "channel" => need = 6
        /\ context \notin bodies \union {"channel"} => need = 0
        /\ context = "resource_adv" => need = 0
    BY DEF Least, ENVELOPELEN
  <1>9. HasEnvelope(t) <=> t.ptlen >= 6
    BY DEF HasEnvelope, ENVELOPELEN
  <1>10. Unread = bodies \ {"resource_adv"}
    BY DEF Unread
  <1> HIDE DEF need, dashes, channel, identity, long, advertised, dashed, e, m, exact
  <1>11. CASE context = "channel"
    <2>1. t.ptlen < 6 => e = Short(need)
      BY <1>1, <1>8, <1>11
    <2>2. ASSUME ~(t.ptlen < 6)
          PROVE  e = channel /\ m = dashes
      <3>1. t.ptlen >= need /\ ~(t.ptlen < need) /\ HasEnvelope(t) /\ context \notin bodies
        BY <1>8, <1>9, <1>11, <2>2
      <3>2. e = channel
        BY <1>1, <1>11, <3>1
      <3>3. m = dashes
        <4>1. context \notin Unread /\ context # "resource_adv" /\ context # "link_identify"
          BY <1>10, <1>11
        <4>2. QED
          BY <1>2, <1>11, <3>1, <4>1
      <3>4. QED
        BY <3>2, <3>3
    <2>3. QED
      BY <1>3, <1>4, <1>7, <2>1, <2>2 DEF e, m
  <1>12. CASE context = "resource_adv"
    <2>1. e = Body(context, t) /\ m = advertised
      <3>1. /\ t.ptlen >= need /\ ~(t.ptlen < need) /\ context \in bodies
            /\ ~(context = "channel")
        BY <1>8, <1>12
      <3>2. e = Body(context, t)
        BY <1>1, <3>1
      <3>3. m = advertised
        <4>1. context \notin Unread /\ context # "channel" /\ context # "link_identify"
          BY <1>10, <1>12
        <4>2. QED
          BY <1>2, <1>12, <4>1
      <3>4. QED
        BY <3>2, <3>3
    <2>2. QED
      BY <1>4, <1>5, <2>1 DEF e, m
  <1>13. CASE context \in Unread
    <2>1. m = dashed
      BY <1>2, <1>10, <1>13
    <2>2. e = Short(need) \/ e = Body(context, t)
      <3>1. context \in bodies
        BY <1>10, <1>13
      <3>2. need \in Nat
        BY DEF need, PartRequestNeeds, Least, HASHLEN, MAPHASHLEN, ENVELOPELEN
      <3>3. t.ptlen < need \/ t.ptlen >= need
        BY <3>2
      <3>4. QED
        BY <1>1, <3>1, <3>3
    <2>3. QED
      BY <1>3, <1>4, <1>5, <2>1, <2>2 DEF e, m
  <1>14. CASE context = "link_identify"
    <2>1. exact => e = identity /\ m = identity
      BY <1>1, <1>2, <1>8, <1>10, <1>14
    <2>2. ~exact => e = long
      BY <1>1, <1>8, <1>14
    <2>3. QED
      BY <1>3, <1>4, <1>6, <2>1, <2>2 DEF e, m
  <1>15. CASE context \notin bodies \union {"channel", "link_identify"}
    <2>1. e = << >> /\ m = << >>
      BY <1>1, <1>2, <1>8, <1>10, <1>15
    <2>2. QED
      BY <1>4, <1>6, <2>1 DEF e, m
  <1>16. QED
    BY <1>10, <1>11, <1>12, <1>13, <1>14, <1>15

(* a plaintext that was opened has a length *)
LEMMA OpenedLength ==
  ASSUME NEW h, NEW from, NEW len \in Nat, NEW key, NEW sees \in Sees
  PROVE  TokenOpen(h, from, len, key, sees).opened
           => TokenOpen(h, from, len, key, sees).ptlen \in Nat
  <1> DEFINE ctlen == len - TOKEN_OVERHEAD
             t == TokenOpen(h, from, len, key, sees)
  <1>1. /\ t.opened => t.ptlen >= 0
        /\ t.ptlen \in {-1, Unpad(ctlen, sees.pad)}
    BY DEF TokenOpen
  <1>2. ctlen \in Int /\ sees.pad \in Int
    BY DEF TOKEN_OVERHEAD, IVLEN, MACLEN, Sees
  <1>3. t.ptlen \in Int
    BY <1>1, <1>2 DEF Unpad
  <1> HIDE DEF t
  <1>4. t.opened => t.ptlen \in Nat
    BY <1>1, <1>3
  <1>5. QED
    BY <1>4 DEF t

LEMMA LinkDataBeside ==
  ASSUME NEW b, IsLine(b[1]), IsLine(b[3]), b[2].len = KEYHALF, Header(b[1]).ok,
         Header(b[1]).payload_len >= ECPUBSIZE, NEW sees \in Sees, NEW free, "body" \in free,
         ~sees.agreed => {"shared_key", "signing_key", "encryption_key", "hmac_valid"} \subseteq free
  PROVE  Beside(DumpLinkData(b, sees).lines, kind_linkdata(b, sees), b[3], {"short-payload"}, free)
  <1> DEFINE rh == Header(b[1])
             h  == Header(b[3])
             p  == Unpacked(b[3])
             name(g) == IF g.context \in DOMAIN ContextName THEN ContextName[g.context] ELSE "unnamed"
             context == name(h)
             id == LinkId(b[1], rh)
             kc == Agreed(Whole(b[2]), Payload(rh, 0, KEYHALF), id, sees)
             tc == TokenOpen(h, 0, h.payload_len, kc.key, sees)
             km == KeysOf(Whole(b[2]), Mid(rh, 0, KEYHALF), id)
             tm == Opened(p, 0, km, sees)
             echo == <<Field("link_request", Hex(Whole(b[1]))),
                       Field("responder_private", Hex(Whole(b[2])))>>
             two(g) == <<Field("link_id", Hex(id)),
                         Field("link_id_match", Equal(g.destination_hash, id))>>
             linked(g) == echo \o PrintHeader(g) \o two(g)
             clear(g, bytes) == <<Field("encrypted", Word("no")),
                                  Field("plaintext_length", Decimal(g.payload_len)),
                                  Field("plaintext", Hex(bytes))>>
             sealed == <<Field("encrypted", Word("yes"))>>
             open == <<Field("encrypted", Word("no"))>>
             token == PrintToken(tc)
             keys == PrintKeys(kc)
             plain == PrintPlaintext(tc)
             after == IF tc.opened THEN AfterPlaintext(context, tc, id, sees) ELSE << >>
             start == linked(h) \o sealed \o token
             said == start \o keys \o plain \o after
             read == PrintPlain(tm.ptlen, Mem(tm.plain, 0, tm.ptlen)) \o Read(context, tm, id)
             verdict == PrintVerdict(tm, read)
             mkeys == PrintKeys(km)
             fault == ShortPayload(h, TOKEN_OVERHEAD)
  <1>1. DumpLinkData(b, sees) =
          IF ~h.ok THEN Exits(echo \o h.lines)
          ELSE IF context \in Unencrypted
               THEN Exits(linked(h) \o clear(h, Payload(h, 0, h.payload_len)))
          ELSE IF h.payload_len < TOKEN_OVERHEAD THEN Exits((linked(h) \o sealed) \o fault)
          ELSE Exits(said)
    <2>1. ~(b[2].len # KEYHALF) /\ rh.ok
      BY SMTT(30)
    <2>2. QED
      BY ONLY <2>1 DEF DumpLinkData, Rejected
  <1>2. kind_linkdata(b, sees) =
          IF ~p.ok THEN echo \o ShortHeader(b[3])
          ELSE IF name(p) \in Unencrypted
               THEN linked(p) \o open \o PrintPlain(p.payload_len, Behind(p, 0))
          ELSE IF tm.mac_ok /\ tm.ciphertext = << >> THEN Crashed
          ELSE IF tm.mac_ok /\ ~tm.opened THEN Thrown
          ELSE linked(p) \o sealed \o PrintToken(Cut(p, 0)) \o mkeys
               \o PrintVerdict(tm, PrintPlain(tm.ptlen, Mem(tm.plain, 0, tm.ptlen))
                                   \o Read(name(p), tm, id))
    <2> DEFINE of(r) == LinkId(b[1], r)
               mk(r) == KeysOf(Whole(b[2]), Mid(r, 0, KEYHALF), of(r))
               mt(r) == Opened(p, 0, mk(r), sees)
               made(r) ==
                 IF ~p.ok THEN echo \o ShortHeader(b[3])
                 ELSE IF name(p) \in Unencrypted
                      THEN echo \o PrintHeader(p)
                           \o <<Field("link_id", Hex(of(r))),
                                Field("link_id_match", Equal(p.destination_hash, of(r)))>>
                           \o open \o PrintPlain(p.payload_len, Behind(p, 0))
                 ELSE IF mt(r).mac_ok /\ mt(r).ciphertext = << >> THEN Crashed
                 ELSE IF mt(r).mac_ok /\ ~mt(r).opened THEN Thrown
                 ELSE echo \o PrintHeader(p)
                      \o <<Field("link_id", Hex(of(r))),
                           Field("link_id_match", Equal(p.destination_hash, of(r)))>>
                      \o sealed \o PrintToken(Cut(p, 0)) \o PrintKeys(mk(r))
                      \o PrintVerdict(mt(r), PrintPlain(mt(r).ptlen, Mem(mt(r).plain, 0, mt(r).ptlen))
                                             \o Read(name(p), mt(r), of(r)))
    <2>1. Unpacked(b[1]) = rh
      BY UnpackedShort
    <2>2. kind_linkdata(b, sees) = made(Unpacked(b[1]))
      BY ONLY DEF kind_linkdata
    <2>3. made(Unpacked(b[1])) = made(rh)
      <3> HIDE DEF made, rh
      <3>1. QED
        BY <2>1
    <2>4. QED
      BY ONLY <2>2, <2>3
  <1>3. \A l : Exits(l).lines = l
    BY DEF Exits
  <1>4. Accepts(echo) /\ Accepts(two(h)) /\ Accepts(sealed) /\ Accepts(PrintHeader(h))
        /\ Accepts(clear(h, Payload(h, 0, h.payload_len)))
    BY AcceptedParts
  <1>5. Accepts(linked(h))
    <2> DEFINE hl == PrintHeader(h)
               t2 == two(h)
    <2> HIDE DEF echo, hl, t2
    <2>1. Accepts(echo \o hl \o t2)
      BY <1>4, RefusesBehind DEF hl, t2
    <2>2. QED
      BY <2>1 DEF hl, t2
  <1>6. CASE ~h.ok
    <2>1. DumpLinkData(b, sees).lines = echo \o h.lines
      BY <1>1, <1>3, <1>6
    <2>2. ~p.ok => kind_linkdata(b, sees) = echo \o ShortHeader(b[3])
      BY <1>2
    <2>3. QED
      BY <1>4, <1>6, <2>1, <2>2, BesideShort
  <1>7. h.ok => p = h /\ h.at \in Nat /\ h.payload_len \in Nat
    BY UnpackedShort, HeaderPlaces
  <1>8. CASE h.ok /\ context \in Unencrypted
    <2>1. DumpLinkData(b, sees).lines = linked(h) \o clear(h, Payload(h, 0, h.payload_len))
      BY <1>1, <1>3, <1>8
    <2>2. Behind(h, 0) = Payload(h, 0, h.payload_len)
      <3>1. h.payload_len - 0 = h.payload_len
        BY <1>7, <1>8
      <3>2. QED
        BY <1>7, <1>8, <3>1, MidIsPayload
    <2>3. kind_linkdata(b, sees) = linked(h) \o clear(h, Payload(h, 0, h.payload_len))
      <3> DEFINE bytes == Payload(h, 0, h.payload_len)
                 one == Field("encrypted", Word("no"))
                 pl == Field("plaintext_length", Decimal(h.payload_len))
                 pt == Field("plaintext", Hex(bytes))
                 l == linked(h)
      <3>1. kind_linkdata(b, sees) = linked(p) \o open \o PrintPlain(p.payload_len, Behind(p, 0))
        <4>1. p.ok /\ name(p) \in Unencrypted
          BY <1>7, <1>8
        <4> HIDE DEF p, h, linked, open
        <4>2. QED
          BY <1>2, <4>1
      <3>2. kind_linkdata(b, sees) = l \o <<one>> \o <<pl, pt>>
        BY <1>7, <1>8, <2>2, <3>1 DEF PrintPlain
      <3>3. clear(h, bytes) = <<one, pl, pt>>
        OBVIOUS
      <3> HIDE DEF one, pl, pt, l, clear
      <3>4. IsSeq(l) /\ IsSeq(<<one>>) /\ IsSeq(<<pl, pt>>)
        BY <1>5, TuplesAreSeqs DEF Accepts, l
      <3>5. l \o <<one>> \o <<pl, pt>> = l \o (<<one>> \o <<pl, pt>>)
        <4> DEFINE o == <<one>>
                   q == <<pl, pt>>
        <4> HIDE DEF o, q
        <4>1. l \o o \o q = l \o (o \o q)
          BY <3>4, JoinsAssociate DEF o, q
        <4>2. QED
          BY <4>1 DEF o, q
      <3>6. <<one>> \o <<pl, pt>> = <<one, pl, pt>>
        BY ThreeFields
      <3>7. QED
        BY <3>2, <3>3, <3>5, <3>6 DEF l
    <2> DEFINE l == linked(h)
               c == clear(h, Payload(h, 0, h.payload_len))
    <2> HIDE DEF l, c
    <2>4. Accepts(l \o c)
      BY <1>4, <1>5, RefusesBehind DEF l, c
    <2>5. QED
      BY <2>1, <2>3, <2>4, BesideSame DEF l, c
  <1>9. CASE h.ok /\ context \notin Unencrypted /\ h.payload_len < TOKEN_OVERHEAD
    <2>1. DumpLinkData(b, sees).lines = (linked(h) \o sealed) \o fault
      BY <1>1, <1>3, <1>9
    <2> DEFINE l == linked(h)
    <2> HIDE DEF l, sealed, fault
    <2>2. Accepts(l \o sealed)
      BY <1>4, <1>5, RefusesBehind DEF l
    <2>3. Refuses(fault, "short-payload")
      BY FaultsRefuse DEF fault
    <2>4. QED
      BY <2>1, <2>2, <2>3, BesideRefused DEF l
  <1>10. CASE h.ok /\ context \notin Unencrypted /\ ~(h.payload_len < TOKEN_OVERHEAD)
    <2>1. p = h /\ h.at \in Nat /\ h.payload_len \in Nat /\ context = name(p)
      BY <1>7, <1>10
    <2>2. 0 + TOKEN_OVERHEAD <= h.payload_len /\ h.payload_len - 0 = h.payload_len
      BY <1>10, <2>1, SMTT(30) DEF TOKEN_OVERHEAD, IVLEN, MACLEN
    <2>3. DumpLinkData(b, sees).lines = said
      BY <1>1, <1>3, <1>10, Zenon
    <2>4. Mid(rh, 0, KEYHALF) = Payload(rh, 0, KEYHALF)
      <3>1. 0 + KEYHALF <= rh.payload_len /\ KEYHALF \in Nat /\ rh.at \in Nat /\ rh.payload_len \in Nat
        BY HeaderPlaces DEF KEYHALF, ECPUBSIZE
      <3>2. QED
        BY <3>1, MidIsPayload
    <2>5. /\ PrintToken(Cut(p, 0)) = token
          /\ sees.agreed => km = kc /\ tm = tc
          /\ ~sees.agreed => ~tm.mac_ok /\ ~tc.opened
          /\ ~tc.mac_ok => ~tc.opened
      <3> DEFINE public == Payload(rh, 0, KEYHALF)
                 k1 == Agreed(Whole(b[2]), public, id, sees)
                 t1 == TokenOpen(h, 0, h.payload_len - 0, k1.key, sees)
                 k2 == KeysOf(Whole(b[2]), public, id)
                 t2 == Opened(h, 0, k2, sees)
      <3>1. /\ PrintToken(Cut(h, 0)) = PrintToken(t1)
            /\ sees.agreed => k2 = k1 /\ t2 = t1
            /\ ~sees.agreed => ~t2.mac_ok /\ ~t1.opened
            /\ ~t1.mac_ok => ~t1.opened
        <4> HIDE DEF h, public, id, rh
        <4>1. QED
          BY <2>1, <2>2, TokensBeside
      <3>2. km = k2 /\ tm = t2 /\ kc = k1 /\ tc = t1
        BY <2>1, <2>2, <2>4
      <3> HIDE DEF km, tm, kc, tc, k1, t1, k2, t2
      <3>3. QED
        BY <2>1, <3>1, <3>2
    <2>6. InPlace(mkeys, keys, free)
      <3> HIDE DEF km, kc
      <3>1. km = kc \/ {"shared_key", "signing_key", "encryption_key"} \subseteq free
        BY <2>5
      <3>2. QED
        BY <3>1, KeyLinesBeside
    <2>7. Accepts(token) /\ Accepts(keys) /\ Accepts(plain)
      BY PlaintextAccepted, KeyLinesAccepted
    <2>8. Accepts(start)
      <3> DEFINE l == linked(h)
      <3> HIDE DEF l, sealed, token
      <3>1. Accepts(l \o sealed \o token)
        BY <1>4, <1>5, <2>7, RefusesBehind DEF l
      <3>2. QED
        BY <3>1 DEF l
    <2>9. kind_linkdata(b, sees) \in {Crashed, Thrown, start \o mkeys \o verdict}
          /\ (tm.mac_ok /\ ~tm.opened => kind_linkdata(b, sees) \in {Crashed, Thrown})
      <3> HIDE DEF tm, tc, km, kc, mkeys, h, p, echo, id, sealed, token
      <3>1. p.ok /\ name(p) = context /\ ~(name(p) \in Unencrypted)
        BY <1>10, <2>1
      <3>2. kind_linkdata(b, sees) =
              IF tm.mac_ok /\ tm.ciphertext = << >> THEN Crashed
              ELSE IF tm.mac_ok /\ ~tm.opened THEN Thrown
              ELSE linked(p) \o sealed \o PrintToken(Cut(p, 0)) \o mkeys
                   \o PrintVerdict(tm, PrintPlain(tm.ptlen, Mem(tm.plain, 0, tm.ptlen))
                                       \o Read(name(p), tm, id))
        BY <1>2, <3>1
      <3>3. linked(p) = linked(h)
        BY <2>1
      <3>4. linked(p) \o sealed \o PrintToken(Cut(p, 0)) \o mkeys
              \o PrintVerdict(tm, PrintPlain(tm.ptlen, Mem(tm.plain, 0, tm.ptlen))
                                  \o Read(name(p), tm, id))
              = start \o mkeys \o verdict
        <4> HIDE DEF linked
        <4>1. QED
          BY <2>5, <3>1, <3>3
      <3>5. QED
        BY <3>2, <3>4
    <2> DEFINE three == <<Field("plaintext_length", Dash), Field("plaintext", Dash)>>
               hv == Field("hmac_valid", tm.verdict)
    <2>10. ~tm.mac_ok => verdict = <<hv>> \o three
      BY DEF PrintVerdict
    <2>11. CASE ~tc.opened
      <3>1. after = << >>
        BY <2>11
      <3>2. sees.agreed => tm = tc
        BY <2>5
      <3>3. InPlace(start, start, free) /\ InPlace(<< >>, << >>, free)
        <4>1. Accepts(<< >>)
          BY AcceptedParts
        <4> HIDE DEF start
        <4>2. QED
          BY <2>8, <4>1, InPlaceSame DEF Accepts
      <3>4. said = start \o keys \o plain
        <4> HIDE DEF start, keys, plain, after
        <4>1. IsSeq(start \o keys \o plain)
          BY <2>7, <2>8, RefusesBehind DEF Accepts
        <4>2. start \o keys \o plain \o << >> = start \o keys \o plain
          <5> DEFINE x == start \o keys \o plain
          <5> HIDE DEF x
          <5>1. x \o << >> = x
            BY <4>1 DEF IsSeq, x
          <5>2. QED
            BY <5>1 DEF x
        <4>3. QED
          BY <3>1, <4>2
      <3>5. Accepts(start \o keys \o plain)
        <4> HIDE DEF start, keys, plain
        <4>1. QED
          BY <2>7, <2>8, RefusesBehind
      <3>6. CASE tm.mac_ok
        <4>1. ~tm.opened
          <5> HIDE DEF tm, tc
          <5>1. QED
            BY <2>5, <2>11, <3>2, <3>6, SMTT(30)
        <4>2. kind_linkdata(b, sees) \in {Crashed, Thrown}
          <5> HIDE DEF tm
          <5>1. QED
            BY <2>9, <3>6, <4>1
        <4> HIDE DEF start, keys, plain, said
        <4>3. QED
          BY <2>3, <3>4, <3>5, <4>2 DEF Beside
      <3>7. CASE ~tm.mac_ok
        <4>1. InPlace(verdict, plain, free)
          <5> DEFINE nl == Field("plaintext_length", Dash)
                     nt == Field("plaintext", Dash)
          <5>1. plain = <<Field("hmac_valid", tc.verdict), nl, nt>>
            BY <2>11 DEF PrintPlaintext
          <5>2. tm.verdict \in {tc.verdict, Dash} \/ "hmac_valid" \in free
            <6> HIDE DEF tm, tc
            <6>1. QED
              BY <3>2
          <5>3. <<hv>> \o three = <<hv, nl, nt>>
            <6> HIDE DEF hv, nl, nt
            <6>1. <<hv>> \o <<nl, nt>> = <<hv, nl, nt>>
              BY ThreeFields
            <6>2. QED
              BY <6>1 DEF nl, nt
          <5> HIDE DEF tm, tc, plain, verdict, three
          <5>4. InPlace(<<hv, nl, nt>>, plain, free)
            BY <5>1, <5>2, InPlaceThree
          <5>5. QED
            BY <2>10, <3>7, <5>3, <5>4
        <4> HIDE DEF start, keys, plain, said, mkeys, verdict
        <4>2. InPlace(start \o mkeys, start \o keys, free)
          BY <2>6, <3>3, InPlaceJoin
        <4>3. InPlace(start \o mkeys \o verdict, start \o keys \o plain, free)
          BY <4>1, <4>2, InPlaceJoin
        <4>4. QED
          BY <2>3, <2>9, <3>4, <3>5, <4>3 DEF Beside
      <3>8. QED
        BY <3>6, <3>7
    <2>12. CASE tc.opened
      <3>1. sees.agreed
        BY <2>5, <2>12
      <3>2. tm = tc /\ km = kc /\ tc.mac_ok
        <4> HIDE DEF tm, tc, km, kc
        <4>1. QED
          BY <2>5, <2>12, <3>1
      <3>3. after = AfterPlaintext(context, tc, id, sees)
        BY <2>12
      <3> DEFINE further == Read(context, tc, id)
                 pl == Field("plaintext_length", Decimal(tc.ptlen))
                 pt == Field("plaintext", Hex(Mem(tc.plain, 0, tc.ptlen)))
      <3>4. \/ \E rule \in {"short-plaintext", "identify-length"} : Refuses(after, rule)
            \/ Accepts(after) /\ InPlace(further, after, free)
        <4>1. tc.ptlen \in Nat
          <5>1. tc.opened => tc.ptlen \in Nat
            <6> HIDE DEF h, kc
            <6>1. QED
              BY <2>1, OpenedLength
          <5>2. QED
            BY <2>12, <5>1
        <4> HIDE DEF tc, context, id, after
        <4>2. QED
          BY <3>3, <4>1, ReadBeside
      <3>5. plain = <<Field("hmac_valid", tc.verdict), pl, pt>>
        BY <2>12 DEF PrintPlaintext
      <3>6. verdict = <<Field("hmac_valid", tc.verdict)>> \o (<<pl, pt>> \o further)
        <4> HIDE DEF tm, tc, context, id
        <4>1. QED
          BY <3>2, SMTT(30) DEF PrintVerdict, PrintPlain
      <3>7. start \o mkeys \o verdict = (start \o keys \o plain) \o further
            \/ ~(Accepts(after) /\ InPlace(further, after, free))
        <4> DEFINE one == Field("hmac_valid", tc.verdict)
                   sk == start \o keys
        <4>1. start \o mkeys = sk
          <5> HIDE DEF start, km, kc
          <5>1. QED
            BY <3>2
        <4>2. Accepts(sk)
          <5> HIDE DEF start, keys
          <5>1. QED
            BY <2>7, <2>8, RefusesBehind, SMTT(30)
        <4> HIDE DEF one, pl, pt, sk, further, after, verdict, mkeys
        <4>3. ASSUME Accepts(after), InPlace(further, after, free)
              PROVE  start \o mkeys \o verdict = (sk \o plain) \o further
          <5>1. IsSeq(further)
            BY <4>3 DEF InPlace
          <5>2. IsSeq(<<one>>) /\ IsSeq(<<pl, pt>>) /\ IsSeq(sk) /\ IsSeq(<<one, pl, pt>>)
            BY <4>2, TuplesAreSeqs DEF Accepts
          <5>3. verdict = (<<one>> \o <<pl, pt>>) \o further
            BY <3>6, <5>1, <5>2, JoinsAssociate DEF one
          <5>4. <<one>> \o <<pl, pt>> = <<one, pl, pt>>
            BY ThreeFields
          <5>5. plain = <<one, pl, pt>>
            BY <3>5 DEF one
          <5> DEFINE pp == <<one, pl, pt>>
          <5> HIDE DEF pp
          <5>6. sk \o (pp \o further) = (sk \o pp) \o further
            BY <5>1, <5>2, JoinsAssociate DEF pp
          <5>7. QED
            BY <4>1, <5>3, <5>4, <5>5, <5>6, Zenon DEF pp
        <4>4. QED
          BY <4>3, Zenon DEF sk
      <3> DEFINE front == start \o keys \o plain
      <3>8. Accepts(front)
        <4> HIDE DEF start, keys, plain
        <4>1. QED
          BY <2>7, <2>8, RefusesBehind
      <3>9. said = front \o after
        OBVIOUS
      <3> HIDE DEF front, said, after, further, mkeys, verdict, start
      <3>10. CASE \E rule \in {"short-plaintext", "identify-length"} : Refuses(after, rule)
        <4>1. PICK rule \in {"short-plaintext", "identify-length"} : Refuses(after, rule)
          BY <3>10
        <4>2. QED
          BY <2>3, <3>8, <3>9, <4>1, BesideRefused
      <3>11. CASE Accepts(after) /\ InPlace(further, after, free)
        <4>1. InPlace(front \o further, front \o after, free)
          BY <3>8, <3>11, InPlaceSame, InPlaceJoin DEF Accepts
        <4>2. start \o mkeys \o verdict = front \o further
          BY <3>7, <3>11 DEF front
        <4>3. Accepts(front \o after)
          BY <3>8, <3>11, RefusesBehind
        <4>4. QED
          BY <2>3, <2>9, <3>9, <4>1, <4>2, <4>3 DEF Beside
      <3>12. QED
        BY <3>4, <3>10, <3>11
    <2>13. QED
      BY <2>11, <2>12
  <1>11. QED
    BY <1>6, <1>8, <1>9, <1>10

(* The aspects of a name.  The library's scan finds a dot from where the    *)
(* last one left it: the same pieces the decoder counts its stops for.      *)
LEMMA DotsBefore ==
  ASSUME NEW b, NEW names, Joined(b, names), NEW i \in 1..Len(names)
  PROVE  /\ {d \in b.dots : d < names[i][1]} = Passed(b, names[i][2])
         /\ Cardinality({d \in b.dots : d < names[i][1]}) = i - 1
  <1> DEFINE n == Len(names)
  <1>1. /\ n \in Nat /\ n >= 1
        /\ \A j \in 1..n : names[j][1] \in Nat /\ names[j][2] \in Nat /\ names[j][1] <= names[j][2]
    BY JoinedParts
  <1>2. b.dots = {names[j][2] : j \in 1..(n - 1)} /\ Stops(b) = {names[j][2] : j \in 1..n}
    <2>1. b.dots = {names[j][2] : j \in 1..(n - 1)}
      BY DEF Joined
    <2>2. Stops(b) = {names[j][2] : j \in 1..n}
      BY StopsAreEnds
    <2>3. QED
      BY <2>1, <2>2
  <1>3. ASSUME NEW j \in 1..n, names[j][2] < names[i][2]
        PROVE  j \in 1..(n - 1) /\ names[j][2] < names[i][1]
    <2>1. j < i
      <3>1. ~(i < j)
        <4>1. i < j => names[i][2] < names[j][2]
          BY EndsRise
        <4>2. QED
          BY <1>1, <1>3, <4>1
      <3>2. i # j
        BY <1>1, <1>3
      <3>3. QED
        BY <1>1, <3>1, <3>2
    <2>2. i # 1 /\ names[i][1] = names[i - 1][2] + 1 /\ i - 1 \in 1..n
      BY <1>1, <2>1, JoinedParts
    <2>3. names[j][2] <= names[i - 1][2]
      <3>1. j < i - 1 => names[j][2] < names[i - 1][2]
        BY <2>2, EndsRise
      <3>2. j < i - 1 \/ j = i - 1
        BY <1>1, <2>1
      <3>3. QED
        BY <1>1, <2>2, <3>1, <3>2
    <2>4. QED
      BY <1>1, <2>1, <2>2, <2>3
  <1>4. \A d \in b.dots : d \in Nat /\ d \in Stops(b)
    BY <1>1, <1>2
  <1>5. \A d \in b.dots : d < names[i][1] => d < names[i][2]
    BY <1>1, <1>4
  <1>6. \A d \in Stops(b) : d < names[i][2] => d \in b.dots /\ d < names[i][1]
    BY <1>2, <1>3
  <1>7. {d \in b.dots : d < names[i][1]} = Passed(b, names[i][2])
    BY <1>4, <1>5, <1>6 DEF Passed
  <1>8. QED
    BY <1>7, PassedBefore

LEMMA FindsTheEnd ==
  ASSUME NEW b, NEW names, Joined(b, names), NEW i \in 1..Len(names)
  PROVE  find(b, names[i][1]) = names[i][2]
  <1> DEFINE n == Len(names)
             from == names[i][1]
             end == names[i][2]
             found == {d \in b.dots : d >= from}
  <1>1. /\ n \in Nat /\ n >= 1
        /\ \A j \in 1..n : names[j][1] \in Nat /\ names[j][2] \in Nat /\ names[j][1] <= names[j][2]
    BY JoinedParts
  <1>2. b.dots = {names[j][2] : j \in 1..(n - 1)} /\ Stops(b) = {names[j][2] : j \in 1..n}
        /\ b.len = names[n][2]
    <2>1. b.dots = {names[j][2] : j \in 1..(n - 1)} /\ b.len = names[n][2]
      BY DEF Joined
    <2>2. Stops(b) = {names[j][2] : j \in 1..n}
      BY StopsAreEnds
    <2>3. QED
      BY <2>1, <2>2
  <1>3. \A d \in b.dots : d \in Nat /\ d \in Stops(b)
    BY <1>1, <1>2
  <1>4. \A d \in found : end <= d
    <2>1. ASSUME NEW d \in b.dots, d < end PROVE d < from
      <3>1. {x \in b.dots : x < from} = Passed(b, end)
        BY DotsBefore
      <3>2. d \in Passed(b, end)
        BY <1>3, <2>1 DEF Passed
      <3> HIDE DEF from, end
      <3>3. d \in {x \in b.dots : x < from}
        BY <3>1, <3>2
      <3>4. QED
        BY <3>3
    <2>2. QED
      BY <1>1, <1>3, <2>1
  <1>5. CASE i = n
    <2>1. found = {}
      <3>1. ASSUME NEW j \in 1..(n - 1) PROVE names[j][2] < end
        <4>1. j \in 1..n /\ j < n /\ n \in 1..n
          BY <1>1
        <4>2. QED
          BY <1>5, <4>1, EndsRise
      <3>2. \A d \in b.dots : d < end
        BY <1>2, <3>1
      <3>3. QED
        BY <1>1, <1>3, <1>4, <3>2
    <2>2. QED
      BY <1>2, <1>5, <2>1 DEF find
  <1>6. CASE i # n
    <2>1. end \in found
      <3>1. i \in 1..(n - 1)
        BY <1>1, <1>6
      <3>2. QED
        BY <1>1, <1>2, <3>1
    <2>2. \A m \in found : (\A e \in found : m <= e) => m = end
      BY <1>1, <1>3, <1>4, <2>1
    <2>3. (CHOOSE d \in found : \A e \in found : d <= e) = end
      <3> HIDE DEF found, end
      <3>1. QED
        BY <1>4, <2>1, <2>2
    <2>4. QED
      BY <2>1, <2>3 DEF find
  <1>7. QED
    BY <1>5, <1>6

LEMMA AspectsAreComponents ==
  ASSUME NEW b, IsLine(b), NEW names, Joined(b, names)
  PROVE  /\ aspects(b) = Components(b)
         /\ Components(b) = [i \in 1..Len(names) |-> Components(b)[i]]
         /\ \A i \in 1..Len(names) : Components(b)[i].name # "invalid"
  <1> DEFINE n == Len(names)
             starts == {0} \union {d + 1 : d \in b.dots}
             ranked(s, i) == Cardinality({d \in b.dots : d < s}) = i - 1
             start(i) == CHOOSE s \in starts : ranked(s, i)
             piece(i) == At(b, start(i), find(b, start(i)) - start(i))
             field(i) == Field(IF i = 1 THEN "app_name" ELSE "aspect", Hex(piece(i)))
  <1>1. /\ n \in Nat /\ n >= 1
        /\ \A j \in 1..n : /\ names[j][1] \in Nat /\ names[j][2] \in Nat /\ names[j][1] <= names[j][2]
                           /\ names[j][1] = IF j = 1 THEN 0 ELSE names[j - 1][2] + 1
    BY JoinedParts
  <1>2. b.dots = {names[j][2] : j \in 1..(n - 1)} /\ b.len = names[n][2] /\ b.len \in Nat
    BY DEF Joined, IsLine
  <1>3. starts = {names[i][1] : i \in 1..n}
    <2>1. ASSUME NEW i \in 1..n PROVE names[i][1] \in starts
      <3>1. CASE i = 1
        BY <1>1, <3>1
      <3>2. CASE i # 1
        <4>1. i - 1 \in 1..(n - 1) /\ names[i][1] = names[i - 1][2] + 1
          BY <1>1, <3>2
        <4>2. names[i - 1][2] \in b.dots
          BY <1>2, <4>1
        <4>3. QED
          BY <4>1, <4>2
      <3>3. QED
        BY <3>1, <3>2
    <2>2. ASSUME NEW j \in 1..(n - 1) PROVE \E i \in 1..n : names[i][1] = names[j][2] + 1
      <3>1. j + 1 \in 1..n /\ j + 1 # 1 /\ (j + 1) - 1 = j
        BY <1>1
      <3>2. names[j + 1][1] = names[j][2] + 1
        BY <1>1, <3>1
      <3>3. QED
        BY <3>1, <3>2
    <2>3. 1 \in 1..n /\ names[1][1] = 0
      BY <1>1
    <2>4. \A s \in starts : \E i \in 1..n : names[i][1] = s
      BY <1>2, <2>2, <2>3
    <2>5. QED
      BY <2>1, <2>4
  <1>4. ASSUME NEW i \in 1..n PROVE start(i) = names[i][1]
    <2>1. names[i][1] \in starts /\ ranked(names[i][1], i)
      BY <1>3, DotsBefore
    <2>2. ASSUME NEW s \in starts, ranked(s, i) PROVE s = names[i][1]
      <3>1. PICK j \in 1..n : s = names[j][1]
        BY <1>3
      <3>2. Cardinality({d \in b.dots : d < names[j][1]}) = j - 1
        BY DotsBefore
      <3>3. j - 1 = i - 1
        BY <2>2, <3>1, <3>2
      <3>4. j = i
        BY <1>1, <3>3
      <3>5. QED
        BY <3>1, <3>4
    <2> HIDE DEF starts, ranked
    <2>3. QED
      BY <2>1, <2>2
  <1>5. ASSUME NEW i \in 1..n
        PROVE  field(i) = Components(b)[i] /\ Components(b)[i].name # "invalid"
    <2>1. start(i) = names[i][1] /\ find(b, names[i][1]) = names[i][2]
      BY <1>4, FindsTheEnd
    <2>2. names[i][2] <= b.len
      <3>1. i < n => names[i][2] < names[n][2]
        <4>1. n \in 1..n
          BY <1>1
        <4>2. QED
          BY <4>1, EndsRise
      <3>2. QED
        BY <1>1, <1>2, <3>1
    <2>3. Py(b, names[i][1], names[i][2]) = At(b, names[i][1], names[i][2] - names[i][1])
      BY <1>1, <1>2, <2>2, LineSlice
    <2>4. Components(b)[i] = Field(IF i = 1 THEN "app_name" ELSE "aspect",
                                   Hex(Py(b, names[i][1], names[i][2])))
      BY ComponentsAgree
    <2>5. field(i) = Components(b)[i]
      <3> HIDE DEF start
      <3>1. QED
        BY <2>1, <2>3, <2>4
    <2>6. Components(b)[i].name # "invalid"
      <3>1. Components(b)[i].name = IF i = 1 THEN "app_name" ELSE "aspect"
        BY <2>4, FieldParts, SMTT(30)
      <3>2. QED
        BY <3>1
    <2>7. QED
      BY <2>5, <2>6
  <1>6. Cardinality(b.dots) + 1 = n
    <2>1. b.dots = {d \in b.dots : d < names[n][1]}
      <3>1. ASSUME NEW j \in 1..(n - 1) PROVE names[j][2] < names[n][1]
        <4>1. j \in 1..n /\ n \in 1..n /\ j < n /\ n - 1 \in 1..n /\ n # 1
          BY <1>1
        <4>2. names[n][1] = names[n - 1][2] + 1 /\ names[n - 1][2] \in Nat /\ names[j][2] \in Nat
          BY <1>1, <4>1
        <4>3. j < n - 1 => names[j][2] < names[n - 1][2]
          BY <4>1, EndsRise
        <4>4. j < n - 1 \/ j = n - 1
          BY <1>1
        <4>5. QED
          BY <4>2, <4>3, <4>4
      <3>2. QED
        BY <1>2, <3>1
    <2>2. Cardinality({d \in b.dots : d < names[n][1]}) = n - 1
      <3>1. n \in 1..n
        BY <1>1
      <3>2. QED
        BY <3>1, DotsBefore
    <2> DEFINE all == {d \in b.dots : d < names[n][1]}
    <2> HIDE DEF all
    <2>3. Cardinality(all) + 1 = n
      BY <1>1, <2>2 DEF all
    <2>4. QED
      BY <2>1, <2>3, Zenon DEF all
  <1>7. aspects(b) = [i \in 1..n |-> field(i)]
    BY <1>6 DEF aspects
  <1>8. Components(b) = [i \in 1..n |-> Components(b)[i]]
    <2>1. Components(b) = [i \in 1..n |-> Field(IF i = 1 THEN "app_name" ELSE "aspect",
                                                Hex(Py(b, names[i][1], names[i][2])))]
      BY ComponentsAgree
    <2>2. QED
      BY <2>1
  <1> HIDE DEF field
  <1>9. aspects(b) = Components(b)
    BY <1>5, <1>7, <1>8
  <1>10. QED
    BY <1>5, <1>8, <1>9

(* A name is never refused, and where it has no dot the library hashes one. *)
LEMMA DestinationBeside ==
  ASSUME NEW b, IsLine(b[1]), IsLine(b[2]), b[2].len \in {0, ADDRLEN},
         NEW names, Joined(b[1], names), NEW packet, NEW lost, NEW free,
         b[1].dots = {} => {"name_hash", "destination_hash"} \subseteq free
  PROVE  Beside(DumpDestination(b).lines, kind_destination(b), packet, lost, free)
  <1> DEFINE one == <<Field("name", Hex(Whole(b[1])))>>
             parts == Components(b[1])
             hash(n) == Sha256(Cat(<<n, Whole(b[2])>>), ADDRLEN)
             own == IF b[2].absent THEN Dash ELSE Hex(Whole(b[2]))
             three(n) == <<Field("name_hash", Hex(n)), Field("identity_hash", Hex(Whole(b[2]))),
                           Field("destination_hash", Hex(hash(n)))>>
             theirs == Sha256(Whole(b[1]), NAMEHASHLEN)
             ours == NameHash(b[1])
             e == one \o parts \o three(theirs)
             m == one \o parts \o three(ours)
  <1>1. DumpDestination(b).lines = e
    <2>1. ~(~b[2].absent /\ b[2].len # ADDRLEN)
      BY DEF IsLine
    <2>2. DumpDestination(b) = Exits(e)
      BY ONLY <2>1 DEF DumpDestination
    <2>3. QED
      BY ONLY <2>2 DEF Exits
  <1>2. kind_destination(b) = m
    <2>1. own = Hex(Whole(b[2]))
      BY WholeLine DEF Dash
    <2>2. aspects(b[1]) = parts
      BY AspectsAreComponents
    <2>3. kind_destination(b)
            = one \o aspects(b[1]) \o <<Field("name_hash", Hex(ours)), Field("identity_hash", own),
                                        Field("destination_hash", Hex(hash(ours)))>>
      BY ONLY DEF kind_destination
    <2> HIDE DEF own, one, parts
    <2>4. QED
      BY ONLY <2>1, <2>2, <2>3
  <1>3. InPlace(three(ours), three(theirs), free)
    <2>1. b[1].dots # {} => ours = theirs
      BY DEF NameHash
    <2> HIDE DEF ours, theirs
    <2>2. /\ Hex(ours) \in {Hex(theirs), Dash} \/ "name_hash" \in free
          /\ Hex(hash(ours)) \in {Hex(hash(theirs)), Dash} \/ "destination_hash" \in free
      BY <2>1
    <2> HIDE DEF hash
    <2>3. QED
      BY <2>2, InPlaceThree
  <1>4. Accepts(one) /\ Accepts(three(theirs))
    BY AcceptedParts
  <1>5. Accepts(parts)
    <2>1. /\ parts = [i \in 1..Len(names) |-> parts[i]]
          /\ \A i \in 1..Len(names) : parts[i].name # "invalid"
      BY AspectsAreComponents
    <2> HIDE DEF parts
    <2>2. Len(names) \in Nat
      BY JoinedParts
    <2>3. Len(parts) = Len(names)
      BY <2>1, <2>2
    <2>4. IsSeq(parts) /\ Names(parts) = {parts[i].name : i \in 1..Len(names)}
      BY <2>1, <2>2, <2>3, FieldsOf
    <2>5. QED
      BY <2>1, <2>4 DEF Accepts
  <1> DEFINE front == one \o parts
             te == three(theirs)
             tm == three(ours)
  <1>6. Accepts(front)
    <2> HIDE DEF one, parts
    <2>1. QED
      BY <1>4, <1>5, RefusesBehind
  <1>7. e = front \o te /\ m = front \o tm
    OBVIOUS
  <1>8. Accepts(te) /\ InPlace(tm, te, free)
    BY <1>3, <1>4
  <1> HIDE DEF front, te, tm, e, m
  <1>9. Accepts(front \o te)
    BY <1>6, <1>8, RefusesBehind
  <1>10. InPlace(front \o tm, front \o te, free)
    BY <1>6, <1>8, InPlaceSame, InPlaceJoin DEF Accepts
  <1>11. QED
    BY <1>1, <1>2, <1>7, <1>9, <1>10 DEF Beside

-----------------------------------------------------------------------------
(* What the harness printed is what it makes of the vector.                 *)
ThreeReaders == OneVector /\ (stage = "answered" => micro = Micro(vector))

LEMMA ThreeReadersAlways == HarnessSpec => []ThreeReaders
  <1>1. HarnessInit => ThreeReaders
    BY OneVectorInit DEF HarnessInit, Init, ThreeReaders
  <1>2. ThreeReaders /\ [HarnessNext]_harness_vars => ThreeReaders'
    <2> SUFFICES ASSUME ThreeReaders, [HarnessNext]_harness_vars
                 PROVE  (stage = "answered" => micro = Micro(vector))'
      BY OneVectorAnswered DEF ThreeReaders
    <2>1. CASE Answer
      BY <2>1 DEF Answer
    <2>2. CASE Next
      <3>1. stage' \in {"raised", "filed", "decoded", "rebuilt"}
        BY <2>2 DEF Next, Generate, Decode, Rebuild
      <3>2. QED
        BY <3>1
    <2>3. CASE UNCHANGED harness_vars
      BY <2>3 DEF harness_vars, vars, ThreeReaders
    <2>4. QED
      BY <2>1, <2>2, <2>3 DEF HarnessNext
  <1>3. QED
    BY <1>1, <1>2, PTL DEF HarnessSpec

Lost(kind) == CASE kind = "linkdata" -> {"short-payload"}
                [] kind = "proof"    -> {"invalid-length"}
                [] OTHER             -> {}

(* every kind the harness answers, beside what was filed *)
LEMMA AnswersBeside ==
  ASSUME ThreeReaders, stage = "answered"
  PROVE  Beside(expect, micro, vector.b[Len(vector.b)], Lost(vector.kind),
                Otherwise \union {"body"})
  <1> DEFINE b == vector.b
             sees == vector.sees
             kind == vector.kind
             free == Otherwise \union {"body"}
             e == Dumped(vector).lines
             m == Micro(vector)
  <1>1. /\ vector \in Vectors /\ expect = Described(vector) /\ expect # Raises
        /\ kind \in Answered /\ micro = m
    BY DEF ThreeReaders, OneVector
  <1>2. WellMade(vector)
    BY <1>1, VectorsAssumption
  <1>3. Len(b) = Blobs(kind) /\ (\A i \in 1..Blobs(kind) : IsLine(b[i])) /\ Lengths(kind, b)
    BY <1>2 DEF WellMade
  <1>4. expect = e
    <2>1. Dumped(vector) = Exits(Described(vector))
      BY <1>1, <1>2, DumpedAgrees
    <2>2. QED
      BY <1>1, <2>1 DEF Exits
  <1>5. sees \in Sees
    BY <1>2 DEF WellMade, Sees
  <1>6. "body" \in free
    OBVIOUS
  <1>7. kind \in {"destination", "announce", "encrypted", "linkrequest", "linkproof", "linkdata", "proof"}
    BY <1>1 DEF Answered
  <1>8. CASE kind = "destination"
    <2>1. Blobs(kind) = 2 /\ b[2].len \in {0, ADDRLEN} /\ Joined(b[1], vector.names)
      BY <1>2, <1>3, <1>8 DEF Blobs, Lengths, WellMade
    <2>2. IsLine(b[1]) /\ IsLine(b[2])
      BY <1>3, <2>1
    <2>3. Dumped(vector) = DumpDestination(b) /\ m = kind_destination(b)
      BY <1>3, <1>8 DEF Dumped, Micro
    <2>4. b[1].dots = {} => {"name_hash", "destination_hash"} \subseteq free
      BY <1>8 DEF Otherwise
    <2> HIDE DEF free, b
    <2>5. Beside(DumpDestination(b).lines, kind_destination(b), b[Len(b)], Lost(kind), free)
      BY <2>1, <2>2, <2>4, DestinationBeside
    <2>6. QED
      BY <1>1, <1>4, <2>3, <2>5 DEF b, free
  <1>9. CASE kind = "announce"
    <2>1. Blobs(kind) = 1 /\ Lost(kind) = {} /\ Otherwise = {}
      BY <1>9 DEF Blobs, Lost, Otherwise
    <2>2. IsLine(b[1]) /\ Len(b) = 1
      BY <1>3, <2>1
    <2>3. Dumped(vector) = DumpAnnounce(b) /\ m = kind_announce(b)
      BY <1>3, <1>9 DEF Dumped, Micro
    <2>4. Beside(DumpAnnounce(b).lines, kind_announce(b), b[1], {}, {})
      BY <2>2, AnnounceBeside
    <2>5. Beside(DumpAnnounce(b).lines, kind_announce(b), b[1], {}, {"body"})
      BY <2>4 DEF Beside, InPlace
    <2>6. QED
      BY <1>1, <1>4, <2>1, <2>2, <2>3, <2>5
  <1>10. CASE kind = "encrypted"
    <2>1. /\ Blobs(kind) = 3 /\ Lost(kind) = {}
          /\ b[1].len = KEYSIZE /\ b[2].len \in {0, RATCHETLEN}
      BY <1>3, <1>10 DEF Blobs, Lost, Lengths
    <2>2. IsLine(b[1]) /\ IsLine(b[2]) /\ IsLine(b[3]) /\ Len(b) = 3
      BY <1>3, <2>1
    <2>3. Dumped(vector) = DumpEncrypted(b, sees) /\ m = kind_encrypted(b, sees)
      BY <1>3, <1>10 DEF Dumped, Micro
    <2>4. /\ ~sees.agreed => {"shared_key", "signing_key", "encryption_key", "hmac_valid"} \subseteq free
          /\ sees.agreed => "plaintext_length" \in free
      BY <1>10 DEF Otherwise
    <2> HIDE DEF free, b, sees
    <2>5. Beside(DumpEncrypted(b, sees).lines, kind_encrypted(b, sees), b[3], {}, free)
      BY <1>5, <2>1, <2>2, <2>4, EncryptedBeside
    <2>6. QED
      BY <1>1, <1>4, <2>1, <2>2, <2>3, <2>5 DEF b, free
  <1>11. CASE kind = "linkrequest"
    <2>1. Blobs(kind) = 1 /\ Lost(kind) = {} /\ Otherwise = {}
      BY <1>11 DEF Blobs, Lost, Otherwise
    <2>2. IsLine(b[1]) /\ Len(b) = 1
      BY <1>3, <2>1
    <2>3. Dumped(vector) = DumpLinkRequest(b) /\ m = kind_linkrequest(b)
      BY <1>3, <1>11 DEF Dumped, Micro
    <2>4. Beside(DumpLinkRequest(b).lines, kind_linkrequest(b), b[1], {}, {})
      BY <2>2, LinkRequestBeside
    <2>5. Beside(DumpLinkRequest(b).lines, kind_linkrequest(b), b[1], {}, {"body"})
      BY <2>4 DEF Beside, InPlace
    <2>6. QED
      BY <1>1, <1>4, <2>1, <2>2, <2>3, <2>5
  <1>12. CASE kind = "linkproof"
    <2>1. /\ Blobs(kind) = 3 /\ Lost(kind) = {} /\ Otherwise = {} /\ b[2].len = KEYSIZE
      BY <1>3, <1>12 DEF Blobs, Lost, Otherwise, Lengths
    <2>2. IsLine(b[1]) /\ IsLine(b[3]) /\ Len(b) = 3
      BY <1>3, <2>1
    <2>3. Dumped(vector) = DumpLinkProof(b) /\ m = kind_linkproof(b)
      BY <1>3, <1>12 DEF Dumped, Micro
    <2>4. Header(b[1]).ok
      BY <1>2, <1>12, <2>2, HeaderAgrees DEF WellMade, SameHeader
    <2>5. Beside(DumpLinkProof(b).lines, kind_linkproof(b), b[3], {}, {})
      BY <2>1, <2>2, <2>4, LinkProofBeside
    <2>6. Beside(DumpLinkProof(b).lines, kind_linkproof(b), b[3], {}, {"body"})
      BY <2>5 DEF Beside, InPlace
    <2>7. QED
      BY <1>1, <1>4, <2>1, <2>2, <2>3, <2>6
  <1>13. CASE kind = "linkdata"
    <2>1. /\ Blobs(kind) = 3 /\ Lost(kind) = {"short-payload"} /\ b[2].len = KEYHALF
      BY <1>3, <1>13 DEF Blobs, Lost, Lengths
    <2>2. IsLine(b[1]) /\ IsLine(b[3]) /\ Len(b) = 3
      BY <1>3, <2>1
    <2>3. Dumped(vector) = DumpLinkData(b, sees) /\ m = kind_linkdata(b, sees)
      BY <1>3, <1>13 DEF Dumped, Micro
    <2>4. Header(b[1]).ok /\ Header(b[1]).payload_len >= ECPUBSIZE
      <3>1. /\ DescribeHeader(b[1]).ok
            /\ DescribeHeader(b[1]).len \in {ECPUBSIZE, ECPUBSIZE + SIGNALLEN}
        BY <1>2, <1>13 DEF WellMade
      <3>2. SameHeader(Header(b[1]), DescribeHeader(b[1]))
        BY <2>2, HeaderAgrees
      <3>3. Header(b[1]).ok /\ Header(b[1]).payload_len = DescribeHeader(b[1]).len
        BY <3>1, <3>2 DEF SameHeader
      <3>4. QED
        BY <3>1, <3>3 DEF ECPUBSIZE, SIGNALLEN
    <2>5. ~sees.agreed => {"shared_key", "signing_key", "encryption_key", "hmac_valid"} \subseteq free
      BY <1>13 DEF Otherwise
    <2> HIDE DEF free, b, sees
    <2>6. Beside(DumpLinkData(b, sees).lines, kind_linkdata(b, sees), b[3], {"short-payload"}, free)
      BY <1>5, <1>6, <2>1, <2>2, <2>4, <2>5, LinkDataBeside
    <2>7. QED
      BY <1>1, <1>4, <2>1, <2>2, <2>3, <2>6 DEF b, free
  <1>14. CASE kind = "proof"
    <2>1. Blobs(kind) = 3 /\ Lost(kind) = {"invalid-length"} /\ Otherwise = {}
      BY <1>14 DEF Blobs, Lost, Otherwise
    <2>2. IsLine(b[1]) /\ IsLine(b[2]) /\ IsLine(b[3]) /\ Len(b) = 3
      BY <1>3, <2>1
    <2>3. Dumped(vector) = DumpProof(b) /\ m = kind_proof(b)
      BY <1>3, <1>14 DEF Dumped, Micro
    <2>4. Header(b[1]).ok
      BY <1>2, <1>14, <2>2, HeaderAgrees DEF WellMade, SameHeader
    <2>5. b[2].len = IF Bits(b[3].flags, 2, 2) = 3 THEN KEYHALF ELSE KEYSIZE
      BY <1>3, <1>14 DEF Lengths
    <2>6. Beside(DumpProof(b).lines, kind_proof(b), b[3], {"invalid-length"}, {})
      BY <2>2, <2>4, <2>5, ProofBeside
    <2>7. Beside(DumpProof(b).lines, kind_proof(b), b[3], {"invalid-length"}, {"body"})
      BY <2>6 DEF Beside, InPlace
    <2>8. QED
      BY <1>1, <1>4, <2>1, <2>2, <2>3, <2>7
  <1>15. QED
    BY <1>7, <1>8, <1>9, <1>10, <1>11, <1>12, <1>13, <1>14

LEMMA RefusedAlike == ThreeReaders => RejectsAlike
  <1> DEFINE packet == vector.b[Len(vector.b)]
             lost == Lost(vector.kind)
             free == Otherwise \union {"body"}
  <1> SUFFICES ASSUME ThreeReaders, stage = "answered", Refused,
                      \/ Rule = "short-header" /\ packet.len >= 2
                      \/ Rule = "short-payload" /\ vector.kind # "linkdata"
                      \/ Rule = "invalid-length" /\ vector.kind # "proof"
               PROVE  micro = expect
    BY DEF RejectsAlike
  <1>1. Beside(expect, micro, packet, lost, free)
    BY AnswersBeside
  <1>2. packet.len \in Nat
    <2>1. WellMade(vector)
      BY VectorsAssumption DEF ThreeReaders, OneVector
    <2>2. /\ Len(vector.b) = Blobs(vector.kind) /\ vector.kind \in Kinds
          /\ \A i \in 1..Blobs(vector.kind) : IsLine(vector.b[i])
      BY <2>1 DEF WellMade
    <2>3. Blobs(vector.kind) \in 1..3
      BY <2>2 DEF Kinds, Blobs
    <2>4. Blobs(vector.kind) \in 1..Blobs(vector.kind)
      BY <2>3
    <2>5. QED
      BY <2>2, <2>4 DEF IsLine
  <1>3. ~Accepts(expect)
    BY DEF Refused, Holds, Accepts
  <1> HIDE DEF packet, lost, free
  <1>4. PICK rule : /\ Refuses(expect, rule)
                    /\ \/ rule \notin {"short-header", "short-payload", "invalid-length"} \ lost
                       \/ rule = "short-header" /\ packet.len < 2
                       \/ micro = expect
    BY <1>1, <1>3 DEF Beside
  <1>5. Rule = rule
    BY <1>4 DEF Refuses, Rule, Word
  <1>6. /\ "short-payload" \in lost => vector.kind = "linkdata"
        /\ "invalid-length" \in lost => vector.kind = "proof"
        /\ "short-header" \notin lost
    BY DEF lost, Lost
  <1>7. QED
    BY <1>2, <1>4, <1>5, <1>6

LEMMA StandInPlace == ThreeReaders => FieldsInPlace
  <1> SUFFICES ASSUME ThreeReaders, stage = "answered", ~Refused, micro \notin {Thrown, Crashed}
               PROVE  InPlace(micro, expect, Otherwise \union {"body"})
    BY DEF FieldsInPlace, InPlace
  <1>1. Beside(expect, micro, vector.b[Len(vector.b)], Lost(vector.kind), Otherwise \union {"body"})
    BY AnswersBeside
  <1>2. \A rule : ~Refuses(expect, rule)
    BY DEF Refused, Holds, Refuses
  <1>3. QED
    BY <1>1, <1>2 DEF Beside

(* A rejection the harness makes is the reference's, with its rule and its  *)
(* numbers: every packet cut short of the header its first byte asks for,   *)
(* every payload no key fits in and every link packet of neither length.    *)
THEOREM HarnessRejectsAlike == HarnessSpec => []RejectsAlike
  BY ThreeReadersAlways, RefusedAlike, PTL

(* And of a packet that is not refused, every field the harness prints      *)
(* stands where expect has it and says what expect says, or is a dash, but  *)
(* for the ones the library is known to compute from other bytes: whatever  *)
(* is wrong with the key, the hmac or the padding before it.                *)
THEOREM HarnessKeepsPlaces == HarnessSpec => []FieldsInPlace
  BY ThreeReadersAlways, StandInPlace, PTL


-----------------------------------------------------------------------------
(* Pieces put together.  Cat is what its last prefix comes to; that the     *)
(* prefixes have one is by the least that has none.                         *)
PutTogether(f, parts, n) ==
  f = [i \in 0..n |-> IF i = 0 THEN << >> ELSE Join(f[i - 1], parts[i])]

LEMMA PrefixesExist ==
  ASSUME NEW parts, NEW n \in Nat
  PROVE  \E f : PutTogether(f, parts, n)
  <1> DEFINE S == {k \in Nat : ~(\E f : PutTogether(f, parts, k))}
  <1>1. ASSUME S # {} PROVE FALSE
    <2>1. PICK k \in S : \A j \in S : k <= j
      BY <1>1, LeastOf
    <2>2. k # 0
      <3>1. PutTogether([i \in 0..0 |-> << >>], parts, 0)
        BY DEF PutTogether
      <3>2. QED
        BY <2>1, <3>1
    <2>3. PICK f : PutTogether(f, parts, k - 1)
      BY <2>1, <2>2
    <2> DEFINE g == [i \in 0..k |-> IF i = k THEN Join(f[k - 1], parts[k]) ELSE f[i]]
    <2>4. f = [i \in 0..(k - 1) |-> IF i = 0 THEN << >> ELSE Join(f[i - 1], parts[i])]
      BY <2>3 DEF PutTogether
    <2>5. ASSUME NEW i \in 0..k
          PROVE  g[i] = IF i = 0 THEN << >> ELSE Join(g[i - 1], parts[i])
      <3>1. CASE i = k
        BY <2>1, <2>2, <3>1
      <3>2. CASE i # k
        <4>1. i \in 0..(k - 1) /\ g[i] = f[i] /\ (i # 0 => g[i - 1] = f[i - 1])
          BY <2>1, <3>2
        <4>2. QED
          BY <2>4, <4>1
      <3>3. QED
        BY <3>1, <3>2
    <2>6. PutTogether(g, parts, k)
      BY <2>5 DEF PutTogether
    <2>7. QED
      BY <2>1, <2>6
  <1>2. QED
    BY <1>1

LEMMA CatByPrefixes ==
  ASSUME NEW parts, Len(parts) \in Nat
  PROVE  \E f : /\ f[0] = << >> /\ f[Len(parts)] = Cat(parts)
                /\ \A i \in 1..Len(parts) : f[i] = Join(f[i - 1], parts[i])
  <1> DEFINE n == Len(parts)
             to[i \in 0..n] == IF i = 0 THEN << >> ELSE Join(to[i - 1], parts[i])
  <1>1. Cat(parts) = to[n]
    BY DEF Cat
  <1>2. \E f : f = [i \in 0..n |-> IF i = 0 THEN << >> ELSE Join(f[i - 1], parts[i])]
    BY PrefixesExist DEF PutTogether
  <1>3. to = [i \in 0..n |-> IF i = 0 THEN << >> ELSE Join(to[i - 1], parts[i])]
    BY <1>2
  <1> HIDE DEF to
  <1>4. to[0] = << >> /\ \A i \in 1..n : to[i] = Join(to[i - 1], parts[i])
    <2>1. \A i \in 0..n : to[i] = IF i = 0 THEN << >> ELSE Join(to[i - 1], parts[i])
      BY <1>3
    <2>2. QED
      BY <2>1
  <1>5. QED
    BY <1>1, <1>4

(* Bytes that go on where those before them ended are one piece with them.  *)
(* bytes that end in another object than the one that follows *)
EndsBeside(front, of) == IsSeq(front) /\ (front # << >> => Last(front).of # of)

Onto(front, of, a, m) == front \o Mem(of, a, m)

LEMMA RunsOn ==
  ASSUME NEW of, NEW front, EndsBeside(front, of), NEW a \in Nat, NEW m \in Nat, NEW n \in Nat
  PROVE  Join(Onto(front, of, a, m), Mem(of, a + m, n)) = Onto(front, of, a, m + n)
  <1> SUFFICES Join(front \o Mem(of, a, m), Mem(of, a + m, n)) = front \o Mem(of, a, m + n)
    BY DEF Onto
  <1> USE DEF EndsBeside
  <1> PICK S : front \in Seq(S)
    BY DEF IsSeq
  <1> DEFINE p == Piece(of, a, a + m)
             q == Piece(of, a + m, a + m + n)
             pq == Piece(of, a, a + m + n)
  <1>0. /\ p.of = of /\ p.from = a /\ p.to = a + m
        /\ q.of = of /\ q.from = a + m /\ q.to = a + m + n
    BY DEF Piece
  <1>1. CASE n = 0
    <2>1. Mem(of, a + m, n) = << >> /\ Mem(of, a, m + n) = Mem(of, a, m)
      BY <1>1 DEF Mem
    <2>2. IsSeq(Mem(of, a, m)) /\ IsSeq(front)
      BY TuplesAreSeqs DEF Mem, IsSeq
    <2>3. PICK T : front \o Mem(of, a, m) \in Seq(T)
      BY <2>2, SeqsJoin DEF IsSeq
    <2> DEFINE s == front \o Mem(of, a, m)
    <2> HIDE DEF s
    <2>4. s \o << >> = s
      BY <2>3 DEF s
    <2>5. QED
      BY <2>1, <2>4 DEF Join, s
  <1>2. CASE n # 0 /\ m = 0
    <2>1. front \o Mem(of, a, m) = front /\ a + m = a /\ m + n = n
      BY <1>2 DEF Mem
    <2>2. Mem(of, a, n) = <<Piece(of, a, a + n)>> /\ Mem(of, a, n) # << >>
      BY <1>2 DEF Mem
    <2>3. Head(Mem(of, a, n)).of = of
      BY <2>2 DEF Piece
    <2> HIDE DEF p, q, pq
    <2>4. QED
      BY <2>1, <2>2, <2>3 DEF Join
  <1>3. CASE n # 0 /\ m # 0
    <2>1. /\ Mem(of, a, m) = <<p>> /\ Mem(of, a + m, n) = <<q>> /\ Mem(of, a, m + n) = <<pq>>
      BY <1>3 DEF Mem
    <2> HIDE DEF p, q, pq
    <2>2. PICK T : front \in Seq(T) /\ p \in T
      <3>1. front \in Seq(S \union {p})
        OBVIOUS
      <3>2. QED
        BY <3>1
    <2> DEFINE s == front \o <<p>>
    <2>3. s \in Seq(T) /\ Len(s) = Len(front) + 1 /\ s # << >> /\ s[Len(s)] = p
      BY <2>2
    <2>4. Last(s) = p
      BY <2>3 DEF Last
    <2>5. Front(s) = front
      <3>1. /\ Len(front) \in Nat /\ \A i \in 1..Len(front) : s[i] = front[i]
        BY <2>2
      <3>2. Front(s) = [i \in 1..Len(front) |-> s[i]]
        BY <2>3, <3>1 DEF Front
      <3>3. front = [i \in 1..Len(front) |-> front[i]]
        BY <2>2
      <3>4. QED
        BY <3>1, <3>2, <3>3
    <2>6. Head(<<q>>) = q /\ Tail(<<q>>) = << >> /\ <<q>> # << >>
      OBVIOUS
    <2>7. Piece(p.of, p.from, q.to) = pq
      BY <1>0 DEF pq
    <2> HIDE DEF s
    <2>8. Join(s, <<q>>) = (front \o <<pq>>) \o << >>
      BY <1>0, <2>3, <2>4, <2>5, <2>6, <2>7 DEF Join
    <2>9. (front \o <<pq>>) \o << >> = front \o <<pq>>
      <3>1. front \o <<pq>> \in Seq(T \union {pq})
        BY <2>2
      <3>2. QED
        BY <3>1
    <2>10. QED
      BY <2>1, <2>8, <2>9 DEF s
  <1>4. QED
    BY <1>1, <1>2, <1>3

(* the same with nothing before them *)
LEMMA RunsOnAlone ==
  ASSUME NEW of, NEW a \in Nat, NEW m \in Nat, NEW n \in Nat
  PROVE  Join(Mem(of, a, m), Mem(of, a + m, n)) = Mem(of, a, m + n)
  <1>1. PICK none : none = << >>
    OBVIOUS
  <1>2. EndsBeside(none, of)
    BY <1>1, TuplesAreSeqs DEF EndsBeside
  <1>3. none \o Mem(of, a, m) = Mem(of, a, m) /\ none \o Mem(of, a, m + n) = Mem(of, a, m + n)
    BY <1>1, TuplesAreSeqs, EmptyEcho DEF Mem
  <1>4. Join(Onto(none, of, a, m), Mem(of, a + m, n)) = Onto(none, of, a, m + n)
    BY <1>2, RunsOn
  <1>5. QED
    BY ONLY <1>3, <1>4, Zenon DEF Onto

(* three pieces, of which the first may be of any make *)
LEMMA CatOfThree ==
  ASSUME NEW a, NEW b, NEW c, IsSeq(a)
  PROVE  Cat(<<a, b, c>>) = Join(Join(a, b), c)
  <1> DEFINE parts == <<a, b, c>>
  <1>1. Len(parts) = 3 /\ parts[1] = a /\ parts[2] = b /\ parts[3] = c
    OBVIOUS
  <1> HIDE DEF parts
  <1>2. PICK f : /\ f[0] = << >> /\ f[Len(parts)] = Cat(parts)
                 /\ \A i \in 1..Len(parts) : f[i] = Join(f[i - 1], parts[i])
    BY <1>1, CatByPrefixes
  <1>3. f[1] = Join(f[0], a) /\ f[2] = Join(f[1], b) /\ f[3] = Join(f[2], c)
    BY <1>1, <1>2
  <1>4. Join(<< >>, a) = a
    BY EmptyEcho DEF Join
  <1>5. QED
    BY <1>1, <1>2, <1>3, <1>4 DEF parts

(* A name that lines give a value, and names they do not have.              *)
Gives(s, name, value) == IsSeq(s) /\ name \in Names(s) /\ Lookup(s, name) = value
Lacks(s, names)       == IsSeq(s) /\ Names(s) \intersect names = {}

LEMMA GivesOn ==
  ASSUME NEW s, NEW t, IsSeq(t), NEW name, NEW value, Gives(s, name, value)
  PROVE  Gives(s \o t, name, value)
  BY SeqsJoin, NamesJoin, LookupBefore DEF Gives

LEMMA GivesBehind ==
  ASSUME NEW s, NEW names, Lacks(s, names), NEW t, NEW name \in names, NEW value,
         Gives(t, name, value)
  PROVE  Gives(s \o t, name, value)
  <1>1. name \notin Names(s)
    BY DEF Lacks
  <1>2. QED
    BY <1>1, SeqsJoin, NamesJoin, LookupBehind DEF Gives, Lacks

LEMMA LacksOn ==
  ASSUME NEW s, NEW t, NEW names, Lacks(s, names), Lacks(t, names)
  PROVE  Lacks(s \o t, names)
  BY SeqsJoin, NamesJoin DEF Lacks

LEMMA GivesAt ==
  ASSUME NEW p, IsSeq(p), NEW k \in 1..Len(p), NEW name, NEW value,
         p[k].name = name, p[k].value = value, \A i \in 1..(k - 1) : p[i].name # name
  PROVE  Gives(p, name, value)
  <1>1. Len(p) \in Nat
    BY SeqsJoin
  <1>2. name \in Names(p)
    BY DEF Names
  <1>3. Lookup(p, name) = value
    BY <1>1, LookupAt
  <1>4. QED
    BY <1>2, <1>3 DEF Gives

LEMMA FewGive ==
  /\ \A x, l : Gives(<<Field(x, l)>>, x, l)
  /\ \A x, l, y, m : x # y => /\ Gives(<<Field(x, l), Field(y, m)>>, x, l)
                              /\ Gives(<<Field(x, l), Field(y, m)>>, y, m)
  /\ \A x, l, y, m, z, n : x # y /\ x # z /\ y # z =>
       LET s == <<Field(x, l), Field(y, m), Field(z, n)>>
       IN  Gives(s, x, l) /\ Gives(s, y, m) /\ Gives(s, z, n)
  <1>1. ASSUME NEW x, NEW l PROVE Gives(<<Field(x, l)>>, x, l)
    <2> DEFINE s == <<Field(x, l)>>
    <2>1. IsSeq(s) /\ Len(s) = 1 /\ s[1] = Field(x, l)
      BY TuplesAreSeqs
    <2> HIDE DEF s
    <2>2. 1 \in 1..Len(s) /\ \A i \in 1..(1 - 1) : FALSE
      BY <2>1
    <2>3. Gives(s, x, l)
      BY <2>1, <2>2, GivesAt, FieldParts
    <2>4. QED
      BY <2>3 DEF s
  <1>2. ASSUME NEW x, NEW l, NEW y, NEW m, x # y
        PROVE  /\ Gives(<<Field(x, l), Field(y, m)>>, x, l)
               /\ Gives(<<Field(x, l), Field(y, m)>>, y, m)
    <2> DEFINE s == <<Field(x, l), Field(y, m)>>
    <2>1. IsSeq(s) /\ Len(s) = 2 /\ s[1] = Field(x, l) /\ s[2] = Field(y, m)
      BY TuplesAreSeqs
    <2>2. s[1].name = x /\ s[1].value = l /\ s[2].name = y /\ s[2].value = m
      BY <2>1, FieldParts
    <2> HIDE DEF s
    <2>3. /\ 1 \in 1..Len(s) /\ 2 \in 1..Len(s)
          /\ (\A i \in 1..(1 - 1) : FALSE) /\ (\A i \in 1..(2 - 1) : i = 1)
      BY <2>1
    <2>4. Gives(s, x, l)
      BY <2>1, <2>2, <2>3, GivesAt
    <2>5. Gives(s, y, m)
      BY <1>2, <2>1, <2>2, <2>3, GivesAt
    <2>6. QED
      BY <2>4, <2>5 DEF s
  <1>3. ASSUME NEW x, NEW l, NEW y, NEW m, NEW z, NEW n, x # y, x # z, y # z
        PROVE  LET s == <<Field(x, l), Field(y, m), Field(z, n)>>
               IN  Gives(s, x, l) /\ Gives(s, y, m) /\ Gives(s, z, n)
    <2> DEFINE s == <<Field(x, l), Field(y, m), Field(z, n)>>
    <2>1. /\ IsSeq(s) /\ Len(s) = 3
          /\ s[1] = Field(x, l) /\ s[2] = Field(y, m) /\ s[3] = Field(z, n)
      BY TuplesAreSeqs
    <2>2. /\ s[1].name = x /\ s[1].value = l /\ s[2].name = y /\ s[2].value = m
          /\ s[3].name = z /\ s[3].value = n
      BY <2>1, FieldParts
    <2> HIDE DEF s
    <2>3. /\ 1 \in 1..Len(s) /\ 2 \in 1..Len(s) /\ 3 \in 1..Len(s)
          /\ (\A i \in 1..(1 - 1) : FALSE) /\ (\A i \in 1..(2 - 1) : i = 1)
          /\ (\A i \in 1..(3 - 1) : i = 1 \/ i = 2)
      BY <2>1
    <2>4. Gives(s, x, l)
      BY <2>1, <2>2, <2>3, GivesAt
    <2>5. Gives(s, y, m)
      BY <1>3, <2>1, <2>2, <2>3, GivesAt
    <2>6. Gives(s, z, n)
      BY <1>3, <2>1, <2>2, <2>3, GivesAt
    <2>7. QED
      BY <2>4, <2>5, <2>6 DEF s
  <1>4. QED
    BY <1>1, <1>2, <1>3

(* The names a few fields have not.                                         *)
LEMMA FewLack ==
  ASSUME NEW names
  PROVE  /\ Lacks(<< >>, names)
         /\ \A x, l : x \notin names => Lacks(<<Field(x, l)>>, names)
         /\ \A x, l, y, m : x \notin names /\ y \notin names
                            => Lacks(<<Field(x, l), Field(y, m)>>, names)
         /\ \A x, l, y, m, z, n : x \notin names /\ y \notin names /\ z \notin names
                            => Lacks(<<Field(x, l), Field(y, m), Field(z, n)>>, names)
         /\ \A x, l, y, m, z, n, w, o :
              x \notin names /\ y \notin names /\ z \notin names /\ w \notin names
                => Lacks(<<Field(x, l), Field(y, m), Field(z, n), Field(w, o)>>, names)
  <1>1. Lacks(<< >>, names)
    BY TuplesAreSeqs, NamesOfFew DEF Lacks
  <1>2. ASSUME NEW x, NEW l, x \notin names PROVE Lacks(<<Field(x, l)>>, names)
    <2>1. Names(<<Field(x, l)>>) = {Field(x, l).name}
      BY NamesOfFew
    <2>2. QED
      BY <1>2, <2>1, FieldParts, TuplesAreSeqs DEF Lacks
  <1>3. ASSUME NEW x, NEW l, NEW y, NEW m, x \notin names, y \notin names
        PROVE  Lacks(<<Field(x, l), Field(y, m)>>, names)
    BY <1>3, NumbersOf DEF Lacks
  <1>4. ASSUME NEW x, NEW l, NEW y, NEW m, NEW z, NEW n,
               x \notin names, y \notin names, z \notin names
        PROVE  Lacks(<<Field(x, l), Field(y, m), Field(z, n)>>, names)
    <2>1. Names(<<Field(x, l), Field(y, m), Field(z, n)>>)
            = {Field(x, l).name, Field(y, m).name, Field(z, n).name}
      BY NamesOfFew
    <2>2. Names(<<Field(x, l), Field(y, m), Field(z, n)>>) = {x, y, z}
      BY <2>1, FieldParts
    <2>3. QED
      BY <1>4, <2>2, TuplesAreSeqs DEF Lacks
  <1>5. ASSUME NEW x, NEW l, NEW y, NEW m, NEW z, NEW n, NEW w, NEW o,
               x \notin names, y \notin names, z \notin names, w \notin names
        PROVE  Lacks(<<Field(x, l), Field(y, m), Field(z, n), Field(w, o)>>, names)
    <2>1. Names(<<Field(x, l), Field(y, m), Field(z, n), Field(w, o)>>)
            = {Field(x, l).name, Field(y, m).name, Field(z, n).name, Field(w, o).name}
      BY NamesOfFew
    <2>2. Names(<<Field(x, l), Field(y, m), Field(z, n), Field(w, o)>>) = {x, y, z, w}
      BY <2>1, FieldParts
    <2>3. QED
      BY <1>5, <2>2, TuplesAreSeqs DEF Lacks
  <1>6. QED
    BY <1>1, <1>2, <1>3, <1>4, <1>5

-----------------------------------------------------------------------------
(* A token in three is the bytes from its first to its last, whatever its   *)
(* length, or nothing.                                                      *)
LEMMA PartsOfAToken ==
  ASSUME NEW h, h.at \in Nat, h.payload_len \in Nat, NEW from \in Nat
  PROVE  LET c == Cut(h, from)
         IN  Cat(<<c.iv, c.ciphertext, c.mac>>) \in {<< >>, Behind(h, from)}
  <1> DEFINE c == Cut(h, from)
             size == h.payload_len - from
             of == Line(h.line)
             a == h.at + from
  <1>1. CASE size < 48
    <2>1. c.iv = << >> /\ c.ciphertext = << >> /\ c.mac = << >>
      BY <1>1 DEF Cut, TOKEN_OVERHEAD, IVLEN, MACLEN
    <2> HIDE DEF c
    <2>2. Cat(<<c.iv, c.ciphertext, c.mac>>) = Join(Join(<< >>, << >>), << >>)
      BY <2>1, CatOfThree, TuplesAreSeqs
    <2>3. Join(<< >>, << >>) = << >>
      BY DEF Join
    <2>4. QED
      BY <2>2, <2>3 DEF c
  <1>2. CASE ~(size < 48)
    <2>1. /\ size \in Nat /\ size >= 48 /\ from + size = h.payload_len /\ a \in Nat
      BY <1>2
    <2>2. c = [iv |-> Mid(h, from, 16), ciphertext |-> Mid(h, from + 16, size - 48),
               mac |-> Behind(h, from + size - 32)]
      BY <2>1, SMTT(30) DEF Cut, WrappingCut, IVLEN, TOKEN_OVERHEAD, MACLEN
    <2> HIDE DEF size, c
    <2>3. Mid(h, from, 16) = Mem(of, a, 16)
      BY <2>1, MidIsPayload DEF Payload
    <2>4. Mid(h, from + 16, size - 48) = Mem(of, a + 16, size - 48)
      <3>1. Mid(h, from + 16, size - 48) = Payload(h, from + 16, size - 48)
        BY <2>1, MidIsPayload
      <3>2. h.at + (from + 16) = a + 16
        BY <2>1
      <3>3. QED
        BY <3>1, <3>2 DEF Payload
    <2>5. Behind(h, from + size - 32) = Mem(of, a + (size - 32), 32)
      <3>1. /\ from + size - 32 \in Nat /\ h.payload_len - (from + size - 32) = 32
            /\ (from + size - 32) + 0 <= h.payload_len
        BY <2>1
      <3>2. Behind(h, from + size - 32)
              = Payload(h, from + size - 32, h.payload_len - (from + size - 32))
        BY <3>1, MidIsPayload
      <3>3. h.at + (from + size - 32) = a + (size - 32)
        BY <2>1
      <3>4. QED
        BY <3>1, <3>2, <3>3 DEF Payload
    <2>6. Behind(h, from) = Mem(of, a, size)
      <3>1. from + 0 <= h.payload_len /\ h.payload_len - from = size
        BY <2>1
      <3>2. QED
        BY <3>1, MidIsPayload DEF Payload
    <2>7. Cat(<<c.iv, c.ciphertext, c.mac>>)
            = Join(Join(Mem(of, a, 16), Mem(of, a + 16, size - 48)), Mem(of, a + (size - 32), 32))
      <3>1. IsSeq(Mem(of, a, 16))
        BY TuplesAreSeqs DEF Mem
      <3>2. QED
        BY <2>2, <2>3, <2>4, <2>5, <3>1, CatOfThree
    <2> HIDE DEF of, a
    <2>8. \A m, n \in Nat : Join(Mem(of, a, m), Mem(of, a + m, n)) = Mem(of, a, m + n)
      BY <2>1, RunsOnAlone
    <2>9. Join(Mem(of, a, 16), Mem(of, a + 16, size - 48)) = Mem(of, a, size - 32)
      <3>1. size - 48 \in Nat /\ 16 + (size - 48) = size - 32
        BY <2>1
      <3>2. QED
        BY <2>8, <3>1
    <2>10. Join(Mem(of, a, size - 32), Mem(of, a + (size - 32), 32)) = Mem(of, a, size)
      <3>1. size - 32 \in Nat /\ (size - 32) + 32 = size
        BY <2>1
      <3>2. QED
        BY <2>8, <3>1
    <2>11. QED
      BY <2>6, <2>7, <2>9, <2>10 DEF c
  <1>3. QED
    BY <1>1, <1>2

(* where the payload of a packet the harness took begins, and its length *)
LEMMA UnpackedPlaces ==
  ASSUME NEW b, IsLine(b), Unpacked(b).ok
  PROVE  Unpacked(b).at \in Nat /\ Unpacked(b).payload_len \in Nat
  <1> DEFINE c == [b EXCEPT !.hops = 0]
  <1>1. ~(b.len < HeaderLen(b)) /\ Unpacked(b) = [Header(c) EXCEPT !.hops = b.hops]
    BY DEF Unpacked
  <1>2. IsLine(c) /\ c.hops = 0 /\ c.len = b.len /\ c.flags = b.flags
    BY DEF IsLine
  <1> HIDE DEF c
  <1>3. HeaderLen(c) = HeaderLen(b) /\ HeaderLen(b) >= 19 /\ HeaderLen(b) \in Nat
    <2>1. b.flags \in Nat
      BY DEF IsLine
    <2>2. Bits(b.flags, 6, 1) \in 0..1
      BY <2>1, BitRanges
    <2>3. QED
      BY <1>2, <2>2 DEF HeaderLen, ADDRLEN
  <1>4. Header(c).ok
    <2>1. ~(c.len < 2) /\ ~(c.hops >= MAX_HOPS) /\ ~(c.len < HeaderLen(c))
      BY <1>1, <1>2, <1>3 DEF IsLine, MAX_HOPS
    <2>2. QED
      BY <2>1 DEF Header
  <1>5. Header(c).at \in Nat /\ Header(c).payload_len \in Nat
    BY <1>2, <1>4, HeaderPlaces
  <1>6. [Header(c) EXCEPT !.hops = b.hops].at = Header(c).at
        /\ [Header(c) EXCEPT !.hops = b.hops].payload_len = Header(c).payload_len
    <2>1. DOMAIN Header(c) = DOMAIN Header(c)
      OBVIOUS
    <2>2. QED
      BY <1>4 DEF Header, Fault
  <1>7. QED
    BY <1>1, <1>5, <1>6

(* what a run of the harness says of a token: nothing, or one cut in three  *)
TokenIn(m, t) == /\ Gives(m, "iv", Hex(t.iv))
                 /\ Gives(m, "ciphertext", Hex(t.ciphertext))
                 /\ Gives(m, "hmac", Hex(t.mac))
TokenNames == {"iv", "ciphertext", "hmac"}
TokenSaid(m, p, from) ==
  Lacks(m, {"iv"}) \/ (TokenIn(m, Cut(p, from)) /\ p.at \in Nat /\ p.payload_len \in Nat)

(* faults and headers say nothing of a token *)
LEMMA FaultsLack ==
  /\ \A b : Lacks(ShortHeader(b), {"iv"})
  /\ \A h, n : Lacks(ShortPayload(h, n), {"iv"})
  /\ \A h, x, m, y, n : x # "iv" /\ y # "iv" => Lacks(NeitherLength(h, x, m, y, n), {"iv"})
  <1>1. ASSUME NEW b PROVE Lacks(ShortHeader(b), {"iv"})
    <2>1. ShortHeader(b) = Rejection("short-header",
            <<Field("length", Decimal(b.len)), Field("minimum_length", Decimal(header_minimum(b)))>>)
      BY DEF ShortHeader, Fault
    <2>2. QED
      BY <2>1, RejectionLines, NumbersOf DEF Lacks
  <1>2. \A h, n : Lacks(ShortPayload(h, n), {"iv"})
    BY PayloadFaults DEF Lacks
  <1>3. \A h, x, m, y, n : x # "iv" /\ y # "iv" => Lacks(NeitherLength(h, x, m, y, n), {"iv"})
    BY LengthFaults DEF Lacks
  <1>4. QED
    BY <1>1, <1>2, <1>3

LEMMA HeaderLacks ==
  ASSUME NEW h, NEW names, names \intersect HeaderNames = {}
  PROVE  Lacks(PrintHeader(h), names)
  BY HeaderLines DEF Lacks

LEMMA TokenGives ==
  ASSUME NEW t
  PROVE  TokenIn(PrintToken(t), t)
  <1>1. "iv" # "ciphertext" /\ "iv" # "hmac" /\ "ciphertext" # "hmac"
    OBVIOUS
  <1>2. QED
    BY <1>1, FewGive DEF PrintToken, TokenIn

(* three names first given in the middle of a run stay what they are *)
LEMMA TokenAmid ==
  ASSUME NEW front, Lacks(front, TokenNames), NEW t
  PROVE  /\ TokenIn(front \o PrintToken(t), t)
         /\ \A m, behind : TokenIn(m, t) /\ IsSeq(behind) => TokenIn(m \o behind, t)
  <1>1. TokenIn(PrintToken(t), t)
    BY TokenGives
  <1>2. TokenIn(front \o PrintToken(t), t)
    BY <1>1, GivesBehind DEF TokenIn, TokenNames
  <1>3. QED
    BY <1>2, GivesOn DEF TokenIn

LEMMA FewerLack ==
  ASSUME NEW s, Lacks(s, TokenNames)
  PROVE  Lacks(s, {"iv"})
  BY DEF Lacks, TokenNames

LEMMA VerdictIsASeq ==
  ASSUME NEW t, NEW lines, IsSeq(lines)
  PROVE  IsSeq(PrintVerdict(t, lines))
  <1> DEFINE one == <<Field("hmac_valid", t.verdict)>>
             rest == IF ~t.mac_ok THEN <<Field("plaintext_length", Dash), Field("plaintext", Dash)>>
                     ELSE lines
  <1>1. IsSeq(one) /\ IsSeq(rest)
    BY TuplesAreSeqs
  <1> HIDE DEF one, rest
  <1>2. IsSeq(one \o rest)
    BY <1>1, SeqsJoin
  <1>3. QED
    BY <1>2 DEF PrintVerdict, one, rest

(* the two kinds with a token *)
LEMMA EncryptedToken ==
  ASSUME NEW b, IsLine(b[3]), NEW sees
  PROVE  TokenSaid(kind_encrypted(b, sees), Unpacked(b[3]), KEYHALF)
  <1> DEFINE echo == <<Field("recipient_private", Hex(Whole(b[1]))),
                Field("ratchet_private", IF b[2].absent THEN Dash ELSE Hex(Whole(b[2])))>>
             p  == Unpacked(b[3])
             identity_hash == Sha256(Cat(PublicPair(b[1])), ADDRLEN)
             agree == IF b[2].absent THEN At(b[1], 0, KEYHALF) ELSE Whole(b[2])
             k  == KeysOf(agree, Mid(p, 0, KEYHALF), identity_hash)
             t  == Opened(p, KEYHALF, k, sees)
             read == t.opened /\ b[2].absent
             ephemeral == <<Field("ephemeral_public", Hex(Mid(p, 0, KEYHALF)))>>
             ids == <<Field("identity_hash", Hex(identity_hash)),
                Field("ratchet_public", IF b[2].absent THEN Dash
                                        ELSE Hex(PublicOf(Whole(b[2]), KEYHALF)))>>
             plain == IF read THEN PrintPlain(t.ptlen, Mem(t.plain, 0, t.ptlen))
                              ELSE PrintPlain(0, << >>)
             header == PrintHeader(p)
             keys == PrintKeys(k)
             verdict == PrintVerdict(t, plain)
             front == echo \o header \o ephemeral
             cut == Cut(p, KEYHALF)
             all == front \o PrintToken(cut) \o ids \o keys \o verdict
             short == ShortPayload(p, KEYHALF + TOKEN_OVERHEAD)
  <1>1. \/ kind_encrypted(b, sees) = echo \o ShortHeader(b[3])
        \/ kind_encrypted(b, sees) = echo \o short
        \/ kind_encrypted(b, sees) = Crashed
        \/ p.ok /\ kind_encrypted(b, sees) = all
    BY ONLY DEF kind_encrypted
  <1>2. /\ Lacks(echo, TokenNames) /\ Lacks(ephemeral, TokenNames)
    BY FewLack DEF TokenNames
  <1>3. Lacks(header, TokenNames)
    BY HeaderLacks DEF TokenNames, HeaderNames
  <1>4. IsSeq(ids) /\ IsSeq(keys) /\ IsSeq(plain)
    BY TuplesAreSeqs DEF PrintKeys, PrintPlain
  <1>5. IsSeq(verdict)
    BY <1>4, VerdictIsASeq
  <1>6. p.ok => p.at \in Nat /\ p.payload_len \in Nat
    BY UnpackedPlaces
  <1>7. Lacks(ShortHeader(b[3]), {"iv"}) /\ Lacks(short, {"iv"}) /\ Lacks(Crashed, {"iv"})
    BY FaultsLack, FewLack DEF Crashed
  <1> HIDE DEF echo, p, ephemeral, ids, header, keys, verdict, cut, short
  <1>8. Lacks(front, TokenNames)
    BY <1>2, <1>3, LacksOn
  <1> HIDE DEF front
  <1>9. TokenIn(all, cut)
    BY <1>4, <1>5, <1>8, TokenAmid
  <1> HIDE DEF all
  <1>10. Lacks(echo, {"iv"})
    BY <1>2, FewerLack
  <1>11. Lacks(echo \o ShortHeader(b[3]), {"iv"}) /\ Lacks(echo \o short, {"iv"})
    BY <1>7, <1>10, LacksOn
  <1>12. QED
    BY <1>1, <1>6, <1>7, <1>9, <1>11 DEF TokenSaid, p, cut

LEMMA ReadIsASeq ==
  ASSUME NEW context, NEW t, NEW link_id
  PROVE  IsSeq(Read(context, t, link_id))
  <1> DEFINE key == PlainAt(t, 0, KEYSIZE)
             sig == PlainAt(t, KEYSIZE, SIGLEN)
             signed == Cat(<<link_id, key>>)
             names == <<"msgtype", "sequence", "declared_length", "message">>
             dashes == [i \in 1..4 |-> Field(names[i], Dash)]
             identity == <<Field("identity_public", Hex(key)),
                           Field("identity_hash", Hex(Sha256(key, ADDRLEN))),
                           Field("identity_signed", Hex(signed)),
                           Field("identity_valid", Verifies(PlainAt(t, KEYHALF, KEYHALF), sig, signed))>>
             advertised == <<Field("body", <<"ResourceAdvertisement::unpack", PlainAt(t, 0, t.ptlen)>>)>>
             dashed == <<Field("body", Dash)>>
             exact == t.ptlen = KEYSIZE + SIGLEN
             m == Read(context, t, link_id)
  <1>1. m = CASE context = "channel" /\ HasEnvelope(t) -> dashes
              [] context = "resource_adv" -> advertised
              [] context \in Unread -> dashed
              [] context = "link_identify" /\ exact -> identity
              [] OTHER -> << >>
    BY DEF Read
  <1>2. IsSeq(dashes)
    <2>1. dashes \in Seq({dashes[i] : i \in 1..4})
      OBVIOUS
    <2>2. QED
      BY <2>1 DEF IsSeq
  <1>3. IsSeq(advertised) /\ IsSeq(dashed) /\ IsSeq(identity) /\ IsSeq(<< >>)
    BY TuplesAreSeqs
  <1>4. "resource_adv" \notin Unread /\ "channel" \notin Unread /\ "link_identify" \notin Unread
    BY DEF Unread
  <1> HIDE DEF dashes, advertised, dashed, identity, exact, m
  <1>5. m \in {dashes, advertised, dashed, identity, << >>}
    BY <1>1, <1>4
  <1>6. QED
    BY <1>2, <1>3, <1>5 DEF m

LEMMA LinkDataToken ==
  ASSUME NEW b, IsLine(b[3]), NEW sees
  PROVE  TokenSaid(kind_linkdata(b, sees), Unpacked(b[3]), 0)
  <1> DEFINE p == Unpacked(b[3])
             request == Unpacked(b[1])
             link_id == LinkId(b[1], request)
             context == IF p.context \in DOMAIN ContextName THEN ContextName[p.context] ELSE "unnamed"
             k == KeysOf(Whole(b[2]), Mid(request, 0, KEYHALF), link_id)
             t == Opened(p, 0, k, sees)
             echo == <<Field("link_request", Hex(Whole(b[1]))),
                       Field("responder_private", Hex(Whole(b[2])))>>
             header == PrintHeader(p)
             match == <<Field("link_id", Hex(link_id)),
                        Field("link_id_match", Equal(p.destination_hash, link_id))>>
             linked == echo \o header \o match
             bare == PrintPlain(p.payload_len, Behind(p, 0))
             no == <<Field("encrypted", Word("no"))>>
             yes == <<Field("encrypted", Word("yes"))>>
             plain == PrintPlain(t.ptlen, Mem(t.plain, 0, t.ptlen))
             body == Read(context, t, link_id)
             keys == PrintKeys(k)
             verdict == PrintVerdict(t, plain \o body)
             front == linked \o yes
             cut == Cut(p, 0)
             all == front \o PrintToken(cut) \o keys \o verdict
  <1>1. \/ kind_linkdata(b, sees) = echo \o ShortHeader(b[3])
        \/ kind_linkdata(b, sees) = linked \o no \o bare
        \/ kind_linkdata(b, sees) \in {Crashed, Thrown}
        \/ p.ok /\ kind_linkdata(b, sees) = all
    BY ONLY DEF kind_linkdata
  <1>2. /\ Lacks(echo, TokenNames) /\ Lacks(match, TokenNames) /\ Lacks(no, TokenNames)
        /\ Lacks(yes, TokenNames) /\ Lacks(bare, TokenNames)
    BY FewLack DEF TokenNames, PrintPlain
  <1>3. Lacks(header, TokenNames)
    BY HeaderLacks DEF TokenNames, HeaderNames
  <1>4. IsSeq(keys) /\ IsSeq(plain)
    BY TuplesAreSeqs DEF PrintKeys, PrintPlain
  <1>5. IsSeq(body)
    BY ReadIsASeq
  <1>6. IsSeq(verdict)
    <2> HIDE DEF plain, body, t
    <2>1. IsSeq(plain \o body)
      BY <1>4, <1>5, SeqsJoin
    <2>2. QED
      BY <2>1, VerdictIsASeq
  <1>7. p.ok => p.at \in Nat /\ p.payload_len \in Nat
    BY UnpackedPlaces
  <1>8. Lacks(ShortHeader(b[3]), {"iv"}) /\ Lacks(Crashed, {"iv"}) /\ Lacks(Thrown, {"iv"})
    BY FaultsLack, FewLack DEF Crashed, Thrown
  <1> HIDE DEF p, echo, header, match, bare, no, yes, keys, verdict, cut
  <1>9. Lacks(linked, TokenNames)
    BY <1>2, <1>3, LacksOn
  <1> HIDE DEF linked
  <1>10. Lacks(front, TokenNames) /\ Lacks(linked \o no \o bare, TokenNames)
    BY <1>2, <1>9, LacksOn
  <1> HIDE DEF front
  <1>11. TokenIn(all, cut)
    BY <1>4, <1>6, <1>10, TokenAmid
  <1> HIDE DEF all
  <1>12. Lacks(echo, {"iv"}) /\ Lacks(linked \o no \o bare, {"iv"})
    BY <1>2, <1>10, FewerLack
  <1>13. Lacks(echo \o ShortHeader(b[3]), {"iv"})
    BY <1>8, <1>12, LacksOn
  <1>14. QED
    BY <1>1, <1>7, <1>8, <1>11, <1>12, <1>13 DEF TokenSaid, p, cut

(* the kinds without a token *)
LEMMA PartsLack ==
  /\ \A h : Lacks(PrintHeader(h), {"iv"})
  /\ \A s : Lacks(PrintSignalling(s), {"iv"})
  <1>1. \A h : Lacks(PrintHeader(h), {"iv"})
    BY HeaderLacks DEF HeaderNames
  <1>2. \A s : Lacks(PrintSignalling(s), {"iv"})
    BY FewLack DEF PrintSignalling
  <1>3. QED
    BY <1>1, <1>2

LEMMA LinkRequestTokenless ==
  ASSUME NEW b
  PROVE  Lacks(kind_linkrequest(b), {"iv"})
  <1> DEFINE p == Unpacked(b[1])
             signalled == p.payload_len = ECPUBSIZE + SIGNALLEN
             fault == NeitherLength(p, "accepted_length", ECPUBSIZE,
                              "signalled_length", ECPUBSIZE + SIGNALLEN)
             header == PrintHeader(p)
             keys == <<Field("x25519_public", Hex(Mid(p, 0, KEYHALF))),
                       Field("ed25519_public", Hex(Mid(p, KEYHALF, KEYHALF)))>>
             signalling == PrintSignalling(IF signalled THEN Behind(p, ECPUBSIZE) ELSE << >>)
             said == <<Field("link_id", Hex(LinkId(b[1], p)))>>
             all == header \o keys \o signalling \o said
  <1>1. kind_linkrequest(b) \in {ShortHeader(b[1]), fault, all}
    BY ONLY DEF kind_linkrequest
  <1>2. /\ Lacks(header, {"iv"}) /\ Lacks(keys, {"iv"}) /\ Lacks(signalling, {"iv"})
        /\ Lacks(said, {"iv"})
    BY PartsLack, FewLack
  <1>3. Lacks(ShortHeader(b[1]), {"iv"}) /\ Lacks(fault, {"iv"})
    BY FaultsLack
  <1> HIDE DEF fault, header, keys, signalling, said
  <1>4. Lacks(all, {"iv"})
    BY <1>2, LacksOn
  <1>5. QED
    BY <1>1, <1>3, <1>4

LEMMA LinkProofTokenless ==
  ASSUME NEW b
  PROVE  Lacks(kind_linkproof(b), {"iv"})
  <1> DEFINE echo == <<Field("link_request", Hex(Whole(b[1]))),
                       Field("signer_public", Hex(Whole(b[2])))>>
             p == Unpacked(b[3])
             short      == SIGLEN + KEYHALF
             signalled  == p.payload_len = short + SIGNALLEN
             link_id    == LinkId(b[1], Unpacked(b[1]))
             x25519     == Mid(p, SIGLEN, KEYHALF)
             signalling == IF signalled THEN Behind(p, short) ELSE << >>
             signer_ed  == At(b[2], KEYHALF, KEYHALF)
             signed_data == Cat(<<link_id, x25519, signer_ed, signalling>>)
             fault == NeitherLength(p, "accepted_length", short,
                                      "signalled_length", short + SIGNALLEN)
             header == PrintHeader(p)
             four == <<Field("link_id", Hex(link_id)),
                Field("link_id_match", Equal(p.destination_hash, link_id)),
                Field("signature", Hex(Mid(p, 0, SIGLEN))),
                Field("x25519_public", Hex(x25519))>>
             modes == PrintSignalling(signalling)
             last == <<Field("signer_ed25519", Hex(signer_ed)),
                Field("signed_data", Hex(signed_data)),
                Field("signature_valid", Verifies(signer_ed, Mid(p, 0, SIGLEN), signed_data))>>
             all == echo \o header \o four \o modes \o last
  <1>1. kind_linkproof(b) \in {echo \o ShortHeader(b[3]), echo \o fault, all}
    BY ONLY DEF kind_linkproof
  <1>2. Lacks(echo, {"iv"}) /\ Lacks(header, {"iv"}) /\ Lacks(modes, {"iv"})
    BY PartsLack, FewLack
  <1>3. Lacks(four, {"iv"}) /\ Lacks(last, {"iv"})
    BY FewLack
  <1>4. Lacks(ShortHeader(b[3]), {"iv"}) /\ Lacks(fault, {"iv"})
    BY FaultsLack
  <1> HIDE DEF echo, fault, header, four, modes, last
  <1>5. Lacks(all, {"iv"}) /\ Lacks(echo \o ShortHeader(b[3]), {"iv"}) /\ Lacks(echo \o fault, {"iv"})
    BY <1>2, <1>3, <1>4, LacksOn
  <1>6. QED
    BY <1>1, <1>5

LEMMA AnnounceTokenless ==
  ASSUME NEW b
  PROVE  Lacks(kind_announce(b), {"iv"})
  <1> DEFINE p == Unpacked(b[1])
             a == Announce(p)
             all == PrintAnnounce(p, a)
  <1>1. kind_announce(b) = IF ~p.ok THEN ShortHeader(b[1]) ELSE IF ~a.ok THEN a.lines ELSE all
    BY DEF kind_announce
  <1>2. ~a.ok => \E n : a.lines = ShortPayload(p, n)
    BY DEF Announce
  <1>3. Lacks(ShortHeader(b[1]), {"iv"}) /\ (~a.ok => Lacks(a.lines, {"iv"}))
    BY <1>2, FaultsLack
  <1>4. Lacks(all, {"iv"})
    <2> HIDE DEF p, a
    <2> DEFINE id == Sha256(a.public_key, ADDRLEN)
               expected == Sha256(Cat(<<a.name_hash, id>>), ADDRLEN)
               signed == Cat(<<p.destination_hash, a.public_key, a.name_hash,
                               a.random_hash, a.ratchet, a.app_data>>)
               t == <<Field("public_key", Hex(a.public_key)),
                      Field("name_hash", Hex(a.name_hash)),
                      Field("random_hash", Hex(a.random_hash)),
                      Field("ratchet", Hex(a.ratchet)),
                      Field("signature", Hex(a.signature)),
                      Field("app_data", Hex(a.app_data)),
                      Field("identity_hash", Hex(id)),
                      Field("expected_hash", Hex(expected)),
                      Field("destination_match", Equal(p.destination_hash, expected)),
                      Field("signed_data", Hex(signed)),
                      Field("signature_valid", Verifies(a.signer, a.signature, signed))>>
               header == PrintHeader(p)
    <2>1. all = header \o t
      BY DEF PrintAnnounce
    <2> HIDE DEF id, expected, signed
    <2>2. Len(t) = 11 /\ t = [i \in 1..11 |-> t[i]]
      OBVIOUS
    <2>3. /\ t[1].name = "public_key" /\ t[2].name = "name_hash" /\ t[3].name = "random_hash"
          /\ t[4].name = "ratchet" /\ t[5].name = "signature" /\ t[6].name = "app_data"
          /\ t[7].name = "identity_hash" /\ t[8].name = "expected_hash"
          /\ t[9].name = "destination_match" /\ t[10].name = "signed_data"
          /\ t[11].name = "signature_valid"
      BY DEF Field
    <2> HIDE DEF t
    <2>4. \A i \in 1..11 : t[i].name # "iv"
      <3>1. \A i \in 1..11 : i \in {1, 2, 3, 4, 5, 6, 7, 8, 9, 10, 11}
        OBVIOUS
      <3>2. \A i \in {1, 2, 3, 4, 5, 6, 7, 8, 9, 10, 11} : t[i].name # "iv"
        BY <2>3
      <3>3. QED
        BY <3>1, <3>2
    <2>5. Lacks(t, {"iv"})
      <3>1. IsSeq(t) /\ Names(t) = {t[i].name : i \in 1..11}
        BY <2>2, FieldsOf, ZenonT(30)
      <3>2. QED
        BY <2>4, <3>1 DEF Lacks
    <2>6. Lacks(header, {"iv"})
      BY PartsLack
    <2> HIDE DEF header
    <2>7. Lacks(header \o t, {"iv"})
      BY <2>5, <2>6, LacksOn
    <2>8. QED
      BY <2>1, <2>7
  <1>5. QED
    BY <1>1, <1>3, <1>4

LEMMA ProofTokenless ==
  ASSUME NEW b
  PROVE  Lacks(kind_proof(b), {"iv"})
  <1> DEFINE echo == <<Field("proved_packet", Hex(Whole(b[1]))),
                       Field("signer_public", Hex(Whole(b[2])))>>
             proved == Unpacked(b[1])
             p      == Unpacked(b[3])
             explicit_form == p.payload_len = HASHLEN + SIGLEN
             on_link     == p.destination_type = 3
             packet_hash == PacketHash(b[1], proved)
             signature   == IF explicit_form THEN Behind(p, HASHLEN) ELSE Behind(p, 0)
             signer      == IF on_link THEN Whole(b[2]) ELSE At(b[2], KEYHALF, KEYHALF)
             address     == IF on_link THEN proved.destination_hash
                            ELSE Mem(packet_hash[1].of, 0, ADDRLEN)
             header == PrintHeader(p)
             v1 == Word(IF explicit_form THEN "explicit" ELSE "implicit")
             v2 == Hex(packet_hash)
             v3 == IF explicit_form THEN Hex(Mid(p, 0, HASHLEN)) ELSE Dash
             v4 == IF explicit_form THEN Equal(Mid(p, 0, HASHLEN), packet_hash) ELSE Word("yes")
             n5 == IF on_link THEN "link_id" ELSE "proof_destination"
             v5 == Hex(address)
             n6 == IF on_link THEN "link_id_match" ELSE "destination_match"
             v6 == Equal(p.destination_hash, address)
             v7 == Hex(signature)
             v8 == Hex(signer)
             v9 == Verifies(signer, signature, packet_hash)
             t == <<Field("form", v1), Field("packet_hash", v2), Field("proof_hash", v3),
                    Field("hash_match", v4), Field(n5, v5), Field(n6, v6), Field("signature", v7),
                    Field("signer_ed25519", v8), Field("signature_valid", v9)>>
             all == echo \o header \o t
  <1>1. kind_proof(b) \in {echo \o ShortHeader(b[1]), echo \o ShortHeader(b[3]), all}
    BY ONLY DEF kind_proof
  <1>2. Lacks(echo, {"iv"}) /\ Lacks(header, {"iv"})
    BY PartsLack, FewLack
  <1>3. Lacks(ShortHeader(b[1]), {"iv"}) /\ Lacks(ShortHeader(b[3]), {"iv"})
    BY FaultsLack
  <1>4. Lacks(t, {"iv"})
    <2>1. n5 # "iv" /\ n6 # "iv"
      OBVIOUS
    <2> HIDE DEF v1, v2, v3, v4, v5, v6, v7, v8, v9, n5, n6
    <2>2. t = <<Field("form", v1), Field("packet_hash", v2), Field("proof_hash", v3), Field("hash_match", v4)>>
              \o <<Field(n5, v5), Field(n6, v6)>>
              \o <<Field("signature", v7), Field("signer_ed25519", v8), Field("signature_valid", v9)>>
      BY NineFields
    <2> DEFINE a == <<Field("form", v1), Field("packet_hash", v2), Field("proof_hash", v3), Field("hash_match", v4)>>
               c == <<Field(n5, v5), Field(n6, v6)>>
               d == <<Field("signature", v7), Field("signer_ed25519", v8), Field("signature_valid", v9)>>
    <2>3. Lacks(a, {"iv"}) /\ Lacks(c, {"iv"}) /\ Lacks(d, {"iv"})
      BY <2>1, FewLack
    <2> HIDE DEF a, c, d
    <2>4. Lacks(a \o c \o d, {"iv"})
      BY <2>3, LacksOn
    <2>5. QED
      BY <2>2, <2>4 DEF a, c, d
  <1> HIDE DEF echo, header, t
  <1>5. /\ Lacks(all, {"iv"}) /\ Lacks(echo \o ShortHeader(b[1]), {"iv"})
        /\ Lacks(echo \o ShortHeader(b[3]), {"iv"})
    BY <1>2, <1>3, <1>4, LacksOn
  <1>6. QED
    BY <1>1, <1>5

LEMMA DestinationTokenless ==
  ASSUME NEW b, IsLine(b[1]), NEW names, Joined(b[1], names)
  PROVE  Lacks(kind_destination(b), {"iv"})
  <1> DEFINE one == <<Field("name", Hex(Whole(b[1])))>>
             parts == aspects(b[1])
             three == <<Field("name_hash", Hex(NameHash(b[1]))),
               Field("identity_hash", IF b[2].absent THEN Dash ELSE Hex(Whole(b[2]))),
               Field("destination_hash", Hex(Sha256(Cat(<<NameHash(b[1]), Whole(b[2])>>), ADDRLEN)))>>
  <1>1. kind_destination(b) = one \o parts \o three
    BY ONLY DEF kind_destination
  <1>2. Lacks(one, {"iv"}) /\ Lacks(three, {"iv"})
    BY FewLack
  <1>3. Lacks(parts, {"iv"})
    <2>1. parts = [i \in 1..Len(names) |-> parts[i]] /\ Len(names) \in Nat
      BY AspectsAreComponents, JoinedParts
    <2>2. \A i \in DOMAIN parts : \E v : parts[i] = Field(IF i = 1 THEN "app_name" ELSE "aspect", v)
      BY DEF aspects
    <2> HIDE DEF parts
    <2>3. Len(parts) = Len(names) /\ DOMAIN parts = 1..Len(names)
      BY <2>1
    <2>4. \A i \in 1..Len(names) : parts[i].name \in {"app_name", "aspect"}
      BY <2>2, <2>3, FieldParts
    <2>5. \A i \in 1..Len(names) : parts[i].name \notin {"iv"}
      BY <2>4
    <2>6. IsSeq(parts) /\ Names(parts) = {parts[i].name : i \in 1..Len(names)}
      BY <2>1, <2>3, FieldsOf, ZenonT(30)
    <2>7. QED
      BY <2>5, <2>6 DEF Lacks
  <1> HIDE DEF one, parts, three
  <1>4. Lacks(one \o parts \o three, {"iv"})
    BY <1>2, <1>3, LacksOn
  <1>5. QED
    BY <1>1, <1>4

(* every answer of the harness *)
LEMMA AnswersCutOnce == ThreeReaders => TokenCutOnce
  <1> DEFINE b == vector.b
             sees == vector.sees
             kind == vector.kind
             p == Unpacked(vector.b[3])
             from == IF vector.kind = "encrypted" THEN KEYHALF ELSE 0
             m == Micro(vector)
             iv == Lookup(micro, "iv")[2]
             ct == Lookup(micro, "ciphertext")[2]
             mac == Lookup(micro, "hmac")[2]
  <1> SUFFICES ASSUME ThreeReaders, stage = "answered", Holds(micro, "iv")
               PROVE  Cat(<<iv, ct, mac>>) \in {<< >>, Behind(p, from)}
    BY DEF TokenCutOnce
  <1>1. vector \in Vectors /\ kind \in Answered /\ micro = m
    BY DEF ThreeReaders, OneVector
  <1>2. WellMade(vector)
    BY <1>1, VectorsAssumption
  <1>3. Len(b) = Blobs(kind) /\ \A i \in 1..Blobs(kind) : IsLine(b[i])
    BY <1>2 DEF WellMade
  <1>4. kind \in {"destination", "announce", "encrypted", "linkrequest", "linkproof", "linkdata", "proof"}
    BY <1>1 DEF Answered
  <1>5. TokenSaid(micro, p, from)
    <2>1. CASE kind = "destination"
      <3>1. IsLine(b[1]) /\ Joined(b[1], vector.names)
        BY <1>2, <1>3, <2>1 DEF Blobs, WellMade
      <3>2. m = kind_destination(b)
        BY <2>1 DEF Micro
      <3> HIDE DEF b
      <3>3. Lacks(kind_destination(b), {"iv"})
        BY <3>1, DestinationTokenless
      <3>4. QED
        BY <1>1, <3>2, <3>3 DEF TokenSaid
    <2>2. CASE kind \in {"announce", "linkrequest", "linkproof", "proof"}
      <3>1. m \in {kind_announce(b), kind_linkrequest(b), kind_linkproof(b), kind_proof(b)}
        BY <2>2 DEF Micro
      <3> HIDE DEF b, m
      <3>2. Lacks(m, {"iv"})
        BY <3>1, AnnounceTokenless, LinkRequestTokenless, LinkProofTokenless, ProofTokenless
      <3>3. QED
        BY <1>1, <3>2 DEF TokenSaid
    <2>3. CASE kind \in {"encrypted", "linkdata"}
      <3>1. IsLine(b[3])
        BY <1>3, <2>3 DEF Blobs
      <3>2. \/ m = kind_encrypted(b, sees) /\ from = KEYHALF
            \/ m = kind_linkdata(b, sees) /\ from = 0
        BY <2>3 DEF Micro
      <3> HIDE DEF m, sees, from
      <3>3. /\ TokenSaid(kind_encrypted(b, sees), p, KEYHALF)
            /\ TokenSaid(kind_linkdata(b, sees), p, 0)
        BY <3>1, EncryptedToken, LinkDataToken
      <3>4. QED
        BY <1>1, <3>2, <3>3
    <2>4. QED
      BY <1>4, <2>1, <2>2, <2>3
  <1> DEFINE c == Cut(p, from)
  <1>6. TokenIn(micro, c) /\ p.at \in Nat /\ p.payload_len \in Nat
    BY <1>5 DEF TokenSaid, Lacks, Holds
  <1>7. iv = c.iv /\ ct = c.ciphertext /\ mac = c.mac
    <2> HIDE DEF c
    <2>1. \A x : Hex(x)[2] = x
      BY DEF Hex
    <2>2. QED
      BY <1>6, <2>1 DEF TokenIn, Gives
  <1>8. from \in Nat
    BY DEF KEYHALF
  <1> HIDE DEF p, from, iv, ct, mac
  <1>9. Cat(<<c.iv, c.ciphertext, c.mac>>) \in {<< >>, Behind(p, from)}
    BY <1>6, <1>8, PartsOfAToken
  <1>10. QED
    BY <1>7, <1>9

(* The three values the harness prints of a token are its bytes, each once  *)
(* and none left out, or three dashes, however short the payload.           *)
THEOREM HarnessCutsOnce == HarnessSpec => []TokenCutOnce
  BY ThreeReadersAlways, AnswersCutOnce, PTL
=============================================================================
