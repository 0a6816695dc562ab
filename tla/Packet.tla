------------------------------- MODULE Packet -------------------------------
(***************************************************************************)
(* What the decoders of cmd/dump.c share: parse_header, parse_announce, the *)
(* hashes over a packet, token_open, and the functions that print them.     *)
(*                                                                          *)
(* b is one line of the raw file, a struct blob: b.line is which one, b.len *)
(* how many bytes it has, b.absent that it was "-"; b.flags, b.hops and     *)
(* b.context are the bytes at those places when it is a packet.  sees is    *)
(* what the cryptography says of the bytes: whether the key agreement gives *)
(* a secret, whether the hmac verifies, and the last byte of what AES-CBC   *)
(* decrypts.                                                                *)
(***************************************************************************)
EXTENDS Octets, Sizes

Whole(b) == Mem(Line(b.line), 0, b.len)
At(b, from, n) == Mem(Line(b.line), from, n)

Fault(rule, gotname, got, needname, need) ==
  [ok |-> FALSE,
   lines |-> Rejection(rule, <<Field(gotname, Decimal(got)),
                               Field(needname, Decimal(need))>>)]

HeaderLen(b) == 3 + ADDRLEN * (Bits(b.flags, 6, 1) + 1)

(* parse_header *)
Header(b) ==
  LET type == Bits(b.flags, 6, 1)
      len  == HeaderLen(b)
  IN  IF b.len < 2 THEN Fault("short-header", "length", b.len, "minimum_length", 2)
      ELSE IF b.hops >= MAX_HOPS THEN Fault("hop-limit", "hops", b.hops, "hop_limit", MAX_HOPS)
      ELSE IF b.len < len THEN Fault("short-header", "length", b.len, "minimum_length", len)
      ELSE [ok |-> TRUE, flags |-> b.flags, hops |-> b.hops, type |-> type,
            context_flag |-> Bits(b.flags, 5, 1),
            destination_type |-> Bits(b.flags, 2, 2),
            transport_id |-> IF type = 1 THEN At(b, 2, ADDRLEN) ELSE << >>,
            destination_hash |-> At(b, IF type = 1 THEN 2 + ADDRLEN ELSE 2, ADDRLEN),
            context |-> b.context, line |-> b.line,
            at |-> len, payload_len |-> b.len - len]

(* n bytes of the payload *)
Payload(h, from, n) == Mem(Line(h.line), h.at + from, n)

PrintHeader(h) == <<
  Field("flags", Hex(Literal(h.flags))),
  Field("header_type", Decimal(h.type + 1)),
  Field("context_flag", Decimal(h.context_flag)),
  Field("transport_type", Decimal(Bits(h.flags, 4, 1))),
  Field("destination_type", Decimal(h.destination_type)),
  Field("packet_type", Decimal(Bits(h.flags, 0, 2))),
  Field("hops", Decimal(h.hops)),
  Field("transport_id", Hex(h.transport_id)),
  Field("destination_hash", Hex(h.destination_hash)),
  Field("context", IF h.context \in DOMAIN ContextName
                   THEN Word(ContextName[h.context]) ELSE Hex(Literal(h.context))),
  Field("payload_length", Decimal(h.payload_len))>>

ShortPayload(h, need) ==
  Fault("short-payload", "payload_length", h.payload_len, "minimum_length", need).lines

NeitherLength(h, first, short, second, long) ==
  Rejection("invalid-length",
            <<Field("payload_length", Decimal(h.payload_len)),
              Field(first, Decimal(short)), Field(second, Decimal(long))>>)

-----------------------------------------------------------------------------
(* parse_announce: where each part of the payload is *)
RatchetLen(h) == IF h.context_flag = 1 THEN RATCHETLEN ELSE 0

Announce(h) ==
  LET ratchet   == RatchetLen(h)
      name      == KEYSIZE
      random    == name + NAMEHASHLEN
      rat       == random + RANDHASHLEN
      signature == rat + ratchet
      app       == signature + SIGLEN
  IN  IF h.payload_len < app
      THEN [ok |-> FALSE, lines |-> ShortPayload(h, app)]
      ELSE [ok |-> TRUE,
            public_key  |-> Payload(h, 0, KEYSIZE),
            name_hash   |-> Payload(h, name, NAMEHASHLEN),
            random_hash |-> Payload(h, random, RANDHASHLEN),
            ratchet     |-> Payload(h, rat, ratchet),
            signature   |-> Payload(h, signature, SIGLEN),
            app_data    |-> Payload(h, app, h.payload_len - app),
            signer      |-> Payload(h, KEYHALF, KEYHALF)]

PrintAnnounce(h, a) ==
  LET identity_hash == Sha256(a.public_key, ADDRLEN)
      expected_hash == Sha256(Cat(<<a.name_hash, identity_hash>>), ADDRLEN)
      signed_data   == Cat(<<h.destination_hash, a.public_key, a.name_hash,
                             a.random_hash, a.ratchet, a.app_data>>)
  IN  PrintHeader(h) \o <<
        Field("public_key", Hex(a.public_key)),
        Field("name_hash", Hex(a.name_hash)),
        Field("random_hash", Hex(a.random_hash)),
        Field("ratchet", Hex(a.ratchet)),
        Field("signature", Hex(a.signature)),
        Field("app_data", Hex(a.app_data)),
        Field("identity_hash", Hex(identity_hash)),
        Field("expected_hash", Hex(expected_hash)),
        Field("destination_match", Equal(h.destination_hash, expected_hash)),
        Field("signed_data", Hex(signed_data)),
        Field("signature_valid", Verifies(a.signer, a.signature, signed_data))>>

-----------------------------------------------------------------------------
(* hashable_part: neither the hop count nor a transport id is hashed; n is  *)
(* how many bytes it wrote, and the caller may hash fewer of them           *)
HashedFrom(h) == IF h.type = 1 THEN 2 + ADDRLEN ELSE 2
HashableLen(b, h) == 1 + b.len - HashedFrom(h)
HashablePart(b, h, n) == Join(LowNibble(b.line), At(b, HashedFrom(h), n - 1))

LinkIdWithSignalling(b, h) == Sha256(HashablePart(b, h, HashableLen(b, h)), ADDRLEN)

(* link_id_of: what a payload has past the two keys is cut off the end *)
LinkId(b, h) ==
  LET excess == h.payload_len - ECPUBSIZE
      n      == HashableLen(b, h) - IF excess > 0 THEN excess ELSE 0
  IN  Sha256(HashablePart(b, h, n), ADDRLEN)

PacketHashOf(b, h, size) == Sha256(HashablePart(b, h, HashableLen(b, h)), size)
PacketHash(b, h) == PacketHashOf(b, h, HASHLEN)

(* mode and mtu are three and twenty-one bits of the three bytes *)
PrintSignalling(p) ==
  IF p = << >>
  THEN <<Field("signalling", Dash), Field("mode", Word("aes256_cbc")), Field("mtu", Dash)>>
  ELSE <<Field("signalling", Hex(p)), Field("mode", <<"mode of", p>>),
         Field("mtu", <<"mtu of", p>>)>>

-----------------------------------------------------------------------------
(* token_open, and pkcs7_unpad in it: p is where the token is, a function   *)
(* of offset and length; key is the token key's two halves, or nothing.     *)
NoKey == << >>

UnpadBelowSixteen(ctlen, pad) == IF pad < BLOCK THEN ctlen - pad ELSE -1

(* pkcs7_unpad: the length without the padding, -1 when it is refused *)
Unpad(ctlen, pad) == IF pad > BLOCK THEN -1 ELSE ctlen - pad

TokenOpen(h, from, len, key, sees) ==
  LET iv     == Payload(h, from, IVLEN)
      ctlen  == len - TOKEN_OVERHEAD
      ct     == Payload(h, from + IVLEN, ctlen)
      mac    == Payload(h, from + len - MACLEN, MACLEN)
      keyed  == key # NoKey
      mac_ok == keyed /\ sees.mac_ok
      blocks == mac_ok /\ ctlen > 0 /\ ctlen % BLOCK = 0
      ptlen  == IF blocks THEN Unpad(ctlen, sees.pad) ELSE -1
  IN  [iv |-> iv, ciphertext |-> ct, mac |-> mac, keyed |-> keyed, mac_ok |-> mac_ok,
       opened |-> ptlen >= 0, ptlen |-> ptlen,
       plain |-> IF keyed THEN <<"cbc", <<key[2], iv, ct>>>> ELSE << >>,
       verdict |-> IF keyed THEN Equal(mac, Made("hmac", <<key[1], Cat(<<iv, ct>>)>>, MACLEN))
                   ELSE Dash]

PrintToken(t) == <<
  Field("iv", Hex(t.iv)), Field("ciphertext", Hex(t.ciphertext)), Field("hmac", Hex(t.mac))>>

PrintPlaintext(t) == <<
  Field("hmac_valid", t.verdict),
  Field("plaintext_length", IF t.opened THEN Decimal(t.ptlen) ELSE Dash),
  Field("plaintext", IF t.opened THEN Hex(Mem(t.plain, 0, t.ptlen)) ELSE Dash)>>

(* the agreement of two keys, and the token key derived from it; an         *)
(* agreement that gives all zeros gives neither                             *)
Agreed(private, public, salt, sees) ==
  LET shared  == Made("x25519", <<private, public>>, KEYHALF)
      derived == <<"hkdf", <<shared, salt>>>>
  IN  IF sees.agreed
      THEN [shared |-> shared,
            key |-> <<Mem(derived, 0, MACLEN), Mem(derived, MACLEN, MACLEN)>>]
      ELSE [shared |-> << >>, key |-> NoKey]

PrintKeys(k) ==
  LET half(i) == IF k.key = NoKey THEN Dash ELSE Hex(k.key[i])
  IN  <<Field("shared_key", Hex(k.shared)),
        Field("signing_key", half(1)), Field("encryption_key", half(2))>>
=============================================================================
