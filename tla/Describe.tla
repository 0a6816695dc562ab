------------------------------ MODULE Describe ------------------------------
(***************************************************************************)
(* What tools/gen writes into expect: describe_header and the describe_     *)
(* functions, in Python's slices, which stop at the end of an object and    *)
(* count from it when negative.  Written from the generator alone: it is    *)
(* the second decoder that cmd/check holds cmd/dump against.                *)
(*                                                                          *)
(* The lines b and what sees says are those of Packet.                      *)
(***************************************************************************)
EXTENDS Octets, Sizes

(* the generator raises instead of writing a vector *)
Raises == <<Field("raises", Word("ValueError"))>>

(* b[from:to], and a payload's *)
Py(b, from, to) == Sliced(Line(b.line), b.len, from, to)
All(b) == Py(b, 0, b.len)
Part(h, from, to) ==
  LET lo == Within(from, h.len) + h.at
      hi == Within(to, h.len) + h.at
  IN  Sliced(Line(h.line), h.at + h.len, lo, hi)
ToEnd(h, from) == Part(h, from, h.len)

Invalid(rule, a, m, c, n) ==
  Rejection(rule, <<Field(a, Decimal(m)), Field(c, Decimal(n))>>)
InvalidLength(h, a, m, c, n) ==
  Rejection("invalid-length", <<Field("payload_length", Decimal(h.len)),
                                Field(a, Decimal(m)), Field(c, Decimal(n))>>)

(* describe_header: the lines, and the h the caller goes on with, if any *)
DescribeHeader(b) ==
  LET two    == Bits(b.flags, 6, 1) = 1
      header_len == 3 + ADDRLEN * (Bits(b.flags, 6, 1) + 1)
      transport  == IF two THEN Py(b, 2, 2 + ADDRLEN) ELSE << >>
      dest       == IF two THEN Py(b, 2 + ADDRLEN, 2 + 2 * ADDRLEN) ELSE Py(b, 2, 2 + ADDRLEN)
      refused(lines) == [ok |-> FALSE, lines |-> lines]
  IN  IF b.len < 2 THEN refused(Invalid("short-header", "length", b.len, "minimum_length", 2))
      ELSE IF b.hops >= MAX_HOPS
      THEN refused(Invalid("hop-limit", "hops", b.hops, "hop_limit", MAX_HOPS))
      ELSE IF b.len < header_len
      THEN refused(Invalid("short-header", "length", b.len, "minimum_length", header_len))
      ELSE [ok |-> TRUE, at |-> header_len, len |-> b.len - header_len, line |-> b.line,
            context_flag |-> Bits(b.flags, 5, 1), dest_hash |-> dest, context |-> b.context,
            destination_type |-> Bits(b.flags, 2, 2),
            lines |-> <<
              Field("flags", Hex(Literal(b.flags))),
              Field("header_type", Decimal(Bits(b.flags, 6, 1) + 1)),
              Field("context_flag", Decimal(Bits(b.flags, 5, 1))),
              Field("transport_type", Decimal(Bits(b.flags, 4, 1))),
              Field("destination_type", Decimal(Bits(b.flags, 2, 2))),
              Field("packet_type", Decimal(Bits(b.flags, 0, 2))),
              Field("hops", Decimal(b.hops)),
              Field("transport_id", Hex(transport)),
              Field("destination_hash", Hex(dest)),
              Field("context", IF b.context \in DOMAIN ContextName
                               THEN Word(ContextName[b.context])
                               ELSE Hex(Literal(b.context))),
              Field("payload_length", Decimal(b.len - header_len))>>]

DescribeIdentity(b) ==
  LET half == KEYSIZE \div 2
  IN  <<Field("public_key", Hex(All(b[1]))),
        Field("x25519_public", Hex(Py(b[1], 0, half))),
        Field("ed25519_public", Hex(Py(b[1], half, b[1].len))),
        Field("identity_hash", Hex(Sha256(All(b[1]), ADDRLEN)))>>

(* private_to_public *)
Publics(b) == <<Made("public", <<Py(b, 0, KEYHALF)>>, KEYHALF),
                Made("public", <<Py(b, KEYHALF, b.len)>>, KEYHALF)>>

DescribeKeyset(b) ==
  LET pub == Publics(b[1])
  IN  <<Field("private_key", Hex(All(b[1]))),
        Field("x25519_private", Hex(Py(b[1], 0, KEYHALF))),
        Field("ed25519_private", Hex(Py(b[1], KEYHALF, b[1].len))),
        Field("public_key", Hex(Cat(pub))),
        Field("x25519_public", Hex(pub[1])), Field("ed25519_public", Hex(pub[2])),
        Field("identity_hash", Hex(Sha256(Cat(pub), ADDRLEN)))>>

(* the generator knows the components and joins them; names holds where     *)
(* each one starts and ends in what it joined                               *)
DescribeDestination(b, names) ==
  LET name_hash == Sha256(All(b[1]), NAMEHASHLEN)
      part(i) == Field(IF i = 1 THEN "app_name" ELSE "aspect",
                       Hex(Py(b[1], names[i][1], names[i][2])))
  IN  <<Field("name", Hex(All(b[1])))>> \o [i \in 1..Len(names) |-> part(i)] \o
      <<Field("name_hash", Hex(name_hash)),
        Field("identity_hash", Hex(All(b[2]))),
        Field("destination_hash", Hex(Sha256(Cat(<<name_hash, All(b[2])>>), ADDRLEN)))>>

DescribeSignature(b) ==
  LET public == Py(b[1], 32, b[1].len)
  IN  <<Field("ed25519_public", Hex(public)),
        Field("message_length", Decimal(b[2].len)),
        Field("message_sha256", Hex(Sha256(All(b[2]), 32))),
        Field("signature", Hex(All(b[3]))),
        Field("valid", Verifies(public, All(b[3]), All(b[2])))>>

DescribeSign(b) ==
  LET private == Py(b[1], 32, b[1].len)
  IN  <<Field("private_key", Hex(All(b[1]))),
        Field("ed25519_private", Hex(private)),
        Field("ed25519_public", Hex(Made("public", <<private>>, 32))),
        Field("message_length", Decimal(b[2].len)),
        Field("message_sha256", Hex(Sha256(All(b[2]), 32))),
        Field("signature", Hex(Made("sign", <<private, All(b[2])>>, 64)))>>

-----------------------------------------------------------------------------
DescribeAnnounce(b) ==
  LET h  == DescribeHeader(b[1])
      r  == IF h.context_flag = 1 THEN RATCHETLEN ELSE 0
      minimum == KEYSIZE + NAMEHASHLEN + RANDHASHLEN + SIGLEN + r
      public  == Part(h, 0, 64)
      name    == Part(h, 64, 74)
      random  == Part(h, 74, 84)
      ratchet == Part(h, 84, 84 + r)
      signature == Part(h, 84 + r, 148 + r)
      app     == ToEnd(h, 148 + r)
      identity_hash == Sha256(public, ADDRLEN)
      expected == Sha256(Cat(<<name, identity_hash>>), ADDRLEN)
      signed   == Cat(<<h.dest_hash, public, name, random, ratchet, app>>)
  IN  IF ~h.ok THEN h.lines
      ELSE IF h.len < minimum
      THEN Invalid("short-payload", "payload_length", h.len, "minimum_length", minimum)
      ELSE h.lines \o
        <<Field("public_key", Hex(public)), Field("name_hash", Hex(name)),
          Field("random_hash", Hex(random)), Field("ratchet", Hex(ratchet)),
          Field("signature", Hex(signature)), Field("app_data", Hex(app)),
          Field("identity_hash", Hex(identity_hash)),
          Field("expected_hash", Hex(expected)),
          Field("destination_match", Equal(h.dest_hash, expected)),
          Field("signed_data", Hex(signed)),
          Field("signature_valid", Verifies(Part(h, 32, 64), signature, signed))>>

DescribePlain(b) ==
  LET h == DescribeHeader(b[1])
  IN  IF ~h.ok THEN h.lines
      ELSE h.lines \o <<Field("plaintext_length", Decimal(h.len)),
                        Field("plaintext", Hex(ToEnd(h, 0)))>>

DescribePathRequest(b) ==
  LET h == DescribeHeader(b[1])
      wanted  == Part(h, 0, ADDRLEN)
      long    == h.len > ADDRLEN * 2
      tag     == IF long THEN ToEnd(h, ADDRLEN * 2) ELSE ToEnd(h, ADDRLEN)
      start   == IF long THEN ADDRLEN * 2 ELSE ADDRLEN
      unique  == Cat(<<wanted, Part(h, start, start + ADDRLEN)>>)
  IN  IF ~h.ok THEN h.lines
      ELSE IF h.len < ADDRLEN
      THEN Invalid("short-payload", "payload_length", h.len, "minimum_length", ADDRLEN)
      ELSE h.lines \o
        <<Field("wanted_hash", Hex(wanted)),
          Field("requester_id", IF long THEN Hex(Part(h, ADDRLEN, ADDRLEN * 2)) ELSE Dash),
          Field("tag", Hex(tag)),
          Field("unique_tag", IF tag # << >> THEN Hex(unique) ELSE Dash),
          Field("accepted", Word(IF tag # << >> THEN "yes" ELSE "no"))>>

-----------------------------------------------------------------------------
(* hashable_part of raw, with the excess behind the two keys cut off when a *)
(* payload length is passed                                                 *)
Hashed(b, excess) ==
  LET from == IF Bits(b.flags, 6, 1) = 1 THEN 2 + ADDRLEN ELSE 2
      cut  == IF excess > 0 THEN excess ELSE 0
  IN  Join(LowNibble(b.line), Py(b, from, b.len - cut))
PartHash(b) == Hashed(b, 0)
LinkIdOf(b, payload_len) == Sha256(Hashed(b, payload_len - ECPUBSIZE), ADDRLEN)

DescribeSignalling(s) ==
  <<Field("signalling", Hex(s)),
    Field("mode", IF s = << >> THEN Word("aes256_cbc") ELSE <<"mode of", s>>),
    Field("mtu", IF s = << >> THEN Dash ELSE <<"mtu of", s>>)>>

DescribeLinkRequest(b) ==
  LET h == DescribeHeader(b[1])
  IN  IF ~h.ok THEN h.lines
      ELSE IF h.len \notin {ECPUBSIZE, ECPUBSIZE + SIGNALLEN}
      THEN InvalidLength(h, "accepted_length", 64, "signalled_length", 67)
      ELSE h.lines \o
        <<Field("x25519_public", Hex(Part(h, 0, KEYHALF))),
          Field("ed25519_public", Hex(Part(h, KEYHALF, ECPUBSIZE)))>>
        \o DescribeSignalling(ToEnd(h, ECPUBSIZE))
        \o <<Field("link_id", Hex(LinkIdOf(b[1], h.len)))>>

DescribeLinkProof(b) ==
  LET echo == <<Field("link_request", Hex(All(b[1]))), Field("signer_public", Hex(All(b[2])))>>
      rh == DescribeHeader(b[1])
      h  == DescribeHeader(b[3])
      link_id    == LinkIdOf(b[1], rh.len)
      signature  == Part(h, 0, SIGLEN)
      x25519     == Part(h, SIGLEN, SIGLEN + KEYHALF)
      signalling == ToEnd(h, SIGLEN + KEYHALF)
      signer     == Py(b[2], KEYHALF, b[2].len)
      signed     == Cat(<<link_id, x25519, signer, signalling>>)
  IN  IF ~h.ok THEN echo \o h.lines
      ELSE IF h.len \notin {96, 99}
      THEN echo \o InvalidLength(h, "accepted_length", 96, "signalled_length", 99)
      ELSE IF ~rh.ok THEN Raises
      ELSE echo \o h.lines \o
        <<Field("link_id", Hex(link_id)),
          Field("link_id_match", Equal(h.dest_hash, link_id)),
          Field("signature", Hex(signature)), Field("x25519_public", Hex(x25519))>>
        \o DescribeSignalling(signalling)
        \o <<Field("signer_ed25519", Hex(signer)), Field("signed_data", Hex(signed)),
             Field("signature_valid", Verifies(signer, signature, signed))>>

DescribeProof(b) ==
  LET echo == <<Field("proved_packet", Hex(All(b[1]))), Field("signer_public", Hex(All(b[2])))>>
      h  == DescribeHeader(b[3])
      ph == DescribeHeader(b[1])
      explicit == h.len = ADDRLEN * 2 + SIGLEN
      packet_hash == Sha256(PartHash(b[1]), 32)
      signature == IF explicit THEN ToEnd(h, ADDRLEN * 2) ELSE ToEnd(h, 0)
      on_link == h.destination_type = 3
      signer  == IF on_link THEN All(b[2]) ELSE Py(b[2], KEYHALF, b[2].len)
      short_hash == Sha256(PartHash(b[1]), ADDRLEN)
      addressed ==
        IF on_link
        THEN <<Field("link_id", Hex(ph.dest_hash)),
               Field("link_id_match", Equal(h.dest_hash, ph.dest_hash))>>
        ELSE <<Field("proof_destination", Hex(short_hash)),
               Field("destination_match", Equal(h.dest_hash, short_hash))>>
  IN  IF ~h.ok THEN echo \o h.lines
      ELSE IF h.len \notin {SIGLEN, ADDRLEN * 2 + SIGLEN}
      THEN echo \o InvalidLength(h, "implicit_length", 64, "explicit_length", 96)
      ELSE IF on_link /\ ~ph.ok THEN Raises
      ELSE echo \o h.lines \o
        <<Field("form", Word(IF explicit THEN "explicit" ELSE "implicit")),
          Field("packet_hash", Hex(packet_hash)),
          Field("proof_hash", IF explicit THEN Hex(Part(h, 0, 32)) ELSE Dash),
          Field("hash_match", IF explicit THEN Equal(Part(h, 0, 32), packet_hash)
                              ELSE Word("yes"))>>
        \o addressed \o
        <<Field("signature", Hex(signature)), Field("signer_ed25519", Hex(signer)),
          Field("signature_valid", Verifies(signer, signature, packet_hash))>>

DescribeResourceProof(b) ==
  LET echo == <<Field("advertised_hash", Hex(All(b[1])))>>
      h == DescribeHeader(b[2])
  IN  IF ~h.ok THEN echo \o h.lines
      ELSE IF h.len # 2 * HASHLEN
      THEN echo \o h.lines \o Invalid("invalid-length", "payload_length", h.len,
                                      "accepted_length", 2 * HASHLEN)
      ELSE echo \o h.lines \o
        <<Field("resource_hash", Hex(Part(h, 0, HASHLEN))),
          Field("resource_proof", Hex(ToEnd(h, HASHLEN))),
          Field("hash_match", Equal(Part(h, 0, HASHLEN), All(b[1])))>>

-----------------------------------------------------------------------------
None == << >>

(* token_open over payload[skip:]: [:16], [16:-32] and [-32:] of it *)
Token(h, skip, key, sees) ==
  LET iv  == Part(h, skip, skip + 16)
      ct  == Part(h, skip + 16, h.len - 32)
      mac == Part(h, h.len - 32, h.len)
      padded == Extent(ct)
      opens == /\ key # None /\ sees.mac_ok
               /\ padded > 0 /\ padded % 16 = 0
               /\ sees.pad <= 16
  IN  [iv |-> iv, ct |-> ct, mac |-> mac, opened |-> opens, size |-> padded - sees.pad,
       valid |-> IF key = None THEN Dash
                 ELSE Equal(mac, Made("hmac", <<key[1], Cat(<<iv, ct>>)>>, 32)),
       plain |-> IF key = None THEN None ELSE <<"cbc", <<key[2], iv, ct>>>>]

TokenParts(t) ==
  <<Field("iv", Hex(t.iv)), Field("ciphertext", Hex(t.ct)), Field("hmac", Hex(t.mac))>>

TokenPlaintext(t) ==
  <<Field("hmac_valid", t.valid),
    Field("plaintext_length", IF t.opened THEN Decimal(t.size) ELSE Dash),
    Field("plaintext", IF t.opened THEN Hex(Sliced(t.plain, t.size, 0, t.size)) ELSE Dash)>>

NoSecret == [shared |-> None, key |-> None]

(* exchange raises on an all-zero secret, which is caught as no secret *)
Exchange(private, public, salt, sees) ==
  LET shared == Made("x25519", <<private, public>>, 32)
      at(i)  == Mem(<<"hkdf", <<shared, salt>>>>, 32 * (i - 1), 32)
  IN  IF sees.agreed THEN [shared |-> shared, key |-> <<at(1), at(2)>>]
      ELSE NoSecret

KeyFields(k) ==
  <<Field("shared_key", Hex(k.shared)),
    Field("signing_key", IF k.key = None THEN Dash ELSE Hex(k.key[1])),
    Field("encryption_key", IF k.key = None THEN Dash ELSE Hex(k.key[2]))>>

DescribeEncrypted(b, sees) ==
  LET echo == <<Field("recipient_private", Hex(All(b[1]))),
                Field("ratchet_private", Hex(All(b[2])))>>
      h == DescribeHeader(b[3])
      identity_hash == Sha256(Cat(Publics(b[1])), ADDRLEN)
      with == IF b[2].absent THEN Py(b[1], 0, KEYHALF) ELSE All(b[2])
      k == Exchange(with, Part(h, 0, KEYHALF), identity_hash, sees)
      t == Token(h, KEYHALF, k.key, sees)
  IN  IF ~h.ok THEN echo \o h.lines
      ELSE IF h.len < KEYHALF + TOKEN_OVERHEAD
      THEN echo \o Invalid("short-payload", "payload_length", h.len, "minimum_length", 80)
      ELSE echo \o h.lines \o <<Field("ephemeral_public", Hex(Part(h, 0, KEYHALF)))>>
           \o TokenParts(t)
           \o <<Field("identity_hash", Hex(identity_hash)),
                Field("ratchet_public",
                      IF b[2].absent THEN Dash ELSE Hex(Made("public", <<All(b[2])>>, KEYHALF)))>>
           \o KeyFields(k) \o TokenPlaintext(t)

DescribeGroup(b, sees) ==
  LET echo == <<Field("group_key", Hex(All(b[1])))>>
      h    == DescribeHeader(b[2])
      half == b[1].len \div 2
      key  == <<Py(b[1], 0, half), Py(b[1], half, b[1].len)>>
      t    == Token(h, 0, key, sees)
  IN  IF ~h.ok THEN echo \o h.lines
      ELSE IF h.len < TOKEN_OVERHEAD
      THEN echo \o Invalid("short-payload", "payload_length", h.len, "minimum_length", 48)
      ELSE echo \o h.lines \o TokenParts(t)
           \o <<Field("signing_key", Hex(key[1])), Field("encryption_key", Hex(key[2]))>>
           \o TokenPlaintext(t)

(* describe_resource and what describe_linkdata does before and after it *)
DescribePlaintext(context, t, link_id, sees) ==
  LET of(from, to) == Sliced(t.plain, t.size, from, to)
      tooShort(n) == Rejection("short-plaintext", <<Field("minimum_length", Decimal(n))>>)
      body == <<Field("body", <<"body", ContextName[context], of(0, t.size)>>)>>
      public == of(0, KEYSIZE)
      signed == Cat(<<link_id, public>>)
      needed == CASE context = 9 \/ context = 10 -> 1
                  [] context = 4 -> HASHLEN + 1
                  [] context = 3 -> IF t.size < 1 THEN 1
                                    ELSE 1 + (IF sees.exhausted THEN MAPHASHLEN ELSE 0) + HASHLEN
                  [] OTHER -> 0
  IN  IF context = 14
      THEN IF t.size < ENVELOPELEN THEN tooShort(ENVELOPELEN)
           ELSE <<Field("msgtype", Hex(of(0, 2))), Field("sequence", <<"number", of(2, 4)>>),
                  Field("declared_length", <<"number", of(4, 6)>>),
                  Field("message", Hex(of(ENVELOPELEN, t.size)))>>
      ELSE IF context \in {2, 3, 4, 9, 10}
      THEN IF t.size < needed THEN tooShort(needed) ELSE body
      ELSE IF context \in {6, 7}
      THEN IF t.size = 0 THEN Raises ELSE body
      ELSE IF context = 251
      THEN IF t.size # KEYSIZE + SIGLEN
           THEN Rejection("identify-length", <<Field("required_length", Decimal(128))>>)
           ELSE <<Field("identity_public", Hex(public)),
                  Field("identity_hash", Hex(Sha256(public, ADDRLEN))),
                  Field("identity_signed", Hex(signed)),
                  Field("identity_valid",
                        Verifies(of(KEYHALF, KEYSIZE), of(KEYSIZE, t.size), signed))>>
      ELSE << >>

(* from_public_bytes raises on fewer bytes than a key has, which is caught  *)
(* as no secret                                                             *)
DescribeLinkData(b, sees) ==
  LET echo == <<Field("link_request", Hex(All(b[1]))),
                Field("responder_private", Hex(All(b[2])))>>
      h  == DescribeHeader(b[3])
      rh == DescribeHeader(b[1])
      link_id == LinkIdOf(b[1], rh.len)
      linked  == echo \o h.lines
                 \o <<Field("link_id", Hex(link_id)),
                      Field("link_id_match", Equal(h.dest_hash, link_id))>>
      k == IF rh.len < KEYHALF THEN NoSecret
           ELSE Exchange(All(b[2]), Part(rh, 0, KEYHALF), link_id, sees)
      t == Token(h, 0, k.key, sees)
      rest == IF t.opened THEN DescribePlaintext(h.context, t, link_id, sees) ELSE << >>
  IN  IF ~h.ok THEN echo \o h.lines
      ELSE IF ~rh.ok THEN Raises
      ELSE IF h.context \in {1, 250}
      THEN linked \o <<Field("encrypted", Word("no")),
                       Field("plaintext_length", Decimal(h.len)),
                       Field("plaintext", Hex(ToEnd(h, 0)))>>
      ELSE IF h.len < TOKEN_OVERHEAD
      THEN linked \o <<Field("encrypted", Word("yes"))>>
           \o Invalid("short-payload", "payload_length", h.len, "minimum_length", 48)
      ELSE IF rest = Raises THEN Raises
      ELSE linked \o <<Field("encrypted", Word("yes"))>>
           \o TokenParts(t) \o KeyFields(k) \o TokenPlaintext(t) \o rest
=============================================================================
