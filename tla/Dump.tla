-------------------------------- MODULE Dump --------------------------------
(***************************************************************************)
(* The decoders of cmd/dump.c, one operator for each kind, over the lines b *)
(* of a raw file that has as many as the kind takes.                        *)
(*                                                                          *)
(* A decoder prints as it goes, so its result is the lines that reached     *)
(* standard output and the exit status: fatal() leaves what was printed     *)
(* before it.  (ifac is the module Ifac.)                                   *)
(***************************************************************************)
EXTENDS Packet, FiniteSets

Exits(lines)  == [lines |-> lines, status |-> 0]
Fatal(lines)  == [lines |-> lines, status |-> 1]

(* open_packet and what follows it: echo was printed already *)
Rejected(echo, lines) == Exits(echo \o lines)

PublicOf(key, size) == Made("public", <<key>>, size)

DumpIdentity(b) ==
  IF b[1].len # KEYSIZE THEN Fatal(<< >>)
  ELSE Exits(<<Field("public_key", Hex(Whole(b[1]))),
               Field("x25519_public", Hex(At(b[1], 0, KEYHALF))),
               Field("ed25519_public", Hex(At(b[1], KEYHALF, KEYHALF))),
               Field("identity_hash", Hex(Sha256(Whole(b[1]), ADDRLEN)))>>)

(* the two publics a private key of two halves has *)
PublicPair(private) ==
  <<PublicOf(At(private, 0, KEYHALF), KEYHALF),
    PublicOf(At(private, KEYHALF, KEYHALF), KEYHALF)>>

DumpKeyset(b) ==
  LET pub == PublicPair(b[1])
  IN  IF b[1].len # KEYSIZE THEN Fatal(<< >>)
      ELSE Exits(<<Field("private_key", Hex(Whole(b[1]))),
                   Field("x25519_private", Hex(At(b[1], 0, KEYHALF))),
                   Field("ed25519_private", Hex(At(b[1], KEYHALF, KEYHALF))),
                   Field("public_key", Hex(Cat(pub))),
                   Field("x25519_public", Hex(pub[1])),
                   Field("ed25519_public", Hex(pub[2])),
                   Field("identity_hash", Hex(Sha256(Cat(pub), ADDRLEN)))>>)

(* the scan for dots: it stops once more behind the last byte, and its i-th *)
(* stop is the one it has passed i - 1 others before                        *)
Stops(b) == b.dots \union {b.len}
Passed(b, e) == {d \in Stops(b) : d < e}
Stop(b, i) == CHOOSE e \in Stops(b) : Cardinality(Passed(b, e)) = i - 1
Start(b, i) == IF i = 1 THEN 0 ELSE Stop(b, i - 1) + 1

Components(b) ==
  [i \in 1..Cardinality(Stops(b)) |->
     Field(IF Start(b, i) = 0 THEN "app_name" ELSE "aspect",
           Hex(At(b, Start(b, i), Stop(b, i) - Start(b, i))))]

DumpDestination(b) ==
  LET name_hash == Sha256(Whole(b[1]), NAMEHASHLEN)
      dest_hash == Sha256(Cat(<<name_hash, Whole(b[2])>>), ADDRLEN)
  IN  IF ~b[2].absent /\ b[2].len # ADDRLEN THEN Fatal(<< >>)
      ELSE Exits(<<Field("name", Hex(Whole(b[1])))>> \o Components(b[1]) \o
                 <<Field("name_hash", Hex(name_hash)),
                   Field("identity_hash", Hex(Whole(b[2]))),
                   Field("destination_hash", Hex(dest_hash))>>)

DumpSignature(b) ==
  LET ed_pub == At(b[1], KEYHALF, KEYHALF)
  IN  IF b[1].len # KEYSIZE \/ b[3].len # SIGLEN THEN Fatal(<< >>)
      ELSE Exits(<<Field("ed25519_public", Hex(ed_pub)),
                   Field("message_length", Decimal(b[2].len)),
                   Field("message_sha256", Hex(Sha256(Whole(b[2]), HASHLEN))),
                   Field("signature", Hex(Whole(b[3]))),
                   Field("valid", Verifies(ed_pub, Whole(b[3]), Whole(b[2])))>>)

DumpSign(b) ==
  LET private == At(b[1], KEYHALF, KEYHALF)
  IN  IF b[1].len # KEYSIZE THEN Fatal(<< >>)
      ELSE Exits(<<Field("private_key", Hex(Whole(b[1]))),
                   Field("ed25519_private", Hex(private)),
                   Field("ed25519_public", Hex(PublicOf(private, KEYHALF))),
                   Field("message_length", Decimal(b[2].len)),
                   Field("message_sha256", Hex(Sha256(Whole(b[2]), HASHLEN))),
                   Field("signature", Hex(Made("sign", <<private, Whole(b[2])>>, SIGLEN)))>>)

-----------------------------------------------------------------------------
DumpAnnounce(b) ==
  LET h == Header(b[1])
      a == Announce(h)
  IN  IF ~h.ok THEN Exits(h.lines)
      ELSE IF ~a.ok THEN Exits(a.lines)
      ELSE Exits(PrintAnnounce(h, a))

DumpPlain(b) ==
  LET h == Header(b[1])
  IN  IF ~h.ok THEN Exits(h.lines)
      ELSE Exits(PrintHeader(h) \o
                 <<Field("plaintext_length", Decimal(h.payload_len)),
                   Field("plaintext", Hex(Payload(h, 0, h.payload_len)))>>)

(* which fields a path request has is decided by its length alone *)
DumpPathRequest(b) ==
  LET h      == Header(b[1])
      relayed == h.payload_len > 2 * ADDRLEN
      from   == IF relayed THEN 2 * ADDRLEN ELSE ADDRLEN
      taglen == h.payload_len - from
      wanted == Payload(h, 0, ADDRLEN)
      unique == Payload(h, from, IF taglen < ADDRLEN THEN taglen ELSE ADDRLEN)
  IN  IF ~h.ok THEN Exits(h.lines)
      ELSE IF h.payload_len < ADDRLEN THEN Exits(ShortPayload(h, ADDRLEN))
      ELSE Exits(PrintHeader(h) \o
        <<Field("wanted_hash", Hex(wanted)),
          Field("requester_id", IF relayed THEN Hex(Payload(h, ADDRLEN, ADDRLEN)) ELSE Dash),
          Field("tag", Hex(Payload(h, from, taglen))),
          Field("unique_tag", IF taglen > 0 THEN Hex(Cat(<<wanted, unique>>)) ELSE Dash),
          Field("accepted", Word(IF taglen > 0 THEN "yes" ELSE "no"))>>)

(* the salt is the recipient's identity hash, behind a ratchet as well *)
DumpEncrypted(b, sees) ==
  LET echo == <<Field("recipient_private", Hex(Whole(b[1]))),
                Field("ratchet_private", Hex(Whole(b[2])))>>
      h    == Header(b[3])
      ephemeral     == Payload(h, 0, KEYHALF)
      identity_hash == Sha256(Cat(PublicPair(b[1])), ADDRLEN)
      agree == IF b[2].absent THEN At(b[1], 0, KEYHALF) ELSE Whole(b[2])
      k     == Agreed(agree, ephemeral, identity_hash, sees)
      t     == TokenOpen(h, KEYHALF, h.payload_len - KEYHALF, k.key, sees)
  IN  IF b[1].len # KEYSIZE \/ (~b[2].absent /\ b[2].len # KEYHALF) THEN Fatal(<< >>)
      ELSE IF ~h.ok THEN Rejected(echo, h.lines)
      ELSE IF h.payload_len < KEYHALF + TOKEN_OVERHEAD
           THEN Rejected(echo, ShortPayload(h, KEYHALF + TOKEN_OVERHEAD))
      ELSE Exits(echo \o PrintHeader(h) \o <<Field("ephemeral_public", Hex(ephemeral))>>
                 \o PrintToken(t)
                 \o <<Field("identity_hash", Hex(identity_hash)),
                      Field("ratchet_public", IF b[2].absent THEN Dash
                                              ELSE Hex(PublicOf(Whole(b[2]), KEYHALF)))>>
                 \o PrintKeys(k) \o PrintPlaintext(t))

(* the group key is the token key, of either length Token takes *)
DumpGroup(b, sees) ==
  LET half == b[1].len \div 2
      key  == <<At(b[1], 0, half), At(b[1], half, half)>>
      echo == <<Field("group_key", Hex(Whole(b[1])))>>
      h    == Header(b[2])
      t    == TokenOpen(h, 0, h.payload_len, key, sees)
  IN  IF b[1].len \notin {DERIVEDLEN, DERIVEDLEN \div 2} THEN Fatal(<< >>)
      ELSE IF ~h.ok THEN Rejected(echo, h.lines)
      ELSE IF h.payload_len < TOKEN_OVERHEAD
           THEN Rejected(echo, ShortPayload(h, TOKEN_OVERHEAD))
      ELSE Exits(echo \o PrintHeader(h) \o PrintToken(t)
                 \o <<Field("signing_key", Hex(key[1])),
                      Field("encryption_key", Hex(key[2]))>>
                 \o PrintPlaintext(t))

-----------------------------------------------------------------------------
DumpLinkRequest(b) ==
  LET h == Header(b[1])
      signalled == h.payload_len = ECPUBSIZE + SIGNALLEN
  IN  IF ~h.ok THEN Exits(h.lines)
      ELSE IF ~signalled /\ h.payload_len # ECPUBSIZE
           THEN Exits(NeitherLength(h, "accepted_length", ECPUBSIZE,
                                    "signalled_length", ECPUBSIZE + SIGNALLEN))
      ELSE Exits(PrintHeader(h)
        \o <<Field("x25519_public", Hex(Payload(h, 0, KEYHALF))),
             Field("ed25519_public", Hex(Payload(h, KEYHALF, KEYHALF)))>>
        \o PrintSignalling(IF signalled THEN Payload(h, ECPUBSIZE, SIGNALLEN) ELSE << >>)
        \o <<Field("link_id", Hex(LinkId(b[1], h)))>>)

DumpLinkProof(b) ==
  LET echo == <<Field("link_request", Hex(Whole(b[1]))),
                Field("signer_public", Hex(Whole(b[2])))>>
      rh == Header(b[1])
      h  == Header(b[3])
      short      == SIGLEN + KEYHALF
      signalled  == h.payload_len = short + SIGNALLEN
      signature  == Payload(h, 0, SIGLEN)
      x25519     == Payload(h, SIGLEN, KEYHALF)
      signalling == IF signalled THEN Payload(h, short, SIGNALLEN) ELSE << >>
      signer     == At(b[2], KEYHALF, KEYHALF)
      link_id    == LinkId(b[1], rh)
      signed_data == Cat(<<link_id, x25519, signer, signalling>>)
  IN  IF b[2].len # KEYSIZE THEN Fatal(<< >>)
      ELSE IF ~rh.ok THEN Fatal(echo)
      ELSE IF ~h.ok THEN Rejected(echo, h.lines)
      ELSE IF ~signalled /\ h.payload_len # short
           THEN Rejected(echo, NeitherLength(h, "accepted_length", short,
                                             "signalled_length", short + SIGNALLEN))
      ELSE Exits(echo \o PrintHeader(h)
        \o <<Field("link_id", Hex(link_id)),
             Field("link_id_match", Equal(h.destination_hash, link_id)),
             Field("signature", Hex(signature)),
             Field("x25519_public", Hex(x25519))>>
        \o PrintSignalling(signalling)
        \o <<Field("signer_ed25519", Hex(signer)),
             Field("signed_data", Hex(signed_data)),
             Field("signature_valid", Verifies(signer, signature, signed_data))>>)

(* Which key verifies a proof, and which address it claims, is in the flags. *)
DumpProof(b) ==
  LET echo == <<Field("proved_packet", Hex(Whole(b[1]))),
                Field("signer_public", Hex(Whole(b[2])))>>
      ph == Header(b[1])
      h  == Header(b[3])
      explicit == h.payload_len = HASHLEN + SIGLEN
      on_link  == h.destination_type = 3
      packet_hash == PacketHash(b[1], ph)
      proof_hash  == Payload(h, 0, HASHLEN)
      signature == IF explicit THEN Payload(h, HASHLEN, SIGLEN) ELSE Payload(h, 0, SIGLEN)
      signer    == IF on_link THEN Whole(b[2]) ELSE At(b[2], KEYHALF, KEYHALF)
      addressed == IF on_link THEN ph.destination_hash ELSE PacketHashOf(b[1], ph, ADDRLEN)
  IN  IF b[2].len \notin {KEYSIZE, KEYHALF} THEN Fatal(<< >>)
      ELSE IF ~ph.ok THEN Fatal(echo)
      ELSE IF ~h.ok THEN Rejected(echo, h.lines)
      ELSE IF ~explicit /\ h.payload_len # SIGLEN
           THEN Rejected(echo, NeitherLength(h, "implicit_length", SIGLEN,
                                             "explicit_length", HASHLEN + SIGLEN))
      ELSE IF b[2].len # (IF on_link THEN KEYHALF ELSE KEYSIZE) THEN Fatal(echo)
      ELSE Exits(echo \o PrintHeader(h)
        \o <<Field("form", Word(IF explicit THEN "explicit" ELSE "implicit")),
             Field("packet_hash", Hex(packet_hash)),
             Field("proof_hash", IF explicit THEN Hex(proof_hash) ELSE Dash),
             Field("hash_match", IF explicit THEN Equal(proof_hash, packet_hash) ELSE Word("yes"))>>
        \o <<Field(IF on_link THEN "link_id" ELSE "proof_destination", Hex(addressed)),
             Field(IF on_link THEN "link_id_match" ELSE "destination_match",
                   Equal(h.destination_hash, addressed))>>
        \o <<Field("signature", Hex(signature)),
             Field("signer_ed25519", Hex(signer)),
             Field("signature_valid", Verifies(signer, signature, packet_hash))>>)

(* the one decoder that prints the header of what it then rejects *)
DumpResourceProof(b) ==
  LET echo == <<Field("advertised_hash", Hex(Whole(b[1])))>>
      h    == Header(b[2])
      hash == Payload(h, 0, HASHLEN)
  IN  IF b[1].len # HASHLEN THEN Fatal(<< >>)
      ELSE IF ~h.ok THEN Rejected(echo, h.lines)
      ELSE IF h.payload_len # 2 * HASHLEN
           THEN Rejected(echo \o PrintHeader(h),
                         Rejection("invalid-length",
                                   <<Field("payload_length", Decimal(h.payload_len)),
                                     Field("accepted_length", Decimal(2 * HASHLEN))>>))
      ELSE Exits(echo \o PrintHeader(h) \o
             <<Field("resource_hash", Hex(hash)),
               Field("resource_proof", Hex(Payload(h, HASHLEN, HASHLEN))),
               Field("hash_match", Equal(hash, Whole(b[1])))>>)

-----------------------------------------------------------------------------
(* What is printed after the plaintext of a link packet.  The bodies of the *)
(* resource, request and response contexts are the module Plaintext; here   *)
(* each is one line, and only whether it is too short is decided.           *)
Short(need) == Rejection("short-plaintext", <<Field("minimum_length", Decimal(need))>>)

PlainAt(t, from, n) == Mem(t.plain, from, n)
Body(context, t) == <<Field("body", <<"body", context, PlainAt(t, 0, t.ptlen)>>)>>

(* the shortest plaintext of each context that is read further *)
Least(context) ==
  CASE context = "channel" -> ENVELOPELEN
    [] context \in {"request", "response"} -> 1
    [] context = "resource_hmu" -> HASHLEN + 1
    [] OTHER -> 0

PartRequestNeeds(t, sees) ==
  IF t.ptlen < 1 THEN 1
  ELSE (IF sees.exhausted THEN 1 + MAPHASHLEN ELSE 1) + HASHLEN

AfterPlaintext(context, t, link_id, sees) ==
  LET need == IF context = "resource_req" THEN PartRequestNeeds(t, sees)
              ELSE Least(context)
      key  == PlainAt(t, 0, KEYSIZE)
      signature == PlainAt(t, KEYSIZE, SIGLEN)
      signed_data == Cat(<<link_id, key>>)
  IN  CASE t.ptlen < need -> Short(need)
        [] t.ptlen >= need /\ context \in {"request", "response", "resource_adv",
                         "resource_req", "resource_hmu", "resource_icl",
                         "resource_rcl"} -> Body(context, t)
        [] t.ptlen >= need /\ context = "channel" ->
             <<Field("msgtype", Hex(PlainAt(t, 0, 2))),
               Field("sequence", <<"number", PlainAt(t, 2, 2)>>),
               Field("declared_length", <<"number", PlainAt(t, 4, 2)>>),
               Field("message", Hex(PlainAt(t, ENVELOPELEN, t.ptlen - ENVELOPELEN)))>>
        [] context = "link_identify" ->
             IF t.ptlen # KEYSIZE + SIGLEN
             THEN Rejection("identify-length",
                            <<Field("required_length", Decimal(KEYSIZE + SIGLEN))>>)
             ELSE <<Field("identity_public", Hex(key)),
                    Field("identity_hash", Hex(Sha256(key, ADDRLEN))),
                    Field("identity_signed", Hex(signed_data)),
                    Field("identity_valid",
                          Verifies(PlainAt(t, KEYHALF, KEYHALF), signature, signed_data))>>
        [] OTHER -> << >>

(* resource parts and keepalives are the link packets nothing encrypted *)
Unencrypted == {"resource", "keepalive"}

DumpLinkData(b, sees) ==
  LET echo == <<Field("link_request", Hex(Whole(b[1]))),
                Field("responder_private", Hex(Whole(b[2])))>>
      rh == Header(b[1])
      h  == Header(b[3])
      link_id == LinkId(b[1], rh)
      context == IF h.context \in DOMAIN ContextName THEN ContextName[h.context] ELSE "unnamed"
      linked  == echo \o PrintHeader(h)
        \o <<Field("link_id", Hex(link_id)),
             Field("link_id_match", Equal(h.destination_hash, link_id))>>
      k == Agreed(Whole(b[2]), Payload(rh, 0, KEYHALF), link_id, sees)
      t == TokenOpen(h, 0, h.payload_len, k.key, sees)
  IN  IF b[2].len # KEYHALF THEN Fatal(<< >>)
      ELSE IF ~rh.ok THEN Fatal(echo)
      ELSE IF ~h.ok THEN Rejected(echo, h.lines)
      ELSE IF context \in Unencrypted
           THEN Exits(linked \o <<Field("encrypted", Word("no")),
                                  Field("plaintext_length", Decimal(h.payload_len)),
                                  Field("plaintext", Hex(Payload(h, 0, h.payload_len)))>>)
      ELSE IF h.payload_len < TOKEN_OVERHEAD
           THEN Rejected(linked \o <<Field("encrypted", Word("yes"))>>,
                         ShortPayload(h, TOKEN_OVERHEAD))
      ELSE Exits(linked \o <<Field("encrypted", Word("yes"))>>
                 \o PrintToken(t) \o PrintKeys(k) \o PrintPlaintext(t)
                 \o (IF t.opened THEN AfterPlaintext(context, t, link_id, sees) ELSE << >>))
=============================================================================
