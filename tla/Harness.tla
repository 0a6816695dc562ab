------------------------------ MODULE Harness ------------------------------
(***************************************************************************)
(* A third reader of the corpus: the harness of conformance/microReticulum, *)
(* which prints in the format of expect what that library makes of raw.     *)
(* Modelled are destination and the kinds with a packet; the other four are *)
(* straight lines of prints.  What the library does is external, and where  *)
(* CONFORMANCE found it to answer otherwise than the reference, it does     *)
(* here: it hashes an app name with a dot behind it (finding 3), agrees on  *)
(* a key with any point (16), reads past an empty ciphertext (37), answers  *)
(* a refused padding with an empty plaintext (38) and knows no ratchet (6). *)
(***************************************************************************)
EXTENDS Corpus


VARIABLE micro              \* what the harness printed
harness_vars == <<vars, micro>>

Answered == {"destination", "announce", "encrypted", "linkrequest", "linkproof",
             "linkdata", "proof"}

(* Bytes::left and Bytes::mid stop at the end of what they are taken from *)
Mid(h, from, n) ==
  Sliced(Line(h.line), h.at + h.payload_len, h.at + from, h.at + from + n)
Behind(h, from) == Mid(h, from, h.payload_len)

-----------------------------------------------------------------------------
HEADER_MINSIZE == 3 + ADDRLEN
HeaderOneMinimum(b) == HEADER_MINSIZE      \* 19, whatever the type bit says
header_minimum(b) == IF b.len = 0 THEN HEADER_MINSIZE ELSE HeaderLen(b)

(* Packet::unpack has no limit of hops *)
Unpacked(b) ==
  IF b.len < HeaderLen(b) THEN [ok |-> FALSE]
  ELSE [Header([b EXCEPT !.hops = 0]) EXCEPT !.hops = b.hops]
ShortHeader(b) ==
  Fault("short-header", "length", b.len, "minimum_length", header_minimum(b)).lines

NameHash(b) ==
  Sha256(IF b.dots = {} THEN Cat(<<Whole(b), Literal(".")>>) ELSE Whole(b), NAMEHASHLEN)

(* std::string::find of a dot, and of none the end *)
find(b, from) ==
  LET found == {d \in b.dots : d >= from}
  IN  IF found = {} THEN b.len ELSE CHOOSE d \in found : \A e \in found : d <= e

(* the loop over the aspects: each one starts behind a dot, the i-th behind *)
(* i - 1 of them, and the last one ends where no dot is found               *)
aspects(b) ==
  LET starts == {0} \union {d + 1 : d \in b.dots}
      start(i) == CHOOSE s \in starts : Cardinality({d \in b.dots : d < s}) = i - 1
      piece(i) == At(b, start(i), find(b, start(i)) - start(i))
  IN  [i \in 1..(Cardinality(b.dots) + 1) |->
         Field(IF i = 1 THEN "app_name" ELSE "aspect", Hex(piece(i)))]

kind_destination(b) ==
  <<Field("name", Hex(Whole(b[1])))>> \o aspects(b[1]) \o
  <<Field("name_hash", Hex(NameHash(b[1]))),
    Field("identity_hash", IF b[2].absent THEN Dash ELSE Hex(Whole(b[2]))),
    Field("destination_hash", Hex(Sha256(Cat(<<NameHash(b[1]), Whole(b[2])>>), ADDRLEN)))>>

kind_announce(b) ==
  LET p == Unpacked(b[1])
      a == Announce(p)                   \* the same cuts, taken with mid
  IN  IF ~p.ok THEN ShortHeader(b[1])
      ELSE IF ~a.ok THEN a.lines ELSE PrintAnnounce(p, a)

(* Cutting a token is the harness's own.  A size less than what is taken    *)
(* from it wraps, and mid then stops at the end.                            *)
WrappingCut(p, from) ==
  LET size == p.payload_len - from
      ct   == IF size < TOKEN_OVERHEAD THEN Behind(p, from + IVLEN)
              ELSE Mid(p, from + IVLEN, size - TOKEN_OVERHEAD)
      mac  == IF size < MACLEN THEN << >> ELSE Behind(p, from + size - MACLEN)
  IN  [iv |-> Mid(p, from, IVLEN), ciphertext |-> ct, mac |-> mac]

Cut(p, from) ==
  IF p.payload_len - from >= TOKEN_OVERHEAD THEN WrappingCut(p, from)
  ELSE [iv |-> << >>, ciphertext |-> << >>, mac |-> << >>]

PrintVerdict(t, lines) ==
  <<Field("hmac_valid", t.verdict)>> \o
  (IF ~t.mac_ok THEN <<Field("plaintext_length", Dash), Field("plaintext", Dash)>> ELSE lines)
PrintPlain(n, bytes) == <<Field("plaintext_length", Decimal(n)), Field("plaintext", Hex(bytes))>>

(* How a run ends that prints no field: main puts what the library throws   *)
(* in the place of every line, and an empty ciphertext ends the program.    *)
Thrown  == <<Field("error", Word("what"))>>
Crashed == << >>

(* The library's own secret, whatever the point; the hmac says the rest *)
KeysOf(private, public, salt) == Agreed(private, public, salt, [agreed |-> TRUE])
Opened(p, from, k, sees) ==
  TokenOpen(p, from, p.payload_len - from, k.key,
            [sees EXCEPT !.mac_ok = sees.agreed /\ sees.mac_ok])

kind_encrypted(b, sees) ==
  LET echo == <<Field("recipient_private", Hex(Whole(b[1]))),
                Field("ratchet_private", IF b[2].absent THEN Dash ELSE Hex(Whole(b[2])))>>
      p  == Unpacked(b[3])
      identity_hash == Sha256(Cat(PublicPair(b[1])), ADDRLEN)
      agree == IF b[2].absent THEN At(b[1], 0, KEYHALF) ELSE Whole(b[2])
      k  == KeysOf(agree, Mid(p, 0, KEYHALF), identity_hash)
      t  == Opened(p, KEYHALF, k, sees)
      read == t.opened /\ b[2].absent    \* decrypt is given the identity alone
  IN  IF ~p.ok THEN echo \o ShortHeader(b[3])
      ELSE IF p.payload_len < KEYHALF + TOKEN_OVERHEAD
           THEN echo \o ShortPayload(p, KEYHALF + TOKEN_OVERHEAD)
      ELSE IF t.mac_ok /\ b[2].absent /\ t.ciphertext = << >> THEN Crashed
      ELSE echo \o PrintHeader(p) \o <<Field("ephemeral_public", Hex(Mid(p, 0, KEYHALF)))>>
           \o PrintToken(Cut(p, KEYHALF))
           \o <<Field("identity_hash", Hex(identity_hash)),
                Field("ratchet_public", IF b[2].absent THEN Dash
                                        ELSE Hex(PublicOf(Whole(b[2]), KEYHALF)))>>
           \o PrintKeys(k)
           \o PrintVerdict(t, IF read THEN PrintPlain(t.ptlen, Mem(t.plain, 0, t.ptlen))
                              ELSE PrintPlain(0, << >>))

kind_linkrequest(b) ==
  LET p == Unpacked(b[1])
      signalled == p.payload_len = ECPUBSIZE + SIGNALLEN
  IN  IF ~p.ok THEN ShortHeader(b[1])
      ELSE IF ~signalled /\ p.payload_len # ECPUBSIZE
           THEN NeitherLength(p, "accepted_length", ECPUBSIZE,
                              "signalled_length", ECPUBSIZE + SIGNALLEN)
      ELSE PrintHeader(p)
           \o <<Field("x25519_public", Hex(Mid(p, 0, KEYHALF))),
                Field("ed25519_public", Hex(Mid(p, KEYHALF, KEYHALF)))>>
           \o PrintSignalling(IF signalled THEN Behind(p, ECPUBSIZE) ELSE << >>)
           \o <<Field("link_id", Hex(LinkId(b[1], p)))>>

kind_linkproof(b) ==
  LET echo == <<Field("link_request", Hex(Whole(b[1]))),
                Field("signer_public", Hex(Whole(b[2])))>>
      p == Unpacked(b[3])
      short      == SIGLEN + KEYHALF
      signalled  == p.payload_len = short + SIGNALLEN
      link_id    == LinkId(b[1], Unpacked(b[1]))
      x25519     == Mid(p, SIGLEN, KEYHALF)
      signalling == IF signalled THEN Behind(p, short) ELSE << >>
      signer_ed  == At(b[2], KEYHALF, KEYHALF)
      signed_data == Cat(<<link_id, x25519, signer_ed, signalling>>)
  IN  IF ~p.ok THEN echo \o ShortHeader(b[3])
      ELSE IF ~signalled /\ p.payload_len # short
           THEN echo \o NeitherLength(p, "accepted_length", short,
                                      "signalled_length", short + SIGNALLEN)
      ELSE echo \o PrintHeader(p)
           \o <<Field("link_id", Hex(link_id)),
                Field("link_id_match", Equal(p.destination_hash, link_id)),
                Field("signature", Hex(Mid(p, 0, SIGLEN))),
                Field("x25519_public", Hex(x25519))>>
           \o PrintSignalling(signalling)
           \o <<Field("signer_ed25519", Hex(signer_ed)),
                Field("signed_data", Hex(signed_data)),
                Field("signature_valid", Verifies(signer_ed, Mid(p, 0, SIGLEN), signed_data))>>

(* no rule about the length: what is not the explicit form is the implicit *)
kind_proof(b) ==
  LET echo == <<Field("proved_packet", Hex(Whole(b[1]))),
                Field("signer_public", Hex(Whole(b[2])))>>
      proved == Unpacked(b[1])
      p      == Unpacked(b[3])
      explicit_form == p.payload_len = HASHLEN + SIGLEN
      on_link     == p.destination_type = 3
      packet_hash == PacketHash(b[1], proved)
      signature   == IF explicit_form THEN Behind(p, HASHLEN) ELSE Behind(p, 0)
      signer      == IF on_link THEN Whole(b[2]) ELSE At(b[2], KEYHALF, KEYHALF)
      address     == IF on_link THEN proved.destination_hash
                     ELSE Mem(packet_hash[1].of, 0, ADDRLEN)
  IN  IF ~proved.ok THEN echo \o ShortHeader(b[1])
      ELSE IF ~p.ok THEN echo \o ShortHeader(b[3])
      ELSE echo \o PrintHeader(p)
           \o <<Field("form", Word(IF explicit_form THEN "explicit" ELSE "implicit")),
                Field("packet_hash", Hex(packet_hash)),
                Field("proof_hash", IF explicit_form THEN Hex(Mid(p, 0, HASHLEN)) ELSE Dash),
                Field("hash_match", IF explicit_form THEN Equal(Mid(p, 0, HASHLEN), packet_hash)
                                    ELSE Word("yes")),
                Field(IF on_link THEN "link_id" ELSE "proof_destination", Hex(address)),
                Field(IF on_link THEN "link_id_match" ELSE "destination_match",
                      Equal(p.destination_hash, address)),
                Field("signature", Hex(signature)),
                Field("signer_ed25519", Hex(signer)),
                Field("signature_valid", Verifies(signer, signature, packet_hash))>>

-----------------------------------------------------------------------------
(* A context the library only names is printed as dashes, whatever it holds *)
Unread == {"request", "response", "resource_req", "resource_hmu", "resource_icl", "resource_rcl"}

EnvelopeBehind(t) == t.ptlen > ENVELOPELEN
HasEnvelope(t) == t.ptlen >= ENVELOPELEN

Read(context, t, link_id) ==
  LET pub == PlainAt(t, 0, KEYSIZE)
      sig == PlainAt(t, KEYSIZE, SIGLEN)
      signed_data == Cat(<<link_id, pub>>)
  IN  CASE context = "channel" /\ HasEnvelope(t) ->
             [i \in 1..4 |-> Field(<<"msgtype", "sequence", "declared_length", "message">>[i], Dash)]
        [] context = "resource_adv" ->
             <<Field("body", <<"ResourceAdvertisement::unpack", PlainAt(t, 0, t.ptlen)>>)>>
        [] context \in Unread -> <<Field("body", Dash)>>
        [] context = "link_identify" /\ t.ptlen = KEYSIZE + SIGLEN ->
             <<Field("identity_public", Hex(pub)),
               Field("identity_hash", Hex(Sha256(pub, ADDRLEN))),
               Field("identity_signed", Hex(signed_data)),
               Field("identity_valid", Verifies(PlainAt(t, KEYHALF, KEYHALF), sig, signed_data))>>
        [] OTHER -> << >>

kind_linkdata(b, sees) ==
  LET p == Unpacked(b[3])
      request == Unpacked(b[1])
      link_id == LinkId(b[1], request)
      context == IF p.context \in DOMAIN ContextName THEN ContextName[p.context] ELSE "unnamed"
      k == KeysOf(Whole(b[2]), Mid(request, 0, KEYHALF), link_id)
      t == Opened(p, 0, k, sees)
      echo == <<Field("link_request", Hex(Whole(b[1]))),
                Field("responder_private", Hex(Whole(b[2])))>>
      linked == echo \o PrintHeader(p)
        \o <<Field("link_id", Hex(link_id)),
             Field("link_id_match", Equal(p.destination_hash, link_id))>>
  IN  IF ~p.ok THEN echo \o ShortHeader(b[3])
      ELSE IF context \in Unencrypted
           THEN linked \o <<Field("encrypted", Word("no"))>>
                       \o PrintPlain(p.payload_len, Behind(p, 0))
      ELSE IF t.mac_ok /\ t.ciphertext = << >> THEN Crashed
      ELSE IF t.mac_ok /\ ~t.opened THEN Thrown
      ELSE linked \o <<Field("encrypted", Word("yes"))>> \o PrintToken(Cut(p, 0)) \o PrintKeys(k)
           \o PrintVerdict(t, PrintPlain(t.ptlen, Mem(t.plain, 0, t.ptlen)) \o Read(context, t, link_id))

(* main *)
Micro(v) ==
  LET b == v.b
  IN  CASE v.kind = "destination" -> kind_destination(b)
        [] v.kind = "announce"    -> kind_announce(b)
        [] v.kind = "encrypted"   -> kind_encrypted(b, v.sees)
        [] v.kind = "linkrequest" -> kind_linkrequest(b)
        [] v.kind = "linkproof"   -> kind_linkproof(b)
        [] v.kind = "linkdata"    -> kind_linkdata(b, v.sees)
        [] v.kind = "proof"       -> kind_proof(b)

-----------------------------------------------------------------------------
HarnessInit == Init /\ micro = << >>

(* cmd/check runs the harness on raw alone, of a corpus already written *)
Answer ==
  /\ stage = "rebuilt" /\ vector.kind \in Answered
  /\ stage' = "answered"
  /\ micro' = Micro(vector)
  /\ UNCHANGED <<vector, expect, class, out, back>>

HarnessNext == \/ Next /\ UNCHANGED micro
               \/ Answer
HarnessSpec == HarnessInit /\ [][HarnessNext]_harness_vars

Refused == Holds(expect, "invalid")
Rule == Lookup(expect, "invalid")[2]

(* the fields the library computes from other bytes than the reference *)
Otherwise ==
  CASE vector.kind = "destination" /\ vector.b[1].dots = {} -> {"name_hash", "destination_hash"}
    [] vector.kind \in {"encrypted", "linkdata"} /\ ~vector.sees.agreed ->
         {"shared_key", "signing_key", "encryption_key", "hmac_valid"}
    [] vector.kind = "encrypted" /\ vector.sees.agreed ->
         {"plaintext_length"} \union IF vector.b[2].absent THEN {} ELSE {"plaintext"}
    [] OTHER -> {}

(* A field is printed in the place expect has it, with the value expect has *)
(* or as a dash where the library has no reader, whatever is wrong with the *)
(* fields before it: "neither may delete the fields after it" (doc/harness  *)
(* rule 6).  It holds where what verifies opens: what tok.decrypt throws    *)
(* takes all of them (dump.cpp:571, 687).                                   *)
FieldsInPlace ==
  (stage = "answered" /\ ~Refused /\ micro \notin {Thrown, Crashed}) =>
    /\ Len(micro) = Len(expect)
    /\ \A i \in 1..Len(expect) :
         /\ micro[i].name = expect[i].name
         /\ \/ micro[i].value \in {expect[i].value, Dash}
            \/ micro[i].name \in Otherwise \union {"body"}

(* A rejection is the reference's, with its numbers, for every rule the     *)
(* library has: a header cut short of the length its first byte asks for, a *)
(* payload no key fits in, a link packet of neither length (CONFORMANCE     *)
(* finding 18 and the fault of the harnesses at announce/short-header-2).   *)
RejectsAlike ==
  (/\ stage = "answered" /\ Refused
   /\ \/ Rule = "short-header" /\ vector.b[Len(vector.b)].len >= 2
      \/ Rule = "short-payload" /\ vector.kind # "linkdata"
      \/ Rule = "invalid-length" /\ vector.kind # "proof") => micro = expect

(* The three values of a token are its payload, cut twice, or three dashes: *)
(* no length makes one overlap another (dump.cpp:559, where size() - 48     *)
(* wrapped and "the three values printed were an hmac overlapping its own   *)
(* ciphertext").                                                            *)
TokenCutOnce ==
  (stage = "answered" /\ Holds(micro, "iv")) =>
    LET of(name) == Lookup(micro, name)[2]
        parts == Cat(<<of("iv"), of("ciphertext"), of("hmac")>>)
        p == Unpacked(vector.b[3])
    IN  parts \in {<< >>, Behind(p, IF vector.kind = "encrypted" THEN KEYHALF ELSE 0)}
=============================================================================
