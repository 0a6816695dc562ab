------------------------------- MODULE Encode -------------------------------
(***************************************************************************)
(* dump -e: a raw file rebuilt from an expect file.                         *)
(*                                                                          *)
(* f is the expect file as readexpect returns it, a sequence of fields.     *)
(* The lines rebuilt are byte strings, and what was printed before a fatal  *)
(* error stays printed.  A line still being put together is not printed.    *)
(***************************************************************************)
EXTENDS Octets, Sizes

(* The fields readexpect has room for.  A body, one field here, is eleven   *)
(* at most, and the lines before it twenty-five.                            *)
MAXFIELDS == 40
MAXBLOB == 2048     \* the bytes of one line

Printed(lines)  == [lines |-> lines, status |-> 0]
Stopped(lines)  == [lines |-> lines, status |-> 1]

Holds(f, name) == name \in Names(f)

(* lookup: the first field of that name *)
Lookup(f, name) == f[SelectInSeq(f, LAMBDA l : l.name = name)].value

(* put_field: the bytes a value stands for, none for "-" *)
Put(f, name) == Lookup(f, name)[2]

PutHops(f) == Literal(Lookup(f, "hops")[2])

ByteNamed(word) == CHOOSE c \in DOMAIN ContextName : ContextName[c] = word

(* put_context: a name of the table, else the two hex digits *)
PutContext(f) ==
  LET v == Lookup(f, "context")
  IN  IF v[1] = "word" THEN Literal(ByteNamed(v[2])) ELSE v[2]

HeaderFields == <<"flags", "hops", "transport_id", "destination_hash", "context">>

PutHeader(f) ==
  Cat(<<Put(f, "flags"), PutHops(f), Put(f, "transport_id"),
        Put(f, "destination_hash"), PutContext(f)>>)

(* encode_layout: the lines before "=" are echoed, the names behind it are  *)
(* one packet.  A name that is not there ends the program where it is read. *)
EncodeLayout(echoed, packed, f) ==
  LET lines == [i \in 1..Len(echoed) |-> Put(f, echoed[i])]
      missing == SelectInSeq(echoed, LAMBDA name : ~Holds(f, name))
      bytes == Cat(<<PutHeader(f)>> \o [i \in 1..Len(packed) |-> Put(f, packed[i])])
  IN  IF missing # 0
      THEN Stopped([i \in 1..(missing - 1) |-> Put(f, echoed[i])])
      ELSE IF packed = << >> THEN Printed(lines)
      ELSE IF \E name \in Range(HeaderFields \o packed) : ~Holds(f, name)
      THEN Stopped(lines)
      ELSE IF Size(bytes) > MAXBLOB THEN Stopped(lines)
      ELSE Printed(Append(lines, bytes))

Token3 == <<"iv", "ciphertext", "hmac">>

(* encode_linkdata: what the packet carries is decided by one field *)
Carried(f) == IF Lookup(f, "encrypted") = Word("no") THEN <<"plaintext">> ELSE Token3

EncodeLinkData(f) ==
  LET echoed == <<"link_request", "responder_private">>
  IN  IF Holds(f, "encrypted") THEN EncodeLayout(echoed, Carried(f), f)
      ELSE EncodeLayout(echoed, <<"encrypted">>, f)

(* the kinds that have a layout, and what the layout says *)
Layout ==
  [kind \in {"identity", "keyset", "destination", "announce", "plain", "pathrequest",
             "encrypted", "group", "linkrequest", "linkproof", "proof", "resourceproof"} |->
     CASE kind = "identity"    -> <<<<"public_key">>, << >>>>
       [] kind = "keyset"      -> <<<<"private_key">>, << >>>>
       [] kind = "destination" -> <<<<"name", "identity_hash">>, << >>>>
       [] kind = "announce"    -> <<<< >>, <<"public_key", "name_hash", "random_hash",
                                             "ratchet", "signature", "app_data">>>>
       [] kind = "plain"       -> <<<< >>, <<"plaintext">>>>
       [] kind = "pathrequest" -> <<<< >>, <<"wanted_hash", "requester_id", "tag">>>>
       [] kind = "encrypted"   -> <<<<"recipient_private", "ratchet_private">>,
                                    <<"ephemeral_public">> \o Token3>>
       [] kind = "group"       -> <<<<"group_key">>, Token3>>
       [] kind = "linkrequest" -> <<<< >>, <<"x25519_public", "ed25519_public", "signalling">>>>
       [] kind = "linkproof"   -> <<<<"link_request", "signer_public">>,
                                    <<"signature", "x25519_public", "signalling">>>>
       [] kind = "proof"       -> <<<<"proved_packet", "signer_public">>,
                                    <<"proof_hash", "signature">>>>
       [] kind = "resourceproof" -> <<<<"advertised_hash">>,
                                      <<"resource_hash", "resource_proof">>>>]

(* main with -e, behind readexpect *)
Encoded(kind, f) ==
  IF kind \notin DOMAIN Layout \union {"linkdata"} THEN Stopped(<< >>)
  ELSE IF Len(f) > MAXFIELDS THEN Stopped(<< >>)
  ELSE IF kind = "linkdata" THEN EncodeLinkData(f)
  ELSE EncodeLayout(Layout[kind][1], Layout[kind][2], f)
=============================================================================
