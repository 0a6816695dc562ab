------------------------------- MODULE Corpus -------------------------------
(***************************************************************************)
(* One vector from tools/gen, through both directions of cmd/dump.          *)
(*                                                                          *)
(* gen describes the bytes it made and files expect with a determinism      *)
(* class; dump reads raw and prints; dump -e reads expect, not what was     *)
(* printed, and prints raw.  The three never run at once, and what passes   *)
(* between them are the two files.                                          *)
(*                                                                          *)
(* A vector is a kind, the lines of raw, what the cryptography sees in them *)
(* and, for a destination, where its components are.                        *)
(***************************************************************************)
EXTENDS Dump, Describe, Encode

CONSTANT Vectors

(* how many lines the raw of a kind holds *)
Blobs(kind) ==
  CASE kind \in {"identity", "keyset", "announce", "plain", "pathrequest", "linkrequest"} -> 1
    [] kind \in {"destination", "sign", "group", "resourceproof"} -> 2
    [] kind \in {"signature", "encrypted", "linkproof", "linkdata", "proof"} -> 3
Kinds == {"identity", "keyset", "destination", "signature", "sign", "announce", "plain",
          "pathrequest", "encrypted", "group", "linkrequest", "linkproof", "linkdata", "proof",
          "resourceproof"}

(* A vector as the generator makes it.  A line without bytes is written as  *)
(* a dash; a name is its components joined with dots; keys are as long as   *)
(* the reference makes them; a packet that another one proves is a packet,  *)
(* and the request that opened a link the one the reference sent for it.    *)
IsLine(b) ==
  /\ b \in [line : Nat, len : Nat, absent : BOOLEAN, flags : 0..255, hops : 0..255,
            context : 0..255, dots : SUBSET Nat]
  /\ b.absent <=> b.len = 0

Joined(b, names) ==
  /\ names \in Seq(Nat \X Nat) /\ names # << >>
  /\ \A i \in 1..Len(names) :
       /\ names[i][1] = IF i = 1 THEN 0 ELSE names[i - 1][2] + 1
       /\ names[i][1] <= names[i][2]
  /\ b.dots = {names[i][2] : i \in 1..(Len(names) - 1)}
  /\ b.len = names[Len(names)][2]

Lengths(kind, b) ==
  CASE kind \in {"identity", "keyset", "sign"} -> b[1].len = KEYSIZE
    [] kind = "destination"   -> b[2].len \in {0, ADDRLEN}
    [] kind = "signature"     -> b[1].len = KEYSIZE /\ b[3].len = SIGLEN
    [] kind = "encrypted"     -> b[1].len = KEYSIZE /\ b[2].len \in {0, RATCHETLEN}
    [] kind = "group"         -> b[1].len \in {DERIVEDLEN \div 2, DERIVEDLEN}
    [] kind = "linkproof"     -> b[2].len = KEYSIZE
    [] kind = "linkdata"      -> b[2].len = KEYHALF
    [] kind = "proof"         -> b[2].len = IF Bits(b[3].flags, 2, 2) = 3 THEN KEYHALF ELSE KEYSIZE
    [] kind = "resourceproof" -> b[1].len = HASHLEN
    [] OTHER                  -> TRUE

WellMade(v) ==
  /\ v.kind \in Kinds /\ Len(v.b) = Blobs(v.kind)
  /\ \A i \in 1..Blobs(v.kind) : IsLine(v.b[i])
  /\ Lengths(v.kind, v.b)
  /\ v.kind = "destination" => Joined(v.b[1], v.names)
  /\ v.kind \in {"linkproof", "linkdata", "proof"} => DescribeHeader(v.b[1]).ok
  /\ v.kind \in {"linkproof", "linkdata"} =>
       DescribeHeader(v.b[1]).len \in {ECPUBSIZE, ECPUBSIZE + SIGNALLEN}
  /\ v.sees \in [agreed : BOOLEAN, mac_ok : BOOLEAN, pad : 0..255, exhausted : BOOLEAN]

ASSUME VectorsAssumption == \A v \in Vectors : WellMade(v)

VARIABLES vector, stage, expect, class, out, back
vars == <<vector, stage, expect, class, out, back>>

Nothing == [lines |-> << >>, status |-> -1]

Described(v) ==
  LET b == v.b
  IN  CASE v.kind = "identity"      -> DescribeIdentity(b)
        [] v.kind = "keyset"        -> DescribeKeyset(b)
        [] v.kind = "destination"   -> DescribeDestination(b, v.names)
        [] v.kind = "signature"     -> DescribeSignature(b)
        [] v.kind = "sign"          -> DescribeSign(b)
        [] v.kind = "announce"      -> DescribeAnnounce(b)
        [] v.kind = "plain"         -> DescribePlain(b)
        [] v.kind = "pathrequest"   -> DescribePathRequest(b)
        [] v.kind = "encrypted"     -> DescribeEncrypted(b, v.sees)
        [] v.kind = "group"         -> DescribeGroup(b, v.sees)
        [] v.kind = "linkrequest"   -> DescribeLinkRequest(b)
        [] v.kind = "linkproof"     -> DescribeLinkProof(b)
        [] v.kind = "linkdata"      -> DescribeLinkData(b, v.sees)
        [] v.kind = "proof"         -> DescribeProof(b)
        [] v.kind = "resourceproof" -> DescribeResourceProof(b)

(* the kinds cmd/dump can rebuild raw for, as the generator lists them *)
ENCODABLE == {"identity", "keyset", "destination", "announce", "plain", "pathrequest",
              "encrypted", "group", "linkrequest", "linkproof", "linkdata", "proof",
              "resourceproof", "ifac"}

(* the rules a packet breaks only after every one of its bytes is printed *)
AFTER_PLAINTEXT == {"short-plaintext", "identify-length"}

DeterminismOfAnyInvalid(kind, lines) ==
  IF kind \notin ENCODABLE \/ "invalid" \in Names(lines) THEN "decode" ELSE "encode"

(* determinism: the first line that says invalid decides *)
Determinism(kind, lines) ==
  LET invalid == SelectInSeq(lines, LAMBDA l : l.name = "invalid")
  IN  IF kind \notin ENCODABLE THEN "decode"
      ELSE IF invalid = 0 \/ lines[invalid].value[2] \in AFTER_PLAINTEXT THEN "encode"
      ELSE "decode"

(* main without -e: the lines are counted before any is read *)
Dumped(v) ==
  LET b == v.b
  IN  IF Len(b) # Blobs(v.kind) THEN Fatal(<< >>)
      ELSE CASE v.kind = "identity"      -> DumpIdentity(b)
             [] v.kind = "keyset"        -> DumpKeyset(b)
             [] v.kind = "destination"   -> DumpDestination(b)
             [] v.kind = "signature"     -> DumpSignature(b)
             [] v.kind = "sign"          -> DumpSign(b)
             [] v.kind = "announce"      -> DumpAnnounce(b)
             [] v.kind = "plain"         -> DumpPlain(b)
             [] v.kind = "pathrequest"   -> DumpPathRequest(b)
             [] v.kind = "encrypted"     -> DumpEncrypted(b, v.sees)
             [] v.kind = "group"         -> DumpGroup(b, v.sees)
             [] v.kind = "linkrequest"   -> DumpLinkRequest(b)
             [] v.kind = "linkproof"     -> DumpLinkProof(b)
             [] v.kind = "linkdata"      -> DumpLinkData(b, v.sees)
             [] v.kind = "proof"         -> DumpProof(b)
             [] v.kind = "resourceproof" -> DumpResourceProof(b)

-----------------------------------------------------------------------------
Init ==
  /\ vector \in Vectors
  /\ stage = "made"
  /\ expect = << >> /\ class = "none"
  /\ out = Nothing /\ back = Nothing

(* Writer.vector; a describe that raises ends the generator *)
Generate ==
  /\ stage = "made"
  /\ LET lines == Described(vector)
     IN  IF lines = Raises
         THEN stage' = "raised" /\ UNCHANGED <<expect, class>>
         ELSE /\ stage' = "filed"
              /\ expect' = lines
              /\ class' = Determinism(vector.kind, lines)
  /\ UNCHANGED <<vector, out, back>>

Decode ==
  /\ stage = "filed"
  /\ stage' = "decoded"
  /\ out' = Dumped(vector)
  /\ UNCHANGED <<vector, expect, class, back>>

Rebuild ==
  /\ stage = "decoded"
  /\ stage' = "rebuilt"
  /\ back' = Encoded(vector.kind, expect)
  /\ UNCHANGED <<vector, expect, class, out>>

Next == Generate \/ Decode \/ Rebuild
Spec == Init /\ [][Next]_vars

-----------------------------------------------------------------------------
(* The bytes of raw.  The packet of a kind is its last line, put together   *)
(* from the three bytes that have a value and the rest by place.            *)
PacketKinds == (DOMAIN Layout \ {"identity", "keyset", "destination"}) \union {"linkdata"}

PacketBytes(b) ==
  Cat(<<Literal(b.flags), Literal(b.hops), At(b, 2, HeaderLen(b) - 3),
        Literal(b.context), At(b, HeaderLen(b), b.len - HeaderLen(b))>>)

Raw(v) ==
  [i \in 1..Len(v.b) |->
     IF i = Len(v.b) /\ v.kind \in PacketKinds /\ v.b[i].len >= HeaderLen(v.b[i])
     THEN PacketBytes(v.b[i]) ELSE Whole(v.b[i])]

Reproduced == back.status = 0 /\ back.lines = Raw(vector)

(* What dump -e has room for: the bytes of a line, and the fields of the    *)
(* one kind that prints a line for each component of a name.                *)
Fits(v) ==
  /\ \A i \in 1..Len(v.b) : v.b[i].len <= MAXBLOB
  /\ v.kind = "destination" => Len(v.names) + 4 <= MAXFIELDS

(* Every line the generator files is printed by the decoder, at the same    *)
(* place and from the same bytes, and nothing else is: a length, an offset  *)
(* or a rule read differently by one of the two shows here.                 *)
Agree == stage \in {"decoded", "rebuilt"} => out = Exits(expect)

(* A vector is of the encode class exactly when its expect gives raw back   *)
(* byte for byte, which tools/gen derives and cmd/check holds both ways.    *)
ClassIsTheRoundTrip == stage = "rebuilt" => (Reproduced <=> class = "encode")

(* A link has one id, whatever was signalled behind the keys and however    *)
(* far its request was carried: the packet of header type two says the same *)
(* id as the packet its sender made.                                        *)
Relayed(b) == b.len >= HeaderLen(b) /\ Bits(b.flags, 6, 1) = 1

AsSent(b) ==
  [b EXCEPT !.len = @ - ADDRLEN, !.flags = @ - 64]

MovedBack(bytes) ==
  [i \in 1..Len(bytes) |->
     IF bytes[i].of[1] # "line" THEN bytes[i]
     ELSE [bytes[i] EXCEPT !.from = @ - ADDRLEN, !.to = @ - ADDRLEN]]

OneLinkId ==
  LET b == vector.b[1]
      h == Header(b)
      keys == [b EXCEPT !.len = HeaderLen(b) + ECPUBSIZE]
      id(line) == LinkId(line, Header(line))
      hashed(line) == id(line)[1].of[2][1]
  IN  (/\ stage \in {"decoded", "rebuilt"}
       /\ vector.kind \in {"linkrequest", "linkproof", "linkdata"}
       /\ Holds(out.lines, "link_id")) =>
        /\ Lookup(out.lines, "link_id") = Hex(id(keys))
        /\ Relayed(b) => hashed(AsSent(keys)) = MovedBack(hashed(keys))
=============================================================================
