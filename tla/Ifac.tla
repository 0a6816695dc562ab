-------------------------------- MODULE Ifac --------------------------------
(***************************************************************************)
(* The frame an interface with a network name or a passphrase sends:        *)
(* dump_ifac takes one apart and encode_ifac puts it together again.        *)
(*                                                                          *)
(* The reference signs a packet, puts the last bytes of the signature       *)
(* behind the packet's first two bytes as the access code, sets bit 7 of    *)
(* the first byte and masks everything but the code with a keystream that   *)
(* the code is the key of.  What happens to a frame before dump reads it:   *)
(* nothing, one bit altered, or the end cut off.                            *)
(*                                                                          *)
(* A byte is the set of its bits that are one; an array of n bytes is a     *)
(* function from 0 .. n-1, and its length is passed along, as in C.         *)
(***************************************************************************)
EXTENDS Integers

CONSTANTS
  BITS,             \* the bits of a byte
  SIGLEN,           \* the bytes of a signature, and so of the longest code
  MAXBLOB,          \* the bytes a line of raw has room for
  Packets,          \* what the interface is asked to send
  Mask(_, _, _),    \* hkdf_sha256: the keystream of a configuration and code
  Signature(_, _)   \* ed25519_sign with the configuration's key

Byte == SUBSET BITS
Flag == 7           \* the bit that says a frame has an access code
Array(n) == [0..(n - 1) -> Byte]
Xor(a, b) == (a \ b) \union (b \ a)

(* ifac_origin: which of the two a network is configured with *)
Origins == (SUBSET {"netname", "netkey"}) \ {{}}
Sizes == 1..SIGLEN

ASSUME BitsAssumption == Flag \in BITS
ASSUME SizeAssumption == SIGLEN \in Nat \ {0} /\ MAXBLOB \in Nat
ASSUME PacketsAssumption ==
  \A p \in Packets : /\ p.len \in 3..(MAXBLOB - SIGLEN)
                     /\ p.bytes \in Array(p.len)
                     /\ Flag \notin p.bytes[0]
ASSUME MaskAssumption ==
  \A origin \in Origins, n \in Sizes : \A code \in Array(n), len \in 0..MAXBLOB :
    Mask(origin, code, len) \in Array(len)
ASSUME SignatureAssumption ==
  \A origin \in Origins, n \in 2..MAXBLOB : \A p \in Array(n) :
    Signature(origin, p) \in Array(SIGLEN)

VARIABLES
  origin, size,     \* how the interface is configured
  sent,             \* the packet it sent
  hit,              \* what happened to the frame: "whole", "cut" or a bit
  frame, len,       \* the frame as the raw file has it
  stage, ifac, packet, valid,   \* what dump printed
  rebuilt           \* what dump -e printed
vars == <<origin, size, sent, hit, frame, len, stage, ifac, packet, valid, rebuilt>>

-----------------------------------------------------------------------------
MaskedTwoBytesOn(org, code, n, in, m) ==    \* the code masked at its end too
  [i \in 0..(m - 1) |->
     IF i <= 1 \/ i > n THEN Xor(in[i], Mask(org, code, m)[i]) ELSE in[i]]

(* ifac_mask: m bytes, whose n from the third on are the access code *)
Masked(org, code, n, in, m) ==
  [i \in 0..(m - 1) |->
     IF i <= 1 \/ i > n + 1 THEN Xor(in[i], Mask(org, code, m)[i]) ELSE in[i]]

CodeOf(f, n) == [i \in 0..(n - 1) |-> f[i + 2]]

PacketKeepsFlag(org, f, n, m) ==            \* the flag is not cleared
  LET unmasked == Masked(org, CodeOf(f, n), n, f, m)
  IN  [i \in 0..(m - n - 1) |-> IF i <= 1 THEN unmasked[i] ELSE unmasked[i + n]]

PacketKeepsLength(org, f, n, m) ==          \* as long as the frame was
  LET unmasked == Masked(org, CodeOf(f, n), n, f, m)
  IN  [i \in 0..(m - 1) |->
         IF i = 0 THEN unmasked[0] \ {Flag}
         ELSE IF i = 1 \/ i + n >= m THEN unmasked[i] ELSE unmasked[i + n]]

(* the packet is left when the code is taken out and the flag cleared *)
PacketOf(org, f, n, m) ==
  LET unmasked == Masked(org, CodeOf(f, n), n, f, m)
  IN  [i \in 0..(m - n - 1) |->
         IF i = 0 THEN unmasked[0] \ {Flag}
         ELSE IF i = 1 THEN unmasked[1] ELSE unmasked[i + n]]

(* the code a packet should have: the end of its signature *)
ExpectedCode(org, p, n) == [i \in 0..(n - 1) |-> Signature(org, p)[SIGLEN - n + i]]

(* a packet of m bytes, flagged, with n bytes of code put in *)
Framed(p, m, code, n) ==
  [i \in 0..(m + n - 1) |->
     IF i = 0 THEN p[0] \union {Flag}
     ELSE IF i = 1 THEN p[1]
     ELSE IF i <= n + 1 THEN code[i - 2] ELSE p[i - n]]

EncodedMaskedFlag(org, p, m, code, n) ==    \* the flag is left as masked
  Masked(org, code, n, Framed(p, m, code, n), m + n)

(* encode_ifac.  The mask may clear the flag, so it is set once more.       *)
Encoded(org, p, m, code, n) ==
  LET masked == Masked(org, code, n, Framed(p, m, code, n), m + n)
  IN  [masked EXCEPT ![0] = @ \union {Flag}]

(* Transport.transmit, as gen_ifac pins it: flagged, longer by the code,    *)
(* and the code in the clear behind the first two bytes.                    *)
Transmitted(org, p, m, n) ==
  LET code   == ExpectedCode(org, p, n)
      masked == Masked(org, code, n, Framed(p, m, code, n), m + n)
  IN  [i \in 0..(m + n - 1) |->
         IF i = 0 THEN masked[0] \union {Flag} ELSE masked[i]]

-----------------------------------------------------------------------------
Init ==
  /\ origin \in Origins /\ size \in Sizes
  /\ sent \in Packets
  /\ hit = <<"whole">>
  /\ frame = Transmitted(origin, sent.bytes, sent.len, size) /\ len = sent.len + size
  /\ stage = "sent"
  /\ ifac = << >> /\ packet = << >> /\ valid = FALSE /\ rebuilt = << >>

(* One bit is altered, anywhere but in the flag: without it no node takes   *)
(* the frame for one that has a code.                                       *)
Alter(i, bit) ==
  /\ stage = "sent" /\ hit = <<"whole">>
  /\ <<i, bit>> # <<0, Flag>>
  /\ hit' = <<"bit", i, bit>>
  /\ frame' = [frame EXCEPT ![i] = Xor(@, {bit})]
  /\ UNCHANGED <<origin, size, sent, len, stage, ifac, packet, valid, rebuilt>>

Cut(n) ==
  /\ stage = "sent" /\ hit = <<"whole">>
  /\ hit' = <<"cut">>
  /\ len' = n
  /\ frame' = [i \in 0..(n - 1) |-> frame[i]]
  /\ UNCHANGED <<origin, size, sent, stage, ifac, packet, valid, rebuilt>>

ReadOfCodeAlone ==                          \* no byte behind the code is needed
  /\ stage = "sent"
  /\ len >= 2 + size
  /\ stage' = "read"
  /\ ifac' = CodeOf(frame, size)
  /\ packet' = PacketOf(origin, frame, size, len)
  /\ valid' = (CodeOf(frame, size)
                 = ExpectedCode(origin, PacketOf(origin, frame, size, len), size))
  /\ UNCHANGED <<origin, size, sent, hit, frame, len, rebuilt>>

(* dump_ifac *)
Read ==
  /\ stage = "sent"
  /\ len > 2 + size
  /\ stage' = "read"
  /\ ifac' = CodeOf(frame, size)
  /\ packet' = PacketOf(origin, frame, size, len)
  /\ valid' = (CodeOf(frame, size)
                 = ExpectedCode(origin, PacketOf(origin, frame, size, len), size))
  /\ UNCHANGED <<origin, size, sent, hit, frame, len, rebuilt>>

(* it ends in fatal, before anything is printed *)
HoldsNoPacket ==
  /\ stage = "sent"
  /\ len <= 2 + size
  /\ stage' = "refused"
  /\ UNCHANGED <<origin, size, sent, hit, frame, len, ifac, packet, valid, rebuilt>>

(* encode_ifac, from the two fields that hold the code and the packet *)
Rebuild ==
  /\ stage = "read"
  /\ stage' = "rebuilt"
  /\ rebuilt' = Encoded(origin, packet, len - size, ifac, size)
  /\ UNCHANGED <<origin, size, sent, hit, frame, len, ifac, packet, valid>>

Next ==
  \/ \E i \in 0..(len - 1), bit \in BITS : Alter(i, bit)
  \/ \E n \in 0..(len - 1) : Cut(n)
  \/ Read
  \/ HoldsNoPacket
  \/ Rebuild

Spec == Init /\ [][Next]_vars

-----------------------------------------------------------------------------
(* An array is as long as its length says, and holds bytes. *)
TypeOK ==
  /\ origin \in Origins /\ size \in Sizes /\ sent \in Packets
  /\ stage \in {"sent", "refused", "read", "rebuilt"}
  /\ len \in 0..MAXBLOB /\ frame \in Array(len)
  /\ stage \in {"read", "rebuilt"} =>
       ifac \in Array(size) /\ packet \in Array(len - size)
  /\ stage = "rebuilt" => rebuilt \in Array(len)

(* Every frame that reads is rebuilt bit for bit, whatever was done to it   *)
(* on the way: the code is masked by nothing, and the flag, which the       *)
(* packet does not keep, is put back.  It is what puts the kind in the      *)
(* encode class.                                                            *)
RoundTrip == stage = "rebuilt" => rebuilt = frame

(* The packet that was signed comes out of an unaltered frame, and with it  *)
(* the code verifies.                                                       *)
Genuine ==
  (stage \in {"read", "rebuilt"} /\ hit = <<"whole">>) =>
    packet = sent.bytes /\ valid

(* A bit altered outside the code is the same bit altered in the packet,    *)
(* and no other: the mask is a keystream, and the code does not change.     *)
(* It is what gen_ifac builds its altered frame on.                         *)
Unmoved(i) == IF i > size + 1 THEN i - size ELSE i
AlteredAlike ==
  (stage \in {"read", "rebuilt"} /\ hit[1] = "bit" /\ hit[2] \notin 2..(size + 1)) =>
    /\ ifac = ExpectedCode(origin, sent.bytes, size)
    /\ packet = [sent.bytes EXCEPT ![Unmoved(hit[2])] = Xor(@, {hit[3]})]

-----------------------------------------------------------------------------
(* The inductive invariant.  What dump prints is a function of the frame    *)
(* and of nothing before it, so the three above follow from where the frame *)
(* came from (Wire) and what was made of it (Made); that a frame keeps its  *)
(* flag is what the round trip needs of the wire.                           *)
Wire ==
  LET made == Transmitted(origin, sent.bytes, sent.len, size)
  IN  \/ /\ hit = <<"whole">>
         /\ frame = made /\ len = sent.len + size
      \/ /\ hit = <<"cut">>
         /\ len < sent.len + size
         /\ frame = [i \in 0..(len - 1) |-> made[i]]
      \/ \E i \in 0..(len - 1), bit \in BITS :
           /\ <<i, bit>> # <<0, Flag>>
           /\ hit = <<"bit", i, bit>>
           /\ frame = [made EXCEPT ![i] = Xor(@, {bit})] /\ len = sent.len + size

Made ==
  /\ stage \in {"read", "rebuilt"} =>
       /\ len > 2 + size
       /\ ifac = CodeOf(frame, size)
       /\ packet = PacketOf(origin, frame, size, len)
       /\ valid = (ifac = ExpectedCode(origin, packet, size))
  /\ stage = "rebuilt" =>
       rebuilt = Encoded(origin, packet, len - size, ifac, size)

IfacInv == TypeOK /\ Wire /\ Made
=============================================================================
