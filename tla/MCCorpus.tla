------------------------------ MODULE MCCorpus ------------------------------
(***************************************************************************)
(* The vectors: for each kind the lengths on both sides of every limit its  *)
(* decoder has, with the lengths the format itself has and not smaller      *)
(* ones, and the bytes of the header the two programs branch on.            *)
(***************************************************************************)
EXTENDS Harness

Blob(i, len) == [line |-> i, len |-> len, absent |-> len = 0,
                 flags |-> 0, hops |-> 0, context |-> 0, dots |-> {}]
Pkt(i, len, flags, hops, context) ==
  [Blob(i, len) EXCEPT !.flags = flags, !.hops = hops, !.context = context]

Unseen == [agreed |-> TRUE, mac_ok |-> TRUE, pad |-> 1, exhausted |-> FALSE]
Vector(kind, b, sees) == [kind |-> kind, b |-> b, sees |-> sees, names |-> << >>]

(* header type one and two, with and without a ratchet, to each type of     *)
(* destination                                                              *)
Flags == {1, 65, 33, 97, 12, 76, 19}
HopCounts == {0, 127, 128, 255}

(* i-th line a packet with a payload of n bytes, or cut inside its header   *)
Carrying(i, flags, hops, context, n) ==
  Pkt(i, n + IF flags \div 64 % 2 = 1 THEN 35 ELSE 19, flags, hops, context)
CutShort(i, flags) == {Pkt(i, n, flags, hops, 0) : n \in {1, 2, 18, 34}, hops \in HopCounts}

Packets(i, payloads) ==
  {Carrying(i, f, hops, 0, n) : f \in Flags, hops \in {3, 128}, n \in payloads}
    \union CutShort(i, 1) \union CutShort(i, 65)

WithoutPacket ==
  {Vector(k, <<Blob(1, 64)>>, Unseen) : k \in {"identity", "keyset"}}
    \union {Vector("signature", <<Blob(1, 64), Blob(2, n), Blob(3, 64)>>, Unseen) :
              n \in {1, 950, 2048}}
    \union {Vector("sign", <<Blob(1, 64), Blob(2, n)>>, Unseen) : n \in {1, 2048}}

(* names of components of these lengths, joined with dots *)
RECURSIVE Starts(_, _)
Starts(lens, at) == IF lens = << >> THEN << >>
                    ELSE <<at>> \o Starts(Tail(lens), at + Head(lens) + 1)
Named(lens, identity) ==
  LET at == Starts(lens, 0)
      end(i) == at[i] + lens[i]
  IN  [kind |-> "destination", sees |-> Unseen,
       b |-> <<[Blob(1, end(Len(lens))) EXCEPT !.dots = {end(i) : i \in 1..(Len(lens) - 1)}],
               Blob(2, identity)>>,
       names |-> [i \in 1..Len(lens) |-> <<at[i], end(i)>>]]

Destinations ==
  {Named(lens, id) : lens \in {<<3>>, <<1, 1>>, <<5, 0, 2>>, <<4, 3, 3, 7>>, <<2, 0>>,
                              [i \in 1..35 |-> 2], [i \in 1..36 |-> 1]}, id \in {0, 16}}

Announces == {Vector("announce", <<p>>, Unseen) :
                p \in Packets(1, {0, 147, 148, 149, 179, 180, 181, 465})}
Plains == {Vector("plain", <<p>>, Unseen) : p \in Packets(1, {0, 1, 481})}
PathRequests == {Vector("pathrequest", <<p>>, Unseen) :
                   p \in Packets(1, {0, 15, 16, 17, 31, 32, 33, 47, 48, 49, 65})}
LinkRequests == {Vector("linkrequest", <<p>>, Unseen) : p \in Packets(1, {0, 63, 64, 65, 66, 67, 68})}

(* a link request as its initiator sent it, or as a node passed it on *)
Requests == {Carrying(1, f, 1, 0, n) : f \in {2, 82}, n \in {64, 67}}

LinkProofs == {Vector("linkproof", <<r, Blob(2, 64), p>>, Unseen) :
                 r \in Requests, p \in Packets(3, {0, 63, 95, 96, 97, 98, 99, 100})}

(* a proof on a link is checked with half a key *)
Signer(p) == Blob(2, IF p.flags \div 4 % 4 = 3 THEN 32 ELSE 64)
Proofs == {Vector("proof", <<proved, Signer(p), p>>, Unseen) :
             proved \in {Carrying(1, f, 1, 0, 20) : f \in {0, 80}},
             p \in Packets(3, {0, 63, 64, 65, 95, 96, 97})}
ResourceProofs == {Vector("resourceproof", <<Blob(1, 32), p>>, Unseen) :
                     p \in Packets(2, {0, 32, 63, 64, 65})}

Sights(pads) == [agreed : BOOLEAN, mac_ok : BOOLEAN, pad : pads, exhausted : {FALSE}]

Encrypteds == {Vector("encrypted", <<Blob(1, 64), Blob(2, r), p>>, s) :
                 r \in {0, 32}, p \in Packets(3, {79, 80, 81, 95, 96, 97, 112}),
                 s \in Sights({0, 1, 16, 17})}
Groups == {Vector("group", <<Blob(1, k), p>>, s) :
             k \in {32, 64}, p \in Packets(2, {0, 47, 48, 49, 63, 64, 65, 80}),
             s \in {x \in Sights({0, 16, 17}) : x.agreed}}

(* every context that is read further, two that are not encrypted, and two  *)
(* that are only printed; ciphertexts of no, one, three and nine blocks and *)
(* paddings that leave each plaintext one byte short, enough, and too long  *)
LinkPackets ==
  {Carrying(3, f, 1, c, 48 + n) :
     f \in {12, 76}, c \in {0, 1, 2, 3, 4, 6, 7, 8, 9, 10, 14, 250, 251, 252}, n \in {0, 16, 48, 144}}
LinkDatas ==
  {Vector("linkdata", <<r, Blob(2, 32), p>>, s) :
     r \in Requests, p \in LinkPackets,
     s \in [agreed : {TRUE}, mac_ok : {TRUE}, pad : {0, 10, 11, 12, 15, 16, 17}, exhausted : BOOLEAN]}
  \union {Vector("linkdata", <<r, Blob(2, 32), p>>, s) :
     r \in Requests, s \in Sights({1}),
     p \in Packets(3, {0, 47, 48, 49, 64}) \union {Carrying(3, 12, 1, c, n) : c \in {1, 9}, n \in {0, 5, 47, 50}}}

MCVectors ==
  UNION {WithoutPacket, Destinations, Announces, Plains, PathRequests, LinkRequests, LinkProofs,
         Proofs, ResourceProofs, Encrypteds, Groups, LinkDatas}

(* dump -e has room for each of them, and for two of the names just so *)
ASSUME VectorsFit == \A v \in Vectors : Fits(v)
=============================================================================
