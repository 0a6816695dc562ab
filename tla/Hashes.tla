------------------------------- MODULE Hashes -------------------------------
(***************************************************************************)
(* SHA-256, HMAC and HKDF as cmd/ has them.  A byte is the set of its bits  *)
(* that are one, and so is a word of thirty-two; bytes in a row are a       *)
(* sequence.                                                                *)
(***************************************************************************)
EXTENDS Integers, Sequences

Xor(a, b) == (a \ b) \union (b \ a)
BitsOf(n) == {i \in 0..15 : (n \div 2^i) % 2 = 1}
Zeros(n) == [i \in 1..n |-> {}]

-----------------------------------------------------------------------------
(* words *)

WORD == 32
Ror(x, n) == {(i - n) % WORD : i \in x}
Shr(x, n) == {i - n : i \in {j \in x : j >= n}}

RECURSIVE Plus(_, _)             \* modulo 2^32: what is carried out is lost
Plus(x, y) ==
  IF y = {} THEN x ELSE Plus(Xor(x, y), {i + 1 : i \in (x \intersect y) \ {WORD - 1}})

WordAt(p, i) == UNION {{b + 8 * (4 - j) : b \in p[4 * (i - 1) + j]} : j \in 1..4}
BytesOf(w) == LET at(j) == {b \in 0..7 : b + 8 * (4 - j) \in w}
              IN  <<at(1), at(2), at(3), at(4)>>

(* two halves of sixteen bits are a word *)
Words(ns) == [i \in 1..(Len(ns) \div 2) |->
                {b + 16 : b \in BitsOf(ns[2 * i - 1])} \union BitsOf(ns[2 * i])]
K == Words(
  <<17034, 12184, 28983, 17553, 46528, 64463, 59829, 56229, 14678, 49755, 23025, 4593, 37439, 33444,
    43804, 24277, 55303, 43672, 4739, 23297, 9265, 34238, 21772, 32195, 29374, 23924, 32990, 45566,
    39900, 1703, 49563, 61812, 58523, 27073, 61374, 18310, 4033, 40390, 9228, 41420, 11753, 11375,
    19060, 33962, 23728, 43484, 30457, 35034, 38974, 20818, 43057, 50797, 45059, 10184, 48985,
    32711, 50912, 3059, 54695, 37191, 1738, 25425, 5161, 10599, 10167, 2693, 11803, 8504, 19756,
    28156, 21304, 3347, 25866, 29524, 30314, 2747, 33218, 51502, 37490, 11397, 41663, 59553, 43034,
    26187, 49739, 35696, 51052, 20899, 53650, 59417, 54937, 1572, 62478, 13701, 4202, 41072, 6564,
    49430, 7735, 27656, 10056, 30540, 13488, 48309, 14620, 3251, 20184, 43594, 23452, 51791, 26670,
    28659, 29839, 33518, 30885, 25455, 33992, 30740, 36039, 520, 37054, 65530, 42064, 27883, 48889,
    41975, 50801, 30962>>)
H0 == Words(
  <<27145, 58983, 47975, 44677, 15470, 62322, 42319, 62778, 20750, 21119, 39685, 26764, 8067, 55723,
    23520, 52505>>)

-----------------------------------------------------------------------------
(* block: the sixteen words and forty-eight made of them, and a round each *)

RECURSIVE Scheduled(_)
Scheduled(w) ==
  LET n  == Len(w) + 1
      s0 == Xor(Ror(w[n - 15], 7), Xor(Ror(w[n - 15], 18), Shr(w[n - 15], 3)))
      s1 == Xor(Ror(w[n - 2], 17), Xor(Ror(w[n - 2], 19), Shr(w[n - 2], 10)))
  IN  IF Len(w) = 64 THEN w
      ELSE Scheduled(Append(w, Plus(Plus(w[n - 16], s0), Plus(w[n - 7], s1))))

Round(v, k, w) ==
  LET S1 == Xor(Ror(v[5], 6), Xor(Ror(v[5], 11), Ror(v[5], 25)))
      ch == Xor(v[5] \intersect v[6], v[7] \ v[5])
      S0 == Xor(Ror(v[1], 2), Xor(Ror(v[1], 13), Ror(v[1], 22)))
      mj == Xor(v[1] \intersect v[2], Xor(v[1] \intersect v[3], v[2] \intersect v[3]))
      t1 == Plus(Plus(Plus(v[8], S1), Plus(ch, k)), w)
  IN  <<Plus(t1, Plus(S0, mj)), v[1], v[2], v[3], Plus(v[4], t1), v[5], v[6], v[7]>>

RECURSIVE Rounds(_, _)           \* what a to hh were before each round
Rounds(vs, w) ==
  LET i == Len(vs) IN IF i > 64 THEN vs[i] ELSE Rounds(Append(vs, Round(vs[i], K[i], w[i])), w)

Block(h, p) ==
  LET w == Scheduled(<<WordAt(p, 1), WordAt(p, 2), WordAt(p, 3), WordAt(p, 4),
                       WordAt(p, 5), WordAt(p, 6), WordAt(p, 7), WordAt(p, 8),
                       WordAt(p, 9), WordAt(p, 10), WordAt(p, 11), WordAt(p, 12),
                       WordAt(p, 13), WordAt(p, 14), WordAt(p, 15), WordAt(p, 16)>>)
      v == Rounds(<<h>>, w)
  IN  <<Plus(h[1], v[1]), Plus(h[2], v[2]), Plus(h[3], v[3]), Plus(h[4], v[4]),
        Plus(h[5], v[5]), Plus(h[6], v[6]), Plus(h[7], v[7]), Plus(h[8], v[8])>>

LastBlocksEarly(data) ==         \* a second block one byte before it is needed
  LET rest == Len(data) % 64
      pad  == IF rest < 55 THEN 64 ELSE 128
      bits == 8 * Len(data)
  IN  SubSeq(data, Len(data) - rest + 1, Len(data)) \o <<{7}>> \o Zeros(pad - rest - 9)
        \o [i \in 1..8 |-> IF i <= 4 THEN {} ELSE BitsOf((bits \div 256^(8 - i)) % 256)]

(* what follows the last whole block: 0x80, zeros to the end of this block  *)
(* or of one more, and the length in bits in the last eight bytes           *)
LastBlocks(data) ==
  LET rest == Len(data) % 64
      pad  == IF rest < 56 THEN 64 ELSE 128
      bits == 8 * Len(data)
  IN  SubSeq(data, Len(data) - rest + 1, Len(data)) \o <<{7}>> \o Zeros(pad - rest - 9)
        \o [i \in 1..8 |-> IF i <= 4 THEN {} ELSE BitsOf((bits \div 256^(8 - i)) % 256)]

RECURSIVE Blocks(_, _)
Blocks(h, p) ==
  IF p = << >> THEN h ELSE Blocks(Block(h, SubSeq(p, 1, 64)), SubSeq(p, 65, Len(p)))

Hashed(data) == SubSeq(data, 1, Len(data) - (Len(data) % 64)) \o LastBlocks(data)

Digest(h) == BytesOf(h[1]) \o BytesOf(h[2]) \o BytesOf(h[3]) \o BytesOf(h[4])
               \o BytesOf(h[5]) \o BytesOf(h[6]) \o BytesOf(h[7]) \o BytesOf(h[8])
sha256(data) == Digest(Blocks(H0, Hashed(data)))

-----------------------------------------------------------------------------
HASH == 32

hmac_sha256(key, data) ==
  LET k      == (IF Len(key) > 64 THEN sha256(key) ELSE key)
                  \o Zeros(64 - (IF Len(key) > 64 THEN HASH ELSE Len(key)))
      pad(c) == [i \in 1..64 |-> Xor(k[i], BitsOf(c))]
  IN  sha256(pad(92) \o sha256(pad(54) \o data))

(* the blocks after the first are over the one before them *)
RECURSIVE Produced(_, _, _, _, _)
Produced(prk, context, outlen, block, counter) ==
  IF outlen <= 0 THEN << >>
  ELSE LET next == hmac_sha256(prk, block \o context \o <<BitsOf((counter + 1) % 256)>>)
       IN  SubSeq(next, 1, IF outlen < HASH THEN outlen ELSE HASH)
             \o Produced(prk, context, outlen - HASH, next, counter + 1)

hkdfSaltedWithTheSecret(ikm, salt, context, outlen) ==
  Produced(hmac_sha256(ikm, salt), context, outlen, << >>, 0)

(* no salt is thirty-two zeros *)
hkdf_sha256(ikm, salt, context, outlen) ==
  Produced(hmac_sha256(IF salt = << >> THEN Zeros(HASH) ELSE salt, ikm),
           context, outlen, << >>, 0)
=============================================================================
