------------------------------- MODULE Cipher -------------------------------
(***************************************************************************)
(* AES in CBC mode, the padding, and token_open, which is both behind an    *)
(* HMAC.  Bytes are as in Hashes; the four by four of the cipher is the     *)
(* sequence s[1] .. s[16], column by column.                                *)
(***************************************************************************)
EXTENDS Hashes, Sizes

Byte == SUBSET (0..7)
Table(ns) == [b \in Byte |-> BitsOf(ns[1 + (CHOOSE n \in 0..255 : BitsOf(n) = b)])]
sbox == Table(
  <<99, 124, 119, 123, 242, 107, 111, 197, 48, 1, 103, 43, 254, 215, 171, 118, 202, 130, 201, 125,
    250, 89, 71, 240, 173, 212, 162, 175, 156, 164, 114, 192, 183, 253, 147, 38, 54, 63, 247, 204,
    52, 165, 229, 241, 113, 216, 49, 21, 4, 199, 35, 195, 24, 150, 5, 154, 7, 18, 128, 226, 235, 39,
    178, 117, 9, 131, 44, 26, 27, 110, 90, 160, 82, 59, 214, 179, 41, 227, 47, 132, 83, 209, 0, 237,
    32, 252, 177, 91, 106, 203, 190, 57, 74, 76, 88, 207, 208, 239, 170, 251, 67, 77, 51, 133, 69,
    249, 2, 127, 80, 60, 159, 168, 81, 163, 64, 143, 146, 157, 56, 245, 188, 182, 218, 33, 16, 255,
    243, 210, 205, 12, 19, 236, 95, 151, 68, 23, 196, 167, 126, 61, 100, 93, 25, 115, 96, 129, 79,
    220, 34, 42, 144, 136, 70, 238, 184, 20, 222, 94, 11, 219, 224, 50, 58, 10, 73, 6, 36, 92, 194,
    211, 172, 98, 145, 149, 228, 121, 231, 200, 55, 109, 141, 213, 78, 169, 108, 86, 244, 234, 101,
    122, 174, 8, 186, 120, 37, 46, 28, 166, 180, 198, 232, 221, 116, 31, 75, 189, 139, 138, 112, 62,
    181, 102, 72, 3, 246, 14, 97, 53, 87, 185, 134, 193, 29, 158, 225, 248, 152, 17, 105, 217, 142,
    148, 155, 30, 135, 233, 206, 85, 40, 223, 140, 161, 137, 13, 191, 230, 66, 104, 65, 153, 45, 15,
    176, 84, 187, 22>>)
rsbox == Table(
  <<82, 9, 106, 213, 48, 54, 165, 56, 191, 64, 163, 158, 129, 243, 215, 251, 124, 227, 57, 130, 155,
    47, 255, 135, 52, 142, 67, 68, 196, 222, 233, 203, 84, 123, 148, 50, 166, 194, 35, 61, 238, 76,
    149, 11, 66, 250, 195, 78, 8, 46, 161, 102, 40, 217, 36, 178, 118, 91, 162, 73, 109, 139, 209,
    37, 114, 248, 246, 100, 134, 104, 152, 22, 212, 164, 92, 204, 93, 101, 182, 146, 108, 112, 72,
    80, 253, 237, 185, 218, 94, 21, 70, 87, 167, 141, 157, 132, 144, 216, 171, 0, 140, 188, 211, 10,
    247, 228, 88, 5, 184, 179, 69, 6, 208, 44, 30, 143, 202, 63, 15, 2, 193, 175, 189, 3, 1, 19,
    138, 107, 58, 145, 17, 65, 79, 103, 220, 234, 151, 242, 207, 206, 240, 180, 230, 115, 150, 172,
    116, 34, 231, 173, 53, 133, 226, 249, 55, 232, 28, 117, 223, 110, 71, 241, 26, 113, 29, 41, 197,
    137, 111, 183, 98, 14, 170, 24, 190, 27, 252, 86, 62, 75, 198, 210, 121, 32, 154, 219, 192, 254,
    120, 205, 90, 244, 31, 221, 168, 51, 136, 7, 199, 49, 177, 18, 16, 89, 39, 128, 236, 95, 96, 81,
    127, 169, 25, 181, 74, 13, 45, 229, 122, 159, 147, 201, 156, 239, 160, 224, 59, 77, 174, 42,
    245, 176, 200, 235, 187, 60, 131, 83, 153, 97, 23, 43, 4, 126, 186, 119, 214, 38, 225, 105, 20,
    99, 85, 33, 12, 125>>)
rcon == <<1, 2, 4, 8, 16, 32, 64, 128, 27, 54>>

xtime(x) == Xor({i + 1 : i \in x \ {7}}, IF 7 \in x THEN BitsOf(27) ELSE {})

RECURSIVE mul(_, _)
mul(x, y) ==
  IF y = {} THEN {}
  ELSE Xor(IF 0 \in y THEN x ELSE {}, mul(xtime(x), {i - 1 : i \in y \ {0}}))
Times == [y \in {BitsOf(n) : n \in {9, 11, 13, 14}} |-> [x \in Byte |-> mul(x, y)]]

-----------------------------------------------------------------------------
Four(F(_)) == <<F(1), F(2), F(3), F(4)>>
Sixteen(F(_)) == <<F(1), F(2), F(3), F(4), F(5), F(6), F(7), F(8),
                   F(9), F(10), F(11), F(12), F(13), F(14), F(15), F(16)>>

RECURSIVE ExpandsAlike(_, _, _)
ExpandsAlike(rk, nk, nr) ==      \* one substitution, whatever the length
  LET i       == Len(rk) \div 4
      last(j) == rk[4 * (i - 1) + j]
      t(j)    == IF i % nk = 0
                 THEN Xor(sbox[last((j % 4) + 1)],
                          IF j = 1 THEN BitsOf(rcon[i \div nk]) ELSE {})
                 ELSE last(j)
      next(j) == Xor(rk[4 * (i - nk) + j], t(j))
  IN  IF i = 4 * (nr + 1) THEN rk ELSE ExpandsAlike(rk \o Four(next), nk, nr)

(* expand_key, four bytes at a time.  Only eight words of key have the      *)
(* second substitution.                                                     *)
RECURSIVE expand_key(_, _, _)
expand_key(rk, nk, nr) ==
  LET i       == Len(rk) \div 4
      last(j) == rk[4 * (i - 1) + j]
      t(j)    == IF i % nk = 0
                 THEN Xor(sbox[last((j % 4) + 1)],
                          IF j = 1 THEN BitsOf(rcon[i \div nk]) ELSE {})
                 ELSE IF nk > 6 /\ i % nk = 4 THEN sbox[last(j)] ELSE last(j)
      next(j) == Xor(rk[4 * (i - nk) + j], t(j))
  IN  IF i = 4 * (nr + 1) THEN rk ELSE expand_key(rk \o Four(next), nk, nr)

add_round_key(s, rk, round) ==
  LET at(i) == Xor(s[i], rk[16 * round + i]) IN Sixteen(at)

inv_sub_bytes(s) == LET at(i) == rsbox[s[i]] IN Sixteen(at)

(* row r of the state goes right by r columns *)
inv_shift_rows(s) ==
  <<s[1], s[14], s[11], s[8], s[5], s[2], s[15], s[12],
    s[9], s[6], s[3], s[16], s[13], s[10], s[7], s[4]>>

inv_mix_columns(s) ==
  LET by(i, k, n) == Times[BitsOf(n)][s[((i - 1) \div 4) * 4 + 1 + ((i - 1 + k) % 4)]]
      at(i) == Xor(Xor(by(i, 0, 14), by(i, 1, 11)), Xor(by(i, 2, 13), by(i, 3, 9)))
  IN  Sixteen(at)

RECURSIVE Unrounded(_, _, _)
Unrounded(s, rk, round) ==
  LET plain == add_round_key(inv_sub_bytes(inv_shift_rows(s)), rk, round)
  IN  IF round = 0 THEN plain ELSE Unrounded(inv_mix_columns(plain), rk, round - 1)

decrypt_block(rk, nr, s) == Unrounded(add_round_key(s, rk, nr), rk, nr - 1)

RECURSIVE Chained(_, _, _, _)
Chained(rk, nr, chain, in) ==
  LET block == SubSeq(in, 1, 16)
      plain == decrypt_block(rk, nr, block)
      at(i) == Xor(plain[i], chain[i])
  IN  IF in = << >> THEN << >>
      ELSE Sixteen(at) \o Chained(rk, nr, block, SubSeq(in, 17, Len(in)))

(* nothing, when it is refused: what is not has a block at least *)
aes_cbc_decrypt(key, iv, in) ==
  LET nk == Len(key) \div 4
      nr == nk + 6
  IN  IF Len(in) = 0 \/ Len(in) % 16 # 0 \/ Len(key) \notin {16, 32} THEN << >>
      ELSE Chained(expand_key(key, nk, nr), nr, iv, in)

Num(b) == CHOOSE n \in 0..255 : BitsOf(n) = b

(* the length in front of the padding, and -1 when it is refused *)
pkcs7_unpad(in) ==
  IF Len(in) = 0 \/ Len(in) % 16 # 0 \/ Num(in[Len(in)]) > 16 THEN -1
  ELSE Len(in) - Num(in[Len(in)])

OpensOnHalfTheMac(p, key) ==     \* as many bytes as the key has are compared
  LET half   == Len(key) \div 2
      iv     == SubSeq(p, 1, IVLEN)
      ct     == SubSeq(p, IVLEN + 1, Len(p) - MACLEN)
      mac    == SubSeq(p, Len(p) - MACLEN + 1, Len(p))
      mac_ok == SubSeq(mac, 1, half) =
                  SubSeq(hmac_sha256(SubSeq(key, 1, half), iv \o ct), 1, half)
      plain  == aes_cbc_decrypt(SubSeq(key, half + 1, Len(key)), iv, ct)
      ptlen  == pkcs7_unpad(plain)
      opened == mac_ok /\ ptlen >= 0
  IN  [mac_ok |-> mac_ok, opened |-> opened,
       plain |-> IF opened THEN SubSeq(plain, 1, ptlen) ELSE << >>]

(* with a key, whose length selects the cipher *)
token_open(p, key) ==
  LET half   == Len(key) \div 2
      iv     == SubSeq(p, 1, IVLEN)
      ct     == SubSeq(p, IVLEN + 1, Len(p) - MACLEN)
      mac    == SubSeq(p, Len(p) - MACLEN + 1, Len(p))
      mac_ok == mac = hmac_sha256(SubSeq(key, 1, half), iv \o ct)
      plain  == aes_cbc_decrypt(SubSeq(key, half + 1, Len(key)), iv, ct)
      ptlen  == pkcs7_unpad(plain)
      opened == mac_ok /\ ptlen >= 0
  IN  [mac_ok |-> mac_ok, opened |-> opened,
       plain |-> IF opened THEN SubSeq(plain, 1, ptlen) ELSE << >>]
=============================================================================
