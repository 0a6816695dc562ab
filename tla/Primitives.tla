----------------------------- MODULE Primitives -----------------------------
(***************************************************************************)
(* What the primitives answer, against what the standards and the corpus    *)
(* ask of them: one thing is put to one of them and it answers.             *)
(*                                                                          *)
(* A token comes from a sender that has the key.  It enciphers as FIPS 197  *)
(* does, from the formulas and not from the tables of cmd/aes.c, whatever   *)
(* block it was given, so with any padding or none; then a bit is altered   *)
(* on the way, or the end cut off, or nothing happens.                      *)
(***************************************************************************)
EXTENDS Cipher

CONSTANTS
  Messages,      \* [kind, data]: bytes to be hashed
  Secrets,       \* [kind, ikm, salt, context, len, gives]
  Interfaces,    \* [kind, netname, netkey, gives], an absent one is no bytes
  Received,      \* [kind, token, key, gives]: a token of the corpus
  Tokens,        \* [kind, key, body, ragged, hit]: what is put under the cipher, what
                 \* is behind the ciphertext, what happens to the token
  IfacSalt

VARIABLES input, answered, output
vars == <<input, answered, output>>

-----------------------------------------------------------------------------
(* the key of an interface, from the one or two things it is configured with *)
Origin(name) == IF name = << >> THEN << >> ELSE sha256(name)
ifac_key(netname, netkey) ==
  hkdf_sha256(sha256(Origin(netname) \o Origin(netkey)), IfacSalt, << >>, KEYSIZE)

-----------------------------------------------------------------------------
(* FIPS 180-4, 5.1.1, in bits: a one, the fewest zeros that leave sixty-four *)
(* bits of a block, and the length in those.                                 *)
Padded(data) ==
  LET l     == 8 * Len(data)
      k     == CHOOSE n \in 0..511 : (l + 1 + n) % 512 = 448
      all   == l + 1 + k + 64
      Is(j) == CASE j <= l       -> 7 - ((j - 1) % 8) \in data[((j - 1) \div 8) + 1]
                 [] j = l + 1    -> TRUE
                 [] j > all - 31 -> (l \div 2^(all - j)) % 2 = 1
                 [] OTHER        -> FALSE
  IN  [i \in 1..(all \div 8) |-> {b \in 0..7 : Is(8 * i - b)}]

(* FIPS 197, 4.2: polynomials, modulo X^8 + X^4 + X^3 + X + 1 *)
RECURSIVE Modulo(_)
Modulo(p) == LET top == {i \in p : i >= 8 /\ \A j \in p : j <= i}
             IN  IF top = {} THEN p
                 ELSE Modulo(Xor(p, UNION {{i, i - 4, i - 5, i - 7, i - 8} : i \in top}))
Product(x, y) ==
  LET times(i) == IF i \in y THEN {i + j : j \in x} ELSE {}
  IN  Modulo(Xor(Xor(Xor(times(0), times(1)), Xor(times(2), times(3))),
                 Xor(Xor(times(4), times(5)), Xor(times(6), times(7)))))

(* 5.1.1 to 5.1.3: the inverse and what is added to it, rows, columns *)
SubByte ==
  [b \in Byte |->
     LET x      == IF b = {} THEN {} ELSE CHOOSE y \in Byte : Product(b, y) = {0}
         rot(k) == {(i + k) % 8 : i \in x}
     IN  Xor(BitsOf(99), Xor(Xor(x, rot(1)), Xor(Xor(rot(2), rot(3)), rot(4))))]
ShiftRows(s) ==
  LET at(i) == s[1 + ((i - 1 + 4 * ((i - 1) % 4)) % 16)] IN Sixteen(at)
MixColumns(s) ==
  LET by(i, k) == s[4 * ((i - 1) \div 4) + ((i - 1 + k) % 4) + 1]
      at(i)    == Xor(Xor(Product(by(i, 0), {1}), Product(by(i, 1), {0, 1})),
                      Xor(by(i, 2), by(i, 3)))
  IN  Sixteen(at)

(* 5.2: a word is made of the one before it and the one Nk words back *)
XorWord(v, w) == LET at(j) == Xor(v[j], w[j]) IN Four(at)
SubWord(w) == LET at(j) == SubByte[w[j]] IN Four(at)
RotWord(w) == <<w[2], w[3], w[4], w[1]>>
Rcon(i) == <<Modulo({i - 1}), {}, {}, {}>>
RECURSIVE KeyExpansion(_, _)
KeyExpansion(w, Nk) ==
  LET i    == Len(w)
      temp == CASE i % Nk = 0            -> XorWord(SubWord(RotWord(w[i])), Rcon(i \div Nk))
                [] Nk > 6 /\ i % Nk = 4 -> SubWord(w[i])
                [] OTHER                 -> w[i]
  IN  IF i = 4 * (Nk + 7) THEN w
      ELSE KeyExpansion(Append(w, XorWord(w[i - Nk + 1], temp)), Nk)
Schedule(key) ==
  LET Nk == Len(key) \div 4
      w  == KeyExpansion([i \in 1..Nk |-> SubSeq(key, 4 * i - 3, 4 * i)], Nk)
  IN  [n \in 1..(16 * (Nk + 7)) |-> w[(n + 3) \div 4][((n - 1) % 4) + 1]]

RECURSIVE Rounded(_, _, _, _)
Rounded(s, rk, nr, round) ==
  LET sub(i) == SubByte[s[i]]
      rows   == ShiftRows(Sixteen(sub))
  IN  IF round = nr THEN add_round_key(rows, rk, nr)
      ELSE Rounded(add_round_key(MixColumns(rows), rk, round), rk, nr, round + 1)

RECURSIVE Enciphered(_, _, _, _)
Enciphered(rk, nr, chain, body) ==
  LET mixed(i) == Xor(body[i], chain[i])
      block    == Rounded(add_round_key(Sixteen(mixed), rk, 0), rk, nr, 1)
  IN  IF body = << >> THEN << >>
      ELSE block \o Enciphered(rk, nr, block, SubSeq(body, 17, Len(body)))

(* the token of a sender, and as it arrives *)
Sealed(t) ==
  LET half == Len(t.key) \div 2
      nk   == half \div 4
      iv   == [i \in 1..IVLEN |-> BitsOf(7 * i)]
      rk   == Schedule(SubSeq(t.key, half + 1, Len(t.key)))
      ct   == Enciphered(rk, nk + 6, iv, t.body) \o t.ragged
  IN  iv \o ct \o hmac_sha256(SubSeq(t.key, 1, half), iv \o ct)
Arrived(t) ==
  CASE t.hit[1] = "whole" -> Sealed(t)
    [] t.hit[1] = "cut"   -> SubSeq(Sealed(t), 1, t.hit[2])
    [] t.hit[1] = "bit"   -> [Sealed(t) EXCEPT ![t.hit[2]] = Xor(@, {t.hit[3]})]

-----------------------------------------------------------------------------
Init ==
  /\ input \in Messages \union Secrets \union Interfaces \union Received \union Tokens
  /\ answered = FALSE /\ output = << >>

Answer(kind) == ~answered /\ input.kind = kind /\ answered' = TRUE /\ UNCHANGED input

Hash == Answer("message") /\ output' = sha256(input.data)
Derive ==
  /\ Answer("secret")
  /\ output' = hkdf_sha256(input.ikm, input.salt, input.context, input.len)
Configure ==
  /\ Answer("interface")
  /\ output' = ifac_key(input.netname, input.netkey)
OpenReceived == Answer("received") /\ output' = token_open(input.token, input.key)
OpenSealed == Answer("token") /\ output' = token_open(Arrived(input), input.key)

Next == Hash \/ Derive \/ Configure \/ OpenReceived \/ OpenSealed
Spec == Init /\ [][Next]_vars

-----------------------------------------------------------------------------
(* A message of any length is padded as FIPS 180-4 says, through the one    *)
(* block sha256 has for its end or the two.                                 *)
HashesAsPublished ==
  (answered /\ input.kind = "message") => output = Digest(Blocks(H0, Padded(input.data)))

(* What the corpus has of digests, derived keys and tokens of both lengths  *)
(* of key comes out: "selects AES-128-CBC and halves both parts"            *)
(* (doc/encryption:137).                                                    *)
CorpusAnswers ==
  (answered /\ input.kind \in {"secret", "interface", "received"}) => output = input.gives

(* Whatever was sealed is opened: "the final byte gives the padding length; *)
(* a value above the block size is invalid", and what it counts is "never   *)
(* compared" (doc/encryption:165-171).  A ciphertext that is empty, or one  *)
(* of 15, 17 or 33 bytes, for which the corpus has no vector, verifies and  *)
(* is not opened.  The sender expands its key as FIPS 197 does, so a        *)
(* schedule that is wrong for one length of key opens nothing.              *)
OpensWhatWasSealed ==
  (answered /\ input.kind = "token" /\ input.hit = <<"whole">>) =>
    LET n     == Len(input.body)
        pads  == Num(input.body[n])
        whole == n > 0 /\ input.ragged = << >> /\ pads <= BLOCK
    IN  output = [mac_ok |-> TRUE, opened |-> whole,
                  plain |-> IF whole THEN SubSeq(input.body, 1, n - pads) ELSE << >>]

(* A token altered anywhere, the iv no less than the ciphertext, gives no   *)
(* plaintext and verifies nowhere, whichever length of key it is under.     *)
DamageIsSeen ==
  (answered /\ input.kind = "token" /\ input.hit # <<"whole">>) =>
    output = [mac_ok |-> FALSE, opened |-> FALSE, plain |-> << >>]
=============================================================================
