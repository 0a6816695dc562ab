------------------------------- MODULE Octets -------------------------------
(***************************************************************************)
(* Bytes by where they come from, and the lines made of them.               *)
(*                                                                          *)
(* Two programs that read one packet agree when they take each field from   *)
(* the same place.  So a byte string here is not its bytes but the pieces   *)
(* it was put together from: the bytes [from, to) of an input line, of a    *)
(* digest, of a key agreement, or one byte a program wrote itself.  Joined  *)
(* pieces that continue each other are one piece, which makes two byte      *)
(* strings equal exactly when they are the same bytes of the same things.   *)
(* What a cryptographic function returns is named by what went into it.     *)
(***************************************************************************)
EXTENDS Integers, SequencesExt

Piece(of, from, to) == [of |-> of, from |-> from, to |-> to]

(* n bytes at an address, as a C function is handed them *)
Mem(of, from, n) == IF n = 0 THEN << >> ELSE <<Piece(of, from, from + n)>>

(* of[from:to] of an object of len bytes: a Python slice stops at its end *)
Within(i, len) == IF i < 0 THEN 0 ELSE IF i > len THEN len ELSE i
Sliced(of, len, from, to) ==
  LET a == Within(from, len)
      b == Within(to, len)
  IN  IF b <= a THEN << >> ELSE <<Piece(of, a, b)>>

Join(s, t) ==
  IF s = << >> \/ t = << >> THEN s \o t
  ELSE LET l == Last(s)
           f == Head(t)
       IN  IF l.of = f.of /\ l.to = f.from
           THEN Front(s) \o <<Piece(l.of, l.from, f.to)>> \o Tail(t)
           ELSE s \o t
Cat(parts) ==
  LET to[i \in 0..Len(parts)] == IF i = 0 THEN << >> ELSE Join(to[i - 1], parts[i])
  IN  to[Len(parts)]

(* how many bytes one slice is *)
Extent(slice) == IF slice = << >> THEN 0 ELSE slice[1].to - slice[1].from
Size(bytes) ==
  LET to[i \in 0..Len(bytes)] == IF i = 0 THEN 0 ELSE to[i - 1] + bytes[i].to - bytes[i].from
  IN  to[Len(bytes)]

(* the first n bytes a function returns for its arguments *)
Made(function, arguments, n) == Mem(<<function, arguments>>, 0, n)
Sha256(bytes, n) == Made("sha256", <<bytes>>, n)

(* one byte with a value of its own, and the low half of another *)
Literal(v) == Mem(<<"byte", v>>, 0, 1)
LowNibble(line) == Mem(<<"low nibble of", line>>, 0, 1)
Line(i) == <<"line", i>>

-----------------------------------------------------------------------------
(* A line of output: a name and one value. *)
Field(name, value) == [name |-> name, value |-> value]
Hex(bytes)  == <<"hex", bytes>>
Dash        == Hex(<< >>)            \* an empty byte string prints the same
Decimal(n)  == <<"decimal", n>>
Word(w)     == <<"word", w>>
Equal(a, b) == <<"yes if equal", a, b>>
Verifies(key, signature, message) == <<"yes if signed", key, signature, message>>

Rejection(rule, numbers) == <<Field("invalid", Word(rule))>> \o numbers
Names(lines) == {lines[i].name : i \in 1..Len(lines)}
=============================================================================
