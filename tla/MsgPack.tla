------------------------------ MODULE MsgPack ------------------------------
(***************************************************************************)
(* The msgpack cursor of cmd/dump.c: struct mp and the mp_* readers.        *)
(*                                                                          *)
(* A cursor is how far the reader is (p), how many bytes it may still read  *)
(* (left) and whether it was refused (bad).  The C functions move the       *)
(* cursor and return a value; here a reader of a value is an operator that  *)
(* returns both, [cur |-> the cursor after, val |-> what was read].  The    *)
(* bytes themselves are the sequence t.                                     *)
(*                                                                          *)
(* What a field prints is the bytes it would print in hex, and a number is  *)
(* its big-endian bytes without leading zeros.  A field that has nothing    *)
(* prints "-" (field_hex), which is Dash.                                   *)
(***************************************************************************)
EXTENDS Naturals, Sequences

Byte == 0..255
Dash == << >>

Cursor == [p : Nat, left : Nat, bad : BOOLEAN]

CursorOver(from, len) == [p |-> from, left |-> len - from, bad |-> FALSE]
NoValue == [p |-> 0, left |-> 0, bad |-> TRUE]

Bad(m) == [p |-> m.p, left |-> m.left, bad |-> TRUE]
Moved(m, n) == [p |-> m.p + n, left |-> m.left - n, bad |-> FALSE]
Refused(m, n) == m.bad \/ m.left < n

(* mistakes the properties must notice: the comparison or the flag forgotten *)
TakeUnbounded(m, n) ==
  IF m.bad THEN m ELSE Moved(m, n)
TakeForgetful(m, n) ==
  IF m.left < n THEN Bad(m) ELSE Moved(m, n)

(* mp_take: the cursor after n more bytes, or refused and where it was *)
Take(m, n) ==
  IF Refused(m, n) THEN Bad(m) ELSE Moved(m, n)

(* what mp_take points at, and nothing when it returns NULL *)
Taken(t, m, n) ==
  IF Refused(m, n) THEN << >> ELSE SubSeq(t, m.p + 1, m.p + n)

(* mp_head returns a head byte no type has when there is none to read; the *)
(* cursor it leaves is Take(m, 1)                                          *)
Head1(t, m) == IF Refused(m, 1) THEN \hC1 ELSE t[m.p + 1]

(* mp_be over the one or two bytes a length is written in *)
Length(t, m, w) ==
  IF Refused(m, w) THEN 0
  ELSE IF w = 1 THEN t[m.p + 1] ELSE 256 * t[m.p + 1] + t[m.p + 2]

(* a body behind its own length; x is the type byte an ext adds to it *)
Counted(t, m, w, x) == Take(Take(m, w), x + Length(t, m, w))

-----------------------------------------------------------------------------
(* mp_skip_head: the head bytes it has a rule for, by what follows them *)

Bare     == 0..\h7F \union \hE0..\hFF \union {\hC0, \hC2, \hC3}
FixMap   == \h80..\h8F
FixArray == \h90..\h9F
FixStr   == \hA0..\hBF
FixExt   == \hD4..\hD8
OneByte  == {\hCC, \hD0}
TwoByte  == {\hCD, \hD1}
FourByte == {\hCE, \hD2, \hCA}
EightByte == {\hCF, \hD3, \hCB}
Length1  == {\hC4, \hD9, \hC7}
Length2  == {\hC5, \hDA, \hC8}
Ext      == {\hC7, \hC8}
Array16  == \hDC
Map16    == \hDE

Sized == FixStr \union FixExt \union OneByte \union TwoByte \union FourByte
         \union EightByte

(* how wide the body is when the head byte alone says so *)
BodyWidth(h) ==
  CASE h \in FixStr    -> h - \hA0
    [] h \in FixExt    -> 1 + <<1, 2, 4, 8, 16>>[h - \hD3]
    [] h \in OneByte   -> 1
    [] h \in TwoByte   -> 2
    [] h \in FourByte  -> 4
    [] h \in EightByte -> 8

TypeByte(h) == IF h \in Ext THEN 1 ELSE 0

(* the cursor behind what the head byte h owns: its body, or its count *)
Stepped(t, m, h) ==
  CASE h \in Bare \union FixArray \union FixMap -> m
    [] h \in Sized              -> Take(m, BodyWidth(h))
    [] h \in Length1            -> Counted(t, m, 1, TypeByte(h))
    [] h \in Length2            -> Counted(t, m, 2, TypeByte(h))
    [] h \in {Array16, Map16}   -> Take(m, 2)
    [] OTHER                    -> Bad(m)

PairsAsElements(t, m, h) ==   \* a map's pairs counted as one value each
  CASE h \in FixArray -> h - \h90
    [] h \in FixMap   -> h - \h80
    [] h \in {Array16, Map16} -> Length(t, m, 2)
    [] OTHER          -> 0

(* how many values mp_skip_head steps over after it *)
Elements(t, m, h) ==
  CASE h \in FixArray -> h - \h90
    [] h \in FixMap   -> 2 * (h - \h80)
    [] h = Array16    -> Length(t, m, 2)
    [] h = Map16      -> 2 * Length(t, m, 2)
    [] OTHER          -> 0

-----------------------------------------------------------------------------
(* mp_map and mp_array: how many pairs or elements are announced *)

MapHead(t, m) ==
  LET h == Head1(t, m)
      c == Take(m, 1)
  IN  CASE h \in FixMap -> [cur |-> c, n |-> h - \h80]
        [] h = Map16    -> [cur |-> Take(c, 2), n |-> Length(t, c, 2)]
        [] OTHER        -> [cur |-> Bad(c), n |-> 0]

(* mp_array, and the caller's rule that the array holds exactly n *)
ArrayOf(t, m, n) ==
  IF Head1(t, m) = \h90 + n THEN Take(m, 1) ELSE Bad(Take(m, 1))

(* a number is printed without the zeros in front of it *)
Digits(b) ==
  LET significant == {i \in 1..Len(b) : b[i] # 0} \union {Len(b)}
      first == CHOOSE i \in significant : \A j \in significant : i <= j
  IN  SubSeq(b, first, Len(b))

Uint(t, m) ==
  LET h == Head1(t, m)
      c == Take(m, 1)
      wide(w) == [cur |-> Take(c, w),
                  val |-> IF Refused(c, w) THEN Dash
                          ELSE Digits(Taken(t, c, w))]
  IN  CASE h < \h80 -> [cur |-> c, val |-> <<h>>]
        [] h = \hCC -> wide(1)
        [] h = \hCD -> wide(2)
        [] h = \hCE -> wide(4)
        [] OTHER    -> [cur |-> Bad(c), val |-> Dash]

BinRefusesNil(t, m) ==   \* a nil taken for a type the field does not hold
  LET h == Head1(t, m)
      c == Take(m, 1)
      w == h - \hC3
  IN  IF h \in {\hC4, \hC5}
      THEN [cur |-> Counted(t, c, w, 0),
            val |-> Taken(t, Take(c, w), Length(t, c, w))]
      ELSE [cur |-> Bad(c), val |-> Dash]

(* mp_bin reads a nil as no bytes, which is a value and not a refusal *)
Bin(t, m) ==
  LET h == Head1(t, m)
      c == Take(m, 1)
      behind(w) == [cur |-> Counted(t, c, w, 0),
                    val |-> Taken(t, Take(c, w), Length(t, c, w))]
  IN  CASE h = \hC0 -> [cur |-> c, val |-> Dash]
        [] h = \hC4 -> behind(1)
        [] h = \hC5 -> behind(2)
        [] OTHER    -> [cur |-> Bad(c), val |-> Dash]

Double(t, m) ==
  LET c == IF Head1(t, m) = \hCB THEN Take(m, 1) ELSE Bad(Take(m, 1))
  IN  [cur |-> Take(c, 8), val |-> Taken(t, c, 8)]
=============================================================================
