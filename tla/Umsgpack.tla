------------------------------ MODULE Umsgpack ------------------------------
(***************************************************************************)
(* The generator's own reading of a link plaintext: msgpack_read,           *)
(* msgpack_one, msgpack_elements and describe_resource of tools/gen, which  *)
(* write the expect file that cmd/dump must reproduce byte for byte.        *)
(*                                                                          *)
(* It is a second program for the same format.  Where cmd/dump walks a      *)
(* cursor, this one builds the value and looks names up in it, so the two   *)
(* can be compared.                                                         *)
(*                                                                          *)
(* A value is [kind, bytes, items, met]: the bytes of a number, a string or  *)
(* a binary, the elements of a list, the keys and values of a map in turn,  *)
(* and what was met while it was read, at any depth:                        *)
(*   cut    the body ran out                                                *)
(*   twice  a map named one key twice                                       *)
(*   type   a byte no type has, which raises                                *)
(*   key    a list or a map for a key, which Python cannot hash and raises  *)
(*   wide   a length in four bytes, or one of its own before one letter:    *)
(*          no packer writes either in a packet                             *)
(* A string is its bytes, which are taken to decode.                        *)
(***************************************************************************)
EXTENDS Integers, Sequences

Value(kind, bytes) == [kind |-> kind, bytes |-> bytes, items |-> << >>, met |-> {}]
Having(v, mark) == [v EXCEPT !.met = {mark}]
Nil     == Value("nil", << >>)
SHORT   == Having(Value("short", << >>), "cut")
FOREIGN == Value("foreign", << >>)
Raises  == Having(Value("raises", << >>), "type")
False   == Value("bool", <<0>>)
True    == Value("bool", <<1>>)
Absent  == Value("absent", << >>)

Met(items) == UNION {items[i].met : i \in 1..Len(items)}
Incomplete(v) == v.met \intersect {"cut", "twice"} # {}
Raising(v) == v.met \intersect {"type", "key"} # {}

At(v, at) == [v |-> v, at |-> at]

(* big-endian, without the zeros in front: what %d and %02x depend on; and  *)
(* a negative number without the ones in front, which is not how it prints  *)
Without(b, lead) ==
  LET kept == {i \in 1..Len(b) : b[i] # lead}
  IN  IF kept = {} THEN << >>
      ELSE SubSeq(b, CHOOSE i \in kept : \A j \in kept : i <= j, Len(b))
Significant(b) == IF Without(b, 0) = << >> THEN <<0>> ELSE Without(b, 0)

(* a length is in one byte, two or four *)
Number(b) ==
  CASE Len(b) = 1 -> b[1]
    [] Len(b) = 2 -> 256 * b[1] + b[2]
    [] OTHER      -> 256 * (256 * (256 * b[1] + b[2]) + b[3]) + b[4]

(* What a head byte says: a number by itself, a value by itself, a body of a *)
(* width it names, or a body whose length is in the bytes behind it.        *)
Small   == 0..\h7F \union \hE0..\hFF
Fixed   == \hC0..\hC3
Sized   == \hA0..\hBF \union \hCA..\hD8
Lengthy == \hC4..\hC9 \union \hD9..\hDB

Type(h) ==
  CASE h \in 0..\h7F \union \hCC..\hCE          -> "int"
    [] h = \hCF                                 -> "long"
    [] h \in \hD0..\hD3 \union \hE0..\hFF       -> "signed"
    [] h = \hCA                                 -> "single"
    [] h = \hCB                                 -> "float"
    [] h \in \hC4..\hC6                         -> "bytes"
    [] h \in \hA0..\hBF \union \hD9..\hDB       -> "str"
    [] OTHER                                    -> "ext"
IntWidth(h) == <<1, 2, 4, 8, 1, 2, 4, 8>>[h - \hCB]
ExtWidth(h) == 1 + <<1, 2, 4, 8, 16>>[h - \hD3]
Width(h) ==
  CASE h \in \hA0..\hBF -> h - \hA0
    [] h = \hCA         -> 4
    [] h = \hCB         -> 8
    [] h \in \hCC..\hD3 -> IntWidth(h)
    [] OTHER            -> ExtWidth(h)
LengthWidth(h) ==
  CASE h \in {\hC4, \hD9, \hC7} -> 1
    [] h \in {\hC5, \hDA, \hC8, \hDC, \hDE} -> 2
    [] h \in {\hC6, \hDB, \hC9, \hDD, \hDF} -> 4
    [] OTHER -> 0
TypeByte(h) == IF h \in \hC7..\hC9 THEN 1 ELSE 0

(* What n bytes are under a type.  An ext is FOREIGN.  An int is long when  *)
(* it has eight bytes or a sign of its own: to Python they are all one.     *)
Typed(kind, b) ==
  CASE kind = "ext"    -> FOREIGN
    [] kind \in {"int", "long"} -> Value(kind, Significant(b))
    [] kind = "signed" -> IF b[1] < 128 THEN Value("long", Significant(b))
                          ELSE Value("negative", Without(b, 255))
    [] OTHER           -> Value(kind, b)

(* d[at+1 .. at+n], and SHORT at the end of the body when it is not there *)
Body(d, at, n, kind) ==
  IF at + n > Len(d) THEN At(SHORT, Len(d))
  ELSE At(Typed(kind, SubSeq(d, at + 1, at + n)), at + n)

(* a length of w bytes, then a body of that length and x more *)
Prefixed(d, at, w, x, kind) ==
  IF at + w > Len(d) THEN At(SHORT, Len(d))
  ELSE LET n == Number(SubSeq(d, at + 1, at + w))
           r == Body(d, at + w, x + n, kind)
       IN  IF r.v # SHORT /\ (w = 4 \/ (kind = "str" /\ n = 1))
           THEN At(Having(r.v, "wide"), r.at) ELSE r

(* Python's equality of two keys: True is 1, and a float is read as bytes *)
Ints  == {"int", "long", "bool"}
Bytes == {"bytes", "float", "single"}
SameKey(a, b) ==
  /\ a.bytes = b.bytes
  /\ a.kind = b.kind \/ {a.kind, b.kind} \subseteq Ints \/ {a.kind, b.kind} \subseteq Bytes

(* the keys of a map stand in front of their values *)
KeyPlaces(items) == {i \in 1..Len(items) : i % 2 = 1}

(* one key is named twice among the pairs of a map *)
NamesOneKeyTwice(items) ==
  \E i, j \in KeyPlaces(items) : i < j /\ SameKey(items[i], items[j])

List(items, wide) ==
  [kind |-> "list", bytes |-> << >>, items |-> items, met |-> Met(items) \union wide]

(* A map that is nothing is SHORT; it keeps its items here only so that a   *)
(* property can say why it is nothing.                                      *)
MapOf(items, wide) ==
  LET met == Met(items) \union wide
             \union {mark \in {"twice"} : NamesOneKeyTwice(items)}
             \union {mark \in {"key"} :
                       \E i \in KeyPlaces(items) : items[i].kind \in {"list", "map"}}
  IN  [kind |-> IF met \intersect {"cut", "twice"} = {} THEN "map" ELSE "short",
       bytes |-> << >>, items |-> items, met |-> met]

-----------------------------------------------------------------------------
(* msgpack_read: one value, and where the next one begins *)

FixMaps    == \h80..\h8F
FixLists   == \h90..\h9F
Maps       == FixMaps \union {\hDE, \hDF}
Containers == FixLists \union Maps \union {\hDC, \hDD}

(* a value that holds no others, or a container whose count is cut off *)
Single(d, at) ==
  LET h == d[at + 1]
      a == at + 1
  IN  CASE h \in Small   -> Body(d, at, 1, Type(h))
        [] h \in Fixed   -> At(<<Nil, Raises, False, True>>[h - \hBF], a)
        [] h \in Sized   -> Body(d, a, Width(h), Type(h))
        [] h \in Lengthy -> Prefixed(d, a, LengthWidth(h), TypeByte(h), Type(h))
        [] OTHER         -> At(SHORT, Len(d))

(* how many elements a container holds; a map counts pairs *)
Held(d, at) ==
  LET h     == d[at + 1]
      a     == at + 1
      w     == LengthWidth(h)
      count == IF w = 0 THEN h % 16 ELSE Number(SubSeq(d, a + 1, a + w))
  IN  IF h \in Maps THEN 2 * count ELSE count

Filled(h, items) ==
  LET wide == {mark \in {"wide"} : LengthWidth(h) = 4}
  IN  IF h \in Maps THEN MapOf(items, wide) ELSE List(items, wide)

(* The value at a place, where from[b][n] is what n values from b on are.   *)
First(d, from, at) ==
  LET h == d[at + 1]
      a == at + 1 + LengthWidth(h)
      inner == from[a][Held(d, at)]
  IN  IF h \in Containers /\ a <= Len(d) THEN At(Filled(h, inner.v), inner.at)
      ELSE Single(d, at)

(* Past the end every further element is SHORT too, so one of them stands *)
(* for the rest: a count can announce more of them than a body has bytes. *)
Elements(d, from, at, n) ==
  IF n = 0 THEN At(<< >>, at)
  ELSE IF at = Len(d) THEN At(<<SHORT>>, at)
  ELSE LET one  == First(d, from, at)
           rest == from[one.at][n - 1]
       IN  At(<<one.v>> \o rest.v, rest.at)

Reading(d) ==
  LET from[at \in 0..Len(d)] == [n \in Nat |-> Elements(d, from, at, n)] IN from

(* the value a body begins with *)
Read(d) == Reading(d)[0][1].v[1]

(* msgpack_one: bytes after the value raise, and so does a type unread *)
One(d) ==
  IF Raising(Read(d)) \/ Reading(d)[0][1].at # Len(d) THEN Raises ELSE Read(d)

(* msgpack_elements: n of them, a nil for each the body does not hold *)
Listed(v, n) ==
  [i \in 1..n |->
     IF v.kind = "list" /\ i <= Len(v.items) /\ v.items[i].kind # "short"
     THEN v.items[i] ELSE Nil]
ElementsOf(d, n) == Listed(One(d), n)

-----------------------------------------------------------------------------
(* What expect says of it.  A number prints when Python calls the value an *)
(* int, which a bool is; everything else that is not bytes is a dash.      *)

Num(v)  == IF v.kind \in Ints THEN v.bytes
           ELSE IF v.kind = "negative" THEN <<-1>> \o v.bytes ELSE << >>
Blob(v) == IF v.kind \in Bytes THEN v.bytes ELSE << >>

(* adv.get(key), for a key that is a one-letter string *)
Lookup(adv, key) ==
  LET named == {i \in KeyPlaces(adv.items) :
                  SameKey(adv.items[i], Value("str", <<key>>))}
  IN  IF adv.kind # "map" \/ named = {} THEN Absent
      ELSE adv.items[1 + CHOOSE i \in named : TRUE]

DescribeAdvertisement(adv, order, numbers) ==
  [i \in 1..Len(order) |->
     LET v == Lookup(adv, order[i])
     IN  IF order[i] \in numbers THEN Num(v) ELSE Blob(v)]

Fields(out)         == [rule |-> "none", need |-> 0, out |-> out]
Invalid(rule, need) == [rule |-> rule, need |-> need, out |-> << >>]
AtLeast(d, need, out) ==
  IF Len(d) < need THEN Invalid("short-plaintext", need) ELSE Fields(out)

(* the slice d[from:to] of Python *)
Slice(d, from, to) == SubSeq(d, from + 1, to)

DescribeHashmapUpdate(d, hashlen) ==
  LET e == ElementsOf(Slice(d, hashlen, Len(d)), 2)
  IN  AtLeast(d, hashlen + 1, <<Slice(d, 0, hashlen), Num(e[1]), Blob(e[2])>>)

DescribePartRequest(d, hashlen, maphashlen) ==
  LET exhausted == d[1] = \hFF
      need == 1 + (IF exhausted THEN maphashlen ELSE 0) + hashlen
      last == IF exhausted THEN Slice(d, 1, 1 + maphashlen) ELSE << >>
      at   == 1 + Len(last)
  IN  IF Len(d) < 1 THEN Invalid("short-plaintext", 1)
      ELSE AtLeast(d, need, <<last, Slice(d, at, at + hashlen),
                              Slice(d, at + hashlen, Len(d))>>)

DescribeRequest(d) ==
  LET e == ElementsOf(d, 3) IN AtLeast(d, 1, [i \in 1..3 |-> Blob(e[i])])
DescribeResponse(d) ==
  LET e == ElementsOf(d, 2) IN AtLeast(d, 1, [i \in 1..2 |-> Blob(e[i])])

DescribeChannel(d, envelopelen) ==
  AtLeast(d, envelopelen,
          <<Slice(d, 0, 2), Slice(d, 2, 4), Slice(d, 4, 6),
            Slice(d, envelopelen, Len(d))>>)

DescribeIdentify(d, keysize, siglen) ==
  IF Len(d) # keysize + siglen
  THEN Invalid("identify-length", keysize + siglen)
  ELSE Fields(<<Slice(d, 0, keysize), Slice(d, keysize, Len(d))>>)
=============================================================================
