------------------------------ MODULE Readers ------------------------------
(***************************************************************************)
(* The two readers of a link plaintext side by side: what cmd/dump printed  *)
(* when it is done, and what tools/gen makes of the same bytes.             *)
(***************************************************************************)
EXTENDS Plaintext

U == INSTANCE Umsgpack

(* what the generator reads, bytes after the value ignored *)
Read == U!Read(text)

NamedKeys == {U!Value("str", <<k>>) : k \in Keys}

(* a map names a key twice that is not one of the names cmd/dump knows, or *)
(* a value of the map has a map in it that names any key twice             *)
ForeignNamedTwice(v) ==
  \/ \E i \in 1..Len(v.items) : "twice" \in v.items[i].met
  \/ \E i, j \in U!KeyPlaces(v.items) :
       i < j /\ U!SameKey(v.items[i], v.items[j]) /\ v.items[i] \notin NamedKeys

(* No packer writes these into a packet: a length in four bytes over a body *)
(* that is there, and a length of its own in front of one letter.           *)
AsPacked(v) == "wide" \in v.met => "cut" \in v.met

(* A name's value is of no type that only the generator prints: a number    *)
(* signed or in eight bytes and a bool, and for a binary a float.           *)
TypedAsNamed(v) ==
  \A k \in Keys :
    U!Lookup(v, k).kind \notin IF k \in Numbers THEN {"long", "negative", "bool"}
                                               ELSE {"float", "single"}

(* The two programs that read an advertisement agree on every field: what   *)
(* cmd/dump prints from the cursors its walk left behind is what tools/gen  *)
(* finds by building the dictionary and looking eleven names up in it.  A   *)
(* map that is cut anywhere, at any depth, or that names one of the eleven  *)
(* twice, is nothing in both; order, foreign keys and types do not matter.  *)
(* Left out: bytes no type has, foreign keys named twice, and what no       *)
(* packer writes or writes there.                                           *)
AdvertisementAgrees ==
  (/\ pc = "done" /\ context = "resource_adv"
   /\ ~U!Raising(Read) /\ ~ForeignNamedTwice(Read)
   /\ AsPacked(Read) /\ TypedAsNamed(Read))
  => out = U!DescribeAdvertisement(Read, Order, Numbers)

-----------------------------------------------------------------------------
(* The contexts that are not an advertisement *)

(* what each element of the context's array must be *)
Shape == [request |-> <<{"float"}, {"bytes", "nil"}, {"bytes", "nil"}>>,
          response |-> <<{"bytes", "nil"}, {"bytes", "nil"}>>,
          resource_hmu |-> <<{"int"}, {"bytes", "nil"}>>]
Body == IF context = "resource_hmu" THEN SubSeq(text, HASHLEN + 1, Len(text)) ELSE text

(* The body is one value with nothing behind it, and where it is an array  *)
(* it announces the elements the context has, each of the type it has.     *)
ShapedAs(d, shape) ==
  LET v == U!One(d)
  IN  /\ ~U!Raising(v)
      /\ v.kind = "list" =>
           /\ d[1] = \h90 + Len(shape)
           /\ \A i \in 1..Len(v.items) :
                \/ "cut" \in v.items[i].met
                \/ v.items[i].kind \in shape[i] /\ "wide" \notin v.items[i].met

Generated ==
  CASE context = "resource_hmu" -> U!DescribeHashmapUpdate(text, HASHLEN)
    [] context = "resource_req" -> U!DescribePartRequest(text, HASHLEN, MAPHASHLEN)
    [] context \in {"resource_icl", "resource_rcl"} -> U!Fields(<<text>>)
    [] context = "request"      -> U!DescribeRequest(text)
    [] context = "response"     -> U!DescribeResponse(text)
    [] context = "channel"      -> U!DescribeChannel(text, ENVELOPELEN)
    [] context = "link_identify" -> U!DescribeIdentify(text, KEYSIZE, SIGLEN)

Printed == [rule |-> verdict.rule, need |-> verdict.need, out |-> out]

(* The two programs agree on every other context: the same rejection with   *)
(* the same number, or the same fields.  An array body that is cut keeps    *)
(* the elements before the cut and dashes the rest, a body that is no       *)
(* array is all dashes, and nothing is rejected that is long enough.  Left  *)
(* out: a cancel without bytes, which the generator refuses to write.       *)
BodyAgrees ==
  (/\ pc = "done" /\ context # "resource_adv"
   /\ context \in {"resource_icl", "resource_rcl"} => text # << >>
   /\ context \in DOMAIN Shape => Body = << >> \/ ShapedAs(Body, Shape[context]))
  => Printed = Generated
=============================================================================
