---------------------------- MODULE MCPlaintext ----------------------------
(***************************************************************************)
(* The readers for TLC: the plaintexts they are given.                      *)
(***************************************************************************)
EXTENDS Readers, SequencesExt, FiniteSetsExt

-----------------------------------------------------------------------------
(* Every sequence of a few bytes that open maps, keys, counted bodies,      *)
(* fixed bodies and containers: most of them end inside a value.            *)

T == 116   \* the key "t", a number
H == 104   \* the key "h", a binary
X == 120   \* a key the format has no field for

CONSTANT MaxLen

(* one more set of bytes for the heads that write a count in two bytes,     *)
(* where it may promise 65535 elements over no bytes                        *)
RawTexts ==
  LET mapBytes  == {1, \h82, \h92, \hA1, \hC4, T}
      wideBytes == {0, 1, \h81, \hA1, \hDE, \hDC, T}
  IN  SeqOf(mapBytes, MaxLen) \union SeqOf(wideBytes, MaxLen - 1)

SmallOrder == <<T, H>>
RealOrder  == <<T, 100, 110, H, 114, 111, 105, 108, 113, 102, 109>>
RealNumbers == {T, 100, 110, 105, 108, 102}
SmallNumbers == {T}

-----------------------------------------------------------------------------
(* What a packer writes *)

(* the plaintext up to any of its bytes *)
Cuts(t) == {SubSeq(t, 1, n) : n \in 0..Len(t)}

Named(k) == <<\hA1, k>>
ForeignKeys == {Named(X), <<\hA2, 101, 101>>, <<1>>, <<\hC4, 1, T>>, <<\hC3>>,
                <<\hD9, 1, T>>}

Nil    == <<\hC0>>
Five   == <<5>>
Wide   == <<\hCD, 1, 44>>
Empty  == <<\hC4, 0>>
OneBin == <<\hC4, 1, 7>>
String == <<\hA2, T, T>>
ExtVal == <<\hD4, 1, 9>>
Ext8   == <<\hC7, 2, 1, \hA1, T>>
Float4 == <<\hCA, 0, 0, 0, 1>>
Minus  == <<\hE0>>
True   == <<\hC3>>
List   == <<\h92, 5, \hC0>>
Inner  == <<\h81, \hA1, T, 5>>
Long   == <<\hCF, 0, 0, 0, 0, 0, 0, 1, 44>>
FourLen == <<\hC6, 0, 0, 0, 1, 7>>

Values == {Nil, Five, Wide, Empty, OneBin, String, ExtVal, Ext8, Float4,
           Minus, True, List, Inner, Long, FourLen}

Map(ps) == <<\h80 + Len(ps)>> \o FlattenSeq(ps)

AllContexts == {"resource_adv", "resource_req", "resource_hmu", "resource_icl",
                "resource_rcl", "request", "response", "channel", "link_identify"}
=============================================================================
