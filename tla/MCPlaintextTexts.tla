------------------------- MODULE MCPlaintextTexts --------------------------
(* What TLC gives the reader in each context.  As an advertisement: what a  *)
(* packer wrote, whole or cut after any byte, maps of up to three pairs     *)
(* over the names, foreign keys and every kind of value.                    *)
EXTENDS MCPlaintext

Pairs == {k \o v : k \in {Named(T), Named(H)}, v \in Values}
         \union {k \o v : k \in ForeignKeys,
                           v \in Values \ {Long, FourLen, Float4, String, ExtVal}}
FewPairs == {Named(T) \o Wide, Named(T) \o String, Named(H) \o OneBin,
             Named(H) \o Nil, Named(X) \o List, Named(X) \o Inner,
             <<\hA2, 101, 101>> \o Ext8, <<1>> \o Inner}

Maps == {Map(ps) : ps \in {<< >>} \union [1..1 -> Pairs] \union [1..2 -> Pairs]
                             \union [1..3 -> FewPairs]}

-----------------------------------------------------------------------------
(* In every other context: arrays a packer wrote, whole or cut, and short   *)
(* arbitrary plaintexts.                                                    *)
RawArrayBytes == {1, \h92, \hC0, \hC4, \hFF}
Float8 == <<\hCB, 64, 9, 33, 251, 84, 68, 45, 24>>
Elements3 == {Float8 \o p \o d : p \in {Nil, OneBin, Empty}, d \in {Nil, OneBin}}
Elements2 == {f \o s : f \in {Five, Wide, OneBin, Nil}, s \in {OneBin, Empty, Nil}}
Arrays == {<<\h93>> \o e : e \in Elements3} \union {<<\h92>> \o e : e \in Elements2}
NestedArrays == {<<\h92>> \o e : e \in {List \o OneBin, Five \o List, Inner \o Nil,
                                         Five \o Inner, Five \o FourLen}}
BodyTexts == UNION {Cuts(a) \union Cuts(<<9, 8>> \o a) : a \in Arrays \union NestedArrays}
             \union SeqOf(RawArrayBytes, MaxLen - 1)

(* an operator of the context, so that TLC makes the sets as it needs them; *)
(* with the maps, whatever a few bytes make                                 *)
TextsOf(ctx) == IF ctx = "resource_adv" THEN UNION {Cuts(map) : map \in Maps} \union RawTexts
                ELSE BodyTexts
=============================================================================
