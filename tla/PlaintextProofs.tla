-------------------------- MODULE PlaintextProofs --------------------------
(***************************************************************************)
(* What TLC checks of Plaintext on short plaintexts, proved for plaintexts  *)
(* of any bytes and any length.                                             *)
(*                                                                          *)
(* The argument is about one cursor.  A cursor is inside a plaintext when   *)
(* what it has read and what it may still read are the plaintext; every     *)
(* reader of MsgPack takes a cursor inside to a cursor inside, never back,  *)
(* and a refused one to itself.                                             *)
(*                                                                          *)
(* Behind that, the agreement of the two readers.  The generator's reading  *)
(* of any bytes is taken apart value by value, one step of the walk is one  *)
(* value read, and the invariant keeps the cursor, the open containers and  *)
(* the remembered values where that reading has them.                       *)
(***************************************************************************)
EXTENDS Readers, SequenceTheorems, WellFoundedInduction, TLAPS

Inside(c, t) == c \in Cursor /\ c.p \in 0..Len(t) /\ c.left = Len(t) - c.p

(* c is where a reader may have left the cursor b *)
Onward(b, c, t) == /\ Inside(c, t)
                   /\ b.p <= c.p
                   /\ (b.bad => c = b)

-----------------------------------------------------------------------------
LEMMA BadOnward ==
  ASSUME NEW t \in Seq(Byte), NEW c, Inside(c, t)
  PROVE  Onward(c, Bad(c), t)
<1>1. Inside(Bad(c), t) /\ c.p <= Bad(c).p  BY DEF Inside, Bad, Cursor
<1>2. ASSUME c.bad PROVE Bad(c) = c
  <2>1. c = [p |-> c.p, left |-> c.left, bad |-> c.bad]  BY DEF Inside, Cursor
  <2>2. c.bad = TRUE  BY <1>2 DEF Inside, Cursor
  <2> QED BY <2>1, <2>2, Zenon DEF Bad
<1> QED BY <1>1, <1>2 DEF Onward

LEMMA TakeOnward ==
  ASSUME NEW t \in Seq(Byte), NEW c, Inside(c, t), NEW n \in Nat
  PROVE  /\ Onward(c, Take(c, n), t)
         /\ ~Take(c, n).bad => ~c.bad /\ Take(c, n).p = c.p + n
<1>1. CASE Refused(c, n)
  BY <1>1, BadOnward DEF Take, Bad
<1>2. CASE ~Refused(c, n)
  <2>1. Take(c, n) = [p |-> c.p + n, left |-> c.left - n, bad |-> FALSE]
    BY <1>2 DEF Take, Moved
  <2>2. ~c.bad /\ n <= c.left  BY <1>2 DEF Refused, Inside, Cursor
  <2>3. Inside(Take(c, n), t)  BY <2>1, <2>2 DEF Inside, Cursor
  <2> QED BY <2>1, <2>2, <2>3 DEF Onward, Inside, Cursor
<1> QED BY <1>1, <1>2

LEMMA OnwardTrans ==
  ASSUME NEW t \in Seq(Byte), NEW a, NEW b, NEW c, Inside(a, t), Onward(a, b, t),
         Onward(b, c, t)
  PROVE  Onward(a, c, t)
BY DEF Inside, Onward, Cursor

LEMMA ByteNat == \A b \in Byte : b \in Nat
BY DEF Byte

(* a length is a number, behind a refusal too *)
LEMMA LengthNat ==
  ASSUME NEW t \in Seq(Byte), NEW c, Inside(c, t), NEW w \in {1, 2}
  PROVE  Length(t, c, w) \in Nat
<1>1. CASE Refused(c, w)  BY <1>1 DEF Length
<1>2. CASE ~Refused(c, w)
  <2>1. c.p + 1 \in 1..Len(t) /\ (w = 2 => c.p + 2 \in 1..Len(t))
    BY <1>2 DEF Inside, Refused, Cursor
  <2>2. t[c.p + 1] \in Byte /\ (w = 2 => t[c.p + 2] \in Byte)
    BY <2>1
  <2>3. CASE w = 1
    <3>1. Length(t, c, w) = t[c.p + 1]  BY <1>2, <2>3 DEF Length
    <3> QED BY <2>2, <3>1, ByteNat
  <2>4. CASE w = 2
    <3>1. Length(t, c, w) = 256 * t[c.p + 1] + t[c.p + 2]  BY <1>2, <2>4 DEF Length
    <3>2. t[c.p + 1] \in Nat /\ t[c.p + 2] \in Nat  BY <2>2, <2>4, ByteNat
    <3> QED BY <3>1, <3>2
  <2> QED BY <2>3, <2>4
<1> QED BY <1>1, <1>2

LEMMA HeadByte ==
  ASSUME NEW t \in Seq(Byte), NEW c, Inside(c, t)
  PROVE  /\ Head1(t, c) \in Byte
         /\ Take(c, 1).bad => Head1(t, c) = \hC1
         /\ ~Take(c, 1).bad => Head1(t, c) = t[Take(c, 1).p] /\ Take(c, 1).p = c.p + 1
<1>1. CASE Refused(c, 1)  BY <1>1 DEF Head1, Byte, Take, Bad, Inside, Cursor
<1>2. CASE ~Refused(c, 1)
  <2>1. c.p + 1 \in 1..Len(t)  BY <1>2 DEF Inside, Refused, Cursor
  <2>2. Take(c, 1).p = c.p + 1 /\ ~Take(c, 1).bad
    BY <1>2 DEF Take, Moved
  <2>3. t[c.p + 1] \in Byte  BY <2>1
  <2> QED BY <1>2, <2>2, <2>3 DEF Head1
<1> QED BY <1>1, <1>2

LEMMA CountedOnward ==
  ASSUME NEW t \in Seq(Byte), NEW c, Inside(c, t), NEW w \in {1, 2}, NEW x \in Nat
  PROVE  Onward(c, Counted(t, c, w, x), t)
<1>1. Onward(c, Take(c, w), t)  BY TakeOnward
<1>2. Inside(Take(c, w), t)  BY <1>1 DEF Onward
<1>3. x + Length(t, c, w) \in Nat  BY LengthNat
<1>4. Onward(Take(c, w), Counted(t, c, w, x), t)
  BY <1>2, <1>3, TakeOnward DEF Counted
<1> QED BY <1>1, <1>4, OnwardTrans

(* the classes of head bytes do not overlap *)
LEMMA ClassesDisjoint ==
  ASSUME NEW h \in Nat
  PROVE  /\ h \in Bare \union FixArray \union FixMap =>
              h \notin Sized \union Length1 \union Length2 \union {Array16, Map16}
         /\ h \in Sized => h \notin Length1 \union Length2 \union {Array16, Map16}
         /\ h \in Length1 => h \notin Length2 \union {Array16, Map16}
         /\ h \in Length2 => h \notin {Array16, Map16}
         /\ h \in FixStr => h \notin FixExt \union OneByte \union TwoByte
                                  \union FourByte \union EightByte
         /\ h \in FixExt => h \notin OneByte \union TwoByte \union FourByte \union EightByte
         /\ h \in OneByte => h \notin TwoByte \union FourByte \union EightByte
         /\ h \in TwoByte => h \notin FourByte \union EightByte
         /\ h \in FourByte => h \notin EightByte
BY DEF Bare, FixArray, FixMap, Sized, FixStr, FixExt, OneByte, TwoByte, FourByte,
   EightByte, Length1, Length2, Array16, Map16

LEMMA BodyWidthNat ==
  ASSUME NEW h \in Nat, h \in Sized
  PROVE  BodyWidth(h) \in Nat
<1>1. CASE h \in FixStr
  <2>1. BodyWidth(h) = h - \hA0  BY <1>1, ClassesDisjoint DEF BodyWidth
  <2> QED BY <1>1, <2>1 DEF FixStr
<1>2. CASE h \in FixExt
  <2>1. h - \hD3 \in 1..5  BY <1>2 DEF FixExt
  <2>2. <<1, 2, 4, 8, 16>>[h - \hD3] \in Nat  BY <2>1
  <2>3. BodyWidth(h) = 1 + <<1, 2, 4, 8, 16>>[h - \hD3]
    BY <1>2, ClassesDisjoint DEF BodyWidth
  <2> QED BY <2>2, <2>3
<1>3. CASE h \in OneByte \union TwoByte \union FourByte \union EightByte
  BY <1>3, ClassesDisjoint DEF BodyWidth
<1> QED BY <1>1, <1>2, <1>3 DEF Sized

(* mp_skip_head leaves the cursor inside *)
LEMMA SteppedOnward ==
  ASSUME NEW t \in Seq(Byte), NEW c, Inside(c, t), NEW h \in Byte
  PROVE  Onward(c, Stepped(t, c, h), t)
<1> h \in Nat  BY DEF Byte
<1>1. CASE h \in Bare \union FixArray \union FixMap
  <2>1. Stepped(t, c, h) = c  BY <1>1, ClassesDisjoint DEF Stepped
  <2> QED BY <2>1 DEF Onward, Inside, Cursor
<1>2. CASE h \in Sized
  <2>1. Stepped(t, c, h) = Take(c, BodyWidth(h))
    BY <1>2, ClassesDisjoint DEF Stepped
  <2> QED BY <1>2, <2>1, BodyWidthNat, TakeOnward
<1>3. CASE h \in Length1 \union Length2
  <2>1. TypeByte(h) \in Nat  BY DEF TypeByte
  <2>2. \E w \in {1, 2} : Stepped(t, c, h) = Counted(t, c, w, TypeByte(h))
    BY <1>3, ClassesDisjoint DEF Stepped
  <2> QED BY <2>1, <2>2, CountedOnward
<1>4. CASE h \in {Array16, Map16}
  <2>1. Stepped(t, c, h) = Take(c, 2)  BY <1>4, ClassesDisjoint DEF Stepped
  <2> QED BY <2>1, TakeOnward
<1>5. CASE h \notin Bare \union FixArray \union FixMap \union Sized \union Length1
                    \union Length2 \union {Array16, Map16}
  <2>1. Stepped(t, c, h) = Bad(c)  BY <1>5 DEF Stepped
  <2> QED BY <2>1, BadOnward
<1> QED BY <1>1, <1>2, <1>3, <1>4, <1>5

(* the number of values it announces, none without a head byte to say so *)
LEMMA ElementsNat ==
  ASSUME NEW t \in Seq(Byte), NEW c, Inside(c, t), NEW h \in Byte
  PROVE  /\ Elements(t, c, h) \in Nat
         /\ h = \hC1 => Elements(t, c, h) = 0
<1> h \in Nat  BY DEF Byte
<1>1. Length(t, c, 2) \in Nat  BY LengthNat
<1>2. CASE h \in FixArray
  <2>1. h \notin FixMap /\ h # Array16 /\ h # Map16
    BY <1>2 DEF FixArray, FixMap, Array16, Map16
  <2>2. Elements(t, c, h) = h - \h90  BY <1>2, <2>1 DEF Elements
  <2> QED BY <1>2, <2>2 DEF FixArray
<1>3. CASE h \in FixMap
  <2>1. Elements(t, c, h) = 2 * (h - \h80)
    BY <1>3, SMTT(30) DEF Elements, FixArray, FixMap, Array16, Map16
  <2> QED BY <1>3, <2>1 DEF FixMap
<1>4. CASE h = Array16
  <2>1. Elements(t, c, h) = Length(t, c, 2)
    BY <1>4 DEF Elements, FixArray, FixMap, Array16, Map16
  <2> QED BY <1>1, <1>4, <2>1 DEF Array16
<1>5. CASE h = Map16
  <2>1. Elements(t, c, h) = 2 * Length(t, c, 2)
    BY <1>5 DEF Elements, FixArray, FixMap, Array16, Map16
  <2> QED BY <1>1, <1>5, <2>1 DEF Map16
<1>6. CASE h \notin FixArray \union FixMap \union {Array16, Map16}
  BY <1>6 DEF Elements
<1> QED BY <1>2, <1>3, <1>4, <1>5, <1>6

LEMMA MapHeadOnward ==
  ASSUME NEW t \in Seq(Byte), NEW c, Inside(c, t)
  PROVE  Onward(c, MapHead(t, c).cur, t) /\ MapHead(t, c).n \in Nat
<1> DEFINE h == Head1(t, c)
           d == Take(c, 1)
<1>1. Onward(c, d, t) /\ Inside(d, t)  BY TakeOnward DEF Onward
<1>2. h \in Byte  BY HeadByte
<1>3. Onward(d, Take(d, 2), t) /\ Onward(d, Bad(d), t)  BY <1>1, TakeOnward, BadOnward
<1>4. Length(t, d, 2) \in Nat  BY <1>1, LengthNat
<1>5. Onward(c, Take(d, 2), t) /\ Onward(c, Bad(d), t)
  BY <1>1, <1>3, OnwardTrans
<1>6. CASE h \in FixMap
  <2>1. MapHead(t, c) = [cur |-> d, n |-> h - \h80]
    BY <1>6 DEF MapHead, FixMap, Map16
  <2> QED BY <1>1, <1>6, <2>1 DEF FixMap
<1>7. CASE h = Map16
  <2>1. MapHead(t, c) = [cur |-> Take(d, 2), n |-> Length(t, d, 2)]
    BY <1>7 DEF MapHead, FixMap, Map16
  <2> QED BY <1>4, <1>5, <2>1
<1>8. CASE h \notin FixMap /\ h # Map16
  <2>1. MapHead(t, c) = [cur |-> Bad(d), n |-> 0]
    BY <1>8 DEF MapHead
  <2> QED BY <1>5, <2>1
<1> QED BY <1>6, <1>7, <1>8
-----------------------------------------------------------------------------
(* The walk.  Beside the cursors, the invariant says where the reader can   *)
(* be with a container open (only while it steps over a value), and that    *)
(* every container open has a byte of its own behind the cursor.            *)

Remembered(k) == /\ Inside(value[k], text)
                 /\ value[k].p \in 2..m.p
                 /\ text[value[k].p - 1] = \hA1 /\ text[value[k].p] = k

WalkInv ==
  /\ TypeOK
  /\ Inside(m, text)
  /\ Len(stack) <= m.p
  /\ pc \in {"start", "pair", "value", "done"} => stack = << >>
  /\ pc = "start" => ~m.bad
  /\ \A k \in Keys : ~value[k].bad => Remembered(k)

USE DEF walk, vars

(* a step that moves the cursor onward keeps what was remembered *)
LEMMA KeepsRemembered ==
  ASSUME WalkInv, m' \in Cursor, m.p <= m'.p, value' = value, text' = text
  PROVE  (\A k \in Keys : ~value[k].bad => Remembered(k))'
<1> SUFFICES ASSUME NEW k \in Keys, ~value[k].bad PROVE Remembered(k)'
  OBVIOUS
<1>1. Remembered(k)  BY DEF WalkInv
<1>2. m.p \in Nat /\ m'.p \in Nat  BY DEF WalkInv, TypeOK, Cursor
<1> QED BY <1>1, <1>2 DEF Remembered

(* stepping over a value, from a cursor c whose head byte is h: the cursor  *)
(* is inside and onward, and a container that is entered moved it by one    *)
LEMMA StepOverStep ==
  ASSUME WalkInv
  PROVE  LET h == Head1(text, m)
             c == Take(m, 1)
         IN  /\ Onward(m, Stepped(text, c, h), text)
             /\ Elements(text, c, h) \in Nat
             /\ Elements(text, c, h) > 0 => m.p + 1 <= Stepped(text, c, h).p
<1> DEFINE h == Head1(text, m)
           c == Take(m, 1)
<1>1. text \in Seq(Byte) /\ Inside(m, text)  BY DEF WalkInv, TypeOK
<1>2. Onward(m, c, text) /\ (~c.bad => c.p = m.p + 1)  BY <1>1, TakeOnward
<1>3. h \in Byte /\ (c.bad => h = \hC1)  BY <1>1, HeadByte
<1>4. Inside(c, text)  BY <1>2 DEF Onward
<1>5. Onward(c, Stepped(text, c, h), text)  BY <1>1, <1>3, <1>4, SteppedOnward
<1>6. Elements(text, c, h) \in Nat /\ (c.bad => Elements(text, c, h) = 0)
  BY <1>1, <1>3, <1>4, ElementsNat
<1>7. Onward(m, Stepped(text, c, h), text)  BY <1>1, <1>2, <1>5, OnwardTrans
<1>8. Elements(text, c, h) > 0 => m.p + 1 <= Stepped(text, c, h).p
  BY <1>2, <1>5, <1>6 DEF Onward
<1> HIDE DEF h, c
<1>9. QED BY <1>6, <1>7, <1>8 DEF h, c

(* The invariant holds when dump_linkdata has the plaintext open.           *)
THEOREM WalkInitially == Init => WalkInv
<1> SUFFICES ASSUME Init PROVE WalkInv
  OBVIOUS
<1>1. text \in Seq(Byte)
  <2>1. context \in Contexts /\ text \in Texts(context)  BY DEF Init
  <2>2. Texts(context) \subseteq Seq(Byte)  BY <2>1, TextsAssumption
  <2>3. QED BY <2>1, <2>2
<1>2. m = [p |-> 0, left |-> Len(text), bad |-> FALSE]
  BY <1>1 DEF Init, CursorOver
<1>3. Inside(m, text) /\ m \in Cursor /\ ~m.bad  BY <1>1, <1>2 DEF Inside, Cursor
<1>4. value \in [Keys -> Cursor] /\ \A k \in Keys : value[k].bad
  BY DEF Init, NoValue, Cursor
<1>5. twice \in BOOLEAN  BY DEF Init
<1>6. pairs \in Nat /\ stack \in Seq(Nat) /\ stack = << >> /\ pc = "start"
  BY DEF Init
<1>7. TypeOK  BY <1>1, <1>3, <1>4, <1>5, <1>6, Zenon DEF TypeOK
<1> QED BY <1>2, <1>3, <1>4, <1>6, <1>7 DEF WalkInv

(* Opening the map: nothing is remembered that was not. *)
LEMMA OpenMapKeeps == WalkInv /\ OpenMap => WalkInv'
<1> SUFFICES ASSUME WalkInv, OpenMap PROVE WalkInv'
  OBVIOUS
<1> text \in Seq(Byte) /\ Inside(m, text) /\ stack = << >> /\ stack' = << >>
  BY DEF WalkInv, TypeOK, OpenMap
<1>1. Onward(m, m', text) /\ pairs' \in Nat
  BY MapHeadOnward DEF OpenMap
<1>2. m' \in Cursor /\ m.p <= m'.p /\ Inside(m', text')
  BY <1>1 DEF OpenMap, Onward, Inside
<1>3. (\A k \in Keys : ~value[k].bad => Remembered(k))'
  BY <1>2, KeepsRemembered DEF OpenMap
<1>4. TypeOK'
  BY <1>1, <1>2 DEF WalkInv, TypeOK, OpenMap
<1>5. Len(stack') <= m'.p /\ pc' = "pair"  BY <1>2 DEF OpenMap, Inside
<1> QED BY <1>2, <1>3, <1>4, <1>5 DEF WalkInv

(* A value stepped over from outside any container: at most one is entered. *)
LEMMA StepOverKeeps ==
  ASSUME WalkInv, stack = << >>, NEW next \in {"skipkey", "skipvalue"},
         StepOver(Take(m, 1), Head1(text, m), next),
         UNCHANGED <<text, context, value, twice, out, verdict>>,
         pairs' \in Nat
  PROVE  WalkInv'
<1> DEFINE h == Head1(text, m)
           c == Take(m, 1)
           n == Elements(text, c, h)
<1>1. /\ Onward(m, m', text) /\ n \in Nat
      /\ n > 0 => m.p + 1 <= m'.p
  BY StepOverStep DEF StepOver
<1>2. stack' = IF n > 0 THEN <<n>> ELSE << >>
  BY DEF StepOver
<1> HIDE DEF n
<1>3. m' \in Cursor /\ m.p <= m'.p /\ Inside(m', text') /\ m.p \in Nat
  BY <1>1 DEF Onward, Inside, WalkInv
<1>4. stack' \in Seq(Nat) /\ Len(stack') <= m'.p
  BY <1>1, <1>2, <1>3 DEF Inside
<1>5. (\A k \in Keys : ~value[k].bad => Remembered(k))'
  BY <1>3, KeepsRemembered
<1>6. pc' \in {"skipkey", "skipvalue"}  BY DEF StepOver
<1>7. TypeOK'
  BY <1>3, <1>4, <1>6 DEF WalkInv, TypeOK
<1> QED BY <1>3, <1>4, <1>5, <1>6, <1>7 DEF WalkInv

(* A one-byte string in key position: if it names one of the eleven, the     *)
(* cursor behind it is what is remembered.                                   *)
LEMMA NamedKeyKeeps == WalkInv /\ NamedKey => WalkInv'
<1> SUFFICES ASSUME WalkInv, NamedKey PROVE WalkInv'
  OBVIOUS
<1> DEFINE c == Take(m, 1)
           key == Taken(text, c, 1)
<1>1. text \in Seq(Byte) /\ Inside(m, text) /\ stack = << >> /\ pairs \in Nat
  BY DEF WalkInv, TypeOK, NamedKey
<1>2. Onward(m, c, text) /\ Inside(c, text)  BY <1>1, TakeOnward DEF Onward
<1>3. m' = Take(c, 1) /\ Onward(c, m', text)
  <2>1. m' = Take(c, 1)  BY Zenon DEF NamedKey
  <2>2. Onward(c, Take(c, 1), text)  BY <1>1, <1>2, TakeOnward
  <2> QED BY <2>1, <2>2, Zenon
<1>4. Onward(m, m', text)  BY <1>1, <1>2, <1>3, OnwardTrans
<1>5. /\ m' \in Cursor /\ Inside(m', text') /\ text' = text
      /\ m.p \in Nat /\ m'.p \in Nat /\ m.p <= m'.p
  BY <1>1, <1>4 DEF Onward, Inside, NamedKey, Cursor
<1>6. CASE key # << >> /\ key[1] \in Keys
  <2>1. ~Refused(c, 1)  BY <1>6 DEF Taken
  <2>2. ~c.bad /\ 1 <= c.left  BY <1>2, <2>1 DEF Refused, Inside, Cursor
  <2>3. c.p = m.p + 1 /\ text[c.p] = \hA1
    BY <1>1, <2>2, HeadByte DEF NamedKey
  <2>4. m'.p = c.p + 1 /\ m'.bad = FALSE
    BY <1>3, <2>1 DEF Take, Moved
  <2>5. key[1] = text[c.p + 1]
    <3>1. c.p \in Nat /\ c.p + 1 <= Len(text)  BY <1>2, <2>2 DEF Inside, Cursor
    <3>2. key = SubSeq(text, c.p + 1, c.p + 1)  BY <2>1 DEF Taken
    <3> QED BY <1>1, <3>1, <3>2
  <2>6. value' = [value EXCEPT ![key[1]] = m'] /\ twice' \in BOOLEAN
    <3>1. twice' = (twice \/ ~value[key[1]].bad)
      BY <1>6, Zenon DEF NamedKey
    <3>2. value' = [value EXCEPT ![key[1]] = m']
      BY <1>6, Zenon DEF NamedKey
    <3> QED BY <3>1, <3>2, Zenon
  <2>7. (\A k \in Keys : ~value[k].bad => Remembered(k))'
    <3> SUFFICES ASSUME NEW k \in Keys, ~value'[k].bad PROVE Remembered(k)'
      OBVIOUS
    <3> value \in [Keys -> Cursor]  BY DEF WalkInv, TypeOK
    <3>1. CASE k = key[1]
      <4>1. value'[k] = m'  BY <2>6, <3>1
      <4> QED BY <1>5, <2>3, <2>4, <2>5, <3>1, <4>1 DEF Remembered
    <3>2. CASE k # key[1]
      <4>1. value'[k] = value[k]  BY <2>6, <3>2
      <4>2. Remembered(k)  BY <4>1 DEF WalkInv
      <4> QED BY <1>5, <4>1, <4>2 DEF Remembered
    <3> QED BY <3>1, <3>2
  <2>8. value' \in [Keys -> Cursor]  BY <1>5, <2>6 DEF WalkInv, TypeOK
  <2>9. TypeOK'
    BY <1>1, <1>5, <2>6, <2>8 DEF TypeOK, NamedKey
  <2> QED BY <1>1, <1>5, <2>7, <2>9 DEF WalkInv, NamedKey, Inside
<1>7. CASE ~(key # << >> /\ key[1] \in Keys)
  <2>1. value' = value /\ twice' = twice  BY <1>7 DEF NamedKey
  <2>2. (\A k \in Keys : ~value[k].bad => Remembered(k))'
    BY <1>5, <2>1, KeepsRemembered
  <2>3. TypeOK'  BY <1>1, <1>5, <2>1 DEF WalkInv, TypeOK, NamedKey
  <2> QED BY <1>1, <1>5, <2>2, <2>3 DEF WalkInv, NamedKey, Inside
<1> QED BY <1>6, <1>7

(* One element of the innermost container open. *)
LEMMA SkipElementKeeps == WalkInv /\ SkipElement => WalkInv'
<1> SUFFICES ASSUME WalkInv, SkipElement PROVE WalkInv'
  OBVIOUS
<1> DEFINE h  == Head1(text, m)
           c  == Take(m, 1)
           n  == Elements(text, c, h)
           up == [stack EXCEPT ![Len(stack)] = @ - 1]
<1>1. stack \in Seq(Nat) /\ stack # << >> /\ stack[Len(stack)] > 0
  BY DEF WalkInv, TypeOK, SkipElement
<1>2. up \in Seq(Nat) /\ Len(up) = Len(stack)
  <2>1. Len(stack) \in 1..Len(stack) /\ stack[Len(stack)] - 1 \in Nat  BY <1>1
  <2> QED BY <1>1, <2>1, ExceptSeq
<1>3. /\ Onward(m, m', text) /\ n \in Nat
      /\ n > 0 => m.p + 1 <= m'.p
  <2>1. m' = Stepped(text, c, h)  BY DEF SkipElement
  <2> QED BY <2>1, StepOverStep
<1>4. stack' = IF n > 0 THEN Append(up, n) ELSE up  BY DEF SkipElement
<1>5. m' \in Cursor /\ m.p <= m'.p /\ Inside(m', text') /\ m.p \in Nat /\ m'.p \in Nat
  BY <1>3 DEF Onward, Inside, WalkInv, SkipElement, Cursor
<1>6. Len(stack) <= m.p  BY DEF WalkInv
<1> HIDE DEF n, up
<1>7. stack' \in Seq(Nat) /\ Len(stack') <= m'.p
  BY <1>1, <1>2, <1>3, <1>4, <1>5, <1>6
<1>8. (\A k \in Keys : ~value[k].bad => Remembered(k))'
  BY <1>5, KeepsRemembered DEF SkipElement
<1>9. TypeOK'
  BY <1>5, <1>7 DEF WalkInv, TypeOK, SkipElement
<1> QED BY <1>5, <1>7, <1>8, <1>9 DEF WalkInv, SkipElement

(* Leaving a container, and leaving the value. *)
LEMMA SkipReturnKeeps == WalkInv /\ (SkipReturn \/ SkipEnd) => WalkInv'
<1> SUFFICES ASSUME WalkInv, SkipReturn \/ SkipEnd PROVE WalkInv'
  OBVIOUS
<1>1. UNCHANGED <<text, m, pairs, value, twice>>  BY DEF SkipReturn, SkipEnd
<1>2. stack \in Seq(Nat) /\ Len(stack) <= m.p /\ m.p \in Nat
  BY DEF WalkInv, TypeOK, Cursor
<1>3. (\A k \in Keys : ~value[k].bad => Remembered(k))'
  BY <1>1 DEF WalkInv, Remembered
<1>4. CASE SkipReturn
  <2>1. stack' = SubSeq(stack, 1, Len(stack) - 1) /\ stack # << >>
    BY <1>4 DEF SkipReturn
  <2>2. stack' \in Seq(Nat) /\ Len(stack') <= m.p
    BY <1>2, <2>1
  <2>3. pc' = pc /\ pc \in {"skipkey", "skipvalue"}  BY <1>4 DEF SkipReturn
  <2>4. TypeOK'  BY <1>1, <2>2, <2>3 DEF WalkInv, TypeOK
  <2> QED BY <1>1, <1>3, <2>2, <2>3, <2>4 DEF WalkInv, Inside
<1>5. CASE SkipEnd
  <2>1. stack' = stack /\ stack = << >> /\ pc' \in {"value", "pair"}
    BY <1>5 DEF SkipEnd
  <2> QED BY <1>1, <1>2, <1>3, <2>1 DEF WalkInv, TypeOK, Inside
<1> QED BY <1>4, <1>5

(* Printing voids the cursors of a map that is not whole, and moves none.    *)
LEMMA PrintMapKeeps == WalkInv /\ PrintMap => WalkInv'
<1> SUFFICES ASSUME WalkInv, PrintMap PROVE WalkInv'
  OBVIOUS
<1>1. UNCHANGED <<text, m, pairs, stack, twice>> /\ pc' = "done" /\ pc = "pair"
  BY DEF PrintMap, Finish
<1> DEFINE printed(k) == IF twice \/ m.bad THEN Bad(value[k]) ELSE value[k]
<1>2. value' = [k \in Keys |-> printed(k)]  BY DEF PrintMap
<1>3. \A k \in Keys : printed(k) \in Cursor /\ (~printed(k).bad => printed(k) = value[k])
  BY DEF WalkInv, TypeOK, Bad, Cursor
<1> HIDE DEF printed
<1>4. value' \in [Keys -> Cursor]  BY <1>2, <1>3
<1>5. (\A k \in Keys : ~value[k].bad => Remembered(k))'
  <2> SUFFICES ASSUME NEW k \in Keys, ~value'[k].bad PROVE Remembered(k)'
    OBVIOUS
  <2>1. value'[k] = value[k]  BY <1>2, <1>3
  <2>2. Remembered(k)  BY <2>1 DEF WalkInv
  <2> QED BY <1>1, <2>1, <2>2 DEF Remembered
<1> QED BY <1>1, <1>4, <1>5 DEF WalkInv, TypeOK, Inside

(* The straight reads touch nothing of the walk.                             *)
LEMMA StraightKeeps == WalkInv /\ (ReadStraight \/ UNCHANGED vars) => WalkInv'
<1> SUFFICES ASSUME WalkInv, ReadStraight \/ UNCHANGED vars PROVE WalkInv'
  OBVIOUS
<1>1. UNCHANGED <<text, m, pairs, stack, value, twice>> /\ pc' \in {pc, "done"}
      /\ (pc' # pc => pc = "start")
  BY DEF ReadStraight, PartRequest, HashmapUpdate, Cancel, Request, Response,
         Channel, Identify, Straight, Short, Finish
<1>2. (\A k \in Keys : ~value[k].bad => Remembered(k))'
  BY <1>1 DEF WalkInv, Remembered
<1> QED BY <1>1, <1>2 DEF WalkInv, TypeOK, Inside

(* Every step of the program keeps it.                                       *)
THEOREM WalkStep == WalkInv /\ [Next]_vars => WalkInv'
<1> SUFFICES ASSUME WalkInv, [Next]_vars PROVE WalkInv'
  OBVIOUS
<1>1. CASE OpenMap  BY <1>1, OpenMapKeeps
<1>2. CASE NamedKey  BY <1>2, NamedKeyKeeps
<1>3. CASE ForeignKey
  <2>1. stack = << >> /\ pairs' \in Nat
    BY <1>3 DEF ForeignKey, WalkInv, TypeOK
  <2> QED BY <1>3, <2>1, StepOverKeeps DEF ForeignKey
<1>4. CASE SkipValue
  <2>1. stack = << >> /\ pairs' \in Nat
    BY <1>4 DEF SkipValue, WalkInv, TypeOK
  <2> QED BY <1>4, <2>1, StepOverKeeps DEF SkipValue
<1>5. CASE SkipElement  BY <1>5, SkipElementKeeps
<1>6. CASE SkipReturn  BY <1>6, SkipReturnKeeps
<1>7. CASE SkipEnd  BY <1>7, SkipReturnKeeps
<1>8. CASE PrintMap  BY <1>8, PrintMapKeeps
<1>9. CASE ReadStraight  BY <1>9, StraightKeeps
<1>10. CASE Done \/ UNCHANGED vars  BY <1>10, StraightKeeps DEF Done
<1> QED BY <1>1, <1>2, <1>3, <1>4, <1>5, <1>6, <1>7, <1>8, <1>9, <1>10
     DEF Next, Walk

(* What the reader of any plaintext keeps true at every moment.              *)
THEOREM WalkCorrect == Spec => []WalkInv
<1> QED BY WalkInitially, WalkStep, PTL DEF Spec

-----------------------------------------------------------------------------
(* The state has the shape the C variables have.                             *)
THEOREM TypeCorrect == Spec => []TypeOK
<1>1. WalkInv => TypeOK  BY DEF WalkInv
<1> QED BY <1>1, WalkCorrect, PTL

(* No reader, and no cursor kept for later, is ever past the plaintext: what *)
(* mp_take, mp_head and the field printers rely on.                          *)
THEOREM NeverPastTheEnd == Spec => []InsideThePlaintext
<1>1. WalkInv => InsideThePlaintext
  BY DEF WalkInv, InsideThePlaintext, Inside, Remembered
<1> QED BY <1>1, WalkCorrect, PTL

(* The C stack of mp_skip_head is bounded by the plaintext it is given.      *)
THEOREM DepthBounded == Spec => []RecursionBounded
<1>1. WalkInv => RecursionBounded  BY DEF WalkInv, RecursionBounded
<1> QED BY <1>1, WalkCorrect, PTL

(* The field a key fills is the value behind that key, in any map.           *)
THEOREM ValueOfItsKey == Spec => []RememberedBehindItsName
<1>1. WalkInv => RememberedBehindItsName
  BY DEF WalkInv, RememberedBehindItsName, Remembered
<1> QED BY <1>1, WalkCorrect, PTL

(* The sticky flag of struct mp: no step moves a refused cursor.             *)
THEOREM RefusedStaysRefused == Spec => RefusalIsFinal
<1>1. ASSUME WalkInv, [Next]_vars PROVE m.bad => m' = m
  <2> SUFFICES ASSUME m.bad PROVE m' = m
    OBVIOUS
  <2>1. CASE OpenMap  BY <1>1, <2>1 DEF OpenMap, WalkInv
  <2>2. CASE NamedKey  BY <2>2 DEF NamedKey
  <2>3. CASE ForeignKey  BY <2>3 DEF ForeignKey
  <2>4. CASE SkipValue
    <3>1. m' = Stepped(text, Take(m, 1), Head1(text, m))
      BY <2>4 DEF SkipValue, StepOver
    <3> QED BY <1>1, <3>1, StepOverStep DEF Onward
  <2>5. CASE SkipElement  BY <2>5 DEF SkipElement
  <2>6. CASE SkipReturn \/ SkipEnd \/ PrintMap \/ Done \/ UNCHANGED vars
    BY <2>6 DEF SkipReturn, SkipEnd, PrintMap, Done
  <2>7. CASE ReadStraight
    BY <2>7 DEF ReadStraight, PartRequest, HashmapUpdate, Cancel, Request,
                Response, Channel, Identify, Straight
  <2> QED BY <1>1, <2>1, <2>2, <2>3, <2>4, <2>5, <2>6, <2>7 DEF Next, Walk
<1>2. WalkInv /\ [Next]_vars => [m.bad => m' = m]_vars  BY <1>1
<1> QED BY <1>2, WalkCorrect, PTL DEF Spec, RefusalIsFinal

-----------------------------------------------------------------------------
(* What the generator reads of any bytes: it ends, and reading many values is *)
(* reading the first and then the others.                                     *)

(* a sequence of anything *)
IsSeq(s) == \E S : s \in Seq(S)

(* sequences join as sets of values join *)
LEMMA SeqsJoin ==
  ASSUME NEW s, NEW t, IsSeq(s), IsSeq(t)
  PROVE  /\ IsSeq(s \o t) /\ Len(s) \in Nat /\ Len(t) \in Nat
         /\ Len(s \o t) = Len(s) + Len(t)
         /\ \A i \in 1..Len(s) : (s \o t)[i] = s[i]
         /\ \A i \in 1..Len(t) : (s \o t)[Len(s) + i] = t[i]
<1>1. PICK S : s \in Seq(S)  BY DEF IsSeq
<1>2. PICK T : t \in Seq(T)  BY DEF IsSeq
<1>3. s \in Seq(S \union T) /\ t \in Seq(S \union T)  BY <1>1, <1>2
<1>4. s \o t \in Seq(S \union T)  BY <1>3
<1>5. Len(s) \in Nat /\ Len(t) \in Nat /\ Len(s \o t) = Len(s) + Len(t)  BY <1>3
<1>6. ASSUME NEW i \in 1..Len(s) PROVE (s \o t)[i] = s[i]  BY <1>3
<1>7. ASSUME NEW i \in 1..Len(t) PROVE (s \o t)[Len(s) + i] = t[i]
  BY <1>3
<1> QED BY <1>4, <1>5, <1>6, <1>7 DEF IsSeq

LEMMA OneInFront ==
  ASSUME NEW a, NEW t, IsSeq(t)
  PROVE  /\ IsSeq(<<a>> \o t) /\ Len(t) \in Nat /\ Len(<<a>> \o t) = 1 + Len(t)
         /\ (<<a>> \o t)[1] = a /\ \A i \in 1..Len(t) : (<<a>> \o t)[1 + i] = t[i]
<1> SUFFICES ASSUME NEW s, s = <<a>>
             PROVE  /\ IsSeq(s \o t) /\ Len(t) \in Nat /\ Len(s \o t) = 1 + Len(t)
                    /\ (s \o t)[1] = a /\ \A i \in 1..Len(t) : (s \o t)[1 + i] = t[i]
  OBVIOUS
<1>1. s \in Seq({a}) /\ Len(s) = 1 /\ s[1] = a  OBVIOUS
<1>2. IsSeq(s) /\ 1 \in 1..Len(s)
  <2>1. \E S : s \in Seq(S)  BY <1>1, Zenon
  <2>2. 1 \in 1..Len(s)  BY <1>1
  <2> QED BY <2>1, <2>2, Zenon DEF IsSeq
<1>3. /\ IsSeq(s \o t) /\ Len(t) \in Nat
      /\ Len(s \o t) = Len(s) + Len(t)
      /\ \A i \in 1..Len(s) : (s \o t)[i] = s[i]
      /\ \A i \in 1..Len(t) : (s \o t)[Len(s) + i] = t[i]
  BY <1>2, SeqsJoin
<1> QED BY <1>1, <1>2, <1>3

(* what a longer list met *)
LEMMA MetJoin ==
  ASSUME NEW a, NEW t, IsSeq(t)
  PROVE  U!Met(<<a>> \o t) = a.met \union U!Met(t)
<1> SUFFICES ASSUME NEW r, r = <<a>> \o t PROVE U!Met(r) = a.met \union U!Met(t)
  OBVIOUS
<1>1. /\ Len(t) \in Nat /\ Len(r) = 1 + Len(t)
      /\ r[1] = a /\ \A i \in 1..Len(t) : r[1 + i] = t[i]
  BY OneInFront
<1>2. ASSUME NEW x \in U!Met(r) PROVE x \in a.met \union U!Met(t)
  <2>1. PICK i \in 1..Len(r) : x \in r[i].met  BY <1>2 DEF U!Met
  <2>2. CASE i = 1  BY <1>1, <2>1, <2>2
  <2>3. CASE i # 1
    <3>1. i - 1 \in 1..Len(t) /\ 1 + (i - 1) = i  BY <1>1, <2>3
    <3>2. x \in t[i - 1].met  BY <1>1, <2>1, <3>1
    <3> QED BY <3>1, <3>2 DEF U!Met
  <2> QED BY <2>2, <2>3
<1>3. ASSUME NEW x \in a.met PROVE x \in U!Met(r)
  <2>1. 1 \in 1..Len(r) /\ x \in r[1].met  BY <1>1, <1>3
  <2> QED BY <2>1 DEF U!Met
<1>4. ASSUME NEW x \in U!Met(t) PROVE x \in U!Met(r)
  <2>1. PICK i \in 1..Len(t) : x \in t[i].met  BY <1>4 DEF U!Met
  <2>2. 1 + i \in 1..Len(r) /\ x \in r[1 + i].met  BY <1>1, <2>1
  <2> QED BY <2>2 DEF U!Met
<1> QED BY <1>2, <1>3, <1>4

LEMMA NothingMet == U!Met(<< >>) = {}
BY DEF U!Met

(* the smaller of two lengths *)
LEMMA LeastOf ==
  ASSUME NEW S \in SUBSET Nat, NEW n \in S
  PROVE  \E k \in S : \A j \in S : k <= j
<1> DEFINE less == OpToRel(<, Nat)
<1>1. IsWellFoundedOn(less, Nat)  BY NatLessThanWellFounded
<1>2. \A i, j \in Nat : i < j => <<i, j>> \in less  BY DEF OpToRel
<1> HIDE DEF less
<1>3. PICK k \in S : \A j \in S : ~(<<j, k>> \in less)
  <2>1. S # {}  OBVIOUS
  <2> QED BY <1>1, <2>1, WFMin
<1>4. ASSUME NEW j \in S PROVE k <= j
  <2>1. ~(j < k)  BY <1>2, <1>3
  <2> QED BY <2>1
<1> QED BY <1>4

(* the kinds of a value with no length before it *)
Types == {"ext", "int", "long", "signed", "single", "float", "bytes", "str"}

(* a value of a type met nothing but what its body met *)
LEMMA TypedIs ==
  ASSUME NEW kind \in Types, NEW b
  PROVE  LET v == U!Typed(kind, b)
         IN  /\ v.met = {} /\ v.items = << >>
             /\ v.kind \in (Types \ {"ext", "signed"}) \union {"foreign", "negative"}
BY DEF Types, U!Typed, U!FOREIGN, U!Value

(* nothing cut and nothing of no type *)
Wholly(v) == v.met \intersect {"cut", "type"} = {}

(* a body is what is there of it *)
LEMMA BodyIs ==
  ASSUME NEW d \in Seq(Byte), NEW p \in Nat, NEW n \in Nat, NEW kind \in Types
  PROVE  LET r == U!Body(d, p, n, kind)
         IN  /\ p + n <= Len(d) =>
                  /\ r.v = U!Typed(kind, SubSeq(d, p + 1, p + n)) /\ r.at = p + n
                  /\ r.v.met = {} /\ r.v.kind # "short"
             /\ p + n > Len(d) => r.v = U!SHORT /\ r.at = Len(d)
<1> DEFINE v == U!Typed(kind, SubSeq(d, p + 1, p + n))
<1>1. v.met = {} /\ v.kind # "short"  BY TypedIs DEF Types
<1> HIDE DEF v
<1>2. U!Body(d, p, n, kind) = IF p + n > Len(d) THEN [v |-> U!SHORT, at |-> Len(d)]
                              ELSE [v |-> v, at |-> p + n]
  BY DEF U!Body, U!At, v
<1>3. CASE p + n <= Len(d)
  <2>1. U!Body(d, p, n, kind) = [v |-> v, at |-> p + n]  BY <1>2, <1>3
  <2> QED BY <1>1, <1>3, <2>1 DEF v
<1>4. CASE p + n > Len(d)
  <2>1. U!Body(d, p, n, kind) = [v |-> U!SHORT, at |-> Len(d)]  BY <1>2, <1>4
  <2> QED BY <1>4, <2>1
<1> QED BY <1>3, <1>4

LEMMA NumberNat ==
  ASSUME NEW d \in Seq(Byte), NEW p \in Nat, NEW w \in {1, 2, 4}, p + w <= Len(d)
  PROVE  LET n == U!Number(SubSeq(d, p + 1, p + w))
         IN  /\ n \in Nat
             /\ w = 1 => n = d[p + 1]
             /\ w = 2 => n = 256 * d[p + 1] + d[p + 2]
<1> SUFFICES ASSUME NEW b, b = SubSeq(d, p + 1, p + w)
             PROVE  /\ U!Number(b) \in Nat
                    /\ w = 1 => U!Number(b) = d[p + 1]
                    /\ w = 2 => U!Number(b) = 256 * d[p + 1] + d[p + 2]
  OBVIOUS
<1>1. b \in Seq(Byte) /\ Len(b) = w  OBVIOUS
<1>2. \A i \in 1..w : b[i] = d[p + i] /\ b[i] \in Nat
  <2> SUFFICES ASSUME NEW i \in 1..w PROVE b[i] = d[p + i] /\ b[i] \in Nat
    OBVIOUS
  <2>1. b[i] \in Byte  BY <1>1
  <2>2. b[i] = d[p + i]  OBVIOUS
  <2> QED BY <2>1, <2>2, ByteNat
<1>3. CASE w = 1
  <2>1. Len(b) = 1  BY <1>1, <1>3
  <2>2. U!Number(b) = b[1]
    <3>1. Len(b) # 2  BY <2>1
    <3> QED BY <2>1, <3>1, Zenon DEF U!Number
  <2> QED BY <1>2, <1>3, <2>2
<1>4. CASE w = 2
  <2>1. Len(b) = 2 /\ Len(b) # 1  BY <1>1, <1>4
  <2>2. U!Number(b) = 256 * b[1] + b[2]  BY <2>1, Zenon DEF U!Number
  <2> QED BY <1>2, <1>4, <2>2
<1>5. CASE w = 4
  <2>1. Len(b) # 1 /\ Len(b) # 2  BY <1>1, <1>5
  <2>2. U!Number(b) = 256 * (256 * (256 * b[1] + b[2]) + b[3]) + b[4]
    BY <2>1, Zenon DEF U!Number
  <2>3. 1 \in 1..w /\ 2 \in 1..w /\ 3 \in 1..w /\ 4 \in 1..w  BY <1>5
  <2>4. b[1] \in Nat /\ b[2] \in Nat /\ b[3] \in Nat /\ b[4] \in Nat  BY <1>2, <2>3
  <2>5. U!Number(b) \in Nat
    <3> DEFINE N(y, z) == 256 * y + z
    <3>1. \A y, z \in Nat : N(y, z) \in Nat  OBVIOUS
    <3>2. U!Number(b) = N(N(N(b[1], b[2]), b[3]), b[4])  BY <2>2
    <3> HIDE DEF N
    <3>3. N(b[1], b[2]) \in Nat  BY <2>4, <3>1, Zenon
    <3>4. N(N(b[1], b[2]), b[3]) \in Nat  BY <2>4, <3>1, <3>3, Zenon
    <3>5. N(N(N(b[1], b[2]), b[3]), b[4]) \in Nat  BY <2>4, <3>1, <3>4, Zenon
    <3> QED BY <3>2, <3>5
  <2> QED BY <1>5, <2>5
<1> QED BY <1>3, <1>4, <1>5

(* a value of width x behind a length of width w *)
Behind(d, p, w, x, kind, n, r) ==
  LET e == p + w + x + n
      v == U!Typed(kind, SubSeq(d, p + w + 1, e))
  IN  /\ p + w > Len(d) => r.v = U!SHORT /\ r.at = Len(d)
      /\ p + w <= Len(d) =>
           /\ n \in Nat
           /\ e > Len(d) => r.v = U!SHORT /\ r.at = Len(d)
           /\ e <= Len(d) =>
                /\ r.at = e
                /\ r.v.kind = v.kind /\ r.v.bytes = v.bytes /\ r.v.kind # "short"
                /\ r.v.met = IF w = 4 \/ (kind = "str" /\ n = 1) THEN {"wide"} ELSE {}
                /\ r.v.met = {} => r.v = v

LEMMA ShortIs == U!SHORT.met = {"cut"} /\ U!SHORT.kind = "short" /\ U!SHORT.bytes = << >>
BY DEF U!SHORT, U!Having, U!Value

LEMMA AtIs == \A v, at : U!At(v, at).v = v /\ U!At(v, at).at = at
BY DEF U!At

(* whatever the type, a record of four *)
LEMMA TypedValue ==
  ASSUME NEW kind, NEW b
  PROVE  \E k, x : U!Typed(kind, b) = U!Value(k, x)
<1>1. CASE kind = "ext"  BY <1>1 DEF U!Typed, U!FOREIGN
<1>2. CASE kind \in {"int", "long"}  BY <1>2 DEF U!Typed
<1>3. CASE kind = "signed"
  <2>1. CASE b[1] < 128  BY <1>3, <2>1 DEF U!Typed
  <2>2. CASE ~(b[1] < 128)  BY <1>3, <2>2 DEF U!Typed
  <2> QED BY <2>1, <2>2
<1>4. CASE kind \notin {"ext", "int", "long", "signed"}  BY <1>4 DEF U!Typed
<1> QED BY <1>1, <1>2, <1>3, <1>4

(* a body behind its own length *)
LEMMA PrefixedIs ==
  ASSUME NEW d \in Seq(Byte), NEW p \in Nat, NEW w \in {1, 2, 4}, NEW x \in {0, 1},
         NEW kind \in Types
  PROVE  Behind(d, p, w, x, kind, U!Number(SubSeq(d, p + 1, p + w)),
                U!Prefixed(d, p, w, x, kind))
<1> SUFFICES ASSUME NEW n, n = U!Number(SubSeq(d, p + 1, p + w)),
                    NEW o, o = U!Prefixed(d, p, w, x, kind)
             PROVE  Behind(d, p, w, x, kind, n, o)
  OBVIOUS
<1>1. CASE p + w > Len(d)
  <2>1. o = U!At(U!SHORT, Len(d))  BY <1>1 DEF U!Prefixed
  <2>2. o.v = U!SHORT /\ o.at = Len(d)  BY <2>1, AtIs
  <2>3. ~(p + w <= Len(d))  BY <1>1
  <2> QED BY <2>2, <2>3 DEF Behind
<1>2. CASE p + w <= Len(d)
  <2>1. n \in Nat  BY <1>2, NumberNat
  <2> DEFINE r == U!Body(d, p + w, x + n, kind)
             long == w = 4 \/ (kind = "str" /\ n = 1)
             e == p + w + x + n
             v == U!Typed(kind, SubSeq(d, p + w + 1, e))
  <2>2. o = IF r.v # U!SHORT /\ long THEN U!At(U!Having(r.v, "wide"), r.at) ELSE r
    <3>1. ~(p + w > Len(d))  BY <1>2
    <3> QED BY <3>1 DEF U!Prefixed
  <2>3. p + w \in Nat /\ x + n \in Nat /\ (p + w) + (x + n) = e  BY <2>1
  <2>4. /\ e <= Len(d) => r.v = v /\ r.at = e /\ r.v.met = {} /\ r.v.kind # "short"
        /\ e > Len(d) => r.v = U!SHORT /\ r.at = Len(d)
    <3> HIDE DEF e
    <3>1. LET s == U!Body(d, p + w, x + n, kind)
          IN  /\ (p + w) + (x + n) <= Len(d) =>
                   /\ s.v = U!Typed(kind, SubSeq(d, (p + w) + 1, (p + w) + (x + n)))
                   /\ s.at = (p + w) + (x + n)
                   /\ s.v.met = {} /\ s.v.kind # "short"
              /\ (p + w) + (x + n) > Len(d) => s.v = U!SHORT /\ s.at = Len(d)
      BY <2>3, BodyIs
    <3> QED BY <2>3, <3>1
  <2> HIDE DEF r, v, long, e
  <2>5. CASE e > Len(d)
    <3>1. o = r  BY <2>2, <2>4, <2>5
    <3>2. ~(e <= Len(d)) /\ ~(p + w > Len(d))  BY <1>2, <2>1, <2>5 DEF e
    <3> QED BY <2>1, <2>4, <2>5, <3>1, <3>2 DEF Behind, e
  <2>6. CASE e <= Len(d)
    <3>1. ~(e > Len(d)) /\ ~(p + w > Len(d))  BY <1>2, <2>1, <2>6 DEF e
    <3>2. r.v # U!SHORT /\ r.v = v /\ r.at = e /\ v.met = {} /\ v.kind # "short"
      BY <2>4, <2>6, ShortIs
    <3>3. CASE long
      <4>1. o = U!At(U!Having(v, "wide"), e)  BY <2>2, <3>2, <3>3
      <4>2. o.v = U!Having(v, "wide") /\ o.at = e  BY <4>1, AtIs
      <4>3. \E k, b, i, mm : v = [kind |-> k, bytes |-> b, items |-> i, met |-> mm]
        BY TypedValue DEF v, U!Value
      <4>4. o.v.kind = v.kind /\ o.v.bytes = v.bytes /\ o.v.met = {"wide"}
        BY <4>2, <4>3 DEF U!Having
      <4>5. {"wide"} # {}  OBVIOUS
      <4> QED BY <2>1, <3>1, <3>2, <3>3, <4>2, <4>4, <4>5 DEF Behind, e, v, long
    <3>4. CASE ~long
      <4>1. o = r  BY <2>2, <3>4
      <4> QED BY <2>1, <3>1, <3>2, <3>4, <4>1 DEF Behind, e, v, long
    <3> QED BY <3>3, <3>4
  <2>7. e \in Nat /\ Len(d) \in Nat  BY <2>1 DEF e
  <2> QED BY <2>5, <2>6, <2>7
<1> QED BY <1>1, <1>2

(* a value ends inside the bytes, and at their end when it is cut *)
Ended(d, p, o) ==
  /\ o.at \in p..Len(d) /\ o.v.met \subseteq {"cut", "type", "wide"}
  /\ "cut" \in o.v.met => o.v = U!SHORT /\ o.at = Len(d)

LEMMA EndedWhole ==
  ASSUME NEW d \in Seq(Byte), NEW p, NEW o, o.at \in p..Len(d),
         o.v.met \subseteq {"type", "wide"}
  PROVE  Ended(d, p, o)
BY DEF Ended

LEMMA EndedShort ==
  ASSUME NEW d \in Seq(Byte), NEW p \in 0..Len(d), NEW o, o.at = Len(d), o.v = U!SHORT
  PROVE  Ended(d, p, o)
BY ShortIs DEF Ended

LEMMA BodyEnded ==
  ASSUME NEW d \in Seq(Byte), NEW p \in 0..Len(d), NEW n \in Nat, NEW kind \in Types
  PROVE  Ended(d, p, U!Body(d, p, n, kind))
<1> SUFFICES ASSUME NEW o, o = U!Body(d, p, n, kind) PROVE Ended(d, p, o)
  OBVIOUS
<1>1. CASE p + n <= Len(d)
  <2>1. o.at = p + n /\ o.v.met = {}  BY <1>1, BodyIs
  <2>2. o.at \in p..Len(d)  BY <1>1, <2>1
  <2> QED BY <2>1, <2>2, EndedWhole
<1>2. CASE p + n > Len(d)
  <2>1. o.at = Len(d) /\ o.v = U!SHORT  BY <1>2, BodyIs
  <2> QED BY <2>1, EndedShort
<1> QED BY <1>1, <1>2

LEMMA PrefixedEnded ==
  ASSUME NEW d \in Seq(Byte), NEW p \in 0..Len(d), NEW w \in {1, 2, 4}, NEW x \in {0, 1},
         NEW kind \in Types
  PROVE  Ended(d, p, U!Prefixed(d, p, w, x, kind))
<1> SUFFICES ASSUME NEW o, o = U!Prefixed(d, p, w, x, kind),
                    NEW n, n = U!Number(SubSeq(d, p + 1, p + w))
             PROVE  Ended(d, p, o)
  OBVIOUS
<1>1. Behind(d, p, w, x, kind, n, o)
  <2>1. p \in Nat  OBVIOUS
  <2> QED BY <2>1, PrefixedIs, Zenon
<1>2. CASE p + w > Len(d)
  <2>1. o.at = Len(d) /\ o.v = U!SHORT  BY <1>1, <1>2 DEF Behind
  <2> QED BY <2>1, EndedShort
<1>3. CASE p + w <= Len(d)
  <2> DEFINE e == p + w + x + n
  <2>1. n \in Nat  BY <1>1, <1>3 DEF Behind
  <2>2. CASE e > Len(d)
    <3>1. o.at = Len(d) /\ o.v = U!SHORT  BY <1>1, <1>3, <2>2 DEF Behind
    <3> QED BY <3>1, EndedShort
  <2>3. CASE e <= Len(d)
    <3>1. o.at = e /\ o.v.met = IF w = 4 \/ (kind = "str" /\ n = 1) THEN {"wide"} ELSE {}
      BY <1>1, <1>3, <2>3 DEF Behind
    <3>2. o.at \in p..Len(d)  BY <2>1, <2>3, <3>1
    <3>3. o.v.met \subseteq {"type", "wide"}  BY <3>1
    <3> QED BY <3>2, <3>3, EndedWhole
  <2> QED BY <2>1, <2>2, <2>3
<1> QED BY <1>2, <1>3

(* the classes a head byte can be in, which leave none out *)
Heads(h) ==
  /\ h \in U!Small => h \notin U!Fixed \union U!Sized \union U!Lengthy \union U!Containers
  /\ h \in U!Fixed => h \notin U!Small \union U!Sized \union U!Lengthy \union U!Containers
  /\ h \in U!Sized => h \notin U!Small \union U!Fixed \union U!Lengthy \union U!Containers
  /\ h \in U!Lengthy => h \notin U!Small \union U!Fixed \union U!Sized \union U!Containers
  /\ h \in U!Small \union U!Fixed \union U!Sized \union U!Lengthy \union U!Containers

LEMMA HeadClasses == \A h \in Byte : Heads(h)
BY DEF Byte, Heads, U!Small, U!Fixed, U!Sized, U!Lengthy, U!Containers, U!Maps,
   U!FixMaps, U!FixLists

LEMMA HeadWidths ==
  ASSUME NEW h \in Byte
  PROVE  /\ U!Type(h) \in Types
         /\ h \in U!Sized => U!Width(h) \in Nat
         /\ h \in U!Lengthy => U!LengthWidth(h) \in {1, 2, 4} /\ U!TypeByte(h) \in {0, 1}
<1> h \in 0..255  BY DEF Byte
<1>1. U!Type(h) \in Types  BY DEF U!Type, Types
<1>2. ASSUME h \in U!Sized PROVE U!Width(h) \in Nat
  <2>1. CASE h \in \hA0..\hBF
    <3>1. U!Width(h) = h - \hA0  BY <2>1 DEF U!Width
    <3> QED BY <2>1, <3>1
  <2>2. CASE h \in {\hCA, \hCB}  BY <2>2 DEF U!Width
  <2>3. CASE h \in \hCC..\hD3
    <3>1. U!Width(h) = U!IntWidth(h)  BY <2>3 DEF U!Width
    <3>2. h - \hCB \in 1..8  BY <2>3
    <3>3. U!IntWidth(h) \in Nat  BY <3>2 DEF U!IntWidth
    <3> QED BY <3>1, <3>3
  <2>4. CASE h \in \hD4..\hD8
    <3>1. U!Width(h) = U!ExtWidth(h)  BY <2>4 DEF U!Width
    <3>2. h - \hD3 \in 1..5  BY <2>4
    <3>3. U!ExtWidth(h) \in Nat  BY <3>2 DEF U!ExtWidth
    <3> QED BY <3>1, <3>3
  <2> QED BY <1>2, <2>1, <2>2, <2>3, <2>4 DEF U!Sized
<1>3. ASSUME h \in U!Lengthy
      PROVE  U!LengthWidth(h) \in {1, 2, 4} /\ U!TypeByte(h) \in {0, 1}
  BY <1>3 DEF U!Lengthy, U!LengthWidth, U!TypeByte
<1> QED BY <1>1, <1>2, <1>3

(* what a value that holds no other is, by the class of its head *)
LEMMA SingleIs ==
  ASSUME NEW d \in Seq(Byte), NEW a \in Nat, a < Len(d), NEW h, h = d[a + 1]
  PROVE  /\ h \in Byte
         /\ h \in U!Small => U!Single(d, a) = U!Body(d, a, 1, U!Type(h))
         /\ h \in U!Fixed =>
              /\ U!Single(d, a).at = a + 1
              /\ h = \hC0 => U!Single(d, a).v = U!Nil
              /\ h = \hC1 => U!Single(d, a).v = U!Raises
              /\ h = \hC2 => U!Single(d, a).v = U!False
              /\ h = \hC3 => U!Single(d, a).v = U!True
         /\ h \in U!Sized => U!Single(d, a) = U!Body(d, a + 1, U!Width(h), U!Type(h))
         /\ h \in U!Lengthy =>
              U!Single(d, a) = U!Prefixed(d, a + 1, U!LengthWidth(h), U!TypeByte(h), U!Type(h))
         /\ h \in U!Containers => U!Single(d, a).v = U!SHORT /\ U!Single(d, a).at = Len(d)
<1>1. h \in Byte
  <2>1. a + 1 \in 1..Len(d)  OBVIOUS
  <2> QED BY <2>1
<1>2. Heads(h)  BY <1>1, HeadClasses
<1> SUFFICES ASSUME NEW o, o = U!Single(d, a)
             PROVE  /\ h \in U!Small => o = U!Body(d, a, 1, U!Type(h))
                    /\ h \in U!Fixed =>
                         /\ o.at = a + 1
                         /\ h = \hC0 => o.v = U!Nil
                         /\ h = \hC1 => o.v = U!Raises
                         /\ h = \hC2 => o.v = U!False
                         /\ h = \hC3 => o.v = U!True
                    /\ h \in U!Sized => o = U!Body(d, a + 1, U!Width(h), U!Type(h))
                    /\ h \in U!Lengthy =>
                         o = U!Prefixed(d, a + 1, U!LengthWidth(h), U!TypeByte(h), U!Type(h))
                    /\ h \in U!Containers => o.v = U!SHORT /\ o.at = Len(d)
  BY <1>1
<1>3. ASSUME h \in U!Small PROVE o = U!Body(d, a, 1, U!Type(h))
  <2>1. h \notin U!Fixed /\ h \notin U!Sized /\ h \notin U!Lengthy
    BY <1>2, <1>3 DEF Heads
  <2> QED BY <1>3, <2>1, Zenon DEF U!Single
<1>4. ASSUME h \in U!Sized PROVE o = U!Body(d, a + 1, U!Width(h), U!Type(h))
  <2>1. h \notin U!Fixed /\ h \notin U!Small /\ h \notin U!Lengthy
    BY <1>2, <1>4 DEF Heads
  <2> QED BY <1>4, <2>1, Zenon DEF U!Single
<1>5. ASSUME h \in U!Lengthy
      PROVE  o = U!Prefixed(d, a + 1, U!LengthWidth(h), U!TypeByte(h), U!Type(h))
  <2>1. h \notin U!Fixed /\ h \notin U!Small /\ h \notin U!Sized
    BY <1>2, <1>5 DEF Heads
  <2> QED BY <1>5, <2>1, Zenon DEF U!Single
<1>6. ASSUME h \in U!Containers PROVE o.v = U!SHORT /\ o.at = Len(d)
  <2>1. h \notin U!Fixed /\ h \notin U!Small /\ h \notin U!Sized /\ h \notin U!Lengthy
    BY <1>2, <1>6 DEF Heads
  <2>2. o = U!At(U!SHORT, Len(d))  BY <2>1, Zenon DEF U!Single
  <2> QED BY <2>2, AtIs
<1>7. ASSUME h \in U!Fixed
      PROVE  /\ o.at = a + 1
             /\ h = \hC0 => o.v = U!Nil
             /\ h = \hC1 => o.v = U!Raises
             /\ h = \hC2 => o.v = U!False
             /\ h = \hC3 => o.v = U!True
  <2>1. h \notin U!Small /\ h \notin U!Sized /\ h \notin U!Lengthy
    BY <1>2, <1>7 DEF Heads
  <2>2. o = U!At(<<U!Nil, U!Raises, U!False, U!True>>[h - \hBF], a + 1)
    BY <1>7, <2>1, Zenon DEF U!Single
  <2>3. o.at = a + 1 /\ o.v = <<U!Nil, U!Raises, U!False, U!True>>[h - \hBF]
    BY <2>2, AtIs
  <2> DEFINE four == <<U!Nil, U!Raises, U!False, U!True>>
  <2>4. four[1] = U!Nil /\ four[2] = U!Raises /\ four[3] = U!False /\ four[4] = U!True
    OBVIOUS
  <2> HIDE DEF four
  <2>5. o.v = four[h - \hBF]  BY <2>3, Zenon DEF four
  <2>6. \hC0 - \hBF = 1 /\ \hC1 - \hBF = 2 /\ \hC2 - \hBF = 3 /\ \hC3 - \hBF = 4  OBVIOUS
  <2> QED BY <2>3, <2>4, <2>5, <2>6
<1> QED BY <1>3, <1>4, <1>5, <1>6, <1>7

(* and where it ends *)
LEMMA SingleEnded ==
  ASSUME NEW d \in Seq(Byte), NEW a \in Nat, a < Len(d)
  PROVE  Ended(d, a + 1, U!Single(d, a))
<1> SUFFICES ASSUME NEW o, o = U!Single(d, a), NEW h, h = d[a + 1]
             PROVE  Ended(d, a + 1, o)
  OBVIOUS
<1>1. /\ h \in Byte
      /\ h \in U!Small => o = U!Body(d, a, 1, U!Type(h))
      /\ h \in U!Fixed =>
           /\ o.at = a + 1
           /\ h = \hC0 => o.v = U!Nil
           /\ h = \hC1 => o.v = U!Raises
           /\ h = \hC2 => o.v = U!False
           /\ h = \hC3 => o.v = U!True
      /\ h \in U!Sized => o = U!Body(d, a + 1, U!Width(h), U!Type(h))
      /\ h \in U!Lengthy =>
           o = U!Prefixed(d, a + 1, U!LengthWidth(h), U!TypeByte(h), U!Type(h))
      /\ h \in U!Containers => o.v = U!SHORT /\ o.at = Len(d)
  BY SingleIs
<1>2. a + 1 \in 0..Len(d) /\ a + 1 \in (a + 1)..Len(d)  OBVIOUS
<1>3. /\ U!Type(h) \in Types
      /\ h \in U!Sized => U!Width(h) \in Nat
      /\ h \in U!Lengthy => U!LengthWidth(h) \in {1, 2, 4} /\ U!TypeByte(h) \in {0, 1}
  BY <1>1, HeadWidths
<1>4. CASE h \in U!Small
  <2>1. o.at = a + 1 /\ o.v.met = {}
    <3>1. a + 1 <= Len(d) /\ 1 \in Nat  OBVIOUS
    <3> QED BY <1>1, <1>3, <1>4, <3>1, BodyIs
  <2> QED BY <1>2, <2>1, EndedWhole
<1>5. CASE h \in U!Fixed
  <2>1. h \in {\hC0, \hC1, \hC2, \hC3}  BY <1>5 DEF U!Fixed
  <2>2. o.v.met \subseteq {"type", "wide"}
    BY <1>1, <1>5, <2>1 DEF U!Nil, U!Raises, U!False, U!True, U!Having, U!Value
  <2> QED BY <1>1, <1>2, <1>5, <2>2, EndedWhole
<1>6. CASE h \in U!Sized  BY <1>1, <1>2, <1>3, <1>6, BodyEnded
<1>7. CASE h \in U!Lengthy  BY <1>1, <1>2, <1>3, <1>7, PrefixedEnded
<1>8. CASE h \in U!Containers  BY <1>1, <1>2, <1>8, EndedShort
<1> QED BY <1>1, <1>4, <1>5, <1>6, <1>7, <1>8, HeadClasses DEF Heads

(* a container announces in none, one or two bytes *)
LEMMA ContainerWidth ==
  ASSUME NEW h \in U!Containers
  PROVE  /\ h \in Byte /\ U!LengthWidth(h) \in {0, 2, 4}
         /\ U!LengthWidth(h) = 0 <=> h \in \h80..\h9F
         /\ U!LengthWidth(h) = 2 <=> h \in {\hDC, \hDE}
         /\ U!LengthWidth(h) = 4 <=> h \in {\hDD, \hDF}
BY DEF U!Containers, U!Maps, U!FixMaps, U!FixLists, U!LengthWidth, Byte

(* it holds a number of values *)
LEMMA HeldNat ==
  ASSUME NEW d \in Seq(Byte), NEW a \in Nat, a < Len(d), d[a + 1] \in U!Containers,
         a + 1 + U!LengthWidth(d[a + 1]) <= Len(d)
  PROVE  U!Held(d, a) \in Nat
<1> SUFFICES ASSUME NEW h, h = d[a + 1], NEW w, w = U!LengthWidth(h),
                    NEW count, count = IF w = 0 THEN h % 16
                                       ELSE U!Number(SubSeq(d, a + 1 + 1, a + 1 + w))
             PROVE  (IF h \in U!Maps THEN 2 * count ELSE count) \in Nat
  BY DEF U!Held
<1>1. h \in Byte /\ w \in {0, 2, 4}  BY ContainerWidth
<1>2. count \in Nat
  <2>1. CASE w = 0
    <3>1. count = h % 16 /\ h \in Nat  BY <1>1, <2>1, ByteNat
    <3> QED BY <3>1
  <2>2. CASE w # 0
    <3>1. w \in {1, 2, 4} /\ a + 1 \in Nat /\ (a + 1) + w <= Len(d)  BY <1>1, <2>2
    <3>2. U!Number(SubSeq(d, (a + 1) + 1, (a + 1) + w)) \in Nat  BY <3>1, NumberNat
    <3> QED BY <2>2, <3>2
  <2> QED BY <2>1, <2>2
<1> QED BY <1>2

(* what a container met its values met *)
LEMMA FilledMet ==
  ASSUME NEW h, NEW items
  PROVE  LET v == U!Filled(h, items)
         IN  /\ U!Met(items) \subseteq v.met
             /\ v.met \subseteq U!Met(items) \union {"wide", "twice", "key"}
             /\ U!LengthWidth(h) = 4 => "wide" \in v.met
             /\ h \in U!Maps =>
                  v = U!MapOf(items, {mark \in {"wide"} : U!LengthWidth(h) = 4})
             /\ h \notin U!Maps => v.kind = "list" /\ v.bytes = << >> /\ v.items = items
<1> DEFINE wide == {mark \in {"wide"} : U!LengthWidth(h) = 4}
           again == {mark \in {"twice"} : U!NamesOneKeyTwice(items)}
           key == {mark \in {"key"} :
                     \E i \in U!KeyPlaces(items) : items[i].kind \in {"list", "map"}}
<1>1. CASE h \in U!Maps
  <2>1. U!Filled(h, items) = U!MapOf(items, wide)  BY <1>1 DEF U!Filled
  <2>2. U!MapOf(items, wide).met = U!Met(items) \union wide \union again \union key
    BY DEF U!MapOf
  <2>3. /\ wide \subseteq {"wide"} /\ again \subseteq {"twice"} /\ key \subseteq {"key"}
        /\ U!LengthWidth(h) = 4 => "wide" \in wide
    OBVIOUS
  <2> HIDE DEF wide, again, key
  <2>4. LET v == U!MapOf(items, wide)
        IN  /\ U!Met(items) \subseteq v.met
            /\ v.met \subseteq U!Met(items) \union {"wide", "twice", "key"}
            /\ U!LengthWidth(h) = 4 => "wide" \in v.met
    BY <2>2, <2>3
  <2> QED BY <1>1, <2>1, <2>4 DEF wide
<1>2. CASE h \notin U!Maps
  <2>1. U!Filled(h, items) = U!List(items, wide)  BY <1>2 DEF U!Filled
  <2> QED BY <1>2, <2>1 DEF U!List
<1> QED BY <1>1, <1>2

(* what reading n values at a place is, and where that ends *)
Good(d, a, r) ==
  /\ IsSeq(r.v) /\ r.at \in a..Len(d)
  /\ "cut" \in U!Met(r.v) => r.at = Len(d)
(* the reading is good from k on *)
Sound(d, f, k) == \A a \in k..Len(d) : \A n \in Nat : Good(d, a, f[a][n])

(* reading one value is good when reading further on is *)
LEMMA FirstIs ==
  ASSUME NEW d \in Seq(Byte), NEW a \in Nat, a < Len(d), NEW f
  PROVE  LET h == d[a + 1]
             b == a + 1 + U!LengthWidth(h)
             r == f[b][U!Held(d, a)]
             o == U!First(d, f, a)
         IN  /\ h \in Byte
             /\ h \in U!Containers /\ b <= Len(d) =>
                  o.v = U!Filled(h, r.v) /\ o.at = r.at /\ U!Held(d, a) \in Nat
             /\ ~(h \in U!Containers /\ b <= Len(d)) => o = U!Single(d, a)
<1> SUFFICES ASSUME NEW h, h = d[a + 1], NEW b, b = a + 1 + U!LengthWidth(h),
                    NEW r, r = f[b][U!Held(d, a)], NEW o, o = U!First(d, f, a)
             PROVE  /\ h \in Byte
                    /\ h \in U!Containers /\ b <= Len(d) =>
                         o.v = U!Filled(h, r.v) /\ o.at = r.at /\ U!Held(d, a) \in Nat
                    /\ ~(h \in U!Containers /\ b <= Len(d)) => o = U!Single(d, a)
  OBVIOUS
<1>1. h \in Byte
  <2>1. a + 1 \in 1..Len(d)  OBVIOUS
  <2> QED BY <2>1
<1>2. o = IF h \in U!Containers /\ b <= Len(d) THEN U!At(U!Filled(h, r.v), r.at)
          ELSE U!Single(d, a)
  BY Zenon DEF U!First
<1>3. h \in U!Containers /\ b <= Len(d) => U!Held(d, a) \in Nat  BY HeldNat
<1>4. CASE h \in U!Containers /\ b <= Len(d)
  <2>1. o = U!At(U!Filled(h, r.v), r.at)  BY <1>2, <1>4, Zenon
  <2>2. o.v = U!Filled(h, r.v) /\ o.at = r.at  BY <2>1 DEF U!At
  <2> QED BY <1>1, <1>3, <1>4, <2>2, Zenon
<1>5. CASE ~(h \in U!Containers /\ b <= Len(d))  BY <1>1, <1>2, <1>5, Zenon
<1> QED BY <1>4, <1>5, Zenon

LEMMA FirstGood ==
  ASSUME NEW d \in Seq(Byte), NEW a \in Nat, a < Len(d), NEW f, Sound(d, f, a + 1)
  PROVE  LET o == U!First(d, f, a)
         IN  /\ o.at \in (a + 1)..Len(d)
             /\ "cut" \in o.v.met => o.at = Len(d)
<1> SUFFICES ASSUME NEW h, h = d[a + 1], NEW b, b = a + 1 + U!LengthWidth(h),
                    NEW r, r = f[b][U!Held(d, a)], NEW o, o = U!First(d, f, a)
             PROVE  /\ o.at \in (a + 1)..Len(d)
                    /\ "cut" \in o.v.met => o.at = Len(d)
  OBVIOUS
<1>1. /\ h \in Byte
      /\ h \in U!Containers /\ b <= Len(d) =>
           o.v = U!Filled(h, r.v) /\ o.at = r.at /\ U!Held(d, a) \in Nat
      /\ ~(h \in U!Containers /\ b <= Len(d)) => o = U!Single(d, a)
  BY FirstIs, Zenon
<1>2. CASE h \in U!Containers /\ b <= Len(d)
  <2>1. U!LengthWidth(h) \in Nat
    <3>1. U!LengthWidth(h) \in {0, 2, 4}  BY <1>2, ContainerWidth, Zenon
    <3> QED BY <3>1
  <2>2. b \in (a + 1)..Len(d)  BY <1>2, <2>1
  <2>3. Good(d, b, r)  BY <1>1, <1>2, <2>2 DEF Sound
  <2>4. r.at \in (a + 1)..Len(d)  BY <2>2, <2>3 DEF Good
  <2>5. o.v.met \subseteq U!Met(r.v) \union {"wide", "twice", "key"}
    BY <1>1, <1>2, FilledMet
  <2> QED BY <1>1, <1>2, <2>3, <2>4, <2>5 DEF Good
<1>3. CASE ~(h \in U!Containers /\ b <= Len(d))
  <2>1. Ended(d, a + 1, o)  BY <1>1, <1>3, SingleEnded, Zenon
  <2> QED BY <2>1 DEF Ended
<1> QED BY <1>2, <1>3

(* n values are the first and the others *)
Split(d, a, n, one, rest, r) ==
  /\ Good(d, a, r)
  /\ n = 0 => r.v = << >> /\ r.at = a
  /\ n > 0 /\ a = Len(d) => r.v = <<U!SHORT>> /\ r.at = a
  /\ n > 0 /\ a < Len(d) =>
       /\ one.at \in (a + 1)..Len(d) /\ Good(d, one.at, rest)
       /\ r.v = <<one.v>> \o rest.v /\ r.at = rest.at
       /\ U!Met(r.v) = one.v.met \union U!Met(rest.v)

LEMMA OneMet == \A v : U!Met(<<v>>) = v.met /\ IsSeq(<<v>>)
<1> SUFFICES ASSUME NEW v PROVE U!Met(<<v>>) = v.met /\ IsSeq(<<v>>)
  OBVIOUS
<1>1. U!Met(<<v>>) = v.met  BY DEF U!Met
<1>2. <<v>> \in Seq({v})  OBVIOUS
<1>3. \E S : <<v>> \in Seq(S)  BY <1>2, Zenon
<1> QED BY <1>1, <1>3 DEF IsSeq

LEMMA NoneIsSeq == IsSeq(<< >>)
<1>1. << >> \in Seq({})  OBVIOUS
<1>2. \E S : << >> \in Seq(S)  BY <1>1, Zenon
<1> QED BY <1>2 DEF IsSeq

(* reading several, from reading one and reading further on *)
LEMMA ElementsIs ==
  ASSUME NEW d \in Seq(Byte), NEW a \in 0..Len(d), NEW n \in Nat, NEW f,
         Sound(d, f, a + 1)
  PROVE  Split(d, a, n, U!First(d, f, a), f[U!First(d, f, a).at][n - 1],
               U!Elements(d, f, a, n))
<1> SUFFICES ASSUME NEW one, one = U!First(d, f, a), NEW rest, rest = f[one.at][n - 1],
                    NEW r, r = U!Elements(d, f, a, n)
             PROVE  Split(d, a, n, one, rest, r)
  BY Zenon
<1>1. r = IF n = 0 THEN U!At(<< >>, a)
          ELSE IF a = Len(d) THEN U!At(<<U!SHORT>>, a)
          ELSE U!At(<<one.v>> \o rest.v, rest.at)
  BY Zenon DEF U!Elements
<1>2. CASE n = 0
  <2>1. r.v = << >> /\ r.at = a
    <3>1. r = U!At(<< >>, a)  BY <1>1, <1>2, Zenon
    <3> QED BY <3>1, AtIs, Zenon
  <2>2. Good(d, a, r)  BY <2>1, NoneIsSeq, NothingMet DEF Good
  <2> QED BY <1>2, <2>1, <2>2 DEF Split
<1>3. CASE n # 0 /\ a = Len(d)
  <2>1. r.v = <<U!SHORT>> /\ r.at = a
    <3>1. r = U!At(<<U!SHORT>>, a)  BY <1>1, <1>3, Zenon
    <3> QED BY <3>1, AtIs, Zenon
  <2>2. Good(d, a, r)
    <3>1. IsSeq(r.v)  BY <2>1, OneMet, Zenon
    <3>2. r.at \in a..Len(d) /\ r.at = Len(d)  BY <1>3, <2>1
    <3> QED BY <3>1, <3>2 DEF Good
  <2> QED BY <1>3, <2>1, <2>2 DEF Split
<1>4. CASE n # 0 /\ a # Len(d)
  <2>1. r.v = <<one.v>> \o rest.v /\ r.at = rest.at
    <3> DEFINE t == <<one.v>> \o rest.v
    <3>1. r = U!At(t, rest.at)  BY <1>1, <1>4, Zenon
    <3> HIDE DEF t
    <3>2. r.v = t /\ r.at = rest.at  BY <3>1 DEF U!At
    <3> QED BY <3>2 DEF t
  <2>2. a \in Nat /\ a < Len(d) /\ n - 1 \in Nat  BY <1>4
  <2>3. one.at \in (a + 1)..Len(d) /\ ("cut" \in one.v.met => one.at = Len(d))
    BY <2>2, FirstGood, Zenon
  <2>4. Good(d, one.at, rest)  BY <2>2, <2>3 DEF Sound
  <2>5. IsSeq(rest.v)  BY <2>4 DEF Good
  <2>6. U!Met(r.v) = one.v.met \union U!Met(rest.v)
    <3> SUFFICES ASSUME NEW ov, ov = one.v, NEW rv, rv = rest.v
                 PROVE  U!Met(<<ov>> \o rv) = ov.met \union U!Met(rv)
      BY <2>1
    <3> QED BY <2>5, MetJoin
  <2>7. IsSeq(r.v)
    <3> SUFFICES ASSUME NEW ov, ov = one.v, NEW rv, rv = rest.v
                 PROVE  IsSeq(<<ov>> \o rv)
      BY <2>1
    <3> QED BY <2>5, OneInFront
  <2>8. r.at \in a..Len(d)  BY <2>1, <2>2, <2>3, <2>4 DEF Good
  <2>9. "cut" \in U!Met(r.v) => r.at = Len(d)
    <3>1. "cut" \in U!Met(rest.v) => rest.at = Len(d)  BY <2>4 DEF Good
    <3>2. one.at = Len(d) => rest.at = Len(d)  BY <2>4 DEF Good
    <3> QED BY <2>1, <2>3, <2>6, <3>1, <3>2
  <2>10. Good(d, a, r)  BY <2>7, <2>8, <2>9 DEF Good
  <2> QED BY <1>4, <2>1, <2>3, <2>4, <2>6, <2>10 DEF Split
<1> QED BY <1>2, <1>3, <1>4

(* reading one looks further on only *)
LEMMA FirstUses ==
  ASSUME NEW d \in Seq(Byte), NEW a \in Nat, a < Len(d), NEW f, NEW g,
         \A b \in (a + 1)..Len(d) : f[b] = g[b]
  PROVE  U!First(d, f, a) = U!First(d, g, a)
<1> DEFINE h == d[a + 1]
           b == a + 1 + U!LengthWidth(h)
<1>1. U!First(d, f, a) = IF h \in U!Containers /\ b <= Len(d)
        THEN U!At(U!Filled(h, f[b][U!Held(d, a)].v), f[b][U!Held(d, a)].at)
        ELSE U!Single(d, a)
  BY Zenon DEF U!First
<1>2. U!First(d, g, a) = IF h \in U!Containers /\ b <= Len(d)
        THEN U!At(U!Filled(h, g[b][U!Held(d, a)].v), g[b][U!Held(d, a)].at)
        ELSE U!Single(d, a)
  BY Zenon DEF U!First
<1>3. CASE h \in U!Containers /\ b <= Len(d)
  <2>1. U!LengthWidth(h) \in {0, 2, 4}  BY <1>3, ContainerWidth, Zenon
  <2> HIDE DEF h
  <2>2. b \in (a + 1)..Len(d)  BY <1>3, <2>1
  <2>3. f[b] = g[b]  BY <2>2
  <2> HIDE DEF b
  <2> QED BY <1>1, <1>2, <1>3, <2>3, Zenon
<1>4. CASE ~(h \in U!Containers /\ b <= Len(d))
  <2> HIDE DEF h, b
  <2> QED BY <1>1, <1>2, <1>4, Zenon
<1> QED BY <1>3, <1>4

(* and so does reading several *)
LEMMA ElementsUses ==
  ASSUME NEW d \in Seq(Byte), NEW a \in 0..Len(d), NEW n, NEW f, NEW g,
         Sound(d, f, a + 1), \A b \in (a + 1)..Len(d) : f[b] = g[b]
  PROVE  U!Elements(d, f, a, n) = U!Elements(d, g, a, n)
<1>1. CASE n = 0 \/ a = Len(d)  BY <1>1, Zenon DEF U!Elements
<1>2. CASE n # 0 /\ a # Len(d)
  <2>1. a \in Nat /\ a < Len(d)  BY <1>2
  <2> SUFFICES ASSUME NEW one, one = U!First(d, f, a)
               PROVE  U!Elements(d, f, a, n) = U!Elements(d, g, a, n)
    OBVIOUS
  <2>2. one = U!First(d, g, a)  BY <2>1, FirstUses, Zenon
  <2>3. one.at \in (a + 1)..Len(d)  BY <2>1, FirstGood, Zenon
  <2>4. f[one.at] = g[one.at]  BY <2>3
  <2>5. U!Elements(d, f, a, n) = U!At(<<one.v>> \o f[one.at][n - 1].v, f[one.at][n - 1].at)
    BY <1>2, Zenon DEF U!Elements
  <2>6. U!Elements(d, g, a, n) = U!At(<<one.v>> \o g[one.at][n - 1].v, g[one.at][n - 1].at)
    BY <1>2, <2>2, Zenon DEF U!Elements
  <2> QED BY <2>4, <2>5, <2>6, Zenon
<1> QED BY <1>1, <1>2

(* the reading from k on *)
From(d, f, k) == f = [a \in k..Len(d) |-> [n \in Nat |-> U!Elements(d, f, a, n)]]

(* one place more *)
LEMMA FromAt ==
  ASSUME NEW d, NEW k, NEW f, From(d, f, k), NEW a \in k..Len(d), NEW n \in Nat
  PROVE  f[a][n] = U!Elements(d, f, a, n)
<1> DEFINE row(b) == [i \in Nat |-> U!Elements(d, f, b, i)]
<1>1. row(a)[n] = U!Elements(d, f, a, n)  OBVIOUS
<1>2. f = [b \in k..Len(d) |-> row(b)]  BY DEF From
<1> HIDE DEF row
<1>3. f[a] = row(a)  BY <1>2
<1> QED BY <1>1, <1>3

LEMMA FromIsSound ==
  ASSUME NEW d \in Seq(Byte), NEW k \in 0..Len(d), NEW f, From(d, f, k)
  PROVE  Sound(d, f, k)
<1> DEFINE bad(a) == ~ \A n \in Nat : Good(d, a, f[a][n])
           S == {j \in Nat : j <= Len(d) - k /\ bad(Len(d) - j)}
<1> SUFFICES ASSUME NEW a \in k..Len(d), bad(a) PROVE FALSE
  BY DEF Sound
<1>1. \A b \in k..Len(d) : \A n \in Nat : f[b][n] = U!Elements(d, f, b, n)
  BY FromAt
<1>2. Len(d) - a \in S
  <2>1. Len(d) - (Len(d) - a) = a  OBVIOUS
  <2>2. Len(d) - a \in Nat /\ Len(d) - a <= Len(d) - k  OBVIOUS
  <2> HIDE DEF bad
  <2> QED BY <2>1, <2>2
<1>3. PICK j \in S : \A i \in S : j <= i
  <2>1. S \in SUBSET Nat  OBVIOUS
  <2> HIDE DEF S
  <2> QED BY <1>2, <2>1, LeastOf
<1> DEFINE b == Len(d) - j
<1>4. b \in k..Len(d) /\ b \in 0..Len(d) /\ bad(b)
  <2> HIDE DEF bad
  <2> QED OBVIOUS
<1>5. Sound(d, f, b + 1)
  <2> SUFFICES ASSUME NEW c \in (b + 1)..Len(d), bad(c) PROVE FALSE
    BY DEF Sound
  <2>1. Len(d) - c \in S
    <3>1. Len(d) - (Len(d) - c) = c  BY <1>4
    <3>2. Len(d) - c \in Nat /\ Len(d) - c <= Len(d) - k  BY <1>4
    <3> HIDE DEF bad, b
    <3> QED BY <3>1, <3>2
  <2>2. j <= Len(d) - c  BY <1>3, <2>1
  <2>3. j \in Nat  BY <1>3
  <2> HIDE DEF bad, S
  <2> QED BY <1>4, <2>2, <2>3
<1>6. ASSUME NEW n \in Nat PROVE Good(d, b, f[b][n])
  <2> HIDE DEF b
  <2>1. f[b][n] = U!Elements(d, f, b, n)  BY <1>1, <1>4
  <2>2. Split(d, b, n, U!First(d, f, b), f[U!First(d, f, b).at][n - 1], f[b][n])
    BY <1>4, <1>5, <2>1, ElementsIs, Zenon
  <2> QED BY <2>2, Zenon DEF Split
<1> QED BY <1>4, <1>6

(* the recursion has a solution at every place, the last first *)
LEMMA FromExists ==
  ASSUME NEW d \in Seq(Byte)
  PROVE  \E f : From(d, f, 0)
<1> DEFINE S == {k \in 0..Len(d) : \E f : From(d, f, k)}
<1>1. Len(d) \in S
  <2> DEFINE e == [a \in Len(d)..Len(d) |-> [n \in Nat |->
                     IF n = 0 THEN U!At(<< >>, a) ELSE U!At(<<U!SHORT>>, a)]]
  <2>1. \A a \in Len(d)..Len(d) : a = Len(d)  OBVIOUS
  <2>2. \A f : \A a \in Len(d)..Len(d) : \A n \in Nat :
          U!Elements(d, f, a, n) = IF n = 0 THEN U!At(<< >>, a) ELSE U!At(<<U!SHORT>>, a)
    BY <2>1, Zenon DEF U!Elements
  <2>3. From(d, e, Len(d))  BY <2>2, Zenon DEF From
  <2>4. Len(d) \in 0..Len(d)  OBVIOUS
  <2> QED BY <2>3, <2>4, Zenon
<1>2. S \in SUBSET Nat  OBVIOUS
<1> HIDE DEF S
<1>3. PICK k \in S : \A j \in S : k <= j  BY <1>1, <1>2, LeastOf
<1>4. k \in 0..Len(d) /\ \E f : From(d, f, k)  BY DEF S
<1>5. PICK f : From(d, f, k)  BY <1>4
<1>6. CASE k = 0  BY <1>5, <1>6
<1>7. CASE k # 0
  <2> DEFINE a0 == k - 1
             g == [a \in a0..Len(d) |->
                     IF a = a0 THEN [n \in Nat |-> U!Elements(d, f, a, n)] ELSE f[a]]
  <2>1. a0 \in 0..Len(d) /\ a0 < k /\ a0 + 1 = k  BY <1>4, <1>7
  <2>2. Sound(d, f, k)  BY <1>4, <1>5, FromIsSound
  <2>3. \A b \in k..Len(d) : f[b] = g[b]
    <3> SUFFICES ASSUME NEW b \in k..Len(d) PROVE f[b] = g[b]
      OBVIOUS
    <3>1. b \in a0..Len(d) /\ b # a0  BY <1>4, <2>1
    <3> QED BY <3>1
  <2>4. ASSUME NEW a \in a0..Len(d)
        PROVE  g[a] = [n \in Nat |-> U!Elements(d, g, a, n)]
    <3>1. a \in 0..Len(d) /\ (a = a0 \/ a \in k..Len(d))  BY <1>4, <2>1
    <3>2. g[a] = [n \in Nat |-> U!Elements(d, f, a, n)]
      <4>1. CASE a = a0  BY <4>1
      <4>2. CASE a # a0
        <5>1. a \in k..Len(d)  BY <3>1, <4>2
        <5>2. f[a] = [n \in Nat |-> U!Elements(d, f, a, n)]  BY <1>5, <5>1 DEF From
        <5> QED BY <2>3, <5>1, <5>2
      <4> QED BY <4>1, <4>2
    <3> HIDE DEF g
    <3>3. Sound(d, f, a + 1)
      <4> SUFFICES ASSUME NEW b \in (a + 1)..Len(d) PROVE b \in k..Len(d)
        BY <2>2 DEF Sound
      <4> QED BY <1>4, <2>1, <3>1
    <3>4. \A b \in (a + 1)..Len(d) : f[b] = g[b]
      <4> SUFFICES ASSUME NEW b \in (a + 1)..Len(d) PROVE b \in k..Len(d)
        BY <2>3
      <4> QED BY <1>4, <2>1, <3>1
    <3>5. \A n : U!Elements(d, f, a, n) = U!Elements(d, g, a, n)
      BY <3>1, <3>3, <3>4, ElementsUses, Zenon
    <3> QED BY <3>2, <3>5, Zenon
  <2>5. From(d, g, a0)
    <3>1. g = [a \in a0..Len(d) |-> g[a]]  OBVIOUS
    <3> HIDE DEF g
    <3>2. [a \in a0..Len(d) |-> g[a]] = [a \in a0..Len(d) |-> [n \in Nat |-> U!Elements(d, g, a, n)]]
      BY <2>4, Zenon
    <3> QED BY <3>1, <3>2, Zenon DEF From
  <2> HIDE DEF g
  <2>6. a0 \in S  BY <2>1, <2>5 DEF S
  <2>7. k <= a0  BY <1>3, <2>6
  <2> QED BY <1>4, <2>1, <2>7
<1> QED BY <1>6, <1>7

(* the reading exists and is good everywhere *)
LEMMA ReadingIs ==
  ASSUME NEW d \in Seq(Byte)
  PROVE  From(d, U!Reading(d), 0)
<1>1. \E f : f = [a \in 0..Len(d) |-> [n \in Nat |-> U!Elements(d, f, a, n)]]
  BY FromExists, Zenon DEF From
<1>2. U!Reading(d) = CHOOSE f : f = [a \in 0..Len(d) |-> [n \in Nat |-> U!Elements(d, f, a, n)]]
  BY Zenon DEF U!Reading
<1> QED BY <1>1, <1>2, Zenon DEF From

(* what is read at a place is the first value and the others behind it *)
LEMMA ReadingSplit ==
  ASSUME NEW d \in Seq(Byte), NEW f, f = U!Reading(d), NEW a \in 0..Len(d), NEW n \in Nat
  PROVE  Split(d, a, n, U!First(d, f, a), f[U!First(d, f, a).at][n - 1], f[a][n])
<1>1. From(d, f, 0)  BY ReadingIs, Zenon
<1>2. 0 \in 0..Len(d)  OBVIOUS
<1>3. Sound(d, f, 0)  BY <1>1, <1>2, FromIsSound
<1>4. Sound(d, f, a + 1)
  <2> SUFFICES ASSUME NEW b \in (a + 1)..Len(d) PROVE b \in 0..Len(d)
    BY <1>3 DEF Sound
  <2> QED OBVIOUS
<1>5. f[a][n] = U!Elements(d, f, a, n)  BY <1>1, FromAt
<1> QED BY <1>4, <1>5, ElementsIs, Zenon

-----------------------------------------------------------------------------
(* One step over a value is one value read. *)

(* a cursor moves by what it takes or is refused *)
LEMMA TakeIs ==
  ASSUME NEW t \in Seq(Byte), NEW c, Inside(c, t), ~c.bad, NEW n \in Nat
  PROVE  LET e == Take(c, n)
         IN  /\ Inside(e, t)
             /\ e.bad <=> c.p + n > Len(t)
             /\ ~e.bad => e.p = c.p + n
             /\ Refused(c, n) <=> c.p + n > Len(t)
<1>1. Refused(c, n) <=> c.p + n > Len(t)  BY DEF Refused, Inside, Cursor
<1>2. Inside(Take(c, n), t)  BY TakeOnward DEF Onward
<1>3. CASE Refused(c, n)
  <2>1. Take(c, n).bad  BY <1>3 DEF Take, Bad
  <2> QED BY <1>1, <1>2, <1>3, <2>1
<1>4. CASE ~Refused(c, n)
  <2>1. ~Take(c, n).bad /\ Take(c, n).p = c.p + n  BY <1>4 DEF Take, Moved
  <2> QED BY <1>1, <1>2, <1>4, <2>1
<1> QED BY <1>3, <1>4

(* the head byte of both readers *)
LEMMA HeadIs ==
  ASSUME NEW t \in Seq(Byte), NEW c, Inside(c, t), ~c.bad, c.p < Len(t)
  PROVE  /\ Head1(t, c) = t[c.p + 1] /\ t[c.p + 1] \in Byte
         /\ Inside(Take(c, 1), t) /\ ~Take(c, 1).bad /\ Take(c, 1).p = c.p + 1
<1>1. c.p \in Nat /\ ~(c.p + 1 > Len(t))  BY DEF Inside, Cursor
<1>2. /\ Inside(Take(c, 1), t) /\ ~Take(c, 1).bad /\ Take(c, 1).p = c.p + 1
      /\ ~Refused(c, 1)
  BY <1>1, TakeIs
<1>3. t[c.p + 1] \in Byte
  <2>1. c.p + 1 \in 1..Len(t)  BY <1>1
  <2> QED BY <2>1
<1> QED BY <1>2, <1>3 DEF Head1

(* the length of both readers *)
LEMMA LengthIs ==
  ASSUME NEW t \in Seq(Byte), NEW c, Inside(c, t), ~c.bad, NEW w \in {1, 2},
         c.p + w <= Len(t)
  PROVE  /\ Length(t, c, w) = U!Number(SubSeq(t, c.p + 1, c.p + w))
         /\ Length(t, c, w) \in Nat
<1>1. c.p \in Nat  BY DEF Inside, Cursor
<1>2. ~Refused(c, w)
  <2>1. w \in Nat /\ ~(c.p + w > Len(t))  BY <1>1
  <2> QED BY <2>1, TakeIs
<1>3. w \in {1, 2, 4}  OBVIOUS
<1>4. /\ w = 1 => U!Number(SubSeq(t, c.p + 1, c.p + w)) = t[c.p + 1]
      /\ w = 2 => U!Number(SubSeq(t, c.p + 1, c.p + w)) = 256 * t[c.p + 1] + t[c.p + 2]
  BY <1>1, <1>3, NumberNat
<1>5. Length(t, c, w) = IF w = 1 THEN t[c.p + 1] ELSE 256 * t[c.p + 1] + t[c.p + 2]
  BY <1>2, Zenon DEF Length
<1>6. Length(t, c, w) = U!Number(SubSeq(t, c.p + 1, c.p + w))
  BY <1>4, <1>5
<1> QED BY <1>6, LengthNat

(* a count in the bytes behind a head *)
LEMMA CountedIs ==
  ASSUME NEW t \in Seq(Byte), NEW c, Inside(c, t), ~c.bad, NEW w \in {1, 2}, NEW x \in {0, 1},
         NEW n, n = U!Number(SubSeq(t, c.p + 1, c.p + w))
  PROVE  LET e == Counted(t, c, w, x)
         IN  /\ c.p + w > Len(t) => e.bad
             /\ c.p + w <= Len(t) =>
                  /\ e.bad <=> c.p + w + x + n > Len(t)
                  /\ ~e.bad => e.p = c.p + w + x + n
<1> c.p \in Nat  BY DEF Inside, Cursor
<1>1. CASE c.p + w > Len(t)
  <2>1. Take(c, w).bad  BY <1>1, TakeIs
  <2>2. Counted(t, c, w, x).bad  BY <2>1 DEF Counted, Take, Refused, Bad
  <2> QED BY <1>1, <2>2
<1>2. CASE c.p + w <= Len(t)
  <2>1. Length(t, c, w) = n /\ n \in Nat  BY <1>2, LengthIs
  <2>2. /\ Inside(Take(c, w), t) /\ ~Take(c, w).bad /\ Take(c, w).p = c.p + w
    <3>1. w \in Nat /\ ~(c.p + w > Len(t))  BY <1>2
    <3> QED BY ONLY t \in Seq(Byte), Inside(c, t), ~c.bad, <3>1, TakeIs
  <2>3. Counted(t, c, w, x) = Take(Take(c, w), x + n)  BY <2>1 DEF Counted
  <2>4. x + n \in Nat /\ (c.p + w) + (x + n) = c.p + w + x + n  BY <2>1
  <2>5. LET e == Take(Take(c, w), x + n)
        IN  /\ e.bad <=> Take(c, w).p + (x + n) > Len(t)
            /\ ~e.bad => e.p = Take(c, w).p + (x + n)
    BY <2>2, <2>4, TakeIs
  <2> QED BY <1>2, <2>2, <2>3, <2>4, <2>5
<1> QED BY <1>1, <1>2

(* both readers sort the head bytes alike *)
LEMMA SortedAlike ==
  ASSUME NEW h \in Byte
  PROVE  /\ h \in U!Small => h \in Bare
         /\ h \in U!Fixed => h \in Bare \/ h = \hC1
         /\ h \in U!Sized => h \in Sized /\ BodyWidth(h) = U!Width(h)
         /\ h \in U!Lengthy =>
              \/ /\ h \in Length1 \union Length2
                 /\ U!LengthWidth(h) = IF h \in Length1 THEN 1 ELSE 2
                 /\ TypeByte(h) = U!TypeByte(h)
              \/ /\ h \in {\hC6, \hC9, \hDB}
                 /\ U!LengthWidth(h) = 4
         /\ h \in U!Containers =>
              \/ h \in FixArray \union FixMap \union {Array16, Map16}
              \/ h \in {\hDD, \hDF}
<1> h \in 0..255  BY DEF Byte
<1>1. h \in U!Small => h \in Bare  BY DEF U!Small, Bare
<1>2. h \in U!Fixed => h \in Bare \/ h = \hC1  BY DEF U!Fixed, Bare
<1>3. ASSUME h \in U!Sized PROVE h \in Sized /\ BodyWidth(h) = U!Width(h)
  <2>1. CASE h \in \hA0..\hBF
    <3>1. h \in FixStr  BY <2>1 DEF FixStr
    <3>2. BodyWidth(h) = h - \hA0  BY <3>1, ClassesDisjoint DEF BodyWidth
    <3>3. U!Width(h) = h - \hA0  BY <2>1 DEF U!Width
    <3> QED BY <3>1, <3>2, <3>3 DEF Sized
  <2>2. CASE h \in \hD4..\hD8
    <3>1. h \in FixExt  BY <2>2 DEF FixExt
    <3>2. BodyWidth(h) = U!ExtWidth(h)
      <4>1. h \notin FixStr  BY <2>2 DEF FixStr
      <4>2. BodyWidth(h) = 1 + <<1, 2, 4, 8, 16>>[h - \hD3]
        BY <3>1, <4>1, ClassesDisjoint DEF BodyWidth
      <4> QED BY <4>2 DEF U!ExtWidth
    <3>3. h \notin \hA0..\hBF /\ h # \hCA /\ h # \hCB /\ h \notin \hCC..\hD3  BY <2>2
    <3>4. U!Width(h) = U!ExtWidth(h)  BY <3>3 DEF U!Width
    <3> QED BY <3>1, <3>2, <3>4 DEF Sized
  <2>3. CASE h \in {\hCA, \hCB}
    <3>1. U!Width(h) = IF h = \hCA THEN 4 ELSE 8  BY <2>3 DEF U!Width
    <3>2. h \in FourByte \union EightByte
          /\ (h \in FourByte <=> h = \hCA)
          /\ h \notin FixStr \union FixExt \union OneByte \union TwoByte
      BY <2>3 DEF FourByte, EightByte, FixStr, FixExt, OneByte, TwoByte
    <3>3. BodyWidth(h) = IF h = \hCA THEN 4 ELSE 8
      BY <3>2, ClassesDisjoint DEF BodyWidth
    <3> QED BY <3>1, <3>2, <3>3 DEF Sized
  <2>4. CASE h \in \hCC..\hD3
    <3>1. h \notin \hA0..\hBF /\ h # \hCA /\ h # \hCB  BY <2>4
    <3>2. U!Width(h) = U!IntWidth(h)  BY <2>4, <3>1 DEF U!Width
    <3>3. U!IntWidth(h) = CASE h \in OneByte -> 1 [] h \in TwoByte -> 2
                            [] h \in FourByte -> 4 [] h \in EightByte -> 8
      <4>1. /\ h \in OneByte => U!IntWidth(h) = 1
            /\ h \in TwoByte => U!IntWidth(h) = 2
            /\ h \in FourByte => U!IntWidth(h) = 4
            /\ h \in EightByte => U!IntWidth(h) = 8
        BY <2>4 DEF OneByte, TwoByte, FourByte, EightByte, U!IntWidth
      <4>2. h \in OneByte \union TwoByte \union FourByte \union EightByte
        BY <2>4 DEF OneByte, TwoByte, FourByte, EightByte
      <4> QED BY <4>1, <4>2, ClassesDisjoint
    <3>4. h \in OneByte \union TwoByte \union FourByte \union EightByte
          /\ h \notin FixStr \union FixExt
      BY <2>4 DEF OneByte, TwoByte, FourByte, EightByte, FixStr, FixExt
    <3>5. BodyWidth(h) = CASE h \in OneByte -> 1 [] h \in TwoByte -> 2
                            [] h \in FourByte -> 4 [] h \in EightByte -> 8
      BY <3>4, ClassesDisjoint DEF BodyWidth
    <3> QED BY <3>2, <3>3, <3>4, <3>5 DEF Sized
  <2> QED BY <1>3, <2>1, <2>2, <2>3, <2>4 DEF U!Sized
<1>4. ASSUME h \in U!Lengthy
      PROVE  \/ /\ h \in Length1 \union Length2
                /\ U!LengthWidth(h) = IF h \in Length1 THEN 1 ELSE 2
                /\ TypeByte(h) = U!TypeByte(h)
             \/ /\ h \in {\hC6, \hC9, \hDB}
                /\ U!LengthWidth(h) = 4
  BY <1>4 DEF U!Lengthy, U!LengthWidth, U!TypeByte, Length1, Length2, TypeByte, Ext
<1>5. h \in U!Containers => \/ h \in FixArray \union FixMap \union {Array16, Map16}
                            \/ h \in {\hDD, \hDF}
  BY DEF U!Containers, U!Maps, U!FixMaps, U!FixLists, FixArray, FixMap, Array16, Map16
<1> QED BY <1>1, <1>2, <1>3, <1>4, <1>5

(* the value stepped over is the value the generator reads, or both are cut *)
Alike(t, a, s, one, r) ==
  /\ s.bad => one.v.met \intersect {"cut", "type", "wide"} # {}
  /\ ~s.bad => /\ s.p \in (a + 1)..Len(t)
               /\ one.at = r.at
               /\ U!Met(r.v) \subseteq one.v.met
               /\ U!Met(r.v) \intersect {"cut", "type"} = {} => Wholly(one.v)

(* for a value that holds no other *)
LEMMA AlikeAlone ==
  ASSUME NEW t, NEW a, NEW s, NEW one, NEW r,
         s.bad => one.v.met \intersect {"cut", "type", "wide"} # {},
         ~s.bad => s.p \in (a + 1)..Len(t) /\ one.at = s.p /\ Wholly(one.v),
         r.v = << >>, r.at = s.p
  PROVE  Alike(t, a, s, one, r)
BY NothingMet DEF Alike

LEMMA NoElements ==
  ASSUME NEW t, NEW c, NEW h \in Byte, h \notin U!Containers
  PROVE  Elements(t, c, h) = 0
<1>1. h \notin FixArray \union FixMap \union {Array16, Map16}
  BY DEF U!Containers, U!Maps, U!FixMaps, U!FixLists, FixArray, FixMap, Array16, Map16, Byte
<1> QED BY <1>1 DEF Elements

LEMMA NoRule ==
  ASSUME NEW t, NEW c, NEW h \in {\hC1, \hC6, \hC9, \hDB, \hDD, \hDF}
  PROVE  Stepped(t, c, h).bad
<1>1. h \notin Bare \union FixArray \union FixMap /\ h \notin Sized
  BY DEF Bare, FixArray, FixMap, Sized, FixStr, FixExt, OneByte, TwoByte, FourByte, EightByte
<1>2. h \notin Length1 /\ h \notin Length2 /\ h \notin {Array16, Map16}
  BY DEF Length1, Length2, Array16, Map16
<1>3. Stepped(t, c, h) = Bad(c)  BY <1>1, <1>2, Zenon DEF Stepped
<1> QED BY <1>3 DEF Bad

LEMMA ReadingNone ==
  ASSUME NEW t \in Seq(Byte), NEW f, f = U!Reading(t), NEW a \in 0..Len(t)
  PROVE  f[a][0].v = << >> /\ f[a][0].at = a
<1>1. 0 \in Nat  OBVIOUS
<1>2. Split(t, a, 0, U!First(t, f, a), f[U!First(t, f, a).at][0 - 1], f[a][0])
  BY <1>1, ReadingSplit, Zenon
<1> QED BY <1>2, Zenon DEF Split

(* one that has a type *)
LEMMA StepsAlikeAlone ==
  ASSUME NEW t \in Seq(Byte), NEW c, Inside(c, t), ~c.bad, c.p < Len(t),
         NEW h, h = t[c.p + 1], h \notin U!Containers,
         NEW f, f = U!Reading(t),
         NEW s, s = Stepped(t, Take(c, 1), h)
  PROVE  /\ Elements(t, Take(c, 1), h) = 0
         /\ Alike(t, c.p, s, U!First(t, f, c.p), f[s.p][0])
<1> DEFINE a == c.p
           c1 == Take(c, 1)
<1>1. /\ h \in Byte /\ Inside(c1, t) /\ ~c1.bad /\ c1.p = a + 1
  BY HeadIs
<1>2. a \in Nat /\ a < Len(t)  BY DEF Inside, Cursor
<1>3. Elements(t, c1, h) = 0  BY <1>1, NoElements
<1>4. U!First(t, f, a) = U!Single(t, a)
  BY <1>2, FirstIs
<1>5. Inside(s, t)  BY <1>1, SteppedOnward DEF Onward
<1>6. f[s.p][0].v = << >> /\ f[s.p][0].at = s.p
  <2>1. s.p \in 0..Len(t) /\ 0 \in Nat  BY <1>5 DEF Inside
  <2> QED BY <2>1, ReadingNone
<1> SUFFICES ASSUME NEW o, o = U!Single(t, a)
             PROVE  /\ s.bad => o.v.met \intersect {"cut", "type", "wide"} # {}
                    /\ ~s.bad => s.p \in (a + 1)..Len(t) /\ o.at = s.p /\ Wholly(o.v)
  BY <1>3, <1>4, <1>6, AlikeAlone
<1>7. /\ h \in U!Small => o = U!Body(t, a, 1, U!Type(h))
      /\ h \in U!Fixed =>
           /\ o.at = a + 1
           /\ h = \hC0 => o.v = U!Nil
           /\ h = \hC1 => o.v = U!Raises
           /\ h = \hC2 => o.v = U!False
           /\ h = \hC3 => o.v = U!True
      /\ h \in U!Sized => o = U!Body(t, a + 1, U!Width(h), U!Type(h))
      /\ h \in U!Lengthy =>
           o = U!Prefixed(t, a + 1, U!LengthWidth(h), U!TypeByte(h), U!Type(h))
  BY <1>2, SingleIs
<1>8. U!Type(h) \in Types  BY <1>1, HeadWidths
<1>9. \A b \in Nat, n \in Nat : b + n <= Len(t) =>
         LET r == U!Body(t, b, n, U!Type(h)) IN r.at = b + n /\ r.v.met = {}
  BY <1>8, BodyIs
<1>10. a + 1 \in Nat /\ a + 1 <= Len(t) /\ a + 1 \in (a + 1)..Len(t)  BY <1>2
<1>11. CASE h \in U!Small
  <2>1. h \in Bare  BY <1>1, <1>11, SortedAlike
  <2>2. s = c1  BY <1>1, <2>1, ClassesDisjoint, ByteNat DEF Stepped
  <2>3. o.at = a + 1 /\ o.v.met = {}  BY <1>2, <1>7, <1>9, <1>10, <1>11
  <2> QED BY <1>1, <1>10, <2>2, <2>3 DEF Wholly
<1>12. CASE h \in U!Fixed
  <2>1. h \in Bare \/ h = \hC1  BY <1>1, <1>12, SortedAlike
  <2>2. CASE h = \hC1
    <3>2. s.bad  BY <2>2, NoRule
    <3>3. o.v.met = {"type"}  BY <1>7, <1>12, <2>2 DEF U!Raises, U!Having, U!Value
    <3> QED BY <3>2, <3>3
  <2>3. CASE h # \hC1
    <3>1. s = c1  BY <1>1, <2>1, <2>3, ClassesDisjoint, ByteNat DEF Stepped
    <3>2. h \in {\hC0, \hC2, \hC3}  BY <1>12, <2>3 DEF U!Fixed
    <3>3. o.v.met = {}  BY <1>7, <1>12, <3>2 DEF U!Nil, U!False, U!True, U!Value
    <3> QED BY <1>1, <1>7, <1>10, <1>12, <3>1, <3>3 DEF Wholly
  <2> QED BY <2>2, <2>3
<1>13. CASE h \in U!Sized
  <2>1. h \in Sized /\ BodyWidth(h) = U!Width(h) /\ U!Width(h) \in Nat
    BY <1>1, <1>13, SortedAlike, HeadWidths
  <2>2. s = Take(c1, U!Width(h))  BY <1>1, <2>1, ClassesDisjoint, ByteNat DEF Stepped
  <2>3. /\ s.bad <=> (a + 1) + U!Width(h) > Len(t)
        /\ ~s.bad => s.p = (a + 1) + U!Width(h)
    <3> HIDE DEF c1
    <3>1. LET e == Take(c1, U!Width(h))
          IN  /\ e.bad <=> c1.p + U!Width(h) > Len(t)
              /\ ~e.bad => e.p = c1.p + U!Width(h)
      BY <1>1, <2>1, TakeIs
    <3> QED BY <1>1, <2>2, <3>1
  <2>4. CASE s.bad
    <3>1. o.v = U!SHORT  BY <1>7, <1>8, <1>10, <1>13, <2>1, <2>3, <2>4, BodyIs
    <3> QED BY <2>4, <3>1, ShortIs
  <2>5. CASE ~s.bad
    <3>1. (a + 1) + U!Width(h) <= Len(t) /\ (a + 1) + U!Width(h) \in (a + 1)..Len(t)
      BY <1>10, <2>1, <2>3, <2>5
    <3>2. o.at = (a + 1) + U!Width(h) /\ o.v.met = {}  BY <1>7, <1>9, <1>10, <1>13, <2>1, <3>1
    <3> QED BY <2>3, <2>5, <3>1, <3>2 DEF Wholly
  <2> QED BY <2>4, <2>5
<1>14. CASE h \in U!Lengthy
  <2> DEFINE w == U!LengthWidth(h)
             x == U!TypeByte(h)
             n == U!Number(SubSeq(t, (a + 1) + 1, (a + 1) + w))
  <2>1. w \in {1, 2, 4} /\ x \in {0, 1}  BY <1>1, <1>14, HeadWidths
  <2>2. Behind(t, a + 1, w, x, U!Type(h), n, o)
    BY <1>7, <1>8, <1>10, <1>14, <2>1, PrefixedIs
  <2>3. CASE h \in {\hC6, \hC9, \hDB} /\ w = 4
    <3>2. s.bad  BY <2>3, NoRule
    <3>3. o.v = U!SHORT \/ o.v.met = {"wide"}
      <4> HIDE DEF w, x, n
      <4> QED BY <1>10, <2>1, <2>2, <2>3 DEF Behind
    <3> QED BY <3>2, <3>3, ShortIs
  <2>4. CASE /\ h \in Length1 \union Length2
             /\ w = IF h \in Length1 THEN 1 ELSE 2
             /\ TypeByte(h) = x
    <3>1. w \in {1, 2}  BY <2>4
    <3>2. s = Counted(t, c1, w, x)
      <4>1. h \notin Bare \union FixArray \union FixMap /\ h \notin Sized
            /\ (h \in Length1 => h \notin Length2)
        BY <1>1, <2>4, ClassesDisjoint, ByteNat
      <4>2. CASE h \in Length1
        <5>1. s = Counted(t, c1, 1, TypeByte(h))
          BY <4>1, <4>2, <1>1, ClassesDisjoint, ByteNat DEF Stepped
        <5> QED BY <2>4, <4>2, <5>1
      <4>3. CASE h \notin Length1
        <5>1. s = Counted(t, c1, 2, TypeByte(h))
          BY <2>4, <4>1, <4>3, <1>1, ClassesDisjoint, ByteNat DEF Stepped
        <5> QED BY <2>4, <4>3, <5>1
      <4> QED BY <4>2, <4>3
    <3> DEFINE e == (a + 1) + w + x + n
    <3>3. /\ (a + 1) + w > Len(t) => s.bad
          /\ (a + 1) + w <= Len(t) =>
               /\ s.bad <=> e > Len(t)
               /\ ~s.bad => s.p = e
      BY <1>1, <2>1, <3>1, <3>2, CountedIs
    <3> HIDE DEF w, x, n
    <3>4. CASE s.bad
      <4>1. o.v = U!SHORT
        BY <1>10, <2>1, <2>2, <3>3, <3>4 DEF Behind
      <4> QED BY <3>4, <4>1, ShortIs
    <3>5. CASE ~s.bad
      <4>1. (a + 1) + w <= Len(t) /\ ~(e > Len(t)) /\ s.p = e  BY <1>10, <2>1, <3>3, <3>5
      <4>2. n \in Nat /\ ~((a + 1) + w > Len(t))  BY <1>10, <2>1, <2>2, <4>1 DEF Behind
      <4>3. e <= Len(t) /\ e \in (a + 1)..Len(t)  BY <1>10, <2>1, <4>1, <4>2
      <4>4. o.at = e /\ o.v.met \subseteq {"wide"}
        BY <2>2, <4>1, <4>3 DEF Behind
      <4> QED BY <3>5, <4>1, <4>3, <4>4 DEF Wholly
    <3> QED BY <3>4, <3>5
  <2> QED BY <1>1, <1>14, <2>3, <2>4, SortedAlike
<1>15. h \in U!Small \union U!Fixed \union U!Sized \union U!Lengthy
  BY <1>1, HeadClasses DEF Heads
<1> QED BY <1>11, <1>12, <1>13, <1>14, <1>15

(* the heads of containers *)
LEMMA ContainerHeads ==
  ASSUME NEW h \in Byte
  PROVE  /\ h \in FixMap => h \in U!Maps /\ h \notin FixArray /\ h % 16 = h - \h80
         /\ h \in FixArray => h \notin U!Maps /\ h \notin FixMap /\ h % 16 = h - \h90
         /\ h \in FixArray \union FixMap =>
              U!LengthWidth(h) = 0 /\ h # Array16 /\ h # Map16
         /\ h \in {Array16, Map16} =>
              /\ U!LengthWidth(h) = 2 /\ h \notin FixArray \union FixMap
              /\ h \in U!Maps <=> h = Map16
         /\ Array16 # Map16
<1> h \in Nat /\ h <= 255  BY DEF Byte
<1>1. h \in FixMap => h \in U!Maps /\ h \notin FixArray /\ h % 16 = h - \h80
  BY DEF FixMap, FixArray, U!Maps, U!FixMaps
<1>2. h \in FixArray => h \notin U!Maps /\ h \notin FixMap /\ h % 16 = h - \h90
  BY DEF FixMap, FixArray, U!Maps, U!FixMaps
<1>3. h \in FixArray \union FixMap => h \in \h80..\h9F /\ h # Array16 /\ h # Map16
  BY DEF FixMap, FixArray, Array16, Map16
<1>4. h \in \h80..\h9F => U!LengthWidth(h) = 0
  <2>1. h \in \h80..\h9F => h \in U!Containers
    BY DEF U!Containers, U!Maps, U!FixMaps, U!FixLists
  <2> QED BY <2>1, ContainerWidth
<1>5. h \in {Array16, Map16} =>
        /\ U!LengthWidth(h) = 2 /\ h \notin FixArray \union FixMap
        /\ h \in U!Maps <=> h = Map16
  BY DEF FixMap, FixArray, Array16, Map16, U!Maps, U!FixMaps, U!LengthWidth
<1>6. Array16 # Map16  BY DEF Array16, Map16
<1> QED BY <1>1, <1>2, <1>3, <1>4, <1>5, <1>6

(* both readers count what a container holds alike *)
LEMMA HeldAlike ==
  ASSUME NEW t \in Seq(Byte), NEW c, Inside(c, t), ~c.bad, c.p < Len(t),
         NEW h, h = t[c.p + 1], h \in FixArray \union FixMap \union {Array16, Map16},
         NEW s, s = Stepped(t, Take(c, 1), h), NEW b, b = c.p + 1 + U!LengthWidth(h)
  PROVE  /\ s.bad <=> b > Len(t)
         /\ ~s.bad => s.p = b /\ Elements(t, Take(c, 1), h) = U!Held(t, c.p)
<1> DEFINE a == c.p
           c1 == Take(c, 1)
<1>1. /\ h \in Byte /\ Inside(c1, t) /\ ~c1.bad /\ c1.p = a + 1
  BY HeadIs
<1>2. a \in Nat /\ a < Len(t)  BY DEF Inside, Cursor
<1>3. CASE h \in FixArray \union FixMap
  <2>1. /\ U!LengthWidth(h) = 0 /\ h # Array16 /\ h # Map16
        /\ h \in U!Maps <=> h \in FixMap
    BY <1>1, <1>3, ContainerHeads
  <2>2. s = c1  BY <1>1, <1>3, ClassesDisjoint, ByteNat DEF Stepped
  <2>3. U!Held(t, a) = IF h \in FixMap THEN 2 * (h % 16) ELSE h % 16
    BY <2>1, Zenon DEF U!Held
  <2>4. Elements(t, c1, h) = IF h \in FixMap THEN 2 * (h - \h80) ELSE h - \h90
    <3>1. CASE h \in FixMap
      <4>1. h \notin FixArray  BY <1>1, <3>1, ContainerHeads
      <4> QED BY <2>1, <3>1, <4>1, Zenon DEF Elements
    <3>2. CASE h \notin FixMap
      <4>1. h \in FixArray  BY <1>3, <3>2
      <4> QED BY <2>1, <3>2, <4>1, Zenon DEF Elements
    <3> QED BY <3>1, <3>2
  <2>5. h % 16 = IF h \in FixMap THEN h - \h80 ELSE h - \h90
    BY <1>1, <1>3, ContainerHeads
  <2>6. b = a + 1 /\ ~(b > Len(t))  BY <1>2, <2>1
  <2> QED BY <1>1, <2>2, <2>3, <2>4, <2>5, <2>6
<1>4. CASE h \in {Array16, Map16}
  <2>1. /\ U!LengthWidth(h) = 2 /\ h \notin FixArray /\ h \notin FixMap
        /\ h \in U!Maps <=> h = Map16
    BY <1>1, <1>4, ContainerHeads
  <2>2. s = Take(c1, 2)  BY <1>1, <1>4, ClassesDisjoint, ByteNat DEF Stepped
  <2>3. b = (a + 1) + 2  BY <1>2, <2>1
  <2>4. /\ s.bad <=> b > Len(t)
        /\ ~s.bad => s.p = b
    BY <1>1, <2>2, <2>3, TakeIs
  <2>5. ASSUME ~s.bad PROVE Elements(t, c1, h) = U!Held(t, a)
    <3> DEFINE n == U!Number(SubSeq(t, (a + 1) + 1, (a + 1) + 2))
    <3>1. c1.p + 2 <= Len(t)  BY <1>1, <1>2, <2>3, <2>4, <2>5
    <3>2. Length(t, c1, 2) = n  BY <1>1, <3>1, LengthIs
    <3>3. U!Held(t, a) = IF h = Map16 THEN 2 * n ELSE n
      BY <2>1 DEF U!Held
    <3>4. Elements(t, c1, h) = IF h = Map16 THEN 2 * Length(t, c1, 2) ELSE Length(t, c1, 2)
      <4>1. CASE h = Map16
        <5>1. h # Array16  BY <4>1, <1>1, ContainerHeads
        <5> QED BY <2>1, <4>1, <5>1, Zenon DEF Elements
      <4>2. CASE h # Map16
        <5>1. h = Array16  BY <1>4, <4>2
        <5> QED BY <2>1, <4>2, <5>1, Zenon DEF Elements
      <4> QED BY <4>1, <4>2
    <3> QED BY <3>2, <3>3, <3>4
  <2> QED BY <2>4, <2>5
<1> QED BY <1>3, <1>4

(* for a container, whose head alone is stepped over *)
LEMMA StepsAlikeHolding ==
  ASSUME NEW t \in Seq(Byte), NEW c, Inside(c, t), ~c.bad, c.p < Len(t),
         NEW h, h = t[c.p + 1], h \in U!Containers,
         NEW f, f = U!Reading(t),
         NEW s, s = Stepped(t, Take(c, 1), h),
         NEW k, k = Elements(t, Take(c, 1), h)
  PROVE  Alike(t, c.p, s, U!First(t, f, c.p), f[s.p][k])
<1> DEFINE a == c.p
           b == a + 1 + U!LengthWidth(h)
<1> SUFFICES ASSUME NEW o, o = U!First(t, f, a),
                    NEW r, r = f[b][U!Held(t, a)]
             PROVE  Alike(t, a, s, o, f[s.p][k])
  BY Zenon
<1>1. h \in Byte /\ a \in Nat /\ a < Len(t)  BY HeadIs DEF Inside, Cursor
<1>2. U!LengthWidth(h) \in {0, 2, 4}
      /\ (U!LengthWidth(h) = 4 <=> h \in {\hDD, \hDF})
  BY ContainerWidth
<1>3. /\ b <= Len(t) => o.v = U!Filled(h, r.v) /\ o.at = r.at /\ U!Held(t, a) \in Nat
      /\ ~(b <= Len(t)) => o = U!Single(t, a)
  BY <1>1, FirstIs, Zenon
<1>4. CASE ~(b <= Len(t))
  <2>1. o.v = U!SHORT  BY <1>1, <1>3, <1>4, SingleIs
  <2>2. s.bad
    <3>1. CASE h \in {\hDD, \hDF}  BY <3>1, NoRule
    <3>2. CASE h \notin {\hDD, \hDF}
      <4>1. h \in FixArray \union FixMap \union {Array16, Map16}
        BY <1>1, <3>2, SortedAlike
      <4>2. b > Len(t)  BY <1>1, <1>2, <1>4
      <4> QED BY <4>1, <4>2, HeldAlike
    <3> QED BY <3>1, <3>2
  <2> QED BY <2>1, <2>2, ShortIs DEF Alike
<1>5. CASE b <= Len(t)
  <2>1. /\ U!Met(r.v) \subseteq o.v.met
        /\ o.v.met \subseteq U!Met(r.v) \union {"wide", "twice", "key"}
        /\ U!LengthWidth(h) = 4 => "wide" \in o.v.met
    BY <1>3, <1>5, FilledMet
  <2>2. CASE h \in {\hDD, \hDF}
    <3>1. s.bad  BY <2>2, NoRule
    <3>2. "wide" \in o.v.met  BY <1>2, <2>1, <2>2
    <3> QED BY <3>1, <3>2 DEF Alike
  <2>3. CASE h \notin {\hDD, \hDF}
    <3>1. h \in FixArray \union FixMap \union {Array16, Map16}
      BY <1>1, <2>3, SortedAlike
    <3>2. /\ s.bad <=> b > Len(t)
          /\ ~s.bad => s.p = b /\ k = U!Held(t, a)
      BY <3>1, HeldAlike
    <3>3. ~s.bad /\ s.p = b /\ k = U!Held(t, a) /\ b \in (a + 1)..Len(t)
      BY <1>1, <1>2, <1>5, <3>2
    <3>4. f[s.p][k] = r  BY <3>3
    <3>5. U!Met(r.v) \intersect {"cut", "type"} = {} => Wholly(o.v)
      BY <2>1 DEF Wholly
    <3> QED BY <1>3, <1>5, <2>1, <3>3, <3>4, <3>5 DEF Alike
  <2> QED BY <2>2, <2>3
<1> QED BY <1>4, <1>5

(* one step over a value, whatever it is *)
LEMMA StepsAlike ==
  ASSUME NEW t \in Seq(Byte), NEW c, Inside(c, t), ~c.bad, c.p < Len(t),
         NEW h, h = Head1(t, c),
         NEW f, f = U!Reading(t),
         NEW s, s = Stepped(t, Take(c, 1), h),
         NEW k, k = Elements(t, Take(c, 1), h)
  PROVE  /\ Alike(t, c.p, s, U!First(t, f, c.p), f[s.p][k])
         /\ k \in Nat /\ Inside(s, t)
<1>1. h = t[c.p + 1] /\ h \in Byte /\ Inside(Take(c, 1), t)  BY HeadIs
<1>2. ASSUME h \in U!Containers PROVE Alike(t, c.p, s, U!First(t, f, c.p), f[s.p][k])
  BY <1>1, <1>2, StepsAlikeHolding, Zenon
<1>3. ASSUME h \notin U!Containers PROVE Alike(t, c.p, s, U!First(t, f, c.p), f[s.p][k])
  <2>1. Elements(t, Take(c, 1), h) = 0 /\ Alike(t, c.p, s, U!First(t, f, c.p), f[s.p][0])
    BY <1>1, <1>3, StepsAlikeAlone, Zenon
  <2> QED BY <2>1, Zenon
<1>4. k \in Nat  BY <1>1, ElementsNat
<1>5. Inside(s, t)  BY <1>1, SteppedOnward DEF Onward
<1> QED BY <1>2, <1>3, <1>4, <1>5

-----------------------------------------------------------------------------
(* Where the walk is, seen from the reading: for the map and each of the n  *)
(* containers open, q says how many values are owed and e from where on;    *)
(* reading those of one container ends where the next one out goes on.      *)
Chain(t, f, e, q, n, p) ==
  /\ n \in Nat /\ q \in [0..n -> Nat] /\ e \in [0..n -> 0..Len(t)]
  /\ e[n] = p
  /\ \A i \in 1..n : e[i - 1] = f[e[i]][q[i]].at
(* what the values owed at level i met *)
Owed(f, e, q, i) == U!Met(f[e[i]][q[i]].v)
Clean(marks) == marks \intersect {"cut", "type"} = {}

(* all the values of the map: j are read, the others are rest *)
Remaining(all, j, rest) ==
  /\ IsSeq(all) /\ IsSeq(rest) /\ j \in Nat /\ Len(all) = j + Len(rest)
  /\ \A i \in 1..Len(rest) : all[j + i] = rest[i]

(* what is owed was met by the whole, and the whole is clean when it is *)
Owing(t, f, all, N, e, q, n, p) ==
  /\ Chain(t, f, e, q, n, p)
  /\ \A i \in 0..n : Owed(f, e, q, i) \subseteq U!Met(all)
  /\ (\A i \in 0..n : Clean(Owed(f, e, q, i))) => Clean(U!Met(all))
  /\ q[0] <= N /\ Remaining(all, N - q[0], f[e[0]][q[0]].v)
Refusable(marks) == marks \intersect {"cut", "type", "wide"} # {}

(* one value fewer remains *)
LEMMA RemainingOn ==
  ASSUME NEW all, NEW j, NEW rest, NEW v, NEW r, Remaining(all, j, r), r = <<v>> \o rest,
         IsSeq(rest)
  PROVE  Remaining(all, j + 1, rest) /\ j + 1 \in 1..Len(all) /\ all[j + 1] = v
<1>1. /\ Len(rest) \in Nat /\ Len(r) = 1 + Len(rest) /\ r[1] = v
      /\ \A i \in 1..Len(rest) : r[1 + i] = rest[i]
  BY OneInFront
<1>2. IsSeq(all) /\ j \in Nat /\ Len(all) = j + Len(r)
      /\ \A i \in 1..Len(r) : all[j + i] = r[i]
  BY DEF Remaining
<1>3. Len(all) = (j + 1) + Len(rest) /\ j + 1 \in 1..Len(all)  BY <1>1, <1>2
<1>4. all[j + 1] = v  BY <1>1, <1>2
<1>5. ASSUME NEW i \in 1..Len(rest) PROVE all[(j + 1) + i] = rest[i]
  <2>1. 1 + i \in 1..Len(r) /\ (j + 1) + i = j + (1 + i)  BY <1>1, <1>2
  <2> QED BY <1>1, <1>2, <2>1
<1> QED BY <1>2, <1>3, <1>4, <1>5 DEF Remaining

(* a value read leaves one fewer owed *)
LEMMA OwingNext ==
  ASSUME NEW t \in Seq(Byte), NEW f, f = U!Reading(t), NEW all, NEW N \in Nat,
         NEW c, Inside(c, t), ~c.bad,
         NEW e, NEW q, NEW n, Owing(t, f, all, N, e, q, n, c.p), q[n] > 0,
         NEW s, s = Stepped(t, Take(c, 1), Head1(t, c))
  PROVE  /\ s.bad => Refusable(U!Met(all))
         /\ c.p = Len(t) => s.bad /\ Refusable(U!Met(all))
         /\ c.p < Len(t) =>
              LET one == U!First(t, f, c.p)
              IN  /\ one.at \in (c.p + 1)..Len(t)
                  /\ one.v.met \subseteq U!Met(all)
                  /\ Split(t, c.p, q[n], one, f[one.at][q[n] - 1], f[c.p][q[n]])
<1>1. /\ n \in Nat /\ n \in 0..n /\ q[n] \in Nat /\ e[n] = c.p
      /\ Owed(f, e, q, n) \subseteq U!Met(all)
  BY DEF Owing, Chain
<1>2. c.p \in 0..Len(t)  BY DEF Inside
<1> DEFINE one == U!First(t, f, c.p)
           r == f[c.p][q[n]]
<1>3. Split(t, c.p, q[n], one, f[one.at][q[n] - 1], r)
  BY <1>1, <1>2, ReadingSplit, Zenon
<1>4. U!Met(r.v) \subseteq U!Met(all)  BY <1>1 DEF Owed
<1>5. CASE c.p = Len(t)
  <2>1. r.v = <<U!SHORT>>  BY <1>3, <1>5 DEF Split
  <2>2. "cut" \in U!Met(r.v)
    <3>1. U!Met(<<U!SHORT>>) = U!SHORT.met  BY DEF U!Met
    <3> QED BY <2>1, <3>1, ShortIs
  <2>3. Refused(c, 1) /\ Take(c, 1).bad  BY <1>5 DEF Refused, Inside, Cursor, Take, Bad
  <2>4. Inside(Take(c, 1), t) /\ Head1(t, c) \in Byte  BY HeadByte, TakeOnward DEF Onward
  <2>5. s = Take(c, 1)  BY <2>3, <2>4, SteppedOnward DEF Onward
  <2> QED BY <1>4, <1>5, <2>2, <2>3, <2>5 DEF Refusable
<1>6. CASE c.p < Len(t)
  <2>1. one.at \in (c.p + 1)..Len(t) /\ one.v.met \subseteq U!Met(r.v)
    BY <1>3, <1>6 DEF Split
  <2>2. Alike(t, c.p, s, one, f[s.p][Elements(t, Take(c, 1), Head1(t, c))])
    BY <1>6, StepsAlike, Zenon
  <2>3. s.bad => Refusable(one.v.met)  BY <2>2 DEF Alike, Refusable
  <2>4. s.bad => Refusable(U!Met(all))  BY <1>4, <2>1, <2>3 DEF Refusable
  <2>5. c.p # Len(t)  BY <1>2, <1>6
  <2> QED BY <1>3, <1>4, <2>1, <2>4, <2>5
<1> QED BY <1>2, <1>5, <1>6

(* a value taken, and the container it opens, if it opens one *)
Descends(t, c, n, q, s, k, n2, q2) ==
  /\ ~c.bad /\ q[n] > 0
  /\ s = Stepped(t, Take(c, 1), Head1(t, c)) /\ ~s.bad
  /\ k = Elements(t, Take(c, 1), Head1(t, c))
  /\ k > 0 => n2 = n + 1
  /\ ~(k > 0) => n2 = n
  /\ q2 \in [0..n2 -> Nat] /\ \A i \in 0..(n - 1) : q2[i] = q[i]
  /\ q2[n] = q[n] - 1
  /\ k > 0 => q2[n + 1] = k

(* a container read leaves its values owed first *)
LEMMA OwingDescends ==
  ASSUME NEW t \in Seq(Byte), NEW f, f = U!Reading(t), NEW all, NEW N \in Nat,
         NEW c, Inside(c, t), NEW e, NEW q, NEW n, Owing(t, f, all, N, e, q, n, c.p),
         NEW s, NEW k, NEW n2, NEW q2, Descends(t, c, n, q, s, k, n2, q2)
  PROVE  \E e2 : Owing(t, f, all, N, e2, q2, n2, s.p)
<1>0. /\ ~c.bad /\ q[n] > 0
      /\ s = Stepped(t, Take(c, 1), Head1(t, c)) /\ ~s.bad
      /\ k = Elements(t, Take(c, 1), Head1(t, c))
      /\ k > 0 => n2 = n + 1
      /\ ~(k > 0) => n2 = n
      /\ q2 \in [0..n2 -> Nat] /\ \A i \in 0..(n - 1) : q2[i] = q[i]
      /\ q2[n] = q[n] - 1
      /\ k > 0 => q2[n + 1] = k
  BY DEF Descends
<1> USE <1>0
<1> DEFINE one == U!First(t, f, c.p)
           r == f[c.p][q[n]]
           rest == f[one.at][q[n] - 1]
           e2 == [i \in 0..n2 |-> IF i < n THEN e[i] ELSE IF i = n THEN one.at ELSE s.p]
<1>1. /\ n \in Nat /\ q \in [0..n -> Nat] /\ e \in [0..n -> 0..Len(t)] /\ e[n] = c.p
      /\ \A i \in 1..n : e[i - 1] = f[e[i]][q[i]].at
  BY DEF Owing, Chain
<1>2. /\ \A i \in 0..n : Owed(f, e, q, i) \subseteq U!Met(all)
      /\ (\A i \in 0..n : Clean(Owed(f, e, q, i))) => Clean(U!Met(all))
      /\ q[0] <= N /\ Remaining(all, N - q[0], f[e[0]][q[0]].v)
  BY DEF Owing
<1>3. c.p \in 0..Len(t) /\ c.p # Len(t) /\ c.p < Len(t)
  <2>1. c.p = Len(t) => s.bad  BY OwingNext, Zenon
  <2>2. c.p \in 0..Len(t)  BY DEF Inside
  <2> QED BY <2>1, <2>2
<1>4. /\ one.at \in (c.p + 1)..Len(t)
      /\ one.v.met \subseteq U!Met(all)
      /\ Split(t, c.p, q[n], one, rest, r)
  BY <1>3, OwingNext, Zenon
<1>5. /\ r.v = <<one.v>> \o rest.v /\ r.at = rest.at
      /\ U!Met(r.v) = one.v.met \union U!Met(rest.v)
      /\ IsSeq(rest.v)
  BY <1>3, <1>4 DEF Split, Good
<1>6. Alike(t, c.p, s, one, f[s.p][k]) /\ k \in Nat /\ Inside(s, t)
  BY <1>3, StepsAlike, Zenon
<1>7. /\ s.p \in (c.p + 1)..Len(t) /\ one.at = f[s.p][k].at
      /\ U!Met(f[s.p][k].v) \subseteq one.v.met
      /\ Clean(U!Met(f[s.p][k].v)) => Clean(one.v.met)
  BY <1>6 DEF Alike, Clean, Wholly
<1> HIDE DEF one, r, rest
<1>8. k = 0 => s.p = one.at /\ U!Met(f[s.p][k].v) = {}
  <2>1. s.p \in 0..Len(t)  BY <1>3, <1>7
  <2>2. f[s.p][0].v = << >> /\ f[s.p][0].at = s.p  BY <2>1, ReadingNone
  <2> QED BY <1>7, <2>2, NothingMet
<1>9. n2 \in Nat /\ n <= n2 /\ (k > 0 => n2 = n + 1) /\ (k = 0 => n2 = n)
      /\ 0..n2 = (0..n) \union {n2}
  BY <1>1, <1>6
<1>10. e2 \in [0..n2 -> 0..Len(t)]
  <2> SUFFICES ASSUME NEW i \in 0..n2
               PROVE  (IF i < n THEN e[i] ELSE IF i = n THEN one.at ELSE s.p) \in 0..Len(t)
    BY DEF e2
  <2>1. one.at \in 0..Len(t) /\ s.p \in 0..Len(t)  BY <1>3, <1>4, <1>7
  <2>2. i < n => i \in 0..n  BY <1>1
  <2> QED BY <1>1, <2>1, <2>2
<1>11. /\ \A i \in 0..(n - 1) : e2[i] = e[i] /\ i \in 0..n
       /\ e2[n] = one.at /\ (k > 0 => e2[n + 1] = s.p)
  BY <1>1, <1>9
<1>12. e2[n2] = s.p
  <2>1. CASE k > 0  BY <1>9, <1>11, <2>1
  <2>2. CASE k = 0  BY <1>8, <1>9, <1>11, <2>2
  <2> QED BY <1>6, <2>1, <2>2
<1>13. f[e2[n]][q2[n]] = rest  BY <1>11 DEF rest
<1>14. k > 0 => f[e2[n + 1]][q2[n + 1]] = f[s.p][k]  BY <1>11
<1>15. f[e[n]][q[n]] = r  BY <1>1 DEF r
<1>16. \A i \in 0..(n - 1) : f[e2[i]][q2[i]] = f[e[i]][q[i]]  BY <1>11
<1> HIDE DEF e2
<1>17. Chain(t, f, e2, q2, n2, s.p)
  <2> SUFFICES ASSUME NEW i \in 1..n2 PROVE e2[i - 1] = f[e2[i]][q2[i]].at
    BY <1>9, <1>10, <1>12 DEF Chain
  <2>1. CASE i < n
    <3>1. i \in 0..(n - 1) /\ i - 1 \in 0..(n - 1) /\ i \in 1..n  BY <1>1, <2>1
    <3> QED BY <1>1, <1>11, <1>16, <3>1
  <2>2. CASE i = n
    <3>1. n - 1 \in 0..(n - 1) /\ n \in 1..n  BY <1>1, <2>2
    <3>2. e[n - 1] = r.at  BY <1>1, <1>15, <3>1
    <3> QED BY <1>5, <1>11, <1>13, <2>2, <3>1, <3>2
  <2>3. CASE i > n
    <3>1. k > 0 /\ i = n + 1 /\ i - 1 = n  BY <1>1, <1>6, <1>9, <2>3
    <3> QED BY <1>7, <1>11, <1>14, <3>1
  <2> QED BY <1>1, <2>1, <2>2, <2>3
<1>18. \A i \in 0..(n - 1) : Owed(f, e2, q2, i) = Owed(f, e, q, i)
  BY <1>16 DEF Owed
<1>19. /\ Owed(f, e2, q2, n) = U!Met(rest.v) /\ Owed(f, e, q, n) = U!Met(r.v)
       /\ k > 0 => Owed(f, e2, q2, n + 1) = U!Met(f[s.p][k].v)
  BY <1>13, <1>14, <1>15 DEF Owed
<1>20. ASSUME NEW i \in 0..n2 PROVE Owed(f, e2, q2, i) \subseteq U!Met(all)
  <2>1. CASE i < n
    <3>1. i \in 0..(n - 1) /\ i \in 0..n  BY <1>1, <2>1
    <3> QED BY <1>2, <1>18, <3>1
  <2>2. CASE i = n
    <3>1. U!Met(r.v) \subseteq U!Met(all) /\ n \in 0..n  BY <1>1, <1>2, <1>19
    <3> QED BY <1>5, <1>19, <2>2, <3>1
  <2>3. CASE i > n
    <3>1. k > 0 /\ i = n + 1  BY <1>1, <1>6, <1>9, <2>3
    <3> QED BY <1>4, <1>7, <1>19, <3>1 DEF one
  <2> QED BY <1>1, <2>1, <2>2, <2>3
<1>21. ASSUME \A i \in 0..n2 : Clean(Owed(f, e2, q2, i)) PROVE Clean(U!Met(all))
  <2>1. Clean(U!Met(f[s.p][k].v))
    <3>1. CASE k > 0
      <4>1. n + 1 \in 0..n2  BY <1>1, <1>9, <3>1
      <4> QED BY <1>19, <1>21, <3>1, <4>1
    <3>2. CASE k = 0  BY <1>8, <3>2 DEF Clean
    <3> QED BY <1>6, <3>1, <3>2
  <2>2. Clean(one.v.met)  BY <1>7, <2>1
  <2>3. n \in 0..n2  BY <1>1, <1>9
  <2>4. Clean(U!Met(rest.v))  BY <1>19, <1>21, <2>3
  <2>5. Clean(Owed(f, e, q, n))  BY <1>5, <1>19, <2>2, <2>4 DEF Clean
  <2>6. ASSUME NEW i \in 0..n PROVE Clean(Owed(f, e, q, i))
    <3>1. CASE i = n  BY <2>5, <3>1
    <3>2. CASE i # n
      <4>1. i \in 0..(n - 1) /\ i \in 0..n2  BY <1>1, <1>9, <3>2
      <4> QED BY <1>18, <1>21, <4>1
    <3> QED BY <3>1, <3>2
  <2> QED BY <1>2, <2>6
<1>22. q2[0] <= N /\ Remaining(all, N - q2[0], f[e2[0]][q2[0]].v)
  <2>1. CASE n = 0
    <3>1. q2[0] = q[0] - 1 /\ q[0] \in Nat /\ q[0] > 0 /\ N - q2[0] = (N - q[0]) + 1
          /\ q2[0] <= N
      BY <1>1, <1>2, <2>1
    <3>2. Remaining(all, N - q[0], r.v)  BY <1>2, <1>15, <2>1
    <3>3. Remaining(all, (N - q[0]) + 1, rest.v)
      <4> SUFFICES ASSUME NEW j, j = N - q[0], NEW rv, rv = r.v,
                          NEW bv, bv = rest.v, NEW ov, ov = one.v
                   PROVE  Remaining(all, j + 1, bv)
        OBVIOUS
      <4>1. Remaining(all, j, rv) /\ rv = <<ov>> \o bv /\ IsSeq(bv)  BY <1>5, <3>2
      <4> QED BY ONLY <4>1, RemainingOn
    <3>4. f[e2[0]][q2[0]] = rest  BY <1>13, <2>1
    <3> QED BY <3>1, <3>3, <3>4
  <2>2. CASE n # 0
    <3>1. 0 \in 0..(n - 1)  BY <1>1, <2>2
    <3>2. q2[0] = q[0] /\ f[e2[0]][q2[0]] = f[e[0]][q[0]]  BY <1>16, <3>1
    <3> QED BY <1>2, <3>2
  <2> QED BY <2>1, <2>2
<1> QED BY <1>17, <1>20, <1>21, <1>22 DEF Owing

(* a container with nothing owed goes on in the one around it *)
LEMMA OwingUp ==
  ASSUME NEW t \in Seq(Byte), NEW f, f = U!Reading(t), NEW all, NEW N \in Nat,
         NEW e, NEW q, NEW n, NEW p, Owing(t, f, all, N, e, q, n, p), n > 0, q[n] = 0,
         NEW q2 \in [0..(n - 1) -> Nat], \A i \in 0..(n - 1) : q2[i] = q[i]
  PROVE  \E e2 : Owing(t, f, all, N, e2, q2, n - 1, p)
<1>1. /\ n \in Nat /\ q \in [0..n -> Nat] /\ e \in [0..n -> 0..Len(t)] /\ e[n] = p
      /\ \A i \in 1..n : e[i - 1] = f[e[i]][q[i]].at
  BY DEF Owing, Chain
<1>2. /\ \A i \in 0..n : Owed(f, e, q, i) \subseteq U!Met(all)
      /\ (\A i \in 0..n : Clean(Owed(f, e, q, i))) => Clean(U!Met(all))
      /\ q[0] <= N /\ Remaining(all, N - q[0], f[e[0]][q[0]].v)
  BY DEF Owing
<1> DEFINE e2 == [i \in 0..(n - 1) |-> e[i]]
<1>3. n - 1 \in Nat /\ 0..n = (0..(n - 1)) \union {n} /\ n \in 1..n /\ n - 1 \in 0..(n - 1)
      /\ 0 \in 0..(n - 1)
  <2>1. n \in Nat /\ n >= 1  BY <1>1
  <2> QED BY <2>1
<1>4. f[p][0].v = << >> /\ f[p][0].at = p
  <2>1. p \in 0..Len(t)  BY <1>1
  <2> QED BY <2>1, ReadingNone
<1>5. e2 \in [0..(n - 1) -> 0..Len(t)] /\ \A i \in 0..(n - 1) : e2[i] = e[i]
  BY <1>1, <1>3
<1> HIDE DEF e2
<1>6. e2[n - 1] = p  BY <1>1, <1>3, <1>4, <1>5
<1>7. \A i \in 0..(n - 1) : f[e2[i]][q2[i]] = f[e[i]][q[i]]  BY <1>5
<1>8. \A i \in 0..(n - 1) : Owed(f, e2, q2, i) = Owed(f, e, q, i)  BY <1>7 DEF Owed
<1>9. Chain(t, f, e2, q2, n - 1, p)
  <2>1. ASSUME NEW i \in 1..(n - 1) PROVE e2[i - 1] = f[e2[i]][q2[i]].at
    <3>1. i \in 1..n /\ i \in 0..(n - 1) /\ i - 1 \in 0..(n - 1)  BY <1>1
    <3> QED BY <1>1, <1>5, <1>7, <3>1
  <2> QED BY <1>3, <1>5, <1>6, <2>1 DEF Chain
<1>10. Owed(f, e, q, n) = {}  BY <1>1, <1>4, NothingMet DEF Owed
<1>11. ASSUME \A i \in 0..(n - 1) : Clean(Owed(f, e2, q2, i)) PROVE Clean(U!Met(all))
  <2>1. ASSUME NEW i \in 0..n PROVE Clean(Owed(f, e, q, i))
    <3>1. CASE i = n  BY <1>10, <3>1 DEF Clean
    <3>2. CASE i # n
      <4>1. i \in 0..(n - 1)  BY <1>3, <3>2
      <4> QED BY <1>8, <1>11, <4>1
    <3> QED BY <3>1, <3>2
  <2> QED BY <1>2, <2>1
<1>12. ASSUME NEW i \in 0..(n - 1) PROVE Owed(f, e2, q2, i) \subseteq U!Met(all)
  <2>1. i \in 0..n  BY <1>3
  <2> QED BY <1>2, <1>8, <2>1
<1>13. q2[0] <= N /\ Remaining(all, N - q2[0], f[e2[0]][q2[0]].v)
  <2>1. q2[0] = q[0] /\ f[e2[0]][q2[0]] = f[e[0]][q[0]]  BY <1>3, <1>7
  <2> QED BY <1>2, <2>1
<1> QED BY <1>9, <1>11, <1>12, <1>13 DEF Owing

-----------------------------------------------------------------------------
(* What a value is, by its head byte. *)

LEMMA OneByteOf ==
  ASSUME NEW t \in Seq(Byte), NEW i \in 1..Len(t)
  PROVE  SubSeq(t, i, i) = <<t[i]>>
<1>1. SubSeq(t, i, i) \in Seq(Byte) /\ Len(SubSeq(t, i, i)) = 1 /\ SubSeq(t, i, i)[1] = t[i]
  OBVIOUS
<1>2. t[i] \in Byte  OBVIOUS
<1>3. <<t[i]>> \in Seq(Byte) /\ Len(<<t[i]>>) = 1 /\ <<t[i]>>[1] = t[i]  BY <1>2
<1>4. ASSUME NEW j \in 1..Len(SubSeq(t, i, i)) PROVE SubSeq(t, i, i)[j] = <<t[i]>>[j]
  <2>1. j = 1  BY <1>1
  <2> QED BY <1>1, <1>3, <2>1
<1> QED BY <1>1, <1>3, <1>4, SeqEqual

(* a key that is the name of one letter *)
LEMMA SameAsName ==
  ASSUME NEW v, NEW k
  PROVE  U!SameKey(v, U!Value("str", <<k>>)) <=> v.kind = "str" /\ v.bytes = <<k>>
<1>1. U!Value("str", <<k>>).kind = "str" /\ U!Value("str", <<k>>).bytes = <<k>>
  BY DEF U!Value
<1>2. "str" \notin U!Ints /\ "str" \notin U!Bytes  BY DEF U!Ints, U!Bytes
<1> QED BY <1>1, <1>2 DEF U!SameKey

LEMMA TypeIs ==
  ASSUME NEW h \in Byte
  PROVE  /\ U!Type(h) = "str" <=> h \in \hA0..\hBF \union \hD9..\hDB
         /\ h \in \h80..\hC3 \ (\hA0..\hBF) => U!Type(h) = "ext"
         /\ U!Type(h) = "int" <=> h \in 0..\h7F \union \hCC..\hCE
         /\ U!Type(h) = "bytes" <=> h \in \hC4..\hC6
         /\ U!Type(h) = "float" <=> h = \hCB
         /\ U!Type(h) = "single" <=> h = \hCA
<1> h \in 0..255  BY DEF Byte
<1> QED BY DEF U!Type

LEMMA TypedKind ==
  ASSUME NEW kind \in Types, NEW b
  PROVE  LET v == U!Typed(kind, b)
         IN  /\ v.kind = "str" <=> kind = "str"
             /\ kind = "int" => v.kind = "int" /\ v.bytes = U!Significant(b)
             /\ v.kind = "int" => kind = "int"
             /\ kind \in {"bytes", "float", "single", "str"} => v.kind = kind /\ v.bytes = b
             /\ v.kind \in {"bytes", "float", "single"} => kind = v.kind
             /\ v.kind \notin {"bool", "nil", "short", "list", "map"}
BY DEF Types, U!Typed, U!FOREIGN, U!Value

LEMMA TypedStr ==
  ASSUME NEW kind \in Types, NEW b, U!Typed(kind, b).kind = "str"
  PROVE  kind = "str" /\ U!Typed(kind, b).bytes = b
<1>1. kind = "str"  BY DEF Types, U!Typed, U!FOREIGN, U!Value
<1> QED BY <1>1 DEF U!Typed, U!Value

LEMMA StrWidth == \A h \in \hA0..\hBF : U!Width(h) = h - \hA0
<1> SUFFICES ASSUME NEW h \in \hA0..\hBF PROVE U!Width(h) = h - \hA0
  OBVIOUS
<1>1. h \in 0..255 /\ h # \hCA /\ h # \hCB /\ h \notin \hCC..\hD3  OBVIOUS
<1> QED BY <1>1 DEF U!Width

LEMMA FilledKind ==
  ASSUME NEW h, NEW items
  PROVE  U!Filled(h, items).kind \in {"list", "map", "short"}
BY DEF U!Filled, U!List, U!MapOf

(* what a value at a place is, by its head *)
Reads(t, a, h, o) ==
  /\ h \in U!Containers => o.v.kind \in {"list", "map", "short"}
  /\ h \in U!Small => o.v = U!Typed(U!Type(h), <<h>>) /\ o.at = a + 1
  /\ h \in U!Fixed =>
       /\ o.at = a + 1
       /\ h = \hC0 => o.v = U!Nil
       /\ h = \hC1 => o.v = U!Raises
       /\ h = \hC2 => o.v = U!False
       /\ h = \hC3 => o.v = U!True
  /\ h \in U!Sized =>
       LET w == U!Width(h)
       IN  /\ a + 1 + w > Len(t) => o.v = U!SHORT
           /\ a + 1 + w <= Len(t) =>
                o.v = U!Typed(U!Type(h), SubSeq(t, a + 2, a + 1 + w)) /\ o.at = a + 1 + w
  /\ h \in U!Lengthy =>
       \E n : Behind(t, a + 1, U!LengthWidth(h), U!TypeByte(h), U!Type(h), n, o)
              /\ n = U!Number(SubSeq(t, a + 2, a + 1 + U!LengthWidth(h)))

LEMMA FirstReads ==
  ASSUME NEW t \in Seq(Byte), NEW f, NEW a \in Nat, a < Len(t), NEW h, h = t[a + 1]
  PROVE  h \in Byte /\ Heads(h) /\ Reads(t, a, h, U!First(t, f, a))
<1> SUFFICES ASSUME NEW o, o = U!First(t, f, a)
             PROVE  h \in Byte /\ Heads(h) /\ Reads(t, a, h, o)
  OBVIOUS
<1> DEFINE b == a + 1 + U!LengthWidth(h)
<1>1. /\ h \in Byte
      /\ h \in U!Containers /\ b <= Len(t) => o.v = U!Filled(h, f[b][U!Held(t, a)].v)
      /\ ~(h \in U!Containers /\ b <= Len(t)) => o = U!Single(t, a)
  BY FirstIs, Zenon
<1>2. Heads(h)  BY <1>1, HeadClasses
<1>3. U!Type(h) \in Types /\ (h \in U!Sized => U!Width(h) \in Nat)
      /\ (h \in U!Lengthy => U!LengthWidth(h) \in {1, 2, 4} /\ U!TypeByte(h) \in {0, 1})
  BY <1>1, HeadWidths
<1>4. ASSUME h \in U!Containers PROVE o.v.kind \in {"list", "map", "short"}
  <2>1. CASE b <= Len(t)  BY <1>1, <1>4, <2>1, FilledKind
  <2>2. CASE ~(b <= Len(t))  BY <1>1, <1>4, <2>2, SingleIs, ShortIs
  <2> QED BY <2>1, <2>2
<1>5. ASSUME h \notin U!Containers
      PROVE  /\ h \in U!Small => o = U!Body(t, a, 1, U!Type(h))
             /\ h \in U!Fixed =>
                  /\ o.at = a + 1
                  /\ h = \hC0 => o.v = U!Nil
                  /\ h = \hC1 => o.v = U!Raises
                  /\ h = \hC2 => o.v = U!False
                  /\ h = \hC3 => o.v = U!True
             /\ h \in U!Sized => o = U!Body(t, a + 1, U!Width(h), U!Type(h))
             /\ h \in U!Lengthy =>
                  o = U!Prefixed(t, a + 1, U!LengthWidth(h), U!TypeByte(h), U!Type(h))
  <2>1. o = U!Single(t, a)  BY <1>1, <1>5
  <2> DEFINE r == U!Single(t, a)
  <2>2. /\ h \in U!Small => r = U!Body(t, a, 1, U!Type(h))
        /\ h \in U!Fixed =>
             /\ r.at = a + 1
             /\ h = \hC0 => r.v = U!Nil
             /\ h = \hC1 => r.v = U!Raises
             /\ h = \hC2 => r.v = U!False
             /\ h = \hC3 => r.v = U!True
        /\ h \in U!Sized => r = U!Body(t, a + 1, U!Width(h), U!Type(h))
        /\ h \in U!Lengthy =>
             r = U!Prefixed(t, a + 1, U!LengthWidth(h), U!TypeByte(h), U!Type(h))
    BY SingleIs
  <2> HIDE DEF r
  <2>3. o = r  BY <2>1 DEF r
  <2> QED BY <2>2, <2>3
<1>6. ASSUME h \in U!Small PROVE o.v = U!Typed(U!Type(h), <<h>>) /\ o.at = a + 1
  <2>1. o = U!Body(t, a, 1, U!Type(h))  BY <1>2, <1>5, <1>6 DEF Heads
  <2>2. SubSeq(t, a + 1, a + 1) = <<h>>
    <3>1. a + 1 \in 1..Len(t)  OBVIOUS
    <3> QED BY <3>1, OneByteOf
  <2>3. a + 1 <= Len(t) /\ 1 \in Nat  OBVIOUS
  <2>4. o.v = U!Typed(U!Type(h), SubSeq(t, a + 1, a + 1)) /\ o.at = a + 1
    BY <1>3, <2>1, <2>3, BodyIs
  <2> QED BY <2>2, <2>4
<1>7. ASSUME h \in U!Sized
      PROVE  LET w == U!Width(h)
             IN  /\ a + 1 + w > Len(t) => o.v = U!SHORT
                 /\ a + 1 + w <= Len(t) =>
                      o.v = U!Typed(U!Type(h), SubSeq(t, a + 2, a + 1 + w)) /\ o.at = a + 1 + w
  <2>1. o = U!Body(t, a + 1, U!Width(h), U!Type(h))  BY <1>2, <1>5, <1>7 DEF Heads
  <2>2. a + 1 \in Nat /\ (a + 1) + 1 = a + 2  OBVIOUS
  <2>3. U!Width(h) \in Nat /\ U!Type(h) \in Types  BY <1>3, <1>7
  <2>4. LET r == U!Body(t, a + 1, U!Width(h), U!Type(h))
        IN  /\ (a + 1) + U!Width(h) <= Len(t) =>
                 /\ r.v = U!Typed(U!Type(h), SubSeq(t, (a + 1) + 1, (a + 1) + U!Width(h)))
                 /\ r.at = (a + 1) + U!Width(h)
            /\ (a + 1) + U!Width(h) > Len(t) => r.v = U!SHORT
    BY ONLY t \in Seq(Byte), <2>2, <2>3, BodyIs
  <2> QED BY ONLY <2>1, <2>2, <2>4
<1>8. ASSUME h \in U!Lengthy
      PROVE  \E n : Behind(t, a + 1, U!LengthWidth(h), U!TypeByte(h), U!Type(h), n, o)
                    /\ n = U!Number(SubSeq(t, a + 2, a + 1 + U!LengthWidth(h)))
  <2>1. o = U!Prefixed(t, a + 1, U!LengthWidth(h), U!TypeByte(h), U!Type(h))
    BY <1>2, <1>5, <1>8 DEF Heads
  <2>2. a + 1 \in Nat /\ (a + 1) + 1 = a + 2  OBVIOUS
  <2>3. Behind(t, a + 1, U!LengthWidth(h), U!TypeByte(h), U!Type(h),
               U!Number(SubSeq(t, (a + 1) + 1, a + 1 + U!LengthWidth(h))), o)
    <3>1. U!Type(h) \in Types /\ U!LengthWidth(h) \in {1, 2, 4} /\ U!TypeByte(h) \in {0, 1}
      BY <1>3, <1>8
    <3> QED BY ONLY t \in Seq(Byte), <2>1, <2>2, <3>1, PrefixedIs
  <2> QED BY <2>2, <2>3
<1>9. ASSUME h \in U!Fixed
      PROVE  /\ o.at = a + 1
             /\ h = \hC0 => o.v = U!Nil
             /\ h = \hC1 => o.v = U!Raises
             /\ h = \hC2 => o.v = U!False
             /\ h = \hC3 => o.v = U!True
  BY <1>2, <1>5, <1>9 DEF Heads
<1> QED BY <1>1, <1>2, <1>4, <1>6, <1>7, <1>8, <1>9, Zenon DEF Reads

(* a name of one letter behind its head in one byte *)
LEMMA OneLetter ==
  ASSUME NEW t \in Seq(Byte), NEW f, NEW a \in Nat, a < Len(t), t[a + 1] = \hA1,
         NEW o, o = U!First(t, f, a)
  PROVE  /\ a + 2 > Len(t) => o.v = U!SHORT
         /\ a + 2 <= Len(t) => o.v = U!Value("str", <<t[a + 2]>>)
<1>1. Reads(t, a, \hA1, o)  BY FirstReads
<1>2. \hA1 \in U!Sized /\ U!Width(\hA1) = 1  BY DEF U!Sized, U!Width
<1>3. U!Type(\hA1) = "str"  BY DEF U!Type
<1>4. /\ a + 1 + 1 > Len(t) => o.v = U!SHORT
      /\ a + 1 + 1 <= Len(t) => o.v = U!Typed("str", SubSeq(t, a + 2, a + 1 + 1))
  BY <1>1, <1>2, <1>3 DEF Reads
<1>5. a + 2 <= Len(t) => SubSeq(t, a + 2, a + 2) = <<t[a + 2]>>
  <2>1. a + 2 <= Len(t) => a + 2 \in 1..Len(t)  OBVIOUS
  <2> QED BY <2>1, OneByteOf
<1>6. \A b : U!Typed("str", b) = U!Value("str", b)  BY DEF U!Typed
<1>7. a + 1 + 1 = a + 2  OBVIOUS
<1>8. /\ a + 2 > Len(t) => o.v = U!SHORT
      /\ a + 2 <= Len(t) => o.v = U!Typed("str", SubSeq(t, a + 2, a + 2))
  BY <1>4, <1>7
<1> QED BY ONLY <1>5, <1>6, <1>8

(* behind another head it is none of the names *)
LEMMA NotOneLetter ==
  ASSUME NEW t \in Seq(Byte), NEW f, NEW a \in Nat, a < Len(t), t[a + 1] # \hA1,
         NEW o, o = U!First(t, f, a), o.v.met \intersect {"cut", "wide"} = {}, NEW k
  PROVE  ~U!SameKey(o.v, U!Value("str", <<k>>))
<1> SUFFICES ASSUME o.v.kind = "str", o.v.bytes = <<k>> PROVE FALSE
  BY SameAsName
<1> DEFINE h == t[a + 1]
<1>1. h \in Byte /\ Heads(h) /\ Reads(t, a, h, o)  BY FirstReads
<1>0. h # \hA1 /\ Len(<<k>>) = 1  OBVIOUS
<1> HIDE DEF h
<1>2. U!Type(h) \in Types /\ (h \in U!Sized => U!Width(h) \in Nat)
      /\ (h \in U!Lengthy => U!LengthWidth(h) \in {1, 2, 4} /\ U!TypeByte(h) \in {0, 1})
  BY <1>1, HeadWidths
<1>3. CASE h \in U!Containers  BY <1>1, <1>3 DEF Reads
<1>4. CASE h \in U!Small
  <2>1. U!Type(h) = "str"  BY <1>1, <1>2, <1>4, TypedKind DEF Reads
  <2>2. h \in \hA0..\hBF \union \hD9..\hDB  BY <1>1, <2>1, TypeIs
  <2> QED BY <1>4, <2>2 DEF U!Small
<1>5. CASE h \in U!Fixed
  BY <1>1, <1>5 DEF Reads, U!Fixed, U!Nil, U!Raises, U!False, U!True, U!Having, U!Value
<1>6. CASE h \in U!Sized
  <2> DEFINE w == U!Width(h)
             b == SubSeq(t, a + 2, a + 1 + w)
  <2>1. a + 1 + w <= Len(t)
    <3>1. o.v # U!SHORT  BY ShortIs
    <3> QED BY <1>1, <1>2, <1>6, <3>1 DEF Reads
  <2>2. o.v = U!Typed(U!Type(h), b)  BY <1>1, <1>6, <2>1 DEF Reads
  <2>3. U!Type(h) = "str" /\ o.v.bytes = b
    <3> HIDE DEF b, w
    <3>1. U!Typed(U!Type(h), b).kind = "str"  BY <2>2
    <3>2. U!Type(h) = "str" /\ U!Typed(U!Type(h), b).bytes = b  BY <1>2, <3>1, TypedStr
    <3> QED BY <2>2, <3>2
  <2>4. h \in \hA0..\hBF  BY <1>1, <1>6, <2>3, TypeIs DEF U!Sized
  <2>5. w # 1
    <3> SUFFICES ASSUME NEW i \in \hA0..\hBF, i # \hA1 PROVE U!Width(i) # 1
      BY <1>0, <2>4
    <3>1. U!Width(i) = i - \hA0  BY StrWidth, Zenon
    <3>2. i - \hA0 # 1  OBVIOUS
    <3> QED BY <3>1, <3>2, Zenon
  <2>6. Len(b) = w  BY <1>2, <1>6, <2>1
  <2> QED BY <1>0, <2>3, <2>5, <2>6
<1>7. CASE h \in U!Lengthy
  <2>1. PICK n : Behind(t, a + 1, U!LengthWidth(h), U!TypeByte(h), U!Type(h), n, o)
    BY <1>1, <1>7 DEF Reads
  <2> DEFINE w == U!LengthWidth(h)
             e == a + 1 + w + U!TypeByte(h) + n
             b == SubSeq(t, a + 1 + w + 1, e)
  <2>2. o.v # U!SHORT  BY ShortIs
  <2>3. /\ a + 1 + w <= Len(t) /\ n \in Nat /\ e <= Len(t)
        /\ o.v.kind = U!Typed(U!Type(h), b).kind /\ o.v.bytes = U!Typed(U!Type(h), b).bytes
        /\ ~(w = 4 \/ (U!Type(h) = "str" /\ n = 1))
    <3>1. /\ a + 1 + w <= Len(t) \/ a + 1 + w > Len(t)  BY <1>2, <1>7
    <3>2. a + 1 + w <= Len(t) /\ n \in Nat  BY <2>1, <2>2, <3>1 DEF Behind
    <3>3. e <= Len(t) \/ e > Len(t)  BY <1>2, <1>7, <3>2
    <3> QED BY <2>1, <2>2, <3>2, <3>3 DEF Behind
  <2>4. U!Type(h) = "str" /\ o.v.bytes = b
    <3> HIDE DEF b, w, e
    <3>1. U!Typed(U!Type(h), b).kind = "str"  BY <2>3
    <3>2. U!Type(h) = "str" /\ U!Typed(U!Type(h), b).bytes = b  BY <1>2, <3>1, TypedStr
    <3> QED BY <2>3, <3>2
  <2>5. U!TypeByte(h) = 0
    <3>1. h \in \hA0..\hBF \union \hD9..\hDB /\ h \in Nat  BY <1>1, <2>4, TypeIs, ByteNat
    <3> QED BY <3>1 DEF U!TypeByte
  <2>6. Len(b) = n
    <3> HIDE DEF w
    <3>1. w \in Nat  BY <1>2, <1>7 DEF w
    <3> QED BY <2>3, <2>5, <3>1
  <2> QED BY <1>0, <2>3, <2>4, <2>6
<1> QED BY <1>1, <1>3, <1>4, <1>5, <1>6, <1>7 DEF Heads

-----------------------------------------------------------------------------
(* One field printed alike. *)

(* both readers make one number of the same bytes *)
LEMMA DigitsAlike ==
  ASSUME NEW b \in Seq(Byte), Len(b) > 0
  PROVE  Digits(b) = U!Significant(b)
<1> DEFINE kept == {i \in 1..Len(b) : b[i] # 0}
           most == {i \in 1..Len(b) : b[i] # 0} \union {Len(b)}
           least(S) == CHOOSE i \in S : \A j \in S : i <= j
<1>1. Digits(b) = SubSeq(b, least(most), Len(b))  BY DEF Digits
<1>2. Len(b) \in 1..Len(b) /\ \A i \in 1..Len(b) : b[i] \in Byte  OBVIOUS
<1>3. CASE kept = {}
  <2>1. U!Significant(b) = <<0>>  BY <1>3 DEF U!Significant, U!Without
  <2>2. b[Len(b)] = 0 /\ most = {Len(b)}  BY <1>2, <1>3
  <2>3. least(most) = Len(b)
    <3>1. \E i \in most : \A j \in most : i <= j  BY <2>2
    <3>2. least(most) \in most  BY <3>1
    <3> QED BY <2>2, <3>2
  <2>4. SubSeq(b, Len(b), Len(b)) = <<0>>  BY <1>2, <2>2, OneByteOf
  <2> HIDE DEF least, most
  <2> QED BY <1>1, <2>1, <2>3, <2>4
<1>4. CASE kept # {}
  <2>1. PICK i \in kept : \A j \in kept : i <= j
    <3>1. PICK n : n \in kept  BY <1>4
    <3>2. kept \in SUBSET Nat  OBVIOUS
    <3> HIDE DEF kept
    <3> QED BY <3>1, <3>2, LeastOf
  <2>2. i \in 1..Len(b) /\ i <= Len(b)  OBVIOUS
  <2>3. i \in most /\ \A j \in most : i <= j  BY <2>1, <2>2
  <2>4. least(most) = i
    <3>1. least(most) \in most /\ \A j \in most : least(most) <= j  BY <2>3
    <3>2. least(most) <= i /\ i <= least(most)  BY <2>3, <3>1
    <3>3. most \subseteq Nat  BY <1>2
    <3> QED BY <3>1, <3>2, <3>3
  <2>5. least(kept) = i
    <3>1. least(kept) \in kept /\ \A j \in kept : least(kept) <= j  BY <2>1
    <3>2. least(kept) <= i /\ i <= least(kept)  BY <2>1, <3>1
    <3> QED BY <3>1, <3>2
  <2>6. U!Without(b, 0) = SubSeq(b, i, Len(b))  BY <1>4, <2>5 DEF U!Without
  <2>7. SubSeq(b, i, Len(b)) # << >>
    <3>1. Len(SubSeq(b, i, Len(b))) = Len(b) - i + 1  BY <2>2
    <3>2. Len(b) - i + 1 # 0  BY <2>2
    <3>3. Len(<< >>) = 0  OBVIOUS
    <3> QED BY <3>1, <3>2, <3>3
  <2>8. U!Significant(b) = SubSeq(b, i, Len(b))  BY <2>6, <2>7 DEF U!Significant
  <2> HIDE DEF least, most
  <2> QED BY <1>1, <2>4, <2>8
<1> QED BY <1>3, <1>4

(* a field of a cursor that is bad is a dash *)
LEMMA FieldRefused ==
  ASSUME NEW t, NEW c, c.bad
  PROVE  /\ Uint(t, c).val = Dash /\ Uint(t, c).cur.bad
         /\ Bin(t, c).val = Dash /\ Bin(t, c).cur.bad
         /\ Double(t, c).val = Dash /\ Double(t, c).cur.bad
<1>1. Head1(t, c) = \hC1  BY DEF Head1, Refused
<1>2. Uint(t, c) = [cur |-> Bad(Take(c, 1)), val |-> Dash]  BY <1>1 DEF Uint
<1>3. Bin(t, c) = [cur |-> Bad(Take(c, 1)), val |-> Dash]  BY <1>1 DEF Bin
<1>4. Double(t, c) = [cur |-> Take(Bad(Take(c, 1)), 8), val |-> Taken(t, Bad(Take(c, 1)), 8)]
  BY <1>1 DEF Double
<1>5. \A d : Bad(d).bad  BY DEF Bad
<1>6. Refused(Bad(Take(c, 1)), 8)  BY <1>5 DEF Refused
<1>7. Taken(t, Bad(Take(c, 1)), 8) = Dash /\ Take(Bad(Take(c, 1)), 8).bad
  BY <1>5, <1>6 DEF Taken, Take, Dash
<1> QED BY <1>2, <1>3, <1>4, <1>5, <1>7

(* the cursor behind a field is behind the value read there *)
Follows(t, c, cur, o, kinds) ==
  /\ o.v.kind \in kinds => Inside(cur, t) /\ ~cur.bad /\ cur.p = o.at
  /\ o.v.kind \notin kinds => cur.bad

(* the kinds a value has *)
Kinds(h, kind) ==
  \/ h \in U!Containers /\ kind \in {"list", "map", "short"}
  \/ kind = "short"
  \/ h \in {\hC1, \hC2, \hC3} /\ kind \in {"raises", "bool"}
  \/ h = \hC0 /\ kind = "nil"
  \/ \E b : kind = U!Typed(U!Type(h), b).kind

LEMMA KindIs ==
  ASSUME NEW t \in Seq(Byte), NEW f, NEW a \in Nat, a < Len(t), NEW h, h = t[a + 1],
         NEW o, o = U!First(t, f, a)
  PROVE  Kinds(h, o.v.kind)
<1>1. h \in Byte /\ Heads(h) /\ Reads(t, a, h, o)  BY FirstReads
<1>2. CASE h \in U!Containers  BY <1>1, <1>2 DEF Reads, Kinds
<1>3. CASE h \in U!Small
  <2>1. o.v = U!Typed(U!Type(h), <<h>>)  BY <1>1, <1>3 DEF Reads
  <2> QED BY <2>1, Zenon DEF Kinds
<1>4. CASE h \in U!Fixed
  BY <1>1, <1>4 DEF Reads, U!Fixed, U!Nil, U!Raises, U!False, U!True, U!Having, U!Value, Kinds
<1>5. CASE h \in U!Sized
  <2>1. U!Width(h) \in Nat  BY <1>1, <1>5, HeadWidths
  <2>2. a + 1 + U!Width(h) > Len(t) \/ a + 1 + U!Width(h) <= Len(t)  BY <2>1
  <2>3. o.v = U!SHORT \/ \E b : o.v = U!Typed(U!Type(h), b)  BY <1>1, <1>5, <2>2, Zenon DEF Reads
  <2> QED BY <2>3, ShortIs DEF Kinds
<1>6. CASE h \in U!Lengthy
  <2>1. PICK n : Behind(t, a + 1, U!LengthWidth(h), U!TypeByte(h), U!Type(h), n, o)  BY <1>1, <1>6 DEF Reads
  <2>2. U!LengthWidth(h) \in Nat /\ U!TypeByte(h) \in Nat  BY <1>1, <1>6, HeadWidths
  <2>3. o.v = U!SHORT \/ \E b : o.v.kind = U!Typed(U!Type(h), b).kind  BY <2>1, <2>2 DEF Behind
  <2> QED BY <2>3, ShortIs DEF Kinds
<1> QED BY <1>1, <1>2, <1>3, <1>4, <1>5, <1>6 DEF Heads

(* a number is printed alike *)
LEMMA NumbersAlike ==
  ASSUME NEW t \in Seq(Byte), NEW c, Inside(c, t), ~c.bad, c.p < Len(t), NEW f,
         NEW o, o = U!First(t, f, c.p), o.v.kind \notin {"long", "negative", "bool"}
  PROVE  /\ Uint(t, c).val = U!Num(o.v)
         /\ Follows(t, c, Uint(t, c).cur, o, {"int"})
<1> DEFINE a == c.p
           h == t[a + 1]
           c1 == Take(c, 1)
<1>1. a \in Nat /\ a < Len(t)  BY DEF Inside, Cursor
<1>2. h \in Byte /\ Heads(h) /\ Reads(t, a, h, o)  BY <1>1, FirstReads
<1>3. Head1(t, c) = h /\ Inside(c1, t) /\ ~c1.bad /\ c1.p = a + 1  BY HeadIs
<1>4. U!Num(o.v) = IF o.v.kind = "int" THEN o.v.bytes ELSE Dash  BY DEF U!Num, U!Ints, Dash
<1>5. U!Type(h) \in Types  BY <1>2, HeadWidths
<1> HIDE DEF h
<1>6. CASE h < \h80
  <2>1. h \in U!Small /\ U!Type(h) = "int"
    <3>1. h \in 0..\h7F  BY <1>2, <1>6 DEF Byte
    <3> QED BY <1>2, <3>1, TypeIs DEF U!Small
  <2>2. o.v.kind = "int" /\ o.v.bytes = U!Significant(<<h>>) /\ o.at = a + 1
    BY <1>2, <1>5, <2>1, TypedKind DEF Reads
  <2>3. Uint(t, c) = [cur |-> c1, val |-> <<h>>]  BY <1>3, <1>6 DEF Uint
  <2>4. U!Significant(<<h>>) = <<h>>
    <3>1. <<h>> \in Seq(Byte) /\ Len(<<h>>) = 1 /\ <<h>>[1] = h  BY <1>2
    <3>2. CASE h = 0
      <4>1. U!Without(<<h>>, 0) = << >>  BY <3>1, <3>2 DEF U!Without
      <4> QED BY <3>2, <4>1 DEF U!Significant
    <3>3. CASE h # 0
      <4> DEFINE kept == {i \in 1..Len(<<h>>) : <<h>>[i] # 0}
      <4>1. kept = {1}  BY <3>1, <3>3
      <4>2. (CHOOSE i \in kept : \A j \in kept : i <= j) = 1  BY <4>1
      <4>3. SubSeq(<<h>>, 1, 1) = <<h>>
        <5> SUFFICES ASSUME NEW s, s = <<h>> PROVE SubSeq(s, 1, 1) = <<h>>
          OBVIOUS
        <5>1. s \in Seq(Byte) /\ 1 \in 1..Len(s) /\ s[1] = h  BY <3>1
        <5>2. SubSeq(s, 1, 1) = <<s[1]>>  BY <5>1, OneByteOf
        <5> QED BY <5>1, <5>2
      <4>4. U!Without(<<h>>, 0) = <<h>>  BY <3>1, <4>1, <4>2, <4>3 DEF U!Without
      <4>5. <<h>> # << >>  BY <3>1
      <4> QED BY <4>4, <4>5 DEF U!Significant
    <3> QED BY <3>2, <3>3
  <2> QED BY <1>3, <1>4, <2>2, <2>3, <2>4 DEF Follows
<1>7. CASE h \in \hCC..\hCE
  <2> DEFINE w == U!Width(h)
  <2>1. /\ h \in U!Sized /\ U!Type(h) = "int" /\ w \in {1, 2, 4}
        /\ Uint(t, c) = [cur |-> Take(c1, w),
                         val |-> IF Refused(c1, w) THEN Dash ELSE Digits(Taken(t, c1, w))]
    <3>0. h \in U!Sized  BY <1>7 DEF U!Sized
    <3>1. U!Type(h) = "int" /\ h \in U!Sized  BY <1>2, <1>7, <3>0, TypeIs
    <3>2. w = IF h = \hCC THEN 1 ELSE IF h = \hCD THEN 2 ELSE 4  BY <1>7 DEF U!Width, U!IntWidth
    <3>3. ~(h < \h80)  BY <1>7
    <3>4. CASE h = \hCC  BY <1>3, <3>1, <3>2, <3>3, <3>4 DEF Uint
    <3>5. CASE h = \hCD  BY <1>3, <3>1, <3>2, <3>3, <3>5 DEF Uint
    <3>6. CASE h = \hCE  BY <1>3, <3>1, <3>2, <3>3, <3>6 DEF Uint
    <3> QED BY <1>7, <3>4, <3>5, <3>6
  <2> HIDE DEF w
  <2>2. /\ a + 1 + w > Len(t) => o.v = U!SHORT
        /\ a + 1 + w <= Len(t) => o.v = U!Typed("int", SubSeq(t, a + 2, a + 1 + w)) /\ o.at = a + 1 + w
    BY <1>2, <2>1 DEF Reads, w
  <2>3. /\ Inside(Take(c1, w), t)
        /\ Take(c1, w).bad <=> a + 1 + w > Len(t)
        /\ ~Take(c1, w).bad => Take(c1, w).p = a + 1 + w
        /\ Refused(c1, w) <=> a + 1 + w > Len(t)
    BY <1>3, <2>1, TakeIs
  <2>4. CASE a + 1 + w > Len(t)  BY <1>4, <2>1, <2>2, <2>3, <2>4, ShortIs DEF Follows
  <2>5. CASE ~(a + 1 + w > Len(t))
    <3> DEFINE b == SubSeq(t, a + 2, a + 1 + w)
    <3>1. a + 1 + w <= Len(t)  BY <1>1, <2>1, <2>5
    <3>2. o.v.kind = "int" /\ o.v.bytes = U!Significant(b) /\ o.at = a + 1 + w
      BY <1>5, <2>1, <2>2, <3>1, TypedKind
    <3>3. Taken(t, c1, w) = b
      <4>1. (a + 1) + 1 = a + 2  BY <1>1
      <4> QED BY <1>3, <2>3, <2>5, <4>1 DEF Taken
    <3>4. b \in Seq(Byte) /\ Len(b) > 0  BY <1>1, <2>1, <3>1
    <3>5. Digits(b) = U!Significant(b)  BY <3>4, DigitsAlike
    <3> HIDE DEF b
    <3> QED BY <1>4, <2>1, <2>3, <2>5, <3>2, <3>3, <3>5 DEF Follows
  <2> QED BY <2>4, <2>5
<1>8. CASE ~(h < \h80) /\ h \notin \hCC..\hCE
  <2>1. h # \hCC /\ h # \hCD /\ h # \hCE  BY <1>8
  <2>2. Uint(t, c) = [cur |-> Bad(c1), val |-> Dash]  BY <1>3, <1>8, <2>1, Zenon DEF Uint
  <2>3. U!Type(h) # "int"
    <3>1. ASSUME h \in 0..\h7F PROVE FALSE
      <4>1. h < \h80  BY ONLY <3>1
      <4>2. ~(h < \h80)  BY <1>8
      <4> QED BY ONLY <4>1, <4>2
    <3>2. h \notin 0..\h7F  BY ONLY <3>1
    <3> QED BY <1>2, <1>8, <3>2, TypeIs
  <2>4. o.v.kind # "int"
    <3>1. \A b : U!Typed(U!Type(h), b).kind # "int"  BY <1>5, <2>3, TypedKind
    <3>2. Kinds(h, o.v.kind)  BY <1>1, KindIs DEF h
    <3> QED BY <3>1, <3>2 DEF Kinds
  <2> QED BY <1>4, <2>2, <2>4 DEF Follows, Bad
<1> QED BY <1>6, <1>7, <1>8

(* bytes are printed alike *)
LEMMA BytesAlike ==
  ASSUME NEW t \in Seq(Byte), NEW c, Inside(c, t), ~c.bad, c.p < Len(t), NEW f,
         NEW o, o = U!First(t, f, c.p), o.v.kind \notin {"float", "single"},
         "wide" \in o.v.met => "cut" \in o.v.met
  PROVE  /\ Bin(t, c).val = U!Blob(o.v)
         /\ Follows(t, c, Bin(t, c).cur, o, {"bytes", "nil"})
<1> DEFINE a == c.p
           h == t[a + 1]
           c1 == Take(c, 1)
<1>1. a \in Nat /\ a < Len(t)  BY DEF Inside, Cursor
<1>2. h \in Byte /\ Heads(h) /\ Reads(t, a, h, o)  BY <1>1, FirstReads
<1>3. Head1(t, c) = h /\ Inside(c1, t) /\ ~c1.bad /\ c1.p = a + 1  BY HeadIs
<1>4. U!Blob(o.v) = IF o.v.kind = "bytes" THEN o.v.bytes ELSE Dash
  BY DEF U!Blob, U!Bytes, Dash
<1>5. U!Type(h) \in Types  BY <1>2, HeadWidths
<1>6. /\ h = \hC0 => Bin(t, c) = [cur |-> c1, val |-> Dash]
      /\ h # \hC0 /\ h # \hC4 /\ h # \hC5 => Bin(t, c) = [cur |-> Bad(c1), val |-> Dash]
  <2> HIDE DEF h, c1
  <2>1. ASSUME h = \hC0 PROVE Bin(t, c) = [cur |-> c1, val |-> Dash]
    BY <1>3, <2>1 DEF Bin, c1
  <2>2. ASSUME h # \hC0, h # \hC4, h # \hC5 PROVE Bin(t, c) = [cur |-> Bad(c1), val |-> Dash]
    BY <1>3, <2>2, Zenon DEF Bin, c1
  <2> QED BY <2>1, <2>2
<1>7. ASSUME NEW w, h = \hC3 + w, w \in {1, 2}
      PROVE  Bin(t, c) = [cur |-> Counted(t, c1, w, 0),
                          val |-> Taken(t, Take(c1, w), Length(t, c1, w))]
  <2> HIDE DEF h
  <2>1. CASE w = 1
    <3>1. h = \hC4  BY <1>7, <2>1
    <3> QED BY <1>3, <2>1, <3>1 DEF Bin
  <2>2. CASE w = 2
    <3>1. h = \hC5  BY <1>7, <2>2
    <3> QED BY <1>3, <2>2, <3>1 DEF Bin
  <2> QED BY <1>7, <2>1, <2>2
<1> HIDE DEF h
<1>8. CASE h = \hC0
  <2>1. h \in U!Fixed  BY <1>8 DEF U!Fixed
  <2>2. o.v = U!Nil /\ o.at = a + 1  BY <1>2, <1>8, <2>1 DEF Reads
  <2>3. U!Nil.kind = "nil"  BY DEF U!Nil, U!Value
  <2> QED BY <1>3, <1>4, <1>6, <1>8, <2>2, <2>3 DEF Follows
<1>9. CASE h \in {\hC4, \hC5}
  <2>1. PICK w : h = \hC3 + w /\ w \in {1, 2}
    <3>1. CASE h = \hC4
      <4>1. h = \hC3 + 1  BY <3>1
      <4> QED BY <4>1
    <3>2. CASE h = \hC5
      <4>1. h = \hC3 + 2  BY <3>2
      <4> QED BY <4>1
    <3> QED BY <1>9, <3>1, <3>2
  <2>2. h \in U!Lengthy /\ U!LengthWidth(h) = w /\ U!TypeByte(h) = 0 /\ U!Type(h) = "bytes"
    <3>1. h \in U!Lengthy  BY <1>9 DEF U!Lengthy
    <3>2. U!Type(h) = "bytes"
      <4>1. h \in \hC4..\hC6  BY <1>9
      <4> QED BY <1>2, <4>1, TypeIs
    <3>3. U!TypeByte(h) = 0  BY <1>9 DEF U!TypeByte
    <3>4. CASE h = \hC4
      <4>1. w = 1  BY <2>1, <3>4
      <4>2. U!LengthWidth(h) = 1  BY <3>4 DEF U!LengthWidth
      <4> QED BY <3>1, <3>2, <3>3, <4>1, <4>2
    <3>5. CASE h = \hC5
      <4>1. w = 2  BY <2>1, <3>5
      <4>2. U!LengthWidth(h) = 2  BY <3>5 DEF U!LengthWidth
      <4> QED BY <3>1, <3>2, <3>3, <4>1, <4>2
    <3> QED BY <1>9, <3>4, <3>5
  <2>3. PICK n : /\ Behind(t, a + 1, w, 0, "bytes", n, o)
                 /\ n = U!Number(SubSeq(t, a + 2, a + 1 + w))
    BY <1>2, <2>2 DEF Reads
  <2>4. Bin(t, c) = [cur |-> Counted(t, c1, w, 0),
                     val |-> Taken(t, Take(c1, w), Length(t, c1, w))]
    BY <1>7, <2>1 DEF h
  <2> DEFINE c2 == Take(c1, w)
             c3 == Counted(t, c1, w, 0)
  <2>5. n = U!Number(SubSeq(t, c1.p + 1, c1.p + w))
    <3>1. c1.p + 1 = a + 2 /\ c1.p + w = a + 1 + w  BY <1>1, <1>3, <2>1
    <3> QED BY <2>3, <3>1
  <2>6. /\ Inside(c2, t)
        /\ c2.bad <=> a + 1 + w > Len(t)
        /\ ~c2.bad => c2.p = a + 1 + w
    <3>1. w \in Nat  BY <2>1
    <3> QED BY <1>3, <3>1, TakeIs
  <2>7. /\ a + 1 + w > Len(t) => c3.bad
        /\ a + 1 + w <= Len(t) =>
             /\ c3.bad <=> a + 1 + w + 0 + n > Len(t)
             /\ ~c3.bad => c3.p = a + 1 + w + 0 + n
    <3>1. 0 \in {0, 1}  OBVIOUS
    <3> HIDE DEF c1
    <3> QED BY <1>3, <2>1, <2>5, <3>1, CountedIs
  <2>8. Inside(c3, t)
    <3>1. 0 \in Nat  OBVIOUS
    <3> QED BY <1>3, <2>1, <3>1, CountedOnward DEF Onward
  <2>9. Bin(t, c).cur = c3 /\ Bin(t, c).val = Taken(t, c2, Length(t, c1, w))  BY <2>4
  <2>10. w \in Nat  BY <2>1
  <2>11. a + 1 + w <= Len(t) => Length(t, c1, w) = n /\ n \in Nat
    BY <1>3, <2>1, <2>5, LengthIs
  <2> HIDE DEF c1, c2, c3
  <2>12. CASE a + 1 + w > Len(t)
    <3>1. o.v = U!SHORT  BY <2>3, <2>12 DEF Behind
    <3>2. c2.bad /\ c3.bad  BY <2>6, <2>7, <2>12
    <3>3. Taken(t, c2, Length(t, c1, w)) = Dash  BY <3>2 DEF Taken, Refused, Dash
    <3> QED BY <1>4, <2>9, <3>1, <3>2, <3>3, ShortIs DEF Follows
  <2>13. CASE ~(a + 1 + w > Len(t))
    <3>1. a + 1 + w <= Len(t)  BY <1>1, <2>10, <2>13
    <3>2. Length(t, c1, w) = n /\ n \in Nat  BY <2>11, <3>1
    <3>3. ~c2.bad /\ c2.p = a + 1 + w  BY <2>6, <2>13
    <3>4. Refused(c2, n) <=> a + 1 + w + n > Len(t)  BY <2>6, <3>2, <3>3, TakeIs
    <3>5. CASE a + 1 + w + n > Len(t)
      <4>1. a + 1 + w + 0 + n > Len(t)  BY <1>1, <2>10, <3>2, <3>5
      <4>2. o.v = U!SHORT  BY <2>3, <3>1, <4>1 DEF Behind
      <4>3. c3.bad  BY <2>7, <3>1, <4>1
      <4>4. Taken(t, c2, n) = Dash  BY <3>4, <3>5 DEF Taken, Dash
      <4> QED BY <1>4, <2>9, <3>2, <4>2, <4>3, <4>4, ShortIs DEF Follows
    <3>6. CASE ~(a + 1 + w + n > Len(t))
      <4> DEFINE e == a + 1 + w + 0 + n
                 b == SubSeq(t, a + 1 + w + 1, e)
      <4>1. e <= Len(t) /\ e = a + 1 + w + n  BY <1>1, <2>10, <3>2, <3>6
      <4>2. o.v.kind = U!Typed("bytes", b).kind /\ o.v.bytes = U!Typed("bytes", b).bytes
            /\ o.at = e
        BY <2>3, <3>1, <4>1 DEF Behind
      <4>3. ~c3.bad /\ c3.p = e
        <5>1. ~(e > Len(t))  BY <1>1, <2>10, <3>2, <4>1
        <5> QED BY <2>7, <3>1, <5>1
      <4>4. Taken(t, c2, n) = b  BY <3>3, <3>4, <3>6, <4>1 DEF Taken
      <4> HIDE DEF b, e
      <4>5. o.v.kind = "bytes" /\ o.v.bytes = b  BY <4>2 DEF U!Typed, U!Value
      <4> QED BY <1>4, <2>8, <2>9, <3>2, <4>2, <4>3, <4>4, <4>5 DEF Follows
    <3> QED BY <3>5, <3>6
  <2> QED BY <2>12, <2>13
<1>10. CASE h # \hC0 /\ h \notin {\hC4, \hC5}
  <2>1. Bin(t, c) = [cur |-> Bad(c1), val |-> Dash]  BY <1>6, <1>10
  <2>2. o.v.kind # "bytes"
    <3>1. CASE h = \hC6
      <4>1. h \in U!Lengthy /\ U!LengthWidth(h) = 4 /\ U!TypeByte(h) = 0
        BY <3>1 DEF U!Lengthy, U!LengthWidth, U!TypeByte
      <4>2. PICK n : Behind(t, a + 1, 4, 0, U!Type(h), n, o)  BY <1>2, <4>1 DEF Reads
      <4>3. o.v = U!SHORT \/ o.v.met = {"wide"}
        <5>1. a + 1 + 4 > Len(t) \/ a + 1 + 4 <= Len(t)  BY <1>1
        <5>2. CASE a + 1 + 4 > Len(t)  BY <4>2, <5>2 DEF Behind
        <5>3. CASE a + 1 + 4 <= Len(t)
          <6>1. n \in Nat  BY <4>2, <5>3 DEF Behind
          <6>2. a + 1 + 4 + 0 + n > Len(t) \/ a + 1 + 4 + 0 + n <= Len(t)  BY <1>1, <6>1
          <6> QED BY <4>2, <5>3, <6>2 DEF Behind
        <5> QED BY <5>1, <5>2, <5>3
      <4> QED BY <4>3, ShortIs
    <3>2. CASE h # \hC6
      <4>1. U!Type(h) # "bytes"
        <5>1. h \notin \hC4..\hC6  BY <1>10, <3>2
        <5> QED BY <1>2, <5>1, TypeIs
      <4>2. \A b : U!Typed(U!Type(h), b).kind # "bytes"  BY <1>5, <4>1, TypedKind
      <4>3. Kinds(h, o.v.kind)  BY <1>1, KindIs DEF h
      <4> QED BY <4>2, <4>3 DEF Kinds
    <3> QED BY <3>1, <3>2
  <2>3. o.v.kind # "nil"
    <3>1. \A b : U!Typed(U!Type(h), b).kind # "nil"  BY <1>5, TypedKind
    <3>2. Kinds(h, o.v.kind)  BY <1>1, KindIs DEF h
    <3> QED BY <1>10, <3>1, <3>2 DEF Kinds
  <2> QED BY <1>4, <2>1, <2>2, <2>3 DEF Follows, Bad
<1> QED BY <1>8, <1>9, <1>10

(* a double is printed alike *)
LEMMA DoublesAlike ==
  ASSUME NEW t \in Seq(Byte), NEW c, Inside(c, t), ~c.bad, c.p < Len(t), NEW f,
         NEW o, o = U!First(t, f, c.p), o.v.kind \notin {"bytes", "single"}
  PROVE  /\ Double(t, c).val = U!Blob(o.v)
         /\ Follows(t, c, Double(t, c).cur, o, {"float"})
<1> DEFINE a == c.p
           h == t[a + 1]
           c1 == Take(c, 1)
<1>1. a \in Nat /\ a < Len(t)  BY DEF Inside, Cursor
<1>2. h \in Byte /\ Heads(h) /\ Reads(t, a, h, o)  BY <1>1, FirstReads
<1>3. Head1(t, c) = h /\ Inside(c1, t) /\ ~c1.bad /\ c1.p = a + 1  BY HeadIs
<1>4. U!Blob(o.v) = IF o.v.kind = "float" THEN o.v.bytes ELSE Dash
  BY DEF U!Blob, U!Bytes, Dash
<1>5. U!Type(h) \in Types  BY <1>2, HeadWidths
<1> HIDE DEF h
<1>6. CASE h = \hCB
  <2>1. h \in U!Sized /\ U!Width(h) = 8 /\ U!Type(h) = "float"
    <3>1. h \in U!Sized  BY <1>6 DEF U!Sized
    <3>2. U!Type(h) = "float"  BY <1>2, <1>6, TypeIs
    <3>3. U!Width(h) = 8  BY <1>6 DEF U!Width
    <3> QED BY <3>1, <3>2, <3>3
  <2>2. Double(t, c) = [cur |-> Take(c1, 8), val |-> Taken(t, c1, 8)]  BY <1>3, <1>6 DEF Double
  <2>3. /\ a + 1 + 8 > Len(t) => o.v = U!SHORT
        /\ a + 1 + 8 <= Len(t) =>
             o.v = U!Typed("float", SubSeq(t, a + 2, a + 1 + 8)) /\ o.at = a + 1 + 8
    BY <1>2, <2>1 DEF Reads
  <2>4. /\ Inside(Take(c1, 8), t)
        /\ Take(c1, 8).bad <=> a + 1 + 8 > Len(t)
        /\ ~Take(c1, 8).bad => Take(c1, 8).p = a + 1 + 8
        /\ Refused(c1, 8) <=> a + 1 + 8 > Len(t)
    <3>1. 8 \in Nat  OBVIOUS
    <3> QED BY <1>3, <3>1, TakeIs
  <2>5. CASE a + 1 + 8 > Len(t)
    <3>1. Taken(t, c1, 8) = Dash  BY <2>4, <2>5 DEF Taken, Dash
    <3> QED BY <1>4, <2>2, <2>3, <2>4, <2>5, <3>1, ShortIs DEF Follows
  <2>6. CASE ~(a + 1 + 8 > Len(t))
    <3> DEFINE b == SubSeq(t, a + 2, a + 1 + 8)
    <3>1. a + 1 + 8 <= Len(t)  BY <1>1, <2>6
    <3>2. o.v = U!Typed("float", b) /\ o.at = a + 1 + 8  BY <2>3, <3>1
    <3>3. Taken(t, c1, 8) = b
      <4>1. (a + 1) + 1 = a + 2  BY <1>1
      <4> QED BY <1>3, <2>4, <2>6, <4>1 DEF Taken
    <3> HIDE DEF b
    <3>4. o.v.kind = "float" /\ o.v.bytes = b  BY <3>2 DEF U!Typed, U!Value
    <3> QED BY <1>4, <2>2, <2>4, <2>6, <3>2, <3>3, <3>4 DEF Follows
  <2> QED BY <2>5, <2>6
<1>7. CASE h # \hCB
  <2>1. Double(t, c) = [cur |-> Take(Bad(c1), 8), val |-> Taken(t, Bad(c1), 8)]
    BY <1>3, <1>7 DEF Double
  <2>2. Bad(c1).bad  BY DEF Bad
  <2>3. Take(Bad(c1), 8).bad /\ Taken(t, Bad(c1), 8) = Dash
    BY <2>2 DEF Take, Taken, Refused, Bad, Dash
  <2>4. o.v.kind # "float"
    <3>1. U!Type(h) # "float"  BY <1>2, <1>7, TypeIs
    <3>2. \A b : U!Typed(U!Type(h), b).kind # "float"  BY <1>5, <3>1, TypedKind
    <3>3. Kinds(h, o.v.kind)  BY <1>1, KindIs DEF h
    <3> QED BY <3>2, <3>3 DEF Kinds
  <2> QED BY <1>4, <2>1, <2>3, <2>4 DEF Follows
<1> QED BY <1>6, <1>7

-----------------------------------------------------------------------------
(* The map of an advertisement, where its first key is, how many keys and   *)
(* values it announces, and what the generator reads them as.               *)
OpensMap(t) == Len(t) > 0 /\ t[1] \in FixMap \union {Map16} /\ 1 + U!LengthWidth(t[1]) <= Len(t)
All(t) == U!Reading(t)[1 + U!LengthWidth(t[1])][U!Held(t, 0)].v

(* keys and values owed, a key that is read owing its value *)
Owes(where, n) == IF where \in {"value", "skipkey"} THEN 2 * n + 1 ELSE 2 * n
Queue(o, s) == [i \in 0..Len(s) |-> IF i = 0 THEN o ELSE s[i]]

(* the cursor c is where o of the map and s of the containers open are owed *)
Placed(t, c, o, s) ==
  IF c.bad THEN Refusable(U!Met(All(t)))
  ELSE \E e : Owing(t, U!Reading(t), All(t), U!Held(t, 0), e, Queue(o, s), Len(s), c.p)

(* where among the first j the name k is *)
Places(all, k, j) ==
  {i \in U!KeyPlaces(all) : i <= j /\ U!SameKey(all[i], U!Value("str", <<k>>))}

(* what the walk remembers of the first j *)
Recalls(t, j, val, tw) ==
  ~Refusable(U!Met(All(t))) =>
    /\ \A k \in Keys : val[k].bad => Places(All(t), k, j) = {}
    /\ \A k \in Keys : ~val[k].bad =>
         \E i \in Places(All(t), k, j) :
           /\ val[k].p < Len(t) /\ i + 1 \in 1..Len(All(t))
           /\ All(t)[i + 1] = U!First(t, U!Reading(t), val[k].p).v
    /\ tw <=> \E k \in Keys : \E i, g \in Places(All(t), k, j) : i < g

(* element j is the value at a place *)
Reveals(t, j, p) ==
  ~Refusable(U!Met(All(t))) =>
    /\ j \in 1..Len(All(t)) /\ p < Len(t)
    /\ All(t)[j] = U!First(t, U!Reading(t), p).v

LEMMA QueueIs ==
  ASSUME NEW o \in Nat, NEW s \in Seq(Nat)
  PROVE  /\ Queue(o, s) \in [0..Len(s) -> Nat] /\ Queue(o, s)[0] = o
         /\ \A i \in 1..Len(s) : Queue(o, s)[i] = s[i]
         /\ Len(s) \in Nat
<1>1. Len(s) \in Nat /\ \A i \in 1..Len(s) : s[i] \in Nat  OBVIOUS
<1>2. 0 \in 0..Len(s) /\ \A i \in 1..Len(s) : i \in 0..Len(s) /\ i # 0  BY <1>1
<1>3. \A i \in 0..Len(s) : i # 0 => i \in 1..Len(s)  BY <1>1
<1> QED BY <1>1, <1>2, <1>3 DEF Queue

(* what the map announces *)
LEMMA MapIs ==
  ASSUME NEW t \in Seq(Byte), OpensMap(t)
  PROVE  /\ U!Held(t, 0) \in Nat /\ IsSeq(All(t))
         /\ 1 + U!LengthWidth(t[1]) \in 0..Len(t)
         /\ t[1] \in U!Containers /\ t[1] \in U!Maps /\ U!LengthWidth(t[1]) \in {0, 2}
         /\ 0 < Len(t)
<1> DEFINE h == t[1]
           b == 1 + U!LengthWidth(h)
<1>1. h \in FixMap \union {Map16} /\ b <= Len(t) /\ 0 < Len(t) /\ h \in Byte
  BY DEF OpensMap
<1>2. h \in U!Maps /\ h \in U!Containers
  BY <1>1 DEF U!Maps, U!Containers, U!FixMaps, FixMap, Map16
<1>3. U!LengthWidth(h) \in {0, 2}
  <2>1. h \in FixMap => U!LengthWidth(h) = 0  BY <1>1, ContainerHeads
  <2>2. h = Map16 => U!LengthWidth(h) = 2  BY <1>1, ContainerHeads
  <2> QED BY <1>1, <2>1, <2>2
<1> HIDE DEF h
<1>4. b \in 0..Len(t)  BY <1>1, <1>3
<1>5. U!Held(t, 0) \in Nat
  <2>1. 0 + 1 = 1 /\ 0 + 1 + U!LengthWidth(t[0 + 1]) <= Len(t) /\ 0 \in Nat
    BY <1>1, <1>3 DEF h
  <2> QED BY <1>1, <1>2, <2>1, HeldNat DEF h
<1> DEFINE f == U!Reading(t)
           N == U!Held(t, 0)
<1>6. IsSeq(All(t))
  <2>1. All(t) = f[b][N].v  BY DEF All, h
  <2> HIDE DEF b, N
  <2>2. Split(t, b, N, U!First(t, f, b), f[U!First(t, f, b).at][N - 1], f[b][N])
    BY <1>4, <1>5, ReadingSplit DEF N
  <2> QED BY <2>1, <2>2 DEF Split, Good
<1> QED BY <1>1, <1>2, <1>3, <1>4, <1>5, <1>6 DEF h

(* the map is open: everything is owed *)
LEMMA PlacedFirst ==
  ASSUME NEW t \in Seq(Byte), OpensMap(t), NEW c, ~c.bad, c.p = 1 + U!LengthWidth(t[1])
  PROVE  Placed(t, c, U!Held(t, 0), << >>)
<1> DEFINE N == U!Held(t, 0)
           f == U!Reading(t)
           e == [i \in 0..0 |-> c.p]
           q == Queue(N, << >>)
<1>1. N \in Nat /\ IsSeq(All(t)) /\ c.p \in 0..Len(t)  BY MapIs
<1>2. << >> \in Seq(Nat) /\ Len(<< >>) = 0  OBVIOUS
<1> HIDE DEF N
<1>3. q \in [0..0 -> Nat] /\ q[0] = N  BY <1>1, <1>2, QueueIs
<1> HIDE DEF q
<1>4. e \in [0..0 -> 0..Len(t)] /\ e[0] = c.p  BY <1>1
<1> HIDE DEF e
<1>5. Chain(t, f, e, q, 0, c.p)  BY <1>3, <1>4 DEF Chain
<1>6. f[e[0]][q[0]].v = All(t)  BY <1>3, <1>4 DEF All, N
<1>7. Owed(f, e, q, 0) = U!Met(All(t))  BY <1>6 DEF Owed
<1>8. Remaining(All(t), N - q[0], All(t))
  <2>1. N - q[0] = 0  BY <1>1, <1>3
  <2>2. Len(All(t)) \in Nat  BY <1>1, SeqsJoin
  <2>3. Remaining(All(t), 0, All(t))  BY <1>1, <2>2 DEF Remaining
  <2> QED BY <2>1, <2>3
<1>9. \A i \in 0..0 : i = 0  OBVIOUS
<1>10. Owing(t, f, All(t), N, e, q, 0, c.p)  BY <1>1, <1>3, <1>5, <1>6, <1>7, <1>8, <1>9 DEF Owing
<1> QED BY <1>2, <1>10 DEF Placed, N, q

(* the value at the cursor is the next of the map *)
LEMMA PlacedReveals ==
  ASSUME NEW t \in Seq(Byte), OpensMap(t), NEW c, Inside(c, t),
         NEW o \in Nat, o > 0, Placed(t, c, o, << >>)
  PROVE  /\ Reveals(t, (U!Held(t, 0) - o) + 1, c.p)
         /\ ~c.bad => o <= U!Held(t, 0)
<1> DEFINE N == U!Held(t, 0)
           f == U!Reading(t)
           q == Queue(o, << >>)
           one == U!First(t, f, c.p)
<1>1. N \in Nat /\ IsSeq(All(t))  BY MapIs
<1>2. << >> \in Seq(Nat) /\ Len(<< >>) = 0  OBVIOUS
<1>3. q \in [0..0 -> Nat] /\ q[0] = o  BY <1>2, QueueIs
<1>4. CASE c.bad  BY <1>4 DEF Placed, Reveals
<1>5. CASE ~c.bad
  <2>1. PICK e : Owing(t, f, All(t), N, e, q, 0, c.p)  BY <1>2, <1>5 DEF Placed
  <2> HIDE DEF q, N
  <2>2. q[0] > 0  BY <1>3
  <2>3. /\ c.p = Len(t) => Refusable(U!Met(All(t)))
        /\ c.p < Len(t) => Split(t, c.p, q[0], one, f[one.at][q[0] - 1], f[c.p][q[0]])
    BY <1>1, <1>5, <2>1, <2>2, OwingNext, Zenon
  <2>4. o <= N /\ Remaining(All(t), N - o, f[c.p][o].v)
    <3>1. e[0] = c.p  BY <2>1 DEF Owing, Chain
    <3> QED BY <1>3, <2>1, <3>1 DEF Owing
  <2>5. c.p \in 0..Len(t)  BY DEF Inside
  <2>6. ASSUME ~Refusable(U!Met(All(t)))
        PROVE  (N - o) + 1 \in 1..Len(All(t)) /\ c.p < Len(t) /\ All(t)[(N - o) + 1] = one.v
    <3>1. c.p < Len(t)  BY <2>3, <2>5, <2>6
    <3>2. Split(t, c.p, o, one, f[one.at][o - 1], f[c.p][o])  BY <1>3, <2>3, <3>1
    <3> HIDE DEF one
    <3>3. f[c.p][o].v = <<one.v>> \o f[one.at][o - 1].v /\ IsSeq(f[one.at][o - 1].v)
      BY <3>1, <3>2 DEF Split, Good
    <3>4. (N - o) + 1 \in 1..Len(All(t)) /\ All(t)[(N - o) + 1] = one.v
      <4> SUFFICES ASSUME NEW all, all = All(t), NEW j, j = N - o, NEW r, r = f[c.p][o].v,
                          NEW v, v = one.v, NEW rest, rest = f[one.at][o - 1].v
                   PROVE  Remaining(all, j + 1, rest) /\ j + 1 \in 1..Len(all) /\ all[j + 1] = v
        OBVIOUS
      <4>1. Remaining(all, j, r)  BY <2>4
      <4>2. r = <<v>> \o rest /\ IsSeq(rest)  BY <3>3
      <4> QED BY ONLY <4>1, <4>2, RemainingOn
    <3> QED BY <3>1, <3>4
  <2> QED BY <2>4, <2>6 DEF Reveals, N
<1> QED BY <1>4, <1>5

(* one value of the map: read, and a container it opens is owed next *)
LEMMA PlacedDown ==
  ASSUME NEW t \in Seq(Byte), OpensMap(t), NEW c, Inside(c, t),
         NEW o \in Nat, o > 0, Placed(t, c, o, << >>),
         NEW k, k = Elements(t, Take(c, 1), Head1(t, c)),
         NEW s, s = IF k > 0 THEN Append(<< >>, k) ELSE << >>
  PROVE  Placed(t, Stepped(t, Take(c, 1), Head1(t, c)), o - 1, s)
<1> DEFINE N == U!Held(t, 0)
           f == U!Reading(t)
           q == Queue(o, << >>)
           d == Stepped(t, Take(c, 1), Head1(t, c))
           q2 == Queue(o - 1, s)
<1>1. N \in Nat  BY MapIs
<1>2. << >> \in Seq(Nat) /\ Len(<< >>) = 0  OBVIOUS
<1>3. q \in [0..0 -> Nat] /\ q[0] = o  BY <1>2, QueueIs
<1>4. Inside(Take(c, 1), t) /\ Head1(t, c) \in Byte  BY HeadByte, TakeOnward DEF Onward
<1>5. k \in Nat  BY <1>4, ElementsNat
<1>6. CASE c.bad
  <2>1. Take(c, 1).bad  BY <1>6 DEF Take, Refused, Bad
  <2>2. d.bad
    <3>1. Onward(Take(c, 1), d, t)  BY <1>4, SteppedOnward
    <3> QED BY <2>1, <3>1 DEF Onward
  <2> QED BY <1>6, <2>2 DEF Placed
<1>7. CASE ~c.bad
  <2>1. PICK e : Owing(t, f, All(t), N, e, q, 0, c.p)  BY <1>2, <1>7 DEF Placed
  <2> HIDE DEF q, N, d, f
  <2>2. q[0] > 0  BY <1>3
  <2>3. d.bad => Refusable(U!Met(All(t)))
    BY <1>1, <1>7, <2>1, <2>2, OwingNext, Zenon DEF d, f
  <2>4. ASSUME ~d.bad PROVE \E e2 : Owing(t, f, All(t), N, e2, q2, Len(s), d.p)
    <3>1. /\ s \in Seq(Nat) /\ Len(s) = IF k > 0 THEN 1 ELSE 0
          /\ k > 0 => s[1] = k
      BY <1>2, <1>5
    <3>2. o - 1 \in Nat  OBVIOUS
    <3>3. /\ q2 \in [0..Len(s) -> Nat] /\ q2[0] = o - 1
          /\ \A i \in 1..Len(s) : q2[i] = s[i]
      BY <3>1, <3>2, QueueIs
    <3> HIDE DEF q2
    <3>4. Len(s) = IF k > 0 THEN 0 + 1 ELSE 0  BY <3>1
    <3>5. \A i \in 0..(0 - 1) : q2[i] = q[i]  OBVIOUS
    <3>6. q2[0] = q[0] - 1 /\ (k > 0 => q2[0 + 1] = k)
      <4>1. k > 0 => 1 \in 1..Len(s)  BY <3>1
      <4> QED BY <1>3, <3>1, <3>3, <4>1
    <3>7. Descends(t, c, 0, q, d, k, Len(s), q2)
      BY <1>7, <2>2, <2>4, <3>3, <3>4, <3>5, <3>6 DEF Descends, d
    <3>8. f = U!Reading(t)  BY DEF f
    <3> QED BY ONLY t \in Seq(Byte), Inside(c, t), <1>1, <2>1, <3>7, <3>8, OwingDescends, Zenon
  <2> QED BY <2>3, <2>4 DEF Placed, N, f, d
<1> QED BY <1>6, <1>7

(* one element of the innermost container open *)
LEMMA PlacedInner ==
  ASSUME NEW t \in Seq(Byte), OpensMap(t), NEW c, Inside(c, t), ~c.bad,
         NEW o \in Nat, NEW s \in Seq(Nat), Len(s) > 0, s[Len(s)] > 0, Placed(t, c, o, s),
         NEW k, k = Elements(t, Take(c, 1), Head1(t, c)),
         NEW up, up = [s EXCEPT ![Len(s)] = @ - 1],
         NEW s2, s2 = IF k > 0 THEN Append(up, k) ELSE up
  PROVE  Placed(t, Stepped(t, Take(c, 1), Head1(t, c)), o, s2)
<1> DEFINE N == U!Held(t, 0)
           f == U!Reading(t)
           n == Len(s)
           q == Queue(o, s)
           d == Stepped(t, Take(c, 1), Head1(t, c))
           q2 == Queue(o, s2)
<1>1. N \in Nat  BY MapIs
<1>2. /\ q \in [0..n -> Nat] /\ q[0] = o /\ \A i \in 1..n : q[i] = s[i]
      /\ n \in Nat /\ n \in 1..n
  BY QueueIs
<1>3. Inside(Take(c, 1), t) /\ Head1(t, c) \in Byte  BY HeadByte, TakeOnward DEF Onward
<1>4. k \in Nat  BY <1>3, ElementsNat
<1>5. /\ up \in Seq(Nat) /\ Len(up) = n /\ up[n] = s[n] - 1
      /\ \A i \in 1..n : i # n => up[i] = s[i]
  BY <1>2
<1>6. /\ s2 \in Seq(Nat) /\ Len(s2) = IF k > 0 THEN n + 1 ELSE n
      /\ \A i \in 1..n : s2[i] = up[i]
      /\ k > 0 => s2[n + 1] = k
  <2>1. CASE k > 0
    <3>1. s2 = Append(up, k)  BY <2>1
    <3>2. /\ Append(up, k) \in Seq(Nat) /\ Len(Append(up, k)) = n + 1
          /\ \A i \in 1..n : Append(up, k)[i] = up[i]
          /\ Append(up, k)[n + 1] = k
      BY ONLY <1>2, <1>4, <1>5
    <3> QED BY <2>1, <3>1, <3>2
  <2>2. CASE ~(k > 0)
    <3>1. s2 = up  BY <2>2
    <3> QED BY <1>5, <2>2, <3>1
  <2> QED BY <2>1, <2>2
<1>7. q2 \in [0..Len(s2) -> Nat] /\ q2[0] = o /\ \A i \in 1..Len(s2) : q2[i] = s2[i]
  BY ONLY o \in Nat, <1>6, QueueIs
<1> HIDE DEF q, N, d, f, q2, n
<1>8. PICK e : Owing(t, f, All(t), N, e, q, n, c.p)  BY DEF Placed, N, f, q, n
<1>9. q[n] > 0  BY <1>2 DEF n
<1>10. d.bad => Refusable(U!Met(All(t)))
  <2>1. f = U!Reading(t) /\ d = Stepped(t, Take(c, 1), Head1(t, c))  BY DEF f, d
  <2> QED BY ONLY t \in Seq(Byte), Inside(c, t), ~c.bad, <1>1, <1>8, <1>9, <2>1, OwingNext, Zenon
<1>11. ASSUME ~d.bad PROVE \E e2 : Owing(t, f, All(t), N, e2, q2, Len(s2), d.p)
  <2>1. \A i \in 1..n : i \in 1..Len(s2)  BY <1>2, <1>6
  <2>2. ASSUME NEW i \in 0..(n - 1) PROVE q2[i] = q[i]
    <3>1. CASE i = 0  BY <1>2, <1>7, <3>1
    <3>2. CASE i # 0
      <4>1. i \in 1..n /\ i # n  BY <1>2, <3>2
      <4> QED BY <1>2, <1>5, <1>6, <1>7, <2>1, <4>1
    <3> QED BY <3>1, <3>2
  <2>3. q2[n] = q[n] - 1  BY <1>2, <1>5, <1>6, <1>7, <2>1
  <2>4. k > 0 => q2[n + 1] = k
    <3>1. k > 0 => n + 1 \in 1..Len(s2)  BY <1>2, <1>6
    <3> QED BY <1>6, <1>7, <3>1
  <2>5. Descends(t, c, n, q, d, k, Len(s2), q2)
    BY <1>6, <1>7, <1>9, <1>11, <2>2, <2>3, <2>4 DEF Descends, d
  <2>6. f = U!Reading(t)  BY DEF f
  <2> QED BY ONLY t \in Seq(Byte), Inside(c, t), <1>1, <1>8, <2>5, <2>6, OwingDescends, Zenon
<1> QED BY <1>10, <1>11 DEF Placed, N, f, d, q2

LEMMA FrontIs ==
  ASSUME NEW s \in Seq(Nat), Len(s) > 0
  PROVE  /\ SubSeq(s, 1, Len(s) - 1) \in Seq(Nat)
         /\ Len(SubSeq(s, 1, Len(s) - 1)) = Len(s) - 1
         /\ \A i \in 1..(Len(s) - 1) : SubSeq(s, 1, Len(s) - 1)[i] = s[i]
<1>1. Len(s) - 1 \in Nat /\ Len(s) - 1 <= Len(s) /\ Len(s) \in Nat  OBVIOUS
<1>2. SubSeq(s, 1, Len(s) - 1) \in Seq(Nat)  BY <1>1
<1>3. Len(SubSeq(s, 1, Len(s) - 1)) = Len(s) - 1
  <2>1. \A k \in Nat : k <= Len(s) => Len(SubSeq(s, 1, k)) = k  OBVIOUS
  <2> QED BY <1>1, <2>1
<1>4. ASSUME NEW i \in 1..(Len(s) - 1) PROVE SubSeq(s, 1, Len(s) - 1)[i] = s[i]
  <2>1. 1 + i - 1 = i  OBVIOUS
  <2> QED BY <1>1, <2>1
<1> QED BY <1>2, <1>3, <1>4

(* leaving the innermost container *)
LEMMA PlacedUp ==
  ASSUME NEW t \in Seq(Byte), OpensMap(t), NEW c,
         NEW o \in Nat, NEW s \in Seq(Nat), Len(s) > 0, s[Len(s)] = 0 \/ c.bad,
         Placed(t, c, o, s), NEW s2, s2 = SubSeq(s, 1, Len(s) - 1)
  PROVE  Placed(t, c, o, s2)
<1> DEFINE N == U!Held(t, 0)
           f == U!Reading(t)
           n == Len(s)
           q == Queue(o, s)
           q2 == Queue(o, s2)
<1>1. N \in Nat  BY MapIs
<1>2. /\ q \in [0..n -> Nat] /\ q[0] = o /\ \A i \in 1..n : q[i] = s[i]
      /\ n \in Nat /\ n \in 1..n
  BY QueueIs
<1>3. s2 \in Seq(Nat) /\ Len(s2) = n - 1 /\ \A i \in 1..(n - 1) : s2[i] = s[i] /\ i \in 1..n
  <2>1. \A i \in 1..(n - 1) : i \in 1..n  BY <1>2
  <2>2. /\ SubSeq(s, 1, n - 1) \in Seq(Nat) /\ Len(SubSeq(s, 1, n - 1)) = n - 1
        /\ \A i \in 1..(n - 1) : SubSeq(s, 1, n - 1)[i] = s[i]
    BY ONLY s \in Seq(Nat), Len(s) > 0, FrontIs
  <2>3. s2 = SubSeq(s, 1, n - 1)  OBVIOUS
  <2> QED BY ONLY <2>1, <2>2, <2>3
<1>4. q2 \in [0..(n - 1) -> Nat] /\ q2[0] = o /\ \A i \in 1..(n - 1) : q2[i] = s2[i]
  <2>1. /\ q2 \in [0..Len(s2) -> Nat] /\ q2[0] = o
        /\ \A i \in 1..Len(s2) : q2[i] = s2[i]
    BY ONLY o \in Nat, <1>3, QueueIs
  <2> QED BY <1>3, <2>1
<1> HIDE DEF q, N, f, q2, n
<1>5. CASE c.bad  BY <1>5 DEF Placed
<1>6. CASE ~c.bad
  <2>1. PICK e : Owing(t, f, All(t), N, e, q, n, c.p)  BY <1>6 DEF Placed, N, f, q, n
  <2>2. q[n] = 0 /\ n > 0  BY <1>2, <1>6 DEF n
  <2>3. ASSUME NEW i \in 0..(n - 1) PROVE q2[i] = q[i]
    <3>1. CASE i = 0  BY <1>2, <1>4, <3>1
    <3>2. CASE i # 0
      <4>1. i \in 1..(n - 1)  BY <1>2, <3>2
      <4> QED BY <1>2, <1>3, <1>4, <4>1
    <3> QED BY <3>1, <3>2
  <2>4. f = U!Reading(t)  BY DEF f
  <2>5. \E e2 : Owing(t, f, All(t), N, e2, q2, n - 1, c.p)
    <3>1. \A i \in 0..(n - 1) : q2[i] = q[i]  BY ONLY <2>3
    <3>2. N \in Nat /\ q2 \in [0..(n - 1) -> Nat]  BY <1>1, <1>4
    <3> QED BY ONLY t \in Seq(Byte), <2>1, <2>2, <2>4, <3>1, <3>2, OwingUp
  <2> QED BY <1>3, <1>6, <2>5 DEF Placed, N, f, q2
<1> QED BY <1>5, <1>6

-----------------------------------------------------------------------------
(* each value met part of what all met *)
LEMMA MetOfEach ==
  ASSUME NEW all, NEW i \in 1..Len(all)
  PROVE  all[i].met \subseteq U!Met(all)
BY DEF U!Met

(* one more looked at *)
LEMMA PlacesNext ==
  ASSUME NEW all, Len(all) \in Nat, NEW k, NEW j \in Nat
  PROVE  /\ Places(all, k, j) \subseteq Places(all, k, j + 1)
         /\ Places(all, k, j + 1) \subseteq Places(all, k, j) \union {j + 1}
         /\ j + 1 \in Places(all, k, j + 1) <=>
              j + 1 \in U!KeyPlaces(all) /\ U!SameKey(all[j + 1], U!Value("str", <<k>>))
         /\ \A i \in Places(all, k, j) : i \in Nat /\ i < j + 1
<1>1. \A i \in U!KeyPlaces(all) : i \in Nat  BY DEF U!KeyPlaces
<1>2. \A i \in Nat : i <= j + 1 <=> i <= j \/ i = j + 1  OBVIOUS
<1>3. \A i \in Nat : i <= j => i < j + 1  OBVIOUS
<1> QED BY <1>1, <1>2, <1>3 DEF Places

(* nothing looked at yet *)
LEMMA RecallsFirst ==
  ASSUME NEW t \in Seq(Byte), OpensMap(t), NEW val, \A k \in Keys : val[k].bad
  PROVE  Recalls(t, 0, val, FALSE)
<1>1. Len(All(t)) \in Nat  BY MapIs, SeqsJoin
<1>2. ASSUME NEW k PROVE Places(All(t), k, 0) = {}
  <2>1. \A i \in U!KeyPlaces(All(t)) : i \in Nat /\ i > 0  BY <1>1 DEF U!KeyPlaces
  <2> QED BY <2>1 DEF Places
<1> QED BY <1>2 DEF Recalls

(* a value of the map, or a key that is none of the names *)
LEMMA RecallsOther ==
  ASSUME NEW t \in Seq(Byte), OpensMap(t), NEW j \in Nat, NEW val, NEW tw, Recalls(t, j, val, tw),
         ~Refusable(U!Met(All(t))) =>
           \/ (j + 1) % 2 = 0
           \/ \A k \in Keys : ~U!SameKey(All(t)[j + 1], U!Value("str", <<k>>))
  PROVE  Recalls(t, j + 1, val, tw)
<1>1. Len(All(t)) \in Nat  BY MapIs, SeqsJoin
<1>2. ASSUME ~Refusable(U!Met(All(t))), NEW k \in Keys
      PROVE  Places(All(t), k, j + 1) = Places(All(t), k, j)
  <2> SUFFICES ASSUME NEW all, all = All(t) PROVE Places(all, k, j + 1) = Places(all, k, j)
    OBVIOUS
  <2>1. /\ Places(all, k, j) \subseteq Places(all, k, j + 1)
        /\ Places(all, k, j + 1) \subseteq Places(all, k, j) \union {j + 1}
        /\ j + 1 \in Places(all, k, j + 1) <=>
             j + 1 \in U!KeyPlaces(all) /\ U!SameKey(all[j + 1], U!Value("str", <<k>>))
    BY <1>1, PlacesNext
  <2>2. j + 1 \notin U!KeyPlaces(all) \/ ~U!SameKey(all[j + 1], U!Value("str", <<k>>))
    BY <1>2 DEF U!KeyPlaces
  <2> QED BY <2>1, <2>2
<1> QED BY <1>2 DEF Recalls

(* a name met and its value remembered *)
LEMMA RecallsName ==
  ASSUME NEW t \in Seq(Byte), OpensMap(t), NEW j \in Nat, j % 2 = 0,
         NEW val \in [Keys -> Cursor], NEW tw \in BOOLEAN, Recalls(t, j, val, tw),
         NEW x \in Keys, NEW d, ~d.bad,
         ~Refusable(U!Met(All(t))) => /\ j + 1 \in 1..Len(All(t))
                                      /\ All(t)[j + 1] = U!Value("str", <<x>>),
         Reveals(t, j + 2, d.p)
  PROVE  Recalls(t, j + 1, [val EXCEPT ![x] = d], tw \/ ~val[x].bad)
<1> DEFINE all == All(t)
           val2 == [val EXCEPT ![x] = d]
<1> SUFFICES ASSUME ~Refusable(U!Met(all))
             PROVE  Recalls(t, j + 1, [val EXCEPT ![x] = d], tw \/ ~val[x].bad)
  BY DEF Recalls
<1>1. Len(all) \in Nat  BY MapIs, SeqsJoin
<1>2. /\ \A k \in Keys : val[k].bad => Places(all, k, j) = {}
      /\ \A k \in Keys : ~val[k].bad =>
           \E i \in Places(all, k, j) :
             /\ val[k].p < Len(t) /\ i + 1 \in 1..Len(all)
             /\ all[i + 1] = U!First(t, U!Reading(t), val[k].p).v
      /\ tw <=> \E k \in Keys : \E i, g \in Places(all, k, j) : i < g
  BY DEF Recalls
<1>3. /\ j + 1 \in 1..Len(all) /\ all[j + 1] = U!Value("str", <<x>>)
  OBVIOUS
<1>4. /\ j + 2 \in 1..Len(all) /\ d.p < Len(t)
      /\ all[j + 2] = U!First(t, U!Reading(t), d.p).v
  BY DEF Reveals
<1>5. (j + 1) % 2 = 1 /\ (j + 1) + 1 = j + 2  OBVIOUS
<1> HIDE DEF all
<1>6. j + 1 \in U!KeyPlaces(all)  BY <1>3, <1>5 DEF U!KeyPlaces
<1>7. ASSUME NEW k
      PROVE  j + 1 \in Places(all, k, j + 1) <=> k = x
  <2>1. j + 1 \in Places(all, k, j + 1) <=> U!SameKey(all[j + 1], U!Value("str", <<k>>))
    BY <1>1, <1>6, PlacesNext
  <2>2. U!Value("str", <<x>>).kind = "str" /\ U!Value("str", <<x>>).bytes = <<x>>
    BY DEF U!Value
  <2>3. <<x>> = <<k>> <=> k = x  OBVIOUS
  <2>4. U!SameKey(all[j + 1], U!Value("str", <<k>>)) <=> <<x>> = <<k>>
    <3>1. U!SameKey(all[j + 1], U!Value("str", <<k>>)) <=>
            all[j + 1].kind = "str" /\ all[j + 1].bytes = <<k>>
      BY SameAsName, Zenon
    <3> QED BY <1>3, <2>2, <3>1
  <2> QED BY <2>1, <2>3, <2>4
<1>8. ASSUME NEW k
      PROVE  /\ Places(all, k, j) \subseteq Places(all, k, j + 1)
             /\ Places(all, k, j + 1) \subseteq Places(all, k, j) \union {j + 1}
             /\ \A i \in Places(all, k, j) : i \in Nat /\ i < j + 1
  BY <1>1, PlacesNext
<1>9. \A k : k # x => Places(all, k, j + 1) = Places(all, k, j)  BY <1>7, <1>8
<1>10. val2[x] = d /\ \A k \in Keys : k # x => val2[k] = val[k]  OBVIOUS
<1> HIDE DEF val2
<1>11. ASSUME NEW k \in Keys, val2[k].bad PROVE Places(all, k, j + 1) = {}
  BY <1>2, <1>9, <1>10, <1>11
<1>12. ASSUME NEW k \in Keys, ~val2[k].bad
       PROVE  \E i \in Places(all, k, j + 1) :
                /\ val2[k].p < Len(t) /\ i + 1 \in 1..Len(all)
                /\ all[i + 1] = U!First(t, U!Reading(t), val2[k].p).v
  <2>1. CASE k = x
    <3>1. j + 1 \in Places(all, k, j + 1)  BY <1>7, <2>1
    <3> QED BY <1>4, <1>5, <1>10, <2>1, <3>1
  <2>2. CASE k # x
    <3>1. val2[k] = val[k] /\ Places(all, k, j + 1) = Places(all, k, j)
      BY <1>9, <1>10, <2>2
    <3> QED BY <1>2, <1>12, <3>1
  <2> QED BY <2>1, <2>2
<1>13. ASSUME tw \/ ~val[x].bad
       PROVE  \E k \in Keys : \E i, g \in Places(all, k, j + 1) : i < g
  <2>1. CASE tw  BY <1>2, <1>8, <2>1
  <2>2. CASE ~val[x].bad
    <3>1. PICK i \in Places(all, x, j) : TRUE  BY <1>2, <2>2
    <3>2. i \in Places(all, x, j + 1) /\ j + 1 \in Places(all, x, j + 1) /\ i < j + 1
      BY <1>7, <1>8, <3>1
    <3> QED BY <3>2
  <2> QED BY <1>13, <2>1, <2>2
<1>14. ASSUME NEW k \in Keys, NEW i \in Places(all, k, j + 1),
              NEW g \in Places(all, k, j + 1), i < g
       PROVE  tw \/ ~val[x].bad
  <2>1. CASE g = j + 1
    <3>1. k = x  BY <1>7, <2>1
    <3>2. i # j + 1  BY <1>14, <2>1
    <3>3. i \in Places(all, x, j)  BY <1>8, <3>1, <3>2
    <3> QED BY <1>2, <3>3
  <2>2. CASE g # j + 1
    <3>1. g \in Places(all, k, j) /\ g \in Nat /\ g < j + 1  BY <1>8, <2>2
    <3>2. i # j + 1  BY <1>14, <3>1
    <3>3. i \in Places(all, k, j)  BY <1>8, <3>2
    <3> QED BY <1>2, <1>14, <3>1, <3>3
  <2> QED BY <2>1, <2>2
<1>15. (tw \/ ~val[x].bad) <=> \E k \in Keys : \E i, g \in Places(all, k, j + 1) : i < g
  BY <1>13, <1>14
<1> QED BY <1>11, <1>12, <1>15 DEF Recalls, all, val2

(* mp_map finds the map the generator finds, with as many pairs *)
LEMMA OpensAlike ==
  ASSUME NEW t \in Seq(Byte), NEW c, c = CursorOver(0, Len(t)), NEW map, map = MapHead(t, c)
  PROVE  /\ OpensMap(t) <=> ~map.cur.bad
         /\ OpensMap(t) => /\ map.n \in Nat /\ U!Held(t, 0) = 2 * map.n
                           /\ map.cur.p = 1 + U!LengthWidth(t[1])
<1>1. Inside(c, t) /\ ~c.bad /\ c.p = 0 /\ Len(t) \in Nat
  BY DEF CursorOver, Inside, Cursor
<1>2. map.n \in Nat  BY <1>1, MapHeadOnward
<1>3. CASE Len(t) = 0
  <2>1. Head1(t, c) = \hC1  BY <1>1, <1>3 DEF Head1, Refused, Inside
  <2>2. map = [cur |-> Bad(Take(c, 1)), n |-> 0]
    <3>1. \hC1 \notin FixMap /\ \hC1 # Map16  BY DEF FixMap, Map16
    <3> QED BY <2>1, <3>1 DEF MapHead
  <2>3. map.cur.bad  BY <2>2 DEF Bad
  <2> QED BY <1>3, <2>3 DEF OpensMap
<1>4. CASE Len(t) # 0
  <2> DEFINE h == t[1]
             s == Stepped(t, Take(c, 1), h)
             b == 0 + 1 + U!LengthWidth(h)
  <2>0. c.p < Len(t) /\ t[c.p + 1] = h  BY <1>1, <1>4
  <2>1. Head1(t, c) = h /\ h \in Byte  BY <1>1, <2>0, HeadIs
  <2> HIDE DEF h
  <2>2. CASE h \in FixMap \union {Map16}
    <3>1. h \in FixArray \union FixMap \union {Array16, Map16}  BY <2>2
    <3>2. /\ s.bad <=> b > Len(t)
          /\ ~s.bad => s.p = b /\ Elements(t, Take(c, 1), h) = U!Held(t, 0)
      <4> HIDE DEF s
      <4>1. h = t[c.p + 1] /\ s = Stepped(t, Take(c, 1), h) /\ b = c.p + 1 + U!LengthWidth(h)
        BY <1>1, <2>0 DEF s
      <4> HIDE DEF b
      <4>2. /\ s.bad <=> b > Len(t)
            /\ ~s.bad => s.p = b /\ Elements(t, Take(c, 1), h) = U!Held(t, c.p)
        BY ONLY t \in Seq(Byte), <1>1, <2>0, <3>1, <4>1, HeldAlike
      <4> QED BY <1>1, <4>2
    <3>3. map.cur = s /\ Elements(t, Take(c, 1), h) = 2 * map.n
      <4>1. CASE h \in FixMap
        <5>1. h \in Bare \union FixArray \union FixMap  BY <4>1
        <5>2. h \notin FixArray /\ h # Array16 /\ h # Map16  BY <2>1, <4>1, ContainerHeads
        <5>3. s = Take(c, 1)  BY <2>1, <5>1, ClassesDisjoint, ByteNat DEF Stepped
        <5>4. map = [cur |-> Take(c, 1), n |-> h - \h80]
          BY <2>1, <4>1 DEF MapHead, FixMap, Map16
        <5>5. Elements(t, Take(c, 1), h) = 2 * (h - \h80)  BY <4>1, <5>2 DEF Elements
        <5> QED BY <5>3, <5>4, <5>5
      <4>2. CASE h = Map16
        <5>1. h \notin FixArray /\ h \notin FixMap /\ h # Array16  BY <2>1, <4>2, ContainerHeads
        <5>2. h \notin Bare \union FixArray \union FixMap /\ h \notin Sized
              /\ h \notin Length1 /\ h \notin Length2 /\ h \in {Array16, Map16}
          BY <2>1, <4>2, ClassesDisjoint, ByteNat DEF Map16
        <5>3. s = Take(Take(c, 1), 2)  BY <5>2, Zenon DEF Stepped
        <5>4. map = [cur |-> Take(Take(c, 1), 2), n |-> Length(t, Take(c, 1), 2)]
          BY <2>1, <4>2, <5>1, Zenon DEF MapHead
        <5>5. Elements(t, Take(c, 1), h) = 2 * Length(t, Take(c, 1), 2)
          BY <4>2, <5>1, Zenon DEF Elements
        <5> QED BY <5>3, <5>4, <5>5
      <4> QED BY <2>2, <4>1, <4>2
    <3> HIDE DEF s
    <3>4. U!LengthWidth(h) \in Nat
      <4>1. h \in FixMap => U!LengthWidth(h) = 0  BY <2>1, ContainerHeads
      <4>2. h = Map16 => U!LengthWidth(h) = 2  BY <2>1, ContainerHeads
      <4> QED BY <2>2, <4>1, <4>2
    <3>5. b = 1 + U!LengthWidth(h) /\ (b > Len(t) <=> ~(1 + U!LengthWidth(h) <= Len(t)))
      BY <1>1, <3>4
    <3>6. OpensMap(t) <=> ~(b > Len(t))
      <4>1. Len(t) > 0  BY <1>1, <1>4
      <4> QED BY <2>2, <3>5, <4>1 DEF OpensMap, h
    <3> QED BY <1>2, <3>2, <3>3, <3>5, <3>6 DEF h
  <2>3. CASE h \notin FixMap \union {Map16}
    <3>1. map = [cur |-> Bad(Take(c, 1)), n |-> 0]  BY <2>1, <2>3, Zenon DEF MapHead
    <3>2. map.cur.bad  BY <3>1 DEF Bad
    <3> QED BY <2>3, <3>2 DEF OpensMap, h
  <2> QED BY <2>2, <2>3
<1> QED BY <1>3, <1>4

-----------------------------------------------------------------------------
(* the generator reads the first value *)
LEMMA ReadIs ==
  ASSUME NEW t \in Seq(Byte)
  PROVE  /\ Len(t) = 0 => U!Read(t) = U!SHORT
         /\ Len(t) > 0 => U!Read(t) = U!First(t, U!Reading(t), 0).v
<1> DEFINE f == U!Reading(t)
           one == U!First(t, f, 0)
           r == f[0][1]
<1>1. 0 \in 0..Len(t) /\ 1 \in Nat /\ 1 > 0 /\ Len(t) \in Nat  OBVIOUS
<1>2. Split(t, 0, 1, one, f[one.at][1 - 1], r)  BY <1>1, ReadingSplit
<1>3. U!Read(t) = r.v[1]  BY DEF U!Read
<1> HIDE DEF one, r
<1>4. Len(t) = 0 => r.v[1] = U!SHORT  BY <1>1, <1>2 DEF Split
<1>5. ASSUME Len(t) > 0 PROVE r.v[1] = one.v
  <2>1. r.v = <<one.v>> \o f[one.at][1 - 1].v /\ IsSeq(f[one.at][1 - 1].v)
    BY <1>1, <1>2, <1>5 DEF Split, Good
  <2> SUFFICES ASSUME NEW v, v = one.v, NEW rest, rest = f[one.at][1 - 1].v
               PROVE  r.v[1] = v
    OBVIOUS
  <2>2. r.v = <<v>> \o rest /\ IsSeq(rest)  BY <2>1
  <2>3. (<<v>> \o rest)[1] = v  BY ONLY <2>2, OneInFront
  <2> QED BY <2>2, <2>3
<1> QED BY <1>3, <1>4, <1>5 DEF one

(* a map whose values are whole *)
LEMMA MapRead ==
  ASSUME NEW t \in Seq(Byte), OpensMap(t), NEW v, v = U!Read(t)
  PROVE  /\ v.items = All(t)
         /\ U!Met(All(t)) \subseteq v.met
         /\ v.met \subseteq U!Met(All(t)) \union {"twice", "key"}
         /\ "twice" \in v.met <=> "twice" \in U!Met(All(t)) \/ U!NamesOneKeyTwice(All(t))
         /\ v.kind = IF v.met \intersect {"cut", "twice"} = {} THEN "map" ELSE "short"
<1> DEFINE h == t[1]
           items == All(t)
<1>1. /\ 1 + U!LengthWidth(h) <= Len(t) /\ h \in U!Containers /\ h \in U!Maps
      /\ U!LengthWidth(h) \in {0, 2} /\ 0 < Len(t)
  BY MapIs
<1>2. v = U!First(t, U!Reading(t), 0).v  BY <1>1, ReadIs
<1>3. v = U!Filled(h, items)
  <2>1. 0 + 1 = 1 /\ 0 \in Nat  OBVIOUS
  <2>2. 0 + 1 + U!LengthWidth(t[0 + 1]) = 1 + U!LengthWidth(h)  BY <1>1, <2>1
  <2>3. t[0 + 1] = h  BY <2>1
  <2> HIDE DEF h
  <2>4. LET f == U!Reading(t)
            b == 0 + 1 + U!LengthWidth(t[0 + 1])
        IN  t[0 + 1] \in U!Containers /\ b <= Len(t) =>
              U!First(t, f, 0).v = U!Filled(t[0 + 1], f[b][U!Held(t, 0)].v)
    BY <1>1, <2>1, FirstIs, Zenon
  <2>5. U!First(t, U!Reading(t), 0).v
          = U!Filled(h, U!Reading(t)[1 + U!LengthWidth(h)][U!Held(t, 0)].v)
    BY <1>1, <2>2, <2>3, <2>4
  <2> QED BY <1>2, <2>5 DEF All, h
<1>4. v = U!MapOf(items, {mark \in {"wide"} : U!LengthWidth(h) = 4})
  BY <1>1, <1>3 DEF U!Filled
<1>5. {mark \in {"wide"} : U!LengthWidth(h) = 4} = {}  BY <1>1
<1>6. v = U!MapOf(items, {})  BY <1>4, <1>5
<1> HIDE DEF items
<1> QED BY <1>6 DEF U!MapOf, items

(* where cmd/dump finds no map, neither does the generator *)
LEMMA NoMapRead ==
  ASSUME NEW t \in Seq(Byte), ~OpensMap(t), AsPacked(U!Read(t))
  PROVE  U!Read(t).kind # "map"
<1> DEFINE v == U!Read(t)
           h == t[1]
           f == U!Reading(t)
           o == U!First(t, f, 0)
<1>1. CASE Len(t) = 0  BY <1>1, ReadIs, ShortIs
<1>2. CASE Len(t) > 0
  <2>1. v = o.v /\ 0 \in Nat /\ 0 + 1 = 1  BY <1>2, ReadIs
  <2>2. t[0 + 1] = h  BY <2>1
  <2> DEFINE b == 0 + 1 + U!LengthWidth(h)
  <2>3. /\ h \in Byte
        /\ h \in U!Containers /\ b <= Len(t) => o.v = U!Filled(h, f[b][U!Held(t, 0)].v)
        /\ ~(h \in U!Containers /\ b <= Len(t)) => o = U!Single(t, 0)
    <3>1. LET g == t[0 + 1]
              b2 == 0 + 1 + U!LengthWidth(g)
          IN  /\ g \in Byte
              /\ g \in U!Containers /\ b2 <= Len(t) => o.v = U!Filled(g, f[b2][U!Held(t, 0)].v)
              /\ ~(g \in U!Containers /\ b2 <= Len(t)) => o = U!Single(t, 0)
      BY <1>2, <2>1, FirstIs, Zenon
    <3> QED BY <2>2, <3>1
  <2>4. U!Type(h) \in Types /\ \A x : U!Typed(U!Type(h), x).kind # "map"
    BY <2>3, HeadWidths, TypedKind
  <2>5. Kinds(h, o.v.kind)
    <3> HIDE DEF o
    <3>1. h = t[0 + 1] /\ o = U!First(t, f, 0)  BY <2>2 DEF o
    <3> HIDE DEF h, f
    <3> QED BY <1>2, <2>1, <3>1, KindIs
  <2> HIDE DEF o, h
  <2>6. CASE h \in U!Containers /\ b <= Len(t)
    <3> DEFINE items == f[b][U!Held(t, 0)].v
    <3>1. o.v = U!Filled(h, items)  BY <2>3, <2>6
    <3> HIDE DEF items
    <3>2. CASE h \in U!Maps
      <4>1. U!LengthWidth(h) \in Nat
        <5>1. U!LengthWidth(h) \in {0, 2, 4}  BY <2>6, ContainerWidth, Zenon
        <5> QED BY <5>1
      <4>2. h \notin FixMap /\ h # Map16
        <5>1. 1 + U!LengthWidth(h) <= Len(t)  BY <2>6, <4>1
        <5> QED BY <1>2, <5>1 DEF OpensMap, h
      <4>3. h = \hDF  BY <3>2, <4>2 DEF U!Maps, U!FixMaps, FixMap, Map16
      <4>4. U!LengthWidth(h) = 4  BY <2>6, <4>3, ContainerWidth
      <4>5. "wide" \in o.v.met /\ o.v = U!MapOf(items, {mark \in {"wide"} : U!LengthWidth(h) = 4})
        <5>1. U!LengthWidth(h) = 4 => "wide" \in U!Filled(h, items).met
          BY FilledMet
        <5>2. h \in U!Maps =>
                U!Filled(h, items) = U!MapOf(items, {mark \in {"wide"} : U!LengthWidth(h) = 4})
          BY DEF U!Filled
        <5> QED BY <3>1, <3>2, <4>4, <5>1, <5>2
      <4>6. "cut" \in o.v.met  BY <2>1, <4>5 DEF AsPacked
      <4> QED BY <2>1, <4>5, <4>6 DEF U!MapOf
    <3>3. CASE h \notin U!Maps
      <4>1. o.v.kind = "list"  BY <3>1, <3>3, FilledMet
      <4> QED BY <2>1, <4>1
    <3> QED BY <3>2, <3>3
  <2>7. CASE h \in U!Containers /\ ~(b <= Len(t))
    <3>1. o = U!Single(t, 0)  BY <2>3, <2>7
    <3>2. U!Single(t, 0).v = U!SHORT
      <4>1. h = t[0 + 1]  BY <2>2
      <4> QED BY <1>2, <2>1, <2>7, <4>1, SingleIs
    <3> QED BY <2>1, <3>1, <3>2, ShortIs
  <2>8. CASE h \notin U!Containers  BY <2>1, <2>4, <2>5, <2>8 DEF Kinds
  <2> QED BY <2>6, <2>7, <2>8
<1>3. Len(t) \in Nat  OBVIOUS
<1> QED BY <1>1, <1>2, <1>3

(* a map with a value that is not is none *)
LEMMA RefusedMapRead ==
  ASSUME NEW t \in Seq(Byte), OpensMap(t), NEW v, v = U!Read(t), ~U!Raising(v), AsPacked(v),
         Refusable(U!Met(All(t)))
  PROVE  v.kind # "map"
<1>1. /\ U!Met(All(t)) \subseteq v.met
      /\ v.kind = IF v.met \intersect {"cut", "twice"} = {} THEN "map" ELSE "short"
  BY MapRead
<1>2. "type" \notin v.met /\ ("wide" \in v.met => "cut" \in v.met)
  BY DEF U!Raising, AsPacked
<1>3. "cut" \in v.met  BY <1>1, <1>2 DEF Refusable
<1> QED BY <1>1, <1>3

(* what is no map has no field *)
LEMMA NoFields ==
  ASSUME NEW v, v.kind # "map", NEW order, NEW numbers
  PROVE  U!DescribeAdvertisement(v, order, numbers) = [i \in 1..Len(order) |-> Dash]
<1>1. \A k : U!Lookup(v, k) = U!Absent  BY DEF U!Lookup
<1>2. U!Num(U!Absent) = Dash /\ U!Blob(U!Absent) = Dash
  BY DEF U!Num, U!Blob, U!Ints, U!Bytes, U!Absent, U!Value, Dash
<1> QED BY <1>1, <1>2 DEF U!DescribeAdvertisement

(* nothing is owed: all the values are there, and all of them whole *)
LEMMA PlacedLast ==
  ASSUME NEW t \in Seq(Byte), OpensMap(t), NEW c, ~c.bad, Placed(t, c, 0, << >>)
  PROVE  Clean(U!Met(All(t))) /\ Len(All(t)) = U!Held(t, 0)
<1> DEFINE N == U!Held(t, 0)
           f == U!Reading(t)
           q == Queue(0, << >>)
<1>1. N \in Nat /\ IsSeq(All(t))  BY MapIs
<1>2. << >> \in Seq(Nat) /\ Len(<< >>) = 0 /\ 0 \in Nat  OBVIOUS
<1>3. q \in [0..0 -> Nat] /\ q[0] = 0  BY <1>2, QueueIs
<1> HIDE DEF q, N
<1>4. PICK e : Owing(t, f, All(t), N, e, q, 0, c.p)  BY <1>2 DEF Placed, q, N
<1>5. e[0] \in 0..Len(t)  BY <1>4 DEF Owing, Chain
<1>6. f[e[0]][0].v = << >>  BY <1>5, ReadingNone
<1>7. \A i \in 0..0 : Owed(f, e, q, i) = {}
  <2>1. Owed(f, e, q, 0) = {}  BY <1>3, <1>6, NothingMet DEF Owed
  <2> QED BY <2>1
<1>8. Clean(U!Met(All(t)))  BY <1>4, <1>7 DEF Owing, Clean
<1>9. Remaining(All(t), N - 0, << >>)  BY <1>3, <1>4, <1>6 DEF Owing
<1>10. Len(All(t)) = N  BY <1>1, <1>2, <1>9 DEF Remaining
<1> QED BY <1>8, <1>10 DEF N

-----------------------------------------------------------------------------
(* What is printed from what is remembered. *)

(* the field printed from a remembered cursor *)
Read1(t, val, k) == IF k \in Numbers THEN Uint(t, val[k]).val ELSE Bin(t, val[k]).val

LEMMA FieldsOfNone ==
  ASSUME NEW t, NEW val, \A k \in Keys : val[k].bad, NEW k \in Keys
  PROVE  Read1(t, val, k) = Dash
BY FieldRefused DEF Read1

LEMMA KeyOf == \A i \in 1..Len(Order) : Order[i] \in Keys
BY DEF Keys

(* one name twice is a key twice to the generator *)
LEMMA TwiceRead ==
  ASSUME NEW t \in Seq(Byte), OpensMap(t), NEW v, v = U!Read(t), NEW j \in Nat, NEW k \in Keys,
         NEW i \in Places(All(t), k, j), NEW g \in Places(All(t), k, j), i < g
  PROVE  v.kind # "map"
<1> DEFINE all == All(t)
<1>1. /\ i \in U!KeyPlaces(all) /\ g \in U!KeyPlaces(all)
      /\ U!SameKey(all[i], U!Value("str", <<k>>)) /\ U!SameKey(all[g], U!Value("str", <<k>>))
  BY DEF Places
<1>2. /\ all[i].kind = "str" /\ all[i].bytes = <<k>>
      /\ all[g].kind = "str" /\ all[g].bytes = <<k>>
  BY <1>1, SameAsName
<1> HIDE DEF all
<1>3. U!SameKey(all[i], all[g])  BY <1>2 DEF U!SameKey
<1>4. U!NamesOneKeyTwice(all)  BY <1>1, <1>3 DEF U!NamesOneKeyTwice
<1> QED BY <1>4, MapRead DEF all

(* each name once: the generator has the map and finds what is remembered *)
LEMMA WholeMapRead ==
  ASSUME NEW t \in Seq(Byte), OpensMap(t), NEW v, v = U!Read(t),
         ~ForeignNamedTwice(v), AsPacked(v),
         NEW c, ~c.bad, Placed(t, c, 0, << >>),
         NEW val, Recalls(t, U!Held(t, 0), val, FALSE)
  PROVE  /\ v.kind = "map" /\ ~Refusable(U!Met(All(t))) /\ v.items = All(t)
         /\ \A k \in Keys : \A i, g \in Places(All(t), k, Len(All(t))) : i = g
<1> DEFINE all == All(t)
<1>1. /\ v.items = all /\ U!Met(all) \subseteq v.met
      /\ v.met \subseteq U!Met(all) \union {"twice", "key"}
      /\ "twice" \in v.met <=> "twice" \in U!Met(all) \/ U!NamesOneKeyTwice(all)
      /\ v.kind = IF v.met \intersect {"cut", "twice"} = {} THEN "map" ELSE "short"
  BY MapRead
<1>2. Clean(U!Met(all)) /\ Len(all) = U!Held(t, 0)  BY PlacedLast
<1>3. "cut" \notin v.met  BY <1>1, <1>2 DEF Clean
<1>4. ~Refusable(U!Met(all))
  <2>1. "wide" \notin U!Met(all)  BY <1>1, <1>3 DEF AsPacked
  <2> QED BY <1>2, <2>1 DEF Clean, Refusable
<1>5. ~ \E k \in Keys : \E i, g \in Places(all, k, Len(all)) : i < g
  BY <1>2, <1>4 DEF Recalls
<1>6. ASSUME NEW k \in Keys, NEW i \in Places(all, k, Len(all)), NEW g \in Places(all, k, Len(all))
      PROVE  i = g
  <2>1. Len(all) \in Nat  BY MapIs, SeqsJoin
  <2> HIDE DEF all
  <2>2. i \in Nat /\ g \in Nat  BY <2>1 DEF Places, U!KeyPlaces
  <2>3. ~(i < g) /\ ~(g < i)  BY <1>5
  <2> QED BY <2>2, <2>3
<1>7. "twice" \notin U!Met(all)
  <2>1. ASSUME NEW i \in 1..Len(all) PROVE "twice" \notin all[i].met
    BY <1>1 DEF ForeignNamedTwice
  <2> QED BY <2>1 DEF U!Met
<1>8. ~U!NamesOneKeyTwice(all)
  <2> SUFFICES ASSUME NEW i \in U!KeyPlaces(all), NEW g \in U!KeyPlaces(all), i < g,
                      U!SameKey(all[i], all[g])
               PROVE  FALSE
    BY DEF U!NamesOneKeyTwice
  <2>1. all[i] \in NamedKeys  BY <1>1 DEF ForeignNamedTwice
  <2>2. PICK k \in Keys : all[i] = U!Value("str", <<k>>)  BY <2>1 DEF NamedKeys
  <2>3. U!SameKey(all[i], U!Value("str", <<k>>))
    BY <2>2 DEF U!SameKey
  <2>4. U!SameKey(all[g], U!Value("str", <<k>>))
    <3>1. all[i].kind = "str" /\ all[i].bytes = <<k>>  BY <2>3, SameAsName
    <3>2. "str" \notin U!Ints /\ "str" \notin U!Bytes  BY DEF U!Ints, U!Bytes
    <3>3. all[g].kind = "str" /\ all[g].bytes = <<k>>  BY <3>1, <3>2 DEF U!SameKey
    <3> QED BY <3>3, SameAsName
  <2>5. i \in 1..Len(all) /\ g \in 1..Len(all)  BY DEF U!KeyPlaces
  <2> HIDE DEF all
  <2>6. i <= Len(all) /\ g <= Len(all)
    <3>1. Len(all) \in Nat  BY MapIs, SeqsJoin DEF all
    <3> QED BY <2>5, <3>1
  <2>7. i \in Places(all, k, Len(all)) /\ g \in Places(all, k, Len(all))
    BY <2>3, <2>4, <2>6 DEF Places
  <2> QED BY <1>5, <2>7
<1>9. v.kind = "map"  BY <1>1, <1>3, <1>7, <1>8
<1> QED BY <1>1, <1>4, <1>6, <1>9

(* a field is what the generator finds under its name *)
LEMMA FieldAlike ==
  ASSUME NEW t \in Seq(Byte), OpensMap(t), NEW v, v = U!Read(t), TypedAsNamed(v),
         v.kind = "map", ~Refusable(U!Met(All(t))), v.items = All(t),
         NEW val, Recalls(t, Len(All(t)), val, FALSE), NEW k \in Keys,
         ~val[k].bad => Inside(val[k], t),
         \A i, g \in Places(All(t), k, Len(All(t))) : i = g
  PROVE  Read1(t, val, k) =
           IF k \in Numbers THEN U!Num(U!Lookup(v, k)) ELSE U!Blob(U!Lookup(v, k))
<1> DEFINE all == All(t)
           found == {i \in U!KeyPlaces(v.items) : U!SameKey(v.items[i], U!Value("str", <<k>>))}
           places == Places(all, k, Len(all))
<1>1. found = places
  <2>1. Len(all) \in Nat  BY MapIs, SeqsJoin
  <2>2. v.items = all  OBVIOUS
  <2> HIDE DEF all
  <2>3. \A i \in U!KeyPlaces(all) : i <= Len(all)  BY <2>1 DEF U!KeyPlaces
  <2> QED BY <2>2, <2>3 DEF Places
<1>2. U!Lookup(v, k) = IF found = {} THEN U!Absent ELSE all[1 + CHOOSE i \in found : TRUE]
  BY DEF U!Lookup
<1> HIDE DEF found
<1>3. CASE val[k].bad
  <2>1. found = {}  BY <1>1, <1>3 DEF Recalls
  <2>2. U!Num(U!Absent) = Dash /\ U!Blob(U!Absent) = Dash
    BY DEF U!Num, U!Blob, U!Ints, U!Bytes, U!Absent, U!Value, Dash
  <2> QED BY <1>2, <1>3, <2>1, <2>2, FieldRefused DEF Read1
<1>4. CASE ~val[k].bad
  <2> DEFINE d == val[k]
  <2>1. PICK i \in places : /\ d.p < Len(t) /\ i + 1 \in 1..Len(all)
                            /\ all[i + 1] = U!First(t, U!Reading(t), d.p).v
    BY <1>4 DEF Recalls
  <2>2. (CHOOSE g \in found : TRUE) = i
    <3>1. \A g \in found : g = i  BY <1>1, <2>1
    <3>2. i \in found  BY <1>1, <2>1
    <3> QED BY <3>1, <3>2
  <2>3. i \in Nat  BY <2>1 DEF Places, U!KeyPlaces
  <2>4. U!Lookup(v, k) = all[i + 1]
    <3>1. found # {} /\ 1 + i = i + 1  BY <1>1, <2>1, <2>3
    <3> QED BY <1>2, <2>2, <3>1
  <2> DEFINE o == U!First(t, U!Reading(t), d.p)
  <2>5. U!Lookup(v, k) = o.v  BY <2>1, <2>4
  <2>6. "wide" \notin o.v.met
    <3>1. all[i + 1].met \subseteq U!Met(all)  BY <2>1, MetOfEach
    <3> QED BY <2>1, <3>1 DEF Refusable
  <2>7. o.v.kind \notin IF k \in Numbers THEN {"long", "negative", "bool"}
                                         ELSE {"float", "single"}
    BY <2>5 DEF TypedAsNamed
  <2>8. Inside(d, t) /\ ~d.bad /\ d.p < Len(t)  BY <1>4, <2>1
  <2> HIDE DEF o, d
  <2>9. o = U!First(t, U!Reading(t), d.p)  BY DEF o
  <2>10. CASE k \in Numbers
    <3>1. o.v.kind \notin {"long", "negative", "bool"}  BY <2>7, <2>10
    <3>2. Uint(t, d).val = U!Num(o.v)  BY <2>8, <2>9, <3>1, NumbersAlike
    <3> QED BY <2>5, <2>10, <3>2 DEF Read1, d
  <2>11. CASE k \notin Numbers
    <3>1. o.v.kind \notin {"float", "single"}  BY <2>7, <2>11
    <3>2. Bin(t, d).val = U!Blob(o.v)  BY <2>6, <2>8, <2>9, <3>1, BytesAlike
    <3> QED BY <2>5, <2>11, <3>2 DEF Read1, d
  <2> QED BY <2>10, <2>11
<1> QED BY <1>3, <1>4

-----------------------------------------------------------------------------
(* Where a walk over an advertisement is, and what it has learned. *)
Way(t, c, where, n, s, val, tw) ==
  IF OpensMap(t)
  THEN /\ Placed(t, c, Owes(where, n), s)
       /\ Recalls(t, U!Held(t, 0) - Owes(where, n), val, tw)
  ELSE where = "pair" /\ c.bad /\ \A k \in Keys : val[k].bad

(* what nothing has been read of *)
Fresh ==
  pc = "start" =>
    m = CursorOver(0, Len(text)) /\ twice = FALSE /\ \A k \in Keys : value[k].bad
(* every cursor of the walk is where the reading has it *)
OnItsWay ==
  context = "resource_adv" /\ pc \in {"pair", "value", "skipkey", "skipvalue"} =>
    Way(text, m, pc, pairs, stack, value, twice)
(* the inductive invariant *)
AdvInv == WalkInv /\ Fresh /\ OnItsWay /\ AdvertisementAgrees

LEMMA FreshInitially == Init => Fresh
BY DEF Init, Fresh, NoValue

(* what is owed while a key is read, and then its value *)
LEMMA OwesIs ==
  ASSUME NEW n \in Nat
  PROVE  /\ Owes("pair", n) = 2 * n /\ Owes("skipvalue", n) = 2 * n
         /\ Owes("value", n) = 2 * n + 1 /\ Owes("skipkey", n) = 2 * n + 1
BY DEF Owes

(* keys and values come in pairs *)
LEMMA HeldEven ==
  ASSUME NEW t \in Seq(Byte), OpensMap(t)
  PROVE  \E n \in Nat : U!Held(t, 0) = 2 * n
<1> DEFINE c == CursorOver(0, Len(t))
<1>1. MapHead(t, c).n \in Nat /\ U!Held(t, 0) = 2 * MapHead(t, c).n  BY OpensAlike
<1> QED BY <1>1

(* the map is opened *)
LEMMA OpenMapWay ==
  ASSUME WalkInv, Fresh, OpenMap
  PROVE  Way(text, m', "pair", pairs', stack, value, twice)
<1>1. text \in Seq(Byte) /\ stack = << >>  BY DEF WalkInv, TypeOK, OpenMap
<1>2. /\ m = CursorOver(0, Len(text)) /\ twice = FALSE /\ \A k \in Keys : value[k].bad
      /\ m' = MapHead(text, m).cur /\ pairs' = MapHead(text, m).n
  BY DEF Fresh, OpenMap
<1>3. /\ OpensMap(text) <=> ~m'.bad
      /\ OpensMap(text) => /\ pairs' \in Nat /\ U!Held(text, 0) = 2 * pairs'
                           /\ m'.p = 1 + U!LengthWidth(text[1])
  BY <1>1, <1>2, OpensAlike
<1>4. CASE OpensMap(text)
  <2>1. Placed(text, m', U!Held(text, 0), << >>)  BY <1>1, <1>3, <1>4, PlacedFirst
  <2>2. Owes("pair", pairs') = U!Held(text, 0)  BY <1>3, <1>4, OwesIs
  <2>3. Recalls(text, 0, value, FALSE)  BY <1>1, <1>2, <1>4, RecallsFirst
  <2>4. U!Held(text, 0) - U!Held(text, 0) = 0
    <3>1. U!Held(text, 0) \in Nat  BY <1>1, <1>4, MapIs
    <3> QED BY <3>1
  <2> QED BY <1>1, <1>2, <1>4, <2>1, <2>2, <2>3, <2>4 DEF Way
<1>5. CASE ~OpensMap(text)  BY <1>2, <1>3, <1>5 DEF Way
<1> QED BY <1>4, <1>5

(* a key that is no name of one letter *)
LEMMA ForeignKeyWay ==
  ASSUME NEW t \in Seq(Byte), NEW c, Inside(c, t), ~c.bad, NEW n \in Nat, n > 0,
         NEW val, NEW tw, Way(t, c, "pair", n, << >>, val, tw), Head1(t, c) # \hA1,
         NEW k, k = Elements(t, Take(c, 1), Head1(t, c)),
         NEW s, s = IF k > 0 THEN Append(<< >>, k) ELSE << >>
  PROVE  Way(t, Stepped(t, Take(c, 1), Head1(t, c)), "skipkey", n - 1, s, val, tw)
<1> DEFINE N == U!Held(t, 0)
           o == 2 * n
           d == Stepped(t, Take(c, 1), Head1(t, c))
<1>1. OpensMap(t)  BY DEF Way
<1>2. N \in Nat  BY <1>1, MapIs
<1>3. Placed(t, c, o, << >>) /\ Recalls(t, N - o, val, tw)  BY <1>1, OwesIs DEF Way
<1>4. o \in Nat /\ o > 0 /\ n - 1 \in Nat /\ 2 * (n - 1) + 1 = o - 1  OBVIOUS
<1> HIDE DEF o, N, d
<1>5. Placed(t, d, o - 1, s)
  BY ONLY t \in Seq(Byte), Inside(c, t), k = Elements(t, Take(c, 1), Head1(t, c)),
          s = (IF k > 0 THEN Append(<< >>, k) ELSE << >>),
          <1>1, <1>3, <1>4, PlacedDown DEF d
<1>6. Reveals(t, (N - o) + 1, c.p) /\ o <= N  BY <1>1, <1>3, <1>4, PlacedReveals DEF N
<1>7. N - o \in Nat /\ (N - o) + 1 = N - (o - 1)  BY <1>2, <1>4, <1>6
<1>8. ASSUME ~Refusable(U!Met(All(t))), NEW x \in Keys
      PROVE  ~U!SameKey(All(t)[(N - o) + 1], U!Value("str", <<x>>))
  <2> DEFINE one == U!First(t, U!Reading(t), c.p)
  <2>1. /\ (N - o) + 1 \in 1..Len(All(t)) /\ c.p < Len(t)
        /\ All(t)[(N - o) + 1] = one.v
    BY <1>6, <1>8 DEF Reveals
  <2>2. one.v.met \intersect {"cut", "wide"} = {}
    <3>1. All(t)[(N - o) + 1].met \subseteq U!Met(All(t))  BY <2>1, MetOfEach
    <3> QED BY <1>8, <2>1, <3>1 DEF Refusable
  <2>3. t[c.p + 1] # \hA1 /\ c.p \in Nat  BY <2>1, HeadIs DEF Inside, Cursor
  <2> HIDE DEF one
  <2>4. ~U!SameKey(one.v, U!Value("str", <<x>>))
    BY <2>1, <2>2, <2>3, NotOneLetter DEF one
  <2> QED BY <2>1, <2>4
<1>9. Recalls(t, (N - o) + 1, val, tw)
  BY <1>1, <1>3, <1>7, <1>8, RecallsOther
<1>10. Owes("skipkey", n - 1) = o - 1  BY <1>4, OwesIs
<1> QED BY <1>1, <1>5, <1>7, <1>9, <1>10 DEF Way, N, d

(* a value is stepped over *)
LEMMA SkipValueWay ==
  ASSUME NEW t \in Seq(Byte), NEW c, Inside(c, t), NEW n \in Nat,
         NEW val, NEW tw, Way(t, c, "value", n, << >>, val, tw),
         NEW k, k = Elements(t, Take(c, 1), Head1(t, c)),
         NEW s, s = IF k > 0 THEN Append(<< >>, k) ELSE << >>
  PROVE  Way(t, Stepped(t, Take(c, 1), Head1(t, c)), "skipvalue", n, s, val, tw)
<1> DEFINE N == U!Held(t, 0)
           o == 2 * n + 1
           d == Stepped(t, Take(c, 1), Head1(t, c))
<1>1. OpensMap(t)  BY DEF Way
<1>2. PICK a \in Nat : N = 2 * a  BY <1>1, HeldEven
<1>3. Placed(t, c, o, << >>) /\ Recalls(t, N - o, val, tw)  BY <1>1, OwesIs DEF Way
<1>4. o \in Nat /\ o > 0 /\ o - 1 = 2 * n  OBVIOUS
<1>5. Owes("skipvalue", n) = 2 * n  BY OwesIs
<1> HIDE DEF N, d
<1>6. c.bad \/ o <= N  BY <1>1, <1>3, <1>4, PlacedReveals DEF N
<1>7. CASE c.bad
  <2>1. Refusable(U!Met(All(t)))  BY <1>3, <1>7 DEF Placed
  <2> QED BY <1>1, <1>4, <1>5, <1>3, <2>1, PlacedDown DEF Way, Recalls, N, d
<1>8. CASE o <= N
  <2>1. N - o \in Nat /\ (N - o) + 1 = N - 2 * n /\ ((N - o) + 1) % 2 = 0
    BY <1>2, <1>8
  <2> HIDE DEF o
  <2>2. Placed(t, d, 2 * n, s)
    <3>1. Placed(t, d, o - 1, s)
      BY ONLY t \in Seq(Byte), Inside(c, t), k = Elements(t, Take(c, 1), Head1(t, c)),
              s = (IF k > 0 THEN Append(<< >>, k) ELSE << >>),
              <1>1, <1>3, <1>4, PlacedDown DEF d
    <3> QED BY <1>4, <3>1
  <2>3. Recalls(t, (N - o) + 1, val, tw)  BY <1>1, <1>3, <2>1, RecallsOther
  <2> QED BY <1>1, <1>5, <2>1, <2>2, <2>3 DEF Way, N, d
<1> QED BY <1>6, <1>7, <1>8

(* stepping over a name of one letter *)
LEMMA OneLetterStep ==
  ASSUME NEW t \in Seq(Byte), NEW c, Inside(c, t), ~c.bad, Head1(t, c) = \hA1
  PROVE  LET c1 == Take(c, 1)
             d  == Take(c1, 1)
         IN  /\ Stepped(t, c1, Head1(t, c)) = d /\ Elements(t, c1, Head1(t, c)) = 0
             /\ Inside(d, t) /\ c.p \in Nat
             /\ d.bad <=> Taken(t, c1, 1) = << >>
             /\ ~d.bad => /\ Taken(t, c1, 1) = <<t[c.p + 2]>> /\ d.p = c.p + 2
                          /\ c.p + 2 <= Len(t) /\ c.p < Len(t) /\ t[c.p + 1] = \hA1
<1> DEFINE c1 == Take(c, 1)
           d  == Take(c1, 1)
<1>1. c.p \in Nat /\ c.p \in 0..Len(t) /\ c.p + 1 \in Nat  BY DEF Inside, Cursor
<1>2. c.p < Len(t)
  <2>1. ~Refused(c, 1)
    <3>1. \hC1 # \hA1  OBVIOUS
    <3> QED BY <3>1 DEF Head1
  <2>2. Refused(c, 1) <=> c.p + 1 > Len(t)  BY TakeIs
  <2> QED BY <1>1, <2>1, <2>2
<1>3. t[c.p + 1] = \hA1 /\ Inside(c1, t) /\ ~c1.bad /\ c1.p = c.p + 1  BY <1>2, HeadIs
<1> HIDE DEF c1
<1>5. /\ Inside(d, t)
      /\ d.bad <=> c.p + 1 + 1 > Len(t)
      /\ ~d.bad => d.p = c.p + 1 + 1
      /\ Refused(c1, 1) <=> c.p + 1 + 1 > Len(t)
  <2>1. 1 \in Nat  OBVIOUS
  <2> QED BY <1>3, <2>1, TakeIs
<1>6. Stepped(t, c1, \hA1) = d /\ Elements(t, c1, \hA1) = 0
  <2>1. \hA1 \in Sized /\ BodyWidth(\hA1) = 1 /\ \hA1 \in Byte
    <3>1. \hA1 \in U!Sized /\ U!Width(\hA1) = 1 /\ \hA1 \in Byte
      BY DEF U!Sized, U!Width, Byte
    <3> QED BY <3>1, SortedAlike
  <2>2. Stepped(t, c1, \hA1) = Take(c1, BodyWidth(\hA1))
    BY <2>1, ClassesDisjoint, ByteNat DEF Stepped
  <2>3. \hA1 \notin U!Containers
    BY DEF U!Containers, U!FixLists, U!Maps, U!FixMaps
  <2>4. Elements(t, c1, \hA1) = 0  BY <2>1, <2>3, NoElements
  <2> QED BY <2>1, <2>2, <2>4
<1>7. d.bad => Taken(t, c1, 1) = << >>  BY <1>5 DEF Taken
<1>8. ASSUME ~d.bad
      PROVE  /\ Taken(t, c1, 1) = <<t[c.p + 2]>> /\ d.p = c.p + 2 /\ c.p + 2 <= Len(t)
  <2>1. c.p + 1 + 1 = c.p + 2 /\ c.p + 2 <= Len(t) /\ c.p + 2 \in 1..Len(t)
        /\ (c.p + 1) + 1 = c.p + 2
    BY <1>1, <1>5, <1>8
  <2>2. SubSeq(t, c.p + 2, c.p + 2) = <<t[c.p + 2]>>  BY <2>1, OneByteOf
  <2>3. Taken(t, c1, 1) = SubSeq(t, c.p + 2, c.p + 2)
    <3>1. ~Refused(c1, 1) /\ c1.p + 1 = c.p + 2  BY <1>1, <1>3, <1>5, <1>8
    <3> QED BY <3>1 DEF Taken
  <2> QED BY <1>5, <1>8, <2>1, <2>2, <2>3
<1>9. <<t[c.p + 2]>> # << >>  OBVIOUS
<1> HIDE DEF d
<1>10. d.bad <=> Taken(t, c1, 1) = << >>  BY <1>7, <1>8, <1>9
<1> QED BY <1>1, <1>2, <1>3, <1>5, <1>6, <1>8, <1>10 DEF c1, d

(* a name of one letter, which may be one of the eleven *)
Named(t, d, n, val, tw, key) ==
  IF key # << >> /\ key[1] \in Keys
  THEN Way(t, d, "value", n - 1, << >>, [val EXCEPT ![key[1]] = d], tw \/ ~val[key[1]].bad)
  ELSE Way(t, d, "value", n - 1, << >>, val, tw)
LEMMA NamedKeyWay ==
  ASSUME NEW t \in Seq(Byte), NEW c, Inside(c, t), ~c.bad, NEW n \in Nat, n > 0,
         NEW val \in [Keys -> Cursor], NEW tw \in BOOLEAN,
         Way(t, c, "pair", n, << >>, val, tw), Head1(t, c) = \hA1,
         NEW d, d = Take(Take(c, 1), 1), NEW key, key = Taken(t, Take(c, 1), 1)
  PROVE  Named(t, d, n, val, tw, key)
<1> DEFINE N == U!Held(t, 0)
           o == 2 * n
           one == U!First(t, U!Reading(t), c.p)
<1>1. OpensMap(t)  BY DEF Way
<1>2. PICK a \in Nat : N = 2 * a  BY <1>1, HeldEven
<1>3. Placed(t, c, o, << >>) /\ Recalls(t, N - o, val, tw)  BY <1>1, OwesIs DEF Way
<1>4. o \in Nat /\ o > 0 /\ n - 1 \in Nat /\ 2 * (n - 1) + 1 = o - 1 /\ o - 1 \in Nat /\ o - 1 > 0
  OBVIOUS
<1>5. Owes("value", n - 1) = o - 1  BY <1>4, OwesIs
<1> HIDE DEF N
<1>6. Reveals(t, (N - o) + 1, c.p) /\ o <= N  BY <1>1, <1>3, <1>4, PlacedReveals DEF N
<1>7. N - o \in Nat /\ (N - o) + 1 = N - (o - 1) /\ (N - o) % 2 = 0
      /\ (N - (o - 1)) + 1 = (N - o) + 2
  BY <1>2, <1>6
<1> HIDE DEF o
<1>8. /\ Stepped(t, Take(c, 1), Head1(t, c)) = d /\ Elements(t, Take(c, 1), Head1(t, c)) = 0
      /\ Inside(d, t) /\ c.p \in Nat
      /\ d.bad <=> key = << >>
      /\ ~d.bad => /\ key = <<t[c.p + 2]>> /\ d.p = c.p + 2
                   /\ c.p + 2 <= Len(t) /\ c.p < Len(t) /\ t[c.p + 1] = \hA1
  BY OneLetterStep
<1>9. Placed(t, d, o - 1, << >>)
  <2>1. ~(0 > 0)  OBVIOUS
  <2>2. Placed(t, Stepped(t, Take(c, 1), Head1(t, c)), o - 1, << >>)
    <3>1. Elements(t, Take(c, 1), Head1(t, c)) = 0  BY <1>8
    <3> QED BY ONLY t \in Seq(Byte), Inside(c, t), <1>1, <1>3, <1>4, <2>1, <3>1, PlacedDown
  <2> QED BY <1>8, <2>2
<1>10. Reveals(t, (N - o) + 2, d.p)
  <2>1. Reveals(t, (N - (o - 1)) + 1, d.p)
    BY <1>1, <1>4, <1>8, <1>9, PlacedReveals DEF N
  <2> QED BY <1>7, <2>1
<1>11. ASSUME ~Refusable(U!Met(All(t)))
       PROVE  /\ ~d.bad /\ (N - o) + 1 \in 1..Len(All(t))
              /\ All(t)[(N - o) + 1] = U!Value("str", <<key[1]>>)
  <2>1. ~d.bad  BY <1>9, <1>11 DEF Placed
  <2>2. (N - o) + 1 \in 1..Len(All(t)) /\ All(t)[(N - o) + 1] = one.v
    BY <1>6, <1>11 DEF Reveals
  <2> HIDE DEF one
  <2>3. one.v = U!Value("str", <<t[c.p + 2]>>)
    <3>1. one = U!First(t, U!Reading(t), c.p)  BY DEF one
    <3> QED BY <1>8, <2>1, <3>1, OneLetter
  <2>4. key[1] = t[c.p + 2]  BY <1>8, <2>1
  <2> QED BY <2>1, <2>2, <2>3, <2>4
<1>12. ASSUME key # << >>, key[1] \in Keys
       PROVE  Way(t, d, "value", n - 1, << >>, [val EXCEPT ![key[1]] = d],
                  tw \/ ~val[key[1]].bad)
  <2> DEFINE x == key[1]
  <2>1. x \in Keys /\ ~d.bad  BY <1>8, <1>12
  <2>2. ~Refusable(U!Met(All(t))) =>
          (N - o) + 1 \in 1..Len(All(t)) /\ All(t)[(N - o) + 1] = U!Value("str", <<x>>)
    BY <1>11
  <2> HIDE DEF x
  <2>3. Recalls(t, (N - o) + 1, [val EXCEPT ![x] = d], tw \/ ~val[x].bad)
    BY ONLY t \in Seq(Byte), val \in [Keys -> Cursor], tw \in BOOLEAN,
            <1>1, <1>3, <1>7, <1>10, <2>1, <2>2, RecallsName, Zenon
  <2> QED BY <1>1, <1>5, <1>7, <1>9, <2>3 DEF Way, N, x
<1>13. ASSUME ~(key # << >> /\ key[1] \in Keys)
       PROVE  Way(t, d, "value", n - 1, << >>, val, tw)
  <2>1. ASSUME ~Refusable(U!Met(All(t))), NEW k \in Keys
        PROVE  ~U!SameKey(All(t)[(N - o) + 1], U!Value("str", <<k>>))
    <3>1. key # << >> /\ All(t)[(N - o) + 1] = U!Value("str", <<key[1]>>)
      BY <1>8, <1>11, <2>1
    <3>2. key[1] # k  BY <1>13, <3>1
    <3>3. U!Value("str", <<key[1]>>).bytes = <<key[1]>> /\ <<key[1]>> # <<k>>
      BY <3>2 DEF U!Value
    <3>4. U!Value("str", <<k>>).bytes = <<k>>  BY DEF U!Value
    <3> QED BY <3>1, <3>3, <3>4 DEF U!SameKey
  <2>2. Recalls(t, (N - o) + 1, val, tw)
    BY <1>1, <1>3, <1>7, <2>1, RecallsOther
  <2> QED BY <1>1, <1>5, <1>7, <1>9, <2>2 DEF Way, N
<1> QED BY <1>12, <1>13 DEF Named

-----------------------------------------------------------------------------
Skipping == {"skipkey", "skipvalue"}

(* an element of a container is stepped over *)
LEMMA SkipElementWay ==
  ASSUME NEW t \in Seq(Byte), NEW c, Inside(c, t), ~c.bad, NEW where \in Skipping, NEW n \in Nat,
         NEW s \in Seq(Nat), s # << >>, s[Len(s)] > 0,
         NEW val, NEW tw, Way(t, c, where, n, s, val, tw),
         NEW k, k = Elements(t, Take(c, 1), Head1(t, c)),
         NEW up, up = [s EXCEPT ![Len(s)] = @ - 1],
         NEW s2, s2 = IF k > 0 THEN Append(up, k) ELSE up
  PROVE  Way(t, Stepped(t, Take(c, 1), Head1(t, c)), where, n, s2, val, tw)
<1> DEFINE o == Owes(where, n)
<1>1. OpensMap(t) /\ Placed(t, c, o, s)  BY DEF Way, Skipping
<1>2. o \in Nat
  <2>1. n \in Nat /\ 2 * n \in Nat /\ 2 * n + 1 \in Nat  OBVIOUS
  <2> QED BY <2>1 DEF Owes
<1>3. Len(s) > 0  OBVIOUS
<1> HIDE DEF o
<1>4. Placed(t, Stepped(t, Take(c, 1), Head1(t, c)), o, s2)
  BY <1>1, <1>2, <1>3, PlacedInner
<1> QED BY <1>1, <1>4 DEF Way, o

(* a container is left *)
LEMMA SkipReturnWay ==
  ASSUME NEW t \in Seq(Byte), NEW c, NEW where \in Skipping, NEW n \in Nat,
         NEW s \in Seq(Nat), s # << >>, s[Len(s)] = 0 \/ c.bad,
         NEW val, NEW tw, Way(t, c, where, n, s, val, tw),
         NEW s2, s2 = SubSeq(s, 1, Len(s) - 1)
  PROVE  Way(t, c, where, n, s2, val, tw)
<1> DEFINE o == Owes(where, n)
<1>1. OpensMap(t) /\ Placed(t, c, o, s)  BY DEF Way, Skipping
<1>2. o \in Nat
  <2>1. n \in Nat /\ 2 * n \in Nat /\ 2 * n + 1 \in Nat  OBVIOUS
  <2> QED BY <2>1 DEF Owes
<1>3. Len(s) > 0  OBVIOUS
<1> HIDE DEF o
<1>4. Placed(t, c, o, s2)  BY <1>1, <1>2, <1>3, PlacedUp
<1> QED BY <1>1, <1>4 DEF Way, o

(* the value stepped over has ended *)
LEMMA SkipEndWay ==
  ASSUME NEW t, NEW c, NEW where \in Skipping, NEW n \in Nat, NEW s, NEW val, NEW tw,
         Way(t, c, where, n, s, val, tw)
  PROVE  Way(t, c, IF where = "skipkey" THEN "value" ELSE "pair", n, s, val, tw)
<1>1. OpensMap(t)  BY DEF Way, Skipping
<1>2. Owes(IF where = "skipkey" THEN "value" ELSE "pair", n) = Owes(where, n)
  BY OwesIs DEF Skipping
<1> QED BY <1>1, <1>2 DEF Way

(* what is printed from the cursors the walk left behind *)
LEMMA PrintedAgrees ==
  ASSUME NEW t \in Seq(Byte), NEW c, Inside(c, t), NEW n \in Nat, n = 0 \/ c.bad,
         NEW val \in [Keys -> Cursor], NEW tw \in BOOLEAN,
         Way(t, c, "pair", n, << >>, val, tw),
         \A k \in Keys : ~val[k].bad => Inside(val[k], t),
         NEW v, v = U!Read(t), ~U!Raising(v), ~ForeignNamedTwice(v), AsPacked(v), TypedAsNamed(v),
         NEW val2, val2 = [k \in Keys |-> IF tw \/ c.bad THEN Bad(val[k]) ELSE val[k]]
  PROVE  [i \in 1..Len(Order) |-> Read1(t, val2, Order[i])]
           = U!DescribeAdvertisement(v, Order, Numbers)
<1> DEFINE N == U!Held(t, 0)
           all == All(t)
<1>1. ASSUME v.kind # "map", \A k \in Keys : val2[k].bad
      PROVE  [i \in 1..Len(Order) |-> Read1(t, val2, Order[i])]
               = U!DescribeAdvertisement(v, Order, Numbers)
  <2>1. ASSUME NEW i \in 1..Len(Order) PROVE Read1(t, val2, Order[i]) = Dash
    BY <1>1, KeyOf, FieldsOfNone
  <2>2. U!DescribeAdvertisement(v, Order, Numbers) = [i \in 1..Len(Order) |-> Dash]
    BY <1>1, NoFields
  <2> QED BY <2>1, <2>2
<1>2. ASSUME tw \/ c.bad, NEW k \in Keys PROVE val2[k].bad
  BY <1>2 DEF Bad
<1>3. CASE ~OpensMap(t)
  <2>1. v.kind # "map"  BY <1>3, NoMapRead
  <2>2. c.bad  BY <1>3 DEF Way
  <2> QED BY <1>1, <1>2, <2>1, <2>2
<1>4. CASE OpensMap(t) /\ Refusable(U!Met(all)) /\ (tw \/ c.bad)
  <2>1. v.kind # "map"  BY <1>4, RefusedMapRead
  <2> QED BY <1>1, <1>2, <1>4, <2>1
<1>5. CASE OpensMap(t) /\ c.bad
  <2>1. Refusable(U!Met(all))  BY <1>5 DEF Way, Placed
  <2> QED BY <1>4, <1>5, <2>1
<1>6. CASE OpensMap(t) /\ ~c.bad
  <2>1. n = 0 /\ Owes("pair", n) = 0
    <3>1. n = 0  BY <1>6
    <3>2. Owes("pair", 0) = 2 * 0  BY OwesIs
    <3> QED BY <3>1, <3>2
  <2>2. N \in Nat /\ N - 0 = N
    <3>1. N \in Nat  BY <1>6, MapIs
    <3> HIDE DEF N
    <3> QED BY <3>1
  <2>3. Placed(t, c, 0, << >>) /\ Recalls(t, N, val, tw)  BY <1>6, <2>1, <2>2 DEF Way
  <2>4. Len(all) = N  BY <1>6, <2>3, PlacedLast
  <2>5. CASE tw
    <3>1. CASE Refusable(U!Met(all))  BY <1>4, <1>6, <2>5, <3>1
    <3>2. CASE ~Refusable(U!Met(all))
      <4>1. PICK k \in Keys : \E i, g \in Places(all, k, N) : i < g
        BY <2>3, <2>5, <3>2 DEF Recalls
      <4> HIDE DEF N
      <4>2. v.kind # "map"  BY <1>6, <2>2, <4>1, TwiceRead
      <4> QED BY <1>1, <1>2, <2>5, <4>2
    <3> QED BY <3>1, <3>2
  <2>6. CASE ~tw
    <3>1. tw = FALSE  BY <2>6
    <3>2. val2 = val  BY <1>6, <2>6
    <3>3. Recalls(t, N, val, FALSE)  BY <2>3, <3>1
    <3>4. /\ v.kind = "map" /\ ~Refusable(U!Met(all)) /\ v.items = all
          /\ \A k \in Keys : \A i, g \in Places(all, k, Len(all)) : i = g
      BY <1>6, <2>3, <3>3, WholeMapRead
    <3>5. ASSUME NEW k \in Keys
          PROVE  Read1(t, val, k) =
                   IF k \in Numbers THEN U!Num(U!Lookup(v, k)) ELSE U!Blob(U!Lookup(v, k))
      <4>1. OpensMap(t) /\ v = U!Read(t) /\ TypedAsNamed(v)  BY <1>6
      <4>2. Recalls(t, Len(all), val, FALSE)  BY <2>4, <3>3
      <4>3. ~val[k].bad => Inside(val[k], t)  OBVIOUS
      <4> QED BY ONLY t \in Seq(Byte), k \in Keys, <3>4, <4>1, <4>2, <4>3, FieldAlike
    <3>6. ASSUME NEW i \in 1..Len(Order)
          PROVE  Read1(t, val2, Order[i]) =
                   IF Order[i] \in Numbers THEN U!Num(U!Lookup(v, Order[i]))
                                           ELSE U!Blob(U!Lookup(v, Order[i]))
      BY <3>2, <3>5, KeyOf
    <3> QED BY <3>6 DEF U!DescribeAdvertisement
  <2> QED BY <2>5, <2>6
<1> QED BY <1>3, <1>5, <1>6

-----------------------------------------------------------------------------
LEMMA AdvOpenMap == AdvInv /\ OpenMap => OnItsWay' /\ AdvertisementAgrees'
<1> SUFFICES ASSUME AdvInv, OpenMap PROVE OnItsWay' /\ AdvertisementAgrees'
  OBVIOUS
<1>1. Way(text, m', "pair", pairs', stack, value, twice)  BY OpenMapWay DEF AdvInv
<1> QED BY <1>1 DEF OpenMap, OnItsWay, AdvertisementAgrees

LEMMA AdvNamedKey == AdvInv /\ context = "resource_adv" /\ NamedKey => OnItsWay' /\ AdvertisementAgrees'
<1> SUFFICES ASSUME AdvInv, context = "resource_adv", NamedKey
             PROVE  OnItsWay' /\ AdvertisementAgrees'
  OBVIOUS
<1>1. /\ text \in Seq(Byte) /\ Inside(m, text) /\ pairs \in Nat /\ value \in [Keys -> Cursor]
      /\ twice \in BOOLEAN /\ stack = << >>
  BY DEF AdvInv, WalkInv, TypeOK, NamedKey
<1>2. Way(text, m, "pair", pairs, << >>, value, twice)
  BY <1>1 DEF AdvInv, OnItsWay, NamedKey
<1> DEFINE key == Taken(text, Take(m, 1), 1)
<1>3. /\ pairs > 0 /\ ~m.bad /\ Head1(text, m) = \hA1 /\ m' = Take(Take(m, 1), 1)
      /\ pairs' = pairs - 1 /\ pc' = "value" /\ text' = text /\ stack' = stack
      /\ key # << >> /\ key[1] \in Keys =>
           /\ twice' = (twice \/ ~value[key[1]].bad)
           /\ value' = [value EXCEPT ![key[1]] = m']
      /\ ~(key # << >> /\ key[1] \in Keys) => twice' = twice /\ value' = value
  BY DEF NamedKey
<1> HIDE DEF key
<1>4. key = Taken(text, Take(m, 1), 1)  BY DEF key
<1>5. /\ key # << >> /\ key[1] \in Keys =>
           Way(text, m', "value", pairs - 1, << >>, [value EXCEPT ![key[1]] = m'],
               twice \/ ~value[key[1]].bad)
      /\ ~(key # << >> /\ key[1] \in Keys) =>
           Way(text, m', "value", pairs - 1, << >>, value, twice)
  <2> DEFINE d == Take(Take(m, 1), 1)
  <2>1. m' = d  BY <1>3
  <2> HIDE DEF d
  <2>2. d = Take(Take(m, 1), 1)  BY DEF d
  <2>3. Named(text, d, pairs, value, twice, key)
    <3>1. pairs > 0 /\ ~m.bad /\ Head1(text, m) = \hA1  BY <1>3
    <3> QED BY ONLY <1>1, <1>2, <1>4, <2>2, <3>1, NamedKeyWay
  <2> QED BY <2>1, <2>3 DEF Named
<1>6. Way(text', m', "value", pairs', stack', value', twice')
  <2>1. CASE key # << >> /\ key[1] \in Keys
    <3>1. /\ twice' = (twice \/ ~value[key[1]].bad)
          /\ value' = [value EXCEPT ![key[1]] = m']
          /\ text' = text /\ stack' = << >> /\ pairs' = pairs - 1
      BY <1>1, <1>3, <2>1
    <3>2. Way(text, m', "value", pairs - 1, << >>, [value EXCEPT ![key[1]] = m'],
              twice \/ ~value[key[1]].bad)
      BY <1>5, <2>1
    <3> QED BY ONLY <3>1, <3>2
  <2>2. CASE ~(key # << >> /\ key[1] \in Keys)
    <3>1. /\ twice' = twice /\ value' = value
          /\ text' = text /\ stack' = << >> /\ pairs' = pairs - 1
      BY <1>1, <1>3, <2>2
    <3>2. Way(text, m', "value", pairs - 1, << >>, value, twice)
      BY <1>5, <2>2
    <3> QED BY ONLY <3>1, <3>2
  <2> QED BY <2>1, <2>2
<1> QED BY <1>3, <1>6 DEF OnItsWay, AdvertisementAgrees

LEMMA AdvForeignKey ==
  AdvInv /\ context = "resource_adv" /\ ForeignKey => OnItsWay' /\ AdvertisementAgrees'
<1> SUFFICES ASSUME AdvInv, context = "resource_adv", ForeignKey
             PROVE  OnItsWay' /\ AdvertisementAgrees'
  OBVIOUS
<1>1. /\ text \in Seq(Byte) /\ Inside(m, text) /\ pairs \in Nat /\ stack = << >>
  BY DEF AdvInv, WalkInv, TypeOK, ForeignKey
<1>2. Way(text, m, "pair", pairs, << >>, value, twice)
  BY <1>1 DEF AdvInv, OnItsWay, ForeignKey
<1> DEFINE k == Elements(text, Take(m, 1), Head1(text, m))
<1>3. /\ pairs > 0 /\ ~m.bad /\ Head1(text, m) # \hA1
      /\ m' = Stepped(text, Take(m, 1), Head1(text, m))
      /\ stack' = IF k > 0 THEN Append(<< >>, k) ELSE << >>
      /\ pairs' = pairs - 1 /\ pc' = "skipkey" /\ text' = text /\ value' = value /\ twice' = twice
  BY <1>1 DEF ForeignKey, StepOver
<1> HIDE DEF k
<1>4. k = Elements(text, Take(m, 1), Head1(text, m))  BY DEF k
<1>5. Way(text, m', "skipkey", pairs - 1, stack', value, twice)
  BY <1>1, <1>2, <1>3, <1>4, ForeignKeyWay
<1> QED BY <1>3, <1>5 DEF OnItsWay, AdvertisementAgrees

LEMMA AdvSkipValue ==
  AdvInv /\ context = "resource_adv" /\ SkipValue => OnItsWay' /\ AdvertisementAgrees'
<1> SUFFICES ASSUME AdvInv, context = "resource_adv", SkipValue
             PROVE  OnItsWay' /\ AdvertisementAgrees'
  OBVIOUS
<1>1. /\ text \in Seq(Byte) /\ Inside(m, text) /\ pairs \in Nat /\ stack = << >>
  BY DEF AdvInv, WalkInv, TypeOK, SkipValue
<1>2. Way(text, m, "value", pairs, << >>, value, twice)
  BY <1>1 DEF AdvInv, OnItsWay, SkipValue
<1> DEFINE k == Elements(text, Take(m, 1), Head1(text, m))
<1>3. /\ m' = Stepped(text, Take(m, 1), Head1(text, m))
      /\ stack' = IF k > 0 THEN Append(<< >>, k) ELSE << >>
      /\ pairs' = pairs /\ pc' = "skipvalue" /\ text' = text /\ value' = value /\ twice' = twice
  BY <1>1 DEF SkipValue, StepOver
<1> HIDE DEF k
<1>4. k = Elements(text, Take(m, 1), Head1(text, m))  BY DEF k
<1>5. Way(text, m', "skipvalue", pairs, stack', value, twice)
  BY <1>1, <1>2, <1>3, <1>4, SkipValueWay
<1> QED BY <1>3, <1>5 DEF OnItsWay, AdvertisementAgrees

LEMMA AdvSkipElement ==
  AdvInv /\ context = "resource_adv" /\ SkipElement => OnItsWay' /\ AdvertisementAgrees'
<1> SUFFICES ASSUME AdvInv, context = "resource_adv", SkipElement
             PROVE  OnItsWay' /\ AdvertisementAgrees'
  OBVIOUS
<1>1. /\ text \in Seq(Byte) /\ Inside(m, text) /\ pairs \in Nat /\ stack \in Seq(Nat)
  BY DEF AdvInv, WalkInv, TypeOK
<1>2. Way(text, m, pc, pairs, stack, value, twice) /\ pc \in Skipping
  BY DEF AdvInv, OnItsWay, SkipElement, Skipping
<1> DEFINE k == Elements(text, Take(m, 1), Head1(text, m))
           up == [stack EXCEPT ![Len(stack)] = @ - 1]
<1>3. /\ stack # << >> /\ stack[Len(stack)] > 0 /\ ~m.bad
      /\ m' = Stepped(text, Take(m, 1), Head1(text, m))
      /\ stack' = IF k > 0 THEN Append(up, k) ELSE up
      /\ pairs' = pairs /\ pc' = pc /\ text' = text /\ value' = value /\ twice' = twice
  BY DEF SkipElement
<1> HIDE DEF k, up
<1>4. /\ k = Elements(text, Take(m, 1), Head1(text, m))
      /\ up = [stack EXCEPT ![Len(stack)] = @ - 1]
  BY DEF k, up
<1>5. Way(text, m', pc, pairs, stack', value, twice)
  BY ONLY <1>1, <1>2, <1>3, <1>4, SkipElementWay
<1> QED BY <1>3, <1>5 DEF OnItsWay, AdvertisementAgrees, SkipElement

LEMMA AdvSkipReturn ==
  AdvInv /\ context = "resource_adv" /\ (SkipReturn \/ SkipEnd)
    => OnItsWay' /\ AdvertisementAgrees'
<1> SUFFICES ASSUME AdvInv, context = "resource_adv", SkipReturn \/ SkipEnd
             PROVE  OnItsWay' /\ AdvertisementAgrees'
  OBVIOUS
<1>1. /\ text \in Seq(Byte) /\ pairs \in Nat /\ stack \in Seq(Nat)
  BY DEF AdvInv, WalkInv, TypeOK
<1>2. Way(text, m, pc, pairs, stack, value, twice) /\ pc \in Skipping
  BY DEF AdvInv, OnItsWay, SkipReturn, SkipEnd, Skipping
<1>3. CASE SkipReturn
  <2>1. Way(text, m, pc, pairs, stack', value, twice)
    BY <1>1, <1>2, <1>3, SkipReturnWay DEF SkipReturn
  <2> QED BY <1>3, <2>1 DEF SkipReturn, OnItsWay, AdvertisementAgrees
<1>4. CASE SkipEnd
  <2>1. Way(text, m, IF pc = "skipkey" THEN "value" ELSE "pair", pairs, stack, value, twice)
    BY <1>1, <1>2, SkipEndWay
  <2>2. /\ pc' = IF pc = "skipkey" THEN "value" ELSE "pair"
        /\ m' = m /\ pairs' = pairs /\ stack' = stack /\ value' = value /\ twice' = twice
        /\ text' = text
    BY <1>4 DEF SkipEnd, walk
  <2>3. Way(text', m', pc', pairs', stack', value', twice')  BY <2>1, <2>2
  <2>4. pc' # "done"  BY <2>2
  <2> QED BY <2>3, <2>4 DEF OnItsWay, AdvertisementAgrees
<1> QED BY <1>3, <1>4

LEMMA AdvPrintMap ==
  AdvInv /\ context = "resource_adv" /\ PrintMap => OnItsWay' /\ AdvertisementAgrees'
<1> SUFFICES ASSUME AdvInv, context = "resource_adv", PrintMap
             PROVE  OnItsWay' /\ AdvertisementAgrees'
  OBVIOUS
<1>1. /\ text \in Seq(Byte) /\ Inside(m, text) /\ pairs \in Nat /\ value \in [Keys -> Cursor]
      /\ twice \in BOOLEAN /\ stack = << >>
      /\ \A k \in Keys : ~value[k].bad => Inside(value[k], text)
  BY DEF AdvInv, WalkInv, TypeOK, PrintMap, Remembered
<1>2. Way(text, m, "pair", pairs, << >>, value, twice)
  BY <1>1 DEF AdvInv, OnItsWay, PrintMap
<1>3. /\ pairs = 0 \/ m.bad
      /\ value' = [k \in Keys |-> IF twice \/ m.bad THEN Bad(value[k]) ELSE value[k]]
      /\ out' = [i \in 1..Len(Order) |-> Field(Order[i], value'[Order[i]])]
      /\ pc' = "done" /\ text' = text /\ context' = context
  BY DEF PrintMap, Finish
<1>4. out' = [i \in 1..Len(Order) |-> Read1(text, value', Order[i])]
  BY <1>3 DEF Field, Read1
<1>5. ASSUME ~U!Raising(Read), ~ForeignNamedTwice(Read), AsPacked(Read), TypedAsNamed(Read)
      PROVE  out' = U!DescribeAdvertisement(Read, Order, Numbers)
  <2>1. Read = U!Read(text)  BY DEF Read
  <2> QED BY <1>1, <1>2, <1>3, <1>4, <1>5, <2>1, PrintedAgrees
<1>6. Read' = Read  BY <1>3 DEF Read
<1> QED BY <1>3, <1>5, <1>6 DEF OnItsWay, AdvertisementAgrees

LEMMA AdvOtherwise ==
  AdvInv /\ (ReadStraight \/ UNCHANGED vars) => OnItsWay' /\ AdvertisementAgrees'
<1> SUFFICES ASSUME AdvInv, ReadStraight \/ UNCHANGED vars
             PROVE  OnItsWay' /\ AdvertisementAgrees'
  OBVIOUS
<1>1. CASE ReadStraight
  <2>1. pc' = "done" /\ context' # "resource_adv"
    BY <1>1 DEF ReadStraight, PartRequest, HashmapUpdate, Cancel, Request, Response, Channel,
                Identify, Straight, Finish, Short
  <2> QED BY <2>1 DEF OnItsWay, AdvertisementAgrees
<1>2. CASE UNCHANGED vars
  <2>1. /\ text' = text /\ context' = context /\ pc' = pc /\ m' = m /\ pairs' = pairs
        /\ stack' = stack /\ value' = value /\ twice' = twice /\ out' = out
    BY <1>2 DEF vars, walk
  <2>2. Read' = Read  BY <2>1 DEF Read
  <2>3. OnItsWay'  BY <2>1 DEF AdvInv, OnItsWay
  <2>4. AdvertisementAgrees'  BY <2>1, <2>2 DEF AdvInv, AdvertisementAgrees
  <2> QED BY <2>3, <2>4
<1> QED BY <1>1, <1>2

-----------------------------------------------------------------------------
(* a step that starts or ends on the way or never was on it *)
LEMMA AdvElsewhere ==
  AdvInv /\ context # "resource_adv" /\ [Next]_vars => OnItsWay' /\ AdvertisementAgrees'
<1> SUFFICES ASSUME AdvInv, context # "resource_adv", [Next]_vars
             PROVE  OnItsWay' /\ AdvertisementAgrees'
  OBVIOUS
<1>1. CASE Walk
  <2>1. context' = context
    BY <1>1 DEF Walk, OpenMap, NamedKey, ForeignKey, SkipValue, SkipElement, SkipReturn,
                SkipEnd, PrintMap
  <2> QED BY <2>1 DEF OnItsWay, AdvertisementAgrees
<1>2. CASE ReadStraight  BY <1>2, AdvOtherwise
<1>3. CASE UNCHANGED vars  BY <1>3, AdvOtherwise
<1> QED BY <1>1, <1>2, <1>3 DEF Next, Done

(* the start is left once *)
LEMMA FreshStep == Fresh /\ [Next]_vars => Fresh'
<1> SUFFICES ASSUME Fresh, [Next]_vars PROVE Fresh'
  OBVIOUS
<1>1. CASE Walk
  <2>1. pc' # "start"
    BY <1>1 DEF Walk, OpenMap, NamedKey, ForeignKey, SkipValue, SkipElement, SkipReturn,
                SkipEnd, PrintMap, StepOver, Finish
  <2> QED BY <2>1 DEF Fresh
<1>2. CASE ReadStraight
  <2>1. pc' # "start"
    BY <1>2 DEF ReadStraight, PartRequest, HashmapUpdate, Cancel, Request, Response, Channel,
                Identify, Straight, Finish, Short
  <2> QED BY <2>1 DEF Fresh
<1>3. CASE UNCHANGED vars
  <2>1. text' = text /\ pc' = pc /\ m' = m /\ value' = value /\ twice' = twice
    BY <1>3 DEF vars
  <2> QED BY <2>1 DEF Fresh
<1> QED BY <1>1, <1>2, <1>3 DEF Next, Done

(* It holds before anything is read. *)
THEOREM AdvInitially == Init => AdvInv
<1> SUFFICES ASSUME Init PROVE AdvInv
  OBVIOUS
<1>1. pc = "start"  BY DEF Init
<1>2. OnItsWay /\ AdvertisementAgrees  BY <1>1 DEF OnItsWay, AdvertisementAgrees
<1> QED BY <1>2, WalkInitially, FreshInitially DEF AdvInv

(* Every step keeps it, the last one printing what the generator finds. *)
THEOREM AdvStep == AdvInv /\ [Next]_vars => AdvInv'
<1> SUFFICES ASSUME AdvInv, [Next]_vars PROVE AdvInv'
  OBVIOUS
<1>1. WalkInv'  BY WalkStep DEF AdvInv
<1>2. Fresh'  BY FreshStep DEF AdvInv
<1>3. OnItsWay' /\ AdvertisementAgrees'
  <2>1. CASE context # "resource_adv"  BY <2>1, AdvElsewhere
  <2>2. CASE context = "resource_adv" /\ Walk
    <3>1. CASE OpenMap  BY <3>1, AdvOpenMap
    <3>2. CASE NamedKey  BY <2>2, <3>2, AdvNamedKey
    <3>3. CASE ForeignKey  BY <2>2, <3>3, AdvForeignKey
    <3>4. CASE SkipValue  BY <2>2, <3>4, AdvSkipValue
    <3>5. CASE SkipElement  BY <2>2, <3>5, AdvSkipElement
    <3>6. CASE SkipReturn \/ SkipEnd  BY <2>2, <3>6, AdvSkipReturn
    <3>7. CASE PrintMap  BY <2>2, <3>7, AdvPrintMap
    <3> QED BY <2>2, <3>1, <3>2, <3>3, <3>4, <3>5, <3>6, <3>7 DEF Walk
  <2>3. CASE ReadStraight \/ UNCHANGED vars  BY <2>3, AdvOtherwise
  <2> QED BY <2>1, <2>2, <2>3 DEF Next, Done
<1> QED BY <1>1, <1>2, <1>3 DEF AdvInv

(* It holds throughout. *)
THEOREM AdvCorrect == Spec => []AdvInv
<1> QED BY AdvInitially, AdvStep, PTL DEF Spec

(* What cmd/dump prints of an advertisement is what the generator reads of it, *)
(* for every sequence of bytes that no packer is excluded from writing.        *)
THEOREM AdvertisementsReadAlike == Spec => []AdvertisementAgrees
<1>1. AdvInv => AdvertisementAgrees  BY DEF AdvInv
<1> QED BY <1>1, AdvCorrect, PTL

-----------------------------------------------------------------------------
(* The contexts that are not an advertisement, element by element. *)

(* what was cut holds no value of its own *)
LEMMA CutKind ==
  ASSUME NEW t \in Seq(Byte), NEW f, NEW a \in Nat, a < Len(t),
         NEW o, o = U!First(t, f, a), "cut" \in o.v.met
  PROVE  o.v.kind \in {"list", "map", "short"}
<1> DEFINE h == t[a + 1]
<1>1. h \in Byte /\ Heads(h) /\ Reads(t, a, h, o)  BY FirstReads
<1>2. \A kind \in Types : \A b : U!Typed(kind, b).met = {} /\ "cut" \notin {}  BY TypedIs
<1>3. U!Type(h) \in Types  BY <1>1, HeadWidths
<1> HIDE DEF h
<1>4. CASE h \in U!Containers  BY <1>1, <1>4 DEF Reads
<1>5. CASE h \in U!Small
  <2>1. o.v = U!Typed(U!Type(h), <<h>>)  BY <1>1, <1>5 DEF Reads
  <2> QED BY <1>2, <1>3, <2>1
<1>6. CASE h \in U!Fixed
  BY <1>1, <1>6 DEF Reads, U!Fixed, U!Nil, U!Raises, U!False, U!True, U!Having, U!Value
<1>7. CASE h \in U!Sized
  <2>1. U!Width(h) \in Nat  BY <1>1, <1>7, HeadWidths
  <2>2. a + 1 + U!Width(h) > Len(t) \/ a + 1 + U!Width(h) <= Len(t)  BY <2>1
  <2>3. o.v = U!SHORT \/ \E b : o.v = U!Typed(U!Type(h), b)  BY <1>1, <1>7, <2>2, Zenon DEF Reads
  <2> QED BY <1>2, <1>3, <2>3, ShortIs
<1>8. CASE h \in U!Lengthy
  <2>1. PICK n : Behind(t, a + 1, U!LengthWidth(h), U!TypeByte(h), U!Type(h), n, o)
    BY <1>1, <1>8 DEF Reads
  <2>2. U!LengthWidth(h) \in Nat /\ U!TypeByte(h) \in Nat  BY <1>1, <1>8, HeadWidths
  <2>3. o.v = U!SHORT \/ o.v.met = {"wide"} \/ o.v.met = {}  BY <2>1, <2>2 DEF Behind
  <2> QED BY <2>3, ShortIs
<1> QED BY <1>1, <1>4, <1>5, <1>6, <1>7, <1>8 DEF Heads

(* the readers of one element, what each takes and how it is printed *)
Hows == {"number", "bytes", "double"}
FieldAs(how, t, c) ==
  IF how = "number" THEN Uint(t, c) ELSE IF how = "bytes" THEN Bin(t, c) ELSE Double(t, c)
KindsAs(how) ==
  IF how = "number" THEN {"int"} ELSE IF how = "bytes" THEN {"bytes", "nil"} ELSE {"float"}
ShowAs(how, v) == IF how = "number" THEN U!Num(v) ELSE U!Blob(v)
(* an element that is cut or is of a kind the reader takes *)
Fits(how, v) == "cut" \in v.met \/ (v.kind \in KindsAs(how) /\ "wide" \notin v.met)

(* one element, printed by the reader its kind calls for *)
LEMMA ElementRead ==
  ASSUME NEW how \in Hows, NEW t \in Seq(Byte), NEW c, Inside(c, t), ~c.bad, c.p < Len(t), NEW f,
         NEW o, o = U!First(t, f, c.p), Fits(how, o.v)
  PROVE  /\ FieldAs(how, t, c).val = ShowAs(how, o.v)
         /\ Follows(t, c, FieldAs(how, t, c).cur, o, KindsAs(how))
<1>1. c.p \in Nat  BY DEF Inside, Cursor
<1>2. "cut" \in o.v.met => o.v.kind \in {"list", "map", "short"}  BY <1>1, CutKind
<1>3. CASE how = "number"
  <2>1. o.v.kind \notin {"long", "negative", "bool"}  BY <1>2, <1>3 DEF Fits, KindsAs
  <2>2. Uint(t, c).val = U!Num(o.v) /\ Follows(t, c, Uint(t, c).cur, o, {"int"})
    BY <2>1, NumbersAlike
  <2> QED BY <1>3, <2>2 DEF FieldAs, KindsAs, ShowAs
<1>4. CASE how = "bytes"
  <2>1. o.v.kind \notin {"float", "single"} /\ ("wide" \in o.v.met => "cut" \in o.v.met)
    BY <1>2, <1>4 DEF Fits, KindsAs
  <2>2. Bin(t, c).val = U!Blob(o.v) /\ Follows(t, c, Bin(t, c).cur, o, {"bytes", "nil"})
    BY <2>1, BytesAlike
  <2> QED BY <1>4, <2>2 DEF FieldAs, KindsAs, ShowAs
<1>5. CASE how = "double"
  <2>1. o.v.kind \notin {"bytes", "single"}  BY <1>2, <1>5 DEF Fits, KindsAs
  <2>2. Double(t, c).val = U!Blob(o.v) /\ Follows(t, c, Double(t, c).cur, o, {"float"})
    BY <2>1, DoublesAlike
  <2> QED BY <1>5, <2>2 DEF FieldAs, KindsAs, ShowAs
<1> QED BY <1>3, <1>4, <1>5 DEF Hows

(* what is not there is a dash *)
LEMMA NothingShown ==
  \A how, v : v.kind = "short" \/ v.kind = "nil" => ShowAs(how, v) = Dash
BY DEF ShowAs, U!Num, U!Blob, U!Ints, U!Bytes, Dash

(* so is a field read where nothing is left *)
LEMMA FieldAtEnd ==
  ASSUME NEW how \in Hows, NEW t, NEW c, c.bad \/ Refused(c, 1)
  PROVE  FieldAs(how, t, c).val = Dash /\ FieldAs(how, t, c).cur.bad
<1>1. Head1(t, c) = \hC1  BY DEF Head1, Refused
<1>2. Uint(t, c) = [cur |-> Bad(Take(c, 1)), val |-> Dash]  BY <1>1 DEF Uint
<1>3. Bin(t, c) = [cur |-> Bad(Take(c, 1)), val |-> Dash]  BY <1>1 DEF Bin
<1>4. Double(t, c) = [cur |-> Take(Bad(Take(c, 1)), 8), val |-> Taken(t, Bad(Take(c, 1)), 8)]
  BY <1>1 DEF Double
<1>5. \A d : Bad(d).bad  BY DEF Bad
<1>6. Refused(Bad(Take(c, 1)), 8)  BY <1>5 DEF Refused
<1>7. Taken(t, Bad(Take(c, 1)), 8) = Dash /\ Take(Bad(Take(c, 1)), 8).bad
  BY <1>5, <1>6 DEF Taken, Take, Dash
<1> QED BY <1>2, <1>3, <1>4, <1>5, <1>7 DEF FieldAs

-----------------------------------------------------------------------------
(* i of n elements are read: the cursor is in front of the others, or it was *)
(* refused and the others are not there.                                     *)
Ahead(d, c, its, i, n) ==
  /\ c.bad => \A j \in (i + 1)..Len(its) : its[j].kind = "short"
  /\ ~c.bad =>
       /\ Inside(c, d)
       /\ Len(its) = i + Len(U!Reading(d)[c.p][n - i].v)
       /\ \A j \in 1..Len(U!Reading(d)[c.p][n - i].v) :
            its[i + j] = U!Reading(d)[c.p][n - i].v[j]

(* what the element is, as far as it is there *)
Item(its, i) == IF i <= Len(its) THEN its[i] ELSE U!Nil

(* counting what is left *)
LEMMA OneFurther ==
  ASSUME NEW i \in Nat, NEW k \in Nat, NEW l, l = (i + 1) + k
  PROVE  i + 1 <= l
OBVIOUS

LEMMA OneOfOthers ==
  ASSUME NEW i \in Nat, NEW k \in Nat, NEW l, l = (i + 1) + k, NEW j \in ((i + 1) + 1)..l
  PROVE  j - (i + 1) \in 1..k /\ (i + 1) + (j - (i + 1)) = j
OBVIOUS

(* reading one element, from there or from a refusal *)
LEMMA ElementAlike ==
  ASSUME NEW how \in Hows, NEW d \in Seq(Byte), NEW c, NEW its, IsSeq(its),
         NEW n \in Nat, NEW i \in Nat, i < n, Ahead(d, c, its, i, n),
         i + 1 <= Len(its) => Fits(how, its[i + 1])
  PROVE  /\ FieldAs(how, d, c).val = ShowAs(how, Item(its, i + 1))
         /\ Ahead(d, FieldAs(how, d, c).cur, its, i + 1, n)
<1> DEFINE x == FieldAs(how, d, c)
           f == U!Reading(d)
<1>0. Len(its) \in Nat
  <2>1. PICK S : its \in Seq(S)  BY DEF IsSeq
  <2> QED BY <2>1
<1>1. CASE c.bad
  <2>1. x.val = Dash /\ x.cur.bad  BY <1>1, FieldAtEnd
  <2>2. Item(its, i + 1).kind \in {"short", "nil"}
    <3>1. i + 1 <= Len(its) => its[i + 1].kind = "short"  BY <1>0, <1>1 DEF Ahead
    <3>2. U!Nil.kind = "nil"  BY DEF U!Nil, U!Value
    <3> QED BY <3>1, <3>2 DEF Item
  <2>3. \A j \in (i + 1 + 1)..Len(its) : its[j].kind = "short"  BY <1>0, <1>1 DEF Ahead
  <2> HIDE DEF x
  <2> QED BY <2>1, <2>2, <2>3, NothingShown DEF x, Ahead
<1>2. CASE ~c.bad
  <2> DEFINE a == c.p
             one == U!First(d, f, a)
             r == f[a][n - i]
             rest == f[one.at][n - i - 1]
  <2>1. Inside(c, d) /\ a \in 0..Len(d) /\ Len(d) \in Nat  BY <1>2 DEF Ahead, Inside, Cursor
  <2>2. n - i \in Nat /\ n - i > 0 /\ n - i - 1 \in Nat /\ n - i - 1 = n - (i + 1)  OBVIOUS
  <2>3. Split(d, a, n - i, one, rest, r)
    <3> HIDE DEF a
    <3> QED BY <2>1, <2>2, ReadingSplit
  <2>4. Len(its) = i + Len(r.v) /\ \A j \in 1..Len(r.v) : its[i + j] = r.v[j]
    BY <1>2 DEF Ahead
  <2> HIDE DEF r, rest, one, a
  <2>5. CASE a = Len(d)
    <3>1. r.v = <<U!SHORT>>  BY <2>2, <2>3, <2>5 DEF Split
    <3>2. Len(its) = i + 1 /\ its[i + 1] = U!SHORT
      <4>1. Len(<<U!SHORT>>) = 1 /\ <<U!SHORT>>[1] = U!SHORT  OBVIOUS
      <4> QED BY <2>4, <3>1, <4>1
    <3>3. Refused(c, 1)
      <4>1. c.p + 1 > Len(d) /\ 1 \in Nat  BY <2>1, <2>5 DEF a
      <4>2. Refused(c, 1) <=> c.p + 1 > Len(d)
        BY ONLY d \in Seq(Byte), <1>2, <2>1, <4>1, TakeIs
      <4> QED BY <4>1, <4>2
    <3>4. x.val = Dash /\ x.cur.bad  BY <3>3, FieldAtEnd
    <3>5. ShowAs(how, Item(its, i + 1)) = Dash  BY <3>2, ShortIs, NothingShown DEF Item
    <3> HIDE DEF x
    <3> QED BY <3>2, <3>4, <3>5 DEF x, Ahead
  <2>6. CASE a < Len(d)
    <3>1. /\ one.at \in (a + 1)..Len(d) /\ Good(d, one.at, rest)
          /\ r.v = <<one.v>> \o rest.v
      BY <2>2, <2>3, <2>6 DEF Split
    <3>2. PICK S : rest.v \in Seq(S)  BY <3>1 DEF Good, IsSeq
    <3>3. /\ Len(r.v) = 1 + Len(rest.v) /\ r.v[1] = one.v /\ Len(rest.v) \in Nat
          /\ \A j \in 1..Len(rest.v) : r.v[1 + j] = rest.v[j]
      <4> DEFINE T == S \union {one.v}
      <4>1. <<one.v>> \in Seq(T) /\ rest.v \in Seq(T)  BY <3>2
      <4>2. Len(<<one.v>>) = 1 /\ <<one.v>>[1] = one.v  OBVIOUS
      <4> HIDE DEF T
      <4> QED BY <3>1, <4>1, <4>2
    <3>4. /\ Len(its) = (i + 1) + Len(rest.v) /\ its[i + 1] = one.v
          /\ \A j \in 1..Len(rest.v) : its[(i + 1) + j] = rest.v[j]
      <4>1. \A j \in 1..Len(rest.v) : 1 + j \in 1..Len(r.v) /\ i + (1 + j) = (i + 1) + j
        BY <3>3
      <4>2. 1 \in 1..Len(r.v)  BY <3>3
      <4>3. ASSUME NEW j \in 1..Len(rest.v) PROVE its[(i + 1) + j] = rest.v[j]
        <5>1. its[i + (1 + j)] = r.v[1 + j]  BY <2>4, <4>1
        <5>2. r.v[1 + j] = rest.v[j] /\ i + (1 + j) = (i + 1) + j  BY <3>3, <4>1
        <5> QED BY <5>1, <5>2
      <4>4. its[i + 1] = one.v  BY <2>4, <3>3, <4>2
      <4>5. Len(its) = (i + 1) + Len(rest.v)
        <5>1. Len(its) = i + Len(r.v)  BY <2>4
        <5>2. Len(r.v) = 1 + Len(rest.v) /\ Len(rest.v) \in Nat  BY <3>3
        <5>3. i + (1 + Len(rest.v)) = (i + 1) + Len(rest.v)
          <6> DEFINE k == Len(rest.v)
          <6>1. k \in Nat  BY <5>2
          <6> HIDE DEF k
          <6>2. i + (1 + k) = (i + 1) + k  BY ONLY i \in Nat, <6>1
          <6> QED BY <6>2 DEF k
        <5> QED BY ONLY <5>1, <5>2, <5>3
      <4> QED BY <4>3, <4>4, <4>5
    <3>5. Item(its, i + 1) = one.v /\ Fits(how, one.v)
      <4>1. i + 1 <= Len(its)
        <5>1. Len(its) = (i + 1) + Len(rest.v) /\ Len(rest.v) \in Nat  BY <3>3, <3>4
        <5> QED BY <5>1, OneFurther
      <4> QED BY <3>4, <4>1 DEF Item
    <3>6. x.val = ShowAs(how, one.v) /\ Follows(d, c, x.cur, one, KindsAs(how))
      BY <1>2, <2>1, <2>6, <3>5, ElementRead DEF a, one
    <3> HIDE DEF x
    <3>7. CASE one.v.kind \in KindsAs(how)
      <4>1. Inside(x.cur, d) /\ ~x.cur.bad /\ x.cur.p = one.at  BY <3>6, <3>7 DEF Follows
      <4>2. rest = U!Reading(d)[x.cur.p][n - (i + 1)]  BY <2>2, <4>1 DEF rest, f
      <4>3. Ahead(d, x.cur, its, i + 1, n)  BY <3>4, <4>1, <4>2 DEF Ahead
      <4> QED BY <3>5, <3>6, <4>3 DEF x
    <3>8. CASE one.v.kind \notin KindsAs(how)
      <4>1. x.cur.bad  BY <3>6, <3>8 DEF Follows
      <4>2. "cut" \in one.v.met  BY <3>5, <3>8 DEF Fits
      <4>3. one.at = Len(d)
        <5> DEFINE r1 == f[a][1]
                   rest1 == f[one.at][1 - 1]
        <5>1. Split(d, a, 1, one, rest1, r1) /\ 1 > 0
          <6>1. 1 \in Nat  OBVIOUS
          <6> QED BY <2>1, <6>1, ReadingSplit DEF one
        <5>2. Split(d, one.at, 0, U!First(d, f, one.at), f[U!First(d, f, one.at).at][0 - 1], f[one.at][0])
          <6>1. 0 \in Nat /\ one.at \in 0..Len(d)  BY <2>1, <3>1
          <6> QED BY <6>1, ReadingSplit
        <5>3. rest1.at = one.at
          <6>1. 1 - 1 = 0  OBVIOUS
          <6> QED BY <5>2, <6>1 DEF Split
        <5> HIDE DEF r1, rest1
        <5>4. /\ Good(d, a, r1) /\ r1.at = rest1.at
              /\ U!Met(r1.v) = one.v.met \union U!Met(rest1.v)
          BY <2>6, <5>1 DEF Split
        <5> QED BY <4>2, <5>3, <5>4 DEF Good
      <4>4. \A j \in 1..Len(rest.v) : rest.v[j].kind = "short"
        <5>1. Split(d, Len(d), n - i - 1, U!First(d, f, Len(d)),
                    f[U!First(d, f, Len(d)).at][n - i - 1 - 1], rest)
          <6>1. Len(d) \in 0..Len(d)  BY <2>1
          <6> QED BY <2>2, <4>3, <6>1, ReadingSplit DEF rest
        <5>2. rest.v = << >> \/ rest.v = <<U!SHORT>>  BY <2>2, <5>1 DEF Split
        <5>3. /\ Len(<< >>) = 0 /\ Len(<<U!SHORT>>) = 1
              /\ \A j \in 1..1 : <<U!SHORT>>[j] = U!SHORT
          OBVIOUS
        <5> QED BY <5>2, <5>3, ShortIs
      <4>5. \A j \in ((i + 1) + 1)..Len(its) : its[j].kind = "short"
        <5> DEFINE k == Len(rest.v)
                   l == Len(its)
        <5>1. l = (i + 1) + k /\ k \in Nat  BY <3>3, <3>4
        <5> HIDE DEF k, l
        <5>2. ASSUME NEW j \in ((i + 1) + 1)..l PROVE its[j].kind = "short"
          <6>1. j - (i + 1) \in 1..k /\ (i + 1) + (j - (i + 1)) = j
            BY <5>1, OneOfOthers
          <6>2. its[(i + 1) + (j - (i + 1))] = rest.v[j - (i + 1)]  BY <3>4, <6>1 DEF k
          <6> QED BY <4>4, <6>1, <6>2 DEF k
        <5> QED BY <5>2 DEF l
      <4>6. Ahead(d, x.cur, its, i + 1, n)  BY <4>1, <4>5 DEF Ahead
      <4> QED BY <3>5, <3>6, <4>6 DEF x
    <3> QED BY <3>7, <3>8
  <2> QED BY <2>1, <2>5, <2>6
<1> QED BY <1>1, <1>2

-----------------------------------------------------------------------------
(* the array a context has is open for both readers or for neither *)
LEMMA ArrayIs ==
  ASSUME NEW d \in Seq(Byte), Len(d) > 0, NEW n \in {2, 3}, d[1] = \h90 + n,
         NEW v, v = U!One(d), ~U!Raising(v)
  PROVE  v.kind = "list" /\ v.items = U!Reading(d)[1][n].v
<1> DEFINE h == d[1]
           f == U!Reading(d)
<1>1. h \in \h90..\h9F /\ h % 16 = n
  <2>1. n \in 0..15 /\ \A i \in 0..15 : (\h90 + i) % 16 = i /\ \h90 + i \in \h90..\h9F
    <3>1. n \in 0..15  OBVIOUS
    <3> QED BY <3>1
  <2> QED BY <2>1
<1> HIDE DEF h
<1>2. h \in U!Containers /\ h \notin U!Maps /\ U!LengthWidth(h) = 0
  <2>1. h \in U!Containers  BY <1>1 DEF U!Containers, U!FixLists
  <2>2. h \notin U!Maps  BY <1>1 DEF U!Maps, U!FixMaps
  <2>3. h \in \h80..\h9F  BY <1>1
  <2> QED BY <2>1, <2>2, <2>3, ContainerWidth
<1>3. U!Held(d, 0) = n
  <2>1. d[0 + 1] = h  BY DEF h
  <2> QED BY <1>1, <1>2, <2>1 DEF U!Held
<1>4. U!First(d, f, 0).v = U!List(f[1][n].v, {})
  <2>1. d[0 + 1] = h /\ 0 + 1 + 0 = 1 /\ 1 <= Len(d)  BY DEF h
  <2>2. {mark \in {"wide"} : U!LengthWidth(h) = 4} = {}  BY <1>2
  <2>3. \A items : U!Filled(h, items) = U!List(items, {})  BY <1>2, <2>2 DEF U!Filled
  <2> HIDE DEF f
  <2> QED BY <1>2, <1>3, <2>1, <2>3 DEF U!First, U!At
<1>5. U!Raising(U!Raises)  BY DEF U!Raising, U!Raises, U!Having, U!Value
<1>6. v = U!First(d, f, 0).v  BY <1>5, ReadIs DEF U!One
<1> QED BY <1>4, <1>6 DEF U!List

(* before its first element *)
LEMMA ArrayAlike ==
  ASSUME NEW d \in Seq(Byte), Len(d) > 0, NEW n \in {2, 3},
         NEW v, v = U!One(d), ~U!Raising(v), v.kind = "list" => d[1] = \h90 + n,
         NEW its, its = IF v.kind = "list" THEN v.items ELSE << >>
  PROVE  /\ IsSeq(its)
         /\ Ahead(d, ArrayOf(d, CursorOver(0, Len(d)), n), its, 0, n)
<1> DEFINE c == CursorOver(0, Len(d))
           r == U!Reading(d)[1][n]
<1>1. Inside(c, d) /\ ~c.bad /\ c.p = 0 /\ c.p < Len(d)  BY DEF CursorOver, Inside, Cursor
<1>2. /\ Head1(d, c) = d[1] /\ Inside(Take(c, 1), d) /\ ~Take(c, 1).bad /\ Take(c, 1).p = 1
  <2>1. c.p + 1 = 1  BY <1>1
  <2> HIDE DEF c
  <2> QED BY <1>1, <2>1, HeadIs
<1>3. CASE d[1] = \h90 + n
  <2>1. v.kind = "list" /\ v.items = r.v  BY <1>3, ArrayIs
  <2>2. ArrayOf(d, c, n) = Take(c, 1)  BY <1>2, <1>3 DEF ArrayOf
  <2>3. IsSeq(r.v)
    <3>1. 1 \in 0..Len(d) /\ n \in Nat  OBVIOUS
    <3>2. Good(d, 1, r)
      <4>1. Split(d, 1, n, U!First(d, U!Reading(d), 1),
                  U!Reading(d)[U!First(d, U!Reading(d), 1).at][n - 1], r)
        BY <3>1, ReadingSplit
      <4> QED BY <4>1 DEF Split
    <3> QED BY <3>2 DEF Good
  <2>4. n - 0 = n /\ Len(r.v) \in Nat
    <3>1. PICK S : r.v \in Seq(S)  BY <2>3 DEF IsSeq
    <3> QED BY <3>1
  <2> HIDE DEF r
  <2>5. Len(r.v) = 0 + Len(r.v) /\ \A j \in 1..Len(r.v) : r.v[0 + j] = r.v[j]
    BY <2>4
  <2>6. Ahead(d, Take(c, 1), r.v, 0, n)
    BY <1>2, <2>4, <2>5 DEF Ahead, r
  <2> QED BY <2>1, <2>2, <2>3, <2>6
<1>4. CASE d[1] # \h90 + n
  <2>1. its = << >> /\ Len(<< >>) = 0  BY <1>4
  <2>2. ArrayOf(d, c, n).bad  BY <1>2, <1>4 DEF ArrayOf, Bad
  <2> HIDE DEF c
  <2> QED BY <2>1, <2>2, NoneIsSeq DEF Ahead, c
<1> QED BY <1>3, <1>4

(* what the generator makes of the elements *)
LEMMA ElementsOfIs ==
  ASSUME NEW d, NEW n \in {2, 3}, NEW v, v = U!One(d),
         NEW its, its = IF v.kind = "list" THEN v.items ELSE << >>, NEW how, NEW i \in 1..n
  PROVE  ShowAs(how, U!ElementsOf(d, n)[i]) = ShowAs(how, Item(its, i))
<1>1. U!ElementsOf(d, n)[i] =
        IF v.kind = "list" /\ i <= Len(v.items) /\ v.items[i].kind # "short"
        THEN v.items[i] ELSE U!Nil
  BY DEF U!ElementsOf, U!Listed
<1>2. U!Nil.kind = "nil" /\ ShowAs(how, U!Nil) = Dash
  <2>1. U!Nil.kind = "nil"  BY DEF U!Nil, U!Value
  <2> QED BY <2>1, NothingShown
<1>3. CASE v.kind # "list"
  <2>1. Len(<< >>) = 0 /\ ~(i <= 0)  OBVIOUS
  <2>2. Item(its, i) = U!Nil  BY <1>3, <2>1 DEF Item
  <2> QED BY <1>1, <1>3, <2>2
<1>4. CASE v.kind = "list"
  <2>1. its = v.items  BY <1>4
  <2>2. CASE i <= Len(v.items) /\ v.items[i].kind = "short"
    <3>1. Item(its, i).kind = "short"  BY <2>1, <2>2 DEF Item
    <3> QED BY <1>1, <1>2, <2>2, <3>1, NothingShown
  <2>3. CASE ~(i <= Len(v.items) /\ v.items[i].kind = "short")
    BY <1>1, <1>4, <2>1, <2>3 DEF Item
  <2> QED BY <2>2, <2>3
<1> QED BY <1>3, <1>4

-----------------------------------------------------------------------------
(* The hashmap update has its body behind the hash: cmd/dump goes on where   *)
(* it is, the generator cuts it out and begins at its start.                 *)
Further(c, k) == [p |-> c.p + k, left |-> c.left, bad |-> c.bad]

(* t behind its first k bytes is d *)
CutFrom(t, k, d) ==
  /\ t \in Seq(Byte) /\ d \in Seq(Byte) /\ k \in Nat /\ Len(d) = Len(t) - k
  /\ \A i \in 1..Len(d) : d[i] = t[i + k]
  /\ \A i, j \in 0..Len(d) : SubSeq(d, i + 1, j) = SubSeq(t, (i + k) + 1, j + k)

(* SubSeq cuts it out *)
LEMMA CutOut ==
  ASSUME NEW t \in Seq(Byte), NEW k \in Nat, k <= Len(t), NEW d, d = SubSeq(t, k + 1, Len(t))
  PROVE  CutFrom(t, k, d)
<1>1. d \in Seq(Byte) /\ Len(d) = Len(t) - k /\ \A i \in 1..Len(d) : d[i] = t[i + k]
  OBVIOUS
<1>2. ASSUME NEW i \in 0..Len(d), NEW j \in 0..Len(d)
      PROVE  SubSeq(d, i + 1, j) = SubSeq(t, (i + k) + 1, j + k)
  <2> DEFINE a == SubSeq(d, i + 1, j)
             b == SubSeq(t, (i + k) + 1, j + k)
  <2>1. a \in Seq(Byte) /\ Len(a) = (IF i + 1 <= j THEN j - i ELSE 0)
        /\ \A g \in 1..Len(a) : a[g] = d[g + i]
    BY <1>1
  <2>2. b \in Seq(Byte) /\ Len(b) = (IF i + 1 <= j THEN j - i ELSE 0)
        /\ \A g \in 1..Len(b) : b[g] = t[g + (i + k)]
    BY <1>1
  <2> HIDE DEF a, b
  <2>3. ASSUME NEW g \in 1..Len(a) PROVE a[g] = b[g]
    <3>1. g + i \in 1..Len(d) /\ (g + i) + k = g + (i + k)  BY <1>1, <2>1
    <3> QED BY <1>1, <2>1, <2>2, <3>1
  <2>4. a = b  BY <2>1, <2>2, <2>3, SeqEqual
  <2> QED BY <2>4 DEF a, b
<1> QED BY <1>1, <1>2 DEF CutFrom

(* what is taken further on is what is taken of the part *)
LEMMA FurtherTaken ==
  ASSUME NEW t, NEW k, NEW d, CutFrom(t, k, d), NEW c, Inside(c, d), NEW n \in Nat
  PROVE  /\ Refused(Further(c, k), n) <=> Refused(c, n)
         /\ Take(Further(c, k), n) = Further(Take(c, n), k)
         /\ Taken(t, Further(c, k), n) = Taken(d, c, n)
         /\ Bad(Further(c, k)) = Further(Bad(c), k)
         /\ Inside(Take(c, n), d) /\ Inside(Bad(c), d)
<1>0. d \in Seq(Byte) /\ k \in Nat /\ c.p \in Nat /\ c.left \in Nat /\ c.bad \in BOOLEAN
  BY DEF CutFrom, Inside, Cursor
<1>1. Refused(Further(c, k), n) <=> Refused(c, n)  BY DEF Refused, Further
<1>2. Bad(Further(c, k)) = Further(Bad(c), k)  BY DEF Bad, Further
<1>3. Take(Further(c, k), n) = Further(Take(c, n), k)
  <2>1. CASE Refused(c, n)  BY <1>1, <1>2, <2>1 DEF Take
  <2>2. CASE ~Refused(c, n)
    <3>1. (c.p + k) + n = (c.p + n) + k  BY <1>0
    <3>2. Moved(Further(c, k), n) = Further(Moved(c, n), k)  BY <3>1 DEF Moved, Further
    <3> QED BY <1>1, <2>2, <3>2 DEF Take
  <2> QED BY <2>1, <2>2
<1>4. Taken(t, Further(c, k), n) = Taken(d, c, n)
  <2>1. CASE Refused(c, n)  BY <1>1, <2>1 DEF Taken
  <2>2. CASE ~Refused(c, n)
    <3>1. c.p \in 0..Len(d) /\ c.p + n \in 0..Len(d)  BY <1>0, <2>2 DEF Refused, Inside
    <3>2. SubSeq(d, c.p + 1, c.p + n) = SubSeq(t, (c.p + k) + 1, (c.p + n) + k)
      BY <3>1 DEF CutFrom
    <3>3. (c.p + n) + k = (c.p + k) + n  BY <1>0
    <3> QED BY <1>1, <2>2, <3>2, <3>3 DEF Taken, Further
  <2> QED BY <2>1, <2>2
<1>5. Inside(Take(c, n), d) /\ Inside(Bad(c), d)  BY <1>0, TakeOnward, BadOnward DEF Onward
<1> QED BY <1>1, <1>2, <1>3, <1>4, <1>5

(* the head byte, a length and an array alike *)
LEMMA FurtherHead ==
  ASSUME NEW t, NEW k, NEW d, CutFrom(t, k, d), NEW c, Inside(c, d)
  PROVE  /\ Head1(t, Further(c, k)) = Head1(d, c)
         /\ \A w \in {1, 2} : Length(t, Further(c, k), w) = Length(d, c, w)
         /\ \A n : ArrayOf(t, Further(c, k), n) = Further(ArrayOf(d, c, n), k)
<1>0. d \in Seq(Byte) /\ k \in Nat /\ c.p \in Nat /\ c.left \in Nat /\ c.left = Len(d) - c.p
  BY DEF CutFrom, Inside, Cursor
<1>1. \A n \in Nat : Refused(Further(c, k), n) <=> Refused(c, n)  BY FurtherTaken
<1>2. 1 \in Nat /\ 2 \in Nat  OBVIOUS
<1>3. Further(c, k).p = c.p + k  BY DEF Further
<1>4. ~Refused(c, 1) => t[(c.p + k) + 1] = d[c.p + 1]
  <2>1. ASSUME ~Refused(c, 1) PROVE c.p + 1 \in 1..Len(d) /\ (c.p + 1) + k = (c.p + k) + 1
    BY <1>0, <2>1 DEF Refused
  <2>2. \A i \in 1..Len(d) : d[i] = t[i + k]  BY DEF CutFrom
  <2>3. ASSUME ~Refused(c, 1) PROVE d[c.p + 1] = t[(c.p + 1) + k]  BY <2>1, <2>2, <2>3
  <2>4. ASSUME ~Refused(c, 1) PROVE (c.p + 1) + k = (c.p + k) + 1  BY <2>1, <2>4
  <2> QED BY <2>3, <2>4
<1>5. ~Refused(c, 2) => t[(c.p + k) + 1] = d[c.p + 1] /\ t[(c.p + k) + 2] = d[c.p + 2]
  <2>1. ASSUME ~Refused(c, 2)
        PROVE  /\ c.p + 1 \in 1..Len(d) /\ (c.p + 1) + k = (c.p + k) + 1
               /\ c.p + 2 \in 1..Len(d) /\ (c.p + 2) + k = (c.p + k) + 2
    BY <1>0, <2>1 DEF Refused
  <2>2. \A i \in 1..Len(d) : d[i] = t[i + k]  BY DEF CutFrom
  <2>3. ASSUME ~Refused(c, 2)
        PROVE  d[c.p + 1] = t[(c.p + 1) + k] /\ d[c.p + 2] = t[(c.p + 2) + k]
    BY <2>1, <2>2, <2>3
  <2>4. ASSUME ~Refused(c, 2)
        PROVE  (c.p + 1) + k = (c.p + k) + 1 /\ (c.p + 2) + k = (c.p + k) + 2
    BY <2>1, <2>4
  <2> QED BY <2>3, <2>4
<1>6. Head1(t, Further(c, k)) = Head1(d, c)
  BY <1>1, <1>2, <1>3, <1>4 DEF Head1
<1>7. ASSUME NEW w \in {1, 2} PROVE Length(t, Further(c, k), w) = Length(d, c, w)
  <2>1. CASE w = 1  BY <1>1, <1>2, <1>3, <1>4, <2>1 DEF Length
  <2>2. CASE w = 2  BY <1>1, <1>2, <1>3, <1>5, <2>2 DEF Length
  <2> QED BY <2>1, <2>2
<1>8. ASSUME NEW n PROVE ArrayOf(t, Further(c, k), n) = Further(ArrayOf(d, c, n), k)
  <2>1. /\ Take(Further(c, k), 1) = Further(Take(c, 1), k)
        /\ Inside(Take(c, 1), d)
    BY <1>2, FurtherTaken
  <2>2. Bad(Further(Take(c, 1), k)) = Further(Bad(Take(c, 1)), k)
    BY DEF Bad, Further
  <2> QED BY <1>6, <2>1, <2>2 DEF ArrayOf
<1> QED BY <1>6, <1>7, <1>8

(* a number *)
LEMMA FurtherNumber ==
  ASSUME NEW t, NEW k, NEW d, CutFrom(t, k, d), NEW c, Inside(c, d)
  PROVE  /\ Uint(t, Further(c, k)).val = Uint(d, c).val
         /\ Uint(t, Further(c, k)).cur = Further(Uint(d, c).cur, k)
         /\ Inside(Uint(d, c).cur, d)
<1> DEFINE h == Head1(d, c)
           c1 == Take(c, 1)
<1>1. /\ Head1(t, Further(c, k)) = h /\ Take(Further(c, k), 1) = Further(c1, k) /\ Inside(c1, d)
  <2>1. 1 \in Nat  OBVIOUS
  <2> QED BY <2>1, FurtherHead, FurtherTaken
<1>2. h \in Nat
  <2>1. d \in Seq(Byte)  BY DEF CutFrom
  <2> QED BY <2>1, HeadByte, ByteNat
<1> HIDE DEF h, c1
<1>3. ASSUME NEW w \in Nat
      PROVE  /\ Refused(Further(c1, k), w) <=> Refused(c1, w)
             /\ Take(Further(c1, k), w) = Further(Take(c1, w), k)
             /\ Taken(t, Further(c1, k), w) = Taken(d, c1, w)
             /\ Inside(Take(c1, w), d)
  BY <1>1, FurtherTaken
<1>4. Bad(Further(c1, k)) = Further(Bad(c1), k) /\ Inside(Bad(c1), d)
  <2>1. 1 \in Nat  OBVIOUS
  <2> QED BY <1>1, <2>1, FurtherTaken
<1>5. CASE h < \h80
  <2>1. Uint(d, c) = [cur |-> c1, val |-> <<h>>]  BY <1>5 DEF Uint, h, c1
  <2>2. Uint(t, Further(c, k)) = [cur |-> Further(c1, k), val |-> <<h>>]
    BY <1>1, <1>5 DEF Uint
  <2> QED BY <1>1, <2>1, <2>2
<1>6. ASSUME NEW w \in {1, 2, 4}, w = 1 => h = \hCC, w = 2 => h = \hCD, w = 4 => h = \hCE
      PROVE  /\ Uint(t, Further(c, k)).val = Uint(d, c).val
             /\ Uint(t, Further(c, k)).cur = Further(Uint(d, c).cur, k)
             /\ Inside(Uint(d, c).cur, d)
  <2>1. /\ Uint(d, c) = [cur |-> Take(c1, w),
                         val |-> IF Refused(c1, w) THEN Dash ELSE Digits(Taken(d, c1, w))]
        /\ Uint(t, Further(c, k)) =
             [cur |-> Take(Further(c1, k), w),
              val |-> IF Refused(Further(c1, k), w) THEN Dash
                      ELSE Digits(Taken(t, Further(c1, k), w))]
    <3>1. ~(h < \h80)  BY <1>6
    <3>2. Head1(d, c) = h /\ Take(c, 1) = c1  BY DEF h, c1
    <3>3. CASE w = 1
      <4>1. h = \hCC  BY <1>6, <3>3
      <4> QED BY <1>1, <3>1, <3>2, <3>3, <4>1 DEF Uint
    <3>4. CASE w = 2
      <4>1. h = \hCD  BY <1>6, <3>4
      <4> QED BY <1>1, <3>1, <3>2, <3>4, <4>1 DEF Uint
    <3>5. CASE w = 4
      <4>1. h = \hCE  BY <1>6, <3>5
      <4> QED BY <1>1, <3>1, <3>2, <3>5, <4>1 DEF Uint
    <3> QED BY <1>6, <3>3, <3>4, <3>5
  <2>2. w \in Nat  OBVIOUS
  <2> QED BY <1>3, <2>1, <2>2
<1>7. CASE ~(h < \h80) /\ h # \hCC /\ h # \hCD /\ h # \hCE
  <2>1. Head1(d, c) = h /\ Take(c, 1) = c1  BY DEF h, c1
  <2>2. Uint(d, c) = [cur |-> Bad(c1), val |-> Dash]  BY <1>7, <2>1, Zenon DEF Uint
  <2>3. Uint(t, Further(c, k)) = [cur |-> Bad(Further(c1, k)), val |-> Dash]
    BY <1>1, <1>7, Zenon DEF Uint
  <2> QED BY <1>4, <2>2, <2>3
<1>8. CASE h = \hCC
  <2>1. 1 \in {1, 2, 4} /\ 1 # 2 /\ 1 # 4  OBVIOUS
  <2> QED BY <1>6, <1>8, <2>1
<1>9. CASE h = \hCD
  <2>1. 2 \in {1, 2, 4} /\ 2 # 1 /\ 2 # 4  OBVIOUS
  <2> QED BY <1>6, <1>9, <2>1
<1>10. CASE h = \hCE
  <2>1. 4 \in {1, 2, 4} /\ 4 # 1 /\ 4 # 2  OBVIOUS
  <2> QED BY <1>6, <1>10, <2>1
<1> QED BY <1>5, <1>7, <1>8, <1>9, <1>10

(* and bytes *)
LEMMA FurtherBytes ==
  ASSUME NEW t, NEW k, NEW d, CutFrom(t, k, d), NEW c, Inside(c, d)
  PROVE  Bin(t, Further(c, k)).val = Bin(d, c).val
<1> DEFINE h == Head1(d, c)
           c1 == Take(c, 1)
<1>1. /\ Head1(t, Further(c, k)) = h /\ Take(Further(c, k), 1) = Further(c1, k) /\ Inside(c1, d)
  <2>1. 1 \in Nat  OBVIOUS
  <2> QED BY <2>1, FurtherHead, FurtherTaken
<1>2. Head1(d, c) = h /\ Take(c, 1) = c1 /\ d \in Seq(Byte)  BY DEF CutFrom
<1> HIDE DEF h, c1
<1>3. ASSUME NEW w \in {1, 2}
      PROVE  Taken(t, Take(Further(c1, k), w), Length(t, Further(c1, k), w))
               = Taken(d, Take(c1, w), Length(d, c1, w))
  <2>1. w \in Nat  OBVIOUS
  <2>2. /\ Take(Further(c1, k), w) = Further(Take(c1, w), k) /\ Inside(Take(c1, w), d)
    BY <1>1, <2>1, FurtherTaken
  <2>3. Length(t, Further(c1, k), w) = Length(d, c1, w)  BY <1>1, FurtherHead
  <2>4. Length(d, c1, w) \in Nat  BY <1>1, <1>2, LengthNat
  <2> QED BY <2>2, <2>3, <2>4, FurtherTaken
<1>4. CASE h \notin {\hC4, \hC5}
  <2>1. Bin(d, c).val = Dash /\ Bin(t, Further(c, k)).val = Dash
    <3>1. CASE h = \hC0  BY <1>1, <1>2, <3>1 DEF Bin
    <3>2. CASE h # \hC0
      <4>1. h # \hC4 /\ h # \hC5  BY <1>4
      <4>2. Bin(d, c) = [cur |-> Bad(c1), val |-> Dash]  BY <1>2, <3>2, <4>1, Zenon DEF Bin
      <4>3. Bin(t, Further(c, k)) = [cur |-> Bad(Further(c1, k)), val |-> Dash]
        BY <1>1, <3>2, <4>1, Zenon DEF Bin
      <4> QED BY <4>2, <4>3
    <3> QED BY <3>1, <3>2
  <2> QED BY <2>1
<1>5. CASE h = \hC4
  <2>1. Bin(d, c).val = Taken(d, Take(c1, 1), Length(d, c1, 1))  BY <1>2, <1>5 DEF Bin
  <2>2. Bin(t, Further(c, k)).val = Taken(t, Take(Further(c1, k), 1), Length(t, Further(c1, k), 1))
    BY <1>1, <1>5 DEF Bin
  <2> QED BY <1>3, <2>1, <2>2
<1>6. CASE h = \hC5
  <2>1. Bin(d, c).val = Taken(d, Take(c1, 2), Length(d, c1, 2))  BY <1>2, <1>6 DEF Bin
  <2>2. Bin(t, Further(c, k)).val = Taken(t, Take(Further(c1, k), 2), Length(t, Further(c1, k), 2))
    BY <1>1, <1>6 DEF Bin
  <2> QED BY <1>3, <2>1, <2>2
<1> QED BY <1>4, <1>5, <1>6

-----------------------------------------------------------------------------
(* a body of the shape a context has *)
LEMMA ShapedIs ==
  ASSUME NEW d \in Seq(Byte), Len(d) > 0, NEW n \in {2, 3}, NEW shape, Len(shape) = n,
         ShapedAs(d, shape), NEW v, v = U!One(d),
         NEW its, its = IF v.kind = "list" THEN v.items ELSE << >>
  PROVE  /\ IsSeq(its)
         /\ Ahead(d, ArrayOf(d, CursorOver(0, Len(d)), n), its, 0, n)
         /\ \A how \in Hows : \A i \in Nat \ {0} :
              shape[i] = KindsAs(how) /\ i <= Len(its) => Fits(how, its[i])
<1>1. /\ ~U!Raising(v)
      /\ v.kind = "list" => d[1] = \h90 + n
      /\ v.kind = "list" =>
           \A i \in 1..Len(v.items) :
             "cut" \in v.items[i].met \/ (v.items[i].kind \in shape[i] /\ "wide" \notin v.items[i].met)
  BY DEF ShapedAs
<1>2. IsSeq(its) /\ Ahead(d, ArrayOf(d, CursorOver(0, Len(d)), n), its, 0, n)
  BY <1>1, ArrayAlike
<1>3. Len(its) \in Nat
  <2>1. PICK S : its \in Seq(S)  BY <1>2 DEF IsSeq
  <2> QED BY <2>1
<1>4. ASSUME NEW how \in Hows, NEW i \in Nat \ {0}, shape[i] = KindsAs(how), i <= Len(its)
      PROVE  Fits(how, its[i])
  <2>1. v.kind = "list" /\ its = v.items
    <3>1. Len(<< >>) = 0  OBVIOUS
    <3> QED BY <1>4, <3>1
  <2>2. i \in 1..Len(v.items)  BY <1>3, <1>4, <2>1
  <2>3. "cut" \in its[i].met \/ (its[i].kind \in shape[i] /\ "wide" \notin its[i].met)
    BY <1>1, <2>1, <2>2
  <2> QED BY <1>4, <2>3 DEF Fits
<1> QED BY <1>2, <1>4

(* the first two elements, printed by the readers their kinds call for *)
LEMMA TwoAlike ==
  ASSUME NEW d \in Seq(Byte), Len(d) > 0, NEW n \in {2, 3}, NEW shape, Len(shape) = n,
         ShapedAs(d, shape), NEW h1 \in Hows, NEW h2 \in Hows,
         shape[1] = KindsAs(h1), shape[2] = KindsAs(h2),
         NEW u, u = ArrayOf(d, CursorOver(0, Len(d)), n),
         NEW its, its = IF U!One(d).kind = "list" THEN U!One(d).items ELSE << >>
  PROVE  /\ FieldAs(h1, d, u).val = ShowAs(h1, U!ElementsOf(d, n)[1])
         /\ FieldAs(h2, d, FieldAs(h1, d, u).cur).val = ShowAs(h2, U!ElementsOf(d, n)[2])
         /\ Ahead(d, FieldAs(h2, d, FieldAs(h1, d, u).cur).cur, its, 2, n)
<1> DEFINE x == FieldAs(h1, d, u)
           y == FieldAs(h2, d, x.cur)
<1>1. /\ IsSeq(its) /\ Ahead(d, u, its, 0, n)
      /\ \A how \in Hows : \A i \in Nat \ {0} :
           shape[i] = KindsAs(how) /\ i <= Len(its) => Fits(how, its[i])
  BY ShapedIs
<1>2. /\ n \in Nat /\ 0 \in Nat /\ 0 < n /\ 1 \in Nat /\ 1 < n /\ 1 \in Nat \ {0} /\ 2 \in Nat \ {0}
      /\ 0 + 1 = 1 /\ 1 + 1 = 2 /\ 1 \in 1..n /\ 2 \in 1..n
  OBVIOUS
<1>3. /\ 1 <= Len(its) => Fits(h1, its[1])
      /\ 2 <= Len(its) => Fits(h2, its[2])
  BY <1>1, <1>2
<1>4. x.val = ShowAs(h1, Item(its, 1)) /\ Ahead(d, x.cur, its, 1, n)
  <2>1. 0 + 1 <= Len(its) => Fits(h1, its[0 + 1])  BY <1>2, <1>3
  <2>2. /\ FieldAs(h1, d, u).val = ShowAs(h1, Item(its, 0 + 1))
        /\ Ahead(d, FieldAs(h1, d, u).cur, its, 0 + 1, n)
    BY <1>1, <1>2, <2>1, ElementAlike
  <2> QED BY <1>2, <2>2
<1> HIDE DEF x
<1>5. y.val = ShowAs(h2, Item(its, 2)) /\ Ahead(d, y.cur, its, 2, n)
  <2>1. 1 + 1 <= Len(its) => Fits(h2, its[1 + 1])  BY <1>2, <1>3
  <2>2. /\ FieldAs(h2, d, x.cur).val = ShowAs(h2, Item(its, 1 + 1))
        /\ Ahead(d, FieldAs(h2, d, x.cur).cur, its, 1 + 1, n)
    BY <1>1, <1>2, <1>4, <2>1, ElementAlike
  <2> QED BY <1>2, <2>2
<1>6. /\ ShowAs(h1, U!ElementsOf(d, n)[1]) = ShowAs(h1, Item(its, 1))
      /\ ShowAs(h2, U!ElementsOf(d, n)[2]) = ShowAs(h2, Item(its, 2))
  <2>1. 1 \in 1..n /\ 2 \in 1..n  BY <1>2
  <2>2. ShowAs(h1, U!ElementsOf(d, n)[1]) = ShowAs(h1, Item(its, 1))  BY <2>1, ElementsOfIs
  <2>3. ShowAs(h2, U!ElementsOf(d, n)[2]) = ShowAs(h2, Item(its, 2))  BY <2>1, ElementsOfIs
  <2> QED BY <2>2, <2>3
<1> QED BY <1>4, <1>5, <1>6 DEF x

(* and the third *)
LEMMA ThirdAlike ==
  ASSUME NEW d \in Seq(Byte), Len(d) > 0, NEW shape, Len(shape) = 3,
         ShapedAs(d, shape), NEW how \in Hows, shape[3] = KindsAs(how),
         NEW its, its = IF U!One(d).kind = "list" THEN U!One(d).items ELSE << >>,
         NEW c, Ahead(d, c, its, 2, 3)
  PROVE  FieldAs(how, d, c).val = ShowAs(how, U!ElementsOf(d, 3)[3])
<1>1. /\ IsSeq(its)
      /\ \A g \in Hows : \A i \in Nat \ {0} :
           shape[i] = KindsAs(g) /\ i <= Len(its) => Fits(g, its[i])
  <2>1. 3 \in {2, 3}  OBVIOUS
  <2> QED BY <2>1, ShapedIs
<1>2. /\ 3 \in Nat /\ 2 \in Nat /\ 2 < 3 /\ 2 + 1 = 3 /\ 3 \in Nat \ {0} /\ 3 \in 1..3 /\ 3 \in {2, 3}
  OBVIOUS
<1>3. 2 + 1 <= Len(its) => Fits(how, its[2 + 1])  BY <1>1, <1>2
<1>4. FieldAs(how, d, c).val = ShowAs(how, Item(its, 2 + 1))
  BY <1>1, <1>2, <1>3, ElementAlike
<1>5. ShowAs(how, U!ElementsOf(d, 3)[3]) = ShowAs(how, Item(its, 3))
  BY <1>2, ElementsOfIs
<1> QED BY <1>2, <1>4, <1>5

(* the shapes by the readers they call for *)
LEMMA ShapesAre ==
  /\ Shape["request"] = <<KindsAs("double"), KindsAs("bytes"), KindsAs("bytes")>>
  /\ Shape["response"] = <<KindsAs("bytes"), KindsAs("bytes")>>
  /\ Shape["resource_hmu"] = <<KindsAs("number"), KindsAs("bytes")>>
  /\ "number" \in Hows /\ "bytes" \in Hows /\ "double" \in Hows
BY DEF Shape, KindsAs, Hows

LEMMA FieldsAre ==
  /\ \A t, c : FieldAs("number", t, c) = Uint(t, c) /\ FieldAs("bytes", t, c) = Bin(t, c)
               /\ FieldAs("double", t, c) = Double(t, c)
  /\ \A v : ShowAs("number", v) = U!Num(v) /\ ShowAs("bytes", v) = U!Blob(v)
            /\ ShowAs("double", v) = U!Blob(v)
BY DEF FieldAs, ShowAs

-----------------------------------------------------------------------------
(* the three fields of a request *)
LEMMA RequestAlike ==
  ASSUME NEW t \in Seq(Byte), Len(t) > 0, ShapedAs(t, Shape["request"]),
         NEW u, u = ArrayOf(t, CursorOver(0, Len(t)), 3)
  PROVE  <<Double(t, u).val, Bin(t, Double(t, u).cur).val,
           Bin(t, Bin(t, Double(t, u).cur).cur).val>>
           = [i \in 1..3 |-> U!Blob(U!ElementsOf(t, 3)[i])]
<1> DEFINE shape == Shape["request"]
           its == IF U!One(t).kind = "list" THEN U!One(t).items ELSE << >>
           x == Double(t, u)
           y == Bin(t, x.cur)
           z == Bin(t, y.cur)
           e == U!ElementsOf(t, 3)
<1>1. /\ Len(shape) = 3 /\ shape[1] = KindsAs("double") /\ shape[2] = KindsAs("bytes")
      /\ shape[3] = KindsAs("bytes")
  BY ShapesAre
<1>2. 3 \in {2, 3}  OBVIOUS
<1> HIDE DEF shape, its
<1>3. /\ FieldAs("double", t, u).val = ShowAs("double", e[1])
      /\ FieldAs("bytes", t, FieldAs("double", t, u).cur).val = ShowAs("bytes", e[2])
      /\ Ahead(t, FieldAs("bytes", t, FieldAs("double", t, u).cur).cur, its, 2, 3)
  BY <1>1, <1>2, ShapesAre, TwoAlike DEF shape, its
<1>4. /\ x.val = U!Blob(e[1]) /\ y.val = U!Blob(e[2]) /\ Ahead(t, y.cur, its, 2, 3)
  BY <1>3, FieldsAre
<1> HIDE DEF x, y
<1>5. FieldAs("bytes", t, y.cur).val = ShowAs("bytes", e[3])
  BY <1>1, <1>4, ShapesAre, ThirdAlike DEF shape, its
<1>6. z.val = U!Blob(e[3])  BY <1>5, FieldsAre
<1> HIDE DEF z, e
<1>7. <<x.val, y.val, z.val>> = [i \in 1..3 |-> U!Blob(e[i])]
  BY <1>4, <1>6
<1> QED BY <1>7 DEF x, y, z, e

(* the two of a response *)
LEMMA ResponseAlike ==
  ASSUME NEW t \in Seq(Byte), Len(t) > 0, ShapedAs(t, Shape["response"]),
         NEW u, u = ArrayOf(t, CursorOver(0, Len(t)), 2)
  PROVE  <<Bin(t, u).val, Bin(t, Bin(t, u).cur).val>>
           = [i \in 1..2 |-> U!Blob(U!ElementsOf(t, 2)[i])]
<1> DEFINE shape == Shape["response"]
           its == IF U!One(t).kind = "list" THEN U!One(t).items ELSE << >>
           x == Bin(t, u)
           y == Bin(t, x.cur)
           e == U!ElementsOf(t, 2)
<1>1. /\ Len(shape) = 2 /\ shape[1] = KindsAs("bytes") /\ shape[2] = KindsAs("bytes")
  BY ShapesAre
<1>2. 2 \in {2, 3}  OBVIOUS
<1> HIDE DEF shape, its
<1>3. /\ FieldAs("bytes", t, u).val = ShowAs("bytes", e[1])
      /\ FieldAs("bytes", t, FieldAs("bytes", t, u).cur).val = ShowAs("bytes", e[2])
  BY <1>1, <1>2, ShapesAre, TwoAlike DEF shape, its
<1>4. x.val = U!Blob(e[1]) /\ y.val = U!Blob(e[2])  BY <1>3, FieldsAre
<1> HIDE DEF x, y, e
<1>5. <<x.val, y.val>> = [i \in 1..2 |-> U!Blob(e[i])]  BY <1>4
<1> QED BY <1>5 DEF x, y, e

(* the two of a hashmap update, behind the hash *)
LEMMA HashmapAlike ==
  ASSUME NEW t \in Seq(Byte), NEW k \in Nat, Len(t) > k, NEW d, d = SubSeq(t, k + 1, Len(t)),
         ShapedAs(d, Shape["resource_hmu"]),
         NEW u, u = ArrayOf(t, CursorOver(k, Len(t)), 2)
  PROVE  /\ Uint(t, u).val = U!Num(U!ElementsOf(d, 2)[1])
         /\ Bin(t, Uint(t, u).cur).val = U!Blob(U!ElementsOf(d, 2)[2])
<1> DEFINE shape == Shape["resource_hmu"]
           its == IF U!One(d).kind = "list" THEN U!One(d).items ELSE << >>
           c == CursorOver(0, Len(d))
           w == ArrayOf(d, c, 2)
           e == U!ElementsOf(d, 2)
<1>1. CutFrom(t, k, d)
  <2>1. k <= Len(t)  OBVIOUS
  <2> QED BY <2>1, CutOut
<1>2. d \in Seq(Byte) /\ Len(d) = Len(t) - k /\ Len(d) > 0  BY <1>1 DEF CutFrom
<1>3. /\ Len(shape) = 2 /\ shape[1] = KindsAs("number") /\ shape[2] = KindsAs("bytes")
  BY ShapesAre
<1>4. 2 \in {2, 3}  OBVIOUS
<1>5. Inside(c, d) /\ CursorOver(k, Len(t)) = Further(c, k)
  <2>1. 0 + k = k /\ Len(d) - 0 = Len(d) /\ Len(d) \in Nat /\ 0 \in 0..Len(d)  BY <1>2
  <2>2. c = [p |-> 0, left |-> Len(d), bad |-> FALSE]  BY <2>1 DEF CursorOver
  <2>3. CursorOver(k, Len(t)) = [p |-> k, left |-> Len(d), bad |-> FALSE]
    BY <1>2 DEF CursorOver
  <2> HIDE DEF c
  <2>4. c.p = 0 /\ c.left = Len(d) /\ c.bad = FALSE /\ c \in Cursor
    BY <2>1, <2>2 DEF Cursor
  <2> QED BY <2>1, <2>3, <2>4 DEF Further, Inside
<1>6. u = Further(w, k) /\ Inside(w, d)
  <2>1. u = Further(w, k)  BY <1>1, <1>5, FurtherHead
  <2>2. 1 \in Nat  OBVIOUS
  <2> HIDE DEF c
  <2>3. Inside(Take(c, 1), d)  BY <1>1, <1>5, <2>2, FurtherTaken
  <2>4. Inside(Bad(Take(c, 1)), d)  BY <1>1, <2>2, <2>3, FurtherTaken
  <2> QED BY <2>1, <2>3, <2>4 DEF ArrayOf
<1> HIDE DEF shape, its, w, e, c
<1>7. /\ FieldAs("number", d, w).val = ShowAs("number", e[1])
      /\ FieldAs("bytes", d, FieldAs("number", d, w).cur).val = ShowAs("bytes", e[2])
  <2>1. w = ArrayOf(d, CursorOver(0, Len(d)), 2) /\ e = U!ElementsOf(d, 2)  BY DEF w, c, e
  <2>2. ShapedAs(d, shape)  BY DEF shape
  <2>3. its = IF U!One(d).kind = "list" THEN U!One(d).items ELSE << >>  BY DEF its
  <2>4. /\ FieldAs("number", d, w).val = ShowAs("number", U!ElementsOf(d, 2)[1])
        /\ FieldAs("bytes", d, FieldAs("number", d, w).cur).val
             = ShowAs("bytes", U!ElementsOf(d, 2)[2])
    BY ONLY <1>2, <1>3, <1>4, <2>1, <2>2, <2>3, ShapesAre, TwoAlike
  <2> QED BY <2>1, <2>4
<1>8. Uint(d, w).val = U!Num(e[1]) /\ Bin(d, Uint(d, w).cur).val = U!Blob(e[2])
  BY <1>7, FieldsAre
<1>9. /\ Uint(t, u).val = Uint(d, w).val /\ Uint(t, u).cur = Further(Uint(d, w).cur, k)
      /\ Inside(Uint(d, w).cur, d)
  BY <1>1, <1>6, FurtherNumber
<1>10. Bin(t, Uint(t, u).cur).val = Bin(d, Uint(d, w).cur).val
  BY <1>1, <1>9, FurtherBytes
<1> QED BY <1>8, <1>9, <1>10 DEF e

-----------------------------------------------------------------------------
(* only an advertisement is walked *)
OnlyAdvertised ==
  pc \in {"pair", "value", "skipkey", "skipvalue"} => context = "resource_adv"
(* the inductive invariant of the other contexts *)
BodyInv == WalkInv /\ Fresh /\ OnlyAdvertised /\ BodyAgrees

LEMMA PrintedIs ==
  ASSUME NEW p, NEW v, Finish(p, v)
  PROVE  Printed' = [rule |-> v.rule, need |-> v.need, out |-> p]
BY DEF Finish, Printed

(* what was accepted prints its fields *)
LEMMA PrintedFields ==
  ASSUME NEW p, Finish(p, Accepted)
  PROVE  Printed' = U!Fields(p)
BY PrintedIs DEF Accepted, U!Fields

(* what was too short prints by how much *)
LEMMA PrintedShort ==
  ASSUME NEW need, Short(need)
  PROVE  Printed' = U!Invalid("short-plaintext", need)
BY PrintedIs DEF Short, Rejects, U!Invalid

LEMMA PartRequestTells == WalkInv /\ PartRequest => BodyAgrees'
<1> SUFFICES ASSUME WalkInv, PartRequest PROVE Printed' = Generated'
  BY DEF BodyAgrees
<1> DEFINE t == text
           hit == t[1] = EXHAUSTED
           at == IF hit THEN 1 + MAPHASHLEN ELSE 1
           last == IF hit THEN U!Slice(t, 1, 1 + MAPHASHLEN) ELSE << >>
           need == 1 + (IF hit THEN MAPHASHLEN ELSE 0) + HASHLEN
           from == 1 + Len(last)
           told == <<last, U!Slice(t, from, from + HASHLEN), U!Slice(t, from + HASHLEN, Len(t))>>
<1>1. text \in Seq(Byte) /\ MAPHASHLEN \in Nat /\ HASHLEN \in Nat
  BY LengthsAssumption DEF WalkInv, TypeOK
<1>2. text' = text /\ context' = "resource_req"  BY DEF PartRequest, Straight
<1>3. Generated' = U!DescribePartRequest(t, HASHLEN, MAPHASHLEN)  BY <1>2 DEF Generated
<1>4. need = at + HASHLEN  BY <1>1
<1>5. CASE Len(t) < 1
  <2>1. Short(1)  BY <1>5 DEF PartRequest
  <2>2. Generated' = U!Invalid("short-plaintext", 1)
    BY <1>3, <1>5 DEF U!DescribePartRequest
  <2> QED BY <2>1, <2>2, PrintedShort
<1>6. CASE ~(Len(t) < 1)
  <2>1. Generated' = U!AtLeast(t, need, told)
    BY <1>3, <1>6 DEF U!DescribePartRequest, EXHAUSTED
  <2>2. CASE Len(t) < need
    <3>1. Short(need)  BY <1>4, <1>6, <2>2 DEF PartRequest
    <3>2. Generated' = U!Invalid("short-plaintext", need)  BY <2>1, <2>2 DEF U!AtLeast
    <3> QED BY <3>1, <3>2, PrintedShort
  <2>3. CASE ~(Len(t) < need)
    <3>1. Finish(<<Slice(1, at), Slice(at, at + HASHLEN), Slice(at + HASHLEN, Len(t))>>, Accepted)
      BY <1>4, <1>6, <2>3 DEF PartRequest
    <3>2. last = Slice(1, at) /\ from = at
      <4>1. CASE hit
        <5>1. last = SubSeq(t, 2, 1 + MAPHASHLEN) /\ at = 1 + MAPHASHLEN
          BY <4>1 DEF U!Slice
        <5>2. 1 + MAPHASHLEN <= Len(t)  BY <1>1, <1>4, <2>3, <5>1
        <5>3. Len(SubSeq(t, 2, 1 + MAPHASHLEN)) = MAPHASHLEN  BY <1>1, <5>2
        <5>4. from = at  BY <5>1, <5>3
        <5>5. Slice(1, at) = SubSeq(t, 2, 1 + MAPHASHLEN)
          <6>1. 1 + 1 = 2  OBVIOUS
          <6> QED BY <5>1, <6>1 DEF Slice
        <5> QED BY <5>1, <5>4, <5>5
      <4>2. CASE ~hit
        <5>1. last = << >> /\ at = 1 /\ Len(<< >>) = 0  BY <4>2
        <5>2. SubSeq(t, 2, 1) = << >>  BY <1>1
        <5>3. from = at
          <6>1. 1 + 0 = 1  OBVIOUS
          <6> QED BY <5>1, <6>1
        <5>4. Slice(1, at) = SubSeq(t, 2, 1)
          <6>1. 1 + 1 = 2  OBVIOUS
          <6> QED BY <5>1, <6>1 DEF Slice
        <5> QED BY <5>1, <5>2, <5>3, <5>4
      <4> QED BY <4>1, <4>2
    <3>3. told = <<Slice(1, at), Slice(at, at + HASHLEN), Slice(at + HASHLEN, Len(t))>>
      BY <3>2 DEF Slice, U!Slice
    <3>4. Generated' = U!Fields(told)  BY <2>1, <2>3 DEF U!AtLeast
    <3> HIDE DEF told
    <3> QED BY <3>1, <3>3, <3>4, PrintedFields
  <2> QED BY <2>2, <2>3
<1> QED BY <1>5, <1>6

LEMMA HashmapTells == WalkInv /\ HashmapUpdate => BodyAgrees'
<1> SUFFICES ASSUME WalkInv, HashmapUpdate,
                    Body' = << >> \/ ShapedAs(Body', Shape["resource_hmu"])
             PROVE  Printed' = Generated'
  <2>1. "resource_hmu" \in DOMAIN Shape  BY DEF Shape
  <2>2. HashmapUpdate => context' = "resource_hmu"  BY DEF HashmapUpdate, Straight
  <2> QED BY <2>1, <2>2 DEF BodyAgrees
<1> DEFINE d == SubSeq(text, HASHLEN + 1, Len(text))
           u == ArrayOf(text, CursorOver(HASHLEN, Len(text)), 2)
           e == U!ElementsOf(d, 2)
           told == <<U!Slice(text, 0, HASHLEN), U!Num(e[1]), U!Blob(e[2])>>
<1>1. text \in Seq(Byte) /\ HASHLEN \in Nat
  BY LengthsAssumption DEF WalkInv, TypeOK
<1>2. text' = text /\ context' = "resource_hmu"  BY DEF HashmapUpdate, Straight
<1>3. Generated' = U!AtLeast(text, HASHLEN + 1, told)
  BY <1>2 DEF Generated, U!DescribeHashmapUpdate, U!Slice
<1>4. CASE Len(text) < HASHLEN + 1
  <2>1. Short(HASHLEN + 1)  BY <1>4 DEF HashmapUpdate
  <2>2. Generated' = U!Invalid("short-plaintext", HASHLEN + 1)  BY <1>3, <1>4 DEF U!AtLeast
  <2> QED BY <2>1, <2>2, PrintedShort
<1>5. CASE ~(Len(text) < HASHLEN + 1)
  <2>1. Finish(<<Slice(0, HASHLEN), Uint(text, u).val, Bin(text, Uint(text, u).cur).val>>, Accepted)
    BY <1>5 DEF HashmapUpdate
  <2>2. Body' = d  BY <1>2 DEF Body
  <2>3. Len(text) > HASHLEN /\ d # << >>
    <3>1. Len(text) > HASHLEN  BY <1>1, <1>5
    <3>2. Len(d) = Len(text) - HASHLEN  BY <1>1, <3>1
    <3>3. Len(d) # 0 /\ Len(<< >>) = 0  BY <1>1, <3>1, <3>2
    <3> QED BY <3>1, <3>3
  <2>4. ShapedAs(d, Shape["resource_hmu"])  BY <2>2, <2>3
  <2> HIDE DEF d, u
  <2>5. Uint(text, u).val = U!Num(e[1]) /\ Bin(text, Uint(text, u).cur).val = U!Blob(e[2])
    BY <1>1, <2>3, <2>4, HashmapAlike DEF d, u
  <2>6. told = <<Slice(0, HASHLEN), Uint(text, u).val, Bin(text, Uint(text, u).cur).val>>
    BY <2>5 DEF Slice, U!Slice
  <2>7. Generated' = U!Fields(told)  BY <1>3, <1>5 DEF U!AtLeast
  <2> HIDE DEF told
  <2> QED BY <2>1, <2>6, <2>7, PrintedFields
<1> QED BY <1>4, <1>5

LEMMA CancelTells == Cancel => BodyAgrees'
<1> SUFFICES ASSUME Cancel PROVE Printed' = Generated'
  BY DEF BodyAgrees
<1>1. PICK ctx \in {"resource_icl", "resource_rcl"} : Straight(ctx) /\ Finish(<<text>>, Accepted)
  BY DEF Cancel
<1>2. text' = text /\ context' \in {"resource_icl", "resource_rcl"}  BY <1>1 DEF Straight
<1>3. Generated' = U!Fields(<<text>>)  BY <1>2 DEF Generated
<1> QED BY <1>1, <1>3, PrintedFields

LEMMA RequestTells == WalkInv /\ Fresh /\ Request => BodyAgrees'
<1> SUFFICES ASSUME WalkInv, Fresh, Request,
                    Body' = << >> \/ ShapedAs(Body', Shape["request"])
             PROVE  Printed' = Generated'
  <2>1. "request" \in DOMAIN Shape  BY DEF Shape
  <2>2. Request => context' = "request"  BY DEF Request, Straight
  <2> QED BY <2>1, <2>2 DEF BodyAgrees
<1> DEFINE u == ArrayOf(text, m, 3)
           x == Double(text, u)
           y == Bin(text, x.cur)
           told == [i \in 1..3 |-> U!Blob(U!ElementsOf(text, 3)[i])]
<1>1. text \in Seq(Byte) /\ m = CursorOver(0, Len(text))
  BY DEF WalkInv, TypeOK, Fresh, Request, Straight
<1>2. text' = text /\ context' = "request"  BY DEF Request, Straight
<1>3. Generated' = U!AtLeast(text, 1, told)
  BY <1>2 DEF Generated, U!DescribeRequest
<1>4. CASE Len(text) < 1
  <2>1. Short(1)  BY <1>4 DEF Request
  <2>2. Generated' = U!Invalid("short-plaintext", 1)  BY <1>3, <1>4 DEF U!AtLeast
  <2> QED BY <2>1, <2>2, PrintedShort
<1>5. CASE ~(Len(text) < 1)
  <2>1. Finish(<<x.val, y.val, Bin(text, y.cur).val>>, Accepted)  BY <1>5 DEF Request
  <2>2. Body' = text  BY <1>2 DEF Body
  <2>3. Len(text) > 0 /\ text # << >>  BY <1>1, <1>5
  <2>4. ShapedAs(text, Shape["request"])  BY <2>2, <2>3
  <2>5. <<x.val, y.val, Bin(text, y.cur).val>> = told
    <3>1. u = ArrayOf(text, CursorOver(0, Len(text)), 3)  BY <1>1
    <3> HIDE DEF u
    <3> QED BY <1>1, <2>3, <2>4, <3>1, RequestAlike
  <2>6. Generated' = U!Fields(told)  BY <1>3, <1>5 DEF U!AtLeast
  <2> HIDE DEF told, x, y
  <2> QED BY <2>1, <2>5, <2>6, PrintedFields
<1> QED BY <1>4, <1>5

LEMMA ResponseTells == WalkInv /\ Fresh /\ Response => BodyAgrees'
<1> SUFFICES ASSUME WalkInv, Fresh, Response,
                    Body' = << >> \/ ShapedAs(Body', Shape["response"])
             PROVE  Printed' = Generated'
  <2>1. "response" \in DOMAIN Shape  BY DEF Shape
  <2>2. Response => context' = "response"  BY DEF Response, Straight
  <2> QED BY <2>1, <2>2 DEF BodyAgrees
<1> DEFINE u == ArrayOf(text, m, 2)
           x == Bin(text, u)
           told == [i \in 1..2 |-> U!Blob(U!ElementsOf(text, 2)[i])]
<1>1. text \in Seq(Byte) /\ m = CursorOver(0, Len(text))
  BY DEF WalkInv, TypeOK, Fresh, Response, Straight
<1>2. text' = text /\ context' = "response"  BY DEF Response, Straight
<1>3. Generated' = U!AtLeast(text, 1, told)
  BY <1>2 DEF Generated, U!DescribeResponse
<1>4. CASE Len(text) < 1
  <2>1. Short(1)  BY <1>4 DEF Response
  <2>2. Generated' = U!Invalid("short-plaintext", 1)  BY <1>3, <1>4 DEF U!AtLeast
  <2> QED BY <2>1, <2>2, PrintedShort
<1>5. CASE ~(Len(text) < 1)
  <2>1. Finish(<<x.val, Bin(text, x.cur).val>>, Accepted)  BY <1>5 DEF Response
  <2>2. Body' = text  BY <1>2 DEF Body
  <2>3. Len(text) > 0 /\ text # << >>  BY <1>1, <1>5
  <2>4. ShapedAs(text, Shape["response"])  BY <2>2, <2>3
  <2>5. <<x.val, Bin(text, x.cur).val>> = told
    <3>1. u = ArrayOf(text, CursorOver(0, Len(text)), 2)  BY <1>1
    <3> HIDE DEF u
    <3> QED BY <1>1, <2>3, <2>4, <3>1, ResponseAlike
  <2>6. Generated' = U!Fields(told)  BY <1>3, <1>5 DEF U!AtLeast
  <2> HIDE DEF told, x
  <2> QED BY <2>1, <2>5, <2>6, PrintedFields
<1> QED BY <1>4, <1>5

LEMMA ChannelTells == Channel => BodyAgrees'
<1> SUFFICES ASSUME Channel PROVE Printed' = Generated'
  BY DEF BodyAgrees
<1> DEFINE told == <<Slice(0, 2), Slice(2, 4), Slice(4, 6), Slice(ENVELOPELEN, Len(text))>>
<1>1. text' = text /\ context' = "channel"  BY DEF Channel, Straight
<1>2. Generated' = U!AtLeast(text, ENVELOPELEN, told)
  BY <1>1 DEF Generated, U!DescribeChannel, Slice, U!Slice
<1>3. /\ Len(text) < ENVELOPELEN => Short(ENVELOPELEN)
      /\ ~(Len(text) < ENVELOPELEN) => Finish(told, Accepted)
  BY DEF Channel
<1> HIDE DEF told
<1>4. CASE Len(text) < ENVELOPELEN
  BY <1>2, <1>3, <1>4, PrintedShort DEF U!AtLeast
<1>5. CASE ~(Len(text) < ENVELOPELEN)
  BY <1>2, <1>3, <1>5, PrintedFields DEF U!AtLeast
<1> QED BY <1>4, <1>5

LEMMA IdentifyTells == Identify => BodyAgrees'
<1> SUFFICES ASSUME Identify PROVE Printed' = Generated'
  BY DEF BodyAgrees
<1> DEFINE told == <<Slice(0, KEYSIZE), Slice(KEYSIZE, KEYSIZE + SIGLEN)>>
<1>1. text' = text /\ context' = "link_identify"  BY DEF Identify, Straight
<1>2. Generated' = U!DescribeIdentify(text, KEYSIZE, SIGLEN)  BY <1>1 DEF Generated
<1>3. CASE Len(text) # KEYSIZE + SIGLEN
  <2>1. Finish(<< >>, Rejects("identify-length", KEYSIZE + SIGLEN))  BY <1>3 DEF Identify
  <2>2. Generated' = U!Invalid("identify-length", KEYSIZE + SIGLEN)
    BY <1>2, <1>3 DEF U!DescribeIdentify
  <2> QED BY <2>1, <2>2, PrintedIs DEF Rejects, U!Invalid
<1>4. CASE Len(text) = KEYSIZE + SIGLEN
  <2>1. Finish(told, Accepted)  BY <1>4 DEF Identify
  <2>2. Generated' = U!Fields(told)
    BY <1>2, <1>4 DEF U!DescribeIdentify, Slice, U!Slice
  <2> HIDE DEF told
  <2> QED BY <2>1, <2>2, PrintedFields
<1> QED BY <1>3, <1>4

-----------------------------------------------------------------------------
(* It holds before anything is read. *)
THEOREM BodyInitially == Init => BodyInv
<1> SUFFICES ASSUME Init PROVE BodyInv
  OBVIOUS
<1>1. pc = "start"  BY DEF Init
<1>2. OnlyAdvertised /\ BodyAgrees  BY <1>1 DEF OnlyAdvertised, BodyAgrees
<1> QED BY <1>2, WalkInitially, FreshInitially DEF BodyInv

(* Each context is one step that keeps it. *)
THEOREM BodyStep == BodyInv /\ [Next]_vars => BodyInv'
<1> SUFFICES ASSUME BodyInv, [Next]_vars PROVE BodyInv'
  OBVIOUS
<1>1. WalkInv'  BY WalkStep DEF BodyInv
<1>2. Fresh'  BY FreshStep DEF BodyInv
<1>3. OnlyAdvertised' /\ BodyAgrees'
  <2>1. CASE Walk
    <3>1. context' = context /\ context = "resource_adv"
      BY <2>1 DEF BodyInv, OnlyAdvertised, Walk, OpenMap, NamedKey, ForeignKey, SkipValue,
                  SkipElement, SkipReturn, SkipEnd, PrintMap
    <3> QED BY <3>1 DEF OnlyAdvertised, BodyAgrees
  <2>2. CASE ReadStraight
    <3>1. pc' = "done"
      BY <2>2 DEF ReadStraight, PartRequest, HashmapUpdate, Cancel, Request, Response,
                  Channel, Identify, Straight, Finish, Short
    <3>2. BodyAgrees'
      BY <2>2, PartRequestTells, HashmapTells, CancelTells, RequestTells, ResponseTells,
         ChannelTells, IdentifyTells DEF BodyInv, ReadStraight
    <3> QED BY <3>1, <3>2 DEF OnlyAdvertised
  <2>3. CASE UNCHANGED vars
    <3>1. /\ text' = text /\ context' = context /\ pc' = pc /\ out' = out /\ verdict' = verdict
      BY <2>3 DEF vars
    <3>2. Body' = Body /\ Printed' = Printed /\ Generated' = Generated
      BY <3>1 DEF Body, Printed, Generated
    <3> QED BY <3>1, <3>2 DEF BodyInv, OnlyAdvertised, BodyAgrees
  <2> QED BY <2>1, <2>2, <2>3 DEF Next, Done
<1> QED BY <1>1, <1>2, <1>3 DEF BodyInv

(* It holds throughout. *)
THEOREM BodyCorrect == Spec => []BodyInv
<1> QED BY BodyInitially, BodyStep, PTL DEF Spec

(* In every other context the two programs reject alike and print alike, *)
(* for every sequence of bytes of the shape the hypothesis names.        *)
THEOREM BodiesReadAlike == Spec => []BodyAgrees
<1>1. BodyInv => BodyAgrees  BY DEF BodyInv
<1> QED BY <1>1, BodyCorrect, PTL
=============================================================================
