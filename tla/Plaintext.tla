----------------------------- MODULE Plaintext -----------------------------
(***************************************************************************)
(* How cmd/dump reads the plaintext of a link packet: the end of            *)
(* dump_linkdata and the whole of print_resource.                           *)
(*                                                                          *)
(* The one long read is the resource advertisement.  It is a msgpack map    *)
(* whose keys may come in any order, beside keys the format has no field    *)
(* for, each holding any msgpack value; the reader walks it once, leaves a  *)
(* cursor in value[k] for each of the eleven keys it meets, steps over      *)
(* everything else, and prints from those cursors when the walk is over.    *)
(* mp_skip_head recurses: stack holds, for every call in progress that is   *)
(* inside a container, how many elements its loop has left.                 *)
(*                                                                          *)
(* Every other context is read in one step.                                 *)
(***************************************************************************)
EXTENDS MsgPack

CONSTANTS
  Contexts,      \* the contexts a plaintext may arrive in
  Texts(_),      \* the plaintexts the reader may be given in each of them
  Order,         \* the advertisement's keys, in the order of its fields
  Numbers,       \* those of them that hold a number
  HASHLEN, MAPHASHLEN, ENVELOPELEN, KEYSIZE, SIGLEN

ASSUME TextsAssumption == \A c \in Contexts : Texts(c) \subseteq Seq(Byte)
ASSUME LengthsAssumption ==
  /\ HASHLEN \in Nat /\ MAPHASHLEN \in Nat /\ ENVELOPELEN \in Nat \ (0..5)
  /\ KEYSIZE \in Nat /\ SIGLEN \in Nat
ASSUME OrderAssumption == Order \in Seq(Byte)

Keys == {Order[i] : i \in 1..Len(Order)}
EXHAUSTED == \hFF

Accepted == [rule |-> "none", need |-> 0]
Rejects(rule, need) == [rule |-> rule, need |-> need]

VARIABLES
  text,      \* the plaintext, as the token opened it
  context,   \* the context byte of the packet, by name
  pc,        \* where the reader is
  m,         \* its cursor
  pairs,     \* pairs of the map it has not begun
  stack,     \* elements left in each container being stepped over
  value,     \* where the value of each of the eleven keys begins
  twice,     \* one of them was met again
  out,       \* what was printed, field by field
  verdict    \* the rule that rejected the plaintext, if one did

vars == <<text, context, pc, m, pairs, stack, value, twice, out, verdict>>
walk == <<m, pairs, stack, value, twice>>

Init ==
  /\ context \in Contexts
  /\ text \in Texts(context)
  /\ pc = "start"
  /\ m = CursorOver(0, Len(text))
  /\ pairs = 0
  /\ stack = << >>
  /\ value = [k \in Keys |-> NoValue]
  /\ twice = FALSE
  /\ out = << >>
  /\ verdict = Accepted

Finish(printed, v) ==
  /\ pc' = "done"
  /\ out' = printed
  /\ verdict' = v

-----------------------------------------------------------------------------
(* RESOURCE_ADV *)

OpenMap ==
  /\ pc = "start" /\ context = "resource_adv"
  /\ LET map == MapHead(text, m)
     IN  m' = map.cur /\ pairs' = map.n
  /\ pc' = "pair"
  /\ UNCHANGED <<text, context, stack, value, twice, out, verdict>>

(* step over the value whose head byte is h and whose cursor is c, then go on *)
StepOver(c, h, next) ==
  LET n == Elements(text, c, h)
  IN  /\ m' = Stepped(text, c, h)
      /\ stack' = IF n > 0 THEN Append(stack, n) ELSE stack
      /\ pc' = next

NamedKeyEarly ==   \* the cursor remembered in front of the name
  /\ pc = "pair" /\ pairs > 0 /\ ~m.bad
  /\ Head1(text, m) = \hA1
  /\ LET c   == Take(m, 1)
         key == Taken(text, c, 1)
     IN  /\ m' = Take(c, 1)
         /\ IF key # << >> /\ key[1] \in Keys
            THEN /\ twice' = (twice \/ ~value[key[1]].bad)
                 /\ value' = [value EXCEPT ![key[1]] = c]
            ELSE UNCHANGED <<twice, value>>
  /\ pairs' = pairs - 1
  /\ pc' = "value"
  /\ UNCHANGED <<text, context, stack, out, verdict>>

(* mp_key meets a one-byte string: it may be one of the eleven *)
NamedKey ==
  /\ pc = "pair" /\ pairs > 0 /\ ~m.bad
  /\ Head1(text, m) = \hA1
  /\ LET c   == Take(m, 1)
         key == Taken(text, c, 1)
     IN  /\ m' = Take(c, 1)
         /\ IF key # << >> /\ key[1] \in Keys
            THEN /\ twice' = (twice \/ ~value[key[1]].bad)
                 /\ value' = [value EXCEPT ![key[1]] = m']
            ELSE UNCHANGED <<twice, value>>
  /\ pairs' = pairs - 1
  /\ pc' = "value"
  /\ UNCHANGED <<text, context, stack, out, verdict>>

(* mp_key meets anything else, and steps over it as if it were a value *)
ForeignKey ==
  /\ pc = "pair" /\ pairs > 0 /\ ~m.bad
  /\ Head1(text, m) # \hA1
  /\ StepOver(Take(m, 1), Head1(text, m), "skipkey")
  /\ pairs' = pairs - 1
  /\ UNCHANGED <<text, context, value, twice, out, verdict>>

(* mp_skip: the value belongs to a key already dealt with *)
SkipValue ==
  /\ pc = "value"
  /\ StepOver(Take(m, 1), Head1(text, m), "skipvalue")
  /\ UNCHANGED <<text, context, pairs, value, twice, out, verdict>>

SkipElementPeeks ==   \* the head of an element looked at and not taken
  /\ pc \in {"skipkey", "skipvalue"}
  /\ stack # << >> /\ stack[Len(stack)] > 0 /\ ~m.bad
  /\ LET h  == Head1(text, m)
         n  == Elements(text, m, h)
         up == [stack EXCEPT ![Len(stack)] = @ - 1]
     IN  /\ m' = Stepped(text, m, h)
         /\ stack' = IF n > 0 THEN Append(up, n) ELSE up
  /\ UNCHANGED <<text, context, pc, pairs, value, twice, out, verdict>>

(* the loop of the innermost mp_skip_head goes round once more *)
SkipElement ==
  /\ pc \in {"skipkey", "skipvalue"}
  /\ stack # << >> /\ stack[Len(stack)] > 0 /\ ~m.bad
  /\ LET h  == Head1(text, m)
         c  == Take(m, 1)
         n  == Elements(text, c, h)
         up == [stack EXCEPT ![Len(stack)] = @ - 1]
     IN  /\ m' = Stepped(text, c, h)
         /\ stack' = IF n > 0 THEN Append(up, n) ELSE up
  /\ UNCHANGED <<text, context, pc, pairs, value, twice, out, verdict>>

SkipReturnNever ==   \* the loop does not look at bad
  /\ pc \in {"skipkey", "skipvalue"}
  /\ stack # << >> /\ (stack[Len(stack)] = 0 \/ m.bad)
  /\ stack' = IF m.bad THEN stack ELSE SubSeq(stack, 1, Len(stack) - 1)
  /\ UNCHANGED <<text, context, pc, m, pairs, value, twice, out, verdict>>

(* the innermost mp_skip_head returns *)
SkipReturn ==
  /\ pc \in {"skipkey", "skipvalue"}
  /\ stack # << >> /\ (stack[Len(stack)] = 0 \/ m.bad)
  /\ stack' = SubSeq(stack, 1, Len(stack) - 1)
  /\ UNCHANGED <<text, context, pc, m, pairs, value, twice, out, verdict>>

SkipEnd ==
  /\ pc \in {"skipkey", "skipvalue"} /\ stack = << >>
  /\ pc' = IF pc = "skipkey" THEN "value" ELSE "pair"
  /\ UNCHANGED <<text, context, walk, out, verdict>>

(* the map is whole or it is nothing, and then the fields are printed *)
Field(k, from) == IF k \in Numbers THEN Uint(text, from).val
                                   ELSE Bin(text, from).val

PrintMapAsFarAsRead ==   \* a map that ran out keeps the keys before the cut
  /\ pc = "pair" /\ (pairs = 0 \/ m.bad)
  /\ value' = [k \in Keys |-> IF twice THEN Bad(value[k]) ELSE value[k]]
  /\ Finish([i \in 1..Len(Order) |-> Field(Order[i], value'[Order[i]])], Accepted)
  /\ UNCHANGED <<text, context, m, pairs, stack, twice>>

PrintMap ==
  /\ pc = "pair" /\ (pairs = 0 \/ m.bad)
  /\ value' = [k \in Keys |-> IF twice \/ m.bad THEN Bad(value[k])
                                                ELSE value[k]]
  /\ Finish([i \in 1..Len(Order) |-> Field(Order[i], value'[Order[i]])], Accepted)
  /\ UNCHANGED <<text, context, m, pairs, stack, twice>>

-----------------------------------------------------------------------------
(* Every other context is one straight read. *)

Straight(ctx) == pc = "start" /\ context = ctx /\ UNCHANGED <<text, context, walk>>

Short(need) == Finish(<< >>, Rejects("short-plaintext", need))

(* the bytes from one offset to before another, as memory offsets count *)
Slice(from, to) == SubSeq(text, from + 1, to)

(* whether the hashmap is exhausted is printed as well: it is text[1] *)
PartRequest ==
  LET len  == Len(text)
      exhausted == text[1] = EXHAUSTED
      at   == IF exhausted THEN 1 + MAPHASHLEN ELSE 1
  IN  /\ Straight("resource_req")
      /\ IF len < 1 THEN Short(1)
         ELSE IF len < at + HASHLEN THEN Short(at + HASHLEN)
         ELSE Finish(<<Slice(1, at), Slice(at, at + HASHLEN),
                       Slice(at + HASHLEN, len)>>, Accepted)

HashmapUpdate ==
  LET u == ArrayOf(text, CursorOver(HASHLEN, Len(text)), 2)
      segment == Uint(text, u)
  IN  /\ Straight("resource_hmu")
      /\ IF Len(text) < HASHLEN + 1 THEN Short(HASHLEN + 1)
         ELSE Finish(<<Slice(0, HASHLEN), segment.val,
                       Bin(text, segment.cur).val>>, Accepted)

Cancel ==
  \E ctx \in {"resource_icl", "resource_rcl"} :
    Straight(ctx) /\ Finish(<<text>>, Accepted)

Request ==
  LET u    == ArrayOf(text, m, 3)
      time == Double(text, u)
      path == Bin(text, time.cur)
  IN  /\ Straight("request")
      /\ IF Len(text) < 1 THEN Short(1)
         ELSE Finish(<<time.val, path.val, Bin(text, path.cur).val>>, Accepted)

Response ==
  LET u  == ArrayOf(text, m, 2)
      id == Bin(text, u)
  IN  /\ Straight("response")
      /\ IF Len(text) < 1 THEN Short(1)
         ELSE Finish(<<id.val, Bin(text, id.cur).val>>, Accepted)

Channel ==
  /\ Straight("channel")
  /\ IF Len(text) < ENVELOPELEN THEN Short(ENVELOPELEN)
     ELSE Finish(<<Slice(0, 2), Slice(2, 4), Slice(4, 6),
                   Slice(ENVELOPELEN, Len(text))>>, Accepted)

(* one length is the rule; the verdict on the signature is left out *)
Identify ==
  /\ Straight("link_identify")
  /\ IF Len(text) # KEYSIZE + SIGLEN
     THEN Finish(<< >>, Rejects("identify-length", KEYSIZE + SIGLEN))
     ELSE Finish(<<Slice(0, KEYSIZE), Slice(KEYSIZE, KEYSIZE + SIGLEN)>>, Accepted)

Done == pc = "done" /\ UNCHANGED vars

Walk == \/ OpenMap \/ NamedKey \/ ForeignKey \/ SkipValue
        \/ SkipElement \/ SkipReturn \/ SkipEnd \/ PrintMap
ReadStraight == \/ PartRequest \/ HashmapUpdate \/ Cancel \/ Request
                \/ Response \/ Channel \/ Identify

Next == Walk \/ ReadStraight \/ Done

(* dump is one process that does nothing else: it runs until it returns *)
Fairness == WF_vars(Walk \/ ReadStraight)
Spec == Init /\ [][Next]_vars
FairSpec == Spec /\ Fairness

-----------------------------------------------------------------------------
TypeOK ==
  /\ text \in Seq(Byte)
  /\ pc \in {"start", "pair", "value", "skipkey", "skipvalue", "done"}
  /\ m \in Cursor
  /\ pairs \in Nat
  /\ stack \in Seq(Nat)
  /\ value \in [Keys -> Cursor]
  /\ twice \in BOOLEAN

(* The walk never leaves the plaintext: whatever lengths and counts the     *)
(* bytes announce, what the main cursor and every remembered cursor has     *)
(* read and what it may still read are together exactly the plaintext, so   *)
(* no mp_take, and no field printed from a cursor later, reads past the     *)
(* end.  (mp_take compares before it adds; the cursors are copied.)         *)
InsideThePlaintext ==
  /\ m.p \in 0..Len(text) /\ m.left = Len(text) - m.p
  /\ \A k \in Keys : ~value[k].bad =>
       value[k].p \in 0..Len(text) /\ value[k].left = Len(text) - value[k].p

(* The recursion of mp_skip_head goes no deeper than the plaintext is long: *)
(* every container being stepped over took a byte of its own before the     *)
(* next one was entered.  This is what bounds the C stack.                  *)
RecursionBounded == Len(stack) <= m.p

(* A cursor remembered for a key stands immediately behind that key's own   *)
(* name in the map, wherever the map put it and whatever was stepped over   *)
(* before, and never behind where the walk is now.                          *)
RememberedBehindItsName ==
  \A k \in Keys :
    ~value[k].bad => /\ value[k].p \in 2..m.p
                     /\ text[value[k].p - 1] = \hA1 /\ text[value[k].p] = k

(* Once refused, always refused: after bad is set nothing further is read,  *)
(* for the main cursor and for the answer, until the program ends.          *)
RefusalIsFinal == [][m.bad => m' = m]_vars

(* The read always ends, whatever a head byte announces: a count of 65535   *)
(* elements over no bytes stops at the first of them.                       *)
Ends == <>(pc = "done")
=============================================================================
