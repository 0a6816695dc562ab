--------------------------- MODULE MCPlaintextSaid ---------------------------
(* What a comment or a document says, where the programs do something else *)
EXTENDS MCPlaintext

AllDashes == \A i \in 1..Len(out) : out[i] = Dash

(* "A map that names one key twice [is] nothing, and every field is the     *)
(* dash that says so" (cmd/dump.c, print_resource): whatever key it is.     *)
AKeyNamedTwiceIsNothing ==
  (pc = "done" /\ context = "resource_adv" /\ U!NamesOneKeyTwice(Read.items))
  => AllDashes
TwiceTexts(ctx) == {Map(<<Named(T) \o Five, k \o Five, k \o Nil>>) :
                      k \in ForeignKeys \union {Named(T)}}

(* "A body that is not an array holds none of them, and a body that ran out *)
(* holds the ones it reached.  Both print the same dash, and cmd/dump       *)
(* reaches it the same way" (tools/gen:574, msgpack_elements): for every    *)
(* array, whatever number of elements it announces.                         *)
EveryArrayAgrees ==
  (pc = "done" /\ context = "response" /\ ~U!Raising(U!One(text)))
  => Printed = Generated
ArrayTexts(ctx) ==
  {<<\h90 + n>> \o FlattenSeq([i \in 1..n |-> OneBin]) : n \in 0..4}
=============================================================================
