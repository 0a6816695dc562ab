------------------------------ MODULE Bindings ------------------------------
(***************************************************************************)
(* What a block that replaces names of other modules for its own length     *)
(* promises, and nothing of how: a call finds under a name what the         *)
(* innermost open block put there, and the real thing under every other.    *)
(***************************************************************************)
EXTENDS Naturals, Sequences

CONSTANTS Names, Real

VARIABLES
  open,         \* the open blocks, [block, names], the innermost one last
  saw           \* the last call: [name, owner], whose value it found
vars == <<open, saw>>

(* owner is the last of the open blocks that replaces name, or nobody *)
Owner(name, owner) ==
  \/ owner = Real /\ \A i \in 1..Len(open) : name \notin open[i].names
  \/ \E i \in 1..Len(open) :
       /\ owner = open[i].block /\ name \in open[i].names
       /\ \A j \in 1..Len(open) : j > i => name \notin open[j].names

Init == open = <<>> /\ saw = [name |-> "nothing", owner |-> Real]

(* The blocks that are open stay open, and one more is. *)
Enter ==
  /\ Len(open') = Len(open) + 1
  /\ \A i \in 1..Len(open) : open'[i] = open[i]
  /\ open'[Len(open) + 1].names \subseteq Names
  /\ UNCHANGED saw

Leave ==
  /\ Len(open) > 0 /\ Len(open') = Len(open) - 1
  /\ \A i \in 1..Len(open') : open'[i] = open[i]
  /\ UNCHANGED saw

Call ==
  /\ saw'.name \in Names /\ Owner(saw'.name, saw'.owner)
  /\ UNCHANGED open

Next == Enter \/ Leave \/ Call
Spec == Init /\ [][Next]_vars
=============================================================================
