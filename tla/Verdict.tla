------------------------------ MODULE Verdict ------------------------------
(***************************************************************************)
(* What a run of cmd/check promises, and nothing of how it is run: the      *)
(* vectors of a corpus are judged one after the other, a judgement is never *)
(* taken back, and the exit status is what all of the judgements come to.   *)
(* Check is shown to implement it.                                          *)
(***************************************************************************)
EXTENDS Naturals

CONSTANT Undecided     \* the exit status before there is one

VARIABLES
  size,                \* how many vectors the corpus has
  judged,              \* the judgements so far, by the number of the vector
  status
vars == <<size, judged, status>>

Judgements == {"holds", "fails", "unable"}
None == [i \in 1..0 |-> "holds"]

(* One that fails decides; without any, one that holds does; and a corpus   *)
(* of which a decoder could read nothing was not measured.                  *)
StatusOf(given) == IF "fails" \in given THEN 1 ELSE IF "holds" \in given THEN 0 ELSE 2

Init == size \in Nat /\ judged = None /\ status = Undecided

(* One more vector is judged, and the others keep their judgement. *)
Judge ==
  /\ status = Undecided
  /\ \E k \in 1..size, j \in Judgements :
       /\ DOMAIN judged = 1..(k - 1)
       /\ judged' = [i \in 1..k |-> IF i = k THEN j ELSE judged[i]]
  /\ UNCHANGED <<size, status>>

(* There is no decoder, or no corpus to hold it to. *)
Refuse ==
  /\ status = Undecided /\ judged = None
  /\ status' = 2
  /\ UNCHANGED <<size, judged>>

Conclude ==
  /\ status = Undecided /\ DOMAIN judged = 1..size
  /\ status' = StatusOf({judged[i] : i \in 1..size})
  /\ UNCHANGED <<size, judged>>

Next == Judge \/ Refuse \/ Conclude
Spec == Init /\ [][Next]_vars
=============================================================================
