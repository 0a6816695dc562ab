----------------------------- MODULE Repository -----------------------------
(***************************************************************************)
(* cmd/check beside tools/gen, over one tree.  Nothing locks test/: check   *)
(* reads INDEX and the directories when it starts, a file each time a turn  *)
(* of its loop needs it, and INDEX twice with every raw and expect when the  *)
(* loop is over, for the corpus number; runs of gen start, file, die    *)
(* and end at any of those moments.                                         *)
(*                                                                          *)
(* A turn is told in its reads.  A file is a version of a vector: what gen  *)
(* composes or what an older gen did, and a program that reads one version  *)
(* prints that version of what it is asked for.  What a decoder does wrong  *)
(* otherwise is in Check and comes to a failure here.  The four reads of a  *)
(* meta are one, as are the two of expect ahead of the diff, and a          *)
(* directory is there with its first file.                                  *)
(***************************************************************************)
EXTENDS Naturals

CONSTANTS
  N, Crossed,    \* gen's
  Trees,         \* what test/ may hold when check starts
  Forced,        \* the values of --force gen is run with
  Encode,        \* the vectors of the encode class
  ENCODE         \* whether check asks for the round trip

VARIABLES disk, before, force, at, stage, differs, exit   \* gen's
VARIABLES
  old,           \* what INDEX lists when it is another than gen composes
  pc, present,   \* the step of check; the directories it found first
  todo, turn,    \* the vectors the loop has ahead, and the one it is at
  answer,        \* the version the decoder printed
  judged,        \* what check made of each vector
  measured,      \* what it was made of: paths, each with what it held
  tosum,         \* the vectors the number has ahead
  numbered,      \* what the number was taken over
  status         \* check's exit status

G == INSTANCE Writer
tree == <<disk, before, force, at, stage, differs, exit>>
vars == <<disk, before, force, at, stage, differs, exit, old, pc, present, todo, turn,
          answer, judged, measured, tosum, numbered, status>>

Composed == 1..N
Meta(v) == 3 * v - 2
Raw(v) == 3 * v - 1
Expect(v) == 3 * v
Whole == {"wanted", "other"}

ASSUME NAssumption == N \in Nat
ASSUME CrossedAssumption == Crossed \in BOOLEAN
ASSUME TreesAssumption == Trees \subseteq [G!Paths -> {"absent", "torn"} \union Whole]
ASSUME ForcedAssumption == Forced \subseteq BOOLEAN
ASSUME EncodeAssumption == Encode \subseteq Composed /\ ENCODE \in BOOLEAN

Running == 3                     \* no exit status yet

Filed(v) == \E f \in {Meta(v), Raw(v), Expect(v)} : disk[f] # "absent"
Directories == {v \in Composed : Filed(v)}

(* the lines of INDEX: one that is torn has none *)
Listed == CASE disk[G!INDEX] = "wanted" -> Composed
            [] disk[G!INDEX] = "other"  -> old
            [] OTHER                    -> {}

Init ==
  /\ disk \in Trees /\ before = disk
  /\ old \in IF disk[G!INDEX] = "other" THEN SUBSET Composed ELSE {{}}
  /\ force = FALSE /\ at = 1 /\ stage = "idle" /\ differs = {} /\ exit = "none"
  /\ pc = "start" /\ present = {} /\ todo = {} /\ turn = 0 /\ answer = "none"
  /\ judged = [v \in Composed |-> "none"]
  /\ measured = {} /\ tosum = {} /\ numbered = {} /\ status = Running

-----------------------------------------------------------------------------
(* gen *)

Generate ==
  /\ \/ \E f \in Forced : G!Start(f)
     \/ G!Identical \/ G!LeaveAlone \/ G!Open \/ G!Write \/ G!Die \/ G!Finish
  /\ UNCHANGED <<old, pc, present, todo, turn, answer, judged, measured, tosum,
                 numbered, status>>

-----------------------------------------------------------------------------
(* check, before the loop *)

Exit(s) == pc' = "done" /\ status' = s

FindIndex ==
  /\ pc = "start"
  /\ IF disk[G!INDEX] = "absent" THEN Exit(2) ELSE pc' = "find" /\ UNCHANGED status
  /\ UNCHANGED <<tree, old, present, todo, turn, answer, judged, measured, tosum,
                 numbered>>

Find ==
  /\ pc = "find" /\ pc' = "index"
  /\ present' = Directories
  /\ UNCHANGED <<tree, old, todo, turn, answer, judged, measured, tosum, numbered,
                 status>>

ReadIndexUnasked ==              \* whatever is on file is what there is
  /\ pc = "index"
  /\ pc' = "glob" /\ UNCHANGED status
  /\ measured' = measured \union {<<G!INDEX, disk[G!INDEX]>>}
  /\ UNCHANGED <<tree, old, present, todo, turn, answer, judged, tosum, numbered>>

(* diff: a tree without a vector is an empty line, and that is listed nowhere *)
ReadIndex ==
  /\ pc = "index"
  /\ IF Listed # present \/ present = {} THEN Exit(2) ELSE pc' = "glob" /\ UNCHANGED status
  /\ measured' = measured \union {<<G!INDEX, disk[G!INDEX]>>}
  /\ UNCHANGED <<tree, old, present, todo, turn, answer, judged, tosum, numbered>>

(* for dir in test/*/*/: the directories once more *)
Glob ==
  /\ pc = "glob" /\ pc' = "loop"
  /\ todo' = Directories
  /\ UNCHANGED <<tree, old, present, turn, answer, judged, measured, tosum, numbered,
                 status>>

-----------------------------------------------------------------------------
(* a turn of the loop *)

Reads(path) == measured' = measured \union {<<path, disk[path]>>}
Judged(v, as) == judged' = [judged EXCEPT ![v] = as] /\ pc' = "loop"
Onto(step) == pc' = step /\ UNCHANGED judged
First(v, vs) == v \in vs /\ \A w \in vs : v <= w

ReadMeta(v) ==
  /\ pc = "loop" /\ First(v, todo)
  /\ todo' = todo \ {v} /\ turn' = v
  /\ IF disk[Meta(v)] \in Whole THEN Onto("decode") ELSE Judged(v, "fails")
  /\ UNCHANGED <<tree, old, present, answer, measured, tosum, numbered, status>>

(* the decoder gives the kind up, prints the version it read, or fails *)
Decode(a) ==
  /\ pc = "decode"
  /\ a \in {"unable", "wrong"} \union ({disk[Raw(turn)]} \intersect Whole)
  /\ Reads(Raw(turn)) /\ answer' = a
  /\ CASE a = "unable" -> Judged(turn, "unable")
       [] a = "wrong"  -> Judged(turn, "fails")
       [] OTHER        -> Onto("compare")
  /\ UNCHANGED <<tree, old, present, todo, turn, tosum, numbered, status>>

Compare ==
  /\ pc = "compare"
  /\ Reads(Expect(turn))
  /\ IF disk[Expect(turn)] # answer THEN Judged(turn, "fails")
     ELSE IF ENCODE THEN Onto("rebuild") ELSE Judged(turn, "holds")
  /\ UNCHANGED <<tree, old, present, todo, turn, answer, tosum, numbered, status>>

(* expect, read for the way back: the decoder rebuilds the version it read, *)
(* or it does not, which is all that the decode class asks                  *)
Rebuild(a) ==
  /\ pc = "rebuild"
  /\ a \in {"wrong"} \union ({disk[Expect(turn)]} \intersect Whole)
  /\ Reads(Expect(turn)) /\ answer' = a
  /\ IF a # "wrong" THEN Onto("compare raw")
     ELSE Judged(turn, IF turn \in Encode THEN "fails" ELSE "holds")
  /\ UNCHANGED <<tree, old, present, todo, turn, tosum, numbered, status>>

CompareRaw ==
  /\ pc = "compare raw"
  /\ Reads(Raw(turn))
  /\ Judged(turn, IF (disk[Raw(turn)] = answer) = (turn \in Encode) THEN "holds" ELSE "fails")
  /\ UNCHANGED <<tree, old, present, todo, turn, answer, tosum, numbered, status>>

-----------------------------------------------------------------------------
(* the corpus number, and the exit *)

Sum(path) == numbered' = numbered \union {<<path, disk[path]>>}

SumIndex ==
  /\ pc = "loop" /\ todo = {} /\ pc' = "sum list"
  /\ Sum(G!INDEX)
  /\ UNCHANGED <<tree, old, present, todo, turn, answer, judged, measured, tosum, status>>

(* done < INDEX: opened once more for its lines *)
SumList ==
  /\ pc = "sum list" /\ pc' = "sum"
  /\ tosum' = Listed
  /\ UNCHANGED <<tree, old, present, todo, turn, answer, judged, measured, numbered, status>>

SumRaw(v) ==
  /\ pc = "sum" /\ First(v, tosum) /\ pc' = "sum expect"
  /\ Sum(Raw(v)) /\ turn' = v
  /\ UNCHANGED <<tree, old, present, todo, answer, judged, measured, tosum, status>>

SumExpect ==
  /\ pc = "sum expect" /\ pc' = "sum"
  /\ Sum(Expect(turn)) /\ tosum' = tosum \ {turn}
  /\ UNCHANGED <<tree, old, present, todo, turn, answer, judged, measured, status>>

Finish ==
  /\ pc = "sum" /\ tosum = {}
  /\ Exit(IF \E v \in Composed : judged[v] = "fails" THEN 1
          ELSE IF \E v \in Composed : judged[v] = "holds" THEN 0 ELSE 2)
  /\ UNCHANGED <<tree, old, present, todo, turn, answer, judged, measured, tosum,
                 numbered>>

Check ==
  \/ FindIndex \/ Find \/ ReadIndex \/ Glob
  \/ \E v \in Composed : ReadMeta(v) \/ SumRaw(v)
  \/ \E a \in {"unable", "wrong"} \union Whole : Decode(a) \/ Rebuild(a)
  \/ Compare \/ CompareRaw \/ SumIndex \/ SumList \/ SumExpect \/ Finish

Next == Generate \/ Check
Spec == Init /\ [][Next]_vars

-----------------------------------------------------------------------------
TypeOK ==
  /\ G!TypeOK
  /\ old \in SUBSET Composed /\ present \in SUBSET Composed
  /\ todo \in SUBSET Composed /\ tosum \in SUBSET Composed
  /\ pc \in {"start", "find", "index", "glob", "loop", "decode", "compare", "rebuild",
             "compare raw", "sum list", "sum", "sum expect", "done"}
  /\ turn \in 0..N
  /\ pc \in {"decode", "compare", "rebuild", "compare raw", "sum expect"} => turn \in Composed
  /\ answer \in {"none", "unable", "wrong"} \union Whole
  /\ judged \in [Composed -> {"none", "holds", "unable", "fails"}]
  /\ measured \subseteq G!Paths \X G!Contents /\ numbered \subseteq G!Paths \X G!Contents
  /\ status \in {0, 1, 2, Running}

(* "The corpus number is a checksum over test/INDEX, every raw and expect.  *)
(* It says what the result was measured against" (README:32), although it   *)
(* is taken from files read again when the loop is over.  An exit of 0 says *)
(* of every file the number is over that it is INDEX as it was compared, or *)
(* belongs to a vector that was given up, or to one that holds and held the *)
(* same each time a turn read it, whatever gen was filing beside check.     *)
NumberIsOfWhatWasMeasured ==
  status = 0 =>
    /\ \A e \in numbered : e[1] = G!INDEX => e \in measured
    /\ \A v \in Composed : \A p \in {Raw(v), Expect(v)} : \A e \in numbered :
         (e[1] = p /\ judged[v] # "unable") =>
           /\ judged[v] = "holds" /\ e \in measured
           /\ \A m \in measured : m[1] = p => m = e

(* make verify is check and then gen: where the one exits 0 and the other   *)
(* ends clean, whichever came first or however they overlapped, every       *)
(* vector gen composes was judged, and the number is, but for those that    *)
(* were given up, over what gen composes ("a clean exit is the evidence     *)
(* behind every source line", tools/gen:12).                                *)
VerifyIsEvidence ==
  (status = 0 /\ exit = "clean") =>
    \A v \in Composed :
      /\ judged[v] \in {"holds", "unable"}
      /\ \A p \in {Raw(v), Expect(v)} : \A e \in numbered :
           (e[1] = p /\ judged[v] = "holds") => e[2] = "wanted"
=============================================================================
