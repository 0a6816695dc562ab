------------------------------- MODULE Writer -------------------------------
(***************************************************************************)
(* How tools/gen files the corpus: the Writer, over a tree that earlier     *)
(* runs, editors and checkouts left in any condition, and that a run which  *)
(* dies leaves as far as it came.                                           *)
(*                                                                          *)
(* gen composes the same lines in every run, so what a file holds is told   *)
(* against them.  It reads a file as text, where Python makes one newline   *)
(* of a carriage return and a newline.                                      *)
(***************************************************************************)
EXTENDS Naturals

CONSTANTS
  N,           \* the vectors gen composes
  Crossed      \* every optional field is absent in some and there in others

ASSUME NAssumption == N \in Nat
ASSUME CrossedAssumption == Crossed \in BOOLEAN

(* Three files of a vector, and INDEX. *)
Last == 3 * N + 1
Files == 1..Last
INDEX == 0
Paths == 0..(Last - 1)

(* torn: opened to be written and not written *)
Contents == {"absent", "wanted", "wanted with returns", "torn", "other"}
ReadsAsWanted(c) == c \in {"wanted", "wanted with returns"}

VARIABLES
  disk,        \* what each path holds
  before,      \* what it held when the run began
  force,       \* --force
  at,          \* the file the run is at
  stage,       \* "idle", "comparing" or "writing"
  differs,     \* the paths that were left alone
  exit         \* how the last run ended
vars == <<disk, before, force, at, stage, differs, exit>>

-----------------------------------------------------------------------------
IndexFirst(i) == i - 1                     \* main files INDEX before the vectors

(* main files the vectors, each in three files, and then INDEX *)
PathOf(i) == IF i = Last THEN INDEX ELSE i

Init ==
  /\ disk \in [Paths -> Contents] /\ before = disk
  /\ force \in BOOLEAN
  /\ at = 1 /\ stage = "idle" /\ differs = {} /\ exit = "none"

Start(f) ==
  /\ stage = "idle"
  /\ stage' = "comparing" /\ at' = 1 /\ force' = f
  /\ before' = disk /\ differs' = {} /\ exit' = "none"
  /\ UNCHANGED disk

Goes(next) == stage' = next /\ UNCHANGED <<before, force, exit>>

FoundByName ==                             \* any file that is there will do
  /\ stage = "comparing" /\ at \in Files
  /\ disk[PathOf(at)] # "absent"
  /\ at' = at + 1 /\ Goes("comparing")
  /\ UNCHANGED <<disk, differs>>

(* self.identical *)
Identical ==
  /\ stage = "comparing" /\ at \in Files
  /\ ReadsAsWanted(disk[PathOf(at)])
  /\ at' = at + 1 /\ Goes("comparing")
  /\ UNCHANGED <<disk, differs>>

(* self.differs *)
LeaveAlone ==
  /\ stage = "comparing" /\ at \in Files
  /\ disk[PathOf(at)] # "absent" /\ ~ReadsAsWanted(disk[PathOf(at)])
  /\ ~force
  /\ differs' = differs \union {PathOf(at)}
  /\ at' = at + 1 /\ Goes("comparing")
  /\ UNCHANGED disk

OpenWhateverIsThere ==                     \* --force or not
  /\ stage = "comparing" /\ at \in Files
  /\ ~ReadsAsWanted(disk[PathOf(at)])
  /\ disk' = [disk EXCEPT ![PathOf(at)] = "torn"]
  /\ Goes("writing")
  /\ UNCHANGED <<at, differs>>

(* open(path, "w"): what the file held is gone before the lines are there *)
Open ==
  /\ stage = "comparing" /\ at \in Files
  /\ disk[PathOf(at)] = "absent" \/ (force /\ ~ReadsAsWanted(disk[PathOf(at)]))
  /\ disk' = [disk EXCEPT ![PathOf(at)] = "torn"]
  /\ Goes("writing")
  /\ UNCHANGED <<at, differs>>

WriteAndStayOpen ==                        \* the file is not closed
  /\ stage = "writing"
  /\ disk' = [disk EXCEPT ![PathOf(at)] = "wanted"]
  /\ at' = at + 1 /\ Goes("writing")
  /\ UNCHANGED differs

Write ==
  /\ stage = "writing"
  /\ disk' = [disk EXCEPT ![PathOf(at)] = "wanted"]
  /\ at' = at + 1 /\ Goes("comparing")
  /\ UNCHANGED differs

(* gen is killed, raises, or finds the disk full *)
Die ==
  /\ stage # "idle"
  /\ stage' = "idle" /\ exit' = "died"
  /\ UNCHANGED <<disk, before, force, at, differs>>

Finish ==
  /\ stage = "comparing" /\ at \notin Files
  /\ stage' = "idle"
  /\ exit' = IF differs = {} /\ Crossed THEN "clean" ELSE "one"
  /\ UNCHANGED <<disk, before, force, at, differs>>

Next ==
  \/ \E f \in BOOLEAN : Start(f)
  \/ Identical \/ LeaveAlone \/ Open \/ Write \/ Die \/ Finish

Spec == Init /\ [][Next]_vars

-----------------------------------------------------------------------------
TypeOK ==
  /\ disk \in [Paths -> Contents] /\ before \in [Paths -> Contents]
  /\ force \in BOOLEAN
  /\ at \in 1..(Last + 1) /\ stage \in {"idle", "comparing", "writing"}
  /\ stage = "writing" => at \in Files
  /\ differs \in SUBSET Paths
  /\ exit \in {"none", "died", "clean", "one"}

(* Without --force a file that was there stays as it is, through every step *)
(* of the run and when it dies (tools/gen:11).                              *)
LeftAlone ==
  ~force => \A p \in Paths : before[p] # "absent" => disk[p] = before[p]

(* "Running gen and getting a clean exit is the evidence behind every       *)
(* source line" (tools/gen:12): a run that came to its end names every path *)
(* that does not read as what gen composed, and what an earlier run tore    *)
(* open and left is among them.                                             *)
Evidence ==
  exit \in {"clean", "one"} =>
    /\ differs = {p \in Paths : ~ReadsAsWanted(disk[p])}
    /\ exit = "clean" => differs = {}

(* INDEX lists what is on file: a run, whether or not it dies, does not     *)
(* make it what gen composed before every file it lists is there.           *)
IndexLast ==
  (disk[INDEX] = "wanted" /\ before[INDEX] # "wanted") =>
    \A p \in Paths : disk[p] # "absent"

(* A vector "that already exists with different content" makes gen exit     *)
(* non-zero (tools/gen:11): a clean exit says the bytes are these.          *)
NotAByteDiffers == exit = "clean" => \A p \in Paths : disk[p] = "wanted"
=============================================================================
