-------------------------- MODULE RepositoryProofs --------------------------
(***************************************************************************)
(* That the corpus number is of what was measured, for any number of        *)
(* vectors, any tree and any number of runs of gen without --force beside   *)
(* check, each of which may die anywhere.                                   *)
(***************************************************************************)
EXTENDS Repository, TLAPS

Versions == {"absent", "torn"} \union Whole
Steps == {"start", "find", "index", "glob", "loop", "decode", "compare", "rebuild",
          "compare raw", "sum list", "sum", "sum expect", "done"}
InTurn == {"decode", "compare", "rebuild", "compare raw"}

(* Where a path comes in a run of gen. *)
Place(p) == IF p = G!INDEX THEN G!Last ELSE p

(* gen without --force: the one file it may change is one it tore open      *)
(* itself, because it was not there, and what it has behind it reads as     *)
(* composed or is among those that differ.                                  *)
TreeInv ==
  /\ disk \in [G!Paths -> Versions]
  /\ force = FALSE /\ at \in Nat \ {0}
  /\ stage \in {"idle", "comparing", "writing"}
  /\ stage = "writing" => at \in G!Files /\ disk[G!PathOf(at)] = "torn"
  /\ stage # "idle" =>
       /\ exit = "none"
       /\ \A p \in G!Paths : Place(p) < at => disk[p] = "wanted" \/ p \in differs
  /\ exit = "clean" => \A p \in G!Paths : disk[p] = "wanted"

(* Every read of the path gave what it still holds, and there was one. *)
Sound(p) ==
  /\ disk[p] \in Whole
  /\ <<p, disk[p]>> \in measured
  /\ \A m \in measured : m[1] = p => m[2] = disk[p]
Unread(p) == \A m \in measured : m[1] # p

(* check has found the directories INDEX lists *)
Began == pc \in InTurn \union {"glob", "loop", "sum list", "sum", "sum expect"} \/ status \in {0, 1}

Types ==
  /\ old \in SUBSET Composed /\ present \in SUBSET Composed
  /\ todo \in SUBSET Composed /\ tosum \in SUBSET Composed
  /\ pc \in Steps /\ status \in {0, 1, 2, Running}
  /\ judged \in [Composed -> {"none", "holds", "unable", "fails"}]
  /\ measured \subseteq G!Paths \X Versions /\ numbered \subseteq G!Paths \X Versions
  /\ pc \in InTurn \union {"sum expect"} => turn \in Composed
  /\ pc = "done" <=> status # Running

(* What INDEX was when it was compared is what it is, and lists the         *)
(* directories that were there.                                             *)
IndexKept ==
  /\ pc \in {"start", "find", "index"} => measured = {}
  /\ pc \in {"index", "glob"} => present \subseteq Directories
  /\ Began => Sound(G!INDEX) /\ Listed = present

(* What a turn has read so far, and what the turns behind it rest on. *)
TurnsSound ==
  /\ pc \in {"glob"} => \A v \in Composed : Unread(Raw(v)) /\ Unread(Expect(v))
  /\ \A v \in todo : Unread(Raw(v)) /\ Unread(Expect(v))
  /\ pc \in {"start", "find", "index", "glob"} => todo = {}
  /\ pc \in InTurn => turn \notin todo
  /\ pc = "decode" => Unread(Raw(turn)) /\ Unread(Expect(turn))
  /\ pc = "compare" => Sound(Raw(turn)) /\ Unread(Expect(turn)) /\ answer = disk[Raw(turn)]
  /\ pc \in {"rebuild", "compare raw"} => Sound(Raw(turn)) /\ Sound(Expect(turn))
  /\ \A v \in Composed : judged[v] = "holds" => Sound(Raw(v)) /\ Sound(Expect(v))

(* No vector INDEX lists is missed. *)
NoneMissed ==
  /\ pc = "loop" => \A v \in present : v \in todo \/ judged[v] # "none"
  /\ pc \in InTurn => \A v \in present : v \in todo \/ v = turn \/ judged[v] # "none"
  /\ pc \in {"sum list", "sum", "sum expect"} \/ status \in {0, 1} =>
       \A v \in present : judged[v] # "none"

(* What the number is over. *)
Summed ==
  /\ pc \notin {"sum list", "sum", "sum expect", "done"} => numbered = {}
  /\ pc \in {"sum", "sum expect"} => tosum \subseteq present
  /\ pc = "sum expect" => turn \in present
  /\ pc \in {"sum list", "sum", "sum expect"} \/ status \in {0, 1} =>
       \A e \in numbered :
         \/ e = <<G!INDEX, disk[G!INDEX]>>
         \/ \E v \in present : /\ e[1] \in {Raw(v), Expect(v)}
                               /\ judged[v] = "holds" => e[2] = disk[e[1]]
  /\ status = 0 => \A v \in Composed : judged[v] # "fails"

RepositoryInv == TreeInv /\ Types /\ IndexKept /\ TurnsSound /\ NoneMissed /\ Summed

-----------------------------------------------------------------------------
(* The paths of two vectors are different paths, and none is INDEX. *)
LEMMA PathsApart ==
  /\ \A v \in Composed : /\ Raw(v) \in G!Paths /\ Expect(v) \in G!Paths
                         /\ Raw(v) # G!INDEX /\ Expect(v) # G!INDEX
                         /\ Raw(v) # Expect(v)
  /\ \A v, w \in Composed : /\ Raw(v) = Raw(w) => v = w
                            /\ Expect(v) = Expect(w) => v = w
                            /\ Raw(v) # Expect(w)
  /\ G!INDEX \in G!Paths
  BY NAssumption DEF Composed, Raw, Expect, G!Paths, G!INDEX, G!Last

LEMMA OnePlaceEach ==
  /\ G!Last \in Nat
  /\ \A i \in G!Files : G!PathOf(i) \in G!Paths /\ Place(G!PathOf(i)) = i
  /\ \A p \in G!Paths : Place(p) \in G!Files
  /\ \A i \in Nat \ {0} : i \notin G!Files => \A p \in G!Paths : Place(p) < i
  BY NAssumption DEF G!Last, G!Files, G!Paths, G!PathOf, Place, G!INDEX

Lasting ==
  \A p \in G!Paths : /\ disk[p] \in Whole => disk'[p] = disk[p]
                     /\ disk[p] # "absent" => disk'[p] # "absent"

(* A run of gen without --force changes no file that is whole and takes     *)
(* none away.                                                               *)
LEMMA GenerateKeeps ==
  ASSUME TRUE \notin Forced, TreeInv, Generate
  PROVE  TreeInv' /\ Lasting
<1> USE OnePlaceEach
<1>d. disk \in [G!Paths -> Versions] /\ at \in Nat \ {0}
  BY DEF TreeInv
<1>1. CASE \E f \in Forced : G!Start(f)
  <2>1. PICK f \in Forced : G!Start(f)
    BY <1>1
  <2>2. f = FALSE
    BY ForcedAssumption
  <2>3. disk' = disk /\ force' = FALSE /\ at' = 1 /\ stage' = "comparing"
        /\ exit' = "none"
    BY <2>1, <2>2 DEF G!Start
  <2>4. \A p \in G!Paths : ~(Place(p) < 1)
    BY DEF G!Files
  <2>5. QED
    BY <1>d, <2>3, <2>4 DEF TreeInv, Lasting, Place
<1>2. CASE G!Identical
  <2>1. /\ stage = "comparing" /\ at \in G!Files /\ disk' = disk /\ at' = at + 1
        /\ stage' = "comparing" /\ force' = force /\ exit' = exit /\ differs' = differs
        /\ G!ReadsAsWanted(disk[G!PathOf(at)])
    BY <1>2 DEF G!Identical, G!Goes
  <2>2. disk[G!PathOf(at)] = "wanted"
    BY <1>d, <2>1 DEF G!ReadsAsWanted, Versions, Whole
  <2>3. \A p \in G!Paths : Place(p) < at + 1 => disk[p] = "wanted" \/ p \in differs
    <3> SUFFICES ASSUME NEW p \in G!Paths, Place(p) < at + 1
                 PROVE  disk[p] = "wanted" \/ p \in differs
      OBVIOUS
    <3>1. CASE Place(p) < at
      BY <2>1, <3>1 DEF TreeInv
    <3>2. CASE Place(p) = at
      BY <2>2, <3>2 DEF Place, G!PathOf, G!Paths, G!INDEX, G!Last, G!Files
    <3>3. QED
      BY <1>d, <3>1, <3>2 DEF G!Files
  <2>4. QED
    BY <1>d, <2>1, <2>3 DEF TreeInv, Lasting
<1>3. CASE G!LeaveAlone
  <2>1. /\ stage = "comparing" /\ at \in G!Files /\ disk' = disk /\ at' = at + 1
        /\ stage' = "comparing" /\ force' = force /\ exit' = exit
        /\ differs' = differs \union {G!PathOf(at)}
    BY <1>3 DEF G!LeaveAlone, G!Goes
  <2>2. \A p \in G!Paths : Place(p) < at + 1 => disk[p] = "wanted" \/ p \in differs'
    <3> SUFFICES ASSUME NEW p \in G!Paths, Place(p) < at + 1
                 PROVE  disk[p] = "wanted" \/ p \in differs'
      OBVIOUS
    <3>1. CASE Place(p) < at
      BY <2>1, <3>1 DEF TreeInv
    <3>2. CASE Place(p) = at
      BY <2>1, <3>2 DEF Place, G!PathOf, G!Paths, G!INDEX, G!Last, G!Files
    <3>3. QED
      BY <1>d, <3>1, <3>2 DEF G!Files
  <2>3. QED
    BY <1>d, <2>1, <2>2 DEF TreeInv, Lasting
<1>4. CASE G!Open
  <2> DEFINE q == G!PathOf(at)
  <2>1. /\ stage = "comparing" /\ at \in G!Files /\ disk' = [disk EXCEPT ![q] = "torn"]
        /\ at' = at /\ stage' = "writing" /\ force' = force /\ exit' = exit
        /\ differs' = differs /\ disk[q] = "absent"
    BY <1>4 DEF G!Open, G!Goes, TreeInv
  <2>2. q \in G!Paths /\ Place(q) = at
    BY <2>1
  <2> HIDE DEF q
  <2>3. disk' \in [G!Paths -> Versions] /\ disk'[q] = "torn"
        /\ \A p \in G!Paths : p # q => disk'[p] = disk[p]
    BY <1>d, <2>1, <2>2 DEF Versions
  <2>4. Lasting
    BY <2>1, <2>3 DEF Lasting, Whole
  <2>5. \A p \in G!Paths : Place(p) < at => disk'[p] = "wanted" \/ p \in differs
    BY <1>d, <2>1, <2>2, <2>3 DEF TreeInv
  <2>6. exit = "none"
    BY <2>1 DEF TreeInv
  <2>7. QED
    BY <1>d, <2>1, <2>3, <2>4, <2>5, <2>6 DEF TreeInv, q
<1>5. CASE G!Write
  <2> DEFINE q == G!PathOf(at)
  <2>1. /\ at \in G!Files /\ disk' = [disk EXCEPT ![q] = "wanted"] /\ at' = at + 1
        /\ stage = "writing" /\ stage' = "comparing" /\ force' = force /\ exit' = exit
        /\ differs' = differs /\ disk[q] = "torn" /\ exit = "none"
    BY <1>5 DEF G!Write, G!Goes, TreeInv
  <2>2. q \in G!Paths /\ Place(q) = at
    BY <2>1
  <2>3. \A p \in G!Paths : Place(p) = at => p = q
    BY <2>1 DEF Place, G!PathOf, G!Paths, G!INDEX, G!Last, G!Files
  <2> HIDE DEF q
  <2>4. disk' \in [G!Paths -> Versions] /\ disk'[q] = "wanted"
        /\ \A p \in G!Paths : p # q => disk'[p] = disk[p]
    BY <1>d, <2>1, <2>2 DEF Versions, Whole
  <2>5. Lasting
    BY <2>1, <2>4 DEF Lasting, Whole
  <2>6. \A p \in G!Paths : Place(p) < at + 1 => disk'[p] = "wanted" \/ p \in differs
    <3> SUFFICES ASSUME NEW p \in G!Paths, Place(p) < at + 1
                 PROVE  disk'[p] = "wanted" \/ p \in differs
      OBVIOUS
    <3>1. CASE Place(p) < at
      BY <1>d, <2>1, <2>2, <2>4, <3>1 DEF TreeInv
    <3>2. CASE Place(p) = at
      BY <2>3, <2>4, <3>2
    <3>3. QED
      BY <1>d, <3>1, <3>2 DEF G!Files
  <2>7. QED
    BY <1>d, <2>1, <2>4, <2>5, <2>6 DEF TreeInv
<1>6. CASE G!Die
  BY <1>6, <1>d DEF G!Die, TreeInv, Lasting
<1>7. CASE G!Finish
  <2>1. /\ stage = "comparing" /\ at \notin G!Files /\ disk' = disk /\ stage' = "idle"
        /\ force' = force /\ at' = at
        /\ exit' = IF differs = {} /\ Crossed THEN "clean" ELSE "one"
    BY <1>7 DEF G!Finish
  <2>2. exit' = "clean" => \A p \in G!Paths : disk[p] = "wanted"
    BY <1>d, <2>1 DEF TreeInv
  <2>3. QED
    BY <1>d, <2>1, <2>2 DEF TreeInv, Lasting
<1>8. QED
  BY <1>1, <1>2, <1>3, <1>4, <1>5, <1>6, <1>7 DEF Generate

-----------------------------------------------------------------------------
(* What gen cannot change is what check relies on.                          *)
LEMMA BesideGenerate ==
  ASSUME TRUE \notin Forced, RepositoryInv, Generate
  PROVE  RepositoryInv'
<1>1. TreeInv' /\ Lasting
  BY GenerateKeeps DEF RepositoryInv
<1>2. UNCHANGED <<old, pc, present, todo, turn, answer, judged, measured, tosum, numbered,
                  status>>
  BY DEF Generate
<1> USE PathsApart
<1>3. Types'
  BY <1>2 DEF RepositoryInv, Types, Steps
<1>4. ASSUME NEW p \in G!Paths, Sound(p)
      PROVE  Sound(p)' /\ disk'[p] = disk[p]
  BY <1>1, <1>2, <1>4 DEF Lasting, Sound
<1>5. IndexKept'
  <2>1. pc \in {"index", "glob"} => present \subseteq Directories'
    <3> SUFFICES ASSUME NEW v \in Composed, Filed(v) PROVE Filed(v)'
      BY DEF RepositoryInv, IndexKept, Directories
    <3>1. Meta(v) \in G!Paths
      BY NAssumption DEF Meta, Composed, G!Paths, G!Last
    <3>2. QED
      BY <1>1, <3>1 DEF Filed, Lasting
  <2>2. ASSUME Began PROVE Sound(G!INDEX)' /\ Listed' = present
    BY <1>2, <1>4, <2>2 DEF RepositoryInv, IndexKept, Listed
  <2>3. QED
    BY <1>2, <2>1, <2>2 DEF RepositoryInv, IndexKept, Began
<1>6. TurnsSound'
  <2>1. pc \in InTurn => Raw(turn) \in G!Paths /\ Expect(turn) \in G!Paths
    BY DEF RepositoryInv, Types
  <2>2. QED
    BY <1>2, <1>4, <2>1 DEF RepositoryInv, TurnsSound, Unread, InTurn
<1>7. NoneMissed'
  BY <1>2 DEF RepositoryInv, NoneMissed
<1>8. Summed'
  <2>1. ASSUME pc \in {"sum list", "sum", "sum expect"} \/ status \in {0, 1}
        PROVE  disk'[G!INDEX] = disk[G!INDEX]
    BY <1>4, <2>1 DEF RepositoryInv, IndexKept, Began
  <2>2. ASSUME NEW v \in Composed, judged[v] = "holds"
        PROVE  disk'[Raw(v)] = disk[Raw(v)] /\ disk'[Expect(v)] = disk[Expect(v)]
    BY <1>4, <2>2 DEF RepositoryInv, TurnsSound
  <2>3. present \subseteq Composed
    BY DEF RepositoryInv, Types
  <2>4. ASSUME pc \in {"sum list", "sum", "sum expect"} \/ status \in {0, 1}, NEW e \in numbered
        PROVE  \/ e = <<G!INDEX, disk'[G!INDEX]>>
               \/ \E v \in present : /\ e[1] \in {Raw(v), Expect(v)}
                                     /\ judged[v] = "holds" => e[2] = disk'[e[1]]
    BY <2>1, <2>2, <2>3, <2>4, ZenonT(40) DEF RepositoryInv, Summed
  <2>5. QED
    BY <1>2, <2>4 DEF RepositoryInv, Summed
<1>9. QED
  BY <1>1, <1>3, <1>5, <1>6, <1>7, <1>8 DEF RepositoryInv

-----------------------------------------------------------------------------
(* check reads and never writes; a read adds what the path holds.           *)
LEMMA ReadsAdd ==
  ASSUME TreeInv, Types, NEW q \in G!Paths, Reads(q), UNCHANGED tree
  PROVE  /\ measured' \subseteq G!Paths \X Versions
         /\ \A p : Sound(p) => Sound(p)'
         /\ \A p : p # q /\ Unread(p) => Unread(p)'
         /\ disk[q] \in Whole /\ (Unread(q) \/ Sound(q)) => Sound(q)'
<1>1. disk' = disk /\ disk[q] \in Versions /\ measured' = measured \union {<<q, disk[q]>>}
  BY DEF tree, TreeInv, Reads
<1>2. measured \subseteq G!Paths \X Versions
  BY DEF Types
<1>3. ASSUME NEW p, Sound(p) PROVE Sound(p)'
  BY <1>1, <1>3 DEF Sound
<1>4. ASSUME NEW p, p # q, Unread(p) PROVE Unread(p)'
  BY <1>1, <1>4 DEF Unread
<1>5. ASSUME disk[q] \in Whole, Unread(q) \/ Sound(q) PROVE Sound(q)'
  BY <1>1, <1>5 DEF Sound, Unread
<1>6. QED
  BY <1>1, <1>2, <1>3, <1>4, <1>5

(* Before the loop: INDEX is read once, and refused or found to list what   *)
(* is there.                                                                *)
LEMMA BeforeTheLoop ==
  ASSUME RepositoryInv, FindIndex \/ Find \/ ReadIndex \/ Glob
  PROVE  RepositoryInv'
<1> USE PathsApart
<1>i. TreeInv /\ Types /\ IndexKept /\ TurnsSound /\ NoneMissed /\ Summed
  BY DEF RepositoryInv
<1>1. CASE FindIndex
  <2>1. /\ UNCHANGED <<tree, old, present, todo, turn, answer, judged, measured, tosum,
                       numbered>>
        /\ pc = "start"
        /\ \/ pc' = "done" /\ status' = 2
           \/ pc' = "find" /\ status' = status
    BY <1>1, Zenon DEF FindIndex, Exit
  <2>2. TreeInv' /\ disk' = disk
    BY <1>i, <2>1 DEF TreeInv, tree
  <2>3. status = Running
    BY <1>i, <2>1 DEF Types
  <2>4. /\ status' \in {2, Running} /\ status' \notin {0, 1}
        /\ pc' = "done" <=> status' # Running
    BY <2>1, <2>3 DEF Running
  <2>5. IndexKept' /\ TurnsSound'
    BY <1>i, <2>1, <2>2, <2>4 DEF IndexKept, TurnsSound, InTurn, Began, Sound, Unread
  <2>6. Types' /\ NoneMissed' /\ Summed'
    BY <1>i, <2>1, <2>2, <2>4 DEF Types, Steps, InTurn, NoneMissed, Summed
  <2>7. QED
    BY <2>2, <2>5, <2>6 DEF RepositoryInv
<1>2. CASE Find
  <2>1. UNCHANGED <<tree, old, todo, turn, answer, judged, measured, tosum, numbered, status>>
        /\ pc = "find" /\ pc' = "index" /\ present' = Directories
    BY <1>2 DEF Find
  <2>2. TreeInv' /\ disk' = disk
    BY <1>i, <2>1 DEF TreeInv, tree
  <2>3. status = Running
    BY <1>i, <2>1 DEF Types
  <2>4. present' \in SUBSET Composed /\ Directories' = Directories
    BY <2>1, <2>2 DEF Directories, Filed
  <2>5. QED
    BY <1>i, <2>1, <2>2, <2>3, <2>4 DEF RepositoryInv, Types, Steps, InTurn, IndexKept, TurnsSound, NoneMissed, Summed, Began, Running, Sound, Unread
<1>3. CASE ReadIndex
  <2>1. UNCHANGED <<tree, old, present, todo, turn, answer, judged, tosum, numbered>>
        /\ pc = "index" /\ Reads(G!INDEX)
        /\ \/ pc' = "done" /\ status' = 2
           \/ pc' = "glob" /\ status' = status /\ Listed = present /\ present # {}
    BY <1>3 DEF ReadIndex, Exit, Reads
  <2>2. TreeInv' /\ disk' = disk /\ Listed' = Listed
    BY <1>i, <2>1 DEF TreeInv, tree, Listed
  <2>3. status = Running
    BY <1>i, <2>1 DEF Types
  <2>4. /\ measured' \subseteq G!Paths \X Versions
        /\ \A p : Sound(p) => Sound(p)'
        /\ \A p : p # G!INDEX /\ Unread(p) => Unread(p)'
        /\ disk[G!INDEX] \in Whole /\ (Unread(G!INDEX) \/ Sound(G!INDEX)) => Sound(G!INDEX)'
    BY <1>i, <2>1, ReadsAdd
  <2>5. measured = {}
    BY <1>i, <2>1 DEF IndexKept
  <2>6. pc' = "glob" => disk[G!INDEX] \in Whole
    BY <2>1 DEF Listed, Whole
  <2>7. Sound(G!INDEX)' \/ pc' = "done"
    BY <2>1, <2>4, <2>5, <2>6 DEF Unread
  <2>8. Directories' = Directories
    BY <2>2 DEF Directories, Filed
  <2>9. \A v \in Composed : Unread(Raw(v))' /\ Unread(Expect(v))'
    BY <2>4, <2>5 DEF Unread
  <2>10. \A v \in Composed : judged[v] # "holds"
    BY <1>i, <2>5 DEF TurnsSound, Sound
  <2>16. status' \in {2, Running} /\ status' \notin {0, 1} /\ (pc' = "done" <=> status' # Running)
    BY <2>1, <2>3 DEF Running
  <2>14. Began' => pc' = "glob"
    BY <2>1, <2>16 DEF Began, InTurn
  <2>15. pc' # "done" => pc' = "glob" /\ Listed' = present' /\ present' = present
    BY <2>1, <2>2
  <2>11. IndexKept'
    <3>1. pc' \in {"index", "glob"} => present' \subseteq Directories'
      BY <1>i, <2>1, <2>8 DEF IndexKept
    <3>2. pc' \notin {"start", "find", "index"}
      BY <2>1
    <3>3. QED
      BY <2>7, <2>14, <2>15, <3>1, <3>2 DEF IndexKept
  <2>12. TurnsSound'
    BY <1>i, <2>1, <2>9, <2>10 DEF TurnsSound, InTurn
  <2>13. QED
    <3>1. Types'
      BY <1>i, <2>1, <2>4, <2>16 DEF Types, Steps, InTurn
    <3>2. NoneMissed'
      BY <1>i, <2>1, <2>16 DEF NoneMissed, InTurn
    <3>3. Summed'
      BY <1>i, <2>1, <2>16 DEF Summed
    <3>4. QED
      BY <2>2, <2>11, <2>12, <3>1, <3>2, <3>3 DEF RepositoryInv
<1>4. CASE Glob
  <2>1. UNCHANGED <<tree, old, present, turn, answer, judged, measured, tosum, numbered, status>>
        /\ pc = "glob" /\ pc' = "loop" /\ todo' = Directories
    BY <1>4 DEF Glob
  <2>2. TreeInv' /\ disk' = disk /\ Listed' = Listed
    BY <1>i, <2>1 DEF TreeInv, tree, Listed
  <2>3. status = Running /\ Directories \in SUBSET Composed /\ present \subseteq Directories
    BY <1>i, <2>1 DEF Types, Directories, IndexKept
  <2>4. \A p : Sound(p)' = Sound(p) /\ Unread(p)' = Unread(p)
    BY <2>1, <2>2 DEF Sound, Unread
  <2>5. QED
    BY <1>i, <2>1, <2>2, <2>3, <2>4 DEF RepositoryInv, Types, Steps, InTurn, IndexKept, TurnsSound, NoneMissed, Summed, Began, Running
<1>5. QED
  BY <1>1, <1>2, <1>3, <1>4

-----------------------------------------------------------------------------
LEMMA Unfinished ==
  ASSUME Types, pc # "done"
  PROVE  status = Running /\ status \notin {0, 1}
<1>1. status = Running
  BY Zenon DEF Types
<1>2. QED
  BY <1>1 DEF Running

(* What every step of a turn leaves as it is. *)
LEMMA TurnFrame ==
  ASSUME RepositoryInv, pc \in InTurn \union {"loop"}, pc' \in InTurn \union {"loop"},
         UNCHANGED <<tree, old, present, tosum, numbered, status>>,
         \A p : Sound(p) => Sound(p)',
         measured' \subseteq G!Paths \X Versions,
         todo' \subseteq todo,
         judged' \in [Composed -> {"none", "holds", "unable", "fails"}],
         turn' \in Composed, TurnsSound', NoneMissed'
  PROVE  RepositoryInv'
<1>i. TreeInv /\ Types /\ IndexKept /\ Summed
  BY DEF RepositoryInv
<1>1. TreeInv' /\ Listed' = Listed
  BY <1>i DEF TreeInv, tree, Listed
<1>2. status = Running /\ status' = status /\ status \notin {0, 1}
  BY <1>i, Unfinished DEF InTurn
<1>3. Types'
  <2>1. pc' # "done" /\ status' = Running
    BY <1>2 DEF InTurn
  <2>2. QED
    BY <1>i, <2>1 DEF Types, Steps, InTurn
<1>4. IndexKept'
  BY <1>i, <1>1 DEF IndexKept, Began, InTurn
<1>5. Summed'
  BY <1>i, <1>2 DEF Summed, InTurn
<1>6. QED
  BY <1>1, <1>3, <1>4, <1>5 DEF RepositoryInv

LEMMA JudgedIs ==
  ASSUME Types, NEW v \in Composed, NEW as \in {"holds", "unable", "fails"}, Judged(v, as)
  PROVE  /\ judged' \in [Composed -> {"none", "holds", "unable", "fails"}]
         /\ judged'[v] = as /\ pc' = "loop"
         /\ \A w \in Composed : w # v => judged'[w] = judged[w]
  BY DEF Types, Judged

(* A turn: nothing of the vector is read when it begins, and it holds only  *)
(* where every read was sound.                                              *)
LEMMA InATurn ==
  ASSUME RepositoryInv,
         \/ \E v \in Composed : ReadMeta(v)
         \/ \E a \in {"unable", "wrong"} \union Whole : Decode(a) \/ Rebuild(a)
         \/ Compare \/ CompareRaw
  PROVE  RepositoryInv'
<1> USE PathsApart
<1>i. TreeInv /\ Types /\ IndexKept /\ TurnsSound /\ NoneMissed /\ Summed
  BY DEF RepositoryInv
<1>t. /\ judged \in [Composed -> {"none", "holds", "unable", "fails"}]
      /\ present \subseteq Composed /\ todo \subseteq Composed
      /\ pc \in InTurn => turn \in Composed /\ Raw(turn) \in G!Paths /\ Expect(turn) \in G!Paths
  BY <1>i DEF Types
<1>s. pc # "done" => status \notin {0, 1}
  BY <1>i, Unfinished
<1>1. ASSUME NEW v \in Composed, ReadMeta(v) PROVE RepositoryInv'
  <2>1. /\ pc = "loop" /\ v \in todo /\ todo' = todo \ {v} /\ turn' = v
        /\ UNCHANGED <<tree, old, present, answer, measured, tosum, numbered, status>>
        /\ \/ pc' = "decode" /\ judged' = judged
           \/ Judged(v, "fails")
    BY <1>1 DEF ReadMeta, First, Onto
  <2>2. disk' = disk
    BY <2>1 DEF tree
  <2>3. \A p : Sound(p)' = Sound(p) /\ Unread(p)' = Unread(p)
    BY <2>1, <2>2 DEF Sound, Unread
  <2>4. /\ judged' \in [Composed -> {"none", "holds", "unable", "fails"}]
        /\ pc' \in {"decode", "loop"}
        /\ \A w \in Composed : w # v => judged'[w] = judged[w]
        /\ pc' = "loop" => judged'[v] = "fails"
        /\ pc' = "decode" => judged' = judged
    <3>1. CASE Judged(v, "fails")
      <4>1. /\ judged' \in [Composed -> {"none", "holds", "unable", "fails"}]
            /\ judged'[v] = "fails" /\ pc' = "loop"
            /\ \A w \in Composed : w # v => judged'[w] = judged[w]
        BY <1>i, <3>1, JudgedIs
      <4>2. QED
        BY <4>1
    <3>2. CASE pc' = "decode" /\ judged' = judged
      BY <1>t, <3>2
    <3>3. QED
      BY <2>1, <3>1, <3>2
  <2>5. TurnsSound'
    BY <1>i, <1>t, <2>1, <2>3, <2>4 DEF TurnsSound, InTurn
  <2>6. \A w \in present : w \in todo' \/ (w = v /\ pc' = "decode") \/ judged'[w] # "none"
    <3>1. \A w \in present : w \in todo \/ judged[w] # "none"
      BY <1>i, <2>1 DEF NoneMissed
    <3>2. ASSUME NEW w \in present
          PROVE  w \in todo' \/ (w = v /\ pc' = "decode") \/ judged'[w] # "none"
      <4>1. CASE w = v
        BY <2>4, <4>1
      <4>2. CASE w # v
        <5>1. w \in Composed
          BY <1>t
        <5>2. judged'[w] = judged[w]
          BY <2>4, <4>2, <5>1
        <5>3. w \in todo => w \in todo'
          BY <2>1, <4>2
        <5>4. CASE w \in todo
          BY <5>3, <5>4
        <5>5. CASE judged[w] # "none"
          BY <5>2, <5>5
        <5>6. QED
          BY <3>1, <5>4, <5>5
      <4>3. QED
        BY <4>1, <4>2
    <3>3. QED
      BY <3>2
  <2>7. status' \notin {0, 1}
    BY <1>s, <2>1
  <2>8. NoneMissed'
    BY <2>1, <2>4, <2>6, <2>7 DEF NoneMissed, InTurn
  <2>9. QED
    BY <1>i, <2>1, <2>3, <2>4, <2>5, <2>8, TurnFrame DEF InTurn, Types
<1>2. ASSUME NEW a \in {"unable", "wrong"} \union Whole, Decode(a) PROVE RepositoryInv'
  <2>1. /\ pc = "decode" /\ Reads(Raw(turn)) /\ answer' = a
        /\ UNCHANGED <<tree, old, present, todo, turn, tosum, numbered, status>>
        /\ \/ Judged(turn, "unable") \/ Judged(turn, "fails")
           \/ pc' = "compare" /\ judged' = judged /\ a = disk[Raw(turn)] /\ a \in Whole
    BY <1>2 DEF Decode, Onto, Whole
  <2>2. disk' = disk /\ turn \in Composed /\ Raw(turn) \in G!Paths
    BY <1>t, <2>1 DEF tree, InTurn
  <2>3. /\ measured' \subseteq G!Paths \X Versions
        /\ \A p : Sound(p) => Sound(p)'
        /\ \A p : p # Raw(turn) /\ Unread(p) => Unread(p)'
        /\ disk[Raw(turn)] \in Whole /\ (Unread(Raw(turn)) \/ Sound(Raw(turn))) => Sound(Raw(turn))'
    BY <1>i, <2>1, <2>2, ReadsAdd
  <2>4. /\ judged' \in [Composed -> {"none", "holds", "unable", "fails"}]
        /\ pc' \in {"compare", "loop"}
        /\ \A w \in Composed : w # turn => judged'[w] = judged[w]
        /\ judged'[turn] = "holds" => judged[turn] = "holds"
        /\ pc' = "loop" => judged'[turn] # "none"
        /\ pc' = "compare" => judged' = judged
    BY <1>i, <1>t, <2>1, <2>2, JudgedIs
  <2>5. Unread(Raw(turn)) /\ Unread(Expect(turn)) /\ turn \notin todo
    BY <1>i, <2>1 DEF TurnsSound, InTurn
  <2>6. pc' = "compare" => Sound(Raw(turn))' /\ Unread(Expect(turn))' /\ answer' = disk'[Raw(turn)]
    BY <2>1, <2>2, <2>3, <2>4, <2>5 DEF Judged
  <2>7. \A w \in todo : Unread(Raw(w))' /\ Unread(Expect(w))'
    BY <1>i, <1>t, <2>2, <2>3, <2>5 DEF TurnsSound
  <2>8. \A w \in Composed : judged'[w] = "holds" => Sound(Raw(w))' /\ Sound(Expect(w))'
    BY <1>i, <2>2, <2>3, <2>4 DEF TurnsSound
  <2>9. turn' = turn /\ todo' = todo
    BY <2>1
  <2>10. TurnsSound'
    BY <2>4, <2>5, <2>6, <2>7, <2>8, <2>9 DEF TurnsSound, InTurn
  <2>11. status' \notin {0, 1}
    BY <1>s, <2>1
  <2>12. NoneMissed'
    BY <1>i, <1>t, <2>1, <2>4, <2>11 DEF NoneMissed, InTurn
  <2>13. QED
    BY <2>1, <2>2, <2>3, <2>4, <2>9, <2>10, <2>12, TurnFrame DEF InTurn
<1>3. CASE Compare
  <2>1. /\ pc = "compare" /\ Reads(Expect(turn)) /\ answer' = answer
        /\ UNCHANGED <<tree, old, present, todo, turn, tosum, numbered, status>>
        /\ \/ Judged(turn, "fails")
           \/ Judged(turn, "holds") /\ disk[Expect(turn)] = answer
           \/ pc' = "rebuild" /\ judged' = judged /\ disk[Expect(turn)] = answer
    BY <1>3 DEF Compare, Onto
  <2>2. disk' = disk /\ turn \in Composed /\ Expect(turn) \in G!Paths
    BY <1>t, <2>1 DEF tree, InTurn
  <2>3. /\ measured' \subseteq G!Paths \X Versions
        /\ \A p : Sound(p) => Sound(p)'
        /\ \A p : p # Expect(turn) /\ Unread(p) => Unread(p)'
        /\ disk[Expect(turn)] \in Whole /\ (Unread(Expect(turn)) \/ Sound(Expect(turn)))
             => Sound(Expect(turn))'
    BY <1>i, <2>1, <2>2, ReadsAdd
  <2>4. /\ judged' \in [Composed -> {"none", "holds", "unable", "fails"}]
        /\ pc' \in {"rebuild", "loop"}
        /\ \A w \in Composed : w # turn => judged'[w] = judged[w]
        /\ pc' = "loop" => judged'[turn] # "none"
        /\ pc' = "rebuild" => judged' = judged
        /\ judged'[turn] = "holds" => judged[turn] = "holds" \/ disk[Expect(turn)] = answer
        /\ pc' = "rebuild" => disk[Expect(turn)] = answer
    BY <1>i, <1>t, <2>1, <2>2, JudgedIs
  <2>5. /\ Sound(Raw(turn)) /\ Unread(Expect(turn)) /\ answer = disk[Raw(turn)]
        /\ turn \notin todo
    BY <1>i, <2>1 DEF TurnsSound, InTurn
  <2>6. disk[Expect(turn)] = answer => Sound(Expect(turn))'
    BY <2>3, <2>5 DEF Sound
  <2>7. \A w \in todo : Unread(Raw(w))' /\ Unread(Expect(w))'
    BY <1>i, <1>t, <2>2, <2>3, <2>5 DEF TurnsSound
  <2>8. \A w \in Composed : judged'[w] = "holds" => Sound(Raw(w))' /\ Sound(Expect(w))'
    <3>1. Sound(Raw(turn))'
      BY <2>1, <2>3, <2>5
    <3>2. ASSUME NEW w \in Composed, judged[w] = "holds"
          PROVE  Sound(Raw(w))' /\ Sound(Expect(w))'
      BY <1>i, <2>3, <3>2 DEF TurnsSound
    <3>3. QED
      BY <2>1, <2>2, <2>4, <2>5, <2>6, <3>1, <3>2
  <2>9. turn' = turn /\ todo' = todo
    BY <2>1
  <2>10. TurnsSound'
    BY <2>3, <2>4, <2>5, <2>6, <2>7, <2>8, <2>9 DEF TurnsSound, InTurn
  <2>11. status' \notin {0, 1}
    BY <1>s, <2>1
  <2>12. NoneMissed'
    BY <1>i, <1>t, <2>1, <2>4, <2>11 DEF NoneMissed, InTurn
  <2>13. QED
    BY <2>1, <2>2, <2>3, <2>4, <2>9, <2>10, <2>12, TurnFrame DEF InTurn
<1>4. ASSUME NEW q \in {Raw(turn), Expect(turn)}, pc \in {"rebuild", "compare raw"}, Reads(q),
             UNCHANGED <<tree, old, present, todo, turn, tosum, numbered, status>>,
             \/ Judged(turn, "fails") \/ Judged(turn, "holds")
             \/ pc' = "compare raw" /\ judged' = judged
      PROVE  RepositoryInv'
  <2>2. disk' = disk /\ turn \in Composed /\ q \in G!Paths
    BY <1>t, <1>4 DEF tree, InTurn
  <2>3. /\ measured' \subseteq G!Paths \X Versions
        /\ \A p : Sound(p) => Sound(p)'
        /\ \A p : p # q /\ Unread(p) => Unread(p)'
    BY <1>i, <1>4, <2>2, ReadsAdd
  <2>4. /\ judged' \in [Composed -> {"none", "holds", "unable", "fails"}]
        /\ pc' \in {"compare raw", "loop"}
        /\ \A w \in Composed : w # turn => judged'[w] = judged[w]
        /\ pc' = "loop" => judged'[turn] # "none"
        /\ pc' = "compare raw" => judged' = judged
    BY <1>i, <1>t, <1>4, <2>2, JudgedIs
  <2>5. Sound(Raw(turn)) /\ Sound(Expect(turn)) /\ turn \notin todo
    BY <1>i, <1>4 DEF TurnsSound, InTurn
  <2>7. \A w \in todo : Unread(Raw(w))' /\ Unread(Expect(w))'
    BY <1>i, <1>t, <1>4, <2>2, <2>3, <2>5 DEF TurnsSound
  <2>8. \A w \in Composed : judged'[w] = "holds" => Sound(Raw(w))' /\ Sound(Expect(w))'
    BY <1>i, <2>2, <2>3, <2>4, <2>5 DEF TurnsSound
  <2>9. turn' = turn /\ todo' = todo
    BY <1>4
  <2>10. TurnsSound'
    BY <2>3, <2>4, <2>5, <2>7, <2>8, <2>9 DEF TurnsSound, InTurn
  <2>11. status' \notin {0, 1}
    BY <1>s, <1>4
  <2>12. NoneMissed'
    BY <1>i, <1>t, <1>4, <2>4, <2>11 DEF NoneMissed, InTurn
  <2>13. QED
    BY <1>4, <2>2, <2>3, <2>4, <2>9, <2>10, <2>12, TurnFrame DEF InTurn
<1>5. ASSUME NEW a \in {"unable", "wrong"} \union Whole, Rebuild(a) PROVE RepositoryInv'
  BY <1>4, <1>5 DEF Rebuild, Onto
<1>6. CASE CompareRaw
  BY <1>4, <1>6 DEF CompareRaw
<1>7. QED
  BY <1>1, <1>2, <1>3, <1>5, <1>6

-----------------------------------------------------------------------------
(* Once the loop is over every file whose version counts is one that was    *)
(* read before, so the second reading gives what the first gave.            *)
LEMMA Summing ==
  ASSUME RepositoryInv,
         SumIndex \/ SumList \/ (\E v \in Composed : SumRaw(v)) \/ SumExpect \/ Finish
  PROVE  RepositoryInv'
<1> USE PathsApart
<1>i. TreeInv /\ Types /\ IndexKept /\ TurnsSound /\ NoneMissed /\ Summed
  BY DEF RepositoryInv
<1>1. /\ UNCHANGED <<tree, old, present, todo, answer, judged, measured>>
      /\ pc \in {"loop", "sum list", "sum", "sum expect"}
  BY DEF SumIndex, SumList, SumRaw, SumExpect, Finish
<1>2. TreeInv' /\ disk' = disk /\ Listed' = Listed /\ Directories' = Directories
  BY <1>i, <1>1 DEF TreeInv, tree, Listed, Directories, Filed
<1>3. status = Running /\ status \notin {0, 1}
  BY <1>i, <1>1, Unfinished
<1>4. \A p : Sound(p)' = Sound(p) /\ Unread(p)' = Unread(p)
  BY <1>1, <1>2 DEF Sound, Unread
<1>5. Sound(G!INDEX) /\ Listed = present /\ present \subseteq Composed
  BY <1>i, <1>1 DEF IndexKept, Began, Types
<1>6. pc' \in {"sum list", "sum", "sum expect", "done"} => IndexKept' /\ TurnsSound'
  BY <1>i, <1>1, <1>2, <1>4, <1>5 DEF IndexKept, TurnsSound, InTurn
<1>7. ASSUME NEW p \in G!Paths PROVE disk[p] \in Versions
  BY <1>i DEF TreeInv
<1>8. CASE SumIndex
  <2>1. /\ pc = "loop" /\ todo = {} /\ pc' = "sum list" /\ status' = status /\ turn' = turn
        /\ numbered' = numbered \union {<<G!INDEX, disk[G!INDEX]>>} /\ tosum' = tosum
    BY <1>8 DEF SumIndex, Sum
  <2>2. numbered = {}
    BY <1>i, <2>1 DEF Summed
  <2>3. Types'
    <3>1. <<G!INDEX, disk[G!INDEX]>> \in G!Paths \X Versions
      BY <1>7
    <3>2. numbered' \subseteq G!Paths \X Versions
      BY <1>i, <2>1, <3>1 DEF Types
    <3>3. QED
      BY <1>i, <1>1, <1>3, <2>1, <3>2 DEF Types, Steps, InTurn
  <2>4. NoneMissed'
    BY <1>i, <1>1, <1>3, <2>1 DEF NoneMissed, InTurn
  <2>5. Summed'
    BY <1>1, <1>2, <1>3, <2>1, <2>2 DEF Summed
  <2>6. QED
    BY <1>2, <1>6, <2>1, <2>3, <2>4, <2>5 DEF RepositoryInv
<1>9. ASSUME NEW v \in present, NEW q \in {Raw(v), Expect(v)},
             pc \in {"sum", "sum expect"}, pc' \in {"sum", "sum expect"}, status' = status,
             Sum(q), turn' \in present, tosum' \subseteq tosum
      PROVE  RepositoryInv'
  <2>1. /\ v \in Composed /\ q \in G!Paths
        /\ numbered' = numbered \union {<<q, disk[q]>>}
    BY <1>5, <1>9 DEF Sum
  <2>2. Types'
    <3>1. numbered' \subseteq G!Paths \X Versions
      <4>1. numbered \subseteq G!Paths \X Versions
        BY <1>i DEF Types
      <4>2. disk[q] \in Versions
        BY <1>7, <2>1
      <4>3. <<q, disk[q]>> \in G!Paths \X Versions
        BY <2>1, <4>2
      <4>4. QED
        BY <2>1, <4>1, <4>3
    <3>2. turn' \in Composed /\ tosum' \subseteq Composed
      BY <1>i, <1>5, <1>9 DEF Types
    <3>3. pc' # "done" /\ status' = Running
      BY <1>3, <1>9
    <3>4. QED
      BY <1>i, <1>1, <1>9, <3>1, <3>2, <3>3 DEF Types, Steps, InTurn
  <2>3. NoneMissed'
    BY <1>i, <1>1, <1>3, <1>9 DEF NoneMissed, InTurn
  <2>4. \A e \in numbered' :
          \/ e = <<G!INDEX, disk[G!INDEX]>>
          \/ \E w \in present : /\ e[1] \in {Raw(w), Expect(w)}
                                /\ judged[w] = "holds" => e[2] = disk[e[1]]
    <3>1. \A e \in numbered :
            \/ e = <<G!INDEX, disk[G!INDEX]>>
            \/ \E w \in present : /\ e[1] \in {Raw(w), Expect(w)}
                                  /\ judged[w] = "holds" => e[2] = disk[e[1]]
      BY <1>i, <1>9 DEF Summed
    <3> DEFINE e == <<q, disk[q]>>
    <3>2. e[1] = q /\ e[2] = disk[q] /\ numbered' = numbered \union {e}
      BY <2>1
    <3> HIDE DEF e
    <3>3. e[1] \in {Raw(v), Expect(v)} /\ e[2] = disk[e[1]]
      BY <1>9, <3>2
    <3>4. QED
      BY <1>9, <3>1, <3>2, <3>3
  <2>5. tosum' \subseteq present /\ turn' \in present
    BY <1>i, <1>9 DEF Summed
  <2>6. Summed'
    BY <1>1, <1>2, <1>3, <1>9, <2>4, <2>5 DEF Summed
  <2>7. QED
    BY <1>2, <1>6, <1>9, <2>2, <2>3, <2>6 DEF RepositoryInv
<1>10. ASSUME NEW v \in Composed, SumRaw(v) PROVE RepositoryInv'
  <2>1. /\ pc = "sum" /\ v \in tosum /\ pc' = "sum expect" /\ Sum(Raw(v)) /\ turn' = v
        /\ tosum' = tosum /\ status' = status
    BY <1>10 DEF SumRaw, First
  <2>2. v \in present
    BY <1>i, <2>1 DEF Summed
  <2>3. QED
    BY <1>9, <2>1, <2>2
<1>11. CASE SumExpect
  <2>1. /\ pc = "sum expect" /\ pc' = "sum" /\ Sum(Expect(turn)) /\ turn' = turn
        /\ tosum' = tosum \ {turn} /\ status' = status
    BY <1>11 DEF SumExpect
  <2>2. turn \in present
    BY <1>i, <2>1 DEF Summed
  <2>3. QED
    BY <1>9, <2>1, <2>2
<1>12. CASE Finish
  <2>1. /\ pc = "sum" /\ pc' = "done" /\ turn' = turn /\ tosum' = tosum
        /\ numbered' = numbered
    BY <1>12, Zenon DEF Finish, Exit
  <2>2. \/ status' = 1
        \/ status' = 0 /\ \A v \in Composed : judged[v] # "fails"
        \/ status' = 2
    BY <1>12, Zenon DEF Finish, Exit
  <2>3. status' \in {0, 1, 2} /\ status' # Running
    BY <2>2 DEF Running
  <2>4. Types'
    BY <1>i, <1>1, <2>1, <2>3 DEF Types, Steps, InTurn
  <2>5. NoneMissed'
    BY <1>i, <1>1, <2>1 DEF NoneMissed, InTurn
  <2>6. Summed'
    <3>1. ASSUME status' = 0, NEW v \in Composed PROVE judged'[v] # "fails"
      <4>1. status' # 1 /\ status' # 2
        BY <3>1
      <4>2. \A w \in Composed : judged[w] # "fails"
        BY <2>2, <4>1, Zenon
      <4>3. QED
        BY <1>1, <4>2
    <3>2. \A e \in numbered :
            \/ e = <<G!INDEX, disk[G!INDEX]>>
            \/ \E v \in present : /\ e[1] \in {Raw(v), Expect(v)}
                                  /\ judged[v] = "holds" => e[2] = disk[e[1]]
      BY <1>i, <2>1 DEF Summed
    <3>3. QED
      BY <1>1, <1>2, <2>1, <3>1, <3>2 DEF Summed
  <2>7. QED
    BY <1>2, <1>6, <2>1, <2>4, <2>5, <2>6 DEF RepositoryInv
<1>13. CASE SumList
  <2>1. /\ pc = "sum list" /\ pc' = "sum" /\ status' = status /\ turn' = turn
        /\ numbered' = numbered /\ tosum' = present
    BY <1>13, <1>5 DEF SumList
  <2>2. Types'
    BY <1>i, <1>1, <1>3, <1>5, <2>1 DEF Types, Steps, InTurn
  <2>3. NoneMissed'
    BY <1>i, <1>1, <1>3, <2>1 DEF NoneMissed, InTurn
  <2>4. Summed'
    BY <1>i, <1>1, <1>2, <1>3, <2>1 DEF Summed
  <2>5. QED
    BY <1>2, <1>6, <2>1, <2>2, <2>3, <2>4 DEF RepositoryInv
<1>14. QED
  BY <1>8, <1>10, <1>11, <1>12, <1>13

-----------------------------------------------------------------------------
(* Whatever tree check starts on, and whatever runs of gen file, die and    *)
(* end beside it: the inductive invariant.                                  *)
THEOREM RepositoryCorrect ==
  ASSUME TRUE \notin Forced
  PROVE  Spec => []RepositoryInv
<1>1. Init => RepositoryInv
  <2> SUFFICES ASSUME Init PROVE RepositoryInv
    OBVIOUS
  <2>1. disk \in [G!Paths -> Versions]
    BY TreesAssumption DEF Init, Versions
  <2>2. status = Running /\ pc = "start" /\ status \notin {0, 1}
    BY DEF Init, Running
  <2>3. /\ measured = {} /\ numbered = {} /\ todo = {} /\ tosum = {} /\ present = {}
        /\ judged = [v \in Composed |-> "none"] /\ old \in SUBSET Composed
    BY DEF Init
  <2>4. TreeInv
    BY <2>1 DEF Init, TreeInv
  <2>5. Types
    BY <2>2, <2>3 DEF Types, Steps, InTurn
  <2>6. IndexKept /\ TurnsSound /\ NoneMissed /\ Summed
    BY <2>2, <2>3 DEF IndexKept, TurnsSound, NoneMissed, Summed, InTurn, Began, Unread
  <2>7. QED
    BY <2>4, <2>5, <2>6 DEF RepositoryInv
<1>2. RepositoryInv /\ [Next]_vars => RepositoryInv'
  <2> SUFFICES ASSUME RepositoryInv, [Next]_vars PROVE RepositoryInv'
    OBVIOUS
  <2>1. CASE Generate
    BY <2>1, BesideGenerate
  <2>2. CASE FindIndex \/ Find \/ ReadIndex \/ Glob
    BY <2>2, BeforeTheLoop
  <2>3. CASE \/ \E v \in Composed : ReadMeta(v)
             \/ \E a \in {"unable", "wrong"} \union Whole : Decode(a) \/ Rebuild(a)
             \/ Compare \/ CompareRaw
    BY <2>3, InATurn
  <2>4. CASE SumIndex \/ SumList \/ (\E v \in Composed : SumRaw(v)) \/ SumExpect \/ Finish
    BY <2>4, Summing
  <2>5. CASE UNCHANGED vars
    <3>1. UNCHANGED <<disk, force, at, stage, differs, exit, old, pc, present, todo, turn,
                      answer, judged, measured, tosum, numbered, status>>
      BY <2>5 DEF vars
    <3>2. TreeInv' = TreeInv
      BY <3>1 DEF TreeInv
    <3>3. Types' = Types /\ NoneMissed' = NoneMissed /\ Summed' = Summed
      BY <3>1 DEF Types, NoneMissed, Summed
    <3>4. IndexKept' = IndexKept
      BY <3>1 DEF IndexKept, Began, Sound, Listed, Directories, Filed
    <3>5. TurnsSound' = TurnsSound
      BY <3>1 DEF TurnsSound, Sound, Unread
    <3>6. QED
      BY <3>2, <3>3, <3>4, <3>5 DEF RepositoryInv
  <2>6. QED
    BY <2>1, <2>2, <2>3, <2>4, <2>5, Zenon DEF Next, Check
<1>3. QED
  BY <1>1, <1>2, PTL DEF Spec

(* An exit of 0: each entry of the number that counts is of a vector INDEX  *)
(* lists, that holds, and whose reads all gave what it holds.               *)
LEMMA NumberFollows == RepositoryInv => NumberIsOfWhatWasMeasured
<1> SUFFICES ASSUME RepositoryInv, status = 0 
             PROVE  /\ \A e \in numbered : e[1] = G!INDEX => e \in measured
                    /\ \A v \in Composed : \A p \in {Raw(v), Expect(v)} : \A e \in numbered :
                         (e[1] = p /\ judged[v] # "unable") =>
                           /\ judged[v] = "holds" /\ e \in measured
                           /\ \A m \in measured : m[1] = p => m = e
  BY Zenon DEF NumberIsOfWhatWasMeasured
<1> USE PathsApart
<1>1. Sound(G!INDEX) /\ present \subseteq Composed
  BY DEF RepositoryInv, IndexKept, Began, Types
<1>2. \A e \in numbered :
        \/ e = <<G!INDEX, disk[G!INDEX]>>
        \/ \E v \in present : /\ e[1] \in {Raw(v), Expect(v)}
                              /\ judged[v] = "holds" => e[2] = disk[e[1]]
  BY DEF RepositoryInv, Summed
<1>3. \A e \in numbered : e[1] = G!INDEX => e \in measured
  BY <1>1, <1>2 DEF Sound
<1>4. ASSUME NEW v \in Composed, NEW p \in {Raw(v), Expect(v)}, NEW e \in numbered,
             e[1] = p, judged[v] # "unable"
      PROVE  /\ judged[v] = "holds" /\ e \in measured
             /\ \A m \in measured : m[1] = p => m = e
  <2>1. v \in present /\ (judged[v] = "holds" => e[2] = disk[p])
    BY <1>1, <1>2, <1>4
  <2>2. judged[v] = "holds"
    <3>1. judged[v] \in {"none", "holds", "unable", "fails"}
      BY DEF RepositoryInv, Types
    <3>2. judged[v] # "none" /\ judged[v] # "fails"
      BY <2>1 DEF RepositoryInv, NoneMissed, Summed
    <3>3. QED
      BY <1>4, <3>1, <3>2
  <2>3. Sound(p)
    BY <2>2 DEF RepositoryInv, TurnsSound
  <2>4. e = <<p, disk[p]>>
    <3>1. numbered \subseteq G!Paths \X Versions
      BY DEF RepositoryInv, Types
    <3>2. e = <<e[1], e[2]>>
      BY <3>1
    <3>3. QED
      BY <1>4, <2>1, <2>2, <3>2
  <2>5. \A m \in measured : m = <<m[1], m[2]>>
    <3>1. measured \subseteq G!Paths \X Versions
      BY DEF RepositoryInv, Types
    <3>2. QED
      BY <3>1
  <2>6. QED
    BY <2>2, <2>3, <2>4, <2>5 DEF Sound
<1>5. QED
  BY <1>3, <1>4

(* check exits 0 and gen ends clean: what INDEX lists, what was there and   *)
(* what gen composes are the same vectors.                                  *)
LEMMA EvidenceFollows == RepositoryInv => VerifyIsEvidence
<1> SUFFICES ASSUME RepositoryInv, status = 0, exit = "clean", NEW v \in Composed
             PROVE  /\ judged[v] \in {"holds", "unable"}
                    /\ \A p \in {Raw(v), Expect(v)} : \A e \in numbered :
                         (e[1] = p /\ judged[v] = "holds") => e[2] = "wanted"
  BY Zenon DEF VerifyIsEvidence
<1> USE PathsApart
<1>1. \A p \in G!Paths : disk[p] = "wanted"
  BY DEF RepositoryInv, TreeInv
<1>2. Listed = present
  BY DEF RepositoryInv, IndexKept, Began
<1>3. v \in present
  BY <1>1, <1>2 DEF Listed
<1>4. judged[v] \in {"holds", "unable"}
  <2>1. judged[v] \in {"none", "holds", "unable", "fails"}
    BY DEF RepositoryInv, Types
  <2>2. judged[v] # "none" /\ judged[v] # "fails"
    BY <1>3 DEF RepositoryInv, NoneMissed, Summed
  <2>3. QED
    BY <2>1, <2>2
<1>5. ASSUME NEW p \in {Raw(v), Expect(v)}, NEW e \in numbered, e[1] = p, judged[v] = "holds"
      PROVE  e[2] = "wanted"
  <2>1. \/ e = <<G!INDEX, disk[G!INDEX]>>
        \/ \E w \in present : /\ e[1] \in {Raw(w), Expect(w)}
                              /\ judged[w] = "holds" => e[2] = disk[e[1]]
    BY DEF RepositoryInv, Summed
  <2>3. present \subseteq Composed
    BY DEF RepositoryInv, Types
  <2>4. e[2] = disk[p]
    BY <1>5, <2>1, <2>3
  <2>5. QED
    BY <1>1, <2>4
<1>6. QED
  BY <1>4, <1>5

(* "It says what the result was measured against" (README:32).              *)
THEOREM NumberTold ==
  ASSUME TRUE \notin Forced
  PROVE  Spec => []NumberIsOfWhatWasMeasured
BY RepositoryCorrect, NumberFollows, PTL

(* "a clean exit is the evidence behind every source line" (tools/gen:12).  *)
THEOREM VerifyTold ==
  ASSUME TRUE \notin Forced
  PROVE  Spec => []VerifyIsEvidence
BY RepositoryCorrect, EvidenceFollows, PTL

-----------------------------------------------------------------------------
(* Types, with --force as well as without. *)

LEMMA InitTyped == Init => TypeOK
<1> SUFFICES ASSUME Init PROVE TypeOK
  OBVIOUS
<1>1. disk \in [G!Paths -> G!Contents] /\ before \in [G!Paths -> G!Contents]
  BY TreesAssumption DEF Init, G!Contents, Whole
<1>2. 1 \in 1..(G!Last + 1)
  BY NAssumption DEF G!Last
<1>3. G!TypeOK
  BY <1>1, <1>2 DEF Init, G!TypeOK
<1> QED
  BY <1>3, NAssumption DEF Init, TypeOK, Running

(* Nothing gen files is of another kind. *)
LEMMA GenerateTyped == TypeOK /\ Generate => TypeOK'
<1> SUFFICES ASSUME TypeOK, Generate PROVE TypeOK'
  OBVIOUS
<1>1. /\ disk \in [G!Paths -> G!Contents] /\ before \in [G!Paths -> G!Contents]
      /\ at \in 1..(G!Last + 1) /\ G!Last \in Nat /\ differs \in SUBSET G!Paths
  BY OnePlaceEach DEF TypeOK, G!TypeOK
<1>2. at \in G!Files => G!PathOf(at) \in G!Paths /\ at + 1 \in 1..(G!Last + 1)
  BY <1>1, OnePlaceEach DEF G!Files
<1>3. \A p \in G!Paths : \A c \in {"torn", "wanted"} :
        [disk EXCEPT ![p] = c] \in [G!Paths -> G!Contents]
  BY <1>1 DEF G!Contents
<1>4. G!TypeOK'
  <2>1. CASE \E f \in Forced : G!Start(f)
    <3>1. PICK f \in BOOLEAN : G!Start(f)
      BY <2>1, ForcedAssumption
    <3>2. /\ disk' = disk /\ before' = disk /\ force' = f /\ at' = 1 /\ differs' = {}
          /\ stage' = "comparing" /\ exit' = "none"
      BY <3>1 DEF G!Start
    <3>3. 1 \in 1..(G!Last + 1)
      BY <1>1
    <3> QED
      BY <1>1, <3>2, <3>3, Zenon DEF G!TypeOK
  <2>2. CASE G!Identical
    BY <1>1, <1>2, <2>2 DEF TypeOK, G!TypeOK, G!Identical, G!Goes
  <2>3. CASE G!LeaveAlone
    BY <1>1, <1>2, <2>3 DEF TypeOK, G!TypeOK, G!LeaveAlone, G!Goes
  <2>4. CASE G!Open
    BY <1>1, <1>2, <1>3, <2>4 DEF TypeOK, G!TypeOK, G!Open, G!Goes
  <2>5. CASE G!Write
    BY <1>1, <1>2, <1>3, <2>5 DEF TypeOK, G!TypeOK, G!Write, G!Goes
  <2>6. CASE G!Die
    BY <2>6 DEF TypeOK, G!TypeOK, G!Die
  <2>7. CASE G!Finish
    BY <2>7 DEF TypeOK, G!TypeOK, G!Finish
  <2> QED
    BY <2>1, <2>2, <2>3, <2>4, <2>5, <2>6, <2>7 DEF Generate
<1> QED
  BY <1>4 DEF TypeOK, Generate

LEMMA CheckTyped == TypeOK /\ Check => TypeOK'
<1> SUFFICES ASSUME TypeOK, Check PROVE TypeOK'
  OBVIOUS
<1>1. UNCHANGED tree /\ old' = old
  BY DEF Check, FindIndex, Find, ReadIndex, Glob, ReadMeta, SumRaw, Decode, Rebuild, Compare,
     CompareRaw, SumIndex, SumList, SumExpect, Finish
<1>2. G!TypeOK'
  BY <1>1 DEF TypeOK, G!TypeOK, tree
<1>3. /\ Directories \in SUBSET Composed /\ Listed \in SUBSET Composed
      /\ \A v \in Composed : v \in 0..N
  <2>1. Listed \in SUBSET Composed
    BY DEF TypeOK, Listed
  <2> QED
    BY <2>1, NAssumption DEF Directories, Composed
<1>4. \A p \in G!Paths : <<p, disk[p]>> \in G!Paths \X G!Contents
  BY DEF TypeOK, G!TypeOK
<1>5. \A v \in Composed : \A a \in {"holds", "unable", "fails"} :
        [judged EXCEPT ![v] = a] \in [Composed -> {"none", "holds", "unable", "fails"}]
  BY DEF TypeOK
<1> USE PathsApart
<1>6. CASE FindIndex \/ Find \/ ReadIndex \/ Glob
  BY <1>1, <1>2, <1>3, <1>4, <1>6
     DEF TypeOK, FindIndex, Find, ReadIndex, Glob, Exit, Running
<1>7. CASE \E v \in Composed : ReadMeta(v) \/ SumRaw(v)
  BY <1>1, <1>2, <1>3, <1>4, <1>5, <1>7, ZenonT(40)
     DEF TypeOK, ReadMeta, SumRaw, Sum, Onto, Judged, First
<1>8. CASE \E a \in {"unable", "wrong"} \union Whole : Decode(a) \/ Rebuild(a)
  BY <1>1, <1>2, <1>3, <1>4, <1>5, <1>8, ZenonT(40)
     DEF TypeOK, Decode, Rebuild, Reads, Onto, Judged
<1>9. CASE Compare \/ CompareRaw
  BY <1>1, <1>2, <1>3, <1>4, <1>5, <1>9, ZenonT(40)
     DEF TypeOK, Compare, CompareRaw, Reads, Onto, Judged
<1>10. CASE SumIndex \/ SumList \/ SumExpect
  BY <1>1, <1>2, <1>3, <1>4, <1>10 DEF TypeOK, SumIndex, SumList, SumExpect, Sum
<1>11. CASE Finish
  BY <1>1, <1>2, <1>11 DEF TypeOK, Finish, Exit
<1> QED
  BY <1>6, <1>7, <1>8, <1>9, <1>10, <1>11 DEF Check

(* For any number of vectors and any runs of gen, forced ones among them.   *)
THEOREM RepositoryTyped == Spec => []TypeOK
<1>1. TypeOK /\ UNCHANGED vars => TypeOK'
  BY ZenonT(40) DEF TypeOK, G!TypeOK, vars
<1>2. TypeOK /\ [Next]_vars => TypeOK'
  BY <1>1, GenerateTyped, CheckTyped DEF Next
<1> QED
  BY <1>2, InitTyped, PTL DEF Spec
=============================================================================
