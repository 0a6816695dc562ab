---------------------------- MODULE WriterProofs ----------------------------
(***************************************************************************)
(* What a run of tools/gen leaves, for any number of vectors, any tree it   *)
(* finds and any number of runs that died before it.                        *)
(***************************************************************************)
EXTENDS Writer, TLAPS

(* Where a path comes in a run, and what the run has made of it: it is      *)
(* there and rightly among those that differ or not, or it is as it was.    *)
Place(p) == IF p = INDEX THEN Last ELSE p

Behind(p) ==
  Place(p) < at => /\ disk[p] # "absent"
                   /\ p \in differs <=> ~ReadsAsWanted(disk[p])
Ahead(p) ==
  Place(p) >= at => /\ p \notin differs
                    /\ (stage = "comparing" \/ Place(p) # at) => disk[p] = before[p]

(* Between two runs nothing need hold but what the last one said.           *)
Filed ==
  /\ stage # "idle" => /\ \A p \in Paths : Behind(p) /\ Ahead(p)
                       /\ exit = "none"
  /\ stage = "writing" /\ ~force => before[PathOf(at)] = "absent"

WriterInv == TypeOK /\ LeftAlone /\ Filed /\ Evidence /\ IndexLast

-----------------------------------------------------------------------------
(* A run comes to every path, and to each once.                             *)
LEMMA LastIsNat == Last \in Nat /\ Last >= 1
  BY NAssumption DEF Last

LEMMA EachPathOnce ==
  /\ \A i \in Files : PathOf(i) \in Paths /\ Place(PathOf(i)) = i
  /\ \A p \in Paths : Place(p) \in Files /\ PathOf(Place(p)) = p
  BY LastIsNat DEF Files, Paths, PathOf, Place, INDEX

LEMMA InitWriterInv == Init => WriterInv
  BY LastIsNat DEF Init, WriterInv, TypeOK, LeftAlone, Filed, Evidence, IndexLast, Files

(* Between the steps of a run the file it is at is the only one that can    *)
(* change, so every path keeps what it had but that one.                    *)
LEMMA WriterStep == WriterInv /\ [Next]_vars => WriterInv'
<1> SUFFICES ASSUME WriterInv, [Next]_vars PROVE WriterInv'
  OBVIOUS
<1> USE LastIsNat, EachPathOnce
<1>t. TypeOK
  BY DEF WriterInv
<1>n. stage # "idle" => exit = "none"
  BY DEF WriterInv, Filed
<1>1. CASE \E f \in BOOLEAN : Start(f)
  <2> PICK f \in BOOLEAN : Start(f)
    BY <1>1
  <2>1. TypeOK'
    BY <1>t DEF Start, TypeOK, Files
  <2>2. Filed'
    <3> SUFFICES ASSUME NEW p \in Paths PROVE Behind(p)' /\ Ahead(p)'
      BY DEF Start, Filed
    <3>1. Place(p) >= 1 /\ Place(p) \in Nat
      BY DEF Files
    <3>2. at' = 1 /\ stage' = "comparing" /\ differs' = {} /\ before' = disk' 
      BY DEF Start
    <3> QED
      BY <3>1, <3>2 DEF Behind, Ahead
  <2> QED
    BY <2>1, <2>2 DEF WriterInv, Start, LeftAlone, Evidence, IndexLast
<1>2. CASE Identical
  <2>1. TypeOK'
    BY <1>t, <1>2 DEF Identical, Goes, TypeOK, Files
  <2>2. Filed'
    <3> SUFFICES ASSUME NEW p \in Paths PROVE Behind(p)' /\ Ahead(p)'
      BY <1>2 DEF WriterInv, Identical, Goes, Filed
    <3>1. Behind(p) /\ Ahead(p)
      BY <1>2 DEF WriterInv, Filed, Identical
    <3>2. CASE Place(p) = at
      <4>1. p = PathOf(at)
        BY <3>2
      <4>2. disk[p] # "absent" /\ ReadsAsWanted(disk[p])
        BY <4>1, <1>2 DEF Identical, ReadsAsWanted
      <4> QED
        BY <4>2, <3>1, <3>2, <1>2, <1>t DEF Behind, Ahead, Identical, Goes, TypeOK, Files
    <3>3. CASE Place(p) # at
      BY <3>1, <3>3, <1>2, <1>t DEF Behind, Ahead, Identical, Goes, TypeOK, Files
    <3> QED
      BY <3>2, <3>3
  <2>3. Evidence'
    BY <1>2, <1>n DEF Evidence, Identical, Goes
  <2> QED
    BY <2>1, <2>2, <2>3, <1>2 DEF WriterInv, Identical, Goes, LeftAlone, IndexLast
<1>3. CASE LeaveAlone
  <2>1. TypeOK'
    BY <1>t, <1>3 DEF LeaveAlone, Goes, TypeOK, Files
  <2>2. Filed'
    <3> SUFFICES ASSUME NEW p \in Paths PROVE Behind(p)' /\ Ahead(p)'
      BY <1>3 DEF WriterInv, LeaveAlone, Goes, Filed
    <3>1. Behind(p) /\ Ahead(p)
      BY <1>3 DEF WriterInv, Filed, LeaveAlone
    <3>2. CASE Place(p) = at
      <4>1. p = PathOf(at)
        BY <3>2
      <4>2. disk[p] # "absent" /\ ~ReadsAsWanted(disk[p]) /\ p \in differs'
        BY <4>1, <1>3 DEF LeaveAlone
      <4> QED
        BY <4>2, <3>1, <3>2, <1>3, <1>t DEF Behind, Ahead, LeaveAlone, Goes, TypeOK, Files
    <3>3. CASE Place(p) # at
      <4>1. p \in differs' <=> p \in differs
        BY <3>3, <1>3 DEF LeaveAlone
      <4> QED
        BY <4>1, <3>1, <3>3, <1>3, <1>t DEF Behind, Ahead, LeaveAlone, Goes, TypeOK, Files
    <3> QED
      BY <3>2, <3>3
  <2> QED
    BY <2>1, <2>2, <1>3, <1>n DEF WriterInv, LeaveAlone, Goes, LeftAlone, Evidence, IndexLast
<1>4. CASE Open
  <2> DEFINE q == PathOf(at)
  <2>0. q \in Paths /\ Place(q) = at
    BY <1>4 DEF Open
  <2>1. TypeOK'
    BY <1>t, <1>4 DEF Open, Goes, TypeOK, Contents
  <2>2. \A p \in Paths : disk'[p] = IF p = q THEN "torn" ELSE disk[p]
    BY <1>4, <1>t DEF Open, TypeOK
  <2>3. disk[q] = before[q]
    BY <2>0, <1>4, <1>t DEF WriterInv, Filed, Ahead, Open, TypeOK, Files
  <2>4. Filed'
    <3>1. \A p \in Paths : Behind(p)' /\ Ahead(p)'
      <4> SUFFICES ASSUME NEW p \in Paths PROVE Behind(p)' /\ Ahead(p)'
        OBVIOUS
      <4>1. Behind(p) /\ Ahead(p)
        BY <1>4 DEF WriterInv, Filed, Open
      <4>2. p = q <=> Place(p) = at
        BY <2>0
      <4> HIDE DEF q
      <4> QED
        BY <4>1, <4>2, <2>2, <1>4, <1>t DEF Behind, Ahead, Open, Goes, TypeOK, Files
    <3>2. ~force => before[q] = "absent"
      BY <2>3, <1>4 DEF Open
    <3> QED
      BY <3>1, <3>2, <1>4 DEF Filed, WriterInv, Open, Goes
  <2>5. LeftAlone'
    BY <2>2, <2>3, <1>4 DEF WriterInv, LeftAlone, Open, Goes
  <2>6. IndexLast'
    <3>1. CASE q = INDEX
      BY <3>1, <2>0, <2>2 DEF IndexLast
    <3>2. CASE q # INDEX
      BY <3>2, <2>0, <2>2, <1>4 DEF IndexLast, WriterInv, Open, Goes, Paths, INDEX
    <3> QED
      BY <3>1, <3>2
  <2>7. Evidence'
    BY <1>4, <1>n DEF Evidence, Open, Goes
  <2> QED
    BY <2>1, <2>4, <2>5, <2>6, <2>7 DEF WriterInv
<1>5. CASE Write
  <2> DEFINE q == PathOf(at)
  <2>0. at \in Files /\ q \in Paths /\ Place(q) = at
    BY <1>5, <1>t DEF Write, TypeOK
  <2>1. TypeOK'
    <3>1. at + 1 \in 1..(Last + 1)
      BY <2>0 DEF Files
    <3> QED
      BY <3>1, <1>t, <1>5 DEF Write, Goes, TypeOK, Contents
  <2>2. \A p \in Paths : disk'[p] = IF p = q THEN "wanted" ELSE disk[p]
    BY <1>5, <1>t DEF Write, TypeOK
  <2>3. \A p \in Paths : Behind(p) /\ Ahead(p)
    BY <1>5 DEF WriterInv, Filed, Write
  <2>4. Filed'
    <3> SUFFICES ASSUME NEW p \in Paths PROVE Behind(p)' /\ Ahead(p)'
      BY <1>5 DEF WriterInv, Filed, Write, Goes
    <3>1. Behind(p) /\ Ahead(p)
      BY <2>3
    <3>2. p = q <=> Place(p) = at
      BY <2>0
    <3>3. CASE p = q
      <4>1. disk'[p] = "wanted" /\ p \notin differs'
        BY <3>1, <3>2, <3>3, <2>2, <2>0, <1>5 DEF Ahead, Write, Files
      <4> QED
        BY <4>1, <3>2, <3>3, <2>0, <1>5 DEF Behind, Ahead, Write, Goes, Files, ReadsAsWanted
    <3>4. CASE p # q
      <4>1. disk'[p] = disk[p] /\ differs' = differs
        BY <3>4, <2>2, <1>5 DEF Write
      <4>2. Place(p) # at /\ Place(p) \in Nat /\ at \in Nat
        BY <3>2, <3>4, <2>0 DEF Files
      <4>3. at' = at + 1 /\ before' = before /\ stage' = "comparing"
        BY <1>5 DEF Write, Goes
      <4>4. Behind(p)'
        <5> SUFFICES ASSUME Place(p) < at'
                     PROVE  disk'[p] # "absent" /\ (p \in differs' <=> ~ReadsAsWanted(disk'[p]))
          BY DEF Behind, ReadsAsWanted
        <5>1. Place(p) < at
          BY <4>2, <4>3
        <5>2. disk[p] # "absent" /\ (p \in differs <=> ~ReadsAsWanted(disk[p]))
          BY <5>1, <3>1 DEF Behind
        <5> QED
          BY <5>2, <4>1
      <4>5. Ahead(p)'
        BY <4>1, <4>2, <4>3, <3>1 DEF Ahead
      <4> QED
        BY <4>4, <4>5
    <3> QED
      BY <3>3, <3>4
  <2>5. LeftAlone'
    BY <2>2, <1>5 DEF WriterInv, LeftAlone, Filed, Write, Goes
  <2>6. IndexLast'
    <3>1. CASE q = INDEX
      <4> SUFFICES ASSUME NEW p \in Paths PROVE disk'[p] # "absent"
        BY DEF IndexLast
      <4>1. CASE p = q
        BY <4>1, <2>2
      <4>2. CASE p # q
        <5>1. Place(p) < at
          BY <4>2, <3>1, <2>0, <1>t DEF TypeOK, Files, Place
        <5> QED
          BY <5>1, <4>2, <2>2, <2>3 DEF Behind
      <4> QED
        BY <4>1, <4>2
    <3>2. CASE q # INDEX
      BY <3>2, <2>0, <2>2, <1>5 DEF IndexLast, WriterInv, Write, Goes, Paths, INDEX
    <3> QED
      BY <3>1, <3>2
  <2>7. Evidence'
    BY <1>5, <1>n DEF Evidence, Write, Goes
  <2> QED
    BY <2>1, <2>4, <2>5, <2>6, <2>7 DEF WriterInv
<1>6. CASE Die
  BY <1>6 DEF WriterInv, Die, TypeOK, LeftAlone, Filed, Evidence, IndexLast
<1>7. CASE Finish
  <2>1. \A p \in Paths : Place(p) < at
    BY <1>7, <1>t DEF Finish, TypeOK, Files
  <2>2. \A p \in Paths : p \in differs <=> ~ReadsAsWanted(disk[p])
    BY <2>1, <1>7 DEF WriterInv, Filed, Behind, Finish
  <2>3. differs = {p \in Paths : ~ReadsAsWanted(disk[p])}
    BY <2>2, <1>t DEF TypeOK
  <2>4. Evidence'
    BY <2>3, <1>7 DEF Evidence, Finish
  <2> QED
    BY <2>4, <1>7, <1>t DEF WriterInv, Finish, TypeOK, LeftAlone, Filed, IndexLast
<1>8. CASE UNCHANGED vars
  BY <1>8 DEF WriterInv, vars, TypeOK, LeftAlone, Filed, Evidence, IndexLast, Behind, Ahead
<1> QED
  BY <1>1, <1>2, <1>3, <1>4, <1>5, <1>6, <1>7, <1>8 DEF Next

(* Everything a run leaves, for any number of vectors. *)
THEOREM WriterCorrect == Spec => []WriterInv
  BY InitWriterInv, WriterStep, PTL DEF Spec

(* A run is at a file while it writes one, whatever it died of before. *)
THEOREM WriterTyped == Spec => []TypeOK
<1>1. WriterInv => TypeOK
  BY DEF WriterInv
<1> QED
  BY <1>1, WriterCorrect, PTL

(* Without --force no run changes a file that was there, at any moment.     *)
THEOREM NothingReplaced == Spec => []LeftAlone
<1>1. WriterInv => LeftAlone
  BY DEF WriterInv
<1> QED
  BY <1>1, WriterCorrect, PTL

(* A run that ended names exactly the paths that do not read as composed.   *)
THEOREM CleanExitIsEvidence == Spec => []Evidence
<1>1. WriterInv => Evidence
  BY DEF WriterInv
<1> QED
  BY <1>1, WriterCorrect, PTL

(* No run, dead or ended, has written INDEX before the files it lists.      *)
THEOREM IndexIsWrittenLast == Spec => []IndexLast
<1>1. WriterInv => IndexLast
  BY DEF WriterInv
<1> QED
  BY <1>1, WriterCorrect, PTL
=============================================================================
