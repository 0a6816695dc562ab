---------------------------- MODULE CheckProofs ----------------------------
(***************************************************************************)
(* What an exit status of cmd/check says, for a corpus of any size and any  *)
(* decoder, of a run that no signal disturbed; and that such a run is one   *)
(* of Verdict's.                                                            *)
(***************************************************************************)
EXTENDS Check, TLAPS

Steps == {"start", "loop", "decode", "compare", "rebuild", "compare raw", "hung", "done"}

(* How far the vector a turn of the loop is at has come. *)
Turn ==
  /\ pc \in {"decode", "compare", "rebuild", "compare raw"} =>
       at \in DOMAIN vectors /\ vectors[at].meta \in {"decode", "encode"}
  /\ pc \in {"compare", "rebuild", "compare raw"} => decoded[at].status = 0
  /\ pc \in {"rebuild", "compare raw"} =>
       encode /\ vectors[at].tidy /\ decoded[at].said # "other"
  /\ pc = "compare raw" => rebuilt[at].status = 0

(* What the counters say of the vectors behind it.  It is more than the     *)
(* exit status does: a pass is a vector that holds, a failure one that does *)
(* not, and with neither they were all given up.                            *)
Tally ==
  /\ \A i \in DOMAIN vectors : i < at => (fail = 0 => Holds(i) \/ GivenUp(i))
  /\ \A i \in DOMAIN vectors : i < at => (fail = 0 /\ pass = 0 => GivenUp(i))
  /\ pass > 0 => \E i \in DOMAIN vectors : i < at /\ Holds(i)
  /\ fail > 0 => \E i \in DOMAIN vectors : i < at /\ ~Holds(i) /\ ~GivenUp(i)

CheckInv == TypeOK /\ Turn /\ Tally /\ ZeroMeansAllHold /\ TwoMeansNothingMeasured
            /\ (pc # "done" => exit = Running)

-----------------------------------------------------------------------------
(* The vectors are numbered, and what is kept of each is a function of that.*)
LEMMA Numbered ==
  ASSUME TypeOK
  PROVE  /\ \E n \in Nat : DOMAIN vectors = 1..n
         /\ DOMAIN decoded = DOMAIN vectors /\ DOMAIN rebuilt = DOMAIN vectors
         /\ \A i \in DOMAIN vectors : vectors[i] \in Vectors
<1>1. PICK n \in 0..N : vectors \in [1..n -> Vectors]
  BY DEF TypeOK
<1>2. n \in Nat /\ DOMAIN vectors = 1..n
  BY <1>1, NAssumption
<1> QED
  BY <1>1, <1>2 DEF TypeOK

LEMMA InitCheckInv == Init => CheckInv
<1> SUFFICES ASSUME Init PROVE CheckInv
  OBVIOUS
<1>a. /\ setup \in {"no dump", "no INDEX", "INDEX differs", "ready"}
      /\ encode \in BOOLEAN /\ timeout \in BOOLEAN /\ obeys \in BOOLEAN
  BY DEF Init
<1>0. pc = "start" /\ signals = 0 /\ at = 1 /\ pass = 0 /\ fail = 0 /\ skip = 0 /\ exit = 3
  BY DEF Init, Running
<1>1. TypeOK
  <2>1. PICK n \in 0..N : vectors \in [1..n -> Vectors]
    BY DEF Init
  <2>2. Cut \in Answers
    BY DEF Cut, Answers
  <2>3. decoded \in [DOMAIN vectors -> Answers] /\ rebuilt = decoded
    BY <2>2 DEF Init
  <2>4. signals \in Nat /\ at \in Nat \ {0} /\ pass \in Nat /\ fail \in Nat /\ skip \in Nat
    BY <1>0
  <2>5. exit \in {0, 1, 2, Running}
    BY <1>0 DEF Running
  <2> QED
    BY <1>a, <1>0, <2>1, <2>3, <2>4, <2>5, Zenon DEF TypeOK
<1>2. \A i \in DOMAIN vectors : ~(i < at)
  <2>1. PICK n \in Nat : DOMAIN vectors = 1..n
    BY <1>1, Numbered
  <2>2. \A i \in 1..n : ~(i < 1)
    OBVIOUS
  <2> QED
    BY <2>1, <2>2 DEF Init
<1>3. Turn
  BY <1>0 DEF Turn
<1>4. Tally
  BY <1>0, <1>2 DEF Tally
<1>5. ZeroMeansAllHold /\ TwoMeansNothingMeasured
  BY <1>0 DEF Running, ZeroMeansAllHold, TwoMeansNothingMeasured
<1> QED
  BY <1>0, <1>1, <1>3, <1>4, <1>5 DEF CheckInv, Running

-----------------------------------------------------------------------------
(* A turn that ends: whichever way, the counters still say what they say,   *)
(* if the vector is what its counter takes it for.  Nothing behind it is    *)
(* touched.                                                                 *)
Kept ==
  /\ UNCHANGED <<vectors, encode>>
  /\ \A i \in DOMAIN vectors : i # at => decoded'[i] = decoded[i] /\ rebuilt'[i] = rebuilt[i]

LEMMA KeptBehind ==
  ASSUME CheckInv, Kept
  PROVE  \A i \in DOMAIN vectors : i # at =>
           (Holds(i)' <=> Holds(i)) /\ (GivenUp(i)' <=> GivenUp(i))
  BY DEF Kept, Holds, GivenUp, Reproduces

Adds(p, f, s) ==
  /\ at' = at + 1 /\ pass' = pass + p /\ fail' = fail + f /\ skip' = skip + s

LEMMA PassTallies ==
  ASSUME CheckInv, Kept, NEW k \in DOMAIN vectors, k = at, Adds(1, 0, 0), Holds(k)'
  PROVE  Tally'
<1>1. pass \in Nat /\ fail \in Nat /\ at \in Nat
  BY DEF CheckInv, TypeOK
<1>2. PICK n \in Nat : DOMAIN vectors = 1..n
  BY Numbered DEF CheckInv
<1>3. \A i \in DOMAIN vectors : i < at' <=> i < at \/ i = k
  BY <1>1, <1>2 DEF Adds
<1>4. Tally
  BY DEF CheckInv
<1>5. pass' > 0 /\ fail' = fail /\ vectors' = vectors
  BY <1>1 DEF Adds, Kept
<1>6. \A i \in DOMAIN vectors : i < at => i # at
  BY <1>1, <1>2
<1>7. \A i \in DOMAIN vectors : i < at' => (fail' = 0 => Holds(i)' \/ GivenUp(i)')
  BY <1>3, <1>4, <1>5, <1>6, KeptBehind DEF Tally
<1>8. fail' > 0 => \E i \in DOMAIN vectors : i < at' /\ ~Holds(i)' /\ ~GivenUp(i)'
  BY <1>3, <1>4, <1>5, <1>6, KeptBehind DEF Tally
<1>9. \E i \in DOMAIN vectors : i < at' /\ Holds(i)'
  BY <1>3
<1> QED
  BY <1>1, <1>5, <1>7, <1>8, <1>9 DEF Tally

LEMMA FailTallies ==
  ASSUME CheckInv, Kept, NEW k \in DOMAIN vectors, k = at, Adds(0, 1, 0), ~Holds(k)', ~GivenUp(k)'
  PROVE  Tally'
<1>1. pass \in Nat /\ fail \in Nat /\ at \in Nat
  BY DEF CheckInv, TypeOK
<1>2. PICK n \in Nat : DOMAIN vectors = 1..n
  BY Numbered DEF CheckInv
<1>3. \A i \in DOMAIN vectors : i < at' <=> i < at \/ i = k
  BY <1>1, <1>2 DEF Adds
<1>4. Tally
  BY DEF CheckInv
<1>5. fail' # 0 /\ pass' = pass /\ vectors' = vectors
  BY <1>1 DEF Adds, Kept
<1>6. \A i \in DOMAIN vectors : i < at => i # at
  BY <1>1, <1>2
<1>7. pass' > 0 => \E i \in DOMAIN vectors : i < at' /\ Holds(i)'
  BY <1>3, <1>4, <1>5, <1>6, KeptBehind DEF Tally
<1>8. \E i \in DOMAIN vectors : i < at' /\ ~Holds(i)' /\ ~GivenUp(i)'
  BY <1>3
<1> QED
  BY <1>5, <1>7, <1>8 DEF Tally

LEMMA SkipTallies ==
  ASSUME CheckInv, Kept, NEW k \in DOMAIN vectors, k = at, Adds(0, 0, 1), GivenUp(k)'
  PROVE  Tally'
<1>1. pass \in Nat /\ fail \in Nat /\ at \in Nat
  BY DEF CheckInv, TypeOK
<1>2. PICK n \in Nat : DOMAIN vectors = 1..n
  BY Numbered DEF CheckInv
<1>3. \A i \in DOMAIN vectors : i < at' <=> i < at \/ i = k
  BY <1>1, <1>2 DEF Adds
<1>4. Tally
  BY DEF CheckInv
<1>5. fail' = fail /\ pass' = pass /\ vectors' = vectors
  BY <1>1 DEF Adds, Kept
<1>6. \A i \in DOMAIN vectors : i < at => i # at
  BY <1>1, <1>2
<1>7. \A i \in DOMAIN vectors : i < at' => (fail' = 0 => Holds(i)' \/ GivenUp(i)')
  BY <1>3, <1>4, <1>5, <1>6, KeptBehind DEF Tally
<1>8. \A i \in DOMAIN vectors : i < at' => (fail' = 0 /\ pass' = 0 => GivenUp(i)')
  BY <1>3, <1>4, <1>5, <1>6, KeptBehind DEF Tally
<1>9. pass' > 0 => \E i \in DOMAIN vectors : i < at' /\ Holds(i)'
  BY <1>3, <1>4, <1>5, <1>6, KeptBehind DEF Tally
<1>10. fail' > 0 => \E i \in DOMAIN vectors : i < at' /\ ~Holds(i)' /\ ~GivenUp(i)'
  BY <1>3, <1>4, <1>5, <1>6, KeptBehind DEF Tally
<1> QED
  BY <1>5, <1>7, <1>8, <1>9, <1>10 DEF Tally

(* A step within a turn leaves the tally alone. *)
LEMMA OntoTallies ==
  ASSUME CheckInv, Kept, UNCHANGED <<at, pass, fail>>
  PROVE  Tally'
<1>1. \A i \in DOMAIN vectors : i < at => i # at
  <2>1. PICK n \in Nat : DOMAIN vectors = 1..n
    BY Numbered DEF CheckInv
  <2>2. at \in Nat
    BY DEF CheckInv, TypeOK
  <2> QED
    BY <2>1, <2>2
<1>2. Tally /\ vectors' = vectors
  BY DEF CheckInv, Kept
<1> QED
  BY <1>1, <1>2, KeptBehind DEF Tally

-----------------------------------------------------------------------------
(* What an answer is, in a run no signal is sent to.                        *)
LEMMA AnswerIsTyped ==
  ASSUME INTERRUPTS = 0, CheckInv, NEW a \in Answers, Run(a)
  PROVE  /\ a # Cut /\ UNCHANGED signals
         /\ a.status \in Nat /\ (a.status = 0 <=> a \in Answered)
         /\ a = Unable <=> a.status = 77
<1>1. signals \in Nat
  BY DEF CheckInv, TypeOK
<1>2. a # Cut \/ ~Signal
  BY <1>1 DEF Signal
<1> QED
  BY <1>1, <1>2 DEF Run, Signal, Answers, Answered, Refused, Unable, TooLate, Cut

(* A diff that no signal cut short says whether the files differ. *)
LEMMA DiffTells ==
  ASSUME INTERRUPTS = 0, CheckInv, NEW a \in Answers, NEW cut \in BOOLEAN,
         NEW shows \in BOOLEAN, Diff(a, cut, shows)
  PROVE  (shows <=> a.said = "other") /\ UNCHANGED signals
<1>1. ~Signal
  <2>1. signals \in Nat
    BY DEF CheckInv, TypeOK
  <2> QED
    BY <2>1 DEF Signal
<1>2. ~cut /\ (shows = (a.said = "other")) /\ UNCHANGED signals
  BY <1>1, Zenon DEF Diff
<1> QED
  BY <1>2, Zenon

(* A step that is not the last: the exit status stays what it is.           *)
LEMMA StillRunning ==
  ASSUME CheckInv, pc # "done", UNCHANGED exit
  PROVE  exit' = Running /\ ZeroMeansAllHold' /\ TwoMeansNothingMeasured'
  BY DEF CheckInv, Running, ZeroMeansAllHold, TwoMeansNothingMeasured

LEMMA TypeKept ==
  ASSUME TypeOK, UNCHANGED corpus, signals' \in Nat, at' \in Nat \ {0}, pc' \in Steps,
         decoded' \in [DOMAIN vectors -> Answers], rebuilt' \in [DOMAIN vectors -> Answers],
         pass' \in Nat, fail' \in Nat, skip' \in Nat, exit' \in {0, 1, 2, Running}
  PROVE  TypeOK'
  BY Zenon DEF TypeOK, corpus, Steps

(* A turn ends in one of three ways or goes on. *)
LEMMA TurnEnds ==
  ASSUME CheckInv, UNCHANGED exit, pc # "done", TypeOK', pc' = "loop", Tally'
  PROVE  CheckInv'
  BY StillRunning DEF CheckInv, Turn

LEMMA PassEnds ==
  ASSUME CheckInv, Kept, NEW k \in DOMAIN vectors, k = at, Passed, Holds(k)',
         UNCHANGED <<corpus, signals, exit>>, pc # "done",
         decoded' \in [DOMAIN vectors -> Answers], rebuilt' \in [DOMAIN vectors -> Answers]
  PROVE  CheckInv'
<1>1. TypeOK
  BY DEF CheckInv
<1>2. signals \in Nat /\ at \in Nat /\ pass \in Nat /\ fail \in Nat /\ skip \in Nat
      /\ exit \in {0, 1, 2, Running}
  BY <1>1 DEF TypeOK
<1>3. Adds(1, 0, 0) /\ pc' = "loop"
  BY <1>2 DEF Adds, Passed
<1>4. at' \in Nat \ {0} /\ pass' \in Nat /\ fail' \in Nat /\ skip' \in Nat /\ pc' \in Steps
  BY <1>2, <1>3 DEF Adds, Steps
<1>5. TypeOK'
  BY <1>1, <1>2, <1>4, TypeKept
<1>6. Tally'
  BY <1>3, PassTallies
<1> QED
  BY <1>3, <1>5, <1>6, TurnEnds

LEMMA FailEnds ==
  ASSUME CheckInv, Kept, NEW k \in DOMAIN vectors, k = at, Failed, ~Holds(k)', ~GivenUp(k)',
         UNCHANGED <<corpus, signals, exit>>, pc # "done",
         decoded' \in [DOMAIN vectors -> Answers], rebuilt' \in [DOMAIN vectors -> Answers]
  PROVE  CheckInv'
<1>1. TypeOK
  BY DEF CheckInv
<1>2. signals \in Nat /\ at \in Nat /\ pass \in Nat /\ fail \in Nat /\ skip \in Nat
      /\ exit \in {0, 1, 2, Running}
  BY <1>1 DEF TypeOK
<1>3. Adds(0, 1, 0) /\ pc' = "loop"
  BY <1>2 DEF Adds, Failed
<1>4. at' \in Nat \ {0} /\ pass' \in Nat /\ fail' \in Nat /\ skip' \in Nat /\ pc' \in Steps
  BY <1>2, <1>3 DEF Adds, Steps
<1>5. TypeOK'
  BY <1>1, <1>2, <1>4, TypeKept
<1>6. Tally'
  BY <1>3, FailTallies
<1> QED
  BY <1>3, <1>5, <1>6, TurnEnds

LEMMA SkipEnds ==
  ASSUME CheckInv, Kept, NEW k \in DOMAIN vectors, k = at, Skipped, GivenUp(k)',
         UNCHANGED <<corpus, signals, exit>>, pc # "done",
         decoded' \in [DOMAIN vectors -> Answers], rebuilt' \in [DOMAIN vectors -> Answers]
  PROVE  CheckInv'
<1>1. TypeOK
  BY DEF CheckInv
<1>2. signals \in Nat /\ at \in Nat /\ pass \in Nat /\ fail \in Nat /\ skip \in Nat
      /\ exit \in {0, 1, 2, Running}
  BY <1>1 DEF TypeOK
<1>3. Adds(0, 0, 1) /\ pc' = "loop"
  BY <1>2 DEF Adds, Skipped
<1>4. at' \in Nat \ {0} /\ pass' \in Nat /\ fail' \in Nat /\ skip' \in Nat /\ pc' \in Steps
  BY <1>2, <1>3 DEF Adds, Steps
<1>5. TypeOK'
  BY <1>1, <1>2, <1>4, TypeKept
<1>6. Tally'
  BY <1>3, SkipTallies
<1> QED
  BY <1>3, <1>5, <1>6, TurnEnds

LEMMA GoesOn ==
  ASSUME CheckInv, Kept, NEW step \in Steps, Onto(step), Turn',
         UNCHANGED <<corpus, signals, exit>>, pc # "done",
         decoded' \in [DOMAIN vectors -> Answers], rebuilt' \in [DOMAIN vectors -> Answers]
  PROVE  CheckInv'
<1>1. TypeOK
  BY DEF CheckInv
<1>2. signals \in Nat /\ at \in Nat \ {0} /\ pass \in Nat /\ fail \in Nat /\ skip \in Nat
      /\ exit \in {0, 1, 2, Running}
  BY <1>1 DEF TypeOK
<1>3. UNCHANGED <<at, pass, fail, skip>> /\ pc' = step
  BY DEF Onto
<1>5. TypeOK'
  BY <1>1, <1>2, <1>3, TypeKept
<1>6. Tally'
  BY <1>3, OntoTallies
<1> QED
  BY <1>5, <1>6, StillRunning DEF CheckInv

-----------------------------------------------------------------------------
LEMMA CheckStep ==
  ASSUME INTERRUPTS = 0, CheckInv, [Next]_vars
  PROVE  CheckInv'
<1>t. /\ TypeOK /\ Turn
      /\ decoded \in [DOMAIN vectors -> Answers] /\ rebuilt \in [DOMAIN vectors -> Answers]
  BY DEF CheckInv, TypeOK
<1>1. CASE Refuse
  <2>1. Kept /\ UNCHANGED <<corpus, signals, at, pass, fail, skip, decoded, rebuilt>>
    BY <1>1 DEF Refuse, Kept, corpus, counters
  <2>2. pc' = "done" /\ exit' = 2 /\ setup' # "ready"
    BY <1>1 DEF Refuse, corpus
  <2>3. TypeOK'
    <3>1. signals \in Nat /\ at \in Nat \ {0} /\ pass \in Nat /\ fail \in Nat /\ skip \in Nat
      BY <1>t DEF TypeOK
    <3> QED
      BY <1>t, <2>1, <2>2, <3>1, TypeKept DEF Steps
  <2>4. Tally'
    BY <2>1, OntoTallies
  <2>5. Turn'
    BY <2>2 DEF Turn
  <2>6. ZeroMeansAllHold' /\ TwoMeansNothingMeasured'
    <3>1. exit' # 0 /\ exit' # 1 /\ setup' # "ready"
      BY <2>2
    <3> QED
      BY <3>1 DEF ZeroMeansAllHold, TwoMeansNothingMeasured
  <2> QED
    BY <2>2, <2>3, <2>4, <2>5, <2>6 DEF CheckInv
<1>2. ASSUME NEW cut \in BOOLEAN, Start(cut) PROVE CheckInv'
  <2>1. ~Signal
    <3>1. signals \in Nat
      BY DEF CheckInv, TypeOK
    <3> QED
      BY <3>1 DEF Signal
  <2>2. UNCHANGED signals
    BY <1>2, <2>1 DEF Start
  <2>3. Kept /\ Onto("loop") /\ UNCHANGED <<corpus, signals, exit, decoded, rebuilt>> /\ pc # "done"
    BY <1>2, <2>2 DEF Start, Kept, Onto, corpus, counters
  <2>4. Turn'
    BY <1>2 DEF Start, Turn
  <2> QED
    BY <2>3, <2>4, <1>t, GoesOn DEF Steps
<1>3. CASE ReadMeta
  <2>1. Kept /\ UNCHANGED <<corpus, signals, exit, decoded, rebuilt>> /\ pc # "done"
        /\ at \in DOMAIN vectors
    BY <1>3 DEF ReadMeta, Kept, corpus
  <2>2. CASE vectors[at].meta \in {"decode", "encode"}
    <3>1. Onto("decode")
      BY <2>2, <1>3 DEF ReadMeta
    <3>2. Turn'
      BY <2>1, <2>2, <3>1 DEF Onto, Turn, Kept
    <3> QED
      BY <2>1, <3>1, <3>2, <1>t, GoesOn DEF Steps
  <2>3. CASE vectors[at].meta \notin {"decode", "encode"}
    <3>1. Failed
      BY <2>3, <1>3 DEF ReadMeta
    <3>2. PICK k \in DOMAIN vectors : k = at
      BY <2>1
    <3>3. ~Holds(k)' /\ ~GivenUp(k)'
      BY <2>1, <2>3, <3>2 DEF Holds, GivenUp, Kept
    <3> QED
      BY <2>1, <3>1, <3>2, <3>3, <1>t, FailEnds
  <2> QED
    BY <2>2, <2>3
<1>4. CASE \E a \in Answers : Decode(a)
  <2> PICK a \in Answers : Decode(a)
    BY <1>4
  <2>1. a.status \in Nat /\ (a.status = 0 <=> a \in Answered) /\ (a = Unable <=> a.status = 77)
        /\ UNCHANGED signals
    BY AnswerIsTyped DEF Decode
  <2>2. /\ at \in DOMAIN vectors /\ vectors[at].meta \in {"decode", "encode"}
        /\ decoded' = [decoded EXCEPT ![at] = a] /\ UNCHANGED <<corpus, rebuilt, exit>>
        /\ pc # "done"
    BY <1>t DEF Decode, Turn
  <2>3. decoded'[at] = a /\ decoded' \in [DOMAIN vectors -> Answers]
    BY <2>2, <1>t
  <2>4. Kept
    BY <2>2, <1>t DEF Kept, corpus
  <2>5. PICK k \in DOMAIN vectors : k = at
    BY <2>2
  <2>6. CASE a = Unable
    <3>1. Skipped
      BY <2>6 DEF Decode
    <3>2. GivenUp(k)'
      BY <2>2, <2>3, <2>4, <2>5, <2>6 DEF GivenUp, Kept, Unable
    <3> QED
      BY <3>1, <3>2, <2>1, <2>2, <2>3, <2>4, <2>5, <1>t, SkipEnds
  <2>7. CASE a # Unable /\ a.status # 0
    <3>1. Failed
      BY <2>7 DEF Decode
    <3>2. ~Holds(k)' /\ ~GivenUp(k)'
      BY <2>2, <2>3, <2>4, <2>5, <2>7 DEF GivenUp, Holds, Reproduces, Unable
    <3> QED
      BY <3>1, <3>2, <2>1, <2>2, <2>3, <2>4, <2>5, <1>t, FailEnds
  <2>8. CASE a # Unable /\ a.status = 0
    <3>1. Onto("compare")
      BY <2>8 DEF Decode
    <3>2. Turn'
      BY <3>1, <2>2, <2>3, <2>4, <2>8 DEF Turn, Onto, Kept
    <3> QED
      BY <3>1, <3>2, <2>1, <2>2, <2>3, <2>4, <1>t, GoesOn DEF Steps
  <2> QED
    BY <2>6, <2>7, <2>8
<1>5. CASE \E cut, shows \in BOOLEAN : Compare(cut, shows)
  <2> PICK cut \in BOOLEAN, shows \in BOOLEAN : Compare(cut, shows)
    BY <1>5
  <2>1. /\ at \in DOMAIN vectors /\ vectors[at].meta \in {"decode", "encode"}
        /\ decoded[at] \in Answers /\ decoded[at].status = 0
        /\ UNCHANGED <<corpus, decoded, rebuilt, exit>> /\ pc # "done"
    BY <1>t DEF Compare, Turn
  <2>2. (shows <=> decoded[at].said = "other") /\ UNCHANGED signals
    BY <2>1, DiffTells DEF Compare
  <2>4. Kept
    BY <2>1 DEF Kept, corpus
  <2>5. PICK k \in DOMAIN vectors : k = at
    BY <2>1
  <2>6. CASE ~vectors[at].tidy \/ shows
    <3>1. Failed
      BY <2>6 DEF Compare
    <3>2. ~Holds(k)' /\ ~GivenUp(k)'
      BY <2>1, <2>2, <2>4, <2>5, <2>6 DEF GivenUp, Holds, Reproduces, Unable, Refused, Kept
    <3> QED
      BY <3>1, <3>2, <2>1, <2>2, <2>4, <2>5, <1>t, FailEnds
  <2>7. CASE vectors[at].tidy /\ ~shows /\ encode
    <3>1. Onto("rebuild")
      BY <2>7 DEF Compare
    <3>2. Turn'
      BY <3>1, <2>1, <2>2, <2>4, <2>7 DEF Turn, Onto, Kept
    <3> QED
      BY <3>1, <3>2, <2>1, <2>2, <2>4, <1>t, GoesOn DEF Steps
  <2>8. CASE vectors[at].tidy /\ ~shows /\ ~encode
    <3>1. Passed
      BY <2>8 DEF Compare
    <3>2. Holds(k)'
      BY <2>1, <2>2, <2>4, <2>5, <2>8 DEF Holds, Reproduces, Kept
    <3> QED
      BY <3>1, <3>2, <2>1, <2>2, <2>4, <2>5, <1>t, PassEnds
  <2> QED
    BY <2>6, <2>7, <2>8
<1>6. CASE \E a \in Answers : Rebuild(a)
  <2> PICK a \in Answers : Rebuild(a)
    BY <1>6
  <2>1. a.status \in Nat /\ UNCHANGED signals
    BY AnswerIsTyped DEF Rebuild
  <2>2. /\ at \in DOMAIN vectors /\ vectors[at].meta \in {"decode", "encode"}
        /\ decoded[at].status = 0 /\ decoded[at].said # "other" /\ encode /\ vectors[at].tidy
        /\ rebuilt' = [rebuilt EXCEPT ![at] = a] /\ UNCHANGED <<corpus, decoded, exit>>
        /\ pc # "done"
    BY <1>t DEF Rebuild, Turn
  <2>3. rebuilt'[at] = a /\ rebuilt' \in [DOMAIN vectors -> Answers]
    BY <2>2, <1>t
  <2>4. Kept
    BY <2>2, <1>t DEF Kept, corpus
  <2>5. PICK k \in DOMAIN vectors : k = at
    BY <2>2
  <2>6. CASE a.status = 0
    <3>1. Onto("compare raw")
      BY <2>6 DEF Rebuild
    <3>2. Turn'
      BY <3>1, <2>2, <2>3, <2>4, <2>6 DEF Turn, Onto, Kept
    <3> QED
      BY <3>1, <3>2, <2>1, <2>2, <2>3, <2>4, <1>t, GoesOn DEF Steps
  <2>7. CASE a.status # 0 /\ vectors[at].meta = "encode"
    <3>1. Failed
      BY <2>7 DEF Rebuild
    <3>2. ~Holds(k)' /\ ~GivenUp(k)'
      BY <2>2, <2>3, <2>4, <2>5, <2>7 DEF GivenUp, Holds, Reproduces, Unable, Refused, Kept
    <3> QED
      BY <3>1, <3>2, <2>1, <2>2, <2>3, <2>4, <2>5, <1>t, FailEnds
  <2>8. CASE a.status # 0 /\ vectors[at].meta # "encode"
    <3>1. Passed
      BY <2>8 DEF Rebuild
    <3>2. Holds(k)'
      BY <2>2, <2>3, <2>4, <2>5, <2>8 DEF Holds, Reproduces, Kept
    <3> QED
      BY <3>1, <3>2, <2>1, <2>2, <2>3, <2>4, <2>5, <1>t, PassEnds
  <2> QED
    BY <2>6, <2>7, <2>8
<1>7. CASE \E cut, shows \in BOOLEAN : CompareRaw(cut, shows)
  <2> PICK cut \in BOOLEAN, shows \in BOOLEAN : CompareRaw(cut, shows)
    BY <1>7
  <2>1. /\ at \in DOMAIN vectors /\ vectors[at].meta \in {"decode", "encode"}
        /\ decoded[at].status = 0 /\ decoded[at].said # "other" /\ encode /\ vectors[at].tidy
        /\ rebuilt[at] \in Answers /\ rebuilt[at].status = 0
        /\ UNCHANGED <<corpus, decoded, rebuilt, exit>> /\ pc # "done"
    BY <1>t DEF CompareRaw, Turn
  <2>2. (shows <=> rebuilt[at].said = "other") /\ UNCHANGED signals
    BY <2>1, DiffTells DEF CompareRaw
  <2>4. Kept
    BY <2>1 DEF Kept, corpus
  <2>5. PICK k \in DOMAIN vectors : k = at
    BY <2>1
  <2>6. CASE shows <=> vectors[at].meta = "encode"
    <3>1. Failed
      BY <2>6, Zenon DEF CompareRaw
    <3>2. ~Holds(k)' /\ ~GivenUp(k)'
      BY <2>1, <2>2, <2>4, <2>5, <2>6 DEF GivenUp, Holds, Reproduces, Unable, Refused, Kept
    <3> QED
      BY <3>1, <3>2, <2>1, <2>2, <2>4, <2>5, <1>t, FailEnds
  <2>7. CASE ~(shows <=> vectors[at].meta = "encode")
    <3>1. Passed
      BY <2>7, Zenon DEF CompareRaw
    <3>2. Holds(k)'
      BY <2>1, <2>2, <2>4, <2>5, <2>7 DEF Holds, Reproduces, Kept
    <3> QED
      BY <3>1, <3>2, <2>1, <2>2, <2>4, <2>5, <1>t, PassEnds
  <2> QED
    BY <2>6, <2>7
<1>8. CASE Hang
  <2>1. Kept /\ Onto("hung") /\ UNCHANGED <<corpus, signals, exit, decoded, rebuilt>> /\ pc # "done"
    BY <1>8 DEF Hang, Kept, Onto, corpus, counters
  <2>2. Turn'
    BY <1>8 DEF Hang, Turn
  <2> QED
    BY <2>1, <2>2, <1>t, GoesOn DEF Steps
<1>9. CASE Finish
  <2>1. Kept /\ UNCHANGED <<corpus, signals, at, pass, fail, skip, decoded, rebuilt>>
    BY <1>9 DEF Finish, Kept, corpus, counters
  <2>2. pc' = "done" /\ exit' \in {0, 1, 2}
    BY <1>9 DEF Finish
  <2>3. pass \in Nat /\ fail \in Nat /\ skip \in Nat /\ signals \in Nat /\ at \in Nat \ {0}
    BY <1>t DEF TypeOK
  <2>4. TypeOK'
    BY <1>t, <2>1, <2>2, <2>3, TypeKept DEF Steps
  <2>5. Tally' /\ Tally
    BY <2>1, OntoTallies DEF CheckInv
  <2>6. \A i \in DOMAIN vectors : i < at
    <3>1. PICK n \in Nat : DOMAIN vectors = 1..n
      BY <1>t, Numbered
    <3>2. at \notin 1..n
      BY <3>1, <1>9 DEF Finish
    <3>3. \A i \in 1..n : i < at
      BY <3>2, <2>3
    <3> QED
      BY <3>1, <3>3
  <2>7. exit' = IF pass = 0 /\ fail = 0 THEN 2 ELSE IF fail = 0 THEN 0 ELSE 1
    BY <1>9 DEF Finish
  <2>8. \A i \in DOMAIN vectors' : i < at'
    BY <2>1, <2>6 DEF Kept
  <2>9. pass' = pass /\ fail' = fail
    BY <2>1
  <2>10. ZeroMeansAllHold'
    <3>1. exit' = 0 => fail' = 0 /\ pass' > 0
      BY <2>7, <2>3, <2>9
    <3> QED
      BY <3>1, <2>5, <2>8 DEF Tally, ZeroMeansAllHold
  <2>11. TwoMeansNothingMeasured'
    <3>1. (exit' = 2 => fail' = 0 /\ pass' = 0) /\ (exit' = 1 => fail' > 0)
      BY <2>7, <2>3, <2>9
    <3> QED
      BY <3>1, <2>5, <2>8 DEF Tally, TwoMeansNothingMeasured
  <2> QED
    BY <2>2, <2>4, <2>5, <2>10, <2>11 DEF CheckInv, Turn
<1>10. CASE UNCHANGED vars
  <2>1. Kept /\ UNCHANGED <<at, pass, fail>>
    BY <1>10 DEF Kept, vars
  <2>2. Tally'
    BY <2>1, OntoTallies
  <2>3. TypeOK' /\ Turn'
    BY <1>t, <1>10, ZenonT(40) DEF TypeOK, Turn, vars
  <2>4. \A i \in DOMAIN vectors : (Holds(i)' <=> Holds(i)) /\ (GivenUp(i)' <=> GivenUp(i))
    BY <1>10 DEF vars, Holds, GivenUp, Reproduces
  <2>5. ZeroMeansAllHold'
    BY <2>4, <1>10 DEF vars, ZeroMeansAllHold, CheckInv
  <2>6. TwoMeansNothingMeasured'
    BY <2>4, <1>10 DEF vars, TwoMeansNothingMeasured, CheckInv
  <2> QED
    BY <2>2, <2>3, <2>5, <2>6, <1>10 DEF CheckInv, vars
<1> QED
  BY <1>1, <1>2, <1>3, <1>4, <1>5, <1>6, <1>7, <1>8, <1>9, <1>10 DEF Next

-----------------------------------------------------------------------------
THEOREM CheckCorrect == ASSUME INTERRUPTS = 0 PROVE Spec => []CheckInv
  BY InitCheckInv, CheckStep, PTL DEF Spec

(* The counters count, and what is kept of a vector is an answer. *)
THEOREM CheckTyped == ASSUME INTERRUPTS = 0 PROVE Spec => []TypeOK
<1>1. CheckInv => TypeOK
  BY DEF CheckInv
<1> QED
  BY <1>1, CheckCorrect, PTL

(* An exit of 0 is the word that the decoder and the corpus agree on every  *)
(* vector the decoder did not give up, and on one at least.                 *)
THEOREM ZeroIsAgreement == ASSUME INTERRUPTS = 0 PROVE Spec => []ZeroMeansAllHold
<1>1. CheckInv => ZeroMeansAllHold
  BY DEF CheckInv
<1> QED
  BY <1>1, CheckCorrect, PTL

(* An exit of 1 names a disagreement, and one of 2 a run with nothing in it.*)
THEOREM TwoIsNoVerdict == ASSUME INTERRUPTS = 0 PROVE Spec => []TwoMeansNothingMeasured
<1>1. CheckInv => TwoMeansNothingMeasured
  BY DEF CheckInv
<1> QED
  BY <1>1, CheckCorrect, PTL

-----------------------------------------------------------------------------
(* cmd/check implements Verdict, for a corpus of any size and any decoder,  *)
(* when no signal disturbs it.                                              *)

(* Where the loop is: nowhere yet before it starts, and never further than  *)
(* one behind the last vector.                                              *)
Place ==
  /\ pc = "start" => at = 1
  /\ \A n \in Nat : DOMAIN vectors = 1..n => at <= n + 1

Size == CHOOSE n \in 0..N : DOMAIN vectors = 1..n
Judged == [i \in 1..(at - 1) |-> Judgement(i)]

(* What a step does that is not the last one. *)
Turns ==
  /\ Kept /\ exit' = exit /\ pc # "done" /\ pc' # "start"
  /\ at' = at \/ (at \in DOMAIN vectors /\ at' = at + 1)

LEMMA SizeIsTheirNumber == TypeOK => Size \in Nat /\ DOMAIN vectors = 1..Size
<1> SUFFICES ASSUME TypeOK PROVE Size \in Nat /\ DOMAIN vectors = 1..Size
  OBVIOUS
<1>1. PICK n \in 0..N : vectors \in [1..n -> Vectors]
  BY DEF TypeOK
<1>2. \E m \in 0..N : DOMAIN vectors = 1..m
  BY <1>1
<1>3. Size \in 0..N /\ DOMAIN vectors = 1..Size
  BY <1>2 DEF Size
<1> QED
  BY <1>3, NAssumption

LEMMA StepsTurn == ASSUME CheckInv, Next PROVE Turns \/ Refuse \/ Finish
<1>1. CASE (\E cut \in BOOLEAN : Start(cut)) \/ Hang
  BY <1>1, Zenon DEF Start, Hang, Turns, Kept, corpus, counters
<1>2. CASE ReadMeta
  BY <1>2, Zenon DEF ReadMeta, Turns, Kept, corpus, Onto, Failed
<1>3. CASE \E a \in Answers : Decode(a) \/ Rebuild(a)
  <2>1. PICK a \in Answers : Decode(a) \/ Rebuild(a)
    BY <1>3
  <2>2. at \in DOMAIN vectors
    BY <2>1, Zenon DEF Decode, Rebuild, CheckInv, Turn
  <2>3. DOMAIN decoded = DOMAIN vectors /\ DOMAIN rebuilt = DOMAIN vectors
    BY Numbered DEF CheckInv
  <2>4. \/ decoded' = [decoded EXCEPT ![at] = a] /\ rebuilt' = rebuilt
        \/ rebuilt' = [rebuilt EXCEPT ![at] = a] /\ decoded' = decoded
    BY <2>1, Zenon DEF Decode, Rebuild
  <2>5. \A i \in DOMAIN vectors : i # at => decoded'[i] = decoded[i] /\ rebuilt'[i] = rebuilt[i]
    BY <2>3, <2>4
  <2>6. UNCHANGED <<vectors, encode>> /\ exit' = exit
    BY <2>1 DEF Decode, Rebuild, corpus
  <2>7. pc # "done" /\ pc' # "start" /\ (at' = at \/ at' = at + 1)
    BY <2>1, Zenon DEF Decode, Rebuild, Passed, Failed, Skipped, Onto
  <2> QED
    BY <2>2, <2>5, <2>6, <2>7, Zenon DEF Turns, Kept
<1>4. CASE \E cut, shows \in BOOLEAN : Compare(cut, shows) \/ CompareRaw(cut, shows)
  <2>1. PICK cut \in BOOLEAN, shows \in BOOLEAN : Compare(cut, shows) \/ CompareRaw(cut, shows)
    BY <1>4
  <2>2. at \in DOMAIN vectors
    BY <2>1, Zenon DEF Compare, CompareRaw, CheckInv, Turn
  <2>3. UNCHANGED <<vectors, encode, decoded, rebuilt, exit>>
    BY <2>1, Zenon DEF Compare, CompareRaw, corpus
  <2>4. pc # "done" /\ pc' # "start" /\ (at' = at \/ at' = at + 1)
    BY <2>1, Zenon DEF Compare, CompareRaw, Passed, Failed, Onto
  <2> QED
    BY <2>2, <2>3, <2>4, Zenon DEF Turns, Kept
<1> QED
  BY <1>1, <1>2, <1>3, <1>4, Zenon DEF Next

-----------------------------------------------------------------------------
LEMMA PlaceInit == Init => Place
<1> SUFFICES ASSUME Init, NEW n \in Nat PROVE at = 1 /\ at <= n + 1
  BY DEF Place
<1>1. at = 1
  BY DEF Init
<1> QED
  BY <1>1

LEMMA PlaceKept == ASSUME CheckInv, Place, [Next]_vars PROVE Place'
<1>1. CASE Turns
  <2> SUFFICES ASSUME NEW n \in Nat, DOMAIN vectors = 1..n PROVE at' <= n + 1
    BY <1>1 DEF Turns, Kept, Place
  <2>1. at \in Nat /\ at <= n + 1
    BY DEF CheckInv, TypeOK, Place
  <2> QED
    BY <1>1, <2>1 DEF Turns
<1>2. CASE Refuse \/ Finish
  <2>1. pc' # "start" /\ at' = at /\ vectors' = vectors
    BY <1>2, Zenon DEF Refuse, Finish, corpus
  <2> QED
    BY <2>1 DEF Place
<1>3. CASE UNCHANGED vars
  BY <1>3 DEF vars, Place
<1> QED
  BY <1>1, <1>2, <1>3, StepsTurn

(* Nothing that was judged is judged again. *)
LEMMA JudgementsStand ==
  ASSUME CheckInv, Place, Turns, NEW i \in 1..(at - 1)
  PROVE  Judgement(i)' = Judgement(i)
<1>1. Size \in Nat /\ DOMAIN vectors = 1..Size /\ at \in Nat \ {0}
  BY SizeIsTheirNumber DEF CheckInv, TypeOK
<1>2. at <= Size + 1
  BY <1>1 DEF Place
<1>3. i \in DOMAIN vectors /\ i # at
  BY <1>1, <1>2
<1>4. (Holds(i)' <=> Holds(i)) /\ (GivenUp(i)' <=> GivenUp(i))
  BY <1>3, KeptBehind DEF Turns
<1> QED
  BY <1>4, Zenon DEF Judgement

LEMMA TurnJudges ==
  ASSUME CheckInv, Place, Turns
  PROVE  [Promise!Next]_(Promise!vars)
<1>1. Size \in Nat /\ DOMAIN vectors = 1..Size /\ at \in Nat \ {0}
  BY SizeIsTheirNumber DEF CheckInv, TypeOK
<1>2. Size' = Size /\ exit' = exit
  BY DEF Turns, Kept, Size
<1>3. CASE at' = at
  <2>1. Judged' = Judged
    BY <1>3, JudgementsStand DEF Judged
  <2> QED
    BY <1>2, <2>1 DEF Promise!vars, Judged, Size
<1>4. CASE at \in DOMAIN vectors /\ at' = at + 1
  <2>1. exit = Running
    BY DEF Turns, CheckInv
  <2>2. PICK k \in 1..Size : k = at
    BY <1>1, <1>4
  <2>3. Judgement(k)' \in Promise!Judgements
    BY Zenon DEF Judgement, Promise!Judgements
  <2>4. \A i \in 1..at : Judged'[i] = IF i = k THEN Judgement(k)' ELSE Judged[i]
    BY <1>1, <1>4, <2>2, JudgementsStand DEF Judged
  <2>5. Judged' = [i \in 1..k |-> IF i = k THEN Judgement(k)' ELSE Judged[i]]
    BY <1>1, <1>4, <2>2, <2>4 DEF Judged
  <2>6. DOMAIN Judged = 1..(k - 1)
    BY <2>2 DEF Judged
  <2> QED
    BY <1>2, <2>1, <2>3, <2>5, <2>6 DEF Promise!Next, Promise!Judge, Judged, Size
<1> QED
  BY <1>3, <1>4 DEF Turns

-----------------------------------------------------------------------------
(* The exit status is what the judgements come to. *)
LEMMA RefusalRefuses == ASSUME CheckInv, Place, Refuse PROVE Promise!Refuse
<1>1. at = 1 /\ exit = Running /\ exit' = 2
  BY DEF Refuse, Place, CheckInv
<1>2. UNCHANGED <<vectors, at, decoded, rebuilt, encode>>
  BY DEF Refuse, corpus
<1>3. Judged = Promise!None
  BY <1>1 DEF Judged, Promise!None
<1>4. Judged' = Judged
  BY <1>1, <1>2 DEF Judged
<1>5. Size' = Size
  BY <1>2 DEF Size
<1> QED
  BY <1>1, <1>3, <1>4, <1>5 DEF Promise!Refuse, Judged, Size

LEMMA FinishConcludes == ASSUME CheckInv, Place, Finish PROVE Promise!Conclude
<1>1. Size \in Nat /\ DOMAIN vectors = 1..Size /\ at \in Nat \ {0}
  BY SizeIsTheirNumber DEF CheckInv, TypeOK
<1>2. at = Size + 1
  BY <1>1 DEF Place, Finish
<1>3. UNCHANGED <<vectors, at, decoded, rebuilt, encode>>
  BY DEF Finish, corpus
<1>4. Size' = Size
  BY <1>3 DEF Size
<1>5. \A i \in 1..Size : Judgement(i)' = Judgement(i)
  BY <1>3 DEF Judgement, Holds, GivenUp, Reproduces
<1>6. Judged' = Judged
  <2>1. at - 1 = Size /\ at' - 1 = Size
    BY <1>1, <1>2, <1>3
  <2> QED
    BY <1>5, <2>1 DEF Judged
<1>7. Judged = [i \in 1..Size |-> Judgement(i)]
  BY <1>1, <1>2 DEF Judged
<1> DEFINE given == {Judgement(i) : i \in 1..Size}
<1>8. exit' = Promise!StatusOf(given)
  <2>1. pass \in Nat /\ fail \in Nat /\ Tally
    BY DEF CheckInv, TypeOK
  <2>2. \A i \in DOMAIN vectors : i < at
    BY <1>1, <1>2
  <2>3. CASE fail > 0
    <3>1. \E i \in 1..Size : Judgement(i) = "fails"
      BY <1>1, <2>1, <2>3 DEF Tally, Judgement
    <3>2. "fails" \in given
      BY <3>1
    <3>3. exit' = 1
      BY <2>1, <2>3 DEF Finish
    <3> QED
      BY <3>2, <3>3 DEF Promise!StatusOf
  <2>4. CASE fail = 0 /\ pass > 0
    <3>1. \A i \in 1..Size : Judgement(i) # "fails"
      BY <1>1, <2>1, <2>2, <2>4 DEF Tally, Judgement
    <3>2. \E i \in 1..Size : Judgement(i) = "holds"
      BY <1>1, <2>1, <2>4 DEF Tally, Judgement
    <3>3. "fails" \notin given /\ "holds" \in given
      BY <3>1, <3>2
    <3>4. exit' = 0
      BY <2>1, <2>4 DEF Finish
    <3> QED
      BY <3>3, <3>4 DEF Promise!StatusOf
  <2>5. CASE fail = 0 /\ pass = 0
    <3>1. \A i \in 1..Size : Judgement(i) = "unable"
      BY <1>1, <2>1, <2>2, <2>5 DEF Tally, Judgement, Holds, GivenUp, Reproduces, Unable, Refused
    <3>2. "fails" \notin given /\ "holds" \notin given
      BY <3>1
    <3>3. exit' = 2
      BY <2>1, <2>5 DEF Finish
    <3> QED
      BY <3>2, <3>3 DEF Promise!StatusOf
  <2> QED
    BY <2>1, <2>3, <2>4, <2>5
<1>9. {Judged[i] : i \in 1..Size} = given
  BY <1>7
<1>10. exit = Running /\ DOMAIN Judged = 1..Size
  BY <1>7 DEF Finish, CheckInv
<1> QED
  BY <1>4, <1>6, <1>8, <1>9, <1>10 DEF Promise!Conclude, Judged, Size

-----------------------------------------------------------------------------
(* check implements Verdict: the loop judges one vector at a time on what   *)
(* it owes, and its exit status is what the judgements come to (cmd/check). *)
THEOREM ChecksAsPromised == ASSUME INTERRUPTS = 0 PROVE Spec => KeepsPromise
<1>1. Init => Promise!Init
  <2> SUFFICES ASSUME Init PROVE Promise!Init
    OBVIOUS
  <2>1. TypeOK
    BY InitCheckInv DEF CheckInv
  <2>2. Judged = Promise!None
    <3>1. at = 1
      BY DEF Init
    <3> QED
      BY <3>1 DEF Judged, Promise!None
  <2>3. Size \in Nat /\ exit = Running
    BY <2>1, SizeIsTheirNumber DEF Init
  <2> QED
    BY <2>2, <2>3 DEF Promise!Init, Judged, Size
<1>2. CheckInv /\ Place /\ [Next]_vars => [Promise!Next]_(Promise!vars)
  <2> SUFFICES ASSUME CheckInv, Place, [Next]_vars PROVE [Promise!Next]_(Promise!vars)
    OBVIOUS
  <2>1. CASE UNCHANGED vars
    BY <2>1, Zenon DEF vars, Promise!vars, Judgement, Holds, GivenUp, Reproduces
  <2> QED
    BY <2>1, StepsTurn, TurnJudges, RefusalRefuses, FinishConcludes DEF Promise!Next
<1>3. CheckInv /\ Place /\ [Next]_vars => Place'
  BY PlaceKept
<1> QED
  BY <1>1, <1>2, <1>3, PlaceInit, CheckCorrect, PTL DEF Spec, KeepsPromise, Promise!Spec
=============================================================================
