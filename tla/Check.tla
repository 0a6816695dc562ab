------------------------------- MODULE Check -------------------------------
(***************************************************************************)
(* cmd/check: every vector of the corpus against a decoder, and one exit    *)
(* status for all of it.                                                    *)
(*                                                                          *)
(* The decoder is anybody's program, so it answers anything: it prints the  *)
(* right lines, other lines, or the right ones with other newlines at their *)
(* end, which $( ) takes off; it gives up a kind with 77, fails, or never   *)
(* answers.  A signal ends the command that is running and not check, whose *)
(* trap removes a file and does not exit.                                   *)
(***************************************************************************)
EXTENDS Naturals

CONSTANTS
  N,                \* how many vectors test/ may hold
  INTERRUPTS        \* how many signals a run may be sent

ASSUME NAssumption == N \in Nat

(* The meta of a vector: not there, without all its fields, of a class      *)
(* nobody knows, or of one of the two.  tidy: expect is in the format.      *)
Metas == {"none", "incomplete", "unknown", "decode", "encode"}
Vectors == [meta : Metas, tidy : BOOLEAN]

Answered == [status : {0}, said : {"same", "newlines", "other"}]
Refused(status) == [status |-> status, said |-> "nothing"]
Unable == Refused(77)
TooLate == Refused(124)       \* what timeout exits with
Cut == Refused(130)           \* what a signal does, and what nobody asked says
Answers == Answered \union {Refused(1), Unable, TooLate, Cut}

Running == 3                  \* no exit status yet

VARIABLES
  vectors,          \* what is under test/
  setup,            \* what check finds before it starts
  encode,           \* ENCODE: whether the round trip is asked for
  timeout, obeys,   \* there is a timeout program, and the decoder heeds it
  signals,          \* how many signals came
  pc, at,           \* the step, and the vector it is at
  decoded, rebuilt, \* what the decoder answered for each vector
  pass, fail, skip,
  exit
corpus == <<vectors, setup, encode, timeout, obeys>>
counters == <<pass, fail, skip>>
vars == <<vectors, setup, encode, timeout, obeys, signals, pc, at, decoded, rebuilt,
          pass, fail, skip, exit>>

Init ==
  /\ vectors \in UNION {[1..n -> Vectors] : n \in 0..N}
  /\ setup \in {"no dump", "no INDEX", "INDEX differs", "ready"}
  /\ encode \in BOOLEAN /\ timeout \in BOOLEAN /\ obeys \in BOOLEAN
  /\ signals = 0 /\ pc = "start" /\ at = 1
  /\ decoded = [i \in DOMAIN vectors |-> Cut] /\ rebuilt = decoded
  /\ pass = 0 /\ fail = 0 /\ skip = 0 /\ exit = Running

-----------------------------------------------------------------------------
(* How a turn of the loop ends, or goes on. *)
Passed == pc' = "loop" /\ at' = at + 1 /\ pass' = pass + 1 /\ UNCHANGED <<fail, skip>>
Failed == pc' = "loop" /\ at' = at + 1 /\ fail' = fail + 1 /\ UNCHANGED <<pass, skip>>
SkippedAsPassed == pc' = "loop" /\ at' = at + 1 /\ pass' = pass + 1 /\ UNCHANGED <<fail, skip>>
Skipped == pc' = "loop" /\ at' = at + 1 /\ skip' = skip + 1 /\ UNCHANGED <<pass, fail>>
Onto(step) == pc' = step /\ UNCHANGED <<at, pass, fail, skip>>

Signal == signals < INTERRUPTS /\ signals' = signals + 1

(* run: the decoder answers, is stopped after thirty seconds, or is hit *)
Run(a) ==
  \/ a \in Answered \union {Refused(1), Unable} /\ UNCHANGED signals
  \/ a = TooLate /\ timeout /\ obeys /\ UNCHANGED signals
  \/ a = Cut /\ Signal

(* diff against a file: what is asked is whether it printed anything, and   *)
(* one that was cut short did not.                                          *)
Diff(a, cut, shows) ==
  \/ ~cut /\ shows = (a.said = "other") /\ UNCHANGED signals
  \/ cut /\ ~shows /\ Signal

(* No program, no INDEX, or other directories than the ones it lists. *)
Refuse ==
  /\ pc = "start" /\ setup # "ready"
  /\ pc' = "done" /\ exit' = 2
  /\ UNCHANGED <<corpus, signals, at, decoded, rebuilt, counters>>

(* What the diff against INDEX printed is all that is asked of it, and one  *)
(* that was cut short printed nothing.                                      *)
Start(cut) ==
  /\ pc = "start"
  /\ setup = "ready" \/ (cut /\ setup = "INDEX differs")
  /\ IF cut THEN Signal ELSE UNCHANGED signals
  /\ pc' = "loop"
  /\ UNCHANGED <<corpus, at, decoded, rebuilt, counters, exit>>

ReadMeta ==
  /\ pc = "loop" /\ at \in DOMAIN vectors
  /\ IF vectors[at].meta \in {"decode", "encode"} THEN Onto("decode") ELSE Failed
  /\ UNCHANGED <<corpus, signals, decoded, rebuilt, exit>>

(* dump kind raw *)
Decode(a) ==
  /\ pc = "decode"
  /\ Run(a) /\ decoded' = [decoded EXCEPT ![at] = a]
  /\ IF a = Unable THEN Skipped ELSE IF a.status # 0 THEN Failed ELSE Onto("compare")
  /\ UNCHANGED <<corpus, rebuilt, exit>>

(* check_format, and the diff against expect *)
Compare(cut, shows) ==
  /\ pc = "compare"
  /\ Diff(decoded[at], cut, shows)
  /\ IF ~vectors[at].tidy \/ shows THEN Failed
     ELSE IF encode THEN Onto("rebuild") ELSE Passed
  /\ UNCHANGED <<corpus, decoded, rebuilt, exit>>

(* dump -e kind expect.  Not to answer fails a vector of the encode class   *)
(* and is all that one of the decode class asks.                            *)
Rebuild(a) ==
  /\ pc = "rebuild"
  /\ Run(a) /\ rebuilt' = [rebuilt EXCEPT ![at] = a]
  /\ IF a.status = 0 THEN Onto("compare raw")
     ELSE IF vectors[at].meta = "encode" THEN Failed ELSE Passed
  /\ UNCHANGED <<corpus, decoded, exit>>

CompareRawOneWay(cut, shows) ==     \* the decode class is not held to anything
  /\ pc = "compare raw"
  /\ Diff(rebuilt[at], cut, shows)
  /\ IF shows /\ vectors[at].meta = "encode" THEN Failed ELSE Passed
  /\ UNCHANGED <<corpus, decoded, rebuilt, exit>>

(* the diff against raw, which should show something for the decode class *)
CompareRaw(cut, shows) ==
  /\ pc = "compare raw"
  /\ Diff(rebuilt[at], cut, shows)
  /\ IF shows = (vectors[at].meta = "encode") THEN Failed ELSE Passed
  /\ UNCHANGED <<corpus, decoded, rebuilt, exit>>

HangUnlimited ==                    \* run has no limit, timeout or not
  /\ pc \in {"decode", "rebuild"}
  /\ pc' = "hung"
  /\ UNCHANGED <<corpus, signals, at, decoded, rebuilt, counters, exit>>

(* Nobody stops a decoder that does not answer: check waits for it. *)
Hang ==
  /\ pc \in {"decode", "rebuild"} /\ ~(timeout /\ obeys)
  /\ pc' = "hung"
  /\ UNCHANGED <<corpus, signals, at, decoded, rebuilt, counters, exit>>

FinishWithLastStatus ==             \* nothing is said behind the loop
  /\ pc = "loop" /\ at \notin DOMAIN vectors
  /\ pc' = "done"
  /\ exit' = IF at = 1 THEN 0 ELSE decoded[at - 1].status
  /\ UNCHANGED <<corpus, signals, at, decoded, rebuilt, counters>>

FinishOnPasses ==                   \* failures are not a measurement
  /\ pc = "loop" /\ at \notin DOMAIN vectors
  /\ pc' = "done"
  /\ exit' = IF pass = 0 THEN 2 ELSE IF fail = 0 THEN 0 ELSE 1
  /\ UNCHANGED <<corpus, signals, at, decoded, rebuilt, counters>>

(* The lines behind the loop: nothing seen and nothing measured are both 2. *)
Finish ==
  /\ pc = "loop" /\ at \notin DOMAIN vectors
  /\ pc' = "done"
  /\ exit' = IF pass = 0 /\ fail = 0 THEN 2 ELSE IF fail = 0 THEN 0 ELSE 1
  /\ UNCHANGED <<corpus, signals, at, decoded, rebuilt, counters>>

Next ==
  \/ Refuse \/ ReadMeta \/ Finish \/ Hang
  \/ \E cut \in BOOLEAN : Start(cut)
  \/ \E a \in Answers : Decode(a) \/ Rebuild(a)
  \/ \E cut, shows \in BOOLEAN : Compare(cut, shows) \/ CompareRaw(cut, shows)

(* check is one loop over a list that does not grow; every command but the  *)
(* decoder ends by itself.                                                  *)
Spec == Init /\ [][Next]_vars /\ WF_vars(Next)

-----------------------------------------------------------------------------
TypeOK ==
  /\ \E n \in 0..N : vectors \in [1..n -> Vectors]
  /\ setup \in {"no dump", "no INDEX", "INDEX differs", "ready"}
  /\ encode \in BOOLEAN /\ timeout \in BOOLEAN /\ obeys \in BOOLEAN
  /\ signals \in Nat /\ at \in Nat \ {0}
  /\ pc \in {"start", "loop", "decode", "compare", "rebuild", "compare raw", "hung", "done"}
  /\ decoded \in [DOMAIN vectors -> Answers] /\ rebuilt \in [DOMAIN vectors -> Answers]
  /\ pass \in Nat /\ fail \in Nat /\ skip \in Nat
  /\ exit \in {0, 1, 2, Running}

(* What a decoder owes a vector, as README has it: the lines of expect and, *)
(* for the encode class and no other, raw back.                             *)
Reproduces(a) == a.status = 0 /\ a.said # "other"
Holds(i) ==
  /\ vectors[i].meta \in {"decode", "encode"} /\ vectors[i].tidy
  /\ Reproduces(decoded[i])
  /\ encode => (Reproduces(rebuilt[i]) <=> vectors[i].meta = "encode")
GivenUp(i) == vectors[i].meta \in {"decode", "encode"} /\ decoded[i] = Unable

(* "Exits non-zero if any vector fails" (cmd/check:21): an exit of 0 is the *)
(* word that every vector a decoder did not give up holds, both ways round, *)
(* and that some vector did.                                                *)
ZeroMeansAllHold ==
  exit = 0 =>
    /\ \A i \in DOMAIN vectors : Holds(i) \/ GivenUp(i)
    /\ \E i \in DOMAIN vectors : Holds(i)

(* An exit of 1 is the decoder's or the corpus's fault, and 2 is nobody's:  *)
(* "exits 2 when it could not measure anything at all" (doc/harness:134).   *)
TwoMeansNothingMeasured ==
  /\ exit = 2 => setup # "ready" \/ \A i \in DOMAIN vectors : GivenUp(i)
  /\ exit = 1 => \E i \in DOMAIN vectors : ~Holds(i) /\ ~GivenUp(i)

(* The judgement of a vector, from what the decoder answered for it. *)
Judgement(i) == IF Holds(i) THEN "holds" ELSE IF GivenUp(i) THEN "unable" ELSE "fails"

(* check is an implementation of Verdict, with the counters and the steps   *)
(* of a turn left out: a vector is judged when the loop goes on to the next *)
(* one, on what it owes and not on which line let it go, no answer read     *)
(* later changes the judgement of an earlier vector, and the exit status is *)
(* what the judgements come to ("Exits non-zero if any vector fails",       *)
(* cmd/check:21).                                                           *)
Promise == INSTANCE Verdict WITH
  Undecided <- Running,
  size <- CHOOSE n \in 0..N : DOMAIN vectors = 1..n,
  judged <- [i \in 1..(at - 1) |-> Judgement(i)],
  status <- exit
KeepsPromise == Promise!Spec

(* A decoder that never answers costs its vector and not the run, where     *)
(* timeout is installed and the decoder ends when it is told to.            *)
Ends == timeout /\ obeys => <>(pc = "done")
=============================================================================
