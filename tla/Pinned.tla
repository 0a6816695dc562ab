------------------------------- MODULE Pinned -------------------------------
(***************************************************************************)
(* How tools/gen makes the reference answer the same in every run: blocks   *)
(* that replace the clock, the sources of randomness, Packet.send, Thread   *)
(* and more for their length, and put back what they found.  They stand in  *)
(* one another, an exception leaves all of them, and one of them replaces   *)
(* its name before its try begins.                                          *)
(***************************************************************************)
EXTENDS Naturals, Sequences, FiniteSets

CONSTANTS
  Encloses,     \* for each kind of block, and the top, which may open in it
  BLOCKS,       \* how many blocks a run opens
  DRAWN         \* how many bytes a block may draw

(* What pinned draws from, and how much at a time *)
Takes == [urandom |-> 16, random_hash |-> 16, ratchet |-> 32,
          identity_x25519 |-> 32, link_x25519 |-> 32, link_ed25519 |-> 32]
Sources == DOMAIN Takes

Binds == [pinned |-> Sources \union {"time"}, captured |-> {"send"},
          inline_threads |-> {"Thread"}, watchdog |-> {"watchdog_job"},
          pad |-> {"pad"}, path_request |-> {"path_request"}]
Kinds == DOMAIN Binds
Names == UNION {Binds[k] : k \in Kinds}
Real == 0       \* what a name holds: the number of a block, or the real thing

ASSUME BLOCKSAssumption == BLOCKS \in Nat
ASSUME EnclosesAssumption == Encloses \in [Kinds \union {"top"} -> SUBSET Kinds]

VARIABLES
  current,      \* what each name holds
  stack,        \* the open blocks: [block, kind, found, guarded]
  opened,       \* how many there were
  rng,          \* the DetRandom of each: [counter, buf], and what was drawn
  saw,          \* the last call: a name, whose value it found, the bytes drawn
  raising       \* an exception is on its way out
vars == <<current, stack, opened, rng, saw, raising>>

-----------------------------------------------------------------------------
(* DetRandom.  A byte is its place in the stream of its seed; each hash is  *)
(* 32 of them.                                                              *)
HASH == 32
Fresh == [counter |-> 0, buf |-> <<>>, drawn |-> 0]
Forgetful(r, n) ==                     \* what is left of a hash is dropped
  LET r1 == r.counter + (n + HASH - 1) \div HASH
  IN [out |-> [i \in 1..n |-> r.counter * HASH + i],
      rng |-> [counter |-> r1, buf |-> <<>>, drawn |-> r.drawn + n]]

(* bytes: hash as long as there are too few, and keep the rest *)
Bytes(r, n) ==
  LET hashes == IF Len(r.buf) >= n THEN 0 ELSE (n - Len(r.buf) + HASH - 1) \div HASH
      buf == r.buf \o [i \in 1..(hashes * HASH) |-> r.counter * HASH + i]
  IN [out |-> SubSeq(buf, 1, n),
      rng |-> [counter |-> r.counter + hashes, buf |-> SubSeq(buf, n + 1, Len(buf)),
               drawn |-> r.drawn + n]]

-----------------------------------------------------------------------------
Top == stack[Len(stack)]
Where == IF stack = <<>> THEN "top" ELSE Top.kind
Popped == SubSeq(stack, 1, Len(stack) - 1)

Init ==
  /\ current = [n \in Names |-> Real]
  /\ stack = <<>> /\ opened = 0 /\ rng = [b \in 1..BLOCKS |-> Fresh]
  /\ saw = [name |-> "nothing", owner |-> Real, bytes |-> <<>>]
  /\ raising = FALSE

(* pinned puts back what it draws from, and leaves the clock *)
OpenSavingSources(kind) ==
  /\ ~raising /\ opened < BLOCKS /\ kind \in Encloses[Where]
  /\ opened' = opened + 1
  /\ stack' = Append(stack,
       [block |-> opened', kind |-> kind, guarded |-> kind # "watchdog",
        found |-> [n \in Binds[kind] \ {"time"} |-> current[n]]])
  /\ current' = [n \in Names |-> IF n \in Binds[kind] THEN opened' ELSE current[n]]
  /\ UNCHANGED <<rng, saw, raising>>

(* A block saves what it finds under its names, replaces it, and only then  *)
(* comes to its try; but what can raise stands between the two only where   *)
(* the watchdog is replaced, since link_session is called there.            *)
Open(kind) ==
  /\ ~raising /\ opened < BLOCKS /\ kind \in Encloses[Where]
  /\ opened' = opened + 1
  /\ stack' = Append(stack,
       [block |-> opened', kind |-> kind, guarded |-> kind # "watchdog",
        found |-> [n \in Binds[kind] |-> current[n]]])
  /\ current' = [n \in Names |-> IF n \in Binds[kind] THEN opened' ELSE current[n]]
  /\ UNCHANGED <<rng, saw, raising>>

Try ==
  /\ ~raising /\ stack # <<>> /\ ~Top.guarded
  /\ stack' = [stack EXCEPT ![Len(stack)].guarded = TRUE]
  /\ UNCHANGED <<current, opened, rng, saw, raising>>

RestoreAllButOne ==                    \* the last line of pinned's finally
  [n \in Names |-> IF n \in Binds[Top.kind] \ {"link_ed25519"} THEN Top.found[n] ELSE current[n]]

(* what the finally of a block puts back *)
Restored ==
  [n \in Names |-> IF n \in Binds[Top.kind] THEN Top.found[n] ELSE current[n]]

CloseOnReturn ==                       \* a block without a finally
  /\ stack # <<>> /\ Top.guarded
  /\ stack' = Popped /\ current' = IF raising THEN current ELSE Restored
  /\ rng' = [rng EXCEPT ![Top.block] = Fresh]
  /\ UNCHANGED <<opened, saw, raising>>

(* The end of a block, where it returns or an exception passes through it.  *)
(* Its generator is nobody's from then on.                                  *)
Close ==
  /\ stack # <<>> /\ Top.guarded
  /\ stack' = Popped /\ current' = Restored
  /\ rng' = [rng EXCEPT ![Top.block] = Fresh]
  /\ UNCHANGED <<opened, saw, raising>>

(* No finally is reached from in front of the try. *)
Abandon ==
  /\ raising /\ stack # <<>> /\ ~Top.guarded
  /\ stack' = Popped
  /\ UNCHANGED <<current, opened, rng, saw, raising>>

(* The reference draws from a source: from its own, or from the generator   *)
(* of the block whose replacement stands there.                             *)
Draw(source) ==
  /\ ~raising
  /\ \/ /\ current[source] = Real
        /\ saw' = [name |-> source, owner |-> Real, bytes |-> <<>>]
        /\ UNCHANGED rng
     \/ LET owner == current[source]
            drew == Bytes(rng[owner], Takes[source])
        IN /\ owner # Real
           /\ rng[owner].drawn + Takes[source] <= DRAWN
           /\ saw' = [name |-> source, owner |-> owner, bytes |-> drew.out]
           /\ rng' = [rng EXCEPT ![owner] = drew.rng]
  /\ UNCHANGED <<current, stack, opened, raising>>

(* It reads the clock, sends a packet, starts a thread and so on. *)
Call(name) ==
  /\ ~raising /\ name \in Names \ Sources
  /\ saw' = [name |-> name, owner |-> current[name], bytes |-> <<>>]
  /\ UNCHANGED <<current, stack, opened, rng, raising>>

(* Nothing in gen catches what leaves a block, so the run is over with it. *)
Raise ==
  /\ ~raising /\ raising' = TRUE
  /\ UNCHANGED <<current, stack, opened, rng, saw>>

Next ==
  \/ \E kind \in Kinds : Open(kind)
  \/ Try \/ Close \/ Abandon \/ Raise
  \/ \E source \in Sources : Draw(source)
  \/ \E name \in Names : Call(name)

Spec == Init /\ [][Next]_vars

-----------------------------------------------------------------------------
Blocks == 1..BLOCKS
IsFrame(f) ==
  /\ f.block \in Blocks /\ f.kind \in Kinds /\ f.guarded \in BOOLEAN
  /\ f.found \in [Binds[f.kind] -> {Real} \union Blocks]
TypeOK ==
  /\ current \in [Names -> {Real} \union Blocks]
  /\ \A i \in 1..Len(stack) : IsFrame(stack[i])
  /\ opened \in 0..BLOCKS /\ raising \in BOOLEAN
  /\ \A b \in Blocks : rng[b].counter \in Nat /\ rng[b].drawn \in Nat
  /\ saw.name \in Names \union {"nothing"} /\ saw.owner \in {Real} \union Blocks

(* Saving, replacing and putting back comes to what a reader of a with      *)
(* statement takes it for: every call finds under a name what the innermost *)
(* open block has put there, and the real thing where no block has, in      *)
(* whatever way the blocks before it ended (tools/gen:233, 1871, 2675).     *)
Scoped == INSTANCE Bindings WITH
  open <- [i \in 1..Len(stack) |-> [block |-> stack[i].block, names |-> Binds[stack[i].kind]]],
  saw <- [name |-> saw.name, owner |-> saw.owner]
FindsTheInnermost == Scoped!Spec

(* With no block open everything is the reference's own again, so no vector *)
(* depends on which kinds were generated before it; and an exception that   *)
(* ends the run leaves nothing replaced but the watchdog of a link that     *)
(* could not be established (tools/gen:276, 2676).                          *)
EverythingBack ==
  stack = <<>> =>
    \A n \in Names : current[n] = Real \/ (raising /\ n = "watchdog_job")

(* What a block draws is the stream of its tag from the first byte on, none *)
(* left out and none twice, however the draws cut it and whatever another   *)
(* block drew: "so that regenerating a vector produces the same bytes"      *)
(* (tools/gen:207).                                                         *)
StreamUnbroken ==
  [][\A b \in Blocks :
       rng'[b].drawn > rng[b].drawn =>
         saw'.bytes = [i \in 1..(rng'[b].drawn - rng[b].drawn) |-> rng[b].drawn + i]]_vars
=============================================================================
