---------------------------- MODULE PinnedProofs ----------------------------
(***************************************************************************)
(* The blocks of tools/gen scope what they replace, in whatever order and   *)
(* however deep they are opened in one another.                             *)
(***************************************************************************)
EXTENDS Pinned, SequenceTheorems, TLAPS

Frame == [block : Blocks, kind : Kinds, guarded : BOOLEAN,
          found : UNION {[Binds[k] -> {Real} \union Blocks] : k \in Kinds}]

(* owner is what the first d blocks of s have put under name *)
OwnerIn(s, d, name, owner) ==
  \/ owner = Real /\ \A i \in 1..d : name \notin Binds[s[i].kind]
  \/ \E i \in 1..d :
       /\ owner = s[i].block /\ name \in Binds[s[i].kind]
       /\ \A j \in 1..d : j > i => name \notin Binds[s[j].kind]

(* Each block has saved what the blocks around it put there, and what is    *)
(* there is what all of them did; but for the watchdog, once an exception   *)
(* has passed a try it was not in.                                          *)
Chain ==
  /\ stack \in Seq(Frame)
  /\ \A i \in 1..Len(stack) : DOMAIN stack[i].found = Binds[stack[i].kind]
  /\ \A i \in 1..Len(stack) : stack[i].kind # "watchdog" => stack[i].guarded = TRUE
  /\ \A i \in 1..Len(stack) : \A n \in Binds[stack[i].kind] :
       OwnerIn(stack, i - 1, n, stack[i].found[n])
  /\ \A n \in Names :
       OwnerIn(stack, Len(stack), n, current[n]) \/ (raising /\ n = "watchdog_job")

ScopeInv ==
  /\ current \in [Names -> {Real} \union Blocks]
  /\ opened \in 0..BLOCKS /\ raising \in BOOLEAN
  /\ saw.name \in Names \union {"nothing"} /\ saw.owner \in {Real} \union Blocks
  /\ Chain

-----------------------------------------------------------------------------
LEMMA BindsAreNames == \A k \in Kinds : Binds[k] \subseteq Names
  BY DEF Names

LEMMA WatchdogOnly ==
  /\ "watchdog" \in Kinds
  /\ \A n \in Binds["watchdog"] : n = "watchdog_job"
  BY DEF Kinds, Binds

LEMMA SourcesAreNames == Sources \subseteq Names
<1>1. "pinned" \in Kinds /\ Sources \subseteq Binds["pinned"]
  BY DEF Kinds, Binds
<1> QED
  BY <1>1, BindsAreNames

(* Whose a name is depends on the blocks that are counted and no others.    *)
LEMMA SamePrefix ==
  ASSUME NEW s, NEW t, NEW d \in Nat, NEW n, NEW o,
         \A i \in 1..d : s[i].block = t[i].block /\ s[i].kind = t[i].kind,
         OwnerIn(s, d, n, o)
  PROVE  OwnerIn(t, d, n, o)
  BY DEF OwnerIn

(* One more block owns what it replaces, and nothing else.                  *)
LEMMA OneMore ==
  ASSUME NEW s, NEW d \in Nat, NEW n, NEW o, OwnerIn(s, d, n, o),
         n \notin Binds[s[d + 1].kind]
  PROVE  OwnerIn(s, d + 1, n, o)
  BY DEF OwnerIn

LEMMA TheLast ==
  ASSUME NEW s, NEW d \in Nat, NEW n, n \in Binds[s[d + 1].kind]
  PROVE  OwnerIn(s, d + 1, n, s[d + 1].block)
  BY DEF OwnerIn

LEMMA OneLess ==
  ASSUME NEW s, NEW d \in Nat, NEW n, NEW o, OwnerIn(s, d + 1, n, o),
         n \notin Binds[s[d + 1].kind]
  PROVE  OwnerIn(s, d, n, o)
  BY DEF OwnerIn

-----------------------------------------------------------------------------
LEMMA InitScopeInv == Init => ScopeInv
<1> SUFFICES ASSUME Init PROVE ScopeInv
  OBVIOUS
<1>1. stack = <<>> /\ Len(stack) = 0 /\ opened = 0 /\ raising = FALSE
  BY DEF Init
<1>2. current \in [Names -> {Real} \union Blocks] /\ \A n \in Names : current[n] = Real
  BY DEF Init
<1>3. \A n \in Names : OwnerIn(stack, 0, n, current[n])
  BY <1>2 DEF OwnerIn
<1>4. Chain
  <2>1. stack \in Seq(Frame) /\ 1..Len(stack) = {}
    BY <1>1, EmptySeq
  <2> QED
    BY <1>1, <1>3, <2>1, Zenon DEF Chain
<1>5. saw.name = "nothing" /\ saw.owner = Real
  BY DEF Init
<1>6. opened \in 0..BLOCKS
  BY <1>1, BLOCKSAssumption
<1>7. raising \in BOOLEAN
  BY <1>1, Zenon
<1> QED
  BY <1>2, <1>4, <1>5, <1>6, <1>7, Zenon DEF ScopeInv

LEMMA OpenPushes ==
  ASSUME ScopeInv, NEW kind \in Kinds, Open(kind)
  PROVE  /\ stack' \in Seq(Frame) /\ Len(stack') = Len(stack) + 1
         /\ \A i \in 1..Len(stack) : stack'[i] = stack[i]
         /\ stack'[Len(stack) + 1] =
              [block |-> opened', kind |-> kind, guarded |-> kind # "watchdog",
               found |-> [n \in Binds[kind] |-> current[n]]]
<1> DEFINE f == [block |-> opened', kind |-> kind, guarded |-> kind # "watchdog",
                 found |-> [n \in Binds[kind] |-> current[n]]]
<1>1. opened' \in Blocks
  BY BLOCKSAssumption DEF Open, ScopeInv, Blocks
<1>2. f.found \in [Binds[kind] -> {Real} \union Blocks]
  BY BindsAreNames DEF ScopeInv
<1>3. f \in Frame
  <2>1. f.found \in UNION {[Binds[k] -> {Real} \union Blocks] : k \in Kinds}
    BY <1>2
  <2>2. (kind # "watchdog") \in BOOLEAN
    OBVIOUS
  <2> HIDE DEF Kinds
  <2> QED
    BY <1>1, <2>1, <2>2, Zenon DEF Frame
<1>4. stack' = Append(stack, f) /\ stack \in Seq(Frame)
  BY DEF Open, ScopeInv, Chain
<1> QED
  BY <1>3, <1>4

LEMMA OpenKeepsChain ==
  ASSUME ScopeInv, NEW kind \in Kinds, Open(kind)
  PROVE  Chain'
<1> DEFINE d == Len(stack)
<1>1. /\ stack' \in Seq(Frame) /\ Len(stack') = d + 1
      /\ \A i \in 1..d : stack'[i] = stack[i]
      /\ stack'[d + 1] = [block |-> opened', kind |-> kind, guarded |-> kind # "watchdog",
                          found |-> [n \in Binds[kind] |-> current[n]]]
  BY OpenPushes
<1>2. d \in Nat /\ Chain /\ ~raising /\ raising' = raising
  BY DEF ScopeInv, Chain, Open
<1>3. current' = [n \in Names |-> IF n \in Binds[kind] THEN opened' ELSE current[n]]
  BY DEF Open
<1>4. \A n \in Names : OwnerIn(stack, d, n, current[n])
  BY <1>2 DEF Chain
<1>5. \A n \in Names : OwnerIn(stack', d, n, current[n])
  BY <1>1, <1>2, <1>4, SamePrefix
<1>6. \A i \in 1..(d + 1) : DOMAIN stack'[i].found = Binds[stack'[i].kind]
  BY <1>1, <1>2 DEF Chain
<1>7. \A i \in 1..(d + 1) : stack'[i].kind # "watchdog" => stack'[i].guarded = TRUE
  <2>1. \A i \in 1..d : stack'[i].kind # "watchdog" => stack'[i].guarded = TRUE
    BY <1>1, <1>2 DEF Chain
  <2>2. stack'[d + 1].kind = kind /\ stack'[d + 1].guarded = (kind # "watchdog")
    BY <1>1
  <2>3. kind # "watchdog" => stack'[d + 1].guarded = TRUE
    BY <2>2, Zenon
  <2>4. \A i \in 1..(d + 1) : i \in 1..d \/ i = d + 1
    BY <1>2
  <2> QED
    BY <2>1, <2>2, <2>3, <2>4, Zenon
<1>8. ASSUME NEW i \in 1..(d + 1), NEW n \in Binds[stack'[i].kind]
      PROVE  OwnerIn(stack', i - 1, n, stack'[i].found[n])
  <2>1. CASE i = d + 1
    <3>1. n \in Binds[kind] /\ stack'[i].found[n] = current[n] /\ n \in Names
      BY <1>1, <2>1, BindsAreNames
    <3> QED
      BY <1>2, <1>5, <2>1, <3>1
  <2>2. CASE i \in 1..d
    <3>1. stack'[i] = stack[i] /\ i - 1 \in Nat
      BY <1>1, <2>2
    <3>2. OwnerIn(stack, i - 1, n, stack[i].found[n])
      BY <1>2, <2>2, <3>1 DEF Chain
    <3>3. \A j \in 1..(i - 1) : stack'[j] = stack[j]
      BY <1>1, <1>2, <2>2
    <3> QED
      BY <3>1, <3>2, <3>3, SamePrefix
  <2> QED
    BY <1>2, <2>1, <2>2
<1>9. ASSUME NEW n \in Names
      PROVE  OwnerIn(stack', d + 1, n, current'[n])
  <2>1. CASE n \in Binds[kind]
    <3>1. current'[n] = opened' /\ stack'[d + 1].block = opened' /\ n \in Binds[stack'[d + 1].kind]
      BY <1>1, <1>3, <2>1
    <3> QED
      BY <1>2, <3>1, TheLast
  <2>2. CASE n \notin Binds[kind]
    BY <1>1, <1>2, <1>3, <1>5, <2>2, OneMore
  <2> QED
    BY <2>1, <2>2
<1> QED
  BY <1>1, <1>6, <1>7, <1>8, <1>9 DEF Chain

-----------------------------------------------------------------------------
LEMMA PopKeeps ==
  ASSUME Chain, stack # <<>>, stack' = Popped
  PROVE  /\ Len(stack) \in Nat \ {0} /\ stack' \in Seq(Frame) /\ Len(stack') = Len(stack) - 1
         /\ \A i \in 1..(Len(stack) - 1) : stack'[i] = stack[i]
<1>1. stack \in Seq(Frame)
  BY DEF Chain
<1>2. Len(stack) \in Nat \ {0} /\ stack \in [1..Len(stack) -> Frame]
  BY <1>1, EmptySeq, LenProperties
<1>3. \A i \in 1..(Len(stack) - 1) : stack[i] \in Frame
  BY <1>2
<1>4. 1 \in Int /\ Len(stack) - 1 \in Int
  BY <1>2
<1>5. /\ Popped \in Seq(Frame)
      /\ Len(Popped) = IF 1 <= Len(stack) - 1 THEN (Len(stack) - 1) - 1 + 1 ELSE 0
      /\ \A i \in 1..((Len(stack) - 1) - 1 + 1) : Popped[i] = stack[1 + i - 1]
  BY <1>3, <1>4, SubSeqProperties DEF Popped
<1>6. Len(Popped) = Len(stack) - 1
  <2> DEFINE n == Len(stack)
  <2>1. n \in Nat /\ n >= 1
    <3>1. n \in Nat /\ n # 0
      BY <1>2, Zenon
    <3> HIDE DEF n
    <3> QED
      BY <3>1
  <2>2. Len(Popped) = IF 1 <= n - 1 THEN (n - 1) - 1 + 1 ELSE 0
    BY <1>5
  <2> HIDE DEF n
  <2>3. Len(Popped) = n - 1
    BY <2>1, <2>2
  <2> QED
    BY <2>3 DEF n
<1>7. \A i \in 1..(Len(stack) - 1) : Popped[i] = stack[i]
  <2> TAKE i \in 1..(Len(stack) - 1)
  <2>1. i \in 1..((Len(stack) - 1) - 1 + 1) /\ 1 + i - 1 = i
    BY <1>2
  <2>2. Popped[i] = stack[1 + i - 1]
    BY <1>5, <2>1
  <2> QED
    BY <2>1, <2>2
<1> QED
  BY <1>2, <1>5, <1>6, <1>7

(* The end of a block, whether or not it puts anything back: the blocks     *)
(* that stay open have still saved what they should.                        *)
LEMMA PopKeepsChain ==
  ASSUME Chain, stack # <<>>, stack' = Popped,
         \A n \in Names : OwnerIn(stack', Len(stack'), n, current'[n])
                            \/ (raising' /\ n = "watchdog_job")
  PROVE  Chain'
<1>1. /\ Len(stack) \in Nat \ {0} /\ stack' \in Seq(Frame) /\ Len(stack') = Len(stack) - 1
      /\ \A i \in 1..(Len(stack) - 1) : stack'[i] = stack[i]
  BY PopKeeps
<1>2. \A i \in 1..Len(stack') : DOMAIN stack'[i].found = Binds[stack'[i].kind]
  BY <1>1 DEF Chain
<1>3. \A i \in 1..Len(stack') : stack'[i].kind # "watchdog" => stack'[i].guarded = TRUE
  BY <1>1 DEF Chain
<1>4. ASSUME NEW i \in 1..Len(stack'), NEW n \in Binds[stack'[i].kind]
      PROVE  OwnerIn(stack', i - 1, n, stack'[i].found[n])
  <2>1. stack'[i] = stack[i] /\ i - 1 \in Nat /\ i \in 1..Len(stack)
    BY <1>1
  <2>2. OwnerIn(stack, i - 1, n, stack[i].found[n])
    BY <2>1 DEF Chain
  <2>3. \A j \in 1..(i - 1) : stack'[j] = stack[j]
    BY <1>1, <2>1
  <2> QED
    BY <2>1, <2>2, <2>3, SamePrefix
<1> QED
  BY <1>1, <1>2, <1>3, <1>4 DEF Chain

LEMMA CloseKeepsChain == ASSUME ScopeInv, Close PROVE Chain'
<1> DEFINE d == Len(stack) - 1
<1>1. Chain /\ stack # <<>> /\ stack' = Popped /\ raising' = raising
  BY DEF Close, ScopeInv
<1>2. /\ Len(stack) \in Nat \ {0} /\ Len(stack') = d
      /\ \A i \in 1..d : stack'[i] = stack[i]
  BY <1>1, PopKeeps
<1>3. d \in Nat /\ d + 1 = Len(stack) /\ Len(stack) \in 1..Len(stack)
  BY <1>2
<1>4. current' = [n \in Names |-> IF n \in Binds[Top.kind] THEN Top.found[n] ELSE current[n]]
  BY DEF Close, Restored
<1>5. ASSUME NEW n \in Names
      PROVE  OwnerIn(stack', d, n, current'[n]) \/ (raising' /\ n = "watchdog_job")
  <2>1. CASE n \in Binds[Top.kind]
    <3>1. OwnerIn(stack, d, n, Top.found[n])
      BY <1>1, <1>3, <2>1 DEF Chain, Top
    <3> QED
      BY <1>2, <1>3, <1>4, <2>1, <3>1, SamePrefix, ZenonT(30)
  <2>2. CASE n \notin Binds[Top.kind] /\ OwnerIn(stack, Len(stack), n, current[n])
    <3>1. OwnerIn(stack, d, n, current[n])
      BY <1>3, <2>2, OneLess DEF Top
    <3>2. OwnerIn(stack', d, n, current[n])
      BY <1>2, <1>3, <3>1, SamePrefix
    <3> QED
      BY <1>4, <2>2, <3>2
  <2> QED
    BY <1>1, <2>1, <2>2 DEF Chain
<1> QED
  BY <1>1, <1>2, <1>5, PopKeepsChain

LEMMA AbandonKeepsChain == ASSUME ScopeInv, Abandon PROVE Chain'
<1> DEFINE d == Len(stack) - 1
<1>1. Chain /\ stack # <<>> /\ stack' = Popped /\ raising' /\ current' = current
  BY DEF Abandon, ScopeInv
<1>2. /\ Len(stack) \in Nat \ {0} /\ Len(stack') = d
      /\ \A i \in 1..d : stack'[i] = stack[i]
  BY <1>1, PopKeeps
<1>3. d \in Nat /\ d + 1 = Len(stack) /\ Len(stack) \in 1..Len(stack)
  BY <1>2
<1>4. ~Top.guarded
  BY DEF Abandon
<1>5. Top.kind = "watchdog"
  BY <1>1, <1>3, <1>4 DEF Chain, Top
<1>6. ASSUME NEW n \in Names, n # "watchdog_job"
      PROVE  OwnerIn(stack', d, n, current'[n])
  <2>1. n \notin Binds[stack[d + 1].kind]
    BY <1>3, <1>5, <1>6, WatchdogOnly DEF Top
  <2>2. OwnerIn(stack, d + 1, n, current[n])
    BY <1>1, <1>3, <1>6 DEF Chain
  <2>3. OwnerIn(stack, d, n, current[n])
    BY <1>3, <2>1, <2>2, OneLess
  <2> QED
    BY <1>1, <1>2, <1>3, <2>3, SamePrefix
<1> QED
  BY <1>1, <1>2, <1>6, PopKeepsChain

LEMMA TryKeepsChain ==
  ASSUME ScopeInv, Try
  PROVE  /\ Chain' /\ Len(stack') = Len(stack)
         /\ \A i \in 1..Len(stack) : /\ stack'[i].block = stack[i].block
                                     /\ stack'[i].kind = stack[i].kind
                                     /\ stack'[i].found = stack[i].found
<1>1. stack' = [stack EXCEPT ![Len(stack)].guarded = TRUE] /\ UNCHANGED <<current, raising>>
  BY DEF Try
<1>2. Chain /\ stack \in Seq(Frame) /\ stack # <<>>
  BY DEF ScopeInv, Chain, Try
<1>3. Len(stack) \in Nat \ {0} /\ stack \in [1..Len(stack) -> Frame]
  BY <1>2, EmptySeq, LenProperties
<1>4. \A i \in 1..Len(stack) : i # Len(stack) => stack'[i] = stack[i]
  BY <1>1, <1>3
<1>5. stack'[Len(stack)] = [stack[Len(stack)] EXCEPT !.guarded = TRUE]
  <2>1. Len(stack) \in DOMAIN stack
    BY <1>3
  <2> QED
    BY <1>1, <2>1, Zenon
<1>6. stack[Len(stack)] \in Frame
  BY <1>3
<1>7. /\ stack'[Len(stack)] \in Frame /\ stack'[Len(stack)].guarded = TRUE
      /\ stack'[Len(stack)].block = stack[Len(stack)].block
      /\ stack'[Len(stack)].kind = stack[Len(stack)].kind
      /\ stack'[Len(stack)].found = stack[Len(stack)].found
  BY <1>5, <1>6, Zenon DEF Frame
<1>8. stack' \in [1..Len(stack) -> Frame]
  BY <1>1, <1>3, <1>4, <1>7
<1>9. stack' \in Seq(Frame) /\ Len(stack') = Len(stack)
  BY <1>3, <1>8
<1>10. \A i \in 1..Len(stack) : /\ stack'[i].block = stack[i].block
                                /\ stack'[i].kind = stack[i].kind
                                /\ stack'[i].found = stack[i].found
  BY <1>4, <1>7, Zenon
<1>11. \A i \in 1..Len(stack) : stack'[i].kind # "watchdog" => stack'[i].guarded = TRUE
  BY <1>2, <1>4, <1>7, Zenon DEF Chain
<1>12. ASSUME NEW i \in 1..Len(stack), NEW n \in Binds[stack'[i].kind]
       PROVE  OwnerIn(stack', i - 1, n, stack'[i].found[n])
  <2>1. OwnerIn(stack, i - 1, n, stack[i].found[n])
    BY <1>2, <1>10 DEF Chain
  <2>2. i - 1 \in Nat /\ \A j \in 1..(i - 1) : j \in 1..Len(stack)
    BY <1>3
  <2> QED
    BY <1>10, <2>1, <2>2, SamePrefix
<1>13. \A n \in Names : OwnerIn(stack, Len(stack), n, current[n]) =>
                        OwnerIn(stack', Len(stack), n, current'[n])
  BY <1>1, <1>3, <1>10, SamePrefix
<1>14. \A i \in 1..Len(stack) : DOMAIN stack'[i].found = Binds[stack'[i].kind]
  BY <1>2, <1>10 DEF Chain
<1> QED
  BY <1>1, <1>2, <1>9, <1>10, <1>11, <1>12, <1>13, <1>14, Zenon DEF Chain

-----------------------------------------------------------------------------
(* What a call found is what the innermost block put there. *)
Shown == [name |-> saw.name, owner |-> saw.owner]
Shows(name) == saw'.name = name /\ saw'.owner = current[name]

LEMMA CallShows ==
  ASSUME ScopeInv, NEW name \in Names,
         Call(name) \/ (name \in Sources /\ Draw(name))
  PROVE  Shows(name) /\ ~raising /\ UNCHANGED <<current, stack, opened, raising>>
<1>1. CASE Call(name)
  BY <1>1 DEF Call, Shows
<1>2. CASE Draw(name)
  <2>1. UNCHANGED <<current, stack, opened, raising>> /\ ~raising
    BY <1>2, Zenon DEF Draw
  <2>2. \E b : saw' = [name |-> name, owner |-> current[name], bytes |-> b]
    BY <1>2 DEF Draw
  <2> QED
    BY <2>1, <2>2 DEF Shows
<1> QED
  BY <1>1, <1>2

LEMMA ScopeStep == ScopeInv /\ [Next]_vars => ScopeInv'
<1> SUFFICES ASSUME ScopeInv, [Next]_vars PROVE ScopeInv'
  OBVIOUS
<1>1. CASE \E kind \in Kinds : Open(kind)
  <2>1. PICK kind \in Kinds : Open(kind)
    BY <1>1
  <2>2. Chain'
    BY <2>1, OpenKeepsChain
  <2>3. opened' \in 0..BLOCKS /\ opened' \in Blocks
    BY <2>1, BLOCKSAssumption DEF Open, ScopeInv, Blocks
  <2>4. current' \in [Names -> {Real} \union Blocks]
    BY <2>1, <2>3 DEF Open, ScopeInv
  <2>5. raising' = raising /\ saw' = saw
    BY <2>1 DEF Open
  <2> QED
    BY <2>2, <2>3, <2>4, <2>5, Zenon DEF ScopeInv
<1>2. CASE Try
  <2>1. UNCHANGED <<current, opened, saw, raising>>
    BY <1>2 DEF Try
  <2> QED
    BY <1>2, <2>1, TryKeepsChain, Zenon DEF ScopeInv
<1>3. CASE Close
  <2>1. UNCHANGED <<opened, saw, raising>>
    BY <1>3 DEF Close
  <2>2. Len(stack) \in 1..Len(stack) /\ Top \in Frame /\ DOMAIN Top.found = Binds[Top.kind]
    <3>1. Len(stack) \in Nat \ {0} /\ stack \in [1..Len(stack) -> Frame]
      BY <1>3, EmptySeq, LenProperties DEF ScopeInv, Chain, Close
    <3>2. Len(stack) \in 1..Len(stack)
      BY <3>1
    <3> QED
      BY <3>1, <3>2, Zenon DEF Top, ScopeInv, Chain
  <2>3. \A n \in Binds[Top.kind] : Top.found[n] \in {Real} \union Blocks
    <3>1. \E k \in Kinds : Top.found \in [Binds[k] -> {Real} \union Blocks]
      BY <2>2, Zenon DEF Frame
    <3> QED
      BY <2>2, <3>1, Zenon
  <2>4. current' \in [Names -> {Real} \union Blocks]
    BY <1>3, <2>3, Zenon DEF Close, Restored, ScopeInv
  <2> QED
    BY <1>3, <2>1, <2>4, CloseKeepsChain, Zenon DEF ScopeInv
<1>4. CASE Abandon
  <2>1. UNCHANGED <<current, opened, saw, raising>>
    BY <1>4 DEF Abandon
  <2> QED
    BY <1>4, <2>1, AbandonKeepsChain, Zenon DEF ScopeInv
<1>5. CASE Raise
  <2>1. UNCHANGED <<current, stack, opened, saw>> /\ raising' = TRUE
    BY <1>5 DEF Raise
  <2> QED
    BY <2>1, Zenon DEF ScopeInv, Chain
<1>6. CASE (\E n \in Sources : Draw(n)) \/ (\E n \in Names : Call(n))
  <2>1. PICK n \in Names : Call(n) \/ (n \in Sources /\ Draw(n))
    BY <1>6, SourcesAreNames
  <2>2. Shows(n) /\ UNCHANGED <<current, stack, opened, raising>>
    BY <2>1, CallShows
  <2>3. saw'.name \in Names \union {"nothing"} /\ saw'.owner \in {Real} \union Blocks
    BY <2>2 DEF Shows, ScopeInv
  <2> QED
    BY <2>2, <2>3, Zenon DEF ScopeInv, Chain
<1>7. CASE UNCHANGED vars
  BY <1>7, Zenon DEF vars, ScopeInv, Chain
<1> QED
  BY <1>1, <1>2, <1>3, <1>4, <1>5, <1>6, <1>7 DEF Next

-----------------------------------------------------------------------------
(* The blocks that are open, as Bindings has them. *)
OpenBlocks == [i \in 1..Len(stack) |-> [block |-> stack[i].block, names |-> Binds[stack[i].kind]]]

LEMMA BlocksAreFrames ==
  ASSUME Chain
  PROVE  /\ Len(stack) \in Nat /\ Len(OpenBlocks) = Len(stack)
         /\ \A i \in 1..Len(stack) : /\ OpenBlocks[i].block = stack[i].block
                                     /\ OpenBlocks[i].names = Binds[stack[i].kind]
<1>1. Len(stack) \in Nat
  BY LenProperties DEF Chain
<1> QED
  BY <1>1 DEF OpenBlocks

LEMMA ScopedStep ==
  ASSUME ScopeInv, ScopeInv', [Next]_vars
  PROVE  [Scoped!Next]_(Scoped!vars)
<1>0. Chain /\ Chain'
  BY DEF ScopeInv
<1>a. /\ Len(stack) \in Nat /\ Len(OpenBlocks) = Len(stack)
      /\ \A i \in 1..Len(stack) : /\ OpenBlocks[i].block = stack[i].block
                                  /\ OpenBlocks[i].names = Binds[stack[i].kind]
  BY <1>0, BlocksAreFrames
<1>b. /\ Len(stack') \in Nat /\ Len(OpenBlocks') = Len(stack')
      /\ \A i \in 1..Len(stack') : /\ OpenBlocks'[i].block = stack'[i].block
                                   /\ OpenBlocks'[i].names = Binds[stack'[i].kind]
  <2>1. Len(stack') \in Nat
    BY <1>0, LenProperties DEF Chain
  <2> QED
    BY <2>1 DEF OpenBlocks
<1>1. CASE \E kind \in Kinds : Open(kind)
  <2>1. PICK kind \in Kinds : Open(kind)
    BY <1>1
  <2>2. /\ Len(stack') = Len(stack) + 1 /\ \A i \in 1..Len(stack) : stack'[i] = stack[i]
        /\ stack'[Len(stack) + 1].kind = kind
    <3>1. /\ Len(stack') = Len(stack) + 1 /\ \A i \in 1..Len(stack) : stack'[i] = stack[i]
          /\ stack'[Len(stack) + 1] =
               [block |-> opened', kind |-> kind, guarded |-> kind # "watchdog",
                found |-> [n \in Binds[kind] |-> current[n]]]
      BY <2>1, OpenPushes
    <3>2. stack'[Len(stack) + 1].kind = kind
      BY <3>1
    <3> QED
      BY <3>1, <3>2, Zenon
  <2>3. \A i \in 1..Len(stack) : OpenBlocks'[i] = OpenBlocks[i]
    BY <1>a, <2>2 DEF OpenBlocks
  <2>4. OpenBlocks'[Len(stack) + 1].names \subseteq Names
    BY <1>a, <1>b, <2>2, BindsAreNames
  <2>5. saw' = saw
    BY <2>1 DEF Open
  <2> QED
    BY <1>a, <1>b, <2>2, <2>3, <2>4, <2>5, Zenon DEF Scoped!Next, Scoped!Enter, OpenBlocks
<1>2. CASE Try \/ Raise \/ UNCHANGED vars
  <2>1. saw' = saw /\ Len(stack') = Len(stack)
        /\ \A i \in 1..Len(stack) : stack'[i].block = stack[i].block /\ stack'[i].kind = stack[i].kind
    <3>1. CASE Try
      BY <3>1, TryKeepsChain DEF Try
    <3>2. CASE Raise \/ UNCHANGED vars
      BY <3>2, Zenon DEF Raise, vars
    <3> QED
      BY <1>2, <3>1, <3>2
  <2>2. OpenBlocks' = OpenBlocks
    BY <2>1 DEF OpenBlocks
  <2> QED
    BY <2>1, <2>2, Zenon DEF Scoped!vars, OpenBlocks
<1>3. CASE Close \/ Abandon
  <2>1. stack # <<>> /\ stack' = Popped /\ saw' = saw
    BY <1>3 DEF Close, Abandon
  <2>2. /\ Len(stack) \in Nat \ {0} /\ Len(stack') = Len(stack) - 1
        /\ \A i \in 1..(Len(stack) - 1) : stack'[i] = stack[i]
    BY <1>0, <2>1, PopKeeps
  <2>3. \A i \in 1..Len(OpenBlocks') : OpenBlocks'[i] = OpenBlocks[i]
    <3>1. \A i \in 1..Len(stack') : i \in 1..Len(stack) /\ stack'[i] = stack[i]
      BY <2>2
    <3> QED
      BY <1>b, <3>1 DEF OpenBlocks
  <2>4. Len(OpenBlocks) > 0 /\ Len(OpenBlocks') = Len(OpenBlocks) - 1
    BY <1>a, <1>b, <2>2
  <2> QED
    BY <2>1, <2>3, <2>4, Zenon DEF Scoped!Next, Scoped!Leave, OpenBlocks
<1>4. CASE (\E n \in Sources : Draw(n)) \/ (\E n \in Names : Call(n))
  <2>1. PICK n \in Names : Call(n) \/ (n \in Sources /\ Draw(n))
    BY <1>4, SourcesAreNames
  <2>2. Shows(n) /\ ~raising /\ stack' = stack
    BY <2>1, CallShows
  <2>3. OwnerIn(stack, Len(stack), n, current[n])
    BY <1>0, <2>2 DEF Chain
  <2>4. Scoped!Owner(n, current[n])
    <3> DEFINE len == Len(stack)
    <3>1. \/ current[n] = Real /\ \A i \in 1..len : n \notin OpenBlocks[i].names
          \/ \E i \in 1..len :
               /\ current[n] = OpenBlocks[i].block /\ n \in OpenBlocks[i].names
               /\ \A j \in 1..len : j > i => n \notin OpenBlocks[j].names
      BY <1>a, <2>3, Zenon DEF OwnerIn
    <3> QED
      BY <1>a, <3>1, Zenon DEF Scoped!Owner, OpenBlocks
  <2>5. OpenBlocks' = OpenBlocks
    BY <2>2 DEF OpenBlocks
  <2>6. Shown'.name = n /\ Shown'.owner = current[n]
    BY <2>2 DEF Shown, Shows
  <2> QED
    BY <2>4, <2>5, <2>6, Zenon DEF Scoped!Next, Scoped!Call, OpenBlocks, Shown
<1> QED
  BY <1>1, <1>2, <1>3, <1>4 DEF Next

-----------------------------------------------------------------------------
(* What every block has saved, for any nesting and any number of blocks.    *)
THEOREM PinnedCorrect == Spec => []ScopeInv
  BY InitScopeInv, ScopeStep, PTL DEF Spec

(* The blocks of tools/gen are dynamic scopes (tools/gen:233, 1871, 2675).  *)
THEOREM BlocksAreScopes == Spec => FindsTheInnermost
<1>1. Init => Scoped!Init
  <2> SUFFICES ASSUME Init PROVE Scoped!Init
    OBVIOUS
  <2>1. stack = <<>> /\ Len(stack) = 0
    BY DEF Init
  <2>2. OpenBlocks = <<>>
    BY <2>1 DEF OpenBlocks
  <2>3. Shown = [name |-> "nothing", owner |-> Real]
    BY DEF Init, Shown
  <2> QED
    BY <2>2, <2>3, Zenon DEF Scoped!Init, OpenBlocks, Shown
<1>2. ScopeInv /\ ScopeInv' /\ [Next]_vars => [Scoped!Next]_(Scoped!vars)
  BY ScopedStep
<1> QED
  BY <1>1, <1>2, PinnedCorrect, PTL DEF Spec, FindsTheInnermost, Scoped!Spec

(* Outside of every block the reference has everything of its own back, and *)
(* a run that an exception ended all but the watchdog (tools/gen:276).      *)
THEOREM NothingStaysReplaced == Spec => []EverythingBack
<1>1. ScopeInv => EverythingBack
  <2> SUFFICES ASSUME ScopeInv, stack = <<>>, NEW n \in Names
               PROVE  current[n] = Real \/ (raising /\ n = "watchdog_job")
    BY DEF EverythingBack
  <2>1. Len(stack) = 0
    OBVIOUS
  <2>2. OwnerIn(stack, 0, n, current[n]) \/ (raising /\ n = "watchdog_job")
    BY <2>1, Zenon DEF ScopeInv, Chain
  <2>3. OwnerIn(stack, 0, n, current[n]) => current[n] = Real
    BY DEF OwnerIn
  <2> QED
    BY <2>2, <2>3, Zenon
<1> QED
  BY <1>1, PinnedCorrect, PTL

-----------------------------------------------------------------------------
(* A generator has behind it what was drawn, and in its buffer what comes   *)
(* next, up to the end of the last hash it took.                            *)
Generator == [counter : Nat, buf : Seq(Nat), drawn : Nat]

InStream(r) ==
  /\ r \in Generator
  /\ r.drawn + Len(r.buf) = r.counter * HASH
  /\ \A i \in 1..Len(r.buf) : r.buf[i] = r.drawn + i

StreamInv == rng \in [Blocks -> Generator] /\ \A b \in Blocks : InStream(rng[b])

LEMMA FreshInStream == InStream(Fresh)
<1>1. Fresh \in Generator /\ Len(Fresh.buf) = 0
  BY DEF Fresh, Generator
<1> QED
  BY <1>1 DEF InStream, Fresh, HASH

LEMMA HashesEnough ==
  ASSUME NEW k \in Nat
  PROVE  (k + HASH - 1) \div HASH \in Nat /\ ((k + HASH - 1) \div HASH) * HASH >= k
  BY DEF HASH

Longer(buf, c, h) == buf \o [i \in 1..(h * HASH) |-> c * HASH + i]

(* a buffer that starts behind byte d of the stream and ends with hash c *)
Goes(buf, c, d) ==
  /\ buf \in Seq(Nat) /\ d + Len(buf) = c * HASH
  /\ \A i \in 1..Len(buf) : buf[i] = d + i

(* Hashes put behind a buffer go on where it ended. *)
LEMMA HashesGoOn ==
  ASSUME NEW buf, NEW c \in Nat, NEW d \in Nat, NEW h \in Nat, Goes(buf, c, d)
  PROVE  /\ Goes(Longer(buf, c, h), c + h, d)
         /\ Len(Longer(buf, c, h)) = Len(buf) + h * HASH
<1> USE DEF Goes
<1> DEFINE more == [i \in 1..(h * HASH) |-> c * HASH + i]
<1>1. h * HASH \in Nat /\ c * HASH \in Nat /\ (c + h) * HASH = c * HASH + h * HASH
      /\ Len(buf) \in Nat
  BY DEF HASH
<1>2. more \in Seq(Nat) /\ Len(more) = h * HASH
      /\ \A i \in 1..(h * HASH) : more[i] = c * HASH + i
  BY <1>1
<1> HIDE DEF more
<1>3. /\ buf \o more \in Seq(Nat) /\ Len(buf \o more) = Len(buf) + Len(more)
      /\ \A i \in 1..(Len(buf) + Len(more)) :
           (buf \o more)[i] = IF i <= Len(buf) THEN buf[i] ELSE more[i - Len(buf)]
  <2>1. more \in Seq(Nat)
    BY <1>2
  <2> QED
    BY <2>1, ConcatProperties
<1>4. ASSUME NEW i \in 1..(Len(buf) + Len(more)) PROVE (buf \o more)[i] = d + i
  <2>1. CASE i <= Len(buf)
    BY <1>1, <1>3, <2>1
  <2>2. CASE ~(i <= Len(buf))
    <3>1. i - Len(buf) \in 1..(h * HASH)
      BY <1>1, <1>2, <2>2
    <3>2. (buf \o more)[i] = c * HASH + (i - Len(buf))
      BY <1>2, <1>3, <2>2, <3>1
    <3> QED
      BY <1>1, <3>2
  <2> QED
    BY <2>1, <2>2
<1>5. d + Len(buf \o more) = (c + h) * HASH
  BY <1>1, <1>2, <1>3
<1> QED
  BY <1>2, <1>3, <1>4, <1>5 DEF more, Longer

(* However many bytes are asked for, they are the next of the stream, and   *)
(* the hashes that were taken for them go on where the buffer ended.        *)
LEMMA BytesAreNext ==
  ASSUME NEW r, InStream(r), NEW n \in Nat
  PROVE  /\ Bytes(r, n).out = [i \in 1..n |-> r.drawn + i]
         /\ InStream(Bytes(r, n).rng)
         /\ Bytes(r, n).rng.drawn = r.drawn + n
<1> DEFINE hashes == IF Len(r.buf) >= n THEN 0 ELSE (n - Len(r.buf) + HASH - 1) \div HASH
           buf == Longer(r.buf, r.counter, hashes)
           left == SubSeq(buf, n + 1, Len(buf))
           after == [counter |-> r.counter + hashes, buf |-> left, drawn |-> r.drawn + n]
<1>1. /\ r.counter \in Nat /\ r.drawn \in Nat /\ r.buf \in Seq(Nat) /\ Len(r.buf) \in Nat
      /\ r.drawn + Len(r.buf) = r.counter * HASH
      /\ \A i \in 1..Len(r.buf) : r.buf[i] = r.drawn + i
  BY LenProperties DEF InStream, Generator
<1>2. hashes \in Nat /\ hashes * HASH \in Nat /\ Len(r.buf) + hashes * HASH >= n
  <2>1. PICK len \in Nat : len = Len(r.buf)
    BY <1>1
  <2>2. len >= n => hashes = 0
    BY <2>1
  <2>3. ~(len >= n) => hashes = (n - len + HASH - 1) \div HASH
    BY <2>1
  <2> HIDE DEF hashes
  <2>4. CASE len >= n
    BY <2>1, <2>2, <2>4 DEF HASH
  <2>5. CASE ~(len >= n)
    <3>1. n - len \in Nat
      BY <2>5
    <3>2. hashes \in Nat /\ hashes * HASH >= n - len
      BY <2>3, <2>5, <3>1, HashesEnough
    <3>3. hashes * HASH \in Nat
      BY <3>2 DEF HASH
    <3> QED
      BY <2>1, <3>2, <3>3
  <2> QED
    BY <2>4, <2>5
<1> HIDE DEF hashes
<1>3. /\ buf \in Seq(Nat) /\ Len(buf) = Len(r.buf) + hashes * HASH
      /\ r.drawn + Len(buf) = (r.counter + hashes) * HASH
      /\ \A i \in 1..Len(buf) : buf[i] = r.drawn + i
  <2>1. r.drawn \in Nat /\ r.counter \in Nat /\ hashes \in Nat /\ r.buf \in Seq(Nat)
    BY <1>1, <1>2
  <2>2. r.drawn + Len(r.buf) = r.counter * HASH /\ \A i \in 1..Len(r.buf) : r.buf[i] = r.drawn + i
    BY <1>1
  <2> QED
    <3>1. Goes(r.buf, r.counter, r.drawn)
      BY <2>1, <2>2 DEF Goes
    <3>2. /\ Goes(buf, r.counter + hashes, r.drawn)
          /\ Len(buf) = Len(r.buf) + hashes * HASH
      BY ONLY <2>1, <3>1, HashesGoOn, ZenonT(30)
    <3> QED
      BY <3>2 DEF Goes
<1> HIDE DEF buf
<1>4. Len(buf) \in Nat /\ n <= Len(buf)
  BY <1>1, <1>2, <1>3
<1>5. SubSeq(buf, 1, n) = [i \in 1..n |-> r.drawn + i]
  BY <1>3, <1>4
<1>6. /\ left \in Seq(Nat) /\ Len(left) = Len(buf) - n
      /\ \A i \in 1..(Len(buf) - n) : left[i] = buf[n + i]
  <2>1. buf \in Seq(Nat) /\ n + 1 \in 1..(Len(buf) + 1) /\ Len(buf) \in Nat
    BY <1>3, <1>4
  <2>2. /\ SubSeq(buf, n + 1, Len(buf)) \in Seq(Nat)
        /\ Len(SubSeq(buf, n + 1, Len(buf))) =
             IF n + 1 <= Len(buf) THEN Len(buf) - (n + 1) + 1 ELSE 0
        /\ \A i \in 1..(Len(buf) - (n + 1) + 1) :
             SubSeq(buf, n + 1, Len(buf))[i] = buf[(n + 1) + i - 1]
    BY <2>1, SubSeqProperties
  <2> HIDE DEF left
  <2>3. \A i \in 1..(Len(buf) - n) : (n + 1) + i - 1 = n + i
    BY <2>1
  <2>4. Len(buf) - (n + 1) + 1 = Len(buf) - n /\ (~(n + 1 <= Len(buf)) => Len(buf) - n = 0)
    BY <1>4, <2>1
  <2> QED
    BY <2>2, <2>3, <2>4 DEF left
<1> HIDE DEF left
<1>7. InStream(after)
  <2>1. after \in Generator
    BY <1>1, <1>2, <1>6 DEF Generator
  <2>2. \A i \in 1..Len(left) : left[i] = r.drawn + n + i
    <3> SUFFICES ASSUME NEW i \in 1..Len(left) PROVE left[i] = r.drawn + n + i
      OBVIOUS
    <3>1. left[i] = buf[n + i] /\ n + i \in 1..Len(buf)
      BY <1>4, <1>6
    <3>2. buf[n + i] = r.drawn + (n + i)
      BY <1>3, <3>1
    <3> QED
      BY <1>1, <1>4, <1>6, <3>1, <3>2
  <2>3. r.drawn + n + Len(left) = r.drawn + Len(buf)
    BY <1>1, <1>4, <1>6
  <2> QED
    BY <1>3, <2>1, <2>2, <2>3, Zenon DEF InStream
<1>8. Bytes(r, n) = [out |-> SubSeq(buf, 1, n), rng |-> after]
  BY DEF Bytes, Longer, hashes, buf, left
<1> QED
  BY <1>5, <1>7, <1>8

LEMMA TakesAreNat == \A source \in Sources : Takes[source] \in Nat
  BY DEF Sources, Takes

(* One draw from a block's generator: whose, how much and what came of it.  *)
LEMMA DrawsNext ==
  ASSUME ScopeInv, StreamInv, NEW source \in Sources, Draw(source), current[source] # Real
  PROVE  LET b == current[source]
         IN  /\ b \in Blocks
             /\ InStream(rng'[b]) /\ rng' = [rng EXCEPT ![b] = rng'[b]]
             /\ rng'[b].drawn = rng[b].drawn + Takes[source]
             /\ saw'.bytes = [i \in 1..Takes[source] |-> rng[b].drawn + i]
<1> DEFINE b == current[source]
           drew == Bytes(rng[b], Takes[source])
<1>1. b \in Blocks
  BY SourcesAreNames DEF ScopeInv
<1>2. /\ saw' = [name |-> source, owner |-> b, bytes |-> drew.out]
      /\ rng' = [rng EXCEPT ![b] = drew.rng]
  BY Zenon DEF Draw
<1>3. /\ drew.out = [i \in 1..Takes[source] |-> rng[b].drawn + i]
      /\ InStream(drew.rng) /\ drew.rng.drawn = rng[b].drawn + Takes[source]
  BY <1>1, TakesAreNat, BytesAreNext DEF StreamInv
<1>4. rng'[b] = drew.rng
  BY <1>1, <1>2 DEF StreamInv
<1> QED
  BY <1>1, <1>2, <1>3, <1>4

LEMMA InitStreamInv == Init => StreamInv
  BY FreshInStream DEF Init, StreamInv, Blocks, InStream

LEMMA StreamStep == ScopeInv /\ StreamInv /\ [Next]_vars => StreamInv'
<1> SUFFICES ASSUME ScopeInv, StreamInv, [Next]_vars PROVE StreamInv'
  OBVIOUS
<1>1. CASE Close
  <2>1. rng' = [rng EXCEPT ![Top.block] = Fresh]
    BY <1>1 DEF Close
  <2>2. Fresh \in Generator
    BY FreshInStream DEF InStream
  <2> QED
    BY <2>1, <2>2, FreshInStream DEF StreamInv
<1>2. CASE \E source \in Sources : Draw(source)
  <2>1. PICK source \in Sources : Draw(source)
    BY <1>2
  <2>2. CASE current[source] = Real
    <3>1. rng' = rng
      BY <2>1, <2>2 DEF Draw
    <3> QED
      BY <3>1 DEF StreamInv
  <2>3. CASE current[source] # Real
    <3> DEFINE b == current[source]
    <3>1. b \in Blocks /\ InStream(rng'[b]) /\ rng' = [rng EXCEPT ![b] = rng'[b]]
      BY <2>1, <2>3, DrawsNext
    <3>2. rng'[b] \in Generator
      BY <3>1 DEF InStream
    <3> HIDE DEF b
    <3> QED
      BY <3>1, <3>2 DEF StreamInv
  <2> QED
    BY <2>2, <2>3
<1>3. CASE rng' = rng
  BY <1>3 DEF StreamInv
<1>4. Next => \/ Close \/ (\E source \in Sources : Draw(source)) \/ rng' = rng
  BY DEF Next, Open, Try, Abandon, Raise, Call
<1>5. UNCHANGED vars => rng' = rng
  BY DEF vars
<1> QED
  BY <1>1, <1>2, <1>3, <1>4, <1>5

LEMMA StreamStepUnbroken ==
  ASSUME ScopeInv, StreamInv, [Next]_vars, NEW b \in Blocks, rng'[b].drawn > rng[b].drawn
  PROVE  saw'.bytes = [i \in 1..(rng'[b].drawn - rng[b].drawn) |-> rng[b].drawn + i]
<1>1. rng \in [Blocks -> Generator] /\ rng[b].drawn \in Nat
  BY DEF StreamInv, Generator
<1>2. rng'[b] # rng[b]
  BY <1>1
<1>3. ~Close
  <2> SUFFICES ASSUME Close PROVE FALSE
    OBVIOUS
  <2>1. rng'[b] = Fresh
    BY <1>1, <1>2 DEF Close
  <2> QED
    BY <1>1, <2>1 DEF Fresh
<1>4. PICK source \in Sources : Draw(source)
  BY <1>2, <1>3 DEF Next, vars, Open, Try, Abandon, Raise, Call
<1>5. current[source] # Real
  BY <1>2, <1>4 DEF Draw
<1> DEFINE o == current[source]
<1>6. /\ o \in Blocks /\ rng' = [rng EXCEPT ![o] = rng'[o]]
      /\ rng'[o].drawn = rng[o].drawn + Takes[source]
      /\ saw'.bytes = [i \in 1..Takes[source] |-> rng[o].drawn + i]
  BY <1>4, <1>5, DrawsNext
<1> HIDE DEF o
<1>7. o = b
  BY <1>1, <1>2, <1>6
<1>8. rng'[b].drawn - rng[b].drawn = Takes[source]
  BY <1>1, <1>6, <1>7, TakesAreNat
<1> QED
  BY <1>6, <1>7, <1>8

(* "so that regenerating a vector produces the same bytes" (tools/gen:207): *)
(* whatever the sizes of the draws and however blocks stand in one another, *)
(* a block draws the bytes of its stream in their order, each of them once. *)
THEOREM StreamsUnbroken == Spec => StreamUnbroken
<1>1. Spec => []StreamInv
  BY InitStreamInv, StreamStep, PinnedCorrect, PTL DEF Spec
<1>2. ScopeInv /\ StreamInv /\ [Next]_vars =>
        [\A b \in Blocks : rng'[b].drawn > rng[b].drawn =>
           saw'.bytes = [i \in 1..(rng'[b].drawn - rng[b].drawn) |-> rng[b].drawn + i]]_vars
  BY StreamStepUnbroken
<1> QED
  BY <1>1, <1>2, PinnedCorrect, PTL DEF Spec, StreamUnbroken

(* The variables hold what they are meant to, for any nesting of blocks.    *)
THEOREM PinnedTyped == Spec => []TypeOK
<1>1. Spec => []StreamInv
  BY InitStreamInv, StreamStep, PinnedCorrect, PTL DEF Spec
<1>2. ScopeInv /\ StreamInv => TypeOK
  <2> SUFFICES ASSUME ScopeInv, StreamInv PROVE TypeOK
    OBVIOUS
  <2>1. ASSUME NEW i \in 1..Len(stack) PROVE IsFrame(stack[i])
    <3>1. stack[i] \in Frame
      BY DEF ScopeInv, Chain
    <3>2. DOMAIN stack[i].found = Binds[stack[i].kind]
      BY DEF ScopeInv, Chain
    <3>3. PICK k \in Kinds : stack[i].found \in [Binds[k] -> {Real} \union Blocks]
      BY <3>1, Zenon DEF Frame
    <3>4. stack[i].found \in [Binds[stack[i].kind] -> {Real} \union Blocks]
      BY <3>2, <3>3
    <3>5. stack[i].block \in Blocks /\ stack[i].kind \in Kinds /\ stack[i].guarded \in BOOLEAN
      BY <3>1, Zenon DEF Frame
    <3> QED
      BY <3>4, <3>5, Zenon DEF IsFrame
  <2>2. \A b \in Blocks : rng[b].counter \in Nat /\ rng[b].drawn \in Nat
    BY DEF StreamInv, Generator
  <2> QED
    BY <2>1, <2>2, Zenon DEF TypeOK, ScopeInv
<1> QED
  BY <1>1, <1>2, PinnedCorrect, PTL
=============================================================================
