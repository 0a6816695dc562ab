----------------------------- MODULE IfacProofs -----------------------------
(* Proofs about Ifac, for every size of code, length of frame, keystream    *)
(* and signature.                                                           *)
EXTENDS Ifac, TLAPS

Bodied(f, n, m) ==
  /\ n \in Sizes /\ m \in 0..MAXBLOB /\ m > n + 2
  /\ f \in Array(m)

(* What was masked twice is what it was. *)
LEMMA XorTwice ==
  ASSUME NEW a, NEW b
  PROVE  Xor(Xor(a, b), b) = a
BY DEF Xor

LEMMA ArrayDomain ==
  ASSUME NEW k \in Nat, NEW a \in Array(k)
  PROVE  DOMAIN a = 0..(k - 1)
BY DEF Array

(* A code read out of a frame is bytes of the frame. *)
LEMMA CodeTyped ==
  ASSUME NEW f, NEW n, NEW m, Bodied(f, n, m)
  PROVE  CodeOf(f, n) \in Array(n)
BY SizeAssumption DEF CodeOf, Array, Bodied, Sizes

(* ... and its keystream is as long as the frame. *)
LEMMA MaskTyped ==
  ASSUME NEW org \in Origins, NEW n \in Sizes, NEW code \in Array(n),
         NEW m \in 0..MAXBLOB
  PROVE  Mask(org, code, m) \in Array(m)
BY MaskAssumption

LEMMA MaskedTyped ==
  ASSUME NEW org \in Origins, NEW n \in Sizes, NEW code \in Array(n),
         NEW m \in 0..MAXBLOB, NEW f \in Array(m)
  PROVE  Masked(org, code, n, f, m) \in Array(m)
<1>1. Mask(org, code, m) \in Array(m)
  BY MaskTyped
<1>2. \A a, b \in Byte : Xor(a, b) \in Byte
  BY DEF Xor, Byte
<1> QED BY <1>1, <1>2, SizeAssumption DEF Masked, Array, Sizes

(* The packet is the frame without the code. *)
LEMMA PacketTyped ==
  ASSUME NEW org \in Origins, NEW f, NEW n, NEW m, Bodied(f, n, m)
  PROVE  PacketOf(org, f, n, m) \in Array(m - n)
<1> DEFINE u == Masked(org, CodeOf(f, n), n, f, m)
<1>1. u \in Array(m)
  BY CodeTyped, MaskedTyped DEF Bodied
<1>2. \A i \in 0..(m - 1) : u[i] \in Byte
  BY <1>1 DEF Array
<1>3. u[0] \ {Flag} \in Byte
  BY <1>2 DEF Byte, Bodied, Sizes
<1>4. \A i \in 0..(m - n - 1) :
        (IF i = 0 THEN u[0] \ {Flag} ELSE IF i = 1 THEN u[1] ELSE u[i + n]) \in Byte
  BY <1>2, <1>3, SizeAssumption DEF Bodied, Sizes
<1> HIDE DEF u
<1>5. [i \in 0..(m - n - 1) |->
         IF i = 0 THEN u[0] \ {Flag} ELSE IF i = 1 THEN u[1] ELSE u[i + n]]
        \in Array(m - n)
  BY <1>4 DEF Array
<1> QED BY <1>5 DEF PacketOf, u

(* A packet with a code put in is that much longer. *)
LEMMA FramedTyped ==
  ASSUME NEW n \in Sizes, NEW code \in Array(n),
         NEW m \in Nat, m > 2, NEW p \in Array(m)
  PROVE  Framed(p, m, code, n) \in Array(m + n)
<1>1. p[0] \union {Flag} \in Byte
  BY BitsAssumption DEF Array, Byte
<1>2. \A i \in 0..(m - 1) : p[i] \in Byte
  BY DEF Array
<1>3. \A i \in 0..(n - 1) : code[i] \in Byte
  BY DEF Array
<1>4. \A i \in 0..(m + n - 1) :
        (IF i = 0 THEN p[0] \union {Flag} ELSE IF i = 1 THEN p[1]
         ELSE IF i <= n + 1 THEN code[i - 2] ELSE p[i - n]) \in Byte
  BY <1>1, <1>2, <1>3, SizeAssumption DEF Sizes
<1> DEFINE framed == Framed(p, m, code, n)
<1>5. /\ framed = [i \in 0..(m + n - 1) |-> framed[i]]
      /\ \A i \in 0..(m + n - 1) : framed[i] \in Byte
  BY <1>4 DEF Framed
<1> HIDE DEF framed
<1>6. framed \in Array(m + n)
  <2>1. n \in Nat
    BY SizeAssumption DEF Sizes
  <2> QED BY <1>5, <2>1 DEF Array
<1> QED BY <1>6 DEF framed

(* encode_ifac undoes dump_ifac on every frame that has its flag. *)
THEOREM EncodeUndoesDump ==
  ASSUME NEW org \in Origins, NEW f, NEW n, NEW m, Bodied(f, n, m), Flag \in f[0]
  PROVE  Encoded(org, PacketOf(org, f, n, m), m - n, CodeOf(f, n), n) = f
<1> DEFINE code == CodeOf(f, n)
           k == Mask(org, code, m)
           p == PacketOf(org, f, n, m)
           framed == Framed(p, m - n, code, n)
           masked == Masked(org, code, n, framed, m)
<1>0. /\ n \in Nat /\ m \in Nat /\ n >= 1 /\ m > n + 2 /\ m - n \in Nat
      /\ (m - n) + n = m
  BY SizeAssumption DEF Bodied, Sizes
<1>1. /\ p[0] = Xor(f[0], k[0]) \ {Flag}
      /\ p[1] = Xor(f[1], k[1])
      /\ \A i \in (n + 2)..(m - 1) : p[i - n] = Xor(f[i], k[i])
  BY <1>0 DEF PacketOf, Masked
<1>2. /\ framed[0] = p[0] \union {Flag}
      /\ framed[1] = p[1]
      /\ \A i \in 2..(n + 1) : framed[i] = f[i]
      /\ \A i \in (n + 2)..(m - 1) : framed[i] = p[i - n]
  <2> HIDE DEF p
  <2>1. \A i \in 2..(n + 1) : code[i - 2] = f[i]
    BY <1>0 DEF CodeOf
  <2> HIDE DEF code
  <2> QED BY <1>0, <2>1 DEF Framed
<1> HIDE DEF p
<1>3. /\ masked[0] = Xor(framed[0], k[0])
      /\ masked[1] = Xor(framed[1], k[1])
      /\ \A i \in 2..(n + 1) : masked[i] = framed[i]
      /\ \A i \in (n + 2)..(m - 1) : masked[i] = Xor(framed[i], k[i])
  <2> HIDE DEF framed, code
  <2> QED BY <1>0 DEF Masked
<1>4. masked[0] \union {Flag} = f[0]
  <2>1. Xor((Xor(f[0], k[0]) \ {Flag}) \union {Flag}, k[0]) \union {Flag} = f[0]
    BY Flag \in f[0] DEF Xor
  <2> HIDE DEF masked, framed, k, code
  <2> QED BY <1>1, <1>2, <1>3, <2>1
<1>5. \A i \in 1..(m - 1) : masked[i] = f[i]
  <2> HIDE DEF masked, framed, k, code
  <2> TAKE i \in 1..(m - 1)
  <2>1. CASE i = 1
    BY <2>1, <1>1, <1>2, <1>3, XorTwice
  <2>2. CASE i \in 2..(n + 1)
    BY <2>2, <1>2, <1>3
  <2>3. CASE i \in (n + 2)..(m - 1)
    BY <2>3, <1>1, <1>2, <1>3, XorTwice
  <2> QED BY <1>0, <2>1, <2>2, <2>3
<1>6. DOMAIN masked = 0..(m - 1) /\ f = [i \in 0..(m - 1) |-> f[i]]
  BY DEF Masked, Bodied, Array
<1>7. Encoded(org, p, m - n, code, n) = [masked EXCEPT ![0] = @ \union {Flag}]
  BY <1>0 DEF Encoded
<1> HIDE DEF masked
<1>8. [masked EXCEPT ![0] = @ \union {Flag}] = [i \in 0..(m - 1) |-> f[i]]
  <2>1. \A i \in 0..(m - 1) :
          (IF i = 0 THEN masked[0] \union {Flag} ELSE masked[i]) = f[i]
    <3> TAKE i \in 0..(m - 1)
    <3>1. CASE i = 0
      BY <3>1, <1>4
    <3>2. CASE i # 0
      BY <3>2, <1>0, <1>5
    <3> QED BY <3>1, <3>2
  <2>2. [masked EXCEPT ![0] = @ \union {Flag}]
          = [i \in 0..(m - 1) |-> IF i = 0 THEN masked[0] \union {Flag} ELSE masked[i]]
    BY <1>0, <1>6
  <2> QED BY <2>1, <2>2
<1> QED BY <1>6, <1>7, <1>8 DEF p

-----------------------------------------------------------------------------
(* What the interface sends of a packet p of m bytes. *)
Sendable(p, n, m) ==
  /\ n \in Sizes /\ m \in 3..(MAXBLOB - SIGLEN)
  /\ p \in Array(m) /\ Flag \notin p[0]

LEMMA SendableSizes ==
  ASSUME NEW p, NEW n, NEW m, Sendable(p, n, m)
  PROVE  /\ n \in Nat /\ n >= 1 /\ n <= SIGLEN /\ SIGLEN \in Nat
         /\ m \in Nat /\ m >= 3 /\ m \in 2..MAXBLOB
         /\ m + n \in 0..MAXBLOB /\ m + n > n + 2
BY SizeAssumption DEF Sendable, Sizes

LEMMA ExpectedTyped ==
  ASSUME NEW org \in Origins, NEW p, NEW n, NEW m, Sendable(p, n, m)
  PROVE  ExpectedCode(org, p, n) \in Array(n)
<1>1. Signature(org, p) \in Array(SIGLEN)
  BY SendableSizes, SignatureAssumption DEF Sendable
<1>2. \A j \in 0..(SIGLEN - 1) : Signature(org, p)[j] \in Byte
  BY <1>1 DEF Array
<1>3. \A i \in 0..(n - 1) : SIGLEN - n + i \in 0..(SIGLEN - 1)
  BY SendableSizes
<1> QED BY <1>2, <1>3 DEF ExpectedCode, Array

(* The frame of a packet: its flag is set, its code is in the clear, and    *)
(* the rest is masked.                                                      *)
FrameOf(f, p, code, k, n, m) ==
  /\ f \in Array(m + n)
  /\ Flag \in f[0]
  /\ f[0] = Xor(p[0] \union {Flag}, k[0]) \union {Flag}
  /\ f[1] = Xor(p[1], k[1])
  /\ \A i \in 0..(n - 1) : f[i + 2] = code[i]
  /\ \A i \in 2..(m - 1) : f[i + n] = Xor(p[i], k[i + n])

LEMMA TransmittedBytes ==
  ASSUME NEW org \in Origins, NEW p, NEW n, NEW m, Sendable(p, n, m)
  PROVE  FrameOf(Transmitted(org, p, m, n), p, ExpectedCode(org, p, n),
                 Mask(org, ExpectedCode(org, p, n), m + n), n, m)
<1> DEFINE f == Transmitted(org, p, m, n)
           code == ExpectedCode(org, p, n)
           k == Mask(org, code, m + n)
           framed == Framed(p, m, code, n)
           masked == Masked(org, code, n, framed, m + n)
<1>0. /\ n \in Nat /\ n >= 1 /\ m \in Nat /\ m >= 3 /\ m + n \in 0..MAXBLOB
      /\ p \in Array(m) /\ n \in Sizes
  BY SendableSizes DEF Sendable
<1>1. code \in Array(n)
  BY ExpectedTyped
<1>2. framed \in Array(m + n)
  BY <1>0, <1>1, FramedTyped
<1>3. masked \in Array(m + n)
  BY <1>0, <1>1, <1>2, MaskedTyped
<1>4. /\ framed[0] = p[0] \union {Flag}
      /\ framed[1] = p[1]
      /\ \A i \in 0..(n - 1) : framed[i + 2] = code[i]
      /\ \A i \in 2..(m - 1) : framed[i + n] = p[i]
  <2> HIDE DEF code
  <2>1. \A i \in 0..(n - 1) : i + 2 \in 0..(m + n - 1) /\ (i + 2) - 2 = i
                             /\ i + 2 # 0 /\ i + 2 # 1 /\ i + 2 <= n + 1
    BY <1>0
  <2>2. \A i \in 2..(m - 1) : i + n \in 0..(m + n - 1) /\ (i + n) - n = i
                             /\ i + n # 0 /\ i + n # 1 /\ ~(i + n <= n + 1)
    BY <1>0
  <2> QED BY <1>0, <2>1, <2>2 DEF Framed
<1>5. /\ masked[0] = Xor(framed[0], k[0])
      /\ masked[1] = Xor(framed[1], k[1])
      /\ \A i \in 0..(n - 1) : masked[i + 2] = framed[i + 2]
      /\ \A i \in 2..(m - 1) : masked[i + n] = Xor(framed[i + n], k[i + n])
  <2> HIDE DEF framed, code
  <2> QED BY <1>0 DEF Masked
<1>6. f = [i \in 0..(m + n - 1) |-> IF i = 0 THEN masked[0] \union {Flag} ELSE masked[i]]
  BY DEF Transmitted
<1> HIDE DEF masked, framed, f, code, k
<1>7. f \in Array(m + n)
  <2>1. \A i \in 0..(m + n - 1) : masked[i] \in Byte
    BY <1>0, <1>3 DEF Array
  <2>2. masked[0] \union {Flag} \in Byte
    BY <1>0, <2>1, BitsAssumption DEF Byte
  <2> QED BY <1>0, <1>6, <2>1, <2>2 DEF Array
<1>8. f[0] = masked[0] \union {Flag} /\ \A i \in 1..(m + n - 1) : f[i] = masked[i]
  BY <1>0, <1>6
<1>9. /\ f[1] = masked[1]
      /\ \A i \in 0..(n - 1) : f[i + 2] = masked[i + 2]
      /\ \A i \in 2..(m - 1) : f[i + n] = masked[i + n]
  BY <1>0, <1>8
<1>10. Flag \in f[0] /\ f[0] = Xor(p[0] \union {Flag}, k[0]) \union {Flag}
  BY <1>8, <1>4, <1>5
<1>11. f[1] = Xor(p[1], k[1])
  BY <1>9, <1>4, <1>5
<1>12. \A i \in 0..(n - 1) : f[i + 2] = code[i]
  BY <1>9, <1>4, <1>5
<1>13. \A i \in 2..(m - 1) : f[i + n] = Xor(p[i], k[i + n])
  BY <1>9, <1>4, <1>5
<1>14. FrameOf(f, p, code, k, n, m)
  BY <1>7, <1>10, <1>11, <1>12, <1>13 DEF FrameOf
<1> QED BY <1>14 DEF f, code, k

(* A frame whose bytes outside the code differ from the one sent by d is    *)
(* the packet that was sent, differing by d: with d empty everywhere, it is *)
(* the packet itself.                                                       *)
Shifted(i, n) == IF i < 2 THEN i ELSE i + n

THEOREM DumpUndoesTransmit ==
  ASSUME NEW org \in Origins, NEW p, NEW n, NEW m, Sendable(p, n, m),
         NEW g, g \in Array(m + n),
         NEW d, d \in Array(m), Flag \notin d[0],
         \A i \in 2..(n + 1) : g[i] = Transmitted(org, p, m, n)[i],
         \A i \in 0..(m - 1) :
           g[Shifted(i, n)] = Xor(Transmitted(org, p, m, n)[Shifted(i, n)], d[i])
  PROVE  /\ CodeOf(g, n) = ExpectedCode(org, p, n)
         /\ PacketOf(org, g, n, m + n) = [i \in 0..(m - 1) |-> Xor(p[i], d[i])]
<1> DEFINE f == Transmitted(org, p, m, n)
           code == ExpectedCode(org, p, n)
           k == Mask(org, code, m + n)
           u == Masked(org, code, n, g, m + n)
<1>0. /\ n \in Nat /\ n >= 1 /\ m \in Nat /\ m >= 3 /\ m + n \in 0..MAXBLOB
      /\ (m + n) - n = m
  BY SendableSizes
<1>1. /\ f[0] = Xor(p[0] \union {Flag}, k[0]) \union {Flag}
      /\ f[1] = Xor(p[1], k[1])
      /\ \A i \in 0..(n - 1) : f[i + 2] = code[i]
      /\ \A i \in 2..(m - 1) : f[i + n] = Xor(p[i], k[i + n])
  <2>1. FrameOf(f, p, code, k, n, m)
    BY TransmittedBytes
  <2> HIDE DEF f, code, k
  <2> QED BY <2>1 DEF FrameOf
<1>2. code = [i \in 0..(n - 1) |-> code[i]]
  BY DEF ExpectedCode
<1>3. CodeOf(g, n) = code
  <2>1. \A i \in 0..(n - 1) : g[i + 2] = code[i]
    <3> TAKE i \in 0..(n - 1)
    <3>1. i + 2 \in 2..(n + 1)
      BY <1>0
    <3> HIDE DEF code
    <3> QED BY <3>1, <1>1 DEF f
  <2> HIDE DEF code
  <2> QED BY <1>2, <2>1 DEF CodeOf
<1>4. /\ u[0] = Xor(g[0], k[0])
      /\ u[1] = Xor(g[1], k[1])
      /\ \A i \in 2..(m - 1) : u[i + n] = Xor(g[i + n], k[i + n])
  <2> HIDE DEF code
  <2> QED BY <1>0 DEF Masked
<1>5. /\ g[0] = Xor(f[0], d[0])
      /\ g[1] = Xor(f[1], d[1])
      /\ \A i \in 2..(m - 1) : g[i + n] = Xor(f[i + n], d[i])
  <2>1. Shifted(0, n) = 0 /\ Shifted(1, n) = 1 /\ \A i \in 2..(m - 1) : Shifted(i, n) = i + n
    BY <1>0 DEF Shifted
  <2> QED BY <1>0, <2>1 DEF f
<1>6. PacketOf(org, g, n, m + n)
        = [i \in 0..(m - 1) |-> IF i = 0 THEN u[0] \ {Flag}
                               ELSE IF i = 1 THEN u[1] ELSE u[i + n]]
  BY <1>0, <1>3 DEF PacketOf
<1> HIDE DEF u, f, code, k
<1>7. \A i \in 0..(m - 1) :
        (IF i = 0 THEN u[0] \ {Flag} ELSE IF i = 1 THEN u[1] ELSE u[i + n])
          = Xor(p[i], d[i])
  <2> TAKE i \in 0..(m - 1)
  <2>1. CASE i = 0
    <3>1. Flag \notin p[0] /\ Flag \notin d[0]
      BY DEF Sendable
    <3>2. u[0] = Xor(Xor(Xor(p[0] \union {Flag}, k[0]) \union {Flag}, d[0]), k[0])
      BY <1>1, <1>4, <1>5
    <3>3. u[0] \ {Flag} = Xor(p[0], d[0])
      BY <3>1, <3>2 DEF Xor
    <3> QED BY <2>1, <3>3
  <2>2. CASE i = 1
    <3>1. u[1] = Xor(Xor(Xor(p[1], k[1]), d[1]), k[1])
      BY <1>1, <1>4, <1>5
    <3>2. u[1] = Xor(p[1], d[1])
      BY <3>1 DEF Xor
    <3> QED BY <2>2, <3>2
  <2>3. CASE i \in 2..(m - 1)
    <3>1. u[i + n] = Xor(Xor(Xor(p[i], k[i + n]), d[i]), k[i + n])
      BY <2>3, <1>1, <1>4, <1>5
    <3>2. u[i + n] = Xor(p[i], d[i])
      BY <3>1 DEF Xor
    <3>3. i # 0 /\ i # 1
      BY <2>3
    <3> QED BY <3>2, <3>3
  <2> QED BY <1>0, <2>1, <2>2, <2>3
<1> QED BY <1>3, <1>6, <1>7 DEF code

-----------------------------------------------------------------------------
LEMMA SentIsSendable ==
  ASSUME NEW s \in Packets, NEW n \in Sizes
  PROVE  Sendable(s.bytes, n, s.len)
BY PacketsAssumption DEF Sendable

LEMMA IfacInitially == Init => IfacInv
<1> SUFFICES ASSUME Init PROVE IfacInv
  OBVIOUS
<1>1. Sendable(sent.bytes, size, sent.len)
  BY SentIsSendable DEF Init
<1>2. frame \in Array(sent.len + size)
  <2> DEFINE code == ExpectedCode(origin, sent.bytes, size)
  <2>1. FrameOf(frame, sent.bytes, code, Mask(origin, code, sent.len + size),
                size, sent.len)
    BY <1>1, TransmittedBytes DEF Init
  <2> QED BY <2>1 DEF FrameOf
<1>3. sent.len + size \in 0..MAXBLOB
  BY <1>1, SendableSizes
<1>4. TypeOK
  BY <1>2, <1>3 DEF Init, TypeOK
<1> QED BY <1>4 DEF Init, IfacInv, Wire, Made

(* No frame loses its flag on the way, however it is altered or cut. *)
LEMMA FlagStays ==
  ASSUME TypeOK, Wire, len > 2 + size
  PROVE  Flag \in frame[0]
<1> DEFINE made == Transmitted(origin, sent.bytes, sent.len, size)
           code == ExpectedCode(origin, sent.bytes, size)
<1>1. Sendable(sent.bytes, size, sent.len)
  BY SentIsSendable DEF TypeOK
<1>2. FrameOf(made, sent.bytes, code, Mask(origin, code, sent.len + size), size, sent.len)
  BY <1>1, TransmittedBytes DEF TypeOK
<1> HIDE DEF made, code
<1>3. Flag \in made[0] /\ DOMAIN made = 0..(sent.len + size - 1)
  <2>1. made \in Array(sent.len + size) /\ Flag \in made[0]
    BY <1>2 DEF FrameOf
  <2>2. sent.len + size \in Nat
    BY <1>1, SendableSizes
  <2>3. DOMAIN made = 0..((sent.len + size) - 1)
    BY <2>1, <2>2, ArrayDomain
  <2>4. (sent.len + size) - 1 = sent.len + size - 1
    BY <1>1, SendableSizes
  <2> QED BY <2>1, <2>3, <2>4
<1>4. 0 \in 0..(len - 1) /\ 0 \in 0..(sent.len + size - 1)
  BY <1>1, SendableSizes DEF TypeOK
<1>5. CASE hit = <<"whole">>
  BY <1>3, <1>5 DEF Wire, made
<1>6. CASE hit = <<"cut">>
  BY <1>3, <1>4, <1>6 DEF Wire, made
<1>7. CASE \E i \in 0..(len - 1), bit \in BITS :
             /\ <<i, bit>> # <<0, Flag>>
             /\ frame = [made EXCEPT ![i] = Xor(@, {bit})]
  <2>1. PICK i \in 0..(len - 1), bit \in BITS :
          <<i, bit>> # <<0, Flag>> /\ frame = [made EXCEPT ![i] = Xor(@, {bit})]
    BY <1>7
  <2>2. CASE i = 0
    BY <1>3, <1>4, <2>1, <2>2 DEF Xor
  <2>3. CASE i # 0
    BY <1>3, <1>4, <2>1, <2>3
  <2> QED BY <2>2, <2>3
<1> QED BY <1>5, <1>6, <1>7 DEF Wire, made

LEMMA IfacStep == IfacInv /\ [Next]_vars => IfacInv'
<1> SUFFICES ASSUME IfacInv, [Next]_vars PROVE IfacInv'
  OBVIOUS
<1> USE DEF IfacInv
<1>0. /\ size \in Nat /\ size >= 1 /\ len \in Nat /\ MAXBLOB \in Nat
  BY SizeAssumption DEF TypeOK, Sizes
<1>1. ASSUME NEW i \in 0..(len - 1), NEW bit \in BITS, Alter(i, bit)
      PROVE  IfacInv'
  <2>1. Xor(frame[i], {bit}) \in Byte
    BY <1>0 DEF TypeOK, Array, Byte, Xor
  <2>2. frame' \in Array(len)
    BY <1>0, <1>1, <2>1 DEF Alter, TypeOK, Array
  <2>3. TypeOK'
    BY <1>1, <2>2 DEF Alter, TypeOK
  <2>4. frame = Transmitted(origin, sent.bytes, sent.len, size) /\ len = sent.len + size
    BY <1>1 DEF Alter, Wire
  <2>5. Wire'
    BY <1>1, <2>4 DEF Alter, Wire
  <2>6. Made'
    BY <1>1 DEF Alter, Made
  <2> QED BY <2>3, <2>5, <2>6
<1>2. ASSUME NEW n \in 0..(len - 1), Cut(n)
      PROVE  IfacInv'
  <2>1. frame' \in Array(n)
    BY <1>0, <1>2 DEF Cut, TypeOK, Array
  <2>2. TypeOK'
    BY <1>0, <1>2, <2>1 DEF Cut, TypeOK
  <2>3. frame = Transmitted(origin, sent.bytes, sent.len, size) /\ len = sent.len + size
    BY <1>2 DEF Cut, Wire
  <2>4. Wire'
    BY <1>0, <1>2, <2>3 DEF Cut, Wire
  <2>5. Made'
    BY <1>2 DEF Cut, Made
  <2> QED BY <2>2, <2>4, <2>5
<1>3. CASE Read
  <2>1. Bodied(frame, size, len)
    BY <1>0, <1>3 DEF Read, TypeOK, Bodied
  <2>2. CodeOf(frame, size) \in Array(size)
    BY <2>1, CodeTyped
  <2>3. PacketOf(origin, frame, size, len) \in Array(len - size)
    BY <2>1, PacketTyped DEF TypeOK
  <2>4. TypeOK'
    BY <1>3, <2>2, <2>3 DEF Read, TypeOK
  <2>5. Wire'
    BY <1>3 DEF Read, Wire
  <2>6. Made'
    BY <1>3 DEF Read, Made
  <2> QED BY <2>4, <2>5, <2>6
<1>4. CASE HoldsNoPacket
  BY <1>4 DEF HoldsNoPacket, TypeOK, Wire, Made
<1>5. CASE Rebuild
  <2>1. Flag \in frame[0]
    BY <1>5, FlagStays DEF Rebuild, Made
  <2>2. Bodied(frame, size, len)
    BY <1>0, <1>5 DEF Rebuild, TypeOK, Made, Bodied
  <2>3. rebuilt' = frame
    BY <1>5, <2>1, <2>2, EncodeUndoesDump DEF Rebuild, Made, TypeOK
  <2>4. TypeOK'
    BY <1>5, <2>3 DEF Rebuild, TypeOK
  <2>5. Wire'
    BY <1>5 DEF Rebuild, Wire
  <2>6. Made'
    BY <1>5 DEF Rebuild, Made
  <2> QED BY <2>4, <2>5, <2>6
<1>6. CASE UNCHANGED vars
  BY <1>6 DEF vars, TypeOK, Wire, Made
<1> QED BY <1>1, <1>2, <1>3, <1>4, <1>5, <1>6 DEF Next

(* An array is as long as its length says, and what dump prints is a        *)
(* function of the frame. *)
THEOREM IfacCorrect == Spec => []IfacInv
BY IfacInitially, IfacStep, PTL DEF Spec

(* Every array of dump_ifac and encode_ifac is as long as its length. *)
THEOREM IfacTypeCorrect == Spec => []TypeOK
<1>1. IfacInv => TypeOK
  BY DEF IfacInv
<1> QED BY <1>1, IfacCorrect, PTL

(* dump -e gives back every frame that dump reads, altered or cut as it is. *)
THEOREM FramesRebuilt == Spec => []RoundTrip
<1>1. IfacInv => RoundTrip
  <2> SUFFICES ASSUME IfacInv, stage = "rebuilt" PROVE rebuilt = frame
    BY DEF RoundTrip
  <2> USE DEF IfacInv
  <2>1. Flag \in frame[0]
    BY FlagStays DEF Made
  <2>2. Bodied(frame, size, len)
    BY SizeAssumption DEF TypeOK, Made, Bodied, Sizes
  <2> QED BY <2>1, <2>2, EncodeUndoesDump DEF Made, TypeOK
<1> QED BY <1>1, IfacCorrect, PTL

(* An unaltered frame gives the packet that was signed, and verifies. *)
THEOREM UnalteredIsGenuine == Spec => []Genuine
<1>1. IfacInv => Genuine
  <2> SUFFICES ASSUME IfacInv, stage \in {"read", "rebuilt"}, hit = <<"whole">>
               PROVE  packet = sent.bytes /\ valid
    BY DEF Genuine
  <2> USE DEF IfacInv
  <2> DEFINE none == [i \in 0..(sent.len - 1) |-> {}]
             made == Transmitted(origin, sent.bytes, sent.len, size)
  <2>1. Sendable(sent.bytes, size, sent.len)
    BY SentIsSendable DEF TypeOK
  <2>2. frame = made /\ len = sent.len + size
    BY DEF Wire
  <2>3. none \in Array(sent.len) /\ Flag \notin none[0]
    BY <2>1, SendableSizes DEF Array, Byte
  <2>4. frame \in Array(sent.len + size)
    BY <2>2 DEF TypeOK
  <2>5. \A i \in 0..(sent.len - 1) :
          frame[Shifted(i, size)] = Xor(made[Shifted(i, size)], none[i])
    BY <2>2 DEF Xor
  <2> HIDE DEF none
  <2>6. /\ CodeOf(frame, size) = ExpectedCode(origin, sent.bytes, size)
        /\ PacketOf(origin, frame, size, sent.len + size)
             = [i \in 0..(sent.len - 1) |-> Xor(sent.bytes[i], none[i])]
    BY <2>1, <2>2, <2>3, <2>4, <2>5, DumpUndoesTransmit DEF TypeOK
  <2>7. \A i \in 0..(sent.len - 1) : Xor(sent.bytes[i], none[i]) = sent.bytes[i]
    BY DEF Xor, none
  <2>8. sent.bytes = [i \in 0..(sent.len - 1) |-> sent.bytes[i]]
    BY <2>1 DEF Sendable, Array
  <2>9. packet = sent.bytes
    BY <2>2, <2>6, <2>7, <2>8 DEF Made
  <2> QED BY <2>6, <2>9 DEF Made
<1> QED BY <1>1, IfacCorrect, PTL

(* A bit altered outside the code is that bit of the packet, and no other. *)
THEOREM AlteredBitByBit == Spec => []AlteredAlike
<1>1. IfacInv => AlteredAlike
  <2> SUFFICES ASSUME IfacInv, stage \in {"read", "rebuilt"}, hit[1] = "bit",
                      hit[2] \notin 2..(size + 1)
               PROVE  /\ ifac = ExpectedCode(origin, sent.bytes, size)
                      /\ packet = [sent.bytes EXCEPT ![Unmoved(hit[2])] = Xor(@, {hit[3]})]
    BY DEF AlteredAlike
  <2> USE DEF IfacInv
  <2> DEFINE made == Transmitted(origin, sent.bytes, sent.len, size)
  <2>0. hit # <<"whole">> /\ hit # <<"cut">>
    <3>1. "bit" # "whole" /\ "bit" # "cut"
      OBVIOUS
    <3> QED BY <3>1
  <2>1. PICK j \in 0..(len - 1), bit \in BITS :
          /\ <<j, bit>> # <<0, Flag>>
          /\ hit = <<"bit", j, bit>>
          /\ frame = [made EXCEPT ![j] = Xor(@, {bit})] /\ len = sent.len + size
    BY <2>0 DEF Wire
  <2> DEFINE place == Unmoved(j)
             d == [i \in 0..(sent.len - 1) |-> IF i = place THEN {bit} ELSE {}]
  <2>2. Sendable(sent.bytes, size, sent.len)
    BY SentIsSendable DEF TypeOK
  <2>3. /\ size \in Nat /\ size >= 1 /\ sent.len \in Nat /\ sent.len >= 3
    BY <2>2, SendableSizes
  <2>4. j \in {0, 1} \union (size + 2)..(sent.len + size - 1)
    BY <2>1, <2>3
  <2>5. place \in 0..(sent.len - 1) /\ Shifted(place, size) = j
    BY <2>3, <2>4 DEF Unmoved, Shifted
  <2>6. d \in Array(sent.len) /\ Flag \notin d[0]
    <3>1. \A i \in 0..(sent.len - 1) : (IF i = place THEN {bit} ELSE {}) \in Byte
      BY DEF Byte
    <3>2. d \in Array(sent.len)
      BY <3>1, <2>3 DEF Array
    <3>3. place = 0 => j = 0
      BY <2>3, <2>4 DEF Unmoved
    <3>4. Flag \notin d[0]
      BY <2>1, <2>3, <3>3
    <3> QED BY <3>2, <3>4
  <2>7. frame \in Array(sent.len + size)
    BY <2>1 DEF TypeOK
  <2>8. DOMAIN made = 0..(sent.len + size - 1)
    BY DEF Transmitted
  <2>9. \A i \in 0..(sent.len + size - 1) :
          frame[i] = IF i = j THEN Xor(made[i], {bit}) ELSE made[i]
    BY <2>1, <2>8
  <2> HIDE DEF made
  <2>10. \A i \in 2..(size + 1) : frame[i] = made[i]
    BY <2>3, <2>4, <2>9
  <2>11. \A i \in 0..(sent.len - 1) :
           frame[Shifted(i, size)] = Xor(made[Shifted(i, size)], d[i])
    <3> TAKE i \in 0..(sent.len - 1)
    <3>1. Shifted(i, size) \in 0..(sent.len + size - 1)
      BY <2>3 DEF Shifted
    <3>2. Shifted(i, size) = j <=> i = place
      BY <2>3, <2>4, <2>5 DEF Shifted, Unmoved
    <3>3. d[i] = IF i = place THEN {bit} ELSE {}
      OBVIOUS
    <3> HIDE DEF d, place
    <3>4. \A a : Xor(a, {}) = a
      BY DEF Xor
    <3> QED BY <2>9, <3>1, <3>2, <3>3, <3>4
  <2> HIDE DEF d
  <2>12. /\ CodeOf(frame, size) = ExpectedCode(origin, sent.bytes, size)
         /\ PacketOf(origin, frame, size, sent.len + size)
              = [i \in 0..(sent.len - 1) |-> Xor(sent.bytes[i], d[i])]
    BY <2>2, <2>6, <2>7, <2>10, <2>11, DumpUndoesTransmit DEF TypeOK, made
  <2>13. \A i \in 0..(sent.len - 1) :
           Xor(sent.bytes[i], d[i])
             = IF i = place THEN Xor(sent.bytes[i], {bit}) ELSE sent.bytes[i]
    BY DEF Xor, d
  <2>14. [sent.bytes EXCEPT ![place] = Xor(@, {bit})]
           = [i \in 0..(sent.len - 1) |-> Xor(sent.bytes[i], d[i])]
    <3>1. sent.bytes = [i \in 0..(sent.len - 1) |-> sent.bytes[i]]
      BY <2>2 DEF Sendable, Array
    <3> HIDE DEF place
    <3> QED BY <3>1, <2>5, <2>13
  <2>15. hit[2] = j /\ hit[3] = bit
    BY <2>1
  <2>16. packet = PacketOf(origin, frame, size, sent.len + size) /\ ifac = CodeOf(frame, size)
    BY <2>1 DEF Made
  <2> QED BY <2>12, <2>14, <2>15, <2>16
<1> QED BY <1>1, IfacCorrect, PTL
=============================================================================
