------------------------------- MODULE MCIfac -------------------------------
(* A byte is its flag and one more bit; a signature is two bytes, each the  *)
(* parity of the packet and of the configuration, and a keystream depends   *)
(* on every byte of the code and on the place.                              *)
EXTENDS Ifac, FiniteSetsExt

MCPackets ==
  UNION {{[len |-> n, bytes |-> b] : b \in {a \in Array(n) : Flag \notin a[0]}} : n \in {3, 4}}

Parity(f, bit) == Cardinality({i \in DOMAIN f : bit \in f[i]}) % 2

MCSignature(org, p) ==
  [i \in 0..(SIGLEN - 1) |->
     {bit \in BITS : (Parity(p, bit) + i + Cardinality(org)) % 2 = 0}
       \union (IF "netkey" \in org THEN p[1] ELSE {})]

MCMask(org, code, n) ==
  [i \in 0..(n - 1) |->
     {bit \in BITS : (Parity(code, bit) + (IF "netname" \in org THEN i ELSE i \div 2)) % 2 = 0}]
=============================================================================
