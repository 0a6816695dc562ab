---------------------------- MODULE MCPrimitives ----------------------------
(* Messages on both sides of every edge of a block; what the files under    *)
(* test/ that are named hold; and tokens of both lengths of key, padded as  *)
(* a writer pads, or as none does, or ending inside of a block.             *)
EXTENDS Primitives

Octets(ns) == [i \in 1..Len(ns) |-> BitsOf(ns[i])]
Counting(n) == [i \in 1..n |-> BitsOf((11 * i + n) % 256)]

Lengths == {[kind |-> "message", data |-> Counting(n)] : n \in (0..66) \union (116..131)}

reticulum == Octets(<<114, 101, 116, 105, 99, 117, 108, 117, 109>>)
Salt == Octets(<<173, 245, 77, 136, 44, 154, 155, 128, 119, 30, 180, 153, 93, 112, 45, 74, 62, 115, 51,
                 145, 178, 160, 245, 63, 65, 109, 159, 144, 126, 85, 207, 248>>)
(* encrypted/minimal *)
Derived == {[kind |-> "secret", context |-> << >>, len |-> DERIVEDLEN,
  ikm |-> Octets(<<201, 253, 207, 46, 107, 134, 233, 209, 231, 140, 195, 204, 232, 209, 228, 154, 48,
                   128, 218, 68, 156, 171, 180, 219, 106, 7, 144, 145, 5, 90, 202, 65>>),
  salt |-> Octets(<<101, 11, 93, 118, 182, 190, 192, 57, 13, 31, 140, 252, 165, 189, 51, 249>>),
  gives |-> Octets(<<97, 209, 222, 13, 115, 9, 124, 66, 112, 50, 186, 197, 45, 83, 118, 176, 70, 185,
                     133, 106, 83, 209, 232, 132, 28, 198, 248, 201, 99, 158, 106, 255, 160, 10, 21,
                     166, 207, 223, 231, 165, 251, 74, 118, 167, 124, 202, 138, 147, 162, 163, 118, 210,
                     36, 165, 55, 183, 204, 19, 32, 102, 59, 220, 210, 140>>)]}
(* ifac/announce and ifac/passphrase *)
Name == Octets(<<114, 101, 116, 105, 99, 117, 108, 117, 109, 45, 118, 101, 99, 116, 111, 114, 115>>)
Configured == {
  [kind |-> "interface", netname |-> Name, netkey |-> << >>,
   gives |-> Octets(<<235, 93, 170, 239, 113, 73, 112, 245, 10, 82, 131, 222, 219, 142, 241, 136, 6, 65,
                      211, 117, 24, 91, 11, 72, 56, 244, 243, 245, 89, 157, 214, 248, 82, 24, 80, 63,
                      77, 28, 41, 200, 54, 60, 157, 135, 188, 89, 104, 131, 156, 221, 61, 103, 116, 227,
                      64, 149, 18, 12, 174, 120, 7, 210, 168, 197>>)],
  [kind |-> "interface", netname |-> Name,
   netkey |-> Octets(<<111, 112, 101, 110, 32, 115, 101, 115, 97, 109, 101>>),
   gives |-> Octets(<<138, 159, 155, 65, 203, 123, 235, 238, 15, 118, 23, 102, 42, 119, 50, 7, 65, 200,
                      44, 214, 93, 92, 94, 222, 54, 240, 248, 227, 177, 162, 127, 177, 44, 70, 104, 90,
                      11, 255, 190, 212, 247, 226, 63, 207, 60, 210, 17, 88, 152, 223, 65, 7, 149, 136,
                      195, 205, 106, 221, 190, 200, 111, 157, 155, 164>>)]}
(* group/aes128, group/minimal, group/altered-hmac and encrypted/minimal *)
Key128 == Octets(<<196, 39, 192, 12, 180, 43, 3, 189, 249, 241, 120, 98, 127, 193, 175, 134, 130, 0,
                   204, 184, 86, 202, 155, 180, 242, 80, 116, 85, 44, 204, 31, 60>>)
Key256 == Octets(<<207, 236, 195, 74, 150, 72, 45, 76, 160, 49, 123, 168, 247, 192, 97, 197, 54, 106,
                   245, 173, 26, 117, 162, 203, 180, 39, 187, 58, 67, 165, 97, 194, 56, 232, 22, 89,
                   116, 43, 229, 183, 112, 53, 128, 155, 3, 156, 189, 142, 255, 134, 241, 220, 250, 161,
                   72, 212, 132, 247, 64, 234, 112, 135, 91, 170>>)
Whole == [mac_ok |-> TRUE, opened |-> TRUE, plain |-> reticulum]
Nothing == [mac_ok |-> FALSE, opened |-> FALSE, plain |-> << >>]
OfTheCorpus == {
  [kind |-> "received", key |-> Key128, gives |-> Whole,
   token |-> Octets(<<189, 115, 128, 216, 84, 37, 148, 14, 151, 246, 18, 38, 252, 9, 155, 53, 116, 15,
                      135, 37, 134, 106, 166, 80, 91, 231, 12, 148, 139, 102, 166, 112, 51, 118, 218,
                      193, 185, 108, 242, 173, 158, 4, 170, 111, 108, 201, 26, 15, 11, 179, 61, 215,
                      118, 183, 96, 54, 140, 85, 253, 225, 237, 145, 42, 189>>)],
  [kind |-> "received", key |-> Key256, gives |-> Whole,
   token |-> Octets(<<140, 229, 124, 253, 180, 2, 131, 84, 63, 39, 80, 28, 18, 170, 48, 107, 198, 228,
                      134, 119, 95, 31, 120, 57, 224, 6, 10, 32, 98, 89, 105, 195, 97, 151, 254, 45, 7,
                      48, 64, 222, 175, 100, 56, 143, 71, 242, 179, 128, 147, 13, 74, 240, 68, 64, 41,
                      236, 185, 246, 5, 177, 225, 126, 247, 188>>)],
  [kind |-> "received", key |-> Key256, gives |-> Nothing,
   token |-> Octets(<<140, 229, 124, 253, 180, 2, 131, 84, 63, 39, 80, 28, 18, 170, 48, 107, 198, 228,
                      134, 119, 95, 31, 120, 57, 224, 6, 10, 32, 98, 89, 105, 195, 97, 151, 254, 45, 7,
                      48, 64, 222, 175, 100, 56, 143, 71, 242, 179, 128, 147, 13, 74, 240, 68, 64, 41,
                      236, 185, 246, 5, 177, 225, 126, 247, 189>>)],
  [kind |-> "received", key |-> (CHOOSE d \in Derived : TRUE).gives, gives |-> Whole,
   token |-> Octets(<<212, 13, 176, 209, 3, 166, 56, 253, 168, 40, 199, 113, 153, 46, 205, 82, 233, 158,
                      252, 157, 243, 68, 150, 7, 155, 0, 0, 14, 86, 154, 105, 86, 95, 202, 174, 209, 86,
                      37, 252, 140, 219, 200, 241, 120, 30, 147, 68, 90, 251, 208, 192, 231, 62, 170,
                      37, 137, 61, 98, 131, 201, 23, 254, 35, 160>>)]}

Pad(n) == LET pad == 16 - (n % 16) IN Counting(n) \o [i \in 1..pad |-> BitsOf(pad)]
Ends(n) == Counting(15) \o <<BitsOf(n)>>
Bodies == {Pad(n) : n \in {0, 1, 15, 16, 17}} \union {Ends(n) : n \in {0, 3, 16, 17, 255}}
            \union {<< >>}
Hits == {<<"whole">>, <<"cut", 48>>} \union {<<"bit", i, 7>> : i \in {1, 16, 17, 40}}
Sent ==
  {t \in [kind : {"token"}, key : {Key128, Key256}, body : Bodies,
          ragged : {<< >>, Counting(1), Counting(15)}, hit : Hits] :
     /\ t.ragged # << >> => t.body \in {<< >>, Pad(1), Pad(17)}
     /\ t.hit[1] = "cut" => t.body # << >>}
=============================================================================
