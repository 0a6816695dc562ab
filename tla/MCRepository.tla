---------------------------- MODULE MCRepository ----------------------------
(* Two vectors, each not there, whole in one version or the other, mixed,   *)
(* or as far as a run of gen that died had come; INDEX in any condition.    *)
EXTENDS Repository

Shapes == {<<"absent", "absent", "absent">>, <<"wanted", "wanted", "wanted">>,
           <<"other", "other", "other">>, <<"wanted", "other", "other">>,
           <<"wanted", "other", "wanted">>, <<"wanted", "torn", "absent">>,
           <<"wanted", "wanted", "absent">>, <<"wanted", "wanted", "torn">>}
TwoVectors ==
  {[p \in G!Paths |-> IF p = 0 THEN index ELSE IF p <= 3 THEN first[p] ELSE second[p - 3]] :
     index \in {"absent", "wanted", "torn", "other"}, first \in Shapes, second \in Shapes}
=============================================================================
