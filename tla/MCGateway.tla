----------------------------- MODULE MCGateway -----------------------------
(* A write, its read-back and two reads, or two writes that are read back, *)
(* at one connector.                                                       *)
EXTENDS Gateway, TLC

CONSTANTS w1, w2, b1, b2, r1, r2

OneWrite    == {w1}
OneReadback == {b1}
TwoReads    == {r1, r2}
Pair        == w1 :> b1

NoRead       == {}
TwoWrites    == {w1, w2}
TwoReadbacks == {b1, b2}
Pairs        == w1 :> b1 @@ w2 :> b2
=============================================================================
