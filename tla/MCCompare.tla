----------------------------- MODULE MCCompare -----------------------------
EXTENDS CompareRanks

Stem(r, q, p) == [rank |-> r, runner |-> q, pid |-> p]

(* Rank 0 was restarted and captures two runners; rank 1 captures one.     *)
SomeStems == {Stem(0, 1, 2), Stem(0, 1, 1), Stem(0, 2, 2), Stem(1, 1, 1)}

Row(v, b) == [variant |-> v, bytes |-> b]

SomeContents == {<<Row("a", 3), Row("a", 1)>>, <<Row("a", 2), Row("b", 3)>>}

(* None, or one of an earlier version that used nothing of a variant.      *)
SomeBaselines == {NoBaseline, (<<0, "a">> :> 0)}

SomeThresholds == {<<0, 1>>, <<1, 2>>}
=============================================================================
