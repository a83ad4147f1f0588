------------------------------ MODULE MCSupport -------------------------------
(* Instances of the parts of Support.                                       *)
EXTENDS Support, TLC

CONSTANTS t1, t2, m1, m2, m3

MCFirstMedia == m1 :> "cover" @@ m2 :> "plain" @@ m3 :> "none"
MCTagLists == {<<>>, <<t1>>, <<t1, t2>>, <<t2, t1>>}
=============================================================================
