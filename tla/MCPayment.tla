------------------------------- MODULE MCPayment ------------------------------
(***************************************************************************)
(* Two peers and two networks, whose names and payees run together: the    *)
(* bytes 1, then 2 and 3, are the bytes 1 and 2, then 3.  Spkis and        *)
(* signatures are as long as their caps allow, and one payee is longer.    *)
(***************************************************************************)
EXTENDS PexPayment

IdOf == [k \in {"ka", "kb"} |-> IF k = "ka" THEN <<7, 8>> ELSE <<8, 7>>]
LenOf == [k \in {"ka", "kb"} |-> 6]
SigContext == <<9>>
TwoNetworks == {<<1>>, <<1, 2>>}
Payees == {<<2, 3>>, <<3>>, <<2, 3, 3>>}
Ids == {<<7, 8>>, <<8, 7>>}
Undecodable == {[of |-> None, len |-> 4]}
===============================================================================
