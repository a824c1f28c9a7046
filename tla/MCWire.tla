--------------------------------- MODULE MCWire -------------------------------
(***************************************************************************)
(* The codec with bytes 0, 1 and 2 and a two-byte length: two messages of  *)
(* different lengths, one of them as long as the bound, a body that does   *)
(* not parse, an empty one, and one over the bound that reads like frames. *)
(***************************************************************************)
EXTENDS PexWire

JsonOf == [m \in {"delta", "error"} |-> IF m = "delta" THEN <<1, 0, 1>> ELSE <<2>>]
OtherBodies == {<<0, 1>>, <<>>, <<0, 1, 2, 0>>}
===============================================================================
