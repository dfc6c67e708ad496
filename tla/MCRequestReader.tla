--------------------------- MODULE MCRequestReader ---------------------------
(* The instance of RequestReader for TLC: four requests, with bodies of 2,   *)
(* 0, 1 and 2 units, the first and the last one read into a file.            *)
EXTENDS RequestReader, TLC

Four == 0 :> 0 @@ 1 :> 4 @@ 2 :> 6 @@ 3 :> 9 @@ 4 :> 13
Multipart == {1, 4}
=============================================================================
