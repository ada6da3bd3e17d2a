------------------------- MODULE MC_DfuReqHandling -------------------------
(* Values for the request handler: the image that is installed, and one    *)
(* that fits behind it and takes two objects, the last of half a buffer.   *)
EXTENDS DfuReqHandling, TLC

CONSTANTS factory, small

MCImages == {factory, small}

MCSize == (factory :> 2) @@ (small :> 3)

=============================================================================
