-------------------------- MODULE MC_DfuTransport ---------------------------
(* Values for the transport: an image that fits behind the application and *)
(* one that does not, and a receipt that falls into the middle of an        *)
(* object, or none.                                                        *)
EXTENDS DfuTransport, TLC

CONSTANTS factory, small, large

MCImages == {factory, small, large}

MCSize == (factory :> 2) @@ (small :> 5) @@ (large :> 7)

=============================================================================
