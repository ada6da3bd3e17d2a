--------------------------- MODULE MC_DfuActivate ---------------------------
(* Two applications, of which the larger one fits beside the smaller but   *)
(* not beside itself, a SoftDevice of whole pages, a bootloader, and both  *)
(* together with a SoftDevice that does not end on a page.                 *)
EXTENDS DfuActivate, TLC

CONSTANTS small, large, softdevice, bootloader, both

MCImages == {small, large, softdevice, bootloader, both}

MCKind == (small :> "APP") @@ (large :> "APP") @@ (softdevice :> "SD")
          @@ (bootloader :> "BL") @@ (both :> "SD_BL")

MCPages == (small :> 2) @@ (large :> 3) @@ (softdevice :> 2) @@ (bootloader :> 1)
           @@ (both :> 2)

MCSdSize == (small :> 0) @@ (large :> 0) @@ (softdevice :> 4) @@ (bootloader :> 0)
            @@ (both :> 3)

MCBlSize == (small :> 0) @@ (large :> 0) @@ (softdevice :> 0) @@ (bootloader :> 2)
            @@ (both :> 1)

MCOffers == {{small, large}, {small, both}, {softdevice, bootloader, both}}

AllStages == Stages

=============================================================================
