CONSTANTS
    CheckedDays <- MCDays
    WdtSeconds = 4
SPECIFICATION FairSpec
INVARIANTS SpiHeld DatesRight
PROPERTIES BitesOnlyHung HangEnds
