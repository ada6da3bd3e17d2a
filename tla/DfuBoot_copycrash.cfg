CONSTANTS
    small = small
    large = large
    Images <- MCImages
    Pages <- MCPages
    Kind <- MCKind
    SdSize <- MCSdSize
    Region = 6
    StorePages = 2
    Factory = small
    Erased = Erased
    Torn = Torn
    NoSettings = NoSettings
    NoImage = NoImage
    FlashFails = FALSE
    PowerFails <- AllStages
    SettingsTear = FALSE
    MaxFailures = 1
SPECIFICATION Spec
INVARIANTS FailSafe
