CONSTANTS
    small = small
    large = large
    softdevice = softdevice
    bootloader = bootloader
    both = both
    Images <- MCImages
    Kind <- MCKind
    Pages <- MCPages
    SdSize <- MCSdSize
    BlSize <- MCBlSize
    Offers <- MCOffers
    PageUnits = 2
    SdUnits = 4
    BlUnits = 2
    Region = 5
    StorePages = 2
    Factory = small
    Erased = Erased
    Torn = Torn
    NoSettings = NoSettings
    NoImage = NoImage
    FlashFails = TRUE
    PowerFails <- AllStages
    SettingsTear = TRUE
    MaxFailures = 2
SPECIFICATION FairSystemSpec
INVARIANTS BootsWhole ValidatedIsInstalled ActivationTracked
PROPERTIES ReceivingKeepsApp BootDecides
