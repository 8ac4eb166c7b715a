CONSTANTS
    NoFactor = NoFactor
    Mails <- MCMails
    MaxPartText = 10
    MaxTotalText = 13
    MaxParts = 2
    MaxDepth = 1
    MaxAttachmentBytes = 20
    Window = 6
    Overlap = 2
    MinSplit = 1
    MaxWindows = 5
    MaxAttachmentWindows = 3
    Classifier = TRUE
    Labels = {"instruction", "secrets"}
    LabelFactor <- MCLabelFactor
    LabelAttachmentFactor <- MCLabelAttachmentFactor
    PatternFactors = {"instruction", "attachment"}
    FactorPoints <- MCFactorPoints
    SenderBaselines <- MCSenderBaselines
    RecipientAdjust <- MCRecipientAdjust
    Threshold = 70
    Keys = {"x", "y"}
SPECIFICATION FairSpec
CHECK_DEADLOCK FALSE
INVARIANTS
    TypeOK
    HandledIsRead
    FlagsCount
PROPERTIES
    Ends
