SPECIFICATION FairSpec
CONSTANTS
    Https = FALSE
    Window = 4
    CertSleep = 6
    TADelay = 4
    ReaderDelay = 8
    Threshold = 3
    MaxLag = 5
    MaxVersion = 2
    MaxUpsets = 0
PROPERTY EventuallyPickedUp
