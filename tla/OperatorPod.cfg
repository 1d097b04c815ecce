SPECIFICATION FairSpec
CONSTANTS
    Https = TRUE
    Window = 4
    CertSleep = 6
    TADelay = 4
    ReaderDelay = 8
    Threshold = 3
    MaxLag = 5
    MaxVersion = 2
    MaxUpsets = 3
INVARIANTS PickedUp OwnCertificatesQuiet
PROPERTIES FreshIsSpared EventuallyApplied
