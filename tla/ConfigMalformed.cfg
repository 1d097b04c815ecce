SPECIFICATION StartSpec
CONSTANTS
    Clusters <- MCClusters
    Settings <- MCSettings
    Customs <- MCMalformed
    CcpSettings <- MCCcpSettings
INVARIANT DefaultsSurviveAny
