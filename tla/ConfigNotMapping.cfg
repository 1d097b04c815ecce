SPECIFICATION StartSpec
CONSTANTS
    Clusters <- MCClusters
    Settings <- MCSettings
    Customs <- MCNotMapping
    CcpSettings <- MCCcpSettings
INVARIANT DefaultsSurviveAny
