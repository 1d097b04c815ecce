SPECIFICATION StartSpec
CONSTANTS
    Clusters <- MCClusters
    Settings <- MCSettings
    Customs <- MCCustoms
    CcpSettings <- MCCcpSettings
INVARIANT CcpReported
