SPECIFICATION StartSpec
CONSTANTS
    Clusters <- MCClusters
    Settings <- MCSettings
    Customs <- MCCustoms
    CcpSettings <- MCCcpSettings
INVARIANTS
    DefaultsSurvive
    ScrapedOnce
    CustomAllOrNothing
    ConfigLoads
    CcpAsAsked
    FiltersWhole
