SPECIFICATION Spec
CONSTANTS
    Scripts <- SomeScripts
    Requests <- SomeRequests
    Clusters <- SomeLimits
    Configs <- SomeConfigs
INVARIANTS
    TypeOK
    OnlyOnSuitablePartition
    NotKeptFromSuitablePartition
    
    ContainerScriptDoesAsRequested
