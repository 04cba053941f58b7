SPECIFICATION Spec
CONSTANTS
    Kinds <- SomeKinds
    Listings <- SomeListings
    MaxJobs = 2
    MaxFailures = 1
INVARIANTS
    TypeOK
    ReportedEndIsReal
    DuplicatesOnlyAfterFailures
PROPERTIES
    
    EndIsLearned
