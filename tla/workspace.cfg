\* Two features with one plural, failing tools and a developer.
SPECIFICATION Spec
CONSTANTS
    Names <- MCPlurals
    Sibilants <- MCSibilants
    Rpcs <- MCRpcs
    Template <- MCTemplate
    Included <- MCIncluded
    LastSecond = 1
    MaxEdits = 2
    MaxFails = 1
\* Once the developer has done all she may, a truncated buf.gen.yaml stops the tools.
CHECK_DEADLOCK FALSE
INVARIANTS
    TypeOK
    GlueIsRebuilt
    AddedFeatureBuilds
    OneMigrationPerTable
PROPERTIES
    HandWorkKept
    GeneratingAgainChangesNothing
