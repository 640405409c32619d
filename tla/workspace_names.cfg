\* Two names with the same identifiers.
SPECIFICATION Spec
CONSTANTS
    Names <- MCIdentifiers
    Sibilants <- MCSibilants
    Rpcs <- MCRpcs
    Template <- MCTemplate
    Included <- MCIncluded
    LastSecond = 1
    MaxEdits = 0
    MaxFails = 1
\* Once the developer has done all she may, a truncated buf.gen.yaml stops the tools.
CHECK_DEADLOCK FALSE
INVARIANTS
    IdentifiersDiffer
