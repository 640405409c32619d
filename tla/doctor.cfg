\* Two changes by the developer and two runs of make, during any runs of doctor
\* and upgrade.
SPECIFICATION Spec
CONSTANTS
    Static <- MCStatic
    ToolChecks <- MCToolChecks
    Installed <- MCInstalled
    Versions = {v1, v2}
    Current = v2
    Elsewhere = Elsewhere
    Blank = Blank
    Absent = Absent
    Missing = Missing
    Malformed = Malformed
    Unknown = Unknown
    MaxEdits = 2
    MaxRuns = 2
INVARIANTS
    TypeOK
    VerdictIsEarned
    CommandsAgree
    HintHelps
