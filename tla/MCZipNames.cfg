CONSTANTS
    Components <- MCComponents
    Inputs <- MCInputs
    MaxInputs = 3
SPECIFICATION NamesSpec
INVARIANTS
    NamesDoNotClash
    ParentsPrecedeChildren
    ManifestLeadsJar
\* The producer returns.
CHECK_DEADLOCK FALSE
