SPECIFICATION Spec
CONSTANTS
    Cap = 3
    MaxId = 9
    Ids <- MCIds
INVARIANTS TypeOK ContainsExact
PROPERTIES AcceptedOnce ImplementsDedup
