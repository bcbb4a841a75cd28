CONSTANTS
    Services <- MCServices
    MaxHooks <- MCMaxHooks
    MaxDepth = 2
SPECIFICATION Spec
INVARIANTS TypeOK IndexAgrees
PROPERTY TerminateAllEnds
