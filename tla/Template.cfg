\* The officer's page and the filing thread on one formal record.
CONSTANTS
    Texts <- MCTexts
    Opening <- MCOpening
    Closing <- MCClosing
    TimeTexts <- MCTimeTexts
    Remarks <- MCRemarks
    Chatter <- MCChatter
    Vague <- MCVague
    Scenarios <- MCScenarios
    Narrow = "hands"
SPECIFICATION Spec
INVARIANTS
    WorkspaceInOrder
    FiledOnce
PROPERTIES
    TimeNotMisfiled
\* The interrogation ends and the officer need not do anything.
CHECK_DEADLOCK FALSE
