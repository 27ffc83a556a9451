SPECIFICATION Spec
CONSTANTS
    Scripts <- MCScripts
    Updates <- MCUpdates
    Items <- MCItems
    MaxFaults = 1
INVARIANTS
    
    AgreesWithBroker
PROPERTIES
    DeclaredBeforeOpen
    
CHECK_DEADLOCK FALSE
