SPECIFICATION Spec
CONSTANTS
    Channels <- MCChannels
    ScriptNames <- MCScriptNames
    Script <- MCScript
    MaxFrame = 24
    DecoderMax = 400
    ReadSizes = {3, 40}
    MaxReconnects = 1
INVARIANTS
    Transparent
    
CHECK_DEADLOCK FALSE
