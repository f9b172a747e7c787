SPECIFICATION Spec
CONSTANTS
    Paths <- MCPaths
    Plugins = {"p"}
    MaxOps = 4
    MaxChain = 3
    Kinds <- MCKinds
    Secrets = {"t", "u"}
    Jars <- MCJars
    Addresses <- MCAddresses
    Ranges <- MCRanges
    Lengths = {0, 1, 2, 1024, 1025}
    Origins = {"o", "p"}
    Bodies <- MCBodies
    Limits <- MCLimits
CHECK_DEADLOCK FALSE
INVARIANTS
    RegistrationSound
    
    AnswerTold
    SessionCookie
PROPERTIES
    StartedOnce
    
