SPECIFICATION Spec
CONSTANTS
    Objects <- MCObjects
    Actions <- MCActions
    None = None
    Affected <- MCAffected
    Duration <- MCDuration
    InitActions <- MCInits
    Roots <- MCRoots
    Delays = {1}
    MaxNew = 2
    Safe = FALSE
PROPERTIES DurationRespected
