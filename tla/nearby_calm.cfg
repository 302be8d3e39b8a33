SPECIFICATION Spec
CONSTANTS
    a = a
    b = b
    Device <- Two
    Newer <- OneOfTwo
    Calm = TRUE
    MaxEvents = 8
    MaxStats = 1
    None = None
    Lost = Lost
PROPERTIES
    SyncCompletes
