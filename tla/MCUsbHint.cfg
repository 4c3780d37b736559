\* No bus reset: the host polls both endpoints of one long session.
CONSTANTS
    Depth = 1
    MaxChunks = 1
    MaxFrames = 2
    MaxResets = 0
    Traffic = {"DATA"}
SPECIFICATION Spec
PROPERTIES HostHears
