\* Two slots, a spare handle, three events under way.
CONSTANTS
    MaxLinks = 2
    Handles = {h1, h2, h3}
    NoHandle = NoHandle
    MaxEvents = 3
SPECIFICATION Spec
INVARIANTS TypeOK LinkOwned OneConnect ScanKnown
