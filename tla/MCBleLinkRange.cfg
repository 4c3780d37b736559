\* A discovery that takes two responses.
CONSTANTS
    LastHandle = 3
    MaxStarts = 3
SPECIFICATION Spec
INVARIANT RangeAnswered
