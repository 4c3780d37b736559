\* Three attributes, three procedures of the stack.
CONSTANTS
    LastHandle = 3
    MaxStarts = 3
SPECIFICATION Spec
INVARIANTS TypeOK Answered NotStuck OneProcedure
