\* A descriptor of two packets, short and long requests, two faults, two packets each way.
CONSTANTS
    Ep0Size = 2
    DescLen = 3
    Wants = {1, 2, 4}
    Retries = 1
    MaxFaults = 2
    MaxPackets = 2
SPECIFICATION Spec
INVARIANTS TypeOK Answered AddressAgrees InKept OutKept
PROPERTIES Enumerates
