\* Two passes, the disassembler and the two passes again.
CONSTANTS
    MAX_WORDS = 65536
    IntEnd = 524288
    MaxDump = 4
    Sources <- MCSources
SPECIFICATION Spec
INVARIANTS
    OutbufBounded
    LabelsAgree
    BranchesLand
    ImageDecodes
    RoundTrip
CHECK_DEADLOCK FALSE
