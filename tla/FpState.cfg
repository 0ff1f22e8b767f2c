CONSTANTS
    Host = "x86"
    NV = "NV"
    Flags = {"NV", "NX"}
SPECIFICATION Spec
INVARIANT ScalarRoundsAsFrm
INVARIANT HostModeTracksFrm
PROPERTY FlagsAccrue
