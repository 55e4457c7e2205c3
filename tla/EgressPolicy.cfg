SPECIFICATION Spec
CONSTANTS
    Names <- TheNames
    Files <- TheFiles
    Allow <- TheAllow
    DoH <- TheDoH
    Addrs <- TheAddrs
    Answers <- TheAnswers
    Ports <- ThePorts
INVARIANTS LanOnlyByException DialledWasScreened UnlistedIsDenied ListedIsServed ToldIsListed
CHECK_DEADLOCK FALSE
