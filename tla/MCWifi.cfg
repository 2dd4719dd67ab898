\* Two WPS networks, three presses, two power failures.
CONSTANTS
    Networks = {n1, n2}
    None = None
    QueueSize = 2
    MaxPresses = 3
    MaxLosses = 2
SPECIFICATION FairSpec
INVARIANT CredentialsMatch
PROPERTIES WpsNotRestarted ButtonStartsWps WpsEnds BothNetworksTried
