\* Every draft over the representative keys and raw values.
CONSTANTS
    Missing = Missing
    None = None
    Err = Err

SPECIFICATION Spec
INVARIANT ParsersAgree
INVARIANT RenderRoundTrip
INVARIANT PeerAddrAbsent
