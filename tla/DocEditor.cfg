CONSTANTS
    Missing = Missing
    None = None
    Err = Err

SPECIFICATION Spec

INVARIANT Durable
