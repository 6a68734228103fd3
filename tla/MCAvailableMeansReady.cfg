CONSTANTS
    Server = {s1, s2}

SPECIFICATION Spec

PROPERTY
    AvailableMeansReady
