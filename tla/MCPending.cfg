CONSTANTS
    Devices = {d1, d2}
    Spellings = {"lower", "upper"}
SPECIFICATION Spec
INVARIANTS TypeOK UnknownIsListed KnownIsNotListed
