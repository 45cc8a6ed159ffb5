\* Two items, two calls at a time, bulkheads with one slot.
SPECIFICATION Spec
SYMMETRY Symmetry
CONSTANTS
    Items = {i1, i2}
    NoItem = NoItem
    Calls = {c1, c2}
    Limit = 1
    Others = {"submit", "info", "status"}
INVARIANTS
    TypeOK
    SlotsAreCalls
    ConfirmedIsDecided
    DecidedIsNotOffered
