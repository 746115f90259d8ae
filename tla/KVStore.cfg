SPECIFICATION Spec
CONSTANTS
    Key = {a, b, c}
    Capacity = 2
    MaxLL = 1
INVARIANTS TypeOK IndexMatchesList WithinCapacity
PROPERTY ImplementsLRUCache
