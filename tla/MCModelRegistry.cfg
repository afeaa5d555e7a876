\* Three versions of a model, two threads of jobs; every statement may fail.
CONSTANTS
    Versions = {v1, v2, v3}
    Workers = {w1, w2}
    v1 = v1
    v2 = v2
    v3 = v3
    w1 = w1
    w2 = w2
    StatementsFail = TRUE
SYMMETRY RegistrySymmetry
SPECIFICATION RegistrySpec
INVARIANTS
    OneProduction
    TransactionIsOwned
PROPERTIES
    CallsAreAtomic
