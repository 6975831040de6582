SPECIFICATION Spec
CONSTANTS
    a = a
    b = b
    c1 = c1
    c2 = c2
    n1 = n1
    n2 = n2
    None = None
    Calls <- MCCalls
    From <- MCFrom
    Parent <- MCParent
    Cap = 1
    MaxBad = 1
INVARIANTS
    OkMeansHandled
PROPERTY CallReturns
