SPECIFICATION Spec
CONSTANTS
    t1 = t1
    t2 = t2
    t3 = t3
    Task <- MCTask
    Permits = 2
    MaxDeps = 2
INVARIANT Acyclic
INVARIANT DependencyOrder
INVARIANT DeclaredHonoured
INVARIANT BoundedConcurrency
PROPERTY OkMeansAllRan
PROPERTY FailStop
SYMMETRY TaskSymmetry
