SPECIFICATION Spec
CONSTANTS
    Projects = {main}
    Main = main
    Names = {fix}
    Files = {f}
    Requests = {r1, r2}
    MaxSeq = 2
SYMMETRY Symmetry
INVARIANTS SessionsApart WorkKept
PROPERTIES StartsClean
