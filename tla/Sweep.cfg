SPECIFICATION Spec
CONSTANT NumFloors = 4
INVARIANTS
    TypeOK
    ClosestIsNearest
PROPERTIES
    EveryStepBringsNearer
    EveryOrderServed
