CONSTANTS
    Drivers <- AllDrivers
    Numbers <- ThreeNumbers
    Files <- OneFile
    None = None
    Freed = Freed
    n1 = n1
    n2 = n2
    n3 = n3
    f1 = f1
SPECIFICATION Spec
SYMMETRY NumberSymmetry
INVARIANTS TypeOK ReleasedInOrder DeviceStays
PROPERTIES UnloadFrees
