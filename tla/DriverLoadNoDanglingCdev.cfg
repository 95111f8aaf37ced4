CONSTANTS
    Drivers <- UdevOnly
    Numbers <- TwoNumbers
    Files <- OneFile
    None = None
    Freed = Freed
    n1 = n1
    n2 = n2
    n3 = n3
    f1 = f1
SPECIFICATION Spec
INVARIANTS NoDanglingCdev
