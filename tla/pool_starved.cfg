SPECIFICATION Spec
CONSTANTS
    l1 = l1
    l2 = l2
    l3 = l3
    r1 = r1
    r2 = r2
    Listers = {l1, l2}
    Readers = {r1}
    MaxConns = 2
    MaxRows = 2
PROPERTIES
    DashboardAnswers
