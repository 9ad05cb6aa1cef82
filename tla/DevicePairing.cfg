CONSTANTS
    m1 = m1
    Actors = {a1, a2}
    Machines = {m1}
    Devices = {d1}
    MachineOf <- OneComputer
    Slots = {p1, p2}
    Procs = {q1, q2}
    NoActor = NoActor
    NoFile = NoFile
    Torn = Torn
    MaxVersion = 2
    MaxFaults = 1
    MaxChanges = 2
SYMMETRY Interchangeable
SPECIFICATION Spec
CHECK_DEADLOCK FALSE
INVARIANTS
    OneAuthority
    StoredBindingWasMade
    SessionsBacked
PROPERTIES
    GrantedWhileBacked
