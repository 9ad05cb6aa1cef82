\* A binding file that cannot be read again, and a second member who connects
\* with the first one's file. TLC stops at one of the two.
CONSTANTS
    m1 = m1
    Actors = {a1}
    Machines = {m1}
    Devices = {d1, d2}
    MachineOf <- OneComputer
    Slots = {p1, p2}
    Procs = {q1, q2}
    NoActor = NoActor
    NoFile = NoFile
    Torn = Torn
    MaxVersion = 2
    MaxFaults = 1
    MaxChanges = 0
SYMMETRY Interchangeable
SPECIFICATION Spec
INVARIANTS
    SavedBindingReturns
    ConnectedOnce
CHECK_DEADLOCK FALSE
