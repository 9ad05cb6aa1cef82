CONSTANTS
    m1 = m1
    Actors = {a1}
    Machines = {m1}
    Devices = {d1, d2}
    MachineOf <- OneComputer
    Slots = {p1, p2}
    Procs = {q1}
    NoActor = NoActor
    NoFile = NoFile
    Torn = Torn
    MaxVersion = 2
    MaxFaults = 1
    MaxChanges = 0

SPECIFICATION FairSpec
PROPERTY ConnectCompletes
CHECK_DEADLOCK FALSE
