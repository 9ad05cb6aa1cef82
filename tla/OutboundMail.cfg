CONSTANTS
    Requests = {r1, r2, r3}
    Bodies = {b1, b2}
    NoBody = NoBody
    MaxDispatches = 3
SYMMETRY Interchangeable
SPECIFICATION MailSpec
PROPERTIES
    SendsOnce
