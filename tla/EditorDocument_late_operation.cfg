SPECIFICATION Spec
CONSTANTS
    Queued = {q1, q2}
    Content = {}
    Baked = {}
    Element = {a}
    ElementOf <- OneElement
    Saver = Saver
    NoFile = NoFile
    MaxFaults = 0
PROPERTY LateOperationsStay
