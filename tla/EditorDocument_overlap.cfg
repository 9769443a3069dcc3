SPECIFICATION Spec
CONSTANTS
    Queued = {q1}
    Content = {c1}
    Baked = {b1}
    Element = {a}
    ElementOf <- OneElement
    Saver = Saver
    NoFile = NoFile
    MaxFaults = 1
INVARIANTS TypeOK NoDoubleBake SequentialEditsSurvive QuietMeansSaved
