SPECIFICATION FairSpec
CONSTANTS
    Queued = {q1, q2}
    Content = {}
    Baked = {}
    Element = {a}
    ElementOf <- OneElement
    Saver = Saver
    NoFile = NoFile
    MaxFaults = 1
PROPERTIES VersionsKeepEdits 
