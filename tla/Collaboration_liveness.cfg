SPECIFICATION FairSpec
CONSTANTS
    s1 = s1  s2 = s2  u1 = u1  u2 = u2
    None = None
    User = {u1}
    Socket = {s1}
    UserOf <- OneEach
    Document = {d1}
    Element = {e1}
    Session = {i1, i2}
    LockId = {l1, l2}
    Handler = {h1, h2}
PROPERTIES AbandonedLockFreed AbandonedSessionEnds 
