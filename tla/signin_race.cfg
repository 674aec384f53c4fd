SPECIFICATION Spec
CONSTANTS
    g1 = g1  g2 = g2  t1 = t1  t2 = t2  p1 = p1  p2 = p2  p3 = p3
    s1 = s1  s2 = s2  s3 = s3  d1 = d1  d2 = d2  d3 = d3  d4 = d4
    Nil = Nil
    Anonymous = Anonymous
    Goroutines = {g1, g2}
    Tasks = {t1}
    Browsers = {p1, p2}
    Emails = {p1, p2}
    EmailOf <- OwnBrowser
    Sessions = {s1, s2}
    DocIds = {d1, d2, d3}
    Begun <- BothBegun
    Links <- CrossedLinks
    Ops = {}
    Overlap = TRUE
    KeyedIds = TRUE
    Faults = {"expire", "crash"}
SYMMETRY BegunSymmetric
INVARIANTS
    AccountsBoundedByGoroutines
PROPERTIES
    OwnTokensUnlessMixed
    ExpiredStateIsSpent
