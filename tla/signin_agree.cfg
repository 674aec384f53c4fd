SPECIFICATION FairSpec
CONSTANTS
    g1 = g1  g2 = g2  t1 = t1  t2 = t2  p1 = p1  p2 = p2  p3 = p3
    s1 = s1  s2 = s2  s3 = s3  d1 = d1  d2 = d2  d3 = d3  d4 = d4
    Nil = Nil
    Anonymous = Anonymous
    Goroutines = {g1}
    Tasks = {t1}
    Browsers = {p1, p2}
    Emails = {p1, p2}
    EmailOf <- OwnBrowser
    Sessions = {s1, s2}
    DocIds = {d1, d2}
    Begun <- OneBegun
    Links <- SentLinks
    Ops = {"login", "home", "logout_all"}
    Overlap = FALSE
    KeyedIds = TRUE
    Faults = {"write", "refuse", "lost", "web", "redis", "auth", "expire"}
INVARIANTS
    FirstSignInHasRow
    TablesAgree
PROPERTIES
    SignInAnswered
    LostAnswerLocksOutNewcomers
