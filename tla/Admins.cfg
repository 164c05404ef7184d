CONSTANTS
    s1 = s1  s2 = s2  s3 = s3  r1 = r1  r2 = r2  t1 = t1  t2 = t2  l1 = l1  l2 = l2
    None = None
    Users = {1, 2}
    Me = 1
    Sessions = {s1, s2, s3}
    Requests = {r1, r2}
    Txs = {t1, t2}
    Links = {l1}
    MaxBusy = 2
SYMMETRY Sym
SPECIFICATION Spec
INVARIANTS TypeOK SuperAdminRemains OneSuccessor BrowserStaysIn
PROPERTIES RightsEndSessions
CHECK_DEADLOCK FALSE
