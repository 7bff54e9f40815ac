CONSTANTS
    s1 = s1  s2 = s2  l1 = l1  l2 = l2  e1 = e1  e2 = e2  x1 = x1  x2 = x2
    m1 = m1  tr = tr  ac = ac  lb = lb  lst = lst  fl = fl  fx = fx  t1 = t1  t2 = t2
    Docs <- SmallDocs
    KindOf <- SmallKind
    Owner <- SmallOwner
    Deployed <- SmallDeployed
    Built <- SmallBuilt
    Unborn = {lst}
    c1 = c1  m2 = m2  m3 = m3  bd = bd  tg = tg
    Calls = {c1}
    None = None
    MaxRev = 1
    MaxParts = 2
    MaxEdits = 3
    Nil = Nil
    Initial <- SmallContacts
    MaxContacts = 3
    Tenants = {t1, t2}
    Emails = {m2, m3}
    Badges = {bd}
    Tags = {tg}
    LabelTenant = t1
    Requests = {c1}
    MaxChanges = 2
    MaxSlips = 1
SPECIFICATION SmallSpec
CHECK_DEADLOCK FALSE
INVARIANTS EditsTypeOK ReadersAreCurrent TenantsStayApart RemovedIsGone
PROPERTIES  NothingInUseIsLost
