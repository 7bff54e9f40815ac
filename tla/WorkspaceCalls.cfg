CONSTANTS
    c1 = c1  c2 = c2  c3 = c3  founder = founder  partner = partner
    fe = fe  pe = pe  ge = ge
    None = None
    Calls = {c1, c2, c3}
    Founder = founder
    Partner = partner
    Emails = {fe, pe, ge}
    EmailOf <- Addresses
    Guest = ge
    Operations = {"invite", "accept", "revoke", "update", "transfer", "register", "login", "select", "logout"}
    Faults = {"write", "undo", "crash"}
    MaxFaults = 1
SPECIFICATION Spec
CHECK_DEADLOCK FALSE
INVARIANTS TypeOK InvitationIsSpentOnce RegistrationIsAtomic OwnerStands SessionsAreOfActiveMembers
