---------------------------- MODULE WorkspaceProofs ----------------------------
(* Workspaces, for any requests and faults: the types, that a registration    *)
(* and an invitation leave all or nothing, that the workspace keeps an owner, *)
(* and that only active members have sessions.                                *)
EXTENDS Workspace, FiniteSetTheorems, TLAPS

Requests == [pc : Steps, op : Operations \cup {None}, email : Emails \cup {None},
             who : Ids \cup {None}, inv : Ids \cup {None}, target : Ids \cup {None},
             ws : Ids \cup {None}, owner : Ids \cup {None}, role : DelegatedRoles \cup {None},
             status : {"active", "suspended", None}, undo : Undos]

AcceptSteps == {"identify", "create", "relook", "join", "consume"}
RegisterSteps == {"tenant", "account", "owner", "own", "seed"}
TransferSteps == {"transfer", "promote", "demote"}

\* Where a request of each kind can be, and what it then holds.
Fits(c) ==
    LET k == call[c] IN
    /\ k.pc = "new" => k.op = None
    /\ k.pc = "invite" => k.op = "invite"
    /\ k.pc \in AcceptSteps => k.op = "accept"
    /\ k.pc \in RegisterSteps => k.op = "register"
    /\ k.pc \in TransferSteps => k.op = "transfer" /\ k.target \in Ids /\ k.owner \in Ids
    /\ k.pc = "update" => k.op = "update" /\ k.target \in Ids
    /\ k.pc = "signout" => k.op \in {"update", "transfer"}
    /\ k.pc = "mint" => k.op \in {"login", "select"} /\ k.who \in Ids /\ k.ws \in Ids
    /\ k.pc \in {"join", "consume"} => k.who \in Ids
    /\ k.pc \in {"tenant", "account"} => k.email \in Emails
    /\ k.pc = "invite" => k.email \in Emails /\ k.role \in DelegatedRoles
    /\ k.pc = "undo" =>
         \/ k.op = "accept" /\ k.undo \in {<<"account">>, <<"member">>, <<"member", "account">>}
         \/ k.op = "register" /\ k.undo \in {<<"tenant">>, <<"account", "tenant">>,
                                             <<"member", "account", "tenant">>}
    /\ k.op = "accept" <=> k.inv \in Ids
    /\ k.inv \in Ids => invite[k.inv].status # "none"

\* A request writes rows of its own in tables its kind writes to, and no other.
OwnRows(c) ==
    /\ invite[c] # NoInvitation => call[c].op = "invite" /\ call[c].pc = "done"
    /\ owner[c] # NoTenant => call[c].op = "register"
    /\ account[c] # None => call[c].op \in {"accept", "register"}
    /\ member[c] # NoMember =>
         \/ call[c].op = "accept" /\ member[c].ws = Founder
         \/ /\ call[c].op = "register"
            /\ member[c] = [ws |-> c, who |-> c, role |-> "owner", status |-> "active"]

\* Identities, invitations and memberships the workspace had, or got by an
\* acceptance: nobody else's is ever promoted or demoted.
Belongs(i) == i \in Calls => call[i].op = "accept"

OwnerBelongs ==
    /\ owner[Founder] \in Ids
    /\ Belongs(owner[Founder])
    /\ \A c \in Calls : call[c].pc \in TransferSteps =>
                          Belongs(call[c].target) /\ Belongs(call[c].owner)

TypeInv ==
    /\ TypeOK
    /\ call \in [Calls -> Requests]
    /\ \A i \in Ids : invite[i].status # "none" => invite[i].email \in Emails /\ invite[i].role \in DelegatedRoles
    /\ \A c \in Calls : Fits(c) /\ OwnRows(c)
    /\ OwnerBelongs

--------------------------------------------------------------------------------
(* Registration *)

OnlyWritesFail == \A k \in DOMAIN faults : faults[k] = "write"

HasTenant(c) == owner[c] # NoTenant
HasAccount(c) == account[c] # None
HasMember(c) == member[c] # NoMember

\* What a registration has written by each of its steps.
Registered(c) ==
    LET k == call[c] IN
    /\ k.pc = "tenant" => ~HasTenant(c) /\ ~HasAccount(c) /\ ~HasMember(c)
    /\ k.pc = "account" => HasTenant(c) /\ ~HasAccount(c) /\ ~HasMember(c)
    /\ k.pc = "owner" => HasTenant(c) /\ HasAccount(c) /\ ~HasMember(c)
    /\ k.pc = "own" => HasTenant(c) /\ HasAccount(c) /\ HasMember(c)
    /\ k.pc = "seed" => owner[c] = c /\ HasAccount(c) /\ HasMember(c)
    /\ k.pc = "undo" =>
         /\ k.undo = <<"tenant">> => ~HasAccount(c) /\ ~HasMember(c)
         /\ k.undo = <<"account", "tenant">> => ~HasMember(c)
    /\ k.pc = "done" => \/ ~HasTenant(c) /\ ~HasAccount(c) /\ ~HasMember(c)
                        \/ owner[c] = c /\ HasAccount(c) /\ HasMember(c)

RegistrationInv ==
    OnlyWritesFail => \A c \in Calls : call[c].op = "register" => Registered(c)

--------------------------------------------------------------------------------
(* Invitations *)

\* The membership of an acceptance that is through.
Kept(c) == call[c].op = "accept" /\ call[c].pc = "done" /\ HasMember(c)

\* Where an acceptance is tells whether its membership is there.
Placed(c) ==
    /\ call[c].op = "accept" /\ HasMember(c) =>
         \/ call[c].pc \in {"consume", "done"}
         \/ call[c].pc = "undo" /\ call[c].undo \in {<<"member">>, <<"member", "account">>}
    /\ call[c].pc = "consume" => HasMember(c)

Accepted(i) == invite[i].status = "accepted"

SpentOnce ==
    /\ \A c \in Calls : Placed(c)
    /\ \A c \in Calls : Kept(c) => Accepted(call[c].inv)
    /\ \A c, d \in Calls : Kept(c) /\ Kept(d) /\ call[c].inv = call[d].inv => c = d
    /\ \A i \in Ids : Accepted(i) => \E c \in Calls : Kept(c) /\ call[c].inv = i

InvitationInv == faults = <<>> => SpentOnce

--------------------------------------------------------------------------------
(* Overlaps, ownership and sessions *)

\* Requests under way at the same time that clash have been noted.
ClashesNoted ==
    \A c, d \in Calls :
      c # d /\ Running(c) /\ Running(d) => Clash(call[c].op, call[d].op) \subseteq clashes

OfWorkspace(m) == member[m].ws = Founder
Owners == {m \in Ids : OfWorkspace(m) /\ member[m].role = "owner"}
Transferring(c) == call[c].pc \in {"promote", "demote"}

\* What a transfer has read: its target is an active member no acceptance takes
\* back.
Choice(m) ==
    /\ OfWorkspace(m) /\ Active(m)
    /\ m \in Calls => call[m].pc = "done"

\* Between the claim and the last of the two roles written, the roles follow.
OwnerKept ==
    /\ Choice(owner[Founder])
    /\ (\A c \in Calls : ~Transferring(c)) => Owners = {owner[Founder]}
    /\ \A c \in Calls :
         /\ call[c].pc = "update" => call[c].target # owner[Founder]
         /\ call[c].pc = "transfer" => Choice(call[c].target) /\ call[c].target # owner[Founder]
         /\ Transferring(c) => call[c].target = owner[Founder] /\ call[c].owner # owner[Founder]
         /\ call[c].pc = "promote" => Owners = {call[c].owner}
         /\ call[c].pc = "demote" => Owners = {call[c].owner, owner[Founder]}

OwnerInv == faults = <<>> /\ "ownership" \notin clashes => OwnerKept

\* A membership nothing takes back any more.
Sure(m) == HasMember(m) /\ (m \in Calls /\ call[m].op = "accept" => call[m].pc = "done")
Vouched(who, ws) == \E m \in MembershipsOf(who, ws) : Active(m) /\ Sure(m)
Leaving(who) == \E c \in Calls : call[c].pc = "signout" /\ call[c].op = "update" /\ call[c].who = who

\* A registration nothing failed in takes back its tenant at most.
SessionsVouched ==
    /\ \A s \in session : Vouched(s[1], s[2]) \/ Leaving(s[1])
    /\ \A c \in Calls : call[c].pc = "mint" => Vouched(call[c].who, call[c].ws)
    /\ \A c \in Calls : call[c].pc = "undo" /\ call[c].op = "register" => call[c].undo = <<"tenant">>

SessionInv == faults = <<>> /\ "session" \notin clashes => SessionsVouched

--------------------------------------------------------------------------------
(* What every step of a request keeps to *)

\* The types of the collections and counters.
DataOK ==
    /\ account \in [Ids -> Emails \cup {None}]
    /\ member \in [Ids -> Memberships \cup {NoMember}]
    /\ owner \in [Ids -> Ids \cup {None, NoTenant}]
    /\ invite \in [Ids -> Invitations]
    /\ \A i \in Ids : invite[i].status # "none" =>
                       invite[i].email \in Emails /\ invite[i].role \in DelegatedRoles
    /\ seeds \in [Ids -> SUBSET {"list", "badge", "form"}]
    /\ session \in SUBSET (Ids \X Ids)
    /\ faults \in Seq(Faults) /\ Len(faults) <= MaxFaults
    /\ clashes \subseteq {"ownership", "session"}

\* What a step of c leaves of the rows and the places of others.  A membership
\* of the workspace may get another role or status.
Spares(c) ==
    /\ \A d \in Calls \ {c} :
         /\ call'[d] = call[d]
         /\ account'[d] = account[d]
         /\ owner'[d] = owner[d]
         /\ invite'[d] = NoInvitation <=> invite[d] = NoInvitation
    /\ \A i \in Ids : invite[i].status # "none" => invite'[i].status # "none"
    /\ \A i \in Ids \ {c} :
         \/ member'[i] = member[i]
         \/ /\ Belongs(i) /\ HasMember(i) /\ HasMember(i)'
            /\ member'[i].ws = member[i].ws /\ member'[i].who = member[i].who

\* What c itself does: it goes from a step to a later one of the same operation.
Goes(c) ==
    /\ call' \in [Calls -> Requests]
    /\ call[c].pc # "done" /\ call'[c].pc # "new"
    /\ call[c].pc # "new" => call'[c].op = call[c].op /\ call'[c].inv = call[c].inv

\* What TypeInv says of the requests follows from where they are.
LEMMA FitsSuffices ==
    ASSUME DataOK', (call \in [Calls -> Requests])', (\A c \in Calls : Fits(c) /\ OwnRows(c))',
           OwnerBelongs'
    PROVE  TypeInv'
<1>1. TypeOK'
  <2> SUFFICES ASSUME NEW c \in Calls
               PROVE  (/\ call[c].pc \in Steps
                       /\ call[c].op \in Operations \cup {None}
                       /\ call[c].undo \in Undos
                       /\ call[c].pc \in {"join", "consume", "mint"} => call[c].who \in Ids
                       /\ call[c].pc = "mint" => call[c].ws \in Ids
                       /\ call[c].pc \in {"update", "transfer", "promote", "demote"} =>
                            call[c].target \in Ids
                       /\ call[c].pc \in {"identify", "create", "relook", "join", "consume"} =>
                            call[c].inv \in Ids /\ invite[call[c].inv].status # "none")'
    BY DEF DataOK, TypeOK
  <2>1. (call[c] \in Requests /\ Fits(c))'
    OBVIOUS
  <2> QED
    BY <2>1 DEF Requests, Fits, AcceptSteps, TransferSteps
<1> QED
  BY <1>1 DEF TypeInv, DataOK

\* Together they keep the types, if c goes where its operation leads.
LEMMA TypeStep ==
    ASSUME TypeInv, NEW c \in Calls, DataOK', Spares(c), Goes(c), Fits(c)', OwnRows(c)', OwnerBelongs'
    PROVE  TypeInv'
<1>1. \A d \in Calls : Fits(d)' /\ OwnRows(d)'
  <2> SUFFICES ASSUME NEW d \in Calls, d # c PROVE Fits(d)' /\ OwnRows(d)'
    OBVIOUS
  <2>1. Fits(d)'
    BY DEF TypeInv, Spares, Fits
  <2>2. OwnRows(d)'
    BY DEF TypeInv, Spares, OwnRows, Belongs, HasMember, Ids
  <2> QED
    BY <2>1, <2>2
<1> QED
  BY <1>1, FitsSuffices DEF Goes

\* The members of the workspace belong to it.
LEMMA MembersBelong == ASSUME TypeInv PROVE \A m \in Ids : OfWorkspace(m) => Belongs(m)
<1> SUFFICES ASSUME NEW m \in Calls, OfWorkspace(m) PROVE call[m].op = "accept"
  BY DEF Belongs
<1>1. Founder # m /\ Founder # None
  BY WorkspaceConstants DEF WorkspaceConstants, Ids
<1>2. member[m] # NoMember
  BY <1>1 DEF OfWorkspace, NoMember
<1>3. member[m] # [ws |-> m, who |-> m, role |-> "owner", status |-> "active"]
  BY <1>1 DEF OfWorkspace
<1> QED
  BY <1>2, <1>3 DEF TypeInv, OwnRows

\* What belongs to the workspace goes on doing so.
LEMMA BelongsStays ==
    ASSUME TypeInv, NEW c \in Calls, Spares(c), Goes(c)
    PROVE  \A i \in Ids : Belongs(i) => Belongs(i)'
  BY WorkspaceConstants DEF WorkspaceConstants, TypeInv, Belongs, Spares, Goes, Fits, AllOperations

LEMMA OwnerBelongsStays ==
    ASSUME TypeInv, NEW c \in Calls, Spares(c), Goes(c),
           owner'[Founder] = owner[Founder] \/ (owner'[Founder] \in Ids /\ Belongs(owner'[Founder])),
           call'[c].pc \in TransferSteps => Belongs(call'[c].target) /\ Belongs(call'[c].owner)
    PROVE  OwnerBelongs'
<1>1. owner'[Founder] \in Ids /\ Belongs(owner'[Founder])
  BY DEF TypeInv, OwnerBelongs
<1>2. Belongs(owner[Founder])'
  BY <1>1, BelongsStays DEF Belongs
<1>3. ASSUME NEW d \in Calls, call'[d].pc \in TransferSteps
      PROVE  Belongs(call[d].target)' /\ Belongs(call[d].owner)'
  <2>1. Belongs(call'[d].target) /\ Belongs(call'[d].owner)
    BY <1>3 DEF TypeInv, OwnerBelongs, Spares
  <2> QED
    BY <2>1, BelongsStays DEF Belongs, Ids
<1> QED
  BY <1>1, <1>2, <1>3 DEF OwnerBelongs

\* The kinds of fault so far stay within their bound.
LEMMA FaultsType ==
    ASSUME faults \in Seq(Faults) /\ Len(faults) <= MaxFaults, NEW kind, Works \/ Fault(kind)
    PROVE  faults' \in Seq(Faults) /\ Len(faults') <= MaxFaults /\ clashes' = clashes
  BY WorkspaceConstants DEF Works, Fault, WorkspaceConstants

\* A request that goes on keeps what it holds.
LEMMA GotoType ==
    ASSUME call \in [Calls -> Requests], NEW c \in Calls, NEW p \in Steps, Goto(c, p)
    PROVE  /\ call' \in [Calls -> Requests]
           /\ call'[c] = [call[c] EXCEPT !.pc = p]
           /\ \A d \in Calls \ {c} : call'[d] = call[d]
  BY DEF Goto, Requests

--------------------------------------------------------------------------------
(* Requests that begin *)

Beginning(c) ==
    \/ InviteCheck(c) \/ RevokeInvitation(c) \/ AcceptFind(c) \/ RegisterCheck(c)
    \/ UpdateRead(c) \/ TransferRead(c) \/ LoginRead(c) \/ SelectRead(c) \/ Logout(c)

\* Where a request of each kind begins and what it has read by then.
First(k) ==
    /\ k.pc \in {"invite", "identify", "tenant", "update", "transfer", "mint", "done"}
    /\ k.op = "accept" <=> k.inv \in Ids
    /\ k.pc = "invite" => k.op = "invite" /\ k.email \in Emails /\ k.role \in DelegatedRoles
    /\ k.pc = "identify" => k.op = "accept" /\ invite[k.inv].status = "pending"
    /\ k.op = "accept" => k.pc = "identify"
    /\ k.pc = "tenant" => k.op = "register" /\ k.email \in Emails
    /\ k.op = "register" => k.pc = "tenant"
    /\ k.pc = "update" => /\ k.op = "update"
                          /\ k.target \in Ids /\ OfWorkspace(k.target) /\ k.target # owner[Founder]
    /\ k.pc = "transfer" => /\ k.op = "transfer"
                            /\ k.target \in Ids /\ OfWorkspace(k.target) /\ Active(k.target)
                            /\ k.target # owner[Founder] /\ k.owner = owner[Founder]
    /\ k.pc = "mint" => /\ k.op \in {"login", "select"}
                        /\ \E m \in Ids : /\ HasMember(m) /\ Active(m)
                                          /\ k.who = member[m].who /\ k.ws = member[m].ws
    /\ k.pc = "done" => k.op \in {"revoke", "logout"}

\* What beginning changes besides: a pending invitation may be revoked, a
\* session end.
Revokes(i) == invite[i].status = "pending" /\ invite' = [invite EXCEPT ![i].status = "revoked"]
Touches(op) ==
    /\ UNCHANGED <<account, member, owner, seeds, faults>>
    /\ IF op = "revoke" THEN \E i \in Ids : Revokes(i) ELSE UNCHANGED invite
    /\ IF op = "logout" THEN session' \subseteq session ELSE UNCHANGED session

Begun(c, k) == call' = [call EXCEPT ![c] = k] /\ Begins(c, k.op) /\ First(k) /\ Touches(k.op)

LEMMA BeginningReads ==
    ASSUME TypeInv, NEW c \in Calls, Beginning(c) PROVE \E k \in Requests : Begun(c, k)
<1>1. None \notin Ids
  BY WorkspaceConstants DEF WorkspaceConstants
<1>2. CASE InviteCheck(c)
  <2>9. "invite" \in Operations
    BY <1>2 DEF InviteCheck, Begins
  <2>1. PICK e \in Emails, r \in DelegatedRoles :
          call' = [call EXCEPT ![c] = [Idle EXCEPT !.pc = "invite", !.op = "invite",
                                                   !.email = e, !.role = r]]
    BY <1>2 DEF InviteCheck
  <2> DEFINE k == [Idle EXCEPT !.pc = "invite", !.op = "invite", !.email = e, !.role = r]
  <2>2. /\ k \in Requests /\ k.pc = "invite" /\ k.op = "invite" /\ k.inv = None
        /\ k.email = e /\ k.role = r
    BY <1>1, <2>9 DEF Idle, Requests, Steps, Undos
  <2> HIDE DEF k
  <2>3. Begins(c, k.op) /\ Touches(k.op)
    BY <1>2, <2>2 DEF InviteCheck, Touches, rows
  <2>4. First(k)
    BY <1>1, <2>2 DEF First
  <2> QED
    BY <2>1, <2>2, <2>3, <2>4 DEF Begun, k
<1>3. CASE RevokeInvitation(c)
  <2>9. "revoke" \in Operations
    BY <1>3 DEF RevokeInvitation, Begins
  <2> DEFINE k == [Idle EXCEPT !.pc = "done", !.op = "revoke"]
  <2>1. k \in Requests /\ k.pc = "done" /\ k.op = "revoke" /\ k.inv = None
    BY <1>1, <2>9 DEF Idle, Requests, Steps, Undos
  <2>2. call' = [call EXCEPT ![c] = k]
    BY <1>3 DEF RevokeInvitation
  <2> HIDE DEF k
  <2>3. Begins(c, k.op) /\ Touches(k.op)
    BY <1>3, <2>1 DEF RevokeInvitation, Touches, Revokes
  <2>4. First(k)
    BY <1>1, <2>1 DEF First
  <2> QED
    BY <2>1, <2>2, <2>3, <2>4 DEF Begun
<1>4. CASE AcceptFind(c)
  <2>9. "accept" \in Operations
    BY <1>4 DEF AcceptFind, Begins
  <2>1. PICK i \in Ids :
          /\ invite[i].status = "pending"
          /\ call' = [call EXCEPT ![c] = [Idle EXCEPT !.pc = "identify", !.op = "accept", !.inv = i]]
    BY <1>4 DEF AcceptFind
  <2> DEFINE k == [Idle EXCEPT !.pc = "identify", !.op = "accept", !.inv = i]
  <2>2. k \in Requests /\ k.pc = "identify" /\ k.op = "accept" /\ k.inv = i
    BY <1>1, <2>9 DEF Idle, Requests, Steps, Undos
  <2> HIDE DEF k
  <2>3. Begins(c, k.op) /\ Touches(k.op)
    BY <1>4, <2>2 DEF AcceptFind, Touches, rows
  <2>4. First(k)
    BY <2>1, <2>2 DEF First
  <2> QED
    BY <2>1, <2>2, <2>3, <2>4 DEF Begun, k
<1>5. CASE RegisterCheck(c)
  <2>9. "register" \in Operations
    BY <1>5 DEF RegisterCheck, Begins
  <2>1. PICK e \in Emails :
          call' = [call EXCEPT ![c] = [Idle EXCEPT !.pc = "tenant", !.op = "register", !.email = e]]
    BY <1>5 DEF RegisterCheck
  <2> DEFINE k == [Idle EXCEPT !.pc = "tenant", !.op = "register", !.email = e]
  <2>2. k \in Requests /\ k.pc = "tenant" /\ k.op = "register" /\ k.inv = None /\ k.email = e
    BY <1>1, <2>9 DEF Idle, Requests, Steps, Undos
  <2> HIDE DEF k
  <2>3. Begins(c, k.op) /\ Touches(k.op)
    BY <1>5, <2>2 DEF RegisterCheck, Touches, rows
  <2>4. First(k)
    BY <1>1, <2>2 DEF First
  <2> QED
    BY <2>1, <2>2, <2>3, <2>4 DEF Begun, k
<1>6. CASE UpdateRead(c)
  <2>9. "update" \in Operations
    BY <1>6 DEF UpdateRead, Begins
  <2>1. PICK m \in Ids, r \in DelegatedRoles \cup {None}, s \in {"active", "suspended", None} :
          /\ OfWorkspace(m) /\ owner[Founder] # m
          /\ call' = [call EXCEPT ![c] = [Idle EXCEPT !.pc = "update", !.op = "update", !.target = m,
                                                      !.role = r, !.status = s]]
    BY <1>6 DEF UpdateRead, OfWorkspace
  <2> DEFINE k == [Idle EXCEPT !.pc = "update", !.op = "update", !.target = m, !.role = r, !.status = s]
  <2>2. k \in Requests /\ k.pc = "update" /\ k.op = "update" /\ k.inv = None /\ k.target = m
    BY <1>1, <2>9 DEF Idle, Requests, Steps, Undos
  <2> HIDE DEF k
  <2>3. Begins(c, k.op) /\ Touches(k.op)
    BY <1>6, <2>2 DEF UpdateRead, Touches, rows
  <2>4. First(k)
    BY <1>1, <2>1, <2>2 DEF First
  <2> QED
    BY <2>1, <2>2, <2>3, <2>4 DEF Begun, k
<1>7. CASE TransferRead(c)
  <2>9. "transfer" \in Operations
    BY <1>7 DEF TransferRead, Begins
  <2>1. PICK m \in Ids :
          /\ OfWorkspace(m) /\ Active(m) /\ m # owner[Founder]
          /\ call' = [call EXCEPT ![c] = [Idle EXCEPT !.pc = "transfer", !.op = "transfer", !.target = m,
                                            !.owner = owner[Founder], !.who = member[m].who]]
    BY <1>7 DEF TransferRead, OfWorkspace
  <2> DEFINE k == [Idle EXCEPT !.pc = "transfer", !.op = "transfer", !.target = m,
                               !.owner = owner[Founder], !.who = member[m].who]
  <2>2. owner[Founder] \in Ids /\ member[m].who \in Ids \cup {None}
    BY DEF TypeInv, TypeOK, OwnerBelongs, Memberships, NoMember
  <2>3. /\ k \in Requests /\ k.pc = "transfer" /\ k.op = "transfer" /\ k.inv = None
        /\ k.target = m /\ k.owner = owner[Founder]
    BY <1>1, <2>2, <2>9 DEF Idle, Requests, Steps, Undos
  <2> HIDE DEF k
  <2>4. Begins(c, k.op) /\ Touches(k.op)
    BY <1>7, <2>3 DEF TransferRead, Touches, rows
  <2>5. First(k)
    BY <1>1, <2>1, <2>3 DEF First
  <2> QED
    BY <2>1, <2>3, <2>4, <2>5 DEF Begun, k
<1>8. CASE LoginRead(c) \/ SelectRead(c)
  <2>1. PICK op \in {"login", "select"} : SignInRead(c, op)
    BY <1>8 DEF LoginRead, SelectRead
  <2>2. PICK m \in Ids :
          /\ HasMember(m) /\ Active(m)
          /\ call' = [call EXCEPT ![c] = [Idle EXCEPT !.pc = "mint", !.op = op,
                                            !.who = member[m].who, !.ws = member[m].ws]]
    BY <2>1 DEF SignInRead, HasMember
  <2>9. op \in Operations
    BY <2>1 DEF SignInRead, Begins
  <2> DEFINE k == [Idle EXCEPT !.pc = "mint", !.op = op, !.who = member[m].who, !.ws = member[m].ws]
  <2>3. member[m].who \in Ids /\ member[m].ws \in Ids
    BY <2>2 DEF TypeInv, TypeOK, Memberships, HasMember
  <2>4. /\ k \in Requests /\ k.pc = "mint" /\ k.op = op /\ k.inv = None
        /\ k.who = member[m].who /\ k.ws = member[m].ws
    BY <1>1, <2>3, <2>9 DEF Idle, Requests, Steps, Undos
  <2> HIDE DEF k
  <2>5. Begins(c, k.op) /\ Touches(k.op)
    BY <2>1, <2>4 DEF SignInRead, Touches, rows
  <2>6. First(k)
    BY <1>1, <2>2, <2>4 DEF First
  <2> QED
    BY <2>2, <2>4, <2>5, <2>6 DEF Begun, k
<1>9. CASE Logout(c)
  <2>9. "logout" \in Operations
    BY <1>9 DEF Logout, Begins
  <2> DEFINE k == [Idle EXCEPT !.pc = "done", !.op = "logout"]
  <2>1. k \in Requests /\ k.pc = "done" /\ k.op = "logout" /\ k.inv = None
    BY <1>1, <2>9 DEF Idle, Requests, Steps, Undos
  <2>2. call' = [call EXCEPT ![c] = k]
    BY <1>9 DEF Logout
  <2> HIDE DEF k
  <2>3. Begins(c, k.op) /\ Touches(k.op)
    BY <1>9, <2>1 DEF Logout, Touches
  <2>4. First(k)
    BY <1>1, <2>1 DEF First
  <2> QED
    BY <2>1, <2>2, <2>3, <2>4 DEF Begun
<1> QED
  BY <1>2, <1>3, <1>4, <1>5, <1>6, <1>7, <1>8, <1>9 DEF Beginning

\* An invitation that is revoked, spent or overtaken by time is still one.
LEMMA InviteType ==
    ASSUME DataOK, NEW i \in Ids, invite[i].status # "none",
           \/ \E st \in {"accepted", "revoked"} : invite' = [invite EXCEPT ![i].status = st]
           \/ invite' = [invite EXCEPT ![i].live = FALSE]
    PROVE  /\ invite' \in [Ids -> Invitations]
           /\ \A j \in Ids : /\ invite[j].status # "none" <=> invite'[j].status # "none"
                             /\ invite'[j].email = invite[j].email /\ invite'[j].role = invite[j].role
                             /\ invite'[j] = NoInvitation <=> invite[j] = NoInvitation
<1> USE DEF NoInvitation
<1>1. invite[i] \in Invitations /\ invite \in [Ids -> Invitations]
  BY DEF DataOK
<1>2. ASSUME NEW new \in Invitations, invite' = [invite EXCEPT ![i] = new],
             new.status # "none", new.email = invite[i].email, new.role = invite[i].role
      PROVE  /\ invite' \in [Ids -> Invitations]
             /\ \A j \in Ids : /\ invite[j].status # "none" <=> invite'[j].status # "none"
                               /\ invite'[j].email = invite[j].email /\ invite'[j].role = invite[j].role
                               /\ invite'[j] = NoInvitation <=> invite[j] = NoInvitation
  <2>1. invite' \in [Ids -> Invitations] /\ invite'[i] = new /\ \A j \in Ids \ {i} : invite'[j] = invite[j]
    BY <1>1, <1>2
  <2>2. new # NoInvitation /\ invite[i] # NoInvitation
    BY <1>2
  <2> QED
    BY <1>2, <2>1, <2>2
<1>3. CASE \E st \in {"accepted", "revoked"} : invite' = [invite EXCEPT ![i].status = st]
  <2> PICK st \in {"accepted", "revoked"} : invite' = [invite EXCEPT ![i].status = st]
    BY <1>3
  <2> DEFINE new == [invite[i] EXCEPT !.status = st]
  <2>1. new \in Invitations
    BY <1>1 DEF Invitations
  <2>2. new.status = st /\ new.email = invite[i].email /\ new.role = invite[i].role
    BY <1>1 DEF Invitations
  <2>3. invite' = [invite EXCEPT ![i] = new]
    OBVIOUS
  <2> HIDE DEF new
  <2> QED
    BY <1>2, <2>1, <2>2, <2>3
<1>4. CASE invite' = [invite EXCEPT ![i].live = FALSE]
  <2> DEFINE new == [invite[i] EXCEPT !.live = FALSE]
  <2>1. new \in Invitations
    BY <1>1 DEF Invitations
  <2>2. new.status = invite[i].status /\ new.email = invite[i].email /\ new.role = invite[i].role
    BY <1>1 DEF Invitations
  <2>3. invite' = [invite EXCEPT ![i] = new]
    BY <1>4
  <2> HIDE DEF new
  <2> QED
    BY <1>2, <2>1, <2>2, <2>3
<1> QED
  BY <1>3, <1>4

LEMMA BeginningType ==
    ASSUME TypeInv, NEW c \in Calls, Beginning(c)
    PROVE  TypeInv' /\ Goes(c) /\ Spares(c)
<1>1. PICK k \in Requests : Begun(c, k)
  BY BeginningReads
<1>2. /\ call' \in [Calls -> Requests] /\ call'[c] = k /\ \A d \in Calls \ {c} : call'[d] = call[d]
      /\ call[c].pc = "new" /\ call[c].op = None
  BY <1>1 DEF Begun, TypeInv, Begins, Fits
<1>3. DataOK
  BY DEF TypeInv, TypeOK, DataOK
<1>4. /\ invite' \in [Ids -> Invitations]
      /\ \A j \in Ids : /\ invite[j].status # "none" <=> invite'[j].status # "none"
                        /\ invite'[j].email = invite[j].email /\ invite'[j].role = invite[j].role
                        /\ invite'[j] = NoInvitation <=> invite[j] = NoInvitation
  BY <1>1, <1>3, InviteType DEF Begun, Touches, Revokes, DataOK
<1>5. Goes(c)
  BY <1>1, <1>2 DEF Goes, Begun, First
<1>6. Spares(c)
  BY <1>1, <1>2, <1>4 DEF Spares, Begun, Touches, Ids
<1>7. DataOK'
  <2>1. clashes' \subseteq {"ownership", "session"}
    BY <1>1, <1>3 DEF Begun, Begins, Clash, DataOK
  <2>2. session' \subseteq session
    BY <1>1 DEF Begun, Touches
  <2> QED
    BY <1>1, <1>3, <1>4, <2>1, <2>2 DEF DataOK, Begun, Touches
<1>8. Fits(c)'
  <2>1. None \notin Ids /\ owner[Founder] \in Ids
    BY WorkspaceConstants DEF WorkspaceConstants, TypeInv, OwnerBelongs
  <2>2. k.pc = "mint" => k.who \in Ids /\ k.ws \in Ids
    BY <1>1 DEF Begun, First, HasMember, TypeInv, TypeOK, Memberships
  <2>3. k.op = "accept" => invite[k.inv].status # "none"
    BY <1>1 DEF Begun, First
  <2> QED
    BY <1>1, <1>2, <1>4, <2>1, <2>2, <2>3
       DEF Begun, First, Fits, AcceptSteps, RegisterSteps, TransferSteps
<1>9. OwnRows(c)'
  <2>1. None \notin AllOperations
    BY WorkspaceConstants DEF WorkspaceConstants
  <2>2. invite[c] = NoInvitation /\ owner[c] = NoTenant /\ account[c] = None /\ member[c] = NoMember
    BY <1>2, <2>1 DEF TypeInv, OwnRows, AllOperations
  <2> QED
    BY <1>1, <1>4, <2>2 DEF Begun, Touches, OwnRows, Ids
<1>10. OwnerBelongs'
  <2>1. \A m \in Ids : OfWorkspace(m) => Belongs(m)
    BY MembersBelong
  <2>2. call'[c].pc \in TransferSteps => Belongs(call'[c].target) /\ Belongs(call'[c].owner)
    BY <1>1, <1>2, <2>1 DEF Begun, First, TransferSteps, TypeInv, OwnerBelongs
  <2> QED
    BY <1>1, <1>5, <1>6, <2>2, OwnerBelongsStays DEF Begun, Touches
<1> QED
  BY <1>5, <1>6, <1>7, <1>8, <1>9, <1>10, TypeStep

--------------------------------------------------------------------------------
(* Requests that go on *)

\* A request under way that goes on, holding somebody or something else.
LEMMA GoesOn ==
    ASSUME TypeInv, NEW c \in Calls, Running(c), NEW k \in Requests,
           call' = [call EXCEPT ![c] = k], k.pc # "new", k.op = call[c].op, k.inv = call[c].inv
    PROVE  Goes(c) /\ call'[c] = k /\ \A d \in Calls \ {c} : call'[d] = call[d]
  BY DEF TypeInv, Goes, Running

LEMMA GotoGoes ==
    ASSUME TypeInv, NEW c \in Calls, Running(c), NEW p \in Steps \ {"new"}, Goto(c, p)
    PROVE  /\ Goes(c) /\ call'[c] = [call[c] EXCEPT !.pc = p]
           /\ \A d \in Calls \ {c} : call'[d] = call[d]
<1> DEFINE k == [call[c] EXCEPT !.pc = p]
<1>1. k \in Requests /\ k.pc = p /\ k.op = call[c].op /\ k.inv = call[c].inv
  BY DEF TypeInv, Requests
<1>2. call' = [call EXCEPT ![c] = k]
  BY DEF Goto
<1> HIDE DEF k
<1>3. Goes(c) /\ call'[c] = k /\ \A d \in Calls \ {c} : call'[d] = call[d]
  BY <1>1, <1>2, GoesOn
<1> QED
  BY <1>3 DEF k

\* Giving up, with what is to be taken back.
LEMMA GiveUpGoes ==
    ASSUME TypeInv, NEW c \in Calls, Running(c), NEW undo \in Undos, GiveUp(c, undo)
    PROVE  /\ Goes(c) /\ \A d \in Calls \ {c} : call'[d] = call[d]
           /\ call'[c] = [call[c] EXCEPT !.pc = IF undo = <<>> THEN "done" ELSE "undo", !.undo = undo]
<1> DEFINE k == [call[c] EXCEPT !.pc = IF undo = <<>> THEN "done" ELSE "undo", !.undo = undo]
<1>1. /\ k \in Requests /\ k.pc = IF undo = <<>> THEN "done" ELSE "undo"
      /\ k.op = call[c].op /\ k.inv = call[c].inv
  <2>1. call[c] \in Requests
    BY DEF TypeInv
  <2>2. PICK p \in Steps : p = IF undo = <<>> THEN "done" ELSE "undo"
    BY DEF Steps
  <2> DEFINE next == [call[c] EXCEPT !.pc = p, !.undo = undo]
  <2>3. next.pc = p /\ next.op = call[c].op /\ next.inv = call[c].inv
    BY <2>1 DEF Requests
  <2>4. next \in Requests
    BY <2>1 DEF Requests
  <2>5. k = next
    BY <2>2
  <2> HIDE DEF k, next
  <2> QED
    BY <2>2, <2>3, <2>4, <2>5
<1>2. call' = [call EXCEPT ![c] = k]
  BY DEF GiveUp
<1> HIDE DEF k
<1>3. Goes(c) /\ call'[c] = k /\ \A d \in Calls \ {c} : call'[d] = call[d]
  BY <1>1, <1>2, GoesOn
<1> QED
  BY <1>3 DEF k

\* Where they leave it.
LEMMA GotoPlace ==
    ASSUME TypeInv, NEW c \in Calls, Running(c), NEW p \in Steps \ {"new"}, Goto(c, p)
    PROVE  call'[c].pc = p /\ call'[c].target = call[c].target /\ call'[c].owner = call[c].owner
<1>1. call'[c] = [call[c] EXCEPT !.pc = p] /\ call[c] \in Requests
  BY GotoGoes DEF TypeInv
<1> QED
  BY <1>1 DEF Requests

LEMMA GiveUpPlace ==
    ASSUME TypeInv, NEW c \in Calls, Running(c), NEW u \in Undos, GiveUp(c, u)
    PROVE  call'[c].pc = (IF u = <<>> THEN "done" ELSE "undo") /\ call'[c].undo = u
<1>1. /\ call'[c] = [call[c] EXCEPT !.pc = IF u = <<>> THEN "done" ELSE "undo", !.undo = u]
      /\ call[c] \in Requests
  BY GiveUpGoes DEF TypeInv
<1>2. PICK p \in Steps : p = IF u = <<>> THEN "done" ELSE "undo"
  BY DEF Steps
<1>3. call'[c] = [call[c] EXCEPT !.pc = p, !.undo = u]
  BY <1>1, <1>2
<1> DEFINE k == [call[c] EXCEPT !.pc = p, !.undo = u]
<1>4. k.pc = p /\ k.undo = u
  BY <1>1 DEF Requests
<1> HIDE DEF k
<1> QED
  BY <1>2, <1>3, <1>4 DEF k

\* A step that writes no row.
LEMMA RestsType ==
    ASSUME TypeInv, NEW c \in Calls, Goes(c), \A d \in Calls \ {c} : call'[d] = call[d],
           call[c].pc # "new", UNCHANGED <<account, member, owner, invite, seeds, clashes>>,
           session' \in SUBSET (Ids \X Ids), faults' \in Seq(Faults) /\ Len(faults') <= MaxFaults,
           Fits(c)', call'[c].pc \in TransferSteps => Belongs(call'[c].target) /\ Belongs(call'[c].owner)
    PROVE  TypeInv' /\ Spares(c)
<1>1. Spares(c)
  BY DEF Spares, Ids
<1>2. DataOK'
  BY DEF TypeInv, TypeOK, DataOK
<1>3. OwnRows(c)'
  BY DEF TypeInv, OwnRows, Goes, Ids
<1>4. OwnerBelongs'
  BY <1>1, OwnerBelongsStays
<1> QED
  BY <1>1, <1>2, <1>3, <1>4, TypeStep

LEMMA CrashType ==
    ASSUME TypeInv, NEW c \in Calls, Crash(c)
    PROVE  TypeInv' /\ Goes(c) /\ Spares(c)
<1>1. /\ Goes(c) /\ call'[c] = [call[c] EXCEPT !.pc = "done"]
      /\ \A d \in Calls \ {c} : call'[d] = call[d]
  BY GotoGoes DEF Crash, Finish, Steps
<1>2. faults' \in Seq(Faults) /\ Len(faults') <= MaxFaults /\ clashes' = clashes
  BY FaultsType DEF Crash, TypeInv, TypeOK
<1>3. Fits(c)'
  BY <1>1, WorkspaceConstants
     DEF WorkspaceConstants, TypeInv, Crash, rows, Requests, Fits, AcceptSteps, RegisterSteps, TransferSteps
<1>4. UNCHANGED <<account, member, owner, invite, seeds>> /\ session' = session /\ call[c].pc # "new"
  BY DEF Crash, rows, Running
<1>5. session \in SUBSET (Ids \X Ids)
  BY DEF TypeInv, TypeOK
<1>6. call'[c].pc \notin TransferSteps
  BY <1>1 DEF TypeInv, Requests, TransferSteps
<1> QED
  BY <1>1, <1>2, <1>3, <1>4, <1>5, <1>6, RestsType

\* The row of an invitation.
LEMMA InviteInsertType ==
    ASSUME TypeInv, NEW c \in Calls, InviteInsert(c)
    PROVE  TypeInv' /\ Goes(c) /\ Spares(c)
<1> DEFINE new == [status |-> "pending", email |-> call[c].email, role |-> call[c].role, live |-> TRUE]
<1>1. /\ Goes(c) /\ call'[c] = [call[c] EXCEPT !.pc = "done"]
      /\ \A d \in Calls \ {c} : call'[d] = call[d]
  BY GotoGoes DEF InviteInsert, Finish, Steps, At, Running
<1>2. faults' \in Seq(Faults) /\ Len(faults') <= MaxFaults /\ clashes' = clashes
  BY FaultsType DEF InviteInsert, TypeInv, TypeOK, Fails
<1>3. /\ call[c].op = "invite" /\ call[c].email \in Emails /\ call[c].role \in DelegatedRoles
      /\ invite[c] = NoInvitation /\ invite[c].status = "none"
  <2>1. call[c].pc = "invite" /\ Fits(c) /\ OwnRows(c)
    BY DEF TypeInv, InviteInsert, At
  <2> QED
    BY <2>1 DEF Fits, OwnRows, NoInvitation
<1>4. new \in Invitations /\ new.status = "pending" /\ new.email \in Emails /\ new.role \in DelegatedRoles
  BY <1>3 DEF Invitations
<1>5. invite' = invite \/ invite' = [invite EXCEPT ![c] = new]
  BY DEF InviteInsert
<1> HIDE DEF new
<1>6. Spares(c)
  <2>1. invite \in [Ids -> Invitations]
    BY DEF TypeInv, TypeOK
  <2> QED
    BY <1>1, <1>3, <1>4, <1>5, <2>1 DEF Spares, Ids, InviteInsert
<1>7. DataOK'
  <2>1. DataOK /\ c \in Ids
    BY DEF TypeInv, TypeOK, DataOK, Ids
  <2>2. /\ invite' \in [Ids -> Invitations]
        /\ \A i \in Ids : invite'[i].status # "none" =>
                           invite'[i].email \in Emails /\ invite'[i].role \in DelegatedRoles
    BY <1>4, <1>5, <2>1 DEF DataOK
  <2> QED
    BY <1>2, <2>1, <2>2 DEF DataOK, InviteInsert
<1>8. Fits(c)'
  BY <1>1, <1>3, <1>5, WorkspaceConstants
     DEF WorkspaceConstants, TypeInv, Requests, Fits, AcceptSteps, RegisterSteps, TransferSteps, Ids
<1>9. OwnRows(c)'
  BY <1>1, <1>3 DEF TypeInv, Requests, OwnRows, InviteInsert
<1>10. OwnerBelongs'
  BY <1>1, <1>6, OwnerBelongsStays DEF TypeInv, Requests, InviteInsert, TransferSteps
<1> QED
  BY <1>1, <1>6, <1>7, <1>8, <1>9, <1>10, TypeStep

\* Seven days pass.
LEMMA ExpireType ==
    ASSUME TypeInv, NEW i \in Ids, Expire(i)
    PROVE  TypeInv'
<1>1. /\ invite' \in [Ids -> Invitations]
      /\ \A j \in Ids : /\ invite[j].status # "none" <=> invite'[j].status # "none"
                        /\ invite'[j].email = invite[j].email /\ invite'[j].role = invite[j].role
                        /\ invite'[j] = NoInvitation <=> invite[j] = NoInvitation
  BY InviteType DEF Expire, TypeInv, TypeOK, DataOK
<1>2. DataOK'
  <2>1. DataOK
    BY DEF TypeInv, TypeOK, DataOK
  <2> QED
    BY <1>1, <2>1 DEF Expire, DataOK
<1>3. ASSUME NEW c \in Calls PROVE Fits(c)' /\ OwnRows(c)'
  <2>1. Fits(c)'
    BY <1>1 DEF Expire, TypeInv, Fits
  <2>2. OwnRows(c)'
    BY <1>1 DEF Expire, TypeInv, OwnRows, Ids
  <2> QED
    BY <2>1, <2>2
<1>4. OwnerBelongs' /\ call' \in [Calls -> Requests]
  BY DEF Expire, TypeInv, OwnerBelongs, Belongs
<1> QED
  BY <1>2, <1>3, <1>4, FitsSuffices

\* A step that writes rows of its own name at most.
OwnWrite(c) ==
    /\ \A i \in Ids \ {c} : account'[i] = account[i] /\ owner'[i] = owner[i] /\ member'[i] = member[i]
    /\ UNCHANGED invite

LEMMA OwnWriteType ==
    ASSUME TypeInv, NEW c \in Calls, Goes(c), \A d \in Calls \ {c} : call'[d] = call[d],
           OwnWrite(c), DataOK', Fits(c)', OwnRows(c)', call'[c].pc \notin TransferSteps
    PROVE  TypeInv' /\ Spares(c)
<1>1. Spares(c)
  BY DEF Spares, OwnWrite, Ids
<1>2. Founder \in Ids \ {c}
  BY WorkspaceConstants DEF WorkspaceConstants, Ids
<1>3. OwnerBelongs'
  BY <1>1, <1>2, OwnerBelongsStays DEF OwnWrite
<1> QED
  BY <1>1, <1>3, TypeStep

LEMMA AcceptIdentifyType ==
    ASSUME TypeInv, NEW c \in Calls, AcceptIdentify(c) \/ AcceptRelook(c)
    PROVE  TypeInv' /\ Goes(c) /\ Spares(c)
<1>1. /\ call[c].pc \in {"identify", "relook"} /\ Running(c)
      /\ UNCHANGED <<account, member, owner, invite, seeds, session, faults, clashes>>
  BY DEF AcceptIdentify, AcceptRelook, At, Works, rows, Running
<1>2. call[c] \in Requests /\ Fits(c) /\ session \in SUBSET (Ids \X Ids)
      /\ faults \in Seq(Faults) /\ Len(faults) <= MaxFaults
  BY DEF TypeInv, TypeOK
<1>3. CASE \E x \in Ids : call' = [call EXCEPT ![c].pc = "join", ![c].who = x]
  <2> PICK x \in Ids : call' = [call EXCEPT ![c].pc = "join", ![c].who = x]
    BY <1>3
  <2> DEFINE k == [call[c] EXCEPT !.pc = "join", !.who = x]
  <2>1. /\ k \in Requests /\ k.pc = "join" /\ k.who = x
        /\ k.op = call[c].op /\ k.inv = call[c].inv
    <3>1. "join" \in Steps
      BY DEF Steps
    <3>2. k \in Requests
      BY <1>2, <3>1 DEF Requests
    <3>3. k.pc = "join" /\ k.who = x /\ k.op = call[c].op /\ k.inv = call[c].inv
      BY <1>2 DEF Requests
    <3> QED
      BY <3>2, <3>3
  <2>2. call' = [call EXCEPT ![c] = k]
    OBVIOUS
  <2> HIDE DEF k
  <2>3. Goes(c) /\ call'[c] = k /\ \A d \in Calls \ {c} : call'[d] = call[d]
    BY <1>1, <2>1, <2>2, GoesOn
  <2>4. Fits(c)'
    BY <1>1, <1>2, <2>1, <2>3 DEF Fits, AcceptSteps, RegisterSteps, TransferSteps
  <2> QED
    BY <1>1, <1>2, <2>1, <2>3, <2>4, RestsType DEF TransferSteps
<1>4. CASE \E p \in {"create", "done"} : Goto(c, p)
  <2> PICK p \in {"create", "done"} : Goto(c, p)
    BY <1>4
  <2>1. /\ Goes(c) /\ call'[c] = [call[c] EXCEPT !.pc = p]
        /\ \A d \in Calls \ {c} : call'[d] = call[d]
    BY <1>1, GotoGoes DEF Steps
  <2>2. Fits(c)' /\ call'[c].pc = p
    BY <1>1, <1>2, <2>1 DEF Requests, Fits, AcceptSteps, RegisterSteps, TransferSteps
  <2> QED
    BY <1>1, <1>2, <2>1, <2>2, RestsType DEF TransferSteps
<1> QED
  BY <1>3, <1>4 DEF AcceptIdentify, AcceptRelook, Finish, Holders

LEMMA AcceptCreateType ==
    ASSUME TypeInv, NEW c \in Calls, AcceptCreate(c)
    PROVE  TypeInv' /\ Goes(c) /\ Spares(c)
<1>1. call[c] \in Requests /\ Fits(c) /\ OwnRows(c) /\ DataOK /\ c \in Ids
  BY DEF TypeInv, TypeOK, DataOK, Ids
<1>2. /\ call[c].pc = "create" /\ Running(c)
      /\ UNCHANGED <<member, owner, invite, session, seeds>>
  BY DEF AcceptCreate, At, Running
<1>3. faults' \in Seq(Faults) /\ Len(faults') <= MaxFaults /\ clashes' = clashes
  BY <1>1, FaultsType DEF AcceptCreate, DataOK, Fails
<1>4. CASE account' = [account EXCEPT ![c] = Invitee(c)] /\ call' = [call EXCEPT ![c].pc = "join", ![c].who = c]
  <2> DEFINE k == [call[c] EXCEPT !.pc = "join", !.who = c]
  <2>1. /\ k \in Requests /\ k.pc = "join" /\ k.who = c
        /\ k.op = call[c].op /\ k.inv = call[c].inv
    <3>1. "join" \in Steps
      BY DEF Steps
    <3>2. k \in Requests
      BY <1>1, <3>1 DEF Requests
    <3>3. k.pc = "join" /\ k.who = c /\ k.op = call[c].op /\ k.inv = call[c].inv
      BY <1>1 DEF Requests
    <3> QED
      BY <3>2, <3>3
  <2>2. call' = [call EXCEPT ![c] = k]
    BY <1>4
  <2> HIDE DEF k
  <2>3. Goes(c) /\ call'[c] = k /\ \A d \in Calls \ {c} : call'[d] = call[d]
    BY <1>2, <2>1, <2>2, GoesOn
  <2>4. Fits(c)' /\ call'[c].pc \notin TransferSteps
    BY <1>1, <1>2, <2>1, <2>3 DEF Fits, AcceptSteps, RegisterSteps, TransferSteps
  <2>5. Invitee(c) \in Emails
    BY <1>1, <1>2 DEF Fits, Invitee, DataOK, AcceptSteps
  <2>6. DataOK' /\ OwnWrite(c)
    BY <1>1, <1>2, <1>3, <1>4, <2>5 DEF DataOK, OwnWrite
  <2>7. OwnRows(c)'
    BY <1>1, <1>2, <2>1, <2>3 DEF OwnRows, Fits, AcceptSteps
  <2> QED
    BY <2>3, <2>4, <2>6, <2>7, OwnWriteType
<1>5. CASE UNCHANGED account /\ \E p \in {"relook", "done"} : Goto(c, p)
  <2> PICK p \in {"relook", "done"} : Goto(c, p)
    BY <1>5
  <2>1. /\ Goes(c) /\ call'[c] = [call[c] EXCEPT !.pc = p]
        /\ \A d \in Calls \ {c} : call'[d] = call[d]
    BY <1>2, GotoGoes DEF Steps
  <2>2. Fits(c)' /\ call'[c].pc = p
    BY <1>1, <1>2, <2>1 DEF Requests, Fits, AcceptSteps, RegisterSteps, TransferSteps
  <2>3. session' \in SUBSET (Ids \X Ids) /\ call[c].pc # "new"
    BY <1>1, <1>2 DEF DataOK
  <2> QED
    BY <1>2, <1>3, <1>5, <2>1, <2>2, <2>3, RestsType DEF TransferSteps
<1> QED
  BY <1>4, <1>5 DEF AcceptCreate, Finish

LEMMA AcceptJoinType ==
    ASSUME TypeInv, NEW c \in Calls, AcceptJoin(c)
    PROVE  TypeInv' /\ Goes(c) /\ Spares(c)
<1> DEFINE new == [ws |-> Founder, who |-> call[c].who, status |-> "active",
                   role |-> invite[call[c].inv].role]
<1>1. call[c] \in Requests /\ Fits(c) /\ OwnRows(c) /\ DataOK /\ c \in Ids
  BY DEF TypeInv, TypeOK, DataOK, Ids
<1>2. /\ call[c].pc = "join" /\ Running(c)
      /\ UNCHANGED <<account, owner, invite, session, seeds>>
  BY DEF AcceptJoin, At, Running
<1>3. faults' \in Seq(Faults) /\ Len(faults') <= MaxFaults /\ clashes' = clashes
  BY <1>1, FaultsType DEF AcceptJoin, DataOK, Fails
<1>4. CASE member' = [member EXCEPT ![c] = new] /\ Goto(c, "consume")
  <2>1. /\ Goes(c) /\ call'[c] = [call[c] EXCEPT !.pc = "consume"]
        /\ \A d \in Calls \ {c} : call'[d] = call[d]
    BY <1>2, <1>4, GotoGoes DEF Steps
  <2>2. Fits(c)' /\ call'[c].pc \notin TransferSteps
    BY <1>1, <1>2, <2>1 DEF Requests, Fits, AcceptSteps, RegisterSteps, TransferSteps
  <2>3. new \in Memberships /\ new.ws = Founder
    BY <1>1, <1>2 DEF Fits, AcceptSteps, DataOK, Memberships, Roles, Ids
  <2> HIDE DEF new
  <2>4. DataOK' /\ OwnWrite(c) /\ member'[c] = new
    BY <1>1, <1>2, <1>3, <1>4, <2>3 DEF DataOK, OwnWrite
  <2>5. OwnRows(c)'
    BY <1>1, <1>2, <2>1, <2>3, <2>4 DEF OwnRows, Fits, AcceptSteps, Requests
  <2> QED
    BY <2>1, <2>2, <2>4, <2>5, OwnWriteType
<1>5. CASE UNCHANGED member /\ GiveUp(c, CreatedIdentity(c))
  <2>1. CreatedIdentity(c) \in {<<>>, <<"account">>}
    BY DEF CreatedIdentity
  <2>2. /\ Goes(c) /\ \A d \in Calls \ {c} : call'[d] = call[d]
        /\ \E u \in {<<>>, <<"account">>} :
             call'[c] = [call[c] EXCEPT !.pc = IF u = <<>> THEN "done" ELSE "undo", !.undo = u]
    BY ZenonT(60), <1>2, <1>5, <2>1, GiveUpGoes DEF Undos
  <2>3. Fits(c)' /\ call'[c].pc \in {"done", "undo"}
    BY <1>1, <1>2, <2>2 DEF Requests, Fits, AcceptSteps, RegisterSteps, TransferSteps
  <2>4. session' \in SUBSET (Ids \X Ids) /\ call[c].pc # "new"
    BY <1>1, <1>2 DEF DataOK
  <2> QED
    BY <1>2, <1>3, <1>5, <2>2, <2>3, <2>4, RestsType DEF TransferSteps
<1> QED
  BY <1>4, <1>5 DEF AcceptJoin

LEMMA AcceptConsumeType ==
    ASSUME TypeInv, NEW c \in Calls, AcceptConsume(c)
    PROVE  TypeInv' /\ Goes(c) /\ Spares(c)
<1>1. call[c] \in Requests /\ Fits(c) /\ OwnRows(c) /\ DataOK /\ c \in Ids
  BY DEF TypeInv, TypeOK, DataOK, Ids
<1>2. /\ call[c].pc = "consume" /\ Running(c) /\ call[c].op = "accept"
      /\ UNCHANGED <<account, member, owner, session, seeds>>
  BY <1>1 DEF AcceptConsume, At, Running, Fits, AcceptSteps
<1>3. faults' \in Seq(Faults) /\ Len(faults') <= MaxFaults /\ clashes' = clashes
  BY <1>1, FaultsType DEF AcceptConsume, DataOK, Fails
<1>4. CASE /\ invite[call[c].inv].status = "pending"
           /\ invite' = [invite EXCEPT ![call[c].inv].status = "accepted"] /\ Finish(c)
  <2>1. /\ Goes(c) /\ call'[c] = [call[c] EXCEPT !.pc = "done"]
        /\ \A d \in Calls \ {c} : call'[d] = call[d]
    BY <1>2, <1>4, GotoGoes DEF Steps, Finish
  <2>2. /\ invite' \in [Ids -> Invitations]
        /\ \A j \in Ids : /\ invite[j].status # "none" <=> invite'[j].status # "none"
                          /\ invite'[j].email = invite[j].email /\ invite'[j].role = invite[j].role
                          /\ invite'[j] = NoInvitation <=> invite[j] = NoInvitation
    BY <1>1, <1>2, <1>4, InviteType DEF Fits
  <2>3. Fits(c)' /\ call'[c].pc = "done" /\ call'[c].op = call[c].op
    BY <1>1, <1>2, <2>1, <2>2 DEF Requests, Fits, AcceptSteps, RegisterSteps, TransferSteps
  <2>4. DataOK'
    BY <1>1, <1>2, <1>3, <2>2 DEF DataOK
  <2>5. Spares(c)
    BY <1>2, <2>1, <2>2 DEF Spares, Ids
  <2>6. OwnRows(c)'
    BY <1>1, <1>2, <2>2, <2>3 DEF OwnRows
  <2>7. OwnerBelongs'
    BY <1>2, <2>1, <2>3, <2>5, OwnerBelongsStays DEF TransferSteps
  <2> QED
    BY <2>1, <2>3, <2>4, <2>5, <2>6, <2>7, TypeStep
<1>5. CASE UNCHANGED invite /\ GiveUp(c, IF call[c].who = c THEN <<"member", "account">> ELSE <<"member">>)
  <2>1. PICK u \in {<<"member">>, <<"member", "account">>} : GiveUp(c, u)
    BY <1>5
  <2>2. /\ Goes(c) /\ \A d \in Calls \ {c} : call'[d] = call[d]
        /\ call'[c] = [call[c] EXCEPT !.pc = "undo", !.undo = u]
    <3>1. u \in Undos /\ u # <<>>
      BY DEF Undos
    <3> QED
      BY <1>2, <2>1, <3>1, GiveUpGoes
  <2>3. Fits(c)' /\ call'[c].pc = "undo"
    <3>1. /\ call'[c].pc = "undo" /\ call'[c].undo = u
          /\ call'[c].op = call[c].op /\ call'[c].inv = call[c].inv
      BY <1>1, <2>2 DEF Requests
    <3> QED
      BY <1>1, <1>2, <1>5, <2>1, <3>1 DEF Fits, AcceptSteps, RegisterSteps, TransferSteps
  <2>4. session' \in SUBSET (Ids \X Ids) /\ call[c].pc # "new"
    BY <1>1, <1>2 DEF DataOK
  <2> QED
    BY <1>2, <1>3, <1>5, <2>2, <2>3, <2>4, RestsType DEF TransferSteps
<1> QED
  BY <1>4, <1>5 DEF AcceptConsume

LEMMA UndoType ==
    ASSUME TypeInv, NEW c \in Calls, Undo(c)
    PROVE  TypeInv' /\ Goes(c) /\ Spares(c)
<1>1. call[c] \in Requests /\ Fits(c) /\ OwnRows(c) /\ DataOK /\ c \in Ids
  BY DEF TypeInv, TypeOK, DataOK, Ids
<1>2. call[c].pc = "undo" /\ Running(c) /\ UNCHANGED <<invite, session, seeds>>
  BY DEF Undo, At, Running
<1>3. faults' \in Seq(Faults) /\ Len(faults') <= MaxFaults /\ clashes' = clashes
  BY <1>1, FaultsType DEF Undo, DataOK
<1>4. PICK u \in {<<>>, <<"account">>, <<"tenant">>, <<"account", "tenant">>} :
        /\ GiveUp(c, u)
        /\ call[c].op = "accept" => u \in {<<>>, <<"account">>}
        /\ call[c].op = "register" => u \in {<<>>, <<"tenant">>, <<"account", "tenant">>}
  <2>1. /\ Tail(<<"account">>) = <<>> /\ Tail(<<"member">>) = <<>> /\ Tail(<<"tenant">>) = <<>>
        /\ Tail(<<"member", "account">>) = <<"account">> /\ Tail(<<"account", "tenant">>) = <<"tenant">>
        /\ Tail(<<"member", "account", "tenant">>) = <<"account", "tenant">>
    OBVIOUS
  <2> QED
    BY <1>1, <1>2, <2>1 DEF Undo, Fits
<1>5. /\ Goes(c) /\ \A d \in Calls \ {c} : call'[d] = call[d]
      /\ call'[c] = [call[c] EXCEPT !.pc = IF u = <<>> THEN "done" ELSE "undo", !.undo = u]
  <2>1. u \in Undos
    BY DEF Undos
  <2> QED
    BY <1>2, <1>4, <2>1, GiveUpGoes
<1>6. /\ call'[c].pc = (IF u = <<>> THEN "done" ELSE "undo") /\ call'[c].undo = u
      /\ call'[c].op = call[c].op /\ call'[c].inv = call[c].inv
  BY <1>1, <1>5 DEF Requests
<1>7. Fits(c)' /\ call'[c].pc \notin TransferSteps
  BY <1>1, <1>2, <1>4, <1>6 DEF Fits, AcceptSteps, RegisterSteps, TransferSteps
<1>8. /\ account' = [account EXCEPT ![c] = account'[c]] /\ account'[c] \in {account[c], None}
      /\ member' = [member EXCEPT ![c] = member'[c]] /\ member'[c] \in {member[c], NoMember}
      /\ owner' = [owner EXCEPT ![c] = owner'[c]] /\ owner'[c] \in {owner[c], NoTenant}
  BY <1>1 DEF Undo, DataOK
<1>9. DataOK'
  BY <1>1, <1>2, <1>3, <1>8 DEF DataOK
<1>10. OwnWrite(c)
  BY <1>1, <1>2, <1>8 DEF DataOK, OwnWrite
<1>11. OwnRows(c)'
  BY <1>1, <1>2, <1>6, <1>8 DEF OwnRows
<1> QED
  BY <1>5, <1>7, <1>9, <1>10, <1>11, OwnWriteType

\* A step of a registration: it goes on to the next one or gives up.
Advances(c) ==
    \/ \E p \in {"account", "owner", "own", "seed", "done"} :
         Goto(c, p) /\ (p = "account" => call[c].pc = "tenant")
    \/ \E u \in {<<"tenant">>, <<"account", "tenant">>, <<"member", "account", "tenant">>} :
         GiveUp(c, u)

RegisterWrites(c) ==
    /\ \/ account' = account
       \/ account' = [account EXCEPT ![c] = call[c].email] /\ call[c].pc = "account"
    /\ \/ member' = member
       \/ member' = [member EXCEPT ![c] = [ws |-> c, who |-> c, role |-> "owner", status |-> "active"]]
    /\ \/ owner' = owner
       \/ owner' = [owner EXCEPT ![c] = None]
       \/ owner' = [owner EXCEPT ![c] = c]
    /\ seeds' \in [Ids -> SUBSET {"list", "badge", "form"}]
    /\ session' \in SUBSET (Ids \X Ids)
    /\ UNCHANGED invite
    /\ Works \/ Fails

LEMMA RegisterType ==
    ASSUME TypeInv, NEW c \in Calls, call[c].pc \in RegisterSteps, Advances(c), RegisterWrites(c)
    PROVE  TypeInv' /\ Goes(c) /\ Spares(c)
<1>1. call[c] \in Requests /\ Fits(c) /\ OwnRows(c) /\ DataOK /\ c \in Ids
  BY DEF TypeInv, TypeOK, DataOK, Ids
<1>2. call[c].op = "register" /\ Running(c) /\ (call[c].pc \in {"tenant", "account"} => call[c].email \in Emails)
  BY <1>1 DEF Fits, RegisterSteps, Running
<1>3. faults' \in Seq(Faults) /\ Len(faults') <= MaxFaults /\ clashes' = clashes
  BY <1>1, FaultsType DEF DataOK, Fails, RegisterWrites
<1>4. /\ Goes(c) /\ \A d \in Calls \ {c} : call'[d] = call[d]
      /\ Fits(c)' /\ call'[c].pc \notin TransferSteps /\ call'[c].op = "register"
  <2>1. CASE \E p \in {"account", "owner", "own", "seed", "done"} :
               Goto(c, p) /\ (p = "account" => call[c].pc = "tenant")
    <3> PICK p \in {"account", "owner", "own", "seed", "done"} :
          Goto(c, p) /\ (p = "account" => call[c].pc = "tenant")
      BY <2>1
    <3>1. /\ Goes(c) /\ call'[c] = [call[c] EXCEPT !.pc = p]
          /\ \A d \in Calls \ {c} : call'[d] = call[d]
      BY <1>2, GotoGoes DEF RegisterSteps, Steps
    <3>2. /\ call'[c].pc = p /\ call'[c].op = call[c].op /\ call'[c].inv = call[c].inv
          /\ call'[c].email = call[c].email
      BY <1>1, <3>1 DEF Requests
    <3>3. Fits(c)' /\ call'[c].pc \notin TransferSteps
      BY <1>1, <1>2, <3>2 DEF Fits, AcceptSteps, RegisterSteps, TransferSteps
    <3> QED
      BY <1>2, <3>1, <3>2, <3>3
  <2>2. CASE \E u \in {<<"tenant">>, <<"account", "tenant">>, <<"member", "account", "tenant">>} :
               GiveUp(c, u)
    <3> PICK u \in {<<"tenant">>, <<"account", "tenant">>, <<"member", "account", "tenant">>} :
          GiveUp(c, u)
      BY <2>2
    <3>1. /\ Goes(c) /\ \A d \in Calls \ {c} : call'[d] = call[d]
          /\ call'[c] = [call[c] EXCEPT !.pc = "undo", !.undo = u]
      BY ZenonT(60), <1>2, GiveUpGoes DEF Undos
    <3>2. /\ call'[c].pc = "undo" /\ call'[c].undo = u /\ call'[c].op = call[c].op
          /\ call'[c].inv = call[c].inv
      BY <1>1, <3>1 DEF Requests
    <3>3. Fits(c)' /\ call'[c].pc \notin TransferSteps
      BY <1>1, <1>2, <3>2 DEF Fits, AcceptSteps, RegisterSteps, TransferSteps
    <3> QED
      BY <1>2, <3>1, <3>2, <3>3
  <2> QED
    BY <2>1, <2>2 DEF Advances
<1>5. DataOK'
  <2>1. account' \in [Ids -> Emails \cup {None}]
    BY <1>1, <1>2 DEF DataOK, RegisterWrites
  <2>2. owner' \in [Ids -> Ids \cup {None, NoTenant}]
    BY <1>1 DEF DataOK, RegisterWrites
  <2>3. member' \in [Ids -> Memberships \cup {NoMember}]
    BY <1>1 DEF DataOK, Memberships, Roles, RegisterWrites
  <2> QED
    BY <1>1, <1>3, <2>1, <2>2, <2>3 DEF DataOK, RegisterWrites
<1>6. OwnWrite(c)
  BY <1>1 DEF DataOK, OwnWrite, RegisterWrites
<1>7. OwnRows(c)'
  <2>1. invite'[c] = NoInvitation
    BY <1>1, <1>2 DEF OwnRows, RegisterWrites
  <2>2. \/ member'[c] = NoMember
        \/ member'[c] = [ws |-> c, who |-> c, role |-> "owner", status |-> "active"]
    BY <1>1, <1>2 DEF OwnRows, DataOK, RegisterWrites
  <2> QED
    BY <1>4, <2>1, <2>2 DEF OwnRows
<1> QED
  BY <1>4, <1>5, <1>6, <1>7, OwnWriteType

LEMMA RegistersType ==
    ASSUME TypeInv, NEW c \in Calls,
           \/ RegisterTenant(c) \/ RegisterAccount(c) \/ RegisterOwner(c) \/ RegisterOwn(c)
           \/ RegisterSeed(c)
    PROVE  TypeInv' /\ Goes(c) /\ Spares(c)
<1>1. call[c] \in Requests /\ DataOK /\ c \in Ids
  BY DEF TypeInv, TypeOK, DataOK, Ids
<1>2. /\ seeds \in [Ids -> SUBSET {"list", "badge", "form"}] /\ session \in SUBSET (Ids \X Ids)
      /\ session \cup {<<c, c>>} \in SUBSET (Ids \X Ids)
  BY <1>1 DEF DataOK
<1>3. CASE RegisterTenant(c)
  <2>1. call[c].pc \in RegisterSteps /\ Advances(c)
    BY <1>3 DEF RegisterTenant, RegisterSteps, At, Finish, Advances
  <2>2. RegisterWrites(c)
    BY <1>2, <1>3 DEF RegisterTenant, RegisterWrites
  <2> QED
    BY <2>1, <2>2, RegisterType
<1>4. CASE RegisterAccount(c)
  <2>1. call[c].pc \in RegisterSteps /\ Advances(c)
    BY <1>4 DEF RegisterAccount, RegisterSteps, At, Advances
  <2>2. RegisterWrites(c)
    BY <1>2, <1>4 DEF RegisterAccount, RegisterWrites, At
  <2> QED
    BY <2>1, <2>2, RegisterType
<1>5. CASE RegisterOwner(c)
  <2>1. call[c].pc \in RegisterSteps /\ Advances(c)
    BY <1>5 DEF RegisterOwner, RegisterSteps, At, Advances
  <2>2. RegisterWrites(c)
    BY <1>2, <1>5 DEF RegisterOwner, RegisterWrites
  <2> QED
    BY <2>1, <2>2, RegisterType
<1>6. CASE RegisterOwn(c)
  <2>1. call[c].pc \in RegisterSteps /\ Advances(c)
    BY <1>6 DEF RegisterOwn, RegisterSteps, At, Advances
  <2>2. RegisterWrites(c)
    BY <1>2, <1>6 DEF RegisterOwn, RegisterWrites
  <2> QED
    BY <2>1, <2>2, RegisterType
<1>7. CASE RegisterSeed(c)
  <2>1. call[c].pc \in RegisterSteps /\ Advances(c)
    BY <1>7 DEF RegisterSeed, RegisterSteps, At, Finish, Advances
  <2>2. seeds' \in [Ids -> SUBSET {"list", "badge", "form"}]
    <3>1. \E some \in SUBSET {"list", "badge", "form"} : seeds' = [seeds EXCEPT ![c] = some]
      <4>1. /\ {} \in SUBSET {"list", "badge", "form"} /\ {"list", "form"} \in SUBSET {"list", "badge", "form"}
            /\ {"list", "badge"} \in SUBSET {"list", "badge", "form"}
            /\ {"list", "badge", "form"} \in SUBSET {"list", "badge", "form"}
        OBVIOUS
      <4> QED
        BY <1>7, <4>1 DEF RegisterSeed
    <3> QED
      BY <1>2, <3>1
  <2>3. RegisterWrites(c)
    BY <1>2, <1>7, <2>2 DEF RegisterSeed, RegisterWrites
  <2> QED
    BY <2>1, <2>3, RegisterType
<1> QED
  BY <1>3, <1>4, <1>5, <1>6, <1>7

\* A membership of the workspace changes its role or its status at most.
Rewrites(m) ==
    \/ member' = member
    \/ /\ m \in Ids /\ HasMember(m) /\ Belongs(m)
       /\ \E new \in Memberships : /\ new.ws = member[m].ws /\ new.who = member[m].who
                                   /\ member' = [member EXCEPT ![m] = new]

LEMMA RewriteType ==
    ASSUME TypeInv, NEW c \in Calls, call[c].pc # "new", Goes(c), \A d \in Calls \ {c} : call'[d] = call[d],
           NEW m, Rewrites(m), UNCHANGED <<account, owner, invite, session, seeds>>, Works \/ Fails,
           Fits(c)', call'[c].pc \in TransferSteps => Belongs(call'[c].target) /\ Belongs(call'[c].owner)
    PROVE  TypeInv' /\ Spares(c)
<1>1. DataOK /\ OwnRows(c) /\ c \in Ids
  BY DEF TypeInv, TypeOK, DataOK, Ids
<1>2. faults' \in Seq(Faults) /\ Len(faults') <= MaxFaults /\ clashes' = clashes
  BY <1>1, FaultsType DEF DataOK, Fails
<1>3. member' \in [Ids -> Memberships \cup {NoMember}]
  BY <1>1 DEF Rewrites, DataOK
<1>4. \A i \in Ids : \/ member'[i] = member[i]
                     \/ /\ Belongs(i) /\ HasMember(i) /\ HasMember(i)'
                        /\ member'[i].ws = member[i].ws /\ member'[i].who = member[i].who
  <2>1. CASE member' = member
    BY <2>1
  <2>2. CASE m \in Ids /\ HasMember(m) /\ Belongs(m)
    <3>1. PICK new \in Memberships : /\ new.ws = member[m].ws /\ new.who = member[m].who
                                     /\ \/ member' = [member EXCEPT ![m] = new]
                                        \/ member' = member
      BY <2>2 DEF Rewrites, HasMember, TypeInv, TypeOK
    <3>2. new # NoMember
      BY WorkspaceConstants DEF WorkspaceConstants, Memberships, NoMember
    <3> QED
      BY <1>1, <2>2, <3>1, <3>2 DEF HasMember, DataOK
  <2> QED
    BY <2>1, <2>2 DEF Rewrites
<1>5. Spares(c)
  BY <1>4 DEF Spares, Ids
<1>6. DataOK'
  BY <1>1, <1>2, <1>3 DEF DataOK
<1>7. OwnRows(c)'
  <2>1. call'[c].op = call[c].op /\ (call[c].pc = "done" => FALSE)
    BY DEF Goes
  <2>2. CASE member'[c] = member[c]
    BY <1>1, <2>1, <2>2 DEF OwnRows
  <2>3. CASE Belongs(c) /\ HasMember(c) /\ member'[c].ws = member[c].ws
    BY <1>1, <2>1, <2>3 DEF OwnRows, Belongs, HasMember
  <2> QED
    BY <1>1, <1>4, <2>2, <2>3
<1>8. OwnerBelongs'
  BY <1>5, OwnerBelongsStays
<1> QED
  BY <1>5, <1>6, <1>7, <1>8, TypeStep

LEMMA UpdateWriteType ==
    ASSUME TypeInv, NEW c \in Calls, UpdateWrite(c)
    PROVE  TypeInv' /\ Goes(c) /\ Spares(c) /\ Rewrites(call[c].target)
<1> DEFINE m == call[c].target
<1>1. call[c] \in Requests /\ Fits(c) /\ DataOK
  BY DEF TypeInv, TypeOK, DataOK
<1>2. /\ call[c].pc = "update" /\ Running(c) /\ call[c].op = "update" /\ m \in Ids
      /\ UNCHANGED <<account, owner, invite, session, seeds>> /\ (Works \/ Fails)
  BY <1>1 DEF UpdateWrite, At, Running, Fits
<1>3. Rewrites(m)
  <2>1. CASE member' = member
    BY <2>1 DEF Rewrites
  <2>2. CASE /\ OfWorkspace(m)
             /\ member' = [member EXCEPT
                             ![m].role = IF call[c].role = None THEN @ ELSE call[c].role,
                             ![m].status = IF call[c].status = None THEN @ ELSE call[c].status]
    <3> DEFINE new == [member[m] EXCEPT !.role = IF call[c].role = None THEN @ ELSE call[c].role,
                                        !.status = IF call[c].status = None THEN @ ELSE call[c].status]
    <3>1. HasMember(m) /\ member[m] \in Memberships /\ Belongs(m)
      BY <1>1, <1>2, <2>2, MembersBelong, WorkspaceConstants
         DEF WorkspaceConstants, OfWorkspace, HasMember, NoMember, DataOK, Ids
    <3>2. new \in Memberships /\ new.ws = member[m].ws /\ new.who = member[m].who
      BY <1>1, <3>1 DEF Memberships, Requests, Roles
    <3>3. member' = [member EXCEPT ![m] = new]
      BY <1>1, <1>2, <2>2 DEF DataOK
    <3> HIDE DEF new, m
    <3> QED
      BY <1>2, <3>1, <3>2, <3>3 DEF Rewrites
  <2> QED
    BY <2>1, <2>2 DEF UpdateWrite, OfWorkspace
<1>4. CASE Finish(c)
  <2>1. /\ Goes(c) /\ call'[c] = [call[c] EXCEPT !.pc = "done"]
        /\ \A d \in Calls \ {c} : call'[d] = call[d]
    BY <1>2, <1>4, GotoGoes DEF Steps, Finish
  <2>2. Fits(c)' /\ call'[c].pc \notin TransferSteps /\ call[c].pc # "new"
    BY <1>1, <1>2, <2>1 DEF Requests, Fits, AcceptSteps, RegisterSteps, TransferSteps
  <2> HIDE DEF m
  <2>3. TypeInv' /\ Spares(c)
    BY <1>2, <1>3, <2>1, <2>2, RewriteType
  <2> QED
    BY <1>3, <2>1, <2>3 DEF m
<1>5. CASE call' = [call EXCEPT ![c].pc = "signout", ![c].who = member[m].who]
  <2> DEFINE k == [call[c] EXCEPT !.pc = "signout", !.who = member[m].who]
  <2>0. member[m].who \in Ids \cup {None}
    BY <1>1, <1>2 DEF DataOK, Memberships, NoMember
  <2>1. k \in Requests /\ k.pc = "signout" /\ k.op = call[c].op /\ k.inv = call[c].inv
    <3>1. "signout" \in Steps
      BY DEF Steps
    <3>2. k \in Requests
      BY <1>1, <2>0, <3>1 DEF Requests
    <3>3. k.pc = "signout" /\ k.op = call[c].op /\ k.inv = call[c].inv
      BY <1>1 DEF Requests
    <3> QED
      BY <3>2, <3>3
  <2>2. call' = [call EXCEPT ![c] = k]
    BY <1>5
  <2> HIDE DEF k
  <2>3. Goes(c) /\ call'[c] = k /\ \A d \in Calls \ {c} : call'[d] = call[d]
    BY <1>2, <2>1, <2>2, GoesOn
  <2>4. Fits(c)' /\ call'[c].pc \notin TransferSteps /\ call[c].pc # "new"
    BY <1>1, <1>2, <2>1, <2>3 DEF Fits, AcceptSteps, RegisterSteps, TransferSteps
  <2> HIDE DEF m
  <2>5. TypeInv' /\ Spares(c)
    BY <1>2, <1>3, <2>3, <2>4, RewriteType
  <2> QED
    BY <1>3, <2>3, <2>5 DEF m
<1> QED
  BY <1>4, <1>5 DEF UpdateWrite

LEMMA SignOutType ==
    ASSUME TypeInv, NEW c \in Calls, SignOut(c) \/ Mint(c)
    PROVE  TypeInv' /\ Goes(c) /\ Spares(c)
<1>1. call[c] \in Requests /\ Fits(c) /\ DataOK
  BY DEF TypeInv, TypeOK, DataOK
<1>2. /\ call[c].pc \in {"signout", "mint"} /\ Running(c) /\ Goto(c, "done")
      /\ UNCHANGED <<account, member, owner, invite, seeds>> /\ (Works \/ Fails)
  BY DEF SignOut, Mint, At, Running, Finish, Works
<1>3. faults' \in Seq(Faults) /\ Len(faults') <= MaxFaults /\ clashes' = clashes
  BY <1>1, <1>2, FaultsType DEF DataOK, Fails
<1>4. session' \in SUBSET (Ids \X Ids)
  <2>1. CASE SignOut(c)
    BY <1>1, <2>1 DEF SignOut, DataOK
  <2>2. CASE Mint(c)
    <3>1. <<call[c].who, call[c].ws>> \in Ids \X Ids
      BY <1>1, <2>2 DEF Mint, At, Fits
    <3> QED
      BY <1>1, <2>2, <3>1 DEF Mint, DataOK
  <2> QED
    BY <2>1, <2>2
<1>5. /\ Goes(c) /\ call'[c] = [call[c] EXCEPT !.pc = "done"]
      /\ \A d \in Calls \ {c} : call'[d] = call[d]
  BY <1>2, GotoGoes DEF Steps
<1>6. Fits(c)' /\ call'[c].pc \notin TransferSteps /\ call[c].pc # "new"
  BY <1>1, <1>2, <1>5 DEF Requests, Fits, AcceptSteps, RegisterSteps, TransferSteps
<1> QED
  BY <1>2, <1>3, <1>4, <1>5, <1>6, RestsType

LEMMA TransferClaimType ==
    ASSUME TypeInv, NEW c \in Calls, TransferClaim(c)
    PROVE  TypeInv' /\ Goes(c) /\ Spares(c)
<1>1. call[c] \in Requests /\ Fits(c) /\ OwnRows(c) /\ DataOK /\ c \in Ids
  BY DEF TypeInv, TypeOK, DataOK, Ids
<1>2. /\ call[c].pc = "transfer" /\ Running(c) /\ call[c].target \in Ids
      /\ Belongs(call[c].target) /\ Belongs(call[c].owner)
      /\ UNCHANGED <<account, member, invite, session, seeds>> /\ (Works \/ Fails)
  BY <1>1 DEF TransferClaim, At, Running, Fits, TransferSteps, TypeInv, OwnerBelongs
<1>3. faults' \in Seq(Faults) /\ Len(faults') <= MaxFaults /\ clashes' = clashes
  BY <1>1, <1>2, FaultsType DEF DataOK, Fails
<1>4. PICK p \in {"promote", "done"} : Goto(c, p)
  BY DEF TransferClaim, Finish
<1>5. /\ Goes(c) /\ call'[c] = [call[c] EXCEPT !.pc = p]
      /\ \A d \in Calls \ {c} : call'[d] = call[d]
  BY <1>2, <1>4, GotoGoes DEF Steps
<1>6. Fits(c)' /\ call'[c].target = call[c].target /\ call'[c].owner = call[c].owner
  BY <1>1, <1>2, <1>5 DEF Requests, Fits, AcceptSteps, RegisterSteps, TransferSteps
<1>7. owner' = owner \/ owner' = [owner EXCEPT ![Founder] = call[c].target]
  BY DEF TransferClaim
<1>8. Founder \in Ids \ Calls /\ DataOK'
  BY <1>1, <1>2, <1>3, <1>7, WorkspaceConstants DEF WorkspaceConstants, Ids, DataOK
<1>9. Spares(c) /\ OwnRows(c)'
  <2>1. \A d \in Calls : owner'[d] = owner[d]
    BY <1>1, <1>7, <1>8 DEF DataOK, Ids
  <2>2. Spares(c)
    BY <1>2, <1>5, <2>1 DEF Spares, Ids
  <2> QED
    BY <1>1, <1>2, <1>5, <2>1, <2>2 DEF OwnRows, Goes
<1>10. OwnerBelongs'
  BY <1>1, <1>2, <1>5, <1>6, <1>7, <1>8, <1>9, OwnerBelongsStays DEF DataOK
<1> QED
  BY <1>5, <1>6, <1>8, <1>9, <1>10, TypeStep

LEMMA SetRoleRewrites ==
    ASSUME TypeInv, NEW m \in Ids, Belongs(m), NEW r \in Roles, SetRole(m, r)
    PROVE  Rewrites(m) /\ (Works \/ Fails)
<1>1. CASE member' = member
  BY <1>1 DEF Rewrites, SetRole
<1>2. CASE HasMember(m) /\ member' = [member EXCEPT ![m].role = r]
  <2> DEFINE new == [member[m] EXCEPT !.role = r]
  <2>1. member[m] \in Memberships
    BY <1>2 DEF TypeInv, TypeOK, HasMember
  <2>2. new \in Memberships /\ new.ws = member[m].ws /\ new.who = member[m].who
    BY <2>1 DEF Memberships
  <2>3. member' = [member EXCEPT ![m] = new]
    BY <1>2
  <2> HIDE DEF new
  <2> QED
    BY <1>2, <2>2, <2>3 DEF Rewrites, SetRole
<1> QED
  BY <1>1, <1>2 DEF SetRole, HasMember

LEMMA TransferRolesType ==
    ASSUME TypeInv, NEW c \in Calls, TransferPromote(c) \/ TransferDemote(c)
    PROVE  TypeInv' /\ Goes(c) /\ Spares(c)
<1>1. call[c] \in Requests /\ Fits(c) /\ DataOK
  BY DEF TypeInv, TypeOK, DataOK
<1>2. /\ call[c].pc \in {"promote", "demote"} /\ Running(c)
      /\ call[c].target \in Ids /\ call[c].owner \in Ids
      /\ Belongs(call[c].target) /\ Belongs(call[c].owner)
      /\ UNCHANGED <<account, owner, invite, session, seeds>>
  BY <1>1 DEF TransferPromote, TransferDemote, At, Running, Fits, TransferSteps, TypeInv, OwnerBelongs
<1>3. CASE TransferPromote(c)
  <2>1. Rewrites(call[c].target) /\ (Works \/ Fails)
    BY <1>2, <1>3, SetRoleRewrites DEF TransferPromote, Roles
  <2>2. /\ Goes(c) /\ call'[c] = [call[c] EXCEPT !.pc = "demote"]
        /\ \A d \in Calls \ {c} : call'[d] = call[d]
    BY <1>2, <1>3, GotoGoes DEF Steps, TransferPromote
  <2>3. Fits(c)' /\ call'[c].target = call[c].target /\ call'[c].owner = call[c].owner
    BY <1>1, <1>2, <2>2 DEF Requests, Fits, AcceptSteps, RegisterSteps, TransferSteps
  <2> QED
    BY <1>2, <2>1, <2>2, <2>3, RewriteType
<1>4. CASE TransferDemote(c)
  <2>1. Rewrites(call[c].owner) /\ (Works \/ Fails)
    BY <1>2, <1>4, SetRoleRewrites DEF TransferDemote, Roles, DelegatedRoles
  <2> DEFINE k == [call[c] EXCEPT !.pc = "signout", !.owner = member[call[c].owner].who]
  <2>0. member[call[c].owner].who \in Ids \cup {None}
    BY <1>1, <1>2 DEF DataOK, Memberships, NoMember
  <2>2. k \in Requests /\ k.pc = "signout" /\ k.op = call[c].op /\ k.inv = call[c].inv
    <3>1. "signout" \in Steps
      BY DEF Steps
    <3>2. k \in Requests
      BY <1>1, <2>0, <3>1 DEF Requests
    <3>3. k.pc = "signout" /\ k.op = call[c].op /\ k.inv = call[c].inv
      BY <1>1 DEF Requests
    <3> QED
      BY <3>2, <3>3
  <2>3. call' = [call EXCEPT ![c] = k]
    BY <1>4 DEF TransferDemote
  <2> HIDE DEF k
  <2>4. Goes(c) /\ call'[c] = k /\ \A d \in Calls \ {c} : call'[d] = call[d]
    BY <1>2, <2>2, <2>3, GoesOn
  <2>5. Fits(c)' /\ call'[c].pc \notin TransferSteps /\ call[c].pc # "new"
    BY <1>1, <1>2, <2>2, <2>4 DEF Fits, AcceptSteps, RegisterSteps, TransferSteps
  <2> QED
    BY <1>2, <2>1, <2>4, <2>5, RewriteType
<1> QED
  BY <1>3, <1>4

--------------------------------------------------------------------------------
(* The types *)

\* The steps of a request that has begun.
GoingOn(c) ==
    \/ InviteInsert(c) \/ AcceptIdentify(c) \/ AcceptCreate(c) \/ AcceptRelook(c) \/ AcceptJoin(c)
    \/ AcceptConsume(c) \/ Undo(c) \/ RegisterTenant(c) \/ RegisterAccount(c) \/ RegisterOwner(c)
    \/ RegisterOwn(c) \/ RegisterSeed(c) \/ UpdateWrite(c) \/ SignOut(c) \/ TransferClaim(c)
    \/ TransferPromote(c) \/ TransferDemote(c) \/ Mint(c) \/ Crash(c)

\* No step after the first disturbs anything that an overlap could.
LEMMA NoClash == ASSUME NEW c, GoingOn(c) PROVE clashes' = clashes
<1>1. CASE InviteInsert(c) \/ AcceptIdentify(c) \/ AcceptCreate(c) \/ AcceptRelook(c) \/ AcceptJoin(c)
           \/ AcceptConsume(c)
  BY <1>1 DEF InviteInsert, AcceptIdentify, AcceptCreate, AcceptRelook, AcceptJoin, AcceptConsume,
         Works, Fails, Fault
<1>2. CASE \/ RegisterTenant(c) \/ RegisterAccount(c) \/ RegisterOwner(c) \/ RegisterOwn(c)
           \/ RegisterSeed(c)
  BY <1>2 DEF RegisterTenant, RegisterAccount, RegisterOwner, RegisterOwn, RegisterSeed, Works, Fails, Fault
<1>3. CASE TransferClaim(c) \/ TransferPromote(c) \/ TransferDemote(c)
  BY <1>3 DEF TransferClaim, TransferPromote, TransferDemote, SetRole, Works, Fails, Fault
<1>4. CASE Undo(c) \/ UpdateWrite(c) \/ SignOut(c) \/ Mint(c) \/ Crash(c)
  BY <1>4 DEF Undo, UpdateWrite, SignOut, Mint, Crash, Works, Fails, Fault
<1> QED
  BY <1>1, <1>2, <1>3, <1>4 DEF GoingOn

LEMMA GoingOnType ==
    ASSUME TypeInv, NEW c \in Calls, GoingOn(c)
    PROVE  TypeInv' /\ Goes(c) /\ Spares(c) /\ clashes' = clashes /\ Running(c)
<1>1. clashes' = clashes /\ Running(c)
  <2>1. Running(c)
    BY DEF GoingOn, Running, At, Crash, InviteInsert, AcceptIdentify, AcceptCreate,
         AcceptRelook, AcceptJoin, AcceptConsume, Undo, RegisterTenant, RegisterAccount, RegisterOwner,
         RegisterOwn, RegisterSeed, UpdateWrite, SignOut, TransferClaim, TransferPromote,
         TransferDemote, SetRole, Mint
  <2> QED
    BY <2>1, NoClash
<1> QED
  BY <1>1, InviteInsertType, AcceptIdentifyType, AcceptCreateType, AcceptJoinType, AcceptConsumeType,
     UndoType, RegistersType, UpdateWriteType, SignOutType, TransferClaimType, TransferRolesType,
     CrashType DEF GoingOn

LEMMA NextSteps ==
    ASSUME [Next]_vars
    PROVE  \/ \E c \in Calls : Beginning(c) \/ GoingOn(c)
           \/ \E i \in Ids : Expire(i)
           \/ UNCHANGED vars
  BY DEF Next, Beginning, GoingOn

LEMMA TypeInvInit == Init => TypeInv
<1> SUFFICES ASSUME Init PROVE TypeInv
  OBVIOUS
<1>1. None \notin Ids /\ Founder \in Ids /\ Founder \notin Calls /\ Partner \notin Calls
  BY WorkspaceConstants DEF WorkspaceConstants, Ids
<1>2. Idle \in Requests
  BY DEF Idle, Requests, Steps, Undos
<1>3. TypeOK
  <2>1. account \in [Ids -> Emails \cup {None}]
    BY WorkspaceConstants DEF Init, WorkspaceConstants, Ids
  <2>2. member \in [Ids -> Memberships \cup {NoMember}]
    BY <1>1 DEF Init, Memberships, Roles, DelegatedRoles
  <2>3. owner \in [Ids -> Ids \cup {None, NoTenant}]
    BY <1>1 DEF Init
  <2>4. invite \in [Ids -> Invitations]
    <3>1. NoInvitation \in Invitations
      BY DEF NoInvitation, Invitations
    <3>2. [status |-> "pending", email |-> Guest, role |-> "editor", live |-> TRUE] \in Invitations
      BY WorkspaceConstants DEF WorkspaceConstants, Invitations, DelegatedRoles
    <3> QED
      BY <3>1, <3>2 DEF Init
  <2>5. seeds \in [Ids -> SUBSET {"list", "badge", "form"}] /\ session \in SUBSET (Ids \X Ids)
    BY DEF Init
  <2>6. faults \in Seq(Faults) /\ Len(faults) <= MaxFaults /\ clashes \subseteq {"ownership", "session"}
    BY WorkspaceConstants DEF Init, WorkspaceConstants
  <2>7. \A c \in Calls : call[c] = Idle
    BY DEF Init
  <2> QED
    BY <2>1, <2>2, <2>3, <2>4, <2>5, <2>6, <2>7 DEF TypeOK, Idle, Steps, Undos
<1>4. call \in [Calls -> Requests] /\ \A c \in Calls : call[c] = Idle
  BY <1>2 DEF Init
<1>5. \A c \in Calls : Fits(c) /\ OwnRows(c)
  <2> SUFFICES ASSUME NEW c \in Calls PROVE Fits(c) /\ OwnRows(c)
    OBVIOUS
  <2>1. Fits(c)
    BY <1>1, <1>4, WorkspaceConstants
       DEF WorkspaceConstants, Fits, Idle, AcceptSteps, RegisterSteps, TransferSteps, AllOperations
  <2>2. account[c] = None /\ member[c] = NoMember /\ owner[c] = NoTenant /\ invite[c] = NoInvitation
    BY <1>1 DEF Init, Ids
  <2> QED
    BY <2>1, <2>2 DEF OwnRows
<1>6. OwnerBelongs
  BY <1>1, <1>4 DEF Init, OwnerBelongs, Belongs, Idle, TransferSteps
<1>7. \A i \in Ids : invite[i].status # "none" => invite[i].email \in Emails /\ invite[i].role \in DelegatedRoles
  BY WorkspaceConstants DEF WorkspaceConstants, Init, NoInvitation, DelegatedRoles
<1> QED
  BY <1>3, <1>4, <1>5, <1>6, <1>7 DEF TypeInv

LEMMA TypeInvStep == TypeInv /\ [Next]_vars => TypeInv'
<1> SUFFICES ASSUME TypeInv, [Next]_vars PROVE TypeInv'
  OBVIOUS
<1>1. CASE UNCHANGED vars
  BY <1>1 DEF vars, TypeInv, TypeOK, Fits, OwnRows, OwnerBelongs, Belongs
<1> QED
  BY <1>1, NextSteps, BeginningType, GoingOnType, ExpireType

LEMMA TypeInvariant == Spec => []TypeInv
  BY TypeInvInit, TypeInvStep, PTL DEF Spec

\* The types of the rows, and that a request only ever holds on to identities,
\* memberships and invitations that were there (HandleAcceptWorkspaceInvitation,
\* HandleRegisterTenant, HandleTransferWorkspaceOwnership).
THEOREM WorkspaceTypes == Spec => []TypeOK
<1>1. TypeInv => TypeOK
  BY DEF TypeInv
<1> QED
  BY <1>1, TypeInvariant, PTL

--------------------------------------------------------------------------------
(* Registration *)

\* What faults there may have been before a step, from those there may be after.
LEMMA FaultsBefore ==
    ASSUME TypeInv, NEW kind \in Faults, Fault(kind)
    PROVE  /\ OnlyWritesFail' => OnlyWritesFail /\ kind = "write"
           /\ faults' # <<>>
<1>1. faults \in Seq(Faults) /\ faults' = Append(faults, kind)
  BY DEF TypeInv, TypeOK, Fault
<1>2. /\ DOMAIN faults' = 1..(Len(faults) + 1) /\ faults'[Len(faults) + 1] = kind
      /\ \A k \in 1..Len(faults) : faults'[k] = faults[k]
  BY <1>1
<1>3. DOMAIN faults = 1..Len(faults) /\ Len(faults) \in Nat
  BY <1>1
<1> QED
  BY <1>2, <1>3 DEF OnlyWritesFail

LEMMA GoingOnFaults ==
    ASSUME NEW c \in Calls, GoingOn(c) PROVE faults' = faults \/ \E kind \in Faults : Fault(kind)
  BY DEF GoingOn, Works, Fails, Fault, Crash, InviteInsert, AcceptIdentify, AcceptCreate,
         AcceptRelook, AcceptJoin, AcceptConsume, Undo, RegisterTenant, RegisterAccount, RegisterOwner,
         RegisterOwn, RegisterSeed, UpdateWrite, SignOut, TransferClaim, TransferPromote,
         TransferDemote, SetRole, Mint

LEMMA FaultlessBefore ==
    ASSUME TypeInv, [Next]_vars, faults' = <<>>
    PROVE  faults = <<>> /\ \A kind \in Faults : ~Fault(kind)
<1>1. \A kind \in Faults : ~Fault(kind)
  BY FaultsBefore
<1>2. faults' = faults \/ \E kind \in Faults : Fault(kind)
  <2>1. CASE UNCHANGED vars
    BY <2>1 DEF vars
  <2>2. CASE \E i \in Ids : Expire(i)
    BY <2>2 DEF Expire
  <2>3. CASE \E c \in Calls : Beginning(c)
    BY <2>3, BeginningReads DEF Begun, Touches
  <2>4. CASE \E c \in Calls : GoingOn(c)
    BY <2>4, GoingOnFaults
  <2> QED
    BY <2>1, <2>2, <2>3, <2>4, NextSteps
<1> QED
  BY <1>1, <1>2

\* What others do leaves a registration as it is.
LEMMA RegistrationSpared ==
    ASSUME TypeInv, NEW c \in Calls, Spares(c), NEW d \in Calls, d # c,
           call[d].op = "register" => Registered(d)
    PROVE  (call[d].op = "register" => Registered(d))'
  BY DEF Spares, Registered, HasTenant, HasAccount, HasMember, Belongs, Ids

\* A registration begins with no row.
LEMMA RegistrationBegins ==
    ASSUME TypeInv, NEW c \in Calls, Beginning(c)
    PROVE  (call[c].op = "register" => Registered(c))'
<1>1. PICK k \in Requests : Begun(c, k)
  BY BeginningReads
<1>2. call'[c] = k /\ call[c].op = None
  BY <1>1 DEF Begun, TypeInv, Begins, Fits
<1>3. owner[c] = NoTenant /\ account[c] = None /\ member[c] = NoMember
  BY <1>2, WorkspaceConstants DEF WorkspaceConstants, TypeInv, OwnRows, AllOperations
<1> QED
  BY <1>1, <1>2, <1>3 DEF Begun, First, Touches, Registered, HasTenant, HasAccount, HasMember

LEMMA RegistrationGoesOn ==
    ASSUME TypeInv, RegistrationInv, NEW c \in Calls, GoingOn(c), OnlyWritesFail'
    PROVE  (call[c].op = "register" => Registered(c))'
<1>1. /\ call[c] \in Requests /\ Fits(c) /\ OwnRows(c) /\ c \in Ids
      /\ account \in [Ids -> Emails \cup {None}] /\ member \in [Ids -> Memberships \cup {NoMember}]
      /\ owner \in [Ids -> Ids \cup {None, NoTenant}]
  BY DEF TypeInv, TypeOK, Ids
<1>2. Running(c) /\ call'[c].op = call[c].op
  BY GoingOnType DEF Goes, Running
<1> SUFFICES ASSUME call[c].op = "register" PROVE Registered(c)'
  BY <1>2
<1>3. /\ NoTenant \notin Ids \cup {None} /\ NoMember \notin Memberships /\ None \notin Emails
  BY WorkspaceConstants DEF WorkspaceConstants, Memberships, NoMember
<1>4. call[c].pc \in RegisterSteps \cup {"undo"}
  BY <1>1, <1>2 DEF Requests, Steps, Fits, Running, AcceptSteps, TransferSteps, RegisterSteps
<1>5. ~Crash(c)
  BY FaultsBefore DEF Crash, Fault
<1>6. OnlyWritesFail
  <2>1. faults' = faults \/ \E kind \in Faults : Fault(kind)
    BY GoingOnFaults
  <2>2. CASE faults' = faults
    BY <2>2 DEF OnlyWritesFail
  <2> QED
    BY <2>1, <2>2, FaultsBefore
<1>7. Registered(c)
  BY <1>6 DEF RegistrationInv
<1>8. \A p \in Steps \ {"new"} : Goto(c, p) => call'[c].pc = p
  BY <1>2, GotoPlace
<1>9. \A u \in Undos : GiveUp(c, u) => /\ call'[c].pc = IF u = <<>> THEN "done" ELSE "undo"
                                       /\ call'[c].undo = u
  BY <1>2, GiveUpPlace
<1>10. CASE RegisterTenant(c)
  <2>1. call'[c].pc \in {"account", "done"}
    BY <1>8, <1>10 DEF RegisterTenant, Finish, Steps
  <2>2. call'[c].pc = "account" => owner'[c] = None
    BY <1>1, <1>8, <1>10 DEF RegisterTenant, Finish, Steps
  <2>3. call'[c].pc = "done" => owner' = owner
    BY <1>1, <1>8, <1>10 DEF RegisterTenant, Finish, Steps
  <2> QED
    BY <1>3, <1>7, <1>10, <2>1, <2>2, <2>3 DEF RegisterTenant, Registered, HasTenant, HasAccount, HasMember, At
<1>11. CASE RegisterAccount(c)
  <2>1. /\ UNCHANGED <<owner, member>> /\ call[c].pc = "account"
        /\ \/ call'[c].pc = "owner" /\ account'[c] = call[c].email
           \/ call'[c].pc = "undo" /\ call'[c].undo = <<"tenant">> /\ account' = account
    BY <1>1, <1>8, <1>9, <1>11 DEF RegisterAccount, Steps, Undos, At
  <2>2. call[c].email # None
    BY <1>1, <1>3, <2>1 DEF Fits
  <2> QED
    BY <1>7, <2>1, <2>2 DEF Registered, HasTenant, HasAccount, HasMember
<1>12. CASE RegisterOwner(c)
  <2>1. /\ UNCHANGED <<owner, account>> /\ call[c].pc = "owner"
        /\ \/ /\ call'[c].pc = "own"
              /\ member'[c] = [ws |-> c, who |-> c, role |-> "owner", status |-> "active"]
           \/ call'[c].pc = "undo" /\ call'[c].undo = <<"account", "tenant">> /\ member' = member
    BY <1>1, <1>8, <1>9, <1>12 DEF RegisterOwner, Steps, Undos, At
  <2>2. [ws |-> c, who |-> c, role |-> "owner", status |-> "active"] # NoMember
    BY <1>1, WorkspaceConstants DEF WorkspaceConstants, NoMember
  <2> QED
    BY <1>7, <2>1, <2>2 DEF Registered, HasTenant, HasAccount, HasMember
<1>13. CASE RegisterOwn(c)
  <2>1. /\ UNCHANGED <<member, account>> /\ call[c].pc = "own"
        /\ \/ call'[c].pc = "seed" /\ owner'[c] = c
           \/ call'[c].pc = "undo" /\ call'[c].undo = <<"member", "account", "tenant">>
    BY <1>1, <1>8, <1>9, <1>13 DEF RegisterOwn, Steps, Undos, At
  <2>2. /\ <<"member", "account", "tenant">> # <<"tenant">>
        /\ <<"member", "account", "tenant">> # <<"account", "tenant">>
    OBVIOUS
  <2> QED
    BY <1>7, <2>1, <2>2 DEF Registered, HasTenant, HasAccount, HasMember
<1>14. CASE RegisterSeed(c)
  <2>1. UNCHANGED <<member, account, owner>> /\ call[c].pc = "seed" /\ call'[c].pc = "done"
    BY <1>8, <1>14 DEF RegisterSeed, Finish, Steps, At
  <2> QED
    BY <1>7, <2>1 DEF Registered, HasTenant, HasAccount, HasMember
<1>15. CASE Undo(c)
  <2>1. /\ call[c].pc = "undo" /\ GiveUp(c, Tail(call[c].undo))
        /\ call[c].undo \in {<<"tenant">>, <<"account", "tenant">>, <<"member", "account", "tenant">>}
    BY <1>1, <1>15 DEF Undo, At, Fits
  <2>2. /\ account'[c] = IF Head(call[c].undo) = "account" THEN None ELSE account[c]
        /\ member'[c] = IF Head(call[c].undo) = "member" THEN NoMember ELSE member[c]
        /\ owner'[c] = IF Head(call[c].undo) = "tenant" THEN NoTenant ELSE owner[c]
    <3>1. ~Fault("undo")
      BY FaultsBefore DEF Fault
    <3> QED
      BY <1>1, <1>15, <3>1 DEF Undo
  <2>3. CASE call[c].undo = <<"tenant">>
    <3>1. Tail(call[c].undo) = <<>> /\ Head(call[c].undo) = "tenant"
      BY <2>3
    <3>2. call'[c].pc = "done"
      BY <1>9, <2>1, <3>1 DEF Undos
    <3> QED
      BY <1>7, <2>1, <2>2, <2>3, <3>1, <3>2 DEF Registered, HasTenant, HasAccount, HasMember
  <2>4. CASE call[c].undo = <<"account", "tenant">>
    <3>1. Tail(call[c].undo) = <<"tenant">> /\ Head(call[c].undo) = "account"
      BY <2>4
    <3>2. call'[c].pc = "undo" /\ call'[c].undo = <<"tenant">>
      BY <1>9, <2>1, <3>1 DEF Undos
    <3> QED
      BY <1>7, <2>1, <2>2, <2>4, <3>1, <3>2 DEF Registered, HasTenant, HasAccount, HasMember
  <2>5. CASE call[c].undo = <<"member", "account", "tenant">>
    <3>1. Tail(call[c].undo) = <<"account", "tenant">> /\ Head(call[c].undo) = "member"
      BY <2>5
    <3>2. call'[c].pc = "undo" /\ call'[c].undo = <<"account", "tenant">>
      BY <1>9, <2>1, <3>1 DEF Undos
    <3> QED
      BY <1>7, <2>1, <2>2, <2>5, <3>1, <3>2 DEF Registered, HasTenant, HasAccount, HasMember
  <2> QED
    BY <2>1, <2>3, <2>4, <2>5
<1> QED
  BY <1>4, <1>5, <1>10, <1>11, <1>12, <1>13, <1>14, <1>15
     DEF GoingOn, At, RegisterSteps, InviteInsert, AcceptIdentify, AcceptCreate, AcceptRelook, AcceptJoin,
         AcceptConsume, UpdateWrite, SignOut, TransferClaim, TransferPromote, TransferDemote, Mint

LEMMA RegistrationStep == TypeInv /\ RegistrationInv /\ [Next]_vars => RegistrationInv'
<1> SUFFICES ASSUME TypeInv, RegistrationInv, [Next]_vars, OnlyWritesFail',
                    NEW d \in Calls
             PROVE  (call[d].op = "register" => Registered(d))'
  BY DEF RegistrationInv
<1>1. CASE UNCHANGED vars
  BY <1>1 DEF vars, RegistrationInv, OnlyWritesFail, Registered, HasTenant, HasAccount, HasMember
<1>2. CASE \E i \in Ids : Expire(i)
  BY <1>2 DEF Expire, RegistrationInv, OnlyWritesFail, Registered, HasTenant, HasAccount, HasMember
<1>3. ASSUME NEW c \in Calls, Beginning(c) PROVE (call[d].op = "register" => Registered(d))'
  <2>1. faults' = faults
    BY <1>3, BeginningReads DEF Begun, Touches
  <2>2. call[d].op = "register" => Registered(d)
    BY <2>1 DEF RegistrationInv, OnlyWritesFail
  <2> QED
    BY <1>3, <2>2, RegistrationBegins, RegistrationSpared, BeginningType
<1>4. ASSUME NEW c \in Calls, GoingOn(c) PROVE (call[d].op = "register" => Registered(d))'
  <2>1. faults' = faults \/ \E kind \in Faults : Fault(kind)
    BY <1>4, GoingOnFaults
  <2>2. OnlyWritesFail
    <3>1. CASE faults' = faults
      BY <3>1 DEF OnlyWritesFail
    <3> QED
      BY <2>1, <3>1, FaultsBefore
  <2>3. call[d].op = "register" => Registered(d)
    BY <2>2 DEF RegistrationInv
  <2> QED
    BY <1>4, <2>3, RegistrationGoesOn, RegistrationSpared, GoingOnType
<1> QED
  BY <1>1, <1>2, <1>3, <1>4, NextSteps

\* A registration leaves a tenant, an account, an owner membership and the
\* ownership, or none of them, unless a removal fails or the process crashes
\* (HandleRegisterTenant and its compensations).
THEOREM Registers == Spec => []RegistrationIsAtomic
<1>1. Init => RegistrationInv
  <2> SUFFICES ASSUME Init, NEW c \in Calls PROVE call[c].op # "register"
    BY DEF RegistrationInv
  <2> QED
    BY WorkspaceConstants DEF WorkspaceConstants, Init, Idle, AllOperations
<1>2. TypeInv /\ RegistrationInv => RegistrationIsAtomic
  <2> SUFFICES ASSUME TypeInv, RegistrationInv, Quiet, OnlyWritesFail,
                      NEW c \in Calls, call[c].op = "register"
               PROVE  \/ owner[c] = NoTenant /\ account[c] = None /\ member[c] = NoMember
                      \/ owner[c] = c /\ account[c] # None /\ member[c].role = "owner"
    BY DEF RegistrationIsAtomic, OnlyWritesFail
  <2>1. call[c].pc = "done"
    BY WorkspaceConstants DEF WorkspaceConstants, TypeInv, Fits, Quiet, Running, AllOperations
  <2>2. Registered(c) /\ OwnRows(c)
    BY DEF RegistrationInv, TypeInv
  <2> QED
    BY <2>1, <2>2 DEF Registered, HasTenant, HasAccount, HasMember, OwnRows
<1> QED
  BY <1>1, <1>2, RegistrationStep, TypeInvariant, PTL DEF Spec

--------------------------------------------------------------------------------
(* Invitations *)

\* A request that accepts or revokes no invitation, or takes back a membership
\* that was not kept.
LEMMA SpentOnceStays ==
    ASSUME TypeInv, SpentOnce, NEW c \in Calls, Spares(c), Placed(c)',
           Kept(c)' <=> Kept(c), Kept(c) => call'[c].inv = call[c].inv,
           \A i \in Ids : Accepted(i)' <=> Accepted(i)
    PROVE  SpentOnce'
<1>1. \A d \in Calls \ {c} : /\ call'[d] = call[d] /\ (HasMember(d)' <=> HasMember(d))
                             /\ (Kept(d)' <=> Kept(d))
  BY DEF Spares, HasMember, Kept, Ids
<1>2. \A d \in Calls : (Kept(d)' <=> Kept(d)) /\ (Kept(d) => call'[d].inv = call[d].inv)
  BY <1>1
<1>3. \A d \in Calls : Placed(d)'
  BY <1>1 DEF SpentOnce, Placed
<1>4. \A d \in Calls : Kept(d) => call[d].inv \in Ids
  BY DEF TypeInv, Fits, Kept
<1> QED
  BY <1>2, <1>3, <1>4 DEF SpentOnce, Accepted

LEMMA SpentOnceBegins ==
    ASSUME TypeInv, SpentOnce, NEW c \in Calls, Beginning(c)
    PROVE  SpentOnce'
<1>1. PICK k \in Requests : Begun(c, k)
  BY BeginningReads
<1>2. call'[c] = k /\ call[c].op = None /\ call[c].pc = "new"
  BY <1>1 DEF Begun, TypeInv, Begins, Fits
<1>3. member'[c] = NoMember /\ member[c] = NoMember
  BY <1>1, <1>2, WorkspaceConstants DEF WorkspaceConstants, TypeInv, OwnRows, AllOperations, Begun, Touches
<1>4. Placed(c)' /\ ~Kept(c) /\ ~Kept(c)'
  BY <1>1, <1>2, <1>3 DEF Placed, Kept, HasMember, Begun, First
<1>5. \A i \in Ids : Accepted(i)' <=> Accepted(i)
  BY <1>1 DEF Begun, Touches, Revokes, Accepted, TypeInv, TypeOK, Invitations
<1> QED
  BY <1>4, <1>5, BeginningType, SpentOnceStays

LEMMA SpentOnceOthers ==
    ASSUME TypeInv, SpentOnce, NEW c \in Calls, GoingOn(c), call[c].op # "accept"
    PROVE  SpentOnce'
<1>1. Fits(c) /\ call'[c].op = call[c].op /\ Spares(c) /\ invite \in [Ids -> Invitations]
      /\ Fits(c)' /\ OwnRows(c)
  BY GoingOnType DEF TypeInv, TypeOK, Goes, Running
<1>2. Placed(c)' /\ ~Kept(c) /\ ~Kept(c)'
  BY <1>1 DEF Placed, Kept, Fits, AcceptSteps
<1>3. ~AcceptConsume(c)
  BY <1>1 DEF AcceptConsume, At, Fits, AcceptSteps
<1>4. invite' = invite \/ InviteInsert(c)
  BY <1>3 DEF GoingOn, Crash, rows, AcceptIdentify, AcceptCreate, AcceptRelook, AcceptJoin, Undo,
         RegisterTenant, RegisterAccount, RegisterOwner, RegisterOwn, RegisterSeed, UpdateWrite, SignOut,
         TransferClaim, TransferPromote, TransferDemote, Mint
<1>5. \A i \in Ids : Accepted(i)' <=> Accepted(i)
  <2>1. CASE invite' = invite
    BY <2>1 DEF Accepted
  <2>2. CASE InviteInsert(c)
    <3>1. invite[c].status = "none" /\ c \in Ids
      BY <1>1, <2>2 DEF InviteInsert, At, OwnRows, NoInvitation, Ids
    <3> QED
      BY <1>1, <2>2, <3>1 DEF InviteInsert, Accepted
  <2> QED
    BY <1>4, <2>1, <2>2
<1> QED
  BY <1>1, <1>2, <1>5, SpentOnceStays

LEMMA SpentOnceAccepts ==
    ASSUME TypeInv, SpentOnce, NEW c \in Calls, GoingOn(c), call[c].op = "accept",
           \A kind \in Faults : ~Fault(kind)
    PROVE  SpentOnce'
<1>1. /\ call[c] \in Requests /\ Fits(c) /\ call'[c].op = "accept" /\ call'[c].inv = call[c].inv
      /\ call[c].inv \in Ids /\ Spares(c) /\ c \in Ids /\ Running(c)
      /\ invite \in [Ids -> Invitations] /\ member \in [Ids -> Memberships \cup {NoMember}]
  BY GoingOnType DEF TypeInv, TypeOK, Goes, Running, Fits, Ids
<1>2. Placed(c) /\ ~Kept(c)
  BY <1>1 DEF SpentOnce, Kept, Running
<1>3. \A p \in Steps \ {"new"} : Goto(c, p) => call'[c].pc = p
  BY <1>1, GotoPlace
<1>4. \A u \in Undos : GiveUp(c, u) => /\ call'[c].pc = IF u = <<>> THEN "done" ELSE "undo"
                                       /\ call'[c].undo = u
  BY <1>1, GiveUpPlace
<1>5. CASE AcceptIdentify(c) \/ AcceptRelook(c) \/ AcceptCreate(c)
  <2>1. /\ UNCHANGED <<member, invite>> /\ call[c].pc \in {"identify", "create", "relook"}
        /\ call'[c].pc # "consume"
    <3>1. call[c].pc \in {"identify", "create", "relook"}
      BY <1>5 DEF AcceptIdentify, AcceptRelook, AcceptCreate, At
    <3>2. UNCHANGED <<member, invite>>
      BY <1>5 DEF AcceptIdentify, AcceptRelook, AcceptCreate, rows
    <3>3. \/ \E x \in Ids : call' = [call EXCEPT ![c].pc = "join", ![c].who = x]
          \/ \E p \in {"create", "relook", "done"} : Goto(c, p)
      BY <1>1, <1>5 DEF AcceptIdentify, AcceptRelook, AcceptCreate, Holders, Finish
    <3>4. call'[c].pc \in {"join", "create", "relook", "done"}
      <4>1. CASE \E x \in Ids : call' = [call EXCEPT ![c].pc = "join", ![c].who = x]
        BY <1>1, <4>1 DEF TypeInv, Requests
      <4>2. CASE \E p \in {"create", "relook", "done"} : Goto(c, p)
        BY <1>3, <4>2 DEF Steps
      <4> QED
        BY <3>3, <4>1, <4>2
    <3> QED
      BY <3>1, <3>2, <3>4
  <2>2. ~HasMember(c) /\ ~HasMember(c)'
    BY <1>1, <1>2, <2>1 DEF Placed, HasMember
  <2>3. Placed(c)' /\ ~Kept(c)'
    BY <2>1, <2>2 DEF Placed, Kept
  <2> QED
    BY <1>1, <1>2, <2>1, <2>3, SpentOnceStays DEF Accepted
<1>6. CASE AcceptJoin(c)
  <2>1. invite' = invite /\ call[c].pc = "join" /\ ~HasMember(c)
    BY <1>1, <1>2, <1>6 DEF AcceptJoin, At, Placed
  <2>2. Placed(c)' /\ ~Kept(c)'
    <3>1. CASE /\ Goto(c, "consume")
               /\ member' = [member EXCEPT ![c] = [ws |-> Founder, who |-> call[c].who, status |-> "active",
                                                   role |-> invite[call[c].inv].role]]
      <4>1. call'[c].pc = "consume" /\ member'[c].status = "active"
        BY <1>1, <1>3, <3>1 DEF Steps
      <4>2. NoMember.status # "active"
        BY WorkspaceConstants DEF WorkspaceConstants, NoMember
      <4>3. member'[c] # NoMember
        BY <4>1, <4>2
      <4> QED
        BY <4>1, <4>3 DEF Placed, Kept, HasMember
    <3>2. CASE member' = member /\ GiveUp(c, CreatedIdentity(c))
      <4>1. CreatedIdentity(c) \in {<<>>, <<"account">>}
        BY DEF CreatedIdentity
      <4>2. ~HasMember(c)' /\ call'[c].pc # "consume"
        BY <1>4, <2>1, <3>2, <4>1 DEF HasMember, Undos
      <4> QED
        BY <4>2 DEF Placed, Kept
    <3> QED
      BY <1>6, <3>1, <3>2 DEF AcceptJoin
  <2> QED
    BY <1>1, <1>2, <2>1, <2>2, SpentOnceStays DEF Accepted
<1>7. CASE AcceptConsume(c)
  <2>1. member' = member /\ call[c].pc = "consume" /\ HasMember(c) /\ HasMember(c)'
    BY <1>2, <1>7 DEF AcceptConsume, At, Placed, HasMember
  <2>2. CASE /\ invite[call[c].inv].status = "pending" /\ Finish(c)
             /\ invite' = [invite EXCEPT ![call[c].inv].status = "accepted"]
    <3>1. call'[c].pc = "done"
      BY <1>3, <2>2 DEF Finish, Steps
    <3>2. Kept(c)' /\ Placed(c)'
      BY <1>1, <2>1, <3>1 DEF Kept, Placed
    <3>3. \A i \in Ids : Accepted(i)' <=> Accepted(i) \/ i = call[c].inv
      BY <1>1, <2>2 DEF Accepted, Invitations
    <3>4. \A d \in Calls \ {c} : /\ call'[d] = call[d] /\ (HasMember(d)' <=> HasMember(d))
                                 /\ (Kept(d)' <=> Kept(d))
      BY <1>1 DEF Spares, HasMember, Kept, Ids
    <3>5. \A d \in Calls : Kept(d) => call[d].inv # call[c].inv /\ call[d].inv \in Ids
      BY <2>2 DEF SpentOnce, Accepted, TypeInv, Fits, Kept
    <3>6. \A d \in Calls : Placed(d)'
      BY <3>2, <3>4 DEF SpentOnce, Placed
    <3>7. (\A d \in Calls : Kept(d) => Accepted(call[d].inv))'
      BY <1>1, <3>3, <3>4, <3>5 DEF SpentOnce, Accepted
    <3>8. (\A d, e \in Calls : Kept(d) /\ Kept(e) /\ call[d].inv = call[e].inv => d = e)'
      BY <1>1, <3>4, <3>5 DEF SpentOnce
    <3>9. (\A i \in Ids : Accepted(i) => \E d \in Calls : Kept(d) /\ call[d].inv = i)'
      BY <1>1, <1>2, <3>2, <3>3, <3>4 DEF SpentOnce
    <3> QED
      BY <3>6, <3>7, <3>8, <3>9 DEF SpentOnce
  <2>3. CASE invite' = invite /\ GiveUp(c, IF call[c].who = c THEN <<"member", "account">> ELSE <<"member">>)
    <3>1. PICK u \in {<<"member">>, <<"member", "account">>} : GiveUp(c, u)
      BY <2>3
    <3>2. call'[c].pc = "undo" /\ call'[c].undo = u
      BY <1>4, <3>1 DEF Undos
    <3>3. Placed(c)' /\ ~Kept(c)'
      BY <3>1, <3>2 DEF Placed, Kept
    <3> QED
      BY <1>1, <1>2, <2>3, <3>3, SpentOnceStays DEF Accepted
  <2> QED
    BY <1>7, <2>2, <2>3 DEF AcceptConsume
<1>8. CASE Undo(c)
  <2>1. /\ invite' = invite /\ call[c].pc = "undo" /\ GiveUp(c, Tail(call[c].undo))
        /\ call[c].undo \in {<<"account">>, <<"member">>, <<"member", "account">>}
    BY <1>1, <1>8 DEF Undo, At, Fits
  <2>2. member'[c] = IF Head(call[c].undo) = "member" THEN NoMember ELSE member[c]
    <3>1. ~Fault("undo")
      BY DEF Fault
    <3> QED
      BY <1>1, <1>8, <3>1 DEF Undo
  <2>3. /\ Head(<<"account">>) = "account" /\ Head(<<"member">>) = "member"
        /\ Head(<<"member", "account">>) = "member"
        /\ Tail(<<"account">>) = <<>> /\ Tail(<<"member">>) = <<>>
        /\ Tail(<<"member", "account">>) = <<"account">>
    OBVIOUS
  <2>4. <<"account">> # <<"member">> /\ <<"account">> # <<"member", "account">>
    OBVIOUS
  <2>5. ~HasMember(c)'
    BY <1>1, <1>2, <2>1, <2>2, <2>3, <2>4 DEF Placed, HasMember
  <2>6. call'[c].pc # "consume"
    BY <1>4, <2>1, <2>3 DEF Undos
  <2> QED
    BY <1>1, <1>2, <2>1, <2>5, <2>6, SpentOnceStays DEF Accepted, Placed, Kept
<1> QED
  BY <1>1, <1>5, <1>6, <1>7, <1>8
     DEF GoingOn, At, Fits, RegisterSteps, TransferSteps, Running, Crash, Fault, InviteInsert,
         RegisterTenant, RegisterAccount, RegisterOwner, RegisterOwn, RegisterSeed,
         UpdateWrite, SignOut, TransferClaim, TransferPromote, TransferDemote, Mint

LEMMA InvitationStep == TypeInv /\ InvitationInv /\ [Next]_vars => InvitationInv'
<1> SUFFICES ASSUME TypeInv, InvitationInv, [Next]_vars, faults' = <<>> PROVE SpentOnce'
  BY DEF InvitationInv
<1>1. SpentOnce /\ \A kind \in Faults : ~Fault(kind)
  BY FaultlessBefore DEF InvitationInv
<1>2. CASE UNCHANGED vars
  BY <1>1, <1>2 DEF vars, SpentOnce, Placed, Kept, Accepted, HasMember
<1>3. CASE \E i \in Ids : Expire(i)
  <2>1. UNCHANGED <<call, member>> /\ \A i \in Ids : Accepted(i)' <=> Accepted(i)
    BY <1>3 DEF Expire, Accepted, TypeInv, TypeOK, Invitations
  <2>2. \A d \in Calls : Kept(d) => call[d].inv \in Ids
    BY DEF TypeInv, Fits, Kept
  <2> QED
    BY <1>1, <2>1, <2>2 DEF SpentOnce, Placed, Kept, Accepted, HasMember
<1> QED
  BY <1>1, <1>2, <1>3, NextSteps, SpentOnceBegins, SpentOnceOthers, SpentOnceAccepts

\* Accepted any number of times at once, revoked or expired meanwhile, an
\* invitation ends up with one membership or with none
\* (HandleAcceptWorkspaceInvitation).
THEOREM InvitationsAreSpentOnce == Spec => []InvitationIsSpentOnce
<1>1. Init => InvitationInv
  <2> SUFFICES ASSUME Init PROVE SpentOnce
    BY DEF InvitationInv
  <2>1. \A c \in Calls : call[c].pc = "new" /\ call[c].op = None
    BY DEF Init, Idle
  <2>2. \A i \in Ids : invite[i].status # "accepted"
    BY DEF Init, NoInvitation
  <2>3. None # "accept"
    BY WorkspaceConstants DEF WorkspaceConstants, AllOperations
  <2> QED
    BY <2>1, <2>2, <2>3 DEF SpentOnce, Placed, Kept, Accepted
<1>2. TypeInv /\ InvitationInv => InvitationIsSpentOnce
  <2> SUFFICES ASSUME TypeInv, InvitationInv, Undisturbed, NEW i \in Ids
               PROVE  Cardinality(Joined(i)) = IF Accepted(i) THEN 1 ELSE 0
    BY DEF InvitationIsSpentOnce, Accepted
  <2>1. SpentOnce
    BY DEF InvitationInv, Undisturbed
  <2>2. \A c \in Calls : call[c].inv = i /\ HasMember(c) <=> Kept(c) /\ call[c].inv = i
    BY WorkspaceConstants
       DEF WorkspaceConstants, TypeInv, Fits, Kept, Undisturbed, Quiet, Running, AllOperations
  <2>3. Joined(i) = {c \in Calls : Kept(c) /\ call[c].inv = i}
    BY <2>2 DEF Joined, HasMember
  <2>4. CASE Accepted(i)
    <3>1. PICK c \in Calls : Kept(c) /\ call[c].inv = i
      BY <2>1, <2>4 DEF SpentOnce
    <3>2. Joined(i) = {c}
      BY <2>1, <2>3, <3>1 DEF SpentOnce
    <3> QED
      BY <2>4, <3>2, FS_Singleton
  <2>5. CASE ~Accepted(i)
    <3>1. Joined(i) = {}
      BY <2>1, <2>3, <2>5 DEF SpentOnce
    <3> QED
      BY <2>5, <3>1, FS_EmptySet
  <2> QED
    BY <2>4, <2>5
<1> QED
  BY <1>1, <1>2, InvitationStep, TypeInvariant, PTL DEF Spec

--------------------------------------------------------------------------------
(* Overlaps *)

LEMMA ClashesGrow == ASSUME [Next]_vars PROVE clashes \subseteq clashes'
<1>1. CASE \E c \in Calls : Beginning(c)
  BY <1>1 DEF Beginning, Begins, InviteCheck, RevokeInvitation, AcceptFind, RegisterCheck, UpdateRead,
         TransferRead, LoginRead, SelectRead, SignInRead, Logout
<1>2. CASE \E c \in Calls : GoingOn(c)
  <2>1. PICK c \in Calls : GoingOn(c)
    BY <1>2
  <2>2. clashes' = clashes
    BY <2>1, NoClash
  <2> QED
    BY <2>2
<1>3. CASE \E i \in Ids : Expire(i)
  BY <1>3 DEF Expire
<1>4. CASE UNCHANGED vars
  BY <1>4 DEF vars
<1> QED
  BY <1>1, <1>2, <1>3, <1>4, NextSteps

LEMMA ClashesStep == TypeInv /\ ClashesNoted /\ [Next]_vars => ClashesNoted'
<1> SUFFICES ASSUME TypeInv, ClashesNoted, [Next]_vars,
                    NEW a \in Calls, NEW b \in Calls, a # b, Running(a)', Running(b)'
             PROVE  Clash(call'[a].op, call'[b].op) \subseteq clashes'
  BY DEF ClashesNoted, Clash
<1>1. clashes \subseteq clashes'
  BY ClashesGrow
<1>2. CASE UNCHANGED vars \/ \E i \in Ids : Expire(i)
  BY <1>1, <1>2 DEF vars, Expire, ClashesNoted, Running
<1>3. ASSUME NEW c \in Calls, Beginning(c) PROVE Clash(call'[a].op, call'[b].op) \subseteq clashes'
  <2>1. PICK k \in Requests : Begun(c, k)
    BY <1>3, BeginningReads
  <2>2. call'[c] = k /\ \A d \in Calls \ {c} : call'[d] = call[d] /\ (Running(d)' <=> Running(d))
    BY <2>1 DEF Begun, TypeInv, Running
  <2>3. \A d \in Calls : Running(d) => Clash(k.op, call[d].op) \subseteq clashes'
    BY <2>1 DEF Begun, Begins
  <2>4. Clash(k.op, call[a].op) = Clash(call[a].op, k.op)
    BY DEF Clash
  <2>5. CASE a # c /\ b # c
    BY <1>1, <2>2, <2>5 DEF ClashesNoted
  <2>6. CASE a = c
    BY <2>2, <2>3, <2>6
  <2>7. CASE b = c
    BY <2>2, <2>3, <2>4, <2>7
  <2> QED
    BY <2>5, <2>6, <2>7
<1>4. ASSUME NEW c \in Calls, GoingOn(c) PROVE Clash(call'[a].op, call'[b].op) \subseteq clashes'
  <2>1. \A d \in Calls : Running(d)' => Running(d) /\ call'[d].op = call[d].op
    BY <1>4, GoingOnType DEF Spares, Goes, Running
  <2> QED
    BY <1>1, <2>1 DEF ClashesNoted
<1> QED
  BY <1>2, <1>3, <1>4, NextSteps

LEMMA ClashesInvariant == Spec => []ClashesNoted
<1>1. Init => ClashesNoted
  BY DEF Init, ClashesNoted, Running, Idle
<1> QED
  BY <1>1, ClashesStep, TypeInvariant, PTL DEF Spec

LEMMA ClashesAre ==
    /\ \A op \in {"accept", "update", "transfer"} : "ownership" \in Clash("transfer", op)
    /\ \A entry \in {"login", "select"}, op \in {"accept", "update"} : "session" \in Clash(entry, op)
<1>1. ASSUME NEW k \in {"ownership", "session"}, NEW a, NEW b, <<a, b>> \in Clashing(k)
      PROVE  k \in Clash(a, b)
  BY <1>1 DEF Clash
<1>2. \A op \in {"accept", "update", "transfer"} : <<"transfer", op>> \in Clashing("ownership")
  BY DEF Clashing
<1>3. \A entry \in {"login", "select"}, op \in {"accept", "update"} : <<entry, op>> \in Clashing("session")
  BY DEF Clashing
<1> QED
  BY <1>1, <1>2, <1>3

\* Without a clash, a transfer is alone with the members of the workspace, and a
\* sign-in is too.
LEMMA TransferAlone ==
    ASSUME TypeInv, ClashesNoted, "ownership" \notin clashes,
           NEW c \in Calls, Running(c), call[c].op = "transfer", NEW d \in Calls, Running(d), d # c
    PROVE  call[d].op \notin {"accept", "update", "transfer"}
<1>1. Clash(call[c].op, call[d].op) \subseteq clashes
  BY DEF ClashesNoted
<1>2. call[d].op \in {"accept", "update", "transfer"} => "ownership" \in Clash("transfer", call[d].op)
  BY ClashesAre
<1> QED
  BY <1>1, <1>2

LEMMA SignInAlone ==
    ASSUME TypeInv, ClashesNoted, "session" \notin clashes,
           NEW c \in Calls, Running(c), call[c].op \in {"login", "select"},
           NEW d \in Calls, Running(d), d # c
    PROVE  call[d].op \notin {"accept", "update"}
<1>1. Clash(call[c].op, call[d].op) \subseteq clashes
  BY DEF ClashesNoted
<1>2. call[d].op \in {"accept", "update"} => "session" \in Clash(call[c].op, call[d].op)
  BY ClashesAre
<1> QED
  BY <1>1, <1>2

--------------------------------------------------------------------------------
(* Ownership *)

\* A step that leaves the owner and the members of the workspace alone.
LEMMA OwnerStays ==
    ASSUME TypeInv, OwnerKept, NEW c \in Calls, Spares(c), call[c].pc # "done",
           owner'[Founder] = owner[Founder],
           \A m \in Ids : member'[m] = member[m] \/ (~OfWorkspace(m) /\ ~OfWorkspace(m)'),
           ~Transferring(c), ~Transferring(c)',
           call'[c].pc = "update" => call'[c].target # owner[Founder],
           call'[c].pc = "transfer" => /\ Choice(call'[c].target) /\ call'[c].target \in Ids
                                       /\ call'[c].target # owner[Founder]
    PROVE  OwnerKept'
<1>1. \A d \in Calls \ {c} : call'[d] = call[d]
  BY DEF Spares
<1>2. \A d \in Calls : /\ Transferring(d)' <=> Transferring(d)
                       /\ Transferring(d) => call'[d] = call[d]
  BY <1>1 DEF Transferring
<1>3. Owners' = Owners
  BY DEF Owners, OfWorkspace
<1>4. \A m \in Ids : Choice(m) => Choice(m)'
  BY <1>1 DEF Choice, OfWorkspace, Active
<1>5. owner[Founder] \in Ids /\ \A d \in Calls : call[d].pc = "transfer" => call[d].target \in Ids
  BY DEF TypeInv, OwnerBelongs, Fits, TransferSteps
<1>6. Choice(owner[Founder])'
  BY <1>4, <1>5 DEF OwnerKept, Choice
<1>7. (\A d \in Calls : ~Transferring(d))' => Owners' = {owner[Founder]}'
  BY <1>2, <1>3 DEF OwnerKept
<1>8. ASSUME NEW d \in Calls
      PROVE  (/\ call[d].pc = "update" => call[d].target # owner[Founder]
              /\ call[d].pc = "transfer" => Choice(call[d].target) /\ call[d].target # owner[Founder]
              /\ Transferring(d) => call[d].target = owner[Founder] /\ call[d].owner # owner[Founder]
              /\ call[d].pc = "promote" => Owners = {call[d].owner}
              /\ call[d].pc = "demote" => Owners = {call[d].owner, owner[Founder]})'
  <2>1. CASE d = c
    <3>1. call'[c].pc = "transfer" => Choice(call[c].target)'
      BY <1>4 DEF Choice
    <3> QED
      BY <2>1, <3>1 DEF Transferring
  <2>2. CASE d # c
    <3>1. call'[d].pc = "transfer" => Choice(call[d].target)'
      BY <1>1, <1>4, <1>5, <2>2 DEF OwnerKept, Choice
    <3> QED
      BY <1>1, <1>2, <1>3, <2>2, <3>1 DEF OwnerKept
  <2> QED
    BY <2>1, <2>2
<1> QED
  BY <1>6, <1>7, <1>8 DEF OwnerKept

\* An acceptance or an update, with no transfer under way.
LEMMA OwnerStaysAlone ==
    ASSUME TypeInv, OwnerKept, NEW c \in Calls, Spares(c), call[c].pc # "done",
           \A d \in Calls : call[d].pc \notin TransferSteps, call'[c].pc \notin TransferSteps,
           owner'[Founder] = owner[Founder], call'[c].pc # "update",
           \A m \in Ids : member'[m].role = "owner" => member'[m] = member[m],
           member'[owner[Founder]] = member[owner[Founder]]
    PROVE  OwnerKept'
<1>1. \A d \in Calls \ {c} : call'[d] = call[d]
  BY DEF Spares
<1>2. \A d \in Calls : call'[d].pc \notin TransferSteps
  BY <1>1
<1>3. Owners = {owner[Founder]} /\ owner[Founder] \in Ids
  BY DEF OwnerKept, Transferring, TransferSteps, TypeInv, OwnerBelongs
<1>4. Owners' = {owner[Founder]}
  BY <1>3 DEF Owners, OfWorkspace
<1>5. Choice(owner[Founder])'
  BY <1>1 DEF OwnerKept, Choice, OfWorkspace, Active
<1> QED
  BY <1>1, <1>2, <1>4, <1>5 DEF OwnerKept, Transferring, TransferSteps

LEMMA OwnerBegins ==
    ASSUME TypeInv, ClashesNoted', OwnerKept, "ownership" \notin clashes',
           NEW c \in Calls, Beginning(c)
    PROVE  OwnerKept'
<1>1. PICK k \in Requests : Begun(c, k)
  BY BeginningReads
<1>2. call'[c] = k /\ call[c].pc = "new" /\ Spares(c) /\ TypeInv'
      /\ \A d \in Calls \ {c} : call'[d] = call[d]
  BY <1>1, BeginningType DEF Begun, TypeInv, Begins
<1>3. member' = member /\ owner' = owner
  BY <1>1 DEF Begun, Touches
<1>4. k.pc = "transfer" => k.target \in Ids /\ k.target # owner[Founder] /\ Choice(k.target)
  <2> SUFFICES ASSUME k.pc = "transfer", k.target \in Calls PROVE call[k.target].pc = "done"
    BY <1>1 DEF Begun, First, Choice
  <2> DEFINE t == k.target
  <2>1. call[t].op = "accept"
    BY <1>1, MembersBelong DEF Begun, First, Belongs, Ids
  <2>2. t # c /\ call[t].pc # "new"
    BY <1>2, <2>1, WorkspaceConstants DEF WorkspaceConstants, TypeInv, Fits, AllOperations
  <2>3. Running(c)' /\ call'[c].op = "transfer" /\ call'[t] = call[t]
    BY <1>1, <1>2, <2>2 DEF Running, Begun, First
  <2>4. ~Running(t)'
    <3>1. Running(t)' => Clash(call'[c].op, call'[t].op) \subseteq clashes'
      BY <2>2, <2>3 DEF ClashesNoted, Clash
    <3>2. "ownership" \in Clash("transfer", "accept")
      BY ClashesAre
    <3> QED
      BY <2>1, <2>3, <3>1, <3>2
  <2> QED
    BY <2>2, <2>3, <2>4 DEF Running
<1> QED
  BY <1>1, <1>2, <1>3, <1>4, OwnerStays DEF Begun, First, Transferring


\* A request that goes on gets to no update and no transfer it has not read.
LEMMA GoingOnPlaces ==
    ASSUME TypeInv, NEW c \in Calls, GoingOn(c)
    PROVE  /\ call'[c].pc \notin {"update", "transfer"}
           /\ call'[c].pc = "promote" => TransferClaim(c)
           /\ call'[c].pc = "demote" => TransferPromote(c)
           /\ call'[c].pc = "mint" => FALSE
<1>1. Running(c) /\ call[c] \in Requests /\ Fits(c)
  BY GoingOnType DEF TypeInv
<1>2. CASE AcceptIdentify(c) \/ AcceptRelook(c) \/ AcceptCreate(c)
  <2>1. \/ \E x \in Ids : call' = [call EXCEPT ![c].pc = "join", ![c].who = x]
        \/ \E p \in {"create", "relook", "done"} : Goto(c, p)
    BY <1>2 DEF AcceptIdentify, AcceptRelook, AcceptCreate, Holders, Finish, Ids
  <2>2. CASE \E x \in Ids : call' = [call EXCEPT ![c].pc = "join", ![c].who = x]
    BY <1>1, <2>2 DEF TypeInv, Requests
  <2>3. CASE \E p \in {"create", "relook", "done"} : Goto(c, p)
    BY <1>1, <2>3, GotoPlace DEF Steps
  <2> QED
    BY <2>1, <2>2, <2>3
<1>3. CASE UpdateWrite(c)
  <2>1. CASE Finish(c)
    BY <1>1, <2>1, GotoPlace DEF Steps, Finish
  <2>2. CASE \E x : call' = [call EXCEPT ![c].pc = "signout", ![c].who = x]
    BY <1>1, <2>2 DEF TypeInv, Requests
  <2> QED
    BY <1>3, <2>1, <2>2 DEF UpdateWrite
<1>4. CASE TransferDemote(c)
  BY <1>1, <1>4 DEF TransferDemote, TypeInv, Requests
<1>5. CASE \/ TransferPromote(c) \/ TransferClaim(c) \/ SignOut(c) \/ Mint(c) \/ Crash(c)
           \/ RegisterSeed(c) \/ RegisterTenant(c) \/ InviteInsert(c)
  <2>1. PICK p \in {"demote", "promote", "done", "account"} :
          /\ Goto(c, p) /\ (p = "promote" => TransferClaim(c)) /\ (p = "demote" => TransferPromote(c))
    BY <1>5 DEF TransferPromote, TransferClaim, SignOut, Mint, Crash, Finish, RegisterSeed,
           RegisterTenant, InviteInsert
  <2> QED
    BY <1>1, <2>1, GotoPlace DEF Steps
<1>6. CASE \/ AcceptJoin(c) \/ AcceptConsume(c) \/ RegisterAccount(c) \/ RegisterOwner(c) \/ RegisterOwn(c)
  <2>1. \/ \E p \in {"consume", "done", "owner", "own", "seed"} : Goto(c, p)
        \/ \E u \in Undos : GiveUp(c, u)
    BY <1>6 DEF AcceptJoin, AcceptConsume, RegisterAccount, RegisterOwner, RegisterOwn, Finish,
           CreatedIdentity, Undos
  <2>2. CASE \E p \in {"consume", "done", "owner", "own", "seed"} : Goto(c, p)
    BY <1>1, <2>2, GotoPlace DEF Steps
  <2>3. CASE \E u \in Undos : GiveUp(c, u)
    BY <1>1, <2>3, GiveUpPlace
  <2> QED
    BY <2>1, <2>2, <2>3
<1>7. CASE Undo(c)
  BY <1>1, <1>7 DEF Undo, GiveUp, TypeInv, Requests
<1> QED
  BY <1>2, <1>3, <1>4, <1>5, <1>6, <1>7 DEF GoingOn

\* Steps that are about other workspaces, or no membership.
LEMMA OwnerSpared ==
    ASSUME TypeInv, OwnerKept, NEW c \in Calls, GoingOn(c), call[c].op \notin {"accept", "update", "transfer"}
    PROVE  OwnerKept'
<1>1. /\ call[c] \in Requests /\ Fits(c) /\ OwnRows(c) /\ Spares(c) /\ Running(c) /\ Goes(c)
      /\ Fits(c)' /\ OwnRows(c)'
  BY GoingOnType DEF TypeInv
<1>2. ~Transferring(c) /\ ~Transferring(c)' /\ call'[c].pc \notin {"update", "transfer"}
  BY <1>1 DEF Goes, Running, Transferring, Fits, TransferSteps
<1>3. owner'[Founder] = owner[Founder]
  <2>1. Founder # c /\ Founder \in Ids
    BY WorkspaceConstants DEF WorkspaceConstants, Ids
  <2>2. ~TransferClaim(c)
    BY <1>1 DEF TransferClaim, At, Fits, TransferSteps
  <2> QED
    BY <2>1, <2>2 DEF GoingOn, Crash, rows, InviteInsert, AcceptIdentify, AcceptCreate,
         AcceptRelook, AcceptJoin, AcceptConsume, Undo, RegisterTenant, RegisterAccount, RegisterOwner,
         RegisterOwn, RegisterSeed, UpdateWrite, SignOut, TransferPromote, TransferDemote, Mint,
         TypeInv, TypeOK
<1>4. \A m \in Ids \ {c} : member'[m] = member[m]
  <2>1. ~UpdateWrite(c) /\ ~TransferPromote(c) /\ ~TransferDemote(c)
    BY <1>1 DEF UpdateWrite, TransferPromote, TransferDemote, At, Fits, TransferSteps
  <2> QED
    BY <2>1 DEF GoingOn, Crash, rows, InviteInsert, AcceptIdentify, AcceptCreate,
         AcceptRelook, AcceptJoin, AcceptConsume, Undo, RegisterTenant, RegisterAccount, RegisterOwner,
         RegisterOwn, RegisterSeed, SignOut, TransferClaim, Mint, TypeInv, TypeOK
<1>5. ~OfWorkspace(c) /\ ~OfWorkspace(c)'
  BY <1>1, WorkspaceConstants
     DEF WorkspaceConstants, OwnRows, OfWorkspace, NoMember, Goes, Running, Ids
<1> QED
  BY <1>1, <1>2, <1>3, <1>4, <1>5, OwnerStays DEF Running

\* With an acceptance or an update under way, no transfer is.
LEMMA NoTransfer ==
    ASSUME TypeInv, ClashesNoted, "ownership" \notin clashes,
           NEW c \in Calls, Running(c), call[c].op \in {"accept", "update"}
    PROVE  \A d \in Calls : call[d].pc \notin TransferSteps
<1> SUFFICES ASSUME NEW d \in Calls, call[d].pc \in TransferSteps PROVE FALSE
  OBVIOUS
<1>1. call[d].op = "transfer" /\ Running(d)
  BY DEF TypeInv, Fits, TransferSteps, Running
<1> QED
  BY <1>1, TransferAlone

LEMMA OwnerAccepts ==
    ASSUME TypeInv, ClashesNoted, OwnerKept, "ownership" \notin clashes,
           NEW c \in Calls, GoingOn(c), call[c].op = "accept"
    PROVE  OwnerKept'
<1>1. /\ call[c] \in Requests /\ Fits(c) /\ OwnRows(c) /\ Spares(c) /\ Running(c) /\ Goes(c)
      /\ c \in Ids /\ DataOK
  BY GoingOnType DEF TypeInv, TypeOK, DataOK, Ids
<1>2. \A d \in Calls : call[d].pc \notin TransferSteps
  BY <1>1, NoTransfer
<1>3. owner[Founder] # c /\ Owners = {owner[Founder]} /\ owner[Founder] \in Ids
  BY <1>1, <1>2 DEF OwnerKept, Choice, Running, Transferring, TransferSteps, TypeInv, OwnerBelongs
<1>4. call'[c].pc \notin TransferSteps /\ call'[c].pc # "update"
  BY <1>1, <1>2, GoingOnPlaces DEF TransferSteps, TransferClaim, TransferPromote, At
<1>5. ~UpdateWrite(c) /\ ~TransferPromote(c) /\ ~TransferDemote(c) /\ ~TransferClaim(c) /\ ~RegisterOwner(c)
  BY <1>1 DEF UpdateWrite, TransferPromote, TransferDemote, TransferClaim, RegisterOwner, At, Fits,
         TransferSteps, RegisterSteps
<1>6. owner'[Founder] = owner[Founder]
  <2>1. Founder # c /\ Founder \in Ids
    BY WorkspaceConstants DEF WorkspaceConstants, Ids
  <2> QED
    BY <1>5, <2>1 DEF GoingOn, Crash, rows, InviteInsert, AcceptIdentify, AcceptCreate,
         AcceptRelook, AcceptJoin, AcceptConsume, Undo, RegisterTenant, RegisterAccount,
         RegisterOwn, RegisterSeed, SignOut, Mint, TypeInv, TypeOK
<1>7. /\ \A m \in Ids \ {c} : member'[m] = member[m]
      /\ member'[c] = member[c] \/ member'[c] = NoMember \/ member'[c].role = invite[call[c].inv].role
  <2>1. CASE AcceptJoin(c) \/ Undo(c)
    BY <1>1, <2>1 DEF AcceptJoin, Undo, DataOK
  <2>2. CASE ~(AcceptJoin(c) \/ Undo(c))
    <3>1. UNCHANGED member
      BY <1>5, <2>2 DEF GoingOn, Crash, rows, InviteInsert, AcceptIdentify, AcceptCreate, AcceptRelook,
         AcceptConsume, RegisterTenant, RegisterAccount, RegisterOwn, RegisterSeed, SignOut, Mint
    <3> QED
      BY <3>1
  <2> QED
    BY <2>1, <2>2
<1>8. invite[call[c].inv].role # "owner" /\ NoMember.role # "owner"
  <2>1. invite[call[c].inv].role \in DelegatedRoles
    BY <1>1 DEF Fits, DataOK
  <2> QED
    BY <2>1, WorkspaceConstants DEF WorkspaceConstants, NoMember, DelegatedRoles, Roles
<1>9. \A m \in Ids : member'[m].role = "owner" => member'[m] = member[m]
  BY <1>7, <1>8
<1> QED
  BY <1>1, <1>2, <1>3, <1>4, <1>6, <1>7, <1>9, OwnerStaysAlone DEF Running

LEMMA OwnerUpdates ==
    ASSUME TypeInv, ClashesNoted, OwnerKept, "ownership" \notin clashes,
           NEW c \in Calls, GoingOn(c), call[c].op = "update"
    PROVE  OwnerKept'
<1>1. /\ call[c] \in Requests /\ Fits(c) /\ Spares(c) /\ Running(c) /\ DataOK
  BY GoingOnType DEF TypeInv, TypeOK, DataOK
<1>2. \A d \in Calls : call[d].pc \notin TransferSteps
  BY <1>1, NoTransfer
<1>3. call[c].pc \in {"update", "signout"}
  BY <1>1 DEF Fits, Requests, Steps, AcceptSteps, RegisterSteps, TransferSteps, Running
<1>4. call'[c].pc \notin TransferSteps /\ call'[c].pc # "update"
  BY <1>1, <1>2, GoingOnPlaces DEF TransferSteps, TransferClaim, TransferPromote, At
<1>5. UpdateWrite(c) \/ SignOut(c) \/ Crash(c)
  BY <1>3 DEF GoingOn, At, InviteInsert, AcceptIdentify, AcceptCreate,
         AcceptRelook, AcceptJoin, AcceptConsume, Undo, RegisterTenant, RegisterAccount, RegisterOwner,
         RegisterOwn, RegisterSeed, TransferClaim, TransferPromote, TransferDemote, Mint
<1>6. owner' = owner
  BY <1>5 DEF UpdateWrite, SignOut, Crash, rows
<1>7. CASE member' = member
  BY <1>1, <1>2, <1>4, <1>6, <1>7, OwnerStaysAlone DEF Running
<1>8. CASE /\ call[c].pc = "update"
           /\ member' = [member EXCEPT
                 ![call[c].target].role = IF call[c].role = None THEN @ ELSE call[c].role,
                 ![call[c].target].status = IF call[c].status = None THEN @ ELSE call[c].status]
  <2> DEFINE m == call[c].target
  <2>1. m \in Ids /\ m # owner[Founder] /\ Owners = {owner[Founder]} /\ owner[Founder] \in Ids
    BY <1>1, <1>2, <1>8 DEF Fits, OwnerKept, Transferring, TransferSteps, TypeInv, OwnerBelongs
  <2>2. \A i \in Ids \ {m} : member'[i] = member[i]
    BY <1>1, <1>8, <2>1 DEF DataOK
  <2>3. member'[m].role = "owner" => member'[m].ws # Founder
    <3>1. member[m].role = "owner" => member[m].ws # Founder
      BY <2>1 DEF Owners, OfWorkspace
    <3>2. member[m] \in Memberships \cup {NoMember} /\ call[c].role \in DelegatedRoles \cup {None}
      BY <1>1, <2>1 DEF DataOK, Requests
    <3>3. /\ member'[m].ws = member[m].ws
          /\ member'[m].role = IF call[c].role = None THEN member[m].role ELSE call[c].role
      BY <1>1, <1>8, <2>1, <3>2 DEF DataOK, Memberships, NoMember
    <3> QED
      BY <3>1, <3>2, <3>3 DEF DelegatedRoles
  <2> HIDE DEF m
  <2>4. Owners' = {owner[Founder]}
    BY <2>1, <2>2, <2>3 DEF Owners, OfWorkspace
  <2>5. \A d \in Calls \ {c} : call'[d] = call[d]
    BY <1>1 DEF Spares
  <2>6. Choice(owner[Founder])'
    BY <1>1, <1>6, <2>1, <2>2, <2>5 DEF OwnerKept, Choice, OfWorkspace, Active, Running
  <2> QED
    BY <1>2, <1>4, <1>6, <2>4, <2>5, <2>6 DEF OwnerKept, Transferring, TransferSteps
<1> QED
  BY <1>5, <1>7, <1>8 DEF UpdateWrite, SignOut, Crash, rows, At

LEMMA OwnerTransfers ==
    ASSUME TypeInv, ClashesNoted, OwnerKept, "ownership" \notin clashes,
           NEW c \in Calls, GoingOn(c), call[c].op = "transfer", \A kind \in Faults : ~Fault(kind)
    PROVE  OwnerKept'
<1>1. /\ call[c] \in Requests /\ Fits(c) /\ Spares(c) /\ Running(c) /\ DataOK /\ TypeInv'
      /\ Founder \in Ids /\ call[c].pc # "done"
  BY GoingOnType DEF TypeInv, TypeOK, DataOK, Ids, Running
<1>2. /\ \A d \in Calls \ {c} : /\ call'[d] = call[d]
                                /\ call[d].pc # "update" /\ call[d].pc \notin TransferSteps
  <2> SUFFICES ASSUME NEW d \in Calls \ {c}
               PROVE  call'[d] = call[d] /\ call[d].pc # "update" /\ call[d].pc \notin TransferSteps
    OBVIOUS
  <2>1. Running(d) => call[d].op \notin {"accept", "update", "transfer"}
    BY <1>1, TransferAlone
  <2> QED
    BY <1>1, <2>1 DEF Spares, TypeInv, Fits, Running, TransferSteps
<1>3. \A m \in Ids : Choice(m) => m # c
  BY <1>1 DEF Choice
<1>4. owner[Founder] \in Ids
  BY DEF TypeInv, OwnerBelongs
<1>5. ~Fails
  BY DEF Fails, Fault
<1>6. CASE TransferClaim(c) /\ owner[Founder] = call[c].owner
  <2> DEFINE t == call[c].target
  <2>1. /\ call[c].pc = "transfer" /\ Goto(c, "promote") /\ member' = member
        /\ owner' = [owner EXCEPT ![Founder] = t]
    BY <1>5, <1>6 DEF TransferClaim, At
  <2>2. call'[c].pc = "promote" /\ call'[c].target = t /\ call'[c].owner = owner[Founder]
    BY <1>1, <1>6, <2>1, GotoPlace DEF Steps
  <2>3. t \in Ids /\ Choice(t) /\ t # owner[Founder]
    BY <1>1, <2>1 DEF OwnerKept, Fits, TransferSteps
  <2>4. owner'[Founder] = t
    BY <1>1, <2>1 DEF DataOK
  <2>5. Owners = {owner[Founder]}
    <3>1. \A d \in Calls : ~Transferring(d)
      BY <1>2, <2>1 DEF Transferring, TransferSteps
    <3> QED
      BY <3>1 DEF OwnerKept
  <2> HIDE DEF t
  <2>6. Owners' = {owner[Founder]}
    BY <2>1, <2>5 DEF OfWorkspace, Owners
  <2>7. Choice(owner[Founder])'
    BY <1>2, <1>3, <2>1, <2>3, <2>4 DEF Choice, OfWorkspace, Active
  <2> QED
    BY <1>2, <2>2, <2>3, <2>4, <2>6, <2>7 DEF OwnerKept, Transferring, TransferSteps
<1>7. CASE TransferPromote(c)
  <2> DEFINE o == owner[Founder]
  <2>1. /\ call[c].pc = "promote" /\ call[c].target = o /\ call[c].owner # o /\ Owners = {call[c].owner}
        /\ OfWorkspace(o) /\ Active(o)
    BY <1>7 DEF TransferPromote, At, OwnerKept, Transferring, Choice
  <2>2. call'[c].pc = "demote" /\ call'[c].target = o /\ call'[c].owner = call[c].owner
    BY <1>1, <1>7, <2>1, GotoPlace DEF Steps, TransferPromote
  <2>3. HasMember(o) /\ member[o] \in Memberships
    BY <1>1, <1>4, <2>1, WorkspaceConstants DEF WorkspaceConstants, OfWorkspace, NoMember, HasMember, DataOK
  <2>4. member' = [member EXCEPT ![o].role = "owner"] /\ owner' = owner
    BY <1>5, <1>7, <2>1, <2>3 DEF TransferPromote, SetRole, HasMember
  <2>5. /\ \A i \in Ids \ {o} : member'[i] = member[i]
        /\ member'[o].role = "owner" /\ member'[o].ws = Founder /\ member'[o].status = "active"
    BY <1>1, <1>4, <2>1, <2>3, <2>4 DEF DataOK, Memberships, OfWorkspace, Active
  <2> HIDE DEF o
  <2>6. Owners' = {call[c].owner, o}
    <3>1. \A i \in Ids \ {o} : (OfWorkspace(i) /\ member[i].role = "owner")' <=> i = call[c].owner
      BY <2>1, <2>5 DEF Owners, OfWorkspace
    <3>2. (OfWorkspace(o) /\ member[o].role = "owner")'
      BY <2>4, <2>5 DEF OfWorkspace, o
    <3>3. call[c].owner \in Ids /\ o \in Ids
      BY <1>1, <1>4, <2>1 DEF Fits, TransferSteps, o
    <3> QED
      BY <2>4, <3>1, <3>2, <3>3 DEF Owners, o
  <2>7. Choice(owner[Founder])'
    BY <1>2, <1>3, <1>4, <2>4, <2>5 DEF OwnerKept, Choice, OfWorkspace, Active, o
  <2> QED
    BY <1>2, <2>1, <2>2, <2>4, <2>6, <2>7 DEF OwnerKept, Transferring, TransferSteps, o
<1>8. CASE TransferDemote(c)
  <2> DEFINE o == owner[Founder] was == call[c].owner
  <2>1. /\ call[c].pc = "demote" /\ was # o /\ Owners = {was, o} /\ was \in Ids
    BY <1>1, <1>8 DEF TransferDemote, At, OwnerKept, Transferring, Fits, TransferSteps
  <2>2. call'[c].pc = "signout" /\ owner' = owner
    BY <1>1, <1>8 DEF TransferDemote, TypeInv, Requests
  <2>3. member[was] \in Memberships
    <3>1. member[was].ws = Founder
      BY <2>1 DEF Owners, OfWorkspace
    <3> QED
      BY <1>1, <2>1, <3>1, WorkspaceConstants DEF WorkspaceConstants, NoMember, DataOK
  <2>4. member' = [member EXCEPT ![was].role = "admin"]
    <3>1. member[was] # NoMember
      BY <2>3, WorkspaceConstants DEF WorkspaceConstants, NoMember, Memberships
    <3> QED
      BY <1>5, <1>8, <3>1 DEF TransferDemote, SetRole
  <2>5. /\ \A i \in Ids \ {was} : member'[i] = member[i]
        /\ member'[was].role = "admin"
    BY <1>1, <2>1, <2>3, <2>4 DEF DataOK, Memberships
  <2> HIDE DEF o, was
  <2>6. Owners' = {o}
    <3>1. \A i \in Ids : OfWorkspace(i) /\ member[i].role = "owner" <=> i = was \/ i = o
      BY <1>4, <2>1 DEF Owners, o
    <3>2. \A i \in Ids \ {was} : member'[i].ws = Founder /\ member'[i].role = "owner" <=> i = o
      BY <2>5, <3>1 DEF OfWorkspace
    <3>3. member'[was].role # "owner"
      BY <2>5
    <3>4. \A i \in Ids : member'[i].ws = Founder /\ member'[i].role = "owner" <=> i = o
      BY <2>1, <3>2, <3>3
    <3> QED
      BY <1>4, <3>4 DEF Owners, OfWorkspace, o
  <2>7. Choice(owner[Founder])'
    BY <1>2, <1>3, <1>4, <2>1, <2>2, <2>5 DEF OwnerKept, Choice, OfWorkspace, Active, o
  <2> QED
    BY <1>2, <2>2, <2>6, <2>7 DEF OwnerKept, Transferring, TransferSteps, o
<1>9. CASE SignOut(c) \/ (TransferClaim(c) /\ owner[Founder] # call[c].owner)
  <2>1. UNCHANGED <<member, owner>> /\ Goto(c, "done") /\ call[c].pc \in {"signout", "transfer"}
    BY <1>5, <1>9 DEF SignOut, TransferClaim, Finish, At
  <2>2. call'[c].pc = "done"
    BY <1>1, <2>1, GotoPlace DEF Steps
  <2> QED
    BY <1>1, <2>1, <2>2, OwnerStays DEF Transferring
<1>10. ~Crash(c)
  BY DEF Crash, Fault
<1>11. call[c].pc \in TransferSteps \cup {"signout"}
  BY <1>1 DEF Fits, Requests, Steps, AcceptSteps, RegisterSteps, TransferSteps, Running
<1> QED
  BY <1>6, <1>7, <1>8, <1>9, <1>10, <1>11
     DEF GoingOn, At, TransferSteps, InviteInsert, AcceptIdentify, AcceptCreate,
         AcceptRelook, AcceptJoin, AcceptConsume, Undo, RegisterTenant, RegisterAccount, RegisterOwner,
         RegisterOwn, RegisterSeed, UpdateWrite, Mint

LEMMA OwnerStep == TypeInv /\ ClashesNoted /\ OwnerInv /\ [Next]_vars => OwnerInv'
<1> SUFFICES ASSUME TypeInv, ClashesNoted, OwnerInv, [Next]_vars,
                    faults' = <<>>, "ownership" \notin clashes'
             PROVE  OwnerKept'
  BY DEF OwnerInv
<1>1. OwnerKept /\ "ownership" \notin clashes /\ \A kind \in Faults : ~Fault(kind)
  BY FaultlessBefore, ClashesGrow DEF OwnerInv
<1>2. ClashesNoted'
  BY ClashesStep
<1>3. CASE UNCHANGED vars \/ \E i \in Ids : Expire(i)
  <2>1. UNCHANGED <<call, member, owner>>
    BY <1>3 DEF vars, Expire
  <2> QED
    BY <1>1, <2>1 DEF OwnerKept, Choice, OfWorkspace, Active, Owners, Transferring
<1> QED
  BY <1>1, <1>2, <1>3, NextSteps, OwnerBegins, OwnerSpared, OwnerAccepts, OwnerUpdates, OwnerTransfers

\* The owner recorded for the workspace is an active member and the only one
\* with an owner's role, unless a transfer overlaps what it may not
\* (HandleTransferWorkspaceOwnership: claim, promote, demote).
THEOREM OwnersStand == Spec => []OwnerStands
<1>1. Init => OwnerInv
  <2> SUFFICES ASSUME Init PROVE OwnerKept
    BY DEF OwnerInv
  <2>1. Founder \in Ids /\ Founder \notin Calls /\ Partner \notin Calls /\ Founder # Partner
    BY WorkspaceConstants DEF WorkspaceConstants, Ids
  <2>2. owner[Founder] = Founder /\ \A c \in Calls : call[c].pc = "new"
    BY <2>1 DEF Init, Idle
  <2>3. /\ member[Founder] = [ws |-> Founder, who |-> Founder, status |-> "active", role |-> "owner"]
        /\ \A i \in Ids \ {Founder} : member[i].role # "owner"
    BY <2>1, WorkspaceConstants DEF WorkspaceConstants, Init, NoMember, Roles
  <2>4. Owners = {Founder} /\ Choice(Founder)
    BY <2>1, <2>3 DEF Owners, Choice, OfWorkspace, Active
  <2> QED
    BY <2>2, <2>4 DEF OwnerKept, Transferring
<1>2. TypeInv /\ OwnerInv => OwnerStands
  <2> SUFFICES ASSUME OwnerInv, Undisturbed, "ownership" \notin clashes
               PROVE  /\ OfWorkspace(owner[Founder]) /\ Active(owner[Founder])
                      /\ Owners = {owner[Founder]}
    BY DEF OwnerStands, OfWorkspace, Owners
  <2>1. \A c \in Calls : ~Transferring(c)
    BY DEF Undisturbed, Quiet, Running, Transferring
  <2> QED
    BY <2>1 DEF OwnerInv, OwnerKept, Choice, Undisturbed
<1> QED
  BY <1>1, <1>2, OwnerStep, TypeInvariant, ClashesInvariant, PTL DEF Spec

--------------------------------------------------------------------------------
(* Sessions *)

\* Who is vouched for stays so when the memberships that are sure and active do.
LEMMA VouchedStays ==
    ASSUME \A m \in Ids : Sure(m) /\ Active(m) =>
             /\ Sure(m)' /\ Active(m)'
             /\ member'[m].who = member[m].who /\ member'[m].ws = member[m].ws
    PROVE  \A who, ws \in Ids : Vouched(who, ws) => Vouched(who, ws)'
  BY DEF Vouched, MembershipsOf

\* A membership another request has written stays sure.
LEMMA SureStays ==
    ASSUME TypeInv, NEW c \in Calls, Spares(c), Goes(c), NEW m \in Ids, Sure(m), m # c
    PROVE  Sure(m)' /\ member'[m].who = member[m].who /\ member'[m].ws = member[m].ws
<1>1. HasMember(m)' /\ member'[m].who = member[m].who /\ member'[m].ws = member[m].ws
  BY DEF Spares, Sure, HasMember
<1>2. m \in Calls => call'[m] = call[m]
  BY DEF Spares
<1> QED
  BY <1>1, <1>2 DEF Sure

\* A step that adds no session and nobody who is about to get one.
LEMMA SessionsStay ==
    ASSUME TypeInv, SessionsVouched, NEW c \in Calls, Spares(c), session' \subseteq session,
           \A who, ws \in Ids : Vouched(who, ws) => Vouched(who, ws)',
           call[c].pc # "signout",
           call'[c].pc = "mint" => /\ call'[c].who \in Ids /\ call'[c].ws \in Ids
                                   /\ Vouched(call'[c].who, call'[c].ws),
           call'[c].pc = "undo" /\ call'[c].op = "register" => call'[c].undo = <<"tenant">>
    PROVE  SessionsVouched'
<1>1. \A d \in Calls \ {c} : call'[d] = call[d]
  BY DEF Spares
<1>2. session \subseteq Ids \X Ids
  BY DEF TypeInv, TypeOK
<1>3. \A who \in Ids : Leaving(who) => Leaving(who)'
  BY <1>1 DEF Leaving
<1>4. (\A s \in session : Vouched(s[1], s[2]) \/ Leaving(s[1]))'
  <2> SUFFICES ASSUME NEW s \in session' PROVE (Vouched(s[1], s[2]) \/ Leaving(s[1]))'
    OBVIOUS
  <2>1. s \in session /\ s[1] \in Ids /\ s[2] \in Ids
    BY <1>2
  <2> QED
    BY <1>3, <2>1 DEF SessionsVouched
<1>5. \A d \in Calls : call[d].pc = "mint" => call[d].who \in Ids /\ call[d].ws \in Ids
  BY DEF TypeInv, Fits
<1>6. ASSUME NEW d \in Calls, call'[d].pc = "mint" PROVE Vouched(call[d].who, call[d].ws)'
  <2>1. CASE d = c
    <3>1. \A who, ws \in Ids : who = call'[c].who /\ ws = call'[c].ws => Vouched(who, ws)'
      BY <1>6, <2>1
    <3> QED
      BY <1>6, <2>1, <3>1 DEF Vouched
  <2>2. CASE d # c
    <3>1. Vouched(call[d].who, call[d].ws) /\ call[d].who \in Ids /\ call[d].ws \in Ids /\ call'[d] = call[d]
      BY <1>1, <1>5, <1>6, <2>2 DEF SessionsVouched
    <3>2. \A who, ws \in Ids : who = call'[d].who /\ ws = call'[d].ws => Vouched(who, ws)'
      BY <3>1
    <3> QED
      BY <3>1, <3>2 DEF Vouched
  <2> QED
    BY <2>1, <2>2
<1>7. (\A d \in Calls : call[d].pc = "undo" /\ call[d].op = "register" => call[d].undo = <<"tenant">>)'
  BY <1>1 DEF SessionsVouched
<1> QED
  BY <1>4, <1>6, <1>7 DEF SessionsVouched

LEMMA SessionsBegin ==
    ASSUME TypeInv, ClashesNoted', SessionsVouched, "session" \notin clashes',
           NEW c \in Calls, Beginning(c)
    PROVE  SessionsVouched'
<1>1. PICK k \in Requests : Begun(c, k)
  BY BeginningReads
<1>2. /\ call'[c] = k /\ call[c].pc = "new" /\ Spares(c) /\ Goes(c)
      /\ \A d \in Calls \ {c} : call'[d] = call[d]
  BY <1>1, BeginningType DEF Begun, TypeInv, Begins
<1>3. member' = member /\ session' \subseteq session
  BY <1>1 DEF Begun, Touches
<1>4. member[c] = NoMember
  BY ZenonT(60), <1>2, WorkspaceConstants DEF WorkspaceConstants, TypeInv, Fits, OwnRows, AllOperations
<1>5. \A who, ws \in Ids : Vouched(who, ws) => Vouched(who, ws)'
  <2>1. \A m \in Ids : Sure(m) => m # c
    BY <1>4 DEF Sure, HasMember
  <2>2. \A m \in Ids : Sure(m) => Sure(m)'
    BY <1>2, <2>1, SureStays
  <2> QED
    BY <1>3, <2>2, VouchedStays DEF Active
<1>6. k.pc = "mint" => k.who \in Ids /\ k.ws \in Ids /\ Vouched(k.who, k.ws)
  <2> SUFFICES ASSUME k.pc = "mint" PROVE k.who \in Ids /\ k.ws \in Ids /\ Vouched(k.who, k.ws)
    OBVIOUS
  <2>1. PICK m \in Ids : HasMember(m) /\ Active(m) /\ k.who = member[m].who /\ k.ws = member[m].ws
    BY <1>1 DEF Begun, First
  <2>2. k.who \in Ids /\ k.ws \in Ids
    BY <2>1 DEF TypeInv, TypeOK, Memberships, HasMember
  <2>3. ASSUME m \in Calls, call[m].op = "accept" PROVE call[m].pc = "done"
    <3>1. m # c /\ call[m].pc # "new"
      BY <1>4, <2>1, <2>3, WorkspaceConstants
         DEF WorkspaceConstants, HasMember, TypeInv, Fits, AllOperations
    <3>2. Running(c)' /\ call'[c].op \in {"login", "select"} /\ call'[m] = call[m]
      BY <1>1, <1>2, <2>3, <3>1 DEF Begun, First, Running
    <3>3. Running(m)' => Clash(call'[c].op, call'[m].op) \subseteq clashes'
      BY <2>3, <3>1, <3>2 DEF ClashesNoted, Clash
    <3>4. ~Running(m)'
      BY <2>3, <3>2, <3>3, ClashesAre
    <3> QED
      BY <3>1, <3>2, <3>4 DEF Running
  <2> QED
    BY <2>1, <2>2, <2>3 DEF Vouched, MembershipsOf, Sure
<1>7. k.pc # "undo"
  BY <1>1 DEF Begun, First
<1> QED
  BY <1>2, <1>3, <1>5, <1>6, <1>7, SessionsStay

\* A membership that is sure, and one the request itself writes.
LEMMA OwnMembership ==
    ASSUME TypeInv, NEW c \in Calls, GoingOn(c), Sure(c)
    PROVE  call[c].op = "register" /\ member[c] = [ws |-> c, who |-> c, role |-> "owner", status |-> "active"]
<1>1. HasMember(c) /\ (call[c].op = "accept" => call[c].pc = "done") /\ Running(c) /\ OwnRows(c)
  BY GoingOnType DEF Sure, TypeInv
<1> QED
  BY <1>1 DEF OwnRows, HasMember, Running

\* Whether or not a registration has its membership by now, it keeps it.
LEMMA SessionsGoOn ==
    ASSUME TypeInv, ClashesNoted, SessionsVouched, RegistrationInv, faults = <<>>,
           "session" \notin clashes, NEW c \in Calls, GoingOn(c), \A kind \in Faults : ~Fault(kind)
    PROVE  SessionsVouched'
<1>1. /\ call[c] \in Requests /\ Fits(c) /\ OwnRows(c) /\ Spares(c) /\ Goes(c) /\ Running(c)
      /\ DataOK /\ c \in Ids /\ ~Fails /\ ~Crash(c) /\ ~Fault("undo")
  BY GoingOnType DEF TypeInv, TypeOK, DataOK, Ids, Fails, Crash, Fault
<1>2. \A d \in Calls \ {c} : call'[d] = call[d]
  BY <1>1 DEF Spares
<1>3. call'[c].pc # "mint"
  BY GoingOnPlaces
<1>4. call'[c].pc = "undo" /\ call'[c].op = "register" => call'[c].undo = <<"tenant">>
  <2> SUFFICES ASSUME call'[c].pc = "undo", call[c].op = "register" PROVE call'[c].undo = <<"tenant">>
    BY <1>1 DEF Goes, Running
  <2>1. call[c].pc \in RegisterSteps \cup {"undo"}
    BY <1>1 DEF Requests, Steps, Fits, Running, AcceptSteps, TransferSteps, RegisterSteps
  <2>2. \/ RegisterTenant(c) \/ RegisterAccount(c) \/ RegisterOwner(c) \/ RegisterOwn(c)
        \/ RegisterSeed(c) \/ Undo(c)
    BY <1>1, <2>1 DEF GoingOn, At, RegisterSteps, InviteInsert, AcceptIdentify, AcceptCreate,
         AcceptRelook, AcceptJoin, AcceptConsume, UpdateWrite, SignOut, TransferClaim, TransferPromote,
         TransferDemote, Mint
  <2>3. \A p \in {"account", "owner", "own", "seed", "done"} : ~Goto(c, p)
    BY <1>1, GotoPlace DEF Steps
  <2>4. CASE Undo(c)
    <3>1. call[c].undo = <<"tenant">> /\ GiveUp(c, Tail(call[c].undo))
      BY <2>4 DEF Undo, At, SessionsVouched
    <3>2. Tail(<<"tenant">>) = <<>>
      OBVIOUS
    <3>3. call'[c].pc = "done"
      BY <1>1, <3>1, <3>2, GiveUpPlace DEF Undos
    <3> QED
      BY <3>3
  <2>5. CASE RegisterAccount(c)
    <3>1. GiveUp(c, <<"tenant">>)
      BY <2>3, <2>5 DEF RegisterAccount
    <3> QED
      BY <1>1, <3>1, GiveUpPlace DEF Undos
  <2> QED
    BY <1>1, <2>2, <2>3, <2>4, <2>5 DEF RegisterTenant, RegisterOwner, RegisterOwn, RegisterSeed, Finish
<1>5. CASE UpdateWrite(c)
  <2> DEFINE m == call[c].target
  <2>1. call[c].pc = "update" /\ call[c].op = "update" /\ m \in Ids /\ session' = session
    BY <1>1, <1>5 DEF UpdateWrite, At, Fits
  <2>2. \A d \in Calls : call[d].pc # "mint"
    <3> SUFFICES ASSUME NEW d \in Calls, call[d].pc = "mint" PROVE FALSE
      OBVIOUS
    <3>1. call[d].op \in {"login", "select"} /\ Running(d) /\ d # c
      BY <2>1 DEF TypeInv, Fits, Running
    <3> QED
      BY <1>1, <2>1, <3>1, SignInAlone
  <2>3. \A i \in Ids : Sure(i) => i # c
    BY <2>1, OwnMembership
  <2>4. \A i \in Ids : Sure(i) => /\ Sure(i)' /\ member'[i].who = member[i].who
                                  /\ member'[i].ws = member[i].ws
    BY <1>1, <2>3, SureStays
  <2>5. \A i \in Ids : Sure(i) /\ Active(i) /\ ~Active(i)' =>
           i = m /\ call'[c].pc = "signout" /\ call'[c].who = member[i].who
    <3>1. CASE member' = member
      BY <3>1 DEF Active
    <3>2. CASE /\ member' = [member EXCEPT
                    ![m].role = IF call[c].role = None THEN @ ELSE call[c].role,
                    ![m].status = IF call[c].status = None THEN @ ELSE call[c].status]
               /\ call' = [call EXCEPT ![c].pc = "signout", ![c].who = member[m].who]
      <4>1. \A i \in Ids \ {m} : member'[i] = member[i]
        BY <1>1, <2>1, <3>2 DEF DataOK
      <4>2. call'[c].pc = "signout" /\ call'[c].who = member[m].who
        BY <1>1, <3>2 DEF TypeInv, Requests
      <4> QED
        BY <4>1, <4>2 DEF Active
    <3> QED
      BY <1>1, <1>5, <3>1, <3>2 DEF UpdateWrite
  <2>6. call'[c].op = "update"
    BY <1>1, <2>1 DEF Goes
  <2>7. \A who \in Ids : Leaving(who) => Leaving(who)'
    BY <1>2, <2>1 DEF Leaving
  <2>8. \A who, ws \in Ids : Vouched(who, ws) => Vouched(who, ws)' \/ Leaving(who)'
    <3> SUFFICES ASSUME NEW who \in Ids, NEW ws \in Ids, Vouched(who, ws)
                 PROVE  Vouched(who, ws)' \/ Leaving(who)'
      OBVIOUS
    <3>1. PICK i \in Ids : member[i].who = who /\ member[i].ws = ws /\ Active(i) /\ Sure(i)
      BY DEF Vouched, MembershipsOf
    <3>2. CASE Active(i)'
      BY <2>4, <3>1, <3>2 DEF Vouched, MembershipsOf
    <3>3. CASE ~Active(i)'
      BY <2>5, <2>6, <3>1, <3>3 DEF Leaving
    <3> QED
      BY <3>2, <3>3
  <2>9. (\A s \in session : Vouched(s[1], s[2]) \/ Leaving(s[1]))'
    <3> SUFFICES ASSUME NEW s \in session' PROVE (Vouched(s[1], s[2]) \/ Leaving(s[1]))'
      OBVIOUS
    <3>1. s \in session /\ s[1] \in Ids /\ s[2] \in Ids
      BY <1>1, <2>1 DEF DataOK
    <3> QED
      BY <2>7, <2>8, <3>1 DEF SessionsVouched
  <2>10. \A d \in Calls : call'[d].pc # "mint"
    BY <1>2, <1>3, <2>2
  <2>11. (\A d \in Calls : call[d].pc = "undo" /\ call[d].op = "register" => call[d].undo = <<"tenant">>)'
    BY <1>2, <1>4 DEF SessionsVouched
  <2> QED
    BY <2>9, <2>10, <2>11 DEF SessionsVouched
<1>6. ~UpdateWrite(c) => \A who, ws \in Ids : Vouched(who, ws) => Vouched(who, ws)'
  <2> SUFFICES ASSUME ~UpdateWrite(c), NEW m \in Ids, Sure(m), Active(m)
               PROVE  /\ Sure(m)' /\ Active(m)'
                      /\ member'[m].who = member[m].who /\ member'[m].ws = member[m].ws
    BY VouchedStays
  <2>1. CASE m # c
    <3>1. Sure(m)' /\ member'[m].who = member[m].who /\ member'[m].ws = member[m].ws
      BY <1>1, <2>1, SureStays
    <3>2. member'[m].status = member[m].status
      <4>1. CASE TransferPromote(c) \/ TransferDemote(c)
        <5>1. /\ call[c].target \in Ids /\ call[c].owner \in Ids
              /\ \E i \in {call[c].target, call[c].owner}, r \in Roles : SetRole(i, r)
          BY <1>1, <4>1 DEF TransferPromote, TransferDemote, At, Fits, TransferSteps, Roles, DelegatedRoles
        <5>2. PICK i \in Ids, r \in Roles : SetRole(i, r)
          BY <5>1
        <5>3. CASE member' = member
          BY <5>3
        <5>4. CASE member[i] # NoMember /\ member' = [member EXCEPT ![i].role = r]
          BY <1>1, <5>4 DEF DataOK, Memberships
        <5> QED
          BY <5>2, <5>3, <5>4 DEF SetRole
      <4>2. CASE ~TransferPromote(c) /\ ~TransferDemote(c)
        <5>1. member'[m] = member[m]
          BY <1>1, <2>1, <4>2 DEF GoingOn, Crash, rows, InviteInsert, AcceptIdentify, AcceptCreate,
             AcceptRelook, AcceptJoin, AcceptConsume, Undo, RegisterTenant, RegisterAccount, RegisterOwner,
             RegisterOwn, RegisterSeed, SignOut, TransferClaim, Mint, DataOK
        <5> QED
          BY <5>1
      <4> QED
        BY <4>1, <4>2
    <3> QED
      BY <3>1, <3>2 DEF Active
  <2>2. CASE m = c
    <3>1. call[c].op = "register" /\ member[c] = [ws |-> c, who |-> c, role |-> "owner", status |-> "active"]
      BY <2>2, OwnMembership
    <3>2. member'[c] = member[c]
      <4>1. CASE Undo(c)
        <5>1. call[c].undo = <<"tenant">>
          BY <3>1, <4>1 DEF Undo, At, SessionsVouched
        <5>2. Head(<<"tenant">>) = "tenant"
          OBVIOUS
        <5>3. Head(call[c].undo) # "member"
          BY <5>1, <5>2
        <5> QED
          BY <1>1, <4>1, <5>3 DEF Undo, DataOK
      <4>2. CASE RegisterOwner(c)
        BY <1>1, <3>1, <4>2 DEF RegisterOwner, DataOK
      <4>3. CASE ~Undo(c) /\ ~RegisterOwner(c)
        <5>1. ~TransferPromote(c) /\ ~TransferDemote(c) /\ ~AcceptJoin(c)
          BY <1>1, <3>1 DEF TransferPromote, TransferDemote, AcceptJoin, At, Fits, TransferSteps, AcceptSteps
        <5> QED
          BY <1>1, <4>3, <5>1 DEF GoingOn, Crash, rows, InviteInsert, AcceptIdentify, AcceptCreate,
             AcceptRelook, AcceptConsume, RegisterTenant, RegisterAccount,
             RegisterOwn, RegisterSeed, SignOut, TransferClaim, Mint
      <4> QED
        BY <4>1, <4>2, <4>3
    <3>3. call'[c].op = "register"
      BY <1>1, <3>1 DEF Goes, Running
    <3> QED
      BY <2>2, <3>2, <3>3 DEF Sure, HasMember, Active
  <2> QED
    BY <2>1, <2>2
<1>7. CASE SignOut(c)
  <2>1. /\ session' = session \ (SessionsOf(call[c].who) \cup SessionsOf(call[c].owner))
        /\ call[c].pc = "signout" /\ Goto(c, "done")
    BY <1>1, <1>7 DEF SignOut, At, Finish
  <2>2. call'[c].pc = "done" /\ ~UpdateWrite(c)
    BY <1>1, <2>1, GotoPlace DEF Steps, UpdateWrite, At
  <2>3. (\A s \in session : Vouched(s[1], s[2]) \/ Leaving(s[1]))'
    <3> SUFFICES ASSUME NEW s \in session' PROVE (Vouched(s[1], s[2]) \/ Leaving(s[1]))'
      OBVIOUS
    <3>1. s \in session /\ s[1] \in Ids /\ s[2] \in Ids /\ s[1] # call[c].who
      BY <1>1, <2>1 DEF DataOK, SessionsOf
    <3>2. Leaving(s[1]) => Leaving(s[1])'
      BY <1>2, <3>1 DEF Leaving
    <3> QED
      BY <1>6, <2>2, <3>1, <3>2 DEF SessionsVouched
  <2>4. ASSUME NEW d \in Calls, call'[d].pc = "mint" PROVE Vouched(call[d].who, call[d].ws)'
    <3>1. call'[d] = call[d] /\ call[d].who \in Ids /\ call[d].ws \in Ids /\ Vouched(call[d].who, call[d].ws)
      BY <1>2, <1>3, <2>4 DEF TypeInv, Fits, SessionsVouched
    <3>2. \A who, ws \in Ids : who = call'[d].who /\ ws = call'[d].ws => Vouched(who, ws)'
      BY <1>6, <2>2, <3>1
    <3> QED
      BY <3>1, <3>2 DEF Vouched
  <2>5. (\A d \in Calls : call[d].pc = "undo" /\ call[d].op = "register" => call[d].undo = <<"tenant">>)'
    BY <1>2, <1>4 DEF SessionsVouched
  <2> QED
    BY <2>3, <2>4, <2>5 DEF SessionsVouched
<1>8. CASE Mint(c) \/ RegisterSeed(c)
  <2>1. PICK who \in Ids, ws \in Ids : session' = session \cup {<<who, ws>>} /\ Vouched(who, ws)
    <3>1. CASE Mint(c)
      BY <1>1, <3>1 DEF Mint, At, Fits, SessionsVouched
    <3>2. CASE RegisterSeed(c)
      <4>1. call[c].pc = "seed" /\ call[c].op = "register"
        BY <1>1, <3>2 DEF RegisterSeed, At, Fits, RegisterSteps
      <4>2. OnlyWritesFail
        BY DEF OnlyWritesFail
      <4>3. HasMember(c)
        BY <4>1, <4>2 DEF RegistrationInv, Registered
      <4>4. member[c] = [ws |-> c, who |-> c, role |-> "owner", status |-> "active"]
        BY <1>1, <4>1, <4>3 DEF OwnRows, HasMember
      <4>5. Vouched(c, c)
        BY <1>1, <4>1, <4>3, <4>4 DEF Vouched, MembershipsOf, Active, Sure
      <4> QED
        BY <1>1, <3>2, <4>5 DEF RegisterSeed
    <3> QED
      BY <1>8, <3>1, <3>2
  <2>2. call[c].pc \in {"mint", "seed"} /\ ~UpdateWrite(c)
    BY <1>8 DEF Mint, RegisterSeed, UpdateWrite, At
  <2>3. \A x \in Ids : Leaving(x) => Leaving(x)'
    BY <1>2, <2>2 DEF Leaving
  <2>4. (\A s \in session : Vouched(s[1], s[2]) \/ Leaving(s[1]))'
    <3> SUFFICES ASSUME NEW s \in session' PROVE (Vouched(s[1], s[2]) \/ Leaving(s[1]))'
      OBVIOUS
    <3>1. CASE s \in session
      <4>1. s[1] \in Ids /\ s[2] \in Ids
        BY <1>1, <3>1 DEF DataOK
      <4> QED
        BY <1>6, <2>2, <2>3, <3>1, <4>1 DEF SessionsVouched
    <3>2. CASE s = <<who, ws>>
      BY <1>6, <2>1, <2>2, <3>2
    <3> QED
      BY <2>1, <3>1, <3>2
  <2>5. ASSUME NEW d \in Calls, call'[d].pc = "mint" PROVE Vouched(call[d].who, call[d].ws)'
    <3>1. call'[d] = call[d] /\ call[d].who \in Ids /\ call[d].ws \in Ids /\ Vouched(call[d].who, call[d].ws)
      BY <1>2, <1>3, <2>5 DEF TypeInv, Fits, SessionsVouched
    <3>2. \A x, y \in Ids : x = call'[d].who /\ y = call'[d].ws => Vouched(x, y)'
      BY <1>6, <2>2, <3>1
    <3> QED
      BY <3>1, <3>2 DEF Vouched
  <2>6. (\A d \in Calls : call[d].pc = "undo" /\ call[d].op = "register" => call[d].undo = <<"tenant">>)'
    BY <1>2, <1>4 DEF SessionsVouched
  <2> QED
    BY <2>4, <2>5, <2>6 DEF SessionsVouched
<1>9. CASE ~UpdateWrite(c) /\ ~SignOut(c) /\ ~Mint(c) /\ ~RegisterSeed(c)
  <2>1. session' = session /\ call[c].pc # "signout"
    BY <1>1, <1>9 DEF GoingOn, At, Crash, InviteInsert, AcceptIdentify, AcceptCreate,
         AcceptRelook, AcceptJoin, AcceptConsume, Undo, RegisterTenant, RegisterAccount, RegisterOwner,
         RegisterOwn, TransferClaim, TransferPromote, TransferDemote, rows
  <2> QED
    BY <1>1, <1>3, <1>4, <1>6, <1>9, <2>1, SessionsStay
<1> QED
  BY <1>5, <1>7, <1>8, <1>9

LEMMA SessionStep ==
    TypeInv /\ ClashesNoted /\ RegistrationInv /\ SessionInv /\ [Next]_vars => SessionInv'
<1> SUFFICES ASSUME TypeInv, ClashesNoted, RegistrationInv, SessionInv, [Next]_vars,
                    faults' = <<>>, "session" \notin clashes'
             PROVE  SessionsVouched'
  BY DEF SessionInv
<1>1. /\ SessionsVouched /\ "session" \notin clashes /\ faults = <<>>
      /\ \A kind \in Faults : ~Fault(kind)
  BY FaultlessBefore, ClashesGrow DEF SessionInv
<1>2. ClashesNoted'
  BY ClashesStep
<1>3. CASE UNCHANGED vars \/ \E i \in Ids : Expire(i)
  <2>1. UNCHANGED <<call, member, session>>
    BY <1>3 DEF vars, Expire
  <2> QED
    BY <1>1, <2>1 DEF SessionsVouched, Vouched, MembershipsOf, Active, Sure, HasMember, Leaving
<1> QED
  BY <1>1, <1>2, <1>3, NextSteps, SessionsBegin, SessionsGoOn

\* Who is suspended is signed out, unless a sign-in overlaps what it may not
\* (RevokeSessionsForPrincipal after HandleUpdateWorkspaceMember).
THEOREM SessionsAreVouched == Spec => []SessionsAreOfActiveMembers
<1>1. Init => SessionInv /\ RegistrationInv
  <2> SUFFICES ASSUME Init PROVE SessionsVouched /\ \A c \in Calls : call[c].op # "register"
    BY DEF SessionInv, RegistrationInv
  <2>1. session = {} /\ \A c \in Calls : call[c].pc = "new" /\ call[c].op = None
    BY DEF Init, Idle
  <2> QED
    BY <2>1, WorkspaceConstants DEF WorkspaceConstants, SessionsVouched, AllOperations
<1>2. TypeInv /\ SessionInv => SessionsAreOfActiveMembers
  <2> SUFFICES ASSUME TypeInv, SessionInv, Undisturbed, "session" \notin clashes, NEW s \in session
               PROVE  \E m \in MembershipsOf(s[1], s[2]) : Active(m)
    BY DEF SessionsAreOfActiveMembers
  <2>1. ~Leaving(s[1])
    BY DEF Leaving, Undisturbed, Quiet, Running
  <2>2. Vouched(s[1], s[2])
    BY <2>1 DEF SessionInv, SessionsVouched, Undisturbed
  <2> QED
    BY <2>2 DEF Vouched
<1> QED
  BY <1>1, <1>2, SessionStep, RegistrationStep, TypeInvariant, ClashesInvariant, PTL DEF Spec
================================================================================
