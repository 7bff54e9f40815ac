------------------------------- MODULE Workspace -------------------------------
(* Workspaces and the identities in them (routes/workspace_memberships.go,    *)
(* routes/tenant_auth.go): invitations, their acceptance with its undo by     *)
(* hand, roles and suspension, transfer of ownership, registration, sign-in.  *)
(*                                                                            *)
(* One action is what a request does up to and including one access to Mongo  *)
(* that another request can interleave with.  Identities, memberships,        *)
(* workspaces and invitations bear the name of the request that inserted      *)
(* them; Founder and Partner stand for requests of the past.  The requests on *)
(* members and invitations are about the founder's workspace.  A request that *)
(* is refused before its first write is one that never began.  The role check *)
(* of the middleware, lockouts and passwords are external.                    *)
EXTENDS Integers, Sequences, FiniteSets

CONSTANTS
    Calls,       \* requests
    Founder,     \* owner of the workspace
    Partner,     \* second member, and an invitation sent in the past
    None,
    Emails,
    EmailOf,     \* addresses of the founder and the partner
    Guest,       \* address the old invitation is for
    Operations,  \* operations the requests of an instance may be
    Faults,      \* kinds of fault: "write", "undo" (of a removal), "crash"
    MaxFaults    \* bound on faults

Ids == Calls \cup {Founder, Partner}
DelegatedRoles == {"admin", "editor"}
Roles == DelegatedRoles \cup {"owner"}
AllOperations == {"invite", "accept", "revoke", "update", "transfer", "register",
                  "login", "select", "logout"}
NoTenant == "no tenant"

ASSUME WorkspaceConstants ==
    /\ Founder \notin Calls /\ Partner \notin Calls /\ Founder # Partner
    /\ None \notin Ids \cup Emails \cup Roles \cup {"active", "suspended"} \cup AllOperations
    /\ NoTenant \notin Ids \cup {None}
    /\ EmailOf \in [{Founder, Partner} -> Emails]
    /\ EmailOf[Founder] # EmailOf[Partner]
    /\ Guest \in Emails
    /\ Operations \subseteq AllOperations
    /\ MaxFaults \in Nat

VARIABLES
    account,   \* account_users: address of an identity, None when there is no row
    member,    \* workspace_memberships
    owner,     \* tenants: owner_membership_id; NoTenant when there is no row
    invite,    \* workspace_invitations
    seeds,     \* what registration seeded: a list, a badge, a form that uses both
    session,   \* sessions minted and not revoked
    call,      \* where each request is
    faults,    \* kinds of the faults so far
    clashes    \* which properties an overlap the code lets happen has disturbed

vars == <<account, member, owner, invite, seeds, session, call, faults, clashes>>
rows == <<account, member, owner, invite, seeds, session>>

NoMember == [ws |-> None, who |-> None, role |-> None, status |-> None]
Memberships == [ws : Ids, who : Ids, role : Roles, status : {"active", "suspended"}]
Invitations == [status : {"none", "pending", "accepted", "revoked"},
                email : Emails \cup {None}, role : DelegatedRoles \cup {None},
                live : BOOLEAN]
NoInvitation == [status |-> "none", email |-> None, role |-> None, live |-> FALSE]
Idle == [pc |-> "new", op |-> None, email |-> None, who |-> None, inv |-> None,
         target |-> None, ws |-> None, owner |-> None, role |-> None, status |-> None,
         undo |-> <<>>]
Steps == {"new", "invite", "identify", "create", "relook", "join", "consume",
          "undo", "tenant", "account", "owner", "own", "seed", "update", "signout",
          "transfer", "promote", "demote", "mint", "done"}
Undos == {<<>>, <<"account">>, <<"member">>, <<"tenant">>, <<"member", "account">>,
          <<"account", "tenant">>, <<"member", "account", "tenant">>}

\* The types, and that an identity, a membership or an invitation a request
\* holds on to was named when the step was reached.
TypeOK ==
    /\ account \in [Ids -> Emails \cup {None}]
    /\ member \in [Ids -> Memberships \cup {NoMember}]
    /\ owner \in [Ids -> Ids \cup {None, NoTenant}]
    /\ invite \in [Ids -> Invitations]
    /\ seeds \in [Ids -> SUBSET {"list", "badge", "form"}]
    /\ session \in SUBSET (Ids \X Ids)
    /\ \A c \in Calls :
         /\ call[c].pc \in Steps
         /\ call[c].op \in Operations \cup {None}
         /\ call[c].undo \in Undos
         /\ call[c].pc \in {"join", "consume", "mint"} => call[c].who \in Ids
         /\ call[c].pc = "mint" => call[c].ws \in Ids
         /\ call[c].pc \in {"update", "transfer", "promote", "demote"} =>
              call[c].target \in Ids
         /\ call[c].pc \in {"identify", "create", "relook", "join", "consume"} =>
              call[c].inv \in Ids /\ invite[call[c].inv].status # "none"
    /\ faults \in Seq(Faults) /\ Len(faults) <= MaxFaults
    /\ clashes \subseteq {"ownership", "session"}

Init ==
    /\ account = [i \in Ids |-> IF i \in Calls THEN None ELSE EmailOf[i]]
    /\ member = [i \in Ids |->
                   IF i \in Calls THEN NoMember
                   ELSE [ws |-> Founder, who |-> i, status |-> "active",
                         role |-> IF i = Founder THEN "owner" ELSE "admin"]]
    /\ owner = [i \in Ids |-> IF i = Founder THEN Founder ELSE NoTenant]
    /\ invite = [i \in Ids |->
                   IF i = Partner
                   THEN [status |-> "pending", email |-> Guest, role |-> "editor",
                         live |-> TRUE]
                   ELSE NoInvitation]
    /\ seeds = [i \in Ids |-> {}]
    /\ session = {}
    /\ call = [c \in Calls |-> Idle]
    /\ faults = <<>>
    /\ clashes = {}

--------------------------------------------------------------------------------
(* Helpers *)

Running(c) == call[c].pc \notin {"new", "done"}
Quiet == \A c \in Calls : ~Running(c)

\* Nothing keeps a request from writing what it read before another one changed
\* it.  Transfers overtake each other, updates of the member they are about and
\* the undo of its acceptance; a sign-in overtakes a suspension and that undo.
Clashing(k) ==
    IF k = "ownership" THEN {"transfer"} \X {"accept", "update", "transfer"}
    ELSE {"login", "select"} \X {"accept", "update"}
Clash(op, other) ==
    {k \in {"ownership", "session"} :
        {<<op, other>>, <<other, op>>} \cap Clashing(k) # {}}

\* A request of this kind begins.
Begins(c, op) ==
    /\ call[c].pc = "new"
    /\ op \in Operations
    /\ clashes' = clashes \cup UNION {Clash(op, call[d].op) : d \in {x \in Calls : Running(x)}}

At(c, pc) == call[c].pc = pc
Goto(c, pc) == call' = [call EXCEPT ![c].pc = pc]
Finish(c) == Goto(c, "done")

Works == UNCHANGED <<faults, clashes>>
Fault(kind) ==
    /\ kind \in Faults /\ Len(faults) < MaxFaults
    /\ faults' = Append(faults, kind)
    /\ UNCHANGED clashes
Fails == Fault("write")

\* The unique indexes: account_users.email, and (tenant_id, identity_id).
Holders(e) == {i \in Ids : account[i] = e}
EmailTaken(e) == e # None /\ Holders(e) # {}
MembershipsOf(who, ws) == {m \in Ids : member[m].who = who /\ member[m].ws = ws}
IsMember(who, ws) == MembershipsOf(who, ws) # {}

Active(m) == member[m].status = "active"
SessionsOf(who) == {s \in session : s[1] = who}

--------------------------------------------------------------------------------
(* Invitations *)

\* A pending, unexpired invitation for the address, or a membership of its
\* identity, refuses another.
Invitable(e) ==
    /\ \A i \in Ids : ~(invite[i].status = "pending" /\ invite[i].live /\ invite[i].email = e)
    /\ \A x \in Holders(e) : ~IsMember(x, Founder)

InviteCheck(c) ==
    /\ Begins(c, "invite")
    /\ \E e \in Emails, r \in DelegatedRoles :
         /\ Invitable(e)
         /\ call' = [call EXCEPT ![c] = [Idle EXCEPT !.pc = "invite", !.op = "invite",
                                                     !.email = e, !.role = r]]
    /\ UNCHANGED <<rows, faults>>

InviteInsert(c) ==
    /\ At(c, "invite")
    /\ \/ /\ invite' = [invite EXCEPT ![c] =
                          [status |-> "pending", email |-> call[c].email,
                           role |-> call[c].role, live |-> TRUE]]
          /\ Works
       \/ Fails /\ UNCHANGED invite
    /\ Finish(c)
    /\ UNCHANGED <<account, member, owner, session, seeds>>

RevokeInvitation(c) ==
    /\ Begins(c, "revoke")
    /\ \E i \in Ids :
         /\ invite[i].status = "pending"
         /\ invite' = [invite EXCEPT ![i].status = "revoked"]
    /\ call' = [call EXCEPT ![c] = [Idle EXCEPT !.pc = "done", !.op = "revoke"]]
    /\ UNCHANGED <<account, member, owner, session, faults, seeds>>

\* Seven days pass.
Expire(i) ==
    /\ invite[i].status = "pending" /\ invite[i].live
    /\ invite' = [invite EXCEPT ![i].live = FALSE]
    /\ UNCHANGED <<account, member, owner, session, call, faults, seeds, clashes>>

--------------------------------------------------------------------------------
(* Acceptance *)

AcceptFind(c) ==
    /\ Begins(c, "accept")
    /\ \E i \in Ids :
         /\ invite[i].status = "pending" /\ invite[i].live
         /\ call' = [call EXCEPT ![c] = [Idle EXCEPT !.pc = "identify", !.op = "accept",
                                                     !.inv = i]]
    /\ UNCHANGED <<rows, faults>>

Invitee(c) == invite[call[c].inv].email

\* Find the identity of the address; a new one must be created.
AcceptIdentify(c) ==
    /\ At(c, "identify")
    /\ IF EmailTaken(Invitee(c))
       THEN \E x \in Holders(Invitee(c)) :
              call' = [call EXCEPT ![c].pc = "join", ![c].who = x]
       ELSE Goto(c, "create")
    /\ UNCHANGED rows /\ Works

\* A duplicate means somebody else created it in between.  An identity this
\* request created bears its name, which is createdIdentity.
AcceptCreate(c) ==
    /\ At(c, "create")
    /\ \/ /\ EmailTaken(Invitee(c))
          /\ Goto(c, "relook")
          /\ Works /\ UNCHANGED account
       \/ /\ ~EmailTaken(Invitee(c))
          /\ account' = [account EXCEPT ![c] = Invitee(c)]
          /\ call' = [call EXCEPT ![c].pc = "join", ![c].who = c]
          /\ Works
       \/ Fails /\ Finish(c) /\ UNCHANGED account
    /\ UNCHANGED <<member, owner, invite, session, seeds>>

AcceptRelookBlind(c) ==
    /\ At(c, "relook")
    /\ IF EmailTaken(Invitee(c))
       THEN \E x \in Holders(Invitee(c)) :
              call' = [call EXCEPT ![c].pc = "join", ![c].who = x]
       ELSE Goto(c, "join")
    /\ UNCHANGED rows /\ Works

AcceptRelook(c) ==
    /\ At(c, "relook")
    /\ IF EmailTaken(Invitee(c))
       THEN \E x \in Holders(Invitee(c)) :
              call' = [call EXCEPT ![c].pc = "join", ![c].who = x]
       ELSE Finish(c)
    /\ UNCHANGED rows /\ Works

\* Give up, taking back what was written so far in this order.
GiveUp(c, undo) ==
    call' = [call EXCEPT ![c].pc = IF undo = <<>> THEN "done" ELSE "undo",
                         ![c].undo = undo]

CreatedIdentity(c) == IF call[c].who = c THEN <<"account">> ELSE <<>>

AcceptJoin(c) ==
    LET who == call[c].who IN
    /\ At(c, "join")
    /\ \/ /\ ~IsMember(who, Founder)
          /\ member' = [member EXCEPT ![c] =
                          [ws |-> Founder, who |-> who, status |-> "active",
                           role |-> invite[call[c].inv].role]]
          /\ Goto(c, "consume")
          /\ Works
       \/ /\ (IsMember(who, Founder) /\ Works) \/ Fails
          /\ GiveUp(c, CreatedIdentity(c))
          /\ UNCHANGED member
    /\ UNCHANGED <<account, owner, invite, session, seeds>>

AcceptConsumeKeepingMember(c) ==
    LET i == call[c].inv IN
    /\ At(c, "consume")
    /\ \/ /\ invite[i].status = "pending"
          /\ invite' = [invite EXCEPT ![i].status = "accepted"]
          /\ Finish(c)
          /\ Works
       \/ /\ (invite[i].status # "pending" /\ Works) \/ Fails
          /\ GiveUp(c, CreatedIdentity(c))
          /\ UNCHANGED invite
    /\ UNCHANGED <<account, member, owner, session, seeds>>

\* The compare-and-set that spends the invitation comes last.
AcceptConsume(c) ==
    LET i == call[c].inv IN
    /\ At(c, "consume")
    /\ \/ /\ invite[i].status = "pending"
          /\ invite' = [invite EXCEPT ![i].status = "accepted"]
          /\ Finish(c)
          /\ Works
       \/ /\ (invite[i].status # "pending" /\ Works) \/ Fails
          /\ GiveUp(c, IF call[c].who = c THEN <<"member", "account">> ELSE <<"member">>)
          /\ UNCHANGED invite
    /\ UNCHANGED <<account, member, owner, session, seeds>>

\* One removal; its error is ignored.
Undo(c) ==
    LET what == Head(call[c].undo) IN
    /\ At(c, "undo")
    /\ \/ /\ account' = [account EXCEPT ![c] = IF what = "account" THEN None ELSE @]
          /\ member' = [member EXCEPT ![c] = IF what = "member" THEN NoMember ELSE @]
          /\ owner' = [owner EXCEPT ![c] = IF what = "tenant" THEN NoTenant ELSE @]
          /\ Works
       \/ Fault("undo") /\ UNCHANGED <<account, member, owner>>
    /\ GiveUp(c, Tail(call[c].undo))
    /\ UNCHANGED <<invite, session, seeds>>

--------------------------------------------------------------------------------
(* Registration: tenant, account, owner membership, ownership, token *)

RegisterCheck(c) ==
    /\ Begins(c, "register")
    /\ \E e \in Emails :
         /\ ~EmailTaken(e)
         /\ call' = [call EXCEPT ![c] = [Idle EXCEPT !.pc = "tenant", !.op = "register",
                                                     !.email = e]]
    /\ UNCHANGED <<rows, faults>>

RegisterTenant(c) ==
    /\ At(c, "tenant")
    /\ \/ owner' = [owner EXCEPT ![c] = None] /\ Goto(c, "account") /\ Works
       \/ Fails /\ Finish(c) /\ UNCHANGED owner
    /\ UNCHANGED <<account, member, invite, session, seeds>>

RegisterAccountOnly(c) ==
    /\ At(c, "account")
    /\ \/ /\ ~EmailTaken(call[c].email)
          /\ account' = [account EXCEPT ![c] = call[c].email]
          /\ Goto(c, "owner")
          /\ Works
       \/ /\ (EmailTaken(call[c].email) /\ Works) \/ Fails
          /\ Finish(c)
          /\ UNCHANGED account
    /\ UNCHANGED <<member, owner, invite, session, seeds>>

RegisterAccount(c) ==
    /\ At(c, "account")
    /\ \/ /\ ~EmailTaken(call[c].email)
          /\ account' = [account EXCEPT ![c] = call[c].email]
          /\ Goto(c, "owner")
          /\ Works
       \/ /\ (EmailTaken(call[c].email) /\ Works) \/ Fails
          /\ GiveUp(c, <<"tenant">>)
          /\ UNCHANGED account
    /\ UNCHANGED <<member, owner, invite, session, seeds>>

RegisterOwner(c) ==
    /\ At(c, "owner")
    /\ \/ /\ member' = [member EXCEPT ![c] =
                          [ws |-> c, who |-> c, role |-> "owner", status |-> "active"]]
          /\ Goto(c, "own")
          /\ Works
       \/ Fails /\ GiveUp(c, <<"account", "tenant">>) /\ UNCHANGED member
    /\ UNCHANGED <<account, owner, invite, session, seeds>>

RegisterOwn(c) ==
    /\ At(c, "own")
    /\ \/ owner' = [owner EXCEPT ![c] = c] /\ Goto(c, "seed") /\ Works
       \/ Fails /\ GiveUp(c, <<"member", "account", "tenant">>) /\ UNCHANGED owner
    /\ UNCHANGED <<account, member, invite, session, seeds>>

\* Best effort: without its list nothing else is seeded, the form does not wait
\* for the badge.  Then the token of the new owner is minted.
RegisterSeed(c) ==
    /\ At(c, "seed")
    /\ \/ seeds' = [seeds EXCEPT ![c] = {"list", "badge", "form"}] /\ Works
       \/ \E some \in {{}, {"list", "form"}, {"list", "badge"}} :
            seeds' = [seeds EXCEPT ![c] = some] /\ Fails
    /\ session' = session \cup {<<c, c>>}
    /\ Finish(c)
    /\ UNCHANGED <<account, member, owner, invite>>

--------------------------------------------------------------------------------
(* Roles and ownership *)

UpdateReadAnyone(c) ==
    /\ Begins(c, "update")
    /\ \E m \in Ids, r \in DelegatedRoles \cup {None}, s \in {"active", "suspended", None} :
         /\ member[m].ws = Founder
         /\ r # None \/ s # None
         /\ call' = [call EXCEPT ![c] = [Idle EXCEPT !.pc = "update", !.op = "update",
                                           !.target = m, !.role = r, !.status = s]]
    /\ UNCHANGED <<rows, faults>>

\* The member exists in the workspace and is not its owner, as read.
UpdateRead(c) ==
    /\ Begins(c, "update")
    /\ \E m \in Ids, r \in DelegatedRoles \cup {None}, s \in {"active", "suspended", None} :
         /\ member[m].ws = Founder
         /\ owner[Founder] # m
         /\ r # None \/ s # None
         /\ call' = [call EXCEPT ![c] = [Idle EXCEPT !.pc = "update", !.op = "update",
                                           !.target = m, !.role = r, !.status = s]]
    /\ UNCHANGED <<rows, faults>>

UpdateWrite(c) ==
    LET m == call[c].target IN
    /\ At(c, "update")
    /\ \/ /\ member[m].ws = Founder
          /\ member' = [member EXCEPT
                          ![m].role = IF call[c].role = None THEN @ ELSE call[c].role,
                          ![m].status = IF call[c].status = None THEN @ ELSE call[c].status]
          /\ call' = [call EXCEPT ![c].pc = "signout", ![c].who = member[m].who]
          /\ Works
       \/ /\ (member[m].ws # Founder /\ Works) \/ Fails
          /\ Finish(c)
          /\ UNCHANGED member
    /\ UNCHANGED <<account, owner, invite, session, seeds>>

SignOutFromHere(c) ==
    /\ At(c, "signout")
    /\ \/ session' = session \ {<<call[c].owner, Founder>>} /\ Works
       \/ Fails /\ UNCHANGED session
    /\ Finish(c)
    /\ UNCHANGED <<account, member, owner, invite, seeds>>

\* RevokeSessionsForPrincipal, for every identity the change is about; its
\* error is ignored.
SignOut(c) ==
    /\ At(c, "signout")
    /\ \/ session' = session \ (SessionsOf(call[c].who)
                                 \cup SessionsOf(call[c].owner)) /\ Works
       \/ Fails /\ UNCHANGED session
    /\ Finish(c)
    /\ UNCHANGED <<account, member, owner, invite, seeds>>

TransferRead(c) ==
    /\ Begins(c, "transfer")
    /\ \E m \in Ids :
         /\ member[m].ws = Founder /\ Active(m)
         /\ m # owner[Founder]
         /\ call' = [call EXCEPT ![c] = [Idle EXCEPT !.pc = "transfer", !.op = "transfer",
                                           !.target = m, !.owner = owner[Founder],
                                           !.who = member[m].who]]
    /\ UNCHANGED <<rows, faults>>

TransferClaim(c) ==
    /\ At(c, "transfer")
    /\ \/ /\ owner[Founder] = call[c].owner
          /\ owner' = [owner EXCEPT ![Founder] = call[c].target]
          /\ Goto(c, "promote")
          /\ Works
       \/ /\ (owner[Founder] # call[c].owner /\ Works) \/ Fails
          /\ Finish(c)
          /\ UNCHANGED owner
    /\ UNCHANGED <<account, member, invite, session, seeds>>

\* An update by _id; nothing happens when the row is gone or the write fails.
SetRole(m, role) ==
    \/ /\ member' = IF member[m] = NoMember THEN member
                    ELSE [member EXCEPT ![m].role = role]
       /\ Works
    \/ Fails /\ UNCHANGED member

TransferPromote(c) ==
    /\ At(c, "promote")
    /\ SetRole(call[c].target, "owner")
    /\ Goto(c, "demote")
    /\ UNCHANGED <<account, owner, invite, session, seeds>>

\* The caller, whose sessions end as well, is the owner it read.
TransferDemote(c) ==
    /\ At(c, "demote")
    /\ SetRole(call[c].owner, "admin")
    /\ call' = [call EXCEPT ![c].pc = "signout", ![c].owner = member[call[c].owner].who]
    /\ UNCHANGED <<account, owner, invite, session, seeds>>

--------------------------------------------------------------------------------
(* Sessions *)

\* UserForWorkspace: an identity with an active membership.
SignInRead(c, op) ==
    /\ Begins(c, op)
    /\ \E m \in Ids :
         /\ member[m] # NoMember /\ Active(m)
         /\ account[member[m].who] # None
         /\ op = "select" => SessionsOf(member[m].who) # {}
         /\ call' = [call EXCEPT ![c] = [Idle EXCEPT !.pc = "mint", !.op = op,
                                           !.who = member[m].who, !.ws = member[m].ws]]
    /\ UNCHANGED <<rows, faults>>

LoginRead(c) == SignInRead(c, "login")
SelectRead(c) == SignInRead(c, "select")

Mint(c) ==
    /\ At(c, "mint")
    /\ session' = session \cup {<<call[c].who, call[c].ws>>}
    /\ Finish(c)
    /\ UNCHANGED <<account, member, owner, invite, faults, seeds, clashes>>

\* One session, or every session of the identity.
Logout(c) ==
    /\ Begins(c, "logout")
    /\ \E s \in session : session' \in {session \ {s}, session \ SessionsOf(s[1])}
    /\ call' = [call EXCEPT ![c] = [Idle EXCEPT !.pc = "done", !.op = "logout"]]
    /\ UNCHANGED <<account, member, owner, invite, faults, seeds>>

--------------------------------------------------------------------------------

Crash(c) ==
    /\ Running(c)
    /\ Fault("crash")
    /\ Finish(c)
    /\ UNCHANGED rows

Next ==
    \/ \E c \in Calls :
         \/ InviteCheck(c) \/ InviteInsert(c) \/ RevokeInvitation(c)
         \/ AcceptFind(c) \/ AcceptIdentify(c) \/ AcceptCreate(c) \/ AcceptRelook(c)
         \/ AcceptJoin(c) \/ AcceptConsume(c) \/ Undo(c)
         \/ RegisterCheck(c) \/ RegisterTenant(c) \/ RegisterAccount(c)
         \/ RegisterOwner(c) \/ RegisterOwn(c) \/ RegisterSeed(c)
         \/ UpdateRead(c) \/ UpdateWrite(c) \/ SignOut(c)
         \/ TransferRead(c) \/ TransferClaim(c) \/ TransferPromote(c) \/ TransferDemote(c)
         \/ LoginRead(c) \/ SelectRead(c) \/ Mint(c) \/ Logout(c)
         \/ Crash(c)
    \/ \E i \in Ids : Expire(i)

Spec == Init /\ [][Next]_vars

--------------------------------------------------------------------------------
(* Properties *)

Undisturbed == Quiet /\ faults = <<>>
Joined(i) == {c \in Calls : call[c].inv = i /\ member[c] # NoMember}

\* However often an invitation is accepted at once, revoked or overtaken by its
\* expiry meanwhile, it ends up with one membership if it was accepted and with
\* none if it was not (the order of HandleAcceptWorkspaceInvitation: insert the
\* membership, spend the invitation, take the membership back).
InvitationIsSpentOnce ==
    Undisturbed =>
      \A i \in Ids : Cardinality(Joined(i)) =
                       IF invite[i].status = "accepted" THEN 1 ELSE 0

\* "a failed second insert never orphans a Tenant" (ID-010, tenant_auth.go:78):
\* a registration leaves all of tenant, account, membership and ownership or
\* none of them, whichever writes fail, unless a removal fails or the process
\* crashes.
RegistrationIsAtomic ==
    Quiet /\ (\A k \in DOMAIN faults : faults[k] = "write") =>
      \A c \in {d \in Calls : call[d].op = "register"} :
        \/ owner[c] = NoTenant /\ account[c] = None /\ member[c] = NoMember
        \/ owner[c] = c /\ account[c] # None /\ member[c].role = "owner"

\* The owner recorded for the workspace is an active member, and the only one
\* with the role of an owner.
OwnerStands ==
    Undisturbed /\ "ownership" \notin clashes =>
      /\ member[owner[Founder]].ws = Founder
      /\ Active(owner[Founder])
      /\ {m \in Ids : member[m].ws = Founder /\ member[m].role = "owner"} = {owner[Founder]}

\* Who is suspended is signed out: every session is one of an active membership.
SessionsAreOfActiveMembers ==
    Undisturbed /\ "session" \notin clashes =>
      \A s \in session : \E m \in MembershipsOf(s[1], s[2]) : Active(m)

\* "It never mints a session, so normal credential authentication still follows"
\* (workspace_memberships.go:119): whoever joined has an identity to sign in with.
MembersHaveIdentities ==
    Undisturbed => \A m \in Ids : member[m] # NoMember => account[member[m].who] # None

================================================================================
