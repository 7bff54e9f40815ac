-------------------------------- MODULE Contacts --------------------------------
(* Contacts and the badges they hold (routes/story.go), and the maintenance   *)
(* commands that put them in order while the service runs: dedupe-contacts,   *)
(* reconcile-contact-tenancy and reconcile-contact-taxonomy (cmd/), each run  *)
(* with -apply.                                                               *)
(*                                                                            *)
(* Plan limits, names and consent are left out.  A label a tag was migrated   *)
(* to goes by the tag's name.  Offers, which name badges, and the writers of  *)
(* the legacy ownership field are external.                                   *)
EXTENDS Integers, FiniteSets

CONSTANTS
    MaxContacts,   \* bound on contact rows, numbered as their ids are ordered
    Tenants,
    Emails,
    Badges,
    Tags,          \* legacy tag definitions, of the tenant LabelTenant
    LabelTenant,
    Initial,       \* contacts the commands may be started with
    Requests,      \* requests that read before they write
    Nil,
    MaxChanges,    \* bound on requests
    MaxSlips       \* bound on failed writes and crashes

Rows == 1 .. MaxContacts
Commands == {"dedupe", "tenancy", "taxonomy"}

VARIABLES
    contact,
    indexed,    \* the unique index on (tenant_id, email) could be built
    badge,      \* of each badge definition: "live" or "deleted"
    offers,     \* badges an offer grants
    label,      \* of each tag: a badge with its public id, if there is one, and
                \* whether it is linked to the tag
    tag,        \* of each tag: "live" or "retired"
    request,    \* what each request read
    run,        \* where each command is
    touched,    \* contacts edited since a command listed them, badges assigned
                \* since a deletion counted their holders
    changes, slips

contactVars == <<contact, indexed, badge, offers, label, tag, request, run, touched, changes, slips>>

Contact == [there : BOOLEAN, tenant : Tenants \cup {Nil}, legacy : Tenants \cup {Nil},
            email : Emails, deleted : BOOLEAN,
            badges : SUBSET (Badges \cup Tags), tags : SUBSET Tags]
Free == [pc |-> "idle", of |-> Nil, email |-> Nil, tenant |-> Nil]
Waiting == [pc |-> "idle", todo |-> {}, item |-> Nil, seen |-> {}]

Live(c) == contact[c].there /\ ~contact[c].deleted
Alike(c, d) == contact[c].tenant = contact[d].tenant /\ contact[c].email = contact[d].email
ClashAmongLive(t, e, c) ==
    indexed /\ \E d \in Rows \ {c} : Live(d) /\ contact[d].tenant = t /\ contact[d].email = e
\* The index knows rows marked as deleted, too.
Clash(t, e, c) ==
    indexed /\ \E d \in Rows \ {c} : contact[d].there /\ contact[d].tenant = t /\ contact[d].email = e

ContactsTypeOK ==
    /\ contact \in [Rows -> Contact]
    /\ indexed => \A c, d \in Rows : contact[c].there /\ contact[d].there /\ Alike(c, d) => c = d
    /\ badge \in [Badges -> {"live", "deleted"}]
    /\ offers \subseteq Badges
    /\ label \in [Tags -> {"none", "other", "unlinked", "linked"}]
    /\ tag \in [Tags -> {"live", "retired"}]
    /\ \A g \in Tags : tag[g] = "retired" => label[g] = "linked"
    /\ \A r \in Requests : request[r].pc \in {"idle", "register", "delete"}
    /\ \A k \in Commands : run[k].pc \in {"idle", "next", "union", "mark", "scan", "assign", "pull", "retire"}
    /\ changes \in 0 .. MaxChanges /\ slips \in 0 .. MaxSlips

ContactsConstants ==
    /\ Initial \subseteq [Rows -> Contact]
    /\ \A f \in Initial : \A c \in Rows : ~f[c].there => f[c].tags = {}
    /\ LabelTenant \in Tenants
    /\ Nil \notin Rows \cup Tenants
    /\ Badges \cap Tags = {} /\ (Badges \cup Tags) \cap Rows = {}
    /\ MaxContacts \in Nat /\ MaxChanges \in Nat /\ MaxSlips \in Nat

ContactsInit ==
    /\ contact \in Initial
    /\ indexed = (\A c, d \in Rows : contact[c].there /\ contact[d].there /\ Alike(c, d) => c = d)
    /\ badge = [b \in Badges |-> "live"]
    /\ offers = {}
    /\ label \in [Tags -> {"none", "other", "unlinked"}]
    /\ tag = [g \in Tags |-> "live"]
    /\ request = [r \in Requests |-> Free]
    /\ run = [k \in Commands |-> Waiting]
    /\ touched = {}
    /\ changes = 0 /\ slips = 0

--------------------------------------------------------------------------------
(* Requests *)

Change == changes < MaxChanges /\ changes' = changes + 1
Slip == slips < MaxSlips /\ slips' = slips + 1
Sure == UNCHANGED slips
Ends(r) == request' = [request EXCEPT ![r] = Free]
Touch(S) == touched' = touched \cup S

\* A live contact with the address is refused before the row is written; the
\* index refuses a deleted one as well.
RegisterCheck(r, t, e) ==
    /\ request[r].pc = "idle" /\ Change
    /\ ~\E c \in Rows : Live(c) /\ contact[c].tenant = t /\ contact[c].email = e
    /\ request' = [request EXCEPT ![r] = [pc |-> "register", of |-> Nil, email |-> e, tenant |-> t]]
    /\ UNCHANGED <<contact, indexed, badge, offers, label, tag, run, touched, slips>>

\* A new row gets the next id.
Insert(t, e) ==
    \E c \in Rows :
      /\ ~contact[c].there /\ \A d \in Rows : d < c => contact[d].there
      /\ contact' = [contact EXCEPT ![c] =
           [there |-> TRUE, tenant |-> t, legacy |-> Nil, email |-> e, deleted |-> FALSE,
            badges |-> {}, tags |-> {}]]
      /\ Touch({c})

RegisterInsert(r) ==
    LET q == request[r] IN
    /\ q.pc = "register"
    /\ \/ ~Clash(q.tenant, q.email, Nil) /\ Insert(q.tenant, q.email)
       \/ Clash(q.tenant, q.email, Nil) /\ UNCHANGED <<contact, touched>>
    /\ Ends(r)
    /\ UNCHANGED <<indexed, badge, offers, label, tag, run, changes, slips>>

\* Created from the dashboard, without a look for others.
CreateUser(t, e) ==
    /\ Change
    /\ ~Clash(t, e, Nil) /\ Insert(t, e)
    /\ UNCHANGED <<indexed, badge, offers, label, tag, request, run, slips>>

UpdateUser(c, e) ==
    /\ Change
    /\ contact[c].there /\ contact[c].tenant # Nil /\ ~Clash(contact[c].tenant, e, c)
    /\ contact' = [contact EXCEPT ![c].email = e]
    /\ Touch({c})
    /\ UNCHANGED <<indexed, badge, offers, label, tag, request, run, slips>>

Mark(S) == [c \in Rows |-> IF c \in S THEN [contact[c] EXCEPT !.deleted = TRUE] ELSE contact[c]]

DeleteUser(c) ==
    /\ Change
    /\ Live(c) /\ contact[c].tenant # Nil
    /\ contact' = Mark({c})
    /\ Touch({c})
    /\ UNCHANGED <<indexed, badge, offers, label, tag, request, run, slips>>

DeleteAllUsers(t) ==
    LET S == {c \in Rows : contact[c].there /\ contact[c].tenant = t} IN
    /\ Change
    /\ contact' = Mark(S) /\ Touch(S)
    /\ UNCHANGED <<indexed, badge, offers, label, tag, request, run, slips>>

\* Neither looks whether the badge is deleted.
AssignBadge(c, b) ==
    /\ Change
    /\ contact[c].there /\ contact[c].tenant # Nil
    /\ contact' = [contact EXCEPT ![c].badges = @ \cup {b}]
    /\ Touch({c, b})
    /\ UNCHANGED <<indexed, badge, offers, label, tag, request, run, slips>>

RemoveBadge(c, b) ==
    /\ Change
    /\ contact[c].there /\ contact[c].tenant # Nil
    /\ contact' = [contact EXCEPT ![c].badges = @ \ {b}]
    /\ Touch({c, b})
    /\ UNCHANGED <<indexed, badge, offers, label, tag, request, run, slips>>

Holders(b) == {c \in Rows : Live(c) /\ b \in contact[c].badges}

DeleteBadgeUnchecked(r, b) ==
    /\ request[r].pc = "idle" /\ Change
    /\ badge[b] = "live" /\ Holders(b) = {}
    /\ request' = [request EXCEPT ![r] = [Free EXCEPT !.pc = "delete", !.of = b]]
    /\ touched' = touched \ {b}
    /\ UNCHANGED <<contact, indexed, badge, offers, label, tag, run, slips>>

\* Holders and offers are counted, then the definition is marked.
DeleteBadgeCheck(r, b) ==
    /\ request[r].pc = "idle" /\ Change
    /\ badge[b] = "live" /\ Holders(b) = {} /\ b \notin offers
    /\ request' = [request EXCEPT ![r] = [Free EXCEPT !.pc = "delete", !.of = b]]
    /\ touched' = touched \ {b}
    /\ UNCHANGED <<contact, indexed, badge, offers, label, tag, run, slips>>

DeleteBadgeMark(r) ==
    /\ request[r].pc = "delete"
    /\ badge' = [badge EXCEPT ![request[r].of] = "deleted"]
    /\ Ends(r)
    /\ UNCHANGED <<contact, indexed, offers, label, tag, run, touched, changes, slips>>

EditOffer(b) ==
    /\ Change
    /\ offers' = offers \cup {b}
    /\ Touch({b})
    /\ UNCHANGED <<contact, indexed, badge, label, tag, request, run, slips>>

\* Somebody else settles, or changes, the ownership fields of an old row.
LegacyWrite(c, t) ==
    /\ Change
    /\ contact[c].there
    /\ \/ contact[c].tenant = Nil /\ contact' = [contact EXCEPT ![c].tenant = t]
       \/ contact[c].legacy # Nil /\ contact' = [contact EXCEPT ![c].legacy = t]
    /\ ~Clash(contact'[c].tenant, contact[c].email, c)
    /\ Touch({c})
    /\ UNCHANGED <<indexed, badge, offers, label, tag, request, run, slips>>

--------------------------------------------------------------------------------
(* Commands *)

Proceeds(k, pc) == run' = [run EXCEPT ![k].pc = pc]
At(k, pc) == run[k].pc = pc
Others(k) == UNCHANGED <<indexed, badge, offers, request, changes>>
\* An operator runs one command at a time.
Lists(k, todo) ==
    /\ \A j \in Commands : At(j, "idle")
    /\ run' = [run EXCEPT ![k] = [Waiting EXCEPT !.pc = "next", !.todo = todo]]
    /\ touched' = touched \ Rows
    /\ UNCHANGED <<contact, label, tag, slips>> /\ Others(k)
Drop(k, x) == run' = [run EXCEPT ![k].todo = @ \ {x}, ![k].pc = "next"]

\* dedupe-contacts: of the live rows of one tenant and address the oldest stays.
Canonical(d) == CHOOSE c \in Rows : /\ Live(c) /\ Alike(c, d)
                                    /\ \A x \in Rows : Live(x) /\ Alike(x, d) => c <= x
DedupeScan == Lists("dedupe", {<<d, Canonical(d)>> : d \in {x \in Rows : Live(x) /\ Canonical(x) # x}})

DedupeRead(x) ==
    /\ At("dedupe", "next") /\ x \in run["dedupe"].todo
    /\ run' = [run EXCEPT !["dedupe"] = [pc |-> "union", item |-> x, todo |-> run["dedupe"].todo \ {x},
                                         seen |-> contact[x[1]].badges]]
    /\ UNCHANGED <<contact, label, tag, touched, slips>> /\ Others("dedupe")

DedupeSkipUnion ==
    /\ At("dedupe", "union")
    /\ Proceeds("dedupe", "mark")
    /\ UNCHANGED <<contact, label, tag, touched, slips>> /\ Others("dedupe")

\* Errors of both writes are ignored.
DedupeUnion ==
    LET x == run["dedupe"].item IN
    /\ At("dedupe", "union")
    /\ \/ contact' = [contact EXCEPT ![x[2]].badges = @ \cup run["dedupe"].seen] /\ Sure
       \/ run["dedupe"].seen # {} /\ Slip /\ UNCHANGED contact
    /\ Proceeds("dedupe", "mark")
    /\ Touch(run["dedupe"].seen)
    /\ UNCHANGED <<label, tag>> /\ Others("dedupe")

DedupeMark ==
    LET x == run["dedupe"].item IN
    /\ At("dedupe", "mark")
    /\ \/ contact' = Mark({x[1]}) /\ Sure
       \/ Slip /\ UNCHANGED contact
    /\ Proceeds("dedupe", "next")
    /\ UNCHANGED <<label, tag, touched>> /\ Others("dedupe")

\* reconcile-contact-tenancy: what the scan saw of a row is the condition of the
\* write.
TenancyScan ==
    Lists("tenancy", {[row |-> c, tenant |-> contact[c].tenant, legacy |-> contact[c].legacy] :
                        c \in {d \in Rows : contact[d].there}})

TenancyRowBlind(x) ==
    /\ At("tenancy", "next") /\ x \in run["tenancy"].todo
    /\ Drop("tenancy", x)
    /\ IF x.legacy # Nil /\ x.tenant \in {Nil, x.legacy} /\ ~Clash(x.legacy, contact[x.row].email, x.row)
       THEN contact' = [contact EXCEPT ![x.row].tenant = x.legacy, ![x.row].legacy = Nil]
       ELSE UNCHANGED contact
    /\ UNCHANGED <<label, tag, touched, slips>> /\ Others("tenancy")

TenancyRow(x) ==
    /\ At("tenancy", "next") /\ x \in run["tenancy"].todo
    /\ Drop("tenancy", x)
    /\ IF /\ x.legacy # Nil /\ x.tenant \in {Nil, x.legacy}
          /\ contact[x.row].tenant = x.tenant /\ contact[x.row].legacy = x.legacy
          /\ ~Clash(x.legacy, contact[x.row].email, x.row)
       THEN contact' = [contact EXCEPT ![x.row].tenant = x.legacy, ![x.row].legacy = Nil]
       ELSE UNCHANGED contact
    /\ UNCHANGED <<label, tag, touched, slips>> /\ Others("tenancy")

\* reconcile-contact-taxonomy: the label of a tag is found by the link or by the
\* tag's public id, or created; a badge of another kind is in the way.
TaxonomyScan == Lists("taxonomy", Tags)

TaxonomyLabel(g) ==
    /\ At("taxonomy", "next") /\ g \in run["taxonomy"].todo
    /\ \/ label[g] = "other" /\ Drop("taxonomy", g) /\ UNCHANGED label
       \/ /\ label[g] # "other"
          /\ label' = [label EXCEPT ![g] = "linked"]
          /\ run' = [run EXCEPT !["taxonomy"] = [@ EXCEPT !.pc = "scan", !.item = g,
                                                          !.todo = run["taxonomy"].todo \ {g}]]
    /\ UNCHANGED <<contact, tag, touched, slips>> /\ Others("taxonomy")

TaxonomyPullFirst ==
    LET g == run["taxonomy"].item IN
    /\ At("taxonomy", "scan")
    /\ contact' = [c \in Rows |-> [contact[c] EXCEPT !.tags = @ \ {g}]]
    /\ run' = [run EXCEPT !["taxonomy"] = [@ EXCEPT !.pc = "assign", !.seen =
         {c \in Rows : contact[c].there /\ contact[c].tenant = LabelTenant /\ g \in contact[c].tags}]]
    /\ UNCHANGED <<label, tag, touched, slips>> /\ Others("taxonomy")

TaxonomyContacts ==
    LET g == run["taxonomy"].item IN
    /\ At("taxonomy", "scan")
    /\ run' = [run EXCEPT !["taxonomy"] = [@ EXCEPT !.pc = "assign", !.seen =
         {c \in Rows : contact[c].there /\ contact[c].tenant = LabelTenant /\ g \in contact[c].tags}]]
    /\ UNCHANGED <<contact, label, tag, touched, slips>> /\ Others("taxonomy")

\* A contact gets the label and loses the reference; without contacts left the
\* tag is retired.
TaxonomyAssign ==
    LET g == run["taxonomy"].item IN
    /\ At("taxonomy", "assign")
    /\ \/ run["taxonomy"].seen = {} /\ Proceeds("taxonomy", "retire") /\ UNCHANGED contact
       \/ \E c \in run["taxonomy"].seen :
            /\ \A d \in run["taxonomy"].seen : c <= d
            /\ contact' = [contact EXCEPT ![c].badges = @ \cup {g}]
            /\ Proceeds("taxonomy", "pull")
    /\ UNCHANGED <<label, tag, touched, slips>> /\ Others("taxonomy")

TaxonomyPull ==
    LET g == run["taxonomy"].item
        c == CHOOSE x \in run["taxonomy"].seen : \A d \in run["taxonomy"].seen : x <= d IN
    /\ At("taxonomy", "pull")
    /\ \/ contact' = [contact EXCEPT ![c].tags = @ \ {g}] /\ Sure
       \/ Slip /\ UNCHANGED contact
    /\ run' = [run EXCEPT !["taxonomy"] = [@ EXCEPT !.pc = "assign", !.seen = run["taxonomy"].seen \ {c}]]
    /\ UNCHANGED <<label, tag, touched>> /\ Others("taxonomy")

TaxonomyRetire ==
    /\ At("taxonomy", "retire")
    /\ tag' = [tag EXCEPT ![run["taxonomy"].item] = "retired"]
    /\ Proceeds("taxonomy", "next")
    /\ UNCHANGED <<contact, label, touched, slips>> /\ Others("taxonomy")

\* All handled, or killed; a command can be run again.
End(k) ==
    /\ run[k].pc # "idle"
    /\ \/ run[k].pc = "next" /\ run[k].todo = {} /\ Sure
       \/ Slip
    /\ run' = [run EXCEPT ![k] = Waiting]
    /\ UNCHANGED <<contact, label, tag, touched>> /\ Others(k)

ContactsNext ==
    \/ \E t \in Tenants, e \in Emails :
         CreateUser(t, e) \/ \E r \in Requests : RegisterCheck(r, t, e)
    \/ \E r \in Requests : RegisterInsert(r) \/ DeleteBadgeMark(r)
    \/ \E c \in Rows :
         \/ \E e \in Emails : UpdateUser(c, e)
         \/ DeleteUser(c)
         \/ \E b \in Badges \cup Tags : AssignBadge(c, b) \/ RemoveBadge(c, b)
         \/ \E t \in Tenants : LegacyWrite(c, t)
    \/ \E t \in Tenants : DeleteAllUsers(t)
    \/ \E b \in Badges : EditOffer(b) \/ \E r \in Requests : DeleteBadgeCheck(r, b)
    \/ DedupeScan \/ DedupeUnion \/ DedupeMark \/ \E x \in run["dedupe"].todo : DedupeRead(x)
    \/ TenancyScan \/ \E x \in run["tenancy"].todo : TenancyRow(x)
    \/ TaxonomyScan \/ \E g \in Tags : TaxonomyLabel(g)
    \/ TaxonomyContacts \/ TaxonomyAssign \/ TaxonomyPull \/ TaxonomyRetire
    \/ \E k \in Commands : End(k)

ContactsSpec == ContactsInit /\ [][ContactsNext]_contactVars

--------------------------------------------------------------------------------
(* Properties *)

\* "Access is never lost" to a merge (dedupe-contacts/main.go:5): unless an
\* editor was at one of the two rows in between or a write failed, the row that
\* stays is live and holds every badge of the row that goes.
MergeKeepsAccess ==
    [][\A x \in {run["dedupe"].item} :
         At("dedupe", "mark") /\ slips' = 0 /\ {x[1], x[2]} \cap touched = {}
           /\ contact'[x[1]].deleted /\ ~contact[x[1]].deleted
         => /\ Live(x[2]) /\ Alike(x[1], x[2])
            /\ contact[x[1]].badges \subseteq contact[x[2]].badges]_contactVars

\* "A concurrent contact update cannot be overwritten" and "no ownership
\* information is destroyed" (reconcile-contact-tenancy/main.go:8): no owner is
\* ever replaced, and the legacy owner goes only when it is the owner.
OwnershipIsKept ==
    [][\A c \in Rows : contact[c].there =>
         /\ contact[c].tenant # Nil => contact'[c].tenant = contact[c].tenant
         /\ contact[c].legacy # Nil /\ contact'[c].legacy = Nil
              => contact'[c].tenant = contact[c].legacy]_contactVars

\* The taxonomy migration can be killed anywhere and run again: a contact that
\* loses a reference to a tag holds its label, unless an editor took it away.
TagsBecomeLabels ==
    [][\A c \in Rows : \A g \in contact[c].tags \ contact'[c].tags :
         g \in contact'[c].badges \/ c \in touched]_contactVars

\* "Deletion is blocked while the badge is still referenced" (story.go:987), as
\* far as nobody assigns it or names it in an offer meanwhile.
DeletedBadgesAreUnreferenced ==
    [][\A b \in Badges : badge[b] = "live" /\ badge'[b] = "deleted" /\ b \notin touched
         => Holders(b) = {} /\ b \notin offers]_contactVars

\* None of the three takes away what somebody still needs: an owner, a tag's
\* place in a contact, a badge.
NothingInUseIsLost == OwnershipIsKept /\ TagsBecomeLabels /\ DeletedBadgesAreUnreferenced

\* Once the duplicates were merged the index can be built (dedupe-contacts/
\* main.go:2).  It cannot: the rows merely marked as deleted are still in it.
IndexBuildsAfterDedupe ==
    At("dedupe", "next") /\ run["dedupe"].todo = {} /\ touched = {} /\ slips = 0 =>
      \A c, d \in Rows : contact[c].there /\ contact[d].there /\ Alike(c, d) => c = d
================================================================================
