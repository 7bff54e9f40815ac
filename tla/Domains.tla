-------------------------------- MODULE Domains --------------------------------
(* Website domains (routes/tenant_domains.go) and sending domains             *)
(* (routes/sending_domains_tenant.go, sending_domain_provision.go,            *)
(* domains.go): host claims, soft deletion, verification, and the mail        *)
(* sidecar that signs for a domain.                                           *)
(*                                                                            *)
(* One action is what a request does up to and including one access to Mongo  *)
(* or one call of the sidecar.  Rows bear the name of the request that        *)
(* inserted them.  What DNS answers is a free choice.  Host claims, the       *)
(* sidecar and the plan's cap on domains are external.                        *)
EXTENDS Integers, Sequences, FiniteSets

CONSTANTS
    Calls,       \* requests
    Tenants,
    Hosts,       \* host names of websites
    Zones,       \* domains mail is sent from
    Parent,      \* registrable parent of a host; None for dev and shared hosts
    None,
    Operations,  \* operations the requests of an instance may be
    Apart,       \* pairs of operations whose requests never overlap
    MaxFaults    \* bound on failed writes, failed sidecar calls and crashes

AllOperations == {"add", "delete", "adopt", "verify", "addSending", "deleteSending",
                  "verifySending", "pause", "resume", "settings"}

ASSUME DomainConstants ==
    /\ None \notin Calls \cup Tenants \cup Hosts \cup Zones \cup AllOperations
    /\ Parent \in [Hosts -> Zones \cup {None}]
    /\ Operations \subseteq AllOperations
    /\ Apart \subseteq AllOperations \X AllOperations
    /\ MaxFaults \in Nat

VARIABLES
    site,     \* tenant_domains
    claim,    \* host claims: the row a host is claimed for
    sending,  \* sending_domains
    sidecar,  \* the row whose key the sidecar signs a zone's mail with
    held,     \* zones whose queue the sidecar holds
    from,     \* tenants: mailgun_domain, the default from-domain
    call,     \* where each request is
    faults

vars == <<site, claim, sending, sidecar, held, from, call, faults>>
rows == <<site, claim, sending, sidecar, held, from>>

Sites == [tenant : Tenants, host : Hosts, live : BOOLEAN, verified : BOOLEAN]
NoSite == [tenant |-> None, host |-> None, live |-> FALSE, verified |-> FALSE]
SendingRows == [tenant : Tenants, zone : Zones, live : BOOLEAN,
                status : {"pending_dns", "active", "paused"}]
NoSending == [tenant |-> None, zone |-> None, live |-> FALSE, status |-> "pending_dns"]
Idle == [pc |-> "new", op |-> None, tenant |-> None, host |-> None, zone |-> None,
         row |-> None, copy |-> NoSending, verified |-> FALSE, synced |-> FALSE]
Steps == {"new", "claim", "insert", "release", "mark", "oust", "adopt", "verify",
          "provision", "sidecar", "save", "unsidecar", "forget", "hold", "write", "from", "done"}

TypeOK ==
    /\ site \in [Calls -> Sites \cup {NoSite}]
    /\ claim \in [Hosts -> Calls \cup {None}]
    /\ sending \in [Calls -> SendingRows \cup {NoSending}]
    /\ sidecar \in [Zones -> Calls \cup {None}]
    /\ held \subseteq Zones
    /\ from \in [Tenants -> Zones \cup {None}]
    /\ \A c \in Calls :
         /\ call[c].pc \in Steps
         /\ call[c].pc \in {"claim", "insert", "release", "oust", "adopt"} => call[c].host \in Hosts
         /\ call[c].pc \in {"mark", "release", "verify"} => site[call[c].row] # NoSite \/ call[c].row = c
         /\ call[c].pc \in {"provision", "sidecar", "save", "unsidecar", "from"} =>
              call[c].zone \in Zones
         /\ call[c].pc = "write" => call[c].copy \in SendingRows /\ sending[call[c].row] # NoSending
    /\ faults \in 0 .. MaxFaults

Init ==
    /\ site = [c \in Calls |-> NoSite]
    /\ claim = [h \in Hosts |-> None]
    /\ sending = [c \in Calls |-> NoSending]
    /\ sidecar = [z \in Zones |-> None]
    /\ held = {}
    /\ from = [t \in Tenants |-> None]
    /\ call = [c \in Calls |-> Idle]
    /\ faults = 0

--------------------------------------------------------------------------------
(* Helpers *)

Running(c) == call[c].pc \notin {"new", "done"}
Quiet == \A c \in Calls : ~Running(c)
Begins(c, op) ==
    /\ call[c].pc = "new"
    /\ op \in Operations
    /\ \A d \in Calls : Running(d) => {<<op, call[d].op>>, <<call[d].op, op>>} \cap Apart = {}

At(c, pc) == call[c].pc = pc
Goto(c, pc) == call' = [call EXCEPT ![c].pc = pc]
Finish(c) == Goto(c, "done")

Works == UNCHANGED faults
Fails == faults < MaxFaults /\ faults' = faults + 1

LiveSites(h) == {i \in Calls : site[i].live /\ site[i].host = h}
LiveSending(t, z) == {i \in Calls : /\ sending[i].live
                                    /\ sending[i].tenant = t /\ sending[i].zone = z}

--------------------------------------------------------------------------------
(* Website domains *)

AddCheck(c) ==
    /\ Begins(c, "add")
    /\ \E t \in Tenants, h \in Hosts :
         /\ LiveSites(h) = {}
         /\ call' = [call EXCEPT ![c] = [Idle EXCEPT !.pc = "claim", !.op = "add",
                                           !.tenant = t, !.host = h, !.row = c]]
    /\ UNCHANGED <<rows, faults>>

AddClaimUpsert(c) ==
    LET h == call[c].host IN
    /\ At(c, "claim")
    /\ \/ claim' = [claim EXCEPT ![h] = c] /\ Goto(c, "insert") /\ Works
       \/ Fails /\ Finish(c) /\ UNCHANGED claim
    /\ UNCHANGED <<site, sending, sidecar, held, from>>

\* publicchannel.ClaimHost: one claim per host.
AddClaim(c) ==
    LET h == call[c].host IN
    /\ At(c, "claim")
    /\ \/ /\ claim[h] = None
          /\ claim' = [claim EXCEPT ![h] = c]
          /\ Goto(c, "insert")
          /\ Works
       \/ /\ (claim[h] # None /\ Works) \/ Fails
          /\ Finish(c)
          /\ UNCHANGED claim
    /\ UNCHANGED <<site, sending, sidecar, held, from>>

\* The last step of adding and of adopting; a verified adoption provisions the
\* zone of the host, in a goroutine.
InsertSite(c) ==
    LET k == call[c] IN
    /\ At(c, "insert")
    /\ \/ /\ site' = [site EXCEPT ![c] = [tenant |-> k.tenant, host |-> k.host,
                                           live |-> TRUE, verified |-> k.verified]]
          /\ IF k.verified /\ Parent[k.host] # None
             THEN call' = [call EXCEPT ![c].pc = "provision", ![c].zone = Parent[k.host]]
             ELSE Finish(c)
          /\ Works
       \/ Fails /\ Goto(c, "release") /\ UNCHANGED site
    /\ UNCHANGED <<claim, sending, sidecar, held, from>>

\* publicchannel.ReleaseHost gives up the claim for this row, no other; its
\* error is ignored.
ReleaseClaim(c) ==
    LET k == call[c] IN
    /\ At(c, "release")
    /\ \/ claim' = [claim EXCEPT ![k.host] = IF @ = k.row THEN None ELSE @] /\ Works
       \/ Fails /\ UNCHANGED claim
    /\ Finish(c)
    /\ UNCHANGED <<site, sending, sidecar, held, from>>

\* The row is found deleted or not.
DeleteFind(c) ==
    /\ Begins(c, "delete")
    /\ \E i \in Calls :
         /\ site[i] # NoSite
         /\ call' = [call EXCEPT ![c] = [Idle EXCEPT !.pc = "mark", !.op = "delete",
                                           !.row = i, !.host = site[i].host]]
    /\ UNCHANGED <<rows, faults>>

DeleteMark(c) ==
    /\ At(c, "mark")
    /\ \/ site' = [site EXCEPT ![call[c].row].live = FALSE] /\ Goto(c, "release") /\ Works
       \/ Fails /\ Finish(c) /\ UNCHANGED site
    /\ UNCHANGED <<claim, sending, sidecar, held, from>>

\* The end-to-end hook: nothing to do when the tenant has the host.
AdoptFind(c) ==
    /\ Begins(c, "adopt")
    /\ \E t \in Tenants, h \in Hosts, v \in BOOLEAN :
         /\ \A i \in LiveSites(h) : site[i].tenant # t
         /\ call' = [call EXCEPT ![c] = [Idle EXCEPT !.pc = "oust", !.op = "adopt",
                                           !.tenant = t, !.host = h, !.row = c, !.verified = v]]
    /\ UNCHANGED <<rows, faults>>

AdoptOust(c) ==
    /\ At(c, "oust")
    /\ \/ /\ site' = [i \in Calls |->
                        IF i \in LiveSites(call[c].host) /\ site[i].tenant # call[c].tenant
                        THEN [site[i] EXCEPT !.live = FALSE] ELSE site[i]]
          /\ Goto(c, "adopt")
          /\ Works
       \/ Fails /\ Finish(c) /\ UNCHANGED site
    /\ UNCHANGED <<claim, sending, sidecar, held, from>>

\* publicchannel.AdoptHostForE2E takes the claim over.
AdoptClaim(c) ==
    /\ At(c, "adopt")
    /\ \/ claim' = [claim EXCEPT ![call[c].host] = c] /\ Goto(c, "insert") /\ Works
       \/ Fails /\ Finish(c) /\ UNCHANGED claim
    /\ UNCHANGED <<site, sending, sidecar, held, from>>

\* The row is found, deleted or not, and its challenge seen in DNS.
VerifyFind(c) ==
    /\ Begins(c, "verify")
    /\ \E i \in Calls :
         /\ site[i] # NoSite
         /\ call' = [call EXCEPT ![c] = [Idle EXCEPT !.pc = "verify", !.op = "verify",
                                           !.tenant = site[i].tenant, !.row = i]]
    /\ UNCHANGED <<rows, faults>>

VerifyMarkShared(c) ==
    LET i == call[c].row IN
    /\ At(c, "verify")
    /\ site' = [site EXCEPT ![i].verified = TRUE]
    /\ call' = [call EXCEPT ![c].pc = "provision", ![c].zone = Parent[site[i].host]]
    /\ Works
    /\ UNCHANGED <<claim, sending, sidecar, held, from>>

VerifyMark(c) ==
    LET i == call[c].row  z == Parent[site[i].host] IN
    /\ At(c, "verify")
    /\ \/ /\ site' = [site EXCEPT ![i].verified = TRUE]
          /\ IF z = None THEN Finish(c)
             ELSE call' = [call EXCEPT ![c].pc = "provision", ![c].zone = z]
          /\ Works
       \/ Fails /\ Finish(c) /\ UNCHANGED site
    /\ UNCHANGED <<claim, sending, sidecar, held, from>>

--------------------------------------------------------------------------------
(* Sending domains *)

AddSendingCheck(c) ==
    /\ Begins(c, "addSending")
    /\ \E t \in Tenants, z \in Zones :
         /\ LiveSending(t, z) = {}
         /\ call' = [call EXCEPT ![c] = [Idle EXCEPT !.pc = "provision", !.op = "addSending",
                                           !.tenant = t, !.zone = z]]
    /\ UNCHANGED <<rows, faults>>

ProvisionAnew(c) ==
    /\ At(c, "provision")
    /\ Goto(c, "sidecar")
    /\ UNCHANGED <<rows, faults>>

\* A live row for the tenant and the zone is returned as it is; otherwise a key
\* is made for a new one.
ProvisionFind(c) ==
    /\ At(c, "provision")
    /\ IF LiveSending(call[c].tenant, call[c].zone) = {} THEN Goto(c, "sidecar") ELSE Finish(c)
    /\ UNCHANGED <<rows, faults>>

\* Without an answer of the sidecar within 10 seconds, whether it got the key or
\* not, the row is saved anyway, to be synchronised later.
ProvisionSidecar(c) ==
    /\ At(c, "sidecar")
    /\ \E put, ok \in BOOLEAN :
         /\ IF put THEN sidecar' = [sidecar EXCEPT ![call[c].zone] = c] ELSE UNCHANGED sidecar
         /\ IF ok THEN put /\ Works ELSE Fails
         /\ call' = [call EXCEPT ![c].pc = "save", ![c].synced = ok]
    /\ UNCHANGED <<site, claim, sending, held, from>>

ProvisionSave(c) ==
    LET k == call[c] IN
    /\ At(c, "save")
    /\ \/ /\ sending' = [sending EXCEPT ![c] = [tenant |-> k.tenant, zone |-> k.zone,
                                                 live |-> TRUE, status |-> "pending_dns"]]
          /\ Finish(c)
          /\ Works
       \/ /\ Fails
          /\ Goto(c, IF k.synced THEN "unsidecar" ELSE "done")
          /\ UNCHANGED sending
    /\ UNCHANGED <<site, claim, sidecar, held, from>>

\* The sidecar knows a domain by its name alone, and drops its queue with it.
Forget(c, next) ==
    /\ \/ /\ sidecar' = [sidecar EXCEPT ![call[c].zone] = None]
          /\ held' = held \ {call[c].zone}
          /\ Works
       \/ Fails /\ UNCHANGED <<sidecar, held>>
    /\ Goto(c, next)
    /\ UNCHANGED <<site, claim, sending, from>>

ProvisionUndo(c) == At(c, "unsidecar") /\ Forget(c, "done")

\* The live row of a tenant, read as a whole.
Find(c, op, pc, i, copy) ==
    /\ Begins(c, op)
    /\ sending[i].live
    /\ call' = [call EXCEPT ![c] = [Idle EXCEPT !.pc = pc, !.op = op, !.row = i,
                                      !.tenant = sending[i].tenant, !.zone = sending[i].zone,
                                      !.copy = copy]]
    /\ UNCHANGED <<rows, faults>>

DeleteSendingFind(c) ==
    \E i \in Calls : Find(c, "deleteSending", "forget", i, [sending[i] EXCEPT !.live = FALSE])

DeleteSendingForget(c) == At(c, "forget") /\ Forget(c, "write")

\* DNS shows the key: a pending row becomes active.
VerifySendingFind(c) ==
    \E i \in Calls :
      /\ sending[i].status = "pending_dns"
      /\ Find(c, "verifySending", "write", i, [sending[i] EXCEPT !.status = "active"])

PauseFind(c) ==
    \E i \in Calls : Find(c, "pause", "hold", i, [sending[i] EXCEPT !.status = "paused"])

ResumeFind(c) ==
    \E i \in Calls : Find(c, "resume", "hold", i, [sending[i] EXCEPT !.status = "active"])

\* The sidecar holds or releases the queue first; a refusal ends the request.
Hold(c) ==
    LET z == call[c].zone IN
    /\ At(c, "hold")
    /\ \/ /\ held' = IF call[c].op = "pause" THEN held \cup {z} ELSE held \ {z}
          /\ Goto(c, "write")
          /\ Works
       \/ Fails /\ Finish(c) /\ UNCHANGED held
    /\ UNCHANGED <<site, claim, sending, sidecar, from>>

\* UpdateId with the whole row as it was read.
WriteBack(c) ==
    /\ At(c, "write")
    /\ \/ sending' = [sending EXCEPT ![call[c].row] = call[c].copy] /\ Works
       \/ Fails /\ UNCHANGED sending
    /\ Goto(c, IF call[c].op = "verifySending" THEN "from" ELSE "done")
    /\ UNCHANGED <<site, claim, sidecar, held, from>>

\* MaybeSetTenantFromDomain, by compare-and-set on an empty field.
SetFrom(c) ==
    /\ At(c, "from")
    /\ \/ /\ from' = [from EXCEPT ![call[c].tenant] = IF @ = None THEN call[c].zone ELSE @]
          /\ Works
       \/ Fails /\ UNCHANGED from
    /\ Finish(c)
    /\ UNCHANGED <<site, claim, sending, sidecar, held>>

\* The tenant names a from-domain of its own among its settings.
UpdateSettings(c) ==
    /\ Begins(c, "settings")
    /\ \E t \in Tenants, z \in Zones :
         /\ from' = [from EXCEPT ![t] = z]
         /\ call' = [call EXCEPT ![c] = [Idle EXCEPT !.pc = "done", !.op = "settings", !.tenant = t]]
    /\ UNCHANGED <<site, claim, sending, sidecar, held, faults>>

--------------------------------------------------------------------------------

DomainCrash(c) ==
    /\ Running(c)
    /\ Fails
    /\ Finish(c)
    /\ UNCHANGED rows

Next ==
    \E c \in Calls :
      \/ AddCheck(c) \/ AddClaim(c) \/ InsertSite(c) \/ ReleaseClaim(c)
      \/ DeleteFind(c) \/ DeleteMark(c)
      \/ AdoptFind(c) \/ AdoptOust(c) \/ AdoptClaim(c)
      \/ VerifyFind(c) \/ VerifyMark(c)
      \/ AddSendingCheck(c) \/ ProvisionFind(c) \/ ProvisionSidecar(c) \/ ProvisionSave(c)
      \/ ProvisionUndo(c)
      \/ DeleteSendingFind(c) \/ DeleteSendingForget(c)
      \/ VerifySendingFind(c) \/ PauseFind(c) \/ ResumeFind(c) \/ Hold(c) \/ WriteBack(c) \/ SetFrom(c)
      \/ UpdateSettings(c)
      \/ DomainCrash(c)

Spec == Init /\ [][Next]_vars

--------------------------------------------------------------------------------
(* Properties *)

\* A live row holds the claim of its host, so nobody else can take it: a host
\* leads to one tenant (resolveTenantByHost takes any live row).
LiveSitesHoldTheClaim == \A i \in Calls : site[i].live => claim[site[i].host] = i

\* A host given up, or never taken, can be added again: without faults no claim
\* outlives the row it is for.
ClaimsAreReleased ==
    Quiet /\ faults = 0 => \A h \in Hosts : claim[h] # None => site[claim[h]].live

\* Whatever is added, deleted, adopted and verified at once, claims and rows agree.
ClaimsFollowSites == LiveSitesHoldTheClaim /\ ClaimsAreReleased

\* Without faults the sidecar signs with the key of the live row of a zone, the
\* one whose DNS records the tenant was told to publish, unless another tenant
\* configured the zone too.
SidecarSignsWithTheRowsKey ==
    Quiet /\ faults = 0 =>
      \A i \in Calls :
        /\ sending[i].live
        /\ \A j \in Calls : sending[j].zone = sending[i].zone => sending[j].tenant = sending[i].tenant
        => sidecar[sending[i].zone] = i

\* The status a tenant sees and the queue of its zone agree on a pause.
PauseHoldsTheQueue ==
    Quiet /\ faults = 0 =>
      \A i \in Calls :
        /\ sending[i].live
        /\ \A j \in Calls : sending[j].zone = sending[i].zone => sending[j].tenant = sending[i].tenant
        => (sending[i].status = "paused" <=> sending[i].zone \in held)

\* The sidecar and the row of a zone never drift apart, in key or in queue.
SidecarFollowsRows == SidecarSignsWithTheRowsKey /\ PauseHoldsTheQueue

\* A tenant keeps the from-domain it has, through the verification of another
\* zone as through its own choice ("Never overwrites an explicit choice").
FromIsKept ==
    [][\A t \in Tenants : from[t] # None /\ from'[t] # from[t] =>
         \E c \in Calls : call[c].pc = "new" /\ call'[c].op = "settings"]_vars

\* "Idempotent - an existing non-deleted row for (tenant, domain) is returned
\* as-is" (sending_domain_provision.go:18).
OneSendingRowPerZone == \A t \in Tenants, z \in Zones : Cardinality(LiveSending(t, z)) <= 1
================================================================================
