------------------------------ MODULE DomainsProofs ------------------------------
(* Website and sending domains, for any requests, tenants, hosts and zones:   *)
(* the types, that claims follow the rows of sites, that the mail sidecar     *)
(* follows the rows of sending domains, and that a from-domain is kept.       *)
EXTENDS Domains, TLAPS

Requests == [pc : Steps, op : Operations \cup {None}, tenant : Tenants \cup {None},
             host : Hosts \cup {None}, zone : Zones \cup {None}, row : Calls \cup {None},
             copy : SendingRows \cup {NoSending}, verified : BOOLEAN, synced : BOOLEAN]

HasSite(i) == site[i] # NoSite
HasSending(i) == sending[i] # NoSending

\* What a request holds on to at each step.
Fits(c) ==
    LET k == call[c] IN
    /\ k.pc = "new" => k.op = None
    /\ k.op = "add" => ~k.verified
    /\ k.pc \in {"claim", "insert", "oust", "adopt"} =>
         /\ k.op \in {"add", "adopt"} /\ k.row = c /\ ~HasSite(c)
         /\ k.host \in Hosts /\ k.tenant \in Tenants
    /\ k.pc \in {"oust", "adopt"} => k.op = "adopt"
    /\ k.pc \in {"mark", "release"} =>
         /\ k.row \in Calls /\ k.host \in Hosts
         /\ HasSite(k.row) => k.host = site[k.row].host
         /\ HasSite(k.row) \/ k.row = c
         /\ k.op \in {"add", "adopt", "delete"}
    /\ k.pc = "mark" => HasSite(k.row)
    /\ k.pc = "release" => ~site[k.row].live /\ (k.row = c => ~HasSite(c))
    /\ k.pc = "verify" => k.op = "verify" /\ k.row \in Calls /\ HasSite(k.row) /\ k.tenant \in Tenants
    /\ k.pc \in {"provision", "sidecar", "save", "unsidecar"} =>
         k.op \in {"adopt", "verify", "addSending"} /\ k.zone \in Zones /\ k.tenant \in Tenants
    /\ k.pc \in {"forget", "hold", "write", "from"} =>
         /\ k.op \in {"deleteSending", "verifySending", "pause", "resume"}
         /\ k.row \in Calls /\ HasSending(k.row) /\ k.zone \in Zones /\ k.tenant \in Tenants
         /\ sending[k.row].tenant = k.tenant /\ sending[k.row].zone = k.zone
         /\ k.copy \in SendingRows /\ k.copy.tenant = k.tenant /\ k.copy.zone = k.zone

\* A row is the work of the request it is named for.
OwnRows(c) ==
    /\ HasSite(c) => /\ call[c].op \in {"add", "adopt"} /\ site[c].host = call[c].host
                     /\ call[c].pc \notin {"new", "claim", "insert", "oust", "adopt", "mark", "verify"}
    /\ HasSending(c) => call[c].pc = "done"

DataOK ==
    /\ site \in [Calls -> Sites \cup {NoSite}]
    /\ claim \in [Hosts -> Calls \cup {None}]
    /\ sending \in [Calls -> SendingRows \cup {NoSending}]
    /\ sidecar \in [Zones -> Calls \cup {None}]
    /\ held \subseteq Zones
    /\ from \in [Tenants -> Zones \cup {None}]
    /\ faults \in 0 .. MaxFaults

TypeInv ==
    /\ DataOK
    /\ call \in [Calls -> Requests]
    /\ \A c \in Calls : Fits(c) /\ OwnRows(c)

--------------------------------------------------------------------------------
(* Claims *)

\* The end-to-end suite adopts a host while nothing else is under way.
AdoptsAlone == {"adopt"} \X AllOperations \subseteq Apart

Adopting(c) == call[c].op = "adopt" /\ Running(c)
AdoptersAlone == \A c, d \in Calls : Adopting(c) /\ Running(d) => c = d

\* What a request about a website knows of the claim and the live rows of its host.
Knows(c) ==
    LET k == call[c] IN
    /\ k.pc = "insert" => claim[k.host] = c
    /\ k.pc = "oust" => \A i \in Calls : site[i].live /\ site[i].host = k.host => site[i].tenant # k.tenant
    /\ k.pc = "adopt" => \A i \in Calls : ~(site[i].live /\ site[i].host = k.host)

\* A host is only ever claimed for the row of a request about it.
ClaimedBy(h) == claim[h] # None => call[claim[h]].host = h /\ call[claim[h]].op \in {"add", "adopt"}

ClaimInv ==
    /\ AdoptersAlone
    /\ LiveSitesHoldTheClaim
    /\ \A c \in Calls : Knows(c)
    /\ \A h \in Hosts : ClaimedBy(h)

\* A claim is for a live row, or on its way to one or to its release.
Claimed(h, i) ==
    \/ site[i].live
    \/ At(i, "insert")
    \/ \E d \in Calls : At(d, "release") /\ call[d].row = i /\ call[d].host = h
    \/ \E d \in Calls : At(d, "adopt") /\ call[d].host = h

ReleaseInv == faults = 0 => \A h \in Hosts, i \in Calls : claim[h] = i => Claimed(h, i)

--------------------------------------------------------------------------------
(* The sidecar *)

\* Requests about sending domains, which write whole rows back, do not overlap.
SendingOperations == {"verify", "adopt", "addSending", "deleteSending", "verifySending", "pause", "resume"}
SendingAlone == SendingOperations \X SendingOperations \subseteq Apart

Sending(c) == call[c].op \in SendingOperations /\ Running(c)
OneAtATime == \A c, d \in Calls : Sending(c) /\ Sending(d) => c = d

\* No other tenant configured the zone.
Sole(z, t) == \A j \in Calls : sending[j].zone = z => sending[j].tenant = t

Lives(i, t, z) == sending[i].live /\ sending[i].tenant = t /\ sending[i].zone = z
NoneLives(t, z) == \A i \in Calls : ~Lives(i, t, z)

Settled(z) ==
    \A t \in Tenants : Sole(z, t) =>
      /\ \A i \in Calls : Lives(i, t, z) => sidecar[z] = i /\ (sending[i].status = "paused" <=> z \in held)
      /\ NoneLives(t, z) => z \notin held

\* The row a request writes back.
Changed(op, row) ==
    CASE op = "deleteSending" -> [row EXCEPT !.live = FALSE]
      [] op = "pause" -> [row EXCEPT !.status = "paused"]
      [] OTHER -> [row EXCEPT !.status = "active"]

\* What a request about a sending domain knows of the zone it changes.
Minds(c) ==
    LET k == call[c]  z == k.zone  t == k.tenant IN
    /\ k.pc # "unsidecar"
    /\ k.pc = "forget" => k.op = "deleteSending"
    /\ k.pc = "hold" => k.op \in {"pause", "resume"}
    /\ k.pc \in {"sidecar", "save"} => NoneLives(t, z)
    /\ k.pc = "save" => sidecar[z] = c /\ (Sole(z, t) => z \notin held)
    /\ k.pc \in {"forget", "hold", "write"} =>
         sending[k.row].live /\ k.copy = Changed(k.op, sending[k.row])
    /\ k.pc = "write" /\ Sole(z, t) =>
         /\ IF k.op = "deleteSending" THEN \A i \in Calls : Lives(i, t, z) => i = k.row
            ELSE \A i \in Calls : Lives(i, t, z) => sidecar[z] = i
         /\ z \in held <=> k.op = "pause"

Busy(z) == \E c \in Calls : call[c].pc \in {"save", "write"} /\ call[c].zone = z

SidecarInv ==
    /\ OneAtATime
    /\ faults = 0 => /\ \A z \in Zones : Busy(z) \/ Settled(z)
                     /\ \A c \in Calls : Minds(c)
--------------------------------------------------------------------------------
(* What every step of a request keeps to *)

Moves(c, k) ==
    /\ call' \in [Calls -> Requests] /\ call'[c] = k
    /\ \A d \in Calls \ {c} : call'[d] = call[d]

\* A request that goes on is about what it was about.
GoesOn(c, k) ==
    /\ Moves(c, k)
    /\ k.op = call[c].op /\ k.tenant = call[c].tenant /\ k.host = call[c].host /\ k.row = call[c].row
    /\ k.copy = call[c].copy /\ k.verified = call[c].verified

LEMMA SetMoves ==
    ASSUME TypeInv, NEW c \in Calls, NEW k \in Requests, call' = [call EXCEPT ![c] = k]
    PROVE  Moves(c, k)
  BY DEF TypeInv, Moves

LEMMA GotoMoves ==
    ASSUME TypeInv, NEW c \in Calls, NEW p \in Steps, Goto(c, p)
    PROVE  \E k \in Requests : /\ GoesOn(c, k) /\ k.pc = p /\ k.zone = call[c].zone
                               /\ k.synced = call[c].synced
<1> DEFINE k == [call[c] EXCEPT !.pc = p]
<1>1. /\ k \in Requests /\ k.pc = p /\ k.op = call[c].op /\ k.tenant = call[c].tenant
      /\ k.host = call[c].host /\ k.zone = call[c].zone /\ k.row = call[c].row
      /\ k.copy = call[c].copy /\ k.verified = call[c].verified /\ k.synced = call[c].synced
  BY DEF TypeInv, Requests
<1>2. call' = [call EXCEPT ![c] = k]
  BY DEF Goto
<1> HIDE DEF k
<1> QED
  BY <1>1, <1>2, SetMoves DEF GoesOn

LEMMA ProvisionMoves ==
    ASSUME TypeInv, NEW c \in Calls, NEW z \in Zones,
           call' = [call EXCEPT ![c].pc = "provision", ![c].zone = z]
    PROVE  \E k \in Requests : GoesOn(c, k) /\ k.pc = "provision" /\ k.zone = z
<1> DEFINE k == [call[c] EXCEPT !.pc = "provision", !.zone = z]
<1>1. /\ k \in Requests /\ k.pc = "provision" /\ k.op = call[c].op /\ k.tenant = call[c].tenant
      /\ k.host = call[c].host /\ k.zone = z /\ k.row = call[c].row
      /\ k.copy = call[c].copy /\ k.verified = call[c].verified
  <2>1. call[c] \in Requests
    BY DEF TypeInv
  <2>2. "provision" \in Steps
    BY DEF Steps
  <2>3. k \in Requests
    BY <2>1, <2>2 DEF Requests
  <2>4. /\ k.pc = "provision" /\ k.op = call[c].op /\ k.tenant = call[c].tenant
        /\ k.host = call[c].host /\ k.zone = z /\ k.row = call[c].row
        /\ k.copy = call[c].copy /\ k.verified = call[c].verified
    BY <2>1 DEF Requests
  <2> QED
    BY <2>3, <2>4
<1>2. call' = [call EXCEPT ![c] = k]
  OBVIOUS
<1> HIDE DEF k
<1> QED
  BY <1>1, <1>2, SetMoves DEF GoesOn

LEMMA IdleType ==
    /\ Idle \in Requests /\ Idle.pc = "new" /\ Idle.op = None /\ Idle.verified = FALSE
    /\ Idle.copy = NoSending
  BY DEF Idle, Requests, Steps

\* What begins was not there before.
LEMMA Beginning ==
    ASSUME TypeInv, NEW c \in Calls, NEW op, Begins(c, op)
    PROVE  /\ op \in Operations /\ op # None /\ call[c].pc = "new" /\ call[c].op = None
           /\ ~HasSite(c) /\ ~HasSending(c) /\ ~Running(c)
  BY DomainConstants DEF Begins, TypeInv, Fits, OwnRows, Running

\* A row stays what it was about; a site that was deleted stays so.
SameSite(i) ==
    /\ HasSite(i)' <=> HasSite(i)
    /\ site'[i].tenant = site[i].tenant /\ site'[i].host = site[i].host
    /\ site'[i].live => site[i].live
SameSending(i) ==
    /\ HasSending(i)' <=> HasSending(i)
    /\ sending'[i].tenant = sending[i].tenant /\ sending'[i].zone = sending[i].zone

\* c only inserts rows of its own.
Spares(c) ==
    /\ \A i \in Calls : SameSite(i) \/ (i = c /\ At(c, "insert"))
    /\ \A i \in Calls : SameSending(i) \/ (i = c /\ At(c, "save"))

LEMMA TypeStep ==
    ASSUME TypeInv, NEW c \in Calls, NEW k \in Requests, Moves(c, k), DataOK', Spares(c),
           Fits(c)', OwnRows(c)'
    PROVE  TypeInv'
<1>1. ASSUME NEW d \in Calls \ {c} PROVE Fits(d)' /\ OwnRows(d)'
  <2>1. Fits(d) /\ OwnRows(d) /\ call'[d] = call[d] /\ SameSite(d) /\ SameSending(d)
    BY DEF TypeInv, Moves, Spares
  <2>2. \A i \in Calls : HasSite(i) => SameSite(i)
    BY DEF TypeInv, Fits, Spares, At
  <2>3. \A i \in Calls : HasSending(i) => SameSending(i)
    BY DEF TypeInv, OwnRows, Spares, At
  <2>4. OwnRows(d)'
    BY <2>1 DEF OwnRows, SameSite, SameSending, HasSite, HasSending
  <2>5. call[d].pc \in {"claim", "insert", "oust", "adopt"} => ~HasSite(d)'
    BY <2>1 DEF Fits, SameSite
  <2>6. call[d].pc \in {"mark", "release"} =>
          /\ HasSite(call[d].row)' => call[d].host = site'[call[d].row].host
          /\ HasSite(call[d].row)' \/ call[d].row = d
          /\ HasSite(call[d].row) => HasSite(call[d].row)'
    BY <2>1, <2>2 DEF Fits, SameSite
  <2>7. call[d].pc = "release" => ~site'[call[d].row].live /\ (call[d].row = d => ~HasSite(d)')
    BY <2>1, <2>2 DEF Fits, SameSite
  <2>8. call[d].pc = "verify" => HasSite(call[d].row)'
    BY <2>1, <2>2 DEF Fits, SameSite
  <2>9. call[d].pc \in {"forget", "hold", "write", "from"} =>
          /\ HasSending(call[d].row)'
          /\ sending'[call[d].row].tenant = sending[call[d].row].tenant
          /\ sending'[call[d].row].zone = sending[call[d].row].zone
    BY <2>1, <2>3 DEF Fits, SameSending
  <2>10. Fits(d)'
    BY <2>1, <2>5, <2>6, <2>7, <2>8, <2>9 DEF Fits
  <2> QED
    BY <2>4, <2>10
<1> QED
  BY <1>1 DEF TypeInv, Moves

\* A step that touches no site and no sending domain.
LEMMA RestsType ==
    ASSUME TypeInv, NEW c \in Calls, NEW k \in Requests, Moves(c, k), DataOK', UNCHANGED <<site, sending>>,
           Fits(c)', HasSite(c) => k.op = call[c].op /\ k.host = call[c].host
                                   /\ k.pc \in {"done", "release", "provision", "sidecar", "save", "unsidecar"},
           HasSending(c) => k.pc = "done"
    PROVE  TypeInv'
<1>1. Spares(c)
  BY DEF Spares, SameSite, SameSending, HasSite, HasSending
<1>2. OwnRows(c)'
  BY DEF TypeInv, OwnRows, Moves, HasSite, HasSending
<1> QED
  BY <1>1, <1>2, TypeStep

LEMMA FaultsType ==
    ASSUME faults \in 0 .. MaxFaults, Works \/ Fails
    PROVE  faults' \in 0 .. MaxFaults /\ (faults' = 0 => faults = 0 /\ Works /\ ~Fails)
  BY DomainConstants DEF Works, Fails

--------------------------------------------------------------------------------
(* What the steps of a request do with its place *)

\* Each begins with a record of its own.
Starts(c, k, op) ==
    /\ Moves(c, k) /\ k.op = op
    /\ op \in Operations /\ call[c].pc = "new" /\ call[c].op = None
    /\ ~HasSite(c) /\ ~HasSending(c) /\ ~Running(c)
    /\ \A d \in Calls : Running(d) => {<<op, call[d].op>>, <<call[d].op, op>>} \cap Apart = {}

LEMMA StartMoves ==
    ASSUME TypeInv, NEW c \in Calls, NEW op, Begins(c, op), NEW k \in Requests, k.op = op,
           call' = [call EXCEPT ![c] = k]
    PROVE  Starts(c, k, op)
  BY SetMoves, Beginning DEF Starts, Begins

LEMMA AddCheckMoves ==
    ASSUME TypeInv, NEW c \in Calls, AddCheck(c)
    PROVE  \E k \in Requests :
             /\ Starts(c, k, "add") /\ k.pc = "claim" /\ k.tenant \in Tenants /\ k.host \in Hosts
             /\ k.row = c /\ ~k.verified
<1>1. PICK t \in Tenants, h \in Hosts :
        call' = [call EXCEPT ![c] = [Idle EXCEPT !.pc = "claim", !.op = "add",
                                       !.tenant = t, !.host = h, !.row = c]]
  BY DEF AddCheck
<1> DEFINE k == [Idle EXCEPT !.pc = "claim", !.op = "add", !.tenant = t, !.host = h, !.row = c]
<1>2. Begins(c, "add") /\ "add" \in Operations
  BY Beginning DEF AddCheck
<1>3. /\ k \in Requests /\ k.op = "add" /\ k.pc = "claim" /\ k.tenant = t /\ k.host = h /\ k.row = c
      /\ ~k.verified
  BY <1>2 DEF Idle, Requests, Steps
<1>4. call' = [call EXCEPT ![c] = k]
  BY <1>1
<1> HIDE DEF k
<1> QED
  BY <1>2, <1>3, <1>4, StartMoves

LEMMA AdoptFindMoves ==
    ASSUME TypeInv, NEW c \in Calls, AdoptFind(c)
    PROVE  \E k \in Requests :
             /\ Starts(c, k, "adopt") /\ k.pc = "oust" /\ k.tenant \in Tenants /\ k.host \in Hosts
             /\ k.row = c /\ \A i \in LiveSites(k.host) : site[i].tenant # k.tenant
<1>1. PICK t \in Tenants, h \in Hosts, v \in BOOLEAN :
        /\ \A i \in LiveSites(h) : site[i].tenant # t
        /\ call' = [call EXCEPT ![c] = [Idle EXCEPT !.pc = "oust", !.op = "adopt",
                                          !.tenant = t, !.host = h, !.row = c, !.verified = v]]
  BY DEF AdoptFind
<1> DEFINE k == [Idle EXCEPT !.pc = "oust", !.op = "adopt", !.tenant = t, !.host = h, !.row = c,
                             !.verified = v]
<1>2. Begins(c, "adopt") /\ "adopt" \in Operations
  BY Beginning DEF AdoptFind
<1>3. k \in Requests /\ k.op = "adopt" /\ k.pc = "oust" /\ k.tenant = t /\ k.host = h /\ k.row = c
  BY <1>2 DEF Idle, Requests, Steps
<1>4. call' = [call EXCEPT ![c] = k]
  BY <1>1
<1> HIDE DEF k
<1> QED
  BY <1>1, <1>2, <1>3, <1>4, StartMoves

LEMMA DeleteFindMoves ==
    ASSUME TypeInv, NEW c \in Calls, DeleteFind(c)
    PROVE  \E k \in Requests :
             /\ Starts(c, k, "delete") /\ k.pc = "mark" /\ k.row \in Calls /\ HasSite(k.row)
             /\ k.host = site[k.row].host /\ k.host \in Hosts
<1>1. PICK i \in Calls :
        /\ site[i] # NoSite
        /\ call' = [call EXCEPT ![c] = [Idle EXCEPT !.pc = "mark", !.op = "delete",
                                          !.row = i, !.host = site[i].host]]
  BY DEF DeleteFind
<1> DEFINE h == site[i].host k == [Idle EXCEPT !.pc = "mark", !.op = "delete", !.row = i, !.host = h]
<1>2. Begins(c, "delete") /\ "delete" \in Operations /\ HasSite(i)
  BY <1>1, Beginning DEF DeleteFind, HasSite
<1>3. h \in Hosts
  BY <1>1 DEF TypeInv, DataOK, Sites
<1>4. call' = [call EXCEPT ![c] = k]
  BY <1>1
<1>5. k \in Requests /\ k.op = "delete" /\ k.pc = "mark" /\ k.row = i /\ k.host = h
  <2> HIDE DEF h
  <2> QED
    BY <1>2, <1>3 DEF Idle, Requests, Steps
<1> HIDE DEF k
<1>6. Starts(c, k, "delete")
  BY <1>2, <1>4, <1>5, StartMoves
<1> QED
  BY <1>2, <1>3, <1>5, <1>6

LEMMA VerifyFindMoves ==
    ASSUME TypeInv, NEW c \in Calls, VerifyFind(c)
    PROVE  \E k \in Requests :
             /\ Starts(c, k, "verify") /\ k.pc = "verify" /\ k.row \in Calls /\ HasSite(k.row)
             /\ k.tenant \in Tenants
<1>1. PICK i \in Calls :
        /\ site[i] # NoSite
        /\ call' = [call EXCEPT ![c] = [Idle EXCEPT !.pc = "verify", !.op = "verify",
                                          !.tenant = site[i].tenant, !.row = i]]
  BY DEF VerifyFind
<1> DEFINE t == site[i].tenant
           k == [Idle EXCEPT !.pc = "verify", !.op = "verify", !.tenant = t, !.row = i]
<1>2. Begins(c, "verify") /\ "verify" \in Operations /\ HasSite(i)
  BY <1>1, Beginning DEF VerifyFind, HasSite
<1>3. t \in Tenants
  BY <1>1 DEF TypeInv, DataOK, Sites
<1>4. call' = [call EXCEPT ![c] = k]
  BY <1>1
<1>5. k \in Requests /\ k.op = "verify" /\ k.pc = "verify" /\ k.row = i /\ k.tenant = t
  <2> HIDE DEF t
  <2> QED
    BY <1>2, <1>3 DEF Idle, Requests, Steps
<1> HIDE DEF k, t
<1> QED
  BY <1>2, <1>3, <1>4, <1>5, StartMoves

LEMMA AddSendingCheckMoves ==
    ASSUME TypeInv, NEW c \in Calls, AddSendingCheck(c)
    PROVE  \E k \in Requests :
             /\ Starts(c, k, "addSending") /\ k.pc = "provision" /\ k.tenant \in Tenants /\ k.zone \in Zones
<1>1. PICK t \in Tenants, z \in Zones :
        call' = [call EXCEPT ![c] = [Idle EXCEPT !.pc = "provision", !.op = "addSending",
                                       !.tenant = t, !.zone = z]]
  BY DEF AddSendingCheck
<1> DEFINE k == [Idle EXCEPT !.pc = "provision", !.op = "addSending", !.tenant = t, !.zone = z]
<1>2. Begins(c, "addSending") /\ "addSending" \in Operations
  BY Beginning DEF AddSendingCheck
<1>3. k \in Requests /\ k.op = "addSending" /\ k.pc = "provision" /\ k.tenant = t /\ k.zone = z
  BY <1>2 DEF Idle, Requests, Steps
<1>4. call' = [call EXCEPT ![c] = k]
  BY <1>1
<1> HIDE DEF k
<1> QED
  BY <1>2, <1>3, <1>4, StartMoves

LEMMA SettingsMoves ==
    ASSUME TypeInv, NEW c \in Calls, UpdateSettings(c)
    PROVE  \E k \in Requests : Starts(c, k, "settings") /\ k.pc = "done"
<1>1. PICK t \in Tenants :
        call' = [call EXCEPT ![c] = [Idle EXCEPT !.pc = "done", !.op = "settings", !.tenant = t]]
  BY DEF UpdateSettings
<1> DEFINE k == [Idle EXCEPT !.pc = "done", !.op = "settings", !.tenant = t]
<1>2. Begins(c, "settings") /\ "settings" \in Operations
  BY Beginning DEF UpdateSettings
<1>3. k \in Requests /\ k.op = "settings" /\ k.pc = "done"
  BY <1>2 DEF Idle, Requests, Steps
<1>4. call' = [call EXCEPT ![c] = k]
  BY <1>1
<1> HIDE DEF k
<1> QED
  BY <1>2, <1>3, <1>4, StartMoves

\* A request about a row of a sending domain has a copy with its change.
Finds(c) == DeleteSendingFind(c) \/ VerifySendingFind(c) \/ PauseFind(c) \/ ResumeFind(c)
RowOperations == {"deleteSending", "verifySending", "pause", "resume"}
FirstStep(op) == CASE op = "deleteSending" -> "forget" [] op = "verifySending" -> "write" [] OTHER -> "hold"

LEMMA ChangedType ==
    ASSUME NEW op \in RowOperations, NEW row \in SendingRows
    PROVE  /\ Changed(op, row) \in SendingRows
           /\ Changed(op, row).tenant = row.tenant /\ Changed(op, row).zone = row.zone
           /\ Changed(op, row).live <=> row.live /\ op # "deleteSending"
           /\ op # "deleteSending" => (Changed(op, row).status = "paused" <=> op = "pause")
  BY DEF RowOperations, Changed, SendingRows

LEMMA FindsMoves ==
    ASSUME TypeInv, NEW c \in Calls, Finds(c)
    PROVE  \E k \in Requests, op \in RowOperations :
             /\ Starts(c, k, op) /\ k.pc = FirstStep(op) /\ k.row \in Calls
             /\ sending[k.row] \in SendingRows /\ sending[k.row].live
             /\ k.tenant = sending[k.row].tenant /\ k.zone = sending[k.row].zone
             /\ k.copy = Changed(op, sending[k.row])
             /\ op = "verifySending" => sending[k.row].status = "pending_dns"
<1>1. PICK i \in Calls, op \in RowOperations :
        /\ Find(c, op, FirstStep(op), i, Changed(op, sending[i]))
        /\ op = "verifySending" => sending[i].status = "pending_dns"
  <2>1. CASE DeleteSendingFind(c)
    BY <2>1 DEF DeleteSendingFind, RowOperations, FirstStep, Changed
  <2>2. CASE VerifySendingFind(c)
    BY <2>2 DEF VerifySendingFind, RowOperations, FirstStep, Changed
  <2>3. CASE PauseFind(c)
    BY <2>3 DEF PauseFind, RowOperations, FirstStep, Changed
  <2>4. CASE ResumeFind(c)
    BY <2>4 DEF ResumeFind, RowOperations, FirstStep, Changed
  <2> QED
    BY <2>1, <2>2, <2>3, <2>4 DEF Finds
<1> DEFINE row == sending[i] copy == Changed(op, row) p == FirstStep(op) t == row.tenant z == row.zone
           k == [Idle EXCEPT !.pc = p, !.op = op, !.row = i, !.tenant = t, !.zone = z, !.copy = copy]
<1>2. Begins(c, op) /\ op \in Operations /\ row.live /\ call' = [call EXCEPT ![c] = k]
  BY <1>1, Beginning DEF Find
<1>3. row \in SendingRows /\ t \in Tenants /\ z \in Zones
  BY <1>2 DEF TypeInv, DataOK, NoSending, SendingRows
<1>4. copy \in SendingRows
  BY <1>3, ChangedType
<1>5. p \in Steps
  BY DEF FirstStep, Steps
<1>6. k \in Requests /\ k.op = op /\ k.pc = p /\ k.row = i /\ k.tenant = t /\ k.zone = z /\ k.copy = copy
  <2> HIDE DEF p, copy, t, z, row
  <2> QED
    BY <1>2, <1>3, <1>4, <1>5 DEF Idle, Requests
<1> HIDE DEF k
<1>7. Starts(c, k, op)
  BY <1>2, <1>6, StartMoves
<1> QED
  BY <1>1, <1>2, <1>3, <1>6, <1>7

--------------------------------------------------------------------------------
(* Types: what begins *)

LEMMA TypeStarts ==
    ASSUME TypeInv, NEW c \in Calls, NEW k \in Requests, NEW op, Starts(c, k, op),
           UNCHANGED <<site, claim, sending, sidecar, held, faults>>, from' \in [Tenants -> Zones \cup {None}],
           Fits(c)'
    PROVE  TypeInv'
<1>1. DataOK'
  BY DEF TypeInv, DataOK
<1> QED
  BY <1>1, RestsType DEF Starts

Begun(c) ==
    \/ AddCheck(c) \/ AdoptFind(c) \/ DeleteFind(c) \/ VerifyFind(c) \/ AddSendingCheck(c)
    \/ Finds(c) \/ UpdateSettings(c)

LEMMA TypeBegun ==
    ASSUME TypeInv, NEW c \in Calls, Begun(c)
    PROVE  TypeInv'
<1>1. /\ UNCHANGED <<site, claim, sending, sidecar, held, faults>>
      /\ from' \in [Tenants -> Zones \cup {None}]
  BY DEF Begun, AddCheck, AdoptFind, DeleteFind, VerifyFind, AddSendingCheck, Finds, DeleteSendingFind,
         VerifySendingFind, PauseFind, ResumeFind, Find, UpdateSettings, rows, TypeInv, DataOK
<1>2. CASE AddCheck(c)
  <2>1. PICK k \in Requests :
          /\ Starts(c, k, "add") /\ k.pc = "claim" /\ k.tenant \in Tenants /\ k.host \in Hosts
          /\ k.row = c /\ ~k.verified
    BY <1>2, AddCheckMoves
  <2>2. Fits(c)'
    BY <1>1, <2>1, DomainConstants DEF Fits, Starts, Moves, HasSite, HasSending
  <2> QED
    BY <1>1, <2>1, <2>2, TypeStarts
<1>3. CASE AdoptFind(c)
  <2>1. PICK k \in Requests :
          /\ Starts(c, k, "adopt") /\ k.pc = "oust" /\ k.tenant \in Tenants /\ k.host \in Hosts /\ k.row = c
    BY <1>3, AdoptFindMoves
  <2>2. Fits(c)'
    BY <1>1, <2>1, DomainConstants DEF Fits, Starts, Moves, HasSite, HasSending
  <2> QED
    BY <1>1, <2>1, <2>2, TypeStarts
<1>4. CASE DeleteFind(c)
  <2>1. PICK k \in Requests :
          /\ Starts(c, k, "delete") /\ k.pc = "mark" /\ k.row \in Calls /\ HasSite(k.row)
          /\ k.host = site[k.row].host /\ k.host \in Hosts
    BY <1>4, DeleteFindMoves
  <2>2. Fits(c)'
    BY <1>1, <2>1, DomainConstants DEF Fits, Starts, Moves, HasSite, HasSending
  <2> QED
    BY <1>1, <2>1, <2>2, TypeStarts
<1>5. CASE VerifyFind(c)
  <2>1. PICK k \in Requests :
          /\ Starts(c, k, "verify") /\ k.pc = "verify" /\ k.row \in Calls /\ HasSite(k.row)
          /\ k.tenant \in Tenants
    BY <1>5, VerifyFindMoves
  <2>2. Fits(c)'
    BY <1>1, <2>1, DomainConstants DEF Fits, Starts, Moves, HasSite, HasSending
  <2> QED
    BY <1>1, <2>1, <2>2, TypeStarts
<1>6. CASE AddSendingCheck(c)
  <2>1. PICK k \in Requests :
          /\ Starts(c, k, "addSending") /\ k.pc = "provision" /\ k.tenant \in Tenants /\ k.zone \in Zones
    BY <1>6, AddSendingCheckMoves
  <2>2. Fits(c)'
    BY <1>1, <2>1, DomainConstants DEF Fits, Starts, Moves, HasSite, HasSending
  <2> QED
    BY <1>1, <2>1, <2>2, TypeStarts
<1>7. CASE Finds(c)
  <2>1. PICK k \in Requests, op \in RowOperations :
          /\ Starts(c, k, op) /\ k.pc = FirstStep(op) /\ k.row \in Calls
          /\ sending[k.row] \in SendingRows /\ sending[k.row].live
          /\ k.tenant = sending[k.row].tenant /\ k.zone = sending[k.row].zone
          /\ k.copy = Changed(op, sending[k.row])
    BY <1>7, FindsMoves
  <2>2. /\ k.copy \in SendingRows /\ k.copy.tenant = k.tenant /\ k.copy.zone = k.zone
        /\ k.tenant \in Tenants /\ k.zone \in Zones /\ HasSending(k.row)
        /\ k.pc \in {"forget", "write", "hold"}
    BY <2>1, ChangedType, DomainConstants DEF SendingRows, HasSending, NoSending, FirstStep
  <2>3. Fits(c)'
    BY <1>1, <2>1, <2>2, DomainConstants DEF Fits, Starts, Moves, HasSite, HasSending, RowOperations
  <2> QED
    BY <1>1, <2>1, <2>3, TypeStarts
<1>8. CASE UpdateSettings(c)
  <2>1. PICK k \in Requests : Starts(c, k, "settings") /\ k.pc = "done"
    BY <1>8, SettingsMoves
  <2>2. Fits(c)'
    BY <1>1, <2>1, DomainConstants DEF Fits, Starts, Moves, HasSite, HasSending
  <2> QED
    BY <1>1, <2>1, <2>2, TypeStarts
<1> QED
  BY <1>2, <1>3, <1>4, <1>5, <1>6, <1>7, <1>8 DEF Begun

--------------------------------------------------------------------------------
(* Types: what goes on *)

\* The end of a request, with or without a crash.
LEMMA FinishFits ==
    ASSUME TypeInv, NEW c \in Calls, NEW k \in Requests, GoesOn(c, k), k.pc = "done"
    PROVE  Fits(c)'
  BY DEF TypeInv, Fits, GoesOn, Moves

Claims(c) == AddClaim(c) \/ AdoptClaim(c) \/ ReleaseClaim(c)

LEMMA ClaimsMoves ==
    ASSUME TypeInv, NEW c \in Calls, Claims(c)
    PROVE  \E k \in Requests :
             /\ GoesOn(c, k)
             /\ k.pc = "done" \/ (k.pc = "insert" /\ call[c].pc \in {"claim", "adopt"})
             /\ AddClaim(c) \/ AdoptClaim(c) => (k.pc = "insert" <=> Goto(c, "insert"))
<1>1. "done" \in Steps /\ "insert" \in Steps
  BY DEF Steps
<1>2. Goto(c, "done") \/ (Goto(c, "insert") /\ call[c].pc \in {"claim", "adopt"})
  BY DEF Claims, AddClaim, AdoptClaim, ReleaseClaim, Finish, At
<1>3. Goto(c, "done") => call'[c].pc = "done"
  BY DEF Goto, TypeInv, Requests
<1>4. Goto(c, "insert") => call'[c].pc = "insert"
  BY DEF Goto, TypeInv, Requests
<1> QED
  BY <1>1, <1>2, <1>3, <1>4, GotoMoves DEF GoesOn, Moves

LEMMA TypeClaims ==
    ASSUME TypeInv, NEW c \in Calls, Claims(c)
    PROVE  TypeInv'
<1>1. PICK k \in Requests :
        GoesOn(c, k) /\ (k.pc = "done" \/ (k.pc = "insert" /\ call[c].pc \in {"claim", "adopt"}))
  BY ClaimsMoves
<1>2. /\ UNCHANGED <<site, sending, sidecar, held, from>> /\ (Works \/ Fails)
      /\ call[c].pc \in {"claim", "adopt", "release"} /\ call[c].host \in Hosts
  BY DEF Claims, AddClaim, AdoptClaim, ReleaseClaim, At, TypeInv, Fits
<1>3. claim' \in [Hosts -> Calls \cup {None}]
  BY DEF Claims, AddClaim, AdoptClaim, ReleaseClaim, TypeInv, DataOK
<1>4. DataOK'
  BY <1>2, <1>3, FaultsType DEF TypeInv, DataOK
<1>5. Fits(c)'
  BY <1>1, <1>2 DEF TypeInv, Fits, GoesOn, Moves, HasSite, HasSending
<1> QED
  BY <1>1, <1>2, <1>4, <1>5, RestsType DEF GoesOn, TypeInv, OwnRows

LEMMA InsertMoves ==
    ASSUME TypeInv, NEW c \in Calls, InsertSite(c)
    PROVE  \E k \in Requests :
             /\ GoesOn(c, k)
             /\ \/ /\ k.pc = "done" \/ (k.pc = "provision" /\ k.zone \in Zones /\ k.op = "adopt")
                   /\ site' = [site EXCEPT ![c] = [tenant |-> k.tenant, host |-> k.host,
                                                   live |-> TRUE, verified |-> k.verified]]
                   /\ Works
                \/ k.pc = "release" /\ Fails /\ UNCHANGED site
<1>1. "done" \in Steps /\ "release" \in Steps
  BY DEF Steps
<1>2. CASE Fails /\ Goto(c, "release") /\ UNCHANGED site
  BY <1>1, <1>2, GotoMoves DEF GoesOn
<1>3. CASE ~(Fails /\ Goto(c, "release") /\ UNCHANGED site)
  <2>1. /\ site' = [site EXCEPT ![c] = [tenant |-> call[c].tenant, host |-> call[c].host,
                                        live |-> TRUE, verified |-> call[c].verified]]
        /\ IF call[c].verified /\ Parent[call[c].host] # None
           THEN call' = [call EXCEPT ![c].pc = "provision", ![c].zone = Parent[call[c].host]]
           ELSE Finish(c)
        /\ Works /\ call[c].pc = "insert"
    BY <1>3 DEF InsertSite, At
  <2>2. call[c].host \in Hosts /\ (call[c].verified => call[c].op = "adopt")
    BY <2>1 DEF TypeInv, Fits
  <2>3. CASE call[c].verified /\ Parent[call[c].host] # None
    <3>1. Parent[call[c].host] \in Zones
      BY <2>2, <2>3, DomainConstants
    <3>2. PICK k \in Requests : GoesOn(c, k) /\ k.pc = "provision" /\ k.zone = Parent[call[c].host]
      BY <2>1, <2>3, <3>1, ProvisionMoves
    <3> QED
      BY <2>1, <2>2, <2>3, <3>1, <3>2 DEF GoesOn
  <2>4. CASE ~(call[c].verified /\ Parent[call[c].host] # None)
    <3>1. PICK k \in Requests : GoesOn(c, k) /\ k.pc = "done"
      BY <1>1, <2>1, <2>4, GotoMoves DEF Finish
    <3> QED
      BY <2>1, <3>1 DEF GoesOn
  <2> QED
    BY <2>3, <2>4
<1> QED
  BY <1>2, <1>3

LEMMA TypeInsert ==
    ASSUME TypeInv, NEW c \in Calls, InsertSite(c)
    PROVE  TypeInv'
<1>1. PICK k \in Requests :
        /\ GoesOn(c, k)
        /\ \/ /\ k.pc = "done" \/ (k.pc = "provision" /\ k.zone \in Zones /\ k.op = "adopt")
              /\ site' = [site EXCEPT ![c] = [tenant |-> k.tenant, host |-> k.host,
                                              live |-> TRUE, verified |-> k.verified]]
              /\ Works
           \/ k.pc = "release" /\ Fails /\ UNCHANGED site
  BY InsertMoves
<1>2. /\ UNCHANGED <<claim, sending, sidecar, held, from>> /\ At(c, "insert")
      /\ call[c].op \in {"add", "adopt"} /\ call[c].row = c /\ ~HasSite(c)
      /\ call[c].host \in Hosts /\ call[c].tenant \in Tenants /\ (call[c].op = "add" => ~call[c].verified)
      /\ ~HasSending(c)
  BY DEF InsertSite, At, TypeInv, Fits, OwnRows
<1>3. k.verified \in BOOLEAN
  BY DEF Requests
<1>4. CASE k.pc = "release" /\ Fails /\ UNCHANGED site
  <2>1. DataOK'
    BY <1>2, <1>4, FaultsType DEF TypeInv, DataOK
  <2>2. ~site[c].live
    BY <1>2 DEF HasSite, NoSite
  <2>3. Fits(c)'
    BY <1>1, <1>2, <1>4, <2>2 DEF Fits, GoesOn, Moves, HasSite, HasSending
  <2> QED
    BY <1>1, <1>2, <1>4, <2>1, <2>3, RestsType DEF GoesOn
<1>5. CASE ~(k.pc = "release" /\ Fails /\ UNCHANGED site)
  <2> DEFINE new == [tenant |-> k.tenant, host |-> k.host, live |-> TRUE, verified |-> k.verified]
  <2>1. new \in Sites /\ new # NoSite /\ new.host = k.host
    BY <1>1, <1>2, <1>3, DomainConstants DEF Sites, NoSite, GoesOn
  <2>2. site' = [site EXCEPT ![c] = new] /\ Works
    BY <1>1, <1>5
  <2> HIDE DEF new
  <2>3. site' \in [Calls -> Sites \cup {NoSite}] /\ site'[c] = new /\ \A i \in Calls \ {c} : site'[i] = site[i]
    BY <2>1, <2>2 DEF TypeInv, DataOK
  <2>4. DataOK'
    BY <1>2, <2>2, <2>3 DEF TypeInv, DataOK, Works
  <2>5. Spares(c)
    BY <1>2, <2>3 DEF Spares, SameSite, SameSending, HasSite, HasSending
  <2>6. Fits(c)'
    BY <1>1, <1>2, <1>5 DEF Fits, GoesOn, Moves, HasSite, HasSending
  <2>7. OwnRows(c)'
    BY <1>1, <1>2, <1>5, <2>1, <2>3 DEF OwnRows, GoesOn, Moves, HasSite, HasSending
  <2> QED
    BY <1>1, <2>4, <2>5, <2>6, <2>7, TypeStep DEF GoesOn
<1> QED
  BY <1>4, <1>5

\* A step that changes no row of its own and keeps its request going.
LEMMA GoesOnType ==
    ASSUME TypeInv, NEW c \in Calls, NEW k \in Requests, GoesOn(c, k), DataOK', UNCHANGED sending,
           \A i \in Calls : SameSite(i), ~HasSending(c), Fits(c)',
           HasSite(c) => k.pc \in {"done", "release", "provision", "sidecar", "save", "unsidecar"}
    PROVE  TypeInv'
<1>1. Spares(c)
  BY DEF Spares, SameSending, HasSending
<1>2. OwnRows(c)'
  BY DEF TypeInv, OwnRows, GoesOn, Moves, HasSite, HasSending, SameSite
<1> QED
  BY <1>1, <1>2, TypeStep DEF GoesOn

LEMMA MarkMoves ==
    ASSUME TypeInv, NEW c \in Calls, DeleteMark(c)
    PROVE  \E k \in Requests :
             /\ GoesOn(c, k)
             /\ \/ k.pc = "release" /\ site' = [site EXCEPT ![call[c].row].live = FALSE] /\ Works
                \/ k.pc = "done" /\ Fails /\ UNCHANGED site
<1>1. "done" \in Steps /\ "release" \in Steps
  BY DEF Steps
<1> QED
  BY <1>1, GotoMoves DEF DeleteMark, Finish

LEMMA TypeMark ==
    ASSUME TypeInv, NEW c \in Calls, DeleteMark(c)
    PROVE  TypeInv'
<1>1. PICK i \in Calls : i = call[c].row
  BY DEF DeleteMark, At, TypeInv, Fits
<1>2. PICK k \in Requests :
        /\ GoesOn(c, k)
        /\ \/ k.pc = "release" /\ site' = [site EXCEPT ![i].live = FALSE] /\ Works
           \/ k.pc = "done" /\ Fails /\ UNCHANGED site
  BY <1>1, MarkMoves
<1>3. /\ UNCHANGED <<claim, sending, sidecar, held, from>> /\ call[c].pc = "mark"
      /\ i \in Calls /\ HasSite(i) /\ call[c].host \in Hosts /\ call[c].host = site[i].host
      /\ call[c].op \in {"add", "adopt", "delete"} /\ ~HasSite(c) /\ ~HasSending(c) /\ site[i] \in Sites
  BY <1>1 DEF DeleteMark, At, TypeInv, Fits, OwnRows, DataOK, HasSite
<1>4. CASE k.pc = "done" /\ Fails /\ UNCHANGED site
  <2>1. DataOK' /\ \A j \in Calls : SameSite(j)
    BY <1>3, <1>4, FaultsType DEF TypeInv, DataOK, SameSite, HasSite
  <2> QED
    BY <1>2, <1>3, <1>4, <2>1, FinishFits, GoesOnType
<1>5. CASE k.pc = "release" /\ site' = [site EXCEPT ![i].live = FALSE] /\ Works
  <2> DEFINE new == [site[i] EXCEPT !.live = FALSE]
  <2>1. /\ new \in Sites /\ ~new.live /\ new.tenant = site[i].tenant /\ new.host = site[i].host
        /\ new # NoSite
    BY <1>3, DomainConstants DEF Sites, NoSite
  <2>2. site' = [site EXCEPT ![i] = new]
    BY <1>5
  <2> HIDE DEF new
  <2>3. site'[i] = new /\ \A j \in Calls \ {i} : site'[j] = site[j]
    BY <1>3, <2>2 DEF TypeInv, DataOK
  <2>4. site' \in [Calls -> Sites \cup {NoSite}]
    BY <2>1, <2>2 DEF TypeInv, DataOK
  <2>5. DataOK'
    BY <1>3, <1>5, <2>4 DEF TypeInv, DataOK, Works
  <2>6. \A j \in Calls : SameSite(j)
    BY <1>3, <2>1, <2>3 DEF SameSite, HasSite
  <2>7. Fits(c)'
    <3>1. k.row = i /\ k.host = call[c].host /\ k.op = call[c].op /\ call'[c] = k /\ i # c
      BY <1>1, <1>2, <1>3 DEF GoesOn, Moves
    <3>2. site'[i] # NoSite /\ site'[i].host = call[c].host /\ ~site'[i].live
      <4>1. site'[i] = new
        BY <2>3
      <4> QED
        BY <1>3, <2>1, <4>1
    <3>3. k.op = "add" => ~k.verified
      <4>1. call[c].op = "add" => ~call[c].verified
        BY DEF TypeInv, Fits
      <4> QED
        BY <1>2, <4>1 DEF GoesOn
    <3> QED
      BY <1>3, <1>5, <3>1, <3>2, <3>3 DEF Fits, HasSite
  <2> QED
    BY <1>2, <1>3, <1>5, <2>5, <2>6, <2>7, GoesOnType
<1> QED
  BY <1>2, <1>4, <1>5

LEMMA OustMoves ==
    ASSUME TypeInv, NEW c \in Calls, AdoptOust(c)
    PROVE  \E k \in Requests :
             /\ GoesOn(c, k)
             /\ \/ /\ k.pc = "adopt" /\ Works
                   /\ site' = [i \in Calls |->
                                 IF i \in LiveSites(call[c].host) /\ site[i].tenant # call[c].tenant
                                 THEN [site[i] EXCEPT !.live = FALSE] ELSE site[i]]
                \/ k.pc = "done" /\ Fails /\ UNCHANGED site
<1>1. "done" \in Steps /\ "adopt" \in Steps
  BY DEF Steps
<1>2. CASE Fails /\ Finish(c) /\ UNCHANGED site
  BY <1>1, <1>2, GotoMoves DEF Finish
<1>3. CASE ~(Fails /\ Finish(c) /\ UNCHANGED site)
  <2>1. Goto(c, "adopt")
    BY <1>3 DEF AdoptOust
  <2>2. PICK k \in Requests : GoesOn(c, k) /\ k.pc = "adopt"
    BY <1>1, <2>1, GotoMoves
  <2> QED
    BY <1>3, <2>2 DEF AdoptOust
<1> QED
  BY <1>2, <1>3

\* What the ousting leaves of each row.
LEMMA Ousted ==
    ASSUME TypeInv, NEW h, NEW t,
           site' = [i \in Calls |-> IF i \in LiveSites(h) /\ site[i].tenant # t
                                    THEN [site[i] EXCEPT !.live = FALSE] ELSE site[i]]
    PROVE  /\ site' \in [Calls -> Sites \cup {NoSite}]
           /\ \A i \in Calls : /\ SameSite(i)
                               /\ IF i \in LiveSites(h) /\ site[i].tenant # t THEN ~site'[i].live
                                  ELSE site'[i] = site[i]
<1>1. ASSUME NEW i \in Calls
      PROVE  /\ SameSite(i) /\ site'[i] \in Sites \cup {NoSite}
             /\ IF i \in LiveSites(h) /\ site[i].tenant # t THEN ~site'[i].live ELSE site'[i] = site[i]
  <2>1. CASE i \in LiveSites(h) /\ site[i].tenant # t
    <3>1. site[i] \in Sites
      BY <2>1 DEF LiveSites, TypeInv, DataOK, NoSite
    <3> DEFINE new == [site[i] EXCEPT !.live = FALSE]
    <3>2. /\ new \in Sites /\ ~new.live /\ new.tenant = site[i].tenant /\ new.host = site[i].host
          /\ new # NoSite
      BY <3>1, DomainConstants DEF Sites, NoSite
    <3>3. site[i] # NoSite
      BY <3>1, DomainConstants DEF Sites, NoSite
    <3>4. site'[i] = new
      BY <2>1
    <3> HIDE DEF new
    <3> QED
      BY <2>1, <3>2, <3>3, <3>4 DEF SameSite, HasSite
  <2>2. CASE ~(i \in LiveSites(h) /\ site[i].tenant # t)
    <3>1. site'[i] = site[i]
      BY <2>2
    <3> QED
      BY <2>2, <3>1 DEF SameSite, HasSite, TypeInv, DataOK
  <2> QED
    BY <2>1, <2>2
<1> QED
  BY <1>1

LEMMA TypeOust ==
    ASSUME TypeInv, NEW c \in Calls, AdoptOust(c)
    PROVE  TypeInv'
<1>1. PICK k \in Requests :
        /\ GoesOn(c, k)
        /\ \/ /\ k.pc = "adopt" /\ Works
              /\ site' = [i \in Calls |->
                            IF i \in LiveSites(call[c].host) /\ site[i].tenant # call[c].tenant
                            THEN [site[i] EXCEPT !.live = FALSE] ELSE site[i]]
           \/ k.pc = "done" /\ Fails /\ UNCHANGED site
  BY OustMoves
<1>2. /\ UNCHANGED <<claim, sending, sidecar, held, from>> /\ call[c].pc = "oust"
      /\ ~HasSite(c) /\ ~HasSending(c)
  BY DEF AdoptOust, At, TypeInv, Fits, OwnRows
<1>3. site' \in [Calls -> Sites \cup {NoSite}] /\ \A i \in Calls : SameSite(i)
  <2>1. CASE UNCHANGED site
    BY <2>1 DEF TypeInv, DataOK, SameSite, HasSite
  <2>2. CASE ~UNCHANGED site
    <3>1. PICK h, t : h = call[c].host /\ t = call[c].tenant
      OBVIOUS
    <3>2. site' = [i \in Calls |-> IF i \in LiveSites(h) /\ site[i].tenant # t
                                   THEN [site[i] EXCEPT !.live = FALSE] ELSE site[i]]
      BY <1>1, <2>2, <3>1
    <3>3. /\ site' \in [Calls -> Sites \cup {NoSite}]
          /\ \A i \in Calls : /\ SameSite(i)
                              /\ IF i \in LiveSites(h) /\ site[i].tenant # t THEN ~site'[i].live
                                 ELSE site'[i] = site[i]
      BY <3>2, Ousted
    <3> QED
      BY <3>3
  <2> QED
    BY <2>1, <2>2
<1>4. DataOK'
  <2>1. Works \/ Fails
    BY <1>1
  <2> QED
    BY <1>2, <1>3, <2>1, FaultsType DEF TypeInv, DataOK
<1>5. k.pc \in {"adopt", "done"}
  BY <1>1
<1>6. ~HasSite(c)'
  BY <1>2, <1>3 DEF SameSite
<1>7. Fits(c)'
  BY <1>1, <1>2, <1>5, <1>6 DEF TypeInv, Fits, GoesOn, Moves
<1> QED
  BY <1>1, <1>2, <1>3, <1>4, <1>7, GoesOnType

LEMMA VerifyMarkMoves ==
    ASSUME TypeInv, NEW c \in Calls, VerifyMark(c)
    PROVE  \E k \in Requests :
             /\ GoesOn(c, k) /\ (k.pc = "done" \/ (k.pc = "provision" /\ k.zone \in Zones))
             /\ \/ site' = [site EXCEPT ![call[c].row].verified = TRUE] /\ Works
                \/ Fails /\ UNCHANGED site /\ k.pc = "done"
<1>1. "done" \in Steps /\ call[c].pc = "verify" /\ call[c].row \in Calls /\ HasSite(call[c].row)
  BY DEF Steps, VerifyMark, At, TypeInv, Fits
<1>2. CASE Finish(c)
  BY <1>1, <1>2, GotoMoves DEF Finish, VerifyMark
<1>3. CASE ~Finish(c)
  <2> DEFINE z == Parent[site[call[c].row].host]
  <2>1. /\ z # None /\ call' = [call EXCEPT ![c].pc = "provision", ![c].zone = z]
        /\ site' = [site EXCEPT ![call[c].row].verified = TRUE] /\ Works
    BY <1>3 DEF VerifyMark
  <2>2. z \in Zones
    BY <1>1, <2>1, DomainConstants DEF TypeInv, DataOK, HasSite, Sites
  <2> HIDE DEF z
  <2>3. PICK k \in Requests : GoesOn(c, k) /\ k.pc = "provision" /\ k.zone = z
    BY <2>1, <2>2, ProvisionMoves
  <2> QED
    BY <2>1, <2>2, <2>3
<1> QED
  BY <1>2, <1>3

\* A verification changes the flag and nothing else of a row.
LEMMA Verified ==
    ASSUME TypeInv, NEW i \in Calls, HasSite(i),
           site' = [site EXCEPT ![i].verified = TRUE] \/ UNCHANGED site
    PROVE  /\ site' \in [Calls -> Sites \cup {NoSite}]
           /\ \A j \in Calls : SameSite(j) /\ (site'[j].live <=> site[j].live)
<1>1. CASE UNCHANGED site
  BY <1>1 DEF TypeInv, DataOK, SameSite, HasSite
<1>2. CASE site' = [site EXCEPT ![i].verified = TRUE]
  <2> DEFINE new == [site[i] EXCEPT !.verified = TRUE]
  <2>1. site[i] \in Sites
    BY DEF TypeInv, DataOK, HasSite
  <2>2. /\ new \in Sites /\ new.live = site[i].live /\ new.tenant = site[i].tenant
        /\ new.host = site[i].host /\ new # NoSite
    BY <2>1, DomainConstants DEF Sites, NoSite
  <2>3. site' = [site EXCEPT ![i] = new]
    BY <1>2
  <2> HIDE DEF new
  <2>4. site'[i] = new /\ \A j \in Calls \ {i} : site'[j] = site[j]
    BY <2>3 DEF TypeInv, DataOK
  <2>5. site' \in [Calls -> Sites \cup {NoSite}]
    BY <2>2, <2>3 DEF TypeInv, DataOK
  <2> QED
    BY <2>2, <2>4, <2>5 DEF SameSite, HasSite
<1> QED
  BY <1>1, <1>2

LEMMA TypeVerifyMark ==
    ASSUME TypeInv, NEW c \in Calls, VerifyMark(c)
    PROVE  TypeInv'
<1>1. PICK k \in Requests :
        /\ GoesOn(c, k) /\ (k.pc = "done" \/ (k.pc = "provision" /\ k.zone \in Zones))
        /\ \/ site' = [site EXCEPT ![call[c].row].verified = TRUE] /\ Works
           \/ Fails /\ UNCHANGED site /\ k.pc = "done"
  BY VerifyMarkMoves
<1>2. /\ UNCHANGED <<claim, sending, sidecar, held, from>> /\ call[c].pc = "verify"
      /\ call[c].op = "verify" /\ call[c].tenant \in Tenants
      /\ ~HasSite(c) /\ ~HasSending(c) /\ call[c].row \in Calls /\ HasSite(call[c].row)
  BY DEF VerifyMark, At, TypeInv, Fits, OwnRows
<1>3. site' \in [Calls -> Sites \cup {NoSite}] /\ \A i \in Calls : SameSite(i)
  BY <1>1, <1>2, Verified
<1>4. DataOK'
  <2>1. Works \/ Fails
    BY <1>1
  <2> QED
    BY <1>2, <1>3, <2>1, FaultsType DEF TypeInv, DataOK
<1>5. Fits(c)'
  BY <1>1, <1>2 DEF Fits, GoesOn, Moves
<1> QED
  BY <1>1, <1>2, <1>3, <1>4, <1>5, GoesOnType

LEMMA ProvisionFindMoves ==
    ASSUME TypeInv, NEW c \in Calls, ProvisionFind(c)
    PROVE  \E k \in Requests :
             /\ GoesOn(c, k) /\ k.zone = call[c].zone
             /\ \/ k.pc = "done"
                \/ k.pc = "sidecar" /\ LiveSending(call[c].tenant, call[c].zone) = {}
<1>1. "done" \in Steps /\ "sidecar" \in Steps
  BY DEF Steps
<1>2. CASE Finish(c)
  BY <1>1, <1>2, GotoMoves DEF Finish
<1>3. CASE Goto(c, "sidecar") /\ LiveSending(call[c].tenant, call[c].zone) = {}
  BY <1>1, <1>3, GotoMoves
<1> QED
  BY <1>2, <1>3 DEF ProvisionFind

LEMMA ProvisionSidecarMoves ==
    ASSUME TypeInv, NEW c \in Calls, ProvisionSidecar(c)
    PROVE  \E k \in Requests :
             /\ GoesOn(c, k) /\ k.zone = call[c].zone /\ k.pc = "save"
             /\ \/ UNCHANGED sidecar /\ Fails
                \/ sidecar' = [sidecar EXCEPT ![call[c].zone] = c] /\ (Works \/ Fails)
<1>1. PICK put, ok \in BOOLEAN :
        /\ IF put THEN sidecar' = [sidecar EXCEPT ![call[c].zone] = c] ELSE UNCHANGED sidecar
        /\ IF ok THEN put /\ Works ELSE Fails
        /\ call' = [call EXCEPT ![c].pc = "save", ![c].synced = ok]
  BY DEF ProvisionSidecar
<1> DEFINE k == [call[c] EXCEPT !.pc = "save", !.synced = ok]
<1>2. /\ k \in Requests /\ k.pc = "save" /\ k.op = call[c].op /\ k.tenant = call[c].tenant
      /\ k.host = call[c].host /\ k.zone = call[c].zone /\ k.row = call[c].row
      /\ k.copy = call[c].copy /\ k.verified = call[c].verified
  <2>1. call[c] \in Requests
    BY DEF TypeInv
  <2>2. "save" \in Steps
    BY DEF Steps
  <2>3. k \in Requests
    BY <2>1, <2>2 DEF Requests
  <2>4. /\ k.pc = "save" /\ k.op = call[c].op /\ k.tenant = call[c].tenant
        /\ k.host = call[c].host /\ k.zone = call[c].zone /\ k.row = call[c].row
        /\ k.copy = call[c].copy /\ k.verified = call[c].verified
    BY <2>1 DEF Requests
  <2> QED
    BY <2>3, <2>4
<1>3. call' = [call EXCEPT ![c] = k]
  BY <1>1
<1> HIDE DEF k
<1>4. GoesOn(c, k)
  BY <1>2, <1>3, SetMoves DEF GoesOn
<1>5. \/ UNCHANGED sidecar /\ Fails
      \/ sidecar' = [sidecar EXCEPT ![call[c].zone] = c] /\ (Works \/ Fails)
  BY <1>1
<1> QED
  BY <1>2, <1>4, <1>5

LEMMA ProvisionSaveMoves ==
    ASSUME TypeInv, NEW c \in Calls, ProvisionSave(c)
    PROVE  \E k \in Requests :
             /\ GoesOn(c, k) /\ k.zone = call[c].zone
             /\ \/ /\ k.pc = "done" /\ Works
                   /\ sending' = [sending EXCEPT ![c] = [tenant |-> k.tenant, zone |-> k.zone,
                                                         live |-> TRUE, status |-> "pending_dns"]]
                \/ k.pc \in {"unsidecar", "done"} /\ Fails /\ UNCHANGED sending
<1>1. "done" \in Steps /\ "unsidecar" \in Steps
  BY DEF Steps
<1>2. CASE Fails /\ (Goto(c, "unsidecar") \/ Goto(c, "done")) /\ UNCHANGED sending
  BY <1>1, <1>2, GotoMoves
<1>3. CASE ~(Fails /\ (Goto(c, "unsidecar") \/ Goto(c, "done")) /\ UNCHANGED sending)
  <2>1. /\ Finish(c) /\ Works
        /\ sending' = [sending EXCEPT ![c] = [tenant |-> call[c].tenant, zone |-> call[c].zone,
                                              live |-> TRUE, status |-> "pending_dns"]]
    BY <1>3 DEF ProvisionSave
  <2>2. PICK k \in Requests : GoesOn(c, k) /\ k.pc = "done" /\ k.zone = call[c].zone
    BY <1>1, <2>1, GotoMoves DEF Finish
  <2> QED
    BY <2>1, <2>2 DEF GoesOn
<1> QED
  BY <1>2, <1>3

Forgets(c) == ProvisionUndo(c) \/ DeleteSendingForget(c)

LEMMA ForgetMoves ==
    ASSUME TypeInv, NEW c \in Calls, Forgets(c)
    PROVE  \E k \in Requests :
             /\ GoesOn(c, k) /\ k.zone = call[c].zone
             /\ \/ ProvisionUndo(c) /\ call[c].pc = "unsidecar" /\ k.pc = "done"
                \/ DeleteSendingForget(c) /\ call[c].pc = "forget" /\ k.pc = "write"
             /\ \/ /\ sidecar' = [sidecar EXCEPT ![call[c].zone] = None]
                   /\ held' = held \ {call[c].zone} /\ Works
                \/ Fails /\ UNCHANGED <<sidecar, held>>
<1>1. "done" \in Steps /\ "write" \in Steps
  BY DEF Steps
<1>2. CASE ProvisionUndo(c)
  <2>1. Forget(c, "done") /\ call[c].pc = "unsidecar" /\ Goto(c, "done")
    BY <1>2 DEF ProvisionUndo, At, Forget
  <2>2. PICK k \in Requests : GoesOn(c, k) /\ k.pc = "done" /\ k.zone = call[c].zone
    BY <1>1, <2>1, GotoMoves
  <2> QED
    BY <1>2, <2>1, <2>2 DEF Forget
<1>3. CASE DeleteSendingForget(c)
  <2>1. Forget(c, "write") /\ call[c].pc = "forget" /\ Goto(c, "write")
    BY <1>3 DEF DeleteSendingForget, At, Forget
  <2>2. PICK k \in Requests : GoesOn(c, k) /\ k.pc = "write" /\ k.zone = call[c].zone
    BY <1>1, <2>1, GotoMoves
  <2> QED
    BY <1>3, <2>1, <2>2 DEF Forget
<1> QED
  BY <1>2, <1>3 DEF Forgets

LEMMA HoldMoves ==
    ASSUME TypeInv, NEW c \in Calls, Hold(c)
    PROVE  \E k \in Requests :
             /\ GoesOn(c, k) /\ k.zone = call[c].zone
             /\ \/ /\ k.pc = "write" /\ Works
                   /\ held' = IF k.op = "pause" THEN held \cup {k.zone} ELSE held \ {k.zone}
                \/ k.pc = "done" /\ Fails /\ UNCHANGED held
<1>1. "done" \in Steps /\ "write" \in Steps
  BY DEF Steps
<1>2. CASE Fails /\ Finish(c) /\ UNCHANGED held
  BY <1>1, <1>2, GotoMoves DEF Finish
<1>3. CASE ~(Fails /\ Finish(c) /\ UNCHANGED held)
  <2>1. /\ Goto(c, "write") /\ Works
        /\ held' = IF call[c].op = "pause" THEN held \cup {call[c].zone} ELSE held \ {call[c].zone}
    BY <1>3 DEF Hold
  <2>2. PICK k \in Requests : GoesOn(c, k) /\ k.pc = "write" /\ k.zone = call[c].zone
    BY <1>1, <2>1, GotoMoves
  <2> QED
    BY <2>1, <2>2 DEF GoesOn
<1> QED
  BY <1>2, <1>3

LEMMA WriteBackMoves ==
    ASSUME TypeInv, NEW c \in Calls, WriteBack(c)
    PROVE  \E k \in Requests :
             /\ GoesOn(c, k) /\ k.zone = call[c].zone
             /\ k.pc = IF call[c].op = "verifySending" THEN "from" ELSE "done"
<1>1. "done" \in Steps /\ "from" \in Steps
  BY DEF Steps
<1> QED
  BY <1>1, GotoMoves DEF WriteBack

\* The last steps: the from-domain, and the end by a crash.
Ends(c) == SetFrom(c) \/ DomainCrash(c)

LEMMA EndsMoves ==
    ASSUME TypeInv, NEW c \in Calls, Ends(c)
    PROVE  \E k \in Requests : GoesOn(c, k) /\ k.zone = call[c].zone /\ k.pc = "done"
<1>1. "done" \in Steps /\ Goto(c, "done")
  BY DEF Steps, Ends, SetFrom, DomainCrash, Finish
<1> QED
  BY <1>1, GotoMoves

LEMMA TypeProvisions ==
    ASSUME TypeInv, NEW c \in Calls, ProvisionFind(c) \/ ProvisionSidecar(c)
    PROVE  TypeInv'
<1>1. PICK k \in Requests :
        GoesOn(c, k) /\ k.zone = call[c].zone /\ k.pc \in {"sidecar", "save", "done"}
  BY ProvisionFindMoves, ProvisionSidecarMoves
<1>2. /\ UNCHANGED <<site, claim, sending, held, from>> /\ call[c].pc \in {"provision", "sidecar"}
      /\ call[c].zone \in Zones /\ ~HasSending(c)
  BY DEF ProvisionFind, ProvisionSidecar, At, rows, TypeInv, Fits, OwnRows
<1>3. sidecar' \in [Zones -> Calls \cup {None}] /\ faults' \in 0 .. MaxFaults
  <2>1. CASE ProvisionFind(c)
    BY <2>1 DEF ProvisionFind, rows, TypeInv, DataOK
  <2>2. CASE ProvisionSidecar(c)
    BY <1>2, <2>2, ProvisionSidecarMoves, FaultsType DEF TypeInv, DataOK
  <2> QED
    BY <2>1, <2>2
<1>4. DataOK'
  BY <1>2, <1>3 DEF TypeInv, DataOK
<1>5. \A i \in Calls : SameSite(i)
  BY <1>2 DEF SameSite, HasSite
<1>6. Fits(c)'
  BY <1>1, <1>2 DEF TypeInv, Fits, GoesOn, Moves
<1> QED
  BY <1>1, <1>2, <1>4, <1>5, <1>6, GoesOnType

LEMMA TypeSave ==
    ASSUME TypeInv, NEW c \in Calls, ProvisionSave(c)
    PROVE  TypeInv'
<1>1. PICK k \in Requests :
        /\ GoesOn(c, k) /\ k.zone = call[c].zone
        /\ \/ /\ k.pc = "done" /\ Works
              /\ sending' = [sending EXCEPT ![c] = [tenant |-> k.tenant, zone |-> k.zone,
                                                    live |-> TRUE, status |-> "pending_dns"]]
           \/ k.pc \in {"unsidecar", "done"} /\ Fails /\ UNCHANGED sending
  BY ProvisionSaveMoves
<1>2. /\ UNCHANGED <<site, claim, sidecar, held, from>> /\ At(c, "save") /\ call[c].pc = "save"
      /\ call[c].zone \in Zones /\ call[c].tenant \in Tenants /\ ~HasSending(c)
      /\ call[c].op \in {"adopt", "verify", "addSending"}
  BY DEF ProvisionSave, At, TypeInv, Fits, OwnRows
<1>3. \A i \in Calls : SameSite(i)
  BY <1>2 DEF SameSite, HasSite
<1>4. Fits(c)'
  BY <1>1, <1>2 DEF TypeInv, Fits, GoesOn, Moves
<1>5. CASE Fails /\ UNCHANGED sending
  <2>1. DataOK'
    BY <1>2, <1>5, FaultsType DEF TypeInv, DataOK
  <2> QED
    BY <1>1, <1>2, <1>3, <1>4, <1>5, <2>1, GoesOnType
<1>6. CASE ~(Fails /\ UNCHANGED sending)
  <2> DEFINE new == [tenant |-> k.tenant, zone |-> k.zone, live |-> TRUE, status |-> "pending_dns"]
  <2>1. new \in SendingRows
    BY <1>1, <1>2 DEF SendingRows, GoesOn
  <2>2. k.pc = "done" /\ Works /\ sending' = [sending EXCEPT ![c] = new]
    BY <1>1, <1>6
  <2> HIDE DEF new
  <2>3. sending' \in [Calls -> SendingRows \cup {NoSending}] /\ \A i \in Calls \ {c} : sending'[i] = sending[i]
    BY <2>1, <2>2 DEF TypeInv, DataOK
  <2>4. DataOK'
    BY <1>2, <2>2, <2>3 DEF TypeInv, DataOK, Works
  <2>5. Spares(c)
    BY <1>2, <1>3, <2>3 DEF Spares, SameSending, HasSending
  <2>6. OwnRows(c)'
    BY <1>1, <1>2, <2>2 DEF TypeInv, OwnRows, GoesOn, Moves, HasSite, HasSending
  <2> QED
    BY <1>1, <1>4, <2>4, <2>5, <2>6, TypeStep DEF GoesOn
<1> QED
  BY <1>5, <1>6

LEMMA TypeQueues ==
    ASSUME TypeInv, NEW c \in Calls, Forgets(c) \/ Hold(c)
    PROVE  TypeInv'
<1>1. PICK k \in Requests :
        /\ GoesOn(c, k) /\ k.zone = call[c].zone /\ k.pc \in {"write", "done"}
        /\ k.pc = "write" => call[c].pc \in {"forget", "hold"}
  <2>1. CASE Forgets(c)
    BY <2>1, ForgetMoves
  <2>2. CASE Hold(c)
    BY <2>2, HoldMoves DEF Hold, At
  <2> QED
    BY <2>1, <2>2
<1>2. /\ UNCHANGED <<site, claim, sending, from>> /\ call[c].pc \in {"unsidecar", "forget", "hold"}
      /\ call[c].zone \in Zones /\ ~HasSending(c) /\ (Works \/ Fails)
  BY DEF Forgets, ProvisionUndo, DeleteSendingForget, Forget, Hold, At, TypeInv, Fits, OwnRows
<1>3. sidecar' \in [Zones -> Calls \cup {None}]
  BY <1>2 DEF Forgets, ProvisionUndo, DeleteSendingForget, Forget, Hold, TypeInv, DataOK
<1>4. held' \subseteq Zones
  BY <1>2 DEF Forgets, ProvisionUndo, DeleteSendingForget, Forget, Hold, TypeInv, DataOK
<1>5. DataOK'
  BY <1>2, <1>3, <1>4, FaultsType DEF TypeInv, DataOK
<1>6. \A i \in Calls : SameSite(i)
  BY <1>2 DEF SameSite, HasSite
<1>7. Fits(c)'
  BY <1>1, <1>2 DEF TypeInv, Fits, GoesOn, Moves, HasSending
<1>8. HasSite(c) => k.pc = "done"
  BY <1>1, <1>2 DEF TypeInv, Fits, OwnRows
<1> QED
  BY <1>1, <1>2, <1>5, <1>6, <1>7, <1>8, GoesOnType

LEMMA TypeWriteBack ==
    ASSUME TypeInv, NEW c \in Calls, WriteBack(c)
    PROVE  TypeInv'
<1>1. PICK k \in Requests :
        GoesOn(c, k) /\ k.zone = call[c].zone /\ k.pc = IF call[c].op = "verifySending" THEN "from" ELSE "done"
  BY WriteBackMoves
<1>2. PICK i \in Calls : i = call[c].row
  BY DEF WriteBack, At, TypeInv, Fits
<1>3. /\ UNCHANGED <<site, claim, sidecar, held, from>> /\ (Works \/ Fails) /\ call[c].pc = "write"
      /\ ~HasSending(c) /\ ~HasSite(c) /\ HasSending(i) /\ call[c].copy \in SendingRows
      /\ call[c].copy.tenant = sending[i].tenant /\ call[c].copy.zone = sending[i].zone
      /\ sending' = [sending EXCEPT ![i] = call[c].copy] \/ UNCHANGED sending
  BY <1>2 DEF WriteBack, At, TypeInv, Fits, OwnRows
<1>4. call[c].copy # NoSending
  BY <1>3, DomainConstants DEF SendingRows, NoSending
<1>5. sending' \in [Calls -> SendingRows \cup {NoSending}]
  BY <1>3 DEF TypeInv, DataOK
<1>6. \A j \in Calls : SameSending(j)
  <2>1. CASE UNCHANGED sending
    BY <2>1 DEF SameSending, HasSending
  <2>2. CASE sending' = [sending EXCEPT ![i] = call[c].copy]
    <3>1. sending'[i] = call[c].copy /\ \A j \in Calls \ {i} : sending'[j] = sending[j]
      BY <2>2 DEF TypeInv, DataOK
    <3> QED
      BY <1>3, <1>4, <3>1 DEF SameSending, HasSending
  <2> QED
    BY <1>3, <2>1, <2>2
<1>7. DataOK'
  BY <1>3, <1>5, FaultsType DEF TypeInv, DataOK
<1>8. Spares(c)
  BY <1>3, <1>6 DEF Spares, SameSite, HasSite
<1>9. Fits(c)'
  <2>1. /\ Fits(c) /\ k.op = call[c].op /\ k.tenant = call[c].tenant /\ k.host = call[c].host
        /\ k.row = i /\ k.copy = call[c].copy /\ k.verified = call[c].verified /\ call'[c] = k
    BY <1>1, <1>2 DEF TypeInv, GoesOn, Moves
  <2>2. HasSending(i)' /\ sending'[i].tenant = sending[i].tenant /\ sending'[i].zone = sending[i].zone
    BY <1>3, <1>6 DEF SameSending
  <2> QED
    BY <1>1, <1>2, <1>3, <2>1, <2>2 DEF Fits, HasSending
<1>10. OwnRows(c)'
  BY <1>3, <1>6 DEF OwnRows, HasSite, SameSending
<1> QED
  BY <1>1, <1>7, <1>8, <1>9, <1>10, TypeStep DEF GoesOn

LEMMA TypeEnds ==
    ASSUME TypeInv, NEW c \in Calls, Ends(c)
    PROVE  TypeInv'
<1>1. PICK k \in Requests : GoesOn(c, k) /\ k.pc = "done"
  BY EndsMoves
<1>2. UNCHANGED <<site, claim, sending, sidecar, held>> /\ (Works \/ Fails) /\ ~HasSending(c)
  BY DEF Ends, SetFrom, DomainCrash, rows, At, Running, TypeInv, OwnRows
<1>3. from' \in [Tenants -> Zones \cup {None}]
  BY DEF Ends, SetFrom, DomainCrash, rows, At, TypeInv, DataOK, Fits
<1>4. DataOK' /\ \A i \in Calls : SameSite(i)
  BY <1>2, <1>3, FaultsType DEF TypeInv, DataOK, SameSite, HasSite
<1> QED
  BY <1>1, <1>2, <1>4, FinishFits, GoesOnType

--------------------------------------------------------------------------------

\* What the system does, for the proofs of the steps.
LEMMA NextSteps ==
    ASSUME Next
    PROVE  \E c \in Calls :
             \/ Begun(c) \/ Claims(c) \/ InsertSite(c) \/ DeleteMark(c) \/ AdoptOust(c) \/ VerifyMark(c)
             \/ ProvisionFind(c) \/ ProvisionSidecar(c) \/ ProvisionSave(c)
             \/ Forgets(c) \/ Hold(c) \/ WriteBack(c) \/ Ends(c)
  BY DEF Next, Begun, Finds, Claims, Forgets, Ends

LEMMA TypeInit == Init => TypeInv
<1> SUFFICES ASSUME Init PROVE TypeInv
  OBVIOUS
<1>1. \A c \in Calls : call[c] = Idle /\ ~HasSite(c) /\ ~HasSending(c)
  BY DEF Init, HasSite, HasSending
<1>2. call \in [Calls -> Requests]
  BY IdleType DEF Init
<1>3. DataOK
  BY DomainConstants DEF Init, DataOK
<1>4. \A c \in Calls : Fits(c) /\ OwnRows(c)
  BY <1>1, IdleType, DomainConstants DEF Fits, OwnRows
<1> QED
  BY <1>2, <1>3, <1>4 DEF TypeInv

LEMMA TypeNext ==
    ASSUME TypeInv, [Next]_vars
    PROVE  TypeInv'
<1>1. CASE UNCHANGED vars
  BY <1>1 DEF vars, TypeInv, DataOK, Fits, OwnRows, HasSite, HasSending
<1>2. CASE Next
  BY <1>2, NextSteps, TypeBegun, TypeClaims, TypeInsert, TypeMark, TypeOust, TypeVerifyMark,
     TypeProvisions, TypeSave, TypeQueues, TypeWriteBack, TypeEnds
<1> QED
  BY <1>1, <1>2

LEMMA TypeInvariant == Spec => []TypeInv
  BY TypeInit, TypeNext, PTL DEF Spec

\* Every row, claim and request has its type, and a request only holds on to
\* rows that were there.
THEOREM DomainTypes == Spec => []TypeOK
<1>1. TypeInv => TypeOK
  <2> SUFFICES ASSUME TypeInv PROVE TypeOK
    OBVIOUS
  <2>1. ASSUME NEW c \in Calls
        PROVE  /\ call[c].pc \in Steps
               /\ call[c].pc \in {"claim", "insert", "release", "oust", "adopt"} => call[c].host \in Hosts
               /\ call[c].pc \in {"mark", "release", "verify"} => site[call[c].row] # NoSite \/ call[c].row = c
               /\ call[c].pc \in {"provision", "sidecar", "save", "unsidecar", "from"} =>
                    call[c].zone \in Zones
               /\ call[c].pc = "write" => call[c].copy \in SendingRows /\ sending[call[c].row] # NoSending
    <3>1. Fits(c) /\ call[c] \in Requests
      BY DEF TypeInv
    <3> QED
      BY <3>1 DEF Fits, Requests, HasSite, HasSending
  <2> QED
    BY <2>1 DEF TypeInv, DataOK, TypeOK
<1> QED
  BY <1>1, TypeInvariant, PTL

--------------------------------------------------------------------------------
(* Who overlaps whom *)

LEMMA RunningOp ==
    ASSUME TypeInv, NEW c \in Calls, Running(c)
    PROVE  call[c].op \in AllOperations /\ call[c].op # None
<1>1. Fits(c) /\ call[c] \in Requests
  BY DEF TypeInv
<1>2. call[c].op # None
  BY <1>1, DomainConstants DEF Fits, Running, Requests, Steps, AllOperations
<1> QED
  BY <1>1, <1>2, DomainConstants DEF Requests

\* A begins c or goes on with it.
Continues(c, k) == GoesOn(c, k) /\ Running(c)
Step(c, k) == (\E op : Starts(c, k, op)) \/ Continues(c, k)

LEMMA StepAlone ==
    ASSUME TypeInv, NEW A \in SUBSET AllOperations, NEW B \in SUBSET AllOperations, A \X B \subseteq Apart,
           \A c, d \in Calls : call[c].op \in A /\ Running(c) /\ call[d].op \in B /\ Running(d) => c = d,
           NEW a \in Calls, NEW k, Step(a, k),
           NEW c \in Calls, NEW d \in Calls,
           call'[c].op \in A, Running(c)', call'[d].op \in B, Running(d)'
    PROVE  c = d
<1>1. Moves(a, k)
  BY DEF Step, Starts, Continues, GoesOn
<1>2. CASE Continues(a, k)
  BY <1>1, <1>2 DEF Continues, GoesOn, Moves, Running
<1>3. ASSUME NEW op, Starts(a, k, op) PROVE c = d
  <2>1. /\ \A e \in Calls : Running(e) => <<op, call[e].op>> \notin Apart /\ <<call[e].op, op>> \notin Apart
        /\ k.op = op /\ \A e \in Calls \ {a} : call'[e] = call[e]
        /\ call'[a] = k
    BY <1>3 DEF Starts, Moves
  <2>2. CASE c = a /\ d # a
    <3>1. <<op, call[d].op>> \in A \X B
      BY <2>1, <2>2
    <3>2. Running(d)
      BY <2>1, <2>2 DEF Running
    <3> QED
      BY <2>1, <3>1, <3>2
  <2>3. CASE d = a /\ c # a
    <3>1. <<call[c].op, op>> \in A \X B
      BY <2>1, <2>3
    <3>2. Running(c)
      BY <2>1, <2>3 DEF Running
    <3> QED
      BY <2>1, <3>1, <3>2
  <2>4. CASE c # a /\ d # a
    BY <2>1, <2>4 DEF Running
  <2> QED
    BY <2>2, <2>3, <2>4
<1> QED
  BY <1>2, <1>3 DEF Step

--------------------------------------------------------------------------------
(* Claims *)

LEMMA AdoptAlone ==
    ASSUME TypeInv, TypeInv', AdoptsAlone, AdoptersAlone, NEW a \in Calls, NEW k, Step(a, k)
    PROVE  AdoptersAlone'
<1> SUFFICES ASSUME NEW c \in Calls, NEW d \in Calls, Adopting(c)', Running(d)'
             PROVE  c = d
  BY DEF AdoptersAlone
<1>1. /\ {"adopt"} \in SUBSET AllOperations
      /\ {"adopt"} \X AllOperations \subseteq Apart
  BY DEF AllOperations, AdoptsAlone
<1>2. \A x, y \in Calls : call[x].op \in {"adopt"} /\ Running(x) /\ call[y].op \in AllOperations /\ Running(y)
                            => x = y
  BY DEF AdoptersAlone, Adopting
<1>3. call'[c].op \in {"adopt"} /\ Running(c)' /\ call'[d].op \in AllOperations
  <2>1. (Running(d) => call[d].op \in AllOperations)'
    <3>1. Fits(d)' /\ call'[d] \in Requests
      BY DEF TypeInv
    <3> QED
      BY <3>1, DomainConstants DEF Fits, Running, Requests, Steps, AllOperations
  <2> QED
    BY <2>1 DEF Adopting
<1> QED
  BY <1>1, <1>2, <1>3, StepAlone

\* The work of a step on the claims.
LEMMA ClaimStep ==
    ASSUME TypeInv, TypeInv', AdoptsAlone, ClaimInv, NEW c \in Calls, NEW k, Step(c, k),
           LiveSitesHoldTheClaim', Knows(c)',
           \A d \in Calls \ {c} : call[d].pc = "insert" => claim'[call[d].host] = d,
           \A i \in Calls \ {c} : SameSite(i),
           SameSite(c) \/ call[c].pc = "insert",
           \A h \in Hosts : claim'[h] = claim[h] \/ claim'[h] = None
                            \/ (claim'[h] = c /\ k.host = h /\ k.op \in {"add", "adopt"})
    PROVE  ClaimInv'
<1>1. Moves(c, k)
  BY DEF Step, Starts, Continues, GoesOn
<1>2. AdoptersAlone'
  BY AdoptAlone DEF ClaimInv
<1>3. ASSUME NEW d \in Calls \ {c} PROVE Knows(d)'
  <2>1. call'[d] = call[d] /\ Knows(d)
    BY <1>1 DEF Moves, ClaimInv
  <2>2. CASE \A i \in Calls : SameSite(i)
    BY <2>1, <2>2 DEF Knows, SameSite
  <2>3. CASE call[c].pc = "insert"
    <3>1. call[d].pc \notin {"oust", "adopt"}
      <4>1. ~Adopting(d)
        BY <2>3 DEF ClaimInv, AdoptersAlone, Running
      <4>2. Fits(d)
        BY DEF TypeInv
      <4> QED
        BY <4>1, <4>2 DEF Fits, Adopting, Running
    <3> QED
      BY <2>1, <3>1 DEF Knows
  <2> QED
    BY <2>2, <2>3
<1>4. ASSUME NEW h \in Hosts PROVE ClaimedBy(h)'
  <2>1. CASE claim'[h] = claim[h] /\ claim[h] # None
    <3>1. claim[h] \in Calls /\ call[claim[h]].host = h /\ call[claim[h]].op \in {"add", "adopt"}
      BY <2>1 DEF ClaimInv, ClaimedBy, TypeInv, DataOK
    <3>2. CASE claim[h] # c
      BY <1>1, <2>1, <3>1, <3>2 DEF Moves, ClaimedBy
    <3>3. CASE claim[h] = c
      <4>1. k.host = h /\ k.op \in {"add", "adopt"}
        BY <3>1, <3>3, DomainConstants DEF Step, Starts, Continues, GoesOn, AllOperations
      <4> QED
        BY <1>1, <2>1, <3>3, <4>1 DEF Moves, ClaimedBy
    <3> QED
      BY <3>2, <3>3
  <2>2. CASE claim'[h] = None
    BY <2>2 DEF ClaimedBy
  <2>3. CASE claim'[h] = c /\ k.host = h /\ k.op \in {"add", "adopt"}
    BY <1>1, <2>3 DEF ClaimedBy, Moves
  <2> QED
    BY <2>1, <2>2, <2>3
<1> QED
  BY <1>2, <1>3, <1>4 DEF ClaimInv

\* A step that leaves the claims as they are and brings no site to life.
LEMMA ClaimRests ==
    ASSUME TypeInv, TypeInv', AdoptsAlone, ClaimInv, NEW c \in Calls, NEW k, Step(c, k), UNCHANGED claim,
           \A i \in Calls : SameSite(i),
           k.pc # "insert",
           k.pc = "oust" => \A i \in Calls : site[i].live /\ site[i].host = k.host => site[i].tenant # k.tenant,
           k.pc = "adopt" => \A i \in Calls : ~(site'[i].live /\ site[i].host = k.host)
    PROVE  ClaimInv'
<1>1. Moves(c, k)
  BY DEF Step, Starts, Continues, GoesOn
<1>2. LiveSitesHoldTheClaim'
  BY DEF ClaimInv, LiveSitesHoldTheClaim, SameSite
<1>3. Knows(c)'
  BY <1>1 DEF Moves, Knows, SameSite
<1>4. \A d \in Calls \ {c} : call[d].pc = "insert" => claim'[call[d].host] = d
  BY DEF ClaimInv, Knows
<1> QED
  BY <1>2, <1>3, <1>4, ClaimStep

\* Claiming a host for a new row, and giving the claim up.
LEMMA ClaimClaims ==
    ASSUME TypeInv, TypeInv', AdoptsAlone, ClaimInv, NEW c \in Calls, Claims(c)
    PROVE  ClaimInv'
<1>1. PICK k \in Requests :
        /\ GoesOn(c, k)
        /\ k.pc = "done" \/ (k.pc = "insert" /\ call[c].pc \in {"claim", "adopt"})
        /\ AddClaim(c) \/ AdoptClaim(c) => (k.pc = "insert" <=> Goto(c, "insert"))
  BY ClaimsMoves
<1>2. Fits(c) /\ Knows(c) /\ call[c] \in Requests
  BY DEF TypeInv, ClaimInv
<1>3. /\ call[c].pc \in {"claim", "adopt", "release"} /\ Running(c)
      /\ UNCHANGED site
  BY DEF Claims, AddClaim, AdoptClaim, ReleaseClaim, At, Running
<1>4. Step(c, k) /\ Moves(c, k)
  BY <1>1, <1>3 DEF Step, Continues, GoesOn
<1>5. \A i \in Calls : SameSite(i)
  BY <1>3 DEF SameSite, HasSite
<1>6. claim \in [Hosts -> Calls \cup {None}] /\ call[c].host \in Hosts
  BY <1>2, <1>3 DEF TypeInv, DataOK, Fits
<1>7. CASE UNCHANGED claim /\ k.pc = "done"
  BY <1>4, <1>5, <1>7, ClaimRests
<1>8. CASE claim' = [claim EXCEPT ![call[c].host] = c] /\ k.pc = "insert" /\ call[c].pc \in {"claim", "adopt"}
           /\ (call[c].pc = "claim" => claim[call[c].host] = None)
  <2>1. /\ claim'[call[c].host] = c
        /\ \A h \in Hosts : h # call[c].host => claim'[h] = claim[h]
    BY <1>6, <1>8
  <2>2. k.host = call[c].host /\ k.op \in {"add", "adopt"}
    BY <1>1, <1>2, <1>8 DEF GoesOn, Fits
  <2>3. Knows(c)'
    BY <1>4, <1>8, <2>1, <2>2 DEF Knows, Moves
  <2>4. ASSUME NEW i \in Calls, site[i].live PROVE claim'[site[i].host] = i
    <3>1. claim[site[i].host] = i /\ site[i].host \in Hosts
      BY <2>4 DEF ClaimInv, LiveSitesHoldTheClaim, TypeInv, DataOK, Sites, NoSite
    <3>2. site[i].host # call[c].host
      BY <1>2, <1>8, <2>4, <3>1, DomainConstants DEF Knows
    <3> QED
      BY <2>1, <3>1, <3>2
  <2>5. LiveSitesHoldTheClaim'
    BY <1>3, <2>4 DEF LiveSitesHoldTheClaim
  <2>6. ASSUME NEW d \in Calls \ {c}, call[d].pc = "insert" PROVE claim'[call[d].host] = d
    <3>1. claim[call[d].host] = d /\ call[d].host \in Hosts
      BY <2>6 DEF ClaimInv, Knows, TypeInv, Fits
    <3>2. call[c].pc # "adopt"
      <4>1. ~Adopting(c)
        BY <2>6 DEF ClaimInv, AdoptersAlone, Running
      <4> QED
        BY <1>2, <1>3, <4>1 DEF Adopting, Fits
    <3> QED
      BY <1>8, <2>1, <3>1, <3>2, DomainConstants
  <2>7. \A h \in Hosts : claim'[h] = claim[h] \/ (claim'[h] = c /\ k.host = h /\ k.op \in {"add", "adopt"})
    BY <2>1, <2>2
  <2> QED
    BY <1>4, <1>5, <2>3, <2>5, <2>6, <2>7, ClaimStep
<1>9. CASE call[c].pc = "release" /\ k.pc = "done"
           /\ claim' = [claim EXCEPT ![call[c].host] = IF @ = call[c].row THEN None ELSE @]
  <2>1. /\ \A h \in Hosts : claim'[h] = claim[h] \/ (claim'[h] = None /\ claim[h] = call[c].row)
    BY <1>6, <1>9
  <2>2. ~site[call[c].row].live /\ (HasSite(call[c].row) \/ call[c].row = c)
    BY <1>2, <1>9 DEF Fits
  <2>3. Knows(c)'
    BY <1>4, <1>9 DEF Knows, Moves
  <2>4. ASSUME NEW i \in Calls, site[i].live PROVE claim'[site[i].host] = i
    <3>1. claim[site[i].host] = i /\ site[i].host \in Hosts
      BY <2>4 DEF ClaimInv, LiveSitesHoldTheClaim, TypeInv, DataOK, Sites, NoSite
    <3> QED
      BY <2>1, <2>2, <2>4, <3>1
  <2>5. LiveSitesHoldTheClaim'
    BY <1>3, <2>4 DEF LiveSitesHoldTheClaim
  <2>6. ASSUME NEW d \in Calls \ {c}, call[d].pc = "insert" PROVE claim'[call[d].host] = d
    <3>1. claim[call[d].host] = d /\ call[d].host \in Hosts /\ ~HasSite(d)
      BY <2>6 DEF ClaimInv, Knows, TypeInv, Fits
    <3> QED
      BY <2>1, <2>2, <3>1
  <2>7. \A h \in Hosts : claim'[h] = claim[h] \/ claim'[h] = None
    BY <2>1
  <2> QED
    BY <1>4, <1>5, <2>3, <2>5, <2>6, <2>7, ClaimStep
<1>10. \/ UNCHANGED claim /\ k.pc = "done"
       \/ claim' = [claim EXCEPT ![call[c].host] = c] /\ k.pc = "insert" /\ call[c].pc \in {"claim", "adopt"}
          /\ (call[c].pc = "claim" => claim[call[c].host] = None)
       \/ call[c].pc = "release" /\ k.pc = "done"
          /\ claim' = [claim EXCEPT ![call[c].host] = IF @ = call[c].row THEN None ELSE @]
  <2>1. CASE ReleaseClaim(c)
    <3>1. call[c].pc = "release" /\ k.pc = "done"
      BY <1>1, <2>1 DEF ReleaseClaim, At
    <3> QED
      BY <2>1, <3>1 DEF ReleaseClaim
  <2>2. CASE AddClaim(c) \/ AdoptClaim(c)
    <3>1. Finish(c) \/ Goto(c, "insert")
      BY <2>2 DEF AddClaim, AdoptClaim
    <3>2. Goto(c, "insert") <=> k.pc = "insert"
      BY <1>1, <2>2
    <3>3. Finish(c) => call'[c].pc = "done"
      BY <1>2 DEF Finish, Goto, TypeInv, Requests
    <3>4. Finish(c) => k.pc = "done"
      BY <1>4, <3>3 DEF Moves
    <3> QED
      BY <2>2, <3>2, <3>4 DEF AddClaim, AdoptClaim, At
  <2> QED
    BY <2>1, <2>2 DEF Claims
<1> QED
  BY <1>7, <1>8, <1>9, <1>10

LEMMA ClaimInsert ==
    ASSUME TypeInv, TypeInv', AdoptsAlone, ClaimInv, NEW c \in Calls, InsertSite(c)
    PROVE  ClaimInv'
<1>1. PICK k \in Requests :
        /\ GoesOn(c, k)
        /\ \/ /\ k.pc = "done" \/ (k.pc = "provision" /\ k.zone \in Zones /\ k.op = "adopt")
              /\ site' = [site EXCEPT ![c] = [tenant |-> k.tenant, host |-> k.host,
                                              live |-> TRUE, verified |-> k.verified]]
              /\ Works
           \/ k.pc = "release" /\ Fails /\ UNCHANGED site
  BY InsertMoves
<1>2. call[c].pc = "insert" /\ UNCHANGED claim /\ Running(c) /\ claim[call[c].host] = c
  BY DEF InsertSite, At, Running, ClaimInv, Knows
<1>3. Step(c, k) /\ Moves(c, k) /\ k.host = call[c].host
  BY <1>1, <1>2 DEF Step, Continues, GoesOn
<1>4. CASE UNCHANGED site /\ k.pc = "release"
  <2>1. \A i \in Calls : SameSite(i)
    BY <1>4 DEF SameSite, HasSite
  <2> QED
    BY <1>2, <1>3, <1>4, <2>1, ClaimRests
<1>5. CASE k.pc \in {"done", "provision"} /\ site' = [site EXCEPT ![c] = [tenant |-> k.tenant, host |-> k.host,
                                              live |-> TRUE, verified |-> k.verified]]
  <2>1. site'[c].host = k.host /\ \A i \in Calls \ {c} : site'[i] = site[i]
    <3>1. site'[c] = [tenant |-> k.tenant, host |-> k.host, live |-> TRUE, verified |-> k.verified]
      BY <1>5 DEF TypeInv, DataOK
    <3> QED
      BY <1>5, <3>1 DEF TypeInv, DataOK
  <2>2. Knows(c)'
    BY <1>3, <1>5 DEF Knows, Moves
  <2>3. LiveSitesHoldTheClaim'
    BY <1>2, <1>3, <2>1 DEF ClaimInv, LiveSitesHoldTheClaim
  <2>4. \A d \in Calls \ {c} : call[d].pc = "insert" => claim'[call[d].host] = d
    BY <1>2 DEF ClaimInv, Knows
  <2>5. \A i \in Calls \ {c} : SameSite(i)
    BY <2>1 DEF SameSite, HasSite
  <2> QED
    BY <1>2, <1>3, <2>2, <2>3, <2>4, <2>5, ClaimStep
<1> QED
  BY <1>1, <1>4, <1>5

LEMMA Marked ==
    ASSUME TypeInv, NEW i \in Calls, HasSite(i), site' = [site EXCEPT ![i].live = FALSE]
    PROVE  \A j \in Calls : SameSite(j) /\ (j # i => site'[j] = site[j])
<1> DEFINE new == [site[i] EXCEPT !.live = FALSE]
<1>1. /\ ~new.live /\ new.tenant = site[i].tenant /\ new.host = site[i].host
      /\ new # NoSite
  BY DomainConstants DEF TypeInv, DataOK, HasSite, Sites, NoSite
<1>2. site' = [site EXCEPT ![i] = new]
  OBVIOUS
<1> HIDE DEF new
<1>3. site'[i] = new /\ \A j \in Calls \ {i} : site'[j] = site[j]
  BY <1>2 DEF TypeInv, DataOK
<1> QED
  BY <1>1, <1>3 DEF SameSite, HasSite

LEMMA ClaimBegun ==
    ASSUME TypeInv, TypeInv', AdoptsAlone, ClaimInv, NEW c \in Calls, Begun(c)
    PROVE  ClaimInv'
<1>1. UNCHANGED <<site, claim>>
  BY DEF Begun, AddCheck, AdoptFind, DeleteFind, VerifyFind, AddSendingCheck, Finds, Find, DeleteSendingFind,
         VerifySendingFind, PauseFind, ResumeFind, UpdateSettings, rows
<1>2. \A i \in Calls : SameSite(i)
  BY <1>1 DEF SameSite, HasSite
<1>3. ASSUME NEW k, NEW op, Starts(c, k, op), k.pc \notin {"insert", "oust", "adopt"}
      PROVE  ClaimInv'
  BY <1>1, <1>2, <1>3, ClaimRests DEF Step
<1>4. CASE AdoptFind(c)
  <2>1. PICK k \in Requests : /\ Starts(c, k, "adopt") /\ k.pc = "oust"
                              /\ \A i \in LiveSites(k.host) : site[i].tenant # k.tenant
    BY <1>4, AdoptFindMoves
  <2>2. \A i \in Calls : site[i].live /\ site[i].host = k.host => site[i].tenant # k.tenant
    BY <2>1 DEF LiveSites
  <2> QED
    BY <1>1, <1>2, <2>1, <2>2, ClaimRests DEF Step
<1>5. CASE AddCheck(c)
  BY <1>3, <1>5, AddCheckMoves
<1>6. CASE DeleteFind(c)
  BY <1>3, <1>6, DeleteFindMoves
<1>7. CASE VerifyFind(c)
  BY <1>3, <1>7, VerifyFindMoves
<1>8. CASE AddSendingCheck(c)
  BY <1>3, <1>8, AddSendingCheckMoves
<1>9. CASE Finds(c)
  <2>1. \A op : FirstStep(op) \notin {"insert", "oust", "adopt"}
    BY DEF FirstStep
  <2> QED
    BY <1>3, <1>9, <2>1, FindsMoves
<1>10. CASE UpdateSettings(c)
  BY <1>3, <1>10, SettingsMoves
<1> QED
  BY <1>4, <1>5, <1>6, <1>7, <1>8, <1>9, <1>10 DEF Begun

LEMMA ClaimMark ==
    ASSUME TypeInv, TypeInv', AdoptsAlone, ClaimInv, NEW c \in Calls, DeleteMark(c)
    PROVE  ClaimInv'
<1>1. PICK k \in Requests :
        /\ GoesOn(c, k)
        /\ \/ k.pc = "release" /\ site' = [site EXCEPT ![call[c].row].live = FALSE] /\ Works
           \/ k.pc = "done" /\ Fails /\ UNCHANGED site
  BY MarkMoves
<1>2. At(c, "mark") /\ UNCHANGED claim /\ Running(c)
  BY DEF DeleteMark, At, Running
<1>3. Step(c, k)
  BY <1>1, <1>2 DEF Step, Continues
<1>4. \A i \in Calls : SameSite(i)
  <2>1. CASE UNCHANGED site
    BY <2>1 DEF SameSite, HasSite
  <2>2. CASE site' = [site EXCEPT ![call[c].row].live = FALSE]
    <3>1. call[c].row \in Calls /\ HasSite(call[c].row)
      BY <1>2 DEF TypeInv, Fits, At
    <3>2. PICK i \in Calls : i = call[c].row
      BY <3>1
    <3> QED
      BY <2>2, <3>1, <3>2, Marked
  <2> QED
    BY <1>1, <2>1, <2>2
<1> QED
  BY <1>1, <1>2, <1>3, <1>4, ClaimRests

LEMMA ClaimOust ==
    ASSUME TypeInv, TypeInv', AdoptsAlone, ClaimInv, NEW c \in Calls, AdoptOust(c)
    PROVE  ClaimInv'
<1>1. PICK k \in Requests :
        /\ GoesOn(c, k)
        /\ \/ /\ k.pc = "adopt" /\ Works
              /\ site' = [i \in Calls |->
                            IF i \in LiveSites(call[c].host) /\ site[i].tenant # call[c].tenant
                            THEN [site[i] EXCEPT !.live = FALSE] ELSE site[i]]
           \/ k.pc = "done" /\ Fails /\ UNCHANGED site
  BY OustMoves
<1>2. call[c].pc = "oust" /\ UNCHANGED claim /\ Running(c) /\ Knows(c)
  BY DEF AdoptOust, At, Running, ClaimInv
<1>3. Step(c, k) /\ k.host = call[c].host
  BY <1>1, <1>2 DEF Step, Continues, GoesOn
<1>4. CASE k.pc = "done" /\ UNCHANGED site
  <2>1. \A i \in Calls : SameSite(i)
    BY <1>4 DEF SameSite, HasSite
  <2> QED
    BY <1>2, <1>3, <1>4, <2>1, ClaimRests
<1>5. CASE /\ k.pc = "adopt"
           /\ site' = [i \in Calls |->
                         IF i \in LiveSites(call[c].host) /\ site[i].tenant # call[c].tenant
                         THEN [site[i] EXCEPT !.live = FALSE] ELSE site[i]]
  <2>1. \A i \in Calls : /\ SameSite(i)
                         /\ IF i \in LiveSites(call[c].host) /\ site[i].tenant # call[c].tenant
                            THEN ~site'[i].live ELSE site'[i] = site[i]
    <3>1. PICK h, t : h = call[c].host /\ t = call[c].tenant
      OBVIOUS
    <3>2. site' = [i \in Calls |-> IF i \in LiveSites(h) /\ site[i].tenant # t
                                   THEN [site[i] EXCEPT !.live = FALSE] ELSE site[i]]
      BY <1>5, <3>1
    <3>3. \A i \in Calls : /\ SameSite(i)
                           /\ IF i \in LiveSites(h) /\ site[i].tenant # t THEN ~site'[i].live
                              ELSE site'[i] = site[i]
      BY <3>2, Ousted
    <3> QED
      BY <3>1, <3>3
  <2>2. ASSUME NEW i \in Calls, site'[i].live, site[i].host = k.host PROVE FALSE
    <3>1. site[i].live /\ SameSite(i)
      BY <2>1, <2>2 DEF SameSite
    <3>2. site[i].tenant # call[c].tenant
      BY <1>2, <1>3, <2>2, <3>1 DEF Knows
    <3>3. i \in LiveSites(call[c].host)
      BY <1>3, <2>2, <3>1 DEF LiveSites
    <3> QED
      BY <2>1, <2>2, <3>2, <3>3
  <2>3. \A i \in Calls : SameSite(i)
    BY <2>1
  <2> QED
    BY <1>2, <1>3, <1>5, <2>2, <2>3, ClaimRests
<1> QED
  BY <1>1, <1>4, <1>5

\* Every other step of a request that is running.
Others(c) ==
    \/ VerifyMark(c) \/ ProvisionFind(c) \/ ProvisionSidecar(c) \/ ProvisionSave(c)
    \/ Forgets(c) \/ Hold(c) \/ WriteBack(c) \/ Ends(c)

LEMMA OthersMove ==
    ASSUME TypeInv, NEW c \in Calls, Others(c)
    PROVE  /\ \E k \in Requests : Step(c, k) /\ k.pc \notin {"insert", "oust", "adopt"}
           /\ UNCHANGED claim
           /\ \A i \in Calls : SameSite(i) /\ (site'[i].live <=> site[i].live)
           /\ call[c].pc \in {"claim", "insert", "release", "mark", "oust", "adopt"} => Fails
<1>1. Running(c)
  BY DEF Others, VerifyMark, ProvisionFind, ProvisionSidecar, ProvisionSave, Forgets, ProvisionUndo,
         DeleteSendingForget, Hold, WriteBack, Ends, SetFrom, DomainCrash, At, Running
<1>2. ASSUME NEW k, GoesOn(c, k) PROVE Step(c, k)
  BY <1>1, <1>2 DEF Step, Continues
<1>3. CASE VerifyMark(c)
  <2>1. PICK k \in Requests :
          /\ GoesOn(c, k) /\ (k.pc = "done" \/ (k.pc = "provision" /\ k.zone \in Zones))
          /\ \/ site' = [site EXCEPT ![call[c].row].verified = TRUE] /\ Works
             \/ Fails /\ UNCHANGED site /\ k.pc = "done"
    BY <1>3, VerifyMarkMoves
  <2>2. call[c].pc = "verify" /\ UNCHANGED claim
    BY <1>3 DEF VerifyMark, At
  <2>3. call[c].row \in Calls /\ HasSite(call[c].row)
    BY <2>2 DEF TypeInv, Fits
  <2>4. \A i \in Calls : SameSite(i) /\ (site'[i].live <=> site[i].live)
    BY <2>1, <2>3, Verified
  <2> QED
    BY <1>2, <2>1, <2>2, <2>4
<1>4. CASE ~VerifyMark(c)
  <2>1. UNCHANGED <<site, claim>>
    BY <1>4 DEF Others, ProvisionFind, ProvisionSidecar, ProvisionSave, Forgets, ProvisionUndo,
         DeleteSendingForget, Forget, Hold, WriteBack, Ends, SetFrom, DomainCrash, rows
  <2>2. \A i \in Calls : SameSite(i) /\ (site'[i].live <=> site[i].live)
    BY <2>1 DEF SameSite, HasSite
  <2>3. call[c].pc \in {"claim", "insert", "release", "mark", "oust", "adopt"} => Fails
    BY <1>4 DEF Others, ProvisionFind, ProvisionSidecar, ProvisionSave, Forgets, ProvisionUndo,
         DeleteSendingForget, Hold, WriteBack, Ends, SetFrom, DomainCrash, At
  <2>4. \E k \in Requests : GoesOn(c, k) /\ k.pc \notin {"insert", "oust", "adopt"}
    <3>1. CASE ProvisionFind(c)
      BY <3>1, ProvisionFindMoves
    <3>2. CASE ProvisionSidecar(c)
      BY <3>2, ProvisionSidecarMoves
    <3>3. CASE ProvisionSave(c)
      BY <3>3, ProvisionSaveMoves
    <3>4. CASE Forgets(c)
      BY <3>4, ForgetMoves
    <3>5. CASE Hold(c)
      BY <3>5, HoldMoves
    <3>6. CASE WriteBack(c)
      BY <3>6, WriteBackMoves
    <3>7. CASE Ends(c)
      BY <3>7, EndsMoves
    <3> QED
      BY <1>4, <3>1, <3>2, <3>3, <3>4, <3>5, <3>6, <3>7 DEF Others
  <2> QED
    BY <1>2, <2>1, <2>2, <2>3, <2>4
<1> QED
  BY <1>3, <1>4

LEMMA ClaimOthers ==
    ASSUME TypeInv, TypeInv', AdoptsAlone, ClaimInv, NEW c \in Calls, Others(c)
    PROVE  ClaimInv'
  BY OthersMove, ClaimRests

LEMMA ClaimInit == Init => ClaimInv
<1> SUFFICES ASSUME Init PROVE ClaimInv
  OBVIOUS
<1>1. \A c \in Calls : call[c].pc = "new" /\ ~site[c].live
  BY IdleType DEF Init, NoSite
<1>2. \A h \in Hosts : claim[h] = None
  BY DEF Init
<1> QED
  BY <1>1, <1>2 DEF ClaimInv, AdoptersAlone, Adopting, Running, LiveSitesHoldTheClaim, Knows, ClaimedBy

LEMMA ClaimNext ==
    ASSUME TypeInv, TypeInv', AdoptsAlone, ClaimInv, [Next]_vars
    PROVE  ClaimInv'
<1>1. CASE UNCHANGED vars
  BY <1>1 DEF vars, ClaimInv, AdoptersAlone, Adopting, Running, LiveSitesHoldTheClaim, Knows, ClaimedBy
<1>2. CASE Next
  BY <1>2, NextSteps, ClaimBegun, ClaimClaims, ClaimInsert, ClaimMark, ClaimOust, ClaimOthers DEF Others
<1> QED
  BY <1>1, <1>2

--------------------------------------------------------------------------------
(* Releases *)

\* Without a fault so far, a step spoils nobody else's reason to hold a claim.
LEMMA StillClaimed ==
    ASSUME NEW c \in Calls, NEW k, Moves(c, k), NEW h, NEW i \in Calls, Claimed(h, i),
           site[i].live => site'[i].live,
           call[c].pc = "insert" => i # c,
           call[c].pc = "release" => ~(call[c].row = i /\ call[c].host = h),
           call[c].pc = "adopt" => call[c].host # h
    PROVE  Claimed(h, i)'
<1>1. \A d \in Calls : call[d].pc # call'[d].pc => d = c
  BY DEF Moves
<1>2. \A d \in Calls : d = c \/ call'[d] = call[d]
  BY DEF Moves
<1>3. CASE site[i].live
  BY <1>3 DEF Claimed
<1>4. CASE At(i, "insert")
  BY <1>2, <1>4 DEF Claimed, At
<1>5. ASSUME NEW d \in Calls, At(d, "release"), call[d].row = i, call[d].host = h PROVE Claimed(h, i)'
  BY <1>2, <1>5 DEF Claimed, At
<1>6. ASSUME NEW d \in Calls, At(d, "adopt"), call[d].host = h PROVE Claimed(h, i)'
  BY <1>2, <1>6 DEF Claimed, At
<1> QED
  BY <1>3, <1>4, <1>5, <1>6 DEF Claimed

\* A step that leaves claims and live sites as they are.
LEMMA ReleaseRests ==
    ASSUME TypeInv, ReleaseInv, NEW c \in Calls, NEW k, Moves(c, k), UNCHANGED claim,
           \A i \in Calls : site[i].live => site'[i].live,
           call[c].pc \notin {"insert", "release", "adopt"},
           faults' = 0 => faults = 0
    PROVE  ReleaseInv'
<1> SUFFICES ASSUME faults = 0, NEW h \in Hosts, NEW i \in Calls, claim[h] = i
             PROVE  Claimed(h, i)'
  BY DEF ReleaseInv
<1>1. Claimed(h, i)
  BY DEF ReleaseInv
<1> QED
  BY <1>1, StillClaimed

LEMMA ReleaseClaims ==
    ASSUME TypeInv, TypeInv', ClaimInv, ReleaseInv, NEW c \in Calls, Claims(c)
    PROVE  ReleaseInv'
<1>1. PICK k \in Requests :
        /\ GoesOn(c, k)
        /\ k.pc = "done" \/ (k.pc = "insert" /\ call[c].pc \in {"claim", "adopt"})
        /\ AddClaim(c) \/ AdoptClaim(c) => (k.pc = "insert" <=> Goto(c, "insert"))
  BY ClaimsMoves
<1> SUFFICES ASSUME faults' = 0, NEW h \in Hosts, NEW i \in Calls, claim'[h] = i
             PROVE  Claimed(h, i)'
  BY DEF ReleaseInv
<1>2. Moves(c, k) /\ k.host = call[c].host /\ k.row = call[c].row /\ Fits(c) /\ call[c].host \in Hosts
  BY <1>1 DEF GoesOn, TypeInv, Fits, Claims, AddClaim, AdoptClaim, ReleaseClaim, At
<1>3. faults = 0 /\ ~Fails /\ UNCHANGED site
  BY DomainConstants DEF Claims, AddClaim, AdoptClaim, ReleaseClaim, Works, Fails, TypeInv, DataOK
<1>4. claim'[h] = i
  OBVIOUS
<1>5. claim \in [Hosts -> Calls \cup {None}]
  BY DEF TypeInv, DataOK
<1>6. CASE i = c /\ h = call[c].host /\ Goto(c, "insert") /\ (AddClaim(c) \/ AdoptClaim(c))
  <2>1. At(c, "insert")'
    BY <1>1, <1>2, <1>6 DEF Moves, At
  <2> QED
    BY <1>4, <1>6, <2>1 DEF Claimed
<1>7. CASE /\ claim[h] = i
           /\ call[c].pc = "release" => ~(call[c].row = i /\ call[c].host = h)
           /\ call[c].pc = "adopt" => call[c].host # h
           /\ call[c].pc # "insert"
  <2>1. Claimed(h, i)
    BY <1>3, <1>4, <1>7 DEF ReleaseInv
  <2>2. Claimed(h, i)'
    BY <1>2, <1>3, <1>7, <2>1, StillClaimed
  <2> QED
    BY <1>4, <2>2 DEF Claimed
<1>8. CASE AddClaim(c)
  <2>1. call[c].pc = "claim" /\ \/ UNCHANGED claim
                                \/ claim' = [claim EXCEPT ![call[c].host] = c] /\ Goto(c, "insert")
    BY <1>8 DEF AddClaim, At
  <2> QED
    BY <1>2, <1>4, <1>5, <1>6, <1>7, <1>8, <2>1
<1>9. CASE AdoptClaim(c)
  <2>1. call[c].pc = "adopt" /\ claim' = [claim EXCEPT ![call[c].host] = c] /\ Goto(c, "insert")
    BY <1>3, <1>9 DEF AdoptClaim, At
  <2> QED
    BY <1>2, <1>4, <1>5, <1>6, <1>7, <1>9, <2>1
<1>10. CASE ReleaseClaim(c)
  <2>1. /\ call[c].pc = "release"
        /\ claim' = [claim EXCEPT ![call[c].host] = IF @ = call[c].row THEN None ELSE @]
    BY <1>3, <1>10 DEF ReleaseClaim, At
  <2>2. claim[h] = i /\ ~(call[c].row = i /\ call[c].host = h)
    BY <1>2, <1>4, <1>5, <2>1, DomainConstants
  <2> QED
    BY <1>7, <2>1, <2>2
<1> QED
  BY <1>8, <1>9, <1>10 DEF Claims

LEMMA ReleaseInsert ==
    ASSUME TypeInv, TypeInv', ClaimInv, ReleaseInv, NEW c \in Calls, InsertSite(c)
    PROVE  ReleaseInv'
<1>1. PICK k \in Requests :
        /\ GoesOn(c, k)
        /\ \/ /\ k.pc = "done" \/ (k.pc = "provision" /\ k.zone \in Zones /\ k.op = "adopt")
              /\ site' = [site EXCEPT ![c] = [tenant |-> k.tenant, host |-> k.host,
                                              live |-> TRUE, verified |-> k.verified]]
              /\ Works
           \/ k.pc = "release" /\ Fails /\ UNCHANGED site
  BY InsertMoves
<1> SUFFICES ASSUME faults' = 0, NEW h \in Hosts, NEW i \in Calls, claim[h] = i
             PROVE  Claimed(h, i)'
  BY DEF ReleaseInv, InsertSite
<1>2. call[c].pc = "insert" /\ UNCHANGED claim /\ Moves(c, k)
  BY <1>1 DEF InsertSite, At, GoesOn
<1>3. faults = 0 /\ ~Fails
  BY DomainConstants DEF InsertSite, Works, Fails, TypeInv, DataOK
<1>4. site' = [site EXCEPT ![c] = [tenant |-> k.tenant, host |-> k.host, live |-> TRUE, verified |-> k.verified]]
  BY <1>1, <1>3
<1>5. site'[c].live /\ \A j \in Calls \ {c} : site'[j] = site[j]
  <2>1. site'[c] = [tenant |-> k.tenant, host |-> k.host, live |-> TRUE, verified |-> k.verified]
    BY <1>4 DEF TypeInv, DataOK
  <2> QED
    BY <1>4, <2>1 DEF TypeInv, DataOK
<1>6. claim[h] = i /\ i # None
  BY DomainConstants
<1>7. CASE i = c
  BY <1>2, <1>5, <1>6, <1>7 DEF Claimed
<1>8. CASE i # c
  <2>1. Claimed(h, i)
    BY <1>3, <1>6 DEF ReleaseInv
  <2>2. Claimed(h, i)'
    BY <1>2, <1>5, <1>8, <2>1, StillClaimed
  <2> QED
    BY <1>2, <1>6, <2>2 DEF Claimed
<1> QED
  BY <1>7, <1>8

\* Ousting a site, and marking it deleted, goes on to the release of its host.
LEMMA ReleaseMark ==
    ASSUME TypeInv, TypeInv', ClaimInv, ReleaseInv, NEW c \in Calls, DeleteMark(c)
    PROVE  ReleaseInv'
<1>1. PICK k \in Requests :
        /\ GoesOn(c, k)
        /\ \/ k.pc = "release" /\ site' = [site EXCEPT ![call[c].row].live = FALSE] /\ Works
           \/ k.pc = "done" /\ Fails /\ UNCHANGED site
  BY MarkMoves
<1> SUFFICES ASSUME faults' = 0, NEW h \in Hosts, NEW i \in Calls, claim[h] = i
             PROVE  Claimed(h, i)'
  BY DEF ReleaseInv, DeleteMark
<1>2. /\ call[c].pc = "mark" /\ UNCHANGED claim /\ Moves(c, k) /\ Fits(c)
      /\ k.row = call[c].row /\ k.host = call[c].host
  BY <1>1 DEF DeleteMark, At, GoesOn, TypeInv
<1>3. faults = 0 /\ ~Fails
  BY DomainConstants DEF DeleteMark, Works, Fails, TypeInv, DataOK
<1>4. PICK r \in Calls : r = call[c].row
  BY <1>2 DEF Fits
<1>5. k.pc = "release" /\ site' = [site EXCEPT ![r].live = FALSE] /\ HasSite(r) /\ call[c].host = site[r].host
  BY <1>1, <1>2, <1>3, <1>4 DEF Fits
<1>6. \A j \in Calls : SameSite(j) /\ (j # r => site'[j] = site[j])
  BY <1>5, Marked
<1>7. claim[h] = i /\ i # None
  BY DomainConstants
<1>8. CASE i = r
  <2>1. call[r].host = h /\ site[r].host = call[r].host
    <3>1. OwnRows(r) /\ ClaimedBy(h)
      BY DEF TypeInv, ClaimInv
    <3> QED
      BY <1>5, <1>7, <1>8, <3>1 DEF ClaimedBy, OwnRows
  <2>2. At(c, "release")' /\ call'[c].row = i /\ call'[c].host = h
    BY <1>2, <1>4, <1>5, <1>8, <2>1 DEF Moves, At
  <2> QED
    BY <1>2, <1>7, <2>2 DEF Claimed
<1>9. CASE i # r
  <2>1. Claimed(h, i)
    BY <1>3, <1>7 DEF ReleaseInv
  <2>2. Claimed(h, i)'
    BY <1>2, <1>6, <1>9, <2>1, StillClaimed
  <2> QED
    BY <1>2, <1>7, <2>2 DEF Claimed
<1> QED
  BY <1>8, <1>9

LEMMA ReleaseOust ==
    ASSUME TypeInv, TypeInv', ClaimInv, ReleaseInv, NEW c \in Calls, AdoptOust(c)
    PROVE  ReleaseInv'
<1>1. PICK k \in Requests :
        /\ GoesOn(c, k)
        /\ \/ /\ k.pc = "adopt" /\ Works
              /\ site' = [i \in Calls |->
                            IF i \in LiveSites(call[c].host) /\ site[i].tenant # call[c].tenant
                            THEN [site[i] EXCEPT !.live = FALSE] ELSE site[i]]
           \/ k.pc = "done" /\ Fails /\ UNCHANGED site
  BY OustMoves
<1> SUFFICES ASSUME faults' = 0, NEW h \in Hosts, NEW i \in Calls, claim[h] = i
             PROVE  Claimed(h, i)'
  BY DEF ReleaseInv, AdoptOust
<1>2. /\ call[c].pc = "oust" /\ UNCHANGED claim /\ Moves(c, k) /\ k.host = call[c].host
  BY <1>1 DEF AdoptOust, At, GoesOn
<1>3. faults = 0 /\ ~Fails
  BY DomainConstants DEF AdoptOust, Works, Fails, TypeInv, DataOK
<1>4. /\ k.pc = "adopt"
      /\ site' = [j \in Calls |->
                    IF j \in LiveSites(call[c].host) /\ site[j].tenant # call[c].tenant
                    THEN [site[j] EXCEPT !.live = FALSE] ELSE site[j]]
  BY <1>1, <1>3
<1>5. \A j \in Calls : site[j].host # call[c].host => site'[j] = site[j]
  BY <1>4 DEF LiveSites
<1>6. claim[h] = i /\ i # None
  BY DomainConstants
<1>7. call[i].host = h
  BY <1>6 DEF ClaimInv, ClaimedBy
<1>8. CASE h = call[c].host
  <2>1. At(c, "adopt")' /\ call'[c].host = h
    BY <1>2, <1>4, <1>8 DEF Moves, At
  <2> QED
    BY <2>1 DEF Claimed
<1>9. CASE h # call[c].host
  <2>1. Claimed(h, i)
    BY <1>3, <1>6 DEF ReleaseInv
  <2>2. site[i].live => site[i].host = h
    BY <1>7 DEF TypeInv, OwnRows, HasSite, NoSite
  <2>3. site[i].live => site'[i].live
    BY <1>5, <1>9, <2>2
  <2>4. Claimed(h, i)'
    BY <1>2, <2>1, <2>3, StillClaimed
  <2> QED
    BY <1>2, <1>6, <2>4 DEF Claimed
<1> QED
  BY <1>8, <1>9

LEMMA ReleaseBegun ==
    ASSUME TypeInv, ReleaseInv, NEW c \in Calls, Begun(c)
    PROVE  ReleaseInv'
<1>1. UNCHANGED <<site, claim, faults>>
  BY DEF Begun, AddCheck, AdoptFind, DeleteFind, VerifyFind, AddSendingCheck, Finds, Find, DeleteSendingFind,
         VerifySendingFind, PauseFind, ResumeFind, UpdateSettings, rows
<1>2. ASSUME NEW k, NEW op, Starts(c, k, op) PROVE ReleaseInv'
  BY <1>1, <1>2, ReleaseRests DEF Starts
<1> QED
  BY <1>2, AddCheckMoves, AdoptFindMoves, DeleteFindMoves, VerifyFindMoves, AddSendingCheckMoves, FindsMoves,
     SettingsMoves DEF Begun

LEMMA ReleaseOthers ==
    ASSUME TypeInv, TypeInv', ReleaseInv, NEW c \in Calls, Others(c)
    PROVE  ReleaseInv'
<1>1. PICK k \in Requests : Step(c, k)
  BY OthersMove
<1>2. /\ UNCHANGED claim
      /\ \A i \in Calls : site[i].live => site'[i].live
      /\ call[c].pc \in {"insert", "release", "adopt"} => Fails
  BY OthersMove
<1>3. Moves(c, k)
  BY <1>1 DEF Step, Starts, Continues, GoesOn
<1>4. CASE Fails
  <2>1. faults' # 0
    BY <1>4, DomainConstants DEF Fails, TypeInv, DataOK
  <2> QED
    BY <2>1 DEF ReleaseInv
<1>5. CASE ~Fails
  <2>1. faults' = 0 => faults = 0
    BY DomainConstants DEF TypeInv, DataOK, Works, Others, VerifyMark, ProvisionFind, ProvisionSidecar,
       ProvisionSave, Forgets, ProvisionUndo, DeleteSendingForget, Forget, Hold, WriteBack, Ends, SetFrom,
       DomainCrash, Fails
  <2> QED
    BY <1>2, <1>3, <1>5, <2>1, ReleaseRests
<1> QED
  BY <1>4, <1>5

LEMMA ReleaseInit == Init => ReleaseInv
  BY DomainConstants DEF Init, ReleaseInv

LEMMA ReleaseNext ==
    ASSUME TypeInv, TypeInv', ClaimInv, ReleaseInv, [Next]_vars
    PROVE  ReleaseInv'
<1>1. CASE UNCHANGED vars
  BY <1>1 DEF vars, ReleaseInv, Claimed, At
<1>2. CASE Next
  BY <1>2, NextSteps, ReleaseBegun, ReleaseClaims, ReleaseInsert, ReleaseMark, ReleaseOust, ReleaseOthers
     DEF Others
<1> QED
  BY <1>1, <1>2

\* Whatever is added, deleted, adopted and verified at once, a live site holds
\* the claim of its host, and without faults no claim outlives the row it is for,
\* as long as the end-to-end suite adopts a host while nothing else is under way.
THEOREM ClaimsFollow == ASSUME AdoptsAlone PROVE Spec => []ClaimsFollowSites
<1>1. TypeInv /\ ClaimInv /\ ReleaseInv => ClaimsFollowSites
  <2> SUFFICES ASSUME TypeInv, ClaimInv, ReleaseInv PROVE ClaimsFollowSites
    OBVIOUS
  <2>1. ASSUME Quiet, faults = 0, NEW h \in Hosts, claim[h] # None PROVE site[claim[h]].live
    <3>1. claim[h] \in Calls /\ Claimed(h, claim[h])
      BY <2>1 DEF TypeInv, DataOK, ReleaseInv
    <3> QED
      BY <2>1, <3>1 DEF Claimed, Quiet, Running, At
  <2> QED
    BY <2>1 DEF ClaimInv, ClaimsFollowSites, ClaimsAreReleased
<1>2. Spec => [](TypeInv /\ ClaimInv /\ ReleaseInv)
  BY TypeInit, TypeNext, ClaimInit, ClaimNext, ReleaseInit, ReleaseNext, PTL DEF Spec
<1> QED
  BY <1>1, <1>2, PTL

--------------------------------------------------------------------------------
(* The sidecar *)

LEMMA SendingsAlone ==
    ASSUME TypeInv, SendingAlone, OneAtATime, NEW a \in Calls, NEW k, Step(a, k)
    PROVE  OneAtATime'
<1> SUFFICES ASSUME NEW c \in Calls, NEW d \in Calls, Sending(c)', Sending(d)'
             PROVE  c = d
  BY DEF OneAtATime
<1>1. SendingOperations \in SUBSET AllOperations /\ SendingOperations \X SendingOperations \subseteq Apart
  BY DEF AllOperations, SendingOperations, SendingAlone
<1>2. \A x, y \in Calls : call[x].op \in SendingOperations /\ Running(x)
                            /\ call[y].op \in SendingOperations /\ Running(y) => x = y
  BY DEF OneAtATime, Sending
<1>3. call'[c].op \in SendingOperations /\ Running(c)' /\ call'[d].op \in SendingOperations /\ Running(d)'
  BY DEF Sending
<1> QED
  BY <1>1, <1>2, <1>3, StepAlone

\* The steps at which a request minds a zone are those of sending operations.
Minding == {"sidecar", "save", "unsidecar", "forget", "hold", "write"}

LEMMA MindsSending ==
    ASSUME TypeInv, NEW c \in Calls, call[c].pc \in Minding \cup {"provision", "from"}
    PROVE  Sending(c)
  BY DEF TypeInv, Fits, Minding, Sending, SendingOperations, Running

LEMMA NobodyElseMinds ==
    ASSUME TypeInv, OneAtATime, NEW c \in Calls, Sending(c)
    PROVE  \A d \in Calls : call[d].pc \in Minding => d = c
  BY MindsSending DEF OneAtATime

\* A step that changes neither rows, nor the sidecar, nor a queue.
LEMMA SidecarRests ==
    ASSUME TypeInv, SendingAlone, SidecarInv, NEW c \in Calls, NEW k, Step(c, k),
           UNCHANGED <<sending, sidecar, held>>, faults' = 0 => faults = 0,
           faults' = 0 => call[c].pc \notin {"save", "write"} /\ Minds(c)'
    PROVE  SidecarInv'
<1>1. Moves(c, k)
  BY DEF Step, Starts, Continues, GoesOn
<1>2. OneAtATime'
  BY SendingsAlone DEF SidecarInv
<1> SUFFICES ASSUME faults' = 0
             PROVE  /\ \A z \in Zones : Busy(z)' \/ Settled(z)'
                    /\ \A d \in Calls : Minds(d)'
  BY <1>2 DEF SidecarInv
<1>3. ASSUME NEW z \in Zones PROVE Busy(z)' \/ Settled(z)'
  <2>1. CASE Busy(z)
    BY <1>1, <2>1 DEF Busy, Moves
  <2>2. CASE Settled(z)
    BY <2>2 DEF Settled, Sole, Lives, NoneLives
  <2> QED
    BY <2>1, <2>2 DEF SidecarInv
<1>4. ASSUME NEW d \in Calls \ {c} PROVE Minds(d)'
  <2>1. call'[d] = call[d] /\ Minds(d)
    BY <1>1 DEF Moves, SidecarInv
  <2> QED
    BY <2>1 DEF Minds, Sole, Lives, NoneLives
<1> QED
  BY <1>3, <1>4

\* A step that touches one zone, the one the request is about.
LEMMA SettledElsewhere ==
    ASSUME NEW z \in Zones, Settled(z), sidecar'[z] = sidecar[z], z \in held' <=> z \in held,
           \A j \in Calls : sending'[j] = sending[j] \/ (sending[j].zone # z /\ sending'[j].zone # z)
    PROVE  Settled(z)'
<1> SUFFICES ASSUME NEW t \in Tenants, Sole(z, t)'
             PROVE  /\ \A i \in Calls : Lives(i, t, z)' =>
                         sidecar'[z] = i /\ (sending'[i].status = "paused" <=> z \in held')
                    /\ NoneLives(t, z)' => z \notin held'
  BY DEF Settled
<1>1. Sole(z, t)
  BY DEF Sole
<1>2. \A i \in Calls : Lives(i, t, z)' <=> Lives(i, t, z)
  BY DEF Lives
<1>3. \A i \in Calls : Lives(i, t, z)' => sending'[i] = sending[i]
  BY DEF Lives
<1>4. \A i \in Calls : Lives(i, t, z) => sidecar[z] = i /\ (sending[i].status = "paused" <=> z \in held)
  BY <1>1 DEF Settled
<1>5. NoneLives(t, z) => z \notin held
  BY <1>1 DEF Settled
<1>6. NoneLives(t, z)' => NoneLives(t, z)
  BY <1>2 DEF NoneLives
<1> QED
  BY <1>2, <1>3, <1>4, <1>5, <1>6

LEMMA SidecarTouches ==
    ASSUME TypeInv, SendingAlone, SidecarInv, NEW c \in Calls, NEW k, GoesOn(c, k), faults = 0,
           call[c].pc \in Minding, Minds(c)', NEW z \in Zones, z = call[c].zone, Busy(z)' \/ Settled(z)',
           \A y \in Zones \ {z} : /\ sidecar'[y] = sidecar[y] /\ (y \in held' <=> y \in held)
                                  /\ \A j \in Calls : sending'[j] = sending[j]
                                                      \/ (sending[j].zone # y /\ sending'[j].zone # y)
    PROVE  SidecarInv'
<1>1. Sending(c) /\ Running(c) /\ Moves(c, k)
  BY MindsSending DEF Sending, GoesOn
<1>2. OneAtATime'
  <2>1. Step(c, k)
    BY <1>1 DEF Step, Continues
  <2> QED
    BY <2>1, SendingsAlone DEF SidecarInv
<1>3. \A d \in Calls : call[d].pc \in Minding => d = c
  BY <1>1, NobodyElseMinds DEF SidecarInv
<1>4. ASSUME NEW d \in Calls \ {c} PROVE Minds(d)'
  <2>1. call'[d].pc \notin Minding
    BY <1>1, <1>3 DEF Moves
  <2> QED
    BY <2>1 DEF Minding, Minds
<1>5. ASSUME NEW y \in Zones \ {z} PROVE Settled(y)'
  <2>1. ~Busy(y)
    BY <1>3 DEF Busy, Minding
  <2>2. Settled(y)
    BY <2>1 DEF SidecarInv
  <2> QED
    BY <2>2, SettledElsewhere
<1> QED
  BY <1>2, <1>4, <1>5 DEF SidecarInv

\* What follows from two requests about sending domains not overlapping.
LEMMA BeginsAlone ==
    ASSUME TypeInv, SendingAlone, NEW c \in Calls, NEW k, NEW op \in SendingOperations, Starts(c, k, op)
    PROVE  \A d \in Calls : call[d].pc \notin Minding
<1> SUFFICES ASSUME NEW d \in Calls, call[d].pc \in Minding PROVE FALSE
  OBVIOUS
<1>1. call[d].op \in SendingOperations /\ Running(d)
  BY MindsSending DEF Sending
<1>2. <<op, call[d].op>> \in Apart
  BY <1>1 DEF SendingAlone
<1> QED
  BY <1>1, <1>2 DEF Starts

LEMMA SidecarBegun ==
    ASSUME TypeInv, SendingAlone, SidecarInv, NEW c \in Calls, Begun(c)
    PROVE  SidecarInv'
<1>1. UNCHANGED <<sending, sidecar, held, faults>>
  BY DEF Begun, AddCheck, AdoptFind, DeleteFind, VerifyFind, AddSendingCheck, Finds, Find, DeleteSendingFind,
         VerifySendingFind, PauseFind, ResumeFind, UpdateSettings, rows
<1>2. ASSUME NEW k, NEW op, Starts(c, k, op), k.pc \notin Minding
      PROVE  SidecarInv'
  <2>1. Step(c, k) /\ call[c].pc \notin {"save", "write"}
    BY <1>2 DEF Step, Starts
  <2>2. Minds(c)'
    BY <1>2 DEF Minds, Starts, Moves, Minding
  <2> QED
    BY <1>1, <2>1, <2>2, SidecarRests
<1>3. CASE Finds(c)
  <2>1. PICK k \in Requests, op \in RowOperations :
          /\ Starts(c, k, op) /\ k.pc = FirstStep(op) /\ k.row \in Calls
          /\ sending[k.row] \in SendingRows /\ sending[k.row].live
          /\ k.tenant = sending[k.row].tenant /\ k.zone = sending[k.row].zone
          /\ k.copy = Changed(op, sending[k.row])
          /\ op = "verifySending" => sending[k.row].status = "pending_dns"
    BY <1>3, FindsMoves
  <2>2. op \in SendingOperations /\ k.op = op /\ call'[c] = k
    BY <2>1 DEF SendingOperations, RowOperations, Starts, Moves
  <2>3. ASSUME faults = 0 PROVE Minds(c)'
    <3>1. \A d \in Calls : call[d].pc \notin Minding
      BY <2>1, <2>2, BeginsAlone
    <3>2. Settled(k.zone) /\ k.tenant \in Tenants
      <4>1. ~Busy(k.zone) /\ k.zone \in Zones /\ k.tenant \in Tenants
        BY <2>1, <3>1 DEF Busy, Minding, SendingRows
      <4> QED
        BY <2>3, <4>1 DEF SidecarInv
    <3>3. ASSUME k.pc = "write", Sole(k.zone, k.tenant)
          PROVE  /\ \A i \in Calls : Lives(i, k.tenant, k.zone) => sidecar[k.zone] = i
                 /\ k.zone \notin held
      <4>1. Lives(k.row, k.tenant, k.zone) /\ sending[k.row].status = "pending_dns"
        BY <2>1, <3>3 DEF Lives, FirstStep, RowOperations
      <4> QED
        BY <2>1, <3>2, <3>3, <4>1 DEF Settled
    <3>4. Sole(k.zone, k.tenant)' <=> Sole(k.zone, k.tenant)
      BY <1>1, <2>2 DEF Sole
    <3>5. /\ k.pc = "write" <=> op = "verifySending"
          /\ k.pc = "forget" <=> op = "deleteSending"
          /\ k.pc = "hold" <=> op \in {"pause", "resume"}
          /\ k.pc \in {"write", "forget", "hold"}
      BY <2>1 DEF FirstStep, RowOperations
    <3> QED
      BY <1>1, <2>1, <2>2, <3>3, <3>5 DEF Minds, Sole, Lives
  <2>4. Step(c, k) /\ call[c].pc \notin {"save", "write"}
    BY <2>1 DEF Step, Starts
  <2> QED
    BY <1>1, <2>3, <2>4, SidecarRests
<1> QED
  BY <1>2, <1>3, AddCheckMoves, AdoptFindMoves, DeleteFindMoves, VerifyFindMoves, AddSendingCheckMoves,
     SettingsMoves DEF Begun, Minding

\* Requests about websites, looking for the row of a zone, and what ends a
\* request.
LEMMA SidecarElsewhere ==
    ASSUME TypeInv, TypeInv', SendingAlone, SidecarInv, NEW c \in Calls,
           Claims(c) \/ InsertSite(c) \/ DeleteMark(c) \/ AdoptOust(c) \/ VerifyMark(c) \/ ProvisionFind(c) \/ Ends(c)
    PROVE  SidecarInv'
<1>1. /\ UNCHANGED <<sending, sidecar, held>>
      /\ Running(c)
      /\ call[c].pc \notin {"save", "write"} \/ Fails
  BY DEF Claims, AddClaim, AdoptClaim, ReleaseClaim, InsertSite, DeleteMark, AdoptOust, VerifyMark, ProvisionFind,
         Ends, SetFrom, DomainCrash, rows, At, Running
<1>2. faults' = 0 => faults = 0 /\ ~Fails
  <2>1. Works \/ Fails
    BY DEF Claims, AddClaim, AdoptClaim, ReleaseClaim, InsertSite, DeleteMark, AdoptOust, VerifyMark, ProvisionFind,
           Ends, SetFrom, DomainCrash, Works
  <2> QED
    BY <2>1, FaultsType DEF TypeInv, DataOK
<1>3. ASSUME NEW k, GoesOn(c, k), k.pc \notin Minding PROVE SidecarInv'
  <2>1. Step(c, k) /\ Minds(c)'
    BY <1>1, <1>3 DEF Step, Continues, GoesOn, Moves, Minds, Minding
  <2> QED
    BY <1>1, <1>2, <2>1, SidecarRests
<1>4. CASE ProvisionFind(c)
  <2>1. PICK k \in Requests :
          /\ GoesOn(c, k) /\ k.zone = call[c].zone
          /\ \/ k.pc = "done"
             \/ k.pc = "sidecar" /\ LiveSending(call[c].tenant, call[c].zone) = {}
    BY <1>4, ProvisionFindMoves
  <2>2. CASE k.pc = "done"
    BY <1>3, <2>1, <2>2 DEF Minding
  <2>3. CASE k.pc = "sidecar" /\ LiveSending(call[c].tenant, call[c].zone) = {}
    <3>1. Step(c, k) /\ call'[c] = k /\ k.tenant = call[c].tenant
      BY <1>1, <2>1 DEF Step, Continues, GoesOn, Moves
    <3>2. \A i \in Calls : ~Lives(i, k.tenant, k.zone)
      BY <2>1, <2>3, <3>1 DEF LiveSending, Lives
    <3>3. Minds(c)'
      BY <1>1, <2>3, <3>1, <3>2 DEF Minds, NoneLives, Lives
    <3> QED
      BY <1>1, <1>2, <3>1, <3>3, SidecarRests
  <2> QED
    BY <2>1, <2>2, <2>3
<1> QED
  BY <1>3, <1>4, ClaimsMoves, InsertMoves, MarkMoves, OustMoves, VerifyMarkMoves, EndsMoves DEF Minding

LEMMA SidecarFails ==
    ASSUME TypeInv, SendingAlone, SidecarInv, NEW c \in Calls, NEW k, Step(c, k), faults' # 0
    PROVE  SidecarInv'
  BY SendingsAlone DEF SidecarInv

LEMMA SidecarProvision ==
    ASSUME TypeInv, SendingAlone, SidecarInv, NEW c \in Calls, ProvisionSidecar(c)
    PROVE  SidecarInv'
<1>1. PICK k \in Requests :
        /\ GoesOn(c, k) /\ k.zone = call[c].zone /\ k.pc = "save"
        /\ \/ UNCHANGED sidecar /\ Fails
           \/ sidecar' = [sidecar EXCEPT ![call[c].zone] = c] /\ (Works \/ Fails)
  BY ProvisionSidecarMoves
<1>2. /\ call[c].pc = "sidecar" /\ UNCHANGED <<sending, held>>
      /\ call[c].zone \in Zones /\ call[c].tenant \in Tenants
  BY DEF ProvisionSidecar, At, TypeInv, Fits
<1>3. Step(c, k) /\ call'[c] = k /\ k.tenant = call[c].tenant
  BY <1>1, <1>2 DEF Step, Continues, GoesOn, Moves, Running
<1>4. CASE Fails
  <2>1. faults' # 0
    BY <1>4, FaultsType DEF TypeInv, DataOK
  <2> QED
    BY <1>3, <2>1, SidecarFails
<1>5. CASE ~Fails /\ faults # 0
  BY <1>1, <1>3, <1>5, SidecarFails DEF Works
<1>6. CASE ~Fails /\ faults = 0
  <2>1. PICK z \in Zones : z = call[c].zone
    BY <1>2
  <2>2. sidecar'[z] = c /\ \A y \in Zones \ {z} : sidecar'[y] = sidecar[y]
    BY <1>1, <1>6, <2>1 DEF TypeInv, DataOK
  <2>3. Busy(z)'
    BY <1>1, <1>3, <2>1 DEF Busy
  <2>4. Settled(z) /\ Minds(c)
    <3>1. ~Busy(z)
      <4>1. Sending(c)
        BY <1>2, MindsSending DEF Minding
      <4> QED
        BY <1>2, <4>1, NobodyElseMinds DEF Busy, Minding, SidecarInv
    <3> QED
      BY <1>6, <3>1 DEF SidecarInv
  <2>5. Minds(c)'
    BY <1>1, <1>2, <1>3, <2>1, <2>2, <2>4 DEF Minds, Settled, NoneLives, Lives, Sole
  <2> QED
    BY <1>1, <1>2, <1>6, <2>1, <2>2, <2>3, <2>5, SidecarTouches DEF Minding
<1> QED
  BY <1>4, <1>5, <1>6

\* A request is the only one at a zone it minds.
LEMMA NotBusy ==
    ASSUME TypeInv, SidecarInv, NEW c \in Calls, Sending(c), call[c].pc \notin {"save", "write"}, faults = 0,
           NEW z \in Zones
    PROVE  Settled(z)
<1>1. ~Busy(z)
  BY NobodyElseMinds DEF Busy, Minding, SidecarInv
<1> QED
  BY <1>1 DEF SidecarInv

LEMMA SidecarSave ==
    ASSUME TypeInv, SendingAlone, SidecarInv, NEW c \in Calls, ProvisionSave(c)
    PROVE  SidecarInv'
<1>1. PICK k \in Requests :
        /\ GoesOn(c, k) /\ k.zone = call[c].zone
        /\ \/ /\ k.pc = "done" /\ Works
              /\ sending' = [sending EXCEPT ![c] = [tenant |-> k.tenant, zone |-> k.zone,
                                                    live |-> TRUE, status |-> "pending_dns"]]
           \/ k.pc \in {"unsidecar", "done"} /\ Fails /\ UNCHANGED sending
  BY ProvisionSaveMoves
<1>2. /\ call[c].pc = "save" /\ UNCHANGED <<sidecar, held>>
      /\ call[c].zone \in Zones /\ call[c].tenant \in Tenants /\ ~HasSending(c)
  BY DEF ProvisionSave, At, TypeInv, Fits, OwnRows
<1>3. Step(c, k) /\ call'[c] = k /\ k.tenant = call[c].tenant
  BY <1>1, <1>2 DEF Step, Continues, GoesOn, Moves, Running
<1>4. CASE Fails
  <2>1. faults' # 0
    BY <1>4, FaultsType DEF TypeInv, DataOK
  <2> QED
    BY <1>3, <2>1, SidecarFails
<1>5. CASE ~Fails /\ faults # 0
  BY <1>1, <1>3, <1>5, SidecarFails DEF Works
<1>6. CASE ~Fails /\ faults = 0
  <2>1. PICK z \in Zones, t \in Tenants : z = call[c].zone /\ t = call[c].tenant
    BY <1>2
  <2> DEFINE new == [tenant |-> k.tenant, zone |-> k.zone, live |-> TRUE, status |-> "pending_dns"]
  <2>2. new.tenant = t /\ new.zone = z /\ new.live /\ new.status = "pending_dns"
    BY <1>1, <1>3, <2>1
  <2>3. sending' = [sending EXCEPT ![c] = new] /\ k.pc = "done"
    BY <1>1, <1>6
  <2> HIDE DEF new
  <2>4. sending'[c] = new /\ \A j \in Calls \ {c} : sending'[j] = sending[j]
    BY <2>3 DEF TypeInv, DataOK
  <2>5. sending[c].zone = None
    BY <1>2 DEF HasSending, NoSending
  <2>6. NoneLives(t, z) /\ sidecar[z] = c /\ (Sole(z, t) => z \notin held)
    BY <1>2, <1>6, <2>1 DEF SidecarInv, Minds
  <2>7. ASSUME NEW s \in Tenants, Sole(z, s)'
        PROVE  /\ \A i \in Calls : Lives(i, s, z)' =>
                    sidecar'[z] = i /\ (sending'[i].status = "paused" <=> z \in held')
               /\ NoneLives(s, z)' => z \notin held'
    <3>1. s = t
      BY <2>2, <2>4, <2>7 DEF Sole
    <3>2. Sole(z, t)
      BY <2>4, <2>5, <2>7, <3>1, DomainConstants DEF Sole
    <3>3. Lives(c, t, z)' /\ \A i \in Calls : Lives(i, t, z)' => i = c
      BY <2>2, <2>4, <2>6 DEF Lives, NoneLives
    <3>4. sending'[c].status # "paused"
      BY <2>2, <2>4
    <3> QED
      BY <1>2, <2>6, <3>1, <3>2, <3>3, <3>4 DEF NoneLives
  <2>8. Settled(z)'
    BY <2>7 DEF Settled
  <2>9. Minds(c)'
    BY <1>3, <2>3 DEF Minds
  <2>10. \A y \in Zones \ {z} : \A j \in Calls : sending'[j] = sending[j]
                                                \/ (sending[j].zone # y /\ sending'[j].zone # y)
    BY <2>2, <2>4, <2>5, DomainConstants
  <2> QED
    BY <1>1, <1>2, <1>6, <2>1, <2>8, <2>9, <2>10, SidecarTouches DEF Minding
<1> QED
  BY <1>4, <1>5, <1>6

LEMMA SidecarForgets ==
    ASSUME TypeInv, SendingAlone, SidecarInv, NEW c \in Calls, Forgets(c)
    PROVE  SidecarInv'
<1>1. PICK k \in Requests :
        /\ GoesOn(c, k) /\ k.zone = call[c].zone
        /\ \/ ProvisionUndo(c) /\ call[c].pc = "unsidecar" /\ k.pc = "done"
           \/ DeleteSendingForget(c) /\ call[c].pc = "forget" /\ k.pc = "write"
        /\ \/ /\ sidecar' = [sidecar EXCEPT ![call[c].zone] = None]
              /\ held' = held \ {call[c].zone} /\ Works
           \/ Fails /\ UNCHANGED <<sidecar, held>>
  BY ForgetMoves
<1>2. /\ UNCHANGED sending /\ call[c].pc \in {"unsidecar", "forget"}
      /\ call[c].zone \in Zones /\ call[c].tenant \in Tenants
  BY <1>1 DEF Forgets, ProvisionUndo, DeleteSendingForget, Forget, TypeInv, Fits
<1>3. Step(c, k) /\ call'[c] = k /\ k.tenant = call[c].tenant /\ k.op = call[c].op
      /\ k.row = call[c].row /\ k.copy = call[c].copy
  BY <1>1, <1>2 DEF Step, Continues, GoesOn, Moves, Running
<1>4. CASE Fails
  <2>1. faults' # 0
    BY <1>4, FaultsType DEF TypeInv, DataOK
  <2> QED
    BY <1>3, <2>1, SidecarFails
<1>5. CASE ~Fails /\ faults # 0
  BY <1>1, <1>3, <1>5, SidecarFails DEF Works
<1>6. CASE ~Fails /\ faults = 0
  <2>1. PICK z \in Zones, t \in Tenants : z = call[c].zone /\ t = call[c].tenant
    BY <1>2
  <2>2. /\ \A y \in Zones \ {z} : sidecar'[y] = sidecar[y] /\ (y \in held' <=> y \in held)
        /\ z \notin held'
    BY <1>1, <1>6, <2>1 DEF TypeInv, DataOK
  <2>3. Sending(c) /\ Settled(z)
    <3>1. Sending(c)
      BY <1>2, MindsSending DEF Minding
    <3> QED
      BY <1>2, <1>6, <3>1, NotBusy
  <2>4. call[c].pc = "forget" /\ k.pc = "write"
    <3>1. Minds(c)
      BY <1>6 DEF SidecarInv
    <3> QED
      BY <1>1, <3>1 DEF Minds
  <2>5. Minds(c) /\ k.row \in Calls /\ sending[k.row].tenant = t /\ sending[k.row].zone = z
    BY <1>3, <1>6, <2>1, <2>4 DEF SidecarInv, TypeInv, Fits
  <2>6. k.op = "deleteSending" /\ sending[k.row].live /\ k.copy = Changed(k.op, sending[k.row])
    BY <1>3, <2>4, <2>5 DEF Minds
  <2>7. ASSUME Sole(z, t), NEW i \in Calls, Lives(i, t, z) PROVE i = k.row
    <3>1. Lives(k.row, t, z)
      BY <2>5, <2>6 DEF Lives
    <3> QED
      BY <2>3, <2>5, <2>7, <3>1 DEF Settled
  <2>8. Minds(c)'
    BY <1>1, <1>2, <1>3, <2>1, <2>2, <2>4, <2>6, <2>7 DEF Minds, Lives, Sole
  <2>9. Busy(z)'
    BY <1>1, <1>3, <2>1, <2>4 DEF Busy
  <2> QED
    BY <1>1, <1>2, <1>6, <2>1, <2>2, <2>4, <2>8, <2>9, SidecarTouches DEF Minding
<1> QED
  BY <1>4, <1>5, <1>6

LEMMA SidecarHold ==
    ASSUME TypeInv, SendingAlone, SidecarInv, NEW c \in Calls, Hold(c)
    PROVE  SidecarInv'
<1>1. PICK k \in Requests :
        /\ GoesOn(c, k) /\ k.zone = call[c].zone
        /\ \/ /\ k.pc = "write" /\ Works
              /\ held' = IF k.op = "pause" THEN held \cup {k.zone} ELSE held \ {k.zone}
           \/ k.pc = "done" /\ Fails /\ UNCHANGED held
  BY HoldMoves
<1>2. /\ UNCHANGED <<sending, sidecar>> /\ call[c].pc = "hold"
      /\ call[c].zone \in Zones /\ call[c].tenant \in Tenants
  BY DEF Hold, At, TypeInv, Fits
<1>3. Step(c, k) /\ call'[c] = k /\ k.tenant = call[c].tenant /\ k.op = call[c].op
      /\ k.row = call[c].row /\ k.copy = call[c].copy
  BY <1>1, <1>2 DEF Step, Continues, GoesOn, Moves, Running
<1>4. CASE Fails
  <2>1. faults' # 0
    BY <1>4, FaultsType DEF TypeInv, DataOK
  <2> QED
    BY <1>3, <2>1, SidecarFails
<1>5. CASE ~Fails /\ faults # 0
  BY <1>1, <1>3, <1>5, SidecarFails DEF Works
<1>6. CASE ~Fails /\ faults = 0
  <2>1. PICK z \in Zones, t \in Tenants : z = call[c].zone /\ t = call[c].tenant
    BY <1>2
  <2>2. /\ \A y \in Zones \ {z} : y \in held' <=> y \in held
        /\ z \in held' <=> k.op = "pause"
        /\ k.pc = "write"
    BY <1>1, <1>6, <2>1
  <2>3. Settled(z)
    <3>1. Sending(c)
      BY <1>2, MindsSending DEF Minding
    <3> QED
      BY <1>2, <1>6, <3>1, NotBusy
  <2>4. k.op \in {"pause", "resume"} /\ sending[k.row].live /\ k.copy = Changed(k.op, sending[k.row])
    <3>1. Minds(c)
      BY <1>6 DEF SidecarInv
    <3> QED
      BY <1>2, <1>3, <3>1 DEF Minds
  <2>5. ASSUME Sole(z, t), NEW i \in Calls, Lives(i, t, z) PROVE sidecar[z] = i
    BY <2>3, <2>5 DEF Settled
  <2>6. Minds(c)'
    BY <1>1, <1>2, <1>3, <2>1, <2>2, <2>4, <2>5 DEF Minds, Lives, Sole
  <2>7. Busy(z)'
    BY <1>1, <1>3, <2>1, <2>2 DEF Busy
  <2> QED
    BY <1>1, <1>2, <1>6, <2>1, <2>2, <2>6, <2>7, SidecarTouches DEF Minding
<1> QED
  BY <1>4, <1>5, <1>6

LEMMA SidecarWrite ==
    ASSUME TypeInv, SendingAlone, SidecarInv, NEW c \in Calls, WriteBack(c)
    PROVE  SidecarInv'
<1>1. PICK k \in Requests :
        /\ GoesOn(c, k) /\ k.zone = call[c].zone
        /\ k.pc = IF call[c].op = "verifySending" THEN "from" ELSE "done"
  BY WriteBackMoves
<1>2. /\ UNCHANGED <<sidecar, held>> /\ call[c].pc = "write" /\ Fits(c) /\ call[c] \in Requests
      /\ \/ sending' = [sending EXCEPT ![call[c].row] = call[c].copy] /\ Works
         \/ Fails
  BY DEF WriteBack, At, TypeInv
<1>3. Step(c, k) /\ call'[c] = k /\ k.pc \notin Minding
  BY <1>1, <1>2 DEF Step, Continues, GoesOn, Moves, Running, Minding
<1>4. CASE Fails
  <2>1. faults' # 0
    BY <1>4, FaultsType DEF TypeInv, DataOK
  <2> QED
    BY <1>3, <2>1, SidecarFails
<1>5. CASE ~Fails /\ faults # 0
  BY <1>2, <1>3, <1>5, SidecarFails DEF Works
<1>6. CASE ~Fails /\ faults = 0
  <2>1. PICK z \in Zones, t \in Tenants, r \in Calls, op \in RowOperations, new \in SendingRows :
          /\ z = call[c].zone /\ t = call[c].tenant /\ r = call[c].row /\ op = call[c].op /\ new = call[c].copy
    BY <1>2 DEF Fits, RowOperations
  <2>2. /\ new.tenant = t /\ new.zone = z /\ sending[r].tenant = t /\ sending[r].zone = z
        /\ sending[r] \in SendingRows
    BY <1>2, <2>1 DEF Fits, HasSending, TypeInv, DataOK
  <2>3. sending' = [sending EXCEPT ![r] = new]
    BY <1>2, <1>6, <2>1
  <2>4. sending'[r] = new /\ \A j \in Calls \ {r} : sending'[j] = sending[j]
    BY <2>3 DEF TypeInv, DataOK
  <2>5. Minds(c)
    BY <1>6 DEF SidecarInv
  <2>6. /\ sending[r].live /\ new = Changed(op, sending[r])
        /\ Sole(z, t) => /\ op = "deleteSending" => \A i \in Calls : Lives(i, t, z) => i = r
                         /\ op # "deleteSending" => \A i \in Calls : Lives(i, t, z) => sidecar[z] = i
                         /\ z \in held <=> op = "pause"
    BY <1>2, <2>1, <2>5 DEF Minds
  <2>7. /\ new.live <=> op # "deleteSending"
        /\ op # "deleteSending" => (new.status = "paused" <=> op = "pause")
    BY <2>1, <2>2, <2>6, ChangedType
  <2>8. ASSUME NEW s \in Tenants, Sole(z, s)'
        PROVE  /\ \A i \in Calls : Lives(i, s, z)' =>
                    sidecar'[z] = i /\ (sending'[i].status = "paused" <=> z \in held')
               /\ NoneLives(s, z)' => z \notin held'
    <3>1. s = t
      BY <2>2, <2>4, <2>8 DEF Sole
    <3>2. Sole(z, t)
      BY <2>2, <2>4, <2>8, <3>1 DEF Sole
    <3>3. CASE op = "deleteSending"
      <4>1. \A i \in Calls : ~Lives(i, t, z)'
        BY <2>4, <2>6, <2>7, <3>2, <3>3 DEF Lives
      <4> QED
        BY <1>2, <2>6, <3>1, <3>2, <3>3, <4>1
    <3>4. CASE op # "deleteSending"
      <4>1. sidecar[z] = r /\ Lives(r, t, z)' /\ \A i \in Calls : Lives(i, t, z)' => i = r
        BY <2>2, <2>4, <2>6, <2>7, <3>2, <3>4 DEF Lives
      <4>2. sending'[r].status = "paused" <=> z \in held
        BY <2>4, <2>6, <2>7, <3>2, <3>4
      <4> QED
        BY <1>2, <3>1, <4>1, <4>2 DEF NoneLives
    <3> QED
      BY <3>3, <3>4
  <2>9. Settled(z)'
    BY <2>8 DEF Settled
  <2>10. Minds(c)'
    BY <1>3 DEF Minds, Minding
  <2>11. \A y \in Zones \ {z} : \A j \in Calls : sending'[j] = sending[j]
                                                \/ (sending[j].zone # y /\ sending'[j].zone # y)
    BY <2>2, <2>4
  <2> QED
    BY <1>1, <1>2, <1>6, <2>1, <2>9, <2>10, <2>11, SidecarTouches DEF Minding
<1> QED
  BY <1>4, <1>5, <1>6

LEMMA SidecarInit == Init => SidecarInv
<1> SUFFICES ASSUME Init PROVE SidecarInv
  OBVIOUS
<1>1. \A c \in Calls : call[c].pc = "new" /\ ~sending[c].live
  BY IdleType DEF Init, NoSending
<1>2. held = {}
  BY DEF Init
<1>3. \A z \in Zones : Settled(z)
  BY <1>1, <1>2 DEF Settled, Lives
<1>4. \A c \in Calls : Minds(c)
  BY <1>1 DEF Minds
<1>5. OneAtATime
  BY <1>1 DEF OneAtATime, Sending, Running
<1> QED
  BY <1>3, <1>4, <1>5 DEF SidecarInv

LEMMA SidecarNext ==
    ASSUME TypeInv, TypeInv', SendingAlone, SidecarInv, [Next]_vars
    PROVE  SidecarInv'
<1>1. CASE UNCHANGED vars
  <2>1. OneAtATime'
    BY <1>1 DEF vars, SidecarInv, OneAtATime, Sending, Running
  <2>2. \A z \in Zones : (Settled(z)' <=> Settled(z)) /\ (Busy(z)' <=> Busy(z))
    BY <1>1 DEF vars, Settled, Sole, Lives, NoneLives, Busy
  <2>3. \A c \in Calls : Minds(c)' <=> Minds(c)
    BY <1>1 DEF vars, Minds, Sole, Lives, NoneLives
  <2> QED
    BY <1>1, <2>1, <2>2, <2>3 DEF vars, SidecarInv
<1>2. CASE Next
  BY <1>2, NextSteps, SidecarBegun, SidecarElsewhere, SidecarProvision, SidecarSave, SidecarForgets, SidecarHold,
     SidecarWrite
<1> QED
  BY <1>1, <1>2

\* Without faults the sidecar signs with the key of the live row of a zone, and
\* holds its queue when the row says paused, unless another tenant configured
\* the zone too; as long as requests about sending domains, which write back the
\* rows they read, come one after the other.
THEOREM SidecarFollows == ASSUME SendingAlone PROVE Spec => []SidecarFollowsRows
<1>1. TypeInv /\ SidecarInv => SidecarFollowsRows
  <2> SUFFICES ASSUME TypeInv, SidecarInv, Quiet, faults = 0, NEW i \in Calls, sending[i].live,
                      \A j \in Calls : sending[j].zone = sending[i].zone => sending[j].tenant = sending[i].tenant
               PROVE  /\ sidecar[sending[i].zone] = i
                      /\ sending[i].status = "paused" <=> sending[i].zone \in held
    BY DEF SidecarFollowsRows, SidecarSignsWithTheRowsKey, PauseHoldsTheQueue
  <2>1. sending[i].tenant \in Tenants /\ sending[i].zone \in Zones
    BY DEF TypeInv, DataOK, SendingRows, NoSending
  <2>2. PICK z \in Zones, t \in Tenants : z = sending[i].zone /\ t = sending[i].tenant
    BY <2>1
  <2>3. Settled(z)
    BY DEF SidecarInv, Busy, Quiet, Running
  <2>4. Sole(z, t) /\ Lives(i, t, z)
    BY <2>2 DEF Sole, Lives
  <2> QED
    BY <2>2, <2>3, <2>4 DEF Settled
<1>2. Spec => [](TypeInv /\ SidecarInv)
  BY TypeInit, TypeNext, SidecarInit, SidecarNext, PTL DEF Spec
<1> QED
  BY <1>1, <1>2, PTL

--------------------------------------------------------------------------------
(* The from-domain *)

\* A tenant that has a from-domain keeps it, whatever is verified, paused or
\* deleted at once and whatever fails, until it names another in its settings.
THEOREM FromDomainIsKept == Spec => FromIsKept
<1>1. ASSUME TypeInv, [Next]_vars
      PROVE  [\A t \in Tenants : from[t] # None /\ from'[t] # from[t] =>
                \E c \in Calls : call[c].pc = "new" /\ call'[c].op = "settings"]_vars
  <2>1. CASE UNCHANGED vars
    BY <2>1
  <2>2. CASE Next
    <3> SUFFICES ASSUME NEW t \in Tenants, from[t] # None, from'[t] # from[t]
                 PROVE  \E c \in Calls : call[c].pc = "new" /\ call'[c].op = "settings"
      OBVIOUS
    <3>1. PICK c \in Calls : SetFrom(c) \/ UpdateSettings(c) \/ UNCHANGED from
      <4>1. PICK c \in Calls :
              \/ AddCheck(c) \/ AddClaim(c) \/ InsertSite(c) \/ ReleaseClaim(c) \/ DeleteFind(c)
              \/ DeleteMark(c) \/ AdoptFind(c) \/ AdoptOust(c) \/ AdoptClaim(c) \/ VerifyFind(c) \/ VerifyMark(c)
              \/ AddSendingCheck(c) \/ ProvisionFind(c) \/ ProvisionSidecar(c) \/ ProvisionSave(c)
              \/ ProvisionUndo(c) \/ DeleteSendingFind(c) \/ DeleteSendingForget(c)
              \/ VerifySendingFind(c) \/ PauseFind(c) \/ ResumeFind(c) \/ Hold(c) \/ WriteBack(c)
              \/ SetFrom(c) \/ UpdateSettings(c) \/ DomainCrash(c)
        BY <2>2 DEF Next
      <4>2. CASE AddCheck(c) \/ AddClaim(c) \/ InsertSite(c) \/ ReleaseClaim(c) \/ DeleteFind(c)
                 \/ DeleteMark(c)
        BY <4>2 DEF AddCheck, AddClaim, InsertSite, ReleaseClaim, DeleteFind, DeleteMark, rows
      <4>5. CASE AdoptFind(c) \/ AdoptOust(c) \/ AdoptClaim(c) \/ VerifyFind(c) \/ VerifyMark(c)
        BY <4>5 DEF AdoptFind, AdoptOust, AdoptClaim, VerifyFind, VerifyMark, rows
      <4>3. CASE AddSendingCheck(c) \/ ProvisionFind(c) \/ ProvisionSidecar(c) \/ ProvisionSave(c)
                 \/ ProvisionUndo(c) \/ DeleteSendingFind(c) \/ DeleteSendingForget(c)
        BY ZenonT(60), <4>3 DEF AddSendingCheck, ProvisionFind, ProvisionSidecar, ProvisionSave, ProvisionUndo,
           Forget, DeleteSendingFind, DeleteSendingForget, Find, rows
      <4>4. CASE VerifySendingFind(c) \/ PauseFind(c) \/ ResumeFind(c) \/ Hold(c) \/ WriteBack(c)
                 \/ DomainCrash(c)
        BY <4>4 DEF VerifySendingFind, PauseFind, ResumeFind, Find, Hold, WriteBack, DomainCrash, rows
      <4> QED
        BY <4>1, <4>2, <4>3, <4>4, <4>5
    <3>2. CASE SetFrom(c)
      <4>1. from \in [Tenants -> Zones \cup {None}]
        BY <1>1 DEF TypeInv, DataOK
      <4>2. \/ UNCHANGED from
            \/ from' = [from EXCEPT ![call[c].tenant] = IF @ = None THEN call[c].zone ELSE @]
        BY <3>2 DEF SetFrom
      <4> QED
        BY <4>1, <4>2
    <3>3. CASE UpdateSettings(c)
      <4>1. PICK k \in Requests : Starts(c, k, "settings")
        BY <1>1, <3>3, SettingsMoves
      <4> QED
        BY <4>1 DEF Starts, Moves
    <3> QED
      BY <3>1, <3>2, <3>3
  <2> QED
    BY <1>1, <2>1, <2>2
<1> QED
  BY <1>1, TypeInvariant, PTL DEF Spec, FromIsKept
================================================================================
