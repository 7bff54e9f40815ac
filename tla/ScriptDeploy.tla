------------------------------ MODULE ScriptDeploy ------------------------------
(* Compiling and deploying scripts (routes/script.go, routes/bridge.go), and    *)
(* the public ids all compilations of a process draw from one counter           *)
(* (scripting/compiler.go), which no lock guards.  What is compiled is in       *)
(* ScriptCompiler; here it is a sequence of entities of some kinds.             *)
EXTENDS Naturals, Sequences

CONSTANTS
    Requests,   \* calls of /api/script/compile and /api/script/deploy, each made once
    TenantOf,   \* the tenant of each, from its token
    Kinds,      \* the kinds of entity a script compiles to, in order
    MaxRestarts

VARIABLES
    idCounter, idSessionPrefix,
    drawn,      \* session prefixes drawn so far: each is a new one
    call,       \* of each request: where it is, what it read, its ids, its answer
    stored,     \* documents of the marketing service
    restarts

deployVars == <<idCounter, idSessionPrefix, drawn, call, stored, restarts>>

DeployConstants ==
    /\ DOMAIN TenantOf = Requests
    /\ MaxRestarts \in Nat

NoCall == [at |-> "none", deploys |-> FALSE, read |-> 0, ids |-> <<>>, answer |-> 0]

DeployInit ==
    /\ idCounter = 0 /\ idSessionPrefix = 1 /\ drawn = 1
    /\ call = [r \in Requests |-> NoCall]
    /\ stored = {} /\ restarts = 0

--------------------------------------------------------------------------------

InProgress(r) == call[r].at \notin {"none", "done"}
Goes(r, from, to) == call[r].at = from /\ call' = [call EXCEPT ![r].at = to]
Answers(r, status) == [call EXCEPT ![r].at = "done", ![r].answer = status]

\* A request that is refused for its body, its token or want of a bridge is never begun.
Begin(r, deploys) ==
    /\ call[r].at = "none"
    /\ call' = [call EXCEPT ![r].at = "reset", ![r].deploys = deploys]
    /\ UNCHANGED <<idCounter, idSessionPrefix, drawn, stored, restarts>>

\* ResetIDCounter, in its two assignments.
ResetIDCounter(r) ==
    /\ Goes(r, "reset", "refresh")
    /\ idCounter' = 0
    /\ UNCHANGED <<idSessionPrefix, drawn, stored, restarts>>
RefreshSessionPrefix(r) ==
    /\ Goes(r, "refresh", "count")
    /\ drawn' = drawn + 1
    /\ idSessionPrefix' = drawn'
    /\ UNCHANGED <<idCounter, stored, restarts>>

\* What the validator refuses has no ids; what the compiler finds wrong has, and is
\* not deployed all the same.
Compiled(r) == call[r].at = "count" /\ Len(call[r].ids) = Len(Kinds)
HasErrors(r) ==
    /\ call[r].at = "count"
    /\ call[r].ids = <<>> \/ (Compiled(r) /\ call[r].deploys)
    /\ call' = Answers(r, IF call[r].deploys THEN 422 ELSE 200)
    /\ UNCHANGED <<idCounter, idSessionPrefix, drawn, stored, restarts>>

\* generatePublicID: the counter is read, written, and read again with the prefix.
ReadCounter(r) ==
    /\ call[r].at = "count" /\ Len(call[r].ids) < Len(Kinds)
    /\ call' = [call EXCEPT ![r].at = "increment", ![r].read = idCounter]
    /\ UNCHANGED <<idCounter, idSessionPrefix, drawn, stored, restarts>>
WriteCounter(r) ==
    /\ Goes(r, "increment", "format")
    /\ idCounter' = call[r].read + 1
    /\ UNCHANGED <<idSessionPrefix, drawn, stored, restarts>>
FormatId(r) ==
    /\ call[r].at = "format"
    /\ call' = [call EXCEPT ![r].at = "count",
                            ![r].ids = Append(@, <<Kinds[Len(@) + 1], idSessionPrefix, idCounter>>)]
    /\ UNCHANGED <<idCounter, idSessionPrefix, drawn, stored, restarts>>

AnswerCompiled(r) ==
    /\ Compiled(r) /\ ~call[r].deploys
    /\ call' = Answers(r, 200)
    /\ UNCHANGED <<idCounter, idSessionPrefix, drawn, stored, restarts>>

\* Every entity carries the tenant of the request; the marketing service writes it
\* over the document of that tenant with its public id, if there is one.
Stamped(r) ==
    {[tenant |-> TenantOf[r], id |-> call[r].ids[i], entity |-> <<r, i>>] : i \in DOMAIN call[r].ids}
Upserted(documents) ==
    documents \cup {d \in stored : \A n \in documents : <<n.tenant, n.id>> # <<d.tenant, d.id>>}
HydrateGraph(r) ==
    /\ Compiled(r) /\ call[r].deploys
    /\ \/ /\ stored' = Upserted(Stamped(r))
          /\ call' = Answers(r, 200)
       \/ /\ stored' = Upserted(Stamped(r))   \* the answer is lost
          /\ call' = Answers(r, 502)
       \/ /\ call' = Answers(r, 502)
          /\ UNCHANGED stored
    /\ UNCHANGED <<idCounter, idSessionPrefix, drawn, restarts>>

Restart ==
    /\ restarts < MaxRestarts /\ restarts' = restarts + 1
    /\ idCounter' = 0
    /\ drawn' = drawn + 1 /\ idSessionPrefix' = drawn'
    /\ call' = [r \in Requests |-> IF InProgress(r) THEN [call[r] EXCEPT !.at = "done"] ELSE call[r]]
    /\ UNCHANGED stored

DeployNext ==
    \/ \E r \in Requests :
         \/ \E deploys \in BOOLEAN : Begin(r, deploys)
         \/ ResetIDCounter(r) \/ RefreshSessionPrefix(r)
         \/ HasErrors(r)
         \/ ReadCounter(r) \/ WriteCounter(r) \/ FormatId(r)
         \/ AnswerCompiled(r) \/ HydrateGraph(r)
    \/ Restart

DeploySpec == DeployInit /\ [][DeployNext]_deployVars

--------------------------------------------------------------------------------
(* Properties *)

DeployTypeOK ==
    /\ idCounter \in Nat /\ idSessionPrefix \in 1..drawn
    /\ \A r \in Requests :
         /\ call[r].at \in {"none", "reset", "refresh", "count", "increment", "format", "done"}
         /\ call[r].answer \in {0, 200, 422, 502}
         /\ Len(call[r].ids) <= Len(Kinds)
    /\ \A d \in stored : d.tenant = TenantOf[d.entity[1]]

\* "each compilation produces globally unique public_ids" (compiler.go:1571): no two
\* entities have one, be it of one script or of two.
PublicIdsAreUnique ==
    \A q, r \in Requests : \A i \in DOMAIN call[q].ids, j \in DOMAIN call[r].ids :
      call[q].ids[i] = call[r].ids[j] => <<q, i>> = <<r, j>>
================================================================================
