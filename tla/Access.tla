--------------------------------- MODULE Access --------------------------------
(* Who gets in: a workspace's domains and its secrets side by side.  The two  *)
(* share nothing, so that no interleaving is lost by letting all requests of  *)
(* a behaviour go to the one or all to the other.                             *)
EXTENDS Domains, Credentials

VARIABLE under  \* which of them: "domains" or "keys"

AccessInit ==
    /\ Init
    /\ KeysInit
    /\ under \in {"domains", "keys"}

AccessNext ==
    \/ under = "domains" /\ Next /\ UNCHANGED <<keyVars, under>>
    \/ under = "keys" /\ KeysNext /\ UNCHANGED <<vars, under>>

accessVars == <<vars, keyVars, under>>
AccessSpec == AccessInit /\ [][AccessNext]_accessVars

\* The types of both.
AccessTypeOK == TypeOK /\ KeysTypeOK

\* What a tenant decided stands, through every request that was under way: the
\* from-domain it has, and the revocation of a credential.
DecisionsStand == FromIsKept /\ RevokedStaysRevoked
================================================================================
