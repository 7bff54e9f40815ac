------------------------------- MODULE Credentials -----------------------------
(* The secrets of one tenant: the password of a customer and its reset tokens *)
(* (routes/customer_password_reset.go, tenant_auth.go), the tenant's API key  *)
(* (routes/tenant_apikey.go), named machine credentials                       *)
(* (routes/machine_credentials.go) and the Stripe Connect handshake           *)
(* (routes/stripe_connect.go), with the sessions minted from them.            *)
(*                                                                            *)
(* A secret bears the name of the request that made it.  One action is what a *)
(* request does up to and including one access to Mongo.  The session store   *)
(* and the service that exchanges a key for a session are external.           *)
EXTENDS Integers, Sequences, FiniteSets

CONSTANTS
    Asks,           \* requests
    Names,          \* names of machine credentials
    Absent,
    AskOperations,  \* operations the requests of an instance may be
    MaxMishaps      \* bound on failed writes, expiries and restarts

EveryAsk == {"reset", "setPassword", "login", "mintKey", "revokeKey", "create", "rotate",
             "update", "revoke", "exchange", "initiate", "callback", "disconnect"}

CredentialConstants ==
    /\ Absent \notin Asks \cup Names \cup EveryAsk
    /\ Asks \cap {"first", "tenant", "customer"} = {}
    /\ AskOperations \subseteq EveryAsk
    /\ MaxMishaps \in Nat

VARIABLES
    customer,  \* the contact: password and reset token
    mailed,    \* reset tokens customers hold
    logins,    \* customer sessions
    key,       \* the tenant's API key
    cred,      \* machine credentials
    machines,  \* machine sessions
    state,     \* connect states, in the memory of the process: fresh or expired
    account,   \* the connected Stripe account: the callback that connected it
    ask,       \* where each request is
    mishaps

keyVars == <<customer, mailed, logins, key, cred, machines, state, account, ask, mishaps>>
people == <<customer, mailed, logins>>
robots == <<key, cred, machines>>
stripe == <<state, account>>

Secrets == Asks \cup {Absent}
Passwords == Asks \cup {"first"}
NoCred == [name |-> Absent, status |-> "none", key |-> Absent, terms |-> Absent]
Credential == [name : Names, status : {"active", "revoked"}, key : Secrets, terms : Asks]
NoAsk == [pc |-> "new", op |-> Absent, of |-> Absent, key |-> Absent, terms |-> Absent,
          late |-> FALSE]

\* A session: the request that minted it, whose key, password or tenant key it
\* comes from, and whether that changed while the request ran ("late").
Session == [by : Asks, of : Asks \cup {"tenant", "customer"}, key : Passwords \cup {Absent},
            terms : Secrets, late : BOOLEAN]

Stage(c, pc) == ask[c].pc = pc

KeysTypeOK ==
    /\ customer \in [password : Passwords, token : Secrets, fresh : BOOLEAN]
    /\ mailed \subseteq Asks
    /\ logins \subseteq {s \in Session : s.of = "customer"}
    /\ key \in Secrets
    /\ cred \in [Asks -> Credential \cup {NoCred}]
    /\ machines \subseteq Session
    /\ state \in [Asks -> {"none", "fresh", "expired"}]
    /\ account \in Secrets
    /\ \A c \in Asks : Stage(c, "unset") => cred[ask[c].of] # NoCred
    /\ \A i \in Asks : cred[i].status = "active" => cred[i].key # Absent
    /\ mishaps \in 0 .. MaxMishaps

KeysInit ==
    /\ customer = [password |-> "first", token |-> Absent, fresh |-> FALSE]
    /\ mailed = {}
    /\ logins = {}
    /\ key = Absent
    /\ cred = [c \in Asks |-> NoCred]
    /\ machines = {}
    /\ state = [c \in Asks |-> "none"]
    /\ account = Absent
    /\ ask = [c \in Asks |-> NoAsk]
    /\ mishaps = 0

--------------------------------------------------------------------------------
(* Helpers *)

UnderWay(c) == ask[c].pc \notin {"new", "done"}
Turns(c, pc) == ask' = [ask EXCEPT ![c].pc = pc]
Answers(c) == Turns(c, "done")
Opens(c, op) == Stage(c, "new") /\ op \in AskOperations
Started(op, pc, of) == [NoAsk EXCEPT !.pc = pc, !.op = op, !.of = of]

Unhindered == UNCHANGED mishaps
Mishap == mishaps < MaxMishaps /\ mishaps' = mishaps + 1

\* Every request under way that read the secret holds an outdated copy.
Outdated(of) ==
    [d \in Asks |-> [ask[d] EXCEPT !.late = @ \/ (UnderWay(d) /\ ask[d].of = of)]]

\* What Mint (of a session) leaves in the store.
Minted(c, of) == [by |-> c, of |-> of, key |-> ask[c].key, terms |-> ask[c].terms,
                  late |-> ask[c].late]

--------------------------------------------------------------------------------
(* The customer's password *)

ResetFind(c) ==
    /\ Opens(c, "reset")
    /\ ask' = [ask EXCEPT ![c] = Started("reset", "token", "customer")]
    /\ UNCHANGED <<people, robots, stripe, mishaps>>

\* The token lasts 48 hours and replaces the one before.
ResetWrite(c) ==
    /\ Stage(c, "token")
    /\ \/ /\ customer' = [customer EXCEPT !.token = c, !.fresh = TRUE]
          /\ Turns(c, "mail")
          /\ Unhindered
       \/ Mishap /\ Answers(c) /\ UNCHANGED customer
    /\ UNCHANGED <<mailed, logins, robots, stripe>>

\* In a goroutine, with the link.
ResetMail(c) ==
    /\ Stage(c, "mail")
    /\ \/ mailed' = mailed \cup {c} /\ Unhindered
       \/ Mishap /\ UNCHANGED mailed
    /\ Answers(c)
    /\ UNCHANGED <<customer, logins, robots, stripe>>

TokenExpires ==
    /\ customer.fresh
    /\ Mishap
    /\ customer' = [customer EXCEPT !.fresh = FALSE]
    /\ UNCHANGED <<mailed, logins, robots, stripe, ask>>

SetFind(c) ==
    /\ Opens(c, "setPassword")
    /\ customer.token \in mailed
    /\ customer.fresh
    /\ ask' = [ask EXCEPT ![c] = Started("setPassword", "write", "customer")]
    /\ UNCHANGED <<people, robots, stripe, mishaps>>

\* Whatever token the contact has by now is removed.
SetWrite(c) ==
    /\ Stage(c, "write")
    /\ \/ /\ customer' = [password |-> c, token |-> Absent, fresh |-> FALSE]
          /\ ask' = [Outdated("customer") EXCEPT ![c].pc = "signout"]
          /\ Unhindered
       \/ Mishap /\ Answers(c) /\ UNCHANGED customer
    /\ UNCHANGED <<mailed, logins, robots, stripe>>

\* A failure is not reported.
SetSignOut(c) ==
    /\ Stage(c, "signout")
    /\ \/ logins' = {} /\ Unhindered
       \/ Mishap /\ UNCHANGED logins
    /\ ask' = [ask EXCEPT ![c].pc = "login", ![c].key = c]
    /\ UNCHANGED <<customer, mailed, robots, stripe>>

\* The customer knows the password.
LoginRead(c) ==
    /\ Opens(c, "login")
    /\ ask' = [ask EXCEPT ![c] = [Started("login", "login", "customer")
                                      EXCEPT !.key = customer.password]]
    /\ UNCHANGED <<people, robots, stripe, mishaps>>

MintLogin(c) ==
    /\ Stage(c, "login")
    /\ \/ logins' = logins \cup {Minted(c, "customer")} /\ Unhindered
       \/ Mishap /\ UNCHANGED logins
    /\ Answers(c)
    /\ UNCHANGED <<customer, mailed, robots, stripe>>

--------------------------------------------------------------------------------
(* The tenant's API key *)

\* Minting rotates: the new hash takes the place of the old one.
KeyWrite(c) ==
    \E new \in {c, Absent} :
      /\ Opens(c, IF new = c THEN "mintKey" ELSE "revokeKey")
      /\ key' = new
      /\ ask' = [Outdated("tenant") EXCEPT ![c] =
                    Started(IF new = c THEN "mintKey" ELSE "revokeKey", "cut", "tenant")]
      /\ UNCHANGED <<people, cred, machines, stripe, mishaps>>

CutMachinesOfKey(c) ==
    /\ Stage(c, "cut")
    /\ machines' = {s \in machines : s.of # "tenant" \/ ask[c].of # "tenant"}
    /\ Unhindered
    /\ Answers(c)
    /\ UNCHANGED <<people, key, cred, stripe>>

\* Failures to revoke sessions are logged or ignored, of the key's as of a
\* credential's.
CutMachines(c) ==
    /\ Stage(c, "cut")
    /\ \/ /\ machines' = {s \in machines : ask[c].of # "tenant" /\ s.of # ask[c].of}
          /\ Unhindered
       \/ Mishap /\ UNCHANGED machines
    /\ Answers(c)
    /\ UNCHANGED <<people, key, cred, stripe>>

--------------------------------------------------------------------------------
(* Machine credentials *)

Taken(n) == \E i \in Asks : cred[i].name = n

\* Names are unique within the tenant, those of revoked credentials included.
CreateInsert(c) ==
    /\ Opens(c, "create")
    /\ \E n \in Names :
         /\ ~Taken(n)
         /\ cred' = [cred EXCEPT ![c] = [name |-> n, status |-> "active", key |-> c, terms |-> c]]
    /\ ask' = [ask EXCEPT ![c] = Started("create", "done", c)]
    /\ UNCHANGED <<people, key, machines, stripe, mishaps>>

ChangeAnyway(c, op, i, new) ==
    /\ Opens(c, op)
    /\ cred[i].status # "none"
    /\ cred' = [cred EXCEPT ![i] = new]
    /\ ask' = [Outdated(i) EXCEPT ![c] = Started(op, "cut", i)]
    /\ UNCHANGED <<people, key, machines, stripe, mishaps>>

\* An update of the row where it is still active; the sessions go next.
Change(c, op, i, new) ==
    /\ Opens(c, op)
    /\ cred[i].status = "active"
    /\ cred' = [cred EXCEPT ![i] = new]
    /\ ask' = [Outdated(i) EXCEPT ![c] = Started(op, "cut", i)]
    /\ UNCHANGED <<people, key, machines, stripe, mishaps>>

Rotate(c) == \E i \in Asks : Change(c, "rotate", i, [cred[i] EXCEPT !.key = c])

Update(c) ==
    \E i \in Asks, n \in Names :
      /\ n = cred[i].name \/ ~Taken(n)
      /\ Change(c, "update", i, [cred[i] EXCEPT !.name = n, !.terms = c])

RevokeFind(c) ==
    /\ Opens(c, "revoke")
    /\ \E i \in Asks :
         /\ cred[i].status = "active"
         /\ ask' = [ask EXCEPT ![c] = Started("revoke", "unset", i)]
    /\ UNCHANGED <<people, robots, stripe, mishaps>>

\* key_hash is unique and not sparse: where another row has none already, the
\* update fails.  Its error is ignored.
RevokeWrite(c) ==
    LET i == ask[c].of IN
    /\ Stage(c, "unset")
    /\ \/ /\ IF \E j \in Asks \ {i} : cred[j].status = "revoked"
             THEN UNCHANGED cred /\ Turns(c, "cut")
             ELSE /\ cred' = [cred EXCEPT ![i].status = "revoked", ![i].key = Absent]
                  /\ ask' = [Outdated(i) EXCEPT ![c].pc = "cut"]
          /\ Unhindered
       \/ Mishap /\ Turns(c, "cut") /\ UNCHANGED cred
    /\ UNCHANGED <<people, key, machines, stripe>>

\* Whoever holds the tenant's key or an active credential's exchanges it for a
\* session.
ExchangeRead(c) ==
    /\ Opens(c, "exchange")
    /\ \/ /\ key # Absent
          /\ ask' = [ask EXCEPT ![c] = [Started("exchange", "machine", "tenant")
                                            EXCEPT !.key = key]]
       \/ \E i \in Asks :
            /\ cred[i].status = "active"
            /\ ask' = [ask EXCEPT ![c] = [Started("exchange", "machine", i)
                                              EXCEPT !.key = cred[i].key, !.terms = cred[i].terms]]
    /\ UNCHANGED <<people, robots, stripe, mishaps>>

MintMachine(c) ==
    /\ Stage(c, "machine")
    /\ \/ machines' = machines \cup {Minted(c, ask[c].of)} /\ Unhindered
       \/ Mishap /\ UNCHANGED machines
    /\ Answers(c)
    /\ UNCHANGED <<people, key, cred, stripe>>

--------------------------------------------------------------------------------
(* Stripe Connect *)

\* Expired states are swept when one is stored.
Stored(c) == [s \in Asks |-> IF s = c THEN "fresh"
                             ELSE IF state[s] = "expired" THEN "none" ELSE state[s]]

Initiate(c) ==
    /\ Opens(c, "initiate")
    /\ state' = Stored(c)
    /\ ask' = [ask EXCEPT ![c] = Started("initiate", "done", c)]
    /\ UNCHANGED <<people, robots, account, mishaps>>

StateExpires ==
    \E s \in Asks :
      /\ state[s] = "fresh"
      /\ Mishap
      /\ state' = [state EXCEPT ![s] = "expired"]
      /\ UNCHANGED <<people, robots, account, ask>>

\* Consumed under the lock, expired or not; then Stripe exchanges the code.
CallbackConsume(c) ==
    /\ Opens(c, "callback")
    /\ \E s \in Asks :
         /\ state[s] # "none"
         /\ state' = [state EXCEPT ![s] = "none"]
         /\ ask' = [ask EXCEPT ![c] =
                       Started("callback", IF state[s] = "fresh" THEN "code" ELSE "done", s)]
    /\ UNCHANGED <<people, robots, account, mishaps>>

CallbackExchange(c) ==
    /\ Stage(c, "code")
    /\ \/ Turns(c, "persist") /\ Unhindered
       \/ Answers(c) /\ Mishap
    /\ UNCHANGED <<people, robots, stripe>>

CallbackPersist(c) ==
    /\ Stage(c, "persist")
    /\ \/ account' = c /\ Unhindered
       \/ Mishap /\ UNCHANGED account
    /\ Answers(c)
    /\ UNCHANGED <<people, robots, state>>

Disconnect(c) ==
    /\ Opens(c, "disconnect")
    /\ account' = Absent
    /\ ask' = [ask EXCEPT ![c] = Started("disconnect", "done", Absent)]
    /\ UNCHANGED <<people, robots, state, mishaps>>

--------------------------------------------------------------------------------

\* The connect states are lost with the process.
Restart ==
    /\ \E c \in Asks : UnderWay(c) \/ state[c] # "none"
    /\ Mishap
    /\ state' = [s \in Asks |-> "none"]
    /\ ask' = [c \in Asks |-> IF UnderWay(c) THEN [ask[c] EXCEPT !.pc = "done"] ELSE ask[c]]
    /\ UNCHANGED <<people, robots, account>>

KeysNext ==
    \/ \E c \in Asks :
         \/ ResetFind(c) \/ ResetWrite(c) \/ ResetMail(c)
         \/ SetFind(c) \/ SetWrite(c) \/ SetSignOut(c) \/ LoginRead(c) \/ MintLogin(c)
         \/ KeyWrite(c) \/ CutMachines(c)
         \/ CreateInsert(c) \/ Rotate(c) \/ Update(c) \/ RevokeFind(c) \/ RevokeWrite(c)
         \/ ExchangeRead(c) \/ MintMachine(c)
         \/ Initiate(c) \/ CallbackConsume(c) \/ CallbackExchange(c) \/ CallbackPersist(c)
         \/ Disconnect(c)
    \/ TokenExpires \/ StateExpires \/ Restart

KeysSpec == KeysInit /\ [][KeysNext]_keyVars

--------------------------------------------------------------------------------
(* Properties *)

Changing == {c \in Asks : ask[c].pc \in {"signout", "cut"}}

\* "A password change invalidates every previously issued token for this
\* contact" (tenant_auth.go:478): a session either proves the password as it is
\* now or comes from a request that was under way when it changed.
LoginsKnowThePassword ==
    mishaps = 0 /\ Changing = {} => \A s \in logins : s.key = customer.password \/ s.late

\* Rotation and revocation are kill-switches (tenant_apikey.go:173), and a
\* change of a credential's tools or scopes ends the sessions that still have
\* the old ones: a machine session bears the key and the terms of the day, or
\* comes from an exchange that overlapped the change.
MachinesHoldTheKey ==
    mishaps = 0 /\ Changing = {} =>
      \A s \in machines :
        \/ s.late
        \/ IF s.of = "tenant" THEN s.key = key
           ELSE s.key = cred[s.of].key /\ s.terms = cred[s.of].terms

\* A credential that was revoked stays so, whatever change was under way.
RevokedStaysRevoked ==
    [][\A i \in Asks : cred[i].status = "revoked" => cred'[i] = cred[i]]_keyVars

\* A connect state lets one callback through (stripe_connect.go:84).
StateIsSpentOnce ==
    \A c, d \in Asks :
      /\ ask[c].op = "callback" /\ ask[d].op = "callback"
      /\ ask[c].of = ask[d].of
      => c = d

\* What a session or a callback proves is true when it is used.
SecretsHold == LoginsKnowThePassword /\ MachinesHoldTheKey /\ StateIsSpentOnce
================================================================================
