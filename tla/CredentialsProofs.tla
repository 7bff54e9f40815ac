---------------------------- MODULE CredentialsProofs ---------------------------
(* Secrets, for any requests: the types, that what a session or a callback    *)
(* proves is true when it is used, and that a revocation is final.            *)
EXTENDS Access, DomainsProofs, TLAPS

AskSteps == {"new", "token", "mail", "write", "signout", "login", "cut", "unset", "machine", "code",
             "persist", "done"}
AskRecords == [pc : AskSteps, op : AskOperations \cup {Absent},
               of : Asks \cup {"tenant", "customer", Absent},
               key : Passwords \cup {Absent}, terms : Secrets, late : BOOLEAN]

Exists(i) == cred[i] # NoCred

\* What a request holds on to at each step, and what a callback has spent.
Keeps(c) ==
    LET k == ask[c] IN
    /\ k.pc = "new" => k.op = Absent
    /\ k.pc \in {"token", "mail", "write", "signout", "login"} => k.of = "customer"
    /\ k.pc = "cut" => k.of \in Asks \cup {"tenant"}
    /\ k.pc = "unset" => k.of \in Asks /\ Exists(k.of)
    /\ k.pc = "machine" => k.of = "tenant" \/ (k.of \in Asks /\ Exists(k.of))
    /\ k.op = "callback" => k.of \in Asks /\ state[k.of] = "none" /\ ask[k.of].op = "initiate"

\* A connect state or a credential is the work of the request it is named for.
OwnSecrets(c) ==
    /\ state[c] # "none" => ask[c].op = "initiate"
    /\ Exists(c) => ask[c].op = "create"

KeysInv ==
    /\ KeysTypeOK
    /\ ask \in [Asks -> AskRecords]
    /\ \A i \in Asks : cred[i].status = "revoked" => cred[i].key = Absent
    /\ \A s \in machines : s.of = "tenant" \/ (s.of \in Asks /\ Exists(s.of))
    /\ \A c \in Asks : Keeps(c) /\ OwnSecrets(c)

--------------------------------------------------------------------------------
(* Passwords *)

\* A session or a request about to get one knows the password, is late, or will
\* be signed out by the change that is under way.
PasswordsKnown ==
    /\ \A s \in logins : \/ s.late \/ s.key = customer.password
                         \/ \E c \in Asks : ask[c].pc = "signout"
    /\ \A c \in Asks :
         /\ ask[c].pc = "signout" => ask[c].late \/ customer.password = c
         /\ ask[c].pc = "login" => ask[c].late \/ ask[c].key = customer.password

PasswordInv == mishaps = 0 => PasswordsKnown

--------------------------------------------------------------------------------
(* Keys *)

\* The key and the terms are those of the day.
Current(of, k, terms) ==
    IF of = "tenant" THEN k = key ELSE k = cred[of].key /\ terms = cred[of].terms

KeysHeld ==
    /\ \A s \in machines : \/ s.late \/ Current(s.of, s.key, s.terms)
                           \/ \E c \in Asks : ask[c].pc = "cut" /\ ask[c].of = s.of
    /\ \A c \in Asks :
         ask[c].pc = "machine" => ask[c].late \/ Current(ask[c].of, ask[c].key, ask[c].terms)

KeyInv == mishaps = 0 => KeysHeld

--------------------------------------------------------------------------------
(* What every step of a request keeps to *)

\* Another request keeps its place and what it holds, and may be late by now.
Same(d) ==
    /\ ask'[d] \in AskRecords
    /\ ask'[d].pc = ask[d].pc /\ ask'[d].op = ask[d].op /\ ask'[d].of = ask[d].of
    /\ ask'[d].key = ask[d].key /\ ask'[d].terms = ask[d].terms
    /\ ask[d].late => ask'[d].late

\* c goes to k, and whoever else is under way and read the secret x is late.
Proceeds(c, k) ==
    /\ ask' \in [Asks -> AskRecords] /\ ask'[c] = k
    /\ \A d \in Asks \ {c} : Same(d)
Overtakes(c, x) == \A d \in Asks \ {c} : UnderWay(d) /\ ask[d].of = x => ask'[d].late

LEMMA OutdatedType ==
    ASSUME ask \in [Asks -> AskRecords], NEW x
    PROVE  /\ Outdated(x) \in [Asks -> AskRecords]
           /\ \A d \in Asks :
                /\ Outdated(x)[d].pc = ask[d].pc /\ Outdated(x)[d].op = ask[d].op
                /\ Outdated(x)[d].of = ask[d].of /\ Outdated(x)[d].key = ask[d].key
                /\ Outdated(x)[d].terms = ask[d].terms
                /\ Outdated(x)[d].late <=> ask[d].late \/ (UnderWay(d) /\ ask[d].of = x)
<1>1. \A d \in Asks : Outdated(x)[d] = [ask[d] EXCEPT !.late = @ \/ (UnderWay(d) /\ ask[d].of = x)]
  BY DEF Outdated
<1>2. \A d \in Asks : (UnderWay(d) /\ ask[d].of = x) \in BOOLEAN
  BY DEF UnderWay
<1>3. \A d \in Asks : Outdated(x)[d] \in AskRecords
  <2>1. ASSUME NEW r \in AskRecords, NEW b \in BOOLEAN PROVE [r EXCEPT !.late = b] \in AskRecords
    BY DEF AskRecords
  <2>2. ASSUME NEW d \in Asks PROVE Outdated(x)[d] \in AskRecords
    <3>1. ask[d] \in AskRecords /\ ask[d].late \in BOOLEAN
      BY DEF AskRecords
    <3>2. PICK b \in BOOLEAN : b = (ask[d].late \/ (UnderWay(d) /\ ask[d].of = x))
      BY <1>2, <3>1
    <3>3. Outdated(x)[d] = [ask[d] EXCEPT !.late = b]
      BY <1>1, <3>2
    <3> QED
      BY <2>1, <3>1, <3>3
  <2> QED
    BY <2>2
<1>4. DOMAIN Outdated(x) = Asks /\ Outdated(x) = [d \in Asks |-> Outdated(x)[d]]
  BY DEF Outdated
<1> QED
  BY <1>1, <1>3, <1>4 DEF AskRecords

LEMMA SetProceeds ==
    ASSUME KeysInv, NEW c \in Asks, NEW k \in AskRecords, ask' = [ask EXCEPT ![c] = k]
    PROVE  Proceeds(c, k)
  BY DEF KeysInv, Proceeds, Same

LEMMA OvertakeMoves ==
    ASSUME KeysInv, NEW c \in Asks, NEW k \in AskRecords, NEW x, ask' = [Outdated(x) EXCEPT ![c] = k]
    PROVE  Proceeds(c, k) /\ Overtakes(c, x)
<1>1. ask \in [Asks -> AskRecords]
  BY DEF KeysInv
<1>2. ask' \in [Asks -> AskRecords] /\ ask'[c] = k /\ \A d \in Asks \ {c} : ask'[d] = Outdated(x)[d]
  BY <1>1, OutdatedType
<1> QED
  BY <1>1, <1>2, OutdatedType DEF Proceeds, Overtakes, Same

LEMMA TurnsMoves ==
    ASSUME KeysInv, NEW c \in Asks, NEW p \in AskSteps, Turns(c, p)
    PROVE  \E k \in AskRecords : /\ Proceeds(c, k) /\ k.pc = p /\ k.op = ask[c].op /\ k.of = ask[c].of
                                 /\ k.key = ask[c].key /\ k.terms = ask[c].terms /\ k.late = ask[c].late
<1> DEFINE k == [ask[c] EXCEPT !.pc = p]
<1>1. /\ k \in AskRecords /\ k.pc = p /\ k.op = ask[c].op /\ k.of = ask[c].of
      /\ k.key = ask[c].key /\ k.terms = ask[c].terms /\ k.late = ask[c].late
  BY DEF KeysInv, AskRecords
<1>2. ask' = [ask EXCEPT ![c] = k]
  BY DEF Turns
<1> HIDE DEF k
<1> QED
  BY <1>1, <1>2, SetProceeds

\* The record of a request that begins.
LEMMA StartedType ==
    ASSUME CredentialConstants, NEW op \in AskOperations, NEW p \in AskSteps,
           NEW of \in Asks \cup {"tenant", "customer", Absent}
    PROVE  LET k == Started(op, p, of) IN
           /\ k \in AskRecords /\ k.pc = p /\ k.op = op /\ k.of = of
           /\ k.key = Absent /\ k.terms = Absent /\ ~k.late
  BY DEF Started, NoAsk, AskRecords, Secrets

\* The types of the collections.
SecretsOK ==
    /\ customer \in [password : Passwords, token : Secrets, fresh : BOOLEAN]
    /\ mailed \subseteq Asks
    /\ logins \subseteq {s \in Session : s.of = "customer"}
    /\ key \in Secrets
    /\ cred \in [Asks -> Credential \cup {NoCred}]
    /\ machines \subseteq Session
    /\ \A s \in machines : s.of = "tenant" \/ (s.of \in Asks /\ Exists(s.of))
    /\ state \in [Asks -> {"none", "fresh", "expired"}]
    /\ account \in Secrets
    /\ \A i \in Asks : /\ cred[i].status = "active" => cred[i].key # Absent
                       /\ cred[i].status = "revoked" => cred[i].key = Absent
    /\ mishaps \in 0 .. MaxMishaps

\* c leaves the credentials and the connect states of others: they go on being
\* there, and a state that is gone stays gone.
SparesAsks(c) ==
    /\ \A i \in Asks : Exists(i) => Exists(i)'
    /\ \A i \in Asks \ {c} : /\ Exists(i)' => Exists(i)
                             /\ state'[i] # "none" => state[i] # "none"

\* What c may become.
Goes(c, k) ==
    /\ Proceeds(c, k)
    /\ ask[c].op # Absent => k.op = ask[c].op
    /\ ask[c].op = Absent \/ (state'[c] # "none" => state[c] # "none")

LEMMA KeysInvStep ==
    ASSUME CredentialConstants, KeysInv, NEW c \in Asks, NEW k \in AskRecords, SecretsOK', SparesAsks(c),
           Goes(c, k), Keeps(c)', OwnSecrets(c)'
    PROVE  KeysInv'
<1>1. \A d \in Asks \ {c} : OwnSecrets(d)'
  BY DEF KeysInv, OwnSecrets, Goes, Proceeds, Same, SparesAsks
<1>2. ASSUME NEW d \in Asks \ {c} PROVE Keeps(d)'
  <2>1. Keeps(d) /\ Same(d) /\ ask[d] \in AskRecords
    BY DEF KeysInv, Goes, Proceeds
  <2>2. \A i \in Asks : Exists(i) => Exists(i)'
    BY DEF SparesAsks
  <2>3. ASSUME ask[d].op = "callback"
        PROVE  ask[d].of \in Asks /\ state'[ask[d].of] = "none" /\ ask'[ask[d].of].op = "initiate"
    <3>1. ask[d].of \in Asks /\ state[ask[d].of] = "none" /\ ask[ask[d].of].op = "initiate"
      BY <2>1, <2>3 DEF Keeps
    <3>2. ask'[ask[d].of].op = "initiate"
      BY <3>1 DEF CredentialConstants, EveryAsk, Goes, Proceeds, Same
    <3>3. state'[ask[d].of] = "none"
      BY <3>1 DEF CredentialConstants, EveryAsk, SparesAsks, Goes
    <3> QED
      BY <3>1, <3>2, <3>3
  <2> QED
    BY <2>1, <2>2, <2>3 DEF Keeps, Same
<1>3. \A d \in Asks : Keeps(d)' /\ OwnSecrets(d)'
  BY <1>1, <1>2
<1>4. KeysTypeOK'
  BY <1>3 DEF KeysTypeOK, SecretsOK, Stage, Keeps, Exists
<1> QED
  BY <1>3, <1>4 DEF KeysInv, SecretsOK, Goes, Proceeds

LEMMA DataOf == KeysInv => SecretsOK
  BY DEF KeysInv, KeysTypeOK, SecretsOK

\* A step that touches no credential and no connect state.
LEMMA SecretsRest ==
    ASSUME CredentialConstants, KeysInv, NEW c \in Asks, NEW k \in AskRecords, SecretsOK',
           UNCHANGED <<cred, state>>, Proceeds(c, k), Keeps(c)',
           ask[c].op # Absent => k.op = ask[c].op
    PROVE  KeysInv'
<1>1. SparesAsks(c) /\ Goes(c, k)
  BY DEF SparesAsks, Goes, Exists
<1>2. OwnSecrets(c)'
  BY DEF KeysInv, OwnSecrets, Goes, Proceeds, Exists, CredentialConstants, EveryAsk
<1> QED
  BY <1>1, <1>2, KeysInvStep

LEMMA MishapsType ==
    ASSUME CredentialConstants, mishaps \in 0 .. MaxMishaps, Unhindered \/ Mishap
    PROVE  mishaps' \in 0 .. MaxMishaps /\ (mishaps' = 0 => mishaps = 0 /\ ~Mishap)
  BY DEF CredentialConstants, Unhindered, Mishap

--------------------------------------------------------------------------------
(* The invariant *)

Inv == KeysInv /\ PasswordInv /\ KeyInv /\ StateIsSpentOnce

\* What a step leaves true that is not about it.
LEMMA PasswordsRest ==
    ASSUME KeysInv, PasswordInv, NEW c \in Asks, NEW k, Proceeds(c, k), UNCHANGED people,
           ask[c].pc # "signout", k.pc \notin {"signout", "login"}, mishaps' = 0 => mishaps = 0
    PROVE  PasswordInv'
  BY DEF PasswordInv, PasswordsKnown, people, Proceeds, Same

LEMMA KeysRest ==
    ASSUME KeysInv, KeyInv, NEW c \in Asks, NEW k, Proceeds(c, k), UNCHANGED robots,
           ask[c].pc # "cut", k.pc # "machine", mishaps' = 0 => mishaps = 0
    PROVE  KeyInv'
<1> SUFFICES ASSUME mishaps' = 0 PROVE KeysHeld'
  BY DEF KeyInv
<1>1. KeysHeld /\ \A d \in Asks \ {c} : Same(d)
  BY DEF KeyInv, Proceeds
<1>2. ASSUME NEW s \in machines
      PROVE  (\/ s.late \/ Current(s.of, s.key, s.terms)
              \/ \E d \in Asks : ask[d].pc = "cut" /\ ask[d].of = s.of)'
  BY <1>1 DEF KeysHeld, Current, robots, Same
<1>3. ASSUME NEW d \in Asks, ask'[d].pc = "machine"
      PROVE  (ask[d].late \/ Current(ask[d].of, ask[d].key, ask[d].terms))'
  <2>1. d # c
    BY <1>3 DEF Proceeds
  <2> QED
    BY <1>1, <1>3, <2>1 DEF KeysHeld, Current, robots, Same
<1> QED
  BY <1>2, <1>3 DEF KeysHeld, robots

LEMMA SpentRests ==
    ASSUME KeysInv, StateIsSpentOnce, NEW c \in Asks, NEW k, Proceeds(c, k),
           k.op = "callback" => ask[c].op = "callback" /\ k.of = ask[c].of
    PROVE  StateIsSpentOnce'
  BY DEF StateIsSpentOnce, Proceeds, Same

--------------------------------------------------------------------------------
(* Passwords *)

PasswordSteps == {"token", "mail", "write", "signout", "login"}

\* A step about the customer's password.
LEMMA PeopleStep ==
    ASSUME CredentialConstants, Inv, NEW c \in Asks, NEW k \in AskRecords, Proceeds(c, k),
           ask[c].pc \in PasswordSteps \cup {"new"}, k.pc \in PasswordSteps \cup {"done"},
           k.of = "customer", k.op # "callback", ask[c].op # Absent => k.op = ask[c].op,
           UNCHANGED <<robots, stripe>>, Unhindered \/ Mishap,
           customer' \in [password : Passwords, token : Secrets, fresh : BOOLEAN],
           mailed' \subseteq Asks, logins' \subseteq {s \in Session : s.of = "customer"},
           PasswordInv'
    PROVE  Inv'
<1>1. SecretsOK /\ ask[c].pc # "cut" /\ k.pc \notin {"machine", "cut", "unset", "new"}
  BY DataOf DEF Inv, PasswordSteps
<1>2. mishaps' \in 0 .. MaxMishaps /\ (mishaps' = 0 => mishaps = 0)
  BY <1>1, MishapsType DEF SecretsOK
<1>3. SecretsOK'
  BY <1>1, <1>2 DEF SecretsOK, robots, stripe, Exists
<1>4. Keeps(c)'
  BY <1>1 DEF Keeps, Proceeds, CredentialConstants
<1>5. KeysInv'
  BY <1>3, <1>4, SecretsRest DEF Inv, robots, stripe
<1>6. KeyInv'
  BY <1>1, <1>2, KeysRest DEF Inv
<1>7. StateIsSpentOnce'
  BY SpentRests DEF Inv
<1> QED
  BY <1>5, <1>6, <1>7 DEF Inv

\* Where a request about a password is.
LEMMA PasswordPlace ==
    ASSUME CredentialConstants, KeysInv, NEW c \in Asks, ask[c].pc \in PasswordSteps
    PROVE  ask[c] \in AskRecords /\ ask[c].of = "customer" /\ ask[c].op # "callback"
  BY DEF KeysInv, Keeps, PasswordSteps, CredentialConstants

LEMMA ResetSteps ==
    ASSUME CredentialConstants, Inv, NEW c \in Asks, ResetFind(c) \/ SetFind(c) \/ LoginRead(c)
    PROVE  Inv'
<1>1. SecretsOK /\ ask[c].pc = "new" /\ ask[c].op = Absent /\ UNCHANGED <<people, robots, stripe, mishaps>>
  BY DataOf DEF Inv, KeysInv, Keeps, ResetFind, SetFind, LoginRead, Opens, Stage
<1>2. PICK k \in AskRecords :
        /\ ask' = [ask EXCEPT ![c] = k] /\ k.pc \in {"token", "write", "login"} /\ k.of = "customer"
        /\ k.op # "callback" /\ (k.pc = "login" => k.key = customer.password)
  <2>1. CASE ResetFind(c)
    <3>1. "reset" \in AskOperations
      BY <2>1 DEF ResetFind, Opens
    <3> DEFINE k == Started("reset", "token", "customer")
    <3>2. k \in AskRecords /\ k.pc = "token" /\ k.op = "reset" /\ k.of = "customer"
      BY <3>1, StartedType DEF AskSteps
    <3> QED
      BY <2>1, <3>2 DEF ResetFind
  <2>2. CASE SetFind(c)
    <3>1. "setPassword" \in AskOperations
      BY <2>2 DEF SetFind, Opens
    <3> DEFINE k == Started("setPassword", "write", "customer")
    <3>2. k \in AskRecords /\ k.pc = "write" /\ k.op = "setPassword" /\ k.of = "customer"
      BY <3>1, StartedType DEF AskSteps
    <3> QED
      BY <2>2, <3>2 DEF SetFind
  <2>3. CASE LoginRead(c)
    <3>1. "login" \in AskOperations /\ customer.password \in Passwords
      BY <1>1, <2>3 DEF LoginRead, Opens, SecretsOK
    <3> DEFINE s == Started("login", "login", "customer") k == [s EXCEPT !.key = customer.password]
    <3>2. s \in AskRecords /\ s.pc = "login" /\ s.op = "login" /\ s.of = "customer"
      BY <3>1, StartedType DEF AskSteps
    <3>3. ask' = [ask EXCEPT ![c] = k]
      BY <2>3 DEF LoginRead
    <3> HIDE DEF s
    <3>4. k \in AskRecords /\ k.pc = "login" /\ k.op = "login" /\ k.of = "customer" /\ k.key = customer.password
      BY <3>1, <3>2 DEF AskRecords
    <3> HIDE DEF k
    <3> QED
      BY <3>3, <3>4
  <2> QED
    BY <2>1, <2>2, <2>3
<1>3. Proceeds(c, k)
  BY <1>2, SetProceeds DEF Inv
<1>4. PasswordInv'
  BY <1>1, <1>2, <1>3 DEF Inv, PasswordInv, PasswordsKnown, people, Proceeds, Same
<1> QED
  BY <1>1, <1>2, <1>3, <1>4, PeopleStep DEF PasswordSteps, SecretsOK, people, Unhindered

LEMMA ResetWrites ==
    ASSUME CredentialConstants, Inv, NEW c \in Asks, ResetWrite(c) \/ ResetMail(c)
    PROVE  Inv'
<1>1. /\ SecretsOK /\ ask[c].pc \in {"token", "mail"} /\ UNCHANGED <<logins, robots, stripe>>
      /\ (Unhindered \/ Mishap)
  BY DataOf DEF Inv, ResetWrite, ResetMail, Stage
<1>2. PICK p \in {"mail", "done"} : Turns(c, p)
  BY DEF ResetWrite, ResetMail, Answers
<1>3. PICK k \in AskRecords : /\ Proceeds(c, k) /\ k.pc = p /\ k.op = ask[c].op /\ k.of = ask[c].of
  BY <1>2, TurnsMoves DEF Inv, AskSteps
<1>4. /\ customer' \in [password : Passwords, token : Secrets, fresh : BOOLEAN]
      /\ customer'.password = customer.password /\ mailed' \subseteq Asks
  BY <1>1 DEF ResetWrite, ResetMail, SecretsOK, Secrets
<1>5. mishaps' = 0 => mishaps = 0
  BY <1>1, MishapsType DEF SecretsOK
<1>6. PasswordInv'
  BY <1>1, <1>3, <1>4, <1>5 DEF Inv, PasswordInv, PasswordsKnown, Proceeds, Same
<1>7. k.of = "customer" /\ k.op # "callback"
  BY <1>1, <1>3, PasswordPlace DEF Inv, PasswordSteps
<1> QED
  BY <1>1, <1>3, <1>4, <1>6, <1>7, PeopleStep DEF PasswordSteps, SecretsOK

LEMMA SetWrites ==
    ASSUME CredentialConstants, Inv, NEW c \in Asks, SetWrite(c)
    PROVE  Inv'
<1>1. /\ SecretsOK /\ ask[c].pc = "write" /\ UNCHANGED <<mailed, logins, robots, stripe>>
      /\ (Unhindered \/ Mishap) /\ ask[c] \in AskRecords /\ ask[c].of = "customer" /\ ask[c].op # "callback"
  BY DataOf, PasswordPlace DEF Inv, SetWrite, Stage, PasswordSteps
<1>2. mishaps' = 0 => mishaps = 0
  BY <1>1, MishapsType DEF SecretsOK
<1>3. CASE /\ customer' = [password |-> c, token |-> Absent, fresh |-> FALSE]
           /\ ask' = [Outdated("customer") EXCEPT ![c].pc = "signout"]
  <2> DEFINE k == [Outdated("customer")[c] EXCEPT !.pc = "signout"]
  <2>1. Outdated("customer")[c] \in AskRecords
    BY OutdatedType DEF Inv, KeysInv
  <2>2. k \in AskRecords /\ k.pc = "signout" /\ k.of = "customer" /\ k.op = ask[c].op
    <3>1. Outdated("customer")[c].of = ask[c].of /\ Outdated("customer")[c].op = ask[c].op
      BY OutdatedType DEF Inv, KeysInv
    <3> QED
      BY <1>1, <2>1, <3>1 DEF AskRecords, AskSteps
  <2>3. ask' = [Outdated("customer") EXCEPT ![c] = k]
    BY <1>3
  <2> HIDE DEF k
  <2>4. Proceeds(c, k) /\ Overtakes(c, "customer")
    BY <2>2, <2>3, OvertakeMoves DEF Inv
  <2>5. \A d \in Asks \ {c} : ask'[d].pc \in {"signout", "login"} => ask'[d].late
    <3> SUFFICES ASSUME NEW d \in Asks \ {c}, ask'[d].pc \in {"signout", "login"} PROVE ask'[d].late
      OBVIOUS
    <3>1. ask[d].pc \in {"signout", "login"}
      BY <2>4 DEF Proceeds, Same
    <3>2. UnderWay(d) /\ ask[d].of = "customer"
      BY <3>1, PasswordPlace DEF UnderWay, Inv, PasswordSteps
    <3> QED
      BY <2>4, <3>2 DEF Overtakes
  <2>6. PasswordInv'
    BY <1>3, <2>2, <2>4, <2>5 DEF PasswordInv, PasswordsKnown, Proceeds
  <2>7. customer' \in [password : Passwords, token : Secrets, fresh : BOOLEAN]
    BY <1>3 DEF Passwords, Secrets
  <2> QED
    BY <1>1, <2>2, <2>4, <2>6, <2>7, PeopleStep DEF PasswordSteps, SecretsOK
<1>4. CASE customer' = customer /\ Answers(c)
  <2>1. PICK k \in AskRecords : Proceeds(c, k) /\ k.pc = "done" /\ k.op = ask[c].op /\ k.of = ask[c].of
    BY <1>4, TurnsMoves DEF Inv, AskSteps, Answers
  <2>2. PasswordInv'
    BY <1>1, <1>2, <1>4, <2>1, PasswordsRest DEF Inv, people
  <2> QED
    BY <1>1, <1>4, <2>1, <2>2, PeopleStep DEF PasswordSteps, SecretsOK
<1> QED
  BY <1>3, <1>4 DEF SetWrite

LEMMA SetSignOuts ==
    ASSUME CredentialConstants, Inv, NEW c \in Asks, SetSignOut(c)
    PROVE  Inv'
<1>1. /\ SecretsOK /\ ask[c].pc = "signout" /\ UNCHANGED <<customer, mailed, robots, stripe>>
      /\ ask[c] \in AskRecords /\ ask[c].of = "customer" /\ ask[c].op # "callback"
      /\ ask' = [ask EXCEPT ![c].pc = "login", ![c].key = c]
  BY DataOf, PasswordPlace DEF Inv, SetSignOut, Stage, PasswordSteps
<1>2. mishaps' = 0 => mishaps = 0 /\ ~Mishap
  BY <1>1, MishapsType DEF SecretsOK, SetSignOut
<1> DEFINE k == [ask[c] EXCEPT !.pc = "login", !.key = c]
<1>3. /\ k \in AskRecords /\ k.pc = "login" /\ k.of = "customer" /\ k.op = ask[c].op
      /\ k.key = c /\ k.late = ask[c].late
  BY <1>1 DEF AskRecords, AskSteps, Passwords
<1>4. ask' = [ask EXCEPT ![c] = k]
  BY <1>1
<1> HIDE DEF k
<1>5. Proceeds(c, k)
  BY <1>3, <1>4, SetProceeds DEF Inv
<1>6. PasswordInv'
  <2> SUFFICES ASSUME mishaps' = 0 PROVE PasswordsKnown'
    BY DEF PasswordInv
  <2>1. logins' = {} /\ PasswordsKnown
    BY <1>2 DEF SetSignOut, Inv, PasswordInv
  <2> QED
    BY <1>1, <1>3, <1>5, <2>1 DEF PasswordsKnown, Proceeds, Same
<1>7. logins' \subseteq {s \in Session : s.of = "customer"} /\ (Unhindered \/ Mishap)
  BY <1>1 DEF SetSignOut, SecretsOK
<1> QED
  BY <1>1, <1>3, <1>5, <1>6, <1>7, PeopleStep DEF PasswordSteps, SecretsOK

LEMMA MintLogins ==
    ASSUME CredentialConstants, Inv, NEW c \in Asks, MintLogin(c)
    PROVE  Inv'
<1>1. /\ SecretsOK /\ ask[c].pc = "login" /\ UNCHANGED <<customer, mailed, robots, stripe>>
      /\ ask[c] \in AskRecords /\ ask[c].of = "customer" /\ ask[c].op # "callback" /\ (Unhindered \/ Mishap)
      /\ logins' \subseteq logins \cup {Minted(c, "customer")}
  BY DataOf, PasswordPlace DEF Inv, MintLogin, Stage, PasswordSteps
<1>2. mishaps' = 0 => mishaps = 0
  BY <1>1, MishapsType DEF SecretsOK
<1>3. PICK k \in AskRecords : Proceeds(c, k) /\ k.pc = "done" /\ k.op = ask[c].op /\ k.of = ask[c].of
  BY TurnsMoves DEF Inv, AskSteps, Answers, MintLogin
<1>4. /\ Minted(c, "customer") \in Session /\ Minted(c, "customer").of = "customer"
      /\ Minted(c, "customer").key = ask[c].key /\ Minted(c, "customer").late = ask[c].late
  BY <1>1 DEF Minted, Session, AskRecords
<1>5. PasswordInv'
  BY <1>1, <1>2, <1>3, <1>4 DEF Inv, PasswordInv, PasswordsKnown, Proceeds, Same
<1>6. logins' \subseteq {s \in Session : s.of = "customer"}
  BY <1>1, <1>4 DEF SecretsOK
<1> QED
  BY <1>1, <1>3, <1>5, <1>6, PeopleStep DEF PasswordSteps, SecretsOK

--------------------------------------------------------------------------------
(* Keys and machine credentials *)

\* A credential some request overtook while it changed what it read.
LEMMA KeysOvertaken ==
    ASSUME KeysInv, KeyInv, NEW c \in Asks, NEW k, NEW x, Proceeds(c, k), Overtakes(c, x),
           ask[c].pc # "cut", k.pc = "cut", k.of = x, UNCHANGED machines,
           x # "tenant" => key' = key, \A i \in Asks : i # x /\ Exists(i) => cred'[i] = cred[i],
           mishaps' = 0 => mishaps = 0
    PROVE  KeyInv'
<1> SUFFICES ASSUME mishaps' = 0 PROVE KeysHeld'
  BY DEF KeyInv
<1>1. KeysHeld /\ ask'[c] = k /\ \A d \in Asks \ {c} : Same(d)
  BY DEF KeyInv, Proceeds
<1>2. ASSUME NEW s \in machines, s.of # x
      PROVE  Current(s.of, s.key, s.terms)' <=> Current(s.of, s.key, s.terms)
  BY <1>2 DEF KeysInv, Current
<1>3. ASSUME NEW s \in machines
      PROVE  (\/ s.late \/ Current(s.of, s.key, s.terms)
              \/ \E d \in Asks : ask[d].pc = "cut" /\ ask[d].of = s.of)'
  <2>1. CASE s.of = x
    BY <1>1, <2>1
  <2>2. CASE s.of # x
    <3>1. Current(s.of, s.key, s.terms)' <=> Current(s.of, s.key, s.terms)
      BY <1>2, <2>2
    <3>2. \A d \in Asks : ask[d].pc = "cut" /\ ask[d].of = s.of => ask'[d].pc = "cut" /\ ask'[d].of = s.of
      BY <1>1 DEF Same
    <3> QED
      BY <1>1, <3>1, <3>2 DEF KeysHeld
  <2> QED
    BY <2>1, <2>2
<1>4. ASSUME NEW d \in Asks, ask'[d].pc = "machine"
      PROVE  ask'[d].late \/ Current(ask[d].of, ask[d].key, ask[d].terms)'
  <2>1. d # c /\ Same(d) /\ ask[d].pc = "machine"
    BY <1>1, <1>4 DEF Same
  <2>2. CASE ask[d].of = x
    BY <2>1, <2>2 DEF Overtakes, UnderWay
  <2>3. CASE ask[d].of # x
    <3>1. ask[d].of = "tenant" \/ (ask[d].of \in Asks /\ Exists(ask[d].of))
      BY <2>1 DEF KeysInv, Keeps
    <3>2. ask'[d].late \/ Current(ask[d].of, ask[d].key, ask[d].terms)
      BY <1>1, <2>1 DEF KeysHeld, Same
    <3> QED
      BY <1>1, <2>1, <2>3, <3>1, <3>2 DEF Current, Same
  <2> QED
    BY <2>2, <2>3
<1> QED
  BY <1>3, <1>4 DEF KeysHeld

\* A step about a key or a credential.
LEMMA RobotStep ==
    ASSUME CredentialConstants, Inv, NEW c \in Asks, NEW k \in AskRecords, Proceeds(c, k),
           ask[c].pc \in {"new", "cut", "unset", "machine"}, k.pc \in {"cut", "unset", "machine", "done"},
           ask[c].op # Absent => k.op = ask[c].op, k.op = "callback" => ask[c].op = "callback",
           k.of = ask[c].of \/ ask[c].op = Absent,
           UNCHANGED <<people, stripe>>, Unhindered \/ Mishap,
           key' \in Secrets, cred' \in [Asks -> Credential \cup {NoCred}],
           \A i \in Asks : Exists(i) => Exists(i)',
           \A i \in Asks : Exists(i)' => Exists(i) \/ (i = c /\ k.op = "create"),
           \A i \in Asks : /\ cred'[i].status = "active" => cred'[i].key # Absent
                           /\ cred'[i].status = "revoked" => cred'[i].key = Absent,
           machines' \subseteq Session,
           \A s \in machines' : s.of = "tenant" \/ (s.of \in Asks /\ Exists(s.of)'),
           k.pc = "cut" => k.of \in Asks \cup {"tenant"},
           k.pc = "unset" => k.of \in Asks /\ Exists(k.of),
           k.pc = "machine" => k.of = "tenant" \/ (k.of \in Asks /\ Exists(k.of)),
           KeyInv'
    PROVE  Inv'
<1>1. SecretsOK /\ ask'[c] = k
  BY DataOf DEF Inv, Proceeds
<1>2. mishaps' \in 0 .. MaxMishaps /\ (mishaps' = 0 => mishaps = 0)
  BY <1>1, MishapsType DEF SecretsOK
<1>3. SecretsOK'
  BY <1>1, <1>2 DEF SecretsOK, people, stripe
<1>4. SparesAsks(c) /\ Goes(c, k)
  BY DEF SparesAsks, Goes, stripe
<1>5. Keeps(c)'
  <2>0. k.op = "callback" => ask[c].op = "callback" /\ k.of = ask[c].of
    BY DEF CredentialConstants, EveryAsk
  <2>1. k.op = "callback" => /\ k.of \in Asks /\ state[k.of] = "none" /\ ask[k.of].op = "initiate"
    BY <2>0 DEF Inv, KeysInv, Keeps
  <2>2. k.op = "callback" => ask'[k.of].op = "initiate"
    BY <1>1, <2>1 DEF Proceeds, Same
  <2>3. \A i \in Asks : Exists(i) => Exists(i)'
    OBVIOUS
  <2> QED
    BY <1>1, <2>1, <2>2, <2>3 DEF Keeps, stripe
<1>6. OwnSecrets(c)'
  BY <1>1 DEF Inv, KeysInv, OwnSecrets, stripe, CredentialConstants, EveryAsk
<1>7. KeysInv'
  BY <1>3, <1>4, <1>5, <1>6, KeysInvStep DEF Inv
<1>8. PasswordInv'
  BY <1>2, PasswordsRest DEF Inv
<1>9. StateIsSpentOnce'
  <2>1. k.op = "callback" => ask[c].op = "callback" /\ k.of = ask[c].of
    BY DEF CredentialConstants, EveryAsk
  <2> QED
    BY <2>1, SpentRests DEF Inv
<1> QED
  BY <1>7, <1>8, <1>9 DEF Inv

\* What begins, begins with a record of its own.
LEMMA BeginsPlace ==
    ASSUME KeysInv, NEW c \in Asks, NEW op, Opens(c, op)
    PROVE  ask[c].pc = "new" /\ ask[c].op = Absent /\ op \in AskOperations /\ SecretsOK
  BY DataOf DEF KeysInv, Keeps, Opens, Stage

LEMMA KeyWrites ==
    ASSUME CredentialConstants, Inv, NEW c \in Asks, KeyWrite(c)
    PROVE  Inv'
<1>1. PICK new \in {c, Absent} :
        /\ Opens(c, IF new = c THEN "mintKey" ELSE "revokeKey")
        /\ key' = new
        /\ ask' = [Outdated("tenant") EXCEPT ![c] =
                      Started(IF new = c THEN "mintKey" ELSE "revokeKey", "cut", "tenant")]
        /\ UNCHANGED <<people, cred, machines, stripe, mishaps>>
  BY DEF KeyWrite
<1> DEFINE op == IF new = c THEN "mintKey" ELSE "revokeKey" k == Started(op, "cut", "tenant")
<1>2. op \in AskOperations /\ op # "callback" /\ ask[c].pc = "new" /\ ask[c].op = Absent /\ SecretsOK
  BY <1>1, BeginsPlace DEF Inv
<1>3. k \in AskRecords /\ k.pc = "cut" /\ k.op = op /\ k.of = "tenant"
  BY <1>2, StartedType DEF AskSteps
<1>4. ask' = [Outdated("tenant") EXCEPT ![c] = k]
  BY <1>1
<1> HIDE DEF op, k
<1>5. Proceeds(c, k) /\ Overtakes(c, "tenant")
  BY <1>3, <1>4, OvertakeMoves DEF Inv
<1>6. KeyInv'
  BY <1>1, <1>2, <1>3, <1>5, KeysOvertaken DEF Inv
<1>7. key' \in Secrets
  BY <1>1 DEF Secrets
<1> QED
  BY <1>1, <1>2, <1>3, <1>5, <1>6, <1>7, RobotStep DEF SecretsOK, Exists, Unhindered

LEMMA CutsMachines ==
    ASSUME CredentialConstants, Inv, NEW c \in Asks, CutMachines(c)
    PROVE  Inv'
<1>1. /\ SecretsOK /\ ask[c].pc = "cut" /\ UNCHANGED <<people, key, cred, stripe>> /\ (Unhindered \/ Mishap)
      /\ machines' \subseteq machines /\ ask[c].of \in Asks \cup {"tenant"}
  BY DataOf DEF Inv, KeysInv, Keeps, CutMachines, Stage
<1>2. mishaps' = 0 => mishaps = 0 /\ ~Mishap
  BY <1>1, MishapsType DEF SecretsOK
<1>3. PICK k \in AskRecords : Proceeds(c, k) /\ k.pc = "done" /\ k.op = ask[c].op /\ k.of = ask[c].of
  BY TurnsMoves DEF Inv, AskSteps, Answers, CutMachines
<1>4. KeyInv'
  <2> SUFFICES ASSUME mishaps' = 0 PROVE KeysHeld'
    BY DEF KeyInv
  <2>1. KeysHeld /\ \A s \in machines' : ask[c].of # "tenant" /\ s.of # ask[c].of
    BY <1>2 DEF Inv, KeyInv, CutMachines
  <2>2. ASSUME NEW s \in machines'
        PROVE  (\/ s.late \/ Current(s.of, s.key, s.terms)
                \/ \E d \in Asks : ask[d].pc = "cut" /\ ask[d].of = s.of)'
    <3>1. s \in machines /\ s.of # ask[c].of
      BY <1>1, <2>1
    <3>2. \A d \in Asks : ask[d].pc = "cut" /\ ask[d].of = s.of => ask'[d].pc = "cut" /\ ask'[d].of = s.of
      BY <1>3, <3>1 DEF Proceeds, Same
    <3> QED
      BY <1>1, <2>1, <3>1, <3>2 DEF KeysHeld, Current
  <2>3. ASSUME NEW d \in Asks, ask'[d].pc = "machine"
        PROVE  (ask[d].late \/ Current(ask[d].of, ask[d].key, ask[d].terms))'
    <3>1. d # c
      BY <1>3, <2>3 DEF Proceeds
    <3> QED
      BY <1>1, <1>3, <2>1, <2>3, <3>1 DEF KeysHeld, Current, Proceeds, Same
  <2> QED
    BY <2>2, <2>3 DEF KeysHeld
<1> QED
  BY <1>1, <1>3, <1>4, RobotStep DEF SecretsOK, Exists

LEMMA Creates ==
    ASSUME CredentialConstants, Inv, NEW c \in Asks, CreateInsert(c)
    PROVE  Inv'
<1>1. PICK n \in Names :
        cred' = [cred EXCEPT ![c] = [name |-> n, status |-> "active", key |-> c, terms |-> c]]
  BY DEF CreateInsert
<1> DEFINE new == [name |-> n, status |-> "active", key |-> c, terms |-> c] k == Started("create", "done", c)
<1>2. /\ "create" \in AskOperations /\ ask[c].pc = "new" /\ ask[c].op = Absent /\ SecretsOK
      /\ UNCHANGED <<people, key, machines, stripe, mishaps>> /\ ask' = [ask EXCEPT ![c] = k]
  BY BeginsPlace DEF Inv, CreateInsert
<1>3. k \in AskRecords /\ k.pc = "done" /\ k.op = "create" /\ k.of = c
  BY <1>2, StartedType DEF AskSteps
<1>4. new \in Credential /\ new # NoCred /\ new.status = "active" /\ new.key = c
  BY DEF Credential, NoCred, Secrets, CredentialConstants
<1>5. cred' = [cred EXCEPT ![c] = new]
  BY <1>1
<1> HIDE DEF new, k
<1>6. Proceeds(c, k)
  BY <1>2, <1>3, SetProceeds DEF Inv
<1>7. ~Exists(c)
  BY <1>2 DEF Inv, KeysInv, OwnSecrets, CredentialConstants, EveryAsk
<1>8. cred' \in [Asks -> Credential \cup {NoCred}] /\ cred'[c] = new /\ \A i \in Asks \ {c} : cred'[i] = cred[i]
  BY <1>2, <1>4, <1>5 DEF SecretsOK
<1>9. KeyInv'
  <2> SUFFICES ASSUME mishaps' = 0 PROVE KeysHeld'
    BY DEF KeyInv
  <2>1. KeysHeld
    BY <1>2 DEF Inv, KeyInv
  <2>2. ASSUME NEW s \in machines'
        PROVE  (\/ s.late \/ Current(s.of, s.key, s.terms)
                \/ \E d \in Asks : ask[d].pc = "cut" /\ ask[d].of = s.of)'
    <3>1. s \in machines /\ s.of # c /\ (s.of = "tenant" \/ s.of \in Asks)
      BY <1>2, <1>7 DEF SecretsOK, CredentialConstants
    <3>2. Current(s.of, s.key, s.terms)' <=> Current(s.of, s.key, s.terms)
      BY <1>2, <1>8, <3>1 DEF Current
    <3>3. \A d \in Asks : ask[d].pc = "cut" /\ ask[d].of = s.of => ask'[d].pc = "cut" /\ ask'[d].of = s.of
      BY <1>2, <1>6 DEF Proceeds, Same
    <3> QED
      BY <2>1, <3>1, <3>2, <3>3 DEF KeysHeld
  <2>3. ASSUME NEW d \in Asks, ask'[d].pc = "machine"
        PROVE  (ask[d].late \/ Current(ask[d].of, ask[d].key, ask[d].terms))'
    <3>1. Same(d) /\ ask[d].pc = "machine"
      BY <1>3, <1>6, <2>3 DEF Proceeds, Same
    <3>2. ask[d].of = "tenant" \/ (ask[d].of \in Asks /\ ask[d].of # c)
      BY <1>7, <3>1 DEF Inv, KeysInv, Keeps
    <3> QED
      BY <1>2, <1>8, <2>1, <3>1, <3>2 DEF KeysHeld, Current, Same
  <2> QED
    BY <2>2, <2>3 DEF KeysHeld
<1>10. \A i \in Asks : /\ cred'[i].status = "active" => cred'[i].key # Absent
                       /\ cred'[i].status = "revoked" => cred'[i].key = Absent
  BY <1>2, <1>4, <1>8 DEF SecretsOK, CredentialConstants
<1>11. \A i \in Asks : (Exists(i) => Exists(i)') /\ (Exists(i)' => Exists(i) \/ i = c)
  BY <1>4, <1>8 DEF Exists
<1> QED
  BY <1>2, <1>3, <1>6, <1>8, <1>9, <1>10, <1>11, RobotStep DEF SecretsOK, Unhindered

\* A credential that is changed, with the requests that read it overtaken.
LEMMA Changes ==
    ASSUME CredentialConstants, Inv, NEW c \in Asks, NEW op \in {"rotate", "update"}, NEW i \in Asks,
           NEW new \in Credential, Change(c, op, i, new), new.status = "active", new.key # Absent
    PROVE  Inv'
<1> DEFINE k == Started(op, "cut", i)
<1>1. /\ op \in AskOperations /\ ask[c].pc = "new" /\ ask[c].op = Absent /\ SecretsOK
      /\ UNCHANGED <<people, key, machines, stripe, mishaps>> /\ cred[i].status = "active"
      /\ cred' = [cred EXCEPT ![i] = new] /\ ask' = [Outdated(i) EXCEPT ![c] = k]
  BY BeginsPlace DEF Inv, Change
<1>2. k \in AskRecords /\ k.pc = "cut" /\ k.op = op /\ k.of = i
  BY <1>1, StartedType DEF AskSteps
<1> HIDE DEF k
<1>3. Proceeds(c, k) /\ Overtakes(c, i)
  BY <1>1, <1>2, OvertakeMoves DEF Inv
<1>4. new # NoCred /\ cred[i] # NoCred
  BY <1>1 DEF NoCred
<1>5. cred' \in [Asks -> Credential \cup {NoCred}] /\ cred'[i] = new /\ \A j \in Asks \ {i} : cred'[j] = cred[j]
  BY <1>1 DEF SecretsOK
<1>6. KeyInv'
  BY <1>1, <1>2, <1>3, <1>5, KeysOvertaken DEF Inv
<1>7. \A j \in Asks : /\ cred'[j].status = "active" => cred'[j].key # Absent
                      /\ cred'[j].status = "revoked" => cred'[j].key = Absent
  BY <1>1, <1>5 DEF SecretsOK
<1>8. \A j \in Asks : Exists(j)' <=> Exists(j)
  BY <1>4, <1>5 DEF Exists
<1> QED
  BY <1>1, <1>2, <1>3, <1>5, <1>6, <1>7, <1>8, RobotStep DEF SecretsOK, Unhindered

LEMMA RotatesUpdates ==
    ASSUME CredentialConstants, Inv, NEW c \in Asks, Rotate(c) \/ Update(c)
    PROVE  Inv'
<1>1. ASSUME NEW i \in Asks, cred[i].status = "active"
      PROVE  cred[i] \in Credential /\ cred[i].key # Absent
  BY <1>1, DataOf DEF Inv, SecretsOK, NoCred
<1>2. CASE Rotate(c)
  <2>1. PICK i \in Asks : Change(c, "rotate", i, [cred[i] EXCEPT !.key = c])
    BY <1>2 DEF Rotate
  <2> DEFINE new == [cred[i] EXCEPT !.key = c]
  <2>2. cred[i].status = "active"
    BY <2>1 DEF Change
  <2>3. new \in Credential /\ new.status = "active" /\ new.key # Absent
    BY <1>1, <2>2 DEF Credential, Secrets, CredentialConstants
  <2> HIDE DEF new
  <2> QED
    BY <2>1, <2>3, Changes DEF new
<1>3. CASE Update(c)
  <2>1. PICK i \in Asks, n \in Names : Change(c, "update", i, [cred[i] EXCEPT !.name = n, !.terms = c])
    BY <1>3 DEF Update
  <2> DEFINE new == [cred[i] EXCEPT !.name = n, !.terms = c]
  <2>2. cred[i].status = "active"
    BY <2>1 DEF Change
  <2>3. new \in Credential /\ new.status = "active" /\ new.key # Absent
    BY <1>1, <2>2 DEF Credential, Secrets, CredentialConstants
  <2> HIDE DEF new
  <2> QED
    BY <2>1, <2>3, Changes DEF new
<1> QED
  BY <1>2, <1>3

LEMMA Revokes ==
    ASSUME CredentialConstants, Inv, NEW c \in Asks, RevokeFind(c) \/ RevokeWrite(c)
    PROVE  Inv'
<1>1. CASE RevokeFind(c)
  <2>1. PICK i \in Asks : cred[i].status = "active" /\ ask' = [ask EXCEPT ![c] = Started("revoke", "unset", i)]
    BY <1>1 DEF RevokeFind
  <2> DEFINE k == Started("revoke", "unset", i)
  <2>2. /\ "revoke" \in AskOperations /\ ask[c].pc = "new" /\ ask[c].op = Absent /\ SecretsOK
        /\ UNCHANGED <<people, robots, stripe, mishaps>>
    BY <1>1, BeginsPlace DEF Inv, RevokeFind
  <2>3. k \in AskRecords /\ k.pc = "unset" /\ k.op = "revoke" /\ k.of = i
    BY <2>2, StartedType DEF AskSteps
  <2> HIDE DEF k
  <2>4. Proceeds(c, k)
    BY <2>1, <2>3, SetProceeds DEF Inv, k
  <2>5. Exists(i)
    BY <2>1 DEF Exists, NoCred
  <2>6. KeyInv'
    BY <2>2, <2>3, <2>4, KeysRest DEF Inv
  <2> QED
    BY <2>2, <2>3, <2>4, <2>5, <2>6, RobotStep DEF SecretsOK, Unhindered, robots, Exists
<1>2. CASE RevokeWrite(c)
  <2> DEFINE i == ask[c].of
  <2>1. /\ ask[c].pc = "unset" /\ i \in Asks /\ Exists(i) /\ SecretsOK /\ (Unhindered \/ Mishap)
        /\ UNCHANGED <<people, key, machines, stripe>> /\ ask[c] \in AskRecords
    BY <1>2, DataOf DEF Inv, KeysInv, Keeps, RevokeWrite, Stage
  <2>2. mishaps' = 0 => mishaps = 0
    BY <2>1, MishapsType DEF SecretsOK
  <2>3. CASE cred' = cred /\ Turns(c, "cut")
    <3>1. PICK k \in AskRecords : Proceeds(c, k) /\ k.pc = "cut" /\ k.op = ask[c].op /\ k.of = ask[c].of
      BY <2>3, TurnsMoves DEF Inv, AskSteps
    <3>2. KeyInv'
      BY <2>1, <2>2, <2>3, <3>1, KeysRest DEF Inv, robots
    <3> QED
      BY <2>1, <2>3, <3>1, <3>2, RobotStep DEF SecretsOK, Exists
  <2>4. CASE /\ cred' = [cred EXCEPT ![i].status = "revoked", ![i].key = Absent]
             /\ ask' = [Outdated(i) EXCEPT ![c].pc = "cut"]
    <3> DEFINE k == [Outdated(i)[c] EXCEPT !.pc = "cut"]
               new == [cred[i] EXCEPT !.status = "revoked", !.key = Absent]
    <3>1. /\ Outdated(i)[c] \in AskRecords /\ Outdated(i)[c].of = i /\ Outdated(i)[c].op = ask[c].op
      BY OutdatedType DEF Inv, KeysInv
    <3>2. k \in AskRecords /\ k.pc = "cut" /\ k.of = i /\ k.op = ask[c].op
      BY <3>1 DEF AskRecords, AskSteps
    <3>3. ask' = [Outdated(i) EXCEPT ![c] = k] /\ cred' = [cred EXCEPT ![i] = new]
      BY <2>4
    <3>4. new \in Credential /\ new.status = "revoked" /\ new.key = Absent
      <4>1. cred[i] \in Credential
        BY <2>1 DEF SecretsOK, Exists
      <4> QED
        BY <4>1 DEF Credential, Secrets
    <3> HIDE DEF k, new, i
    <3>5. Proceeds(c, k) /\ Overtakes(c, i)
      BY <3>2, <3>3, OvertakeMoves DEF Inv
    <3>6. /\ cred' \in [Asks -> Credential \cup {NoCred}] /\ cred'[i] = new
          /\ \A j \in Asks \ {i} : cred'[j] = cred[j]
      BY <2>1, <3>3, <3>4 DEF SecretsOK
    <3>7. KeyInv'
      BY <2>1, <2>2, <3>2, <3>5, <3>6, KeysOvertaken DEF Inv
    <3>8. \A j \in Asks : /\ cred'[j].status = "active" => cred'[j].key # Absent
                          /\ cred'[j].status = "revoked" => cred'[j].key = Absent
      BY <2>1, <3>4, <3>6 DEF SecretsOK
    <3>9. \A j \in Asks : Exists(j)' <=> Exists(j)
      BY <2>1, <3>4, <3>6 DEF Exists, NoCred
    <3>10. k.of = ask[c].of
      BY <3>2 DEF i
    <3> QED
      BY <2>1, <3>2, <3>5, <3>6, <3>7, <3>8, <3>9, <3>10, RobotStep DEF SecretsOK
  <2> QED
    BY <1>2, <2>3, <2>4 DEF RevokeWrite
<1> QED
  BY <1>1, <1>2

LEMMA Exchanges ==
    ASSUME CredentialConstants, Inv, NEW c \in Asks, ExchangeRead(c)
    PROVE  Inv'
<1>1. /\ "exchange" \in AskOperations /\ ask[c].pc = "new" /\ ask[c].op = Absent /\ SecretsOK
      /\ UNCHANGED <<people, robots, stripe, mishaps>>
  BY BeginsPlace DEF Inv, ExchangeRead
<1>2. PICK k \in AskRecords :
        /\ ask' = [ask EXCEPT ![c] = k] /\ k.pc = "machine" /\ k.op = "exchange"
        /\ k.of = "tenant" \/ (k.of \in Asks /\ Exists(k.of))
        /\ Current(k.of, k.key, k.terms)
  <2>1. CASE ask' = [ask EXCEPT ![c] = [Started("exchange", "machine", "tenant") EXCEPT !.key = key]]
    <3> DEFINE s == Started("exchange", "machine", "tenant") k == [s EXCEPT !.key = key]
    <3>1. s \in AskRecords /\ s.pc = "machine" /\ s.op = "exchange" /\ s.of = "tenant"
      BY <1>1, StartedType DEF AskSteps
    <3>2. ask' = [ask EXCEPT ![c] = k]
      BY <2>1
    <3> HIDE DEF s
    <3>3. k \in AskRecords /\ k.pc = "machine" /\ k.op = "exchange" /\ k.of = "tenant" /\ k.key = key
      BY <1>1, <3>1 DEF AskRecords, SecretsOK, Secrets, Passwords
    <3> HIDE DEF k
    <3> QED
      BY <3>2, <3>3 DEF Current
  <2>2. CASE \E i \in Asks :
               /\ cred[i].status = "active"
               /\ ask' = [ask EXCEPT ![c] = [Started("exchange", "machine", i)
                                                 EXCEPT !.key = cred[i].key, !.terms = cred[i].terms]]
    <3>1. PICK i \in Asks :
               /\ cred[i].status = "active"
               /\ ask' = [ask EXCEPT ![c] = [Started("exchange", "machine", i)
                                                 EXCEPT !.key = cred[i].key, !.terms = cred[i].terms]]
      BY <2>2
    <3> DEFINE s == Started("exchange", "machine", i)
               k == [s EXCEPT !.key = cred[i].key, !.terms = cred[i].terms]
    <3>2. s \in AskRecords /\ s.pc = "machine" /\ s.op = "exchange" /\ s.of = i
      BY <1>1, StartedType DEF AskSteps
    <3>3. ask' = [ask EXCEPT ![c] = k]
      BY <3>1
    <3>4. cred[i] \in Credential
      BY <1>1, <3>1 DEF SecretsOK, NoCred
    <3> HIDE DEF s
    <3>5. /\ k \in AskRecords /\ k.pc = "machine" /\ k.op = "exchange" /\ k.of = i
          /\ k.key = cred[i].key /\ k.terms = cred[i].terms
      BY <3>2, <3>4 DEF AskRecords, Credential, Secrets, Passwords
    <3> HIDE DEF k
    <3>6. Exists(i) /\ Current(i, k.key, k.terms)
      BY <3>1, <3>5 DEF Exists, NoCred, Current, CredentialConstants
    <3> QED
      BY <3>3, <3>5, <3>6
  <2> QED
    BY <2>1, <2>2 DEF ExchangeRead
<1>3. Proceeds(c, k)
  BY <1>2, SetProceeds DEF Inv
<1>4. KeyInv'
  <2> SUFFICES ASSUME mishaps' = 0 PROVE KeysHeld'
    BY DEF KeyInv
  <2>1. KeysHeld /\ ask'[c] = k /\ \A d \in Asks \ {c} : Same(d)
    BY <1>1, <1>3 DEF Inv, KeyInv, Proceeds
  <2>2. ASSUME NEW s \in machines'
        PROVE  (\/ s.late \/ Current(s.of, s.key, s.terms)
                \/ \E d \in Asks : ask[d].pc = "cut" /\ ask[d].of = s.of)'
    <3>1. \A d \in Asks : ask[d].pc = "cut" /\ ask[d].of = s.of => ask'[d].pc = "cut" /\ ask'[d].of = s.of
      BY <1>1, <2>1 DEF Same
    <3> QED
      BY <1>1, <2>1, <3>1 DEF KeysHeld, Current, robots
  <2>3. ASSUME NEW d \in Asks, ask'[d].pc = "machine"
        PROVE  (ask[d].late \/ Current(ask[d].of, ask[d].key, ask[d].terms))'
    <3>1. CASE d = c
      BY <1>1, <1>2, <2>1, <3>1 DEF Current, robots
    <3>2. CASE d # c
      BY <1>1, <2>1, <2>3, <3>2 DEF KeysHeld, Current, robots, Same
    <3> QED
      BY <3>1, <3>2
  <2> QED
    BY <2>2, <2>3 DEF KeysHeld
<1> QED
  BY <1>1, <1>2, <1>3, <1>4, RobotStep DEF SecretsOK, Unhindered, robots, Exists

LEMMA MintMachines ==
    ASSUME CredentialConstants, Inv, NEW c \in Asks, MintMachine(c)
    PROVE  Inv'
<1> DEFINE s == Minted(c, ask[c].of)
<1>1. /\ SecretsOK /\ ask[c].pc = "machine" /\ UNCHANGED <<people, key, cred, stripe>> /\ (Unhindered \/ Mishap)
      /\ ask[c] \in AskRecords /\ (ask[c].of = "tenant" \/ (ask[c].of \in Asks /\ Exists(ask[c].of)))
      /\ machines' \subseteq machines \cup {s}
  BY DataOf DEF Inv, KeysInv, Keeps, MintMachine, Stage
<1>2. mishaps' = 0 => mishaps = 0
  BY <1>1, MishapsType DEF SecretsOK
<1>3. PICK k \in AskRecords : Proceeds(c, k) /\ k.pc = "done" /\ k.op = ask[c].op /\ k.of = ask[c].of
  BY TurnsMoves DEF Inv, AskSteps, Answers, MintMachine
<1>4. /\ s \in Session /\ s.of = ask[c].of /\ s.key = ask[c].key /\ s.terms = ask[c].terms
      /\ s.late = ask[c].late
  BY <1>1 DEF Minted, Session, AskRecords
<1> HIDE DEF s
<1>5. KeyInv'
  <2> SUFFICES ASSUME mishaps' = 0 PROVE KeysHeld'
    BY DEF KeyInv
  <2>1. KeysHeld /\ ask'[c] = k /\ \A d \in Asks \ {c} : Same(d)
    BY <1>2, <1>3 DEF Inv, KeyInv, Proceeds
  <2>2. ASSUME NEW t \in machines'
        PROVE  (\/ t.late \/ Current(t.of, t.key, t.terms)
                \/ \E d \in Asks : ask[d].pc = "cut" /\ ask[d].of = t.of)'
    <3>1. \A d \in Asks : ask[d].pc = "cut" /\ ask[d].of = t.of => ask'[d].pc = "cut" /\ ask'[d].of = t.of
      BY <1>1, <2>1 DEF Same
    <3>2. CASE t \in machines
      BY <1>1, <2>1, <3>1, <3>2 DEF KeysHeld, Current
    <3>3. CASE t = s
      BY <1>1, <1>4, <2>1, <3>3 DEF KeysHeld, Current
    <3> QED
      BY <1>1, <3>2, <3>3
  <2>3. ASSUME NEW d \in Asks, ask'[d].pc = "machine"
        PROVE  (ask[d].late \/ Current(ask[d].of, ask[d].key, ask[d].terms))'
    BY <1>1, <1>3, <2>1, <2>3 DEF KeysHeld, Current, Same
  <2> QED
    BY <2>2, <2>3 DEF KeysHeld
<1>6. machines' \subseteq Session /\ \A t \in machines' : t.of = "tenant" \/ (t.of \in Asks /\ Exists(t.of))
  BY <1>1, <1>4 DEF SecretsOK
<1> QED
  BY <1>1, <1>3, <1>5, <1>6, RobotStep DEF SecretsOK, Exists

--------------------------------------------------------------------------------
(* Stripe Connect *)

\* A step about the connected account.
LEMMA ConnectStep ==
    ASSUME CredentialConstants, Inv, NEW c \in Asks, NEW k \in AskRecords, Proceeds(c, k),
           ask[c].pc \in {"new", "code", "persist"}, k.pc \in {"code", "persist", "done"},
           ask[c].op # Absent => k.op = ask[c].op,
           UNCHANGED <<people, robots>>, Unhindered \/ Mishap,
           state' \in [Asks -> {"none", "fresh", "expired"}], account' \in Secrets,
           \A i \in Asks : state'[i] # "none" => state[i] # "none" \/ (i = c /\ ask[c].op = Absent),
           state'[c] # "none" => k.op = "initiate",
           k.op = "callback" => k.of \in Asks /\ state'[k.of] = "none" /\ ask'[k.of].op = "initiate",
           StateIsSpentOnce'
    PROVE  Inv'
<1>1. SecretsOK /\ ask'[c] = k
  BY DataOf DEF Inv, Proceeds
<1>2. mishaps' \in 0 .. MaxMishaps /\ (mishaps' = 0 => mishaps = 0)
  BY <1>1, MishapsType DEF SecretsOK
<1>3. SecretsOK'
  BY <1>1, <1>2 DEF SecretsOK, people, robots, Exists
<1>4. SparesAsks(c) /\ Goes(c, k)
  BY DEF SparesAsks, Goes, Exists, robots
<1>5. Keeps(c)'
  BY <1>1 DEF Keeps
<1>6. OwnSecrets(c)'
  BY <1>1 DEF Inv, KeysInv, OwnSecrets, Exists, robots, CredentialConstants, EveryAsk
<1>7. KeysInv'
  BY <1>3, <1>4, <1>5, <1>6, KeysInvStep DEF Inv
<1>8. PasswordInv'
  BY <1>2, PasswordsRest DEF Inv
<1>9. KeyInv'
  BY <1>2, KeysRest DEF Inv
<1> QED
  BY <1>7, <1>8, <1>9 DEF Inv

LEMMA Initiates ==
    ASSUME CredentialConstants, Inv, NEW c \in Asks, Initiate(c)
    PROVE  Inv'
<1> DEFINE k == Started("initiate", "done", c)
<1>1. /\ "initiate" \in AskOperations /\ ask[c].pc = "new" /\ ask[c].op = Absent /\ SecretsOK
      /\ UNCHANGED <<people, robots, account, mishaps>> /\ ask' = [ask EXCEPT ![c] = k]
      /\ state' = Stored(c)
  BY BeginsPlace DEF Inv, Initiate
<1>2. k \in AskRecords /\ k.pc = "done" /\ k.op = "initiate" /\ k.of = c
  BY <1>1, StartedType DEF AskSteps
<1> HIDE DEF k
<1>3. Proceeds(c, k)
  BY <1>1, <1>2, SetProceeds DEF Inv
<1>4. /\ state' \in [Asks -> {"none", "fresh", "expired"}]
      /\ \A i \in Asks \ {c} : state'[i] # "none" => state[i] # "none"
  BY <1>1 DEF Stored, SecretsOK
<1>5. StateIsSpentOnce'
  BY <1>2, <1>3, SpentRests DEF Inv
<1> QED
  BY <1>1, <1>2, <1>3, <1>4, <1>5, ConnectStep DEF SecretsOK, Unhindered

\* No callback had the state before: one that did has removed it.
LEMMA Consumes ==
    ASSUME CredentialConstants, Inv, NEW c \in Asks, CallbackConsume(c)
    PROVE  Inv'
<1>1. PICK s \in Asks :
        /\ state[s] # "none"
        /\ state' = [state EXCEPT ![s] = "none"]
        /\ ask' = [ask EXCEPT ![c] = Started("callback", IF state[s] = "fresh" THEN "code" ELSE "done", s)]
  BY DEF CallbackConsume
<1> DEFINE p == IF state[s] = "fresh" THEN "code" ELSE "done" k == Started("callback", p, s)
<1>2. /\ "callback" \in AskOperations /\ ask[c].pc = "new" /\ ask[c].op = Absent /\ SecretsOK
      /\ UNCHANGED <<people, robots, account, mishaps>>
  BY BeginsPlace DEF Inv, CallbackConsume
<1>3. p \in AskSteps /\ k \in AskRecords /\ k.pc \in {"code", "done"} /\ k.op = "callback" /\ k.of = s
  <2>1. p \in AskSteps /\ p \in {"code", "done"}
    BY DEF AskSteps
  <2> QED
    BY <1>2, <2>1, StartedType
<1>4. ask' = [ask EXCEPT ![c] = k]
  BY <1>1
<1> HIDE DEF p, k
<1>5. Proceeds(c, k)
  BY <1>3, <1>4, SetProceeds DEF Inv
<1>6. /\ state' \in [Asks -> {"none", "fresh", "expired"}] /\ state'[s] = "none"
      /\ \A i \in Asks : state'[i] # "none" => state[i] # "none"
  BY <1>1, <1>2 DEF SecretsOK
<1>7. ask[s].op = "initiate" /\ ask[s].op # Absent /\ s # c
  BY <1>1, <1>2 DEF Inv, KeysInv, OwnSecrets, CredentialConstants, EveryAsk
<1>8. ask'[s].op = "initiate"
  BY <1>5, <1>7 DEF Proceeds, Same
<1>9. \A d \in Asks : ask[d].op = "callback" => ask[d].of # s
  BY <1>1 DEF Inv, KeysInv, Keeps
<1>10. StateIsSpentOnce'
  BY <1>3, <1>5, <1>9 DEF Inv, StateIsSpentOnce, Proceeds, Same
<1>11. state'[c] = "none"
  BY <1>2, <1>6 DEF Inv, KeysInv, OwnSecrets, CredentialConstants, EveryAsk
<1> QED
  BY <1>2, <1>3, <1>5, <1>6, <1>8, <1>10, <1>11, ConnectStep DEF SecretsOK, Unhindered

LEMMA Connects ==
    ASSUME CredentialConstants, Inv, NEW c \in Asks, CallbackExchange(c) \/ CallbackPersist(c)
    PROVE  Inv'
<1>1. /\ SecretsOK /\ ask[c].pc \in {"code", "persist"} /\ UNCHANGED <<people, robots, state>>
      /\ Unhindered \/ Mishap
  BY DataOf DEF Inv, CallbackExchange, CallbackPersist, Stage, stripe
<1>2. account' \in Secrets
  BY <1>1 DEF SecretsOK, Secrets, CallbackExchange, CallbackPersist, stripe
<1>3. PICK k \in AskRecords : /\ Proceeds(c, k) /\ k.pc \in {"persist", "done"}
                              /\ k.op = ask[c].op /\ k.of = ask[c].of
  <2>1. Turns(c, "persist") \/ Turns(c, "done")
    BY DEF CallbackExchange, CallbackPersist, Answers
  <2>2. "persist" \in AskSteps /\ "done" \in AskSteps
    BY DEF AskSteps
  <2> QED
    BY <2>1, <2>2, TurnsMoves DEF Inv
<1>4. StateIsSpentOnce'
  BY <1>3, SpentRests DEF Inv
<1>5. state'[c] # "none" => k.op = "initiate"
  BY <1>1, <1>3 DEF Inv, KeysInv, OwnSecrets
<1>6. k.op = "callback" => k.of \in Asks /\ state'[k.of] = "none" /\ ask'[k.of].op = "initiate"
  <2> SUFFICES ASSUME k.op = "callback"
               PROVE  k.of \in Asks /\ state'[k.of] = "none" /\ ask'[k.of].op = "initiate"
    OBVIOUS
  <2>1. k.of \in Asks /\ state[k.of] = "none" /\ ask[k.of].op = "initiate"
    BY <1>3 DEF Inv, KeysInv, Keeps
  <2> QED
    BY <1>1, <1>3, <2>1 DEF Proceeds, Same
<1> QED
  BY <1>1, <1>2, <1>3, <1>4, <1>5, <1>6, ConnectStep DEF SecretsOK

LEMMA Disconnects ==
    ASSUME CredentialConstants, Inv, NEW c \in Asks, Disconnect(c)
    PROVE  Inv'
<1> DEFINE k == Started("disconnect", "done", Absent)
<1>1. /\ "disconnect" \in AskOperations /\ ask[c].pc = "new" /\ ask[c].op = Absent /\ SecretsOK
      /\ UNCHANGED <<people, robots, state, mishaps>> /\ ask' = [ask EXCEPT ![c] = k]
      /\ account' \in Secrets
  BY BeginsPlace DEF Inv, Disconnect, Secrets
<1>2. k \in AskRecords /\ k.pc = "done" /\ k.op = "disconnect"
  BY <1>1, StartedType DEF AskSteps
<1> HIDE DEF k
<1>3. Proceeds(c, k)
  BY <1>1, <1>2, SetProceeds DEF Inv
<1>4. StateIsSpentOnce'
  BY <1>2, <1>3, SpentRests DEF Inv
<1>5. state'[c] = "none"
  BY <1>1 DEF Inv, KeysInv, OwnSecrets, CredentialConstants, EveryAsk
<1> QED
  BY <1>1, <1>2, <1>3, <1>4, <1>5, ConnectStep DEF SecretsOK, Unhindered

--------------------------------------------------------------------------------
(* Time and the process *)

\* Every request keeps its operation and what it is about, and only runs to its
\* end; the states only go.
LEMMA FaultStep ==
    ASSUME CredentialConstants, Inv, Mishap,
           ask' \in [Asks -> AskRecords],
           \A c \in Asks : /\ ask'[c].pc \in {ask[c].pc, "done"}
                           /\ ask'[c].op = ask[c].op /\ ask'[c].of = ask[c].of,
           state' \in [Asks -> {"none", "fresh", "expired"}],
           \A c \in Asks : state'[c] # "none" => state[c] # "none",
           customer' \in [password : Passwords, token : Secrets, fresh : BOOLEAN],
           UNCHANGED <<mailed, logins, robots, account>>
    PROVE  Inv'
<1>1. SecretsOK /\ mishaps' \in 0 .. MaxMishaps /\ mishaps' # 0
  BY DataOf DEF Inv, SecretsOK, CredentialConstants, Mishap
<1>2. SecretsOK'
  BY <1>1 DEF SecretsOK, robots, Exists
<1>3. ASSUME NEW c \in Asks PROVE Keeps(c)' /\ OwnSecrets(c)'
  <2>1. Keeps(c) /\ OwnSecrets(c)
    BY DEF Inv, KeysInv
  <2>2. ask'[c].op = "callback" =>
          ask'[c].of \in Asks /\ state'[ask'[c].of] = "none" /\ ask'[ask'[c].of].op = "initiate"
    BY <2>1 DEF Keeps
  <2>3. Keeps(c)'
    BY <2>1, <2>2 DEF Keeps, Exists, robots
  <2> QED
    BY <2>1, <2>3 DEF OwnSecrets, Exists, robots
<1>4. KeysTypeOK'
  BY <1>2, <1>3 DEF KeysTypeOK, SecretsOK, Stage, Keeps, Exists
<1>5. KeysInv'
  BY <1>2, <1>3, <1>4 DEF KeysInv, SecretsOK
<1>6. StateIsSpentOnce'
  BY DEF Inv, StateIsSpentOnce
<1> QED
  BY <1>1, <1>5, <1>6 DEF Inv, PasswordInv, KeyInv

LEMMA Expires ==
    ASSUME CredentialConstants, Inv, TokenExpires \/ StateExpires
    PROVE  Inv'
<1>1. SecretsOK /\ Mishap /\ ask \in [Asks -> AskRecords]
  BY DataOf DEF Inv, KeysInv, TokenExpires, StateExpires
<1>2. CASE TokenExpires
  BY <1>1, <1>2, FaultStep DEF TokenExpires, SecretsOK, stripe
<1>3. CASE StateExpires
  <2>1. /\ state' \in [Asks -> {"none", "fresh", "expired"}]
        /\ \A c \in Asks : state'[c] # "none" => state[c] # "none"
    BY <1>1, <1>3 DEF StateExpires, SecretsOK
  <2> QED
    BY <1>1, <1>3, <2>1, FaultStep DEF StateExpires, SecretsOK, people
<1> QED
  BY <1>2, <1>3

LEMMA Restarts ==
    ASSUME CredentialConstants, Inv, Restart
    PROVE  Inv'
<1>1. SecretsOK /\ Mishap /\ ask \in [Asks -> AskRecords] /\ UNCHANGED <<people, robots, account>>
  BY DataOf DEF Inv, KeysInv, Restart
<1>2. ask' = [c \in Asks |-> IF UnderWay(c) THEN [ask[c] EXCEPT !.pc = "done"] ELSE ask[c]]
  BY DEF Restart
<1>3. state' \in [Asks -> {"none", "fresh", "expired"}] /\ \A c \in Asks : state'[c] = "none"
  BY DEF Restart
<1>4. ASSUME NEW c \in Asks
      PROVE  /\ ask'[c] \in AskRecords /\ ask'[c].pc \in {ask[c].pc, "done"}
             /\ ask'[c].op = ask[c].op /\ ask'[c].of = ask[c].of
  <2>1. ask[c] \in AskRecords
    BY <1>1
  <2>2. CASE UnderWay(c)
    BY <1>2, <2>1, <2>2 DEF AskRecords, AskSteps
  <2>3. CASE ~UnderWay(c)
    BY <1>2, <2>1, <2>3
  <2> QED
    BY <2>2, <2>3
<1>5. ask' \in [Asks -> AskRecords]
  BY <1>2, <1>4
<1> QED
  BY <1>1, <1>3, <1>4, <1>5, FaultStep DEF SecretsOK, people

--------------------------------------------------------------------------------

LEMMA InvInit ==
    ASSUME CredentialConstants, KeysInit
    PROVE  Inv
<1>1. \A c \in Asks : /\ ask[c] = NoAsk /\ cred[c] = NoCred /\ state[c] = "none" /\ ~Exists(c)
  BY DEF KeysInit, Exists
<1>2. NoAsk \in AskRecords /\ NoAsk.pc = "new" /\ NoAsk.op = Absent
  BY DEF NoAsk, AskRecords, AskSteps, Secrets
<1>3. ask \in [Asks -> AskRecords]
  BY <1>2 DEF KeysInit
<1>4. \A c \in Asks : Keeps(c) /\ OwnSecrets(c)
  BY <1>1, <1>2 DEF Keeps, OwnSecrets, CredentialConstants, EveryAsk
<1>5. KeysTypeOK
  BY <1>1, <1>2 DEF KeysTypeOK, KeysInit, NoCred, Stage, Passwords, Secrets, CredentialConstants
<1>6. KeysInv
  BY <1>1, <1>3, <1>4, <1>5 DEF KeysInv, KeysInit, NoCred
<1>7. PasswordInv /\ KeyInv
  BY <1>1, <1>2 DEF KeysInit, PasswordInv, PasswordsKnown, KeyInv, KeysHeld
<1>8. StateIsSpentOnce
  BY <1>1, <1>2 DEF StateIsSpentOnce, CredentialConstants, EveryAsk
<1> QED
  BY <1>6, <1>7, <1>8 DEF Inv

LEMMA InvStep ==
    ASSUME CredentialConstants, Inv, [KeysNext]_keyVars
    PROVE  Inv'
<1>1. CASE UNCHANGED keyVars
  BY <1>1 DEF keyVars, Inv, KeysInv, KeysTypeOK, Stage, Keeps, OwnSecrets, Exists, PasswordInv, PasswordsKnown,
              KeyInv, KeysHeld, Current, StateIsSpentOnce
<1>2. ASSUME NEW c \in Asks,
             \/ ResetFind(c) \/ ResetWrite(c) \/ ResetMail(c)
             \/ SetFind(c) \/ SetWrite(c) \/ SetSignOut(c) \/ LoginRead(c) \/ MintLogin(c)
      PROVE  Inv'
  BY <1>2, ResetSteps, ResetWrites, SetWrites, SetSignOuts, MintLogins
<1>3. ASSUME NEW c \in Asks,
             \/ KeyWrite(c) \/ CutMachines(c) \/ CreateInsert(c) \/ Rotate(c) \/ Update(c)
             \/ RevokeFind(c) \/ RevokeWrite(c) \/ ExchangeRead(c) \/ MintMachine(c)
      PROVE  Inv'
  BY <1>3, KeyWrites, CutsMachines, Creates, RotatesUpdates, Revokes, Exchanges, MintMachines
<1>4. ASSUME NEW c \in Asks,
             \/ Initiate(c) \/ CallbackConsume(c) \/ CallbackExchange(c) \/ CallbackPersist(c)
             \/ Disconnect(c)
      PROVE  Inv'
  BY <1>4, Initiates, Consumes, Connects, Disconnects
<1>5. CASE TokenExpires \/ StateExpires \/ Restart
  BY <1>5, Expires, Restarts
<1> QED
  BY <1>1, <1>2, <1>3, <1>4, <1>5 DEF KeysNext

\* Rotation, revocation and a new password end what they should, a connect
\* state lets one callback through, and everything is of its type.
LEMMA InvAlways ==
    ASSUME CredentialConstants
    PROVE  KeysSpec => []Inv
<1>1. KeysInit => Inv
  BY InvInit
<1>2. Inv /\ [KeysNext]_keyVars => Inv'
  BY InvStep
<1> QED
  BY <1>1, <1>2, PTL DEF KeysSpec

\* Every secret, session, connect state and request has its type, an active
\* credential a key.
THEOREM CredentialTypes ==
    ASSUME CredentialConstants
    PROVE  KeysSpec => []KeysTypeOK
<1>1. Inv => KeysTypeOK
  BY DEF Inv, KeysInv
<1> QED
  BY <1>1, InvAlways, PTL

\* A session of a customer or of a machine proves the password, the key and the
\* terms of the day, or comes from a request the change overtook; and a connect
\* state lets one callback through (tenant_auth.go:478, tenant_apikey.go:173,
\* stripe_connect.go:84).
THEOREM SecretsAreOfTheDay ==
    ASSUME CredentialConstants
    PROVE  KeysSpec => []SecretsHold
<1>1. Inv => SecretsHold
  <2>1. Inv => LoginsKnowThePassword
    BY DEF Inv, PasswordInv, PasswordsKnown, LoginsKnowThePassword, Changing
  <2>2. Inv => MachinesHoldTheKey
    BY DEF Inv, KeyInv, KeysHeld, Current, MachinesHoldTheKey, Changing
  <2> QED
    BY <2>1, <2>2 DEF Inv, SecretsHold
<1> QED
  BY <1>1, InvAlways, PTL

\* No step brings a revoked credential back: a rotation and an update want it
\* active, a second revocation writes what is there, and a name that was used
\* is not given out again (machine_credentials.go).
THEOREM RevocationIsFinal ==
    ASSUME CredentialConstants
    PROVE  KeysSpec => RevokedStaysRevoked
<1> DEFINE Stays == \A i \in Asks : cred[i].status = "revoked" => cred'[i] = cred[i]
<1>1. Inv /\ [KeysNext]_keyVars => [Stays]_keyVars
  <2> SUFFICES ASSUME Inv, KeysNext, NEW i \in Asks, cred[i].status = "revoked"
               PROVE  cred'[i] = cred[i]
    OBVIOUS
  <2>1. SecretsOK
    BY DataOf DEF Inv
  <2>2. /\ cred[i] \in Credential /\ cred[i].key = Absent /\ Exists(i)
        /\ cred \in [Asks -> Credential \cup {NoCred}]
    BY <2>1 DEF SecretsOK, Exists, NoCred
  <2>3. CASE UNCHANGED cred
    BY <2>3
  <2>4. ASSUME NEW c \in Asks, CreateInsert(c) PROVE cred'[i] = cred[i]
    <3>1. ~Exists(c)
      BY <2>4, BeginsPlace DEF Inv, KeysInv, OwnSecrets, CreateInsert, CredentialConstants, EveryAsk
    <3>2. i # c
      BY <2>2, <3>1
    <3> QED
      BY <2>2, <2>4, <3>2 DEF CreateInsert
  <2>5. ASSUME NEW c \in Asks, Rotate(c) \/ Update(c) PROVE cred'[i] = cred[i]
    <3>1. PICK j \in Asks : cred[j].status = "active" /\ \E new : cred' = [cred EXCEPT ![j] = new]
      BY <2>5 DEF Rotate, Update, Change
    <3> QED
      BY <2>2, <3>1
  <2>6. ASSUME NEW c \in Asks, RevokeWrite(c) PROVE cred'[i] = cred[i]
    <3>1. \/ UNCHANGED cred
          \/ cred' = [cred EXCEPT ![ask[c].of].status = "revoked", ![ask[c].of].key = Absent]
      BY <2>6 DEF RevokeWrite
    <3>2. [cred[i] EXCEPT !.status = "revoked", !.key = Absent] = cred[i]
      BY <2>2 DEF Credential
    <3> QED
      BY ZenonT(60), <2>2, <3>1, <3>2
  <2> QED
    BY <2>3, <2>4, <2>5, <2>6 DEF KeysNext, ResetFind, ResetWrite, ResetMail, SetFind, SetWrite,
       SetSignOut, LoginRead, MintLogin, KeyWrite, CutMachines, RevokeFind, ExchangeRead, MintMachine,
       Initiate, CallbackConsume, CallbackExchange, CallbackPersist, Disconnect, TokenExpires,
       StateExpires, Restart, robots
<1> QED
  BY <1>1, InvAlways, PTL DEF KeysSpec, RevokedStaysRevoked

--------------------------------------------------------------------------------
(* Side by side *)

\* What the two share is time: a step of the one is none of the other.
LEMMA DomainsGoOn == AccessSpec => Spec
<1>1. AccessInit => Init
  BY DEF AccessInit
<1>2. [AccessNext]_accessVars => [Next]_vars
  BY DEF AccessNext, accessVars
<1> QED
  BY <1>1, <1>2, PTL DEF AccessSpec, Spec

LEMMA KeysGoOn == AccessSpec => KeysSpec
<1>1. AccessInit => KeysInit
  BY DEF AccessInit
<1>2. [AccessNext]_accessVars => [KeysNext]_keyVars
  BY DEF AccessNext, accessVars
<1> QED
  BY <1>1, <1>2, PTL DEF AccessSpec, KeysSpec

\* Domains, claims, secrets, sessions and what requests hold on to are of their
\* types, in whichever of the two the requests of a behaviour are.
THEOREM AccessTypes ==
    ASSUME CredentialConstants
    PROVE  AccessSpec => []AccessTypeOK
<1>1. TypeOK /\ KeysTypeOK => AccessTypeOK
  BY DEF AccessTypeOK
<1> QED
  BY <1>1, DomainsGoOn, KeysGoOn, DomainTypes, CredentialTypes, PTL

\* No request under way takes back what a tenant decided: its from-domain stays
\* until it names another (tenant_auth.go:582), and a credential that was
\* revoked stays revoked (machine_credentials.go).
THEOREM Decided ==
    ASSUME CredentialConstants
    PROVE  AccessSpec => DecisionsStand
<1> QED
  BY DomainsGoOn, KeysGoOn, FromDomainIsKept, RevocationIsFinal DEF DecisionsStand
================================================================================
