-------------------------------- MODULE Hydrator --------------------------------
(* The content hydrator (hydrator/hydrator.go): a durable sweep that takes    *)
(* the pending items of eight kinds, has their content generated, some of it  *)
(* rendered to a file and uploaded, and records how it went.                  *)
(*                                                                            *)
(* Gemini, the PDF service and the object store answer or fail at will; they  *)
(* and the editors that ask for content are external.  The context pages a    *)
(* prompt quotes and the wording of prompts and pages are left out.           *)
EXTENDS Integers, Sequences, FiniteSets
LOCAL INSTANCE Functions

CONSTANTS
    Items,
    Sweeps,     \* runs of the sweep job that may be under way
    Hook,       \* the actor of the end-to-end hook, RunCertsNow
    Batch,      \* the limit of a query for pending items (5 or 10 in the code)
    None,
    MaxAsks,    \* bound on requests for content
    MaxFaults   \* bound on failed writes to Mongo and crashes

ASSUME HydratorConstants ==
    /\ Hook \notin Sweeps
    /\ None \notin Items
    /\ Batch \in Nat \ {0}
    /\ MaxAsks \in Nat
    /\ MaxFaults \in Nat

Actors == Sweeps \cup {Hook}

--------------------------------------------------------------------------------
(* What the processors do with an item of theirs, stage by stage, and what    *)
(* they do without an API key: fail the item, leave the whole kind for later, *)
(* or fall back on a template, as they also do when Gemini fails.             *)

Blocks == [keyless |-> "fail", path |-> <<"generate">>]
PDFs == [keyless |-> "fail", path |-> <<"generate">>]
Assets == [keyless |-> "fail", path |-> <<"generate", "store">>]
MediaTranscripts == [keyless |-> "fail", path |-> <<"generate">>]
ChannelDescriptions == [keyless |-> "later", path |-> <<"generate">>]
LessonContent == [keyless |-> "later", path |-> <<"generate">>]
CourseDescriptions == [keyless |-> "later", path |-> <<"generate">>]
Certificates == [keyless |-> "template", path |-> <<"generate", "store">>]

\* The order of a pass.
Pass == <<"block", "pdf", "asset", "media", "channel", "lesson", "course", "certificate">>
Kinds == {Pass[k] : k \in DOMAIN Pass}
Processor == [k \in Kinds |->
    CASE k = "block" -> Blocks [] k = "pdf" -> PDFs [] k = "asset" -> Assets
      [] k = "media" -> MediaTranscripts [] k = "channel" -> ChannelDescriptions
      [] k = "lesson" -> LessonContent [] k = "course" -> CourseDescriptions
      [] k = "certificate" -> Certificates]
Last == Len(Pass)

VARIABLES
    env,      \* API key configured, object store configured, passes shorter
              \* than the sweep's interval
    kind,     \* of each item
    status,   \* of each item's content; media call "completed" "ready"
    asked,    \* the number of the last request for the item's content
    content,  \* the request the content answers; 0 for none
    runs,     \* generations started for the last request
    stored,   \* items whose file is in the object store
    armed,    \* the next sweep is enqueued
    at,       \* where each actor is
    faults

vars == <<env, kind, status, asked, content, runs, stored, armed, at, faults>>

Resting == [pc |-> "rest", step |-> 0, batch |-> {}, item |-> None, asked |-> 0]
Places == {"rest", "list", "take", "generate", "store", "write", "fail"}

TypeOK ==
    /\ env \in [key : BOOLEAN, store : BOOLEAN, prompt : BOOLEAN]
    /\ kind \in [Items -> Kinds]
    /\ status \in [Items -> {"none", "pending", "processing", "completed", "failed"}]
    /\ asked \in [Items -> Nat]
    /\ runs \in [Items -> Nat]
    /\ stored \subseteq {i \in Items : "store" \in {Processor[kind[i]].path[n] :
                                                     n \in DOMAIN Processor[kind[i]].path}}
    /\ armed \in BOOLEAN
    /\ \A i \in Items : content[i] \in 0 .. asked[i]
    /\ \A a \in Actors :
         /\ at[a].pc \in Places
         /\ at[a].batch \subseteq [item : Items, asked : Nat]
         /\ at[a].pc # "rest" => at[a].step \in DOMAIN Pass
         /\ at[a].pc \notin {"rest", "list", "take"} => kind[at[a].item] = Pass[at[a].step]
         /\ a = Hook /\ at[a].pc # "rest" => at[a].step = Last
    /\ faults \in 0 .. MaxFaults

Init ==
    /\ env \in [key : BOOLEAN, store : BOOLEAN, prompt : BOOLEAN]
    /\ kind \in [Items -> Kinds]
    /\ status = [i \in Items |-> "none"]
    /\ asked = [i \in Items |-> 0]
    /\ content = [i \in Items |-> 0]
    /\ runs = [i \in Items |-> 0]
    /\ stored = {}
    /\ armed = TRUE
    /\ at = [a \in Actors |-> Resting]
    /\ faults = 0

--------------------------------------------------------------------------------
(* Helpers *)

Running(a) == at[a].pc # "rest"
Goto(a, pc) == at' = [at EXCEPT ![a].pc = pc]
Works == UNCHANGED faults
Fails == faults < MaxFaults /\ faults' = faults + 1
Mine(a) == at[a].item
My(a) == Processor[Pass[at[a].step]]

\* The stage after this one; the last stage is followed by the final write.
After(a, stage) ==
    LET p == My(a).path
        n == CHOOSE m \in DOMAIN p : p[m] = stage
    IN IF n = Len(p) THEN "write" ELSE p[n + 1]

\* An item as a query returns it.
Read(i) == [item |-> i, asked |-> asked[i]]
Pending(k) == {Read(i) : i \in {j \in Items : kind[j] = k /\ status[j] = "pending"}}
Batches(S) == {B \in SUBSET S : Cardinality(B) = IF Cardinality(S) < Batch THEN Cardinality(S) ELSE Batch}

--------------------------------------------------------------------------------
(* Editors *)

\* Content that is not being worked on is asked for, or asked for anew.
Ask(i) ==
    /\ SumFunction(asked) < MaxAsks
    /\ status[i] \in {"none", "completed", "failed"}
    /\ asked' = [asked EXCEPT ![i] = @ + 1]
    /\ status' = [status EXCEPT ![i] = "pending"]
    /\ runs' = [runs EXCEPT ![i] = 0]
    /\ UNCHANGED <<env, kind, content, stored, armed, at, faults>>

--------------------------------------------------------------------------------
(* A pass *)

\* The steps from n on that have something to query: the query for a kind no
\* item is of changes nothing and is left out.
Steps(n) == {m \in n .. Last : \E i \in Items : kind[i] = Pass[m]}

ListFrom(n) ==
    IF Steps(n) = {} THEN Resting
    ELSE [Resting EXCEPT !.pc = "list", !.step = CHOOSE m \in Steps(n) : Steps(n) \subseteq m .. Last]

StartPassArmLast(a) ==
    /\ ~Running(a) /\ armed
    /\ armed' = FALSE
    /\ at' = [at EXCEPT ![a] = ListFrom(1)]
    /\ UNCHANGED <<env, kind, status, asked, content, runs, stored, faults>>

\* The job enqueues the next sweep first.  It is due after the interval, which
\* a pass with slow answers outlasts.
StartPass(a) ==
    /\ ~Running(a) /\ armed
    /\ env.prompt => \A s \in Sweeps : ~Running(s)
    /\ armed' = TRUE
    /\ at' = [at EXCEPT ![a] = ListFrom(1)]
    /\ UNCHANGED <<env, kind, status, asked, content, runs, stored, faults>>

RunAllNow ==
    /\ ~Running(Hook)
    /\ at' = [at EXCEPT ![Hook] = ListFrom(1)]
    /\ UNCHANGED <<env, kind, status, asked, content, runs, stored, armed, faults>>

RunCertsNow ==
    /\ ~Running(Hook)
    /\ at' = [at EXCEPT ![Hook] = ListFrom(Last)]
    /\ UNCHANGED <<env, kind, status, asked, content, runs, stored, armed, faults>>

NextKind(a) == at' = [at EXCEPT ![a] = ListFrom(at[a].step + 1)]

ListRetrying(a) ==
    LET S == {Read(i) : i \in {j \in Items : /\ kind[j] = Pass[at[a].step]
                                            /\ status[j] \in {"pending", "failed"}}} IN
    /\ at[a].pc = "list"
    /\ \/ S = {} /\ NextKind(a)
       \/ S # {} /\ at' = [at EXCEPT ![a].pc = "take", ![a].batch = S]
    /\ UNCHANGED <<env, kind, status, asked, content, runs, stored, armed, faults>>

\* The items of one kind are read; the kind may have to wait for an API key.
List(a) ==
    /\ at[a].pc = "list"
    /\ \E B \in Batches(Pending(Pass[at[a].step])) :
         IF B = {} \/ (My(a).keyless = "later" /\ ~env.key)
         THEN NextKind(a)
         ELSE at' = [at EXCEPT ![a].pc = "take", ![a].batch = B]
    /\ UNCHANGED <<env, kind, status, asked, content, runs, stored, armed, faults>>

\* "processing" is written whatever the status has become; with the last item
\* the kind is done.  What is generated follows the item as it was listed.
Take(a) ==
    /\ at[a].pc = "take"
    /\ \/ at[a].batch = {} /\ NextKind(a) /\ Works /\ UNCHANGED <<status, runs>>
       \/ \E j \in at[a].batch : LET i == j.item IN
            /\ at' = [at EXCEPT ![a].pc = "generate", ![a].item = i, ![a].asked = j.asked,
                                ![a].batch = @ \ {j}]
            /\ runs' = [runs EXCEPT ![i] = IF asked[i] = j.asked THEN @ + 1 ELSE @]
            /\ \/ status' = [status EXCEPT ![i] = "processing"] /\ Works
               \/ Fails /\ UNCHANGED status
    /\ UNCHANGED <<env, kind, asked, content, stored, armed>>

\* Gemini writes the text, or a template does; the PDF service turns that of an
\* asset or a certificate into a file.
Writable(a) == env.key \/ My(a).keyless = "template"

Generate(a) ==
    /\ at[a].pc = "generate"
    /\ \/ Writable(a) /\ Goto(a, After(a, "generate"))
       \/ Goto(a, "fail")
    /\ UNCHANGED <<env, kind, status, asked, content, runs, stored, armed, faults>>

Store(a) ==
    /\ at[a].pc = "store"
    /\ \/ /\ env.store
          /\ stored' = stored \cup {Mine(a)}
          /\ Goto(a, "write")
       \/ Goto(a, "fail") /\ UNCHANGED stored
    /\ UNCHANGED <<env, kind, status, asked, content, runs, armed, faults>>

WriteStatusOnly(a) ==
    /\ at[a].pc = "write"
    /\ \/ status' = [status EXCEPT ![Mine(a)] = "completed"] /\ Works
       \/ Fails /\ UNCHANGED status
    /\ Goto(a, "take")
    /\ UNCHANGED <<env, kind, asked, content, runs, stored, armed>>

\* Errors of the last write are ignored, as are those of "processing".
WriteCompleted(a) ==
    /\ at[a].pc = "write"
    /\ \/ /\ status' = [status EXCEPT ![Mine(a)] = "completed"]
          /\ content' = [content EXCEPT ![Mine(a)] = at[a].asked]
          /\ Works
       \/ Fails /\ UNCHANGED <<status, content>>
    /\ Goto(a, "take")
    /\ UNCHANGED <<env, kind, asked, runs, stored, armed>>

WriteFailedQuietly(a) ==
    /\ at[a].pc = "fail"
    /\ Goto(a, "take")
    /\ UNCHANGED <<env, kind, status, asked, content, runs, stored, armed, faults>>

\* A block's content gives way to a note on the failure.
WriteFailed(a) ==
    /\ at[a].pc = "fail"
    /\ \/ /\ status' = [status EXCEPT ![Mine(a)] = "failed"]
          /\ content' = IF kind[Mine(a)] = "block" THEN [content EXCEPT ![Mine(a)] = 0] ELSE content
          /\ Works
       \/ Fails /\ UNCHANGED <<status, content>>
    /\ Goto(a, "take")
    /\ UNCHANGED <<env, kind, asked, runs, stored, armed>>

\* The process dies, the enqueued sweep does not.
Crash(a) ==
    /\ Running(a)
    /\ Fails
    /\ at' = [at EXCEPT ![a] = Resting]
    /\ UNCHANGED <<env, kind, status, asked, content, runs, stored, armed>>

Proceed(a) ==
    \/ List(a) \/ Take(a) \/ Generate(a) \/ Store(a)
    \/ WriteCompleted(a) \/ WriteFailed(a)

Next ==
    \/ \E i \in Items : Ask(i)
    \/ \E a \in Sweeps : StartPass(a)
    \/ RunCertsNow
    \/ \E a \in Actors : Proceed(a) \/ Crash(a)

\* The sweep is durable and re-enqueued: one comes whenever none is under way.
\* Gemini, the PDF service and the store answer or time out.
Fairness ==
    /\ WF_vars(\E a \in Sweeps : StartPass(a))
    /\ \A a \in Actors : WF_vars(Proceed(a))

Spec == Init /\ [][Next]_vars /\ Fairness

--------------------------------------------------------------------------------
(* Properties *)

\* An asset or a certificate shown as completed has its file in the store.
FilesAreStored ==
    \A i \in Items : status[i] = "completed" /\ kind[i] \in {"asset", "certificate"} => i \in stored

\* While passes are shorter than the interval, a single hydrator (hydrator.go:56)
\* has the content of a request generated once.  The hook works on certificates
\* whenever it likes.
OneGenerationPerRequest ==
    env.prompt /\ faults = 0 =>
      \A i \in Items : kind[i] # "certificate" => runs[i] <= 1

\* It completes a request with what that request asked for, whatever was asked
\* before and whoever crashed.
AnswersLatestRequest ==
    env.prompt => \A i \in Items :
                    status[i] = "completed" /\ kind[i] # "certificate" => content[i] = asked[i]

\* What is shown as completed is there, and is the answer to the latest request.
CompletedIsTrue == FilesAreStored /\ AnswersLatestRequest

Workable(i) == env.key \/ Processor[kind[i]].keyless # "later"

\* "A crash mid-pass never stalls hydration" (hydrator.go:65): whatever crashes,
\* pending items are taken up, those of kinds that need the API key where there
\* is one.
PendingIsTaken ==
    \A i \in Items : (status[i] = "pending" /\ Workable(i)) ~> (status[i] # "pending")

\* Without faults none is abandoned half-way: where the status says processing,
\* somebody is at it.
NothingIsAbandoned ==
    faults = 0 =>
      \A i \in Items : status[i] = "processing" =>
        \E a \in Actors : at[a].pc \in {"generate", "store", "write", "fail"} /\ Mine(a) = i
================================================================================
