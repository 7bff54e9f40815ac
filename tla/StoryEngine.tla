------------------------------ MODULE StoryEngine ------------------------------
(* The story engine of core-service (routes/story_engine.go) and the click    *)
(* trigger that shares its advance path (routes/tracking.go): start commands, *)
(* replicas of the durable sweep, click goroutines and the e2e tick hook, all *)
(* interleaved over the story_sessions collection.                            *)
(*                                                                            *)
(* One action is the code between two accesses to shared state that another   *)
(* actor can interleave with.  A start command is identified with the session *)
(* it may insert.  A story document is its sequence of enactments.            *)
EXTENDS Integers, Sequences, FiniteSets

CONSTANTS
    Commands,    \* deliveries of the start command, replays included
    None,
    KeyOf,       \* command_key of a delivery; None for legacy callers
    Users,
    UserOf,      \* user a delivery is for
    Names,
    StoryNameOf, \* story name a delivery asks for
    Stories,     \* story documents
    NameOf,
    Acts,        \* enactments of the first storyline, per document
    Sweepers,    \* concurrent runners of the sweep job
    Clicks,      \* click redirects; each fires one goroutine
    ClickUser,
    Hooks,       \* calls of the e2e tick endpoint
    Rewind,      \* seconds such a call rewinds
    MaxActs,     \* bound on the enactments of a document
    MaxCrashes   \* bound on process crashes

\* Every action name but "next_scene" (mark_complete, advance_to_next_storyline,
\* unknown names) completes the session, so two values tell them apart.
ActionNames == {"next_scene", "mark_complete"}

Enactments == [content : BOOLEAN, wait : Nat, next : ActionNames,
               onClick : ActionNames \cup {None}]

Positions == 0 .. MaxActs - 1
Advancers == Sweepers \cup Clicks \cup Hooks

ASSUME ConstantsOK ==
    /\ None \notin ActionNames
    /\ UserOf \in [Commands -> Users]
    /\ StoryNameOf \in [Commands -> Names]
    /\ NameOf \in [Stories -> Names]
    /\ ClickUser \in [Clicks -> Users]
    /\ MaxActs \in Nat \ {0}
    /\ Acts \in [Stories -> Seq(Enactments)]
    /\ \A s \in Stories : Len(Acts[s]) <= MaxActs
    /\ Rewind \in Nat \ {0}
    /\ MaxCrashes \in Nat
    /\ None \notin Stories
    /\ Sweepers \cap Clicks = {}
    /\ Sweepers \cap Hooks = {}
    /\ Clicks \cap Hooks = {}

VARIABLES
    session,      \* story_sessions, one row per delivery that inserted one; the
                  \* row is not there while its status is "none" or "purged"
    stories,      \* story documents present
    unsubscribed, \* users with UnsubscribedAt set, whom the send authority refuses
    now,          \* wall clock, in seconds
    starter,      \* where each start command is
    draft,        \* the document a start command picked
    pc,           \* where each advancing actor is
    batch,        \* the snapshots an actor still has to handle
    cur,          \* the snapshot it is advancing, None between snapshots
    mailed,       \* mailed[d][i]: mails sent for step i of session d
    crashes

vars == <<session, stories, unsubscribed, now, starter, draft, pc, batch, cur,
          mailed, crashes>>
startVars == <<starter, draft>>
actorVars == <<pc, batch, cur>>
envVars == <<stories, unsubscribed, now>>

Statuses == {"none", "active", "completed", "superseded", "purged"}
Rows == [status : Statuses,
         story : Stories \cup {None}, idx : Positions, sentAt : Int,
         wait : Nat, next : ActionNames]
Snapshots == [sid : Commands, row : Rows]
NoRow == [status |-> "none", story |-> None, idx |-> 0, sentAt |-> 0,
          wait |-> 0, next |-> "mark_complete"]

\* The types, and that no row is stamped in the future.
TypeOK ==
    /\ session \in [Commands -> Rows]
    /\ \A d \in Commands : session[d].sentAt <= now
    /\ stories \in SUBSET Stories
    /\ unsubscribed \in SUBSET Users
    /\ now \in Nat
    /\ starter \in [Commands -> {"new", "insert", "supersede", "mail", "done"}]
    /\ draft \in [Commands -> Stories \cup {None}]
    /\ pc \in [Advancers -> {"idle", "rewind", "sweep", "claim", "authorize",
                             "mail", "done"}]
    /\ batch \in [Advancers -> SUBSET Snapshots]
    /\ cur \in [Advancers -> Snapshots \cup {None}]
    /\ mailed \in [Commands -> [Positions -> Nat]]
    /\ crashes \in 0 .. MaxCrashes

Init ==
    /\ session = [d \in Commands |-> NoRow]
    /\ stories = Stories
    /\ unsubscribed = {}
    /\ now = 0
    /\ starter = [d \in Commands |-> "new"]
    /\ draft = [d \in Commands |-> None]
    /\ pc = [a \in Advancers |-> "idle"]
    /\ batch = [a \in Advancers |-> {}]
    /\ cur = [a \in Advancers |-> None]
    /\ mailed = [d \in Commands |-> [i \in Positions |-> 0]]
    /\ crashes = 0

--------------------------------------------------------------------------------
(* Helpers *)

\* The enactment at a 0-based index exists and its scene has content.
Mailable(s, i) == i < Len(Acts[s]) /\ Acts[s][i + 1].content

Active(d) == session[d].status = "active"
Exists(d) == session[d].status \notin {"none", "purged"}
Snapshot(d) == [sid |-> d, row |-> session[d]]
OverdueFromZero(row) == now >= row.wait
Overdue(row) == now >= row.sentAt + row.wait

\* A row at step i of document s, stamped with the clock.
AtStepStampingDeadline(status, s, i) ==
    LET act == Acts[s][i + 1] IN
    [status |-> status, story |-> s, idx |-> i, sentAt |-> now + act.wait,
     wait |-> act.wait, next |-> act.next]

AtStep(status, s, i) ==
    LET act == Acts[s][i + 1] IN
    [status |-> status, story |-> s, idx |-> i, sentAt |-> now,
     wait |-> act.wait, next |-> act.next]

\* The provider took the mail, or the send failed and was only logged.
MailOutcome(d, i) ==
    \/ mailed' = [mailed EXCEPT ![d][i] = @ + 1]
    \/ mailed' = mailed

--------------------------------------------------------------------------------
(* StartStoryForUserCmd *)

\* Look the story up by name, refuse one that cannot be mailed, consult the send
\* authority.  The authority may refuse a subscribed user too (quota, bounces).
StartAuthorize(d) ==
    /\ starter[d] = "new"
    /\ \/ starter' = [starter EXCEPT ![d] = "done"] /\ UNCHANGED draft
       \/ \E s \in {t \in stories : NameOf[t] = StoryNameOf[d]} :
            /\ Mailable(s, 0)
            /\ UserOf[d] \notin unsubscribed
            /\ starter' = [starter EXCEPT ![d] = "insert"]
            /\ draft' = [draft EXCEPT ![d] = s]
    /\ UNCHANGED <<session, envVars, actorVars, mailed, crashes>>

\* The sparse unique index on command_key.
KeyTakenByActive(k) == k # None /\ \E e \in Commands : Active(e) /\ KeyOf[e] = k
KeyTaken(k) == k # None /\ \E e \in Commands : Exists(e) /\ KeyOf[e] = k

StartInsert(d) ==
    /\ starter[d] = "insert"
    /\ IF KeyTaken(KeyOf[d])
       THEN /\ starter' = [starter EXCEPT ![d] = "done"]
            /\ UNCHANGED session
       ELSE /\ starter' = [starter EXCEPT ![d] = "supersede"]
            /\ session' = [session EXCEPT ![d] = AtStep("active", draft[d], 0)]
    /\ UNCHANGED <<draft, envVars, actorVars, mailed, crashes>>

OtherRuns(d) ==
    {e \in Commands \ {d} : /\ Active(e)
                            /\ UserOf[e] = UserOf[d]
                            /\ StoryNameOf[e] = StoryNameOf[d]}

StartSupersede(d) ==
    /\ starter[d] = "supersede"
    /\ starter' = [starter EXCEPT ![d] = "mail"]
    /\ session' = [e \in Commands |->
                     IF e \in OtherRuns(d)
                     THEN [session[e] EXCEPT !.status = "superseded"]
                     ELSE session[e]]
    /\ UNCHANGED <<draft, envVars, actorVars, mailed, crashes>>

StartMail(d) ==
    /\ starter[d] = "mail"
    /\ starter' = [starter EXCEPT ![d] = "done"]
    /\ MailOutcome(d, 0)
    /\ UNCHANGED <<session, draft, envVars, actorVars, crashes>>

--------------------------------------------------------------------------------
(* The sweep, the tick hook and the click trigger, up to a batch of snapshots *)

\* An actor that has handled its batch: a sweep runner takes the next job, a
\* goroutine and a request end.
RestingForGood(a) == "done"
Resting(a) == IF a \in Sweepers THEN "idle" ELSE "done"
HandledRest(a, rest) == IF rest = {} THEN Resting(a) ELSE "sweep"

Expired == {Snapshot(d) : d \in {e \in Commands : Active(e) /\ Overdue(session[e])}}

\* One read of the active sessions and one reading of the clock; the batch is
\* worked off later against a collection that moves on.
ReadExpired(a) ==
    /\ batch' = [batch EXCEPT ![a] = Expired]
    /\ pc' = [pc EXCEPT ![a] = HandledRest(a, Expired)]
    /\ UNCHANGED <<session, envVars, startVars, cur, mailed, crashes>>

SweepRead(a) ==
    /\ a \in Sweepers
    /\ pc[a] = "idle"
    /\ Expired # {}
    /\ ReadExpired(a)

\* HandleTestTickStories: read the active sessions (of one user or of all), write
\* sent_at back from that read, then run a scheduler pass.
HookRead(a) ==
    /\ a \in Hooks
    /\ pc[a] = "idle"
    /\ \E us \in {Users} \cup {{u} : u \in Users} :
         batch' = [batch EXCEPT ![a] =
                     {Snapshot(d) : d \in {e \in Commands : Active(e) /\ UserOf[e] \in us}}]
    /\ pc' = [pc EXCEPT ![a] = "rewind"]
    /\ UNCHANGED <<session, envVars, startVars, cur, mailed, crashes>>

HookRewind(a) ==
    /\ pc[a] = "rewind"
    /\ \E s \in batch[a] :
         /\ session' = IF Exists(s.sid)
                       THEN [session EXCEPT ![s.sid].sentAt = s.row.sentAt - Rewind]
                       ELSE session
         /\ batch' = [batch EXCEPT ![a] = @ \ {s}]
    /\ UNCHANGED <<envVars, startVars, pc, cur, mailed, crashes>>

HookSweep(a) ==
    /\ pc[a] = "rewind"
    /\ batch[a] = {}
    /\ ReadExpired(a)

\* fireClickTrigger: any one active session of the user, whatever story or mail
\* the link was in; the trigger's action overrides the snapshot's next_action.
ClickFind(a) ==
    /\ a \in Clicks
    /\ pc[a] = "idle"
    /\ \E d \in Commands :
         LET row == session[d] IN
         /\ Active(d)
         /\ UserOf[d] = ClickUser[a]
         /\ row.story \in stories
         /\ row.idx < Len(Acts[row.story])
         /\ LET action == Acts[row.story][row.idx + 1].onClick IN
            /\ action # None
            /\ batch' = [batch EXCEPT ![a] =
                           {[sid |-> d, row |-> [row EXCEPT !.next = action]]}]
    /\ pc' = [pc EXCEPT ![a] = "sweep"]
    /\ UNCHANGED <<session, envVars, startVars, cur, mailed, crashes>>

--------------------------------------------------------------------------------
(* advanceSession, on one snapshot *)

\* The snapshot leads to the end of the run: its action says so, there is no next
\* enactment with content, or the user row says unsubscribed.
Ends(s) ==
    \/ s.row.next # "next_scene"
    \/ /\ s.row.story \in stories
       /\ \/ ~Mailable(s.row.story, s.row.idx + 1)
          \/ UserOf[s.sid] \in unsubscribed

\* markSessionComplete updates by public_id alone: whatever the session became
\* since the snapshot, it is completed now.
CompleteRunUpserting(a, s) ==
    /\ Ends(s)
    /\ session' = [session EXCEPT ![s.sid].status = "completed"]
    /\ batch' = [batch EXCEPT ![a] = @ \ {s}]
    /\ pc' = [pc EXCEPT ![a] = HandledRest(a, batch[a] \ {s})]
    /\ UNCHANGED <<envVars, startVars, cur, mailed, crashes>>

CompleteRun(a, s) ==
    /\ Ends(s)
    /\ session' = IF Exists(s.sid)
                  THEN [session EXCEPT ![s.sid].status = "completed"]
                  ELSE session
    /\ batch' = [batch EXCEPT ![a] = @ \ {s}]
    /\ pc' = [pc EXCEPT ![a] = HandledRest(a, batch[a] \ {s})]
    /\ UNCHANGED <<envVars, startVars, cur, mailed, crashes>>

\* The story document is gone: the session is left as it is.
SkipRun(a, s) ==
    /\ ~Ends(s)
    /\ s.row.story \notin stories
    /\ batch' = [batch EXCEPT ![a] = @ \ {s}]
    /\ pc' = [pc EXCEPT ![a] = HandledRest(a, batch[a] \ {s})]
    /\ UNCHANGED <<session, envVars, startVars, cur, mailed, crashes>>

PrepareStep(a, s) ==
    /\ ~Ends(s)
    /\ s.row.story \in stories
    /\ batch' = [batch EXCEPT ![a] = @ \ {s}]
    /\ cur' = [cur EXCEPT ![a] = s]
    /\ pc' = [pc EXCEPT ![a] = "claim"]
    /\ UNCHANGED <<session, envVars, startVars, mailed, crashes>>

HandleSnapshot(a) ==
    /\ pc[a] = "sweep"
    /\ \E s \in batch[a] : CompleteRun(a, s) \/ SkipRun(a, s) \/ PrepareStep(a, s)

\* The predicate of the compare-and-set.
PinnedByStatus(s) == session[s.sid].status = "active"
PinnedByPosition(s) ==
    /\ session[s.sid].idx = s.row.idx
    /\ session[s.sid].sentAt = s.row.sentAt
Pinned(s) ==
    /\ session[s.sid].status = "active"
    /\ session[s.sid].idx = s.row.idx
    /\ session[s.sid].sentAt = s.row.sentAt

\* The actor is through with its snapshot.
Release(a) ==
    /\ cur' = [cur EXCEPT ![a] = None]
    /\ pc' = [pc EXCEPT ![a] = HandledRest(a, batch[a])]

ClaimStep(a) ==
    /\ pc[a] = "claim"
    /\ LET s == cur[a] IN
       IF Pinned(s)
       THEN /\ session' = [session EXCEPT ![s.sid] =
                             AtStep(@.status, s.row.story, s.row.idx + 1)]
            /\ pc' = [pc EXCEPT ![a] = "authorize"]
            /\ UNCHANGED cur
       ELSE Release(a) /\ UNCHANGED session
    /\ UNCHANGED <<envVars, startVars, batch, mailed, crashes>>

AuthorizeAlways(a) ==
    /\ pc[a] = "authorize"
    /\ pc' = [pc EXCEPT ![a] = "mail"]
    /\ UNCHANGED <<session, envVars, startVars, batch, cur, mailed, crashes>>

\* A refused step is skipped for good: the session stays on it.
AuthorizeStep(a) ==
    /\ pc[a] = "authorize"
    /\ \/ /\ UserOf[cur[a].sid] \notin unsubscribed
          /\ pc' = [pc EXCEPT ![a] = "mail"]
          /\ UNCHANGED cur
       \/ Release(a)
    /\ UNCHANGED <<session, envVars, startVars, batch, mailed, crashes>>

MailStep(a) ==
    /\ pc[a] = "mail"
    /\ MailOutcome(cur[a].sid, cur[a].row.idx + 1)
    /\ Release(a)
    /\ UNCHANGED <<session, envVars, startVars, batch, crashes>>

--------------------------------------------------------------------------------
(* Crashes and the environment *)

\* A replica dies with what its actors hold in memory.
CrashStart(d) ==
    /\ crashes < MaxCrashes
    /\ starter[d] \in {"insert", "supersede", "mail"}
    /\ starter' = [starter EXCEPT ![d] = "done"]
    /\ crashes' = crashes + 1
    /\ UNCHANGED <<session, envVars, draft, actorVars, mailed>>

CrashAdvancer(a) ==
    /\ crashes < MaxCrashes
    /\ pc[a] \notin {"idle", "done"}
    /\ pc' = [pc EXCEPT ![a] = Resting(a)]
    /\ batch' = [batch EXCEPT ![a] = {}]
    /\ cur' = [cur EXCEPT ![a] = None]
    /\ crashes' = crashes + 1
    /\ UNCHANGED <<session, envVars, startVars, mailed>>

\* Time passes while some active session still waits for its deadline; beyond
\* that no condition depends on it.
Tick ==
    /\ \E d \in Commands : Active(d) /\ ~Overdue(session[d])
    /\ now' = now + 1
    /\ UNCHANGED <<session, stories, unsubscribed, startVars, actorVars, mailed, crashes>>

\* The unsubscribe endpoint belongs to another service.
Unsubscribe(u) ==
    /\ u \notin unsubscribed
    /\ unsubscribed' = unsubscribed \cup {u}
    /\ UNCHANGED <<session, stories, now, startVars, actorVars, mailed, crashes>>

\* handlePurgeStory removes the session rows of a story, whatever their state.
Purge(s) ==
    /\ \E d \in Commands : Exists(d) /\ session[d].story = s
    /\ session' = [d \in Commands |->
                     IF Exists(d) /\ session[d].story = s
                     THEN [session[d] EXCEPT !.status = "purged"]
                     ELSE session[d]]
    /\ UNCHANGED <<envVars, startVars, actorVars, mailed, crashes>>

\* The tenant's data reset removes every story document and keeps the sessions.
ResetTenant ==
    /\ stories # {}
    /\ stories' = {}
    /\ UNCHANGED <<session, unsubscribed, now, startVars, actorVars, mailed, crashes>>

StartNext(d) == StartAuthorize(d) \/ StartInsert(d) \/ StartSupersede(d) \/ StartMail(d)
AdvanceNext(a) == HandleSnapshot(a) \/ ClaimStep(a) \/ AuthorizeStep(a) \/ MailStep(a)

Next ==
    \/ \E d \in Commands : StartNext(d) \/ CrashStart(d)
    \/ \E a \in Advancers :
         \/ SweepRead(a) \/ ClickFind(a) \/ HookRead(a) \/ HookRewind(a) \/ HookSweep(a)
         \/ AdvanceNext(a) \/ CrashAdvancer(a)
    \/ Tick
    \/ \E u \in Users : Unsubscribe(u)
    \/ \E s \in Stories : Purge(s)
    \/ ResetTenant

Spec == Init /\ [][Next]_vars

\* The sweep job is durable and re-armed before each pass, so a runner takes the
\* next pass and works its batch off; a start command is run to its end.
Fairness ==
    /\ \A a \in Sweepers : WF_vars(SweepRead(a) \/ AdvanceNext(a))
    /\ \A d \in Commands : WF_vars(StartNext(d))
    /\ WF_vars(Tick)

FairSpec == Spec /\ Fairness

--------------------------------------------------------------------------------
(* Properties *)

\* However sweeps, clicks and the tick hook race over the same snapshot, and
\* whatever crashes in between, a step of a session is mailed at most once: the
\* compare-and-set of advanceSession lets one actor through per step.
AtMostOneEmailPerStep ==
    \A d \in Commands, i \in Positions : mailed[d][i] <= 1

\* A replayed start command never mails the first step again, even when the
\* first delivery crashed half-way or its run is over by then; only purging the
\* earlier session lets the contact re-enter (StartStoryForUserCmd).
FirstStepOncePerCommand ==
    \A d, e \in Commands :
        (d # e /\ KeyOf[d] # None /\ KeyOf[d] = KeyOf[e]
            /\ mailed[d][0] > 0 /\ mailed[e][0] > 0)
        => "purged" \in {session[d].status, session[e].status}

StaysPut(d) ==
    session[d].status \in {"completed", "superseded", "purged"}
    => session'[d].status # "active" /\ session'[d].idx = session[d].idx

\* A session that is completed, superseded or purged is never active again and
\* never moves on, whatever stale snapshots of it are still being worked off.
FinishedRunsStayPut == [][\A d \in Commands : StaysPut(d)]_vars

ClaimsInTime(a) ==
    (pc[a] = "claim" /\ pc'[a] = "authorize")
    => LET row == session[cur[a].sid] IN now >= row.sentAt + row.wait

\* A sweep or hook pass that claims a step does so no earlier than the wait of
\* the step the session is at by then, although it read the clock and the row
\* before (advanceExpiredSessions against the claim in advanceSession).
SweepHonoursWait == [][\A a \in Sweepers \cup Hooks : ClaimsInTime(a)]_vars

\* Nobody is past the send authority with a mail to a user in hand.
Quiet(u) ==
    /\ u \in unsubscribed
    /\ \A d \in Commands :
         UserOf[d] = u => starter[d] \notin {"insert", "supersede", "mail"}
    /\ \A a \in Advancers : pc[a] = "mail" => UserOf[cur[a].sid] # u

StaysQuiet(u) ==
    Quiet(u) => /\ Quiet(u)'
                /\ \A d \in Commands : UserOf[d] = u => mailed'[d] = mailed[d]

\* Each start and each advance consults the send authority: once the mails that
\* had passed it when a user unsubscribed are out, no later step is ever mailed.
UnsubscribedUsersFallSilent == [][\A u \in Users : StaysQuiet(u)]_vars

\* The engine implements the enrollment promise: the rights to mail a step are
\* held by the start command and the advancers that are past their claim.
Holders ==
    {<<d, 0>> : d \in {e \in Commands : starter[e] \in {"supersede", "mail"}}} \cup
    {<<cur[a].sid, cur[a].row.idx + 1>> :
        a \in {b \in Advancers : pc[b] \in {"authorize", "mail"}}}

Enrollment == INSTANCE StoryEnrollment WITH
    run <- [d \in Commands |-> session[d].status],
    pos <- [d \in Commands |-> session[d].idx],
    owed <- Holders,
    mailed <- {r \in Commands \X Positions : mailed[r[1]][r[2]] > 0}

ImplementsEnrollment == Enrollment!Spec

\* A run whose story document exists does not stay active for ever: the sweep
\* takes it through its steps to the end, lost claims and refusals included.
ActiveRunsFinish ==
    \A d \in Commands :
        Active(d) ~> (~Active(d) \/ session[d].story \notin stories)

--------------------------------------------------------------------------------
(* Statements of the source that the code does not keep *)

\* "Don't abort - create session anyway so scheduler can retry": a first step
\* whose send failed, for a user who stays subscribed, would be mailed later.
FailedFirstSendIsRetried ==
    \A d \in Commands :
        (Active(d) /\ starter[d] = "done" /\ mailed[d][0] = 0)
        ~> \/ mailed[d][0] > 0
           \/ UserOf[d] \in unsubscribed
           \/ session[d].status \in {"superseded", "purged"}
           \/ session[d].story \notin stories

\* "only the claim winner supersedes prior sessions": the runs of a user in a
\* story are never all superseded, as the latest has no later one to do so.
ARunSurvives ==
    \A d \in Commands :
        session[d].status = "superseded" =>
            \E e \in Commands : /\ UserOf[e] = UserOf[d]
                               /\ StoryNameOf[e] = StoryNameOf[d]
                               /\ session[e].status \notin {"none", "superseded"}

\* "The click trigger's own action must win for this advance": a run is not
\* completed on a snapshot of a step that it has left since.
ClickActionWins ==
    [][\A a \in Advancers : \A s \in batch[a] :
         (/\ s \notin batch'[a]
          /\ Active(s.sid)
          /\ session'[s.sid].status = "completed")
         => s.row.idx = session[s.sid].idx]_vars

\* "permanently removes ALL data for the authenticated tenant": a reset leaves no
\* enrollment behind.
ResetWipesRuns ==
    [][stories # {} /\ stories' = {} => \A d \in Commands : ~Exists(d)']_vars

================================================================================
