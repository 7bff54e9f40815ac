--------------------------- MODULE StoryEngineProofs ---------------------------
(* Proofs about StoryEngine for every value of its constants.                 *)
EXTENDS StoryEngine, TLAPS

--------------------------------------------------------------------------------
(* Types *)

\* A start command past the send authority holds a document it can mail.
DraftsReady ==
    \A d \in Commands : starter[d] = "insert" =>
        draft[d] \in Stories /\ Mailable(draft[d], 0)

\* An actor between preparing and mailing a step holds a snapshot whose next
\* enactment exists.
StepsReady ==
    \A a \in Advancers : pc[a] \in {"claim", "authorize", "mail"} =>
        /\ cur[a] \in Snapshots
        /\ cur[a].row.story \in Stories
        /\ Mailable(cur[a].row.story, cur[a].row.idx + 1)

SnapshotsPast ==
    \A a \in Advancers : \A s \in batch[a] : s.row.sentAt <= now

TypeInv == TypeOK /\ DraftsReady /\ StepsReady /\ SnapshotsPast

\* A mailable enactment has a position and its fields.
LEMMA MailableStep ==
    ASSUME NEW s \in Stories, NEW i \in Nat, Mailable(s, i)
    PROVE  /\ i \in Positions
           /\ Acts[s][i + 1] \in Enactments
  BY ConstantsOK DEF Mailable, Positions, ConstantsOK

\* Stamping a step with the clock yields a row.
LEMMA AtStepType ==
    ASSUME NEW st \in Statuses, NEW s \in Stories, NEW i \in Nat, Mailable(s, i), now \in Nat
    PROVE  /\ AtStep(st, s, i) \in Rows
           /\ AtStep(st, s, i).status = st
           /\ AtStep(st, s, i).story = s
           /\ AtStep(st, s, i).idx = i
           /\ AtStep(st, s, i).sentAt = now
           /\ AtStep(st, s, i).wait = Acts[s][i + 1].wait
<1>1. Acts[s][i + 1].wait \in Nat /\ Acts[s][i + 1].next \in ActionNames /\ i \in Positions
  BY MailableStep DEF Enactments
<1> QED
  BY <1>1 DEF AtStep, Rows

\* Updates of one field of a row.
LEMMA WithStatusType ==
    ASSUME NEW row \in Rows, NEW st \in Statuses
    PROVE  LET new == [row EXCEPT !.status = st] IN
           /\ new \in Rows
           /\ new.status = st
           /\ new.story = row.story
           /\ new.idx = row.idx
           /\ new.sentAt = row.sentAt
           /\ new.wait = row.wait
  BY DEF Rows

\* Rewinding changes sent_at alone.
LEMMA WithSentAtType ==
    ASSUME NEW row \in Rows, NEW t \in Int
    PROVE  LET new == [row EXCEPT !.sentAt = t] IN
           /\ new \in Rows
           /\ new.status = row.status
           /\ new.story = row.story
           /\ new.idx = row.idx
           /\ new.sentAt = t
           /\ new.wait = row.wait
  BY DEF Rows

\* An absent row is a row.
LEMMA NoRowType == NoRow \in Rows
  BY ConstantsOK DEF NoRow, Rows, Statuses, ConstantsOK, Positions, ActionNames

\* A document has a first position.
LEMMA ZeroIsAPosition == 0 \in Positions
  BY ConstantsOK DEF ConstantsOK, Positions

\* Sending counts one mail, or none.
LEMMA MailOutcomeType ==
    ASSUME NEW d \in Commands, NEW i \in Positions, MailOutcome(d, i),
           mailed \in [Commands -> [Positions -> Nat]]
    PROVE  mailed' \in [Commands -> [Positions -> Nat]]
  BY DEF MailOutcome

\* A pass reads snapshots of rows, none stamped in the future.
LEMMA ExpiredType ==
    ASSUME TypeOK
    PROVE  /\ Expired \in SUBSET Snapshots
           /\ \A s \in Expired : s.row.sentAt <= now
  BY DEF TypeOK, Expired, Snapshot, Snapshots

\* An actor that lets go of its snapshot keeps the types.
LEMMA ReleaseKeeps ==
    ASSUME TypeInv, NEW a \in Advancers, Release(a),
           UNCHANGED <<session, stories, unsubscribed, now, starter, draft, batch, mailed, crashes>>
    PROVE  TypeInv'
<1> USE DEF TypeInv
<1>1. /\ pc' \in [Advancers -> {"idle", "rewind", "sweep", "claim", "authorize", "mail", "done"}]
      /\ cur' \in [Advancers -> Snapshots \cup {None}]
      /\ \A b \in Advancers : pc'[b] \in {"claim", "authorize", "mail"} => pc'[b] = pc[b] /\ cur'[b] = cur[b]
  BY DEF Release, HandledRest, Resting, TypeOK
<1> QED
  BY <1>1 DEF TypeOK, DraftsReady, StepsReady, SnapshotsPast

\* The initial state is well typed.
LEMMA TypeInit == Init => TypeInv
<1> SUFFICES ASSUME Init PROVE TypeInv
  OBVIOUS
<1>1. TypeOK
  BY NoRowType, ConstantsOK DEF Init, TypeOK, NoRow, ConstantsOK
<1>2. DraftsReady /\ StepsReady /\ SnapshotsPast
  BY DEF Init, DraftsReady, StepsReady, SnapshotsPast
<1> QED
  BY <1>1, <1>2 DEF TypeInv

\* Every step keeps the types.
LEMMA TypeStep == TypeInv /\ [Next]_vars => TypeInv'
<1> SUFFICES ASSUME TypeInv, [Next]_vars PROVE TypeInv'
  OBVIOUS
<1> USE ConstantsOK DEF TypeInv
<1>1. ASSUME NEW d \in Commands, StartAuthorize(d) PROVE TypeInv'
  <2>1. TypeOK'
    BY ZenonT(60), <1>1 DEF StartAuthorize, TypeOK, envVars, actorVars
  <2>2. DraftsReady'
    BY ZenonT(60), <1>1 DEF StartAuthorize, TypeOK, DraftsReady, envVars
  <2>3. StepsReady' /\ SnapshotsPast'
    BY <1>1 DEF StartAuthorize, StepsReady, SnapshotsPast, envVars, actorVars
  <2> QED
    BY <2>1, <2>2, <2>3
<1>2. ASSUME NEW d \in Commands, StartInsert(d) PROVE TypeInv'
  <2>1. TypeOK'
    <3>1. CASE KeyTaken(KeyOf[d])
      BY <1>2, <3>1 DEF StartInsert, TypeOK, envVars, actorVars
    <3>2. CASE ~KeyTaken(KeyOf[d])
      <4> DEFINE new == AtStep("active", draft[d], 0)
      <4>1. draft[d] \in Stories /\ Mailable(draft[d], 0) /\ now \in Nat
        BY <1>2 DEF StartInsert, DraftsReady, TypeOK
      <4>2. new \in Rows /\ new.sentAt = now
        BY <4>1, AtStepType DEF Statuses
      <4>3. session' = [session EXCEPT ![d] = new]
        BY <1>2, <3>2 DEF StartInsert
      <4> HIDE DEF new
      <4> QED
        <5>1. session' \in [Commands -> Rows] /\ \A e \in Commands : session'[e].sentAt <= now
          BY <4>1, <4>2, <4>3 DEF TypeOK
        <5> QED
          BY <1>2, <3>2, <5>1 DEF StartInsert, TypeOK, envVars, actorVars
    <3> QED
      BY <3>1, <3>2
  <2>2. DraftsReady' /\ StepsReady' /\ SnapshotsPast'
    BY <1>2 DEF StartInsert, TypeOK, DraftsReady, StepsReady, SnapshotsPast, envVars, actorVars
  <2> QED
    BY <2>1, <2>2
<1>3. ASSUME NEW d \in Commands, StartSupersede(d) PROVE TypeInv'
  <2>1. \A e \in Commands : session'[e] \in Rows /\ session'[e].sentAt = session[e].sentAt
    BY ZenonT(60), <1>3, WithStatusType DEF StartSupersede, TypeOK, Statuses
  <2>2. TypeOK'
    BY <1>3, <2>1 DEF StartSupersede, TypeOK, envVars, actorVars
  <2>3. DraftsReady' /\ StepsReady' /\ SnapshotsPast'
    BY <1>3 DEF StartSupersede, TypeOK, DraftsReady, StepsReady, SnapshotsPast, envVars, actorVars
  <2> QED
    BY <2>2, <2>3
<1>4. ASSUME NEW d \in Commands, StartMail(d) PROVE TypeInv'
  <2>1. TypeOK'
    BY <1>4, ZeroIsAPosition, MailOutcomeType DEF StartMail, TypeOK, envVars, actorVars
  <2>2. DraftsReady' /\ StepsReady' /\ SnapshotsPast'
    BY <1>4 DEF StartMail, TypeOK, DraftsReady, StepsReady, SnapshotsPast, envVars, actorVars
  <2> QED
    BY <2>1, <2>2
<1>5. ASSUME NEW d \in Commands, CrashStart(d) PROVE TypeInv'
  BY <1>5 DEF CrashStart, TypeOK, DraftsReady, StepsReady, SnapshotsPast, envVars, actorVars
<1>6. ASSUME NEW a \in Advancers, SweepRead(a) PROVE TypeInv'
  BY <1>6, ExpiredType DEF SweepRead, ReadExpired, HandledRest, Resting, TypeOK, DraftsReady, StepsReady, SnapshotsPast, envVars, startVars
<1>7. ASSUME NEW a \in Advancers, ClickFind(a) PROVE TypeInv'
  <2>1. PICK d \in Commands :
          LET row == session[d]
              action == Acts[row.story][row.idx + 1].onClick IN
          /\ row.story \in stories
          /\ row.idx < Len(Acts[row.story])
          /\ action # None
          /\ batch' = [batch EXCEPT ![a] =
                         {[sid |-> d, row |-> [row EXCEPT !.next = action]]}]
    BY <1>7 DEF ClickFind
  <2> DEFINE row == session[d]
             action == Acts[row.story][row.idx + 1].onClick
             snap == [sid |-> d, row |-> [row EXCEPT !.next = action]]
  <2>2. row \in Rows /\ row.sentAt <= now /\ row.story \in Stories
    BY <2>1 DEF TypeOK
  <2>3. row.idx \in Nat
    BY <2>2 DEF Rows, Positions
  <2>4. Acts[row.story][row.idx + 1] \in Enactments
    BY <2>1, <2>2, <2>3 DEF ConstantsOK
  <2>5. action \in ActionNames
    BY <2>1, <2>4 DEF Enactments
  <2>6. snap \in Snapshots /\ snap.row.sentAt <= now
    BY <2>2, <2>5 DEF Snapshots, Rows
  <2>7. batch' = [batch EXCEPT ![a] = {snap}]
    BY <2>1
  <2> HIDE DEF snap
  <2>8. TypeOK'
    BY ZenonT(60), <1>7, <2>6, <2>7 DEF ClickFind, TypeOK, envVars, startVars
  <2>9. DraftsReady' /\ StepsReady' /\ SnapshotsPast'
    BY <1>7, <2>6, <2>7 DEF ClickFind, TypeOK, DraftsReady, StepsReady, SnapshotsPast, envVars, startVars
  <2> QED
    BY <2>8, <2>9
<1>8. ASSUME NEW a \in Advancers, HookRead(a) PROVE TypeInv'
  <2>1. PICK us \in {Users} \cup {{u} : u \in Users} :
          batch' = [batch EXCEPT ![a] =
                     {Snapshot(d) : d \in {e \in Commands : Active(e) /\ UserOf[e] \in us}}]
    BY <1>8 DEF HookRead
  <2>2. \A d \in Commands : Snapshot(d) \in Snapshots /\ Snapshot(d).row.sentAt <= now
    BY DEF TypeOK, Snapshot, Snapshots
  <2>3. TypeOK'
    BY <1>8, <2>1, <2>2 DEF HookRead, TypeOK, envVars, startVars
  <2>4. DraftsReady' /\ StepsReady' /\ SnapshotsPast'
    BY <1>8, <2>1, <2>2 DEF HookRead, TypeOK, DraftsReady, StepsReady, SnapshotsPast, envVars, startVars
  <2> QED
    BY <2>3, <2>4
<1>9. ASSUME NEW a \in Advancers, HookRewind(a) PROVE TypeInv'
  <2>1. PICK s \in batch[a] :
         /\ session' = IF Exists(s.sid)
                       THEN [session EXCEPT ![s.sid].sentAt = s.row.sentAt - Rewind]
                       ELSE session
         /\ batch' = [batch EXCEPT ![a] = @ \ {s}]
    BY <1>9 DEF HookRewind
  <2>2. s \in Snapshots /\ s.row.sentAt <= now /\ s.row.sentAt \in Int /\ Rewind \in Nat
    BY DEF TypeOK, SnapshotsPast, Snapshots, Rows, ConstantsOK
  <2>3. \A e \in Commands : session'[e] \in Rows /\ session'[e].sentAt <= now
    <3>1. s.sid \in Commands /\ session[s.sid] \in Rows /\ s.row.sentAt - Rewind \in Int
      BY <2>2 DEF TypeOK, Snapshots
    <3>2. now \in Nat /\ s.row.sentAt - Rewind <= now
      BY <2>2 DEF TypeOK
    <3> QED
      BY <2>1, <3>1, <3>2, WithSentAtType DEF TypeOK
  <2>4. TypeOK'
    <3>1. session' \in [Commands -> Rows] /\ \A e \in Commands : session'[e].sentAt <= now
      BY <2>1, <2>3 DEF TypeOK
    <3>2. batch' \in [Advancers -> SUBSET Snapshots]
      BY <2>1 DEF TypeOK
    <3> QED
      BY <1>9, <3>1, <3>2 DEF HookRewind, TypeOK, envVars, startVars
  <2>5. DraftsReady' /\ StepsReady' /\ SnapshotsPast'
    BY <1>9, <2>1 DEF HookRewind, TypeOK, DraftsReady, StepsReady, SnapshotsPast, envVars, startVars
  <2> QED
    BY <2>4, <2>5
<1>10. ASSUME NEW a \in Advancers, HookSweep(a) PROVE TypeInv'
  BY <1>10, ExpiredType DEF HookSweep, ReadExpired, HandledRest, Resting, TypeOK, DraftsReady, StepsReady, SnapshotsPast, envVars, startVars
<1>11. ASSUME NEW a \in Advancers, HandleSnapshot(a) PROVE TypeInv'
  <2>1. PICK s \in batch[a] : CompleteRun(a, s) \/ SkipRun(a, s) \/ PrepareStep(a, s)
    BY <1>11 DEF HandleSnapshot
  <2>2. s \in Snapshots
    BY DEF TypeOK
  <2>3. CASE CompleteRun(a, s)
    <3>1. \A e \in Commands : session'[e] \in Rows /\ session'[e].sentAt = session[e].sentAt
      <4>1. s.sid \in Commands /\ session[s.sid] \in Rows /\ "completed" \in Statuses
        BY <2>2 DEF TypeOK, Snapshots, Statuses
      <4> DEFINE new == [session[s.sid] EXCEPT !.status = "completed"]
      <4>2. new \in Rows /\ new.sentAt = session[s.sid].sentAt
        BY <4>1, WithStatusType
      <4>3. session' = [session EXCEPT ![s.sid] = new] \/ session' = session
        BY <2>3 DEF CompleteRun
      <4> HIDE DEF new
      <4> QED
        BY <4>1, <4>2, <4>3 DEF TypeOK
    <3>2. TypeOK'
      <4>1. DOMAIN session' = Commands /\ session' \in [Commands -> Rows]
        BY <2>3, <3>1 DEF CompleteRun, TypeOK
      <4>2. \A e \in Commands : session'[e].sentAt <= now
        BY <3>1 DEF TypeOK
      <4>3. /\ pc' \in [Advancers -> {"idle", "rewind", "sweep", "claim", "authorize", "mail", "done"}]
            /\ batch' \in [Advancers -> SUBSET Snapshots]
        BY <2>3 DEF CompleteRun, HandledRest, Resting, TypeOK
      <4> QED
        BY <2>3, <4>1, <4>2, <4>3 DEF CompleteRun, TypeOK, envVars, startVars
    <3>3. DraftsReady' /\ StepsReady' /\ SnapshotsPast'
      BY <2>3 DEF CompleteRun, HandledRest, Resting, TypeOK, DraftsReady, StepsReady, SnapshotsPast, envVars, startVars
    <3> QED
      BY <3>2, <3>3
  <2>4. CASE SkipRun(a, s)
    BY <2>4 DEF SkipRun, HandledRest, Resting, TypeOK, DraftsReady, StepsReady, SnapshotsPast, envVars, startVars
  <2>5. CASE PrepareStep(a, s)
    <3>1. s.row.story \in Stories /\ Mailable(s.row.story, s.row.idx + 1)
      BY <2>5 DEF PrepareStep, Ends, TypeOK
    <3>2. TypeOK'
      BY <2>2, <2>5 DEF PrepareStep, TypeOK, envVars, startVars
    <3>3. DraftsReady' /\ StepsReady' /\ SnapshotsPast'
      BY <2>2, <2>5, <3>1 DEF PrepareStep, TypeOK, DraftsReady, StepsReady, SnapshotsPast, envVars, startVars
    <3> QED
      BY <3>2, <3>3
  <2> QED
    BY <2>1, <2>3, <2>4, <2>5
<1>12. ASSUME NEW a \in Advancers, ClaimStep(a) PROVE TypeInv'
  <2> DEFINE s == cur[a]
  <2>1. CASE Pinned(s)
    <3>1. s \in Snapshots /\ s.row.story \in Stories /\ Mailable(s.row.story, s.row.idx + 1)
      BY <1>12 DEF ClaimStep, StepsReady
    <3>2. s.row.idx + 1 \in Nat /\ s.sid \in Commands /\ now \in Nat /\ session[s.sid] \in Rows
      BY <3>1 DEF Snapshots, Rows, Positions, TypeOK
    <3> DEFINE new == AtStep(session[s.sid].status, s.row.story, s.row.idx + 1)
    <3>3. new \in Rows /\ new.sentAt = now
      <4>1. PICK st \in Statuses, t \in Stories, i \in Nat :
              /\ st = session[s.sid].status /\ t = s.row.story /\ i = s.row.idx + 1
              /\ Mailable(t, i)
        BY <3>1, <3>2 DEF Rows
      <4>2. AtStep(st, t, i) \in Rows /\ AtStep(st, t, i).sentAt = now
        BY <3>2, <4>1, AtStepType
      <4> QED
        BY <4>1, <4>2
    <3>4. session' = [session EXCEPT ![s.sid] = new]
      BY <1>12, <2>1 DEF ClaimStep
    <3> HIDE DEF new
    <3>5. TypeOK'
      <4>1. session' \in [Commands -> Rows] /\ \A e \in Commands : session'[e].sentAt <= now
        BY <3>2, <3>3, <3>4 DEF TypeOK
      <4> QED
        BY <1>12, <2>1, <4>1 DEF ClaimStep, TypeOK, envVars, startVars
    <3>6. DraftsReady' /\ StepsReady' /\ SnapshotsPast'
      <4>1. /\ pc' = [pc EXCEPT ![a] = "authorize"]
            /\ UNCHANGED <<starter, draft, batch, cur, now>>
        BY <1>12, <2>1 DEF ClaimStep, envVars, startVars
      <4>2. pc[a] = "claim"
        BY <1>12 DEF ClaimStep
      <4>3. StepsReady'
        BY <4>1, <4>2 DEF StepsReady, TypeOK
      <4> QED
        BY <4>1, <4>3 DEF DraftsReady, SnapshotsPast
    <3> QED
      BY <3>5, <3>6
  <2>2. CASE ~Pinned(s)
    BY <1>12, <2>2, ReleaseKeeps DEF ClaimStep, envVars, startVars
  <2> QED
    BY <2>1, <2>2
<1>13. ASSUME NEW a \in Advancers, AuthorizeStep(a) PROVE TypeInv'
  <2>1. CASE Release(a)
    BY <1>13, <2>1, ReleaseKeeps DEF AuthorizeStep, envVars, startVars
  <2>2. CASE pc' = [pc EXCEPT ![a] = "mail"] /\ UNCHANGED cur
    BY <1>13, <2>2 DEF AuthorizeStep, TypeOK, DraftsReady, StepsReady, SnapshotsPast, envVars, startVars
  <2> QED
    BY <1>13, <2>1, <2>2 DEF AuthorizeStep
<1>14. ASSUME NEW a \in Advancers, MailStep(a) PROVE TypeInv'
  <2>1. cur[a].sid \in Commands /\ cur[a].row.idx + 1 \in Positions
    BY <1>14, MailableStep DEF MailStep, StepsReady, Snapshots, Rows, Positions
  <2>2. TypeOK'
    BY <1>14, <2>1, MailOutcomeType
       DEF MailStep, Release, HandledRest, Resting, TypeOK, envVars, startVars
  <2>3. DraftsReady' /\ StepsReady' /\ SnapshotsPast'
    BY <1>14 DEF MailStep, Release, HandledRest, Resting, TypeOK, DraftsReady, StepsReady,
                 SnapshotsPast, envVars, startVars
  <2> QED
    BY <2>2, <2>3
<1>15. ASSUME NEW a \in Advancers, CrashAdvancer(a) PROVE TypeInv'
  BY <1>15 DEF CrashAdvancer, Resting, TypeOK, DraftsReady, StepsReady, SnapshotsPast, envVars, startVars
<1>16. CASE Tick
  <2>1. \A d \in Commands : session[d].sentAt \in Int
    BY DEF TypeOK, Rows
  <2>2. TypeOK'
    BY <1>16, <2>1 DEF Tick, TypeOK, startVars, actorVars
  <2>3. \A a \in Advancers : \A s \in batch[a] : s.row.sentAt \in Int
    BY DEF TypeOK, Snapshots, Rows
  <2>4. DraftsReady' /\ StepsReady' /\ SnapshotsPast'
    BY <1>16, <2>3 DEF Tick, TypeOK, DraftsReady, StepsReady, SnapshotsPast, startVars, actorVars
  <2> QED
    BY <2>2, <2>4
<1>17. ASSUME NEW u \in Users, Unsubscribe(u) PROVE TypeInv'
  BY <1>17 DEF Unsubscribe, TypeOK, DraftsReady, StepsReady, SnapshotsPast, startVars, actorVars
<1>18. ASSUME NEW s \in Stories, Purge(s) PROVE TypeInv'
  <2>1. \A e \in Commands : session'[e] \in Rows /\ session'[e].sentAt = session[e].sentAt
    BY ZenonT(60), <1>18, WithStatusType DEF Purge, TypeOK, Statuses
  <2>2. TypeOK'
    BY <1>18, <2>1 DEF Purge, TypeOK, envVars, startVars, actorVars
  <2>3. DraftsReady' /\ StepsReady' /\ SnapshotsPast'
    BY <1>18 DEF Purge, TypeOK, DraftsReady, StepsReady, SnapshotsPast, envVars, startVars, actorVars
  <2> QED
    BY <2>2, <2>3
<1>19. CASE ResetTenant
  BY <1>19 DEF ResetTenant, TypeOK, DraftsReady, StepsReady, SnapshotsPast, startVars, actorVars
<1>20. CASE UNCHANGED vars
  BY <1>20 DEF vars, TypeOK, DraftsReady, StepsReady, SnapshotsPast
<1> QED
  BY <1>1, <1>2, <1>3, <1>4, <1>5, <1>6, <1>7, <1>8, <1>9, <1>10, <1>11, <1>12, <1>13, <1>14,
     <1>15, <1>16, <1>17, <1>18, <1>19, <1>20 DEF Next, StartNext, AdvanceNext

\* Every row, snapshot and counter keeps its type, and no row of the sessions
\* collection is stamped in the future.
THEOREM TypeCorrect == Spec => []TypeOK
<1>1. TypeInv => TypeOK
  BY DEF TypeInv
<1> QED
  BY <1>1, TypeInit, TypeStep, PTL DEF Spec

--------------------------------------------------------------------------------
(* At most one mail per step *)

\* A command that has not inserted has no row.
NotInserted ==
    \A d \in Commands : starter[d] \in {"new", "insert"} => session[d].status = "none"

\* A start command past its insert may mail the first step, which nobody did.
StartOwes ==
    \A d \in Commands : starter[d] \in {"supersede", "mail"} =>
        session[d].status # "none" /\ mailed[d][0] = 0

\* An actor past its claim may mail that step, which the session has reached and
\* nobody mailed.
StepOwes ==
    \A a \in Advancers : pc[a] \in {"authorize", "mail"} =>
        LET d == cur[a].sid
            i == cur[a].row.idx + 1 IN
        /\ session[d].status # "none"
        /\ i <= session[d].idx
        /\ mailed[d][i] = 0

\* No two actors are past a claim of the same step.
ClaimsDiffer ==
    \A a, b \in Advancers :
        (/\ a # b
         /\ pc[a] \in {"authorize", "mail"}
         /\ pc[b] \in {"authorize", "mail"}
         /\ cur[a].sid = cur[b].sid)
        => cur[a].row.idx # cur[b].row.idx

\* Mails stay behind the session's position.
MailedReached ==
    \A d \in Commands, i \in Positions :
        mailed[d][i] > 0 => session[d].status # "none" /\ i <= session[d].idx

MailInv ==
    /\ NotInserted /\ StartOwes /\ StepOwes /\ ClaimsDiffer /\ MailedReached
    /\ AtMostOneEmailPerStep

\* The initial state owes no mail.
LEMMA MailInit == Init => MailInv
  BY DEF Init, MailInv, NotInserted, StartOwes, StepOwes, ClaimsDiffer, MailedReached,
         AtMostOneEmailPerStep, NoRow

\* What the session updates of the other actions leave alone: where a session
\* is, and that it was inserted.
SameRuns ==
    \A d \in Commands : /\ session'[d].idx = session[d].idx
                        /\ session'[d].status = "none" <=> session[d].status = "none"

\* A step that keeps the runs, mails nothing and lets nobody past a claim or an
\* insert keeps the invariant.
LEMMA MailInvKept ==
    ASSUME TypeInv, MailInv, SameRuns, mailed' = mailed,
           \A d \in Commands : \/ starter'[d] = starter[d]
                               \/ starter'[d] = "done"
                               \/ starter'[d] = "insert" /\ starter[d] = "new"
                               \/ starter'[d] = "mail" /\ starter[d] = "supersede",
           \A a \in Advancers : pc'[a] \in {"authorize", "mail"} =>
               pc[a] \in {"authorize", "mail"} /\ cur'[a] = cur[a]
    PROVE  MailInv'
<1>1. NotInserted' /\ StartOwes'
  BY DEF MailInv, NotInserted, StartOwes, SameRuns
<1>2. \A a \in Advancers : pc'[a] \in {"authorize", "mail"} =>
        cur[a].sid \in Commands
  BY DEF TypeInv, StepsReady, Snapshots
<1>3. StepOwes'
  BY <1>2 DEF MailInv, StepOwes, SameRuns
<1>4. ClaimsDiffer'
  BY DEF MailInv, ClaimsDiffer
<1>5. MailedReached' /\ AtMostOneEmailPerStep'
  BY DEF MailInv, MailedReached, AtMostOneEmailPerStep, SameRuns
<1> QED
  BY <1>1, <1>3, <1>4, <1>5 DEF MailInv

\* Every step keeps the mail invariant.
LEMMA MailStepKeeps == TypeInv /\ MailInv /\ [Next]_vars => MailInv'
<1> SUFFICES ASSUME TypeInv, MailInv, [Next]_vars PROVE MailInv'
  OBVIOUS
<1>1. ASSUME NEW d \in Commands, StartAuthorize(d) PROVE MailInv'
  BY <1>1, MailInvKept DEF StartAuthorize, SameRuns, envVars, actorVars, TypeInv, TypeOK
<1>2. ASSUME NEW d \in Commands, StartInsert(d) PROVE MailInv'
  <2>1. CASE KeyTaken(KeyOf[d])
    BY <1>2, <2>1, MailInvKept DEF StartInsert, SameRuns, actorVars, TypeInv, TypeOK
  <2>2. CASE ~KeyTaken(KeyOf[d])
    <3> DEFINE new == AtStep("active", draft[d], 0)
    <3>1. draft[d] \in Stories /\ Mailable(draft[d], 0) /\ now \in Nat
      BY <1>2 DEF StartInsert, TypeInv, DraftsReady, TypeOK
    <3>2. new.status = "active"
      BY <3>1, AtStepType DEF Statuses
    <3>3. session' = [session EXCEPT ![d] = new] /\ starter' = [starter EXCEPT ![d] = "supersede"]
      BY <1>2, <2>2 DEF StartInsert
    <3> HIDE DEF new
    <3>4. session[d].status = "none" /\ \A i \in Positions : mailed[d][i] = 0
      BY <1>2 DEF StartInsert, MailInv, NotInserted, MailedReached, TypeInv, TypeOK
    <3>5. NotInserted' /\ StartOwes'
      BY <1>2, <3>2, <3>3, <3>4, ZeroIsAPosition
         DEF StartInsert, MailInv, NotInserted, StartOwes, TypeInv, TypeOK
    <3>6. StepOwes' /\ ClaimsDiffer'
      BY <1>2, <3>3, <3>4 DEF StartInsert, MailInv, StepOwes, ClaimsDiffer, actorVars, TypeInv, TypeOK
    <3>7. MailedReached' /\ AtMostOneEmailPerStep'
      BY <1>2, <3>3, <3>4 DEF StartInsert, MailInv, MailedReached, AtMostOneEmailPerStep, TypeInv, TypeOK
    <3> QED
      BY <3>5, <3>6, <3>7 DEF MailInv
  <2> QED
    BY <2>1, <2>2
<1>3. ASSUME NEW d \in Commands, StartSupersede(d) PROVE MailInv'
  <2>1. SameRuns
    BY <1>3, WithStatusType DEF StartSupersede, SameRuns, OtherRuns, Active, TypeInv, TypeOK, Statuses
  <2> QED
    BY <1>3, <2>1, MailInvKept DEF StartSupersede, actorVars, TypeInv, TypeOK
<1>4. ASSUME NEW d \in Commands, StartMail(d) PROVE MailInv'
  <2>1. mailed[d][0] = 0 /\ session[d].status # "none" /\ session[d].idx \in Nat
    BY <1>4 DEF StartMail, MailInv, StartOwes, TypeInv, TypeOK, Rows, Positions
  <2>2. \A e \in Commands, i \in Positions :
          mailed'[e][i] = mailed[e][i] \/ (e = d /\ i = 0 /\ mailed'[e][i] = 1)
    BY <1>4, <2>1, ZeroIsAPosition DEF StartMail, MailOutcome, TypeInv, TypeOK
  <2>3. NotInserted' /\ StartOwes'
    BY <1>4, <2>2, ZeroIsAPosition DEF StartMail, MailInv, NotInserted, StartOwes, TypeInv, TypeOK
  <2>4. \A a \in Advancers : pc[a] \in {"authorize", "mail"} =>
          /\ cur[a].sid \in Commands
          /\ cur[a].row.idx + 1 \in Positions
          /\ cur[a].row.idx + 1 # 0
    BY MailableStep DEF TypeInv, StepsReady, Snapshots, Rows, Positions
  <2>5. StepOwes' /\ ClaimsDiffer'
    BY <1>4, <2>2, <2>4 DEF StartMail, MailInv, StepOwes, ClaimsDiffer, actorVars
  <2>6. MailedReached' /\ AtMostOneEmailPerStep'
    BY <1>4, <2>1, <2>2 DEF StartMail, MailInv, MailedReached, AtMostOneEmailPerStep
  <2> QED
    BY <2>3, <2>5, <2>6 DEF MailInv
<1>5. ASSUME NEW d \in Commands, CrashStart(d) PROVE MailInv'
  BY <1>5, MailInvKept DEF CrashStart, SameRuns, actorVars, TypeInv, TypeOK
<1>6. ASSUME NEW a \in Advancers, SweepRead(a) \/ HookSweep(a) \/ ClickFind(a) \/ HookRead(a)
      PROVE MailInv'
  BY <1>6, MailInvKept DEF SweepRead, HookSweep, ReadExpired, HandledRest, Resting, ClickFind, HookRead,
     SameRuns, envVars, startVars, TypeInv, TypeOK
<1>7. ASSUME NEW a \in Advancers, HookRewind(a) PROVE MailInv'
  <2>1. PICK s \in batch[a] :
         session' = IF Exists(s.sid)
                   THEN [session EXCEPT ![s.sid].sentAt = s.row.sentAt - Rewind]
                   ELSE session
    BY <1>7 DEF HookRewind
  <2>2. SameRuns
    BY <2>1 DEF SameRuns, TypeInv, TypeOK, Rows
  <2> QED
    BY <1>7, <2>2, MailInvKept DEF HookRewind, startVars
<1>8. ASSUME NEW a \in Advancers, HandleSnapshot(a) PROVE MailInv'
  <2>1. PICK s \in batch[a] : CompleteRun(a, s) \/ SkipRun(a, s) \/ PrepareStep(a, s)
    BY <1>8 DEF HandleSnapshot
  <2>2. SameRuns
    BY <2>1 DEF CompleteRun, SkipRun, PrepareStep, Exists, SameRuns, TypeInv, TypeOK, Rows
  <2>3. \A b \in Advancers : pc'[b] \in {"authorize", "mail"} =>
               pc[b] \in {"authorize", "mail"} /\ cur'[b] = cur[b]
    BY <1>8, <2>1 DEF HandleSnapshot, CompleteRun, SkipRun, PrepareStep, HandledRest, Resting, TypeInv, TypeOK
  <2> QED
    BY <2>1, <2>2, <2>3, MailInvKept DEF CompleteRun, SkipRun, PrepareStep, startVars
<1>9. ASSUME NEW a \in Advancers, ClaimStep(a) PROVE MailInv'
  <2> DEFINE s == cur[a]
  <2>1. CASE ~Pinned(s)
    BY <1>9, <2>1, MailInvKept
       DEF ClaimStep, Release, HandledRest, Resting, SameRuns, startVars, TypeInv, TypeOK
  <2>2. CASE Pinned(s)
    <3> DEFINE d == s.sid
               i == s.row.idx + 1
               new == AtStep(session[d].status, s.row.story, i)
    <3>1. s \in Snapshots /\ s.row.story \in Stories /\ Mailable(s.row.story, i)
      BY <1>9 DEF ClaimStep, TypeInv, StepsReady
    <3>2. d \in Commands /\ s.row.idx \in Nat /\ now \in Nat /\ session[d] \in Rows
      BY <3>1 DEF Snapshots, Rows, Positions, TypeInv, TypeOK
    <3>3. i \in Nat /\ i \in Positions /\ session[d].idx = s.row.idx /\ session[d].status = "active"
      BY <2>2, <3>1, <3>2, MailableStep DEF Pinned
    <3>4. new.status = session[d].status /\ new.idx = i
      BY <3>1, <3>2, <3>3, AtStepType DEF Rows
    <3>5. /\ session' = [session EXCEPT ![d] = new]
          /\ pc' = [pc EXCEPT ![a] = "authorize"]
          /\ UNCHANGED <<cur, mailed, starter>>
      BY <1>9, <2>2 DEF ClaimStep, startVars
    <3>6. mailed[d][i] = 0
      BY <3>2, <3>3 DEF MailInv, MailedReached, TypeInv, TypeOK
    <3>7. \A b \in Advancers \ {a} : pc[b] \in {"authorize", "mail"} =>
            /\ cur[b].sid \in Commands /\ cur[b].row.idx \in Nat
            /\ cur[b].sid = d => cur[b].row.idx + 1 <= s.row.idx
      BY <3>3 DEF MailInv, StepOwes, TypeInv, StepsReady, Snapshots, Rows, Positions
    <3> HIDE DEF new, d, i, s
    <3>8. NotInserted' /\ StartOwes'
      BY <3>2, <3>4, <3>5 DEF MailInv, NotInserted, StartOwes, TypeInv, TypeOK
    <3>9. StepOwes'
      <4>1. ASSUME NEW b \in Advancers, pc'[b] \in {"authorize", "mail"}, b # a
            PROVE  /\ session'[cur[b].sid].status # "none"
                   /\ cur[b].row.idx + 1 <= session'[cur[b].sid].idx
                   /\ mailed[cur[b].sid][cur[b].row.idx + 1] = 0
        <5>1. pc[b] \in {"authorize", "mail"}
          BY <3>5, <4>1 DEF TypeInv, TypeOK
        <5>2. /\ session[cur[b].sid].status # "none"
              /\ cur[b].row.idx + 1 <= session[cur[b].sid].idx
              /\ mailed[cur[b].sid][cur[b].row.idx + 1] = 0
          BY <5>1 DEF MailInv, StepOwes
        <5> QED
          BY <3>2, <3>3, <3>4, <3>5, <3>7, <4>1, <5>1, <5>2 DEF TypeInv, TypeOK, i
      <4>2. /\ session'[d].status # "none" /\ i <= session'[d].idx /\ mailed[d][i] = 0
        BY <3>2, <3>3, <3>4, <3>5, <3>6 DEF TypeInv, TypeOK
      <4> QED
        BY <3>5, <4>1, <4>2 DEF StepOwes, d, i, s
    <3>10. ClaimsDiffer'
      BY <3>2, <3>5, <3>7 DEF MailInv, ClaimsDiffer, TypeInv, TypeOK, d, s
    <3>11. MailedReached' /\ AtMostOneEmailPerStep'
      BY <3>2, <3>3, <3>4, <3>5 DEF MailInv, MailedReached, AtMostOneEmailPerStep, TypeInv, TypeOK, Positions, i
    <3> QED
      BY <3>8, <3>9, <3>10, <3>11 DEF MailInv
  <2> QED
    BY <2>1, <2>2
<1>10. ASSUME NEW a \in Advancers, AuthorizeStep(a) PROVE MailInv'
  BY <1>10, MailInvKept DEF AuthorizeStep, Release, HandledRest, Resting, SameRuns, startVars, TypeInv, TypeOK
<1>11. ASSUME NEW a \in Advancers, MailStep(a) PROVE MailInv'
  <2> DEFINE d == cur[a].sid
             i == cur[a].row.idx + 1
  <2>1. d \in Commands /\ i \in Positions /\ cur[a].row.idx \in Nat /\ i # 0
    BY <1>11, MailableStep DEF MailStep, TypeInv, StepsReady, Snapshots, Rows, Positions
  <2>2. session[d].status # "none" /\ i <= session[d].idx /\ mailed[d][i] = 0
    BY <1>11 DEF MailStep, MailInv, StepOwes
  <2>3. \A e \in Commands, j \in Positions :
          mailed'[e][j] = mailed[e][j] \/ (e = d /\ j = i /\ mailed'[e][j] = 1)
    BY <1>11, <2>1, <2>2 DEF MailStep, MailOutcome, TypeInv, TypeOK
  <2>4. \A b \in Advancers : pc'[b] \in {"authorize", "mail"} =>
          b # a /\ pc[b] \in {"authorize", "mail"} /\ cur'[b] = cur[b]
    BY <1>11 DEF MailStep, Release, HandledRest, Resting, TypeInv, TypeOK
  <2>5. \A b \in Advancers \ {a} : pc[b] \in {"authorize", "mail"} =>
          /\ cur[b].sid \in Commands
          /\ cur[b].row.idx + 1 \in Positions
          /\ cur[b].sid = d => cur[b].row.idx + 1 # i
    BY <1>11, <2>1, MailableStep
       DEF MailStep, MailInv, ClaimsDiffer, TypeInv, StepsReady, Snapshots, Rows, Positions
  <2>6. UNCHANGED <<session, starter>>
    BY <1>11 DEF MailStep, startVars
  <2> HIDE DEF d, i
  <2>7. NotInserted' /\ StartOwes'
    BY <2>1, <2>3, <2>6, ZeroIsAPosition DEF MailInv, NotInserted, StartOwes
  <2>8. StepOwes' /\ ClaimsDiffer'
    BY <2>3, <2>4, <2>5, <2>6 DEF MailInv, StepOwes, ClaimsDiffer
  <2>9. MailedReached' /\ AtMostOneEmailPerStep'
    BY <2>1, <2>2, <2>3, <2>6 DEF MailInv, MailedReached, AtMostOneEmailPerStep
  <2> QED
    BY <2>7, <2>8, <2>9 DEF MailInv
<1>12. ASSUME NEW a \in Advancers, CrashAdvancer(a) PROVE MailInv'
  BY <1>12, MailInvKept DEF CrashAdvancer, Resting, SameRuns, startVars, TypeInv, TypeOK
<1>13. ASSUME NEW s \in Stories, Purge(s) PROVE MailInv'
  <2>1. SameRuns
    BY <1>13, WithStatusType DEF Purge, SameRuns, Exists, TypeInv, TypeOK, Statuses
  <2> QED
    BY <1>13, <2>1, MailInvKept DEF Purge, startVars, actorVars
<1>14. CASE Tick \/ (\E u \in Users : Unsubscribe(u)) \/ ResetTenant \/ UNCHANGED vars
  BY <1>14, MailInvKept DEF Tick, Unsubscribe, ResetTenant, vars, SameRuns, startVars, actorVars
<1> QED
  BY <1>1, <1>2, <1>3, <1>4, <1>5, <1>6, <1>7, <1>8, <1>9, <1>10, <1>11, <1>12, <1>13, <1>14
     DEF Next, StartNext, AdvanceNext

\* A step of a session is mailed at most once, for any number of sweeps, clicks,
\* hook calls and start commands and any crashes between their steps.
THEOREM AtMostOnce == Spec => []AtMostOneEmailPerStep
<1>1. MailInv => AtMostOneEmailPerStep
  BY DEF MailInv
<1> QED
  BY <1>1, TypeInit, TypeStep, MailInit, MailStepKeeps, PTL DEF Spec

--------------------------------------------------------------------------------
(* One run per command key *)

KeyUnique ==
    \A d, e \in Commands :
        (d # e /\ KeyOf[d] # None /\ KeyOf[d] = KeyOf[e]) => ~(Exists(d) /\ Exists(e))

\* No key is taken to begin with.
LEMMA KeyInit == Init => KeyUnique
  BY DEF Init, KeyUnique, Exists, NoRow

\* Only a start command's insert brings a row into being.
LEMMA OnlyInsertCreates ==
    ASSUME TypeInv, [Next]_vars, NEW e \in Commands, Exists(e)', ~Exists(e)
    PROVE  StartInsert(e) /\ ~KeyTaken(KeyOf[e]) /\ \A d \in Commands \ {e} : session'[d] = session[d]
<1>1. ASSUME NEW d \in Commands, StartNext(d) \/ CrashStart(d)
      PROVE  /\ StartInsert(e) /\ ~KeyTaken(KeyOf[e])
             /\ \A f \in Commands \ {e} : session'[f] = session[f]
  <2>1. CASE StartInsert(d)
    BY <2>1 DEF StartInsert, Exists, TypeInv, TypeOK
  <2>2. CASE StartSupersede(d)
    BY <2>2 DEF StartSupersede, OtherRuns, Active, Exists, TypeInv, TypeOK, Rows
  <2>3. CASE StartAuthorize(d) \/ StartMail(d) \/ CrashStart(d)
    BY <2>3 DEF StartAuthorize, StartMail, CrashStart, Exists
  <2> QED
    BY <1>1, <2>1, <2>2, <2>3 DEF StartNext
<1>2. ASSUME NEW a \in Advancers, NEW s \in batch[a], CompleteRun(a, s) \/ SkipRun(a, s) \/ PrepareStep(a, s)
      PROVE  FALSE
  BY <1>2 DEF CompleteRun, SkipRun, PrepareStep, Exists, TypeInv, TypeOK, Rows
<1>3. ASSUME NEW a \in Advancers, ClaimStep(a)
      PROVE  FALSE
  <2>1. \/ UNCHANGED session
        \/ \E i \in Nat, t \in Stories, d \in Commands :
             session' = [session EXCEPT ![d] = AtStep(session[d].status, t, i)]
    BY <1>3 DEF ClaimStep, TypeInv, StepsReady, Snapshots, Rows, Positions
  <2>2. session'[e].status = session[e].status
    <3>1. \A st, t, i : AtStep(st, t, i).status = st
      BY DEF AtStep
    <3>2. session \in [Commands -> Rows]
      BY DEF TypeInv, TypeOK
    <3> QED
      BY <2>1, <3>1, <3>2
  <2> QED
    BY <2>2 DEF Exists
<1>4. ASSUME NEW a \in Advancers, HookRewind(a)
      PROVE  FALSE
  BY <1>4 DEF HookRewind, Exists, TypeInv, TypeOK, Rows
<1>5. ASSUME NEW a \in Advancers,
             SweepRead(a) \/ ClickFind(a) \/ HookRead(a) \/ HookSweep(a) \/ AuthorizeStep(a)
             \/ MailStep(a) \/ CrashAdvancer(a)
      PROVE  FALSE
  BY <1>5 DEF SweepRead, ClickFind, HookRead, HookSweep, ReadExpired, AuthorizeStep, MailStep,
              CrashAdvancer, Exists
<1>6. ASSUME NEW s \in Stories, Purge(s)
      PROVE  FALSE
  BY <1>6 DEF Purge, Exists, TypeInv, TypeOK, Rows
<1>7. CASE Tick \/ (\E u \in Users : Unsubscribe(u)) \/ ResetTenant \/ UNCHANGED vars
  BY <1>7 DEF Tick, Unsubscribe, ResetTenant, vars, Exists
<1> QED
  BY <1>1, <1>2, <1>3, <1>4, <1>5, <1>6, <1>7 DEF Next, AdvanceNext, HandleSnapshot

\* Every step keeps at most one session per command key.
LEMMA KeyStep == TypeInv /\ KeyUnique /\ [Next]_vars => KeyUnique'
<1> SUFFICES ASSUME TypeInv, KeyUnique, [Next]_vars,
                    NEW d \in Commands, NEW e \in Commands,
                    d # e, KeyOf[d] # None, KeyOf[d] = KeyOf[e], Exists(d)', Exists(e)'
             PROVE  FALSE
  BY DEF KeyUnique
<1>1. CASE ~Exists(e)
  BY <1>1, OnlyInsertCreates DEF KeyTaken, Exists
<1>2. CASE ~Exists(d)
  BY <1>2, OnlyInsertCreates DEF KeyTaken, Exists
<1> QED
  BY <1>1, <1>2 DEF KeyUnique

\* Deliveries of one command mail its first step at most once between them,
\* unless the session of one was purged.
THEOREM OncePerCommand == Spec => []FirstStepOncePerCommand
<1>1. TypeInv /\ MailInv /\ KeyUnique => FirstStepOncePerCommand
  <2> SUFFICES ASSUME TypeInv, MailInv, KeyUnique,
                      NEW d \in Commands, NEW e \in Commands,
                      d # e, KeyOf[d] # None, KeyOf[d] = KeyOf[e],
                      mailed[d][0] > 0, mailed[e][0] > 0
               PROVE  "purged" \in {session[d].status, session[e].status}
    BY DEF FirstStepOncePerCommand
  <2>1. session[d].status # "none" /\ session[e].status # "none"
    BY ZeroIsAPosition DEF MailInv, MailedReached
  <2> QED
    BY <2>1 DEF KeyUnique, Exists
<1> QED
  BY <1>1, TypeInit, TypeStep, MailInit, MailStepKeeps, KeyInit, KeyStep, PTL DEF Spec

--------------------------------------------------------------------------------
(* Finished runs *)

\* No stale snapshot moves a finished run or brings it back.
THEOREM FinishedStay == Spec => FinishedRunsStayPut
<1>1. ASSUME TypeInv, MailInv, [Next]_vars, NEW d \in Commands PROVE StaysPut(d)
  <2>1. ASSUME NEW e \in Commands, StartNext(e) \/ CrashStart(e) PROVE StaysPut(d)
    <3>1. CASE StartInsert(e)
      <4>1. session[e].status = "none" /\ \A f \in Commands \ {e} : session'[f] = session[f]
        BY <1>1, <3>1 DEF StartInsert, MailInv, NotInserted, TypeInv, TypeOK
      <4> QED
        BY <4>1 DEF StaysPut
    <3>2. CASE StartSupersede(e)
      BY <3>2 DEF StartSupersede, OtherRuns, Active, StaysPut, TypeInv, TypeOK
    <3>3. CASE StartAuthorize(e) \/ StartMail(e) \/ CrashStart(e)
      BY <3>3 DEF StartAuthorize, StartMail, CrashStart, StaysPut
    <3> QED
      BY <2>1, <3>1, <3>2, <3>3 DEF StartNext
  <2>2. ASSUME NEW a \in Advancers, NEW s \in batch[a],
               CompleteRun(a, s) \/ SkipRun(a, s) \/ PrepareStep(a, s)
        PROVE  StaysPut(d)
    <3>1. \/ session'[d] = session[d]
          \/ session'[d] = [session[d] EXCEPT !.status = "completed"]
      <4>1. \/ session' = session
            \/ session' = [session EXCEPT ![s.sid].status = "completed"]
        BY <2>2 DEF CompleteRun, SkipRun, PrepareStep
      <4>2. session \in [Commands -> Rows]
        BY <1>1 DEF TypeInv, TypeOK
      <4> QED
        BY <4>1, <4>2
    <3>2. session[d] \in Rows
      BY <1>1 DEF TypeInv, TypeOK
    <3> QED
      BY <3>1, <3>2 DEF StaysPut, Rows
  <2>3. ASSUME NEW a \in Advancers, ClaimStep(a) PROVE StaysPut(d)
    <3>1. session'[d] = session[d] \/ session[d].status = "active"
      BY <1>1, <2>3 DEF ClaimStep, Pinned, TypeInv, TypeOK
    <3> QED
      BY <3>1 DEF StaysPut
  <2>4. ASSUME NEW a \in Advancers, HookRewind(a) PROVE StaysPut(d)
    BY <2>4 DEF HookRewind, StaysPut, TypeInv, TypeOK, Rows
  <2>5. ASSUME NEW a \in Advancers,
               SweepRead(a) \/ ClickFind(a) \/ HookRead(a) \/ HookSweep(a) \/ AuthorizeStep(a)
               \/ MailStep(a) \/ CrashAdvancer(a)
        PROVE  StaysPut(d)
    BY <2>5 DEF SweepRead, ClickFind, HookRead, HookSweep, ReadExpired, AuthorizeStep, MailStep,
                CrashAdvancer, StaysPut
  <2>6. ASSUME NEW s \in Stories, Purge(s) PROVE StaysPut(d)
    BY <2>6 DEF Purge, StaysPut, TypeInv, TypeOK, Rows
  <2>7. CASE Tick \/ (\E u \in Users : Unsubscribe(u)) \/ ResetTenant \/ UNCHANGED vars
    BY <2>7 DEF Tick, Unsubscribe, ResetTenant, vars, StaysPut
  <2> QED
    BY <1>1, <2>1, <2>2, <2>3, <2>4, <2>5, <2>6, <2>7 DEF Next, AdvanceNext, HandleSnapshot
<1>2. TypeInv /\ MailInv /\ [Next]_vars => [\A d \in Commands : StaysPut(d)]_vars
  BY <1>1
<1> QED
  BY <1>2, TypeInit, TypeStep, MailInit, MailStepKeeps, PTL DEF Spec, FinishedRunsStayPut

--------------------------------------------------------------------------------
(* Unsubscribed users *)

\* A user for whom nobody holds an authorised mail stays without mails.
THEOREM SilentOnceQuiet == Spec => UnsubscribedUsersFallSilent
<1>1. ASSUME TypeInv, [Next]_vars, NEW u \in Users PROVE StaysQuiet(u)
  <2> SUFFICES ASSUME Quiet(u)
               PROVE  Quiet(u)' /\ \A d \in Commands : UserOf[d] = u => mailed'[d] = mailed[d]
    BY DEF StaysQuiet
  <2>1. ASSUME NEW e \in Commands, StartNext(e) \/ CrashStart(e)
        PROVE  Quiet(u)' /\ \A d \in Commands : UserOf[d] = u => mailed'[d] = mailed[d]
    <3>1. UNCHANGED <<unsubscribed, pc, cur>> /\ \A d \in Commands \ {e} : starter'[d] = starter[d]
      BY <1>1, <2>1 DEF StartNext, StartAuthorize, StartInsert, StartSupersede, StartMail, CrashStart,
                  envVars, actorVars, TypeInv, TypeOK
    <3>2. CASE UserOf[e] = u
      BY <1>1, <2>1, <3>1, <3>2 DEF StartNext, StartAuthorize, StartInsert, StartSupersede, StartMail, CrashStart,
                  Quiet, TypeInv, TypeOK
    <3>3. CASE UserOf[e] # u
      <4>1. \A d \in Commands \ {e} : mailed'[d] = mailed[d]
        BY <1>1, <2>1 DEF StartNext, StartAuthorize, StartInsert, StartSupersede, StartMail, CrashStart,
                    MailOutcome, TypeInv, TypeOK
      <4> QED
        BY <3>1, <3>3, <4>1 DEF Quiet
    <3> QED
      BY <3>2, <3>3
  <2>2. ASSUME NEW a \in Advancers,
               \/ SweepRead(a) \/ ClickFind(a) \/ HookRead(a) \/ HookRewind(a) \/ HookSweep(a)
               \/ HandleSnapshot(a) \/ ClaimStep(a) \/ AuthorizeStep(a) \/ CrashAdvancer(a)
        PROVE  Quiet(u)' /\ \A d \in Commands : UserOf[d] = u => mailed'[d] = mailed[d]
    <3>1. UNCHANGED <<unsubscribed, starter, mailed>>
      BY <2>2 DEF SweepRead, ClickFind, HookRead, HookRewind, HookSweep, ReadExpired, HandleSnapshot,
                  CompleteRun, SkipRun, PrepareStep, ClaimStep, AuthorizeStep, CrashAdvancer,
                  envVars, startVars
    <3>2. ASSUME NEW b \in Advancers, pc'[b] = "mail"
          PROVE  /\ cur'[b] = cur[b]
                 /\ pc[b] = "mail" \/ UserOf[cur[b].sid] \notin unsubscribed
      BY ZenonT(60), <1>1, <2>2, <3>2
         DEF SweepRead, ClickFind, HookRead, HookRewind, HookSweep, ReadExpired, HandleSnapshot,
             CompleteRun, SkipRun, PrepareStep, ClaimStep, AuthorizeStep, CrashAdvancer, Release,
             HandledRest, Resting, TypeInv, TypeOK
    <3> QED
      BY <3>1, <3>2 DEF Quiet
  <2>3. ASSUME NEW a \in Advancers, MailStep(a)
        PROVE  Quiet(u)' /\ \A d \in Commands : UserOf[d] = u => mailed'[d] = mailed[d]
    <3>1. UNCHANGED <<unsubscribed, starter>> /\ UserOf[cur[a].sid] # u /\ cur[a].sid \in Commands
      BY <1>1, <2>3 DEF MailStep, envVars, startVars, Quiet, TypeInv, StepsReady, Snapshots
    <3>2. \A d \in Commands : UserOf[d] = u => mailed'[d] = mailed[d]
      BY <1>1, <2>3, <3>1 DEF MailStep, MailOutcome, TypeInv, TypeOK
    <3>3. \A b \in Advancers : pc'[b] = "mail" => pc[b] = "mail" /\ cur'[b] = cur[b]
      BY <1>1, <2>3 DEF MailStep, Release, HandledRest, Resting, TypeInv, TypeOK
    <3> QED
      BY <3>1, <3>2, <3>3 DEF Quiet
  <2>4. CASE Tick \/ (\E v \in Users : Unsubscribe(v)) \/ (\E s \in Stories : Purge(s)) \/ ResetTenant
             \/ UNCHANGED vars
    BY <2>4 DEF Tick, Unsubscribe, Purge, ResetTenant, vars, envVars, startVars, actorVars, Quiet
  <2> QED
    BY <1>1, <2>1, <2>2, <2>3, <2>4 DEF Next, AdvanceNext
<1>2. TypeInv /\ [Next]_vars => [\A u \in Users : StaysQuiet(u)]_vars
  BY <1>1
<1> QED
  BY <1>2, TypeInit, TypeStep, PTL DEF Spec, UnsubscribedUsersFallSilent

--------------------------------------------------------------------------------
(* Waits *)

\* A row, or a snapshot of one, carries the wait of the enactment it is at.
WaitOfPlace(row) == row.wait = Acts[row.story][row.idx + 1].wait

RowsCarryWaits ==
    \A d \in Commands : session[d].status # "none" => WaitOfPlace(session[d])

\* The snapshots an actor may still claim a step on.
Holds(a, s) == s \in batch[a] \/ (pc[a] = "claim" /\ s = cur[a])

\* A snapshot is of a session that was inserted, and in its document.
SnapshotsCarryWaits ==
    \A a \in Advancers : \A s \in Snapshots : Holds(a, s) =>
        /\ session[s.sid].status # "none"
        /\ s.row.story = session[s.sid].story
        /\ WaitOfPlace(s.row)

\* What a sweep or hook pass works off was overdue when it was read.
SnapshotsAreRipe ==
    \A a \in Sweepers \cup Hooks : pc[a] # "rewind" =>
        \A s \in Snapshots : Holds(a, s) => now >= s.row.sentAt + s.row.wait

WaitInv == RowsCarryWaits /\ SnapshotsCarryWaits /\ SnapshotsAreRipe

\* Nobody holds a snapshot to begin with.
LEMMA WaitInit == Init => WaitInv
<1> SUFFICES ASSUME Init PROVE WaitInv
  OBVIOUS
<1>1. \A d \in Commands : session[d].status = "none"
  BY DEF Init, NoRow
<1>2. \A a \in Advancers : batch[a] = {} /\ pc[a] = "idle"
  BY DEF Init
<1> QED
  BY <1>1, <1>2 DEF WaitInv, RowsCarryWaits, SnapshotsCarryWaits, SnapshotsAreRipe, Holds, Advancers

\* A row keeps its place when neither its document, position nor wait change.
SamePlaces ==
    \A d \in Commands :
        /\ session[d].status = "none" <=> session'[d].status = "none"
        /\ session'[d].story = session[d].story
        /\ session'[d].idx = session[d].idx
        /\ session'[d].wait = session[d].wait

\* Changing the status of sessions that were inserted leaves them in place.
LEMMA StatusKeepsPlaces ==
    ASSUME session \in [Commands -> Rows], NEW st \in Statuses, st # "none",
           \A e \in Commands : \/ session'[e] = session[e]
                               \/ session[e].status # "none"
                                  /\ session'[e] = [session[e] EXCEPT !.status = st]
    PROVE  SamePlaces
<1> SUFFICES ASSUME NEW e \in Commands
             PROVE  /\ session[e].status = "none" <=> session'[e].status = "none"
                    /\ session'[e].story = session[e].story
                    /\ session'[e].idx = session[e].idx
                    /\ session'[e].wait = session[e].wait
  BY DEF SamePlaces
<1>1. session[e] \in Rows
  OBVIOUS
<1> DEFINE new == [session[e] EXCEPT !.status = st]
<1>2. /\ new.status = st
      /\ new.story = session[e].story
      /\ new.idx = session[e].idx
      /\ new.wait = session[e].wait
  BY <1>1, WithStatusType
<1>3. session'[e] = session[e] \/ (session[e].status # "none" /\ session'[e] = new)
  OBVIOUS
<1> HIDE DEF new
<1> QED
  BY <1>2, <1>3

\* A step that keeps the places, takes no new snapshot and does not turn the
\* clock back keeps the waits.
LEMMA WaitKept ==
    ASSUME TypeInv, WaitInv, SamePlaces, now' \in Nat, now' >= now,
           \A a \in Advancers : \A s \in Snapshots :
               Holds(a, s)' => Holds(a, s) /\ (pc'[a] = "rewind" <=> pc[a] = "rewind")
    PROVE  WaitInv'
<1>1. RowsCarryWaits'
  BY DEF WaitInv, RowsCarryWaits, WaitOfPlace, SamePlaces
<1>2. SnapshotsCarryWaits'
  <2> SUFFICES ASSUME NEW a \in Advancers, NEW s \in Snapshots, Holds(a, s)'
               PROVE  /\ session'[s.sid].status # "none"
                      /\ s.row.story = session'[s.sid].story
                      /\ WaitOfPlace(s.row)
    BY DEF SnapshotsCarryWaits, WaitOfPlace
  <2>1. s.sid \in Commands
    BY DEF Snapshots
  <2> QED
    BY <2>1 DEF WaitInv, SnapshotsCarryWaits, SamePlaces
<1>3. SnapshotsAreRipe'
  <2> SUFFICES ASSUME NEW a \in Sweepers \cup Hooks, pc'[a] # "rewind",
                      NEW s \in Snapshots, Holds(a, s)'
               PROVE  now' >= s.row.sentAt + s.row.wait
    BY DEF SnapshotsAreRipe
  <2>1. now >= s.row.sentAt + s.row.wait
    BY DEF WaitInv, SnapshotsAreRipe, Advancers
  <2>2. now \in Nat /\ s.row.sentAt \in Int /\ s.row.wait \in Nat
    BY DEF TypeInv, TypeOK, Snapshots, Rows
  <2> QED
    BY <2>1, <2>2
<1> QED
  BY <1>1, <1>2, <1>3 DEF WaitInv

\* Putting a row of a document at a step, in a session that has that document or
\* had no row, keeps the waits of the rows.
LEMMA PlacingKeepsWaits ==
    ASSUME TypeInv, WaitInv, NEW d \in Commands, NEW st \in Statuses,
           NEW t \in Stories, NEW i \in Nat, Mailable(t, i),
           st # "none",
           session' = [session EXCEPT ![d] = AtStep(st, t, i)],
           session[d].status = "none" \/ session[d].story = t,
           now' = now, batch' = batch,
           \A a \in Advancers : \A s \in Snapshots :
               Holds(a, s)' => Holds(a, s) /\ (pc'[a] = "rewind" <=> pc[a] = "rewind")
    PROVE  WaitInv'
<1> DEFINE new == AtStep(st, t, i)
<1>1. /\ new.status = st /\ new.story = t /\ new.idx = i
      /\ new.wait = Acts[t][i + 1].wait
  BY AtStepType DEF TypeInv, TypeOK
<1>2. session' = [session EXCEPT ![d] = new] /\ session \in [Commands -> Rows]
  BY DEF TypeInv, TypeOK
<1> HIDE DEF new
<1>3. RowsCarryWaits'
  BY <1>1, <1>2 DEF WaitInv, RowsCarryWaits, WaitOfPlace
<1>4. SnapshotsCarryWaits'
  <2> SUFFICES ASSUME NEW a \in Advancers, NEW s \in Snapshots, Holds(a, s)'
               PROVE  /\ session'[s.sid].status # "none"
                      /\ s.row.story = session'[s.sid].story
                      /\ WaitOfPlace(s.row)
    BY DEF SnapshotsCarryWaits, WaitOfPlace
  <2>1. s.sid \in Commands
    BY DEF Snapshots
  <2>2. /\ session[s.sid].status # "none"
        /\ s.row.story = session[s.sid].story
        /\ WaitOfPlace(s.row)
    BY DEF WaitInv, SnapshotsCarryWaits
  <2> QED
    BY <1>1, <1>2, <2>1, <2>2
<1>5. SnapshotsAreRipe'
  <2> SUFFICES ASSUME NEW a \in Sweepers \cup Hooks, pc'[a] # "rewind",
                      NEW s \in Snapshots, Holds(a, s)'
               PROVE  now >= s.row.sentAt + s.row.wait
    BY DEF SnapshotsAreRipe
  <2> QED
    BY DEF WaitInv, SnapshotsAreRipe, Advancers
<1> QED
  BY <1>3, <1>4, <1>5 DEF WaitInv

\* A pass that starts on the expired sessions holds ripe snapshots.
LEMMA ReadingIsRipe ==
    ASSUME TypeInv, WaitInv, NEW a \in Advancers, ReadExpired(a)
    PROVE  WaitInv'
<1>1. /\ UNCHANGED <<session, now, cur>>
      /\ batch' = [batch EXCEPT ![a] = Expired]
      /\ \A b \in Advancers : b # a => pc'[b] = pc[b]
      /\ pc'[a] # "claim"
      /\ pc'[a] # "rewind"
  BY DEF ReadExpired, HandledRest, Resting, envVars, TypeInv, TypeOK
<1>2. \A s \in Expired : /\ s \in Snapshots
                        /\ session[s.sid].status # "none"
                        /\ s.row = session[s.sid]
                        /\ now >= s.row.sentAt + s.row.wait
  BY DEF Expired, Snapshot, Snapshots, Active, Overdue, TypeInv, TypeOK
<1>3. \A b \in Advancers : \A s \in Snapshots :
        Holds(b, s)' => IF b = a THEN s \in Expired ELSE Holds(b, s) /\ pc'[b] = pc[b]
  BY <1>1 DEF Holds, TypeInv, TypeOK
<1>4. RowsCarryWaits'
  BY <1>1 DEF WaitInv, RowsCarryWaits, WaitOfPlace
<1>5. SnapshotsCarryWaits'
  <2> SUFFICES ASSUME NEW b \in Advancers, NEW s \in Snapshots, Holds(b, s)'
               PROVE  /\ session[s.sid].status # "none"
                      /\ s.row.story = session[s.sid].story
                      /\ WaitOfPlace(s.row)
    BY <1>1 DEF SnapshotsCarryWaits, WaitOfPlace
  <2>1. s.sid \in Commands
    BY DEF Snapshots
  <2> QED
    BY <1>2, <1>3, <2>1 DEF WaitInv, RowsCarryWaits, SnapshotsCarryWaits
<1>6. SnapshotsAreRipe'
  <2> SUFFICES ASSUME NEW b \in Sweepers \cup Hooks, pc'[b] # "rewind",
                      NEW s \in Snapshots, Holds(b, s)'
               PROVE  now >= s.row.sentAt + s.row.wait
    BY <1>1 DEF SnapshotsAreRipe
  <2> QED
    BY <1>2, <1>3 DEF WaitInv, SnapshotsAreRipe, Advancers
<1> QED
  BY <1>4, <1>5, <1>6 DEF WaitInv

\* A read that is not a pass: the tick hook's before it rewinds, a click's.
LEMMA ReadingCarriesWaits ==
    ASSUME TypeInv, WaitInv, NEW a \in Advancers, NEW new \in SUBSET Snapshots,
           batch' = [batch EXCEPT ![a] = new],
           UNCHANGED <<session, now, cur>>,
           \A b \in Advancers : b # a => pc'[b] = pc[b],
           pc'[a] # "claim",
           a \in Sweepers \cup Hooks => pc'[a] = "rewind",
           \A s \in new : /\ session[s.sid].status # "none"
                          /\ s.row.story = session[s.sid].story
                          /\ WaitOfPlace(s.row)
    PROVE  WaitInv'
<1>1. \A b \in Advancers : \A s \in Snapshots :
        Holds(b, s)' => IF b = a THEN s \in new ELSE Holds(b, s) /\ pc'[b] = pc[b]
  BY DEF Holds, TypeInv, TypeOK
<1>2. RowsCarryWaits'
  BY DEF WaitInv, RowsCarryWaits, WaitOfPlace
<1>3. SnapshotsCarryWaits'
  <2> SUFFICES ASSUME NEW b \in Advancers, NEW s \in Snapshots, Holds(b, s)'
               PROVE  /\ session[s.sid].status # "none"
                      /\ s.row.story = session[s.sid].story
                      /\ WaitOfPlace(s.row)
    BY DEF SnapshotsCarryWaits, WaitOfPlace
  <2> QED
    BY <1>1 DEF WaitInv, SnapshotsCarryWaits
<1>4. SnapshotsAreRipe'
  <2> SUFFICES ASSUME NEW b \in Sweepers \cup Hooks, pc'[b] # "rewind",
                      NEW s \in Snapshots, Holds(b, s)'
               PROVE  now >= s.row.sentAt + s.row.wait
    BY DEF SnapshotsAreRipe
  <2> QED
    BY <1>1 DEF WaitInv, SnapshotsAreRipe, Advancers
<1> QED
  BY <1>2, <1>3, <1>4 DEF WaitInv

\* Every step keeps the waits.
LEMMA WaitStep == TypeInv /\ MailInv /\ WaitInv /\ [Next]_vars => WaitInv'
<1> SUFFICES ASSUME TypeInv, MailInv, WaitInv, [Next]_vars PROVE WaitInv'
  OBVIOUS
<1>0. now \in Nat /\ session \in [Commands -> Rows]
  BY DEF TypeInv, TypeOK
<1>1. ASSUME NEW d \in Commands, StartAuthorize(d) \/ StartMail(d) \/ CrashStart(d) PROVE WaitInv'
  BY <1>0, <1>1, WaitKept DEF StartAuthorize, StartMail, CrashStart, SamePlaces, Holds, envVars, actorVars
<1>2. ASSUME NEW d \in Commands, StartInsert(d) PROVE WaitInv'
  <2>1. UNCHANGED <<now, batch, pc, cur>>
    BY <1>2 DEF StartInsert, envVars, actorVars
  <2>2. CASE KeyTaken(KeyOf[d])
    BY <1>0, <1>2, <2>1, <2>2, WaitKept DEF StartInsert, SamePlaces, Holds
  <2>3. CASE ~KeyTaken(KeyOf[d])
    <3>1. session' = [session EXCEPT ![d] = AtStep("active", draft[d], 0)]
      BY <1>2, <2>3 DEF StartInsert
    <3>2. draft[d] \in Stories /\ Mailable(draft[d], 0) /\ session[d].status = "none"
      BY <1>2 DEF StartInsert, TypeInv, DraftsReady, MailInv, NotInserted
    <3> QED
      BY <2>1, <3>1, <3>2, PlacingKeepsWaits DEF Statuses, Holds
  <2> QED
    BY <2>2, <2>3
<1>3. ASSUME NEW d \in Commands, StartSupersede(d) PROVE WaitInv'
  <2>1. \A e \in Commands : \/ session'[e] = session[e]
                            \/ session[e].status # "none"
                               /\ session'[e] = [session[e] EXCEPT !.status = "superseded"]
    BY <1>3 DEF StartSupersede, OtherRuns, Active
  <2>2. SamePlaces
    BY <1>0, <2>1, StatusKeepsPlaces DEF Statuses
  <2> QED
    BY <1>0, <1>3, <2>2, WaitKept DEF StartSupersede, Holds, envVars, actorVars
<1>4. ASSUME NEW a \in Advancers, SweepRead(a) \/ HookSweep(a) PROVE WaitInv'
  BY <1>4, ReadingIsRipe DEF SweepRead, HookSweep
<1>5. ASSUME NEW a \in Advancers, HookRead(a) PROVE WaitInv'
  <2>1. PICK us \in {Users} \cup {{u} : u \in Users} :
          batch' = [batch EXCEPT ![a] =
                     {Snapshot(d) : d \in {e \in Commands : Active(e) /\ UserOf[e] \in us}}]
    BY <1>5 DEF HookRead
  <2> DEFINE new == {Snapshot(d) : d \in {e \in Commands : Active(e) /\ UserOf[e] \in us}}
  <2>2. \A s \in new : /\ s \in Snapshots
                       /\ session[s.sid].status # "none"
                       /\ s.row.story = session[s.sid].story
                       /\ WaitOfPlace(s.row)
    BY <1>0 DEF Snapshot, Snapshots, Active, WaitInv, RowsCarryWaits
  <2>3. batch' = [batch EXCEPT ![a] = new]
    BY <2>1
  <2> HIDE DEF new
  <2>4. pc' = [pc EXCEPT ![a] = "rewind"] /\ UNCHANGED <<session, now, cur>>
    BY <1>5 DEF HookRead, envVars
  <2>5. pc \in [Advancers -> {"idle", "rewind", "sweep", "claim", "authorize", "mail", "done"}]
    BY DEF TypeInv, TypeOK
  <2> QED
    BY <2>2, <2>3, <2>4, <2>5, ReadingCarriesWaits
<1>6. ASSUME NEW a \in Advancers, ClickFind(a) PROVE WaitInv'
  <2>1. PICK d \in Commands :
          LET row == session[d]
              action == Acts[row.story][row.idx + 1].onClick IN
          /\ Active(d)
          /\ row.story \in stories
          /\ row.idx < Len(Acts[row.story])
          /\ action # None
          /\ batch' = [batch EXCEPT ![a] =
                         {[sid |-> d, row |-> [row EXCEPT !.next = action]]}]
    BY <1>6 DEF ClickFind
  <2> DEFINE row == session[d]
             action == Acts[row.story][row.idx + 1].onClick
             snap == [sid |-> d, row |-> [row EXCEPT !.next = action]]
  <2>2. row \in Rows /\ row.story \in Stories /\ row.idx \in Nat
    BY <2>1 DEF TypeInv, TypeOK, Rows, Positions
  <2>3. action \in ActionNames
    <3>1. Acts[row.story][row.idx + 1] \in Enactments
      BY <2>1, <2>2, ConstantsOK DEF ConstantsOK
    <3> QED
      BY <2>1, <3>1 DEF Enactments
  <2>4. /\ snap \in Snapshots
        /\ session[snap.sid].status # "none"
        /\ snap.row.story = session[snap.sid].story
        /\ WaitOfPlace(snap.row)
    BY <2>1, <2>2, <2>3 DEF Snapshots, Rows, Active, WaitInv, RowsCarryWaits, WaitOfPlace
  <2>5. batch' = [batch EXCEPT ![a] = {snap}]
    BY <2>1
  <2> HIDE DEF snap
  <2>6. /\ pc' = [pc EXCEPT ![a] = "sweep"]
        /\ UNCHANGED <<session, now, cur>>
        /\ a \notin Sweepers \cup Hooks
    BY <1>6, ConstantsOK DEF ClickFind, envVars, ConstantsOK
  <2>7. pc \in [Advancers -> {"idle", "rewind", "sweep", "claim", "authorize", "mail", "done"}]
    BY DEF TypeInv, TypeOK
  <2>8. {snap} \in SUBSET Snapshots
    BY <2>4
  <2> QED
    BY <2>4, <2>5, <2>6, <2>7, <2>8, ReadingCarriesWaits
<1>7. ASSUME NEW a \in Advancers, HookRewind(a) PROVE WaitInv'
  <2>1. PICK s \in batch[a] :
         /\ session' = IF Exists(s.sid)
                       THEN [session EXCEPT ![s.sid].sentAt = s.row.sentAt - Rewind]
                       ELSE session
         /\ batch' = [batch EXCEPT ![a] = @ \ {s}]
    BY <1>7 DEF HookRewind
  <2>2. \A e \in Commands : \/ session'[e] = session[e]
                            \/ session'[e] = [session[e] EXCEPT !.sentAt = s.row.sentAt - Rewind]
    BY <1>0, <2>1
  <2>3. SamePlaces
    BY ZenonT(60), <1>0, <2>2 DEF SamePlaces, Rows
  <2>4. \A b \in Advancers : batch'[b] \subseteq batch[b]
    BY <2>1 DEF TypeInv, TypeOK
  <2> QED
    BY <1>0, <1>7, <2>3, <2>4, WaitKept DEF HookRewind, Holds, envVars
<1>8. ASSUME NEW a \in Advancers, HandleSnapshot(a) PROVE WaitInv'
  <2>1. PICK s \in batch[a] : CompleteRun(a, s) \/ SkipRun(a, s) \/ PrepareStep(a, s)
    BY <1>8 DEF HandleSnapshot
  <2>2. pc[a] = "sweep" /\ now' = now
    BY <1>8 DEF HandleSnapshot, CompleteRun, SkipRun, PrepareStep, envVars
  <2>3. SamePlaces
    <3>1. \A e \in Commands : \/ session'[e] = session[e]
                              \/ session[e].status # "none"
                                 /\ session'[e] = [session[e] EXCEPT !.status = "completed"]
      BY <1>0, <2>1 DEF CompleteRun, SkipRun, PrepareStep, Exists
    <3> QED
      BY <1>0, <3>1, StatusKeepsPlaces DEF Statuses
  <2>4. \A b \in Advancers : \A r \in Snapshots :
          Holds(b, r)' => Holds(b, r) /\ (pc'[b] = "rewind" <=> pc[b] = "rewind")
    <3>1. CASE CompleteRun(a, s) \/ SkipRun(a, s)
      BY <2>2, <3>1 DEF CompleteRun, SkipRun, HandledRest, Resting, Holds, TypeInv, TypeOK
    <3>2. CASE PrepareStep(a, s)
      BY <2>2, <3>2 DEF PrepareStep, Holds, TypeInv, TypeOK
    <3> QED
      BY <2>1, <3>1, <3>2
  <2> QED
    BY <1>0, <2>2, <2>3, <2>4, WaitKept
<1>9. ASSUME NEW a \in Advancers, ClaimStep(a) PROVE WaitInv'
  <2> DEFINE s == cur[a]
  <2>1. /\ s \in Snapshots /\ s.sid \in Commands /\ s.row.story \in Stories
        /\ s.row.idx + 1 \in Nat /\ Mailable(s.row.story, s.row.idx + 1)
    BY <1>9 DEF ClaimStep, TypeInv, StepsReady, Snapshots, Rows, Positions
  <2>2. /\ \A b \in Advancers : \A r \in Snapshots :
             Holds(b, r)' => Holds(b, r) /\ (pc'[b] = "rewind" <=> pc[b] = "rewind")
        /\ now' = now /\ batch' = batch
    BY <1>9 DEF ClaimStep, Release, HandledRest, Resting, Holds, envVars, TypeInv, TypeOK
  <2>3. CASE Pinned(s)
    <3>1. session' = [session EXCEPT ![s.sid] =
                        AtStep(session[s.sid].status, s.row.story, s.row.idx + 1)]
      BY <1>9, <2>3 DEF ClaimStep
    <3>2. session[s.sid].status = "active" /\ session[s.sid].story = s.row.story
      BY <1>9, <2>1, <2>3 DEF ClaimStep, Pinned, Holds, WaitInv, SnapshotsCarryWaits
    <3> QED
      BY <2>1, <2>2, <3>1, <3>2, PlacingKeepsWaits DEF Statuses
  <2>4. CASE ~Pinned(s)
    <3>1. SamePlaces
      BY <1>9, <2>4 DEF ClaimStep, SamePlaces
    <3> QED
      BY <1>0, <2>2, <3>1, WaitKept
  <2> QED
    BY <2>3, <2>4
<1>10. ASSUME NEW a \in Advancers, AuthorizeStep(a) \/ MailStep(a) \/ CrashAdvancer(a) PROVE WaitInv'
  <2>1. now' = now /\ session' = session
    BY <1>10 DEF AuthorizeStep, MailStep, CrashAdvancer, envVars
  <2>2. \A b \in Advancers : \A r \in Snapshots :
          Holds(b, r)' => Holds(b, r) /\ (pc'[b] = "rewind" <=> pc[b] = "rewind")
    BY <1>10 DEF AuthorizeStep, MailStep, CrashAdvancer, Release, HandledRest, Resting, Holds, TypeInv, TypeOK
  <2> QED
    BY <1>0, <2>1, <2>2, WaitKept DEF SamePlaces
<1>11. CASE Tick \/ (\E u \in Users : Unsubscribe(u)) \/ ResetTenant \/ UNCHANGED vars
  BY <1>0, <1>11, WaitKept DEF Tick, Unsubscribe, ResetTenant, vars, SamePlaces, Holds, actorVars
<1>12. ASSUME NEW t \in Stories, Purge(t) PROVE WaitInv'
  <2>1. \A e \in Commands : \/ session'[e] = session[e]
                            \/ session[e].status # "none"
                               /\ session'[e] = [session[e] EXCEPT !.status = "purged"]
    BY <1>12 DEF Purge, Exists
  <2>2. SamePlaces
    BY <1>0, <2>1, StatusKeepsPlaces DEF Statuses
  <2> QED
    BY <1>0, <1>12, <2>2, WaitKept DEF Purge, Holds, envVars, actorVars
<1> QED
  BY <1>1, <1>2, <1>3, <1>4, <1>5, <1>6, <1>7, <1>8, <1>9, <1>10, <1>11, <1>12
     DEF Next, StartNext, AdvanceNext

\* A pass that claims a step does so no earlier than the wait the session is at,
\* however long ago it read the row and the clock.
THEOREM WaitsAreHonoured == Spec => SweepHonoursWait
<1>1. ASSUME TypeInv, WaitInv, [Next]_vars, NEW a \in Sweepers \cup Hooks
      PROVE  ClaimsInTime(a)
  <2> SUFFICES ASSUME pc[a] = "claim", pc'[a] = "authorize"
               PROVE  now >= session[cur[a].sid].sentAt + session[cur[a].sid].wait
    BY DEF ClaimsInTime
  <2> DEFINE s == cur[a]
  <2>1. a \in Advancers /\ pc \in [Advancers -> {"idle", "rewind", "sweep", "claim", "authorize", "mail", "done"}]
    BY <1>1 DEF TypeInv, TypeOK, Advancers
  <2>2. Pinned(s)
    <3>1. ASSUME NEW b \in Advancers, HandleSnapshot(b) PROVE pc'[a] # "authorize"
      BY <2>1, <3>1 DEF HandleSnapshot, CompleteRun, SkipRun, PrepareStep, HandledRest, Resting
    <3>2. ASSUME NEW b \in Advancers, ClaimStep(b) PROVE b = a /\ Pinned(s)
      BY <2>1, <3>2 DEF ClaimStep, Release, HandledRest, Resting
    <3>3. ASSUME NEW b \in Advancers, AuthorizeStep(b) \/ MailStep(b) \/ CrashAdvancer(b)
          PROVE  pc'[a] # "authorize"
      BY <2>1, <3>3 DEF AuthorizeStep, MailStep, CrashAdvancer, Release, HandledRest, Resting
    <3>4. ASSUME NEW b \in Advancers,
                 SweepRead(b) \/ ClickFind(b) \/ HookRead(b) \/ HookRewind(b) \/ HookSweep(b)
          PROVE  pc'[a] # "authorize"
      BY <2>1, <3>4 DEF SweepRead, ClickFind, HookRead, HookRewind, HookSweep, ReadExpired, HandledRest, Resting
    <3>5. ASSUME NEW d \in Commands, StartNext(d) \/ CrashStart(d) PROVE pc' = pc
      BY <3>5 DEF StartNext, StartAuthorize, StartInsert, StartSupersede, StartMail, CrashStart, actorVars
    <3>6. ASSUME \/ Tick \/ ResetTenant \/ UNCHANGED vars
                 \/ \E u \in Users : Unsubscribe(u)
                 \/ \E t \in Stories : Purge(t)
          PROVE  pc' = pc
      BY <3>6 DEF Tick, ResetTenant, vars, Unsubscribe, Purge, actorVars
    <3> QED
      BY <1>1, <3>1, <3>2, <3>3, <3>4, <3>5, <3>6 DEF Next, AdvanceNext
  <2>3. s \in Snapshots /\ Holds(a, s)
    BY <1>1, <2>1 DEF TypeInv, StepsReady, Holds
  <2>4. /\ now >= s.row.sentAt + s.row.wait
        /\ s.row.story = session[s.sid].story
        /\ WaitOfPlace(s.row)
        /\ WaitOfPlace(session[s.sid])
    BY <1>1, <2>1, <2>2, <2>3
       DEF WaitInv, SnapshotsAreRipe, SnapshotsCarryWaits, RowsCarryWaits, Pinned, Snapshots
  <2> QED
    BY <2>2, <2>4 DEF Pinned, WaitOfPlace
<1>2. TypeInv /\ WaitInv /\ [Next]_vars => [\A a \in Sweepers \cup Hooks : ClaimsInTime(a)]_vars
  BY <1>1
<1> QED
  BY <1>2, TypeInit, TypeStep, MailInit, MailStepKeeps, WaitInit, WaitStep, PTL DEF Spec, SweepHonoursWait

--------------------------------------------------------------------------------
(* The enrollment promise *)

\* A session that was not inserted is at the first step.
FreshAtZero == \A d \in Commands : session[d].status = "none" => session[d].idx = 0

\* Sessions start at the first step, wherever they are not yet.
LEMMA FreshInit == Init => FreshAtZero
  BY DEF Init, FreshAtZero, NoRow

\* A session that has no row is not written, but by the insert that creates it.
LEMMA FreshStep == TypeInv /\ FreshAtZero /\ [Next]_vars => FreshAtZero'
<1> SUFFICES ASSUME TypeInv, FreshAtZero, [Next]_vars, NEW d \in Commands, session'[d].status = "none"
             PROVE  session'[d].idx = 0
  BY DEF FreshAtZero
<1>1. session[d] \in Rows /\ session \in [Commands -> Rows]
  BY DEF TypeInv, TypeOK
<1>2. (session'[d].status = session[d].status /\ session'[d].idx = session[d].idx) => session'[d].idx = 0
  BY DEF FreshAtZero
<1>3. ASSUME NEW e \in Commands, StartNext(e) \/ CrashStart(e) PROVE session'[d].idx = 0
  <2>1. CASE StartInsert(e)
    <3>1. session'[d] = session[d] \/ session'[d] = AtStep("active", draft[d], 0)
      BY <1>1, <2>1 DEF StartInsert
    <3> QED
      BY <1>2, <3>1 DEF AtStep
  <2>2. CASE StartSupersede(e)
    BY <1>1, <1>2, <2>2 DEF StartSupersede, Rows
  <2>3. CASE StartAuthorize(e) \/ StartMail(e) \/ CrashStart(e)
    BY <1>2, <2>3 DEF StartAuthorize, StartMail, CrashStart
  <2> QED
    BY <1>3, <2>1, <2>2, <2>3 DEF StartNext
<1>4. ASSUME NEW a \in Advancers, NEW s \in batch[a], CompleteRun(a, s) \/ SkipRun(a, s) \/ PrepareStep(a, s)
      PROVE  session'[d].idx = 0
  <2>1. session'[d] = session[d] \/ session'[d] = [session[d] EXCEPT !.status = "completed"]
    BY <1>1, <1>4 DEF CompleteRun, SkipRun, PrepareStep
  <2> QED
    BY <1>1, <1>2, <2>1 DEF Rows
<1>5. ASSUME NEW a \in Advancers, ClaimStep(a) PROVE session'[d].idx = 0
  <2> DEFINE new == AtStep(session[d].status, cur[a].row.story, cur[a].row.idx + 1)
  <2>1. session'[d] = session[d] \/ (session[d].status = "active" /\ session'[d] = new)
    BY <1>1, <1>5 DEF ClaimStep, Pinned
  <2> QED
    BY <1>2, <2>1 DEF AtStep
<1>6. ASSUME NEW a \in Advancers, HookRewind(a) PROVE session'[d].idx = 0
  <2>1. PICK s \in batch[a] : session' = [session EXCEPT ![s.sid].sentAt = s.row.sentAt - Rewind] \/ session' = session
    BY <1>6 DEF HookRewind
  <2>2. session'[d] = session[d] \/ session'[d] = [session[d] EXCEPT !.sentAt = s.row.sentAt - Rewind]
    BY <1>1, <2>1
  <2> QED
    BY <1>1, <1>2, <2>2 DEF Rows
<1>7. ASSUME NEW a \in Advancers,
             SweepRead(a) \/ ClickFind(a) \/ HookRead(a) \/ HookSweep(a) \/ AuthorizeStep(a)
             \/ MailStep(a) \/ CrashAdvancer(a)
      PROVE  session'[d].idx = 0
  BY <1>2, <1>7 DEF SweepRead, ClickFind, HookRead, HookSweep, ReadExpired, AuthorizeStep, MailStep,
                    CrashAdvancer
<1>8. ASSUME NEW s \in Stories, Purge(s) PROVE session'[d].idx = 0
  BY <1>1, <1>2, <1>8 DEF Purge, Rows
<1>9. CASE Tick \/ (\E u \in Users : Unsubscribe(u)) \/ ResetTenant \/ UNCHANGED vars
  BY <1>2, <1>9 DEF Tick, Unsubscribe, ResetTenant, vars
<1> QED
  BY <1>3, <1>4, <1>5, <1>6, <1>7, <1>8, <1>9 DEF Next, AdvanceNext, HandleSnapshot

\* The enrollment as it shows in the engine.
Runs == [d \in Commands |-> session[d].status]
Places == [d \in Commands |-> session[d].idx]
Mails == {r \in Commands \X Positions : mailed[r[1]][r[2]] > 0}

\* Who holds a right to mail, and which.
Starting == {d \in Commands : starter[d] \in {"supersede", "mail"}}
Advancing == {a \in Advancers : pc[a] \in {"authorize", "mail"}}
RightOf(a) == <<cur[a].sid, cur[a].row.idx + 1>>

LEMMA HoldersAre == Holders = {<<d, 0>> : d \in Starting} \cup {RightOf(a) : a \in Advancing}
  BY DEF Holders, Starting, Advancing, RightOf

\* The same holders hold the same rights.
LEMMA HoldersStay ==
    ASSUME Starting' = Starting, Advancing' = Advancing,
           \A a \in Advancing : RightOf(a)' = RightOf(a)
    PROVE  Holders' = Holders
<1>1. Holders' = {<<d, 0>> : d \in Starting'} \cup {RightOf(a)' : a \in Advancing'}
  BY DEF Holders, Starting, Advancing, RightOf
<1> QED
  BY <1>1, HoldersAre

\* An advancer's right is of a step after the first one, and its own.
LEMMA RightsAreSteps ==
    ASSUME TypeInv, NEW a \in Advancing
    PROVE  /\ cur[a].sid \in Commands /\ cur[a].row.idx + 1 \in Positions
           /\ RightOf(a) \in Commands \X Positions
           /\ \A d \in Commands : RightOf(a) # <<d, 0>>
<1>1. a \in Advancers /\ cur[a] \in Snapshots /\ cur[a].row.story \in Stories
      /\ Mailable(cur[a].row.story, cur[a].row.idx + 1)
  BY DEF TypeInv, StepsReady, Advancing
<1>2. cur[a].sid \in Commands /\ cur[a].row.idx \in Nat
  BY <1>1 DEF Snapshots, Rows, Positions
<1>3. cur[a].row.idx + 1 \in Positions /\ cur[a].row.idx + 1 # 0
  BY <1>1, <1>2, MailableStep
<1> QED
  BY <1>2, <1>3 DEF RightOf

LEMMA RightsDiffer ==
    ASSUME TypeInv, MailInv, NEW a \in Advancing, NEW b \in Advancing, a # b
    PROVE  RightOf(a) # RightOf(b)
<1>1. cur[a].row.idx \in Nat /\ cur[b].row.idx \in Nat
  BY DEF TypeInv, StepsReady, Advancing, Snapshots, Rows, Positions
<1>2. cur[a].sid = cur[b].sid => cur[a].row.idx # cur[b].row.idx
  BY DEF MailInv, ClaimsDiffer, Advancing
<1> QED
  BY <1>1, <1>2 DEF RightOf

\* A holder that stops holding takes its right with it.
LEMMA StarterLetsGo ==
    ASSUME TypeInv, NEW d \in Starting, Starting' = Starting \ {d}, Advancing' = Advancing,
           \A a \in Advancing : RightOf(a)' = RightOf(a)
    PROVE  Holders' = Holders \ {<<d, 0>>} /\ <<d, 0>> \in Holders /\ <<d, 0>> \in Commands \X Positions
<1>1. Holders' = {<<e, 0>> : e \in Starting'} \cup {RightOf(a)' : a \in Advancing'}
  BY DEF Holders, Starting, Advancing, RightOf
<1>2. d \in Commands /\ \A a \in Advancing : RightOf(a) # <<d, 0>>
  BY RightsAreSteps DEF Starting
<1>3. \A e : <<e, 0>> = <<d, 0>> => e = d
  OBVIOUS
<1> QED
  BY <1>1, <1>2, <1>3, HoldersAre, ZeroIsAPosition

LEMMA AdvancerLetsGo ==
    ASSUME TypeInv, MailInv, NEW a \in Advancing, Starting' = Starting, Advancing' = Advancing \ {a},
           \A b \in Advancing \ {a} : RightOf(b)' = RightOf(b)
    PROVE  Holders' = Holders \ {RightOf(a)} /\ RightOf(a) \in Holders /\ RightOf(a) \in Commands \X Positions
<1>1. Holders' = {<<e, 0>> : e \in Starting'} \cup {RightOf(b)' : b \in Advancing'}
  BY DEF Holders, Starting, Advancing, RightOf
<1>2. {RightOf(b)' : b \in Advancing'} = {RightOf(b) : b \in Advancing \ {a}}
  OBVIOUS
<1>3. RightOf(a) \in Commands \X Positions /\ \A d \in Starting : RightOf(a) # <<d, 0>>
  BY RightsAreSteps DEF Starting
<1>4. \A b \in Advancing \ {a} : RightOf(b) # RightOf(a)
  BY RightsDiffer
<1> QED
  BY <1>1, <1>2, <1>3, <1>4, HoldersAre

\* What no change of the enrollment looks like.
LEMMA Stutters ==
    ASSUME UNCHANGED <<Runs, Places, Holders, Mails>>
    PROVE  UNCHANGED Enrollment!vars
  BY DEF Enrollment!vars, Runs, Places, Mails

\* Letting go of a right, with its mail or without.
LEMMA Spends ==
    ASSUME NEW r \in Commands \X Positions, r \in Holders, Holders' = Holders \ {r},
           Mails' = Mails \/ Mails' = Mails \cup {r}, UNCHANGED <<Runs, Places>>
    PROVE  Enrollment!Next
<1>1. CASE Mails' = Mails
  <2>1. Enrollment!Drop(r)
    BY <1>1 DEF Enrollment!Drop, Runs, Places, Mails
  <2> QED
    BY <2>1 DEF Enrollment!Next, Enrollment!Rights
<1>2. CASE Mails' = Mails \cup {r}
  <2>1. Enrollment!Deliver(r)
    BY <1>2 DEF Enrollment!Deliver, Runs, Places, Mails
  <2> QED
    BY <2>1 DEF Enrollment!Next, Enrollment!Rights
<1> QED
  BY <1>1, <1>2

LEMMA Mailing ==
    ASSUME TypeOK, NEW d \in Commands, NEW i \in Positions, MailOutcome(d, i)
    PROVE  Mails' = Mails \/ Mails' = Mails \cup {<<d, i>>}
<1>1. mailed \in [Commands -> [Positions -> Nat]]
  BY DEF TypeOK
<1>2. CASE mailed' = mailed
  BY <1>2 DEF Mails
<1>3. CASE mailed' = [mailed EXCEPT ![d][i] = @ + 1]
  <2>1. \A e \in Commands, j \in Positions :
          mailed'[e][j] = IF e = d /\ j = i THEN mailed[e][j] + 1 ELSE mailed[e][j]
    BY <1>1, <1>3
  <2>2. \A e \in Commands, j \in Positions : mailed[e][j] \in Nat
    BY <1>1
  <2>3. \A e \in Commands, j \in Positions :
          mailed'[e][j] > 0 <=> mailed[e][j] > 0 \/ (e = d /\ j = i)
    BY <2>1, <2>2
  <2> QED
    BY <2>3 DEF Mails
<1> QED
  BY <1>2, <1>3 DEF MailOutcome

LEMMA SameSessions ==
    ASSUME UNCHANGED session
    PROVE  UNCHANGED <<Runs, Places>>
  BY DEF Runs, Places

LEMMA SameMails ==
    ASSUME UNCHANGED mailed
    PROVE  UNCHANGED Mails
  BY DEF Mails

\* A start command enrolls, supersedes the other runs, and spends its right.
LEMMA StartImplements ==
    ASSUME TypeInv, MailInv, FreshAtZero, NEW d \in Commands, StartNext(d) \/ CrashStart(d)
    PROVE  Enrollment!Next \/ UNCHANGED Enrollment!vars
<1>1. starter \in [Commands -> {"new", "insert", "supersede", "mail", "done"}] /\ session \in [Commands -> Rows]
  BY DEF TypeInv, TypeOK
<1>2. UNCHANGED <<pc, cur>> /\ \A e \in Commands \ {d} : starter'[e] = starter[e]
  BY <1>1 DEF StartNext, StartAuthorize, StartInsert, StartSupersede, StartMail, CrashStart, actorVars
<1>3. Advancing' = Advancing /\ \A a \in Advancing : RightOf(a)' = RightOf(a)
  BY <1>2 DEF Advancing, RightOf
<1>4. CASE starter[d] \in {"new", "insert"} /\ starter'[d] \in {"insert", "done"} /\ UNCHANGED <<session, mailed>>
  <2>1. Starting' = Starting
    BY <1>2, <1>4 DEF Starting
  <2> QED
    BY <1>3, <1>4, <2>1, HoldersStay, SameSessions, SameMails, Stutters
<1>5. CASE StartInsert(d) /\ ~KeyTaken(KeyOf[d])
  <2>1. /\ starter[d] = "insert" /\ starter'[d] = "supersede" /\ UNCHANGED mailed
        /\ session' = [session EXCEPT ![d] = AtStep("active", draft[d], 0)]
    BY <1>1, <1>5 DEF StartInsert
  <2>2. session[d].status = "none" /\ session[d].idx = 0
    BY <2>1 DEF MailInv, NotInserted, FreshAtZero
  <2>3. session'[d].status = "active" /\ session'[d].idx = 0 /\ \A e \in Commands \ {d} : session'[e] = session[e]
    BY <1>1, <2>1 DEF AtStep
  <2>4. Runs' = [Runs EXCEPT ![d] = "active"] /\ UNCHANGED Places
    BY <2>2, <2>3 DEF Runs, Places
  <2>5. Starting' = Starting \cup {d}
    BY <1>2, <2>1 DEF Starting
  <2>6. Holders' = Holders \cup {<<d, 0>>}
    <3>1. Holders' = {<<e, 0>> : e \in Starting'} \cup {RightOf(a)' : a \in Advancing'}
      BY DEF Holders, Starting, Advancing, RightOf
    <3>2. {RightOf(a)' : a \in Advancing'} = {RightOf(a) : a \in Advancing}
      BY <1>3
    <3> QED
      BY <2>5, <3>1, <3>2, HoldersAre
  <2>7. ~Enrollment!KeyTaken(KeyOf[d])
    BY <1>5 DEF Enrollment!KeyTaken, Enrollment!Exists, KeyTaken, Exists
  <2>8. Enrollment!Enroll(d)
    BY <2>1, <2>2, <2>4, <2>6, <2>7, SameMails DEF Enrollment!Enroll, Runs, Places, Mails
  <2> QED
    BY <2>8 DEF Enrollment!Next
<1>6. CASE StartSupersede(d)
  <2>1. UNCHANGED mailed /\ Starting' = Starting
    BY <1>1, <1>2, <1>6 DEF StartSupersede, Starting
  <2>2. UNCHANGED Places /\ Runs' = [e \in Commands |-> IF e \in OtherRuns(d) THEN "superseded" ELSE Runs[e]]
    BY <1>1, <1>6 DEF StartSupersede, Places, Runs, Rows
  <2>3. PICK S \in SUBSET Commands : S = OtherRuns(d)
    BY DEF OtherRuns
  <2>4. \A e \in S : Runs[e] = "active"
    BY <2>3 DEF OtherRuns, Active, Runs
  <2>5. Holders' = Holders
    BY <1>3, <2>1, HoldersStay
  <2>6. Enrollment!Supersede(S)
    BY <2>1, <2>2, <2>3, <2>4, <2>5, SameMails DEF Enrollment!Supersede, Runs, Places, Mails
  <2> QED
    BY <2>6 DEF Enrollment!Next
<1>7. CASE starter[d] \in {"supersede", "mail"} /\ starter'[d] = "done" /\ UNCHANGED session
           /\ (UNCHANGED mailed \/ MailOutcome(d, 0))
  <2>1. d \in Starting /\ Starting' = Starting \ {d}
    BY <1>2, <1>7 DEF Starting
  <2>2. Mails' = Mails \/ Mails' = Mails \cup {<<d, 0>>}
    BY <1>7, SameMails, Mailing, ZeroIsAPosition DEF TypeInv
  <2> QED
    BY <1>3, <1>7, <2>1, <2>2, StarterLetsGo, SameSessions, Spends
<1>8. CASE StartAuthorize(d)
  BY <1>1, <1>4, <1>8 DEF StartAuthorize
<1>9. CASE StartInsert(d) /\ KeyTaken(KeyOf[d])
  BY <1>1, <1>4, <1>9 DEF StartInsert
<1>10. CASE StartMail(d)
  BY <1>1, <1>7, <1>10 DEF StartMail
<1>11. CASE CrashStart(d)
  BY <1>1, <1>4, <1>7, <1>11 DEF CrashStart
<1> QED
  BY <1>5, <1>6, <1>8, <1>9, <1>10, <1>11 DEF StartNext

\* What an advancer does before its claim and after its mail is its own.
LEMMA BetweenClaims ==
    ASSUME NEW a \in Advancers, UNCHANGED <<session, starter, mailed>>,
           a \notin Advancing, a \notin Advancing',
           \A b \in Advancers \ {a} : pc'[b] = pc[b] /\ cur'[b] = cur[b]
    PROVE  UNCHANGED Enrollment!vars
<1>1. Starting' = Starting /\ Advancing' = Advancing
  BY DEF Starting, Advancing
<1>2. \A b \in Advancing : RightOf(b)' = RightOf(b)
  BY DEF Advancing, RightOf
<1> QED
  BY <1>1, <1>2, HoldersStay, SameSessions, SameMails, Stutters

\* A pass completes a run it may have lost, or leaves it to a claim.
LEMMA HandleImplements ==
    ASSUME TypeInv, NEW a \in Advancers, HandleSnapshot(a)
    PROVE  Enrollment!Next \/ UNCHANGED Enrollment!vars
<1>1. /\ session \in [Commands -> Rows] /\ cur \in [Advancers -> Snapshots \cup {None}]
      /\ pc \in [Advancers -> {"idle", "rewind", "sweep", "claim", "authorize", "mail", "done"}]
      /\ pc[a] = "sweep" /\ batch[a] \in SUBSET Snapshots
  BY DEF TypeInv, TypeOK, HandleSnapshot
<1>2. PICK s \in batch[a] : CompleteRun(a, s) \/ SkipRun(a, s) \/ PrepareStep(a, s)
  BY DEF HandleSnapshot
<1>3. /\ UNCHANGED <<starter, mailed>> /\ pc'[a] \in {"sweep", "idle", "done", "claim"}
      /\ \A b \in Advancers \ {a} : pc'[b] = pc[b] /\ cur'[b] = cur[b]
  BY <1>1, <1>2 DEF CompleteRun, SkipRun, PrepareStep, HandledRest, Resting, startVars
<1>4. a \notin Advancing /\ a \notin Advancing'
  BY <1>1, <1>3 DEF Advancing
<1>5. CASE UNCHANGED session
  BY <1>3, <1>4, <1>5, BetweenClaims
<1>6. CASE Exists(s.sid) /\ session' = [session EXCEPT ![s.sid].status = "completed"]
  <2>1. s.sid \in Commands
    BY <1>1 DEF Snapshots
  <2>2. session[s.sid] \in Rows /\ session'[s.sid] = [session[s.sid] EXCEPT !.status = "completed"]
        /\ \A e \in Commands \ {s.sid} : session'[e] = session[e]
    BY <1>1, <1>6, <2>1
  <2>3. session'[s.sid].status = "completed" /\ session'[s.sid].idx = session[s.sid].idx
    BY <2>2 DEF Rows
  <2>4. Runs' = [Runs EXCEPT ![s.sid] = "completed"] /\ UNCHANGED Places
    BY <2>2, <2>3 DEF Runs, Places
  <2>5. Starting' = Starting /\ Advancing' = Advancing
    BY <1>3, <1>4 DEF Starting, Advancing
  <2>6. \A b \in Advancing : RightOf(b)' = RightOf(b)
    BY <1>3, <1>4 DEF Advancing, RightOf
  <2>7. Holders' = Holders /\ UNCHANGED Mails
    BY <1>3, <2>5, <2>6, HoldersStay, SameMails
  <2>8. Enrollment!Exists(s.sid)
    BY <1>6, <2>1 DEF Enrollment!Exists, Exists
  <2>9. Enrollment!Complete(s.sid)
    BY <2>4, <2>7, <2>8 DEF Enrollment!Complete, Runs, Places, Mails
  <2> QED
    BY <2>1, <2>9 DEF Enrollment!Next
<1> QED
  BY <1>2, <1>5, <1>6 DEF CompleteRun, SkipRun, PrepareStep

\* A claim that the pinned row lets through is an advance, with its right.
LEMMA ClaimImplements ==
    ASSUME TypeInv, NEW a \in Advancers, ClaimStep(a)
    PROVE  Enrollment!Next \/ UNCHANGED Enrollment!vars
<1>1. /\ session \in [Commands -> Rows] /\ cur \in [Advancers -> Snapshots \cup {None}]
      /\ pc \in [Advancers -> {"idle", "rewind", "sweep", "claim", "authorize", "mail", "done"}]
      /\ pc[a] = "claim" /\ UNCHANGED <<starter, mailed>>
  BY DEF TypeInv, TypeOK, ClaimStep, startVars
<1>2. /\ cur[a] \in Snapshots /\ cur[a].row.story \in Stories
      /\ Mailable(cur[a].row.story, cur[a].row.idx + 1)
  BY <1>1 DEF TypeInv, StepsReady
<1>3. PICK d \in Commands : d = cur[a].sid
  BY <1>2 DEF Snapshots
<1>4. PICK i \in Positions : i = cur[a].row.idx
  BY <1>2 DEF Snapshots, Rows
<1>5. i \in Nat /\ i + 1 \in Positions
  BY <1>2, <1>4, MailableStep DEF Positions
<1>6. a \notin Advancing
  BY <1>1 DEF Advancing
<1>7. CASE ~Pinned(cur[a])
  <2>1. UNCHANGED session /\ Release(a)
    BY <1>7 DEF ClaimStep
  <2>2. pc'[a] \in {"sweep", "idle", "done"} /\ \A b \in Advancers \ {a} : pc'[b] = pc[b] /\ cur'[b] = cur[b]
    BY <1>1, <2>1 DEF Release, HandledRest, Resting
  <2>3. a \notin Advancing'
    BY <2>2 DEF Advancing
  <2> QED
    BY <1>1, <1>6, <2>1, <2>2, <2>3, BetweenClaims
<1>8. CASE Pinned(cur[a])
  <2>1. session[d].status = "active" /\ session[d].idx = i
    BY <1>3, <1>4, <1>8 DEF Pinned
  <2>2. /\ session' = [session EXCEPT ![d] = AtStep(@.status, cur[a].row.story, i + 1)]
        /\ pc' = [pc EXCEPT ![a] = "authorize"] /\ UNCHANGED cur
    BY <1>3, <1>4, <1>8 DEF ClaimStep
  <2>3. /\ session'[d].status = "active" /\ session'[d].idx = i + 1
        /\ \A e \in Commands \ {d} : session'[e] = session[e]
    BY <1>1, <2>1, <2>2 DEF AtStep
  <2>4. UNCHANGED Runs /\ Places' = [Places EXCEPT ![d] = i + 1] /\ Places[d] = i
    BY <2>1, <2>3 DEF Runs, Places
  <2>5. Starting' = Starting /\ Advancing' = Advancing \cup {a}
    BY <1>1, <2>2 DEF Starting, Advancing
  <2>6. \A b \in Advancing' : RightOf(b)' = RightOf(b)
    BY <2>2 DEF RightOf
  <2>7. RightOf(a) = <<d, i + 1>>
    BY <1>3, <1>4 DEF RightOf
  <2>8. Holders' = Holders \cup {<<d, i + 1>>}
    <3>1. Holders' = {<<e, 0>> : e \in Starting'} \cup {RightOf(b)' : b \in Advancing'}
      BY DEF Holders, Starting, Advancing, RightOf
    <3>2. {RightOf(b)' : b \in Advancing'} = {RightOf(b) : b \in Advancing \cup {a}}
      BY <2>5, <2>6
    <3> QED
      BY <2>5, <2>7, <3>1, <3>2, HoldersAre
  <2>9. Enrollment!Advance(d)
    BY <1>1, <1>5, <2>1, <2>4, <2>8, SameMails DEF Enrollment!Advance, Runs, Places, Mails
  <2> QED
    BY <2>9 DEF Enrollment!Next
<1> QED
  BY <1>7, <1>8

\* Past the claim, an advancer keeps its right or lets go of it.
LEMMA MailImplements ==
    ASSUME TypeInv, MailInv, NEW a \in Advancers, AuthorizeStep(a) \/ MailStep(a) \/ CrashAdvancer(a)
    PROVE  Enrollment!Next \/ UNCHANGED Enrollment!vars
<1>1. /\ cur \in [Advancers -> Snapshots \cup {None}] /\ UNCHANGED <<session, starter>>
      /\ pc \in [Advancers -> {"idle", "rewind", "sweep", "claim", "authorize", "mail", "done"}]
      /\ \A b \in Advancers \ {a} : pc'[b] = pc[b] /\ cur'[b] = cur[b]
  BY DEF TypeInv, TypeOK, AuthorizeStep, MailStep, CrashAdvancer, Release, startVars
<1>2. Starting' = Starting /\ \A b \in Advancing \ {a} : RightOf(b)' = RightOf(b)
  BY <1>1 DEF Starting, Advancing, RightOf
<1>3. CASE a \in Advancing /\ pc'[a] \notin {"authorize", "mail"} /\ (UNCHANGED mailed \/ MailStep(a))
  <2>1. Advancing' = Advancing \ {a}
    BY <1>1, <1>3 DEF Advancing
  <2>2. MailStep(a) => Mails' = Mails \/ Mails' = Mails \cup {RightOf(a)}
    BY <1>3, Mailing, RightsAreSteps DEF MailStep, RightOf, TypeInv
  <2>3. Mails' = Mails \/ Mails' = Mails \cup {RightOf(a)}
    BY <1>3, <2>2, SameMails
  <2>4. Holders' = Holders \ {RightOf(a)} /\ RightOf(a) \in Holders /\ RightOf(a) \in Commands \X Positions
    BY <1>2, <1>3, <2>1, AdvancerLetsGo
  <2> QED
    BY <1>1, <2>3, <2>4, SameSessions, Spends
<1>4. CASE a \in Advancing /\ pc'[a] = "mail" /\ cur' = cur /\ UNCHANGED mailed
  <2>1. Advancing' = Advancing
    BY <1>1, <1>4 DEF Advancing
  <2>2. \A b \in Advancing : RightOf(b)' = RightOf(b)
    BY <1>4 DEF RightOf
  <2> QED
    BY <1>1, <1>2, <1>4, <2>1, <2>2, HoldersStay, SameSessions, SameMails, Stutters
<1>5. CASE a \notin Advancing /\ CrashAdvancer(a)
  <2>1. pc'[a] \in {"idle", "done"} /\ UNCHANGED mailed
    BY <1>1, <1>5 DEF CrashAdvancer, Resting
  <2>2. a \notin Advancing'
    BY <2>1 DEF Advancing
  <2> QED
    BY <1>1, <1>5, <2>1, <2>2, BetweenClaims
<1>6. Release(a) => pc'[a] \in {"sweep", "idle", "done"}
  BY <1>1 DEF Release, HandledRest, Resting
<1>7. CASE AuthorizeStep(a)
  <2>1. a \in Advancing /\ UNCHANGED mailed
    BY <1>7 DEF AuthorizeStep, Advancing
  <2>2. (pc'[a] = "mail" /\ cur' = cur) \/ Release(a)
    BY <1>1, <1>7 DEF AuthorizeStep
  <2> QED
    BY <1>3, <1>4, <1>6, <2>1, <2>2
<1>8. CASE MailStep(a)
  <2>1. a \in Advancing /\ Release(a)
    BY <1>8 DEF MailStep, Advancing
  <2> QED
    BY <1>3, <1>6, <1>8, <2>1
<1>9. CASE CrashAdvancer(a)
  <2>1. pc'[a] \in {"idle", "done"} /\ UNCHANGED mailed
    BY <1>1, <1>9 DEF CrashAdvancer, Resting
  <2> QED
    BY <1>3, <1>5, <1>9, <2>1
<1> QED
  BY <1>7, <1>8, <1>9

\* Reads and rewinds do not touch the enrollment.
LEMMA ReadImplements ==
    ASSUME TypeInv, NEW a \in Advancers,
           SweepRead(a) \/ ClickFind(a) \/ HookRead(a) \/ HookRewind(a) \/ HookSweep(a)
    PROVE  UNCHANGED Enrollment!vars
<1>1. /\ session \in [Commands -> Rows] /\ UNCHANGED <<starter, mailed, cur>>
      /\ pc \in [Advancers -> {"idle", "rewind", "sweep", "claim", "authorize", "mail", "done"}]
  BY DEF TypeInv, TypeOK, SweepRead, ClickFind, HookRead, HookRewind, HookSweep, ReadExpired, startVars
<1>2. /\ pc[a] \in {"idle", "rewind"} /\ pc'[a] \in {"idle", "rewind", "sweep", "done"}
      /\ \A b \in Advancers \ {a} : pc'[b] = pc[b]
  BY <1>1 DEF SweepRead, ClickFind, HookRead, HookRewind, HookSweep, ReadExpired, HandledRest, Resting
<1>3. Starting' = Starting /\ Advancing' = Advancing
  BY <1>1, <1>2 DEF Starting, Advancing
<1>4. \A b \in Advancing : RightOf(b)' = RightOf(b)
  BY <1>1 DEF RightOf
<1>5. CASE UNCHANGED session
  BY <1>1, <1>3, <1>4, <1>5, HoldersStay, SameSessions, SameMails, Stutters
<1>6. CASE HookRewind(a)
  <2>1. PICK s \in batch[a] : session' = [session EXCEPT ![s.sid].sentAt = s.row.sentAt - Rewind] \/ session' = session
    BY <1>6 DEF HookRewind
  <2>2. \A d \in Commands : session'[d].status = session[d].status /\ session'[d].idx = session[d].idx
    <3> TAKE d \in Commands
    <3>1. session'[d] = session[d] \/ session'[d] = [session[d] EXCEPT !.sentAt = s.row.sentAt - Rewind]
      BY <1>1, <2>1
    <3> QED
      BY <1>1, <3>1 DEF Rows
  <2>3. UNCHANGED <<Runs, Places>>
    BY <2>2 DEF Runs, Places
  <2> QED
    BY <1>1, <1>3, <1>4, <2>3, HoldersStay, SameMails, Stutters
<1> QED
  BY <1>5, <1>6 DEF SweepRead, ClickFind, HookRead, HookSweep, ReadExpired

\* The environment: a purge takes rows away, the rest does not show.
LEMMA EnvironmentImplements ==
    ASSUME TypeInv,
           \/ Tick \/ (\E u \in Users : Unsubscribe(u)) \/ ResetTenant \/ UNCHANGED vars
           \/ \E s \in Stories : Purge(s)
    PROVE  Enrollment!Next \/ UNCHANGED Enrollment!vars
<1>1. UNCHANGED <<starter, mailed, pc, cur>> /\ session \in [Commands -> Rows]
  BY DEF Tick, Unsubscribe, ResetTenant, vars, Purge, startVars, actorVars, TypeInv, TypeOK
<1>2. Starting' = Starting /\ Advancing' = Advancing /\ \A a \in Advancing : RightOf(a)' = RightOf(a)
  BY <1>1 DEF Starting, Advancing, RightOf
<1>3. Holders' = Holders /\ UNCHANGED Mails
  BY <1>1, <1>2, HoldersStay, SameMails
<1>4. CASE UNCHANGED session
  BY <1>3, <1>4, SameSessions, Stutters
<1>5. ASSUME NEW s \in Stories, Purge(s) PROVE Enrollment!Next
  <2>1. PICK S \in SUBSET Commands : S = {d \in Commands : Exists(d) /\ session[d].story = s}
    OBVIOUS
  <2>2. session' = [d \in Commands |-> IF d \in S THEN [session[d] EXCEPT !.status = "purged"] ELSE session[d]]
    BY <1>5, <2>1 DEF Purge
  <2>3. \A d \in S : Enrollment!Exists(d)
    BY <2>1 DEF Enrollment!Exists, Exists
  <2>4. UNCHANGED Places /\ Runs' = [d \in Commands |-> IF d \in S THEN "purged" ELSE Runs[d]]
    BY <1>1, <2>2 DEF Runs, Places, Rows
  <2>5. Enrollment!Purge(S)
    BY <1>3, <2>3, <2>4 DEF Enrollment!Purge, Runs, Places, Mails
  <2> QED
    BY <2>5 DEF Enrollment!Next
<1> QED
  BY <1>4, <1>5 DEF Tick, Unsubscribe, ResetTenant, vars

\* The engine implements the enrollment promise: whatever its actors do and
\* however they crash, a run is enrolled once per command key, moves one step at
\* a time, and a step is mailed by whoever holds the one right to mail it
\* (StartStoryForUserCmd, advanceSession).
THEOREM EngineKeepsPromise == Spec => ImplementsEnrollment
<1>1. Init => Enrollment!Init
  <2> SUFFICES ASSUME Init PROVE Enrollment!Init
    OBVIOUS
  <2>1. Holders = {}
    BY DEF Init, Holders
  <2>2. Mails = {}
    BY DEF Init, Mails
  <2>3. Runs = [d \in Commands |-> "none"] /\ Places = [d \in Commands |-> 0]
    BY DEF Init, Runs, Places, NoRow
  <2> QED
    BY <2>1, <2>2, <2>3 DEF Enrollment!Init, Runs, Places, Mails
<1>2. TypeInv /\ MailInv /\ FreshAtZero /\ [Next]_vars => [Enrollment!Next]_(Enrollment!vars)
  <2> SUFFICES ASSUME TypeInv, MailInv, FreshAtZero, [Next]_vars
               PROVE  Enrollment!Next \/ UNCHANGED Enrollment!vars
    OBVIOUS
  <2>1. ASSUME NEW d \in Commands, StartNext(d) \/ CrashStart(d)
        PROVE  Enrollment!Next \/ UNCHANGED Enrollment!vars
    BY <2>1, StartImplements
  <2>2. ASSUME NEW a \in Advancers, AdvanceNext(a) \/ CrashAdvancer(a)
        PROVE  Enrollment!Next \/ UNCHANGED Enrollment!vars
    BY <2>2, HandleImplements, ClaimImplements, MailImplements DEF AdvanceNext
  <2>3. ASSUME NEW a \in Advancers, SweepRead(a) \/ ClickFind(a) \/ HookRead(a) \/ HookRewind(a) \/ HookSweep(a)
        PROVE  Enrollment!Next \/ UNCHANGED Enrollment!vars
    BY <2>3, ReadImplements
  <2> QED
    BY <2>1, <2>2, <2>3, EnvironmentImplements DEF Next
<1> QED
  BY <1>1, <1>2, TypeInit, TypeStep, MailInit, MailStepKeeps, FreshInit, FreshStep, PTL
     DEF Spec, ImplementsEnrollment, Enrollment!Spec

\* No right to mail a step outlives the mail: the at-most-once promise of
\* enrollments, for the rights that start commands and advancers hold.
THEOREM SpentOnce == Spec => []Enrollment!RightsAreSpentOnce
<1>1. ASSUME TypeInv, MailInv PROVE Enrollment!RightsAreSpentOnce
  <2> DEFINE Mailed == {r \in Commands \X Positions : mailed[r[1]][r[2]] > 0}
             Status == [d \in Commands |-> session[d].status]
             Place == [d \in Commands |-> session[d].idx]
  <2>1. ASSUME NEW r \in Holders
        PROVE  /\ r[1] \in Commands /\ mailed[r[1]][r[2]] = 0
               /\ session[r[1]].status # "none" /\ r[2] <= session[r[1]].idx
    <3>1. CASE \E d \in Commands : starter[d] \in {"supersede", "mail"} /\ r = <<d, 0>>
      <4>1. PICK d \in Commands : starter[d] \in {"supersede", "mail"} /\ r = <<d, 0>>
        BY <3>1
      <4>2. session[d].status # "none" /\ mailed[d][0] = 0
        BY <4>1, <1>1 DEF MailInv, StartOwes
      <4>3. session[d] \in Rows
        BY <1>1 DEF TypeInv, TypeOK
      <4>4. session[d].idx \in Nat
        BY <4>3 DEF Rows, Positions
      <4> QED
        BY <4>1, <4>2, <4>4
    <3>2. CASE \E a \in Advancers : /\ pc[a] \in {"authorize", "mail"}
                                    /\ r = <<cur[a].sid, cur[a].row.idx + 1>>
      <4>1. PICK a \in Advancers : /\ pc[a] \in {"authorize", "mail"}
                                   /\ r = <<cur[a].sid, cur[a].row.idx + 1>>
        BY <3>2
      <4>2. cur[a].sid \in Commands
        BY <4>1, <1>1 DEF TypeInv, StepsReady, Snapshots
      <4> QED
        BY <4>1, <4>2, <1>1 DEF MailInv, StepOwes
    <3> QED
      BY <3>1, <3>2 DEF Holders
  <2>2. ASSUME NEW r \in Mailed
        PROVE  /\ r[1] \in Commands /\ mailed[r[1]][r[2]] > 0
               /\ session[r[1]].status # "none" /\ r[2] <= session[r[1]].idx
    BY <1>1 DEF MailInv, MailedReached
  <2>3. Holders \cap Mailed = {}
    BY <2>1, <2>2
  <2>4. \A r \in Holders \cup Mailed : Status[r[1]] # "none" /\ r[2] <= Place[r[1]]
    BY <2>1, <2>2
  <2> QED
    BY <2>3, <2>4 DEF Enrollment!RightsAreSpentOnce
<1> QED
  BY <1>1, TypeInit, TypeStep, MailInit, MailStepKeeps, PTL DEF Spec

================================================================================
