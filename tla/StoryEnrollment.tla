---------------------------- MODULE StoryEnrollment ----------------------------
(* What the story engine promises about enrollments, without its actors: a    *)
(* run is enrolled at most once per command key, moves one step at a time     *)
(* while it is active, and a step is mailed only by spending the one right    *)
(* to mail it that enrolling or advancing created.  A right may be dropped    *)
(* (refusal, failed send, crash): the promise is at most once, never at       *)
(* least once.  StoryEngine is the detailed system that implements this.      *)
EXTENDS Naturals

CONSTANTS
    Commands,     \* deliveries of start commands; a delivery names the run it may create
    KeyOf,        \* the command key of each delivery, None for legacy callers
    None,
    Positions     \* step numbers of a run, from 0

\* The steps of a run are numbered from 0.
PositionsAreNumbers == Positions \subseteq Nat /\ 0 \in Positions

VARIABLES
    run,      \* run[d]: its status; "none" and "purged" runs have no row
    pos,      \* pos[d]: the step the run is at
    owed,     \* rights to mail a step, as <<run, step>>
    mailed    \* steps that were mailed, as <<run, step>>

vars == <<run, pos, owed, mailed>>

Rights == Commands \X Positions

\* The types of the four.
TypeOK ==
    /\ run \in [Commands -> {"none", "active", "completed", "superseded", "purged"}]
    /\ pos \in [Commands -> Positions]
    /\ owed \in SUBSET Rights
    /\ mailed \in SUBSET Rights

Init ==
    /\ run = [d \in Commands |-> "none"]
    /\ pos = [d \in Commands |-> 0]
    /\ owed = {}
    /\ mailed = {}

Exists(d) == run[d] \notin {"none", "purged"}
KeyTaken(k) == k # None /\ \E e \in Commands : Exists(e) /\ KeyOf[e] = k

Enroll(d) ==
    /\ run[d] = "none"
    /\ ~KeyTaken(KeyOf[d])
    /\ run' = [run EXCEPT ![d] = "active"]
    /\ owed' = owed \cup {<<d, 0>>}
    /\ UNCHANGED <<pos, mailed>>

\* A move beyond the last step of the document.
AdvanceBeyond(d) ==
    /\ run[d] = "active"
    /\ pos' = [pos EXCEPT ![d] = @ + 1]
    /\ owed' = owed \cup {<<d, pos[d] + 1>>}
    /\ UNCHANGED <<run, mailed>>

Advance(d) ==
    /\ run[d] = "active"
    /\ pos[d] + 1 \in Positions
    /\ pos' = [pos EXCEPT ![d] = @ + 1]
    /\ owed' = owed \cup {<<d, pos[d] + 1>>}
    /\ UNCHANGED <<run, mailed>>

\* A stale actor may also complete a run that was already superseded.
Complete(d) ==
    /\ Exists(d)
    /\ run' = [run EXCEPT ![d] = "completed"]
    /\ UNCHANGED <<pos, owed, mailed>>

Supersede(S) ==
    /\ \A d \in S : run[d] = "active"
    /\ run' = [d \in Commands |-> IF d \in S THEN "superseded" ELSE run[d]]
    /\ UNCHANGED <<pos, owed, mailed>>

Purge(S) ==
    /\ \A d \in S : Exists(d)
    /\ run' = [d \in Commands |-> IF d \in S THEN "purged" ELSE run[d]]
    /\ UNCHANGED <<pos, owed, mailed>>

\* A right that outlives its mail.
DeliverKeeping(r) ==
    /\ r \in owed
    /\ mailed' = mailed \cup {r}
    /\ UNCHANGED <<run, pos, owed>>

Deliver(r) ==
    /\ r \in owed
    /\ owed' = owed \ {r}
    /\ mailed' = mailed \cup {r}
    /\ UNCHANGED <<run, pos>>

Drop(r) ==
    /\ r \in owed
    /\ owed' = owed \ {r}
    /\ UNCHANGED <<run, pos, mailed>>

Next ==
    \/ \E d \in Commands : Enroll(d) \/ Advance(d) \/ Complete(d)
    \/ \E S \in SUBSET Commands : Supersede(S) \/ Purge(S)
    \/ \E r \in Rights : Deliver(r) \/ Drop(r)

Spec == Init /\ [][Next]_vars

\* Rights and mails stay behind the run's position, and no step that was mailed
\* is owed again: this is why the insert of StartStoryForUserCmd and the claim of
\* advanceSession let an enrollment mail each step at most once.
RightsAreSpentOnce ==
    /\ owed \cap mailed = {}
    /\ \A r \in owed \cup mailed : run[r[1]] # "none" /\ r[2] <= pos[r[1]]

================================================================================
