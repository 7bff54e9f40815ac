----------------------------- MODULE MCStoryEngine -----------------------------
(* Small instances of StoryEngine for TLC.                                    *)
EXTENDS StoryEngine

CONSTANTS d1, d2, k1, u1, s1, a1, a2, c1, h1, welcome

Act(content, wait, next, onClick) ==
    [content |-> content, wait |-> wait, next |-> next, onClick |-> onClick]

\* Three steps; the click trigger of the first one overrides its on-sent default.
ThreeSteps ==
    <<Act(TRUE, 1, "next_scene", "next_scene"),
      Act(TRUE, 1, "next_scene", "mark_complete"),
      Act(TRUE, 0, "mark_complete", None)>>

\* Three steps without waits.
QuickSteps ==
    <<Act(TRUE, 0, "next_scene", "mark_complete"),
      Act(TRUE, 0, "next_scene", None),
      Act(TRUE, 0, "mark_complete", None)>>

\* The default after the first step is to complete, a click moves on.
ClickToGoOn ==
    <<Act(TRUE, 0, "mark_complete", "next_scene"),
      Act(TRUE, 1, "mark_complete", None)>>

OneStory == [s \in Stories |-> ThreeSteps]
OneClickStory == [s \in Stories |-> ClickToGoOn]
OneQuickStory == [s \in Stories |-> QuickSteps]

SameName == [s \in Stories |-> welcome]
AskForWelcome == [d \in Commands |-> welcome]

\* Two deliveries of one command: a replay.
Replay == [d \in Commands |-> k1]
\* Two commands of legacy callers, or with keys of their own.
NoKeys == [d \in Commands |-> None]
OneUser == [d \in Commands |-> u1]
ClicksOfOneUser == [c \in Clicks |-> u1]
================================================================================
