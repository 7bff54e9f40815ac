--------------------------------- MODULE Builder -------------------------------
(* What is built and who gets it: story graphs and contacts, side by side.    *)
(* The two share nothing, so that no interleaving is lost by letting all      *)
(* requests of a behaviour go to the one or all to the other.                 *)
EXTENDS StoryGraph, Contacts

VARIABLE under  \* which of them: "graph" or "people"

\* Where only contacts are edited there are no documents to read.
EditsInit ==
    /\ ContactsInit
    /\ \/ under = "people" /\ GraphWith({})
       \/ under = "graph" /\ GraphInit

EditsNext ==
    \/ under = "graph" /\ GraphNext /\ UNCHANGED <<contactVars, under>>
    \/ under = "people" /\ ContactsNext /\ UNCHANGED <<graphVars, under>>

editVars == <<graphVars, contactVars, under>>
EditsSpec == EditsInit /\ [][EditsNext]_editVars

\* The types of both.
EditsTypeOK == GraphTypeOK /\ ContactsTypeOK
================================================================================
