--------------------------------- MODULE MCGraph ---------------------------------
(* A small instance of Builder for TLC.                                       *)
EXTENDS Builder

CONSTANTS s1, s2, l1, l2, e1, e2, x1, x2, m1, tr, ac, lb, lst, fl, fx, t1, t2, c1,
          m2, m3, bd, tg

\* s1 is built in the editor, s2 was deployed from a script: l2, e2, x2 and m1
\* hang off it by reference.  fl and fx are another tenant's.
SmallDocs == {s1, s2, l1, l2, e1, e2, x1, x2, m1, tr, ac, lb, lst, fl, fx}
SmallKind == [d \in SmallDocs |->
    CASE d \in {s1, s2} -> "story" [] d \in {l1, l2, fl} -> "storyline"
      [] d \in {e1, e2} -> "enactment" [] d \in {x1, x2, fx} -> "scene"
      [] d = m1 -> "message" [] d = tr -> "trigger" [] d = ac -> "action"
      [] d = lb -> "label" [] d = lst -> "list"]
SmallOwner == [d \in SmallDocs |-> IF d \in {fl, fx} THEN t2 ELSE t1]
SmallDeployed == [d \in SmallDocs |->
    CASE d = s2 -> {l2} [] d = l2 -> {e2} [] d = e2 -> {x2, tr} [] d = x2 -> {m1}
      [] d = tr -> {ac} [] OTHER -> {}]
\* l1 was put into s1 and then got e1.
SmallBuilt == [d \in SmallDocs |->
    CASE d = s1 -> {[doc |-> l1, rev |-> 0, parts |-> {}]}
      [] d = l1 -> {[doc |-> e1, rev |-> 0, parts |-> {}]}
      [] OTHER -> {}]
ASSUME SmallGraph == GraphConstants

Row(tenant, legacy, email, badges, tags) ==
    [there |-> TRUE, tenant |-> tenant, legacy |-> legacy, email |-> email, deleted |-> FALSE,
     badges |-> badges, tags |-> tags]
NoRow == [Row(Nil, Nil, m2, {}, {}) EXCEPT !.there = FALSE]
\* Two rows for one person, and the ways ownership may have been recorded.
SmallContacts ==
    {<<Row(t1, Nil, m2, {}, {tg}), Row(t1, Nil, m2, {bd}, {tg}), NoRow>>,
     <<Row(Nil, t1, m2, {}, {tg}), Row(t1, t1, m3, {bd}, {}), Row(t2, t1, m2, {}, {})>>}

ASSUME SmallPeople == ContactsConstants

\* Contacts rest in one of their initial states while a graph is edited.
SmallInit == EditsInit /\ (under = "graph" => contact[1].tenant = Nil /\ label[tg] = "none")
SmallSpec == SmallInit /\ [][EditsNext]_editVars
================================================================================
