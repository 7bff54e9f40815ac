----------------------------- MODULE BuilderProofs -----------------------------
(* Story graphs, for any documents, tenants and edits: the types, that what   *)
(* is embedded stays current and within its tenant and its collection, and    *)
(* what the two readers see.  Contacts, for any rows, requests, faults and    *)
(* bounds: the types and the unique index, that a merge keeps what its rows   *)
(* had, and that owners, tags and badges in use are not lost.                 *)
EXTENDS Builder, WellFoundedInduction, TLAPS

--------------------------------------------------------------------------------
(* STORY GRAPHS *)


AnyCopies == UNION {Embeddable(d) : d \in Docs}

Current(S) == \A x \in S : x.rev <= rev[x.doc]
\* One copy at most of what there is one of.
Single(d, S) ==
    \A x, y \in S : KindOf[x.doc] = KindOf[y.doc] /\ KindOf[x.doc] \in Of(d).one => x = y

Edits == [pc : {"idle", "attach", "pull", "merge"}, to : Docs \cup {None}, of : Docs \cup {None},
          copies : SUBSET AnyCopies]

\* What a request found still fits where it is going to put it.
Fits(c) ==
    LET k == call[c] IN
    /\ k.pc # "idle" => k.to \in Docs
    /\ k.pc = "attach" => /\ k.of \in Docs
                          /\ \E x : k.copies = {x} /\ x.doc = k.of
    /\ k.pc = "merge" => KindOf[k.to] = "story"
    /\ k.pc \in {"attach", "merge"} => k.copies \subseteq Embeddable(k.to) /\ Current(k.copies)

TypeInv ==
    /\ there \subseteq Docs
    /\ deleted \subseteq {d \in Docs : Of(d).delete = "mark"}
    /\ rev \in [Docs -> 0 .. MaxRev]
    /\ refs \in [Docs -> SUBSET Docs]
    /\ parts \in [Docs -> SUBSET AnyCopies]
    /\ \A d \in Docs : parts[d] \subseteq Embeddable(d) /\ Current(parts[d]) /\ Single(d, parts[d])
    /\ call \in [Calls -> Edits]
    /\ \A c \in Calls : Fits(c)
    /\ edits \in 0 .. MaxEdits

\* A removed storyline is not embedded, and a reference to it leads nowhere:
\* storylines are never taken out of their collection.
RemovedInv ==
    /\ OfKind("storyline") \ Unborn \subseteq there
    /\ \A d \in Docs : \A x \in refs[d] : KindOf[x] = "storyline" => x \in there
    /\ taken \subseteq OfKind("story") \X OfKind("storyline")
    /\ \A s, l \in Docs : <<s, l>> \in taken => /\ l \notin DocsIn(parts[s])
                                                /\ l \in refs[s] => Owner[l] # Owner[s]

\* Documents of a tenant, none of them a storyline.
Low(S, t) == \A y \in S : y.doc \in Docs /\ Owner[y.doc] = t /\ KindOf[y.doc] # "storyline"
--------------------------------------------------------------------------------
(* Collections and copies *)

LEMMA KindsEmbed ==
    ASSUME GraphConstants, NEW d \in Docs, NEW k \in Of(d).embeds
    PROVE  \/ KindOf[d] = "story" /\ k = "storyline"
           \/ KindOf[d] = "storyline" /\ k = "enactment"
           \/ KindOf[d] = "enactment" /\ k \in {"scene", "trigger"}
           \/ KindOf[d] = "scene" /\ k \in {"message", "label"}
           \/ KindOf[d] = "message" /\ k = "label"
<1>1. KindOf[d] \in {"story", "storyline", "enactment", "scene", "message", "content", "trigger", "action",
                     "label", "variable", "list"}
  BY DEF GraphConstants, Collections
<1>2. /\ KindOf[d] = "story" => Of(d).embeds = {"storyline"}
      /\ KindOf[d] = "storyline" => Of(d).embeds = {"enactment"}
      /\ KindOf[d] = "enactment" => Of(d).embeds = {"scene", "trigger"}
  BY DEF Of, Collections, Stories, Storylines, Enactments
<1>3. /\ KindOf[d] = "scene" => Of(d).embeds = {"message", "label"}
      /\ KindOf[d] = "message" => Of(d).embeds = {"label"}
      /\ KindOf[d] = "content" => Of(d).embeds = {}
      /\ KindOf[d] = "trigger" => Of(d).embeds = {}
  BY DEF Of, Collections, Scenes, Messages, MessageContents, Triggers
<1>4. /\ KindOf[d] = "action" => Of(d).embeds = {}
      /\ KindOf[d] = "label" => Of(d).embeds = {}
      /\ KindOf[d] = "variable" => Of(d).embeds = {}
      /\ KindOf[d] = "list" => Of(d).embeds = {}
  BY DEF Of, Collections, Actions, Labels, TemplateVariables, EmailLists
<1> QED
  BY <1>1, <1>2, <1>3, <1>4

LEMMA EmbedKinds ==
    ASSUME NEW d \in Docs
    PROVE  /\ KindOf[d] = "story" => Of(d).embeds = {"storyline"} /\ Of(d).one = {}
           /\ KindOf[d] = "storyline" => Of(d).embeds = {"enactment"} /\ Of(d).delete = "mark"
           /\ KindOf[d] = "enactment" => Of(d).embeds = {"scene", "trigger"}
           /\ KindOf[d] = "scene" => Of(d).embeds = {"message", "label"}
           /\ KindOf[d] = "message" => Of(d).embeds = {"label"}
  BY DEF Of, Collections, Stories, Storylines, Enactments, Scenes, Messages

\* A copy is of a tenant's document and embeds such copies, further down.
LEMMA BelowCopies ==
    ASSUME NEW t, NEW x \in CopiesBelow(t)
    PROVE  /\ x.doc \in Docs /\ Owner[x.doc] = t /\ KindOf[x.doc] # "storyline"
           /\ x.parts \subseteq CopiesBelow(t) /\ x.rev \in Nat
<1>1. ASSUME NEW k \in {"enactment", "scene", "trigger", "message", "label"}, NEW E, x \in Copies(k, t, E)
      PROVE  /\ x.doc \in Docs /\ Owner[x.doc] = t /\ KindOf[x.doc] # "storyline" /\ x.rev \in Nat
             /\ x.parts \subseteq E
  BY <1>1 DEF Copies, Owned
<1>2. CASE x \in LabelCopies(t)
  BY <1>1, <1>2 DEF LabelCopies, CopiesBelow
<1>3. CASE x \in MessageCopies(t)
  BY <1>1, <1>3 DEF MessageCopies, CopiesBelow
<1>4. CASE x \in SceneCopies(t)
  BY <1>1, <1>4 DEF SceneCopies, CopiesBelow
<1>5. CASE x \in TriggerCopies(t)
  BY <1>1, <1>5 DEF TriggerCopies, CopiesBelow
<1>6. CASE x \in EnactmentCopies(t)
  BY <1>1, <1>6 DEF EnactmentCopies, CopiesBelow
<1> QED
  BY <1>2, <1>3, <1>4, <1>5, <1>6 DEF CopiesBelow

LEMMA EveryCopy ==
    ASSUME NEW t, NEW x \in AllCopies(t)
    PROVE  /\ x.doc \in Docs /\ Owner[x.doc] = t /\ x.rev \in Nat
           /\ x.parts \subseteq CopiesBelow(t)
<1>1. CASE x \in CopiesBelow(t)
  BY <1>1, BelowCopies
<1>2. CASE x \in StorylineCopies(t)
  BY <1>2 DEF StorylineCopies, Copies, Owned, CopiesBelow
<1> QED
  BY <1>1, <1>2 DEF AllCopies

LEMMA CopiesByKind ==
    ASSUME NEW t, NEW x \in AllCopies(t)
    PROVE  /\ KindOf[x.doc] \in {"storyline", "enactment", "scene", "trigger", "message", "label"}
           /\ KindOf[x.doc] = "storyline" <=> x \in StorylineCopies(t)
           /\ KindOf[x.doc] = "enactment" <=> x \in EnactmentCopies(t)
           /\ KindOf[x.doc] = "scene" <=> x \in SceneCopies(t)
           /\ KindOf[x.doc] = "trigger" <=> x \in TriggerCopies(t)
           /\ KindOf[x.doc] = "message" <=> x \in MessageCopies(t)
           /\ KindOf[x.doc] = "label" <=> x \in LabelCopies(t)
<1>1. /\ x \in StorylineCopies(t) => KindOf[x.doc] = "storyline"
      /\ x \in EnactmentCopies(t) => KindOf[x.doc] = "enactment"
      /\ x \in SceneCopies(t) => KindOf[x.doc] = "scene"
  BY DEF StorylineCopies, EnactmentCopies, SceneCopies, Copies, Owned
<1>2. /\ x \in TriggerCopies(t) => KindOf[x.doc] = "trigger"
      /\ x \in MessageCopies(t) => KindOf[x.doc] = "message"
      /\ x \in LabelCopies(t) => KindOf[x.doc] = "label"
  BY DEF TriggerCopies, MessageCopies, LabelCopies, Copies, Owned
<1> QED
  BY <1>1, <1>2 DEF AllCopies, CopiesBelow

LEMMA EmbeddableCopies ==
    ASSUME GraphConstants, NEW d \in Docs
    PROVE  /\ Embeddable(d) \subseteq AllCopies(Owner[d])
           /\ KindOf[d] # "story" => Embeddable(d) \subseteq CopiesBelow(Owner[d])
           /\ \A x \in Embeddable(d) : KindOf[x.doc] \in Of(d).embeds
<1>1. /\ Embeddable(d) \subseteq AllCopies(Owner[d])
      /\ \A x \in Embeddable(d) : KindOf[x.doc] \in Of(d).embeds
  BY DEF Embeddable
<1>2. ASSUME KindOf[d] # "story", NEW x \in Embeddable(d) PROVE x \in CopiesBelow(Owner[d])
  <2>1. KindOf[x.doc] # "storyline"
    BY <1>1, <1>2, KindsEmbed
  <2> QED
    BY <1>1, <2>1, CopiesByKind DEF AllCopies
<1> QED
  BY <1>1, <1>2

\* What embeds d may embed a copy of it.
LEMMA CopyFits ==
    ASSUME GraphConstants, TypeInv, NEW p \in Docs, NEW d \in Docs, Owner[d] = Owner[p],
           KindOf[d] \in Of(p).embeds
    PROVE  CopyOf(d) \in Embeddable(p) /\ CopyOf(d).doc = d /\ Current({CopyOf(d)})
<1>1. PICK t : t = Owner[p]
  OBVIOUS
<1>2. /\ CopyOf(d).doc = d /\ CopyOf(d).rev = rev[d] /\ CopyOf(d).parts = parts[d]
      /\ rev[d] \in Nat /\ parts[d] \subseteq Embeddable(d)
  BY DEF CopyOf, TypeInv, GraphConstants
<1>3. ASSUME NEW E, parts[d] \subseteq E PROVE CopyOf(d) \in Copies(KindOf[d], t, E)
  BY <1>1, <1>2, <1>3 DEF CopyOf, Copies, Owned
<1>4. \A x \in parts[d] : x \in AllCopies(t) /\ KindOf[x.doc] \in Of(d).embeds
  BY <1>1, <1>2 DEF Embeddable
<1>5. CopyOf(d) \in AllCopies(t)
  <2>1. CASE KindOf[d] = "storyline"
    <3>1. parts[d] \subseteq EnactmentCopies(t)
      BY <1>4, <2>1, CopiesByKind, EmbedKinds
    <3> QED
      BY <1>3, <2>1, <3>1 DEF StorylineCopies, AllCopies
  <2>2. CASE KindOf[d] = "enactment"
    <3>1. parts[d] \subseteq SceneCopies(t) \cup TriggerCopies(t)
      BY <1>4, <2>2, CopiesByKind, EmbedKinds
    <3> QED
      BY <1>3, <2>2, <3>1 DEF EnactmentCopies, AllCopies, CopiesBelow
  <2>3. CASE KindOf[d] = "scene"
    <3>1. parts[d] \subseteq MessageCopies(t) \cup LabelCopies(t)
      BY <1>4, <2>3, CopiesByKind, EmbedKinds
    <3> QED
      BY <1>3, <2>3, <3>1 DEF SceneCopies, AllCopies, CopiesBelow
  <2>4. CASE KindOf[d] = "message"
    <3>1. parts[d] \subseteq LabelCopies(t)
      BY <1>4, <2>4, CopiesByKind, EmbedKinds
    <3> QED
      BY <1>3, <2>4, <3>1 DEF MessageCopies, AllCopies, CopiesBelow
  <2>5. CASE KindOf[d] = "trigger"
    <3>1. parts[d] \subseteq {}
      BY <1>4, <2>5, KindsEmbed
    <3> QED
      BY <1>3, <2>5, <3>1 DEF TriggerCopies, AllCopies, CopiesBelow
  <2>6. CASE KindOf[d] = "label"
    <3>1. parts[d] \subseteq {}
      BY <1>4, <2>6, KindsEmbed
    <3> QED
      BY <1>3, <2>6, <3>1 DEF LabelCopies, AllCopies, CopiesBelow
  <2> QED
    BY <2>1, <2>2, <2>3, <2>4, <2>5, <2>6, KindsEmbed
<1> QED
  BY <1>1, <1>2, <1>5 DEF Current, Embeddable

--------------------------------------------------------------------------------
(* What the readers see *)

LEMMA InsideCopies ==
    ASSUME NEW t, NEW S \in SUBSET AllCopies(t)
    PROVE  /\ Inside(S) \subseteq AllCopies(t)
           /\ S \subseteq Inside(S)
           /\ \A x \in Inside(S) : x \in S \/ x \in CopiesBelow(t)
<1>1. ASSUME NEW x \in S PROVE x.parts \subseteq CopiesBelow(t)
  BY EveryCopy
<1> QED
  BY <1>1 DEF Inside, AllCopies

\* Copies and what they embed show documents of the tenant, and no storylines
\* but their own.
LEMMA StaleCopies ==
    ASSUME NEW t, NEW S \in SUBSET AllCopies(t)
    PROVE  /\ \A x \in S : [doc |-> x.doc, rev |-> x.rev] \in Stale(S)
           /\ \A y \in Stale(S) : /\ y.doc \in Docs /\ Owner[y.doc] = t
                                  /\ KindOf[y.doc] = "storyline" => y.doc \in DocsIn(S)
<1> DEFINE S1 == Inside(S)  S2 == Inside(S1)  S3 == Inside(S2)  S4 == Inside(S3)
<1>1. S1 \subseteq AllCopies(t) /\ S \subseteq S1 /\ \A x \in S1 : x \in S \/ x \in CopiesBelow(t)
  BY InsideCopies
<1> HIDE DEF S1
<1>2. S2 \subseteq AllCopies(t) /\ S1 \subseteq S2 /\ \A x \in S2 : x \in S1 \/ x \in CopiesBelow(t)
  BY <1>1, InsideCopies
<1> HIDE DEF S2
<1>3. S3 \subseteq AllCopies(t) /\ S2 \subseteq S3 /\ \A x \in S3 : x \in S2 \/ x \in CopiesBelow(t)
  BY <1>2, InsideCopies
<1> HIDE DEF S3
<1>4. S4 \subseteq AllCopies(t) /\ S3 \subseteq S4 /\ \A x \in S4 : x \in S3 \/ x \in CopiesBelow(t)
  BY <1>3, InsideCopies
<1> HIDE DEF S4
<1>5. Stale(S) = {[doc |-> x.doc, rev |-> x.rev] : x \in S4}
  BY DEF Stale, S4, S3, S2, S1
<1>6. S \subseteq S4 /\ \A x \in S4 : x \in AllCopies(t) /\ (x \in S \/ x \in CopiesBelow(t))
  BY <1>1, <1>2, <1>3, <1>4
<1>7. \A x \in S : [doc |-> x.doc, rev |-> x.rev] \in Stale(S)
  BY <1>5, <1>6
<1>8. ASSUME NEW y \in Stale(S)
      PROVE  /\ y.doc \in Docs /\ Owner[y.doc] = t
             /\ KindOf[y.doc] = "storyline" => y.doc \in DocsIn(S)
  <2>1. PICK x \in S4 : y = [doc |-> x.doc, rev |-> x.rev]
    BY <1>5
  <2>2. y.doc = x.doc /\ x \in AllCopies(t) /\ (x \in S \/ x \in CopiesBelow(t))
    BY <1>6, <2>1
  <2>3. x.doc \in Docs /\ Owner[x.doc] = t
    BY <2>2, EveryCopy
  <2>4. CASE x \in S
    BY <2>2, <2>3, <2>4 DEF DocsIn
  <2>5. CASE x \in CopiesBelow(t)
    BY <2>2, <2>3, <2>5, BelowCopies
  <2> QED
    BY <2>2, <2>4, <2>5
<1> QED
  BY <1>7, <1>8

LEMMA StaleLow ==
    ASSUME NEW t, NEW S \in SUBSET CopiesBelow(t)
    PROVE  Low(Stale(S), t)
<1>1. S \subseteq AllCopies(t)
  BY DEF AllCopies
<1>2. \A d \in DocsIn(S) : KindOf[d] # "storyline"
  BY BelowCopies DEF DocsIn
<1> QED
  BY <1>1, <1>2, StaleCopies DEF Low

LEMMA PartsOf ==
    ASSUME GraphConstants, TypeInv, NEW d \in Docs
    PROVE  /\ parts[d] \subseteq AllCopies(Owner[d])
           /\ KindOf[d] # "story" => parts[d] \subseteq CopiesBelow(Owner[d])
           /\ \A k : Embedded(d, k) \subseteq parts[d]
           /\ \A x \in parts[d] : KindOf[x.doc] \in Of(d).embeds /\ x.doc \in Docs /\ Owner[x.doc] = Owner[d]
                                  /\ x.rev \in 0 .. MaxRev
<1>1. parts[d] \subseteq Embeddable(d) /\ Current(parts[d]) /\ rev \in [Docs -> 0 .. MaxRev]
  BY DEF TypeInv
<1>2. parts[d] \subseteq AllCopies(Owner[d])
  BY <1>1, EmbeddableCopies
<1>3. \A x \in parts[d] : KindOf[x.doc] \in Of(d).embeds /\ x.doc \in Docs /\ Owner[x.doc] = Owner[d]
                          /\ x.rev \in Nat
  BY <1>1, <1>2, EmbeddableCopies, EveryCopy
<1>4. ASSUME NEW x \in parts[d] PROVE x.rev \in 0 .. MaxRev
  <2>1. x.rev <= rev[x.doc] /\ rev[x.doc] \in 0 .. MaxRev /\ x.rev \in Nat
    BY <1>1, <1>3 DEF Current
  <2> QED
    BY <2>1 DEF GraphConstants
<1> QED
  BY <1>1, <1>2, <1>3, <1>4, EmbeddableCopies DEF Embedded

LEMMA ReferredOf ==
    ASSUME GraphConstants, TypeInv, NEW d \in Docs, NEW k, NEW t
    PROVE  \A x \in Referred(d, k, t) : x \in Docs /\ Owner[x] = t /\ KindOf[x] = k
  BY DEF TypeInv, Referred, Found

LEMMA LinkedOf ==
    ASSUME GraphConstants, TypeInv, NEW d \in Docs, NEW k
    PROVE  \A x \in Linked(d, k, Owner[d]) \cup EmbeddedDocs(d, k) :
             x \in Docs /\ Owner[x] = Owner[d] /\ KindOf[x] = k
<1>1. \A x \in EmbeddedDocs(d, k) : x \in Docs /\ Owner[x] = Owner[d] /\ KindOf[x] = k
  BY PartsOf DEF EmbeddedDocs, Embedded, DocsIn
<1> QED
  BY <1>1, ReferredOf DEF Linked

\* Below a story, a reader sees the tenant's documents and no storyline.
LEMMA PartLow ==
    ASSUME GraphConstants, TypeInv, NEW d \in Docs, KindOf[d] # "story", NEW k, NEW loaded,
           Low(loaded, Owner[d])
    PROVE  Low(Part(d, k, loaded), Owner[d]) /\ Low(Stale(Embedded(d, k)), Owner[d])
           /\ Low(Stale(parts[d]), Owner[d])
<1>1. Embedded(d, k) \subseteq CopiesBelow(Owner[d]) /\ parts[d] \subseteq CopiesBelow(Owner[d])
  BY PartsOf
<1>2. Low(Stale(Embedded(d, k)), Owner[d]) /\ Low(Stale(parts[d]), Owner[d])
  BY <1>1, StaleLow
<1> QED
  BY <1>2 DEF Part

LEMMA FreshLow ==
    ASSUME NEW d \in Docs, KindOf[d] # "storyline"
    PROVE  Low({Fresh(d)}, Owner[d])
  BY DEF Low, Fresh

LEMMA LowUnion ==
    ASSUME NEW t, NEW A, NEW B, NEW C, Low(A, t), Low(B, t), Low(C, t)
    PROVE  Low(A \cup B \cup C, t)
  BY DEF Low

LEMMA TriggeredLow ==
    ASSUME GraphConstants, TypeInv, NEW e \in Docs, KindOf[e] # "story"
    PROVE  Low(Triggered(e, Owner[e]), Owner[e])
<1>1. PICK t : t = Owner[e]
  OBVIOUS
<1>2. ASSUME NEW x \in Referred(e, "trigger", t) PROVE Low(LoadTrigger(x, t), t)
  <2>1. x \in Docs /\ Owner[x] = t /\ KindOf[x] = "trigger"
    BY ReferredOf
  <2>2. ASSUME NEW a \in Referred(x, "action", t) PROVE Low({Fresh(a)}, t)
    <3>1. a \in Docs /\ Owner[a] = t /\ KindOf[a] = "action"
      BY <2>1, ReferredOf
    <3> QED
      BY <3>1, FreshLow
  <2>3. Low({Fresh(a) : a \in Referred(x, "action", t)}, t)
    BY <2>2 DEF Low
  <2>4. Low(Part(x, "action", {Fresh(a) : a \in Referred(x, "action", t)}), t)
    BY <2>1, <2>3, PartLow
  <2>5. Low({Fresh(x)}, t)
    BY <2>1, FreshLow
  <2> QED
    BY <2>4, <2>5 DEF LoadTrigger, Low
<1>3. Low(UNION {LoadTrigger(x, t) : x \in Referred(e, "trigger", t)}, t)
  BY <1>2 DEF Low
<1> QED
  BY <1>1, <1>3, PartLow DEF Triggered

LEMMA LoadSceneLow ==
    ASSUME GraphConstants, TypeInv, NEW x \in Docs, KindOf[x] = "scene"
    PROVE  Low(LoadScene(x, Owner[x]), Owner[x]) /\ Low(RefetchScene(x), Owner[x])
<1>1. PICK t : t = Owner[x]
  OBVIOUS
<1>2. ASSUME NEW m \in Referred(x, "message", t) PROVE Low(LoadMessage(m), t)
  <2>1. m \in Docs /\ Owner[m] = t /\ KindOf[m] = "message"
    BY ReferredOf
  <2>2. Low({Fresh(m)}, t)
    BY <2>1, FreshLow
  <2>3. Low(Stale(parts[m]), t)
    <3>1. Low({}, t)
      BY DEF Low
    <3> QED
      BY <2>1, <3>1, PartLow
  <2> QED
    BY <2>2, <2>3 DEF LoadMessage, Low
<1>3. Low(UNION {LoadMessage(m) : m \in Referred(x, "message", t)}, t)
  BY <1>2 DEF Low
<1>4. /\ Low(Part(x, "message", UNION {LoadMessage(m) : m \in Referred(x, "message", t)}), t)
      /\ Low(Stale(parts[x]), t)
  BY <1>1, <1>3, PartLow
<1>5. Low(Stale(Embedded(x, "label")), t)
  BY <1>1, <1>3, PartLow
<1>6. Low({Fresh(x)}, t)
  BY <1>1, FreshLow
<1> QED
  BY <1>1, <1>4, <1>5, <1>6 DEF LoadScene, RefetchScene, Low

LEMMA EnactmentLow ==
    ASSUME GraphConstants, TypeInv, NEW e \in Docs, KindOf[e] = "enactment"
    PROVE  Low(HydrateEnactment(e, Owner[e]), Owner[e]) /\ Low(RefetchEnactment(e, Owner[e]), Owner[e])
<1>1. PICK t : t = Owner[e]
  OBVIOUS
<1>2. Low({Fresh(e)}, t) /\ Low(Triggered(e, t), t)
  BY <1>1, FreshLow, TriggeredLow
<1>3. ASSUME NEW x \in Referred(e, "scene", t) PROVE Low(LoadScene(x, t), t)
  <2>1. x \in Docs /\ Owner[x] = t /\ KindOf[x] = "scene"
    BY ReferredOf
  <2> QED
    BY <2>1, LoadSceneLow
<1>4. ASSUME NEW x \in Linked(e, "scene", t) PROVE Low(RefetchScene(x), t)
  <2>1. x \in Docs /\ Owner[x] = t /\ KindOf[x] = "scene"
    BY <1>1, LinkedOf
  <2> QED
    BY <2>1, LoadSceneLow
<1>5. Low(UNION {LoadScene(x, t) : x \in Referred(e, "scene", t)}, t)
  BY <1>3 DEF Low
<1>6. Low(Part(e, "scene", UNION {LoadScene(x, t) : x \in Referred(e, "scene", t)}), t)
  BY <1>1, <1>5, PartLow
<1>7. Low(UNION {RefetchScene(x) : x \in Linked(e, "scene", t)}, t)
  BY <1>4 DEF Low
<1>8. Low(HydrateEnactment(e, t), t)
  BY <1>2, <1>6, LowUnion DEF HydrateEnactment
<1>9. Low(RefetchEnactment(e, t), t)
  BY <1>2, <1>7, LowUnion DEF RefetchEnactment
<1> QED
  BY <1>1, <1>8, <1>9

\* What a reader sees of a storyline: the storyline and what is below.
LEMMA StorylineSeen ==
    ASSUME GraphConstants, TypeInv, NEW l \in Docs, KindOf[l] = "storyline"
    PROVE  \A y \in ResolveStoryline(l, Owner[l]) \cup RefetchStoryline(l, Owner[l]) :
             /\ y.doc \in Docs /\ Owner[y.doc] = Owner[l]
             /\ KindOf[y.doc] = "storyline" => y.doc = l
<1>1. PICK t : t = Owner[l]
  OBVIOUS
<1>2. ASSUME NEW e \in Referred(l, "enactment", t) PROVE Low(HydrateEnactment(e, t), t)
  <2>1. e \in Docs /\ Owner[e] = t /\ KindOf[e] = "enactment"
    BY ReferredOf
  <2> QED
    BY <2>1, EnactmentLow
<1>3. ASSUME NEW e \in Linked(l, "enactment", t) PROVE Low(RefetchEnactment(e, t), t)
  <2>1. e \in Docs /\ Owner[e] = t /\ KindOf[e] = "enactment"
    BY <1>1, LinkedOf
  <2> QED
    BY <2>1, EnactmentLow
<1>4. Low(UNION {HydrateEnactment(e, t) : e \in Referred(l, "enactment", t)}, t)
  BY <1>2 DEF Low
<1>5. Low(Part(l, "enactment", UNION {HydrateEnactment(e, t) : e \in Referred(l, "enactment", t)}), t)
  BY <1>1, <1>4, PartLow
<1>6. Low(UNION {RefetchEnactment(e, t) : e \in Linked(l, "enactment", t)}, t)
  BY <1>3 DEF Low
<1>7. Fresh(l).doc = l
  BY DEF Fresh
<1> QED
  BY <1>1, <1>5, <1>6, <1>7 DEF ResolveStoryline, RefetchStoryline, Low

\* What a reader sees of a story is its tenant's, and its own storylines.
LEMMA StorySeen ==
    ASSUME GraphConstants, TypeInv, NEW s \in Docs
    PROVE  \A y \in HydrateStory(s) \cup HydrateStoryGraph(s) :
             /\ y.doc \in Docs /\ Owner[y.doc] = Owner[s]
             /\ KindOf[y.doc] = "storyline" => y.doc \in StorylinesOf(s)
<1>1. PICK t : t = Owner[s]
  OBVIOUS
<1>2. \A l \in StorylinesOf(s) : l \in Docs /\ Owner[l] = t /\ KindOf[l] = "storyline"
  BY <1>1, ReferredOf, LinkedOf DEF StorylinesOf
<1>3. \A l \in StorylinesOf(s) : \A y \in ResolveStoryline(l, t) \cup RefetchStoryline(l, t) :
        /\ y.doc \in Docs /\ Owner[y.doc] = t
        /\ KindOf[y.doc] = "storyline" => y.doc = l
  BY <1>2, StorylineSeen
<1>4. \A y \in Stale(Embedded(s, "storyline")) :
        /\ y.doc \in Docs /\ Owner[y.doc] = t
        /\ KindOf[y.doc] = "storyline" => y.doc \in EmbeddedDocs(s, "storyline")
  <2>1. Embedded(s, "storyline") \subseteq AllCopies(t)
    BY <1>1, PartsOf
  <2> QED
    BY <2>1, StaleCopies DEF EmbeddedDocs
<1>5. ASSUME NEW y \in HydrateStory(s)
      PROVE  /\ y.doc \in Docs /\ Owner[y.doc] = t
             /\ KindOf[y.doc] = "storyline" => y.doc \in StorylinesOf(s)
  <2>1. PICK l \in StorylinesOf(s) : y \in RefetchStoryline(l, t)
    BY <1>1 DEF HydrateStory
  <2> QED
    BY <1>3, <2>1
<1>6. ASSUME NEW y \in HydrateStoryGraph(s)
      PROVE  /\ y.doc \in Docs /\ Owner[y.doc] = t
             /\ KindOf[y.doc] = "storyline" => y.doc \in StorylinesOf(s)
  <2>1. CASE y \in Stale(Embedded(s, "storyline"))
    BY <1>4, <2>1 DEF StorylinesOf
  <2>2. CASE \E l \in StorylinesOf(s) : y \in ResolveStoryline(l, t)
    BY <1>3, <2>2
  <2> QED
    BY <1>1, <2>1, <2>2 DEF HydrateStoryGraph, StorylinesOf
<1> QED
  BY <1>1, <1>5, <1>6

--------------------------------------------------------------------------------
(* The types, one step at a time *)

LEMMA KindFacts ==
    ASSUME GraphConstants, NEW d \in Docs
    PROVE  /\ KindOf[d] \in DOMAIN Collections
           /\ Embeddable(d) \subseteq AnyCopies
           /\ None \notin Docs
  BY DEF GraphConstants, AnyCopies

\* A copy as old as a document stays so when revisions grow.
LEMMA StaysCurrent ==
    ASSUME GraphConstants, NEW d \in Docs, NEW S \in SUBSET Embeddable(d), Current(S),
           rev \in [Docs -> 0 .. MaxRev], rev' \in [Docs -> 0 .. MaxRev],
           \A x \in Docs : rev[x] <= rev'[x]
    PROVE  Current(S)'
<1>1. ASSUME NEW x \in S PROVE x.rev <= rev'[x.doc]
  <2>1. x.doc \in Docs /\ x.rev \in Nat
    BY EmbeddableCopies, EveryCopy
  <2>2. x.rev <= rev[x.doc] /\ rev[x.doc] <= rev'[x.doc]
    BY <2>1 DEF Current
  <2>3. rev[x.doc] \in Int /\ rev'[x.doc] \in Int
    BY <2>1 DEF GraphConstants
  <2> QED
    BY <2>1, <2>2, <2>3
<1> QED
  BY <1>1 DEF Current

\* Where copies and requests stay and revisions only grow, the rest stays.
LEMMA RevisionsGrow ==
    ASSUME GraphConstants, TypeInv, UNCHANGED <<parts, call>>,
           rev' \in [Docs -> 0 .. MaxRev], \A x \in Docs : rev[x] <= rev'[x],
           there' \subseteq Docs, deleted' \subseteq {d \in Docs : Of(d).delete = "mark"},
           refs' \in [Docs -> SUBSET Docs], edits' \in 0 .. MaxEdits
    PROVE  TypeInv'
<1>1. ASSUME NEW d \in Docs
      PROVE  (parts[d] \subseteq Embeddable(d) /\ Current(parts[d]) /\ Single(d, parts[d]))'
  <2>1. parts[d] \subseteq Embeddable(d) /\ Current(parts[d]) /\ Single(d, parts[d]) /\ rev \in [Docs -> 0 .. MaxRev]
    BY DEF TypeInv
  <2>2. \A x \in parts[d] : x.rev <= rev'[x.doc]
    BY <2>1, StaysCurrent DEF Current
  <2>3. Single(d, parts[d])' /\ Current(parts[d])'
    BY <2>1, <2>2 DEF Single, Current
  <2> QED
    BY <2>1, <2>3
<1>2. ASSUME NEW c \in Calls PROVE Fits(c)'
  <2>1. Fits(c) /\ rev \in [Docs -> 0 .. MaxRev]
    BY DEF TypeInv
  <2>2. CASE call[c].pc \in {"attach", "merge"}
    <3>1. call[c].to \in Docs /\ call[c].copies \subseteq Embeddable(call[c].to) /\ Current(call[c].copies)
      BY <2>1, <2>2 DEF Fits
    <3>2. \A x \in call[c].copies : x.rev <= rev'[x.doc]
      BY <2>1, <3>1, StaysCurrent DEF Current
    <3> QED
      BY <2>1, <3>2 DEF Fits, Current
  <2>3. CASE call[c].pc \notin {"attach", "merge"}
    BY <2>1, <2>3 DEF Fits
  <2> QED
    BY <2>2, <2>3
<1>3. /\ parts' \in [Docs -> SUBSET AnyCopies] /\ call' \in [Calls -> Edits]
  BY DEF TypeInv
<1> QED
  BY <1>1, <1>2, <1>3 DEF TypeInv

LEMMA EditCounts ==
    ASSUME GraphConstants, TypeInv, Edit
    PROVE  edits' \in 0 .. MaxEdits
  BY DEF GraphConstants, TypeInv, Edit

LEMMA DocumentStepTypes ==
    ASSUME GraphConstants, TypeInv, NEW d \in Docs,
           Create(d) \/ Update(d) \/ StartStop(d) \/ Delete(d)
    PROVE  TypeInv'
<1>1. /\ there \subseteq Docs /\ deleted \subseteq {x \in Docs : Of(x).delete = "mark"}
      /\ rev \in [Docs -> 0 .. MaxRev] /\ refs \in [Docs -> SUBSET Docs]
      /\ MaxRev \in Nat /\ Edit
  BY DEF TypeInv, GraphConstants, Create, Update, StartStop, Delete
<1>2. edits' \in 0 .. MaxEdits
  BY <1>1, EditCounts
<1>3. \A x \in Docs : rev[x] <= rev[x]
  BY <1>1
<1>4. ASSUME rev[d] < MaxRev, rev' = [rev EXCEPT ![d] = @ + 1]
      PROVE  rev' \in [Docs -> 0 .. MaxRev] /\ \A x \in Docs : rev[x] <= rev'[x]
  <2>1. \A x \in Docs : rev[x] \in 0 .. MaxRev /\ rev'[x] = IF x = d THEN rev[x] + 1 ELSE rev[x]
    BY <1>1, <1>4
  <2>2. \A x \in Docs : rev'[x] \in 0 .. MaxRev /\ rev[x] <= rev'[x]
    BY <1>1, <1>4, <2>1
  <2>3. rev' = [x \in Docs |-> rev'[x]]
    BY <1>1, <1>4
  <2> QED
    BY <2>2, <2>3
<1>5. CASE Create(d)
  <2>1. there' \subseteq Docs /\ UNCHANGED <<deleted, rev, parts, refs, call>>
    BY <1>1, <1>5 DEF Create
  <2> QED
    BY <1>1, <1>2, <1>3, <2>1, RevisionsGrow
<1>6. CASE Update(d)
  <2>1. UNCHANGED <<there, deleted, parts, call>>
    BY <1>6 DEF Update
  <2>2. CASE rev[d] < MaxRev /\ rev' = [rev EXCEPT ![d] = @ + 1] /\ UNCHANGED <<refs, taken>>
    BY <1>1, <1>2, <1>4, <2>1, <2>2, RevisionsGrow
  <2>3. ASSUME NEW x \in Docs, refs' = [refs EXCEPT ![d] = @ \cup {x}], UNCHANGED rev PROVE TypeInv'
    <3>1. refs' \in [Docs -> SUBSET Docs]
      BY <1>1, <2>3
    <3> QED
      BY <1>1, <1>2, <1>3, <2>1, <2>3, <3>1, RevisionsGrow
  <2> QED
    BY <1>6, <2>2, <2>3 DEF Update
<1>7. CASE StartStop(d)
  <2>1. UNCHANGED <<there, deleted, parts, refs, call>> /\ rev[d] < MaxRev /\ rev' = [rev EXCEPT ![d] = @ + 1]
    BY <1>7 DEF StartStop
  <2> QED
    BY <1>1, <1>2, <1>4, <2>1, RevisionsGrow
<1>8. CASE Delete(d)
  <2>1. /\ UNCHANGED <<rev, parts, refs, call>> /\ there' \subseteq Docs
        /\ deleted' \subseteq {x \in Docs : Of(x).delete = "mark"}
    BY <1>1, <1>8 DEF Delete
  <2> QED
    BY <1>1, <1>2, <1>3, <2>1, RevisionsGrow
<1> QED
  BY <1>5, <1>6, <1>7, <1>8

LEMMA DeleteAllTypes ==
    ASSUME GraphConstants, TypeInv, NEW t, DeleteAllStories(t)
    PROVE  TypeInv'
<1>1. /\ there \subseteq Docs /\ deleted \subseteq {x \in Docs : Of(x).delete = "mark"}
      /\ rev \in [Docs -> 0 .. MaxRev] /\ refs \in [Docs -> SUBSET Docs] /\ Edit
  BY DEF TypeInv, DeleteAllStories
<1>2. edits' \in 0 .. MaxEdits
  BY <1>1, EditCounts
<1>3. \A x \in Docs : KindOf[x] = "story" => Of(x).delete = "mark"
  BY DEF Of, Collections, Stories
<1>4. deleted' \subseteq {x \in Docs : Of(x).delete = "mark"} /\ UNCHANGED <<there, rev, parts, refs, call>>
  BY <1>1, <1>3 DEF DeleteAllStories
<1>5. \A x \in Docs : rev[x] <= rev[x]
  BY <1>1
<1> QED
  BY <1>1, <1>2, <1>4, <1>5, RevisionsGrow

--------------------------------------------------------------------------------
(* Types: copies and requests *)

LEMMA IdleFits ==
    ASSUME GraphConstants, TypeInv, NEW c \in Calls, Returns(c), UNCHANGED rev
    PROVE  call' \in [Calls -> Edits] /\ \A r \in Calls : Fits(r)'
<1>1. call \in [Calls -> Edits] /\ call' = [call EXCEPT ![c] = Idle]
  BY DEF TypeInv, Returns
<1>2. Idle \in Edits /\ Idle.pc = "idle"
  BY DEF Idle, Edits
<1>3. call' \in [Calls -> Edits] /\ call'[c] = Idle /\ \A r \in Calls \ {c} : call'[r] = call[r]
  BY <1>1, <1>2
<1>4. ASSUME NEW r \in Calls \ {c} PROVE Fits(r)'
  <2>1. Fits(r) /\ call'[r] = call[r]
    BY <1>3 DEF TypeInv
  <2> QED
    BY <2>1 DEF Fits, Current
<1>5. Fits(c)'
  BY <1>2, <1>3 DEF Fits
<1> QED
  BY <1>3, <1>4, <1>5

LEMMA StillFits ==
    ASSUME TypeInv, UNCHANGED <<call, rev>>
    PROVE  call' \in [Calls -> Edits] /\ \A r \in Calls : Fits(r)'
  BY DEF TypeInv, Fits, Current

\* A request that starts with what fits.
LEMMA GoesTypes ==
    ASSUME GraphConstants, TypeInv, NEW c \in Calls, NEW pc \in {"attach", "pull", "merge"},
           NEW p \in Docs, NEW d \in Docs, NEW S \in SUBSET AnyCopies, Goes(c, pc, p, d, S), Edit,
           pc = "attach" => \E x : S = {x} /\ x.doc = d,
           pc = "merge" => KindOf[p] = "story",
           pc \in {"attach", "merge"} => S \subseteq Embeddable(p) /\ Current(S),
           UNCHANGED <<there, deleted, rev, parts, refs>>
    PROVE  TypeInv'
<1> DEFINE k == [pc |-> pc, to |-> p, of |-> d, copies |-> S]
<1>1. call \in [Calls -> Edits] /\ call' = [call EXCEPT ![c] = k]
  BY DEF TypeInv, Goes
<1>2. k \in Edits /\ k.pc = pc /\ k.to = p /\ k.of = d /\ k.copies = S
  BY DEF Edits
<1> HIDE DEF k
<1>3. call' \in [Calls -> Edits] /\ call'[c] = k /\ \A r \in Calls \ {c} : call'[r] = call[r]
  BY <1>1, <1>2
<1>4. ASSUME NEW r \in Calls \ {c} PROVE Fits(r)'
  <2>1. Fits(r) /\ call'[r] = call[r]
    BY <1>3 DEF TypeInv
  <2> QED
    BY <2>1 DEF Fits, Current
<1>5. Fits(c)'
  <2>1. Current(S) => \A x \in S : x.rev <= rev'[x.doc]
    BY DEF Current
  <2> QED
    BY <1>2, <1>3, <2>1 DEF Fits, Current
<1>6. edits' \in 0 .. MaxEdits
  BY EditCounts
<1>7. \A x \in Docs : (parts[x] \subseteq Embeddable(x) /\ Current(parts[x]) /\ Single(x, parts[x]))'
  BY DEF TypeInv, Current, Single
<1> QED
  BY <1>3, <1>4, <1>5, <1>6, <1>7 DEF TypeInv

\* A document whose copies change for such as fit.
LEMMA PartsTypes ==
    ASSUME GraphConstants, TypeInv, NEW p \in Docs, NEW S \in SUBSET Embeddable(p), Current(S), Single(p, S),
           parts' = [parts EXCEPT ![p] = S], UNCHANGED <<there, deleted, rev>>,
           refs' \in [Docs -> SUBSET Docs], edits' \in 0 .. MaxEdits,
           call' \in [Calls -> Edits], \A r \in Calls : Fits(r)'
    PROVE  TypeInv'
<1>1. parts \in [Docs -> SUBSET AnyCopies] /\ S \in SUBSET AnyCopies
  BY DEF TypeInv, AnyCopies
<1>2. parts' \in [Docs -> SUBSET AnyCopies] /\ parts'[p] = S /\ \A d \in Docs \ {p} : parts'[d] = parts[d]
  BY <1>1
<1>3. ASSUME NEW d \in Docs
      PROVE  (parts[d] \subseteq Embeddable(d) /\ Current(parts[d]) /\ Single(d, parts[d]))'
  <2>1. CASE d = p
    BY <1>2, <2>1 DEF Current, Single
  <2>2. CASE d # p
    <3>1. parts'[d] = parts[d] /\ parts[d] \subseteq Embeddable(d) /\ Current(parts[d]) /\ Single(d, parts[d])
      BY <1>2, <2>2 DEF TypeInv
    <3> QED
      BY <3>1 DEF Current, Single
  <2> QED
    BY <2>1, <2>2
<1> QED
  BY <1>2, <1>3 DEF TypeInv

\* A document that loses copies.
LEMMA LosesTypes ==
    ASSUME GraphConstants, TypeInv, NEW p \in Docs, NEW S \in SUBSET parts[p],
           parts' = [parts EXCEPT ![p] = S], UNCHANGED <<there, deleted, rev>>,
           refs' \in [Docs -> SUBSET Docs], edits' \in 0 .. MaxEdits,
           call' \in [Calls -> Edits], \A r \in Calls : Fits(r)'
    PROVE  TypeInv'
<1>1. S \subseteq Embeddable(p) /\ Current(S) /\ Single(p, S)
  BY DEF TypeInv, Current, Single
<1> QED
  BY <1>1, PartsTypes

LEMMA DetachTypes ==
    ASSUME GraphConstants, TypeInv, NEW p \in Docs,
           \/ \E l \in Docs : RemoveStoryline(p, l)
           \/ \E e : RemoveEnactment(p, e)
           \/ RemoveScene(p)
           \/ \E x : RemoveFromScene(p, x)
    PROVE  TypeInv'
<1>1. parts \in [Docs -> SUBSET AnyCopies] /\ refs \in [Docs -> SUBSET Docs]
  BY DEF TypeInv
<1>2. /\ Edit /\ UNCHANGED <<there, deleted, rev, call>>
      /\ \E S \in SUBSET parts[p] : parts' = [parts EXCEPT ![p] = S]
      /\ refs' \in [Docs -> SUBSET Docs]
  <2>1. CASE \E l \in Docs : RemoveStoryline(p, l)
    <3>1. PICK l \in Docs : RemoveStoryline(p, l)
      BY <2>1
    <3>2. parts' = [parts EXCEPT ![p] = Without(parts[p], l)] /\ Without(parts[p], l) \in SUBSET parts[p]
      BY <1>1, <3>1 DEF RemoveStoryline, Without
    <3>3. refs' \in [Docs -> SUBSET Docs]
      BY <1>1, <3>1 DEF RemoveStoryline
    <3> QED
      BY <3>1, <3>2, <3>3 DEF RemoveStoryline
  <2>2. CASE \E e : RemoveEnactment(p, e)
    <3>1. PICK e : RemoveEnactment(p, e)
      BY <2>2
    <3>2. parts' = [parts EXCEPT ![p] = Without(parts[p], e)] /\ Without(parts[p], e) \in SUBSET parts[p]
      BY <1>1, <3>1 DEF RemoveEnactment, Without
    <3> QED
      BY <1>1, <3>1, <3>2 DEF RemoveEnactment
  <2>3. CASE RemoveScene(p)
    <3> DEFINE S == {x \in parts[p] : KindOf[x.doc] # "scene"}
    <3>1. parts' = [parts EXCEPT ![p] = S] /\ S \in SUBSET parts[p]
      BY <1>1, <2>3 DEF RemoveScene
    <3> QED
      BY <1>1, <2>3, <3>1 DEF RemoveScene
  <2>4. CASE \E x : RemoveFromScene(p, x)
    <3>1. PICK x : RemoveFromScene(p, x)
      BY <2>4
    <3>2. parts' = [parts EXCEPT ![p] = Without(parts[p], x)] /\ Without(parts[p], x) \in SUBSET parts[p]
      BY <1>1, <3>1 DEF RemoveFromScene, Without
    <3> QED
      BY <1>1, <3>1, <3>2 DEF RemoveFromScene
  <2> QED
    BY <2>1, <2>2, <2>3, <2>4
<1>3. edits' \in 0 .. MaxEdits
  BY <1>2, EditCounts
<1>4. call' \in [Calls -> Edits] /\ \A r \in Calls : Fits(r)'
  BY <1>2, StillFits
<1> QED
  BY <1>2, <1>3, <1>4, LosesTypes

LEMMA FindTypes ==
    ASSUME GraphConstants, TypeInv, NEW c \in Calls, NEW p \in Docs, NEW d \in Docs,
           \/ KindOf[d] \in Of(p).embeds /\ AttachFind(c, p, d)
           \/ RemoveTriggerFind(c, p, d)
           \/ KindOf[p] = "story" /\ KindOf[d] = "story" /\ MergeFind(c, p, d)
    PROVE  TypeInv'
<1>1. CASE KindOf[d] \in Of(p).embeds /\ AttachFind(c, p, d)
  <2>1. /\ Owner[d] = Owner[p] /\ Goes(c, "attach", p, d, {CopyOf(d)}) /\ Edit
        /\ UNCHANGED <<there, deleted, rev, parts, refs>>
    BY <1>1 DEF AttachFind, Found
  <2>2. CopyOf(d) \in Embeddable(p) /\ CopyOf(d).doc = d /\ Current({CopyOf(d)})
    BY <1>1, <2>1, CopyFits
  <2>3. {CopyOf(d)} \in SUBSET AnyCopies
    BY <2>2, KindFacts
  <2> QED
    BY <2>1, <2>2, <2>3, GoesTypes
<1>2. CASE RemoveTriggerFind(c, p, d)
  <2>1. Goes(c, "pull", p, d, {}) /\ Edit /\ UNCHANGED <<there, deleted, rev, parts, refs>>
    BY <1>2 DEF RemoveTriggerFind
  <2> QED
    BY <2>1, GoesTypes
<1>3. CASE KindOf[p] = "story" /\ KindOf[d] = "story" /\ MergeFind(c, p, d)
  <2>1. /\ Goes(c, "merge", p, d, parts[d]) /\ Edit /\ Owner[d] = Owner[p]
        /\ UNCHANGED <<there, deleted, rev, parts, refs>>
    BY <1>3 DEF MergeFind
  <2>2. parts[d] \subseteq Embeddable(d) /\ Current(parts[d]) /\ parts[d] \in SUBSET AnyCopies
    BY DEF TypeInv
  <2>3. Embeddable(d) = Embeddable(p)
    BY <1>3, <2>1 DEF Embeddable, Of
  <2> QED
    BY <1>3, <2>1, <2>2, <2>3, GoesTypes
<1> QED
  BY <1>1, <1>2, <1>3

LEMMA AttachWriteTypes ==
    ASSUME GraphConstants, TypeInv, NEW c \in Calls, AttachWrite(c)
    PROVE  TypeInv'
<1> DEFINE p == call[c].to
           d == call[c].of
           S == {x \in parts[p] : KindOf[d] \in Of(p).one => KindOf[x.doc] # KindOf[d]} \cup call[c].copies
<1>1. /\ call[c].pc = "attach" /\ parts' = [parts EXCEPT ![p] = S] /\ Returns(c)
      /\ UNCHANGED <<there, deleted, rev, refs, edits>>
  BY DEF AttachWrite
<1>2. /\ p \in Docs /\ d \in Docs /\ call[c].copies \subseteq Embeddable(p) /\ Current(call[c].copies)
      /\ \E x : call[c].copies = {x} /\ x.doc = d
  BY <1>1 DEF TypeInv, Fits
<1>3. parts[p] \subseteq Embeddable(p) /\ Current(parts[p]) /\ Single(p, parts[p])
  BY <1>2 DEF TypeInv
<1> HIDE DEF p, d
<1>4. S \in SUBSET Embeddable(p) /\ Current(S)
  BY <1>2, <1>3 DEF Current
<1>5. Single(p, S)
  <2>1. PICK z : call[c].copies = {z} /\ z.doc = d
    BY <1>2
  <2> SUFFICES ASSUME NEW x \in S, NEW y \in S, KindOf[x.doc] = KindOf[y.doc], KindOf[x.doc] \in Of(p).one
               PROVE  x = y
    BY DEF Single
  <2>2. CASE x \in parts[p] /\ y \in parts[p]
    BY <1>3, <2>2 DEF Single
  <2>3. CASE x = z \/ y = z
    BY <2>1, <2>3
  <2> QED
    BY <2>1, <2>2, <2>3
<1>6. call' \in [Calls -> Edits] /\ \A r \in Calls : Fits(r)'
  BY <1>1, IdleFits
<1>7. refs' \in [Docs -> SUBSET Docs] /\ edits' \in 0 .. MaxEdits
  BY <1>1 DEF TypeInv
<1> HIDE DEF S
<1> QED
  BY <1>1, <1>2, <1>4, <1>5, <1>6, <1>7, PartsTypes

LEMMA MergeWriteTypes ==
    ASSUME GraphConstants, TypeInv, NEW c \in Calls, MergeWrite(c)
    PROVE  TypeInv'
<1> DEFINE s == call[c].to
           S == parts[s] \cup call[c].copies
<1>1. parts \in [Docs -> SUBSET AnyCopies]
  BY DEF TypeInv
<1>2. /\ call[c].pc = "merge" /\ Returns(c) /\ UNCHANGED <<there, deleted, rev, refs, edits>>
      /\ parts' = [parts EXCEPT ![s] = @ \cup call[c].copies]
  BY DEF MergeWrite
<1>3. s \in Docs /\ KindOf[s] = "story" /\ call[c].copies \subseteq Embeddable(s) /\ Current(call[c].copies)
  BY <1>2 DEF TypeInv, Fits
<1>4. parts[s] \subseteq Embeddable(s) /\ Current(parts[s]) /\ parts' = [parts EXCEPT ![s] = S]
  BY <1>1, <1>2, <1>3 DEF TypeInv
<1> HIDE DEF s
<1>5. S \in SUBSET Embeddable(s) /\ Current(S)
  BY <1>3, <1>4 DEF Current
<1>6. Single(s, S)
  BY <1>3, EmbedKinds DEF Single
<1>7. call' \in [Calls -> Edits] /\ \A r \in Calls : Fits(r)'
  BY <1>2, IdleFits
<1>8. refs' \in [Docs -> SUBSET Docs] /\ edits' \in 0 .. MaxEdits
  BY <1>2 DEF TypeInv
<1> HIDE DEF S
<1> QED
  BY <1>2, <1>3, <1>4, <1>5, <1>6, <1>7, <1>8, PartsTypes

LEMMA PullTypes ==
    ASSUME GraphConstants, TypeInv, NEW c \in Calls, RemoveTriggerPull(c)
    PROVE  TypeInv'
<1> DEFINE p == call[c].to
           S == Without(parts[p], call[c].of)
<1>1. parts \in [Docs -> SUBSET AnyCopies]
  BY DEF TypeInv
<1>2. /\ call[c].pc = "pull" /\ Returns(c) /\ UNCHANGED <<there, deleted, rev, refs, edits>>
      /\ parts' = [parts EXCEPT ![p] = Without(@, call[c].of)]
  BY DEF RemoveTriggerPull
<1>3. p \in Docs
  BY <1>2 DEF TypeInv, Fits
<1>4. parts' = [parts EXCEPT ![p] = S] /\ S \in SUBSET parts[p]
  BY <1>1, <1>2, <1>3 DEF Without
<1>5. call' \in [Calls -> Edits] /\ \A r \in Calls : Fits(r)'
  BY <1>2, IdleFits
<1>6. refs' \in [Docs -> SUBSET Docs] /\ edits' \in 0 .. MaxEdits
  BY <1>2 DEF TypeInv
<1> HIDE DEF p, S
<1> QED
  BY <1>2, <1>3, <1>4, <1>5, <1>6, LosesTypes

LEMMA StartsTyped ==
    ASSUME GraphConstants, NEW docs \in SUBSET Docs, GraphWith(docs)
    PROVE  TypeInv
<1>1. /\ there = docs /\ deleted = {} /\ rev = [d \in Docs |-> 0] /\ parts = Built /\ refs = Deployed
      /\ call = [c \in Calls |-> Idle] /\ edits = 0
  BY DEF GraphWith
<1>2. rev \in [Docs -> 0 .. MaxRev] /\ refs \in [Docs -> SUBSET Docs] /\ edits \in 0 .. MaxEdits
  BY <1>1 DEF GraphConstants
<1>3. ASSUME NEW d \in Docs PROVE parts[d] \subseteq Embeddable(d) /\ Current(parts[d]) /\ Single(d, parts[d])
  <2>1. parts[d] \subseteq Embeddable(d) /\ \A x \in parts[d] : x.rev = 0
    BY <1>1 DEF GraphConstants
  <2>2. \A x \in parts[d] : x.doc \in Docs
    BY <2>1, EmbeddableCopies, EveryCopy
  <2>3. Current(parts[d])
    BY <1>1, <2>1, <2>2 DEF Current
  <2>4. Single(d, parts[d])
    BY <1>1 DEF GraphConstants, Single
  <2> QED
    BY <2>1, <2>3, <2>4
<1>4. parts \in [Docs -> SUBSET AnyCopies]
  <2>1. parts = [d \in Docs |-> Built[d]] /\ \A d \in Docs : Built[d] \in SUBSET AnyCopies
    BY <1>1, <1>3, KindFacts DEF GraphConstants
  <2> QED
    BY <2>1
<1>5. call \in [Calls -> Edits] /\ \A c \in Calls : Fits(c)
  <2>1. Idle \in Edits /\ Idle.pc = "idle"
    BY DEF Idle, Edits
  <2> QED
    BY <1>1, <2>1 DEF Fits
<1> QED
  BY <1>1, <1>2, <1>3, <1>4, <1>5 DEF TypeInv

LEMMA TypesKept ==
    ASSUME GraphConstants, TypeInv, [GraphNext]_graphVars
    PROVE  TypeInv'
<1>1. ASSUME NEW d \in Docs, Create(d) \/ Update(d) \/ StartStop(d) \/ Delete(d) PROVE TypeInv'
  BY <1>1, DocumentStepTypes
<1>2. ASSUME NEW t, DeleteAllStories(t) PROVE TypeInv'
  BY <1>2, DeleteAllTypes
<1>3. ASSUME NEW c \in Calls, NEW p \in Docs, NEW d \in Docs, KindOf[d] \in Of(p).embeds, AttachFind(c, p, d)
      PROVE  TypeInv'
  BY <1>3, FindTypes
<1>4. ASSUME NEW s \in OfKind("story"), NEW l \in OfKind("storyline"), RemoveStoryline(s, l) PROVE TypeInv'
  BY <1>4, DetachTypes DEF OfKind
<1>5. ASSUME NEW l \in OfKind("storyline"), NEW e, RemoveEnactment(l, e) PROVE TypeInv'
  BY <1>5, DetachTypes DEF OfKind
<1>6. ASSUME NEW e \in OfKind("enactment"), RemoveScene(e) PROVE TypeInv'
  BY <1>6, DetachTypes DEF OfKind
<1>7. ASSUME NEW p \in OfKind("scene") \cup OfKind("message"), NEW x, RemoveFromScene(p, x) PROVE TypeInv'
  BY <1>7, DetachTypes DEF OfKind
<1>8. ASSUME NEW c \in Calls, NEW e \in OfKind("enactment"), NEW t \in OfKind("trigger"), RemoveTriggerFind(c, e, t)
      PROVE  TypeInv'
  BY <1>8, FindTypes DEF OfKind
<1>9. ASSUME NEW c \in Calls, NEW s \in OfKind("story"), NEW src \in OfKind("story"), MergeFind(c, s, src)
      PROVE  TypeInv'
  BY <1>9, FindTypes DEF OfKind
<1>10. ASSUME NEW c \in Calls, AttachWrite(c) \/ RemoveTriggerPull(c) \/ MergeWrite(c) PROVE TypeInv'
  BY <1>10, AttachWriteTypes, PullTypes, MergeWriteTypes
<1>11. CASE UNCHANGED graphVars
  <2>1. UNCHANGED <<there, deleted, rev, parts, refs, call, edits>>
    BY <1>11 DEF graphVars
  <2> QED
    BY <2>1 DEF TypeInv, Fits, Current, Single
<1> QED
  BY <1>1, <1>2, <1>3, <1>4, <1>5, <1>6, <1>7, <1>8, <1>9, <1>10, <1>11 DEF GraphNext

--------------------------------------------------------------------------------
(* Removed storylines *)

LEMMA StartsRemoved ==
    ASSUME GraphConstants, GraphInit
    PROVE  RemovedInv
<1>1. there = Docs \ Unborn /\ refs = Deployed /\ taken = {}
  BY DEF GraphInit, GraphWith
<1>2. \A d \in Docs : refs[d] \subseteq there
  BY <1>1 DEF GraphConstants
<1>3. OfKind("storyline") \ Unborn \subseteq there
  BY <1>1 DEF OfKind
<1> QED
  BY <1>1, <1>2, <1>3 DEF RemovedInv

\* What a step may do for removals to last: storylines stay in their collection,
\* and what is new among copies and references is taken no more.
LEMMA RemovalLasts ==
    ASSUME RemovedInv,
           \A x \in there : KindOf[x] = "storyline" => x \in there',
           taken' \subseteq OfKind("story") \X OfKind("storyline"),
           \A d \in Docs : \A x \in refs'[d] : KindOf[x] = "storyline" => x \in refs[d] \/ x \in there,
           \A s, l \in Docs : <<s, l>> \in taken' =>
             /\ l \in DocsIn(parts'[s]) => l \in DocsIn(parts[s]) /\ <<s, l>> \in taken
             /\ l \in refs'[s] => Owner[l] # Owner[s] \/ (l \in refs[s] /\ <<s, l>> \in taken)
    PROVE  RemovedInv'
<1>1. \A d \in Docs : \A x \in refs'[d] : KindOf[x] = "storyline" => x \in there'
  BY DEF RemovedInv
<1>2. ASSUME NEW s \in Docs, NEW l \in Docs, <<s, l>> \in taken'
      PROVE  l \notin DocsIn(parts'[s]) /\ (l \in refs'[s] => Owner[l] # Owner[s])
  BY <1>2 DEF RemovedInv
<1>3. (OfKind("storyline") \ Unborn \subseteq there)'
  BY DEF RemovedInv, OfKind
<1> QED
  BY <1>1, <1>2, <1>3 DEF RemovedInv

\* The steps that write neither copies nor removals.
LEMMA DocumentStepsKeep ==
    ASSUME GraphConstants, TypeInv, RemovedInv, NEW d \in Docs,
           Create(d) \/ Update(d) \/ StartStop(d) \/ Delete(d)
    PROVE  RemovedInv'
<1>1. refs \in [Docs -> SUBSET Docs] /\ there \subseteq Docs
  BY DEF TypeInv
<1>2. taken \subseteq OfKind("story") \X OfKind("storyline")
  BY DEF RemovedInv
<1>3. CASE Create(d)
  <2>1. there \subseteq there' /\ UNCHANGED <<parts, refs, taken>>
    BY <1>3 DEF Create
  <2> QED
    BY <1>2, <2>1, RemovalLasts
<1>4. CASE StartStop(d)
  <2>1. UNCHANGED <<there, parts, refs, taken>>
    BY <1>4 DEF StartStop
  <2> QED
    BY <1>2, <2>1, RemovalLasts
<1>5. CASE Delete(d)
  <2>1. UNCHANGED <<parts, refs, taken>>
    BY <1>5 DEF Delete
  <2>2. KindOf[d] = "storyline" => Of(d).delete = "mark"
    BY EmbedKinds
  <2>3. \A x \in there : KindOf[x] = "storyline" => x \in there'
    BY <1>5, <2>2 DEF Delete
  <2> QED
    BY <1>2, <2>1, <2>3, RemovalLasts
<1>6. CASE Update(d)
  <2>1. UNCHANGED <<there, parts>>
    BY <1>6 DEF Update
  <2>2. CASE UNCHANGED <<refs, taken>>
    BY <1>2, <2>1, <2>2, RemovalLasts
  <2>3. ASSUME NEW x \in Docs \ (Unborn \ there), KindOf[x] \in Updatable[KindOf[d]],
               refs' = [refs EXCEPT ![d] = @ \cup {x}], taken' = taken \ {<<d, x>>}
        PROVE  RemovedInv'
    <3>1. \A s \in Docs : refs'[s] = IF s = d THEN refs[s] \cup {x} ELSE refs[s]
      BY <1>1, <2>3
    <3>2. KindOf[x] = "storyline" => x \in there
      BY <2>3 DEF RemovedInv, OfKind
    <3>3. \A s \in Docs : \A y \in refs'[s] : KindOf[y] = "storyline" => y \in refs[s] \/ y \in there
      BY <3>1, <3>2
    <3>4. \A s, l \in Docs : <<s, l>> \in taken' /\ l \in refs'[s] => l \in refs[s] /\ <<s, l>> \in taken
      BY <2>3, <3>1
    <3>5. \A s, l \in Docs : <<s, l>> \in taken' /\ l \in DocsIn(parts'[s]) => l \in DocsIn(parts[s]) /\ <<s, l>> \in taken
      BY <2>1, <2>3
    <3> QED
      BY <1>2, <2>1, <2>3, <3>3, <3>4, <3>5, RemovalLasts
  <2> QED
    BY <1>6, <2>2, <2>3 DEF Update
<1> QED
  BY <1>3, <1>4, <1>5, <1>6

\* A detachment takes copies away, and a removal records itself.
LEMMA DetachKeeps ==
    ASSUME GraphConstants, TypeInv, RemovedInv, NEW p \in Docs,
           \/ KindOf[p] = "story" /\ \E l \in OfKind("storyline") : RemoveStoryline(p, l)
           \/ \E e : RemoveEnactment(p, e)
           \/ RemoveScene(p)
           \/ \E x : RemoveFromScene(p, x)
    PROVE  RemovedInv'
<1>1. parts \in [Docs -> SUBSET AnyCopies] /\ refs \in [Docs -> SUBSET Docs] /\ there \subseteq Docs
  BY DEF TypeInv
<1>2. /\ taken \subseteq OfKind("story") \X OfKind("storyline")
      /\ \A d \in Docs : \A x \in refs[d] : KindOf[x] = "storyline" => x \in there
  BY DEF RemovedInv
<1>3. CASE KindOf[p] = "story" /\ \E l \in OfKind("storyline") : RemoveStoryline(p, l)
  <2>1. PICK l \in OfKind("storyline") : RemoveStoryline(p, l)
    BY <1>3
  <2>2. /\ parts' = [parts EXCEPT ![p] = Without(@, l)] /\ taken' = taken \cup {<<p, l>>}
        /\ refs' = IF Found(l, Owner[p]) THEN [refs EXCEPT ![p] = @ \ {l}] ELSE refs
        /\ UNCHANGED there
    BY <2>1 DEF RemoveStoryline
  <2>3. /\ parts'[p] = Without(parts[p], l)
        /\ \A s \in Docs : parts'[s] \subseteq parts[s] /\ refs'[s] \subseteq refs[s]
    BY <1>1, <2>2 DEF Without
  <2>4. l \notin DocsIn(parts'[p])
    BY <2>3 DEF DocsIn, Without
  <2>5. l \in refs'[p] => Owner[l] # Owner[p]
    <3>1. CASE Found(l, Owner[p])
      BY <1>1, <2>2, <3>1
    <3>2. CASE ~ Found(l, Owner[p])
      BY <1>2, <2>1, <2>2, <3>2 DEF Found, OfKind
    <3> QED
      BY <3>1, <3>2
  <2>6. taken' \subseteq OfKind("story") \X OfKind("storyline")
    BY <1>2, <1>3, <2>1, <2>2 DEF OfKind
  <2>7. ASSUME NEW s \in Docs, NEW y \in Docs, <<s, y>> \in taken'
        PROVE  /\ y \in DocsIn(parts'[s]) => y \in DocsIn(parts[s]) /\ <<s, y>> \in taken
               /\ y \in refs'[s] => Owner[y] # Owner[s] \/ (y \in refs[s] /\ <<s, y>> \in taken)
    <3>1. CASE s = p /\ y = l
      BY <2>4, <2>5, <3>1
    <3>2. CASE ~ (s = p /\ y = l)
      BY <2>2, <2>3, <2>7, <3>2 DEF DocsIn
    <3> QED
      BY <3>1, <3>2
  <2> QED
    BY <1>2, <2>2, <2>3, <2>6, <2>7, RemovalLasts
<1>4. ASSUME UNCHANGED <<there, refs, taken>>, NEW S \in SUBSET parts[p], parts' = [parts EXCEPT ![p] = S]
      PROVE  RemovedInv'
  <2>1. \A s \in Docs : parts'[s] \subseteq parts[s]
    BY <1>1, <1>4
  <2>2. \A s \in Docs : DocsIn(parts'[s]) \subseteq DocsIn(parts[s])
    BY <2>1 DEF DocsIn
  <2> QED
    BY <1>2, <1>4, <2>2, RemovalLasts
<1>5. ASSUME NEW e, RemoveEnactment(p, e) PROVE RemovedInv'
  <2>1. /\ parts' = [parts EXCEPT ![p] = Without(parts[p], e)] /\ Without(parts[p], e) \in SUBSET parts[p]
        /\ UNCHANGED <<there, refs, taken>>
    BY <1>1, <1>5 DEF RemoveEnactment, Without
  <2> QED
    BY <1>4, <2>1
<1>6. CASE RemoveScene(p)
  <2> DEFINE S == {x \in parts[p] : KindOf[x.doc] # "scene"}
  <2>1. parts' = [parts EXCEPT ![p] = S] /\ S \in SUBSET parts[p] /\ UNCHANGED <<there, refs, taken>>
    BY <1>1, <1>6 DEF RemoveScene
  <2> HIDE DEF S
  <2> QED
    BY <1>4, <2>1
<1>7. ASSUME NEW x, RemoveFromScene(p, x) PROVE RemovedInv'
  <2>1. /\ parts' = [parts EXCEPT ![p] = Without(parts[p], x)] /\ Without(parts[p], x) \in SUBSET parts[p]
        /\ UNCHANGED <<there, refs, taken>>
    BY <1>1, <1>7 DEF RemoveFromScene, Without
  <2> QED
    BY <1>4, <2>1
<1> QED
  BY <1>3, <1>5, <1>6, <1>7

\* What a request adds is recorded as put back.
LEMMA RequestsKeep ==
    ASSUME GraphConstants, TypeInv, RemovedInv, NEW c \in Calls,
           AttachWrite(c) \/ RemoveTriggerPull(c) \/ MergeWrite(c)
    PROVE  RemovedInv'
<1>1. parts \in [Docs -> SUBSET AnyCopies] /\ call[c].to \in Docs
  BY DEF TypeInv, Fits, AttachWrite, RemoveTriggerPull, MergeWrite
<1>2. /\ taken \subseteq OfKind("story") \X OfKind("storyline") /\ UNCHANGED <<there, refs>>
      /\ \A d \in Docs : \A x \in refs[d] : KindOf[x] = "storyline" => x \in there
  BY DEF RemovedInv, AttachWrite, RemoveTriggerPull, MergeWrite
<1>3. PICK p \in Docs : p = call[c].to
  BY <1>1
<1>4. ASSUME NEW S, NEW D, parts' = [parts EXCEPT ![p] = S], taken' = taken \ {<<p, l>> : l \in D},
             DocsIn(S) \subseteq DocsIn(parts[p]) \cup D
      PROVE  RemovedInv'
  <2>1. parts'[p] = S /\ \A s \in Docs \ {p} : parts'[s] = parts[s]
    BY <1>1, <1>4
  <2>2. taken' \subseteq taken /\ \A l \in D : <<p, l>> \notin taken'
    BY <1>4
  <2>3. ASSUME NEW s \in Docs, NEW l \in Docs, <<s, l>> \in taken', l \in DocsIn(parts'[s])
        PROVE  l \in DocsIn(parts[s])
    BY <1>4, <2>1, <2>2, <2>3
  <2> QED
    BY <1>2, <2>2, <2>3, RemovalLasts
<1>5. CASE AttachWrite(c)
  <2> DEFINE S == {x \in parts[p] : KindOf[call[c].of] \in Of(p).one => KindOf[x.doc] # KindOf[call[c].of]}
                  \cup call[c].copies
  <2>1. parts' = [parts EXCEPT ![p] = S] /\ taken' = taken \ {<<p, call[c].of>>} /\ call[c].pc = "attach"
    BY <1>3, <1>5 DEF AttachWrite
  <2>2. \E x : call[c].copies = {x} /\ x.doc = call[c].of
    BY <2>1 DEF TypeInv, Fits
  <2>3. DocsIn(S) \subseteq DocsIn(parts[p]) \cup {call[c].of}
    BY <2>2 DEF DocsIn
  <2>4. taken' = taken \ {<<p, l>> : l \in {call[c].of}}
    BY <2>1
  <2> HIDE DEF S
  <2> QED
    BY <1>4, <2>1, <2>3, <2>4
<1>6. CASE MergeWrite(c)
  <2> DEFINE S == parts[p] \cup call[c].copies
  <2>1. parts' = [parts EXCEPT ![p] = S] /\ taken' = taken \ {<<p, l>> : l \in DocsIn(call[c].copies)}
    BY <1>1, <1>3, <1>6 DEF MergeWrite
  <2>2. DocsIn(S) \subseteq DocsIn(parts[p]) \cup DocsIn(call[c].copies)
    BY DEF DocsIn
  <2> HIDE DEF S
  <2> QED
    BY <1>4, <2>1, <2>2
<1>7. CASE RemoveTriggerPull(c)
  <2>1. /\ parts' = [parts EXCEPT ![p] = Without(parts[p], call[c].of)] /\ UNCHANGED taken
    BY <1>1, <1>3, <1>7 DEF RemoveTriggerPull
  <2>2. DocsIn(Without(parts[p], call[c].of)) \subseteq DocsIn(parts[p]) \cup {}
    BY DEF DocsIn, Without
  <2>3. taken' = taken \ {<<p, l>> : l \in {}}
    BY <2>1
  <2> QED
    BY <1>4, <2>1, <2>2, <2>3
<1> QED
  BY <1>5, <1>6, <1>7

LEMMA RemovalsKept ==
    ASSUME GraphConstants, TypeInv, RemovedInv, [GraphNext]_graphVars
    PROVE  RemovedInv'
<1>1. ASSUME NEW d \in Docs, Create(d) \/ Update(d) \/ StartStop(d) \/ Delete(d) PROVE RemovedInv'
  BY <1>1, DocumentStepsKeep
<1>2. ASSUME UNCHANGED <<there, parts, refs, taken>> PROVE RemovedInv'
  BY <1>2 DEF RemovedInv
<1>3. ASSUME NEW t, DeleteAllStories(t) PROVE RemovedInv'
  BY <1>2, <1>3 DEF DeleteAllStories
<1>4. ASSUME NEW c, NEW p, NEW d, AttachFind(c, p, d) \/ RemoveTriggerFind(c, p, d) \/ MergeFind(c, p, d)
      PROVE  RemovedInv'
  BY <1>2, <1>4 DEF AttachFind, RemoveTriggerFind, MergeFind
<1>5. ASSUME NEW s \in OfKind("story"), NEW l \in OfKind("storyline"), RemoveStoryline(s, l) PROVE RemovedInv'
  BY <1>5, DetachKeeps DEF OfKind
<1>6. ASSUME NEW l \in OfKind("storyline"), NEW e, RemoveEnactment(l, e) PROVE RemovedInv'
  BY <1>6, DetachKeeps DEF OfKind
<1>7. ASSUME NEW e \in OfKind("enactment"), RemoveScene(e) PROVE RemovedInv'
  BY <1>7, DetachKeeps DEF OfKind
<1>8. ASSUME NEW p \in OfKind("scene") \cup OfKind("message"), NEW x, RemoveFromScene(p, x) PROVE RemovedInv'
  BY <1>8, DetachKeeps DEF OfKind
<1>9. ASSUME NEW c \in Calls, AttachWrite(c) \/ RemoveTriggerPull(c) \/ MergeWrite(c) PROVE RemovedInv'
  BY <1>9, RequestsKeep
<1>10. CASE UNCHANGED graphVars
  BY <1>2, <1>10 DEF graphVars
<1> QED
  BY <1>1, <1>3, <1>4, <1>5, <1>6, <1>7, <1>8, <1>9, <1>10 DEF GraphNext

--------------------------------------------------------------------------------
(* The readers re-read *)

\* The editor, down from a storyline the story embeds.
LEMMA EditorRefetches ==
    ASSUME GraphConstants, TypeInv, NEW s \in Docs
    PROVE  \A l \in EmbeddedDocs(s, "storyline") :
             /\ Fresh(l) \in HydrateStory(s)
             /\ \A e \in EmbeddedDocs(l, "enactment") :
                  /\ Fresh(e) \in HydrateStory(s)
                  /\ \A x \in EmbeddedDocs(e, "scene") :
                       /\ Fresh(x) \in HydrateStory(s)
                       /\ \A m \in EmbeddedDocs(x, "message") :
                            \E r \in 0 .. MaxRev : [doc |-> m, rev |-> r] \in HydrateStory(s)
<1>1. PICK t : t = Owner[s]
  OBVIOUS
<1>2. ASSUME NEW d, NEW k, EmbeddedDocs(d, k) # {} PROVE Linked(d, k, t) = EmbeddedDocs(d, k)
  BY <1>2 DEF Linked, EmbeddedDocs, DocsIn
<1>3. ASSUME NEW l \in EmbeddedDocs(s, "storyline") PROVE RefetchStoryline(l, t) \subseteq HydrateStory(s)
  BY <1>1 DEF HydrateStory, StorylinesOf
<1>4. ASSUME NEW l, NEW e \in EmbeddedDocs(l, "enactment")
      PROVE  RefetchEnactment(e, t) \subseteq RefetchStoryline(l, t)
  BY <1>2 DEF RefetchStoryline
<1>5. ASSUME NEW e, NEW x \in EmbeddedDocs(e, "scene") PROVE RefetchScene(x) \subseteq RefetchEnactment(e, t)
  BY <1>2 DEF RefetchEnactment
<1>6. ASSUME NEW x \in Docs, NEW m \in EmbeddedDocs(x, "message")
      PROVE  \E r \in 0 .. MaxRev : [doc |-> m, rev |-> r] \in RefetchScene(x)
  <2>1. PICK y \in parts[x] : y.doc = m
    BY DEF EmbeddedDocs, Embedded, DocsIn
  <2>2. y.rev \in 0 .. MaxRev /\ parts[x] \subseteq AllCopies(Owner[x])
    BY PartsOf
  <2>3. [doc |-> m, rev |-> y.rev] \in Stale(parts[x])
    BY <2>1, <2>2, StaleCopies
  <2> QED
    BY <2>2, <2>3 DEF RefetchScene
<1>7. ASSUME NEW l \in EmbeddedDocs(s, "storyline") PROVE Fresh(l) \in HydrateStory(s)
  BY <1>3 DEF RefetchStoryline
<1>8. ASSUME NEW l \in EmbeddedDocs(s, "storyline"), NEW e \in EmbeddedDocs(l, "enactment")
      PROVE  RefetchEnactment(e, t) \subseteq HydrateStory(s) /\ Fresh(e) \in HydrateStory(s)
  <2>1. RefetchEnactment(e, t) \subseteq HydrateStory(s)
    BY <1>3, <1>4
  <2> QED
    BY <2>1 DEF RefetchEnactment
<1>9. ASSUME NEW l \in EmbeddedDocs(s, "storyline"), NEW e \in EmbeddedDocs(l, "enactment"),
             NEW x \in EmbeddedDocs(e, "scene")
      PROVE  /\ Fresh(x) \in HydrateStory(s)
             /\ \A m \in EmbeddedDocs(x, "message") :
                  \E r \in 0 .. MaxRev : [doc |-> m, rev |-> r] \in HydrateStory(s)
  <2>1. RefetchScene(x) \subseteq HydrateStory(s)
    BY <1>5, <1>8
  <2>2. l \in Docs
    BY LinkedOf
  <2>3. e \in Docs
    BY <2>2, LinkedOf
  <2>4. x \in Docs
    BY <2>3, LinkedOf
  <2>5. Fresh(x) \in HydrateStory(s)
    BY <2>1 DEF RefetchScene
  <2> QED
    BY <1>6, <2>1, <2>4, <2>5
<1> QED
  BY <1>7, <1>8, <1>9

\* The engine, down from a storyline the story refers to.
LEMMA EngineResolves ==
    ASSUME NEW s \in Docs
    PROVE  \A l \in Referred(s, "storyline", Owner[s]) \ EmbeddedDocs(s, "storyline") :
             /\ Fresh(l) \in HydrateStoryGraph(s)
             /\ Embedded(l, "enactment") = {} =>
                  \A e \in Referred(l, "enactment", Owner[s]) :
                    /\ Fresh(e) \in HydrateStoryGraph(s)
                    /\ Embedded(e, "scene") = {} =>
                         \A x \in Referred(e, "scene", Owner[s]) : Embedded(x, "message") = {} =>
                           \A m \in Referred(x, "message", Owner[s]) : Fresh(m) \in HydrateStoryGraph(s)
<1>1. PICK t : t = Owner[s]
  OBVIOUS
<1>2. ASSUME NEW l \in Referred(s, "storyline", t) \ EmbeddedDocs(s, "storyline")
      PROVE  ResolveStoryline(l, t) \subseteq HydrateStoryGraph(s)
  BY <1>1 DEF HydrateStoryGraph
<1>3. ASSUME NEW l, Embedded(l, "enactment") = {}, NEW e \in Referred(l, "enactment", t)
      PROVE  HydrateEnactment(e, t) \subseteq ResolveStoryline(l, t)
  <2>1. Part(l, "enactment", UNION {HydrateEnactment(y, t) : y \in Referred(l, "enactment", t)})
          = UNION {HydrateEnactment(y, t) : y \in Referred(l, "enactment", t)}
    BY <1>3 DEF Part
  <2> QED
    BY <1>3, <2>1 DEF ResolveStoryline
<1>4. ASSUME NEW e, Embedded(e, "scene") = {}, NEW x \in Referred(e, "scene", t)
      PROVE  LoadScene(x, t) \subseteq HydrateEnactment(e, t)
  <2>1. Part(e, "scene", UNION {LoadScene(y, t) : y \in Referred(e, "scene", t)})
          = UNION {LoadScene(y, t) : y \in Referred(e, "scene", t)}
    BY <1>4 DEF Part
  <2> QED
    BY <1>4, <2>1 DEF HydrateEnactment
<1>5. ASSUME NEW x, Embedded(x, "message") = {}, NEW m \in Referred(x, "message", t)
      PROVE  Fresh(m) \in LoadScene(x, t)
  <2>1. Part(x, "message", UNION {LoadMessage(y) : y \in Referred(x, "message", t)})
          = UNION {LoadMessage(y) : y \in Referred(x, "message", t)}
    BY <1>5 DEF Part
  <2>2. Fresh(m) \in LoadMessage(m)
    BY DEF LoadMessage
  <2> QED
    BY <1>5, <2>1, <2>2 DEF LoadScene
<1>6. ASSUME NEW l \in Referred(s, "storyline", t) \ EmbeddedDocs(s, "storyline")
      PROVE  Fresh(l) \in HydrateStoryGraph(s)
  BY <1>2 DEF ResolveStoryline
<1>7. ASSUME NEW l \in Referred(s, "storyline", t) \ EmbeddedDocs(s, "storyline"), Embedded(l, "enactment") = {},
             NEW e \in Referred(l, "enactment", t)
      PROVE  HydrateEnactment(e, t) \subseteq HydrateStoryGraph(s) /\ Fresh(e) \in HydrateStoryGraph(s)
  <2>1. HydrateEnactment(e, t) \subseteq HydrateStoryGraph(s)
    BY <1>2, <1>3, <1>7
  <2> QED
    BY <2>1 DEF HydrateEnactment
<1>8. ASSUME NEW l \in Referred(s, "storyline", t) \ EmbeddedDocs(s, "storyline"), Embedded(l, "enactment") = {},
             NEW e \in Referred(l, "enactment", t), Embedded(e, "scene") = {},
             NEW x \in Referred(e, "scene", t), Embedded(x, "message") = {}, NEW m \in Referred(x, "message", t)
      PROVE  Fresh(m) \in HydrateStoryGraph(s)
  BY <1>4, <1>5, <1>7, <1>8
<1> QED
  BY <1>1, <1>6, <1>7, <1>8

--------------------------------------------------------------------------------
(* Theorems *)

LEMMA GraphTyped ==
    ASSUME GraphConstants
    PROVE  GraphSpec => []TypeInv
<1>1. GraphInit => TypeInv
  BY StartsTyped DEF GraphInit
<1>2. TypeInv /\ [GraphNext]_graphVars => TypeInv'
  BY TypesKept
<1> QED
  BY <1>1, <1>2, PTL DEF GraphSpec

LEMMA RemovalsHold ==
    ASSUME GraphConstants
    PROVE  GraphSpec => []RemovedInv
<1>1. GraphInit => RemovedInv
  BY StartsRemoved
<1>2. TypeInv /\ RemovedInv /\ [GraphNext]_graphVars => RemovedInv'
  BY RemovalsKept
<1> QED
  BY <1>1, <1>2, GraphTyped, PTL DEF GraphSpec

LEMMA TypedGraph ==
    ASSUME GraphConstants, TypeInv
    PROVE  GraphTypeOK
<1>1. \A d \in Docs : \A x \in parts[d] : KindOf[x.doc] \in Of(d).embeds
  BY PartsOf
<1>2. \A c \in Calls : call[c].pc \in {"idle", "attach", "pull", "merge"}
  BY DEF TypeInv, Edits
<1> QED
  BY <1>1, <1>2 DEF TypeInv, GraphTypeOK, Current, Single

\* Type correctness of the story builder: a document embeds copies of what its
\* collection may embed, no newer than the documents they were taken from and
\* one at most of what there is one of, over requests that find a document and
\* write its copy later (story.go:342-760).
THEOREM GraphTypes ==
    ASSUME GraphConstants
    PROVE  GraphSpec => []GraphTypeOK
<1>1. TypeInv => GraphTypeOK
  BY TypedGraph
<1> QED
  BY <1>1, GraphTyped, PTL

\* Whatever is embedded and referred to, and however requests interleave,
\* neither the editor nor the engine shows a story of one tenant a document of
\* another (hydrateStory, story.go:182; hydrateStoryGraph, story_engine.go:433).
THEOREM TenantsApart ==
    ASSUME GraphConstants
    PROVE  GraphSpec => []TenantsStayApart
<1>1. TypeInv => TenantsStayApart
  BY StorySeen DEF TenantsStayApart, LiveStories, TypeInv
<1> QED
  BY <1>1, GraphTyped, PTL

\* A storyline removed from a story is seen there by neither reader until a
\* request puts it back, though a request that found it before may still write
\* (handleRemoveStorylineFromStory, story.go:398).
THEOREM RemovedStaysGone ==
    ASSUME GraphConstants
    PROVE  GraphSpec => []RemovedIsGone
<1>1. TypeInv /\ RemovedInv => RemovedIsGone
  <2> SUFFICES ASSUME GraphConstants, TypeInv, RemovedInv, NEW s \in LiveStories,
                      NEW y \in HydrateStory(s) \cup HydrateStoryGraph(s), <<s, y.doc>> \in taken
               PROVE  FALSE
    BY DEF RemovedIsGone
  <2>1. s \in Docs
    BY DEF LiveStories, TypeInv
  <2>2. y.doc \in Docs /\ KindOf[y.doc] = "storyline"
    BY DEF RemovedInv, OfKind
  <2>3. y.doc \in StorylinesOf(s)
    BY <2>1, <2>2, StorySeen
  <2>4. y.doc \notin DocsIn(parts[s]) /\ (y.doc \in refs[s] => Owner[y.doc] # Owner[s])
    BY <2>1, <2>2 DEF RemovedInv
  <2> QED
    BY <2>3, <2>4 DEF StorylinesOf, EmbeddedDocs, Embedded, DocsIn, Referred, Found
<1> QED
  BY <1>1, GraphTyped, RemovalsHold, PTL

\* The editor sees what was added to a storyline, an enactment or a scene after
\* it was embedded, and the engine the documents of a graph that is all
\* references, at their present revision (story.go:181, story_engine.go:443).
THEOREM ReadersStayCurrent ==
    ASSUME GraphConstants
    PROVE  GraphSpec => []ReadersAreCurrent
<1>1. TypeInv => ReadersAreCurrent
  <2> SUFFICES ASSUME GraphConstants, TypeInv PROVE ReadersAreCurrent
    OBVIOUS
  <2>1. \A s \in LiveStories : s \in Docs
    BY DEF LiveStories, TypeInv
  <2>2. EditorSeesAdditions
    BY <2>1, EditorRefetches DEF EditorSeesAdditions
  <2>3. EngineSeesReferences
    BY <2>1, EngineResolves DEF EngineSeesReferences
  <2> QED
    BY <2>2, <2>3 DEF ReadersAreCurrent
<1> QED
  BY <1>1, GraphTyped, PTL

--------------------------------------------------------------------------------
(* CONTACTS *)


Owners == Tenants \cup {Nil}
Marks == Badges \cup Tags

\* Of a merge, the row that goes and the row that stays.
Pairs == Rows \X Rows
Sightings == [row : Rows, tenant : Owners, legacy : Owners]
Steps == {"idle", "next", "union", "mark", "scan", "assign", "pull", "retire"}
Works == Pairs \cup Sightings \cup Tags
Items == Pairs \cup Tags \cup {Nil}
Seen == Marks \cup Rows
Jobs == [pc : Steps, todo : SUBSET Works, item : Items, seen : SUBSET Seen]
Asks == [pc : {"idle", "register", "delete"}, of : Badges \cup {Nil},
         email : Emails \cup {Nil}, tenant : Owners]

Unique == \A c, d \in Rows : contact[c].there /\ contact[d].there /\ Alike(c, d) => c = d

Merging == run["dedupe"].pc \in {"union", "mark"}
Migrating == run["taxonomy"].pc \in {"scan", "assign", "pull", "retire"}
First(c, S) == c \in S /\ \A d \in S : c <= d

\* Where each command can be and what it works on there.
DedupeFits ==
    /\ run["dedupe"].pc \in {"idle", "next", "union", "mark"}
    /\ run["dedupe"].todo \subseteq Pairs
    /\ run["dedupe"].seen \subseteq Marks
    /\ Merging => run["dedupe"].item \in Pairs
TenancyFits ==
    /\ run["tenancy"].pc \in {"idle", "next"}
    /\ run["tenancy"].todo \subseteq Sightings
TaxonomyFits ==
    /\ run["taxonomy"].pc \in {"idle", "next", "scan", "assign", "pull", "retire"}
    /\ run["taxonomy"].todo \subseteq Tags
    /\ run["taxonomy"].seen \subseteq Rows
    /\ Migrating => run["taxonomy"].item \in Tags /\ label[run["taxonomy"].item] = "linked"
    /\ At("taxonomy", "pull") => \E c \in Rows : First(c, run["taxonomy"].seen)

RowsFit == contact \in [Rows -> Contact] /\ (indexed => Unique)
DefinitionsFit ==
    /\ badge \in [Badges -> {"live", "deleted"}]
    /\ offers \subseteq Badges
    /\ label \in [Tags -> {"none", "other", "unlinked", "linked"}]
    /\ tag \in [Tags -> {"live", "retired"}]
    /\ \A g \in Tags : tag[g] = "retired" => label[g] = "linked"
AsksFit ==
    /\ request \in [Requests -> Asks]
    /\ \A r \in Requests : /\ request[r].pc = "delete" => request[r].of \in Badges
                           /\ request[r].pc = "register" => /\ request[r].email \in Emails
                                                            /\ request[r].tenant \in Tenants
\* One command at a time.
RunsFit ==
    /\ run \in [Commands -> Jobs]
    /\ DedupeFits /\ TenancyFits /\ TaxonomyFits
    /\ \A j, k \in Commands : At(j, "idle") \/ At(k, "idle") \/ j = k

PeopleInv ==
    /\ RowsFit /\ DefinitionsFit /\ AsksFit /\ RunsFit
    /\ changes \in 0 .. MaxChanges /\ slips \in 0 .. MaxSlips

\* The pairs a merge is at or has yet to come to.
Merges == run["dedupe"].todo \cup (IF Merging THEN {run["dedupe"].item} ELSE {})

\* No row both goes and stays, and of a pair nobody edited, the row that stays is
\* live and of the same tenant and address; while one is worked on and nothing
\* failed, its badges are those that were read, and by the time it is marked
\* the other row has them.
MergeInv ==
    /\ At("dedupe", "idle") => run["dedupe"].todo = {}
    /\ \A x, y \in Merges : x[1] # y[2]
    /\ \A x \in Merges : {x[1], x[2]} \cap touched = {} => Live(x[2]) /\ Alike(x[1], x[2])
    /\ LET x == run["dedupe"].item IN
         Merging /\ slips = 0 /\ {x[1], x[2]} \cap touched = {} =>
           /\ contact[x[1]].badges = run["dedupe"].seen
           /\ At("dedupe", "mark") => run["dedupe"].seen \subseteq contact[x[2]].badges

\* Who counted the holders of a badge counts on there being none.
CountInv ==
    \A r \in Requests, b \in Badges :
        request[r].pc = "delete" /\ request[r].of = b /\ b \notin touched =>
          Holders(b) = {} /\ b \notin offers

\* The contact that is to lose a reference has the label.
LabelInv ==
    /\ \A c \in Rows : ~contact[c].there => contact[c].tags = {}
    /\ At("taxonomy", "pull") =>
         \A c \in Rows : First(c, run["taxonomy"].seen) =>
           run["taxonomy"].item \in contact[c].badges \/ c \in touched
--------------------------------------------------------------------------------
(* Rows *)

\* A set of rows has a first one.
LEMMA Least ==
    ASSUME NEW S \in SUBSET Nat, S # {} PROVE \E c \in S : First(c, S)
<1>1. PICK c \in S : \A d \in S : ~(<<d, c>> \in OpToRel(<, Nat))
  BY NatLessThanWellFounded, WFMin, Zenon
<1>2. \A d \in S : ~(d < c)
  BY <1>1 DEF OpToRel
<1>3. c \in Nat /\ \A d \in S : d \in Nat
  OBVIOUS
<1>4. \A d \in S : c <= d
  BY <1>2, <1>3
<1> QED
  BY <1>4 DEF First

\* The row a merge keeps: the first of the live ones of its tenant and address.
LEMMA CanonicalRow ==
    ASSUME NEW d \in Rows, Live(d)
    PROVE  LET c == Canonical(d) IN
           /\ c \in Rows /\ Live(c) /\ Alike(c, d)
           /\ \A x \in Rows : Live(x) /\ Alike(x, d) => c <= x
<1> DEFINE S == {x \in Rows : Live(x) /\ Alike(x, d)}
<1>1. S \in SUBSET Nat /\ S # {}
  BY DEF Rows, Alike
<1>2. PICK c \in S : First(c, S)
  BY <1>1, Least
<1>3. c \in Rows /\ Live(c) /\ Alike(c, d) /\ \A x \in Rows : Live(x) /\ Alike(x, d) => c <= x
  BY <1>2 DEF First
<1> QED
  BY <1>3 DEF Canonical

\* It is the row kept for itself.
LEMMA CanonicalStays ==
    ASSUME NEW d \in Rows, Live(d) PROVE Canonical(Canonical(d)) = Canonical(d)
<1> DEFINE c == Canonical(d)
<1>1. /\ c \in Rows /\ Live(c) /\ Alike(c, d)
      /\ \A x \in Rows : Live(x) /\ Alike(x, d) => c <= x
  BY CanonicalRow
<1>2. /\ Canonical(c) \in Rows /\ Live(Canonical(c)) /\ Alike(Canonical(c), c)
      /\ \A x \in Rows : Live(x) /\ Alike(x, c) => Canonical(c) <= x
  BY <1>1, CanonicalRow
<1>3. Alike(Canonical(c), d) /\ Alike(c, c)
  BY <1>1, <1>2 DEF Alike
<1>4. c <= Canonical(c) /\ Canonical(c) <= c
  BY <1>1, <1>2, <1>3
<1>5. c \in Int /\ Canonical(c) \in Int
  BY <1>1, <1>2 DEF Rows
<1> QED
  BY <1>4, <1>5

\* Updates of one field of a row.
LEMMA RowUpdates ==
    ASSUME NEW f \in Contact
    PROVE  /\ \A e \in Emails : [f EXCEPT !.email = e] \in Contact
           /\ [f EXCEPT !.deleted = TRUE] \in Contact
           /\ \A B \in SUBSET Marks : [f EXCEPT !.badges = B] \in Contact
           /\ \A G \in SUBSET Tags : [f EXCEPT !.tags = G] \in Contact
           /\ \A t \in Owners : [f EXCEPT !.tenant = t] \in Contact
           /\ \A t \in Owners : [f EXCEPT !.legacy = t] \in Contact
  BY DEF Contact, Marks, Owners

\* The index still tells the rows apart when none changes tenant or address.
LEMMA UniqueSame ==
    ASSUME indexed => Unique, indexed' = indexed,
           \A d \in Rows : /\ contact'[d].there = contact[d].there
                           /\ contact'[d].tenant = contact[d].tenant
                           /\ contact'[d].email = contact[d].email
    PROVE  indexed' => Unique'
  BY DEF Unique, Alike

\* It lets one row change where no other has what it changes to.
LEMMA UniqueKept ==
    ASSUME indexed => Unique, indexed' = indexed, NEW c \in Rows,
           \A d \in Rows \ {c} : contact'[d] = contact[d],
           ~Clash(contact'[c].tenant, contact'[c].email, c)
    PROVE  indexed' => Unique'
<1> SUFFICES ASSUME indexed, NEW a \in Rows, NEW b \in Rows, contact'[a].there, contact'[b].there,
                    contact'[a].tenant = contact'[b].tenant, contact'[a].email = contact'[b].email
             PROVE  a = b
  BY DEF Unique, Alike
<1>1. CASE a = c /\ b # c
  BY <1>1 DEF Clash
<1>2. CASE b = c /\ a # c
  BY <1>2 DEF Clash
<1>3. CASE a # c /\ b # c
  BY <1>3 DEF Unique, Alike
<1> QED
  BY <1>1, <1>2, <1>3

--------------------------------------------------------------------------------
(* Requests *)

\* What a request does to a row that was not touched since.
KeepsRow(c) ==
    /\ contact[c].there =>
         /\ contact'[c].there /\ contact'[c].tags = contact[c].tags
         /\ contact[c].tenant # Nil => contact'[c].tenant = contact[c].tenant
         /\ contact[c].legacy # Nil => contact'[c].legacy # Nil
    /\ ~contact[c].there => contact'[c] = contact[c] \/ contact'[c].tags = {}
    /\ \A b \in contact'[c].badges :
         contact'[c].there /\ ~contact'[c].deleted =>
           b \in touched' \/ (b \in contact[c].badges /\ Live(c))

\* A request writes rows it touches.
Writes ==
    /\ RowsFit' /\ UNCHANGED indexed
    /\ touched \subseteq touched'
    /\ \A c \in Rows : (c \in touched' \/ contact'[c] = contact[c]) /\ KeepsRow(c)

\* One row is written, and touched.
LEMMA WritesOne ==
    ASSUME PeopleInv, NEW c \in Rows, NEW f \in Contact, contact' = [contact EXCEPT ![c] = f],
           UNCHANGED indexed, touched \subseteq touched', c \in touched', indexed' => Unique', KeepsRow(c)
    PROVE  Writes
<1>1. contact \in [Rows -> Contact]
  BY DEF PeopleInv, RowsFit
<1>2. contact' \in [Rows -> Contact]
  BY <1>1
<1>3. \A d \in Rows \ {c} : contact'[d] = contact[d]
  BY <1>1
<1>4. \A d \in Rows \ {c} : KeepsRow(d)
  BY <1>1, <1>3 DEF KeepsRow, Live
<1> QED
  BY <1>2, <1>3, <1>4 DEF Writes, RowsFit

\* A new row is of nobody else's address.
LEMMA InsertWrites ==
    ASSUME ContactsConstants, PeopleInv, NEW t \in Tenants, NEW e \in Emails,
           ~Clash(t, e, Nil), Insert(t, e), UNCHANGED indexed
    PROVE  Writes
<1> DEFINE f == [there |-> TRUE, tenant |-> t, legacy |-> Nil, email |-> e, deleted |-> FALSE,
                 badges |-> {}, tags |-> {}]
<1>1. PICK c \in Rows : /\ ~contact[c].there
                        /\ contact' = [contact EXCEPT ![c] = f]
                        /\ touched' = touched \cup {c}
  BY DEF Insert, Touch
<1>2. f \in Contact
  BY DEF Contact
<1>3. contact \in [Rows -> Contact] /\ (indexed => Unique)
  BY DEF PeopleInv, RowsFit
<1>4. /\ contact'[c] = f
      /\ \A d \in Rows \ {c} : contact'[d] = contact[d]
  BY <1>1, <1>3
<1>5. Rows \ {c} \subseteq Rows \ {Nil}
  BY DEF ContactsConstants
<1>6. ~Clash(contact'[c].tenant, contact'[c].email, c)
  BY <1>4, <1>5 DEF Clash
<1>7. indexed' => Unique'
  BY <1>3, <1>4, <1>6, UniqueKept
<1>8. KeepsRow(c)
  BY <1>1, <1>4 DEF KeepsRow
<1> QED
  BY <1>1, <1>2, <1>7, <1>8, WritesOne

\* Registering, and creating from the dashboard.
LEMMA CreationsWrite ==
    ASSUME ContactsConstants, PeopleInv,
           \/ \E t \in Tenants, e \in Emails : CreateUser(t, e)
           \/ \E r \in Requests : RegisterInsert(r)
    PROVE  Writes
<1>1. ASSUME NEW t \in Tenants, NEW e \in Emails, CreateUser(t, e) PROVE Writes
  BY <1>1, InsertWrites DEF CreateUser
<1>2. ASSUME NEW r \in Requests, RegisterInsert(r) PROVE Writes
  <2>1. request[r].tenant \in Tenants /\ request[r].email \in Emails
    BY <1>2 DEF PeopleInv, AsksFit, RegisterInsert
  <2>2. CASE ~Clash(request[r].tenant, request[r].email, Nil) /\ Insert(request[r].tenant, request[r].email)
    BY <2>1, <2>2, <1>2, InsertWrites DEF RegisterInsert
  <2>3. CASE UNCHANGED <<contact, touched>>
    <3>1. UNCHANGED <<contact, touched, indexed>>
      BY <2>3, <1>2 DEF RegisterInsert
    <3>2. (indexed' => Unique') /\ contact' \in [Rows -> Contact]
      BY <3>1, UniqueSame DEF PeopleInv, RowsFit
    <3>3. \A c \in Rows : KeepsRow(c)
      BY <3>1 DEF KeepsRow, Live
    <3> QED
      BY <3>1, <3>2, <3>3 DEF Writes, RowsFit
  <2> QED
    BY <1>2, <2>2, <2>3 DEF RegisterInsert
<1> QED
  BY <1>1, <1>2

\* Editing one contact.
LEMMA EditsWrite ==
    ASSUME ContactsConstants, PeopleInv, NEW c \in Rows,
           \/ \E e \in Emails : UpdateUser(c, e)
           \/ \E b \in Marks : AssignBadge(c, b) \/ RemoveBadge(c, b)
           \/ \E t \in Tenants : LegacyWrite(c, t)
    PROVE  Writes
<1>0. /\ contact \in [Rows -> Contact] /\ (indexed => Unique)
      /\ contact[c] \in Contact /\ Marks = Badges \cup Tags /\ Nil \notin Tenants
  BY DEF PeopleInv, RowsFit, Marks, ContactsConstants
<1>1. ASSUME NEW e \in Emails, UpdateUser(c, e) PROVE Writes
  <2> DEFINE f == [contact[c] EXCEPT !.email = e]
  <2>1. /\ contact' = [contact EXCEPT ![c] = f] /\ UNCHANGED indexed
        /\ touched' = touched \cup {c} /\ contact[c].there /\ ~Clash(contact[c].tenant, e, c)
    BY <1>1 DEF UpdateUser, Touch
  <2>2. f \in Contact
    BY <1>0, RowUpdates
  <2>3. contact'[c] = f /\ \A d \in Rows \ {c} : contact'[d] = contact[d]
    BY <1>0, <2>1
  <2>4. /\ f.email = e /\ f.there = contact[c].there /\ f.tenant = contact[c].tenant
        /\ f.legacy = contact[c].legacy /\ f.deleted = contact[c].deleted
        /\ f.badges = contact[c].badges /\ f.tags = contact[c].tags
    BY <1>0 DEF Contact
  <2>5. indexed' => Unique'
    BY <1>0, <2>1, <2>3, <2>4, UniqueKept
  <2>6. KeepsRow(c)
    BY <2>1, <2>3, <2>4 DEF KeepsRow, Live
  <2> QED
    BY <2>1, <2>2, <2>5, <2>6, WritesOne
<1>2. ASSUME NEW b \in Marks, AssignBadge(c, b) \/ RemoveBadge(c, b) PROVE Writes
  <2>1. PICK B \in SUBSET Marks :
          /\ contact' = [contact EXCEPT ![c] = [contact[c] EXCEPT !.badges = B]]
          /\ B = contact[c].badges \cup {b} \/ B = contact[c].badges \ {b}
    <3>1. contact[c].badges \in SUBSET Marks
      BY <1>0 DEF Contact
    <3>2. contact[c].badges \cup {b} \in SUBSET Marks /\ contact[c].badges \ {b} \in SUBSET Marks
      BY <3>1
    <3> QED
      BY <1>2, <3>2 DEF AssignBadge, RemoveBadge
  <2> DEFINE f == [contact[c] EXCEPT !.badges = B]
  <2>2. /\ UNCHANGED indexed /\ contact[c].there
        /\ touched' = touched \cup {c, b}
    BY <1>2 DEF AssignBadge, RemoveBadge, Touch
  <2>3. f \in Contact
    BY <1>0, RowUpdates
  <2>4. contact'[c] = f /\ \A d \in Rows \ {c} : contact'[d] = contact[d]
    BY <1>0, <2>1
  <2>5. /\ f.email = contact[c].email /\ f.there = contact[c].there /\ f.tenant = contact[c].tenant
        /\ f.legacy = contact[c].legacy /\ f.deleted = contact[c].deleted
        /\ f.badges = B /\ f.tags = contact[c].tags
    BY <1>0 DEF Contact
  <2>6. indexed' => Unique'
    BY <1>0, <2>2, <2>4, <2>5, UniqueSame
  <2>7. KeepsRow(c)
    BY <2>1, <2>2, <2>4, <2>5 DEF KeepsRow, Live
  <2> QED
    BY <2>1, <2>2, <2>3, <2>6, <2>7, WritesOne
<1>3. ASSUME NEW t \in Tenants, LegacyWrite(c, t) PROVE Writes
  <2>1. PICK f \in {[contact[c] EXCEPT !.tenant = t], [contact[c] EXCEPT !.legacy = t]} :
          /\ contact' = [contact EXCEPT ![c] = f]
          /\ \/ contact[c].tenant = Nil /\ f = [contact[c] EXCEPT !.tenant = t]
             \/ contact[c].legacy # Nil /\ f = [contact[c] EXCEPT !.legacy = t]
    BY <1>3 DEF LegacyWrite
  <2>2. /\ UNCHANGED indexed /\ contact[c].there /\ touched' = touched \cup {c}
        /\ ~Clash(contact'[c].tenant, contact[c].email, c)
    BY <1>3 DEF LegacyWrite, Touch
  <2>3. f \in Contact
    <3>1. [contact[c] EXCEPT !.tenant = t] \in Contact /\ [contact[c] EXCEPT !.legacy = t] \in Contact
      BY <1>0, RowUpdates DEF Owners
    <3> QED
      BY <3>1
  <2>4. contact'[c] = f /\ \A d \in Rows \ {c} : contact'[d] = contact[d]
    BY <1>0, <2>1
  <2>5. /\ f.email = contact[c].email /\ f.there = contact[c].there
        /\ f.deleted = contact[c].deleted
        /\ f.badges = contact[c].badges /\ f.tags = contact[c].tags
        /\ contact[c].tenant # Nil => f.tenant = contact[c].tenant
        /\ contact[c].legacy # Nil => f.legacy # Nil
    BY <1>0, <2>1 DEF Contact
  <2>6. indexed' => Unique'
    BY <1>0, <2>2, <2>4, <2>5, UniqueKept
  <2>7. KeepsRow(c)
    BY <2>2, <2>4, <2>5 DEF KeepsRow, Live
  <2> QED
    BY <2>1, <2>2, <2>3, <2>6, <2>7, WritesOne
<1> QED
  BY <1>1, <1>2, <1>3

\* Rows marked as deleted keep everything else.
LEMMA MarkRows ==
    ASSUME PeopleInv, NEW S \in SUBSET Rows, contact' = Mark(S)
    PROVE  /\ contact' \in [Rows -> Contact]
           /\ \A c \in Rows :
                /\ contact'[c].there = contact[c].there /\ contact'[c].tenant = contact[c].tenant
                /\ contact'[c].legacy = contact[c].legacy /\ contact'[c].email = contact[c].email
                /\ contact'[c].badges = contact[c].badges /\ contact'[c].tags = contact[c].tags
                /\ c \in S => contact'[c].deleted
                /\ c \notin S => contact'[c] = contact[c]
<1>1. contact \in [Rows -> Contact]
  BY DEF PeopleInv, RowsFit
<1>2. ASSUME NEW c \in Rows
      PROVE  LET f == [contact[c] EXCEPT !.deleted = TRUE] IN
             /\ f \in Contact /\ f.deleted
             /\ f.there = contact[c].there /\ f.tenant = contact[c].tenant
             /\ f.legacy = contact[c].legacy /\ f.email = contact[c].email
             /\ f.badges = contact[c].badges /\ f.tags = contact[c].tags
  <2>1. contact[c] \in Contact
    BY <1>1
  <2> QED
    BY <2>1 DEF Contact
<1>3. ASSUME NEW c \in Rows
      PROVE  /\ c \in S => contact'[c] = [contact[c] EXCEPT !.deleted = TRUE]
             /\ c \notin S => contact'[c] = contact[c]
  BY DEF Mark
<1>4. contact' \in [Rows -> Contact]
  BY <1>1, <1>2 DEF Mark
<1>5. ASSUME NEW c \in Rows
      PROVE  /\ contact'[c].there = contact[c].there /\ contact'[c].tenant = contact[c].tenant
             /\ contact'[c].legacy = contact[c].legacy /\ contact'[c].email = contact[c].email
             /\ contact'[c].badges = contact[c].badges /\ contact'[c].tags = contact[c].tags
             /\ c \in S => contact'[c].deleted
             /\ c \notin S => contact'[c] = contact[c]
  <2>1. CASE c \in S
    BY <2>1, <1>2, <1>3
  <2>2. CASE c \notin S
    BY <2>2, <1>3
  <2> QED
    BY <2>1, <2>2
<1> QED
  BY <1>4, <1>5

\* Deleting one contact, or all of a tenant.
LEMMA DeletionsWrite ==
    ASSUME PeopleInv, \/ \E c \in Rows : DeleteUser(c)
                    \/ \E t \in Tenants : DeleteAllUsers(t)
    PROVE  Writes
<1>1. PICK S \in SUBSET Rows : /\ contact' = Mark(S) /\ touched' = touched \cup S /\ UNCHANGED indexed
                              /\ \A c \in S : contact[c].there
  <2>1. ASSUME NEW c \in Rows, DeleteUser(c)
        PROVE  /\ contact' = Mark({c}) /\ touched' = touched \cup {c} /\ UNCHANGED indexed
               /\ contact[c].there /\ {c} \in SUBSET Rows
    BY <2>1 DEF DeleteUser, Touch, Live
  <2>2. ASSUME NEW t \in Tenants, DeleteAllUsers(t)
        PROVE  LET S == {c \in Rows : contact[c].there /\ contact[c].tenant = t}
               IN  /\ contact' = Mark(S) /\ touched' = touched \cup S /\ UNCHANGED indexed
                   /\ \A c \in S : contact[c].there
                   /\ S \in SUBSET Rows
    BY <2>2 DEF DeleteAllUsers, Touch
  <2> QED
    BY <2>1, <2>2
<1>2. /\ contact' \in [Rows -> Contact]
      /\ \A c \in Rows :
           /\ contact'[c].there = contact[c].there /\ contact'[c].tenant = contact[c].tenant
           /\ contact'[c].legacy = contact[c].legacy /\ contact'[c].email = contact[c].email
           /\ contact'[c].badges = contact[c].badges /\ contact'[c].tags = contact[c].tags
           /\ c \in S => contact'[c].deleted
           /\ c \notin S => contact'[c] = contact[c]
  BY <1>1, MarkRows
<1>3. indexed' => Unique'
  BY <1>1, <1>2, UniqueSame DEF PeopleInv, RowsFit
<1>4. ASSUME NEW c \in Rows PROVE KeepsRow(c)
  <2>1. CASE c \in S
    BY <2>1, <1>1, <1>2 DEF KeepsRow
  <2>2. CASE c \notin S
    BY <2>2, <1>2 DEF KeepsRow, Live
  <2> QED
    BY <2>1, <2>2
<1> QED
  BY <1>1, <1>2, <1>3, <1>4 DEF Writes, RowsFit

\* What requests do, and what commands do.
RequestNext ==
    \/ \E t \in Tenants, e \in Emails : CreateUser(t, e) \/ \E r \in Requests : RegisterCheck(r, t, e)
    \/ \E r \in Requests : RegisterInsert(r) \/ DeleteBadgeMark(r)
    \/ \E c \in Rows :
         \/ \E e \in Emails : UpdateUser(c, e)
         \/ DeleteUser(c)
         \/ \E b \in Marks : AssignBadge(c, b) \/ RemoveBadge(c, b)
         \/ \E t \in Tenants : LegacyWrite(c, t)
    \/ \E t \in Tenants : DeleteAllUsers(t)
    \/ \E b \in Badges : EditOffer(b) \/ \E r \in Requests : DeleteBadgeCheck(r, b)

CommandNext ==
    \/ DedupeScan \/ DedupeUnion \/ DedupeMark \/ \E x \in run["dedupe"].todo : DedupeRead(x)
    \/ TenancyScan \/ \E x \in run["tenancy"].todo : TenancyRow(x)
    \/ TaxonomyScan \/ \E g \in Tags : TaxonomyLabel(g)
    \/ TaxonomyContacts \/ TaxonomyAssign \/ TaxonomyPull \/ TaxonomyRetire
    \/ \E k \in Commands : End(k)

\* Every step is of a request or of a command.
LEMMA StepsSplit ==
    ASSUME ContactsNext PROVE RequestNext \/ CommandNext
  BY DEF ContactsNext, RequestNext, CommandNext, Marks

\* A step that leaves rows and marks alone.
LEMMA RowsStay ==
    ASSUME PeopleInv, UNCHANGED <<contact, indexed>>, touched \subseteq touched'
    PROVE  Writes
<1>1. (indexed' => Unique') /\ contact' \in [Rows -> Contact]
  BY UniqueSame DEF PeopleInv, RowsFit
<1>2. \A c \in Rows : KeepsRow(c)
  BY DEF KeepsRow, Live
<1> QED
  BY <1>1, <1>2 DEF Writes, RowsFit

\* A request writes rows it touches and leaves the commands alone; a deletion
\* that counts the holders of a badge forgets that the badge was touched.
LEMMA RequestWrites ==
    ASSUME ContactsConstants, PeopleInv, RequestNext
    PROVE  /\ UNCHANGED <<label, tag, run, slips>>
           /\ \/ Writes
              \/ \E b \in Badges : /\ UNCHANGED <<contact, indexed, offers>>
                                   /\ touched' = touched \ {b}
                                   /\ Holders(b) = {} /\ b \notin offers
<1>1. UNCHANGED <<label, tag, run, slips>>
  BY DEF RequestNext, CreateUser, RegisterCheck, RegisterInsert, DeleteBadgeMark, UpdateUser, DeleteUser,
         AssignBadge, RemoveBadge, LegacyWrite, DeleteAllUsers, EditOffer, DeleteBadgeCheck
<1>2. ASSUME NEW r \in Requests, NEW t \in Tenants, NEW e \in Emails, RegisterCheck(r, t, e) PROVE Writes
  BY <1>2, RowsStay DEF RegisterCheck
<1>3. ASSUME NEW r \in Requests, DeleteBadgeMark(r) PROVE Writes
  BY <1>3, RowsStay DEF DeleteBadgeMark
<1>4. ASSUME NEW b \in Badges, EditOffer(b) PROVE Writes
  BY <1>4, RowsStay DEF EditOffer, Touch
<1>5. ASSUME NEW b \in Badges, NEW r \in Requests, DeleteBadgeCheck(r, b)
      PROVE  /\ UNCHANGED <<contact, indexed, offers>> /\ touched' = touched \ {b}
             /\ Holders(b) = {} /\ b \notin offers
  BY <1>5 DEF DeleteBadgeCheck
<1> QED
  BY <1>1, <1>2, <1>3, <1>4, <1>5, CreationsWrite, EditsWrite, DeletionsWrite DEF RequestNext

\* What a request remembers is its own.
LEMMA AskTypes ==
    ASSUME AsksFit, NEW r \in Requests, NEW q \in Asks, request' = [request EXCEPT ![r] = q],
           q.pc = "delete" => q.of \in Badges,
           q.pc = "register" => q.email \in Emails /\ q.tenant \in Tenants
    PROVE  AsksFit'
<1>1. request'[r] = q /\ \A o \in Requests \ {r} : request'[o] = request[o]
  BY DEF AsksFit
<1>2. request' \in [Requests -> Asks]
  BY DEF AsksFit
<1>3. ASSUME NEW o \in Requests
      PROVE  /\ request'[o].pc = "delete" => request'[o].of \in Badges
             /\ request'[o].pc = "register" => /\ request'[o].email \in Emails
                                               /\ request'[o].tenant \in Tenants
  <2>1. CASE o = r
    BY <2>1, <1>1
  <2>2. CASE o # r
    BY <2>2, <1>1 DEF AsksFit
  <2> QED
    BY <2>1, <2>2
<1> QED
  BY <1>2, <1>3 DEF AsksFit

\* Definitions, requests and counters keep their types in a request.
LEMMA RequestKeepsTypes ==
    ASSUME ContactsConstants, PeopleInv, RequestNext
    PROVE  AsksFit' /\ DefinitionsFit' /\ changes' \in 0 .. MaxChanges
<1>0. /\ AsksFit /\ DefinitionsFit /\ changes \in 0 .. MaxChanges /\ MaxChanges \in Nat
      /\ UNCHANGED <<label, tag>>
  BY RequestWrites DEF PeopleInv, ContactsConstants
<1>1. ASSUME Change PROVE changes' \in 0 .. MaxChanges
  BY <1>1, <1>0 DEF Change
<1>2. Free \in Asks /\ Free.pc = "idle"
  BY DEF Free, Asks, Owners
<1>3. ASSUME NEW r \in Requests, Ends(r) PROVE AsksFit'
  BY <1>0, <1>2, <1>3, AskTypes DEF Ends
<1>4. ASSUME UNCHANGED <<badge, offers>> PROVE DefinitionsFit'
  BY <1>0, <1>4 DEF DefinitionsFit
<1>5. ASSUME UNCHANGED request PROVE AsksFit'
  BY <1>0, <1>5 DEF AsksFit
<1>6. ASSUME NEW t \in Tenants, NEW e \in Emails, NEW r \in Requests, RegisterCheck(r, t, e)
      PROVE  AsksFit' /\ DefinitionsFit' /\ changes' \in 0 .. MaxChanges
  <2> DEFINE q == [pc |-> "register", of |-> Nil, email |-> e, tenant |-> t]
  <2>1. q \in Asks /\ q.pc = "register" /\ q.email \in Emails /\ q.tenant \in Tenants
    BY DEF Asks, Owners
  <2>2. request' = [request EXCEPT ![r] = q] /\ Change /\ UNCHANGED <<badge, offers>>
    BY <1>6 DEF RegisterCheck
  <2> QED
    BY <2>1, <2>2, <1>0, <1>1, <1>4, AskTypes
<1>7. ASSUME NEW b \in Badges, NEW r \in Requests, DeleteBadgeCheck(r, b)
      PROVE  AsksFit' /\ DefinitionsFit' /\ changes' \in 0 .. MaxChanges
  <2> DEFINE q == [Free EXCEPT !.pc = "delete", !.of = b]
  <2>1. q \in Asks /\ q.pc = "delete" /\ q.of = b
    BY <1>2 DEF Asks
  <2>2. request' = [request EXCEPT ![r] = q] /\ Change /\ UNCHANGED <<badge, offers>>
    BY <1>7 DEF DeleteBadgeCheck
  <2> QED
    BY <2>1, <2>2, <1>0, <1>1, <1>4, AskTypes
<1>8. ASSUME NEW r \in Requests, RegisterInsert(r)
      PROVE  AsksFit' /\ DefinitionsFit' /\ changes' \in 0 .. MaxChanges
  BY <1>8, <1>0, <1>3, <1>4 DEF RegisterInsert
<1>9. ASSUME NEW r \in Requests, DeleteBadgeMark(r)
      PROVE  AsksFit' /\ DefinitionsFit' /\ changes' \in 0 .. MaxChanges
  <2>1. badge' \in [Badges -> {"live", "deleted"}] /\ Ends(r) /\ UNCHANGED <<offers, changes>>
    BY <1>9, <1>0 DEF DeleteBadgeMark, DefinitionsFit
  <2> QED
    BY <2>1, <1>0, <1>3 DEF DefinitionsFit
<1>10. ASSUME NEW b \in Badges, EditOffer(b)
       PROVE  AsksFit' /\ DefinitionsFit' /\ changes' \in 0 .. MaxChanges
  <2>1. /\ offers' \subseteq Badges /\ UNCHANGED <<badge, request>> /\ Change
    BY <1>10, <1>0 DEF EditOffer, DefinitionsFit
  <2> QED
    BY <2>1, <1>0, <1>1, <1>5 DEF DefinitionsFit
<1>11. ASSUME Change, UNCHANGED <<badge, offers, request>>
       PROVE  AsksFit' /\ DefinitionsFit' /\ changes' \in 0 .. MaxChanges
  BY <1>11, <1>1, <1>4, <1>5
<1>12. ASSUME \/ \E t \in Tenants, e \in Emails : CreateUser(t, e)
              \/ \E c \in Rows :
                   \/ \E e \in Emails : UpdateUser(c, e)
                   \/ DeleteUser(c)
                   \/ \E b \in Marks : AssignBadge(c, b) \/ RemoveBadge(c, b)
                   \/ \E t \in Tenants : LegacyWrite(c, t)
              \/ \E t \in Tenants : DeleteAllUsers(t)
       PROVE  AsksFit' /\ DefinitionsFit' /\ changes' \in 0 .. MaxChanges
  <2>1. Change /\ UNCHANGED <<badge, offers, request>>
    BY <1>12 DEF CreateUser, UpdateUser, DeleteUser, AssignBadge, RemoveBadge, LegacyWrite, DeleteAllUsers
  <2> QED
    BY <2>1, <1>11
<1> QED
  BY <1>6, <1>7, <1>8, <1>9, <1>10, <1>12 DEF RequestNext

--------------------------------------------------------------------------------
(* How commands move *)

\* Who has nothing to do.
LEMMA WaitingJob ==
    /\ Waiting \in Jobs /\ Waiting.pc = "idle" /\ Waiting.todo = {} /\ Waiting.item = Nil /\ Waiting.seen = {}
  BY DEF Waiting, Jobs, Steps, Items

\* One command moves.
LEMMA RunMoves ==
    ASSUME RunsFit, NEW k \in Commands, NEW j \in Jobs, run' = [run EXCEPT ![k] = j]
    PROVE  /\ run' \in [Commands -> Jobs] /\ run'[k] = j
           /\ \A m \in Commands \ {k} : run'[m] = run[m]
  BY DEF RunsFit

\* Beside a command at work the others are idle.
LEMMA Alone ==
    ASSUME RunsFit, NEW k \in Commands, ~At(k, "idle") PROVE \A m \in Commands \ {k} : At(m, "idle")
  BY DEF RunsFit

\* The names of the commands.
LEMMA ThreeCommands ==
    /\ "dedupe" \in Commands /\ "tenancy" \in Commands /\ "taxonomy" \in Commands
    /\ \A k \in Commands : k = "dedupe" \/ k = "tenancy" \/ k = "taxonomy"
  BY DEF Commands

\* A command lists what there is to do while the others are idle, and what was
\* touched before no longer counts.
LEMMA ListsMoves ==
    ASSUME PeopleInv, NEW k \in Commands, NEW T \in SUBSET Works, Lists(k, T)
    PROVE  /\ run' \in [Commands -> Jobs]
           /\ run'[k].pc = "next" /\ run'[k].todo = T /\ run'[k].seen = {}
           /\ \A m \in Commands : At(m, "idle")
           /\ \A m \in Commands \ {k} : run'[m] = run[m]
           /\ touched' = touched \ Rows
           /\ UNCHANGED <<contact, label, tag, slips, indexed, badge, offers, request, changes>>
<1> DEFINE j == [Waiting EXCEPT !.pc = "next", !.todo = T]
<1>1. j \in Jobs /\ j.pc = "next" /\ j.todo = T /\ j.seen = {}
  BY DEF Waiting, Jobs, Steps, Items
<1>2. run' = [run EXCEPT ![k] = j]
  BY DEF Lists
<1>3. RunsFit
  BY DEF PeopleInv
<1>4. run' \in [Commands -> Jobs] /\ run'[k] = j /\ \A m \in Commands \ {k} : run'[m] = run[m]
  BY <1>1, <1>2, <1>3, RunMoves
<1> QED
  BY <1>1, <1>4 DEF Lists, Others

\* A command that goes on to a step of its own.
LEMMA ProceedsMoves ==
    ASSUME PeopleInv, NEW k \in Commands, NEW p \in Steps, Proceeds(k, p), ~At(k, "idle")
    PROVE  /\ run' \in [Commands -> Jobs]
           /\ run'[k].pc = p /\ run'[k].todo = run[k].todo
           /\ run'[k].item = run[k].item /\ run'[k].seen = run[k].seen
           /\ \A m \in Commands \ {k} : run'[m] = run[m] /\ At(m, "idle")
<1> DEFINE j == [run[k] EXCEPT !.pc = p]
<1>1. RunsFit /\ run[k] \in Jobs
  BY DEF PeopleInv, RunsFit
<1>2. j \in Jobs /\ j.pc = p /\ j.todo = run[k].todo /\ j.item = run[k].item /\ j.seen = run[k].seen
  BY <1>1 DEF Jobs
<1>3. run' = [run EXCEPT ![k] = j]
  BY DEF Proceeds
<1> QED
  BY <1>1, <1>2, <1>3, RunMoves, Alone

\* A command that takes up a thing to do, or is done with it at once.
LEMMA DropMoves ==
    ASSUME PeopleInv, NEW k \in Commands, NEW x, Drop(k, x), At(k, "next")
    PROVE  /\ run' \in [Commands -> Jobs]
           /\ run'[k].pc = "next" /\ run'[k].todo = run[k].todo \ {x}
           /\ run'[k].item = run[k].item /\ run'[k].seen = run[k].seen
           /\ \A m \in Commands \ {k} : run'[m] = run[m] /\ At(m, "idle")
<1> DEFINE T == run[k].todo \ {x}
           j == [run[k] EXCEPT !.todo = T, !.pc = "next"]
<1>1. RunsFit /\ run[k] \in Jobs /\ ~At(k, "idle")
  BY DEF PeopleInv, RunsFit, At
<1>2. T \in SUBSET Works /\ "next" \in Steps
  BY <1>1 DEF Jobs, Steps
<1>3. j \in Jobs /\ j.pc = "next" /\ j.todo = T /\ j.item = run[k].item /\ j.seen = run[k].seen
  BY <1>1, <1>2 DEF Jobs
<1>4. run' = [run EXCEPT ![k] = j]
  BY DEF Drop
<1> QED
  BY <1>1, <1>3, <1>4, RunMoves, Alone

\* Only one command is at work, and it is where it can be.
LEMMA OneRuns ==
    ASSUME RunsFit, NEW k \in Commands, run' \in [Commands -> Jobs],
           \A m \in Commands \ {k} : run'[m] = run[m] /\ At(m, "idle")
    PROVE  /\ \A j, m \in Commands : At(j, "idle")' \/ At(m, "idle")' \/ j = m
           /\ k # "dedupe" => DedupeFits'
           /\ k # "tenancy" => TenancyFits'
           /\ k # "taxonomy" => TaxonomyFits'
<1>1. \A j, m \in Commands : At(j, "idle")' \/ At(m, "idle")' \/ j = m
  BY DEF At
<1>2. ASSUME k # "dedupe" PROVE DedupeFits'
  BY <1>2, ThreeCommands DEF RunsFit, DedupeFits, Merging
<1>3. ASSUME k # "tenancy" PROVE TenancyFits'
  BY <1>3, ThreeCommands DEF RunsFit, TenancyFits
<1>4. ASSUME k # "taxonomy" PROVE TaxonomyFits'
  <2>1. run'["taxonomy"] = run["taxonomy"] /\ run["taxonomy"].pc = "idle"
    BY <1>4, ThreeCommands DEF At
  <2> QED
    BY <2>1 DEF RunsFit, TaxonomyFits, Migrating, At
<1> QED
  BY <1>1, <1>2, <1>3, <1>4

\* A request leaves the commands where they are.
LEMMA RunsStay ==
    ASSUME RunsFit, UNCHANGED <<run, label>> PROVE RunsFit'
  BY DEF RunsFit, DedupeFits, TenancyFits, TaxonomyFits, Merging, Migrating, At, First

--------------------------------------------------------------------------------
(* Merging *)

\* The pairs that are listed: a live row and the one kept instead.
LEMMA DedupeScanMoves ==
    ASSUME PeopleInv, DedupeScan
    PROVE  /\ RunsFit'
           /\ run'["dedupe"].pc = "next" /\ At("taxonomy", "idle")'
           /\ \A m \in Commands : At(m, "idle")
           /\ \A x \in run'["dedupe"].todo :
                /\ x \in Pairs /\ Live(x[1]) /\ Canonical(x[1]) # x[1] /\ x[2] = Canonical(x[1])
                /\ Live(x[2]) /\ Alike(x[1], x[2])
           /\ touched' = touched \ Rows
           /\ UNCHANGED <<contact, label, tag, slips, indexed, badge, offers, request, changes>>
<1> DEFINE T == {<<d, Canonical(d)>> : d \in {x \in Rows : Live(x) /\ Canonical(x) # x}}
<1>1. ASSUME NEW x \in T
      PROVE  /\ x \in Pairs /\ Live(x[1]) /\ Canonical(x[1]) # x[1] /\ x[2] = Canonical(x[1])
             /\ Live(x[2]) /\ Alike(x[1], x[2])
  <2>1. PICK d \in Rows : Live(d) /\ Canonical(d) # d /\ x = <<d, Canonical(d)>>
    BY <1>1
  <2>2. Canonical(d) \in Rows /\ Live(Canonical(d)) /\ Alike(Canonical(d), d)
    BY <2>1, CanonicalRow
  <2> QED
    BY <2>1, <2>2 DEF Pairs, Alike
<1>2. T \in SUBSET Works
  BY <1>1 DEF Works
<1>3. Lists("dedupe", T)
  BY DEF DedupeScan
<1> HIDE DEF T
<1>4. /\ run' \in [Commands -> Jobs]
      /\ run'["dedupe"].pc = "next" /\ run'["dedupe"].todo = T /\ run'["dedupe"].seen = {}
      /\ \A m \in Commands : At(m, "idle")
      /\ \A m \in Commands \ {"dedupe"} : run'[m] = run[m]
      /\ touched' = touched \ Rows
      /\ UNCHANGED <<contact, label, tag, slips, indexed, badge, offers, request, changes>>
  BY <1>2, <1>3, ThreeCommands, ListsMoves
<1>5. DedupeFits'
  BY <1>1, <1>4 DEF DedupeFits, Merging
<1>6. RunsFit'
  BY <1>4, <1>5, ThreeCommands, OneRuns DEF RunsFit, PeopleInv
<1>7. At("taxonomy", "idle")'
  BY <1>4, ThreeCommands DEF At
<1> QED
  BY <1>1, <1>4, <1>6, <1>7

\* A pair is taken up with the badges of the row that goes.
LEMMA DedupeReadMoves ==
    ASSUME PeopleInv, NEW x, DedupeRead(x)
    PROVE  /\ RunsFit'
           /\ x \in run["dedupe"].todo /\ x \in Pairs /\ At("dedupe", "next")
           /\ run'["dedupe"].pc = "union" /\ run'["dedupe"].item = x
           /\ run'["dedupe"].todo = run["dedupe"].todo \ {x}
           /\ run'["dedupe"].seen = contact[x[1]].badges
           /\ At("taxonomy", "idle")'
           /\ UNCHANGED <<contact, label, tag, touched, slips, indexed, badge, offers, request, changes>>
<1> DEFINE T == run["dedupe"].todo \ {x}
           B == contact[x[1]].badges
           j == [pc |-> "union", item |-> x, todo |-> T, seen |-> B]
<1>1. /\ RunsFit /\ run["dedupe"] \in Jobs /\ contact \in [Rows -> Contact]
      /\ x \in run["dedupe"].todo /\ run["dedupe"].todo \subseteq Pairs
      /\ At("dedupe", "next") /\ ~At("dedupe", "idle")
  BY ThreeCommands DEF PeopleInv, RunsFit, RowsFit, DedupeFits, DedupeRead, At
<1>2. x \in Pairs /\ x[1] \in Rows
  BY <1>1 DEF Pairs
<1>3. T \in SUBSET Works /\ x \in Items /\ "union" \in Steps
  BY <1>1, <1>2 DEF Works, Items, Steps
<1>4. B \in SUBSET Marks
  BY <1>1, <1>2 DEF Contact, Marks
<1>5. B \in SUBSET Seen
  BY <1>4 DEF Seen
<1> HIDE DEF T, B
<1>6. j \in Jobs /\ j.pc = "union" /\ j.item = x /\ j.todo = T /\ j.seen = B
  BY <1>1, <1>3, <1>5 DEF Jobs
<1>7. /\ run' = [run EXCEPT !["dedupe"] = j]
      /\ UNCHANGED <<contact, label, tag, touched, slips, indexed, badge, offers, request, changes>>
  BY DEF DedupeRead, Others, T, B
<1>8. /\ run' \in [Commands -> Jobs] /\ run'["dedupe"] = j
      /\ \A m \in Commands \ {"dedupe"} : run'[m] = run[m] /\ At(m, "idle")
  BY <1>1, <1>6, <1>7, ThreeCommands, RunMoves, Alone
<1>9. DedupeFits'
  BY <1>1, <1>2, <1>4, <1>6, <1>8 DEF DedupeFits, Merging, T
<1>10. RunsFit'
  BY <1>1, <1>8, <1>9, ThreeCommands, OneRuns DEF RunsFit
<1>11. At("taxonomy", "idle")'
  BY <1>8, ThreeCommands DEF At
<1> QED
  BY <1>1, <1>2, <1>6, <1>7, <1>8, <1>10, <1>11 DEF T, B

\* The row that stays gets the badges of the other, unless the write fails.
LEMMA DedupeUnionMoves ==
    ASSUME ContactsConstants, PeopleInv, DedupeUnion
    PROVE  LET x == run["dedupe"].item
               B == contact[x[2]].badges \cup run["dedupe"].seen IN
           /\ RunsFit' /\ RowsFit' /\ slips' \in 0 .. MaxSlips
           /\ x \in Pairs /\ At("dedupe", "union") /\ At("taxonomy", "idle")'
           /\ run'["dedupe"].pc = "mark" /\ run'["dedupe"].item = x
           /\ run'["dedupe"].todo = run["dedupe"].todo /\ run'["dedupe"].seen = run["dedupe"].seen
           /\ \/ UNCHANGED slips /\ contact'[x[2]] = [contact[x[2]] EXCEPT !.badges = B]
                                 /\ contact'[x[2]].badges = B
              \/ slips' = slips + 1 /\ UNCHANGED contact
           /\ \A c \in Rows : /\ c # x[2] => contact'[c] = contact[c]
                              /\ contact'[c].there = contact[c].there
                              /\ contact'[c].deleted = contact[c].deleted
                              /\ contact'[c].tenant = contact[c].tenant
                              /\ contact'[c].legacy = contact[c].legacy
                              /\ contact'[c].email = contact[c].email
                              /\ contact'[c].tags = contact[c].tags
                              /\ contact'[c].badges \subseteq contact[c].badges \cup run["dedupe"].seen
                              /\ contact[c].badges \subseteq contact'[c].badges
           /\ touched' = touched \cup run["dedupe"].seen
           /\ run["dedupe"].seen \subseteq Marks
           /\ UNCHANGED <<label, tag, indexed, badge, offers, request, changes>>
<1> DEFINE x == run["dedupe"].item
           B == contact[x[2]].badges \cup run["dedupe"].seen
           f == [contact[x[2]] EXCEPT !.badges = B]
<1>1. /\ RunsFit /\ contact \in [Rows -> Contact] /\ (indexed => Unique) /\ slips \in 0 .. MaxSlips
      /\ MaxSlips \in Nat
      /\ DedupeFits /\ At("dedupe", "union") /\ ~At("dedupe", "idle") /\ run["dedupe"].pc = "union"
  BY ThreeCommands DEF PeopleInv, RunsFit, RowsFit, DedupeUnion, At, ContactsConstants
<1>2. x \in Pairs /\ run["dedupe"].seen \subseteq Marks
  BY <1>1 DEF DedupeFits, Merging
<1>3. x[1] \in Rows /\ x[2] \in Rows
  BY <1>2 DEF Pairs
<1>4. /\ \/ contact' = [contact EXCEPT ![x[2]] = f] /\ UNCHANGED slips
         \/ slips' = slips + 1 /\ slips < MaxSlips /\ UNCHANGED contact
      /\ Proceeds("dedupe", "mark")
      /\ touched' = touched \cup run["dedupe"].seen
      /\ UNCHANGED <<label, tag, indexed, badge, offers, request, changes>>
  BY DEF DedupeUnion, Sure, Slip, Touch, Others
<1>5. /\ run' \in [Commands -> Jobs]
      /\ run'["dedupe"].pc = "mark" /\ run'["dedupe"].todo = run["dedupe"].todo
      /\ run'["dedupe"].item = run["dedupe"].item /\ run'["dedupe"].seen = run["dedupe"].seen
      /\ \A m \in Commands \ {"dedupe"} : run'[m] = run[m] /\ At(m, "idle")
  BY <1>1, <1>4, ThreeCommands, ProceedsMoves DEF Steps
<1>6. DedupeFits'
  BY <1>1, <1>2, <1>5 DEF DedupeFits, Merging
<1>7. RunsFit' /\ At("taxonomy", "idle")'
  BY <1>1, <1>5, <1>6, ThreeCommands, OneRuns DEF RunsFit, At
<1>8. B \in SUBSET Marks /\ contact[x[2]] \in Contact
  BY <1>1, <1>2, <1>3 DEF Contact, Marks
<1>9. /\ f \in Contact /\ f.badges = B
      /\ f.there = contact[x[2]].there /\ f.deleted = contact[x[2]].deleted
      /\ f.tenant = contact[x[2]].tenant /\ f.legacy = contact[x[2]].legacy
      /\ f.email = contact[x[2]].email /\ f.tags = contact[x[2]].tags
  BY <1>8 DEF Contact, Marks
<1> HIDE DEF f
<1>10. contact' \in [Rows -> Contact]
  BY <1>1, <1>3, <1>4, <1>9
<1>11. ASSUME NEW c \in Rows
       PROVE  /\ c # x[2] => contact'[c] = contact[c]
              /\ contact'[c].there = contact[c].there
              /\ contact'[c].deleted = contact[c].deleted
              /\ contact'[c].tenant = contact[c].tenant
              /\ contact'[c].legacy = contact[c].legacy
              /\ contact'[c].email = contact[c].email
              /\ contact'[c].tags = contact[c].tags
              /\ contact'[c].badges \subseteq contact[c].badges \cup run["dedupe"].seen
              /\ contact[c].badges \subseteq contact'[c].badges
  <2>1. CASE c # x[2] \/ UNCHANGED contact
    BY <2>1, <1>1, <1>3, <1>4
  <2>2. CASE c = x[2] /\ contact' = [contact EXCEPT ![x[2]] = f]
    <3>1. contact'[c] = f
      BY <2>2, <1>1, <1>3
    <3> QED
      BY <3>1, <2>2, <1>9
  <2> QED
    BY <2>1, <2>2, <1>4
<1>12. RowsFit'
  BY <1>1, <1>4, <1>10, <1>11, UniqueSame DEF RowsFit
<1>13. slips' \in 0 .. MaxSlips
  BY <1>1, <1>4
<1>14. \/ UNCHANGED slips /\ contact'[x[2]] = f
       \/ slips' = slips + 1 /\ UNCHANGED contact
  BY <1>1, <1>3, <1>4
<1> QED
  BY <1>1, <1>2, <1>4, <1>5, <1>7, <1>9, <1>11, <1>12, <1>13, <1>14 DEF f

\* The row that goes is marked, unless the write fails.
LEMMA DedupeMarkMoves ==
    ASSUME ContactsConstants, PeopleInv, DedupeMark
    PROVE  LET x == run["dedupe"].item IN
           /\ RunsFit' /\ RowsFit' /\ slips' \in 0 .. MaxSlips
           /\ x \in Pairs /\ At("dedupe", "mark") /\ At("taxonomy", "idle")'
           /\ run'["dedupe"].pc = "next" /\ run'["dedupe"].todo = run["dedupe"].todo
           /\ slips' = slips \/ slips' = slips + 1
           /\ \A c \in Rows : /\ c # x[1] => contact'[c] = contact[c]
                              /\ contact'[c].deleted \/ contact'[c] = contact[c]
                              /\ contact'[c].there = contact[c].there
                              /\ contact'[c].tenant = contact[c].tenant
                              /\ contact'[c].legacy = contact[c].legacy
                              /\ contact'[c].email = contact[c].email
                              /\ contact'[c].tags = contact[c].tags
                              /\ contact'[c].badges = contact[c].badges
           /\ UNCHANGED <<label, tag, touched, indexed, badge, offers, request, changes>>
<1> DEFINE x == run["dedupe"].item
<1>1. /\ RunsFit /\ contact \in [Rows -> Contact] /\ (indexed => Unique) /\ slips \in 0 .. MaxSlips
      /\ MaxSlips \in Nat
      /\ DedupeFits /\ At("dedupe", "mark") /\ ~At("dedupe", "idle") /\ run["dedupe"].pc = "mark"
  BY ThreeCommands DEF PeopleInv, RunsFit, RowsFit, DedupeMark, At, ContactsConstants
<1>2. x \in Pairs
  BY <1>1 DEF DedupeFits, Merging
<1>3. x[1] \in Rows
  BY <1>2 DEF Pairs
<1>4. /\ \/ contact' = Mark({x[1]}) /\ UNCHANGED slips
         \/ slips' = slips + 1 /\ slips < MaxSlips /\ UNCHANGED contact
      /\ Proceeds("dedupe", "next")
      /\ UNCHANGED <<label, tag, touched, indexed, badge, offers, request, changes>>
  BY DEF DedupeMark, Sure, Slip, Others
<1>5. /\ run' \in [Commands -> Jobs]
      /\ run'["dedupe"].pc = "next" /\ run'["dedupe"].todo = run["dedupe"].todo
      /\ run'["dedupe"].item = run["dedupe"].item /\ run'["dedupe"].seen = run["dedupe"].seen
      /\ \A m \in Commands \ {"dedupe"} : run'[m] = run[m] /\ At(m, "idle")
  BY <1>1, <1>4, ThreeCommands, ProceedsMoves DEF Steps
<1>6. DedupeFits'
  BY <1>1, <1>5 DEF DedupeFits, Merging
<1>7. RunsFit' /\ At("taxonomy", "idle")'
  BY <1>1, <1>5, <1>6, ThreeCommands, OneRuns DEF RunsFit, At
<1>8. /\ contact' \in [Rows -> Contact]
      /\ \A c \in Rows : /\ c # x[1] => contact'[c] = contact[c]
                         /\ contact'[c].deleted \/ contact'[c] = contact[c]
                         /\ contact'[c].there = contact[c].there
                         /\ contact'[c].tenant = contact[c].tenant
                         /\ contact'[c].legacy = contact[c].legacy
                         /\ contact'[c].email = contact[c].email
                         /\ contact'[c].tags = contact[c].tags
                         /\ contact'[c].badges = contact[c].badges
  <2>1. CASE contact' = Mark({x[1]})
    <3>1. {x[1]} \in SUBSET Rows
      BY <1>3
    <3>2. /\ contact' \in [Rows -> Contact]
          /\ \A c \in Rows :
               /\ contact'[c].there = contact[c].there /\ contact'[c].tenant = contact[c].tenant
               /\ contact'[c].legacy = contact[c].legacy /\ contact'[c].email = contact[c].email
               /\ contact'[c].badges = contact[c].badges /\ contact'[c].tags = contact[c].tags
               /\ c \in {x[1]} => contact'[c].deleted
               /\ c \notin {x[1]} => contact'[c] = contact[c]
      BY <3>1, <2>1, MarkRows
    <3> QED
      BY <3>2
  <2>2. CASE UNCHANGED contact
    BY <2>2, <1>1
  <2> QED
    BY <2>1, <2>2, <1>4
<1>9. RowsFit'
  BY <1>1, <1>4, <1>8, UniqueSame DEF RowsFit
<1>10. slips' \in 0 .. MaxSlips /\ (slips' = slips \/ slips' = slips + 1)
  BY <1>1, <1>4
<1> QED
  BY <1>1, <1>2, <1>4, <1>5, <1>7, <1>8, <1>9, <1>10

--------------------------------------------------------------------------------
(* Settling owners *)

\* What is listed is what was seen of each row.
LEMMA TenancyScanMoves ==
    ASSUME PeopleInv, TenancyScan
    PROVE  /\ RunsFit' /\ \A m \in Commands : At(m, "idle")
           /\ At("dedupe", "idle")' /\ At("taxonomy", "idle")'
           /\ run'["dedupe"] = run["dedupe"]
           /\ touched' = touched \ Rows
           /\ UNCHANGED <<contact, label, tag, slips, indexed, badge, offers, request, changes>>
<1> DEFINE T == {[row |-> c, tenant |-> contact[c].tenant, legacy |-> contact[c].legacy] :
                   c \in {d \in Rows : contact[d].there}}
<1>1. ASSUME NEW c \in Rows
      PROVE  [row |-> c, tenant |-> contact[c].tenant, legacy |-> contact[c].legacy] \in Sightings
  <2>1. contact[c].tenant \in Owners /\ contact[c].legacy \in Owners
    BY DEF PeopleInv, RowsFit, Contact, Owners
  <2> QED
    BY <2>1 DEF Sightings
<1>2. T \subseteq Sightings
  BY <1>1
<1>3. T \in SUBSET Works
  BY <1>2 DEF Works
<1>4. Lists("tenancy", T)
  BY DEF TenancyScan
<1> HIDE DEF T
<1>5. /\ run' \in [Commands -> Jobs]
      /\ run'["tenancy"].pc = "next" /\ run'["tenancy"].todo = T /\ run'["tenancy"].seen = {}
      /\ \A m \in Commands : At(m, "idle")
      /\ \A m \in Commands \ {"tenancy"} : run'[m] = run[m]
      /\ touched' = touched \ Rows
      /\ UNCHANGED <<contact, label, tag, slips, indexed, badge, offers, request, changes>>
  BY <1>3, <1>4, ThreeCommands, ListsMoves
<1>6. TenancyFits'
  BY <1>2, <1>5 DEF TenancyFits
<1>7. RunsFit'
  BY <1>5, <1>6, ThreeCommands, OneRuns DEF RunsFit, PeopleInv
<1> QED
  BY <1>5, <1>7, ThreeCommands DEF At

\* A row is given its legacy owner if it is as it was seen.
LEMMA TenancyRowMoves ==
    ASSUME ContactsConstants, PeopleInv, NEW x, TenancyRow(x)
    PROVE  /\ RunsFit' /\ RowsFit'
           /\ At("dedupe", "idle")' /\ At("taxonomy", "idle")' /\ run'["dedupe"] = run["dedupe"]
           /\ \A c \in Rows : /\ contact'[c].there = contact[c].there
                              /\ contact'[c].deleted = contact[c].deleted
                              /\ contact'[c].email = contact[c].email
                              /\ contact'[c].tags = contact[c].tags
                              /\ contact'[c].badges = contact[c].badges
                              /\ contact[c].tenant # Nil => contact'[c].tenant = contact[c].tenant
                              /\ contact[c].legacy # Nil /\ contact'[c].legacy = Nil
                                   => contact'[c].tenant = contact[c].legacy
           /\ UNCHANGED <<label, tag, touched, slips, indexed, badge, offers, request, changes>>
<1>1. /\ RunsFit /\ contact \in [Rows -> Contact] /\ (indexed => Unique)
      /\ At("tenancy", "next") /\ ~At("tenancy", "idle") /\ TenancyFits
      /\ x \in run["tenancy"].todo /\ Drop("tenancy", x)
      /\ UNCHANGED <<label, tag, touched, slips, indexed, badge, offers, request, changes>>
  BY ThreeCommands DEF PeopleInv, RunsFit, RowsFit, TenancyRow, At, Others
<1>2. /\ run' \in [Commands -> Jobs]
      /\ run'["tenancy"].pc = "next" /\ run'["tenancy"].todo = run["tenancy"].todo \ {x}
      /\ \A m \in Commands \ {"tenancy"} : run'[m] = run[m] /\ At(m, "idle")
  BY <1>1, ThreeCommands, DropMoves
<1>3. TenancyFits'
  BY <1>1, <1>2 DEF TenancyFits
<1>4. RunsFit' /\ At("dedupe", "idle")' /\ At("taxonomy", "idle")' /\ run'["dedupe"] = run["dedupe"]
  BY <1>1, <1>2, <1>3, ThreeCommands, OneRuns DEF RunsFit, At
<1>5. x \in Sightings
  BY <1>1 DEF TenancyFits
<1>6. x.row \in Rows /\ x.legacy \in Owners
  BY <1>5 DEF Sightings
<1> DEFINE c == x.row
           f == [contact[c] EXCEPT !.tenant = x.legacy, !.legacy = Nil]
<1>7. /\ f \in Contact /\ f.tenant = x.legacy /\ f.legacy = Nil
      /\ f.there = contact[c].there /\ f.deleted = contact[c].deleted /\ f.email = contact[c].email
      /\ f.tags = contact[c].tags /\ f.badges = contact[c].badges
  <2>1. contact[c] \in Contact /\ Nil \in Owners
    BY <1>1, <1>6 DEF Owners
  <2> QED
    BY <2>1, <1>6 DEF Contact, Owners
<1>8. CASE /\ x.legacy # Nil /\ x.tenant \in {Nil, x.legacy}
           /\ contact[c].tenant = x.tenant /\ contact[c].legacy = x.legacy
           /\ ~Clash(x.legacy, contact[c].email, c)
           /\ contact' = [contact EXCEPT ![c].tenant = x.legacy, ![c].legacy = Nil]
  <2>1. contact' = [contact EXCEPT ![c] = f]
    BY <1>8
  <2> HIDE DEF f
  <2>2. contact' \in [Rows -> Contact] /\ contact'[c] = f /\ \A d \in Rows \ {c} : contact'[d] = contact[d]
    BY <1>1, <1>6, <1>7, <2>1
  <2>3. indexed' => Unique'
    BY <1>1, <1>6, <1>7, <1>8, <2>2, UniqueKept
  <2>4. RowsFit'
    BY <2>2, <2>3 DEF RowsFit
  <2>5. ASSUME NEW d \in Rows
        PROVE  /\ contact'[d].there = contact[d].there
               /\ contact'[d].deleted = contact[d].deleted
               /\ contact'[d].email = contact[d].email
               /\ contact'[d].tags = contact[d].tags
               /\ contact'[d].badges = contact[d].badges
               /\ contact[d].tenant # Nil => contact'[d].tenant = contact[d].tenant
               /\ contact[d].legacy # Nil /\ contact'[d].legacy = Nil
                    => contact'[d].tenant = contact[d].legacy
    <3>1. CASE d = c
      BY <3>1, <1>7, <1>8, <2>2
    <3>2. CASE d # c
      <4>1. contact'[d] = contact[d]
        BY <3>2, <2>2
      <4> QED
        BY <4>1
    <3> QED
      BY <3>1, <3>2
  <2> QED
    BY <1>1, <1>4, <2>4, <2>5
<1>9. CASE UNCHANGED contact
  <2>1. RowsFit'
    BY <1>1, <1>9, UniqueSame DEF RowsFit
  <2> QED
    BY <1>1, <1>4, <1>9, <2>1
<1> QED
  BY <1>8, <1>9 DEF TenancyRow

--------------------------------------------------------------------------------
(* Turning tags into labels *)

\* All tags are listed.
LEMMA TaxonomyScanMoves ==
    ASSUME PeopleInv, TaxonomyScan
    PROVE  /\ RunsFit' /\ \A m \in Commands : At(m, "idle")
           /\ At("dedupe", "idle")' /\ run'["taxonomy"].pc = "next"
           /\ run'["dedupe"] = run["dedupe"]
           /\ touched' = touched \ Rows
           /\ UNCHANGED <<contact, label, tag, slips, indexed, badge, offers, request, changes>>
<1>1. Tags \in SUBSET Works
  BY DEF Works
<1>2. /\ run' \in [Commands -> Jobs]
      /\ run'["taxonomy"].pc = "next" /\ run'["taxonomy"].todo = Tags /\ run'["taxonomy"].seen = {}
      /\ \A m \in Commands : At(m, "idle")
      /\ \A m \in Commands \ {"taxonomy"} : run'[m] = run[m]
      /\ touched' = touched \ Rows
      /\ UNCHANGED <<contact, label, tag, slips, indexed, badge, offers, request, changes>>
  BY <1>1, ThreeCommands, ListsMoves DEF TaxonomyScan
<1>3. TaxonomyFits'
  BY <1>2 DEF TaxonomyFits, Migrating, At
<1>4. RunsFit'
  BY <1>2, <1>3, ThreeCommands, OneRuns DEF RunsFit, PeopleInv
<1> QED
  BY <1>2, <1>4, ThreeCommands DEF At

\* A tag is linked to its label, unless a badge of another kind is in the way.
LEMMA TaxonomyLabelMoves ==
    ASSUME PeopleInv, NEW g \in Tags, TaxonomyLabel(g)
    PROVE  /\ RunsFit' /\ DefinitionsFit'
           /\ At("dedupe", "idle")' /\ run'["taxonomy"].pc \in {"next", "scan"}
           /\ run'["dedupe"] = run["dedupe"]
           /\ UNCHANGED <<contact, tag, touched, slips, indexed, badge, offers, request, changes>>
<1>1. /\ RunsFit /\ DefinitionsFit /\ TaxonomyFits /\ run["taxonomy"] \in Jobs
      /\ At("taxonomy", "next") /\ ~At("taxonomy", "idle")
      /\ UNCHANGED <<contact, tag, touched, slips, indexed, badge, offers, request, changes>>
  BY ThreeCommands DEF PeopleInv, RunsFit, TaxonomyLabel, At, Others
<1>2. CASE Drop("taxonomy", g) /\ UNCHANGED label
  <2>1. /\ run' \in [Commands -> Jobs]
        /\ run'["taxonomy"].pc = "next" /\ run'["taxonomy"].todo = run["taxonomy"].todo \ {g}
        /\ run'["taxonomy"].item = run["taxonomy"].item /\ run'["taxonomy"].seen = run["taxonomy"].seen
        /\ \A m \in Commands \ {"taxonomy"} : run'[m] = run[m] /\ At(m, "idle")
    BY <1>1, <1>2, ThreeCommands, DropMoves
  <2>2. TaxonomyFits'
    BY <1>1, <2>1 DEF TaxonomyFits, Migrating, At
  <2>3. RunsFit' /\ At("dedupe", "idle")' /\ run'["dedupe"] = run["dedupe"]
    BY <1>1, <2>1, <2>2, ThreeCommands, OneRuns DEF RunsFit, At
  <2>4. DefinitionsFit'
    BY <1>1, <1>2 DEF DefinitionsFit
  <2> QED
    BY <1>1, <2>1, <2>3, <2>4
<1>3. CASE /\ label' = [label EXCEPT ![g] = "linked"]
           /\ run' = [run EXCEPT !["taxonomy"] = [run["taxonomy"] EXCEPT !.pc = "scan", !.item = g,
                                                    !.todo = run["taxonomy"].todo \ {g}]]
  <2> DEFINE T == run["taxonomy"].todo \ {g}
             j == [run["taxonomy"] EXCEPT !.pc = "scan", !.item = g, !.todo = T]
  <2>1. T \in SUBSET Works /\ T \subseteq Tags /\ g \in Items
    BY <1>1 DEF TaxonomyFits, Works, Items
  <2> HIDE DEF T
  <2>2. j \in Jobs /\ j.pc = "scan" /\ j.item = g /\ j.todo = T /\ j.seen = run["taxonomy"].seen
    BY <1>1, <2>1 DEF Jobs, Steps
  <2>3. run' = [run EXCEPT !["taxonomy"] = j]
    BY <1>3 DEF T
  <2> HIDE DEF j
  <2>4. /\ run' \in [Commands -> Jobs] /\ run'["taxonomy"] = j
        /\ \A m \in Commands \ {"taxonomy"} : run'[m] = run[m] /\ At(m, "idle")
    BY <1>1, <2>2, <2>3, ThreeCommands, RunMoves, Alone
  <2>5. label'[g] = "linked" /\ DefinitionsFit'
    <3>1. label \in [Tags -> {"none", "other", "unlinked", "linked"}]
      BY <1>1 DEF DefinitionsFit
    <3>2. /\ label' \in [Tags -> {"none", "other", "unlinked", "linked"}]
          /\ label'[g] = "linked" /\ \A h \in Tags \ {g} : label'[h] = label[h]
      BY <3>1, <1>3
    <3> QED
      BY <3>2, <1>1 DEF DefinitionsFit
  <2>6. TaxonomyFits'
    BY <1>1, <2>1, <2>2, <2>4, <2>5 DEF TaxonomyFits, Migrating, At
  <2>7. RunsFit' /\ At("dedupe", "idle")' /\ run'["dedupe"] = run["dedupe"]
    BY <1>1, <2>4, <2>6, ThreeCommands, OneRuns DEF RunsFit, At
  <2> QED
    BY <1>1, <2>2, <2>4, <2>5, <2>7
<1> QED
  BY <1>2, <1>3 DEF TaxonomyLabel

\* The contacts that refer to the tag are read.
LEMMA TaxonomyContactsMoves ==
    ASSUME PeopleInv, TaxonomyContacts
    PROVE  /\ RunsFit' /\ At("dedupe", "idle")' /\ run'["taxonomy"].pc = "assign"
           /\ run'["dedupe"] = run["dedupe"]
           /\ UNCHANGED <<contact, label, tag, touched, slips, indexed, badge, offers, request, changes>>
<1> DEFINE g == run["taxonomy"].item
           S == {c \in Rows : contact[c].there /\ contact[c].tenant = LabelTenant /\ g \in contact[c].tags}
           j == [run["taxonomy"] EXCEPT !.pc = "assign", !.seen = S]
<1>1. /\ RunsFit /\ TaxonomyFits /\ run["taxonomy"] \in Jobs
      /\ At("taxonomy", "scan") /\ ~At("taxonomy", "idle") /\ run["taxonomy"].pc = "scan"
      /\ run' = [run EXCEPT !["taxonomy"] = j]
      /\ UNCHANGED <<contact, label, tag, touched, slips, indexed, badge, offers, request, changes>>
  BY ThreeCommands DEF PeopleInv, RunsFit, TaxonomyContacts, At, Others
<1>2. S \subseteq Rows /\ S \in SUBSET Seen
  BY DEF Seen
<1> HIDE DEF S
<1>3. /\ j \in Jobs /\ j.pc = "assign" /\ j.item = g /\ j.todo = run["taxonomy"].todo /\ j.seen = S
  BY <1>1, <1>2 DEF Jobs, Steps
<1> HIDE DEF j
<1>4. /\ run' \in [Commands -> Jobs] /\ run'["taxonomy"] = j
      /\ \A m \in Commands \ {"taxonomy"} : run'[m] = run[m] /\ At(m, "idle")
  BY <1>1, <1>3, ThreeCommands, RunMoves, Alone
<1>5. TaxonomyFits'
  BY <1>1, <1>2, <1>3, <1>4 DEF TaxonomyFits, Migrating, At
<1>6. RunsFit' /\ At("dedupe", "idle")' /\ run'["dedupe"] = run["dedupe"]
  BY <1>1, <1>4, <1>5, ThreeCommands, OneRuns DEF RunsFit, At
<1> QED
  BY <1>1, <1>3, <1>4, <1>6

\* The first contact of those left gets the label, or none is left.
LEMMA TaxonomyAssignMoves ==
    ASSUME PeopleInv, TaxonomyAssign
    PROVE  LET g == run["taxonomy"].item IN
           /\ RunsFit' /\ RowsFit' /\ At("dedupe", "idle")' /\ g \in Tags
           /\ run'["dedupe"] = run["dedupe"]
           /\ run'["taxonomy"].item = g /\ run'["taxonomy"].seen = run["taxonomy"].seen
           /\ \/ run'["taxonomy"].pc = "retire"
              \/ /\ run'["taxonomy"].pc = "pull"
                 /\ \A c \in Rows : First(c, run["taxonomy"].seen) => g \in contact'[c].badges
           /\ \A c \in Rows : /\ contact'[c].there = contact[c].there
                              /\ contact'[c].deleted = contact[c].deleted
                              /\ contact'[c].tenant = contact[c].tenant
                              /\ contact'[c].legacy = contact[c].legacy
                              /\ contact'[c].email = contact[c].email
                              /\ contact'[c].tags = contact[c].tags
                              /\ contact'[c].badges \subseteq contact[c].badges \cup {g}
           /\ UNCHANGED <<label, tag, touched, slips, indexed, badge, offers, request, changes>>
<1> DEFINE g == run["taxonomy"].item
           S == run["taxonomy"].seen
<1>1. /\ RunsFit /\ TaxonomyFits /\ contact \in [Rows -> Contact] /\ (indexed => Unique)
      /\ At("taxonomy", "assign") /\ ~At("taxonomy", "idle") /\ run["taxonomy"].pc = "assign"
      /\ UNCHANGED <<label, tag, touched, slips, indexed, badge, offers, request, changes>>
  BY ThreeCommands DEF PeopleInv, RunsFit, RowsFit, TaxonomyAssign, At, Others
<1>2. g \in Tags /\ label[g] = "linked" /\ S \subseteq Rows
  BY <1>1 DEF TaxonomyFits, Migrating
<1>3. CASE Proceeds("taxonomy", "retire") /\ UNCHANGED contact
  <2>1. /\ run' \in [Commands -> Jobs]
        /\ run'["taxonomy"].pc = "retire" /\ run'["taxonomy"].todo = run["taxonomy"].todo
        /\ run'["taxonomy"].item = g /\ run'["taxonomy"].seen = S
        /\ \A m \in Commands \ {"taxonomy"} : run'[m] = run[m] /\ At(m, "idle")
    BY <1>1, <1>3, ThreeCommands, ProceedsMoves DEF Steps
  <2>2. TaxonomyFits'
    BY <1>1, <1>2, <2>1 DEF TaxonomyFits, Migrating, At
  <2>3. RunsFit' /\ At("dedupe", "idle")' /\ run'["dedupe"] = run["dedupe"]
    BY <1>1, <2>1, <2>2, ThreeCommands, OneRuns DEF RunsFit, At
  <2>4. RowsFit'
    BY <1>1, <1>3, UniqueSame DEF RowsFit
  <2> QED
    BY <1>1, <1>2, <1>3, <2>1, <2>3, <2>4
<1>4. ASSUME NEW c \in S, \A d \in S : c <= d,
             contact' = [contact EXCEPT ![c].badges = contact[c].badges \cup {g}],
             Proceeds("taxonomy", "pull")
      PROVE  /\ RunsFit' /\ RowsFit' /\ At("dedupe", "idle")'
             /\ run'["dedupe"] = run["dedupe"]
             /\ run'["taxonomy"].item = g /\ run'["taxonomy"].seen = S
             /\ run'["taxonomy"].pc = "pull"
             /\ \A d \in Rows : First(d, S) => g \in contact'[d].badges
             /\ \A d \in Rows : /\ contact'[d].there = contact[d].there
                                /\ contact'[d].deleted = contact[d].deleted
                                /\ contact'[d].tenant = contact[d].tenant
                                /\ contact'[d].legacy = contact[d].legacy
                                /\ contact'[d].email = contact[d].email
                                /\ contact'[d].tags = contact[d].tags
                                /\ contact'[d].badges \subseteq contact[d].badges \cup {g}
  <2>1. /\ run' \in [Commands -> Jobs]
        /\ run'["taxonomy"].pc = "pull" /\ run'["taxonomy"].todo = run["taxonomy"].todo
        /\ run'["taxonomy"].item = g /\ run'["taxonomy"].seen = S
        /\ \A m \in Commands \ {"taxonomy"} : run'[m] = run[m] /\ At(m, "idle")
    BY <1>1, <1>4, ThreeCommands, ProceedsMoves DEF Steps
  <2>2. c \in Rows /\ First(c, S)
    BY <1>2, <1>4 DEF First
  <2>3. TaxonomyFits'
    BY <1>1, <1>2, <2>1, <2>2 DEF TaxonomyFits, Migrating, At
  <2>4. RunsFit' /\ At("dedupe", "idle")' /\ run'["dedupe"] = run["dedupe"]
    BY <1>1, <2>1, <2>3, ThreeCommands, OneRuns DEF RunsFit, At
  <2> DEFINE B == contact[c].badges \cup {g}
             f == [contact[c] EXCEPT !.badges = B]
  <2>5. contact[c] \in Contact /\ B \in SUBSET Marks
    BY <1>1, <1>2, <2>2 DEF Contact, Marks
  <2>6. /\ f \in Contact /\ f.badges = B
        /\ f.there = contact[c].there /\ f.deleted = contact[c].deleted
        /\ f.tenant = contact[c].tenant /\ f.legacy = contact[c].legacy
        /\ f.email = contact[c].email /\ f.tags = contact[c].tags
    BY <2>5 DEF Contact, Marks
  <2>7. contact' = [contact EXCEPT ![c] = f]
    BY <1>4
  <2> HIDE DEF f
  <2>8. contact' \in [Rows -> Contact] /\ contact'[c] = f /\ \A d \in Rows \ {c} : contact'[d] = contact[d]
    BY <1>1, <2>2, <2>6, <2>7
  <2>9. ASSUME NEW d \in Rows
        PROVE  /\ contact'[d].there = contact[d].there
               /\ contact'[d].deleted = contact[d].deleted
               /\ contact'[d].tenant = contact[d].tenant
               /\ contact'[d].legacy = contact[d].legacy
               /\ contact'[d].email = contact[d].email
               /\ contact'[d].tags = contact[d].tags
               /\ contact'[d].badges \subseteq contact[d].badges \cup {g}
    <3>1. CASE d = c
      BY <3>1, <2>6, <2>8
    <3>2. CASE d # c
      <4>1. contact'[d] = contact[d]
        BY <3>2, <2>8
      <4> QED
        BY <4>1
    <3> QED
      BY <3>1, <3>2
  <2>10. RowsFit'
    BY <1>1, <2>8, <2>9, UniqueSame DEF RowsFit
  <2>11. ASSUME NEW d \in Rows, First(d, S) PROVE g \in contact'[d].badges
    <3>1. d <= c /\ c <= d /\ d \in Int /\ c \in Int
      BY <2>2, <2>11 DEF First, Rows
    <3>2. d = c
      BY <3>1
    <3> QED
      BY <3>2, <2>6, <2>8
  <2> QED
    BY <2>1, <2>4, <2>9, <2>10, <2>11
<1>5. \/ Proceeds("taxonomy", "retire") /\ UNCHANGED contact
      \/ \E c \in S : /\ \A d \in S : c <= d
                      /\ contact' = [contact EXCEPT ![c].badges = contact[c].badges \cup {g}]
                      /\ Proceeds("taxonomy", "pull")
  BY DEF TaxonomyAssign
<1>6. CASE \E c \in S : /\ \A d \in S : c <= d
                        /\ contact' = [contact EXCEPT ![c].badges = contact[c].badges \cup {g}]
                        /\ Proceeds("taxonomy", "pull")
  <2>1. PICK c \in S : /\ \A d \in S : c <= d
                       /\ contact' = [contact EXCEPT ![c].badges = contact[c].badges \cup {g}]
                       /\ Proceeds("taxonomy", "pull")
    BY <1>6
  <2> QED
    BY <1>1, <1>2, <1>4, <2>1
<1> QED
  BY <1>3, <1>5, <1>6

\* The contact loses the reference, unless the write fails.
LEMMA TaxonomyPullMoves ==
    ASSUME ContactsConstants, PeopleInv, TaxonomyPull
    PROVE  LET g == run["taxonomy"].item IN
           /\ RunsFit' /\ RowsFit' /\ slips' \in 0 .. MaxSlips
           /\ At("taxonomy", "pull") /\ At("dedupe", "idle")'
           /\ run'["dedupe"] = run["dedupe"]
           /\ run'["taxonomy"].pc = "assign"
           /\ \A c \in Rows : /\ contact'[c].there = contact[c].there
                              /\ contact'[c].deleted = contact[c].deleted
                              /\ contact'[c].tenant = contact[c].tenant
                              /\ contact'[c].legacy = contact[c].legacy
                              /\ contact'[c].email = contact[c].email
                              /\ contact'[c].badges = contact[c].badges
                              /\ contact'[c].tags \subseteq contact[c].tags
                              /\ \A h \in contact[c].tags \ contact'[c].tags :
                                   h = g /\ First(c, run["taxonomy"].seen)
           /\ UNCHANGED <<label, tag, touched, indexed, badge, offers, request, changes>>
<1> DEFINE g == run["taxonomy"].item
           S == run["taxonomy"].seen
           c == CHOOSE x \in S : \A d \in S : x <= d
           T == S \ {c}
           j == [run["taxonomy"] EXCEPT !.pc = "assign", !.seen = T]
           G == contact[c].tags \ {g}
           f == [contact[c] EXCEPT !.tags = G]
<1>1. /\ RunsFit /\ TaxonomyFits /\ contact \in [Rows -> Contact] /\ (indexed => Unique)
      /\ run["taxonomy"] \in Jobs /\ slips \in 0 .. MaxSlips /\ MaxSlips \in Nat
      /\ At("taxonomy", "pull") /\ ~At("taxonomy", "idle") /\ run["taxonomy"].pc = "pull"
      /\ run' = [run EXCEPT !["taxonomy"] = j]
      /\ UNCHANGED <<label, tag, touched, indexed, badge, offers, request, changes>>
  BY ThreeCommands DEF PeopleInv, RunsFit, RowsFit, TaxonomyPull, At, Others, ContactsConstants
<1>2. /\ \/ contact' = [contact EXCEPT ![c] = f] /\ UNCHANGED slips
         \/ slips' = slips + 1 /\ slips < MaxSlips /\ UNCHANGED contact
  BY DEF TaxonomyPull, Sure, Slip
<1>3. g \in Tags /\ label[g] = "linked" /\ S \subseteq Rows
  BY <1>1 DEF TaxonomyFits, Migrating
<1>4. PICK x \in S : \A d \in S : x <= d
  BY <1>1 DEF TaxonomyFits, First
<1>5. c \in S /\ \A d \in S : c <= d
  BY <1>4
<1>6. c \in Rows /\ First(c, S)
  BY <1>3, <1>5 DEF First
<1> HIDE DEF c
<1>7. T \in SUBSET Seen /\ T \subseteq Rows
  BY <1>3 DEF Seen
<1> HIDE DEF T
<1>8. j \in Jobs /\ j.pc = "assign" /\ j.item = g /\ j.todo = run["taxonomy"].todo /\ j.seen = T
  BY <1>1, <1>7 DEF Jobs, Steps
<1> HIDE DEF j
<1>9. /\ run' \in [Commands -> Jobs] /\ run'["taxonomy"] = j
      /\ \A m \in Commands \ {"taxonomy"} : run'[m] = run[m] /\ At(m, "idle")
  BY <1>1, <1>8, ThreeCommands, RunMoves, Alone
<1>10. TaxonomyFits'
  BY <1>1, <1>3, <1>7, <1>8, <1>9 DEF TaxonomyFits, Migrating, At
<1>11. RunsFit' /\ At("dedupe", "idle")' /\ run'["dedupe"] = run["dedupe"]
  BY <1>1, <1>9, <1>10, ThreeCommands, OneRuns DEF RunsFit, At
<1>12. contact[c] \in Contact /\ G \in SUBSET Tags
  BY <1>1, <1>6 DEF Contact
<1>13. /\ f \in Contact /\ f.tags = G
       /\ f.there = contact[c].there /\ f.deleted = contact[c].deleted
       /\ f.tenant = contact[c].tenant /\ f.legacy = contact[c].legacy
       /\ f.email = contact[c].email /\ f.badges = contact[c].badges
  BY <1>12 DEF Contact
<1> HIDE DEF f
<1>14. contact' \in [Rows -> Contact]
  BY <1>1, <1>2, <1>6, <1>13
<1>15. ASSUME NEW d \in Rows
       PROVE  /\ contact'[d].there = contact[d].there
              /\ contact'[d].deleted = contact[d].deleted
              /\ contact'[d].tenant = contact[d].tenant
              /\ contact'[d].legacy = contact[d].legacy
              /\ contact'[d].email = contact[d].email
              /\ contact'[d].badges = contact[d].badges
              /\ contact'[d].tags \subseteq contact[d].tags
              /\ \A h \in contact[d].tags \ contact'[d].tags : h = g /\ First(d, S)
  <2>1. CASE d # c \/ UNCHANGED contact
    <3>1. contact'[d] = contact[d]
      BY <2>1, <1>1, <1>2, <1>6
    <3> QED
      BY <3>1
  <2>2. CASE d = c /\ contact' = [contact EXCEPT ![c] = f]
    <3>1. contact'[d] = f
      BY <2>2, <1>1, <1>6
    <3> QED
      BY <3>1, <2>2, <1>6, <1>13
  <2> QED
    BY <2>1, <2>2, <1>2
<1>16. RowsFit'
  BY <1>1, <1>14, <1>15, UniqueSame DEF RowsFit
<1>17. slips' \in 0 .. MaxSlips
  BY <1>1, <1>2
<1> QED
  BY <1>1, <1>8, <1>9, <1>11, <1>15, <1>16, <1>17

\* A tag whose label is linked is retired.
LEMMA TaxonomyRetireMoves ==
    ASSUME PeopleInv, TaxonomyRetire
    PROVE  /\ RunsFit' /\ DefinitionsFit' /\ At("dedupe", "idle")' /\ run'["taxonomy"].pc = "next"
           /\ run'["dedupe"] = run["dedupe"]
           /\ UNCHANGED <<contact, label, touched, slips, indexed, badge, offers, request, changes>>
<1> DEFINE g == run["taxonomy"].item
<1>1. /\ RunsFit /\ DefinitionsFit /\ TaxonomyFits
      /\ At("taxonomy", "retire") /\ ~At("taxonomy", "idle") /\ run["taxonomy"].pc = "retire"
      /\ Proceeds("taxonomy", "next") /\ tag' = [tag EXCEPT ![g] = "retired"]
      /\ UNCHANGED <<contact, label, touched, slips, indexed, badge, offers, request, changes>>
  BY ThreeCommands DEF PeopleInv, RunsFit, TaxonomyRetire, At, Others
<1>2. g \in Tags /\ label[g] = "linked"
  BY <1>1 DEF TaxonomyFits, Migrating
<1>3. /\ run' \in [Commands -> Jobs]
      /\ run'["taxonomy"].pc = "next" /\ run'["taxonomy"].todo = run["taxonomy"].todo
      /\ run'["taxonomy"].item = g /\ run'["taxonomy"].seen = run["taxonomy"].seen
      /\ \A m \in Commands \ {"taxonomy"} : run'[m] = run[m] /\ At(m, "idle")
  BY <1>1, ThreeCommands, ProceedsMoves DEF Steps
<1>4. TaxonomyFits'
  BY <1>1, <1>3 DEF TaxonomyFits, Migrating, At
<1>5. RunsFit' /\ At("dedupe", "idle")' /\ run'["dedupe"] = run["dedupe"]
  BY <1>1, <1>3, <1>4, ThreeCommands, OneRuns DEF RunsFit, At
<1>6. DefinitionsFit'
  <2>1. /\ tag \in [Tags -> {"live", "retired"}]
        /\ label \in [Tags -> {"none", "other", "unlinked", "linked"}]
        /\ badge \in [Badges -> {"live", "deleted"}] /\ offers \subseteq Badges
        /\ \A h \in Tags : tag[h] = "retired" => label[h] = "linked"
    BY <1>1 DEF DefinitionsFit
  <2>2. tag' \in [Tags -> {"live", "retired"}] /\ \A h \in Tags \ {g} : tag'[h] = tag[h]
    BY <1>1, <2>1
  <2> QED
    BY <1>1, <1>2, <2>1, <2>2 DEF DefinitionsFit
<1> QED
  BY <1>1, <1>3, <1>5, <1>6

\* A command that ends, or is killed, leaves no trace but what it wrote.
LEMMA EndMoves ==
    ASSUME ContactsConstants, PeopleInv, NEW k \in Commands, End(k)
    PROVE  /\ RunsFit' /\ slips' \in 0 .. MaxSlips
           /\ \A m \in Commands : At(m, "idle")'
           /\ run'["dedupe"].todo = {} \/ run'["dedupe"] = run["dedupe"]
           /\ UNCHANGED <<contact, label, tag, touched, indexed, badge, offers, request, changes>>
<1>1. /\ RunsFit /\ slips \in 0 .. MaxSlips /\ MaxSlips \in Nat /\ ~At(k, "idle")
      /\ run' = [run EXCEPT ![k] = Waiting]
      /\ UNCHANGED slips \/ (slips < MaxSlips /\ slips' = slips + 1)
      /\ UNCHANGED <<contact, label, tag, touched, indexed, badge, offers, request, changes>>
  BY DEF PeopleInv, End, At, Others, Sure, Slip, ContactsConstants
<1>2. /\ run' \in [Commands -> Jobs] /\ run'[k] = Waiting
      /\ \A m \in Commands \ {k} : run'[m] = run[m] /\ At(m, "idle")
  BY <1>1, WaitingJob, RunMoves, Alone
<1>3. \A m \in Commands : At(m, "idle")'
  BY <1>2, WaitingJob DEF At
<1>4. k = "dedupe" => DedupeFits'
  BY <1>2, WaitingJob DEF DedupeFits, Merging
<1>5. k = "tenancy" => TenancyFits'
  BY <1>2, WaitingJob DEF TenancyFits
<1>6. k = "taxonomy" => TaxonomyFits'
  BY <1>2, WaitingJob DEF TaxonomyFits, Migrating, At
<1>7. RunsFit'
  BY <1>1, <1>2, <1>4, <1>5, <1>6, ThreeCommands, OneRuns DEF RunsFit
<1>8. slips' \in 0 .. MaxSlips
  BY <1>1
<1>9. run'["dedupe"].todo = {} \/ run'["dedupe"] = run["dedupe"]
  BY <1>2, WaitingJob, ThreeCommands
<1> QED
  BY <1>1, <1>3, <1>7, <1>8, <1>9

--------------------------------------------------------------------------------
(* Types *)

\* Every contact, request and command is well typed at first.
LEMMA TypesInit ==
    ASSUME ContactsConstants, ContactsInit PROVE PeopleInv
<1>1. RowsFit
  BY DEF ContactsConstants, ContactsInit, RowsFit, Unique
<1>2. DefinitionsFit
  BY DEF ContactsInit, DefinitionsFit
<1>3. Free \in Asks /\ Free.pc = "idle"
  BY DEF Free, Asks, Owners
<1>4. AsksFit
  BY <1>3 DEF ContactsInit, AsksFit
<1>5. run \in [Commands -> Jobs] /\ \A k \in Commands : run[k] = Waiting
  BY WaitingJob DEF ContactsInit
<1>6. DedupeFits /\ TenancyFits /\ TaxonomyFits
  BY <1>5, WaitingJob, ThreeCommands DEF DedupeFits, TenancyFits, TaxonomyFits, Merging, Migrating, At
<1>7. RunsFit
  BY <1>5, <1>6, WaitingJob DEF RunsFit, At
<1>8. changes \in 0 .. MaxChanges /\ slips \in 0 .. MaxSlips
  BY DEF ContactsInit, ContactsConstants
<1> QED
  BY <1>1, <1>2, <1>4, <1>7, <1>8 DEF PeopleInv

\* Rows, definitions and requests that a step leaves alone keep their types.
LEMMA OthersTyped ==
    ASSUME PeopleInv
    PROVE  /\ UNCHANGED <<contact, indexed>> => RowsFit'
           /\ UNCHANGED <<label, tag, badge, offers>> => DefinitionsFit'
           /\ UNCHANGED request => AsksFit'
           /\ UNCHANGED slips => slips' \in 0 .. MaxSlips
           /\ UNCHANGED changes => changes' \in 0 .. MaxChanges
           /\ UNCHANGED <<run, label>> => RunsFit'
<1>1. UNCHANGED <<contact, indexed>> => RowsFit'
  BY DEF PeopleInv, RowsFit, Unique, Alike
<1>2. UNCHANGED <<label, tag, badge, offers>> => DefinitionsFit'
  BY DEF PeopleInv, DefinitionsFit
<1>3. UNCHANGED request => AsksFit'
  BY DEF PeopleInv, AsksFit
<1>4. /\ UNCHANGED slips => slips' \in 0 .. MaxSlips
      /\ UNCHANGED changes => changes' \in 0 .. MaxChanges
  BY DEF PeopleInv
<1> QED
  BY <1>1, <1>2, <1>3, <1>4, RunsStay DEF PeopleInv

\* Every step keeps the types.
LEMMA TypesStep ==
    ASSUME ContactsConstants, PeopleInv, ContactsNext PROVE PeopleInv'
<1>1. CASE RequestNext
  <2>1. RowsFit'
    BY <1>1, RequestWrites, OthersTyped DEF Writes
  <2>2. AsksFit' /\ DefinitionsFit' /\ changes' \in 0 .. MaxChanges
    BY <1>1, RequestKeepsTypes
  <2>3. RunsFit' /\ slips' \in 0 .. MaxSlips
    BY <1>1, RequestWrites, OthersTyped
  <2> QED
    BY <2>1, <2>2, <2>3 DEF PeopleInv
<1>2. CASE DedupeScan
  BY <1>2, DedupeScanMoves, OthersTyped DEF PeopleInv
<1>3. ASSUME NEW x, DedupeRead(x) PROVE PeopleInv'
  BY <1>3, DedupeReadMoves, OthersTyped DEF PeopleInv
<1>4. CASE DedupeUnion
  BY <1>4, DedupeUnionMoves, OthersTyped DEF PeopleInv
<1>5. CASE DedupeMark
  BY <1>5, DedupeMarkMoves, OthersTyped DEF PeopleInv
<1>6. CASE TenancyScan
  BY <1>6, TenancyScanMoves, OthersTyped DEF PeopleInv
<1>7. ASSUME NEW x, TenancyRow(x) PROVE PeopleInv'
  BY <1>7, TenancyRowMoves, OthersTyped DEF PeopleInv
<1>8. CASE TaxonomyScan
  BY <1>8, TaxonomyScanMoves, OthersTyped DEF PeopleInv
<1>9. ASSUME NEW g \in Tags, TaxonomyLabel(g) PROVE PeopleInv'
  BY <1>9, TaxonomyLabelMoves, OthersTyped DEF PeopleInv
<1>10. CASE TaxonomyContacts
  BY <1>10, TaxonomyContactsMoves, OthersTyped DEF PeopleInv
<1>11. CASE TaxonomyAssign
  BY <1>11, TaxonomyAssignMoves, OthersTyped DEF PeopleInv
<1>12. CASE TaxonomyPull
  BY <1>12, TaxonomyPullMoves, OthersTyped DEF PeopleInv
<1>13. CASE TaxonomyRetire
  BY <1>13, TaxonomyRetireMoves, OthersTyped DEF PeopleInv
<1>14. ASSUME NEW k \in Commands, End(k) PROVE PeopleInv'
  BY <1>14, EndMoves, OthersTyped DEF PeopleInv
<1> QED
  BY <1>1, <1>2, <1>3, <1>4, <1>5, <1>6, <1>7, <1>8, <1>9, <1>10, <1>11, <1>12, <1>13, <1>14, StepsSplit
     DEF CommandNext

--------------------------------------------------------------------------------
(* A merge keeps what its rows had *)

\* Without a merge there is nothing to keep.
LEMMA MergeIdle ==
    ASSUME At("dedupe", "idle")', run'["dedupe"].todo = {} PROVE MergeInv'
<1>1. ~Merging' /\ Merges' = {}
  BY DEF At, Merging, Merges
<1> QED
  BY <1>1 DEF MergeInv

\* Rows that are written are touched.
LEMMA MergeSpared ==
    ASSUME PeopleInv, MergeInv, UNCHANGED slips, run'["dedupe"] = run["dedupe"],
           \A c \in Rows : /\ c \in touched' \/ contact'[c] = contact[c]
                           /\ c \in touched => c \in touched'
    PROVE  MergeInv'
<1>1. Merging' = Merging /\ Merges' = Merges
  BY DEF Merging, Merges
<1>2. Merges \subseteq Pairs
  BY DEF PeopleInv, RunsFit, DedupeFits, Merges
<1>3. ASSUME NEW x \in Pairs, {x[1], x[2]} \cap touched' = {}
      PROVE  /\ {x[1], x[2]} \cap touched = {}
             /\ contact'[x[1]] = contact[x[1]] /\ contact'[x[2]] = contact[x[2]]
  <2>1. x[1] \in Rows /\ x[2] \in Rows
    BY DEF Pairs
  <2> QED
    BY <2>1, <1>3
<1>4. At("dedupe", "idle")' => run'["dedupe"].todo = {}
  BY DEF MergeInv, At
<1>5. \A x, y \in Merges' : x[1] # y[2]
  BY <1>1 DEF MergeInv
<1>6. ASSUME NEW x \in Merges', {x[1], x[2]} \cap touched' = {} PROVE Live(x[2])' /\ Alike(x[1], x[2])'
  <2>1. Live(x[2]) /\ Alike(x[1], x[2])
    BY <1>1, <1>2, <1>3, <1>6 DEF MergeInv
  <2>2. contact'[x[1]] = contact[x[1]] /\ contact'[x[2]] = contact[x[2]]
    BY <1>1, <1>2, <1>3, <1>6
  <2> QED
    BY <2>1, <2>2 DEF Live, Alike
<1> DEFINE x == run["dedupe"].item
<1>7. ASSUME Merging', slips' = 0, {x[1], x[2]} \cap touched' = {}
      PROVE  /\ contact'[x[1]].badges = run'["dedupe"].seen
             /\ At("dedupe", "mark")' => run'["dedupe"].seen \subseteq contact'[x[2]].badges
  <2>1. x \in Merges
    BY <1>1, <1>7 DEF Merges
  <2>2. /\ {x[1], x[2]} \cap touched = {}
        /\ contact'[x[1]] = contact[x[1]] /\ contact'[x[2]] = contact[x[2]]
    BY <2>1, <1>2, <1>3, <1>7
  <2>3. /\ contact[x[1]].badges = run["dedupe"].seen
        /\ At("dedupe", "mark") => run["dedupe"].seen \subseteq contact[x[2]].badges
    BY <2>2, <1>1, <1>7 DEF MergeInv
  <2> QED
    BY <2>2, <2>3 DEF At
<1> QED
  BY <1>4, <1>5, <1>6, <1>7 DEF MergeInv

\* A listed pair is a row and the one kept instead, which is listed for none.
LEMMA MergeListed ==
    ASSUME PeopleInv, DedupeScan PROVE MergeInv'
<1>1. /\ run'["dedupe"].pc = "next" /\ UNCHANGED contact
      /\ \A x \in run'["dedupe"].todo :
           /\ x \in Pairs /\ Live(x[1]) /\ Canonical(x[1]) # x[1] /\ x[2] = Canonical(x[1])
           /\ Live(x[2]) /\ Alike(x[1], x[2])
  BY DedupeScanMoves
<1>2. ~Merging' /\ Merges' = run'["dedupe"].todo /\ ~At("dedupe", "idle")'
  BY <1>1 DEF Merging, Merges, At
<1>3. ASSUME NEW x \in Merges', NEW y \in Merges', x[1] = y[2] PROVE FALSE
  <2>1. y[1] \in Rows /\ Live(y[1]) /\ y[2] = Canonical(y[1]) /\ Canonical(x[1]) # x[1]
    BY <1>1, <1>2, <1>3 DEF Pairs
  <2>2. Canonical(y[2]) = y[2]
    BY <2>1, CanonicalStays
  <2> QED
    BY <2>1, <2>2, <1>3
<1>4. ASSUME NEW x \in Merges' PROVE Live(x[2])' /\ Alike(x[1], x[2])'
  BY <1>1, <1>2, <1>4 DEF Live, Alike
<1> QED
  BY <1>2, <1>3, <1>4 DEF MergeInv

\* Taking up a pair reads the badges of the row that goes.
LEMMA MergeTaken ==
    ASSUME PeopleInv, MergeInv, NEW x, DedupeRead(x) PROVE MergeInv'
<1>1. /\ x \in run["dedupe"].todo /\ x \in Pairs
      /\ run'["dedupe"].pc = "union" /\ run'["dedupe"].item = x
      /\ run'["dedupe"].todo = run["dedupe"].todo \ {x}
      /\ run'["dedupe"].seen = contact[x[1]].badges
      /\ UNCHANGED <<contact, touched>>
  BY DedupeReadMoves
<1>2. Merges' \subseteq Merges /\ ~At("dedupe", "idle")' /\ ~At("dedupe", "mark")'
  BY <1>1 DEF Merges, At
<1>3. \A y, z \in Merges' : y[1] # z[2]
  BY <1>2 DEF MergeInv
<1>4. ASSUME NEW y \in Merges', {y[1], y[2]} \cap touched' = {} PROVE Live(y[2])' /\ Alike(y[1], y[2])'
  <2>1. Live(y[2]) /\ Alike(y[1], y[2])
    BY <1>1, <1>2, <1>4 DEF MergeInv
  <2> QED
    BY <2>1, <1>1 DEF Live, Alike
<1> QED
  BY <1>1, <1>2, <1>3, <1>4 DEF MergeInv

\* After the union the row that stays has the badges that were read.
LEMMA MergeUnited ==
    ASSUME ContactsConstants, PeopleInv, MergeInv, DedupeUnion PROVE MergeInv'
<1> DEFINE x == run["dedupe"].item
           B == contact[x[2]].badges \cup run["dedupe"].seen
<1>0. slips \in Nat
  BY DEF PeopleInv, ContactsConstants
<1>1. /\ x \in Pairs /\ At("dedupe", "union")
      /\ run'["dedupe"].pc = "mark" /\ run'["dedupe"].item = x
      /\ run'["dedupe"].todo = run["dedupe"].todo /\ run'["dedupe"].seen = run["dedupe"].seen
      /\ touched' = touched \cup run["dedupe"].seen
      /\ \/ UNCHANGED slips /\ contact'[x[2]].badges = B
         \/ slips' = slips + 1
  BY DedupeUnionMoves
<1>2. \A c \in Rows : /\ c # x[2] => contact'[c] = contact[c]
                      /\ contact'[c].there = contact[c].there
                      /\ contact'[c].deleted = contact[c].deleted
                      /\ contact'[c].tenant = contact[c].tenant
                      /\ contact'[c].email = contact[c].email
  BY DedupeUnionMoves
<1>3. Merging /\ Merging' /\ Merges' = Merges /\ x \in Merges
  BY <1>1 DEF Merging, Merges, At
<1>4. Merges \subseteq Pairs
  BY DEF PeopleInv, RunsFit, DedupeFits, Merges
<1>5. x[1] # x[2] /\ x[1] \in Rows /\ x[2] \in Rows
  BY <1>1, <1>3 DEF MergeInv, Pairs
<1>6. ASSUME NEW y \in Merges', {y[1], y[2]} \cap touched' = {} PROVE Live(y[2])' /\ Alike(y[1], y[2])'
  <2>1. y \in Merges /\ y[1] \in Rows /\ y[2] \in Rows /\ {y[1], y[2]} \cap touched = {}
    BY <1>1, <1>3, <1>4, <1>6 DEF Pairs
  <2>2. Live(y[2]) /\ Alike(y[1], y[2])
    BY <2>1 DEF MergeInv
  <2> QED
    BY <2>1, <2>2, <1>2 DEF Live, Alike
<1>7. ASSUME slips' = 0, {x[1], x[2]} \cap touched' = {}
      PROVE  /\ contact'[x[1]].badges = run'["dedupe"].seen
             /\ run'["dedupe"].seen \subseteq contact'[x[2]].badges
  <2>1. slips = 0 /\ contact'[x[2]].badges = B
    BY <1>0, <1>1, <1>7
  <2>2. {x[1], x[2]} \cap touched = {}
    BY <1>1, <1>7
  <2>3. contact[x[1]].badges = run["dedupe"].seen
    BY <1>3, <2>1, <2>2 DEF MergeInv
  <2> QED
    BY <1>1, <1>2, <1>5, <2>1, <2>3
<1>8. \A y, z \in Merges' : y[1] # z[2]
  BY <1>3 DEF MergeInv
<1>9. ~At("dedupe", "idle")'
  BY <1>1 DEF At
<1> QED
  BY <1>1, <1>6, <1>7, <1>8, <1>9 DEF MergeInv

\* The row that goes stays in no other pair.
LEMMA MergeMarked ==
    ASSUME ContactsConstants, PeopleInv, MergeInv, DedupeMark PROVE MergeInv'
<1> DEFINE x == run["dedupe"].item
<1>1. /\ x \in Pairs /\ At("dedupe", "mark")
      /\ run'["dedupe"].pc = "next" /\ run'["dedupe"].todo = run["dedupe"].todo
      /\ UNCHANGED touched
  BY DedupeMarkMoves
<1>2. \A c \in Rows : /\ c # x[1] => contact'[c] = contact[c]
                      /\ contact'[c].there = contact[c].there
                      /\ contact'[c].tenant = contact[c].tenant
                      /\ contact'[c].email = contact[c].email
  BY DedupeMarkMoves
<1>3. Merging /\ ~Merging' /\ Merges' \subseteq Merges /\ x \in Merges /\ ~At("dedupe", "idle")'
  BY <1>1 DEF Merging, Merges, At
<1>4. Merges \subseteq Pairs
  BY DEF PeopleInv, RunsFit, DedupeFits, Merges
<1>5. \A y, z \in Merges' : y[1] # z[2]
  BY <1>3 DEF MergeInv
<1>6. ASSUME NEW y \in Merges', {y[1], y[2]} \cap touched' = {} PROVE Live(y[2])' /\ Alike(y[1], y[2])'
  <2>1. y \in Merges /\ y[1] \in Rows /\ y[2] \in Rows /\ y[2] # x[1]
    BY <1>3, <1>4 DEF MergeInv, Pairs
  <2>2. Live(y[2]) /\ Alike(y[1], y[2])
    BY <2>1, <1>1, <1>6 DEF MergeInv
  <2>3. contact'[y[2]] = contact[y[2]]
    BY <2>1, <1>2
  <2> QED
    BY <2>1, <2>2, <2>3, <1>2 DEF Live, Alike
<1> QED
  BY <1>3, <1>5, <1>6 DEF MergeInv

\* Every step keeps it.
LEMMA MergeStep ==
    ASSUME ContactsConstants, PeopleInv, MergeInv, ContactsNext PROVE MergeInv'
<1>1. CASE RequestNext
  <2>1. UNCHANGED slips /\ run'["dedupe"] = run["dedupe"]
    BY <1>1, RequestWrites
  <2>2. CASE Writes
    BY <2>1, <2>2, MergeSpared DEF Writes
  <2>3. CASE \E b \in Badges : UNCHANGED contact /\ touched' = touched \ {b}
    <3>1. \A c \in Rows : /\ c \in touched' \/ contact'[c] = contact[c]
                          /\ c \in touched => c \in touched'
      BY <2>3 DEF ContactsConstants
    <3> QED
      BY <2>1, <3>1, MergeSpared
  <2> QED
    BY <1>1, <2>2, <2>3, RequestWrites
<1>2. ASSUME At("dedupe", "idle")', run'["dedupe"] = run["dedupe"] \/ run'["dedupe"].todo = {}
      PROVE  MergeInv'
  BY <1>2, MergeIdle DEF MergeInv, At
<1>3. CASE TenancyScan
  BY <1>2, <1>3, TenancyScanMoves
<1>4. ASSUME NEW x, TenancyRow(x) PROVE MergeInv'
  BY <1>2, <1>4, TenancyRowMoves
<1>5. CASE TaxonomyScan
  BY <1>2, <1>5, TaxonomyScanMoves
<1>6. ASSUME NEW g \in Tags, TaxonomyLabel(g) PROVE MergeInv'
  BY <1>2, <1>6, TaxonomyLabelMoves
<1>7. CASE TaxonomyContacts
  BY <1>2, <1>7, TaxonomyContactsMoves
<1>8. CASE TaxonomyAssign
  BY <1>2, <1>8, TaxonomyAssignMoves
<1>9. CASE TaxonomyPull
  BY <1>2, <1>9, TaxonomyPullMoves
<1>10. CASE TaxonomyRetire
  BY <1>2, <1>10, TaxonomyRetireMoves
<1>11. ASSUME NEW k \in Commands, End(k) PROVE MergeInv'
  BY <1>2, <1>11, EndMoves, ThreeCommands
<1> QED
  BY <1>1, <1>3, <1>4, <1>5, <1>6, <1>7, <1>8, <1>9, <1>10, <1>11, StepsSplit,
     MergeListed, MergeTaken, MergeUnited, MergeMarked
     DEF CommandNext

\* Neither what a merge is at nor the order of its writes hurts a pair nobody
\* edited and no failed write spoiled: the badges of the row that goes are those
\* the row that stays was given.
LEMMA MergeKept ==
    ASSUME ContactsConstants, PeopleInv, MergeInv, MergeInv', ContactsNext, NEW x, x = run["dedupe"].item,
           At("dedupe", "mark"), slips' = 0, {x[1], x[2]} \cap touched = {}
    PROVE  /\ Live(x[2]) /\ Alike(x[1], x[2])
           /\ contact[x[1]].badges \subseteq contact[x[2]].badges
<1>1. Merging /\ x \in Merges
  BY DEF Merging, Merges, At
<1>2. slips = 0
  <2>1. slips \in Nat
    BY DEF PeopleInv, ContactsConstants
  <2>2. slips' = slips \/ slips' = slips + 1
    <3>1. RequestNext => slips' = slips
      BY RequestWrites
    <3>2. CommandNext => slips' = slips \/ slips' = slips + 1
      BY DEF CommandNext, DedupeScan, DedupeUnion, DedupeMark, DedupeRead, TenancyScan, TenancyRow,
             TaxonomyScan, TaxonomyLabel, TaxonomyContacts, TaxonomyAssign, TaxonomyPull, TaxonomyRetire,
             End, Lists, Sure, Slip
    <3> QED
      BY <3>1, <3>2, StepsSplit
  <2> QED
    BY <2>1, <2>2
<1> QED
  BY <1>1, <1>2 DEF MergeInv

--------------------------------------------------------------------------------
(* Owners, tags and badges *)

\* Nothing is counted, read or lost at first.
LEMMA UsesInit ==
    ASSUME ContactsConstants, ContactsInit PROVE MergeInv /\ CountInv /\ LabelInv
<1>1. /\ \A k \in Commands : run[k] = Waiting
      /\ \A r \in Requests : request[r].pc = "idle"
  BY DEF ContactsInit, Free
<1>2. MergeInv
  <2>1. ~Merging /\ Merges = {} /\ run["dedupe"].todo = {}
    BY <1>1, ThreeCommands, WaitingJob DEF Merging, Merges
  <2> QED
    BY <2>1 DEF MergeInv
<1>3. CountInv
  BY <1>1 DEF CountInv
<1>4. ~At("taxonomy", "pull")
  BY <1>1, ThreeCommands, WaitingJob DEF At
<1>5. \A c \in Rows : ~contact[c].there => contact[c].tags = {}
  BY DEF ContactsInit, ContactsConstants
<1> QED
  BY <1>2, <1>3, <1>4, <1>5 DEF LabelInv

\* Nobody comes to hold or offer a badge unless it is touched.
LEMMA CountSpared ==
    ASSUME PeopleInv, CountInv,
           \A r \in Requests : request'[r].pc = "delete" => request'[r] = request[r],
           \A b \in Badges : b \notin touched' => b \notin touched /\ (b \in offers' => b \in offers),
           \A c \in Rows : \A b \in contact'[c].badges :
             contact'[c].there /\ ~contact'[c].deleted =>
               b \in touched' \/ b \notin Badges \/ (b \in contact[c].badges /\ Live(c))
    PROVE  CountInv'
<1> SUFFICES ASSUME NEW r \in Requests, NEW b \in Badges,
                    request'[r].pc = "delete", request'[r].of = b, b \notin touched'
             PROVE  Holders(b)' = {} /\ b \notin offers'
  BY DEF CountInv
<1>1. b \notin touched /\ request[r].pc = "delete" /\ request[r].of = b
  OBVIOUS
<1>2. Holders(b) = {} /\ b \notin offers
  BY <1>1 DEF CountInv
<1>3. ASSUME NEW c \in Rows, Live(c)', b \in contact'[c].badges PROVE FALSE
  <2>1. b \in contact[c].badges /\ Live(c)
    BY <1>3 DEF Live
  <2> QED
    BY <1>2, <2>1 DEF Holders
<1> QED
  BY <1>2, <1>3 DEF Holders

\* Whoever counts holders starts afresh.
LEMMA CountStarts ==
    ASSUME ContactsConstants, PeopleInv, CountInv, NEW d \in Badges, NEW o \in Requests, DeleteBadgeCheck(o, d)
    PROVE  CountInv'
<1>1. /\ UNCHANGED <<contact, offers>> /\ touched' = touched \ {d}
      /\ Holders(d) = {} /\ d \notin offers
      /\ request' = [request EXCEPT ![o] = [Free EXCEPT !.pc = "delete", !.of = d]]
  BY DEF DeleteBadgeCheck
<1>2. request'[o].of = d /\ \A r \in Requests \ {o} : request'[r] = request[r]
  BY <1>1 DEF PeopleInv, AsksFit, Free
<1> SUFFICES ASSUME NEW r \in Requests, NEW b \in Badges,
                    request'[r].pc = "delete", request'[r].of = b, b \notin touched'
             PROVE  Holders(b)' = {} /\ b \notin offers'
  BY DEF CountInv
<1>3. Holders(b) = {} /\ b \notin offers
  <2>1. CASE b = d
    BY <2>1, <1>1
  <2>2. CASE b # d
    <3>1. r # o
      BY <2>2, <1>2
    <3>2. request[r].pc = "delete" /\ request[r].of = b /\ b \notin touched
      BY <2>2, <3>1, <1>1, <1>2
    <3> QED
      BY <3>2 DEF CountInv
  <2> QED
    BY <2>1, <2>2
<1> QED
  BY <1>1, <1>3 DEF Holders, Live

\* What the other requests do to those that count.
LEMMA RequestsCount ==
    ASSUME PeopleInv, RequestNext, ~\E d \in Badges, o \in Requests : DeleteBadgeCheck(o, d)
    PROVE  /\ \A r \in Requests : request'[r].pc = "delete" => request'[r] = request[r]
           /\ \A b \in Badges : b \notin touched' => (b \in offers' => b \in offers)
<1>0. request \in [Requests -> Asks]
  BY DEF PeopleInv, AsksFit
<1>1. ASSUME NEW o \in Requests, Ends(o)
      PROVE  \A r \in Requests : request'[r].pc = "delete" => request'[r] = request[r]
  BY <1>0, <1>1 DEF Ends, Free
<1>2. ASSUME NEW o \in Requests, NEW t \in Tenants, NEW e \in Emails, RegisterCheck(o, t, e)
      PROVE  /\ \A r \in Requests : request'[r].pc = "delete" => request'[r] = request[r]
             /\ UNCHANGED offers
  BY <1>0, <1>2 DEF RegisterCheck
<1>3. ASSUME NEW o \in Requests, RegisterInsert(o) \/ DeleteBadgeMark(o) PROVE Ends(o) /\ UNCHANGED offers
  BY <1>3 DEF RegisterInsert, DeleteBadgeMark
<1>4. ASSUME NEW b \in Badges, EditOffer(b)
      PROVE  UNCHANGED request /\ offers' = offers \cup {b} /\ b \in touched'
  BY <1>4 DEF EditOffer, Touch
<1>5. ASSUME \/ \E t \in Tenants, e \in Emails : CreateUser(t, e)
             \/ \E c \in Rows :
                  \/ \E e \in Emails : UpdateUser(c, e)
                  \/ DeleteUser(c)
                  \/ \E b \in Marks : AssignBadge(c, b) \/ RemoveBadge(c, b)
                  \/ \E t \in Tenants : LegacyWrite(c, t)
             \/ \E t \in Tenants : DeleteAllUsers(t)
      PROVE  UNCHANGED <<request, offers>>
  BY <1>5 DEF CreateUser, UpdateUser, DeleteUser, AssignBadge, RemoveBadge, LegacyWrite, DeleteAllUsers
<1> QED
  BY <1>1, <1>2, <1>3, <1>4, <1>5 DEF RequestNext

\* Every step leaves the count right or touches the badge.
LEMMA CountStep ==
    ASSUME ContactsConstants, PeopleInv, CountInv, ContactsNext PROVE CountInv'
<1>0. /\ Badges \cap Tags = {} /\ Badges \cap Rows = {}
      /\ \A b \in Badges : b \in touched => b \in touched \ Rows
  BY DEF ContactsConstants
<1>1. CASE RequestNext
  <2>1. CASE \E d \in Badges, o \in Requests : DeleteBadgeCheck(o, d)
    BY <2>1, CountStarts
  <2>2. CASE ~\E d \in Badges, o \in Requests : DeleteBadgeCheck(o, d)
    <3>1. Writes
      <4>1. ASSUME NEW t \in Tenants, NEW e \in Emails, NEW r \in Requests, RegisterCheck(r, t, e) PROVE Writes
        BY <4>1, RowsStay DEF RegisterCheck
      <4>2. ASSUME NEW r \in Requests, DeleteBadgeMark(r) PROVE Writes
        BY <4>2, RowsStay DEF DeleteBadgeMark
      <4>3. ASSUME NEW b \in Badges, EditOffer(b) PROVE Writes
        BY <4>3, RowsStay DEF EditOffer, Touch
      <4> QED
        BY <1>1, <2>2, <4>1, <4>2, <4>3, CreationsWrite, EditsWrite, DeletionsWrite DEF RequestNext
    <3>2. /\ \A c \in Rows : KeepsRow(c)
          /\ touched \subseteq touched'
      BY <3>1 DEF Writes
    <3>3. \A c \in Rows : \A b \in contact'[c].badges :
            contact'[c].there /\ ~contact'[c].deleted =>
              b \in touched' \/ b \notin Badges \/ (b \in contact[c].badges /\ Live(c))
      BY <3>2 DEF KeepsRow
    <3>4. /\ \A r \in Requests : request'[r].pc = "delete" => request'[r] = request[r]
          /\ \A b \in Badges : b \notin touched' => (b \in offers' => b \in offers)
      BY <1>1, <2>2, RequestsCount
    <3> QED
      BY <3>2, <3>3, <3>4, CountSpared
  <2> QED
    BY <2>1, <2>2
<1>2. ASSUME UNCHANGED <<request, offers>>, \A b \in Badges : b \in touched => b \in touched',
             \A c \in Rows : \A b \in contact'[c].badges :
               contact'[c].there /\ ~contact'[c].deleted =>
                 b \in touched' \/ b \notin Badges \/ (b \in contact[c].badges /\ Live(c))
      PROVE  CountInv'
  BY <1>2, CountSpared
<1>3. ASSUME UNCHANGED <<contact, request, offers>>, \A b \in Badges : b \in touched => b \in touched'
      PROVE  CountInv'
  BY <1>2, <1>3 DEF Live
<1>4. CASE DedupeScan
  BY <1>0, <1>3, <1>4, DedupeScanMoves
<1>5. ASSUME NEW x, DedupeRead(x) PROVE CountInv'
  BY <1>3, <1>5, DedupeReadMoves
<1>6. CASE DedupeUnion
  <2>1. /\ UNCHANGED <<request, offers>> /\ touched' = touched \cup run["dedupe"].seen
        /\ \A c \in Rows : /\ contact'[c].there = contact[c].there
                           /\ contact'[c].deleted = contact[c].deleted
                           /\ contact'[c].badges \subseteq contact[c].badges \cup run["dedupe"].seen
    BY <1>6, DedupeUnionMoves
  <2> QED
    BY <2>1, <1>2 DEF Live
<1>7. CASE DedupeMark
  <2>1. /\ UNCHANGED <<request, offers, touched>>
        /\ \A c \in Rows : /\ contact'[c].deleted \/ contact'[c] = contact[c]
    BY <1>7, DedupeMarkMoves
  <2> QED
    BY <2>1, <1>2 DEF Live
<1>8. CASE TenancyScan
  BY <1>0, <1>3, <1>8, TenancyScanMoves
<1>9. ASSUME NEW x, TenancyRow(x) PROVE CountInv'
  <2>1. /\ UNCHANGED <<request, offers, touched>>
        /\ \A c \in Rows : /\ contact'[c].there = contact[c].there
                           /\ contact'[c].deleted = contact[c].deleted
                           /\ contact'[c].badges = contact[c].badges
    BY <1>9, TenancyRowMoves
  <2> QED
    BY <2>1, <1>2 DEF Live
<1>10. CASE TaxonomyScan
  BY <1>0, <1>3, <1>10, TaxonomyScanMoves
<1>11. ASSUME NEW g \in Tags, TaxonomyLabel(g) PROVE CountInv'
  BY <1>3, <1>11, TaxonomyLabelMoves
<1>12. CASE TaxonomyContacts
  BY <1>3, <1>12, TaxonomyContactsMoves
<1>13. CASE TaxonomyAssign
  <2>1. /\ UNCHANGED <<request, offers, touched>> /\ run["taxonomy"].item \in Tags
        /\ \A c \in Rows : /\ contact'[c].there = contact[c].there
                           /\ contact'[c].deleted = contact[c].deleted
                           /\ contact'[c].badges \subseteq contact[c].badges \cup {run["taxonomy"].item}
    BY <1>13, TaxonomyAssignMoves
  <2> QED
    BY <2>1, <1>0, <1>2 DEF Live
<1>14. CASE TaxonomyPull
  <2>1. /\ UNCHANGED <<request, offers, touched>>
        /\ \A c \in Rows : /\ contact'[c].there = contact[c].there
                           /\ contact'[c].deleted = contact[c].deleted
                           /\ contact'[c].badges = contact[c].badges
    BY <1>14, TaxonomyPullMoves
  <2> QED
    BY <2>1, <1>2 DEF Live
<1>15. CASE TaxonomyRetire
  BY <1>3, <1>15, TaxonomyRetireMoves
<1>16. ASSUME NEW k \in Commands, End(k) PROVE CountInv'
  BY <1>3, <1>16, EndMoves
<1> QED
  BY <1>1, <1>4, <1>5, <1>6, <1>7, <1>8, <1>9, <1>10, <1>11, <1>12, <1>13, <1>14, <1>15, <1>16, StepsSplit
     DEF CommandNext

\* Until the reference goes, the contact has its label or an editor was there.
LEMMA LabelStep ==
    ASSUME ContactsConstants, PeopleInv, LabelInv, ContactsNext PROVE LabelInv'
<1>1. ASSUME At("taxonomy", "pull")' => FALSE,
             \A c \in Rows : /\ contact'[c].there = contact[c].there
                             /\ contact'[c].tags \subseteq contact[c].tags
      PROVE  LabelInv'
  BY <1>1 DEF LabelInv
<1>2. CASE RequestNext
  <2>1. run' = run /\ At("taxonomy", "pull")' = At("taxonomy", "pull")
    BY <1>2, RequestWrites DEF At
  <2>2. \/ Writes
        \/ \E b \in Badges : UNCHANGED contact /\ touched' = touched \ {b}
    BY <1>2, RequestWrites
  <2>3. \A c \in Rows : /\ c \in touched' \/ contact'[c] = contact[c]
                        /\ c \in touched => c \in touched'
    BY <2>2 DEF Writes, ContactsConstants
  <2>4. \A c \in Rows : ~contact'[c].there => contact'[c].tags = {}
    BY <2>2 DEF Writes, KeepsRow, LabelInv
  <2>5. ASSUME At("taxonomy", "pull"), NEW c \in Rows, First(c, run'["taxonomy"].seen)
        PROVE  run'["taxonomy"].item \in contact'[c].badges \/ c \in touched'
    <3>1. run["taxonomy"].item \in contact[c].badges \/ c \in touched
      BY <2>1, <2>5 DEF LabelInv
    <3> QED
      BY <3>1, <2>1, <2>3
  <2> QED
    BY <2>1, <2>4, <2>5 DEF LabelInv, First
<1>3. ASSUME \/ DedupeScan \/ DedupeUnion \/ DedupeMark \/ \E x \in run["dedupe"].todo : DedupeRead(x)
             \/ TenancyScan \/ \E x \in run["tenancy"].todo : TenancyRow(x)
      PROVE  /\ At("taxonomy", "pull")' => FALSE
             /\ \A c \in Rows : /\ contact'[c].there = contact[c].there
                                /\ contact'[c].tags \subseteq contact[c].tags
  <2>1. ASSUME At("taxonomy", "idle")' PROVE At("taxonomy", "pull")' => FALSE
    BY <2>1 DEF At
  <2>2. CASE DedupeScan
    BY <2>1, <2>2, DedupeScanMoves
  <2>3. ASSUME NEW x, DedupeRead(x)
        PROVE  /\ At("taxonomy", "pull")' => FALSE
               /\ \A c \in Rows : /\ contact'[c].there = contact[c].there
                                  /\ contact'[c].tags \subseteq contact[c].tags
    BY <2>1, <2>3, DedupeReadMoves
  <2>4. CASE DedupeUnion
    BY <2>1, <2>4, DedupeUnionMoves
  <2>5. CASE DedupeMark
    BY <2>1, <2>5, DedupeMarkMoves
  <2>6. CASE TenancyScan
    BY <2>1, <2>6, TenancyScanMoves
  <2>7. ASSUME NEW x, TenancyRow(x)
        PROVE  /\ At("taxonomy", "pull")' => FALSE
               /\ \A c \in Rows : /\ contact'[c].there = contact[c].there
                                  /\ contact'[c].tags \subseteq contact[c].tags
    BY <2>1, <2>7, TenancyRowMoves
  <2> QED
    BY <1>3, <2>2, <2>3, <2>4, <2>5, <2>6, <2>7
<1>4. ASSUME \/ TaxonomyScan \/ TaxonomyContacts \/ TaxonomyPull \/ TaxonomyRetire
             \/ \E g \in Tags : TaxonomyLabel(g)
             \/ \E k \in Commands : End(k)
      PROVE  /\ At("taxonomy", "pull")' => FALSE
             /\ \A c \in Rows : /\ contact'[c].there = contact[c].there
                                /\ contact'[c].tags \subseteq contact[c].tags
  <2>1. CASE TaxonomyScan
    BY <2>1, TaxonomyScanMoves DEF At
  <2>2. CASE TaxonomyContacts
    BY <2>2, TaxonomyContactsMoves DEF At
  <2>3. CASE TaxonomyPull
    BY <2>3, TaxonomyPullMoves DEF At
  <2>4. CASE TaxonomyRetire
    BY <2>4, TaxonomyRetireMoves DEF At
  <2>5. ASSUME NEW g \in Tags, TaxonomyLabel(g)
        PROVE  /\ At("taxonomy", "pull")' => FALSE
               /\ \A c \in Rows : /\ contact'[c].there = contact[c].there
                                  /\ contact'[c].tags \subseteq contact[c].tags
    BY <2>5, TaxonomyLabelMoves DEF At
  <2>6. ASSUME NEW k \in Commands, End(k)
        PROVE  /\ At("taxonomy", "pull")' => FALSE
               /\ \A c \in Rows : /\ contact'[c].there = contact[c].there
                                  /\ contact'[c].tags \subseteq contact[c].tags
    BY <2>6, EndMoves, ThreeCommands DEF At
  <2> QED
    BY <1>4, <2>1, <2>2, <2>3, <2>4, <2>5, <2>6
<1>5. CASE TaxonomyAssign
  <2>1. /\ run'["taxonomy"].item = run["taxonomy"].item /\ run'["taxonomy"].seen = run["taxonomy"].seen
        /\ \/ run'["taxonomy"].pc = "retire"
           \/ \A c \in Rows : First(c, run["taxonomy"].seen) => run["taxonomy"].item \in contact'[c].badges
        /\ \A c \in Rows : contact'[c].there = contact[c].there /\ contact'[c].tags = contact[c].tags
    BY <1>5, TaxonomyAssignMoves
  <2> QED
    BY <2>1 DEF LabelInv, At, First
<1> QED
  BY <1>1, <1>2, <1>3, <1>4, <1>5, StepsSplit DEF CommandNext

\* An owner is kept, but for the legacy owner that became the owner.
LEMMA OwnersStep ==
    ASSUME ContactsConstants, PeopleInv, ContactsNext, NEW c \in Rows, contact[c].there
    PROVE  /\ contact[c].tenant # Nil => contact'[c].tenant = contact[c].tenant
           /\ contact[c].legacy # Nil /\ contact'[c].legacy = Nil
                => contact'[c].tenant = contact[c].legacy
<1>1. CASE RequestNext
  <2>1. CASE Writes
    BY <2>1 DEF Writes, KeepsRow
  <2>2. CASE UNCHANGED contact
    BY <2>2
  <2> QED
    BY <1>1, <2>1, <2>2, RequestWrites
<1>2. ASSUME NEW x, TenancyRow(x)
      PROVE  /\ contact[c].tenant # Nil => contact'[c].tenant = contact[c].tenant
             /\ contact[c].legacy # Nil /\ contact'[c].legacy = Nil
                  => contact'[c].tenant = contact[c].legacy
  BY <1>2, TenancyRowMoves
<1>3. CASE DedupeUnion
  BY <1>3, DedupeUnionMoves
<1>4. CASE DedupeMark
  BY <1>4, DedupeMarkMoves
<1>5. CASE TaxonomyAssign
  BY <1>5, TaxonomyAssignMoves
<1>6. CASE TaxonomyPull
  BY <1>6, TaxonomyPullMoves
<1>7. CASE \/ DedupeScan \/ \E x \in run["dedupe"].todo : DedupeRead(x)
           \/ TenancyScan \/ TaxonomyScan \/ \E g \in Tags : TaxonomyLabel(g)
           \/ TaxonomyContacts \/ TaxonomyRetire \/ \E k \in Commands : End(k)
  <2>1. UNCHANGED contact
    BY <1>7 DEF DedupeScan, DedupeRead, TenancyScan, TaxonomyScan, TaxonomyLabel, TaxonomyContacts,
                TaxonomyRetire, End, Lists
  <2> QED
    BY <2>1
<1> QED
  BY <1>1, <1>2, <1>3, <1>4, <1>5, <1>6, <1>7, StepsSplit DEF CommandNext

\* A reference to a tag goes with the label in its place.
LEMMA TagsStep ==
    ASSUME ContactsConstants, PeopleInv, LabelInv, ContactsNext,
           NEW c \in Rows, NEW g \in contact[c].tags \ contact'[c].tags
    PROVE  g \in contact'[c].badges \/ c \in touched
<1>1. contact[c].tags # {} /\ contact[c].there
  BY DEF LabelInv
<1>2. contact'[c].tags # contact[c].tags /\ contact'[c] # contact[c]
  OBVIOUS
<1>3. ~RequestNext
  <2>1. ~Writes
    BY <1>1, <1>2 DEF Writes, KeepsRow
  <2> QED
    BY <1>2, <2>1, RequestWrites
<1>4. TaxonomyPull
  <2>1. ~DedupeUnion
    BY <1>2, DedupeUnionMoves
  <2>2. ~DedupeMark
    BY <1>2, DedupeMarkMoves
  <2>3. ~\E x \in run["tenancy"].todo : TenancyRow(x)
    BY <1>2, TenancyRowMoves
  <2>4. ~TaxonomyAssign
    BY <1>2, TaxonomyAssignMoves
  <2>5. ~ \/ DedupeScan \/ \E x \in run["dedupe"].todo : DedupeRead(x)
          \/ TenancyScan \/ TaxonomyScan \/ \E h \in Tags : TaxonomyLabel(h)
          \/ TaxonomyContacts \/ TaxonomyRetire \/ \E k \in Commands : End(k)
    BY <1>2 DEF DedupeScan, DedupeRead, TenancyScan, TaxonomyScan, TaxonomyLabel, TaxonomyContacts,
                TaxonomyRetire, End, Lists
  <2> QED
    BY <1>3, <2>1, <2>2, <2>3, <2>4, <2>5, StepsSplit DEF CommandNext
<1>5. /\ g = run["taxonomy"].item /\ First(c, run["taxonomy"].seen) /\ At("taxonomy", "pull")
      /\ contact'[c].badges = contact[c].badges
  BY <1>4, TaxonomyPullMoves
<1> QED
  BY <1>5 DEF LabelInv

\* A badge is marked by the request that counted its holders and offers.
LEMMA BadgesStep ==
    ASSUME ContactsConstants, PeopleInv, CountInv, ContactsNext,
           NEW b \in Badges, badge[b] = "live", badge'[b] = "deleted", b \notin touched
    PROVE  Holders(b) = {} /\ b \notin offers
<1>1. PICK r \in Requests : DeleteBadgeMark(r)
  BY DEF ContactsNext, CreateUser, RegisterCheck, RegisterInsert, UpdateUser, DeleteUser, AssignBadge, RemoveBadge,
         LegacyWrite, DeleteAllUsers, EditOffer, DeleteBadgeCheck, DedupeScan, DedupeRead, DedupeUnion, DedupeMark,
         TenancyScan, TenancyRow, TaxonomyScan, TaxonomyLabel, TaxonomyContacts, TaxonomyAssign, TaxonomyPull,
         TaxonomyRetire, End, Lists, Others
<1>2. request[r].pc = "delete" /\ badge' = [badge EXCEPT ![request[r].of] = "deleted"]
  BY <1>1 DEF DeleteBadgeMark
<1>3. request[r].of = b
  BY <1>2 DEF PeopleInv, DefinitionsFit
<1> QED
  BY <1>2, <1>3 DEF CountInv

--------------------------------------------------------------------------------
(* The theorems *)

Inv == PeopleInv /\ MergeInv /\ CountInv /\ LabelInv

\* All of it holds at first and through every step.
LEMMA ContactsInductive ==
    ASSUME ContactsConstants PROVE ContactsSpec => []Inv
<1>1. ContactsInit => Inv
  BY TypesInit, UsesInit DEF Inv
<1>2. Inv /\ [ContactsNext]_contactVars => Inv'
  <2>1. ASSUME Inv, ContactsNext PROVE Inv'
    BY <2>1, TypesStep, MergeStep, CountStep, LabelStep DEF Inv
  <2>2. ASSUME Inv, UNCHANGED contactVars PROVE Inv'
    <3>1. PeopleInv'
      BY <2>2, OthersTyped DEF Inv, PeopleInv, contactVars
    <3>2. MergeInv'
      BY <2>2, MergeSpared DEF Inv, contactVars
    <3>3. CountInv'
      BY <2>2 DEF Inv, contactVars, CountInv, Holders, Live
    <3>4. LabelInv'
      BY <2>2 DEF Inv, contactVars, LabelInv, At, First
    <3> QED
      BY <3>1, <3>2, <3>3, <3>4 DEF Inv
  <2> QED
    BY <2>1, <2>2
<1> QED
  BY <1>1, <1>2, PTL DEF ContactsSpec

\* Contacts, requests and commands keep their types, and the unique index tells
\* all rows apart, through every write of a handler or a command.
THEOREM ContactsTypes ==
    ASSUME ContactsConstants PROVE ContactsSpec => []ContactsTypeOK
<1>1. Inv => ContactsTypeOK
  <2> SUFFICES ASSUME Inv PROVE ContactsTypeOK
    OBVIOUS
  <2>1. \A r \in Requests : request[r].pc \in {"idle", "register", "delete"}
    BY DEF Inv, PeopleInv, AsksFit, Asks
  <2>2. \A k \in Commands : run[k].pc \in {"idle", "next", "union", "mark", "scan", "assign", "pull", "retire"}
    BY DEF Inv, PeopleInv, RunsFit, Jobs, Steps
  <2>3. contact \in [Rows -> Contact] /\ (indexed => Unique)
    BY DEF Inv, PeopleInv, RowsFit
  <2>4. /\ badge \in [Badges -> {"live", "deleted"}]
        /\ offers \subseteq Badges
        /\ label \in [Tags -> {"none", "other", "unlinked", "linked"}]
        /\ tag \in [Tags -> {"live", "retired"}]
        /\ \A g \in Tags : tag[g] = "retired" => label[g] = "linked"
    BY DEF Inv, PeopleInv, DefinitionsFit
  <2>5. changes \in 0 .. MaxChanges /\ slips \in 0 .. MaxSlips
    BY DEF Inv, PeopleInv
  <2> QED
    BY <2>1, <2>2, <2>3, <2>4, <2>5 DEF ContactsTypeOK, Unique
<1> QED
  BY <1>1, ContactsInductive, PTL

\* "Access is never lost" to dedupe-contacts, whatever requests run beside it and
\* wherever it is killed, for the pairs no editor was at and no write failed for.
THEOREM MergesKeepAccess ==
    ASSUME ContactsConstants PROVE ContactsSpec => MergeKeepsAccess
<1>1. Inv /\ Inv' /\ [ContactsNext]_contactVars =>
        [\A x \in {run["dedupe"].item} :
           At("dedupe", "mark") /\ slips' = 0 /\ {x[1], x[2]} \cap touched = {}
             /\ contact'[x[1]].deleted /\ ~contact[x[1]].deleted
           => /\ Live(x[2]) /\ Alike(x[1], x[2])
              /\ contact[x[1]].badges \subseteq contact[x[2]].badges]_contactVars
  <2> SUFFICES ASSUME Inv, Inv', ContactsNext, NEW x, x = run["dedupe"].item,
                      At("dedupe", "mark"), slips' = 0, {x[1], x[2]} \cap touched = {}
               PROVE  /\ Live(x[2]) /\ Alike(x[1], x[2])
                      /\ contact[x[1]].badges \subseteq contact[x[2]].badges
    OBVIOUS
  <2> QED
    BY MergeKept DEF Inv
<1> QED
  BY <1>1, ContactsInductive, PTL DEF ContactsSpec, MergeKeepsAccess

\* reconcile-contact-tenancy destroys no owner, reconcile-contact-taxonomy no
\* tag's place in a contact, and no badge is deleted that was seen in use, as the
\* commands interleave with the requests and are killed and run again.
THEOREM NothingInUse ==
    ASSUME ContactsConstants PROVE ContactsSpec => NothingInUseIsLost
<1>1. Inv /\ [ContactsNext]_contactVars =>
        [\A c \in Rows : contact[c].there =>
           /\ contact[c].tenant # Nil => contact'[c].tenant = contact[c].tenant
           /\ contact[c].legacy # Nil /\ contact'[c].legacy = Nil
                => contact'[c].tenant = contact[c].legacy]_contactVars
  BY OwnersStep DEF Inv
<1>2. Inv /\ [ContactsNext]_contactVars =>
        [\A c \in Rows : \A g \in contact[c].tags \ contact'[c].tags :
           g \in contact'[c].badges \/ c \in touched]_contactVars
  BY TagsStep DEF Inv
<1>3. Inv /\ [ContactsNext]_contactVars =>
        [\A b \in Badges : badge[b] = "live" /\ badge'[b] = "deleted" /\ b \notin touched
           => Holders(b) = {} /\ b \notin offers]_contactVars
  BY BadgesStep DEF Inv
<1> QED
  BY <1>1, <1>2, <1>3, ContactsInductive, PTL
     DEF ContactsSpec, NothingInUseIsLost, OwnershipIsKept, TagsBecomeLabels, DeletedBadgesAreUnreferenced

--------------------------------------------------------------------------------
(* Side by side *)

LEMMA PeopleGoOn == EditsSpec => ContactsSpec
<1>1. EditsInit => ContactsInit
  BY DEF EditsInit
<1>2. [EditsNext]_editVars => [ContactsNext]_contactVars
  BY DEF EditsNext, editVars
<1> QED
  BY <1>1, <1>2, PTL DEF EditsSpec, ContactsSpec

\* Documents with their copies, contacts and what requests and commands hold on
\* to are of their types, in whichever of the two the edits of a behaviour are.
THEOREM EditsTypes ==
    ASSUME GraphConstants, ContactsConstants
    PROVE  EditsSpec => []EditsTypeOK
<1>1. EditsInit => TypeInv
  BY StartsTyped DEF EditsInit, GraphInit
<1>2. TypeInv /\ [EditsNext]_editVars => TypeInv'
  <2>1. [EditsNext]_editVars => [GraphNext]_graphVars
    BY DEF EditsNext, editVars
  <2> QED
    BY <2>1, TypesKept
<1>3. TypeInv /\ ContactsTypeOK => EditsTypeOK
  BY TypedGraph DEF EditsTypeOK
<1> QED
  BY <1>1, <1>2, <1>3, PeopleGoOn, ContactsTypes, PTL DEF EditsSpec
================================================================================
