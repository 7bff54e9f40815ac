------------------------------- MODULE StoryGraph -------------------------------
(* The story builder (routes/story.go): the documents of a story graph, the   *)
(* copies of one another they embed, the references the script deployer       *)
(* leaves, and what the two readers of a graph make of them: the editor       *)
(* (hydrateStory) and the story engine (hydrateStoryGraph).                   *)
(*                                                                            *)
(* A document is its revision, the copies it embeds and the documents it      *)
(* refers to.  Names, texts and the order of siblings are left out;           *)
(* send_scenes, the list only scripts fill, fares as send_scene does, and an  *)
(* update does not set send_scene by value.                                   *)
EXTENDS Integers, FiniteSets

CONSTANTS
    Docs,
    KindOf,     \* the collection a document is of
    Owner,      \* the tenant it belongs to
    Deployed,   \* references of the documents a script deployed
    Built,      \* what editors embedded before
    Unborn,     \* documents not there at first
    Calls,      \* requests that find before they write
    None,
    MaxRev,     \* bound on the revisions of a document
    MaxParts,   \* bound on the copies a document embeds
    MaxEdits    \* bound on requests

--------------------------------------------------------------------------------
(* The collections: what a deletion does to a document of theirs, whether it  *)
(* can be started and stopped, what it embeds, with one copy at most of some. *)

Stories == [delete |-> "mark", starts |-> TRUE, embeds |-> {"storyline"}, one |-> {}]
Storylines == [delete |-> "mark", starts |-> TRUE, embeds |-> {"enactment"}, one |-> {}]
Enactments == [delete |-> "mark", starts |-> TRUE, embeds |-> {"scene", "trigger"}, one |-> {"scene"}]
Scenes == [delete |-> "mark", starts |-> FALSE, embeds |-> {"message", "label"}, one |-> {"message"}]
Messages == [delete |-> "mark", starts |-> FALSE, embeds |-> {"label"}, one |-> {}]
MessageContents == [delete |-> "remove", starts |-> FALSE, embeds |-> {}, one |-> {}]
Triggers == [delete |-> "remove", starts |-> FALSE, embeds |-> {}, one |-> {}]
Actions == [delete |-> "remove", starts |-> FALSE, embeds |-> {}, one |-> {}]
Labels == [delete |-> "mark", starts |-> FALSE, embeds |-> {}, one |-> {}]
TemplateVariables == [delete |-> "remove", starts |-> FALSE, embeds |-> {}, one |-> {}]
EmailLists == [delete |-> "remove", starts |-> FALSE, embeds |-> {}, one |-> {}]

Collections ==
    [story |-> Stories, storyline |-> Storylines, enactment |-> Enactments, scene |-> Scenes,
     message |-> Messages, content |-> MessageContents, trigger |-> Triggers, action |-> Actions,
     label |-> Labels, variable |-> TemplateVariables, list |-> EmailLists]

\* The collections an update may change, and the references it may set.
Updatable == [story |-> {"storyline"}, storyline |-> {"enactment"},
              enactment |-> {"scene", "trigger"}, scene |-> {"message", "label"},
              message |-> {}, content |-> {}, trigger |-> {"action"}, action |-> {},
              label |-> {}, variable |-> {}]

Of(d) == Collections[KindOf[d]]
OfKind(k) == {d \in Docs : KindOf[d] = k}

\* Copies of a tenant's documents, with what they embed.
Owned(k, t) == {d \in Docs : KindOf[d] = k /\ Owner[d] = t}
Copies(k, t, embedded) == [doc : Owned(k, t), rev : Nat, parts : SUBSET embedded]
LabelCopies(t) == Copies("label", t, {})
MessageCopies(t) == Copies("message", t, LabelCopies(t))
SceneCopies(t) == Copies("scene", t, MessageCopies(t) \cup LabelCopies(t))
TriggerCopies(t) == Copies("trigger", t, {})
EnactmentCopies(t) == Copies("enactment", t, SceneCopies(t) \cup TriggerCopies(t))
StorylineCopies(t) == Copies("storyline", t, EnactmentCopies(t))
CopiesBelow(t) ==
    EnactmentCopies(t) \cup SceneCopies(t) \cup TriggerCopies(t) \cup MessageCopies(t) \cup LabelCopies(t)
AllCopies(t) == StorylineCopies(t) \cup CopiesBelow(t)
Embeddable(d) == {x \in AllCopies(Owner[d]) : KindOf[x.doc] \in Of(d).embeds}

GraphConstants ==
    /\ None \notin Docs
    /\ KindOf \in [Docs -> DOMAIN Collections]
    /\ Unborn \subseteq Docs
    /\ Deployed \in [Docs -> SUBSET (Docs \ Unborn)]
    /\ Built = [d \in Docs |-> Built[d]]
    /\ \A d \in Docs : /\ Built[d] \subseteq Embeddable(d)
                       /\ \A x \in Built[d] : x.rev = 0
                       /\ \A x, y \in Built[d] : KindOf[x.doc] = KindOf[y.doc] /\ KindOf[x.doc] \in Of(d).one => x = y
    /\ MaxRev \in Nat /\ MaxParts \in Nat /\ MaxEdits \in Nat

VARIABLES
    there,    \* documents in their collections
    deleted,  \* those marked as deleted
    rev,
    parts,    \* copies a document embeds
    refs,     \* documents it refers to by id
    call,     \* what each request found
    taken,    \* pairs of a story and a storyline that was removed from it last
    edits

graphVars == <<there, deleted, rev, parts, refs, call, taken, edits>>

Idle == [pc |-> "idle", to |-> None, of |-> None, copies |-> {}]

GraphTypeOK ==
    /\ there \subseteq Docs
    /\ deleted \subseteq {d \in Docs : Of(d).delete = "mark"}
    /\ rev \in [Docs -> 0 .. MaxRev]
    /\ refs \in [Docs -> SUBSET Docs]
    /\ \A d \in Docs :
         /\ \A x \in parts[d] : KindOf[x.doc] \in Of(d).embeds /\ x.rev <= rev[x.doc]
         /\ \A x, y \in parts[d] : KindOf[x.doc] = KindOf[y.doc] /\ KindOf[x.doc] \in Of(d).one => x = y
    /\ \A c \in Calls : call[c].pc \in {"idle", "attach", "pull", "merge"}
    /\ edits \in 0 .. MaxEdits

GraphWith(docs) ==
    /\ there = docs
    /\ deleted = {}
    /\ rev = [d \in Docs |-> 0]
    /\ parts = Built
    /\ refs = Deployed
    /\ call = [c \in Calls |-> Idle]
    /\ taken = {}
    /\ edits = 0
GraphInit == GraphWith(Docs \ Unborn)

--------------------------------------------------------------------------------
(* Helpers *)

Found(d, t) == d \in there /\ Owner[d] = t
Edit == edits < MaxEdits /\ edits' = edits + 1
CopyOf(d) == [doc |-> d, rev |-> rev[d], parts |-> parts[d]]
Returns(c) == call' = [call EXCEPT ![c] = Idle]
Goes(c, pc, to, of, copies) ==
    /\ call[c].pc = "idle"
    /\ call' = [call EXCEPT ![c] = [pc |-> pc, to |-> to, of |-> of, copies |-> copies]]
Without(S, d) == {x \in S : x.doc # d}
DocsIn(S) == {x.doc : x \in S}

--------------------------------------------------------------------------------
(* Create, update, start, stop and delete *)

Create(d) ==
    /\ Edit /\ d \notin there /\ d \in Unborn
    /\ there' = there \cup {d}
    /\ UNCHANGED <<deleted, rev, parts, refs, call, taken>>

\* An update changes a document that is there, marked as deleted or not, and may
\* set a reference to any document, whose id it got when it was created.
Update(d) ==
    /\ Edit /\ d \in there /\ KindOf[d] \in DOMAIN Updatable
    /\ \/ rev[d] < MaxRev /\ rev' = [rev EXCEPT ![d] = @ + 1] /\ UNCHANGED <<refs, taken>>
       \/ \E x \in {y \in Docs \ (Unborn \ there) : KindOf[y] \in Updatable[KindOf[d]]} :
            /\ refs' = [refs EXCEPT ![d] = @ \cup {x}]
            /\ taken' = taken \ {<<d, x>>}
            /\ UNCHANGED rev
    /\ UNCHANGED <<there, deleted, parts, call>>

StartStop(d) ==
    /\ Edit /\ d \in there /\ Of(d).starts /\ rev[d] < MaxRev
    /\ rev' = [rev EXCEPT ![d] = @ + 1]
    /\ UNCHANGED <<there, deleted, parts, refs, call, taken>>

Delete(d) ==
    /\ Edit /\ d \in there
    /\ \/ /\ Of(d).delete = "mark"
          /\ deleted' = deleted \cup {d} /\ UNCHANGED there
       \/ /\ Of(d).delete = "remove"
          /\ there' = there \ {d} /\ UNCHANGED deleted
    /\ UNCHANGED <<rev, parts, refs, call, taken>>

DeleteAllStories(t) ==
    /\ Edit
    /\ deleted' = deleted \cup {d \in there : KindOf[d] = "story" /\ Owner[d] = t}
    /\ UNCHANGED <<there, rev, parts, refs, call, taken>>

--------------------------------------------------------------------------------
(* Attach and detach *)

\* The document to attach is found, and copied into its parent afterwards.
AttachFind(c, p, d) ==
    /\ Edit
    /\ KindOf[d] \in Of(p).embeds /\ Found(d, Owner[p])
    /\ Goes(c, "attach", p, d, {CopyOf(d)})
    /\ UNCHANGED <<there, deleted, rev, parts, refs, taken>>

\* Pushed, or set in the place of what was there.
AttachWrite(c) ==
    LET p == call[c].to
        d == call[c].of
        new == {x \in parts[p] : KindOf[d] \in Of(p).one => KindOf[x.doc] # KindOf[d]} \cup call[c].copies IN
    /\ call[c].pc = "attach"
    /\ Cardinality(new) <= MaxParts
    /\ parts' = [parts EXCEPT ![p] = new]
    /\ taken' = taken \ {<<p, d>>}
    /\ Returns(c)
    /\ UNCHANGED <<there, deleted, rev, refs, edits>>

RemoveEmbeddedStoryline(s, l) ==
    /\ Edit /\ s \in there
    /\ parts' = [parts EXCEPT ![s] = Without(@, l)]
    /\ taken' = taken \cup {<<s, l>>}
    /\ UNCHANGED <<there, deleted, rev, refs, call>>

\* From the copies and from the references.
RemoveStoryline(s, l) ==
    /\ Edit /\ s \in there
    /\ parts' = [parts EXCEPT ![s] = Without(@, l)]
    /\ refs' = IF Found(l, Owner[s]) THEN [refs EXCEPT ![s] = @ \ {l}] ELSE refs
    /\ taken' = taken \cup {<<s, l>>}
    /\ UNCHANGED <<there, deleted, rev, call>>

RemoveEnactment(l, e) ==
    /\ Edit /\ l \in there
    /\ parts' = [parts EXCEPT ![l] = Without(@, e)]
    /\ UNCHANGED <<there, deleted, rev, refs, call, taken>>

\* The scene of an enactment, whichever it is.
RemoveScene(e) ==
    /\ Edit /\ e \in there
    /\ parts' = [parts EXCEPT ![e] = {x \in @ : KindOf[x.doc] # "scene"}]
    /\ UNCHANGED <<there, deleted, rev, refs, call, taken>>

\* The message and the labels of a scene, the labels of a message.
RemoveFromScene(p, x) ==
    /\ Edit /\ p \in there
    /\ parts' = [parts EXCEPT ![p] = Without(@, x)]
    /\ UNCHANGED <<there, deleted, rev, refs, call, taken>>

\* The events of the enactment are read, then the trigger is pulled from each.
RemoveTriggerFind(c, e, t) ==
    /\ Edit /\ e \in there
    /\ \E x \in parts[e] : KindOf[x.doc] = "trigger"
    /\ Goes(c, "pull", e, t, {})
    /\ UNCHANGED <<there, deleted, rev, parts, refs, taken>>

RemoveTriggerPull(c) ==
    /\ call[c].pc = "pull"
    /\ parts' = [parts EXCEPT ![call[c].to] = Without(@, call[c].of)]
    /\ Returns(c)
    /\ UNCHANGED <<there, deleted, rev, refs, taken, edits>>

\* The embedded storylines of one story are appended to another.
MergeFind(c, target, src) ==
    /\ Edit
    /\ src # target /\ Owner[src] = Owner[target] /\ {src, target} \subseteq there
    /\ parts[src] # {}
    /\ Goes(c, "merge", target, src, parts[src])
    /\ UNCHANGED <<there, deleted, rev, parts, refs, taken>>

MergeWrite(c) ==
    LET s == call[c].to IN
    /\ call[c].pc = "merge"
    /\ Cardinality(parts[s] \cup call[c].copies) <= MaxParts
    /\ parts' = [parts EXCEPT ![s] = @ \cup call[c].copies]
    /\ taken' = taken \ {<<s, l>> : l \in DocsIn(call[c].copies)}
    /\ Returns(c)
    /\ UNCHANGED <<there, deleted, rev, refs, edits>>

--------------------------------------------------------------------------------
(* What the readers see: documents, at the revision they see *)

Fresh(d) == [doc |-> d, rev |-> rev[d]]
Inside(S) == S \cup UNION {x.parts : x \in S}
\* Copies and all they embed, as old as they are.
Stale(S) == {[doc |-> x.doc, rev |-> x.rev] : x \in Inside(Inside(Inside(Inside(S))))}

Embedded(d, k) == {x \in parts[d] : KindOf[x.doc] = k}
EmbeddedDocs(d, k) == DocsIn(Embedded(d, k))
ReferredAnywhere(d, k, t) == {x \in refs[d] : KindOf[x] = k /\ x \in there}
Referred(d, k, t) == {x \in refs[d] : KindOf[x] = k /\ Found(x, t)}
\* References count where nothing is embedded.
Linked(d, k, t) == IF Embedded(d, k) # {} THEN EmbeddedDocs(d, k) ELSE Referred(d, k, t)
Part(d, k, loaded) == IF Embedded(d, k) # {} THEN Stale(Embedded(d, k)) ELSE loaded

LoadMessage(m) == {Fresh(m)} \cup Stale(parts[m])
LoadScene(x, t) ==
    {Fresh(x)} \cup Stale(Embedded(x, "label"))
               \cup Part(x, "message", UNION {LoadMessage(m) : m \in Referred(x, "message", t)})
LoadTrigger(x, t) == {Fresh(x)} \cup Part(x, "action", {Fresh(a) : a \in Referred(x, "action", t)})
Triggered(e, t) == Part(e, "trigger", UNION {LoadTrigger(x, t) : x \in Referred(e, "trigger", t)})

\* hydrateEnactment, on an enactment just fetched.
HydrateEnactment(e, t) ==
    {Fresh(e)} \cup Part(e, "scene", UNION {LoadScene(x, t) : x \in Referred(e, "scene", t)}) \cup Triggered(e, t)

\* Embedded storylines are taken as they are, references are resolved.
ResolveStoryline(l, t) ==
    {Fresh(l)} \cup Part(l, "enactment", UNION {HydrateEnactment(e, t) : e \in Referred(l, "enactment", t)})
HydrateStoryGraph(s) ==
    Stale(Embedded(s, "storyline"))
    \cup UNION {ResolveStoryline(l, Owner[s]) :
                  l \in Referred(s, "storyline", Owner[s]) \ EmbeddedDocs(s, "storyline")}

StorylinesOf(s) == EmbeddedDocs(s, "storyline") \cup Referred(s, "storyline", Owner[s])
EditorSeesCopies(s) == UNION {{Fresh(l)} \cup Stale(Embedded(l, "enactment")) : l \in StorylinesOf(s)}

\* Storylines, enactments and scenes are fetched anew, what they embed is not;
\* a scene found by reference is fetched once more.
RefetchScene(x) == {Fresh(x)} \cup Stale(parts[x])
RefetchEnactment(e, t) ==
    {Fresh(e)} \cup Triggered(e, t) \cup UNION {RefetchScene(x) : x \in Linked(e, "scene", t)}
RefetchStoryline(l, t) == {Fresh(l)} \cup UNION {RefetchEnactment(e, t) : e \in Linked(l, "enactment", t)}
HydrateStory(s) == UNION {RefetchStoryline(l, Owner[s]) : l \in StorylinesOf(s)}

--------------------------------------------------------------------------------
GraphNext ==
    \/ \E d \in Docs : Create(d) \/ Update(d) \/ StartStop(d) \/ Delete(d)
    \/ \E t \in {Owner[d] : d \in Docs} : DeleteAllStories(t)
    \/ \E c \in Calls, p, d \in Docs : KindOf[d] \in Of(p).embeds /\ AttachFind(c, p, d)
    \/ \E s \in OfKind("story"), l \in OfKind("storyline") : RemoveStoryline(s, l)
    \/ \E l \in OfKind("storyline"), e \in OfKind("enactment") : RemoveEnactment(l, e)
    \/ \E e \in OfKind("enactment") : RemoveScene(e)
    \/ \E p \in OfKind("scene") \cup OfKind("message") : \E x \in OfKind("message") \cup OfKind("label") : RemoveFromScene(p, x)
    \/ \E c \in Calls, e \in OfKind("enactment"), t \in OfKind("trigger") : RemoveTriggerFind(c, e, t)
    \/ \E c \in Calls, s, src \in OfKind("story") : MergeFind(c, s, src)
    \/ \E c \in Calls : AttachWrite(c) \/ RemoveTriggerPull(c) \/ MergeWrite(c)

GraphSpec == GraphInit /\ [][GraphNext]_graphVars

--------------------------------------------------------------------------------
(* Properties *)

LiveStories == {s \in there : KindOf[s] = "story"}

\* "Anything added/updated after initial embedding is always current"
\* (story.go:181) in the editor, down to the scenes and what they embed.
EditorSeesAdditions ==
    \A s \in LiveStories : LET sees == HydrateStory(s) IN
      \A l \in EmbeddedDocs(s, "storyline") :
        /\ Fresh(l) \in sees
        /\ \A e \in EmbeddedDocs(l, "enactment") :
             /\ Fresh(e) \in sees
             /\ \A x \in EmbeddedDocs(e, "scene") :
                  /\ Fresh(x) \in sees
                  /\ \A m \in EmbeddedDocs(x, "message") : \E r \in 0 .. MaxRev : [doc |-> m, rev |-> r] \in sees

\* The engine sees a graph that is all references down to the message, whoever
\* edits other parts of it (story_engine.go:433).
EngineSeesReferences ==
    \A s \in LiveStories : LET sees == HydrateStoryGraph(s) IN
      \A l \in Referred(s, "storyline", Owner[s]) \ EmbeddedDocs(s, "storyline") :
        /\ Fresh(l) \in sees
        /\ Embedded(l, "enactment") = {} =>
             \A e \in Referred(l, "enactment", Owner[s]) :
               /\ Fresh(e) \in sees
               /\ Embedded(e, "scene") = {} =>
                    \A x \in Referred(e, "scene", Owner[s]) : Embedded(x, "message") = {} =>
                      \A m \in Referred(x, "message", Owner[s]) : Fresh(m) \in sees

\* Both readers are current where the code re-reads.
ReadersAreCurrent == EditorSeesAdditions /\ EngineSeesReferences

\* No reference makes either show a document of another tenant (ID-004).
TenantsStayApart ==
    \A s \in LiveStories : \A x \in HydrateStory(s) \cup HydrateStoryGraph(s) : Owner[x.doc] = Owner[s]

\* A storyline removed from a story, "from both representations", is seen there
\* by nobody until it is put back (story.go:402).
RemovedIsGone ==
    \A s \in LiveStories : \A x \in HydrateStory(s) \cup HydrateStoryGraph(s) : <<s, x.doc>> \notin taken

\* "The engine must see the union, same as hydrateStory" (story_engine.go:441).
\* It does not: it works off the copies a story embeds.
EngineSeesTheSame ==
    \A s \in LiveStories : {x.doc : x \in HydrateStory(s)} = {x.doc : x \in HydrateStoryGraph(s)}
================================================================================
