----------------------------- MODULE ScriptCompiler -----------------------------
(* From a parsed script to the graph of entities (scripting/expander.go,      *)
(* validator.go, compiler.go): what the passes do to names, and to what refers *)
(* to them.  Texts, prices, durations and layout are left out.                *)
(*                                                                            *)
(* A script is a record of its blocks, a parameter in it a name that an       *)
(* argument may take the place of.  The expander goes through one story after *)
(* the other; the stories share nothing, so here they go through each of its  *)
(* phases together.                                                           *)
EXTENDS Integers, SequencesExt

CONSTANTS
    Scripts,  \* what was parsed
    None

VARIABLES
    ast,      \* the script, as far as it is expanded
    pass,     \* the pass to come, or the end
    errors,   \* kinds of errors reported
    made,     \* keys of what the validator found, then of what the compiler made
    graph     \* the references of compiled entities: by which key, and to what

compilerVars == <<ast, pass, errors, made, graph>>

CompilerInit ==
    /\ ast \in Scripts
    /\ pass = "definitions"
    /\ errors = {} /\ made = {} /\ graph = {}

--------------------------------------------------------------------------------
(* Definitions and substitution *)

Each(seq, Op(_)) == [i \in DOMAIN seq |-> Op(seq[i])]
Joined(seq, Op(_)) == FlattenSeq(Each(seq, Op))
Named(defs, n) == {d \in ToSet(defs) : d.name = n}
The(defs, n) == CHOOSE d \in Named(defs, n) : TRUE
Repeats(defs) == \E i, j \in DOMAIN defs : i < j /\ defs[i].name = defs[j].name

\* A name that is a parameter, or a symbolic link, becomes its value.
Sub(v, p) == IF v \in DOMAIN p THEN p[v] ELSE v
ResolveLink(v) == Sub(v, ast.links)
Bind(names, args) ==
    [n \in ToSet(names) |-> ResolveLink(args[CHOOSE i \in DOMAIN names : names[i] = n])]
ItemParams(item) == [field \in DOMAIN item |-> ResolveLink(item[field])]

RECURSIVE CloneAction(_, _)
CloneAction(a, p) ==
    [a EXCEPT !.target = Sub(@, p), !.badges = {Sub(b, p) : b \in @},
              !.fallback = Each(@, LAMBDA f : CloneAction(f, p))]
\* Required badges and conditions are copied as they are.
CloneTrigger(t, p) ==
    LET clone(actions) == Each(actions, LAMBDA a : CloneAction(a, p)) IN
    [t EXCEPT !.value = Sub(@, p), !.actions = clone(@), !.else = clone(@)]
CloneScene(sc, p) == [sc EXCEPT !.name = Sub(@, p), !.sender = Sub(@, p)]
CloneUse(u, p) == [u EXCEPT !.args = Each(@, LAMBDA a : Sub(a, p))]
CloneBody(en, p) ==
    [en EXCEPT !.name = Sub(@, p), !.scenes = Each(@, LAMBDA sc : CloneScene(sc, p)),
               !.triggers = Each(@, LAMBDA t : CloneTrigger(t, p)),
               !.uses = Each(@, LAMBDA u : CloneUse(u, p))]

ExpandScenesRange(r, p) ==
    IF r = None THEN <<>>
    ELSE [i \in 1..(r.last - r.first + 1) |->
            CloneScene(r.scene, (r.var :> ToString(r.first + i - 1)) @@ p)]

\* cloneEnactment, for patterns, has the range expanded at once.
CloneEnactment(en, p) ==
    [CloneBody(en, p) EXCEPT !.scenes = @ \o ExpandScenesRange(en.range, p), !.range = None]
\* cloneEnactmentWithDotAccess, for loops, resolves a level that is an expression.
Number == ("1" :> 1) @@ ("2" :> 2) @@ ("3" :> 3)
Evaluated(given, expression, p) ==
    IF given # None \/ expression = None THEN given
    ELSE IF Sub(expression, p) \in DOMAIN Number THEN Number[Sub(expression, p)] ELSE None
CloneLoopEnactment(en, p) ==
    [CloneBody(en, p) EXCEPT
        !.level = Evaluated(@, en.levelOf, p), !.order = Evaluated(@, en.orderOf, p),
        !.range = IF @ = None THEN None ELSE [@ EXCEPT !.scene = CloneScene(@, p)]]

CloneForLoop(fl, p) ==
    [fl EXCEPT !.enactments = Each(@, LAMBDA en : CloneLoopEnactment(en, p)),
               !.uses = Each(@, LAMBDA u : CloneUse(u, p))]
\* Conditional routes are shared, not copied.
CloneStoryline(sl, p) ==
    [sl EXCEPT !.name = Sub(@, p), !.order = Evaluated(@, sl.orderOf, p),
               !.given = {Sub(b, p) : b \in @}, !.next = {Sub(n, p) : n \in @},
               !.enactments = Each(@, LAMBDA en : CloneLoopEnactment(en, p)),
               !.uses = Each(@, LAMBDA u : CloneUse(u, p)),
               !.loops = Each(@, LAMBDA fl : CloneForLoop(fl, p))]

--------------------------------------------------------------------------------
(* Expansion *)

Fits(defs, u) == Named(defs, u.target) # {} /\ Len(u.args) = Len(The(defs, u.target).params)
\* A use statement that is reported where it stands.
Misused(u, place) ==
    \/ u.kind = "sender" /\ place # "loop" /\ Named(ast.senders, u.target) = {}
    \/ u.kind = "pattern" /\ place # "story" /\ (place = "enactment" \/ ~Fits(ast.patterns, u))
    \/ u.kind = "policy" /\ place # "story" /\ (place # "enactment" \/ ~Fits(ast.policies, u))
Missing(fl) == fl.items = <<>> /\ (fl.data = None \/ Named(ast.data, fl.data) = {})
Items(fl) ==
    Each(IF fl.items # <<>> THEN fl.items ELSE IF Missing(fl) THEN <<>> ELSE The(ast.data, fl.data).items,
         ItemParams)
NoNumber(given, expression, fl) ==
    given = None /\ expression # None
      /\ \E p \in ToSet(Items(fl)) : Sub(expression, p) \notin DOMAIN Number

\* The sender in force after some use statements.
SenderAfter(uses, sender) ==
    FoldLeft(LAMBDA s, u : IF u.kind = "sender" /\ Named(ast.senders, u.target) # {} THEN u.target ELSE s,
             sender, uses)
ApplySender(en, sender) ==
    IF sender = None THEN en
    ELSE [en EXCEPT !.scenes = Each(@, LAMBDA sc : [sc EXCEPT !.sender = IF @ = None THEN sender ELSE @])]

ExpandPattern(u, sender) ==
    IF ~Fits(ast.patterns, u) THEN <<>>
    ELSE LET pat == The(ast.patterns, u.target)
             p == Bind(pat.params, u.args)
         IN Each(pat.enactments, LAMBDA en :
              ApplySender([CloneEnactment(en, p) EXCEPT
                             !.scenes = @ \o ExpandScenesRange(pat.range, p),
                             !.triggers = @ \o Each(pat.triggers, LAMBDA t : CloneTrigger(t, p))],
                          sender))
ExpandPolicy(u) ==
    IF ~Fits(ast.policies, u) THEN <<>>
    ELSE LET pol == The(ast.policies, u.target)
         IN Each(pol.triggers, LAMBDA t : CloneTrigger(t, Bind(pol.params, u.args)))

ExpandForLoopStorylines(fl) ==
    Joined(Items(fl), LAMBDA p : Each(fl.storylines, LAMBDA sl : CloneStoryline(sl, p)))
ExpandForLoopEnactments(fl, sender) ==
    Joined(Items(fl), LAMBDA p :
      Joined(fl.uses, LAMBDA u : IF u.kind = "pattern" THEN ExpandPattern(CloneUse(u, p), sender) ELSE <<>>)
      \o Each(fl.enactments, LAMBDA en : CloneLoopEnactment(en, p)))

AutoAssignOrders(sls) ==
    [i \in DOMAIN sls |-> [sls[i] EXCEPT !.order = IF @ = None THEN i ELSE @]]
\* Generated enactments are numbered anew when a level is missing or there twice.
AutoAssignLevels(ens, direct) ==
    IF Len(ens) > direct /\ Cardinality({en.level : en \in ToSet(ens)} \ {None}) < Len(ens)
    THEN [i \in DOMAIN ens |-> [ens[i] EXCEPT !.level = i]]
    ELSE ens
TriggersOfDefaults(en) == [en EXCEPT !.triggers = @ \o Joined(ast.defaults, LAMBDA d : d.triggers)]
ApplyDefaults(en) ==
    [en EXCEPT !.triggers = @ \o Joined(ast.defaults, LAMBDA d : d.triggers),
               !.uses = @ \o Joined(ast.defaults, LAMBDA d : d.uses)]

ExpandStory(s) ==
    [s EXCEPT !.sender = SenderAfter(s.uses, IF Named(ast.senders, "default") = {} THEN None ELSE "default"),
              !.storylines = AutoAssignOrders(@ \o Joined(s.loops, ExpandForLoopStorylines)),
              !.loops = <<>>, !.uses = <<>>]
\* Patterns get the sender in force where they are used, all else the last one.
ExpandStoryline(sl, sender) ==
    LET own == SenderAfter(sl.uses, sender)
        patterns == FlattenSeq([i \in DOMAIN sl.uses |->
                       IF sl.uses[i].kind = "pattern"
                       THEN ExpandPattern(sl.uses[i], SenderAfter(SubSeq(sl.uses, 1, i - 1), sender))
                       ELSE <<>>])
        loops == Joined(sl.loops, LAMBDA fl : ExpandForLoopEnactments(fl, own))
        all == AutoAssignLevels(sl.enactments \o patterns \o loops, Len(sl.enactments))
    IN [sl EXCEPT !.enactments = Each(all, ApplyDefaults), !.sender = own,
                  !.loops = <<>>, !.uses = <<>>]
ExpandEnactment(en, sender) ==
    LET own == SenderAfter(en.uses, sender)
        policies == Joined(en.uses, LAMBDA u : IF u.kind = "policy" THEN ExpandPolicy(u) ELSE <<>>)
    IN ApplySender([en EXCEPT
         !.scenes = @ \o ExpandScenesRange(en.range, <<>>), !.range = None, !.uses = <<>>,
         !.triggers = Each(@ \o policies, LAMBDA t : [t EXCEPT !.value = ResolveLink(@)])], own)

\* Pages and blocks without a context of their own inherit one.
Inherited(ai, above) == IF ai = None THEN above ELSE ai
ExpandPage(pg, above) ==
    LET ai == Inherited(pg.ai, above) IN
    [pg EXCEPT !.ai = ai, !.blocks = Each(@, LAMBDA b : [b EXCEPT !.ai = Inherited(@, ai)])]
ExpandFunnel(f) ==
    [f EXCEPT !.routes = Each(@, LAMBDA r :
       [r EXCEPT !.stages = Each(@, LAMBDA st :
          [st EXCEPT !.pages = Each(@, LAMBDA pg : ExpandPage(pg, f.ai))])])]

--------------------------------------------------------------------------------
(* What there is in a script *)

Stories == ToSet(ast.stories)
Storylines == UNION {{<<s, sl>> : sl \in ToSet(s.storylines)} : s \in Stories}
Enactments == UNION {{<<x[1], x[2], en>> : en \in ToSet(x[2].enactments)} : x \in Storylines}
Triggers == UNION {{<<x[1], x[2], x[3], t>> : t \in ToSet(x[3].triggers)} : x \in Enactments}
Routes == UNION {ToSet(f.routes) : f \in ToSet(ast.funnels)}
Stages == UNION {ToSet(r.stages) : r \in Routes}
FunnelTriggers == UNION {ToSet(st.triggers) : st \in Stages}
FunnelPages == UNION {ToSet(st.pages) : st \in Stages}
SitePages == UNION {ToSet(st.pages) : st \in ToSet(ast.sites)}

RECURSIVE Nested(_)
Nested(actions) == ToSet(actions) \cup UNION {Nested(a.fallback) : a \in ToSet(actions)}
Actions(t) == Nested(t.actions) \cup Nested(t.else)

--------------------------------------------------------------------------------
(* The passes of the expander *)

Reported(found) == errors' = errors \cup found
If(condition, kind) == IF condition THEN {kind} ELSE {}

CollectDefinitions ==
    /\ pass = "definitions"
    /\ Reported(If(\E defs \in {ast.senders, ast.patterns, ast.policies, ast.data} : Repeats(defs), "definition"))
    /\ pass' = IF errors' = {} THEN "stories" ELSE "refused"
    /\ UNCHANGED <<ast, made, graph>>

ExpandStories ==
    /\ pass = "stories"
    /\ Reported(
         If(\E s \in Stories : \E u \in ToSet(s.uses) : Misused(u, "story"), "use")
         \cup If(\E s \in Stories : \E fl \in ToSet(s.loops) :
                   Missing(fl) \/ \E sl \in ToSet(fl.storylines) :
                                    \/ NoNumber(sl.order, sl.orderOf, fl)
                                    \/ \E en \in ToSet(sl.enactments) :
                                         NoNumber(en.level, en.levelOf, fl) \/ NoNumber(en.order, en.orderOf, fl),
                 "loop"))
    /\ ast' = [ast EXCEPT !.stories = Each(@, ExpandStory)]
    /\ pass' = "storylines"
    /\ UNCHANGED <<made, graph>>

ExpandStorylines ==
    /\ pass = "storylines"
    /\ Reported(
         If(\E x \in Storylines :
              \/ \E u \in ToSet(x[2].uses) : Misused(u, "storyline")
              \/ \E fl \in ToSet(x[2].loops) :
                   Items(fl) # <<>> /\ \E u \in ToSet(fl.uses) : Misused(u, "loop"), "use")
         \cup If(\E x \in Storylines : \E fl \in ToSet(x[2].loops) :
                   Missing(fl) \/ \E en \in ToSet(fl.enactments) :
                                    NoNumber(en.level, en.levelOf, fl) \/ NoNumber(en.order, en.orderOf, fl),
                 "loop"))
    /\ ast' = [ast EXCEPT !.stories = Each(@, LAMBDA s :
                 [s EXCEPT !.storylines = Each(@, LAMBDA sl : ExpandStoryline(sl, s.sender))])]
    /\ pass' = "enactments"
    /\ UNCHANGED <<made, graph>>

ExpandEnactments ==
    /\ pass = "enactments"
    /\ Reported(If(\E x \in Enactments : \E u \in ToSet(x[3].uses) : Misused(u, "enactment"), "use"))
    /\ ast' = [ast EXCEPT !.stories = Each(@, LAMBDA s :
                 [s EXCEPT !.storylines = Each(@, LAMBDA sl :
                    [sl EXCEPT !.enactments = Each(@, LAMBDA en : ExpandEnactment(en, sl.sender))])])]
    /\ pass' = "funnels"
    /\ UNCHANGED <<made, graph>>

ExpandFunnels ==
    /\ pass = "funnels"
    /\ ast' = [ast EXCEPT !.funnels = Each(@, ExpandFunnel)]
    /\ pass' = IF errors = {} THEN "validate" ELSE "refused"
    /\ UNCHANGED <<errors, made, graph>>

--------------------------------------------------------------------------------
(* Validation *)

TriggerTypes ==
    {"click", "not_click", "open", "not_open", "sent", "webhook", "nothing", "else", "bounce", "spam",
     "unsubscribe", "failure", "email_validated", "user_has_tag", "badge", "submit", "abandon", "purchase"}
Retries ==
    {"retry_scene", "retry_enactment", "loop_to_enactment", "loop_to_storyline",
     "loop_to_start_enactment", "loop_to_start_storyline"}
Jumps == {"jump_to_enactment", "next_enactment"}
\* Actions compiled to a name that replaces the one before, or is added to it.
Renaming == {"next_scene", "prev_scene", "loop_to_start_enactment", "retry_scene", "retry_enactment",
             "loop_to_start_storyline", "mark_complete", "mark_failed"}
Adding == {"jump_to_stage", "start_story", "send_email", "redirect", "provide_download"}
ActionTypes ==
    Retries \cup Jumps \cup Renaming \cup Adding
      \cup {"jump_to_storyline", "advance_to_next_storyline", "end_story", "unsubscribe",
            "give_badge", "remove_badge", "wait", "send_immediate"}

Names(defs) == {d.name : d \in ToSet(defs)}
DuplicateName ==
    \/ Repeats(ast.stories) \/ Repeats(ast.funnels) \/ Repeats(ast.sites)
    \/ \E s \in Stories : Repeats(s.storylines)
    \/ \E x \in Storylines : Repeats(x[2].enactments)
    \/ \E x \in Enactments : Repeats(x[3].scenes)
    \/ \E f \in ToSet(ast.funnels) : Repeats(f.routes)
    \/ \E r \in Routes : Repeats(r.stages)
    \/ \E st \in Stages \cup ToSet(ast.sites) : Repeats(st.pages)
    \/ \E pg \in FunnelPages : Repeats(pg.forms)
NextStorylines(sl) == sl.next \cup UNION {r.next : r \in ToSet(sl.routes)}
UnknownReference ==
    \/ \E s \in Stories : ~(s.next \subseteq Names(ast.stories))
    \/ \E x \in Storylines : ~(NextStorylines(x[2]) \subseteq Names(x[1].storylines))
    \/ \E x \in Triggers : \E a \in Actions(x[4]) :
         \/ a.type \in Jumps \cup {"loop_to_enactment"} /\ a.target \notin Names(x[2].enactments)
         \/ a.type \in {"jump_to_storyline", "loop_to_storyline"} /\ a.target \notin Names(x[1].storylines)
Childless ==
    \/ \E s \in Stories : s.storylines = <<>>
    \/ \E x \in Storylines : x[2].enactments = <<>>
    \/ \E x \in Enactments : x[3].scenes = <<>>
    \/ \E f \in ToSet(ast.funnels) : f.routes = <<>>
    \/ \E r \in Routes : r.stages = <<>>
DuplicateOrder ==
    \/ \E s \in Stories : \E i, j \in DOMAIN s.storylines :
         i < j /\ s.storylines[i].order # None /\ s.storylines[i].order = s.storylines[j].order
    \/ \E x \in Storylines : \E i, j \in DOMAIN x[2].enactments :
         LET a == x[2].enactments[i]  b == x[2].enactments[j]
         IN i < j /\ ((a.level # None /\ a.level = b.level) \/ (a.order # None /\ a.order = b.order))
BadTrigger ==
    \E x \in Triggers :
      \/ x[4].type \notin TriggerTypes
      \/ x[4].complete /\ x[4].failed
      \/ \E a \in Actions(x[4]) : a.type \notin ActionTypes \/ (a.type \in Retries /\ a.max # None /\ a.max <= 0)

\* The badges and tags that are there before anything is compiled.
BadgesOfActions(t) == t.badges \cup UNION {a.badges : a \in Nested(t.actions)}
TriggerBadges(t) ==
    t.badges \cup {c[2] : c \in {d \in t.conditions : d[1] = "badge"}} \cup UNION {a.badges : a \in Actions(t)}
BadgeNames ==
    UNION {s.badges : s \in Stories}
      \cup UNION {x[2].required \cup x[2].given \cup UNION {r.badges : r \in ToSet(x[2].routes)} : x \in Storylines}
      \cup UNION {TriggerBadges(x[4]) : x \in Triggers}
      \cup UNION {r.badges : r \in Routes} \cup UNION {TriggerBadges(t) : t \in FunnelTriggers}
TagNames ==
    UNION {UNION {sc.tags : sc \in ToSet(x[3].scenes)} : x \in Enactments}
      \cup UNION {{c[2] : c \in {d \in t.conditions : d[1] = "tag"}} : t \in {x[4] : x \in Triggers} \cup FunnelTriggers}

Validate ==
    /\ pass = "validate"
    /\ Reported(If(DuplicateName, "duplicate") \cup If(UnknownReference, "reference") \cup If(Childless, "structure")
                  \cup If(DuplicateOrder, "order") \cup If(BadTrigger, "trigger"))
    /\ made' = {<<"badge", b>> : b \in BadgeNames} \cup {<<"tag", t>> : t \in TagNames}
    /\ pass' = IF errors' = {} THEN "compile media" ELSE "refused"
    /\ UNCHANGED <<ast, graph>>

--------------------------------------------------------------------------------
(* Compilation: each pass knows what the passes before it made *)

LinkAmong(known, kind, key) == [kind |-> kind, key |-> key, to |-> IF key \in known THEN key ELSE None]
Links(kind, names) == {LinkAmong(made, kind, <<kind, n>>) : n \in names}
Keys(kind, defs) == {<<kind, n>> : n \in Names(defs)}

CompileMedia ==
    /\ pass = "compile media"
    /\ made' = made \cup Keys("media", ast.media) \cup UNION {{<<"badge", b>> : b \in m.badges} : m \in ToSet(ast.media)}
    /\ graph' = graph \cup UNION {Links("preset", m.presets) : m \in ToSet(ast.media)}
    /\ pass' = "compile presets"
    /\ UNCHANGED <<ast, errors>>

CompilePresets ==
    /\ pass = "compile presets"
    /\ made' = made \cup Keys("preset", ast.presets)
    /\ pass' = "compile stories"
    /\ UNCHANGED <<ast, errors, graph>>

\* The actions of a trigger are merged into one: a name, a next enactment, a badge transaction.
AddAction(action, a, earlier) ==
    [name |-> CASE a.type \in Jumps ->
                     IF a.target \in earlier THEN action.name ELSE <<"jump_to_enactment", a.target>>
                [] a.type \in {"jump_to_storyline", "loop_to_storyline"} -> <<"jump_to_storyline", a.target>>
                [] a.type \in Renaming \cup {"loop_to_enactment"} -> <<a.type>>
                [] a.type \in Adding /\ action.name = <<>> -> <<a.type, a.target>>
                [] OTHER -> action.name,
     next |-> IF a.type \in Jumps \cup {"loop_to_enactment"} /\ a.target \in earlier THEN a.target ELSE action.next,
     badges |-> IF a.type \in {"give_badge", "remove_badge"} THEN a.badges ELSE action.badges]
CompileActions(actions, earlier) ==
    FoldLeft(LAMBDA action, a : AddAction(action, a, earlier),
             [name |-> <<>>, next |-> None, badges |-> {}], actions)
\* The linking pass looks for jumps forward among all the enactments of the storyline.
ActionLinks(actions, place, earlier, all) ==
    LET action == CompileActions(actions, earlier)
        forward == Head(action.name \o <<"">>) = "jump_to_enactment"
        target == IF forward THEN action.name[2] ELSE action.next
        known == IF forward THEN all ELSE earlier
        key(en) == <<"enactment">> \o place \o <<en>>
    IN Links("badge", action.badges)
         \cup {LinkAmong({key(n) : n \in known}, "enactment", key(to)) : to \in {target} \ {None}}
         \cup {LinkAmong({}, "loop", key(a.target)) :
                  a \in {b \in ToSet(actions) : b.type = "loop_to_enactment" /\ b.target \notin earlier}}
\* Without else actions, the first fallback of a retry takes their place.
ElseActions(t) ==
    LET retries == SelectSeq(t.actions, LAMBDA a : a.fallback # <<>>)
    IN IF t.else # <<>> \/ retries = <<>> THEN t.else ELSE Head(retries).fallback
TriggerLinks(t, place, earlier, all) ==
    Links("badge", t.badges \cup {c[2] : c \in {d \in t.conditions : d[1] = "badge"}})
      \cup ActionLinks(t.actions, place, earlier, all) \cup ActionLinks(ElseActions(t), place, earlier, all)

EnactmentLinks(s, sl, i) ==
    LET en == sl.enactments[i]
        earlier == Names(SubSeq(sl.enactments, 1, i - 1))
    IN UNION {Links("tag", sc.tags) : sc \in ToSet(en.scenes)}
         \cup UNION {TriggerLinks(t, <<s.name, sl.name>>, earlier, Names(sl.enactments)) : t \in ToSet(en.triggers)}
StorylineLinks(s, sl) ==
    Links("badge", sl.required \cup sl.given \cup UNION {r.badges : r \in ToSet(sl.routes)})
      \cup UNION {EnactmentLinks(s, sl, i) : i \in DOMAIN sl.enactments}
      \cup {LinkAmong({<<"storyline", s.name, n>> : n \in Names(s.storylines)}, "storyline", <<"storyline", s.name, to>>) :
              to \in NextStorylines(sl)}
CompileStories ==
    /\ pass = "compile stories"
    /\ made' = made \cup Keys("story", ast.stories)
                  \cup {<<"storyline", x[1].name, x[2].name>> : x \in Storylines}
                  \cup {<<"enactment", x[1].name, x[2].name, x[3].name>> : x \in Enactments}
    /\ graph' = graph \cup UNION {Links("badge", s.badges) : s \in Stories}
                   \cup UNION {StorylineLinks(x[1], x[2]) : x \in Storylines}
    /\ pass' = "link stories"
    /\ UNCHANGED <<ast, errors>>

LinkStories ==
    /\ pass = "link stories"
    /\ LET links == UNION {Links("story", s.next) : s \in Stories} IN
         /\ graph' = graph \cup links
         /\ Reported(If(\E l \in links : l.to = None, "story"))
    /\ pass' = "compile funnels"
    /\ UNCHANGED <<ast, made>>

\* Triggers of a stage are compiled without a storyline, which some actions ask for.
NeedsStoryline(t) ==
    \E a \in ToSet(t.actions) \cup ToSet(ElseActions(t)) : a.type \in Jumps \cup {"loop_to_enactment"}
PageLinks(pg) ==
    UNION {Links("media", b.media) : b \in ToSet(pg.blocks)} \cup UNION {Links("offer", fm.bumps) : fm \in ToSet(pg.forms)}
CompileFunnels ==
    /\ pass = "compile funnels"
    /\ \/ /\ \E t \in FunnelTriggers : NeedsStoryline(t)
          /\ pass' = "panicked"
          /\ UNCHANGED <<made, graph>>
       \/ /\ \A t \in FunnelTriggers : ~NeedsStoryline(t)
          /\ pass' = "compile sites"
          /\ made' = made \cup Keys("funnel", ast.funnels)
          /\ graph' = graph \cup UNION {Links("badge", r.badges) : r \in Routes}
                         \cup UNION {TriggerLinks(t, <<>>, {}, {}) : t \in FunnelTriggers}
                         \cup UNION {PageLinks(pg) : pg \in FunnelPages}
    /\ UNCHANGED <<ast, errors>>

CompileSites ==
    /\ pass = "compile sites"
    /\ made' = made \cup Keys("site", ast.sites)
    /\ graph' = graph \cup UNION {PageLinks(pg) : pg \in SitePages}
    /\ pass' = "compile products"
    /\ UNCHANGED <<ast, errors>>

CompileProducts ==
    /\ pass = "compile products"
    /\ made' = made \cup Keys("product", ast.products \o ast.courses)
    /\ pass' = "compile offers"
    /\ UNCHANGED <<ast, errors, graph>>

CompileOffers ==
    /\ pass = "compile offers"
    /\ LET links == UNION {Links("product", o.products) : o \in ToSet(ast.offers)} IN
         /\ graph' = graph \cup links
         /\ Reported(If(\E l \in links : l.to = None, "product"))
    /\ made' = made \cup Keys("offer", ast.offers) \cup UNION {{<<"badge", b>> : b \in o.badges} : o \in ToSet(ast.offers)}
    /\ pass' = "compile channels"
    /\ UNCHANGED ast

CompileChannels ==
    /\ pass = "compile channels"
    /\ made' = made \cup Keys("channel", ast.channels)
    /\ graph' = graph \cup UNION {Links("media", c.items) : c \in ToSet(ast.channels)}
    /\ pass' = "compiled"
    /\ UNCHANGED <<ast, errors>>

CompilerNext ==
    \/ CollectDefinitions \/ ExpandStories \/ ExpandStorylines \/ ExpandEnactments \/ ExpandFunnels
    \/ Validate
    \/ CompileMedia \/ CompilePresets \/ CompileStories \/ LinkStories \/ CompileFunnels
    \/ CompileSites \/ CompileProducts \/ CompileOffers \/ CompileChannels

CompilerSpec == CompilerInit /\ [][CompilerNext]_compilerVars

--------------------------------------------------------------------------------
(* Properties *)

CompilerTypeOK ==
    /\ pass \in {"definitions", "stories", "storylines", "enactments", "funnels", "validate", "compile media",
                 "compile presets", "compile stories", "link stories", "compile funnels", "compile sites",
                 "compile products", "compile offers", "compile channels", "compiled", "refused", "panicked"}
    /\ errors \subseteq {"definition", "use", "loop", "duplicate", "reference", "structure", "order", "trigger",
                         "story", "product"}
    /\ \A l \in graph : l.to \in {None, l.key}

\* What a script refers to and defines is found, in whatever order the script
\* says them: badges and tags (precreateBadges, precreateTags), enactments jumped
\* to forwards and backwards, storylines, stories, media.  What it does not
\* define is an error of the validator or of the compiler, but for media, whose
\* references may be public ids.  Presets, the offers of order bumps and loops
\* forward are the three the order of the passes leaves unresolved.
NamesResolve ==
    pass = "compiled" =>
      \A l \in graph :
        \/ l.to = l.key
        \/ l.kind \in {"preset", "offer", "loop"}
        \/ l.key \notin made /\ (l.kind = "media" \/ l.kind \in errors)

Parameters ==
    UNION {ToSet(d.params) : d \in ToSet(ast.patterns) \cup ToSet(ast.policies)}
      \cup UNION {UNION {DOMAIN item : item \in ToSet(d.items)} : d \in ToSet(ast.data)}

\* Whichever way an enactment came to be - written, from a pattern, from a loop,
\* from a pattern in a loop - it has every trigger and policy of the defaults,
\* its links are resolved, its scenes have a sender when there is a default one,
\* and no parameter is left where a name is to be (expander.go:40-62).
ExpansionIsComplete ==
    pass = "validate" =>
      \A x \in Enactments :
        LET en == x[3]  triggers == ToSet(en.triggers) IN
        /\ en.uses = <<>> /\ en.range = None /\ x[2].loops = <<>>
        /\ \A d \in ToSet(ast.defaults) :
             /\ \A t \in ToSet(d.triggers) : [t EXCEPT !.value = ResolveLink(@)] \in triggers
             /\ \A u \in ToSet(d.uses) : u.kind = "policy" =>
                  \A t \in ToSet(ExpandPolicy(u)) : [t EXCEPT !.value = ResolveLink(@)] \in triggers
        /\ \A t \in triggers :
             /\ t.value \notin DOMAIN ast.links \cup Parameters
             /\ \A a \in Actions(t) : a.target \notin Parameters
        /\ \A sc \in ToSet(en.scenes) :
             /\ sc.name \notin Parameters
             /\ Named(ast.senders, "default") # {} => sc.sender # None
================================================================================
