--------------------------------- MODULE MCScript ---------------------------------
(* Small instances of ScriptParser, ScriptCompiler and ScriptDeploy for TLC.    *)
(* They share nothing but the script: each behaviour is one of the three.       *)
EXTENDS ScriptParser, TLC

CONSTANTS Parts, None, Requests, TenantOf, Kinds, MaxRestarts
CONSTANTS r1, r2, t1

VARIABLES
    ast, pass, errors, made, graph,
    idCounter, idSessionPrefix, drawn, call, stored, restarts,
    under

compilerVars == <<ast, pass, errors, made, graph>>
deployVars == <<idCounter, idSessionPrefix, drawn, call, stored, restarts>>

\* Every parse function, called where the parser calls it.
Functions == {f \in DOMAIN Codes : Codes[f].items # <<>>}

--------------------------------------------------------------------------------
(* Scripts: a story in two storylines, with what matters to a pass varied *)

AnAction(type, target) == [type |-> type, target |-> target, badges |-> {}, max |-> None, fallback |-> <<>>]
Give(badges) == [AnAction("give_badge", None) EXCEPT !.badges = badges]
ATrigger(type, value, actions) ==
    [type |-> type, value |-> value, badges |-> {}, conditions |-> {}, actions |-> actions, else |-> <<>>,
     complete |-> FALSE, failed |-> FALSE]
AScene(name) == [name |-> name, tags |-> {}, sender |-> None]
AUse(kind, target, args) == [kind |-> kind, target |-> target, args |-> args]
AnEnactment(name, triggers) ==
    [name |-> name, level |-> None, levelOf |-> None, order |-> None, orderOf |-> None,
     scenes |-> <<AScene("hello")>>, range |-> None, triggers |-> triggers, uses |-> <<>>]
AStoryline(name, enactments) ==
    [name |-> name, order |-> None, orderOf |-> None, required |-> {}, given |-> {}, next |-> {},
     routes |-> <<>>, enactments |-> enactments, uses |-> <<>>, loops |-> <<>>, sender |-> None]
AStory(name, storylines) ==
    [name |-> name, next |-> {}, badges |-> {}, uses |-> <<>>, storylines |-> storylines, loops |-> <<>>, sender |-> None]
ALoop(items, data) == [items |-> items, data |-> data, storylines |-> <<>>, enactments |-> <<>>, uses |-> <<>>]
Empty ==
    [senders |-> <<>>, links |-> <<>>, patterns |-> <<>>, policies |-> <<>>, data |-> <<>>, defaults |-> <<>>,
     stories |-> <<>>, funnels |-> <<>>, sites |-> <<>>, products |-> <<>>, courses |-> <<>>, offers |-> <<>>,
     media |-> <<>>, presets |-> <<>>, channels |-> <<>>]

\* The parts of a script that vary.
DataItem == ("phase.name" :> "two") @@ ("phase.level" :> "2")
MailPattern ==
    [name |-> "mail", params |-> <<"name", "url">>,
     enactments |-> <<[AnEnactment("name", <<ATrigger("click", "url", <<AnAction("jump_to_enactment", "name")>>)>>)
                        EXCEPT !.uses = <<AUse("policy", "leave", <<"url">>)>>,
                               !.range = [var |-> "n", first |-> 1, last |-> 2, scene |-> AScene("n")]]>>,
     triggers |-> <<ATrigger("open", None, <<AnAction("next_scene", None)>>)>>,
     range |-> [var |-> "m", first |-> 3, last |-> 3, scene |-> AScene("m")]]
LeavePolicy ==
    [name |-> "leave", params |-> <<"where">>,
     triggers |-> <<ATrigger("click", "where", <<AnAction("end_story", None)>>)>>]
Looped ==
    [ALoop(<<>>, "phases") EXCEPT
       !.uses = <<AUse("pattern", "mail", <<"phase.name", "offer">>)>>,
       !.enactments = <<[AnEnactment("three", <<>>) EXCEPT !.levelOf = "phase.level"]>>]
RetryTwice ==
    [AnAction("retry_scene", None) EXCEPT !.max = 2, !.fallback = <<Give({"lost"})>>]

\* What the passes report.
Faulty(trigger) == [AnEnactment("one", <<trigger>>) EXCEPT !.level = 1, !.order = 1]
Faults ==
    {<<>>,
     <<AStoryline("early", <<>>)>>,
     <<AStoryline("early", <<[Faulty(ATrigger("watch", None, <<>>)) EXCEPT !.scenes = <<>>]>>)>>,
     <<AStoryline("early", <<Faulty([ATrigger("click", None, <<>>) EXCEPT !.complete = TRUE, !.failed = TRUE])>>)>>,
     <<AStoryline("early", <<Faulty(ATrigger("click", None, <<[RetryTwice EXCEPT !.max = 0]>>))>>)>>,
     <<AStoryline("early", <<Faulty(ATrigger("open", None, <<>>)), [Faulty(ATrigger("open", None, <<>>)) EXCEPT !.name = "two"]>>)>>,
     <<[AStoryline("early", <<AnEnactment("one", <<>>)>>) EXCEPT !.loops = <<ALoop(<<>>, "missing")>>]>>,
     <<[AStoryline("early", <<>>) EXCEPT !.loops =
         <<[ALoop(<<DataItem>>, None) EXCEPT !.enactments = <<[AnEnactment("one", <<>>) EXCEPT !.orderOf = "phase.name"]>>]>>]>>,
     <<AStoryline("early", <<[AnEnactment("one", <<>>) EXCEPT !.uses =
         <<AUse("pattern", "mail", <<>>), AUse("sender", "nobody", <<>>), AUse("policy", "stay", <<>>)>>]>>)>>}

\* An enactment jumps forward, backward or to nothing, alone or with another action.
Jumping(to, with, else) ==
    [ATrigger("not_click", "offer", <<AnAction("jump_to_enactment", to)>> \o with) EXCEPT
       !.else = else, !.badges = {"vip"}, !.conditions = {<<"badge", "new">>, <<"tag", "cold">>}]
Triggers1 ==
    {Jumping(to, with, else) :
       to \in {"one", "two", "nowhere"},
       with \in {<<>>, <<RetryTwice>>, <<AnAction("loop_to_enactment", "two")>>, <<AnAction("redirect", "offer")>>},
       else \in {<<>>, <<Give({"cold"})>>, <<AnAction("jump_to_storyline", "late")>>}}
Generated ==
    {AStoryline("late", <<AnEnactment("one", <<>>)>>),
     [AStoryline("late", <<>>) EXCEPT !.uses = <<AUse("sender", "team", <<>>), AUse("pattern", "mail", <<"one", "offer">>)>>],
     [AStoryline("late", <<AnEnactment("one", <<>>)>>) EXCEPT !.loops = <<Looped>>],
     [AStoryline("late", <<>>) EXCEPT !.uses = <<AUse("pattern", "mail", <<"one">>)>>],
     [AStoryline("late", <<AnEnactment("one", <<>>)>>) EXCEPT !.order = 1],
     [AStoryline("late", <<AnEnactment("one", <<>>), AnEnactment("one", <<>>)>>) EXCEPT !.next = {"early"},
        !.routes = <<[badges |-> {"vip"}, next |-> {"early"}]>>]}
AFunnel(trigger) ==
    [name |-> "sales", ai |-> "context", routes |->
       <<[name |-> "main", badges |-> {"vip"}, stages |->
           <<[name |-> "buy", triggers |-> trigger, pages |->
               <<[name |-> "page", ai |-> None, blocks |-> <<[media |-> {"video", "public"}, ai |-> None]>>,
                  forms |-> <<[name |-> "form", bumps |-> {"bundle"}]>>]>>]>>]>>]
Shop(product, trigger) ==
    [Empty EXCEPT
       !.funnels = <<AFunnel(trigger)>>,
       !.sites = <<[name |-> "home", pages |-> <<[name |-> "start", ai |-> None, blocks |-> <<[media |-> {"video"}, ai |-> None]>>,
                                                  forms |-> <<>>]>>]>>,
       !.products = <<[name |-> "book"]>>, !.courses = <<[name |-> "course"]>>,
       !.offers = <<[name |-> "bundle", products |-> {"course", product}, badges |-> {"buyer"}]>>,
       !.media = <<[name |-> "video", badges |-> {"seen"}, presets |-> {"dark"}]>>,
       !.presets = <<[name |-> "dark"]>>,
       !.channels = <<[name |-> "tv", items |-> {"video", "public"}]>>]
Shops ==
    {Shop("book", <<ATrigger("purchase", "book", <<Give({"buyer"}), AnAction("start_story", "welcome")>>)>>),
     Shop("pen", <<>>), Shop("book", <<ATrigger("submit", None, <<AnAction("next_enactment", "one")>>)>>)}

ACampaign(trigger, late, shop, senders, next) ==
    [shop EXCEPT
       !.senders = senders, !.links = ("offer" :> "https"), !.patterns = <<MailPattern>>, !.policies = <<LeavePolicy>>,
       !.data = <<[name |-> "phases", items |-> <<DataItem>>]>>,
       !.defaults = <<[triggers |-> <<ATrigger("click", "offer", <<AnAction("mark_complete", None)>>)>>,
                       uses |-> <<AUse("policy", "leave", <<"offer">>)>>]>>,
       !.stories = <<[AStory("welcome", <<[AStoryline("early", <<AnEnactment("one", <<trigger>>), AnEnactment("two", <<trigger>>)>>)
                                            EXCEPT !.given = {"begun"}], late>>) EXCEPT !.next = next, !.badges = {"new"}]>>]

ASender(name) == [name |-> name]
SmallScripts ==
    {ACampaign(t, l, Empty, <<ASender("default"), ASender("team")>>, {}) : t \in Triggers1, l \in Generated}
      \cup {ACampaign(Jumping("two", <<>>, <<>>), l, s, senders, next) :
              l \in {AStoryline("late", <<AnEnactment("one", <<>>)>>)}, s \in Shops,
              senders \in {<<ASender("default"), ASender("team")>>, <<ASender("team")>>, <<ASender("team"), ASender("team")>>},
              next \in {{"welcome"}, {"farewell"}}}
      \cup {[Empty EXCEPT !.stories = <<AStory("welcome", storylines)>>] : storylines \in Faults}
      \cup {[ACampaign(Jumping("two", <<>>, <<>>), AStoryline("late", <<AnEnactment("one", <<>>)>>), Empty, <<ASender("default")>>, {})
               EXCEPT !.stories[1].loops = <<[ALoop(<<DataItem>>, None) EXCEPT
                  !.storylines = <<[AStoryline("phase.name", <<AnEnactment("phase.name", <<>>)>>) EXCEPT
                     !.orderOf = "phase.level", !.loops = <<Looped>>]>>]>>]}

--------------------------------------------------------------------------------

\* A script of two scenes.
SmallTenants == (r1 :> t1) @@ (r2 :> t1)
SmallKinds == <<"scene", "scene">>

Compiler == INSTANCE ScriptCompiler WITH Scripts <- SmallScripts
Deploy == INSTANCE ScriptDeploy
ASSUME DeployAssumption == Deploy!DeployConstants

ScriptInit ==
    /\ under \in Parts
    /\ IF under = "parser" THEN ParserInit ELSE stack = <<>> /\ tok = "eof" /\ failed = FALSE /\ strange = FALSE /\ open = 0 /\ seen = {}
    /\ IF under = "compiler" THEN Compiler!CompilerInit
       ELSE ast = None /\ pass = "none" /\ errors = {} /\ made = {} /\ graph = {}
    /\ Deploy!DeployInit

ScriptNext ==
    \/ under = "parser" /\ ParserNext /\ UNCHANGED <<compilerVars, deployVars, under>>
    \/ under = "compiler" /\ Compiler!CompilerNext /\ UNCHANGED <<parserVars, deployVars, under>>
    \/ under = "deploy" /\ Deploy!DeployNext /\ UNCHANGED <<parserVars, compilerVars, under>>

ScriptSpec == ScriptInit /\ [][ScriptNext]_<<parserVars, compilerVars, deployVars, under>>

\* The types of all three.
ScriptTypeOK ==
    ParserTypeOK /\ (under = "compiler" => Compiler!CompilerTypeOK) /\ Deploy!DeployTypeOK

\* What ScriptCompiler and ScriptDeploy promise, in the behaviours where they are used.
NamesResolve == Compiler!NamesResolve
ExpansionIsComplete == Compiler!ExpansionIsComplete
PublicIdsAreUnique == Deploy!PublicIdsAreUnique
================================================================================
