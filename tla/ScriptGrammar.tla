------------------------------ MODULE ScriptGrammar ------------------------------
(* The parser of SentanylScript (scripting/parser.go, parser_video.go), one   *)
(* definition per parse function: the tokens it takes, what it does about the *)
(* others, and the functions it calls, as a program for the machine of        *)
(* ScriptParser.                                                              *)
(*                                                                            *)
(* The nodes built are left out.  Identifiers a block knows by their spelling *)
(* are the words, one for each thing that may follow; literals have no value. *)
EXTENDS Sequences

--------------------------------------------------------------------------------
(* Instructions, and the tables loops and choices work with *)

I(op, arg) == [op |-> op, arg |-> arg]
Expect(t) == I("expect", {t})   \* take the token or report it
Skip == I("skip", {})           \* advance
Take == I("take", {})           \* advance over whatever serves as a name
Maybe(S) == I("maybe", S)       \* advance over one of these
Report == I("report", {})
Return == I("return", {})       \* return nil
Break == I("break", {})
Call(f) == I("call", {f})
Loop(f) == I("loop", {f})       \* with the table of f
Pick(f) == I("pick", {f})

Code(items, until, only, table, other) ==
    [items |-> items, until |-> until, only |-> only, table |-> table, other |-> other]
DropStays == <<Report>>
Drop == <<Report, Skip>>
\* A choice among the tokens of a table.
Choice(table, other) == Code(<<>>, {}, {}, table, other)
\* A loop up to a token, or as long as one of some tokens comes.
Until(t, table, other) == Code(<<>>, {t}, {}, table, other)
While(table) == Code(<<>>, {}, DOMAIN table, table, <<>>)
\* A block: its head, and in braces what the table says; other tokens are
\* reported and dropped.
Block(f, head, table) ==
    Code(head \o <<Expect("lbrace"), Loop(f), Expect("rbrace")>>, {"rbrace"}, {}, table, Drop)

Upon(S, items) == [t \in S |-> items]
\* Two tables; the first one counts where both have an entry.
T ++ U == [t \in DOMAIN T \cup DOMAIN U |-> IF t \in DOMAIN T THEN T[t] ELSE U[t]]
String == Expect("string")
Integer == Expect("int")
Named(t) == <<Expect(t), String>>
Bools == {"bool", "true", "false"}
Compares == {"gt", "lt", "gteq", "lteq"}
Word == {"string", "name"}
Texts(S) == Upon(S, <<Skip, String>>)
Ints(S) == Upon(S, <<Skip, Integer>>)
Words(S) == Upon(S, <<Skip, Pick("word")>>)
MaybeWords(S) == Upon(S, <<Skip, Maybe(Word)>>)
Flags(S) == Upon(S, <<Skip, Pick("bool")>>)
MaybeFlags(S) == Upon(S, <<Skip, Maybe(Bools)>>)
Calls(S) == [t \in S |-> <<Call(t)>>]
\* An identifier is taken before it is looked at.
Unknown == Upon({"ident"}, <<Skip, Report>>)

--------------------------------------------------------------------------------
(* Common parts *)

ExpectBool == Choice(Upon(Bools, <<Skip>>), Drop)
ExpectStringOrIdent == Choice(Upon(Word, <<Skip>>), Drop)
ParseTriggerActionRef == Choice(Upon({"dot"}, <<Skip, Expect("name")>>), <<>>)
ParseStringList == Code(<<Expect("lbracket"), Loop("strings"), Expect("rbracket")>>, {"rbracket"}, {},
                        <<>>, <<String, Maybe({"comma"})>>)
ParseStringListOrSingle == Choice(Upon({"lbracket"}, <<Call("strings")>>), <<String>>)
ParseVarsMap ==
    Block("vars", <<>>,
        Upon({"string", "ident"}, <<Skip, Maybe({"colon", "equals"}), String, Maybe({"comma"})>>))
NameOrReturn == Choice(Upon({"name"}, <<Skip>>), <<Report, Return>>)
IdentOrReturn == Choice(Upon({"ident"}, <<Skip>>), <<Report, Return>>)
Params == Until("rparen", Upon({"name", "comma"}, <<Skip>>), Drop)
NumberOrExpression ==
    Choice(Upon({"int"}, <<Skip>>) ++ Upon({"name"}, <<Skip, Pick("dot")>>), Drop)

--------------------------------------------------------------------------------
(* Scripts, and what is declared once for all *)

Parse ==
    Code(<<Loop("script")>>, {}, {},
         Calls({"default", "links", "pattern", "policy", "data", "scene_defaults",
                "enactment_defaults", "story", "funnel", "course", "product", "offer", "quiz",
                "site", "media", "player_preset", "channel", "media_webhook", "campaign"}), Drop)

ParseDefaultSender ==
    Block("default", <<Expect("default"), Expect("sender"), Maybe({"string"})>>,
        Texts({"from_email", "from_name", "reply_to"}))
ParseLinksBlock ==
    Block("links", <<Expect("links")>>, Upon({"ident"}, <<Skip, Expect("equals"), String>>))

Signature(t) == <<Expect(t), Pick("ident"), Expect("lparen"), Loop("params"), Expect("rparen")>>
ParsePatternDef ==
    Block("pattern", Signature("pattern"),
        Calls({"enactment", "scene", "scenes", "on"}) ++ Upon({"use"}, Drop))
ParsePolicyDef == Block("policy", Signature("policy"), Calls({"on"}))
ParseScenesRange ==
    Block("scenes", <<Expect("scenes"), Integer, Expect("dotdot"), Integer, Expect("as"), Expect("ident")>>,
        Calls({"scene"}))

ParseDataBlock ==
    Code(<<Expect("data"), Pick("name"), Expect("equals"), Expect("lbracket"), Loop("data"),
           Expect("rbracket")>>, {"rbracket"}, {},
         Upon({"lbrace"}, <<Call("object")>>) ++ Upon({"comma"}, <<Skip>>), Drop)
ParseDataObjectLiteral ==
    Block("object", <<>>, Upon({"name"}, <<Skip, Expect("colon"), Pick("value")>>))
DataValue == Choice(Upon({"string", "int", "name"}, <<Skip, Maybe({"comma"})>>), Drop)

ParseForLoop(f, body) ==
    Block(f, <<Expect("for"), Pick("name"), Expect("in"), Pick("source")>>, Calls(body))
ForSourceBreaks ==
    Choice(Upon({"lbracket"}, <<Skip, Loop("items"), Expect("rbracket")>>) ++ Upon({"name"}, <<Skip>>),
           <<Report, Break>>)
ForSource ==
    Choice(Upon({"lbracket"}, <<Skip, Loop("items"), Expect("rbracket")>>) ++ Upon({"name"}, <<Skip>>),
           <<Report, Return>>)
ForItems ==
    Until("rbracket", Upon({"lbrace"}, <<Call("object")>>) ++ Upon({"string", "comma"}, <<Skip>>), Drop)

ParseSceneDefaults == Block("scene_defaults", <<Expect("scene_defaults")>>, Calls({"on", "use"}))
ParseEnactmentDefaults ==
    Block("enactment_defaults", <<Expect("enactment_defaults")>>, Calls({"on", "use"}))

ParseUseStatement ==
    Code(<<Expect("use"), Pick("use")>>, {}, {},
         Upon({"pattern", "policy"}, <<Skip, Pick("name"), Pick("arguments")>>)
         ++ Upon({"sender"}, <<Skip, Maybe({"default", "ident", "string"})>>),
         <<Report, Skip, Return>>)
UseArguments == Choice(Upon({"lparen"}, <<Skip, Loop("argument"), Expect("rparen")>>), <<>>)
UseArgument ==
    Until("rparen", Upon({"string", "comma"}, <<Skip>>) ++ Upon({"name"}, <<Skip, Loop("fields")>>), Drop)
ArgumentFields == While(Upon({"dot"}, <<Skip, Pick("field_of")>>))
ArgumentField == Choice(Upon({"name"}, <<Skip>>), <<Report, Break>>)

--------------------------------------------------------------------------------
(* Stories and campaigns *)

ParseStory ==
    Block("story", Named("story"),
        Ints({"priority"}) ++ Flags({"allow_interruption"}) ++ Texts({"start_trigger", "complete_trigger"})
        ++ Calls({"on_begin", "on_complete", "on_fail", "required_badges", "storyline", "use"})
        ++ Upon({"for"}, <<Call("for_story")>>))
ParseStoryline ==
    Block("storyline", Named("storyline"),
        Upon({"order"}, <<Skip, Pick("number")>>)
        ++ Upon({"on_complete", "on_fail"}, <<Call("storyline_end")>>)
        ++ Calls({"required_badges", "on_begin", "enactment", "use"})
        ++ Upon({"for"}, <<Call("for_storyline")>>))
ParseEnactment ==
    Block("enactment", <<Expect("enactment"), Pick("word")>>,
        Upon({"level", "order"}, <<Skip, Pick("number")>>)
        ++ Flags({"skip_to_next_storyline_on_expiry"})
        ++ Calls({"scene", "on", "use", "scenes"}))

SceneTexts == {"subject", "body", "from_email", "from_name", "reply_to"}
ParseScene ==
    Block("scene", Named("scene"),
        Words(SceneTexts) ++ Texts({"template", "context_pack", "subject_gen", "body_gen"})
        ++ Upon({"vars"}, <<Skip, Call("vars")>>) ++ Upon({"tags"}, <<Skip, Call("strings")>>)
        ++ Calls({"certificate"}))
ParseCertificate == Block("certificate", <<Expect("certificate")>>, Texts({"course_ref", "template"}))

ParseCampaign ==
    Block("campaign", Named("campaign"),
        Words(SceneTexts) ++ Texts({"context_pack", "subject_gen", "body_gen"})
        ++ Calls({"audience", "on_click"}))
ParseCampaignAudience ==
    Block("audience", <<Skip>>, Upon({"must_have", "must_not_have"}, <<Skip, Pick("strings_or_one")>>))
ParseCampaignOnClick ==
    Block("on_click", <<Expect("on_click"), Maybe({"string"})>>, Texts({"give_badge"}))

--------------------------------------------------------------------------------
(* Triggers, actions and conditions *)

WatchTypes ==
    Upon({"watch", "progress"},
         <<Skip, Maybe({"string"}), Maybe(Compares), Maybe({"int"}), Maybe({"percent"})>>)
    ++ Upon({"play", "pause", "complete", "rewatch", "cta", "turnstile", "chapter"},
            <<Skip, Maybe({"string"})>>)
TriggerType ==
    Choice(Upon({"click", "not_click"}, <<Skip, Pick("trigger_target")>>)
           ++ Upon({"open", "not_open", "sent", "nothing", "else", "bounce", "spam", "unsubscribe",
                    "failure", "email_validated", "abandon"}, <<Skip>>)
           ++ Upon({"webhook"}, <<Skip, Maybe({"string", "ident"})>>)
           ++ Upon({"user_has_tag", "badge", "submit", "purchase", "decline"}, <<Skip, Maybe({"string"})>>)
           ++ WatchTypes, <<Report, Skip, Return>>)
TriggerTarget == Choice(Upon({"string"}, <<Skip>>) ++ Upon({"name"}, <<Skip, Pick("dot")>>), <<>>)
ParseTrigger ==
    Block("on", <<Expect("on"), Pick("trigger_type")>>,
        Upon({"within"}, <<Skip, Call("duration")>>) ++ Ints({"trigger_priority"})
        ++ Texts({"persist_scope"}) ++ Flags({"mark_complete", "mark_failed", "send_immediate"})
        ++ Calls({"required_badges"})
        ++ Upon({"when"}, <<Skip, Call("condition")>>) ++ Upon({"do"}, <<Skip, Call("action")>>)
        ++ Upon({"else"}, <<Skip, Pick("else")>>))
\* After else: a block of actions, or do and one action, or nothing.
ElseActions ==
    Choice(Upon({"lbrace"}, <<Expect("lbrace"), Loop("else_block"), Expect("rbrace")>>)
           ++ Upon({"do"}, <<Skip, Call("action")>>), <<>>)
ElseBlock == Until("rbrace", Upon({"do"}, <<Skip, Call("action")>>), <<Call("action")>>)

ParseAction ==
    Code(<<Pick("action")>>, {}, {},
         Upon({"next_scene", "prev_scene", "advance_to_next_storyline", "end_story", "mark_complete",
               "mark_failed", "unsubscribe"}, <<Skip>>)
         ++ Texts({"jump_to_enactment", "jump_to_storyline", "give_badge", "remove_badge",
                   "next_enactment", "jump_to_stage", "start_story", "send_email", "redirect",
                   "provide_download"})
         ++ Upon({"retry_scene", "retry_enactment", "loop_to_start_enactment",
                  "loop_to_start_storyline"}, <<Skip, Call("retry")>>)
         ++ Upon({"loop_to_enactment", "loop_to_storyline"}, <<Skip, String, Call("retry")>>)
         ++ Upon({"wait"}, <<Skip, Call("duration")>>) ++ Flags({"send_immediate"}),
         <<Report, Skip, Return>>)
ParseRetryModifiers ==
    Code(<<Pick("up_to"), Pick("retry")>>, {}, {}, Upon({"else"}, <<Skip, Pick("else")>>), <<>>)
UpTo == Choice(Upon({"up_to"}, <<Skip, Integer, Maybe({"times"})>>), <<>>)

ParseCondition ==
    Code(<<Pick("condition")>>, {}, {},
         Upon({"has_badge", "not_has_badge", "has_tag", "not_has_tag"}, <<Skip, String, Pick("chain")>>)
         ++ Upon({"and"}, <<Skip, Pick("children"), Pick("or_chain")>>)
         ++ Upon({"or"}, <<Skip, Pick("children"), Pick("and_chain")>>)
         ++ Upon({"not"}, <<Skip, Call("condition"), Pick("chain")>>),
         <<Report, Skip, Return>>)
ConditionChildren ==
    Choice(Upon({"lbrace"}, <<Expect("lbrace"), Loop("conditions"), Expect("rbrace")>>), <<>>)
Conditions == Until("rbrace", <<>>, <<Call("condition")>>)
Chain(S) == Choice(Upon(S, <<Skip, Call("condition")>>), <<>>)

ParseDuration ==
    Code(<<Pick("duration")>>, {}, {},
         Upon({"duration", "string"}, <<Skip>>) ++ Upon({"int"}, <<Skip, Expect("unit")>>), <<Report>>)

--------------------------------------------------------------------------------
(* Beginnings and ends *)

Badges == Texts({"give_badge", "remove_badge"})
ParseLifecycleBlock == Block("on_begin", <<Skip>>, Badges)
ParseOnCompleteBlock == Block("on_complete", <<Skip>>, Badges ++ Texts({"next_story"}))
ParseOnFailBlock == Block("on_fail", <<Skip>>, Badges ++ Texts({"next_story"}))
\* Of a storyline, completed or failed.
ParseStorylineEndBlock ==
    Block("storyline_end", <<Skip>>,
        Badges ++ Texts({"next_storyline"})
        ++ Upon({"conditional_route", "route"}, <<Call("conditional_route")>>))
ParseConditionalRoute ==
    Block("conditional_route", <<Skip>>,
        Calls({"required_badges"}) ++ Texts({"next_storyline"}) ++ Ints({"priority"}))
ParseRequiredBadges ==
    Block("required_badges", <<Skip>>,
        Upon({"must_have", "must_not_have"}, <<Skip, Pick("strings_or_one")>>))

--------------------------------------------------------------------------------
(* Funnels and sites *)

ParseFunnel == Block("funnel", Named("funnel"), Texts({"domain"}) ++ Calls({"ai", "route"}))
ParseRoute ==
    Block("route", Named("route"),
        Ints({"order"}) ++ Calls({"required_badges", "stage"})
        ++ Texts({"must_have_badge", "must_not_have_badge"}))
ParseStage ==
    Block("stage", Named("stage"),
        Ints({"order"}) ++ Texts({"path"}) ++ Calls({"page", "on", "pdf", "lead_magnet"}))
ParseLeadMagnet ==
    Block("lead_magnet", <<Expect("lead_magnet")>>,
        Upon({"type", "reference", "context", "theme"}, <<Skip, Take>>))
ParsePage ==
    Block("page", Named("page"), Texts({"template"}) ++ Calls({"ai", "block", "form", "lead_magnet"}))
ParseBlock ==
    Block("block", Named("block"),
        Upon({"type"}, <<Skip, Pick("block_type")>>) ++ Words({"length", "context"})
        ++ Texts({"source_url", "prompt", "media_ref", "player_preset"}) ++ MaybeFlags({"autoplay"})
        ++ MaybeWords({"choice_word"}) ++ Calls({"ai"}))
BlockType == Choice(Upon(Word \cup {"video"}, <<Skip>>), Drop)
ParseForm ==
    Block("form", Named("form"),
        Upon({"type"}, <<Skip, Pick("form_type")>>) ++ Texts({"product_id", "offer"})
        ++ Calls({"order_bump", "field"}))
FormType ==
    Choice(Upon(Word \cup {"checkout", "lead_capture", "upsell", "one_click_upsell"}, <<Skip>>), Drop)
ParseFormField ==
    Code(<<Expect("field"), Pick("field_name"), Pick("field"), Maybe({"required"})>>, {}, {},
         Upon({"custom"}, <<Skip, Maybe(Word)>>) ++ Upon({"string", "email"}, <<Skip>>), <<>>)
FieldName == Choice(Upon(Word \cup {"email"}, <<Skip>>), <<Report, Skip, Return>>)
ParseAIContextGreedily ==
    Code(<<Expect("ai"), Expect("context"), Maybe({"global", "extend"}), Loop("ai")>>, {"rbrace"}, {},
         <<>>, <<Skip>>)
ParseAIContext ==
    [While(Upon({"string", "ident"}, <<Skip>>)) EXCEPT
        !.items = <<Expect("ai"), Expect("context"), Maybe({"global", "extend"}), Loop("ai")>>]
ParsePDFConfig == Code(<<Expect("pdf"), Maybe({"new"}), Pick("pdf")>>, {}, {}, Calls({"ai"}), <<>>)
ParseSite ==
    Block("site", Named("site"), Texts({"domain", "theme"}) ++ Calls({"seo", "navigation", "page"}))
ParseSEOBlock ==
    Block("seo", <<Expect("seo")>>, Texts({"title", "description", "text_word"}) ++ Unknown)
ParseNavigationBlock ==
    Block("navigation", <<Expect("navigation")>>,
        Upon({"header", "footer"}, <<Skip, Expect("lbrace"), Loop("nav_links"), Expect("rbrace")>>))
ParseNavLinks == Until("rbrace", <<>>, <<String, Expect("equals"), String, Maybe({"comma"})>>)

--------------------------------------------------------------------------------
(* Products, courses, offers and quizzes *)

ParseProductDecl ==
    Block("product", Named("product"),
        Words({"type"}) ++ Texts({"description", "title", "instructor", "text_word"})
        ++ MaybeWords({"theme", "choice_word"}) ++ Calls({"module", "description_gen"}) ++ Unknown)
ParseCourseDecl ==
    Block("course", Named("course"),
        Texts({"description", "instructor", "reference", "audience", "outcome", "tone", "text_word"})
        ++ MaybeWords({"default_media", "gen_mode", "theme", "choice_word"})
        ++ Calls({"module", "description_gen"})
        ++ Upon({"certificate"}, <<Call("course_certificate")>>) ++ Unknown)
ParseCourseCertConfig ==
    Block("course_certificate", <<Expect("certificate")>>,
        MaybeFlags({"enabled"}) ++ Texts({"title", "text_word"}) ++ Unknown)
ParseOfferDecl ==
    Block("offer", Named("offer"),
        Words({"pricing_model"}) ++ Upon({"price"}, <<Skip, Pick("price")>>)
        ++ Texts({"currency", "includes_product", "grants_badge"})
        ++ Upon({"on"}, <<Skip, Pick("purchase")>>))
Price == Choice(Upon({"float", "int"}, <<Skip>>), Drop)
OnPurchase == Choice(Upon({"purchase"}, <<Skip, Call("offer_lifecycle")>>), Drop)
ParseOfferLifecycleBlock ==
    Block("offer_lifecycle", <<>>, Upon({"do"}, <<Skip, Pick("offer_action")>>))
OfferAction == Choice(Texts({"give_badge", "remove_badge", "start_story"}), Drop)
ParseOrderBump ==
    Block("order_bump", Named("order_bump"), Texts({"offer", "text_word"}) ++ Unknown)
ParseQuiz ==
    Block("quiz", Named("quiz"), Calls({"question"}) ++ Upon({"on"}, <<Skip, Pick("quiz_end")>>))
QuizEnd == Choice(Upon({"on_complete", "complete"}, <<Skip, Call("quiz_complete")>>), Drop)
ParseQuestion == Block("question", Named("question"), Calls({"answer"}))
ParseAnswer == Code(Named("answer") \o <<Pick("answer")>>, {}, {}, Ints({"add_score"}), <<>>)
ParseQuizOnComplete ==
    Block("quiz_complete", <<>>, Upon({"if", "else_if", "else"}, <<Call("score_rule")>>))
ParseScoreRule ==
    Block("score_rule", <<Pick("score_test")>>, Upon({"do"}, <<Skip, Call("action_node")>>))
ScoreTest ==
    Choice(Upon({"else"}, <<Skip>>), <<Skip, Maybe({"score"}), Pick("comparison"), Integer>>)
Comparison == Choice(Upon(Compares \cup {"eqeq"}, <<Skip>>), Drop)
ParseActionNode ==
    Code(<<Pick("action_node")>>, {}, {},
         Texts({"give_badge", "remove_badge", "start_story", "jump_to_stage"}), <<Report, Skip, Return>>)

--------------------------------------------------------------------------------
(* Lessons and media *)

ParseModule ==
    Block("module", Named("module") \o <<Maybe({"string"})>>,
        Texts({"title"}) ++ Ints({"order"}) ++ Calls({"lesson"}) ++ Upon({"quiz"}, <<Call("lms_quiz")>>))
ParseLesson ==
    Block("lesson", Named("lesson") \o <<Maybe({"string"})>>,
        Texts({"title", "video_url", "content", "media_ref", "lms_duration", "duration_kw", "text_word"})
        ++ Ints({"order", "drip_days", "drip_hours", "drip_minutes"})
        ++ Upon({"draft", "is_draft", "is_free"}, <<Skip, Maybe({"bool"})>>)
        ++ Upon({"content_gen", "description_gen"}, <<Call("lms_content_gen")>>)
        ++ MaybeWords({"choice_word"}) ++ Unknown)
ParseLMSQuiz ==
    Block("lms_quiz", Named("quiz") \o <<Maybe({"string"})>>,
        Texts({"title"}) ++ Ints({"pass_threshold", "max_attempts"})
        ++ Upon({"question"}, <<Call("lms_question")>>))
ParseLMSQuestion ==
    Block("lms_question", Named("question") \o <<Maybe({"string"})>>,
        Upon({"type"}, <<Skip, Maybe(Word \cup {"multiple_choice", "short_answer"})>>)
        ++ Texts({"title"}) ++ Upon({"options"}, <<Skip, Call("strings")>>)
        ++ Upon({"answer"}, <<Skip, Maybe({"int", "string"})>>))
ParseLMSContentGen ==
    Block("lms_content_gen", <<Skip>>,
        Texts({"text_word"}) ++ Upon({"list_word", "reference"}, <<Skip, Call("strings")>>)
        ++ MaybeWords({"theme"}) ++ Unknown)
ParseDescriptionGen ==
    Block("description_gen", <<Expect("description_gen")>>,
        Texts({"text_word"}) ++ Upon({"list_word", "reference"}, <<Skip, Call("strings")>>) ++ Unknown)

ParseMediaDecl ==
    Block("media", Named("media"),
        Texts({"title", "description", "source_url", "poster_url", "player_preset", "text_word"})
        ++ MaybeWords({"type"}) ++ Upon({"tags"}, <<Skip, Loop("texts")>>)
        ++ Calls({"chapter", "turnstile", "cta", "annotation", "badge_rule"}))
MediaTexts == While(Upon({"string"}, <<Skip>>))
Times == Ints({"start_sec", "end_sec"})
ParseChapterDecl == Block("chapter", Named("chapter"), Times)
ParseTurnstileDecl ==
    Block("turnstile", <<Expect("turnstile")>>, Times ++ Upon({"required"}, <<Skip>>) ++ MaybeWords({"field"}))
ParseCTADecl == Block("cta", <<Expect("cta")>>, Times ++ Texts({"text_word"}))
ParseAnnotationDecl == Block("annotation", <<Expect("annotation")>>, Times ++ Texts({"text_word"}))
ParseBadgeRuleDecl ==
    Block("badge_rule", <<Expect("badge_rule")>>,
        MaybeWords({"choice_word"}) ++ Texts({"badge", "text_word"})
        ++ Upon({"operator"}, <<Skip, Maybe(Compares \cup {"string"})>>) ++ Ints({"threshold"})
        ++ MaybeFlags({"enabled"}) ++ Upon({"progress", "complete"}, <<Skip>>))
ParsePlayerPresetDecl ==
    Block("player_preset", Named("player_preset"),
        Texts({"player_color"}) ++ MaybeFlags({"autoplay", "flag_word"}) ++ MaybeWords({"choice_word"}))
ParseChannelDecl ==
    Block("channel", Named("channel"),
        Texts({"title", "description"}) ++ MaybeWords({"theme", "choice_word"})
        ++ Upon({"list_word"}, <<Skip, Loop("texts")>>))
ParseMediaWebhookDecl ==
    Block("media_webhook", Named("media_webhook"),
        Texts({"text_word"}) ++ Upon({"list_word"}, <<Skip, Loop("texts")>>) ++ MaybeFlags({"enabled"}))
================================================================================
