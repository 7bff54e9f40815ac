------------------------------ MODULE ScriptParser ------------------------------
(* The recursive-descent parser of SentanylScript at work: the functions of   *)
(* ScriptGrammar that are in progress, each with what it still has to do, the *)
(* token the parser looks at, and what it knows of errors.                    *)
(*                                                                            *)
(* Tokens come as the parser asks for them: any token that a function in      *)
(* progress could tell from the others, and one that stands for the rest.     *)
EXTENDS ScriptGrammar, Integers, FiniteSets

CONSTANTS
    Roots,      \* functions the parser may be called with
    MaxCalls    \* bound on the functions in progress

Codes ==
    [script |-> Parse, default |-> ParseDefaultSender, links |-> ParseLinksBlock,
     pattern |-> ParsePatternDef, policy |-> ParsePolicyDef, params |-> Params,
     scenes |-> ParseScenesRange, data |-> ParseDataBlock, object |-> ParseDataObjectLiteral,
     value |-> DataValue, for_story |-> ParseForLoop("for_story", {"storyline"}),
     for_storyline |-> ParseForLoop("for_storyline", {"enactment", "use"}), source |-> ForSource,
     items |-> ForItems, scene_defaults |-> ParseSceneDefaults,
     enactment_defaults |-> ParseEnactmentDefaults, use |-> ParseUseStatement,
     arguments |-> UseArguments, argument |-> UseArgument, fields |-> ArgumentFields,
     field_of |-> ArgumentField, name |-> NameOrReturn, ident |-> IdentOrReturn,
     bool |-> ExpectBool, word |-> ExpectStringOrIdent, dot |-> ParseTriggerActionRef,
     number |-> NumberOrExpression, strings |-> ParseStringList,
     strings_or_one |-> ParseStringListOrSingle, vars |-> ParseVarsMap,
     story |-> ParseStory, storyline |-> ParseStoryline, enactment |-> ParseEnactment,
     scene |-> ParseScene, certificate |-> ParseCertificate, campaign |-> ParseCampaign,
     audience |-> ParseCampaignAudience, on_click |-> ParseCampaignOnClick,
     on |-> ParseTrigger, trigger_type |-> TriggerType, trigger_target |-> TriggerTarget,
     else |-> ElseActions, else_block |-> ElseBlock, action |-> ParseAction,
     retry |-> ParseRetryModifiers, up_to |-> UpTo, condition |-> ParseCondition,
     children |-> ConditionChildren, conditions |-> Conditions, chain |-> Chain({"and", "or"}),
     and_chain |-> Chain({"and"}), or_chain |-> Chain({"or"}), duration |-> ParseDuration,
     on_begin |-> ParseLifecycleBlock, on_complete |-> ParseOnCompleteBlock,
     on_fail |-> ParseOnFailBlock, storyline_end |-> ParseStorylineEndBlock,
     conditional_route |-> ParseConditionalRoute, required_badges |-> ParseRequiredBadges,
     funnel |-> ParseFunnel, route |-> ParseRoute, stage |-> ParseStage,
     lead_magnet |-> ParseLeadMagnet, page |-> ParsePage, block |-> ParseBlock,
     block_type |-> BlockType, form |-> ParseForm, form_type |-> FormType,
     field |-> ParseFormField, field_name |-> FieldName, ai |-> ParseAIContext,
     pdf |-> ParsePDFConfig, site |-> ParseSite, seo |-> ParseSEOBlock,
     navigation |-> ParseNavigationBlock, nav_links |-> ParseNavLinks,
     product |-> ParseProductDecl, course |-> ParseCourseDecl,
     course_certificate |-> ParseCourseCertConfig, offer |-> ParseOfferDecl, price |-> Price,
     purchase |-> OnPurchase, offer_lifecycle |-> ParseOfferLifecycleBlock,
     offer_action |-> OfferAction, order_bump |-> ParseOrderBump, quiz |-> ParseQuiz,
     quiz_end |-> QuizEnd, question |-> ParseQuestion, answer |-> ParseAnswer,
     quiz_complete |-> ParseQuizOnComplete, score_rule |-> ParseScoreRule,
     score_test |-> ScoreTest, comparison |-> Comparison, action_node |-> ParseActionNode,
     module |-> ParseModule, lesson |-> ParseLesson, lms_quiz |-> ParseLMSQuiz,
     lms_question |-> ParseLMSQuestion, lms_content_gen |-> ParseLMSContentGen,
     description_gen |-> ParseDescriptionGen, media |-> ParseMediaDecl, texts |-> MediaTexts,
     chapter |-> ParseChapterDecl, turnstile |-> ParseTurnstileDecl, cta |-> ParseCTADecl,
     annotation |-> ParseAnnotationDecl, badge_rule |-> ParseBadgeRuleDecl,
     player_preset |-> ParsePlayerPresetDecl, channel |-> ParseChannelDecl,
     media_webhook |-> ParseMediaWebhookDecl]

ASSUME ParserConstants == Roots \subseteq DOMAIN Codes

\* Identifiers, and the keywords that serve as names (isIdentLike).
Idents == {"ident", "text_word", "choice_word", "list_word", "flag_word", "unit"}
IdentLike ==
    Idents \cup
    {"links", "body", "subject", "order", "level", "priority", "template", "email", "route", "badge",
     "scene", "tags", "vars", "data", "domain", "field", "type", "page", "block", "form", "stage",
     "path", "length", "prompt", "required", "new", "pdf", "lead_magnet", "reference", "context",
     "global", "extend", "funnel", "product", "offer", "price", "currency", "question", "answer",
     "quiz", "score", "custom", "site", "seo", "navigation", "header", "footer", "theme", "title",
     "description", "module", "lesson", "video_url", "content", "draft", "instructor",
     "lms_duration", "is_free", "is_draft", "drip_days", "drip_hours", "content_gen",
     "description_gen", "pass_threshold", "max_attempts", "options", "multiple_choice",
     "short_answer", "certificate", "course_ref", "course", "duration_kw", "audience", "outcome",
     "tone", "default_media", "media", "player_preset", "channel", "chapter", "turnstile", "cta",
     "annotation", "badge_rule", "media_webhook", "media_ref", "start_sec", "end_sec",
     "threshold", "operator", "enabled", "progress", "complete", "play", "pause", "rewatch",
     "poster_url", "player_color", "drip_minutes"}
IsAmong(t, S) ==
    t \in S \/ (t \in Idents /\ "ident" \in S) \/ (t \in IdentLike /\ "name" \in S)

VARIABLES
    stack,    \* the functions in progress: which, and its instructions left
    tok,      \* the token the parser looks at
    failed,   \* an error was reported
    strange,  \* something that is no name was taken for one
    open,     \* braces taken and not closed, up to the first error
    seen      \* stacks at the head of a loop since a token was last taken

parserVars == <<stack, tok, failed, strange, open, seen>>

Depth == Len(stack)
Top == stack[Depth]
Now == Head(Top.todo)
It == CHOOSE a \in Now.arg : TRUE
Rest == Tail(Top.todo)
Does(op) == stack # <<>> /\ Top.todo # <<>> /\ Now.op = op
Resume(todo) == stack' = [stack EXCEPT ![Depth].todo = todo]
Leave == stack' = SubSeq(stack, 1, Depth - 1)

\* What a table says about the token.
Chosen(f) ==
    LET c == Codes[f] IN
    CASE tok \in DOMAIN c.table -> c.table[tok]
      [] tok \in Idents \ DOMAIN c.table /\ "ident" \in DOMAIN c.table -> c.table["ident"]
      [] tok \in IdentLike \ DOMAIN c.table /\ {"ident", "name"} \cap DOMAIN c.table = {"name"} -> c.table["name"]
      [] OTHER -> c.other
Continues(f) ==
    /\ tok # "eof" /\ tok \notin Codes[f].until
    /\ Codes[f].only = {} \/ IsAmong(tok, Codes[f].only)

\* The tokens that functions tell apart.
Args(items, ops) == UNION {items[n].arg : n \in {m \in DOMAIN items : items[m].op \in ops}}
All(c, ops) ==
    Args(c.items, ops) \cup Args(c.other, ops) \cup UNION {Args(c.table[t], ops) : t \in DOMAIN c.table}
Inner(codes, F) == F \cup UNION {All(codes[f], {"pick", "loop"}) : f \in F}
ToldApart(codes) ==
    LET own == [f \in DOMAIN codes |->
                  All(codes[f], {"expect", "maybe"}) \cup codes[f].until \cup DOMAIN codes[f].table]
        parts == [f \in DOMAIN codes |->
                    Inner(codes, Inner(codes, Inner(codes, Inner(codes, {f}))))]
    IN [f \in DOMAIN codes |->
          UNION {own[g] : g \in Inner(codes, UNION {parts[h] \cup All(codes[h], {"call"}) : h \in parts[f]})}]
Vocabulary == ToldApart(Codes)
Tokens(s) ==
    (UNION {Vocabulary[s[n].of] : n \in DOMAIN s} \ {"name"})
    \cup {"ident", "stray", "string", "lbrace", "rbrace", "eof"}

ParserTypeOK ==
    /\ Depth <= MaxCalls
    /\ \A n \in DOMAIN stack : stack[n].of \in DOMAIN Codes
    /\ failed \in BOOLEAN /\ strange \in BOOLEAN
    /\ failed \/ strange => open = 0
    /\ Does("call") \/ Does("pick") \/ Does("loop") => It \in DOMAIN Codes
    /\ Does("break") => Rest # <<>> /\ Head(Rest).op = "loop"

\* The tokens at which a function is called, if it is at some only.
Keywords(f) ==
    {t \in UNION {DOMAIN Codes[g].table : g \in DOMAIN Codes} :
       \E g \in DOMAIN Codes : t \in DOMAIN Codes[g].table /\ Head(Codes[g].table[t]) = Call(f)}

ParserInit ==
    /\ \E f \in Roots :
         /\ stack = <<[of |-> f, todo |-> Codes[f].items]>>
         /\ tok \in IF Keywords(f) = {} THEN Tokens(stack) ELSE Keywords(f)
    /\ failed = FALSE /\ strange = FALSE
    /\ open = 0
    /\ seen = {}

--------------------------------------------------------------------------------
\* advance: the end of the script is never passed.
Advance ==
    IF tok = "eof" THEN UNCHANGED <<tok, open, seen>>
    ELSE /\ tok' \in Tokens(stack')
         /\ open' = CASE failed \/ strange' -> 0 [] tok = "lbrace" -> open + 1 [] tok = "rbrace" -> open - 1
                      [] OTHER -> open
         /\ seen' = {}

Reporting == failed' = TRUE /\ open' = 0 /\ UNCHANGED <<tok, strange, seen>>
Quiet == UNCHANGED <<tok, failed, strange, open, seen>>

\* A token that is not the expected one stays where it is.
Expects ==
    /\ Does("expect") /\ Resume(Rest)
    /\ \/ IsAmong(tok, Now.arg) /\ UNCHANGED <<failed, strange>> /\ Advance
       \/ ~IsAmong(tok, Now.arg) /\ Reporting

Advances ==
    /\ Does("skip") \/ Does("take") \/ (Does("maybe") /\ IsAmong(tok, Now.arg))
    /\ strange' = (strange \/ (Now.op = "take" /\ ~IsAmong(tok, Word \cup {"eof"})))
    /\ Resume(Rest) /\ Advance
    /\ UNCHANGED failed

Passes == Does("maybe") /\ ~IsAmong(tok, Now.arg) /\ Resume(Rest) /\ Quiet
Reports == Does("report") /\ Resume(Rest) /\ Reporting
Picks == Does("pick") /\ Resume(Chosen(It) \o Rest) /\ Quiet

Loops ==
    /\ Does("loop")
    /\ \/ /\ Continues(It)
          /\ Resume(Chosen(It) \o Top.todo)
          /\ seen' = seen \cup {stack}
          /\ UNCHANGED <<tok, failed, strange, open>>
       \/ ~Continues(It) /\ Resume(Rest) /\ Quiet

\* The loop the break is in comes next.
Breaks == Does("break") /\ Resume(Tail(Rest)) /\ Quiet

CallsFunction ==
    /\ Does("call") /\ Depth < MaxCalls
    /\ stack' = Append([stack EXCEPT ![Depth].todo = Rest], [of |-> It, todo |-> Codes[It].items])
    /\ Quiet

Returns ==
    /\ stack # <<>>
    /\ Top.todo = <<>> \/ Does("return")
    /\ Leave /\ Quiet

ParserNext ==
    Expects \/ Advances \/ Passes \/ Reports \/ Picks \/ Loops \/ Breaks \/ CallsFunction \/ Returns

ParserSpec == ParserInit /\ [][ParserNext]_parserVars

--------------------------------------------------------------------------------
(* Properties *)

\* A script the parser has no error to report of closes the braces it opens, and
\* no others, as long as no brace was taken for a name.
WellBracketed == ~failed /\ ~strange => open >= 0 /\ (stack = <<>> => open = 0)

\* "Parsing continues even when errors are found" (scripting.go:45): no loop
\* comes back to its head with the same things to do and no token taken.
ParsingContinues == stack \notin seen

\* No loop but those over lists of strings and of links does.
OtherLoopsAdvance == stack \in seen => It \in {"strings", "nav_links"}
=============================================================================
