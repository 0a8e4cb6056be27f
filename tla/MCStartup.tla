------------------------------ MODULE MCStartup ------------------------------
(***************************************************************************)
(* A small instance of Startup: launchd's daemon and a command of the new  *)
(* binary, a daemon of an older binary started by hand, two migrations.    *)
(*                                                                         *)
(* config.yaml is written from what a person means - rules of conditions - *)
(* in three sound versions, and spoilt in every way the loader has a check *)
(* for.                                                                    *)
(***************************************************************************)
EXTENDS Startup, TLC

CONSTANTS d, old, c

MCKnows == (d :> {1, 2}) @@ (old :> {1}) @@ (c :> {1, 2})

MCStatements == <<<<"item", "index">>, <<"column">>>>

Scalar(text) == [kind |-> "scalar", text |-> text]
List(items) == [kind |-> "list", items |-> items]
Map(pairs) == [kind |-> "map", pairs |-> pairs]

MCIntOf == ("" :> 0) @@ ("0" :> 0) @@ ("5" :> 5) @@ ("-1" :> -1)
MCDurationOf == ("0s" :> 0) @@ ("2m" :> 120) @@ ("-1h" :> -3600)
MCBoolOf == ("" :> FALSE) @@ ("true" :> TRUE) @@ ("false" :> FALSE)
MCGlobs == {"", "*@ovh.com", "news@*"}
MCGlobFits == {<<"*@ovh.com", "billing@ovh.com">>, <<"news@*", "news@ovh.com">>,
               <<"*@ovh.com", "news@ovh.com">>}
MCMentions == {<<"Uw Factuur", "factuur">>, <<"Uw Factuur", "UW">>}

(* The documents to decide on. *)
MCDocuments ==
  [labels : {{"INBOX"}, {}, {"INBOX", "SPAM"}},
   from : {"billing@ovh.com", "news@ovh.com", "someone"},
   subject : {"Uw Factuur", "Hello"},
   pdf : BOOLEAN, image : BOOLEAN]

(* A rule as a person means it: a verdict and its conditions. *)
Means(verdict, conditions) == [verdict |-> verdict, conditions |-> conditions]

Intents ==
  ("none" :> [watch |-> "all", rules |-> <<>>])
  @@ ("news" :> [watch |-> "inbox", rules |->
        <<Means("deny", <<<<"from", "news@*">>, <<"has_no", "pdf">>>>),
          Means("match", <<<<"subject", "UW">>>>),
          Means("deny", <<<<"from", "*@ovh.com">>, <<"has", "image">>>>)>>])
  @@ ("lists" :> [watch |-> "all", rules |->
        <<Means("match", <<<<"list_unsubscribe", "true">>>>),
          Means("match", <<<<"has", "pdf">>, <<"list_unsubscribe", "false">>>>),
          Means("deny", <<>>)>>])

(* What the conditions say of a document that comes without the header. *)
Satisfies(doc, condition) ==
  LET value == condition[2] IN
  CASE condition[1] = "from"    -> <<value, doc.from>> \in GlobFits
    [] condition[1] = "subject" -> <<doc.subject, value>> \in Mentions
    [] condition[1] = "has"     -> doc[value]
    [] condition[1] = "has_no"  -> ~doc[value]
    [] condition[1] = "list_unsubscribe" -> value = "false"

Meant(intent, doc) ==
  LET rules == intent.rules
      Hits(i) == \A k \in DOMAIN rules[i].conditions : Satisfies(doc, rules[i].conditions[k])
  IN IF "SPAM" \in doc.labels \/ (intent.watch = "inbox" /\ "INBOX" \notin doc.labels)
       THEN "skipped"
     ELSE IF \E i \in DOMAIN rules : Hits(i)
       THEN LET first == CHOOSE i \in DOMAIN rules : Hits(i) /\ \A j \in 1..(i - 1) : ~Hits(j)
            IN IF rules[first].verdict = "match" THEN "queued" ELSE "denied"
     ELSE IF doc.pdf \/ doc.image \/ doc.subject = "Uw Factuur"
       THEN "queued" ELSE "no-match-dropped"

(* The text of an intent, and of one pair more in one place of it. *)
RuleText(rule) ==
  Map(<<<<rule.verdict,
          Map([k \in DOMAIN rule.conditions |->
                 <<rule.conditions[k][1], Scalar(rule.conditions[k][2])>>])>>>>)

Text(intent, inGmail, inRules, atTop) ==
  Map(<<<<"rules", List([i \in DOMAIN intent.rules |-> RuleText(intent.rules[i])] \o inRules)>>,
        <<"gmail", Map(<<<<"watch", Scalar(IF intent.watch = "inbox" THEN " Inbox" ELSE "all")>>,
                         <<"poll_interval", Scalar("0s")>>, <<"query_window_days", Scalar("")>>>>
                       \o inGmail)>>>> \o atTop)

InboxTexts == {"inbox", " Inbox"}

File(state, root) == [state |-> state, root |-> root]
Plain == Intents["news"]

(* Spoilt: one pair, or one rule, that must not be accepted. *)
Defects ==
  LET Gmail(key, text) == Text(Plain, <<<<key, Scalar(text)>>>>, <<>>, <<>>)
      Rule(pairs)      == Text(Plain, <<>>, <<Map(pairs)>>, <<>>)
      Top(key, node)   == Text(Plain, <<>>, <<>>, <<<<key, node>>>>)
      Sound            == Map(<<<<"subject", Scalar("Hello")>>>>)
  IN ("zero budget" :> Gmail("failure_budget", "0"))
     @@ ("blank attempts" :> Gmail("park_retry_attempts", ""))
     @@ ("negative cooldown" :> Gmail("park_retry_cooldown", "-1h"))
     @@ ("unknown setting" :> Gmail("failure_budgte", "5"))
     @@ ("no duration" :> Gmail("poll_interval", "soon"))
     @@ ("both verdicts" :> Rule(<<<<"match", Sound>>, <<"deny", Sound>>>>))
     @@ ("no verdict" :> Rule(<<>>))
     @@ ("unknown verdict" :> Rule(<<<<"allow", Sound>>>>))
     @@ ("bad glob" :> Rule(<<<<"match", Map(<<<<"from", Scalar("[")>>>>)>>>>))
     @@ ("no such kind" :> Rule(<<<<"deny", Map(<<<<"has", Scalar("zip")>>>>)>>>>))
     @@ ("no boolean" :> Rule(<<<<"deny", Map(<<<<"list_unsubscribe", Scalar("maybe")>>>>)>>>>))
     @@ ("rule without map" :> Rule(<<<<"deny", Scalar("news@*")>>>>))
     @@ ("unknown key" :> Top("rule", List(<<>>)))
     @@ ("no list" :> Top("vendors", Map(<<<<"known_peppol", Scalar("*@x")>>>>)))
     @@ ("no integer" :> Top("retention_days", Scalar("a month")))
     @@ ("no port" :> Top("ui", Map(<<<<"port", List(<<>>)>>>>)))
     @@ ("no scalar" :> Top("default", List(<<>>)))
     @@ ("list of lists" :> Top("vendors", Map(<<<<"known_peppol", List(<<List(<<>>)>>)>>>>)))

Sound == DOMAIN Intents

MCContents ==
  [f \in Sound |-> IF f = "none" THEN File("absent", Nil)
                   ELSE File("text", Text(Intents[f], <<>>, <<>>, <<<<"retention_days", Scalar("0")>>>>))]
  @@ [f \in DOMAIN Defects |-> File("text", Defects[f])]
  @@ ("no yaml" :> File("unreadable", Nil))

MCFiles == DOMAIN MCContents

(* The texts are sound where nothing was spoilt, and a reader of them       *)
(* understands what was meant.                                              *)
ASSUME ReadAsMeant ==
  /\ {f \in MCFiles : SoundFile(MCContents[f])} = Sound
  /\ \A f \in Sound : \A doc \in MCDocuments : Verdict(MCContents[f], doc) = Meant(Intents[f], doc)
=============================================================================
