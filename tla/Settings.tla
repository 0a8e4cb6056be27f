------------------------------ MODULE Settings ------------------------------
(***************************************************************************)
(* internal/config, internal/rules and the watch scope of                  *)
(* internal/gmailwatch: from the text of config.yaml to the verdict on one *)
(* document.  Pure functions.                                              *)
(*                                                                         *)
(* A YAML node is [kind |-> "scalar", text], [kind |-> "list", items] or   *)
(* [kind |-> "map", pairs], the pairs <<key, node>> in the file's order.   *)
(* How a scalar's text reads as an integer, a duration or a boolean, which *)
(* globs compile, and which texts a glob or a phrase fits are constants    *)
(* (strconv, time.ParseDuration, path.Match and strings.Contains); a text  *)
(* outside a conversion's domain does not convert.                         *)
(***************************************************************************)
EXTENDS Integers, Sequences, FiniteSets

LOCAL INSTANCE FiniteSetsExt

CONSTANTS
  IntOf, DurationOf, BoolOf,   \* what the texts that convert stand for
  Globs,                       \* the texts that compile as a glob
  GlobFits,                    \* <<glob, From header>> that match
  Mentions,                    \* <<text, phrase>>: the phrase is in it, in any case
  InboxSpellings,              \* "inbox" in any case, with blanks around it
  Invalid,                     \* an error: no value
  Nil                          \* a *bool that is not set

ASSUME SettingsAssumption ==
  /\ \A text \in DOMAIN IntOf : IntOf[text] \in Int
  /\ \A text \in DOMAIN DurationOf : DurationOf[text] \in Int
  /\ \A text \in DOMAIN BoolOf : BoolOf[text] \in BOOLEAN
  /\ Nil \notin BOOLEAN
  /\ Invalid \notin Int /\ Invalid \notin BOOLEAN /\ Invalid \notin Globs \cup {"pdf", "image"}

-----------------------------------------------------------------------------
(* Decoding. *)

Converted(f, text) == IF text \in DOMAIN f THEN f[text] ELSE Invalid

(* The decoders of one scalar, by the type a key has in the file. *)
DecodeScalar(type, node) ==
  IF node.kind # "scalar" THEN Invalid
  ELSE CASE type = "string"     -> node.text
         [] type = "int"        -> Converted(IntOf, node.text)
         [] type = "bool"       -> Converted(BoolOf, node.text)
         [] type = "duration"   -> Converted(DurationOf, node.text)
         [] type = "glob"       -> IF node.text \in Globs THEN node.text ELSE Invalid
         [] type = "attachment" -> IF node.text \in {"pdf", "image"} THEN node.text ELSE Invalid

DecodeStringSlice(node) ==
  IF node.kind # "list" \/ \E i \in DOMAIN node.items : node.items[i].kind # "scalar"
    THEN Invalid
    ELSE [i \in DOMAIN node.items |-> node.items[i].text]

(* "count" and "cooldown" are the bounds that must be above zero (F-87).    *)
DecodeValue(type, node) ==
  LET base  == CASE type = "count" -> "int" [] type = "cooldown" -> "duration" [] OTHER -> type
      value == IF type = "strings" THEN DecodeStringSlice(node) ELSE DecodeScalar(base, node)
  IN IF base # type /\ value # Invalid /\ value <= 0 THEN Invalid ELSE value

(* A mapping with allowed keys only; of a repeated key, the last value.     *)
MappingPairs(node, allowed) ==
  IF node.kind # "map" THEN Invalid
  ELSE LET keys == {node.pairs[i][1] : i \in DOMAIN node.pairs}
           at(key) == {i \in DOMAIN node.pairs : node.pairs[i][1] = key}
       IN IF keys \subseteq allowed
            THEN [key \in keys |-> node.pairs[Max(at(key))][2]]
            ELSE Invalid

(* A section: its keys are those of `types', and what the file does not set *)
(* keeps its value in `current'.                                            *)
DecodeSection(node, types, current) ==
  LET pairs == MappingPairs(node, DOMAIN types)
      value == [key \in DOMAIN pairs |-> DecodeValue(types[key], pairs[key])]
  IN IF pairs = Invalid \/ \E key \in DOMAIN pairs : value[key] = Invalid
       THEN Invalid
       ELSE [key \in DOMAIN types |-> IF key \in DOMAIN pairs THEN value[key] ELSE current[key]]

SectionTypes ==
  [administration |-> [company_number |-> "string"],
   gmail |-> [watch |-> "string", query_window_days |-> "int", poll_interval |-> "duration",
              submitted_label |-> "string", failure_budget |-> "count",
              park_retry_cooldown |-> "cooldown", park_retry_attempts |-> "count",
              poll_failure_budget |-> "count"],
   vendors |-> [known_peppol |-> "strings"],
   upload |-> [max_concurrent |-> "int", min_interval |-> "duration"],
   ui |-> [port |-> "int"]]

MatcherTypes == [from |-> "glob", subject |-> "string", has |-> "attachment",
                 has_no |-> "attachment", list_unsubscribe |-> "bool"]

(* The zero Matcher. *)
Unset == [from |-> "", subject |-> "", has |-> "", has_no |-> "", list_unsubscribe |-> Nil]

(* Slip: with both, match wins.                                             *)
DecodeRuleEither(node) ==
  LET pairs == MappingPairs(node, {"match", "deny"})
  IN IF pairs = Invalid \/ DOMAIN pairs = {} THEN Invalid
     ELSE LET verdict == IF "match" \in DOMAIN pairs THEN "match" ELSE "deny"
              matcher == DecodeSection(pairs[verdict], MatcherTypes, Unset)
          IN IF matcher = Invalid THEN Invalid
             ELSE [verdict |-> verdict, matcher |-> matcher]

(* Exactly one of match and deny. *)
DecodeRule(node) ==
  LET pairs == MappingPairs(node, {"match", "deny"})
  IN IF pairs = Invalid \/ Cardinality(DOMAIN pairs) # 1 THEN Invalid
     ELSE LET verdict == CHOOSE key \in DOMAIN pairs : TRUE
              matcher == DecodeSection(pairs[verdict], MatcherTypes, Unset)
          IN IF matcher = Invalid THEN Invalid
             ELSE [verdict |-> verdict, matcher |-> matcher]

DecodeRules(node) ==
  IF node.kind # "list" THEN Invalid
  ELSE LET rules == [i \in DOMAIN node.items |-> DecodeRule(node.items[i])]
       IN IF \E i \in DOMAIN rules : rules[i] = Invalid THEN Invalid ELSE rules
-----------------------------------------------------------------------------
(* The whole file.  Durations are in seconds. *)
Default ==
  [administration |-> [company_number |-> ""],
   gmail |-> [watch |-> "all", query_window_days |-> 30, poll_interval |-> 300,
              submitted_label |-> "VH&Co/submitted", failure_budget |-> 3,
              park_retry_cooldown |-> 21600, park_retry_attempts |-> 3,
              poll_failure_budget |-> 3],
   vendors |-> [known_peppol |-> <<>>],
   retention_days |-> 30,
   upload |-> [max_concurrent |-> 1, min_interval |-> 2],
   ui |-> [port |-> 7391],
   rules |-> <<>>,
   default |-> ""]

DecodeTop(key, node) ==
  CASE key = "retention_days" -> DecodeScalar("int", node)
    [] key = "default"        -> DecodeScalar("string", node)
    [] key = "rules"          -> DecodeRules(node)
    [] OTHER                  -> DecodeSection(node, SectionTypes[key], Default[key])

(* One error anywhere and the file is refused as a whole. *)
Parse(root) ==
  LET pairs == MappingPairs(root, DOMAIN Default)
      value == [key \in DOMAIN pairs |-> DecodeTop(key, pairs[key])]
  IN IF pairs = Invalid \/ \E key \in DOMAIN pairs : value[key] = Invalid
       THEN Invalid
       ELSE [key \in DOMAIN Default |->
               IF key \in DOMAIN pairs THEN value[key] ELSE Default[key]]

(* A file is "absent", "empty", "unreadable" (no permission, or no YAML) or *)
(* holds a root node.                                                       *)
Load(file) ==
  CASE file.state \in {"absent", "empty"} -> Default
    [] file.state = "unreadable"          -> Invalid
    [] file.state = "text"                -> Parse(file.root)

(* What the daemon puts in place of a zero, or of anything not positive.    *)
InForce(settings) ==
  LET Positive(n, default) == IF n <= 0 THEN default ELSE n
      gmail == settings.gmail
  IN [watch         |-> IF gmail.watch \in InboxSpellings THEN "inbox" ELSE "all",
      label         |-> IF gmail.submitted_label = "" THEN Default.gmail.submitted_label
                        ELSE gmail.submitted_label,
      interval      |-> Positive(gmail.poll_interval, 300),
      budget        |-> Positive(gmail.failure_budget, 3),
      cooldown      |-> Positive(gmail.park_retry_cooldown, 21600),
      attempts      |-> Positive(gmail.park_retry_attempts, 3),
      pollBudget    |-> Positive(gmail.poll_failure_budget, 3),
      retentionDays |-> IF settings.retention_days = 0 THEN 30 ELSE settings.retention_days]
-----------------------------------------------------------------------------
(* Rules.  A document is [labels, from, subject, pdf, image], its message's *)
(* labels and headers and its own kind; processMessage passes the engine    *)
(* neither a body nor the List-Unsubscribe header, which leaves the one     *)
(* empty and the other FALSE.                                               *)

HasAttachment(doc, kind) == IF kind = "pdf" THEN doc.pdf ELSE doc.image

RuleMatches(m, doc) ==
  /\ m.from # "" => <<m.from, doc.from>> \in GlobFits
  /\ m.subject # "" => <<doc.subject, m.subject>> \in Mentions
  /\ m.has # "" => HasAttachment(doc, m.has)
  /\ m.has_no # "" => ~HasAttachment(doc, m.has_no)
  /\ m.list_unsubscribe # Nil => ~m.list_unsubscribe

DefaultKeywords == {"factuur", "invoice", "receipt", "creditnota", "rekening"}

DefaultDecide(doc) ==
  IF \/ doc.pdf
     \/ doc.image
     \/ \E keyword \in DefaultKeywords : <<doc.subject, keyword>> \in Mentions
    THEN "queued" ELSE "no-match-dropped"

(* First match wins. *)
Evaluate(rules, doc) ==
  LET hits == {i \in DOMAIN rules : RuleMatches(rules[i].matcher, doc)}
  IN IF hits = {} THEN DefaultDecide(doc)
     ELSE IF rules[Min(hits)].verdict = "match" THEN "queued" ELSE "denied"

InScope(watch, labels) ==
  /\ labels \cap {"SENT", "DRAFT", "TRASH", "SPAM"} = {}
  /\ watch = "inbox" => "INBOX" \in labels

(* What becomes of a document: its message is out of scope, or the engine's *)
(* decision.                                                                *)
Decision(settings, doc) ==
  IF InScope(InForce(settings).watch, doc.labels)
    THEN Evaluate(settings.rules, doc) ELSE "skipped"
=============================================================================
