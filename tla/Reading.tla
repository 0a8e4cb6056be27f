------------------------------ MODULE Reading ------------------------------
(***************************************************************************)
(* How a person reads config.yaml, with no decoder in between: what it     *)
(* asks for, and whether it is without a defect.  This is what Settings is *)
(* measured against.                                                       *)
(***************************************************************************)
EXTENDS Settings

LOCAL INSTANCE FiniteSetsExt

(* Of a repeated key the last value counts. *)
KeysOf(node) == {node.pairs[i][1] : i \in DOMAIN node.pairs}

ValueOf(node, key) == node.pairs[Max({i \in DOMAIN node.pairs : node.pairs[i][1] = key})][2]

(* A condition of a rule, of a document without a List-Unsubscribe header.  *)
(* A blank sender or subject asks for nothing.                              *)
Holds(key, text, doc) ==
  CASE key = "from"             -> text = "" \/ <<text, doc.from>> \in GlobFits
    [] key = "subject"          -> text = "" \/ <<doc.subject, text>> \in Mentions
    [] key = "has"              -> HasAttachment(doc, text)
    [] key = "has_no"           -> ~HasAttachment(doc, text)
    [] key = "list_unsubscribe" -> ~BoolOf[text]

VerdictOf(rule) == CHOOSE key \in KeysOf(rule) : TRUE

Applies(rule, doc) ==
  LET conditions == ValueOf(rule, VerdictOf(rule))
  IN \A key \in KeysOf(conditions) : Holds(key, ValueOf(conditions, key).text, doc)

(* The first rule that applies decides.                                     *)
Written(rules, doc) ==
  LET hits == {i \in DOMAIN rules.items : Applies(rules.items[i], doc)}
  IN IF hits = {} THEN DefaultDecide(doc)
     ELSE IF VerdictOf(rules.items[Min(hits)]) = "match" THEN "queued" ELSE "denied"

(* What a file says of the rules and of the watch scope; nothing, if it has *)
(* no such key or is no text at all.                                        *)
Has(node, key) == key \in KeysOf(node)

RulesIn(file) ==
  IF file.state = "text" /\ Has(file.root, "rules") THEN ValueOf(file.root, "rules")
  ELSE [kind |-> "list", items |-> <<>>]

WatchIn(file) ==
  IF /\ file.state = "text" /\ Has(file.root, "gmail")
     /\ Has(ValueOf(file.root, "gmail"), "watch")
    THEN ValueOf(ValueOf(file.root, "gmail"), "watch").text ELSE "all"

Verdict(file, doc) ==
  LET watch == IF WatchIn(file) \in InboxSpellings THEN "inbox" ELSE "all"
  IN IF InScope(watch, doc.labels) THEN Written(RulesIn(file), doc) ELSE "skipped"
-----------------------------------------------------------------------------
(* A text without a defect: known keys only, and everywhere a value of the  *)
(* kind and the range that its key asks for (a string is any text, and an   *)
(* error is no text).                                                       *)
Readable(type, node) ==
  IF type = "strings"
    THEN node.kind = "list" /\ \A i \in DOMAIN node.items : node.items[i].kind = "scalar"
    ELSE /\ node.kind = "scalar"
         /\ type \in {"int", "count"} => node.text \in DOMAIN IntOf
         /\ type \in {"duration", "cooldown"} => node.text \in DOMAIN DurationOf
         /\ type = "count" => IntOf[node.text] > 0
         /\ type = "cooldown" => DurationOf[node.text] > 0
         /\ type = "bool" => node.text \in DOMAIN BoolOf
         /\ type = "string" => node.text # Invalid
         /\ type = "glob" => node.text \in Globs
         /\ type = "attachment" => node.text \in {"pdf", "image"}

SoundSection(node, types) ==
  /\ node.kind = "map" /\ KeysOf(node) \subseteq DOMAIN types
  /\ \A key \in KeysOf(node) : Readable(types[key], ValueOf(node, key))

SoundRule(node) ==
  /\ node.kind = "map"
  /\ \E verdict \in {"match", "deny"} :
       KeysOf(node) = {verdict} /\ SoundSection(ValueOf(node, verdict), MatcherTypes)

SoundTop(key, node) ==
  CASE key = "retention_days" -> Readable("int", node)
    [] key = "default"        -> Readable("string", node)
    [] key = "rules"          -> node.kind = "list" /\ \A i \in DOMAIN node.items : SoundRule(node.items[i])
    [] OTHER                  -> SoundSection(node, SectionTypes[key])

SoundText(root) ==
  /\ root.kind = "map" /\ KeysOf(root) \subseteq DOMAIN Default
  /\ \A key \in KeysOf(root) : SoundTop(key, ValueOf(root, key))

SoundFile(file) == file.state # "unreadable" /\ (file.state = "text" => SoundText(file.root))
-----------------------------------------------------------------------------
(* What a file says of the Gmail section.                                   *)
GmailIn(file) ==
  IF file.state = "text" /\ Has(file.root, "gmail") THEN ValueOf(file.root, "gmail")
  ELSE [kind |-> "map", pairs |-> <<>>]

(* The number it asks for under a key, as `meaning' reads its text.         *)
Asked(file, key, meaning) ==
  IF Has(GmailIn(file), key) THEN meaning[ValueOf(GmailIn(file), key).text] ELSE Default.gmail[key]

RetentionIn(file) ==
  IF file.state = "text" /\ Has(file.root, "retention_days")
    THEN IntOf[ValueOf(file.root, "retention_days").text] ELSE 30

BoundsAsWritten(file) ==
  LET now == InForce(Load(file))
  IN /\ now.budget     = Asked(file, "failure_budget", IntOf)           /\ now.budget > 0
     /\ now.pollBudget = Asked(file, "poll_failure_budget", IntOf)      /\ now.pollBudget > 0
     /\ now.attempts   = Asked(file, "park_retry_attempts", IntOf)      /\ now.attempts > 0
     /\ now.cooldown   = Asked(file, "park_retry_cooldown", DurationOf) /\ now.cooldown > 0
     /\ now.interval > 0
     /\ now.retentionDays = IF RetentionIn(file) = 0 THEN 30 ELSE RetentionIn(file)

(* The settings in force and the verdict on every document are those the    *)
(* file asks for, or the defaults where it asks for nothing.                *)
AsWritten(file, documents) ==
  /\ SoundFile(file)
  /\ BoundsAsWritten(file)
  /\ \A doc \in documents : Decision(Load(file), doc) = Verdict(file, doc)
=============================================================================
