---------------------------- MODULE StartupProofs ----------------------------
(***************************************************************************)
(* Theorems about Settings, for every text of config.yaml, every reading   *)
(* of scalars and every document: what is decided is what is written.      *)
(*                                                                         *)
(* And about Startup, for every set of processes, of binaries and of       *)
(* migrations.  The inductive invariant IInv has three parts: the types    *)
(* (ITypes), what the migrating processes know of the schema (IMigrations) *)
(* and who may disagree with session.token (ITokens).  A second one        *)
(* (IConfig) is about the files the daemons loaded; with the theorems      *)
(* about Settings it gives what running daemons decide.                    *)
(***************************************************************************)
EXTENDS Startup, FiniteSetTheorems, WellFoundedInduction, TLAPS

LOCAL INSTANCE FiniteSetsExt
-----------------------------------------------------------------------------
(* The lowest number of a rule that applies is the first rule that does.    *)
LEMMA FirstOf ==
  ASSUME NEW S \in SUBSET Nat, S # {}
  PROVE  Min(S) \in S /\ \A j \in S : Min(S) <= j
<1> DEFINE less == {p \in Nat \X Nat : p[1] < p[2]}
<1>1. IsWellFoundedOn(less, Nat)
  BY NatLessThanWellFounded DEF OpToRel
<1>2. \E x \in S : \A y \in S : <<y, x>> \notin less
  <2> HIDE DEF less
  <2> QED  BY <1>1, WFMin
<1>3. ASSUME NEW x \in S, NEW y \in S, <<y, x>> \notin less
      PROVE  x <= y
  BY <1>3
<1>4. \E x \in S : \A y \in S : x <= y
  <2> HIDE DEF less
  <2> QED  BY <1>2, <1>3
<1> QED  BY <1>4 DEF Min

(* An accepted mapping has allowed keys only, and their last values.        *)
LEMMA AcceptedMapping ==
  ASSUME NEW node, NEW allowed, MappingPairs(node, allowed) # Invalid
  PROVE  /\ node.kind = "map" /\ KeysOf(node) \subseteq allowed
         /\ MappingPairs(node, allowed) = [key \in KeysOf(node) |-> ValueOf(node, key)]
<1> QED  BY DEF MappingPairs, KeysOf, ValueOf

(* The texts of the conditions that are accepted, and what they become.     *)
LEMMA AcceptedCondition ==
  ASSUME NEW key \in DOMAIN MatcherTypes, NEW node, DecodeValue(MatcherTypes[key], node) # Invalid
  PROVE  /\ key \in {"from", "subject"} => DecodeValue(MatcherTypes[key], node) = node.text
         /\ key \in {"has", "has_no"} => /\ DecodeValue(MatcherTypes[key], node) = node.text
                                         /\ node.text \in {"pdf", "image"}
         /\ key = "list_unsubscribe" => /\ DecodeValue(MatcherTypes[key], node) = BoolOf[node.text]
                                        /\ node.text \in DOMAIN BoolOf
<1>1. CASE key = "from"
  BY <1>1 DEF MatcherTypes, DecodeValue, DecodeScalar
<1>2. CASE key = "subject"
  BY <1>2 DEF MatcherTypes, DecodeValue, DecodeScalar
<1>3. ASSUME key = "has" \/ key = "has_no"
      PROVE  DecodeValue(MatcherTypes[key], node) = node.text /\ node.text \in {"pdf", "image"}
  <2>1. MatcherTypes[key] = "attachment"
    BY <1>3 DEF MatcherTypes
  <2>2. DecodeValue("attachment", node) # Invalid
    BY <2>1
  <2> QED  BY <2>1, <2>2 DEF DecodeValue, DecodeScalar
<1>4. CASE key = "list_unsubscribe"
  BY <1>4 DEF MatcherTypes, DecodeValue, DecodeScalar, Converted
<1> QED  BY <1>1, <1>2, <1>3, <1>4 DEF MatcherTypes

(* An accepted section: every value set is one that is accepted, and what  *)
(* is not set stays as it was.                                              *)
LEMMA AcceptedSection ==
  ASSUME NEW node, NEW types, NEW current, DecodeSection(node, types, current) # Invalid
  PROVE  LET m == DecodeSection(node, types, current) IN
         /\ KeysOf(node) \subseteq DOMAIN types
         /\ \A key \in KeysOf(node) : /\ m[key] = DecodeValue(types[key], ValueOf(node, key))
                                      /\ m[key] # Invalid
         /\ \A key \in DOMAIN types \ KeysOf(node) : m[key] = current[key]
<1> DEFINE pairs == MappingPairs(node, DOMAIN types)
           value == [key \in DOMAIN pairs |-> DecodeValue(types[key], pairs[key])]
           m == DecodeSection(node, types, current)
<1>1. /\ pairs # Invalid
      /\ \A key \in DOMAIN pairs : value[key] # Invalid
      /\ m = [key \in DOMAIN types |-> IF key \in DOMAIN pairs THEN value[key] ELSE current[key]]
  <2> HIDE DEF pairs
  <2> QED  BY DEF DecodeSection, pairs
<1>2. KeysOf(node) \subseteq DOMAIN types /\ pairs = [key \in KeysOf(node) |-> ValueOf(node, key)]
  BY <1>1, AcceptedMapping
<1>3. \A key \in KeysOf(node) : value[key] = DecodeValue(types[key], ValueOf(node, key))
  <2> HIDE DEF pairs
  <2> QED  BY <1>2
<1>4. DOMAIN pairs = KeysOf(node)
  <2> HIDE DEF pairs
  <2> QED  BY <1>2
<1> HIDE DEF pairs, value, m
<1> QED  BY <1>1, <1>2, <1>3, <1>4 DEF m

(* A decoded matcher holds exactly where the conditions as written hold.    *)
LEMMA MatcherSays ==
  ASSUME NEW node, DecodeSection(node, MatcherTypes, Unset) # Invalid, NEW doc
  PROVE  RuleMatches(DecodeSection(node, MatcherTypes, Unset), doc)
           <=> \A key \in KeysOf(node) : Holds(key, ValueOf(node, key).text, doc)
<1> DEFINE m == DecodeSection(node, MatcherTypes, Unset)
           text(key) == ValueOf(node, key).text
           IsMet(key) == key \in KeysOf(node) => Holds(key, text(key), doc)
<1>0. DOMAIN MatcherTypes = {"from", "subject", "has", "has_no", "list_unsubscribe"}
  BY DEF MatcherTypes
<1>1. /\ KeysOf(node) \subseteq DOMAIN MatcherTypes
      /\ \A key \in KeysOf(node) : /\ m[key] = DecodeValue(MatcherTypes[key], ValueOf(node, key))
                                   /\ DecodeValue(MatcherTypes[key], ValueOf(node, key)) # Invalid
      /\ \A key \in DOMAIN MatcherTypes \ KeysOf(node) : m[key] = Unset[key]
  <2> HIDE DEF m
  <2> QED  BY AcceptedSection DEF m
<1> HIDE DEF m
<1>2. (m.from # "" => <<m.from, doc.from>> \in GlobFits) <=> IsMet("from")
  <2>1. CASE "from" \in KeysOf(node)
    BY <1>0, <1>1, <2>1, AcceptedCondition DEF Holds
  <2>2. CASE "from" \notin KeysOf(node)
    BY <1>0, <1>1, <2>2 DEF Unset
  <2> QED  BY <2>1, <2>2
<1>3. (m.subject # "" => <<doc.subject, m.subject>> \in Mentions) <=> IsMet("subject")
  <2>1. CASE "subject" \in KeysOf(node)
    BY <1>0, <1>1, <2>1, AcceptedCondition DEF Holds
  <2>2. CASE "subject" \notin KeysOf(node)
    BY <1>0, <1>1, <2>2 DEF Unset
  <2> QED  BY <2>1, <2>2
<1>4. (m.has # "" => HasAttachment(doc, m.has)) <=> IsMet("has")
  <2>1. CASE "has" \in KeysOf(node)
    <3>1. m.has = text("has") /\ text("has") \in {"pdf", "image"}
      BY <1>0, <1>1, <2>1, AcceptedCondition
    <3>2. Holds("has", text("has"), doc) <=> HasAttachment(doc, text("has"))
      BY DEF Holds
    <3> QED  BY <2>1, <3>1, <3>2
  <2>2. CASE "has" \notin KeysOf(node)
    BY <1>0, <1>1, <2>2 DEF Unset
  <2> QED  BY <2>1, <2>2
<1>5. (m.has_no # "" => ~HasAttachment(doc, m.has_no)) <=> IsMet("has_no")
  <2>1. CASE "has_no" \in KeysOf(node)
    <3>1. m.has_no = text("has_no") /\ text("has_no") \in {"pdf", "image"}
      BY <1>0, <1>1, <2>1, AcceptedCondition
    <3>2. Holds("has_no", text("has_no"), doc) <=> ~HasAttachment(doc, text("has_no"))
      BY DEF Holds
    <3> QED  BY <2>1, <3>1, <3>2
  <2>2. CASE "has_no" \notin KeysOf(node)
    BY <1>0, <1>1, <2>2 DEF Unset
  <2> QED  BY <2>1, <2>2
<1>6. (m.list_unsubscribe # Nil => ~m.list_unsubscribe) <=> IsMet("list_unsubscribe")
  <2>1. CASE "list_unsubscribe" \in KeysOf(node)
    <3>1. m.list_unsubscribe = BoolOf[text("list_unsubscribe")] /\ text("list_unsubscribe") \in DOMAIN BoolOf
      BY <1>0, <1>1, <2>1, AcceptedCondition
    <3>2. Holds("list_unsubscribe", text("list_unsubscribe"), doc) <=> ~BoolOf[text("list_unsubscribe")]
      BY DEF Holds
    <3> QED  BY <2>1, <3>1, <3>2, SettingsAssumption
  <2>2. CASE "list_unsubscribe" \notin KeysOf(node)
    BY <1>0, <1>1, <2>2 DEF Unset
  <2> QED  BY <2>1, <2>2
<1>7. (\A key \in KeysOf(node) : Holds(key, text(key), doc))
        <=> IsMet("from") /\ IsMet("subject") /\ IsMet("has") /\ IsMet("has_no") /\ IsMet("list_unsubscribe")
  BY <1>0, <1>1
<1> HIDE DEF IsMet
<1> QED  BY <1>2, <1>3, <1>4, <1>5, <1>6, <1>7 DEF RuleMatches, m

(* A set of verdicts with one element.                                      *)
LEMMA OneVerdict ==
  ASSUME NEW S \in SUBSET {"match", "deny"}, Cardinality(S) = 1
  PROVE  \E verdict : S = {verdict}
<1>1. IsFiniteSet({"match"})
  BY FS_Singleton
<1>2. IsFiniteSet({"match"} \cup {"deny"})
  BY <1>1, FS_AddElement
<1>3. {"match"} \cup {"deny"} = {"match", "deny"}
  OBVIOUS
<1>4. IsFiniteSet(S)
  BY <1>2, <1>3, FS_Subset
<1> QED  BY <1>4, FS_Singleton

LEMMA RuleSays ==
  ASSUME NEW node, DecodeRule(node) # Invalid, NEW doc
  PROVE  /\ DecodeRule(node).verdict = VerdictOf(node)
         /\ RuleMatches(DecodeRule(node).matcher, doc) <=> Applies(node, doc)
<1> DEFINE pairs == MappingPairs(node, {"match", "deny"})
           verdict == CHOOSE key \in DOMAIN pairs : TRUE
           matcher == DecodeSection(pairs[verdict], MatcherTypes, Unset)
<1>1. /\ pairs # Invalid /\ Cardinality(DOMAIN pairs) = 1 /\ matcher # Invalid
      /\ DecodeRule(node) = [verdict |-> verdict, matcher |-> matcher]
  <2> HIDE DEF matcher, verdict, pairs
  <2> QED  BY DEF DecodeRule, matcher, verdict, pairs
<1>2. KeysOf(node) \subseteq {"match", "deny"} /\ pairs = [key \in KeysOf(node) |-> ValueOf(node, key)]
  BY <1>1, AcceptedMapping
<1>3. DOMAIN pairs = KeysOf(node)
  <2> HIDE DEF pairs
  <2> QED  BY <1>2
<1>4. \E key : KeysOf(node) = {key}
  BY <1>1, <1>2, <1>3, OneVerdict
<1>5. verdict = VerdictOf(node) /\ verdict \in KeysOf(node)
  <2> HIDE DEF pairs
  <2> QED  BY <1>3, <1>4 DEF VerdictOf
<1>6. pairs[verdict] = ValueOf(node, VerdictOf(node))
  <2> HIDE DEF pairs, verdict
  <2> QED  BY <1>2, <1>5
<1>7. RuleMatches(matcher, doc) <=> Applies(node, doc)
  <2> HIDE DEF pairs, verdict
  <2> QED  BY <1>1, <1>6, MatcherSays DEF Applies
<1> HIDE DEF matcher, verdict, pairs
<1> QED  BY <1>1, <1>5, <1>7

(* F-26, F-27: for every text of the rules that is accepted and every       *)
(* document, the engine decides what a reader of the text would: the first  *)
(* rule all of whose written conditions hold, whatever order its conditions *)
(* are in and whatever keys it leaves out.                                  *)
THEOREM RulesSayWhatIsWritten ==
  ASSUME NEW node, DOMAIN node.items \subseteq Nat, DecodeRules(node) # Invalid, NEW doc
  PROVE  Evaluate(DecodeRules(node), doc) = Written(node, doc)
<1> DEFINE rules == [i \in DOMAIN node.items |-> DecodeRule(node.items[i])]
<1>1. DecodeRules(node) = rules /\ \A i \in DOMAIN rules : rules[i] # Invalid
  BY DEF DecodeRules
<1>2. \A i \in DOMAIN node.items : DecodeRule(node.items[i]) # Invalid
  BY <1>1
<1>3. \A i \in DOMAIN node.items : /\ rules[i].verdict = VerdictOf(node.items[i])
                                   /\ RuleMatches(rules[i].matcher, doc) <=> Applies(node.items[i], doc)
  BY <1>2, RuleSays
<1>4. DOMAIN rules = DOMAIN node.items
  OBVIOUS
<1> HIDE DEF rules
<1> DEFINE hits == {i \in DOMAIN rules : RuleMatches(rules[i].matcher, doc)}
<1>5. hits = {i \in DOMAIN node.items : Applies(node.items[i], doc)}
  BY <1>3, <1>4
<1>6. Evaluate(rules, doc) = IF hits = {} THEN DefaultDecide(doc)
                             ELSE IF rules[Min(hits)].verdict = "match" THEN "queued" ELSE "denied"
  BY DEF Evaluate, Min
<1>7. Written(node, doc) = IF hits = {} THEN DefaultDecide(doc)
                           ELSE IF VerdictOf(node.items[Min(hits)]) = "match" THEN "queued" ELSE "denied"
  BY <1>5 DEF Written
<1>8. hits # {} => rules[Min(hits)].verdict = VerdictOf(node.items[Min(hits)])
  <2>1. hits # {} => Min(hits) \in hits
    BY <1>4, FirstOf
  <2> QED  BY <1>3, <1>4, <2>1
<1> HIDE DEF hits
<1> QED  BY <1>1, <1>6, <1>7, <1>8

(* An accepted file: what it says of a key, or the default.                 *)
LEMMA AcceptedFile ==
  ASSUME NEW file, file.state = "text", Load(file) # Invalid
  PROVE  LET root == file.root IN
         /\ KeysOf(root) \subseteq DOMAIN Default
         /\ \A key \in KeysOf(root) : /\ Load(file)[key] = DecodeTop(key, ValueOf(root, key))
                                      /\ Load(file)[key] # Invalid
         /\ \A key \in DOMAIN Default \ KeysOf(root) : Load(file)[key] = Default[key]
<1> DEFINE root == file.root
           pairs == MappingPairs(root, DOMAIN Default)
           value == [key \in DOMAIN pairs |-> DecodeTop(key, pairs[key])]
<1>1. Load(file) = Parse(root)
  BY DEF Load
<1>2. /\ pairs # Invalid
      /\ \A key \in DOMAIN pairs : value[key] # Invalid
      /\ Load(file) = [key \in DOMAIN Default |-> IF key \in DOMAIN pairs THEN value[key] ELSE Default[key]]
  <2> HIDE DEF pairs, root
  <2> QED  BY <1>1 DEF Parse, pairs
<1>3. KeysOf(root) \subseteq DOMAIN Default /\ pairs = [key \in KeysOf(root) |-> ValueOf(root, key)]
  BY <1>2, AcceptedMapping
<1>4. \A key \in KeysOf(root) : value[key] = DecodeTop(key, ValueOf(root, key))
  <2> HIDE DEF pairs
  <2> QED  BY <1>3
<1>5. DOMAIN pairs = KeysOf(root)
  <2> HIDE DEF pairs
  <2> QED  BY <1>3
<1> HIDE DEF pairs, value
<1> QED  BY <1>2, <1>3, <1>4, <1>5

(* F-26 to F-29: whatever config.yaml holds, if it is accepted then every   *)
(* document is decided on as the file's rules and its watch scope say, or   *)
(* the defaults where it says nothing.                                      *)
THEOREM FilesSayWhatIsDecided ==
  ASSUME NEW file, file.state \in {"absent", "empty", "unreadable", "text"}, Load(file) # Invalid,
         RulesIn(file).kind = "list" => DOMAIN RulesIn(file).items \subseteq Nat, NEW doc
  PROVE  Decision(Load(file), doc) = Verdict(file, doc)
<1> DEFINE settings == Load(file)
<1>0. "rules" \in DOMAIN Default /\ "gmail" \in DOMAIN Default /\ Default.rules = <<>> /\ Default.gmail.watch = "all"
  BY DEF Default
<1>1. Evaluate(settings.rules, doc) = Written(RulesIn(file), doc)
  <2>1. CASE file.state = "text" /\ Has(file.root, "rules")
    <3>1. /\ settings.rules = DecodeTop("rules", RulesIn(file)) /\ settings.rules # Invalid
      BY <1>0, <2>1, AcceptedFile DEF Has, RulesIn
    <3>2. DecodeTop("rules", RulesIn(file)) = DecodeRules(RulesIn(file))
      BY DEF DecodeTop
    <3> HIDE DEF settings
    <3>3. RulesIn(file).kind = "list"
      BY <3>1, <3>2 DEF DecodeRules
    <3> QED  BY <3>1, <3>2, <3>3, RulesSayWhatIsWritten
  <2>2. CASE ~(file.state = "text" /\ Has(file.root, "rules"))
    <3>1. settings.rules = <<>>
      <4>1. CASE file.state = "text"
        BY <1>0, <2>2, <4>1, AcceptedFile DEF Has
      <4>2. CASE file.state # "text"
        BY <1>0, <4>2 DEF Load
      <4> QED  BY <4>1, <4>2
    <3>2. RulesIn(file).items = <<>>
      BY <2>2 DEF RulesIn
    <3> HIDE DEF settings
    <3>3. Evaluate(settings.rules, doc) = DefaultDecide(doc)
      BY <3>1 DEF Evaluate
    <3>4. Written(RulesIn(file), doc) = DefaultDecide(doc)
      BY <3>2 DEF Written
    <3> QED  BY <3>3, <3>4
  <2> QED  BY <2>1, <2>2
<1>2. settings.gmail.watch = WatchIn(file)
  <2>1. CASE file.state = "text" /\ Has(file.root, "gmail")
    <3> DEFINE node == ValueOf(file.root, "gmail")
    <3>1. settings.gmail = DecodeTop("gmail", node) /\ settings.gmail # Invalid
      BY <1>0, <2>1, AcceptedFile DEF Has
    <3>2. DecodeTop("gmail", node) = DecodeSection(node, SectionTypes.gmail, Default.gmail)
      BY DEF DecodeTop
    <3>3. SectionTypes.gmail.watch = "string" /\ "watch" \in DOMAIN SectionTypes.gmail
      BY DEF SectionTypes
    <3> HIDE DEF settings, node
    <3>4. CASE Has(node, "watch")
      <4>1. settings.gmail.watch = DecodeValue("string", ValueOf(node, "watch")) /\ settings.gmail.watch # Invalid
        BY <3>1, <3>2, <3>3, <3>4, AcceptedSection DEF Has
      <4>2. settings.gmail.watch = ValueOf(node, "watch").text
        BY <4>1 DEF DecodeValue, DecodeScalar
      <4> QED  BY <2>1, <3>4, <4>2 DEF WatchIn, node
    <3>5. CASE ~Has(node, "watch")
      <4>1. settings.gmail.watch = Default.gmail.watch
        BY <3>1, <3>2, <3>3, <3>5, AcceptedSection DEF Has
      <4> QED  BY <1>0, <3>5, <4>1 DEF WatchIn, node
    <3> QED  BY <3>4, <3>5
  <2>2. CASE ~(file.state = "text" /\ Has(file.root, "gmail"))
    <3>1. settings.gmail = Default.gmail
      <4>1. CASE file.state = "text"
        BY <1>0, <2>2, <4>1, AcceptedFile DEF Has
      <4>2. CASE file.state # "text"
        BY <1>0, <4>2 DEF Load
      <4> QED  BY <4>1, <4>2
    <3> QED  BY <1>0, <2>2, <3>1 DEF WatchIn
  <2> QED  BY <2>1, <2>2
<1>3. InForce(settings).watch = IF WatchIn(file) \in InboxSpellings THEN "inbox" ELSE "all"
  <2> HIDE DEF settings
  <2> QED  BY <1>2 DEF InForce
<1> HIDE DEF settings
<1> QED  BY <1>1, <1>3 DEF Verdict, Decision, settings
-----------------------------------------------------------------------------
(* The scalar and list types.                                               *)
Types == {"string", "strings", "int", "count", "duration", "cooldown", "bool", "glob", "attachment"}

(* What is accepted as a value is readable as one.                          *)
LEMMA AcceptedValue ==
  ASSUME NEW type \in Types, NEW node, DecodeValue(type, node) # Invalid
  PROVE  /\ Readable(type, node)
         /\ type = "count" => DecodeValue(type, node) = IntOf[node.text]
         /\ type = "cooldown" => DecodeValue(type, node) = DurationOf[node.text]
         /\ type = "duration" => DecodeValue(type, node) = DurationOf[node.text]
<1>1. CASE type = "strings"
  BY <1>1 DEF DecodeValue, DecodeStringSlice, Readable
<1>2. CASE type = "count"
  <2>1. DecodeScalar("int", node) # Invalid /\ ~(DecodeScalar("int", node) <= 0)
        /\ DecodeValue(type, node) = DecodeScalar("int", node)
    BY <1>2 DEF DecodeValue
  <2>2. node.kind = "scalar" /\ node.text \in DOMAIN IntOf
        /\ DecodeScalar("int", node) = IntOf[node.text]
    BY <2>1 DEF DecodeScalar, Converted
  <2>3. IntOf[node.text] \in Int
    BY <2>2, SettingsAssumption DEF SettingsAssumption
  <2>4. IntOf[node.text] > 0
    BY <2>1, <2>2, <2>3
  <2> QED  BY <1>2, <2>1, <2>2, <2>4 DEF Readable
<1>3. CASE type = "cooldown"
  <2>1. DecodeScalar("duration", node) # Invalid /\ ~(DecodeScalar("duration", node) <= 0)
        /\ DecodeValue(type, node) = DecodeScalar("duration", node)
    BY <1>3 DEF DecodeValue
  <2>2. node.kind = "scalar" /\ node.text \in DOMAIN DurationOf
        /\ DecodeScalar("duration", node) = DurationOf[node.text]
    BY <2>1 DEF DecodeScalar, Converted
  <2>3. DurationOf[node.text] \in Int
    BY <2>2, SettingsAssumption DEF SettingsAssumption
  <2>4. DurationOf[node.text] > 0
    BY <2>1, <2>2, <2>3
  <2> QED  BY <1>3, <2>1, <2>2, <2>4 DEF Readable
<1>4. CASE type \in Types \ {"strings", "count", "cooldown"}
  <2>1. DecodeValue(type, node) = DecodeScalar(type, node)
    BY <1>4 DEF DecodeValue, Types
  <2>2. DecodeScalar(type, node) # Invalid
    BY <2>1
  <2>3. node.kind = "scalar"
    BY <2>2 DEF DecodeScalar
  <2>4. CASE type = "string"
    BY <2>2, <2>3, <2>4 DEF DecodeScalar, Readable
  <2>5. CASE type = "int"
    BY <2>2, <2>3, <2>5 DEF DecodeScalar, Converted, Readable
  <2>6. CASE type = "duration"
    BY <2>1, <2>2, <2>3, <2>6 DEF DecodeScalar, Converted, Readable
  <2>7. CASE type = "bool"
    BY <2>2, <2>3, <2>7 DEF DecodeScalar, Converted, Readable
  <2>8. CASE type = "glob"
    BY <2>2, <2>3, <2>8 DEF DecodeScalar, Readable
  <2>9. CASE type = "attachment"
    BY <2>2, <2>3, <2>9 DEF DecodeScalar, Readable
  <2> QED  BY <1>4, <2>4, <2>5, <2>6, <2>7, <2>8, <2>9 DEF Types
<1> QED  BY <1>1, <1>2, <1>3, <1>4

LEMMA AcceptedIsSound ==
  ASSUME NEW node, NEW types, \A key \in DOMAIN types : types[key] \in Types,
         NEW current, DecodeSection(node, types, current) # Invalid
  PROVE  SoundSection(node, types)
<1>1. KeysOf(node) \subseteq DOMAIN types
  BY AcceptedSection
<1>2. \A key \in KeysOf(node) : DecodeValue(types[key], ValueOf(node, key)) # Invalid
  BY AcceptedSection
<1>3. \A key \in KeysOf(node) : Readable(types[key], ValueOf(node, key))
  BY <1>1, <1>2, AcceptedValue
<1>4. MappingPairs(node, DOMAIN types) # Invalid
  BY DEF DecodeSection
<1>5. node.kind = "map"
  BY <1>4, AcceptedMapping
<1> QED  BY <1>1, <1>3, <1>5 DEF SoundSection

LEMMA AcceptedRule ==
  ASSUME NEW node, DecodeRule(node) # Invalid
  PROVE  SoundRule(node)
<1> DEFINE pairs == MappingPairs(node, {"match", "deny"})
           verdict == CHOOSE key \in DOMAIN pairs : TRUE
<1>1. pairs # Invalid /\ Cardinality(DOMAIN pairs) = 1
      /\ DecodeSection(pairs[verdict], MatcherTypes, Unset) # Invalid
  <2> HIDE DEF pairs
  <2> QED  BY DEF DecodeRule, pairs
<1>2. node.kind = "map" /\ KeysOf(node) \subseteq {"match", "deny"}
      /\ pairs = [key \in KeysOf(node) |-> ValueOf(node, key)]
  BY <1>1, AcceptedMapping
<1> HIDE DEF pairs
<1>3. DOMAIN pairs = KeysOf(node)
  BY <1>2
<1>4. PICK v : KeysOf(node) = {v}
  BY <1>1, <1>2, <1>3, OneVerdict
<1>5. verdict = v /\ v \in {"match", "deny"} /\ pairs[v] = ValueOf(node, v)
  BY <1>2, <1>3, <1>4
<1>6. \A key \in DOMAIN MatcherTypes : MatcherTypes[key] \in Types
  BY DEF MatcherTypes, Types
<1>7. DecodeSection(ValueOf(node, v), MatcherTypes, Unset) # Invalid
  BY <1>1, <1>5
<1>8. SoundSection(ValueOf(node, v), MatcherTypes)
  BY <1>6, <1>7, AcceptedIsSound
<1> QED  BY <1>2, <1>4, <1>5, <1>8 DEF SoundRule

(* F-29, config.go:10-14: a file with a defect anywhere in it is refused as *)
(* a whole (but what a later value of the same key replaces is not looked   *)
(* at).                                                                     *)
THEOREM DefectsAreRefused ==
  ASSUME NEW file, file.state \in {"absent", "empty", "unreadable", "text"}, ~SoundFile(file)
  PROVE  Load(file) = Invalid
<1> SUFFICES ASSUME Load(file) # Invalid PROVE FALSE
  OBVIOUS
<1>1. file.state # "unreadable"
  BY DEF Load
<1>2. CASE file.state = "text"
  <2> DEFINE root == file.root
  <2>1. /\ KeysOf(root) \subseteq DOMAIN Default
        /\ \A key \in KeysOf(root) : DecodeTop(key, ValueOf(root, key)) # Invalid
    BY <1>2, AcceptedFile
  <2>2. root.kind = "map"
    <3>1. MappingPairs(root, DOMAIN Default) # Invalid
      BY <1>2 DEF Load, Parse
    <3> QED  BY <3>1, AcceptedMapping
  <2>3. ASSUME NEW key \in KeysOf(root)
        PROVE  SoundTop(key, ValueOf(root, key))
    <3> DEFINE node == ValueOf(root, key)
    <3>1. DecodeTop(key, node) # Invalid /\ key \in DOMAIN Default
      BY <2>1
    <3> HIDE DEF node
    <3>2. CASE key = "retention_days"
      <4>1. DecodeScalar("int", node) # Invalid
        BY <3>1, <3>2 DEF DecodeTop
      <4> QED  BY <3>2, <4>1 DEF DecodeScalar, Converted, SoundTop, Readable, node
    <3>3. CASE key = "default"
      <4>1. DecodeScalar("string", node) # Invalid
        BY <3>1, <3>3 DEF DecodeTop
      <4> QED  BY <3>3, <4>1 DEF DecodeScalar, SoundTop, Readable, node
    <3>4. CASE key = "rules"
      <4>1. DecodeRules(node) # Invalid
        BY <3>1, <3>4 DEF DecodeTop
      <4>2. node.kind = "list" /\ \A i \in DOMAIN node.items : DecodeRule(node.items[i]) # Invalid
        BY <4>1 DEF DecodeRules
      <4> QED  BY <3>4, <4>2, AcceptedRule DEF SoundTop, node
    <3>5. CASE key \in DOMAIN SectionTypes
      <4>1. \A section \in DOMAIN SectionTypes :
              \A k \in DOMAIN SectionTypes[section] : SectionTypes[section][k] \in Types
        BY DEF SectionTypes, Types
      <4>2. key \notin {"retention_days", "default", "rules"}
        BY <3>5 DEF SectionTypes
      <4>3. DecodeSection(node, SectionTypes[key], Default[key]) # Invalid
        BY <3>1, <4>2 DEF DecodeTop
      <4>4. SoundSection(node, SectionTypes[key])
        BY <3>5, <4>1, <4>3, AcceptedIsSound
      <4> QED  BY <4>2, <4>4 DEF SoundTop, node
    <3>6. key \in {"retention_days", "default", "rules"} \/ key \in DOMAIN SectionTypes
      BY <3>1 DEF Default, SectionTypes
    <3> QED  BY <3>2, <3>3, <3>4, <3>5, <3>6
  <2> QED  BY <1>2, <2>1, <2>2, <2>3 DEF SoundFile, SoundText
<1> QED  BY <1>1, <1>2 DEF SoundFile

(* The other way round: what has no defect is accepted.  An error is no     *)
(* number, truth value, glob or kind of attachment (SettingsAssumption), no *)
(* text (Readable), and here no list or record either.                      *)
NoFunction(v) == v # [x \in DOMAIN v |-> v[x]]

LEMMA ReadableIsDecoded ==
  ASSUME NoFunction(Invalid), NEW type \in Types, NEW node, Readable(type, node)
  PROVE  DecodeValue(type, node) # Invalid
<1>1. CASE type = "strings"
  <2> DEFINE texts == [i \in DOMAIN node.items |-> node.items[i].text]
  <2>1. DecodeValue(type, node) = texts
    BY <1>1 DEF DecodeValue, DecodeStringSlice, Readable
  <2>2. texts = [x \in DOMAIN texts |-> texts[x]]
    OBVIOUS
  <2> HIDE DEF texts
  <2> QED  BY <2>1, <2>2 DEF NoFunction
<1>2. ASSUME NEW f, NEW base, node.kind = "scalar", node.text \in DOMAIN f, f[node.text] \in Int,
             DecodeScalar(base, node) = Converted(f, node.text)
      PROVE  DecodeScalar(base, node) = f[node.text] /\ DecodeScalar(base, node) # Invalid
  BY <1>2, SettingsAssumption DEF Converted, SettingsAssumption
<1>3. CASE type \in {"int", "count"}
  <2>1. node.kind = "scalar" /\ node.text \in DOMAIN IntOf /\ (type = "count" => IntOf[node.text] > 0)
    BY <1>3 DEF Readable
  <2>2. IntOf[node.text] \in Int
    BY <2>1, SettingsAssumption DEF SettingsAssumption
  <2>3. DecodeScalar("int", node) = Converted(IntOf, node.text)
    BY <2>1 DEF DecodeScalar
  <2>4. DecodeScalar("int", node) = IntOf[node.text] /\ DecodeScalar("int", node) # Invalid
    BY <1>2, <2>1, <2>2, <2>3
  <2>5. DecodeValue("int", node) = DecodeScalar("int", node)
    BY DEF DecodeValue
  <2>6. DecodeValue("count", node) =
          IF DecodeScalar("int", node) # Invalid /\ DecodeScalar("int", node) <= 0
            THEN Invalid ELSE DecodeScalar("int", node)
    BY DEF DecodeValue
  <2> QED  BY <1>3, <2>1, <2>2, <2>4, <2>5, <2>6
<1>4. CASE type \in {"duration", "cooldown"}
  <2>1. node.kind = "scalar" /\ node.text \in DOMAIN DurationOf
        /\ (type = "cooldown" => DurationOf[node.text] > 0)
    BY <1>4 DEF Readable
  <2>2. DurationOf[node.text] \in Int
    BY <2>1, SettingsAssumption DEF SettingsAssumption
  <2>3. DecodeScalar("duration", node) = Converted(DurationOf, node.text)
    BY <2>1 DEF DecodeScalar
  <2>4. DecodeScalar("duration", node) = DurationOf[node.text] /\ DecodeScalar("duration", node) # Invalid
    BY <1>2, <2>1, <2>2, <2>3
  <2>5. DecodeValue("duration", node) = DecodeScalar("duration", node)
    BY DEF DecodeValue
  <2>6. DecodeValue("cooldown", node) =
          IF DecodeScalar("duration", node) # Invalid /\ DecodeScalar("duration", node) <= 0
            THEN Invalid ELSE DecodeScalar("duration", node)
    BY DEF DecodeValue
  <2> QED  BY <1>4, <2>1, <2>2, <2>4, <2>5, <2>6
<1>5. CASE type \in {"string", "bool", "glob", "attachment"}
  <2>1. DecodeValue(type, node) = DecodeScalar(type, node) /\ node.kind = "scalar"
    BY <1>5 DEF DecodeValue, Readable
  <2>2. CASE type = "string"
    BY <2>1, <2>2 DEF DecodeScalar, Readable
  <2>3. CASE type = "bool"
    <3>1. node.text \in DOMAIN BoolOf /\ BoolOf[node.text] \in BOOLEAN
      BY <2>3, SettingsAssumption DEF Readable, SettingsAssumption
    <3>2. BoolOf[node.text] # Invalid
      BY <3>1, SettingsAssumption DEF SettingsAssumption
    <3> QED  BY <2>1, <2>3, <3>1, <3>2 DEF DecodeScalar, Converted
  <2>4. CASE type = "glob"
    BY <2>1, <2>4, SettingsAssumption DEF DecodeScalar, Readable, SettingsAssumption
  <2>5. CASE type = "attachment"
    BY <2>1, <2>5, SettingsAssumption DEF DecodeScalar, Readable, SettingsAssumption
  <2> QED  BY <1>5, <2>2, <2>3, <2>4, <2>5
<1> QED  BY <1>1, <1>3, <1>4, <1>5 DEF Types

LEMMA MappingIsAccepted ==
  ASSUME NoFunction(Invalid), NEW node, NEW allowed, node.kind = "map", KeysOf(node) \subseteq allowed
  PROVE  /\ MappingPairs(node, allowed) # Invalid
         /\ MappingPairs(node, allowed) = [key \in KeysOf(node) |-> ValueOf(node, key)]
<1> DEFINE pairs == [key \in KeysOf(node) |-> ValueOf(node, key)]
<1>1. MappingPairs(node, allowed) = pairs
  BY DEF MappingPairs, KeysOf, ValueOf
<1>2. pairs = [x \in DOMAIN pairs |-> pairs[x]]
  OBVIOUS
<1> HIDE DEF pairs
<1>3. pairs # Invalid
  BY <1>2 DEF NoFunction
<1> QED  BY <1>1, <1>3 DEF pairs

LEMMA SectionIsAccepted ==
  ASSUME NoFunction(Invalid), NEW node, NEW types, \A key \in DOMAIN types : types[key] \in Types,
         NEW current, SoundSection(node, types)
  PROVE  DecodeSection(node, types, current) # Invalid
<1> DEFINE pairs == MappingPairs(node, DOMAIN types)
           value == [key \in DOMAIN pairs |-> DecodeValue(types[key], pairs[key])]
           section == [key \in DOMAIN types |-> IF key \in DOMAIN pairs THEN value[key] ELSE current[key]]
<1>1. pairs # Invalid /\ pairs = [key \in KeysOf(node) |-> ValueOf(node, key)]
  BY MappingIsAccepted DEF SoundSection
<1>2. ASSUME NEW key \in DOMAIN pairs PROVE value[key] # Invalid
  <2>1. key \in KeysOf(node) /\ pairs[key] = ValueOf(node, key)
    <3> HIDE DEF pairs
    <3> QED  BY <1>1
  <2>2. DecodeValue(types[key], ValueOf(node, key)) # Invalid
    BY <2>1, ReadableIsDecoded DEF SoundSection
  <2> HIDE DEF pairs
  <2> QED  BY <2>1, <2>2
<1>3. section = [x \in DOMAIN section |-> section[x]]
  OBVIOUS
<1>4. DecodeSection(node, types, current) = section
  <2>1. \A key \in DOMAIN pairs : value[key] # Invalid
    BY <1>2
  <2>2. DecodeSection(node, types, current) =
          IF pairs = Invalid \/ \E key \in DOMAIN pairs : value[key] = Invalid THEN Invalid ELSE section
    BY DEF DecodeSection
  <2> HIDE DEF pairs, value, section
  <2> QED  BY <1>1, <2>1, <2>2
<1> HIDE DEF section
<1> QED  BY <1>3, <1>4 DEF NoFunction

LEMMA RuleIsAccepted ==
  ASSUME NoFunction(Invalid), NEW node, SoundRule(node)
  PROVE  DecodeRule(node) # Invalid
<1> DEFINE pairs == MappingPairs(node, {"match", "deny"})
           verdict == CHOOSE key \in DOMAIN pairs : TRUE
           matcher == DecodeSection(pairs[verdict], MatcherTypes, Unset)
           rule == [verdict |-> verdict, matcher |-> matcher]
<1>1. PICK v \in {"match", "deny"} : KeysOf(node) = {v} /\ SoundSection(ValueOf(node, v), MatcherTypes)
  BY DEF SoundRule
<1>2. pairs # Invalid /\ pairs = [key \in KeysOf(node) |-> ValueOf(node, key)]
  BY <1>1, MappingIsAccepted DEF SoundRule
<1>3. DOMAIN pairs = {v} /\ pairs[v] = ValueOf(node, v)
  <2> HIDE DEF pairs
  <2> QED  BY <1>1, <1>2
<1>4. Cardinality(DOMAIN pairs) = 1 /\ verdict = v
  <2> HIDE DEF pairs
  <2> QED  BY <1>3, FS_Singleton
<1>5. \A key \in DOMAIN MatcherTypes : MatcherTypes[key] \in Types
  BY DEF MatcherTypes, Types
<1>6. matcher # Invalid
  <2>1. DecodeSection(ValueOf(node, v), MatcherTypes, Unset) # Invalid
    BY <1>1, <1>5, SectionIsAccepted
  <2> HIDE DEF pairs, verdict
  <2> QED  BY <1>3, <1>4, <2>1
<1>7. DecodeRule(node) = rule
  <2>1. DecodeRule(node) = IF pairs = Invalid \/ Cardinality(DOMAIN pairs) # 1 THEN Invalid
                           ELSE IF matcher = Invalid THEN Invalid ELSE rule
    BY DEF DecodeRule
  <2> HIDE DEF pairs, matcher, rule
  <2> QED  BY <1>2, <1>4, <1>6, <2>1
<1> HIDE DEF verdict, matcher
<1>8. rule = [x \in DOMAIN rule |-> rule[x]]
  OBVIOUS
<1> HIDE DEF rule
<1> QED  BY <1>7, <1>8 DEF NoFunction

LEMMA RulesAreAccepted ==
  ASSUME NoFunction(Invalid), NEW node, node.kind = "list",
         \A i \in DOMAIN node.items : SoundRule(node.items[i])
  PROVE  DecodeRules(node) # Invalid
<1> DEFINE rules == [i \in DOMAIN node.items |-> DecodeRule(node.items[i])]
<1>1. \A i \in DOMAIN rules : rules[i] # Invalid
  BY RuleIsAccepted
<1>2. rules = [x \in DOMAIN rules |-> rules[x]]
  OBVIOUS
<1>3. DecodeRules(node) = IF \E i \in DOMAIN rules : rules[i] = Invalid THEN Invalid ELSE rules
  BY DEF DecodeRules
<1> HIDE DEF rules
<1> QED  BY <1>1, <1>2, <1>3 DEF NoFunction

(* A record, such as Default, is a function.                                *)
LEMMA SettingsRecord ==
  ASSUME NEW a, NEW b, NEW c, NEW e, NEW f, NEW g, NEW h, NEW i
  PROVE  LET r == [administration |-> a, gmail |-> b, vendors |-> c, retention_days |-> e,
                   upload |-> f, ui |-> g, rules |-> h, default |-> i]
         IN r = [x \in DOMAIN r |-> r[x]]
<1> QED  BY ZenonT(60)

(* A file without a defect is never refused (F-29 the other way round): the *)
(* loader's strictness costs nobody a sound file, whatever sections it      *)
(* leaves out, however often it repeats a key and in whatever order its     *)
(* keys come.                                                               *)
THEOREM SoundFilesAreAccepted ==
  ASSUME NoFunction(Invalid), NEW file, file.state \in {"absent", "empty", "unreadable", "text"},
         SoundFile(file)
  PROVE  Load(file) # Invalid
<1>0. Default = [x \in DOMAIN Default |-> Default[x]]
  <2>1. Default = [administration |-> Default.administration, gmail |-> Default.gmail,
                   vendors |-> Default.vendors, retention_days |-> Default.retention_days,
                   upload |-> Default.upload, ui |-> Default.ui, rules |-> Default.rules,
                   default |-> Default.default]
    BY DEF Default
  <2> QED  BY <2>1, SettingsRecord
<1>1. CASE file.state \in {"absent", "empty"}
  BY <1>0, <1>1 DEF Load, NoFunction
<1>2. CASE file.state = "text"
  <2> DEFINE root == file.root
             pairs == MappingPairs(root, DOMAIN Default)
             value == [key \in DOMAIN pairs |-> DecodeTop(key, pairs[key])]
             settings == [key \in DOMAIN Default |-> IF key \in DOMAIN pairs THEN value[key] ELSE Default[key]]
  <2>1. SoundText(root)
    BY <1>2 DEF SoundFile
  <2>2. pairs # Invalid /\ pairs = [key \in KeysOf(root) |-> ValueOf(root, key)]
    BY <2>1, MappingIsAccepted DEF SoundText
  <2>3. ASSUME NEW key \in KeysOf(root)
        PROVE  DecodeTop(key, ValueOf(root, key)) # Invalid
    <3> DEFINE node == ValueOf(root, key)
    <3>1. SoundTop(key, node) /\ key \in DOMAIN Default
      BY <2>1 DEF SoundText
    <3> HIDE DEF node
    <3>2. CASE key \in {"retention_days", "default"}
      <4> DEFINE type == IF key = "default" THEN "string" ELSE "int"
      <4>1. type \in Types /\ Readable(type, node)
        BY <3>1, <3>2 DEF SoundTop, Types
      <4>2. DecodeValue(type, node) # Invalid
        BY <4>1, ReadableIsDecoded
      <4>3. DecodeTop(key, node) = DecodeValue(type, node)
        BY <3>2 DEF DecodeTop, DecodeValue
      <4> QED  BY <4>2, <4>3 DEF node
    <3>3. CASE key = "rules"
      <4>1. node.kind = "list" /\ \A i \in DOMAIN node.items : SoundRule(node.items[i])
        BY <3>1, <3>3 DEF SoundTop
      <4>2. DecodeRules(node) # Invalid
        BY <4>1, RulesAreAccepted
      <4> QED  BY <3>3, <4>2 DEF DecodeTop, node
    <3>4. CASE key \in DOMAIN SectionTypes
      <4>1. \A section \in DOMAIN SectionTypes :
              \A k \in DOMAIN SectionTypes[section] : SectionTypes[section][k] \in Types
        BY DEF SectionTypes, Types
      <4>2. key \notin {"retention_days", "default", "rules"}
        BY <3>4 DEF SectionTypes
      <4>3. SoundSection(node, SectionTypes[key])
        BY <3>1, <4>2 DEF SoundTop
      <4>4. DecodeSection(node, SectionTypes[key], Default[key]) # Invalid
        BY <3>4, <4>1, <4>3, SectionIsAccepted
      <4> QED  BY <4>2, <4>4 DEF DecodeTop, node
    <3>5. key \in {"retention_days", "default", "rules"} \/ key \in DOMAIN SectionTypes
      BY <3>1 DEF Default, SectionTypes
    <3> QED  BY <3>2, <3>3, <3>4, <3>5
  <2>4. \A key \in DOMAIN pairs : value[key] # Invalid
    <3> HIDE DEF pairs
    <3> QED  BY <2>2, <2>3
  <2>5. Load(file) = IF pairs = Invalid \/ \E key \in DOMAIN pairs : value[key] = Invalid
                       THEN Invalid ELSE settings
    BY <1>2 DEF Load, Parse
  <2>6. settings = [x \in DOMAIN settings |-> settings[x]]
    OBVIOUS
  <2> HIDE DEF pairs, value, settings
  <2> QED  BY <2>2, <2>4, <2>5, <2>6 DEF NoFunction
<1>3. file.state # "unreadable"
  BY DEF SoundFile
<1> QED  BY <1>1, <1>2, <1>3

(* The Gmail settings of an accepted file are those asked for.              *)
LEMMA GmailSettings ==
  ASSUME NEW file, file.state \in {"absent", "empty", "unreadable", "text"}, Load(file) # Invalid
  PROVE  LET gmail == Load(file).gmail
             types == SectionTypes.gmail
             node  == GmailIn(file)
         IN \A key \in DOMAIN types :
              IF Has(node, key) THEN gmail[key] = DecodeValue(types[key], ValueOf(node, key)) /\ gmail[key] # Invalid
              ELSE gmail[key] = Default.gmail[key]
<1> DEFINE settings == Load(file)
           types == SectionTypes.gmail
<1>0. "gmail" \in DOMAIN Default
  BY DEF Default
<1>1. CASE file.state = "text" /\ Has(file.root, "gmail")
  <2> DEFINE node == ValueOf(file.root, "gmail")
  <2>1. settings.gmail = DecodeTop("gmail", node) /\ settings.gmail # Invalid
    BY <1>0, <1>1, AcceptedFile DEF Has
  <2>2. DecodeTop("gmail", node) = DecodeSection(node, types, Default.gmail)
    BY DEF DecodeTop
  <2>3. GmailIn(file) = node
    BY <1>1 DEF GmailIn
  <2> HIDE DEF settings, node, types
  <2>4. \A key \in DOMAIN types :
          IF Has(node, key)
            THEN settings.gmail[key] = DecodeValue(types[key], ValueOf(node, key)) /\ settings.gmail[key] # Invalid
            ELSE settings.gmail[key] = Default.gmail[key]
    BY <2>1, <2>2, AcceptedSection DEF Has
  <2> QED  BY <2>3, <2>4 DEF settings, types
<1>2. CASE ~(file.state = "text" /\ Has(file.root, "gmail"))
  <2>1. settings.gmail = Default.gmail
    <3>1. CASE file.state = "text"
      BY <1>0, <1>2, <3>1, AcceptedFile DEF Has
    <3>2. CASE file.state # "text"
      BY <1>0, <3>2 DEF Load
    <3> QED  BY <3>1, <3>2
  <2>2. \A key : ~Has(GmailIn(file), key)
    BY <1>2 DEF GmailIn, Has, KeysOf
  <2> HIDE DEF settings
  <2> QED  BY <2>1, <2>2 DEF settings
<1> QED  BY <1>1, <1>2

(* F-87: the bounds an accepted file asks for are in force as written, no   *)
(* default covers one of them up, and none is zero or less; nor is the      *)
(* interval of the poll, for which a default may stand in.                  *)
THEOREM BoundsAreInForce ==
  ASSUME NEW file, file.state \in {"absent", "empty", "unreadable", "text"}, Load(file) # Invalid
  PROVE  BoundsAsWritten(file)
<1> DEFINE gmail == Load(file).gmail
           Bound(key, meaning) == gmail[key] = Asked(file, key, meaning) /\ gmail[key] \in Int /\ gmail[key] > 0
<1>1. ASSUME NEW key \in {"failure_budget", "poll_failure_budget", "park_retry_attempts"}
      PROVE  Bound(key, IntOf)
  <2>1. key \in DOMAIN SectionTypes.gmail /\ SectionTypes.gmail[key] = "count" /\ "count" \in Types
        /\ Default.gmail[key] \in Int /\ Default.gmail[key] > 0
    BY DEF SectionTypes, Default, Types
  <2> DEFINE node == ValueOf(GmailIn(file), key)
  <2>2. CASE Has(GmailIn(file), key)
    <3>1. gmail[key] = DecodeValue("count", node) /\ gmail[key] # Invalid
      BY <2>1, <2>2, GmailSettings
    <3>2. Readable("count", node) /\ gmail[key] = IntOf[node.text]
      BY <2>1, <3>1, AcceptedValue
    <3>3. IntOf[node.text] \in Int /\ IntOf[node.text] > 0
      BY <3>2, SettingsAssumption DEF SettingsAssumption, Readable
    <3> HIDE DEF gmail
    <3> QED  BY <2>2, <3>2, <3>3 DEF Asked
  <2>3. CASE ~Has(GmailIn(file), key)
    <3>1. gmail[key] = Default.gmail[key]
      BY <2>1, <2>3, GmailSettings
    <3> HIDE DEF gmail
    <3> QED  BY <2>1, <2>3, <3>1 DEF Asked
  <2> QED  BY <2>2, <2>3
<1>2. Bound("park_retry_cooldown", DurationOf)
  <2>1. "park_retry_cooldown" \in DOMAIN SectionTypes.gmail
        /\ SectionTypes.gmail["park_retry_cooldown"] = "cooldown" /\ "cooldown" \in Types
        /\ Default.gmail["park_retry_cooldown"] \in Int /\ Default.gmail["park_retry_cooldown"] > 0
    BY DEF SectionTypes, Default, Types
  <2> DEFINE key == "park_retry_cooldown"
             node == ValueOf(GmailIn(file), key)
  <2>2. CASE Has(GmailIn(file), key)
    <3>1. gmail[key] = DecodeValue("cooldown", node) /\ gmail[key] # Invalid
      BY <2>1, <2>2, GmailSettings
    <3>2. Readable("cooldown", node) /\ gmail[key] = DurationOf[node.text]
      BY <2>1, <3>1, AcceptedValue
    <3>3. DurationOf[node.text] \in Int /\ DurationOf[node.text] > 0
      BY <3>2, SettingsAssumption DEF SettingsAssumption, Readable
    <3> HIDE DEF gmail
    <3> QED  BY <2>2, <3>2, <3>3 DEF Asked
  <2>3. CASE ~Has(GmailIn(file), key)
    <3>1. gmail[key] = Default.gmail[key]
      BY <2>1, <2>3, GmailSettings
    <3> HIDE DEF gmail
    <3> QED  BY <2>1, <2>3, <3>1 DEF Asked
  <2> QED  BY <2>2, <2>3
<1>3. gmail.poll_interval \in Int
  <2>1. "poll_interval" \in DOMAIN SectionTypes.gmail
        /\ SectionTypes.gmail["poll_interval"] = "duration" /\ "duration" \in Types
        /\ Default.gmail["poll_interval"] \in Int
    BY DEF SectionTypes, Default, Types
  <2> DEFINE key == "poll_interval"
             node == ValueOf(GmailIn(file), key)
  <2>2. CASE Has(GmailIn(file), key)
    <3>1. gmail[key] = DecodeValue("duration", node) /\ gmail[key] # Invalid
      BY <2>1, <2>2, GmailSettings
    <3>2. Readable("duration", node) /\ gmail[key] = DurationOf[node.text]
      BY <2>1, <3>1, AcceptedValue
    <3> QED  BY <3>2, SettingsAssumption DEF SettingsAssumption, Readable
  <2>3. CASE ~Has(GmailIn(file), key)
    BY <2>1, <2>3, GmailSettings
  <2> QED  BY <2>2, <2>3
<1>7. InForce(Load(file)).retentionDays = IF RetentionIn(file) = 0 THEN 30 ELSE RetentionIn(file)
  <2>0. "retention_days" \in DOMAIN Default /\ Default.retention_days = 30
    BY DEF Default
  <2>1. Load(file).retention_days = RetentionIn(file)
    <3>1. CASE file.state = "text" /\ Has(file.root, "retention_days")
      <4> DEFINE node == ValueOf(file.root, "retention_days")
      <4>1. Load(file).retention_days = DecodeTop("retention_days", node) /\ Load(file).retention_days # Invalid
        BY <2>0, <3>1, AcceptedFile DEF Has
      <4>2. DecodeTop("retention_days", node) = DecodeScalar("int", node)
        BY DEF DecodeTop
      <4>3. Load(file).retention_days = IntOf[node.text]
        BY <4>1, <4>2 DEF DecodeScalar, Converted
      <4> QED  BY <3>1, <4>3 DEF RetentionIn
    <3>2. CASE ~(file.state = "text" /\ Has(file.root, "retention_days"))
      <4>1. CASE file.state = "text"
        BY <2>0, <3>2, <4>1, AcceptedFile DEF Has, RetentionIn
      <4>2. CASE file.state # "text"
        BY <2>0, <4>2 DEF Load, RetentionIn
      <4> QED  BY <4>1, <4>2
    <3> QED  BY <3>1, <3>2
  <2> QED  BY <2>1 DEF InForce
<1>4. /\ Bound("failure_budget", IntOf) /\ Bound("poll_failure_budget", IntOf)
      /\ Bound("park_retry_attempts", IntOf)
  BY <1>1
<1>5. LET now == InForce(Load(file)) IN
      /\ now.budget = gmail.failure_budget /\ now.pollBudget = gmail.poll_failure_budget
      /\ now.attempts = gmail.park_retry_attempts /\ now.cooldown = gmail.park_retry_cooldown
      /\ now.interval > 0
  <2> HIDE DEF gmail
  <2> QED  BY <1>2, <1>3, <1>4 DEF InForce, gmail
<1> HIDE DEF gmail
<1> QED  BY <1>2, <1>4, <1>5, <1>7 DEF BoundsAsWritten
-----------------------------------------------------------------------------
Places == {"down", "config", "open", "prepare", "migrate", "opened", "token",
           "truncate", "write", "bind", "running"}

ITypes ==
  /\ pc \in [Procs -> Places]
  /\ todo \in [Procs -> SUBSET Versions]
  /\ applied \subseteq Versions
  /\ held \in [Procs -> Nat]
  /\ minted \in Nat
  /\ disk \in Nat
  /\ tx \in [by : Procs \cup {Nil}, version : Nat, done : Nat]
  /\ port \in Procs \cup {Nil}
  /\ apart \subseteq Procs

(* Whoever has the write lock is preparing the file or migrating, and then  *)
(* at its lowest pending version; what is no longer pending is applied.     *)
IMigrations ==
  /\ SchemaIsWhole
  /\ \A p \in Procs : todo[p] \subseteq Knows[p]
  /\ \A p \in Procs : pc[p] = "migrate" => Knows[p] \ todo[p] \subseteq applied
  /\ \A p \in Procs : tx.by = p => pc[p] \in {"prepare", "migrate"}
  /\ \A p \in Procs : pc[p] = "migrate" /\ tx.by = p =>
       tx.version \in todo[p] /\ \A u \in todo[p] : tx.version <= u

(* A settled process agrees with the file unless it is set apart, and while *)
(* one mints all others that have a token are set apart.                    *)
ITokens ==
  /\ \A p \in Procs : pc[p] \in HasToken => held[p] # 0
  /\ \A p \in Procs : pc[p] \in {"bind", "running"} /\ p \notin apart =>
       disk = held[p] /\ disk # 0
  /\ \A p, q \in Procs : p # q /\ pc[p] \in Minting /\ pc[q] \in HasToken => q \in apart
  /\ port # Nil => pc[port] = "running"

IInv == ITypes /\ IMigrations /\ ITokens

USE StartupAssumption DEF StartupAssumption
-----------------------------------------------------------------------------
(* The start: nothing is applied and nobody has a token. *)
LEMMA InitIInv == Init => IInv
  BY DEF Init, IInv, ITypes, IMigrations, ITokens, SchemaIsWhole, Places, HasToken, Minting,
     PastOpen, NoTx, Procs

(* Any way a process ends keeps the invariant. *)
LEMMA ExitKeepsIInv ==
  ASSUME IInv, NEW p \in Procs, Exit(p)
  PROVE  IInv'
<1>1. ITypes'
  BY DEF IInv, ITypes, Exit, Goto, Places, NoTx
<1>2. IMigrations'
  BY DEF IInv, ITypes, IMigrations, SchemaIsWhole, Exit, Goto, NoTx, PastOpen, Objects
<1>3. ITokens'
  BY DEF IInv, ITypes, ITokens, Exit, Goto, HasToken, Minting
<1> QED BY <1>1, <1>2, <1>3 DEF IInv

(* Opening: only CommitMigration touches what is committed. *)
LEMMA CommitKeepsMigrations ==
  ASSUME IInv, NEW p \in Procs, CommitMigration(p)
  PROVE  IMigrations'
<1> DEFINE v == tx.version
<1>0. v \in todo[p] /\ v \in Knows[p] /\ v \in Versions /\ \A u \in todo[p] : v <= u
  BY DEF IInv, ITypes, IMigrations, CommitMigration, At
<1>1. schema' = UNION {Objects(w) : w \in applied'}
  <2>1. schema = UNION {Objects(w) : w \in applied}
    BY DEF IInv, IMigrations, SchemaIsWhole
  <2>2. schema' = schema \cup Objects(v) /\ applied' = applied \cup {v}
    BY DEF CommitMigration
  <2> QED BY <2>1, <2>2
<1>2. \A w \in applied', u \in Versions : u < w => u \in applied'
  <2> SUFFICES ASSUME NEW w \in applied', NEW u \in Versions, u < w
               PROVE  u \in applied'
    OBVIOUS
  <2>1. CASE w \in applied
    BY <2>1 DEF IInv, IMigrations, SchemaIsWhole, CommitMigration
  <2>2. CASE w = v
    <3>1. u \in Knows[p]
      BY <2>2, <1>0
    <3>2. u \notin todo[p]
      <4>1. u \in Nat /\ v \in Nat
        BY <1>0
      <4>2. ~(v <= u)
        BY <4>1, <2>2
      <4> QED BY <4>2, <1>0
    <3> QED BY <3>1, <3>2 DEF IInv, IMigrations, CommitMigration, At
  <2> QED BY <2>1, <2>2 DEF CommitMigration
<1>3. \A q \in Procs : pc'[q] \in PastOpen => Knows[q] \subseteq applied'
  BY DEF IInv, IMigrations, SchemaIsWhole, CommitMigration
<1>4. \A q \in Procs : todo'[q] \subseteq Knows[q]
  BY DEF IInv, ITypes, IMigrations, CommitMigration
<1>5. \A q \in Procs : pc'[q] = "migrate" => Knows[q] \ todo'[q] \subseteq applied'
  BY <1>0 DEF IInv, ITypes, IMigrations, CommitMigration
<1>6. tx'.by = Nil
  BY DEF CommitMigration, NoTx
<1> QED BY <1>1, <1>2, <1>3, <1>4, <1>5, <1>6 DEF IMigrations, SchemaIsWhole, Procs

LEMMA OpenKeepsIInv ==
  ASSUME IInv, NEW p \in Procs, OpenStep(p)
  PROVE  IInv'
<1> USE DEF IInv, ITypes, Places, At, Goto, NoTx
<1>1. CASE PrepareFile(p)
  <2>1. ITypes' BY <1>1 DEF PrepareFile, tokenVars
  <2>2. IMigrations' BY <1>1 DEF PrepareFile, IMigrations, SchemaIsWhole, PastOpen, Objects
  <2>3. ITokens' BY <1>1 DEF PrepareFile, ITokens, tokenVars, HasToken, Minting
  <2> QED BY <2>1, <2>2, <2>3
<1>2. CASE FilePrepared(p)
  <2>1. ITypes' BY <1>2 DEF FilePrepared, tokenVars
  <2>2. IMigrations' BY <1>2 DEF FilePrepared, IMigrations, SchemaIsWhole, PastOpen, Objects
  <2>3. ITokens' BY <1>2 DEF FilePrepared, ITokens, tokenVars, HasToken, Minting
  <2> QED BY <2>1, <2>2, <2>3
<1>3. CASE ReadApplied(p)
  <2>1. ITypes' BY <1>3 DEF ReadApplied, tokenVars
  <2>2. IMigrations' BY <1>3 DEF ReadApplied, IMigrations, SchemaIsWhole, PastOpen, Objects
  <2>3. ITokens' BY <1>3 DEF ReadApplied, ITokens, tokenVars, HasToken, Minting
  <2> QED BY <2>1, <2>2, <2>3
<1>4. CASE Busy(p)
  BY <1>4, ExitKeepsIInv DEF Busy
<1>5. CASE BeginMigration(p)
  <2>0. tx' \in [by : Procs \cup {Nil}, version : Nat, done : Nat]
    <3>1. PICK v \in todo[p] : tx' = [by |-> p, version |-> v, done |-> 0]
      BY <1>5 DEF BeginMigration
    <3>2. v \in Nat
      BY <3>1
    <3> QED BY <3>1, <3>2
  <2>1. ITypes' BY <1>5, <2>0 DEF BeginMigration, tokenVars
  <2>2. IMigrations' BY <1>5 DEF BeginMigration, IMigrations, SchemaIsWhole, PastOpen, Objects
  <2>3. ITokens' BY <1>5 DEF BeginMigration, ITokens, tokenVars
  <2> QED BY <2>1, <2>2, <2>3
<1>6. CASE ApplyStatement(p)
  <2>0. tx' \in [by : Procs \cup {Nil}, version : Nat, done : Nat]
    <3>1. tx.done + 1 \in Nat
      OBVIOUS
    <3>2. tx' = [tx EXCEPT !.done = tx.done + 1]
      BY <1>6 DEF ApplyStatement
    <3> QED BY <3>1, <3>2
  <2>1. ITypes' BY <1>6, <2>0 DEF ApplyStatement, tokenVars
  <2>2. IMigrations' BY <1>6 DEF ApplyStatement, IMigrations, SchemaIsWhole, Objects
  <2>3. ITokens' BY <1>6 DEF ApplyStatement, ITokens, tokenVars
  <2> QED BY <2>1, <2>2, <2>3
<1>7. CASE StatementFails(p)
  BY <1>7, ExitKeepsIInv DEF StatementFails
<1>8. CASE CommitMigration(p)
  <2>0. tx.version \in Versions
    BY <1>8 DEF CommitMigration, IMigrations
  <2>1. ITypes' BY <1>8, <2>0 DEF CommitMigration, tokenVars
  <2>2. IMigrations' BY <1>8, CommitKeepsMigrations
  <2>3. ITokens' BY <1>8 DEF CommitMigration, ITokens, tokenVars
  <2> QED BY <2>1, <2>2, <2>3
<1>9. CASE Migrated(p)
  <2>1. ITypes' BY <1>9 DEF Migrated, dbVars, tokenVars
  <2>2. IMigrations' BY <1>9 DEF Migrated, IMigrations, SchemaIsWhole, PastOpen, dbVars, Objects
  <2>3. ITokens' BY <1>9 DEF Migrated, ITokens, tokenVars, HasToken, Minting
  <2> QED BY <2>1, <2>2, <2>3
<1> QED BY <1>1, <1>2, <1>3, <1>4, <1>5, <1>6, <1>7, <1>8, <1>9 DEF OpenStep

(* Starting: what touches neither the schema nor a token. *)
LEMMA StartKeepsIInv ==
  ASSUME IInv, NEW p \in Procs,
         Start(p) \/ LoadConfig(p) \/ Authenticated(p) \/ ServeFails(p)
  PROVE  IInv'
<1> USE DEF IInv, ITypes, Places, At, Goto, NoTx, dbVars, tokenVars
<1>1. ITypes'
  BY DEF Start, LoadConfig, Authenticated, ServeFails
<1>2. IMigrations'
  <2> USE DEF IMigrations, SchemaIsWhole, PastOpen, Objects
  <2>1. CASE Start(p) BY <2>1 DEF Start
  <2>2. CASE LoadConfig(p) BY <2>2 DEF LoadConfig
  <2>3. CASE Authenticated(p) BY <2>3 DEF Authenticated
  <2>4. CASE ServeFails(p) BY <2>4 DEF ServeFails
  <2> QED BY <2>1, <2>2, <2>3, <2>4
<1>3. ITokens'
  BY DEF Start, LoadConfig, Authenticated, ServeFails, ITokens, HasToken, Minting
<1> QED BY <1>1, <1>2, <1>3

(* No step about the token or the port touches the schema. *)
LEMMA TokenKeepsMigrations ==
  ASSUME IInv, NEW p \in Procs, NEW there \in PastOpen,
         pc[p] \in PastOpen, Goto(p, there), UNCHANGED dbVars
  PROVE  IMigrations'
BY DEF IInv, ITypes, IMigrations, SchemaIsWhole, PastOpen, Goto, dbVars, Objects

(* The token's steps: the file changes only while everyone else who has a   *)
(* token is set apart.                                                      *)
LEMMA TokenKeepsIInv ==
  ASSUME IInv, NEW p \in Procs,
         \/ ReadToken(p)
         \/ GenerateToken(p)
         \/ GenerateTokenOverUnread(p)
         \/ TruncateToken(p)
         \/ WriteToken(p)
         \/ Bind(p)
  PROVE  IInv'
<1>1. IMigrations'
  <2>1. pc[p] \in PastOpen /\ UNCHANGED dbVars
    BY DEF ReadToken, GenerateToken, GenerateTokenOverUnread, TruncateToken, WriteToken, Bind,
           At, PastOpen
  <2>2. \E there \in PastOpen : Goto(p, there)
    BY DEF ReadToken, GenerateToken, GenerateTokenOverUnread, TruncateToken, WriteToken, Bind,
           PastOpen
  <2> QED BY <2>1, <2>2, TokenKeepsMigrations
<1>2. ITypes'
  <2> USE DEF IInv, ITypes, Places, At, Goto, dbVars
  <2>1. CASE ReadToken(p)
    BY <2>1 DEF ReadToken, Settle, OthersMinting
  <2>2. CASE GenerateToken(p)
    <3>1. minted' \in Nat /\ held' \in [Procs -> Nat]
      BY <2>2 DEF GenerateToken
    <3>2. pc' \in [Procs -> Places]
      BY <2>2 DEF GenerateToken
    <3>3. apart' \subseteq Procs
      BY <2>2 DEF GenerateToken, Settle, OthersMinting
    <3> QED BY <2>2, <3>1, <3>2, <3>3 DEF GenerateToken
  <2>3. CASE TruncateToken(p)
    BY <2>3 DEF TruncateToken
  <2>4. CASE WriteToken(p)
    BY <2>4 DEF WriteToken
  <2>5. CASE Bind(p)
    BY <2>5 DEF Bind, tokenVars
  <2>6. CASE GenerateTokenOverUnread(p)
    <3>1. minted' \in Nat /\ held' \in [Procs -> Nat]
      BY <2>6 DEF GenerateTokenOverUnread
    <3>2. pc' \in [Procs -> Places]
      BY <2>6 DEF GenerateTokenOverUnread
    <3>3. apart' \subseteq Procs
      BY <2>6 DEF GenerateTokenOverUnread
    <3> QED BY <2>6, <3>1, <3>2, <3>3 DEF GenerateTokenOverUnread, Fault
  <2> QED BY <2>1, <2>2, <2>3, <2>4, <2>5, <2>6
<1>3. ITokens'
  <2> USE DEF IInv, ITypes, ITokens, At, Goto, HasToken, Minting
  <2>1. CASE ReadToken(p)
    <3>1. CASE OthersMinting(p) = {}
      BY <2>1, <3>1 DEF ReadToken, Settle, OthersMinting
    <3>2. CASE OthersMinting(p) # {}
      BY <2>1, <3>2 DEF ReadToken, Settle, OthersMinting
    <3> QED BY <3>1, <3>2
  <2>2. CASE GenerateToken(p)
    <3>0. \A q \in Procs : pc[q] \in {"bind", "running"} => q \in apart
      BY <2>2 DEF GenerateToken
    <3>1. CASE OthersMinting(p) = {}
      BY <2>2, <3>0, <3>1 DEF GenerateToken, Settle, OthersMinting
    <3>2. CASE OthersMinting(p) # {}
      BY <2>2, <3>0, <3>2 DEF GenerateToken, Settle, OthersMinting
    <3> QED BY <3>1, <3>2
  <2>3. CASE TruncateToken(p)
    BY <2>3 DEF TruncateToken
  <2>4. CASE WriteToken(p)
    BY <2>4 DEF WriteToken
  <2>5. CASE Bind(p)
    BY <2>5 DEF Bind, tokenVars
  <2>6. CASE GenerateTokenOverUnread(p)
    <3>0. \A q \in Procs \ {p} : pc[q] \in HasToken => q \in apart'
      BY <2>6 DEF GenerateTokenOverUnread
    <3>1. OthersMinting(p) # {} => p \in apart'
      BY <2>6 DEF GenerateTokenOverUnread
    <3>2. \A q \in Procs \ {p} : pc'[q] = pc[q] /\ held'[q] = held[q]
      BY <2>6 DEF GenerateTokenOverUnread
    <3>3. pc'[p] = "truncate" /\ held'[p] # 0
      BY <2>6 DEF GenerateTokenOverUnread
    <3>4. port' = port /\ (port # Nil => port # p)
      BY <2>6 DEF GenerateTokenOverUnread
    <3> QED BY <3>0, <3>1, <3>2, <3>3, <3>4 DEF OthersMinting
  <2> QED BY <2>1, <2>2, <2>3, <2>4, <2>5, <2>6
<1> QED BY <1>1, <1>2, <1>3 DEF IInv

LEMMA PeopleKeepIInv == IInv /\ People => IInv'
<1> SUFFICES ASSUME IInv, People PROVE IInv'
  OBVIOUS
<1>1. CASE DeleteToken
  <2>1. ITypes'
    BY <1>1 DEF DeleteToken, IInv, ITypes, dbVars
  <2>2. IMigrations'
    BY <1>1 DEF DeleteToken, IInv, IMigrations, SchemaIsWhole, dbVars, Objects
  <2>3. ITokens'
    BY <1>1 DEF DeleteToken, IInv, ITypes, ITokens, HasToken, Minting
  <2> QED BY <2>1, <2>2, <2>3 DEF IInv
<1>2. CASE Authenticate
  BY <1>2 DEF Authenticate, IInv, ITypes, IMigrations, SchemaIsWhole, ITokens, dbVars,
              tokenVars, Objects
<1> QED BY <1>1, <1>2 DEF People

LEMMA NextKeepsIInv == IInv /\ [Next]_vars => IInv'
<1> SUFFICES ASSUME IInv, [Next]_vars PROVE IInv'
  OBVIOUS
<1>1. CASE \E p \in Procs : Start(p) \/ Step(p) \/ Mishap(p)
  <2> PICK p \in Procs : Start(p) \/ Step(p) \/ Mishap(p)
    BY <1>1
  <2>1. CASE Start(p) \/ LoadConfig(p) \/ Authenticated(p) \/ ServeFails(p)
    BY <2>1, StartKeepsIInv
  <2>2. CASE OpenStep(p)
    BY <2>2, OpenKeepsIInv
  <2>3. CASE Exit(p)
    BY <2>3, ExitKeepsIInv
  <2>4. CASE \/ ReadToken(p)
             \/ GenerateToken(p)
             \/ GenerateTokenOverUnread(p)
             \/ TruncateToken(p)
             \/ WriteToken(p)
             \/ Bind(p)
    BY <2>4, TokenKeepsIInv
  <2> QED
    BY <2>1, <2>2, <2>3, <2>4
       DEF Step, DaemonStep, Mishap, CommandEnds, RefuseConfig, NotAuthenticated, Stop
<1>2. CASE People
  BY <1>2, PeopleKeepIInv
<1>3. CASE UNCHANGED vars
  BY <1>3 DEF vars, dbVars, tokenVars, IInv, ITypes, IMigrations, SchemaIsWhole, ITokens, Objects
<1> QED BY <1>1, <1>2, <1>3 DEF Next
-----------------------------------------------------------------------------
LEMMA InvariantHolds == Spec => []IInv
  BY InitIInv, NextKeepsIInv, PTL DEF Spec

(* However many processes of however many binaries start, race, wait, fail  *)
(* and crash, the schema is that of the migrations on record, in order, and *)
(* who got past queue.Open finds all its binary knows.                      *)
THEOREM MigrationsAreWhole == Spec => []SchemaIsWhole
<1>1. IInv => SchemaIsWhole
  BY DEF IInv, IMigrations
<1> QED BY <1>1, InvariantHolds, PTL

(* Whatever cut the writing of session.token short, the token `postbode     *)
(* review' finds is accepted by the daemon that has the port, unless since  *)
(* it took its token a person deleted the file, another daemon could not    *)
(* read it and minted over it, or one minted while another looked.          *)
THEOREM ReviewFindsTheToken == Spec => []ReviewIsLetIn
<1>1. IInv => ReviewIsLetIn
  BY DEF IInv, ITypes, ITokens, ReviewIsLetIn
<1> QED BY <1>1, InvariantHolds, PTL
-----------------------------------------------------------------------------
(* What is loaded is a sound file, and a daemon past the load has one.      *)
Acceptable == {f \in Files : Configured[f] # Invalid}

IConfig ==
  /\ pc \in [Procs -> Places]
  /\ loaded \in [Procs -> Acceptable \cup {Nil}]
  /\ \A p \in Daemons : pc[p] \notin {"down", "config"} => loaded[p] \in Acceptable

Early == {"down", "config"}

(* A process past the load goes on, with the file it has loaded.            *)
Onward(p) ==
  /\ loaded' = loaded
  /\ \/ pc' = pc
     \/ pc[p] \notin Early /\ \E there \in Places \ Early : Goto(p, there)

LEMMA OnwardKeepsIConfig ==
  ASSUME IConfig, NEW p \in Procs, Onward(p)
  PROVE  IConfig'
<1>1. CASE pc' = pc
  BY <1>1 DEF IConfig, Onward
<1>2. CASE pc' # pc
  <2>1. PICK there \in Places \ Early : pc[p] \notin Early /\ pc' = [pc EXCEPT ![p] = there]
    BY <1>2 DEF Onward, Goto
  <2>2. loaded' = loaded /\ pc' \in [Procs -> Places]
    BY <2>1 DEF IConfig, Onward
  <2>3. \A q \in Daemons : pc'[q] \notin Early => pc[q] \notin Early
    BY <2>1 DEF IConfig, Procs
  <2> QED  BY <2>2, <2>3 DEF IConfig, Early
<1> QED  BY <1>1, <1>2

(* Every step of a process goes onward, is a load or ends the process,      *)
(* unless it is its start.                                                  *)
LEMMA StepsGoOnward ==
  ASSUME IConfig, NEW p \in Procs, Step(p) \/ Mishap(p)
  PROVE  Onward(p) \/ LoadConfig(p) \/ Exit(p)
<1> USE DEF Onward, Early, At, Goto, Places
<1>1. CASE OpenStep(p)
  BY <1>1 DEF OpenStep, PrepareFile, FilePrepared, ReadApplied, Busy, BeginMigration,
              ApplyStatement, StatementFails, CommitMigration, Migrated
<1>2. CASE DaemonStep(p)
  BY <1>2 DEF DaemonStep, RefuseConfig, NotAuthenticated, Authenticated, ReadToken,
              GenerateToken, TruncateToken, WriteToken, Bind
<1>3. CASE CommandEnds(p) \/ Mishap(p)
  BY <1>3 DEF CommandEnds, Mishap, Stop, GenerateTokenOverUnread, ServeFails
<1> QED  BY <1>1, <1>2, <1>3 DEF Step

LEMMA NextKeepsIConfig == IConfig /\ [Next]_vars => IConfig'
<1> SUFFICES ASSUME IConfig, [Next]_vars PROVE IConfig'
  OBVIOUS
<1>1. ASSUME NEW p \in Procs, Start(p)
      PROVE  IConfig'
  BY <1>1 DEF Start, IConfig, At, Goto, Places
<1>2. ASSUME NEW p \in Procs, LoadConfig(p)
      PROVE  IConfig'
  BY <1>2 DEF LoadConfig, IConfig, Acceptable, At, Goto, Places
<1>3. ASSUME NEW p \in Procs, Exit(p)
      PROVE  IConfig'
  BY <1>3 DEF Exit, IConfig, Goto, Places
<1>4. ASSUME NEW p \in Procs, Step(p) \/ Mishap(p)
      PROVE  IConfig'
  BY <1>2, <1>3, <1>4, StepsGoOnward, OnwardKeepsIConfig
<1>5. CASE People \/ UNCHANGED vars
  BY <1>5 DEF People, DeleteToken, Authenticate, vars, IConfig
<1> QED  BY <1>1, <1>4, <1>5 DEF Next

LEMMA InitIConfig == Init => IConfig
  BY DEF Init, IConfig, Places, Procs

(* A daemon that is past the load has one of the files that were put there, *)
(* that file is without a defect, its bounds are in force, and every        *)
(* document that may come is decided as its rules and watch scope are       *)
(* written - until the daemon ends, however often the file is edited        *)
(* meanwhile (F-26 to F-29, F-87).                                          *)
THEOREM DaemonsDecideAsWritten == Spec => []RulesAsWritten
<1>1. Acceptable \subseteq WrittenFiles
  <2> SUFFICES ASSUME NEW f \in Acceptable PROVE f \in Files /\ AsWritten(Contents[f], Documents)
    BY DEF WrittenFiles
  <2>1. Load(Contents[f]) # Invalid /\ f \in Files
    BY DEF Acceptable, Configured
  <2>2. SoundFile(Contents[f])
    BY <2>1, DefectsAreRefused
  <2>3. BoundsAsWritten(Contents[f])
    BY <2>1, BoundsAreInForce
  <2>4. \A doc \in Documents : Decision(Load(Contents[f]), doc) = Verdict(Contents[f], doc)
    BY <2>1, FilesSayWhatIsDecided
  <2> QED  BY <2>1, <2>2, <2>3, <2>4 DEF AsWritten
<1>2. IConfig => RulesAsWritten
  BY <1>1 DEF IConfig, RulesAsWritten
<1> QED  BY <1>2, InitIConfig, NextKeepsIConfig, PTL DEF Spec
=============================================================================
