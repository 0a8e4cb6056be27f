--------------------------- MODULE IdentityProofs ---------------------------
(***************************************************************************)
(* Theorems about Identity and Invoices: what an identity key says, for    *)
(* every text, and that the items of the queue carry one key per invoice,  *)
(* for every set of invoices and of writings of them.                      *)
(***************************************************************************)
EXTENDS Invoices, QueueProofs

LOCAL INSTANCE FiniteSetsExt

LEMMA LeastOf ==
  ASSUME NEW S \in SUBSET Nat, S # {}
  PROVE  Min(S) \in S
BY OldestIsLeast DEF Min, Oldest

(* A match fits, and a place that no neighbour hides is a match.            *)
LEMMA MatchesFit ==
  ASSUME NEW S \in SUBSET (Nat \ {0})
  PROVE  Matches(S) \subseteq S /\ Leading(S) \subseteq Matches(S)
<1>1. ASSUME NEW i \in Leading(S)
      PROVE  i \in Matches(S)
  <2>1. i \in S /\ i - 1 \notin S /\ i \in 1..i /\ i..i = {i} /\ (i - i) % 2 = 0
    BY <1>1 DEF Leading
  <2> QED  BY <2>1 DEF Matches
<1> QED  BY <1>1 DEF Matches

(* Keywords, months and dates of a text are at positions of it.             *)
LEMMA TextPlaces ==
  ASSUME NEW text, DOMAIN text \subseteq Nat \ {0}
  PROVE  /\ Keywords(text) \in SUBSET (Nat \ {0}) /\ Months(text) \in SUBSET (Nat \ {0})
         /\ \A style : Dates(text, style) \in SUBSET (Nat \ {0})
BY DEF Keywords, Months, Dates

LEMMA NumberIsStated ==
  ASSUME NEW text, DOMAIN text \subseteq Nat \ {0}
  PROVE  /\ ExtractInvoiceNumber(text) = None \/ ExtractInvoiceNumber(text) \in NumbersIn(text)
         /\ ShowsNumber(text) => ExtractInvoiceNumber(text) # None
<1>1. Captured(text) \in SUBSET Nat
  BY DEF Captured
<1>2. Matches(Keywords(text)) \subseteq Keywords(text)
      /\ Leading(Keywords(text)) \subseteq Matches(Keywords(text))
  BY TextPlaces, MatchesFit
<1>3. \A i \in Captured(text) : Number(text[i]) \in NumbersIn(text)
  BY <1>2 DEF Captured, NumbersIn, NumbersBehind
<1>4. ShowsNumber(text) => Captured(text) # {}
  BY <1>2 DEF Captured, ShowsNumber, NumbersBehind
<1>5. ExtractInvoiceNumber(text)
        = IF Captured(text) = {} THEN None ELSE Number(text[Min(Captured(text))])
  BY DEF ExtractInvoiceNumber, FirstValue
<1>6. \A w : Number(w) # None
  BY DEF Number, None
<1> QED  BY <1>1, <1>3, <1>4, <1>5, <1>6, LeastOf

LEMMA DateIsStated ==
  ASSUME NEW text, DOMAIN text \subseteq Nat \ {0}
  PROVE  /\ ExtractDate(text) = None \/ ExtractDate(text) \in DatesIn(text)
         /\ ShowsDate(text) => ExtractDate(text) # None
<1> DEFINE valid(k) == {i \in Matches(Dates(text, DateStyles[k])) : ValidYMD(text[i])}
           styles == {k \in DOMAIN DateStyles : valid(k) # {}}
           day(i) == <<text[i].y, text[i].m, text[i].d>>
<1>1. \A k : /\ Matches(Dates(text, DateStyles[k])) \subseteq Dates(text, DateStyles[k])
             /\ Leading(Dates(text, DateStyles[k])) \subseteq Matches(Dates(text, DateStyles[k]))
             /\ valid(k) \in SUBSET Nat
  BY TextPlaces, MatchesFit
<1>2. \A k : \A i \in valid(k) : day(i) \in DatesAt(text, Dates(text, DateStyles[k]))
  BY <1>1 DEF DatesAt
<1>3. ShowsDate(text) => styles # {}
  <2> SUFFICES ASSUME ShowsDate(text) PROVE styles # {}
    OBVIOUS
  <2>1. PICK k \in DOMAIN DateStyles : DatesAt(text, Leading(Dates(text, DateStyles[k]))) # {}
    BY DEF ShowsDate
  <2>2. PICK i \in Leading(Dates(text, DateStyles[k])) : ValidYMD(text[i])
    BY <2>1 DEF DatesAt
  <2> QED  BY <1>1, <2>2
<1>4. styles \in SUBSET Nat
  BY DEF DateStyles
<1>5. ExtractDate(text) = IF styles = {} THEN None
                          ELSE IF valid(Min(styles)) = {} THEN None
                          ELSE day(Min(valid(Min(styles))))
  BY DEF ExtractDate, FirstValue
<1>6. \A i : day(i) # None
  BY DEF None
<1>7. styles # {} => Min(styles) \in DOMAIN DateStyles /\ valid(Min(styles)) # {}
  <2> HIDE DEF valid
  <2> QED  BY <1>4, LeastOf
<1>8. \A k : valid(k) # {} => Min(valid(k)) \in valid(k)
  <2> HIDE DEF valid
  <2> QED  BY <1>1, LeastOf
<1>9. ASSUME styles # {}
      PROVE  ExtractDate(text) \in DatesIn(text) /\ ExtractDate(text) # None
  <2> HIDE DEF valid, styles, day
  <2> QED  BY <1>2, <1>5, <1>6, <1>7, <1>8, <1>9 DEF DatesIn
<1> HIDE DEF valid, styles, day
<1> QED  BY <1>3, <1>5, <1>9

LEMMA PeriodIsStated ==
  ASSUME NEW text, DOMAIN text \subseteq Nat \ {0}
  PROVE  /\ ExtractYearMonth(text) = None \/ ExtractYearMonth(text) \in PeriodsIn(text)
         /\ ShowsPeriod(text) => ExtractYearMonth(text) # None
<1> DEFINE shown == Matches(Months(text)) \cup Dates(text, "iso")
           places == {i \in shown : text[i].m \in 1..12}
           month(i) == <<text[i].y, text[i].m>>
<1>1. /\ Matches(Months(text)) \subseteq Months(text)
      /\ Leading(Months(text)) \subseteq Matches(Months(text))
      /\ shown \in SUBSET Nat
  BY TextPlaces, MatchesFit
<1>2. \A i \in places : month(i) \in PeriodsIn(text)
  BY <1>1 DEF PeriodsIn, MonthsAt
<1>3. ShowsPeriod(text) => places # {}
  <2> SUFFICES ASSUME ShowsPeriod(text) PROVE places # {}
    OBVIOUS
  <2>1. PICK i \in Leading(Months(text)) \cup Dates(text, "iso") : text[i].m \in 1..12
    BY DEF ShowsPeriod, MonthsAt
  <2> QED  BY <1>1, <2>1
<1>4. ExtractYearMonth(text) = IF places = {} THEN None ELSE month(Min(places))
  BY DEF ExtractYearMonth, FirstValue
<1>5. \A i : month(i) # None
  BY DEF None
<1>6. places \in SUBSET Nat
  BY <1>1
<1> HIDE DEF places, month
<1> QED  BY <1>2, <1>3, <1>4, <1>5, <1>6, LeastOf

(* An amount depends only on which of its separators are alike.             *)
LEMMA AlikeIsEnough ==
  ASSUME NEW v, NEW w, NEW n \in Nat, v.groups = w.groups, Len(v.seps) = n, Len(w.seps) = n,
         \A i, j \in 1..n : v.seps[i] = v.seps[j] <=> w.seps[i] = w.seps[j]
  PROVE  NormalizeAmount(v) = NormalizeAmount(w)
<1>1. n # 0 => n \in 1..n
  OBVIOUS
<1>2. n # 0 => \A i \in 1..n : v.seps[i] = v.seps[n] <=> w.seps[i] = w.seps[n]
  BY <1>1
<1> QED  BY <1>2 DEF NormalizeAmount

LEMMA Renamed ==
  ASSUME NEW S, NEW s \in Seq(S), NEW f \in [S -> S]
  PROVE  LET t == [i \in DOMAIN s |-> f[s[i]]] IN
         /\ Len(s) \in Nat /\ Len(t) = Len(s)
         /\ \A i \in 1..Len(s) : s[i] \in S /\ t[i] = f[s[i]]
<1> DEFINE t == [i \in DOMAIN s |-> f[s[i]]]
           n == Len(s)
<1>1. n \in Nat /\ DOMAIN s = 1..n /\ \A i \in 1..n : s[i] \in S
  OBVIOUS
<1>2. t \in [1..n -> S] /\ \A i \in 1..n : t[i] = f[s[i]]
  BY <1>1
<1> HIDE DEF t, n
<1>3. t \in Seq(S)
  BY <1>1, <1>2, SeqDef
<1>4. Len(t) \in Nat /\ 1..Len(t) = 1..n
  BY <1>2, <1>3
<1>5. (Len(t) # 0 => Len(t) \in 1..Len(t)) /\ (n # 0 => n \in 1..n)
  BY <1>1, <1>4
<1>6. Len(t) = n
  BY <1>1, <1>4, <1>5
<1> QED  BY <1>1, <1>2, <1>6 DEF t, n

(* F-32, identity.go:328-337: an amount is the same in European and in US   *)
(* convention, 1.234,56 as 1,234.56 and 1.234 as 1,234, for any number of   *)
(* groups of any digits.  (In general: however the separators are renamed.) *)
THEOREM ConventionsAgree ==
  ASSUME NEW Marks, NEW seps \in Seq(Marks), NEW groups,
         NEW theirs \in [Marks -> Marks], \A m, n \in Marks : theirs[m] = theirs[n] => m = n
  PROVE  NormalizeAmount([groups |-> groups, seps |-> [i \in DOMAIN seps |-> theirs[seps[i]]]])
           = NormalizeAmount([groups |-> groups, seps |-> seps])
<1> DEFINE other == [i \in DOMAIN seps |-> theirs[seps[i]]]
           v == [groups |-> groups, seps |-> other]
           w == [groups |-> groups, seps |-> seps]
           n == Len(seps)
<1>1. n \in Nat /\ Len(other) = n /\ \A i \in 1..n : seps[i] \in Marks /\ other[i] = theirs[seps[i]]
  BY Renamed
<1>2. v.groups = groups /\ v.seps = other /\ w.groups = groups /\ w.seps = seps
  OBVIOUS
<1> HIDE DEF v, w, other, n
<1>3. \A i, j \in 1..n : other[i] = other[j] <=> seps[i] = seps[j]
  BY <1>1
<1>4. NormalizeAmount(v) = NormalizeAmount(w)
  BY <1>1, <1>2, <1>3, AlikeIsEnough DEF n
<1> QED  BY <1>4 DEF v, w, other

LEMMA AmountIsStated ==
  ASSUME NEW text, DOMAIN text \subseteq Nat \ {0}
  PROVE  /\ ExtractAmount(text) = None \/ ExtractAmount(text) \in AmountsIn(text)
         /\ AmountsIn(text) # {} => ExtractAmount(text) # None
<1>1. Amounts(text) \in SUBSET Nat
  BY DEF Amounts
<1>2. \A i \in Amounts(text) : NormalizeAmount(text[i]) \in AmountsIn(text)
                               /\ NormalizeAmount(text[i]) # None
  BY DEF Amounts, AmountsIn
<1>3. AmountsIn(text) # {} => Amounts(text) # {}
  BY DEF AmountsIn
<1>4. ExtractAmount(text) = IF Amounts(text) = {} THEN None
                            ELSE NormalizeAmount(text[Min(Amounts(text))])
  BY DEF ExtractAmount, FirstValue
<1> QED  BY <1>1, <1>2, <1>3, <1>4, LeastOf
-----------------------------------------------------------------------------
(* A field of an identity is stated by the file name or by the subject, and *)
(* where one of them shows it, it is found.                                 *)
LEMMA FieldsAreStated ==
  ASSUME NEW w, \A text \in TextsOf(w) : DOMAIN text \subseteq Nat \ {0}
  PROVE  LET number == FindInvoiceNumber(w[1], w[2])
             date   == FindDate(w[1], w[2])
             month  == FindYearMonth(w[1], w[2])
             amount == FindAmount(w[1], w[2])
         IN /\ number # None => \E text \in TextsOf(w) : number \in NumbersIn(text)
            /\ date   # None => \E text \in TextsOf(w) : date \in DatesIn(text)
            /\ month  # None => \E text \in TextsOf(w) : month \in PeriodsIn(text)
            /\ amount # None => \E text \in TextsOf(w) : amount \in AmountsIn(text)
            /\ number = None => \A text \in TextsOf(w) : ~ShowsNumber(text)
            /\ date   = None => \A text \in TextsOf(w) : ~ShowsDate(text)
            /\ month  = None => \A text \in TextsOf(w) : ~ShowsPeriod(text)
            /\ amount = None => \A text \in TextsOf(w) : AmountsIn(text) = {}
<1>1. w[1] \in TextsOf(w) /\ w[2] \in TextsOf(w) /\ \A text \in TextsOf(w) : text = w[1] \/ text = w[2]
  BY DEF TextsOf
<1>2. DOMAIN w[1] \subseteq Nat \ {0} /\ DOMAIN w[2] \subseteq Nat \ {0}
  BY <1>1
<1>3. LET number == FindInvoiceNumber(w[1], w[2]) IN
      /\ number # None => \E text \in TextsOf(w) : number \in NumbersIn(text)
      /\ number = None => \A text \in TextsOf(w) : ~ShowsNumber(text)
  BY <1>1, <1>2, NumberIsStated DEF FindInvoiceNumber, Either
<1>4. LET date == FindDate(w[1], w[2]) IN
      /\ date # None => \E text \in TextsOf(w) : date \in DatesIn(text)
      /\ date = None => \A text \in TextsOf(w) : ~ShowsDate(text)
  BY <1>1, <1>2, DateIsStated DEF FindDate, Either
<1>5. LET month == FindYearMonth(w[1], w[2]) IN
      /\ month # None => \E text \in TextsOf(w) : month \in PeriodsIn(text)
      /\ month = None => \A text \in TextsOf(w) : ~ShowsPeriod(text)
  BY <1>1, <1>2, PeriodIsStated DEF FindYearMonth, Either
<1>6. LET amount == FindAmount(w[1], w[2]) IN
      /\ amount # None => \E text \in TextsOf(w) : amount \in AmountsIn(text)
      /\ amount = None => \A text \in TextsOf(w) : AmountsIn(text) = {}
  BY <1>1, <1>2, AmountIsStated DEF FindAmount, Either
<1> QED  BY <1>3, <1>4, <1>5, <1>6

(* F-32, identity.go:46-56: no key is guessed.  Whatever file name and      *)
(* subject a document comes with, a key of four parts is the sender's       *)
(* domain, a number that stands behind a keyword, a valid date and an       *)
(* amount with a currency; one of three has the month of such a date, or a  *)
(* month that is written as one; and there is no other key.                 *)
THEOREM KeysAreNotGuessed ==
  ASSUME NEW vendor, NEW w, \A text \in TextsOf(w) : DOMAIN text \subseteq Nat \ {0}
  PROVE  LET key == ParseIdentity(vendor, w[1], w[2])
             numbers == UNION {NumbersIn(text) : text \in TextsOf(w)}
             dates   == UNION {DatesIn(text) : text \in TextsOf(w)}
             months  == {<<date[1], date[2]>> : date \in dates}
                          \cup UNION {PeriodsIn(text) : text \in TextsOf(w)}
             amounts == UNION {AmountsIn(text) : text \in TextsOf(w)}
         IN \/ key = None
            \/ vendor # None /\ key \in {vendor} \X numbers \X dates \X amounts
            \/ vendor # None /\ key \in {vendor} \X months \X amounts
<1> DEFINE number == FindInvoiceNumber(w[1], w[2])
           date   == FindDate(w[1], w[2])
           period == FindYearMonth(w[1], w[2])
           amount == FindAmount(w[1], w[2])
           month  == IF date # None THEN <<date[1], date[2]>> ELSE period
           key    == ParseIdentity(vendor, w[1], w[2])
<1>1. /\ number # None => \E text \in TextsOf(w) : number \in NumbersIn(text)
      /\ date   # None => \E text \in TextsOf(w) : date \in DatesIn(text)
      /\ period # None => \E text \in TextsOf(w) : period \in PeriodsIn(text)
      /\ amount # None => \E text \in TextsOf(w) : amount \in AmountsIn(text)
  BY FieldsAreStated
<1>2. key = IF vendor = None \/ amount = None THEN None
            ELSE IF number # None /\ date # None THEN <<vendor, number, date, amount>>
            ELSE IF month # None THEN <<vendor, month, amount>>
            ELSE None
  BY DEF ParseIdentity
<1> HIDE DEF number, date, period, amount, key
<1> QED  BY <1>1, <1>2 DEF key

(* What is read from a writing of an invoice is the invoice's.              *)
LEMMA WritingsAgree ==
  ASSUME NEW inv, NEW domain, domain # None, NEW w,
         \A text \in TextsOf(w) : DOMAIN text \subseteq Nat \ {0}
  PROVE  /\ IsWriting(w, inv) => ParseIdentity(domain, w[1], w[2]) = HighKey(domain, inv)
         /\ IsLowWriting(w, inv) => ParseIdentity(domain, w[1], w[2]) = LowKey(domain, inv)
<1> DEFINE number == FindInvoiceNumber(w[1], w[2])
           date   == FindDate(w[1], w[2])
           period == FindYearMonth(w[1], w[2])
           amount == FindAmount(w[1], w[2])
           month  == IF date # None THEN <<date[1], date[2]>> ELSE period
<1>1. /\ number # None => \E text \in TextsOf(w) : number \in NumbersIn(text)
      /\ date   # None => \E text \in TextsOf(w) : date \in DatesIn(text)
      /\ period # None => \E text \in TextsOf(w) : period \in PeriodsIn(text)
      /\ amount # None => \E text \in TextsOf(w) : amount \in AmountsIn(text)
      /\ number = None => \A text \in TextsOf(w) : ~ShowsNumber(text)
      /\ date   = None => \A text \in TextsOf(w) : ~ShowsDate(text)
      /\ period = None => \A text \in TextsOf(w) : ~ShowsPeriod(text)
      /\ amount = None => \A text \in TextsOf(w) : AmountsIn(text) = {}
  BY FieldsAreStated
<1>2. ParseIdentity(domain, w[1], w[2]) =
        IF domain = None \/ amount = None THEN None
        ELSE IF number # None /\ date # None THEN <<domain, number, date, amount>>
        ELSE IF month # None THEN <<domain, month, amount>>
        ELSE None
  BY DEF ParseIdentity
<1> HIDE DEF number, date, period, amount
<1>3. StatesAmount(w, inv.amount) => amount = inv.amount /\ amount # None
  BY <1>1 DEF StatesAmount
<1>4. StatesDate(w, inv.date) => date = inv.date /\ date # None
  BY <1>1 DEF StatesDate
<1>5. StatesPeriod(w, inv.date) => month = <<inv.date[1], inv.date[2]>>
  BY <1>1 DEF StatesPeriod
<1>6. IsWriting(w, inv) => number = inv.number /\ number # None
  BY <1>1 DEF IsWriting
<1>7. IsLowWriting(w, inv) => number = None
  BY <1>1 DEF IsLowWriting
<1>8. \A x, y : <<x, y>> # None
  BY DEF None
<1>9. IsLowWriting(w, inv) => month = <<inv.date[1], inv.date[2]>> /\ month # None
  BY <1>4, <1>5, <1>8 DEF IsLowWriting
<1> HIDE DEF month
<1> QED  BY <1>2, <1>3, <1>4, <1>6, <1>7, <1>9 DEF IsWriting, IsLowWriting, HighKey, LowKey
-----------------------------------------------------------------------------
(* The key of an item is that of a document that was to be staged.          *)
KeysAreStaged ==
  \A i \in Ids : \E doc \in Candidates : row[i].key = doc.key /\ row[i].sha = doc.sha

LEMMA NextKeysAreStaged == TypeOK /\ KeysAreStaged /\ [Next]_vars => KeysAreStaged'
<1> SUFFICES ASSUME TypeOK, KeysAreStaged, [Next]_vars
             PROVE  KeysAreStaged'
  OBVIOUS
<1>1. ASSUME NEW in \in Candidates, StageItem(in)
      PROVE  KeysAreStaged'
  <2>1. StagedRow(in).key = in.key /\ StagedRow(in).sha = in.sha
    BY DEF StagedRow
  <2> QED  BY <1>1, <2>1, StageItemEffect DEF KeysAreStaged
<1>2. ASSUME NEW i \in Ids, Lifecycle(i)
      PROVE  KeysAreStaged'
  <2>1. Ids' = Ids /\ row' = row
    BY <1>2, LifecycleIsMove, MoveEffect
  <2> QED  BY <2>1 DEF KeysAreStaged
<1>3. CASE UNCHANGED vars
  BY <1>3 DEF vars, KeysAreStaged, Ids
<1> QED  BY <1>1, <1>2, <1>3 DEF Next

(* A four-part key of a document is its invoice's.                          *)
LEMMA HighKeys ==
  ASSUME NEW doc \in Candidates, doc.key # NULL, Confidence(doc.key) = "high"
  PROVE  LET inv == InvoiceOf[doc.sha] IN
         /\ inv \in Invoices
         /\ Writings[inv] # {}
         /\ \E domain \in inv.domains : doc.key = HighKey(domain, inv)
<1> DEFINE inv == InvoiceOf[doc.sha]
<1>1. /\ inv \in Invoices /\ None \notin inv.domains
      /\ VendorOf[doc.msg] \in inv.domains \cup {NULL}
  BY InvoicesAssumption
<1>2. PICK w \in Writings[inv] \cup LowWritings[inv] : doc.key = KeyOf(doc.msg, w)
  BY InvoicesAssumption
<1>3. /\ \A text \in TextsOf(w) : DOMAIN text \subseteq Nat \ {0}
      /\ w \in Writings[inv] => IsWriting(w, inv)
      /\ w \in LowWritings[inv] => IsLowWriting(w, inv)
  BY <1>1, InvoicesAssumption
<1>4. PICK domain \in inv.domains : doc.key = ParseIdentity(domain, w[1], w[2])
  <2>1. VendorOf[doc.msg] # NULL
    BY <1>2 DEF KeyOf, ParseIdentity
  <2> QED  BY <1>1, <1>2, <2>1 DEF KeyOf, ParseIdentity
<1>5. domain # None
  BY <1>1
<1> HIDE DEF inv
<1>6. doc.key = HighKey(domain, inv) \/ doc.key = LowKey(domain, inv)
  BY <1>2, <1>3, <1>4, <1>5, WritingsAgree
<1>7. Confidence(LowKey(domain, inv)) # "high"
  BY DEF Confidence, LowKey
<1>8. doc.key = HighKey(domain, inv)
  BY <1>6, <1>7
<1>9. w \in Writings[inv]
  <2>1. ASSUME w \in LowWritings[inv] PROVE FALSE
    BY <1>3, <1>4, <1>5, <1>7, <2>1, WritingsAgree
  <2> QED  BY <1>2, <2>1
<1> QED  BY <1>1, <1>8, <1>9 DEF inv

(* F-32, F-33: one key per invoice and domain, for all invoices, all        *)
(* domains of their vendors and all writings of them: the L3 badge names    *)
(* copies of one invoice, and all of them that came under the same domain.  *)
THEOREM OneKey == Spec => []OneKeyPerInvoice
<1>1. Init => KeysAreStaged
  BY DEF Init, KeysAreStaged, Ids
<1>2. ASSUME NEW inv \in Invoices, NEW domain \in inv.domains
      PROVE  /\ \A key \in KeysOf[inv][domain] : key = HighKey(domain, inv)
             /\ \A key \in LowKeysOf[inv][domain] : key = LowKey(domain, inv)
             /\ Writings[inv] # {} => KeysOf[inv][domain] # {}
  <2>1. /\ KeysOf[inv][domain] = {ParseIdentity(domain, w[1], w[2]) : w \in Writings[inv]}
        /\ LowKeysOf[inv][domain] = {ParseIdentity(domain, w[1], w[2]) : w \in LowWritings[inv]}
    BY DEF KeysOf, LowKeysOf
  <2>2. domain # None
    BY InvoicesAssumption
  <2> QED  BY <2>1, <2>2, InvoicesAssumption, WritingsAgree
<1>3. KeysAreStaged => OneKeyPerInvoice
  <2> SUFFICES ASSUME KeysAreStaged, NEW i \in Ids, row[i].key # NULL,
                      Confidence(row[i].key) = "high", NEW inv \in Invoices
               PROVE  IF inv = InvoiceOf[row[i].sha]
                        THEN LET key == row[i].key IN
                             /\ KeysOf[inv][key[1]] = {key}
                             /\ LowKeysOf[inv][key[1]] \subseteq {<<key[1], <<key[3][1], key[3][2]>>, key[4]>>}
                        ELSE \A domain \in inv.domains : row[i].key \notin KeysOf[inv][domain]
    BY DEF OneKeyPerInvoice
  <2>1. PICK doc \in Candidates : row[i].key = doc.key /\ row[i].sha = doc.sha
    BY DEF KeysAreStaged
  <2> DEFINE mine == InvoiceOf[row[i].sha]
  <2>2. mine \in Invoices /\ Writings[mine] # {} /\ \E d \in mine.domains : row[i].key = HighKey(d, mine)
    BY <2>1, HighKeys
  <2> HIDE DEF mine
  <2>3. PICK d \in mine.domains : row[i].key = HighKey(d, mine)
    BY <2>2
  <2>4. row[i].key[1] = d
    BY <2>3 DEF HighKey
  <2>5. CASE inv = mine
    <3>1. KeysOf[inv][d] = {row[i].key}
      BY <1>2, <2>2, <2>3, <2>5
    <3>2. LowKey(d, inv) = <<d, <<row[i].key[3][1], row[i].key[3][2]>>, row[i].key[4]>>
      BY <2>3, <2>5 DEF HighKey, LowKey
    <3>3. \A key \in LowKeysOf[inv][d] : key = <<d, <<row[i].key[3][1], row[i].key[3][2]>>, row[i].key[4]>>
      BY <1>2, <2>5, <3>2
    <3> QED  BY <2>4, <2>5, <3>1, <3>3 DEF mine
  <2>6. CASE inv # mine
    <3>1. ASSUME NEW domain \in inv.domains, row[i].key \in KeysOf[inv][domain]
          PROVE  FALSE
      <4>1. HighKey(domain, inv) = HighKey(d, mine)
        BY <1>2, <2>3, <3>1
      <4>2. domain = d
        BY <4>1 DEF HighKey
      <4> QED  BY <2>2, <2>3, <2>6, <3>1, <4>1, <4>2, InvoicesAssumption
    <3> QED  BY <2>6, <3>1 DEF mine
  <2> QED  BY <2>5, <2>6
<1> QED  BY <1>1, <1>3, InitTypeOK, NextTypeOK, NextKeysAreStaged, PTL DEF Spec
=============================================================================
