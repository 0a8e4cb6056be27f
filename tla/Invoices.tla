------------------------------ MODULE Invoices ------------------------------
(***************************************************************************)
(* The invoices behind the documents that reach the queue, and what the    *)
(* identity keys of their items are worth (F-32, F-33).                    *)
(*                                                                         *)
(* A writing of an invoice is a file name and a subject, as sequences of   *)
(* words (Identity).  Whatever it looks like, every number, date and total *)
(* that could be read from it is the invoice's, and there is one of each   *)
(* that no neighbour of its kind hides.  An undated or unnumbered writing  *)
(* is of low confidence: it states no number.                              *)
(***************************************************************************)
EXTENDS Queue, Identity

CONSTANTS
  Invoices,     \* records with the domains that its vendor's mail is staged
                \* under, a number, a date and an amount
  InvoiceOf,    \* the invoice that the bytes of each document are
  Writings,     \* of each invoice: the writings that state its number
  LowWritings   \* of each invoice: the writings that do not
-----------------------------------------------------------------------------
(* What a text states. *)

(* The places of a pattern that no neighbour of the pattern hides. *)
Leading(places) == {i \in places : i - 1 \notin places}

NumbersBehind(text, keywords) ==
  {Number(text[i]) : i \in {j \in DOMAIN text : j - 1 \in keywords /\ ContainsDigit(text[j])}}

DatesAt(text, places) ==
  {<<text[i].y, text[i].m, text[i].d>> : i \in {j \in places : ValidYMD(text[j])}}

MonthsAt(text, places) ==
  {<<text[i].y, text[i].m>> : i \in {j \in places : text[j].m \in 1..12}}

NumbersIn(text) == NumbersBehind(text, Keywords(text))
DatesIn(text)   == UNION {DatesAt(text, Dates(text, DateStyles[k])) : k \in DOMAIN DateStyles}
AmountsIn(text) == {NormalizeAmount(text[i]) : i \in Amounts(text)}
PeriodsIn(text) == MonthsAt(text, Months(text) \cup Dates(text, "iso"))

ShowsNumber(text) == NumbersBehind(text, Leading(Keywords(text))) # {}
ShowsDate(text) ==
  \E k \in DOMAIN DateStyles : DatesAt(text, Leading(Dates(text, DateStyles[k]))) # {}
ShowsPeriod(text) == MonthsAt(text, Leading(Months(text)) \cup Dates(text, "iso")) # {}

TextsOf(writing) == {writing[1], writing[2]}

(* Nothing else than the date, and that in sight; the amount likewise. *)
StatesDate(writing, date) ==
  /\ \A text \in TextsOf(writing) : DatesIn(text) \subseteq {date}
  /\ \E text \in TextsOf(writing) : ShowsDate(text)

StatesAmount(writing, amount) ==
  /\ \A text \in TextsOf(writing) : AmountsIn(text) \subseteq {amount}
  /\ \E text \in TextsOf(writing) : AmountsIn(text) # {}

IsWriting(writing, inv) ==
  /\ \A text \in TextsOf(writing) : NumbersIn(text) \subseteq {inv.number}
  /\ \E text \in TextsOf(writing) : ShowsNumber(text)
  /\ StatesDate(writing, inv.date)
  /\ StatesAmount(writing, inv.amount)

(* The date, or nothing but its month. *)
StatesPeriod(writing, date) ==
  /\ \A text \in TextsOf(writing) : DatesIn(text) = {}
  /\ \A text \in TextsOf(writing) : PeriodsIn(text) \subseteq {<<date[1], date[2]>>}
  /\ \E text \in TextsOf(writing) : ShowsPeriod(text)

IsLowWriting(writing, inv) ==
  /\ \A text \in TextsOf(writing) : NumbersIn(text) = {}
  /\ StatesDate(writing, inv.date) \/ StatesPeriod(writing, inv.date)
  /\ StatesAmount(writing, inv.amount)
-----------------------------------------------------------------------------
HighKey(domain, inv) == <<domain, inv.number, inv.date, inv.amount>>
LowKey(domain, inv)  == <<domain, <<inv.date[1], inv.date[2]>>, inv.amount>>

(* The identity that extraction stages a document of a message with.        *)
KeyOf(msg, writing) ==
  LET domain == IF VendorOf[msg] = NULL THEN None ELSE VendorOf[msg]
      key    == ParseIdentity(domain, writing[1], writing[2])
  IN IF key = None THEN NULL ELSE key

(* No vendor has two invoices of one number, date and total, and no two     *)
(* vendors a domain in common; a document is staged from a writing of the   *)
(* invoice it is, out of a message of the vendor or of a sender without a   *)
(* domain.                                                                  *)
ASSUME InvoicesAssumption ==
  /\ \A inv \in Invoices : None \notin inv.domains
  /\ \A inv, other \in Invoices : \A domain \in inv.domains \cap other.domains :
       HighKey(domain, inv) = HighKey(domain, other) => inv = other
  /\ \A inv \in Invoices :
       \A writing \in Writings[inv] \cup LowWritings[inv] :
         \A text \in TextsOf(writing) : DOMAIN text \subseteq Nat \ {0}
  /\ \A inv \in Invoices : \A writing \in Writings[inv] : IsWriting(writing, inv)
  /\ \A inv \in Invoices : \A writing \in LowWritings[inv] : IsLowWriting(writing, inv)
  /\ \A doc \in Candidates :
       LET inv == InvoiceOf[doc.sha] IN
       /\ inv \in Invoices
       /\ VendorOf[doc.msg] \in inv.domains \cup {NULL}
       /\ \E writing \in Writings[inv] \cup LowWritings[inv] : doc.key = KeyOf(doc.msg, writing)
-----------------------------------------------------------------------------
(* The keys that the writings of an invoice get from mail of one domain.    *)
KeysOf ==
  [inv \in Invoices |-> [domain \in inv.domains |->
     {ParseIdentity(domain, w[1], w[2]) : w \in Writings[inv]}]]

LowKeysOf ==
  [inv \in Invoices |-> [domain \in inv.domains |->
     {ParseIdentity(domain, w[1], w[2]) : w \in LowWritings[inv]}]]

(* F-32, F-33: an item of high confidence carries the one key that every    *)
(* writing of its invoice has in mail of the same domain and no other       *)
(* invoice has in mail of any, however dates, amounts and numbers are       *)
(* written and wherever they stand, so an L3 badge never names another      *)
(* invoice, and no writing hides from it ("a wrong high-confidence match is *)
(* worse than a missed one", identity.go:55); and a writing without a       *)
(* number is keyed by the same domain, month and total.                     *)
OneKeyPerInvoice ==
  \A i \in Ids : row[i].key # NULL /\ Confidence(row[i].key) = "high" =>
    \A inv \in Invoices :
      IF inv = InvoiceOf[row[i].sha]
        THEN LET key == row[i].key IN
             /\ KeysOf[inv][key[1]] = {key}
             /\ LowKeysOf[inv][key[1]] \subseteq {<<key[1], <<key[3][1], key[3][2]>>, key[4]>>}
        ELSE \A domain \in inv.domains : row[i].key \notin KeysOf[inv][domain]
=============================================================================
