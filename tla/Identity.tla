------------------------------ MODULE Identity ------------------------------
(***************************************************************************)
(* internal/dedup: the identity key of dedup layer L3, parsed from a file  *)
(* name and a subject (identity.go), the sender's domain, and the          *)
(* known-Peppol match (peppol.go).  Pure functions.                        *)
(*                                                                         *)
(* A text is the sequence of the words its separators cut it into:         *)
(*   [kind |-> "keyword"]           factuur, invoice, rekening, inv ...    *)
(*   [kind |-> "code", text, case, digit]                                  *)
(*                                  any other word: how it is written, and *)
(*                                  whether a digit is in it               *)
(*   [kind |-> "date", style, y, m, d]                                     *)
(*                                  four digits of year; style "iso" is    *)
(*                                  year first, with dashes or slashes,    *)
(*                                  the others are day first               *)
(*   [kind |-> "month", y, m]       2024-08 or 2024/08                     *)
(*   [kind |-> "amount", groups, seps, currency]                           *)
(*                                  the groups of digits [n, len] and the  *)
(*                                  commas and dots between them, with or  *)
(*                                  without EUR attached                   *)
(* One character stands between two words, so a pattern that takes the     *)
(* character after its match hides the word that follows from itself.      *)
(***************************************************************************)
EXTENDS Integers, Sequences, FiniteSets

LOCAL INSTANCE SequencesExt
LOCAL INSTANCE FiniteSetsExt

None == <<>>   \* the empty string, the zero field, the zero Identity

(* FindAllStringSubmatch, of a pattern that fits the words at the indices    *)
(* `fitting': the matches from the left, where a match takes the following   *)
(* separator away from the next word.  So of neighbours that fit, every      *)
(* other one is a match, from the first.                                     *)
Matches(fitting) ==
  {i \in fitting :
     \E first \in 1..i : /\ first - 1 \notin fitting
                         /\ first..i \subseteq fitting
                         /\ (i - first) % 2 = 0}

(* The value of the first index in S, if any. *)
FirstValue(S, Value(_)) == IF S = {} THEN None ELSE Value(Min(S))

(* Every field is looked for in the file name, then in the subject.         *)
Either(inFilename, inSubject) == IF inFilename # None THEN inFilename ELSE inSubject
-----------------------------------------------------------------------------
(* Sender.  A From header is [form, parses, local, domain, before, case]:   *)
(*   form     "bare", the address alone; "angle", in angle brackets behind  *)
(*            a display name; "comment", with a comment behind it           *)
(*   parses   whether mail.ParseAddress takes it: an unquoted comma in the  *)
(*            display name is enough for it not to                          *)
(*   local, domain, case   the address; domain None: nothing behind its "@" *)
(*   before   all that stands before the last "@", the name included        *)
(* A header without an "@" has no domain either and is left out.            *)

(* What follows the last "@" of the whole header. *)
AfterAt(from) ==
  IF from.form = "bare" THEN from.domain ELSE <<from.domain, from.form>>

(* A header that does not parse is taken for an address as it stands.       *)
EmailAddress(from) ==
  [local  |-> IF from.parses THEN from.local ELSE from.before,
   domain |-> IF from.parses THEN from.domain ELSE AfterAt(from),
   case   |-> "lower"]

VendorDomain(from) == EmailAddress(from).domain

(* The review UI cuts the domain out of the header by itself: out of the    *)
(* last angle brackets, or behind the last "@" where there are none.        *)
PortalVendorDomain(from) == IF from.form = "angle" THEN from.domain ELSE AfterAt(from)

(* path.Match of a pattern [valid, local, domain, case], either side "*".   *)
Fits(glob, address) ==
  /\ glob.local \in {"*", address.local}
  /\ glob.domain \in {"*", address.domain}
  /\ glob.case = address.case

(* A pattern that does not compile is skipped. *)
MatchesKnownPeppol(from, globs) ==
  \E g \in globs : g.valid /\ Fits([g EXCEPT !.case = "lower"], EmailAddress(from))
-----------------------------------------------------------------------------
(* Invoice number. *)

IsKeyword(w) == w.kind = "keyword"

ContainsDigit(w) == ~IsKeyword(w) /\ (w.kind = "code" => w.digit)

(* The captured token, in upper case.  A date or an amount right behind a   *)
(* keyword is captured as well.                                             *)
Number(w) == IF w.kind = "code" THEN <<w.text, "upper">> ELSE <<w>>

Keywords(text) == {i \in DOMAIN text : IsKeyword(text[i])}

Captured(text) ==
  {i \in DOMAIN text : i - 1 \in Matches(Keywords(text)) /\ ContainsDigit(text[i])}

(* Slip: the number is compared as it was written.                          *)
ExtractInvoiceNumberAsWritten(text) ==
  FirstValue(Captured(text),
             LAMBDA i : IF text[i].kind = "code" THEN <<text[i].text, text[i].case>> ELSE <<text[i]>>)

ExtractInvoiceNumber(text) == FirstValue(Captured(text), LAMBDA i : Number(text[i]))

FindInvoiceNumber(filename, subject) ==
  Either(ExtractInvoiceNumber(filename), ExtractInvoiceNumber(subject))
-----------------------------------------------------------------------------
(* Date. *)

(* Not a calendar: 31 February passes. *)
ValidYMD(w) == w.m \in 1..12 /\ w.d \in 1..31 /\ w.y \in 2000..2100

DateStyles == <<"iso", "slash", "dash", "dot">>

Dates(text, style) == {i \in DOMAIN text : text[i].kind = "date" /\ text[i].style = style}

(* Year-first dates anywhere, then day-first dates by separator.            *)
ExtractDate(text) ==
  LET valid(k) == {i \in Matches(Dates(text, DateStyles[k])) : ValidYMD(text[i])}
  IN FirstValue({k \in DOMAIN DateStyles : valid(k) # {}},
       LAMBDA k : FirstValue(valid(k), LAMBDA i : <<text[i].y, text[i].m, text[i].d>>))

FindDate(filename, subject) == Either(ExtractDate(filename), ExtractDate(subject))

Months(text) == {i \in DOMAIN text : text[i].kind = "month"}

(* The pattern also fits the first two parts of a year-first date, and then *)
(* leaves the separator behind that date alone.                             *)
ExtractYearMonth(text) ==
  LET shown == Matches(Months(text)) \cup Dates(text, "iso")
  IN FirstValue({i \in shown : text[i].m \in 1..12}, LAMBDA i : <<text[i].y, text[i].m>>)

FindYearMonth(filename, subject) ==
  Either(ExtractYearMonth(filename), ExtractYearMonth(subject))
-----------------------------------------------------------------------------
(* Amount. *)

(* The number that a row of groups of digits spells. *)
Joined(groups) == FoldLeft(LAMBDA n, g : n * 10 ^ g.len + g.n, 0, groups)

(* Cents of a decimal part; more than two digits are rounded. *)
Cents(g) == IF g.len <= 2 THEN g.n * 10 ^ (2 - g.len)
            ELSE (g.n + 5 * 10 ^ (g.len - 3)) \div 10 ^ (g.len - 2)

WholeAmount(groups) == <<100 * Joined(groups)>>
DecimalAmount(groups) == <<100 * Joined(Front(groups)) + Cents(Last(groups))>>

(* In cents.  With commas and dots both, the last separator is the decimal  *)
(* one and must be alone of its kind.  With one kind, a last group of two   *)
(* digits is decimals and any other is thousands.                           *)
NormalizeAmount(w) ==
  LET n       == Len(w.seps)
      like(i) == w.seps[i] = w.seps[n]
  IN IF n = 0 THEN WholeAmount(w.groups)
     ELSE IF \A i \in 1..n : like(i)
       THEN IF Last(w.groups).len = 2 THEN DecimalAmount(w.groups) ELSE WholeAmount(w.groups)
     ELSE IF \E i \in 1..(n - 1) : like(i) THEN None
     ELSE DecimalAmount(w.groups)

Amounts(text) ==
  {i \in DOMAIN text : /\ text[i].kind = "amount"
                       /\ text[i].currency
                       /\ NormalizeAmount(text[i]) # None}

ExtractAmount(text) == FirstValue(Amounts(text), LAMBDA i : NormalizeAmount(text[i]))

FindAmount(filename, subject) == Either(ExtractAmount(filename), ExtractAmount(subject))
-----------------------------------------------------------------------------
(* The identity: four parts are a key of high confidence, three of low.     *)
ParseIdentity(vendor, filename, subject) ==
  LET number == FindInvoiceNumber(filename, subject)
      date   == FindDate(filename, subject)
      amount == FindAmount(filename, subject)
      month  == IF date # None THEN <<date[1], date[2]>>
                ELSE FindYearMonth(filename, subject)
  IN IF vendor = None \/ amount = None THEN None
     ELSE IF number # None /\ date # None THEN <<vendor, number, date, amount>>
     ELSE IF month # None THEN <<vendor, month, amount>>
     ELSE None

Confidence(key) == CASE Len(key) = 4 -> "high" [] Len(key) = 3 -> "low" [] OTHER -> ""
=============================================================================
