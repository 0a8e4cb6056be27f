------------------------------ MODULE MCQueue ------------------------------
(***************************************************************************)
(* A small instance of Queue: three messages of one vendor, one of them    *)
(* with a header that does not parse, and one without a sender domain; two *)
(* documents that are copies of one invoice (the re-scan that L3 is for),  *)
(* some of them arriving under Peppol suppression, one copy that needs     *)
(* manual handling.                                                        *)
(*                                                                         *)
(* Their identity keys are parsed (Identity) from writings of the invoice. *)
(* The corpus holds three invoices in every writing: date style, amount    *)
(* style, case of the number, what is in the file name and what in the     *)
(* subject, and the distracting words around it.                           *)
(***************************************************************************)
EXTENDS Invoices, TLC

CONSTANTS m1, m2, m3, m4, s1, s2, v1

Header(form, parses, before, domain, case) ==
  [form |-> form, parses |-> parses, local |-> "billing", domain |-> domain,
   before |-> before, case |-> case]

(* Billing <billing@v1>, Billing@V1 (Accounts), NoReply@ and                *)
(* Billing, Dept <billing@v1>.                                              *)
FromOf == (m1 :> Header("angle", TRUE, "name", v1, "lower"))
            @@ (m2 :> Header("comment", TRUE, "billing", v1, "mixed"))
            @@ (m3 :> Header("bare", FALSE, "noreply", None, "mixed"))
            @@ (m4 :> Header("angle", FALSE, "name", v1, "lower"))

DomainOrNULL(domain) == IF domain = None THEN NULL ELSE domain

MCVendorOf == [m \in Msgs |-> DomainOrNULL(VendorDomain(FromOf[m]))]

MCTaughtOf == [m \in Msgs |-> DomainOrNULL(PortalVendorDomain(FromOf[m]))]

MCVendors == UNION {{MCVendorOf[m], MCTaughtOf[m]} : m \in Msgs} \ {NULL}

(* The invoices of the corpus, as their vendor issued them: the second has  *)
(* day and month of the first swapped, the third the number of digits.      *)
Issued(number, m, d, cents) ==
  [domains |-> MCVendors, number |-> <<number, "upper">>, date |-> <<2024, m, d>>, amount |-> <<cents>>]
Rent  == Issued("f12", 3, 4, 123456)
April == Issued("f12", 4, 3, 123456)
Phone == Issued("f21", 3, 4, 123400)
MCInvoices == {Rent, April, Phone}

Keyword == [kind |-> "keyword"]
Code(text, case, digit) == [kind |-> "code", text |-> text, case |-> case, digit |-> digit]
Day(style, y, m, d) == [kind |-> "date", style |-> style, y |-> y, m |-> m, d |-> d]
Group(n, len) == [n |-> n, len |-> len]
Euro(groups, seps) ==
  [kind |-> "amount", groups |-> groups, seps |-> seps, currency |-> TRUE]

(* 1.234,56  1,234.56  1234,56  1234.56  and, without cents, 1234 and 1.234 *)
AmountsOf(cents) ==
  LET euros == cents \div 100
      split == <<Group(euros \div 1000, 1), Group(euros % 1000, 3)>>
      rest  == Group(cents % 100, 2)
  IN {Euro(Append(split, rest), <<".", ",">>), Euro(Append(split, rest), <<",", ".">>),
      Euro(<<Group(euros, 4), rest>>, <<",">>), Euro(<<Group(euros, 4), rest>>, <<".">>)}
     \cup IF cents % 100 # 0 THEN {}
          ELSE {Euro(<<Group(euros, 4)>>, <<>>), Euro(split, <<".">>)}

(* Words a mail brings along: a period, an amount without a currency, a     *)
(* reference without a keyword, a date that is none.                        *)
Noise == <<[kind |-> "month", y |-> 2023, m |-> 12], Code("po", "lower", FALSE),
           [kind |-> "amount", groups |-> <<Group(99, 2)>>, seps |-> <<>>, currency |-> FALSE],
           Code("q3", "upper", TRUE), Day("dash", 2024, 13, 40)>>

(* Where the words stand: all in the file name, all in the subject, the     *)
(* number in one and the rest in the other, in either order.                *)
Placements(number, date, amount) ==
  {<<<<Keyword, number, date, amount>>, Noise>>,
   <<Noise, <<amount, date, Keyword, number>>>>,
   <<<<Keyword, number>> \o Noise, <<amount, date>>>>,
   <<<<Keyword, Code("scan", "lower", FALSE), date>>, Noise \o <<Keyword, number, amount>>>>}

WrittenDay(style, date) == Day(style, date[1], date[2], date[3])

MCWritings ==
  [inv \in MCInvoices |->
     UNION {Placements(Code(inv.number[1], case, TRUE), WrittenDay(style, inv.date), amount) :
              case \in {"lower", "upper"},
              style \in {"iso", "slash", "dash", "dot"},
              amount \in AmountsOf(inv.amount[1])}]

(* With the date, or with its month only. *)
MCLowWritings ==
  [inv \in MCInvoices |->
     {<<<<amount>>, <<Code("q3", "upper", TRUE), when>>>> :
        amount \in AmountsOf(inv.amount[1]),
        when \in {WrittenDay("dot", inv.date), Day("iso", inv.date[1], inv.date[2], 40),
                  [kind |-> "month", y |-> inv.date[1], m |-> inv.date[2]]}}]

MCInvoiceOf == (s1 :> Rent) @@ (s2 :> Rent)

(* The documents extraction asks to stage. *)
Globs == {[valid |-> TRUE, local |-> "*", domain |-> v1, case |-> "mixed"],
          [valid |-> TRUE, local |-> "noreply", domain |-> "*", case |-> "lower"],
          [valid |-> FALSE, local |-> "*", domain |-> "*", case |-> "lower"]}

Doc(msg, sha, writing, globs) ==
  LET key == ParseIdentity(VendorDomain(FromOf[msg]), writing[1], writing[2])
  IN [msg |-> msg, sha |-> sha, key |-> IF key = None THEN NULL ELSE key,
      suppressed |-> MatchesKnownPeppol(FromOf[msg], globs), manual |-> FALSE]

AsFiled   == CHOOSE w \in MCWritings[Rent] : w[2] = Noise
AsScanned == CHOOSE w \in MCWritings[Rent] : w[1] = Noise

MCCandidates ==
  {Doc(m1, s1, AsFiled, {}), Doc(m1, s1, AsFiled, Globs), Doc(m2, s1, AsFiled, {}),
   Doc(m2, s2, AsScanned, {}), Doc(m3, s2, AsScanned, Globs), Doc(m4, s2, AsScanned, Globs),
   [Doc(m3, s1, AsFiled, {}) EXCEPT !.manual = TRUE]}

MCKeys == {doc.key : doc \in MCCandidates} \ {NULL}
=============================================================================
