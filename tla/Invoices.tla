------------------------------ MODULE Invoices ------------------------------
(***************************************************************************)
(* InvoiceGenerator, services/payments/invoice_generator.py, with several  *)
(* threads that generate invoices and one storage bucket.                  *)
(*                                                                         *)
(* generate_invoice takes a number, which reads the clock; reads the clock *)
(* again; formats the data for an enterprise client, which changes the line*)
(* items of the caller in place; renders them; and uploads the document    *)
(* under a key made from both readings. A caller may invoice a purchase    *)
(* again, after a failure or in the other format, with the same line items.*)
(*                                                                         *)
(* A text is a sequence of kinds of characters. Dates, the company's name  *)
(* and address and the look of the document are left out.                  *)
(***************************************************************************)
EXTENDS Integers, Sequences, SequencesExt

CONSTANTS
  Purchases,
  UserSuffix,      \* purchase -> the last four characters of its user's id
  Amount,          \* purchase -> amount_cents
  EventName,       \* purchase -> text
  Threads,         \* callers of generate_invoice
  SecondsPerMonth, \* bound: how soon the month ends
  LastSecond,      \* bound: the clock
  MaxCalls         \* bound: calls of generate_invoice

\* "accented" decomposes into a letter and a combining mark; "dash" is any other
\* character outside ASCII.
Ascii == {"letter", "question"}
Text == Seq(Ascii \cup {"accented", "mark", "dash"})
IsAscii(text) == \A i \in DOMAIN text : text[i] \in Ascii

ASSUME InvoiceAmountAssumption == Amount \in [Purchases -> Int]
ASSUME TextAssumption == EventName \in [Purchases -> Text]
ASSUME InvoiceBoundAssumption ==
  /\ SecondsPerMonth \in Nat \ {0}
  /\ LastSecond \in Nat
  /\ MaxCalls \in Nat

VARIABLES
  now,       \* the clock
  items,     \* purchase -> description of the caller's line item
  storage,   \* the bucket: key -> document
  thread,    \* where each thread is
  answers,   \* what the callers were given
  calls      \* calls so far

invoiceVars == <<now, items, storage, thread, answers, calls>>

Free == [pc |-> "idle"]
MoveOn(p, state) == thread' = [thread EXCEPT ![p] = state]

-----------------------------------------------------------------------------
(* _format_amount and _strip_to_ascii                                      *)

Unpadded(n) ==
  IF n < 10 THEN <<n>>
  ELSE IF n < 100 THEN <<n \div 10, n % 10>>
  ELSE <<n \div 100, (n \div 10) % 10, n % 10>>

ThreeDigits(n) == <<n \div 100, (n \div 10) % 10, n % 10>>

groups_Unpadded[n \in Nat] ==
  IF n < 1000 THEN <<Unpadded(n)>>
  ELSE Append(groups_Unpadded[n \div 1000], Unpadded(n % 1000))

\* The groups of three digits of a whole number; all but the first are filled.
groups[n \in Nat] ==
  IF n < 1000 THEN <<Unpadded(n)>>
  ELSE Append(groups[n \div 1000], ThreeDigits(n % 1000))

FormatAmount_Unfilled(cents) ==
  [minus |-> cents < 0, whole |-> groups_Unpadded[cents \div 100],
   fraction |-> <<(cents % 100) \div 10, cents % 10>>]

\* // and % round towards minus infinity, for negative amounts too.
FormatAmount(cents) ==
  LET whole == cents \div 100
  IN  [minus |-> whole < 0, whole |-> groups[IF whole < 0 THEN -whole ELSE whole],
       fraction |-> <<(cents % 100) \div 10, cents % 10>>]

\* Reference: how a reader takes a formatted amount, digit by digit.
ReadBack(f) ==
  LET digits == FlattenSeq(f.whole) \o f.fraction
      cents  == FoldLeft(LAMBDA n, d : 10 * n + d, 0, digits)
  IN  IF f.minus THEN -cents ELSE cents

Normalized(text) ==
  FlattenSeq([i \in DOMAIN text |->
    IF text[i] = "accented" THEN <<"letter", "mark">> ELSE <<text[i]>>])

StripToAscii_KeepsMarks(text) ==
  [i \in DOMAIN Normalized(text) |->
    IF Normalized(text)[i] = "dash" THEN "question" ELSE Normalized(text)[i]]

\* NFKD, then errors="replace", which writes a question mark for a combining
\* mark as for everything else.
StripToAscii(text) ==
  [i \in DOMAIN Normalized(text) |->
    IF Normalized(text)[i] \in Ascii THEN Normalized(text)[i] ELSE "question"]

-----------------------------------------------------------------------------
(* generate_invoice                                                        *)

\* The description of the line item the code makes up: "Ticket (dash) name".
DefaultItem(b) == <<"letter", "dash">> \o EventName[b]

GenerateInvoiceNumber_TimeOnly(b) == <<now, "">>

GenerateInvoiceNumber(b) == <<now, UserSuffix[b]>>

\* A call for a purchase, for an enterprise client or not, with line items of
\* the caller or without, gets its number.
GenerateInvoice(p) ==
  /\ thread[p] = Free
  /\ calls < MaxCalls
  /\ calls' = calls + 1
  /\ \E b \in Purchases, enterprise \in BOOLEAN, own \in BOOLEAN :
       MoveOn(p, [pc |-> "assembling", purchase |-> b, enterprise |-> enterprise,
                own |-> own, number |-> GenerateInvoiceNumber(b)])
  /\ UNCHANGED <<now, items, storage, answers>>

\* What the template is given beside the line items of the caller, whose
\* amounts are formatted as the total is.
Assembled(s) ==
  LET b == s.purchase
      Form(text) == IF s.enterprise THEN StripToAscii(text) ELSE text
  IN  [pc |-> "rendering", purchase |-> b, enterprise |-> s.enterprise,
       own |-> s.own, number |-> s.number, month |-> now \div SecondsPerMonth,
       name |-> Form(EventName[b]), item |-> Form(DefaultItem(b)),
       total |-> FormatAmount(Amount[b])]

AssembleAndFormat_TopLevelOnly(p) ==
  /\ thread[p].pc = "assembling"
  /\ MoveOn(p, Assembled(thread[p]))
  /\ UNCHANGED <<now, items, storage, answers, calls>>

AssembleAndFormat_NameInItem(p) ==
  LET s == thread[p]
  IN  /\ s.pc = "assembling"
      /\ items' = IF s.enterprise /\ s.own
                    THEN [items EXCEPT ![s.purchase] = StripToAscii(EventName[s.purchase])]
                    ELSE items
      /\ MoveOn(p, Assembled(s))
      /\ UNCHANGED <<now, storage, answers, calls>>

\* The clock again, and format_for_client. It copies the invoice, not the list
\* of items: the descriptions it strips are those of the caller.
AssembleAndFormat(p) ==
  LET s == thread[p]
  IN  /\ s.pc = "assembling"
      /\ items' = IF s.enterprise /\ s.own
                    THEN [items EXCEPT ![s.purchase] = StripToAscii(@)]
                    ELSE items
      /\ MoveOn(p, Assembled(s))
      /\ UNCHANGED <<now, storage, answers, calls>>

\* The template reads the line items when it is rendered.
RenderPdf(p) ==
  LET s == thread[p]
  IN  /\ s.pc = "rendering"
      /\ MoveOn(p, [pc |-> "uploading", key |-> <<s.month, s.number>>,
                  document |->
                    [number |-> s.number, purchase |-> s.purchase,
                     enterprise |-> s.enterprise, name |-> s.name, total |-> s.total,
                     item |-> IF s.own THEN items[s.purchase] ELSE s.item]])
      /\ UNCHANGED <<now, items, storage, answers, calls>>

\* InvoiceGenerationError, or an error of the storage. Line items that were
\* formatted stay so.
Fail(p) ==
  /\ thread[p].pc \in {"rendering", "uploading", "answering"}
  /\ MoveOn(p, Free)
  /\ UNCHANGED <<now, items, storage, answers, calls>>

\* An upload replaces what was stored under its key.
UploadToStorage(p) ==
  LET s == thread[p]
  IN  /\ s.pc = "uploading"
      /\ storage' = [k \in DOMAIN storage \cup {s.key} |->
                      IF k = s.key THEN s.document ELSE storage[k]]
      /\ MoveOn(p, [s EXCEPT !.pc = "answering"])
      /\ UNCHANGED <<now, items, answers, calls>>

AnswerWithLink(p) ==
  LET s == thread[p]
  IN  /\ s.pc = "answering"
      /\ answers' = answers \cup {[key |-> s.key, number |-> s.document.number,
                                 purchase |-> s.document.purchase]}
      /\ MoveOn(p, Free)
      /\ UNCHANGED <<now, items, storage, calls>>

ClockTicks ==
  /\ now < LastSecond
  /\ now' = now + 1
  /\ UNCHANGED <<items, storage, thread, answers, calls>>

InvoiceInit ==
  /\ now = 0
  /\ items = [b \in Purchases |-> DefaultItem(b)]
  /\ storage = << >>
  /\ thread = [p \in Threads |-> Free]
  /\ answers = {}
  /\ calls = 0

InvoiceNext ==
  \/ \E p \in Threads :
       \/ GenerateInvoice(p) \/ AssembleAndFormat(p) \/ RenderPdf(p) \/ Fail(p)
       \/ UploadToStorage(p) \/ AnswerWithLink(p)
  \/ ClockTicks

InvoiceSpec == InvoiceInit /\ [][InvoiceNext]_invoiceVars

-----------------------------------------------------------------------------
(* Properties the code has                                                 *)

Documents == {storage[k] : k \in DOMAIN storage}

Numbers == (0 .. LastSecond) \X {UserSuffix[b] : b \in Purchases}
Keys == (0 .. LastSecond) \X Numbers
Totals == {FormatAmount(Amount[b]) : b \in Purchases}
Document == [number: Numbers, purchase: Purchases, enterprise: BOOLEAN,
             name: Text, total: Totals, item: Text]

Assembling == [pc: {"assembling"}, purchase: Purchases, enterprise: BOOLEAN,
               own: BOOLEAN, number: Numbers]
Rendering == [pc: {"rendering"}, purchase: Purchases, enterprise: BOOLEAN,
              own: BOOLEAN, number: Numbers, month: 0 .. LastSecond,
              name: Text, item: Text, total: Totals]
Storing == [pc: {"uploading", "answering"}, key: Keys, document: Document]

InvoiceTypeOK ==
  /\ now \in 0 .. LastSecond
  /\ calls \in 0 .. MaxCalls
  /\ items \in [Purchases -> Text]
  /\ \A b \in Purchases : items[b] \in {DefaultItem(b), StripToAscii(DefaultItem(b))}
  /\ thread \in [Threads -> {Free} \cup Assembling \cup Rendering \cup Storing]
  /\ DOMAIN storage \subseteq Keys
  /\ Documents \subseteq Document
  /\ answers \subseteq [key: Keys, number: Numbers, purchase: Purchases]

\* Lines 54-58 and 233-241: an enterprise client's document has no character
\* outside ASCII, whoever passed the line items and whatever other calls did to
\* them.
EnterpriseIsAscii ==
  \A d \in Documents : d.enterprise => IsAscii(d.name) /\ IsAscii(d.item)

\* Lines 260-286: the amount on an enterprise client's document, read digit by
\* digit, is the amount of the purchase.
AmountsReadBack ==
  \A d \in Documents : d.enterprise => ReadBack(d.total) = Amount[d.purchase]

\* Lines 160-161 and 305-312: a link that was answered leads to a document with
\* that number, for a user id with the same ending.
LinksLeadToTheirNumber ==
  \A a \in answers :
    /\ a.key \in DOMAIN storage
    /\ storage[a.key].number = a.number
    /\ UserSuffix[storage[a.key].purchase] = UserSuffix[a.purchase]

\* What these rest on. A document belongs under its key: the number is in both,
\* and everything in the document is of the purchase the number was made for.
BelongsUnder(key, d) ==
  /\ key[2] = d.number
  /\ d.number[2] = UserSuffix[d.purchase]
  /\ d.total = FormatAmount(Amount[d.purchase])
  /\ d.enterprise => IsAscii(d.name) /\ IsAscii(d.item)

StoredAgree == \A k \in DOMAIN storage : BelongsUnder(k, storage[k])

AnswersAgree ==
  \A a \in answers :
    /\ a.key \in DOMAIN storage
    /\ a.key[2] = a.number
    /\ a.number[2] = UserSuffix[a.purchase]

\* While an enterprise client's document waits for the template, the line item
\* of the caller stays stripped: nobody writes accents back.
ThreadsAgree ==
  \A p \in Threads :
    LET s == thread[p]
    IN  /\ s.pc \in {"assembling", "rendering"} => s.number[2] = UserSuffix[s.purchase]
        /\ s.pc = "rendering" =>
             /\ s.total = FormatAmount(Amount[s.purchase])
             /\ s.enterprise => IsAscii(s.name) /\ IsAscii(s.item)
             /\ s.enterprise /\ s.own => IsAscii(items[s.purchase])
        /\ s.pc \in {"uploading", "answering"} => BelongsUnder(s.key, s.document)
        /\ s.pc = "answering" => s.key \in DOMAIN storage

InvoiceIInv == InvoiceTypeOK /\ StoredAgree /\ AnswersAgree /\ ThreadsAgree

-----------------------------------------------------------------------------
(* Properties the repository states and the code does not have             *)

\* Line 306: "Generate a unique, human-readable invoice number."
NumbersAreUnique ==
  \A a, b \in answers : a.purchase # b.purchase => a.number # b.number

\* Lines 84-85: standard invoices use UTF-8. Their text is what the caller gave.
StandardKeepsText ==
  \A d \in Documents : ~d.enterprise => d.item = DefaultItem(d.purchase)

\* Lines 292-294: an accented letter is transliterated to its base letter; only
\* characters that cannot be decomposed become question marks.
AccentsAreTransliterated ==
  \A d \in Documents :
    d.enterprise =>
      Len(SelectSeq(d.name, LAMBDA c : c = "question"))
        = Len(SelectSeq(EventName[d.purchase], LAMBDA c : c = "dash"))

=============================================================================
