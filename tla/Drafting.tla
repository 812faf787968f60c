------------------------------ MODULE Drafting ------------------------------
(***************************************************************************)
(* What one run of the agent may learn about invoices and what it may      *)
(* propose: the tools of app/agent/tools, the Stripe reader behind them    *)
(* (app/stripe_client/read.py) and the letter guardrails                   *)
(* (app/agent/guardrails.py).  The tools of a run execute one at a time;   *)
(* Stripe, the calendar and the operator change between any two requests.  *)
(*                                                                         *)
(* An invoice stands for itself and its customer.  Texts are reduced to    *)
(* what the guardrails look for; dates are whole days; a payment link is   *)
(* an invoice and the number of the read that issued it.                   *)
(***************************************************************************)
EXTENDS Integers, FiniteSets, Sequences

CONSTANTS
    Invoices,       \* finalized invoices in the Stripe account
    OnClock,        \* those that only a scan of test-clock customers finds
    Amount,         \* amount_due of each, in minor units
    Due,            \* the day each fell or falls due
    Created,        \* creation order: Stripe lists the newest first
    Snapshot,       \* the address frozen onto each at finalization
    Addresses,      \* addresses a customer may have
    OnFile,         \* what each customer record may hold when the run begins
    NoEmail,        \* a customer without one
    None,
    Issues,         \* which read issued a payment link
    PageSize,       \* PAGE_SIZE
    Floor,          \* min_days_overdue_floor
    Attempts,       \* max_attempts
    MaxProposals,   \* max_proposals
    Thresholds, Limits, Minima,  \* the arguments the agent may pass
    Letters,        \* the letters the agent may write
    FirstDay, LastDay, MaxChanges  \* bounds on the calendar and on Stripe's changes

ASSUME DraftingAssumption ==
    /\ IsFiniteSet(Invoices) /\ OnClock \subseteq Invoices
    /\ Amount \in [Invoices -> Nat] /\ Due \in [Invoices -> Nat] /\ Created \in [Invoices -> Nat]
    /\ \A i, j \in Invoices : Created[i] = Created[j] => i = j
    /\ Snapshot \in [Invoices -> Addresses] /\ NoEmail \notin Addresses
    /\ Attempts \in Nat \ {0} /\ PageSize \in Nat \ {0} /\ Limits \subseteq Nat \ {0}
    /\ Floor \in Nat /\ Thresholds \ {None} \subseteq Nat
    /\ FirstDay \in Nat /\ LastDay \in Nat /\ FirstDay <= LastDay /\ MaxChanges \in Nat

VARIABLES
    today,      \* the day the process's clock shows
    open,       \* the invoices whose status is open
    email,      \* the address on each customer record
    changes,    \* how often Stripe's records have changed: a bound
    call,       \* the Stripe request in progress, or Idle
    facts,      \* ToolRegistry.facts_by_invoice
    answer,     \* what the last tool call returned to the agent
    proposals,  \* the run's proposals, in order
    held        \* history: the addresses each customer has had during the run

vars == <<today, open, email, changes, call, facts, answer, proposals, held>>
stripe == <<today, open, email, changes, held>>

Days == 0..LastDay
Reading == [invoice: Invoices, email: Addresses \cup {NoEmail}, issue: Issues]
Facts == [days: Days, email: Addresses \cup {NoEmail}, issue: Issues, looked: BOOLEAN]
Proposal == [invoice: Invoices, days: Days, email: Addresses, letter: Letters, looked: BOOLEAN,
             pending: BOOLEAN]

\* History: found is what matched when the page was read, skipped the request
\* without which the list went on.
Idle == [at |-> "idle"]
ListCall == [at: {"page", "clocks", "customers", "scan"}, now: Days, days: Nat, limit: Limits,
             least: Minima, raw: Seq(Reading), left: SUBSET OnClock, tries: 0 .. Attempts - 1,
             found: SUBSET Invoices, skipped: {"none", "page", "clocks", "customers", "scan"}]
GetCall == [at: {"get"}, invoice: Invoices, tries: 0 .. Attempts - 1]
Nothing == [kind |-> "nothing"]

Init ==
    /\ today = FirstDay
    /\ open = Invoices
    /\ email \in {e \in [Invoices -> Addresses \cup {NoEmail}] :
                    \A i \in Invoices : e[i] \in OnFile[i]}
    /\ changes = 0
    /\ call = Idle
    /\ facts = [i \in Invoices |-> None]
    /\ answer = Nothing
    /\ proposals = <<>>
    /\ held = [i \in Invoices |-> {email[i]}]

-----------------------------------------------------------------------------
(* Projections *)

Larger(a, b) == IF a > b THEN a ELSE b
Smaller(a, b) == IF a < b THEN a ELSE b

\* Whole days past the due date, never negative.
days_overdue(i, now) == Larger(0, now - Due[i])

\* Mistake: the invoice's own address when the customer has none.
ProjectedEmailOrSnapshot(i) == IF email[i] = NoEmail THEN Snapshot[i] ELSE email[i]

\* The customer is expanded in every request the tools make, so the address
\* is the customer's own and never the invoice's snapshot.
ProjectedEmail(i) == email[i]

project_invoice(i, issue) == [invoice |-> i, email |-> ProjectedEmail(i), issue |-> issue]

\* looked is history: get_invoice read the facts, of an invoice below the floor.
letter_facts(reading, now, get) ==
    LET days == days_overdue(reading.invoice, now)
    IN [days |-> days, email |-> reading.email, issue |-> reading.issue,
        looked |-> get /\ days < Floor]

\* Mistake: an invoice without an address is not told apart.
AlwaysDeliverable(f) == TRUE

deliverable(f) == f.email # NoEmail

-----------------------------------------------------------------------------
(* list_overdue_invoices *)

\* Mistake: the agent's threshold replaces the operator's.
EffectiveAsAsked(requested) == IF requested = None THEN Floor ELSE requested

Effective(requested) == IF requested = None THEN Floor ELSE Larger(Floor, requested)

StartList(requested, limit, least) ==
    /\ call = Idle
    /\ call' = [at |-> "page", now |-> today, days |-> Effective(requested), limit |-> limit,
                least |-> least, raw |-> <<>>, left |-> {}, tries |-> 0, found |-> {},
                skipped |-> "none"]
    /\ answer' = Nothing
    /\ UNCHANGED <<stripe, facts, proposals>>

\* An invoice's place in the list is the number of newer ones, and one.
Newer(S, i) == {j \in S : Created[j] > Created[i]}
NewestFirst(S) ==
    [n \in 1 .. Cardinality(S) |-> CHOOSE i \in S : Cardinality(Newer(S, i)) = n - 1]

\* The server-side filter, which both of the invoice queries send.
OverdueAt(now) == {i \in open : Due[i] < now}

\* One page and never a second: what PageSize newer invoices precede is not read.
FirstPage(S) == SubSeq(NewestFirst(S), 1, Smaller(Cardinality(S), PageSize))

ReadPage ==
    /\ call.at = "page"
    /\ \E issue \in Issues :
         LET found == OverdueAt(call.now) \ OnClock
             page == FirstPage(found)
         IN call' = [call EXCEPT !.at = "clocks", !.tries = 0, !.found = found,
                       !.raw = [n \in DOMAIN page |-> project_invoice(page[n], issue)]]
    /\ UNCHANGED <<stripe, facts, answer, proposals>>

\* test_clocks.list, then the customers of a clock; left is who is still to be
\* read.  Every customer in OnClock is on the same clock.
ListClocks ==
    /\ call.at = "clocks"
    /\ call' = [call EXCEPT !.at = "customers", !.tries = 0]
    /\ UNCHANGED <<stripe, facts, answer, proposals>>

ListClockCustomers ==
    /\ call.at = "customers"
    /\ call' = [call EXCEPT !.at = "scan", !.tries = 0, !.left = OnClock]
    /\ UNCHANGED <<stripe, facts, answer, proposals>>

ScanCustomer ==
    /\ call.at = "scan"
    /\ \E i \in call.left, issue \in Issues :
         call' = [call EXCEPT !.tries = 0, !.left = @ \ {i},
                    !.raw = IF i \in OverdueAt(call.now)
                            THEN Append(@, project_invoice(i, issue)) ELSE @]
    /\ UNCHANGED <<stripe, facts, answer, proposals>>

\* The thresholds of a list call, or of its answer.
Asked(q, i) ==
    /\ days_overdue(i, q.now) >= q.days
    /\ q.least # None => Amount[i] >= q.least

Wanted(reading) == Asked(call, reading.invoice)

WantedPlaces(readings) == {n \in DOMAIN readings : Wanted(readings[n])}

\* What precedes a reading in the sorted list: larger amounts and, the sort
\* being stable, equal ones read earlier.
Ahead(readings, n) ==
    {m \in WantedPlaces(readings) :
        LET theirs == Amount[readings[m].invoice]
            own == Amount[readings[n].invoice]
        IN theirs > own \/ (theirs = own /\ m < n)}

\* The first `limit` readings of the sorted list.
Shown(readings) ==
    {readings[n] : n \in {m \in WantedPlaces(readings) :
                             Cardinality(Ahead(readings, m)) < call.limit}}

\* _harvest: the facts of every invoice in the result replace the older ones.
Harvest(readings, now, get) ==
    [i \in Invoices |->
        IF \E r \in readings : r.invoice = i
        THEN letter_facts(CHOOSE r \in readings : r.invoice = i, now, get)
        ELSE facts[i]]

FinishList ==
    /\ call.at = "scan" /\ call.left = {}
    /\ LET shown == Shown(call.raw)
       IN /\ facts' = Harvest(shown, call.now, FALSE)
          /\ answer' = [kind |-> "list", shown |-> {r.invoice : r \in shown},
                        now |-> call.now, days |-> call.days, limit |-> call.limit,
                        least |-> call.least, found |-> call.found, skipped |-> call.skipped]
    /\ call' = Idle
    /\ UNCHANGED <<stripe, proposals>>

-----------------------------------------------------------------------------
(* get_invoice: any invoice, open or not, overdue or not; its clock is read *)
(* after the request.                                                        *)

StartGet(i) ==
    /\ call = Idle
    /\ call' = [at |-> "get", invoice |-> i, tries |-> 0]
    /\ answer' = Nothing
    /\ UNCHANGED <<stripe, facts, proposals>>

FinishGet ==
    /\ call.at = "get"
    /\ \E issue \in Issues :
         facts' = Harvest({project_invoice(call.invoice, issue)}, today, TRUE)
    /\ answer' = [kind |-> "invoice"]
    /\ call' = Idle
    /\ UNCHANGED <<stripe, proposals>>

-----------------------------------------------------------------------------
(* A request that fails *)

Requesting == call # Idle /\ (call.at = "scan" => call.left # {})

\* Mistake: the attempts start over when they are used up.
StartOver == call' = [call EXCEPT !.tries = 0] /\ UNCHANGED answer

\* Mistake: whatever fails in the scan is skipped.
SkipTheScan ==
    IF call.at \in {"clocks", "customers", "scan"}
    THEN /\ call' = [call EXCEPT !.at = "scan", !.tries = 0, !.left = {}, !.skipped = call.at]
         /\ UNCHANGED answer
    ELSE /\ call' = Idle
         /\ answer' = [kind |-> "stripe_error"]

\* Only a failure to list the clocks is skipped: the scan then adds nothing.
\* Every other one is the whole tool call's error and teaches the run nothing.
GiveUp ==
    IF call.at = "clocks"
    THEN /\ call' = [call EXCEPT !.at = "scan", !.tries = 0, !.skipped = call.at]
         /\ UNCHANGED answer
    ELSE /\ call' = Idle
         /\ answer' = [kind |-> "stripe_error"]

Retried == call' = [call EXCEPT !.tries = @ + 1] /\ UNCHANGED answer

RateLimited ==
    /\ Requesting
    /\ IF call.tries + 1 < Attempts THEN Retried ELSE GiveUp
    /\ UNCHANGED <<stripe, facts, proposals>>

StripeError ==
    /\ Requesting
    /\ GiveUp
    /\ UNCHANGED <<stripe, facts, proposals>>

-----------------------------------------------------------------------------
(* The guardrails.  A letter is a subject, a body and the flaw, if any, of   *)
(* the tone and rationale that come with it.  A text has the amounts, the    *)
(* payment links and the bare numbers in it, the invoices whose numbers it   *)
(* names, the words it lacks (customer name, due date, dispute route) and    *)
(* what it claims that no letter may.                                        *)

Forbidden == {"legal_action", "credit_reporting", "collection_escalation",
              "fees_or_interest", "service_threat"}

ASSUME LettersAssumption ==
    \A letter \in Letters : /\ letter.subject.claims \subseteq Forbidden
                            /\ letter.body.claims \subseteq Forbidden
                            /\ letter.flaw \in {"none", "unknown_tone", "rationale_required"}

find_forbidden_claims(subject, body) == (subject.claims \cup body.claims) \cap Forbidden

\* Mistake: links compared as they stand.
links_match_exactly(link, other) == link = other

\* Stripe reissues a link at every read: only the invoice in it is compared.
links_match(link, other) == link.invoice = other.invoice

find_missing_facts(body, i, f) ==
    body.lacks
    \cup (IF i \in body.invoices THEN {} ELSE {"invoice number"})
    \cup (IF Amount[i] \in body.amounts THEN {} ELSE {"amount due"})
    \cup (IF f.days \in body.numbers THEN {} ELSE {"days overdue"})
    \cup (IF \E link \in body.links : links_match(link, [invoice |-> i, issue |-> f.issue])
          THEN {} ELSE {"hosted payment link"})

\* Amounts and links only: the number of another invoice is not looked for,
\* though the code announces it.  The integer in minor units is looked for only
\* when it has four digits or more.
find_invented_figures(body, i, f) ==
    (IF body.amounts \subseteq {Amount[i]} THEN {} ELSE {"invented_amount"})
    \cup (IF \A link \in body.links : links_match(link, [invoice |-> i, issue |-> f.issue])
          THEN {} ELSE {"invented_link"})
    \cup (IF Amount[i] >= 1000 /\ Amount[i] \in body.numbers THEN {"raw_minor_units"} ELSE {})

\* The subject is searched for claims alone: an amount or a link in it may be
\* anything.
review_letter(letter, i, f) ==
    find_forbidden_claims(letter.subject, letter.body)
      \cup find_missing_facts(letter.body, i, f) \cup find_invented_figures(letter.body, i, f)

-----------------------------------------------------------------------------
(* propose_collection_letter: the refusals in the tool's order, the last of  *)
(* them by the table's index on pending proposals.                           *)

proposal_count == Len(proposals)

PendingFor(i) == \E n \in DOMAIN proposals : proposals[n].invoice = i /\ proposals[n].pending

Refusal(i, letter) ==
    IF facts[i] = None THEN "invoice_not_read"
    ELSE IF ~deliverable(facts[i]) THEN "not_deliverable"
    ELSE IF letter.flaw # "none" THEN letter.flaw  \* unknown_tone, rationale_required
    ELSE IF proposal_count >= MaxProposals THEN "proposal_cap_reached"
    ELSE IF review_letter(letter, i, facts[i]) # {} THEN "letter_rejected"
    ELSE IF PendingFor(i) THEN "duplicate_pending_proposal"
    ELSE "none"

Propose(i, letter) ==
    /\ call = Idle
    /\ answer' = [kind |-> Refusal(i, letter)]
    /\ proposals' = IF Refusal(i, letter) # "none" THEN proposals
                    ELSE Append(proposals, [invoice |-> i, days |-> facts[i].days,
                                            email |-> facts[i].email, letter |-> letter,
                                            looked |-> facts[i].looked, pending |-> TRUE])
    /\ UNCHANGED <<stripe, call, facts>>

-----------------------------------------------------------------------------
(* What changes meanwhile *)

Tomorrow ==
    /\ today < LastDay
    /\ today' = today + 1
    /\ UNCHANGED <<open, email, changes, call, facts, answer, proposals, held>>

Pay(i) ==
    /\ changes < MaxChanges /\ changes' = changes + 1
    /\ i \in open /\ open' = open \ {i}
    /\ UNCHANGED <<today, email, call, facts, answer, proposals, held>>

ChangeAddress(i) ==
    /\ changes < MaxChanges /\ changes' = changes + 1
    /\ \E e \in (Addresses \cup {NoEmail}) \ {email[i]} :
         /\ email' = [email EXCEPT ![i] = e]
         /\ held' = [held EXCEPT ![i] = @ \cup {e}]
    /\ UNCHANGED <<today, open, call, facts, answer, proposals>>

\* Rejected, expired or approved: the proposal is pending no more.
Settle ==
    /\ \E n \in DOMAIN proposals :
         /\ proposals[n].pending
         /\ proposals' = [proposals EXCEPT ![n].pending = FALSE]
    /\ UNCHANGED <<stripe, call, facts, answer>>

ToolStep == ReadPage \/ ListClocks \/ ListClockCustomers \/ ScanCustomer \/ FinishList
            \/ FinishGet \/ RateLimited \/ StripeError

Next ==
    \/ \E requested \in Thresholds, limit \in Limits, least \in Minima :
         StartList(requested, limit, least)
    \/ ReadPage
    \/ ListClocks
    \/ ListClockCustomers
    \/ ScanCustomer
    \/ FinishList
    \/ \E i \in Invoices : StartGet(i)
    \/ FinishGet
    \/ RateLimited
    \/ StripeError
    \/ \E i \in Invoices, letter \in Letters : Propose(i, letter)
    \/ Tomorrow
    \/ \E i \in Invoices : Pay(i)
    \/ \E i \in Invoices : ChangeAddress(i)
    \/ Settle

\* A run's thread carries out the request it started, and Stripe's client
\* gives every request an answer, if only a timeout.
Spec == Init /\ [][Next]_vars /\ WF_vars(ToolStep)

-----------------------------------------------------------------------------
(* Properties *)

\* Every variable keeps its type: a call holds only readings of known invoices,
\* within its attempts, and a proposal always has an address to go to.
TypeOK ==
    /\ today \in Days /\ open \subseteq Invoices /\ changes \in 0..MaxChanges
    /\ email \in [Invoices -> Addresses \cup {NoEmail}]
    /\ call \in {Idle} \cup ListCall \cup GetCall
    /\ facts \in [Invoices -> Facts \cup {None}]
    /\ proposals \in Seq(Proposal)
    /\ held \in [Invoices -> SUBSET (Addresses \cup {NoEmail})]

\* However low a threshold the agent passes, and though the list's requests
\* follow one another while days go by: a letter for an invoice that was not
\* past due by the operator's floor rests on facts that get_invoice read, the
\* one tool that knows no floor.
FloorUnlessLookedUp ==
    \A n \in DOMAIN proposals : proposals[n].days < Floor => proposals[n].looked

\* What a list may leave out, though its requests follow one another while
\* invoices are paid and any of them may fail.  An overdue invoice that passes the
\* thresholds and has stayed open is missing from an answer only because the
\* answer is full of invoices at least as large; or because a full page of newer
\* ones precedes it, whatever its amount; or because it is on a test clock and
\* the clocks could not be listed.  Any other failure fails the list.
NothingElseLeftOut ==
    answer.kind = "list" =>
        \A i \in OverdueAt(answer.now) \ answer.shown : Asked(answer, i) =>
            \/ /\ Cardinality(answer.shown) = answer.limit
               /\ \A j \in answer.shown : Amount[j] >= Amount[i]
            \/ i \notin OnClock /\ Cardinality(Newer(answer.found, i)) >= PageSize
            \/ i \in OnClock /\ answer.skipped = "clocks"

\* A proposal is addressed only where the customer could be reached at some
\* time in this run: never to the address an invoice still carries from
\* its finalization after the customer record has lost it.
AddressOnRecord ==
    \A n \in DOMAIN proposals : proposals[n].email \in held[proposals[n].invoice]

\* A body is about an invoice when it lacks nothing, names its number and days
\* overdue, and has no amount and no link but that invoice's, whichever read
\* issued the link.  It may name other invoices' numbers too.
BodyIsAbout(body, i, days) ==
    /\ body.lacks = {} /\ i \in body.invoices /\ days \in body.numbers
    /\ body.amounts = {Amount[i]}
    /\ body.links # {} /\ \A link \in body.links : link.invoice = i

ClaimsNothing(letter) == letter.subject.claims = {} /\ letter.body.claims = {}

\* A floor: however often facts are read again before and after, the body of a
\* queued letter is about its invoice with the days of its payload, and neither
\* subject nor body claims what no letter may.  Figures in the subject and the
\* numbers of other invoices are outside this: nobody checks them.  And not a
\* trap: a letter like that, for an invoice the run has read, is refused only
\* for repeating the minor-unit integer, even when Stripe has reissued the link
\* between the read it quotes and the latest.
QueuedLettersAreReviewed ==
    /\ \A n \in DOMAIN proposals :
         /\ ClaimsNothing(proposals[n].letter)
         /\ BodyIsAbout(proposals[n].letter.body, proposals[n].invoice, proposals[n].days)
    /\ \A i \in {j \in Invoices : facts[j] # None}, letter \in Letters :
         /\ ClaimsNothing(letter) /\ BodyIsAbout(letter.body, i, facts[i].days)
         /\ Amount[i] \notin letter.body.numbers
         => review_letter(letter, i, facts[i]) = {}

\* Why they hold.  The address a reading or a fact carries was on the customer's
\* record at some time in the run, and facts of an invoice below the floor were
\* looked up by get_invoice: a list reads nothing below its own threshold.
Recorded ==
    /\ \A i \in Invoices : email[i] \in held[i]
    /\ \A i \in Invoices : facts[i] # None =>
         facts[i].email \in held[i] /\ (facts[i].days < Floor => facts[i].looked)
    /\ call \in ListCall =>
         /\ call.days >= Floor
         /\ \A n \in DOMAIN call.raw : call.raw[n].email \in held[call.raw[n].invoice]

\* A list reads no invoice twice: the scan reads only the invoices on test
\* clocks, each once, which the first page does not show.
ReadOnce ==
    call \in ListCall =>
        /\ \A m, n \in DOMAIN call.raw : call.raw[m].invoice = call.raw[n].invoice => m = n
        /\ \A n \in DOMAIN call.raw :
             call.raw[n].invoice \notin (IF call.at = "scan" THEN call.left ELSE OnClock)

\* After its page a list has read what was found and is still open, but for what a
\* full page of newer ones precedes; and once it scans, what is on test clocks,
\* but for what is left and for a scan skipped with the listing of the clocks.
ReadSoFar ==
    call \in ListCall /\ call.at # "page" =>
        \A i \in OverdueAt(call.now) :
            \/ \E n \in DOMAIN call.raw : call.raw[n].invoice = i
            \/ i \notin OnClock /\ Cardinality(Newer(call.found, i)) >= PageSize
            \/ i \in OnClock /\ (call.at = "scan" => i \in call.left \/ call.skipped = "clocks")

\* The inductive invariant.
DraftInv ==
    /\ TypeOK /\ Recorded /\ ReadOnce /\ ReadSoFar
    /\ FloorUnlessLookedUp /\ AddressOnRecord /\ NothingElseLeftOut /\ QueuedLettersAreReviewed

\* Every tool call ends, with a result or an error the agent can read, however
\* often Stripe limits the rate of its requests.
CallsEnd == call # Idle ~> call = Idle
=============================================================================
