----------------------------- MODULE MCDrafting -----------------------------
(* Three invoices: a is the largest and the oldest, not overdue by the floor  *)
(* at first; c is newer and fills the page, though it is small and not always *)
(* asked for; b is on a test clock, and its customer has no address at first. *)
EXTENDS Drafting, TLC

CONSTANTS a, b, c, x

MCAmount == (a :> 30000) @@ (b :> 25000) @@ (c :> 900)
MCDue == (a :> 1) @@ (b :> 0) @@ (c :> 0)
MCCreated == (a :> 1) @@ (b :> 3) @@ (c :> 2)
MCSnapshot == (a :> x) @@ (b :> x) @@ (c :> x)
MCOnFile == (a :> {x}) @@ (b :> {NoEmail}) @@ (c :> {x})

Link(i, n) == [invoice |-> i, issue |-> n]

\* A body about i with the link of read n and some days; a subject of words.
About(i, n, numbers) == [amounts |-> {MCAmount[i]}, links |-> {Link(i, n)}, invoices |-> {i},
                         numbers |-> numbers, lacks |-> {}, claims |-> {}]
Words == [amounts |-> {}, links |-> {}, invoices |-> {}, numbers |-> {}, lacks |-> {},
          claims |-> {}]

Plain == [subject |-> Words, body |-> About(a, 2, {1, 2}), flaw |-> "none"]

\* Letters that are right for a or b on some days; one for each mistake that is
\* looked for; and one with what is not: another invoice's number in its body, its
\* amount and link in the subject.
MCLetters ==
    {Plain, [Plain EXCEPT !.body = About(b, 1, {2})],
     [Plain EXCEPT !.body.amounts = {30000, 900}],
     [Plain EXCEPT !.body.links = {Link(a, 1), Link(b, 1)}],
     [Plain EXCEPT !.body.links = {}], [Plain EXCEPT !.body.numbers = {1, 2, 30000}],
     [Plain EXCEPT !.body.invoices = {c}], [Plain EXCEPT !.body.lacks = {"dispute route"}],
     [Plain EXCEPT !.body.claims = {"legal_action"}],
     [Plain EXCEPT !.subject.claims = {"legal_action"}],
     [Plain EXCEPT !.flaw = "unknown_tone"], [Plain EXCEPT !.flaw = "rationale_required"],
     [Plain EXCEPT !.body.numbers = {2}, !.body.invoices = {a, c},
                   !.subject.amounts = {900}, !.subject.links = {Link(c, 1)}]}
=============================================================================
