---------------------------- MODULE SendContract ----------------------------
(***************************************************************************)
(* What the approval boundary promises to the outside world, in two        *)
(* actions: a human grants one letter for one proposal under a nonce never *)
(* used before, and each grant lets at most one letter out, exactly the    *)
(* letter that was granted.                                                *)
(***************************************************************************)
EXTENDS Naturals, Sequences

CONSTANTS Proposals, Letters, Nonces

VARIABLES
    granted,        \* the approvals given: nonce, proposal and letter
    sent            \* the letters out, in order

Grant == [nonce: Nonces, proposal: Proposals, letter: Letters]

SpentNonces == {sent[i].nonce : i \in DOMAIN sent}

Init == granted = {} /\ sent = <<>>

Approve(g) ==
    /\ g.nonce \notin {h.nonce : h \in granted}
    /\ granted' = granted \cup {g}
    /\ UNCHANGED sent

Send(g) ==
    /\ g \in granted
    /\ g.nonce \notin SpentNonces
    /\ sent' = Append(sent, g)
    /\ UNCHANGED granted

Next == \E g \in Grant : Approve(g) \/ Send(g)

Spec == Init /\ [][Next]_<<granted, sent>>
=============================================================================
