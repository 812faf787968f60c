---------------------------- MODULE MCTranscript ----------------------------
(* Two customers, of whom a list names one.  Nobody watches a run that may *)
(* ask for anything; a tab watches one that asks about one customer.       *)
EXTENDS Transcript, TLC

CONSTANTS a, b, n

TwoLists == {(a :> n) @@ (b :> None), (a :> None) @@ (b :> n)}

TwoScenes ==
    {[requests |-> Requests, says |-> {FALSE}, tabs |-> {}, errors |-> 2],
     [requests |-> [tool : {"history", "letter"}, of : {a}], says |-> {TRUE},
      tabs |-> Tabs, errors |-> 0]}
=============================================================================
