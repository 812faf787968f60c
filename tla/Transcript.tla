----------------------------- MODULE Transcript -----------------------------
(***************************************************************************)
(* What one run of the agent says, and who reads it: the conversation with *)
(* the model (app/agent/loop.py, llm.py), the steps kept of it, the names  *)
(* and the payment history that the pages take from those steps            *)
(* (app/api/queries.py), the rows that the run's page draws of them        *)
(* (app/web/routes.py) and the stream that adds to an open page            *)
(* (app/api/v1.py, run_detail.html).                                       *)
(*                                                                         *)
(* A customer stands for its one overdue invoice too.  A letter stands for *)
(* every tool that takes an invoice: what they return the pages do not     *)
(* look into.  Numbers and amounts, which every row carries, are left out. *)
(* That a run ends is AgentRuns' subject and assumed here.                 *)
(***************************************************************************)
EXTENDS Naturals, Sequences, FiniteSets, SequencesExt

CONSTANTS
    Customers,
    Names,          \* customer names
    None,
    Lists,          \* what a list of overdue invoices may say: a name of each, or None
    Long,           \* the tools whose results exceed MAX_RESULT_CHARS
    Numbering,      \* how its client numbers them: "turn" or "run"
    Tabs,           \* browser tabs
    Scenes,         \* instances: what the model may ask for and say, who may watch, the errors
    MaxTurns,       \* run_agent's max_turns
    MaxToolCalls,   \* max_tool_calls_per_run
    MaxCalls,       \* bounds the tool calls of one turn
    MaxCuts         \* bounds the connections and processes that are cut off

(* A tool and whom it is asked about.                                      *)
Requests == [tool : {"list"}, of : {None}] \cup [tool : {"history", "letter"}, of : Customers]

ASSUME TranscriptAssumption ==
    /\ Lists \subseteq [Customers -> Names \cup {None}] /\ None \notin Names \cup Customers
    /\ Scenes \subseteq [requests : SUBSET Requests, says : SUBSET BOOLEAN,
                        tabs : SUBSET Tabs, errors : Nat]
    /\ Numbering \in {"turn", "run"}
    /\ {MaxTurns, MaxToolCalls, MaxCalls, MaxCuts} \subseteq Nat

VARIABLES
    scene,          \* a bound: one of Scenes, from the beginning
    up,             \* the app's process runs
    status,         \* runs.status; "finished" is completed or awaiting_approval
    loop,           \* run_agent's program counter and locals
    messages,       \* run_agent's messages after the goal
    steps,          \* run_steps, by seq
    seen,           \* history: each customer's payment history as last returned to the agent
    tab,            \* each browser tab on the run's page, and its event stream
    cuts

vars == <<scene, up, status, loop, messages, steps, seen, tab, cuts>>
reader == <<scene, up, tab, cuts>>

(* What the model asks for, and how it is stored and answered.             *)
Call == [tool : {"list"}, of : {None}, id : Nat]
        \cup [tool : {"history", "letter"}, of : Customers, id : Nat]
CallStep == [type : {"tool_call"}, tool : {"list"}, of : {None}, id : Nat]
            \cup [type : {"tool_call"}, tool : {"history", "letter"}, of : Customers, id : Nat]
Listing == [names : Lists]
History == [of : Customers, version : Nat]
ResultStep ==
    LET Of(tools, wrong, results) == [type : {"tool_result"}, tool : tools, id : Nat,
                                      error : {wrong}, result : results]
    IN  Of({"list"}, FALSE, Listing) \cup Of({"history"}, FALSE, History)
        \cup Of({"letter"}, FALSE, {None}) \cup Of({"list", "history", "letter"}, TRUE, {None})
Block == [id : Nat, error : BOOLEAN,
          content : [text : Listing \cup History \cup {None}, cut : BOOLEAN]]

Message == [type |-> "message", tool |-> "none"]
Step == {Message} \cup CallStep \cup ResultStep
Turn == [role : {"assistant"}, content : Seq(Call)] \cup [role : {"user"}, content : Seq(Block)]
Loop == [pc : {"start", "ask", "call", "execute", "close", "fail", "gone"},
         turns : 0..MaxTurns, used : 0..MaxToolCalls, calls : Seq(Call), results : Seq(Block)]
View == [pc : {"away", "poll", "status", "lost", "told", "still"}, after : Nat, last : Nat,
         quiet : BOOLEAN, rows : Seq([seq : Nat, answer : Nat]), open : Nat]

Unfinished == {"queued", "running"}

Gone == [pc |-> "gone", turns |-> 0, used |-> 0, calls |-> <<>>, results |-> <<>>]

Away == [pc |-> "away", after |-> 0, last |-> 0, quiet |-> FALSE, rows |-> <<>>, open |-> 0]

Init ==
    /\ scene \in Scenes
    /\ up = TRUE
    /\ status = "queued"
    /\ loop = [Gone EXCEPT !.pc = "start"]
    /\ messages = <<>>
    /\ steps = <<>>
    /\ seen = [c \in Customers |-> None]
    /\ tab = [x \in Tabs |-> Away]
    /\ cuts = 0

-----------------------------------------------------------------------------
(* run_agent *)

Begin ==
    /\ loop.pc = "start"
    /\ status' = "running"
    /\ loop' = [loop EXCEPT !.pc = "ask"]
    /\ UNCHANGED <<reader, messages, steps, seen>>

(* The ids of one turn differ; those of two turns need not.                *)
Numbered(requests) ==
    [n \in DOMAIN requests |->
        [tool |-> requests[n].tool, of |-> requests[n].of,
         id |-> IF Numbering = "turn" THEN n ELSE loop.used + n]]

(* The model answers: a text perhaps, stored before anything is executed,  *)
(* and calls perhaps, without which the run is over.                       *)
Answer(says, requests) ==
    /\ loop.pc = "ask" /\ loop.turns < MaxTurns
    /\ steps' = IF says THEN Append(steps, Message) ELSE steps
    /\ IF requests = <<>>
       THEN /\ loop' = [loop EXCEPT !.pc = "close", !.turns = @ + 1]
            /\ UNCHANGED messages
       ELSE /\ loop' = [loop EXCEPT !.pc = "call", !.turns = @ + 1, !.calls = Numbered(requests)]
            /\ messages' = Append(messages, [role |-> "assistant", content |-> Numbered(requests)])
    /\ UNCHANGED <<reader, status, seen>>

(* ToolCallBudgetExceeded, by turns or by calls, is told in the transcript.*)
Exceeded ==
    /\ \/ loop.pc = "ask" /\ loop.turns >= MaxTurns
       \/ loop.pc = "call" /\ loop.used >= MaxToolCalls
    /\ steps' = Append(steps, Message)
    /\ loop' = [loop EXCEPT !.pc = "fail"]
    /\ UNCHANGED <<reader, status, messages, seen>>

(* Mutant: the budget is not looked at in the middle of a turn. *)
PersistCallAnyway ==
    /\ loop.pc = "call"
    /\ LET call == Head(loop.calls)
       IN  steps' = Append(steps, [type |-> "tool_call", tool |-> call.tool,
                                   of |-> call.of, id |-> call.id])
    /\ loop' = [loop EXCEPT !.pc = "execute", !.used = @ + 1]
    /\ UNCHANGED <<reader, status, messages, seen>>

(* The call is stored before it is made.                                   *)
PersistCall ==
    /\ loop.pc = "call" /\ loop.used < MaxToolCalls
    /\ LET call == Head(loop.calls)
       IN  steps' = Append(steps, [type |-> "tool_call", tool |-> call.tool,
                                   of |-> call.of, id |-> call.id])
    /\ loop' = [loop EXCEPT !.pc = "execute", !.used = @ + 1]
    /\ UNCHANGED <<reader, status, messages, seen>>

(* A payment history is named by the step that asked for it: no two reads  *)
(* are taken to be alike.                                                  *)
Returns(call) ==
    IF call.tool = "list" THEN Listing
    ELSE IF call.tool = "history" THEN {[of |-> call.of, version |-> Len(steps)]}
    ELSE {None}

Failed == Cardinality({k \in DOMAIN steps : steps[k].type = "tool_result" /\ steps[k].error})

(* The model reads a long result cut short; the record keeps all of it.    *)
serialise(call, result) == [text |-> result, cut |-> result # None /\ call.tool \in Long]

(* Mutant: a call that failed is left out of the answer. *)
AnsweredIfRight(results, result) == IF result.error THEN results ELSE Append(results, result)

Answered(results, result) == Append(results, result)

(* The tool returns or fails, and its result is stored; the results of a   *)
(* turn go back to the model in one message.                               *)
Execute(error) ==
    /\ loop.pc = "execute" /\ (error => Failed < scene.errors)
    /\ LET call == Head(loop.calls)
       IN  \E result \in IF error THEN {None} ELSE Returns(call) :
             LET block == [id |-> call.id, error |-> error, content |-> serialise(call, result)]
                 results == Answered(loop.results, block)
             IN  /\ steps' = Append(steps, [type |-> "tool_result", tool |-> call.tool,
                                            id |-> call.id, error |-> error, result |-> result])
                 /\ seen' = IF call.tool # "history" \/ error THEN seen
                            ELSE [seen EXCEPT ![call.of] = result.version]
                 /\ IF Len(loop.calls) > 1
                    THEN /\ loop' = [loop EXCEPT !.pc = "call", !.calls = Tail(@),
                                                 !.results = results]
                         /\ UNCHANGED messages
                    ELSE /\ loop' = [loop EXCEPT !.pc = "ask", !.calls = <<>>, !.results = <<>>]
                         /\ messages' = Append(messages, [role |-> "user", content |-> results])
    /\ UNCHANGED <<reader, status>>

(* LLMUnavailable, or whatever else is raised: no word in the transcript.  *)
Fail ==
    /\ loop.pc \in {"start", "ask", "call", "execute", "close"}
    /\ loop' = [loop EXCEPT !.pc = "fail"]
    /\ UNCHANGED <<reader, status, messages, steps, seen>>

Close ==
    /\ loop.pc \in {"close", "fail"}
    /\ status' = IF loop.pc = "close" THEN "finished" ELSE "failed"
    /\ loop' = Gone /\ messages' = <<>>
    /\ UNCHANGED <<reader, steps, seen>>

LoopStep ==
    \/ Begin
    \/ \E says \in scene.says, n \in 0..MaxCalls :
          \E requests \in [1..n -> scene.requests] : Answer(says, requests)
    \/ Exceeded
    \/ PersistCall
    \/ \E error \in BOOLEAN : Execute(error)
    \/ Close

-----------------------------------------------------------------------------
(* What the pages read in the transcript *)

(* FoldLeft of SequencesExt, in one pass and open to proof.                *)
Through(op(_, _), base, seq) ==
    LET upTo[n \in 0..Len(seq)] == IF n = 0 THEN base ELSE op(upTo[n - 1], seq[n])
    IN  upTo[Len(seq)]

IsCall(step) == step.type = "tool_call"
IsResult(step) == step.type = "tool_result"

(* Mutant: a call is looked up by its id. *)
HistoryByUseId(record, c) ==
    LET asked == SelectSeq(record, LAMBDA s : IsCall(s) /\ s.tool = "history")
        About(id) == Last(SelectSeq(asked, LAMBDA s : s.id = id)).of
        told == SelectSeq(record, LAMBDA s : /\ IsResult(s) /\ s.tool = "history" /\ ~s.error
                                             /\ About(s.id) = c)
    IN  IF told = <<>> THEN None ELSE Last(told).result.version

(* Paired by adjacency among the steps of this tool; a failed result, or   *)
(* one whose id is another's, answers nothing; the latest answer is shown. *)
Unasked(found) == [asked |-> None, id |-> None, found |-> found]

ReadHistory(c, acc, s) ==
    IF s.tool # "history" THEN acc
    ELSE IF IsCall(s) THEN [asked |-> s.of, id |-> s.id, found |-> acc.found]
    ELSE IF ~s.error /\ acc.asked = c /\ acc.id = s.id THEN Unasked(s.result.version)
    ELSE Unasked(acc.found)

HistoryRead(record, c) ==
    Through(LAMBDA acc, s : ReadHistory(c, acc, s), Unasked(None), record)

payment_history_seen_by_the_agent(record, c) == HistoryRead(record, c).found

(* The rows of a result: each invoice's name for its customer, which a     *)
(* payment history does not carry.                                         *)
NamesIn(step) ==
    IF ~IsResult(step) \/ step.error THEN <<>>
    ELSE IF step.tool = "list" THEN step.result.names
    ELSE IF step.tool = "history" THEN [c \in {step.result.of} |-> None]
    ELSE <<>>

(* Mutant: the later row replaces what is known of an invoice. *)
Replace(known, name) == name

Merge(known, name) == IF known = None THEN name ELSE known

(* An invoice keeps its first name, a customer has its latest.             *)
Learn(index, step) ==
    LET rows == NamesIn(step)
    IN  [c \in Customers |->
           IF c \notin DOMAIN rows THEN index[c]
           ELSE [invoice |-> Merge(index[c].invoice, rows[c]),
                 customer |-> IF rows[c] = None THEN index[c].customer ELSE rows[c]]]

Unnamed == [c \in Customers |-> [invoice |-> None, customer |-> None]]

transcript_index(record) == Through(Learn, Unnamed, record)

(* Whom a call is about, by name, or None where the page keeps the id.     *)
step_about(call, index) ==
    IF call.tool = "history" THEN index[call.of].customer
    ELSE IF call.tool = "letter" THEN index[call.of].invoice
    ELSE None

-----------------------------------------------------------------------------
(* The rows of a page.  A row is a step and the result folded into it, if  *)
(* any; 0 is none.                                                         *)

Row(k) == [seq |-> k, answer |-> 0]

Fold(rows, k) ==
    IF /\ IsResult(steps[k]) /\ rows # <<>> /\ Last(rows).answer = 0
       /\ LET above == steps[Last(rows).seq]
          IN  IsCall(above) /\ above.tool = steps[k].tool
    THEN [rows EXCEPT ![Len(rows)].answer = k]
    ELSE Append(rows, Row(k))

Folded(places) == Through(Fold, <<>>, places)

fold_results_into_calls == Folded([k \in DOMAIN steps |-> k])

(* Mutant: a result without an open call is not drawn. *)
DrawResultOrDrop(view, k) ==
    IF view.open # 0 /\ steps[view.rows[view.open].seq].tool = steps[k].tool
    THEN [rows |-> [view.rows EXCEPT ![view.open].answer = k], open |-> 0]
    ELSE [view EXCEPT !.open = 0]

DrawResult(view, k) ==
    IF view.open # 0 /\ steps[view.rows[view.open].seq].tool = steps[k].tool
    THEN [rows |-> [view.rows EXCEPT ![view.open].answer = k], open |-> 0]
    ELSE [rows |-> Append(view.rows, Row(k)), open |-> 0]

(* The page's handler of a step event; open is the row of openCall.        *)
Draw(view, k) ==
    IF IsResult(steps[k]) THEN DrawResult(view, k)
    ELSE [rows |-> Append(view.rows, Row(k)),
          open |-> IF IsCall(steps[k]) THEN Len(view.rows) + 1 ELSE 0]

Drawn(view, new) == Through(Draw, view, new)

-----------------------------------------------------------------------------
(* The page and its stream *)

(* The page asks for what follows the seq of its last row, which is that   *)
(* of the call where a result has been folded in.                          *)
Loaded ==
    LET rows == fold_results_into_calls
        cursor == IF rows = <<>> THEN 0 ELSE Last(rows).seq
    IN  IF status \in Unfinished
        THEN [Away EXCEPT !.pc = "poll", !.after = cursor, !.last = cursor, !.rows = rows]
        ELSE [Away EXCEPT !.pc = "still", !.rows = rows]

Serving(x, at) == up /\ tab[x].pc = at

Sees(x, view) == tab' = [tab EXCEPT ![x] = view]

others == <<scene, up, status, loop, messages, steps, seen>>

OpenPage(x) ==
    x \in scene.tabs /\ Serving(x, "away") /\ Sees(x, Loaded) /\ UNCHANGED <<others, cuts>>

(* steps_after, and an event for each.                                     *)
Poll(x) ==
    /\ Serving(x, "poll")
    /\ LET new == [n \in 1..(Len(steps) - tab[x].last) |-> tab[x].last + n]
           view == Drawn([rows |-> tab[x].rows, open |-> tab[x].open], new)
       IN  Sees(x, [tab[x] EXCEPT !.pc = "status", !.last = Len(steps), !.quiet = (new = <<>>),
                                  !.rows = view.rows, !.open = view.open])
    /\ UNCHANGED <<others, cuts>>

(* run_status; the run has ended and the last poll found nothing new.      *)
ReadStatus(x) ==
    /\ Serving(x, "status")
    /\ Sees(x, [tab[x] EXCEPT !.quiet = FALSE,
                  !.pc = IF status \notin Unfinished /\ tab[x].quiet THEN "told" ELSE "poll"])
    /\ UNCHANGED <<others, cuts>>

(* Mutant: a page that was told does not load itself again. *)
StayAsDrawn(x) == Serving(x, "told") /\ Sees(x, [tab[x] EXCEPT !.pc = "still"])

(* 900 ms after "done".                                                    *)
Reload(x) == Serving(x, "told") /\ Sees(x, Loaded)

(* EventSource asks again, from where the page began.                      *)
Reconnect(x) ==
    /\ Serving(x, "lost")
    /\ Sees(x, [tab[x] EXCEPT !.pc = "poll", !.last = tab[x].after])
    /\ UNCHANGED <<others, cuts>>

TabStep(x) == Poll(x) \/ ReadStatus(x) \/ (Reload(x) /\ UNCHANGED <<others, cuts>>) \/ Reconnect(x)

-----------------------------------------------------------------------------
(* What cuts in *)

Lost(view) == IF view.pc \in {"poll", "status"} THEN [view EXCEPT !.pc = "lost", !.quiet = FALSE]
              ELSE view

Drop(x) ==
    /\ tab[x].pc \in {"poll", "status"} /\ cuts < MaxCuts
    /\ Sees(x, Lost(tab[x]))
    /\ cuts' = cuts + 1
    /\ UNCHANGED others

Kill ==
    /\ up /\ cuts < MaxCuts
    /\ up' = FALSE
    /\ loop' = Gone /\ messages' = <<>>
    /\ tab' = [x \in Tabs |-> Lost(tab[x])]
    /\ cuts' = cuts + 1
    /\ UNCHANGED <<scene, status, steps, seen>>

(* abandon_orphaned_runs.                                                  *)
Restart ==
    /\ ~up
    /\ up' = TRUE
    /\ status' = IF status \in Unfinished THEN "failed" ELSE status
    /\ UNCHANGED <<scene, loop, messages, steps, seen, tab, cuts>>

Next ==
    \/ LoopStep \/ Fail
    \/ \E x \in Tabs : OpenPage(x) \/ TabStep(x) \/ Drop(x)
    \/ Kill \/ Restart

(* The loop goes on, a process that died is started again, an open tab     *)
(* polls, reconnects and reloads.                                          *)
Spec ==
    /\ Init /\ [][Next]_vars
    /\ WF_vars(LoopStep) /\ WF_vars(Restart)
    /\ \A x \in Tabs : WF_vars(TabStep(x))

-----------------------------------------------------------------------------
Seqs == 0..Len(steps)

(* A row is of a step that is stored, and holds a call's answer or nothing.*)
SoundRows(record, rows) ==
    \A n \in DOMAIN rows :
        /\ rows[n].seq \in 1..Len(record) /\ rows[n].answer \in 0..Len(record)
        /\ rows[n].answer # 0 => IsCall(record[rows[n].seq]) /\ IsResult(record[rows[n].answer])

(* Every variable keeps its type: a cursor or a row is of a step that is   *)
(* stored, and a row holds a call's answer or nothing.                     *)
TypeOK ==
    /\ scene \in Scenes
    /\ up \in BOOLEAN /\ status \in Unfinished \cup {"finished", "failed"}
    /\ loop \in Loop /\ Len(loop.calls) <= MaxCalls
    /\ messages \in Seq(Turn) /\ steps \in Seq(Step)
    /\ seen \in [Customers -> Seqs \cup {None}]
    /\ tab \in [Tabs -> View]
    /\ \A x \in Tabs :
          /\ tab[x].last \in tab[x].after..Len(steps) /\ tab[x].open \in 0..Len(tab[x].rows)
          /\ SoundRows(steps, tab[x].rows)
    /\ cuts \in 0..MaxCuts

(* The panel beside a letter shows the payment history that a tool last    *)
(* gave the agent of that customer, or that none did: whichever calls      *)
(* failed, came in parallel or share an id with a call of another turn.    *)
HistoryIsWhatTheAgentSaw ==
    \A c \in Customers : payment_history_seen_by_the_agent(steps, c) = seen[c]

(* What the model has been given, and what the transcript says of it.      *)
Give(blocks, m) == IF m.role = "user" THEN blocks \o m.content ELSE blocks

Given(conversation) == Through(Give, <<>>, conversation)

AsGiven(result) == [id |-> result.id, error |-> result.error,
                    content |-> serialise(result, result.result)]

Tell(blocks, s) == IF IsResult(s) THEN Append(blocks, AsGiven(s)) ELSE blocks

Told(record) == Through(Tell, <<>>, record)

Answers(reply, calls) ==
    /\ reply.role = "user" /\ calls.role = "assistant"
    /\ Len(reply.content) = Len(calls.content)
    /\ \A k \in DOMAIN reply.content : reply.content[k].id = calls.content[k].id

(* When the model is asked, every call of each of its turns is answered in *)
(* the message that follows, in order, failed ones too, and with what the  *)
(* transcript keeps of it, cut short if it is long: nothing that the model *)
(* read is missing in the record, or out of place.                         *)
EveryCallAnswered ==
    loop.pc = "ask" =>
        /\ Len(messages) % 2 = 0
        /\ \A n \in 1..Len(messages) : n % 2 = 0 => Answers(messages[n], messages[n - 1])
        /\ Given(messages) = Told(steps)

(* A call that a page once showed under a customer's name never goes back  *)
(* to an id, though later results say less about the same invoice.         *)
NamesStayKnown ==
    [][LET before == transcript_index(steps)
           after == transcript_index(steps')
       IN  \A k \in DOMAIN steps :
              IsCall(steps[k]) /\ step_about(steps[k], before) # None =>
                  step_about(steps'[k], after) # None]_steps

Shows(rows, m) ==
    \A k \in 1..m : \E n \in DOMAIN rows : k \in {rows[n].seq, rows[n].answer}

(* A page that watches a run shows every step up to its stream's cursor,   *)
(* whenever it was opened and however often its connection was cut.        *)
NothingLost ==
    \A x \in Tabs : Shows(tab[x].rows, tab[x].last)

(* Why they hold.  A turn under way is the last message: its calls that    *)
(* have a result in hand, and those that are still to be made.             *)
InTurn(t, conversation, record) ==
    /\ t.pc \in {"start", "ask"} =>
          Len(conversation) % 2 = 0 /\ t.calls = <<>> /\ t.results = <<>>
    /\ t.pc \in {"call", "execute"} =>
          /\ Len(conversation) % 2 = 1 /\ t.calls # <<>>
          /\ LET asked == conversation[Len(conversation)]
             IN  /\ asked.role = "assistant"
                 /\ Len(asked.content) = Len(t.results) + Len(t.calls)
                 /\ \A k \in DOMAIN t.results : t.results[k].id = asked.content[k].id
                 /\ \A k \in DOMAIN t.calls : asked.content[Len(t.results) + k] = t.calls[k]
    /\ t.pc \in {"start", "ask", "call", "execute"} =>
          /\ \A n \in 1..Len(conversation) :
                n % 2 = 0 => Answers(conversation[n], conversation[n - 1])
          /\ Given(conversation) \o t.results = Told(record)

(* Whoever reads the histories has found what was seen, and while one is   *)
(* awaited, has read whom it is about.                                     *)
Awaited(t, record, histories) ==
    \A c \in Customers :
        LET read == HistoryRead(record, c)
        IN  /\ read.found = histories[c]
            /\ t.pc = "execute" /\ Head(t.calls).tool = "history" =>
                  read.asked = Head(t.calls).of /\ read.id = Head(t.calls).id

(* The row that a page would put the next result in is a call's and empty. *)
OpenCall(view, record) ==
    view.open # 0 =>
        LET row == view.rows[view.open]
        IN  row.answer = 0 /\ IsCall(record[row.seq])

(* The inductive invariant.                                                *)
TranscriptInv ==
    /\ TypeOK
    /\ InTurn(loop, messages, steps)
    /\ Awaited(loop, steps, seen)
    /\ NothingLost /\ \A x \in Tabs : OpenCall(tab[x], steps)

(* A page once opened comes to rest, and at rest shows the transcript:     *)
(* every step once, every answer under its own call, though "done" may     *)
(* overtake the last steps and a reconnected stream repeats the first.     *)
PageEndsAsTheRecord ==
    \A x \in Tabs : tab[x].pc # "away" ~>
        tab[x].pc = "still" /\ tab[x].rows = fold_results_into_calls /\ loop.pc = "gone"
=============================================================================
