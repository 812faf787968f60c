----------------------------- MODULE RunProofs -----------------------------
(***************************************************************************)
(* The agent's runs, for any number of runs, invoices and pool threads,    *)
(* any limits, and any number of failing transactions and restarts.        *)
(***************************************************************************)
EXTENDS AgentRuns, FiniteSetTheorems, SequenceTheorems, TLAPS

(***************************************************************************)
(* Transcripts and threads                                                 *)
(***************************************************************************)

(* The calls of a transcript are finitely many, and a step adds one if it  *)
(* is a call and none otherwise.                                           *)
LEMMA CallsFinite ==
  ASSUME NEW s \in Seq(Steps)
  PROVE  IsFiniteSet(CallsOf(s)) /\ Cardinality(CallsOf(s)) \in Nat
  <1>1. IsFiniteSet(1..Len(s))
    BY FS_Interval, LenProperties
  <1>2. CallsOf(s) \in SUBSET (1..Len(s))
    BY LenProperties DEF CallsOf
  <1> QED
    BY <1>1, <1>2, FS_Subset, FS_CardinalityType

LEMMA CallsOfAppend ==
  ASSUME NEW s \in Seq(Steps), NEW x \in Steps
  PROVE  Cardinality(CallsOf(Append(s, x)))
            = Cardinality(CallsOf(s)) + (IF x = "tool_call" THEN 1 ELSE 0)
  <1>1. /\ DOMAIN s = 1..Len(s) /\ Len(s) \in Nat
        /\ DOMAIN Append(s, x) = 1..Len(s) + 1
        /\ \A k \in 1..Len(s) : Append(s, x)[k] = s[k]
        /\ Append(s, x)[Len(s) + 1] = x
    BY AppendProperties, LenProperties
  <1>2. CASE x = "tool_call"
    <2>1. CallsOf(Append(s, x)) = CallsOf(s) \cup {Len(s) + 1}
      BY <1>1, <1>2 DEF CallsOf
    <2>2. Len(s) + 1 \notin CallsOf(s)
      BY <1>1 DEF CallsOf
    <2> QED
      BY <1>2, <2>1, <2>2, CallsFinite, FS_AddElement
  <1>3. CASE x # "tool_call"
    <2>1. CallsOf(Append(s, x)) = CallsOf(s)
      BY <1>1, <1>3 DEF CallsOf
    <2> QED
      BY <1>3, <2>1, CallsFinite
  <1> QED
    BY <1>2, <1>3

LEMMA NoCalls == Cardinality(CallsOf(<<>>)) = 0 /\ ~CallOpen(<<>>)
  <1>1. CallsOf(<<>>) = {}
    BY DEF CallsOf
  <1> QED
    BY <1>1, FS_EmptySet DEF CallOpen

(* A transcript that keeps calls and results together goes on doing so.    *)
LEMMA AnswersAppend ==
  ASSUME NEW s \in Seq(Steps), NEW x \in Steps, NEW t, NEW st, AnswersFit(t, st, s),
         x = "tool_result" <=> CallOpen(s)
  PROVE  /\ \A k \in DOMAIN Append(s, x) :
               /\ Append(s, x)[k] = "tool_call" /\ k < Len(Append(s, x))
                    => Append(s, x)[k + 1] = "tool_result"
               /\ Append(s, x)[k] = "tool_result"
                    => k > 1 /\ Append(s, x)[k - 1] = "tool_call"
         /\ CallOpen(Append(s, x)) <=> x = "tool_call"
  <1> DEFINE z == Append(s, x)
  <1>1. /\ DOMAIN s = 1..Len(s) /\ Len(s) \in Nat
        /\ z # <<>> /\ Len(z) = Len(s) + 1 /\ DOMAIN z = 1..Len(s) + 1
        /\ \A k \in 1..Len(s) : z[k] = s[k]
        /\ z[Len(s) + 1] = x
    BY AppendProperties, LenProperties
  <1>2. s # <<>> <=> Len(s) > 0
    BY <1>1
  <1> HIDE DEF z
  <1>3. CallOpen(z) <=> x = "tool_call"
    BY <1>1 DEF CallOpen
  <1>4. \A k \in 1..Len(s) :
          /\ s[k] = "tool_call" /\ k < Len(s) => s[k + 1] = "tool_result"
          /\ s[k] = "tool_result" => k > 1 /\ s[k - 1] = "tool_call"
    BY <1>1 DEF AnswersFit
  <1>5. ASSUME NEW k \in 1..Len(s)
        PROVE  /\ z[k] = "tool_call" /\ k < Len(z) => z[k + 1] = "tool_result"
               /\ z[k] = "tool_result" => k > 1 /\ z[k - 1] = "tool_call"
    <2>1. z[k] = "tool_result" => k > 1 /\ z[k - 1] = "tool_call"
      BY <1>1, <1>4
    <2>2. CASE k < Len(s)
      <3>1. k + 1 \in 1..Len(s)
        BY <1>1, <2>2
      <3> QED
        BY <1>1, <1>4, <2>1, <2>2, <3>1
    <2>3. CASE k = Len(s)
      BY <1>1, <1>2, <2>1, <2>3 DEF CallOpen
    <2>4. Len(s) \in Nat /\ k \in 1..Len(s)
      BY <1>1
    <2>5. k < Len(s) \/ k = Len(s)
      BY <2>4
    <2> QED
      BY <2>2, <2>3, <2>5
  <1>6. x = "tool_result" => Len(s) + 1 > 1 /\ z[Len(s) + 1 - 1] = "tool_call"
    BY <1>1, <1>2 DEF CallOpen
  <1>7. ASSUME NEW k \in DOMAIN z
        PROVE  /\ z[k] = "tool_call" /\ k < Len(z) => z[k + 1] = "tool_result"
               /\ z[k] = "tool_result" => k > 1 /\ z[k - 1] = "tool_call"
    <2>1. CASE k = Len(s) + 1
      BY <1>1, <1>6, <2>1
    <2>2. CASE k # Len(s) + 1
      BY <1>1, <1>5, <2>2
    <2> QED
      BY <2>1, <2>2
  <1> QED
    BY <1>3, <1>7 DEF z

(* A thread at another point, with its counters.                           *)
LEMMA ThreadAt ==
  ASSUME NEW t \in Threads, NEW pc \in Pcs
  PROVE  /\ [t EXCEPT !.pc = pc] \in Threads
         /\ [t EXCEPT !.pc = pc].pc = pc
         /\ [t EXCEPT !.pc = pc].turns = t.turns
         /\ [t EXCEPT !.pc = pc].tools = t.tools
         /\ [t EXCEPT !.pc = pc].left = t.left
         /\ [t EXCEPT !.pc = pc].outcome = t.outcome
  BY DEF Threads

LEMMA NoThreadFits ==
  /\ NoThread \in Threads
  /\ \A pc \in Pcs \ {"gone"} : /\ [NoThread EXCEPT !.pc = pc] \in Threads
                                /\ [NoThread EXCEPT !.pc = pc].pc = pc
  <1>1. NoThread \in Threads
    BY LimitsAssumption DEF NoThread, Threads, Pcs, InTry, OutsideTry, LastResort
  <1> QED
    BY <1>1, ThreadAt

(***************************************************************************)
(* One run's thread moves                                                  *)
(***************************************************************************)

LEMMA StaysAsItIs ==
  ASSUME NEW S, NEW T, NEW f \in [S -> T], NEW r \in S
  PROVE  f = [f EXCEPT ![r] = f[r]]
  OBVIOUS

AtWork(r) == thread[r].pc \notin {"gone", "created", "submitted"}

LEMMA RunMoves ==
  ASSUME RunInv, NEW r \in Runs, AtWork(r),
         NEW t \in Threads, NEW st \in Statuses, NEW s \in Seq(Steps),
         t.pc \notin {"created", "submitted"},
         thread' = [thread EXCEPT ![r] = t],
         runStatus' = [runStatus EXCEPT ![r] = st],
         steps' = [steps EXCEPT ![r] = s],
         proposals' \subseteq Proposals, OnePending',
         \A x \in Runs \ {r} : ProposalsOf(x)' = ProposalsOf(x),
         phase' = phase, queue' = queue, stops' = stops, faults' \in 0..MaxFaults,
         Fits(t, st, s, ProposalsOf(r)')
  PROVE  RunInv'
  <1>1. TypeOK'
    BY DEF RunInv, TypeOK
  <1>2. /\ thread'[r] = t /\ runStatus'[r] = st /\ steps'[r] = s
        /\ \A x \in Runs \ {r} : /\ thread'[x] = thread[x]
                                 /\ runStatus'[x] = runStatus[x]
                                 /\ steps'[x] = steps[x]
    BY DEF RunInv, TypeOK
  <1>3. ThreadsOfProcess'
    <2>1. \A k \in DOMAIN queue : queue[k] \in Runs \ {r}
      BY LenProperties, ElementOfSeq DEF RunInv, TypeOK, ThreadsOfProcess, AtWork
    <2>2. phase \notin {"down", "abandoned"}
      BY DEF RunInv, ThreadsOfProcess, AtWork
    <2> QED
      BY <1>2, <2>1, <2>2 DEF RunInv, ThreadsOfProcess
  <1>4. \A x \in Runs : Fits(thread'[x], runStatus'[x], steps'[x], ProposalsOf(x)')
    BY <1>2 DEF RunInv
  <1> QED
    BY <1>1, <1>3, <1>4 DEF RunInv

(* The letters stay as they are.                                           *)
LEMMA RunMovesOn ==
  ASSUME RunInv, NEW r \in Runs, AtWork(r),
         NEW t \in Threads, NEW st \in Statuses, NEW s \in Seq(Steps),
         t.pc \notin {"created", "submitted"},
         thread' = [thread EXCEPT ![r] = t],
         runStatus' = [runStatus EXCEPT ![r] = st],
         steps' = [steps EXCEPT ![r] = s],
         proposals' = proposals,
         phase' = phase, queue' = queue, stops' = stops, faults' \in 0..MaxFaults,
         Fits(t, st, s, ProposalsOf(r))
  PROVE  RunInv'
  <1>1. \A x : ProposalsOf(x)' = ProposalsOf(x)
    BY DEF ProposalsOf
  <1>2. OnePending' /\ proposals' \subseteq Proposals
    BY DEF RunInv, OnePending, TypeOK
  <1>3. Fits(t, st, s, ProposalsOf(r)')
    BY <1>1
  <1> QED
    BY <1>1, <1>2, <1>3, RunMoves

(* The tables stay as they are.                                            *)
LEMMA ThreadMoves ==
  ASSUME RunInv, NEW r \in Runs, AtWork(r),
         NEW t \in Threads, t.pc \notin {"created", "submitted"},
         thread' = [thread EXCEPT ![r] = t], UNCHANGED tables,
         phase' = phase, queue' = queue, stops' = stops, faults' \in 0..MaxFaults,
         Fits(t, runStatus[r], steps[r], ProposalsOf(r))
  PROVE  RunInv'
  <1>1. /\ runStatus[r] \in Statuses /\ steps[r] \in Seq(Steps)
        /\ runStatus' = [runStatus EXCEPT ![r] = runStatus[r]]
        /\ steps' = [steps EXCEPT ![r] = steps[r]]
    BY StaysAsItIs DEF RunInv, TypeOK, tables
  <1> QED
    BY <1>1, RunMovesOn DEF tables

LEMMA GotoAt ==
  ASSUME RunInv, NEW r \in Runs, NEW pc \in Pcs, Goto(r, pc)
  PROVE  /\ [thread[r] EXCEPT !.pc = pc] \in Threads
         /\ thread' = [thread EXCEPT ![r] = [thread[r] EXCEPT !.pc = pc]]
         /\ UNCHANGED others /\ faults' \in 0..MaxFaults
  <1>1. thread \in [Runs -> Threads] /\ faults \in 0..MaxFaults
    BY DEF RunInv, TypeOK
  <1> QED
    BY <1>1, ThreadAt DEF Goto, others

LEMMA InHand ==
  ASSUME RunInv, NEW r \in Runs
  PROVE  /\ thread[r] \in Threads /\ runStatus[r] \in Statuses /\ steps[r] \in Seq(Steps)
         /\ Fits(thread[r], runStatus[r], steps[r], ProposalsOf(r))
  BY DEF RunInv, TypeOK

LEMMA StatusMoves ==
  ASSUME RunInv, NEW r \in Runs, AtWork(r),
         NEW t \in Threads, NEW st \in Statuses, t.pc \notin {"created", "submitted"},
         thread' = [thread EXCEPT ![r] = t], SetStatus(r, st), UNCHANGED others,
         Fits(t, st, steps[r], ProposalsOf(r))
  PROVE  RunInv'
  <1>1. /\ steps[r] \in Seq(Steps) /\ faults' \in 0..MaxFaults
        /\ runStatus' = [runStatus EXCEPT ![r] = st] /\ proposals' = proposals
        /\ steps' = [steps EXCEPT ![r] = steps[r]]
    BY StaysAsItIs DEF RunInv, TypeOK, SetStatus, others
  <1> QED
    BY <1>1, RunMovesOn DEF others

LEMMA StepMoves ==
  ASSUME RunInv, NEW r \in Runs, AtWork(r),
         NEW t \in Threads, NEW x \in Steps, t.pc \notin {"created", "submitted"},
         thread' = [thread EXCEPT ![r] = t], AppendStep(r, x), UNCHANGED others,
         Fits(t, runStatus[r], Append(steps[r], x), ProposalsOf(r))
  PROVE  RunInv'
  <1>1. /\ runStatus[r] \in Statuses /\ faults' \in 0..MaxFaults
        /\ steps' = [steps EXCEPT ![r] = Append(steps[r], x)] /\ proposals' = proposals
        /\ runStatus' = [runStatus EXCEPT ![r] = runStatus[r]]
    BY StaysAsItIs DEF RunInv, TypeOK, AppendStep, others
  <1>2. Append(steps[r], x) \in Seq(Steps)
    BY InHand, AppendProperties
  <1> QED
    BY <1>1, <1>2, RunMovesOn DEF others

LEMMA LeaveAt ==
  ASSUME NEW r \in Runs, NEW pc \in Pcs \ {"gone"}, Leave(r, pc)
  PROVE  /\ [NoThread EXCEPT !.pc = pc] \in Threads
         /\ thread' = [thread EXCEPT ![r] = [NoThread EXCEPT !.pc = pc]]
         /\ UNCHANGED others
  BY NoThreadFits DEF Leave

(* From one point of the loop to another, or out of it to the except       *)
(* clause; by what Fits asks of each point.                                *)
LEMMA BeginKeeps ==
  ASSUME RunInv, NEW r \in Runs, Begin(r)
  PROVE  RunInv'
  <1>1. PICK pc \in {"no model", "crashed", "running"} : Goto(r, pc)
    BY DEF Begin
  <1> DEFINE t == [thread[r] EXCEPT !.pc = pc]
  <1>2. pc \in Pcs /\ thread[r].pc = "start" /\ UNCHANGED tables
    BY DEF Begin, Pcs, OutsideTry, LastResort
  <1>3. t \in Threads /\ t.pc = pc /\ t.tools = thread[r].tools
    BY <1>2, InHand, ThreadAt
  <1>4. thread' = [thread EXCEPT ![r] = t] /\ UNCHANGED others /\ faults' \in 0..MaxFaults
    BY <1>1, <1>2, GotoAt
  <1> HIDE DEF t
  <1>5. Fits(t, runStatus[r], steps[r], ProposalsOf(r))
    BY <1>2, <1>3, InHand
       DEF Fits, StatusFits, NothingYet, CallsFit, AnswersFit, LettersFit,
           Early, InLoop, AnswerDue, Ending
  <1> QED
    BY <1>2, <1>3, <1>4, <1>5, ThreadMoves DEF AtWork, others

LEMMA NoModelKeeps ==
  ASSUME RunInv, NEW r \in Runs, NoModel(r)
  PROVE  RunInv'
  <1>1. /\ thread[r].pc = "no model" /\ SetStatus(r, "failed") /\ "failed" \in Statuses
        /\ thread' = [thread EXCEPT ![r] = NoThread] /\ UNCHANGED others
    BY DEF NoModel, Ends, Statuses, Terminal
  <1>2. Fits(NoThread, "failed", steps[r], ProposalsOf(r))
    BY <1>1, InHand
       DEF Fits, StatusFits, NothingYet, CallsFit, AnswersFit, LettersFit,
           Early, InLoop, AnswerDue, Ending, NoThread
  <1>3. NoThread.pc = "gone"
    BY DEF NoThread
  <1> QED
    BY <1>1, <1>2, <1>3, NoThreadFits, StatusMoves DEF AtWork

LEMMA SetRunningKeeps ==
  ASSUME RunInv, NEW r \in Runs, SetRunning(r)
  PROVE  RunInv'
  <1> DEFINE t == [thread[r] EXCEPT !.pc = "turn"]
  <1>1. /\ thread[r].pc = "running" /\ SetStatus(r, "running") /\ Goto(r, "turn")
        /\ "turn" \in Pcs /\ "running" \in Statuses
    BY DEF SetRunning, Pcs, Statuses, Unfinished
  <1>2. t \in Threads /\ t.pc = "turn" /\ t.tools = thread[r].tools
    BY <1>1, InHand, ThreadAt
  <1>3. thread' = [thread EXCEPT ![r] = t] /\ UNCHANGED others
    BY <1>1, GotoAt
  <1> HIDE DEF t
  <1>4. Fits(t, "running", steps[r], ProposalsOf(r))
    <2>1. StatusFits(t, "running")
      BY <1>1, <1>2, InHand, NoCalls DEF Fits, StatusFits, Early, InLoop, AnswerDue, Ending
    <2>2. NothingYet(t, "running", steps[r], ProposalsOf(r))
      BY <1>1, <1>2, InHand, NoCalls
         DEF Fits, StatusFits, NothingYet, Early, InLoop, AnswerDue, Ending
    <2>3. CallsFit(t, steps[r])
      BY <1>1, <1>2, InHand, NoCalls
         DEF Fits, StatusFits, NothingYet, CallsFit, Early, InLoop, AnswerDue, Ending
    <2>4. AnswersFit(t, "running", steps[r])
      BY <1>1, <1>2, InHand, NoCalls
         DEF Fits, StatusFits, NothingYet, AnswersFit, Early, InLoop, AnswerDue, Ending
    <2>5. LettersFit(t, "running", ProposalsOf(r))
      BY <1>1, <1>2, InHand, NoCalls
         DEF Fits, StatusFits, NothingYet, LettersFit, Early, InLoop, AnswerDue, Ending
    <2> QED
      BY <2>1, <2>2, <2>3, <2>4, <2>5 DEF Fits
  <1> QED
    BY <1>1, <1>2, <1>3, <1>4, StatusMoves DEF AtWork

LEMMA TurnKeeps ==
  ASSUME RunInv, NEW r \in Runs, Turn(r)
  PROVE  RunInv'
  <1>1. PICK left \in 0..MaxCalls :
          thread' = [thread EXCEPT ![r] =
                       [thread[r] EXCEPT !.pc = IF left = 0 THEN "count" ELSE "call",
                                         !.turns = thread[r].turns + 1, !.left = left]]
    BY InHand DEF Turn, RunInv, TypeOK
  <1> DEFINE t == [thread[r] EXCEPT !.pc = IF left = 0 THEN "count" ELSE "call",
                                    !.turns = thread[r].turns + 1, !.left = left]
  <1>2. /\ thread[r].pc = "turn" /\ thread[r].turns + 1 \in 0..MaxTurns
        /\ UNCHANGED <<others, tables>>
    BY InHand, LimitsAssumption DEF Turn, OutOfTurns, Threads
  <1>3. /\ t \in Threads /\ t.tools = thread[r].tools /\ t.left = left
        /\ t.pc = IF left = 0 THEN "count" ELSE "call"
    BY <1>2, InHand DEF Threads, Pcs, InTry, OutsideTry
  <1>4. thread' = [thread EXCEPT ![r] = t]
    BY <1>1
  <1> HIDE DEF t
  <1>5. Fits(t, runStatus[r], steps[r], ProposalsOf(r))
    <2>1. StatusFits(t, runStatus[r])
      BY <1>2, <1>3, InHand DEF Fits, StatusFits, Early, InLoop, AnswerDue, Ending
    <2>2. NothingYet(t, runStatus[r], steps[r], ProposalsOf(r))
      BY <1>2, <1>3, InHand
         DEF Fits, StatusFits, NothingYet, Early, InLoop, AnswerDue, Ending
    <2>3. CallsFit(t, steps[r])
      <3>1. left # 0 => left > 0
        BY LimitsAssumption
      <3>2. /\ Cardinality(CallsOf(steps[r])) <= MaxToolCalls
            /\ Cardinality(CallsOf(steps[r])) = thread[r].tools
        BY <1>2, InHand DEF Fits, CallsFit, InLoop
      <3> QED
        BY <1>3, <3>1, <3>2 DEF CallsFit, InLoop, AnswerDue
    <2>4. AnswersFit(t, runStatus[r], steps[r])
      BY <1>2, <1>3, InHand
         DEF Fits, StatusFits, NothingYet, AnswersFit, Early, InLoop, AnswerDue, Ending
    <2>5. LettersFit(t, runStatus[r], ProposalsOf(r))
      BY <1>2, <1>3, InHand
         DEF Fits, StatusFits, NothingYet, LettersFit, Early, InLoop, AnswerDue, Ending
    <2> QED
      BY <2>1, <2>2, <2>3, <2>4, <2>5 DEF Fits
  <1>6. faults' \in 0..MaxFaults
    BY <1>2 DEF others, RunInv, TypeOK
  <1> QED
    BY <1>2, <1>3, <1>4, <1>5, <1>6, ThreadMoves DEF AtWork, others

(* Out of the loop, and not for an answer: nothing is open but to fail.    *)
LEMMA LeaveKeeps ==
  ASSUME RunInv, NEW r \in Runs, NEW pc \in {"guardrail", "fail"},
         thread[r].pc \in InLoop, thread[r].pc \in AnswerDue => pc = "fail",
         Leave(r, pc), UNCHANGED tables
  PROVE  RunInv'
  <1> DEFINE t == [NoThread EXCEPT !.pc = pc]
  <1>1. pc \in Pcs \ {"gone"}
    BY DEF Pcs, OutsideTry
  <1>2. t \in Threads /\ t.pc = pc
    BY <1>1, NoThreadFits
  <1>3. thread' = [thread EXCEPT ![r] = t] /\ UNCHANGED others /\ faults' \in 0..MaxFaults
    BY <1>1, LeaveAt DEF others, RunInv, TypeOK
  <1> HIDE DEF t
  <1>4. Fits(t, runStatus[r], steps[r], ProposalsOf(r))
    BY <1>2, InHand
       DEF Fits, StatusFits, NothingYet, CallsFit, AnswersFit, LettersFit,
           Early, InLoop, AnswerDue, Ending
  <1> QED
    BY <1>2, <1>3, <1>4, ThreadMoves DEF AtWork, InLoop, AnswerDue, others

LEMMA CallKeeps ==
  ASSUME RunInv, NEW r \in Runs, Call(r)
  PROVE  RunInv'
  <1> DEFINE t == [thread[r] EXCEPT !.pc = "tool", !.tools = thread[r].tools + 1]
             s == Append(steps[r], "tool_call")
  <1>1. /\ thread[r].pc = "call" /\ thread[r].tools + 1 \in 0..MaxToolCalls
        /\ AppendStep(r, "tool_call") /\ "tool_call" \in Steps /\ UNCHANGED others
    BY InHand, LimitsAssumption DEF Call, OutOfCalls, Threads, Steps
  <1>2. /\ t \in Threads /\ t.tools = thread[r].tools + 1 /\ t.left = thread[r].left
        /\ t.pc = "tool"
    BY <1>1, InHand DEF Threads, Pcs
  <1>3. thread' = [thread EXCEPT ![r] = t]
    BY DEF Call
  <1>4. ~CallOpen(steps[r]) /\ runStatus[r] = "running"
    BY <1>1, InHand DEF Fits, StatusFits, AnswersFit, InLoop, AnswerDue
  <1>5. /\ Cardinality(CallsOf(s)) = thread[r].tools + 1
        /\ CallOpen(s)
        /\ \A k \in DOMAIN s :
              /\ s[k] = "tool_call" /\ k < Len(s) => s[k + 1] = "tool_result"
              /\ s[k] = "tool_result" => k > 1 /\ s[k - 1] = "tool_call"
    <2>1. Cardinality(CallsOf(steps[r])) = thread[r].tools
      BY <1>1, InHand DEF Fits, CallsFit, InLoop
    <2> QED
      BY <1>1, <1>4, <2>1, InHand, CallsOfAppend, AnswersAppend DEF Fits
  <1> HIDE DEF t, s
  <1>6. Fits(t, runStatus[r], s, ProposalsOf(r))
    <2>1. StatusFits(t, runStatus[r]) /\ NothingYet(t, runStatus[r], s, ProposalsOf(r))
      BY <1>2, <1>4 DEF StatusFits, NothingYet, Early, InLoop, AnswerDue, Ending
    <2>2. thread[r].left > 0
      BY <1>1, InHand DEF Fits, CallsFit
    <2>3. CallsFit(t, s)
      BY <1>1, <1>2, <1>5, <2>2 DEF CallsFit
    <2>4. AnswersFit(t, runStatus[r], s)
      BY <1>2, <1>4, <1>5 DEF AnswersFit, AnswerDue
    <2>5. LettersFit(t, runStatus[r], ProposalsOf(r))
      BY <1>2, <1>4, InHand DEF Fits, LettersFit
    <2> QED
      BY <2>1, <2>3, <2>4, <2>5 DEF Fits
  <1> QED
    BY <1>1, <1>2, <1>3, <1>6, StepMoves DEF s, AtWork

LEMMA UseToolKeeps ==
  ASSUME RunInv, NEW r \in Runs, UseTool(r)
  PROVE  RunInv'
  <1>1. thread[r].pc = "tool" /\ UNCHANGED tables
    BY DEF UseTool
  <1>2. CASE Leave(r, "fail")
    BY <1>1, <1>2, LeaveKeeps DEF InLoop, AnswerDue
  <1>3. ASSUME NEW pc \in {"result", "cap"}, Goto(r, pc)
        PROVE  RunInv'
    <2> DEFINE t == [thread[r] EXCEPT !.pc = pc]
    <2>1. t \in Threads /\ t.pc = pc /\ t.tools = thread[r].tools /\ t.left = thread[r].left
      BY InHand, ThreadAt DEF Pcs, InTry
    <2>2. thread' = [thread EXCEPT ![r] = t] /\ UNCHANGED others /\ faults' \in 0..MaxFaults
      BY <1>3, GotoAt DEF Pcs, InTry
    <2> HIDE DEF t
    <2>3. Fits(t, runStatus[r], steps[r], ProposalsOf(r))
      BY <1>1, <2>1, InHand
         DEF Fits, StatusFits, NothingYet, CallsFit, AnswersFit, LettersFit,
             Early, InLoop, AnswerDue, Ending
    <2> QED
      BY <1>1, <2>1, <2>2, <2>3, ThreadMoves DEF AtWork, others
  <1> QED
    BY <1>2, <1>3 DEF UseTool

(* Only a run below its cap goes on to propose.                            *)
LEMMA CheckCapKeeps ==
  ASSUME RunInv, NEW r \in Runs, CheckCap(r)
  PROVE  RunInv'
  <1>1. PICK pc \in {"result", "create"} :
          Goto(r, pc) /\ (pc = "create" => ~CapReached(r))
    BY DEF CheckCap
  <1>2. thread[r].pc = "cap" /\ UNCHANGED tables /\ pc \in Pcs
    BY DEF CheckCap, Pcs, InTry
  <1> DEFINE t == [thread[r] EXCEPT !.pc = pc]
  <1>3. t \in Threads /\ t.pc = pc /\ t.tools = thread[r].tools /\ t.left = thread[r].left
    BY <1>2, InHand, ThreadAt
  <1>4. thread' = [thread EXCEPT ![r] = t] /\ UNCHANGED others /\ faults' \in 0..MaxFaults
    BY <1>1, <1>2, GotoAt
  <1> HIDE DEF t
  <1>5. pc = "create" => Cardinality(ProposalsOf(r)) < MaxProposals
    <2>1. Cardinality(ProposalsOf(r)) \in Nat /\ MaxProposals \in Nat
      BY InHand, FS_CardinalityType, LimitsAssumption DEF Fits, LettersFit
    <2> QED
      BY <1>1, <2>1 DEF CapReached
  <1>6. Fits(t, runStatus[r], steps[r], ProposalsOf(r))
    <2>1. StatusFits(t, runStatus[r]) /\ NothingYet(t, runStatus[r], steps[r], ProposalsOf(r))
      BY <1>2, <1>3, InHand
         DEF Fits, StatusFits, NothingYet, Early, InLoop, AnswerDue, Ending
    <2>2. CallsFit(t, steps[r])
      BY <1>2, <1>3, InHand DEF Fits, CallsFit, InLoop, AnswerDue
    <2>3. AnswersFit(t, runStatus[r], steps[r])
      BY <1>2, <1>3, InHand DEF Fits, AnswersFit, AnswerDue
    <2>4. LettersFit(t, runStatus[r], ProposalsOf(r))
      BY <1>3, <1>5, InHand DEF Fits, LettersFit
    <2> QED
      BY <2>1, <2>2, <2>3, <2>4 DEF Fits
  <1> QED
    BY <1>2, <1>3, <1>4, <1>6, ThreadMoves DEF AtWork, others

LEMMA ResultKeeps ==
  ASSUME RunInv, NEW r \in Runs, Result(r)
  PROVE  RunInv'
  <1> DEFINE t == [thread[r] EXCEPT !.left = thread[r].left - 1,
                                    !.pc = IF thread[r].left = 1 THEN "turn" ELSE "call"]
             s == Append(steps[r], "tool_result")
  <1>1. /\ thread[r].pc = "result" /\ AppendStep(r, "tool_result") /\ "tool_result" \in Steps
        /\ UNCHANGED others
    BY DEF Result, Steps
  <1>2. thread[r].left > 0 /\ thread[r].left \in 0..MaxCalls
    BY <1>1, InHand DEF Fits, CallsFit, AnswerDue, Threads
  <1>3. /\ t \in Threads /\ t.tools = thread[r].tools /\ t.left = thread[r].left - 1
        /\ t.pc = IF thread[r].left = 1 THEN "turn" ELSE "call"
    <2>1. thread[r].left - 1 \in 0..MaxCalls
      BY <1>2, LimitsAssumption
    <2> QED
      BY <2>1, InHand DEF Threads, Pcs, InTry
  <1>4. thread' = [thread EXCEPT ![r] = t]
    BY DEF Result
  <1>5. CallOpen(steps[r]) /\ runStatus[r] = "running"
    BY <1>1, InHand DEF Fits, StatusFits, AnswersFit, InLoop, AnswerDue
  <1>6. /\ Cardinality(CallsOf(s)) = Cardinality(CallsOf(steps[r]))
        /\ ~CallOpen(s)
        /\ \A k \in DOMAIN s :
              /\ s[k] = "tool_call" /\ k < Len(s) => s[k + 1] = "tool_result"
              /\ s[k] = "tool_result" => k > 1 /\ s[k - 1] = "tool_call"
    BY <1>1, <1>5, InHand, CallsFinite, CallsOfAppend, AnswersAppend DEF Fits
  <1> HIDE DEF t, s
  <1>7. Fits(t, runStatus[r], s, ProposalsOf(r))
    <2>1. StatusFits(t, runStatus[r]) /\ NothingYet(t, runStatus[r], s, ProposalsOf(r))
      BY <1>3, <1>5 DEF StatusFits, NothingYet, Early, InLoop, AnswerDue, Ending
    <2>2. CallsFit(t, s)
      <3>1. thread[r].left # 1 => thread[r].left - 1 > 0
        BY <1>2, LimitsAssumption
      <3>2. /\ Cardinality(CallsOf(steps[r])) <= MaxToolCalls
            /\ Cardinality(CallsOf(steps[r])) = thread[r].tools
        BY <1>1, InHand DEF Fits, CallsFit, InLoop, AnswerDue
      <3> QED
        BY <1>3, <1>6, <3>1, <3>2 DEF CallsFit, AnswerDue
    <2>3. AnswersFit(t, runStatus[r], s)
      BY <1>3, <1>6 DEF AnswersFit, AnswerDue
    <2>4. LettersFit(t, runStatus[r], ProposalsOf(r))
      BY <1>3, <1>5, InHand DEF Fits, LettersFit
    <2> QED
      BY <2>1, <2>2, <2>3, <2>4 DEF Fits
  <1> QED
    BY <1>1, <1>3, <1>4, <1>7, StepMoves DEF s, AtWork

(* A letter counts against the cap of its run and of no other; and the     *)
(* index keeps it out while another for its invoice is pending.            *)
LEMMA ProposeKeeps ==
  ASSUME RunInv, NEW r \in Runs, NEW i \in Invoices, Propose(r, i)
  PROVE  RunInv'
  <1> DEFINE t == [thread[r] EXCEPT !.pc = "result"]
  <1>1. thread[r].pc = "create" /\ Goto(r, "result") /\ "result" \in Pcs
    BY DEF Propose, Pcs, InTry
  <1>2. t \in Threads /\ t.pc = "result" /\ t.tools = thread[r].tools /\ t.left = thread[r].left
    BY <1>1, InHand, ThreadAt
  <1>3. thread' = [thread EXCEPT ![r] = t] /\ UNCHANGED others /\ faults' \in 0..MaxFaults
    BY <1>1, GotoAt
  <1> HIDE DEF t
  <1>4. ASSUME NEW P, IsFiniteSet(P), Cardinality(P) <= MaxProposals
        PROVE  Fits(t, runStatus[r], steps[r], P)
    <2>1. runStatus[r] = "running"
      BY <1>1, InHand DEF Fits, StatusFits, InLoop, AnswerDue
    <2>2. StatusFits(t, runStatus[r]) /\ NothingYet(t, runStatus[r], steps[r], P)
      BY <1>2, <2>1 DEF StatusFits, NothingYet, Early, InLoop, AnswerDue, Ending
    <2>3. CallsFit(t, steps[r])
      BY <1>1, <1>2, InHand DEF Fits, CallsFit, InLoop, AnswerDue
    <2>4. AnswersFit(t, runStatus[r], steps[r])
      BY <1>1, <1>2, InHand DEF Fits, AnswersFit, AnswerDue
    <2>5. LettersFit(t, runStatus[r], P)
      BY <1>2, <1>4, <2>1 DEF LettersFit
    <2> QED
      BY <2>2, <2>3, <2>4, <2>5 DEF Fits
  <1>5. IsFiniteSet(ProposalsOf(r)) /\ Cardinality(ProposalsOf(r)) < MaxProposals
    BY <1>1, InHand DEF Fits, LettersFit
  <1>6. Cardinality(ProposalsOf(r)) \in Nat /\ MaxProposals \in Nat
    BY <1>5, FS_CardinalityType, LimitsAssumption
  <1>7. CASE IndexAccepts(i)
    <2> DEFINE p == [run |-> r, n |-> Cardinality(ProposalsOf(r)) + 1, invoice |-> i,
                     pending |-> TRUE]
    <2>1. /\ proposals' = proposals \cup {p}
          /\ runStatus' = runStatus /\ steps' = steps
      BY <1>7 DEF Propose, CreateProposal
    <2>2. p \in Proposals
      BY <1>6 DEF Proposals
    <2>3. p.run = r /\ p.invoice = i /\ p.pending
      OBVIOUS
    <2> HIDE DEF p
    <2>4. proposals' \subseteq Proposals
      BY <2>1, <2>2 DEF RunInv, TypeOK
    <2>5. OnePending'
      <3> SUFFICES ASSUME NEW a \in proposals', NEW b \in proposals',
                          a.pending, b.pending, a.invoice = b.invoice
                   PROVE  a = b
        BY DEF OnePending
      <3>1. CASE a \in proposals /\ b \in proposals
        BY <3>1 DEF RunInv, OnePending
      <3>2. CASE a = p \/ b = p
        BY <1>7, <2>1, <2>3, <3>2 DEF IndexAccepts
      <3> QED
        BY <2>1, <3>1, <3>2
    <2>6. \A x \in Runs \ {r} : ProposalsOf(x)' = ProposalsOf(x)
      BY <2>1, <2>3 DEF ProposalsOf
    <2>7. ProposalsOf(r)' = ProposalsOf(r) \cup {p}
      BY <2>1, <2>3 DEF ProposalsOf
    <2>8. IsFiniteSet(ProposalsOf(r)') /\ Cardinality(ProposalsOf(r)') <= MaxProposals
      <3>1. /\ IsFiniteSet(ProposalsOf(r)')
            /\ \/ Cardinality(ProposalsOf(r)') = Cardinality(ProposalsOf(r))
               \/ Cardinality(ProposalsOf(r)') = Cardinality(ProposalsOf(r)) + 1
        BY <1>5, <2>7, FS_AddElement
      <3> QED
        BY <1>5, <1>6, <3>1
    <2>9. /\ runStatus' = [runStatus EXCEPT ![r] = runStatus[r]]
          /\ steps' = [steps EXCEPT ![r] = steps[r]]
      BY <2>1, StaysAsItIs DEF RunInv, TypeOK
    <2>10. Fits(t, runStatus[r], steps[r], ProposalsOf(r)')
      BY <1>4, <2>8
    <2> QED
      BY <1>1, <1>2, <1>3, <2>4, <2>5, <2>6, <2>9, <2>10, InHand, RunMoves
         DEF AtWork, others
  <1>8. CASE ~IndexAccepts(i)
    <2>1. UNCHANGED tables
      BY <1>8 DEF Propose
    <2>2. Fits(t, runStatus[r], steps[r], ProposalsOf(r))
      BY <1>4, <1>5, <1>6
    <2> QED
      BY <1>1, <1>2, <1>3, <2>1, <2>2, ThreadMoves DEF AtWork, others
  <1> QED
    BY <1>7, <1>8

(***************************************************************************)
(* A run's endings                                                         *)
(***************************************************************************)

LEMMA GuardrailKeeps ==
  ASSUME RunInv, NEW r \in Runs, Guardrail(r)
  PROVE  RunInv'
  <1> DEFINE t == [thread[r] EXCEPT !.pc = "fail"]
             s == Append(steps[r], "message")
  <1>1. /\ thread[r].pc = "guardrail" /\ AppendStep(r, "message") /\ "message" \in Steps
        /\ Goto(r, "fail") /\ "fail" \in Pcs
    BY DEF Guardrail, Steps, Pcs, OutsideTry
  <1>2. t \in Threads /\ t.pc = "fail"
    BY <1>1, InHand, ThreadAt
  <1>3. thread' = [thread EXCEPT ![r] = t] /\ UNCHANGED others
    BY <1>1, GotoAt
  <1>4. ~CallOpen(steps[r]) /\ runStatus[r] = "running"
    BY <1>1, InHand DEF Fits, StatusFits, AnswersFit, Ending, AnswerDue
  <1>5. /\ Cardinality(CallsOf(s)) = Cardinality(CallsOf(steps[r]))
        /\ ~CallOpen(s)
        /\ \A k \in DOMAIN s :
              /\ s[k] = "tool_call" /\ k < Len(s) => s[k + 1] = "tool_result"
              /\ s[k] = "tool_result" => k > 1 /\ s[k - 1] = "tool_call"
    <2>1. Cardinality(CallsOf(s)) = Cardinality(CallsOf(steps[r]))
      BY <1>1, InHand, CallsFinite, CallsOfAppend
    <2>2. AnswersFit(thread[r], runStatus[r], steps[r]) /\ steps[r] \in Seq(Steps)
      BY InHand DEF Fits
    <2> QED
      BY <1>1, <1>4, <2>1, <2>2, AnswersAppend
  <1> HIDE DEF t, s
  <1>6. Fits(t, runStatus[r], s, ProposalsOf(r))
    <2>1. StatusFits(t, runStatus[r]) /\ NothingYet(t, runStatus[r], s, ProposalsOf(r))
      BY <1>2, <1>4 DEF StatusFits, NothingYet, Early, InLoop, AnswerDue, Ending
    <2>2. CallsFit(t, s) /\ LettersFit(t, runStatus[r], ProposalsOf(r))
      BY <1>2, <1>4, <1>5, InHand DEF Fits, CallsFit, LettersFit, InLoop, AnswerDue
    <2>3. AnswersFit(t, runStatus[r], s)
      BY <1>2, <1>5 DEF AnswersFit, AnswerDue
    <2> QED
      BY <2>1, <2>2, <2>3 DEF Fits
  <1> QED
    BY <1>1, <1>2, <1>3, <1>6, StepMoves DEF s, AtWork

LEMMA FailKeeps ==
  ASSUME RunInv, NEW r \in Runs, Fail(r)
  PROVE  RunInv'
  <1> DEFINE t == [thread[r] EXCEPT !.pc = "fail count"]
  <1>1. /\ thread[r].pc = "fail" /\ SetStatus(r, "failed") /\ Goto(r, "fail count")
        /\ "fail count" \in Pcs /\ "failed" \in Statuses
    BY DEF Fail, Pcs, OutsideTry, Statuses, Terminal
  <1>2. t \in Threads /\ t.pc = "fail count"
    BY <1>1, InHand, ThreadAt
  <1>3. thread' = [thread EXCEPT ![r] = t] /\ UNCHANGED others
    BY <1>1, GotoAt
  <1> HIDE DEF t
  <1>4. Fits(t, "failed", steps[r], ProposalsOf(r))
    BY <1>1, <1>2, InHand
       DEF Fits, StatusFits, NothingYet, CallsFit, AnswersFit, LettersFit,
           Early, InLoop, AnswerDue, Ending
  <1> QED
    BY <1>1, <1>2, <1>3, <1>4, StatusMoves DEF AtWork

LEMMA FailCountKeeps ==
  ASSUME RunInv, NEW r \in Runs, FailCount(r)
  PROVE  RunInv'
  <1>1. /\ thread[r].pc = "fail count" /\ UNCHANGED tables
        /\ thread' = [thread EXCEPT ![r] = NoThread] /\ UNCHANGED others
        /\ faults' \in 0..MaxFaults
    BY DEF FailCount, Ends, others, RunInv, TypeOK
  <1>2. NoThread.pc = "gone" /\ NoThread.tools = 0
    BY DEF NoThread
  <1>3. Fits(NoThread, runStatus[r], steps[r], ProposalsOf(r))
    BY <1>1, <1>2, InHand
       DEF Fits, StatusFits, NothingYet, CallsFit, AnswersFit, LettersFit,
           Early, InLoop, AnswerDue, Ending
  <1> QED
    BY <1>1, <1>2, <1>3, NoThreadFits, ThreadMoves DEF AtWork, others

LEMMA CountKeeps ==
  ASSUME RunInv, NEW r \in Runs, Count(r)
  PROVE  RunInv'
  <1> DEFINE t == [NoThread EXCEPT !.pc = "finish", !.outcome = Outcome(r)]
  <1>1. /\ thread[r].pc = "count" /\ UNCHANGED <<others, tables>>
        /\ thread' = [thread EXCEPT ![r] = t]
    BY DEF Count
  <1>2. faults' \in 0..MaxFaults
    BY <1>1 DEF others, RunInv, TypeOK
  <1>3. t \in Threads /\ t.pc = "finish" /\ t.outcome = Outcome(r)
    BY NoThreadFits DEF Threads, Pcs, OutsideTry, Outcome
  <1> HIDE DEF t
  <1>4. Fits(t, runStatus[r], steps[r], ProposalsOf(r))
    <2>1. StatusFits(t, runStatus[r]) /\ NothingYet(t, runStatus[r], steps[r], ProposalsOf(r))
      BY <1>1, <1>3, InHand
         DEF Fits, StatusFits, NothingYet, Early, InLoop, AnswerDue, Ending
    <2>2. CallsFit(t, steps[r]) /\ AnswersFit(t, runStatus[r], steps[r])
      BY <1>1, <1>3, InHand DEF Fits, CallsFit, AnswersFit, InLoop, AnswerDue
    <2>3. LettersFit(t, runStatus[r], ProposalsOf(r))
      BY <1>3, InHand DEF Fits, LettersFit, Outcome
    <2> QED
      BY <2>1, <2>2, <2>3 DEF Fits
  <1> QED
    BY <1>1, <1>2, <1>3, <1>4, ThreadMoves DEF AtWork, others

LEMMA FinishKeeps ==
  ASSUME RunInv, NEW r \in Runs, Finish(r)
  PROVE  RunInv'
  <1> DEFINE st == thread[r].outcome
  <1>1. /\ thread[r].pc = "finish" /\ SetStatus(r, st)
        /\ thread' = [thread EXCEPT ![r] = NoThread] /\ UNCHANGED others
    BY DEF Finish, Ends
  <1>2. \/ st = "completed" /\ ProposalsOf(r) = {}
        \/ st = "awaiting_approval" /\ ProposalsOf(r) # {}
    BY <1>1, InHand DEF Fits, LettersFit
  <1>3. NoThread.pc = "gone" /\ NoThread.tools = 0 /\ st \in Statuses
    BY <1>2 DEF NoThread, Statuses, Terminal
  <1> HIDE DEF st
  <1>4. Fits(NoThread, st, steps[r], ProposalsOf(r))
    <2>1. StatusFits(NoThread, st) /\ NothingYet(NoThread, st, steps[r], ProposalsOf(r))
      BY <1>2, <1>3 DEF StatusFits, NothingYet, Early, InLoop, AnswerDue, Ending
    <2>2. CallsFit(NoThread, steps[r]) /\ AnswersFit(NoThread, st, steps[r])
      BY <1>1, <1>3, InHand DEF Fits, CallsFit, AnswersFit, InLoop, AnswerDue
    <2>3. LettersFit(NoThread, st, ProposalsOf(r))
      BY <1>2, <1>3, InHand DEF Fits, LettersFit
    <2> QED
      BY <2>1, <2>2, <2>3 DEF Fits
  <1> QED
    BY <1>1, <1>3, <1>4, NoThreadFits, StatusMoves DEF AtWork

LEMMA MarkCrashedKeeps ==
  ASSUME RunInv, NEW r \in Runs, MarkCrashed(r)
  PROVE  RunInv'
  <1>1. /\ thread[r].pc = "crashed" /\ SetStatus(r, "failed") /\ "failed" \in Statuses
        /\ thread' = [thread EXCEPT ![r] = NoThread] /\ UNCHANGED others
    BY DEF MarkCrashed, Ends, Statuses, Terminal
  <1>2. NoThread.pc = "gone" /\ NoThread.tools = 0
    BY DEF NoThread
  <1>3. Fits(NoThread, "failed", steps[r], ProposalsOf(r))
    BY <1>1, <1>2, InHand
       DEF Fits, StatusFits, NothingYet, CallsFit, AnswersFit, LettersFit,
           Early, InLoop, AnswerDue, Ending
  <1> QED
    BY <1>1, <1>2, <1>3, NoThreadFits, StatusMoves DEF AtWork

(* An exception loses the counters, not the rows.                          *)
LEMMA RaiseKeeps ==
  ASSUME RunInv, NEW r \in Runs, Raise(r)
  PROVE  RunInv'
  <1>1. /\ faults' \in 0..MaxFaults
        /\ phase' = phase /\ queue' = queue /\ stops' = stops /\ UNCHANGED tables
    BY LimitsAssumption DEF Raise, RunInv, TypeOK
  <1>2. CASE /\ thread[r].pc \in InTry
             /\ thread' = [thread EXCEPT ![r] = [NoThread EXCEPT !.pc = "fail"]]
    <2> DEFINE t == [NoThread EXCEPT !.pc = "fail"]
    <2>1. t \in Threads /\ t.pc = "fail"
      BY NoThreadFits DEF Pcs, OutsideTry
    <2>2. thread' = [thread EXCEPT ![r] = t]
      BY <1>2
    <2> HIDE DEF t
    <2>3. Fits(t, runStatus[r], steps[r], ProposalsOf(r))
      BY <1>2, <2>1, InHand
         DEF Fits, StatusFits, NothingYet, CallsFit, AnswersFit, LettersFit,
             InTry, Early, InLoop, AnswerDue, Ending
    <2> QED
      BY <1>1, <1>2, <2>1, <2>2, <2>3, ThreadMoves DEF AtWork, InTry
  <1>3. CASE /\ thread[r].pc \in OutsideTry
             /\ thread' = [thread EXCEPT ![r] = [NoThread EXCEPT !.pc = "crashed"]]
    <2> DEFINE t == [NoThread EXCEPT !.pc = "crashed"]
    <2>1. t \in Threads /\ t.pc = "crashed"
      BY NoThreadFits DEF Pcs, LastResort
    <2>2. thread' = [thread EXCEPT ![r] = t]
      BY <1>3
    <2> HIDE DEF t
    <2>3. Fits(t, runStatus[r], steps[r], ProposalsOf(r))
      BY <1>3, <2>1, InHand
         DEF Fits, StatusFits, NothingYet, CallsFit, AnswersFit, LettersFit,
             OutsideTry, Early, InLoop, AnswerDue, Ending
    <2> QED
      BY <1>1, <1>3, <2>1, <2>2, <2>3, ThreadMoves DEF AtWork, OutsideTry
  <1>4. CASE /\ thread[r].pc \in LastResort
             /\ thread' = [thread EXCEPT ![r] = NoThread]
    <2>1. NoThread.pc = "gone" /\ NoThread.tools = 0
      BY DEF NoThread
    <2>2. Fits(NoThread, runStatus[r], steps[r], ProposalsOf(r))
      BY <1>4, <2>1, InHand
         DEF Fits, StatusFits, NothingYet, CallsFit, AnswersFit, LettersFit,
             LastResort, Early, InLoop, AnswerDue, Ending
    <2> QED
      BY <1>1, <1>4, <2>1, <2>2, NoThreadFits, ThreadMoves DEF AtWork, LastResort
  <1> QED
    BY <1>2, <1>3, <1>4 DEF Raise

LEMMA ThreadStepKeeps ==
  ASSUME RunInv, NEW r \in Runs, ThreadStep(r)
  PROVE  RunInv'
  <1>1. CASE NoTurnLeft(r)
    BY <1>1, LeaveKeeps DEF NoTurnLeft, InLoop, AnswerDue
  <1>2. CASE ModelRaises(r)
    BY <1>2, LeaveKeeps DEF ModelRaises, InLoop, AnswerDue
  <1>3. CASE NoCallLeft(r)
    BY <1>3, LeaveKeeps DEF NoCallLeft, InLoop, AnswerDue
  <1> QED
    BY <1>1, <1>2, <1>3, BeginKeeps, NoModelKeeps, SetRunningKeeps, TurnKeeps, CallKeeps,
       UseToolKeeps, CheckCapKeeps, ResultKeeps, GuardrailKeeps, FailKeeps, FailCountKeeps,
       CountKeeps, FinishKeeps, MarkCrashedKeeps, ProposeKeeps DEF ThreadStep

(***************************************************************************)
(* The pool                                                                *)
(***************************************************************************)

LEMMA StartRunKeeps ==
  ASSUME RunInv, NEW r \in Runs, StartRun(r)
  PROVE  RunInv'
  <1> DEFINE t == [thread[r] EXCEPT !.pc = "created"]
  <1>1. /\ phase = "up" /\ runStatus[r] = "none" /\ UNCHANGED others
        /\ runStatus' = [runStatus EXCEPT ![r] = "queued"] /\ UNCHANGED <<steps, proposals>>
        /\ thread \in [Runs -> Threads] /\ runStatus \in [Runs -> Statuses]
        /\ "queued" \in Statuses /\ "created" \in Pcs
    BY DEF StartRun, SetStatus, RunInv, TypeOK, Statuses, Unfinished, Pcs
  <1>2. t \in Threads /\ t.pc = "created" /\ t.tools = thread[r].tools
    BY <1>1, ThreadAt
  <1>3. thread' = [thread EXCEPT ![r] = t]
    BY <1>1 DEF StartRun
  <1> HIDE DEF t
  <1>4. thread[r].pc = "gone"
    BY <1>1, InHand DEF Fits, StatusFits
  <1>5. Fits(t, "queued", steps[r], ProposalsOf(r))
    BY <1>1, <1>2, <1>4, InHand
       DEF Fits, StatusFits, NothingYet, CallsFit, AnswersFit, LettersFit,
           Early, InLoop, AnswerDue, Ending
  <1>6. /\ thread'[r] = t /\ runStatus'[r] = "queued"
        /\ \A x \in Runs \ {r} : thread'[x] = thread[x] /\ runStatus'[x] = runStatus[x]
        /\ \A x \in Runs : steps'[x] = steps[x] /\ ProposalsOf(x)' = ProposalsOf(x)
    BY <1>1, <1>3 DEF ProposalsOf
  <1>7. \A x \in Runs : Fits(thread'[x], runStatus'[x], steps'[x], ProposalsOf(x)')
    BY <1>5, <1>6, InHand
  <1>8. TypeOK'
    BY <1>1, <1>2, <1>3 DEF RunInv, TypeOK, others
  <1>9. ThreadsOfProcess'
    <2>1. \A k \in DOMAIN queue : queue[k] \in Runs \ {r}
      BY <1>4, LenProperties, ElementOfSeq DEF RunInv, TypeOK, ThreadsOfProcess
    <2> QED
      BY <1>1, <1>2, <1>6, <2>1 DEF RunInv, ThreadsOfProcess, others
  <1>10. OnePending'
    BY <1>1 DEF RunInv, OnePending
  <1> QED
    BY <1>7, <1>8, <1>9, <1>10 DEF RunInv

LEMMA SubmitKeeps ==
  ASSUME RunInv, NEW r \in Runs, Submit(r)
  PROVE  RunInv'
  <1> DEFINE t == [thread[r] EXCEPT !.pc = "submitted"]
             q == Append(queue, r)
  <1>1. /\ thread[r].pc = "created" /\ queue' = q
        /\ UNCHANGED <<phase, faults, stops, tables>>
        /\ thread \in [Runs -> Threads] /\ queue \in Seq(Runs) /\ "submitted" \in Pcs
    BY DEF Submit, RunInv, TypeOK, Pcs
  <1>2. t \in Threads /\ t.pc = "submitted" /\ t.tools = thread[r].tools
    BY <1>1, ThreadAt
  <1>3. thread' = [thread EXCEPT ![r] = t]
    BY <1>1 DEF Submit
  <1>4. /\ q \in Seq(Runs) /\ Len(queue) \in Nat /\ DOMAIN q = 1..Len(queue) + 1
        /\ DOMAIN queue = 1..Len(queue)
        /\ \A k \in 1..Len(queue) : q[k] = queue[k]
        /\ q[Len(queue) + 1] = r
    BY <1>1, AppendProperties, LenProperties
  <1> HIDE DEF t, q
  <1>5. Fits(t, runStatus[r], steps[r], ProposalsOf(r))
    BY <1>1, <1>2, InHand
       DEF Fits, StatusFits, NothingYet, CallsFit, AnswersFit, LettersFit,
           Early, InLoop, AnswerDue, Ending
  <1>6. /\ thread'[r] = t /\ \A x \in Runs \ {r} : thread'[x] = thread[x]
        /\ \A x \in Runs : /\ runStatus'[x] = runStatus[x] /\ steps'[x] = steps[x]
                           /\ ProposalsOf(x)' = ProposalsOf(x)
    BY <1>1, <1>3 DEF ProposalsOf, tables
  <1>7. \A x \in Runs : Fits(thread'[x], runStatus'[x], steps'[x], ProposalsOf(x)')
    BY <1>5, <1>6, InHand
  <1>8. TypeOK'
    BY <1>1, <1>2, <1>3, <1>4 DEF RunInv, TypeOK, tables
  <1>9. ThreadsOfProcess'
    <2>1. \A k \in 1..Len(queue) : /\ queue[k] \in Runs \ {r}
                                   /\ thread'[queue[k]].pc = "submitted"
      BY <1>1, <1>4, <1>6, ElementOfSeq DEF RunInv, ThreadsOfProcess
    <2>2. \A k \in DOMAIN q : k \in 1..Len(queue) \/ k = Len(queue) + 1
      BY <1>4
    <2>3. \A k \in DOMAIN q : thread'[q[k]].pc = "submitted"
      BY <1>2, <1>4, <1>6, <2>1, <2>2
    <2>4. \A j, k \in DOMAIN q : q[j] = q[k] => j = k
      BY <1>4, <2>1, <2>2 DEF RunInv, ThreadsOfProcess
    <2>5. phase = "up" /\ phase' = "up"
      BY <1>1 DEF RunInv, ThreadsOfProcess
    <2> QED
      BY <1>1, <2>3, <2>4, <2>5 DEF ThreadsOfProcess
  <1>10. OnePending'
    BY <1>1 DEF RunInv, OnePending, tables
  <1> QED
    BY <1>7, <1>8, <1>9, <1>10 DEF RunInv

LEMMA TakeUpKeeps ==
  ASSUME RunInv, TakeUp
  PROVE  RunInv'
  <1> DEFINE r == Head(queue)
             t == [thread[r] EXCEPT !.pc = "start"]
             q == Tail(queue)
  <1>1. /\ phase = "up" /\ queue # <<>> /\ queue' = q
        /\ UNCHANGED <<phase, faults, stops, tables>>
        /\ thread \in [Runs -> Threads] /\ queue \in Seq(Runs) /\ "start" \in Pcs
    BY DEF TakeUp, RunInv, TypeOK, Pcs
  <1>2. /\ r \in Runs /\ r = queue[1] /\ q \in Seq(Runs)
        /\ Len(queue) \in Nat /\ Len(queue) > 0
        /\ DOMAIN queue = 1..Len(queue) /\ DOMAIN q = 1..Len(queue) - 1
        /\ \A k \in 1..Len(queue) - 1 : q[k] = queue[k + 1]
    <2>1. /\ r \in Runs /\ r = queue[1] /\ q \in Seq(Runs) /\ Len(q) = Len(queue) - 1
          /\ \A k \in 1..Len(q) : q[k] = queue[k + 1]
      BY <1>1, HeadTailProperties
    <2>2. /\ Len(queue) \in Nat \ {0} /\ DOMAIN queue = 1..Len(queue) /\ DOMAIN q = 1..Len(q)
      BY <1>1, <2>1, EmptySeq, LenProperties
    <2> QED
      BY <2>1, <2>2
  <1>3. t \in Threads /\ t.pc = "start" /\ t.tools = thread[r].tools
    BY <1>1, <1>2, ThreadAt
  <1>4. thread' = [thread EXCEPT ![r] = t]
    BY <1>1, <1>2 DEF TakeUp
  <1> HIDE DEF r, t, q
  <1>5. thread[r].pc = "submitted"
    BY <1>2 DEF RunInv, ThreadsOfProcess
  <1>6. Fits(t, runStatus[r], steps[r], ProposalsOf(r))
    BY <1>2, <1>3, <1>5, InHand
       DEF Fits, StatusFits, NothingYet, CallsFit, AnswersFit, LettersFit,
           Early, InLoop, AnswerDue, Ending
  <1>7. /\ thread'[r] = t /\ \A x \in Runs \ {r} : thread'[x] = thread[x]
        /\ \A x \in Runs : /\ runStatus'[x] = runStatus[x] /\ steps'[x] = steps[x]
                           /\ ProposalsOf(x)' = ProposalsOf(x)
    BY <1>1, <1>2, <1>4 DEF ProposalsOf, tables
  <1>8. \A x \in Runs : Fits(thread'[x], runStatus'[x], steps'[x], ProposalsOf(x)')
    BY <1>6, <1>7, InHand
  <1>9. TypeOK'
    BY <1>1, <1>2, <1>3, <1>4 DEF RunInv, TypeOK, tables
  <1>10. ThreadsOfProcess'
    <2>1. ASSUME NEW k \in DOMAIN q
          PROVE  /\ k + 1 \in DOMAIN queue /\ q[k] = queue[k + 1]
                 /\ q[k] # r /\ q[k] \in Runs
      <3>1. k + 1 \in DOMAIN queue /\ 1 \in DOMAIN queue /\ k + 1 # 1 /\ q[k] = queue[k + 1]
        BY <1>2
      <3>2. queue[k + 1] # queue[1] /\ queue[k + 1] \in Runs
        BY <1>1, <1>2, <3>1, ElementOfSeq DEF RunInv, ThreadsOfProcess
      <3> QED
        BY <1>2, <3>1, <3>2
    <2>2. \A k \in DOMAIN q : thread'[q[k]].pc = "submitted"
      BY <1>7, <2>1 DEF RunInv, ThreadsOfProcess
    <2>3. ASSUME NEW j \in DOMAIN q, NEW k \in DOMAIN q, q[j] = q[k] PROVE j = k
      <3>1. j + 1 = k + 1
        BY <2>1, <2>3 DEF RunInv, ThreadsOfProcess
      <3> QED
        BY <1>2, <3>1
    <2>4. \A x \in Runs : thread'[x].pc \in {"created", "submitted"} => phase' = "up"
      BY <1>1
    <2> QED
      BY <1>1, <2>2, <2>3, <2>4 DEF ThreadsOfProcess
  <1>11. OnePending'
    BY <1>1 DEF RunInv, OnePending, tables
  <1> QED
    BY <1>8, <1>9, <1>10, <1>11 DEF RunInv

(***************************************************************************)
(* Decisions, pages and restarts                                           *)
(***************************************************************************)

(* A run that waits with nothing pending fits as completed.                *)
LEMMA SettledFits ==
  ASSUME RunInv, NEW r \in Runs
  PROVE  Settled[r] \in Statuses /\ Fits(thread[r], Settled[r], steps[r], ProposalsOf(r))
  <1>1. CASE runStatus[r] = "awaiting_approval" /\ PendingOf(r) = {}
    <2>1. Settled[r] = "completed"
      BY <1>1 DEF Settled
    <2>2. \A p \in ProposalsOf(r) : ~p.pending
      BY <1>1 DEF PendingOf
    <2>3. Fits(thread[r], "completed", steps[r], ProposalsOf(r))
      BY <1>1, <2>2, InHand
         DEF Fits, StatusFits, NothingYet, AnswersFit, LettersFit, Early, InLoop, AnswerDue, Ending
    <2> QED
      BY <2>1, <2>3 DEF Statuses, Terminal
  <1>2. CASE ~(runStatus[r] = "awaiting_approval" /\ PendingOf(r) = {})
    <2>1. Settled[r] = runStatus[r]
      BY <1>2 DEF Settled
    <2> QED
      BY <2>1, InHand
  <1> QED
    BY <1>1, <1>2

LEMMA SettlingKeeps ==
  ASSUME RunInv, runStatus' = Settled, UNCHANGED <<steps, proposals, thread, queue, faults, stops>>,
         phase' = phase \/ (phase = "abandoned" /\ phase' = "up")
  PROVE  RunInv'
  <1>1. \A x \in Runs : /\ thread'[x] = thread[x] /\ runStatus'[x] = Settled[x]
                        /\ steps'[x] = steps[x] /\ ProposalsOf(x)' = ProposalsOf(x)
    BY DEF ProposalsOf
  <1>2. \A x \in Runs : Fits(thread'[x], runStatus'[x], steps'[x], ProposalsOf(x)')
    BY <1>1, SettledFits
  <1>3. runStatus' \in [Runs -> Statuses]
    BY SettledFits DEF Settled
  <1>4. TypeOK' /\ ThreadsOfProcess' /\ OnePending'
    BY <1>3 DEF RunInv, TypeOK, ThreadsOfProcess, OnePending
  <1> QED
    BY <1>2, <1>4 DEF RunInv

(* A decided letter is still its run's, and pending no more.               *)
LEMMA DecideKeeps ==
  ASSUME RunInv, NEW p \in proposals, NEW settles \in BOOLEAN, Decide(p, settles)
  PROVE  RunInv'
  <1> DEFINE q == [p EXCEPT !.pending = FALSE]
             r == p.run
  <1>1. /\ p \in Proposals /\ p.pending /\ phase = "up"
        /\ proposals' = (proposals \ {p}) \cup {q}
        /\ UNCHANGED <<steps, thread, phase, queue, faults, stops>>
    BY DEF Decide, others, RunInv, TypeOK
  <1>2. /\ q \in Proposals /\ ~q.pending /\ q.run = r /\ r \in Runs
    BY <1>1 DEF Proposals
  <1>3. /\ runStatus' \in [Runs -> Statuses]
        /\ \A x \in Runs \ {r} : runStatus'[x] = runStatus[x]
        /\ \/ runStatus'[r] = runStatus[r]
           \/ /\ runStatus[r] = "awaiting_approval" /\ runStatus'[r] = "completed"
              /\ PendingOf(r) = {p}
    BY <1>2 DEF Decide, RunInv, TypeOK, Statuses, Terminal
  <1> HIDE DEF q, r
  <1>4. /\ \A x \in Runs \ {r} : ProposalsOf(x)' = ProposalsOf(x)
        /\ ProposalsOf(r)' = (ProposalsOf(r) \ {p}) \cup {q} /\ p \in ProposalsOf(r)
    BY <1>1, <1>2 DEF ProposalsOf, r
  <1>5. /\ IsFiniteSet(ProposalsOf(r)')
        /\ Cardinality(ProposalsOf(r)') <= Cardinality(ProposalsOf(r))
    <2> DEFINE A == ProposalsOf(r)
               B == A \ {p}
    <2>1. IsFiniteSet(A) /\ p \in A
      BY <1>2, <1>4, InHand DEF Fits, LettersFit
    <2>2. IsFiniteSet(B) /\ Cardinality(B) = Cardinality(A) - 1
      BY <2>1, FS_RemoveElement
    <2>3. /\ IsFiniteSet(B \cup {q})
          /\ Cardinality(B \cup {q}) = IF q \in B THEN Cardinality(B) ELSE Cardinality(B) + 1
      BY <2>2, FS_AddElement
    <2>4. Cardinality(A) \in Nat
      BY <2>1, FS_CardinalityType
    <2> QED
      BY <1>4, <2>2, <2>3, <2>4
  <1>6. ProposalsOf(r) # {} /\ ProposalsOf(r)' # {}
    BY <1>4
  <1>7. Cardinality(ProposalsOf(r)) \in Nat /\ Cardinality(ProposalsOf(r)') \in Nat
        /\ MaxProposals \in Nat
    BY <1>2, <1>5, InHand, FS_CardinalityType, LimitsAssumption DEF Fits, LettersFit
  <1>8. Fits(thread[r], runStatus'[r], steps[r], ProposalsOf(r)')
    <2>1. Fits(thread[r], runStatus[r], steps[r], ProposalsOf(r))
      BY <1>2, InHand
    <2>2. CASE runStatus'[r] = runStatus[r]
      <3>1. runStatus[r] = "completed" => \A x \in ProposalsOf(r)' : ~x.pending
        BY <1>2, <1>4, <2>1 DEF Fits, LettersFit
      <3>2. LettersFit(thread[r], runStatus[r], ProposalsOf(r)')
        BY <1>5, <1>6, <1>7, <2>1, <3>1 DEF Fits, LettersFit
      <3>3. NothingYet(thread[r], runStatus[r], steps[r], ProposalsOf(r)')
        BY <1>6, <2>1 DEF Fits, NothingYet
      <3> QED
        BY <2>1, <2>2, <3>2, <3>3 DEF Fits
    <2>3. CASE /\ runStatus[r] = "awaiting_approval" /\ runStatus'[r] = "completed"
               /\ PendingOf(r) = {p}
      <3>1. \A x \in ProposalsOf(r)' : ~x.pending
        BY <1>2, <1>4, <2>3 DEF PendingOf
      <3>2. LettersFit(thread[r], "completed", ProposalsOf(r)')
        BY <1>5, <1>6, <1>7, <2>1, <3>1 DEF Fits, LettersFit
      <3>3. /\ StatusFits(thread[r], "completed")
            /\ NothingYet(thread[r], "completed", steps[r], ProposalsOf(r)')
            /\ AnswersFit(thread[r], "completed", steps[r])
        BY <2>1, <2>3
           DEF Fits, StatusFits, NothingYet, AnswersFit, Early, InLoop, AnswerDue, Ending
      <3> QED
        BY <2>1, <2>3, <3>2, <3>3 DEF Fits
    <2> QED
      BY <1>3, <2>2, <2>3
  <1>9. \A x \in Runs : Fits(thread'[x], runStatus'[x], steps'[x], ProposalsOf(x)')
    BY <1>1, <1>3, <1>4, <1>8, InHand
  <1>10. TypeOK'
    BY <1>1, <1>2, <1>3 DEF RunInv, TypeOK
  <1>11. ThreadsOfProcess'
    BY <1>1 DEF RunInv, ThreadsOfProcess
  <1>12. OnePending'
    BY <1>1, <1>2 DEF RunInv, OnePending
  <1> QED
    BY <1>9, <1>10, <1>11, <1>12 DEF RunInv

(* Whoever loses its thread is open at most where it was.                  *)
LEMMA ThreadsLost ==
  ASSUME RunInv, UNCHANGED tables, queue' = <<>>,
         phase' \in {"stopping", "down"}, stops' \in 0..MaxStops, faults' = faults,
         NEW kept \in SUBSET Runs, \A x \in kept : AtWork(x), phase' = "down" => kept = {},
         thread' = [x \in Runs |-> IF x \in kept THEN thread[x] ELSE NoThread]
  PROVE  RunInv'
  <1>1. NoThread.pc = "gone" /\ NoThread.tools = 0 /\ NoThread \in Threads
    BY NoThreadFits DEF NoThread
  <1>2. \A x \in Runs : Fits(NoThread, runStatus[x], steps[x], ProposalsOf(x))
    <2> TAKE x \in Runs
    <2>1. StatusFits(NoThread, runStatus[x])
      BY <1>1 DEF StatusFits, Early, InLoop, AnswerDue, Ending
    <2>2. NothingYet(NoThread, runStatus[x], steps[x], ProposalsOf(x))
      BY <1>1, InHand DEF Fits, NothingYet
    <2>3. CallsFit(NoThread, steps[x]) /\ AnswersFit(NoThread, runStatus[x], steps[x])
      BY <1>1, InHand DEF Fits, CallsFit, AnswersFit, InLoop, AnswerDue
    <2>4. LettersFit(NoThread, runStatus[x], ProposalsOf(x))
      BY <1>1, InHand DEF Fits, LettersFit
    <2> QED
      BY <2>1, <2>2, <2>3, <2>4 DEF Fits
  <1>3. \A x \in Runs : /\ thread'[x] = thread[x] \/ thread'[x] = NoThread
                        /\ runStatus'[x] = runStatus[x] /\ steps'[x] = steps[x]
                        /\ ProposalsOf(x)' = ProposalsOf(x)
    BY DEF ProposalsOf, tables
  <1>4. \A x \in Runs : Fits(thread'[x], runStatus'[x], steps'[x], ProposalsOf(x)')
    BY <1>2, <1>3, InHand
  <1>5. thread' \in [Runs -> Threads]
    BY <1>1, InHand
  <1>6. TypeOK' /\ OnePending'
    BY <1>5, EmptySeq DEF RunInv, TypeOK, OnePending, tables
  <1>7. ThreadsOfProcess'
    <2>1. \A x \in Runs : /\ thread'[x].pc \notin {"created", "submitted"}
                          /\ phase' = "down" => thread'[x].pc = "gone"
      BY <1>1 DEF AtWork
    <2> QED
      BY <2>1 DEF ThreadsOfProcess
  <1> QED
    BY <1>4, <1>6, <1>7 DEF RunInv

LEMMA StopKeeps ==
  ASSUME RunInv, Stop
  PROVE  RunInv'
  <1>1. Working \in SUBSET Runs /\ \A x \in Working : AtWork(x)
    BY DEF Working, AtWork
  <1>2. stops' \in 0..MaxStops
    BY LimitsAssumption DEF Stop, RunInv, TypeOK
  <1> QED
    BY <1>1, <1>2, ThreadsLost DEF Stop

LEMMA ExitKeeps ==
  ASSUME RunInv, Exit
  PROVE  RunInv'
  <1>1. phase = "stopping" /\ phase' = "down" /\ UNCHANGED <<queue, thread, faults, stops, tables>>
    BY DEF Exit
  <1>2. \A x \in Runs : thread[x].pc = "gone"
    BY <1>1 DEF Exit, Working, RunInv, ThreadsOfProcess
  <1>3. TypeOK' /\ OnePending' /\ ThreadsOfProcess'
    BY <1>1, <1>2 DEF RunInv, TypeOK, OnePending, ThreadsOfProcess, tables
  <1>4. \A x \in Runs : Fits(thread'[x], runStatus'[x], steps'[x], ProposalsOf(x)')
    BY <1>1, InHand DEF ProposalsOf, tables
  <1> QED
    BY <1>3, <1>4 DEF RunInv

LEMMA CrashKeeps ==
  ASSUME RunInv, Crash
  PROVE  RunInv'
  <1> DEFINE kept == {}
  <1>1. thread' = [x \in Runs |-> IF x \in kept THEN thread[x] ELSE NoThread]
    BY DEF Crash
  <1>2. stops' \in 0..MaxStops
    BY LimitsAssumption DEF Crash, RunInv, TypeOK
  <1>3. kept \in SUBSET Runs /\ kept = {}
    OBVIOUS
  <1>4. UNCHANGED tables /\ queue' = <<>> /\ phase' = "down" /\ faults' = faults
    BY DEF Crash
  <1> HIDE DEF kept
  <1> QED
    BY <1>1, <1>2, <1>3, <1>4, ThreadsLost

(* Start-up fails a run only where there is no thread.                     *)
LEMMA AbandonKeeps ==
  ASSUME RunInv, Abandon
  PROVE  RunInv'
  <1>1. /\ phase = "down" /\ phase' = "abandoned"
        /\ UNCHANGED <<steps, proposals, queue, thread, faults, stops>>
        /\ \A x \in Runs : runStatus'[x] = IF runStatus[x] \in Unfinished THEN "failed"
                                           ELSE runStatus[x]
    BY DEF Abandon, Orphaned
  <1>2. runStatus' \in [Runs -> Statuses]
    BY InHand DEF Abandon, Statuses, Terminal
  <1>3. \A x \in Runs : thread[x].pc = "gone"
    BY <1>1 DEF RunInv, ThreadsOfProcess
  <1>4. \A x \in Runs : Fits(thread[x], runStatus'[x], steps[x], ProposalsOf(x))
    <2> TAKE x \in Runs
    <2>1. CASE runStatus[x] \in Unfinished
      BY <1>1, <1>3, <2>1, InHand
         DEF Fits, StatusFits, NothingYet, AnswersFit, LettersFit, Early, InLoop, AnswerDue, Ending
    <2>2. CASE runStatus[x] \notin Unfinished
      BY <1>1, <2>2, InHand
    <2> QED
      BY <2>1, <2>2
  <1>5. \A x \in Runs : Fits(thread'[x], runStatus'[x], steps'[x], ProposalsOf(x)')
    BY <1>1, <1>4 DEF ProposalsOf
  <1>6. TypeOK' /\ OnePending' /\ ThreadsOfProcess'
    BY <1>1, <1>2 DEF RunInv, TypeOK, OnePending, ThreadsOfProcess
  <1> QED
    BY <1>5, <1>6 DEF RunInv

(***************************************************************************)
(* The invariant                                                           *)
(***************************************************************************)

LEMMA RunInvInit == Init => RunInv
  <1> SUFFICES ASSUME Init PROVE RunInv
    OBVIOUS
  <1>1. NoThread.pc = "gone" /\ NoThread.tools = 0 /\ NoThread \in Threads
    BY NoThreadFits DEF NoThread
  <1>2. \A x \in Runs : ProposalsOf(x) = {}
    BY DEF Init, ProposalsOf
  <1>3. Fits(NoThread, "none", <<>>, {})
    BY <1>1, NoCalls, FS_EmptySet, LimitsAssumption
       DEF Fits, StatusFits, NothingYet, CallsFit, AnswersFit, LettersFit,
           Early, InLoop, AnswerDue, Ending
  <1>4. \A x \in Runs : Fits(thread[x], runStatus[x], steps[x], ProposalsOf(x))
    BY <1>2, <1>3 DEF Init
  <1>5. TypeOK
    BY <1>1, EmptySeq, LimitsAssumption DEF Init, TypeOK, Statuses
  <1>6. ThreadsOfProcess /\ OnePending
    BY <1>1 DEF Init, ThreadsOfProcess, OnePending
  <1> QED
    BY <1>4, <1>5, <1>6 DEF RunInv

LEMMA RunInvNext == RunInv /\ [Next]_vars => RunInv'
  <1> SUFFICES ASSUME RunInv, [Next]_vars PROVE RunInv'
    OBVIOUS
  <1>1. ASSUME NEW r \in Runs, StartRun(r) \/ Submit(r) \/ ThreadStep(r) \/ Raise(r)
        PROVE  RunInv'
    BY <1>1, StartRunKeeps, SubmitKeeps, ThreadStepKeeps, RaiseKeeps
  <1>2. CASE TakeUp
    BY <1>2, TakeUpKeeps
  <1>3. ASSUME NEW p \in proposals, NEW settles \in BOOLEAN, Decide(p, settles)
        PROVE  RunInv'
    BY <1>3, DecideKeeps
  <1>4. CASE Page
    BY <1>4, SettlingKeeps DEF Page, others
  <1>5. CASE Serve
    BY <1>5, SettlingKeeps DEF Serve
  <1>6. CASE Stop \/ Exit \/ Crash \/ Abandon
    BY <1>6, StopKeeps, ExitKeeps, CrashKeeps, AbandonKeeps
  <1>7. CASE UNCHANGED vars
    <2>1. TypeOK' /\ OnePending' /\ ThreadsOfProcess'
      BY <1>7 DEF vars, RunInv, TypeOK, OnePending, ThreadsOfProcess
    <2>2. \A x \in Runs : Fits(thread'[x], runStatus'[x], steps'[x], ProposalsOf(x)')
      BY <1>7, InHand DEF vars, ProposalsOf
    <2> QED
      BY <2>1, <2>2 DEF RunInv
  <1> QED
    BY <1>1, <1>2, <1>3, <1>4, <1>5, <1>6, <1>7 DEF Next

(* A run's thread, its status, its transcript and its letters always fit   *)
(* together, in every process that serves, stops or starts.                *)
THEOREM RunInvariant == Spec => []RunInv
  BY RunInvInit, RunInvNext, PTL DEF Spec

(* Every variable keeps its type.                                          *)
THEOREM RunTypesCorrect == Spec => []TypeOK
  <1>1. RunInv => TypeOK
    BY DEF RunInv
  <1> QED
    BY <1>1, RunInvariant, PTL

(* A run makes no more tool calls and queues no more letters than its      *)
(* limits, and an invoice has one letter in the queue at most.             *)
THEOREM RunsKeepTheirLimits == Spec => []WithinLimits
  <1>1. RunInv => WithinLimits
    <2> SUFFICES ASSUME RunInv PROVE WithinLimits
      OBVIOUS
    <2>1. \A r \in Runs : /\ Cardinality(CallsOf(steps[r])) <= MaxToolCalls
                          /\ Cardinality(ProposalsOf(r)) <= MaxProposals
      BY InHand DEF Fits, CallsFit, LettersFit
    <2> QED
      BY <2>1 DEF WithinLimits, CallsOf, RunInv, OnePending
  <1> QED
    BY <1>1, RunInvariant, PTL

(* A call's result is the next step, and a call without one is the last    *)
(* thing its run did, which failed or was cut off.                         *)
THEOREM CallsHaveResults == Spec => []ResultsFollowCalls
  <1>1. RunInv => ResultsFollowCalls
    <2> SUFFICES ASSUME RunInv, NEW r \in Runs, NEW k \in DOMAIN steps[r]
                 PROVE  /\ steps[r][k] = "tool_call" =>
                             \/ k < Len(steps[r]) /\ steps[r][k + 1] = "tool_result"
                             \/ k = Len(steps[r]) /\ runStatus[r] \in {"running", "failed"}
                        /\ steps[r][k] = "tool_result" => k > 1 /\ steps[r][k - 1] = "tool_call"
      BY DEF ResultsFollowCalls
    <2>1. /\ steps[r] \in Seq(Steps) /\ AnswersFit(thread[r], runStatus[r], steps[r])
      BY InHand DEF Fits
    <2>2. /\ Len(steps[r]) \in Nat /\ DOMAIN steps[r] = 1..Len(steps[r])
      BY <2>1, LenProperties
    <2>3. k < Len(steps[r]) \/ k = Len(steps[r])
      BY <2>2
    <2>4. CASE k < Len(steps[r])
      BY <2>1, <2>4 DEF AnswersFit
    <2>5. CASE k = Len(steps[r])
      <3>1. steps[r] # <<>>
        BY <2>2
      <3> QED
        BY <2>1, <2>5, <3>1 DEF AnswersFit, CallOpen
    <2> QED
      BY <2>3, <2>4, <2>5
  <1> QED
    BY <1>1, RunInvariant, PTL

(* A run that waits has queued a letter, and one that is completed has     *)
(* none undecided.                                                         *)
THEOREM StatusesMatchTheQueue == Spec => []StatusMatchesQueue
  <1>1. RunInv => StatusMatchesQueue
    BY InHand DEF Fits, LettersFit, StatusMatchesQueue, PendingOf
  <1> QED
    BY <1>1, RunInvariant, PTL

(* Nobody finishes a run that a thread works on.                           *)
THEOREM RunsAreOwned == Spec => []Owned
  <1>1. RunInv => Owned
    <2> SUFFICES ASSUME RunInv, NEW r \in Runs
                 PROVE  /\ thread[r].pc \notin {"gone", "fail count", "crashed"}
                             => runStatus[r] \in Unfinished
                        /\ thread[r].pc \in {"fail count", "crashed"}
                             => runStatus[r] \in Unfinished \cup {"failed"}
      BY DEF Owned
    <2>1. thread[r].pc \in Pcs /\ StatusFits(thread[r], runStatus[r])
      BY InHand DEF Fits, Threads
    <2>2. Pcs \ {"gone", "fail count", "crashed"} = Early \cup InLoop \cup Ending
      BY DEF Pcs, InTry, OutsideTry, LastResort, Early, InLoop, AnswerDue, Ending
    <2> QED
      BY <2>1, <2>2 DEF StatusFits, Unfinished
  <1> QED
    BY <1>1, RunInvariant, PTL

(***************************************************************************)
(* Endings are final                                                       *)
(***************************************************************************)

EndStays(r) ==
    runStatus[r] \in Terminal =>
        \/ runStatus'[r] = runStatus[r]
        \/ runStatus[r] = "awaiting_approval" /\ runStatus'[r] = "completed"

(* A thread changes a status only while it owns the run.                   *)
LEMMA ThreadEnds ==
  ASSUME RunInv, NEW r \in Runs, ThreadStep(r), NEW x \in Runs
  PROVE  EndStays(x)
  <1>1. CASE UNCHANGED runStatus
    BY <1>1 DEF EndStays
  <1>2. ASSUME NEW st, SetStatus(r, st),
               runStatus[r] \notin Terminal \/ (runStatus[r] = "failed" /\ st = "failed")
        PROVE  EndStays(x)
    BY <1>2 DEF SetStatus, EndStays, RunInv, TypeOK
  <1>3. ASSUME NoModel(r) \/ SetRunning(r) \/ Fail(r) \/ Finish(r) \/ MarkCrashed(r)
        PROVE  EndStays(x)
    <2>1. StatusFits(thread[r], runStatus[r])
      BY InHand DEF Fits
    <2>2. CASE NoModel(r) \/ SetRunning(r)
      <3>1. runStatus[r] = "queued"
        BY <2>1, <2>2 DEF NoModel, SetRunning, StatusFits, Early
      <3> QED
        BY <1>2, <2>2, <3>1 DEF NoModel, SetRunning, Terminal
    <2>3. CASE Fail(r) \/ Finish(r)
      <3>1. runStatus[r] = "running"
        BY <2>1, <2>3 DEF Fail, Finish, StatusFits, Ending
      <3> QED
        BY <1>2, <2>3, <3>1 DEF Fail, Finish, Terminal
    <2>4. CASE MarkCrashed(r)
      <3>1. runStatus[r] \in {"queued", "running", "failed"}
        BY <2>1, <2>4 DEF MarkCrashed, StatusFits
      <3> QED
        BY <1>2, <2>4, <3>1 DEF MarkCrashed, Terminal
    <2> QED
      BY <1>3, <2>2, <2>3, <2>4
  <1>4. ASSUME ~(NoModel(r) \/ SetRunning(r) \/ Fail(r) \/ Finish(r) \/ MarkCrashed(r))
        PROVE  UNCHANGED runStatus
    <2>1. CASE \E i \in Invoices : Propose(r, i)
      BY <2>1 DEF Propose, CreateProposal, tables
    <2>2. CASE Call(r) \/ Result(r) \/ Guardrail(r)
      BY <2>2 DEF Call, Result, Guardrail, AppendStep
    <2>3. CASE \/ Begin(r) \/ Turn(r) \/ NoTurnLeft(r) \/ ModelRaises(r) \/ NoCallLeft(r)
               \/ UseTool(r) \/ CheckCap(r) \/ FailCount(r) \/ Count(r)
      BY <2>3 DEF Begin, Turn, NoTurnLeft, ModelRaises, NoCallLeft, UseTool, CheckCap,
                  FailCount, Count, tables
    <2> QED
      BY <1>4, <2>1, <2>2, <2>3 DEF ThreadStep
  <1> QED
    BY <1>1, <1>3, <1>4

(* A run that ended stays as it ended; one that waits may be completed.    *)
THEOREM EndsAreFinal == Spec => EndIsFinal
  <1> DEFINE Stays == \A r \in Runs : runStatus[r] \in Terminal =>
                         \/ runStatus'[r] = runStatus[r]
                         \/ runStatus[r] = "awaiting_approval" /\ runStatus'[r] = "completed"
  <1>1. RunInv /\ [Next]_vars => [Stays]_vars
    <2> SUFFICES ASSUME RunInv, Next, NEW x \in Runs PROVE EndStays(x)
      BY DEF EndStays
    <2>1. ASSUME NEW r \in Runs, ThreadStep(r) PROVE EndStays(x)
      BY <2>1, ThreadEnds
    <2>2. ASSUME NEW r \in Runs, StartRun(r) PROVE EndStays(x)
      BY <2>2 DEF StartRun, SetStatus, EndStays, Terminal, RunInv, TypeOK
    <2>3. ASSUME NEW p \in proposals, NEW settles \in BOOLEAN, Decide(p, settles)
          PROVE  EndStays(x)
      BY <2>3 DEF Decide, EndStays, RunInv, TypeOK
    <2>4. CASE Page \/ Serve
      BY <2>4 DEF Page, Serve, Settled, EndStays
    <2>5. CASE Abandon
      BY <2>5 DEF Abandon, Orphaned, Unfinished, Terminal, EndStays
    <2>6. CASE UNCHANGED runStatus
      BY <2>6 DEF EndStays
    <2>7. ASSUME NEW r \in Runs, Submit(r) \/ Raise(r) PROVE UNCHANGED runStatus
      BY <2>7 DEF Submit, Raise, tables
    <2>8. ASSUME TakeUp \/ Stop \/ Exit \/ Crash PROVE UNCHANGED runStatus
      BY <2>8 DEF TakeUp, Stop, Exit, Crash, tables
    <2> QED
      BY <2>1, <2>2, <2>3, <2>4, <2>5, <2>6, <2>7, <2>8 DEF Next
  <1> QED
    BY <1>1, RunInvariant, PTL DEF Spec, EndIsFinal
=============================================================================
