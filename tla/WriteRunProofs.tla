---------------------------- MODULE WriteRunProofs ----------------------------
(***************************************************************************)
(* Proofs about WriteRun, for any number of runs, calls, approvals,        *)
(* requests and faults: the threads keep to the journal, and what is       *)
(* recorded of a file agrees with the file.  Before them those about the   *)
(* journal alone, RunJournal, which WriteRun extends: they hold for every  *)
(* client that keeps to its operations.                                    *)
(***************************************************************************)
EXTENDS WriteRun, TLAPS

-----------------------------------------------------------------------------
(* The journal.                                                            *)

\* Replacing one row of tool_calls by a well-formed row leaves the table
\* well-formed and every other row as it was.
LEMMA SetCallEffect ==
    ASSUME JournalTypeOK, NEW r \in Runs, NEW c \in Calls, NEW row \in CallRow,
           SetCall(r, c, row)
    PROVE  /\ call' \in [Runs -> [Calls -> CallRow]]
           /\ call'[r][c] = row
           /\ \A q \in Runs, d \in Calls : q # r \/ d # c => call'[q][d] = call[q][d]
BY DEF SetCall, JournalTypeOK

\* Appending a message keeps the earlier messages of every run in their place.
LEMMA AppendEffect ==
    ASSUME JournalTypeOK, NEW r \in Runs, NEW m \in Message, AppendMessage(r, m)
    PROVE  /\ msgs' \in [Runs -> Seq(Message)]
           /\ Len(msgs'[r]) = Len(msgs[r]) + 1
           /\ msgs'[r][Len(msgs[r]) + 1] = m
           /\ \A i \in 1..Len(msgs[r]) : msgs'[r][i] = msgs[r][i]
           /\ \A q \in Runs \ {r} : msgs'[q] = msgs[q]
<1>1. msgs[r] \in Seq(Message) BY DEF JournalTypeOK
<1>2. msgs' = [msgs EXCEPT ![r] = Append(msgs[r], m)] BY DEF AppendMessage
<1>3. msgs'[r] = Append(msgs[r], m) BY <1>2 DEF JournalTypeOK
<1>4. Append(msgs[r], m) \in Seq(Message) BY <1>1
<1>5. msgs' \in [Runs -> Seq(Message)] BY <1>2, <1>4 DEF JournalTypeOK
<1>6. \A q \in Runs \ {r} : msgs'[q] = msgs[q] BY <1>2 DEF JournalTypeOK
<1> QED BY <1>1, <1>3, <1>5, <1>6

\* Setting state and phase keeps the rest of the run's row, and the other runs.
LEMMA AdvanceEffect ==
    ASSUME JournalTypeOK, NEW r \in Runs, NEW state \in RunStates, NEW phase \in Phases,
           Advance(r, state, phase)
    PROVE  /\ run' \in [Runs -> RunRow]
           /\ run'[r].state = state /\ run'[r].phase = phase
           /\ run'[r].finished_at = run[r].finished_at
           /\ \A q \in Runs \ {r} : run'[q] = run[q]
<1>1. run[r] \in RunRow BY DEF JournalTypeOK
<1>2. [run[r] EXCEPT !.state = state, !.phase = phase] \in RunRow BY <1>1 DEF RunRow
<1> QED BY <1>1, <1>2 DEF Advance, JournalTypeOK, RunRow

\* The rows and messages the operations write are well-formed.
LEMMA WrittenRows ==
    ASSUME JournalTypeOK, NEW r \in Runs, NEW c \in Calls
    PROVE  /\ call[r][c] \in CallRow
           /\ \A s \in Stages : [call[r][c] EXCEPT !.stage = s] \in CallRow
           /\ \A n \in Nat : RequestedRow(n) \in CallRow
           /\ \A k \in {"ok", "fail", "unknown"}, n \in Nat :
                ResultRow(call[r][c], k, n) \in CallRow
           /\ \A p \in Payloads : [call[r][c] EXCEPT !.stage = "started", !.intent = p,
                                                     !.pub = "intent_recorded"] \in CallRow
           /\ [call[r][c] EXCEPT !.stage = "succeeded", !.pub = "confirmed",
                                 !.rec = "confirmed"] \in CallRow
           /\ RecoveredCall(r, c) \in CallRow
<1>1. call[r][c] \in CallRow BY DEF JournalTypeOK
<1>2. \A s \in Stages : [call[r][c] EXCEPT !.stage = s] \in CallRow
    BY <1>1 DEF CallRow
<1>3. \A n \in Nat : RequestedRow(n) \in CallRow
    BY DEF RequestedRow, NoCall, CallRow, Stages
<1>4. \A k \in {"ok", "fail", "unknown"}, n \in Nat : ResultRow(call[r][c], k, n) \in CallRow
    <2> SUFFICES ASSUME NEW k \in {"ok", "fail", "unknown"}, NEW n \in Nat
                 PROVE  ResultRow(call[r][c], k, n) \in CallRow
        OBVIOUS
    <2>1. CASE k = "unknown"
        BY <1>1, <2>1 DEF ResultRow, CallRow, Stages
    <2>2. CASE k # "unknown"
        BY <1>1, <2>2 DEF ResultRow, CallRow, Stages
    <2> QED BY <2>1, <2>2
<1>5. \A p \in Payloads : [call[r][c] EXCEPT !.stage = "started", !.intent = p,
                                             !.pub = "intent_recorded"] \in CallRow
    BY <1>1 DEF CallRow, Stages
<1>6. [call[r][c] EXCEPT !.stage = "succeeded", !.pub = "confirmed",
                         !.rec = "confirmed"] \in CallRow
    BY <1>1 DEF CallRow, Stages
<1>7. RecoveredCall(r, c) \in CallRow
    BY <1>1 DEF RecoveredCall, CallRow, Stages
<1> QED BY <1>1, <1>2, <1>3, <1>4, <1>5, <1>6, <1>7

LEMMA WrittenMessages ==
    ASSUME NEW calls \in SUBSET Calls
    PROVE  /\ Says("user", calls) \in Message /\ Says("assistant", calls) \in Message
           /\ Says("tool", calls) \in Message /\ Says("control", calls) \in Message
BY DEF Says, Message

-----------------------------------------------------------------------------
\* Every operation writes values its columns admit.
LEMMA TypeStep ==
    JournalTypeOK /\ RowsExist /\ [JournalNext]_journal => JournalTypeOK'
<1> SUFFICES ASSUME JournalTypeOK, RowsExist, [JournalNext]_journal
             PROVE  JournalTypeOK'
    OBVIOUS
<1>1. ASSUME NEW r \in Runs, Submit(r)
      PROVE  JournalTypeOK'
    <2>1. [run[r] EXCEPT !.state = "queued"] \in RunRow
        BY DEF JournalTypeOK, RunRow, RunStates
    <2>2. <<Says("user", {})>> \in Seq(Message)
        BY WrittenMessages
    <2> QED BY <1>1, <2>1, <2>2 DEF Submit, JournalTypeOK
<1>2. ASSUME NEW r \in Runs, RecordModelRequest(r)
      PROVE  JournalTypeOK'
    <2>1. run[r] \in RunRow BY DEF JournalTypeOK
    <2>2. run[r].requests + 1 \in Nat BY <2>1 DEF RunRow
    <2>3. [run[r] EXCEPT !.state = "running", !.phase = "model_in_flight",
                         !.requests = run[r].requests + 1] \in RunRow
        BY <2>1, <2>2 DEF RunRow, RunStates, Phases
    <2> QED BY <1>2, <2>3 DEF RecordModelRequest, JournalTypeOK
<1>3. ASSUME NEW r \in Runs, NEW calls \in SUBSET Calls, RecordModelReply(r, calls)
      PROVE  JournalTypeOK'
    <2>1. msgs' \in [Runs -> Seq(Message)]
        BY <1>3, AppendEffect, WrittenMessages DEF RecordModelReply
    <2>2. run' \in [Runs -> RunRow]
        <3>1. (IF calls = {} THEN "model_replied" ELSE "tool_requested") \in Phases
            BY DEF Phases
        <3>2. "running" \in RunStates BY DEF RunStates
        <3> QED BY <1>3, <3>1, <3>2, AdvanceEffect DEF RecordModelReply
    <2>3. Len(msgs[r]) + 1 \in Nat
        BY DEF JournalTypeOK
    <2>4. \A c \in Calls : RequestedRow(Len(msgs[r]) + 1) \in CallRow /\ call[r][c] \in CallRow
        BY <2>3, WrittenRows
    <2>5. call' \in [Runs -> [Calls -> CallRow]]
        BY <1>3, <2>4 DEF RecordModelReply, JournalTypeOK
    <2> QED BY <1>3, <2>1, <2>2, <2>5 DEF RecordModelReply, JournalTypeOK
<1>4. ASSUME NEW r \in Runs, NEW state \in Finishes, FinishRun(r, state)
      PROVE  JournalTypeOK'
    <2>1. run[r] \in RunRow BY DEF JournalTypeOK
    <2>2. [run[r] EXCEPT !.state = state, !.phase = "finished", !.stop = "reported",
                         !.finished_at = "set"] \in RunRow
        BY <2>1 DEF RunRow, RunStates, Phases, Reasons
    <2> QED BY <1>4, <2>2 DEF FinishRun, JournalTypeOK
<1>5. ASSUME NEW r \in Runs, NEW c \in Calls, RecordToolStarted(r, c)
      PROVE  JournalTypeOK'
    <2>1. call' \in [Runs -> [Calls -> CallRow]]
        BY <1>5, SetCallEffect, WrittenRows DEF RecordToolStarted, Stages
    <2>2. run' \in [Runs -> RunRow]
        BY <1>5, AdvanceEffect DEF RecordToolStarted, RunStates, Phases
    <2> QED BY <1>5, <2>1, <2>2 DEF RecordToolStarted, JournalTypeOK
<1>6. ASSUME NEW r \in Runs, NEW c \in Calls, NEW kind \in {"ok", "fail", "unknown"},
             RecordToolResult(r, c, kind)
      PROVE  JournalTypeOK'
    <2>1. Len(msgs[r]) + 1 \in Nat
        BY DEF JournalTypeOK
    <2>2. call' \in [Runs -> [Calls -> CallRow]]
        BY <1>6, <2>1, SetCallEffect, WrittenRows DEF RecordToolResult
    <2>3. msgs' \in [Runs -> Seq(Message)]
        BY <1>6, AppendEffect, WrittenMessages DEF RecordToolResult
    <2>4. run' \in [Runs -> RunRow]
        BY <1>6, AdvanceEffect DEF RecordToolResult, RunStates, Phases
    <2> QED BY <1>6, <2>2, <2>3, <2>4 DEF RecordToolResult, JournalTypeOK
<1>7. ASSUME NEW r \in Runs, NEW c \in Calls, NEW a \in Approvals,
             RecordApprovalRequired(a, r, c)
      PROVE  JournalTypeOK'
    <2>1. [run |-> r, call |-> c, decision |-> "pending"] \in ApprovalRow
        BY DEF ApprovalRow, Decisions
    <2>2. run' \in [Runs -> RunRow]
        BY <1>7, AdvanceEffect DEF RecordApprovalRequired, RunStates, Phases
    <2> QED BY <1>7, <2>1, <2>2 DEF RecordApprovalRequired, JournalTypeOK
<1>8. ASSUME NEW r \in Runs, NEW c \in Calls, NEW p \in Payloads,
             RecordPublicationIntent(r, c, p)
      PROVE  JournalTypeOK'
    <2>1. call' \in [Runs -> [Calls -> CallRow]]
        BY <1>8, SetCallEffect, WrittenRows DEF RecordPublicationIntent
    <2>2. run' \in [Runs -> RunRow]
        BY <1>8, AdvanceEffect DEF RecordPublicationIntent, RunStates, Phases
    <2> QED BY <1>8, <2>1, <2>2 DEF RecordPublicationIntent, JournalTypeOK
<1>9. ASSUME NEW r \in Runs, NEW c \in Calls, NEW p \in Payloads,
             RecordPublicationReceipt(r, c, p)
      PROVE  JournalTypeOK'
    <2>1. call' \in [Runs -> [Calls -> CallRow]]
        BY <1>9, SetCallEffect, WrittenRows DEF RecordPublicationReceipt
    <2>2. run' \in [Runs -> RunRow]
        BY <1>9, AdvanceEffect DEF RecordPublicationReceipt, RunStates, Phases
    <2>3. artifact' \in [Runs -> [Calls -> Payloads \cup {None}]]
        BY <1>9 DEF RecordPublicationReceipt, JournalTypeOK
    <2> QED BY <1>9, <2>1, <2>2, <2>3 DEF RecordPublicationReceipt, JournalTypeOK
<1>10. ASSUME NEW a \in Approvals, NEW d \in {"allowed", "denied"},
              RecordApprovalDecision(a, d)
       PROVE  JournalTypeOK'
    <2> DEFINE r == approval[a].run
               c == approval[a].call
    <2>1. [approval[a] EXCEPT !.decision = d] \in ApprovalRow
        BY DEF ApprovalRow, Decisions, JournalTypeOK
    <2>2. r \in Runs /\ c \in Calls
        BY <1>10 DEF RecordApprovalDecision, RowsExist
    <2>3. (IF d = "denied" THEN [call[r][c] EXCEPT !.stage = "skipped"] ELSE call[r][c])
             \in CallRow
        BY <2>2, WrittenRows DEF Stages
    <2>4. SetCall(r, c, IF d = "denied" THEN [call[r][c] EXCEPT !.stage = "skipped"]
                        ELSE call[r][c])
        BY <1>10 DEF RecordApprovalDecision
    <2>5. call' \in [Runs -> [Calls -> CallRow]]
        BY <2>2, <2>3, <2>4, SetCallEffect
    <2>6. run' \in [Runs -> RunRow]
        <3>1. (IF d = "allowed" THEN "approval_allowed" ELSE "approval_denied") \in Phases
            BY DEF Phases
        <3>2. "running" \in RunStates BY DEF RunStates
        <3>3. Advance(r, "running", IF d = "allowed" THEN "approval_allowed"
                                    ELSE "approval_denied")
            BY <1>10 DEF RecordApprovalDecision
        <3> QED BY <2>2, <3>1, <3>2, <3>3, AdvanceEffect
    <2> QED BY <1>10, <2>1, <2>5, <2>6 DEF RecordApprovalDecision, JournalTypeOK
<1>11. CASE RecoverInterrupted
    <2>1. \A r \in Runs : RecoveredRun(r) \in RunRow
        BY DEF JournalTypeOK, RecoveredRun, RunRow, RunStates, Terminal, Reasons
    <2>2. \A r \in Runs, c \in Calls : RecoveredCall(r, c) \in CallRow /\ call[r][c] \in CallRow
        BY WrittenRows
    <2>3. \A a \in Approvals : [approval[a] EXCEPT !.decision = "expired"] \in ApprovalRow
        BY DEF JournalTypeOK, ApprovalRow, Decisions
    <2>4. \A r \in Runs : Append(msgs[r], Says("control", {})) \in Seq(Message)
        BY WrittenMessages DEF JournalTypeOK
    <2> QED BY <1>11, <2>1, <2>2, <2>3, <2>4 DEF RecoverInterrupted, JournalTypeOK
<1>12. CASE UNCHANGED journal
    BY <1>12 DEF journal, JournalTypeOK
<1> QED
    BY <1>1, <1>2, <1>3, <1>4, <1>5, <1>6, <1>7, <1>8, <1>9, <1>10, <1>11, <1>12
    DEF JournalNext, RunStep, CallStep

-----------------------------------------------------------------------------
\* What each operation does to the fields the invariants speak of.
SameCalls(r, c) == \A q \in Runs, d \in Calls : q # r \/ d # c => call'[q][d] = call[q][d]

\* The row of an unfinished run moves to a live state and the given phase.
Moves(r, phase) ==
    /\ run[r].finished_at = "null" /\ run[r].state \notin {"absent", "interrupted"}
    /\ run'[r].finished_at = "null" /\ run'[r].state \notin {"absent", "interrupted"}
    /\ run'[r].phase = phase
    /\ \A q \in Runs \ {r} : run'[q] = run[q]

Appends(r, m) ==
    /\ Len(msgs'[r]) = Len(msgs[r]) + 1
    /\ msgs'[r][Len(msgs[r]) + 1] = m
    /\ \A i \in 1..Len(msgs[r]) : msgs'[r][i] = msgs[r][i]
    /\ \A q \in Runs \ {r} : msgs'[q] = msgs[q]

\* row and its successor agree in every column but the named ones.
Keeps(r, c, columns) ==
    /\ "ask" \in columns => call'[r][c].ask = call[r][c].ask
    /\ "result" \in columns => call'[r][c].result = call[r][c].result
    /\ "intent" \in columns => call'[r][c].intent = call[r][c].intent
    /\ "pub" \in columns => call'[r][c].pub = call[r][c].pub
    /\ "rec" \in columns => call'[r][c].rec = call[r][c].rec

LEMMA MoveEffect ==
    ASSUME JournalTypeOK, NEW r \in Runs, NEW state \in {"running", "waiting_approval"},
           NEW phase \in Phases, Unfinished(r), Advance(r, state, phase)
    PROVE  Moves(r, phase)
BY AdvanceEffect DEF Moves, Unfinished, Terminal, RunStates

LEMMA RequestEffect ==
    ASSUME JournalTypeOK, NEW r \in Runs, RecordModelRequest(r)
    PROVE  Moves(r, "model_in_flight") /\ \A c \in Calls : ~Open(r, c)
<1>1. run[r] \in RunRow BY DEF JournalTypeOK
<1>2. run'[r] = [run[r] EXCEPT !.state = "running", !.phase = "model_in_flight",
                               !.requests = run[r].requests + 1]
    BY DEF RecordModelRequest, JournalTypeOK
<1>3. \A q \in Runs \ {r} : run'[q] = run[q]
    BY DEF RecordModelRequest, JournalTypeOK
<1>4. /\ run'[r].state = "running" /\ run'[r].phase = "model_in_flight"
      /\ run'[r].finished_at = run[r].finished_at
    BY <1>1, <1>2 DEF RunRow
<1>5. Unfinished(r) /\ \A c \in Calls : ~Open(r, c)
    BY DEF RecordModelRequest
<1> QED BY <1>3, <1>4, <1>5 DEF Moves, Unfinished, Terminal

LEMMA ReplyEffect ==
    ASSUME JournalTypeOK, NEW r \in Runs, NEW calls \in SUBSET Calls,
           RecordModelReply(r, calls)
    PROVE  /\ Moves(r, IF calls = {} THEN "model_replied" ELSE "tool_requested")
           /\ run[r].phase = "model_in_flight"
           /\ Appends(r, Says("assistant", calls))
           /\ \A c \in calls : /\ call[r][c].stage = "absent"
                               /\ call'[r][c] = RequestedRow(Len(msgs[r]) + 1)
           /\ \A c \in Calls \ calls : call'[r][c] = call[r][c]
           /\ \A q \in Runs \ {r} : call'[q] = call[q]
<1>1. Moves(r, IF calls = {} THEN "model_replied" ELSE "tool_requested")
    <2>1. (IF calls = {} THEN "model_replied" ELSE "tool_requested") \in Phases
        BY DEF Phases
    <2>2. Unfinished(r) /\ Advance(r, "running", IF calls = {} THEN "model_replied"
                                                ELSE "tool_requested")
        BY DEF RecordModelReply
    <2> QED BY <2>1, <2>2, MoveEffect
<1>2. Appends(r, Says("assistant", calls))
    BY AppendEffect, WrittenMessages DEF RecordModelReply, Appends
<1> QED BY <1>1, <1>2 DEF RecordModelReply, JournalTypeOK

LEMMA StartedEffect ==
    ASSUME JournalTypeOK, NEW r \in Runs, NEW c \in Calls, RecordToolStarted(r, c)
    PROVE  /\ Moves(r, "tool_started")
           /\ call[r][c].stage = "requested" /\ call'[r][c].stage = "started"
           /\ Keeps(r, c, {"ask", "result", "intent", "pub", "rec"}) /\ SameCalls(r, c)
<1> DEFINE row == [call[r][c] EXCEPT !.stage = "started"]
<1>1. Moves(r, "tool_started")
    BY MoveEffect DEF RecordToolStarted, Phases
<1>2. call[r][c] \in CallRow /\ row \in CallRow
    BY WrittenRows DEF Stages
<1>3. call'[r][c] = row /\ SameCalls(r, c)
    BY <1>2, SetCallEffect DEF RecordToolStarted, SameCalls
<1>4. Keeps(r, c, {"ask", "result", "intent", "pub", "rec"}) /\ row.stage = "started"
    BY <1>2, <1>3 DEF CallRow, Keeps
<1> QED BY <1>1, <1>3, <1>4 DEF RecordToolStarted

LEMMA ResultEffect ==
    ASSUME JournalTypeOK, NEW r \in Runs, NEW c \in Calls,
           NEW kind \in {"ok", "fail", "unknown"}, RecordToolResult(r, c, kind)
    PROVE  /\ Moves(r, "tool_result_committed")
           /\ Appends(r, Says("tool", {c}))
           /\ call[r][c].result = 0 /\ call'[r][c].result = Len(msgs[r]) + 1
           /\ call[r][c].stage \in {"requested", "started", "succeeded", "skipped"}
           /\ call'[r][c].stage \in {"unknown", "skipped", "succeeded", "failed"}
           /\ call[r][c].stage = "succeeded" => kind = "ok"
           /\ kind = "ok" => call'[r][c].stage = "succeeded"
           /\ kind = "unknown" => /\ call'[r][c].stage = "unknown"
                                  /\ call'[r][c].pub = "unknown"
                                  /\ call'[r][c].rec = "WRITE_OUTCOME_UNKNOWN"
           /\ kind # "unknown" => Keeps(r, c, {"pub", "rec"})
           /\ Keeps(r, c, {"ask", "intent"}) /\ SameCalls(r, c)
<1>1. Moves(r, "tool_result_committed")
    BY MoveEffect DEF RecordToolResult, Phases
<1>2. Appends(r, Says("tool", {c}))
    BY AppendEffect, WrittenMessages DEF RecordToolResult, Appends
<1>3. call[r][c] \in CallRow /\ Len(msgs[r]) + 1 \in Nat BY DEF JournalTypeOK
<1>4. call'[r][c] = ResultRow(call[r][c], kind, Len(msgs[r]) + 1) /\ SameCalls(r, c)
    <2>1. ResultRow(call[r][c], kind, Len(msgs[r]) + 1) \in CallRow
        BY <1>3, WrittenRows
    <2>2. SetCall(r, c, ResultRow(call[r][c], kind, Len(msgs[r]) + 1))
        BY DEF RecordToolResult
    <2> QED BY <2>1, <2>2, SetCallEffect DEF SameCalls
<1>5. Keeps(r, c, {"ask", "intent"}) /\ (kind # "unknown" => Keeps(r, c, {"pub", "rec"}))
    <2>1. call'[r][c].ask = call[r][c].ask /\ call'[r][c].intent = call[r][c].intent
        BY <1>3, <1>4 DEF ResultRow, CallRow
    <2>2. ASSUME kind # "unknown"
          PROVE  call'[r][c].pub = call[r][c].pub /\ call'[r][c].rec = call[r][c].rec
        BY <1>3, <1>4, <2>2 DEF ResultRow, CallRow
    <2> QED BY <2>1, <2>2 DEF Keeps
<1>6. call'[r][c].result = Len(msgs[r]) + 1
    BY <1>3, <1>4 DEF ResultRow, CallRow
<1>7. CASE kind = "unknown"
    <2>1. /\ call'[r][c].stage = "unknown" /\ call'[r][c].pub = "unknown"
          /\ call'[r][c].rec = "WRITE_OUTCOME_UNKNOWN"
        BY <1>3, <1>4, <1>7 DEF ResultRow, CallRow
    <2> QED BY <1>1, <1>2, <1>4, <1>5, <1>6, <1>7, <2>1
            DEF RecordToolResult, ReceiptOnly, SkippedResult
<1>8. CASE kind # "unknown"
    <2>1. call'[r][c].stage = IF SkippedResult(call[r][c], kind) THEN "skipped"
                              ELSE IF kind = "ok" THEN "succeeded" ELSE "failed"
        BY <1>3, <1>4, <1>8 DEF ResultRow, CallRow
    <2> QED BY <1>1, <1>2, <1>4, <1>5, <1>6, <1>8, <2>1
            DEF RecordToolResult, ReceiptOnly, SkippedResult
<1> QED BY <1>7, <1>8

LEMMA AskEffect ==
    ASSUME JournalTypeOK, NEW r \in Runs, NEW c \in Calls, NEW a \in Approvals,
           RecordApprovalRequired(a, r, c)
    PROVE  /\ Moves(r, "waiting_approval")
           /\ call[r][c].stage = "requested" /\ approval[a].decision = "absent"
           /\ \A b \in Approvals : ~(approval[b].run = r /\ approval[b].call = c)
           /\ approval'[a].run = r /\ approval'[a].call = c
           /\ approval'[a].decision = "pending"
           /\ \A b \in Approvals \ {a} : approval'[b] = approval[b]
<1>1. Moves(r, "waiting_approval")
    BY MoveEffect DEF RecordApprovalRequired, Phases
<1> QED BY <1>1 DEF RecordApprovalRequired, JournalTypeOK

LEMMA IntentEffect ==
    ASSUME JournalTypeOK, NEW r \in Runs, NEW c \in Calls, NEW p \in Payloads,
           RecordPublicationIntent(r, c, p)
    PROVE  /\ Moves(r, "publication_intent_committed")
           /\ call[r][c].stage \in {"requested", "started"} /\ Allowed(r, c)
           /\ call'[r][c].stage = "started" /\ call'[r][c].intent = p
           /\ call'[r][c].pub = "intent_recorded"
           /\ Keeps(r, c, {"ask", "result", "rec"}) /\ SameCalls(r, c)
<1> DEFINE row == [call[r][c] EXCEPT !.stage = "started", !.intent = p,
                                     !.pub = "intent_recorded"]
<1>1. Moves(r, "publication_intent_committed")
    BY MoveEffect DEF RecordPublicationIntent, Phases
<1>2. call[r][c] \in CallRow /\ row \in CallRow
    BY WrittenRows
<1>3. call'[r][c] = row /\ SameCalls(r, c)
    BY <1>2, SetCallEffect DEF RecordPublicationIntent, SameCalls
<1>4. /\ Keeps(r, c, {"ask", "result", "rec"})
      /\ row.stage = "started" /\ row.intent = p /\ row.pub = "intent_recorded"
    BY <1>2, <1>3 DEF CallRow, Keeps
<1> QED BY <1>1, <1>3, <1>4 DEF RecordPublicationIntent

LEMMA ReceiptEffect ==
    ASSUME JournalTypeOK, NEW r \in Runs, NEW c \in Calls, NEW p \in Payloads,
           RecordPublicationReceipt(r, c, p)
    PROVE  /\ Moves(r, "publication_receipt_committed")
           /\ call[r][c].stage = "started" /\ call[r][c].intent = p
           /\ call'[r][c].stage = "succeeded" /\ call'[r][c].pub = "confirmed"
           /\ call'[r][c].rec = "confirmed"
           /\ Keeps(r, c, {"ask", "result", "intent"}) /\ SameCalls(r, c)
           /\ artifact'[r][c] = p
           /\ \A q \in Runs, d \in Calls : q # r \/ d # c => artifact'[q][d] = artifact[q][d]
<1> DEFINE row == [call[r][c] EXCEPT !.stage = "succeeded", !.pub = "confirmed",
                                     !.rec = "confirmed"]
<1>1. Moves(r, "publication_receipt_committed")
    BY MoveEffect DEF RecordPublicationReceipt, Phases
<1>2. call[r][c] \in CallRow /\ row \in CallRow
    BY WrittenRows
<1>3. call'[r][c] = row /\ SameCalls(r, c)
    BY <1>2, SetCallEffect DEF RecordPublicationReceipt, SameCalls
<1>4. /\ Keeps(r, c, {"ask", "result", "intent"})
      /\ row.stage = "succeeded" /\ row.pub = "confirmed" /\ row.rec = "confirmed"
    BY <1>2, <1>3 DEF CallRow, Keeps
<1>5. /\ artifact'[r][c] = p
      /\ \A q \in Runs, d \in Calls : q # r \/ d # c => artifact'[q][d] = artifact[q][d]
    BY DEF RecordPublicationReceipt, JournalTypeOK
<1> QED BY <1>1, <1>3, <1>4, <1>5 DEF RecordPublicationReceipt

LEMMA DecisionEffect ==
    ASSUME JournalTypeOK, RowsExist, NEW a \in Approvals, NEW d \in {"allowed", "denied"},
           RecordApprovalDecision(a, d)
    PROVE  LET r == approval[a].run
               c == approval[a].call
           IN /\ r \in Runs /\ c \in Calls
              /\ Moves(r, IF d = "allowed" THEN "approval_allowed" ELSE "approval_denied")
              /\ approval[a].decision = "pending" /\ approval'[a].decision = d
              /\ approval'[a].run = r /\ approval'[a].call = c
              /\ \A b \in Approvals \ {a} : approval'[b] = approval[b]
              /\ d = "allowed" => call'[r][c] = call[r][c]
              /\ d = "denied" => call'[r][c].stage = "skipped"
              /\ Keeps(r, c, {"ask", "result", "intent", "pub", "rec"}) /\ SameCalls(r, c)
<1> DEFINE r == approval[a].run
           c == approval[a].call
           row == IF d = "denied" THEN [call[r][c] EXCEPT !.stage = "skipped"] ELSE call[r][c]
           phase == IF d = "allowed" THEN "approval_allowed" ELSE "approval_denied"
<1>1. r \in Runs /\ c \in Calls
    BY DEF RecordApprovalDecision, RowsExist
<1>2. Moves(r, phase)
    <2>1. phase \in Phases
        BY DEF Phases
    <2>2. Unfinished(r) /\ Advance(r, "running", phase)
        BY DEF RecordApprovalDecision
    <2> HIDE DEF phase, r
    <2> QED BY <1>1, <2>1, <2>2, MoveEffect
<1>3. call[r][c] \in CallRow /\ row \in CallRow
    BY <1>1, WrittenRows DEF Stages
<1>4. call'[r][c] = row /\ SameCalls(r, c)
    <2>1. SetCall(r, c, row) BY DEF RecordApprovalDecision
    <2> HIDE DEF row, r, c
    <2> QED BY <1>1, <1>3, <2>1, SetCallEffect DEF SameCalls
<1>5. Keeps(r, c, {"ask", "result", "intent", "pub", "rec"})
    BY <1>3, <1>4 DEF CallRow, Keeps
<1>6. d = "denied" => row.stage = "skipped"
    BY <1>3 DEF CallRow
<1>7. /\ approval[a].decision = "pending" /\ approval'[a].decision = d
      /\ approval'[a].run = r /\ approval'[a].call = c
      /\ \A b \in Approvals \ {a} : approval'[b] = approval[b]
    <2>1. approval[a] \in ApprovalRow BY DEF JournalTypeOK
    <2>2. approval'[a] = [approval[a] EXCEPT !.decision = d]
          /\ \A b \in Approvals \ {a} : approval'[b] = approval[b]
        BY DEF RecordApprovalDecision, JournalTypeOK
    <2> QED BY <2>1, <2>2 DEF RecordApprovalDecision, ApprovalRow
<1> QED BY <1>1, <1>2, <1>4, <1>5, <1>6, <1>7

LEMMA FinishEffect ==
    ASSUME JournalTypeOK, NEW r \in Runs, NEW state \in Finishes, FinishRun(r, state)
    PROVE  /\ Unfinished(r)
           /\ run'[r].state = state /\ run'[r].phase = "finished"
           /\ run'[r].finished_at = "set"
           /\ \A q \in Runs \ {r} : run'[q] = run[q]
<1>1. run[r] \in RunRow BY DEF JournalTypeOK
<1> QED BY <1>1 DEF FinishRun, JournalTypeOK, RunRow

LEMMA SubmitEffect ==
    ASSUME JournalTypeOK, NEW r \in Runs, Submit(r)
    PROVE  /\ run[r].state = "absent" /\ run'[r].state = "queued"
           /\ run'[r].phase = run[r].phase /\ run'[r].finished_at = run[r].finished_at
           /\ \A q \in Runs \ {r} : run'[q] = run[q] /\ msgs'[q] = msgs[q]
<1>1. run[r] \in RunRow BY DEF JournalTypeOK
<1> QED BY <1>1 DEF Submit, JournalTypeOK, RunRow

\* What recovery does to the row of one call of an unfinished run.
Settles(r, c) ==
    /\ Keeps(r, c, {"ask", "result", "intent"})
    /\ Dangling(r, c) => /\ call'[r][c].stage = "unknown" /\ call'[r][c].pub = "unknown"
                         /\ call'[r][c].rec = "WRITE_OUTCOME_UNKNOWN"
    /\ (call[r][c].stage \in {"requested", "started"} /\ call[r][c].intent = None)
          => /\ call'[r][c].stage = "interrupted" /\ call'[r][c].rec = "interrupted"
             /\ call'[r][c].pub = call[r][c].pub
    /\ (~Dangling(r, c) /\ ~(call[r][c].stage \in {"requested", "started"}
                             /\ call[r][c].intent = None))
          => call'[r][c] = call[r][c]

LEMMA RecoverEffect ==
    ASSUME JournalTypeOK, RecoverInterrupted
    PROVE  /\ \A r \in Runs : ~Unfinished(r) =>
                /\ run'[r] = run[r] /\ msgs'[r] = msgs[r]
                /\ \A c \in Calls : call'[r][c] = call[r][c]
           /\ \A r \in Runs : Unfinished(r) =>
                /\ run'[r].state = "interrupted" /\ run'[r].finished_at = "set"
                /\ run'[r].phase = run[r].phase
                /\ Len(msgs'[r]) = Len(msgs[r]) + 1
                /\ \A i \in 1..Len(msgs[r]) : msgs'[r][i] = msgs[r][i]
                /\ \A c \in Calls : Settles(r, c)
           /\ \A a \in Approvals :
                /\ approval'[a].run = approval[a].run /\ approval'[a].call = approval[a].call
                /\ IF approval[a].decision \in {"pending", "allowed"}
                      /\ Unfinished(approval[a].run)
                   THEN approval'[a].decision = "expired"
                   ELSE approval'[a] = approval[a]
           /\ artifact' = artifact
<1>1. ASSUME NEW r \in Runs, ~Unfinished(r)
      PROVE  /\ run'[r] = run[r] /\ msgs'[r] = msgs[r]
             /\ \A c \in Calls : call'[r][c] = call[r][c]
    BY <1>1 DEF RecoverInterrupted
<1>2. ASSUME NEW r \in Runs, Unfinished(r)
      PROVE  /\ run'[r].state = "interrupted" /\ run'[r].finished_at = "set"
             /\ run'[r].phase = run[r].phase
    <2>1. run[r] \in RunRow BY DEF JournalTypeOK
    <2>2. run'[r] = RecoveredRun(r) BY <1>2 DEF RecoverInterrupted
    <2> QED BY <2>1, <2>2 DEF RecoveredRun, RunRow
<1>3. ASSUME NEW r \in Runs, Unfinished(r)
      PROVE  /\ Len(msgs'[r]) = Len(msgs[r]) + 1
             /\ \A i \in 1..Len(msgs[r]) : msgs'[r][i] = msgs[r][i]
    <2>1. msgs[r] \in Seq(Message) BY DEF JournalTypeOK
    <2>2. msgs'[r] = Append(msgs[r], Says("control", {}))
        BY <1>3 DEF RecoverInterrupted
    <2> QED BY <2>1, <2>2, WrittenMessages
<1>4. ASSUME NEW r \in Runs, Unfinished(r), NEW c \in Calls
      PROVE  Settles(r, c)
    <2>1. call[r][c] \in CallRow BY DEF JournalTypeOK
    <2>2. call'[r][c] = RecoveredCall(r, c) BY <1>4 DEF RecoverInterrupted
    <2>3. CASE Dangling(r, c)
        BY <2>1, <2>2, <2>3 DEF RecoveredCall, Settles, Keeps, CallRow, Dangling
    <2>4. CASE ~Dangling(r, c)
        BY <2>1, <2>2, <2>4 DEF RecoveredCall, Settles, Keeps, CallRow
    <2> QED BY <2>3, <2>4
<1>5. ASSUME NEW a \in Approvals
      PROVE  /\ approval'[a].run = approval[a].run /\ approval'[a].call = approval[a].call
             /\ IF approval[a].decision \in {"pending", "allowed"}
                   /\ Unfinished(approval[a].run)
                THEN approval'[a].decision = "expired"
                ELSE approval'[a] = approval[a]
    <2>1. approval[a] \in ApprovalRow BY DEF JournalTypeOK
    <2> QED BY <2>1 DEF RecoverInterrupted, ApprovalRow
<1>6. artifact' = artifact BY DEF RecoverInterrupted
<1> QED BY <1>1, <1>2, <1>3, <1>4, <1>5, <1>6

-----------------------------------------------------------------------------
\* No operation deletes a row, and a row it writes is named by a live run.
RowsGrow ==
    /\ \A q \in Runs : run'[q].state = "absent" =>
          /\ run[q].state = "absent" /\ run'[q].finished_at = run[q].finished_at
          /\ \A d \in Calls : call'[q][d] = call[q][d]
    /\ \A q \in Runs, d \in Calls :
          /\ call[q][d].stage # "absent" => call'[q][d].stage # "absent"
          /\ call'[q][d].stage = "absent" =>
                call'[q][d] = call[q][d] /\ artifact'[q][d] = artifact[q][d]
    /\ \A a \in Approvals :
          \/ approval'[a] = approval[a]
          \/ /\ approval'[a].decision # "absent"
             /\ approval'[a].run \in Runs /\ approval'[a].call \in Calls
             /\ call[approval'[a].run][approval'[a].call].stage # "absent"

LEMMA GrowthKeepsRows ==
    RowsExist /\ RowsGrow => RowsExist'
<1> SUFFICES ASSUME RowsExist, RowsGrow PROVE RowsExist'
    OBVIOUS
<1>1. ASSUME NEW a \in Approvals
      PROVE  IF approval'[a].decision = "absent" THEN approval'[a] = NoApproval
             ELSE /\ approval'[a].run \in Runs /\ approval'[a].call \in Calls
                  /\ call'[approval'[a].run][approval'[a].call].stage # "absent"
    <2>1. CASE approval'[a] = approval[a]
        BY <2>1 DEF RowsExist, RowsGrow
    <2>2. CASE approval'[a] # approval[a]
        BY <2>2 DEF RowsGrow
    <2> QED BY <2>1, <2>2
<1>2. ASSUME NEW r \in Runs, run'[r].state = "absent"
      PROVE  /\ run'[r].finished_at = "null"
             /\ \A c \in Calls : call'[r][c].stage = "absent"
    BY <1>2 DEF RowsExist, RowsGrow
<1>3. ASSUME NEW r \in Runs, NEW c \in Calls, call'[r][c].stage = "absent"
      PROVE  call'[r][c] = NoCall' /\ artifact'[r][c] = None
    BY <1>3 DEF RowsExist, RowsGrow, NoCall
<1> QED BY <1>1, <1>2, <1>3 DEF RowsExist, NoApproval, NoCall

\* An operation on one call of a live run, whose row existed, only grows rows.
LEMMA CallGrowth ==
    ASSUME NEW r \in Runs, NEW c \in Calls, NEW phase, Moves(r, phase), SameCalls(r, c),
           call[r][c].stage # "absent", call'[r][c].stage # "absent",
           \A q \in Runs, d \in Calls : q # r \/ d # c => artifact'[q][d] = artifact[q][d],
           \A a \in Approvals :
              \/ approval'[a] = approval[a]
              \/ /\ approval'[a].decision # "absent"
                 /\ approval'[a].run = r /\ approval'[a].call = c
    PROVE  RowsGrow
BY DEF RowsGrow, Moves, SameCalls

\* Rows keep referring to rows that exist.
LEMMA RowsStep ==
    JournalTypeOK /\ RowsExist /\ [JournalNext]_journal => RowsExist'
<1> SUFFICES ASSUME JournalTypeOK, RowsExist, [JournalNext]_journal
             PROVE  RowsGrow
    BY GrowthKeepsRows
<1>1. ASSUME NEW r \in Runs, Submit(r)
      PROVE  RowsGrow
    <2>1. UNCHANGED <<call, approval, artifact>> BY <1>1 DEF Submit
    <2> QED BY <1>1, <2>1, SubmitEffect DEF RowsGrow
<1>2. ASSUME NEW r \in Runs, RecordModelRequest(r)
      PROVE  RowsGrow
    <2>1. UNCHANGED <<call, approval, artifact>> BY <1>2 DEF RecordModelRequest
    <2> QED BY <1>2, <2>1, RequestEffect DEF RowsGrow, Moves
<1>3. ASSUME NEW r \in Runs, NEW calls \in SUBSET Calls, RecordModelReply(r, calls)
      PROVE  RowsGrow
    <2>1. \A n : RequestedRow(n).stage = "requested"
        BY DEF RequestedRow, NoCall
    <2>2. UNCHANGED <<approval, artifact>> BY <1>3 DEF RecordModelReply
    <2> QED BY <1>3, <2>1, <2>2, ReplyEffect DEF RowsGrow, Moves
<1>4. ASSUME NEW r \in Runs, NEW state \in Finishes, FinishRun(r, state)
      PROVE  RowsGrow
    <2>1. UNCHANGED <<call, approval, artifact>> BY <1>4 DEF FinishRun
    <2> QED BY <1>4, <2>1, FinishEffect DEF RowsGrow, Finishes
<1>5. ASSUME NEW r \in Runs, NEW c \in Calls, RecordToolStarted(r, c)
      PROVE  RowsGrow
    <2>1. UNCHANGED <<approval, artifact>> BY <1>5 DEF RecordToolStarted
    <2> QED BY <1>5, <2>1, StartedEffect, CallGrowth
<1>6. ASSUME NEW r \in Runs, NEW c \in Calls, NEW kind \in {"ok", "fail", "unknown"},
             RecordToolResult(r, c, kind)
      PROVE  RowsGrow
    <2>1. UNCHANGED <<approval, artifact>> BY <1>6 DEF RecordToolResult
    <2>2. call[r][c].stage # "absent" /\ call'[r][c].stage # "absent"
        BY <1>6, ResultEffect
    <2> QED BY <1>6, <2>1, <2>2, ResultEffect, CallGrowth
<1>7. ASSUME NEW r \in Runs, NEW c \in Calls, NEW a \in Approvals,
             RecordApprovalRequired(a, r, c)
      PROVE  RowsGrow
    <2>1. UNCHANGED <<call, artifact>> BY <1>7 DEF RecordApprovalRequired
    <2> QED BY <1>7, <2>1, AskEffect, CallGrowth DEF SameCalls
<1>8. ASSUME NEW r \in Runs, NEW c \in Calls, NEW p \in Payloads,
             RecordPublicationIntent(r, c, p)
      PROVE  RowsGrow
    <2>1. UNCHANGED <<approval, artifact>> BY <1>8 DEF RecordPublicationIntent
    <2> QED BY <1>8, <2>1, IntentEffect, CallGrowth
<1>9. ASSUME NEW r \in Runs, NEW c \in Calls, NEW p \in Payloads,
             RecordPublicationReceipt(r, c, p)
      PROVE  RowsGrow
    <2>1. UNCHANGED approval BY <1>9 DEF RecordPublicationReceipt
    <2> QED BY <1>9, <2>1, ReceiptEffect, CallGrowth
<1>10. ASSUME NEW a \in Approvals, NEW d \in {"allowed", "denied"},
              RecordApprovalDecision(a, d)
       PROVE  RowsGrow
    <2> DEFINE r == approval[a].run
               c == approval[a].call
    <2>1. UNCHANGED artifact BY <1>10 DEF RecordApprovalDecision
    <2>2. /\ r \in Runs /\ c \in Calls /\ SameCalls(r, c)
          /\ Moves(r, IF d = "allowed" THEN "approval_allowed" ELSE "approval_denied")
          /\ approval'[a].decision # "absent"
          /\ approval'[a].run = r /\ approval'[a].call = c
          /\ \A b \in Approvals \ {a} : approval'[b] = approval[b]
          /\ call'[r][c] = call[r][c] \/ call'[r][c].stage = "skipped"
        BY <1>10, DecisionEffect
    <2>3. call[r][c].stage # "absent"
        BY <1>10, DecisionEffect DEF RowsExist
    <2> HIDE DEF r, c
    <2> QED BY <2>1, <2>2, <2>3, CallGrowth
<1>11. CASE RecoverInterrupted
    <2>1. ASSUME NEW q \in Runs, NEW d \in Calls
          PROVE  /\ call[q][d].stage # "absent" => call'[q][d].stage # "absent"
                 /\ call'[q][d].stage = "absent" => call'[q][d] = call[q][d]
        <3>1. CASE Unfinished(q)
            BY <1>11, <3>1, RecoverEffect DEF Settles
        <3>2. CASE ~Unfinished(q)
            BY <1>11, <3>2, RecoverEffect
        <3> QED BY <3>1, <3>2
    <2>2. ASSUME NEW q \in Runs, run'[q].state = "absent"
          PROVE  /\ run[q].state = "absent" /\ run'[q].finished_at = run[q].finished_at
                 /\ \A d \in Calls : call'[q][d] = call[q][d]
        BY <1>11, <2>2, RecoverEffect
    <2>3. ASSUME NEW a \in Approvals
          PROVE  \/ approval'[a] = approval[a]
                 \/ /\ approval'[a].decision # "absent"
                    /\ approval'[a].run \in Runs /\ approval'[a].call \in Calls
                    /\ call[approval'[a].run][approval'[a].call].stage # "absent"
        BY <1>11, RecoverEffect DEF RowsExist
    <2>4. artifact' = artifact BY <1>11, RecoverEffect
    <2> QED BY <2>1, <2>2, <2>3, <2>4 DEF RowsGrow
<1>12. CASE UNCHANGED journal
    BY <1>12 DEF journal, RowsGrow
<1> QED
    BY <1>1, <1>2, <1>3, <1>4, <1>5, <1>6, <1>7, <1>8, <1>9, <1>10, <1>11, <1>12
    DEF JournalNext, RunStep, CallStep

-----------------------------------------------------------------------------
\* Only an ask names a new approval, and it names a call that had none.
LEMMA OneApprovalStep ==
    JournalTypeOK /\ RowsExist /\ OneApprovalPerCall /\ [JournalNext]_journal
        => OneApprovalPerCall'
<1> SUFFICES ASSUME JournalTypeOK, RowsExist, OneApprovalPerCall, [JournalNext]_journal
             PROVE  OneApprovalPerCall'
    OBVIOUS
<1>1. CASE \A a \in Approvals :
               /\ approval'[a].run = approval[a].run /\ approval'[a].call = approval[a].call
               /\ approval[a].decision = "absent" => approval'[a].decision = "absent"
    BY <1>1 DEF OneApprovalPerCall
<1>2. ASSUME NEW r \in Runs, NEW c \in Calls, NEW a \in Approvals,
             RecordApprovalRequired(a, r, c)
      PROVE  OneApprovalPerCall'
    BY <1>2, AskEffect DEF OneApprovalPerCall
<1>3. ASSUME NEW a \in Approvals, NEW d \in {"allowed", "denied"},
             RecordApprovalDecision(a, d)
      PROVE  OneApprovalPerCall'
    BY <1>1, <1>3, DecisionEffect
<1>4. CASE RecoverInterrupted
    BY <1>1, <1>4, RecoverEffect
<1>5. CASE UNCHANGED approval
    BY <1>1, <1>5
<1> QED
    BY <1>2, <1>3, <1>4, <1>5
    DEF JournalNext, RunStep, CallStep, journal, Submit, RecordModelRequest, RecordModelReply,
        FinishRun, RecordToolStarted, RecordToolResult, RecordPublicationIntent,
        RecordPublicationReceipt

\* An interrupted run stays interrupted, and only recovery interrupts a run.
LEMMA InterruptedStep ==
    ASSUME JournalTypeOK, RowsExist, JournalNext, NEW r \in Runs
    PROVE  IF RecoverInterrupted /\ Unfinished(r)
           THEN run[r].state # "interrupted" /\ run'[r].state = "interrupted"
           ELSE run'[r].state = "interrupted" <=> run[r].state = "interrupted"
<1>1. ASSUME NEW q \in Runs, Submit(q)
      PROVE  run'[r].state = "interrupted" <=> run[r].state = "interrupted"
    BY <1>1, SubmitEffect
<1>2. ASSUME NEW q \in Runs, RecordModelRequest(q)
      PROVE  run'[r].state = "interrupted" <=> run[r].state = "interrupted"
    BY <1>2, RequestEffect DEF Moves
<1>3. ASSUME NEW q \in Runs, NEW calls \in SUBSET Calls, RecordModelReply(q, calls)
      PROVE  run'[r].state = "interrupted" <=> run[r].state = "interrupted"
    BY <1>3, ReplyEffect DEF Moves
<1>4. ASSUME NEW q \in Runs, NEW state \in Finishes, FinishRun(q, state)
      PROVE  run'[r].state = "interrupted" <=> run[r].state = "interrupted"
    BY <1>4, FinishEffect DEF Unfinished, Finishes, Terminal
<1>5. ASSUME NEW q \in Runs, NEW c \in Calls, CallStep(q, c)
      PROVE  run'[r].state = "interrupted" <=> run[r].state = "interrupted"
    <2>1. PICK phase : Moves(q, phase)
        <3>1. CASE RecordToolStarted(q, c)
            BY <3>1, StartedEffect
        <3>2. ASSUME NEW kind \in {"ok", "fail", "unknown"}, RecordToolResult(q, c, kind)
              PROVE  \E phase : Moves(q, phase)
            BY <3>2, ResultEffect
        <3>3. ASSUME NEW a \in Approvals, RecordApprovalRequired(a, q, c)
              PROVE  \E phase : Moves(q, phase)
            BY <3>3, AskEffect
        <3>4. ASSUME NEW p \in Payloads, RecordPublicationIntent(q, c, p)
              PROVE  \E phase : Moves(q, phase)
            BY <3>4, IntentEffect
        <3>5. ASSUME NEW p \in Payloads, RecordPublicationReceipt(q, c, p)
              PROVE  \E phase : Moves(q, phase)
            BY <3>5, ReceiptEffect
        <3> QED BY <1>5, <3>1, <3>2, <3>3, <3>4, <3>5 DEF CallStep
    <2> QED BY <2>1 DEF Moves
<1>6. ASSUME NEW a \in Approvals, NEW d \in {"allowed", "denied"},
             RecordApprovalDecision(a, d)
      PROVE  run'[r].state = "interrupted" <=> run[r].state = "interrupted"
    BY <1>6, DecisionEffect DEF Moves
<1>7. CASE RecoverInterrupted
    BY <1>7, RecoverEffect DEF Unfinished, Terminal
<1>8. ASSUME ~RecoverInterrupted
      PROVE  run'[r].state = "interrupted" <=> run[r].state = "interrupted"
    BY <1>1, <1>2, <1>3, <1>4, <1>5, <1>6, <1>8 DEF JournalNext, RunStep
<1> QED BY <1>7, <1>8

\* The consent to a publication survives every operation.
LEMMA ConsentStep ==
    ASSUME JournalTypeOK, RowsExist, JournalNext, NEW r \in Runs, NEW c \in Calls,
           Consented(r, c)
    PROVE  Consented(r, c)'
<1>1. PICK a \in Approvals :
          /\ approval[a].run = r /\ approval[a].call = c
          /\ approval[a].decision = IF run[r].state = "interrupted"
                                    THEN "expired" ELSE "allowed"
    BY DEF Consented
<1>2. CASE RecoverInterrupted /\ Unfinished(r)
    BY <1>1, <1>2, RecoverEffect, InterruptedStep DEF Consented
<1>3. CASE RecoverInterrupted /\ ~Unfinished(r)
    BY <1>1, <1>3, RecoverEffect, InterruptedStep DEF Consented
<1>4. CASE ~RecoverInterrupted
    <2>1. run'[r].state = "interrupted" <=> run[r].state = "interrupted"
        BY <1>4, InterruptedStep
    <2>2. approval'[a] = approval[a]
        <3>1. ASSUME NEW q \in Runs, NEW e \in Calls, NEW b \in Approvals,
                     RecordApprovalRequired(b, q, e)
              PROVE  approval'[a] = approval[a]
            BY <1>1, <3>1, AskEffect
        <3>2. ASSUME NEW b \in Approvals, NEW d \in {"allowed", "denied"},
                     RecordApprovalDecision(b, d)
              PROVE  approval'[a] = approval[a]
            BY <1>1, <3>2, DecisionEffect
        <3>3. CASE UNCHANGED approval
            BY <3>3
        <3> QED
            BY <1>4, <3>1, <3>2, <3>3
            DEF JournalNext, RunStep, CallStep, Submit, RecordModelRequest, RecordModelReply,
                FinishRun, RecordToolStarted, RecordToolResult, RecordPublicationIntent,
                RecordPublicationReceipt
    <2> QED BY <1>1, <2>1, <2>2 DEF Consented
<1> QED BY <1>2, <1>3, <1>4

\* A call whose row and artifact an operation leaves alone still agrees.
LEMMA UntouchedAgrees ==
    ASSUME JournalTypeOK, RowsExist, JournalNext, NEW r \in Runs, NEW c \in Calls,
           RowAgrees(r, c), call'[r][c] = call[r][c], artifact'[r][c] = artifact[r][c]
    PROVE  RowAgrees(r, c)'
<1>1. Consented(r, c) => Consented(r, c)'
    BY ConsentStep
<1>2. run[r].state = "interrupted" => run'[r].state = "interrupted"
    BY InterruptedStep
<1> QED BY <1>1, <1>2 DEF RowAgrees

\* The columns of every call keep agreeing.
LEMMA ColumnsStep ==
    JournalTypeOK /\ RowsExist /\ OneApprovalPerCall /\ ColumnsAgree /\ [JournalNext]_journal
        => ColumnsAgree'
<1> SUFFICES ASSUME JournalTypeOK, RowsExist, OneApprovalPerCall, ColumnsAgree, JournalNext,
                    NEW q \in Runs, NEW d \in Calls
             PROVE  RowAgrees(q, d)'
    <2>1. CASE UNCHANGED journal
        BY <2>1 DEF journal, ColumnsAgree, RowAgrees, Consented
    <2> QED BY <2>1 DEF ColumnsAgree
<1>1. RowAgrees(q, d) BY DEF ColumnsAgree
<1>2. call'[q][d] = call[q][d] /\ artifact'[q][d] = artifact[q][d] => RowAgrees(q, d)'
    BY <1>1, UntouchedAgrees
<1>3. Consented(q, d) => Consented(q, d)'
    BY ConsentStep
<1>4. ASSUME UNCHANGED <<call, artifact>>
      PROVE  RowAgrees(q, d)'
    BY <1>2, <1>4
<1>5. ASSUME NEW r \in Runs, NEW calls \in SUBSET Calls, RecordModelReply(r, calls)
      PROVE  RowAgrees(q, d)'
    <2>1. artifact' = artifact BY <1>5 DEF RecordModelReply
    <2>2. CASE q = r /\ d \in calls
        <3>2. \A n : /\ RequestedRow(n).stage = "requested" /\ RequestedRow(n).result = 0
                     /\ RequestedRow(n).intent = None /\ RequestedRow(n).rec = "none"
            BY DEF RequestedRow, NoCall
        <3>3. call'[q][d] = RequestedRow(Len(msgs[r]) + 1) /\ call[q][d].stage = "absent"
            BY <1>5, <2>2, ReplyEffect
        <3>4. artifact[q][d] = None
            BY <3>3 DEF RowsExist
        <3> QED BY <2>1, <3>2, <3>3, <3>4 DEF RowAgrees
    <2>3. CASE ~(q = r /\ d \in calls)
        BY <1>2, <1>5, <2>1, <2>3, ReplyEffect
    <2> QED BY <2>2, <2>3
<1>6. ASSUME NEW r \in Runs, NEW c \in Calls, RecordToolStarted(r, c)
      PROVE  RowAgrees(q, d)'
    <2>1. artifact' = artifact BY <1>6 DEF RecordToolStarted
    <2>2. CASE q = r /\ d = c
        BY <1>1, <1>3, <1>6, <2>1, <2>2, StartedEffect DEF RowAgrees, Keeps, Moves
    <2>3. CASE ~(q = r /\ d = c)
        BY <1>2, <1>6, <2>1, <2>3, StartedEffect DEF SameCalls
    <2> QED BY <2>2, <2>3
<1>7. ASSUME NEW r \in Runs, NEW c \in Calls, NEW kind \in {"ok", "fail", "unknown"},
             RecordToolResult(r, c, kind)
      PROVE  RowAgrees(q, d)'
    <2>1. artifact' = artifact BY <1>7 DEF RecordToolResult
    <2>2. SameCalls(r, c)
        BY <1>7, ResultEffect
    <2>3. CASE q = r /\ d = c
        <3>1. Len(msgs[r]) + 1 # 0 BY DEF JournalTypeOK
        <3>2. /\ call[q][d].result = 0 /\ call'[q][d].result # 0
              /\ run[q].state # "interrupted"
              /\ call'[q][d].stage \notin {"requested", "started"}
              /\ call'[q][d].intent = call[q][d].intent
              /\ call[q][d].stage = "succeeded" => kind = "ok"
              /\ kind = "ok" => call'[q][d].stage = "succeeded"
            <4>1. Moves(r, "tool_result_committed") /\ Keeps(r, c, {"ask", "intent"})
                BY <1>7, ResultEffect
            <4>2. run[r].state # "interrupted" /\ call'[r][c].intent = call[r][c].intent
                BY <4>1 DEF Moves, Keeps
            <4>3. /\ call[r][c].result = 0 /\ call'[r][c].result = Len(msgs[r]) + 1
                  /\ call'[r][c].stage \in {"unknown", "skipped", "succeeded", "failed"}
                  /\ call[r][c].stage = "succeeded" => kind = "ok"
                  /\ kind = "ok" => call'[r][c].stage = "succeeded"
                BY <1>7, ResultEffect
            <4> QED BY <2>3, <3>1, <4>2, <4>3
        <3>3. CASE kind = "unknown"
            <4>1. call'[q][d].stage = "unknown" /\ call'[q][d].pub = "unknown"
                BY <1>7, <2>3, <3>3, ResultEffect
            <4> QED BY <1>1, <1>3, <2>1, <3>2, <3>3, <4>1 DEF RowAgrees
        <3>4. CASE kind # "unknown"
            <4>1. call'[q][d].pub = call[q][d].pub /\ call'[q][d].rec = call[q][d].rec
                BY <1>7, <2>3, <3>4, ResultEffect DEF Keeps
            <4> QED BY <1>1, <1>3, <2>1, <3>2, <4>1 DEF RowAgrees
        <3> QED BY <3>3, <3>4
    <2>4. CASE ~(q = r /\ d = c)
        BY <1>2, <2>1, <2>2, <2>4 DEF SameCalls
    <2> QED BY <2>3, <2>4
<1>8. ASSUME NEW r \in Runs, NEW c \in Calls, NEW p \in Payloads,
             RecordPublicationIntent(r, c, p)
      PROVE  RowAgrees(q, d)'
    <2>1. artifact' = artifact BY <1>8 DEF RecordPublicationIntent
    <2>2. CASE q = r /\ d = c
        <3>1. Consented(r, c)
            <4>1. Allowed(r, c) /\ run[r].state # "interrupted"
                BY <1>8, IntentEffect DEF Moves
            <4>2. PICK a \in Approvals :
                     approval[a] = [run |-> r, call |-> c, decision |-> "allowed"]
                BY <4>1 DEF Allowed
            <4>3. /\ approval[a].run = r /\ approval[a].call = c
                  /\ approval[a].decision = "allowed"
                BY <4>2
            <4> QED BY <4>1, <4>3 DEF Consented
        <3> QED BY <1>1, <1>3, <1>8, <2>1, <2>2, <3>1, IntentEffect DEF RowAgrees, Keeps, Moves
    <2>3. CASE ~(q = r /\ d = c)
        BY <1>2, <1>8, <2>1, <2>3, IntentEffect DEF SameCalls
    <2> QED BY <2>2, <2>3
<1>9. ASSUME NEW r \in Runs, NEW c \in Calls, NEW p \in Payloads,
             RecordPublicationReceipt(r, c, p)
      PROVE  RowAgrees(q, d)'
    <2>1. CASE q = r /\ d = c
        BY <1>1, <1>3, <1>9, <2>1, ReceiptEffect DEF RowAgrees, Keeps, Moves
    <2>2. CASE ~(q = r /\ d = c)
        BY <1>2, <1>9, <2>2, ReceiptEffect DEF SameCalls
    <2> QED BY <2>1, <2>2
<1>10. ASSUME NEW a \in Approvals, NEW decision \in {"allowed", "denied"},
              RecordApprovalDecision(a, decision)
       PROVE  RowAgrees(q, d)'
    <2>1. artifact' = artifact BY <1>10 DEF RecordApprovalDecision
    <2>2. CASE q = approval[a].run /\ d = approval[a].call /\ decision = "denied"
        <3>1. ~Consented(q, d)
            BY <1>10, <2>2, DecisionEffect DEF OneApprovalPerCall, Consented, Moves
        <3>2. artifact[q][d] = None /\ call[q][d].intent = None
            BY <1>1, <3>1 DEF RowAgrees, JournalTypeOK
        <3> QED BY <1>1, <1>10, <2>1, <2>2, <3>2, DecisionEffect DEF RowAgrees, Keeps, Moves
    <2>3. CASE ~(q = approval[a].run /\ d = approval[a].call /\ decision = "denied")
        BY <1>2, <1>10, <2>1, <2>3, DecisionEffect DEF SameCalls
    <2> QED BY <2>2, <2>3
<1>11. CASE RecoverInterrupted
    <2>1. artifact' = artifact BY <1>11, RecoverEffect
    <2>2. CASE ~Unfinished(q)
        BY <1>2, <1>11, <2>1, <2>2, RecoverEffect
    <2>3. CASE Unfinished(q)
        <3>1. Settles(q, d) /\ run'[q].state = "interrupted"
            BY <1>11, <2>3, RecoverEffect
        <3>2. CASE Dangling(q, d)
            BY <1>1, <1>3, <2>1, <3>1, <3>2 DEF Settles, Keeps, Dangling, RowAgrees
        <3>3. CASE call[q][d].stage \in {"requested", "started"} /\ call[q][d].intent = None
            BY <1>1, <1>3, <2>1, <3>1, <3>3 DEF Settles, Keeps, RowAgrees
        <3>4. CASE call'[q][d] = call[q][d]
            BY <1>2, <2>1, <3>4
        <3> QED BY <3>1, <3>2, <3>3, <3>4 DEF Settles
    <2> QED BY <2>2, <2>3
<1> QED
    BY <1>4, <1>5, <1>6, <1>7, <1>8, <1>9, <1>10, <1>11
    DEF JournalNext, RunStep, CallStep, Submit, RecordModelRequest, FinishRun,
        RecordApprovalRequired

-----------------------------------------------------------------------------
\* The rows of a run that has ended or was interrupted stay as they are.
LEMMA EndedStep ==
    ASSUME JournalTypeOK, RowsExist, JournalNext, NEW q \in Runs,
           run[q].state # "absent", ~Unfinished(q)
    PROVE  /\ run'[q] = run[q] /\ msgs'[q] = msgs[q]
           /\ call'[q] = call[q] /\ artifact'[q] = artifact[q]
           /\ \A a \in Approvals : approval[a].run = q => approval'[a] = approval[a]
<1>1. ASSUME NEW r \in Runs, RunStep(r)
      PROVE  r # q
    BY <1>1 DEF RunStep, Submit, RecordModelRequest, RecordModelReply, FinishRun
<1>2. ASSUME NEW r \in Runs, NEW c \in Calls, CallStep(r, c)
      PROVE  r # q
    BY <1>2 DEF CallStep, RecordToolStarted, RecordToolResult, RecordApprovalRequired,
                RecordPublicationIntent, RecordPublicationReceipt
<1>3. ASSUME NEW r \in Runs, RunStep(r)
      PROVE  /\ run'[q] = run[q] /\ msgs'[q] = msgs[q]
             /\ call'[q] = call[q] /\ artifact'[q] = artifact[q] /\ approval' = approval
    BY <1>1, <1>3 DEF RunStep, Submit, RecordModelRequest, RecordModelReply, FinishRun,
                      Advance, AppendMessage, JournalTypeOK
<1>4. ASSUME NEW r \in Runs, NEW c \in Calls, CallStep(r, c)
      PROVE  /\ run'[q] = run[q] /\ msgs'[q] = msgs[q]
             /\ call'[q] = call[q] /\ artifact'[q] = artifact[q]
             /\ \A a \in Approvals : approval[a].run = q => approval'[a] = approval[a]
    <2>1. r # q BY <1>2, <1>4
    <2>2. /\ run'[q] = run[q] /\ msgs'[q] = msgs[q]
          /\ call'[q] = call[q] /\ artifact'[q] = artifact[q]
        BY <1>4, <2>1 DEF CallStep, RecordToolStarted, RecordToolResult, RecordApprovalRequired,
           RecordPublicationIntent, RecordPublicationReceipt, Advance, AppendMessage, SetCall,
           JournalTypeOK
    <2>3. ASSUME NEW b \in Approvals, RecordApprovalRequired(b, r, c),
                 NEW a \in Approvals, approval[a].run = q
          PROVE  approval'[a] = approval[a]
        <3>1. approval[a].decision # "absent"
            <4>1. None \notin Runs BY JournalAssumption
            <4> QED BY <2>3, <4>1 DEF RowsExist, NoApproval
        <3>2. approval[b].decision = "absent" BY <2>3 DEF RecordApprovalRequired
        <3> QED BY <2>3, <3>1, <3>2 DEF RecordApprovalRequired, JournalTypeOK
    <2>4. \/ \E b \in Approvals : RecordApprovalRequired(b, r, c)
          \/ approval' = approval
        BY <1>4 DEF CallStep, RecordToolStarted, RecordToolResult, RecordPublicationIntent,
                    RecordPublicationReceipt
    <2> QED BY <2>2, <2>3, <2>4
<1>5. ASSUME NEW b \in Approvals, NEW d \in {"allowed", "denied"}, RecordApprovalDecision(b, d)
      PROVE  /\ run'[q] = run[q] /\ msgs'[q] = msgs[q]
             /\ call'[q] = call[q] /\ artifact'[q] = artifact[q]
             /\ \A a \in Approvals : approval[a].run = q => approval'[a] = approval[a]
    <2>1. approval[b].run # q /\ UNCHANGED <<msgs, artifact>>
        BY <1>5 DEF RecordApprovalDecision
    <2>2. run'[q] = run[q] BY <1>5, <2>1 DEF RecordApprovalDecision, Advance, JournalTypeOK
    <2>3. call'[q] = call[q]
        BY <1>5, <2>1 DEF RecordApprovalDecision, SetCall, JournalTypeOK
    <2>4. \A a \in Approvals : approval[a].run = q => approval'[a] = approval[a]
        BY <1>5, <2>1 DEF RecordApprovalDecision, JournalTypeOK
    <2> QED BY <2>1, <2>2, <2>3, <2>4
<1>6. CASE RecoverInterrupted
    <2>1. run'[q] = run[q] /\ msgs'[q] = msgs[q] /\ artifact' = artifact
        BY <1>6, RecoverEffect
    <2>2. call'[q] = call[q]
        BY <1>6 DEF RecoverInterrupted, JournalTypeOK
    <2>3. \A a \in Approvals : approval[a].run = q => approval'[a] = approval[a]
        BY <1>6, RecoverEffect
    <2> QED BY <2>1, <2>2, <2>3
<1> QED BY <1>3, <1>4, <1>5, <1>6 DEF JournalNext

\* Recovery settles what it interrupts, and nothing is added to it afterwards.
LEMMA SettledStep ==
    JournalTypeOK /\ RowsExist /\ ColumnsAgree /\ InterruptedIsSettled /\ [JournalNext]_journal
        => InterruptedIsSettled'
<1> SUFFICES ASSUME JournalTypeOK, RowsExist, ColumnsAgree, InterruptedIsSettled, JournalNext,
                    NEW q \in Runs, run'[q].state = "interrupted"
             PROVE  /\ \A c \in Calls :
                          /\ call'[q][c].stage \notin {"requested", "started"}
                          /\ Dangling(q, c)' => call'[q][c].rec = "WRITE_OUTCOME_UNKNOWN"
                    /\ \A a \in Approvals : approval'[a].run = q =>
                          approval'[a].decision \notin {"pending", "allowed"}
    <2>1. CASE UNCHANGED journal
        BY <2>1 DEF journal, InterruptedIsSettled, Dangling
    <2> QED BY <2>1 DEF InterruptedIsSettled
<1>1. CASE RecoverInterrupted /\ Unfinished(q)
    <2>1. ASSUME NEW c \in Calls
          PROVE  /\ call'[q][c].stage \notin {"requested", "started"}
                 /\ Dangling(q, c)' => call'[q][c].rec = "WRITE_OUTCOME_UNKNOWN"
        <3>1. Settles(q, c) /\ artifact' = artifact
            BY <1>1, RecoverEffect
        <3>2. Dangling(q, c)' <=> Dangling(q, c)
            BY <3>1 DEF Settles, Keeps, Dangling
        <3>3. RowAgrees(q, c) BY DEF ColumnsAgree
        <3>4. CASE Dangling(q, c)
            BY <3>1, <3>4 DEF Settles
        <3>5. CASE call[q][c].stage \in {"requested", "started"} /\ call[q][c].intent = None
            BY <3>1, <3>2, <3>5 DEF Settles, Dangling
        <3>6. CASE ~Dangling(q, c) /\ ~(call[q][c].stage \in {"requested", "started"}
                                        /\ call[q][c].intent = None)
            <4>1. call[q][c].stage \notin {"requested", "started"}
                BY <3>3, <3>6 DEF Dangling, RowAgrees
            <4> QED BY <3>1, <3>2, <3>6, <4>1 DEF Settles
        <3> QED BY <3>4, <3>5, <3>6
    <2>2. \A a \in Approvals : approval'[a].run = q =>
             approval'[a].decision \notin {"pending", "allowed"}
        BY <1>1, RecoverEffect
    <2> QED BY <2>1, <2>2
<1>2. CASE ~(RecoverInterrupted /\ Unfinished(q))
    <2>1. run[q].state = "interrupted"
        BY <1>2, InterruptedStep
    <2>2. /\ call'[q] = call[q] /\ artifact'[q] = artifact[q]
          /\ \A a \in Approvals : approval[a].run = q => approval'[a] = approval[a]
        BY <2>1, EndedStep DEF Unfinished, Terminal
    <2>3. \A a \in Approvals : approval'[a].run = q => approval'[a] = approval[a]
        <3>1. ASSUME NEW a \in Approvals, approval'[a].run = q, approval'[a] # approval[a]
              PROVE  FALSE
            <4>1. CASE RecoverInterrupted
                BY <2>2, <3>1, <4>1, RecoverEffect
            <4>2. ASSUME NEW r \in Runs, NEW c \in Calls, NEW b \in Approvals,
                         RecordApprovalRequired(b, r, c)
                  PROVE  FALSE
                <5>1. run[r].state # "interrupted"
                    BY <4>2 DEF RecordApprovalRequired, Unfinished, Terminal
                <5> QED BY <2>1, <3>1, <4>2, <5>1, AskEffect
            <4>3. ASSUME NEW b \in Approvals, NEW d \in {"allowed", "denied"},
                         RecordApprovalDecision(b, d)
                  PROVE  FALSE
                BY <2>2, <3>1, <4>3, DecisionEffect
            <4>4. CASE UNCHANGED approval
                BY <3>1, <4>4
            <4> QED
                BY <4>1, <4>2, <4>3, <4>4
                DEF JournalNext, RunStep, CallStep, Submit, RecordModelRequest,
                    RecordModelReply, FinishRun, RecordToolStarted, RecordToolResult,
                    RecordPublicationIntent, RecordPublicationReceipt
        <3> QED BY <3>1
    <2> QED BY <2>1, <2>2, <2>3 DEF InterruptedIsSettled, Dangling
<1> QED BY <1>1, <1>2

-----------------------------------------------------------------------------
\* Only record_model_request puts a request in flight, and it found no open
\* call; every operation that opens a call takes the run to another phase.
LEMMA NoRequestStep ==
    JournalTypeOK /\ RowsExist /\ NoRequestOverOpenCall /\ [JournalNext]_journal
        => NoRequestOverOpenCall'
<1> SUFFICES ASSUME JournalTypeOK, RowsExist, NoRequestOverOpenCall, JournalNext,
                    NEW q \in Runs, run'[q].phase = "model_in_flight", NEW d \in Calls
             PROVE  ~Open(q, d)'
    <2>1. CASE UNCHANGED journal
        BY <2>1 DEF journal, NoRequestOverOpenCall, Open
    <2> QED BY <2>1 DEF NoRequestOverOpenCall
<1>1. ASSUME run'[q].phase = run[q].phase,
             call'[q][d].stage # "absent" => call[q][d].stage # "absent",
             call'[q][d].result = call[q][d].result
      PROVE  ~Open(q, d)'
    BY <1>1 DEF NoRequestOverOpenCall, Open
<1>2. ASSUME NEW r \in Runs, Submit(r)
      PROVE  ~Open(q, d)'
    <2>1. call' = call BY <1>2 DEF Submit
    <2> QED BY <1>1, <1>2, <2>1, SubmitEffect
<1>3. ASSUME NEW r \in Runs, RecordModelRequest(r)
      PROVE  ~Open(q, d)'
    <2>1. call' = call BY <1>3 DEF RecordModelRequest
    <2>2. CASE q = r
        BY <1>3, <2>1, <2>2, RequestEffect DEF Open
    <2>3. CASE q # r
        BY <1>1, <1>3, <2>1, <2>3, RequestEffect DEF Moves
    <2> QED BY <2>2, <2>3
<1>4. ASSUME NEW r \in Runs, NEW calls \in SUBSET Calls, RecordModelReply(r, calls)
      PROVE  ~Open(q, d)'
    <2>1. q # r
        BY <1>4, ReplyEffect DEF Moves
    <2> QED BY <1>1, <1>4, <2>1, ReplyEffect DEF Moves
<1>5. ASSUME NEW r \in Runs, NEW state \in Finishes, FinishRun(r, state)
      PROVE  ~Open(q, d)'
    <2>1. call' = call BY <1>5 DEF FinishRun
    <2> QED BY <1>1, <1>5, <2>1, FinishEffect
<1>6. ASSUME NEW r \in Runs, NEW c \in Calls, NEW phase, Moves(r, phase), SameCalls(r, c),
             phase # "model_in_flight"
      PROVE  ~Open(q, d)'
    BY <1>1, <1>6 DEF Moves, SameCalls
<1>7. ASSUME NEW r \in Runs, NEW c \in Calls, CallStep(r, c)
      PROVE  ~Open(q, d)'
    <2>1. CASE RecordToolStarted(r, c)
        BY <1>6, <2>1, StartedEffect
    <2>2. ASSUME NEW kind \in {"ok", "fail", "unknown"}, RecordToolResult(r, c, kind)
          PROVE  ~Open(q, d)'
        BY <1>6, <2>2, ResultEffect
    <2>3. ASSUME NEW a \in Approvals, RecordApprovalRequired(a, r, c)
          PROVE  ~Open(q, d)'
        <3>1. SameCalls(r, c) BY <2>3 DEF RecordApprovalRequired, SameCalls
        <3> QED BY <1>6, <2>3, <3>1, AskEffect
    <2>4. ASSUME NEW p \in Payloads, RecordPublicationIntent(r, c, p)
          PROVE  ~Open(q, d)'
        BY <1>6, <2>4, IntentEffect
    <2>5. ASSUME NEW p \in Payloads, RecordPublicationReceipt(r, c, p)
          PROVE  ~Open(q, d)'
        BY <1>6, <2>5, ReceiptEffect
    <2> QED BY <1>7, <2>1, <2>2, <2>3, <2>4, <2>5 DEF CallStep
<1>8. ASSUME NEW a \in Approvals, NEW decision \in {"allowed", "denied"},
             RecordApprovalDecision(a, decision)
      PROVE  ~Open(q, d)'
    <2> DEFINE r == approval[a].run
               c == approval[a].call
               phase == IF decision = "allowed" THEN "approval_allowed" ELSE "approval_denied"
    <2>1. /\ r \in Runs /\ c \in Calls /\ SameCalls(r, c) /\ Moves(r, phase)
        BY <1>8, DecisionEffect
    <2>2. phase # "model_in_flight" OBVIOUS
    <2> HIDE DEF r, c, phase
    <2> QED BY <1>6, <2>1, <2>2
<1>9. CASE RecoverInterrupted
    <2>1. CASE Unfinished(q)
        <3>1. Settles(q, d) /\ run'[q].phase = run[q].phase
            BY <1>9, <2>1, RecoverEffect
        <3>2. call[q][d].stage = "absent" => call[q][d] = NoCall
            BY DEF RowsExist
        <3>3. call'[q][d].stage # "absent" => call[q][d].stage # "absent"
            BY <3>1, <3>2 DEF Settles, Dangling, NoCall
        <3> QED BY <1>1, <3>1, <3>3 DEF Settles, Keeps
    <2>2. CASE ~Unfinished(q)
        BY <1>1, <1>9, <2>2, RecoverEffect
    <2> QED BY <2>1, <2>2
<1> QED
    BY <1>2, <1>3, <1>4, <1>5, <1>7, <1>8, <1>9 DEF JournalNext, RunStep

-----------------------------------------------------------------------------
\* A chain survives when its run gets no message and its call no result.
LEMMA SameChain ==
    ASSUME NEW q \in Runs, NEW d \in Calls, ChainAgrees(q, d), ResultAnswers(q, d),
           msgs'[q] = msgs[q],
           call'[q][d].stage # "absent" => call[q][d].stage # "absent",
           call'[q][d].ask = call[q][d].ask, call'[q][d].result = call[q][d].result,
           run[q].state = "interrupted" => run'[q].state = "interrupted"
    PROVE  ChainAgrees(q, d)' /\ ResultAnswers(q, d)'
BY DEF ChainAgrees, ResultAnswers, Says

\* A chain survives a new message as long as the call is not open: it has its
\* result already, or its run is interrupted now.
LEMMA LongerChain ==
    ASSUME JournalTypeOK, NEW q \in Runs, NEW d \in Calls,
           ChainAgrees(q, d), ResultAnswers(q, d),
           Len(msgs'[q]) = Len(msgs[q]) + 1,
           \A i \in 1..Len(msgs[q]) : msgs'[q][i] = msgs[q][i],
           call'[q][d].stage # "absent" => call[q][d].stage # "absent",
           call'[q][d].ask = call[q][d].ask, call'[q][d].result = call[q][d].result,
           \/ call[q][d].stage = "absent"
           \/ call[q][d].result # 0
           \/ run'[q].state = "interrupted"
    PROVE  ChainAgrees(q, d)' /\ ResultAnswers(q, d)'
<1>1. Len(msgs[q]) \in Nat /\ call[q][d].ask \in Nat /\ call[q][d].result \in Nat
    BY DEF JournalTypeOK, CallRow
<1>2. ChainAgrees(q, d)'
    <2> SUFFICES ASSUME call'[q][d].stage # "absent"
                 PROVE  ChainAgrees(q, d)'
        BY DEF ChainAgrees
    <2>1. /\ call[q][d].ask \in 1..Len(msgs[q])
          /\ msgs[q][call[q][d].ask].role = "assistant"
          /\ d \in msgs[q][call[q][d].ask].calls
        BY DEF ChainAgrees
    <2>2. call[q][d].ask \in 1..Len(msgs'[q])
        BY <1>1, <2>1
    <2>3. msgs'[q][call[q][d].ask] = msgs[q][call[q][d].ask]
        BY <2>1
    <2>4. call'[q][d].result # 0 \/ run'[q].state = "interrupted"
        OBVIOUS
    <2> QED BY <2>1, <2>2, <2>3, <2>4 DEF ChainAgrees
<1>3. ResultAnswers(q, d)'
    <2> SUFFICES ASSUME call'[q][d].result # 0
                 PROVE  ResultAnswers(q, d)'
        BY DEF ResultAnswers
    <2>1. /\ call[q][d].result \in 1..Len(msgs[q])
          /\ msgs[q][call[q][d].result] = Says("tool", {d})
          /\ call[q][d].ask \in 1..(call[q][d].result - 1)
          /\ msgs[q][call[q][d].ask].role = "assistant"
          /\ d \in msgs[q][call[q][d].ask].calls
          /\ \A i \in (call[q][d].ask + 1)..call[q][d].result : msgs[q][i].role = "tool"
        BY <1>1 DEF ResultAnswers
    <2> DEFINE n == Len(msgs[q])
               ask == call[q][d].ask
               result == call[q][d].result
    <2>2. \A i \in 1..n : msgs'[q][i] = msgs[q][i]
        OBVIOUS
    <2>3. n \in Nat /\ ask \in Nat /\ result \in Nat BY <1>1
    <2>4. /\ result \in 1..n /\ ask \in 1..n
          /\ \A i \in (ask + 1)..result : i \in 1..n
        <3>1. result \in 1..n /\ ask \in 1..(result - 1) BY <2>1
        <3> HIDE DEF n, ask, result
        <3> QED BY <2>3, <3>1
    <2>5. /\ msgs'[q][result] = msgs[q][result]
          /\ msgs'[q][ask] = msgs[q][ask]
          /\ result <= Len(msgs'[q])
        BY <2>2, <2>3, <2>4
    <2>6. \A i \in (ask + 1)..result : msgs'[q][i].role = "tool"
        <3>1. \A i \in (ask + 1)..result : msgs[q][i].role = "tool" BY <2>1
        <3> HIDE DEF n, ask, result
        <3> QED BY <2>2, <2>4, <3>1
    <2>7. Says("tool", {d})' = Says("tool", {d}) BY DEF Says
    <2> QED BY <2>1, <2>5, <2>6, <2>7 DEF ResultAnswers
<1> QED BY <1>2, <1>3

\* Every operation keeps the messages of a call where its chain has them.
LEMMA ChainsStep ==
    JournalTypeOK /\ RowsExist /\ NoRequestOverOpenCall /\ ChainsAgree /\ ResultsAnswerCalls
        /\ [JournalNext]_journal
            => ChainsAgree' /\ ResultsAnswerCalls'
<1> SUFFICES ASSUME JournalTypeOK, RowsExist, NoRequestOverOpenCall, ChainsAgree,
                    ResultsAnswerCalls, JournalNext, NEW q \in Runs, NEW d \in Calls
             PROVE  ChainAgrees(q, d)' /\ ResultAnswers(q, d)'
    <2>1. CASE UNCHANGED journal
        BY <2>1 DEF journal, ChainsAgree, ResultsAnswerCalls, ChainAgrees, ResultAnswers, Says
    <2> QED BY <2>1 DEF ChainsAgree, ResultsAnswerCalls
<1>1. ChainAgrees(q, d) /\ ResultAnswers(q, d)
    BY DEF ChainsAgree, ResultsAnswerCalls
<1>2. run[q].state = "interrupted" => run'[q].state = "interrupted"
    BY InterruptedStep
<1>3. call[q][d].stage = "absent" => call[q][d].result = 0
    BY DEF RowsExist, NoCall
<1>4. ASSUME msgs'[q] = msgs[q], call'[q][d] = call[q][d]
      PROVE  ChainAgrees(q, d)' /\ ResultAnswers(q, d)'
    BY <1>1, <1>2, <1>4, SameChain
<1>5. ASSUME NEW r \in Runs, NEW c \in Calls, msgs' = msgs, call[r][c].stage # "absent",
             Keeps(r, c, {"ask", "result"}), SameCalls(r, c)
      PROVE  ChainAgrees(q, d)' /\ ResultAnswers(q, d)'
    <2>1. CASE q = r /\ d = c
        BY <1>1, <1>2, <1>5, <2>1, SameChain DEF Keeps
    <2>2. CASE ~(q = r /\ d = c)
        BY <1>4, <1>5, <2>2 DEF SameCalls
    <2> QED BY <2>1, <2>2
<1>6. ASSUME NEW r \in Runs, Submit(r)
      PROVE  ChainAgrees(q, d)' /\ ResultAnswers(q, d)'
    <2>1. call' = call BY <1>6 DEF Submit
    <2>2. CASE q = r
        <3>1. call[q][d].stage = "absent" /\ call[q][d].result = 0
            BY <1>3, <1>6, <2>2, SubmitEffect DEF RowsExist
        <3> QED BY <2>1, <3>1 DEF ChainAgrees, ResultAnswers
    <2>3. CASE q # r
        BY <1>4, <1>6, <2>1, <2>3, SubmitEffect
    <2> QED BY <2>2, <2>3
<1>7. ASSUME NEW r \in Runs, NEW calls \in SUBSET Calls, RecordModelReply(r, calls)
      PROVE  ChainAgrees(q, d)' /\ ResultAnswers(q, d)'
    <2>1. Appends(r, Says("assistant", calls)) /\ run[r].phase = "model_in_flight"
        BY <1>7, ReplyEffect
    <2>2. CASE q # r
        BY <1>4, <1>7, <2>1, <2>2, ReplyEffect DEF Appends
    <2>3. CASE q = r /\ d \in calls
        <3> DEFINE n == Len(msgs[q])
        <3>1. n \in Nat BY DEF JournalTypeOK
        <3>2. RequestedRow(n + 1).ask = n + 1 /\ RequestedRow(n + 1).result = 0
            BY DEF RequestedRow, NoCall
        <3>3. call'[q][d] = RequestedRow(n + 1)
            BY <1>7, <2>3, ReplyEffect
        <3>4. Len(msgs'[q]) = n + 1 /\ msgs'[q][n + 1] = Says("assistant", calls)
            BY <2>1, <2>3 DEF Appends
        <3>5. Says("assistant", calls).role = "assistant" /\ d \in Says("assistant", calls).calls
            BY <2>3 DEF Says
        <3>6. ResultAnswers(q, d)'
            BY <3>2, <3>3 DEF ResultAnswers
        <3>7. ChainAgrees(q, d)'
            <4>1. /\ call'[q][d].ask = n + 1 /\ n + 1 \in 1..(n + 1)
                  /\ \A i \in ((n + 1) + 1)..(n + 1) : FALSE
                BY <3>1, <3>2, <3>3
            <4> HIDE DEF n
            <4> QED BY <3>4, <3>5, <4>1 DEF ChainAgrees
        <3> QED BY <3>6, <3>7
    <2>4. CASE q = r /\ d \notin calls
        <3>1. call'[q][d] = call[q][d]
            BY <1>7, <2>4, ReplyEffect
        <3>2. ~Open(q, d)
            BY <2>1, <2>4 DEF NoRequestOverOpenCall
        <3> QED BY <1>1, <2>1, <2>4, <3>1, <3>2, LongerChain DEF Appends, Open
    <2> QED BY <2>2, <2>3, <2>4
<1>8. ASSUME NEW r \in Runs, NEW c \in Calls, RecordToolStarted(r, c)
      PROVE  ChainAgrees(q, d)' /\ ResultAnswers(q, d)'
    <2>1. msgs' = msgs BY <1>8 DEF RecordToolStarted
    <2>2. Keeps(r, c, {"ask", "result"})
        BY <1>8, StartedEffect DEF Keeps
    <2> QED BY <1>5, <1>8, <2>1, <2>2, StartedEffect
<1>9. ASSUME NEW r \in Runs, NEW c \in Calls, NEW kind \in {"ok", "fail", "unknown"},
             RecordToolResult(r, c, kind)
      PROVE  ChainAgrees(q, d)' /\ ResultAnswers(q, d)'
    <2>1. Appends(r, Says("tool", {c})) /\ SameCalls(r, c)
        BY <1>9, ResultEffect
    <2>2. CASE q # r
        BY <1>4, <2>1, <2>2 DEF Appends, SameCalls
    <2>3. CASE q = r /\ d = c
        <3> DEFINE n == Len(msgs[q])
                   ask == call[q][d].ask
        <3>1. n \in Nat /\ ask \in Nat BY DEF JournalTypeOK, CallRow
        <3>2. /\ call[q][d].result = 0 /\ call[q][d].stage # "absent"
              /\ call'[q][d].result = n + 1 /\ call'[q][d].ask = ask
            <4>1. Keeps(r, c, {"ask", "intent"}) BY <1>9, ResultEffect
            <4>2. call[r][c].stage \in {"requested", "started", "succeeded", "skipped"}
                BY <1>9, ResultEffect
            <4>3. call[r][c].result = 0 /\ call'[r][c].result = Len(msgs[r]) + 1
                BY <1>9, ResultEffect
            <4> QED BY <2>3, <4>1, <4>2, <4>3 DEF Keeps
        <3>3. run[q].state # "interrupted"
            BY <1>9, <2>3 DEF RecordToolResult, Unfinished, Terminal
        <3>4. /\ ask \in 1..n /\ msgs[q][ask].role = "assistant" /\ d \in msgs[q][ask].calls
              /\ \A i \in (ask + 1)..n : msgs[q][i].role = "tool"
            BY <1>1, <3>2, <3>3 DEF ChainAgrees
        <3>5. /\ Len(msgs'[q]) = n + 1 /\ msgs'[q][n + 1] = Says("tool", {d})
              /\ \A i \in 1..n : msgs'[q][i] = msgs[q][i]
            BY <2>1, <2>3 DEF Appends
        <3>6. Says("tool", {d}).role = "tool" /\ Says("tool", {d})' = Says("tool", {d})
            BY DEF Says
        <3>7. /\ ask \in 1..(n + 1) /\ ask \in 1..((n + 1) - 1)
              /\ msgs'[q][ask] = msgs[q][ask]
              /\ \A i \in (ask + 1)..(n + 1) : msgs'[q][i].role = "tool"
            <4>1. \A i \in (ask + 1)..(n + 1) : i = n + 1 \/ (i \in (ask + 1)..n /\ i \in 1..n)
                <5>1. ask \in 1..n BY <3>4
                <5> HIDE DEF n, ask
                <5> QED BY <3>1, <5>1
            <4>2. ask \in 1..(n + 1) /\ ask \in 1..((n + 1) - 1)
                <5>1. ask \in 1..n BY <3>4
                <5> HIDE DEF n, ask
                <5> QED BY <3>1, <5>1
            <4> HIDE DEF n, ask
            <4> QED BY <3>4, <3>5, <3>6, <4>1, <4>2
        <3>8. ChainAgrees(q, d)'
            <4>1. n + 1 # 0 BY <3>1
            <4> HIDE DEF n, ask
            <4> QED BY <3>2, <3>4, <3>5, <3>7, <4>1 DEF ChainAgrees
        <3>9. ResultAnswers(q, d)'
            <4>1. n + 1 <= n + 1 BY <3>1
            <4> HIDE DEF n, ask
            <4> QED BY <3>2, <3>4, <3>5, <3>6, <3>7, <4>1 DEF ResultAnswers
        <3> QED BY <3>8, <3>9
    <2>4. CASE q = r /\ d # c
        <3>1. call'[q][d] = call[q][d]
            BY <2>1, <2>4 DEF SameCalls
        <3>2. /\ Len(msgs'[q]) = Len(msgs[q]) + 1
              /\ msgs'[q][Len(msgs[q]) + 1].role = "tool"
              /\ \A i \in 1..Len(msgs[q]) : msgs'[q][i] = msgs[q][i]
            BY <2>1, <2>4 DEF Appends, Says
        <3>3. CASE call[q][d].result # 0 \/ call[q][d].stage = "absent"
            BY <1>1, <3>1, <3>2, <3>3, LongerChain
        <3>4. CASE call[q][d].result = 0 /\ call[q][d].stage # "absent"
            <4> DEFINE n == Len(msgs[q])
                       ask == call[q][d].ask
            <4>1. n \in Nat /\ ask \in Nat BY DEF JournalTypeOK, CallRow
            <4>2. run[q].state # "interrupted"
                BY <1>9, <2>4 DEF RecordToolResult, Unfinished, Terminal
            <4>3. /\ ask \in 1..n /\ msgs[q][ask].role = "assistant"
                  /\ d \in msgs[q][ask].calls
                  /\ \A i \in (ask + 1)..n : msgs[q][i].role = "tool"
                BY <1>1, <3>4, <4>2 DEF ChainAgrees
            <4>4. /\ ask \in 1..(n + 1)
                  /\ \A i \in (ask + 1)..(n + 1) : i = n + 1 \/ (i \in (ask + 1)..n /\ i \in 1..n)
                <5>1. ask \in 1..n BY <4>3
                <5> HIDE DEF n, ask
                <5> QED BY <4>1, <5>1
            <4>5. /\ msgs'[q][ask] = msgs[q][ask]
                  /\ \A i \in (ask + 1)..(n + 1) : msgs'[q][i].role = "tool"
                <5>1. /\ msgs'[q][n + 1].role = "tool"
                      /\ \A i \in 1..n : msgs'[q][i] = msgs[q][i]
                    BY <3>2
                <5> HIDE DEF n, ask
                <5> QED BY <4>3, <4>4, <5>1
            <4>6. Len(msgs'[q]) = n + 1 BY <3>2
            <4>7. ChainAgrees(q, d)'
                BY <3>1, <4>3, <4>4, <4>5, <4>6 DEF ChainAgrees
            <4>8. ResultAnswers(q, d)'
                BY <3>1, <3>4 DEF ResultAnswers
            <4> QED BY <4>7, <4>8
        <3> QED BY <3>3, <3>4
    <2> QED BY <2>2, <2>3, <2>4
<1>10. ASSUME NEW r \in Runs, NEW c \in Calls, NEW p \in Payloads,
              RecordPublicationIntent(r, c, p)
       PROVE  ChainAgrees(q, d)' /\ ResultAnswers(q, d)'
    <2>1. msgs' = msgs BY <1>10 DEF RecordPublicationIntent
    <2>2. Keeps(r, c, {"ask", "result"}) /\ call[r][c].stage # "absent" /\ SameCalls(r, c)
        BY <1>10, IntentEffect DEF Keeps
    <2> QED BY <1>5, <2>1, <2>2
<1>11. ASSUME NEW r \in Runs, NEW c \in Calls, NEW p \in Payloads,
              RecordPublicationReceipt(r, c, p)
       PROVE  ChainAgrees(q, d)' /\ ResultAnswers(q, d)'
    <2>1. msgs' = msgs BY <1>11 DEF RecordPublicationReceipt
    <2>2. Keeps(r, c, {"ask", "result"}) /\ call[r][c].stage # "absent" /\ SameCalls(r, c)
        BY <1>11, ReceiptEffect DEF Keeps
    <2> QED BY <1>5, <2>1, <2>2
<1>12. ASSUME NEW a \in Approvals, NEW decision \in {"allowed", "denied"},
              RecordApprovalDecision(a, decision)
       PROVE  ChainAgrees(q, d)' /\ ResultAnswers(q, d)'
    <2> DEFINE r == approval[a].run
               c == approval[a].call
    <2>1. msgs' = msgs BY <1>12 DEF RecordApprovalDecision
    <2>2. r \in Runs /\ c \in Calls /\ SameCalls(r, c) /\ call[r][c].stage # "absent"
        BY <1>12, DecisionEffect DEF RowsExist
    <2>3. Keeps(r, c, {"ask", "result"})
        BY <1>12, DecisionEffect DEF Keeps
    <2> HIDE DEF r, c
    <2> QED BY <1>5, <2>1, <2>2, <2>3
<1>13. CASE RecoverInterrupted
    <2>1. CASE Unfinished(q)
        <3>1. /\ run'[q].state = "interrupted" /\ Settles(q, d)
              /\ Len(msgs'[q]) = Len(msgs[q]) + 1
              /\ \A i \in 1..Len(msgs[q]) : msgs'[q][i] = msgs[q][i]
            BY <1>13, <2>1, RecoverEffect
        <3>2. call'[q][d].stage # "absent" => call[q][d].stage # "absent"
            BY <3>1 DEF Settles, RowsExist, NoCall, Dangling
        <3> QED BY <1>1, <3>1, <3>2, LongerChain DEF Settles, Keeps
    <2>2. CASE ~Unfinished(q)
        BY <1>4, <1>13, <2>2, RecoverEffect
    <2> QED BY <2>1, <2>2
<1>14. CASE UNCHANGED <<msgs, call>>
    BY <1>4, <1>14
<1> QED
    BY <1>6, <1>7, <1>8, <1>9, <1>10, <1>11, <1>12, <1>13, <1>14
    DEF JournalNext, RunStep, CallStep, RecordModelRequest, FinishRun, RecordApprovalRequired

-----------------------------------------------------------------------------
\* The agreement of the columns is what makes artifacts backed and unknown
\* outcomes no successes.
LEMMA ColumnsShow ==
    RowsExist /\ ColumnsAgree => ArtifactsAreBacked /\ UnknownIsNotSuccess
<1> SUFFICES ASSUME ColumnsAgree, NEW r \in Runs, NEW c \in Calls
             PROVE  /\ artifact[r][c] # None =>
                          /\ call[r][c].intent = artifact[r][c]
                          /\ call[r][c].pub = "confirmed" /\ call[r][c].rec = "confirmed"
                          /\ Consented(r, c)
                    /\ call[r][c].rec = "WRITE_OUTCOME_UNKNOWN" =>
                          /\ artifact[r][c] = None
                          /\ call[r][c].pub = "unknown" /\ call[r][c].stage # "succeeded"
    BY DEF ArtifactsAreBacked, UnknownIsNotSuccess, Consented
<1> QED BY DEF ColumnsAgree, RowAgrees

LEMMA JournalInitInv == JournalInit => JournalInv
<1> SUFFICES ASSUME JournalInit PROVE JournalInv
    OBVIOUS
<1>1. NoRun \in RunRow BY DEF NoRun, RunRow, RunStates, Phases, Reasons
<1>2. NoCall \in CallRow BY DEF NoCall, CallRow, Stages
<1>3. NoApproval \in ApprovalRow BY DEF NoApproval, ApprovalRow, Decisions
<1>4. JournalTypeOK
    BY <1>1, <1>2, <1>3 DEF JournalInit, JournalTypeOK
<1>5. /\ \A r \in Runs : run[r] = NoRun
      /\ \A r \in Runs, c \in Calls : call[r][c] = NoCall /\ artifact[r][c] = None
      /\ \A a \in Approvals : approval[a] = NoApproval
    BY DEF JournalInit
<1>6. /\ NoRun.state = "absent" /\ NoRun.finished_at = "null" /\ NoRun.phase = "submitted"
      /\ NoCall.stage = "absent" /\ NoCall.result = 0 /\ NoCall.intent = None
      /\ NoCall.rec = "none" /\ NoApproval.decision = "absent"
    BY DEF NoRun, NoCall, NoApproval
<1>7. RowsExist /\ OneApprovalPerCall
    BY <1>5, <1>6 DEF RowsExist, OneApprovalPerCall
<1>8. ColumnsAgree
    BY <1>5, <1>6 DEF ColumnsAgree, RowAgrees
<1>9. ChainsAgree /\ ResultsAnswerCalls
    BY <1>5, <1>6 DEF ChainsAgree, ChainAgrees, ResultsAnswerCalls, ResultAnswers
<1>10. NoRequestOverOpenCall /\ InterruptedIsSettled
    BY <1>5, <1>6 DEF NoRequestOverOpenCall, InterruptedIsSettled
<1> QED BY <1>4, <1>7, <1>8, <1>9, <1>10, ColumnsShow DEF JournalInv

\* JournalInv is inductive.
LEMMA JournalStep == JournalInv /\ [JournalNext]_journal => JournalInv'
<1> SUFFICES ASSUME JournalInv, [JournalNext]_journal PROVE JournalInv'
    OBVIOUS
<1> USE DEF JournalInv
<1>1. JournalTypeOK' BY TypeStep
<1>2. RowsExist' BY RowsStep
<1>3. OneApprovalPerCall' BY OneApprovalStep
<1>4. ColumnsAgree' BY ColumnsStep
<1>5. NoRequestOverOpenCall' BY NoRequestStep
<1>6. ChainsAgree' /\ ResultsAnswerCalls' BY ChainsStep
<1>7. InterruptedIsSettled' BY SettledStep
<1>8. ArtifactsAreBacked' /\ UnknownIsNotSuccess'
    <2> HIDE DEF JournalInv
    <2> QED BY <1>2, <1>4, ColumnsShow, PTL
<1> QED BY <1>1, <1>2, <1>3, <1>4, <1>5, <1>6, <1>7, <1>8

\* The tables of the journal keep the values their columns admit.
THEOREM JournalTyped == JournalSpec => []JournalTypeOK
<1>1. JournalInv => JournalTypeOK BY DEF JournalInv
<1> QED BY <1>1, JournalInitInv, JournalStep, PTL DEF JournalSpec

\* No request of a run is in flight over a call without a result.
THEOREM RequestsWait == JournalSpec => []NoRequestOverOpenCall
<1>1. JournalInv => NoRequestOverOpenCall BY DEF JournalInv
<1> QED BY <1>1, JournalInitInv, JournalStep, PTL DEF JournalSpec

\* Every stored result answers the call it is stored for, in the batch of the
\* message that requested it.
THEOREM ResultsAnswer == JournalSpec => []ResultsAnswerCalls
<1>1. JournalInv => ResultsAnswerCalls BY DEF JournalInv
<1> QED BY <1>1, JournalInitInv, JournalStep, PTL DEF JournalSpec

\* Every artifact was announced, is confirmed and was consented to.
THEOREM ArtifactsBacked == JournalSpec => []ArtifactsAreBacked
<1>1. JournalInv => ArtifactsAreBacked BY DEF JournalInv
<1> QED BY <1>1, JournalInitInv, JournalStep, PTL DEF JournalSpec

\* No outcome is stored as unknown and as a success.
THEOREM UnknownStays == JournalSpec => []UnknownIsNotSuccess
<1>1. JournalInv => UnknownIsNotSuccess BY DEF JournalInv
<1> QED BY <1>1, JournalInitInv, JournalStep, PTL DEF JournalSpec

\* Recovery leaves no call, announced publication or approval of an
\* interrupted run half-open, and no later operation reopens one.
THEOREM RecoverySettles == JournalSpec => []InterruptedIsSettled
<1>1. JournalInv => InterruptedIsSettled BY DEF JournalInv
<1> QED BY <1>1, JournalInitInv, JournalStep, PTL DEF JournalSpec

\* No operation changes a row of a run that has ended.
THEOREM HistoryIsFinal == JournalSpec => FinishedIsFinal
<1> DEFINE Kept == \A r \in Runs : run[r].finished_at = "set" =>
                      /\ run'[r] = run[r] /\ msgs'[r] = msgs[r]
                      /\ call'[r] = call[r] /\ artifact'[r] = artifact[r]
                      /\ \A a \in Approvals : approval[a].run = r => approval'[a] = approval[a]
<1>1. ASSUME JournalInv, [JournalNext]_journal
      PROVE  [Kept]_journal
    <2>1. CASE UNCHANGED journal
        BY <2>1
    <2>2. ASSUME JournalNext, NEW r \in Runs, run[r].finished_at = "set"
          PROVE  /\ run'[r] = run[r] /\ msgs'[r] = msgs[r]
                 /\ call'[r] = call[r] /\ artifact'[r] = artifact[r]
                 /\ \A a \in Approvals : approval[a].run = r => approval'[a] = approval[a]
        <3>1. run[r].state # "absent" /\ ~Unfinished(r)
            BY <1>1, <2>2 DEF JournalInv, RowsExist, Unfinished
        <3> QED BY <1>1, <2>2, <3>1, EndedStep DEF JournalInv
    <2> QED BY <1>1, <2>1, <2>2
<1> QED BY <1>1, JournalInitInv, JournalStep, PTL DEF JournalSpec, FinishedIsFinal

-----------------------------------------------------------------------------
(* The inductive invariant.                                                *)

\* The user was asked about the call.
Asked(r, c) == \E a \in Approvals : approval[a].run = r /\ approval[a].call = c

Awaits(r) == main.run = r /\ main.pc = "await"

ThreadsTyped ==
    /\ main \in MainState /\ worker \in [Runs -> WorkerState]
    /\ flags \in [Runs -> SUBSET {"cancel", "run", "tool", "approval"}]
    /\ exists \in BOOLEAN /\ created \subseteq Runs \X Calls /\ faults \in 0..MaxFaults

\* Where the run thread is decides which of its variables are set.
ThreadsAgree ==
    /\ main.run = None <=> main.pc = "idle"
    /\ main.cur # None <=> main.pc \in {"invoke", "read", "reading", "ask", "wait", "launch",
                                        "await", "record"}
    /\ main.pc \notin {"record", "batch"} => main.act = "continue"
    /\ main.ends = "completed" => main.pc = "finish"
    /\ main.pc = "record" /\ main.res = "unknown" => main.act = "stop"
    /\ \A r \in Runs : /\ worker[r].pc # "none" => worker[r].call \in Calls
                       /\ worker[r].pc # "done" <=> worker[r].out = "none"

\* The active run is unfinished, and the calls of its batch that were not dealt with are the
\* ones without a result.
BatchIsOpen ==
    LET r == main.run IN
    r # None =>
        /\ Unfinished(r)
        /\ main.pc # "finish" \/ main.ends = "completed" =>
               \A c \in Calls : Open(r, c) <=> c \in main.todo
        /\ main.pc \in {"prepare", "loop", "model", "answer", "finish"} => main.todo = {}
        /\ main.cur # None => main.cur \in main.todo

\* A call that is not started or asked about is as it was requested.
TurnsAreKept ==
    LET r == main.run IN
    \A c \in main.todo : c # main.cur \/ main.pc \in {"invoke", "read", "ask"} =>
        call[r][c].stage = "requested" /\ ~Asked(r, c)

\* A call whose success is recorded next either has its artifact or needed no approval.
SuccessIsBacked ==
    LET r == main.run
        c == main.cur
    IN /\ main.pc = "reading" => ~Asked(r, c)
       /\ main.pc = "record" /\ main.res = "ok" => artifact[r][c] # None \/ ~Asked(r, c)

\* What the worker that is waited for has done, and what is stored of it.
WorkerIsAwaited ==
    LET r == main.run
        c == main.cur
        w == worker[r]
    IN main.pc = "await" =>
        /\ w.call = c /\ w.pc # "none"
        /\ IF w.out = "ok" THEN artifact[r][c] # None ELSE call[r][c].stage = "started"
        /\ w.pc \in {"stage", "enter", "intent", "link"} \/ w.out \in {"fail", "stop", "journal"}
               => <<r, c>> \notin created
        /\ w.pc \in {"link", "receipt"} => call[r][c].intent = <<r, c>>
        /\ w.pc = "receipt" => <<r, c>> \in created

\* Only the worker that is waited for is inside its publication; one that was left behind
\* comes too late to enter it, and only one that came too late was stopped.
OrphansAreLate ==
    \A r \in Runs :
        /\ LockHeld(r) => Awaits(r) /\ "cancel" \notin flags[r]
        /\ worker[r].pc \in {"stage", "enter"} => Awaits(r) \/ TooLate(r)
        /\ worker[r].out = "stop" => TooLate(r)

\* A run that goes on, or has answered, has written nothing that is not recorded; one that
\* asks for a write has written nothing.
GoesOnClean ==
    LET r == main.run IN
    /\ r # None /\ main.act # "stop" /\ (main.pc # "finish" \/ main.ends = "completed") =>
           \A c \in Calls :
               /\ call[r][c].rec # "WRITE_OUTCOME_UNKNOWN"
               /\ <<r, c>> \in created => artifact[r][c] # None \/ (main.pc = "await" /\ c = main.cur)
    /\ main.pc \in {"ask", "wait", "launch", "await"} =>
           \A c \in Calls : <<r, c>> \in created => main.pc = "await" /\ c = main.cur

\* While a run may still write, the outcome of no write to the target is unknown.
TargetIsKnown ==
    main.pc \notin {"idle", "prepare", "finish"} /\ main.act # "stop" => ~UnknownTarget

\* Whatever was created was announced.
CreatedIsIntended ==
    \A r \in Runs, c \in Calls : <<r, c>> \in created => call[r][c].intent = <<r, c>>

\* A call that has no result is not over: a success among them has its artifact.  In a run
\* that goes on the stage of a call never says unknown alone.
OpenCallsStand ==
    \A r \in Runs, c \in Calls : Unfinished(r) =>
        /\ call[r][c].result = 0 =>
               /\ call[r][c].stage \in {"absent", "requested", "started", "skipped", "succeeded"}
               /\ call[r][c].stage = "succeeded" => artifact[r][c] # None
        /\ call[r][c].stage = "unknown" => call[r][c].rec = "WRITE_OUTCOME_UNKNOWN"

\* A refusal, and nothing else, skips its call; a consent lapses with its run only.
DecisionStands(a, r, c) ==
    approval[a].run = r /\ approval[a].call = c =>
        /\ approval[a].decision = "denied" => call[r][c].stage \in {"skipped", "unknown"}
        /\ approval[a].decision \in {"pending", "allowed"} => call[r][c].stage # "skipped"
        /\ approval[a].decision = "expired" => ~Unfinished(r)

DecisionsStand == \A a \in Approvals, r \in Runs, c \in Calls : DecisionStands(a, r, c)

\* The outcome of a write that is recorded next is the true one, unless the run was stopped.
OutcomeIsTrue ==
    LET r == main.run
        c == main.cur
    IN main.pc = "record" =>
           /\ main.res = "unknown" => artifact[r][c] = None
           /\ main.res = "fail" /\ Asked(r, c) => <<r, c>> \notin created \/ TooLate(r)

TablesInv == JournalInv /\ OpenCallsStand /\ DecisionsStand

WriteInv ==
    /\ TablesInv /\ OutcomeIsTrue /\ ThreadsTyped /\ ThreadsAgree /\ BatchIsOpen /\ TurnsAreKept
    /\ SuccessIsBacked /\ WorkerIsAwaited /\ OrphansAreLate /\ GoesOnClean /\ TargetIsKnown
    /\ CreatedIsIntended /\ FilesAreAccountedFor /\ OneOutputPerRun /\ CompletedMeansSettled

-----------------------------------------------------------------------------
\* What the operations of the journal do to the columns that the invariant speaks of.

StaysOpen(r) ==
    /\ run[r].state \notin {"absent"} \cup Terminal /\ run[r].finished_at = "null"
    /\ run'[r].state \notin {"absent"} \cup Terminal /\ run'[r].finished_at = "null"
    /\ \A q \in Runs \ {r} : run'[q] = run[q]

SameColumns(r, c) ==
    /\ call'[r][c].result = call[r][c].result
    /\ call'[r][c].intent = call[r][c].intent /\ call'[r][c].rec = call[r][c].rec

Requested(r) ==
    StaysOpen(r) /\ UNCHANGED <<call, approval, artifact>> /\ \A c \in Calls : ~Open(r, c)

Replied(r, calls) ==
    /\ StaysOpen(r) /\ UNCHANGED <<approval, artifact>>
    /\ \A c \in calls :
           /\ call[r][c].stage = "absent" /\ call'[r][c].stage = "requested"
           /\ call'[r][c].result = 0 /\ call'[r][c].intent = None /\ call'[r][c].rec = "none"
    /\ \A q \in Runs, d \in Calls : q # r \/ d \notin calls => call'[q][d] = call[q][d]

Started(r, c) ==
    /\ StaysOpen(r) /\ UNCHANGED <<approval, artifact>>
    /\ call[r][c].stage = "requested" /\ call'[r][c].stage = "started"
    /\ call[r][c].result = 0 /\ SameColumns(r, c) /\ SameCalls(r, c)

Resulted(r, c, kind) ==
    /\ StaysOpen(r) /\ UNCHANGED <<approval, artifact>>
    /\ call[r][c].result = 0 /\ call'[r][c].result # 0
    /\ call'[r][c].stage # "absent" /\ call'[r][c].stage = "succeeded" => kind = "ok"
    /\ kind = "fail" => call'[r][c].stage \in {"failed", "skipped"}
    /\ call'[r][c].stage = "skipped" => call[r][c].stage = "skipped"
    /\ call[r][c].stage = "skipped" => call'[r][c].stage \in {"skipped", "unknown"}
    /\ call'[r][c].stage = "unknown" => kind = "unknown"
    /\ call'[r][c].intent = call[r][c].intent
    /\ call'[r][c].rec = IF kind = "unknown" THEN "WRITE_OUTCOME_UNKNOWN" ELSE call[r][c].rec
    /\ SameCalls(r, c)

AskedNow(r, c) ==
    /\ StaysOpen(r) /\ UNCHANGED <<call, artifact>>
    /\ call[r][c].stage = "requested"
    /\ \A q \in Runs, d \in Calls : Asked(q, d)' <=> Asked(q, d) \/ (q = r /\ d = c)

Announced(r, c) ==
    /\ StaysOpen(r) /\ UNCHANGED <<approval, artifact>>
    /\ call[r][c].result = 0 /\ call'[r][c].result = 0 /\ call[r][c].intent = None
    /\ call'[r][c].stage = "started" /\ call'[r][c].intent = <<r, c>>
    /\ call[r][c].stage # "absent" /\ call'[r][c].rec = call[r][c].rec /\ SameCalls(r, c)

Received(r, c) ==
    /\ StaysOpen(r) /\ UNCHANGED approval
    /\ call[r][c].stage = "started" /\ call'[r][c].stage = "succeeded"
    /\ call'[r][c].result = call[r][c].result /\ call'[r][c].intent = call[r][c].intent
    /\ call'[r][c].rec = "confirmed" /\ artifact'[r][c] = <<r, c>> /\ SameCalls(r, c)
    /\ \A q \in Runs, d \in Calls : q # r \/ d # c => artifact'[q][d] = artifact[q][d]

Decided(r, c) ==
    /\ StaysOpen(r) /\ UNCHANGED artifact
    /\ Asked(r, c) /\ \A q \in Runs, d \in Calls : Asked(q, d)' <=> Asked(q, d)
    /\ call[r][c].stage # "absent"
    /\ call'[r][c].stage \in {call[r][c].stage, "skipped"}
    /\ SameColumns(r, c) /\ SameCalls(r, c)

Ended(r, state) ==
    /\ run'[r].state = state /\ run'[r].finished_at = "set"
    /\ \A q \in Runs \ {r} : run'[q] = run[q]
    /\ UNCHANGED <<call, approval, artifact>>

Submitted(r) ==
    /\ run[r].state = "absent"
    /\ run'[r].state = "queued" /\ run'[r].finished_at = "null"
    /\ \A q \in Runs \ {r} : run'[q] = run[q]
    /\ UNCHANGED <<call, approval, artifact>>

\* Of the rows of a call after a recovery.
Recovered(r, c) ==
    /\ IF Unfinished(r) THEN run'[r].state = "interrupted" ELSE run'[r] = run[r]
    /\ call'[r][c].result = call[r][c].result /\ call'[r][c].intent = call[r][c].intent
    /\ call'[r][c].stage = "succeeded" => call[r][c].stage = "succeeded"
    /\ ~Unfinished(r) => call'[r][c] = call[r][c]
    /\ Unfinished(r) /\ Dangling(r, c) => call'[r][c].rec = "WRITE_OUTCOME_UNKNOWN"
    /\ artifact'[r][c] = artifact[r][c] /\ (Asked(r, c)' <=> Asked(r, c))

LEMMA StaysUnfinished ==
    ASSUME JournalTypeOK, NEW r \in Runs, NEW state \in {"running", "waiting_approval"},
           NEW phase \in Phases, Unfinished(r), Advance(r, state, phase)
    PROVE  StaysOpen(r)
<1>1. state \in RunStates
    BY DEF RunStates
<1> QED BY <1>1, AdvanceEffect DEF StaysOpen, Unfinished, Terminal

LEMMA RequestShows ==
    ASSUME JournalTypeOK, NEW r \in Runs, RecordModelRequest(r)
    PROVE  Requested(r)
<1>1. run[r] \in RunRow
    BY DEF JournalTypeOK
<1>2. run'[r] = [run[r] EXCEPT !.state = "running", !.phase = "model_in_flight",
                               !.requests = run[r].requests + 1]
    BY DEF RecordModelRequest, JournalTypeOK
<1>3. run'[r].state = "running" /\ run'[r].finished_at = run[r].finished_at
    BY <1>1, <1>2 DEF RunRow
<1>4. \A q \in Runs \ {r} : run'[q] = run[q]
    BY DEF RecordModelRequest, JournalTypeOK
<1> QED BY <1>3, <1>4 DEF RecordModelRequest, Unfinished, Terminal, Requested, StaysOpen

LEMMA ReplyShows ==
    ASSUME JournalTypeOK, NEW r \in Runs, NEW calls \in SUBSET Calls, RecordModelReply(r, calls)
    PROVE  Replied(r, calls)
<1>1. (IF calls = {} THEN "model_replied" ELSE "tool_requested") \in Phases
    BY DEF Phases
<1>2. StaysOpen(r)
    BY <1>1, StaysUnfinished DEF RecordModelReply
<1>3. \A n : /\ RequestedRow(n).stage = "requested" /\ RequestedRow(n).result = 0
             /\ RequestedRow(n).intent = None /\ RequestedRow(n).rec = "none"
    BY DEF RequestedRow, NoCall
<1>4. UNCHANGED <<approval, artifact>>
    BY DEF RecordModelReply
<1> QED BY <1>2, <1>3, <1>4, ReplyEffect DEF Replied

LEMMA StartShows ==
    ASSUME JournalTypeOK, NEW r \in Runs, NEW c \in Calls, RecordToolStarted(r, c)
    PROVE  Started(r, c)
<1>1. StaysOpen(r)
    BY StaysUnfinished DEF RecordToolStarted, Phases
<1>2. call[r][c].result = 0 /\ UNCHANGED <<approval, artifact>>
    BY DEF RecordToolStarted
<1> QED BY <1>1, <1>2, StartedEffect DEF Started, Keeps, SameColumns

LEMMA ResultShows ==
    ASSUME JournalTypeOK, NEW r \in Runs, NEW c \in Calls,
           NEW kind \in {"ok", "fail", "unknown"}, RecordToolResult(r, c, kind)
    PROVE  Resulted(r, c, kind)
<1>1. StaysOpen(r)
    BY StaysUnfinished DEF RecordToolResult, Phases
<1>2. UNCHANGED <<approval, artifact>>
    BY DEF RecordToolResult
<1>3. call[r][c] \in CallRow /\ msgs[r] \in Seq(Message) /\ Len(msgs[r]) \in Nat
    BY DEF JournalTypeOK
<1>4. call'[r][c] = ResultRow(call[r][c], kind, Len(msgs[r]) + 1)
    <2> DEFINE row(n) == ResultRow(call[r][c], kind, n)
    <2>1. row(Len(msgs[r]) + 1) \in CallRow
        <3>1. Len(msgs[r]) + 1 \in Nat
            BY <1>3
        <3> QED BY <3>1, WrittenRows
    <2>2. SetCall(r, c, ResultRow(call[r][c], kind, Len(msgs[r]) + 1))
        BY DEF RecordToolResult
    <2> QED BY <2>1, <2>2, SetCallEffect
<1>5. call'[r][c].stage = "succeeded" => kind = "ok"
    BY <1>3, <1>4 DEF ResultRow, CallRow
<1>6. call'[r][c].rec = IF kind = "unknown" THEN "WRITE_OUTCOME_UNKNOWN" ELSE call[r][c].rec
    BY <1>3, <1>4 DEF ResultRow, CallRow
<1>7. call'[r][c].result # 0
    <2>1. call'[r][c].result = Len(msgs[r]) + 1
        BY ResultEffect
    <2> QED BY <1>3, <2>1
<1>8. /\ kind = "fail" => call'[r][c].stage \in {"failed", "skipped"}
      /\ call'[r][c].stage = "skipped" => call[r][c].stage = "skipped"
      /\ call[r][c].stage = "skipped" => call'[r][c].stage \in {"skipped", "unknown"}
      /\ call'[r][c].stage = "unknown" => kind = "unknown"
    BY <1>3, <1>4 DEF RecordToolResult, ResultRow, ReceiptOnly, SkippedResult, CallRow
<1> QED BY <1>1, <1>2, <1>5, <1>6, <1>7, <1>8, ResultEffect DEF Resulted, Keeps

LEMMA AskShows ==
    ASSUME JournalTypeOK, RowsExist, NEW r \in Runs, NEW c \in Calls, NEW a \in Approvals,
           RecordApprovalRequired(a, r, c)
    PROVE  AskedNow(r, c)
<1>1. StaysOpen(r)
    BY StaysUnfinished DEF RecordApprovalRequired, Phases
<1>2. approval[a].run \notin Runs
    BY JournalAssumption DEF RecordApprovalRequired, RowsExist, NoApproval
<1>3. \A q \in Runs, d \in Calls : Asked(q, d)' <=> Asked(q, d) \/ (q = r /\ d = c)
    BY <1>2, AskEffect DEF Asked
<1> QED BY <1>1, <1>3 DEF RecordApprovalRequired, AskedNow

LEMMA IntentShows ==
    ASSUME JournalTypeOK, NEW r \in Runs, NEW c \in Calls,
           RecordPublicationIntent(r, c, <<r, c>>)
    PROVE  Announced(r, c)
<1>1. <<r, c>> \in Payloads
    BY WriteRunAssumption
<1>2. StaysOpen(r)
    BY StaysUnfinished DEF RecordPublicationIntent, Phases
<1>3. /\ call[r][c].result = 0 /\ call[r][c].intent = None
      /\ UNCHANGED <<approval, artifact>>
    BY DEF RecordPublicationIntent
<1> QED BY <1>1, <1>2, <1>3, IntentEffect DEF Announced, Keeps

LEMMA ReceiptShows ==
    ASSUME JournalTypeOK, NEW r \in Runs, NEW c \in Calls,
           RecordPublicationReceipt(r, c, <<r, c>>)
    PROVE  Received(r, c)
<1>1. <<r, c>> \in Payloads
    BY WriteRunAssumption
<1>2. StaysOpen(r)
    BY StaysUnfinished DEF RecordPublicationReceipt, Phases
<1>3. UNCHANGED approval
    BY DEF RecordPublicationReceipt
<1> QED BY <1>1, <1>2, <1>3, ReceiptEffect DEF Received, Keeps

LEMMA DecisionShows ==
    ASSUME JournalTypeOK, RowsExist, NEW a \in Approvals, NEW d \in {"allowed", "denied"},
           NEW r \in Runs, NEW c \in Calls, approval[a].run = r, approval[a].call = c,
           RecordApprovalDecision(a, d)
    PROVE  Decided(r, c)
<1>1. StaysOpen(r)
    <2>1. (IF d = "allowed" THEN "approval_allowed" ELSE "approval_denied") \in Phases
        BY DEF Phases
    <2> QED BY <2>1, StaysUnfinished DEF RecordApprovalDecision
<1>2. /\ approval'[a].run = r /\ approval'[a].call = c
      /\ \A b \in Approvals \ {a} : approval'[b] = approval[b]
      /\ call'[r][c].stage \in {call[r][c].stage, "skipped"}
      /\ Keeps(r, c, {"ask", "result", "intent", "pub", "rec"}) /\ SameCalls(r, c)
    BY DecisionEffect
<1>3. \A q \in Runs, e \in Calls : Asked(q, e)' <=> Asked(q, e)
    BY <1>2 DEF Asked
<1>4. call[r][c].stage # "absent" /\ UNCHANGED artifact
    BY DEF RecordApprovalDecision, RowsExist
<1> QED BY <1>1, <1>2, <1>3, <1>4 DEF Decided, Asked, Keeps, SameColumns

LEMMA FinishShows ==
    ASSUME JournalTypeOK, NEW r \in Runs, NEW state \in Finishes, FinishRun(r, state)
    PROVE  Ended(r, state)
BY FinishEffect DEF Ended, FinishRun

LEMMA SubmitShows ==
    ASSUME JournalTypeOK, RowsExist, NEW r \in Runs, Submit(r)
    PROVE  Submitted(r)
BY SubmitEffect DEF Submitted, Submit, RowsExist

LEMMA RecoverShows ==
    ASSUME JournalTypeOK, RecoverInterrupted, NEW r \in Runs, NEW c \in Calls
    PROVE  Recovered(r, c)
<1>1. Asked(r, c)' <=> Asked(r, c)
    BY RecoverEffect DEF Asked
<1>2. CASE Unfinished(r)
    <2>1. Settles(r, c) /\ run'[r].state = "interrupted" /\ artifact' = artifact
        BY <1>2, RecoverEffect
    <2> QED BY <1>1, <1>2, <2>1 DEF Recovered, Settles, Keeps
<1>3. CASE ~Unfinished(r)
    BY <1>1, <1>3, RecoverEffect DEF Recovered
<1> QED BY <1>2, <1>3

\* How the columns of the stored rows agree.
LEMMA StoredRows ==
    ASSUME JournalInv, NEW r \in Runs, NEW c \in Calls
    PROVE  /\ run[r].state = "absent" => call[r][c].stage = "absent"
           /\ call[r][c].stage = "absent" =>
                  /\ call[r][c].result = 0 /\ call[r][c].intent = None
                  /\ call[r][c].rec = "none" /\ artifact[r][c] = None
           /\ call[r][c].stage = "requested" =>
                  call[r][c].result = 0 /\ call[r][c].intent = None /\ artifact[r][c] = None
           /\ call[r][c].stage = "started" => call[r][c].result = 0 /\ artifact[r][c] = None
           /\ artifact[r][c] # None => call[r][c].stage = "succeeded"
           /\ call[r][c].rec = "WRITE_OUTCOME_UNKNOWN" => artifact[r][c] = None
           /\ Asked(r, c) => call[r][c].stage # "absent"
BY JournalAssumption DEF JournalInv, RowsExist, ColumnsAgree, RowAgrees, NoCall, NoApproval, Asked

\* A created file has a name that is not NULL.
LEMMA PayloadsAreNamed == \A r \in Runs, c \in Calls : <<r, c>> # None
BY JournalAssumption, WriteRunAssumption

LEMMA NothingActive == Idle \in MainState /\ NoWorker \in WorkerState
BY DEF Idle, MainState, NoWorker, WorkerState, Finishes

LEMMA FinishingShows ==
    ASSUME main \in MainState, NEW ends \in Finishes, NEW escape \in BOOLEAN,
           Finishing(ends, escape)
    PROVE  /\ main' \in MainState /\ main'.run = main.run /\ main'.pc = "finish"
           /\ main'.cur = None /\ main'.todo = {} /\ main'.act = "continue"
           /\ main'.res = "fail" /\ main'.ends = ends
BY DEF Finishing, MainState

LEMMA OutcomeShows ==
    ASSUME main \in MainState, NEW res \in {"ok", "fail", "unknown"},
           NEW act \in {"continue", "stop", "finalize"}, NEW ends \in Finishes,
           Outcome(res, act, ends)
    PROVE  /\ main' \in MainState /\ main'.run = main.run /\ main'.pc = "record"
           /\ main'.cur = main.cur /\ main'.todo = main.todo /\ main'.act = act
           /\ main'.res = res /\ main'.ends = ends
BY DEF Outcome, MainState

-----------------------------------------------------------------------------
\* The threads call the journal only with what its tables take: every step of theirs is one
\* of its transactions, or leaves its rows alone.
LEMMA ProtocolStep == ThreadsTyped /\ ThreadsAgree /\ [WriteNext]_vars => [JournalNext]_journal
<1> SUFFICES ASSUME ThreadsTyped, ThreadsAgree, WriteNext
             PROVE  JournalNext \/ UNCHANGED journal
    BY DEF vars, journal
<1>1. main.run # None => main.run \in Runs
    BY DEF ThreadsTyped, MainState
<1>2. main.cur # None => main.cur \in Calls
    BY DEF ThreadsTyped, MainState
<1>3. ASSUME Request \/ ModelText \/ \E calls \in SUBSET Calls : ModelCalls(calls)
      PROVE  JournalNext
    <2>1. PICK r \in Runs : main.run = r
        BY <1>1, <1>3 DEF Request, ModelText, ModelCalls, Main
    <2>2. \/ RecordModelRequest(r)
          \/ \E calls \in SUBSET Calls : RecordModelReply(r, calls)
        BY <1>3, <2>1 DEF Request, ModelText, ModelCalls
    <2> QED BY <2>2 DEF JournalNext, RunStep
<1>4. CASE Finish
    <2>1. PICK r \in Runs, state \in Finishes : main.run = r /\ main.ends = state
        BY <1>1, <1>4 DEF Finish, Main, ThreadsTyped, MainState
    <2>2. FinishRun(r, state)
        BY <1>4, <2>1 DEF Finish
    <2> QED BY <2>2 DEF JournalNext, RunStep
<1>5. ASSUME NEW c \in Calls, SkipCall(c)
      PROVE  JournalNext
    <2>1. PICK r \in Runs : main.run = r
        BY <1>1, <1>5 DEF SkipCall, Main
    <2>2. RecordToolResult(r, c, "fail")
        BY <1>5, <2>1 DEF SkipCall
    <2> QED BY <2>2 DEF JournalNext, CallStep
<1>6. ASSUME ReadStarts \/ Launch \/ Record \/ \E a \in Approvals : Ask(a)
      PROVE  JournalNext
    <2>1. PICK r \in Runs, c \in Calls : main.run = r /\ main.cur = c
        BY <1>1, <1>2, <1>6 DEF ReadStarts, Launch, Record, Ask, Main, ThreadsAgree
    <2>2. PICK kind \in {"ok", "fail", "unknown"} : main.res = kind
        BY DEF ThreadsTyped, MainState
    <2>3. \/ RecordToolStarted(r, c)
          \/ RecordToolResult(r, c, kind)
          \/ \E a \in Approvals : RecordApprovalRequired(a, r, c)
        BY <1>6, <2>1, <2>2 DEF ReadStarts, Launch, Record, Ask
    <2> QED BY <2>3 DEF JournalNext, CallStep
<1>7. ASSUME NEW r \in Runs, Intent(r) \/ Receipt(r)
      PROVE  JournalNext
    <2>1. PICK c \in Calls : worker[r].call = c
        BY <1>7 DEF Intent, Receipt, Working, ThreadsAgree
    <2>2. <<r, c>> \in Payloads
        BY WriteRunAssumption
    <2>3. RecordPublicationIntent(r, c, <<r, c>>) \/ RecordPublicationReceipt(r, c, <<r, c>>)
        BY <1>7, <2>1 DEF Intent, Receipt
    <2> QED BY <2>2, <2>3 DEF JournalNext, CallStep
<1>8. ASSUME NEW d \in {"allowed", "denied"}, Decide(d)
      PROVE  JournalNext
    BY <1>8 DEF Decide, JournalNext
<1>9. CASE Restart
    BY <1>9 DEF Restart, JournalNext
<1>10. ASSUME NEW r \in Runs, Start(r)
       PROVE  JournalNext
    BY <1>10 DEF Start, JournalNext, RunStep
<1>11. ASSUME \/ Prepare \/ LoopEnds \/ ModelEnds \/ Answer \/ BatchEnds \/ Invoke \/ ReadEnds
              \/ AskRefused \/ WaitEnds \/ TakeResult \/ GiveUp
              \/ \E c \in Calls : NextCall(c)
       PROVE  UNCHANGED journal
    BY <1>11 DEF Prepare, LoopEnds, ModelEnds, Answer, BatchEnds, Invoke, ReadEnds, AskRefused,
        WaitEnds, TakeResult, GiveUp, NextCall
<1>12. ASSUME \/ \E r \in Runs : Stage(r) \/ EnterCommit(r) \/ Link(r)
              \/ \E flag \in {"run", "tool", "approval"} : Expire(flag)
              \/ FaultStep \/ Cancel \/ External
       PROVE  UNCHANGED journal
    BY <1>12 DEF Stage, EnterCommit, Link, Expire, FaultStep, TraceFault, JournalFault,
        IntentFault, LinkFault, ReceiptFault, Cancel, External
<1> QED BY <1>3, <1>4, <1>5, <1>6, <1>7, <1>8, <1>9, <1>10, <1>11, <1>12
        DEF WriteNext, MainStep, WorkerStep, UserStep

-----------------------------------------------------------------------------
\* What the journal knows of open calls and of decisions.

\* An operation on one call leaves the open calls of the others as they were.
LEMMA OthersStand ==
    ASSUME OpenCallsStand, NEW r \in Runs, NEW c \in Calls, SameCalls(r, c),
           \A q \in Runs \ {r} : run'[q] = run[q], Unfinished(r),
           \A q \in Runs, d \in Calls : q # r \/ d # c => artifact'[q][d] = artifact[q][d],
           call'[r][c].result = 0 =>
               /\ call'[r][c].stage \in {"absent", "requested", "started", "skipped", "succeeded"}
               /\ call'[r][c].stage = "succeeded" => artifact'[r][c] # None,
           call'[r][c].stage = "unknown" => call'[r][c].rec = "WRITE_OUTCOME_UNKNOWN"
    PROVE  OpenCallsStand'
BY DEF OpenCallsStand, SameCalls, Unfinished

LEMMA OpenCallsStep ==
    ASSUME JournalInv, OpenCallsStand, [JournalNext]_journal
    PROVE  OpenCallsStand'
<1>0. JournalTypeOK /\ RowsExist
    BY DEF JournalInv
<1>1. ASSUME NEW r \in Runs, Submit(r)
      PROVE  OpenCallsStand'
    <2>1. Submitted(r)
        BY <1>0, <1>1, SubmitShows
    <2>2. \A c \in Calls : call[r][c].stage = "absent"
        BY <1>0, <2>1 DEF Submitted, RowsExist
    <2> QED BY <2>1, <2>2 DEF Submitted, OpenCallsStand, Unfinished
<1>2. ASSUME NEW r \in Runs, RecordModelRequest(r)
      PROVE  OpenCallsStand'
    <2>1. Requested(r)
        BY <1>0, <1>2, RequestShows
    <2> QED BY <2>1 DEF Requested, StaysOpen, OpenCallsStand, Unfinished
<1>3. ASSUME NEW r \in Runs, NEW calls \in SUBSET Calls, RecordModelReply(r, calls)
      PROVE  OpenCallsStand'
    <2>1. Replied(r, calls)
        BY <1>0, <1>3, ReplyShows
    <2> QED BY <2>1 DEF Replied, StaysOpen, OpenCallsStand, Unfinished
<1>4. ASSUME NEW r \in Runs, NEW state \in Finishes, FinishRun(r, state)
      PROVE  OpenCallsStand'
    <2>1. Ended(r, state)
        BY <1>0, <1>4, FinishShows
    <2> QED BY <2>1 DEF Ended, OpenCallsStand, Unfinished
<1>5. ASSUME NEW r \in Runs, NEW c \in Calls, RecordToolStarted(r, c)
      PROVE  OpenCallsStand'
    <2>1. Started(r, c)
        BY <1>0, <1>5, StartShows
    <2> QED BY <2>1, OthersStand DEF Started, StaysOpen, Unfinished
<1>6. ASSUME NEW r \in Runs, NEW c \in Calls, NEW kind \in {"ok", "fail", "unknown"},
             RecordToolResult(r, c, kind)
      PROVE  OpenCallsStand'
    <2>1. Resulted(r, c, kind)
        BY <1>0, <1>6, ResultShows
    <2> QED BY <2>1, OthersStand DEF Resulted, StaysOpen, Unfinished
<1>7. ASSUME NEW r \in Runs, NEW c \in Calls, NEW a \in Approvals,
             RecordApprovalRequired(a, r, c)
      PROVE  OpenCallsStand'
    <2>1. AskedNow(r, c)
        BY <1>0, <1>7, AskShows
    <2> QED BY <2>1 DEF AskedNow, StaysOpen, OpenCallsStand, Unfinished
<1>8. ASSUME NEW r \in Runs, NEW c \in Calls, NEW p \in Payloads,
             RecordPublicationIntent(r, c, p)
      PROVE  OpenCallsStand'
    <2>1. StaysOpen(r) /\ UNCHANGED artifact
        BY <1>0, <1>8, StaysUnfinished DEF RecordPublicationIntent, Phases
    <2>2. call'[r][c].stage = "started" /\ SameCalls(r, c)
        BY <1>0, <1>8, IntentEffect
    <2> QED BY <2>1, <2>2, OthersStand DEF StaysOpen, Unfinished
<1>9. ASSUME NEW r \in Runs, NEW c \in Calls, NEW p \in Payloads,
             RecordPublicationReceipt(r, c, p)
      PROVE  OpenCallsStand'
    <2>1. StaysOpen(r)
        BY <1>0, <1>9, StaysUnfinished DEF RecordPublicationReceipt, Phases
    <2>2. /\ call'[r][c].stage = "succeeded" /\ artifact'[r][c] = p /\ SameCalls(r, c)
          /\ \A q \in Runs, d \in Calls : q # r \/ d # c => artifact'[q][d] = artifact[q][d]
        BY <1>0, <1>9, ReceiptEffect
    <2> QED BY <2>1, <2>2, OthersStand, JournalAssumption DEF StaysOpen, Unfinished
<1>10. ASSUME NEW a \in Approvals, NEW d \in {"allowed", "denied"},
              RecordApprovalDecision(a, d)
       PROVE  OpenCallsStand'
    <2>1. PICK r \in Runs, c \in Calls : approval[a].run = r /\ approval[a].call = c
        BY <1>0, <1>10, DecisionEffect
    <2>2. Decided(r, c)
        BY <1>0, <1>10, <2>1, DecisionShows
    <2> QED BY <2>2, OthersStand DEF Decided, StaysOpen, Unfinished, SameColumns, OpenCallsStand
<1>11. CASE RecoverInterrupted
    <2>1. \A r \in Runs, c \in Calls : Recovered(r, c)
        BY <1>0, <1>11, RecoverShows
    <2> QED BY <2>1 DEF Recovered, OpenCallsStand, Unfinished, Terminal
<1>12. CASE UNCHANGED journal
    BY <1>12 DEF journal, OpenCallsStand, Unfinished
<1> QED BY <1>1, <1>2, <1>3, <1>4, <1>5, <1>6, <1>7, <1>8, <1>9, <1>10, <1>11, <1>12
        DEF JournalNext, RunStep, CallStep

\* An operation on one call that neither skips it nor revives it keeps what is known of the
\* decisions.
LEMMA OthersDecided ==
    ASSUME RowsExist, DecisionsStand, NEW r \in Runs, NEW c \in Calls, SameCalls(r, c),
           UNCHANGED approval, StaysOpen(r),
           call'[r][c].stage = "skipped" => call[r][c].stage = "skipped",
           call[r][c].stage \in {"skipped", "unknown"} => call'[r][c].stage \in {"skipped", "unknown"}
    PROVE  DecisionsStand'
<1> SUFFICES ASSUME NEW a \in Approvals, NEW q \in Runs, NEW d \in Calls
             PROVE  DecisionStands(a, q, d)'
    BY DEF DecisionsStand
<1>1. DecisionStands(a, q, d)
    BY DEF DecisionsStand
<1>2. Unfinished(q)' => Unfinished(q)
    BY DEF StaysOpen, Unfinished
<1>3. q # r \/ d # c => call'[q][d] = call[q][d]
    BY DEF SameCalls
<1> QED BY <1>1, <1>2, <1>3 DEF DecisionStands

LEMMA DecisionsStep ==
    ASSUME JournalInv, DecisionsStand, [JournalNext]_journal
    PROVE  DecisionsStand'
<1>0. JournalTypeOK /\ RowsExist /\ OneApprovalPerCall
    BY DEF JournalInv
<1>1. ASSUME NEW r \in Runs, Submit(r)
      PROVE  DecisionsStand'
    <2>1. Submitted(r)
        BY <1>0, <1>1, SubmitShows
    <2>2. \A a \in Approvals : approval[a].decision # "absent" => approval[a].run # r
        BY <1>0, <2>1 DEF Submitted, RowsExist
    <2> QED BY <1>0, <2>1, <2>2 DEF Submitted, DecisionsStand, DecisionStands, Unfinished, RowsExist
<1>2. ASSUME NEW r \in Runs, RecordModelRequest(r)
      PROVE  DecisionsStand'
    <2>1. Requested(r)
        BY <1>0, <1>2, RequestShows
    <2> QED BY <1>0, <2>1 DEF Requested, StaysOpen, DecisionsStand, DecisionStands, Unfinished,
        RowsExist
<1>3. ASSUME NEW r \in Runs, NEW calls \in SUBSET Calls, RecordModelReply(r, calls)
      PROVE  DecisionsStand'
    <2>1. Replied(r, calls)
        BY <1>0, <1>3, ReplyShows
    <2>2. ASSUME NEW q \in Runs, NEW d \in Calls, call[q][d].stage # "absent"
          PROVE  call'[q][d] = call[q][d] /\ (Unfinished(q)' => Unfinished(q))
        BY <2>1, <2>2 DEF Replied, StaysOpen, Unfinished
    <2>3. \A a \in Approvals, q \in Runs, d \in Calls :
              approval[a].run = q /\ approval[a].call = d /\ approval[a].decision # "absent" =>
                  call[q][d].stage # "absent"
        BY <1>0 DEF RowsExist
    <2> SUFFICES ASSUME NEW a \in Approvals, NEW q \in Runs, NEW d \in Calls
                 PROVE  DecisionStands(a, q, d)'
        BY DEF DecisionsStand
    <2>4. DecisionStands(a, q, d) /\ approval' = approval
        BY <2>1 DEF DecisionsStand, Replied
    <2>5. approval[a].decision \in {"absent", "pending", "allowed", "denied", "expired"}
        BY <1>0 DEF JournalTypeOK, ApprovalRow, Decisions
    <2> QED BY <2>2, <2>3, <2>4, <2>5 DEF DecisionStands
<1>4. ASSUME NEW r \in Runs, NEW state \in Finishes, FinishRun(r, state)
      PROVE  DecisionsStand'
    <2>1. Ended(r, state)
        BY <1>0, <1>4, FinishShows
    <2> QED BY <1>0, <2>1 DEF Ended, DecisionsStand, DecisionStands, Unfinished, RowsExist
<1>5. ASSUME NEW r \in Runs, NEW c \in Calls, RecordToolStarted(r, c)
      PROVE  DecisionsStand'
    <2>1. Started(r, c)
        BY <1>0, <1>5, StartShows
    <2> QED BY <1>0, <2>1, OthersDecided DEF Started
<1>6. ASSUME NEW r \in Runs, NEW c \in Calls, NEW kind \in {"ok", "fail", "unknown"},
             RecordToolResult(r, c, kind)
      PROVE  DecisionsStand'
    <2>1. Resulted(r, c, kind)
        BY <1>0, <1>6, ResultShows
    <2>2. call[r][c].stage # "unknown"
        BY <1>0, <1>6, ResultEffect
    <2> QED BY <1>0, <2>1, <2>2, OthersDecided DEF Resulted
<1>7. ASSUME NEW r \in Runs, NEW c \in Calls, NEW a \in Approvals,
             RecordApprovalRequired(a, r, c)
      PROVE  DecisionsStand'
    <2>1. AskedNow(r, c)
        BY <1>0, <1>7, AskShows
    <2>2. /\ call[r][c].stage = "requested"
          /\ approval'[a].run = r /\ approval'[a].call = c /\ approval'[a].decision = "pending"
          /\ \A b \in Approvals \ {a} : approval'[b] = approval[b]
        BY <1>0, <1>7, AskEffect
    <2> QED BY <1>0, <2>1, <2>2 DEF AskedNow, StaysOpen, DecisionsStand, DecisionStands, Unfinished,
        RowsExist
<1>8. ASSUME NEW r \in Runs, NEW c \in Calls, NEW p \in Payloads,
             RecordPublicationIntent(r, c, p)
      PROVE  DecisionsStand'
    <2>1. StaysOpen(r) /\ UNCHANGED approval
        BY <1>0, <1>8, StaysUnfinished DEF RecordPublicationIntent, Phases
    <2>2. /\ call[r][c].stage \in {"requested", "started"}
          /\ call'[r][c].stage = "started" /\ SameCalls(r, c)
        BY <1>0, <1>8, IntentEffect
    <2> QED BY <1>0, <2>1, <2>2, OthersDecided
<1>9. ASSUME NEW r \in Runs, NEW c \in Calls, NEW p \in Payloads,
             RecordPublicationReceipt(r, c, p)
      PROVE  DecisionsStand'
    <2>1. StaysOpen(r) /\ UNCHANGED approval
        BY <1>0, <1>9, StaysUnfinished DEF RecordPublicationReceipt, Phases
    <2>2. /\ call[r][c].stage = "started"
          /\ call'[r][c].stage = "succeeded" /\ SameCalls(r, c)
        BY <1>0, <1>9, ReceiptEffect
    <2> QED BY <1>0, <2>1, <2>2, OthersDecided
<1>10. ASSUME NEW a \in Approvals, NEW d \in {"allowed", "denied"},
              RecordApprovalDecision(a, d)
       PROVE  DecisionsStand'
    <2>1. PICK r \in Runs, c \in Calls : approval[a].run = r /\ approval[a].call = c
        BY <1>0, <1>10, DecisionEffect
    <2>2. Decided(r, c)
        BY <1>0, <1>10, <2>1, DecisionShows
    <2>3. /\ approval[a].decision = "pending" /\ approval'[a].decision = d
          /\ approval'[a].run = r /\ approval'[a].call = c
          /\ \A b \in Approvals \ {a} : approval'[b] = approval[b]
          /\ d = "allowed" => call'[r][c] = call[r][c]
          /\ d = "denied" => call'[r][c].stage = "skipped"
        BY <1>0, <1>10, <2>1, DecisionEffect
    <2>4. \A b \in Approvals \ {a} : ~(approval[b].run = r /\ approval[b].call = c)
        BY <1>0, <2>1, <2>3 DEF OneApprovalPerCall
    <2> SUFFICES ASSUME NEW b \in Approvals, NEW q \in Runs, NEW e \in Calls
                 PROVE  DecisionStands(b, q, e)'
        BY DEF DecisionsStand
    <2>5. DecisionStands(b, q, e)
        BY DEF DecisionsStand
    <2>6. Unfinished(q)' => Unfinished(q)
        BY <2>2 DEF Decided, StaysOpen, Unfinished
    <2>7. CASE b = a
        BY <2>1, <2>3, <2>5, <2>7 DEF DecisionStands
    <2>8. CASE b # a
        BY <2>2, <2>3, <2>4, <2>5, <2>6, <2>8 DEF DecisionStands, Decided, SameCalls
    <2> QED BY <2>7, <2>8
<1>11. CASE RecoverInterrupted
    <2> SUFFICES ASSUME NEW a \in Approvals, NEW r \in Runs, NEW c \in Calls
                 PROVE  DecisionStands(a, r, c)'
        BY DEF DecisionsStand
    <2>1. /\ approval'[a].run = approval[a].run /\ approval'[a].call = approval[a].call
          /\ IF approval[a].decision \in {"pending", "allowed"} /\ Unfinished(approval[a].run)
             THEN approval'[a].decision = "expired"
             ELSE approval'[a] = approval[a]
        BY <1>0, <1>11, RecoverEffect
    <2>2. DecisionStands(a, r, c)
        BY DEF DecisionsStand
    <2>3. CASE Unfinished(r)
        <3>1. run'[r].state = "interrupted" /\ Settles(r, c)
            BY <1>0, <1>11, <2>3, RecoverEffect
        <3>2. ~Unfinished(r)'
            BY <3>1 DEF Unfinished, Terminal
        <3>3. call[r][c].stage \in {"skipped", "unknown"} => call'[r][c].stage \in {"skipped", "unknown"}
            BY <3>1 DEF Settles
        <3> QED BY <2>1, <2>2, <2>3, <3>2, <3>3 DEF DecisionStands
    <2>4. CASE ~Unfinished(r)
        <3>1. run'[r] = run[r] /\ call'[r][c] = call[r][c]
            BY <1>0, <1>11, <2>4, RecoverEffect
        <3>2. approval[a].run = r => approval'[a] = approval[a]
            BY <2>1, <2>4
        <3> QED BY <2>1, <2>2, <3>1, <3>2 DEF DecisionStands, Unfinished
    <2> QED BY <2>3, <2>4
<1>12. CASE UNCHANGED journal
    BY <1>12 DEF journal, DecisionsStand, DecisionStands, Unfinished
<1> QED BY <1>1, <1>2, <1>3, <1>4, <1>5, <1>6, <1>7, <1>8, <1>9, <1>10, <1>11, <1>12
        DEF JournalNext, RunStep, CallStep

\* The threads keep what the journal knows.
LEMMA TablesStep ==
    TablesInv /\ ThreadsTyped /\ ThreadsAgree /\ [WriteNext]_vars => TablesInv'
BY ProtocolStep, JournalStep, OpenCallsStep, DecisionsStep DEF TablesInv

-----------------------------------------------------------------------------
\* The steps of the run thread alone, by what they do to the fields of main.

\* Nothing else moves; in the journal at most the progress of the active run does.
Quiet ==
    /\ UNCHANGED <<approval, artifact, worker, flags, exists, created>> /\ faults' \in 0..MaxFaults
    /\ \A q \in Runs, d \in Calls : call'[q][d] = call[q][d]
    /\ \A q \in Runs : run'[q] = run[q] \/ (q = main.run /\ StaysOpen(q))

EndsRun ==
    /\ main.pc \notin {"idle", "await"}
    /\ main' \in MainState /\ main'.run = main.run /\ main'.pc = "finish"
    /\ main'.cur = None /\ main'.todo = {} /\ main'.act = "continue"
    /\ main'.ends = "completed" => main.pc = "answer"

TellsOutcome ==
    LET r == main.run
        c == main.cur
    IN /\ main.pc \in {"invoke", "ask", "wait", "reading", "await"}
       /\ main' \in MainState /\ main'.run = r /\ main'.cur = c /\ main'.todo = main.todo
       /\ main'.pc = "record" /\ main'.ends # "completed"
       /\ main'.res = "ok" => artifact[r][c] # None \/ ~Asked(r, c)
       /\ main'.res = "unknown" => main'.act = "stop" /\ artifact[r][c] = None
       /\ main'.res = "fail" /\ Asked(r, c) => <<r, c>> \notin created \/ TooLate(r)
       /\ main.pc = "await" =>
              /\ ~LockHeld(r) /\ (worker[r].pc = "done" \/ TooLate(r))
              /\ main'.act # "stop" /\ <<r, c>> \in created => artifact[r][c] # None

GoesOn ==
    /\ main' \in MainState /\ main'.run = main.run /\ main'.cur = main.cur /\ main'.todo = main.todo
    /\ main.act # "stop" /\ main'.act = "continue" /\ main'.ends # "completed"
    /\ \/ main.pc = "prepare" /\ main'.pc = "loop" /\ ~UnknownTarget
       \/ main.pc = "model" /\ main'.pc \in {"loop", "answer"}
       \/ main.pc = "batch" /\ main'.pc = "loop" /\ main.todo = {}
       \/ main.pc = "invoke" /\ main'.pc = "read"
       \/ /\ main.pc = "invoke" /\ main'.pc = "ask"
          /\ \A d \in Calls : <<main.run, d>> \notin created
       \/ main.pc = "wait" /\ main'.pc = "launch"

LeavesRun == main' = Idle /\ (main.pc = "await" => worker[main.run].pc = "done")

QuietStep == Quiet /\ (EndsRun \/ TellsOutcome \/ GoesOn \/ LeavesRun)

\* The worker of run r moves; it commits the call it was started for.
WorkerMoves(r, pc, out) ==
    /\ worker' \in [Runs -> WorkerState]
    /\ worker'[r].pc = pc /\ worker'[r].out = out /\ worker'[r].call = worker[r].call
    /\ \A q \in Runs \ {r} : worker'[q] = worker[q]

LEMMA DoneShows ==
    ASSUME ThreadsTyped, NEW r \in Runs,
           NEW out \in {"ok", "fail", "unknown", "stop", "journal"}, Done(r, out)
    PROVE  WorkerMoves(r, "done", out)
<1>1. worker \in [Runs -> WorkerState] /\ worker[r] \in WorkerState
    BY DEF ThreadsTyped
<1>2. [worker[r] EXCEPT !.pc = "done", !.out = out] \in WorkerState
    BY <1>1 DEF WorkerState
<1>3. worker' = [worker EXCEPT ![r] = [worker[r] EXCEPT !.pc = "done", !.out = out]]
    BY DEF Done
<1>4. worker' \in [Runs -> WorkerState] /\ \A q \in Runs \ {r} : worker'[q] = worker[q]
    BY <1>1, <1>2, <1>3
<1>5. worker'[r] = [worker[r] EXCEPT !.pc = "done", !.out = out]
    BY <1>1, <1>3
<1>6. worker'[r].pc = "done" /\ worker'[r].out = out /\ worker'[r].call = worker[r].call
    BY <1>1, <1>5 DEF WorkerState
<1> QED BY <1>4, <1>6 DEF WorkerMoves

LEMMA EntersShows ==
    ASSUME ThreadsTyped, NEW r \in Runs, NEW pc \in {"enter", "intent", "link", "receipt"},
           worker' = [worker EXCEPT ![r].pc = pc]
    PROVE  WorkerMoves(r, pc, worker[r].out)
<1>1. worker \in [Runs -> WorkerState] /\ worker[r] \in WorkerState
    BY DEF ThreadsTyped
<1>2. [worker[r] EXCEPT !.pc = pc] \in WorkerState
    BY <1>1 DEF WorkerState
<1>3. worker' = [worker EXCEPT ![r] = [worker[r] EXCEPT !.pc = pc]]
    OBVIOUS
<1>4. worker' \in [Runs -> WorkerState] /\ \A q \in Runs \ {r} : worker'[q] = worker[q]
    BY <1>1, <1>2, <1>3
<1>5. worker'[r] = [worker[r] EXCEPT !.pc = pc]
    BY <1>1, <1>3
<1>6. worker'[r].pc = pc /\ worker'[r].out = worker[r].out /\ worker'[r].call = worker[r].call
    BY <1>1, <1>5 DEF WorkerState
<1> QED BY <1>4, <1>6 DEF WorkerMoves

\* A quiet step keeps the inductive invariant.
LEMMA QuietKeeps == WriteInv /\ TablesInv' /\ QuietStep => WriteInv'
<1> SUFFICES ASSUME OutcomeIsTrue, ThreadsTyped, ThreadsAgree, BatchIsOpen, TurnsAreKept,
                    SuccessIsBacked, WorkerIsAwaited, OrphansAreLate, GoesOnClean, TargetIsKnown,
                    CreatedIsIntended, FilesAreAccountedFor, OneOutputPerRun,
                    CompletedMeansSettled, TablesInv, JournalInv, TablesInv', JournalInv', QuietStep
             PROVE  WriteInv'
    BY DEF WriteInv, TablesInv
<1>a. Quiet
    BY DEF QuietStep
<1>1. ASSUME EndsRun
      PROVE  WriteInv'
    <2>1. main.run \in Runs
        BY <1>1 DEF EndsRun, ThreadsTyped, ThreadsAgree, MainState
    <2>2. OutcomeIsTrue' BY <1>1, <2>1, <1>a DEF OutcomeIsTrue, Quiet, EndsRun
    <2>3. ThreadsTyped' BY <1>1, <2>1, <1>a DEF ThreadsTyped, Quiet, EndsRun
    <2>4. ThreadsAgree' BY <1>1, <2>1, <1>a, JournalAssumption DEF ThreadsAgree, Quiet, EndsRun
    <2>5. BatchIsOpen'
        BY <1>1, <2>1, <1>a, JournalAssumption DEF BatchIsOpen, Unfinished, Open, Terminal, Quiet,
            EndsRun, StaysOpen
    <2>6. TurnsAreKept' BY <1>1, <2>1, <1>a, JournalAssumption DEF TurnsAreKept, Quiet, EndsRun
    <2>7. SuccessIsBacked'
        BY <1>1, <2>1, <1>a, JournalAssumption DEF SuccessIsBacked, Quiet, EndsRun
    <2>8. WorkerIsAwaited' BY <1>1, <2>1, <1>a DEF WorkerIsAwaited, Quiet, EndsRun
    <2>9. OrphansAreLate'
        BY <1>1, <2>1, <1>a DEF OrphansAreLate, LockHeld, Awaits, TooLate, Quiet, EndsRun,
            StaysOpen, Terminal
    <2>10. GoesOnClean'
        BY <1>1, <2>1, <1>a, JournalAssumption DEF GoesOnClean, Quiet, EndsRun, StaysOpen, Terminal,
            ThreadsTyped, ThreadsAgree
    <2>11. TargetIsKnown' BY <1>1, <2>1, <1>a DEF TargetIsKnown, Quiet, EndsRun
    <2>12. CreatedIsIntended' BY <1>1, <2>1, <1>a DEF CreatedIsIntended, Quiet, EndsRun
    <2>13. FilesAreAccountedFor'
        BY <1>1, <2>1, <1>a DEF FilesAreAccountedFor, ConfirmedIsReal, CrashIsClassified, Quiet,
            EndsRun, StaysOpen, Terminal
    <2>14. OneOutputPerRun' BY <1>1, <2>1, <1>a DEF OneOutputPerRun, Quiet, EndsRun
    <2>15. CompletedMeansSettled'
        BY <1>1, <2>1, <1>a DEF CompletedMeansSettled, Open, Quiet, EndsRun, StaysOpen, Terminal
    <2> QED BY <2>2, <2>3, <2>4, <2>5, <2>6, <2>7, <2>8, <2>9, <2>10, <2>11, <2>12, <2>13, <2>14,
        <2>15 DEF WriteInv
<1>2. ASSUME TellsOutcome
      PROVE  WriteInv'
    <2>1. main.run \in Runs
        BY <1>2 DEF TellsOutcome, ThreadsTyped, ThreadsAgree, MainState
    <2>2. OutcomeIsTrue'
        BY <1>2, <2>1, <1>a DEF OutcomeIsTrue, Asked, TooLate, Quiet, TellsOutcome, StaysOpen,
            LockHeld, Terminal
    <2>3. ThreadsTyped' BY <1>2, <2>1, <1>a DEF ThreadsTyped, Quiet, TellsOutcome
    <2>4. ThreadsAgree' BY <1>2, <2>1, <1>a, JournalAssumption DEF ThreadsAgree, Quiet, TellsOutcome
    <2>5. BatchIsOpen'
        BY <1>2, <2>1, <1>a, JournalAssumption DEF BatchIsOpen, Unfinished, Open, Terminal, Quiet,
            TellsOutcome, StaysOpen, Asked, LockHeld, TooLate
    <2>6. TurnsAreKept'
        <3>1. SUFFICES ASSUME NEW d \in main.todo,
                              d # main.cur \/ main'.pc \in {"invoke", "read", "ask"}
                       PROVE  call'[main.run][d].stage = "requested" /\ ~Asked(main.run, d)'
            BY <1>2 DEF TellsOutcome, TurnsAreKept, Asked
        <3>2. d \in Calls
            BY DEF ThreadsTyped, MainState
        <3>3. call[main.run][d].stage = "requested" /\ ~Asked(main.run, d)
            BY <1>2, <3>1 DEF TurnsAreKept, TellsOutcome
        <3>4. main'.run = main.run
            BY <1>2 DEF TellsOutcome
        <3> QED BY <1>a, <2>1, <3>2, <3>3, <3>4 DEF Quiet, Asked
    <2>7. SuccessIsBacked'
        BY <1>2, <2>1, <1>a, JournalAssumption DEF SuccessIsBacked, Asked, Quiet, TellsOutcome,
            StaysOpen, LockHeld, TooLate, Terminal
    <2>8. WorkerIsAwaited' BY <1>2, <2>1, <1>a DEF WorkerIsAwaited, Quiet, TellsOutcome
    <2>9. OrphansAreLate'
        BY <1>2, <2>1, <1>a DEF OrphansAreLate, LockHeld, Awaits, TooLate, Quiet, TellsOutcome,
            StaysOpen, Asked, Terminal
    <2>10. GoesOnClean'
        BY <1>2, <2>1, <1>a, JournalAssumption DEF GoesOnClean, Quiet, TellsOutcome, StaysOpen,
            Asked, LockHeld, TooLate, Terminal, ThreadsTyped, ThreadsAgree
    <2>11. TargetIsKnown'
        BY <1>2, <2>1, <1>a DEF TargetIsKnown, UnknownTarget, Quiet, TellsOutcome, StaysOpen, Asked,
            LockHeld, TooLate, Terminal, ThreadsTyped, ThreadsAgree
    <2>12. CreatedIsIntended' BY <1>2, <2>1, <1>a DEF CreatedIsIntended, Quiet, TellsOutcome
    <2>13. FilesAreAccountedFor'
        BY <1>2, <2>1, <1>a DEF FilesAreAccountedFor, ConfirmedIsReal, CrashIsClassified, Quiet,
            TellsOutcome, StaysOpen, Asked, LockHeld, TooLate, Terminal
    <2>14. OneOutputPerRun' BY <1>2, <2>1, <1>a DEF OneOutputPerRun, Quiet, TellsOutcome
    <2>15. CompletedMeansSettled'
        BY <1>2, <2>1, <1>a DEF CompletedMeansSettled, Open, Quiet, TellsOutcome, StaysOpen, Asked,
            LockHeld, TooLate, Terminal
    <2> QED BY <2>2, <2>3, <2>4, <2>5, <2>6, <2>7, <2>8, <2>9, <2>10, <2>11, <2>12, <2>13, <2>14,
        <2>15 DEF WriteInv
<1>3. ASSUME GoesOn
      PROVE  WriteInv'
    <2>1. main.run \in Runs
        BY <1>3 DEF GoesOn, ThreadsTyped, ThreadsAgree, MainState
    <2>2. OutcomeIsTrue' BY <1>3, <2>1, <1>a DEF OutcomeIsTrue, Quiet, GoesOn
    <2>3. ThreadsTyped' BY <1>3, <2>1, <1>a DEF ThreadsTyped, Quiet, GoesOn
    <2>4. ThreadsAgree' BY <1>3, <2>1, <1>a, JournalAssumption DEF ThreadsAgree, Quiet, GoesOn
    <2>5. BatchIsOpen'
        BY <1>3, <2>1, <1>a, JournalAssumption DEF BatchIsOpen, Unfinished, Open, Terminal, Quiet,
            GoesOn, StaysOpen, UnknownTarget
    <2>6. TurnsAreKept'
        <3>1. SUFFICES ASSUME NEW d \in main.todo,
                              d # main.cur \/ main'.pc \in {"invoke", "read", "ask"}
                       PROVE  call'[main.run][d].stage = "requested" /\ ~Asked(main.run, d)'
            BY <1>3 DEF GoesOn, TurnsAreKept, Asked
        <3>2. d \in Calls
            BY DEF ThreadsTyped, MainState
        <3>3. call[main.run][d].stage = "requested" /\ ~Asked(main.run, d)
            BY <1>3, <3>1 DEF TurnsAreKept, GoesOn
        <3>4. main'.run = main.run
            BY <1>3 DEF GoesOn
        <3> QED BY <1>a, <2>1, <3>2, <3>3, <3>4 DEF Quiet, Asked
    <2>7. SuccessIsBacked' BY <1>3, <2>1, <1>a, JournalAssumption DEF SuccessIsBacked, Quiet, GoesOn
    <2>8. WorkerIsAwaited' BY <1>3, <2>1, <1>a DEF WorkerIsAwaited, Quiet, GoesOn
    <2>9. OrphansAreLate'
        BY <1>3, <2>1, <1>a DEF OrphansAreLate, LockHeld, Awaits, TooLate, Quiet, GoesOn, StaysOpen,
            UnknownTarget, Terminal
    <2>10. GoesOnClean' BY <1>3, <2>1, <1>a, JournalAssumption DEF GoesOnClean, Quiet, GoesOn
    <2>11. TargetIsKnown'
        BY <1>3, <2>1, <1>a DEF TargetIsKnown, UnknownTarget, Quiet, GoesOn, StaysOpen, Terminal
    <2>12. CreatedIsIntended' BY <1>3, <2>1, <1>a DEF CreatedIsIntended, Quiet, GoesOn
    <2>13. FilesAreAccountedFor'
        BY <1>3, <2>1, <1>a DEF FilesAreAccountedFor, ConfirmedIsReal, CrashIsClassified, Quiet,
            GoesOn, StaysOpen, UnknownTarget, Terminal
    <2>14. OneOutputPerRun' BY <1>3, <2>1, <1>a DEF OneOutputPerRun, Quiet, GoesOn
    <2>15. CompletedMeansSettled'
        BY <1>3, <2>1, <1>a DEF CompletedMeansSettled, Open, Quiet, GoesOn, StaysOpen,
            UnknownTarget, Terminal
    <2> QED BY <2>2, <2>3, <2>4, <2>5, <2>6, <2>7, <2>8, <2>9, <2>10, <2>11, <2>12, <2>13, <2>14,
        <2>15 DEF WriteInv
<1>4. ASSUME LeavesRun
      PROVE  WriteInv'
    <2>1. OutcomeIsTrue'
        BY <1>4, <1>a DEF OutcomeIsTrue, Asked, TooLate, Quiet, LeavesRun, StaysOpen, Idle, Terminal
    <2>2. ThreadsTyped' BY <1>4, <1>a, NothingActive DEF ThreadsTyped, Quiet, LeavesRun
    <2>3. ThreadsAgree'
        BY <1>4, <1>a, JournalAssumption DEF ThreadsAgree, Quiet, LeavesRun, StaysOpen, Idle,
            Terminal
    <2>4. BatchIsOpen'
        BY <1>4, <1>a, JournalAssumption DEF BatchIsOpen, Unfinished, Open, Terminal, Quiet,
            LeavesRun, StaysOpen, Idle
    <2>5. TurnsAreKept'
        BY <1>4, <1>a, JournalAssumption DEF TurnsAreKept, Asked, Quiet, LeavesRun, StaysOpen, Idle,
            Terminal
    <2>6. SuccessIsBacked'
        BY <1>4, <1>a, JournalAssumption DEF SuccessIsBacked, Asked, Quiet, LeavesRun, StaysOpen,
            Idle, Terminal
    <2>7. WorkerIsAwaited'
        BY <1>4, <1>a DEF WorkerIsAwaited, journal, Quiet, LeavesRun, StaysOpen, Idle, Terminal
    <2>8. OrphansAreLate'
        BY <1>4, <1>a DEF OrphansAreLate, LockHeld, Awaits, TooLate, Quiet, LeavesRun, StaysOpen,
            Idle, Terminal
    <2>9. GoesOnClean'
        BY <1>4, <1>a, JournalAssumption DEF GoesOnClean, Quiet, LeavesRun, StaysOpen, Idle,
            Terminal
    <2>10. TargetIsKnown'
        BY <1>4, <1>a DEF TargetIsKnown, UnknownTarget, Quiet, LeavesRun, StaysOpen, Idle, Terminal
    <2>11. CreatedIsIntended' BY <1>4, <1>a DEF CreatedIsIntended, Quiet, LeavesRun
    <2>12. FilesAreAccountedFor'
        BY <1>4, <1>a DEF FilesAreAccountedFor, ConfirmedIsReal, CrashIsClassified, Quiet,
            LeavesRun, StaysOpen, Idle, Terminal
    <2>13. OneOutputPerRun' BY <1>4, <1>a DEF OneOutputPerRun, Quiet, LeavesRun
    <2>14. CompletedMeansSettled'
        BY <1>4, <1>a DEF CompletedMeansSettled, Open, Quiet, LeavesRun, StaysOpen, Idle, Terminal
    <2> QED BY <2>1, <2>2, <2>3, <2>4, <2>5, <2>6, <2>7, <2>8, <2>9, <2>10, <2>11, <2>12, <2>13,
        <2>14 DEF WriteInv
<1> QED BY <1>1, <1>2, <1>3, <1>4 DEF QuietStep

LEMMA EndShows ==
    ASSUME ThreadsTyped, main.pc \notin {"idle", "await"}, NEW ends \in Finishes,
           NEW escape \in BOOLEAN, Finishing(ends, escape), ends = "completed" => main.pc = "answer"
    PROVE  EndsRun
BY FinishingShows DEF EndsRun, ThreadsTyped

\* StopState is a state finish_run knows, and never the one of a run that succeeded.
LEMMA StopShows == \A r \in Runs : StopState(r) \in Finishes \ {"completed"}
BY DEF StopState, Finishes

\* The alternatives of these actions are the four forms of a quiet step.
LEMMA QuietActions ==
    ASSUME WriteInv,
           \/ Prepare \/ LoopEnds \/ ModelEnds \/ ModelText \/ Answer \/ BatchEnds \/ Invoke
           \/ ReadEnds \/ AskRefused \/ WaitEnds \/ TakeResult \/ GiveUp \/ TraceFault
           \/ JournalFault
    PROVE  QuietStep
<1>1. /\ JournalTypeOK /\ ThreadsTyped /\ ThreadsAgree /\ BatchIsOpen /\ SuccessIsBacked
      /\ WorkerIsAwaited /\ OrphansAreLate /\ GoesOnClean /\ TurnsAreKept /\ JournalInv
    BY DEF WriteInv, TablesInv, JournalInv
<1>2. main \in MainState /\ faults \in 0..MaxFaults
    BY <1>1 DEF ThreadsTyped
<1>3. main.run # None => main.run \in Runs
    BY <1>2 DEF MainState
<1>4. main.cur # None => main.cur \in Calls
    BY <1>2 DEF MainState
<1>5. ASSUME UNCHANGED <<journal, worker, flags, exists, created>>, faults' \in 0..MaxFaults
      PROVE  Quiet
    BY <1>5 DEF Quiet, journal
<1>6. \A s \in {"unable", "max_steps", "failed", "timed_out", "validation_failed", "completed"} :
          s \in Finishes
    BY DEF Finishes
<1>7. ASSUME NEW ends \in Finishes, NEW escape \in BOOLEAN, Finishing(ends, escape),
             main.pc \notin {"idle", "await"}, ends = "completed" => main.pc = "answer", Quiet
      PROVE  QuietStep
    BY <1>1, <1>7, EndShows DEF QuietStep
<1>8. ASSUME NEW res \in {"ok", "fail", "unknown"}, NEW act \in {"continue", "stop", "finalize"},
             NEW ends \in Finishes \ {"completed"}, Outcome(res, act, ends), Quiet,
             main.pc \in {"invoke", "ask", "wait", "reading", "await"},
             res = "ok" =>
                 artifact[main.run][main.cur] # None \/ ~Asked(main.run, main.cur),
             res = "unknown" => act = "stop" /\ artifact[main.run][main.cur] = None,
             res = "fail" /\ Asked(main.run, main.cur) =>
                 <<main.run, main.cur>> \notin created \/ TooLate(main.run),
             main.pc = "await" =>
                 /\ ~LockHeld(main.run) /\ (worker[main.run].pc = "done" \/ TooLate(main.run))
                 /\ act # "stop" /\ <<main.run, main.cur>> \in created =>
                        artifact[main.run][main.cur] # None
      PROVE  QuietStep
    BY <1>2, <1>8, OutcomeShows DEF QuietStep, TellsOutcome
<1>a. ASSUME NEW r \in Runs, NEW c \in Calls, main.run = r, main.cur = c, main.pc \in {"invoke", "ask"}
      PROVE  ~Asked(r, c)
    BY <1>a, <1>1, JournalAssumption DEF TurnsAreKept, BatchIsOpen
<1>9. CASE Prepare
    <2>1. Quiet
        BY <1>2, <1>5, <1>9 DEF Prepare
    <2>2. CASE Finishing("failed", FALSE)
        BY <1>6, <1>7, <1>9, <2>1, <2>2 DEF Prepare, Main
    <2>3. CASE ~UnknownTarget /\ main' = [main EXCEPT !.pc = "loop"]
        BY <1>1, <1>2, <1>9, <2>1, <2>3 DEF Prepare, Main, MainState, QuietStep, GoesOn,
            ThreadsAgree
    <2> QED BY <1>9, <2>2, <2>3 DEF Prepare
<1>10. CASE LoopEnds
    <2>1. Quiet
        BY <1>2, <1>5, <1>10 DEF LoopEnds
    <2>2. PICK ends \in Finishes \ {"completed"}, escape \in BOOLEAN : Finishing(ends, escape)
        BY <1>3, <1>6, <1>10, StopShows DEF LoopEnds, Main
    <2> QED BY <1>7, <1>10, <2>1, <2>2 DEF LoopEnds, Main
<1>11. CASE ModelEnds
    <2>1. Quiet
        BY <1>2, <1>5, <1>11 DEF ModelEnds
    <2>2. PICK ends \in Finishes \ {"completed"}, escape \in BOOLEAN : Finishing(ends, escape)
        BY <1>3, <1>6, <1>11, StopShows DEF ModelEnds, Main
    <2> QED BY <1>7, <1>11, <2>1, <2>2 DEF ModelEnds, Main
<1>12. CASE ModelText
    <2>1. PICK r \in Runs : main.run = r
        BY <1>3, <1>12 DEF ModelText, Main
    <2>2. Replied(r, {})
        BY <1>1, <1>12, <2>1, ReplyShows DEF ModelText
    <2>3. Quiet
        BY <1>2, <1>12, <2>1, <2>2 DEF Quiet, ModelText, Replied, StaysOpen
    <2>4. CASE main' = [main EXCEPT !.pc = "loop", !.repaired = TRUE]
        BY <1>1, <1>2, <1>12, <2>3, <2>4
        DEF ModelText, Main, MainState, QuietStep, GoesOn, ThreadsAgree
    <2>5. CASE main' = [main EXCEPT !.pc = "answer"]
        BY <1>1, <1>2, <1>12, <2>3, <2>5
        DEF ModelText, Main, MainState, QuietStep, GoesOn, ThreadsAgree
    <2>6. CASE \E ends \in Finishes \ {"completed"} : Finishing(ends, FALSE)
        BY <1>7, <1>12, <2>3, <2>6 DEF ModelText, Main
    <2>7. "unable" \in Finishes \ {"completed"} /\ "validation_failed" \in Finishes \ {"completed"}
          /\ "failed" \in Finishes \ {"completed"}
        BY <1>6
    <2> QED BY <1>12, <2>4, <2>5, <2>6, <2>7 DEF ModelText
<1>13. CASE Answer
    <2>1. Quiet
        BY <1>2, <1>5, <1>13 DEF Answer
    <2>2. PICK ends \in Finishes, escape \in BOOLEAN : Finishing(ends, escape)
        BY <1>3, <1>6, <1>13, StopShows DEF Answer, Main
    <2> QED BY <1>7, <1>13, <2>1, <2>2 DEF Answer, Main
<1>14. CASE BatchEnds
    <2>1. Quiet
        BY <1>2, <1>5, <1>14 DEF BatchEnds
    <2>2. CASE main.act = "stop"
        BY <1>1, <1>2, <1>7, <1>14, <2>1, <2>2 DEF BatchEnds, Main, ThreadsAgree, MainState
    <2>3. CASE main.act # "stop"
        <3>1. main' = [main EXCEPT !.pc = "loop", !.act = "continue", !.ends = "failed",
                                   !.final = main.final \/ main.act = "finalize"]
            BY <1>14, <2>3 DEF BatchEnds
        <3>2. /\ main' \in MainState /\ main'.run = main.run /\ main'.cur = main.cur
              /\ main'.todo = main.todo /\ main'.act = "continue" /\ main'.ends = "failed"
              /\ main'.pc = "loop"
            BY <1>2, <1>6, <3>1 DEF MainState
        <3> QED BY <1>14, <2>1, <2>3, <3>2 DEF BatchEnds, Main, QuietStep, GoesOn
    <2> QED BY <2>2, <2>3
<1>15. CASE Invoke
    <2>1. Quiet
        BY <1>2, <1>5, <1>15 DEF Invoke
    <2>2. PICK r \in Runs : main.run = r
        BY <1>3, <1>15 DEF Invoke, Main
    <2>3. PICK c \in Calls : main.cur = c
        BY <1>1, <1>4, <1>15, JournalAssumption DEF Invoke, Main, ThreadsAgree
    <2>4. ~Asked(r, c)
        BY <1>a, <1>15, <2>2, <2>3 DEF Invoke, Main
    <2>5. CASE \E act \in {"continue", "stop"}, ends \in Finishes \ {"completed"} :
                   Outcome("fail", act, ends)
        BY <1>8, <1>15, <2>1, <2>2, <2>5, <2>3, <2>4 DEF Invoke, Main
    <2>6. CASE main' = [main EXCEPT !.pc = "read"]
        BY <1>1, <1>2, <1>15, <2>1, <2>6
        DEF Invoke, Main, MainState, QuietStep, GoesOn, ThreadsAgree
    <2>7. CASE ~HasOutput(r) /\ main' = [main EXCEPT !.pc = "ask"]
        <3>1. \A d \in Calls : <<r, d>> \notin created
            BY <1>1, <1>15, <2>2, <2>7, JournalAssumption
            DEF Invoke, Main, HasOutput, GoesOnClean, ThreadsAgree
        <3> QED BY <1>1, <1>2, <1>15, <2>1, <2>2, <2>7, <3>1
                DEF Invoke, Main, MainState, QuietStep, GoesOn, ThreadsAgree
    <2> QED BY <1>6, <1>15, <2>2, <2>5, <2>6, <2>7, StopShows DEF Invoke
<1>16. CASE ReadEnds
    <2>1. Quiet
        BY <1>2, <1>5, <1>16 DEF ReadEnds
    <2>2. PICK r \in Runs, c \in Calls : main.run = r /\ main.cur = c
        BY <1>1, <1>3, <1>4, <1>16, JournalAssumption DEF ReadEnds, Main, ThreadsAgree
    <2>3. PICK res \in {"ok", "fail"}, act \in {"continue", "stop"},
               ends \in Finishes \ {"completed"} : Outcome(res, act, ends)
        BY <1>6, <1>16, <2>2, StopShows DEF ReadEnds
    <2>4. ~Asked(r, c)
        BY <1>1, <1>16, <2>2 DEF ReadEnds, Main, SuccessIsBacked
    <2> QED BY <1>8, <1>16, <2>1, <2>2, <2>3, <2>4 DEF ReadEnds, Main
<1>17. CASE AskRefused
    <2>1. Quiet
        BY <1>2, <1>5, <1>17 DEF AskRefused
    <2>2. PICK ends \in Finishes \ {"completed"} : Outcome("fail", "stop", ends)
        BY <1>3, <1>17, StopShows DEF AskRefused, Main
    <2>3. PICK r \in Runs, c \in Calls : main.run = r /\ main.cur = c
        BY <1>1, <1>3, <1>4, <1>17, JournalAssumption DEF AskRefused, Main, ThreadsAgree
    <2>4. ~Asked(r, c)
        BY <1>a, <1>17, <2>3 DEF AskRefused, Main
    <2> QED BY <1>8, <1>17, <2>1, <2>2, <2>3, <2>4 DEF AskRefused, Main
<1>18. CASE WaitEnds
    <2>1. Quiet
        BY <1>2, <1>5, <1>18 DEF WaitEnds
    <2>2. CASE main' = [main EXCEPT !.pc = "launch"]
        BY <1>1, <1>2, <1>18, <2>1, <2>2
        DEF WaitEnds, Main, MainState, QuietStep, GoesOn, ThreadsAgree
    <2>3. CASE \E act \in {"stop", "finalize"}, ends \in Finishes \ {"completed"} :
                   Outcome("fail", act, ends)
        <3>1. PICK r \in Runs, c \in Calls : main.run = r /\ main.cur = c
            BY <1>1, <1>3, <1>4, <1>18, JournalAssumption DEF WaitEnds, Main, ThreadsAgree
        <3>2. <<r, c>> \notin created
            BY <1>1, <1>18, <3>1 DEF WaitEnds, Main, GoesOnClean
        <3> QED BY <1>8, <1>18, <2>1, <2>3, <3>1, <3>2 DEF WaitEnds, Main
    <2> QED BY <1>3, <1>6, <1>18, <2>2, <2>3, StopShows DEF WaitEnds, Main
<1>19. CASE TakeResult
    <2>1. Quiet
        BY <1>2, <1>5, <1>19 DEF TakeResult
    <2>2. PICK r \in Runs, c \in Calls : main.run = r /\ main.cur = c
        BY <1>1, <1>3, <1>4, <1>19, JournalAssumption DEF TakeResult, Main, ThreadsAgree
    <2>3. /\ main.pc = "await" /\ worker[r].pc = "done" /\ ~LockHeld(r)
          /\ worker[r].out \in {"none", "ok", "fail", "unknown", "stop", "journal"}
        BY <1>1, <1>19, <2>2 DEF TakeResult, Main, LockHeld, ThreadsTyped, WorkerState
    <2>4. /\ worker[r].out = "ok" => artifact[r][c] # None
          /\ worker[r].out = "fail" => <<r, c>> \notin created
          /\ worker[r].out # "ok" => artifact[r][c] = None
        BY <1>1, <2>2, <2>3, StoredRows, JournalAssumption DEF WorkerIsAwaited
    <2>5. CASE worker[r].out = "ok"
        <3>1. Outcome("ok", "continue", "failed")
            BY <1>19, <2>2, <2>5 DEF TakeResult
        <3> QED BY <1>6, <1>8, <2>1, <2>2, <2>3, <2>4, <2>5, <3>1
    <2>6. CASE worker[r].out = "unknown"
        <3>1. Outcome("unknown", "stop", "failed")
            BY <1>19, <2>2, <2>6 DEF TakeResult
        <3> QED BY <1>6, <1>8, <2>1, <2>2, <2>3, <2>4, <2>6, <3>1
    <2>7. CASE worker[r].out = "fail"
        <3>1. PICK act \in {"continue", "stop"} : Outcome("fail", act, "failed")
            BY <1>19, <2>2, <2>7 DEF TakeResult
        <3> QED BY <1>6, <1>8, <2>1, <2>2, <2>3, <2>4, <2>7, <3>1
    <2>8. CASE worker[r].out = "journal"
        <3>1. main' = Idle
            BY <1>19, <2>2, <2>8 DEF TakeResult
        <3> QED BY <2>1, <2>2, <2>3, <3>1 DEF QuietStep, LeavesRun
    <2>9. worker[r].out \notin {"none", "stop"}
        BY <1>1, <1>19, <2>2, <2>3 DEF TakeResult, ThreadsAgree, OrphansAreLate
    <2> QED BY <2>3, <2>5, <2>6, <2>7, <2>8, <2>9
<1>20. CASE GiveUp
    <2>1. Quiet
        BY <1>2, <1>5, <1>20 DEF GiveUp
    <2>2. PICK r \in Runs, c \in Calls : main.run = r /\ main.cur = c
        BY <1>1, <1>3, <1>4, <1>20, JournalAssumption DEF GiveUp, Main, ThreadsAgree
    <2>3. /\ main.pc = "await" /\ TooLate(r) /\ ~LockHeld(r)
          /\ worker[r].out = "ok" => artifact[r][c] # None
        BY <1>1, <1>20, <2>2 DEF GiveUp, Main, WorkerIsAwaited
    <2>4. Outcome(IF worker[r].out = "ok" THEN "ok" ELSE "fail", "stop", StopState(r))
        BY <1>20, <2>2 DEF GiveUp
    <2>5. CASE worker[r].out = "ok"
        <3>1. Outcome("ok", "stop", StopState(r))
            BY <2>4, <2>5
        <3> QED BY <1>8, <2>1, <2>2, <2>3, <2>5, <3>1, StopShows
    <2>6. CASE worker[r].out # "ok"
        <3>1. Outcome("fail", "stop", StopState(r))
            BY <2>4, <2>6
        <3> QED BY <1>8, <2>1, <2>2, <2>3, <3>1, StopShows
    <2> QED BY <2>5, <2>6
<1>21. TraceFault \/ JournalFault => faults' \in 0..MaxFaults /\ Quiet
    <2>1. SUFFICES ASSUME TraceFault \/ JournalFault
                   PROVE  faults' \in 0..MaxFaults /\ Quiet
        OBVIOUS
    <2>2. faults < MaxFaults /\ faults' = faults + 1
        BY <2>1 DEF TraceFault, JournalFault, Fault
    <2>3. faults' \in 0..MaxFaults
        BY <1>2, <2>2, WriteRunAssumption
    <2> QED BY <1>5, <2>1, <2>3 DEF TraceFault, JournalFault
<1>22. CASE TraceFault
    BY <1>6, <1>7, <1>21, <1>22 DEF TraceFault, Main
<1>23. CASE JournalFault
    <2>1. CASE main' = Idle /\ main.pc # "await"
        BY <1>21, <1>23, <2>1 DEF QuietStep, LeavesRun
    <2>2. CASE main.pc = "finish" /\ Finishing("failed", FALSE)
        BY <1>6, <1>7, <1>21, <1>23, <2>2
    <2> QED BY <1>23, <2>1, <2>2 DEF JournalFault
<1> QED BY <1>9, <1>10, <1>11, <1>12, <1>13, <1>14, <1>15, <1>16, <1>17, <1>18, <1>19, <1>20,
           <1>22, <1>23

\* Every step keeps the inductive invariant.
LEMMA WriteStep == WriteInv /\ [WriteNext]_vars => WriteInv'
<1> SUFFICES ASSUME WriteInv, TablesInv, JournalInv, OutcomeIsTrue, ThreadsTyped, ThreadsAgree,
                    BatchIsOpen, TurnsAreKept,
                    SuccessIsBacked, WorkerIsAwaited, OrphansAreLate, GoesOnClean, TargetIsKnown,
                    CreatedIsIntended, FilesAreAccountedFor, OneOutputPerRun,
                    CompletedMeansSettled, [WriteNext]_vars
             PROVE  WriteInv'
    BY DEF WriteInv, TablesInv
<1>a. JournalTypeOK /\ RowsExist
    BY DEF JournalInv
<1>b. TablesInv' /\ JournalInv'
    BY TablesStep DEF TablesInv
<1>1. ASSUME \/ Prepare \/ LoopEnds \/ ModelEnds \/ ModelText \/ Answer \/ BatchEnds \/ Invoke
             \/ ReadEnds \/ AskRefused \/ WaitEnds \/ TakeResult \/ GiveUp \/ TraceFault
             \/ JournalFault
      PROVE  WriteInv'
    BY <1>1, <1>b, QuietActions, QuietKeeps
<1>2. ASSUME Request
      PROVE  WriteInv'
    <2>1. PICK r \in Runs : main.run = r
        BY <1>2 DEF Request, Main, ThreadsTyped, MainState
    <2>2. Requested(r)
        BY <1>2, <1>a, <2>1, RequestShows DEF Request
    <2>3. /\ main' \in MainState
          /\ main'.pc = "model"
          /\ main'.run = main.run
          /\ main'.cur = main.cur
          /\ main'.todo = main.todo
          /\ main'.act = main.act /\ main'.res = main.res /\ main'.ends = main.ends
        BY <1>2 DEF Request, MainState, ThreadsTyped, Finishes
    <2>4. OutcomeIsTrue'
        BY <1>2, <2>1, <2>2, <2>3, StoredRows DEF OutcomeIsTrue, Request, Requested, StaysOpen
    <2>5. ThreadsTyped'
        BY <1>2, <2>1, <2>2, <2>3 DEF ThreadsTyped, MainState, WorkerState, Finishes, journal,
            Request, Requested, StaysOpen
    <2>6. ThreadsAgree'
        BY <1>2, <2>1, <2>2, <2>3 DEF ThreadsAgree, Request, Requested, StaysOpen, Main, Stopped
    <2>7. BatchIsOpen'
        BY <1>2, <2>1, <2>2, <2>3, StoredRows DEF BatchIsOpen, Unfinished, Open, Request, Requested,
            StaysOpen, Main
    <2>8. TurnsAreKept'
        BY <1>2, <2>1, <2>2, <2>3, StoredRows DEF TurnsAreKept, Asked, Request, Requested,
            StaysOpen, Main
    <2>9. SuccessIsBacked'
        BY <1>2, <2>1, <2>2, <2>3, StoredRows DEF SuccessIsBacked, Request, Requested, StaysOpen
    <2>10. WorkerIsAwaited'
        BY <1>2, <2>1, <2>2, <2>3, StoredRows DEF WorkerIsAwaited, Request, Requested, StaysOpen
    <2>11. OrphansAreLate'
        BY <1>2, <2>1, <2>2, <2>3 DEF OrphansAreLate, LockHeld, Awaits, TooLate, Request, Requested,
            StaysOpen, Main, Stopped
    <2>12. GoesOnClean'
        BY <1>2, <2>1, <2>2, <2>3, StoredRows DEF GoesOnClean, Request, Requested, StaysOpen, Main,
            Stopped
    <2>13. TargetIsKnown'
        BY <1>2, <2>1, <2>2, <2>3, StoredRows DEF TargetIsKnown, UnknownTarget, Request, Requested,
            StaysOpen, Main
    <2>14. CreatedIsIntended'
        BY <1>2, <2>1, <2>2, <2>3, <1>b, StoredRows DEF CreatedIsIntended, Request, Requested,
            StaysOpen
    <2>15. FilesAreAccountedFor'
        BY <1>2, <2>1, <2>2, <2>3, <1>b, StoredRows DEF FilesAreAccountedFor, ConfirmedIsReal,
            CrashIsClassified, Request, Requested, StaysOpen, Main, Terminal
    <2>16. OneOutputPerRun'
        BY <1>2, <2>1, <2>2, <2>3, StoredRows DEF OneOutputPerRun, Request, Requested, StaysOpen
    <2>17. CompletedMeansSettled'
        BY <1>2, <2>1, <2>2, <2>3, <1>b, StoredRows DEF CompletedMeansSettled, Open, Request,
            Requested, StaysOpen, Main, Stopped, Terminal
    <2> QED BY <2>4, <2>5, <2>6, <2>7, <2>8, <2>9, <2>10, <2>11, <2>12, <2>13, <2>14, <2>15, <2>16,
        <2>17, <1>b DEF WriteInv
<1>3. ASSUME NEW calls \in SUBSET Calls, ModelCalls(calls)
      PROVE  WriteInv'
    <2>1. PICK r \in Runs : main.run = r
        BY <1>3 DEF ModelCalls, Main, ThreadsTyped, MainState
    <2>2. Replied(r, calls)
        BY <1>3, <1>a, <2>1, ReplyShows DEF ModelCalls
    <2>3. /\ main' \in MainState
          /\ main'.pc = "batch"
          /\ main'.run = main.run
          /\ main'.cur = main.cur
          /\ main'.todo = calls
          /\ main'.act = (IF main.final THEN "stop" ELSE "continue")
          /\ main'.res = main.res
          /\ main'.ends = (IF main.final THEN "unable" ELSE "failed")
        BY <1>3 DEF ModelCalls, MainState, ThreadsTyped, Finishes
    <2>4. OutcomeIsTrue'
        BY <1>3, <2>1, <2>2, <2>3, StoredRows DEF OutcomeIsTrue, ModelCalls, Replied, StaysOpen
    <2>5. ThreadsTyped' BY <1>3, <2>1, <2>2, <2>3 DEF ThreadsTyped, ModelCalls, Replied, StaysOpen
    <2>6. ThreadsAgree'
        BY <1>3, <2>1, <2>2, <2>3 DEF ThreadsAgree, ModelCalls, Replied, StaysOpen, Main
    <2>7. BatchIsOpen'
        BY <1>3, <2>1, <2>2, <2>3, StoredRows DEF BatchIsOpen, Unfinished, Open, ModelCalls,
            Replied, StaysOpen, Main
    <2>8. TurnsAreKept'
        BY <1>3, <2>1, <2>2, <2>3, StoredRows DEF TurnsAreKept, Asked, ModelCalls, Replied,
            StaysOpen, Main
    <2>9. SuccessIsBacked'
        BY <1>3, <2>1, <2>2, <2>3, StoredRows DEF SuccessIsBacked, ModelCalls, Replied, StaysOpen
    <2>10. WorkerIsAwaited'
        BY <1>3, <2>1, <2>2, <2>3, StoredRows DEF WorkerIsAwaited, ModelCalls, Replied, StaysOpen
    <2>11. OrphansAreLate'
        BY <1>3, <2>1, <2>2, <2>3 DEF OrphansAreLate, LockHeld, Awaits, TooLate, ModelCalls,
            Replied, StaysOpen, Main
    <2>12. GoesOnClean'
        BY <1>3, <2>1, <2>2, <2>3, StoredRows DEF GoesOnClean, ModelCalls, Replied, StaysOpen, Main,
            Stopped, ThreadsAgree
    <2>13. TargetIsKnown'
        BY <1>3, <2>1, <2>2, <2>3, StoredRows DEF TargetIsKnown, UnknownTarget, ModelCalls, Replied,
            StaysOpen, Main, Stopped, ThreadsAgree
    <2>14. CreatedIsIntended'
        BY <1>3, <2>1, <2>2, <2>3, <1>b, StoredRows DEF CreatedIsIntended, ModelCalls, Replied,
            StaysOpen
    <2>15. FilesAreAccountedFor'
        BY <1>3, <2>1, <2>2, <2>3, <1>b, StoredRows DEF FilesAreAccountedFor, ConfirmedIsReal,
            CrashIsClassified, ModelCalls, Replied, StaysOpen, Terminal
    <2>16. OneOutputPerRun'
        BY <1>3, <2>1, <2>2, <2>3, StoredRows DEF OneOutputPerRun, ModelCalls, Replied, StaysOpen
    <2>17. CompletedMeansSettled'
        BY <1>3, <2>1, <2>2, <2>3, <1>b, StoredRows DEF CompletedMeansSettled, Open, ModelCalls,
            Replied, StaysOpen, Main, Stopped, Terminal
    <2> QED BY <2>4, <2>5, <2>6, <2>7, <2>8, <2>9, <2>10, <2>11, <2>12, <2>13, <2>14, <2>15, <2>16,
        <2>17, <1>b DEF WriteInv
<1>4. ASSUME NEW c \in Calls, NextCall(c)
      PROVE  WriteInv'
    <2>1. /\ main' \in MainState
          /\ main'.pc = "invoke" /\ main'.run = main.run /\ main'.cur = c /\ main'.todo = main.todo
          /\ main'.act = main.act /\ main'.res = main.res /\ main'.ends = main.ends
        BY <1>4 DEF NextCall, MainState, ThreadsTyped, Finishes
    <2>2. (OutcomeIsTrue /\ ThreadsTyped /\ BatchIsOpen /\ SuccessIsBacked /\ WorkerIsAwaited
           /\ OrphansAreLate /\ GoesOnClean /\ TargetIsKnown /\ CreatedIsIntended
           /\ FilesAreAccountedFor /\ OneOutputPerRun /\ CompletedMeansSettled)'
        BY <1>4, <2>1 DEF OutcomeIsTrue, NextCall, ThreadsTyped, BatchIsOpen, Unfinished, Open,
            Terminal, Main, journal, SuccessIsBacked, WorkerIsAwaited, OrphansAreLate, LockHeld,
            Awaits, TooLate, GoesOnClean, TargetIsKnown, UnknownTarget, CreatedIsIntended,
            FilesAreAccountedFor, ConfirmedIsReal, CrashIsClassified, OneOutputPerRun,
            CompletedMeansSettled
    <2>3. ThreadsAgree'
        <3>1. main'.cur # None /\ main.run # None /\ main.pc = "batch" /\ main.act = "continue"
            BY <1>4, <2>1, JournalAssumption DEF NextCall, Main
        <3>2. worker' = worker
            BY <1>4 DEF NextCall
        <3> QED BY <2>1, <3>1, <3>2 DEF ThreadsAgree
    <2>4. TurnsAreKept'
        <3>1. SUFFICES ASSUME NEW d \in main.todo
                       PROVE  call[main.run][d].stage = "requested" /\ ~Asked(main.run, d)
            BY <1>4, <2>1 DEF NextCall, journal, TurnsAreKept, Asked
        <3>2. d \in Calls
            BY DEF ThreadsTyped, MainState
        <3>3. main.pc = "batch" /\ main.cur = None
            BY <1>4 DEF NextCall, Main, ThreadsAgree
        <3> QED BY <3>2, <3>3, JournalAssumption DEF TurnsAreKept
    <2> QED BY <2>2, <2>3, <2>4, <1>b DEF WriteInv
<1>5. ASSUME NEW c \in Calls, SkipCall(c)
      PROVE  WriteInv'
    <2>1. PICK r \in Runs : main.run = r
        BY <1>5 DEF SkipCall, Main, ThreadsTyped, MainState
    <2>2. Resulted(r, c, "fail")
        BY <1>5, <1>a, <2>1, ResultShows DEF SkipCall
    <2>3. /\ main' \in MainState
          /\ main'.pc = main.pc
          /\ main'.run = main.run
          /\ main'.cur = main.cur
          /\ main'.todo = main.todo \ {c}
          /\ main'.act = main.act /\ main'.res = main.res /\ main'.ends = main.ends
        BY <1>5 DEF SkipCall, MainState, ThreadsTyped, Finishes
    <2>4. OutcomeIsTrue'
        BY <1>5, <2>1, <2>2, <2>3, StoredRows DEF OutcomeIsTrue, Asked, TooLate, SkipCall, Resulted,
            StaysOpen, SameCalls, Main, Terminal
    <2>5. ThreadsTyped'
        BY <1>5, <2>1, <2>2, <2>3 DEF ThreadsTyped, MainState, WorkerState, Finishes, SkipCall,
            Resulted, StaysOpen, SameCalls
    <2>6. ThreadsAgree'
        BY <1>5, <2>1, <2>2, <2>3 DEF ThreadsAgree, SkipCall, Resulted, StaysOpen, SameCalls
    <2>7. BatchIsOpen'
        BY <1>5, <2>1, <2>2, <2>3, StoredRows DEF BatchIsOpen, Unfinished, Open, Terminal, SkipCall,
            Resulted, StaysOpen, SameCalls, Main, ThreadsTyped, ThreadsAgree
    <2>8. TurnsAreKept'
        BY <1>5, <2>1, <2>2, <2>3, StoredRows DEF TurnsAreKept, Asked, SkipCall, Resulted,
            StaysOpen, SameCalls, Main, MainState, WorkerState
    <2>9. SuccessIsBacked'
        BY <1>5, <2>1, <2>2, <2>3, StoredRows DEF SuccessIsBacked, Asked, SkipCall, Resulted,
            StaysOpen, SameCalls
    <2>10. WorkerIsAwaited'
        BY <1>5, <2>1, <2>2, <2>3, StoredRows DEF WorkerIsAwaited, journal, SkipCall, Resulted,
            StaysOpen, SameCalls, Main, Terminal
    <2>11. OrphansAreLate'
        BY <1>5, <2>1, <2>2, <2>3 DEF OrphansAreLate, LockHeld, Awaits, TooLate, SkipCall, Resulted,
            StaysOpen, SameCalls
    <2>12. GoesOnClean'
        BY <1>5, <2>1, <2>2, <2>3, StoredRows DEF GoesOnClean, SkipCall, Resulted, StaysOpen,
            SameCalls
    <2>13. TargetIsKnown'
        BY <1>5, <2>1, <2>2, <2>3, StoredRows DEF TargetIsKnown, UnknownTarget, SkipCall, Resulted,
            StaysOpen, SameCalls
    <2>14. CreatedIsIntended'
        BY <1>5, <2>1, <2>2, <2>3, <1>b, StoredRows DEF CreatedIsIntended, SkipCall, Resulted,
            StaysOpen, SameCalls
    <2>15. FilesAreAccountedFor'
        BY <1>5, <2>1, <2>2, <2>3, <1>b, StoredRows DEF FilesAreAccountedFor, ConfirmedIsReal,
            CrashIsClassified, SkipCall, Resulted, StaysOpen, SameCalls, Terminal
    <2>16. OneOutputPerRun'
        BY <1>5, <2>1, <2>2, <2>3, StoredRows DEF OneOutputPerRun, SkipCall, Resulted, StaysOpen,
            SameCalls
    <2>17. CompletedMeansSettled'
        BY <1>5, <2>1, <2>2, <2>3, <1>b, StoredRows DEF CompletedMeansSettled, Open, SkipCall,
            Resulted, StaysOpen, SameCalls, Main, Terminal
    <2> QED BY <2>4, <2>5, <2>6, <2>7, <2>8, <2>9, <2>10, <2>11, <2>12, <2>13, <2>14, <2>15, <2>16,
        <2>17, <1>b DEF WriteInv
<1>6. ASSUME ReadStarts
      PROVE  WriteInv'
    <2>1. PICK r \in Runs, c \in Calls : main.run = r /\ main.cur = c
        BY <1>6, JournalAssumption DEF ReadStarts, Main, ThreadsTyped, ThreadsAgree, MainState
    <2>2. Started(r, c)
        BY <1>6, <1>a, <2>1, StartShows DEF ReadStarts
    <2>3. /\ main' \in MainState
          /\ main'.pc = "reading"
          /\ main'.run = main.run
          /\ main'.cur = main.cur
          /\ main'.todo = main.todo
          /\ main'.act = main.act /\ main'.res = main.res /\ main'.ends = main.ends
        BY <1>6 DEF ReadStarts, MainState, ThreadsTyped, Finishes
    <2>4. OutcomeIsTrue'
        BY <1>6, <2>1, <2>2, <2>3, StoredRows DEF OutcomeIsTrue, ReadStarts, Started, StaysOpen,
            SameColumns, SameCalls
    <2>5. ThreadsTyped'
        BY <1>6, <2>1, <2>2, <2>3 DEF ThreadsTyped, ReadStarts, Started, StaysOpen, SameColumns,
            SameCalls
    <2>6. ThreadsAgree'
        BY <1>6, <2>1, <2>2, <2>3 DEF ThreadsAgree, ReadStarts, Started, StaysOpen, SameColumns,
            SameCalls, Main
    <2>7. BatchIsOpen'
        BY <1>6, <2>1, <2>2, <2>3, StoredRows DEF BatchIsOpen, Unfinished, Open, ReadStarts,
            Started, StaysOpen, SameColumns, SameCalls, Main
    <2>8. TurnsAreKept'
        BY <1>6, <2>1, <2>2, <2>3, StoredRows DEF TurnsAreKept, Asked, ReadStarts, Started,
            StaysOpen, SameColumns, SameCalls, Main, MainState, WorkerState
    <2>9. SuccessIsBacked'
        BY <1>6, <2>1, <2>2, <2>3, StoredRows DEF SuccessIsBacked, Asked, ReadStarts, Started,
            StaysOpen, SameColumns, SameCalls, Main, Terminal, ThreadsTyped, ThreadsAgree,
            BatchIsOpen, TurnsAreKept
    <2>10. WorkerIsAwaited'
        BY <1>6, <2>1, <2>2, <2>3, StoredRows DEF WorkerIsAwaited, ReadStarts, Started, StaysOpen,
            SameColumns, SameCalls
    <2>11. OrphansAreLate'
        BY <1>6, <2>1, <2>2, <2>3 DEF OrphansAreLate, LockHeld, Awaits, TooLate, ReadStarts,
            Started, StaysOpen, SameColumns, SameCalls, Main
    <2>12. GoesOnClean'
        BY <1>6, <2>1, <2>2, <2>3, StoredRows DEF GoesOnClean, ReadStarts, Started, StaysOpen,
            SameColumns, SameCalls, Main
    <2>13. TargetIsKnown'
        BY <1>6, <2>1, <2>2, <2>3, StoredRows DEF TargetIsKnown, UnknownTarget, ReadStarts, Started,
            StaysOpen, SameColumns, SameCalls, Main
    <2>14. CreatedIsIntended'
        BY <1>6, <2>1, <2>2, <2>3, <1>b, StoredRows DEF CreatedIsIntended, ReadStarts, Started,
            StaysOpen, SameColumns, SameCalls
    <2>15. FilesAreAccountedFor'
        BY <1>6, <2>1, <2>2, <2>3, <1>b, StoredRows DEF FilesAreAccountedFor, ConfirmedIsReal,
            CrashIsClassified, ReadStarts, Started, StaysOpen, SameColumns, SameCalls, Terminal
    <2>16. OneOutputPerRun'
        BY <1>6, <2>1, <2>2, <2>3, StoredRows DEF OneOutputPerRun, ReadStarts, Started, StaysOpen,
            SameColumns, SameCalls
    <2>17. CompletedMeansSettled'
        BY <1>6, <2>1, <2>2, <2>3, <1>b, StoredRows DEF CompletedMeansSettled, Open, ReadStarts,
            Started, StaysOpen, SameColumns, SameCalls, Terminal
    <2> QED BY <2>4, <2>5, <2>6, <2>7, <2>8, <2>9, <2>10, <2>11, <2>12, <2>13, <2>14, <2>15, <2>16,
        <2>17, <1>b DEF WriteInv
<1>7. ASSUME NEW a \in Approvals, Ask(a)
      PROVE  WriteInv'
    <2>1. PICK r \in Runs, c \in Calls : main.run = r /\ main.cur = c
        BY <1>7, JournalAssumption DEF Ask, Main, ThreadsTyped, ThreadsAgree, MainState
    <2>2. AskedNow(r, c)
        BY <1>7, <1>a, <2>1, AskShows DEF Ask
    <2>3. /\ main' \in MainState
          /\ main'.pc = "wait"
          /\ main'.run = main.run
          /\ main'.cur = main.cur
          /\ main'.todo = main.todo
          /\ main'.act = main.act /\ main'.res = main.res /\ main'.ends = main.ends
        BY <1>7 DEF Ask, MainState, ThreadsTyped, Finishes
    <2>4. OutcomeIsTrue'
        BY <1>7, <2>1, <2>2, <2>3, StoredRows DEF OutcomeIsTrue, Ask, AskedNow, StaysOpen
    <2>5. ThreadsTyped'
        BY <1>7, <2>1, <2>2, <2>3 DEF ThreadsTyped, MainState, WorkerState, Finishes, journal, Ask,
            AskedNow, StaysOpen
    <2>6. ThreadsAgree'
        BY <1>7, <2>1, <2>2, <2>3 DEF ThreadsAgree, Ask, AskedNow, StaysOpen, Main, Stopped
    <2>7. BatchIsOpen'
        BY <1>7, <2>1, <2>2, <2>3, StoredRows DEF BatchIsOpen, Unfinished, Open, Terminal, Ask,
            AskedNow, StaysOpen, Main
    <2>8. TurnsAreKept'
        BY <1>7, <2>1, <2>2, <2>3, StoredRows DEF TurnsAreKept, Ask, AskedNow, StaysOpen, MainState,
            WorkerState
    <2>9. SuccessIsBacked'
        BY <1>7, <2>1, <2>2, <2>3, StoredRows DEF SuccessIsBacked, Ask, AskedNow, StaysOpen
    <2>10. WorkerIsAwaited'
        BY <1>7, <2>1, <2>2, <2>3, StoredRows DEF WorkerIsAwaited, Ask, AskedNow, StaysOpen
    <2>11. OrphansAreLate'
        BY <1>7, <2>1, <2>2, <2>3 DEF OrphansAreLate, LockHeld, Awaits, TooLate, Ask, AskedNow,
            StaysOpen, Main, Stopped
    <2>12. GoesOnClean'
        BY <1>7, <2>1, <2>2, <2>3, StoredRows DEF GoesOnClean, Ask, AskedNow, StaysOpen, Main,
            Stopped
    <2>13. TargetIsKnown'
        BY <1>7, <2>1, <2>2, <2>3, StoredRows DEF TargetIsKnown, UnknownTarget, Ask, AskedNow,
            StaysOpen, Main
    <2>14. CreatedIsIntended'
        BY <1>7, <2>1, <2>2, <2>3, <1>b, StoredRows DEF CreatedIsIntended, Ask, AskedNow, StaysOpen
    <2>15. FilesAreAccountedFor'
        BY <1>7, <2>1, <2>2, <2>3, <1>b, StoredRows DEF FilesAreAccountedFor, ConfirmedIsReal,
            CrashIsClassified, Ask, AskedNow, StaysOpen, Main, Asked, Terminal
    <2>16. OneOutputPerRun'
        BY <1>7, <2>1, <2>2, <2>3, StoredRows DEF OneOutputPerRun, Ask, AskedNow, StaysOpen
    <2>17. CompletedMeansSettled'
        BY <1>7, <2>1, <2>2, <2>3, <1>b, StoredRows DEF CompletedMeansSettled, Open, Ask, AskedNow,
            StaysOpen, Main, Terminal
    <2> QED BY <2>4, <2>5, <2>6, <2>7, <2>8, <2>9, <2>10, <2>11, <2>12, <2>13, <2>14, <2>15, <2>16,
        <2>17, <1>b DEF WriteInv
<1>8. ASSUME Launch
      PROVE  WriteInv'
    <2>1. PICK r \in Runs, c \in Calls : main.run = r /\ main.cur = c
        BY <1>8, JournalAssumption DEF Launch, Main, ThreadsTyped, ThreadsAgree, MainState
    <2>2. Started(r, c)
        BY <1>8, <1>a, <2>1, StartShows DEF Launch
    <2>3. /\ main' \in MainState
          /\ main'.pc = "await"
          /\ main'.run = main.run
          /\ main'.cur = main.cur
          /\ main'.todo = main.todo
          /\ main'.act = main.act /\ main'.res = main.res /\ main'.ends = main.ends
        BY <1>8 DEF Launch, MainState, ThreadsTyped, Finishes
    <2>4. OutcomeIsTrue'
        BY <1>8, <2>1, <2>2, <2>3, StoredRows DEF OutcomeIsTrue, Launch, Started, StaysOpen,
            SameColumns, SameCalls
    <2>5. ThreadsTyped'
        BY <1>8, <2>1, <2>2, <2>3 DEF ThreadsTyped, WorkerState, Launch, Started, StaysOpen,
            SameColumns, SameCalls
    <2>6. ThreadsAgree'
        BY <1>8, <2>1, <2>2, <2>3 DEF ThreadsAgree, Launch, Started, StaysOpen, SameColumns,
            SameCalls, Main
    <2>7. BatchIsOpen'
        BY <1>8, <2>1, <2>2, <2>3, StoredRows DEF BatchIsOpen, Unfinished, Open, Launch, Started,
            StaysOpen, SameColumns, SameCalls, Main
    <2>8. TurnsAreKept'
        BY <1>8, <2>1, <2>2, <2>3, StoredRows DEF TurnsAreKept, Asked, Launch, Started, StaysOpen,
            SameColumns, SameCalls, Main, MainState, WorkerState
    <2>9. SuccessIsBacked'
        BY <1>8, <2>1, <2>2, <2>3, StoredRows DEF SuccessIsBacked, Launch, Started, StaysOpen,
            SameColumns, SameCalls
    <2>10. WorkerIsAwaited'
        BY <1>8, <2>1, <2>2, <2>3, StoredRows DEF WorkerIsAwaited, journal, Launch, Started,
            StaysOpen, SameColumns, SameCalls, Main, Terminal, ThreadsTyped, SuccessIsBacked,
            OrphansAreLate, GoesOnClean
    <2>11. OrphansAreLate'
        BY <1>8, <2>1, <2>2, <2>3 DEF OrphansAreLate, LockHeld, Awaits, TooLate, Launch, Started,
            StaysOpen, SameColumns, SameCalls
    <2>12. GoesOnClean'
        BY <1>8, <2>1, <2>2, <2>3, StoredRows DEF GoesOnClean, Launch, Started, StaysOpen,
            SameColumns, SameCalls, Main
    <2>13. TargetIsKnown'
        BY <1>8, <2>1, <2>2, <2>3, StoredRows DEF TargetIsKnown, UnknownTarget, Launch, Started,
            StaysOpen, SameColumns, SameCalls, Main
    <2>14. CreatedIsIntended'
        BY <1>8, <2>1, <2>2, <2>3, <1>b, StoredRows DEF CreatedIsIntended, Launch, Started,
            StaysOpen, SameColumns, SameCalls
    <2>15. FilesAreAccountedFor'
        BY <1>8, <2>1, <2>2, <2>3, <1>b, StoredRows DEF FilesAreAccountedFor, ConfirmedIsReal,
            CrashIsClassified, Launch, Started, StaysOpen, SameColumns, SameCalls, Terminal
    <2>16. OneOutputPerRun'
        BY <1>8, <2>1, <2>2, <2>3, StoredRows DEF OneOutputPerRun, Launch, Started, StaysOpen,
            SameColumns, SameCalls
    <2>17. CompletedMeansSettled'
        BY <1>8, <2>1, <2>2, <2>3, <1>b, StoredRows DEF CompletedMeansSettled, Open, Launch,
            Started, StaysOpen, SameColumns, SameCalls, Terminal
    <2> QED BY <2>4, <2>5, <2>6, <2>7, <2>8, <2>9, <2>10, <2>11, <2>12, <2>13, <2>14, <2>15, <2>16,
        <2>17, <1>b DEF WriteInv
<1>9. ASSUME Record
      PROVE  WriteInv'
    <2>1. PICK r \in Runs, c \in Calls : main.run = r /\ main.cur = c
        BY <1>9, JournalAssumption DEF Record, Main, ThreadsTyped, ThreadsAgree, MainState
    <2>2. PICK kind \in {"ok", "fail", "unknown"} : main.res = kind
        BY DEF ThreadsTyped, MainState
    <2>3. Resulted(r, c, kind)
        BY <1>9, <1>a, <2>1, <2>2, ResultShows DEF Record
    <2>4. /\ main' \in MainState
          /\ main'.pc = "batch"
          /\ main'.run = main.run
          /\ main'.cur = None
          /\ main'.todo = main.todo \ {main.cur}
          /\ main'.act = main.act /\ main'.res = "fail" /\ main'.ends = main.ends
        BY <1>9 DEF Record, MainState, ThreadsTyped, Finishes
    <2>5. OutcomeIsTrue'
        BY <1>9, <2>1, <2>2, <2>3, <2>4, StoredRows DEF OutcomeIsTrue, Record, Resulted, StaysOpen,
            SameCalls
    <2>6. ThreadsTyped'
        BY <1>9, <2>1, <2>2, <2>3, <2>4 DEF ThreadsTyped, Record, Resulted, StaysOpen, SameCalls
    <2>7. ThreadsAgree'
        BY <1>9, <2>1, <2>2, <2>3, <2>4 DEF ThreadsAgree, Record, Resulted, StaysOpen, SameCalls,
            Main
    <2>8. BatchIsOpen'
        BY <1>9, <2>1, <2>2, <2>3, <2>4, StoredRows DEF BatchIsOpen, Unfinished, Open, Record,
            Resulted, StaysOpen, SameCalls, Main
    <2>9. TurnsAreKept'
        BY <1>9, <2>1, <2>2, <2>3, <2>4, StoredRows DEF TurnsAreKept, Asked, Record, Resulted,
            StaysOpen, SameCalls, Main, Terminal, ThreadsTyped, MainState, WorkerState
    <2>10. SuccessIsBacked'
        BY <1>9, <2>1, <2>2, <2>3, <2>4, StoredRows DEF SuccessIsBacked, Record, Resulted,
            StaysOpen, SameCalls
    <2>11. WorkerIsAwaited'
        BY <1>9, <2>1, <2>2, <2>3, <2>4, StoredRows DEF WorkerIsAwaited, Record, Resulted,
            StaysOpen, SameCalls
    <2>12. OrphansAreLate'
        BY <1>9, <2>1, <2>2, <2>3, <2>4 DEF OrphansAreLate, LockHeld, Awaits, TooLate, Record,
            Resulted, StaysOpen, SameCalls, Main
    <2>13. GoesOnClean'
        BY <1>9, <2>1, <2>2, <2>3, <2>4, StoredRows DEF GoesOnClean, Record, Resulted, StaysOpen,
            SameCalls, Main, ThreadsAgree
    <2>14. TargetIsKnown'
        BY <1>9, <2>1, <2>2, <2>3, <2>4, StoredRows DEF TargetIsKnown, UnknownTarget, Record,
            Resulted, StaysOpen, SameCalls, Main, Terminal, ThreadsTyped, ThreadsAgree
    <2>15. CreatedIsIntended'
        BY <1>9, <2>1, <2>2, <2>3, <2>4, <1>b, StoredRows DEF CreatedIsIntended, Record, Resulted,
            StaysOpen, SameCalls
    <2>16. FilesAreAccountedFor'
        BY <1>9, <2>1, <2>2, <2>3, <2>4, <1>b, StoredRows DEF FilesAreAccountedFor, ConfirmedIsReal,
            CrashIsClassified, Record, Resulted, StaysOpen, SameCalls, Main, Terminal, ThreadsTyped,
            ThreadsAgree, BatchIsOpen, TurnsAreKept, SuccessIsBacked, WorkerIsAwaited,
            OrphansAreLate, GoesOnClean, TargetIsKnown, CreatedIsIntended, OneOutputPerRun,
            CompletedMeansSettled, Unfinished, Open, Asked, journal, LockHeld, Awaits, TooLate,
            UnknownTarget
    <2>17. OneOutputPerRun'
        BY <1>9, <2>1, <2>2, <2>3, <2>4, StoredRows DEF OneOutputPerRun, Record, Resulted,
            StaysOpen, SameCalls
    <2>18. CompletedMeansSettled'
        BY <1>9, <2>1, <2>2, <2>3, <2>4, <1>b, StoredRows DEF CompletedMeansSettled, Open, Record,
            Resulted, StaysOpen, SameCalls, Main, Terminal
    <2> QED BY <2>5, <2>6, <2>7, <2>8, <2>9, <2>10, <2>11, <2>12, <2>13, <2>14, <2>15, <2>16, <2>17,
        <2>18, <1>b DEF WriteInv
<1>10. ASSUME Finish
      PROVE  WriteInv'
    <2>1. PICK r \in Runs : main.run = r
        BY <1>10 DEF Finish, Main, ThreadsTyped, MainState
    <2>2. PICK state \in Finishes : main.ends = state
        BY DEF ThreadsTyped, MainState
    <2>3. Ended(r, state)
        BY <1>10, <1>a, <2>1, <2>2, FinishShows DEF Finish
    <2>4. (ThreadsTyped /\ ThreadsAgree /\ BatchIsOpen /\ TurnsAreKept /\ SuccessIsBacked
           /\ WorkerIsAwaited /\ OrphansAreLate /\ GoesOnClean /\ TargetIsKnown
           /\ CreatedIsIntended /\ FilesAreAccountedFor /\ OneOutputPerRun)'
        BY <1>10, <2>1, <2>2, <2>3, NothingActive, JournalAssumption DEF ThreadsTyped, Finish,
            Ended, ThreadsAgree, Main, Idle, BatchIsOpen, Unfinished, Open, Terminal, TurnsAreKept,
            Asked, SuccessIsBacked, WorkerIsAwaited, journal, OrphansAreLate, LockHeld, Awaits,
            TooLate, GoesOnClean, TargetIsKnown, UnknownTarget, CreatedIsIntended,
            FilesAreAccountedFor, ConfirmedIsReal, CrashIsClassified, Finishes, OneOutputPerRun
    <2>5. OutcomeIsTrue'
        <3>1. main'.pc = "idle"
            BY <1>10 DEF Finish, Idle
        <3> QED BY <3>1 DEF OutcomeIsTrue
    <2>6. CompletedMeansSettled'
        <3>1. ASSUME NEW q \in Runs \ {r}, NEW d \in Calls, run'[q].state = "completed"
              PROVE  /\ ~Open(q, d)' /\ call'[q][d].rec # "WRITE_OUTCOME_UNKNOWN"
                     /\ <<q, d>> \in created' => artifact'[q][d] # None
            BY <1>10, <2>3, <3>1 DEF Finish, Ended, CompletedMeansSettled, Open
        <3>2. ASSUME NEW d \in Calls, run'[r].state = "completed"
              PROVE  /\ ~Open(r, d)' /\ call'[r][d].rec # "WRITE_OUTCOME_UNKNOWN"
                     /\ <<r, d>> \in created' => artifact'[r][d] # None
            <4>1. /\ main.pc = "finish" /\ main.ends = "completed" /\ main.todo = {}
                  /\ main.act # "stop" /\ main.run # None
                BY <1>10, <2>1, <2>2, <2>3, <3>2 DEF Finish, Main, Ended, BatchIsOpen, ThreadsAgree
            <4>2. ~Open(r, d)
                BY <2>1, <4>1 DEF BatchIsOpen
            <4>3. /\ call[r][d].rec # "WRITE_OUTCOME_UNKNOWN"
                  /\ <<r, d>> \in created => artifact[r][d] # None
                BY <2>1, <4>1 DEF GoesOnClean
            <4> QED BY <1>10, <2>3, <4>2, <4>3 DEF Finish, Ended, Open
        <3> QED BY <3>1, <3>2 DEF CompletedMeansSettled
    <2> QED BY <2>4, <2>5, <2>6, <1>b DEF WriteInv
<1>11. ASSUME NEW r \in Runs, Stage(r)
      PROVE  WriteInv'
    <2>1. \/ WorkerMoves(r, "done", "fail")
          \/ ~exists /\ WorkerMoves(r, "enter", "none")
        BY <1>11, DoneShows, EntersShows DEF Stage, Working, ThreadsAgree
    <2>2. (OutcomeIsTrue /\ ThreadsTyped /\ ThreadsAgree /\ BatchIsOpen /\ TurnsAreKept
           /\ SuccessIsBacked /\ OrphansAreLate /\ GoesOnClean /\ TargetIsKnown
           /\ CreatedIsIntended /\ FilesAreAccountedFor /\ OneOutputPerRun
           /\ CompletedMeansSettled)'
        BY <1>11, <2>1 DEF OutcomeIsTrue, Asked, TooLate, Stage, WorkerMoves, Working, journal,
            ThreadsTyped, ThreadsAgree, BatchIsOpen, Unfinished, Open, Terminal, Done, TurnsAreKept,
            SuccessIsBacked, OrphansAreLate, LockHeld, Awaits, GoesOnClean, TargetIsKnown,
            UnknownTarget, CreatedIsIntended, FilesAreAccountedFor, ConfirmedIsReal,
            CrashIsClassified, OneOutputPerRun, CompletedMeansSettled
    <2>3. WorkerIsAwaited'
        <3>1. main' = main /\ created' = created
            BY <1>11 DEF Stage
        <3>2. ASSUME main.pc = "await"
              PROVE  main.run \in Runs
            BY <3>2 DEF ThreadsTyped, ThreadsAgree, MainState
        <3>3. CASE main.run = r /\ main.pc = "await"
            BY <1>11, <2>1, <3>1, <3>3 DEF Stage, journal, Working, WorkerMoves, WorkerIsAwaited,
                ThreadsAgree
        <3>4. CASE main.pc = "await" /\ main.run # r
            BY <1>11, <2>1, <3>1, <3>2, <3>4 DEF Stage, journal, WorkerMoves, WorkerIsAwaited
        <3>5. CASE main.pc # "await"
            BY <3>1, <3>5 DEF WorkerIsAwaited
        <3> QED BY <3>3, <3>4, <3>5
    <2> QED BY <2>2, <2>3, <1>b DEF WriteInv
<1>12. ASSUME NEW r \in Runs, EnterCommit(r)
      PROVE  WriteInv'
    <2>1. \/ TooLate(r) /\ WorkerMoves(r, "done", "stop")
          \/ ~TooLate(r) /\ WorkerMoves(r, "intent", "none")
        BY <1>12, DoneShows, EntersShows DEF EnterCommit, Working, ThreadsAgree
    <2>2. (OutcomeIsTrue /\ ThreadsTyped /\ ThreadsAgree /\ BatchIsOpen /\ TurnsAreKept
           /\ SuccessIsBacked /\ OrphansAreLate /\ GoesOnClean /\ TargetIsKnown
           /\ CreatedIsIntended /\ FilesAreAccountedFor /\ OneOutputPerRun
           /\ CompletedMeansSettled)'
        BY <1>12, <2>1 DEF OutcomeIsTrue, Asked, TooLate, EnterCommit, WorkerMoves, Working,
            journal, ThreadsTyped, ThreadsAgree, BatchIsOpen, Unfinished, Open, Terminal, Done,
            TurnsAreKept, SuccessIsBacked, OrphansAreLate, LockHeld, Awaits, GoesOnClean,
            TargetIsKnown, UnknownTarget, CreatedIsIntended, FilesAreAccountedFor, ConfirmedIsReal,
            CrashIsClassified, OneOutputPerRun, CompletedMeansSettled
    <2>3. WorkerIsAwaited'
        <3>1. main' = main /\ created' = created
            BY <1>12 DEF EnterCommit
        <3>2. ASSUME main.pc = "await"
              PROVE  main.run \in Runs
            BY <3>2 DEF ThreadsTyped, ThreadsAgree, MainState
        <3>3. CASE main.run = r /\ main.pc = "await"
            BY <1>12, <2>1, <3>1, <3>3 DEF EnterCommit, journal, Working, WorkerMoves,
                WorkerIsAwaited, ThreadsAgree
        <3>4. CASE main.pc = "await" /\ main.run # r
            BY <1>12, <2>1, <3>1, <3>2, <3>4 DEF EnterCommit, journal, WorkerMoves, WorkerIsAwaited
        <3>5. CASE main.pc # "await"
            BY <3>1, <3>5 DEF WorkerIsAwaited
        <3> QED BY <3>3, <3>4, <3>5
    <2> QED BY <2>2, <2>3, <1>b DEF WriteInv
<1>13. ASSUME NEW r \in Runs, Intent(r)
      PROVE  WriteInv'
    <2>1. PICK c \in Calls : worker[r].call = c
        BY <1>13 DEF Intent, Working, ThreadsAgree
    <2>2. main.run = r /\ main.pc = "await" /\ main.cur = c
        BY <1>13, <2>1 DEF Intent, Working, OrphansAreLate, LockHeld, Awaits, WorkerIsAwaited
    <2>3. Announced(r, c)
        BY <1>13, <1>a, <2>1, IntentShows DEF Intent
    <2>4. WorkerMoves(r, "link", "none")
        BY <1>13, DoneShows, EntersShows DEF Intent, Working, ThreadsAgree
    <2>5. OutcomeIsTrue'
        BY <1>13, <2>1, <2>2, <2>3, <2>4, StoredRows DEF OutcomeIsTrue, Intent, Announced,
            StaysOpen, SameCalls, WorkerMoves
    <2>6. ThreadsTyped'
        BY <1>13, <2>1, <2>2, <2>3, <2>4 DEF ThreadsTyped, MainState, WorkerState, Finishes, Intent,
            Announced, StaysOpen, SameCalls
    <2>7. ThreadsAgree'
        BY <1>13, <2>1, <2>2, <2>3, <2>4 DEF ThreadsAgree, Intent, Announced, StaysOpen, SameCalls,
            Working
    <2>8. BatchIsOpen'
        BY <1>13, <2>1, <2>2, <2>3, <2>4, StoredRows DEF BatchIsOpen, Unfinished, Open, Intent,
            Announced, StaysOpen, SameCalls
    <2>9. TurnsAreKept'
        BY <1>13, <2>1, <2>2, <2>3, <2>4, StoredRows DEF TurnsAreKept, Asked, Intent, Announced,
            StaysOpen, SameCalls, Working, Terminal, ThreadsTyped, MainState, WorkerState
    <2>10. SuccessIsBacked'
        BY <1>13, <2>1, <2>2, <2>3, <2>4, StoredRows DEF SuccessIsBacked, Intent, Announced,
            StaysOpen, SameCalls
    <2>11. WorkerIsAwaited'
        BY <1>13, <2>1, <2>2, <2>3, <2>4, StoredRows DEF WorkerIsAwaited, journal, Intent,
            Announced, StaysOpen, SameCalls, Working, Terminal
    <2>12. OrphansAreLate'
        BY <1>13, <2>1, <2>2, <2>3, <2>4 DEF OrphansAreLate, LockHeld, Awaits, TooLate, Intent,
            Announced, StaysOpen, SameCalls, Working
    <2>13. GoesOnClean'
        BY <1>13, <2>1, <2>2, <2>3, <2>4, StoredRows DEF GoesOnClean, Intent, Announced, StaysOpen,
            SameCalls
    <2>14. TargetIsKnown'
        BY <1>13, <2>1, <2>2, <2>3, <2>4, StoredRows DEF TargetIsKnown, UnknownTarget, Intent,
            Announced, StaysOpen, SameCalls
    <2>15. CreatedIsIntended'
        BY <1>13, <2>1, <2>2, <2>3, <2>4, <1>b, StoredRows DEF CreatedIsIntended, Intent, Announced,
            StaysOpen, SameCalls
    <2>16. FilesAreAccountedFor'
        BY <1>13, <2>1, <2>2, <2>3, <2>4, <1>b, StoredRows DEF FilesAreAccountedFor,
            ConfirmedIsReal, CrashIsClassified, Intent, Announced, StaysOpen, SameCalls, Terminal
    <2>17. OneOutputPerRun'
        BY <1>13, <2>1, <2>2, <2>3, <2>4, StoredRows DEF OneOutputPerRun, Intent, Announced,
            StaysOpen, SameCalls
    <2>18. CompletedMeansSettled'
        BY <1>13, <2>1, <2>2, <2>3, <2>4, <1>b, StoredRows DEF CompletedMeansSettled, Open, Intent,
            Announced, StaysOpen, SameCalls, Working, Terminal
    <2> QED BY <2>5, <2>6, <2>7, <2>8, <2>9, <2>10, <2>11, <2>12, <2>13, <2>14, <2>15, <2>16, <2>17,
        <2>18, <1>b DEF WriteInv
<1>14. ASSUME NEW r \in Runs, Link(r)
      PROVE  WriteInv'
    <2>1. PICK c \in Calls : worker[r].call = c
        BY <1>14 DEF Link, Working, ThreadsAgree
    <2>2. main.run = r /\ main.pc = "await" /\ main.cur = c
        BY <1>14, <2>1 DEF Link, Working, OrphansAreLate, LockHeld, Awaits, WorkerIsAwaited
    <2>3. \/ ~exists /\ Creates(r) /\ WorkerMoves(r, "receipt", "none")
          \/ UNCHANGED <<exists, created>> /\ WorkerMoves(r, "done", "fail")
        BY <1>14, DoneShows, EntersShows DEF Link, Working, ThreadsAgree
    <2>4. (OutcomeIsTrue /\ ThreadsAgree /\ BatchIsOpen /\ TurnsAreKept /\ SuccessIsBacked
           /\ WorkerIsAwaited /\ OrphansAreLate /\ GoesOnClean /\ TargetIsKnown)'
        BY <1>14, <2>1, <2>2, <2>3 DEF OutcomeIsTrue, Link, WorkerMoves, ThreadsAgree, BatchIsOpen,
            Unfinished, Open, Terminal, Done, journal, TurnsAreKept, Asked, Working, Creates,
            SuccessIsBacked, WorkerIsAwaited, ThreadsTyped, OrphansAreLate, LockHeld, Awaits,
            TooLate, GoesOnClean, TargetIsKnown, UnknownTarget
    <2>5. ThreadsTyped'
        <3>1. faults' \in 0..MaxFaults
            BY <1>14 DEF Link, ThreadsTyped
        <3>2. created' = created \/ created' = created \cup {<<r, c>>}
            BY <1>14, <2>1 DEF Link, Creates
        <3>3. <<r, c>> \in Runs \X Calls
            OBVIOUS
        <3>4. created' \subseteq Runs \X Calls
            BY <3>2, <3>3 DEF ThreadsTyped
        <3>5. exists' \in BOOLEAN
            BY <1>14 DEF Link, Creates, ThreadsTyped
        <3>6. worker' \in [Runs -> WorkerState]
            BY <2>3 DEF WorkerMoves
        <3> QED BY <1>14, <3>1, <3>4, <3>5, <3>6 DEF Link, ThreadsTyped
    <2>6. CreatedIsIntended'
        BY <1>14, <2>1, <2>2, <2>3 DEF CreatedIsIntended, Link, Working, Creates, Done, journal,
            ThreadsTyped, SuccessIsBacked, WorkerIsAwaited, OrphansAreLate
    <2>7. FilesAreAccountedFor'
        BY <1>14, <2>1, <2>2, <2>3 DEF FilesAreAccountedFor, ConfirmedIsReal, CrashIsClassified,
            Link, Working, Creates, Done, journal, ThreadsTyped, ThreadsAgree, BatchIsOpen,
            TurnsAreKept, SuccessIsBacked, WorkerIsAwaited, OrphansAreLate, GoesOnClean,
            TargetIsKnown, CreatedIsIntended, OneOutputPerRun, CompletedMeansSettled, MainState,
            WorkerState, Unfinished, Open, Asked, LockHeld, Awaits, TooLate, UnknownTarget,
            Finishes, Terminal
    <2>8. OneOutputPerRun'
        BY <1>14, <2>1, <2>2, <2>3 DEF OneOutputPerRun, Link, Working, Creates, Done, journal,
            ThreadsTyped, GoesOnClean, TargetIsKnown, CreatedIsIntended
    <2>9. CompletedMeansSettled'
        <3>1. run[r].state # "completed"
            BY <2>2, JournalAssumption DEF BatchIsOpen, Unfinished, Terminal
        <3>2. \A q \in Runs, d \in Calls : <<q, d>> \in created' => <<q, d>> \in created \/ q = r
            BY <1>14 DEF Link, Creates
        <3>3. UNCHANGED journal
            BY <1>14 DEF Link
        <3> QED BY <3>1, <3>2, <3>3 DEF CompletedMeansSettled, journal, Open
    <2> QED BY <2>4, <2>5, <2>6, <2>7, <2>8, <2>9, <1>b DEF WriteInv
<1>15. ASSUME NEW r \in Runs, Receipt(r)
      PROVE  WriteInv'
    <2>1. PICK c \in Calls : worker[r].call = c
        BY <1>15 DEF Receipt, Working, ThreadsAgree
    <2>2. main.run = r /\ main.pc = "await" /\ main.cur = c
        BY <1>15, <2>1 DEF Receipt, Working, OrphansAreLate, LockHeld, Awaits, WorkerIsAwaited
    <2>3. Received(r, c)
        BY <1>15, <1>a, <2>1, ReceiptShows DEF Receipt
    <2>4. WorkerMoves(r, "done", "ok")
        BY <1>15, DoneShows, EntersShows DEF Receipt, Working, ThreadsAgree
    <2>5. OutcomeIsTrue'
        BY <1>15, <2>1, <2>2, <2>3, <2>4, StoredRows DEF OutcomeIsTrue, Receipt, Received,
            StaysOpen, SameCalls, WorkerMoves
    <2>6. ThreadsTyped'
        BY <1>15, <2>1, <2>2, <2>3, <2>4 DEF ThreadsTyped, Receipt, Received, StaysOpen, SameCalls,
            WorkerMoves
    <2>7. ThreadsAgree'
        BY <1>15, <2>1, <2>2, <2>3, <2>4 DEF ThreadsAgree, Receipt, Received, StaysOpen, SameCalls,
            Working, Done, Terminal
    <2>8. BatchIsOpen'
        BY <1>15, <2>1, <2>2, <2>3, <2>4, StoredRows DEF BatchIsOpen, Unfinished, Open, Receipt,
            Received, StaysOpen, SameCalls
    <2>9. TurnsAreKept'
        BY <1>15, <2>1, <2>2, <2>3, <2>4, StoredRows DEF TurnsAreKept, Asked, Receipt, Received,
            StaysOpen, SameCalls, Working, Done, Terminal, ThreadsTyped, MainState, WorkerState
    <2>10. SuccessIsBacked'
        BY <1>15, <2>1, <2>2, <2>3, <2>4, StoredRows DEF SuccessIsBacked, Receipt, Received,
            StaysOpen, SameCalls
    <2>11. WorkerIsAwaited'
        <3>1. main' = main /\ created' = created
            BY <1>15 DEF Receipt
        <3>2. /\ worker[r].pc = "receipt" /\ worker'[r].call = c
              /\ worker'[r].pc = "done" /\ worker'[r].out = "ok"
            BY <1>15, <2>1, <2>4 DEF Receipt, Working, WorkerMoves
        <3>3. artifact'[r][c] # None
            BY <2>3, PayloadsAreNamed DEF Received
        <3> QED BY <2>2, <3>1, <3>2, <3>3 DEF WorkerIsAwaited
    <2>12. OrphansAreLate'
        BY <1>15, <2>1, <2>2, <2>3, <2>4 DEF OrphansAreLate, LockHeld, Awaits, TooLate, Receipt,
            Received, StaysOpen, SameCalls, WorkerMoves
    <2>13. GoesOnClean'
        BY <1>15, <2>1, <2>2, <2>3, <2>4, StoredRows DEF GoesOnClean, Receipt, Received, StaysOpen,
            SameCalls
    <2>14. TargetIsKnown'
        BY <1>15, <2>1, <2>2, <2>3, <2>4, StoredRows DEF TargetIsKnown, UnknownTarget, Receipt,
            Received, StaysOpen, SameCalls, Working
    <2>15. CreatedIsIntended'
        BY <1>15, <2>1, <2>2, <2>3, <2>4, <1>b, StoredRows DEF CreatedIsIntended, Receipt, Received,
            StaysOpen, SameCalls
    <2>16. FilesAreAccountedFor'
        <3>1. <<r, c>> \in created /\ created' = created
            BY <1>15, <2>1, <2>2 DEF Receipt, Working, WorkerIsAwaited
        <3>2. ConfirmedIsReal'
            <4>1. SUFFICES ASSUME NEW q \in Runs, NEW d \in Calls
                           PROVE  /\ artifact'[q][d] # None =>
                                         artifact'[q][d] = <<q, d>> /\ <<q, d>> \in created
                                  /\ call'[q][d].stage = "succeeded" /\ Asked(q, d) =>
                                         artifact'[q][d] # None
                BY <2>3, <3>1 DEF ConfirmedIsReal, Received, Asked
            <4>2. CASE q = r /\ d = c
                BY <2>3, <3>1, <4>2, PayloadsAreNamed DEF Received
            <4>3. CASE q # r \/ d # c
                BY <2>3, <4>3 DEF FilesAreAccountedFor, ConfirmedIsReal, Received, Asked, SameCalls
            <4> QED BY <4>2, <4>3
        <3>3. CrashIsClassified'
            <4>1. SUFFICES ASSUME NEW q \in Runs, NEW d \in Calls, run'[q].state = "interrupted",
                                  <<q, d>> \in created, call'[q][d].result = 0
                           PROVE  artifact'[q][d] # None \/ call'[q][d].rec = "WRITE_OUTCOME_UNKNOWN"
                BY <3>1 DEF CrashIsClassified
            <4>2. q # r /\ run[q].state = "interrupted"
                BY <2>3, <4>1 DEF Received, StaysOpen, Terminal
            <4> QED BY <2>3, <4>1, <4>2
                    DEF FilesAreAccountedFor, CrashIsClassified, Received, SameCalls
        <3> QED BY <3>2, <3>3 DEF FilesAreAccountedFor
    <2>17. OneOutputPerRun'
        BY <1>15, <2>1, <2>2, <2>3, <2>4, StoredRows DEF OneOutputPerRun, Receipt, Received,
            StaysOpen, SameCalls
    <2>18. CompletedMeansSettled'
        BY <1>15, <2>1, <2>2, <2>3, <2>4, <1>b, StoredRows DEF CompletedMeansSettled, Open, Receipt,
            Received, StaysOpen, SameCalls, Terminal
    <2> QED BY <2>5, <2>6, <2>7, <2>8, <2>9, <2>10, <2>11, <2>12, <2>13, <2>14, <2>15, <2>16, <2>17,
        <2>18, <1>b DEF WriteInv
<1>16. ASSUME NEW flag \in {"run", "tool", "approval"}, Expire(flag)
      PROVE  WriteInv'
    BY <1>16, <1>b DEF OutcomeIsTrue, Asked, TooLate, Expire, journal, ThreadsTyped, MainState,
        WorkerState, ThreadsAgree, BatchIsOpen, Unfinished, Open, Terminal, TurnsAreKept,
        SuccessIsBacked, WorkerIsAwaited, OrphansAreLate, LockHeld, Awaits, GoesOnClean,
        TargetIsKnown, UnknownTarget, CreatedIsIntended, FilesAreAccountedFor, ConfirmedIsReal,
        CrashIsClassified, OneOutputPerRun, CompletedMeansSettled, WriteInv
<1>17. ASSUME NEW r \in Runs, IntentFault(r)
      PROVE  WriteInv'
    <2>1. PICK c \in Calls : worker[r].call = c
        BY <1>17 DEF IntentFault, Working, ThreadsAgree
    <2>2. main.run = r /\ main.pc = "await" /\ main.cur = c
        BY <1>17, <2>1 DEF IntentFault, Working, OrphansAreLate, LockHeld, Awaits, WorkerIsAwaited
    <2>3. WorkerMoves(r, "done", "journal")
        BY <1>17, DoneShows, EntersShows DEF IntentFault, Working, ThreadsAgree
    <2>4. (OutcomeIsTrue /\ ThreadsAgree /\ BatchIsOpen /\ TurnsAreKept /\ SuccessIsBacked
           /\ WorkerIsAwaited /\ OrphansAreLate /\ GoesOnClean /\ TargetIsKnown
           /\ CreatedIsIntended /\ FilesAreAccountedFor /\ OneOutputPerRun
           /\ CompletedMeansSettled)'
        BY <1>17, <2>1, <2>2, <2>3 DEF OutcomeIsTrue, IntentFault, WorkerMoves, ThreadsAgree,
            Working, Fault, Done, journal, BatchIsOpen, Unfinished, Open, Terminal, TurnsAreKept,
            Asked, SuccessIsBacked, WorkerIsAwaited, ThreadsTyped, MainState, OrphansAreLate,
            LockHeld, Awaits, TooLate, GoesOnClean, TargetIsKnown, UnknownTarget, CreatedIsIntended,
            FilesAreAccountedFor, ConfirmedIsReal, CrashIsClassified, OneOutputPerRun,
            CompletedMeansSettled
    <2>5. ThreadsTyped'
        <3>1. faults' \in 0..MaxFaults
            BY <1>17, WriteRunAssumption DEF IntentFault, Fault, ThreadsTyped
        <3>2. created' \subseteq Runs \X Calls /\ exists' \in BOOLEAN
            BY <1>17, <2>1 DEF IntentFault, Creates, ThreadsTyped
        <3>3. worker' \in [Runs -> WorkerState]
            BY <2>3 DEF WorkerMoves
        <3> QED BY <1>17, <3>1, <3>2, <3>3 DEF IntentFault, ThreadsTyped
    <2> QED BY <2>4, <2>5, <1>b DEF WriteInv
<1>18. ASSUME NEW r \in Runs, LinkFault(r)
      PROVE  WriteInv'
    <2>1. PICK c \in Calls : worker[r].call = c
        BY <1>18 DEF LinkFault, Working, ThreadsAgree
    <2>2. main.run = r /\ main.pc = "await" /\ main.cur = c
        BY <1>18, <2>1 DEF LinkFault, Working, OrphansAreLate, LockHeld, Awaits, WorkerIsAwaited
    <2>3. WorkerMoves(r, "done", "unknown")
        BY <1>18, DoneShows, EntersShows DEF LinkFault, Working, ThreadsAgree
    <2>4. (OutcomeIsTrue /\ ThreadsAgree /\ BatchIsOpen /\ TurnsAreKept /\ SuccessIsBacked
           /\ OrphansAreLate /\ GoesOnClean /\ TargetIsKnown)'
        BY <1>18, <2>1, <2>2, <2>3 DEF OutcomeIsTrue, LinkFault, WorkerMoves, ThreadsAgree, Working,
            Fault, Done, Creates, journal, BatchIsOpen, Unfinished, Open, TurnsAreKept, Asked,
            SuccessIsBacked, OrphansAreLate, LockHeld, Awaits, TooLate, GoesOnClean, TargetIsKnown,
            UnknownTarget
    <2>5. ThreadsTyped'
        <3>1. faults' \in 0..MaxFaults
            BY <1>18, WriteRunAssumption DEF LinkFault, Fault, ThreadsTyped
        <3>2. created' = created \/ created' = created \cup {<<r, c>>}
            BY <1>18, <2>1 DEF LinkFault, Creates
        <3>3. <<r, c>> \in Runs \X Calls
            OBVIOUS
        <3>4. created' \subseteq Runs \X Calls
            BY <3>2, <3>3 DEF ThreadsTyped
        <3>5. exists' \in BOOLEAN
            BY <1>18 DEF LinkFault, Creates, ThreadsTyped
        <3>6. worker' \in [Runs -> WorkerState]
            BY <2>3 DEF WorkerMoves
        <3> QED BY <1>18, <3>1, <3>4, <3>5, <3>6 DEF LinkFault, ThreadsTyped
    <2>6. WorkerIsAwaited'
        BY <1>18, <2>1, <2>2, <2>3 DEF WorkerIsAwaited, journal, LinkFault, Working, Fault, Done,
            Creates, ThreadsTyped, ThreadsAgree, MainState
    <2>7. CreatedIsIntended'
        BY <1>18, <2>1, <2>2, <2>3 DEF CreatedIsIntended, LinkFault, Working, Fault, Done, Creates,
            journal, ThreadsTyped, ThreadsAgree, BatchIsOpen, TurnsAreKept, SuccessIsBacked,
            WorkerIsAwaited
    <2>8. FilesAreAccountedFor'
        BY <1>18, <2>1, <2>2, <2>3 DEF FilesAreAccountedFor, ConfirmedIsReal, CrashIsClassified,
            LinkFault, Working, Fault, Done, Creates, journal, ThreadsTyped, ThreadsAgree,
            BatchIsOpen, TurnsAreKept, SuccessIsBacked, WorkerIsAwaited, OrphansAreLate,
            GoesOnClean, TargetIsKnown, CreatedIsIntended, OneOutputPerRun, CompletedMeansSettled,
            MainState, WorkerState, Unfinished, Open, Asked, LockHeld, Awaits, TooLate,
            UnknownTarget, Finishes, Terminal
    <2>9. OneOutputPerRun'
        BY <1>18, <2>1, <2>2, <2>3 DEF OneOutputPerRun, LinkFault, Working, Fault, Done, Creates,
            journal, ThreadsTyped, ThreadsAgree, OrphansAreLate, GoesOnClean, TargetIsKnown,
            CreatedIsIntended
    <2>10. CompletedMeansSettled'
        <3>1. run[r].state # "completed"
            BY <2>2, JournalAssumption DEF BatchIsOpen, Unfinished, Terminal
        <3>2. \A q \in Runs, d \in Calls : <<q, d>> \in created' => <<q, d>> \in created \/ q = r
            BY <1>18 DEF LinkFault, Creates
        <3>3. UNCHANGED journal
            BY <1>18 DEF LinkFault
        <3> QED BY <3>1, <3>2, <3>3 DEF CompletedMeansSettled, journal, Open
    <2> QED BY <2>4, <2>5, <2>6, <2>7, <2>8, <2>9, <2>10, <1>b DEF WriteInv
<1>19. ASSUME NEW r \in Runs, ReceiptFault(r)
      PROVE  WriteInv'
    <2>1. PICK c \in Calls : worker[r].call = c
        BY <1>19 DEF ReceiptFault, Working, ThreadsAgree
    <2>2. main.run = r /\ main.pc = "await" /\ main.cur = c
        BY <1>19, <2>1 DEF ReceiptFault, Working, OrphansAreLate, LockHeld, Awaits, WorkerIsAwaited
    <2>3. WorkerMoves(r, "done", "unknown")
        BY <1>19, DoneShows, EntersShows DEF ReceiptFault, Working, ThreadsAgree
    <2>4. (OutcomeIsTrue /\ ThreadsAgree /\ BatchIsOpen /\ TurnsAreKept /\ SuccessIsBacked
           /\ WorkerIsAwaited /\ OrphansAreLate /\ GoesOnClean /\ TargetIsKnown
           /\ CreatedIsIntended /\ FilesAreAccountedFor /\ OneOutputPerRun
           /\ CompletedMeansSettled)'
        BY <1>19, <2>1, <2>2, <2>3 DEF OutcomeIsTrue, ReceiptFault, WorkerMoves, ThreadsAgree,
            Working, Fault, Done, journal, BatchIsOpen, Unfinished, Open, Terminal, TurnsAreKept,
            Asked, SuccessIsBacked, WorkerIsAwaited, ThreadsTyped, MainState, OrphansAreLate,
            LockHeld, Awaits, TooLate, GoesOnClean, TargetIsKnown, UnknownTarget, CreatedIsIntended,
            FilesAreAccountedFor, ConfirmedIsReal, CrashIsClassified, OneOutputPerRun,
            CompletedMeansSettled
    <2>5. ThreadsTyped'
        <3>1. faults' \in 0..MaxFaults
            BY <1>19, WriteRunAssumption DEF ReceiptFault, Fault, ThreadsTyped
        <3>2. created' \subseteq Runs \X Calls /\ exists' \in BOOLEAN
            BY <1>19, <2>1 DEF ReceiptFault, Creates, ThreadsTyped
        <3>3. worker' \in [Runs -> WorkerState]
            BY <2>3 DEF WorkerMoves
        <3> QED BY <1>19, <3>1, <3>2, <3>3 DEF ReceiptFault, ThreadsTyped
    <2> QED BY <2>4, <2>5, <1>b DEF WriteInv
<1>20. ASSUME NEW r \in Runs, Start(r)
      PROVE  WriteInv'
    <2>1. Submitted(r)
        BY <1>20, <1>a, SubmitShows DEF Start
    <2>2. /\ main' \in MainState /\ main'.run = r /\ main'.pc = "prepare" /\ main'.cur = None
          /\ main'.todo = {}
          /\ main'.act = "continue"
          /\ main'.res = "fail"
          /\ main'.ends = "failed"
        BY <1>20, NothingActive DEF Start, Idle, MainState
    <2>3. OutcomeIsTrue'
        BY <1>20, <2>1, <2>2, StoredRows, JournalAssumption DEF OutcomeIsTrue, Start, Submitted
    <2>4. ThreadsTyped'
        BY <1>20, <2>1, <2>2, NothingActive, JournalAssumption DEF ThreadsTyped, Start, Submitted
    <2>5. ThreadsAgree' BY <1>20, <2>1, <2>2, JournalAssumption DEF ThreadsAgree, Start, Submitted
    <2>6. BatchIsOpen'
        BY <1>20, <2>1, <2>2, StoredRows, JournalAssumption DEF BatchIsOpen, Unfinished, Open,
            Terminal, Start, Submitted
    <2>7. TurnsAreKept'
        BY <1>20, <2>1, <2>2, StoredRows, JournalAssumption DEF TurnsAreKept, Asked, Start,
            Submitted
    <2>8. SuccessIsBacked'
        BY <1>20, <2>1, <2>2, StoredRows, JournalAssumption DEF SuccessIsBacked, Start, Submitted
    <2>9. WorkerIsAwaited'
        BY <1>20, <2>1, <2>2, StoredRows, JournalAssumption DEF WorkerIsAwaited, Start, Submitted
    <2>10. OrphansAreLate'
        BY <1>20, <2>1, <2>2, JournalAssumption DEF OrphansAreLate, LockHeld, Awaits, TooLate,
            Start, Submitted
    <2>11. GoesOnClean'
        <3>1. ASSUME NEW d \in Calls
              PROVE  call'[r][d].rec # "WRITE_OUTCOME_UNKNOWN" /\ <<r, d>> \notin created'
            <4>1. /\ call[r][d].stage = "absent" /\ call[r][d].intent = None
                  /\ call[r][d].rec = "none"
                BY <2>1, StoredRows DEF Submitted
            <4>2. <<r, d>> \notin created
                BY <4>1, PayloadsAreNamed DEF CreatedIsIntended
            <4> QED BY <1>20, <2>1, <4>1, <4>2 DEF Start, Submitted
        <3> QED BY <2>2, <3>1 DEF GoesOnClean
    <2>12. TargetIsKnown'
        BY <1>20, <2>1, <2>2, StoredRows, JournalAssumption DEF TargetIsKnown, Start, Submitted
    <2>13. CreatedIsIntended'
        BY <1>20, <2>1, <2>2, <1>b, StoredRows, JournalAssumption DEF CreatedIsIntended, Start,
            Submitted
    <2>14. FilesAreAccountedFor'
        BY <1>20, <2>1, <2>2, <1>b, StoredRows, JournalAssumption DEF FilesAreAccountedFor,
            ConfirmedIsReal, CrashIsClassified, Start, Submitted, Idle
    <2>15. OneOutputPerRun'
        BY <1>20, <2>1, <2>2, StoredRows, JournalAssumption DEF OneOutputPerRun, Start, Submitted
    <2>16. CompletedMeansSettled'
        BY <1>20, <2>1, <2>2, <1>b, StoredRows, JournalAssumption DEF CompletedMeansSettled, Open,
            Start, Submitted
    <2> QED BY <2>3, <2>4, <2>5, <2>6, <2>7, <2>8, <2>9, <2>10, <2>11, <2>12, <2>13, <2>14, <2>15,
        <2>16, <1>b DEF WriteInv
<1>21. ASSUME NEW d \in {"allowed", "denied"}, Decide(d)
      PROVE  WriteInv'
    <2>1. PICK r \in Runs, c \in Calls : main.run = r /\ main.cur = c
        BY <1>21, JournalAssumption DEF Decide, Main, ThreadsTyped, ThreadsAgree, MainState
    <2>2. Decided(r, c)
        BY <1>21, <1>a, <2>1, DecisionShows DEF Decide
    <2>3. OutcomeIsTrue'
        BY <1>21, <2>1, <2>2, StoredRows DEF OutcomeIsTrue, Asked, TooLate, Decide, Decided,
            StaysOpen, SameColumns, SameCalls, Main, Stopped, Terminal
    <2>4. ThreadsTyped'
        BY <1>21, <2>1, <2>2 DEF ThreadsTyped, Decide, Decided, StaysOpen, SameColumns, SameCalls
    <2>5. ThreadsAgree'
        BY <1>21, <2>1, <2>2 DEF ThreadsAgree, Decide, Decided, StaysOpen, SameColumns, SameCalls
    <2>6. BatchIsOpen'
        BY <1>21, <2>1, <2>2, StoredRows DEF BatchIsOpen, Unfinished, Open, Decide, Decided,
            StaysOpen, SameColumns, SameCalls
    <2>7. TurnsAreKept'
        BY <1>21, <2>1, <2>2, StoredRows DEF TurnsAreKept, Decide, Decided, StaysOpen, SameColumns,
            SameCalls, ThreadsTyped, MainState, WorkerState
    <2>8. SuccessIsBacked'
        BY <1>21, <2>1, <2>2, StoredRows DEF SuccessIsBacked, Decide, Decided, StaysOpen,
            SameColumns, SameCalls
    <2>9. WorkerIsAwaited'
        BY <1>21, <2>1, <2>2, StoredRows DEF WorkerIsAwaited, journal, Decide, Decided, StaysOpen,
            SameColumns, SameCalls, Main
    <2>10. OrphansAreLate'
        BY <1>21, <2>1, <2>2 DEF OrphansAreLate, LockHeld, Awaits, TooLate, Decide, Decided,
            StaysOpen, SameColumns, SameCalls
    <2>11. GoesOnClean'
        BY <1>21, <2>1, <2>2, StoredRows DEF GoesOnClean, Decide, Decided, StaysOpen, SameColumns,
            SameCalls
    <2>12. TargetIsKnown'
        BY <1>21, <2>1, <2>2, StoredRows DEF TargetIsKnown, UnknownTarget, Decide, Decided,
            StaysOpen, SameColumns, SameCalls, Main
    <2>13. CreatedIsIntended'
        BY <1>21, <2>1, <2>2, <1>b, StoredRows DEF CreatedIsIntended, Decide, Decided, StaysOpen,
            SameColumns, SameCalls
    <2>14. FilesAreAccountedFor'
        BY <1>21, <2>1, <2>2, <1>b, StoredRows DEF FilesAreAccountedFor, ConfirmedIsReal,
            CrashIsClassified, Decide, Decided, StaysOpen, SameColumns, SameCalls, Main, Asked,
            Terminal
    <2>15. OneOutputPerRun'
        BY <1>21, <2>1, <2>2, StoredRows DEF OneOutputPerRun, Decide, Decided, StaysOpen,
            SameColumns, SameCalls
    <2>16. CompletedMeansSettled'
        BY <1>21, <2>1, <2>2, <1>b, StoredRows DEF CompletedMeansSettled, Open, Decide, Decided,
            StaysOpen, SameColumns, SameCalls, Main, Terminal
    <2> QED BY <2>3, <2>4, <2>5, <2>6, <2>7, <2>8, <2>9, <2>10, <2>11, <2>12, <2>13, <2>14, <2>15,
        <2>16, <1>b DEF WriteInv
<1>22. ASSUME Cancel
      PROVE  WriteInv'
    BY <1>22, <1>b DEF OutcomeIsTrue, Asked, TooLate, Cancel, LockHeld, journal, ThreadsTyped,
        MainState, WorkerState, ThreadsAgree, BatchIsOpen, Unfinished, Open, Terminal, TurnsAreKept,
        SuccessIsBacked, WorkerIsAwaited, OrphansAreLate, Awaits, GoesOnClean, TargetIsKnown,
        UnknownTarget, CreatedIsIntended, FilesAreAccountedFor, ConfirmedIsReal, CrashIsClassified,
        OneOutputPerRun, CompletedMeansSettled, WriteInv
<1>23. ASSUME External
      PROVE  WriteInv'
    BY <1>23, <1>b DEF OutcomeIsTrue, Asked, TooLate, External, journal, ThreadsTyped, ThreadsAgree,
        BatchIsOpen, Unfinished, Open, Terminal, TurnsAreKept, SuccessIsBacked, WorkerIsAwaited,
        OrphansAreLate, LockHeld, Awaits, GoesOnClean, TargetIsKnown, UnknownTarget,
        CreatedIsIntended, FilesAreAccountedFor, ConfirmedIsReal, CrashIsClassified,
        OneOutputPerRun, CompletedMeansSettled, WriteInv
<1>24. ASSUME Restart
      PROVE  WriteInv'
    <2>1. \A r \in Runs, c \in Calls : Recovered(r, c)
        BY <1>24, <1>a, RecoverShows DEF Restart
    <2>2. OutcomeIsTrue'
        <3>1. main'.pc = "idle"
            BY <1>24 DEF Restart, Idle
        <3> QED BY <3>1 DEF OutcomeIsTrue
    <2>3. ThreadsTyped'
        BY <1>24, <2>1, NothingActive, JournalAssumption DEF ThreadsTyped, Restart, Recovered
    <2>4. ThreadsAgree'
        BY <1>24, <2>1, JournalAssumption DEF ThreadsAgree, Restart, Recovered, Idle, NoWorker,
            Unfinished
    <2>5. BatchIsOpen'
        BY <1>24, <2>1, StoredRows, JournalAssumption DEF BatchIsOpen, Restart, Recovered, Idle
    <2>6. TurnsAreKept'
        BY <1>24, <2>1, StoredRows, JournalAssumption DEF TurnsAreKept, Asked, Restart, Recovered,
            Idle, NoWorker
    <2>7. SuccessIsBacked'
        BY <1>24, <2>1, StoredRows, JournalAssumption DEF SuccessIsBacked, Asked, Restart,
            Recovered, Idle, NoWorker
    <2>8. WorkerIsAwaited'
        BY <1>24, <2>1, StoredRows, JournalAssumption DEF WorkerIsAwaited, journal, Restart,
            Recovered, Idle, NoWorker
    <2>9. OrphansAreLate'
        BY <1>24, <2>1, JournalAssumption DEF OrphansAreLate, LockHeld, Awaits, TooLate, Restart,
            Recovered, NoWorker
    <2>10. GoesOnClean'
        BY <1>24, <2>1, StoredRows, JournalAssumption DEF GoesOnClean, Restart, Recovered, Idle,
            NoWorker, Unfinished
    <2>11. TargetIsKnown'
        BY <1>24, <2>1, StoredRows, JournalAssumption DEF TargetIsKnown, UnknownTarget, Restart,
            Recovered, Idle, NoWorker
    <2>12. CreatedIsIntended'
        BY <1>24, <2>1, <1>b, StoredRows, JournalAssumption DEF CreatedIsIntended, Restart,
            Recovered
    <2>13. FilesAreAccountedFor'
        <3>1. created' = created
            BY <1>24 DEF Restart
        <3>2. ASSUME NEW r \in Runs, NEW c \in Calls
              PROVE  /\ artifact'[r][c] # None =>
                            artifact'[r][c] = <<r, c>> /\ <<r, c>> \in created
                     /\ call'[r][c].stage = "succeeded" /\ Asked(r, c) => artifact'[r][c] # None
            BY <2>1 DEF Recovered, FilesAreAccountedFor, ConfirmedIsReal, Asked
        <3>3. ConfirmedIsReal'
            <4>1. \A r \in Runs, c \in Calls : Asked(r, c)' <=> Asked(r, c)
                BY <2>1 DEF Recovered
            <4> QED BY <3>1, <3>2, <4>1 DEF ConfirmedIsReal, Asked
        <3>4. ASSUME NEW r \in Runs, NEW c \in Calls, run'[r].state = "interrupted",
                     <<r, c>> \in created, call'[r][c].result = 0
              PROVE  artifact'[r][c] # None \/ call'[r][c].rec = "WRITE_OUTCOME_UNKNOWN"
            <4>1. CASE Unfinished(r)
                <5>1. call[r][c].intent # None
                    BY <3>4, PayloadsAreNamed DEF CreatedIsIntended
                <5>2. Dangling(r, c) \/ artifact[r][c] # None
                    BY <2>1, <3>4, <5>1, StoredRows DEF Dangling, Recovered
                <5> QED BY <2>1, <4>1, <5>2 DEF Recovered
            <4>2. CASE ~Unfinished(r)
                BY <2>1, <3>4, <4>2 DEF Recovered, FilesAreAccountedFor, CrashIsClassified
            <4> QED BY <4>1, <4>2
        <3>5. CrashIsClassified'
            BY <3>1, <3>4 DEF CrashIsClassified
        <3> QED BY <3>3, <3>5 DEF FilesAreAccountedFor
    <2>14. OneOutputPerRun'
        BY <1>24, <2>1, StoredRows, JournalAssumption DEF OneOutputPerRun, Restart, Recovered
    <2>15. CompletedMeansSettled'
        BY <1>24, <2>1, <1>b, StoredRows, JournalAssumption DEF CompletedMeansSettled, Open,
            Restart, Recovered, Idle, NoWorker
    <2> QED BY <2>2, <2>3, <2>4, <2>5, <2>6, <2>7, <2>8, <2>9, <2>10, <2>11, <2>12, <2>13, <2>14,
        <2>15, <1>b DEF WriteInv
<1>25. ASSUME UNCHANGED vars
      PROVE  WriteInv'
    BY <1>25, <1>b DEF OutcomeIsTrue, Asked, TooLate, vars, ThreadsTyped, ThreadsAgree, BatchIsOpen,
        Unfinished, Open, Terminal, TurnsAreKept, SuccessIsBacked, WorkerIsAwaited, OrphansAreLate,
        LockHeld, Awaits, GoesOnClean, TargetIsKnown, UnknownTarget, CreatedIsIntended,
        FilesAreAccountedFor, ConfirmedIsReal, CrashIsClassified, OneOutputPerRun,
        CompletedMeansSettled, WriteInv
<1> QED BY <1>1, <1>2, <1>3, <1>4, <1>5, <1>6, <1>7, <1>8, <1>9, <1>10, <1>11, <1>12, <1>13, <1>14,
        <1>15, <1>16, <1>17, <1>18, <1>19, <1>20, <1>21, <1>22, <1>23, <1>24, <1>25 DEF WriteNext,
        MainStep, WorkerStep, FaultStep, UserStep

LEMMA WriteInitInv == WriteInit => WriteInv
<1> SUFFICES ASSUME WriteInit PROVE WriteInv
    OBVIOUS
<1>1. JournalInv
    BY JournalInitInv DEF WriteInit
<1>2. /\ main = Idle /\ created = {}
      /\ \A r \in Runs : worker[r] = NoWorker /\ run[r] = NoRun
      /\ \A r \in Runs, c \in Calls : call[r][c] = NoCall /\ artifact[r][c] = None
    BY DEF WriteInit, JournalInit
<1>3. ThreadsTyped
    <2>1. faults \in 0..MaxFaults
        BY WriteRunAssumption DEF WriteInit
    <2>2. flags \in [Runs -> SUBSET {"cancel", "run", "tool", "approval"}]
        BY DEF WriteInit
    <2> QED BY <1>2, <2>1, <2>2, NothingActive DEF WriteInit, ThreadsTyped
<1>4. ThreadsAgree /\ OrphansAreLate
    BY <1>2 DEF ThreadsAgree, OrphansAreLate, LockHeld, Idle, NoWorker
<1>5. BatchIsOpen /\ TurnsAreKept /\ SuccessIsBacked /\ WorkerIsAwaited
    BY <1>2 DEF BatchIsOpen, TurnsAreKept, SuccessIsBacked, WorkerIsAwaited, Idle
<1>6. GoesOnClean /\ TargetIsKnown /\ CreatedIsIntended /\ OneOutputPerRun
    BY <1>2 DEF GoesOnClean, TargetIsKnown, CreatedIsIntended, OneOutputPerRun, Idle
<1>7. FilesAreAccountedFor /\ CompletedMeansSettled
    BY <1>2 DEF FilesAreAccountedFor, ConfirmedIsReal, CrashIsClassified, CompletedMeansSettled,
        NoRun, NoCall
<1>8. OpenCallsStand /\ DecisionsStand /\ OutcomeIsTrue
    <2>1. \A a \in Approvals : approval[a] = NoApproval
        BY DEF WriteInit, JournalInit
    <2> QED BY <1>2, <2>1, JournalAssumption
            DEF OpenCallsStand, DecisionsStand, DecisionStands, OutcomeIsTrue, NoCall, NoApproval, Idle
<1> QED BY <1>1, <1>3, <1>4, <1>5, <1>6, <1>7, <1>8 DEF WriteInv, TablesInv

LEMMA WriteInvariant == WriteSpec => []WriteInv
BY WriteInitInv, WriteStep, PTL DEF WriteSpec

-----------------------------------------------------------------------------
\* The files, the threads and the rows have their types.
THEOREM WriteTyping == WriteSpec => []WriteTypeOK
<1>1. WriteInv => WriteTypeOK
    BY DEF WriteInv, TablesInv, JournalInv, ThreadsTyped, WriteTypeOK
<1> QED BY <1>1, WriteInvariant, PTL

\* The run thread, the workers they leave behind, the user and the restarts only ever use the
\* journal as its tables allow: what holds of every history of RunJournal holds here.
THEOREM KeepsJournal == WriteSpec => JournalSpec
<1>1. WriteInit => JournalInit
    BY DEF WriteInit
<1>2. WriteInv /\ [WriteNext]_vars => [JournalNext]_journal
    BY ProtocolStep DEF WriteInv, TablesInv, JournalInv
<1> QED BY <1>1, <1>2, WriteInvariant, PTL DEF WriteSpec, JournalSpec

\* Nothing is called written that is not, and after a crash nothing that is written is called
\* "not executed".
THEOREM FilesAccounted == WriteSpec => []FilesAreAccountedFor
<1>1. WriteInv => FilesAreAccountedFor
    BY DEF WriteInv
<1> QED BY <1>1, WriteInvariant, PTL

\* A run has one output at most, also when somebody removes it meanwhile.
THEOREM OneOutput == WriteSpec => []OneOutputPerRun
<1>1. WriteInv => OneOutputPerRun
    BY DEF WriteInv
<1> QED BY <1>1, WriteInvariant, PTL

\* A run that completed left nothing open, unknown or unrecorded behind it.
THEOREM CompletedSettles == WriteSpec => []CompletedMeansSettled
<1>1. WriteInv => CompletedMeansSettled
    BY DEF WriteInv
<1> QED BY <1>1, WriteInvariant, PTL

\* A file is created by os.link alone, by the worker that the active run waits for.
LEMMA CreatedByLink ==
    ASSUME WriteInv, [WriteNext]_vars, created' # created
    PROVE  \E r \in Runs, c \in Calls :
               /\ created' = created \cup {<<r, c>>}
               /\ main.run = r /\ main.pc = "await" /\ main.cur = c
               /\ worker[r].pc = "link" /\ worker[r].call = c
<1>1. PICK r \in Runs : Link(r) \/ LinkFault(r)
    <2>1. ASSUME \/ Prepare \/ LoopEnds \/ ModelEnds \/ ModelText \/ Answer \/ BatchEnds \/ Invoke
                 \/ ReadEnds \/ AskRefused \/ WaitEnds \/ TakeResult \/ GiveUp \/ TraceFault
                 \/ JournalFault
          PROVE  UNCHANGED created
        BY <2>1, QuietActions DEF QuietStep, Quiet
    <2>2. ASSUME Request \/ ReadStarts \/ Launch \/ Record \/ Finish
          PROVE  UNCHANGED created
        BY <2>2 DEF Request, ReadStarts, Launch, Record, Finish
    <2>3. ASSUME NEW c \in Calls, NextCall(c) \/ SkipCall(c)
          PROVE  UNCHANGED created
        BY <2>3 DEF NextCall, SkipCall
    <2>4. ASSUME NEW calls \in SUBSET Calls, ModelCalls(calls)
          PROVE  UNCHANGED created
        BY <2>4 DEF ModelCalls
    <2>5. ASSUME NEW a \in Approvals, Ask(a)
          PROVE  UNCHANGED created
        BY <2>5 DEF Ask
    <2>6. ASSUME NEW r \in Runs, \/ Stage(r) \/ EnterCommit(r) \/ Intent(r) \/ Receipt(r)
                                 \/ IntentFault(r) \/ ReceiptFault(r) \/ Start(r)
          PROVE  UNCHANGED created
        BY <2>6 DEF Stage, EnterCommit, Intent, Receipt, IntentFault, ReceiptFault, Start
    <2>7. ASSUME NEW d, Decide(d) \/ Expire(d)
          PROVE  UNCHANGED created
        BY <2>7 DEF Decide, Expire
    <2>8. ASSUME Cancel \/ External \/ Restart \/ UNCHANGED vars
          PROVE  UNCHANGED created
        BY <2>8 DEF Cancel, External, Restart, vars
    <2> QED BY <2>1, <2>2, <2>3, <2>4, <2>5, <2>6, <2>7, <2>8
            DEF WriteNext, MainStep, WorkerStep, FaultStep, UserStep
<1>2. worker[r].pc = "link" /\ created' = created \cup {<<r, worker[r].call>>}
    BY <1>1 DEF Link, LinkFault, Working, Creates
<1>3. main.run = r /\ main.pc = "await"
    BY <1>2 DEF WriteInv, OrphansAreLate, LockHeld, Awaits
<1>4. worker[r].call = main.cur /\ worker[r].call \in Calls
    BY <1>2, <1>3 DEF WriteInv, WorkerIsAwaited, ThreadsAgree
<1> QED BY <1>2, <1>3, <1>4

\* When a file appears, the approval of this very call and its intent are stored, no outcome
\* of the call is recorded, the run is unfinished and the user has not cancelled it.
THEOREM PublicationCovered == WriteSpec => PublicationIsCovered
<1> DEFINE Covered == \A r \in Runs, c \in Calls : <<r, c>> \in created' \ created =>
                          /\ Allowed(r, c) /\ call[r][c].intent = <<r, c>>
                          /\ call[r][c].result = 0 /\ run[r].finished_at = "null"
                          /\ "cancel" \notin flags[r]
<1>1. WriteInv /\ [WriteNext]_vars => Covered
    <2> SUFFICES ASSUME WriteInv, [WriteNext]_vars, NEW r \in Runs, NEW c \in Calls,
                        <<r, c>> \in created' \ created
                 PROVE  /\ Allowed(r, c) /\ call[r][c].intent = <<r, c>>
                        /\ call[r][c].result = 0 /\ run[r].finished_at = "null"
                        /\ "cancel" \notin flags[r]
        OBVIOUS
    <2>1. /\ main.run = r /\ main.pc = "await" /\ main.cur = c
          /\ worker[r].pc = "link" /\ worker[r].call = c
        BY CreatedByLink
    <2>2. Unfinished(r)
        BY <2>1, JournalAssumption DEF WriteInv, BatchIsOpen
    <2>3. "cancel" \notin flags[r]
        BY <2>1 DEF WriteInv, OrphansAreLate, LockHeld
    <2>4. call[r][c].intent = <<r, c>> /\ call[r][c].stage = "started"
        BY <2>1 DEF WriteInv, WorkerIsAwaited, ThreadsAgree
    <2>5. call[r][c].result = 0
        BY <2>4, StoredRows DEF WriteInv, TablesInv
    <2>6. Allowed(r, c)
        <3>1. Consented(r, c)
            BY <2>4, PayloadsAreNamed DEF WriteInv, TablesInv, JournalInv, ColumnsAgree, RowAgrees
        <3>2. PICK a \in Approvals : /\ approval[a].run = r /\ approval[a].call = c
                                     /\ approval[a].decision = "allowed"
            BY <2>2, <3>1 DEF Consented, Unfinished, Terminal
        <3>3. approval[a] = [run |-> r, call |-> c, decision |-> "allowed"]
            BY <3>2 DEF WriteInv, TablesInv, JournalInv, JournalTypeOK, ApprovalRow
        <3> QED BY <3>3 DEF Allowed
    <2> QED BY <2>2, <2>3, <2>4, <2>5, <2>6 DEF Unfinished
<1>2. Covered => [\A r \in Runs, c \in Calls : <<r, c>> \in created' \ created =>
                     /\ Allowed(r, c) /\ call[r][c].intent = <<r, c>> /\ call[r][c].result = 0
                     /\ run[r].finished_at = "null"
                     /\ "cancel" \notin flags[r]]_vars
    OBVIOUS
<1> QED BY <1>1, <1>2, WriteInvariant, PTL DEF WriteSpec, PublicationIsCovered

\* While the outcome of a write to the target is recorded as unknown, nobody creates it.
THEOREM UnknownBlocks == WriteSpec => UnknownBlocksTarget
<1>1. WriteInv /\ [WriteNext]_vars => [UnknownTarget => created' = created]_vars
    <2> SUFFICES ASSUME WriteInv, [WriteNext]_vars, UnknownTarget
                 PROVE  created' = created
        OBVIOUS
    <2>1. main.act = "continue" => main.pc # "await"
        BY DEF WriteInv, TargetIsKnown
    <2>2. main.pc # "await"
        BY <2>1 DEF WriteInv, ThreadsAgree
    <2> QED BY <2>2, CreatedByLink
<1> QED BY <1>1, WriteInvariant, PTL DEF WriteSpec, UnknownBlocksTarget

-----------------------------------------------------------------------------
(* The contract of a write.                                                *)

\* What is stored of the consent to call c of run r and of its outcome stays the same.
Stays(r, c) ==
    StoredConsent(r, c)' = StoredConsent(r, c) /\ StoredOutcome(r, c)' = StoredOutcome(r, c)

OthersStay(r, c) == \A q \in Runs, d \in Calls : q # r \/ d # c => Stays(q, d)

Consent(decision) == CASE decision = "pending" -> "asked"
                       [] decision = "expired" -> "lapsed"
                       [] OTHER -> decision

\* How the contract reads the rows: the one approval of a call is its consent.
RowsAreRead ==
    \A r \in Runs, c \in Calls :
        /\ ~Asked(r, c) => StoredConsent(r, c) = "none" /\ StoredOutcome(r, c) = "none"
        /\ Asked(r, c) => StoredOutcome(r, c) =
               IF call[r][c].rec = "WRITE_OUTCOME_UNKNOWN" THEN "unknown"
               ELSE IF artifact[r][c] # None THEN "ok"
               ELSE IF call[r][c].stage \in {"failed", "interrupted"}
                       \/ (call[r][c].stage = "skipped" /\ call[r][c].result # 0) THEN "fail"
               ELSE "none"
        /\ OneApprovalPerCall => \A a \in Approvals :
               approval[a].run = r /\ approval[a].call = c /\ approval[a].decision # "absent" =>
                   StoredConsent(r, c) = Consent(approval[a].decision)

LEMMA ReadsRows == RowsAreRead
<1> SUFFICES ASSUME NEW r \in Runs, NEW c \in Calls
             PROVE  /\ ~Asked(r, c) => StoredConsent(r, c) = "none" /\ StoredOutcome(r, c) = "none"
                    /\ Asked(r, c) => StoredOutcome(r, c) =
                           IF call[r][c].rec = "WRITE_OUTCOME_UNKNOWN" THEN "unknown"
                           ELSE IF artifact[r][c] # None THEN "ok"
                           ELSE IF call[r][c].stage \in {"failed", "interrupted"}
                                   \/ (call[r][c].stage = "skipped" /\ call[r][c].result # 0)
                                THEN "fail"
                           ELSE "none"
                    /\ OneApprovalPerCall => \A a \in Approvals :
                           (approval[a].run = r /\ approval[a].call = c
                                /\ approval[a].decision # "absent") =>
                               StoredConsent(r, c) = Consent(approval[a].decision)
    BY DEF RowsAreRead
<1>1. Asked(r, c) <=> AskedFor(r, c) # {}
    BY DEF Asked, AskedFor
<1>2. ASSUME OneApprovalPerCall, NEW a \in Approvals,
             approval[a].run = r, approval[a].call = c, approval[a].decision # "absent"
      PROVE  StoredConsent(r, c) = Consent(approval[a].decision)
    <2>1. AskedFor(r, c) = {a}
        BY <1>2 DEF OneApprovalPerCall, AskedFor
    <2>2. (CHOOSE b \in AskedFor(r, c) : TRUE) = a
        BY <2>1
    <2> QED BY <2>1, <2>2 DEF StoredConsent, Consent
<1> QED BY <1>1, <1>2 DEF StoredConsent, StoredOutcome

LEMMA ReadsNextRows == RowsAreRead'
BY ReadsRows, PTL

\* The outcome of a write is open while its call stands and nothing is recorded of it.
LEMMA OutcomeOpen ==
    ASSUME JournalInv, OpenCallsStand, NEW r \in Runs, NEW c \in Calls,
           Unfinished(r), call[r][c].result = 0, artifact[r][c] = None
    PROVE  StoredOutcome(r, c) = "none"
<1>1. CASE Asked(r, c)
    <2>1. call[r][c].rec # "WRITE_OUTCOME_UNKNOWN"
        BY DEF JournalInv, ColumnsAgree, RowAgrees, Unfinished, Terminal
    <2> QED BY <1>1, <2>1, ReadsRows DEF OpenCallsStand, RowsAreRead
<1> QED BY <1>1, ReadsRows DEF RowsAreRead

\* Rows that do not change are told as before.
LEMMA RowsStay ==
    ASSUME NEW r \in Runs, NEW c \in Calls, approval' = approval,
           call'[r][c].rec = call[r][c].rec, artifact'[r][c] = artifact[r][c],
           call'[r][c].stage \in {"failed", "interrupted"} <=>
               call[r][c].stage \in {"failed", "interrupted"},
           (call'[r][c].stage = "skipped" /\ call'[r][c].result # 0) <=>
               (call[r][c].stage = "skipped" /\ call[r][c].result # 0)
    PROVE  Stays(r, c)
<1>1. AskedFor(r, c)' = AskedFor(r, c)
    BY DEF AskedFor
<1>2. StoredConsent(r, c)' = StoredConsent(r, c)
    BY <1>1 DEF StoredConsent
<1>3. StoredOutcome(r, c)' = StoredOutcome(r, c)
    BY <1>1 DEF StoredOutcome
<1> QED BY <1>2, <1>3 DEF Stays

-----------------------------------------------------------------------------
\* The steps of the contract.

LEMMA WriteStutters ==
    ASSUME \A r \in Runs, c \in Calls : Stays(r, c), UNCHANGED <<created, flags>>
    PROVE  [Contract!ContractNext]_(Contract!contract)
BY DEF Stays, Contract!contract, TooLate

LEMMA WriteIsAsked ==
    ASSUME NEW r \in Runs, NEW c \in Calls, OthersStay(r, c), UNCHANGED <<created, flags>>,
           StoredConsent(r, c) = "none", StoredConsent(r, c)' = "asked",
           StoredOutcome(r, c) = "none", StoredOutcome(r, c)' = "none"
    PROVE  Contract!ContractNext
<1>1. \A w \in Runs \X Calls :
          /\ StoredConsent(w[1], w[2])' = IF w = <<r, c>> THEN "asked" ELSE StoredConsent(w[1], w[2])
          /\ StoredOutcome(w[1], w[2])' = StoredOutcome(w[1], w[2])
    BY DEF OthersStay, Stays
<1>2. Contract!Ask(<<r, c>>)
    BY <1>1 DEF Contract!Ask, TooLate
<1> QED BY <1>2 DEF Contract!ContractNext

LEMMA WriteIsAnswered ==
    ASSUME NEW r \in Runs, NEW c \in Calls, NEW d \in {"allowed", "denied"}, OthersStay(r, c),
           UNCHANGED <<created, flags>>,
           StoredConsent(r, c) = "asked", StoredConsent(r, c)' = d,
           StoredOutcome(r, c) = "none", StoredOutcome(r, c)' = "none"
    PROVE  Contract!ContractNext
<1>1. \A w \in Runs \X Calls :
          /\ StoredConsent(w[1], w[2])' = IF w = <<r, c>> THEN d ELSE StoredConsent(w[1], w[2])
          /\ StoredOutcome(w[1], w[2])' = StoredOutcome(w[1], w[2])
    BY DEF OthersStay, Stays
<1>2. Contract!Answer(<<r, c>>, d)
    BY <1>1 DEF Contract!Answer, TooLate
<1> QED BY <1>2 DEF Contract!ContractNext

LEMMA WriteIsMade ==
    ASSUME NEW r \in Runs, NEW c \in Calls, \A q \in Runs, d \in Calls : Stays(q, d),
           created' = created \cup {<<r, c>>}, <<r, c>> \notin created, UNCHANGED flags,
           StoredConsent(r, c) = "allowed", StoredOutcome(r, c) = "none"
    PROVE  Contract!ContractNext
<1>1. Contract!Make(<<r, c>>)
    BY DEF Stays, Contract!Make, TooLate
<1> QED BY <1>1 DEF Contract!ContractNext

LEMMA WriteIsTold ==
    ASSUME NEW r \in Runs, NEW c \in Calls, NEW o \in {"ok", "fail", "unknown"}, OthersStay(r, c),
           UNCHANGED <<created, flags>>,
           StoredConsent(r, c) # "none", StoredConsent(r, c)' = StoredConsent(r, c),
           StoredOutcome(r, c) = "none", StoredOutcome(r, c)' = o,
           o = "ok" => <<r, c>> \in created,
           o = "fail" => <<r, c>> \notin created \/ TooLate(r)
    PROVE  Contract!ContractNext
<1>1. o \in Contract!Tellable(<<r, c>>)
    BY DEF Contract!Tellable
<1>2. \A w \in Runs \X Calls :
          /\ StoredConsent(w[1], w[2])' = StoredConsent(w[1], w[2])
          /\ StoredOutcome(w[1], w[2])' = IF w = <<r, c>> THEN o ELSE StoredOutcome(w[1], w[2])
    BY DEF OthersStay, Stays
<1>3. Contract!Tell(<<r, c>>)
    BY <1>1, <1>2 DEF Contract!Tell, TooLate
<1> QED BY <1>3 DEF Contract!ContractNext

LEMMA RunIsHalted ==
    ASSUME \A q \in Runs, d \in Calls : Stays(q, d), UNCHANGED created,
           \A q \in Runs : flags[q] \subseteq flags'[q]
    PROVE  Contract!ContractNext
<1> DEFINE S == {w \in Runs \X Calls : TooLate(w[1])'}
<1>1. Contract!Halt(S)
    BY DEF Stays, Contract!Halt, TooLate
<1> QED BY <1>1 DEF Contract!ContractNext

\* Every consent that a restart finds open lapses, and what it leaves untold is told.
LEMMA WritesAreSettled ==
    ASSUME NEW S \in SUBSET (Runs \X Calls), UNCHANGED <<created, flags>>,
           \A r \in Runs, c \in Calls :
               IF <<r, c>> \in S
               THEN /\ StoredConsent(r, c) \in {"asked", "allowed"}
                    /\ StoredConsent(r, c)' = "lapsed"
                    /\ StoredOutcome(r, c)' \in {"ok", "fail", "unknown"}
                    /\ IF StoredOutcome(r, c) # "none"
                       THEN StoredOutcome(r, c)' = StoredOutcome(r, c)
                       ELSE /\ StoredOutcome(r, c)' = "ok" => <<r, c>> \in created
                            /\ StoredOutcome(r, c)' = "fail" => <<r, c>> \notin created
               ELSE Stays(r, c),
           \A r \in Runs, c \in Calls : StoredOutcome(r, c)' \in Contract!Outcomes
    PROVE  Contract!ContractNext
<1>1. Contract!Settle(S)
    BY DEF Stays, Contract!Settle, Contract!Tellable, TooLate
<1> QED BY <1>1 DEF Contract!ContractNext

-----------------------------------------------------------------------------
\* What the steps of the program are in the contract.

LEMMA TablesStay ==
    ASSUME UNCHANGED <<approval, artifact>>, \A r \in Runs, c \in Calls : call'[r][c] = call[r][c]
    PROVE  \A r \in Runs, c \in Calls : Stays(r, c)
BY RowsStay

LEMMA OtherRowsStay ==
    ASSUME NEW r \in Runs, NEW c \in Calls, SameCalls(r, c), approval' = approval,
           \A q \in Runs, d \in Calls : q # r \/ d # c => artifact'[q][d] = artifact[q][d]
    PROVE  OthersStay(r, c)
BY RowsStay DEF OthersStay, SameCalls

\* An approval concerns its own call only.
LEMMA OtherConsentsStay ==
    ASSUME NEW r \in Runs, NEW c \in Calls, NEW a \in Approvals, SameCalls(r, c), UNCHANGED artifact,
           \A b \in Approvals \ {a} : approval'[b] = approval[b],
           approval'[a].run = r, approval'[a].call = c,
           approval[a].run \notin Runs \/ (approval[a].run = r /\ approval[a].call = c)
    PROVE  OthersStay(r, c)
<1> SUFFICES ASSUME NEW q \in Runs, NEW d \in Calls, q # r \/ d # c
             PROVE  Stays(q, d)
    BY DEF OthersStay
<1>1. AskedFor(q, d)' = AskedFor(q, d)
    BY DEF AskedFor
<1>2. \A b \in AskedFor(q, d) : approval'[b] = approval[b]
    BY DEF AskedFor
<1>3. StoredConsent(q, d)' = StoredConsent(q, d)
    BY <1>1, <1>2 DEF StoredConsent
<1>4. call'[q][d] = call[q][d] /\ artifact'[q][d] = artifact[q][d]
    BY DEF SameCalls
<1>5. StoredOutcome(q, d)' = StoredOutcome(q, d)
    BY <1>1, <1>4 DEF StoredOutcome
<1> QED BY <1>3, <1>5 DEF Stays

\* Of calls that nobody was asked about the contract knows nothing.
LEMMA UnaskedStays ==
    ASSUME NEW r \in Runs, NEW c \in Calls, ~Asked(r, c), approval' = approval
    PROVE  Stays(r, c)
<1>1. ~Asked(r, c)'
    BY DEF Asked
<1> QED BY <1>1, ReadsRows, ReadsNextRows DEF RowsAreRead, Stays

LEMMA AskIsAsked ==
    ASSUME WriteInv, WriteInv', NEW a \in Approvals, Ask(a)
    PROVE  Contract!ContractNext
<1>1. /\ JournalInv /\ JournalInv' /\ JournalTypeOK /\ RowsExist /\ OneApprovalPerCall'
      /\ OpenCallsStand /\ OpenCallsStand' /\ ThreadsTyped /\ ThreadsAgree
    BY DEF WriteInv, TablesInv, JournalInv
<1>2. PICK r \in Runs, c \in Calls : main.run = r /\ main.cur = c
    BY <1>1, JournalAssumption DEF Ask, Main, ThreadsTyped, ThreadsAgree, MainState
<1>3. AskedNow(r, c) /\ UNCHANGED <<created, flags>>
    BY <1>1, <1>2, AskShows DEF Ask
<1>4. /\ approval[a].decision = "absent"
      /\ approval'[a].run = r /\ approval'[a].call = c /\ approval'[a].decision = "pending"
      /\ \A b \in Approvals \ {a} : approval'[b] = approval[b]
      /\ \A b \in Approvals : ~(approval[b].run = r /\ approval[b].call = c)
    BY <1>1, <1>2, AskEffect DEF Ask
<1>5. approval[a].run \notin Runs
    BY <1>1, <1>4, JournalAssumption DEF RowsExist, NoApproval
<1>6. OthersStay(r, c)
    BY <1>3, <1>4, <1>5, OtherConsentsStay DEF AskedNow, SameCalls
<1>7. StoredConsent(r, c) = "none" /\ StoredOutcome(r, c) = "none"
    BY <1>4, ReadsRows DEF RowsAreRead, Asked
<1>8. StoredConsent(r, c)' = "asked"
    BY <1>1, <1>4, ReadsNextRows DEF RowsAreRead, Consent
<1>9. StoredOutcome(r, c)' = "none"
    <2>1. call[r][c].result = 0 /\ artifact[r][c] = None /\ Unfinished(r)
          /\ call[r][c].rec # "WRITE_OUTCOME_UNKNOWN"
        BY <1>1, <1>3, StoredRows
        DEF AskedNow, StaysOpen, Unfinished, JournalInv, ColumnsAgree, RowAgrees, Terminal
    <2>2. call' = call /\ artifact' = artifact /\ Asked(r, c)'
        BY <1>3 DEF AskedNow
    <2> QED BY <1>3, <2>1, <2>2, ReadsNextRows DEF RowsAreRead, AskedNow
<1> QED BY <1>3, <1>6, <1>7, <1>8, <1>9, WriteIsAsked

LEMMA DecideAnswers ==
    ASSUME WriteInv, WriteInv', NEW d \in {"allowed", "denied"}, Decide(d)
    PROVE  Contract!ContractNext
<1>1. /\ JournalInv /\ JournalInv' /\ JournalTypeOK /\ RowsExist /\ OneApprovalPerCall
      /\ OneApprovalPerCall' /\ OpenCallsStand /\ DecisionsStand
      /\ ThreadsTyped /\ ThreadsAgree /\ BatchIsOpen /\ GoesOnClean /\ FilesAreAccountedFor
    BY DEF WriteInv, TablesInv, JournalInv
<1>2. PICK r \in Runs, c \in Calls : main.run = r /\ main.cur = c
    BY <1>1, JournalAssumption DEF Decide, Main, ThreadsTyped, ThreadsAgree, MainState
<1>3. PICK a \in Approvals : approval[a].run = r /\ approval[a].call = c
                             /\ RecordApprovalDecision(a, d)
    BY <1>2 DEF Decide
<1>4. /\ approval[a].decision = "pending" /\ approval'[a].decision = d
      /\ approval'[a].run = r /\ approval'[a].call = c /\ SameCalls(r, c)
      /\ \A b \in Approvals \ {a} : approval'[b] = approval[b]
    BY <1>1, <1>3, DecisionEffect
<1>5. Decided(r, c) /\ UNCHANGED <<created, flags>>
    BY <1>1, <1>3, DecisionShows DEF Decide
<1>6. OthersStay(r, c)
    BY <1>3, <1>4, <1>5, OtherConsentsStay DEF Decided
<1>7. StoredConsent(r, c) = "asked" /\ StoredConsent(r, c)' = d
    BY <1>1, <1>3, <1>4, ReadsRows, ReadsNextRows DEF RowsAreRead, Consent
<1>8. Unfinished(r) /\ call[r][c].result = 0 /\ artifact[r][c] = None
      /\ call[r][c].stage # "skipped"
    <2>1. Unfinished(r) /\ c \in main.todo
        BY <1>1, <1>2, JournalAssumption DEF BatchIsOpen
    <2>2. call[r][c].result = 0
        BY <1>1, <1>2, <2>1, JournalAssumption DEF BatchIsOpen, Open, Decide, Main
    <2>3. <<r, c>> \notin created
        BY <1>1, <1>2 DEF GoesOnClean, Decide, Main
    <2>4. artifact[r][c] = None
        BY <1>1, <2>3 DEF FilesAreAccountedFor, ConfirmedIsReal
    <2>5. DecisionStands(a, r, c)
        BY <1>1 DEF DecisionsStand
    <2> QED BY <1>3, <1>4, <2>1, <2>2, <2>4, <2>5 DEF DecisionStands
<1>9. StoredOutcome(r, c) = "none"
    BY <1>1, <1>8, OutcomeOpen
<1>10. StoredOutcome(r, c)' = "none"
    <2>1. /\ call[r][c].rec # "WRITE_OUTCOME_UNKNOWN"
          /\ call[r][c].stage \notin {"failed", "interrupted", "skipped"}
        BY <1>1, <1>8 DEF JournalInv, ColumnsAgree, RowAgrees, Unfinished, Terminal, OpenCallsStand
    <2>2. /\ call'[r][c].rec # "WRITE_OUTCOME_UNKNOWN" /\ call'[r][c].result = 0
          /\ call'[r][c].stage \notin {"failed", "interrupted"} /\ artifact'[r][c] = None
          /\ Asked(r, c)'
        BY <1>5, <1>8, <2>1 DEF Decided, SameColumns
    <2> QED BY <2>2, ReadsNextRows DEF RowsAreRead
<1> QED BY <1>5, <1>6, <1>7, <1>9, <1>10, WriteIsAnswered

\* The result of a write is told when it is recorded, if the receipt did not tell it before.
LEMMA RecordTells ==
    ASSUME WriteInv, Record
    PROVE  [Contract!ContractNext]_(Contract!contract)
<1>1. /\ JournalInv /\ JournalTypeOK /\ RowsExist /\ OpenCallsStand /\ OutcomeIsTrue
      /\ ThreadsTyped /\ ThreadsAgree /\ BatchIsOpen /\ SuccessIsBacked
    BY DEF WriteInv, TablesInv, JournalInv
<1>2. PICK r \in Runs, c \in Calls : main.run = r /\ main.cur = c
    BY <1>1, JournalAssumption DEF Record, Main, ThreadsTyped, ThreadsAgree, MainState
<1>3. PICK kind \in {"ok", "fail", "unknown"} : main.res = kind
    BY <1>1 DEF ThreadsTyped, MainState
<1>4. Resulted(r, c, kind) /\ UNCHANGED <<created, flags>>
    BY <1>1, <1>2, <1>3, ResultShows DEF Record
<1>5. OthersStay(r, c)
    BY <1>4, OtherRowsStay DEF Resulted
<1>6. StoredConsent(r, c)' = StoredConsent(r, c) /\ (Asked(r, c)' <=> Asked(r, c))
    BY <1>4 DEF Resulted, StoredConsent, AskedFor, Asked
<1>7. /\ Unfinished(r) /\ call[r][c].result = 0 /\ call[r][c].rec # "WRITE_OUTCOME_UNKNOWN"
      /\ artifact' = artifact /\ call'[r][c].result # 0
    BY <1>1, <1>4 DEF Resulted, StaysOpen, Unfinished, JournalInv, ColumnsAgree, RowAgrees, Terminal
<1>8. CASE ~Asked(r, c)
    <2>1. Stays(r, c)
        BY <1>4, <1>8, UnaskedStays DEF Resulted
    <2> QED BY <1>4, <1>5, <2>1, WriteStutters DEF OthersStay
<1>9. CASE Asked(r, c) /\ artifact[r][c] # None
    <2>1. kind # "unknown"
        BY <1>1, <1>2, <1>3, <1>9 DEF OutcomeIsTrue, Record, Main
    <2>2. call'[r][c].rec # "WRITE_OUTCOME_UNKNOWN"
        BY <1>4, <1>7, <2>1 DEF Resulted
    <2>3. StoredOutcome(r, c)' = "ok" /\ StoredOutcome(r, c) = "ok"
        BY <1>6, <1>7, <1>9, <2>2, ReadsRows, ReadsNextRows DEF RowsAreRead
    <2>4. Stays(r, c)
        BY <1>6, <2>3 DEF Stays
    <2> QED BY <1>4, <1>5, <2>4, WriteStutters DEF OthersStay
<1>10. CASE Asked(r, c) /\ artifact[r][c] = None
    <2>1. StoredOutcome(r, c) = "none"
        BY <1>1, <1>7, <1>10, OutcomeOpen
    <2>2. StoredConsent(r, c) # "none"
        <3>1. PICK a \in Approvals : approval[a].run = r /\ approval[a].call = c
            BY <1>10 DEF Asked
        <3>2. approval[a].decision \in {"pending", "allowed", "denied", "expired"}
            BY <1>1, <3>1, JournalAssumption
            DEF JournalTypeOK, ApprovalRow, Decisions, RowsExist, NoApproval
        <3> QED BY <1>1, <3>1, <3>2, ReadsRows DEF RowsAreRead, Consent, JournalInv
    <2>3. kind \in {"fail", "unknown"}
        BY <1>1, <1>2, <1>3, <1>10 DEF SuccessIsBacked, Record, Main
    <2>4. StoredOutcome(r, c)' = kind
        BY <1>4, <1>6, <1>7, <1>10, <2>3, ReadsNextRows DEF RowsAreRead, Resulted
    <2>5. kind = "fail" => <<r, c>> \notin created \/ TooLate(r)
        BY <1>1, <1>2, <1>3, <1>10 DEF OutcomeIsTrue, Record, Main
    <2>6. Contract!ContractNext
        BY <1>4, <1>5, <1>6, <2>1, <2>2, <2>3, <2>4, <2>5, WriteIsTold
    <2> QED BY <2>6
<1> QED BY <1>8, <1>9, <1>10

\* The worker that is waited for makes an allowed write of which nothing is told yet.
LEMMA LinkMakes ==
    ASSUME WriteInv, NEW r \in Runs, Link(r) \/ LinkFault(r)
    PROVE  [Contract!ContractNext]_(Contract!contract)
<1>1. /\ JournalInv /\ JournalTypeOK /\ OneApprovalPerCall /\ OpenCallsStand
      /\ ThreadsAgree /\ BatchIsOpen /\ WorkerIsAwaited /\ OrphansAreLate
    BY DEF WriteInv, TablesInv, JournalInv
<1>2. UNCHANGED <<approval, artifact, call, flags>>
    BY DEF Link, LinkFault, journal
<1>3. \A q \in Runs, d \in Calls : Stays(q, d)
    BY <1>2, TablesStay
<1>4. CASE UNCHANGED created
    BY <1>2, <1>3, <1>4, WriteStutters
<1>5. CASE created' = created \cup {<<r, worker[r].call>>}
    <2>1. worker[r].pc = "link" /\ main.run = r /\ main.pc = "await"
        BY <1>1 DEF Link, LinkFault, Working, OrphansAreLate, LockHeld, Awaits
    <2>2. PICK c \in Calls : worker[r].call = c /\ main.cur = c
        BY <1>1, <2>1 DEF ThreadsAgree, WorkerIsAwaited
    <2>3. /\ Unfinished(r) /\ call[r][c].stage = "started" /\ call[r][c].intent = <<r, c>>
          /\ <<r, c>> \notin created
        BY <1>1, <2>1, <2>2, JournalAssumption DEF BatchIsOpen, WorkerIsAwaited, ThreadsAgree
    <2>4. StoredOutcome(r, c) = "none"
        BY <1>1, <2>3, StoredRows, OutcomeOpen
    <2>5. StoredConsent(r, c) = "allowed"
        <3>1. Consented(r, c)
            BY <1>1, <2>3, PayloadsAreNamed DEF JournalInv, ColumnsAgree, RowAgrees
        <3>2. PICK a \in Approvals : /\ approval[a].run = r /\ approval[a].call = c
                                     /\ approval[a].decision = "allowed"
            BY <2>3, <3>1 DEF Consented, Unfinished, Terminal
        <3> QED BY <1>1, <3>2, ReadsRows DEF RowsAreRead, Consent
    <2> QED BY <1>2, <1>3, <1>5, <2>2, <2>3, <2>4, <2>5, WriteIsMade
<1> QED BY <1>4, <1>5 DEF Link, LinkFault, Creates

\* The receipt tells that the write was made.
LEMMA ReceiptTells ==
    ASSUME WriteInv, NEW r \in Runs, Receipt(r)
    PROVE  Contract!ContractNext
<1>1. /\ JournalInv /\ JournalTypeOK /\ RowsExist /\ OneApprovalPerCall /\ OpenCallsStand
      /\ ThreadsAgree /\ BatchIsOpen /\ WorkerIsAwaited /\ OrphansAreLate
    BY DEF WriteInv, TablesInv, JournalInv
<1>2. worker[r].pc = "receipt" /\ main.run = r /\ main.pc = "await"
    BY <1>1 DEF Receipt, Working, OrphansAreLate, LockHeld, Awaits
<1>3. PICK c \in Calls : worker[r].call = c /\ main.cur = c
    BY <1>1, <1>2 DEF ThreadsAgree, WorkerIsAwaited
<1>4. Received(r, c) /\ UNCHANGED <<created, flags>>
    BY <1>1, <1>3, ReceiptShows DEF Receipt
<1>5. OthersStay(r, c)
    BY <1>4, OtherRowsStay DEF Received
<1>6. Unfinished(r) /\ call[r][c].stage = "started" /\ <<r, c>> \in created
      /\ call[r][c].intent # None
    BY <1>1, <1>2, <1>3, PayloadsAreNamed, JournalAssumption
    DEF BatchIsOpen, WorkerIsAwaited, ThreadsAgree
<1>7. StoredOutcome(r, c) = "none"
    BY <1>1, <1>6, StoredRows, OutcomeOpen
<1>8. PICK a \in Approvals : /\ approval[a].run = r /\ approval[a].call = c
                             /\ approval[a].decision = "allowed"
    BY <1>1, <1>6 DEF JournalInv, ColumnsAgree, RowAgrees, Consented, Unfinished, Terminal
<1>9. StoredConsent(r, c) # "none"
    BY <1>1, <1>8, ReadsRows DEF RowsAreRead, Consent
<1>10. StoredConsent(r, c)' = StoredConsent(r, c)
    BY <1>4 DEF Received, StoredConsent, AskedFor
<1>11. StoredOutcome(r, c)' = "ok"
    <2>1. Asked(r, c)'
        BY <1>4, <1>8 DEF Received, Asked
    <2>2. artifact'[r][c] # None /\ call'[r][c].rec # "WRITE_OUTCOME_UNKNOWN"
        BY <1>4, PayloadsAreNamed DEF Received
    <2> QED BY <2>1, <2>2, ReadsNextRows DEF RowsAreRead
<1> QED BY <1>4, <1>5, <1>6, <1>7, <1>9, <1>10, <1>11, WriteIsTold

\* A restart settles the writes of the runs that it interrupts.
LEMMA RestartSettles ==
    ASSUME WriteInv, WriteInv', Restart
    PROVE  Contract!ContractNext
<1>1. /\ JournalInv /\ JournalTypeOK /\ OneApprovalPerCall /\ OneApprovalPerCall'
      /\ RowsExist /\ OpenCallsStand /\ DecisionsStand /\ FilesAreAccountedFor /\ CreatedIsIntended
      /\ RecoverInterrupted /\ UNCHANGED <<created, flags>>
    BY DEF WriteInv, TablesInv, JournalInv, Restart
<1> DEFINE S == {w \in Runs \X Calls :
                     Unfinished(w[1]) /\ StoredConsent(w[1], w[2]) \in {"asked", "allowed"}}
<1>2. ASSUME NEW r \in Runs, NEW c \in Calls
      PROVE  artifact'[r][c] = artifact[r][c] /\ (Asked(r, c)' <=> Asked(r, c))
    BY <1>1, RecoverShows DEF Recovered
<1>3. ASSUME NEW r \in Runs, NEW c \in Calls, ~Unfinished(r)
      PROVE  Stays(r, c)
    <2>1. call'[r][c] = call[r][c]
        BY <1>1, <1>3, RecoverEffect
    <2>2. AskedFor(r, c)' = AskedFor(r, c) /\ \A a \in AskedFor(r, c) : approval'[a] = approval[a]
        BY <1>1, <1>3, RecoverEffect DEF AskedFor
    <2>3. StoredConsent(r, c)' = StoredConsent(r, c)
        BY <2>2 DEF StoredConsent
    <2>4. StoredOutcome(r, c)' = StoredOutcome(r, c)
        BY <1>2, <2>1, <2>2 DEF StoredOutcome
    <2> QED BY <2>3, <2>4 DEF Stays
<1>4. ASSUME NEW r \in Runs, NEW c \in Calls, ~Asked(r, c)
      PROVE  Stays(r, c)
    BY <1>2, <1>4, ReadsRows, ReadsNextRows DEF RowsAreRead, Stays
<1>5. ASSUME NEW r \in Runs, NEW c \in Calls, Unfinished(r), NEW a \in Approvals,
             approval[a].run = r, approval[a].call = c, approval[a].decision = "denied"
      PROVE  Stays(r, c) /\ StoredConsent(r, c) = "denied"
    <2>1. approval'[a] = approval[a]
        BY <1>1, <1>5, RecoverEffect
    <2>2. StoredConsent(r, c) = "denied" /\ StoredConsent(r, c)' = "denied"
        BY <1>1, <1>5, <2>1, ReadsRows, ReadsNextRows DEF RowsAreRead, Consent
    <2>3. call[r][c].stage \in {"skipped", "unknown"} /\ Settles(r, c)
        BY <1>1, <1>5, RecoverEffect DEF DecisionsStand, DecisionStands
    <2>4. ~Dangling(r, c)
        <3>1. SUFFICES ASSUME Dangling(r, c) PROVE FALSE
            OBVIOUS
        <3>2. Consented(r, c)
            BY <1>1, <3>1 DEF JournalInv, ColumnsAgree, RowAgrees, Dangling
        <3>3. PICK b \in Approvals : /\ approval[b].run = r /\ approval[b].call = c
                                     /\ approval[b].decision = "allowed"
            BY <1>5, <3>2 DEF Consented, Unfinished, Terminal
        <3>4. a = b
            BY <1>1, <1>5, <3>3 DEF OneApprovalPerCall
        <3> QED BY <1>5, <3>3, <3>4
    <2>5. call'[r][c] = call[r][c]
        BY <2>3, <2>4 DEF Settles
    <2>6. Asked(r, c) /\ Asked(r, c)'
        BY <1>2, <1>5 DEF Asked
    <2>7. StoredOutcome(r, c)' = StoredOutcome(r, c)
        BY <1>2, <2>5, <2>6, ReadsRows, ReadsNextRows DEF RowsAreRead
    <2> QED BY <2>2, <2>7 DEF Stays
<1>6. ASSUME NEW r \in Runs, NEW c \in Calls, Unfinished(r), NEW a \in Approvals,
             approval[a].run = r, approval[a].call = c,
             approval[a].decision \in {"pending", "allowed"}
      PROVE  /\ StoredConsent(r, c) \in {"asked", "allowed"} /\ StoredConsent(r, c)' = "lapsed"
             /\ StoredOutcome(r, c)' \in {"ok", "fail", "unknown"}
             /\ IF StoredOutcome(r, c) # "none"
                THEN StoredOutcome(r, c)' = StoredOutcome(r, c)
                ELSE /\ StoredOutcome(r, c)' = "ok" => <<r, c>> \in created
                     /\ StoredOutcome(r, c)' = "fail" => <<r, c>> \notin created
    <2>1. /\ approval'[a].run = r /\ approval'[a].call = c /\ approval'[a].decision = "expired"
          /\ Settles(r, c) /\ run'[r].state = "interrupted"
        BY <1>1, <1>6, RecoverEffect
    <2>2. StoredConsent(r, c) \in {"asked", "allowed"} /\ StoredConsent(r, c)' = "lapsed"
        BY <1>1, <1>6, <2>1, ReadsRows, ReadsNextRows DEF RowsAreRead, Consent
    <2>3. Asked(r, c) /\ Asked(r, c)'
        BY <1>2, <1>6 DEF Asked
    <2>4. /\ call[r][c].stage # "absent" /\ call[r][c].stage # "skipped"
          /\ call'[r][c].result = call[r][c].result
        <3>1. DecisionStands(a, r, c)
            BY <1>1 DEF DecisionsStand
        <3> QED BY <1>1, <1>6, <2>1, <2>3, <3>1, StoredRows DEF DecisionStands, Settles, Keeps
    <2>5. call[r][c].stage = "succeeded" => artifact[r][c] # None
        BY <1>1, <2>3 DEF FilesAreAccountedFor, ConfirmedIsReal, Asked
    <2>6. CASE Dangling(r, c)
        <3>1. StoredOutcome(r, c) = "none"
            BY <1>1, <1>6, <2>6, OutcomeOpen DEF Dangling
        <3>2. StoredOutcome(r, c)' = "unknown"
            BY <2>1, <2>3, <2>6, ReadsNextRows DEF RowsAreRead, Settles
        <3> QED BY <2>2, <3>1, <3>2
    <2>7. CASE call[r][c].stage \in {"requested", "started"} /\ call[r][c].intent = None
        <3>1. call[r][c].result = 0 /\ artifact[r][c] = None
            BY <1>1, <2>7, StoredRows
        <3>2. StoredOutcome(r, c) = "none"
            BY <1>1, <1>6, <3>1, OutcomeOpen
        <3>3. call'[r][c].stage = "interrupted" /\ call'[r][c].rec = "interrupted"
            BY <2>1, <2>7 DEF Settles
        <3>4. StoredOutcome(r, c)' = "fail"
            BY <1>2, <2>3, <3>1, <3>3, ReadsNextRows DEF RowsAreRead
        <3>5. <<r, c>> \notin created
            BY <1>1, <2>7, PayloadsAreNamed DEF CreatedIsIntended
        <3> QED BY <2>2, <3>2, <3>4, <3>5
    <2>8. CASE ~Dangling(r, c) /\ ~(call[r][c].stage \in {"requested", "started"}
                                    /\ call[r][c].intent = None)
        <3>1. call'[r][c] = call[r][c]
            BY <2>1, <2>8 DEF Settles
        <3>2. StoredOutcome(r, c)' = StoredOutcome(r, c)
            BY <1>2, <2>3, <3>1, ReadsRows, ReadsNextRows DEF RowsAreRead
        <3>3. \/ call[r][c].rec = "WRITE_OUTCOME_UNKNOWN" \/ artifact[r][c] # None
              \/ call[r][c].stage \in {"failed", "interrupted"}
            <4>1. call[r][c].stage \in Stages
                BY <1>1 DEF JournalTypeOK, CallRow
            <4>2. call[r][c].stage \notin {"requested", "started"} \/ artifact[r][c] # None
                BY <1>1, <2>8, StoredRows DEF Dangling
            <4>3. call[r][c].stage = "unknown" => call[r][c].rec = "WRITE_OUTCOME_UNKNOWN"
                BY <1>1, <1>6 DEF OpenCallsStand
            <4> QED BY <2>4, <2>5, <4>1, <4>2, <4>3 DEF Stages
        <3>4. StoredOutcome(r, c) \in {"ok", "fail", "unknown"}
            BY <2>3, <3>3, ReadsRows DEF RowsAreRead
        <3> QED BY <2>2, <3>2, <3>4
    <2> QED BY <2>6, <2>7, <2>8
<1>7. \A r \in Runs, c \in Calls : StoredOutcome(r, c)' \in Contract!Outcomes
    BY ReadsNextRows DEF RowsAreRead, Contract!Outcomes
<1>8. ASSUME NEW r \in Runs, NEW c \in Calls, Unfinished(r), NEW a \in Approvals,
             approval[a].run = r, approval[a].call = c
      PROVE  approval[a].decision \in {"pending", "allowed", "denied"}
    <2>1. DecisionStands(a, r, c)
        BY <1>1 DEF DecisionsStand
    <2>2. approval[a].decision \in Decisions /\ approval[a].decision # "absent"
        BY <1>1, <1>8, JournalAssumption DEF JournalTypeOK, ApprovalRow, RowsExist, NoApproval
    <2> QED BY <1>8, <2>1, <2>2 DEF DecisionStands, Decisions
<1>9. ASSUME NEW r \in Runs, NEW c \in Calls
      PROVE  IF <<r, c>> \in S
             THEN /\ StoredConsent(r, c) \in {"asked", "allowed"}
                  /\ StoredConsent(r, c)' = "lapsed"
                  /\ StoredOutcome(r, c)' \in {"ok", "fail", "unknown"}
                  /\ IF StoredOutcome(r, c) # "none"
                     THEN StoredOutcome(r, c)' = StoredOutcome(r, c)
                     ELSE /\ StoredOutcome(r, c)' = "ok" => <<r, c>> \in created
                          /\ StoredOutcome(r, c)' = "fail" => <<r, c>> \notin created
             ELSE Stays(r, c)
    <2>1. <<r, c>> \in S <=> Unfinished(r) /\ StoredConsent(r, c) \in {"asked", "allowed"}
        OBVIOUS
    <2>2. CASE ~Unfinished(r)
        BY <1>3, <2>1, <2>2
    <2>3. CASE ~Asked(r, c)
        <3>1. StoredConsent(r, c) = "none"
            BY <2>3, ReadsRows DEF RowsAreRead
        <3> QED BY <1>4, <2>1, <2>3, <3>1
    <2>4. CASE Unfinished(r) /\ Asked(r, c)
        <3>1. PICK a \in Approvals : approval[a].run = r /\ approval[a].call = c
            BY <2>4 DEF Asked
        <3>2. CASE approval[a].decision = "denied"
            BY <1>5, <2>1, <2>4, <3>1, <3>2
        <3>3. CASE approval[a].decision \in {"pending", "allowed"}
            BY <1>6, <2>1, <2>4, <3>1, <3>3
        <3> QED BY <1>8, <2>4, <3>1, <3>2, <3>3
    <2> QED BY <2>2, <2>3, <2>4
<1>10. S \in SUBSET (Runs \X Calls)
    OBVIOUS
<1> HIDE DEF S
<1> QED BY <1>1, <1>7, <1>9, <1>10, WritesAreSettled

\* A step that moves neither rows nor files nor deadlines is none of the contract.
LEMMA UnseenStep ==
    ASSUME UNCHANGED <<created, flags, approval, artifact>>,
           \A r \in Runs, c \in Calls : call'[r][c] = call[r][c]
    PROVE  [Contract!ContractNext]_(Contract!contract)
<1>1. \A r \in Runs, c \in Calls : Stays(r, c)
    BY TablesStay
<1> QED BY <1>1, WriteStutters

\* The steps of a run before its call is asked about, and those that only note progress.
LEMMA ProgressIsUnseen ==
    ASSUME WriteInv, NEW r \in Runs, main.run = r,
           \/ Request \/ ReadStarts \/ Launch \/ Finish \/ \E calls \in SUBSET Calls : ModelCalls(calls)
           \/ \E c \in Calls : SkipCall(c)
    PROVE  [Contract!ContractNext]_(Contract!contract)
<1>1. /\ JournalInv /\ JournalTypeOK /\ ThreadsTyped /\ ThreadsAgree /\ BatchIsOpen /\ TurnsAreKept
    BY DEF WriteInv, TablesInv, JournalInv
<1>2. CASE Request
    <2>1. Requested(r)
        BY <1>1, <1>2, RequestShows DEF Request
    <2> QED BY <1>2, <2>1, UnseenStep DEF Request, Requested
<1>3. CASE ReadStarts \/ Launch
    <2>1. PICK c \in Calls : main.cur = c
        BY <1>1, <1>3, JournalAssumption DEF ReadStarts, Launch, Main, ThreadsTyped, ThreadsAgree,
            MainState
    <2>2. Started(r, c) /\ UNCHANGED <<created, flags>>
        BY <1>1, <1>3, <2>1, StartShows DEF ReadStarts, Launch
    <2>3. OthersStay(r, c)
        BY <2>2, OtherRowsStay DEF Started
    <2>4. Stays(r, c)
        BY <2>2, RowsStay DEF Started, SameColumns
    <2> QED BY <2>2, <2>3, <2>4, WriteStutters DEF OthersStay
<1>4. CASE Finish
    <2>1. PICK state \in Finishes : main.ends = state
        BY <1>1 DEF ThreadsTyped, MainState
    <2>2. Ended(r, state)
        BY <1>1, <1>4, <2>1, FinishShows DEF Finish
    <2> QED BY <1>4, <2>2, UnseenStep DEF Finish, Ended
<1>5. ASSUME NEW calls \in SUBSET Calls, ModelCalls(calls)
      PROVE  [Contract!ContractNext]_(Contract!contract)
    <2>1. Replied(r, calls) /\ UNCHANGED <<created, flags>>
        BY <1>1, <1>5, ReplyShows DEF ModelCalls
    <2>2. ASSUME NEW q \in Runs, NEW d \in Calls
          PROVE  Stays(q, d)
        <3>1. CASE q = r /\ d \in calls
            BY <1>1, <2>1, <3>1, StoredRows, UnaskedStays DEF Replied
        <3>2. CASE ~(q = r /\ d \in calls)
            BY <2>1, <3>2, RowsStay DEF Replied
        <3> QED BY <3>1, <3>2
    <2> QED BY <2>1, <2>2, WriteStutters
<1>6. ASSUME NEW c \in Calls, SkipCall(c)
      PROVE  [Contract!ContractNext]_(Contract!contract)
    <2>1. Resulted(r, c, "fail") /\ UNCHANGED <<created, flags>>
        BY <1>1, <1>6, ResultShows DEF SkipCall
    <2>2. ~Asked(r, c)
        BY <1>1, <1>6, JournalAssumption DEF SkipCall, Main, TurnsAreKept, ThreadsAgree
    <2>3. OthersStay(r, c) /\ Stays(r, c)
        BY <2>1, <2>2, OtherRowsStay, UnaskedStays DEF Resulted
    <2> QED BY <2>1, <2>3, WriteStutters DEF OthersStay
<1> QED BY <1>2, <1>3, <1>4, <1>5, <1>6

\* The steps of a worker around the publication.
LEMMA WorkerIsUnseen ==
    ASSUME WriteInv, NEW r \in Runs,
           \/ Stage(r) \/ EnterCommit(r) \/ Intent(r) \/ IntentFault(r) \/ ReceiptFault(r)
    PROVE  [Contract!ContractNext]_(Contract!contract)
<1>1. CASE Stage(r) \/ EnterCommit(r) \/ IntentFault(r) \/ ReceiptFault(r)
    <2>1. UNCHANGED <<created, flags, approval, artifact, call>>
        BY <1>1 DEF Stage, EnterCommit, IntentFault, ReceiptFault, journal
    <2> QED BY <2>1, UnseenStep
<1>2. CASE Intent(r)
    <2>1. JournalInv /\ JournalTypeOK /\ ThreadsAgree /\ WorkerIsAwaited /\ OrphansAreLate
        BY DEF WriteInv, TablesInv, JournalInv
    <2>2. worker[r].pc = "intent" /\ main.run = r /\ main.pc = "await"
        BY <1>2, <2>1 DEF Intent, Working, OrphansAreLate, LockHeld, Awaits
    <2>3. PICK c \in Calls : worker[r].call = c /\ main.cur = c
        BY <2>1, <2>2 DEF ThreadsAgree, WorkerIsAwaited
    <2>4. Announced(r, c) /\ UNCHANGED <<created, flags>>
        BY <1>2, <2>1, <2>3, IntentShows DEF Intent
    <2>5. call[r][c].stage = "started"
        BY <2>1, <2>2, <2>3 DEF WorkerIsAwaited, ThreadsAgree
    <2>6. Stays(r, c)
        BY <2>4, <2>5, RowsStay DEF Announced
    <2>7. OthersStay(r, c)
        BY <2>4, OtherRowsStay DEF Announced
    <2> QED BY <2>4, <2>6, <2>7, WriteStutters DEF OthersStay
<1> QED BY <1>1, <1>2

\* Every step of the composition is a step of the contract, or none.
LEMMA ContractStep ==
    WriteInv /\ WriteInv' /\ [WriteNext]_vars => [Contract!ContractNext]_(Contract!contract)
<1> SUFFICES ASSUME WriteInv, WriteInv', [WriteNext]_vars
             PROVE  [Contract!ContractNext]_(Contract!contract)
    OBVIOUS
<1>0. main.run # None => main.run \in Runs
    BY DEF WriteInv, ThreadsTyped, MainState
<1>1. CASE \/ Prepare \/ LoopEnds \/ ModelEnds \/ ModelText \/ Answer \/ BatchEnds \/ Invoke
           \/ ReadEnds \/ AskRefused \/ WaitEnds \/ TakeResult \/ GiveUp \/ TraceFault
           \/ JournalFault
    <2>1. QuietStep
        BY <1>1, QuietActions
    <2> QED BY <2>1, UnseenStep DEF QuietStep, Quiet
<1>2. CASE \/ Request \/ ReadStarts \/ Launch \/ Finish
           \/ (\E calls \in SUBSET Calls : ModelCalls(calls)) \/ (\E c \in Calls : SkipCall(c))
    <2>1. main.run # None
        BY <1>2 DEF Request, ReadStarts, Launch, Finish, ModelCalls, SkipCall, Main
    <2> QED BY <1>0, <1>2, <2>1, ProgressIsUnseen
<1>3. ASSUME NEW c \in Calls, NextCall(c)
      PROVE  [Contract!ContractNext]_(Contract!contract)
    BY <1>3, UnseenStep DEF NextCall, journal
<1>4. ASSUME NEW a \in Approvals, Ask(a)
      PROVE  [Contract!ContractNext]_(Contract!contract)
    BY <1>4, AskIsAsked
<1>5. CASE Record
    BY <1>5, RecordTells
<1>6. ASSUME NEW r \in Runs, \/ Stage(r) \/ EnterCommit(r) \/ Intent(r) \/ IntentFault(r)
                             \/ ReceiptFault(r)
      PROVE  [Contract!ContractNext]_(Contract!contract)
    BY <1>6, WorkerIsUnseen
<1>7. ASSUME NEW r \in Runs, Link(r) \/ LinkFault(r)
      PROVE  [Contract!ContractNext]_(Contract!contract)
    BY <1>7, LinkMakes
<1>8. ASSUME NEW r \in Runs, Receipt(r)
      PROVE  [Contract!ContractNext]_(Contract!contract)
    BY <1>8, ReceiptTells
<1>9. ASSUME NEW r \in Runs, Start(r)
      PROVE  [Contract!ContractNext]_(Contract!contract)
    BY <1>9, UnseenStep DEF Start, Submit
<1>10. ASSUME NEW d \in {"allowed", "denied"}, Decide(d)
       PROVE  [Contract!ContractNext]_(Contract!contract)
    BY <1>10, DecideAnswers
<1>11. ASSUME NEW flag \in {"run", "tool", "approval"}, Cancel \/ Expire(flag)
       PROVE  [Contract!ContractNext]_(Contract!contract)
    <2>1. UNCHANGED <<created, approval, artifact, call>> /\ main.run \in Runs
        BY <1>0, <1>11 DEF Cancel, Expire, journal
    <2>2. flags \in [Runs -> SUBSET {"cancel", "run", "tool", "approval"}]
        BY DEF WriteInv, ThreadsTyped
    <2>3. \A q \in Runs : flags[q] \subseteq flags'[q]
        BY <1>11, <2>1, <2>2 DEF Cancel, Expire
    <2>4. \A q \in Runs, d \in Calls : Stays(q, d)
        BY <2>1, TablesStay
    <2> QED BY <2>1, <2>3, <2>4, RunIsHalted
<1>12. CASE External
    BY <1>12, UnseenStep DEF External, journal
<1>13. CASE Restart
    BY <1>13, RestartSettles
<1>14. CASE UNCHANGED vars
    BY <1>14, UnseenStep DEF vars
<1> QED BY <1>1, <1>2, <1>3, <1>4, <1>5, <1>6, <1>7, <1>8, <1>9, <1>10, <1>11, <1>12, <1>13, <1>14
        DEF WriteNext, MainStep, WorkerStep, FaultStep, UserStep

\* The run thread, its worker, the user, the clock, faults and restarts together implement the
\* contract of a write: it is made at most once and only under consent, what is told of it is
\* final, and only a run that was stopped may tell a failure of a write that was made.
THEOREM ContractKept == WriteSpec => KeepsContract
<1>1. WriteInit => Contract!ContractInit
    <2> SUFFICES ASSUME WriteInit PROVE Contract!ContractInit
        OBVIOUS
    <2>1. \A r \in Runs, c \in Calls : ~Asked(r, c)
        BY JournalAssumption DEF WriteInit, JournalInit, NoApproval, Asked
    <2>2. \A r \in Runs, c \in Calls :
              StoredConsent(r, c) = "none" /\ StoredOutcome(r, c) = "none"
        BY <2>1, ReadsRows DEF RowsAreRead
    <2>3. \A r \in Runs : ~TooLate(r)
        BY DEF WriteInit, TooLate
    <2> QED BY <2>2, <2>3 DEF WriteInit, Contract!ContractInit
<1> QED BY <1>1, ContractStep, WriteInvariant, PTL DEF WriteSpec, KeepsContract,
    Contract!ContractSpec
=============================================================================
