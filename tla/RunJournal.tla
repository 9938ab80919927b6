----------------------------- MODULE RunJournal -----------------------------
(***************************************************************************)
(* The durable record of runs kept in sessions.sqlite3 (session_store.py,  *)
(* class RunJournal, SessionStore.recover_interrupted, and the insertion   *)
(* of a run by SessionService._submit_in_transaction).                     *)
(*                                                                         *)
(* Every operation of the journal is one BEGIN IMMEDIATE transaction, so   *)
(* it is one action here: it either passes its checks and writes all its   *)
(* rows, or raises JOURNAL_ORDER_ERROR and writes none (no step).  The     *)
(* journal is passive: this module lets its callers invoke any operation   *)
(* in any order, and states what the stored rows promise all the same.     *)
(* WriteRun constrains the order to the one the runtime produces.          *)
(***************************************************************************)
EXTENDS Naturals, Sequences, FiniteSets

CONSTANTS Runs,        \* run ids
          Calls,       \* tool call ids; unique within a run
          Approvals,   \* approval ids
          Payloads,    \* what a publication names: path, size and digest
          None,        \* SQL NULL
          MaxRequests  \* bound on model requests of a run (RunConfig.max_steps)

ASSUME JournalAssumption ==
    /\ None \notin Runs \cup Calls \cup Payloads
    /\ MaxRequests \in Nat

VARIABLES run,       \* table runs: state, phase, stop_reason, finished_at, and
                     \* the number of context_manifests rows of the run
          msgs,      \* table messages: run_seq is the index in msgs[r]
          call,      \* table tool_calls, keyed by (run_id, call_id)
          approval,  \* table approvals
          artifact   \* table artifacts: the receipt's payload, or None

journal == <<run, msgs, call, approval, artifact>>

-----------------------------------------------------------------------------
Terminal == {"completed", "failed", "validation_failed", "cancelled", "interrupted"}
Finishes == {"completed", "failed", "validation_failed", "cancelled",
             "unable", "timed_out", "max_steps"}
RunStates == {"absent", "queued", "running", "waiting_approval"} \cup Terminal \cup Finishes
Phases == {"submitted", "model_in_flight", "tool_requested", "model_replied",
           "tool_started", "tool_result_committed", "waiting_approval",
           "approval_allowed", "approval_denied", "publication_intent_committed",
           "publication_receipt_committed", "finished"}
Reasons == {"none", "reported", "PROCESS_INTERRUPTED", "WRITE_OUTCOME_UNKNOWN"}
Stages == {"absent", "requested", "started", "succeeded", "failed", "skipped",
           "interrupted", "unknown"}
Decisions == {"absent", "pending", "allowed", "denied", "expired"}

RunRow == [state : RunStates, phase : Phases, stop : Reasons,
           finished_at : {"null", "set"}, requests : Nat]
Message == [role : {"user", "assistant", "tool", "control"}, calls : SUBSET Calls]
\* ask and result are assistant_message_id and result_message_id, 0 for NULL.
CallRow == [stage : Stages, ask : Nat, result : Nat,
            intent : Payloads \cup {None},
            pub : {"none", "intent_recorded", "confirmed", "unknown"},
            rec : {"none", "confirmed", "interrupted", "WRITE_OUTCOME_UNKNOWN"}]
ApprovalRow == [run : Runs \cup {None}, call : Calls \cup {None}, decision : Decisions]

NoRun == [state |-> "absent", phase |-> "submitted", stop |-> "none",
          finished_at |-> "null", requests |-> 0]
NoCall == [stage |-> "absent", ask |-> 0, result |-> 0, intent |-> None,
           pub |-> "none", rec |-> "none"]
NoApproval == [run |-> None, call |-> None, decision |-> "absent"]

JournalInit ==
    /\ run = [r \in Runs |-> NoRun]
    /\ msgs = [r \in Runs |-> <<>>]
    /\ call = [r \in Runs |-> [c \in Calls |-> NoCall]]
    /\ approval = [a \in Approvals |-> NoApproval]
    /\ artifact = [r \in Runs |-> [c \in Calls |-> None]]

-----------------------------------------------------------------------------
\* Mutant of Unfinished: only the state decides, as if every end were Terminal.
UnfinishedByState(r) == run[r].state \notin {"absent"} \cup Terminal

\* RunJournal._unfinished_run: the row every operation of the journal needs.
Unfinished(r) ==
    /\ run[r].state \notin {"absent"} \cup Terminal
    /\ run[r].finished_at = "null"

Says(role, calls) == [role |-> role, calls |-> calls]

\* The state and phase columns every operation but finish_run sets.
Advance(r, state, phase) ==
    run' = [run EXCEPT ![r] = [@ EXCEPT !.state = state, !.phase = phase]]

SetCall(r, c, row) == call' = [call EXCEPT ![r][c] = row]

\* _append_message: the next run_seq of the run.
AppendMessage(r, m) == msgs' = [msgs EXCEPT ![r] = Append(@, m)]

Open(r, c) == call[r][c].stage # "absent" /\ call[r][c].result = 0

\* The rows a run is created with: state queued and its user message.
Submit(r) ==
    /\ run[r].state = "absent"
    /\ run' = [run EXCEPT ![r] = [@ EXCEPT !.state = "queued"]]
    /\ msgs' = [msgs EXCEPT ![r] = <<Says("user", {})>>]
    /\ UNCHANGED <<call, approval, artifact>>

\* Mutant of RecordModelRequest: the pending calls are not looked at.
RecordModelRequestUnchecked(r) ==
    /\ Unfinished(r)
    /\ run[r].requests < MaxRequests
    /\ run' = [run EXCEPT ![r] = [@ EXCEPT !.state = "running",
                                           !.phase = "model_in_flight",
                                           !.requests = run[r].requests + 1]]
    /\ UNCHANGED <<msgs, call, approval, artifact>>

\* record_model_request: refused while a call of the run has no result.
RecordModelRequest(r) ==
    /\ Unfinished(r)
    /\ \A c \in Calls : ~Open(r, c)
    /\ run[r].requests < MaxRequests
    /\ run' = [run EXCEPT ![r] = [@ EXCEPT !.state = "running",
                                           !.phase = "model_in_flight",
                                           !.requests = run[r].requests + 1]]
    /\ UNCHANGED <<msgs, call, approval, artifact>>

\* Mutant of RequestedRow: the message before the reply is taken for the reply.
RequestedRowEarlier(ask) == [NoCall EXCEPT !.stage = "requested", !.ask = ask - 1]

RequestedRow(ask) == [NoCall EXCEPT !.stage = "requested", !.ask = ask]

\* record_model_reply: the message and, for tool_calls_valid, one row per call.
\* calls = {} stands for every reply that requests no tool.
RecordModelReply(r, calls) ==
    /\ Unfinished(r)
    /\ run[r].phase = "model_in_flight"
    /\ \A c \in calls : call[r][c].stage = "absent"
    /\ AppendMessage(r, Says("assistant", calls))
    /\ call' = [call EXCEPT ![r] = [c \in Calls |->
                   IF c \in calls THEN RequestedRow(Len(msgs[r]) + 1) ELSE call[r][c]]]
    /\ Advance(r, "running", IF calls = {} THEN "model_replied" ELSE "tool_requested")
    /\ UNCHANGED <<approval, artifact>>

RecordToolStarted(r, c) ==
    /\ Unfinished(r)
    /\ call[r][c].stage = "requested" /\ call[r][c].result = 0
    /\ SetCall(r, c, [call[r][c] EXCEPT !.stage = "started"])
    /\ Advance(r, "running", "tool_started")
    /\ UNCHANGED <<msgs, approval, artifact>>

\* record_tool_result.  kind is "ok" for a success, "unknown" for the error
\* WRITE_OUTCOME_UNKNOWN and "fail" for any other error.
ReceiptOnly(row, kind) == row.stage = "succeeded" /\ row.pub = "confirmed" /\ kind = "ok"
SkippedResult(row, kind) == row.stage = "skipped" /\ kind # "ok"

\* Mutant of ResultRow: an unknown outcome leaves publication_state as it was.
ResultRowUnresolved(row, kind, message) ==
    [row EXCEPT !.stage = IF kind = "unknown" THEN "unknown"
                          ELSE IF SkippedResult(row, kind) THEN "skipped"
                          ELSE IF kind = "ok" THEN "succeeded" ELSE "failed",
                !.result = message,
                !.rec = IF kind = "unknown" THEN "WRITE_OUTCOME_UNKNOWN" ELSE @]

ResultRow(row, kind, message) ==
    [row EXCEPT !.stage = IF kind = "unknown" THEN "unknown"
                          ELSE IF SkippedResult(row, kind) THEN "skipped"
                          ELSE IF kind = "ok" THEN "succeeded" ELSE "failed",
                !.result = message,
                !.pub = IF kind = "unknown" THEN "unknown" ELSE @,
                !.rec = IF kind = "unknown" THEN "WRITE_OUTCOME_UNKNOWN" ELSE @]

RecordToolResult(r, c, kind) ==
    /\ Unfinished(r)
    /\ call[r][c].result = 0
    /\ \/ call[r][c].stage \in {"requested", "started"}
       \/ ReceiptOnly(call[r][c], kind)
       \/ SkippedResult(call[r][c], kind)
    /\ AppendMessage(r, Says("tool", {c}))
    /\ SetCall(r, c, ResultRow(call[r][c], kind, Len(msgs[r]) + 1))
    /\ Advance(r, "running", "tool_result_committed")
    /\ UNCHANGED <<approval, artifact>>

\* The table would take a second approval of a call; ToolRuntime.invoke, the only
\* caller (through ApprovalBroker.request), asks at most once per call.
RecordApprovalRequired(a, r, c) ==
    /\ Unfinished(r)
    /\ call[r][c].stage = "requested" /\ call[r][c].result = 0
    /\ approval[a].decision = "absent"
    /\ \A b \in Approvals : ~(approval[b].run = r /\ approval[b].call = c)
    /\ approval' = [approval EXCEPT ![a] = [run |-> r, call |-> c, decision |-> "pending"]]
    /\ Advance(r, "waiting_approval", "waiting_approval")
    /\ UNCHANGED <<msgs, call, artifact>>

\* Mutant of RecordApprovalDecision: the decision is stored as the call's stage.
RecordApprovalDecisionAsStage(a, decision) ==
    LET r == approval[a].run
        c == approval[a].call
    IN /\ approval[a].decision = "pending"
       /\ Unfinished(r)
       /\ approval' = [approval EXCEPT ![a] = [@ EXCEPT !.decision = decision]]
       /\ SetCall(r, c, [call[r][c] EXCEPT !.stage = decision])
       /\ Advance(r, "running", IF decision = "allowed" THEN "approval_allowed"
                                ELSE "approval_denied")
       /\ UNCHANGED <<msgs, artifact>>

RecordApprovalDecision(a, decision) ==
    LET r == approval[a].run
        c == approval[a].call
    IN /\ approval[a].decision = "pending"
       /\ Unfinished(r)
       /\ approval' = [approval EXCEPT ![a] = [@ EXCEPT !.decision = decision]]
       /\ SetCall(r, c, IF decision = "denied"
                        THEN [call[r][c] EXCEPT !.stage = "skipped"] ELSE call[r][c])
       /\ Advance(r, "running", IF decision = "allowed" THEN "approval_allowed"
                                ELSE "approval_denied")
       /\ UNCHANGED <<msgs, artifact>>

Allowed(r, c) ==
    \E a \in Approvals : approval[a] = [run |-> r, call |-> c, decision |-> "allowed"]

\* Mutant of RecordPublicationIntent: the stored approval is not looked at.
RecordPublicationIntentUnasked(r, c, p) ==
    /\ Unfinished(r)
    /\ call[r][c].stage \in {"requested", "started"}
    /\ call[r][c].result = 0 /\ call[r][c].intent = None
    /\ SetCall(r, c, [call[r][c] EXCEPT !.stage = "started", !.intent = p,
                                        !.pub = "intent_recorded"])
    /\ Advance(r, "running", "publication_intent_committed")
    /\ UNCHANGED <<msgs, approval, artifact>>

RecordPublicationIntent(r, c, p) ==
    /\ Unfinished(r)
    /\ call[r][c].stage \in {"requested", "started"}
    /\ call[r][c].result = 0 /\ call[r][c].intent = None
    /\ Allowed(r, c)
    /\ SetCall(r, c, [call[r][c] EXCEPT !.stage = "started", !.intent = p,
                                        !.pub = "intent_recorded"])
    /\ Advance(r, "running", "publication_intent_committed")
    /\ UNCHANGED <<msgs, approval, artifact>>

RecordPublicationReceipt(r, c, p) ==
    /\ Unfinished(r)
    /\ call[r][c].stage = "started" /\ call[r][c].result = 0
    /\ call[r][c].pub = "intent_recorded"
    /\ call[r][c].intent = p
    /\ artifact' = [artifact EXCEPT ![r][c] = p]
    /\ SetCall(r, c, [call[r][c] EXCEPT !.stage = "succeeded",
                                        !.pub = "confirmed", !.rec = "confirmed"])
    /\ Advance(r, "running", "publication_receipt_committed")
    /\ UNCHANGED <<msgs, approval>>

FinishRun(r, state) ==
    /\ Unfinished(r)
    /\ run' = [run EXCEPT ![r] = [@ EXCEPT !.state = state, !.phase = "finished",
                                           !.stop = "reported", !.finished_at = "set"]]
    /\ UNCHANGED <<msgs, call, approval, artifact>>

-----------------------------------------------------------------------------
\* A call whose publication was announced and never resolved.
Dangling(r, c) ==
    /\ call[r][c].intent # None
    /\ call[r][c].result = 0
    /\ artifact[r][c] = None

\* Mutant of RecoveredCall: every open call counts as interrupted.
RecoveredCallUnclassified(r, c) ==
    IF call[r][c].stage \in {"requested", "started"}
    THEN [call[r][c] EXCEPT !.stage = "interrupted", !.rec = "interrupted"]
    ELSE call[r][c]

RecoveredCall(r, c) ==
    IF Dangling(r, c)
    THEN [call[r][c] EXCEPT !.stage = "unknown", !.pub = "unknown",
                            !.rec = "WRITE_OUTCOME_UNKNOWN"]
    ELSE IF call[r][c].stage \in {"requested", "started"} /\ call[r][c].intent = None
    THEN [call[r][c] EXCEPT !.stage = "interrupted", !.rec = "interrupted"]
    ELSE call[r][c]

RecoveredRun(r) ==
    [run[r] EXCEPT !.state = "interrupted", !.finished_at = "set",
                   !.stop = IF \E c \in Calls : Dangling(r, c)
                            THEN "WRITE_OUTCOME_UNKNOWN" ELSE "PROCESS_INTERRUPTED"]

\* SessionStore.recover_interrupted: one transaction over all unfinished runs.
\* The generation it passes is a fresh uuid, so no stored approval carries it.
RecoverInterrupted ==
    /\ run' = [r \in Runs |-> IF Unfinished(r) THEN RecoveredRun(r) ELSE run[r]]
    /\ call' = [r \in Runs |-> [c \in Calls |->
                   IF Unfinished(r) THEN RecoveredCall(r, c) ELSE call[r][c]]]
    /\ approval' = [a \in Approvals |->
                      IF /\ approval[a].decision \in {"pending", "allowed"}
                         /\ Unfinished(approval[a].run)
                      THEN [approval[a] EXCEPT !.decision = "expired"]
                      ELSE approval[a]]
    /\ msgs' = [r \in Runs |-> IF Unfinished(r)
                               THEN Append(msgs[r], Says("control", {})) ELSE msgs[r]]
    /\ UNCHANGED artifact

-----------------------------------------------------------------------------
RunStep(r) ==
    \/ Submit(r)
    \/ RecordModelRequest(r)
    \/ \E calls \in SUBSET Calls : RecordModelReply(r, calls)
    \/ \E state \in Finishes : FinishRun(r, state)

CallStep(r, c) ==
    \/ RecordToolStarted(r, c)
    \/ \E kind \in {"ok", "fail", "unknown"} : RecordToolResult(r, c, kind)
    \/ \E a \in Approvals : RecordApprovalRequired(a, r, c)
    \/ \E p \in Payloads : RecordPublicationIntent(r, c, p)
    \/ \E p \in Payloads : RecordPublicationReceipt(r, c, p)

JournalNext ==
    \/ \E r \in Runs : RunStep(r)
    \/ \E r \in Runs, c \in Calls : CallStep(r, c)
    \/ \E a \in Approvals, d \in {"allowed", "denied"} : RecordApprovalDecision(a, d)
    \/ RecoverInterrupted

JournalSpec == JournalInit /\ [][JournalNext]_journal

-----------------------------------------------------------------------------
JournalTypeOK ==
    /\ run \in [Runs -> RunRow]
    /\ msgs \in [Runs -> Seq(Message)]
    /\ call \in [Runs -> [Calls -> CallRow]]
    /\ approval \in [Approvals -> ApprovalRow]
    /\ artifact \in [Runs -> [Calls -> Payloads \cup {None}]]

\* A request is sent to the model only over a complete chain: while one is in
\* flight every call of the run has its result (the check for pending calls
\* in record_model_request, kept true by every later operation).
NoRequestOverOpenCall ==
    \A r \in Runs : run[r].phase = "model_in_flight" =>
        \A c \in Calls : ~Open(r, c)

ResultAnswers(r, c) ==
    LET row == call[r][c] IN
    row.result # 0 =>
        /\ row.result <= Len(msgs[r])
        /\ msgs[r][row.result] = Says("tool", {c})
        /\ row.ask \in 1..(row.result - 1)
        /\ msgs[r][row.ask].role = "assistant" /\ c \in msgs[r][row.ask].calls
        /\ \A i \in (row.ask + 1)..row.result : msgs[r][i].role = "tool"

\* A stored result answers its own call: it is a tool message naming the call,
\* it follows the assistant message that requested the call, and nothing but
\* results of the same batch stands between the two.
ResultsAnswerCalls == \A r \in Runs, c \in Calls : ResultAnswers(r, c)

\* An artifact row is always backed: the call announced exactly that payload
\* before, the publication counts as confirmed, and the user's approval of
\* that call is stored (it may have expired since, by a recovery).
ArtifactsAreBacked ==
    \A r \in Runs, c \in Calls : artifact[r][c] # None =>
        /\ call[r][c].intent = artifact[r][c]
        /\ call[r][c].pub = "confirmed" /\ call[r][c].rec = "confirmed"
        /\ \E a \in Approvals :
              /\ approval[a].run = r /\ approval[a].call = c
              /\ approval[a].decision = IF run[r].state = "interrupted"
                                        THEN "expired" ELSE "allowed"

\* An outcome recorded as unknown is never also recorded as a success: no
\* artifact, no success stage, no confirmation.
UnknownIsNotSuccess ==
    \A r \in Runs, c \in Calls :
        call[r][c].rec = "WRITE_OUTCOME_UNKNOWN" =>
            /\ artifact[r][c] = None
            /\ call[r][c].pub = "unknown"
            /\ call[r][c].stage # "succeeded"

\* Recovery leaves nothing half-open in a run it interrupts: no call waits, an
\* announced publication without receipt or result is unknown, and no approval
\* of the run can be used again.
InterruptedIsSettled ==
    \A r \in Runs : run[r].state = "interrupted" =>
        /\ \A c \in Calls : /\ call[r][c].stage \notin {"requested", "started"}
                            /\ Dangling(r, c) => call[r][c].rec = "WRITE_OUTCOME_UNKNOWN"
        /\ \A a \in Approvals : approval[a].run = r =>
                approval[a].decision \notin {"pending", "allowed"}

\* A run that has ended is history: no operation changes any of its rows.
FinishedIsFinal ==
    [][\A r \in Runs : run[r].finished_at = "set" =>
          /\ run'[r] = run[r] /\ msgs'[r] = msgs[r]
          /\ call'[r] = call[r] /\ artifact'[r] = artifact[r]
          /\ \A a \in Approvals : approval[a].run = r => approval'[a] = approval[a]]_journal

-----------------------------------------------------------------------------
\* The inductive strengthening of the invariants above.

\* Rows refer to rows that exist.
RowsExist ==
    /\ \A a \in Approvals :
          IF approval[a].decision = "absent" THEN approval[a] = NoApproval
          ELSE /\ approval[a].run \in Runs /\ approval[a].call \in Calls
               /\ call[approval[a].run][approval[a].call].stage # "absent"
    /\ \A r \in Runs : run[r].state = "absent" =>
          /\ run[r].finished_at = "null"
          /\ \A c \in Calls : call[r][c].stage = "absent"
    /\ \A r \in Runs, c \in Calls : call[r][c].stage = "absent" =>
          call[r][c] = NoCall /\ artifact[r][c] = None

OneApprovalPerCall ==
    \A a, b \in Approvals :
        (approval[a].decision # "absent" /\ approval[a].run = approval[b].run
            /\ approval[a].call = approval[b].call) => a = b

\* The stored consent of a publication.
Consented(r, c) ==
    \E a \in Approvals :
        /\ approval[a].run = r /\ approval[a].call = c
        /\ approval[a].decision = IF run[r].state = "interrupted"
                                  THEN "expired" ELSE "allowed"

\* The columns of a call agree with each other and with its other rows.
RowAgrees(r, c) ==
    /\ call[r][c].stage \in {"requested", "started"} =>
          call[r][c].result = 0 /\ artifact[r][c] = None
    /\ call[r][c].stage = "requested" => call[r][c].intent = None
    /\ call[r][c].intent # None => Consented(r, c)
    /\ artifact[r][c] # None =>
          /\ call[r][c].stage = "succeeded"
          /\ call[r][c].intent = artifact[r][c]
          /\ call[r][c].pub = "confirmed" /\ call[r][c].rec = "confirmed"
    /\ call[r][c].rec = "WRITE_OUTCOME_UNKNOWN" =>
          /\ call[r][c].pub = "unknown" /\ call[r][c].stage # "succeeded"
          /\ call[r][c].result # 0 \/ run[r].state = "interrupted"

ColumnsAgree == \A r \in Runs, c \in Calls : RowAgrees(r, c)

\* Where the messages of a call stand in its run.
ChainAgrees(r, c) ==
    call[r][c].stage # "absent" =>
        /\ call[r][c].ask \in 1..Len(msgs[r])
        /\ msgs[r][call[r][c].ask].role = "assistant"
        /\ c \in msgs[r][call[r][c].ask].calls
        /\ (call[r][c].result = 0 /\ run[r].state # "interrupted") =>
              \A i \in (call[r][c].ask + 1)..Len(msgs[r]) : msgs[r][i].role = "tool"

ChainsAgree == \A r \in Runs, c \in Calls : ChainAgrees(r, c)

JournalInv ==
    /\ JournalTypeOK
    /\ RowsExist /\ OneApprovalPerCall /\ ColumnsAgree /\ ChainsAgree
    /\ NoRequestOverOpenCall /\ ResultsAnswerCalls /\ ArtifactsAreBacked
    /\ UnknownIsNotSuccess /\ InterruptedIsSettled
=============================================================================
