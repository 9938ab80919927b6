------------------------------ MODULE WriteRun ------------------------------
(***************************************************************************)
(* Runs that write one file under approval.  The module composes           *)
(*   - the run thread: WebRuns._execute_session, SessionService.execute,   *)
(*     Runtime.run and ToolRuntime.invoke (variable main);                 *)
(*   - the daemon worker bounded_call starts for WriteFile.commit, which   *)
(*     outlives a timeout or a cancellation (variable worker);             *)
(*   - ApprovalBroker and RunControl, driven by the user and the clock     *)
(*     (the approval rows and flags);                                      *)
(*   - the journal, by extending RunJournal: a step of a thread is one     *)
(*     transaction of the journal at most;                                 *)
(*   - the file system: the one target path all the runs write to.         *)
(* Runs execute one at a time (WebRuns._check_start), in one process that  *)
(* holds state.lock and can die between any two steps.                     *)
(***************************************************************************)
EXTENDS RunJournal

CONSTANT MaxFaults   \* bound on failing storage operations in a behaviour

\* A publication carries the run and call whose content it is.
ASSUME WriteRunAssumption == MaxFaults \in Nat /\ Runs \X Calls \subseteq Payloads

VARIABLES main,     \* the run thread; run = None when no run is active
          worker,   \* worker[r]: the thread that commits the file of run r
          flags,    \* flags[r]: what RunControl.check and the deadlines of r raise
          exists,   \* the target path exists
          created,  \* history: the calls <<r, c>> whose os.link took effect
          faults    \* counter for MaxFaults

vars == <<run, msgs, call, approval, artifact, main, worker, flags, exists, created, faults>>

\* act is the decision of ToolRuntime.invoke; ends the state the run will be
\* finished with; final is finalize_only; escape: finish() is called in an
\* except branch of Runtime.run, where a failing journal is not caught.
Idle == [run |-> None, pc |-> "idle", todo |-> {}, cur |-> None, act |-> "continue",
         res |-> "fail", ends |-> "failed", final |-> FALSE, repaired |-> FALSE,
         escape |-> FALSE]

NoWorker == [pc |-> "none", call |-> None, out |-> "none"]

\* The states of the run thread and of a worker.
MainState ==
    [run : Runs \cup {None}, cur : Calls \cup {None}, todo : SUBSET Calls,
     pc : {"idle", "prepare", "loop", "model", "answer", "batch", "invoke", "read", "reading",
           "ask", "wait", "launch", "await", "record", "finish"},
     act : {"continue", "stop", "finalize"}, res : {"ok", "fail", "unknown"},
     ends : Finishes, final : BOOLEAN, repaired : BOOLEAN, escape : BOOLEAN]

WorkerState ==
    [pc : {"none", "stage", "enter", "intent", "link", "receipt", "done"}, call : Calls \cup {None},
     out : {"none", "ok", "fail", "unknown", "stop", "journal"}]

WriteInit ==
    /\ JournalInit
    /\ main = Idle
    /\ worker = [r \in Runs |-> NoWorker]
    /\ flags = [r \in Runs |-> {}]
    /\ exists = FALSE
    /\ created = {}
    /\ faults = 0

-----------------------------------------------------------------------------
\* RunControl.lock is held by the worker from the start of accept_publication
\* to its end (RunControl.commit).
LockHeld(r) == worker[r].pc \in {"intent", "link", "receipt"}

\* RunControl.check raises RunStopped.
Stopped(r) == flags[r] \cap {"cancel", "run"} # {}

\* check_commit, and check_stop with the deadline of the worker, raise.
TooLate(r) == flags[r] \cap {"cancel", "run", "tool"} # {}

\* Mutant of StopState: a state that finish_run does not know.
StopStateUnknown(r) == IF "cancel" \in flags[r] THEN "cancelled" ELSE "stopped"

StopState(r) == IF "cancel" \in flags[r] THEN "cancelled" ELSE "timed_out"

\* inspect_unknown_publication finds a row for the target path.
UnknownTarget ==
    \E r \in Runs, c \in Calls : call[r][c].rec = "WRITE_OUTCOME_UNKNOWN"

\* Mutant of HasOutput: the receipt of an earlier call is forgotten.
HasOutputForgotten(r) == FALSE

\* WriteFile._receipt is set (OUTPUT_LIMIT): every run that goes on to another
\* call after a successful os.link has stored the receipt.
HasOutput(r) == \E c \in Calls : artifact[r][c] # None

Fault == faults < MaxFaults /\ faults' = faults + 1

Main(pc) == main.run # None /\ main.pc = pc

\* The run thread moves and nothing but main (and what the action names) changes.
Finishing(ends, escape) ==
    main' = [main EXCEPT !.pc = "finish", !.ends = ends, !.escape = escape,
                         !.todo = {}, !.cur = None, !.act = "continue", !.res = "fail"]

\* The outcome of the current call is known; it is recorded next.
Outcome(res, act, ends) ==
    main' = [main EXCEPT !.pc = "record", !.res = res, !.act = act, !.ends = ends]

-----------------------------------------------------------------------------
\* start_session_run: _check_start, submit and the thread, under WebRuns.lock.
Start(r) ==
    /\ main.run = None
    /\ Submit(r)
    /\ main' = [Idle EXCEPT !.run = r, !.pc = "prepare"]
    /\ UNCHANGED <<worker, flags, exists, created, faults>>

\* Mutant of Prepare: a target with an unknown outcome is accepted.
PrepareUnchecked ==
    /\ Main("prepare")
    /\ \/ Finishing("failed", FALSE)
       \/ main' = [main EXCEPT !.pc = "loop"]
    /\ UNCHANGED <<journal, worker, flags, exists, created, faults>>

\* _execute_prepared up to Runtime.run: refuses a target whose outcome is
\* unknown, and can fail for a disabled agent, a changed workspace and the like.
Prepare ==
    /\ Main("prepare")
    /\ \/ Finishing("failed", FALSE)
       \/ ~UnknownTarget /\ main' = [main EXCEPT !.pc = "loop"]
    /\ UNCHANGED <<journal, worker, flags, exists, created, faults>>

\* The head of the loop of Runtime.run without a request.
LoopEnds ==
    LET r == main.run IN
    /\ Main("loop")
    /\ \/ /\ run[r].requests = MaxRequests
          /\ Finishing(IF main.final THEN "unable" ELSE "max_steps", FALSE)
       \/ run[r].requests < MaxRequests /\ Stopped(r) /\ Finishing(StopState(r), TRUE)
       \/ \* CONTEXT_LIMIT, found before or inside the request builder
          run[r].requests < MaxRequests /\ \E e \in BOOLEAN : Finishing("failed", e)
    /\ UNCHANGED <<journal, worker, flags, exists, created, faults>>

Request ==
    /\ Main("loop")
    /\ ~Stopped(main.run)
    /\ RecordModelRequest(main.run)
    /\ main' = [main EXCEPT !.pc = "model"]
    /\ UNCHANGED <<worker, flags, exists, created, faults>>

\* bounded_call gives up on the provider, or the provider raises.
ModelEnds ==
    LET r == main.run IN
    /\ Main("model")
    /\ IF Stopped(r) THEN Finishing(StopState(r), TRUE)
       ELSE \/ \E ends \in {"timed_out", "failed"} : Finishing(ends, TRUE)
            \/ Finishing("failed", FALSE)          \* not a ModelReply
    /\ UNCHANGED <<journal, worker, flags, exists, created, faults>>

\* A reply with tool calls.  In finalize_only every call is skipped.
ModelCalls(calls) ==
    /\ Main("model") /\ ~Stopped(main.run)
    /\ calls # {}
    /\ RecordModelReply(main.run, calls)
    /\ main' = [main EXCEPT !.pc = "batch", !.todo = calls,
                            !.act = IF main.final THEN "stop" ELSE "continue",
                            !.ends = IF main.final THEN "unable" ELSE "failed"]
    /\ UNCHANGED <<worker, flags, exists, created, faults>>

\* A reply without usable tool calls: a valid answer, an invalid one, bad calls.
ModelText ==
    /\ Main("model") /\ ~Stopped(main.run)
    /\ RecordModelReply(main.run, {})
    /\ \/ main' = [main EXCEPT !.pc = "answer"]
       \/ main.final /\ Finishing("unable", FALSE)
       \/ /\ ~main.final /\ ~main.repaired /\ run[main.run].requests < MaxRequests
          /\ main' = [main EXCEPT !.pc = "loop", !.repaired = TRUE]
       \/ ~main.final /\ Finishing("validation_failed", FALSE)
       \/ Finishing("failed", FALSE)
    /\ UNCHANGED <<worker, flags, exists, created, faults>>

\* control.check after a valid answer was recorded.
Answer ==
    LET r == main.run IN
    /\ Main("answer")
    /\ IF Stopped(r) THEN Finishing(StopState(r), TRUE)
       ELSE \E ends \in {"completed", "unable"} : Finishing(ends, FALSE)
    /\ UNCHANGED <<journal, worker, flags, exists, created, faults>>

-----------------------------------------------------------------------------
\* The loop over tool_calls: the next call is invoked ...
NextCall(c) ==
    /\ Main("batch") /\ c \in main.todo
    /\ main.act = "continue"
    /\ main' = [main EXCEPT !.pc = "invoke", !.cur = c]
    /\ UNCHANGED <<journal, worker, flags, exists, created, faults>>

\* ... or recorded as TOOL_SKIPPED once a call has stopped the batch.
SkipCall(c) ==
    /\ Main("batch") /\ c \in main.todo
    /\ main.act # "continue"
    /\ RecordToolResult(main.run, c, "fail")
    /\ main' = [main EXCEPT !.todo = @ \ {c}]
    /\ UNCHANGED <<worker, flags, exists, created, faults>>

BatchEnds ==
    /\ Main("batch") /\ main.todo = {}
    /\ IF main.act = "stop" THEN Finishing(main.ends, FALSE)
       ELSE main' = [main EXCEPT !.pc = "loop", !.act = "continue", !.ends = "failed",
                                 !.final = @ \/ main.act = "finalize"]
    /\ UNCHANGED <<journal, worker, flags, exists, created, faults>>

\* invoke up to the approval: validation refuses (the run goes on, or stops for
\* an error the user owns), a deadline or cancel stops, a tool without risk is
\* started at once and a write asks first.
Invoke ==
    LET r == main.run IN
    /\ Main("invoke")
    /\ \/ Outcome("fail", "continue", "failed")
       \/ Outcome("fail", "stop", "failed")
       \/ Stopped(r) /\ Outcome("fail", "stop", StopState(r))
       \/ ~Stopped(r) /\ main' = [main EXCEPT !.pc = "read"]
       \/ ~Stopped(r) /\ ~exists /\ ~HasOutput(r) /\ main' = [main EXCEPT !.pc = "ask"]
    /\ UNCHANGED <<journal, worker, flags, exists, created, faults>>

\* A tool that publishes nothing: record_tool_started, then its result.
ReadStarts ==
    /\ Main("read")
    /\ RecordToolStarted(main.run, main.cur)
    /\ main' = [main EXCEPT !.pc = "reading"]
    /\ UNCHANGED <<worker, flags, exists, created, faults>>

ReadEnds ==
    LET r == main.run IN
    /\ Main("reading")
    /\ \/ ~Stopped(r) /\ Outcome("ok", "continue", "failed")
       \/ ~Stopped(r) /\ \E act \in {"continue", "stop"} : Outcome("fail", act, "failed")
       \/ Stopped(r) /\ Outcome("fail", "stop", StopState(r))
       \/ Outcome("fail", "stop", "timed_out")                  \* TOOL_TIMEOUT
    /\ UNCHANGED <<journal, worker, flags, exists, created, faults>>

\* ApprovalBroker.request until the approval is pending.
Ask(a) ==
    /\ Main("ask") /\ ~Stopped(main.run)
    /\ RecordApprovalRequired(a, main.run, main.cur)
    /\ main' = [main EXCEPT !.pc = "wait"]
    /\ UNCHANGED <<worker, flags, exists, created, faults>>

AskRefused ==
    /\ Main("ask") /\ Stopped(main.run)
    /\ Outcome("fail", "stop", StopState(main.run))
    /\ UNCHANGED <<journal, worker, flags, exists, created, faults>>

Answered(decision) ==
    \E a \in Approvals :
        approval[a] = [run |-> main.run, call |-> main.cur, decision |-> decision]

\* Mutant of WaitEnds: the deadline of the approval is not looked at.
WaitEndsUntimed ==
    LET r == main.run IN
    /\ Main("wait")
    /\ IF Stopped(r) THEN Outcome("fail", "stop", StopState(r))
       ELSE \/ Answered("allowed") /\ main' = [main EXCEPT !.pc = "launch"]
            \/ Answered("denied") /\ Outcome("fail", "finalize", "unable")
    /\ UNCHANGED <<journal, worker, flags, exists, created, faults>>

\* The wait loop: _check before the decision, in its order.
WaitEnds ==
    LET r == main.run IN
    /\ Main("wait")
    /\ IF Stopped(r) THEN Outcome("fail", "stop", StopState(r))
       ELSE IF "approval" \in flags[r] THEN Outcome("fail", "stop", "timed_out")
       ELSE \/ Answered("allowed") /\ main' = [main EXCEPT !.pc = "launch"]
            \/ Answered("denied") /\ Outcome("fail", "finalize", "unable")
    /\ UNCHANGED <<journal, worker, flags, exists, created, faults>>

\* LiveTrace.emit fails inside request: Runtime.run catches the OSError.
TraceFault ==
    /\ Main("wait") /\ Fault
    /\ Finishing("failed", TRUE)
    /\ UNCHANGED <<journal, worker, flags, exists, created>>

\* record_tool_started and the thread of bounded_call for WriteFile.commit.
Launch ==
    LET r == main.run IN
    /\ Main("launch")
    /\ RecordToolStarted(r, main.cur)
    /\ worker' = [worker EXCEPT ![r] = [pc |-> "stage", call |-> main.cur, out |-> "none"]]
    /\ main' = [main EXCEPT !.pc = "await"]
    /\ UNCHANGED <<flags, exists, created, faults>>

\* Mutant of TakeResult: an unknown outcome does not stop the run.
TakeResultGoesOn ==
    LET r == main.run
        out == worker[r].out
    IN /\ Main("await")
       /\ worker[r].pc = "done" /\ ~TooLate(r)
       /\ CASE out = "ok" -> Outcome("ok", "continue", "failed")
            [] out = "unknown" -> Outcome("unknown", "continue", "failed")
            [] out = "fail" -> \E act \in {"continue", "stop"} : Outcome("fail", act, "failed")
            [] out = "journal" -> main' = Idle
       /\ UNCHANGED <<journal, worker, flags, exists, created, faults>>

\* bounded_call takes what the worker put into result_queue.
TakeResult ==
    LET r == main.run
        out == worker[r].out
    IN /\ Main("await")
       /\ worker[r].pc = "done" /\ ~TooLate(r)
       /\ CASE out = "ok" -> Outcome("ok", "continue", "failed")
            [] out = "unknown" -> Outcome("unknown", "stop", "failed")
            [] out = "fail" -> \E act \in {"continue", "stop"} : Outcome("fail", act, "failed")
            [] out = "journal" -> main' = Idle
       /\ UNCHANGED <<journal, worker, flags, exists, created, faults>>

\* Mutant of GiveUp: a worker that has answered is taken to have succeeded.
GiveUpTrusting ==
    LET r == main.run IN
    /\ Main("await") /\ TooLate(r) /\ ~LockHeld(r)
    /\ Outcome(IF worker[r].pc = "done" THEN "ok" ELSE "fail", "stop", StopState(r))
    /\ UNCHANGED <<journal, worker, flags, exists, created, faults>>

\* Mutant of GiveUp: the handler does not wait for control.lock.
GiveUpAtOnce ==
    LET r == main.run IN
    /\ Main("await") /\ TooLate(r)
    /\ Outcome(IF worker[r].out = "ok" THEN "ok" ELSE "fail", "stop", StopState(r))
    /\ UNCHANGED <<journal, worker, flags, exists, created, faults>>

\* bounded_call raises RunStopped; the handler waits for control.lock and then
\* looks for a receipt in published.
GiveUp ==
    LET r == main.run IN
    /\ Main("await") /\ TooLate(r) /\ ~LockHeld(r)
    /\ Outcome(IF worker[r].out = "ok" THEN "ok" ELSE "fail", "stop", StopState(r))
    /\ UNCHANGED <<journal, worker, flags, exists, created, faults>>

\* _outcome: record_tool_result.
Record ==
    /\ Main("record")
    /\ RecordToolResult(main.run, main.cur, main.res)
    /\ main' = [main EXCEPT !.pc = "batch", !.todo = @ \ {main.cur}, !.cur = None,
                            !.res = "fail"]
    /\ UNCHANGED <<worker, flags, exists, created, faults>>

Finish ==
    /\ Main("finish")
    /\ FinishRun(main.run, main.ends)
    /\ main' = Idle
    /\ UNCHANGED <<worker, flags, exists, created, faults>>

\* A transaction of the run thread fails: JournalFailure ends the run without
\* finish_run (persist=False); its row stays unfinished until the next start.
\* Only a failing finish_run that escapes is tried once more, as failed.
JournalFault ==
    /\ main.run # None /\ Fault
    /\ \/ main.pc \in {"loop", "model", "read", "ask", "launch", "record"} /\ main' = Idle
       \/ main.pc = "batch" /\ main.act # "continue" /\ main.todo # {} /\ main' = Idle
       \/ main.pc = "finish" /\ ~main.escape /\ main' = Idle
       \/ main.pc = "finish" /\ main.escape /\ Finishing("failed", FALSE)
    /\ UNCHANGED <<journal, worker, flags, exists, created>>

-----------------------------------------------------------------------------
\* The worker of run r, inside WriteFile.commit.
Working(r, pc) == worker[r].pc = pc

Done(r, out) == worker' = [worker EXCEPT ![r] = [@ EXCEPT !.pc = "done", !.out = out]]

\* The temporary file is written and verified, or an error is returned.
Stage(r) ==
    /\ Working(r, "stage")
    /\ \/ Done(r, "fail")
       \/ ~exists /\ worker' = [worker EXCEPT ![r].pc = "enter"]
    /\ UNCHANGED <<journal, main, flags, exists, created, faults>>

\* Mutant of EnterCommit: neither check nor check_commit is called.
EnterCommitUnchecked(r) ==
    /\ Working(r, "enter")
    /\ worker' = [worker EXCEPT ![r].pc = "intent"]
    /\ UNCHANGED <<journal, main, flags, exists, created, faults>>

\* RunControl.commit takes the lock, check and check_commit decide.
EnterCommit(r) ==
    /\ Working(r, "enter")
    /\ IF TooLate(r) THEN Done(r, "stop") ELSE worker' = [worker EXCEPT ![r].pc = "intent"]
    /\ UNCHANGED <<journal, main, flags, exists, created, faults>>

\* Mutant of Intent: the intent is not stored before os.link.
IntentUnstored(r) ==
    /\ Working(r, "intent")
    /\ worker' = [worker EXCEPT ![r].pc = "link"]
    /\ UNCHANGED <<journal, main, flags, exists, created, faults>>

Intent(r) ==
    /\ Working(r, "intent")
    /\ RecordPublicationIntent(r, worker[r].call, <<r, worker[r].call>>)
    /\ worker' = [worker EXCEPT ![r].pc = "link"]
    /\ UNCHANGED <<main, flags, exists, created, faults>>

IntentFault(r) ==
    /\ Working(r, "intent") /\ Fault
    /\ Done(r, "journal")
    /\ UNCHANGED <<journal, main, flags, exists, created>>

Creates(r) == exists' = TRUE /\ created' = created \cup {<<r, worker[r].call>>}

\* os.link: creates the file, or fails with an errno that says it did not.
Link(r) ==
    /\ Working(r, "link")
    /\ \/ ~exists /\ Creates(r) /\ worker' = [worker EXCEPT ![r].pc = "receipt"]
       \/ Done(r, "fail") /\ UNCHANGED <<exists, created>>
    /\ UNCHANGED <<journal, main, flags, faults>>

\* os.link fails with any other errno: WRITE_OUTCOME_UNKNOWN.
LinkFault(r) ==
    /\ Working(r, "link") /\ Fault
    /\ Done(r, "unknown")
    /\ \/ ~exists /\ Creates(r)
       \/ UNCHANGED <<exists, created>>
    /\ UNCHANGED <<journal, main, flags>>

Receipt(r) ==
    /\ Working(r, "receipt")
    /\ RecordPublicationReceipt(r, worker[r].call, <<r, worker[r].call>>)
    /\ Done(r, "ok")
    /\ UNCHANGED <<main, flags, exists, created, faults>>

ReceiptFault(r) ==
    /\ Working(r, "receipt") /\ Fault
    /\ Done(r, "unknown")
    /\ UNCHANGED <<journal, main, flags, exists, created>>

-----------------------------------------------------------------------------
\* decide_session and ApprovalBroker.decide: one journal write under the
\* broker's condition and control.lock.
Decide(d) ==
    /\ Main("wait")
    /\ ~Stopped(main.run) /\ "approval" \notin flags[main.run]
    /\ \E a \in Approvals : approval[a].run = main.run /\ approval[a].call = main.cur
                            /\ RecordApprovalDecision(a, d)
    /\ UNCHANGED <<main, worker, flags, exists, created, faults>>

\* cancel_session: RunControl.cancel_run needs the lock; the broker that it
\* closes next raises only after RunControl.check, which raises from here on.
Cancel ==
    /\ main.run # None /\ ~LockHeld(main.run)
    /\ flags' = [flags EXCEPT ![main.run] = @ \cup {"cancel"}]
    /\ UNCHANGED <<journal, main, worker, exists, created, faults>>

\* The clock: the deadline of the run stands still while an approval waits.
Expire(flag) ==
    /\ main.run # None
    /\ CASE flag = "run" -> main.pc # "wait"
         [] flag = "tool" -> main.pc = "await"
         [] flag = "approval" -> main.pc = "wait"
    /\ flags' = [flags EXCEPT ![main.run] = @ \cup {flag}]
    /\ UNCHANGED <<journal, main, worker, exists, created, faults>>

\* Somebody else creates or removes the target.
External ==
    /\ exists' = ~exists
    /\ UNCHANGED <<journal, main, worker, flags, created, faults>>

\* The process dies, all threads with it, and the next one recovers the store
\* before it accepts a run.
Restart ==
    /\ RecoverInterrupted
    /\ main' = Idle
    /\ worker' = [r \in Runs |-> NoWorker]
    /\ UNCHANGED <<flags, exists, created, faults>>

-----------------------------------------------------------------------------
MainStep ==
    \/ Prepare \/ LoopEnds \/ Request
    \/ ModelEnds \/ ModelText \/ Answer \/ \E calls \in SUBSET Calls : ModelCalls(calls)
    \/ \E c \in Calls : NextCall(c) \/ SkipCall(c)
    \/ BatchEnds \/ Invoke \/ ReadStarts \/ ReadEnds
    \/ \E a \in Approvals : Ask(a)
    \/ AskRefused \/ WaitEnds \/ Launch \/ TakeResult \/ GiveUp \/ Record \/ Finish

WorkerStep(r) ==
    \/ Stage(r) \/ EnterCommit(r) \/ Intent(r) \/ Link(r) \/ Receipt(r)

FaultStep ==
    \/ TraceFault \/ JournalFault
    \/ \E r \in Runs : IntentFault(r) \/ LinkFault(r) \/ ReceiptFault(r)

UserStep ==
    \/ \E r \in Runs : Start(r)
    \/ \E d \in {"allowed", "denied"} : Decide(d)
    \/ Cancel \/ External

WriteNext ==
    \/ MainStep
    \/ \E r \in Runs : WorkerStep(r)
    \/ \E flag \in {"run", "tool", "approval"} : Expire(flag)
    \/ FaultStep \/ UserStep \/ Restart

WriteSpec == WriteInit /\ [][WriteNext]_vars

\* The threads of the process run and its clock advances; users, faults and
\* the death of the process are never owed.
WriteFairness ==
    /\ WF_vars(MainStep)
    /\ \A r \in Runs : WF_vars(WorkerStep(r))
    /\ WF_vars(Expire("approval"))

FairWriteSpec == WriteSpec /\ WriteFairness

-----------------------------------------------------------------------------
\* Type invariant.
WriteTypeOK ==
    /\ JournalTypeOK
    /\ main \in MainState /\ worker \in [Runs -> WorkerState]
    /\ flags \in [Runs -> SUBSET {"cancel", "run", "tool", "approval"}]
    /\ exists \in BOOLEAN /\ created \subseteq Runs \X Calls /\ faults \in 0..MaxFaults

\* A file appears only while everything that authorises it is durable and
\* valid: the approval of this very call is stored, its intent is stored, no
\* outcome of the call is recorded yet, the run is not finished, and the user
\* has not cancelled -- although the run thread may have given up on the worker
\* that creates the file (approval, commit lock and intent of tool_runtime.py).
PublicationIsCovered ==
    [][\A r \in Runs, c \in Calls : <<r, c>> \in created' \ created =>
          /\ Allowed(r, c) /\ call[r][c].intent = <<r, c>> /\ call[r][c].result = 0
          /\ run[r].finished_at = "null"
          /\ "cancel" \notin flags[r]]_vars

\* What is recorded as created was created: an artifact, and the success of a
\* call that asked for approval, are never recorded for a file that is not ours.
ConfirmedIsReal ==
    \A r \in Runs, c \in Calls :
        /\ artifact[r][c] # None => artifact[r][c] = <<r, c>> /\ <<r, c>> \in created
        /\ (call[r][c].stage = "succeeded" /\ \E a \in Approvals :
                 approval[a].run = r /\ approval[a].call = c)
               => artifact[r][c] # None

\* A restart never calls a created file "not executed": in an interrupted run
\* it either has its artifact, or a recorded result, or is marked unknown.
CrashIsClassified ==
    \A r \in Runs, c \in Calls :
        (run[r].state = "interrupted" /\ <<r, c>> \in created /\ call[r][c].result = 0) =>
            artifact[r][c] # None \/ call[r][c].rec = "WRITE_OUTCOME_UNKNOWN"

\* What the rows say of a file and what is in the directory agree: nothing is called written
\* that is not, and after a crash nothing that is written is called "not executed".
FilesAreAccountedFor == ConfirmedIsReal /\ CrashIsClassified

\* While the outcome of a write to the target is recorded as unknown, no later
\* run creates the target (the check in SessionService._execute_prepared).
UnknownBlocksTarget == [][UnknownTarget => created' = created]_vars

\* A run has one output at most, also when somebody removes it meanwhile
\* (WriteFile._receipt and the stop after an unknown outcome).
OneOutputPerRun ==
    \A r \in Runs, c, d \in Calls : {<<r, c>>, <<r, d>>} \subseteq created => c = d

\* A run that completed left nothing open behind it: every call it requested
\* has a result, none of them unknown, and every file it created is an artifact.
CompletedMeansSettled ==
    \A r \in Runs : run[r].state = "completed" =>
        \A c \in Calls : /\ ~Open(r, c)
                         /\ call[r][c].rec # "WRITE_OUTCOME_UNKNOWN"
                         /\ <<r, c>> \in created => artifact[r][c] # None

\* A result recorded as a plain failure is true: that call created no file.
\* ("do not claim that nothing was written", tool-runtime plan)  Not so: see the README.
FailureIsHonest ==
    \A r \in Runs, c \in Calls :
        (call[r][c].result # 0 /\ call[r][c].stage = "failed") => <<r, c>> \notin created

\* Every run ends, whatever the user does or does not do: no thread waits for
\* another for ever, and the journal refuses none of the steps they take.
RunEnds == \A r \in Runs : (main.run = r) ~> (main.run # r)

-----------------------------------------------------------------------------
\* The contract of a write, read off the stored rows.
AskedFor(r, c) == {a \in Approvals : approval[a].run = r /\ approval[a].call = c}

StoredConsent(r, c) ==
    IF AskedFor(r, c) = {} THEN "none"
    ELSE LET a == CHOOSE a \in AskedFor(r, c) : TRUE
         IN CASE approval[a].decision = "pending" -> "asked"
              [] approval[a].decision = "expired" -> "lapsed"
              [] OTHER -> approval[a].decision

StoredOutcome(r, c) ==
    IF AskedFor(r, c) = {} THEN "none"
    ELSE IF call[r][c].rec = "WRITE_OUTCOME_UNKNOWN" THEN "unknown"
    ELSE IF artifact[r][c] # None THEN "ok"
    ELSE IF call[r][c].stage \in {"failed", "interrupted"}
            \/ (call[r][c].stage = "skipped" /\ call[r][c].result # 0) THEN "fail"
    ELSE "none"

Contract == INSTANCE WriteContract WITH
    Writes  <- Runs \X Calls,
    consent <- [w \in Runs \X Calls |-> StoredConsent(w[1], w[2])],
    made    <- created,
    told    <- [w \in Runs \X Calls |-> StoredOutcome(w[1], w[2])],
    halted  <- {w \in Runs \X Calls : TooLate(w[1])}

\* The composition keeps the contract of every write.
KeepsContract == Contract!ContractSpec
=============================================================================
