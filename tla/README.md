# TLA+ models of LocalAgentRuntime

LocalAgentRuntime runs a language model as an agent on one user's machine. The
model asks for tools; the runtime executes them under limits, asks the user
before it writes a file, keeps the record of every run in one SQLite database,
and can be driven from a web page or from a Feishu chat. The modules here model
the parts of it where the order of things matters: what is durable when a
process dies, who may still act after a timeout or a cancellation, and what a
user is told.

All paths below are relative to `src/local-agent/local_agent/`.

## The system

| Component | State it keeps | Operations | What is hard about it |
|---|---|---|---|
| Run journal (`session_store.py`: `RunJournal`, `recover_interrupted`) | tables `runs`, `messages`, `tool_calls`, `approvals`, `artifacts` | one transaction each: request, reply, tool started, tool result, approval required and decided, publication intent and receipt, finish; recovery at start | called by three threads; a crash between any two transactions |
| Run thread (`runtime.py`, `tool_runtime.py`, `sessions.py` execute) | messages of the run, budget, decision of the batch | model request, batch of calls, approval, commit, finish | gives up on threads that go on working |
| Commit worker (`write_file.py`, `tool_runtime.py` publish) | temporary file, receipt | stage, check, intent, `os.link`, receipt | a daemon thread that survives its timeout |
| Approvals (`approvals.py`) | pending approval, `RunControl` flags and deadlines | request, decide, close, suspend, commit lock | user, clock, cancel and worker meet here |
| WebRuns (`web_runs.py`) | active jobs, `runs.lock` | start, continue, cancel, decide, snapshot, import jobs, close | one active run; idempotent submission; shutdown with a time limit |
| Sessions (`sessions.py`) | tables `sessions`, `runs` | create, submit, continue, archive, artifacts, attach import | request ids that come twice; frozen scopes |
| Feishu channel (`channels/service.py`, `channels/store.py`) | tables `channel_bindings`, `channel_events`, `channel_outbox` | receive, dispatch, command, adopt, sync, deliver, retry, configure, recover | four threads over two tables, one transaction at a time; lost answers; restarts |
| Feishu transport (`channels/feishu.py`, `feishu_worker.py`) | the SDK process | receive with ACK, send | ACK only after the message is stored |
| Imports (`imports.py`, `import_worker.py`, parsers) | staging and published directories, table `imports` | begin, upload, finalize, cancel, open, recover | two stores (files and tables) that a crash separates |
| State gate and backup (`state_maintenance.py`, `state_backup.py`) | leases, backup bundle | lease, maintenance, backup, restore | a backup needs a moment without activity |
| Context (`context.py`, `session_history.py`, `conversation.py`) | summaries of a session, how far they cover it | build a request, ask for a summary, store it, read history | a limit in bytes; a covered number that runs closed late can jump |
| Agents, skills (`agents.py`, `agent_runtime.py`, `skills.py`) | catalogs with revisions and a flag | save, install, enable, disable, bind, assemble, call | files that are read and written back without a lock while a run uses them |
| MCP client (`mcp_client.py`, `mcp_tools.py`) | a subprocess, a thread with an event loop, receipts | start, discover, request, close | answers that come late or twice; three threads that close |
| File tools, provider, answers, trace, HTTP, browser, evaluation | little or none | reading, validating, presenting | system calls and text; no protocol of their own |

How they interact. An HTTP handler or the channel's dispatch thread calls
`WebRuns`, which checks under `runs.lock` that no run is active, has the session
service insert the run, and starts the run thread. The run thread stores each
step in the journal before it acts on it. A write asks the broker, which
stores the approval and waits for the user; an allowed write starts a commit
worker, which publishes under `RunControl.lock` between two journal
transactions. The channel never looks into a run: it polls the snapshot of
`WebRuns` and turns what it sees into notices. At start the process takes
`state.lock`, settles every unfinished run, and only then recovers the channel.

What makes each part correct:

* journal: rows of different tables never contradict each other, an interrupted
  run has nothing half-open, an ended run is history;
* approved write: no file without a stored approval and intent, at most one per
  run, none after the user cancelled, and what is recorded about it is true;
* channel: nothing is executed twice or after it was refused, nothing is sent
  twice or to a binding that is gone, everything is answered in the end;
* WebRuns and sessions: one run at a time, one run per request id;
* imports: a published batch is attached exactly once, a cancelled one is gone;
* backup: a bundle is one moment of the state as a whole, can be restored, and
  every answer says what is there;
* context: a request is within its limit and says what it leaves out; a summary
  covers only what it was made from;
* capabilities: once an item is disabled nothing more is let through to it, and a
  current file names files that exist;
* MCP: an answer belongs to the call that waits for it, nobody waits for ever, and
  no server is left running.

## Modules

| Module | What it is |
|---|---|
| `RunJournal` | the five tables and every operation on them, callable in any order; the invariants and their inductive strengthening `JournalInv` |
| `WriteContract` | abstract specification: what is promised about one approved write |
| `WriteRun` | extends `RunJournal` with the run thread, the commit worker, the user, the clock, the target file, storage faults and restarts |
| `Channel` | the chat channel: inbox, dispatch and delivery threads, start-up, over its two tables |
| `ImportContract` | abstract specification: an import is decided once |
| `ImportStore` | the import of documents: uploads, cancellation, the job, the maintenance gate, close and start-up over rows and directories |
| `SubmissionContract` | abstract specification: a request id stands for one run |
| `WebRuns` | handlers that race for the one active run, the run threads, close with its time limit, crash and the next process |
| `BackupContract` | abstract specification: backup and restore copy one moment as a whole |
| `StateBackup` | backup under the gate and restore, with runs, imports, other programs and failing system calls in between |
| `Context` | what a model request carries of earlier runs: choice of runs, summaries, the fit into the limit |
| `Capabilities` | agents, MCP servers and skills as files that are changed without a lock, and the checks of a run that uses them |
| `McpContract` | abstract specification: a call is told once, truly, and the server does not outlive the connection |
| `McpClient` | one connection of a run to an MCP server: run thread, workers, the loop with its reader, and the server |
| `WriteRunProofs` | the invariants of `RunJournal`; that `WriteRun` keeps to the journal and the contract of a write, and its invariants |
| `WebRunsProofs` | the invariants of `WebRuns`, and that it implements `SubmissionContract` |
| `StateBackupProofs` | the types of `StateBackup`, and that it implements `BackupContract` |
| `CapabilitiesProofs` | the invariants of `Capabilities`, and that nothing is let through to a revoked capability |
| `ChannelProofs` | the invariants of `Channel`, and that a run is started only under its binding |
| `McpProofs` | the types of `McpClient`, and that it implements the safety part of `McpContract` |
| `ImportProofs` | the invariants of `ImportStore`, that under a backup the program moves nothing in it, and that it implements `ImportContract` |
| `ContextProofs` | what sums and maxima over runs are, and with it the invariants of `Context` |
| `MC...` | instances for TLC |

`PROJECT.json` maps every definition to the lines it models.

### RunJournal

Each method of `RunJournal` is one `BEGIN IMMEDIATE` transaction, so it is one
action; where the method raises `JOURNAL_ORDER_ERROR` the action is disabled.
`run`, `msgs`, `call`, `approval` and `artifact` are the five tables. A message
keeps its role and the calls it names; a payload stands for path, size and
digest of a publication. `Submit` is the insertion of
`SessionService._submit_in_transaction`, `RecoverInterrupted` the one
transaction a new process runs before anything else. Nothing constrains the
order of calls except the checks in the methods themselves: whatever holds
here holds for every caller. There is one exception, stated in the module: the
table would take a second approval of a call, and the model does not, because
the only caller asks at most once per call.

`finish_run` accepts any state, and the set of final states in
`_unfinished_run` names five of them; `unable`, `timed_out` and `max_steps` are
recognised by `finished_at` only. Both sets are in the model (`Terminal`,
`Finishes`), and `FinishedIsFinal` is what depends on it.

### WriteRun

`main` is the run thread (`pc` names the place in `Runtime.run` and
`ToolRuntime.invoke`), `worker[r]` the thread that `bounded_call` starts for
`WriteFile.commit`. A step contains at most one transaction of the journal, so
the user, the clock, the other thread and a crash can come between any two.
The three steps `Intent`, `Link` and `Receipt` of the worker are inside
`RunControl.commit`: `LockHeld` keeps `Cancel` and the `RunStopped` handler
(`GiveUp`) out, as `control.lock` does. The clock is a set of flags: `run`,
`tool` and `approval` are deadlines that have passed, and the deadline of the
run does not pass while an approval is pending (`RunControl.suspend`). A worker
that was given up goes on, and a run that has ended may still have one.
`Restart` is the death of the process together with the recovery of the next,
because no other operation is possible before it. `External` is any other
program that creates or removes the target.

A reply of the model is a set of calls, a text (valid, invalid, repaired once
or not), or a failure. Every tool but the write is `ReadStarts`/`ReadEnds`.
Requests that summarise the history are left out. Faults are one failing
storage operation: a transaction of the run thread or the worker, the log
during an approval, or `os.link` with an error that does not say whether the
file was created. The other writes to the log cannot fail a persistent run
(`emit` in `Runtime.run` catches them).

`KeepsContract` says that the composition implements `WriteContract`: consent
is read off the approvals, what was told off the calls and artifacts, and what
was made off the file system. The contract admits "fail" for a file that was
created if the run was cancelled or timed out: that weakening is
`FailureIsHonest` below, and nothing else needed one.

### Channel

Every store call is a transaction of its own. A handler that makes several of
them leaves the rest in `todo[thread]`, and the transactions are executed one
at a time by `UpdateEvent`, `SuppressNotices`, `EnqueueNotice`, `StartRun`
and `AdoptEvent`. `lock` is `runs.lock` across the transactions of a handler
that holds it; handlers that do not take it (`sync`, `_adopt_continuations`)
interleave with the others. `tick.batch` holds the events that `tick` or `sync` read
once and works through, in the order they were received (`Turn`); continuations
are adopted in any order, as the query for them states none. A crash empties all
threads and keeps the tables. `Configure`, `RecoverDelivery`, `Recover` and `Up` are start-up.

`runs` is what the channel sees of a run. A continuation is a run that the user
started at the workbench to continue one that a restart interrupted; the
channel adopts it. A notice is identified by event and kind, as in the table.
`landed` and `retried` are history variables for `NoBlindResend`.

The server calls `configure` at start only (`Configure`). `Reconfigure` is the
same method on a running service, which the class allows and takes its two
locks for. It is enabled only when `LiveRebind` is TRUE, in the run `channel`;
nothing listed under Findings depends on it.

### ImportStore

`status`, `stored` and `linked` are the rows (`imports`, `import_files`,
`sessions.import_id`); `dir`, `temps`, `finals` and `gen` the directory under
`imports/.staging`, with the files that are being copied, the files under their
final name, and the part that the job generates; `formal` the published
directory. Manifest, chunks and hashes are reduced to whether
`_load_publication` accepts them. `shown` is a failure that the page would
display: `error_code` of the row or an entry of `import_failures`.

The lock of an import and the leases of the gate are held exactly while their
holder is inside its handler, so `Locked` and `Leased` are read off the actors.
`add_file` takes a lease and not the lock; `cancel` reads the status before it
has the lock (`CancelAsks`) and checks again inside (`Cancellable`).
`_remove_staging_batch` is three steps, because an upload may come between
the listing, the removals and the `rmdir`. The rest of a handler that runs
under the lock is split where another actor could tell: at the transactions, the
rename, and the two looks at the cancellation flag. A backup holds the gate
between `BackupStarts` and `BackupEnds`. `Close` forgets nothing and joins the
job; `Crash` can happen at any step, also during start-up. `Boot`, `Recover`,
`RecoverRemoves` and `RecoverLinks` are `recover_interrupted` and
`recover_imports`; nothing else runs then; `Up` opens every linked import at their end.
`Damage` is another program that changes a published file, and `Look` is
`ImportStore.open` at run time, which a view of the session
(`web_runs.py:761`), the start of a run in it (`sessions.py:144`) and a backup
(`state_backup.py:531`) call: it takes the lock of the import but no lease, and
records a published import with damaged files as unavailable.

`QuietUnderBackup` says what the gate is good for: while a backup holds it, no
upload, directory, publication, link or status of an import changes, with two
exceptions that are written into it, the damage by another program and the
`unavailable` of a look. It says nothing of `shown`: the failure of a finalizing
import is written without a lease (`web_runs.py:345`, `web_runs.py:392`), so the
column `error_code` does change under the gate, and a backup copies the one or
the other value.

`KeepsImportContract` maps each import to a phase of `ImportContract`: new,
open, published, linked or dropped. A confirmed cancellation (`told`) is
never followed by a publication, a publication is undone only if its files were
damaged (`harmed`), and a session is never taken back.

### WebRuns

`rows` is the table of runs in the order of insertion, so a run is its index.
`holder` is `runs.lock`: `Enter` takes it together with the check
`_check_start`, which comes first also for a submission that was stored before,
and a handler keeps it until `Reply`, `Refuse` or a failure. A handler under the
lock takes one step per transaction or effect (look up or insert the row,
register and start the thread, answer), because run threads, `change_session`
and a crash go on meanwhile. One-shot runs (`WebRuns.start`) look, let go of the
lock while they are assembled, and look again: `OneShotLooks`, `OneShotStarts`.
`thread[r]` is the run thread from `Execute` to `EndJob`: an execution that
raises is finished by `_execute_session` itself (`"failing"`), and a failing
transaction may leave the row open (`faulted`).

`Close` and `CloseEnds` may have any number of steps in between, none included:
the joins have a limit of two seconds, and then the store and `state.lock` are
given up whatever the thread is doing. `late` are threads of a closed process
that are still there after `Boot`: such a thread gets no new connection, but a
transaction on a connection that it had goes through (`FinishRun`, against
`Connects`). `Exit` is the end of that process.

`KeepsSubmissionContract` reads the accepted submissions, the outcome of each
run and the answers off the rows: no second run for a request id, no other run
as an answer, no second outcome of a run.

### StateBackup

An import has its rows (`status`, and `output` for what the rows say of its one
output file) and its files (`source`, `file`). A run is queued without a lease
and executes with one, or fails if a backup has the gate. `backup` and `restore`
are the two commands, which go through the steps of `backup_bundle` and
`restore_bundle`; hashes and trees are reduced to "the same as recorded" or not.
`BackupSnapshots` copies the rows at one moment, then each import is opened and
compared (`BackupInspects`) and copied (`BackupCopies`); in between another
program changes files (`Damage`), somebody looks at a session, which records
damage without a lease (`View`), and a queued run ends. `Occupy` takes one of the
two names, `Tamper` changes the bundle, and `BackupFault` and `RestoreFault` are
a failing system call at any place, before or after the rename that makes the
result visible. `Whole` is stated over the parts of a bundle, independently of
the checks that the commands make.

### Context

The session is a sequence of runs with the numbers of their first and last
message. `EndFault` leaves a row open while the session goes on, and `Restart`
closes every open row behind all messages, as `recover_interrupted` does: that is
how a run can have a number behind runs that came later. `History`,
`Candidates`, `Taken` and `Fit` are the pure parts of `ContextBuilder`; `Fit` is
the loop that drops the oldest run first, then the summary, then the notice,
written as a choice of the largest number of runs that fits. A size is a small
number, a summary and a notice take one unit. What a summary quotes is any set
the model likes to answer; `Valid` is what the code accepts. `source` is a
history variable: the runs that were given to the model for a summary.

### Capabilities

One agent, one server and one skill. `current[x]` is the small file that is
replaced as a whole (`current.json`, `library.json`), `files[x]` the immutable
files that it names. A change is a handler with one step per file that it reads
or writes: the flag, the content, the new file, the current file, and for a
`disable` from the page the cancellation of runs under `runs.lock`. Nothing
keeps two changes apart, as in the code. `Breaks` stops a change before any of
its writes. A run of a session is checked at its start, every run at `assemble`, and
from then on once per round and call: `Checks` reads the flags, as `model_request`
(`runtime.py:303`) and `before` (`tool_runtime.py:271`) do, and only a later step
sends what was let through. In between a run of a session may ask for a summary
(`Summarizes`), and a write waits for its approval; what follows (`Uses`) looks at
the cancellation again but at no flag, except that a skill is looked up when it
is read. `revoked` is a history variable: the items disabled while no other
change was crossing.

`NothingLetThrough` is what the code keeps: no check succeeds for an item after it was
revoked, a disabled skill is not read even by a call that was let through, and a
run that the page found and stopped sends nothing. What may still go out is the one
request or call of a run that was let through before; see `StopsAtOnce` below.

### McpClient

`loop` is the thread with the event loop, from the import of the SDK to the end
of `_main`; `process`, `received` and `lines` are the server and what is between
it and the reader. A request is a number, in the order in which requests are
made; `caller[k]` is the thread that makes it, which is the run thread for the
requests of the discovery and a worker of `bounded_call` for a call, and
`future[k]` what the loop owes it. `exchange` is the holder of `_exchange_lock`:
its request was begun, sent or answered. `Reads` accepts a line as the answer
to the request that was sent and is not answered, as the id in `_pending` does,
and fails the connection otherwise. `Closes` is `close`, which the caller of a
request (`Abandons`), the run thread that gives up a worker (`CallStops`), a
failed start or discovery, and the end of the run execute in any order
(`Quits`); what a worker does after it is given up is in the model
(`StoresReceipt`, `Proves`). `Verified` is `verify_success`, which the run
thread evaluates before it records a success. The server may answer what it has
got once, several times, late or never, write anything else, and die.

`KeepsMcpContract` reads the process, what was recorded of each call and what the
server answered (a history variable): a success is recorded only of a call that
the server answered, whoever gives a call up has the server stopped, and in the
end every call is told and the server is gone.

## Runs

| Run | Instance | States | Shows |
|---|---|---|---|
| `journal` | 1 run, 2 calls, 2 approvals, 2 payloads, 2 requests | 32 k | the rows stay consistent in any order of operations |
| `batch` | 1 run, 2 calls, 2 requests, 1 fault, fairness | 208 k | write safety, the contract, and that every run ends |
| `two_runs` | 2 runs, 1 call each, 1 fault | 1.2 M | an unknown outcome blocks later writes to the target |
| `inbox` | 2 of 4 messages (2 requests, a command, a malformed one), 1 crash, fairness | 115 k | announced ends; what was given up stays so; every message is settled |
| `channel` | 1 request, 1 continuation, 2 attempts, 1 retry, 2 revisions, 1 crash | 4.8 M | no notice is repeated unasked; nothing is started or sent for a binding that is gone |
| `imports` | 2 imports, of 2 files and 1, 1 start, 1 damage, fairness | 586 k | an import is decided once, under a backup nothing changes but damage and its record, jobs and close come to rest |
| `sessions` | 2 sessions, 2 request ids, 2 contents, 2 clients, 2 runs, 1 fault | 283 k | one active run, no open row without an owner, the submission contract across close and restart |
| `backup` | 2 imports, 1 damage, 1 fault | 739 k | the backup contract, with the answers |
| `context` | up to 6 runs of 3 sizes, 2 recent runs, 1 fault | 924 k | summaries cover what was read, requests fit and are honest |
| `capabilities` | 3 items, 1 version, 2 clients, 3 changes | 7.4 M | current files are whole; after a disable nothing more is let through |
| `mcp` | 4 requests, 3 sent, 2 lines on their way, fairness | 52 k | calls are told once and truly; the server does not outlive the connection |
| `lost` | | | the finding |

Bounds. The constants whose names begin with `Max` are limits of the instances,
not of the code, except that `MaxRequests` stands for `max_steps` and
`MaxAttempts` for the three attempts of a notice.
* Journal and write: two calls in a batch are enough for a batch that is
  stopped half-way, and two requests for a batch after another; two runs for a
  run that follows another on the same target. Runs are otherwise independent:
  the rows of a run name no other run.
* Channel: in `inbox` two requests compete for the one active run, and the desk
  user for the same; any two of four messages of all three kinds come in. One
  crash is enough for every place between two transactions. `Watched` limits
  the kinds of notice that the delivery thread handles in a run: notices of
  different kinds do not influence each other but through `suppress`. `channel`
  delivers the notice that the end of a run suppresses. Rate limits use two
  attempts in place of three.
* Imports: a batch of two files is needed for a removal that fails half-way and
  for an upload that is late for a complete batch, a second import for the one
  job that is admitted at a time and for the gate; imports meet nowhere else.
* Sessions: two clients race for the lock; two runs give a continuation and its
  parent, or a repetition beside another run. Restarts are not bounded.
* Backup: two imports, so that one can be damaged while the other is copied;
  one damage or tampering and one failing call in all, at any step.
* Context: with two recent runs and a limit of five, six runs are needed for a
  second summary on top of a first; size five fills a request alone.
* Capabilities: three changes are two that cross and one after them. Every mix of
  installed, enabled and disabled items is an initial state.
* MCP: the first request is the handshake, so four requests are a discovery of
  one or more pages and up to three calls; the limit of the connection
  (`RequestLimit`, 128 in the code) is reached by the last of them. Two lines on
  their way are an answer and its duplicate.

Symmetry is used in runs without fairness only, over sets whose members no
definition tells apart. Deadlock is checked in every run: a restart, a crash or a foreign
program can always act, the loop of the dispatch thread never stops, and `Over` is
the end of a connection.

Fairness. In `FairWriteSpec` the run thread and the workers are scheduled, and
the deadline of an approval passes: the wait loop in `ApprovalBroker.request`
polls every 50 ms. No fairness is assumed of the user, of cancellation, of
faults, of other programs, or of restarts. A model or tool that hangs is ended
by `bounded_call`, so the step that ends it is a step of the run thread. In
`FairChannelSpec` the dispatch thread, start-up and the inbox callback are
scheduled (the loop polls every half second), and every run ends, which is
`RunEnds` of `WriteRun`. Messages, users, deliveries, changes of the binding
and crashes are never owed. In `FairImportSpec` the job, a cancellation that was
asked for, a removal, start-up and `Closed` are scheduled; a parser
answers or is killed at its deadline of 20 seconds. `CloseCancels` is
strongly fair: `close` cancels an import while users cancel it too, and in the
model it needs a moment at which none of them is inside, although in the code
it only queues for the same lock. Uploads end when the client says so and are
owed nothing. `ComesToRest` says that whatever happens there is always again a
moment without a running job and without a `close` that is still waiting. In
`FairMcpSpec` the loop, the run thread and the callers are scheduled; a request
that waits has a deadline of its own, and a run makes a limited number of
requests. The server owes nothing, not even an answer. The
other modules state no fairness: what they promise is safety, and nothing in
the code makes a user or a later process act.

## Findings

One run has a counterexample, to a sentence of the design documents that the code
does not keep.

* `lost`: `state_backup.py:676`. The files of a published import change, the next
  look at it records it as unavailable, and a backup from then on copies its
  rows and its session but not its files, and reports success. The restore opens
  every session with an import (`state_backup.py:1070`) and fails for all of them.

Seen while modelling, without a run of their own. Those with a name are stated in
the modules: adding the definition to the configuration of the module shows the
counterexample.

* `FailureIsHonest` (`tool_runtime.py:387`): if a cancellation or a deadline reaches the
  run thread after the worker's publication ended as `WRITE_OUTCOME_UNKNOWN`, the
  handler reports the cancellation or timeout as a plain failure: it looks at
  `published` and not at `publication_outcomes`. The plan of the tool runtime asks to stop
  and mark the outcome unknown, never to claim that nothing was written. The
  later check for unknown outcomes does not find the call either.
* `SlowImport` (`mcp_client.py:252`): `close` stops a loop that is there. If
  importing the SDK outlasts the wait for the loop, the connection is closed and
  given up before `_loop` is set; the thread goes on, starts the server and waits
  for a `_stop` that nobody sets any more, and the server runs until the program
  ends. The extension design asks that a cancellation or timeout closes and
  collects the processes of the batch. With `SlowImport = TRUE` in
  `MCMcpClient.cfg`, `KeepsMcpContract` is violated.
* `RejectedNeverRuns` (`channels/service.py:335`): `tick` reads the received events
  without `runs.lock`; a message that the inbox rejects as busy right after that
  is in the copy, and is dispatched, and executed if the other run has ended. The
  channel design says that a busy message is recorded as rejected and does not
  run some minutes later.
* `CancelLeavesNothing` (`imports.py:1588`): `_remove_staging_batch` unlinks what it
  has listed and gives up at the first name that is gone. The page aborts an
  upload right before it asks for the cancellation (`static/app.js:740`), so the
  upload may remove its temporary file just then. The import is cancelled by that
  time, its other files stay, and nothing removes them later: another
  cancellation is refused, and start-up looks at open imports only.
* `StartUpSettles` (`imports.py:1485`): an import that was being parsed when the
  process died is kept as finalizing by start-up. No job works on it, no failure
  is shown, and the page polls it for ever. The design asks to clean it up or to
  retry.
* `CoveredWasRead` (`context.py:459`): how far a summary covers is the number of the
  last message of its last run. A run that a restart closed late has a number
  behind runs that were never given to the model; they count as covered from then
  on and never return into a request. The session design says that the covered
  number moves only to the position actually processed. `CoveredWasReadOrInside`,
  which is checked, exempts exactly these runs.
* Crossing changes (`agents.py:297`, `agent_runtime.py:57`, the index of `skills.py`):
  a save, a bind, an install or an enable that has read the flag before a
  `disable` writes the item back as enabled; of two binds at the same time one is
  lost. A one-shot run that is assembled before it is listed is stopped by its
  checks only, not by the cancellation; a `disable` from the command line cancels
  no run. `NothingLetThrough` exempts the first of these.
* `StopsAtOnce` (`runtime.py:303`): a run reads the flag of its agent once per request.
  `_build_request` may then ask the model for a whole summary, and the summary
  and the request after it go out with `control.check()` alone
  (`runtime.py:236`); a write is checked before its approval
  (`tool_runtime.py:271`) and not after it. A `disable` from the command line
  cancels no run, so when it comes in between, one more request or call is sent. The
  extension design (line 124) says that disabling a capability stops new calls at
  once. Without a cancellation `NothingLetThrough` allows this one request or
  call, and no second one.
* A look under the gate (`imports.py:1534`): while a backup copies, a session may be viewed
  and its damaged import be recorded as unavailable, without a lease (`Look` in
  `ImportStore`, `View` in `StateBackup`). A row that was copied as ready may then
  be unavailable in the state; `QuietUnderBackup` names this exception, and in the
  backup contract the two count as one state.
* `state_backup.py:422`: an approval that was allowed for a write that failed stays
  allowed after its run ended, and every later backup answers `STATE_BUSY`. A
  backup that was refused still makes a run that was queued meanwhile fail.
* `web_runs.py:593`: a repeated submission is refused as `RUN_ACTIVE` while its own
  run is active, and as `SESSION_ARCHIVED` when the session was archived, although
  the session design says that the original run is returned.
* `web_runs.py:886`: if the thread of a session run cannot be started, its job and
  its row stay.
* `channels/store.py:314`: a progress notice that is being sent while the run ends
  is not suppressed; if the platform limits the rate it is queued again and
  delivered after the final notice.
* `channels/service.py:185` with 266-267: a crash between the event of an adopted
  continuation and its run id makes start-up report "not executed" for a run
  that exists.
* `channels/service.py:177`: a crash between the first and the last transaction of
  `reject` leaves a rejected message without its notice for ever.
* `web_runs.py:393`: `complete_import` takes back a failure that was shown before
  `start_finalize`, which a backup or damaged files may refuse; the import is
  then finalizing with neither a failure nor a job.

## What is proved

Eight modules hold theorems. Each theorem is about every value of the constants; the
only assumptions are those of the modules (`JournalAssumption`,
`WriteRunAssumption`, `WebRunsAssumption`, `BackupAssumption`,
`CapabilitiesAssumption`, `McpAssumption`, `ChannelAssumption`, `ImportAssumption`,
`ContextAssumption`), which say that bounds and sizes are numbers, that an import has
files, and that values the code tells apart (an identifier, "none", another
program's file) are different. TLC evaluates them in every run.

| Module | Theorem | States |
|---|---|---|
| `WriteRunProofs` | `JournalTyped` | `[]JournalTypeOK` |
| | `RequestsWait` | `[]NoRequestOverOpenCall` |
| | `ResultsAnswer` | `[]ResultsAnswerCalls` |
| | `ArtifactsBacked` | `[]ArtifactsAreBacked` |
| | `UnknownStays` | `[]UnknownIsNotSuccess` |
| | `RecoverySettles` | `[]InterruptedIsSettled` |
| | `HistoryIsFinal` | `FinishedIsFinal` |
| | `KeepsJournal` | `WriteSpec => JournalSpec` |
| | `WriteTyping` | `[]WriteTypeOK` |
| | `FilesAccounted` | `[]FilesAreAccountedFor` |
| | `OneOutput` | `[]OneOutputPerRun` |
| | `CompletedSettles` | `[]CompletedMeansSettled` |
| | `PublicationCovered` | `PublicationIsCovered` |
| | `UnknownBlocks` | `UnknownBlocksTarget` |
| | `ContractKept` | `KeepsContract` |
| `WebRunsProofs` | `RunsTyped` | `[]WebRunsTypeOK` |
| | `OneRun` | `[]OneRunAtATime` |
| | `OpenRunsAreOwned` | `[]OpenIsOwned` |
| | `KeepsContract` | `KeepsSubmissionContract` |
| `StateBackupProofs` | `BackupTyping` | `[]BackupTypeOK` |
| | `KeepsContract` | `KeepsBackupContract` |
| `CapabilitiesProofs` | `CapabilitiesTyping` | `[]CapabilitiesTypeOK` |
| | `CurrentStaysWhole` | `[]CurrentIsWhole` |
| | `RevocationHolds` | `NothingLetThrough` |
| `McpProofs` | `McpTyping` | `[]McpTypeOK` |
| | `KeepsSafety` | `McpContractSafety` of the connection |
| `ChannelProofs` | `ChannelTypes` | `[]ChannelTypeOK` |
| | `NothingIsResent` | `[]NoBlindResend` |
| | `NoticesKeepTheirBinding` | `[]SentUnderBinding` |
| | `EndsAreAnnounced` | `[]EndIsAnnounced` |
| | `GivenUpNeverRuns` | `[]NotExecutedNeverRuns` |
| | `StartsKeepTheirBinding` | `StartedUnderBinding` |
| | `PlansKeepTheirGrounds` | `[]TodoIsGrounded` |
| `ImportProofs` | `ImportTyping` | `[]ImportTypeOK` |
| | `BatchesStayComplete` | `[]StaysComplete` |
| | `GateExcludesImports` | `[](maintenance => ~Leased)` |
| | `QuietWhileBackedUp` | `QuietUnderBackup` |
| | `DecidedOnce` | `KeepsImportContract` |
| `ContextProofs` | `ContextTyping` | `[]ContextTypeOK` |
| | `CoveredIsRead` | `[]CoveredWasReadOrInside` |
| | `RequestsAreHonest` | `[]RequestIsHonest` |

Every proof has the same form: an inductive invariant (`JournalInv`, `WriteInv`,
`RunsInv`, `BackupInv`, `CapabilitiesInv`, `McpInv`, `ChannelInv`, `ImportInv`,
`ContextInv`), the lemma that a step keeps it, with one step per action, and the theorems from it. TLC
checked each invariant on the instances of the runs before it was proved. Action
properties and refinements follow from the invariant before the step.

### The journal

None of the safety invariants is inductive alone. `JournalInv` adds
* `RowsExist`: rows refer to rows that exist, and a run or call that does not
  exist has its initial row (a result could otherwise be stored for a call
  nobody asked for);
* `OneApprovalPerCall`: two approvals of one call could disagree, and a decision
  on one would not show in the other;
* `ColumnsAgree`: the columns of a call agree with each other (a call that is
  requested has no intent, an intent has its consent, an artifact its
  confirmation, an unknown outcome its result or its interrupted run). This
  implies `ArtifactsAreBacked` and `UnknownIsNotSuccess` (lemma `ColumnsShow`);
* `ChainsAgree`: a call without a result is followed by results of its batch
  only, up to the end of the messages. This is what makes the next result
  stand in the right place (`ResultsAnswerCalls`).

The proof first says what each operation does to the rows (the `...Effect`
lemmas), then shows one conjunct at a time with one step per operation
(`TypeStep`, `RowsStep`, `ColumnsStep`, `ChainsStep`, `SettledStep`, ...), and combines them in
`JournalStep`. `HistoryIsFinal` is an action property and follows from
`EndedStep` under the invariant.

### The approved write

`ProtocolStep` shows that a step of `WriteRun` is a step of the journal or leaves
its tables alone, whatever the threads do. `KeepsJournal` is that fact for
behaviours, so the seven theorems above hold for the running program, crashes and faults
included. The other theorems need an invariant that ties threads to rows,
`WriteInv`. Beside `JournalInv` and the properties themselves it says
* what the rows of an unfinished run show to who only reads them: a call without
  a result is not over, and one that succeeded has its artifact (`OpenCallsStand`);
  a refusal, and nothing else, skips its call, and no approval of the run has
  expired (`DecisionsStand`). These two are about the rows alone and are kept by
  every step of the journal (`TablesStep`);
* where the run thread is (`ThreadsAgree`), and that the calls of its batch that
  are still to do are exactly the calls of the run without a result
  (`BatchIsOpen`), which nobody has started or asked about before their turn
  (`TurnsAreKept`). Without it a completed run could have a call left open;
* what the worker that is waited for has done and what of it is stored
  (`WorkerIsAwaited`): between the link and the receipt there is a file without
  artifact, and this is the only place where there may be one;
* a worker that nobody waits for any more can only find that it is too late
  (`OrphansAreLate`): its run is over, cancelled or out of time, and the
  check under `RunControl.lock` sees that. This is what lets `GiveUp` and a
  restart leave threads behind;
* a run that goes on has no file without an artifact and no unknown outcome
  (`GoesOnClean`), a success has its artifact (`SuccessIsBacked`);
* the outcome that the run thread records next is the true one, unless the run
  was cancelled or out of time (`OutcomeIsTrue`);
* who created the file had announced it (`CreatedIsIntended`), and nothing is
  created while the target is unknown (`TargetIsKnown`).

Fourteen of the actions only move the run thread. They are proved once, as
`QuietStep` (lemma `QuietKeeps`), and `QuietActions` shows that each of them is
one.

`ContractKept` is the refinement of `WriteContract`, which keeps two variables per write,
the consent and the outcome that was told. Both are read off the rows (`ReadsRows`): the consent
is the one approval of the call, and the outcome is the first of the unknown mark,
the artifact and the stage that says something. One lemma per operation then says which step of the contract it is
(`AskIsAsked`, `DecideAnswers`, `LinkMakes`, `ReceiptTells`, `RecordTells`,
`RestartSettles`), and `ContractStep` that every other step is a stutter. The hard
cases are the second writers: a result that is recorded after the receipt tells
nothing new (`RecordTells`), and a restart tells what was open and nothing
else (`RestartSettles`): a call whose intent is stored becomes unknown, a
call without one failed, and `CreatedIsIntended` makes that failure true.

### Submission

`RunsInv`: whoever holds the lock saw no active run and nobody starts one
meanwhile (`LockExcludes`), there is one job at most (`OneJob`), a thread has a
job or is left of an earlier process (`ThreadsAreKnown`), and the run in the hands
of a handler is the one of its submission (`PreparedIsFresh`, `RunIsOfSubmission`).
`OneRunAtATime` and the contract are consequences: a handler that inserts has
found no run with its request id, and the lock keeps that true until it
inserts.

### Backup and restore

`BackupInv`: from the check on, the gate keeps the state quiet (`HeldQuiet`), so the
copied rows are still the rows when the trees are copied, but for damage that a
reader found in between (`SnapshotHolds`), and the trees copied so far are what
those rows say (`TreesAreWhole`). Before the last rename the name of the bundle
or target is free or another program's, after it the copy is there under it
(`BackupPlace`, `RestorePlace`); that makes each answer true.

### Capabilities

`CapabilitiesInv`: a change that is about to make a content current has written
every file it names (`WritesAreWhole`), which is `CurrentIsWhole` one step early. A
revoked item is off, and no change that is under way will write it back as
enabled (`RevokedStaysOff`); a run is found by the page that stops it
from the moment it asks for anything (`RunsAreFound`). `StepsHonour` reads the
property off one step with these: a check that succeeds finds the flags
on, so none of its items is revoked, and a run that was told to stop is cancelled, so it
can neither summarize nor use what it was let through for. Nothing is assumed of
the time between check and use.

### The MCP connection

`McpInv`: a line on its way through the pipe to the waiting thread is an answer the
server gave, or says that it answers no request (`AnswersAreReal`); requests
are made in order and one at a time (`RequestsInOrder`, `OneCallAsked`), and a
connection that is closed has lost its server (`CloseKills`). A late answer to a
call that was told as timed out cannot be taken for a later call.

### The channel

A handler of the channel looks at the tables once and then makes several
transactions, between which the other threads go on. `ChannelInv` says that this is
sound: whatever a thread still has in `todo` has its grounds in the tables, or an
earlier transaction of the same handler will provide them (`TodoIsGrounded`). An
event is marked dispatched only if it has its run, closed only if the end of the
run is announced, given up only by start-up and without a run; a run is inserted only under
`runs.lock`, for the current binding, and after the event was marked. The lemmas
`GroundStays`, `GroundAdvances`, `GroundedStays`, `GroundedPops` and `GroundedPlans`
reduce this to what a step of another thread must leave alone (`Keeps`,
`KeepsBoot`, `KeepsStart`): events do not disappear, runs do not become unmade, ended runs
stay ended, notices are not deleted. The `...HasGrounds` lemmas show it for each
handler when it plans. `PlansKeepTheirGrounds` states it as a theorem. It does not
say that the *state* an update overwrites is still the one the handler saw. It
need not be, and `RejectedNeverRuns` (see Findings) is what comes of it.

The other conjuncts:
* start-up works alone (`StartsAlone`), and who holds the lock has something left to do under
  it (`LockIsUsed`), so nothing waits for a lock that nobody will release;
* the list that a tick works through agrees with its phase (`BatchIsGrounded`);
* a dispatched event has its run and a continuation the revision of its parent
  (`RunsAreLinked`), an event that never came has no notices (`EventsAreWhole`);
* the notice on its way is marked as sending and its binding is the current one
  (`SenderIsMarked`). Only with it is `SentUnderBinding` inductive: `configure` takes
  `delivery_lock`, so it cannot come between claim and send;
* a notice that can still be sent was not taken since the user last asked for it
  (`SendsAreCounted`). This strengthens `NoBlindResend` by one: an answer that is
  lost makes the notice unknown, and unknown notices are sent again only by a
  retry, which is counted.

The proof says first what each transaction does to the tables (`UpdateShows`,
`WithdrawnShows`, `EnqueueShows`, `InsertShows`, ...), then what each action is as a whole
(`Updated`, `Withdrew`, `Enqueued`, `Started`, `Adopted`, `Moved`, `Replaced`), and
`ChannelStep` has one step per action over these.

### The import

`ImportInv` first says what the rows of an import have to do with each other and with what
is published (`RowsAgree`). The rest is about the actors that share a directory:
* while files come in the directory holds what is stored and what the uploads in
  it are about to store (`UploadsAgree`), and an upload that was left behind by a cancellation is
  never for a file of a complete batch;
* what the job and a cancellation have found out before they wait or work still
  holds when they go on (`JobAgrees`, `CancelAgrees`): the status a cancellation read
  without the lock is read again under it, and the answer that confirms it depends
  on that;
* the job and a cancellation exclude each other, and who holds the lock may be in the
  middle of a removal (`LockExcludes`). The removal of a complete batch meets no upload,
  so it cannot stop half-way (`RemovalSucceeds`);
* with both, a batch that is being finalized and that nobody holds has all its
  files and no other (`StaysComplete`), which is what keeps the contract's phase
  from being torn;
* start-up works alone, over what a crash left behind, and leaves nothing half-decided
  (`StartUpDecides`); under the gate nobody is inside a handler (`GateExcludes`). That
  gives `QuietWhileBackedUp`: every action that moves files or rows needs somebody
  inside, except `Damage` and `Look`, which change just what the property lets them.

The refinement then goes by phases: under `StaysComplete` the phase of an import is a
function of its row and its publication (`Plain`), so a step that touches neither is a
stutter (`NoneMoves`), and a step that touches those of one import moves that one
(`OneMoves`); `ContractMoves` and `ContractConfirms` name the contract's step.

### The context

What fits into a request is a sum over runs, and the library defines such a sum by
recursion over sets. `ContextProofs` proves what it needs of it without an induction
theorem: a family of subsets of a finite set that is not empty has a smallest member
(`Smallest`), so a set of runs for which a fact about `Total` or `Max` fails would
have a smallest one (`AllSummed`, `AllSplit`, `MaxIs`). From there on `TotalGrows` (more runs
take no less) and `MaxIs` are all that is used.

`ContextInv` adds to the two properties: runs begin one after the other and no two end
with one message (`RunsOrdered`; a restart numbers the ends of all open runs in one
transaction); a summary covers no more than there is (`SummaryFits`); while the model works on
a summary, what it was asked for is still what would be taken (`AskedFits`), because the
session stands still until the answer is stored or given up. The steps of the session
are all of one form (`Grows`: a run that ends now ends behind all messages there
are), so that nothing slips under a number that is covered already (`GrowsKeeps`). For
a summary that is stored, `TakenIsCovered` is the argument: the candidates are taken from
the oldest on, so an ended run up to the covered number was taken, or began after the
last one taken and ended before it. `FitHonest` is the one about requests: what is built
either fits with all that goes with it, or shows no run.

### Model-checked only

* liveness: `RunEnds`, `EveryMessageSettles`, `ComesToRest` and `Settles` of
  `McpContract`, and with it the liveness part of `KeepsMcpContract` (liveness under
  fairness is beyond the proof system).

## What is not modelled

The components with status `not_modelled` in `PROJECT.json`, for the reasons
given there: file reading, text validation, the HTTP server, the browser client
and the evaluation scripts are system calls, pure text or wiring; the pipe of the
Feishu worker is planned below.
Within the modelled parts:

* sizes and encodings of payloads, wording of notices, identity checks of a chat
  message (only messages that pass are received), the order in which due notices
  are delivered;
* failures of the channel's own transactions, and storage faults of an import
  other than a failed `begin` and a failed removal; the order in which files
  reach the disk (`fsync`), the pipe to the parser process;
* the lock objects of the broker (their effect is modelled, their order is not);
* in `WebRuns` what a run does between start and end, which is `WriteRun`, and a
  thread that cannot be started; in `WriteRun` the summary requests, which are in
  `Context`;
* a commit worker that is still publishing after `close` gave up on its run, other
  than as the crash of `WriteRun`;
* in `McpClient` the content of requests and answers, notifications and requests of
  the server (the SDK handles them), more than one connection of a run (they share
  nothing), and the limits of waiting: a `join` that is over early, a process that
  does not die when it is killed;
* in `Context` the history tool and the check of citations, in `Capabilities` the
  validation of definitions and the reading of packages, in `StateBackup` hashes,
  file modes and the migration of an older database.

## Plan

Modelled: `RunJournal`, `WriteRun`, `Channel`, `ImportStore`, `WebRuns`, `StateBackup`,
`Context`, `Capabilities`, `McpClient` and the five contracts. Proved:
`WriteRunProofs` (with the journal), `WebRunsProofs`, `StateBackupProofs`,
`CapabilitiesProofs`, `McpProofs`, `ChannelProofs`, `ImportProofs`, `ContextProofs`: every
safety property that a run checks, and every contract except for its liveness. Next,
in this order:

1. Fault actions for the transactions of `Channel`, and an abstract
   specification of a conversation (asked, accepted or refused, answered).
2. `Broker`: the condition, `control.lock` and the store lock as objects, with
   freedom from deadlock.
3. `FeishuTransport`: the pipe to the subprocess, with timeouts.
