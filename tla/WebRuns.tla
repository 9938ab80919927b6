------------------------------- MODULE WebRuns -------------------------------
(***************************************************************************)
(* Runs as the workbench starts and ends them: web_runs.py over            *)
(* sessions.py.  Handlers of HTTP requests submit a run, repeat a          *)
(* submission, continue an interrupted run or start a one-shot run;        *)
(* runs.lock admits one of them at a time and _check_start one active run. *)
(* A run thread ends its row and then its job.  close waits two seconds    *)
(* for that thread, gives up the state directory, and leaves the thread    *)
(* behind; the next process recovers the rows while it may still live.     *)
(* What a run does between start and end is the business of WriteRun.      *)
(***************************************************************************)
EXTENDS Naturals, Sequences, FiniteSets

CONSTANTS Sessions, Requests, Bodies, Clients, None,
          MaxRuns,      \* bound on rows of table runs
          MaxFaults     \* bound on failing transactions

ASSUME WebRunsAssumption ==
    /\ None \notin Sessions \cup Requests \cup Bodies \cup Clients
    /\ {MaxRuns, MaxFaults} \subseteq Nat

VARIABLES status,    \* sessions.status
          rows,      \* table runs, in the order of insertion; a run is its index
          process,   \* "up", "closing", "closed" (state.lock released), "dead"
          holder,    \* the handler that holds runs.lock
          client,    \* what each handler is doing
          jobs,      \* session_jobs of the process
          oneshots,  \* the handlers whose one-shot job has no result yet
          thread,    \* the run threads: "running", "finishing", "failing" or "done"
          late,      \* the threads that outlived the process that started them
          faulted,   \* runs whose last transaction failed in this process
          told,      \* history: the answers clients got
          faults     \* counter for MaxFaults

vars == <<status, rows, process, holder, client, jobs, oneshots, thread, late, faulted, told,
          faults>>

Idle == [pc |-> "idle", session |-> None, request |-> None, body |-> None, parent |-> 0, run |-> 0]

WebRunsInit ==
    /\ status = [s \in Sessions |-> "absent"]
    /\ rows = <<>>
    /\ process = "up"
    /\ holder = None
    /\ client = [c \in Clients |-> Idle]
    /\ jobs = {}
    /\ oneshots = {}
    /\ thread = <<>>
    /\ late = {}
    /\ faulted = {}
    /\ told = {}
    /\ faults = 0

-----------------------------------------------------------------------------
\* The store answers: STATE_CLOSED otherwise.
StoreOpen == process \in {"up", "closing"}

Fails == faults < MaxFaults /\ faults' = faults + 1

Open(r) == rows[r].state = "open"

\* _check_start lets a run begin.
MayStart == process = "up" /\ jobs = {} /\ oneshots = {}

\* SessionService.create.
CreateSession(s) ==
    /\ StoreOpen /\ status[s] = "absent"
    /\ status' = [status EXCEPT ![s] = "active"]
    /\ UNCHANGED <<rows, process, holder, client, jobs, oneshots, thread, late, faulted, told,
                   faults>>

\* change_session: archive and restore, without runs.lock.
ChangeSession(s, state) ==
    /\ StoreOpen /\ status[s] \notin {"absent", state}
    /\ status' = [status EXCEPT ![s] = state]
    /\ UNCHANGED <<rows, process, holder, client, jobs, oneshots, thread, late, faulted, told,
                   faults>>

-----------------------------------------------------------------------------
\* A handler goes on to pc, or returns and releases the lock.
Goes(c, pc) == client' = [client EXCEPT ![c].pc = pc]

\* Mutant of Leaves: the lock is kept.
LeavesLocked(c) == client' = [client EXCEPT ![c] = Idle] /\ UNCHANGED holder

Leaves(c) ==
    /\ client' = [client EXCEPT ![c] = Idle]
    /\ holder' = None

\* start_session_run and continue_session up to _check_start, which comes first under
\* the lock, also for a request that was stored before.  What a handler reads before it
\* has the lock (the session is there, its scope) does not change.
Enter(c, s, q, b, p) ==
    /\ client[c].pc = "idle" /\ status[s] # "absent"
    /\ holder = None /\ MayStart
    /\ holder' = c
    /\ client' = [client EXCEPT ![c] = [pc |-> "submit", session |-> s, request |-> q, body |-> b,
                                        parent |-> p, run |-> 0]]
    /\ UNCHANGED <<status, rows, process, jobs, oneshots, thread, late, faulted, told, faults>>

\* The runs that the request id of the session names.
Existing(c) == {r \in DOMAIN rows : /\ rows[r].session = client[c].session
                                    /\ rows[r].request = client[c].request}

\* What the fingerprint of the submission of c covers; a continuation repeats its parent.
BodyOf(c) == IF client[c].parent = 0 THEN client[c].body ELSE rows[client[c].parent].body
SameContent(c, r) == rows[r].body = BodyOf(c) /\ rows[r].parent = client[c].parent

\* RUN_NOT_INTERRUPTED or NOT_FOUND, looked up before anything else.
Continuable(c) ==
    LET p == client[c].parent IN
    p # 0 => rows[p].session = client[c].session /\ rows[p].state = "interrupted"

\* The transaction finds the session active and the parent in order.
Acceptable(c) == status[client[c].session] = "active" /\ Continuable(c)

NewRow(c) == [session |-> client[c].session, request |-> client[c].request, body |-> BodyOf(c),
              parent |-> client[c].parent, state |-> "open"]

\* The same submission came before: its run is the answer.
Replay(c) ==
    /\ holder = c /\ client[c].pc = "submit" /\ Acceptable(c)
    /\ \E r \in Existing(c) :
         /\ SameContent(c, r)
         /\ client' = [client EXCEPT ![c].pc = "reply", ![c].run = r]
    /\ UNCHANGED <<status, rows, process, holder, jobs, oneshots, thread, late, faulted, told,
                   faults>>

Insert(c) ==
    /\ holder = c /\ client[c].pc = "submit" /\ Acceptable(c)
    /\ Existing(c) = {} /\ Len(rows) < MaxRuns
    /\ rows' = Append(rows, NewRow(c))
    /\ thread' = Append(thread, "none")
    /\ client' = [client EXCEPT ![c].pc = "prepare", ![c].run = Len(rows')]
    /\ UNCHANGED <<status, process, holder, jobs, oneshots, late, faulted, told, faults>>

\* Archived, conflicting, not interrupted; or new, and its files or the store are not available.
Refuse(c) ==
    /\ holder = c /\ client[c].pc = "submit"
    /\ ~Acceptable(c) \/ \A r \in Existing(c) : ~SameContent(c, r)
    /\ Leaves(c)
    /\ UNCHANGED <<status, rows, process, jobs, oneshots, thread, late, faulted, told, faults>>

\* Mutant of StartThread: the thread is started before its job is there.
StartThreadEarly(c) ==
    /\ holder = c /\ client[c].pc = "prepare"
    /\ thread' = [thread EXCEPT ![client[c].run] = "running"]
    /\ Goes(c, "reply")
    /\ UNCHANGED <<status, rows, process, holder, jobs, oneshots, late, faulted, told, faults>>

\* _start_prepared registers the job and starts the run thread.
StartThread(c) ==
    /\ holder = c /\ client[c].pc = "prepare"
    /\ jobs' = jobs \cup {client[c].run}
    /\ thread' = [thread EXCEPT ![client[c].run] = "running"]
    /\ Goes(c, "reply")
    /\ UNCHANGED <<status, rows, process, holder, oneshots, late, faulted, told, faults>>

\* Mutant of StartFails: the run stays as it is.
StartFailsForgotten(c) ==
    /\ holder = c /\ client[c].pc = "prepare"
    /\ Leaves(c)
    /\ UNCHANGED <<status, rows, process, jobs, oneshots, thread, late, faulted, told, faults>>

\* There is no provider, or no trace: the run ends without a thread.
StartFails(c) ==
    /\ holder = c /\ client[c].pc = "prepare"
    /\ rows' = [rows EXCEPT ![client[c].run].state = "ended"]
    /\ Goes(c, "reply")
    /\ UNCHANGED <<status, process, holder, jobs, oneshots, thread, late, faulted, told, faults>>

\* The same, and finish_run fails as well: the error leaves the handler.
StartFault(c) ==
    /\ holder = c /\ client[c].pc = "prepare" /\ Fails
    /\ faulted' = faulted \cup {client[c].run}
    /\ Leaves(c)
    /\ UNCHANGED <<status, rows, process, jobs, oneshots, thread, late, told>>

Reply(c) ==
    /\ holder = c /\ client[c].pc = "reply"
    /\ told' = told \cup {[session |-> client[c].session, request |-> client[c].request,
                           body |-> BodyOf(c), parent |-> client[c].parent, run |-> client[c].run]}
    /\ Leaves(c)
    /\ UNCHANGED <<status, rows, process, jobs, oneshots, thread, late, faulted, faults>>

-----------------------------------------------------------------------------
\* WebRuns.start: it looks under the lock, lets go of it to build the run ...
OneShotLooks(c) ==
    /\ client[c].pc = "idle" /\ holder = None /\ MayStart
    /\ Goes(c, "build")
    /\ UNCHANGED <<status, rows, process, holder, jobs, oneshots, thread, late, faulted, told,
                   faults>>

\* Mutant of OneShotStarts: the one-shot run is added without a second look.
OneShotStartsBlindly(c) ==
    /\ client[c].pc = "build" /\ holder = None
    /\ oneshots' = oneshots \cup {c}
    /\ Goes(c, "idle")
    /\ UNCHANGED <<status, rows, process, holder, jobs, thread, late, faulted, told, faults>>

\* ... and looks again before it adds the job.
OneShotStarts(c) ==
    /\ client[c].pc = "build" /\ holder = None
    /\ oneshots' = IF MayStart THEN oneshots \cup {c} ELSE oneshots
    /\ Goes(c, "idle")
    /\ UNCHANGED <<status, rows, process, holder, jobs, thread, late, faulted, told, faults>>

\* _execute stores the result under the lock.
OneShotEnds(c) ==
    /\ c \in oneshots /\ holder = None
    /\ oneshots' = oneshots \ {c}
    /\ UNCHANGED <<status, rows, process, holder, client, jobs, thread, late, faulted, told,
                   faults>>

-----------------------------------------------------------------------------
\* The store is open to thread r: its process has not closed it.
Reaches(r) == StoreOpen /\ r \notin late

Moves(r, to) == thread' = [thread EXCEPT ![r] = to]

\* Mutant of Connects: _execute_session does not finish a run whose execution raised.
ConnectsOnce(r, to) == Moves(r, IF Reaches(r) /\ to # "failing" THEN to ELSE "done")

\* A transaction begins with a connection; a closed store gives none.
Connects(r, to) == Moves(r, IF Reaches(r) THEN to ELSE "done")

\* The run comes to its end and is to be finished, or execute raises: then
\* _execute_session finishes the row itself ("failing").
Execute(r) ==
    /\ thread[r] = "running"
    /\ Connects(r, "finishing") \/ Connects(r, "failing")
    /\ UNCHANGED <<status, rows, process, holder, client, jobs, oneshots, late, faulted, told,
                   faults>>

\* Mutant of Finished: finish_run does not look whether the run has ended.
FinishedAnyway(r) == [rows[r] EXCEPT !.state = "ended"]

\* finish_run is refused by an ended run.
Finished(r) == IF Open(r) THEN [rows[r] EXCEPT !.state = "ended"] ELSE rows[r]

\* The transaction of finish_run, on a connection that may be older than close.
FinishRun(r) ==
    /\ thread[r] \in {"finishing", "failing"}
    /\ rows' = [rows EXCEPT ![r] = Finished(r)]
    /\ Moves(r, "done")
    /\ UNCHANGED <<status, process, holder, client, jobs, oneshots, late, faulted, told, faults>>

\* finish_run fails.  Runtime.run keeps that to itself, or raises it out of one of its
\* handlers; _execute_session tries once more and then keeps it to itself.
FinishFault(r) ==
    /\ thread[r] \in {"finishing", "failing"} /\ Fails
    /\ \/ Moves(r, "done") /\ faulted' = IF r \in late THEN faulted ELSE faulted \cup {r}
       \/ thread[r] = "finishing" /\ Connects(r, "failing") /\ UNCHANGED faulted
    /\ UNCHANGED <<status, rows, process, holder, client, jobs, oneshots, late, told>>

\* The end of _execute_session.
EndJob(r) ==
    /\ thread[r] = "done" /\ r \notin late /\ holder = None
    /\ jobs' = jobs \ {r}
    /\ Moves(r, "none")
    /\ UNCHANGED <<status, rows, process, holder, client, oneshots, late, faulted, told, faults>>

-----------------------------------------------------------------------------
Close ==
    /\ process = "up" /\ holder = None
    /\ process' = "closing"
    /\ UNCHANGED <<status, rows, holder, client, jobs, oneshots, thread, late, faulted, told,
                   faults>>

\* The threads were joined, or two seconds are over.
CloseEnds ==
    /\ process = "closing"
    /\ process' = "closed"
    /\ UNCHANGED <<status, rows, holder, client, jobs, oneshots, thread, late, faulted, told,
                   faults>>

\* Nothing of the process is left but its tables.
Forgotten ==
    /\ holder' = None
    /\ client' = [c \in Clients |-> Idle]
    /\ jobs' = {} /\ oneshots' = {} /\ faulted' = {}

Crash ==
    /\ process # "dead"
    /\ process' = "dead"
    /\ thread' = [r \in DOMAIN thread |-> "none"]
    /\ late' = {}
    /\ Forgotten
    /\ UNCHANGED <<status, rows, told, faults>>

Interrupted(r) == IF Open(r) THEN [rows[r] EXCEPT !.state = "interrupted"] ELSE rows[r]

\* WebRuns.__init__: SessionStore.open takes state.lock, recover_interrupted settles the rows.
\* The threads of a process that closed are still there.
Boot ==
    /\ process \in {"closed", "dead"}
    /\ process' = "up"
    /\ rows' = [r \in DOMAIN rows |-> Interrupted(r)]
    /\ late' = {r \in DOMAIN thread : thread[r] # "none"}
    /\ Forgotten
    /\ UNCHANGED <<status, thread, told, faults>>

\* The process that closed is gone at last.
Exit ==
    /\ late # {}
    /\ thread' = [r \in DOMAIN thread |-> IF r \in late THEN "none" ELSE thread[r]]
    /\ late' = {}
    /\ UNCHANGED <<status, rows, process, holder, client, jobs, oneshots, faulted, told, faults>>

-----------------------------------------------------------------------------
Submits(c) ==
    \/ \E s \in Sessions, q \in Requests, b \in Bodies : Enter(c, s, q, b, 0)
    \/ \E s \in Sessions, q \in Requests, p \in DOMAIN rows : Enter(c, s, q, None, p)

Handler(c) ==
    Replay(c) \/ Insert(c) \/ Refuse(c) \/ StartThread(c) \/ StartFails(c) \/ Reply(c)

OneShot(c) == OneShotLooks(c) \/ OneShotStarts(c) \/ OneShotEnds(c)

RunThread(r) == Execute(r) \/ FinishRun(r) \/ EndJob(r)

WebRunsNext ==
    \/ \E s \in Sessions : CreateSession(s) \/ \E state \in {"active", "archived"} : ChangeSession(s, state)
    \/ \E c \in Clients : Submits(c) \/ Handler(c) \/ StartFault(c) \/ OneShot(c)
    \/ \E r \in DOMAIN rows : RunThread(r) \/ FinishFault(r)
    \/ Close \/ CloseEnds \/ Crash \/ Boot \/ Exit

WebRunsSpec == WebRunsInit /\ [][WebRunsNext]_vars

-----------------------------------------------------------------------------
Row == [session : Sessions, request : Requests, body : Bodies, parent : Nat,
        state : {"open", "ended", "interrupted"}]

\* Type invariant.
WebRunsTypeOK ==
    /\ status \in [Sessions -> {"absent", "active", "archived"}]
    /\ rows \in Seq(Row) /\ Len(rows) <= MaxRuns
    /\ process \in {"up", "closing", "closed", "dead"}
    /\ holder \in Clients \cup {None}
    /\ \A c \in Clients : /\ client[c].pc \in {"idle", "submit", "prepare", "reply", "build"}
                          /\ client[c].run \in {0} \cup DOMAIN rows
                          /\ holder = c <=> client[c].pc \in {"submit", "prepare", "reply"}
    /\ jobs \cup late \cup faulted \subseteq DOMAIN rows
    /\ oneshots \subseteq Clients
    /\ thread \in Seq({"none", "running", "finishing", "failing", "done"})
    /\ Len(thread) = Len(rows)

\* One run at a time: whatever handlers race for it, a process has at most one
\* active job, one-shot runs included, and no run thread without its job.
OneRunAtATime ==
    StoreOpen =>
        /\ Cardinality(jobs) + Cardinality(oneshots) <= 1
        /\ \A r \in DOMAIN rows : thread[r] # "none" /\ r \notin late => r \in jobs

\* An open row has somebody who will end it, a handler that prepares it or a live run
\* thread, unless storing its end failed in this very process: _check_start looks at
\* the jobs, not at the rows, so nobody would ever miss it.
OpenIsOwned ==
    StoreOpen => \A r \in DOMAIN rows : Open(r) =>
        \/ r \in faulted
        \/ holder # None /\ client[holder].pc = "prepare" /\ client[holder].run = r
        \/ r \in jobs \ late /\ thread[r] \in {"running", "finishing", "failing"}

Submission(r) == [session |-> rows[r].session, request |-> rows[r].request, body |-> rows[r].body,
                  parent |-> rows[r].parent, run |-> r]

Contract == INSTANCE SubmissionContract WITH
    accepted <- {Submission(r) : r \in DOMAIN rows},
    outcome  <- [r \in DOMAIN rows |-> rows[r].state]

\* Whatever is repeated, refused, lost in a crash or finished late by a thread of the
\* process before, the workbench keeps the contract of submissions.
KeepsSubmissionContract == Contract!SubmissionContractSpec

=============================================================================
