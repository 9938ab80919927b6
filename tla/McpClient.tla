------------------------------ MODULE McpClient ------------------------------
(***************************************************************************)
(* One connection of a run to an MCP server: mcp_client.py under the       *)
(* adapters of mcp_tools.py.  The run thread opens it, discovers what the  *)
(* server offers, and has every call made by a worker thread that          *)
(* bounded_call may give up; all exchanges go through the event loop of a  *)
(* thread of their own, which starts the server, reads its lines and       *)
(* matches answers with requests.  A timeout, a stop, a failed exchange    *)
(* and the end of the run close the connection from whatever thread meets  *)
(* them.  Requests are numbered in the order in which they are made; what  *)
(* they carry is left out, and there is one adapter.                       *)
(***************************************************************************)
EXTENDS Naturals, Sequences

CONSTANTS MaxCalls,      \* bound on the requests that are made
          RequestLimit,  \* 128: the requests that a connection sends
          MaxLines,      \* bound on lines between server and reader
          SlowImport     \* importing the SDK may outlast the wait for the loop

ASSUME McpAssumption ==
    {MaxCalls, RequestLimit, MaxLines} \subseteq Nat /\ SlowImport \in BOOLEAN

Calls == 1..MaxCalls

VARIABLES loop,      \* the thread of the loop: "importing", "starting", "serving" or "ended"
          stop,      \* _stop is set
          process,   \* the server: "none", "live" or "gone"
          received,  \* the requests that it has got
          lines,     \* its lines that were not read yet: an answered request, 0 for anything else
          reading,   \* _read_messages is there
          closed,    \* _closed
          failed,    \* _failure
          exchange,  \* the request that holds _exchange_lock, 0 if none, and how far it is
          sent,      \* request_count
          future,    \* what the loop owes each request
          caller,    \* the thread that makes each request
          receipts,  \* _receipts
          adapter,   \* _call_id and _proven
          run,       \* the run thread, and how many requests it has had made
          told,      \* what the run recorded of each call
          answered   \* history: the requests that the server answered

connection == <<stop, process, closed, receipts>>
server == <<received, lines, answered>>
vars == <<loop, connection, server, reading, failed, exchange, sent, future, caller, adapter,
          run, told>>

NoExchange == [of |-> 0, at |-> "free"]
NoCall == [call |-> 0, proven |-> 0]

McpInit ==
    /\ loop = "importing"
    /\ stop = FALSE /\ process = "none" /\ closed = FALSE /\ receipts = {}
    /\ received = {} /\ lines = <<>> /\ answered = {}
    /\ reading = FALSE /\ failed = FALSE
    /\ exchange = NoExchange /\ sent = 0
    /\ future = [k \in Calls |-> "none"]
    /\ caller = [k \in Calls |-> "none"]
    /\ adapter = NoCall
    /\ run = [pc |-> "opening", asked |-> 0]
    /\ told = [k \in Calls |-> "new"]

-----------------------------------------------------------------------------
\* _kill_process: a process that is not there yet is not killed.
Killed == IF process = "live" THEN "gone" ELSE process

\* Mutant of Closes: the process is killed, and the loop is not told to stop.
ClosesHalf ==
    /\ closed' = TRUE
    /\ receipts' = IF closed THEN receipts ELSE {}
    /\ process' = IF closed THEN process ELSE Killed
    /\ UNCHANGED stop

\* close, by any thread: a loop that is not there yet cannot be told to stop.  The thread of
\* the loop is joined for a moment only.
Closes ==
    /\ closed' = TRUE
    /\ receipts' = IF closed THEN receipts ELSE {}
    /\ process' = IF closed THEN process ELSE Killed
    /\ stop' = (stop \/ (~closed /\ loop # "importing"))

-----------------------------------------------------------------------------
(* The thread of the loop.                                                 *)

LoopStarts ==
    /\ loop = "importing"
    /\ loop' = "starting"
    /\ UNCHANGED <<connection, server, reading, failed, exchange, sent, future, caller, adapter, run, told>>

\* The SDK is missing, or the command cannot be started.
LoopFails ==
    /\ loop \in {"importing", "starting"}
    /\ loop' = "ended" /\ failed' = TRUE
    /\ UNCHANGED <<connection, server, reading, exchange, sent, future, caller, adapter, run, told>>

Spawns ==
    /\ loop = "starting"
    /\ loop' = "serving" /\ process' = "live" /\ reading' = TRUE
    /\ UNCHANGED <<stop, closed, receipts, server, failed, exchange, sent, future, caller, adapter, run, told>>

\* The session is left, the process reaped, and what the loop still owed is cancelled.
LoopEnds ==
    /\ loop = "serving" /\ stop
    /\ loop' = "ended" /\ process' = "gone" /\ reading' = FALSE
    /\ exchange' = NoExchange
    /\ future' = [k \in Calls |-> IF future[k] \in {"queued", "running"} THEN "error" ELSE future[k]]
    /\ UNCHANGED <<stop, closed, receipts, server, failed, sent, caller, adapter, run, told>>

\* Mutant of Answers: whatever comes is the answer to the request that waits.
AnswersAny(k) == exchange.at = "sent"

\* The pending request is known by its id.
Answers(k) == exchange = [of |-> k, at |-> "sent"]

\* An answer nobody waits for, a line that is too long or no message ends the reader.
Reads ==
    /\ reading /\ lines # <<>>
    /\ lines' = Tail(lines)
    /\ IF Answers(Head(lines))
       THEN exchange' = [exchange EXCEPT !.at = "answered"] /\ UNCHANGED <<failed, reading>>
       ELSE failed' = TRUE /\ reading' = FALSE /\ UNCHANGED exchange
    /\ UNCHANGED <<loop, connection, received, answered, sent, future, caller, adapter, run, told>>

ReadsEnd ==
    /\ reading /\ lines = <<>> /\ process = "gone"
    /\ failed' = TRUE /\ reading' = FALSE
    /\ UNCHANGED <<loop, connection, server, exchange, sent, future, caller, adapter, run, told>>

\* The loop is done with request k.
Owes(k, outcome) ==
    /\ future' = [future EXCEPT ![k] = IF @ = "cancelled" THEN @ ELSE outcome]
    /\ exchange' = NoExchange

\* _exchange up to the operation: a connection that failed is not used again.
Begins(k) ==
    /\ loop = "serving" /\ future[k] = "queued" /\ exchange.of = 0
    /\ IF failed \/ closed THEN Owes(k, "error")
       ELSE /\ exchange' = [of |-> k, at |-> "begun"]
            /\ future' = [future EXCEPT ![k] = "running"]
    /\ UNCHANGED <<loop, connection, server, reading, failed, sent, caller, adapter, run, told>>

\* Mutant of Sends: the requests are not counted against the limit.
SendsAny ==
    /\ loop = "serving" /\ exchange.at = "begun"
    /\ sent' = sent + 1
    /\ exchange' = [exchange EXCEPT !.at = "sent"]
    /\ received' = IF process = "live" THEN received \cup {exchange.of} ELSE received
    /\ UNCHANGED <<loop, connection, lines, answered, reading, failed, future, caller, adapter, run, told>>

Sends ==
    /\ loop = "serving" /\ exchange.at = "begun" /\ sent < RequestLimit
    /\ sent' = sent + 1
    /\ exchange' = [exchange EXCEPT !.at = "sent"]
    /\ received' = IF process = "live" THEN received \cup {exchange.of} ELSE received
    /\ UNCHANGED <<loop, connection, lines, answered, reading, failed, future, caller, adapter, run, told>>

\* It is one too many or too large, or the pipe is broken.
SendFails ==
    /\ loop = "serving" /\ exchange.at = "begun"
    /\ Owes(exchange.of, "error")
    /\ sent' = IF sent < RequestLimit THEN sent + 1 ELSE sent
    /\ UNCHANGED <<loop, connection, server, reading, failed, caller, adapter, run, told>>

\* The answer, or an error of the server; or the connection failed, or nobody waits any more.
ExchangeEnds ==
    /\ loop = "serving" /\ exchange.of # 0
    /\ \/ exchange.at = "answered" /\ \E outcome \in {"ok", "error"} : Owes(exchange.of, outcome)
       \/ failed /\ Owes(exchange.of, "error")
       \/ future[exchange.of] = "cancelled" /\ Owes(exchange.of, "cancelled")
    /\ UNCHANGED <<loop, connection, server, reading, failed, sent, caller, adapter, run, told>>

-----------------------------------------------------------------------------
(* The server: once, twice, late, or never.                                *)

Writes(line) ==
    /\ process = "live" /\ Len(lines) < MaxLines
    /\ lines' = Append(lines, line)
    /\ UNCHANGED <<loop, connection, received, reading, failed, exchange, sent, future, caller,
                   adapter, run, told>>

ServerAnswers(k) == k \in received /\ Writes(k) /\ answered' = answered \cup {k}

ServerBabbles == Writes(0) /\ UNCHANGED answered

ServerDies ==
    /\ process = "live" /\ process' = "gone"
    /\ UNCHANGED <<loop, stop, closed, receipts, server, reading, failed, exchange, sent, future,
                   caller, adapter, run, told>>

-----------------------------------------------------------------------------
(* The thread that makes request k: _submit and, for a call, execute.      *)

Goes(k, pc) == caller' = [caller EXCEPT ![k] = pc]

\* A call that was given up meanwhile has no call id any more.
Asks(k) ==
    /\ caller[k] = "asking"
    /\ Goes(k, IF closed \/ failed \/ (told[k] # "new" /\ adapter.call # k) THEN "failed" ELSE "checked")
    /\ UNCHANGED <<loop, connection, server, reading, failed, exchange, sent, future, adapter, run, told>>

Submits(k) ==
    /\ caller[k] = "checked"
    /\ IF loop = "serving" THEN Goes(k, "waiting") /\ future' = [future EXCEPT ![k] = "queued"]
                           ELSE Goes(k, "failed") /\ UNCHANGED future
    /\ UNCHANGED <<loop, connection, server, reading, failed, exchange, sent, adapter, run, told>>

Receives(k) ==
    /\ caller[k] = "waiting" /\ future[k] = "ok"
    /\ Goes(k, "received")
    /\ UNCHANGED <<loop, connection, server, reading, failed, exchange, sent, future, adapter, run, told>>

\* The request failed, timed out, or the run is to stop: the connection is closed.
Abandons(k) ==
    /\ caller[k] = "waiting"
    /\ future' = [future EXCEPT ![k] = IF @ \in {"queued", "running"} THEN "cancelled" ELSE @]
    /\ Goes(k, "failed")
    /\ Closes
    /\ UNCHANGED <<loop, server, reading, failed, exchange, sent, adapter, run, told>>

StoresReceipt(k) ==
    /\ caller[k] = "received" /\ told[k] # "new"
    /\ receipts' = receipts \cup {k}
    /\ Goes(k, "stored")
    /\ UNCHANGED <<loop, stop, process, closed, server, reading, failed, exchange, sent, future,
                   adapter, run, told>>

\* verify_receipt.
Receipted(k) == ~closed /\ k \in receipts

Proves(k) ==
    /\ caller[k] = "stored" /\ Receipted(k)
    /\ adapter' = [adapter EXCEPT !.proven = k]
    /\ Goes(k, "succeeded")
    /\ UNCHANGED <<loop, connection, server, reading, failed, exchange, sent, future, run, told>>

\* The server reports an error of the tool, what it returns is no content of the kind or too
\* large, or the receipt is not there any more.
Disproves(k) ==
    /\ caller[k] = "stored"
    /\ Goes(k, "failed")
    /\ UNCHANGED <<loop, connection, server, reading, failed, exchange, sent, future, adapter, run, told>>

-----------------------------------------------------------------------------
(* The run thread.                                                         *)

Quits ==
    /\ Closes
    /\ run' = [run EXCEPT !.pc = "over"]
    /\ UNCHANGED <<loop, server, reading, failed, exchange, sent, future, caller>>

\* The loop is not ready in time, or failed.
OpenFails ==
    /\ run.pc = "opening"
    /\ failed \/ loop = "starting" \/ (loop = "importing" /\ SlowImport)
    /\ Quits
    /\ UNCHANGED <<adapter, told>>

Requests(pc) ==
    /\ run.asked < MaxCalls
    /\ run' = [pc |-> pc, asked |-> run.asked + 1]
    /\ caller' = [caller EXCEPT ![run.asked + 1] = "asking"]
    /\ UNCHANGED <<loop, connection, server, reading, failed, exchange, sent, future>>

\* initialize, and then pages of what the server offers.
Discovers ==
    /\ \/ run.pc = "opening" /\ loop = "serving" /\ ~failed
       \/ run.pc = "discovering" /\ caller[run.asked] = "received"
    /\ Requests("discovering")
    /\ UNCHANGED <<adapter, told>>

Discovered ==
    /\ run.pc = "discovering" /\ caller[run.asked] = "received"
    /\ run' = [run EXCEPT !.pc = "idle"]
    /\ UNCHANGED <<loop, connection, server, reading, failed, exchange, sent, future, caller, adapter, told>>

\* A request failed, or the catalog is not accepted.
DiscoveryFails ==
    /\ run.pc = "discovering" /\ caller[run.asked] \in {"received", "failed"}
    /\ Quits
    /\ UNCHANGED <<adapter, told>>

\* The adapter is bound to the call, and a worker executes it.
CallStarts ==
    /\ run.pc = "idle"
    /\ Requests("calling")
    /\ adapter' = [call |-> run.asked + 1, proven |-> 0]
    /\ told' = [told EXCEPT ![run.asked + 1] = "asked"]

\* verify_success: proven once, for this call, on a connection that is still open.
Verified(k) == caller[k] = "succeeded" /\ adapter = [call |-> k, proven |-> k] /\ Receipted(k)

CallEnds ==
    LET k == run.asked IN
    /\ run.pc = "calling" /\ caller[k] \in {"succeeded", "failed"}
    /\ told' = [told EXCEPT ![k] = IF Verified(k) THEN "ok" ELSE "error"]
    /\ adapter' = [adapter EXCEPT !.proven = 0]
    /\ run' = [run EXCEPT !.pc = "idle"]
    /\ UNCHANGED <<loop, connection, server, reading, failed, exchange, sent, future, caller>>

\* The tool's time is over or the run is to stop: the worker is left behind.
CallStops ==
    /\ run.pc = "calling"
    /\ told' = [told EXCEPT ![run.asked] = "stopped"]
    /\ adapter' = NoCall
    /\ Quits

\* The run is over, or one of its results was a reason to stop.
RunEnds ==
    /\ run.pc = "idle"
    /\ Quits
    /\ UNCHANGED <<adapter, told>>

-----------------------------------------------------------------------------
Loop == \/ LoopStarts \/ Spawns \/ LoopEnds \/ Reads \/ ReadsEnd \/ Sends \/ ExchangeEnds
        \/ \E k \in Calls : Begins(k)

Server == ServerBabbles \/ ServerDies \/ \E k \in Calls : ServerAnswers(k)

Caller(k) ==
    Asks(k) \/ Submits(k) \/ Receives(k) \/ Abandons(k) \/ StoresReceipt(k) \/ Proves(k) \/ Disproves(k)

Run == OpenFails \/ Discovers \/ Discovered \/ DiscoveryFails \/ CallStarts \/ CallEnds \/ CallStops \/ RunEnds

Over == run.pc = "over" /\ UNCHANGED vars

McpNext == Loop \/ LoopFails \/ SendFails \/ Server \/ (\E k \in Calls : Caller(k)) \/ Run \/ Over

McpSpec == McpInit /\ [][McpNext]_vars

\* The threads are scheduled; a request that waits has a deadline (Abandons), and the model
\* asks a run for a limited number of calls.  The server owes nothing.
FairMcpSpec ==
    McpSpec /\ WF_vars(Loop) /\ WF_vars(Run) /\ \A k \in Calls : WF_vars(Caller(k))

-----------------------------------------------------------------------------
\* Type invariant.
McpTypeOK ==
    /\ loop \in {"importing", "starting", "serving", "ended"}
    /\ process \in {"none", "live", "gone"}
    /\ loop \in {"importing", "starting"} => process = "none"
    /\ process = "none" => loop # "serving"
    /\ stop \in BOOLEAN /\ closed \in BOOLEAN /\ reading \in BOOLEAN /\ failed \in BOOLEAN
    /\ lines \in Seq({0} \cup Calls) /\ received \subseteq Calls /\ answered \subseteq Calls
    /\ exchange \in [of : {0} \cup Calls, at : {"free", "begun", "sent", "answered"}]
    /\ future \in [Calls -> {"none", "queued", "running", "ok", "error", "cancelled"}]
    /\ caller \in [Calls -> {"none", "asking", "checked", "waiting", "received", "stored",
                             "succeeded", "failed"}]
    /\ sent \in 0..RequestLimit /\ receipts \subseteq Calls
    /\ adapter \in [call : {0} \cup Calls, proven : {0} \cup Calls]
    /\ run \in [pc : {"opening", "discovering", "idle", "calling", "over"}, asked : {0} \cup Calls]
    /\ told \in [Calls -> {"new", "asked", "ok", "error", "stopped"}]

Contract == INSTANCE McpContract WITH server <- process

\* However the server answers, fails or falls silent, and whichever thread closes the
\* connection first, it keeps the contract; in the end every call is told and the server gone.
KeepsMcpContract == Contract!McpContractSpec
=============================================================================
