------------------------------- MODULE Channel -------------------------------
(***************************************************************************)
(* The Feishu channel: channels/service.py and channels/store.py.          *)
(* Messages of one chat come in (table channel_events), start runs or act  *)
(* on them, and are answered by notices (table channel_outbox).            *)
(*                                                                         *)
(* Four parties share the two tables:                                      *)
(*   - the inbox callback of the transport (ChannelService.receive);       *)
(*   - the dispatch thread (tick: dispatch, _adopt_continuations, sync);   *)
(*   - the delivery thread (deliver);                                      *)
(*   - start-up (configure, recover), alone, after a crash.                *)
(* Every store call is a transaction of its own.  A handler that makes     *)
(* several of them leaves them in todo[thread], to be run one at a time:   *)
(* other threads and a crash come between them.  runs.lock is held while   *)
(* a handler that takes it has transactions left.  The runs of WebRuns are *)
(* reduced to what the channel reads of them.                              *)
(***************************************************************************)
EXTENDS Naturals, Sequences, FiniteSets

CONSTANTS Msgs,         \* messages of the platform (message ids)
          Action,       \* what parse_request makes of each message; "command" stands
                        \* for status, cancel and approval_hint
          Kids,         \* runs that continue an interrupted run
          None,         \* SQL NULL
          Watched,      \* bound: the kinds of notice the delivery thread handles
          MaxMessages,  \* bound on messages of the platform that come in
          MaxAttempts,  \* bound on rate-limited attempts (3 in the code)
          MaxRetries,   \* bound on the user's retries of one notice
          MaxCrashes,   \* bound on crashes
          MaxRevision,  \* bound on changes of the binding
          LiveRebind    \* configure is also called on a running service

ASSUME ChannelAssumption ==
    /\ Msgs \cap Kids = {} /\ None \notin Msgs \cup Kids
    /\ Action \in [Msgs -> {"run", "reject", "command"}]
    /\ {MaxMessages, MaxAttempts, MaxRevision} \subseteq Nat \ {0}
    /\ {MaxRetries, MaxCrashes} \subseteq Nat
    /\ LiveRebind \in BOOLEAN

VARIABLES binding,   \* channel_bindings: revision and enabled
          event,     \* channel_events: state, binding_revision, run_id present
          outbox,    \* channel_outbox, UNIQUE(event_id, kind): state and attempts
          order,     \* the events in the order of received_at
          runs,      \* the run submitted with the event's client_request_id
          parent,    \* parent_run_id of a continuation
          desk,      \* a run of the workbench, unrelated to the channel, is active
          boot,      \* "up", or what start-up does next
          todo,      \* the transactions left in each thread's handler
          lock,      \* the holder of runs.lock across transactions
          tick,      \* the dispatch thread: phase of tick and events left in it
          sender,    \* the delivery thread: what it does and for which notice
          landed,    \* history: how often the platform took each notice
          retried,   \* history: how often the user retried each notice
          crashes    \* counter for MaxCrashes

vars == <<binding, event, outbox, order, runs, parent, desk, boot, todo, lock, tick, sender,
          landed, retried, crashes>>
world == <<runs, parent, desk>>
history == <<landed, retried, crashes>>

Events == Msgs \cup Kids
Threads == {"boot", "inbox", "dispatch"}
Progress == {"received", "running", "waiting_approval"}
Kinds == Progress \cup {"rejected", "command", "interrupted", "terminal"}
ActiveStates == {"active", "waiting"}
\* States of a notice that suppress() still changes.
Withdrawable == {"pending", "retry_wait", "unknown", "failed"}

NoEvent == [state |-> "absent", rev |-> 0, run |-> FALSE]
NoNotice == [state |-> "absent", attempts |-> 0]
IdleTick == [phase |-> "idle", batch |-> {}]
IdleSender == [pc |-> "idle", event |-> None, kind |-> None, reply |-> None]

ChannelInit ==
    /\ binding = [rev |-> 1, enabled |-> TRUE]
    /\ event = [e \in Events |-> NoEvent]
    /\ outbox = [e \in Events |-> [k \in Kinds |-> NoNotice]]
    /\ order = <<>>
    /\ runs = [e \in Events |-> "none"]
    /\ parent = [k \in Kids |-> None]
    /\ desk = FALSE
    /\ boot = "up"
    /\ todo = [t \in Threads |-> <<>>]
    /\ lock = "free"
    /\ tick = IdleTick
    /\ sender = IdleSender
    /\ landed = [e \in Events |-> [k \in Kinds |-> 0]]
    /\ retried = [e \in Events |-> [k \in Kinds |-> 0]]
    /\ crashes = 0

-----------------------------------------------------------------------------
\* ChannelStore._active and ChannelService._current.
Current(e) == binding.enabled /\ event[e].rev = binding.rev

ActionOf(e) == IF e \in Msgs THEN Action[e] ELSE "observe"

\* WebRuns._check_start raises RUN_ACTIVE.
Busy == desk \/ \E e \in Events : runs[e] \in ActiveStates

\* The transactions of a handler.
Update(e, state) == [tx |-> "update", event |-> e, state |-> state]
Suppress(e, kinds) == [tx |-> "suppress", event |-> e, kinds |-> kinds]
Enqueue(e, kind) == [tx |-> "enqueue", event |-> e, kind |-> kind]
StartTx(e) == [tx |-> "start", event |-> e]
AdoptTx(k) == [tx |-> "adopt", event |-> k]

Reject(e) == <<Update(e, "rejected"), Suppress(e, Progress), Enqueue(e, "rejected")>>

At(t, tx) == todo[t] # <<>> /\ Head(todo[t]).tx = tx

\* Thread t has rest left to do; a handler that held runs.lock releases it at its end.
Leaves(t, rest) ==
    /\ todo' = [todo EXCEPT ![t] = rest]
    /\ lock' = IF rest = <<>> /\ lock = t THEN "free" ELSE lock

\* The row that _enqueue inserts, unless it is there.
Queued(e, kind) ==
    IF outbox[e][kind].state # "absent" THEN outbox[e][kind]
    ELSE [NoNotice EXCEPT !.state = IF Current(e) THEN "pending" ELSE "suppressed"]

\* update_event.  run_id is given with state dispatched, and kept otherwise.
UpdateEvent(t) ==
    /\ At(t, "update")
    /\ LET op == Head(todo[t]) IN
       event' = [event EXCEPT ![op.event].state = op.state,
                              ![op.event].run = @ \/ op.state = "dispatched"]
    /\ Leaves(t, Tail(todo[t]))
    /\ UNCHANGED <<binding, outbox, order, world, boot, tick, sender, history>>

Withdrawn(e, kinds) ==
    [k \in Kinds |-> IF k \in kinds /\ outbox[e][k].state \in Withdrawable
                     THEN [outbox[e][k] EXCEPT !.state = "suppressed"] ELSE outbox[e][k]]

SuppressNotices(t) ==
    /\ At(t, "suppress")
    /\ LET op == Head(todo[t]) IN
       outbox' = [outbox EXCEPT ![op.event] = Withdrawn(op.event, op.kinds)]
    /\ Leaves(t, Tail(todo[t]))
    /\ UNCHANGED <<binding, event, order, world, boot, tick, sender, history>>

EnqueueNotice(t) ==
    /\ At(t, "enqueue")
    /\ LET op == Head(todo[t]) IN
       outbox' = [outbox EXCEPT ![op.event][op.kind] = Queued(op.event, op.kind)]
    /\ Leaves(t, Tail(todo[t]))
    /\ UNCHANGED <<binding, event, order, world, boot, tick, sender, history>>

-----------------------------------------------------------------------------
\* ChannelStore.receive of a new message: the event and its notice "received".
Insert(e) ==
    /\ event' = [event EXCEPT ![e] = [state |-> "received", rev |-> binding.rev, run |-> FALSE]]
    /\ outbox' = [outbox EXCEPT ![e]["received"] = [NoNotice EXCEPT !.state = "pending"]]
    /\ order' = Append(order, e)

\* A run is active, or another request waits to be dispatched.
MustReject(m) ==
    \/ Busy
    \/ \E e \in Msgs \ {m} : event[e].state \in {"received", "dispatching"}
                             /\ Action[e] = "run"

\* ChannelService.receive.  A message that is redelivered changes nothing.
Receive(m) ==
    /\ boot = "up" /\ lock = "free" /\ todo["inbox"] = <<>>
    /\ binding.enabled
    /\ event[m].state = "absent"
    /\ Cardinality({n \in Msgs : event[n].state # "absent"}) < MaxMessages
    /\ Insert(m)
    /\ IF Action[m] = "run" /\ MustReject(m)
       THEN /\ todo' = [todo EXCEPT !["inbox"] = Reject(m)]
            /\ lock' = "inbox"
       ELSE UNCHANGED <<todo, lock>>
    /\ UNCHANGED <<binding, world, boot, tick, sender, history>>

-----------------------------------------------------------------------------
\* The dispatch thread has nothing left of the previous handler.
Dispatching(phase) == boot = "up" /\ tick.phase = phase /\ todo["dispatch"] = <<>>

InState(states) == {e \in Events : event[e].state \in states}

\* The event of the batch whose turn it is: the one that was received first.
Turn(e) ==
    \E i \in 1..Len(order) : /\ order[i] = e /\ e \in tick.batch
                            /\ \A j \in 1..(i - 1) : order[j] \notin tick.batch

\* tick reads the received events once, without runs.lock.
TickStarts ==
    /\ Dispatching("idle")
    /\ tick' = [phase |-> "dispatch", batch |-> InState({"received"})]
    /\ UNCHANGED <<binding, event, outbox, order, world, boot, todo, lock, sender, history>>

\* Mutant of Handling: the binding is not looked at again.
HandlingUnbound(e) ==
    CASE ActionOf(e) = "run" -> <<Update(e, "dispatching"), StartTx(e)>>
      [] ActionOf(e) = "reject" -> Reject(e)
      [] OTHER -> <<Suppress(e, Progress), Enqueue(e, "command"), Update(e, "handled")>>

\* Mutant of Handling: a command is answered and not marked handled.
HandlingUnmarked(e) ==
    IF ~Current(e) THEN <<Update(e, "invalidated"), Suppress(e, Kinds)>>
    ELSE CASE ActionOf(e) = "run" -> <<Update(e, "dispatching"), StartTx(e)>>
           [] ActionOf(e) = "reject" -> Reject(e)
           [] OTHER -> <<Suppress(e, Progress), Enqueue(e, "command")>>

\* The transactions of dispatch and command for an event of the batch.  What
\* cancel_session does to a run is not durable; it is Cancel of WriteRun.
Handling(e) ==
    IF ~Current(e) THEN <<Update(e, "invalidated"), Suppress(e, Kinds)>>
    ELSE CASE ActionOf(e) = "run" -> <<Update(e, "dispatching"), StartTx(e)>>
           [] ActionOf(e) = "reject" -> Reject(e)
           [] OTHER -> <<Suppress(e, Progress), Enqueue(e, "command"), Update(e, "handled")>>

\* dispatch takes runs.lock; the event is the one tick read, not read again.
Dispatch(e) ==
    /\ Dispatching("dispatch") /\ Turn(e)
    /\ lock = "free"
    /\ todo' = [todo EXCEPT !["dispatch"] = Handling(e)]
    /\ lock' = "dispatch"
    /\ tick' = [tick EXCEPT !.batch = @ \ {e}]
    /\ UNCHANGED <<binding, event, outbox, order, world, boot, sender, history>>

\* A WebError of dispatch (the session or its agent is not available): tick
\* rejects the event after runs.lock was released.
DispatchRefused(e) ==
    /\ Dispatching("dispatch") /\ Turn(e)
    /\ lock = "free" /\ Current(e)
    /\ todo' = [todo EXCEPT !["dispatch"] = Reject(e)]
    /\ tick' = [tick EXCEPT !.batch = @ \ {e}]
    /\ UNCHANGED <<binding, event, outbox, order, world, boot, lock, sender, history>>

\* An existing run is found again; else start_session_run starts one (it can
\* end at once, without a thread), or raises a WebError.
StartRun ==
    /\ At("dispatch", "start")
    /\ LET e == Head(todo["dispatch"]).event IN
       \/ /\ runs[e] # "none" \/ ~Busy
          /\ \E s \in {"active", "ended"} :
                runs' = [runs EXCEPT ![e] = IF @ = "none" THEN s ELSE @]
          /\ Leaves("dispatch", <<Update(e, "dispatched")>>)
       \/ /\ runs[e] = "none"
          /\ Leaves("dispatch", Reject(e))
          /\ UNCHANGED runs
    /\ UNCHANGED <<binding, event, outbox, order, parent, desk, boot, tick, sender, history>>

DispatchEnds ==
    /\ Dispatching("dispatch") /\ tick.batch = {}
    /\ tick' = [phase |-> "adopt",
                batch |-> {k \in Kids : runs[k] # "none" /\ ~event[k].run /\ event[parent[k]].run}]
    /\ UNCHANGED <<binding, event, outbox, order, world, boot, todo, lock, sender, history>>

\* _adopt_continuations, for one row, in any order; skipped when the binding has changed.
Adopt(k) ==
    /\ Dispatching("adopt") /\ k \in tick.batch
    /\ todo' = [todo EXCEPT !["dispatch"] =
                  IF Current(parent[k]) THEN <<AdoptTx(k), Update(k, "dispatched")>> ELSE <<>>]
    /\ tick' = [tick EXCEPT !.batch = @ \ {k}]
    /\ UNCHANGED <<binding, event, outbox, order, world, boot, lock, sender, history>>

\* Mutant of AdoptEvent: the binding of the parent is not looked at again.
AdoptEventUnchecked ==
    /\ At("dispatch", "adopt")
    /\ LET k == Head(todo["dispatch"]).event IN
       IF event[k].state = "absent" THEN Insert(k) ELSE UNCHANGED <<event, outbox, order>>
    /\ Leaves("dispatch", Tail(todo["dispatch"]))
    /\ UNCHANGED <<binding, tick, world, boot, sender, history>>

\* ChannelStore.receive for a continuation; BINDING_INACTIVE ends the tick.
AdoptEvent ==
    /\ At("dispatch", "adopt")
    /\ LET k == Head(todo["dispatch"]).event IN
       IF ~Current(parent[k])
       THEN /\ Leaves("dispatch", <<>>)
            /\ tick' = IdleTick
            /\ UNCHANGED <<event, outbox, order>>
       ELSE /\ Leaves("dispatch", Tail(todo["dispatch"]))
            /\ IF event[k].state = "absent" THEN Insert(k) ELSE UNCHANGED <<event, outbox, order>>
            /\ UNCHANGED tick
    /\ UNCHANGED <<binding, world, boot, sender, history>>

AdoptEnds ==
    /\ Dispatching("adopt") /\ tick.batch = {}
    /\ tick' = [phase |-> "sync", batch |-> InState({"dispatched"})]
    /\ UNCHANGED <<binding, event, outbox, order, world, boot, todo, lock, sender, history>>

\* Mutant of Synced: the event is closed before its end is announced.
SyncedClosedFirst(e) ==
    IF ~Current(e) THEN <<Suppress(e, Kinds)>>
    ELSE CASE runs[e] = "waiting" -> <<Suppress(e, {"received", "running"}),
                                       Enqueue(e, "waiting_approval")>>
           [] runs[e] = "active" -> <<Enqueue(e, "running")>>
           [] OTHER -> <<Suppress(e, Progress), Update(e, "terminal"), Enqueue(e, "terminal")>>

\* sync for one event: its transactions follow from one look at the run.
Synced(e) ==
    IF ~Current(e) THEN <<Suppress(e, Kinds)>>
    ELSE CASE runs[e] = "waiting" -> <<Suppress(e, {"received", "running"}),
                                       Enqueue(e, "waiting_approval")>>
           [] runs[e] = "active" -> <<Enqueue(e, "running")>>
           [] OTHER -> <<Suppress(e, Progress), Enqueue(e, "terminal"), Update(e, "terminal")>>

Sync(e) ==
    /\ Dispatching("sync") /\ Turn(e)
    /\ lock = "free"                               \* session_snapshot
    /\ todo' = [todo EXCEPT !["dispatch"] = Synced(e)]
    /\ tick' = [tick EXCEPT !.batch = @ \ {e}]
    /\ UNCHANGED <<binding, event, outbox, order, world, boot, lock, sender, history>>

TickEnds ==
    /\ Dispatching("sync") /\ tick.batch = {}
    /\ tick' = IdleTick
    /\ UNCHANGED <<binding, event, outbox, order, world, boot, todo, lock, sender, history>>

-----------------------------------------------------------------------------
\* deliver, under delivery_lock and runs.lock: the check of the binding and claim.
Claim(e, k) ==
    /\ boot = "up" /\ sender.pc = "idle" /\ lock = "free"
    /\ k \in Watched
    /\ outbox[e][k].state \in {"pending", "retry_wait"}
    /\ IF Current(e)
       THEN /\ outbox' = [outbox EXCEPT ![e][k] = [state |-> "sending", attempts |-> @.attempts + 1]]
            /\ sender' = [pc |-> "send", event |-> e, kind |-> k, reply |-> None]
       ELSE /\ outbox' = [outbox EXCEPT ![e] = Withdrawn(e, Kinds)]
            /\ UNCHANGED sender
    /\ UNCHANGED <<binding, event, order, world, boot, todo, lock, tick, history>>

\* The platform takes the notice or not, and says so or not (FeishuTransport.send):
\* retry_wait and failed are definite refusals.
Send ==
    /\ sender.pc = "send"
    /\ \E took \in {0, 1} :
          /\ landed' = [landed EXCEPT ![sender.event][sender.kind] = @ + took]
          /\ \E reply \in IF took = 1 THEN {"accepted", "unknown"}
                                      ELSE {"retry_wait", "failed", "unknown"} :
                sender' = [sender EXCEPT !.pc = "finish", !.reply = reply]
    /\ UNCHANGED <<binding, event, outbox, order, world, boot, todo, lock, tick,
                   retried, crashes>>

\* finish_delivery, after delivery_lock was released.
FinishDelivery ==
    /\ sender.pc = "finish"
    /\ LET e == sender.event
           k == sender.kind
       IN outbox' = [outbox EXCEPT ![e][k].state =
             IF sender.reply = "retry_wait" /\ outbox[e][k].attempts >= MaxAttempts
             THEN "failed" ELSE sender.reply]
    /\ sender' = IdleSender
    /\ UNCHANGED <<binding, event, order, world, boot, todo, lock, tick, history>>

\* The user sends a notice again from the workbench (retry, retry_unknown).
Retry(e, k) ==
    /\ boot = "up" /\ lock = "free"
    /\ outbox[e][k].state \in {"unknown", "failed"} /\ Current(e)
    /\ retried[e][k] < MaxRetries
    /\ outbox' = [outbox EXCEPT ![e][k].state = "pending"]
    /\ retried' = [retried EXCEPT ![e][k] = @ + 1]
    /\ UNCHANGED <<binding, event, order, world, boot, todo, lock, tick, sender,
                   landed, crashes>>

-----------------------------------------------------------------------------
\* The runs, as WebRuns shows them to the channel: a run is over once its thread
\* took it out of session_jobs, under runs.lock.
RunProceeds(e) ==
    /\ boot = "up"
    /\ \/ runs[e] = "active" /\ runs' = [runs EXCEPT ![e] = "waiting"]
       \/ runs[e] = "waiting" /\ runs' = [runs EXCEPT ![e] = "active"]
    /\ UNCHANGED <<binding, event, outbox, order, parent, desk, boot, todo, lock, tick, sender,
                   history>>

RunEnds(e) ==
    /\ boot = "up" /\ lock = "free" /\ runs[e] \in ActiveStates
    /\ runs' = [runs EXCEPT ![e] = "ended"]
    /\ UNCHANGED <<binding, event, outbox, order, parent, desk, boot, todo, lock, tick, sender,
                   history>>

\* The user of the workbench runs something else.
DeskRun ==
    /\ boot = "up" /\ lock = "free"
    /\ desk \/ ~Busy
    /\ desk' = ~desk
    /\ UNCHANGED <<binding, event, outbox, order, runs, parent, boot, todo, lock, tick, sender,
                   history>>

\* The user of the workbench continues an interrupted run (continue_session).
Continue(k, p) ==
    /\ boot = "up" /\ lock = "free" /\ ~Busy
    /\ runs[k] = "none" /\ runs[p] = "interrupted"
    /\ runs' = [runs EXCEPT ![k] = "active"]
    /\ parent' = [parent EXCEPT ![k] = p]
    /\ UNCHANGED <<binding, event, outbox, order, desk, boot, todo, lock, tick, sender, history>>

-----------------------------------------------------------------------------
\* ChannelStore.configure with values that differ from the stored ones.
Rebound(enabled) ==
    LET rev == binding.rev + 1 IN
    /\ binding' = [rev |-> rev, enabled |-> enabled]
    /\ event' = [e \in Events |-> IF event[e].state \in {"received", "dispatching"}
                                  THEN [event[e] EXCEPT !.state = "invalidated"] ELSE event[e]]
    /\ outbox' = [e \in Events |-> Withdrawn(e, Kinds)]

\* Mutant of Reconfigure: delivery_lock is not taken.
ReconfigureWhileSending ==
    /\ LiveRebind /\ binding.rev < MaxRevision
    /\ boot = "up" /\ lock = "free"
    /\ \E enabled \in BOOLEAN : Rebound(enabled)
    /\ UNCHANGED <<order, world, boot, todo, lock, tick, sender, history>>

\* ChannelService.configure on a running service holds delivery_lock, so no
\* notice is on its way, and runs.lock.  The runs of dispatched events are
\* cancelled: they end some time later.
Reconfigure ==
    /\ LiveRebind /\ binding.rev < MaxRevision
    /\ boot = "up" /\ lock = "free" /\ sender.pc # "send"
    /\ \E enabled \in BOOLEAN : Rebound(enabled)
    /\ UNCHANGED <<order, world, boot, todo, lock, tick, sender, history>>

\* The process dies; the next one interrupts the runs first.
Crash ==
    /\ crashes < MaxCrashes
    /\ crashes' = crashes + 1
    /\ runs' = [e \in Events |-> IF runs[e] \in ActiveStates THEN "interrupted" ELSE runs[e]]
    /\ desk' = FALSE
    /\ boot' = "configure"
    /\ todo' = [t \in Threads |-> <<>>]
    /\ lock' = "free"
    /\ tick' = IdleTick
    /\ sender' = IdleSender
    /\ UNCHANGED <<binding, event, outbox, order, parent, landed, retried>>

\* Start-up: ChannelService.__init__ calls configure, then recover.
Configure ==
    /\ boot = "configure"
    /\ boot' = "recover"
    /\ \/ UNCHANGED <<binding, event, outbox>>
       \/ binding.rev < MaxRevision /\ \E enabled \in BOOLEAN : Rebound(enabled)
    /\ UNCHANGED <<order, world, todo, lock, tick, sender, history>>

\* Mutant of RecoverDelivery: an interrupted delivery is tried again.
RecoverDeliveryPending ==
    /\ boot = "recover"
    /\ boot' = "recovering"
    /\ outbox' = [e \in Events |-> [k \in Kinds |->
                    IF outbox[e][k].state = "sending"
                    THEN [outbox[e][k] EXCEPT !.state = "pending"] ELSE outbox[e][k]]]
    /\ UNCHANGED <<binding, event, order, world, todo, lock, tick, sender, history>>

RecoverDelivery ==
    /\ boot = "recover"
    /\ boot' = "recovering"
    /\ outbox' = [e \in Events |-> [k \in Kinds |->
                    IF outbox[e][k].state = "sending"
                    THEN [outbox[e][k] EXCEPT !.state = "unknown"] ELSE outbox[e][k]]]
    /\ UNCHANGED <<binding, event, order, world, todo, lock, tick, sender, history>>

GivenUp(e) == <<Update(e, "interrupted_before_dispatch"), Suppress(e, Progress)>>

\* Mutant of Recovered: the stored run is not looked for.
RecoveredUnlinked(e) ==
    IF Current(e) THEN GivenUp(e) \o <<Enqueue(e, "interrupted")>> ELSE GivenUp(e)

\* Mutant of Recovered: a state that update_event does not know.
RecoveredUnknown(e) ==
    IF e \in Msgs /\ runs[e] # "none" THEN <<Update(e, "dispatched")>>
    ELSE <<Update(e, "interrupted"), Suppress(e, Progress)>>

\* recover, for one event: a message whose run exists gets it back, the others
\* are given up.  A continuation's run does not have the event's request id.
Recovered(e) ==
    IF e \in Msgs /\ runs[e] # "none" THEN <<Update(e, "dispatched")>>
    ELSE IF Current(e) THEN GivenUp(e) \o <<Enqueue(e, "interrupted")>> ELSE GivenUp(e)

Recover(e) ==
    /\ boot = "recovering" /\ todo["boot"] = <<>>
    /\ event[e].state \in {"received", "dispatching"}
    /\ todo' = [todo EXCEPT !["boot"] = Recovered(e)]
    /\ UNCHANGED <<binding, event, outbox, order, world, boot, lock, tick, sender, history>>

Up ==
    /\ boot = "recovering" /\ todo["boot"] = <<>>
    /\ \A e \in Events : event[e].state \notin {"received", "dispatching"}
    /\ boot' = "up"
    /\ UNCHANGED <<binding, event, outbox, order, world, todo, lock, tick, sender, history>>

-----------------------------------------------------------------------------
ThreadStep(t) == UpdateEvent(t) \/ SuppressNotices(t) \/ EnqueueNotice(t)

DispatchStep ==
    \/ ThreadStep("dispatch")
    \/ TickStarts \/ StartRun \/ DispatchEnds \/ AdoptEvent \/ AdoptEnds \/ TickEnds
    \/ \E e \in Events : Dispatch(e) \/ DispatchRefused(e) \/ Sync(e)
    \/ \E k \in Kids : Adopt(k)

DeliveryStep ==
    \/ \E e \in Events, k \in Kinds : Claim(e, k)
    \/ Send \/ FinishDelivery

BootStep ==
    \/ ThreadStep("boot")
    \/ Configure \/ RecoverDelivery \/ Up
    \/ \E e \in Events : Recover(e)

UserStep ==
    \/ \E m \in Msgs : Receive(m)
    \/ \E e \in Events, k \in Kinds : Retry(e, k)
    \/ DeskRun \/ \E k \in Kids, p \in Events : Continue(k, p)
    \/ Reconfigure

ChannelNext ==
    \/ ThreadStep("inbox") \/ DispatchStep \/ DeliveryStep \/ BootStep \/ UserStep
    \/ \E e \in Events : RunProceeds(e) \/ RunEnds(e)
    \/ Crash

ChannelSpec == ChannelInit /\ [][ChannelNext]_vars

\* The threads run and runs end.  Users, the platform's messages, a change of
\* the binding and crashes are never owed.
ChannelFairness ==
    /\ WF_vars(DispatchStep) /\ WF_vars(BootStep) /\ WF_vars(ThreadStep("inbox"))
    /\ \A e \in Events : WF_vars(RunEnds(e))

FairChannelSpec == ChannelSpec /\ ChannelFairness

-----------------------------------------------------------------------------
EventStates == {"absent", "received", "dispatching", "dispatched", "rejected", "invalidated",
                "interrupted_before_dispatch", "handled", "terminal"}
NoticeStates == {"absent", "pending", "sending", "retry_wait", "accepted", "unknown",
                 "failed", "suppressed"}

ChannelTypeOK ==
    /\ binding \in [rev : 1..MaxRevision, enabled : BOOLEAN]
    /\ event \in [Events -> [state : EventStates, rev : 0..MaxRevision, run : BOOLEAN]]
    /\ outbox \in [Events -> [Kinds -> [state : NoticeStates, attempts : Nat]]]
    /\ order \in Seq(Events)
    /\ runs \in [Events -> {"none", "active", "waiting", "ended", "interrupted"}]
    /\ parent \in [Kids -> Events \cup {None}]
    /\ desk \in BOOLEAN
    /\ boot \in {"up", "configure", "recover", "recovering"}
    /\ \A t \in Threads : \A i \in 1..Len(todo[t]) : todo[t][i].event \in Events
    /\ lock \in {"free", "inbox", "dispatch"}
    /\ tick.phase \in {"idle", "dispatch", "adopt", "sync"} /\ tick.batch \subseteq Events
    /\ sender.pc \in {"idle", "send", "finish"}
    /\ crashes \in 0..MaxCrashes

\* The platform never takes a notice twice unless the user retried it, whatever
\* answers were lost and whenever the process died while sending (unknown).
NoBlindResend ==
    \A e \in Events, k \in Kinds : landed[e][k] <= 1 + retried[e][k]

\* While a notice is on its way the binding it was written for is the current, enabled
\* one (delivery_lock, taken by configure too), and the notices of a continuation are
\* written for the binding of the run it continues, or there is no event for them.
SentUnderBinding ==
    /\ sender.pc = "send" => Current(sender.event)
    /\ \A k \in Kids : event[k].state # "absent" => event[k].rev = event[parent[k]].rev

\* A message starts its run only while its binding is current and after it was
\* marked dispatching, so that a restart can find out about the run.
StartedUnderBinding ==
    [][\A m \in Msgs : (runs[m] = "none" /\ runs'[m] # "none") =>
          Current(m) /\ event[m].state = "dispatching"]_vars

\* The end of a run is announced before the event is closed, and only ends are
\* announced: nobody looks at a closed event again.
EndIsAnnounced ==
    \A e \in Events :
        /\ event[e].state = "terminal" => outbox[e]["terminal"].state # "absent"
        /\ outbox[e]["terminal"].state # "absent" => runs[e] \in {"ended", "interrupted"}

\* A request that start-up reported as not executed has no run and gets none,
\* however often it is delivered again.
NotExecutedNeverRuns ==
    \A m \in Msgs : event[m].state = "interrupted_before_dispatch" => runs[m] = "none"

\* Every message is settled: rejected, handled, given up by start-up, or its run
\* is over and announced; unless its binding is replaced.
EveryMessageSettles ==
    \A m \in Msgs : event[m].state = "received" ~>
        (event[m].state \in {"rejected", "handled", "terminal", "invalidated",
                             "interrupted_before_dispatch"} \/ ~Current(m))

\* Not so (see the README): a request the user was told is rejected never runs.
\* (Feishu design 4.2: a rejected message stays rejected)
RejectedNeverRuns ==
    \A m \in Msgs : outbox[m]["rejected"].state # "absent" => runs[m] = "none"

=============================================================================
