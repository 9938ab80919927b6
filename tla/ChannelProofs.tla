---------------------------- MODULE ChannelProofs ----------------------------
(***************************************************************************)
(* Proofs about Channel, for any messages, continuations and bounds: what  *)
(* the threads are about to do has its grounds in the tables, nothing is   *)
(* sent or started for another binding, and nothing is sent twice unasked. *)
(***************************************************************************)
EXTENDS Channel, TLAPS, SequenceTheorems

-----------------------------------------------------------------------------
(* The inductive invariant.                                                *)

Present(e) == event[e].state # "absent"

Ops == [tx : {"update"}, event : Events, state : EventStates \ {"absent"}]
       \cup [tx : {"suppress"}, event : Events, kinds : SUBSET Kinds]
       \cup [tx : {"enqueue"}, event : Events, kind : Kinds]
       \cup [tx : {"start"}, event : Msgs] \cup [tx : {"adopt"}, event : Kids]

EventRow == [state : EventStates, rev : 0..MaxRevision, run : BOOLEAN]
NoticeRow == [state : NoticeStates, attempts : Nat]

SenderState == [pc : {"idle", "send", "finish"}, event : Events \cup {None},
                kind : Kinds \cup {None},
                reply : {"accepted", "unknown", "retry_wait", "failed", None}]

RowsTyped ==
    /\ binding \in [rev : 1..MaxRevision, enabled : BOOLEAN]
    /\ event \in [Events -> EventRow] /\ outbox \in [Events -> [Kinds -> NoticeRow]]
    /\ order \in Seq(Events)
    /\ landed \in [Events -> [Kinds -> Nat]] /\ retried \in [Events -> [Kinds -> Nat]]

RunsTyped ==
    /\ runs \in [Events -> {"none", "active", "waiting", "ended", "interrupted"}]
    /\ parent \in [Kids -> Events \cup {None}]
    /\ desk \in BOOLEAN /\ crashes \in 0..MaxCrashes

PartiesTyped ==
    /\ boot \in {"up", "configure", "recover", "recovering"}
    /\ lock \in {"free", "inbox", "dispatch"}
    /\ tick \in [phase : {"idle", "dispatch", "adopt", "sync"}, batch : SUBSET Events]
    /\ sender \in SenderState

TodoTyped == todo \in [Threads -> Seq(Ops)]

\* Start-up works alone; its handler is the recovery of an event.
StartsAlone ==
    /\ boot # "up" => /\ todo["inbox"] = <<>> /\ todo["dispatch"] = <<>> /\ lock = "free"
                      /\ tick = IdleTick /\ sender = IdleSender
    /\ todo["boot"] # <<>> => boot = "recovering"

\* Who holds runs.lock has something left to do under it.
LockIsUsed ==
    /\ todo["inbox"] # <<>> <=> lock = "inbox"
    /\ lock = "dispatch" => todo["dispatch"] # <<>>

\* An event that never came has neither notices nor a revision.
EventsAreWhole ==
    \A e \in Events :
        IF Present(e) THEN event[e].rev \in 1..binding.rev
        ELSE event[e] = NoEvent /\ \A k \in Kinds : outbox[e][k].state = "absent"

\* The grounds of the i-th transaction that thread t has left: what made the thread plan
\* it still holds, or an earlier one of the same handler makes it hold.
Grounds(t, i) ==
    LET op == todo[t][i]
        e == op.event
    IN /\ op.tx \in {"update", "suppress", "enqueue"} =>
              Present(e) \/ (i = 2 /\ todo[t][1] = AdoptTx(e))
       /\ op.tx = "update" =>
              /\ op.state = "dispatched" => runs[e] # "none"
              /\ op.state = "terminal" => \/ outbox[e]["terminal"].state # "absent"
                                          \/ i > 1 /\ todo[t][i - 1] = Enqueue(e, "terminal")
              /\ op.state = "interrupted_before_dispatch" =>
                     t = "boot" /\ (e \in Msgs => runs[e] = "none")
       /\ op.tx = "enqueue" /\ op.kind = "terminal" => runs[e] \in {"ended", "interrupted"}
       /\ op.tx = "start" =>
              /\ t = "dispatch" /\ lock = "dispatch" /\ Current(e)
              /\ IF i = 1 THEN event[e].state = "dispatching"
                 ELSE i = 2 /\ todo[t][1] = Update(e, "dispatching")
       /\ op.tx = "adopt" => t = "dispatch" /\ i = 1 /\ runs[e] # "none"

TodoIsGrounded == \A t \in Threads : \A i \in 1..Len(todo[t]) : Grounds(t, i)

\* The events of a tick are what its phase looks at.
BatchIsGrounded ==
    \A e \in tick.batch :
        /\ tick.phase \in {"dispatch", "sync"} => Present(e)
        /\ tick.phase \in {"adopt", "sync"} => runs[e] # "none"
        /\ tick.phase = "adopt" => e \in Kids

\* A dispatched event has its run, and a continuation the binding of the run it continues.
RunsAreLinked ==
    /\ \A e \in Events : event[e].state = "dispatched" => runs[e] # "none"
    /\ \A k \in Kids :
          /\ runs[k] # "none" => parent[k] \in Events
          /\ Present(k) => /\ runs[k] # "none" /\ Present(parent[k])
                           /\ event[k].rev = event[parent[k]].rev

\* The notice on its way is marked as sending, for the binding it was claimed under.
SenderIsMarked ==
    sender.pc # "idle" =>
        /\ sender.event \in Events /\ sender.kind \in Kinds /\ Present(sender.event)
        /\ outbox[sender.event][sender.kind].state = "sending"
        /\ sender.pc = "send" => Current(sender.event)
        /\ sender.pc = "finish" =>
              sender.reply \in {"accepted", "unknown", "retry_wait", "failed"}

\* A notice that may still be sent has not been taken since the user last asked for it.
SendsAreCounted ==
    \A e \in Events, k \in Kinds :
        /\ landed[e][k] <= 1 + retried[e][k]
        /\ (\/ outbox[e][k].state \in {"absent", "pending", "retry_wait", "failed"}
            \/ /\ sender.event = e /\ sender.kind = k
               /\ \/ sender.pc = "send"
                  \/ sender.pc = "finish" /\ sender.reply \in {"retry_wait", "failed"})
                => landed[e][k] <= retried[e][k]

ChannelInv ==
    /\ RowsTyped /\ RunsTyped /\ PartiesTyped /\ TodoTyped /\ StartsAlone /\ LockIsUsed
    /\ EventsAreWhole /\ TodoIsGrounded /\ BatchIsGrounded /\ RunsAreLinked /\ SenderIsMarked
    /\ SendsAreCounted /\ EndIsAnnounced /\ NotExecutedNeverRuns

-----------------------------------------------------------------------------
\* What the transactions and handlers do, by thread and by table.

\* The kinds of notice, one by one; Progress are some of them.
LEMMA KindsAreNamed == Progress \subseteq Kinds /\ {"received", "running", "waiting_approval",
    "rejected", "command", "interrupted", "terminal"} = Kinds
BY DEF Kinds, Progress

\* Thread t has done the first transaction it had left.
Pops(t) ==
    /\ todo' \in [Threads -> Seq(Ops)]
    /\ \A q \in Threads \ {t} : todo'[q] = todo[q]
    /\ Len(todo[t]) \in Nat \ {0} /\ Len(todo'[t]) = Len(todo[t]) - 1
    /\ \A i \in 1..Len(todo'[t]) : todo'[t][i] = todo[t][i + 1]
    /\ todo[t] # <<>> /\ todo'[t] = <<>> <=> Len(todo'[t]) = 0
    /\ lock' = IF todo'[t] = <<>> /\ lock = t THEN "free" ELSE lock

\* Thread t has a new handler.
Plans(t, rest) ==
    /\ todo' \in [Threads -> Seq(Ops)]
    /\ todo'[t] = rest /\ \A q \in Threads \ {t} : todo'[q] = todo[q]

\* A thread that has transactions left has a first one, and the rest after it.
LEMMA FirstOp ==
    ASSUME TodoTyped, NEW t \in Threads, todo[t] # <<>>
    PROVE  /\ Head(todo[t]) = todo[t][1] /\ todo[t][1] \in Ops /\ Len(todo[t]) \in Nat \ {0}
           /\ Tail(todo[t]) \in Seq(Ops) /\ Len(Tail(todo[t])) = Len(todo[t]) - 1
           /\ \A i \in 1..Len(Tail(todo[t])) : Tail(todo[t])[i] = todo[t][i + 1]
<1>1. todo[t] \in Seq(Ops)
    BY DEF TodoTyped
<1>2. Len(todo[t]) \in Nat \ {0}
    BY <1>1, EmptySeq
<1>3. todo[t][1] \in Ops
    BY <1>1, <1>2, ElementOfSeq
<1>4. /\ Head(todo[t]) = todo[t][1] /\ Tail(todo[t]) \in Seq(Ops)
      /\ Len(Tail(todo[t])) = Len(todo[t]) - 1
    BY <1>1, <1>2, HeadTailProperties
<1>5. \A i \in 1..Len(Tail(todo[t])) : Tail(todo[t])[i] = todo[t][i + 1]
    BY <1>1, <1>2, HeadTailProperties
<1> QED BY <1>2, <1>3, <1>4, <1>5

\* The transactions, by their kind.
LEMMA OpForms ==
    ASSUME NEW op \in Ops
    PROVE  /\ op.event \in Events
           /\ op.tx = "update" =>
                  op.state \in EventStates \ {"absent"} /\ op = Update(op.event, op.state)
           /\ op.tx = "suppress" => op.kinds \in SUBSET Kinds /\ op = Suppress(op.event, op.kinds)
           /\ op.tx = "enqueue" => op.kind \in Kinds /\ op = Enqueue(op.event, op.kind)
           /\ op.tx = "start" => op.event \in Msgs /\ op = StartTx(op.event)
           /\ op.tx = "adopt" => op.event \in Kids /\ op = AdoptTx(op.event)
<1>1. CASE op \in [tx : {"update"}, event : Events, state : EventStates \ {"absent"}]
    BY <1>1 DEF Update
<1>2. CASE op \in [tx : {"suppress"}, event : Events, kinds : SUBSET Kinds]
    BY <1>2 DEF Suppress
<1>3. CASE op \in [tx : {"enqueue"}, event : Events, kind : Kinds]
    BY <1>3 DEF Enqueue
<1>4. CASE op \in [tx : {"start"}, event : Msgs]
    BY <1>4 DEF StartTx, Events
<1>5. CASE op \in [tx : {"adopt"}, event : Kids]
    BY <1>5 DEF AdoptTx, Events
<1> QED BY <1>1, <1>2, <1>3, <1>4, <1>5 DEF Ops

\* The transactions that handlers consist of.
LEMMA OpsMade ==
    /\ \A e \in Events, s \in EventStates \ {"absent"} : Update(e, s) \in Ops
    /\ \A e \in Events, s \in SUBSET Kinds : Suppress(e, s) \in Ops
    /\ \A e \in Events, k \in Kinds : Enqueue(e, k) \in Ops
    /\ \A m \in Msgs : StartTx(m) \in Ops
    /\ \A k \in Kids : AdoptTx(k) \in Ops
BY DEF Ops, Update, Suppress, Enqueue, StartTx, AdoptTx

\* Leaving the tail is doing the first transaction.
LEMMA LeavesTail ==
    ASSUME TodoTyped, NEW t \in Threads, todo[t] # <<>>, Leaves(t, Tail(todo[t]))
    PROVE  Pops(t)
<1>1. Tail(todo[t]) \in Seq(Ops) /\ Len(Tail(todo[t])) = Len(todo[t]) - 1
      /\ Len(todo[t]) \in Nat \ {0}
      /\ \A i \in 1..Len(Tail(todo[t])) : Tail(todo[t])[i] = todo[t][i + 1]
    BY FirstOp
<1>2. todo' = [todo EXCEPT ![t] = Tail(todo[t])]
    BY DEF Leaves
<1>3. /\ todo'[t] = Tail(todo[t]) /\ todo' \in [Threads -> Seq(Ops)]
      /\ \A q \in Threads \ {t} : todo'[q] = todo[q]
    BY <1>1, <1>2 DEF TodoTyped
<1>4. todo'[t] = <<>> <=> Len(todo'[t]) = 0
    BY <1>1, <1>3, EmptySeq
<1> QED BY <1>1, <1>3, <1>4 DEF Leaves, Pops

\* Replacing what a thread has left is a new handler.
LEMMA PlansShow ==
    ASSUME TodoTyped, NEW t \in Threads, NEW rest \in Seq(Ops), todo' = [todo EXCEPT ![t] = rest]
    PROVE  Plans(t, rest)
BY DEF TodoTyped, Plans

\* One event changes, or one notice.
Noted(e, state) ==
    /\ event' \in [Events -> EventRow]
    /\ event'[e].state = state /\ event'[e].rev = event[e].rev
    /\ \A d \in Events \ {e} : event'[d] = event[d]

SetsNotice(e, k, state) ==
    /\ outbox' \in [Events -> [Kinds -> NoticeRow]] /\ outbox'[e][k].state = state
    /\ \A d \in Events, j \in Kinds : d # e \/ j # k => outbox'[d][j] = outbox[d][j]

\* Notices are withdrawn, and nothing else happens to any.
Withdraws ==
    /\ outbox' \in [Events -> [Kinds -> NoticeRow]]
    /\ \A d \in Events, j \in Kinds :
          \/ outbox'[d][j].state = outbox[d][j].state
          \/ outbox[d][j].state \in Withdrawable /\ outbox'[d][j].state = "suppressed"

\* A new event with its first notice.
Inserted(e) ==
    /\ event' \in [Events -> EventRow]
    /\ event'[e] = [state |-> "received", rev |-> binding.rev, run |-> FALSE]
    /\ \A d \in Events \ {e} : event'[d] = event[d]
    /\ SetsNotice(e, "received", "pending") /\ order' \in Seq(Events)

\* Writing one row of the outbox changes this notice and no other.
LEMMA NoticeSet ==
    ASSUME RowsTyped, NEW e \in Events, NEW k \in Kinds, NEW row \in NoticeRow,
           outbox' = [outbox EXCEPT ![e][k] = row]
    PROVE  SetsNotice(e, k, row.state)
<1>1. outbox' \in [Events -> [Kinds -> NoticeRow]] /\ outbox'[e][k] = row
    BY DEF RowsTyped
<1>2. \A d \in Events, j \in Kinds : d # e \/ j # k => outbox'[d][j] = outbox[d][j]
    BY DEF RowsTyped
<1> QED BY <1>1, <1>2 DEF SetsNotice

\* update_event changes the state of the event it names, and its run flag.
LEMMA UpdateShows ==
    ASSUME RowsTyped, TodoTyped, NEW t \in Threads, UpdateEvent(t)
    PROVE  /\ Pops(t) /\ todo[t][1].tx = "update" /\ todo[t][1] \in Ops
           /\ Noted(todo[t][1].event, todo[t][1].state)
<1>1. todo[t] # <<>> /\ Head(todo[t]) = todo[t][1] /\ todo[t][1] \in Ops /\ todo[t][1].tx = "update"
    BY FirstOp DEF UpdateEvent, At
<1>2. Pops(t)
    BY <1>1, LeavesTail DEF UpdateEvent
<1>3. PICK e \in Events, s \in EventStates \ {"absent"} : todo[t][1] = Update(e, s)
    BY <1>1, OpForms
<1>4. event[e] \in EventRow
    BY DEF RowsTyped
<1>a. Head(todo[t]) = todo[t][1] /\ todo[t][1].event = e /\ todo[t][1].state = s
    BY <1>1, <1>3 DEF Update
<1>5. event' = [event EXCEPT ![e].state = s, ![e].run = @ \/ s = "dispatched"]
    BY <1>a DEF UpdateEvent
<1>7. Noted(e, s)
    BY <1>4, <1>5 DEF Noted, RowsTyped, EventRow
<1> QED BY <1>1, <1>2, <1>3, <1>7 DEF Update

\* Withdrawing the notices of one event only suppresses what was not sent yet.
LEMMA WithdrawnShows ==
    ASSUME RowsTyped, NEW e \in Events, NEW kinds \in SUBSET Kinds,
           outbox' = [outbox EXCEPT ![e] = Withdrawn(e, kinds)]
    PROVE  Withdraws
<1>a. \A row \in NoticeRow : [row EXCEPT !.state = "suppressed"] \in NoticeRow
    <2>1. "suppressed" \in NoticeStates
        BY DEF NoticeStates
    <2> QED BY <2>1 DEF NoticeRow
<1>b. \A k \in Kinds : outbox[e][k] \in NoticeRow
    BY DEF RowsTyped
<1>1. \A k \in Kinds : /\ outbox[e][k] \in NoticeRow
                       /\ [outbox[e][k] EXCEPT !.state = "suppressed"] \in NoticeRow
    BY <1>a, <1>b
<1>2. Withdrawn(e, kinds) \in [Kinds -> NoticeRow]
    BY <1>1 DEF Withdrawn
<1>3. \A k \in Kinds :
          \/ Withdrawn(e, kinds)[k].state = outbox[e][k].state
          \/ outbox[e][k].state \in Withdrawable /\ Withdrawn(e, kinds)[k].state = "suppressed"
    BY <1>1 DEF Withdrawn, NoticeRow
<1> QED BY <1>2, <1>3 DEF Withdraws, RowsTyped

\* suppress withdraws notices and changes no event.
LEMMA SuppressShows ==
    ASSUME RowsTyped, TodoTyped, NEW t \in Threads, SuppressNotices(t)
    PROVE  Pops(t) /\ todo[t][1].tx = "suppress" /\ todo[t][1] \in Ops /\ Withdraws
<1>1. /\ todo[t] # <<>> /\ Head(todo[t]) = todo[t][1]
      /\ todo[t][1] \in Ops /\ todo[t][1].tx = "suppress"
    BY FirstOp DEF SuppressNotices, At
<1>2. Pops(t)
    BY <1>1, LeavesTail DEF SuppressNotices
<1>3. todo[t][1].event \in Events /\ todo[t][1].kinds \in SUBSET Kinds
    BY <1>1, OpForms
<1>4. outbox' = [outbox EXCEPT ![todo[t][1].event] =
                     Withdrawn(todo[t][1].event, todo[t][1].kinds)]
    BY <1>1 DEF SuppressNotices
<1> QED BY <1>1, <1>2, <1>3, <1>4, WithdrawnShows

\* enqueue inserts a notice once: one that is there stays as it is (ON CONFLICT DO NOTHING).
LEMMA EnqueueShows ==
    ASSUME RowsTyped, TodoTyped, NEW t \in Threads, EnqueueNotice(t)
    PROVE  /\ Pops(t) /\ todo[t][1].tx = "enqueue" /\ todo[t][1] \in Ops
           /\ \E s \in {outbox[todo[t][1].event][todo[t][1].kind].state, "pending", "suppressed"} :
                 /\ s # "absent"
                 /\ s = outbox[todo[t][1].event][todo[t][1].kind].state
                        \/ outbox[todo[t][1].event][todo[t][1].kind].state = "absent"
                 /\ SetsNotice(todo[t][1].event, todo[t][1].kind, s)
<1>1. /\ todo[t] # <<>> /\ Head(todo[t]) = todo[t][1]
      /\ todo[t][1] \in Ops /\ todo[t][1].tx = "enqueue"
    BY FirstOp DEF EnqueueNotice, At
<1>2. Pops(t)
    BY <1>1, LeavesTail DEF EnqueueNotice
<1>3. PICK e \in Events, k \in Kinds : todo[t][1].event = e /\ todo[t][1].kind = k
    BY <1>1, OpForms
<1>4. outbox' = [outbox EXCEPT ![e][k] = Queued(e, k)]
    BY <1>1, <1>3 DEF EnqueueNotice
<1>5. outbox[e][k] \in NoticeRow
    BY DEF RowsTyped
<1>6. /\ Queued(e, k) \in NoticeRow
      /\ IF outbox[e][k].state # "absent" THEN Queued(e, k) = outbox[e][k]
         ELSE Queued(e, k).state \in {"pending", "suppressed"}
    BY <1>5 DEF Queued, NoNotice, NoticeRow, NoticeStates
<1>7. SetsNotice(e, k, Queued(e, k).state)
    BY <1>4, <1>6, NoticeSet
<1> QED BY <1>1, <1>2, <1>3, <1>6, <1>7

\* receive inserts a new event with its first notice.
LEMMA InsertShows ==
    ASSUME RowsTyped, NEW e \in Events, Insert(e)
    PROVE  Inserted(e)
<1>1. [state |-> "received", rev |-> binding.rev, run |-> FALSE] \in EventRow
    BY DEF RowsTyped, EventRow, EventStates
<1>2. [NoNotice EXCEPT !.state = "pending"] \in NoticeRow
      /\ [NoNotice EXCEPT !.state = "pending"].state = "pending"
    BY DEF NoNotice, NoticeRow, NoticeStates
<1>3. "received" \in Kinds
    BY KindsAreNamed
<1>4. SetsNotice(e, "received", "pending")
    BY <1>2, <1>3, NoticeSet DEF Insert
<1>5. order' \in Seq(Events)
    BY AppendProperties DEF Insert, RowsTyped
<1> QED BY <1>1, <1>4, <1>5 DEF Insert, Inserted, RowsTyped


-----------------------------------------------------------------------------
\* What keeps the grounds of what is left to do.

Keeps ==
    \A e \in Events :
        /\ Present(e) => event'[e].state # "absent"
        /\ runs[e] # "none" => runs'[e] # "none"
        /\ runs[e] \in {"ended", "interrupted"} => runs'[e] \in {"ended", "interrupted"}
        /\ outbox[e]["terminal"].state # "absent" => outbox'[e]["terminal"].state # "absent"

KeepsBoot == todo["boot"] = <<>> \/ \A m \in Msgs : runs[m] = "none" => runs'[m] = "none"

KeepsBinding == \A e \in Events : Current(e) => binding'.enabled /\ event'[e].rev = binding'.rev

KeepsStart ==
    lock = "dispatch" =>
        /\ lock' = "dispatch" /\ KeepsBinding
        /\ \A e \in Events : event[e].state = "dispatching" => event'[e].state = "dispatching"

\* Every transaction that is left is one of Ops.
LEMMA OpAt ==
    ASSUME TodoTyped, NEW t \in Threads, NEW i \in 1..Len(todo[t])
    PROVE  todo[t][i] \in Ops /\ todo[t][i].event \in Events /\ todo[t] # <<>>
<1>1. todo[t] \in Seq(Ops) /\ Len(todo[t]) \in Nat
    BY DEF TodoTyped
<1>2. todo[t][i] \in Ops
    BY <1>1, ElementOfSeq
<1>3. todo[t] # <<>>
    BY <1>1, EmptySeq
<1> QED BY <1>2, <1>3, OpForms

\* A transaction that stays where it is keeps its grounds.
LEMMA GroundStays ==
    ASSUME TodoTyped, NEW t \in Threads, NEW i \in 1..Len(todo[t]), Grounds(t, i),
           todo'[t] = todo[t], Keeps, KeepsBoot, todo[t][i].tx = "start" => KeepsStart
    PROVE  Grounds(t, i)'
<1>1. todo[t][i].event \in Events /\ (t = "boot" => todo["boot"] # <<>>)
    BY OpAt
<1>2. PICK op, e : op = todo[t][i] /\ e = op.event /\ e \in Events
    BY <1>1
<1>3. op = todo'[t][i]
    BY <1>2
<1>4. op.tx \in {"update", "suppress", "enqueue"} =>
          event'[e].state # "absent" \/ (i = 2 /\ todo[t][1] = AdoptTx(e))
    BY <1>2 DEF Grounds, Keeps
<1>5. op.tx = "update" =>
          /\ op.state = "dispatched" => runs'[e] # "none"
          /\ op.state = "terminal" => \/ outbox'[e]["terminal"].state # "absent"
                                      \/ i > 1 /\ todo[t][i - 1] = Enqueue(e, "terminal")
    BY <1>2 DEF Grounds, Keeps
<1>6. op.tx = "update" /\ op.state = "interrupted_before_dispatch" =>
          t = "boot" /\ (e \in Msgs => runs'[e] = "none")
    BY <1>1, <1>2 DEF Grounds, KeepsBoot
<1>7. op.tx = "enqueue" /\ op.kind = "terminal" => runs'[e] \in {"ended", "interrupted"}
    BY <1>2 DEF Grounds, Keeps
<1>8. op.tx = "start" =>
          /\ t = "dispatch" /\ lock' = "dispatch" /\ Current(e)'
          /\ IF i = 1 THEN event'[e].state = "dispatching"
             ELSE i = 2 /\ todo[t][1] = Update(e, "dispatching")
    <2>1. op.tx = "start" => KeepsStart
        BY <1>2
    <2> QED BY <1>2, <2>1 DEF Grounds, KeepsStart, KeepsBinding, Current
<1>9. op.tx = "adopt" => t = "dispatch" /\ i = 1 /\ runs'[e] # "none"
    BY <1>2 DEF Grounds, Keeps
<1> QED BY <1>2, <1>3, <1>4, <1>5, <1>6, <1>7, <1>8, <1>9
        DEF Grounds, Present, Enqueue, AdoptTx, Update

\* A transaction before which another was done keeps its grounds.
LEMMA GroundAdvances ==
    ASSUME TodoTyped, NEW t \in Threads, Pops(t), NEW i \in 1..Len(todo'[t]), Grounds(t, i + 1),
           Keeps, KeepsBoot, KeepsBinding,
           \A e \in Events : /\ todo[t][1] = AdoptTx(e) => event'[e].state # "absent"
                             /\ todo[t][1] = Enqueue(e, "terminal")
                                    => outbox'[e]["terminal"].state # "absent"
                             /\ todo[t][1] = Update(e, "dispatching")
                                    => event'[e].state = "dispatching"
    PROVE  Grounds(t, i)'
<1>1. /\ i + 1 \in 1..Len(todo[t]) /\ todo'[t][i] = todo[t][i + 1] /\ i \in Nat \ {0}
      /\ i > 1 => todo'[t][i - 1] = todo[t][i]
    <2>1. Len(todo'[t]) \in Nat /\ i + 1 \in 1..Len(todo[t]) /\ i \in Nat \ {0}
          /\ todo'[t][i] = todo[t][i + 1]
        BY DEF Pops
    <2>2. ASSUME i > 1 PROVE todo'[t][i - 1] = todo[t][i]
        <3>1. i - 1 \in 1..Len(todo'[t]) /\ (i - 1) + 1 = i
            BY <2>1, <2>2
        <3>2. todo'[t][i - 1] = todo[t][(i - 1) + 1]
            BY <3>1 DEF Pops
        <3> QED BY <3>1, <3>2
    <2> QED BY <2>1, <2>2
<1>2. todo[t][i + 1].event \in Events /\ (t = "boot" => todo["boot"] # <<>>)
    BY <1>1, OpAt
<1>3. PICK op, e : op = todo[t][i + 1] /\ e = op.event /\ e \in Events
    BY <1>2
<1>4. op = todo'[t][i]
    BY <1>1, <1>3
<1>5. op.tx \in {"update", "suppress", "enqueue"} => event'[e].state # "absent"
    BY <1>1, <1>3 DEF Grounds, Keeps
<1>6. op.tx = "update" =>
          /\ op.state = "dispatched" => runs'[e] # "none"
          /\ op.state = "terminal" => \/ outbox'[e]["terminal"].state # "absent"
                                      \/ i > 1 /\ todo'[t][i - 1] = Enqueue(e, "terminal")
    <2>1. (i + 1) - 1 = i
        BY <1>1
    <2>2. op.tx = "update" /\ op.state = "terminal" =>
              outbox[e]["terminal"].state # "absent" \/ todo[t][i] = Enqueue(e, "terminal")
        BY <1>3, <2>1 DEF Grounds
    <2>3. i = 1 \/ i > 1
        BY <1>1
    <2>4. op.tx = "update" /\ op.state = "dispatched" => runs[e] # "none"
        BY <1>3 DEF Grounds
    <2> QED BY <1>1, <1>3, <2>2, <2>3, <2>4 DEF Keeps
<1>7. op.tx = "update" /\ op.state = "interrupted_before_dispatch" =>
          t = "boot" /\ (e \in Msgs => runs'[e] = "none")
    BY <1>2, <1>3 DEF Grounds, KeepsBoot
<1>8. op.tx = "enqueue" /\ op.kind = "terminal" => runs'[e] \in {"ended", "interrupted"}
    BY <1>3 DEF Grounds, Keeps
<1>9. op.tx = "start" => /\ t = "dispatch" /\ lock' = "dispatch" /\ Current(e)'
                         /\ i = 1 /\ event'[e].state = "dispatching"
    <2>1. todo'[t] # <<>>
        BY <1>1 DEF Pops
    <2> QED BY <1>1, <1>3, <2>1 DEF Grounds, KeepsBinding, Current, Pops
<1>10. op.tx # "adopt"
    BY <1>1, <1>3 DEF Grounds
<1> QED BY <1>3, <1>4, <1>5, <1>6, <1>7, <1>8, <1>9, <1>10
        DEF Grounds, Present, Enqueue

\* Steps that leave what is left to do alone.
LEMMA GroundedStays ==
    ASSUME TodoTyped, TodoIsGrounded, UNCHANGED todo, Keeps, KeepsBoot, KeepsStart
    PROVE  TodoIsGrounded'
<1> SUFFICES ASSUME NEW t \in Threads, NEW i \in 1..Len(todo[t])
             PROVE  Grounds(t, i)'
    BY DEF TodoIsGrounded
<1> QED BY GroundStays DEF TodoIsGrounded

\* Steps after which thread t has less left to do.
LEMMA GroundedPops ==
    ASSUME TodoTyped, TodoIsGrounded, StartsAlone, LockIsUsed, NEW t \in Threads, Pops(t),
           Keeps, KeepsBoot, KeepsBinding,
           \A e \in Events : /\ todo[t][1] = AdoptTx(e) => event'[e].state # "absent"
                             /\ todo[t][1] = Enqueue(e, "terminal")
                                    => outbox'[e]["terminal"].state # "absent"
                             /\ todo[t][1] = Update(e, "dispatching")
                                    => event'[e].state = "dispatching"
    PROVE  TodoIsGrounded'
<1> SUFFICES ASSUME NEW q \in Threads, NEW i \in 1..Len(todo'[q])
             PROVE  Grounds(q, i)'
    BY DEF TodoIsGrounded
<1>1. CASE q = t
    <2>1. i + 1 \in 1..Len(todo[t])
        BY <1>1 DEF Pops
    <2> QED BY <1>1, <2>1, GroundAdvances DEF TodoIsGrounded
<1>2. CASE q # t
    <2>1. todo'[q] = todo[q] /\ Grounds(q, i)
        BY <1>2 DEF Pops, TodoIsGrounded
    <2>2. CASE q = "dispatch"
        <3>1. lock # "dispatch"
            BY <1>2, <2>2 DEF Threads, Pops, LockIsUsed, StartsAlone
        <3> QED BY <2>1, <3>1, GroundStays DEF KeepsStart
    <2>3. CASE q # "dispatch"
        <3>1. todo[q][i].tx # "start"
            BY <2>1, <2>3 DEF Grounds
        <3> QED BY <2>1, <3>1, GroundStays
    <2> QED BY <2>2, <2>3
<1> QED BY <1>1, <1>2


\* A step that gives thread t a new handler.
LEMMA GroundedPlans ==
    ASSUME TodoTyped, TodoIsGrounded, NEW t \in Threads, NEW rest, Plans(t, rest),
           \A i \in 1..Len(todo'[t]) : Grounds(t, i)',
           Keeps, KeepsBoot, t = "dispatch" \/ KeepsStart
    PROVE  TodoIsGrounded'
<1> SUFFICES ASSUME NEW q \in Threads, NEW i \in 1..Len(todo'[q]), q # t
             PROVE  Grounds(q, i)'
    BY DEF TodoIsGrounded
<1>1. todo'[q] = todo[q] /\ Grounds(q, i)
    BY DEF Plans, TodoIsGrounded
<1>2. todo[q][i].tx = "start" => q = "dispatch"
    BY <1>1 DEF Grounds
<1> QED BY <1>1, <1>2, GroundStays

\* The handlers, and the grounds of their transactions.
LEMMA RejectHasGrounds ==
    ASSUME NEW t \in Threads, NEW e \in Events, todo'[t] = Reject(e), event'[e].state # "absent"
    PROVE  \A i \in 1..Len(todo'[t]) : Grounds(t, i)'
<1>1. /\ Len(todo'[t]) = 3 /\ todo'[t][1] = Update(e, "rejected")
      /\ todo'[t][2] = Suppress(e, Progress) /\ todo'[t][3] = Enqueue(e, "rejected")
    BY DEF Reject
<1> SUFFICES ASSUME NEW i \in 1..3
             PROVE  Grounds(t, i)'
    BY <1>1
<1>2. CASE i = 1
    BY <1>1, <1>2 DEF Grounds, Present, Update
<1>3. CASE i = 2
    BY <1>1, <1>3 DEF Grounds, Present, Suppress
<1>4. CASE i = 3
    BY <1>1, <1>4 DEF Grounds, Present, Enqueue
<1> QED BY <1>2, <1>3, <1>4

\* What dispatch plans for an event has its grounds when it is planned.
LEMMA HandlingHasGrounds ==
    ASSUME NEW e \in Events, todo'["dispatch"] = Handling(e), lock' = "dispatch",
           event'[e].state # "absent", Current(e) => Current(e)'
    PROVE  \A i \in 1..Len(todo'["dispatch"]) : Grounds("dispatch", i)'
<1> DEFINE rest == todo'["dispatch"]
<1>1. CASE ~Current(e)
    <2>1. /\ Len(rest) = 2 /\ rest[1] = Update(e, "invalidated") /\ rest[2] = Suppress(e, Kinds)
        BY <1>1 DEF Handling
    <2> SUFFICES ASSUME NEW i \in 1..2
                 PROVE  Grounds("dispatch", i)'
        BY <2>1
    <2>2. CASE i = 1
        BY <2>1, <2>2 DEF Grounds, Present, Update
    <2>3. CASE i = 2
        BY <2>1, <2>3 DEF Grounds, Present, Suppress
    <2> QED BY <2>2, <2>3
<1>2. CASE Current(e) /\ ActionOf(e) = "run"
    <2>1. /\ Len(rest) = 2 /\ rest[1] = Update(e, "dispatching") /\ rest[2] = StartTx(e)
        BY <1>2 DEF Handling
    <2> SUFFICES ASSUME NEW i \in 1..2
                 PROVE  Grounds("dispatch", i)'
        BY <2>1
    <2>2. CASE i = 1
        BY <2>1, <2>2 DEF Grounds, Present, Update
    <2>3. CASE i = 2
        BY <1>2, <2>1, <2>3 DEF Grounds, Present, StartTx, Update
    <2> QED BY <2>2, <2>3
<1>3. CASE Current(e) /\ ActionOf(e) = "reject"
    <2>1. rest = Reject(e)
        BY <1>3 DEF Handling
    <2> QED BY <2>1, RejectHasGrounds DEF Threads
<1>4. CASE Current(e) /\ ActionOf(e) \notin {"run", "reject"}
    <2>1. /\ Len(rest) = 3 /\ rest[1] = Suppress(e, Progress)
          /\ rest[2] = Enqueue(e, "command") /\ rest[3] = Update(e, "handled")
        BY <1>4 DEF Handling
    <2> SUFFICES ASSUME NEW i \in 1..3
                 PROVE  Grounds("dispatch", i)'
        BY <2>1
    <2>2. CASE i = 1
        BY <2>1, <2>2 DEF Grounds, Present, Suppress
    <2>3. CASE i = 2
        BY <2>1, <2>3 DEF Grounds, Present, Enqueue
    <2>4. CASE i = 3
        BY <2>1, <2>4 DEF Grounds, Present, Update
    <2> QED BY <2>2, <2>3, <2>4
<1> QED BY <1>1, <1>2, <1>3, <1>4

\* What sync plans for an event has its grounds: the state of the run it has read.
LEMMA SyncedHasGrounds ==
    ASSUME RunsTyped, NEW e \in Events, todo'["dispatch"] = Synced(e), runs' = runs,
           event'[e].state # "absent", runs[e] # "none"
    PROVE  \A i \in 1..Len(todo'["dispatch"]) : Grounds("dispatch", i)'
<1> DEFINE rest == todo'["dispatch"]
<1>1. CASE ~Current(e)
    <2>1. Len(rest) = 1 /\ rest[1] = Suppress(e, Kinds)
        BY <1>1 DEF Synced
    <2> QED BY <2>1 DEF Grounds, Present, Suppress
<1>2. CASE Current(e) /\ runs[e] = "waiting"
    <2>1. /\ Len(rest) = 2 /\ rest[1] = Suppress(e, {"received", "running"})
          /\ rest[2] = Enqueue(e, "waiting_approval")
        BY <1>2 DEF Synced
    <2> SUFFICES ASSUME NEW i \in 1..2
                 PROVE  Grounds("dispatch", i)'
        BY <2>1
    <2>2. CASE i = 1
        BY <2>1, <2>2 DEF Grounds, Present, Suppress
    <2>3. CASE i = 2
        BY <2>1, <2>3 DEF Grounds, Present, Enqueue
    <2> QED BY <2>2, <2>3
<1>3. CASE Current(e) /\ runs[e] = "active"
    <2>1. Len(rest) = 1 /\ rest[1] = Enqueue(e, "running")
        BY <1>3 DEF Synced
    <2> QED BY <2>1 DEF Grounds, Present, Enqueue
<1>4. CASE Current(e) /\ runs[e] \notin {"waiting", "active"}
    <2>1. /\ Len(rest) = 3 /\ rest[1] = Suppress(e, Progress)
          /\ rest[2] = Enqueue(e, "terminal") /\ rest[3] = Update(e, "terminal")
        BY <1>4 DEF Synced
    <2>2. runs'[e] \in {"ended", "interrupted"}
        BY <1>4 DEF RunsTyped
    <2> SUFFICES ASSUME NEW i \in 1..3
                 PROVE  Grounds("dispatch", i)'
        BY <2>1
    <2>3. CASE i = 1
        BY <2>1, <2>3 DEF Grounds, Present, Suppress
    <2>4. CASE i = 2
        BY <2>1, <2>2, <2>4 DEF Grounds, Present, Enqueue
    <2>5. CASE i = 3
        BY <2>1, <2>5 DEF Grounds, Present, Update
    <2> QED BY <2>3, <2>4, <2>5
<1> QED BY <1>1, <1>2, <1>3, <1>4

\* What start-up plans for an event has its grounds: whether there is a run.
LEMMA RecoveredHasGrounds ==
    ASSUME NEW e \in Events, todo'["boot"] = Recovered(e), runs' = runs,
           event'[e].state # "absent"
    PROVE  \A i \in 1..Len(todo'["boot"]) : Grounds("boot", i)'
<1> DEFINE rest == todo'["boot"]
<1>1. CASE e \in Msgs /\ runs[e] # "none"
    <2>1. Len(rest) = 1 /\ rest[1] = Update(e, "dispatched")
        BY <1>1 DEF Recovered
    <2> QED BY <1>1, <2>1 DEF Grounds, Present, Update
<1>2. CASE ~(e \in Msgs /\ runs[e] # "none")
    <2>1. /\ Len(rest) \in {2, 3} /\ rest[1] = Update(e, "interrupted_before_dispatch")
          /\ rest[2] = Suppress(e, Progress)
          /\ Len(rest) = 3 => rest[3] = Enqueue(e, "interrupted")
        <3> DEFINE more == <<Enqueue(e, "interrupted")>>
                   All == {Update(e, "interrupted_before_dispatch"), Suppress(e, Progress),
                           Enqueue(e, "interrupted")}
        <3>1. /\ GivenUp(e) \in Seq(All) /\ Len(GivenUp(e)) = 2
              /\ GivenUp(e)[1] = Update(e, "interrupted_before_dispatch")
              /\ GivenUp(e)[2] = Suppress(e, Progress)
            BY DEF GivenUp
        <3>2. more \in Seq(All) /\ Len(more) = 1 /\ more[1] = Enqueue(e, "interrupted")
            OBVIOUS
        <3> HIDE DEF more, All
        <3>3. /\ Len(GivenUp(e) \o more) = 3
              /\ (GivenUp(e) \o more)[1] = GivenUp(e)[1]
              /\ (GivenUp(e) \o more)[2] = GivenUp(e)[2]
              /\ (GivenUp(e) \o more)[3] = more[1]
            BY <3>1, <3>2, ConcatProperties
        <3> QED BY <1>2, <3>1, <3>2, <3>3 DEF Recovered, more
    <2> SUFFICES ASSUME NEW i \in 1..Len(rest)
                 PROVE  Grounds("boot", i)'
        OBVIOUS
    <2>2. CASE i = 1
        BY <1>2, <2>1, <2>2 DEF Grounds, Present, Update
    <2>3. CASE i = 2
        BY <2>1, <2>3 DEF Grounds, Present, Suppress
    <2>4. CASE i = 3 /\ Len(rest) = 3
        BY <2>1, <2>4 DEF Grounds, Present, Enqueue
    <2>5. i \in {1, 2} \/ (i = 3 /\ Len(rest) = 3)
        <3> DEFINE n == Len(rest)
        <3>1. n \in {2, 3} /\ i \in 1..n
            BY <2>1
        <3> HIDE DEF n
        <3>2. i \in {1, 2} \/ (i = 3 /\ n = 3)
            BY <3>1
        <3> QED BY <3>2 DEF n
    <2> QED BY <2>2, <2>3, <2>4, <2>5
<1> QED BY <1>1, <1>2

\* After start_session_run the event is marked as dispatched, and it has its run.
LEMMA DispatchedHasGrounds ==
    ASSUME NEW e \in Events, todo'["dispatch"] = <<Update(e, "dispatched")>>,
           runs'[e] # "none", event'[e].state # "absent"
    PROVE  \A i \in 1..Len(todo'["dispatch"]) : Grounds("dispatch", i)'
<1>1. Len(todo'["dispatch"]) = 1 /\ todo'["dispatch"][1] = Update(e, "dispatched")
    OBVIOUS
<1> QED BY <1>1 DEF Grounds, Present, Update

\* The adoption of a continuation has its grounds: the run is there.
LEMMA AdoptionHasGrounds ==
    ASSUME NEW k \in Kids, todo'["dispatch"] = <<AdoptTx(k), Update(k, "dispatched")>>,
           runs'[k] # "none"
    PROVE  \A i \in 1..Len(todo'["dispatch"]) : Grounds("dispatch", i)'
<1>1. /\ Len(todo'["dispatch"]) = 2 /\ todo'["dispatch"][1] = AdoptTx(k)
      /\ todo'["dispatch"][2] = Update(k, "dispatched")
    OBVIOUS
<1> SUFFICES ASSUME NEW i \in 1..2
             PROVE  Grounds("dispatch", i)'
    BY <1>1
<1>2. CASE i = 1
    BY <1>1, <1>2 DEF Grounds, AdoptTx
<1>3. CASE i = 2
    BY <1>1, <1>3 DEF Grounds, Update
<1> QED BY <1>2, <1>3

\* They are made of transactions.
LEMMA HandlersTyped ==
    /\ \A e \in Events : /\ Reject(e) \in Seq(Ops) /\ Reject(e) # <<>>
                         /\ Handling(e) \in Seq(Ops) /\ Handling(e) # <<>>
                         /\ Synced(e) \in Seq(Ops) /\ Recovered(e) \in Seq(Ops)
                         /\ <<Update(e, "dispatched")>> \in Seq(Ops)
    /\ \A k \in Kids : <<AdoptTx(k), Update(k, "dispatched")>> \in Seq(Ops)
<1>1. \A s \in {"rejected", "dispatching", "invalidated", "handled", "terminal", "dispatched",
                "interrupted_before_dispatch"} : s \in EventStates \ {"absent"}
    BY DEF EventStates
<1>2. {Kinds, Progress, {"received", "running"}} \subseteq SUBSET Kinds
    BY DEF Kinds, Progress
<1>3. \A k \in {"rejected", "command", "waiting_approval", "running", "terminal", "interrupted"} :
          k \in Kinds
    BY DEF Kinds, Progress
<1>4. ASSUME NEW e \in Events
      PROVE  /\ Reject(e) \in Seq(Ops) /\ Reject(e) # <<>>
             /\ Handling(e) \in Seq(Ops) /\ Handling(e) # <<>>
             /\ Synced(e) \in Seq(Ops) /\ Recovered(e) \in Seq(Ops)
             /\ <<Update(e, "dispatched")>> \in Seq(Ops)
    <2>1. \A s \in {"rejected", "dispatching", "invalidated", "handled", "terminal",
                    "dispatched", "interrupted_before_dispatch"} : Update(e, s) \in Ops
        BY <1>1, <1>4, OpsMade
    <2>2. /\ Suppress(e, Kinds) \in Ops /\ Suppress(e, Progress) \in Ops
          /\ Suppress(e, {"received", "running"}) \in Ops
        BY <1>2, <1>4, OpsMade
    <2>3. \A k \in {"rejected", "command", "waiting_approval", "running", "terminal",
                    "interrupted"} : Enqueue(e, k) \in Ops
        BY <1>3, <1>4, OpsMade
    <2>4. ActionOf(e) = "run" => StartTx(e) \in Ops
        BY <1>4, OpsMade DEF ActionOf
    <2>5. Reject(e) \in Seq(Ops) /\ Reject(e) # <<>>
        BY <2>1, <2>2, <2>3 DEF Reject
    <2>6. Handling(e) \in Seq(Ops) /\ Handling(e) # <<>>
        BY <2>1, <2>2, <2>3, <2>4, <2>5 DEF Handling
    <2>7. Synced(e) \in Seq(Ops)
        BY <2>1, <2>2, <2>3 DEF Synced
    <2>8. GivenUp(e) \in Seq(Ops) /\ <<Enqueue(e, "interrupted")>> \in Seq(Ops)
          /\ <<Update(e, "dispatched")>> \in Seq(Ops)
        BY <2>1, <2>2, <2>3 DEF GivenUp
    <2>9. GivenUp(e) \o <<Enqueue(e, "interrupted")>> \in Seq(Ops)
        BY <2>8, ConcatProperties
    <2>10. Recovered(e) \in Seq(Ops)
        BY <2>8, <2>9 DEF Recovered
    <2> QED BY <2>5, <2>6, <2>7, <2>8, <2>10
<1>5. ASSUME NEW k \in Kids
      PROVE  <<AdoptTx(k), Update(k, "dispatched")>> \in Seq(Ops)
    <2>1. AdoptTx(k) \in Ops
        BY <1>5, OpsMade
    <2>2. Update(k, "dispatched") \in Ops
        BY <1>1, <1>5, OpsMade DEF Events
    <2> QED BY <2>1, <2>2
<1> QED BY <1>4, <1>5


-----------------------------------------------------------------------------
\* The steps, by what the invariant reads of them.

Updated(t, e, s) ==
    /\ Pops(t) /\ todo[t][1] = Update(e, s) /\ Noted(e, s) /\ s # "absent" /\ Present(e)
    /\ s = "dispatched" => runs[e] # "none"
    /\ s = "terminal" => outbox[e]["terminal"].state # "absent"
    /\ s = "interrupted_before_dispatch" /\ e \in Msgs => runs[e] = "none"
    /\ UNCHANGED <<binding, outbox, order, runs, parent, desk, boot, tick, sender, landed,
                   retried, crashes>>

Withdrew ==
    /\ Withdraws
    /\ UNCHANGED <<binding, event, order, runs, parent, desk, boot, tick, sender, landed,
                   retried, crashes>>

Enqueued(t, e, k, s) ==
    /\ Pops(t) /\ todo[t][1] = Enqueue(e, k) /\ SetsNotice(e, k, s) /\ s # "absent" /\ Present(e)
    /\ s = outbox[e][k].state \/ outbox[e][k].state = "absent"
    /\ k = "terminal" => runs[e] \in {"ended", "interrupted"}
    /\ UNCHANGED <<binding, event, order, runs, parent, desk, boot, tick, sender, landed,
                   retried, crashes>>

\* Message m has a run, or is rejected.
Started(m) ==
    /\ Current(m) /\ event[m].state = "dispatching" /\ lock = "dispatch" /\ lock' = lock
    /\ todo["dispatch"] # <<>>
    /\ \/ Plans("dispatch", <<Update(m, "dispatched")>>) /\ runs'[m] # "none"
       \/ Plans("dispatch", Reject(m))
    /\ runs' \in [Events -> {"none", "active", "waiting", "ended", "interrupted"}]
    /\ \A e \in Events : e # m \/ runs[e] # "none" => runs'[e] = runs[e]
    /\ UNCHANGED <<binding, event, outbox, order, parent, desk, boot, tick, sender, landed,
                   retried, crashes>>

\* Thread t looks at something and plans what it does about it.
Planned(t, rest) ==
    /\ Plans(t, rest)
    /\ UNCHANGED <<binding, event, outbox, order, runs, parent, desk, boot, sender, landed,
                   retried, crashes>>

\* The first transaction of a thread is an update: the step and its grounds.
LEMMA UpdateMoves ==
    ASSUME ChannelInv, NEW t \in Threads, UpdateEvent(t)
    PROVE  \E e \in Events, s \in EventStates : Updated(t, e, s)
<1>1. RowsTyped /\ TodoTyped /\ TodoIsGrounded
    BY DEF ChannelInv
<1>2. /\ Pops(t) /\ todo[t][1].tx = "update" /\ todo[t][1] \in Ops
      /\ Noted(todo[t][1].event, todo[t][1].state)
    BY <1>1, UpdateShows
<1>3. PICK e \in Events, s \in EventStates \ {"absent"} : todo[t][1] = Update(e, s)
    BY <1>2, OpForms
<1>4. Grounds(t, 1)
    BY <1>1, <1>2 DEF TodoIsGrounded, Pops
<1>5. /\ Present(e)
      /\ s = "dispatched" => runs[e] # "none"
      /\ s = "terminal" => outbox[e]["terminal"].state # "absent"
      /\ s = "interrupted_before_dispatch" /\ e \in Msgs => runs[e] = "none"
    BY <1>3, <1>4 DEF Grounds, Update
<1>6. Noted(e, s)
    BY <1>2, <1>3 DEF Update
<1>7. UNCHANGED <<binding, outbox, order, runs, parent, desk, boot, tick, sender, landed,
                  retried, crashes>>
    BY DEF UpdateEvent, world, history
<1> QED BY <1>2, <1>3, <1>5, <1>6, <1>7 DEF Updated

\* The first transaction of a thread is a withdrawal.
LEMMA SuppressMoves ==
    ASSUME ChannelInv, NEW t \in Threads, SuppressNotices(t)
    PROVE  Withdrew /\ Pops(t) /\ todo[t][1].tx = "suppress"
<1>1. RowsTyped /\ TodoTyped
    BY DEF ChannelInv
<1>2. Pops(t) /\ todo[t][1].tx = "suppress" /\ Withdraws
    BY <1>1, SuppressShows
<1> QED BY <1>2 DEF SuppressNotices, Withdrew, world, history

\* The first transaction of a thread is a notice: the step and its grounds.
LEMMA EnqueueMoves ==
    ASSUME ChannelInv, NEW t \in Threads, EnqueueNotice(t)
    PROVE  \E e \in Events, k \in Kinds, s \in NoticeStates : Enqueued(t, e, k, s)
<1>1. RowsTyped /\ TodoTyped /\ TodoIsGrounded
    BY DEF ChannelInv
<1>2. Pops(t) /\ todo[t][1].tx = "enqueue" /\ todo[t][1] \in Ops
    BY <1>1, EnqueueShows
<1>3. PICK e \in Events, k \in Kinds : todo[t][1] = Enqueue(e, k)
    BY <1>2, OpForms
<1>4. todo[t][1].event = e /\ todo[t][1].kind = k
    BY <1>3 DEF Enqueue
<1>5. PICK s : /\ s \in {outbox[e][k].state, "pending", "suppressed"} /\ s # "absent"
               /\ s = outbox[e][k].state \/ outbox[e][k].state = "absent"
               /\ SetsNotice(e, k, s)
    BY <1>1, <1>4, EnqueueShows
<1>6. s \in NoticeStates
    <2>1. outbox[e][k] \in NoticeRow
        BY <1>1 DEF RowsTyped
    <2> QED BY <1>5, <2>1 DEF NoticeRow, NoticeStates
<1>7. Grounds(t, 1)
    BY <1>1, <1>2 DEF TodoIsGrounded, Pops
<1>8. Present(e) /\ (k = "terminal" => runs[e] \in {"ended", "interrupted"})
    BY <1>2, <1>3, <1>4, <1>7 DEF Grounds, AdoptTx, Enqueue
<1>9. UNCHANGED <<binding, event, order, runs, parent, desk, boot, tick, sender, landed,
                  retried, crashes>>
    BY DEF EnqueueNotice, world, history
<1> QED BY <1>2, <1>3, <1>5, <1>6, <1>8, <1>9 DEF Enqueued

\* The insertion of a run is for a message that is marked as dispatching under its binding.
LEMMA StartMoves ==
    ASSUME ChannelInv, StartRun
    PROVE  \E m \in Msgs : Started(m)
<1>1. RowsTyped /\ RunsTyped /\ TodoTyped /\ TodoIsGrounded
    BY DEF ChannelInv
<1>2. /\ todo["dispatch"] # <<>> /\ Head(todo["dispatch"]) = todo["dispatch"][1]
      /\ todo["dispatch"][1] \in Ops /\ todo["dispatch"][1].tx = "start"
      /\ Len(todo["dispatch"]) \in Nat \ {0}
    BY <1>1, FirstOp DEF StartRun, At, Threads
<1>3. PICK m \in Msgs : todo["dispatch"][1] = StartTx(m)
    BY <1>2, OpForms
<1>4. Head(todo["dispatch"]).event = m /\ m \in Events
    BY <1>2, <1>3 DEF StartTx, Events
<1>5. Grounds("dispatch", 1)
    BY <1>1, <1>2 DEF TodoIsGrounded, Threads
<1>6. Current(m) /\ event[m].state = "dispatching" /\ lock = "dispatch"
    BY <1>2, <1>3, <1>5 DEF Grounds, StartTx
<1>7. /\ <<Update(m, "dispatched")>> \in Seq(Ops) /\ Reject(m) \in Seq(Ops)
      /\ <<Update(m, "dispatched")>> # <<>> /\ Reject(m) # <<>>
    BY <1>4, HandlersTyped
<1>8. UNCHANGED <<binding, event, outbox, order, parent, desk, boot, tick, sender, landed,
                  retried, crashes>>
    BY DEF StartRun, history
<1>9. CASE /\ \E s \in {"active", "ended"} :
                 runs' = [runs EXCEPT ![m] = IF @ = "none" THEN s ELSE @]
           /\ Leaves("dispatch", <<Update(m, "dispatched")>>)
    <2>1. Plans("dispatch", <<Update(m, "dispatched")>>) /\ lock' = lock
        BY <1>1, <1>7, <1>9, PlansShow DEF Leaves, Threads
    <2>2. /\ runs' \in [Events -> {"none", "active", "waiting", "ended", "interrupted"}]
          /\ \A e \in Events : e # m \/ runs[e] # "none" => runs'[e] = runs[e]
          /\ runs'[m] # "none"
        BY <1>1, <1>4, <1>9 DEF RunsTyped
    <2> QED BY <1>2, <1>6, <1>8, <2>1, <2>2 DEF Started
<1>10. CASE Leaves("dispatch", Reject(m)) /\ runs' = runs
    <2>1. Plans("dispatch", Reject(m)) /\ lock' = lock
        BY <1>1, <1>7, <1>10, PlansShow DEF Leaves, Threads
    <2> QED BY <1>1, <1>2, <1>6, <1>8, <1>10, <2>1 DEF Started, RunsTyped
<1> QED BY <1>4, <1>9, <1>10 DEF StartRun


\* The run of k is adopted: its event is there, or comes in now.
Adopted(k) ==
    /\ Pops("dispatch") /\ todo["dispatch"][1] = AdoptTx(k)
    /\ Current(parent[k]) /\ runs[k] # "none"
    /\ \/ Present(k) /\ UNCHANGED <<event, outbox, order>>
       \/ ~Present(k) /\ Inserted(k)
    /\ UNCHANGED <<binding, runs, parent, desk, boot, tick, sender, landed, retried, crashes>>

\* Notice k of event e goes from one state to another, and nothing else does.
Moved(e, k, from, to) ==
    /\ outbox[e][k].state \in from /\ SetsNotice(e, k, to)
    /\ UNCHANGED <<binding, event, order, runs, parent, desk, boot, todo, lock, tick, landed,
                   crashes>>

AdoptionRefused ==
    /\ Planned("dispatch", <<>>) /\ todo["dispatch"] # <<>> /\ tick' = IdleTick
    /\ lock' = IF lock = "dispatch" THEN "free" ELSE lock

Claimed(e, k) ==
    /\ Moved(e, k, {"pending", "retry_wait"}, "sending") /\ Current(e)
    /\ boot = "up" /\ sender.pc = "idle" /\ retried' = retried
    /\ sender' = [pc |-> "send", event |-> e, kind |-> k, reply |-> None]

ClaimRefused == Withdrew /\ UNCHANGED <<todo, lock>>

\* The binding is replaced: what waits is invalidated, and the notices are withdrawn.
Replaced ==
    /\ binding' \in [rev : 1..MaxRevision, enabled : BOOLEAN] /\ binding'.rev = binding.rev + 1
    /\ event' \in [Events -> EventRow]
    /\ \A e \in Events :
          /\ event'[e].rev = event[e].rev
          /\ \/ event'[e] = event[e] /\ event[e].state \notin {"received", "dispatching"}
             \/ /\ event[e].state \in {"received", "dispatching"}
                /\ event'[e].state = "invalidated"
    /\ Withdraws

\* The adoption of a run inserts its event with the binding of its parent, or does nothing.
LEMMA AdoptMoves ==
    ASSUME ChannelInv, AdoptEvent
    PROVE  AdoptionRefused \/ \E k \in Kids : Adopted(k)
<1>1. RowsTyped /\ RunsTyped /\ TodoTyped /\ TodoIsGrounded
    BY DEF ChannelInv
<1>2. /\ todo["dispatch"] # <<>> /\ Head(todo["dispatch"]) = todo["dispatch"][1]
      /\ todo["dispatch"][1] \in Ops /\ todo["dispatch"][1].tx = "adopt"
      /\ Len(todo["dispatch"]) \in Nat \ {0}
    BY <1>1, FirstOp DEF AdoptEvent, At, Threads
<1>3. PICK k \in Kids : todo["dispatch"][1] = AdoptTx(k)
    BY <1>2, OpForms
<1>4. Head(todo["dispatch"]).event = k /\ k \in Events
    BY <1>2, <1>3 DEF AdoptTx, Events
<1>5. Grounds("dispatch", 1)
    BY <1>1, <1>2 DEF TodoIsGrounded, Threads
<1>6. runs[k] # "none"
    BY <1>2, <1>3, <1>5 DEF Grounds, AdoptTx
<1>7. UNCHANGED <<binding, runs, parent, desk, boot, sender, landed, retried, crashes>>
    BY DEF AdoptEvent, world, history
<1>8. CASE ~Current(parent[k])
    <2>1. Leaves("dispatch", <<>>) /\ tick' = IdleTick /\ UNCHANGED <<event, outbox, order>>
        BY <1>4, <1>8 DEF AdoptEvent
    <2>2. Plans("dispatch", <<>>)
        <3>1. <<>> \in Seq(Ops)
            OBVIOUS
        <3> QED BY <1>1, <2>1, <3>1, PlansShow DEF Leaves, Threads
    <2> QED BY <1>2, <1>7, <2>1, <2>2 DEF AdoptionRefused, Planned, Leaves
<1>9. CASE Current(parent[k])
    <2>1. /\ Leaves("dispatch", Tail(todo["dispatch"])) /\ UNCHANGED tick
          /\ IF event[k].state = "absent" THEN Insert(k) ELSE UNCHANGED <<event, outbox, order>>
        BY <1>4, <1>9 DEF AdoptEvent
    <2>2. Pops("dispatch")
        BY <1>1, <1>2, <2>1, LeavesTail DEF Threads
    <2>3. event[k].state = "absent" => Inserted(k)
        BY <1>1, <1>4, <2>1, InsertShows
    <2> QED BY <1>3, <1>6, <1>7, <1>9, <2>1, <2>2, <2>3 DEF Adopted, Present
<1> QED BY <1>8, <1>9

\* claim marks one notice as sending, or suppresses it when its binding is gone.
LEMMA ClaimMoves ==
    ASSUME ChannelInv, NEW e \in Events, NEW k \in Kinds, Claim(e, k)
    PROVE  ClaimRefused \/ Claimed(e, k)
<1>1. RowsTyped
    BY DEF ChannelInv
<1>2. UNCHANGED <<binding, event, order, runs, parent, desk, boot, todo, lock, tick, landed,
                  retried, crashes>>
    BY DEF Claim, world, history
<1>3. CASE Current(e)
    <2>1. outbox[e][k] \in NoticeRow
        BY <1>1 DEF RowsTyped
    <2> DEFINE row == [state |-> "sending", attempts |-> outbox[e][k].attempts + 1]
    <2>2. row \in NoticeRow /\ row.state = "sending"
        BY <2>1 DEF NoticeRow, NoticeStates
    <2>3. outbox' = [outbox EXCEPT ![e][k] = row]
        BY <1>3 DEF Claim
    <2> HIDE DEF row
    <2>4. SetsNotice(e, k, "sending")
        BY <1>1, <2>2, <2>3, NoticeSet
    <2> QED BY <1>2, <1>3, <2>4 DEF Claim, Claimed, Moved
<1>4. CASE ~Current(e)
    <2>1. outbox' = [outbox EXCEPT ![e] = Withdrawn(e, Kinds)] /\ sender' = sender
        BY <1>4 DEF Claim
    <2>2. Withdraws
        BY <1>1, <2>1, WithdrawnShows
    <2> QED BY <1>2, <2>1, <2>2 DEF ClaimRefused, Withdrew
<1> QED BY <1>3, <1>4

\* finish_delivery stores what the transport said of the notice that was being sent.
LEMMA FinishMoves ==
    ASSUME ChannelInv, FinishDelivery
    PROVE  \E s \in {sender.reply, "failed"} :
               /\ s = "failed" => sender.reply \in {"retry_wait", "failed"}
               /\ Moved(sender.event, sender.kind, {"sending"}, s)
               /\ sender' = IdleSender /\ retried' = retried
<1>1. RowsTyped /\ PartiesTyped /\ SenderIsMarked
    BY DEF ChannelInv
<1>2. PICK e \in Events, k \in Kinds : e = sender.event /\ k = sender.kind
    BY <1>1 DEF FinishDelivery, SenderIsMarked
<1>3. outbox[e][k].state = "sending" /\ outbox[e][k] \in NoticeRow
    BY <1>1, <1>2 DEF FinishDelivery, SenderIsMarked, RowsTyped
<1> DEFINE s == IF sender.reply = "retry_wait" /\ outbox[e][k].attempts >= MaxAttempts
                THEN "failed" ELSE sender.reply
           row == [outbox[e][k] EXCEPT !.state = s]
<1>4. s \in NoticeStates
    BY <1>1 DEF FinishDelivery, SenderIsMarked, PartiesTyped, SenderState, NoticeStates
<1>5. outbox' = [outbox EXCEPT ![e][k] = row]
    BY <1>2, <1>3 DEF FinishDelivery
<1>6. s \in {sender.reply, "failed"} /\ (s = "failed" => sender.reply \in {"retry_wait", "failed"})
    OBVIOUS
<1> HIDE DEF s
<1>7. row \in NoticeRow /\ row.state = s
    BY <1>3, <1>4 DEF NoticeRow
<1> HIDE DEF row
<1>8. SetsNotice(e, k, s)
    BY <1>1, <1>5, <1>7, NoticeSet
<1>9. /\ sender' = IdleSender /\ retried' = retried
      /\ UNCHANGED <<binding, event, order, runs, parent, desk, boot, todo, lock, tick, landed,
                     crashes>>
    BY DEF FinishDelivery, world, history
<1> QED BY <1>2, <1>3, <1>6, <1>8, <1>9 DEF Moved

\* A retry makes one unknown or failed notice pending, and is counted.
LEMMA RetryMoves ==
    ASSUME ChannelInv, NEW e \in Events, NEW k \in Kinds, Retry(e, k)
    PROVE  /\ Moved(e, k, {"unknown", "failed"}, "pending") /\ sender' = sender
           /\ retried' = [retried EXCEPT ![e][k] = @ + 1]
<1>1. RowsTyped
    BY DEF ChannelInv
<1>2. outbox[e][k] \in NoticeRow
    BY <1>1 DEF RowsTyped
<1> DEFINE row == [outbox[e][k] EXCEPT !.state = "pending"]
<1>3. "pending" \in NoticeStates
    BY DEF NoticeStates
<1>4. row \in NoticeRow /\ row.state = "pending"
    BY <1>2, <1>3 DEF NoticeRow
<1>5. outbox' = [outbox EXCEPT ![e][k] = row]
    BY DEF Retry
<1> HIDE DEF row
<1>6. SetsNotice(e, k, "pending")
    BY <1>1, <1>4, <1>5, NoticeSet
<1> QED BY <1>6 DEF Retry, Moved, world

\* configure replaces the binding and withdraws what was written for the old one.
LEMMA ReboundMoves ==
    ASSUME ChannelInv, binding.rev < MaxRevision, NEW enabled \in BOOLEAN, Rebound(enabled)
    PROVE  Replaced
<1>1. RowsTyped
    BY DEF ChannelInv
<1>2. /\ binding' \in [rev : 1..MaxRevision, enabled : BOOLEAN]
      /\ binding'.rev = binding.rev + 1
    BY <1>1, ChannelAssumption DEF Rebound, RowsTyped
<1>3. \A row \in EventRow : /\ [row EXCEPT !.state = "invalidated"] \in EventRow
                           /\ [row EXCEPT !.state = "invalidated"].state = "invalidated"
                           /\ [row EXCEPT !.state = "invalidated"].rev = row.rev
    <2>1. "invalidated" \in EventStates
        BY DEF EventStates
    <2> QED BY <2>1 DEF EventRow
<1>4. \A e \in Events : event[e] \in EventRow
    BY <1>1 DEF RowsTyped
<1>5. event' \in [Events -> EventRow]
    BY <1>3, <1>4 DEF Rebound
<1>6. \A e \in Events :
          /\ event'[e].rev = event[e].rev
          /\ \/ event'[e] = event[e] /\ event[e].state \notin {"received", "dispatching"}
             \/ /\ event[e].state \in {"received", "dispatching"}
                /\ event'[e].state = "invalidated"
    BY <1>3, <1>4 DEF Rebound
<1>7. Withdraws
    <2>1. \A e \in Events : outbox'[e] = Withdrawn(e, Kinds)
        BY DEF Rebound
    <2>2. \A row \in NoticeRow : /\ [row EXCEPT !.state = "suppressed"] \in NoticeRow
                                 /\ [row EXCEPT !.state = "suppressed"].state = "suppressed"
        <3>1. "suppressed" \in NoticeStates
            BY DEF NoticeStates
        <3> QED BY <3>1 DEF NoticeRow
    <2>3. \A e \in Events, k \in Kinds : outbox[e][k] \in NoticeRow
        BY <1>1 DEF RowsTyped
    <2>4. \A e \in Events : Withdrawn(e, Kinds) \in [Kinds -> NoticeRow]
        BY <2>2, <2>3 DEF Withdrawn
    <2>5. outbox' \in [Events -> [Kinds -> NoticeRow]]
        BY <2>4 DEF Rebound
    <2>6. \A e \in Events, k \in Kinds :
              \/ outbox'[e][k].state = outbox[e][k].state
              \/ outbox[e][k].state \in Withdrawable /\ outbox'[e][k].state = "suppressed"
        <3>1. \A e \in Events, k \in Kinds :
                  \/ Withdrawn(e, Kinds)[k].state = outbox[e][k].state
                  \/ /\ outbox[e][k].state \in Withdrawable
                     /\ Withdrawn(e, Kinds)[k].state = "suppressed"
            BY <2>2, <2>3 DEF Withdrawn
        <3> QED BY <2>1, <3>1
    <2> QED BY <2>5, <2>6 DEF Withdraws
<1> QED BY <1>2, <1>5, <1>6, <1>7 DEF Replaced

\* recover_delivery turns what was being sent into unknown, and nothing else.
LEMMA RecoveryMoves ==
    ASSUME ChannelInv, RecoverDelivery
    PROVE  /\ outbox' \in [Events -> [Kinds -> NoticeRow]]
           /\ \A e \in Events, k \in Kinds :
                 outbox'[e][k].state = IF outbox[e][k].state = "sending" THEN "unknown"
                                       ELSE outbox[e][k].state
<1>1. RowsTyped
    BY DEF ChannelInv
<1>2. \A row \in NoticeRow : /\ [row EXCEPT !.state = "unknown"] \in NoticeRow
                             /\ [row EXCEPT !.state = "unknown"].state = "unknown"
    <2>1. "unknown" \in NoticeStates
        BY DEF NoticeStates
    <2> QED BY <2>1 DEF NoticeRow
<1>3. \A e \in Events, k \in Kinds : outbox[e][k] \in NoticeRow
    BY <1>1 DEF RowsTyped
<1> QED BY <1>2, <1>3 DEF RecoverDelivery

\* Every step keeps the inductive invariant.
LEMMA ChannelStep == ChannelInv /\ [ChannelNext]_vars => ChannelInv'
<1> SUFFICES ASSUME RowsTyped, RunsTyped, PartiesTyped, TodoTyped, StartsAlone, LockIsUsed,
                    EventsAreWhole, TodoIsGrounded, BatchIsGrounded, RunsAreLinked,
                    SenderIsMarked, SendsAreCounted, EndIsAnnounced, NotExecutedNeverRuns,
                    [ChannelNext]_vars
             PROVE  ChannelInv'
    BY DEF ChannelInv
<1>a. ChannelInv
    BY DEF ChannelInv
<1>1. ASSUME NEW t \in Threads, UpdateEvent(t)
      PROVE  ChannelInv'
    <2>1. PICK e \in Events, s \in EventStates : Updated(t, e, s)
        BY <1>a, <1>1, UpdateMoves
    <2>2. PartiesTyped'
        BY <1>1, <2>1 DEF PartiesTyped, Updated, Pops, Threads
    <2>3. TodoTyped'
        BY <1>1, <2>1 DEF TodoTyped, Updated, Pops, Threads
    <2>4. StartsAlone'
        BY <1>1, <2>1 DEF StartsAlone, Updated, Pops, Threads
    <2>5. LockIsUsed'
        BY <1>1, <2>1 DEF LockIsUsed, Updated, Pops, Threads
    <2>6. TodoIsGrounded'
        <3>1. Keeps /\ KeepsBoot /\ KeepsBinding
            BY <1>1, <2>1, KindsAreNamed DEF Updated, Noted, Keeps, KeepsBoot, KeepsBinding,
                Present, Current
        <3>2. \A d \in Events :
                  /\ todo[t][1] = AdoptTx(d) => event'[d].state # "absent"
                  /\ todo[t][1] = Enqueue(d, "terminal") => outbox'[d]["terminal"].state # "absent"
                  /\ todo[t][1] = Update(d, "dispatching") => event'[d].state = "dispatching"
            BY <1>1, <2>1, KindsAreNamed DEF Updated, Noted, AdoptTx, Enqueue, Update
        <3> QED BY <1>1, <2>1, <3>1, <3>2, GroundedPops DEF Updated, Threads
    <2>7. BatchIsGrounded'
        BY <1>1, <2>1 DEF BatchIsGrounded, Updated, Noted, Present, PartiesTyped
    <2>8. RunsAreLinked'
        BY <1>1, <2>1 DEF RunsAreLinked, Updated, Noted, Events, Present
    <2>9. NotExecutedNeverRuns'
        BY <1>1, <2>1 DEF NotExecutedNeverRuns, Updated, Noted, Events
    <2>10. (SenderIsMarked /\ EventsAreWhole /\ RunsTyped)'
        BY <1>1, <2>1 DEF SenderIsMarked, Present, Current, Updated, Noted, EventsAreWhole, NoEvent,
            RunsTyped
    <2>11. (SendsAreCounted /\ EndIsAnnounced)'
        BY <1>1, <2>1 DEF SendsAreCounted, Updated, EndIsAnnounced, Noted, Present
    <2>12. RowsTyped' BY <1>1, <2>1 DEF RowsTyped, Updated, Noted, Present
    <2> QED BY <2>2, <2>3, <2>4, <2>5, <2>6, <2>7, <2>8, <2>9, <2>10, <2>11, <2>12 DEF ChannelInv
<1>2. ASSUME NEW t \in Threads, SuppressNotices(t)
      PROVE  ChannelInv'
    <2>1. Withdrew /\ Pops(t) /\ todo[t][1].tx = "suppress"
        BY <1>a, <1>2, SuppressMoves
    <2>2. EventsAreWhole'
        BY <1>2, <2>1 DEF EventsAreWhole, Withdrew, Withdraws, Withdrawable, Present
    <2>3. TodoIsGrounded'
        <3>1. Keeps /\ KeepsBoot /\ KeepsBinding
            BY <1>2, <2>1, KindsAreNamed DEF Withdrew, Withdraws, Withdrawable, Keeps, KeepsBoot,
                KeepsBinding, Present, Current
        <3>2. \A d \in Events :
                  /\ todo[t][1] = AdoptTx(d) => event'[d].state # "absent"
                  /\ todo[t][1] = Enqueue(d, "terminal") => outbox'[d]["terminal"].state # "absent"
                  /\ todo[t][1] = Update(d, "dispatching") => event'[d].state = "dispatching"
            BY <1>2, <2>1, KindsAreNamed DEF Withdrew, Withdraws, Withdrawable, AdoptTx, Enqueue,
                Update
        <3> QED BY <1>2, <2>1, <3>1, <3>2, GroundedPops
    <2>4. SenderIsMarked'
        BY <1>2, <2>1 DEF SenderIsMarked, Withdrew, Withdraws, Withdrawable, Present, Current
    <2>5. EndIsAnnounced'
        BY <1>2, <2>1, KindsAreNamed DEF EndIsAnnounced, Withdrew, Withdraws, Withdrawable
    <2>6. (StartsAlone /\ BatchIsGrounded /\ RunsAreLinked /\ RunsTyped /\ PartiesTyped)'
        BY <1>2, <2>1 DEF StartsAlone, IdleTick, IdleSender, Withdrew, Pops, Withdraws, Threads,
            Withdrawable, BatchIsGrounded, Present, RunsAreLinked, RunsTyped, PartiesTyped
    <2>7. (TodoTyped /\ NotExecutedNeverRuns /\ RowsTyped)'
        BY <1>2, <2>1 DEF TodoTyped, Withdrew, Pops, NotExecutedNeverRuns, RowsTyped, Withdraws,
            Threads, Withdrawable
    <2>8. LockIsUsed' BY <1>2, <2>1 DEF LockIsUsed, Withdrew, Pops, Withdraws, Threads, Withdrawable
    <2>9. SendsAreCounted'
        BY <1>2, <2>1 DEF SendsAreCounted, Withdrew, Pops, Withdraws, Threads, Withdrawable
    <2> QED BY <2>2, <2>3, <2>4, <2>5, <2>6, <2>7, <2>8, <2>9 DEF ChannelInv
<1>3. ASSUME NEW t \in Threads, EnqueueNotice(t)
      PROVE  ChannelInv'
    <2>1. PICK e \in Events, k \in Kinds, s \in NoticeStates : Enqueued(t, e, k, s)
        BY <1>a, <1>3, EnqueueMoves
    <2>2. PartiesTyped'
        BY <1>3, <2>1 DEF PartiesTyped, Enqueued, Pops, Threads
    <2>3. TodoTyped'
        BY <1>3, <2>1 DEF TodoTyped, Enqueued, Pops, Threads
    <2>4. StartsAlone'
        BY <1>3, <2>1 DEF StartsAlone, Enqueued, Pops, Threads
    <2>5. LockIsUsed'
        BY <1>3, <2>1 DEF LockIsUsed, Enqueued, Pops, Threads
    <2>6. TodoIsGrounded'
        <3>1. Keeps /\ KeepsBoot /\ KeepsBinding
            BY <1>3, <2>1, KindsAreNamed DEF Enqueued, SetsNotice, Keeps, KeepsBoot, KeepsBinding,
                Present, Current
        <3>2. \A d \in Events :
                  /\ todo[t][1] = AdoptTx(d) => event'[d].state # "absent"
                  /\ todo[t][1] = Enqueue(d, "terminal") => outbox'[d]["terminal"].state # "absent"
                  /\ todo[t][1] = Update(d, "dispatching") => event'[d].state = "dispatching"
            BY <1>3, <2>1, KindsAreNamed DEF Enqueued, SetsNotice, AdoptTx, Enqueue, Update
        <3> QED BY <1>3, <2>1, <3>1, <3>2, GroundedPops DEF Enqueued, Threads
    <2>7. EndIsAnnounced'
        BY <1>3, <2>1, KindsAreNamed DEF EndIsAnnounced, Enqueued, SetsNotice
    <2>8. (BatchIsGrounded /\ RunsAreLinked /\ EventsAreWhole)'
        BY <1>3, <2>1 DEF BatchIsGrounded, Present, Enqueued, SetsNotice, RunsAreLinked,
            EventsAreWhole, NoEvent
    <2>9. (RunsTyped /\ NotExecutedNeverRuns /\ RowsTyped)'
        BY <1>3, <2>1 DEF RunsTyped, Enqueued, NotExecutedNeverRuns, RowsTyped, SetsNotice, Present
    <2>10. (SendsAreCounted /\ SenderIsMarked)'
        BY <1>3, <2>1 DEF SendsAreCounted, Enqueued, SetsNotice, Present, SenderIsMarked, Current
    <2> QED BY <2>2, <2>3, <2>4, <2>5, <2>6, <2>7, <2>8, <2>9, <2>10 DEF ChannelInv
<1>4. ASSUME TickStarts
      PROVE  ChannelInv'
    <2>1. (RowsTyped /\ RunsTyped /\ PartiesTyped /\ TodoTyped /\ StartsAlone /\ LockIsUsed
           /\ EventsAreWhole /\ BatchIsGrounded /\ RunsAreLinked /\ SenderIsMarked
           /\ SendsAreCounted /\ EndIsAnnounced /\ NotExecutedNeverRuns)'
        BY <1>4 DEF RowsTyped, TickStarts, world, history, RunsTyped, PartiesTyped, Dispatching,
            InState, TodoTyped, StartsAlone, IdleTick, IdleSender, LockIsUsed, EventsAreWhole,
            Present, NoEvent, BatchIsGrounded, RunsAreLinked, SenderIsMarked, Current,
            SendsAreCounted, EndIsAnnounced, NotExecutedNeverRuns
    <2>2. TodoIsGrounded'
        <3>1. Keeps /\ KeepsBoot /\ KeepsStart /\ UNCHANGED todo
            BY <1>4 DEF TickStarts, world, history, Keeps, KeepsBoot, KeepsStart, KeepsBinding,
                Present, Current
        <3> QED BY <3>1, GroundedStays
    <2> QED BY <2>1, <2>2 DEF ChannelInv
<1>5. ASSUME StartRun
      PROVE  ChannelInv'
    <2>1. PICK m \in Msgs : Started(m)
        BY <1>a, <1>5, StartMoves
    <2>2. m \in Events /\ m \notin Kids
        BY ChannelAssumption DEF Events
    <2>3. TodoTyped'
        BY <1>5, <2>1, <2>2 DEF TodoTyped, Started, Plans, Threads, Reject
    <2>4. StartsAlone'
        BY <1>5, <2>1, <2>2 DEF StartsAlone, Started, Plans, Threads, Reject
    <2>5. LockIsUsed'
        BY <1>5, <2>1, <2>2 DEF LockIsUsed, Started, Plans, Threads, Reject
    <2>6. TodoIsGrounded'
        <3>1. Keeps /\ KeepsBoot
            BY <1>5, <2>1, <2>2 DEF Started, Keeps, KeepsBoot, Present, StartsAlone,
                NotExecutedNeverRuns
        <3>2. \A i \in 1..Len(todo'["dispatch"]) : Grounds("dispatch", i)'
            BY <2>1, <2>2, DispatchedHasGrounds, RejectHasGrounds DEF Started, Plans, Threads
        <3> QED BY <2>1, <3>1, <3>2, GroundedPlans DEF Started, Threads
    <2>7. RunsAreLinked'
        BY <1>5, <2>1, <2>2 DEF RunsAreLinked, Started, Events, Present
    <2>8. NotExecutedNeverRuns'
        BY <1>5, <2>1, <2>2 DEF NotExecutedNeverRuns, Started, Events
    <2>9. (SenderIsMarked /\ EventsAreWhole /\ BatchIsGrounded /\ RowsTyped /\ RunsTyped)'
        BY <1>5, <2>1, <2>2 DEF SenderIsMarked, Present, Current, Started, EventsAreWhole, NoEvent,
            BatchIsGrounded, RowsTyped, RunsTyped, PartiesTyped, TodoTyped, StartsAlone, LockIsUsed,
            TodoIsGrounded, RunsAreLinked, SendsAreCounted, EndIsAnnounced, NotExecutedNeverRuns,
            Threads, IdleTick, IdleSender, Grounds
    <2>10. (PartiesTyped /\ SendsAreCounted /\ EndIsAnnounced)'
        BY <1>5, <2>1, <2>2 DEF PartiesTyped, Started, SendsAreCounted, EndIsAnnounced
    <2> QED BY <2>3, <2>4, <2>5, <2>6, <2>7, <2>8, <2>9, <2>10 DEF ChannelInv
<1>6. ASSUME DispatchEnds
      PROVE  ChannelInv'
    <2>1. (RowsTyped /\ RunsTyped /\ TodoTyped /\ StartsAlone /\ LockIsUsed /\ EventsAreWhole
           /\ BatchIsGrounded /\ RunsAreLinked /\ SenderIsMarked /\ SendsAreCounted
           /\ EndIsAnnounced /\ NotExecutedNeverRuns)'
        BY <1>6 DEF RowsTyped, DispatchEnds, world, history, RunsTyped, TodoTyped, StartsAlone,
            IdleTick, IdleSender, Dispatching, LockIsUsed, EventsAreWhole, Present, NoEvent,
            BatchIsGrounded, RunsAreLinked, SenderIsMarked, Current, SendsAreCounted,
            EndIsAnnounced, NotExecutedNeverRuns
    <2>2. PartiesTyped'
        BY <1>6 DEF PartiesTyped, DispatchEnds, Events, world, history
    <2>3. TodoIsGrounded'
        <3>1. Keeps /\ KeepsBoot /\ KeepsStart /\ UNCHANGED todo
            BY <1>6 DEF DispatchEnds, world, history, Keeps, KeepsBoot, KeepsStart, KeepsBinding,
                Present, Current
        <3> QED BY <3>1, GroundedStays
    <2> QED BY <2>1, <2>2, <2>3 DEF ChannelInv
<1>7. ASSUME AdoptionRefused
      PROVE  ChannelInv'
    <2>1. (RowsTyped /\ RunsTyped /\ PartiesTyped /\ TodoTyped /\ StartsAlone /\ LockIsUsed
           /\ EventsAreWhole /\ BatchIsGrounded /\ RunsAreLinked /\ SenderIsMarked
           /\ SendsAreCounted /\ EndIsAnnounced /\ NotExecutedNeverRuns)'
        BY <1>7 DEF RowsTyped, AdoptionRefused, Planned, Plans, RunsTyped, PartiesTyped, IdleTick,
            Threads, TodoTyped, StartsAlone, IdleSender, LockIsUsed, EventsAreWhole, Present,
            NoEvent, BatchIsGrounded, RunsAreLinked, SenderIsMarked, Current, SendsAreCounted,
            EndIsAnnounced, NotExecutedNeverRuns
    <2>2. TodoIsGrounded'
        <3>1. Keeps /\ KeepsBoot
            BY <1>7, KindsAreNamed DEF AdoptionRefused, Planned, Plans, Keeps, KeepsBoot,
                KeepsStart, KeepsBinding, Present, Current, SetsNotice, StartsAlone
        <3>2. \A i \in 1..Len(todo'["dispatch"]) : Grounds("dispatch", i)'
            BY <1>7 DEF AdoptionRefused, Planned, Plans
        <3> QED BY <1>7, <3>1, <3>2, GroundedPlans DEF AdoptionRefused, Planned, Threads
    <2> QED BY <2>1, <2>2 DEF ChannelInv
<1>8. ASSUME NEW k \in Kids, Adopted(k)
      PROVE  ChannelInv'
    <2>1. k \in Events
        BY DEF Events
    <2>2. /\ \A d \in Events \ {k} : event'[d] = event[d]
          /\ IF Present(k) THEN event'[k] = event[k]
             ELSE event'[k].state = "received" /\ event'[k].rev = binding.rev
        BY <1>8 DEF Adopted, Inserted
    <2>3. \A d \in Events, j \in Kinds : outbox'[d][j] = outbox[d][j]
              \/ (d = k /\ j = "received" /\ ~Present(k) /\ outbox'[d][j].state = "pending")
        <3>1. CASE Present(k) /\ UNCHANGED outbox
            BY <3>1
        <3>2. CASE ~Present(k) /\ SetsNotice(k, "received", "pending")
            BY <2>1, <3>2 DEF SetsNotice
        <3> QED BY <1>8, <3>1, <3>2 DEF Adopted, Inserted
    <2>4. PartiesTyped'
        BY <1>8, <2>1, <2>2, <2>3 DEF PartiesTyped, Adopted, Pops, Threads
    <2>5. TodoTyped'
        BY <1>8, <2>1, <2>2, <2>3 DEF TodoTyped, Adopted, Pops, Threads
    <2>6. StartsAlone'
        BY <1>8, <2>1, <2>2, <2>3 DEF StartsAlone, Adopted, Pops, Threads
    <2>7. LockIsUsed'
        BY <1>8, <2>1, <2>2, <2>3 DEF LockIsUsed, Adopted, Pops, Threads
    <2>8. EventsAreWhole'
        BY <1>8, <2>1, <2>2, <2>3 DEF EventsAreWhole, Adopted, Present, RowsTyped
    <2>9. TodoIsGrounded'
        <3>1. Keeps /\ KeepsBoot /\ KeepsBinding
            BY <1>8, <2>1, <2>2, <2>3, KindsAreNamed DEF Adopted, Keeps, KeepsBoot, KeepsBinding,
                Present, Current
        <3>2. \A d \in Events :
                  /\ todo["dispatch"][1] = AdoptTx(d) => event'[d].state # "absent"
                  /\ todo["dispatch"][1] = Enqueue(d, "terminal")
                        => outbox'[d]["terminal"].state # "absent"
                  /\ todo["dispatch"][1] = Update(d, "dispatching")
                        => event'[d].state = "dispatching"
            BY <1>8, <2>1, <2>2, <2>3, KindsAreNamed DEF Adopted, AdoptTx, Enqueue, Update, Present
        <3> QED BY <1>8, <2>1, <2>2, <2>3, <3>1, <3>2, GroundedPops DEF Adopted, Threads
    <2>10. BatchIsGrounded'
        BY <1>8, <2>1, <2>2, <2>3 DEF BatchIsGrounded, Adopted, Present, PartiesTyped
    <2>11. RunsAreLinked'
        <3>1. \A d \in Events : Present(d) => event'[d] = event[d] /\ event'[d].state # "absent"
            BY <1>8, <2>1, <2>2, <2>3 DEF Present
        <3>2. Present(parent[k])
            BY <1>8, <2>1, <2>2, <2>3 DEF Adopted, Current, EventsAreWhole, NoEvent, RowsTyped,
                RunsAreLinked
        <3>3. parent[k] # k \/ Present(k)
            BY <3>2
        <3>4. event'[k].rev = event'[parent[k]].rev /\ runs[k] # "none" /\ parent[k] \in Events
            BY <1>8, <2>1, <2>2, <2>3, <3>1, <3>2 DEF Adopted, RunsAreLinked, Present, Current
        <3>5. \A d \in Events : event'[d].state = "dispatched" => event[d].state = "dispatched"
            BY <1>8, <2>1, <2>2, <2>3 DEF Adopted
        <3> QED BY <1>8, <2>1, <2>2, <2>3, <3>1, <3>2, <3>3, <3>4, <3>5 DEF RunsAreLinked, Adopted,
            Present, Events
    <2>12. SendsAreCounted'
        BY <1>8, <2>1, <2>2, <2>3, KindsAreNamed DEF SendsAreCounted, Adopted, Present,
            EventsAreWhole
    <2>13. EndIsAnnounced'
        BY <1>8, <2>1, <2>2, <2>3, KindsAreNamed DEF EndIsAnnounced, Adopted
    <2>14. NotExecutedNeverRuns'
        BY <1>8, <2>1, <2>2, <2>3, ChannelAssumption DEF NotExecutedNeverRuns, Adopted, Events
    <2>15. (RunsTyped /\ RowsTyped)'
        BY <1>8, <2>1, <2>2, <2>3 DEF RunsTyped, Adopted, RowsTyped, Current, Present, Inserted,
            SetsNotice
    <2>16. SenderIsMarked'
        BY <1>8, <2>1, <2>2, <2>3 DEF SenderIsMarked, Present, Current, Adopted, Inserted,
            SetsNotice
    <2> QED BY <2>4, <2>5, <2>6, <2>7, <2>8, <2>9, <2>10, <2>11, <2>12, <2>13, <2>14, <2>15, <2>16
        DEF ChannelInv
<1>9. ASSUME AdoptEnds
      PROVE  ChannelInv'
    <2>1. (RowsTyped /\ RunsTyped /\ PartiesTyped /\ TodoTyped /\ StartsAlone /\ LockIsUsed
           /\ EventsAreWhole /\ RunsAreLinked /\ SenderIsMarked /\ SendsAreCounted
           /\ EndIsAnnounced /\ NotExecutedNeverRuns)'
        BY <1>9 DEF RowsTyped, AdoptEnds, world, history, RunsTyped, PartiesTyped, Dispatching,
            InState, TodoTyped, StartsAlone, IdleTick, IdleSender, LockIsUsed, EventsAreWhole,
            Present, NoEvent, RunsAreLinked, SenderIsMarked, Current, SendsAreCounted,
            EndIsAnnounced, NotExecutedNeverRuns
    <2>2. TodoIsGrounded'
        <3>1. Keeps /\ KeepsBoot /\ KeepsStart /\ UNCHANGED todo
            BY <1>9 DEF AdoptEnds, world, history, Keeps, KeepsBoot, KeepsStart, KeepsBinding,
                Present, Current
        <3> QED BY <3>1, GroundedStays
    <2>3. BatchIsGrounded'
        BY <1>9 DEF BatchIsGrounded, Present, AdoptEnds, world, history, Dispatching, InState,
            RowsTyped, RunsTyped, PartiesTyped, TodoTyped, StartsAlone, LockIsUsed, EventsAreWhole,
            TodoIsGrounded, RunsAreLinked, SenderIsMarked, SendsAreCounted, EndIsAnnounced,
            NotExecutedNeverRuns, Threads, IdleTick, IdleSender, NoEvent, Grounds, Current
    <2> QED BY <2>1, <2>2, <2>3 DEF ChannelInv
<1>10. ASSUME TickEnds
      PROVE  ChannelInv'
    <2>1. (RowsTyped /\ RunsTyped /\ PartiesTyped /\ TodoTyped /\ StartsAlone /\ LockIsUsed
           /\ EventsAreWhole /\ BatchIsGrounded /\ RunsAreLinked /\ SenderIsMarked
           /\ SendsAreCounted /\ EndIsAnnounced /\ NotExecutedNeverRuns)'
        BY <1>10 DEF RowsTyped, TickEnds, world, history, RunsTyped, PartiesTyped, Dispatching,
            IdleTick, TodoTyped, StartsAlone, LockIsUsed, EventsAreWhole, Present, NoEvent,
            BatchIsGrounded, RunsAreLinked, SenderIsMarked, Current, SendsAreCounted,
            EndIsAnnounced, NotExecutedNeverRuns
    <2>2. TodoIsGrounded'
        <3>1. Keeps /\ KeepsBoot /\ KeepsStart /\ UNCHANGED todo
            BY <1>10 DEF TickEnds, world, history, Keeps, KeepsBoot, KeepsStart, KeepsBinding,
                Present, Current
        <3> QED BY <3>1, GroundedStays
    <2> QED BY <2>1, <2>2 DEF ChannelInv
<1>11. ASSUME NEW e \in Events, Dispatch(e)
      PROVE  ChannelInv'
    <2>1. Plans("dispatch", Handling(e)) /\ Handling(e) # <<>>
        BY <1>11, HandlersTyped, PlansShow DEF Dispatch, Threads
    <2>2. e \in tick.batch
        BY <1>11 DEF Dispatch, Turn
    <2>3. TodoIsGrounded'
        <3>1. Keeps /\ KeepsBoot
            BY <1>11, <2>1, <2>2, KindsAreNamed DEF Dispatch, Plans, world, history, Keeps,
                KeepsBoot, KeepsStart, KeepsBinding, Present, Current, SetsNotice, StartsAlone
        <3>2. \A i \in 1..Len(todo'["dispatch"]) : Grounds("dispatch", i)'
            BY <1>11, <2>1, <2>2, HandlingHasGrounds DEF Dispatch, Dispatching, BatchIsGrounded,
                Present, Current
        <3> QED BY <1>11, <2>1, <2>2, <3>1, <3>2, GroundedPlans DEF Threads
    <2>4. (SendsAreCounted /\ EndIsAnnounced /\ NotExecutedNeverRuns /\ StartsAlone
           /\ SenderIsMarked)'
        BY <1>11, <2>1, <2>2 DEF SendsAreCounted, Dispatch, Plans, world, history, EndIsAnnounced,
            NotExecutedNeverRuns, StartsAlone, IdleTick, IdleSender, Dispatching, Threads,
            SenderIsMarked, Present, Current
    <2>5. (BatchIsGrounded /\ RunsAreLinked /\ EventsAreWhole)'
        BY <1>11, <2>1, <2>2 DEF BatchIsGrounded, Present, Dispatch, Plans, world, history,
            Dispatching, Threads, RunsAreLinked, EventsAreWhole, NoEvent
    <2>6. (TodoTyped /\ LockIsUsed)'
        BY <1>11, <2>1, <2>2 DEF TodoTyped, Dispatch, Plans, world, history, LockIsUsed
    <2>7. (RowsTyped /\ RunsTyped)'
        BY <1>11, <2>1, <2>2 DEF RowsTyped, Dispatch, Plans, world, history, RunsTyped
    <2>8. PartiesTyped' BY <1>11, <2>1, <2>2 DEF PartiesTyped, Dispatch, Plans, world, history
    <2> QED BY <2>3, <2>4, <2>5, <2>6, <2>7, <2>8 DEF ChannelInv
<1>12. ASSUME NEW e \in Events, DispatchRefused(e)
      PROVE  ChannelInv'
    <2>1. Plans("dispatch", Reject(e)) /\ Reject(e) # <<>>
        BY <1>12, HandlersTyped, PlansShow DEF DispatchRefused, Threads
    <2>2. e \in tick.batch
        BY <1>12 DEF DispatchRefused, Turn
    <2>3. TodoIsGrounded'
        <3>1. Keeps /\ KeepsBoot
            BY <1>12, <2>1, <2>2, KindsAreNamed DEF DispatchRefused, Plans, world, history, Keeps,
                KeepsBoot, KeepsStart, KeepsBinding, Present, Current, SetsNotice, StartsAlone
        <3>2. \A i \in 1..Len(todo'["dispatch"]) : Grounds("dispatch", i)'
            BY <1>12, <2>1, <2>2, RejectHasGrounds DEF DispatchRefused, Dispatching,
                BatchIsGrounded, Present, Threads
        <3> QED BY <1>12, <2>1, <2>2, <3>1, <3>2, GroundedPlans DEF Threads
    <2>4. (SendsAreCounted /\ EndIsAnnounced /\ NotExecutedNeverRuns /\ StartsAlone
           /\ SenderIsMarked)'
        BY <1>12, <2>1, <2>2 DEF SendsAreCounted, DispatchRefused, Plans, world, history,
            EndIsAnnounced, NotExecutedNeverRuns, StartsAlone, IdleTick, IdleSender, Dispatching,
            Current, Threads, SenderIsMarked, Present
    <2>5. (BatchIsGrounded /\ RunsAreLinked /\ EventsAreWhole)'
        BY <1>12, <2>1, <2>2 DEF BatchIsGrounded, Present, DispatchRefused, Plans, world, history,
            Dispatching, Current, Threads, RunsAreLinked, EventsAreWhole, NoEvent
    <2>6. (TodoTyped /\ LockIsUsed)'
        BY <1>12, <2>1, <2>2 DEF TodoTyped, DispatchRefused, Plans, world, history, LockIsUsed
    <2>7. (RowsTyped /\ RunsTyped)'
        BY <1>12, <2>1, <2>2 DEF RowsTyped, DispatchRefused, Plans, world, history, RunsTyped
    <2>8. PartiesTyped'
        BY <1>12, <2>1, <2>2 DEF PartiesTyped, DispatchRefused, Plans, world, history
    <2> QED BY <2>3, <2>4, <2>5, <2>6, <2>7, <2>8 DEF ChannelInv
<1>13. ASSUME NEW e \in Events, Sync(e)
      PROVE  ChannelInv'
    <2>1. Plans("dispatch", Synced(e))
        BY <1>13, HandlersTyped, PlansShow DEF Sync, Threads
    <2>2. e \in tick.batch
        BY <1>13 DEF Sync, Turn
    <2>3. TodoIsGrounded'
        <3>1. Keeps /\ KeepsBoot
            BY <1>13, <2>1, <2>2, KindsAreNamed DEF Sync, Plans, world, history, Keeps, KeepsBoot,
                KeepsStart, KeepsBinding, Present, Current, SetsNotice, StartsAlone
        <3>2. \A i \in 1..Len(todo'["dispatch"]) : Grounds("dispatch", i)'
            BY <1>13, <2>1, <2>2, SyncedHasGrounds DEF Sync, Dispatching, BatchIsGrounded, Present,
                world
        <3> QED BY <1>13, <2>1, <2>2, <3>1, <3>2, GroundedPlans DEF Threads
    <2>4. (StartsAlone /\ SenderIsMarked /\ EventsAreWhole /\ BatchIsGrounded /\ RunsAreLinked)'
        BY <1>13, <2>1, <2>2 DEF StartsAlone, IdleTick, IdleSender, Sync, Plans, world, history,
            Dispatching, Threads, SenderIsMarked, Present, Current, EventsAreWhole, NoEvent,
            BatchIsGrounded, RunsAreLinked
    <2>5. (SendsAreCounted /\ EndIsAnnounced /\ NotExecutedNeverRuns)'
        BY <1>13, <2>1, <2>2 DEF SendsAreCounted, Sync, Plans, world, history, EndIsAnnounced,
            NotExecutedNeverRuns
    <2>6. (TodoTyped /\ LockIsUsed)'
        BY <1>13, <2>1, <2>2 DEF TodoTyped, Sync, Plans, world, history, LockIsUsed
    <2>7. (RowsTyped /\ RunsTyped)'
        BY <1>13, <2>1, <2>2 DEF RowsTyped, Sync, Plans, world, history, RunsTyped
    <2>8. PartiesTyped' BY <1>13, <2>1, <2>2 DEF PartiesTyped, Sync, Plans, world, history
    <2> QED BY <2>3, <2>4, <2>5, <2>6, <2>7, <2>8 DEF ChannelInv
<1>14. ASSUME NEW k \in Kids, Adopt(k)
      PROVE  ChannelInv'
    <2>1. PICK rest \in {<<AdoptTx(k), Update(k, "dispatched")>>, <<>>} : Plans("dispatch", rest)
        <3>1. <<>> \in Seq(Ops)
            OBVIOUS
        <3> QED BY <1>14, <3>1, HandlersTyped, PlansShow DEF Adopt, Threads
    <2>2. TodoIsGrounded'
        <3>1. Keeps /\ KeepsBoot
            BY <1>14, <2>1, KindsAreNamed DEF Adopt, Plans, world, history, Keeps, KeepsBoot,
                KeepsStart, KeepsBinding, Present, Current, SetsNotice, StartsAlone
        <3>2. \A i \in 1..Len(todo'["dispatch"]) : Grounds("dispatch", i)'
            BY <1>14, <2>1, AdoptionHasGrounds DEF Adopt, Dispatching, BatchIsGrounded, Plans, world
        <3> QED BY <1>14, <2>1, <3>1, <3>2, GroundedPlans DEF Threads
    <2>3. (EndIsAnnounced /\ NotExecutedNeverRuns /\ LockIsUsed /\ StartsAlone /\ BatchIsGrounded)'
        BY <1>14, <2>1 DEF EndIsAnnounced, Adopt, Plans, world, history, NotExecutedNeverRuns,
            LockIsUsed, Dispatching, Current, Threads, StartsAlone, IdleTick, IdleSender,
            BatchIsGrounded, Present
    <2>4. (RunsAreLinked /\ SenderIsMarked /\ EventsAreWhole)'
        BY <1>14, <2>1 DEF RunsAreLinked, Present, Adopt, Plans, world, history, Dispatching,
            Current, Threads, SenderIsMarked, EventsAreWhole, NoEvent
    <2>5. (TodoTyped /\ SendsAreCounted)'
        BY <1>14, <2>1 DEF TodoTyped, Adopt, Plans, world, history, SendsAreCounted
    <2>6. (RowsTyped /\ RunsTyped)'
        BY <1>14, <2>1 DEF RowsTyped, Adopt, Plans, world, history, RunsTyped
    <2>7. PartiesTyped' BY <1>14, <2>1 DEF PartiesTyped, Adopt, Plans, world, history
    <2> QED BY <2>2, <2>3, <2>4, <2>5, <2>6, <2>7 DEF ChannelInv
<1>15. ASSUME ClaimRefused
      PROVE  ChannelInv'
    <2>1. TodoIsGrounded'
        <3>1. Keeps /\ KeepsBoot /\ KeepsStart /\ UNCHANGED todo
            BY <1>15, KindsAreNamed DEF ClaimRefused, Withdrew, Keeps, KeepsBoot, KeepsStart,
                KeepsBinding, Present, Withdraws, Withdrawable, Current
        <3> QED BY <3>1, GroundedStays
    <2>2. EndIsAnnounced'
        BY <1>15, KindsAreNamed DEF EndIsAnnounced, Withdrew, Withdraws, Withdrawable, ClaimRefused
    <2>3. (RunsTyped /\ PartiesTyped /\ TodoTyped /\ StartsAlone /\ LockIsUsed)'
        BY <1>15 DEF RunsTyped, ClaimRefused, Withdrew, PartiesTyped, TodoTyped, StartsAlone,
            LockIsUsed
    <2>4. (SenderIsMarked /\ EventsAreWhole)'
        BY <1>15 DEF SenderIsMarked, Present, Current, ClaimRefused, Withdrew, Withdraws,
            Withdrawable, EventsAreWhole, NoEvent
    <2>5. (BatchIsGrounded /\ RunsAreLinked)'
        BY <1>15 DEF BatchIsGrounded, Present, ClaimRefused, Withdrew, Withdraws, Withdrawable,
            RunsAreLinked
    <2>6. (NotExecutedNeverRuns /\ RowsTyped)'
        BY <1>15 DEF NotExecutedNeverRuns, ClaimRefused, Withdrew, RowsTyped, Withdraws,
            Withdrawable
    <2>7. SendsAreCounted'
        BY <1>15 DEF SendsAreCounted, ClaimRefused, Withdrew, Withdraws, Withdrawable
    <2> QED BY <2>1, <2>2, <2>3, <2>4, <2>5, <2>6, <2>7 DEF ChannelInv
<1>16. ASSUME NEW e \in Events, NEW k \in Kinds, Claimed(e, k)
      PROVE  ChannelInv'
    <2>1. PartiesTyped'
        BY <1>16 DEF PartiesTyped, Claimed, Moved, SenderState
    <2>2. TodoIsGrounded'
        <3>1. Keeps /\ KeepsBoot /\ KeepsStart /\ UNCHANGED todo
            BY <1>16, KindsAreNamed DEF Claimed, Moved, SetsNotice, Keeps, KeepsBoot, KeepsStart,
                KeepsBinding, Present, Current
        <3> QED BY <3>1, GroundedStays
    <2>3. EndIsAnnounced'
        BY <1>16, KindsAreNamed DEF EndIsAnnounced, Claimed, Moved, SetsNotice
    <2>4. (RowsTyped /\ RunsTyped /\ TodoTyped /\ StartsAlone /\ LockIsUsed)'
        BY <1>16 DEF RowsTyped, Claimed, Moved, SetsNotice, RunsTyped, TodoTyped, StartsAlone,
            LockIsUsed
    <2>5. (SendsAreCounted /\ NotExecutedNeverRuns /\ BatchIsGrounded)'
        BY <1>16 DEF SendsAreCounted, Claimed, Moved, SetsNotice, NotExecutedNeverRuns,
            BatchIsGrounded, Present, Current
    <2>6. (RunsAreLinked /\ SenderIsMarked)'
        BY <1>16 DEF RunsAreLinked, Present, Claimed, Moved, SetsNotice, Current, SenderIsMarked,
            RowsTyped, RunsTyped, PartiesTyped, TodoTyped, StartsAlone, LockIsUsed, EventsAreWhole,
            TodoIsGrounded, BatchIsGrounded, SendsAreCounted, EndIsAnnounced, NotExecutedNeverRuns,
            Threads, IdleTick, IdleSender, NoEvent, Grounds
    <2>7. EventsAreWhole'
        BY <1>16 DEF EventsAreWhole, Present, NoEvent, Claimed, Moved, SetsNotice, Current
    <2> QED BY <2>1, <2>2, <2>3, <2>4, <2>5, <2>6, <2>7 DEF ChannelInv
<1>17. ASSUME Send
      PROVE  ChannelInv'
    <2>1. PICK e \in Events, k \in Kinds :
              /\ sender.event = e /\ sender.kind = k /\ sender \in SenderState
              /\ outbox[e][k].state = "sending" /\ Present(e)
        BY <1>17 DEF Send, PartiesTyped, SenderIsMarked
    <2>2. PICK took \in {0, 1}, reply \in {"accepted", "unknown", "retry_wait", "failed"} :
              /\ landed' = [landed EXCEPT ![e][k] = @ + took]
              /\ sender' = [sender EXCEPT !.pc = "finish", !.reply = reply]
              /\ took = 1 => reply \in {"accepted", "unknown"}
        BY <1>17, <2>1 DEF Send
    <2>3. /\ sender' \in SenderState /\ sender'.pc = "finish" /\ sender'.reply = reply
          /\ sender'.event = e /\ sender'.kind = k
        BY <2>1, <2>2 DEF SenderState
    <2>4. /\ landed' \in [Events -> [Kinds -> Nat]] /\ landed'[e][k] = landed[e][k] + took
          /\ \A d \in Events, j \in Kinds : d # e \/ j # k => landed'[d][j] = landed[d][j]
        BY <2>2 DEF RowsTyped
    <2>5. (RunsTyped /\ TodoTyped /\ StartsAlone /\ LockIsUsed /\ EventsAreWhole /\ BatchIsGrounded
           /\ RunsAreLinked /\ EndIsAnnounced /\ NotExecutedNeverRuns)'
        BY <1>17, <2>1, <2>2, <2>3, <2>4 DEF RunsTyped, Send, world, history, TodoTyped,
            StartsAlone, IdleTick, IdleSender, LockIsUsed, EventsAreWhole, Present, NoEvent,
            BatchIsGrounded, RunsAreLinked, EndIsAnnounced, NotExecutedNeverRuns
    <2>6. RowsTyped'
        BY <1>17, <2>1, <2>2, <2>3, <2>4 DEF RowsTyped, Send, history
    <2>7. PartiesTyped'
        BY <1>17, <2>1, <2>2, <2>3, <2>4 DEF PartiesTyped, Send
    <2>8. TodoIsGrounded'
        <3>1. Keeps /\ KeepsBoot /\ KeepsStart /\ UNCHANGED todo
            BY <1>17, <2>1, <2>2, <2>3, <2>4 DEF Send, world, history, Keeps, KeepsBoot, KeepsStart,
                KeepsBinding, Present, Current
        <3> QED BY <3>1, GroundedStays
    <2>9. SenderIsMarked'
        BY <1>17, <2>1, <2>2, <2>3, <2>4 DEF SenderIsMarked, Send, Present, world
    <2>10. SendsAreCounted'
        <3>1. landed[e][k] <= retried[e][k] /\ landed[e][k] \in Nat /\ retried[e][k] \in Nat
            BY <1>17, <2>1, <2>2, <2>3, <2>4 DEF Send, SendsAreCounted, RowsTyped
        <3>2. retried' = retried /\ outbox' = outbox /\ sender.pc = "send"
            BY <1>17, <2>1, <2>2, <2>3, <2>4 DEF Send
        <3>3. landed'[e][k] <= 1 + retried[e][k]
              /\ (reply \in {"retry_wait", "failed"} => landed'[e][k] <= retried[e][k])
            BY <1>17, <2>1, <2>2, <2>3, <2>4, <3>1
        <3>4. \A d \in Events, j \in Kinds : (d # e \/ j # k) =>
                  landed'[d][j] = landed[d][j] /\ ~(sender'.event = d /\ sender'.kind = j)
            BY <1>17, <2>1, <2>2, <2>3, <2>4
        <3>5. outbox[e][k].state \notin {"absent", "pending", "retry_wait", "failed"}
            BY <1>17, <2>1, <2>2, <2>3, <2>4
        <3> QED BY <1>17, <2>1, <2>2, <2>3, <2>4, <3>1, <3>2, <3>3, <3>4, <3>5 DEF SendsAreCounted
    <2> QED BY <2>5, <2>6, <2>7, <2>8, <2>9, <2>10 DEF ChannelInv
<1>18. ASSUME FinishDelivery
      PROVE  ChannelInv'
    <2>1. PICK s \in {sender.reply, "failed"} :
              /\ s = "failed" => sender.reply \in {"retry_wait", "failed"}
              /\ Moved(sender.event, sender.kind, {"sending"}, s)
              /\ sender' = IdleSender /\ retried' = retried
        BY <1>a, <1>18, FinishMoves
    <2>2. sender.pc = "finish" /\ s \in {"accepted", "unknown", "retry_wait", "failed"}
        BY <1>18, <2>1 DEF FinishDelivery, SenderIsMarked
    <2>3. PICK e \in Events, k \in Kinds :
              /\ sender.event = e /\ sender.kind = k /\ sender \in SenderState
              /\ outbox[e][k].state = "sending" /\ Present(e)
        BY <1>18 DEF FinishDelivery, PartiesTyped, SenderIsMarked
    <2>4. PartiesTyped'
        BY <1>18, <2>1, <2>2, <2>3 DEF PartiesTyped, Moved, IdleSender, SenderState
    <2>5. TodoIsGrounded'
        <3>1. Keeps /\ KeepsBoot /\ KeepsStart /\ UNCHANGED todo
            BY <1>18, <2>1, <2>2, <2>3, KindsAreNamed DEF Moved, SetsNotice, Keeps, KeepsBoot,
                KeepsStart, KeepsBinding, Present, Current
        <3> QED BY <3>1, GroundedStays
    <2>6. SendsAreCounted'
        BY <1>18, <2>1, <2>2, <2>3 DEF SendsAreCounted, Moved, SetsNotice, RowsTyped, IdleSender
    <2>7. EndIsAnnounced'
        BY <1>18, <2>1, <2>2, <2>3, KindsAreNamed DEF EndIsAnnounced, Moved, SetsNotice
    <2>8. (RowsTyped /\ RunsTyped /\ TodoTyped /\ StartsAlone /\ LockIsUsed)'
        BY <1>18, <2>1, <2>2, <2>3 DEF RowsTyped, Moved, SetsNotice, RunsTyped, TodoTyped,
            StartsAlone, LockIsUsed
    <2>9. (NotExecutedNeverRuns /\ SenderIsMarked /\ BatchIsGrounded)'
        BY <1>18, <2>1, <2>2, <2>3 DEF NotExecutedNeverRuns, Moved, SetsNotice, SenderIsMarked,
            Present, Current, RowsTyped, RunsTyped, PartiesTyped, TodoTyped, StartsAlone,
            LockIsUsed, EventsAreWhole, TodoIsGrounded, BatchIsGrounded, RunsAreLinked,
            SendsAreCounted, EndIsAnnounced, Threads, IdleTick, IdleSender, NoEvent, Grounds
    <2>10. (RunsAreLinked /\ EventsAreWhole)'
        BY <1>18, <2>1, <2>2, <2>3 DEF RunsAreLinked, Present, Moved, SetsNotice, EventsAreWhole,
            NoEvent
    <2> QED BY <2>4, <2>5, <2>6, <2>7, <2>8, <2>9, <2>10 DEF ChannelInv
<1>19. ASSUME NEW e \in Events, NEW k \in Kinds, Retry(e, k)
      PROVE  ChannelInv'
    <2>1. /\ Moved(e, k, {"unknown", "failed"}, "pending") /\ sender' = sender
          /\ retried' = [retried EXCEPT ![e][k] = @ + 1] /\ lock = "free"
        BY <1>a, <1>19, RetryMoves DEF Retry
    <2>2. TodoIsGrounded'
        <3>1. Keeps /\ KeepsBoot /\ KeepsStart /\ UNCHANGED todo
            BY <1>19, <2>1, KindsAreNamed DEF Moved, SetsNotice, Keeps, KeepsBoot, KeepsStart,
                KeepsBinding, Present, Current
        <3> QED BY <3>1, GroundedStays
    <2>3. EndIsAnnounced'
        BY <1>19, <2>1, KindsAreNamed DEF EndIsAnnounced, Moved, SetsNotice
    <2>4. (RowsTyped /\ RunsTyped /\ PartiesTyped /\ TodoTyped /\ StartsAlone)'
        BY <1>19, <2>1 DEF RowsTyped, Moved, SetsNotice, RunsTyped, PartiesTyped, TodoTyped,
            StartsAlone
    <2>5. (RunsAreLinked /\ EventsAreWhole)'
        BY <1>19, <2>1 DEF RunsAreLinked, Present, Moved, SetsNotice, EventsAreWhole, NoEvent
    <2>6. (SenderIsMarked /\ BatchIsGrounded)'
        BY <1>19, <2>1 DEF SenderIsMarked, Present, Current, Moved, SetsNotice, BatchIsGrounded
    <2>7. (LockIsUsed /\ NotExecutedNeverRuns)'
        BY <1>19, <2>1 DEF LockIsUsed, Moved, SetsNotice, NotExecutedNeverRuns
    <2>8. SendsAreCounted'
        BY <1>19, <2>1 DEF SendsAreCounted, Moved, SetsNotice, RowsTyped, PartiesTyped
    <2> QED BY <2>2, <2>3, <2>4, <2>5, <2>6, <2>7, <2>8 DEF ChannelInv
<1>20. ASSUME NEW m \in Msgs, Receive(m)
      PROVE  ChannelInv'
    <2>1. m \in Events /\ m \notin Kids
        BY ChannelAssumption DEF Events
    <2>2. Inserted(m) /\ ~Present(m)
        BY <1>20, <2>1, InsertShows DEF Receive, Present
    <2>3. \/ /\ Plans("inbox", Reject(m)) /\ Reject(m) # <<>> /\ lock' = "inbox"
          \/ UNCHANGED <<todo, lock>>
        BY <1>20, <2>1, HandlersTyped, PlansShow DEF Receive, Threads
    <2>4. /\ \A d \in Events \ {m} : event'[d] = event[d]
          /\ event'[m].state = "received"
          /\ event'[m].rev = binding.rev
          /\ event[m].state = "absent"
        BY <2>2 DEF Inserted, Present
    <2>5. \A d \in Events, j \in Kinds : outbox'[d][j] = outbox[d][j]
              \/ (d = m /\ j = "received" /\ outbox'[d][j].state = "pending")
        <3>1. SetsNotice(m, "received", "pending")
            BY <2>2 DEF Inserted
        <3> QED BY <2>1, <3>1 DEF SetsNotice
    <2>6. TodoTyped'
        BY <1>20, <2>1, <2>2, <2>3, <2>4, <2>5 DEF TodoTyped, Receive, Plans, Threads
    <2>7. LockIsUsed'
        BY <1>20, <2>1, <2>2, <2>3, <2>4, <2>5 DEF LockIsUsed, Receive, Plans, Threads
    <2>8. EventsAreWhole'
        <3>1. binding' = binding /\ binding.rev \in 1..MaxRevision /\ MaxRevision \in Nat
            BY <1>20, ChannelAssumption DEF Receive, RowsTyped
        <3>2. event'[m].rev \in 1..binding'.rev /\ event'[m].state # "absent"
            BY <2>4, <3>1
        <3>3. ASSUME NEW d \in Events, d # m
              PROVE  IF event'[d].state # "absent" THEN event'[d].rev \in 1..binding'.rev
                     ELSE event'[d] = NoEvent /\ \A j \in Kinds : outbox'[d][j].state = "absent"
            <4>1. event'[d] = event[d] /\ \A j \in Kinds : outbox'[d][j] = outbox[d][j]
                BY <2>4, <2>5, <3>3
            <4> QED BY <3>1, <4>1 DEF EventsAreWhole, Present
        <3> QED BY <3>2, <3>3 DEF EventsAreWhole, Present
    <2>9. TodoIsGrounded'
        <3>1. Keeps /\ KeepsBoot /\ KeepsStart
            BY <1>20, <2>1, <2>4, <2>5, KindsAreNamed
               DEF Receive, Keeps, KeepsBoot, KeepsStart, Present, world
        <3>2. CASE UNCHANGED todo
            BY <3>1, <3>2, GroundedStays
        <3>3. CASE Plans("inbox", Reject(m))
            <4>1. \A i \in 1..Len(todo'["inbox"]) : Grounds("inbox", i)'
                BY <2>1, <2>2, <3>3, RejectHasGrounds DEF Inserted, Plans, Threads
            <4> QED BY <3>1, <3>3, <4>1, GroundedPlans DEF Threads
        <3> QED BY <2>3, <3>2, <3>3
    <2>10. BatchIsGrounded'
        BY <1>20, <2>1, <2>2, <2>3, <2>4, <2>5 DEF BatchIsGrounded, Receive, Present, world,
            PartiesTyped
    <2>11. RunsAreLinked'
        <3>1. runs' = runs /\ parent' = parent
            BY <1>20, <2>1, <2>2, <2>3, <2>4, <2>5 DEF Receive, world
        <3>2. \A d \in Events : Present(d) => event'[d] = event[d] /\ event'[d].state # "absent"
            BY <1>20, <2>1, <2>2, <2>3, <2>4, <2>5 DEF Present
        <3>3. \A d \in Events : event'[d].state = "dispatched" => event[d].state = "dispatched"
            BY <1>20, <2>1, <2>2, <2>3, <2>4, <2>5
        <3>4. \A d \in Kids : event'[d] = event[d] /\ d \in Events
            BY <1>20, <2>1, <2>2, <2>3, <2>4, <2>5 DEF Events
        <3> QED BY <1>20, <2>1, <2>2, <2>3, <2>4, <2>5, <3>1, <3>2, <3>3, <3>4 DEF RunsAreLinked,
            Present, Events
    <2>12. SendsAreCounted'
        BY <1>20, <2>1, <2>2, <2>3, <2>4, <2>5, KindsAreNamed DEF SendsAreCounted, Receive, Present,
            EventsAreWhole, history
    <2>13. EndIsAnnounced'
        BY <1>20, <2>1, <2>2, <2>3, <2>4, <2>5, KindsAreNamed DEF EndIsAnnounced, Receive, world
    <2>14. NotExecutedNeverRuns'
        BY <1>20, <2>1, <2>2, <2>3, <2>4, <2>5 DEF NotExecutedNeverRuns, Receive, world, Events
    <2>15. (PartiesTyped /\ RowsTyped)'
        BY <1>20, <2>1, <2>2, <2>3, <2>4, <2>5 DEF PartiesTyped, Receive, Inserted, world, history,
            RowsTyped, SetsNotice
    <2>16. RunsTyped'
        BY <1>20, <2>1, <2>2, <2>3, <2>4, <2>5 DEF RunsTyped, Receive, Inserted, world, history
    <2>17. StartsAlone'
        BY <1>20, <2>1, <2>2, <2>3, <2>4, <2>5 DEF StartsAlone, IdleTick, IdleSender, Receive,
            Inserted, world, history, SetsNotice, RowsTyped, RunsTyped, PartiesTyped, TodoTyped,
            LockIsUsed, EventsAreWhole, TodoIsGrounded, BatchIsGrounded, RunsAreLinked,
            SenderIsMarked, SendsAreCounted, EndIsAnnounced, NotExecutedNeverRuns, Threads, Present,
            NoEvent, Grounds, Current
    <2>18. SenderIsMarked'
        BY <1>20, <2>1, <2>2, <2>3, <2>4, <2>5 DEF SenderIsMarked, Present, Current, Receive,
            Inserted, world, history, SetsNotice
    <2> QED BY <2>6, <2>7, <2>8, <2>9, <2>10, <2>11, <2>12, <2>13, <2>14, <2>15, <2>16, <2>17, <2>18
        DEF ChannelInv
<1>21. ASSUME NEW e \in Events, RunProceeds(e)
      PROVE  ChannelInv'
    <2>1. \A d \in Events : runs'[d] = runs[d]
              \/ (runs[d] \in ActiveStates /\ runs'[d] \in {"active", "waiting"})
        BY <1>21 DEF RunProceeds, RunsTyped, ActiveStates
    <2>2. (RowsTyped /\ RunsTyped /\ PartiesTyped /\ TodoTyped /\ StartsAlone /\ LockIsUsed
           /\ EventsAreWhole /\ SenderIsMarked /\ SendsAreCounted)'
        BY <1>21, <2>1 DEF RowsTyped, RunProceeds, world, history, RunsTyped, PartiesTyped,
            TodoTyped, StartsAlone, LockIsUsed, EventsAreWhole, Present, NoEvent, SenderIsMarked,
            Current, SendsAreCounted
    <2>3. TodoIsGrounded'
        <3>1. Keeps /\ KeepsBoot /\ KeepsStart /\ UNCHANGED todo
            BY <1>21, <2>1 DEF RunProceeds, world, history, Keeps, KeepsBoot, KeepsStart,
                KeepsBinding, Present, Current, ActiveStates, Events
        <3> QED BY <3>1, GroundedStays
    <2>4. RunsAreLinked'
        BY <1>21, <2>1 DEF RunsAreLinked, RunProceeds, ActiveStates, Events, Present
    <2>5. EndIsAnnounced'
        BY <1>21, <2>1, KindsAreNamed DEF EndIsAnnounced, RunProceeds, RunsTyped, ActiveStates,
            Events
    <2>6. NotExecutedNeverRuns'
        BY <1>21, <2>1, KindsAreNamed DEF NotExecutedNeverRuns, RunProceeds, RunsTyped,
            ActiveStates, Events
    <2>7. BatchIsGrounded'
        BY <1>21, <2>1 DEF BatchIsGrounded, Present, RunProceeds, world, history, RowsTyped,
            RunsTyped, PartiesTyped, TodoTyped, StartsAlone, LockIsUsed, EventsAreWhole,
            TodoIsGrounded, RunsAreLinked, SenderIsMarked, SendsAreCounted, EndIsAnnounced,
            NotExecutedNeverRuns, Threads, IdleTick, IdleSender, NoEvent, Grounds, Current
    <2> QED BY <2>2, <2>3, <2>4, <2>5, <2>6, <2>7 DEF ChannelInv
<1>22. ASSUME NEW e \in Events, RunEnds(e)
      PROVE  ChannelInv'
    <2>1. \A d \in Events : runs'[d] = runs[d]
              \/ (runs[d] \in ActiveStates /\ runs'[d] \in {"ended"})
        BY <1>22 DEF RunEnds, RunsTyped, ActiveStates
    <2>2. (RowsTyped /\ RunsTyped /\ PartiesTyped /\ TodoTyped /\ StartsAlone /\ LockIsUsed
           /\ EventsAreWhole /\ BatchIsGrounded /\ SenderIsMarked /\ SendsAreCounted
           /\ EndIsAnnounced /\ NotExecutedNeverRuns)'
        BY <1>22, <2>1 DEF RowsTyped, RunEnds, world, history, RunsTyped, PartiesTyped, TodoTyped,
            StartsAlone, LockIsUsed, EventsAreWhole, Present, NoEvent, ActiveStates,
            BatchIsGrounded, SenderIsMarked, Current, SendsAreCounted, EndIsAnnounced,
            NotExecutedNeverRuns
    <2>3. TodoIsGrounded'
        <3>1. Keeps /\ KeepsBoot /\ KeepsStart /\ UNCHANGED todo
            BY <1>22, <2>1 DEF RunEnds, world, history, Keeps, KeepsBoot, KeepsStart, KeepsBinding,
                Present, Current, ActiveStates
        <3> QED BY <3>1, GroundedStays
    <2>4. RunsAreLinked'
        BY <1>22, <2>1 DEF RunsAreLinked, RunEnds, ActiveStates, Events, Present
    <2> QED BY <2>2, <2>3, <2>4 DEF ChannelInv
<1>23. ASSUME DeskRun
      PROVE  ChannelInv'
    <2>1. (RowsTyped /\ RunsTyped /\ PartiesTyped /\ TodoTyped /\ StartsAlone /\ LockIsUsed
           /\ EventsAreWhole /\ BatchIsGrounded /\ RunsAreLinked /\ SenderIsMarked
           /\ SendsAreCounted /\ EndIsAnnounced /\ NotExecutedNeverRuns)'
        BY <1>23 DEF RowsTyped, DeskRun, world, history, RunsTyped, PartiesTyped, TodoTyped,
            StartsAlone, LockIsUsed, EventsAreWhole, Present, NoEvent, BatchIsGrounded,
            RunsAreLinked, SenderIsMarked, Current, SendsAreCounted, EndIsAnnounced,
            NotExecutedNeverRuns
    <2>2. TodoIsGrounded'
        <3>1. Keeps /\ KeepsBoot /\ KeepsStart /\ UNCHANGED todo
            BY <1>23 DEF DeskRun, world, history, Keeps, KeepsBoot, KeepsStart, KeepsBinding,
                Present, Current
        <3> QED BY <3>1, GroundedStays
    <2> QED BY <2>1, <2>2 DEF ChannelInv
<1>24. ASSUME NEW k \in Kids, NEW p \in Events, Continue(k, p)
      PROVE  ChannelInv'
    <2>1. k \in Events /\ k \notin Msgs
        BY ChannelAssumption DEF Events
    <2>2. (RowsTyped /\ RunsTyped /\ PartiesTyped /\ TodoTyped /\ StartsAlone /\ LockIsUsed
           /\ EventsAreWhole /\ BatchIsGrounded /\ SenderIsMarked /\ SendsAreCounted
           /\ EndIsAnnounced /\ NotExecutedNeverRuns)'
        BY <1>24, <2>1 DEF RowsTyped, Continue, world, history, RunsTyped, PartiesTyped, TodoTyped,
            StartsAlone, LockIsUsed, EventsAreWhole, Present, NoEvent, BatchIsGrounded,
            SenderIsMarked, Current, SendsAreCounted, EndIsAnnounced, NotExecutedNeverRuns
    <2>3. TodoIsGrounded'
        <3>1. Keeps /\ KeepsBoot /\ KeepsStart /\ UNCHANGED todo
            BY <1>24, <2>1 DEF Continue, world, history, Keeps, KeepsBoot, KeepsStart, KeepsBinding,
                Present, Current
        <3> QED BY <3>1, GroundedStays
    <2>4. RunsAreLinked'
        BY <1>24, <2>1 DEF RunsAreLinked, Present, Continue, world, history, RowsTyped, RunsTyped,
            PartiesTyped, TodoTyped, StartsAlone, LockIsUsed, EventsAreWhole, TodoIsGrounded,
            BatchIsGrounded, SenderIsMarked, SendsAreCounted, EndIsAnnounced, NotExecutedNeverRuns,
            Threads, IdleTick, IdleSender, NoEvent, Grounds, Current
    <2> QED BY <2>2, <2>3, <2>4 DEF ChannelInv
<1>25. ASSUME Reconfigure
      PROVE  ChannelInv'
    <2>1. Replaced
        BY <1>a, <1>25, ReboundMoves DEF Reconfigure
    <2>2. \A d \in Events :
              /\ Present(d) <=> event'[d].state # "absent"
              /\ event'[d].rev = event[d].rev
              /\ event'[d].state \in {event[d].state, "invalidated"}
              /\ ~Present(d) => event'[d] = event[d]
              /\ \A j \in Kinds :
                    /\ outbox'[d][j].state \in {outbox[d][j].state, "suppressed"}
                    /\ outbox[d][j].state \in {"absent", "sending"}
                          => outbox'[d][j].state = outbox[d][j].state
                    /\ outbox'[d][j].state = "absent" => outbox[d][j].state = "absent"
        BY <2>1 DEF Replaced, Present, Withdraws, Withdrawable
    <2>3. EventsAreWhole'
        <3>1. binding.rev \in Nat /\ binding'.rev \in Nat /\ binding'.rev >= binding.rev
            BY <1>25, <2>1, <2>2 DEF RowsTyped, Replaced
        <3>2. \A r \in 1..binding.rev : r \in 1..binding'.rev
            BY <3>1
        <3> QED BY <1>25, <2>1, <2>2, <3>1, <3>2 DEF EventsAreWhole, Present
    <2>4. TodoIsGrounded'
        <3>1. Keeps /\ KeepsBoot /\ KeepsStart /\ UNCHANGED todo
            BY <1>25, <2>1, <2>2, KindsAreNamed DEF Reconfigure, Replaced, world, history, Keeps,
                KeepsBoot, KeepsStart, KeepsBinding, Present
        <3> QED BY <3>1, GroundedStays
    <2>5. BatchIsGrounded'
        BY <1>25, <2>1, <2>2 DEF BatchIsGrounded, Reconfigure, world, history, Present, PartiesTyped
    <2>6. RunsAreLinked'
        BY <1>25, <2>1, <2>2 DEF RunsAreLinked, Reconfigure, world, history, Events, Present
    <2>7. SenderIsMarked'
        BY <1>25, <2>1, <2>2 DEF SenderIsMarked, Reconfigure, world, history, Present
    <2>8. EndIsAnnounced'
        BY <1>25, <2>1, <2>2, KindsAreNamed DEF EndIsAnnounced, Reconfigure, world, history
    <2>9. NotExecutedNeverRuns'
        BY <1>25, <2>1, <2>2 DEF NotExecutedNeverRuns, Reconfigure, world, history, Events
    <2>10. (RunsTyped /\ PartiesTyped /\ TodoTyped /\ StartsAlone /\ LockIsUsed)'
        BY <1>25, <2>1, <2>2 DEF RunsTyped, Reconfigure, Replaced, world, history, PartiesTyped,
            TodoTyped, StartsAlone, LockIsUsed
    <2>11. RowsTyped'
        BY <1>25, <2>1, <2>2 DEF RowsTyped, Reconfigure, Replaced, world, history, Withdraws,
            Withdrawable
    <2>12. SendsAreCounted'
        BY <1>25, <2>1, <2>2 DEF SendsAreCounted, Reconfigure, Replaced, world, history, Withdraws,
            Withdrawable
    <2> QED BY <2>3, <2>4, <2>5, <2>6, <2>7, <2>8, <2>9, <2>10, <2>11, <2>12 DEF ChannelInv
<1>26. ASSUME Crash
      PROVE  ChannelInv'
    <2>1. RunsTyped'
        <3>1. MaxCrashes \in Nat
            BY ChannelAssumption
        <3>2. crashes' \in 0..MaxCrashes
            BY <1>26, <3>1 DEF Crash, RunsTyped
        <3>3. runs' \in [Events -> {"none", "active", "waiting", "ended", "interrupted"}]
            BY <1>26 DEF Crash, RunsTyped
        <3>4. parent' = parent /\ desk' = FALSE
            BY <1>26 DEF Crash
        <3> QED BY <1>26, <3>1, <3>2, <3>3, <3>4 DEF RunsTyped
    <2>2. PartiesTyped'
        BY <1>26 DEF PartiesTyped, Crash, IdleTick, IdleSender, SenderState
    <2>3. TodoIsGrounded'
        BY <1>26 DEF Crash, TodoIsGrounded
    <2>4. RunsAreLinked'
        BY <1>26 DEF RunsAreLinked, Crash, ActiveStates, Events, Present, RunsTyped
    <2>5. NotExecutedNeverRuns'
        BY <1>26 DEF NotExecutedNeverRuns, Crash, ActiveStates, Events
    <2>6. (RowsTyped /\ TodoTyped /\ EndIsAnnounced /\ LockIsUsed /\ SendsAreCounted)'
        BY <1>26 DEF RowsTyped, Crash, world, history, TodoTyped, EndIsAnnounced, LockIsUsed,
            ActiveStates, Threads, IdleTick, IdleSender, SendsAreCounted
    <2>7. (StartsAlone /\ BatchIsGrounded /\ SenderIsMarked /\ EventsAreWhole)'
        BY <1>26 DEF StartsAlone, IdleTick, IdleSender, Crash, world, history, ActiveStates,
            Threads, BatchIsGrounded, Present, SenderIsMarked, Current, EventsAreWhole, NoEvent
    <2> QED BY <2>1, <2>2, <2>3, <2>4, <2>5, <2>6, <2>7 DEF ChannelInv
<1>27. ASSUME Configure
      PROVE  ChannelInv'
    <2>1. Replaced \/ UNCHANGED <<binding, event, outbox>>
        BY <1>a, <1>27, ReboundMoves DEF Configure
    <2>2. \A d \in Events :
              /\ Present(d) <=> event'[d].state # "absent"
              /\ event'[d].rev = event[d].rev
              /\ event'[d].state \in {event[d].state, "invalidated"}
              /\ ~Present(d) => event'[d] = event[d]
              /\ \A j \in Kinds :
                    /\ outbox'[d][j].state \in {outbox[d][j].state, "suppressed"}
                    /\ outbox[d][j].state \in {"absent", "sending"}
                          => outbox'[d][j].state = outbox[d][j].state
                    /\ outbox'[d][j].state = "absent" => outbox[d][j].state = "absent"
        BY <2>1 DEF Replaced, Present, Withdraws, Withdrawable
    <2>3. EventsAreWhole'
        <3>1. binding.rev \in Nat /\ binding'.rev \in Nat /\ binding'.rev >= binding.rev
            BY <1>27, <2>1, <2>2 DEF RowsTyped, Replaced
        <3>2. \A r \in 1..binding.rev : r \in 1..binding'.rev
            BY <3>1
        <3> QED BY <1>27, <2>1, <2>2, <3>1, <3>2 DEF EventsAreWhole, Present
    <2>4. TodoIsGrounded'
        <3>1. Keeps /\ KeepsBoot /\ KeepsStart /\ UNCHANGED todo
            BY <1>27, <2>1, <2>2, KindsAreNamed DEF Configure, Replaced, world, history, Keeps,
                KeepsBoot, KeepsStart, KeepsBinding, Present, StartsAlone, Current
        <3> QED BY <3>1, GroundedStays
    <2>5. BatchIsGrounded'
        BY <1>27, <2>1, <2>2 DEF BatchIsGrounded, Configure, world, history, Present, PartiesTyped
    <2>6. RunsAreLinked'
        BY <1>27, <2>1, <2>2 DEF RunsAreLinked, Configure, world, history, Events, Present
    <2>7. EndIsAnnounced'
        BY <1>27, <2>1, <2>2, KindsAreNamed DEF EndIsAnnounced, Configure, world, history
    <2>8. NotExecutedNeverRuns'
        BY <1>27, <2>1, <2>2 DEF NotExecutedNeverRuns, Configure, world, history, Events
    <2>9. (RunsTyped /\ PartiesTyped /\ TodoTyped /\ StartsAlone /\ LockIsUsed)'
        BY <1>27, <2>1, <2>2 DEF RunsTyped, Configure, Replaced, world, history, PartiesTyped,
            TodoTyped, StartsAlone, LockIsUsed
    <2>10. SenderIsMarked'
        BY <1>27, <2>1, <2>2 DEF SenderIsMarked, Present, Current, Configure, Replaced, world,
            history, Withdraws, Withdrawable, RowsTyped, RunsTyped, PartiesTyped, TodoTyped,
            StartsAlone, LockIsUsed, EventsAreWhole, TodoIsGrounded, BatchIsGrounded, RunsAreLinked,
            SendsAreCounted, EndIsAnnounced, NotExecutedNeverRuns, Threads, IdleTick, IdleSender,
            NoEvent, Grounds
    <2>11. RowsTyped'
        BY <1>27, <2>1, <2>2 DEF RowsTyped, Configure, Replaced, world, history, Withdraws,
            Withdrawable
    <2>12. SendsAreCounted'
        BY <1>27, <2>1, <2>2 DEF SendsAreCounted, Configure, Replaced, world, history, Withdraws,
            Withdrawable
    <2> QED BY <2>3, <2>4, <2>5, <2>6, <2>7, <2>8, <2>9, <2>10, <2>11, <2>12 DEF ChannelInv
<1>28. ASSUME RecoverDelivery
      PROVE  ChannelInv'
    <2>1. /\ outbox' \in [Events -> [Kinds -> NoticeRow]]
          /\ \A e \in Events, k \in Kinds :
                outbox'[e][k].state = IF outbox[e][k].state = "sending" THEN "unknown"
                                      ELSE outbox[e][k].state
        BY <1>a, <1>28, RecoveryMoves
    <2>2. (RowsTyped /\ RunsTyped /\ PartiesTyped /\ TodoTyped /\ StartsAlone /\ LockIsUsed
           /\ EventsAreWhole /\ BatchIsGrounded /\ RunsAreLinked /\ SendsAreCounted
           /\ NotExecutedNeverRuns)'
        BY <1>28, <2>1 DEF RowsTyped, RecoverDelivery, world, history, RunsTyped, PartiesTyped,
            TodoTyped, StartsAlone, LockIsUsed, EventsAreWhole, Present, NoEvent, BatchIsGrounded,
            RunsAreLinked, SendsAreCounted, NotExecutedNeverRuns
    <2>3. TodoIsGrounded'
        <3>1. Keeps /\ KeepsBoot /\ KeepsStart /\ UNCHANGED todo
            BY <1>28, <2>1, KindsAreNamed DEF RecoverDelivery, world, history, Keeps, KeepsBoot,
                KeepsStart, KeepsBinding, Present, Current
        <3> QED BY <3>1, GroundedStays
    <2>4. EndIsAnnounced'
        BY <1>28, <2>1, KindsAreNamed DEF EndIsAnnounced, RecoverDelivery, world
    <2>5. SenderIsMarked'
        BY <1>28, <2>1 DEF SenderIsMarked, Present, Current, RecoverDelivery, world, history,
            RowsTyped, RunsTyped, PartiesTyped, TodoTyped, StartsAlone, LockIsUsed, EventsAreWhole,
            TodoIsGrounded, BatchIsGrounded, RunsAreLinked, SendsAreCounted, EndIsAnnounced,
            NotExecutedNeverRuns, Threads, IdleTick, IdleSender, NoEvent, Grounds
    <2> QED BY <2>2, <2>3, <2>4, <2>5 DEF ChannelInv
<1>29. ASSUME NEW e \in Events, Recover(e)
      PROVE  ChannelInv'
    <2>1. Plans("boot", Recovered(e))
        BY <1>29, HandlersTyped, PlansShow DEF Recover, Threads
    <2>2. (RowsTyped /\ RunsTyped /\ PartiesTyped /\ TodoTyped /\ StartsAlone /\ LockIsUsed
           /\ EventsAreWhole /\ BatchIsGrounded /\ RunsAreLinked /\ SenderIsMarked
           /\ SendsAreCounted /\ EndIsAnnounced /\ NotExecutedNeverRuns)'
        BY <1>29, <2>1 DEF RowsTyped, Recover, Plans, world, history, RunsTyped, PartiesTyped,
            TodoTyped, StartsAlone, LockIsUsed, EventsAreWhole, Present, NoEvent, Threads,
            BatchIsGrounded, RunsAreLinked, SenderIsMarked, Current, SendsAreCounted,
            EndIsAnnounced, NotExecutedNeverRuns
    <2>3. TodoIsGrounded'
        <3>1. Keeps /\ KeepsBoot /\ KeepsStart
            BY <1>29, <2>1, KindsAreNamed DEF Recover, Plans, world, history, Keeps, KeepsBoot,
                KeepsStart, KeepsBinding, Present, Current, SetsNotice, StartsAlone
        <3>2. \A i \in 1..Len(todo'["boot"]) : Grounds("boot", i)'
            BY <1>29, <2>1, RecoveredHasGrounds DEF Recover, world
        <3> QED BY <1>29, <2>1, <3>1, <3>2, GroundedPlans DEF Threads
    <2> QED BY <2>2, <2>3 DEF ChannelInv
<1>30. ASSUME Up
      PROVE  ChannelInv'
    <2>1. (RowsTyped /\ RunsTyped /\ PartiesTyped /\ TodoTyped /\ StartsAlone /\ LockIsUsed
           /\ EventsAreWhole /\ BatchIsGrounded /\ RunsAreLinked /\ SenderIsMarked
           /\ SendsAreCounted /\ EndIsAnnounced /\ NotExecutedNeverRuns)'
        BY <1>30 DEF RowsTyped, Up, world, history, RunsTyped, PartiesTyped, TodoTyped, StartsAlone,
            LockIsUsed, EventsAreWhole, Present, NoEvent, BatchIsGrounded, RunsAreLinked,
            SenderIsMarked, Current, SendsAreCounted, EndIsAnnounced, NotExecutedNeverRuns
    <2>2. TodoIsGrounded'
        <3>1. Keeps /\ KeepsBoot /\ KeepsStart /\ UNCHANGED todo
            BY <1>30 DEF Up, world, history, Keeps, KeepsBoot, KeepsStart, KeepsBinding, Present,
                Current
        <3> QED BY <3>1, GroundedStays
    <2> QED BY <2>1, <2>2 DEF ChannelInv
<1>31. ASSUME UNCHANGED vars
      PROVE  ChannelInv'
    <2>1. (RowsTyped /\ RunsTyped /\ PartiesTyped /\ TodoTyped /\ StartsAlone /\ LockIsUsed
           /\ EventsAreWhole /\ BatchIsGrounded /\ RunsAreLinked /\ SenderIsMarked
           /\ SendsAreCounted /\ EndIsAnnounced /\ NotExecutedNeverRuns)'
        BY <1>31 DEF RowsTyped, vars, world, history, RunsTyped, PartiesTyped, TodoTyped,
            StartsAlone, LockIsUsed, EventsAreWhole, Present, NoEvent, BatchIsGrounded,
            RunsAreLinked, SenderIsMarked, Current, SendsAreCounted, EndIsAnnounced,
            NotExecutedNeverRuns
    <2>2. TodoIsGrounded'
        <3>1. Keeps /\ KeepsBoot /\ KeepsStart /\ UNCHANGED todo
            BY <1>31 DEF vars, world, history, Keeps, KeepsBoot, KeepsStart, KeepsBinding, Present,
                Current
        <3> QED BY <3>1, GroundedStays
    <2> QED BY <2>1, <2>2 DEF ChannelInv
<1> QED BY <1>a, AdoptMoves, ClaimMoves, <1>1, <1>2, <1>3, <1>4, <1>5, <1>6, <1>7, <1>8, <1>9,
        <1>10, <1>11, <1>12, <1>13, <1>14, <1>15, <1>16, <1>17, <1>18, <1>19, <1>20, <1>21, <1>22,
        <1>23, <1>24, <1>25, <1>26, <1>27, <1>28, <1>29, <1>30, <1>31 DEF ChannelNext, ThreadStep,
        DispatchStep, DeliveryStep, BootStep, UserStep, Threads

-----------------------------------------------------------------------------
\* An empty store with a fresh binding satisfies the invariant.
LEMMA ChannelInitial == ChannelInit => ChannelInv
<1> SUFFICES ASSUME ChannelInit
             PROVE  ChannelInv
    OBVIOUS
<1> USE DEF ChannelInit
<1>1. "received" \in Kinds /\ MaxRevision \in Nat \ {0} /\ MaxCrashes \in Nat
    BY KindsAreNamed, ChannelAssumption
<1>2. NoEvent \in EventRow /\ NoNotice \in NoticeRow
    BY <1>1 DEF NoEvent, NoNotice, EventRow, NoticeRow, EventStates, NoticeStates
<1>3. RowsTyped
    BY <1>1, <1>2 DEF RowsTyped
<1>4. RunsTyped
    <2>1. crashes \in 0..MaxCrashes
        BY <1>1
    <2>2. /\ runs \in [Events -> {"none", "active", "waiting", "ended", "interrupted"}]
          /\ parent \in [Kids -> Events \cup {None}]
        OBVIOUS
    <2>3. desk \in BOOLEAN
        OBVIOUS
    <2> QED BY <2>1, <2>2, <2>3 DEF RunsTyped
<1>5. PartiesTyped
    BY DEF PartiesTyped, IdleTick, IdleSender, SenderState
<1>6. TodoTyped
    BY DEF TodoTyped
<1>7. \A t \in Threads : todo[t] = <<>> /\ Len(todo[t]) = 0
    OBVIOUS
<1>8. StartsAlone /\ LockIsUsed /\ TodoIsGrounded
    BY <1>7 DEF StartsAlone, LockIsUsed, TodoIsGrounded, Threads
<1>9. EventsAreWhole /\ BatchIsGrounded /\ RunsAreLinked
    BY DEF EventsAreWhole, BatchIsGrounded, RunsAreLinked, Present, IdleTick, NoEvent, NoNotice,
           Events
<1>10. SenderIsMarked /\ SendsAreCounted
    BY DEF SenderIsMarked, SendsAreCounted, IdleSender
<1>11. EndIsAnnounced /\ NotExecutedNeverRuns
    <2>1. "terminal" \in Kinds /\ Msgs \subseteq Events
        BY KindsAreNamed DEF Events
    <2> QED BY <2>1 DEF EndIsAnnounced, NotExecutedNeverRuns, NoEvent, NoNotice
<1> QED BY <1>3, <1>4, <1>5, <1>6, <1>8, <1>9, <1>10, <1>11 DEF ChannelInv

\* The inductive invariant holds in every reachable state.
THEOREM ChannelInvariant == ChannelSpec => []ChannelInv
<1>1. ChannelInit => ChannelInv
    BY ChannelInitial
<1>2. ChannelInv /\ [ChannelNext]_vars => ChannelInv'
    BY ChannelStep
<1> QED BY <1>1, <1>2, PTL DEF ChannelSpec

\* The rows of the two tables, the transactions left and the parties have their types.
THEOREM ChannelTypes == ChannelSpec => []ChannelTypeOK
<1>1. ChannelInv => ChannelTypeOK
    <2> SUFFICES ASSUME ChannelInv
                 PROVE  ChannelTypeOK
        OBVIOUS
    <2>1. RowsTyped /\ RunsTyped /\ PartiesTyped /\ TodoTyped
        BY DEF ChannelInv
    <2>2. \A t \in Threads : \A i \in 1..Len(todo[t]) : todo[t][i].event \in Events
        BY <2>1, OpAt
    <2>3. tick.phase \in {"idle", "dispatch", "adopt", "sync"} /\ tick.batch \subseteq Events
        BY <2>1 DEF PartiesTyped
    <2>4. sender.pc \in {"idle", "send", "finish"}
        BY <2>1 DEF PartiesTyped, SenderState
    <2> QED BY <2>1, <2>2, <2>3, <2>4
            DEF ChannelTypeOK, RowsTyped, RunsTyped, PartiesTyped, EventRow, NoticeRow
<1> QED BY <1>1, ChannelInvariant, PTL

\* The platform takes a notice at most once more often than the user asked for it again:
\* no lost answer, restart or rate limit makes the channel send it twice on its own.
THEOREM NothingIsResent == ChannelSpec => []NoBlindResend
<1>1. ChannelInv => NoBlindResend
    BY DEF ChannelInv, SendsAreCounted, NoBlindResend
<1> QED BY <1>1, ChannelInvariant, PTL

\* No notice is on its way for a binding that was replaced meanwhile, and a continuation
\* has the binding of the run it continues.
THEOREM NoticesKeepTheirBinding == ChannelSpec => []SentUnderBinding
<1>1. ChannelInv => SentUnderBinding
    BY DEF ChannelInv, SenderIsMarked, RunsAreLinked, SentUnderBinding, Present
<1> QED BY <1>1, ChannelInvariant, PTL

\* An event is closed only after the end of its run was announced, and only ends are.
THEOREM EndsAreAnnounced == ChannelSpec => []EndIsAnnounced
<1>1. ChannelInv => EndIsAnnounced
    BY DEF ChannelInv
<1> QED BY <1>1, ChannelInvariant, PTL

\* A request that start-up reported as not executed has no run and gets none.
THEOREM GivenUpNeverRuns == ChannelSpec => []NotExecutedNeverRuns
<1>1. ChannelInv => NotExecutedNeverRuns
    BY DEF ChannelInv
<1> QED BY <1>1, ChannelInvariant, PTL

\* Whatever happens between the look that planned a transaction and the transaction, its
\* grounds still hold when its turn comes.
THEOREM PlansKeepTheirGrounds == ChannelSpec => []TodoIsGrounded
<1>1. ChannelInv => TodoIsGrounded
    BY DEF ChannelInv
<1> QED BY <1>1, ChannelInvariant, PTL

\* A message gets its run only under the current binding, marked as dispatching.
THEOREM StartsKeepTheirBinding == ChannelSpec => StartedUnderBinding
<1> DEFINE Starts == \A m \in Msgs : (runs[m] = "none" /\ runs'[m] # "none") =>
                                        Current(m) /\ event[m].state = "dispatching"
<1>1. ASSUME ChannelInv, [ChannelNext]_vars
      PROVE  [Starts]_vars
    <2>1. RunsTyped /\ Msgs \subseteq Events /\ Msgs \cap Kids = {}
        BY <1>1, ChannelAssumption DEF ChannelInv, Events
    <2>2. CASE StartRun
        BY <1>1, <2>1, <2>2, StartMoves DEF Started
    <2>3. CASE \E e \in Events : RunProceeds(e) \/ RunEnds(e)
        BY <2>1, <2>3 DEF RunsTyped, RunProceeds, RunEnds, ActiveStates
    <2>4. CASE \E k \in Kids, p \in Events : Continue(k, p)
        BY <2>1, <2>4 DEF RunsTyped, Continue
    <2>5. CASE Crash
        BY <2>1, <2>5 DEF RunsTyped, Crash, ActiveStates
    <2>6. CASE \E t \in Threads : ThreadStep(t)
        BY <2>6 DEF ThreadStep, UpdateEvent, SuppressNotices, EnqueueNotice, world
    <2>7. CASE \/ TickStarts \/ DispatchEnds \/ AdoptEvent \/ AdoptEnds \/ TickEnds
               \/ \E e \in Events : Dispatch(e) \/ DispatchRefused(e) \/ Sync(e)
               \/ \E k \in Kids : Adopt(k)
        BY <2>7 DEF TickStarts, DispatchEnds, AdoptEvent, AdoptEnds, TickEnds, Dispatch,
                    DispatchRefused, Sync, Adopt, world
    <2>8. CASE DeliveryStep \/ Configure \/ RecoverDelivery \/ Up \/ \E e \in Events : Recover(e)
        BY <2>8 DEF DeliveryStep, Claim, Send, FinishDelivery, Configure, RecoverDelivery, Up,
                    Recover, world
    <2>9. CASE \/ \E m \in Msgs : Receive(m)
               \/ \E e \in Events, k \in Kinds : Retry(e, k)
               \/ DeskRun \/ Reconfigure
        BY <2>9 DEF Receive, Retry, DeskRun, Reconfigure, world
    <2>10. CASE UNCHANGED vars
        BY <2>10
    <2> QED BY <1>1, <2>2, <2>3, <2>4, <2>5, <2>6, <2>7, <2>8, <2>9, <2>10
            DEF ChannelNext, DispatchStep, BootStep, UserStep, ThreadStep, Threads
<1> QED BY <1>1, ChannelInvariant, PTL DEF ChannelSpec, StartedUnderBinding
=============================================================================
