------------------------------- MODULE Context -------------------------------
(***************************************************************************)
(* What a model request carries of the earlier runs of its session:        *)
(* context.py over the messages of session_store.py.  Before each request  *)
(* of a run the builder may have the oldest finished runs summarised by    *)
(* the model (once per run), stores the summary if it is valid, and then   *)
(* fits the latest runs that no summary covers, the summary and a notice   *)
(* of what was left out into the limit of a request.  How far a summary    *)
(* covers the session is kept as the sequence number of a message.         *)
(* One session; sizes are in units, a summary or a notice takes one.       *)
(***************************************************************************)
EXTENDS Naturals, Sequences, FiniteSets, SequencesExt, FiniteSetsExt

CONSTANTS RecentRuns,    \* ContextBuilder.RECENT_RUNS
          Limit,         \* max_input_bytes of the run
          Trigger,       \* SUMMARY_TRIGGER_BYTES
          SummaryLimit,  \* SUMMARY_REQUEST_BYTES
          Sizes,         \* what runs and current requests may take
          MaxRuns,       \* bound on runs of the session
          MaxFaults      \* bound on finish_run failing

ASSUME ContextAssumption ==
    /\ {RecentRuns, Limit, Trigger, SummaryLimit, MaxRuns, MaxFaults} \subseteq Nat
    /\ Sizes \subseteq Nat \ {0}

VARIABLES runs,      \* the runs of the session and the numbers of their first and last message
          current,   \* the run that builds requests, or 0
          summary,   \* the active summary: how far it covers and the runs it quotes
          source,    \* history: the runs that it, or a summary before it, was made from
          asked,     \* the summary request that the model is working on
          tried,     \* summary_attempted
          request,   \* the request last built
          faults     \* counter for MaxFaults

vars == <<runs, current, summary, source, asked, tried, request, faults>>

Nothing == [runs |-> {}, covered |-> 0, size |-> 0]
NoRequest == [shown |-> {}, summary |-> FALSE, notice |-> FALSE, own |-> 0]

ContextInit ==
    /\ runs = <<>>
    /\ current = 0
    /\ summary = [covered |-> 0, quotes |-> {}]
    /\ source = {}
    /\ asked = Nothing
    /\ tried = FALSE
    /\ request = NoRequest
    /\ faults = 0

-----------------------------------------------------------------------------
(* The session.                                                            *)

LastSeq == Max({runs[r].last : r \in DOMAIN runs} \cup {0})

\* What a run leaves behind when it is over.
Idle == asked' = Nothing /\ tried' = FALSE /\ request' = NoRequest

\* The question is the first message of its run.
Submit(size) ==
    /\ current = 0 /\ Len(runs) < MaxRuns
    /\ runs' = Append(runs, [first |-> LastSeq + 1, last |-> LastSeq + 1, size |-> size, open |-> TRUE])
    /\ current' = Len(runs')
    /\ Idle
    /\ UNCHANGED <<summary, source, faults>>

\* The run ends, with an answer, or stopped at any point by a limit, a timeout, a
\* cancellation or a failure to store.  Of its messages the first and the last count.
EndRun ==
    /\ current # 0
    /\ runs' = [runs EXCEPT ![current].last = LastSeq + 1, ![current].open = FALSE]
    /\ current' = 0
    /\ Idle
    /\ UNCHANGED <<summary, source, faults>>

\* finish_run fails: the row stays open while the session goes on.
EndFault ==
    /\ current # 0 /\ faults < MaxFaults
    /\ current' = 0
    /\ faults' = faults + 1
    /\ Idle
    /\ UNCHANGED <<runs, summary, source>>

\* recover_interrupted: each open run gets a last message, behind all others.
Restart ==
    /\ runs' = [r \in DOMAIN runs |->
                  IF runs[r].open
                  THEN [runs[r] EXCEPT !.open = FALSE,
                          !.last = LastSeq + Cardinality({q \in 1..r : runs[q].open})]
                  ELSE runs[r]]
    /\ current' = 0
    /\ Idle
    /\ UNCHANGED <<summary, source, faults>>

-----------------------------------------------------------------------------
(* Which runs.  They are in the order of their first messages.             *)

\* Mutant of History: finished_at is not looked at.
HistoryUnfinished == {r \in DOMAIN runs : r # current /\ runs[r].last < runs[current].first}

\* _history_runs up to _cutoff.
History == {r \in DOMAIN runs : r # current /\ ~runs[r].open /\ runs[r].last < runs[current].first}

\* The runs of the history behind a covered number.
Behind(covered) == {r \in History : runs[r].last > covered}

\* The n latest of them.
Latest(set, n) == {r \in set : Cardinality({q \in set : q > r}) < n}

Total(set) == MapThenSumSet(LAMBDA r : runs[r].size, set)

One(condition) == IF condition THEN 1 ELSE 0

-----------------------------------------------------------------------------
(* The summary.                                                            *)

\* There is more than the recent runs, and all of it would be a large request.
WantsSummary(own) ==
    /\ Cardinality(Behind(summary.covered)) > RecentRuns
    /\ own + One(summary.covered > 0) + Total(Behind(summary.covered)) > Trigger

\* _summary_request: the oldest runs, in order, as far as they fit.
Candidates == Behind(summary.covered) \ Latest(Behind(summary.covered), RecentRuns)
Taken == {r \in Candidates :
            One(summary.covered > 0) + Total({q \in Candidates : q <= r}) <= SummaryLimit}

\* The runs whose words the answer may quote by the ids given out.
Quotable == summary.quotes \cup asked.runs

\* _materialize_summary_payload and save_summary take the answer: it quotes only what was
\* given out and lies within what it covers, which is the end of an ended run further on.
Valid(quotes) ==
    /\ quotes \subseteq Quotable
    /\ \A r \in quotes : runs[r].first <= asked.covered
    /\ asked.covered > summary.covered
    /\ \E r \in DOMAIN runs : ~runs[r].open /\ runs[r].last = asked.covered

-----------------------------------------------------------------------------
(* The request.                                                            *)

\* Mutant of SizeOf: the notice is added after the last check.
SizeOfShown(own, sum, n) ==
    own + One(sum.covered > 0) + Total(Latest(Behind(sum.covered), n))

\* The size of a request that shows the n latest runs behind the summary.
SizeOf(own, sum, n) ==
    LET shown == Latest(Behind(sum.covered), n) IN
    own + One(sum.covered > 0) + One(shown # History) + Total(shown)

\* The oldest runs are dropped until it fits; then the summary, then the notice.
Fit(own, sum) ==
    LET fits   == {n \in 0..RecentRuns : SizeOf(own, sum, n) <= Limit}
        shown  == Latest(Behind(sum.covered), IF fits = {} THEN 0 ELSE Max(fits))
        notice == One(shown # History)
        keep   == own + One(sum.covered > 0) + notice + Total(shown) <= Limit
    IN  [shown   |-> shown,
         summary |-> sum.covered > 0 /\ keep,
         notice  |-> shown # History /\ (keep \/ own + notice <= Limit),
         own     |-> own]

\* A request of its own size that is too large ends the run instead: EndRun.
Builds(own) == current # 0 /\ asked = Nothing /\ own <= Limit

\* Without a summary: none is due, the run had its one, or it has no model call left for it.
Build(own) ==
    /\ Builds(own)
    /\ request' = Fit(own, summary)
    /\ UNCHANGED <<runs, current, summary, source, asked, tried, faults>>

\* Mutant of AskSummary: the number of the last candidate, although not all of them fit.
AskSummaryOfAll(own) ==
    /\ Builds(own) /\ WantsSummary(own) /\ ~tried /\ Taken # {}
    /\ asked' = [runs |-> Taken, covered |-> runs[Max(Candidates)].last, size |-> own]
    /\ tried' = TRUE
    /\ request' = NoRequest
    /\ UNCHANGED <<runs, current, summary, source, faults>>

\* The summary is asked for, with the run's own model and time.
AskSummary(own) ==
    /\ Builds(own) /\ WantsSummary(own) /\ ~tried /\ Taken # {}
    /\ asked' = [runs |-> Taken, covered |-> runs[Max(Taken)].last, size |-> own]
    /\ tried' = TRUE
    /\ request' = NoRequest
    /\ UNCHANGED <<runs, current, summary, source, faults>>

\* It is valid: one transaction makes it the active one, and the request is built with it.
SaveSummary(quotes) ==
    /\ asked # Nothing /\ Valid(quotes)
    /\ summary' = [covered |-> asked.covered, quotes |-> quotes]
    /\ source' = source \cup asked.runs
    /\ request' = Fit(asked.size, summary')
    /\ asked' = Nothing
    /\ UNCHANGED <<runs, current, tried, faults>>

\* No answer, or not a valid one: the summary stays what it was.
KeepSummary ==
    /\ asked # Nothing
    /\ request' = Fit(asked.size, summary)
    /\ asked' = Nothing
    /\ UNCHANGED <<runs, current, summary, source, tried, faults>>

-----------------------------------------------------------------------------
ContextNext ==
    \/ \E size \in Sizes : Submit(size) \/ Build(size) \/ AskSummary(size)
    \/ \E quotes \in SUBSET Quotable : SaveSummary(quotes)
    \/ KeepSummary \/ EndRun \/ EndFault \/ Restart

ContextSpec == ContextInit /\ [][ContextNext]_vars

-----------------------------------------------------------------------------
\* Type invariant.
ContextTypeOK ==
    /\ runs \in Seq([first : Nat, last : Nat, size : Sizes, open : BOOLEAN])
    /\ current \in {0} \cup DOMAIN runs
    /\ current # 0 => runs[current].open
    /\ summary.covered <= LastSeq /\ asked.covered <= LastSeq
    /\ asked.runs \subseteq {r \in DOMAIN runs : ~runs[r].open}
    /\ tried \in BOOLEAN

\* The runs that end before a run that was open at a restart and began after it.
Inside(r, q) == runs[q].first < runs[r].first /\ runs[r].last < runs[q].last

\* What the summary claims to cover, and therefore never comes back into a request, was
\* read by the model for it, or for a summary that it was made from; all it quotes was.
\* The exception is a run inside one that a restart closed late: see CoveredWasRead.
CoveredWasReadOrInside ==
    /\ \A r \in DOMAIN runs : ~runs[r].open /\ runs[r].last <= summary.covered =>
          r \in source \/ \E q \in source : Inside(r, q)
    /\ \A r \in summary.quotes : r \in source /\ runs[r].first <= summary.covered

\* The number that a summary covers goes no further than what was processed for it.
\* ("the covered number moves forward only to the position actually processed; the
\* remaining gap is recorded in the manifest", session design)
CoveredWasRead ==
    \A r \in DOMAIN runs : ~runs[r].open /\ runs[r].last <= summary.covered => r \in source

\* A request is within its limit and honest about the session: it shows only ended runs
\* that no summary covers, none while it leaves out a later one, and it gives up the
\* summary, and then the notice of what is missing, only when there is no room for them.
RequestIsHonest ==
    request # NoRequest =>
        /\ request.own + One(request.summary) + One(request.notice) + Total(request.shown) <= Limit
        /\ request.shown \subseteq Behind(summary.covered)
        /\ \A r \in request.shown, q \in Behind(summary.covered) : q > r => q \in request.shown
        /\ summary.covered > 0 /\ ~request.summary =>
              request.shown = {} /\ request.own + 1 + One(History # {}) > Limit
        /\ request.shown # History /\ ~request.notice => request.own = Limit

=============================================================================
