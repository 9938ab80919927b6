---------------------------- MODULE WebRunsProofs ----------------------------
(***************************************************************************)
(* Proofs about WebRuns, for every set of sessions, requests and clients:  *)
(* the invariants, and that it implements SubmissionContract.              *)
(***************************************************************************)
EXTENDS WebRuns, FiniteSetTheorems, TLAPS

-----------------------------------------------------------------------------
(* The inductive invariant.                                                *)

HandlerState ==
    [pc : {"idle", "submit", "prepare", "reply", "build"}, session : Sessions \cup {None},
     request : Requests \cup {None}, body : Bodies \cup {None}, parent : Nat, run : Nat]

\* A handler under the lock knows its submission; what it continues is a run.
HandlersTyped ==
    /\ client \in [Clients -> HandlerState]
    /\ \A c \in Clients : client[c].pc \in {"submit", "prepare", "reply"} =>
         /\ client[c].session \in Sessions /\ client[c].request \in Requests
         /\ client[c].parent \in {0} \cup DOMAIN rows
         /\ client[c].parent = 0 => client[c].body \in Bodies

\* Whoever holds the lock saw that nothing is active, and that stays so until it starts a run.
LockExcludes ==
    \A c \in Clients : client[c].pc \in {"submit", "prepare", "reply"} =>
        /\ process = "up"
        /\ client[c].pc # "reply" => jobs = {} /\ oneshots = {}

\* One job at most, of whichever kind.
OneJob ==
    \/ jobs = {} /\ oneshots = {}
    \/ oneshots = {} /\ \E r \in DOMAIN rows : jobs = {r}
    \/ jobs = {} /\ \E c \in Clients : oneshots = {c}

\* A thread has its job, or is left of an earlier process.
ThreadsAreKnown ==
    /\ \A r \in DOMAIN rows : thread[r] # "none" => r \in jobs \cup late
    /\ jobs \cap late = {}

\* The run that a handler prepares is open, and nobody else works on it.
PreparedIsFresh ==
    \A c \in Clients : client[c].pc = "prepare" =>
        /\ client[c].run \in DOMAIN rows
        /\ Open(client[c].run)
        /\ thread[client[c].run] = "none" /\ client[c].run \notin late

\* The run that a handler has found or inserted is that of its submission.
RunIsOfSubmission ==
    \A c \in Clients : client[c].pc \in {"prepare", "reply"} =>
        /\ client[c].run \in Existing(c)
        /\ SameContent(c, client[c].run)

\* What clients were told is what the rows say.
ToldIsAccepted == \A t \in told : \E r \in DOMAIN rows : t = Submission(r)

RunsInv ==
    /\ WebRunsTypeOK /\ HandlersTyped /\ LockExcludes /\ OneJob /\ ThreadsAreKnown
    /\ PreparedIsFresh /\ RunIsOfSubmission /\ OpenIsOwned
    /\ ToldIsAccepted

-----------------------------------------------------------------------------
\* A function over the indices of a sequence is a sequence of that length.
LEMMA SameLength ==
    ASSUME NEW S, NEW t, NEW seq \in Seq(S), NEW V, t \in [DOMAIN seq -> V]
    PROVE  t \in Seq(V) /\ Len(t) = Len(seq) /\ DOMAIN t = DOMAIN seq
<1>1. Len(seq) \in Nat /\ DOMAIN seq = 1..Len(seq)
    OBVIOUS
<1>2. t \in [1..Len(seq) -> V]
    BY <1>1
<1> QED BY <1>1, <1>2

\* Every step keeps the inductive invariant.
LEMMA RunsStep == RunsInv /\ [WebRunsNext]_vars => RunsInv'
<1> SUFFICES ASSUME WebRunsTypeOK, HandlersTyped, LockExcludes, OneJob, ThreadsAreKnown,
                    PreparedIsFresh, RunIsOfSubmission, OpenIsOwned, ToldIsAccepted,
                    [WebRunsNext]_vars
             PROVE  RunsInv'
    BY DEF RunsInv
<1>1. ASSUME NEW s \in Sessions, CreateSession(s)
      PROVE  RunsInv'
    BY <1>1 DEF WebRunsTypeOK, CreateSession, HandlersTyped, LockExcludes, OneJob, ThreadsAreKnown,
        PreparedIsFresh, Open, RunIsOfSubmission, Existing, SameContent, BodyOf, OpenIsOwned,
        StoreOpen, ToldIsAccepted, Submission, RunsInv
<1>2. ASSUME NEW s \in Sessions, NEW state \in {"active", "archived"}, ChangeSession(s, state)
      PROVE  RunsInv'
    BY <1>2 DEF WebRunsTypeOK, ChangeSession, HandlersTyped, LockExcludes, OneJob, ThreadsAreKnown,
        PreparedIsFresh, Open, RunIsOfSubmission, Existing, SameContent, BodyOf, OpenIsOwned,
        StoreOpen, ToldIsAccepted, Submission, RunsInv
<1>3. ASSUME NEW c \in Clients, NEW s \in Sessions, NEW q \in Requests,
             NEW b \in Bodies \cup {None}, NEW p \in {0} \cup DOMAIN rows,
             p = 0 => b \in Bodies,
             Enter(c, s, q, b, p)
      PROVE  RunsInv'
    <2>1. (LockExcludes /\ OneJob /\ ThreadsAreKnown /\ PreparedIsFresh /\ OpenIsOwned
           /\ ToldIsAccepted /\ RunIsOfSubmission)'
        BY <1>3 DEF LockExcludes, Enter, MayStart, OneJob, ThreadsAreKnown, PreparedIsFresh, Open,
            OpenIsOwned, StoreOpen, ToldIsAccepted, Submission, RunIsOfSubmission, Existing,
            SameContent, BodyOf
    <2>2. WebRunsTypeOK'
        <3>1. \A d \in Clients : /\ client'[d].pc = IF d = c THEN "submit" ELSE client[d].pc
                                 /\ client'[d].run = IF d = c THEN 0 ELSE client[d].run
            BY <1>3 DEF Enter, HandlersTyped
        <3>2. \A d \in Clients : client[d].pc \notin {"submit", "prepare", "reply"}
            BY <1>3, WebRunsAssumption DEF Enter, WebRunsTypeOK
        <3> QED BY <1>3, <3>1, <3>2 DEF Enter, WebRunsTypeOK
    <2>3. HandlersTyped'
        <3>1. p \in Nat
            BY DEF WebRunsTypeOK
        <3> QED BY <1>3, <3>1 DEF Enter, HandlersTyped, HandlerState
    <2> QED BY <2>1, <2>2, <2>3 DEF RunsInv
<1>4. ASSUME NEW c \in Clients, Replay(c)
      PROVE  RunsInv'
    <2>1. (LockExcludes /\ OneJob /\ ThreadsAreKnown /\ WebRunsTypeOK /\ PreparedIsFresh
           /\ RunIsOfSubmission /\ OpenIsOwned /\ ToldIsAccepted)'
        BY <1>4 DEF LockExcludes, Replay, OneJob, ThreadsAreKnown, WebRunsTypeOK, Existing,
            HandlersTyped, PreparedIsFresh, Open, RunIsOfSubmission, SameContent, BodyOf,
            OpenIsOwned, StoreOpen, ToldIsAccepted, Submission
    <2>2. HandlersTyped'
        <3>1. PICK r \in Existing(c) : client' = [client EXCEPT ![c].pc = "reply", ![c].run = r]
            BY <1>4 DEF Replay
        <3>2. r \in Nat
            BY <3>1 DEF Existing, WebRunsTypeOK
        <3>3. client' = [client EXCEPT ![c] = [client[c] EXCEPT !.pc = "reply", !.run = r]]
            BY <3>1 DEF HandlersTyped
        <3>4. [client[c] EXCEPT !.pc = "reply", !.run = r] \in HandlerState
            BY <3>2 DEF HandlersTyped, HandlerState
        <3>5. client' \in [Clients -> HandlerState]
            BY <3>3, <3>4 DEF HandlersTyped
        <3> QED BY <1>4, <3>1, <3>5 DEF Replay, HandlersTyped, HandlerState
    <2> QED BY <2>1, <2>2 DEF RunsInv
<1>5. ASSUME NEW c \in Clients, Insert(c)
      PROVE  RunsInv'
    <2>1. (LockExcludes /\ OneJob)' BY <1>5 DEF LockExcludes, Insert, OneJob
    <2>2. WebRunsTypeOK'
        BY <1>5 DEF WebRunsTypeOK, Row, Insert, Existing, NewRow, HandlersTyped, HandlerState
    <2>3. HandlersTyped'
        <3>1. Len(rows') \in Nat /\ DOMAIN rows \subseteq DOMAIN rows'
            BY <1>5 DEF Insert, WebRunsTypeOK
        <3>2. client' = [client EXCEPT ![c] =
                            [client[c] EXCEPT !.pc = "prepare", !.run = Len(rows')]]
            BY <1>5 DEF Insert, HandlersTyped
        <3>3. [client[c] EXCEPT !.pc = "prepare", !.run = Len(rows')] \in HandlerState
            BY <3>1 DEF HandlersTyped, HandlerState
        <3>4. client' \in [Clients -> HandlerState]
            BY <3>2, <3>3 DEF HandlersTyped
        <3>5. \A d \in Clients : client[d].pc \in {"submit", "prepare", "reply"} <=>
                                client'[d].pc \in {"submit", "prepare", "reply"}
            BY <1>5, <3>2 DEF Insert, HandlersTyped, HandlerState
        <3>6. \A d \in Clients : /\ client'[d].session = client[d].session
                                 /\ client'[d].request = client[d].request
                                 /\ client'[d].body = client[d].body
                                 /\ client'[d].parent = client[d].parent
            BY <3>2 DEF HandlersTyped, HandlerState
        <3> QED BY <3>1, <3>4, <3>5, <3>6 DEF HandlersTyped
    <2>4. ThreadsAreKnown' BY <1>5 DEF ThreadsAreKnown, Insert, WebRunsTypeOK
    <2>5. PreparedIsFresh'
        BY <1>5 DEF PreparedIsFresh, Open, Insert, NewRow, WebRunsTypeOK, HandlersTyped
    <2>6. RunIsOfSubmission'
        BY <1>5 DEF RunIsOfSubmission, Existing, SameContent, BodyOf, Insert, NewRow, HandlersTyped
    <2>7. OpenIsOwned'
        BY <1>5 DEF OpenIsOwned, StoreOpen, Insert, BodyOf, WebRunsTypeOK, HandlersTyped,
            HandlerState
    <2>8. ToldIsAccepted' BY <1>5 DEF ToldIsAccepted, Submission, Insert
    <2> QED BY <2>1, <2>2, <2>3, <2>4, <2>5, <2>6, <2>7, <2>8 DEF RunsInv
<1>6. ASSUME NEW c \in Clients, Refuse(c)
      PROVE  RunsInv'
    <2>1. (LockExcludes /\ OneJob /\ ThreadsAreKnown)'
        BY <1>6 DEF LockExcludes, Refuse, OneJob, ThreadsAreKnown
    <2>2. WebRunsTypeOK'
        BY <1>6, WebRunsAssumption DEF WebRunsTypeOK, Refuse, Leaves, Idle, HandlersTyped
    <2>3. HandlersTyped' BY <1>6 DEF HandlersTyped, HandlerState, Refuse, Leaves, Idle
    <2>4. PreparedIsFresh' BY <1>6 DEF PreparedIsFresh, Open, Refuse, Leaves, Idle
    <2>5. RunIsOfSubmission'
        BY <1>6 DEF RunIsOfSubmission, Existing, SameContent, BodyOf, Refuse, Leaves, Idle
    <2>6. OpenIsOwned' BY <1>6 DEF OpenIsOwned, StoreOpen, Open, Refuse
    <2>7. ToldIsAccepted' BY <1>6 DEF ToldIsAccepted, Submission, Refuse
    <2> QED BY <2>1, <2>2, <2>3, <2>4, <2>5, <2>6, <2>7 DEF RunsInv
<1>7. ASSUME NEW c \in Clients, StartThread(c)
      PROVE  RunsInv'
    <2>1. (HandlersTyped /\ RunIsOfSubmission /\ ToldIsAccepted /\ WebRunsTypeOK /\ LockExcludes
           /\ ThreadsAreKnown /\ PreparedIsFresh /\ OpenIsOwned)'
        BY <1>7 DEF HandlersTyped, HandlerState, StartThread, Goes, RunIsOfSubmission, Existing,
            SameContent, BodyOf, ToldIsAccepted, Submission, WebRunsTypeOK, PreparedIsFresh,
            LockExcludes, ThreadsAreKnown, OpenIsOwned, StoreOpen, Open
    <2>2. OneJob'
        <3>1. jobs = {} /\ oneshots = {} /\ client[c].run \in DOMAIN rows
            BY <1>7 DEF StartThread, LockExcludes, PreparedIsFresh
        <3> QED BY <1>7, <3>1 DEF StartThread, OneJob
    <2> QED BY <2>1, <2>2 DEF RunsInv
<1>8. ASSUME NEW c \in Clients, StartFails(c)
      PROVE  RunsInv'
    <2>1. (HandlersTyped /\ LockExcludes /\ OneJob /\ ThreadsAreKnown /\ RunIsOfSubmission
           /\ OpenIsOwned /\ ToldIsAccepted)'
        BY <1>8 DEF HandlersTyped, HandlerState, StartFails, Goes, LockExcludes, OneJob,
            ThreadsAreKnown, RunIsOfSubmission, Existing, SameContent, BodyOf, OpenIsOwned,
            StoreOpen, Open, ToldIsAccepted, Submission
    <2>2. WebRunsTypeOK'
        <3>1. \A r \in DOMAIN rows : rows[r] \in Row
            BY DEF WebRunsTypeOK
        <3>2. \A r \in DOMAIN rows, st \in {"ended", "interrupted"}  :
                [rows[r] EXCEPT !.state = st] \in Row
            BY <3>1 DEF Row
        <3>3. rows' \in [DOMAIN rows -> Row]
            BY <1>8, <3>1, <3>2 DEF StartFails, PreparedIsFresh, WebRunsTypeOK
        <3>4. rows' \in Seq(Row) /\ Len(rows') = Len(rows) /\ DOMAIN rows' = DOMAIN rows
            BY <3>3, SameLength DEF WebRunsTypeOK
        <3> QED BY <1>8, <3>4 DEF StartFails, Goes, HandlersTyped, HandlerState, WebRunsTypeOK
    <2>3. PreparedIsFresh'
        BY <1>8 DEF PreparedIsFresh, StartFails, Goes, WebRunsTypeOK, HandlersTyped
    <2> QED BY <2>1, <2>2, <2>3 DEF RunsInv
<1>9. ASSUME NEW c \in Clients, StartFault(c)
      PROVE  RunsInv'
    <2>1. (HandlersTyped /\ LockExcludes /\ OneJob /\ ThreadsAreKnown /\ PreparedIsFresh
           /\ ToldIsAccepted)'
        BY <1>9 DEF HandlersTyped, HandlerState, StartFault, Leaves, Idle, LockExcludes, OneJob,
            ThreadsAreKnown, PreparedIsFresh, Open, ToldIsAccepted, Submission
    <2>2. WebRunsTypeOK'
        BY <1>9, WebRunsAssumption DEF WebRunsTypeOK, StartFault, Leaves, Idle, HandlersTyped,
            PreparedIsFresh
    <2>3. RunIsOfSubmission'
        BY <1>9 DEF RunIsOfSubmission, Existing, SameContent, BodyOf, StartFault, Leaves, Idle
    <2>4. OpenIsOwned' BY <1>9 DEF OpenIsOwned, StoreOpen, Open, StartFault
    <2> QED BY <2>1, <2>2, <2>3, <2>4 DEF RunsInv
<1>10. ASSUME NEW c \in Clients, Reply(c)
      PROVE  RunsInv'
    <2>1. (HandlersTyped /\ LockExcludes /\ OneJob /\ ThreadsAreKnown /\ PreparedIsFresh)'
        BY <1>10 DEF HandlersTyped, HandlerState, Reply, Leaves, Idle, LockExcludes, OneJob,
            ThreadsAreKnown, PreparedIsFresh, Open
    <2>2. WebRunsTypeOK'
        BY <1>10, WebRunsAssumption DEF WebRunsTypeOK, Reply, Leaves, Idle, HandlersTyped
    <2>3. RunIsOfSubmission'
        BY <1>10 DEF RunIsOfSubmission, Existing, SameContent, BodyOf, Reply, Leaves, Idle
    <2>4. OpenIsOwned' BY <1>10 DEF OpenIsOwned, StoreOpen, Open, Reply
    <2>5. ToldIsAccepted'
        BY <1>10 DEF ToldIsAccepted, Submission, Reply, RunIsOfSubmission, Existing, SameContent
    <2> QED BY <2>1, <2>2, <2>3, <2>4, <2>5 DEF RunsInv
<1>11. ASSUME NEW c \in Clients, OneShotLooks(c)
      PROVE  RunsInv'
    BY <1>11 DEF WebRunsTypeOK, OneShotLooks, Goes, HandlersTyped, HandlerState, LockExcludes,
        MayStart, OneJob, ThreadsAreKnown, PreparedIsFresh, Open, RunIsOfSubmission, Existing,
        SameContent, BodyOf, OpenIsOwned, StoreOpen, ToldIsAccepted, Submission, RunsInv
<1>12. ASSUME NEW c \in Clients, OneShotStarts(c)
      PROVE  RunsInv'
    <2>1. WebRunsTypeOK' BY <1>12 DEF WebRunsTypeOK, OneShotStarts, Goes
    <2>2. HandlersTyped' BY <1>12 DEF HandlersTyped, HandlerState, OneShotStarts, Goes
    <2>3. LockExcludes'
        BY <1>12, WebRunsAssumption DEF LockExcludes, OneShotStarts, Goes, WebRunsTypeOK
    <2>4. OneJob' BY <1>12 DEF OneJob, OneShotStarts, MayStart
    <2>5. ThreadsAreKnown' BY <1>12 DEF ThreadsAreKnown, OneShotStarts
    <2>6. PreparedIsFresh' BY <1>12 DEF PreparedIsFresh, Open, OneShotStarts, Goes
    <2>7. RunIsOfSubmission'
        BY <1>12 DEF RunIsOfSubmission, Existing, SameContent, BodyOf, OneShotStarts, Goes
    <2>8. OpenIsOwned' BY <1>12 DEF OpenIsOwned, StoreOpen, Open, OneShotStarts
    <2>9. ToldIsAccepted' BY <1>12 DEF ToldIsAccepted, Submission, OneShotStarts
    <2> QED BY <2>1, <2>2, <2>3, <2>4, <2>5, <2>6, <2>7, <2>8, <2>9 DEF RunsInv
<1>13. ASSUME NEW c \in Clients, OneShotEnds(c)
      PROVE  RunsInv'
    BY <1>13 DEF WebRunsTypeOK, OneShotEnds, HandlersTyped, LockExcludes, OneJob, ThreadsAreKnown,
        PreparedIsFresh, Open, RunIsOfSubmission, Existing, SameContent, BodyOf, OpenIsOwned,
        StoreOpen, ToldIsAccepted, Submission, RunsInv
<1>14. ASSUME NEW r \in DOMAIN rows, Execute(r)
      PROVE  RunsInv'
    <2>1. (HandlersTyped /\ LockExcludes /\ OneJob /\ ThreadsAreKnown /\ PreparedIsFresh
           /\ RunIsOfSubmission /\ ToldIsAccepted)'
        BY <1>14 DEF HandlersTyped, Execute, LockExcludes, OneJob, ThreadsAreKnown, Connects, Moves,
            WebRunsTypeOK, PreparedIsFresh, Open, RunIsOfSubmission, Existing, SameContent, BodyOf,
            ToldIsAccepted, Submission
    <2>2. WebRunsTypeOK'
        <3>1. thread' \in [DOMAIN thread -> {"none", "running", "finishing", "failing", "done"}]
            BY <1>14 DEF Execute, Connects, Moves, WebRunsTypeOK
        <3>2. /\ thread' \in Seq({"none", "running", "finishing", "failing", "done"})
              /\ Len(thread') = Len(thread)
            BY <3>1, SameLength DEF WebRunsTypeOK
        <3> QED BY <1>14, <3>2 DEF Execute, Connects, Moves, WebRunsTypeOK
    <2>3. OpenIsOwned'
        BY <1>14 DEF OpenIsOwned, StoreOpen, Open, Execute, Connects, Moves, Reaches, WebRunsTypeOK
    <2> QED BY <2>1, <2>2, <2>3 DEF RunsInv
<1>15. ASSUME NEW r \in DOMAIN rows, FinishRun(r)
      PROVE  RunsInv'
    <2>1. (HandlersTyped /\ LockExcludes /\ OneJob /\ ThreadsAreKnown /\ PreparedIsFresh
           /\ OpenIsOwned /\ ToldIsAccepted /\ RunIsOfSubmission)'
        BY <1>15 DEF HandlersTyped, FinishRun, LockExcludes, OneJob, ThreadsAreKnown, Finished,
            Moves, PreparedIsFresh, Open, OpenIsOwned, StoreOpen, ToldIsAccepted, Submission,
            RunIsOfSubmission, Existing, SameContent, BodyOf
    <2>2. WebRunsTypeOK'
        <3>1. \A q \in DOMAIN rows : rows[q] \in Row
            BY DEF WebRunsTypeOK
        <3>2. \A q \in DOMAIN rows, st \in {"ended", "interrupted"} :
                [rows[q] EXCEPT !.state = st] \in Row
            BY <3>1 DEF Row
        <3>3. rows' \in [DOMAIN rows -> Row]
            BY <1>15, <3>1, <3>2 DEF FinishRun, Finished, WebRunsTypeOK
        <3>4. rows' \in Seq(Row) /\ Len(rows') = Len(rows) /\ DOMAIN rows' = DOMAIN rows
            BY <3>3, SameLength DEF WebRunsTypeOK
        <3>5. thread' \in [DOMAIN thread -> {"none", "running", "finishing", "failing", "done"}]
            BY <1>15 DEF FinishRun, Moves, WebRunsTypeOK
        <3>6. /\ thread' \in Seq({"none", "running", "finishing", "failing", "done"})
              /\ Len(thread') = Len(thread)
            BY <3>5, SameLength DEF WebRunsTypeOK
        <3> QED BY <1>15, <3>4, <3>6 DEF FinishRun, WebRunsTypeOK
    <2> QED BY <2>1, <2>2 DEF RunsInv
<1>16. ASSUME NEW r \in DOMAIN rows, FinishFault(r)
      PROVE  RunsInv'
    <2>1. (HandlersTyped /\ LockExcludes /\ OneJob)'
        BY <1>16 DEF HandlersTyped, FinishFault, LockExcludes, OneJob
    <2>2. WebRunsTypeOK'
        BY <1>16 DEF WebRunsTypeOK, FinishFault, Moves, Connects, Reaches, StoreOpen
    <2>3. ThreadsAreKnown' BY <1>16 DEF ThreadsAreKnown, FinishFault, Moves, Connects, WebRunsTypeOK
    <2>4. PreparedIsFresh'
        BY <1>16 DEF PreparedIsFresh, Open, FinishFault, Moves, Connects, WebRunsTypeOK
    <2>5. RunIsOfSubmission'
        BY <1>16 DEF RunIsOfSubmission, Existing, SameContent, BodyOf, FinishFault
    <2>6. OpenIsOwned'
        BY <1>16 DEF OpenIsOwned, StoreOpen, Open, FinishFault, Moves, Connects, Reaches,
            WebRunsTypeOK
    <2>7. ToldIsAccepted' BY <1>16 DEF ToldIsAccepted, Submission, FinishFault
    <2> QED BY <2>1, <2>2, <2>3, <2>4, <2>5, <2>6, <2>7 DEF RunsInv
<1>17. ASSUME NEW r \in DOMAIN rows, EndJob(r)
      PROVE  RunsInv'
    BY <1>17 DEF WebRunsTypeOK, Row, EndJob, Moves, HandlersTyped, LockExcludes, OneJob,
        PreparedIsFresh, Open, RunIsOfSubmission, Existing, SameContent, BodyOf, OpenIsOwned,
        StoreOpen, ToldIsAccepted, Submission, ThreadsAreKnown, RunsInv
<1>18. ASSUME Close
      PROVE  RunsInv'
    <2>1. WebRunsTypeOK' BY <1>18 DEF WebRunsTypeOK, Close
    <2>2. HandlersTyped' BY <1>18 DEF HandlersTyped, Close
    <2>3. LockExcludes' BY <1>18, WebRunsAssumption DEF LockExcludes, Close, WebRunsTypeOK
    <2>4. OneJob' BY <1>18 DEF OneJob, Close
    <2>5. ThreadsAreKnown' BY <1>18 DEF ThreadsAreKnown, Close
    <2>6. PreparedIsFresh' BY <1>18 DEF PreparedIsFresh, Open, Close
    <2>7. RunIsOfSubmission' BY <1>18 DEF RunIsOfSubmission, Existing, SameContent, BodyOf, Close
    <2>8. OpenIsOwned' BY <1>18 DEF OpenIsOwned, StoreOpen, Open, Close
    <2>9. ToldIsAccepted' BY <1>18 DEF ToldIsAccepted, Submission, Close
    <2> QED BY <2>1, <2>2, <2>3, <2>4, <2>5, <2>6, <2>7, <2>8, <2>9 DEF RunsInv
<1>19. ASSUME CloseEnds
      PROVE  RunsInv'
    BY <1>19 DEF WebRunsTypeOK, CloseEnds, HandlersTyped, LockExcludes, OneJob, ThreadsAreKnown,
        PreparedIsFresh, Open, RunIsOfSubmission, Existing, OpenIsOwned, StoreOpen, ToldIsAccepted,
        Submission, RunsInv
<1>20. ASSUME Crash
      PROVE  RunsInv'
    <2>1. (HandlersTyped /\ LockExcludes /\ OneJob /\ PreparedIsFresh /\ OpenIsOwned
           /\ ToldIsAccepted /\ ThreadsAreKnown /\ RunIsOfSubmission)'
        BY <1>20 DEF HandlersTyped, HandlerState, Crash, Forgotten, Idle, LockExcludes, OneJob,
            PreparedIsFresh, Open, OpenIsOwned, StoreOpen, ToldIsAccepted, Submission,
            ThreadsAreKnown, WebRunsTypeOK, RunIsOfSubmission
    <2>2. WebRunsTypeOK'
        <3>1. thread' \in [DOMAIN thread -> {"none", "running", "finishing", "failing", "done"}]
            BY <1>20 DEF Crash
        <3>2. /\ thread' \in Seq({"none", "running", "finishing", "failing", "done"})
              /\ Len(thread') = Len(thread)
            BY <3>1, SameLength DEF WebRunsTypeOK
        <3> QED BY <1>20, <3>2, WebRunsAssumption DEF Crash, Forgotten, Idle, WebRunsTypeOK
    <2> QED BY <2>1, <2>2 DEF RunsInv
<1>21. ASSUME Boot
      PROVE  RunsInv'
    <2>1. (LockExcludes /\ OneJob /\ PreparedIsFresh /\ HandlersTyped /\ ThreadsAreKnown
           /\ RunIsOfSubmission /\ OpenIsOwned /\ ToldIsAccepted)'
        BY <1>21 DEF LockExcludes, Boot, Forgotten, Idle, OneJob, PreparedIsFresh, Interrupted,
            HandlersTyped, HandlerState, ThreadsAreKnown, WebRunsTypeOK, RunIsOfSubmission,
            OpenIsOwned, Open, ToldIsAccepted, Submission
    <2>2. WebRunsTypeOK'
        <3>1. \A r \in DOMAIN rows : rows[r] \in Row
            BY DEF WebRunsTypeOK
        <3>2. \A r \in DOMAIN rows, st \in {"ended", "interrupted"}  :
                [rows[r] EXCEPT !.state = st] \in Row
            BY <3>1 DEF Row
        <3>3. rows' \in [DOMAIN rows -> Row]
            BY <1>21, <3>1, <3>2 DEF Boot, Interrupted, WebRunsTypeOK
        <3>4. rows' \in Seq(Row) /\ Len(rows') = Len(rows) /\ DOMAIN rows' = DOMAIN rows
            BY <3>3, SameLength DEF WebRunsTypeOK
        <3> QED BY <1>21, <3>4, WebRunsAssumption DEF Boot, Forgotten, Idle, WebRunsTypeOK
    <2> QED BY <2>1, <2>2 DEF RunsInv
<1>22. ASSUME Exit
      PROVE  RunsInv'
    <2>1. (HandlersTyped /\ LockExcludes /\ OneJob /\ ThreadsAreKnown /\ RunIsOfSubmission
           /\ ToldIsAccepted /\ PreparedIsFresh /\ OpenIsOwned)'
        BY <1>22 DEF HandlersTyped, Exit, LockExcludes, OneJob, ThreadsAreKnown, WebRunsTypeOK, Row,
            HandlerState, RunIsOfSubmission, Existing, SameContent, BodyOf, ToldIsAccepted,
            Submission, PreparedIsFresh, Open, OpenIsOwned, StoreOpen
    <2>2. WebRunsTypeOK'
        <3>1. thread' \in [DOMAIN thread -> {"none", "running", "finishing", "failing", "done"}]
            BY <1>22 DEF Exit, WebRunsTypeOK
        <3>2. /\ thread' \in Seq({"none", "running", "finishing", "failing", "done"})
              /\ Len(thread') = Len(thread)
            BY <3>1, SameLength DEF WebRunsTypeOK
        <3> QED BY <1>22, <3>2 DEF Exit, WebRunsTypeOK
    <2> QED BY <2>1, <2>2 DEF RunsInv
<1>23. CASE UNCHANGED vars
    BY <1>23 DEF WebRunsTypeOK, vars, HandlersTyped, LockExcludes, OneJob, ThreadsAreKnown,
        PreparedIsFresh, Open, RunIsOfSubmission, Existing, SameContent, BodyOf, OpenIsOwned,
        StoreOpen, ToldIsAccepted, Submission, RunsInv
<1>24. ASSUME NEW c \in Clients, Submits(c)
       PROVE  RunsInv'
    <2>1. ASSUME NEW s \in Sessions, NEW q \in Requests, NEW b \in Bodies, Enter(c, s, q, b, 0)
          PROVE  RunsInv'
        BY <1>3, <2>1
    <2>2. ASSUME NEW s \in Sessions, NEW q \in Requests, NEW p \in DOMAIN rows,
                 Enter(c, s, q, None, p)
          PROVE  RunsInv'
        <3>1. p # 0
            BY DEF WebRunsTypeOK
        <3> QED BY <1>3, <2>2, <3>1
    <2> QED BY <1>24, <2>1, <2>2 DEF Submits
<1>25. ASSUME NEW c \in Clients, Handler(c) \/ StartFault(c) \/ OneShot(c)
       PROVE  RunsInv'
    BY <1>25, <1>4, <1>5, <1>6, <1>7, <1>8, <1>9, <1>10, <1>11, <1>12, <1>13 DEF Handler, OneShot
<1>26. ASSUME NEW r \in DOMAIN rows, RunThread(r) \/ FinishFault(r)
       PROVE  RunsInv'
    BY <1>26, <1>14, <1>15, <1>16, <1>17 DEF RunThread
<1> QED BY <1>1, <1>2, <1>18, <1>19, <1>20, <1>21, <1>22, <1>23, <1>24, <1>25, <1>26 DEF WebRunsNext

-----------------------------------------------------------------------------
LEMMA RunsInitInv == WebRunsInit => RunsInv
<1> SUFFICES ASSUME WebRunsInit
             PROVE  RunsInv
    OBVIOUS
<1>1. rows = <<>> /\ DOMAIN rows = {} /\ thread = <<>> /\ Len(rows) = 0
    BY DEF WebRunsInit
<1>2. WebRunsTypeOK
    BY <1>1, WebRunsAssumption DEF WebRunsInit, WebRunsTypeOK, Idle
<1>3. HandlersTyped
    BY DEF WebRunsInit, HandlersTyped, HandlerState, Idle
<1>4. LockExcludes /\ PreparedIsFresh /\ RunIsOfSubmission
    BY DEF WebRunsInit, LockExcludes, PreparedIsFresh, RunIsOfSubmission, Idle
<1>5. OneJob /\ ThreadsAreKnown /\ OpenIsOwned /\ ToldIsAccepted
    BY <1>1 DEF WebRunsInit, OneJob, ThreadsAreKnown, OpenIsOwned, ToldIsAccepted
<1> QED BY <1>2, <1>3, <1>4, <1>5 DEF RunsInv

LEMMA RunsInvariant == WebRunsSpec => []RunsInv
<1> QED BY RunsInitInv, RunsStep, PTL DEF WebRunsSpec

\* Type correctness of the state of web_runs.py and table runs, whatever
\* handlers, threads and processes there are.
THEOREM RunsTyped == WebRunsSpec => []WebRunsTypeOK
<1>1. RunsInv => WebRunsTypeOK
    BY DEF RunsInv
<1> QED BY <1>1, RunsInvariant, PTL

\* runs.lock and _check_start admit one active job of a process at a time, a session's
\* run or a one-shot run, and no run thread is without its job.
THEOREM OneRun == WebRunsSpec => []OneRunAtATime
<1>1. RunsInv => OneRunAtATime
    <2> SUFFICES ASSUME RunsInv
                 PROVE  OneRunAtATime
        OBVIOUS
    <2>1. Cardinality(jobs) + Cardinality(oneshots) <= 1
        <3>1. Cardinality({}) = 0
            BY FS_EmptySet
        <3>2. ASSUME NEW x
              PROVE  Cardinality({x}) = 1
            BY FS_Singleton
        <3>3. \/ Cardinality(jobs) = 0 /\ Cardinality(oneshots) = 0
              \/ Cardinality(jobs) = 1 /\ Cardinality(oneshots) = 0
              \/ Cardinality(jobs) = 0 /\ Cardinality(oneshots) = 1
            BY <3>1, <3>2, Zenon DEF RunsInv, OneJob
        <3> QED BY <3>3
    <2> QED BY <2>1 DEF RunsInv, ThreadsAreKnown, OneRunAtATime
<1> QED BY <1>1, RunsInvariant, PTL

\* An open row of table runs always has somebody who will end it, or storing its end
\* failed in this very process: a run is never left open unnoticed.
THEOREM OpenRunsAreOwned == WebRunsSpec => []OpenIsOwned
<1>1. RunsInv => OpenIsOwned
    BY DEF RunsInv
<1> QED BY <1>1, RunsInvariant, PTL

-----------------------------------------------------------------------------
(* WebRuns implements SubmissionContract.                                  *)

\* A step that leaves the submissions alone and changes no state but that of open
\* runs settles them, or nothing at all.
LEMMA SettlesOrStutters ==
    ASSUME DOMAIN rows' = DOMAIN rows, UNCHANGED told,
           \A r \in DOMAIN rows : /\ Submission(r)' = Submission(r)
                                  /\ rows'[r].state # rows[r].state => Open(r)
    PROVE  [Contract!SubmissionContractNext]_(Contract!submissions)
<1> DEFINE accepted == {Submission(r) : r \in DOMAIN rows}
           outcome == [r \in DOMAIN rows |-> rows[r].state]
<1>1. accepted' = accepted
    OBVIOUS
<1>2. DOMAIN outcome' = DOMAIN outcome
    OBVIOUS
<1>3. \A r \in DOMAIN outcome : outcome'[r] # outcome[r] => outcome[r] = "open"
    BY DEF Open
<1> HIDE DEF accepted, outcome
<1>4. CASE outcome' = outcome
    BY <1>1, <1>4 DEF Contract!submissions, accepted, outcome
<1>5. CASE outcome' # outcome
    <2>1. Contract!Settle
        BY <1>1, <1>2, <1>3, <1>5 DEF Contract!Settle, accepted, outcome
    <2> QED BY <2>1 DEF Contract!SubmissionContractNext
<1> QED BY <1>4, <1>5

\* Inserting a row accepts a submission: nobody had the request id before, and what is
\* continued is an interrupted run of the session.
LEMMA InsertAccepts ==
    ASSUME RunsInv, NEW c \in Clients, Insert(c)
    PROVE  Contract!Accept
<1>0. PICK n : n = Len(rows) + 1
    OBVIOUS
<1>1. rows \in Seq(Row) /\ rows' = Append(rows, NewRow(c)) /\ UNCHANGED told
    BY DEF Insert, RunsInv, WebRunsTypeOK
<1>2. /\ DOMAIN rows' = DOMAIN rows \cup {n} /\ n \notin DOMAIN rows
      /\ rows'[n] = NewRow(c)
      /\ \A r \in DOMAIN rows : rows'[r] = rows[r]
    BY <1>0, <1>1
<1> DEFINE accepted == {Submission(r) : r \in DOMAIN rows}
           outcome == [r \in DOMAIN rows |-> rows[r].state]
           a == [session |-> client[c].session, request |-> client[c].request,
                 body |-> BodyOf(c), parent |-> client[c].parent, run |-> n]
<1>3. \A r \in DOMAIN rows : Submission(r)' = Submission(r)
    BY <1>2 DEF Submission
<1>4. Submission(n)' = a
    BY <1>2 DEF Submission, NewRow
<1>5. accepted' = accepted \cup {a}
    BY <1>2, <1>3, <1>4
<1>6. a \notin accepted
    BY <1>2 DEF Submission
<1>7. ~\E b \in accepted : b.session = a.session /\ b.request = a.request
    BY DEF Insert, Existing, Submission
<1>8. ASSUME a.parent # 0
      PROVE  /\ outcome[a.parent] = "interrupted"
             /\ \E b \in accepted : b.run = a.parent /\ b.session = a.session
    <2>1. client[c].parent \in DOMAIN rows
        BY <1>8 DEF Insert, RunsInv, HandlersTyped
    <2>2. /\ rows[client[c].parent].session = client[c].session
          /\ rows[client[c].parent].state = "interrupted"
        BY <1>8 DEF Insert, Acceptable, Continuable
    <2>3. Submission(client[c].parent) \in accepted
        BY <2>1
    <2> QED BY <2>1, <2>2, <2>3 DEF Submission
<1>9. outcome' = [r \in DOMAIN outcome \cup {a.run} |-> IF r = a.run THEN "open" ELSE outcome[r]]
    BY <1>2 DEF NewRow
<1>10. a.run \notin DOMAIN outcome
    BY <1>2
<1> HIDE DEF accepted, outcome, a
<1> QED BY <1>1, <1>5, <1>6, <1>7, <1>8, <1>9, <1>10
        DEF Contract!Accept, Contract!Continues, accepted, outcome

\* A reply tells a submission that was accepted; telling it once more changes nothing.
LEMMA ReplyTells ==
    ASSUME RunsInv, NEW c \in Clients, Reply(c)
    PROVE  [Contract!SubmissionContractNext]_(Contract!submissions)
<1> DEFINE accepted == {Submission(r) : r \in DOMAIN rows}
           t == [session |-> client[c].session, request |-> client[c].request,
                 body |-> BodyOf(c), parent |-> client[c].parent, run |-> client[c].run]
<1>1. told' = told \cup {t} /\ UNCHANGED rows
    BY DEF Reply
<1>2. client[c].run \in Existing(c) /\ SameContent(c, client[c].run)
    BY DEF Reply, RunsInv, RunIsOfSubmission
<1>3. client[c].run \in DOMAIN rows /\ t = Submission(client[c].run)
    BY <1>2 DEF Existing, SameContent, Submission
<1>4. told' \subseteq accepted
    BY <1>1, <1>3 DEF RunsInv, ToldIsAccepted
<1>5. UNCHANGED <<accepted, [r \in DOMAIN rows |-> rows[r].state]>>
    BY <1>1 DEF Submission
<1> HIDE DEF accepted, t
<1>6. CASE told' = told
    BY <1>5, <1>6 DEF Contract!submissions, accepted
<1>7. CASE told' # told
    <2>1. Contract!Tell
        BY <1>1, <1>4, <1>5, <1>7 DEF Contract!Tell, accepted
    <2> QED BY <2>1 DEF Contract!SubmissionContractNext
<1> QED BY <1>6, <1>7

LEMMA ContractStep ==
    RunsInv /\ [WebRunsNext]_vars => [Contract!SubmissionContractNext]_(Contract!submissions)
<1> SUFFICES ASSUME RunsInv, [WebRunsNext]_vars
             PROVE  [Contract!SubmissionContractNext]_(Contract!submissions)
    OBVIOUS
<1> USE DEF RunsInv
<1>1. ASSUME UNCHANGED <<rows, told>>
      PROVE  [Contract!SubmissionContractNext]_(Contract!submissions)
    BY <1>1 DEF Contract!submissions, Submission
<1>2. ASSUME NEW c \in Clients, Insert(c)
      PROVE  [Contract!SubmissionContractNext]_(Contract!submissions)
    BY <1>2, InsertAccepts DEF Contract!SubmissionContractNext
<1>3. ASSUME NEW c \in Clients, Reply(c)
      PROVE  [Contract!SubmissionContractNext]_(Contract!submissions)
    BY <1>3, ReplyTells
<1>4. ASSUME NEW c \in Clients, StartFails(c)
      PROVE  [Contract!SubmissionContractNext]_(Contract!submissions)
    <2>1. client[c].run \in DOMAIN rows /\ Open(client[c].run)
        BY <1>4 DEF StartFails, PreparedIsFresh
    <2>2. \A r \in DOMAIN rows : rows[r] \in Row
        BY DEF WebRunsTypeOK
    <2>3. /\ DOMAIN rows' = DOMAIN rows /\ UNCHANGED told
          /\ \A r \in DOMAIN rows : r # client[c].run => rows'[r] = rows[r]
          /\ rows'[client[c].run] = [rows[client[c].run] EXCEPT !.state = "ended"]
        BY <1>4, <2>1 DEF StartFails
    <2>4. \A r \in DOMAIN rows : Submission(r)' = Submission(r)
        BY <2>2, <2>3 DEF Submission, Row
    <2> QED BY <2>1, <2>3, <2>4, SettlesOrStutters
<1>5. ASSUME NEW r \in DOMAIN rows, FinishRun(r)
      PROVE  [Contract!SubmissionContractNext]_(Contract!submissions)
    <2>1. \A s \in DOMAIN rows : rows[s] \in Row
        BY DEF WebRunsTypeOK
    <2>2. /\ DOMAIN rows' = DOMAIN rows /\ UNCHANGED told
          /\ \A s \in DOMAIN rows : s # r => rows'[s] = rows[s]
          /\ rows'[r] = Finished(r)
        BY <1>5 DEF FinishRun
    <2>3. \A s \in DOMAIN rows : /\ Submission(s)' = Submission(s)
                                 /\ rows'[s].state # rows[s].state => Open(s)
        BY <2>1, <2>2 DEF Submission, Finished, Row
    <2> QED BY <2>2, <2>3, SettlesOrStutters
<1>6. ASSUME Boot
      PROVE  [Contract!SubmissionContractNext]_(Contract!submissions)
    <2>1. \A s \in DOMAIN rows : rows[s] \in Row
        BY DEF WebRunsTypeOK
    <2>2. /\ DOMAIN rows' = DOMAIN rows /\ UNCHANGED told
          /\ \A s \in DOMAIN rows : rows'[s] = Interrupted(s)
        BY <1>6 DEF Boot
    <2>3. \A s \in DOMAIN rows : /\ Submission(s)' = Submission(s)
                                 /\ rows'[s].state # rows[s].state => Open(s)
        BY <2>1, <2>2 DEF Submission, Interrupted, Row
    <2> QED BY <2>2, <2>3, SettlesOrStutters
<1>7. CASE UNCHANGED vars
    BY <1>1, <1>7 DEF vars
<1>8. ASSUME NEW c \in Clients, Submits(c) \/ OneShot(c) \/ StartFault(c)
      PROVE  UNCHANGED <<rows, told>>
    BY <1>8 DEF Submits, Enter, OneShot, OneShotLooks, OneShotStarts, OneShotEnds, StartFault
<1>9. ASSUME NEW c \in Clients, Handler(c)
      PROVE  UNCHANGED <<rows, told>> \/ Insert(c) \/ StartFails(c) \/ Reply(c)
    BY <1>9 DEF Handler, Replay, Refuse, StartThread
<1>10. ASSUME NEW r \in DOMAIN rows, RunThread(r) \/ FinishFault(r)
       PROVE  UNCHANGED <<rows, told>> \/ FinishRun(r)
    BY <1>10 DEF RunThread, Execute, EndJob, FinishFault
<1>11. ASSUME Close \/ CloseEnds \/ Crash \/ Exit
       PROVE  UNCHANGED <<rows, told>>
    BY <1>11 DEF Close, CloseEnds, Crash, Exit
<1>12. ASSUME NEW s \in Sessions,
              CreateSession(s) \/ \E state \in {"active", "archived"} : ChangeSession(s, state)
       PROVE  UNCHANGED <<rows, told>>
    BY <1>12 DEF CreateSession, ChangeSession
<1> QED BY <1>1, <1>2, <1>3, <1>4, <1>5, <1>6, <1>7, <1>8, <1>9, <1>10, <1>11, <1>12 DEF WebRunsNext

\* The workbench keeps the contract of submissions, for any number of sessions,
\* request ids, handlers, faults and restarts.
THEOREM KeepsContract == WebRunsSpec => KeepsSubmissionContract
<1>1. WebRunsInit => Contract!SubmissionContractInit
    BY DEF WebRunsInit, Contract!SubmissionContractInit
<1> QED BY <1>1, RunsInvariant, ContractStep, PTL
        DEF WebRunsSpec, KeepsSubmissionContract, Contract!SubmissionContractSpec
=============================================================================
