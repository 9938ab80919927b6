----------------------------- MODULE ImportProofs -----------------------------
(***************************************************************************)
(* Proofs about ImportStore, for any imports, files, restarts and damage:  *)
(* type correctness, that nothing changes under a backup, and that an      *)
(* import is decided once (ImportContract).                                *)
(***************************************************************************)
EXTENDS ImportStore, TLAPS

-----------------------------------------------------------------------------
(* The inductive invariant.                                                *)

RowsTyped ==
    /\ status \in [Imports -> Statuses]
    /\ shown \in [Imports -> BOOLEAN] /\ linked \in [Imports -> BOOLEAN]
    /\ stored \in [Imports -> SUBSET Slots] /\ \A i \in Imports : stored[i] \subseteq Files[i]

DiskTyped ==
    /\ dir \in [Imports -> BOOLEAN]
    /\ temps \in [Imports -> SUBSET Slots] /\ finals \in [Imports -> SUBSET Slots]
    /\ \A i \in Imports : temps[i] \cup finals[i] \subseteq Files[i]
    /\ gen \in [Imports -> {"none", "partial", "whole"}]
    /\ formal \in [Imports -> {"absent", "whole", "damaged"}]

AddersTyped ==
    adder \in [Imports -> [Slots -> {"idle", "looked", "copying", "linked", "refused"}]]

FlagsTyped == cancelled \in [Imports -> BOOLEAN] /\ maintenance \in BOOLEAN

CancellersTyped ==
    canceller \in [Imports -> [pc : {"idle", "asked", "removing", "settle"}, saw : Statuses,
                               by : {"none", "user", "close"}]]

JobsTyped ==
    job \in [Imports -> [pc : {"none", "start", "parse", "check", "publish", "attach", "fail",
                               "removing", "report"}, code : Statuses]]

RemoversTyped ==
    remover \in [Imports -> [pc : {"none", "list", "unlink", "rmdir", "done", "failed"},
                             temps : SUBSET Slots, finals : SUBSET Slots]]

ServerTyped ==
    /\ server \in {"up", "closing", "down", "boot"}
    /\ start \in [scan : SUBSET Imports, remove : SUBSET Imports, link : SUBSET Imports]
    /\ told \subseteq Imports /\ harmed \subseteq Imports /\ starts \in 0..MaxStarts
    /\ server = "closing" => starts < MaxStarts

\* The rows agree with each other and with what is published.
RowsAgree ==
    \A i \in Imports :
        /\ linked[i] <=> status[i] \in {"ready", "unavailable"}
        /\ status[i] = "none" => stored[i] = {} /\ temps[i] = {} /\ finals[i] = {}
        /\ status[i] \in {"finalizing", "ready", "unavailable"} => stored[i] = Files[i]
        /\ linked[i] => formal[i] # "absent"
        /\ formal[i] = "whole" => status[i] \in {"finalizing", "ready", "unavailable"}
        /\ formal[i] = "damaged" => /\ i \in harmed
                                    /\ status[i] \in {"finalizing", "ready", "unavailable",
                                                      "failed"}

\* While files come in, the directory holds what is stored and what an upload is about to
\* store; an upload is for a file that is not stored, of an import that is not complete.
UploadsAgree ==
    \A i \in Imports :
        /\ Running /\ status[i] = "uploading" =>
              /\ dir[i] /\ temps[i] = {s \in Slots : adder[i][s] = "copying"}
              /\ finals[i] = stored[i] \cup {s \in Slots : adder[i][s] = "linked"}
        /\ \A s \in Slots : adder[i][s] # "idle" =>
              /\ Running /\ s \in Files[i] \ stored[i]
              /\ status[i] \in {"uploading", "failed", "cancelled"}
              /\ adder[i][s] = "refused" => status[i] # "uploading"

\* What the job has found out still holds where it goes on.
JobAgrees ==
    \A i \in Imports :
        /\ job[i].pc # "none" => Running /\ status[i] \notin {"none", "uploading"}
        /\ job[i].pc \in {"parse", "check", "publish", "fail", "removing"} => formal[i] = "absent"
        /\ job[i].pc \in {"parse", "check", "publish"} => status[i] = "finalizing" /\ Adoptable(i)
        /\ job[i].pc = "fail" => job[i].code \in {"failed", "cancelled"}
        /\ job[i].pc = "removing" => status[i] \in {"failed", "cancelled"}

\* So does what a cancellation has found out.
CancelAgrees ==
    \A i \in Imports :
        /\ canceller[i].pc # "idle" => Running /\ canceller[i].saw \in {"uploading", "finalizing"}
        /\ canceller[i].pc \in {"removing", "settle"} /\ canceller[i].saw = "finalizing" =>
              status[i] = "finalizing" /\ formal[i] = "absent"
        /\ canceller[i].pc \in {"removing", "settle"} /\ canceller[i].saw = "uploading" =>
              canceller[i].pc = "removing" /\ status[i] = "cancelled"

\* The job and a cancellation exclude each other, and who holds the lock may be removing.
LockExcludes ==
    \A i \in Imports :
        /\ ~(/\ job[i].pc \in {"parse", "check", "publish", "fail", "removing"}
             /\ canceller[i].pc \in {"removing", "settle"})
        /\ remover[i].pc # "none" <=> job[i].pc = "removing" \/ canceller[i].pc = "removing"

\* Nobody comes between the removal of a complete batch, so it cannot fail half-way.
RemovalSucceeds ==
    \A i \in Imports :
        canceller[i].pc = "removing" /\ canceller[i].saw = "finalizing" =>
            /\ remover[i].pc # "failed"
            /\ remover[i].pc = "list" => dir[i]
            /\ remover[i].pc = "unlink" =>
                   remover[i].temps = temps[i] /\ remover[i].finals = finals[i]
            /\ remover[i].pc = "rmdir" => temps[i] = {} /\ finals[i] = {}

\* A batch that is being finalized and not locked has all its files.
StaysComplete ==
    \A i \in Imports :
        Running /\ status[i] = "finalizing" /\ formal[i] = "absent" /\ ~Locked(i) => Adoptable(i)

\* Without a process there are no actors; start-up leaves nothing half-decided behind.
StartUpDecides ==
    /\ ~Running => Idle
    /\ server = "boot" =>
          \A i \in Imports :
              /\ i \notin start.scan => status[i] # "uploading"
              /\ i \notin start.scan /\ status[i] = "finalizing" =>
                     formal[i] # "absent" \/ Adoptable(i)
              /\ i \in start.remove => status[i] = "failed" /\ formal[i] = "absent"

\* While a backup holds the gate nobody is inside a handler.
GateExcludes == maintenance => Running /\ ~Leased

ImportInv ==
    /\ RowsTyped /\ DiskTyped /\ AddersTyped /\ FlagsTyped /\ CancellersTyped /\ JobsTyped
    /\ RemoversTyped /\ ServerTyped
    /\ RowsAgree /\ UploadsAgree /\ JobAgrees /\ CancelAgrees /\ LockExcludes
    /\ RemovalSucceeds /\ StaysComplete /\ StartUpDecides /\ GateExcludes

-----------------------------------------------------------------------------
(* The effects of steps that several proofs use.                           *)

\* One upload takes a step.
Adds(i, s, pc) ==
    /\ adder' \in [Imports -> [Slots -> {"idle", "looked", "copying", "linked", "refused"}]]
    /\ adder'[i][s] = pc
    /\ \A j \in Imports, t \in Slots : j # i \/ t # s => adder'[j][t] = adder[j][t]

\* A step of an upload changes that upload's entry of adder only.
LEMMA AdderSteps ==
    ASSUME AddersTyped, NEW i \in Imports, NEW s \in Files[i],
           NEW pc \in {"idle", "looked", "copying", "linked", "refused"},
           adder' = [adder EXCEPT ![i][s] = pc]
    PROVE  s \in Slots /\ Adds(i, s, pc)
<1>1. s \in Slots
    BY ImportAssumption
<1>2. /\ adder'[i] = [adder[i] EXCEPT ![s] = pc]
      /\ adder[i] \in [Slots -> {"idle", "looked", "copying", "linked", "refused"}]
    BY DEF AddersTyped
<1>3. /\ adder'[i] \in [Slots -> {"idle", "looked", "copying", "linked", "refused"}]
      /\ adder'[i][s] = pc
    BY <1>1, <1>2
<1>4. \A j \in Imports, t \in Slots : j # i \/ t # s => adder'[j][t] = adder[j][t]
    BY <1>1, <1>2 DEF AddersTyped
<1>5. adder' \in [Imports -> [Slots -> {"idle", "looked", "copying", "linked", "refused"}]]
    BY <1>3 DEF AddersTyped
<1> QED BY <1>1, <1>3, <1>4, <1>5 DEF Adds

\* The job takes a step.
Goes(i, pc, code) ==
    /\ job' \in [Imports -> [pc : {"none", "start", "parse", "check", "publish", "attach", "fail",
                                   "removing", "report"}, code : Statuses]]
    /\ job'[i].pc = pc /\ job'[i].code = code
    /\ \A j \in Imports \ {i} : job'[j] = job[j]

\* A step of the job changes the entry of its import only.
LEMMA JobSteps ==
    ASSUME JobsTyped, NEW i \in Imports, NEW code \in Statuses,
           NEW pc \in {"none", "start", "parse", "check", "publish", "attach", "fail", "removing",
                       "report"}, JobGoes(i, pc, code)
    PROVE  Goes(i, pc, code)
BY DEF JobsTyped, JobGoes, Goes

\* What JobEnters has found out where it goes on.
Entered(i, pc, code) ==
    /\ Goes(i, pc, code)
    /\ gen' = IF pc = "parse" THEN [gen EXCEPT ![i] = "partial"] ELSE gen
    /\ pc \in {"check", "parse", "fail", "attach"} => ~maintenance
    /\ pc \in {"check", "parse"} => status[i] = "finalizing" /\ formal[i] = "absent" /\ Adoptable(i)
    /\ pc = "fail" => /\ formal[i] = "absent"
                      /\ \/ code \in {"failed", "cancelled"}
                         \/ code = status[i] /\ status[i] # "finalizing"

\* JobEnters does one of the five things it can find out.
LEMMA Entering ==
    ASSUME RowsTyped, DiskTyped, JobsTyped, NEW i \in Imports, JobEnters(i)
    PROVE  \E pc \in {"check", "parse", "fail", "attach", "report"}, code \in Statuses :
              Entered(i, pc, code)
<1>1. status[i] \in Statuses /\ {"none", "cancelled", "failed"} \subseteq Statuses
    BY DEF RowsTyped, Statuses
<1>2. gen' = [gen EXCEPT ![i] = IF job'[i].pc = "parse" THEN "partial" ELSE gen[i]]
    BY DEF JobEnters
<1>3. ASSUME NEW pc \in {"check", "parse", "fail", "attach", "report"}, NEW code \in Statuses,
             JobGoes(i, pc, code)
      PROVE  Goes(i, pc, code) /\ gen' = IF pc = "parse" THEN [gen EXCEPT ![i] = "partial"] ELSE gen
    <2>1. Goes(i, pc, code)
        BY <1>3, JobSteps
    <2>2. job'[i].pc = pc
        BY <2>1 DEF Goes
    <2> QED BY <1>2, <2>1, <2>2 DEF DiskTyped
<1>4. CASE maintenance
    <2>1. JobGoes(i, "report", "none")
        BY <1>4 DEF JobEnters
    <2> QED BY <1>1, <1>3, <1>4, <2>1 DEF Entered
<1>5. CASE ~maintenance /\ status[i] # "finalizing"
    <2>1. JobGoes(i, IF formal[i] = "absent" THEN "fail" ELSE "report", status[i])
        BY <1>5 DEF JobEnters
    <2>2. CASE formal[i] = "absent"
        BY <1>1, <1>3, <1>5, <2>1, <2>2 DEF Entered
    <2>3. CASE formal[i] # "absent"
        BY <1>1, <1>3, <1>5, <2>1, <2>3 DEF Entered
    <2> QED BY <2>2, <2>3
<1>6. CASE ~maintenance /\ status[i] = "finalizing" /\ formal[i] # "absent"
    <2>1. JobGoes(i, IF FormalValid(i) THEN "attach" ELSE "report", "none")
        BY <1>6 DEF JobEnters
    <2>2. CASE FormalValid(i)
        BY <1>1, <1>3, <1>6, <2>1, <2>2 DEF Entered
    <2>3. CASE ~FormalValid(i)
        BY <1>1, <1>3, <1>6, <2>1, <2>3 DEF Entered
    <2> QED BY <2>2, <2>3
<1>7. CASE ~maintenance /\ status[i] = "finalizing" /\ formal[i] = "absent"
    <2>1. CASE cancelled[i]
        <3>1. JobGoes(i, "fail", "cancelled")
            BY <1>7, <2>1 DEF JobEnters
        <3> QED BY <1>1, <1>3, <1>7, <3>1 DEF Entered
    <2>2. CASE ~cancelled[i] /\ ~Adoptable(i)
        <3>1. JobGoes(i, "fail", "failed")
            BY <1>7, <2>2 DEF JobEnters
        <3> QED BY <1>1, <1>3, <1>7, <3>1 DEF Entered
    <2>3. CASE ~cancelled[i] /\ Adoptable(i)
        <3>1. JobGoes(i, IF StagedValid(i) THEN "check" ELSE "parse", "none")
            BY <1>7, <2>3 DEF JobEnters
        <3>2. CASE StagedValid(i)
            BY <1>1, <1>3, <1>7, <2>3, <3>1, <3>2 DEF Entered
        <3>3. CASE ~StagedValid(i)
            BY <1>1, <1>3, <1>7, <2>3, <3>1, <3>3 DEF Entered
        <3> QED BY <3>2, <3>3
    <2> QED BY <2>1, <2>2, <2>3
<1> QED BY <1>4, <1>5, <1>6, <1>7

\* What Complete does to the row and the job of its import.
Completed(i) ==
    /\ job' \in [Imports -> [pc : {"none", "start", "parse", "check", "publish", "attach", "fail",
                                   "removing", "report"}, code : Statuses]]
    /\ \A j \in Imports \ {i} : job'[j] = job[j]
    /\ job[i].pc = "none" /\ job'[i].pc \in {"none", "start"}
    /\ job'[i].pc = "start" => status'[i] = "finalizing"
    /\ status' \in [Imports -> Statuses] /\ shown' \in [Imports -> BOOLEAN]
    /\ \A j \in Imports \ {i} : status'[j] = status[j]
    /\ \/ status'[i] = status[i]
       \/ status'[i] = "finalizing" /\ Startable(i)

\* Complete starts the job of what it leaves finalizing, or changes neither.
LEMMA Completing ==
    ASSUME RowsTyped, JobsTyped, NEW i \in Imports, Complete(i)
    PROVE  Completed(i)
<1>1. job[i].pc = "none" /\ {"finalizing"} \subseteq Statuses
    BY DEF Complete, Admitted, Jobless, Statuses
<1>2. CASE Startable(i)
    <2>1. PICK runs \in BOOLEAN :
              /\ status' = [status EXCEPT ![i] = "finalizing"]
              /\ job' = [job EXCEPT ![i].pc = IF runs THEN "start" ELSE "none"]
              /\ shown' = [shown EXCEPT ![i] = ~runs]
        BY <1>2 DEF Complete
    <2>2. shown' \in [Imports -> BOOLEAN]
        BY <2>1 DEF RowsTyped
    <2>3. CASE runs
        BY <1>1, <1>2, <2>1, <2>2, <2>3 DEF Completed, RowsTyped, JobsTyped
    <2>4. CASE ~runs
        BY <1>1, <1>2, <2>1, <2>2, <2>4 DEF Completed, RowsTyped, JobsTyped
    <2> QED BY <2>3, <2>4
<1>3. CASE ~Startable(i)
    <2>1. UNCHANGED <<status, job>> /\ shown' = [shown EXCEPT ![i] = FALSE]
        BY <1>3 DEF Complete
    <2>2. shown \in [Imports -> BOOLEAN] /\ FALSE \in BOOLEAN
        BY DEF RowsTyped
    <2>3. shown' \in [Imports -> BOOLEAN]
        BY <2>1, <2>2
    <2> QED BY <1>1, <2>1, <2>3 DEF Completed, RowsTyped, JobsTyped
<1> QED BY <1>2, <1>3

\* What CloseCancels does to the cancellation of its import.
Ceases(i) ==
    /\ canceller' \in [Imports -> [pc : {"idle", "asked", "removing", "settle"}, saw : Statuses,
                                   by : {"none", "user", "close"}]]
    /\ \A j \in Imports \ {i} : canceller'[j] = canceller[j]
    /\ canceller[i].pc = "idle"
    /\ \/ canceller'[i] = canceller[i]
       \/ canceller'[i].pc = "asked" /\ canceller'[i].saw = "finalizing"

\* close() asks for a cancellation or leaves it alone.
LEMMA Closing ==
    ASSUME RowsTyped, CancellersTyped, NEW i \in Imports, CloseCancels(i)
    PROVE  Ceases(i)
<1>1. CASE status[i] = "finalizing"
    BY <1>1 DEF CloseCancels, Ceases, RowsTyped, CancellersTyped
<1>2. CASE status[i] # "finalizing"
    <2>1. canceller[i].pc = "idle" /\ canceller' = canceller
        BY <1>2 DEF CloseCancels
    <2> QED BY <2>1 DEF Ceases, CancellersTyped
<1> QED BY <1>1, <1>2

\* Every step keeps the inductive invariant.
LEMMA ImportStep == ImportInv /\ [ImportNext]_vars => ImportInv'
<1> SUFFICES ASSUME RowsTyped, DiskTyped, AddersTyped, FlagsTyped, CancellersTyped, JobsTyped,
                    RemoversTyped, ServerTyped, RowsAgree, UploadsAgree, JobAgrees, CancelAgrees,
                    LockExcludes, RemovalSucceeds, StaysComplete, StartUpDecides, GateExcludes,
                    [ImportNext]_vars
             PROVE  ImportInv'
    BY DEF ImportInv
<1>1. ASSUME NEW i \in Imports, BeginMakes(i)
      PROVE  ImportInv'
    <2>1. (RowsTyped /\ DiskTyped /\ AddersTyped /\ FlagsTyped /\ CancellersTyped /\ JobsTyped
           /\ RemoversTyped /\ ServerTyped /\ RowsAgree /\ UploadsAgree /\ CancelAgrees
           /\ LockExcludes /\ RemovalSucceeds /\ StartUpDecides /\ GateExcludes)'
        BY <1>1 DEF RowsTyped, BeginMakes, rows, DiskTyped, AddersTyped, memory,
            FlagsTyped, CancellersTyped, JobsTyped, RemoversTyped, ServerTyped, history, RowsAgree,
            UploadsAgree, Running, CancelAgrees, LockExcludes, RemovalSucceeds, StartUpDecides,
            GateExcludes
    <2>2. JobAgrees'
        BY <1>1 DEF JobAgrees, Running, Adoptable, BeginMakes, rows, memory
    <2>3. StaysComplete'
        BY <1>1 DEF StaysComplete, Locked, Adoptable, BeginMakes, rows, memory
    <2> QED BY <2>1, <2>2, <2>3 DEF ImportInv
<1>2. ASSUME NEW i \in Imports, BeginStores(i)
      PROVE  ImportInv'
    <2>1. (RowsTyped /\ DiskTyped /\ AddersTyped /\ FlagsTyped /\ CancellersTyped /\ JobsTyped
           /\ RemoversTyped /\ ServerTyped /\ RowsAgree /\ LockExcludes /\ RemovalSucceeds
           /\ StartUpDecides /\ GateExcludes)'
        BY <1>2 DEF RowsTyped, Statuses, BeginStores, DiskTyped, disk,
            AddersTyped, memory, FlagsTyped, CancellersTyped, JobsTyped, RemoversTyped, ServerTyped,
            history, RowsAgree, Beginning, LockExcludes, RemovalSucceeds, StartUpDecides, Running,
            GateExcludes, Leased
    <2>2. UploadsAgree'
        BY <1>2 DEF UploadsAgree, Running, BeginStores, disk, memory, Beginning,
            RowsAgree
    <2>3. JobAgrees'
        BY <1>2 DEF JobAgrees, Running, Adoptable, BeginStores, disk, memory,
            Beginning
    <2>4. CancelAgrees'
        BY <1>2 DEF CancelAgrees, Running, BeginStores, disk, memory, Beginning
    <2>5. StaysComplete'
        BY <1>2 DEF StaysComplete, Locked, Adoptable, BeginStores, disk, memory
    <2> QED BY <2>1, <2>2, <2>3, <2>4, <2>5 DEF ImportInv
<1>3. ASSUME NEW i \in Imports, BeginFails(i)
      PROVE  ImportInv'
    <2>1. (RowsTyped /\ DiskTyped /\ AddersTyped /\ FlagsTyped /\ CancellersTyped /\ JobsTyped
           /\ RemoversTyped /\ ServerTyped /\ RowsAgree /\ CancelAgrees /\ LockExcludes
           /\ StartUpDecides /\ GateExcludes)'
        BY <1>3 DEF RowsTyped, BeginFails, rows, DiskTyped, BatchRemoved,
            AddersTyped, memory, FlagsTyped, CancellersTyped, JobsTyped, RemoversTyped, ServerTyped,
            history, RowsAgree, CancelAgrees, Running, LockExcludes, StartUpDecides, GateExcludes,
            Leased
    <2>2. UploadsAgree'
        BY <1>3 DEF UploadsAgree, Running, BeginFails, rows, memory, Beginning,
            BatchRemoved
    <2>3. JobAgrees'
        BY <1>3 DEF JobAgrees, Running, Adoptable, BeginFails, rows, memory,
            Beginning, BatchRemoved
    <2>4. RemovalSucceeds'
        BY <1>3 DEF RemovalSucceeds, BeginFails, memory, Beginning, BatchRemoved,
            CancelAgrees
    <2>5. StaysComplete'
        BY <1>3 DEF StaysComplete, Locked, Adoptable, BeginFails, rows, memory,
            Beginning, BatchRemoved
    <2> QED BY <2>1, <2>2, <2>3, <2>4, <2>5 DEF ImportInv
<1>4. ASSUME NEW i \in Imports, NEW s \in Files[i], AddStarts(i, s)
      PROVE  ImportInv'
    <2>1. s \in Slots /\ Adds(i, s, "looked")
        BY AdderSteps, <1>4 DEF AddStarts
    <2>2. (RowsTyped /\ DiskTyped /\ FlagsTyped /\ CancellersTyped /\ JobsTyped /\ RemoversTyped
           /\ ServerTyped /\ RowsAgree /\ UploadsAgree /\ CancelAgrees /\ LockExcludes
           /\ RemovalSucceeds /\ StartUpDecides /\ GateExcludes)'
        BY <1>4, <2>1 DEF RowsTyped, AddStarts, rows, DiskTyped, disk, FlagsTyped,
            CancellersTyped, JobsTyped, RemoversTyped, ServerTyped, history, RowsAgree,
            UploadsAgree, Running, CancelAgrees, LockExcludes, RemovalSucceeds, StartUpDecides,
            GateExcludes
    <2>3. AddersTyped'
        BY <2>1 DEF AddersTyped, Adds
    <2>4. JobAgrees'
        BY <1>4, <2>1 DEF JobAgrees, Running, Adoptable, AddStarts, rows, disk
    <2>5. StaysComplete'
        BY <1>4, <2>1 DEF StaysComplete, Locked, Adoptable, AddStarts, rows, disk
    <2> QED BY <2>2, <2>3, <2>4, <2>5 DEF ImportInv
<1>5. ASSUME NEW i \in Imports, NEW s \in Files[i], AddOpens(i, s)
      PROVE  ImportInv'
    <2>1. s \in Slots /\ Adds(i, s, IF dir[i] THEN "copying" ELSE "idle")
        BY AdderSteps, <1>5 DEF AddOpens
    <2>2. (RowsTyped /\ DiskTyped /\ FlagsTyped /\ CancellersTyped /\ JobsTyped /\ RemoversTyped
           /\ ServerTyped /\ RowsAgree /\ CancelAgrees /\ LockExcludes /\ RemovalSucceeds
           /\ StartUpDecides /\ GateExcludes)'
        BY <1>5, <2>1 DEF RowsTyped, AddOpens, rows, DiskTyped, FlagsTyped,
            CancellersTyped, JobsTyped, RemoversTyped, ServerTyped, history, RowsAgree,
            UploadsAgree, CancelAgrees, Running, LockExcludes, RemovalSucceeds, StartUpDecides,
            Idle, GateExcludes, Leased
    <2>3. AddersTyped'
        BY <2>1 DEF AddersTyped, Adds
    <2>4. UploadsAgree'
        BY <1>5, <2>1 DEF UploadsAgree, Running, AddOpens, rows, DiskTyped,
            AddersTyped
    <2>5. JobAgrees'
        BY <1>5, <2>1 DEF JobAgrees, Running, Adoptable, AddOpens, rows,
            UploadsAgree
    <2>6. StaysComplete'
        BY <1>5, <2>1 DEF StaysComplete, Locked, Adoptable, AddOpens, rows,
            UploadsAgree
    <2> QED BY <2>2, <2>3, <2>4, <2>5, <2>6 DEF ImportInv
<1>6. ASSUME NEW i \in Imports, NEW s \in Files[i], AddLinks(i, s)
      PROVE  ImportInv'
    <2>1. s \in Slots /\ Adds(i, s, "linked")
        BY AdderSteps, <1>6 DEF AddLinks
    <2>2. (RowsTyped /\ DiskTyped /\ FlagsTyped /\ CancellersTyped /\ JobsTyped /\ RemoversTyped
           /\ ServerTyped /\ RowsAgree /\ JobAgrees /\ CancelAgrees /\ LockExcludes
           /\ RemovalSucceeds /\ StartUpDecides /\ GateExcludes)'
        BY <1>6, <2>1 DEF RowsTyped, AddLinks, rows, DiskTyped, FlagsTyped,
            CancellersTyped, JobsTyped, RemoversTyped, ServerTyped, history, RowsAgree, JobAgrees,
            Running, Adoptable, CancelAgrees, LockExcludes, RemovalSucceeds, UploadsAgree,
            StartUpDecides, Idle, GateExcludes, Leased
    <2>3. AddersTyped'
        BY <2>1 DEF AddersTyped, Adds
    <2>4. UploadsAgree'
        BY <1>6, <2>1 DEF UploadsAgree, Running, AddLinks, rows, DiskTyped,
            AddersTyped
    <2>5. StaysComplete'
        BY <1>6, <2>1 DEF StaysComplete, Running, Locked, Adoptable, AddLinks,
            rows
    <2> QED BY <2>2, <2>3, <2>4, <2>5 DEF ImportInv
<1>7. ASSUME NEW i \in Imports, NEW s \in Files[i], AddFails(i, s)
      PROVE  ImportInv'
    <2>1. s \in Slots /\ Adds(i, s, "idle")
        BY AdderSteps, <1>7 DEF AddFails
    <2>2. (RowsTyped /\ DiskTyped /\ FlagsTyped /\ CancellersTyped /\ JobsTyped /\ RemoversTyped
           /\ ServerTyped /\ RowsAgree /\ JobAgrees /\ CancelAgrees /\ LockExcludes
           /\ RemovalSucceeds /\ StartUpDecides /\ GateExcludes)'
        BY <1>7, <2>1 DEF RowsTyped, AddFails, rows, DiskTyped, FlagsTyped,
            CancellersTyped, JobsTyped, RemoversTyped, ServerTyped, history, RowsAgree, JobAgrees,
            Running, Adoptable, CancelAgrees, LockExcludes, RemovalSucceeds, UploadsAgree,
            StartUpDecides, Idle, GateExcludes, Leased
    <2>3. AddersTyped'
        BY <2>1 DEF AddersTyped, Adds
    <2>4. UploadsAgree'
        BY <1>7, <2>1 DEF UploadsAgree, Running, AddFails, rows, DiskTyped,
            AddersTyped
    <2>5. StaysComplete'
        BY <1>7, <2>1 DEF StaysComplete, Running, Locked, Adoptable, AddFails,
            rows
    <2> QED BY <2>2, <2>3, <2>4, <2>5 DEF ImportInv
<1>8. ASSUME NEW i \in Imports, NEW s \in Files[i], AddStores(i, s)
      PROVE  ImportInv'
    <2>1. s \in Slots /\ Adds(i, s, IF Storable(i, s) THEN "idle" ELSE "refused")
        BY AdderSteps, <1>8 DEF AddStores
    <2>2. (RowsTyped /\ DiskTyped /\ FlagsTyped /\ CancellersTyped /\ JobsTyped /\ RemoversTyped
           /\ ServerTyped /\ RowsAgree /\ JobAgrees /\ CancelAgrees /\ LockExcludes
           /\ RemovalSucceeds /\ StartUpDecides /\ GateExcludes)'
        BY <1>8, <2>1 DEF RowsTyped, AddStores, DiskTyped, disk, FlagsTyped,
            CancellersTyped, JobsTyped, RemoversTyped, ServerTyped, history, RowsAgree, Storable,
            JobAgrees, Running, Adoptable, CancelAgrees, LockExcludes, RemovalSucceeds,
            StartUpDecides, Idle, GateExcludes, Leased
    <2>3. AddersTyped'
        BY <2>1 DEF AddersTyped, Adds
    <2>4. UploadsAgree'
        BY <1>8, <2>1 DEF UploadsAgree, Running, AddStores, disk, Adds, Storable,
            RowsTyped
    <2>5. StaysComplete'
        BY <1>8, <2>1, ImportAssumption DEF StaysComplete, Running, Locked, Adoptable, AddStores,
            disk
    <2> QED BY <2>2, <2>3, <2>4, <2>5 DEF ImportInv
<1>9. ASSUME NEW i \in Imports, NEW s \in Files[i], AddUndoes(i, s)
      PROVE  ImportInv'
    <2>1. s \in Slots /\ Adds(i, s, "idle")
        BY AdderSteps, <1>9 DEF AddUndoes
    <2>2. (RowsTyped /\ DiskTyped /\ FlagsTyped /\ CancellersTyped /\ JobsTyped /\ RemoversTyped
           /\ ServerTyped /\ RowsAgree /\ UploadsAgree /\ CancelAgrees /\ LockExcludes
           /\ RemovalSucceeds /\ StartUpDecides /\ GateExcludes)'
        BY <1>9, <2>1 DEF RowsTyped, AddUndoes, rows, DiskTyped, FlagsTyped,
            CancellersTyped, JobsTyped, RemoversTyped, ServerTyped, history, RowsAgree,
            UploadsAgree, Running, CancelAgrees, LockExcludes, RemovalSucceeds, StartUpDecides,
            Idle, GateExcludes, Leased
    <2>3. AddersTyped'
        BY <2>1 DEF AddersTyped, Adds
    <2>4. JobAgrees'
        BY <1>9, <2>1 DEF JobAgrees, Running, Adoptable, AddUndoes, rows,
            UploadsAgree
    <2>5. StaysComplete'
        BY <1>9, <2>1 DEF StaysComplete, Locked, Adoptable, AddUndoes, rows,
            UploadsAgree
    <2> QED BY <2>2, <2>3, <2>4, <2>5 DEF ImportInv
<1>10. ASSUME NEW i \in Imports, RemoveLists(i)
      PROVE  ImportInv'
    <2>1. (RowsTyped /\ DiskTyped /\ AddersTyped /\ FlagsTyped /\ CancellersTyped /\ JobsTyped
           /\ RemoversTyped /\ ServerTyped /\ UploadsAgree /\ JobAgrees /\ CancelAgrees
           /\ LockExcludes /\ RemovalSucceeds /\ StartUpDecides)'
        BY <1>10 DEF RowsTyped, RemoveLists, rows, DiskTyped, AddersTyped,
            FlagsTyped, CancellersTyped, JobsTyped, RemoversTyped, ServerTyped, history,
            UploadsAgree, Running, JobAgrees, Adoptable, CancelAgrees, LockExcludes,
            RemovalSucceeds, StartUpDecides, Idle, IdleRemover
    <2>2. RowsAgree'
        BY <1>10 DEF RowsAgree, RemoveLists, rows, disk, memory, history
    <2>3. StaysComplete'
        BY <1>10 DEF StaysComplete, Running, Locked, Adoptable, RemoveLists, rows
    <2>4. GateExcludes'
        BY <1>10 DEF GateExcludes, Running, Leased, Locked, Beginning,
            RemoveLists, rows
    <2> QED BY <2>1, <2>2, <2>3, <2>4 DEF ImportInv
<1>11. ASSUME NEW i \in Imports, RemoveUnlinks(i)
      PROVE  ImportInv'
    <2>1. RowsTyped' BY <1>11 DEF RowsTyped, RemoveUnlinks, rows
    <2>2. DiskTyped' BY <1>11 DEF DiskTyped, RemoveUnlinks
    <2>3. AddersTyped' BY <1>11 DEF AddersTyped, RemoveUnlinks
    <2>4. FlagsTyped' BY <1>11 DEF FlagsTyped, RemoveUnlinks
    <2>5. CancellersTyped' BY <1>11 DEF CancellersTyped, RemoveUnlinks
    <2>6. JobsTyped' BY <1>11 DEF JobsTyped, RemoveUnlinks
    <2>7. RemoversTyped' BY <1>11 DEF RemoversTyped, RemoveUnlinks, IdleRemover
    <2>8. ServerTyped' BY <1>11 DEF ServerTyped, RemoveUnlinks, history
    <2>9. RowsAgree'
        BY <1>11 DEF RowsAgree, RemoveUnlinks, rows, disk, memory, history
    <2>10. UploadsAgree'
        BY <1>11 DEF UploadsAgree, Running, RemoveUnlinks, rows, JobAgrees,
            CancelAgrees, LockExcludes
    <2>11. JobAgrees'
        BY <1>11 DEF JobAgrees, Running, Adoptable, RemoveUnlinks, rows,
            LockExcludes
    <2>12. CancelAgrees' BY <1>11 DEF CancelAgrees, Running, RemoveUnlinks, rows
    <2>13. LockExcludes' BY <1>11 DEF LockExcludes, RemoveUnlinks
    <2>14. RemovalSucceeds'
        BY <1>11 DEF RemovalSucceeds, RemoveUnlinks, DiskTyped, RemoversTyped
    <2>15. StaysComplete'
        BY <1>11 DEF StaysComplete, Running, Locked, Adoptable, RemoveUnlinks,
            rows, LockExcludes
    <2>16. StartUpDecides'
        BY <1>11 DEF StartUpDecides, Running, Idle, IdleRemover, RemoveUnlinks
    <2>17. GateExcludes'
        BY <1>11 DEF GateExcludes, Running, Leased, Locked, Beginning,
            RemoveUnlinks, rows
    <2> QED BY <2>1, <2>2, <2>3, <2>4, <2>5, <2>6, <2>7, <2>8, <2>9, <2>10, <2>11, <2>12, <2>13,
               <2>14, <2>15, <2>16, <2>17 DEF ImportInv
<1>12. ASSUME NEW i \in Imports, RemoveRmdir(i)
      PROVE  ImportInv'
    <2>1. RowsTyped' BY <1>12 DEF RowsTyped, RemoveRmdir, rows
    <2>2. DiskTyped' BY <1>12 DEF DiskTyped, RemoveRmdir
    <2>3. AddersTyped' BY <1>12 DEF AddersTyped, RemoveRmdir
    <2>4. FlagsTyped' BY <1>12 DEF FlagsTyped, RemoveRmdir
    <2>5. CancellersTyped' BY <1>12 DEF CancellersTyped, RemoveRmdir
    <2>6. JobsTyped' BY <1>12 DEF JobsTyped, RemoveRmdir
    <2>7. RemoversTyped' BY <1>12 DEF RemoversTyped, RemoveRmdir, IdleRemover
    <2>8. ServerTyped' BY <1>12 DEF ServerTyped, RemoveRmdir, history
    <2>9. RowsAgree'
        BY <1>12 DEF RowsAgree, RemoveRmdir, rows, disk, memory, history
    <2>10. UploadsAgree'
        BY <1>12 DEF UploadsAgree, Running, RemoveRmdir, rows, JobAgrees,
            CancelAgrees, LockExcludes
    <2>11. JobAgrees'
        BY <1>12 DEF JobAgrees, Running, Adoptable, RemoveRmdir, rows,
            LockExcludes
    <2>12. CancelAgrees' BY <1>12 DEF CancelAgrees, Running, RemoveRmdir, rows
    <2>13. LockExcludes' BY <1>12 DEF LockExcludes, RemoveRmdir
    <2>14. RemovalSucceeds' BY <1>12 DEF RemovalSucceeds, RemoveRmdir
    <2>15. StaysComplete'
        BY <1>12 DEF StaysComplete, Running, Locked, Adoptable, RemoveRmdir, rows,
            LockExcludes
    <2>16. StartUpDecides'
        BY <1>12 DEF StartUpDecides, Running, Idle, IdleRemover, RemoveRmdir
    <2>17. GateExcludes'
        BY <1>12 DEF GateExcludes, Running, Leased, Locked, Beginning,
            RemoveRmdir, rows, DiskTyped
    <2> QED BY <2>1, <2>2, <2>3, <2>4, <2>5, <2>6, <2>7, <2>8, <2>9, <2>10, <2>11, <2>12, <2>13,
               <2>14, <2>15, <2>16, <2>17 DEF ImportInv
<1>13. ASSUME NEW i \in Imports, CancelAsks(i)
      PROVE  ImportInv'
    <2>1. (RowsTyped /\ DiskTyped /\ AddersTyped /\ FlagsTyped /\ CancellersTyped /\ JobsTyped
           /\ RemoversTyped /\ ServerTyped /\ UploadsAgree /\ CancelAgrees /\ LockExcludes
           /\ RemovalSucceeds /\ StartUpDecides)'
        BY <1>13 DEF RowsTyped, CancelAsks, rows, DiskTyped, disk, AddersTyped,
            FlagsTyped, CancellersTyped, Statuses, JobsTyped, RemoversTyped, ServerTyped, history,
            UploadsAgree, Running, CancelAgrees, LockExcludes, RemovalSucceeds, StartUpDecides
    <2>2. RowsAgree'
        BY <1>13 DEF RowsAgree, CancelAsks, rows, disk, memory, history
    <2>3. JobAgrees'
        BY <1>13 DEF JobAgrees, Running, Adoptable, CancelAsks, rows, disk
    <2>4. StaysComplete'
        BY <1>13 DEF StaysComplete, Locked, Adoptable, CancelAsks, rows, disk
    <2>5. GateExcludes'
        BY <1>13 DEF GateExcludes, Running, Leased, Locked, Beginning, CancelAsks,
            rows, disk
    <2> QED BY <2>1, <2>2, <2>3, <2>4, <2>5 DEF ImportInv
<1>14. ASSUME NEW i \in Imports, CancelStarts(i)
      PROVE  ImportInv'
    <2>1. RowsTyped' BY <1>14 DEF RowsTyped, Statuses, CancelStarts, Failed
    <2>2. DiskTyped' BY <1>14 DEF DiskTyped, CancelStarts, disk
    <2>3. AddersTyped' BY <1>14 DEF AddersTyped, CancelStarts
    <2>4. FlagsTyped' BY <1>14 DEF FlagsTyped, CancelStarts
    <2>5. CancellersTyped' BY <1>14 DEF CancellersTyped, CancelStarts
    <2>6. JobsTyped' BY <1>14 DEF JobsTyped, CancelStarts
    <2>7. RemoversTyped'
        BY <1>14 DEF RemoversTyped, CancelStarts, Removing, IdleRemover
    <2>8. ServerTyped' BY <1>14 DEF ServerTyped, CancelStarts, history
    <2>9. RowsAgree'
        BY <1>14 DEF RowsAgree, CancelStarts, disk, history, Cancellable, Failed
    <2>10. UploadsAgree'
        BY <1>14 DEF UploadsAgree, Running, CancelStarts, disk, Failed
    <2>11. JobAgrees'
        BY <1>14 DEF JobAgrees, Running, Adoptable, CancelStarts, disk, Locked,
            Failed
    <2>12. CancelAgrees'
        BY <1>14 DEF CancelAgrees, Running, CancelStarts, disk, Cancellable,
            Failed, RowsTyped
    <2>13. LockExcludes'
        BY <1>14 DEF LockExcludes, CancelStarts, Locked, Removing,
            CancellersTyped, RemoversTyped
    <2>14. RemovalSucceeds'
        BY <1>14 DEF RemovalSucceeds, CancelStarts, disk, Cancellable, Removing,
            Adoptable, RemoversTyped
    <2>15. StaysComplete'
        BY <1>14 DEF StaysComplete, Running, Locked, Adoptable, CancelStarts,
            disk, Failed
    <2>16. StartUpDecides'
        BY <1>14 DEF StartUpDecides, Running, Idle, IdleCancel, CancelStarts
    <2>17. GateExcludes' BY <1>14 DEF GateExcludes, CancelStarts, Cancellable
    <2> QED BY <2>1, <2>2, <2>3, <2>4, <2>5, <2>6, <2>7, <2>8, <2>9, <2>10, <2>11, <2>12, <2>13,
               <2>14, <2>15, <2>16, <2>17 DEF ImportInv
<1>15. ASSUME NEW i \in Imports, CancelRefused(i)
      PROVE  ImportInv'
    <2>1. (RowsTyped /\ DiskTyped /\ AddersTyped /\ FlagsTyped /\ CancellersTyped /\ JobsTyped
           /\ RemoversTyped /\ ServerTyped /\ UploadsAgree /\ LockExcludes /\ RemovalSucceeds
           /\ StartUpDecides)'
        BY <1>15 DEF RowsTyped, CancelRefused, rows, memory, history, DiskTyped,
            disk, AddersTyped, FlagsTyped, CancellersTyped, Statuses, IdleCancel, JobsTyped,
            RemoversTyped, ServerTyped, UploadsAgree, Running, LockExcludes, RemovalSucceeds,
            StartUpDecides, Idle
    <2>2. RowsAgree'
        BY <1>15 DEF RowsAgree, CancelRefused, rows, disk, memory, history
    <2>3. JobAgrees'
        BY <1>15 DEF JobAgrees, Running, Adoptable, CancelRefused, rows, disk
    <2>4. CancelAgrees'
        BY <1>15 DEF CancelAgrees, Running, CancelRefused, rows, disk, IdleCancel
    <2>5. StaysComplete'
        BY <1>15 DEF StaysComplete, Running, Locked, Adoptable, CancelRefused,
            rows, disk
    <2>6. GateExcludes'
        BY <1>15 DEF GateExcludes, Running, Leased, Locked, Beginning,
            CancelRefused, rows, disk, IdleCancel
    <2> QED BY <2>1, <2>2, <2>3, <2>4, <2>5, <2>6 DEF ImportInv
<1>16. ASSUME NEW i \in Imports, CancelEnds(i)
      PROVE  ImportInv'
    <2>1. RowsTyped' BY <1>16 DEF RowsTyped, CancelEnds, rows, memory, history
    <2>2. DiskTyped' BY <1>16 DEF DiskTyped, CancelEnds, disk, memory, history
    <2>3. AddersTyped' BY <1>16 DEF AddersTyped, CancelEnds
    <2>4. FlagsTyped' BY <1>16 DEF FlagsTyped, CancelEnds
    <2>5. CancellersTyped'
        BY <1>16 DEF CancellersTyped, Statuses, CancelEnds, IdleCancel
    <2>6. JobsTyped' BY <1>16 DEF JobsTyped, CancelEnds
    <2>7. RemoversTyped' BY <1>16 DEF RemoversTyped, CancelEnds, IdleRemover
    <2>8. ServerTyped' BY <1>16 DEF ServerTyped, CancelEnds
    <2>9. RowsAgree'
        BY <1>16 DEF RowsAgree, CancelEnds, rows, disk, memory, history
    <2>10. UploadsAgree'
        BY <1>16 DEF UploadsAgree, Running, CancelEnds, rows, disk
    <2>11. JobAgrees'
        BY <1>16 DEF JobAgrees, Running, Adoptable, CancelEnds, rows, disk
    <2>12. CancelAgrees'
        BY <1>16 DEF CancelAgrees, Running, CancelEnds, rows, disk, IdleCancel
    <2>13. LockExcludes'
        BY <1>16 DEF LockExcludes, CancelEnds, IdleRemover, IdleCancel,
            CancellersTyped, RemoversTyped
    <2>14. RemovalSucceeds'
        BY <1>16 DEF RemovalSucceeds, CancelEnds, disk, IdleRemover, IdleCancel
    <2>15. StaysComplete'
        BY <1>16 DEF StaysComplete, Locked, Adoptable, CancelEnds, rows, disk,
            Removed, CancelAgrees, RemovalSucceeds
    <2>16. StartUpDecides'
        BY <1>16 DEF StartUpDecides, Running, Idle, IdleCancel, CancelEnds
    <2>17. GateExcludes' BY <1>16 DEF GateExcludes, Leased, Locked, CancelEnds
    <2> QED BY <2>1, <2>2, <2>3, <2>4, <2>5, <2>6, <2>7, <2>8, <2>9, <2>10, <2>11, <2>12, <2>13,
               <2>14, <2>15, <2>16, <2>17 DEF ImportInv
<1>17. ASSUME NEW i \in Imports, CancelSettles(i)
      PROVE  ImportInv'
    <2>1. (RowsTyped /\ AddersTyped /\ FlagsTyped /\ CancellersTyped /\ JobsTyped /\ RemoversTyped
           /\ ServerTyped /\ RowsAgree /\ UploadsAgree /\ LockExcludes /\ RemovalSucceeds
           /\ StartUpDecides /\ GateExcludes)'
        BY <1>17 DEF RowsTyped, Statuses, CancelSettles, Failed, AddersTyped,
            FlagsTyped, CancellersTyped, IdleCancel, JobsTyped, RemoversTyped, ServerTyped,
            RowsAgree, disk, CancelAgrees, UploadsAgree, Running, LockExcludes, RemovalSucceeds,
            StartUpDecides, Idle, GateExcludes, Leased, Locked
    <2>2. DiskTyped'
        BY <1>17 DEF DiskTyped, CancelSettles, rows, disk, memory, history
    <2>3. JobAgrees'
        BY <1>17 DEF JobAgrees, Running, Adoptable, CancelSettles, disk, Failed,
            LockExcludes
    <2>4. CancelAgrees'
        BY <1>17 DEF CancelAgrees, Running, CancelSettles, disk, Failed,
            IdleCancel, CancellersTyped
    <2>5. StaysComplete'
        BY <1>17 DEF StaysComplete, Running, Locked, Adoptable, CancelSettles,
            disk, Failed, RowsTyped
    <2> QED BY <2>1, <2>2, <2>3, <2>4, <2>5 DEF ImportInv
<1>18. ASSUME NEW i \in Imports, Complete(i)
      PROVE  ImportInv'
    <2>1. Completed(i)
        BY <1>18, Completing
    <2>2. RowsTyped'
        BY <1>18, <2>1 DEF Complete, Completed, RowsTyped
    <2>3. DiskTyped' BY <1>18, <2>1 DEF DiskTyped, Complete, disk
    <2>4. AddersTyped' BY <1>18, <2>1 DEF AddersTyped, Complete
    <2>5. FlagsTyped' BY <1>18, <2>1 DEF FlagsTyped, Complete
    <2>6. CancellersTyped' BY <1>18, <2>1 DEF CancellersTyped, Complete
    <2>7. JobsTyped' BY <1>18, <2>1 DEF JobsTyped, Complete
    <2>8. RemoversTyped' BY <1>18, <2>1 DEF RemoversTyped, Complete
    <2>9. ServerTyped' BY <1>18, <2>1 DEF ServerTyped, Complete, history
    <2>10. RowsAgree'
        BY <1>18, <2>1 DEF RowsAgree, Complete, disk, history, Startable,
            RowsTyped
    <2>11. UploadsAgree'
        BY <1>18, <2>1 DEF UploadsAgree, Running, Complete, disk, Startable,
            RowsTyped
    <2>12. JobAgrees'
        BY <1>18, <2>1, ImportAssumption DEF JobAgrees, Running, Adoptable, Complete, rows, disk,
            Admitted, Locked, Startable, Jobless, RowsTyped, DiskTyped, AddersTyped, FlagsTyped,
            CancellersTyped, JobsTyped, RemoversTyped, ServerTyped
    <2>13. CancelAgrees'
        BY <1>18, <2>1 DEF CancelAgrees, Running, Complete, disk, RowsTyped
    <2>14. LockExcludes'
        BY <1>18, <2>1 DEF Complete, Completed, LockExcludes
    <2>15. RemovalSucceeds' BY <1>18, <2>1 DEF RemovalSucceeds, Complete, disk
    <2>16. StaysComplete'
        <3>1. status'[i] # status[i] =>
                  status[i] = "uploading" /\ Running /\ dir[i] /\ stored[i] = Files[i]
            BY <1>18, <2>1 DEF Complete, Completed, Startable, Admitted, Running
        <3>2. stored[i] = Files[i] => \A s \in Slots : adder[i][s] = "idle"
            BY DEF UploadsAgree
        <3>3. ASSUME status'[i] # status[i] PROVE Adoptable(i)
            <4>1. /\ {s \in Slots : adder[i][s] = "copying"} = {}
                  /\ {s \in Slots : adder[i][s] = "linked"} = {}
                BY <3>1, <3>2, <3>3
            <4>2. /\ temps[i] = {s \in Slots : adder[i][s] = "copying"}
                  /\ finals[i] = stored[i] \cup {s \in Slots : adder[i][s] = "linked"}
                BY <3>1, <3>3 DEF UploadsAgree
            <4> QED BY <3>1, <3>3, <4>1, <4>2 DEF Adoptable
        <3>4. ASSUME NEW j \in Imports
              PROVE  Locked(j)' = Locked(j) /\ Adoptable(j)' = Adoptable(j)
            BY <1>18, <2>1 DEF Complete, Completed, Locked, Adoptable, disk
        <3> QED BY <1>18, <2>1, <3>3, <3>4 DEF Complete, Completed, StaysComplete, disk, Running
    <2>17. StartUpDecides'
        BY <1>18, <2>1 DEF StartUpDecides, Running, Complete, Admitted
    <2>18. GateExcludes'
        BY <1>18, <2>1 DEF GateExcludes, Running, Leased, Locked, Beginning,
            Complete, disk, Startable
    <2> QED BY <2>2, <2>3, <2>4, <2>5, <2>6, <2>7, <2>8, <2>9, <2>10, <2>11, <2>12, <2>13, <2>14,
               <2>15, <2>16, <2>17, <2>18 DEF ImportInv
<1>19. ASSUME NEW i \in Imports, JobEnters(i)
      PROVE  ImportInv'
    <2>1. PICK pc \in {"check", "parse", "fail", "attach", "report"}, code \in Statuses :
              Entered(i, pc, code)
        BY <1>19, Entering
    <2>2. (RowsTyped /\ DiskTyped /\ AddersTyped /\ FlagsTyped /\ CancellersTyped /\ RemoversTyped
           /\ ServerTyped /\ UploadsAgree /\ CancelAgrees /\ RemovalSucceeds /\ StartUpDecides)'
        BY <1>19, <2>1 DEF RowsTyped, JobEnters, rows, DiskTyped, AddersTyped,
            FlagsTyped, CancellersTyped, RemoversTyped, ServerTyped, history, UploadsAgree, Running,
            CancelAgrees, RemovalSucceeds, StartUpDecides, Idle, IdleJob
    <2>3. JobsTyped'
        BY <2>1 DEF Entered, Goes, JobsTyped
    <2>4. RowsAgree'
        BY <1>19, <2>1 DEF RowsAgree, JobEnters, rows, disk, memory, history
    <2>5. JobAgrees'
        <3>1. ASSUME NEW j \in Imports \ {i}
              PROVE  job'[j] = job[j] /\ Adoptable(j)' = Adoptable(j)
            BY <1>19, <2>1 DEF JobEnters, Entered, Goes, Adoptable, rows
        <3>2. /\ job'[i].pc = pc /\ job'[i].code = code /\ job[i].pc = "start"
              /\ Adoptable(i)' = Adoptable(i) /\ UNCHANGED <<status, formal, server>>
            BY <1>19, <2>1 DEF JobEnters, Entered, Goes, Adoptable, rows
        <3>3. formal[i] = "absent" /\ status[i] # "finalizing" =>
                  status[i] \in {"none", "uploading", "failed", "cancelled"}
            BY DEF RowsAgree, RowsTyped, Statuses
        <3> QED BY <2>1, <3>1, <3>2, <3>3 DEF Entered, JobAgrees, Running
    <2>6. LockExcludes'
        BY <1>19, <2>1 DEF JobEnters, Entered, Goes, Locked, LockExcludes
    <2>7. StaysComplete'
        BY <1>19, <2>1 DEF JobEnters, Entered, Goes, Locked, StaysComplete, Running, Adoptable, rows
    <2>8. GateExcludes'
        <3>1. maintenance => pc = "report"
            BY <2>1 DEF Entered
        <3> QED BY <1>19, <2>1, <3>1
                DEF JobEnters, Entered, Goes, GateExcludes, Leased, Locked, Running, Beginning, rows
    <2> QED BY <2>2, <2>3, <2>4, <2>5, <2>6, <2>7, <2>8 DEF ImportInv
<1>20. ASSUME NEW i \in Imports, JobParses(i)
      PROVE  ImportInv'
    <2>1. PICK pc \in {"fail", "check"}, code \in Statuses :
              Goes(i, pc, code) /\ (pc = "fail" => code \in {"failed", "cancelled"})
        BY <1>20, JobSteps DEF JobParses, ParseOutcomes, Statuses
    <2>2. RowsTyped' BY <1>20, <2>1 DEF RowsTyped, JobParses, rows
    <2>3. DiskTyped' BY <1>20, <2>1 DEF DiskTyped, JobParses
    <2>4. AddersTyped' BY <1>20, <2>1 DEF AddersTyped, JobParses
    <2>5. FlagsTyped' BY <1>20, <2>1 DEF FlagsTyped, JobParses
    <2>6. CancellersTyped' BY <1>20, <2>1 DEF CancellersTyped, JobParses
    <2>7. JobsTyped'
        BY <1>20, <2>1 DEF JobsTyped, Statuses, JobParses, ParseOutcomes, JobGoes
    <2>8. RemoversTyped' BY <1>20, <2>1 DEF RemoversTyped, JobParses
    <2>9. ServerTyped' BY <1>20, <2>1 DEF ServerTyped, JobParses, history
    <2>10. RowsAgree'
        BY <1>20, <2>1 DEF RowsAgree, JobParses, rows, disk, memory, history
    <2>11. UploadsAgree' BY <1>20, <2>1 DEF UploadsAgree, Running, JobParses, rows
    <2>12. JobAgrees'
        <3>1. /\ UNCHANGED <<status, stored, dir, temps, finals, formal, server>>
              /\ job[i].pc = "parse"
            BY <1>20 DEF JobParses, rows
        <3> QED BY <2>1, <3>1 DEF Goes, JobAgrees, Running, Adoptable
    <2>13. CancelAgrees' BY <1>20, <2>1 DEF CancelAgrees, Running, JobParses, rows
    <2>14. LockExcludes'
        BY <1>20, <2>1 DEF JobParses, Goes, LockExcludes
    <2>15. RemovalSucceeds' BY <1>20, <2>1 DEF RemovalSucceeds, JobParses
    <2>16. StaysComplete'
        BY <1>20, <2>1 DEF JobParses, Goes, Locked, StaysComplete, Running, Adoptable, rows
    <2>17. StartUpDecides'
        BY <1>20, <2>1 DEF StartUpDecides, Running, Idle, IdleJob, JobParses
    <2>18. GateExcludes'
        BY <1>20, <2>1 DEF GateExcludes, Leased, Locked, JobParses
    <2> QED BY <2>2, <2>3, <2>4, <2>5, <2>6, <2>7, <2>8, <2>9, <2>10, <2>11, <2>12, <2>13, <2>14,
               <2>15, <2>16, <2>17, <2>18 DEF ImportInv
<1>21. ASSUME NEW i \in Imports, JobChecks(i)
      PROVE  ImportInv'
    <2>1. PICK pc \in {"fail", "publish"}, code \in Statuses :
              Goes(i, pc, code) /\ (pc = "fail" => code = "cancelled")
        BY <1>21, JobSteps DEF JobChecks, Statuses
    <2>2. RowsTyped' BY <1>21, <2>1 DEF RowsTyped, JobChecks, rows
    <2>3. DiskTyped' BY <1>21, <2>1 DEF DiskTyped, JobChecks, disk
    <2>4. AddersTyped' BY <1>21, <2>1 DEF AddersTyped, JobChecks
    <2>5. FlagsTyped' BY <1>21, <2>1 DEF FlagsTyped, JobChecks
    <2>6. CancellersTyped' BY <1>21, <2>1 DEF CancellersTyped, JobChecks
    <2>7. JobsTyped' BY <1>21, <2>1 DEF JobsTyped, Statuses, JobChecks, JobGoes
    <2>8. RemoversTyped' BY <1>21, <2>1 DEF RemoversTyped, JobChecks
    <2>9. ServerTyped' BY <1>21, <2>1 DEF ServerTyped, JobChecks, history
    <2>10. RowsAgree'
        BY <1>21, <2>1 DEF RowsAgree, JobChecks, rows, disk, memory, history
    <2>11. UploadsAgree'
        BY <1>21, <2>1 DEF UploadsAgree, Running, JobChecks, rows, disk
    <2>12. JobAgrees'
        BY <1>21, <2>1 DEF JobChecks, Goes, JobAgrees, Running, Adoptable, rows, disk
    <2>13. CancelAgrees'
        BY <1>21, <2>1 DEF CancelAgrees, Running, JobChecks, rows, disk
    <2>14. LockExcludes'
        BY <1>21, <2>1 DEF JobChecks, Goes, LockExcludes
    <2>15. RemovalSucceeds' BY <1>21, <2>1 DEF RemovalSucceeds, JobChecks, disk
    <2>16. StaysComplete'
        BY <1>21, <2>1 DEF JobChecks, Goes, Locked, StaysComplete, Running, Adoptable, rows, disk
    <2>17. StartUpDecides'
        BY <1>21, <2>1 DEF StartUpDecides, Running, Idle, IdleJob, JobChecks
    <2>18. GateExcludes'
        BY <1>21, <2>1 DEF GateExcludes, Leased, Locked, JobChecks
    <2> QED BY <2>2, <2>3, <2>4, <2>5, <2>6, <2>7, <2>8, <2>9, <2>10, <2>11, <2>12, <2>13, <2>14,
               <2>15, <2>16, <2>17, <2>18 DEF ImportInv
<1>22. ASSUME NEW i \in Imports, JobPublishes(i)
      PROVE  ImportInv'
    <2>1. (RowsTyped /\ DiskTyped /\ AddersTyped /\ FlagsTyped /\ CancellersTyped /\ JobsTyped
           /\ RemoversTyped /\ ServerTyped /\ CancelAgrees /\ LockExcludes /\ RemovalSucceeds
           /\ StartUpDecides /\ GateExcludes)'
        BY <1>22 DEF RowsTyped, JobPublishes, rows, DiskTyped, BatchRemoved,
            AddersTyped, FlagsTyped, CancellersTyped, JobsTyped, Statuses, JobGoes, RemoversTyped,
            ServerTyped, history, CancelAgrees, Running, LockExcludes, RemovalSucceeds,
            StartUpDecides, Idle, IdleJob, GateExcludes, Leased, Locked
    <2>2. RowsAgree'
        BY <1>22 DEF RowsAgree, JobPublishes, rows, history, BatchRemoved,
            JobAgrees
    <2>3. UploadsAgree'
        BY <1>22 DEF UploadsAgree, Running, JobPublishes, rows, BatchRemoved,
            JobAgrees
    <2>4. JobAgrees'
        BY <1>22 DEF JobAgrees, Running, Adoptable, JobPublishes, rows,
            BatchRemoved, JobGoes, JobsTyped
    <2>5. StaysComplete'
        BY <1>22 DEF StaysComplete, Running, Locked, Adoptable, JobPublishes,
            rows, BatchRemoved, JobGoes, DiskTyped
    <2> QED BY <2>1, <2>2, <2>3, <2>4, <2>5 DEF ImportInv
<1>23. ASSUME NEW i \in Imports, JobFails(i)
      PROVE  ImportInv'
    <2>1. RowsTyped' BY <1>23 DEF RowsTyped, JobFails, Failed, JobsTyped
    <2>2. DiskTyped' BY <1>23 DEF DiskTyped, JobFails, disk
    <2>3. AddersTyped' BY <1>23 DEF AddersTyped, JobFails
    <2>4. FlagsTyped' BY <1>23 DEF FlagsTyped, JobFails
    <2>5. CancellersTyped' BY <1>23 DEF CancellersTyped, JobFails
    <2>6. JobsTyped' BY <1>23 DEF JobsTyped, Statuses, JobFails, JobGoes
    <2>7. RemoversTyped'
        BY <1>23 DEF RemoversTyped, JobFails, Removing, IdleRemover
    <2>8. ServerTyped' BY <1>23 DEF ServerTyped, JobFails, history
    <2>9. RowsAgree'
        BY <1>23 DEF RowsAgree, JobFails, disk, history, Failed, JobAgrees
    <2>10. UploadsAgree'
        BY <1>23 DEF UploadsAgree, Running, JobFails, disk, Failed, JobAgrees
    <2>11. JobAgrees'
        BY <1>23 DEF JobAgrees, Running, Adoptable, JobFails, disk, Failed,
            JobGoes, RowsTyped, RowsAgree, Statuses
    <2>12. CancelAgrees'
        BY <1>23 DEF CancelAgrees, Running, JobFails, disk, Failed, LockExcludes
    <2>13. LockExcludes'
        BY <1>23 DEF LockExcludes, JobFails, Removing, JobGoes, JobsTyped,
            RemoversTyped
    <2>14. RemovalSucceeds'
        BY <1>23 DEF RemovalSucceeds, JobFails, disk, Removing, LockExcludes
    <2>15. StaysComplete'
        BY <1>23 DEF StaysComplete, Running, Locked, Adoptable, JobFails, disk,
            Failed, JobGoes
    <2>16. StartUpDecides'
        BY <1>23 DEF StartUpDecides, Running, Idle, IdleJob, JobFails
    <2>17. GateExcludes' BY <1>23 DEF GateExcludes, Leased, Locked, JobFails
    <2> QED BY <2>1, <2>2, <2>3, <2>4, <2>5, <2>6, <2>7, <2>8, <2>9, <2>10, <2>11, <2>12, <2>13,
               <2>14, <2>15, <2>16, <2>17 DEF ImportInv
<1>24. ASSUME NEW i \in Imports, JobRemoved(i)
      PROVE  ImportInv'
    <2>1. Goes(i, "report", "none")
        BY <1>24, JobSteps DEF JobRemoved, Statuses
    <2>2. (RowsTyped /\ DiskTyped /\ AddersTyped /\ FlagsTyped /\ CancellersTyped /\ JobsTyped
           /\ RemoversTyped /\ ServerTyped /\ UploadsAgree /\ CancelAgrees /\ RemovalSucceeds
           /\ StartUpDecides /\ GateExcludes)'
        BY <1>24, <2>1 DEF RowsTyped, JobRemoved, rows, DiskTyped, disk,
            AddersTyped, FlagsTyped, CancellersTyped, JobsTyped, Statuses, JobGoes, RemoversTyped,
            IdleRemover, ServerTyped, history, UploadsAgree, Running, CancelAgrees, RemovalSucceeds,
            StartUpDecides, Idle, IdleJob, GateExcludes, Leased, Locked
    <2>3. RowsAgree'
        BY <1>24, <2>1 DEF RowsAgree, JobRemoved, rows, disk, memory, history
    <2>4. JobAgrees'
        BY <1>24, <2>1 DEF JobAgrees, Running, Adoptable, JobRemoved, rows, disk,
            JobGoes
    <2>5. LockExcludes'
        BY <1>24, <2>1 DEF LockExcludes, JobRemoved, IdleRemover, JobGoes,
            JobsTyped, RemoversTyped
    <2>6. StaysComplete'
        BY <1>24, <2>1 DEF JobRemoved, Goes, Locked, StaysComplete, JobAgrees, Running, Adoptable,
                          rows, disk
    <2> QED BY <2>2, <2>3, <2>4, <2>5, <2>6 DEF ImportInv
<1>25. ASSUME NEW i \in Imports, Attach(i)
      PROVE  ImportInv'
    <2>1. (RowsTyped /\ DiskTyped /\ AddersTyped /\ FlagsTyped /\ CancellersTyped /\ JobsTyped
           /\ RemoversTyped /\ ServerTyped /\ UploadsAgree /\ CancelAgrees /\ LockExcludes
           /\ RemovalSucceeds /\ StartUpDecides /\ GateExcludes)'
        BY <1>25 DEF RowsTyped, Statuses, Attach, DiskTyped, disk, AddersTyped,
            FlagsTyped, CancellersTyped, JobsTyped, JobGoes, RemoversTyped, ServerTyped, history,
            UploadsAgree, Running, Linkable, CancelAgrees, Locked, LockExcludes, RemovalSucceeds,
            StartUpDecides, Idle, IdleJob, GateExcludes
    <2>2. RowsAgree'
        BY <1>25 DEF RowsAgree, Attach, disk, history, Linkable, FormalValid,
            RowsTyped
    <2>3. JobAgrees'
        BY <1>25 DEF JobAgrees, Running, Adoptable, Attach, disk, JobGoes
    <2>4. StaysComplete'
        BY <1>25 DEF StaysComplete, Running, Locked, Adoptable, Attach, disk,
            JobGoes
    <2> QED BY <2>1, <2>2, <2>3, <2>4 DEF ImportInv
<1>26. ASSUME NEW i \in Imports, AttachFails(i)
      PROVE  ImportInv'
    <2>1. (RowsTyped /\ DiskTyped /\ AddersTyped /\ FlagsTyped /\ CancellersTyped /\ JobsTyped
           /\ RemoversTyped /\ ServerTyped /\ UploadsAgree /\ CancelAgrees /\ LockExcludes
           /\ RemovalSucceeds /\ StartUpDecides)'
        BY <1>26 DEF RowsTyped, AttachFails, rows, DiskTyped, disk, AddersTyped,
            FlagsTyped, CancellersTyped, JobsTyped, Statuses, JobGoes, RemoversTyped, ServerTyped,
            history, UploadsAgree, Running, CancelAgrees, LockExcludes, RemovalSucceeds,
            StartUpDecides, Idle, IdleJob
    <2>2. RowsAgree'
        BY <1>26 DEF RowsAgree, AttachFails, rows, disk, memory, history
    <2>3. JobAgrees'
        BY <1>26 DEF JobAgrees, Running, Adoptable, AttachFails, rows, disk,
            JobGoes
    <2>4. StaysComplete'
        BY <1>26 DEF StaysComplete, Running, Locked, Adoptable, AttachFails, rows,
            disk, JobGoes
    <2>5. GateExcludes'
        BY <1>26 DEF GateExcludes, Running, Leased, Locked, Beginning,
            AttachFails, rows, disk, JobGoes
    <2> QED BY <2>1, <2>2, <2>3, <2>4, <2>5 DEF ImportInv
<1>27. ASSUME NEW i \in Imports, JobReports(i)
      PROVE  ImportInv'
    <2>1. (RowsTyped /\ DiskTyped /\ AddersTyped /\ FlagsTyped /\ CancellersTyped /\ JobsTyped
           /\ RemoversTyped /\ ServerTyped /\ UploadsAgree /\ CancelAgrees /\ LockExcludes
           /\ RemovalSucceeds /\ StartUpDecides)'
        BY <1>27 DEF RowsTyped, JobReports, rows, DiskTyped, disk, AddersTyped,
            FlagsTyped, CancellersTyped, JobsTyped, Statuses, JobGoes, RemoversTyped, ServerTyped,
            history, UploadsAgree, Running, CancelAgrees, LockExcludes, RemovalSucceeds,
            StartUpDecides, Idle, IdleJob
    <2>2. RowsAgree'
        BY <1>27 DEF RowsAgree, JobReports, rows, disk, memory, history
    <2>3. JobAgrees'
        BY <1>27 DEF JobAgrees, Running, Adoptable, JobReports, rows, disk,
            JobGoes
    <2>4. StaysComplete'
        BY <1>27 DEF StaysComplete, Running, Locked, Adoptable, JobReports, rows,
            disk, JobGoes
    <2>5. GateExcludes'
        BY <1>27 DEF GateExcludes, Running, Leased, Locked, Beginning, JobReports,
            rows, disk, JobGoes
    <2> QED BY <2>1, <2>2, <2>3, <2>4, <2>5 DEF ImportInv
<1>28. ASSUME NEW i \in Imports, CloseCancels(i)
      PROVE  ImportInv'
    <2>1. Ceases(i)
        BY <1>28, Closing
    <2>2. RowsTyped' BY <1>28, <2>1 DEF RowsTyped, CloseCancels, rows
    <2>3. DiskTyped' BY <1>28, <2>1 DEF DiskTyped, CloseCancels, disk
    <2>4. AddersTyped' BY <1>28, <2>1 DEF AddersTyped, CloseCancels
    <2>5. FlagsTyped'
        BY <1>28 DEF CloseCancels, FlagsTyped
    <2>6. CancellersTyped'
        BY <1>28, <2>1 DEF CancellersTyped, Statuses, CloseCancels
    <2>7. JobsTyped' BY <1>28, <2>1 DEF JobsTyped, CloseCancels
    <2>8. RemoversTyped' BY <1>28, <2>1 DEF RemoversTyped, CloseCancels
    <2>9. ServerTyped' BY <1>28, <2>1 DEF ServerTyped, CloseCancels, history
    <2>10. RowsAgree'
        BY <1>28, <2>1 DEF RowsAgree, CloseCancels, rows, disk, memory, history
    <2>11. UploadsAgree'
        BY <1>28, <2>1 DEF UploadsAgree, Running, CloseCancels, rows, disk
    <2>12. JobAgrees'
        BY <1>28, <2>1 DEF JobAgrees, Running, Adoptable, CloseCancels, rows, disk
    <2>13. CancelAgrees'
        BY <1>28, <2>1 DEF CloseCancels, Ceases, CancelAgrees, Running, rows, disk
    <2>14. LockExcludes'
        BY <1>28, <2>1 DEF CloseCancels, Ceases, LockExcludes
    <2>15. RemovalSucceeds'
        BY <1>28, <2>1 DEF CloseCancels, Ceases, RemovalSucceeds, disk
    <2>16. StaysComplete'
        BY <1>28, <2>1 DEF CloseCancels, Ceases, StaysComplete, Locked, Running, Adoptable, rows,
                           disk
    <2>17. StartUpDecides'
        BY <1>28, <2>1 DEF StartUpDecides, Running, CloseCancels
    <2>18. GateExcludes'
        BY <1>28, <2>1 DEF CloseCancels, Ceases, GateExcludes, Leased, Locked, Running, Beginning,
                           rows, disk
    <2> QED BY <2>2, <2>3, <2>4, <2>5, <2>6, <2>7, <2>8, <2>9, <2>10, <2>11, <2>12, <2>13, <2>14,
               <2>15, <2>16, <2>17, <2>18 DEF ImportInv
<1>29. ASSUME NEW i \in Imports, Damage(i)
      PROVE  ImportInv'
    <2>1. (RowsTyped /\ DiskTyped /\ AddersTyped /\ FlagsTyped /\ CancellersTyped /\ JobsTyped
           /\ RemoversTyped /\ ServerTyped /\ RowsAgree /\ LockExcludes /\ RemovalSucceeds)'
        BY <1>29 DEF RowsTyped, Damage, rows, DiskTyped, AddersTyped, memory,
            FlagsTyped, CancellersTyped, JobsTyped, RemoversTyped, ServerTyped, RowsAgree,
            LockExcludes, RemovalSucceeds
    <2>2. UploadsAgree'
        BY <1>29 DEF UploadsAgree, Running, Damage, rows, disk, memory, history
    <2>3. JobAgrees'
        BY <1>29 DEF JobAgrees, Running, Adoptable, Damage, rows, disk, memory,
            history
    <2>4. CancelAgrees'
        BY <1>29 DEF CancelAgrees, Running, Damage, rows, disk, memory, history
    <2>5. StaysComplete'
        BY <1>29 DEF StaysComplete, Running, Locked, Adoptable, Damage, rows,
            disk, memory, history
    <2>6. StartUpDecides'
        BY <1>29 DEF StartUpDecides, Running, Idle, Adoptable, Damage, rows,
            memory
    <2>7. GateExcludes'
        BY <1>29 DEF GateExcludes, Running, Leased, Locked, Beginning, Damage,
            rows, disk, memory, history
    <2> QED BY <2>1, <2>2, <2>3, <2>4, <2>5, <2>6, <2>7 DEF ImportInv
<1>30. ASSUME BackupStarts
      PROVE  ImportInv'
    <2>1. (RowsTyped /\ DiskTyped /\ AddersTyped /\ FlagsTyped /\ CancellersTyped /\ JobsTyped
           /\ RemoversTyped /\ ServerTyped /\ UploadsAgree /\ CancelAgrees /\ LockExcludes
           /\ RemovalSucceeds /\ StartUpDecides)'
        BY <1>30 DEF RowsTyped, BackupStarts, rows, DiskTyped, disk, AddersTyped,
            FlagsTyped, CancellersTyped, JobsTyped, RemoversTyped, ServerTyped, history,
            UploadsAgree, Running, CancelAgrees, LockExcludes, RemovalSucceeds, StartUpDecides
    <2>2. RowsAgree'
        BY <1>30 DEF RowsAgree, BackupStarts, rows, disk, memory, history
    <2>3. JobAgrees'
        BY <1>30 DEF JobAgrees, Running, Adoptable, BackupStarts, rows, disk
    <2>4. StaysComplete'
        BY <1>30 DEF StaysComplete, Locked, Adoptable, BackupStarts, rows, disk
    <2>5. GateExcludes'
        BY <1>30 DEF GateExcludes, Running, Leased, Locked, Beginning,
            BackupStarts, rows, disk
    <2> QED BY <2>1, <2>2, <2>3, <2>4, <2>5 DEF ImportInv
<1>31. ASSUME BackupEnds
      PROVE  ImportInv'
    <2>1. (RowsTyped /\ DiskTyped /\ AddersTyped /\ CancellersTyped /\ JobsTyped /\ RemoversTyped
           /\ ServerTyped /\ UploadsAgree /\ CancelAgrees /\ LockExcludes /\ RemovalSucceeds
           /\ StartUpDecides /\ GateExcludes)'
        BY <1>31 DEF RowsTyped, BackupEnds, rows, DiskTyped, disk, AddersTyped,
            CancellersTyped, JobsTyped, RemoversTyped, ServerTyped, history, UploadsAgree, Running,
            CancelAgrees, LockExcludes, RemovalSucceeds, StartUpDecides, Idle, GateExcludes
    <2>2. FlagsTyped'
        BY <1>31 DEF BackupEnds, FlagsTyped
    <2>3. RowsAgree'
        BY <1>31 DEF RowsAgree, BackupEnds, rows, disk, memory, history
    <2>4. JobAgrees'
        BY <1>31 DEF JobAgrees, Running, Adoptable, BackupEnds, rows, disk
    <2>5. StaysComplete'
        BY <1>31 DEF StaysComplete, Running, Locked, Adoptable, BackupEnds, rows,
            disk
    <2> QED BY <2>1, <2>2, <2>3, <2>4, <2>5 DEF ImportInv
<1>32. ASSUME Close
      PROVE  ImportInv'
    <2>1. (RowsTyped /\ DiskTyped /\ AddersTyped /\ FlagsTyped /\ CancellersTyped /\ JobsTyped
           /\ RemoversTyped /\ RowsAgree /\ LockExcludes /\ RemovalSucceeds /\ StartUpDecides)'
        BY <1>32 DEF RowsTyped, Close, rows, DiskTyped, disk, AddersTyped, memory,
            FlagsTyped, CancellersTyped, JobsTyped, RemoversTyped, RowsAgree, history, LockExcludes,
            RemovalSucceeds, StartUpDecides, Running
    <2>2. ServerTyped'
        <3>1. start' \in [scan : SUBSET Imports, remove : SUBSET Imports, link : SUBSET Imports]
            BY <1>32 DEF Close, NoStart
        <3> QED BY <3>1, <1>32 DEF Close, ServerTyped, history
    <2>3. UploadsAgree'
        BY <1>32 DEF UploadsAgree, Running, Close, rows, disk, memory
    <2>4. JobAgrees'
        BY <1>32 DEF JobAgrees, Running, Adoptable, Close, rows, disk, memory
    <2>5. CancelAgrees'
        BY <1>32 DEF CancelAgrees, Running, Close, rows, disk, memory
    <2>6. StaysComplete'
        BY <1>32 DEF StaysComplete, Running, Locked, Adoptable, Close, rows, disk,
            memory
    <2>7. GateExcludes'
        BY <1>32 DEF GateExcludes, Running, Leased, Locked, Beginning, Close,
            rows, disk, memory
    <2> QED BY <2>1, <2>2, <2>3, <2>4, <2>5, <2>6, <2>7 DEF ImportInv
<1>33. ASSUME Closed
      PROVE  ImportInv'
    <2>1. (RowsTyped /\ DiskTyped /\ AddersTyped /\ CancellersTyped /\ JobsTyped /\ RemoversTyped
           /\ RowsAgree /\ UploadsAgree /\ JobAgrees /\ CancelAgrees /\ RemovalSucceeds
           /\ StaysComplete /\ StartUpDecides /\ GateExcludes)'
        BY <1>33 DEF RowsTyped, Closed, rows, Dies, DiskTyped, disk, AddersTyped,
            CancellersTyped, Statuses, IdleCancel, JobsTyped, IdleJob, RemoversTyped, IdleRemover,
            RowsAgree, UploadsAgree, Running, JobAgrees, CancelAgrees, RemovalSucceeds,
            StaysComplete, StartUpDecides, Idle, GateExcludes
    <2>2. FlagsTyped'
        BY <1>33 DEF Closed, Dies, FlagsTyped
    <2>3. ServerTyped'
        <3>1. start' \in [scan : SUBSET Imports, remove : SUBSET Imports, link : SUBSET Imports]
            BY <1>33 DEF Closed, Dies, NoStart
        <3> QED BY <3>1, <1>33, ImportAssumption DEF Closed, Dies, ServerTyped
    <2>4. LockExcludes'
        BY <1>33 DEF LockExcludes, Closed, Dies, IdleCancel, IdleJob, IdleRemover
    <2> QED BY <2>1, <2>2, <2>3, <2>4 DEF ImportInv
<1>34. ASSUME Crash
      PROVE  ImportInv'
    <2>1. (RowsTyped /\ DiskTyped /\ AddersTyped /\ CancellersTyped /\ JobsTyped /\ RemoversTyped
           /\ ServerTyped /\ RowsAgree /\ UploadsAgree /\ JobAgrees /\ CancelAgrees
           /\ RemovalSucceeds /\ StaysComplete /\ StartUpDecides /\ GateExcludes)'
        BY <1>34, ImportAssumption DEF RowsTyped, Crash, rows, Dies, DiskTyped, disk, AddersTyped,
            CancellersTyped, Statuses, IdleCancel, JobsTyped, IdleJob, RemoversTyped, IdleRemover,
            ServerTyped, NoStart, RowsAgree, UploadsAgree, Running, JobAgrees, CancelAgrees,
            RemovalSucceeds, StaysComplete, StartUpDecides, Idle, GateExcludes
    <2>2. FlagsTyped'
        BY <1>34 DEF Crash, Dies, FlagsTyped
    <2>3. LockExcludes'
        BY <1>34 DEF LockExcludes, Crash, Dies, IdleCancel, IdleJob, IdleRemover
    <2> QED BY <2>1, <2>2, <2>3 DEF ImportInv
<1>35. ASSUME Boot
      PROVE  ImportInv'
    <2>1. (RowsTyped /\ DiskTyped /\ AddersTyped /\ FlagsTyped /\ CancellersTyped /\ JobsTyped
           /\ RemoversTyped /\ ServerTyped /\ RowsAgree /\ UploadsAgree /\ JobAgrees
           /\ CancelAgrees /\ LockExcludes /\ RemovalSucceeds /\ StaysComplete /\ GateExcludes)'
        BY <1>35 DEF RowsTyped, Boot, rows, DiskTyped, AddersTyped, memory,
            FlagsTyped, CancellersTyped, JobsTyped, RemoversTyped, ServerTyped, history, NoStart,
            RowsAgree, UploadsAgree, Running, JobAgrees, CancelAgrees, LockExcludes,
            RemovalSucceeds, StaysComplete, GateExcludes
    <2>2. StartUpDecides'
        BY <1>35 DEF StartUpDecides, Running, Idle, Boot, rows, memory, NoStart
    <2> QED BY <2>1, <2>2 DEF ImportInv
<1>36. ASSUME Up
      PROVE  ImportInv'
    BY <1>36 DEF RowsTyped, Statuses, Up, Unavailable, DiskTyped, disk, AddersTyped, memory,
        FlagsTyped, CancellersTyped, JobsTyped, RemoversTyped, ServerTyped, history, RowsAgree,
        UploadsAgree, Running, StartUpDecides, JobAgrees, CancelAgrees, LockExcludes,
        RemovalSucceeds, StaysComplete, Adoptable, GateExcludes, ImportInv
<1>37. ASSUME NEW i \in Imports, Recover(i)
      PROVE  ImportInv'
    <2>1. (RowsTyped /\ DiskTyped /\ AddersTyped /\ FlagsTyped /\ CancellersTyped /\ JobsTyped
           /\ RemoversTyped /\ ServerTyped /\ UploadsAgree /\ JobAgrees /\ CancelAgrees
           /\ LockExcludes /\ RemovalSucceeds /\ StaysComplete /\ GateExcludes)'
        BY <1>37 DEF RowsTyped, Statuses, Recover, Recovered, Failed, DiskTyped,
            disk, AddersTyped, memory, FlagsTyped, CancellersTyped, JobsTyped, RemoversTyped,
            ServerTyped, history, UploadsAgree, Running, JobAgrees, CancelAgrees, LockExcludes,
            RemovalSucceeds, StaysComplete, GateExcludes
    <2>2. RowsAgree'
        BY <1>37 DEF RowsAgree, Recover, disk, history, Recovered, FormalValid,
            Failed
    <2>3. StartUpDecides'
        BY <1>37 DEF StartUpDecides, Running, Idle, Adoptable, Recover, disk,
            memory, Recovered, FormalValid, Failed, RowsTyped, RowsAgree
    <2> QED BY <2>1, <2>2, <2>3 DEF ImportInv
<1>38. ASSUME NEW i \in Imports, RecoverRemoves(i)
      PROVE  ImportInv'
    <2>1. RowsTyped' BY <1>38 DEF RowsTyped, RecoverRemoves, rows
    <2>2. DiskTyped' BY <1>38 DEF DiskTyped, RecoverRemoves, BatchRemoved
    <2>3. AddersTyped' BY <1>38 DEF AddersTyped, RecoverRemoves, memory
    <2>4. FlagsTyped' BY <1>38 DEF FlagsTyped, RecoverRemoves, memory
    <2>5. CancellersTyped' BY <1>38 DEF CancellersTyped, RecoverRemoves, memory
    <2>6. JobsTyped' BY <1>38 DEF JobsTyped, RecoverRemoves, memory
    <2>7. RemoversTyped' BY <1>38 DEF RemoversTyped, RecoverRemoves, memory
    <2>8. ServerTyped' BY <1>38 DEF ServerTyped, RecoverRemoves, history
    <2>9. RowsAgree'
        BY <1>38 DEF RowsAgree, RecoverRemoves, rows, history, BatchRemoved
    <2>10. UploadsAgree'
        BY <1>38 DEF UploadsAgree, Running, RecoverRemoves, memory
    <2>11. JobAgrees' BY <1>38 DEF JobAgrees, Running, RecoverRemoves, memory
    <2>12. CancelAgrees'
        BY <1>38 DEF CancelAgrees, Running, RecoverRemoves, memory
    <2>13. LockExcludes' BY <1>38 DEF LockExcludes, RecoverRemoves, memory
    <2>14. RemovalSucceeds'
        BY <1>38 DEF RemovalSucceeds, RecoverRemoves, memory, CancelAgrees,
            Running
    <2>15. StaysComplete' BY <1>38 DEF StaysComplete, Running, RecoverRemoves
    <2>16. StartUpDecides'
        BY <1>38 DEF StartUpDecides, Running, Idle, Adoptable, RecoverRemoves,
            rows, memory, BatchRemoved
    <2>17. GateExcludes'
        BY <1>38 DEF GateExcludes, Running, RecoverRemoves, memory
    <2> QED BY <2>1, <2>2, <2>3, <2>4, <2>5, <2>6, <2>7, <2>8, <2>9, <2>10, <2>11, <2>12, <2>13,
               <2>14, <2>15, <2>16, <2>17 DEF ImportInv
<1>39. ASSUME NEW i \in Imports, RecoverLinks(i)
      PROVE  ImportInv'
    <2>1. (DiskTyped /\ AddersTyped /\ FlagsTyped /\ CancellersTyped /\ JobsTyped /\ RemoversTyped
           /\ ServerTyped /\ UploadsAgree /\ JobAgrees /\ CancelAgrees /\ LockExcludes
           /\ RemovalSucceeds /\ StaysComplete /\ GateExcludes)'
        BY <1>39 DEF DiskTyped, RecoverLinks, disk, AddersTyped, memory,
            FlagsTyped, CancellersTyped, JobsTyped, RemoversTyped, ServerTyped, history,
            UploadsAgree, Running, JobAgrees, CancelAgrees, LockExcludes, RemovalSucceeds,
            StaysComplete, GateExcludes
    <2>2. RowsTyped'
        BY <1>39 DEF RecoverLinks, Linkable, RowsTyped, Statuses
    <2>3. RowsAgree'
        BY <1>39 DEF RowsAgree, RecoverLinks, disk, history, Linkable,
            FormalValid, RowsTyped
    <2>4. StartUpDecides'
        BY <1>39 DEF StartUpDecides, Running, Idle, Adoptable, RecoverLinks, disk,
            memory, RowsTyped
    <2> QED BY <2>1, <2>2, <2>3, <2>4 DEF ImportInv
<1>40. CASE UNCHANGED vars
    <2>1. (RowsTyped /\ DiskTyped /\ AddersTyped /\ FlagsTyped /\ CancellersTyped /\ JobsTyped
           /\ RemoversTyped /\ ServerTyped /\ RowsAgree /\ LockExcludes /\ RemovalSucceeds)'
        BY <1>40 DEF RowsTyped, vars, rows, DiskTyped, disk, AddersTyped, memory,
            FlagsTyped, CancellersTyped, JobsTyped, RemoversTyped, ServerTyped, history, RowsAgree,
            LockExcludes, RemovalSucceeds
    <2>2. UploadsAgree'
        BY <1>40 DEF UploadsAgree, Running, vars, rows, disk, memory
    <2>3. JobAgrees'
        BY <1>40 DEF JobAgrees, Running, Adoptable, vars, rows, disk, memory
    <2>4. CancelAgrees'
        BY <1>40 DEF CancelAgrees, Running, vars, rows, disk, memory
    <2>5. StaysComplete'
        BY <1>40 DEF StaysComplete, Running, Locked, Adoptable, vars, rows, disk,
            memory
    <2>6. StartUpDecides'
        BY <1>40 DEF StartUpDecides, Running, Idle, Adoptable, vars, rows, disk,
            memory
    <2>7. GateExcludes'
        BY <1>40 DEF GateExcludes, Running, Leased, Locked, Beginning, vars, rows,
            disk, memory
    <2> QED BY <2>1, <2>2, <2>3, <2>4, <2>5, <2>6, <2>7 DEF ImportInv
<1>41. ASSUME NEW i \in Imports, Look(i)
      PROVE  ImportInv'
    <2>1. /\ UNCHANGED <<stored, linked, shown, disk, memory, server, start, history>>
          /\ status[i] = "ready" /\ ~Locked(i) /\ Running
          /\ status' = [status EXCEPT ![i] = "unavailable"]
        BY <1>41 DEF Look, Unavailable
    <2>2. (RowsTyped /\ DiskTyped /\ AddersTyped /\ FlagsTyped /\ CancellersTyped /\ JobsTyped
           /\ RemoversTyped /\ ServerTyped)'
        BY <2>1 DEF RowsTyped, Statuses, DiskTyped, AddersTyped, FlagsTyped, CancellersTyped,
            JobsTyped, RemoversTyped, ServerTyped, disk, memory, history
    <2>3. (RowsAgree /\ LockExcludes /\ RemovalSucceeds)'
        BY <2>1 DEF RowsTyped, RowsAgree, LockExcludes, RemovalSucceeds, disk, memory, history
    <2>4. UploadsAgree'
        BY <2>1 DEF RowsTyped, UploadsAgree, Running, disk, memory, history
    <2>5. JobAgrees'
        BY <2>1 DEF RowsTyped, JobAgrees, Running, Locked, Adoptable, disk, memory, history
    <2>6. CancelAgrees'
        BY <2>1 DEF RowsTyped, CancelAgrees, Running, Locked, disk, memory, history
    <2>7. StaysComplete'
        BY <2>1 DEF RowsTyped, StaysComplete, Running, Locked, Adoptable, disk, memory, history
    <2>8. StartUpDecides'
        BY <2>1 DEF RowsTyped, StartUpDecides, Running, Idle, Adoptable, disk, memory, history
    <2>9. GateExcludes'
        BY <2>1 DEF GateExcludes, Running, Leased, Locked, Beginning, disk, memory, history
    <2> QED BY <2>2, <2>3, <2>4, <2>5, <2>6, <2>7, <2>8, <2>9 DEF ImportInv
<1> QED BY <1>1, <1>2, <1>3, <1>4, <1>5, <1>6, <1>7, <1>8, <1>9, <1>10, <1>11, <1>12, <1>13, <1>14,
        <1>15, <1>16, <1>17, <1>18, <1>19, <1>20, <1>21, <1>22, <1>23, <1>24, <1>25, <1>26, <1>27,
        <1>28, <1>29, <1>30, <1>31, <1>32, <1>33, <1>34, <1>35, <1>36, <1>37, <1>38, <1>39, <1>40,
        <1>41 DEF ImportNext, Add, CancelStep, JobStep, Remove, BootStep

\* An empty store satisfies the invariant.
LEMMA ImportInitial == ImportInit => ImportInv
<1> SUFFICES ASSUME ImportInit
             PROVE  ImportInv
    OBVIOUS
<1> USE DEF ImportInit, Idle
<1>1. RowsTyped /\ DiskTyped
    BY DEF RowsTyped, DiskTyped, Statuses
<1>2. AddersTyped /\ FlagsTyped /\ RemoversTyped
    BY DEF AddersTyped, FlagsTyped, RemoversTyped, IdleRemover
<1>3. CancellersTyped /\ JobsTyped
    BY DEF CancellersTyped, JobsTyped, IdleCancel, IdleJob, Statuses
<1>4. ServerTyped
    BY ImportAssumption DEF ServerTyped, NoStart
<1>5. RowsAgree /\ UploadsAgree
    BY DEF RowsAgree, UploadsAgree
<1>6. JobAgrees /\ CancelAgrees
    BY DEF JobAgrees, CancelAgrees, IdleJob, IdleCancel
<1>7. LockExcludes /\ RemovalSucceeds
    BY DEF LockExcludes, RemovalSucceeds, IdleJob, IdleCancel, IdleRemover
<1>8. StaysComplete /\ StartUpDecides /\ GateExcludes
    BY DEF StaysComplete, StartUpDecides, GateExcludes, Running
<1> QED BY <1>1, <1>2, <1>3, <1>4, <1>5, <1>6, <1>7, <1>8 DEF ImportInv

\* It holds throughout.
LEMMA ImportInvariant == ImportSpec => []ImportInv
BY ImportInitial, ImportStep, PTL DEF ImportSpec

-----------------------------------------------------------------------------
(* What follows from it.                                                   *)

\* Every variable keeps its type; in particular nothing but the files of an import is ever in
\* its directory or among its rows.
THEOREM ImportTyping == ImportSpec => []ImportTypeOK
<1>1. ImportInv => ImportTypeOK
    <2> SUFFICES ASSUME ImportInv
                 PROVE  ImportTypeOK
        OBVIOUS
    <2>1. \A i \in Imports : stored[i] \cup temps[i] \cup finals[i] \subseteq Files[i]
        BY DEF ImportInv, RowsTyped, DiskTyped
    <2>2. \A i \in Imports : remover[i].pc \in {"none", "list", "unlink", "rmdir", "done", "failed"}
        BY DEF ImportInv, RemoversTyped
    <2>3. start.scan \cup start.remove \cup start.link \subseteq Imports
        BY DEF ImportInv, ServerTyped
    <2> QED BY <2>1, <2>2, <2>3
            DEF ImportInv, ImportTypeOK, RowsTyped, DiskTyped, AddersTyped, FlagsTyped,
                CancellersTyped, JobsTyped, ServerTyped
<1> QED BY <1>1, ImportInvariant, PTL

\* A batch that is complete and not in anybody's hands stays adoptable: neither a stray upload
\* nor half a removal makes _adopt_staging refuse it.
THEOREM BatchesStayComplete == ImportSpec => []StaysComplete
BY ImportInvariant, PTL DEF ImportInv

\* While a backup holds the gate, nobody is inside an upload, a removal, a parse or the begin
\* of an import.
THEOREM GateExcludesImports == ImportSpec => [](maintenance => ~Leased)
BY ImportInvariant, PTL DEF ImportInv, GateExcludes

\* What a step may do to the imports while a backup holds the gate (see QuietUnderBackup).
Quiet ==
    /\ UNCHANGED <<stored, linked, dir, temps, finals, gen>>
    /\ \A i \in Imports :
         /\ \/ formal'[i] = formal[i]
            \/ formal[i] = "whole" /\ formal'[i] = "damaged" /\ i \in harmed'
         /\ status'[i] = status[i] \/ (Unavailable(i) /\ status'[i] = "unavailable")

\* A step that touches no file, no directory and no row but for the failure shown is quiet.
LEMMA StillIsQuiet ==
    ASSUME UNCHANGED <<stored, linked, status, dir, temps, finals, gen, formal>>
    PROVE  Quiet
BY DEF Quiet

\* A step under the gate is quiet: whoever could do more is not there, and nobody enters.
LEMMA QuietStep ==
    ImportInv /\ [ImportNext]_vars => (maintenance /\ maintenance' => Quiet)
<1> SUFFICES ASSUME ImportInv, [ImportNext]_vars, maintenance, maintenance'
             PROVE  Quiet
    OBVIOUS
<1> DEFINE Still == UNCHANGED <<stored, linked, status, dir, temps, finals, gen, formal>>
<1>a. /\ Running /\ server # "boot" /\ server # "down"
      /\ \A i \in Imports : ~Locked(i) /\ ~Beginning(i) /\ \A s \in Slots : adder[i][s] = "idle"
    BY DEF ImportInv, GateExcludes, Leased, Running
<1>1. ASSUME NEW i \in Imports, BeginMakes(i) \/ BeginStores(i) \/ BeginFails(i)
      PROVE  Still
    BY <1>a, <1>1 DEF BeginMakes, BeginStores, BeginFails
<1>2. ASSUME NEW i \in Imports, NEW s \in Files[i], Add(i, s)
      PROVE  Still
    <2>1. s \in Slots
        BY <1>2, ImportAssumption
    <2> QED BY <1>a, <1>2, <2>1
            DEF Add, AddStarts, AddOpens, AddLinks, AddFails, AddStores, AddUndoes
<1>3. ASSUME NEW i \in Imports, CancelAsks(i) \/ CancelStep(i)
      PROVE  Still
    BY <1>a, <1>3 DEF CancelAsks, CancelStep, CancelStarts, CancelRefused, CancelEnds,
                     CancelSettles, Cancellable, Locked, rows, disk
<1>4. ASSUME NEW i \in Imports, Complete(i)
      PROVE  Still
    <2>1. ~Startable(i)
        BY DEF Startable
    <2> QED BY <1>4, <2>1 DEF Complete, rows, disk
<1>5. ASSUME NEW i \in Imports, JobStep(i)
      PROVE  Still
    <2>1. CASE JobEnters(i)
        <3>1. PICK pc \in {"check", "parse", "fail", "attach", "report"}, code \in Statuses :
                  Entered(i, pc, code)
            BY <2>1, Entering DEF ImportInv
        <3>2. gen' = gen
            BY <3>1 DEF Entered
        <3> QED BY <2>1, <3>2 DEF JobEnters, rows
    <2>2. CASE JobParses(i) \/ JobChecks(i) \/ JobPublishes(i) \/ JobFails(i) \/ JobRemoved(i)
        BY <1>a, <2>2 DEF JobParses, JobChecks, JobPublishes, JobFails, JobRemoved, Locked
    <2>3. CASE Attach(i) \/ AttachFails(i) \/ JobReports(i)
        BY <2>3 DEF Attach, AttachFails, JobReports, rows, disk
    <2> QED BY <1>5, <2>1, <2>2, <2>3 DEF JobStep
<1>6. ASSUME NEW i \in Imports, Remove(i)
      PROVE  Still
    <2>1. remover[i].pc = "none"
        BY <1>a DEF Locked, ImportInv, LockExcludes
    <2> QED BY <1>6, <2>1 DEF Remove, RemoveLists, RemoveUnlinks, RemoveRmdir
<1>7. ASSUME NEW i \in Imports, CloseCancels(i)
      PROVE  Still
    BY <1>7 DEF CloseCancels, rows, disk
<1>11. ASSUME NEW i \in Imports, Damage(i)
      PROVE  Quiet
    BY <1>11 DEF Quiet, Damage, rows, ImportInv, DiskTyped
<1>12. ASSUME NEW i \in Imports, Look(i)
      PROVE  Quiet
    BY <1>12 DEF Quiet, Look, disk, ImportInv, RowsTyped
<1>8. ASSUME BackupStarts \/ BackupEnds \/ Close \/ Closed \/ Crash
      PROVE  Still
    BY <1>8 DEF BackupStarts, BackupEnds, Close, Closed, Crash, Dies, rows, disk
<1>9. ASSUME BootStep
      PROVE  Still
    BY <1>a, <1>9 DEF BootStep, Boot, Up, Recover, RecoverRemoves, RecoverLinks
<1>10. ASSUME UNCHANGED vars
      PROVE  Still
    BY <1>10 DEF vars, rows, disk
<1> QED BY StillIsQuiet, <1>1, <1>2, <1>3, <1>4, <1>5, <1>6, <1>7, <1>8, <1>9, <1>10,
        <1>11, <1>12 DEF ImportNext

\* While a backup holds the gate the program itself moves nothing of an import, for any
\* imports, files and restarts; another program may damage a published file, and a look may
\* record such an import as unavailable, which needs no lease.
THEOREM QuietWhileBackedUp == ImportSpec => QuietUnderBackup
BY ImportInvariant, QuietStep, PTL DEF ImportSpec, QuietUnderBackup, Quiet

-----------------------------------------------------------------------------
(* An import is decided once.                                              *)

\* What users see of an import if it is never torn.
Plain(i) ==
    IF linked[i] THEN "linked"
    ELSE IF status[i] = "none" THEN "new"
    ELSE IF status[i] \in {"failed", "cancelled"} THEN "dropped"
    ELSE IF formal[i] # "absent" THEN "published" ELSE "open"

\* The phase of one import changes and nothing else does.
Moves(i, from, to) ==
    /\ PhaseOf(i) = from
    /\ [j \in Imports |-> PhaseOf(j)]' = [[j \in Imports |-> PhaseOf(j)] EXCEPT ![i] = to]

\* A step that touches the row and the publication of one import moves that import alone.
LEMMA OneMoves ==
    ASSUME StaysComplete, StaysComplete', NEW i \in Imports, NEW to, Plain(i)' = to,
           \A j \in Imports \ {i} : UNCHANGED <<linked[j], status[j], formal[j]>>
    PROVE  Moves(i, Plain(i), to)
<1>1. \A j \in Imports : PhaseOf(j) = Plain(j) /\ PhaseOf(j)' = Plain(j)'
    BY DEF StaysComplete, PhaseOf, Plain
<1>2. \A j \in Imports \ {i} : Plain(j)' = Plain(j)
    BY DEF Plain
<1> QED BY <1>1, <1>2 DEF Moves

\* No phase changes when none does that is read off a complete batch.
LEMMA NoneMoves ==
    ASSUME StaysComplete, StaysComplete', \A j \in Imports : Plain(j)' = Plain(j)
    PROVE  UNCHANGED [j \in Imports |-> PhaseOf(j)]
<1>1. \A j \in Imports : PhaseOf(j) = Plain(j) /\ PhaseOf(j)' = Plain(j)'
    BY DEF StaysComplete, PhaseOf, Plain
<1> QED BY <1>1

\* The moves of an import that the contract knows, apart from a confirmed cancellation.
LEMMA ContractMoves ==
    ASSUME NEW i \in Imports, NEW from, NEW to, Moves(i, from, to), UNCHANGED <<told, harmed>>,
           \/ from = "new" /\ to = "open"
           \/ from = "open" /\ to = "published"
           \/ from = "published" /\ to = "linked"
           \/ from = "open" /\ to = "dropped"
           \/ from = "published" /\ to = "dropped" /\ i \in harmed
    PROVE  Contract!ImportContractNext
<1> USE DEF Moves, Contract!Move
<1>1. CASE from = "new"
    <2>1. Contract!Open(i)
        BY <1>1 DEF Contract!Open
    <2> QED BY <2>1 DEF Contract!ImportContractNext
<1>2. CASE from = "open" /\ to = "published"
    <2>1. Contract!Publish(i)
        BY <1>2 DEF Contract!Publish
    <2> QED BY <2>1 DEF Contract!ImportContractNext
<1>3. CASE from = "published" /\ to = "linked"
    <2>1. Contract!Link(i)
        BY <1>3 DEF Contract!Link
    <2> QED BY <2>1 DEF Contract!ImportContractNext
<1>4. CASE to = "dropped"
    <2>1. Contract!Drop(i)
        BY <1>4 DEF Contract!Drop
    <2> QED BY <2>1 DEF Contract!ImportContractNext
<1> QED BY <1>1, <1>2, <1>3, <1>4

\* A cancellation that is confirmed finds the import open, or dropped before.
LEMMA ContractConfirms ==
    ASSUME NEW i \in Imports, NEW from \in {"open", "dropped"}, Moves(i, from, "dropped"),
           told' = told \cup {i}, UNCHANGED harmed
    PROVE  Contract!ImportContractNext
<1>1. Contract!Confirm(i)
    BY DEF Moves, Contract!Confirm
<1> QED BY <1>1 DEF Contract!ImportContractNext

\* Every step of the store is a step of the contract or none.
LEMMA ContractStep ==
    ImportInv /\ ImportInv' /\ [ImportNext]_vars =>
        [Contract!ImportContractNext]_(Contract!contract)
<1> DEFINE Kept == [Contract!ImportContractNext]_(Contract!contract)
<1> SUFFICES ASSUME ImportInv, ImportInv', [ImportNext]_vars
             PROVE  Kept
    OBVIOUS
<1>a. StaysComplete /\ StaysComplete' /\ RowsTyped /\ DiskTyped /\ RowsAgree
    BY DEF ImportInv
<1>b. ASSUME UNCHANGED <<linked, status, told, harmed>>,
             \A j \in Imports : formal'[j] = formal[j] \/ linked[j]
      PROVE  Kept
    <2>1. \A j \in Imports : Plain(j)' = Plain(j)
        BY <1>b DEF Plain
    <2> QED BY <1>a, <1>b, <2>1, NoneMoves DEF Contract!contract
<1>c. ASSUME NEW i \in Imports, NEW from, NEW to, Moves(i, from, to), UNCHANGED <<told, harmed>>,
             \/ from = "new" /\ to = "open"
             \/ from = "open" /\ to = "published"
             \/ from = "published" /\ to = "linked"
             \/ from = "open" /\ to = "dropped"
             \/ from = "published" /\ to = "dropped" /\ i \in harmed
      PROVE  Kept
    BY <1>c, ContractMoves
<1>d. ASSUME NEW i \in Imports, NEW from \in {"open", "dropped"}, Moves(i, from, "dropped"),
             told' = told \cup {i}, UNCHANGED harmed
      PROVE  Kept
    BY <1>d, ContractConfirms
<1>e. ASSUME UNCHANGED <<told, harmed>>, \A j \in Imports : Plain(j)' = Plain(j)
      PROVE  Kept
    BY <1>a, <1>e, NoneMoves DEF Contract!contract
<1> HIDE DEF Kept
<1>f. ASSUME NEW i \in Imports, Linkable(i), UNCHANGED <<formal, told, harmed>>,
             linked' = [linked EXCEPT ![i] = TRUE], status' = [status EXCEPT ![i] = "ready"]
      PROVE  Kept
    <2>1. Plain(i) = "published" /\ Plain(i)' = "linked"
        BY <1>a, <1>f DEF Plain, Linkable, FormalValid, RowsTyped
    <2>2. Moves(i, "published", "linked")
        BY <1>a, <1>f, <2>1, OneMoves DEF RowsTyped
    <2> QED BY <1>c, <1>f, <2>2
<1>1. ASSUME NEW i \in Imports,
             BeginMakes(i) \/ BeginFails(i) \/ CancelAsks(i) \/ Remove(i) \/ CloseCancels(i)
      PROVE  Kept
    BY <1>b, <1>1 DEF BeginMakes, BeginFails, CancelAsks, Remove, RemoveLists, RemoveUnlinks,
                     RemoveRmdir, CloseCancels, BatchRemoved, rows, disk, history
<1>2. ASSUME NEW i \in Imports, NEW s \in Files[i], Add(i, s)
      PROVE  Kept
    BY <1>b, <1>2 DEF Add, AddStarts, AddOpens, AddLinks, AddFails, AddStores, AddUndoes,
                     rows, disk, history
<1>3. ASSUME NEW i \in Imports, BeginStores(i)
      PROVE  Kept
    <2>1. /\ linked' = linked /\ formal' = formal /\ UNCHANGED <<told, harmed>>
          /\ status[i] = "none" /\ status' = [status EXCEPT ![i] = "uploading"]
        BY <1>3 DEF BeginStores, Beginning, disk, history
    <2>2. Plain(i) = "new" /\ Plain(i)' = "open"
        BY <1>a, <2>1 DEF Plain, RowsTyped, DiskTyped, RowsAgree
    <2>3. Moves(i, "new", "open")
        BY <1>a, <2>1, <2>2, OneMoves DEF RowsTyped
    <2> QED BY <1>c, <2>1, <2>3
<1>4. ASSUME NEW i \in Imports, CancelStep(i)
      PROVE  Kept
    <2>1. CASE CancelStarts(i)
        <3>1. /\ linked' = linked /\ formal' = formal /\ UNCHANGED <<told, harmed>>
              /\ \/ status' = status
                 \/ /\ status[i] = "uploading" /\ formal[i] = "absent"
                    /\ status' = [status EXCEPT ![i] = "cancelled"]
            BY <1>a, <2>1 DEF CancelStarts, Cancellable, Failed, RowsTyped, disk, history
        <3>2. CASE status' = status
            BY <1>b, <3>1, <3>2
        <3>3. CASE status' # status
            <4>1. Plain(i) = "open" /\ Plain(i)' = "dropped"
                BY <1>a, <3>1, <3>3 DEF Plain, RowsTyped, RowsAgree
            <4>2. Moves(i, "open", "dropped")
                BY <1>a, <3>1, <3>3, <4>1, OneMoves DEF RowsTyped
            <4> QED BY <1>c, <3>1, <4>2
        <3> QED BY <3>2, <3>3
    <2>2. CASE CancelRefused(i)
        <3>1. UNCHANGED <<linked, status, formal, harmed>>
            BY <2>2 DEF CancelRefused, rows, disk
        <3>2. CASE AlreadyCancelled(i)
            <4>1. Plain(i) = "dropped" /\ Plain(i)' = "dropped" /\ told' = told \cup {i}
                BY <1>a, <2>2, <3>1, <3>2 DEF CancelRefused, AlreadyCancelled, Plain, RowsAgree
            <4>2. Moves(i, "dropped", "dropped")
                BY <1>a, <3>1, <4>1, OneMoves
            <4> QED BY <1>d, <3>1, <4>1, <4>2
        <3>3. CASE ~AlreadyCancelled(i)
            BY <1>b, <2>2, <3>1, <3>3 DEF CancelRefused
        <3> QED BY <3>2, <3>3
    <2>3. CASE CancelEnds(i)
        <3>1. UNCHANGED <<linked, status, formal, harmed>>
            BY <2>3 DEF CancelEnds, rows, disk
        <3>2. CASE remover[i].pc = "done" /\ canceller[i].saw = "uploading"
            <4>1. status[i] = "cancelled" /\ told' = told \cup {i}
                BY <2>3, <3>2 DEF CancelEnds, ImportInv, CancelAgrees
            <4>2. Plain(i) = "dropped" /\ Plain(i)' = "dropped"
                BY <1>a, <3>1, <4>1 DEF Plain, RowsAgree
            <4>3. Moves(i, "dropped", "dropped")
                BY <1>a, <3>1, <4>2, OneMoves
            <4> QED BY <1>d, <3>1, <4>1, <4>3
        <3>3. CASE ~(remover[i].pc = "done" /\ canceller[i].saw = "uploading")
            <4>1. told' = told
                BY <2>3, <3>3 DEF CancelEnds
            <4> QED BY <1>b, <3>1, <4>1
        <3> QED BY <3>2, <3>3
    <2>4. CASE CancelSettles(i)
        <3>1. /\ UNCHANGED <<linked, formal, harmed>> /\ told' = told \cup {i}
              /\ status[i] = "finalizing" /\ formal[i] = "absent"
            BY <2>4 DEF CancelSettles, disk, ImportInv, CancelAgrees
        <3>2. status' = [status EXCEPT ![i] = "cancelled"]
            BY <1>a, <2>4, <3>1 DEF CancelSettles, Failed, RowsTyped
        <3>3. Plain(i) = "open" /\ Plain(i)' = "dropped"
            BY <1>a, <3>1, <3>2 DEF Plain, RowsTyped, RowsAgree
        <3>4. Moves(i, "open", "dropped")
            BY <1>a, <3>1, <3>2, <3>3, OneMoves DEF RowsTyped
        <3> QED BY <1>d, <3>1, <3>4
    <2> QED BY <1>4, <2>1, <2>2, <2>3, <2>4 DEF CancelStep
<1>5. ASSUME NEW i \in Imports, Complete(i)
      PROVE  Kept
    <2>1. Completed(i) /\ UNCHANGED <<linked, formal, told, harmed>>
        BY <1>a, <1>5, Completing DEF Complete, disk, history, ImportInv
    <2>2. Plain(i)' = Plain(i)
        BY <1>a, <2>1 DEF Completed, Startable, Plain
    <2>3. \A j \in Imports : Plain(j)' = Plain(j)
        BY <2>1, <2>2 DEF Completed, Plain
    <2> QED BY <1>e, <2>1, <2>3
<1>6. ASSUME NEW i \in Imports, JobStep(i)
      PROVE  Kept
    <2>1. CASE \/ JobEnters(i) \/ JobParses(i) \/ JobChecks(i) \/ JobRemoved(i)
               \/ AttachFails(i) \/ JobReports(i)
        BY <1>b, <2>1 DEF JobEnters, JobParses, JobChecks, JobRemoved, AttachFails, JobReports,
                         rows, disk, history
    <2>2. CASE JobPublishes(i)
        <3>1. /\ UNCHANGED <<linked, status, told, harmed>>
              /\ formal' = [formal EXCEPT ![i] = "whole"]
              /\ status[i] = "finalizing" /\ formal[i] = "absent"
            BY <2>2 DEF JobPublishes, rows, history, ImportInv, JobAgrees
        <3>2. Plain(i) = "open" /\ Plain(i)' = "published"
            BY <1>a, <3>1 DEF Plain, DiskTyped, RowsAgree
        <3>3. Moves(i, "open", "published")
            BY <1>a, <3>1, <3>2, OneMoves DEF DiskTyped
        <3> QED BY <1>c, <3>1, <3>3
    <2>3. CASE JobFails(i)
        <3>1. /\ UNCHANGED <<linked, formal, told, harmed>> /\ formal[i] = "absent"
              /\ job[i].code \in {"failed", "cancelled"} /\ status[i] \notin {"none", "uploading"}
            BY <2>3 DEF JobFails, disk, history, ImportInv, JobAgrees
        <3>2. CASE status[i] = "finalizing"
            <4>1. status' = [status EXCEPT ![i] = job[i].code]
                BY <1>a, <2>3, <3>2 DEF JobFails, Failed, RowsTyped
            <4>2. Plain(i) = "open" /\ Plain(i)' = "dropped"
                BY <1>a, <3>1, <3>2, <4>1 DEF Plain, RowsTyped, RowsAgree
            <4>3. Moves(i, "open", "dropped")
                BY <1>a, <3>1, <4>1, <4>2, OneMoves DEF RowsTyped
            <4> QED BY <1>c, <3>1, <4>3
        <3>3. CASE status[i] # "finalizing"
            <4>1. status' = status
                BY <1>a, <2>3, <3>1, <3>3 DEF JobFails, Failed, RowsTyped
            <4> QED BY <1>b, <3>1, <4>1
        <3> QED BY <3>2, <3>3
    <2>4. CASE Attach(i)
        <3>1. /\ UNCHANGED <<formal, told, harmed>> /\ Linkable(i)
              /\ linked' = [linked EXCEPT ![i] = TRUE] /\ status' = [status EXCEPT ![i] = "ready"]
            BY <2>4 DEF Attach, disk, history
        <3> QED BY <1>f, <3>1
    <2> QED BY <1>6, <2>1, <2>2, <2>3, <2>4 DEF JobStep
<1>7. ASSUME NEW i \in Imports, Damage(i)
      PROVE  Kept
    <2>1. /\ UNCHANGED <<linked, status, told>> /\ harmed' = harmed \cup {i}
          /\ formal[i] = "whole" /\ formal' = [formal EXCEPT ![i] = "damaged"]
        BY <1>7 DEF Damage, rows
    <2>2. \A j \in Imports : Plain(j)' = Plain(j)
        BY <1>a, <2>1 DEF Plain, DiskTyped
    <2>3. PhaseOf(i) \in {"published", "linked"}
        BY <1>a, <2>1 DEF PhaseOf, RowsAgree
    <2>4. UNCHANGED [j \in Imports |-> PhaseOf(j)]
        BY <1>a, <2>2, NoneMoves
    <2>5. Contract!Harm(i)
        BY <2>1, <2>3, <2>4 DEF Contract!Harm
    <2> QED BY <2>5 DEF Kept, Contract!ImportContractNext
<1>11. ASSUME NEW i \in Imports, Look(i)
       PROVE  Kept
    <2>1. /\ UNCHANGED <<linked, formal, told, harmed>>
          /\ \A j \in Imports : status'[j] = status[j] \/ linked[j]
        BY <1>a, <1>11 DEF Look, Unavailable, disk, history, RowsTyped, RowsAgree
    <2>2. \A j \in Imports : Plain(j)' = Plain(j)
        BY <2>1 DEF Plain
    <2> QED BY <1>e, <2>1, <2>2
<1>8. CASE BackupStarts \/ BackupEnds \/ Close \/ Closed \/ Crash
    BY <1>b, <1>8 DEF BackupStarts, BackupEnds, Close, Closed, Crash, Dies, rows, disk, history
<1>9. CASE BootStep
    <2>1. CASE Boot \/ \E i \in Imports : RecoverRemoves(i)
        BY <1>b, <2>1 DEF Boot, RecoverRemoves, rows, history
    <2>2. CASE Up
        <3>1. /\ UNCHANGED <<linked, formal, told, harmed>>
              /\ \A j \in Imports : status'[j] = status[j] \/ linked[j]
            BY <1>a, <2>2 DEF Up, Unavailable, disk, history, RowsTyped, RowsAgree
        <3>2. \A j \in Imports : Plain(j)' = Plain(j)
            BY <3>1 DEF Plain
        <3> QED BY <1>e, <3>1, <3>2
    <2>3. ASSUME NEW i \in Imports, Recover(i)
          PROVE  Kept
        <3>1. UNCHANGED <<linked, formal, told, harmed>> /\ status' = Recovered(i)
            BY <2>3 DEF Recover, disk, history
        <3>2. CASE status' = status
            BY <1>b, <3>1, <3>2
        <3>3. CASE status' # status
            <4>1. /\ status[i] \in {"uploading", "finalizing"} /\ formal[i] # "whole"
                  /\ status' = [status EXCEPT ![i] = "failed"]
                BY <1>a, <3>1, <3>3 DEF Recovered, Failed, FormalValid, RowsTyped
            <4>2. Plain(i)' = "dropped"
                BY <1>a, <3>1, <4>1 DEF Plain, RowsTyped, RowsAgree
            <4>3. CASE formal[i] = "absent"
                <5>1. Plain(i) = "open"
                    BY <1>a, <4>1, <4>3 DEF Plain, RowsAgree
                <5>2. Moves(i, "open", "dropped")
                    BY <1>a, <3>1, <4>1, <4>2, <5>1, OneMoves DEF RowsTyped
                <5> QED BY <1>c, <3>1, <5>2
            <4>4. CASE formal[i] # "absent"
                <5>1. Plain(i) = "published" /\ i \in harmed
                    BY <1>a, <4>1, <4>4 DEF Plain, DiskTyped, RowsAgree
                <5>2. Moves(i, "published", "dropped")
                    BY <1>a, <3>1, <4>1, <4>2, <5>1, OneMoves DEF RowsTyped
                <5> QED BY <1>c, <3>1, <5>1, <5>2
            <4> QED BY <4>3, <4>4
        <3> QED BY <3>2, <3>3
    <2>4. ASSUME NEW i \in Imports, RecoverLinks(i)
          PROVE  Kept
        <3>1. UNCHANGED <<formal, told, harmed>>
            BY <2>4 DEF RecoverLinks, disk, history
        <3>2. CASE UNCHANGED <<linked, status>>
            BY <1>b, <3>1, <3>2
        <3>3. CASE Linkable(i) /\ status' = [status EXCEPT ![i] = "ready"]
                               /\ linked' = [linked EXCEPT ![i] = TRUE]
            BY <1>f, <3>1, <3>3
        <3> QED BY <2>4, <3>2, <3>3 DEF RecoverLinks
    <2> QED BY <1>9, <2>1, <2>2, <2>3, <2>4 DEF BootStep
<1>10. CASE UNCHANGED vars
    BY <1>b, <1>10 DEF vars, rows, disk, history
<1> QED BY <1>1, <1>2, <1>3, <1>4, <1>5, <1>6, <1>7, <1>8, <1>9, <1>10,
        <1>11 DEF ImportNext

\* An import is decided once, whatever uploads, cancellations, jobs, damage, crashes and
\* restarts meet, for any imports and files: a confirmed cancellation is never followed by a
\* publication, a published import is never cancelled and keeps its session, and a batch that
\* was complete loses no file and gains no stray one until it is decided.
THEOREM DecidedOnce == ImportSpec => KeepsImportContract
<1>1. ImportInit => Contract!ImportContractInit
    <2> SUFFICES ASSUME ImportInit
                 PROVE  Contract!ImportContractInit
        OBVIOUS
    <2>1. \A i \in Imports : PhaseOf(i) = "new"
        BY DEF ImportInit, PhaseOf
    <2> QED BY <2>1 DEF ImportInit, Contract!ImportContractInit
<1> QED BY <1>1, ImportInvariant, ContractStep, PTL
        DEF ImportSpec, KeepsImportContract, Contract!ImportContractSpec
=============================================================================
