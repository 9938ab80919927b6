----------------------------- MODULE ImportStore -----------------------------
(***************************************************************************)
(* The import of documents: imports.py, with the job of web_runs.py that   *)
(* runs it, SessionService.attach_import and the maintenance gate.         *)
(*                                                                         *)
(* An import is a row (table imports), one row per file, and a directory   *)
(* that uploads fill under imports/.staging and a job publishes by moving  *)
(* it to imports/.  Row and directory cannot change in one step, so every  *)
(* actor works on both in some order, and others come between:             *)
(*   - the HTTP threads of uploads (add_file), which hold a lease of the   *)
(*     maintenance gate but not the lock of the import;                    *)
(*   - the HTTP thread of a cancellation (cancel), which reads the status  *)
(*     before it waits for the lock;                                       *)
(*   - the one job thread (_execute_import: _run_finalize, attach_import); *)
(*   - a backup, which takes the gate when nobody holds a lease;           *)
(*   - close(), a crash at any step, and start-up, alone, after either.    *)
(* The lock and the leases are held exactly while their holder is inside   *)
(* its handler, so they are read off the actors (Locked, Leased).          *)
(***************************************************************************)
EXTENDS Naturals, FiniteSets

CONSTANTS Imports,    \* import ids
          Slots,      \* upload slots
          Files,      \* the slots of each import
          MaxStarts,  \* bound on starts after a crash or close()
          MaxDamage   \* bound on damage to published files from outside

ASSUME ImportAssumption ==
    /\ Files \in [Imports -> (SUBSET Slots) \ {{}}]
    /\ MaxStarts \in Nat /\ MaxDamage \in Nat

VARIABLES status,       \* imports.status, or "none" before the row
          shown,        \* a failure is shown for a finalizing import (error_code, import_failures)
          stored,       \* the files whose upload_state is stored
          linked,       \* the import has its session
          dir,          \* .staging/<id>/originals exists
          temps,        \* files of it that are being copied
          finals,       \* files of it under their final name
          gen,          \* the generated part of it; "whole" if imports.manifest_sha256 fits it
          formal,       \* imports/<id>
          cancelled,    \* the Event of _control(id)
          adder,        \* add_file, per file
          canceller,    \* cancel, per import: step and the status it read
          job,          \* the job thread: step and the code it fails with
          remover,      \* _remove_staging_batch: step and the names it has listed
          maintenance,  \* a backup holds the gate
          server,       \* WebRuns: "up", "closing", "down", or at start-up
          start,        \* start-up: imports to scan, to remove, to link (close(): to cancel)
          told,         \* history: cancellations that were confirmed
          harmed,       \* history: imports whose published files were damaged
          starts        \* counter for MaxStarts

rows == <<status, stored, linked>>
disk == <<dir, temps, finals, gen, formal>>
memory == <<cancelled, adder, canceller, job, remover, maintenance>>
history == <<told, harmed, starts>>
vars == <<rows, shown, disk, memory, server, start, history>>

IdleCancel == [pc |-> "idle", saw |-> "none", by |-> "none"]
IdleJob == [pc |-> "none", code |-> "none"]
IdleRemover == [pc |-> "none", temps |-> {}, finals |-> {}]
NoStart == [scan |-> {}, remove |-> {}, link |-> {}]

Idle ==
    /\ cancelled = [i \in Imports |-> FALSE]
    /\ adder = [i \in Imports |-> [s \in Slots |-> "idle"]]
    /\ canceller = [i \in Imports |-> IdleCancel]
    /\ job = [i \in Imports |-> IdleJob]
    /\ remover = [i \in Imports |-> IdleRemover]
    /\ maintenance = FALSE

ImportInit ==
    /\ status = [i \in Imports |-> "none"]
    /\ shown = [i \in Imports |-> FALSE]
    /\ stored = [i \in Imports |-> {}]
    /\ linked = [i \in Imports |-> FALSE]
    /\ dir = [i \in Imports |-> FALSE]
    /\ temps = [i \in Imports |-> {}]
    /\ finals = [i \in Imports |-> {}]
    /\ gen = [i \in Imports |-> "none"]
    /\ formal = [i \in Imports |-> "absent"]
    /\ Idle
    /\ server = "up"
    /\ start = NoStart
    /\ told = {} /\ harmed = {} /\ starts = 0

-----------------------------------------------------------------------------
Running == server \in {"up", "closing"}

\* Who holds the lock of import i: the job inside _run_finalize, or cancel.
Locked(i) ==
    \/ job[i].pc \in {"parse", "check", "publish", "fail", "removing"}
    \/ canceller[i].pc \in {"removing", "settle"}

\* begin has made the directory and not yet stored the row.
Beginning(i) == status[i] = "none" /\ dir[i]

\* Mutant of Leased: uploads take no lease.
LeasedBySteps == \E i \in Imports : Locked(i) \/ Beginning(i)

\* Somebody holds a lease of the maintenance gate.
Leased ==
    \E i \in Imports : Locked(i) \/ Beginning(i) \/ \E s \in Slots : adder[i][s] # "idle"

\* _adopt_staging accepts the directory.
Adoptable(i) ==
    dir[i] /\ stored[i] = Files[i] /\ finals[i] = Files[i] /\ temps[i] = {}

\* Mutant of Failed: the error code goes into the wrong column.
FailedWithCode(i, code) == [status EXCEPT ![i] = "IMPORT_FAILED"]

\* _set_failure: nothing but an open import fails.
Failed(i, code) ==
    [status EXCEPT ![i] = IF @ \in {"uploading", "finalizing"} THEN code ELSE @]

\* The manifest of the directory is the one of the row, and so are its files.
StagedValid(i) == gen[i] = "whole"

\* _load_publication accepts what was published.
FormalValid(i) == formal[i] = "whole"

BatchRemoved(i) ==
    /\ dir' = [dir EXCEPT ![i] = FALSE]
    /\ temps' = [temps EXCEPT ![i] = {}]
    /\ finals' = [finals EXCEPT ![i] = {}]
    /\ gen' = [gen EXCEPT ![i] = "none"]

-----------------------------------------------------------------------------
\* begin: the directory first, then the rows in one transaction.
BeginMakes(i) ==
    /\ Running /\ ~maintenance
    /\ status[i] = "none" /\ ~dir[i]
    /\ dir' = [dir EXCEPT ![i] = TRUE]
    /\ UNCHANGED <<rows, shown, temps, finals, gen, formal, memory, server, start, history>>

BeginStores(i) ==
    /\ Running /\ Beginning(i)
    /\ status' = [status EXCEPT ![i] = "uploading"]
    /\ UNCHANGED <<stored, linked, shown, disk, memory, server, start, history>>

BeginFails(i) ==
    /\ Running /\ Beginning(i)
    /\ BatchRemoved(i)
    /\ UNCHANGED <<rows, shown, formal, memory, server, start, history>>

\* add_file: lease and _lookup_upload; a temporary file; its final name; the row.
AddStarts(i, s) ==
    /\ Running /\ ~maintenance
    /\ adder[i][s] = "idle"
    /\ status[i] = "uploading" /\ s \in Files[i] \ stored[i]
    /\ adder' = [adder EXCEPT ![i][s] = "looked"]
    /\ UNCHANGED <<rows, shown, disk, cancelled, canceller, job, remover, maintenance,
                   server, start, history>>

AddOpens(i, s) ==
    /\ adder[i][s] = "looked"
    /\ temps' = [temps EXCEPT ![i] = IF dir[i] THEN @ \cup {s} ELSE @]
    /\ adder' = [adder EXCEPT ![i][s] = IF dir[i] THEN "copying" ELSE "idle"]
    /\ UNCHANGED <<rows, shown, dir, finals, gen, formal, cancelled, canceller, job, remover,
                   maintenance, server, start, history>>

AddLinks(i, s) ==
    /\ adder[i][s] = "copying"
    /\ dir[i] /\ s \in temps[i] \ finals[i]
    /\ finals' = [finals EXCEPT ![i] = @ \cup {s}]
    /\ temps' = [temps EXCEPT ![i] = @ \ {s}]
    /\ adder' = [adder EXCEPT ![i][s] = "linked"]
    /\ UNCHANGED <<rows, shown, dir, gen, formal, cancelled, canceller, job, remover,
                   maintenance, server, start, history>>

\* The client sends too little or too much, or the directory or the file is gone.
AddFails(i, s) ==
    /\ adder[i][s] = "copying"
    /\ temps' = [temps EXCEPT ![i] = @ \ {s}]
    /\ adder' = [adder EXCEPT ![i][s] = "idle"]
    /\ UNCHANGED <<rows, shown, dir, finals, gen, formal, cancelled, canceller, job, remover,
                   maintenance, server, start, history>>

\* The update of the row asks again whether the import is uploading.
Storable(i, s) == status[i] = "uploading" /\ s \notin stored[i] /\ dir[i] /\ s \in finals[i]

AddStores(i, s) ==
    /\ adder[i][s] = "linked"
    /\ stored' = [stored EXCEPT ![i] = IF Storable(i, s) THEN @ \cup {s} ELSE @]
    /\ adder' = [adder EXCEPT ![i][s] = IF Storable(i, s) THEN "idle" ELSE "refused"]
    /\ UNCHANGED <<status, linked, shown, disk, cancelled, canceller, job, remover, maintenance,
                   server, start, history>>

AddUndoes(i, s) ==
    /\ adder[i][s] = "refused"
    /\ finals' = [finals EXCEPT ![i] = @ \ {s}]
    /\ adder' = [adder EXCEPT ![i][s] = "idle"]
    /\ UNCHANGED <<rows, shown, dir, temps, gen, formal, cancelled, canceller, job, remover,
                   maintenance, server, start, history>>

-----------------------------------------------------------------------------
\* _remove_staging_batch, for the holder of the lock: list the originals, remove
\* what was listed, remove the directory.  A name that is gone, or one that is
\* new, is an OSError.
Removing(i) == remover' = [remover EXCEPT ![i] = [IdleRemover EXCEPT !.pc = "list"]]

RemoveLists(i) ==
    /\ remover[i].pc = "list"
    /\ gen' = [gen EXCEPT ![i] = "none"]
    /\ remover' = [remover EXCEPT ![i] = [pc |-> IF dir[i] THEN "unlink" ELSE "done",
                                          temps |-> temps[i], finals |-> finals[i]]]
    /\ UNCHANGED <<rows, shown, dir, temps, finals, formal, cancelled, adder, canceller, job,
                   maintenance, server, start, history>>

RemoveUnlinks(i) ==
    /\ remover[i].pc = "unlink"
    /\ LET t == remover[i].temps
           f == remover[i].finals
           all == t \subseteq temps[i] /\ f \subseteq finals[i]
       IN  \E T \in SUBSET (t \cap temps[i]), F \in SUBSET (f \cap finals[i]) :
              /\ all => T = t /\ F = f
              /\ temps' = [temps EXCEPT ![i] = @ \ T]
              /\ finals' = [finals EXCEPT ![i] = @ \ F]
              /\ remover' = [remover EXCEPT ![i] = [IdleRemover EXCEPT
                                !.pc = IF all THEN "rmdir" ELSE "failed"]]
    /\ UNCHANGED <<rows, shown, dir, gen, formal, cancelled, adder, canceller, job, maintenance,
                   server, start, history>>

RemoveRmdir(i) ==
    /\ remover[i].pc = "rmdir"
    /\ LET empty == temps[i] = {} /\ finals[i] = {} IN
       /\ dir' = [dir EXCEPT ![i] = @ /\ ~empty]
       /\ remover' = [remover EXCEPT ![i] = [IdleRemover EXCEPT
                          !.pc = IF empty THEN "done" ELSE "failed"]]
    /\ UNCHANGED <<rows, shown, temps, finals, gen, formal, cancelled, adder, canceller, job,
                   maintenance, server, start, history>>

Removed(i) == remover[i].pc \in {"done", "failed"}

-----------------------------------------------------------------------------
\* cancel reads the status and, while the import is finalizing, tells the job;
\* close() cancels the imports it found with a job.
CancelAsks(i) ==
    /\ Running /\ canceller[i].pc = "idle"
    /\ status[i] \in {"uploading", "finalizing"}
    /\ canceller' = [canceller EXCEPT ![i] = [pc |-> "asked", saw |-> status[i], by |-> "user"]]
    /\ cancelled' = [cancelled EXCEPT ![i] = @ \/ status[i] = "finalizing"]
    /\ UNCHANGED <<rows, shown, disk, adder, job, remover, maintenance, server, start, history>>

\* Inside the lock it refuses what is published, ended or under a backup.
Cancellable(i) ==
    /\ ~maintenance
    /\ formal[i] = "absent" /\ status[i] = canceller[i].saw
    /\ status[i] = "finalizing" => Adoptable(i)

CancelStarts(i) ==
    /\ canceller[i].pc = "asked" /\ ~Locked(i)
    /\ Cancellable(i)
    /\ status' = IF canceller[i].saw = "uploading" THEN Failed(i, "cancelled") ELSE status
    /\ canceller' = [canceller EXCEPT ![i].pc = "removing"]
    /\ Removing(i)
    /\ UNCHANGED <<stored, linked, shown, disk, cancelled, adder, job, maintenance, server, start,
                   history>>

\* The job that was told has cancelled the import before.
AlreadyCancelled(i) ==
    /\ ~maintenance
    /\ formal[i] = "absent" /\ status[i] = "cancelled" /\ canceller[i].saw = "finalizing"

CancelRefused(i) ==
    /\ canceller[i].pc = "asked" /\ ~Locked(i)
    /\ ~Cancellable(i)
    /\ canceller' = [canceller EXCEPT ![i] = IdleCancel]
    /\ told' = IF AlreadyCancelled(i) THEN told \cup {i} ELSE told
    /\ UNCHANGED <<rows, shown, disk, cancelled, adder, job, remover, maintenance, server, start,
                   harmed, starts>>

\* What was uploading is cancelled already and is confirmed once its directory is gone.
CancelEnds(i) ==
    /\ canceller[i].pc = "removing" /\ Removed(i)
    /\ remover' = [remover EXCEPT ![i] = IdleRemover]
    /\ LET done == remover[i].pc = "done"
           uploading == canceller[i].saw = "uploading"
       IN  /\ canceller' = [canceller EXCEPT ![i] = IF done /\ ~uploading
                                                    THEN [@ EXCEPT !.pc = "settle"] ELSE IdleCancel]
           /\ told' = IF done /\ uploading THEN told \cup {i} ELSE told
    /\ UNCHANGED <<rows, shown, disk, cancelled, adder, job, maintenance, server, start,
                   harmed, starts>>

CancelSettles(i) ==
    /\ canceller[i].pc = "settle"
    /\ status' = Failed(i, "cancelled")
    /\ canceller' = [canceller EXCEPT ![i] = IdleCancel]
    /\ told' = told \cup {i}
    /\ UNCHANGED <<stored, linked, shown, disk, cancelled, adder, job, remover, maintenance, server,
                   start, harmed, starts>>

-----------------------------------------------------------------------------
\* Mutant of Startable: the files are not counted.
StartableIncomplete(i) ==
    /\ ~maintenance
    /\ \/ status[i] = "uploading" /\ formal[i] = "absent" /\ dir[i]
       \/ status[i] = "finalizing" /\ formal[i] # "damaged"

\* start_finalize: a complete upload, or another attempt at what is finalizing.
Startable(i) ==
    /\ ~maintenance
    /\ \/ status[i] = "uploading" /\ formal[i] = "absent" /\ dir[i] /\ stored[i] = Files[i]
       \/ status[i] = "finalizing" /\ formal[i] # "damaged"

Jobless == \A j \in Imports : job[j].pc = "none"

\* Mutant of Admitted: close() is not noticed.
AdmittedWhileClosing == Running /\ Jobless

\* One job at a time, and none after close().
Admitted == server = "up" /\ Jobless

\* complete_import, under runs.lock: an earlier failure is no longer shown,
\* start_finalize, and the job thread, if it can be started.
Complete(i) ==
    /\ Admitted
    /\ status[i] \in {"uploading", "finalizing"} /\ ~Locked(i)
    /\ IF Startable(i)
       THEN \E runs \in BOOLEAN :
              /\ status' = [status EXCEPT ![i] = "finalizing"]
              /\ job' = [job EXCEPT ![i].pc = IF runs THEN "start" ELSE "none"]
              /\ shown' = [shown EXCEPT ![i] = ~runs]
       ELSE /\ shown' = [shown EXCEPT ![i] = FALSE]
            /\ UNCHANGED <<status, job>>
    /\ UNCHANGED <<stored, linked, disk, cancelled, adder, canceller, remover, maintenance, server,
                   start, history>>

JobGoes(i, pc, code) == job' = [job EXCEPT ![i] = [pc |-> pc, code |-> code]]

\* _run_finalize takes the lock and a lease and finds out where it stands.
JobEnters(i) ==
    /\ job[i].pc = "start" /\ ~Locked(i)
    /\ IF maintenance THEN JobGoes(i, "report", "none")
       ELSE IF status[i] # "finalizing"
       THEN JobGoes(i, IF formal[i] = "absent" THEN "fail" ELSE "report", status[i])
       ELSE IF formal[i] # "absent"
       THEN JobGoes(i, IF FormalValid(i) THEN "attach" ELSE "report", "none")
       ELSE IF cancelled[i] THEN JobGoes(i, "fail", "cancelled")
       ELSE IF ~Adoptable(i) THEN JobGoes(i, "fail", "failed")
       ELSE JobGoes(i, IF StagedValid(i) THEN "check" ELSE "parse", "none")
    /\ gen' = [gen EXCEPT ![i] = IF job'[i].pc = "parse" THEN "partial" ELSE @]
    /\ UNCHANGED <<rows, shown, dir, temps, finals, formal, cancelled, adder, canceller, remover,
                   maintenance, server, start, history>>

\* A parser process answers, or is killed for a cancellation or its deadline.
ParseOutcomes(i) == {"failed", IF cancelled[i] THEN "cancelled" ELSE "parsed"}

\* _parse_staged ends with the fingerprint of the new manifest in the row, or fails.
JobParses(i) ==
    /\ job[i].pc = "parse"
    /\ \E o \in ParseOutcomes(i) :
          IF o = "parsed"
          THEN gen' = [gen EXCEPT ![i] = "whole"] /\ JobGoes(i, "check", "none")
          ELSE UNCHANGED gen /\ JobGoes(i, "fail", o)
    /\ UNCHANGED <<rows, shown, dir, temps, finals, formal, cancelled, adder, canceller, remover,
                   maintenance, server, start, history>>

JobChecks(i) ==
    /\ job[i].pc = "check"
    /\ IF cancelled[i] THEN JobGoes(i, "fail", "cancelled") ELSE JobGoes(i, "publish", "none")
    /\ UNCHANGED <<rows, shown, disk, cancelled, adder, canceller, remover, maintenance, server,
                   start, history>>

\* The rename; what it moved is loaded again.
JobPublishes(i) ==
    /\ job[i].pc = "publish"
    /\ formal' = [formal EXCEPT ![i] = "whole"]
    /\ BatchRemoved(i)
    /\ JobGoes(i, "attach", "none")
    /\ UNCHANGED <<rows, shown, cancelled, adder, canceller, remover, maintenance, server, start,
                   history>>

\* _fail_unpublished.
JobFails(i) ==
    /\ job[i].pc = "fail"
    /\ status' = Failed(i, job[i].code)
    /\ Removing(i)
    /\ JobGoes(i, "removing", "none")
    /\ UNCHANGED <<stored, linked, shown, disk, cancelled, adder, canceller, maintenance, server,
                   start, history>>

JobRemoved(i) ==
    /\ job[i].pc = "removing" /\ Removed(i)
    /\ remover' = [remover EXCEPT ![i] = IdleRemover]
    /\ JobGoes(i, "report", "none")
    /\ UNCHANGED <<rows, shown, disk, cancelled, adder, canceller, maintenance, server, start, history>>

\* attach_import: the session and the status in one transaction.
Linkable(i) == status[i] = "finalizing" /\ ~linked[i] /\ FormalValid(i)

Attach(i) ==
    /\ job[i].pc = "attach" /\ ~Locked(i)
    /\ ~maintenance /\ Linkable(i)
    /\ status' = [status EXCEPT ![i] = "ready"]
    /\ linked' = [linked EXCEPT ![i] = TRUE]
    /\ JobGoes(i, "none", "none")
    /\ UNCHANGED <<stored, shown, disk, cancelled, adder, canceller, remover, maintenance, server,
                   start, history>>

\* The gate is taken, the files changed, or the assistant is disabled or unfit.
AttachFails(i) ==
    /\ job[i].pc = "attach" /\ ~Locked(i)
    /\ JobGoes(i, "report", "none")
    /\ UNCHANGED <<rows, shown, disk, cancelled, adder, canceller, remover, maintenance, server,
                   start, history>>

\* Mutant of JobReports: the job is not taken out of import_jobs.
JobReportsOnly(i) ==
    /\ job[i].pc = "report"
    /\ shown' = [shown EXCEPT ![i] = TRUE]
    /\ UNCHANGED <<rows, disk, memory, server, start, history>>

\* _record_import_failure, and the end of the thread.
JobReports(i) ==
    /\ job[i].pc = "report"
    /\ shown' = [shown EXCEPT ![i] = TRUE]
    /\ JobGoes(i, "none", "none")
    /\ UNCHANGED <<rows, disk, cancelled, adder, canceller, remover, maintenance, server, start,
                   history>>

-----------------------------------------------------------------------------
\* StateMaintenanceGate.maintenance, as a backup takes it.
BackupStarts ==
    /\ Running /\ ~maintenance /\ ~Leased
    /\ maintenance' = TRUE
    /\ UNCHANGED <<rows, shown, disk, cancelled, adder, canceller, job, remover, server, start,
                   history>>

BackupEnds ==
    /\ maintenance
    /\ maintenance' = FALSE
    /\ UNCHANGED <<rows, shown, disk, cancelled, adder, canceller, job, remover, server, start,
                   history>>

\* close() admits no job, cancels the one it found and waits for its thread.
Close ==
    /\ server = "up" /\ starts < MaxStarts
    /\ server' = "closing"
    /\ start' = [NoStart EXCEPT !.scan = {i \in Imports : job[i].pc # "none"}]
    /\ UNCHANGED <<rows, shown, disk, memory, history>>

CloseCancels(i) ==
    /\ server = "closing" /\ i \in start.scan
    /\ canceller[i].pc = "idle"
    /\ start' = [start EXCEPT !.scan = @ \ {i}]
    /\ IF status[i] = "finalizing"
       THEN /\ canceller' = [canceller EXCEPT ![i] = [pc |-> "asked", saw |-> status[i],
                                                         by |-> "close"]]
            /\ cancelled' = [cancelled EXCEPT ![i] = TRUE]
       ELSE UNCHANGED <<canceller, cancelled>>
    /\ UNCHANGED <<rows, shown, disk, adder, job, remover, maintenance, server, history>>

Dies ==
    /\ server' = "down" /\ starts' = starts + 1
    /\ start' = NoStart
    /\ cancelled' = [i \in Imports |-> FALSE]
    /\ adder' = [i \in Imports |-> [s \in Slots |-> "idle"]]
    /\ canceller' = [i \in Imports |-> IdleCancel]
    /\ job' = [i \in Imports |-> IdleJob]
    /\ remover' = [i \in Imports |-> IdleRemover]
    /\ maintenance' = FALSE
    /\ UNCHANGED <<rows, shown, disk, told, harmed>>

Closed ==
    /\ server = "closing" /\ start.scan = {}
    /\ \A i \in Imports : job[i].pc = "none" /\ canceller[i].by # "close"
    /\ Dies

Crash == server # "down" /\ starts < MaxStarts /\ Dies

\* Another program changes a published file.
Damage(i) ==
    /\ formal[i] = "whole" /\ Cardinality(harmed) < MaxDamage
    /\ formal' = [formal EXCEPT ![i] = "damaged"]
    /\ harmed' = harmed \cup {i}
    /\ UNCHANGED <<rows, shown, dir, temps, finals, gen, memory, server, start, told, starts>>

\* ImportStore.open: published files that do not load are recorded as unavailable.
Unavailable(i) == status[i] = "ready" /\ formal[i] = "damaged"

\* Somebody looks at the session or starts a run in it, or a backup reads it: the lock of
\* the import, but no lease, so this goes on while a backup holds the gate.
Look(i) ==
    /\ Running /\ ~Locked(i) /\ Unavailable(i)
    /\ status' = [status EXCEPT ![i] = "unavailable"]
    /\ UNCHANGED <<stored, linked, shown, disk, memory, server, start, history>>

-----------------------------------------------------------------------------
\* Start-up: directories without a row are removed, open imports are scanned.
Boot ==
    /\ server = "down"
    /\ server' = "boot"
    /\ start' = [NoStart EXCEPT !.scan = {i \in Imports : status[i] \in {"uploading", "finalizing"}}]
    /\ dir' = [i \in Imports |-> dir[i] /\ status[i] # "none"]
    /\ UNCHANGED <<rows, shown, temps, finals, gen, formal, memory, history>>

\* Mutant of Recovered: what is finalizing is kept only if it is staged.
RecoveredStaged(i) ==
    IF status[i] = "finalizing" /\ Adoptable(i) THEN status ELSE [status EXCEPT ![i] = "failed"]

\* What start-up makes of the row of an open import.
Recovered(i) ==
    IF \/ FormalValid(i)
       \/ formal[i] = "absent" /\ status[i] = "finalizing" /\ Adoptable(i)
    THEN status ELSE Failed(i, "failed")

Recover(i) ==
    /\ server = "boot" /\ i \in start.scan /\ start.remove = {}
    /\ status' = Recovered(i)
    /\ start' = [scan |-> start.scan \ {i},
                 remove |-> IF status[i] = "uploading" /\ formal[i] = "absent" THEN {i} ELSE {},
                 link |-> IF FormalValid(i) THEN start.link \cup {i} ELSE start.link]
    /\ UNCHANGED <<stored, linked, shown, disk, memory, server, history>>

RecoverRemoves(i) ==
    /\ server = "boot" /\ i \in start.remove
    /\ BatchRemoved(i)
    /\ start' = [start EXCEPT !.remove = {}]
    /\ UNCHANGED <<rows, shown, formal, memory, server, history>>

\* recover_imports links what was published, or notes what is wrong with the
\* assistant; files that changed meanwhile end the start-up.
RecoverLinks(i) ==
    /\ server = "boot" /\ start.scan = {} /\ start.remove = {} /\ i \in start.link
    /\ start' = [start EXCEPT !.link = @ \ {i}]
    /\ \/ /\ Linkable(i)
          /\ status' = [status EXCEPT ![i] = "ready"]
          /\ linked' = [linked EXCEPT ![i] = TRUE]
          /\ UNCHANGED <<shown, server>>
       \/ /\ Linkable(i)
          /\ shown' = [shown EXCEPT ![i] = TRUE]
          /\ UNCHANGED <<status, linked, server>>
       \/ /\ ~Linkable(i)
          /\ server' = "down"
          /\ UNCHANGED <<status, linked, shown>>
    /\ UNCHANGED <<stored, disk, memory, history>>

\* At the end of recover_imports every linked import is opened.
Up ==
    /\ server = "boot" /\ start.scan = {} /\ start.remove = {} /\ start.link = {}
    /\ server' = "up"
    /\ status' = [i \in Imports |-> IF Unavailable(i) THEN "unavailable" ELSE status[i]]
    /\ UNCHANGED <<stored, linked, shown, disk, memory, start, history>>

-----------------------------------------------------------------------------
Remove(i) == RemoveLists(i) \/ RemoveUnlinks(i) \/ RemoveRmdir(i)

Add(i, s) ==
    \/ AddStarts(i, s) \/ AddOpens(i, s) \/ AddLinks(i, s) \/ AddFails(i, s)
    \/ AddStores(i, s) \/ AddUndoes(i, s)

CancelStep(i) == CancelStarts(i) \/ CancelRefused(i) \/ CancelEnds(i) \/ CancelSettles(i)

JobStep(i) ==
    \/ JobEnters(i) \/ JobParses(i) \/ JobChecks(i) \/ JobPublishes(i) \/ JobFails(i)
    \/ JobRemoved(i) \/ Attach(i) \/ AttachFails(i) \/ JobReports(i)

BootStep == Boot \/ Up \/ \E i \in Imports : Recover(i) \/ RecoverRemoves(i) \/ RecoverLinks(i)

ImportNext ==
    \/ \E i \in Imports :
          \/ BeginMakes(i) \/ BeginStores(i) \/ BeginFails(i)
          \/ \E s \in Files[i] : Add(i, s)
          \/ CancelAsks(i) \/ CancelStep(i)
          \/ Complete(i) \/ JobStep(i) \/ Remove(i)
          \/ CloseCancels(i) \/ Damage(i) \/ Look(i)
    \/ BackupStarts \/ BackupEnds
    \/ Close \/ Closed \/ Crash \/ BootStep

ImportSpec == ImportInit /\ [][ImportNext]_vars

\* Threads that run go on (a parser process has a deadline), and start-up and
\* close() proceed; close() waits for no other cancellation.  What users and
\* their clients do, backups and crashes are never owed.
ImportFairness ==
    /\ \A i \in Imports : WF_vars(JobStep(i)) /\ WF_vars(CancelStep(i)) /\ WF_vars(Remove(i))
    /\ \A i \in Imports : SF_vars(CloseCancels(i))
    /\ WF_vars(Closed) /\ WF_vars(BootStep)

FairImportSpec == ImportSpec /\ ImportFairness

-----------------------------------------------------------------------------
Statuses == {"none", "uploading", "finalizing", "ready", "failed", "cancelled", "unavailable"}

ImportTypeOK ==
    /\ status \in [Imports -> Statuses]
    /\ shown \in [Imports -> BOOLEAN] /\ linked \in [Imports -> BOOLEAN]
    /\ \A i \in Imports : stored[i] \cup temps[i] \cup finals[i] \subseteq Files[i]
    /\ dir \in [Imports -> BOOLEAN]
    /\ gen \in [Imports -> {"none", "partial", "whole"}]
    /\ formal \in [Imports -> {"absent", "whole", "damaged"}]
    /\ cancelled \in [Imports -> BOOLEAN]
    /\ adder \in [Imports -> [Slots -> {"idle", "looked", "copying", "linked", "refused"}]]
    /\ canceller \in [Imports -> [pc : {"idle", "asked", "removing", "settle"}, saw : Statuses,
                                  by : {"none", "user", "close"}]]
    /\ job \in [Imports -> [pc : {"none", "start", "parse", "check", "publish", "attach", "fail",
                                  "removing", "report"}, code : Statuses]]
    /\ \A i \in Imports : remover[i].pc \in {"none", "list", "unlink", "rmdir", "done", "failed"}
    /\ maintenance \in BOOLEAN
    /\ server \in {"up", "closing", "down", "boot"}
    /\ start.scan \cup start.remove \cup start.link \subseteq Imports
    /\ told \subseteq Imports /\ harmed \subseteq Imports
    /\ starts \in 0..MaxStarts

\* The batch as its users see it; "torn", which the contract knows no step to, is one that
\* is being finalized and lost a file or was joined by a stray upload (_adopt_staging).
PhaseOf(i) ==
    IF linked[i] THEN "linked"
    ELSE IF status[i] = "none" THEN "new"
    ELSE IF status[i] \in {"failed", "cancelled"} THEN "dropped"
    ELSE IF formal[i] # "absent" THEN "published"
    ELSE IF Running /\ status[i] = "finalizing" /\ ~Locked(i) /\ ~Adoptable(i) THEN "torn"
    ELSE "open"

Contract == INSTANCE ImportContract WITH
    Batches <- Imports, phase <- [i \in Imports |-> PhaseOf(i)]

\* An import is decided once, whatever uploads, cancellations, jobs, crashes and
\* restarts meet: a confirmed cancellation is never followed by a publication, a
\* published import is never cancelled, a session is never taken back, and an import
\* whose files were once complete keeps just these files until it is decided.
KeepsImportContract == Contract!ImportContractSpec

\* While a backup holds the gate the program begins, stores, publishes, links, cancels and
\* removes nothing: neither the uploads and directories of an import change nor its rows.
\* What may change all the same: another program damages published files, a look records
\* a published import with damaged files as unavailable, and the failure that is shown
\* for an import in finalizing (shown: error_code), which is written without a lease.
QuietUnderBackup ==
    [][maintenance /\ maintenance' =>
         /\ UNCHANGED <<stored, linked, dir, temps, finals, gen>>
         /\ \A i \in Imports :
              /\ \/ formal'[i] = formal[i]
                 \/ formal[i] = "whole" /\ formal'[i] = "damaged" /\ i \in harmed'
              /\ status'[i] = status[i] \/ (Unavailable(i) /\ status'[i] = "unavailable")]_vars

\* Again and again no job is at work and nobody waits in close(): every job ends, and
\* close() ends although it joins the job without a limit.
ComesToRest == []<>(server # "closing" /\ \A i \in Imports : job[i].pc = "none")

\* Not so (see the README): when a cancelled import has come to rest, no copy of a
\* document is left.  (import design 2.2: after a cancellation the server deletes the directory)
CancelLeavesNothing ==
    \A i \in Imports :
        (/\ Running /\ status[i] = "cancelled"
         /\ ~Locked(i) /\ job[i].pc = "none" /\ \A s \in Slots : adder[i][s] = "idle")
        => finals[i] = {}

\* Not so (see the README): what start-up leaves finalizing has a failure to show, for
\* nothing works on it.
\* (import design 4: start-up cleans up or retries what is only staged)
StartUpSettles ==
    [][server = "boot" /\ server' = "up" =>
          \A i \in Imports : status'[i] = "finalizing" => shown'[i]]_vars
=============================================================================
