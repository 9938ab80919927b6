----------------------------- MODULE StateBackup -----------------------------
(***************************************************************************)
(* Backup and restore of a state directory: state_backup.py, with the gate *)
(* of state_maintenance.py and as much of runs and imports as the backup   *)
(* looks at.  A backup takes the gate, copies the database, then the files *)
(* of every import the copy calls ready, and compares what it copied with  *)
(* the records; a restore copies a bundle, binds it to its new place and   *)
(* opens everything in it.  Both work in a staging directory and become    *)
(* visible by one rename that replaces nothing.  Other programs change     *)
(* files at any time; what has no lease (a look at a document) goes on     *)
(* during a backup.                                                        *)
(* Each import has one session and at most one output file.                *)
(***************************************************************************)
EXTENDS Naturals, FiniteSets

CONSTANTS Imports,
          Free, Foreign,  \* nothing, or something of another program, has the name
          MaxDamage,      \* bound on changes by other programs
          MaxFaults       \* bound on failing system calls

\* Rows of the tables, copies of files, bundles, state directories, and what they show.
Statuses == {"absent", "open", "ready", "unavailable"}
Outputs == {"none", "allowed", "confirmed", "unknown"}
Files == {"missing", "same", "different"}
AllRows == [status : [Imports -> Statuses], output : [Imports -> Outputs]]
Tree == [source : {"good", "damaged"}, file : Files]
Trees == UNION {[some -> Tree] : some \in SUBSET Imports}
Bundles == [rows : AllRows, trees : Trees]
Targets == [rows : AllRows, trees : Trees, bound : SUBSET Imports]
Views == [Imports -> Statuses \cup Outputs \cup {"broken"}]

\* No bundle and no state directory is mistaken for one that is not there.
ASSUME BackupAssumption ==
    /\ Free # Foreign /\ Free \notin Imports
    /\ \A place \in {Free, Foreign} : place \notin Bundles /\ place \notin Targets /\ place \notin Views
    /\ {MaxDamage, MaxFaults} \subseteq Nat

VARIABLES status,    \* imports.status; the session comes and stays with "ready"
          output,    \* what the rows say of the output file of the import's session
          source,    \* the published files of the import: "good" or "damaged"
          file,      \* the output file: "missing", "same" as recorded, or "different"
          run,       \* the one run: "none", "queued", "executing" (with its lease)
          writes,    \* the import it writes for
          gate,      \* StateMaintenanceGate._maintenance
          backup,    \* the backup command
          bundle,    \* what is visible under its destination
          tampered,  \* the parts of the visible bundle that somebody changed
          restore,   \* the restore command
          target,    \* what is visible under its destination
          told,      \* what each command said last
          damages, faults

activity == <<output, run, writes>>
files == <<source, file>>
bounds == <<damages, faults>>
vars == <<status, output, source, file, run, writes, gate, backup, bundle, tampered, restore,
          target, told, damages, faults>>

IdleBackup == [pc |-> "idle", rows |-> Free, trees |-> <<>>, at |-> Free, seen |-> Free]
IdleRestore == [pc |-> "idle", parts |-> {}, bound |-> {}]

BackupInit ==
    /\ status = [i \in Imports |-> "absent"]
    /\ output = [i \in Imports |-> "none"]
    /\ source = [i \in Imports |-> "good"]
    /\ file = [i \in Imports |-> "missing"]
    /\ run = "none"
    /\ writes = Free
    /\ gate = FALSE
    /\ backup = IdleBackup
    /\ bundle = Free
    /\ tampered = {}
    /\ restore = IdleRestore
    /\ target = Free
    /\ told = [backup |-> "nothing", restore |-> "nothing"]
    /\ damages = 0
    /\ faults = 0

-----------------------------------------------------------------------------
(* The activity a backup must not meet.                                    *)

Sessions == {i \in Imports : status[i] \in {"ready", "unavailable"}}

\* begin, attach_import, cancel: each under a lease.
Import(i, from, to) ==
    /\ ~gate /\ status[i] = from
    /\ status' = [status EXCEPT ![i] = to]
    /\ UNCHANGED <<activity, files, gate, backup, bundle, tampered, restore, target, told, bounds>>

\* SessionService.submit holds a lease for the transaction only.
SubmitRun(i) ==
    /\ ~gate /\ run = "none" /\ i \in Sessions
    /\ run' = "queued" /\ writes' = i
    /\ UNCHANGED <<status, output, files, gate, backup, bundle, tampered, restore, target, told, bounds>>

\* SessionService.execute takes its lease, or fails the run.
ExecuteRun ==
    /\ run = "queued"
    /\ IF gate THEN run' = "none" /\ writes' = Free ELSE run' = "executing" /\ UNCHANGED writes
    /\ UNCHANGED <<status, output, files, gate, backup, bundle, tampered, restore, target, told, bounds>>

\* What becomes of the write of the run, in the rows and in the directory.
Wrote(results) ==
    \E result \in results :
        IF output[writes] = "none" /\ file[writes] = "missing" /\ status[writes] = "ready"
        THEN /\ output' = [output EXCEPT ![writes] = result[1]]
             /\ file' = [file EXCEPT ![writes] = result[2]]
        ELSE UNCHANGED <<output, file>>

\* A run that ends: no write, a confirmed one, or one that was allowed and failed or is of
\* unknown outcome; its approval stays "allowed" then.
EndRun ==
    /\ run = "executing"
    /\ Wrote({<<"none", "missing">>, <<"confirmed", "same">>, <<"allowed", "missing">>, <<"allowed", "same">>})
    /\ run' = "none" /\ writes' = Free
    /\ UNCHANGED <<status, source, gate, backup, bundle, tampered, restore, target, told, bounds>>

\* Another program changes a published file or an output file.
Damage(i) ==
    /\ i \in Sessions /\ damages < MaxDamage
    /\ damages' = damages + 1
    /\ \/ source[i] = "good" /\ source' = [source EXCEPT ![i] = "damaged"] /\ UNCHANGED file
       \/ UNCHANGED source /\ \E f \in {"missing", "different"} \ {file[i]} :
            file' = [file EXCEPT ![i] = f]
    /\ UNCHANGED <<status, activity, gate, backup, bundle, tampered, restore, target, told, faults>>

\* ImportStore.open finds the damage and records it.
Unavailable(i) == IF source[i] = "damaged" THEN [status EXCEPT ![i] = "unavailable"] ELSE status

\* Somebody looks at the session: no lease.
View(i) ==
    /\ status[i] = "ready" /\ source[i] = "damaged"
    /\ status' = Unavailable(i)
    /\ UNCHANGED <<activity, files, gate, backup, bundle, tampered, restore, target, told, bounds>>

-----------------------------------------------------------------------------
(* Backup.                                                                 *)

At(pc) == backup.pc = pc
Fails == faults < MaxFaults /\ faults' = faults + 1

\* The rows as they are.
Rows == [status |-> status, output |-> output]

\* Mutant of Quiet: approvals are not looked at.
QuietButApprovals == run = "none" /\ \A i \in Imports : status[i] # "open"

\* _assert_quiet.
Quiet ==
    /\ run = "none"
    /\ \A i \in Imports : status[i] # "open" /\ output[i] # "allowed"

\* Mutant of Says: the gate is not opened on the way out.
SaysGated(answer) ==
    /\ told' = [told EXCEPT !.backup = answer]
    /\ backup' = IdleBackup
    /\ UNCHANGED gate

\* backup_bundle ends, its staging directory is removed, the gate is open again.
Says(answer) ==
    /\ told' = [told EXCEPT !.backup = answer]
    /\ backup' = IdleBackup
    /\ gate' = FALSE

BackupStarts ==
    /\ At("idle") /\ bundle \in {Free, Foreign} /\ ~gate /\ run # "executing"
    /\ gate' = TRUE
    /\ backup' = [IdleBackup EXCEPT !.pc = "check"]
    /\ told' = [told EXCEPT !.backup = "nothing"]
    /\ UNCHANGED <<status, activity, files, bundle, tampered, restore, target, bounds>>

\* STATE_BUSY; or the staging directory is made.
BackupChecks ==
    /\ At("check")
    /\ IF Quiet THEN backup' = [backup EXCEPT !.pc = "snapshot"] /\ UNCHANGED <<told, gate>>
                ELSE Says("busy")
    /\ UNCHANGED <<status, activity, files, bundle, tampered, restore, target, bounds>>

\* SessionStore.backup copies the database at one moment.
BackupSnapshots ==
    /\ At("snapshot")
    /\ backup' = [backup EXCEPT !.pc = "inspect", !.rows = Rows]
    /\ UNCHANGED <<status, activity, files, gate, bundle, tampered, restore, target, told, bounds>>

ReadyIn(rows) == {i \in Imports : rows.status[i] = "ready"}

\* The import opens, and its artifact, if there is one, is what was recorded.
Opens(i) ==
    /\ status[i] = "ready" /\ source[i] = "good"
    /\ backup.rows.output[i] = "confirmed" => file[i] = "same"

\* _copy_import up to the copy: what unknown publications are now is written down.
BackupInspects(i) ==
    /\ At("inspect") /\ i \in ReadyIn(backup.rows) \ DOMAIN backup.trees
    /\ IF Opens(i)
       THEN /\ backup' = [backup EXCEPT !.pc = "copy", !.at = i, !.seen = file[i]]
            /\ UNCHANGED <<gate, told>>
       ELSE Says("failed")
    /\ status' = IF status[i] = "ready" THEN Unavailable(i) ELSE status
    /\ UNCHANGED <<activity, files, bundle, tampered, restore, target, bounds>>

\* What the copied files of i must be, by the copied rows and by what was seen.
Agrees(i) ==
    /\ source[i] = "good"
    /\ file[i] = CASE backup.rows.output[i] = "confirmed" -> "same"
                   [] backup.rows.output[i] = "unknown" -> backup.seen
                   [] OTHER -> "missing"

BackupCopies ==
    /\ At("copy")
    /\ IF Agrees(backup.at)
       THEN /\ backup' = [backup EXCEPT !.pc = "inspect", !.at = Free, !.seen = Free,
                            !.trees = [i \in DOMAIN @ \cup {backup.at} |->
                                          IF i = backup.at THEN [source |-> source[i], file |-> file[i]]
                                                           ELSE @[i]]]
            /\ UNCHANGED <<gate, told>>
       ELSE Says("failed")
    /\ UNCHANGED <<status, activity, files, bundle, tampered, restore, target, bounds>>

\* The manifest is written and the staging directory renamed, unless the name is taken.
BackupPublishes ==
    /\ At("inspect") /\ DOMAIN backup.trees = ReadyIn(backup.rows)
    /\ IF bundle = Free
       THEN /\ bundle' = [rows |-> backup.rows, trees |-> backup.trees]
            /\ backup' = [backup EXCEPT !.pc = "published"]
            /\ UNCHANGED <<told, gate>>
       ELSE Says("failed") /\ UNCHANGED bundle
    /\ UNCHANGED <<status, activity, files, tampered, restore, target, bounds>>

BackupEnds ==
    /\ At("published")
    /\ Says("ok")
    /\ UNCHANGED <<status, activity, files, bundle, tampered, restore, target, bounds>>

\* Mutant of BackupFault: every failure is STATE_BACKUP_FAILED.
BackupFaultFails ==
    /\ backup.pc \in {"snapshot", "inspect", "copy", "published"} /\ Fails
    /\ Says("failed")
    /\ UNCHANGED <<status, activity, files, bundle, tampered, restore, target, damages>>

\* A system call fails: STATE_BACKUP_FAILED before the rename, OUTCOME_UNKNOWN after it.
BackupFault ==
    /\ backup.pc \in {"snapshot", "inspect", "copy", "published"} /\ Fails
    /\ Says(IF At("published") THEN "unknown" ELSE "failed")
    /\ UNCHANGED <<status, activity, files, bundle, tampered, restore, target, damages>>

-----------------------------------------------------------------------------
(* Restore, in a process of its own: it needs the bundle only.             *)

Is(place) == place \notin {Free, Foreign}
Restoring(pc) == restore.pc = pc

Answers(answer) ==
    /\ told' = [told EXCEPT !.restore = answer]
    /\ restore' = IdleRestore

\* The parts of a bundle: the database, and the files of each import.
Parts(b) == DOMAIN b.trees \cup {"database"}

\* _bundle_input and _restore_target: manifest and database are what they were.
RestoreStarts ==
    /\ Restoring("idle") /\ Is(bundle) /\ target \in {Free, Foreign}
    /\ IF "database" \in tampered \/ target # Free
       THEN Answers(IF "database" \in tampered THEN "failed" ELSE "exists")
       ELSE /\ restore' = [IdleRestore EXCEPT !.pc = "copy"]
            /\ told' = [told EXCEPT !.restore = "nothing"]
    /\ UNCHANGED <<status, activity, files, gate, backup, bundle, tampered, target, bounds>>

\* Each part is copied and compared with the manifest.
RestoreCopies(p) ==
    /\ Restoring("copy") /\ p \in Parts(bundle) \ restore.parts
    /\ IF p \in tampered THEN Answers("failed")
       ELSE restore' = [restore EXCEPT !.parts = @ \cup {p}] /\ UNCHANGED told
    /\ UNCHANGED <<status, activity, files, gate, backup, bundle, tampered, target, bounds>>

\* _validate_snapshot_contract; then the copies get their own identities, and one
\* transaction writes them to the rows of imports and sessions.
RestoreBinds ==
    /\ Restoring("copy") /\ restore.parts = Parts(bundle)
    /\ IF DOMAIN bundle.trees = ReadyIn(bundle.rows)
       THEN /\ restore' = [restore EXCEPT !.pc = "verify", !.bound = DOMAIN bundle.trees]
            /\ UNCHANGED told
       ELSE Answers("failed")
    /\ UNCHANGED <<status, activity, files, gate, backup, bundle, tampered, target, bounds>>

\* The resolver accepts the session of import i in the staged state.
Resolves(i) ==
    /\ bundle.rows.status[i] = "ready" /\ i \in restore.bound
    /\ bundle.trees[i].source = "good"
    /\ bundle.rows.output[i] = "confirmed" => bundle.trees[i].file = "same"

\* The staged state is opened: every session with an import, every artifact.
RestoreVerifies ==
    /\ Restoring("verify")
    /\ IF \A i \in Imports : bundle.rows.status[i] \in {"ready", "unavailable"} => Resolves(i)
       THEN restore' = [restore EXCEPT !.pc = "publish"] /\ UNCHANGED told
       ELSE Answers("failed")
    /\ UNCHANGED <<status, activity, files, gate, backup, bundle, tampered, target, bounds>>

RestorePublishes ==
    /\ Restoring("publish")
    /\ IF target = Free
       THEN /\ target' = [rows |-> bundle.rows, trees |-> bundle.trees, bound |-> restore.bound]
            /\ restore' = [restore EXCEPT !.pc = "published"]
            /\ UNCHANGED told
       ELSE Answers("failed") /\ UNCHANGED target
    /\ UNCHANGED <<status, activity, files, gate, backup, bundle, tampered, bounds>>

RestoreEnds ==
    /\ Restoring("published")
    /\ Answers("ok")
    /\ UNCHANGED <<status, activity, files, gate, backup, bundle, tampered, target, bounds>>

RestoreFault ==
    /\ ~Restoring("idle") /\ Fails
    /\ Answers(IF Restoring("published") THEN "unknown" ELSE "failed")
    /\ UNCHANGED <<status, activity, files, gate, backup, bundle, tampered, target, damages>>

-----------------------------------------------------------------------------
\* The names and the bundle are in directories of the user.
Occupy ==
    /\ \/ bundle = Free /\ bundle' = Foreign /\ UNCHANGED target
       \/ target = Free /\ target' = Foreign /\ UNCHANGED bundle
    /\ UNCHANGED <<status, activity, files, gate, backup, tampered, restore, told, bounds>>

Tamper ==
    /\ Is(bundle) /\ damages < MaxDamage
    /\ damages' = damages + 1
    /\ \E p \in Parts(bundle) : tampered' = tampered \cup {p}
    /\ UNCHANGED <<status, activity, files, gate, backup, bundle, restore, target, told, faults>>

\* The process of the state dies, and the next one settles runs and open imports: what a
\* run was about to write is unknown, and its approval expires.  Or the process of the
\* restore dies.  Staging directories stay and are not looked at again.
Crash ==
    /\ IF run = "executing"
       THEN Wrote({<<"none", "missing">>, <<"confirmed", "same">>, <<"unknown", "missing">>, <<"unknown", "same">>})
       ELSE UNCHANGED <<output, file>>
    /\ status' = [i \in Imports |-> IF status[i] = "open" THEN "absent" ELSE status[i]]
    /\ run' = "none" /\ writes' = Free /\ gate' = FALSE /\ backup' = IdleBackup
    /\ UNCHANGED <<source, bundle, tampered, restore, target, told, bounds>>

RestoreDies ==
    /\ restore' = IdleRestore
    /\ UNCHANGED <<status, activity, files, gate, backup, bundle, tampered, target, told, bounds>>

-----------------------------------------------------------------------------
Active(i) ==
    \/ Import(i, "absent", "open") \/ Import(i, "open", "absent") \/ Import(i, "open", "ready")
    \/ SubmitRun(i) \/ Damage(i) \/ View(i)

Backups ==
    \/ BackupStarts \/ BackupChecks \/ BackupSnapshots \/ BackupCopies \/ BackupPublishes
    \/ BackupEnds \/ BackupFault \/ \E i \in Imports : BackupInspects(i)

Restores ==
    \/ RestoreStarts \/ RestoreBinds \/ RestoreVerifies \/ RestorePublishes \/ RestoreEnds
    \/ RestoreFault \/ \E p \in Imports \cup {"database"} : RestoreCopies(p)

BackupNext ==
    \/ \E i \in Imports : Active(i)
    \/ ExecuteRun \/ EndRun \/ Backups \/ Restores \/ Occupy \/ Tamper \/ Crash \/ RestoreDies

BackupSpec == BackupInit /\ [][BackupNext]_vars

-----------------------------------------------------------------------------
Said == {"nothing", "ok", "failed", "busy", "exists", "unknown"}

StateTyped ==
    /\ status \in [Imports -> Statuses] /\ output \in [Imports -> Outputs]
    /\ source \in [Imports -> {"good", "damaged"}]
    /\ file \in [Imports -> Files]

RunTyped ==
    /\ run \in {"none", "queued", "executing"}
    /\ writes \in Imports \cup {Free} /\ (run = "none" <=> writes = Free)

BackupTyped ==
    backup \in [pc : {"idle", "check", "snapshot", "inspect", "copy", "published"},
               rows : AllRows \cup {Free}, trees : Trees,
               at : Imports \cup {Free}, seen : Files \cup {Free}]

RestoreTyped ==
    restore \in [pc : {"idle", "copy", "verify", "publish", "published"},
                parts : SUBSET (Imports \cup {"database"}), bound : SUBSET Imports]

PlacesTyped ==
    /\ bundle \in Bundles \cup {Free, Foreign}
    /\ target \in Targets \cup {Free, Foreign}
    /\ told \in [backup : Said, restore : Said]

\* Type invariant.
BackupTypeOK ==
    /\ StateTyped /\ RunTyped /\ BackupTyped /\ RestoreTyped /\ PlacesTyped
    /\ gate \in BOOLEAN /\ (gate <=> ~At("idle"))
    /\ ~Restoring("idle") => Is(bundle)

\* What rows and files show a user: the sessions with their documents and outputs, or
\* "broken" where files and rows do not belong together.  A bundle counts as good as the
\* rows say; damage that the rows record is part of the state.
Shown(rows) ==
    [i \in Imports |-> IF rows.status[i] \in {"ready", "unavailable"}
                       THEN rows.output[i] ELSE rows.status[i]]

Whole(copy) ==
    /\ DOMAIN copy.trees = ReadyIn(copy.rows)
    /\ \A i \in DOMAIN copy.trees :
         /\ copy.trees[i].source = "good"
         /\ copy.rows.output[i] = "confirmed" => copy.trees[i].file = "same"
         /\ copy.rows.output[i] = "none" => copy.trees[i].file = "missing"
    /\ \A i \in Imports : copy.rows.status[i] # "open" /\ copy.rows.output[i] # "allowed"

Visible(place, whole) ==
    IF ~Is(place) THEN place ELSE IF whole THEN Shown(place.rows)
    ELSE [i \in Imports |-> "broken"]

Contract == INSTANCE BackupContract WITH
    live   <- Shown(Rows),
    bundle <- Visible(bundle, Is(bundle) /\ Whole(bundle)),
    target <- Visible(target, Is(target) /\ Whole(target) /\ target.bound = DOMAIN target.trees)

\* Backup and restore copy one moment of the state as a whole and say so truly, whatever
\* runs, imports, looks and other programs do meanwhile and wherever a command fails or dies.
KeepsBackupContract == Contract!BackupContractSpec

\* A bundle that was reported complete and that nobody touched can be restored.
\* ("after an explicit restore from a paired backup into a new empty state store the
\* documents, sessions and references are usable", import design, acceptance item 8)
CompleteBundleRestores ==
    told.restore = "failed" => tampered # {} \/ faults > 0 \/ target = Foreign
=============================================================================
