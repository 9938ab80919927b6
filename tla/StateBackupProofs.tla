-------------------------- MODULE StateBackupProofs --------------------------
(***************************************************************************)
(* Proofs about StateBackup, for every set of imports and any number of    *)
(* changes by others and failing calls: type correctness, and that backup  *)
(* and restore keep BackupContract.                                        *)
(***************************************************************************)
EXTENDS StateBackup, TLAPS

-----------------------------------------------------------------------------
(* The inductive invariant.                                                *)

\* From _assert_quiet on the gate keeps the state quiet.
HeldQuiet == backup.pc \in {"snapshot", "inspect", "copy", "published"} => Quiet

\* The rows are still those of the copied database, but for damage that somebody found.
SnapshotHolds ==
    backup.pc \in {"inspect", "copy"} =>
        /\ backup.rows \in AllRows
        /\ backup.rows.output = output
        /\ \A i \in Imports : backup.rows.status[i] # status[i] =>
             backup.rows.status[i] = "ready" /\ status[i] = "unavailable"

\* The files copied so far are what the copied rows say of ready imports.
TreesAreWhole ==
    /\ backup.pc \in {"check", "snapshot"} => DOMAIN backup.trees = {}
    /\ backup.pc \in {"inspect", "copy"} =>
         /\ DOMAIN backup.trees \subseteq ReadyIn(backup.rows)
         /\ \A i \in DOMAIN backup.trees :
              /\ backup.trees[i].source = "good"
              /\ backup.rows.output[i] = "confirmed" => backup.trees[i].file = "same"
              /\ backup.rows.output[i] = "none" => backup.trees[i].file = "missing"
    /\ At("copy") => backup.at \in ReadyIn(backup.rows)

\* A backup that is under way has said nothing, and has taken its name only at the end.
BackupPlace ==
    ~At("idle") =>
        /\ told.backup = "nothing"
        /\ IF At("published") THEN Is(bundle) ELSE bundle \in {Free, Foreign}

\* So has a restore, which bound every part of the bundle.
RestorePlace ==
    ~Restoring("idle") =>
        /\ told.restore = "nothing"
        /\ IF Restoring("published") THEN Is(target) ELSE target \in {Free, Foreign}
        /\ restore.pc \in {"verify", "publish"} => restore.bound = DOMAIN bundle.trees

\* The gate is held by a backup, and a restore has a bundle.
Held ==
    /\ gate \in BOOLEAN /\ (gate <=> ~At("idle"))
    /\ ~Restoring("idle") => Is(bundle)

BackupInv ==
    /\ StateTyped /\ RunTyped /\ BackupTyped /\ RestoreTyped /\ PlacesTyped /\ Held
    /\ HeldQuiet /\ SnapshotHolds /\ TreesAreWhole /\ BackupPlace /\ RestorePlace

-----------------------------------------------------------------------------
\* No import has a copy when a backup begins.
LEMMA NoTrees == <<>> \in Trees
<1> QED BY DEF Trees

\* One more tree is copied.
LEMMA OneMoreTree ==
    ASSUME NEW trees \in Trees, NEW i \in Imports, NEW t \in Tree
    PROVE  [j \in DOMAIN trees \cup {i} |-> IF j = i THEN t ELSE trees[j]] \in Trees
<1>1. PICK some \in SUBSET Imports : trees \in [some -> Tree]
    BY DEF Trees
<1>2. [j \in DOMAIN trees \cup {i} |-> IF j = i THEN t ELSE trees[j]] \in [some \cup {i} -> Tree]
    BY <1>1
<1> QED BY <1>2 DEF Trees

\* Copied trees are copies of some of the imports.
LEMMA TreesOfImports ==
    ASSUME NEW trees \in Trees
    PROVE  /\ DOMAIN trees \subseteq Imports
           /\ \A i \in DOMAIN trees : trees[i] \in Tree
<1> QED BY DEF Trees

\* A backup that is over has no copies left.
LEMMA Idling ==
    ASSUME backup' = IdleBackup
    PROVE  (BackupTyped /\ At("idle") /\ HeldQuiet /\ SnapshotHolds /\ TreesAreWhole /\ BackupPlace)'
<1>1. backup'.pc = "idle"
    BY DEF IdleBackup
<1>2. BackupTyped'
    BY NoTrees DEF BackupTyped, IdleBackup
<1> QED BY <1>1, <1>2 DEF At, HeldQuiet, SnapshotHolds, TreesAreWhole, BackupPlace

\* Every step keeps the inductive invariant.
LEMMA BackupStep == BackupInv /\ [BackupNext]_vars => BackupInv'
<1> SUFFICES ASSUME StateTyped, RunTyped, BackupTyped, RestoreTyped, PlacesTyped, Held, HeldQuiet,
                    SnapshotHolds, TreesAreWhole, BackupPlace, RestorePlace, [BackupNext]_vars
             PROVE  BackupInv'
    BY DEF BackupInv
<1>1. ASSUME NEW i \in Imports, NEW from \in {"absent", "open"},
             NEW to \in {"absent", "open", "ready"},
             Import(i, from, to)
      PROVE  BackupInv'
    BY <1>1 DEF StateTyped, Statuses, Import, activity, files, RunTyped, BackupTyped, RestoreTyped,
        PlacesTyped, Held, At, Restoring, HeldQuiet, SnapshotHolds, TreesAreWhole, BackupPlace,
        RestorePlace, BackupInv
<1>2. ASSUME NEW i \in Imports, SubmitRun(i)
      PROVE  BackupInv'
    <2>1. StateTyped' BY <1>2 DEF StateTyped, SubmitRun, files
    <2>2. RunTyped' BY <1>2, BackupAssumption DEF RunTyped, SubmitRun
    <2>3. BackupTyped' BY <1>2 DEF BackupTyped, SubmitRun
    <2>4. RestoreTyped' BY <1>2 DEF RestoreTyped, SubmitRun
    <2>5. PlacesTyped' BY <1>2 DEF PlacesTyped, SubmitRun
    <2>6. Held' BY <1>2 DEF Held, At, Restoring, SubmitRun
    <2>7. HeldQuiet' BY <1>2 DEF HeldQuiet, SubmitRun, Held, At
    <2>8. SnapshotHolds' BY <1>2 DEF SnapshotHolds, SubmitRun
    <2>9. TreesAreWhole' BY <1>2 DEF TreesAreWhole, At, SubmitRun
    <2>10. BackupPlace' BY <1>2 DEF BackupPlace, At, SubmitRun
    <2>11. RestorePlace' BY <1>2 DEF RestorePlace, Restoring, SubmitRun
    <2> QED BY <2>1, <2>2, <2>3, <2>4, <2>5, <2>6, <2>7, <2>8, <2>9, <2>10, <2>11 DEF BackupInv
<1>3. ASSUME NEW i \in Imports, Damage(i)
      PROVE  BackupInv'
    BY <1>3 DEF StateTyped, Files, Damage, activity, RunTyped, BackupTyped, RestoreTyped,
        PlacesTyped, Held, At, Restoring, HeldQuiet, Quiet, SnapshotHolds, TreesAreWhole,
        BackupPlace, RestorePlace, BackupInv
<1>4. ASSUME NEW i \in Imports, View(i)
      PROVE  BackupInv'
    BY <1>4 DEF StateTyped, Statuses, View, Unavailable, activity, files, RunTyped, BackupTyped,
        RestoreTyped, PlacesTyped, Held, At, Restoring, HeldQuiet, Quiet, SnapshotHolds,
        TreesAreWhole, BackupPlace, RestorePlace, BackupInv
<1>5. ASSUME ExecuteRun
      PROVE  BackupInv'
    BY <1>5 DEF StateTyped, ExecuteRun, files, RunTyped, BackupTyped, RestoreTyped, PlacesTyped,
        Held, At, Restoring, HeldQuiet, Quiet, SnapshotHolds, TreesAreWhole, BackupPlace,
        RestorePlace, BackupInv
<1>6. ASSUME EndRun
      PROVE  BackupInv'
    BY <1>6 DEF StateTyped, Outputs, Files, EndRun, Wrote, RunTyped, BackupTyped, RestoreTyped,
        PlacesTyped, Held, At, Restoring, HeldQuiet, Quiet, SnapshotHolds, TreesAreWhole,
        BackupPlace, RestorePlace, BackupInv
<1>7. ASSUME BackupStarts
      PROVE  BackupInv'
    <2>1. StateTyped' BY <1>7 DEF StateTyped, BackupStarts, activity, files
    <2>2. RunTyped' BY <1>7 DEF RunTyped, BackupStarts, activity
    <2>3. BackupTyped' BY <1>7, NoTrees DEF BackupTyped, BackupStarts, IdleBackup
    <2>4. RestoreTyped' BY <1>7 DEF RestoreTyped, BackupStarts
    <2>5. PlacesTyped' BY <1>7 DEF PlacesTyped, Said, BackupStarts
    <2>6. Held' BY <1>7 DEF Held, At, Restoring, BackupStarts
    <2>7. HeldQuiet' BY <1>7 DEF HeldQuiet, BackupStarts
    <2>8. SnapshotHolds' BY <1>7 DEF SnapshotHolds, BackupStarts
    <2>9. TreesAreWhole'
        <3>1. backup'.pc = "check" /\ backup'.trees = <<>>
            BY <1>7 DEF BackupStarts, IdleBackup
        <3> QED BY <3>1 DEF TreesAreWhole, At
    <2>10. BackupPlace' BY <1>7 DEF BackupPlace, At, BackupStarts
    <2>11. RestorePlace' BY <1>7 DEF RestorePlace, Restoring, BackupStarts
    <2> QED BY <2>1, <2>2, <2>3, <2>4, <2>5, <2>6, <2>7, <2>8, <2>9, <2>10, <2>11 DEF BackupInv
<1>8. ASSUME BackupChecks
      PROVE  BackupInv'
    <2>1. (StateTyped /\ RunTyped /\ RestoreTyped /\ PlacesTyped /\ HeldQuiet /\ SnapshotHolds
           /\ TreesAreWhole /\ BackupPlace /\ RestorePlace)'
        BY <1>8 DEF StateTyped, BackupChecks, activity, files, RunTyped, RestoreTyped, PlacesTyped,
            Said, Says, HeldQuiet, Quiet, IdleBackup, SnapshotHolds, BackupTyped, TreesAreWhole, At,
            BackupPlace, RestorePlace, Restoring
    <2>2. BackupTyped'
        <3>1. CASE backup' = IdleBackup
            BY <1>8, <3>1, Idling DEF BackupTyped
        <3>2. CASE backup' = [backup EXCEPT !.pc = "snapshot"] /\ UNCHANGED gate
            BY <1>8, <3>2 DEF BackupTyped
        <3> QED BY <1>8, <3>1, <3>2 DEF BackupChecks, Says
    <2>3. Held'
        <3>1. CASE backup' = IdleBackup /\ gate' = FALSE
            BY <1>8, <3>1, Idling DEF Held, BackupChecks, At, Is, Restoring
        <3>2. CASE backup' = [backup EXCEPT !.pc = "snapshot"] /\ UNCHANGED gate
            BY <1>8, <3>2 DEF Held, At, BackupTyped, BackupChecks, Is, Restoring
        <3> QED BY <1>8, <3>1, <3>2 DEF BackupChecks, Says
    <2> QED BY <2>1, <2>2, <2>3 DEF BackupInv
<1>9. ASSUME BackupSnapshots
      PROVE  BackupInv'
    <2>1. (StateTyped /\ RunTyped /\ RestoreTyped /\ PlacesTyped /\ Held /\ HeldQuiet
           /\ SnapshotHolds /\ TreesAreWhole /\ BackupPlace /\ RestorePlace)'
        BY <1>9 DEF StateTyped, BackupSnapshots, activity, files, RunTyped, RestoreTyped,
            PlacesTyped, Held, At, Restoring, HeldQuiet, Quiet, SnapshotHolds, AllRows, Rows,
            TreesAreWhole, BackupPlace, RestorePlace
    <2>2. BackupTyped'
        BY <1>9 DEF BackupTyped, AllRows, Trees, Files, Statuses, Outputs, Tree, BackupSnapshots,
            At, Rows, activity, files, bounds, StateTyped, RunTyped, RestoreTyped, PlacesTyped
    <2> QED BY <2>1, <2>2 DEF BackupInv
<1>10. ASSUME NEW i \in Imports, BackupInspects(i)
      PROVE  BackupInv'
    <2>1. (StateTyped /\ RunTyped /\ RestoreTyped /\ PlacesTyped /\ HeldQuiet /\ RestorePlace)'
        BY <1>10 DEF StateTyped, Statuses, BackupInspects, Unavailable, activity, files, RunTyped,
            RestoreTyped, PlacesTyped, Said, Says, HeldQuiet, Quiet, At, RestorePlace, Restoring
    <2>2. BackupTyped'
        <3>1. CASE backup' = IdleBackup
            BY <1>10, <3>1, Idling DEF BackupTyped
        <3>2. CASE backup' = [backup EXCEPT !.pc = "copy", !.at = i, !.seen = file[i]] /\ UNCHANGED <<gate, told>>
            BY <1>10, <3>2 DEF BackupTyped, StateTyped
        <3> QED BY <1>10, <3>1, <3>2 DEF BackupInspects, Says
    <2>3. Held'
        <3>1. CASE backup' = IdleBackup /\ gate' = FALSE
            BY <1>10, <3>1, Idling DEF Held, BackupInspects, At, Is, Restoring
        <3>2. CASE backup' = [backup EXCEPT !.pc = "copy", !.at = i, !.seen = file[i]] /\ UNCHANGED <<gate, told>>
            BY <1>10, <3>2 DEF Held, At, BackupTyped, BackupInspects, Is, Restoring
        <3> QED BY <1>10, <3>1, <3>2 DEF BackupInspects, Says
    <2>4. SnapshotHolds'
        <3>1. CASE backup' = IdleBackup
            BY <3>1, Idling
        <3>2. CASE backup' = [backup EXCEPT !.pc = "copy", !.at = i, !.seen = file[i]]
            <4>1. backup'.pc = "copy" /\ backup'.rows = backup.rows
                BY <3>2 DEF BackupTyped
            <4>2. \A j \in Imports : status'[j] # status[j] =>
                    status[j] = "ready" /\ status'[j] = "unavailable"
                BY <1>10 DEF BackupInspects, Unavailable, StateTyped
            <4> QED BY <1>10, <4>1, <4>2 DEF BackupInspects, At, SnapshotHolds, activity
        <3> QED BY <1>10, <3>1, <3>2 DEF BackupInspects, Says
    <2>5. TreesAreWhole'
        <3>1. CASE backup' = IdleBackup
            BY <1>10, <3>1, Idling DEF TreesAreWhole
        <3>2. CASE backup' = [backup EXCEPT !.pc = "copy", !.at = i, !.seen = file[i]] /\ UNCHANGED <<gate, told>>
            BY <1>10, <3>2 DEF TreesAreWhole, At, BackupTyped, BackupInspects, ReadyIn
        <3> QED BY <1>10, <3>1, <3>2 DEF BackupInspects, Says
    <2>6. BackupPlace'
        <3>1. CASE backup' = IdleBackup
            BY <1>10, <3>1, Idling DEF BackupPlace
        <3>2. CASE backup' = [backup EXCEPT !.pc = "copy", !.at = i, !.seen = file[i]] /\ UNCHANGED <<gate, told>>
            BY <1>10, <3>2 DEF BackupPlace, At, BackupTyped, BackupInspects, Is
        <3> QED BY <1>10, <3>1, <3>2 DEF BackupInspects, Says
    <2> QED BY <2>1, <2>2, <2>3, <2>4, <2>5, <2>6 DEF BackupInv
<1>11. ASSUME BackupCopies
      PROVE  BackupInv'
    <2>1. StateTyped' BY <1>11 DEF StateTyped, BackupCopies, activity, files
    <2>2. RunTyped' BY <1>11 DEF RunTyped, BackupCopies, activity
    <2>3. BackupTyped'
        <3> DEFINE t == [source |-> source[backup.at], file |-> file[backup.at]]
                   trees == [i \in DOMAIN backup.trees \cup {backup.at} |->
                                IF i = backup.at THEN t ELSE backup.trees[i]]
        <3>1. CASE backup' = [backup EXCEPT !.pc = "inspect", !.at = Free, !.seen = Free, !.trees = trees]
            <4>1. backup.at \in Imports
                BY <1>11 DEF BackupCopies, At, TreesAreWhole, ReadyIn
            <4>2. t \in Tree
                BY <4>1 DEF StateTyped, Tree
            <4>3. trees \in Trees
                BY <4>1, <4>2, OneMoreTree DEF BackupTyped
            <4> HIDE DEF trees
            <4> QED BY <3>1, <4>3 DEF BackupTyped
        <3>2. CASE backup' = IdleBackup
            BY <3>2, Idling
        <3> QED BY <1>11, <3>1, <3>2 DEF BackupCopies, Says
    <2>4. RestoreTyped' BY <1>11 DEF RestoreTyped, BackupCopies
    <2>5. PlacesTyped' BY <1>11 DEF PlacesTyped, Said, BackupCopies, Says
    <2>6. Held'
        <3>1. UNCHANGED <<bundle, restore>>
            BY <1>11 DEF BackupCopies
        <3>2. CASE ~Agrees(backup.at)
            <4>1. backup' = IdleBackup /\ gate' = FALSE
                BY <1>11, <3>2 DEF BackupCopies, Says
            <4> QED BY <3>1, <4>1, Idling DEF Held, Is, Restoring
        <3>3. CASE Agrees(backup.at)
            <4>1. backup'.pc = "inspect" /\ UNCHANGED gate
                BY <1>11, <3>3 DEF BackupCopies, BackupTyped
            <4>2. backup.pc = "copy"
                BY <1>11 DEF BackupCopies, At
            <4>3. gate' \in BOOLEAN /\ gate'
                BY <4>1, <4>2 DEF Held, At
            <4>4. ~At("idle")'
                BY <4>1 DEF At
            <4>5. (~Restoring("idle") => Is(bundle))'
                BY <3>1 DEF Held, Is, Restoring
            <4> QED BY <4>3, <4>4, <4>5 DEF Held
        <3> QED BY <3>2, <3>3
    <2>7. HeldQuiet' BY <1>11 DEF HeldQuiet, Quiet, BackupCopies, At, activity
    <2>8. SnapshotHolds'
        <3>1. CASE backup' = IdleBackup
            BY <1>11, <3>1, Idling DEF SnapshotHolds
        <3>2. CASE UNCHANGED <<gate, told>> /\ backup' # IdleBackup
            <4>1. backup'.pc = "inspect" /\ backup'.rows = backup.rows
                BY <1>11, <3>2 DEF BackupCopies, Says, BackupTyped
            <4> QED BY <1>11, <3>2, <4>1 DEF BackupCopies, SnapshotHolds, At, activity
        <3> QED BY <1>11, <3>1, <3>2 DEF BackupCopies, Says
    <2>9. TreesAreWhole'
        <3>1. CASE backup' = IdleBackup
            BY <3>1, Idling
        <3>2. CASE Agrees(backup.at) /\ backup' # IdleBackup
            <4>1. /\ backup'.pc = "inspect" /\ backup'.rows = backup.rows
                  /\ backup'.trees = [i \in DOMAIN backup.trees \cup {backup.at} |->
                                       IF i = backup.at THEN [source |-> source[i], file |-> file[i]]
                                                        ELSE backup.trees[i]]
                BY <1>11, <3>2 DEF BackupCopies, Says, BackupTyped
            <4>2. /\ source[backup.at] = "good"
                  /\ backup.rows.output[backup.at] = "confirmed" => file[backup.at] = "same"
                  /\ backup.rows.output[backup.at] = "none" => file[backup.at] = "missing"
                BY <3>2 DEF Agrees
            <4>3. backup.pc = "copy"
                BY <1>11 DEF BackupCopies, At
            <4> QED BY <4>1, <4>2, <4>3 DEF TreesAreWhole, At, ReadyIn
        <3> QED BY <1>11, <3>1, <3>2 DEF BackupCopies, Says
    <2>10. BackupPlace'
        <3>1. CASE backup' = IdleBackup
            BY <1>11, <3>1, Idling DEF BackupPlace
        <3>2. CASE UNCHANGED <<gate, told>> /\ backup' # IdleBackup
            <4>1. backup'.pc = "inspect" /\ backup'.rows = backup.rows
                BY <1>11, <3>2 DEF BackupCopies, Says, BackupTyped
            <4> QED BY <1>11, <3>2, <4>1 DEF BackupCopies, BackupPlace, At, Is
        <3> QED BY <1>11, <3>1, <3>2 DEF BackupCopies, Says
    <2>11. RestorePlace' BY <1>11 DEF RestorePlace, Restoring, BackupCopies, Says, PlacesTyped
    <2> QED BY <2>1, <2>2, <2>3, <2>4, <2>5, <2>6, <2>7, <2>8, <2>9, <2>10, <2>11 DEF BackupInv
<1>12. ASSUME BackupPublishes
      PROVE  BackupInv'
    <2>1. StateTyped' BY <1>12 DEF StateTyped, BackupPublishes, activity, files
    <2>2. RunTyped' BY <1>12 DEF RunTyped, BackupPublishes, activity
    <2>3. BackupTyped'
        <3>1. CASE backup' = IdleBackup
            BY <1>12, <3>1, Idling DEF BackupTyped
        <3>2. CASE backup' = [backup EXCEPT !.pc = "published"] /\ UNCHANGED <<told, gate>>
            BY <1>12, <3>2 DEF BackupTyped
        <3> QED BY <1>12, <3>1, <3>2 DEF BackupPublishes, Says
    <2>4. RestoreTyped' BY <1>12 DEF RestoreTyped, BackupPublishes
    <2>5. PlacesTyped'
        <3>1. CASE bundle' = [rows |-> backup.rows, trees |-> backup.trees] /\ UNCHANGED told
            <4>1. backup.rows \in AllRows
                BY <1>12 DEF BackupPublishes, At, SnapshotHolds
            <4> QED BY <1>12, <3>1, <4>1 DEF BackupPublishes, BackupTyped, PlacesTyped, Bundles
        <3>2. CASE UNCHANGED bundle /\ Says("failed")
            BY <1>12, <3>2 DEF BackupPublishes, Says, PlacesTyped, Said
        <3> QED BY <1>12, <3>1, <3>2 DEF BackupPublishes
    <2>6. Held'
        <3>1. CASE backup' = IdleBackup /\ UNCHANGED bundle /\ gate' = FALSE
            BY <1>12, <3>1, Idling DEF BackupPublishes, Held, Is, Restoring
        <3>2. CASE /\ bundle' = [rows |-> backup.rows, trees |-> backup.trees]
                   /\ backup' = [backup EXCEPT !.pc = "published"] /\ UNCHANGED <<told, gate>>
            <4>1. backup.rows \in AllRows
                BY <1>12 DEF BackupPublishes, At, SnapshotHolds
            <4>2. bundle' \in Bundles
                BY <3>2, <4>1 DEF BackupTyped, Bundles
            <4>3. Is(bundle)'
                BY <4>2, BackupAssumption DEF Is
            <4> QED BY <1>12, <3>2, <4>3 DEF BackupPublishes, BackupTyped, Held, At, Restoring
        <3> QED BY <1>12, <3>1, <3>2 DEF BackupPublishes, Says
    <2>7. HeldQuiet' BY <1>12 DEF HeldQuiet, Quiet, BackupPublishes, At, activity
    <2>8. SnapshotHolds' BY <1>12 DEF SnapshotHolds, BackupPublishes, Says, IdleBackup, BackupTyped
    <2>9. TreesAreWhole'
        BY <1>12 DEF TreesAreWhole, At, BackupPublishes, Says, IdleBackup, BackupTyped
    <2>10. BackupPlace'
        <3>1. CASE backup' = IdleBackup /\ UNCHANGED bundle /\ gate' = FALSE
            BY <1>12, <3>1, Idling DEF BackupPublishes, BackupPlace, Is, Restoring
        <3>2. CASE /\ bundle' = [rows |-> backup.rows, trees |-> backup.trees]
                   /\ backup' = [backup EXCEPT !.pc = "published"] /\ UNCHANGED <<told, gate>>
            <4>1. backup.rows \in AllRows
                BY <1>12 DEF BackupPublishes, At, SnapshotHolds
            <4>2. bundle' \in Bundles
                BY <3>2, <4>1 DEF BackupTyped, Bundles
            <4>3. Is(bundle)'
                BY <4>2, BackupAssumption DEF Is
            <4> QED BY <1>12, <3>2, <4>3 DEF BackupPublishes, BackupTyped, BackupPlace, At, Restoring
        <3> QED BY <1>12, <3>1, <3>2 DEF BackupPublishes, Says
    <2>11. RestorePlace'
        BY <1>12, BackupAssumption DEF RestorePlace, Restoring, Is, BackupPublishes, At, Held,
            BackupPlace
    <2> QED BY <2>1, <2>2, <2>3, <2>4, <2>5, <2>6, <2>7, <2>8, <2>9, <2>10, <2>11 DEF BackupInv
<1>13. ASSUME BackupEnds
      PROVE  BackupInv'
    <2>1. StateTyped' BY <1>13 DEF StateTyped, BackupEnds, activity, files
    <2>2. RunTyped' BY <1>13 DEF RunTyped, BackupEnds, activity
    <2>3. BackupTyped' BY <1>13, NoTrees DEF BackupTyped, BackupEnds, Says, IdleBackup
    <2>4. RestoreTyped' BY <1>13 DEF RestoreTyped, BackupEnds
    <2>5. PlacesTyped' BY <1>13 DEF PlacesTyped, Said, BackupEnds, Says
    <2>6. Held' BY <1>13 DEF Held, At, Restoring, Is, BackupEnds, Says, activity, IdleBackup
    <2>7. HeldQuiet' BY <1>13 DEF HeldQuiet, Quiet, BackupEnds, At, activity
    <2>8. SnapshotHolds' BY <1>13 DEF SnapshotHolds, BackupEnds, Says, IdleBackup
    <2>9. TreesAreWhole' BY <1>13 DEF TreesAreWhole, At, BackupEnds, Says, IdleBackup
    <2>10. BackupPlace' BY <1>13 DEF BackupPlace, At, BackupEnds, Says, IdleBackup
    <2>11. RestorePlace' BY <1>13 DEF RestorePlace, Restoring, BackupEnds, Says
    <2> QED BY <2>1, <2>2, <2>3, <2>4, <2>5, <2>6, <2>7, <2>8, <2>9, <2>10, <2>11 DEF BackupInv
<1>14. ASSUME BackupFault
      PROVE  BackupInv'
    <2>1. StateTyped' BY <1>14 DEF StateTyped, BackupFault, activity, files
    <2>2. RunTyped' BY <1>14 DEF RunTyped, BackupFault, activity
    <2>3. BackupTyped' BY <1>14, NoTrees DEF BackupTyped, BackupFault, Says, IdleBackup
    <2>4. RestoreTyped' BY <1>14 DEF RestoreTyped, BackupFault
    <2>5. PlacesTyped' BY <1>14 DEF PlacesTyped, Said, BackupFault, Says
    <2>6. Held' BY <1>14 DEF Held, At, Restoring, Is, BackupFault, Fails, Says, IdleBackup
    <2>7. HeldQuiet' BY <1>14 DEF HeldQuiet, Quiet, BackupFault, activity
    <2>8. SnapshotHolds' BY <1>14 DEF SnapshotHolds, BackupFault, Says, IdleBackup
    <2>9. TreesAreWhole' BY <1>14 DEF TreesAreWhole, At, BackupFault, Says, IdleBackup
    <2>10. BackupPlace' BY <1>14 DEF BackupPlace, At, BackupFault, Says, IdleBackup
    <2>11. RestorePlace' BY <1>14 DEF RestorePlace, Restoring, BackupFault, Says
    <2> QED BY <2>1, <2>2, <2>3, <2>4, <2>5, <2>6, <2>7, <2>8, <2>9, <2>10, <2>11 DEF BackupInv
<1>15. ASSUME RestoreStarts
      PROVE  BackupInv'
    BY <1>15 DEF StateTyped, RestoreStarts, activity, files, RunTyped, BackupTyped, RestoreTyped,
        Answers, IdleRestore, PlacesTyped, Said, Held, At, HeldQuiet, Quiet, SnapshotHolds,
        TreesAreWhole, BackupPlace, RestorePlace, Restoring, BackupInv
<1>16. ASSUME NEW p \in Imports \cup {"database"}, RestoreCopies(p)
      PROVE  BackupInv'
    BY <1>16 DEF StateTyped, RestoreCopies, activity, files, RunTyped, BackupTyped, RestoreTyped,
        Answers, IdleRestore, PlacesTyped, Said, Held, At, Restoring, HeldQuiet, Quiet,
        SnapshotHolds, TreesAreWhole, BackupPlace, RestorePlace, BackupInv
<1>17. ASSUME RestoreBinds
      PROVE  BackupInv'
    <2>1. (StateTyped /\ RunTyped /\ BackupTyped /\ PlacesTyped /\ Held /\ HeldQuiet
           /\ SnapshotHolds /\ TreesAreWhole /\ BackupPlace)'
        BY <1>17 DEF StateTyped, RestoreBinds, activity, files, RunTyped, BackupTyped, PlacesTyped,
            Said, Answers, Held, At, Restoring, HeldQuiet, Quiet, SnapshotHolds, TreesAreWhole,
            BackupPlace
    <2>2. RestoreTyped'
        <3>1. bundle \in Bundles
            BY <1>17 DEF RestoreBinds, Held, Is, Restoring, PlacesTyped
        <3>2. DOMAIN bundle.trees \in SUBSET Imports
            BY <3>1, TreesOfImports DEF Bundles
        <3>3. CASE restore' = [restore EXCEPT !.pc = "verify", !.bound = DOMAIN bundle.trees] /\ UNCHANGED told
            BY <1>17, <3>2, <3>3 DEF RestoreBinds, RestoreTyped
        <3>4. CASE restore' = IdleRestore
            BY <1>17, <3>4 DEF RestoreBinds, IdleRestore, RestoreTyped
        <3> QED BY <1>17, <3>3, <3>4 DEF RestoreBinds, Answers
    <2>3. RestorePlace'
        <3>1. bundle \in Bundles
            BY <1>17 DEF RestoreBinds, Held, Is, Restoring, PlacesTyped
        <3>2. DOMAIN bundle.trees \in SUBSET Imports
            BY <3>1, TreesOfImports DEF Bundles
        <3>3. CASE restore' = [restore EXCEPT !.pc = "verify", !.bound = DOMAIN bundle.trees] /\ UNCHANGED told
            BY <1>17, <3>2, <3>3 DEF RestoreBinds, RestoreTyped, Restoring, Is, RestorePlace
        <3>4. CASE restore' = IdleRestore
            BY <1>17, <3>4 DEF RestoreBinds, IdleRestore, RestoreTyped, Restoring, RestorePlace
        <3> QED BY <1>17, <3>3, <3>4 DEF RestoreBinds, Answers
    <2> QED BY <2>1, <2>2, <2>3 DEF BackupInv
<1>18. ASSUME RestoreVerifies
      PROVE  BackupInv'
    BY <1>18 DEF StateTyped, RestoreVerifies, activity, files, RunTyped, BackupTyped, RestoreTyped,
        Answers, IdleRestore, PlacesTyped, Said, Held, At, Restoring, HeldQuiet, Quiet,
        SnapshotHolds, TreesAreWhole, BackupPlace, RestorePlace, BackupInv
<1>19. ASSUME RestorePublishes
      PROVE  BackupInv'
    <2>1. (StateTyped /\ RunTyped /\ BackupTyped /\ RestoreTyped /\ Held /\ HeldQuiet
           /\ SnapshotHolds /\ TreesAreWhole /\ BackupPlace)'
        BY <1>19 DEF StateTyped, RestorePublishes, activity, files, RunTyped, BackupTyped,
            RestoreTyped, Answers, IdleRestore, Held, At, Restoring, HeldQuiet, Quiet,
            SnapshotHolds, TreesAreWhole, BackupPlace, PlacesTyped
    <2>2. PlacesTyped'
        BY <1>19 DEF PlacesTyped, Bundles, Targets, Said, RestorePublishes, Restoring, Answers,
            RestoreTyped, Held, Is
    <2>3. RestorePlace'
        BY <1>19, BackupAssumption DEF RestorePlace, Restoring, Is, RestorePublishes, Answers,
            IdleRestore, RestoreTyped, PlacesTyped, Held, Bundles, Targets
    <2> QED BY <2>1, <2>2, <2>3 DEF BackupInv
<1>20. ASSUME RestoreEnds
      PROVE  BackupInv'
    BY <1>20 DEF StateTyped, RestoreEnds, activity, files, RunTyped, BackupTyped, RestoreTyped,
        Answers, IdleRestore, PlacesTyped, Said, Held, At, Restoring, HeldQuiet, Quiet,
        SnapshotHolds, TreesAreWhole, BackupPlace, RestorePlace, BackupInv
<1>21. ASSUME RestoreFault
      PROVE  BackupInv'
    BY <1>21 DEF StateTyped, RestoreFault, activity, files, RunTyped, BackupTyped, RestoreTyped,
        Answers, IdleRestore, PlacesTyped, Said, Held, At, HeldQuiet, Quiet, SnapshotHolds,
        TreesAreWhole, BackupPlace, RestorePlace, Restoring, BackupInv
<1>22. ASSUME Occupy
      PROVE  BackupInv'
    BY <1>22 DEF StateTyped, Occupy, activity, files, RunTyped, BackupTyped, RestoreTyped,
        PlacesTyped, Held, At, Restoring, Is, HeldQuiet, Quiet, bounds, SnapshotHolds,
        TreesAreWhole, BackupPlace, RestorePlace, BackupInv
<1>23. ASSUME Tamper
      PROVE  BackupInv'
    BY <1>23 DEF StateTyped, Tamper, activity, files, RunTyped, BackupTyped, RestoreTyped,
        PlacesTyped, Held, At, HeldQuiet, Quiet, SnapshotHolds, TreesAreWhole, BackupPlace,
        RestorePlace, Restoring, BackupInv
<1>24. ASSUME Crash
      PROVE  BackupInv'
    <2>1. StateTyped' BY <1>24 DEF StateTyped, Statuses, Outputs, Files, Crash, Wrote
    <2>2. RunTyped' BY <1>24 DEF RunTyped, Crash
    <2>3. BackupTyped' BY <1>24, NoTrees DEF BackupTyped, Crash, IdleBackup
    <2>4. RestoreTyped' BY <1>24 DEF RestoreTyped, Crash
    <2>5. PlacesTyped' BY <1>24 DEF PlacesTyped, Crash
    <2>6. Held' BY <1>24 DEF Held, At, Restoring, Is, Crash, IdleBackup
    <2>7. HeldQuiet' BY <1>24 DEF HeldQuiet, Crash, IdleBackup
    <2>8. SnapshotHolds' BY <1>24 DEF SnapshotHolds, Crash, IdleBackup
    <2>9. TreesAreWhole' BY <1>24 DEF TreesAreWhole, At, Crash, IdleBackup
    <2>10. BackupPlace' BY <1>24 DEF BackupPlace, At, Crash, IdleBackup
    <2>11. RestorePlace' BY <1>24 DEF RestorePlace, Restoring, Crash
    <2> QED BY <2>1, <2>2, <2>3, <2>4, <2>5, <2>6, <2>7, <2>8, <2>9, <2>10, <2>11 DEF BackupInv
<1>25. ASSUME RestoreDies
      PROVE  BackupInv'
    BY <1>25 DEF StateTyped, RestoreDies, activity, files, RunTyped, BackupTyped, RestoreTyped,
        IdleRestore, PlacesTyped, Held, At, Restoring, HeldQuiet, Quiet, SnapshotHolds,
        TreesAreWhole, BackupPlace, RestorePlace, BackupInv
<1>26. CASE UNCHANGED vars
    BY <1>26 DEF StateTyped, vars, RunTyped, BackupTyped, RestoreTyped, PlacesTyped, Held,
        HeldQuiet, Quiet, SnapshotHolds, TreesAreWhole, BackupPlace, At, RestorePlace, Restoring,
        BackupInv
<1> QED BY <1>1, <1>2, <1>3, <1>4, <1>5, <1>6, <1>7, <1>8, <1>9, <1>10, <1>11, <1>12, <1>13, <1>14,
        <1>15, <1>16, <1>17, <1>18, <1>19, <1>20, <1>21, <1>22, <1>23, <1>24, <1>25, <1>26 DEF
        BackupNext, Active, Backups, Restores

-----------------------------------------------------------------------------
LEMMA BackupInitInv == BackupInit => BackupInv
<1> SUFFICES ASSUME BackupInit
             PROVE  BackupInv
    OBVIOUS
<1>1. StateTyped
    BY DEF BackupInit, StateTyped, Statuses, Outputs, Files
<1>2. RunTyped /\ Held
    BY DEF BackupInit, RunTyped, Held, At, Restoring, IdleBackup, IdleRestore
<1>3. BackupTyped
    BY NoTrees DEF BackupInit, BackupTyped, IdleBackup
<1>4. RestoreTyped
    BY DEF BackupInit, RestoreTyped, IdleRestore
<1>5. PlacesTyped
    BY DEF BackupInit, PlacesTyped, Said
<1>6. backup.pc = "idle" /\ restore.pc = "idle"
    BY DEF BackupInit, IdleBackup, IdleRestore
<1>7. HeldQuiet /\ SnapshotHolds /\ TreesAreWhole /\ BackupPlace /\ RestorePlace
    BY <1>6 DEF HeldQuiet, SnapshotHolds, TreesAreWhole, BackupPlace, RestorePlace, At, Restoring
<1> QED BY <1>1, <1>2, <1>3, <1>4, <1>5, <1>7 DEF BackupInv

LEMMA BackupInvariant == BackupSpec => []BackupInv
<1> QED BY BackupInitInv, BackupStep, PTL DEF BackupSpec

\* Type correctness of the state, the commands and what they leave behind, whatever
\* fails or is changed meanwhile.
THEOREM BackupTyping == BackupSpec => []BackupTypeOK
<1>1. BackupInv => BackupTypeOK
    BY DEF BackupInv, BackupTypeOK, Held
<1> QED BY <1>1, BackupInvariant, PTL

-----------------------------------------------------------------------------
(* StateBackup implements BackupContract.                                  *)

\* What the contract sees.
Live == Shown(Rows)
Bundle == Visible(bundle, Is(bundle) /\ Whole(bundle))
Target == Visible(target, Is(target) /\ Whole(target) /\ target.bound = DOMAIN target.trees)

\* Rows show a view, and so does what is visible; it is not taken for nothing.
LEMMA ShowsView ==
    ASSUME NEW rows \in AllRows
    PROVE  Shown(rows) \in Views
<1> QED BY DEF Shown, AllRows, Views

LEMMA VisibleIsThere ==
    ASSUME PlacesTyped
    PROVE  /\ Is(bundle) <=> Contract!There(Bundle)
           /\ Is(target) <=> Contract!There(Target)
           /\ ~Is(bundle) => Bundle = bundle
           /\ ~Is(target) => Target = target
<1>1. Free \notin Views /\ Foreign \notin Views
    BY BackupAssumption
<1>2. [i \in Imports |-> "broken"] \in Views
    BY DEF Views
<1>3. ASSUME Is(bundle)
      PROVE  Bundle \in Views
    <2>1. bundle.rows \in AllRows
        BY <1>3 DEF PlacesTyped, Is, Bundles
    <2> QED BY <1>2, <1>3, <2>1, ShowsView DEF Bundle, Visible
<1>4. ASSUME Is(target)
      PROVE  Target \in Views
    <2>1. target.rows \in AllRows
        BY <1>4 DEF PlacesTyped, Is, Targets
    <2> QED BY <1>2, <1>4, <2>1, ShowsView DEF Target, Visible
<1>5. /\ ~Is(bundle) => Bundle = bundle
      /\ ~Is(target) => Target = target
    BY DEF Bundle, Target, Visible
<1> QED BY <1>1, <1>3, <1>4, <1>5 DEF Contract!There, Is

\* A step that changes neither place nor answer changes the state at most.
LEMMA ChangesOrStutters ==
    ASSUME UNCHANGED <<bundle, target, told>>
    PROVE  [Contract!BackupContractNext]_(Contract!backups)
<1>1. UNCHANGED <<Bundle, Target>>
    BY DEF Bundle, Target, Visible, Is, Whole, ReadyIn, Shown
<1>2. CASE UNCHANGED Live
    BY <1>1, <1>2 DEF Live, Bundle, Target, Contract!backups, Contract!visible
<1>3. CASE Live' # Live
    <2>1. Contract!Change
        BY <1>1, <1>3 DEF Live, Bundle, Target, Contract!Change, Contract!visible
    <2> QED BY <2>1 DEF Contract!BackupContractNext
<1> QED BY <1>2, <1>3

\* A backup command answers truly.
LEMMA BackupAnswers ==
    ASSUME PlacesTyped, UNCHANGED <<Live, bundle, target>>,
           NEW answer \in Said, told' = [told EXCEPT !.backup = answer],
           answer = "ok" => Is(bundle),
           answer \in {"failed", "busy", "exists"} => ~Is(bundle)
    PROVE  [Contract!BackupContractNext]_(Contract!backups)
<1>1. UNCHANGED <<Bundle, Target>>
    BY DEF Bundle, Target, Visible, Is, Whole, ReadyIn, Shown
<1>2. Contract!Says("backup", Bundle)
    BY <1>1, VisibleIsThere DEF Contract!Says, Contract!visible, Said, Live, Bundle, Target
<1> QED BY <1>2 DEF Contract!BackupContractNext, Bundle

\* So does a restore.
LEMMA RestoreAnswers ==
    ASSUME PlacesTyped, UNCHANGED <<Live, bundle, target>>,
           NEW answer \in Said, told' = [told EXCEPT !.restore = answer],
           answer = "ok" => Is(target),
           answer \in {"failed", "busy", "exists"} => ~Is(target)
    PROVE  [Contract!BackupContractNext]_(Contract!backups)
<1>1. UNCHANGED <<Bundle, Target>>
    BY DEF Bundle, Target, Visible, Is, Whole, ReadyIn, Shown
<1>2. Contract!Says("restore", Target)
    BY <1>1, VisibleIsThere DEF Contract!Says, Contract!visible, Said, Live, Bundle, Target
<1> QED BY <1>2 DEF Contract!BackupContractNext, Target

\* The copied rows show what the state shows when the bundle is published.
LEMMA PublishesThisMoment ==
    ASSUME BackupInv, At("inspect")
    PROVE  Shown(backup.rows) = Live
<1>1. /\ backup.rows \in AllRows /\ backup.rows.output = output
      /\ \A i \in Imports : backup.rows.status[i] # status[i] =>
           backup.rows.status[i] = "ready" /\ status[i] = "unavailable"
    BY DEF BackupInv, SnapshotHolds, At
<1>2. Rows.status = status /\ Rows.output = output
    BY DEF Rows
<1> QED BY <1>1, <1>2 DEF Shown, Live

LEMMA PublishSaves ==
    ASSUME BackupInv, BackupPublishes, bundle = Free
    PROVE  Contract!Save
<1>1. /\ At("inspect") /\ DOMAIN backup.trees = ReadyIn(backup.rows)
      /\ bundle' = [rows |-> backup.rows, trees |-> backup.trees]
      /\ UNCHANGED <<status, output, target, told>>
    BY DEF BackupPublishes, activity
<1>2. bundle'.rows = backup.rows /\ bundle'.trees = backup.trees
    BY <1>1
<1>3. bundle' \in Bundles
    BY <1>1 DEF BackupInv, SnapshotHolds, At, BackupTyped, Bundles
<1>4. Is(bundle)'
    BY <1>3, BackupAssumption DEF Is
<1>5. \A i \in Imports : backup.rows.status[i] # "open" /\ backup.rows.output[i] # "allowed"
    BY <1>1 DEF BackupInv, SnapshotHolds, HeldQuiet, Quiet, At
<1>6. Whole(bundle)'
    BY <1>1, <1>2, <1>5 DEF BackupInv, TreesAreWhole, Whole, ReadyIn, At
<1>7. Bundle' = Live
    BY <1>1, <1>2, <1>4, <1>6, PublishesThisMoment DEF Bundle, Visible, Shown
<1>8. UNCHANGED <<Live, Target>>
    BY <1>1 DEF Live, Rows, Target, Visible, Is, Whole, ReadyIn, Shown
<1>9. told.backup = "nothing" /\ Bundle = Free
    BY <1>1, VisibleIsThere DEF BackupInv, BackupPlace, At, Is
<1> QED BY <1>1, <1>7, <1>8, <1>9 DEF Contract!Save, Bundle, Live, Target

\* A restore publishes what the bundle shows.
LEMMA PublishRestores ==
    ASSUME BackupInv, RestorePublishes, target = Free
    PROVE  Contract!Restore
<1>1. /\ restore.pc = "publish"
      /\ target' = [rows |-> bundle.rows, trees |-> bundle.trees, bound |-> restore.bound]
      /\ UNCHANGED <<status, output, bundle, told>>
    BY DEF RestorePublishes, activity, Restoring
<1>2. /\ target'.rows = bundle.rows /\ target'.trees = bundle.trees
      /\ target'.bound = DOMAIN bundle.trees
    BY <1>1 DEF BackupInv, RestorePlace, Restoring
<1>3. Is(bundle) /\ bundle \in Bundles
    BY <1>1 DEF BackupInv, Held, Restoring, PlacesTyped, Is
<1>4. target' \in Targets
    BY <1>1, <1>3 DEF BackupInv, RestoreTyped, Bundles, Targets
<1>5. Is(target)'
    BY <1>4, BackupAssumption DEF Is
<1>6. Whole(target)' <=> Whole(bundle)
    BY <1>2 DEF Whole, ReadyIn
<1>7. Target' = Bundle
    BY <1>2, <1>3, <1>5, <1>6 DEF Target, Bundle, Visible, Shown
<1>8. UNCHANGED <<Live, Bundle>>
    BY <1>1 DEF Live, Rows, Bundle, Visible, Is, Whole, ReadyIn, Shown
<1>9. told.restore = "nothing" /\ Target = Free /\ Contract!There(Bundle)
    BY <1>1, <1>3, VisibleIsThere DEF BackupInv, RestorePlace, Restoring, Is
<1> QED BY <1>1, <1>7, <1>8, <1>9 DEF Contract!Restore, Bundle, Live, Target

\* Somebody takes a free name.
LEMMA OccupyOccupies ==
    ASSUME PlacesTyped, Occupy
    PROVE  Contract!Occupy
<1>1. UNCHANGED Live
    BY DEF Occupy, Live, Rows, activity
<1>2. CASE bundle = Free /\ bundle' = Foreign /\ UNCHANGED target
    <2>1. Bundle = Free /\ Bundle' = Foreign /\ UNCHANGED Target
        BY <1>2 DEF Bundle, Target, Visible, Is, Whole, ReadyIn, Shown
    <2> QED BY <1>1, <2>1 DEF Occupy, Contract!Occupy, Bundle, Target, Live
<1>3. CASE target = Free /\ target' = Foreign /\ UNCHANGED bundle
    <2>1. Target = Free /\ Target' = Foreign /\ UNCHANGED Bundle
        BY <1>3 DEF Bundle, Target, Visible, Is, Whole, ReadyIn, Shown
    <2> QED BY <1>1, <2>1 DEF Occupy, Contract!Occupy, Bundle, Target, Live
<1> QED BY <1>2, <1>3 DEF Occupy

\* Recording that documents are unavailable shows nothing new.
LEMMA LooksShowNothing ==
    ASSUME StateTyped, NEW i \in Imports, status[i] = "ready",
           status' = Unavailable(i), UNCHANGED output
    PROVE  UNCHANGED Live
<1>1. /\ Rows.status = status /\ Rows.output = output
      /\ Rows'.status = status' /\ Rows'.output = output'
    BY DEF Rows
<1>2. \A j \in Imports : status'[j] \in {"ready", "unavailable"} <=> status[j] \in {"ready", "unavailable"}
    BY DEF Unavailable, StateTyped
<1>3. \A j \in Imports : status'[j] \notin {"ready", "unavailable"} => status'[j] = status[j]
    BY DEF Unavailable, StateTyped
<1> QED BY <1>1, <1>2, <1>3 DEF Live, Shown

LEMMA BackupContractStep ==
    BackupInv /\ [BackupNext]_vars => [Contract!BackupContractNext]_(Contract!backups)
<1> DEFINE Kept == [Contract!BackupContractNext]_(Contract!backups)
<1> SUFFICES ASSUME BackupInv, [BackupNext]_vars
             PROVE  Kept
    OBVIOUS
<1>1. PlacesTyped /\ StateTyped
    BY DEF BackupInv
<1>2. ASSUME UNCHANGED <<bundle, target, told>>
      PROVE  Kept
    BY <1>2, ChangesOrStutters
<1> HIDE DEF Kept
<1>3. ASSUME NEW i \in Imports, Active(i)
      PROVE  Kept
    BY <1>2, <1>3 DEF Active, Import, SubmitRun, Damage, View
<1>4. CASE ExecuteRun \/ EndRun \/ Tamper \/ Crash \/ RestoreDies
    BY <1>2, <1>4 DEF ExecuteRun, EndRun, Tamper, Crash, RestoreDies
<1>5. CASE Occupy
    BY <1>1, <1>5, OccupyOccupies DEF Kept, Contract!BackupContractNext
<1>6. ASSUME UNCHANGED <<status, output>>
      PROVE  UNCHANGED Live
    BY <1>6 DEF Live, Rows
<1>7. CASE Backups
    <2>1. CASE BackupStarts
        <3>1. told' = [told EXCEPT !.backup = "nothing"] /\ UNCHANGED <<status, output, bundle, target>>
            BY <2>1 DEF BackupStarts, activity
        <3> QED BY <1>1, <1>6, <3>1, BackupAnswers DEF Kept, Said
    <2>2. CASE BackupChecks
        <3>1. CASE UNCHANGED told
            BY <1>2, <2>2, <3>1 DEF BackupChecks
        <3>2. CASE Says("busy")
            <4>1. ~Is(bundle)
                BY <2>2 DEF BackupChecks, BackupInv, BackupPlace, At, Is
            <4>2. UNCHANGED <<status, output, bundle, target>>
                BY <2>2 DEF BackupChecks, activity
            <4> QED BY <1>1, <1>6, <3>2, <4>1, <4>2, BackupAnswers DEF Kept, Said, Says
        <3> QED BY <2>2, <3>1, <3>2 DEF BackupChecks
    <2>3. CASE BackupSnapshots
        BY <1>2, <2>3 DEF BackupSnapshots
    <2>4. CASE BackupCopies
        <3>1. CASE UNCHANGED told
            BY <1>2, <2>4, <3>1 DEF BackupCopies
        <3>2. CASE Says("failed")
            <4>1. ~Is(bundle)
                BY <2>4 DEF BackupCopies, BackupInv, BackupPlace, At, Is
            <4>2. UNCHANGED <<status, output, bundle, target>>
                BY <2>4 DEF BackupCopies, activity
            <4> QED BY <1>1, <1>6, <3>2, <4>1, <4>2, BackupAnswers DEF Kept, Said, Says
        <3> QED BY <2>4, <3>1, <3>2 DEF BackupCopies
    <2>5. CASE BackupPublishes
        <3>1. CASE bundle = Free
            BY <2>5, <3>1, PublishSaves DEF Kept, Contract!BackupContractNext
        <3>2. CASE bundle # Free
            <4>1. ~Is(bundle)
                BY <2>5 DEF BackupPublishes, BackupInv, BackupPlace, At, Is
            <4>2. Says("failed") /\ UNCHANGED <<status, output, bundle, target>>
                BY <2>5, <3>2 DEF BackupPublishes, activity
            <4> QED BY <1>1, <1>6, <4>1, <4>2, BackupAnswers DEF Kept, Said, Says
        <3> QED BY <3>1, <3>2
    <2>6. CASE BackupEnds
        <3>1. Is(bundle) /\ Says("ok") /\ UNCHANGED <<status, output, bundle, target>>
            BY <2>6 DEF BackupEnds, BackupInv, BackupPlace, At, activity
        <3> QED BY <1>1, <1>6, <3>1, BackupAnswers DEF Kept, Said, Says
    <2>7. CASE BackupFault
        <3>1. ~At("published") => ~Is(bundle)
            BY <2>7 DEF BackupFault, BackupInv, BackupPlace, At, Is
        <3>2. /\ told' = [told EXCEPT !.backup = IF At("published") THEN "unknown" ELSE "failed"]
              /\ UNCHANGED <<status, output, bundle, target>>
            BY <2>7 DEF BackupFault, Says, activity
        <3> QED BY <1>1, <1>6, <3>1, <3>2, BackupAnswers DEF Kept, Said
    <2>8. ASSUME NEW i \in Imports, BackupInspects(i)
          PROVE  Kept
        <3>1. CASE UNCHANGED told
            BY <1>2, <2>8, <3>1 DEF BackupInspects
        <3>2. CASE Says("failed")
            <4>1. ~Is(bundle)
                BY <2>8 DEF BackupInspects, BackupInv, BackupPlace, At, Is
            <4>2. UNCHANGED <<output, bundle, target>>
                BY <2>8 DEF BackupInspects, activity
            <4>3. UNCHANGED Live
                <5>1. CASE status[i] = "ready"
                    BY <1>1, <2>8, <4>2, <5>1, LooksShowNothing DEF BackupInspects
                <5>2. CASE status[i] # "ready"
                    BY <1>6, <2>8, <4>2, <5>2 DEF BackupInspects
                <5> QED BY <5>1, <5>2
            <4> QED BY <1>1, <3>2, <4>1, <4>2, <4>3, BackupAnswers DEF Kept, Said, Says
        <3> QED BY <2>8, <3>1, <3>2 DEF BackupInspects
    <2> QED BY <1>7, <2>1, <2>2, <2>3, <2>4, <2>5, <2>6, <2>7, <2>8 DEF Backups
<1>8. CASE Restores
    <2>1. ASSUME NEW answer \in {"failed", "exists"}, Answers(answer), ~Is(target),
                 UNCHANGED <<status, output, bundle, target>>
          PROVE  Kept
        BY <1>1, <1>6, <2>1, RestoreAnswers DEF Kept, Said, Answers
    <2>2. CASE RestoreStarts
        <3>1. ~Is(target) /\ UNCHANGED <<status, output, bundle, target>>
            BY <2>2 DEF RestoreStarts, Is, activity
        <3>2. CASE told' = [told EXCEPT !.restore = "nothing"]
            BY <1>1, <1>6, <3>1, <3>2, RestoreAnswers DEF Kept, Said
        <3> QED BY <2>1, <2>2, <3>1, <3>2 DEF RestoreStarts
    <2>3. ASSUME NEW p \in Imports \cup {"database"}, RestoreCopies(p)
          PROVE  Kept
        <3>1. ~Is(target) /\ UNCHANGED <<status, output, bundle, target>>
            BY <2>3 DEF RestoreCopies, BackupInv, RestorePlace, Restoring, Is, activity
        <3> QED BY <1>2, <2>1, <2>3, <3>1 DEF RestoreCopies
    <2>4. CASE RestoreBinds
        <3>1. ~Is(target) /\ UNCHANGED <<status, output, bundle, target>>
            BY <2>4 DEF RestoreBinds, BackupInv, RestorePlace, Restoring, Is, activity
        <3> QED BY <1>2, <2>1, <2>4, <3>1 DEF RestoreBinds
    <2>5. CASE RestoreVerifies
        <3>1. ~Is(target) /\ UNCHANGED <<status, output, bundle, target>>
            BY <2>5 DEF RestoreVerifies, BackupInv, RestorePlace, Restoring, Is, activity
        <3> QED BY <1>2, <2>1, <2>5, <3>1 DEF RestoreVerifies
    <2>6. CASE RestorePublishes
        <3>1. CASE target = Free
            BY <2>6, <3>1, PublishRestores DEF Kept, Contract!BackupContractNext
        <3>2. CASE target # Free
            <4>1. ~Is(target)
                BY <2>6 DEF RestorePublishes, BackupInv, RestorePlace, Restoring, Is
            <4>2. Answers("failed") /\ UNCHANGED <<status, output, bundle, target>>
                BY <2>6, <3>2 DEF RestorePublishes, activity
            <4> QED BY <2>1, <4>1, <4>2
        <3> QED BY <3>1, <3>2
    <2>7. CASE RestoreEnds
        <3>1. Is(target) /\ Answers("ok") /\ UNCHANGED <<status, output, bundle, target>>
            BY <2>7 DEF RestoreEnds, BackupInv, RestorePlace, Restoring, activity
        <3> QED BY <1>1, <1>6, <3>1, RestoreAnswers DEF Kept, Said, Answers
    <2>8. CASE RestoreFault
        <3>1. ~Restoring("published") => ~Is(target)
            BY <2>8 DEF RestoreFault, BackupInv, RestorePlace, Restoring, Is
        <3>2. /\ told' = [told EXCEPT !.restore = IF Restoring("published") THEN "unknown" ELSE "failed"]
              /\ UNCHANGED <<status, output, bundle, target>>
            BY <2>8 DEF RestoreFault, Answers, activity
        <3> QED BY <1>1, <1>6, <3>1, <3>2, RestoreAnswers DEF Kept, Said
    <2> QED BY <1>8, <2>2, <2>3, <2>4, <2>5, <2>6, <2>7, <2>8 DEF Restores
<1>9. CASE UNCHANGED vars
    BY <1>2, <1>9 DEF vars
<1> QED BY <1>3, <1>4, <1>5, <1>7, <1>8, <1>9 DEF BackupNext, Kept

\* A bundle shows the state of one moment, a restored directory what the bundle showed;
\* no name is taken over and every answer is true, for any number of imports, faults,
\* crashes and changes by other programs.
THEOREM KeepsContract == BackupSpec => KeepsBackupContract
<1>1. BackupInit => Contract!BackupContractInit
    BY DEF BackupInit, Contract!BackupContractInit, Visible, Is
<1> QED BY <1>1, BackupInvariant, BackupContractStep, PTL
        DEF BackupSpec, KeepsBackupContract, Contract!BackupContractSpec
=============================================================================
