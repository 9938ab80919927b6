---------------------------- MODULE BackupContract ----------------------------
(***************************************************************************)
(* What backup and restore promise: a bundle shows what the state was at   *)
(* one moment, as a whole; a restored state directory shows what the       *)
(* bundle showed; a name that is taken is never taken over; and a caller   *)
(* may rely on an answer, except for one that says "unknown".              *)
(***************************************************************************)
CONSTANTS Free, Foreign   \* nothing, or something of somebody else, has the name

VARIABLES live,    \* what the state records
          bundle,  \* what is visible under the destination of the backup
          target,  \* what is visible under the destination of the restore
          told     \* what each command answered, "nothing" while it is not over

visible == <<bundle, target>>
backups == <<live, visible, told>>

BackupContractInit ==
    bundle = Free /\ target = Free /\ told = [c \in {"backup", "restore"} |-> "nothing"]

Change == live' # live /\ UNCHANGED <<visible, told>>

Occupy ==
    /\ \/ bundle = Free /\ bundle' = Foreign /\ UNCHANGED target
       \/ target = Free /\ target' = Foreign /\ UNCHANGED bundle
    /\ UNCHANGED <<live, told>>

Save ==
    /\ told.backup = "nothing" /\ bundle = Free
    /\ bundle' = live
    /\ UNCHANGED <<live, target, told>>

There(place) == place \notin {Free, Foreign}

Restore ==
    /\ told.restore = "nothing" /\ target = Free /\ There(bundle)
    /\ target' = bundle
    /\ UNCHANGED <<live, bundle, told>>

\* A command is given, or it is over and says whether its result is there.
Says(c, place) ==
    \E answer \in {"nothing", "ok", "failed", "busy", "exists", "unknown"} :
        /\ answer = "ok" => There(place)
        /\ answer \in {"failed", "busy", "exists"} => ~There(place)
        /\ told' = [told EXCEPT ![c] = answer]
        /\ UNCHANGED <<live, visible>>

BackupContractNext ==
    Change \/ Occupy \/ Save \/ Restore \/ Says("backup", bundle) \/ Says("restore", target)

BackupContractSpec == BackupContractInit /\ [][BackupContractNext]_backups
=============================================================================
