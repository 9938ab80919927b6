---------------------------- MODULE ImportContract ----------------------------
(***************************************************************************)
(* What the import service promises about a batch of documents: it is      *)
(* decided once.  It is published as a whole or dropped, a published batch *)
(* gets its session and keeps it, and only damage to its files can still   *)
(* drop a published batch that has none.  A user who is told that the      *)
(* batch was cancelled is told the truth for good.                         *)
(***************************************************************************)
CONSTANT Batches

VARIABLES phase,   \* phase[b]
          told,    \* the batches whose cancellation was confirmed to the user
          harmed   \* the batches whose published files were damaged from outside

contract == <<phase, told, harmed>>

Phases == {"new", "open", "published", "linked", "dropped"}

ImportContractInit ==
    /\ phase = [b \in Batches |-> "new"]
    /\ told = {}
    /\ harmed = {}

Move(b, from, to) ==
    /\ phase[b] = from
    /\ phase' = [phase EXCEPT ![b] = to]
    /\ UNCHANGED <<told, harmed>>

Open(b) == Move(b, "new", "open")
Publish(b) == Move(b, "open", "published")
Link(b) == Move(b, "published", "linked")
Drop(b) == Move(b, "open", "dropped") \/ (b \in harmed /\ Move(b, "published", "dropped"))

\* The last step of a cancellation may be the one that drops the batch.
Confirm(b) ==
    /\ phase[b] \in {"open", "dropped"}
    /\ phase' = [phase EXCEPT ![b] = "dropped"]
    /\ told' = told \cup {b}
    /\ UNCHANGED harmed

Harm(b) ==
    /\ phase[b] \in {"published", "linked"}
    /\ harmed' = harmed \cup {b}
    /\ UNCHANGED <<phase, told>>

ImportContractNext ==
    \E b \in Batches : Open(b) \/ Publish(b) \/ Link(b) \/ Drop(b) \/ Confirm(b) \/ Harm(b)

ImportContractSpec == ImportContractInit /\ [][ImportContractNext]_contract
=============================================================================
