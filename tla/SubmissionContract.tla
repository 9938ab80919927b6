-------------------------- MODULE SubmissionContract --------------------------
(***************************************************************************)
(* What the workbench promises about submissions: a request id of a        *)
(* session stands for one run and one content for good, whoever repeats it *)
(* and however often the program restarts; what a client is told names     *)
(* that run; a run ends once; and only a run that a restart interrupted is *)
(* continued, in its own session.                                          *)
(***************************************************************************)
EXTENDS Naturals

VARIABLES accepted,  \* the submissions that became a run
          outcome,   \* outcome[r] of each run: "open", "ended", "interrupted"
          told       \* the answers clients got: which run their submission is

submissions == <<accepted, outcome, told>>

SubmissionContractInit == accepted = {} /\ DOMAIN outcome = {} /\ told = {}

Continues(parent, session) ==
    /\ outcome[parent] = "interrupted"
    /\ \E a \in accepted : a.run = parent /\ a.session = session

Accept ==
    \E a \in accepted' \ accepted :
        /\ accepted' = accepted \cup {a}
        /\ ~\E b \in accepted : b.session = a.session /\ b.request = a.request
        /\ a.parent # 0 => Continues(a.parent, a.session)
        /\ a.run \notin DOMAIN outcome
        /\ outcome' = [r \in DOMAIN outcome \cup {a.run} |-> IF r = a.run THEN "open" ELSE outcome[r]]
        /\ UNCHANGED told

Tell ==
    /\ told' # told
    /\ told' \subseteq accepted
    /\ told \subseteq told'
    /\ UNCHANGED <<accepted, outcome>>

\* One run ends, or a restart interrupts all that are open.
Settle ==
    /\ outcome' # outcome
    /\ DOMAIN outcome' = DOMAIN outcome
    /\ \A r \in DOMAIN outcome : outcome'[r] # outcome[r] => outcome[r] = "open"
    /\ UNCHANGED <<accepted, told>>

SubmissionContractNext == Accept \/ Tell \/ Settle

SubmissionContractSpec == SubmissionContractInit /\ [][SubmissionContractNext]_submissions
=============================================================================
