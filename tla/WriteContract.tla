---------------------------- MODULE WriteContract ----------------------------
(***************************************************************************)
(* What the runtime promises about one approved write, whatever threads,   *)
(* stores and restarts it takes to keep the promise.  A write is asked     *)
(* for, consented to, made at most once, and what is told about it is      *)
(* final: "ok" only for a write that was made, "fail" only for one that    *)
(* was not made -- unless the run was stopped meanwhile (halted) -- and    *)
(* "unknown" whenever nobody can tell.                                     *)
(***************************************************************************)
CONSTANT Writes

VARIABLES consent,   \* consent[w]
          made,      \* the writes whose file was created
          told,      \* told[w]: the recorded outcome of w
          halted     \* the writes whose run was cancelled or timed out

contract == <<consent, made, told, halted>>

Consents == {"none", "asked", "allowed", "denied", "lapsed"}
Outcomes == {"none", "ok", "fail", "unknown"}

ContractInit ==
    /\ consent = [w \in Writes |-> "none"]
    /\ made = {}
    /\ told = [w \in Writes |-> "none"]
    /\ halted = {}

\* What may be told about w in this state.
Tellable(w) ==
    {"unknown"} \cup (IF w \in made THEN {"ok"} ELSE {})
                \cup (IF w \notin made \/ w \in halted THEN {"fail"} ELSE {})

Ask(w) ==
    /\ consent[w] = "none" /\ told[w] = "none"
    /\ consent' = [consent EXCEPT ![w] = "asked"]
    /\ UNCHANGED <<made, told, halted>>

Answer(w, d) ==
    /\ consent[w] = "asked" /\ told[w] = "none"
    /\ consent' = [consent EXCEPT ![w] = d]
    /\ UNCHANGED <<made, told, halted>>

Make(w) ==
    /\ consent[w] = "allowed" /\ told[w] = "none" /\ w \notin made
    /\ made' = made \cup {w}
    /\ UNCHANGED <<consent, told, halted>>

Tell(w) ==
    /\ consent[w] # "none" /\ told[w] = "none"
    /\ \E o \in Tellable(w) : told' = [told EXCEPT ![w] = o]
    /\ UNCHANGED <<consent, made, halted>>

Halt(S) ==
    /\ halted' = halted \cup S
    /\ UNCHANGED <<consent, made, told>>

\* A restart: open consents lapse, and what was not told is told.
Settle(S) ==
    /\ \A w \in S : consent[w] # "none"
    /\ consent' = [w \in Writes |-> IF w \in S /\ consent[w] \in {"asked", "allowed"}
                                    THEN "lapsed" ELSE consent[w]]
    /\ told' \in [Writes -> Outcomes]
    /\ \A w \in Writes : IF w \in S /\ told[w] = "none"
                         THEN told'[w] \in Tellable(w) ELSE told'[w] = told[w]
    /\ UNCHANGED <<made, halted>>

ContractNext ==
    \/ \E w \in Writes : Ask(w) \/ Make(w) \/ Tell(w)
    \/ \E w \in Writes, d \in {"allowed", "denied"} : Answer(w, d)
    \/ \E S \in SUBSET Writes : Halt(S) \/ Settle(S)

ContractSpec == ContractInit /\ [][ContractNext]_contract
=============================================================================
