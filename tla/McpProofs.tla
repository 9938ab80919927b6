------------------------------ MODULE McpProofs ------------------------------
(***************************************************************************)
(* Proofs about McpClient, for any number of requests, any limit and any   *)
(* length of the pipe: its type invariant, and that the connection keeps   *)
(* the safety part of McpContract.                                         *)
(***************************************************************************)
EXTENDS McpClient, TLAPS

-----------------------------------------------------------------------------
(* The inductive invariant.                                                *)

\* The exchange lock is held by a request, or it is free.
ExchangeOfRequest == exchange.of = 0 <=> exchange.at = "free"

\* Whatever passes for the answer to a request, on its way from the pipe to the thread that
\* waits for it, is an answer that the server gave to this request.
AnswersAreReal ==
    /\ lines \in Seq({0} \cup answered)
    /\ exchange.at = "answered" => exchange.of \in answered
    /\ \A k \in Calls : future[k] = "ok" => k \in answered
    /\ \A k \in Calls : caller[k] \in {"received", "stored", "succeeded"} => k \in answered

\* A run that asks has made a request; the requests to come are untouched.
RequestsInOrder ==
    /\ run.pc \in {"discovering", "calling"} => run.asked # 0
    /\ run.pc = "opening" => run.asked = 0
    /\ \A k \in Calls : k > run.asked => told[k] = "new" /\ caller[k] = "none"

\* A call that is asked and not told is the one that the run waits for.
OneCallAsked == \A k \in Calls : told[k] = "asked" <=> run.pc = "calling" /\ k = run.asked

\* Once a run asks there is a server; while the run goes on, a closed connection has lost it.
CloseKills ==
    /\ run.pc \in {"discovering", "idle", "calling"} => process # "none"
    /\ closed => process = "gone" \/ run.pc = "over"

McpInv ==
    /\ McpTypeOK /\ ExchangeOfRequest /\ AnswersAreReal /\ RequestsInOrder
    /\ OneCallAsked /\ CloseKills

-----------------------------------------------------------------------------
\* What is read of the pipe was in it, and so is what is left.
LEMMA SequenceOfOthers ==
    ASSUME NEW S, NEW s \in Seq(S), s # <<>>
    PROVE  Head(s) \in S /\ Tail(s) \in Seq(S)
OBVIOUS

\* Every step keeps the inductive invariant.
LEMMA McpStep == McpInv /\ [McpNext]_vars => McpInv'
<1> SUFFICES ASSUME McpTypeOK, ExchangeOfRequest, AnswersAreReal, RequestsInOrder, OneCallAsked,
                    CloseKills, [McpNext]_vars
             PROVE  McpInv'
    BY DEF McpInv
<1>1. ASSUME LoopStarts
      PROVE  McpInv'
    BY <1>1 DEF McpTypeOK, LoopStarts, connection, server, ExchangeOfRequest,
        AnswersAreReal, RequestsInOrder, OneCallAsked, CloseKills, McpInv
<1>2. ASSUME LoopFails
      PROVE  McpInv'
    BY <1>2 DEF McpTypeOK, LoopFails, connection, server, ExchangeOfRequest,
        AnswersAreReal, RequestsInOrder, OneCallAsked, CloseKills, McpInv
<1>3. ASSUME Spawns
      PROVE  McpInv'
    BY <1>3 DEF McpTypeOK, Spawns, server, ExchangeOfRequest, AnswersAreReal,
        RequestsInOrder, OneCallAsked, CloseKills, McpInv
<1>4. ASSUME LoopEnds
      PROVE  McpInv'
    BY <1>4 DEF McpTypeOK, Calls, LoopEnds, NoExchange, server, ExchangeOfRequest,
        AnswersAreReal, RequestsInOrder, OneCallAsked, CloseKills, McpInv
<1>5. ASSUME Reads
      PROVE  McpInv'
    <2>1. (RequestsInOrder /\ OneCallAsked /\ CloseKills)'
        BY <1>5 DEF RequestsInOrder, Reads, OneCallAsked, CloseKills, connection
    <2>2. McpTypeOK'
        <3>1. Tail(lines) \in Seq({0} \cup Calls)
            BY <1>5, SequenceOfOthers DEF Reads, McpTypeOK
        <3>2. exchange' \in [of : {0} \cup Calls, at : {"free", "begun", "sent", "answered"}]
            BY <1>5 DEF Reads, McpTypeOK
        <3>3. reading' \in BOOLEAN /\ failed' \in BOOLEAN /\ lines' \in Seq({0} \cup Calls)
            BY <1>5, <3>1 DEF Reads, McpTypeOK
        <3> QED BY <1>5, <3>2, <3>3 DEF Reads, McpTypeOK, connection
    <2>3. ExchangeOfRequest'
        <3>1. CASE Answers(Head(lines))
            <4>1. exchange.of = Head(lines) /\ exchange.at = "sent"
                BY <3>1 DEF Answers
            <4>2. exchange'.of = exchange.of /\ exchange'.at = "answered"
                BY <1>5, <3>1 DEF Reads, McpTypeOK
            <4> QED BY <4>1, <4>2 DEF ExchangeOfRequest
        <3>2. CASE ~Answers(Head(lines))
            BY <1>5, <3>2 DEF Reads, ExchangeOfRequest
        <3> QED BY <3>1, <3>2
    <2>4. AnswersAreReal'
        <3>1. Head(lines) \in {0} \cup answered /\ Tail(lines) \in Seq({0} \cup answered)
            BY <1>5, SequenceOfOthers DEF Reads, AnswersAreReal
        <3>2. answered' = answered /\ lines' = Tail(lines) /\ future' = future /\ caller' = caller
            BY <1>5 DEF Reads
        <3>3. exchange'.at = "answered" => exchange'.of \in answered
            <4>1. CASE Answers(Head(lines))
                <5>1. exchange.of = Head(lines) /\ exchange.at = "sent"
                    BY <4>1 DEF Answers
                <5>2. exchange'.of = exchange.of
                    BY <1>5, <4>1 DEF Reads, McpTypeOK
                <5> QED BY <3>1, <5>1, <5>2 DEF ExchangeOfRequest
            <4>2. CASE ~Answers(Head(lines))
                BY <1>5, <4>2 DEF Reads, AnswersAreReal
            <4> QED BY <4>1, <4>2
        <3> QED BY <3>1, <3>2, <3>3 DEF AnswersAreReal
    <2> QED BY <2>1, <2>2, <2>3, <2>4 DEF McpInv
<1>6. ASSUME ReadsEnd
      PROVE  McpInv'
    <2>1. McpTypeOK' BY <1>6 DEF McpTypeOK, Calls, ReadsEnd, connection, server
    <2>2. ExchangeOfRequest' BY <1>6 DEF ExchangeOfRequest, ReadsEnd
    <2>3. AnswersAreReal' BY <1>6 DEF AnswersAreReal, ReadsEnd, server
    <2>4. RequestsInOrder' BY <1>6 DEF RequestsInOrder, ReadsEnd
    <2>5. OneCallAsked' BY <1>6 DEF OneCallAsked, ReadsEnd
    <2>6. CloseKills' BY <1>6 DEF CloseKills, ReadsEnd, connection
    <2> QED BY <2>1, <2>2, <2>3, <2>4, <2>5, <2>6 DEF McpInv
<1>7. ASSUME NEW k \in Calls, Begins(k)
      PROVE  McpInv'
    <2>1. McpTypeOK'
        BY <1>7 DEF McpTypeOK, Begins, Owes, connection, server, NoExchange
    <2>2. ExchangeOfRequest'
        BY <1>7 DEF ExchangeOfRequest, Begins, Owes, NoExchange, Calls
    <2>3. AnswersAreReal'
        BY <1>7 DEF AnswersAreReal, Begins, Owes, server, NoExchange, McpTypeOK
    <2>4. RequestsInOrder' BY <1>7 DEF RequestsInOrder, Begins
    <2>5. OneCallAsked' BY <1>7 DEF OneCallAsked, Begins
    <2>6. CloseKills' BY <1>7 DEF CloseKills, Begins, connection
    <2> QED BY <2>1, <2>2, <2>3, <2>4, <2>5, <2>6 DEF McpInv
<1>8. ASSUME Sends
      PROVE  McpInv'
    <2>1. (ExchangeOfRequest /\ AnswersAreReal /\ RequestsInOrder /\ OneCallAsked /\ CloseKills)'
        BY <1>8 DEF ExchangeOfRequest, Sends, AnswersAreReal, RequestsInOrder,
            OneCallAsked, CloseKills, connection
    <2>2. McpTypeOK'
        <3>1. sent' \in 0..RequestLimit
            BY <1>8, McpAssumption DEF Sends, McpTypeOK
        <3>2. exchange.of \in Calls
            BY <1>8 DEF Sends, McpTypeOK, ExchangeOfRequest
        <3>3. received' \subseteq Calls
            BY <1>8, <3>2 DEF Sends, McpTypeOK
        <3>4. exchange' \in [of : {0} \cup Calls, at : {"free", "begun", "sent", "answered"}]
            BY <1>8 DEF Sends, McpTypeOK
        <3> QED BY <1>8, <3>1, <3>3, <3>4 DEF Sends, McpTypeOK, connection
    <2> QED BY <2>1, <2>2 DEF McpInv
<1>9. ASSUME SendFails
      PROVE  McpInv'
    BY <1>9, McpAssumption DEF McpTypeOK, SendFails, Owes, connection, server, NoExchange,
        ExchangeOfRequest, AnswersAreReal, RequestsInOrder, OneCallAsked, CloseKills, McpInv
<1>10. ASSUME ExchangeEnds
      PROVE  McpInv'
    <2>1. (ExchangeOfRequest /\ AnswersAreReal /\ RequestsInOrder /\ OneCallAsked /\ CloseKills)'
        BY <1>10 DEF ExchangeOfRequest, ExchangeEnds, Owes, NoExchange,
            AnswersAreReal, server, McpTypeOK, RequestsInOrder, OneCallAsked, CloseKills, connection
    <2>2. McpTypeOK'
        <3>1. exchange.of \in Calls
            BY <1>10 DEF ExchangeEnds, McpTypeOK
        <3>2. PICK outcome \in {"ok", "error", "cancelled"} : Owes(exchange.of, outcome)
            BY <1>10 DEF ExchangeEnds
        <3>3. /\ future' \in [Calls -> {"none", "queued", "running", "ok", "error", "cancelled"}]
              /\ exchange' \in [of : {0} \cup Calls, at : {"free", "begun", "sent", "answered"}]
            BY <3>1, <3>2 DEF Owes, NoExchange, McpTypeOK
        <3> QED BY <1>10, <3>3 DEF ExchangeEnds, McpTypeOK, connection, server
    <2> QED BY <2>1, <2>2 DEF McpInv
<1>11. ASSUME NEW k \in Calls, ServerAnswers(k)
      PROVE  McpInv'
    BY <1>11 DEF McpTypeOK, ServerAnswers, Writes, connection, ExchangeOfRequest,
        AnswersAreReal, RequestsInOrder, OneCallAsked, CloseKills, McpInv
<1>12. ASSUME ServerBabbles
      PROVE  McpInv'
    BY <1>12 DEF McpTypeOK, ServerBabbles, Writes, connection, ExchangeOfRequest,
        AnswersAreReal, RequestsInOrder, OneCallAsked, CloseKills, McpInv
<1>13. ASSUME ServerDies
      PROVE  McpInv'
    BY <1>13 DEF McpTypeOK, ServerDies, server, ExchangeOfRequest, AnswersAreReal,
        RequestsInOrder, OneCallAsked, CloseKills, McpInv
<1>14. ASSUME NEW k \in Calls, Asks(k)
      PROVE  McpInv'
    BY <1>14 DEF McpTypeOK, Asks, Goes, connection, server, ExchangeOfRequest,
        AnswersAreReal, RequestsInOrder, OneCallAsked, CloseKills, McpInv
<1>15. ASSUME NEW k \in Calls, Submits(k)
      PROVE  McpInv'
    <2>1. McpTypeOK' BY <1>15 DEF McpTypeOK, Calls, Submits, Goes, connection, server
    <2>2. ExchangeOfRequest' BY <1>15 DEF ExchangeOfRequest, Submits
    <2>3. AnswersAreReal'
        BY <1>15 DEF AnswersAreReal, Submits, Goes, server, McpTypeOK
    <2>4. RequestsInOrder' BY <1>15 DEF RequestsInOrder, Submits, Goes, McpTypeOK
    <2>5. OneCallAsked' BY <1>15 DEF OneCallAsked, Submits
    <2>6. CloseKills' BY <1>15 DEF CloseKills, Submits, connection
    <2> QED BY <2>1, <2>2, <2>3, <2>4, <2>5, <2>6 DEF McpInv
<1>16. ASSUME NEW k \in Calls, Receives(k)
      PROVE  McpInv'
    BY <1>16 DEF McpTypeOK, Receives, Goes, connection, server, ExchangeOfRequest,
        AnswersAreReal, RequestsInOrder, OneCallAsked, CloseKills, McpInv
<1>17. ASSUME NEW k \in Calls, Abandons(k)
      PROVE  McpInv'
    <2>1. McpTypeOK' BY <1>17 DEF McpTypeOK, Abandons, Goes, Closes, server, Killed
    <2>2. ExchangeOfRequest' BY <1>17 DEF ExchangeOfRequest, Abandons
    <2>3. AnswersAreReal' BY <1>17 DEF AnswersAreReal, Abandons, Goes, server
    <2>4. RequestsInOrder' BY <1>17 DEF RequestsInOrder, Abandons, Goes
    <2>5. OneCallAsked' BY <1>17 DEF OneCallAsked, Abandons
    <2>6. CloseKills'
        BY <1>17 DEF CloseKills, Abandons, Closes, Killed, McpTypeOK, AnswersAreReal,
            RequestsInOrder, OneCallAsked, Calls
    <2> QED BY <2>1, <2>2, <2>3, <2>4, <2>5, <2>6 DEF McpInv
<1>18. ASSUME NEW k \in Calls, StoresReceipt(k)
      PROVE  McpInv'
    BY <1>18 DEF McpTypeOK, StoresReceipt, Goes, server, ExchangeOfRequest,
        AnswersAreReal, RequestsInOrder, OneCallAsked, CloseKills, McpInv
<1>19. ASSUME NEW k \in Calls, Proves(k)
      PROVE  McpInv'
    BY <1>19 DEF McpTypeOK, Proves, Goes, connection, server, ExchangeOfRequest,
        AnswersAreReal, RequestsInOrder, OneCallAsked, CloseKills, McpInv
<1>20. ASSUME NEW k \in Calls, Disproves(k)
      PROVE  McpInv'
    BY <1>20 DEF McpTypeOK, Disproves, Goes, connection, server, ExchangeOfRequest,
        AnswersAreReal, RequestsInOrder, OneCallAsked, CloseKills, McpInv
<1>21. ASSUME OpenFails
      PROVE  McpInv'
    BY <1>21 DEF McpTypeOK, OpenFails, Quits, Closes, server, Killed,
        ExchangeOfRequest, AnswersAreReal, RequestsInOrder, OneCallAsked, CloseKills, McpInv
<1>22. ASSUME Discovers
      PROVE  McpInv'
    BY <1>22, McpAssumption DEF McpTypeOK, Calls, Discovers, Requests, connection, server,
        ExchangeOfRequest, AnswersAreReal, RequestsInOrder, OneCallAsked, CloseKills, McpInv
<1>23. ASSUME Discovered
      PROVE  McpInv'
    BY <1>23 DEF McpTypeOK, Discovered, connection, server, ExchangeOfRequest,
        AnswersAreReal, RequestsInOrder, OneCallAsked, CloseKills, McpInv
<1>24. ASSUME DiscoveryFails
      PROVE  McpInv'
    BY <1>24 DEF McpTypeOK, DiscoveryFails, Quits, Closes, server, Killed,
        ExchangeOfRequest, AnswersAreReal, RequestsInOrder, OneCallAsked, CloseKills, McpInv
<1>25. ASSUME CallStarts
      PROVE  McpInv'
    BY <1>25, McpAssumption DEF McpTypeOK, Calls, CallStarts, Requests, connection, server,
        ExchangeOfRequest, AnswersAreReal, RequestsInOrder, OneCallAsked, CloseKills, McpInv
<1>26. ASSUME CallEnds
      PROVE  McpInv'
    BY <1>26 DEF McpTypeOK, Calls, CallEnds, Verified, connection, server, Receipted,
        ExchangeOfRequest, AnswersAreReal, RequestsInOrder, OneCallAsked, CloseKills, McpInv
<1>27. ASSUME CallStops
      PROVE  McpInv'
    BY <1>27 DEF McpTypeOK, Calls, CallStops, NoCall, Quits, Closes, server, Killed,
        ExchangeOfRequest, AnswersAreReal, RequestsInOrder, OneCallAsked, CloseKills, McpInv
<1>28. ASSUME RunEnds
      PROVE  McpInv'
    BY <1>28 DEF McpTypeOK, RunEnds, Quits, Closes, server, Killed,
        ExchangeOfRequest, AnswersAreReal, RequestsInOrder, OneCallAsked, CloseKills, McpInv
<1>29. CASE UNCHANGED vars
    BY <1>29 DEF McpTypeOK, vars, connection, server, ExchangeOfRequest,
        AnswersAreReal, RequestsInOrder, OneCallAsked, CloseKills, McpInv
<1> QED BY <1>1, <1>2, <1>3, <1>4, <1>5, <1>6, <1>7, <1>8, <1>9, <1>10, <1>11, <1>12, <1>13, <1>14,
        <1>15, <1>16, <1>17, <1>18, <1>19, <1>20, <1>21, <1>22, <1>23, <1>24, <1>25, <1>26, <1>27,
        <1>28, <1>29 DEF McpNext, Loop, Server, Caller, Run, Over

LEMMA McpInitInv == McpInit => McpInv
<1> SUFFICES ASSUME McpInit PROVE McpInv
    OBVIOUS
<1>1. McpTypeOK
    <2>1. /\ NoExchange \in [of : {0} \cup Calls, at : {"free", "begun", "sent", "answered"}]
          /\ NoCall \in [call : {0} \cup Calls, proven : {0} \cup Calls]
          /\ [pc |-> "opening", asked |-> 0] \in
                 [pc : {"opening", "discovering", "idle", "calling", "over"}, asked : {0} \cup Calls]
        BY DEF NoExchange, NoCall
    <2>2. <<>> \in Seq({0} \cup Calls) /\ 0 \in 0..RequestLimit
        BY McpAssumption
    <2> QED BY <2>1, <2>2 DEF McpInit, McpTypeOK
<1>2. ExchangeOfRequest /\ AnswersAreReal /\ RequestsInOrder /\ OneCallAsked /\ CloseKills
    BY DEF McpInit, NoExchange, ExchangeOfRequest, AnswersAreReal, RequestsInOrder, OneCallAsked,
        CloseKills
<1> QED BY <1>1, <1>2 DEF McpInv

LEMMA McpInvariant == McpSpec => []McpInv
BY McpInitInv, McpStep, PTL DEF McpSpec

\* The variables of a connection keep the values that the code gives them; no connection
\* sends more requests than RequestLimit, however many the run and its workers make.
THEOREM McpTyping == McpSpec => []McpTypeOK
<1>1. McpInv => McpTypeOK
    BY DEF McpInv
<1> QED BY <1>1, McpInvariant, PTL

-----------------------------------------------------------------------------
(* The contract of a connection, without what must eventually happen.      *)

\* Whoever closes the connection of a run that is under way stops the server with it.
LEMMA ClosesStop ==
    ASSUME McpInv, Closes, told' = told, answered' = answered
    PROVE  Contract!Stop \/ UNCHANGED Contract!connection
BY DEF McpInv, McpTypeOK, Closes, Killed, Contract!Stop, Contract!connection

\* Every step is one of the contract, or invisible to it.
LEMMA ContractStep ==
    McpInv /\ [McpNext]_vars => [Contract!McpContractNext]_(Contract!connection)
<1> DEFINE Kept == [Contract!McpContractNext]_(Contract!connection)
<1> SUFFICES ASSUME McpInv, [McpNext]_vars
             PROVE  Kept
    OBVIOUS
<1>1. CASE Spawns
    <2>1. Contract!Start
        BY <1>1 DEF Spawns, server, McpInv, McpTypeOK, Contract!Start
    <2> QED BY <2>1 DEF Contract!McpContractNext
<1>2. CASE LoopEnds \/ ServerDies
    <2>1. Contract!Stop \/ UNCHANGED Contract!connection
        BY <1>2 DEF LoopEnds, ServerDies, server, McpInv, McpTypeOK, Contract!Stop, Contract!connection
    <2> QED BY <2>1 DEF Contract!McpContractNext
<1>3. ASSUME NEW k \in Calls, ServerAnswers(k)
      PROVE  Kept
    <2>1. Contract!Answer
        BY <1>3 DEF ServerAnswers, Writes, connection, Contract!Answer
    <2> QED BY <2>1 DEF Contract!McpContractNext
<1>4. ASSUME \/ OpenFails \/ DiscoveryFails \/ RunEnds
             \/ \E k \in Calls : Abandons(k)
      PROVE  Kept
    <2>1. Closes /\ told' = told /\ answered' = answered
        BY <1>4 DEF OpenFails, DiscoveryFails, RunEnds, Abandons, Quits, server
    <2> QED BY <2>1, ClosesStop DEF Contract!McpContractNext
<1>5. CASE CallStarts
    <2>1. PICK k \in Calls : k = run.asked + 1
        BY <1>5, McpAssumption DEF CallStarts, Requests, McpInv, McpTypeOK, Calls
    <2>2. told[k] = "new"
        BY <2>1, McpAssumption DEF McpInv, RequestsInOrder, McpTypeOK, Calls
    <2>3. Contract!Ask(k)
        BY <1>5, <2>1, <2>2 DEF CallStarts, Requests, connection, server, Contract!Ask, Contract!Told
    <2> QED BY <2>3 DEF Contract!McpContractNext
<1>6. ASSUME run.pc = "calling", CallEnds \/ CallStops
      PROVE  Kept
    <2>1. PICK k \in Calls : k = run.asked /\ told[k] = "asked"
        BY <1>6 DEF McpInv, McpTypeOK, RequestsInOrder, OneCallAsked
    <2>2. CASE CallEnds
        <3>1. Verified(k) => k \in answered
            BY DEF Verified, McpInv, AnswersAreReal
        <3>2. answered' = answered /\ process' = process
            BY <2>2 DEF CallEnds, connection, server
        <3>3. told' = [told EXCEPT ![k] = IF Verified(k) THEN "ok" ELSE "error"]
            BY <2>1, <2>2 DEF CallEnds
        <3>4. Contract!Tell(k)
            BY <2>1, <3>1, <3>2, <3>3 DEF Contract!Tell, Contract!Told
        <3> QED BY <3>4 DEF Contract!McpContractNext
    <2>3. CASE CallStops
        <3>1. process' = "gone" /\ answered' = answered
            BY <1>6, <2>3 DEF CallStops, Quits, Closes, Killed, server, McpInv, McpTypeOK, CloseKills
        <3>2. told' = [told EXCEPT ![k] = "stopped"]
            BY <2>1, <2>3 DEF CallStops
        <3>3. Contract!Tell(k)
            BY <2>1, <3>1, <3>2 DEF Contract!Tell, Contract!Told
        <3> QED BY <3>3 DEF Contract!McpContractNext
    <2> QED BY <1>6, <2>2, <2>3
<1>7. ASSUME \/ LoopStarts \/ LoopFails \/ Reads \/ ReadsEnd \/ Sends \/ SendFails
             \/ ExchangeEnds \/ ServerBabbles \/ Discovers \/ Discovered
             \/ \E k \in Calls : \/ Begins(k) \/ Asks(k) \/ Submits(k) \/ Receives(k)
                                 \/ StoresReceipt(k) \/ Proves(k) \/ Disproves(k)
             \/ UNCHANGED vars
      PROVE  Kept
    <2>1. UNCHANGED <<process, told, answered>>
        BY <1>7 DEF LoopStarts, LoopFails, Reads, ReadsEnd, Sends, SendFails, ExchangeEnds,
            ServerBabbles, Writes, Discovers, Requests, Discovered, Begins, Asks, Submits, Receives,
            StoresReceipt, Proves, Disproves, connection, server, vars
    <2> QED BY <2>1 DEF Contract!connection
<1> QED BY <1>1, <1>2, <1>3, <1>4, <1>5, <1>6, <1>7
        DEF McpNext, Loop, Server, Caller, Run, Over, CallEnds, CallStops

\* However the server answers, fails or falls silent, and whichever thread closes the
\* connection first: the server is started once and stays gone, a call is asked once and told
\* once, a success is told only of a call that the server has answered, and a call that is
\* given up takes the server with it.
THEOREM KeepsSafety == McpSpec => Contract!McpContractSafety
<1>1. McpInit => Contract!McpContractInit
    BY DEF McpInit, Contract!McpContractInit
<1> QED BY <1>1, McpInvariant, ContractStep, PTL DEF McpSpec, Contract!McpContractSafety
=============================================================================
