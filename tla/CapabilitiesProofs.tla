-------------------------- MODULE CapabilitiesProofs --------------------------
(***************************************************************************)
(* Proofs about Capabilities, for any number of clients, versions and      *)
(* changes: its invariants, and that nothing is let through for a          *)
(* capability that was revoked.                                            *)
(***************************************************************************)
EXTENDS Capabilities, TLAPS

-----------------------------------------------------------------------------
(* The inductive invariant.                                                *)

HandlersTyped == handler \in [Clients -> HandlerState]
RunTyped == run \in RunState

\* What a change under way is about, as far as it has got.
RequestsKnown ==
    \A c \in Clients : LET h == handler[c] IN
        /\ h.pc # "idle" => h.item \in Items
        /\ h.pc \in {"file", "current"} => h.content \in Contents(h.item)
        /\ h.pc = "flag" => h.item # Skill /\ h.content \in Contents(h.item) /\ h.task # "disable"
        /\ h.pc = "content" /\ h.task = "install" => h.item = Skill /\ h.content \in Contents(Skill)
        /\ h.pc = "content" /\ h.task = "bind" => h.item = Agent /\ h.content \in Contents(Agent)
        /\ h.pc \notin {"idle", "cancel"} /\ h.task = "disable" => ~h.enabled

\* What a client is about to make current is there.
WritesAreWhole ==
    \A c \in Clients : At(c, "current") => Named(handler[c].item, handler[c].content) \subseteq files[handler[c].item]

\* The change of d will write x as enabled.
WillEnable(d, x) ==
    /\ ~At(d, "idle") /\ handler[d].item = x /\ handler[d].enabled
    /\ handler[d].task = "enable" \/ handler[d].pc \in {"file", "current"}

\* A revoked item is disabled, and no change under way will enable it.
RevokedStaysOff ==
    /\ revoked \subseteq Items
    /\ \A x \in revoked : ~Enabled(x) /\ \A d \in Clients : ~WillEnable(d, x)

\* The page finds the job of every run of a session that is past its start; a run that was
\* said to be stopped is cancelled.
RunsAreFound ==
    /\ run.pc \notin {"none", "starting"} /\ ~run.oneshot => run.listed
    /\ run.pc = "assembled" => run.oneshot
    /\ AtWork => run.listed /\ (run.pc = "checked" => run.item \in Items)
    /\ run.told => run.cancelled

CapabilitiesInv ==
    /\ CatalogTyped /\ HandlersTyped /\ RunTyped /\ RequestsKnown
    /\ CurrentIsWhole /\ WritesAreWhole /\ RevokedStaysOff /\ RunsAreFound

-----------------------------------------------------------------------------
\* What there is of an item, and what may be added to it.
LEMMA ItemsAndContents ==
    /\ Agent \in Items /\ Server \in Items /\ Skill \in Items
    /\ Contents(Agent) = SUBSET {Server, Skill}
    /\ Contents(Server) = {{v} : v \in Versions}
    /\ Contents(Skill) = SUBSET Versions
    /\ \A x \in Items : Contents(x) \subseteq SUBSET (Versions \cup Items)
<1>1. Agent \in Items /\ Server \in Items /\ Skill \in Items
    BY DEF Items
<1>2. /\ Contents(Agent) = SUBSET {Server, Skill}
      /\ Contents(Server) = {{v} : v \in Versions}
      /\ Contents(Skill) = SUBSET Versions
    BY CapabilitiesAssumption DEF Contents
<1>3. \A x \in Items : Contents(x) \subseteq SUBSET (Versions \cup Items)
    BY <1>2 DEF Items
<1> QED BY <1>1, <1>2, <1>3

LEMMA NothingUnderWay == Idle \in HandlerState /\ NoRun \in RunState
<1>1. Idle \in HandlerState
    BY DEF Idle, HandlerState
<1>2. NoRun \in RunState
    BY DEF NoRun, RunState
<1> QED BY <1>1, <1>2

\* The content of an item is one that it may have; without a file it is empty.
LEMMA ContentIsOfItem ==
    ASSUME CatalogTyped, NEW x \in Items
    PROVE  /\ Content(x) \in SUBSET (Versions \cup Items)
           /\ Installed(x) \/ x # Server => Content(x) \in Contents(x)
<1>1. CASE Installed(x)
    BY <1>1, ItemsAndContents DEF CatalogTyped
<1>2. CASE ~Installed(x)
    <2>1. Content(x) = {}
        BY <1>2 DEF Content
    <2>2. x # Server => {} \in Contents(x)
        BY ItemsAndContents DEF Items
    <2> QED BY <1>2, <2>1, <2>2
<1> QED BY <1>1, <1>2

\* Every step keeps the inductive invariant.
LEMMA CapabilitiesStep == CapabilitiesInv /\ [CapabilitiesNext]_vars => CapabilitiesInv'
<1> SUFFICES ASSUME CatalogTyped, HandlersTyped, RunTyped, RequestsKnown, CurrentIsWhole,
                    WritesAreWhole, RevokedStaysOff, RunsAreFound, [CapabilitiesNext]_vars
             PROVE  CapabilitiesInv'
    BY DEF CapabilitiesInv
<1>1. ASSUME NEW c \in Clients, NEW task \in Tasks, NEW x \in Items,
             NEW content \in Brings(task, x),
             Asks(c, task, x, content)
      PROVE  CapabilitiesInv'
    <2>1. (CatalogTyped /\ HandlersTyped /\ RunTyped /\ CurrentIsWhole /\ WritesAreWhole
           /\ RevokedStaysOff /\ RunsAreFound)'
        BY <1>1, ItemsAndContents, CapabilitiesAssumption DEF CatalogTyped, Installed, Content,
            Asks, HandlersTyped, HandlerState, Tasks, Brings, RunTyped, CurrentIsWhole,
            WritesAreWhole, At, RevokedStaysOff, Enabled, WillEnable, RunsAreFound, AtWork
    <2>2. RequestsKnown'
        <3>1. /\ task = "save" => x # Skill /\ content \in Contents(x)
              /\ task = "install" => x = Skill /\ content \in Contents(Skill)
              /\ task = "bind" => x = Agent /\ content \in Contents(Agent)
            BY ItemsAndContents, CapabilitiesAssumption DEF Brings
        <3> QED BY <1>1, <3>1 DEF Asks, At, RequestsKnown, HandlersTyped
    <2> QED BY <2>1, <2>2 DEF CapabilitiesInv
<1>2. ASSUME NEW c \in Clients, ReadsToSwitch(c)
      PROVE  CapabilitiesInv'
    <2>1. (CatalogTyped /\ RunTyped /\ RequestsKnown /\ CurrentIsWhole /\ WritesAreWhole
           /\ RevokedStaysOff /\ RunsAreFound)'
        BY <1>2, ItemsAndContents, CapabilitiesAssumption DEF CatalogTyped, Installed, Content,
            ReadsToSwitch, Goes, RunTyped, RequestsKnown, At, Idle, CurrentIsWhole, WritesAreWhole,
            RevokedStaysOff, Enabled, WillEnable, RunsAreFound, AtWork
    <2>2. HandlersTyped'
        <3> DEFINE h == handler[c]
        <3>1. h \in HandlerState
            BY DEF HandlersTyped
        <3>2. Content(h.item) \in SUBSET (Versions \cup Items)
            BY <1>2, ContentIsOfItem, ItemsAndContents DEF ReadsToSwitch, At, RequestsKnown
        <3>3. [h EXCEPT !.pc = IF h.item = Agent THEN "file" ELSE "current", !.content = Content(h.item)] \in HandlerState
            BY <3>1, <3>2 DEF HandlerState
        <3> QED BY <1>2, <3>3, NothingUnderWay DEF ReadsToSwitch, Goes, HandlersTyped
    <2> QED BY <2>1, <2>2 DEF CapabilitiesInv
<1>3. ASSUME NEW c \in Clients, ReadsToBind(c)
      PROVE  CapabilitiesInv'
    <2>1. (CatalogTyped /\ RunTyped /\ RequestsKnown /\ CurrentIsWhole /\ WritesAreWhole
           /\ RevokedStaysOff /\ RunsAreFound)'
        BY <1>3, ItemsAndContents, CapabilitiesAssumption DEF CatalogTyped, Installed, Content,
            ReadsToBind, Goes, RunTyped, RequestsKnown, At, Idle, CurrentIsWhole, WritesAreWhole,
            RevokedStaysOff, Enabled, WillEnable, RunsAreFound, AtWork
    <2>2. HandlersTyped'
        <3> DEFINE h == handler[c]
        <3>1. h \in HandlerState
            BY DEF HandlersTyped
        <3>2. h.content \cup Content(Agent) \in SUBSET (Versions \cup Items)
            BY <1>3, ContentIsOfItem, ItemsAndContents DEF HandlersTyped, HandlerState
        <3>3. [h EXCEPT !.pc = "flag", !.content = @ \cup Content(Agent)] \in HandlerState
            BY <3>1, <3>2 DEF HandlerState
        <3> QED BY <1>3, <3>3, NothingUnderWay DEF ReadsToBind, Goes, HandlersTyped
    <2> QED BY <2>1, <2>2 DEF CapabilitiesInv
<1>4. ASSUME NEW c \in Clients, ReadsToInstall(c)
      PROVE  CapabilitiesInv'
    <2>1. (CatalogTyped /\ RunTyped /\ RequestsKnown /\ CurrentIsWhole /\ WritesAreWhole
           /\ RunsAreFound)'
        BY <1>4, ItemsAndContents, CapabilitiesAssumption DEF CatalogTyped, Installed, Content,
            ReadsToInstall, Goes, RunTyped, RequestsKnown, At, Idle, CurrentIsWhole, WritesAreWhole,
            RunsAreFound, AtWork
    <2>2. HandlersTyped'
        <3> DEFINE h == handler[c]
        <3>1. h \in HandlerState
            BY DEF HandlersTyped
        <3>2. h.content \cup Content(Skill) \in SUBSET (Versions \cup Items) /\ Enabled(Skill) \in BOOLEAN
            BY <1>4, ContentIsOfItem, ItemsAndContents DEF HandlersTyped, HandlerState, Enabled
        <3>3. [h EXCEPT !.pc = "file", !.content = @ \cup Content(Skill), !.enabled = Enabled(Skill)] \in HandlerState
            BY <3>1, <3>2 DEF HandlerState
        <3> QED BY <1>4, <3>3, NothingUnderWay DEF ReadsToInstall, Goes, HandlersTyped
    <2>3. RevokedStaysOff'
        BY <1>4 DEF RevokedStaysOff, Enabled, WillEnable, Installed, At, ReadsToInstall, Goes, Idle,
            CatalogTyped, RequestsKnown, Entries
    <2> QED BY <2>1, <2>2, <2>3 DEF CapabilitiesInv
<1>5. ASSUME NEW c \in Clients, ReadsFlag(c)
      PROVE  CapabilitiesInv'
    <2>1. (CatalogTyped /\ RunTyped /\ RequestsKnown /\ CurrentIsWhole /\ WritesAreWhole
           /\ RunsAreFound)'
        BY <1>5, ItemsAndContents, CapabilitiesAssumption DEF CatalogTyped, Installed, Content,
            ReadsFlag, Goes, RunTyped, RequestsKnown, At, CurrentIsWhole, WritesAreWhole,
            RunsAreFound, AtWork
    <2>2. HandlersTyped'
        <3> DEFINE h == handler[c]
        <3>1. h \in HandlerState
            BY DEF HandlersTyped
        <3>2. Enabled(h.item) \in BOOLEAN
            BY <1>5, ContentIsOfItem, ItemsAndContents DEF Enabled
        <3>3. [h EXCEPT !.pc = "file", !.enabled = Enabled(h.item)] \in HandlerState
            BY <3>1, <3>2 DEF HandlerState
        <3> QED BY <1>5, <3>3, NothingUnderWay DEF ReadsFlag, Goes, HandlersTyped
    <2>3. RevokedStaysOff'
        <3>1. UNCHANGED <<current, revoked>>
            BY <1>5 DEF ReadsFlag, Goes
        <3>2. /\ handler'[c].item = handler[c].item
              /\ handler'[c].enabled = Enabled(handler[c].item)
              /\ \A d \in Clients \ {c} : handler'[d] = handler[d]
            BY <1>5 DEF ReadsFlag, Goes, HandlersTyped, HandlerState
        <3>3. \A x \in Items : WillEnable(c, x)' => Enabled(x)
            BY <3>2 DEF WillEnable
        <3>4. \A d \in Clients \ {c}, x \in Items : WillEnable(d, x)' => WillEnable(d, x)
            BY <3>2 DEF WillEnable, At
        <3>5. \A x \in Items : Enabled(x)' <=> Enabled(x)
            BY <3>1 DEF Enabled, Installed
        <3> QED BY <3>1, <3>3, <3>4, <3>5 DEF RevokedStaysOff
    <2> QED BY <2>1, <2>2, <2>3 DEF CapabilitiesInv
<1>6. ASSUME NEW c \in Clients, WritesFile(c)
      PROVE  CapabilitiesInv'
    BY <1>6, ItemsAndContents, CapabilitiesAssumption DEF CatalogTyped, Installed, Content,
        WritesFile, At, Named, RequestsKnown, HandlersTyped, HandlerState, RunTyped, CurrentIsWhole,
        WritesAreWhole, RevokedStaysOff, Enabled, WillEnable, RunsAreFound, AtWork, CapabilitiesInv
<1>7. ASSUME NEW c \in Clients, WritesCurrent(c)
      PROVE  CapabilitiesInv'
    <2>1. CatalogTyped'
        BY <1>7, ItemsAndContents, CapabilitiesAssumption DEF CatalogTyped, Entries, Installed,
            Content, WritesCurrent, At, HandlersTyped, RequestsKnown, HandlerState
    <2>2. HandlersTyped'
        BY <1>7, ItemsAndContents, CapabilitiesAssumption DEF HandlersTyped, HandlerState, Tasks,
            WritesCurrent, At, Crossing, Idle
    <2>3. RunTyped' BY <1>7 DEF RunTyped, WritesCurrent
    <2>4. RequestsKnown'
        BY <1>7, ItemsAndContents, CapabilitiesAssumption DEF RequestsKnown, WritesCurrent, At, Idle
    <2>5. CurrentIsWhole'
        BY <1>7, CapabilitiesAssumption, ItemsAndContents DEF CurrentIsWhole, Installed, Content,
            WritesCurrent, WritesAreWhole
    <2>6. WritesAreWhole'
        BY <1>7, ItemsAndContents, CapabilitiesAssumption DEF WritesAreWhole, At, WritesCurrent,
            Idle
    <2>7. RevokedStaysOff'
        <3>1. PICK y \in Items, on \in BOOLEAN :
                y = handler[c].item /\ on = handler[c].enabled /\ handler[c].content \in Contents(y)
            BY <1>7 DEF WritesCurrent, At, RequestsKnown, HandlersTyped, HandlerState
        <3>2. [content |-> handler[c].content, enabled |-> on] \in Entries
            BY <3>1 DEF Entries
        <3>3. current' = [current EXCEPT ![y] = [content |-> handler[c].content, enabled |-> on]]
            BY <1>7, <3>1 DEF WritesCurrent
        <3>4. Enabled(y)' <=> on
            BY <3>2, <3>3, CapabilitiesAssumption DEF CatalogTyped, Enabled, Installed
        <3>5. \A x \in Items \ {y} : Enabled(x)' <=> Enabled(x)
            BY <3>3 DEF CatalogTyped, Enabled, Installed
        <3>6. handler'[c].pc \in {"idle", "cancel"} /\ handler'[c].task = None
            BY <1>7 DEF WritesCurrent, HandlersTyped, Idle
        <3>7. \A d \in Clients, x \in Items : WillEnable(d, x)' => d # c /\ WillEnable(d, x)
            <4>1. \A d \in Clients : d # c => handler'[d] = handler[d]
                BY <1>7 DEF WritesCurrent, HandlersTyped
            <4>2. None # "enable"
                BY CapabilitiesAssumption DEF Tasks
            <4> QED BY <3>6, <4>1, <4>2 DEF WillEnable, At
        <3>8. y \in revoked => ~on
            BY <1>7, <3>1 DEF WritesCurrent, At, RevokedStaysOff, WillEnable
        <3>9. CASE handler[c].task = "disable" /\ ~Crossing(c, y)
            <4>1. ~on /\ revoked' = revoked \cup {y}
                BY <1>7, <3>1, <3>9 DEF WritesCurrent, At, RequestsKnown
            <4>2. \A d \in Clients \ {c} : ~WillEnable(d, y)
                BY <3>9 DEF Crossing, WillEnable
            <4> QED BY <3>1, <3>4, <3>5, <3>7, <4>1, <4>2 DEF RevokedStaysOff
        <3>10. CASE ~(handler[c].task = "disable" /\ ~Crossing(c, y))
            <4>1. revoked' = revoked
                BY <1>7, <3>1, <3>10 DEF WritesCurrent
            <4> QED BY <3>4, <3>5, <3>7, <3>8, <4>1 DEF RevokedStaysOff
        <3> QED BY <3>9, <3>10
    <2>8. RunsAreFound' BY <1>7 DEF RunsAreFound, AtWork, WritesCurrent
    <2> QED BY <2>1, <2>2, <2>3, <2>4, <2>5, <2>6, <2>7, <2>8 DEF CapabilitiesInv
<1>8. ASSUME NEW c \in Clients, Breaks(c)
      PROVE  CapabilitiesInv'
    BY <1>8, ItemsAndContents, CapabilitiesAssumption DEF CatalogTyped, Installed, Content, Breaks,
        Goes, HandlersTyped, HandlerState, Idle, RunTyped, RequestsKnown, CurrentIsWhole,
        WritesAreWhole, At, RevokedStaysOff, Enabled, WillEnable, RunsAreFound, AtWork,
        CapabilitiesInv
<1>9. ASSUME NEW c \in Clients, Cancels(c)
      PROVE  CapabilitiesInv'
    <2>1. CatalogTyped'
        BY <1>9, ItemsAndContents, CapabilitiesAssumption DEF CatalogTyped, Installed, Content,
            Cancels
    <2>2. HandlersTyped'
        BY <1>9, ItemsAndContents, CapabilitiesAssumption DEF HandlersTyped, HandlerState, Cancels,
            Idle
    <2>3. RunTyped' BY <1>9 DEF RunTyped, RunState, Cancels, At, Affected, Idle
    <2>4. RequestsKnown'
        BY <1>9, ItemsAndContents, CapabilitiesAssumption DEF RequestsKnown, Cancels, Idle
    <2>5. CurrentIsWhole' BY <1>9 DEF CurrentIsWhole, Installed, Content, Cancels
    <2>6. WritesAreWhole'
        BY <1>9, ItemsAndContents, CapabilitiesAssumption DEF WritesAreWhole, At, Cancels, Idle
    <2>7. RevokedStaysOff'
        BY <1>9 DEF RevokedStaysOff, Enabled, WillEnable, Installed, At, Cancels, Idle
    <2>8. RunsAreFound' BY <1>9 DEF RunsAreFound, AtWork, Cancels, HandlersTyped, HandlerState
    <2> QED BY <2>1, <2>2, <2>3, <2>4, <2>5, <2>6, <2>7, <2>8 DEF CapabilitiesInv
<1>10. ASSUME NEW uses \in Contents(Agent), NEW oneshot \in BOOLEAN, RunBegins(uses, oneshot)
      PROVE  CapabilitiesInv'
    <2>1. (CatalogTyped /\ HandlersTyped /\ RequestsKnown /\ CurrentIsWhole /\ WritesAreWhole
           /\ RevokedStaysOff /\ RunsAreFound)'
        BY <1>10 DEF CatalogTyped, Installed, Content, RunBegins, HandlersTyped, RequestsKnown,
            CurrentIsWhole, WritesAreWhole, At, RevokedStaysOff, Enabled, WillEnable, RunsAreFound,
            AtWork,
            NoRun
    <2>2. RunTyped'
        <3>1. uses \in SUBSET {Server, Skill}
            BY ItemsAndContents
        <3> QED BY <1>10, <3>1, NothingUnderWay DEF RunBegins, RunTyped, RunState
    <2> QED BY <2>1, <2>2 DEF CapabilitiesInv
<1>11. ASSUME RunListed
      PROVE  CapabilitiesInv'
    BY <1>11 DEF CatalogTyped, Installed, Content, RunListed, HandlersTyped, RunTyped, RunState,
        RequestsKnown, CurrentIsWhole, WritesAreWhole, At, RevokedStaysOff, Enabled, WillEnable,
        RunsAreFound, AtWork, CapabilitiesInv
<1>12. ASSUME Assemble
      PROVE  CapabilitiesInv'
    BY <1>12 DEF CatalogTyped, Installed, Content, Assemble, HandlersTyped, RunTyped, RunState,
        RequestsKnown, CurrentIsWhole, WritesAreWhole, At, RevokedStaysOff, Enabled, WillEnable,
        RunsAreFound, AtWork, CapabilitiesInv
<1>13. ASSUME Summarizes
      PROVE  CapabilitiesInv'
    BY <1>13 DEF CatalogTyped, Installed, Content, Summarizes, HandlersTyped, RunTyped, RunState,
        RequestsKnown, CurrentIsWhole, WritesAreWhole, At, RevokedStaysOff, Enabled, WillEnable,
        RunsAreFound, AtWork, CapabilitiesInv
<1>14. ASSUME RunEnds
      PROVE  CapabilitiesInv'
    BY <1>14 DEF CatalogTyped, Installed, Content, RunEnds, HandlersTyped, RunTyped, RunState,
        NoRun, RequestsKnown, CurrentIsWhole, WritesAreWhole, At, RevokedStaysOff, Enabled,
        WillEnable, RunsAreFound, AtWork, CapabilitiesInv
<1>15. ASSUME NEW x \in Items, Checks(x)
      PROVE  CapabilitiesInv'
    BY <1>15 DEF CatalogTyped, Installed, Content, Checks, HandlersTyped, RunTyped, RunState,
        RequestsKnown, CurrentIsWhole, WritesAreWhole, At, RevokedStaysOff, Enabled, WillEnable,
        RunsAreFound, AtWork, CapabilitiesInv
<1>16. ASSUME Crash
      PROVE  CapabilitiesInv'
    BY <1>16 DEF CatalogTyped, Installed, Content, Crash, HandlersTyped, HandlerState, Idle,
        RunTyped, RunState, NoRun, RequestsKnown, CurrentIsWhole, WritesAreWhole, At,
        RevokedStaysOff, Enabled, WillEnable, RunsAreFound, AtWork, CapabilitiesInv
<1>17. ASSUME Uses
      PROVE  CapabilitiesInv'
    BY <1>17 DEF CatalogTyped, Installed, Content, Uses, HandlersTyped, RunTyped, RunState,
        RequestsKnown, CurrentIsWhole, WritesAreWhole, At, RevokedStaysOff, Enabled, WillEnable,
        RunsAreFound, AtWork, CapabilitiesInv
<1>18. CASE UNCHANGED vars
    BY <1>18 DEF CatalogTyped, Installed, Content, vars, HandlersTyped, RunTyped, RequestsKnown,
        CurrentIsWhole, WritesAreWhole, At, RevokedStaysOff, Enabled, WillEnable, RunsAreFound,
        AtWork,
        CapabilitiesInv
<1> QED BY <1>1, <1>2, <1>3, <1>4, <1>5, <1>6, <1>7, <1>8, <1>9, <1>10, <1>11, <1>12, <1>13, <1>14,
        <1>15, <1>16, <1>17, <1>18 DEF CapabilitiesNext, Change, Run

-----------------------------------------------------------------------------
LEMMA CapabilitiesInitInv == CapabilitiesInit => CapabilitiesInv
<1> SUFFICES ASSUME CapabilitiesInit
             PROVE  CapabilitiesInv
    OBVIOUS
<1>1. Idle.pc = "idle" /\ NoRun.pc = "none" /\ ~NoRun.told
    BY DEF Idle, NoRun
<1>2. HandlersTyped /\ RunTyped
    BY NothingUnderWay DEF CapabilitiesInit, HandlersTyped, RunTyped
<1>3. CurrentIsWhole /\ CatalogTyped
    <2>1. \A x \in Items : Installed(x) => Content(x) \in Contents(x)
        BY DEF CapabilitiesInit
    <2>2. \A x \in Items : files[x] \subseteq IF x = Skill THEN Versions ELSE Contents(x)
        BY <2>1, ItemsAndContents DEF CapabilitiesInit, Named
    <2>3. CurrentIsWhole
        BY DEF CapabilitiesInit, CurrentIsWhole
    <2> QED BY <2>1, <2>2, <2>3 DEF CapabilitiesInit, CatalogTyped
<1>4. RequestsKnown /\ WritesAreWhole
    BY <1>1 DEF CapabilitiesInit, RequestsKnown, WritesAreWhole, At
<1>5. RevokedStaysOff
    BY <1>1 DEF CapabilitiesInit, RevokedStaysOff, WillEnable, At
<1>6. RunsAreFound
    BY <1>1 DEF CapabilitiesInit, RunsAreFound, AtWork
<1> QED BY <1>2, <1>3, <1>4, <1>5, <1>6 DEF CapabilitiesInv

LEMMA CapabilitiesInvariant == CapabilitiesSpec => []CapabilitiesInv
<1> QED BY CapabilitiesInitInv, CapabilitiesStep, PTL DEF CapabilitiesSpec

\* Type correctness of the catalogs, of the changes under way and of the run.
THEOREM CapabilitiesTyping == CapabilitiesSpec => []CapabilitiesTypeOK
<1>1. CapabilitiesInv => CapabilitiesTypeOK
    BY DEF CapabilitiesInv, CapabilitiesTypeOK, HandlersTyped, RunTyped, RunsAreFound, RevokedStaysOff,
           RequestsKnown, At
<1> QED BY <1>1, CapabilitiesInvariant, PTL

\* A revision is written before the file that names it, and is never taken away: whatever
\* crosses, fails or crashes, what a current file names is there.
THEOREM CurrentStaysWhole == CapabilitiesSpec => []CurrentIsWhole
<1>1. CapabilitiesInv => CurrentIsWhole
    BY DEF CapabilitiesInv
<1> QED BY <1>1, CapabilitiesInvariant, PTL

\* What a step may let through or send, as NothingLetThrough says it.
Honoured ==
    /\ LetThrough => Agent \notin revoked /\ (run'.item # Skill => run'.item \notin revoked)
    /\ SendsCall /\ run.item = Skill => Skill \notin revoked
    /\ SendsCall \/ SendsSummary => ~run.told

\* Only Checks lets anything through, and it looks at the flags of that very moment; only
\* Summarizes and Uses send, and they look at what the page cancelled.
LEMMA StepsHonour == CapabilitiesInv /\ [CapabilitiesNext]_vars => Honoured
<1> SUFFICES ASSUME CapabilitiesInv, [CapabilitiesNext]_vars
             PROVE  Honoured
    OBVIOUS
<1>1. run \in RunState
    BY DEF CapabilitiesInv, RunTyped
<1>2. \A y \in revoked : ~Enabled(y)
    BY DEF CapabilitiesInv, RevokedStaysOff
<1>3. ~run.cancelled => ~run.told
    BY DEF CapabilitiesInv, RunsAreFound
<1>4. ASSUME NEW x \in Items, Checks(x)
      PROVE  Honoured
    <2>1. run.pc = "running" /\ run'.item = x /\ run'.summarized = run.summarized /\ Enabled(Agent)
        BY <1>1, <1>4 DEF Checks, RunState
    <2>2. x \in {Agent, Server, Skill} /\ (x # Skill => Enabled(x))
        BY <1>4, <2>1 DEF Items, Checks
    <2> QED BY <1>2, <2>1, <2>2 DEF Honoured, LetThrough, SendsSummary, SendsCall
<1>5. CASE Summarizes
    <2>1. run.pc = "checked" /\ run'.pc = "checked" /\ ~run.cancelled
        BY <1>1, <1>5 DEF Summarizes, RunState
    <2> QED BY <1>3, <2>1 DEF Honoured, LetThrough, SendsSummary, SendsCall
<1>6. CASE Uses
    <2>1. run.pc = "checked" /\ run'.pc = "running" /\ run'.summarized = run.summarized
          /\ ~run.cancelled /\ (run.item = Skill => Enabled(Skill))
        BY <1>1, <1>6 DEF Uses, RunState
    <2> QED BY <1>2, <1>3, <2>1 DEF Honoured, LetThrough, SendsSummary, SendsCall
<1>7. ASSUME run'.pc = run.pc, run'.summarized = run.summarized
      PROVE  Honoured
    BY <1>7 DEF Honoured, LetThrough, SendsSummary, SendsCall
<1>8. ASSUME NEW c \in Clients, Change(c)
      PROVE  Honoured
    <2>1. CASE Cancels(c)
        <3>1. run'.pc = run.pc /\ run'.summarized = run.summarized
            BY <1>1, <2>1 DEF Cancels, RunState
        <3> QED BY <1>7, <3>1
    <2>2. ASSUME UNCHANGED run
          PROVE  Honoured
        BY <1>7, <2>2
    <2> QED BY <1>8, <2>1, <2>2 DEF Change, Asks, ReadsToSwitch, ReadsToBind, ReadsToInstall, ReadsFlag,
               WritesFile, WritesCurrent, Breaks, Goes
<1>9. ASSUME run.pc \notin {"running", "checked"}, ~run'.summarized \/ run'.summarized = run.summarized
      PROVE  Honoured
    BY <1>9 DEF Honoured, LetThrough, SendsSummary, SendsCall
<1>10. ASSUME NEW uses, NEW oneshot, RunBegins(uses, oneshot)
      PROVE  Honoured
    <2>1. run.pc = "none" /\ ~run'.summarized
        BY <1>10 DEF RunBegins, NoRun
    <2> QED BY <1>9, <2>1
<1>11. CASE RunListed \/ Assemble
    <2>1. run.pc \in {"starting", "assembling", "assembled"} /\ run'.summarized = run.summarized
        BY <1>1, <1>11 DEF RunListed, Assemble, RunState
    <2> QED BY <1>9, <2>1
<1>12. CASE RunEnds \/ Crash
    <2>1. run'.pc = "none" /\ ~run'.summarized
        BY <1>12 DEF RunEnds, Crash, NoRun
    <2> QED BY <2>1 DEF Honoured, LetThrough, SendsSummary, SendsCall
<1>13. CASE UNCHANGED vars
    BY <1>7, <1>13 DEF vars
<1> QED BY <1>4, <1>5, <1>6, <1>8, <1>10, <1>11, <1>12, <1>13 DEF CapabilitiesNext, Run

\* Once an item is disabled and nobody asks to enable it again, nothing that needs it is let
\* through, and a run that was told to stop sends nothing, whatever any number of clients
\* save, bind or install at the same time.
THEOREM RevocationHolds == CapabilitiesSpec => NothingLetThrough
<1> QED BY CapabilitiesInvariant, StepsHonour, PTL DEF CapabilitiesSpec, NothingLetThrough, Honoured
=============================================================================
