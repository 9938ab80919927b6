---------------------------- MODULE Capabilities ----------------------------
(***************************************************************************)
(* What an assistant may use and how it is taken away: the catalog of      *)
(* agents (agents.py), the store of MCP servers (agent_runtime.py) and the *)
(* library of skills (skills.py), as web_runs.py and the command line call *)
(* them, and the checks of a run.  Each item has immutable files of its    *)
(* revisions and one small file that is replaced as a whole and names the  *)
(* current revision and whether the item is enabled; every change reads it *)
(* and writes it back, and no lock is held meanwhile.  A skill's versions  *)
(* and its flag are in one index.  The MCP protocol itself is left out.    *)
(***************************************************************************)
EXTENDS Naturals

CONSTANTS Agent, Server, Skill,  \* one item of each kind
          Versions,              \* revisions of the server and of the skill
          Clients, None,
          MaxChanges             \* bound: changes asked for

Items == {Agent, Server, Skill}

\* A revision of the agent is what it binds; a server has one version, a skill a set.
Contents(x) == CASE x = Agent -> SUBSET {Server, Skill}
                 [] x = Server -> {{v} : v \in Versions}
                 [] x = Skill -> SUBSET Versions

\* What a current file holds.
Entries == [content : UNION {Contents(x) : x \in Items}, enabled : BOOLEAN]

\* What a change does.
Tasks == {"save", "install", "bind", "enable", "disable"}

ASSUME CapabilitiesAssumption ==
    /\ Agent # Server /\ Agent # Skill /\ Server # Skill
    /\ None \notin Items \cup Entries \cup Tasks
    /\ MaxChanges \in Nat

VARIABLES current,  \* current.json of agent and server, library.json of the skill
          files,    \* the revisions that have a file
          handler,  \* what each HTTP request or command is doing
          run,      \* the one run
          changes,  \* changes asked for so far
          revoked   \* history: items disabled while no other change was half done

vars == <<current, files, handler, run, changes, revoked>>

Idle == [pc |-> "idle", task |-> None, item |-> None, content |-> {}, enabled |-> TRUE]
NoRun == [pc |-> "none", oneshot |-> FALSE, uses |-> {}, listed |-> FALSE, item |-> None,
          summarized |-> FALSE, cancelled |-> FALSE, told |-> FALSE]

-----------------------------------------------------------------------------
Installed(x) == current[x] # None

\* AgentCatalog.get, is_enabled, server_enabled: without a file the built-in agent, enabled.
Content(x) == IF Installed(x) THEN current[x].content ELSE {}
Enabled(x) == Installed(x) => current[x].enabled

\* The files a current file of x with this content names: a revision, or packages.
Named(x, content) == IF x = Skill THEN content ELSE {content}

\* What earlier changes left: every item is there or not, enabled or not.
CapabilitiesInit ==
    /\ current \in [Items -> Entries \cup {None}]
    /\ \A x \in Items : Installed(x) => Content(x) \in Contents(x) /\ (x = Skill => Content(x) # {})
    /\ files = [x \in Items |-> IF Installed(x) THEN Named(x, Content(x)) ELSE {}]
    /\ handler = [c \in Clients |-> Idle]
    /\ run = NoRun
    /\ changes = 0
    /\ revoked = {x \in Items : ~Enabled(x)}

-----------------------------------------------------------------------------
(* Changes: POST requests and commands of the same names.                  *)

At(c, pc) == handler[c].pc = pc

\* What the request brings: save and install_server the content, install of a skill one
\* version, a bind one capability; enable and disable nothing.
Brings(task, x) ==
    CASE task \in {"enable", "disable"} -> {{}}
      [] task = "save" -> IF x = Skill THEN {} ELSE Contents(x)
      [] task = "install" -> IF x = Skill THEN {{v} : v \in Versions} ELSE {}
      [] task = "bind" -> IF x = Agent THEN {{Server}, {Skill}} ELSE {}

\* save and install_server read the flag first, the others what is there.  Who asks to
\* enable an item takes back that it was disabled.
Asks(c, task, x, content) ==
    /\ At(c, "idle") /\ changes < MaxChanges
    /\ content \in Brings(task, x)
    /\ handler' = [handler EXCEPT ![c] = [pc |-> IF task = "save" THEN "flag" ELSE "content",
                      task |-> task, item |-> x, content |-> content, enabled |-> task = "enable"]]
    /\ changes' = changes + 1
    /\ revoked' = IF task = "enable" THEN revoked \ {x} ELSE revoked
    /\ UNCHANGED <<current, files, run>>

\* The change goes on with h, or is refused.
Goes(c, h) ==
    /\ handler' = [handler EXCEPT ![c] = h]
    /\ UNCHANGED <<current, files, run, changes, revoked>>

\* set_enabled, set_server_enabled: the item as it is, to be written with the new flag;
\* only the agent's file is written again.
ReadsToSwitch(c) ==
    LET h == handler[c] IN
    /\ At(c, "content") /\ h.task \in {"enable", "disable"}
    /\ Goes(c, IF h.item = Agent \/ Installed(h.item)
               THEN [h EXCEPT !.pc = IF h.item = Agent THEN "file" ELSE "current",
                              !.content = Content(h.item)]
               ELSE Idle)

\* bind: the agent and the capability, which is there and enabled; the rest is save.
ReadsToBind(c) ==
    LET h == handler[c] IN
    /\ At(c, "content") /\ h.task = "bind"
    /\ Goes(c, IF \A x \in h.content : Installed(x) /\ Enabled(x)
               THEN [h EXCEPT !.pc = "flag", !.content = @ \cup Content(Agent)]
               ELSE Idle)

\* install: the index, which is written back with the new version; a known version is
\* answered at once.
ReadsToInstall(c) ==
    LET h == handler[c] IN
    /\ At(c, "content") /\ h.task = "install"
    /\ Goes(c, IF h.content \subseteq Content(Skill) THEN Idle
               ELSE [h EXCEPT !.pc = "file", !.content = @ \cup Content(Skill),
                              !.enabled = Enabled(Skill)])

\* Mutant of ReadsFlag: what is saved is enabled.
ReadsFlagAsTrue(c) ==
    /\ At(c, "flag")
    /\ Goes(c, [handler[c] EXCEPT !.pc = "file", !.enabled = TRUE])

ReadsFlag(c) ==
    /\ At(c, "flag")
    /\ Goes(c, [handler[c] EXCEPT !.pc = "file", !.enabled = Enabled(handler[c].item)])

\* Mutant of WritesFile: the current file is written before the file it names.
WritesFileLast(c) ==
    /\ At(c, "file")
    /\ Goes(c, [handler[c] EXCEPT !.pc = "current"])

WritesFile(c) ==
    LET h == handler[c] IN
    /\ At(c, "file")
    /\ files' = [files EXCEPT ![h.item] = @ \cup Named(h.item, h.content)]
    /\ handler' = [handler EXCEPT ![c].pc = "current"]
    /\ UNCHANGED <<current, run, changes, revoked>>

\* Somebody else who will still write x as enabled, from what he read or was told.
Crossing(c, x) ==
    \E d \in Clients \ {c} :
       /\ ~At(d, "idle") /\ handler[d].item = x /\ handler[d].enabled
       /\ handler[d].task = "enable" \/ handler[d].pc \in {"file", "current"}

\* os.replace of the current file; the page then cancels runs if the item is disabled.
WritesCurrent(c) ==
    LET h == handler[c] IN
    /\ At(c, "current")
    /\ current' = [current EXCEPT ![h.item] = [content |-> h.content, enabled |-> h.enabled]]
    /\ revoked' = IF h.task = "disable" /\ ~Crossing(c, h.item) THEN revoked \cup {h.item} ELSE revoked
    /\ handler' = [handler EXCEPT ![c] = IF h.task = "disable" THEN [Idle EXCEPT !.pc = "cancel", !.item = h.item]
                                         ELSE Idle]
    /\ UNCHANGED <<files, run, changes>>

\* A write fails, and what is written stays; or it was the command line, which knows of
\* no runs and stops before "cancel".
Breaks(c) ==
    /\ handler[c].pc \in {"file", "current", "cancel"}
    /\ Goes(c, Idle)

Affected(x) == x = Agent \/ x \in run.uses

\* Under runs.lock the jobs that use the item are cancelled; then the answer.
Cancels(c) ==
    LET x == handler[c].item IN
    /\ At(c, "cancel") /\ run.pc # "starting"
    /\ run' = [run EXCEPT !.cancelled = @ \/ (run.listed /\ Affected(x)),
                          !.told = @ \/ (run.pc # "none" /\ ~run.oneshot /\ Affected(x))]
    /\ handler' = [handler EXCEPT ![c] = Idle]
    /\ UNCHANGED <<current, files, changes, revoked>>

-----------------------------------------------------------------------------
(* The run.  A session keeps the revision it was created with.             *)

\* start_session_run looks at the agent under the lock; a one-shot run is assembled
\* before it takes the lock, and assemble is the first to look.
RunBegins(uses, oneshot) ==
    /\ run.pc = "none" /\ (oneshot \/ Enabled(Agent))
    /\ uses \in files[Agent] \cup {{}}
    /\ oneshot => uses = Content(Agent)
    /\ run' = [NoRun EXCEPT !.pc = IF oneshot THEN "assembling" ELSE "starting",
                            !.oneshot = oneshot, !.uses = uses]
    /\ UNCHANGED <<current, files, handler, changes, revoked>>

\* Mutant of RunListed: the job of a session is never listed.
RunUnlisted ==
    /\ run.pc \in {"starting", "assembled"}
    /\ run' = [run EXCEPT !.listed = run.oneshot, !.pc = IF run.oneshot THEN "running" ELSE "assembling"]
    /\ UNCHANGED <<current, files, handler, changes, revoked>>

\* The job is in the list before the lock is released.
RunListed ==
    /\ run.pc \in {"starting", "assembled"}
    /\ run' = [run EXCEPT !.listed = TRUE, !.pc = IF run.oneshot THEN "running" ELSE "assembling"]
    /\ UNCHANGED <<current, files, handler, changes, revoked>>

\* connect: the server of a binding is there and enabled.
Connectable == Server \in run.uses => Installed(Server) /\ Enabled(Server)

\* assemble: the agent is enabled and its servers answer; a skill that is not ready is left out.
Assemble ==
    /\ run.pc = "assembling" /\ Enabled(Agent) /\ Connectable
    /\ run' = [run EXCEPT !.pc = IF run.oneshot THEN "assembled" ELSE "running"]
    /\ UNCHANGED <<current, files, handler, changes, revoked>>

\* What a call of x goes to: a bound item, or, for the agent itself, a model request, a
\* file tool or a write.
Callable(x) == x \in run.uses \cup {Agent}

\* before reads the flags for a call, model_request that of the agent for a request; the
\* cancellation is looked at again by what follows.
Checks(x) ==
    /\ run.pc = "running" /\ Callable(x)
    /\ Enabled(Agent) /\ (x = Server => Enabled(Server))
    /\ run' = [run EXCEPT !.pc = "checked", !.item = x]
    /\ UNCHANGED <<current, files, handler, changes, revoked>>

\* _build_request may ask the model for a summary first, once in a run of a session;
\* complete_request looks at the cancellation only.
Summarizes ==
    /\ run.pc = "checked" /\ run.item = Agent
    /\ ~run.oneshot /\ ~run.summarized /\ ~run.cancelled
    /\ run' = [run EXCEPT !.summarized = TRUE]
    /\ UNCHANGED <<current, files, handler, changes, revoked>>

\* The request or the call goes out, and its answer comes back: complete_request,
\* bounded_call and commit look at the cancellation again, none at a flag that was read
\* before the summary or, for a write, before the approval.  A skill is looked up
\* (resolve, read) only now.
Uses ==
    /\ run.pc = "checked" /\ ~run.cancelled
    /\ run.item = Skill => Installed(Skill) /\ Enabled(Skill)
    /\ run' = [run EXCEPT !.pc = "running", !.item = None]
    /\ UNCHANGED <<current, files, handler, changes, revoked>>

\* Stopped at a check, by a cancellation, finished, or not assembled.
RunEnds ==
    /\ run.pc # "none"
    /\ run' = NoRun
    /\ UNCHANGED <<current, files, handler, changes, revoked>>

Crash ==
    /\ handler' = [c \in Clients |-> Idle]
    /\ run' = NoRun
    /\ UNCHANGED <<current, files, changes, revoked>>

-----------------------------------------------------------------------------
Change(c) ==
    \/ \E task \in Tasks, x \in Items : \E content \in Brings(task, x) : Asks(c, task, x, content)
    \/ ReadsToSwitch(c) \/ ReadsToBind(c) \/ ReadsToInstall(c) \/ ReadsFlag(c)
    \/ WritesFile(c) \/ WritesCurrent(c) \/ Breaks(c) \/ Cancels(c)

Run ==
    \/ \E uses \in Contents(Agent), oneshot \in BOOLEAN : RunBegins(uses, oneshot)
    \/ RunListed \/ Assemble \/ RunEnds
    \/ (\E x \in Items : Checks(x)) \/ Summarizes \/ Uses

CapabilitiesNext == Run \/ Crash \/ \E c \in Clients : Change(c)

CapabilitiesSpec == CapabilitiesInit /\ [][CapabilitiesNext]_vars

-----------------------------------------------------------------------------
CatalogTyped ==
    /\ current \in [Items -> Entries \cup {None}]
    /\ \A x \in Items : Installed(x) => Content(x) \in Contents(x)
    /\ DOMAIN files = Items
    /\ \A x \in Items : files[x] \subseteq IF x = Skill THEN Versions ELSE Contents(x)

HandlerState ==
    [pc : {"idle", "flag", "content", "file", "current", "cancel"}, task : Tasks \cup {None},
     item : Items \cup {None}, content : SUBSET (Versions \cup Items), enabled : BOOLEAN]

RunState ==
    [pc : {"none", "starting", "assembling", "assembled", "running", "checked"},
     oneshot : BOOLEAN, uses : SUBSET {Server, Skill}, listed : BOOLEAN,
     item : Items \cup {None}, summarized : BOOLEAN, cancelled : BOOLEAN, told : BOOLEAN]

AtWork == run.pc \in {"running", "checked"}

\* Type invariant.
CapabilitiesTypeOK ==
    /\ CatalogTyped
    /\ handler \in [Clients -> HandlerState]
    /\ \A c \in Clients : ~At(c, "idle") => handler[c].item \in Items
    /\ run \in RunState
    /\ AtWork => run.listed /\ (run.pc = "checked" => run.item \in Items)
    /\ revoked \subseteq Items

\* Whatever crosses, fails or crashes, what a current file names is there to be read:
\* no item is lost to its users by a half-done change.
CurrentIsWhole == \A x \in Items : Installed(x) => Named(x, Content(x)) \subseteq files[x]

LetThrough == run.pc = "running" /\ run'.pc = "checked"
SendsSummary == run'.summarized /\ ~run.summarized
SendsCall == run.pc = "checked" /\ run'.pc = "running"

\* After an item is disabled, and until somebody asks to enable it again, no call and no
\* model request that needs it is let through any more, whatever is saved, bound or
\* installed at the same time: what still goes out is the one call or request, with at
\* most its summary, that was let through before.  A disabled skill is not read even by
\* that one, and a run that the page found and stopped sends nothing at all.  (Design:
\* "disabling or revoking a capability globally stops new calls at once and cancels the
\* runs it affects"; for the "at once" see StopsAtOnce.)  An item whose flag another
\* change had read before is not revoked by this: it is written back as enabled (see the
\* README); the runs of sessions that were there stay stopped even so.
NothingLetThrough ==
    [][/\ LetThrough => Agent \notin revoked /\ (run'.item # Skill => run'.item \notin revoked)
       /\ SendsCall /\ run.item = Skill => Skill \notin revoked
       /\ SendsCall \/ SendsSummary => ~run.told]_vars

\* What the design says in so many words: nothing goes out for an item that is disabled.
\* The code does not keep it, and no run checks it: a disable from the command line during
\* the summary, or during the approval of a write, comes after the flag was read, and so
\* does one from the page until it has cancelled the run (see the README).
StopsAtOnce ==
    [][SendsCall \/ SendsSummary => {Agent, run.item} \cap revoked = {}]_vars
=============================================================================
