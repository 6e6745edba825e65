-------------------------------- MODULE Runtime --------------------------------
(***************************************************************************)
(* The life of the server: the supervisor loop (cli/entrypoints.py), the   *)
(* runtime with its startup and shutdown (api/runtime.py, api/app.py), the *)
(* registry of providers (providers/registry.py), the requests that        *)
(* resolve a provider in it (api/dependencies.py), and the admin routes    *)
(* that change the configuration while requests are served.                *)
(*                                                                         *)
(* The configuration is a version number: the managed file has the latest  *)
(* one, and whoever reads it keeps the version it has read.  A provider is *)
(* numbered when it is made, and built from a version.  One action is the  *)
(* code between two awaits; requests read the settings in a thread.        *)
(***************************************************************************)
EXTENDS Naturals, FiniteSets

CONSTANTS
    Requests,       \* requests that use a provider: messages, model lists, tests
    Applies,        \* applications of a changed configuration
    Providers,      \* provider ids
    None,
    MaxMade,        \* bound: providers made
    MaxRestarts     \* bound: restarts of the server

ASSUME RuntimeAssumption ==
    /\ MaxMade \in Nat /\ MaxRestarts \in Nat
    /\ "runtime" \notin Applies
    /\ IsFiniteSet(Applies) /\ IsFiniteSet(Providers)

Cleaners == Applies \cup {"runtime"}
Registries == 1..(1 + MaxRestarts + Cardinality(Applies))

VARIABLES
    server,     \* "down", "validating", "messaging", "up", "stopping", "off"
    restart,    \* restart_requested
    restarts,   \* restarts so far
    file,       \* version of the configuration on disk
    cache,      \* version in the cache of get_settings, or None
    settings,   \* version the runtime was made with
    current,    \* app.state.provider_registry
    own,        \* AppRuntime._provider_registry
    newest,     \* number of registries made
    held,       \* the providers of a registry
    lists,      \* providers whose model list a registry has cached
    made,       \* number of providers made
    open,       \* providers that are not closed
    built,      \* the version a provider was built from
    pid,        \* the id of a provider
    task,       \* the refresh started by the runtime: "none", "created", "listing", "done"
    phase,      \* of a request: "none", "reading", "read", "using", "done"
    version,    \* the version a request has read
    uses,       \* the registry and the provider of a request
    job,        \* of a cleaner: "idle", "joining", "closing", "done"
    target,     \* the registry it cleans
    todo,       \* the providers it has still to close
    touched,    \* history: registries that an apply cleans or has installed
    raced       \* history: a configuration was applied while a request or another
                \* apply was under way, or a clean-up ran out of time

cfgVars == <<file, cache>>
srvVars == <<server, restart, restarts, settings, own>>
regVars == <<newest, held, lists>>
prvVars == <<made, open, built, pid>>
reqVars == <<phase, version, uses>>
jobVars == <<job, target, todo>>
vars == <<cfgVars, srvVars, current, regVars, prvVars, task, reqVars, jobVars,
          touched, raced>>

Init ==
    /\ server = "down" /\ restart = FALSE /\ restarts = 0 /\ settings = 0
    /\ file = 1 /\ cache = None
    /\ current = 0 /\ own = 0 /\ newest = 0
    /\ held = [r \in Registries |-> {}] /\ lists = [r \in Registries |-> {}]
    /\ made = 0 /\ open = {}
    /\ built = [i \in 1..MaxMade |-> 0] /\ pid = [i \in 1..MaxMade |-> None]
    /\ task = "none"
    /\ phase = [q \in Requests |-> "none"] /\ version = [q \in Requests |-> 0]
    /\ uses = [q \in Requests |-> <<0, 0>>]
    /\ job = [c \in Cleaners |-> "idle"] /\ target = [c \in Cleaners |-> 0]
    /\ todo = [c \in Cleaners |-> {}]
    /\ touched = {} /\ raced = FALSE

-----------------------------------------------------------------------------
(***************************************************************************)
(* The registry.                                                           *)
(***************************************************************************)

HasProvider(r, p) == \E i \in held[r] : pid[i] = p
ProviderOf(r, p) == CHOOSE i \in held[r] : pid[i] = p

\* ProviderRegistry.get for every id in P, with the settings of version v.
Missing(r, P) == {p \in P : ~HasProvider(r, p)}

GetAll(r, P, v) ==
    LET n == Cardinality(Missing(r, P))
    IN /\ made + n <= MaxMade
       /\ made' = made + n
       /\ open' = open \cup (made + 1)..(made + n)
       /\ built' = [i \in 1..MaxMade |-> IF i \in (made + 1)..(made + n) THEN v ELSE built[i]]
       /\ \E f \in [(made + 1)..(made + n) -> Missing(r, P)] :
             /\ \A i, j \in DOMAIN f : f[i] = f[j] => i = j
             /\ pid' = [i \in 1..MaxMade |-> IF i \in DOMAIN f THEN f[i] ELSE pid[i]]
       /\ held' = [held EXCEPT ![r] = @ \cup (made + 1)..(made + n)]

\* The refresh that the runtime started is cancelled and awaited first.
CleanupBegins(c, r) ==
    /\ job' = [job EXCEPT ![c] =
          IF r = own /\ task \in {"created", "listing"} THEN "joining" ELSE "closing"]
    /\ target' = [target EXCEPT ![c] = r]
    /\ todo' = [todo EXCEPT ![c] = held[r]]

Joined(c) ==
    /\ job[c] = "joining"
    /\ task' = "done"
    /\ job' = [job EXCEPT ![c] = "closing"]
    /\ todo' = [todo EXCEPT ![c] = held[target[c]]]
    /\ UNCHANGED <<cfgVars, srvVars, current, regVars, prvVars, reqVars, target,
                   touched, raced>>

CloseOne(c) ==
    /\ job[c] = "closing"
    /\ \E i \in todo[c] :
          /\ todo' = [todo EXCEPT ![c] = @ \ {i}]
          /\ open' = open \ {i}
    /\ UNCHANGED <<cfgVars, srvVars, current, regVars, made, built, pid, task, reqVars,
                   job, target, touched, raced>>

Cleared(r) ==
    /\ held' = [held EXCEPT ![r] = {}]
    /\ lists' = [lists EXCEPT ![r] = {}]

-----------------------------------------------------------------------------
(***************************************************************************)
(* Start and end of the server.                                            *)
(***************************************************************************)

\* serve: get_settings, a new application with its runtime and registry; the
\* providers of the configured models are made where that is possible.
Start ==
    /\ server = "down"
    /\ server' = "validating"
    /\ LET fresh == IF cache = None THEN file ELSE cache
       IN /\ cache' = fresh /\ settings' = fresh
          /\ \E P \in SUBSET Providers : GetAll(newest + 1, P, fresh)
    /\ newest' = newest + 1 /\ current' = newest + 1 /\ own' = newest + 1
    /\ task' = "none" /\ restart' = FALSE
    /\ UNCHANGED <<restarts, file, lists, reqVars, jobVars, touched, raced>>

\* Their model lists arrive or fail; then a refresh of what is missing is started.
Validated ==
    /\ server = "validating"
    /\ \E P \in SUBSET {pid[i] : i \in held[own]} :
          /\ lists' = [lists EXCEPT ![own] = P]
          /\ task' = IF P = Providers THEN "none" ELSE "created"
    /\ server' = "messaging"
    /\ UNCHANGED <<cfgVars, restart, restarts, settings, own, current, newest, held,
                   prvVars, reqVars, jobVars, touched, raced>>

RefreshBegins ==
    /\ task = "created" /\ \A c \in Cleaners : job[c] # "joining"
    /\ task' = "listing"
    /\ \E P \in SUBSET (Providers \ lists[own]) : GetAll(own, P, settings)
    /\ UNCHANGED <<cfgVars, srvVars, current, newest, lists, reqVars, jobVars, touched, raced>>

\* A failed messaging platform does not stop the server.  The refresh has begun:
\* its first step was scheduled before anything a client could send.
Serving ==
    /\ server = "messaging" /\ task # "created"
    /\ server' = "up"
    /\ UNCHANGED <<cfgVars, restart, restarts, settings, own, current, regVars, prvVars,
                   task, reqVars, jobVars, touched, raced>>

\* An unexpected error ends the startup: the registry is cleaned.
StartupFails ==
    /\ server \in {"validating", "messaging"}
    /\ server' = "stopping"
    /\ CleanupBegins("runtime", own)
    /\ UNCHANGED <<cfgVars, restart, restarts, settings, own, current, regVars, prvVars,
                   task, reqVars, touched, raced>>

RefreshEnds ==
    /\ task = "listing" /\ \A c \in Cleaners : job[c] # "joining"
    /\ task' = "done"
    /\ \E P \in SUBSET Providers : lists' = [lists EXCEPT ![own] = @ \cup P]
    /\ UNCHANGED <<cfgVars, srvVars, current, newest, held, prvVars, reqVars, jobVars,
                   touched, raced>>

\* An interrupt, or the restart that an apply asked for.  The server lets requests
\* end, and cancels them after five seconds: an apply that is cancelled while it
\* closes providers clears the registry all the same.
Cut == {target[a] : a \in {b \in Applies : job[b] = "closing"}}

Stop ==
    /\ server = "up"
    /\ server' = "stopping"
    /\ phase' = [q \in Requests |-> IF phase[q] = "none" THEN "none" ELSE "done"]
    /\ LET h == [r \in Registries |-> IF r \in Cut THEN {} ELSE held[r]]
       IN /\ held' = h
          /\ todo' = [c \in Cleaners |-> IF c = "runtime" THEN h[own] ELSE {}]
    /\ lists' = [r \in Registries |-> IF r \in Cut THEN {} ELSE lists[r]]
    /\ job' = [c \in Cleaners |->
          IF c = "runtime" THEN IF task \in {"created", "listing"} THEN "joining" ELSE "closing"
          ELSE IF job[c] = "idle" THEN "idle" ELSE "done"]
    /\ target' = [target EXCEPT !["runtime"] = own]
    /\ UNCHANGED <<cfgVars, restart, restarts, settings, own, current, newest, prvVars,
                   task, version, uses, touched, raced>>

\* serve clears the cache of the settings before the next server.
\* Defect: it does not.
AfterServerDefect == cache
AfterServer == None

\* Defect: the clean-up ends at the first provider that fails.
StoppedDefect(late) ==
    /\ server = "stopping" /\ job["runtime"] = "closing"
    /\ Cleared(target["runtime"])
    /\ job' = [job EXCEPT !["runtime"] = "idle"]
    /\ todo' = [todo EXCEPT !["runtime"] = {}]
    /\ server' = "off" /\ cache' = AfterServer
    /\ raced' = (raced \/ late)
    /\ UNCHANGED <<restarts, file, restart, settings, own, current, newest, prvVars, task,
                   reqVars, target, touched>>

\* The runtime's clean-up is over, or its five seconds are.
Stopped(late) ==
    /\ server = "stopping" /\ job["runtime"] = "closing"
    /\ late \/ todo["runtime"] = {}
    /\ Cleared(target["runtime"])
    /\ job' = [job EXCEPT !["runtime"] = "idle"]
    /\ todo' = [todo EXCEPT !["runtime"] = {}]
    /\ server' = IF restart /\ restarts < MaxRestarts THEN "down" ELSE "off"
    /\ restarts' = IF restart /\ restarts < MaxRestarts THEN restarts + 1 ELSE restarts
    /\ cache' = AfterServer
    /\ raced' = (raced \/ late)
    /\ UNCHANGED <<file, restart, settings, own, current, newest, prvVars, task,
                   reqVars, target, touched>>

-----------------------------------------------------------------------------
(***************************************************************************)
(* Requests.                                                               *)
(***************************************************************************)

\* get_settings in a thread: what is cached, or the file is read.
Read(q) ==
    /\ server = "up" /\ phase[q] = "none"
    /\ phase' = [phase EXCEPT ![q] = IF cache = None THEN "reading" ELSE "read"]
    /\ version' = [version EXCEPT ![q] = IF cache = None THEN file ELSE cache]
    /\ UNCHANGED <<cfgVars, srvVars, current, regVars, prvVars, task, uses, jobVars,
                   touched, raced>>

\* The thread stores what it has read.
ReadEnds(q) ==
    /\ phase[q] = "reading"
    /\ cache' = version[q]
    /\ phase' = [phase EXCEPT ![q] = "read"]
    /\ UNCHANGED <<file, srvVars, current, regVars, prvVars, task, version, uses,
                   jobVars, touched, raced>>

\* resolve_provider with the registry of the application.
Resolve(q) ==
    /\ phase[q] = "read"
    /\ \E p \in Providers :
          /\ GetAll(current, {p}, version[q])
          /\ uses' = [uses EXCEPT ![q] =
                <<current, IF HasProvider(current, p) THEN ProviderOf(current, p) ELSE made + 1>>]
    /\ phase' = [phase EXCEPT ![q] = "using"]
    /\ UNCHANGED <<cfgVars, srvVars, current, newest, lists, task, version, jobVars,
                   touched, raced>>

\* A test of a provider and a refresh cache the model list where they found the
\* provider.
Finish(q, listed) ==
    /\ phase[q] = "using"
    /\ phase' = [phase EXCEPT ![q] = "done"]
    /\ lists' = IF listed THEN [lists EXCEPT ![uses[q][1]] = @ \cup {pid[uses[q][2]]}]
                ELSE lists
    /\ UNCHANGED <<cfgVars, srvVars, current, newest, held, prvVars, task, version, uses,
                   jobVars, touched, raced>>

-----------------------------------------------------------------------------
(***************************************************************************)
(* apply_admin_config.                                                     *)
(***************************************************************************)

UnderWay ==
    \/ \E q \in Requests : phase[q] \in {"reading", "read"}
    \/ \E a \in Applies : job[a] \notin {"idle", "done"}

\* The file is written and the cache of the settings cleared; fields that need a
\* restart make the server exit after the response.  Else the registry is cleaned.
Apply(a, needsRestart) ==
    /\ server = "up" /\ job[a] = "idle"
    /\ file' = file + 1
    /\ cache' = None
    /\ raced' = (raced \/ UnderWay)
    /\ IF needsRestart
       THEN /\ restart' = TRUE
            /\ job' = [job EXCEPT ![a] = "done"]
            /\ UNCHANGED <<target, todo, touched>>
       ELSE /\ CleanupBegins(a, current)
            /\ touched' = touched \cup {current}
            /\ UNCHANGED restart
    /\ UNCHANGED <<server, restarts, settings, own, current, regVars, prvVars, task,
                   reqVars>>

\* Defect: the cleaned registry stays.
InstalledDefect(a, failed) ==
    /\ job[a] = "closing" /\ todo[a] = {}
    /\ job' = [job EXCEPT ![a] = "done"]
    /\ UNCHANGED <<cfgVars, srvVars, current, regVars, prvVars, task, reqVars, target,
                   todo, touched, raced>>

\* A provider that could not be closed fails the apply: the emptied registry stays.
Installed(a, failed) ==
    /\ job[a] = "closing" /\ todo[a] = {}
    /\ Cleared(target[a])
    /\ IF failed
       THEN UNCHANGED <<newest, current, touched>>
       ELSE /\ newest' = newest + 1
            /\ current' = newest + 1
            /\ touched' = touched \cup {newest + 1}
    /\ job' = [job EXCEPT ![a] = "done"]
    /\ UNCHANGED <<cfgVars, srvVars, prvVars, task, reqVars, target, todo, raced>>

-----------------------------------------------------------------------------
Cleaning(c) == Joined(c) \/ CloseOne(c)

ServerStep ==
    \/ Start \/ Validated \/ Serving \/ RefreshBegins \/ RefreshEnds \/ Cleaning("runtime")
    \/ \E late \in BOOLEAN : Stopped(late)

RequestStep(q) ==
    \/ ReadEnds(q) \/ Resolve(q)
    \/ \E listed \in BOOLEAN : Finish(q, listed)

Next ==
    \/ ServerStep \/ StartupFails \/ Stop
    \/ \E q \in Requests : Read(q) \/ RequestStep(q)
    \/ \E a \in Applies : Cleaning(a) \/ \E b \in BOOLEAN : Installed(a, b) \/ Apply(a, b)

Spec == Init /\ [][Next]_vars

\* The event loop runs what is ready; a server that is asked to restart stops.
FairSpec ==
    /\ Spec
    /\ WF_vars(ServerStep)
    /\ WF_vars(Stop /\ restart)

-----------------------------------------------------------------------------
(***************************************************************************)
(* Properties                                                              *)
(***************************************************************************)

\* After the server has gone, no provider is left open, unless a configuration was
\* applied while it ran or the clean-up took too long: validation, the refresh that
\* is cancelled, tests and requests leave nothing behind ("Call ``cleanup`` on every
\* cached provider, then clear the cache").
NothingOpen == server = "off" /\ touched = {} /\ ~raced => open = {}

\* A configuration that was applied while no request stood between reading the
\* settings and resolving its provider is in effect when the apply is over: whatever
\* provider the registry holds was built from what is on disk.
InEffect ==
    server = "up" /\ ~raced /\ ~restart /\ (\A a \in Applies : job[a] \in {"idle", "done"})
        => /\ cache \in {None, file}
           /\ \A i \in held[current] : built[i] = file

\* A change that needs a restart is in effect after it.
RestartWorks ==
    \A n \in 2..(1 + Cardinality(Applies)) :
        restart /\ file = n /\ restarts < MaxRestarts
            ~> server = "off" \/ (server = "up" /\ settings >= n)
=============================================================================
