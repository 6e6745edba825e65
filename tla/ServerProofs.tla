----------------------------- MODULE ServerProofs -----------------------------
(***************************************************************************)
(* Proofs about the server and its configuration.                          *)
(*                                                                         *)
(* Runtime: what the server leaves open when it has gone, and which        *)
(* configuration it serves with.  The inductive invariant has five parts:  *)
(* the values of the variables; the order of the stages (who can be under  *)
(* way in which of them); the number of registries, which bounds the       *)
(* newest one; where the open providers are while no apply has touched a   *)
(* registry; and from which version the providers that the server offers   *)
(* were built.                                                             *)
(*                                                                         *)
(* AdminConfig and Gateway: that a save changes what it was asked to       *)
(* change, that a listed id keeps its model, and where a fetch may go.     *)
(***************************************************************************)
EXTENDS Runtime, Gateway, FiniteSetTheorems, SequenceTheorems, TLAPS

Stages == {"down", "validating", "messaging", "up", "stopping", "off"}
Phases == {"none", "reading", "read", "using", "done"}
Jobs == {"idle", "joining", "closing", "done"}
Busy(c) == job[c] \in {"joining", "closing"}

Values ==
    /\ server \in Stages /\ restart \in BOOLEAN /\ restarts \in 0..MaxRestarts
    /\ file \in Nat /\ cache \in Nat \cup {None} /\ settings \in Nat
    /\ newest \in Nat /\ current \in 0..newest /\ own \in 0..newest
    /\ made \in 0..MaxMade /\ open \in SUBSET (1..made)
    /\ held \in [Registries -> SUBSET (1..made)]
    /\ built \in [1..MaxMade -> Nat]
    /\ task \in {"none", "created", "listing", "done"}
    /\ phase \in [Requests -> Phases] /\ version \in [Requests -> Nat]
    /\ job \in [Cleaners -> Jobs] /\ target \in [Cleaners -> Nat]
    /\ todo \in [Cleaners -> SUBSET (1..made)]
    /\ raced \in BOOLEAN

\* Requests and applies are under way only in a server that is up, the clean-up of
\* the runtime only in one that is stopping, and it has no refresh beside it.
Staged ==
    /\ server # "up" =>
          /\ \A q \in Requests : phase[q] \in {"none", "done"}
          /\ \A a \in Applies : ~Busy(a)
    /\ server = "stopping" => Busy("runtime") /\ target["runtime"] = own
    /\ server # "stopping" => job["runtime"] = "idle"
    /\ server = "validating" => task = "none"
    /\ task = "created" =>
          server = "messaging" \/ (server = "stopping" /\ job["runtime"] = "joining")
    /\ job["runtime"] = "closing" => task \in {"none", "done"}
    /\ server = "down" => cache = None

Over == {a \in Applies : job[a] = "done"}

Counted ==
    /\ newest <= restarts + (IF server = "down" THEN 0 ELSE 1) + Cardinality(Over)
    /\ server # "down" => own \in Registries /\ current \in Registries
    /\ \A c \in Cleaners : Busy(c) => target[c] \in Registries
    /\ \A r \in Registries : r > newest => held[r] = {}

\* Until an apply touches a registry, what is open is in the runtime's own, and
\* in what its clean-up has still to close.
Where ==
    touched = {} /\ ~raced =>
        /\ current = own
        /\ \A a \in Applies : ~Busy(a)
        /\ server \in {"validating", "messaging", "up"} => open \subseteq held[own]
        /\ job["runtime"] = "joining" => open \subseteq held[own]
        /\ job["runtime"] = "closing" => open \subseteq todo["runtime"]
        /\ server \in {"down", "off"} => open = {}

Built(r) == \A i \in held[r] : built[i] = file

Versions ==
    /\ server \in {"validating", "messaging"} =>
          current = own /\ cache = file /\ settings = file /\ Built(own)
    /\ server = "up" /\ ~raced /\ ~restart =>
          /\ cache \in {None, file}
          /\ \A q \in Requests : phase[q] \in {"reading", "read"} => version[q] = file
          /\ \A a, b \in Applies : Busy(a) /\ Busy(b) => a = b
          /\ \A a \in Applies : Busy(a) => target[a] = current
          /\ (\A a \in Applies : ~Busy(a)) => Built(current)

RuntimeInv == Values /\ Staged /\ Counted /\ Where /\ Versions

-----------------------------------------------------------------------------
(***************************************************************************)
(* Lemmas about the registries.                                            *)
(***************************************************************************)

\* There are finitely many applies, and the registries number one more than the
\* restarts and the applies together.
LEMMA Finite ==
    /\ Cardinality(Applies) \in Nat
    /\ \A S \in SUBSET Applies : Cardinality(S) \in 0..Cardinality(Applies)
    /\ \A S, T \in SUBSET Applies : S \subseteq T => Cardinality(S) <= Cardinality(T)
<1>1. \A S \in SUBSET Applies : IsFiniteSet(S) /\ Cardinality(S) <= Cardinality(Applies)
  BY FS_Subset, RuntimeAssumption
<1>2. \A S \in SUBSET Applies : Cardinality(S) \in Nat
  BY <1>1, FS_CardinalityType
<1>3. ASSUME NEW S \in SUBSET Applies, NEW T \in SUBSET Applies, S \subseteq T
      PROVE  Cardinality(S) <= Cardinality(T)
  BY <1>1, <1>3, FS_Subset
<1> QED BY <1>1, <1>2, <1>3

\* What GetAll does to the providers: those it makes have new numbers, the registry
\* r holds them, and they are built from the version v.
Grown(r, v) ==
    /\ made' \in 0..MaxMade /\ made <= made'
    /\ open' = open \cup (made + 1)..made'
    /\ built' \in [1..MaxMade -> Nat]
    /\ \A i \in 1..made : built'[i] = built[i]
    /\ \A i \in (made + 1)..made' : built'[i] = v
    /\ held' = [held EXCEPT ![r] = @ \cup (made + 1)..made']

\* ProviderRegistry.get adds providers to one registry and disturbs no other.
LEMMA GetAllFacts ==
    ASSUME Values, NEW r, NEW P \in SUBSET Providers, NEW v \in Nat, GetAll(r, P, v)
    PROVE  Grown(r, v)
<1> DEFINE n == Cardinality(Missing(r, P))
<1>1. n \in Nat
  <2>1. IsFiniteSet(Missing(r, P))
    BY FS_Subset, RuntimeAssumption DEF Missing
  <2> QED BY <2>1, FS_CardinalityType
<1>2. /\ made + n <= MaxMade /\ made' = made + n
      /\ open' = open \cup (made + 1)..(made + n)
      /\ built' = [i \in 1..MaxMade |-> IF i \in (made + 1)..(made + n) THEN v ELSE built[i]]
      /\ held' = [held EXCEPT ![r] = @ \cup (made + 1)..(made + n)]
  BY DEF GetAll
<1> HIDE DEF n
<1>3. made \in Nat /\ MaxMade \in Nat /\ built \in [1..MaxMade -> Nat]
  BY RuntimeAssumption DEF Values
<1> QED BY <1>1, <1>2, <1>3 DEF Grown
\* The same as facts about each variable, and about each registry.
GrownFacts(r, v) ==
    /\ made' \in 0..MaxMade /\ made <= made'
    /\ open' \in SUBSET (1..made')
    /\ open \subseteq held[r] => open' \subseteq held'[r]
    /\ open = {} => open' \subseteq held'[r]
    /\ built' \in [1..MaxMade -> Nat]
    /\ held' \in [Registries -> SUBSET (1..made')]
    /\ todo \in [Cleaners -> SUBSET (1..made')]
    /\ \A s \in Registries : s # r => held'[s] = held[s]
    /\ \A s \in Registries : \A i \in held[s] : built'[i] = built[i]
    /\ \A i \in held'[r] : i \in held[r] \/ built'[i] = v

\* What holds of the providers after some were made for one registry.
LEMMA GrownKeeps ==
    ASSUME Values, NEW r \in Registries, NEW v, Grown(r, v)
    PROVE  GrownFacts(r, v)
<1>1. /\ made \in Nat /\ made' \in Nat /\ MaxMade \in Nat /\ made <= made' /\ made' <= MaxMade
      /\ open' = open \cup (made + 1)..made' /\ open \in SUBSET (1..made)
      /\ held \in [Registries -> SUBSET (1..made)]
      /\ todo \in [Cleaners -> SUBSET (1..made)]
      /\ held' = [held EXCEPT ![r] = @ \cup (made + 1)..made']
  BY RuntimeAssumption DEF Values, Grown
<1>2. 1..made \subseteq 1..made' /\ (made + 1)..made' \subseteq 1..made'
  BY <1>1
<1>3. held'[r] = held[r] \cup (made + 1)..made' /\ \A s \in Registries : s # r => held'[s] = held[s]
  BY <1>1
<1>4. held' \in [Registries -> SUBSET (1..made')] /\ todo \in [Cleaners -> SUBSET (1..made')]
  <2>1. \A s \in Registries : held'[s] \in SUBSET (1..made')
    BY <1>1, <1>2, <1>3
  <2>2. \A c \in Cleaners : todo[c] \in SUBSET (1..made')
    BY <1>1, <1>2
  <2> QED BY <2>1, <2>2, <1>1
<1>5. open' \in SUBSET (1..made')
  BY <1>1, <1>2
<1>6. \A s \in Registries : \A i \in held[s] : built'[i] = built[i]
  BY <1>1 DEF Grown
<1>7. \A i \in held'[r] : i \in held[r] \/ built'[i] = v
  BY <1>3 DEF Grown
<1> QED BY <1>1, <1>3, <1>4, <1>5, <1>6, <1>7 DEF Grown, GrownFacts

\* A clean-up that begins has a registry to clean and the providers it holds.
LEMMA CleanupTypes ==
    ASSUME Values, NEW c \in Cleaners, NEW r \in Registries, r \in Nat,
           CleanupBegins(c, r), UNCHANGED made
    PROVE  /\ job' \in [Cleaners -> Jobs] /\ target' \in [Cleaners -> Nat]
           /\ todo' \in [Cleaners -> SUBSET (1..made')]
BY DEF Values, CleanupBegins, Jobs

-----------------------------------------------------------------------------
(***************************************************************************)
(* The steps of the server.                                                *)
(***************************************************************************)

\* The invariant survives: the refresh that the runtime started ends when a clean-up cancels it.
LEMMA JoinedKeeps == ASSUME RuntimeInv, NEW c \in Cleaners, Joined(c) PROVE RuntimeInv'
<1> USE RuntimeAssumption DEF RuntimeInv, Joined, cfgVars, srvVars, regVars, prvVars, reqVars, jobVars, Busy, Cleaners
<1>1. Values'
  <2>1. target[c] \in Registries
    BY DEF Counted
  <2> QED BY <2>1 DEF Values, Stages, Phases, Jobs
<1>2. Staged'
  BY DEF Values, Staged
<1>3. Counted'
  BY Finite DEF Values, Staged, Counted, Over
<1>4. Where'
  BY DEF Values, Staged, Where
<1>5. Versions'
  BY DEF Values, Staged, Versions, Built
<1> QED BY <1>1, <1>2, <1>3, <1>4, <1>5

\* The invariant survives: a clean-up closes one of its providers.
LEMMA CloseOneKeeps == ASSUME RuntimeInv, NEW c \in Cleaners, CloseOne(c) PROVE RuntimeInv'
<1> USE RuntimeAssumption DEF RuntimeInv, CloseOne, cfgVars, srvVars, regVars, prvVars, reqVars, jobVars, Busy, Cleaners
<1>1. Values'
  <2>1. PICK i \in todo[c] : todo' = [todo EXCEPT ![c] = @ \ {i}] /\ open' = open \ {i}
    OBVIOUS
  <2>2. todo' \in [Cleaners -> SUBSET (1..made)] /\ open' \in SUBSET (1..made)
    BY <2>1 DEF Values
  <2> QED BY <2>2 DEF Values, Stages, Phases, Jobs
<1>2. Staged'
  BY DEF Values, Staged
<1>3. Counted'
  BY Finite DEF Values, Staged, Counted, Over
<1>4. Where'
  BY DEF Values, Staged, Where
<1>5. Versions'
  BY DEF Values, Staged, Versions, Built
<1> QED BY <1>1, <1>2, <1>3, <1>4, <1>5

\* The invariant survives: a server that starts makes its runtime, its registry and its providers.
LEMMA StartKeeps == ASSUME RuntimeInv, Start PROVE RuntimeInv'
<1> USE RuntimeAssumption DEF RuntimeInv, Start, cfgVars, srvVars, regVars, prvVars, reqVars, jobVars, Busy, Cleaners
<1> DEFINE fresh == IF cache = None THEN file ELSE cache
<1>a. /\ server = "down" /\ server' = "validating" /\ cache' = fresh /\ settings' = fresh
      /\ newest' = newest + 1 /\ current' = newest + 1 /\ own' = newest + 1
      /\ task' = "none" /\ restart' = FALSE
      /\ UNCHANGED <<restarts, file, lists, reqVars, jobVars, touched, raced>>
  OBVIOUS
<1>b. fresh \in Nat /\ fresh = file
  BY DEF Values, Staged
<1>c. Grown(newest + 1, fresh)
  BY <1>b, GetAllFacts
<1> HIDE DEF Start, fresh
<1> USE <1>a, <1>b
<1>d. newest + 1 \in Registries /\ newest + 1 <= restarts + 1 + Cardinality(Over)
  BY Finite DEF Values, Counted, Registries, Over
<1>e. GrownFacts(newest + 1, fresh)
  BY <1>c, <1>d, GrownKeeps
<1>1. Values'
  <2>1. newest \in Nat /\ newest' \in Nat /\ current' \in 0..newest' /\ own' \in 0..newest'
    BY DEF Values
  <2>2. cache' \in Nat /\ settings' \in Nat /\ file' \in Nat
    BY DEF Values
  <2>3. server' \in Stages /\ restart' \in BOOLEAN /\ restarts' \in 0..MaxRestarts /\ raced' \in BOOLEAN
        /\ task' \in {"none", "created", "listing", "done"}
    BY DEF Values, Stages
  <2>4. phase' \in [Requests -> Phases] /\ version' \in [Requests -> Nat]
        /\ job' \in [Cleaners -> Jobs] /\ target' \in [Cleaners -> Nat]
        /\ todo' \in [Cleaners -> SUBSET (1..made')]
    BY <1>e DEF Values, GrownFacts
  <2> QED BY <1>e, <2>1, <2>2, <2>3, <2>4 DEF Values, GrownFacts
<1>2. Staged'
  BY DEF Values, Staged
<1>3. Counted'
  <2>1. Over' = Over /\ Cardinality(Over) \in Nat /\ newest \in Nat /\ restarts \in Nat
    BY Finite DEF Over, Values
  <2>2. newest' <= restarts' + 1 + Cardinality(Over')
    BY <2>1, <1>d
  <2>3. \A r \in Registries : r > newest' => r # newest + 1 /\ r > newest
    BY <2>1 DEF Registries
  <2>4. \A r \in Registries : r > newest' => held'[r] = {}
    BY <2>3, <1>e DEF GrownFacts, Counted
  <2> QED BY <2>2, <2>4, <1>d DEF Counted
<1>4. Where'
  BY <1>d, <1>e DEF Values, Staged, Where, GrownFacts
<1>5. Versions'
  <2>1. held[newest + 1] = {}
    <3>1. newest \in Nat /\ newest + 1 > newest
      BY DEF Values
    <3> QED BY <1>d, <3>1 DEF Counted
  <2>2. Built(own)'
    BY <2>1, <1>e DEF Built, GrownFacts
  <2> QED BY <2>2 DEF Versions
<1> QED BY <1>1, <1>2, <1>3, <1>4, <1>5

\* The invariant survives: the model lists of the configured providers arrive or fail.
LEMMA ValidatedKeeps == ASSUME RuntimeInv, Validated PROVE RuntimeInv'
<1> USE RuntimeAssumption DEF RuntimeInv, Validated, cfgVars, srvVars, regVars, prvVars, reqVars, jobVars, Busy, Cleaners
<1>1. Values'
  BY DEF Values, Stages, Phases, Jobs
<1>2. Staged'
  BY DEF Values, Staged
<1>3. Counted'
  BY Finite DEF Values, Staged, Counted, Over
<1>4. Where'
  BY DEF Values, Staged, Where
<1>5. Versions'
  BY DEF Values, Staged, Versions, Built
<1> QED BY <1>1, <1>2, <1>3, <1>4, <1>5

\* The invariant survives: the refresh makes the providers that are missing.
LEMMA RefreshBeginsKeeps == ASSUME RuntimeInv, RefreshBegins PROVE RuntimeInv'
<1> USE RuntimeAssumption DEF RuntimeInv, RefreshBegins, cfgVars, srvVars, regVars, prvVars, reqVars, jobVars, Busy, Cleaners
<1>c. Grown(own, settings)
  BY GetAllFacts DEF Values
<1>d. server \in {"messaging", "stopping"} /\ own \in Registries
  BY DEF Values, Staged, Counted
<1>e. GrownFacts(own, settings)
  BY <1>c, <1>d, GrownKeeps
<1>f. /\ task = "created" /\ (\A c \in Cleaners : job[c] # "joining") /\ task' = "listing"
      /\ UNCHANGED <<cfgVars, srvVars, current, newest, lists, reqVars, jobVars, touched, raced>>
  OBVIOUS
<1> HIDE DEF RefreshBegins
<1> USE <1>d, <1>e, <1>f DEF GrownFacts
<1>1. Values'
  BY DEF Values, Stages, Phases, Jobs
<1>2. Staged'
  BY DEF Values, Staged
<1>3. Counted'
  <2>1. Over' = Over
    BY DEF Over
  <2>2. \A r \in Registries : r > newest => r # own
    BY DEF Values, Registries
  <2>3. \A r \in Registries : r > newest => held'[r] = {}
    BY <2>2 DEF Counted
  <2> QED BY <2>1, <2>3 DEF Counted
<1>4. Where'
  BY DEF Values, Staged, Where
<1>5. Versions'
  BY DEF Values, Staged, Versions, Built
<1> QED BY <1>1, <1>2, <1>3, <1>4, <1>5

\* The invariant survives: the server is up.
LEMMA ServingKeeps == ASSUME RuntimeInv, Serving PROVE RuntimeInv'
<1> USE RuntimeAssumption DEF RuntimeInv, Serving, cfgVars, srvVars, regVars, prvVars, reqVars, jobVars, Busy, Cleaners
<1>1. Values'
  BY DEF Values, Stages, Phases, Jobs
<1>2. Staged'
  BY DEF Values, Staged
<1>3. Counted'
  BY Finite DEF Values, Staged, Counted, Over
<1>4. Where'
  BY DEF Values, Staged, Where
<1>5. Versions'
  BY DEF Values, Staged, Versions, Built
<1> QED BY <1>1, <1>2, <1>3, <1>4, <1>5

\* The invariant survives: a startup that fails begins the clean-up.
LEMMA StartupFailsKeeps == ASSUME RuntimeInv, StartupFails PROVE RuntimeInv'
<1> USE RuntimeAssumption DEF RuntimeInv, StartupFails, CleanupBegins, cfgVars, srvVars, regVars, prvVars, reqVars, jobVars, Busy, Cleaners
<1>1. Values'
  <2>1. own \in Registries /\ own \in Nat /\ "runtime" \in Cleaners /\ UNCHANGED made
    BY DEF Values, Counted
  <2>2. /\ job' \in [Cleaners -> Jobs] /\ target' \in [Cleaners -> Nat]
        /\ todo' \in [Cleaners -> SUBSET (1..made')]
    BY <2>1, CleanupTypes
  <2> QED BY <2>2 DEF Values, Stages
<1>2. Staged'
  BY DEF Values, Staged
<1>3. Counted'
  BY Finite DEF Values, Staged, Counted, Over
<1>4. Where'
  BY DEF Values, Staged, Where
<1>5. Versions'
  BY DEF Values, Staged, Versions, Built
<1> QED BY <1>1, <1>2, <1>3, <1>4, <1>5

\* The invariant survives: the refresh ends.
LEMMA RefreshEndsKeeps == ASSUME RuntimeInv, RefreshEnds PROVE RuntimeInv'
<1> USE RuntimeAssumption DEF RuntimeInv, RefreshEnds, cfgVars, srvVars, regVars, prvVars, reqVars, jobVars, Busy, Cleaners
<1>1. Values'
  BY DEF Values, Stages, Phases, Jobs
<1>2. Staged'
  BY DEF Values, Staged
<1>3. Counted'
  BY Finite DEF Values, Staged, Counted, Over
<1>4. Where'
  BY DEF Values, Staged, Where
<1>5. Versions'
  BY DEF Values, Staged, Versions, Built
<1> QED BY <1>1, <1>2, <1>3, <1>4, <1>5

\* The invariant survives: the server stops: its requests and applies are over, and the clean-up begins.
LEMMA StopKeeps == ASSUME RuntimeInv, Stop PROVE RuntimeInv'
<1> USE RuntimeAssumption DEF RuntimeInv, Stop, Cut, cfgVars, srvVars, regVars, prvVars, reqVars, jobVars, Busy, Cleaners
<1>a. /\ server = "up" /\ server' = "stopping"
      /\ phase' = [q \in Requests |-> IF phase[q] = "none" THEN "none" ELSE "done"]
      /\ held' = [r \in Registries |-> IF r \in Cut THEN {} ELSE held[r]]
      /\ todo' = [c \in Cleaners |-> IF c = "runtime" THEN held'[own] ELSE {}]
      /\ job' = [c \in Cleaners |->
            IF c = "runtime" THEN IF task \in {"created", "listing"} THEN "joining" ELSE "closing"
            ELSE IF job[c] = "idle" THEN "idle" ELSE "done"]
      /\ target' = [target EXCEPT !["runtime"] = own]
      /\ UNCHANGED <<cfgVars, restart, restarts, settings, own, current, newest, prvVars,
                     task, version, uses, touched, raced>>
  OBVIOUS
<1>b. own \in Registries /\ own \in Nat
  BY <1>a DEF Values, Counted
<1>c. held' \in [Registries -> SUBSET (1..made)] /\ \A r \in Registries : held'[r] \subseteq held[r]
  BY <1>a DEF Values
<1> HIDE DEF Stop
<1> USE <1>a, <1>b, <1>c
<1>1. Values'
  <2>1. todo' \in [Cleaners -> SUBSET (1..made')]
    OBVIOUS
  <2>2. job' \in [Cleaners -> Jobs] /\ target' \in [Cleaners -> Nat] /\ phase' \in [Requests -> Phases]
    BY DEF Values, Jobs, Phases
  <2> QED BY <2>1, <2>2 DEF Values, Stages
<1>2. Staged'
  BY DEF Values, Staged
<1>3. Counted'
  <2>1. Over \subseteq Over'
    BY DEF Over
  <2> Over \in SUBSET Applies /\ Over' \in SUBSET Applies
    BY DEF Over
  <2>2. Cardinality(Over) <= Cardinality(Over') /\ Cardinality(Over) \in Nat /\ Cardinality(Over') \in Nat
    BY <2>1, Finite
  <2>3. newest \in Nat /\ restarts \in Nat /\ newest <= restarts + 1 + Cardinality(Over)
    BY DEF Values, Counted
  <2>4. newest' <= restarts' + 1 + Cardinality(Over')
    BY <2>2, <2>3
  <2>5. \A c \in Cleaners : Busy(c)' => target'[c] \in Registries
    BY DEF Counted, Values
  <2> QED BY <2>4, <2>5 DEF Counted
<1>4. Where'
  <2>1. ASSUME touched = {}, ~raced PROVE held'[own] = held[own] /\ todo'["runtime"] = held[own]
    BY <2>1 DEF Where, Cut
  <2> QED BY <2>1 DEF Where, Staged
<1>5. Versions'
  BY DEF Values, Staged, Versions, Built
<1> QED BY <1>1, <1>2, <1>3, <1>4, <1>5

\* The invariant survives: the clean-up of the runtime is over or out of time.
LEMMA StoppedKeeps == ASSUME RuntimeInv, NEW late \in BOOLEAN, Stopped(late) PROVE RuntimeInv'
<1> USE RuntimeAssumption DEF RuntimeInv, Stopped, AfterServer, Cleared, cfgVars, srvVars, regVars, prvVars, reqVars, jobVars, Busy, Cleaners
<1>1. Values'
  <2>1. held' \in [Registries -> SUBSET (1..made)]
    BY DEF Values
  <2>2. todo' \in [Cleaners -> SUBSET (1..made)] /\ job' \in [Cleaners -> Jobs]
    BY DEF Values, Jobs
  <2>3. restarts' \in 0..MaxRestarts
    BY DEF Values
  <2> QED BY <2>1, <2>2, <2>3 DEF Values, Stages
<1>2. Staged'
  BY DEF Values, Staged
<1>3. Counted'
  <2>1. Over' = Over /\ Cardinality(Over) \in Nat
    BY Finite DEF Over
  <2>2. newest \in Nat /\ restarts \in Nat /\ newest <= restarts + 1 + Cardinality(Over)
    BY DEF Values, Counted
  <2>3. newest' <= restarts' + (IF server' = "down" THEN 0 ELSE 1) + Cardinality(Over')
    BY <2>1, <2>2
  <2>4. \A r \in Registries : r > newest => held'[r] = {}
    BY DEF Counted, Values
  <2> QED BY <2>3, <2>4 DEF Counted
<1>4. Where'
  BY DEF Values, Staged, Where
<1>5. Versions'
  BY DEF Values, Staged, Versions, Built
<1> QED BY <1>1, <1>2, <1>3, <1>4, <1>5

-----------------------------------------------------------------------------
(***************************************************************************)
(* The steps of the requests.                                              *)
(***************************************************************************)

\* The invariant survives: a request reads the settings.
LEMMA ReadKeeps == ASSUME RuntimeInv, NEW q \in Requests, Read(q) PROVE RuntimeInv'
<1> USE RuntimeAssumption DEF RuntimeInv, Read, cfgVars, srvVars, regVars, prvVars, reqVars, jobVars, Busy, Cleaners
<1>1. Values'
  BY DEF Values, Stages, Phases, Jobs
<1>2. Staged'
  BY DEF Values, Staged
<1>3. Counted'
  BY Finite DEF Values, Staged, Counted, Over
<1>4. Where'
  BY DEF Values, Staged, Where
<1>5. Versions'
  BY DEF Values, Staged, Versions, Built
<1> QED BY <1>1, <1>2, <1>3, <1>4, <1>5

\* The invariant survives: the thread stores the settings it has read.
LEMMA ReadEndsKeeps == ASSUME RuntimeInv, NEW q \in Requests, ReadEnds(q) PROVE RuntimeInv'
<1> USE RuntimeAssumption DEF RuntimeInv, ReadEnds, cfgVars, srvVars, regVars, prvVars, reqVars, jobVars, Busy, Cleaners
<1>1. Values'
  BY DEF Values, Stages, Phases, Jobs
<1>2. Staged'
  BY DEF Values, Staged
<1>3. Counted'
  BY Finite DEF Values, Staged, Counted, Over
<1>4. Where'
  BY DEF Values, Staged, Where
<1>5. Versions'
  BY DEF Values, Staged, Versions, Built
<1> QED BY <1>1, <1>2, <1>3, <1>4, <1>5

\* The invariant survives: a request resolves its provider.
LEMMA ResolveKeeps == ASSUME RuntimeInv, NEW q \in Requests, Resolve(q) PROVE RuntimeInv'
<1> USE RuntimeAssumption DEF RuntimeInv, Resolve, cfgVars, srvVars, regVars, prvVars, reqVars, jobVars, Busy, Cleaners
<1>a. PICK p \in Providers : GetAll(current, {p}, version[q])
  OBVIOUS
<1>b. /\ phase[q] = "read" /\ phase' = [phase EXCEPT ![q] = "using"]
      /\ UNCHANGED <<cfgVars, srvVars, current, newest, lists, task, version, jobVars, touched, raced>>
  OBVIOUS
<1>c. Grown(current, version[q])
  BY <1>a, GetAllFacts DEF Values
<1>d. server = "up" /\ current \in Registries
  BY <1>b DEF Values, Staged, Counted
<1>e. GrownFacts(current, version[q])
  BY <1>c, <1>d, GrownKeeps
<1> HIDE DEF Resolve
<1> USE <1>b, <1>d, <1>e DEF GrownFacts
<1>1. Values'
  BY DEF Values, Stages, Phases, Jobs
<1>2. Staged'
  BY DEF Values, Staged
<1>3. Counted'
  <2>1. Over' = Over
    BY DEF Over
  <2>2. \A r \in Registries : r > newest => r # current
    BY DEF Values, Registries
  <2>3. \A r \in Registries : r > newest => held'[r] = {}
    BY <2>2 DEF Counted
  <2> QED BY <2>1, <2>3 DEF Counted
<1>4. Where'
  BY DEF Values, Staged, Where
<1>5. Versions'
  BY DEF Values, Staged, Versions, Built
<1> QED BY <1>1, <1>2, <1>3, <1>4, <1>5

\* The invariant survives: a request is done.
LEMMA FinishKeeps == ASSUME RuntimeInv, NEW q \in Requests, NEW listed \in BOOLEAN, Finish(q, listed) PROVE RuntimeInv'
<1> USE RuntimeAssumption DEF RuntimeInv, Finish, cfgVars, srvVars, regVars, prvVars, reqVars, jobVars, Busy, Cleaners
<1>1. Values'
  BY DEF Values, Stages, Phases, Jobs
<1>2. Staged'
  BY DEF Values, Staged
<1>3. Counted'
  BY Finite DEF Values, Staged, Counted, Over
<1>4. Where'
  BY DEF Values, Staged, Where
<1>5. Versions'
  BY DEF Values, Staged, Versions, Built
<1> QED BY <1>1, <1>2, <1>3, <1>4, <1>5

-----------------------------------------------------------------------------
(***************************************************************************)
(* The steps of apply_admin_config.                                        *)
(***************************************************************************)

\* The invariant survives: an apply writes the file, and cleans the registry or asks for a restart.
LEMMA ApplyKeeps == ASSUME RuntimeInv, NEW a \in Applies, NEW b \in BOOLEAN, Apply(a, b) PROVE RuntimeInv'
<1> USE RuntimeAssumption DEF RuntimeInv, Apply, CleanupBegins, UnderWay, cfgVars, srvVars, regVars, prvVars, reqVars, jobVars, Busy, Cleaners
<1>a. server = "up" /\ current \in Registries /\ current \in Nat /\ a \in Cleaners /\ a # "runtime"
  BY DEF Values, Counted
<1>1. Values'
  <2>1. /\ job' \in [Cleaners -> Jobs] /\ target' \in [Cleaners -> Nat]
        /\ todo' \in [Cleaners -> SUBSET (1..made')]
    <3>1. CASE b
      BY <3>1 DEF Values, Jobs
    <3>2. CASE ~b
      <4>1. CleanupBegins(a, current) /\ UNCHANGED made
        BY <3>2
      <4> QED BY <4>1, <1>a, CleanupTypes
    <3> QED BY <3>1, <3>2
  <2>2. file' \in Nat /\ restart' \in BOOLEAN
    <3>1. file' \in Nat
      BY DEF Values
    <3>2. restart' = TRUE \/ restart' = restart
      OBVIOUS
    <3> QED BY <3>1, <3>2 DEF Values
  <2>3. raced' = (raced \/ UnderWay)
    OBVIOUS
  <2>4. raced' \in BOOLEAN
    <3> HIDE DEF UnderWay
    <3> QED BY <2>3
  <2> QED BY <2>1, <2>2, <2>4 DEF Values
<1>2. Staged'
  BY DEF Values, Staged
<1>3. Counted'
  <2>1. Over \subseteq Over'
    BY DEF Over, Values
  <2> Over \in SUBSET Applies /\ Over' \in SUBSET Applies
    BY DEF Over
  <2>2. Cardinality(Over) <= Cardinality(Over') /\ Cardinality(Over) \in Nat /\ Cardinality(Over') \in Nat
    BY <2>1, Finite
  <2>3. newest \in Nat /\ restarts \in Nat /\ newest <= restarts + 1 + Cardinality(Over)
    BY DEF Values, Counted
  <2>4. newest' <= restarts' + 1 + Cardinality(Over')
    BY <2>2, <2>3
  <2>5. \A c \in Cleaners : Busy(c)' => target'[c] \in Registries
    BY <1>a DEF Counted, Values
  <2> QED BY <2>4, <2>5, <1>a DEF Counted
<1>4. Where'
  BY DEF Values, Staged, Where
<1>5. Versions'
  <2> SUFFICES ASSUME ~raced', ~restart' PROVE Versions'
    BY <1>a DEF Versions
  <2>1. ~b /\ ~raced /\ ~restart /\ CleanupBegins(a, current) /\ ~UnderWay
    OBVIOUS
  <2>2. \A x \in Applies : ~Busy(x)
    BY <2>1 DEF Values, Jobs
  <2>3. \A x \in Applies : Busy(x)' => x = a
    BY <2>1, <2>2 DEF Values
  <2>4. target'[a] = current /\ Busy(a)'
    BY <2>1, <1>a DEF Values
  <2>5. \A q \in Requests : phase'[q] \notin {"reading", "read"}
    BY <2>1
  <2> QED BY <1>a, <2>3, <2>4, <2>5 DEF Versions
<1> QED BY <1>1, <1>2, <1>3, <1>4, <1>5

\* The invariant survives: an apply ends with a new registry, or with the emptied one.
LEMMA InstalledKeeps == ASSUME RuntimeInv, NEW a \in Applies, NEW b \in BOOLEAN, Installed(a, b) PROVE RuntimeInv'
<1> USE RuntimeAssumption DEF RuntimeInv, Installed, Cleared, cfgVars, srvVars, regVars, prvVars, reqVars, jobVars, Busy, Cleaners
<1>a. server = "up" /\ Busy(a) /\ a \in Cleaners /\ a # "runtime" /\ a \notin Over
  BY DEF Staged, Over
<1>b. Over' = Over \cup {a}
  BY <1>a DEF Over, Values
<1>c. Cardinality(Over') = Cardinality(Over) + 1 /\ Cardinality(Over) \in Nat
      /\ Cardinality(Over') <= Cardinality(Applies)
  <2>1. Over \in SUBSET Applies /\ Over \cup {a} \in SUBSET Applies /\ IsFiniteSet(Over)
    BY FS_Subset, RuntimeAssumption DEF Over
  <2>2. Cardinality(Over \cup {a}) = Cardinality(Over) + 1
    BY <1>a, <2>1, FS_AddElement
  <2>3. Cardinality(Over) \in Nat /\ Cardinality(Over \cup {a}) <= Cardinality(Applies)
    BY <2>1, Finite
  <2> QED BY <1>b, <2>2, <2>3
<1>d. newest \in Nat /\ newest + 1 \in Registries /\ newest + 1 <= restarts + 1 + Cardinality(Over')
  BY <1>a, <1>c, Finite DEF Values, Counted, Registries
<1>e. held' \in [Registries -> SUBSET (1..made)] /\ held'[newest + 1] = {}
  <2>1. held[newest + 1] = {}
    BY <1>d DEF Counted
  <2> QED BY <1>d, <2>1 DEF Values
<1>1. Values'
  <2>1. job' \in [Cleaners -> Jobs]
    BY DEF Values, Jobs
  <2>2. newest' \in Nat /\ current' \in 0..newest' /\ own' \in 0..newest'
    BY <1>d DEF Values
  <2> QED BY <1>e, <2>1, <2>2 DEF Values
<1>2. Staged'
  BY DEF Values, Staged
<1>3. Counted'
  <2>1. newest' <= restarts' + 1 + Cardinality(Over')
    BY <1>c, <1>d DEF Values
  <2>2. own' \in Registries /\ current' \in Registries
    BY <1>a, <1>d DEF Counted
  <2>3. \A r \in Registries : r > newest' => r > newest
    BY <1>d DEF Registries
  <2>4. \A r \in Registries : r > newest' => held'[r] = {}
    BY <2>3 DEF Counted, Values
  <2> QED BY <1>a, <2>1, <2>2, <2>4 DEF Counted
<1>4. Where'
  BY DEF Values, Staged, Where
<1>5. Versions'
  <2> SUFFICES ASSUME ~raced, ~restart PROVE Versions'
    BY <1>a DEF Versions
  <2>1. target[a] = current /\ \A x \in Applies : Busy(x) => x = a
    BY <1>a DEF Versions
  <2>2. \A x \in Applies : ~Busy(x)'
    BY <2>1, <1>a DEF Values
  <2>3. held'[current'] = {}
    BY <1>a, <1>e, <2>1 DEF Counted, Values
  <2>4. Built(current)'
    BY <2>3 DEF Built
  <2> QED BY <1>a, <2>2, <2>4 DEF Versions
<1> QED BY <1>1, <1>2, <1>3, <1>4, <1>5

-----------------------------------------------------------------------------
(***************************************************************************)
(* The theorems.                                                           *)
(***************************************************************************)

\* The invariant holds when the program starts.
LEMMA RuntimeInit == Init => RuntimeInv
<1> SUFFICES ASSUME Init PROVE RuntimeInv
  OBVIOUS
<1> USE RuntimeAssumption DEF Init
<1>1. Values
  <2>1. /\ held \in [Registries -> SUBSET (1..made)] /\ built \in [1..MaxMade -> Nat]
        /\ todo \in [Cleaners -> SUBSET (1..made)] /\ target \in [Cleaners -> Nat]
    OBVIOUS
  <2>2. /\ phase \in [Requests -> Phases] /\ version \in [Requests -> Nat]
        /\ job \in [Cleaners -> Jobs]
    BY DEF Phases, Jobs
  <2>3. made \in 0..MaxMade /\ restarts \in 0..MaxRestarts /\ open \in SUBSET (1..made)
    OBVIOUS
  <2>4. file \in Nat /\ cache \in Nat \cup {None} /\ newest \in Nat /\ settings \in Nat
        /\ current \in 0..newest /\ own \in 0..newest
    OBVIOUS
  <2> QED BY <2>1, <2>2, <2>3, <2>4 DEF Values, Stages
<1>2. Staged /\ Where /\ Versions
  BY DEF Staged, Where, Versions, Busy, Cleaners
<1>3. Counted
  <2>1. Over \in SUBSET Applies
    BY DEF Over
  <2>2. Cardinality(Over) \in Nat
    BY <2>1, Finite
  <2>3. newest <= restarts + 0 + Cardinality(Over)
    BY <2>2
  <2> QED BY <2>3 DEF Counted, Busy
<1> QED BY <1>1, <1>2, <1>3 DEF RuntimeInv

\* Every step keeps it.
LEMMA RuntimeStep == RuntimeInv /\ [Next]_vars => RuntimeInv'
<1> SUFFICES ASSUME RuntimeInv, [Next]_vars PROVE RuntimeInv'
  OBVIOUS
<1>1. CASE UNCHANGED vars
  BY <1>1 DEF vars, cfgVars, srvVars, regVars, prvVars, reqVars, jobVars, RuntimeInv, Values,
     Staged, Counted, Over, Where, Versions, Built, Busy
<1>2. ASSUME NEW c \in Cleaners, Cleaning(c) PROVE RuntimeInv'
  BY <1>2, JoinedKeeps, CloseOneKeeps DEF Cleaning
<1>3. CASE ServerStep
  <2>1. "runtime" \in Cleaners
    BY DEF Cleaners
  <2> QED BY <1>2, <1>3, <2>1, StartKeeps, ValidatedKeeps, ServingKeeps, RefreshBeginsKeeps,
             RefreshEndsKeeps, StoppedKeeps DEF ServerStep
<1>4. ASSUME NEW q \in Requests, Read(q) \/ RequestStep(q) PROVE RuntimeInv'
  BY <1>4, ReadKeeps, ReadEndsKeeps, ResolveKeeps, FinishKeeps DEF RequestStep
<1>5. ASSUME NEW a \in Applies,
             Cleaning(a) \/ \E b \in BOOLEAN : Installed(a, b) \/ Apply(a, b)
      PROVE  RuntimeInv'
  <2>1. a \in Cleaners
    BY DEF Cleaners
  <2> QED BY <1>2, <1>5, <2>1, InstalledKeeps, ApplyKeeps
<1> QED BY <1>1, <1>3, <1>4, <1>5, StartupFailsKeeps, StopKeeps DEF Next

\* The server keeps its stages, its registries and its versions in order, whatever
\* requests, applies and restarts there are.
THEOREM RuntimeInvariant == Spec => []RuntimeInv
BY RuntimeInit, RuntimeStep, PTL DEF Spec

\* When the server has gone and no apply has touched a registry and no clean-up ran
\* out of time, every provider it made is closed.
THEOREM NothingOpenHolds == Spec => []NothingOpen
<1>1. RuntimeInv => NothingOpen
  BY DEF RuntimeInv, Where, NothingOpen
<1> QED BY <1>1, RuntimeInvariant, PTL

\* A configuration applied without an overlapping request or apply is in effect when
\* the apply is over: the cache is empty or has it, and so was every provider built.
THEOREM InEffectHolds == Spec => []InEffect
<1>1. ASSUME RuntimeInv PROVE InEffect
  <2>1. (\A a \in Applies : job[a] \in {"idle", "done"}) => \A a \in Applies : ~Busy(a)
    BY DEF Busy
  <2> QED BY <1>1, <2>1 DEF RuntimeInv, Versions, Built, InEffect
<1> QED BY <1>1, RuntimeInvariant, PTL

-----------------------------------------------------------------------------
(***************************************************************************)
(* The catalog and the admin page (Gateway, AdminConfig).                  *)
(***************************************************************************)

Token == "ANTHROPIC_AUTH_TOKEN"

\* Where a value in use comes from: the first layer that has the key.
FirstOf(k, a, b, c, d, e) ==
    IF k \in DOMAIN a THEN a[k] ELSE IF k \in DOMAIN b THEN b[k]
    ELSE IF k \in DOMAIN c THEN c[k] ELSE IF k \in DOMAIN d THEN d[k] ELSE e[k]

\* The template and the defaults have every key.
LEMMA AllKeys == DOMAIN Default = Keys /\ DOMAIN Template = Keys
<1>1. DOMAIN Default = Keys
  BY DEF Default
<1> HIDE DEF Default
<1> QED BY <1>1 DEF Template

\* Five layers give the value of the first that has the key.
LEMMA Layers ==
    ASSUME NEW k \in Keys, NEW a, NEW b, NEW c, NEW d, NEW e, DOMAIN e = Keys
    PROVE  /\ (a @@ b @@ c @@ d @@ e)[k] = FirstOf(k, a, b, c, d, e)
           /\ k \in DOMAIN (a @@ b @@ c @@ d @@ e)
BY DEF FirstOf, @@

\* The order in which the server reads its sources; the token is special.
LEMMA InUseLayers ==
    ASSUME NEW r, NEW g, NEW k \in Keys
    PROVE  InUse(r, g)[k] = IF k = Token THEN FirstOf(k, explicit, g, r, process, Default)
                            ELSE FirstOf(k, process, explicit, g, r, Default)
<1> DEFINE A == process @@ explicit @@ g @@ r @@ Default
           B == explicit @@ g @@ r @@ process @@ Default
<1>1. A[k] = FirstOf(k, process, explicit, g, r, Default) /\ k \in DOMAIN A
  BY Layers, AllKeys
<1>2. B[Token] = FirstOf(Token, explicit, g, r, process, Default) /\ Token \in Keys
  BY Layers, AllKeys DEF Token, Keys, RuntimeFields
<1>3. InUse(r, g) = [A EXCEPT ![Token] = B[Token]]
  BY DEF InUse, Token
<1> HIDE DEF A, B
<1> QED BY <1>1, <1>2, <1>3

\* The order in which the page shows them.
LEMMA ShownLayers ==
    ASSUME NEW k \in Keys
    PROVE  Shown[k] = FirstOf(k, process, explicit, managed, repo, Template)
BY Layers, AllKeys DEF Shown

\* What a save writes: what was asked, or what the layers give.
LEMMA TargetLayers ==
    ASSUME NEW u, NEW k \in Keys
    PROVE  /\ k \in DOMAIN Target(u)
           /\ k \in DOMAIN Taken(u) => Target(u)[k] = Taken(u)[k]
           /\ k \notin DOMAIN Taken(u) /\ ~Locked(k) =>
                Target(u)[k] = IF managed = <<>> THEN Shown[k]
                               ELSE IF k \in DOMAIN managed THEN managed[k] ELSE Template[k]
<1> DEFINE kept == IF managed = <<>> THEN [x \in Unlocked |-> Shown[x]] ELSE managed
<1>1. Target(u) = Taken(u) @@ kept @@ Template
  BY DEF Target
<1>2. DOMAIN Template = Keys
  BY AllKeys
<1>3. CASE managed = <<>>
  <2>1. kept = [x \in Unlocked |-> Shown[x]]
    BY <1>3
  <2>2. ~Locked(k) => k \in Unlocked
    BY DEF Unlocked
  <2> HIDE DEF kept
  <2> QED BY <1>1, <1>2, <1>3, <2>1, <2>2 DEF @@
<1>4. CASE managed # <<>>
  <2>1. kept = managed
    BY <1>4
  <2> HIDE DEF kept
  <2> QED BY <1>1, <1>2, <1>4, <2>1 DEF @@
<1> QED BY <1>3, <1>4

-----------------------------------------------------------------------------

\* The keys that the validation looks at.
Checked == {"MODEL", "MODEL_OPUS", "VOICE_NOTE_ENABLED", "WHISPER_DEVICE", "NVIDIA_NIM_API_KEY"}

\* Validation looks at fields, and not at the token.
LEMMA CheckedKeys == Checked \in SUBSET (Keys \ {Token})
BY DEF Checked, Keys, Token, ProviderFields, ModelFields, ThinkingFields, RuntimeFields,
   MessagingFields, VoiceFields, OptimizationFields, WebFields

\* What a save validates is what the server then reads.
LEMMA ValidatedIsRead ==
    ASSUME NEW u, NEW k \in Keys, k # Token
    PROVE  InUse(repo, Target(u))[k] = Effective(Target(u))[k]
<1>1. CASE Locked(k)
  <2>1. Effective(Target(u))[k] = Shown[k]
    BY <1>1 DEF Effective
  <2> QED BY <1>1, <2>1, InUseLayers, ShownLayers DEF Locked, FirstOf
<1>2. CASE ~Locked(k)
  <2>1. Effective(Target(u))[k] = Target(u)[k] /\ k \in DOMAIN Target(u)
    BY <1>2, TargetLayers DEF Effective
  <2> QED BY <1>2, <2>1, InUseLayers DEF Locked, FirstOf
<1> QED BY <1>1, <1>2

AdminInv == saves \in Nat /\ (inUse # <<>> => Valid(inUse))

\* What is in use was validated.
LEMMA AdminInvariant == AdminSpec => []AdminInv
<1>1. AdminInit => AdminInv
  BY DEF AdminInit, AdminInv
<1>2. ASSUME AdminInv, [AdminNext]_adminVars PROVE AdminInv'
  <2>1. CASE UNCHANGED adminVars
    BY <1>2, <2>1 DEF adminVars, AdminInv, Valid
  <2>2. CASE Scaffold \/ StopServer \/ EditRepo
    BY <1>2, <2>2 DEF Scaffold, StopServer, EditRepo, AdminInv, Valid
  <2>3. CASE StartServer
    BY <1>2, <2>3 DEF StartServer, AdminInv, Valid
  <2>4. ASSUME NEW u \in Updates, ApplyUpdates(u) PROVE AdminInv'
    <3>1. Valid(Effective(Target(u))) /\ inUse' = InUse(repo, Target(u)) /\ saves' = saves + 1
      BY <2>4 DEF ApplyUpdates
    <3>2. \A k \in Checked : InUse(repo, Target(u))[k] = Effective(Target(u))[k]
      BY CheckedKeys, ValidatedIsRead
    <3>3. Valid(inUse')
      BY <3>1, <3>2 DEF Valid, Checked
    <3> QED BY <1>2, <3>1, <3>3 DEF AdminInv, Valid
  <2> QED BY <1>2, <2>1, <2>2, <2>3, <2>4 DEF AdminNext, Save
<1> QED BY <1>1, <1>2, PTL DEF AdminSpec

\* A save puts into use what was asked for, and changes nothing else.
LEMMA SaveChanges ==
    ASSUME NEW u, ApplyUpdates(u)
    PROVE  /\ \A k \in DOMAIN saved'.asked : inUse'[k] = saved'.asked[k]
           /\ \A k \in Keys :
                 ~Estranged(k) /\ inUse'[k] # inUse[k] =>
                   /\ k \in DOMAIN saved'.asked
                   /\ k \in Pending => k \in saved'.pending
<1>1. /\ inUse' = InUse(repo, Target(u))
      /\ saved'.asked = Taken(u) /\ saved'.pending = PendingOf(u)
  BY DEF ApplyUpdates
<1>2. ASSUME NEW k \in DOMAIN Taken(u)
      PROVE  /\ k \in Keys /\ ~Locked(k) /\ k \in DOMAIN u /\ Taken(u)[k] = u[k]
             /\ InUse(repo, Target(u))[k] = u[k]
  <2>1. k \in Keys /\ ~Locked(k) /\ k \in DOMAIN u /\ Taken(u)[k] = u[k]
    BY DEF Taken, Unlocked
  <2>2. k \in DOMAIN Target(u) /\ Target(u)[k] = u[k]
    BY <2>1, TargetLayers
  <2>3. InUse(repo, Target(u))[k] = Target(u)[k]
    BY <2>1, <2>2, InUseLayers DEF Locked, FirstOf
  <2> QED BY <2>1, <2>2, <2>3
<1>3. ASSUME NEW k \in Keys, ~Estranged(k), InUse(repo, Target(u))[k] # inUse[k]
      PROVE  k \in DOMAIN Taken(u) /\ (k \in Pending => k \in PendingOf(u))
  <2>1. Shown[k] = inUse[k]
    BY <1>3 DEF Estranged
  <2>2. k \in DOMAIN Taken(u)
    <3> SUFFICES ASSUME k \notin DOMAIN Taken(u) PROVE FALSE
      OBVIOUS
    <3>1. CASE Locked(k)
      <4>1. k = Token => k \notin DOMAIN process
        BY <1>3 DEF Estranged, Token
      <4> QED BY <1>3, <2>1, <3>1, <4>1, InUseLayers, ShownLayers DEF Locked, FirstOf
    <3>2. CASE ~Locked(k)
      <4>1. InUse(repo, Target(u))[k] = Target(u)[k]
        BY <3>2, TargetLayers, InUseLayers DEF Locked, FirstOf
      <4>2. Target(u)[k] = Shown[k]
        <5>1. CASE managed = <<>>
          BY <3>2, <5>1, TargetLayers
        <5>2. CASE managed # <<>> /\ k \in DOMAIN managed
          BY <3>2, <5>2, TargetLayers, ShownLayers DEF Locked, FirstOf
        <5>3. CASE managed # <<>> /\ k \notin DOMAIN managed
          <6>1. k \notin DOMAIN repo
            BY <1>3, <5>3 DEF Estranged
          <6> QED BY <3>2, <5>3, <6>1, TargetLayers, ShownLayers DEF Locked, FirstOf
        <5> QED BY <5>1, <5>2, <5>3
      <4> QED BY <1>3, <2>1, <4>1, <4>2
    <3> QED BY <3>1, <3>2
  <2>3. k \in DOMAIN u /\ u[k] # Shown[k]
    BY <1>2, <1>3, <2>1, <2>2
  <2> QED BY <2>2, <2>3 DEF PendingOf
<1> QED BY <1>1, <1>2, <1>3

\* A save changes a setting in use only because the page asked for it, but for
\* the settings that other sources keep from it (Estranged).
THEOREM ChangesAreAskedHolds == AdminSpec => ChangesAreAsked
<1> DEFINE P == saves' > saves =>
        /\ \A k \in DOMAIN saved'.asked : inUse'[k] = saved'.asked[k]
        /\ \A k \in Keys :
              ~Estranged(k) /\ inUse'[k] # inUse[k] =>
                /\ k \in DOMAIN saved'.asked
                /\ k \in Pending => k \in saved'.pending
<1>1. ASSUME AdminInv, [AdminNext]_adminVars PROVE [P]_adminVars
  <2>1. CASE saves' = saves
    BY <1>1, <2>1 DEF AdminInv
  <2>2. ASSUME NEW u \in Updates, ApplyUpdates(u) PROVE P
    BY <2>2, SaveChanges
  <2> QED BY <1>1, <2>1, <2>2 DEF AdminNext, Save, Scaffold, StartServer, StopServer, EditRepo, adminVars
<1> QED BY <1>1, AdminInvariant, PTL DEF AdminSpec, ChangesAreAsked

-----------------------------------------------------------------------------

\* A model of a provider.
Model(ref) == (\E S : ref \in Seq(S)) /\ Len(ref) > 1 /\ ref[1] \in ProviderIds

KnownInv ==
    \A e \in known :
        /\ Model(e.ref)
        /\ \/ e.id = gateway_model_id(e.ref) /\ e.free = TRUE
           \/ e.id = no_thinking_gateway_model_id(e.ref)

\* What a fetch has looked up it may reach, and a fetch that asks for no address
\* has looked up none.
FetchInv ==
    /\ fetch = [step |-> fetch.step, host |-> fetch.host, pinned |-> fetch.pinned,
                hops |-> fetch.hops, policy |-> fetch.policy, reached |-> fetch.reached]
    /\ fetch.hops \in 0..MaxHops
    /\ fetch.step = "request" /\ ~fetch.policy => fetch.pinned \subseteq {"public"}
    /\ ~fetch.policy => fetch.reached \subseteq {"public"}

\* An id decodes to the model it was made from.
LEMMA IdsDecode ==
    ASSUME NEW ref, Model(ref), NEW x \in {Normal, Quiet}
    PROVE  /\ Direct(<<x>> \o ref) = ref /\ ref # <<>>
           /\ IsGatewayId(<<x>> \o ref) /\ (<<x>> \o ref)[1] = x
<1>0. PICK S : ref \in Seq(S)
  BY DEF Model
<1>1. <<x>> \in Seq(S \cup {x}) /\ ref \in Seq(S \cup {x}) /\ Len(ref) \in Nat /\ Len(ref) > 1
  BY <1>0 DEF Model
<1>2. Len(<<x>> \o ref) = 1 + Len(ref) /\ (<<x>> \o ref)[1] = x
  BY <1>1
<1>3. Tail(<<x>> \o ref) = ref
  BY <1>1
<1>4. IsGatewayId(<<x>> \o ref)
  <2> DEFINE id == <<x>> \o ref
  <2>1. Len(id) > 2 /\ id[1] = x
    BY <1>1, <1>2
  <2> HIDE DEF id
  <2>2. IsGatewayId(id)
    BY <2>1 DEF IsGatewayId
  <2> QED BY <2>2 DEF id
<1>5. ref # <<>>
  BY <1>1
<1> QED BY <1>2, <1>3, <1>4, <1>5 DEF Direct, Model

\* Every model of the representative texts can be told from its provider.
LEMMA RefsAreModels == \A ref \in Refs : Model(ref)
<1>1. Texts("MODEL") = {<<"nim", "base">>, <<"router", "opus-x">>, <<"elsewhere", "m">>}
  BY DEF Texts, Secret, WebFields
<1>2. Texts("MODEL_OPUS") = {<<>>, <<"router", "opus-x">>}
  BY DEF Texts, Secret, WebFields
<1> DEFINE Words == {"nim", "base", "router", "opus-x", "elsewhere", "m"}
<1>3. /\ <<>> \in Seq(Words) /\ <<"nim", "base">> \in Seq(Words)
      /\ <<"router", "opus-x">> \in Seq(Words) /\ <<"elsewhere", "m">> \in Seq(Words)
  OBVIOUS
<1>4. \A v \in Texts("MODEL") \cup Texts("MODEL_OPUS") : v \in Seq(Words)
  BY <1>1, <1>2, <1>3
<1> QED BY <1>4 DEF Refs, Model, ModelFields

\* The model list holds ids of models, with and without thinking.
LEMMA ListedAreModels ==
    ASSUME NEW s, Valid(s), NEW e \in Listed(s)
    PROVE  /\ Model(e.ref)
           /\ \/ e.id = gateway_model_id(e.ref) /\ e.free = TRUE
              \/ e.id = no_thinking_gateway_model_id(e.ref)
<1>1. \A ref \in Configured(s) : Model(ref)
  BY RefsAreModels DEF Configured, Valid, ModelFields
<1>2. \A d \in Discovered : Model(d.ref)
  BY GatewayAssumption DEF Model
<1>3. \E ref, thinks : Model(ref) /\ e \in Variants(ref, thinks)
  <2>1. CASE \E ref \in Configured(s) : e \in Variants(ref, Thinks(ref))
    BY <1>1, <2>1
  <2>2. CASE \E d \in Discovered : e \in Variants(d.ref, d.thinks)
    BY <1>2, <2>2
  <2>3. \/ \E ref \in Configured(s) : e \in Variants(ref, Thinks(ref))
        \/ \E d \in Discovered : e \in Variants(d.ref, d.thinks)
    <3> DEFINE A == UNION {Variants(ref, Thinks(ref)) : ref \in Configured(s)}
               B == UNION {Variants(d.ref, d.thinks) : d \in Discovered}
    <3>1. Listed(s) = A \cup B
      BY DEF Listed
    <3>2. e \in A => \E ref \in Configured(s) : e \in Variants(ref, Thinks(ref))
      OBVIOUS
    <3>3. e \in B => \E d \in Discovered : e \in Variants(d.ref, d.thinks)
      OBVIOUS
    <3> HIDE DEF A, B
    <3> QED BY <3>1, <3>2, <3>3
  <2> QED BY <2>1, <2>2, <2>3
<1>4. PICK ref, thinks : Model(ref) /\ e \in Variants(ref, thinks)
  BY <1>3
<1> QED BY <1>4 DEF Variants

\* The gateway changes the configuration only as AdminConfig does.
LEMMA GatewayRefinesAdmin == GwSpec => AdminSpec
<1>1. GwInit => AdminInit
  BY DEF GwInit
<1>2. [GwNext]_all => [AdminNext]_adminVars
  BY DEF GwNext, Configure, ListModels, Request, Handle, Resolved, Fetched, Redirected, all, adminVars
<1> QED BY <1>1, <1>2, PTL DEF GwSpec, AdminSpec

\* So a save changes only what was asked under the whole gateway, too.
THEOREM GatewayChangesAreAsked == GwSpec => ChangesAreAsked
BY GatewayRefinesAdmin, ChangesAreAskedHolds

\* Every id that a client knows stands for a model, with thinking or without.
LEMMA KnownInvariant == GwSpec => []KnownInv
<1>1. GwInit => KnownInv
  BY DEF GwInit, KnownInv
<1>2. ASSUME KnownInv, AdminInv, [GwNext]_all PROVE KnownInv'
  <2>1. CASE known' = known
    BY <1>2, <2>1 DEF KnownInv
  <2>2. CASE ListModels
    <3>1. Valid(inUse) /\ known' = known \cup Listed(inUse)
      BY <1>2, <2>2 DEF ListModels, AdminInv
    <3> QED BY <1>2, <3>1, ListedAreModels DEF KnownInv
  <2> QED BY <1>2, <2>1, <2>2
          DEF GwNext, Configure, Request, Handle, Resolved, Fetched, Redirected, all, gwVars
<1> QED BY <1>1, <1>2, GatewayRefinesAdmin, AdminInvariant, PTL DEF GwSpec

\* However the settings changed since, an id that was listed is resolved to the
\* model it stands for, with thinking only where the id allows it.
THEOREM ListedStaysRoutableHolds == GwSpec => []ListedStaysRoutable
<1>1. ASSUME KnownInv PROVE ListedStaysRoutable
  <2> SUFFICES ASSUME NEW e \in known
               PROVE  LET to == ResolveModel(inUse, e.id)
                      IN  to.ref = e.ref /\ (to.thinking => e.free)
    BY DEF ListedStaysRoutable
  <2>1. Model(e.ref)
    BY <1>1 DEF KnownInv
  <2>2. CASE e.id = gateway_model_id(e.ref) /\ e.free = TRUE
    <3>1. Direct(e.id) = e.ref /\ e.ref # <<>>
      BY <2>1, <2>2, IdsDecode DEF gateway_model_id
    <3> QED BY <2>2, <3>1 DEF ResolveModel
  <2>3. CASE e.id = no_thinking_gateway_model_id(e.ref)
    <3>1. Direct(e.id) = e.ref /\ e.ref # <<>> /\ IsGatewayId(e.id) /\ e.id[1] = Quiet
      BY <2>1, <2>3, IdsDecode DEF no_thinking_gateway_model_id
    <3> QED BY <3>1 DEF ResolveModel
  <2> QED BY <1>1, <2>2, <2>3 DEF KnownInv
<1> QED BY <1>1, KnownInvariant, PTL

\* However often a page redirects, a fetch reaches only hosts that the egress
\* policy permits.
THEOREM FetchStaysInsideHolds == GwSpec => []FetchStaysInside
<1>0. MaxHops \in Nat
  BY GatewayAssumption
<1>a. /\ NoFetch = [step |-> NoFetch.step, host |-> NoFetch.host, pinned |-> NoFetch.pinned,
                    hops |-> NoFetch.hops, policy |-> NoFetch.policy, reached |-> NoFetch.reached]
      /\ NoFetch.step = "idle" /\ NoFetch.hops = 0 /\ NoFetch.reached = {}
  BY DEF NoFetch
<1>1. GwInit => FetchInv
  BY <1>0, <1>a DEF GwInit, FetchInv
<1>2. ASSUME FetchInv, [GwNext]_all PROVE FetchInv'
  <2>1. CASE fetch' = fetch
    BY <1>2, <2>1 DEF FetchInv
  <2>2. ASSUME NEW r \in Incoming, Handle(r) PROVE FetchInv'
    <3>1. CASE fetch' = NoFetch
      BY <1>0, <1>a, <3>1 DEF FetchInv
    <3>2. CASE FetchBegins(inUse)
      <4>1. PICK host \in Hosts : fetch' = [NoFetch EXCEPT !.step = "resolve", !.host = host,
                     !.policy = inUse["WEB_FETCH_ALLOW_PRIVATE_NETWORKS"] = On]
        BY <3>2 DEF FetchBegins
      <4> DEFINE p == inUse["WEB_FETCH_ALLOW_PRIVATE_NETWORKS"] = On
      <4>2. fetch' = [step |-> "resolve", host |-> host, pinned |-> {}, hops |-> 0,
                      policy |-> p, reached |-> {}]
        BY <4>1 DEF NoFetch
      <4> HIDE DEF p
      <4> QED BY <1>0, <4>2 DEF FetchInv
    <3> QED BY <2>2, <3>1, <3>2 DEF Handle
  <2>3. CASE Resolved
    BY <1>2, <2>3 DEF Resolved, FetchInv, Permitted
  <2>4. CASE Fetched
    BY <1>2, <2>4 DEF Fetched, FetchInv
  <2>5. CASE Redirected
    <3>1. PICK a \in fetch.pinned, host \in Hosts :
             fetch' = IF fetch.hops >= MaxHops
                      THEN [fetch EXCEPT !.reached = @ \cup {a}, !.step = "failed"]
                      ELSE [fetch EXCEPT !.reached = @ \cup {a}, !.step = "resolve",
                                         !.host = host, !.hops = @ + 1, !.pinned = {}]
      BY <2>5 DEF Redirected
    <3>2. ~fetch.policy => fetch.reached \cup {a} \subseteq {"public"}
      BY <1>2, <2>5 DEF Redirected, FetchInv
    <3>3. CASE fetch.hops >= MaxHops
      <4>1. fetch' = [step |-> "failed", host |-> fetch.host, pinned |-> fetch.pinned,
                      hops |-> fetch.hops, policy |-> fetch.policy, reached |-> fetch.reached \cup {a}]
        BY <1>2, <3>1, <3>3 DEF FetchInv
      <4> QED BY <1>2, <3>2, <4>1 DEF FetchInv
    <3>4. CASE ~(fetch.hops >= MaxHops)
      <4>1. fetch' = [step |-> "resolve", host |-> host, pinned |-> {},
                      hops |-> fetch.hops + 1, policy |-> fetch.policy, reached |-> fetch.reached \cup {a}]
        BY <1>2, <3>1, <3>4 DEF FetchInv
      <4> QED BY <1>0, <1>2, <3>2, <3>4, <4>1 DEF FetchInv
    <3> QED BY <3>3, <3>4
  <2> QED BY <1>2, <2>1, <2>2, <2>3, <2>4, <2>5
          DEF GwNext, Configure, ListModels, Request, all, gwVars
<1>3. FetchInv => FetchStaysInside
  BY <1>0 DEF FetchInv, FetchStaysInside
<1> QED BY <1>1, <1>2, <1>3, PTL DEF GwSpec
=============================================================================
