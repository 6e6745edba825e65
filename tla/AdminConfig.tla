------------------------------ MODULE AdminConfig ------------------------------
(***************************************************************************)
(* The configuration of the server: the env files and the process          *)
(* environment it is read from (config/settings.py), the files that are    *)
(* scaffolded or migrated (cli/entrypoints.py), and the admin page that    *)
(* shows the values and writes the managed file (api/admin_config.py,      *)
(* api/admin_routes.py).                                                   *)
(*                                                                         *)
(* A value is the sequence of the parts of its text between slashes, so    *)
(* <<>> is the empty text and <<"nim", "opus-x">> a model of a provider.   *)
(* A file is a function from the keys it sets.  The fields of a section    *)
(* of the manifest that are alike are represented by one or two of them.   *)
(* Values are written so that they read back as they are.                  *)
(***************************************************************************)
EXTENDS Naturals, Sequences

CONSTANTS
    FileKeys,       \* the keys that the files and the environment may set
    AskKeys,        \* the keys that a save may name
    MaxSaves        \* bound: saves of the page

\* The function with one key, and one layer of values over another.
k :> v == [x \in {k} |-> v]
f @@ g == [k \in DOMAIN f \cup DOMAIN g |-> IF k \in DOMAIN f THEN f[k] ELSE g[k]]

On == <<"true">>
Off == <<"false">>
Mask == <<"masked">>
ProviderIds == {"nim", "router"}
ChatProviders == {"nim"}

ProviderFields == {"NVIDIA_NIM_API_KEY"}
ModelFields == {"MODEL", "MODEL_OPUS"}
ThinkingFields == {"ENABLE_MODEL_THINKING", "ENABLE_OPUS_THINKING"}
RuntimeFields == {"ANTHROPIC_AUTH_TOKEN", "PROVIDER_RATE_LIMIT", "PORT"}
MessagingFields == {"MESSAGING_PLATFORM", "TELEGRAM_BOT_TOKEN"}
VoiceFields == {"VOICE_NOTE_ENABLED", "WHISPER_DEVICE"}
OptimizationFields == {"ENABLE_SUGGESTION_MODE_SKIP"}
WebFields == {"ENABLE_WEB_SERVER_TOOLS", "WEB_FETCH_ALLOW_PRIVATE_NETWORKS"}

Keys == ProviderFields \cup ModelFields \cup ThinkingFields \cup RuntimeFields
          \cup MessagingFields \cup VoiceFields \cup OptimizationFields \cup WebFields
Secret == {"NVIDIA_NIM_API_KEY", "ANTHROPIC_AUTH_TOKEN", "TELEGRAM_BOT_TOKEN"}
Pending == {"PORT", "MESSAGING_PLATFORM", "TELEGRAM_BOT_TOKEN"} \cup VoiceFields

\* What Settings takes for a key that nothing sets.
Default == [k \in Keys |->
    CASE k = "MODEL" -> <<"nim", "base">>
      [] k \in {"ENABLE_MODEL_THINKING", "VOICE_NOTE_ENABLED", "ENABLE_SUGGESTION_MODE_SKIP"} -> On
      [] k \in WebFields -> Off
      [] k = "PROVIDER_RATE_LIMIT" -> <<"40">>
      [] k = "PORT" -> <<"8082">>
      [] k = "WHISPER_DEVICE" -> <<"cpu">>
      [] k = "MESSAGING_PLATFORM" -> <<"discord">>
      [] OTHER -> <<>>]

\* .env.example, with the defaults of the manifest.
Template == [Default EXCEPT
    !["PROVIDER_RATE_LIMIT"] = <<"1">>,
    !["ANTHROPIC_AUTH_TOKEN"] = <<"freecc">>,
    !["VOICE_NOTE_ENABLED"] = Off,
    !["WHISPER_DEVICE"] = <<"nvidia_nim">>,
    !["ENABLE_WEB_SERVER_TOOLS"] = On]

\* What a file or a save may say of a key, a value that is refused included.
Texts(k) ==
    CASE k = "MODEL" -> {<<"nim", "base">>, <<"router", "opus-x">>, <<"elsewhere", "m">>}
      [] k = "MODEL_OPUS" -> {<<>>, <<"router", "opus-x">>}
      [] k = "MESSAGING_PLATFORM" -> {<<"discord">>, <<"telegram">>}
      [] k \in {"VOICE_NOTE_ENABLED", "ENABLE_SUGGESTION_MODE_SKIP",
                "ENABLE_MODEL_THINKING", "ENABLE_OPUS_THINKING"} \cup WebFields -> {On, Off}
      [] k \in Secret -> {<<"s1">>, Mask}
      [] OTHER -> {Default[k], <<"7">>}

VARIABLES
    repo,       \* .env of the working directory
    managed,    \* ~/.fcc/.env
    legacy,     \* an env file of an earlier version
    explicit,   \* the file named by FCC_ENV_FILE
    process,    \* os.environ
    inUse,      \* the Settings in use, <<>> while no server runs
    saved,      \* the last save: what was asked for and the pending fields
    saves

adminVars == <<repo, managed, legacy, explicit, process, inUse, saved, saves>>

-----------------------------------------------------------------------------
(* What is in use, and what the page shows.                                *)

\* Settings: the environment over the files, the later files over the earlier
\* ones; for the token the files come first.
InUse(r, g) ==
    [process @@ explicit @@ g @@ r @@ Default EXCEPT !["ANTHROPIC_AUTH_TOKEN"] =
        (explicit @@ g @@ r @@ process @@ Default)["ANTHROPIC_AUTH_TOKEN"]]

Refs == {v \in UNION {Texts(k) : k \in ModelFields} : Len(v) > 1 /\ v[1] \in ProviderIds}

Valid(s) ==
    /\ s["MODEL"] \in Refs
    /\ s["MODEL_OPUS"] \in Refs \cup {<<>>}
    /\ ~ /\ s["VOICE_NOTE_ENABLED"] = On
         /\ s["WHISPER_DEVICE"] = <<"nvidia_nim">>
         /\ s["NVIDIA_NIM_API_KEY"] = <<>>

\* The layers from the one that wins to the one that yields.
Shown == process @@ explicit @@ managed @@ repo @@ Template

Locked(k) == k \in DOMAIN process \cup DOMAIN explicit
Unlocked == {k \in Keys : ~Locked(k)}

\* The updates that are written: a masked secret and a locked field are passed over.
Taken(u) ==
    [k \in {x \in DOMAIN u \cap Unlocked : ~(x \in Secret /\ u[x] = Mask)} |-> u[k]]

\* The file that is written.  What it had is kept, and a first file is seeded
\* with what the page shows of the unlocked fields.
TargetDefect(u) == Taken(u) @@ Template

Target(u) ==
    Taken(u) @@ (IF managed = <<>> THEN [k \in Unlocked |-> Shown[k]] ELSE managed) @@ Template

Effective(t) == [k \in Keys |-> IF Locked(k) THEN Shown[k] ELSE t[k]]

PendingOf(u) == {k \in DOMAIN u \cap Pending : u[k] # Shown[k]}

-----------------------------------------------------------------------------
(* Actions.                                                                *)

\* The files of the instance set at most one key each.
Files == {<<>>} \cup UNION {{k :> v : v \in Texts(k) \ {Mask}} : k \in FileKeys}

AdminInit ==
    /\ repo \in Files
    /\ managed \in Files
    /\ legacy \in Files
    /\ managed # <<>> => legacy = <<>>
    /\ explicit \in Files
    /\ process \in Files
    /\ explicit = <<>> \/ process = <<>>
    /\ inUse = <<>>
    /\ saved = [asked |-> <<>>, pending |-> {}]
    /\ saves = 0

\* fcc-init: copies the legacy file, or else writes the template.
Scaffold ==
    /\ inUse = <<>>
    /\ managed = <<>>
    /\ managed' = IF legacy # <<>> THEN legacy ELSE Template
    /\ UNCHANGED <<repo, legacy, explicit, process, inUse, saved, saves>>

\* fcc-server: copies the legacy file, and reads the settings; it does not
\* come up with settings that are not valid.
StartServer ==
    /\ inUse = <<>>
    /\ managed' = IF managed = <<>> THEN legacy ELSE managed
    /\ Valid(InUse(repo, managed'))
    /\ inUse' = InUse(repo, managed')
    /\ UNCHANGED <<repo, legacy, explicit, process, saved, saves>>

StopServer ==
    /\ inUse # <<>>
    /\ inUse' = <<>>
    /\ UNCHANGED <<repo, managed, legacy, explicit, process, saved, saves>>

\* Somebody edits the .env of the working directory.
EditRepo ==
    /\ repo' \in Files \ {repo}
    /\ UNCHANGED <<managed, legacy, explicit, process, inUse, saved, saves>>

\* The page is saved: validated, written, and the settings are read again, by
\* this server or by the one that the restart starts.  Values that are not valid
\* change nothing.
ApplyUpdates(u) ==
    /\ inUse # <<>>
    /\ saves < MaxSaves
    /\ Valid(Effective(Target(u)))
    /\ managed' = Target(u)
    /\ inUse' = InUse(repo, managed')
    /\ saved' = [asked |-> Taken(u), pending |-> PendingOf(u)]
    /\ saves' = saves + 1
    /\ UNCHANGED <<repo, legacy, explicit, process>>

Updates == UNION {{k :> v : v \in Texts(k)} : k \in AskKeys}

Save == \E u \in Updates : ApplyUpdates(u)

AdminNext == Scaffold \/ StartServer \/ StopServer \/ EditRepo \/ Save

AdminSpec == AdminInit /\ [][AdminNext]_adminVars

-----------------------------------------------------------------------------
(* Properties.                                                             *)

\* Where the page and the settings differ before a save, and the save changes
\* what nobody named: a value that only the template gives, a field of the
\* repository's file that a managed file written by hand does not have, and a
\* token of the environment.
Estranged(k) ==
    \/ Shown[k] # inUse[k]
    \/ managed # <<>> /\ k \in DOMAIN repo \ DOMAIN managed
    \/ k = "ANTHROPIC_AUTH_TOKEN" /\ k \in DOMAIN process

\* A save does what it was asked to do and nothing else: every value it takes is
\* in use after it, a value in use changes only for a key that was named, and a
\* field that needs a restart is reported when it changes.  write_managed_env
\* writes the whole file and settings layers it with four other sources.
ChangesAreAsked ==
    [][saves' > saves =>
        /\ \A k \in DOMAIN saved'.asked : inUse'[k] = saved'.asked[k]
        /\ \A k \in Keys :
              ~Estranged(k) /\ inUse'[k] # inUse[k] =>
                /\ k \in DOMAIN saved'.asked
                /\ k \in Pending => k \in saved'.pending]_adminVars

=============================================================================
