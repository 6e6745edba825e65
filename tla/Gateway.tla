-------------------------------- MODULE Gateway --------------------------------
(***************************************************************************)
(* The requests of the clients under a configuration that changes:         *)
(* the list of models (api/model_catalog.py, api/gateway_model_ids.py),    *)
(* the routing of a model name (api/model_router.py), the pipeline with    *)
(* its refusals, intercepts and local answers (api/request_pipeline.py,    *)
(* api/detection.py, api/optimization_handlers.py), and the local web      *)
(* tools (api/web_tools/).                                                 *)
(*                                                                         *)
(* A text is the set of the marks that the detectors look for.  A model    *)
(* name is split at its slashes, like the values of AdminConfig.           *)
(***************************************************************************)
EXTENDS AdminConfig

CONSTANTS
    Discovered,     \* the models that the registry has found
    Incoming,       \* the requests of the instance
    MaxHops         \* _MAX_WEB_FETCH_REDIRECTS

\* The registry puts the provider before every model id, and drops blank ids.
ASSUME GatewayAssumption ==
    /\ MaxHops \in Nat
    /\ \A d \in Discovered :
          d.ref \in Seq(STRING) /\ Len(d.ref) > 1 /\ d.ref[1] \in ProviderIds

VARIABLES
    known,      \* the model ids a client has been given, each with what it stands for
    answer,     \* what became of the last request
    fetch       \* the web_fetch under way or the last one

gwVars == <<known, answer, fetch>>
all == <<adminVars, gwVars>>

-----------------------------------------------------------------------------
(* Model ids and routing.                                                  *)

Normal == "anthropic"
Quiet == "claude-3-freecc-no-thinking"
OpusNames == {"opus-x", "claude-opus-4"}

gateway_model_id(ref) == <<Normal>> \o ref
no_thinking_gateway_model_id(ref) == <<Quiet>> \o ref

\* The ids of a model, each with the model and whether thinking is left to the settings.
Variants(ref, thinks) ==
    (IF thinks = FALSE THEN {} ELSE {[id |-> gateway_model_id(ref), ref |-> ref, free |-> TRUE]})
      \cup {[id |-> no_thinking_gateway_model_id(ref), ref |-> ref, free |-> FALSE]}

Configured(s) == {s[k] : k \in ModelFields} \ {<<>>}

\* Whether the registry has the model without thinking; unknown counts as with it.
Thinks(ref) == [ref |-> ref, thinks |-> FALSE] \notin Discovered

Listed(s) ==
    (UNION {Variants(ref, Thinks(ref)) : ref \in Configured(s)})
      \cup UNION {Variants(d.ref, d.thinks) : d \in Discovered}

IsOpus(name) == \E i \in DOMAIN name : name[i] \in OpusNames

resolve_model(s, name) ==
    IF IsOpus(name) /\ s["MODEL_OPUS"] # <<>> THEN s["MODEL_OPUS"] ELSE s["MODEL"]

resolve_thinking(s, name) ==
    IF IsOpus(name) /\ s["ENABLE_OPUS_THINKING"] # <<>>
    THEN s["ENABLE_OPUS_THINKING"] = On
    ELSE s["ENABLE_MODEL_THINKING"] = On

IsGatewayId(name) == name[1] \in {Normal, Quiet} /\ Len(name) > 2

Direct(name) ==
    LET ref == IF IsGatewayId(name) THEN Tail(name) ELSE name
    IN  IF ref[1] \in ProviderIds /\ Len(ref) > 1 THEN ref ELSE <<>>

ResolveModelDefect(s, name) ==
    LET direct == Direct(name)
    IN  IF direct # <<>>
        THEN [ref |-> direct, thinking |-> resolve_thinking(s, Tail(direct))]
        ELSE [ref |-> resolve_model(s, name), thinking |-> resolve_thinking(s, name)]

ResolveModel(s, name) ==
    LET direct == Direct(name)
    IN  IF direct # <<>>
        THEN [ref |-> direct,
              thinking |-> ~(IsGatewayId(name) /\ name[1] = Quiet)
                             /\ resolve_thinking(s, Tail(direct))]
        ELSE [ref |-> resolve_model(s, name), thinking |-> resolve_thinking(s, name)]

-----------------------------------------------------------------------------
(* Detection.                                                              *)

\* System messages are moved into the system prompt.
Said(r) == SelectSeq(r.said, LAMBDA m : m.role # "system")
SystemMarks(r) == r.system \cup UNION {r.said[i].marks : i \in {j \in DOMAIN r.said : r.said[j].role = "system"}}
OneUser(r) == Len(Said(r)) = 1 /\ Said(r)[1].role = "user"
Marks(r) == UNION {Said(r)[i].marks : i \in DOMAIN Said(r)}

is_quota_check_request(r) == r.probe /\ OneUser(r) /\ "quota" \in Marks(r)
is_prefix_detection_request(r) == OneUser(r) /\ {"policy_spec", "Command"} \subseteq Marks(r)
is_title_generation_request(r) == r.tools = {} /\ "sentence-case title" \in SystemMarks(r)
is_suggestion_mode_request(r) ==
    \E i \in DOMAIN Said(r) : Said(r)[i].role = "user" /\ "suggestion" \in Said(r)[i].marks
is_filepath_extraction_request(r) ==
    /\ OneUser(r)
    /\ r.tools = {}
    /\ {"Command", "Output"} \subseteq Marks(r)
    /\ "filepaths" \in Marks(r) \/ "extract" \in SystemMarks(r)
is_safety_classifier_request(r) ==
    r.tools = {} /\ {"transcript", "verdict"} \subseteq Marks(r) \cup SystemMarks(r)

\* The answers given without a provider.  Of the switches only that of the
\* suggestions is ever turned off here.
Optimized(s, r) ==
    \/ is_quota_check_request(r)
    \/ is_prefix_detection_request(r)
    \/ is_title_generation_request(r)
    \/ s["ENABLE_SUGGESTION_MODE_SKIP"] = On /\ is_suggestion_mode_request(r)
    \/ is_filepath_extraction_request(r)

ServerTools == {"web_search", "web_fetch"}
Forced(r) == r.forced \in ServerTools
WebTools(s) == s["ENABLE_WEB_SERVER_TOOLS"] = On

\* A chat upstream cannot serve a server tool.
Refused(s, r) ==
    \/ Forced(r) /\ ~WebTools(s)
    \/ ~Forced(r) /\ r.tools \cap ServerTools # {}

\* What becomes of a request; the Responses API has no intercepts.
Outcome(s, r) ==
    LET to == ResolveModel(s, r.model).ref
        chat == to[1] \in ChatProviders
    IN  IF Said(r) = <<>> THEN "error"
        ELSE IF r.api = "count" THEN "counted"
        ELSE IF chat /\ Refused(s, r) THEN "error"
        ELSE IF r.api = "messages" /\ WebTools(s) /\ Forced(r) /\ r.forced \in r.tools THEN "web"
        ELSE IF r.api = "messages" /\ Optimized(s, r) THEN "local"
        ELSE IF chat THEN "chat" ELSE "native"

Thinking(s, r) ==
    /\ ResolveModel(s, r.model).thinking
    /\ ~(r.api = "messages" /\ is_safety_classifier_request(r))

-----------------------------------------------------------------------------
(* The local web tools.                                                    *)

\* Hosts of the instance, and what a name server may answer for each.
Hosts == {"site", "localhost", "moving"}
Answers(host) ==
    CASE host = "site" -> {{"public"}}
      [] host = "localhost" -> {{"private"}}
      [] OTHER -> {{"public"}, {"private"}, {"public", "private"}}

\* Whether a fetch may go on to the addresses a name server has given.
PermittedDefect(policy, host, found) == policy \/ (host # "localhost" /\ "public" \in found)
Permitted(policy, host, found) == policy \/ (host # "localhost" /\ found \subseteq {"public"})

NoFetch == [step |-> "idle", host |-> "", pinned |-> {}, hops |-> 0, policy |-> FALSE, reached |-> {}]

\* The first two events and the tool block are sent, and the first address is looked up.
FetchBegins(s) ==
    \E host \in Hosts :
        fetch' = [NoFetch EXCEPT !.step = "resolve", !.host = host,
                                 !.policy = s["WEB_FETCH_ALLOW_PRIVATE_NETWORKS"] = On]

Resolved ==
    /\ fetch.step = "resolve"
    /\ \E found \in Answers(fetch.host) :
          fetch' = IF Permitted(fetch.policy, fetch.host, found)
                   THEN [fetch EXCEPT !.step = "request", !.pinned = found]
                   ELSE [fetch EXCEPT !.step = "failed"]
    /\ UNCHANGED <<adminVars, known, answer>>

\* The request goes to one of the addresses that were looked up.
Fetched ==
    /\ fetch.step = "request"
    /\ \E a \in fetch.pinned, done \in {"done", "failed"} :
          fetch' = [fetch EXCEPT !.reached = @ \cup {a}, !.step = done]
    /\ UNCHANGED <<adminVars, known, answer>>

Redirected ==
    /\ fetch.step = "request"
    /\ \E a \in fetch.pinned, host \in Hosts :
          fetch' = IF fetch.hops >= MaxHops
                   THEN [fetch EXCEPT !.reached = @ \cup {a}, !.step = "failed"]
                   ELSE [fetch EXCEPT !.reached = @ \cup {a}, !.step = "resolve",
                                      !.host = host, !.hops = @ + 1, !.pinned = {}]
    /\ UNCHANGED <<adminVars, known, answer>>

-----------------------------------------------------------------------------
GwInit ==
    /\ AdminInit
    /\ known = {}
    /\ answer = "none"
    /\ fetch = NoFetch

Configure ==
    /\ AdminNext
    /\ UNCHANGED gwVars

\* GET /v1/models.
ListModels ==
    /\ inUse # <<>>
    /\ known' = known \cup Listed(inUse)
    /\ UNCHANGED <<adminVars, answer, fetch>>

\* POST /v1/messages, /v1/messages/count_tokens and /v1/responses.
Handle(r) ==
    /\ inUse # <<>>
    /\ fetch.step \notin {"resolve", "request"}
    /\ answer' = [to |-> Outcome(inUse, r), thinking |-> Thinking(inUse, r)]
    /\ IF Outcome(inUse, r) = "web" /\ r.forced = "web_fetch"
       THEN FetchBegins(inUse)
       ELSE fetch' = NoFetch
    /\ UNCHANGED <<adminVars, known>>

Request == \E r \in Incoming : Handle(r)

GwNext == Configure \/ ListModels \/ Request \/ Resolved \/ Fetched \/ Redirected

GwSpec == GwInit /\ [][GwNext]_all

-----------------------------------------------------------------------------
(* Properties.                                                             *)

\* An id that was ever listed keeps routing to the model it was listed for, and
\* thinks only if it was listed so, however the configuration has changed since:
\* clients hold on to a list while the admin page replaces the models.
ListedStaysRoutable ==
    inUse # <<>> =>
        \A e \in known :
            LET to == ResolveModel(inUse, e.id)
            IN  to.ref = e.ref /\ (to.thinking => e.free)

\* A fetch never reaches an address that the policy of its request rules out,
\* over redirects and name servers that change their answers, and it follows
\* only so many redirects.
FetchStaysInside ==
    /\ "private" \in fetch.reached => fetch.policy
    /\ fetch.hops <= MaxHops
=============================================================================
