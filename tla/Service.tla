------------------------------ MODULE Service ------------------------------
(***************************************************************************)
(* The life of the process: runner.py loads the configuration, prepares,   *)
(* starts a thread that loads the search indexes, and serves; the probes   *)
(* of ols/app/endpoints/health.py say whether requests should be sent to   *)
(* it.  ols/utils/config.py creates what it hands out on first use,        *)
(* without a lock, and ols/src/rag_index/index_loader.py loads indexes in  *)
(* its constructor.                                                        *)
(*                                                                         *)
(* Probes run in threads of their own and overlap when one of them is      *)
(* slow.  What they wait for (the model, the database, the disk) is up or  *)
(* down as the environment likes; the cache's connection to the database   *)
(* is opened, lost and opened again as ols/utils/postgres.py does it.      *)
(* Instead of llm_is_ready_timestamp the model keeps the seconds since     *)
(* then, up to the time of expiry.                                         *)
(***************************************************************************)
EXTENDS Configuration

CONSTANTS
    Document,       \* configuration files
    Probe,          \* threads that answer readiness probes
    Index           \* search indexes

ASSUME DocumentAssumption == \A d \in Document : d.indexes \subseteq Index /\ d.expire \in Int

load_index == "load_index"
ASSUME ProbeAssumption == load_index \notin Probe
Thread == Probe \cup {load_index}
None == <<>>

VARIABLES
    main,           \* how far runner.py is
    config,         \* what the service takes from its configuration
    disk,           \* the indexes that can be read, and whether the embedding model can
    _rag_index_loader,      \* None, or one value: the set of indexes loaded
    llm_works, database,    \* the model answers; the database does
    _conversation_cache,    \* "none" before its first use, "memory", or a connection: "open", "lost"
    llm_is_ready_persistent_state,
    idle,           \* seconds since llm_is_ready_timestamp
    lapsed,         \* history: the time of expiry went by without a probe since a success was stored
    at,             \* where a thread is
    answer          \* the last answer of a probe

environment == <<disk, llm_works, database>>
readiness == <<llm_is_ready_persistent_state, idle, lapsed>>
created == <<_rag_index_loader, _conversation_cache>>
vars == <<main, config, environment, readiness, created, at, answer>>

\* What _load_config_from_yaml_stream makes of an accepted document.
Loaded(d) ==
    LET known == min_tls_version_known(d.tlsSecurityProfile) IN
    [profile_known |-> known,
     min_versions |-> [c \in IF known THEN Encrypted(d) ELSE {} |->
                          IF c = "service" THEN get_min_tls_version(d.tlsSecurityProfile)
                          ELSE libpq_tls_params(d, c)],
     cache_type |-> d.cache_type,
     indexes |-> d.indexes,
     expire |-> d.expire]

Serving == main = "serving"
expiry == IF config # None /\ config.expire > 0 THEN config.expire ELSE 0

Init ==
    /\ main = "start"
    /\ config = None
    /\ disk = [indexes |-> Index, embeddings |-> TRUE]
    /\ _rag_index_loader = None
    /\ _conversation_cache = "none"
    /\ llm_works \in BOOLEAN /\ database \in BOOLEAN
    /\ llm_is_ready_persistent_state = FALSE
    /\ idle = 0
    /\ lapsed = FALSE
    /\ at = [t \in Thread |-> "idle"]
    /\ answer = [p \in Probe |-> "none"]

To(t, where) == at' = [at EXCEPT ![t] = where]

-----------------------------------------------------------------------------
(* Start-up *)

\* A document that is not accepted ends the process.
reload_from_yaml_file ==
    /\ main = "start"
    /\ \E d \in Document :
          \/ /\ Config(d)
             /\ config' = Loaded(d)
             /\ main' = "configured"
             \* The timestamp is 0, a long time ago.
             /\ idle' = IF d.expire > 0 THEN d.expire ELSE 0
          \/ /\ ~Config(d)
             /\ main' = "stopped"
             /\ UNCHANGED <<config, idle>>
    /\ UNCHANGED <<environment, created, llm_is_ready_persistent_state, lapsed, at, answer>>

\* Certificates, the cluster's id, tracing: any of them may raise.  Then the
\* thread that loads the indexes starts.
prepare ==
    /\ main = "configured"
    /\ \/ main' = "prepared" /\ To(load_index, "index")
       \/ main' = "stopped" /\ UNCHANGED at
    /\ UNCHANGED <<config, environment, readiness, created, answer>>

\* A custom profile without a version is accepted, and not found in the table.
\* Certificates that do not load, or a port in use, end the process too.
start_uvicorn ==
    /\ main = "prepared"
    /\ \/ config.profile_known /\ main' = "serving"
       \/ main' = "stopped"
    /\ UNCHANGED <<config, environment, readiness, created, at, answer>>

-----------------------------------------------------------------------------
(* Indexes *)

\* Mutant: one index that cannot be read, and none is used.
_load_index_AllOrNothing ==
    IF config.indexes \subseteq disk.indexes THEN config.indexes ELSE {}

\* What can be read of the configured indexes; none is the same as not loaded.
_load_index == config.indexes \cap disk.indexes

\* A probe goes on to the model or answers; the loading thread is over.
IndexKnown(t, ready) ==
    IF t = load_index THEN To(t, "over") /\ UNCHANGED answer
    ELSE IF ready THEN To(t, "llm") /\ UNCHANGED answer
    ELSE To(t, "idle") /\ answer' = [answer EXCEPT ![t] = "not ready"]

\* index_is_ready, and rag_index of AppConfig.
rag_index(t) ==
    /\ at[t] = "index"
    /\ IF config.indexes # {} /\ _rag_index_loader = None
       THEN To(t, "load") /\ UNCHANGED answer
       ELSE IndexKnown(t, config.indexes = {} \/ _rag_index_loader # <<{}>>)
    /\ UNCHANGED <<main, config, environment, readiness, created>>

\* The constructor, and only then the assignment.  A second thread constructs
\* a loader of its own meanwhile.
IndexLoader(t) ==
    /\ at[t] = "load"
    /\ IF disk.embeddings
       THEN /\ _rag_index_loader' = <<_load_index>>
            /\ IndexKnown(t, _load_index # {})
       ELSE IndexKnown(t, FALSE) /\ UNCHANGED _rag_index_loader
    /\ UNCHANGED <<main, config, environment, readiness, _conversation_cache>>

-----------------------------------------------------------------------------
(* Probes *)

readiness_probe_get_method(p) ==
    /\ Serving
    /\ at[p] = "idle"
    /\ To(p, "index")
    /\ answer' = [answer EXCEPT ![p] = "none"]
    /\ UNCHANGED <<main, config, environment, readiness, created>>

\* The time of the call is kept by every call, the cached ones too.
llm_is_ready(p) ==
    LET expired == expiry > 0 /\ idle >= expiry IN
    /\ at[p] = "llm"
    /\ idle' = 0
    /\ lapsed' = (lapsed \/ expired)
    /\ To(p, IF llm_is_ready_persistent_state /\ ~expired THEN "cache" ELSE "forget")
    /\ UNCHANGED <<main, config, environment, created, llm_is_ready_persistent_state, answer>>

\* Mutant: the success of old is kept while the model is asked again.
forget_Keeps(p) ==
    /\ at[p] = "forget"
    /\ To(p, "ask")
    /\ UNCHANGED <<main, config, environment, readiness, created, answer>>

forget(p) ==
    /\ at[p] = "forget"
    /\ llm_is_ready_persistent_state' = FALSE
    /\ To(p, "ask")
    /\ UNCHANGED <<main, config, environment, created, idle, lapsed, answer>>

\* The model is loaded and asked; an exception or a strange answer is a no.
ask_llm(p) ==
    /\ at[p] = "ask"
    /\ IF llm_works
       THEN To(p, "store") /\ UNCHANGED answer
       ELSE To(p, "idle") /\ answer' = [answer EXCEPT ![p] = "not ready"]
    /\ UNCHANGED <<main, config, environment, readiness, created>>

store_success(p) ==
    /\ at[p] = "store"
    /\ llm_is_ready_persistent_state' = TRUE
    /\ lapsed' = FALSE
    /\ To(p, "cache")
    /\ UNCHANGED <<main, config, environment, created, idle, answer>>

\* AppConfig.conversation_cache: an instance is created on first use.  That of
\* a database connects at once; if it cannot, there is still none.
conversation_cache ==
    IF _conversation_cache # "none" THEN _conversation_cache
    ELSE IF config.cache_type = "memory" THEN "memory"
    ELSE IF database THEN "open" ELSE "none"

\* It looks at the connection, and does not open it again.
ready(c) == c \in {"memory", "open"}

cache_is_ready(p) ==
    /\ at[p] = "cache"
    /\ _conversation_cache' = conversation_cache
    /\ answer' = [answer EXCEPT ![p] = IF ready(conversation_cache) THEN "ready" ELSE "not ready"]
    /\ To(p, "idle")
    /\ UNCHANGED <<main, config, environment, readiness, _rag_index_loader>>

\* A request uses the cache: the wrapper of utils/postgres.py tries the
\* connection, and connects when it is lost.
use_cache ==
    /\ Serving
    /\ _conversation_cache' =
          IF conversation_cache \in {"open", "lost"} THEN IF database THEN "open" ELSE "lost"
          ELSE conversation_cache
    /\ UNCHANGED <<main, config, environment, readiness, _rag_index_loader, at, answer>>

-----------------------------------------------------------------------------
(* Environment *)

tick ==
    /\ idle < expiry
    /\ idle' = idle + 1
    /\ UNCHANGED <<main, config, environment, created,
                   llm_is_ready_persistent_state, lapsed, at, answer>>

\* A connection is lost when the database ends it, or nobody notices.
backend_changes ==
    /\ Serving
    /\ \/ llm_works' = ~llm_works /\ UNCHANGED <<database, _conversation_cache>>
       \/ /\ database' = ~database /\ UNCHANGED llm_works
          /\ \/ database /\ _conversation_cache = "open" /\ _conversation_cache' = "lost"
             \/ UNCHANGED _conversation_cache
    /\ UNCHANGED <<main, config, disk, readiness, _rag_index_loader, at, answer>>

\* What the disk holds matters while somebody is about to read it, and may be
\* anything by then.
disk_changes ==
    /\ \E t \in Thread : at[t] = "load"
    /\ disk' \in [indexes : SUBSET Index, embeddings : BOOLEAN]
    /\ UNCHANGED <<main, config, llm_works, database, readiness, created, at, answer>>

StartUp == reload_from_yaml_file \/ prepare \/ start_uvicorn

Step(t) ==
    \/ rag_index(t) \/ IndexLoader(t)
    \/ /\ t \in Probe
       /\ \/ readiness_probe_get_method(t) \/ llm_is_ready(t) \/ forget(t)
          \/ ask_llm(t) \/ store_success(t) \/ cache_is_ready(t)

Next ==
    \/ StartUp \/ use_cache
    \/ tick \/ backend_changes \/ disk_changes
    \/ \E t \in Thread : Step(t)

\* Threads are scheduled, and the kubelet keeps probing.  Nothing is assumed
\* of the start-up, nor of requests: a service that is not ready gets none.
Spec == Init /\ [][Next]_vars /\ \A t \in Thread : WF_vars(Step(t))

-----------------------------------------------------------------------------
(* Properties *)

\* One floor for every connection of a running service that can use TLS, its
\* own and those to its databases: TLS 1.2 at least, and the same for all,
\* although get_min_tls_version and libpq_tls_params find it separately and
\* _propagate_tls_profile has to reach every section with a database.
OneTLSFloor ==
    Serving =>
        \A c, e \in DOMAIN config.min_versions :
            config.min_versions[c] >= 12 /\ config.min_versions[c] = config.min_versions[e]

\* A success stored before a pause of the probes as long as the expiry is not
\* what a probe answers with: it is forgotten, unless the probe that found the
\* pause is just about to.
OldSuccessForgotten ==
    lapsed /\ llm_is_ready_persistent_state => \E p \in Probe : at[p] = "forget"

\* What readiness takes: the process serves; whoever constructs a loader can
\* read some configured index at that moment, and from some time on the
\* embedding model; the model and the database work from some time on.
Recovered ==
    /\ <>Serving
    /\ [](\A t \in Thread : at[t] = "load" => config.indexes \cap disk.indexes # {})
    /\ <>[]disk.embeddings
    /\ <>[](llm_works /\ database)

Ready == \E p \in Probe : answer[p] = "ready"

\* However its threads raced to load the indexes, to check the model and to
\* create the cache, and whichever of them failed: a service that has recovered,
\* and whose lost connection some request has opened again, answers ready again
\* and again.  (That premise is needed: ready() of PostgresCache does not connect,
\* and a service that is not ready gets no requests.)
EventuallyReady == Recovered /\ []<>(_conversation_cache # "lost") => []<>Ready
=============================================================================
