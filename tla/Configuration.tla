--------------------------- MODULE Configuration ---------------------------
(***************************************************************************)
(* What ols/app/models/config.py makes of a configuration file, with       *)
(* ols/utils/checks.py, ols/utils/tls.py and ols/utils/ssl.py: which files *)
(* are accepted, and what the accepted ones mean.                          *)
(*                                                                         *)
(* A document d is a record.  d.missing holds the keys that are left out,  *)
(* d.invalid those whose value is not of its kind (a file that cannot be   *)
(* read, a URL that is none, a word where a number belongs); the values    *)
(* that decide something are fields of their own.  Every check raises, and *)
(* one that raises refuses the document, so their order does not matter.   *)
(***************************************************************************)
EXTENDS Integers, FiniteSets

Has(d, key) == key \notin d.missing
Good(d, key) == key \notin d.invalid

-----------------------------------------------------------------------------
(* Models and providers *)

\* Ratios are percentages.
ModelParameters(m) ==
    /\ m.max_tokens_for_response > 0
    /\ m.tool_budget_ratio \in 10..60

ModelConfig(d) ==
    /\ Has(d, "model name") /\ Good(d, "model credentials") /\ Good(d, "options")
    /\ \A m \in d.models : m.context_window_size > 0 /\ ModelParameters(m)

SUPPORTED_PROVIDER_TYPES ==
    {"openai", "azure_openai", "watsonx", "rhoai_vllm", "rhelai_vllm", "fake_provider",
     "google_vertex_anthropic", "google_vertex", "bedrock"}

set_provider_type(d) == d.provider_type \in SUPPORTED_PROVIDER_TYPES

\* Required attributes are there, and no unknown ones.
ProviderSpecificConfig(d) == Good(d, "provider config")

\* d.provider_configs: the providers with a section of their own.
check_provider_config(d) == d.provider_configs = {d.provider_type}

set_provider_specific_configuration(d) ==
    d.provider_configs # {} =>
        /\ check_provider_config(d)
        /\ d.provider_type # "bedrock"
        /\ ProviderSpecificConfig(d)

ProviderConfig(d) ==
    /\ set_provider_type(d)
    /\ Good(d, "credentials_path") \/ d.provider_type = "bedrock"
    /\ d.provider_type = "watsonx" => Has(d, "project_id")
    /\ set_provider_specific_configuration(d)

setup_models_config(d) == d.models # {} /\ ModelConfig(d)

LLMProviders(d) ==
    /\ Has(d, "llm_providers") /\ Has(d, "provider name") /\ Good(d, "provider url")
    /\ ProviderConfig(d)
    /\ setup_models_config(d)

-----------------------------------------------------------------------------
(* Transport security *)

TLSConfig(d) ==
    /\ Good(d, "tls_key_password_path")
    /\ \/ d.disable_tls
       \/ \A key \in {"tls_certificate_path", "tls_key_path"} : Has(d, key) /\ Good(d, key)

\* Versions are 10 to 13, and 0 if there is none in the file.
TLSProtocolVersion == 10..13
MIN_ALLOWED_TLS_VERSION == 12

_validate_profile_type(p) == p.type \in {"IntermediateType", "ModernType", "Custom"}

_validate_min_tls_version(p) ==
    p.minTLSVersion \in TLSProtocolVersion /\ p.minTLSVersion >= MIN_ALLOWED_TLS_VERSION

\* p.ciphers: no list, only ciphers of the profile, or others too.
TLSSecurityProfile(p) ==
    /\ p.type # "none" => _validate_profile_type(p)
    /\ p.minTLSVersion # 0 => _validate_min_tls_version(p)
    /\ p.ciphers = "others" => p.type \in {"none", "Custom"}

\* MIN_TLS_VERSIONS has no entry for a custom profile.
min_tls_version_known(p) == p.type = "Custom" => p.minTLSVersion # 0

MIN_TLS_VERSIONS == [OldType |-> 10, IntermediateType |-> 12, ModernType |-> 13]

min_tls_version(p) ==
    IF p.minTLSVersion # 0 THEN p.minTLSVersion ELSE MIN_TLS_VERSIONS[p.type]

\* external: what Python's ssl and libpq insist on by themselves.
DEFAULT_MIN_VERSION == 12

get_min_tls_version(p) ==
    IF p.type = "none" THEN DEFAULT_MIN_VERSION ELSE min_tls_version(p)

-----------------------------------------------------------------------------
(* The sections of ols_config *)

ProxyConfig(d) ==
    /\ Has(d, "proxy_url") \/ ~Has(d, "proxy_ca_cert_path")
    /\ Good(d, "proxy_url") /\ Good(d, "proxy_ca_cert_path")

DEFAULT_AUTHENTICATION_MODULE == "k8s"
module(d) == IF d.module = "none" THEN DEFAULT_AUTHENTICATION_MODULE ELSE d.module
AuthenticationConfig(d) == module(d) \in {"k8s", "noop", "noop-with-token"}

\* A database: its port and its password file.
PostgresConfig(d, section) == Good(d, section)

InMemoryCacheConfig(d) == Good(d, "max_entries") /\ d.max_entries >= 0

ConversationCacheConfig(d) ==
    /\ Has(d, "conversation_cache")
    /\ \/ d.cache_type = "memory" /\ InMemoryCacheConfig(d)
       \/ d.cache_type = "postgres" /\ PostgresConfig(d, "conversation_cache")

QueryFilter(d) == Has(d, "pattern") /\ Good(d, "pattern")

\* A path that is no readable directory, or an id without a path.
ReferenceContent(d) == Good(d, "indexes")

SolrHybridSettings(d) == d.solr_hybrid => Good(d, "solr_http_base")

\* d.collected: what is switched on of feedback and transcripts.
UserDataCollection(d) == \A storage \in d.collected : Has(d, storage)

LimitersConfig(d) == Has(d, "limiter name") /\ Good(d, "limiters")

QuotaHandlersConfig(d) ==
    d.quota_handlers =>
        /\ Has(d, "storage") /\ Has(d, "scheduler")
        /\ PostgresConfig(d, "storage") /\ LimitersConfig(d)

LoggingConfig(d) == Good(d, "log_level")

tool_round_cap_fraction(d) == d.tool_round_cap_fraction \in 30..80

\* What the constructors refuse.
OLSConfig(d) ==
    /\ Has(d, "ols_config")
    /\ LoggingConfig(d) /\ UserDataCollection(d) /\ QuotaHandlersConfig(d)
    /\ tool_round_cap_fraction(d)

\* OLSConfig.validate_yaml: what is refused once everything has been read.
validate_yaml(d) ==
    /\ ConversationCacheConfig(d) /\ ReferenceContent(d) /\ TLSConfig(d)
    /\ QueryFilter(d) /\ TLSSecurityProfile(d.tlsSecurityProfile)
    /\ AuthenticationConfig(d) /\ ProxyConfig(d) /\ SolrHybridSettings(d)

\* The database connections of the service.
Databases(d) ==
    (IF d.cache_type = "postgres" THEN {"conversation_cache"} ELSE {})
    \cup (IF d.quota_handlers THEN {"quota_handlers"} ELSE {})

\* Mutant: the database of the quotas is forgotten.
_propagate_tls_profile_CacheOnly(d) ==
    IF d.tlsSecurityProfile.type = "none" THEN {} ELSE Databases(d) \ {"quota_handlers"}

\* Those that get the profile of the service.
_propagate_tls_profile(d) ==
    IF d.tlsSecurityProfile.type = "none" THEN {} ELSE Databases(d)

\* The ssl_min_protocol_version of a connection.
libpq_tls_params(d, database) ==
    IF database \in _propagate_tls_profile(d)
    THEN get_min_tls_version(d.tlsSecurityProfile) ELSE DEFAULT_MIN_VERSION

\* The connections that can use TLS.  The service does when it is given a
\* certificate or a key: disable_tls only lifts the duty to name them.  A
\* database does unless its ssl_mode says not to.
Encrypted(d) ==
    {s \in {"service"} : Has(d, "tls_certificate_path") \/ Has(d, "tls_key_path")}
    \cup {s \in Databases(d) : d.ssl_mode[s] # "disable"}

-----------------------------------------------------------------------------
(* The whole document *)

\* A server with a header nobody can fill in is dropped.
resolve_headers(d, headers) ==
    /\ "kubernetes" \in headers => module(d) \in {"k8s", "noop-with-token"}
    /\ "unreadable" \notin headers

validate_mcp_servers(d) == {headers \in d.mcp_servers : resolve_headers(d, headers)}

check_duplicite_servers(d) == Good(d, "mcp_servers")

reserve_tool_budget(d) == validate_mcp_servers(d) # {} \/ d.solr_hybrid

max_tokens_for_tools(d, m) ==
    IF reserve_tool_budget(d) THEN (m.context_window_size * m.tool_budget_ratio) \div 100 ELSE 0

_compute_tool_budgets(d) ==
    \A m \in d.models :
        m.context_window_size > m.max_tokens_for_response + max_tokens_for_tools(d, m)

_validate_default_provider_and_model(d) ==
    \A key \in {"default_provider", "default_model"} : Has(d, key) /\ Good(d, key)

Config(d) ==
    /\ OLSConfig(d) /\ validate_yaml(d) /\ LLMProviders(d) /\ check_duplicite_servers(d)
    /\ _compute_tool_budgets(d)
    /\ _validate_default_provider_and_model(d)
=============================================================================
