----------------------------- MODULE MC_Service -----------------------------
(***************************************************************************)
(* Documents: one that is accepted, and its variations: a key left out or  *)
(* spoilt, the numbers around the limits, every kind of TLS profile, every *)
(* kind of provider section; and, for the probes, indexes, times of expiry *)
(* and caches in combination.                                              *)
(***************************************************************************)
EXTENDS Service

Model(c, r, t) == [context_window_size |-> c, max_tokens_for_response |-> r, tool_budget_ratio |-> t]
Profile(t, v, c) == [type |-> t, minTLSVersion |-> v, ciphers |-> c]

SSLModes(c, q) == [conversation_cache |-> c, quota_handlers |-> q]

Base ==
    [missing |-> {"proxy_url", "proxy_ca_cert_path"}, invalid |-> {},
     models |-> {Model(10, 2, 50)}, mcp_servers |-> {{"kubernetes"}}, solr_hybrid |-> FALSE,
     provider_type |-> "openai", provider_configs |-> {},
     cache_type |-> "memory", max_entries |-> 1, quota_handlers |-> FALSE,
     module |-> "none", disable_tls |-> FALSE, ssl_mode |-> SSLModes("require", "require"),
     tlsSecurityProfile |-> Profile("none", 0, "none"),
     collected |-> {"feedback_storage"}, tool_round_cap_fraction |-> 60,
     indexes |-> {}, expire |-> -1]

Keys ==
    {"model name", "model credentials", "options", "provider name", "provider url", "provider config",
     "credentials_path", "llm_providers", "ols_config", "tls_certificate_path", "tls_key_path",
     "tls_key_password_path", "proxy_url", "proxy_ca_cert_path", "conversation_cache", "max_entries",
     "pattern", "indexes", "feedback_storage", "log_level", "mcp_servers",
     "default_provider", "default_model"}

Spoilt == {[Base EXCEPT !.missing = @ \cup {k}] : k \in Keys} \cup {[Base EXCEPT !.invalid = {k}] : k \in Keys}
          \cup {[Base EXCEPT !.missing = @ \ {"proxy_ca_cert_path"}]}

Numbers ==
    {[Base EXCEPT !.models = {Model(c, r, t)}, !.mcp_servers = s, !.module = m] :
        c \in {9, 10}, r \in {0, 4, 5, 9, 10}, t \in {9, 10, 50, 60, 61},
        s \in {{}, {{"kubernetes"}}, {{"unreadable"}}}, m \in {"none", "noop", "other"}}

Profiles ==
    {[Base EXCEPT !.tlsSecurityProfile = Profile(t, v, c), !.cache_type = b, !.quota_handlers = q] :
        t \in {"none", "OldType", "IntermediateType", "ModernType", "Custom"},
        v \in {0, 9, 11, 12, 13}, c \in {"none", "listed", "others"},
        b \in {"memory", "postgres", "none"}, q \in BOOLEAN}

Plain ==
    {[Base EXCEPT !.disable_tls = d, !.missing = @ \cup k, !.ssl_mode = SSLModes(c, q),
                  !.cache_type = "postgres", !.quota_handlers = TRUE,
                  !.tlsSecurityProfile = Profile(t, v, "none")] :
        d \in BOOLEAN, k \in {{}, {"tls_key_path"}, {"tls_certificate_path", "tls_key_path"}},
        c \in {"disable", "prefer", "require"}, q \in {"disable", "prefer", "require"},
        t \in {"none", "ModernType", "Custom"}, v \in {0, 13}}

Providers ==
    {[Base EXCEPT !.provider_type = t, !.provider_configs = c, !.missing = @ \cup m] :
        t \in {"openai", "watsonx", "bedrock", "other"}, c \in SUBSET {"openai", "bedrock"},
        m \in {{}, {"project_id"}}}

Quotas == {[Base EXCEPT !.quota_handlers = TRUE, !.missing = @ \cup {k}] :
              k \in {"storage", "scheduler", "limiter name"}}

Probed ==
    {[Base EXCEPT !.indexes = {}, !.expire = 2, !.cache_type = "postgres"],
     [Base EXCEPT !.indexes = Index, !.expire = 2, !.cache_type = "memory"],
     [Base EXCEPT !.indexes = Index, !.expire = -1, !.cache_type = "postgres"]}

Documents == Spoilt \cup Numbers \cup Profiles \cup Plain \cup Providers \cup Quotas \cup Probed
=============================================================================
