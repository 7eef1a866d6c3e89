--------------------------- MODULE Service_proofs ---------------------------
(***************************************************************************)
(* Guarantees of the configuration and of the readiness probe, for any     *)
(* configuration files and any number of probes.                           *)
(*                                                                         *)
(* The first part is about ols/app/models/config.py and ols/utils/ssl.py   *)
(* alone: the TLS floor of an accepted document.  The invariant carries that from the  *)
(* start of the process to the probes, and follows a success of the model  *)
(* through the probes that overlap.                                        *)
(***************************************************************************)
EXTENDS Service, TLAPS

\* Where a thread can be, and what a service past its configuration works with.
ThreadsOK ==
    /\ at \in [Thread -> {"idle", "index", "load", "llm", "forget", "ask", "store", "cache", "over"}]
    /\ llm_is_ready_persistent_state \in BOOLEAN
    /\ lapsed \in BOOLEAN

Configured ==
    /\ main \in {"configured", "prepared", "serving"} =>
          \E d \in Document : Config(d) /\ config = Loaded(d)
    /\ Serving => config.profile_known

ServiceInv == ThreadsOK /\ Configured /\ OldSuccessForgotten

-----------------------------------------------------------------------------
(* Accepted documents *)

\* The version of a profile that was accepted and is known is one of the table,
\* and never below MIN_ALLOWED_TLS_VERSION.
LEMMA ProfileVersion ==
    ASSUME NEW p, TLSSecurityProfile(p), min_tls_version_known(p)
    PROVE  get_min_tls_version(p) \in 12..13
<1> USE DEF TLSSecurityProfile, min_tls_version_known
<1>1. CASE p.type = "none"
  BY <1>1 DEF get_min_tls_version, DEFAULT_MIN_VERSION
<1>2. CASE p.type # "none" /\ p.minTLSVersion # 0
  <2>1. get_min_tls_version(p) = p.minTLSVersion
    BY <1>2 DEF get_min_tls_version, min_tls_version
  <2>2. p.minTLSVersion \in 10..13 /\ p.minTLSVersion >= 12
    BY <1>2 DEF _validate_min_tls_version, TLSProtocolVersion, MIN_ALLOWED_TLS_VERSION
  <2>3. QED
    BY <2>1, <2>2
<1>3. CASE p.type # "none" /\ p.minTLSVersion = 0
  <2>1. p.type \in {"IntermediateType", "ModernType"}
    BY <1>3 DEF _validate_profile_type
  <2>2. QED
    BY <1>3, <2>1 DEF get_min_tls_version, min_tls_version, MIN_TLS_VERSIONS
<1>4. QED
  BY <1>1, <1>2, <1>3

\* Whichever of its connections can use TLS, the service asks the profile's
\* version of it.
LEMMA FloorOfProfile ==
    ASSUME NEW d \in Document, Config(d), Loaded(d).profile_known,
           NEW c \in DOMAIN Loaded(d).min_versions
    PROVE  /\ get_min_tls_version(d.tlsSecurityProfile) \in 12..13
           /\ Loaded(d).min_versions[c] = get_min_tls_version(d.tlsSecurityProfile)
<1> DEFINE p == d.tlsSecurityProfile
           versions == [s \in Encrypted(d) |->
                           IF s = "service" THEN get_min_tls_version(p) ELSE libpq_tls_params(d, s)]
<1>1. min_tls_version_known(p) /\ Loaded(d).min_versions = versions
  BY DEF Loaded
<1>2. TLSSecurityProfile(p)
  BY DEF Config, validate_yaml
<1>3. get_min_tls_version(p) \in 12..13
  BY <1>1, <1>2, ProfileVersion
<1>4. c \in Encrypted(d) /\ Loaded(d).min_versions[c] =
         IF c = "service" THEN get_min_tls_version(p) ELSE libpq_tls_params(d, c)
  BY <1>1
<1>5. ASSUME c # "service" PROVE libpq_tls_params(d, c) = get_min_tls_version(p)
  <2>1. c \in Databases(d)
    BY <1>4, <1>5 DEF Encrypted
  <2>2. QED
    BY <2>1 DEF libpq_tls_params, _propagate_tls_profile, get_min_tls_version
<1>6. QED
  BY <1>3, <1>4, <1>5

-----------------------------------------------------------------------------
(* Steps *)

\* A step of one thread that leaves what is stored about the model alone.
LEMMA Moves ==
    ASSUME ServiceInv, NEW t \in Thread, NEW where, To(t, where), at[t] # "forget",
           where \in {"idle", "index", "load", "llm", "forget", "ask", "store", "cache", "over"},
           UNCHANGED <<main, config, llm_is_ready_persistent_state, lapsed>>
    PROVE  ServiceInv'
<1>1. at' = [at EXCEPT ![t] = where]
  BY DEF To
<1>2. ThreadsOK'
  BY <1>1 DEF ServiceInv, ThreadsOK
<1>3. Configured'
  BY DEF ServiceInv, Configured, Serving
<1>4. \A p \in Probe : at[p] = "forget" => at'[p] = "forget"
  BY <1>1 DEF ServiceInv, ThreadsOK, Thread
<1>5. OldSuccessForgotten'
  BY <1>4 DEF ServiceInv, OldSuccessForgotten
<1>6. QED
  BY <1>2, <1>3, <1>5 DEF ServiceInv

\* The rest of the world, and what is only read.
LEMMA Stays ==
    ASSUME ServiceInv, UNCHANGED <<main, config, llm_is_ready_persistent_state, lapsed, at>>
    PROVE  ServiceInv'
  BY DEF ServiceInv, ThreadsOK, Configured, Serving, OldSuccessForgotten

LEMMA ServiceStep == ServiceInv /\ [Next]_vars => ServiceInv'
<1> SUFFICES ASSUME ServiceInv, [Next]_vars PROVE ServiceInv'
  OBVIOUS
<1> USE DEF environment, readiness, created
<1>1. CASE reload_from_yaml_file
  <2>1. UNCHANGED <<llm_is_ready_persistent_state, lapsed, at>>
    BY <1>1 DEF reload_from_yaml_file
  <2>2. ThreadsOK' /\ OldSuccessForgotten'
    BY <2>1 DEF ServiceInv, ThreadsOK, OldSuccessForgotten
  <2>3. PICK d \in Document : \/ Config(d) /\ config' = Loaded(d) /\ main' = "configured"
                              \/ main' = "stopped"
    BY <1>1 DEF reload_from_yaml_file
  <2>4. QED
    BY <2>2, <2>3 DEF ServiceInv, Configured, Serving
<1>2. CASE prepare
  <2>1. /\ main = "configured" /\ UNCHANGED <<config, llm_is_ready_persistent_state, lapsed>>
        /\ \/ main' = "prepared" /\ To(load_index, "index")
           \/ main' = "stopped" /\ UNCHANGED at
    BY <1>2 DEF prepare
  <2>2. Configured'
    BY <2>1 DEF ServiceInv, Configured, Serving
  <2>3. ThreadsOK'
    BY <2>1 DEF ServiceInv, ThreadsOK, To
  <2>4. OldSuccessForgotten'
    <3>1. \A p \in Probe : at'[p] = at[p]
      BY <2>1, ProbeAssumption DEF ServiceInv, ThreadsOK, Thread, To
    <3>2. QED
      BY <2>1, <3>1 DEF ServiceInv, OldSuccessForgotten
  <2>5. QED
    BY <2>2, <2>3, <2>4 DEF ServiceInv
<1>3. CASE start_uvicorn
  <2>1. /\ main = "prepared" /\ UNCHANGED <<config, llm_is_ready_persistent_state, lapsed, at>>
        /\ (config.profile_known /\ main' = "serving") \/ main' = "stopped"
    BY <1>3 DEF start_uvicorn
  <2>2. Configured'
    BY <2>1 DEF ServiceInv, Configured, Serving
  <2>3. ThreadsOK' /\ OldSuccessForgotten'
    BY <2>1 DEF ServiceInv, ThreadsOK, OldSuccessForgotten
  <2>4. QED
    BY <2>2, <2>3 DEF ServiceInv
<1>4. CASE tick
  BY <1>4, Stays DEF tick
<1>5. CASE backend_changes
  BY <1>5, Stays DEF backend_changes
<1>6. ASSUME NEW t \in Thread, rag_index(t) PROVE ServiceInv'
  BY <1>6, Moves DEF rag_index, IndexKnown
<1>7. ASSUME NEW t \in Thread, IndexLoader(t) PROVE ServiceInv'
  BY <1>7, Moves DEF IndexLoader, IndexKnown
<1>8. ASSUME NEW t \in Probe, readiness_probe_get_method(t) PROVE ServiceInv'
  BY <1>8, Moves DEF readiness_probe_get_method, Thread
<1>9. ASSUME NEW t \in Probe, llm_is_ready(t) PROVE ServiceInv'
  <2> DEFINE expired == expiry > 0 /\ idle >= expiry
             cached == llm_is_ready_persistent_state /\ ~expired
  <2>1. /\ at[t] = "llm" /\ lapsed' = (lapsed \/ expired)
        /\ UNCHANGED <<main, config, llm_is_ready_persistent_state>>
        /\ at' = [at EXCEPT ![t] = IF cached THEN "cache" ELSE "forget"]
    BY <1>9 DEF llm_is_ready, To
  <2>2. expired \in BOOLEAN
    OBVIOUS
  <2> HIDE DEF expired
  <2>3. ThreadsOK'
    BY <2>1, <2>2 DEF ServiceInv, ThreadsOK
  <2>4. Configured'
    BY <2>1 DEF ServiceInv, Configured, Serving
  <2>5. at \in [Thread -> {"idle", "index", "load", "llm", "forget", "ask", "store", "cache", "over"}]
    BY DEF ServiceInv, ThreadsOK
  <2>6. CASE cached
    <3>1. \A p \in Probe : at[p] = "forget" => at'[p] = "forget"
      BY <2>1, <2>5 DEF Thread
    <3>2. QED
      BY <2>1, <2>3, <2>4, <2>6, <3>1 DEF ServiceInv, OldSuccessForgotten
  <2>7. CASE ~cached
    <3>1. at'[t] = "forget"
      BY <2>1, <2>5, <2>7 DEF Thread
    <3>2. QED
      BY <2>3, <2>4, <3>1 DEF ServiceInv, OldSuccessForgotten
  <2>8. QED
    BY <2>6, <2>7
<1>10. ASSUME NEW t \in Probe, forget(t) PROVE ServiceInv'
  <2>1. /\ at' = [at EXCEPT ![t] = "ask"] /\ llm_is_ready_persistent_state' = FALSE
        /\ UNCHANGED <<main, config, lapsed>>
    BY <1>10 DEF forget, To
  <2>2. QED
    BY <2>1 DEF ServiceInv, ThreadsOK, Configured, Serving, OldSuccessForgotten, Thread
<1>11. ASSUME NEW t \in Probe, ask_llm(t) PROVE ServiceInv'
  BY <1>11, Moves DEF ask_llm, Thread
<1>12. ASSUME NEW t \in Probe, store_success(t) PROVE ServiceInv'
  <2>1. /\ at' = [at EXCEPT ![t] = "cache"] /\ llm_is_ready_persistent_state' = TRUE
        /\ lapsed' = FALSE /\ UNCHANGED <<main, config>>
    BY <1>12 DEF store_success, To
  <2>2. QED
    BY <2>1 DEF ServiceInv, ThreadsOK, Configured, Serving, OldSuccessForgotten, Thread
<1>13. ASSUME NEW t \in Probe, cache_is_ready(t) PROVE ServiceInv'
  BY <1>13, Moves DEF cache_is_ready, Thread
<1>14. CASE use_cache
  BY <1>14, Stays DEF use_cache
<1>15. CASE disk_changes
  BY <1>15, Stays DEF disk_changes
<1>16. CASE UNCHANGED vars
  BY <1>16, Stays DEF vars
<1>17. QED
  BY <1>1, <1>2, <1>3, <1>4, <1>5, <1>6, <1>7, <1>8, <1>9, <1>10, <1>11, <1>12, <1>13, <1>14, <1>15, <1>16
     DEF Next, StartUp, Step

LEMMA ServiceInitial == Init => ServiceInv
  BY DEF Init, ServiceInv, ThreadsOK, Configured, Serving, OldSuccessForgotten, Thread

LEMMA ServiceInvariant == Spec => []ServiceInv
  BY ServiceInitial, ServiceStep, PTL DEF Spec

-----------------------------------------------------------------------------
(* What the service guarantees *)

\* Whatever the configuration file, with or without certificates, disable_tls
\* and ssl_mode: every connection of a process that got through start_uvicorn
\* and can use TLS is held to TLS 1.2 at least, and all of them to the same
\* version.
THEOREM TLSFloor == Spec => []OneTLSFloor
<1>1. ServiceInv => OneTLSFloor
  <2>1. SUFFICES ASSUME ServiceInv, Serving,
                        NEW c \in DOMAIN config.min_versions, NEW e \in DOMAIN config.min_versions
                 PROVE  config.min_versions[c] >= 12 /\ config.min_versions[c] = config.min_versions[e]
    BY DEF OneTLSFloor
  <2>2. PICK d \in Document : Config(d) /\ config = Loaded(d)
    BY <2>1 DEF ServiceInv, Configured, Serving
  <2>3. Loaded(d).profile_known
    BY <2>1, <2>2 DEF ServiceInv, Configured
  <2>4. PICK floor \in 12..13 : \A s \in DOMAIN Loaded(d).min_versions : Loaded(d).min_versions[s] = floor
    BY <2>1, <2>2, <2>3, FloorOfProfile
  <2>5. QED
    BY <2>1, <2>2, <2>4
<1>2. QED
  BY <1>1, ServiceInvariant, PTL

\* However many readiness probes overlap in llm_is_ready: a success from before
\* the expiry is stored only while a probe is about to reset it.
THEOREM StaleSuccess == Spec => []OldSuccessForgotten
<1>1. ServiceInv => OldSuccessForgotten
  BY DEF ServiceInv
<1>2. QED
  BY <1>1, ServiceInvariant, PTL
=============================================================================
