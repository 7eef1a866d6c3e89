-------------------------------- MODULE Auth --------------------------------
(***************************************************************************)
(* ols/src/auth: whom a request comes from, decided by the configured      *)
(* module.  The Kubernetes API is external: what it says of a token is     *)
(* given by owner and allowed, and every call to it may fail.              *)
(*                                                                         *)
(* The client of that API is a singleton of its class.  The constructor    *)
(* publishes the instance before it can be used, so a request that comes   *)
(* in between, or after the constructor failed, finds an instance without  *)
(* its attributes.                                                         *)
(***************************************************************************)
EXTENDS Naturals

CONSTANTS
    Token,          \* bearer tokens
    Username,
    allowed,        \* external: the user names that may access the virtual path
    owner,          \* external: the user name of a valid token, Nobody of others
    Nobody,
    KubeAdmin,      \* "kube:admin", which has no uid of its own
    ClusterId,      \* the uid it is given
    DefaultUser     \* DEFAULT_USER_UID

ASSUME AuthAssumption ==
    /\ allowed \subseteq Username
    /\ Nobody \notin Username
    /\ owner \in [Token -> Username \cup {Nobody}]

VARIABLES
    auth_module,    \* authentication_config.module
    disable_auth,   \* dev_config.disable_auth
    client          \* K8sClientSingleton._instance and its attributes

auth_vars == <<auth_module, disable_auth, client>>

AuthInit ==
    /\ auth_module \in {"k8s", "noop", "noop-with-token"}
    /\ disable_auth \in BOOLEAN
    /\ client = "none"

\* K8sClientSingleton.__new__: the instance, then its attributes, if all goes well.
client_new == client = "none" /\ client' = "building"
client_built == client = "building" /\ client' = "ready"
client_failed == client = "building" /\ client' = "broken"

Refused(status) == [status |-> status, user |-> Nobody]
Admitted(u) == [status |-> 200, user |-> u]

\* get_user_info: an error of the API is an invalid token.
get_user_info(token) == {owner[token], Nobody}

\* Mutant: an error of the access review lets the user in.
subject_access_review_FailsOpen(u) == {TRUE}

\* The access review of __call__; it may be refused, or end in an error.
subject_access_review(u) == {(u \in allowed), FALSE}

\* get_cluster_id stands in for the uid of kube:admin.
uid(u) == IF u = KubeAdmin THEN ClusterId ELSE u

\* k8s.AuthDependency.__call__, once there is a client: what it may come to.
\* An exception that is not one of the API is 500.
k8s(header) ==
    IF header \notin Token
      THEN {Refused(401)}
      ELSE {Refused(500)} \cup
           UNION {IF u = Nobody
                    THEN {Refused(403)}
                    ELSE {IF ok THEN Admitted(uid(u)) ELSE Refused(403) :
                             ok \in subject_access_review(u)} :
                  u \in get_user_info(header)}

\* noop and noop-with-token take the user id from the query.
noop(user_id) == {Admitted(user_id)}
noop_with_token(header, user_id) ==
    IF header \in Token THEN {Admitted(user_id)} ELSE {Refused(400)}

\* get_auth_dependency, and the dependency it returns.
AuthDependency(header, user_id) ==
    CASE disable_auth -> {Admitted(DefaultUser)}
      [] ~disable_auth /\ auth_module = "noop" -> noop(user_id)
      [] ~disable_auth /\ auth_module = "noop-with-token" -> noop_with_token(header, user_id)
      [] ~disable_auth /\ auth_module = "k8s" -> k8s(header)

\* Only these calls of the dependency go to the API.
NeedsClient(header) == auth_module = "k8s" /\ ~disable_auth /\ header \in Token
=============================================================================
