-------------------------- MODULE McpTools_proofs --------------------------
(***************************************************************************)
(* Which servers a request may talk to, whose tools it gets, and what the  *)
(* shared index does to that: for any servers, headers, tools and requests *)
(* at once.                                                                *)
(*                                                                         *)
(* The headers of a client are read when its request comes in, after which *)
(* they stay; so what OwnCredentials says of a request is inductive once   *)
(* it is known that a request that has yet to come has contacted nobody    *)
(* (Untouched).                                                            *)
(***************************************************************************)
EXTENDS McpTools, FiniteSetTheorems, SequenceTheorems, TLAPS

TypeOK ==
    /\ pc \in [Request -> {"new", "populate", "populate default", "populate client",
                           "gather all", "gather filtered", "retrieve", "app", "over"}]
    /\ has_token \in BOOLEAN
    /\ client_headers \in [Request -> [named : SUBSET Server, complete : SUBSET Server]]
    /\ DOMAIN retrieved = Request
    /\ DOMAIN offered = Request
    /\ contacted \in [Request -> SUBSET Server]

\* A request that has yet to come has contacted no server.
Untouched == \A r \in Request : pc[r] = "new" => contacted[r] = {} /\ offered[r] = {}

McpInv == TypeOK /\ Untouched /\ OwnCredentials /\ DefaultScopeIsCommon

-----------------------------------------------------------------------------
(* Headers and names *)

LEMMA McpServers == mcp_servers \subseteq ToSet(servers) /\ ToSet(servers) \subseteq Server
<1>1. ToSet(servers) \subseteq Server
  BY ServersAssumption DEF ToSet
<1>2. QED
  BY <1>1 DEF mcp_servers

\* build_mcp_config leaves out the servers whose headers cannot be resolved.
LEMMA Resolved ==
    ASSUME NEW list \in SUBSET mcp_servers, NEW clients, NEW s \in build_mcp_config(list, clients)
    PROVE  /\ s \in Server
           /\ "kubernetes" \in headers[s] => has_token
           /\ "client" \in headers[s] => s \in clients
<1>1. s \in list /\ \A value \in headers[s] : resolve_header_value(value, s, clients)
  BY DEF build_mcp_config, resolve_server_headers
<1>2. s \in Server
  BY <1>1, McpServers
<1>3. "kubernetes" \in headers[s] => has_token
  BY <1>1 DEF mcp_servers
<1>4. ASSUME "client" \in headers[s] PROVE s \in clients
  BY <1>1, <1>4 DEF resolve_header_value
<1>5. QED
  BY <1>2, <1>3, <1>4

\* Without client headers, the servers that need some are what is left out.
LEMMA DefaultConfig ==
    build_mcp_config(mcp_servers, {}) = mcp_servers \ get_servers_requiring_client_headers
<1>1. ASSUME NEW s \in build_mcp_config(mcp_servers, {})
      PROVE  s \in mcp_servers \ get_servers_requiring_client_headers
  BY <1>1, Resolved DEF build_mcp_config, get_servers_requiring_client_headers
<1>2. ASSUME NEW s \in mcp_servers \ get_servers_requiring_client_headers
      PROVE  s \in build_mcp_config(mcp_servers, {})
  <2>1. headers[s] \subseteq {"kubernetes"} /\ ("kubernetes" \in headers[s] => has_token)
    BY <1>2, McpServers, ServersAssumption DEF mcp_servers, get_servers_requiring_client_headers
  <2>2. \A value \in headers[s] : resolve_header_value(value, s, {})
    BY <2>1 DEF resolve_header_value
  <2>3. QED
    BY <1>2, <2>2 DEF build_mcp_config, resolve_server_headers
<1>3. QED
  BY <1>1, <1>2

\* A sequence of SetToSeqs lists the whole set.
LEMMA SeqsCover ==
    ASSUME NEW S, IsFiniteSet(S), NEW order \in SetToSeqs(S)
    PROVE  \A s \in S : \E i \in DOMAIN order : order[i] = s
<1> DEFINE n == Cardinality(S)
<1>1. n \in Nat
  BY FS_CardinalityType
<1>2. order \in [1..n -> S] /\ \A i, j \in 1..n : i # j => order[i] # order[j]
  BY DEF SetToSeqs
<1> HIDE DEF n
<1>3. order \in Injection(1..n, S)
  BY <1>2 DEF Injection, IsInjective
<1>4. Cardinality(1..n) = n
  BY <1>1, FS_Interval
<1>5. order \in Surjection(1..n, S)
  BY <1>3, <1>4, FS_Injection DEF n
<1>6. QED
  BY <1>2, <1>5 DEF Surjection

LEMMA ServersFinite == IsFiniteSet(ToSet(servers))
<1>1. ToSet(servers) = {servers[i] : i \in 1..Len(servers)}
  BY ServersAssumption DEF ToSet
<1>2. Len(servers) \in Nat /\ servers \in [1..Len(servers) -> ToSet(servers)]
  BY <1>1, ServersAssumption
<1>3. servers \in Surjection(1..Len(servers), ToSet(servers))
  BY <1>1, <1>2 DEF Surjection
<1>4. QED
  BY <1>2, <1>3, FS_Interval, FS_Surjection

\* deduplicate leaves one tool of each name if every server has a place in the order.
LEMMA Deduplicated ==
    ASSUME NEW up, NEW names, NEW order, DOMAIN order \subseteq Nat,
           \A s \in up : \E i \in DOMAIN order : order[i] = s,
           NEW st \in deduplicate(gather_mcp_tools(up, names), order),
           NEW other \in deduplicate(gather_mcp_tools(up, names), order), st[2] = other[2]
    PROVE  st = other
<1> DEFINE found == gather_mcp_tools(up, names)
<1>1. /\ st \in up \X UNION {tools[s] : s \in up}
      /\ other \in up \X UNION {tools[s] : s \in up}
      /\ st \in found /\ other \in found
  BY DEF deduplicate, gather_mcp_tools
<1>2. PICK i \in DOMAIN order : order[i] = st[1]
  BY <1>1
<1>3. PICK j \in DOMAIN order : order[j] = other[1]
  BY <1>1
<1>4. i <= j /\ j <= i
  BY <1>1, <1>2, <1>3 DEF deduplicate
<1>5. st[1] = other[1]
  BY <1>2, <1>3, <1>4
<1>6. QED
  BY <1>1, <1>5

LEMMA Gathered ==
    ASSUME NEW up, NEW names, NEW order, NEW st \in deduplicate(gather_mcp_tools(up, names), order)
    PROVE  st[1] \in up /\ st[2] \in tools[st[1]]
  BY DEF deduplicate, gather_mcp_tools

-----------------------------------------------------------------------------
(* Steps *)

\* What the servers in S need, request r has.
Credentials(r, S) ==
    \A s \in S : /\ "kubernetes" \in headers[s] => has_token
                 /\ "client" \in headers[s] => s \in client_headers[r].complete

OneOfEachName(found) == \A st, other \in found : st[2] = other[2] => st = other

\* A request contacts more servers, and may get tools from them.
LEMMA Contacts ==
    ASSUME McpInv, NEW r \in Request, NEW config \in SUBSET Server, Credentials(r, config),
           contacted' = [contacted EXCEPT ![r] = @ \cup config],
           UNCHANGED <<has_token, client_headers>>,
           DOMAIN offered' = Request, \A q \in Request \ {r} : offered'[q] = offered[q],
           \A st \in offered'[r] : st[1] \in contacted'[r] /\ st[2] \in tools[st[1]],
           OneOfEachName(offered'[r])
    PROVE  contacted' \in [Request -> SUBSET Server] /\ OwnCredentials'
<1>1. /\ contacted' \in [Request -> SUBSET Server]
      /\ contacted'[r] = contacted[r] \cup config
      /\ \A q \in Request \ {r} : contacted'[q] = contacted[q]
  BY DEF McpInv, TypeOK
<1>2. ASSUME NEW q \in Request
      PROVE  /\ Credentials(q, contacted[q])'
             /\ \A st \in offered'[q] : st[1] \in contacted'[q] /\ st[2] \in tools[st[1]]
             /\ OneOfEachName(offered'[q])
  <2>1. CASE q = r
    BY <1>1, <2>1 DEF McpInv, OwnCredentials, Credentials
  <2>2. CASE q # r
    BY <1>1, <2>2 DEF McpInv, OwnCredentials, Credentials, OneOfEachName
  <2>3. QED
    BY <2>1, <2>2
<1>3. QED
  BY <1>1, <1>2 DEF OwnCredentials, Credentials, OneOfEachName

LEMMA ContactsOnly ==
    ASSUME McpInv, NEW r \in Request, NEW config \in SUBSET Server, Credentials(r, config),
           contacted' = [contacted EXCEPT ![r] = @ \cup config],
           UNCHANGED <<has_token, client_headers, offered>>
    PROVE  contacted' \in [Request -> SUBSET Server] /\ OwnCredentials'
<1>1. contacted'[r] = contacted[r] \cup config
  BY DEF McpInv, TypeOK
<1>2. /\ \A st \in offered[r] : st[1] \in contacted[r] /\ st[2] \in tools[st[1]]
      /\ OneOfEachName(offered[r])
  BY DEF McpInv, OwnCredentials, OneOfEachName
<1>3. QED
  BY <1>1, <1>2, Contacts DEF McpInv, TypeOK

LEMMA ConfigCredentials ==
    ASSUME McpInv, NEW r \in Request, NEW list \in SUBSET mcp_servers,
           NEW clients \in SUBSET Complete(r)
    PROVE  /\ build_mcp_config(list, clients) \in SUBSET Server
           /\ Credentials(r, build_mcp_config(list, clients))
  BY Resolved DEF Credentials, Complete

\* gather_all and gather_filtered: the orders put every server somewhere.
LEMMA Gathers ==
    ASSUME McpInv, NEW r \in Request, NEW list \in SUBSET mcp_servers, NEW names, NEW orders,
           \A order \in orders : /\ DOMAIN order \subseteq Nat
                                 /\ \A s \in list : \E i \in DOMAIN order : order[i] = s,
           gathers(r, list, names, orders), UNCHANGED <<has_token, client_headers>>
    PROVE  /\ contacted' \in [Request -> SUBSET Server] /\ DOMAIN offered' = Request
           /\ OwnCredentials'
           /\ \A q \in Request \ {r} : contacted'[q] = contacted[q] /\ offered'[q] = offered[q]
<1> DEFINE config == build_mcp_config(list, Complete(r))
<1>1. config \in SUBSET Server /\ Credentials(r, config) /\ config \subseteq list
  BY ConfigCredentials DEF build_mcp_config
<1>2. contacted' = [contacted EXCEPT ![r] = @ \cup config]
  BY DEF gathers
<1>3. PICK up \in SUBSET config, order \in orders :
         offered' = [offered EXCEPT ![r] = deduplicate(gather_mcp_tools(up, names), order)]
  BY DEF gathers
<1> HIDE DEF config
<1> DEFINE got == deduplicate(gather_mcp_tools(up, names), order)
<1>4. \A st \in got : st[1] \in config /\ st[2] \in tools[st[1]]
  BY Gathered
<1>5. OneOfEachName(got)
  <2>1. \A s \in up : \E i \in DOMAIN order : order[i] = s
    BY <1>1
  <2>2. QED
    BY <2>1, Deduplicated DEF OneOfEachName
<1>6. offered' = [offered EXCEPT ![r] = got]
  BY <1>3
<1> HIDE DEF got
<1>7. /\ DOMAIN offered' = Request /\ offered'[r] = got
      /\ \A q \in Request \ {r} : offered'[q] = offered[q]
  BY <1>6 DEF McpInv, TypeOK
<1>8. /\ contacted'[r] = contacted[r] \cup config
      /\ \A q \in Request \ {r} : contacted'[q] = contacted[q]
  BY <1>2 DEF McpInv, TypeOK
<1>9. QED
  BY <1>1, <1>2, <1>4, <1>5, <1>7, <1>8, Contacts

LEMMA ScopeKept ==
    ASSUME DefaultScopeIsCommon, UNCHANGED <<has_token, default_allowed_servers>>
    PROVE  DefaultScopeIsCommon'
  BY DEF DefaultScopeIsCommon, mcp_servers, get_servers_requiring_client_headers

LEMMA CredentialsKept ==
    ASSUME OwnCredentials, UNCHANGED <<has_token, client_headers, offered, contacted>>
    PROVE  OwnCredentials'
  BY DEF OwnCredentials

LEMMA McpStep == McpInv /\ [Next]_vars => McpInv'
<1> SUFFICES ASSUME McpInv, [Next]_vars PROVE McpInv'
  OBVIOUS
<1> USE DEF At, To, shared
<1>1. ASSUME NEW r \in Request, arrive(r) PROVE McpInv'
  <2>1. PICK named \in SUBSET Server, complete \in SUBSET Server :
           client_headers' = [client_headers EXCEPT ![r] = [named |-> named, complete |-> complete]]
    BY <1>1 DEF arrive
  <2>2. /\ pc[r] = "new"
        /\ UNCHANGED <<has_token, retrieved, offered, contacted, default_allowed_servers>>
    BY <1>1 DEF arrive
  <2>3. /\ client_headers' \in [Request -> [named : SUBSET Server, complete : SUBSET Server]]
        /\ \A q \in Request \ {r} : client_headers'[q] = client_headers[q]
    BY <2>1 DEF McpInv, TypeOK
  <2>4. PICK p \in {"populate", "gather all", "app"} : pc' = [pc EXCEPT ![r] = p]
    BY <1>1 DEF arrive
  <2>5. TypeOK'
    BY <2>2, <2>3, <2>4 DEF McpInv, TypeOK
  <2>6. Untouched'
    BY <2>2, <2>4 DEF McpInv, TypeOK, Untouched
  <2>7. OwnCredentials'
    <3>1. contacted[r] = {} /\ offered[r] = {}
      BY <2>2 DEF McpInv, Untouched
    <3>2. QED
      BY <2>2, <2>3, <3>1 DEF McpInv, OwnCredentials
  <2>8. QED
    BY <2>2, <2>5, <2>6, <2>7, ScopeKept DEF McpInv
<1>2. ASSUME NEW r \in Request, gather_all(r) PROVE McpInv'
  <2>1. /\ pc' = [pc EXCEPT ![r] = "over"] /\ gathers(r, mcp_servers, {}, {servers})
        /\ UNCHANGED <<has_token, client_headers, retrieved, default_allowed_servers>>
    BY <1>2 DEF gather_all
  <2>2. DOMAIN servers \subseteq Nat /\ \A s \in mcp_servers : \E i \in DOMAIN servers : servers[i] = s
    BY McpServers, ServersAssumption DEF ToSet
  <2>3. /\ contacted' \in [Request -> SUBSET Server] /\ DOMAIN offered' = Request
        /\ OwnCredentials'
        /\ \A q \in Request \ {r} : contacted'[q] = contacted[q] /\ offered'[q] = offered[q]
    BY <2>1, <2>2, Gathers
  <2>4. TypeOK' /\ Untouched'
    BY <2>1, <2>3 DEF McpInv, TypeOK, Untouched
  <2>5. QED
    BY <2>1, <2>3, <2>4, ScopeKept DEF McpInv
<1>3. ASSUME NEW r \in Request, populate_tools_rag(r) PROVE McpInv'
  <2>1. /\ UNCHANGED <<has_token, client_headers, retrieved, offered, contacted, default_allowed_servers>>
        /\ \E p \in {"populate client", "populate default"} : pc' = [pc EXCEPT ![r] = p]
    BY <1>3 DEF populate_tools_rag
  <2>2. TypeOK' /\ Untouched'
    BY <2>1 DEF McpInv, TypeOK, Untouched
  <2>3. QED
    BY <2>1, <2>2, ScopeKept, CredentialsKept DEF McpInv
<1>4. ASSUME NEW r \in Request, populate_default(r) PROVE McpInv'
  <2> DEFINE config == build_mcp_config(mcp_servers, {})
  <2>1. /\ pc' = [pc EXCEPT ![r] = "populate client"] /\ pc[r] = "populate default"
        /\ contacted' = [contacted EXCEPT ![r] = @ \cup config]
        /\ default_allowed_servers' \in {default_allowed_servers, config}
        /\ UNCHANGED <<has_token, client_headers, retrieved, offered>>
    BY <1>4 DEF populate_default
  <2>2. config \in SUBSET Server /\ Credentials(r, config)
    BY ConfigCredentials
  <2>3. config = mcp_servers \ get_servers_requiring_client_headers
    BY DefaultConfig
  <2> HIDE DEF config
  <2>4. contacted' \in [Request -> SUBSET Server] /\ OwnCredentials'
    BY <2>1, <2>2, ContactsOnly
  <2>5. TypeOK' /\ Untouched'
    BY <2>1, <2>4 DEF McpInv, TypeOK, Untouched
  <2>6. DefaultScopeIsCommon'
    BY <2>1, <2>3 DEF McpInv, DefaultScopeIsCommon, mcp_servers, get_servers_requiring_client_headers
  <2>7. QED
    BY <2>4, <2>5, <2>6 DEF McpInv
<1>5. ASSUME NEW r \in Request, populate_client(r) PROVE McpInv'
  <2> DEFINE config == build_mcp_config(client_headers[r].named \cap mcp_servers, Complete(r))
  <2>1. /\ pc' = [pc EXCEPT ![r] = "retrieve"]
        /\ contacted' = [contacted EXCEPT ![r] = @ \cup config]
        /\ pc[r] = "populate client"
        /\ UNCHANGED <<has_token, client_headers, retrieved, offered, default_allowed_servers>>
    BY <1>5 DEF populate_client
  <2>2. config \in SUBSET Server /\ Credentials(r, config)
    BY ConfigCredentials
  <2> HIDE DEF config
  <2>3. contacted' \in [Request -> SUBSET Server] /\ OwnCredentials'
    BY <2>1, <2>2, ContactsOnly
  <2>4. TypeOK' /\ Untouched'
    BY <2>1, <2>3 DEF McpInv, TypeOK, Untouched
  <2>5. QED
    BY <2>1, <2>3, <2>4, ScopeKept DEF McpInv
<1>6. ASSUME NEW r \in Request, retrieve_hybrid(r) PROVE McpInv'
  <2>1. /\ \E p \in {"over", "gather filtered", "gather all"} : pc' = [pc EXCEPT ![r] = p]
        /\ DOMAIN retrieved' = Request
        /\ UNCHANGED <<has_token, client_headers, offered, contacted, default_allowed_servers>>
    BY <1>6 DEF retrieve_hybrid, McpInv, TypeOK
  <2>2. TypeOK' /\ Untouched'
    BY <2>1 DEF McpInv, TypeOK, Untouched
  <2>3. QED
    BY <2>1, <2>2, ScopeKept, CredentialsKept DEF McpInv
<1>7. ASSUME NEW r \in Request, gather_filtered(r) PROVE McpInv'
  <2> DEFINE server_names == {st[1] : st \in retrieved[r]} \cap mcp_servers
             names == {st[2] : st \in retrieved[r]}
  <2>1. /\ pc' = [pc EXCEPT ![r] = "over"]
        /\ gathers(r, server_names, names, SetToSeqs(server_names))
        /\ retrieved' = [retrieved EXCEPT ![r] = {}]
        /\ UNCHANGED <<has_token, client_headers, default_allowed_servers>>
    BY <1>7 DEF gather_filtered
  <2>2. server_names \subseteq mcp_servers
    OBVIOUS
  <2> HIDE DEF server_names, names
  <2>3. IsFiniteSet(server_names)
    BY <2>2, McpServers, ServersFinite, FS_Subset
  <2>4. \A order \in SetToSeqs(server_names) :
           /\ DOMAIN order \subseteq Nat
           /\ \A s \in server_names : \E i \in DOMAIN order : order[i] = s
    <3>1. \A order \in SetToSeqs(server_names) : DOMAIN order \subseteq Nat
      BY <2>3, FS_CardinalityType DEF SetToSeqs
    <3>2. QED
      BY <2>3, <3>1, SeqsCover
  <2>5. /\ contacted' \in [Request -> SUBSET Server] /\ DOMAIN offered' = Request
        /\ OwnCredentials'
        /\ \A q \in Request \ {r} : contacted'[q] = contacted[q] /\ offered'[q] = offered[q]
    BY <2>1, <2>2, <2>4, Gathers
  <2>6. TypeOK' /\ Untouched'
    BY <2>1, <2>5 DEF McpInv, TypeOK, Untouched
  <2>7. QED
    BY <2>1, <2>5, <2>6, ScopeKept DEF McpInv
<1>8. ASSUME NEW r \in Request, call_mcp_app(r) PROVE McpInv'
  <2>1. PICK s \in Server :
           contacted' = [contacted EXCEPT ![r] = @ \cup build_mcp_config({s} \cap mcp_servers, Complete(r))]
    BY <1>8 DEF call_mcp_app
  <2>2. /\ pc' = [pc EXCEPT ![r] = "over"]
        /\ UNCHANGED <<has_token, client_headers, retrieved, offered, default_allowed_servers>>
    BY <1>8 DEF call_mcp_app
  <2> DEFINE config == build_mcp_config({s} \cap mcp_servers, Complete(r))
  <2>3. config \in SUBSET Server /\ Credentials(r, config)
    BY ConfigCredentials
  <2>4. contacted' = [contacted EXCEPT ![r] = @ \cup config]
    BY <2>1
  <2> HIDE DEF config
  <2>5. contacted' \in [Request -> SUBSET Server] /\ OwnCredentials'
    BY <2>2, <2>3, <2>4, ContactsOnly
  <2>6. TypeOK' /\ Untouched'
    BY <2>2, <2>4, <2>5 DEF McpInv, TypeOK, Untouched
  <2>7. QED
    BY <2>2, <2>5, <2>6, ScopeKept DEF McpInv
<1>9. CASE UNCHANGED vars
  <2>1. TypeOK' /\ Untouched'
    BY <1>9 DEF McpInv, TypeOK, Untouched, vars
  <2>2. QED
    BY <1>9, <2>1, ScopeKept, CredentialsKept DEF McpInv, vars
<1>10. QED
  BY <1>1, <1>2, <1>3, <1>4, <1>5, <1>6, <1>7, <1>8, <1>9 DEF Next

LEMMA McpInvariant == Spec => []McpInv
<1>1. Init => McpInv
  BY DEF Init, McpInv, TypeOK, Untouched, OwnCredentials, DefaultScopeIsCommon
<1>2. QED
  BY <1>1, McpStep, PTL DEF Spec

-----------------------------------------------------------------------------
(* What the tools of a request guarantee *)

\* Whatever other requests put into the shared index, build_mcp_config lets a
\* request talk only to servers for which its own token and client headers
\* suffice, and gather_mcp_tools and deduplicate offer it their tools only, one
\* of each name.
THEOREM CredentialsOwn == Spec => []OwnCredentials
  BY McpInvariant, PTL DEF McpInv

\* _populate_tools_rag sets the default scope of searches to the same servers
\* whichever requests come first, and however they race for the flag.
THEOREM DefaultScope == Spec => []DefaultScopeIsCommon
  BY McpInvariant, PTL DEF McpInv
=============================================================================
