------------------------------ MODULE McpTools ------------------------------
(***************************************************************************)
(* Which tools of which MCP servers a request gets: ols/utils/mcp_utils.py *)
(* with the search index of ols/src/tools/tools_rag, and the endpoints of  *)
(* ols/app/endpoints/mcp_apps.py.                                          *)
(*                                                                         *)
(* The index is shared by all requests and filled with whatever the first  *)
(* request, and then every client with headers of its own, could reach.    *)
(* Every await of the code is a place where another request goes on.  How  *)
(* tools are ranked is left open: a search finds any of those in scope.    *)
(***************************************************************************)
EXTENDS Naturals, Sequences, SequencesExt, FiniteSets

CONSTANTS
    Request,
    Server,         \* configured MCP servers
    servers,        \* their order
    headers,        \* the placeholders among a server's headers
    tools           \* external: the names of the tools a server has

ASSUME ServersAssumption ==
    /\ servers \in Seq(Server)
    /\ headers \in [Server -> SUBSET {"kubernetes", "client"}]

VARIABLES
    pc,
    has_token,      \* user_token is set; the authentication module decides
    client_headers, \* of a request: for which servers, and where they are complete
    filtering,      \* config.tools_rag exists
    index,          \* its documents, <<server, tool>>
    default_allowed_servers,
    k8s_tools_resolved,
    retrieved,      \* filtered_result
    offered,        \* what get_mcp_tools returns
    contacted       \* history: the servers a request sent its headers to

shared == <<index, default_allowed_servers, k8s_tools_resolved>>
vars == <<pc, has_token, client_headers, filtering, shared, retrieved, offered, contacted>>

\* validate_mcp_servers drops the servers that need a token nobody has.
mcp_servers == {s \in ToSet(servers) : "kubernetes" \in headers[s] => has_token}

Init ==
    /\ pc = [r \in Request |-> "new"]
    /\ has_token \in BOOLEAN
    /\ client_headers = [r \in Request |-> [named |-> {}, complete |-> {}]]
    /\ filtering \in BOOLEAN
    /\ index = {}
    /\ default_allowed_servers = {}
    /\ k8s_tools_resolved = FALSE
    /\ retrieved = [r \in Request |-> {}]
    /\ offered = [r \in Request |-> {}]
    /\ contacted = [r \in Request |-> {}]

At(r, p) == pc[r] = p
To(r, p) == pc' = [pc EXCEPT ![r] = p]

-----------------------------------------------------------------------------
(* Headers *)

\* Mutant: a header that the client did not send is sent as it is configured.
resolve_header_value_Literal(value, s, clients) ==
    value = "kubernetes" => has_token

\* resolve_header_value finds a value.
resolve_header_value(value, s, clients) ==
    CASE value = "kubernetes" -> has_token
      [] value = "client" -> s \in clients

resolve_server_headers(s, clients) ==
    \A value \in headers[s] : resolve_header_value(value, s, clients)

build_mcp_config(servers_list, clients) ==
    {s \in servers_list : resolve_server_headers(s, clients)}

\* What the endpoint for client headers lists.
get_servers_requiring_client_headers == {s \in mcp_servers : "client" \in headers[s]}

Complete(r) == client_headers[r].complete

-----------------------------------------------------------------------------
(* Tools *)

\* gather_mcp_tools: the servers that answer, and their tools of these names,
\* all of them if there are no names.
gather_mcp_tools(up, names) ==
    {st \in up \X UNION {tools[s] : s \in up} :
        st[2] \in tools[st[1]] /\ (names # {} => st[2] \in names)}

\* deduplicate: of tools with the same name, the one that comes first.
deduplicate(found, order) ==
    {st \in found : \A other \in found :
        other[2] = st[2] => \A i, j \in DOMAIN order :
            order[i] = st[1] /\ order[j] = other[1] => i <= j}

\* _gather_and_populate_tools for the request itself: what it is offered.
gathers(r, servers_list, names, orders) ==
    LET config == build_mcp_config(servers_list, Complete(r)) IN
    /\ contacted' = [contacted EXCEPT ![r] = @ \cup config]
    /\ \E up \in SUBSET config, order \in orders :
          offered' = [offered EXCEPT ![r] = deduplicate(gather_mcp_tools(up, names), order)]

\* A request comes in with some client headers, not all of them complete.
arrive(r) ==
    /\ At(r, "new")
    /\ \E named \in SUBSET Server : \E complete \in SUBSET named :
          client_headers' = [client_headers EXCEPT ![r] = [named |-> named, complete |-> complete]]
    /\ \/ To(r, IF filtering THEN "populate" ELSE "gather all")
       \/ To(r, "app")
    /\ UNCHANGED <<has_token, filtering, shared, retrieved, offered, contacted>>

gather_all(r) ==
    /\ At(r, "gather all")
    /\ gathers(r, mcp_servers, {}, {servers})
    /\ To(r, "over")
    /\ UNCHANGED <<has_token, client_headers, filtering, shared, retrieved>>

\* _populate_tools_rag looks at the flag, and then waits for the servers.
populate_tools_rag(r) ==
    /\ At(r, "populate")
    /\ To(r, IF k8s_tools_resolved THEN "populate client" ELSE "populate default")
    /\ UNCHANGED <<has_token, client_headers, filtering, shared, retrieved, offered, contacted>>

\* ToolsRAG.populate_tools: entries are written over, never taken out.
populate_tools(found) == index' = index \cup found

\* Mutant: the first request fills the defaults with its own client headers.
populate_default_WithClient(r) ==
    /\ At(r, "populate default")
    /\ LET config == build_mcp_config(mcp_servers, Complete(r)) IN
       /\ contacted' = [contacted EXCEPT ![r] = @ \cup config]
       /\ \E up \in SUBSET config :
            LET found == gather_mcp_tools(up, {}) IN
            /\ populate_tools(found)
            /\ default_allowed_servers' = IF found = {} THEN default_allowed_servers ELSE config
    /\ k8s_tools_resolved' = TRUE
    /\ To(r, "populate client")
    /\ UNCHANGED <<has_token, client_headers, filtering, retrieved, offered>>

\* The servers that need no client headers; their tools go to the index, and
\* the servers become the default ones, if there was any tool at all.
populate_default(r) ==
    /\ At(r, "populate default")
    /\ LET config == build_mcp_config(mcp_servers, {}) IN
       /\ contacted' = [contacted EXCEPT ![r] = @ \cup config]
       /\ \E up \in SUBSET config :
            LET found == gather_mcp_tools(up, {}) IN
            /\ populate_tools(found)
            /\ default_allowed_servers' = IF found = {} THEN default_allowed_servers ELSE config
    /\ k8s_tools_resolved' = TRUE
    /\ To(r, "populate client")
    /\ UNCHANGED <<has_token, client_headers, filtering, retrieved, offered>>

\* The servers the client named, with its headers.
populate_client(r) ==
    /\ At(r, "populate client")
    /\ LET config == build_mcp_config(client_headers[r].named \cap mcp_servers, Complete(r)) IN
       /\ contacted' = [contacted EXCEPT ![r] = @ \cup config]
       /\ \E up \in SUBSET config : populate_tools(gather_mcp_tools(up, {}))
    /\ To(r, "retrieve")
    /\ UNCHANGED <<has_token, client_headers, filtering, default_allowed_servers,
                   k8s_tools_resolved, retrieved, offered>>

\* ToolsRAG.retrieve_hybrid: an empty scope is no restriction.
retrieve_hybrid(r) ==
    LET allowed_servers == default_allowed_servers \cup client_headers[r].named
        in_scope == {st \in index : allowed_servers = {} \/ st[1] \in allowed_servers}
    IN
    /\ At(r, "retrieve")
    /\ \/ \E found \in SUBSET in_scope :
            /\ retrieved' = [retrieved EXCEPT ![r] = found]
            /\ To(r, IF found = {} THEN "over" ELSE "gather filtered")
       \/ To(r, "gather all") /\ UNCHANGED retrieved
    /\ UNCHANGED <<has_token, client_headers, filtering, shared, offered, contacted>>

\* The tools found, asked for again with the headers of the request.  Names
\* and servers are looked up separately, the servers in no particular order.
gather_filtered(r) ==
    LET server_names == {st[1] : st \in retrieved[r]} \cap mcp_servers IN
    /\ At(r, "gather filtered")
    /\ gathers(r, server_names, {st[2] : st \in retrieved[r]}, SetToSeqs(server_names))
    /\ retrieved' = [retrieved EXCEPT ![r] = {}]
    /\ To(r, "over")
    /\ UNCHANGED <<has_token, client_headers, filtering, shared>>

\* get_mcp_app_resource and call_mcp_app_tool: 404, 401, or the server is asked.
call_mcp_app(r) ==
    /\ At(r, "app")
    /\ \E s \in Server :
          contacted' = [contacted EXCEPT ![r] = @ \cup build_mcp_config({s} \cap mcp_servers, Complete(r))]
    /\ To(r, "over")
    /\ UNCHANGED <<has_token, client_headers, filtering, shared, retrieved, offered>>

Next ==
    \E r \in Request :
        \/ arrive(r) \/ gather_all(r) \/ populate_tools_rag(r) \/ populate_default(r)
        \/ populate_client(r) \/ retrieve_hybrid(r) \/ gather_filtered(r) \/ call_mcp_app(r)

Spec == Init /\ [][Next]_vars

-----------------------------------------------------------------------------
(* Properties *)

\* However the shared index was filled, a request only ever talks to servers
\* for which its own token and its own client headers make a complete set of
\* headers, and only such servers' tools are offered to it, one of each name.
OwnCredentials ==
    \A r \in Request :
        /\ \A s \in contacted[r] :
              /\ "kubernetes" \in headers[s] => has_token
              /\ "client" \in headers[s] => s \in client_headers[r].complete
        /\ \A st \in offered[r] : st[1] \in contacted[r] /\ st[2] \in tools[st[1]]
        /\ \A st, other \in offered[r] : st[2] = other[2] => st = other

\* The default scope of searches does not depend on whose request came first,
\* or on two first requests at once: it is all servers that need no client
\* headers, or nothing yet.  (It stays nothing for ever if no server answered
\* the first request.)
DefaultScopeIsCommon ==
    default_allowed_servers \in {{}, mcp_servers \ get_servers_requiring_client_headers}
=============================================================================
