# OpenShift LightSpeed service: a verification project

TLA+ models of the state-keeping parts of the service under `ols/`, model-checked
with TLC, with the main safety results proved with TLAPS for every size of the
system. `PROJECT.json` lists components, runs, mutants, the map from definitions
to source lines, findings, hazards and theorems; this file explains them.

## 1. The system

The service answers questions about OpenShift. A request arrives at `/query` (run
in a thread) or `/streaming_query` (run on the event loop), is authenticated and
redacted, must pass the token quota check, gets context from retrieval, tools and
the conversation's history, is answered by an LLM in a loop of tool rounds, and
finally is stored, accounted for and returned.

| Component | State | Operations | Shared with | Modules |
|---|---|---|---|---|
| In-memory conversation cache (`src/cache/in_memory_cache.py`) | dict of histories, LRU deque, running total, dict of metadata, lock | get, insert_or_append, delete, list, set_topic_summary | all request threads | ConversationStore, InMemoryCache, InMemoryCacheThreads |
| Postgres conversation cache (`src/cache/postgres_cache.py`, `utils/postgres.py`) | two tables, one connection, transaction lock | the same, plus clean-up at capacity and reconnection | all threads and replicas | PostgresCache, PostgresConnection |
| History support (`src/query_helpers/history_support.py`) | locals of a request | prepare, summarize (retries), rewrite the cache | the cache | HistoryCompression |
| Tools and approval (`src/tools/tools.py`, `approval.py`, `app/endpoints/tool_approvals.py`) | pending-approval store, one coroutine per call | register, wait, decide, time out, execute with retries | approval endpoint, event loop | ToolExecution |
| Agent loop and token budget (`src/query_helpers/docs_summarizer.py`, `llm_execution_agent.py`, `utils/token_handler.py`) | messages, rounds, usage by category | assemble the prompt, LLM round, tool round, final round | tools | AgentLoop, TokenBudget |
| Offloaded tool output (`src/tools/offloaded_content.py`) | files and an allowlist per request | offload, search, read, clean up | agent, file system | AgentLoop |
| Quotas (`src/quota/*`, `runners/quota_scheduler.py`) | `quota_limits`, usage history | check, init, debit; periodic increase and reset | all threads, all replicas, the scheduler thread of each | Quota |
| Query endpoints (`app/endpoints/ols.py`, `streaming_ols.py`) | locals of a request | check, answer, store, debit, audit, reply | cache, quotas, audit log | QueryRequest |
| Conversation and feedback endpoints (`app/endpoints/conversations.py`, `feedback.py`) | none | list, get, delete, update; store feedback | cache | QueryRequest |
| Authentication (`src/auth/*`) | the singleton Kubernetes client | review of token and access | all requests | Auth |
| MCP tools (`utils/mcp_utils.py`, `app/endpoints/mcp_apps.py`, `src/tools/tools_rag`) | the tools index, its default scope, a flag | gather, populate, search | all requests | McpTools |
| Configuration and start-up (`app/models/config.py`, `utils/config.py`, `runner.py`) | the configuration, lazily created objects | load, validate, start | everything | Configuration, Service |
| Health (`app/endpoints/health.py`) | cached readiness and its time | readiness, liveness | LLM, cache, index | Service |

Providers, ranking, prompts, metrics, tracing and the demo user interface are
stateless, declarative or pure I/O.

What is hard to test here:

* **Interleavings.** `get` of the in-memory cache edits the deque without the lock;
  replicas append to the same row, evict each other's rows and run the same quota
  sweep; requests share an index of tools that was filled with other users'
  credentials; a singleton is published before it can be used.
* **State that is stale when used.** History read before the summary is awaited is
  written back after it; a quota balance is checked long before it is debited; a flag
  is read before an `await` and set after it; a success is cached and expires.
* **Partial failure.** A rewrite of a history is a delete and several inserts; the
  debits of one answer are several transactions; a stream can be abandoned at any
  `yield`; an answer that was streamed may still fail to be stored.
* **Timeouts and retries.** The approval timer races the user's answer; tool calls
  and summaries are retried.
* **Limits.** Cache capacity, retry counts, the round limit, the end of a quota
  period, zero tokens, what fits in the context window.

## 2. Modules

All names are those of the source where TLA+ allows it. Definitions named
`X_Something` directly before `X` are mutants: plausible slips of that code, each
paired in `PROJECT.json` with the property that notices it. They occur in no
specification.

    ConversationStore  <- (refined by) InMemoryCache <- InMemoryCacheThreads
    TokenBudget <- AgentLoop            Auth <- QueryRequest
    Configuration <- Service            PostgresCache, PostgresConnection
    ToolExecution, Quota, HistoryCompression, McpTools
    (all others: `<-' is "extended by")

### ConversationStore — what a conversation cache promises
A bounded history per conversation and a recency relation. `Store` at the limit
gives up the oldest exchange of the conversation that is older than all others. It
says nothing of deques or counters.

### InMemoryCache — `in_memory_cache.py`, one operation at a time
`cache`, `deque`, `total_entries` and `conversations` are the fields of the class;
an absent dictionary key is `<<>>` or `NoConversation`. One action per method;
`insert_or_append` is one action that includes eviction (`Evicted`) and metadata
(`Counted`). Calls that change nothing (get or delete of an absent key, list) are
stuttering. `ImplementsStore` is the refinement: `hist <- cache`, recency read off
the deque.

### InMemoryCacheThreads — the same class as its threads run it
Extends InMemoryCache with a lock and, per thread, the next statement and its locals.
An operation is cut at its accesses to the deque, because that is all an unlocked
`get` can disturb; everything else it does is under the lock or reads only. Every
`deque.remove`, `deque[-1]`, `del oldest_list[0]` and `deque.pop` that can raise does
so, keeping what was changed before it and releasing the lock.

### PostgresCache — `postgres_cache.py` in several replicas
One action per SQL statement. A replica's uncommitted rows are its `draft`; a
statement sees committed rows and its own draft (READ COMMITTED), waits for rows that
another draft holds and for the advisory lock of its conversation, and is chosen as
the victim when it waits in a circle. `_cleanup` is count, choice of the oldest row
and eviction. A session can be lost at any statement, and a history that was read may
fail to decode, which leaves `insert_or_append` by its `finally` alone. Locks, visibility and deadlock
detection are external and marked so. `log`, `contended`, `overlap` and `overlapped`
are history variables: they say in which cases the code does not serialize.

### PostgresConnection — the connection threads share
`utils/postgres.py` under the operations of the cache: the decorator's check and
reconnection run before `_tx_lock` is taken; statements go to the connection their
cursor came from, commit and the switches of autocommit to `self.connection`.

### ToolExecution — one round of tool calls
`tools.py` and `approval.py`. Each call is a coroutine with a label: `new`, `offered`
(suspended at the `yield` of the approval event), `waiting`, `expired` (the timer has
cancelled the wait, the coroutine has not run yet), `ready`, `invoked`, `done`,
`closed`. `decision` is the PendingApproval object the waiter holds, `stored` whether
the store still finds it. `disconnect` closes every generator of a streaming round;
the `finally` of `get_approval_decision` runs only for the calls inside it. Policy,
annotations and the kind of endpoint are chosen in `Init`.

### TokenBudget and AgentLoop — prompt, rounds and offloaded output
`TokenBudget` holds the arithmetic of `TokenBudgetTracker`, `TokenHandler`,
`_extract_text_from_tool_output` and `enforce_tool_token_budget`; a text is the number
of its tokens. `AgentLoop` is one request: question, documents, skill, history and
tool definitions are charged in the order of `generate_response`, each with its own
way of not fitting; then `_iterate_with_tools` round by round, with calls that can be
executed, calls skipped for their name or arguments, rounds skipped for their budget,
duplicate tool names, results that are cut or moved to files, errors, a client that
goes away, a crash, and the clean-up at the next start. The model asks for any tools
in any round; in the final one tools are bound, but may not be called. A file is
written, only begun (`os.write` failed after `os.open`: on disk, outside the
allowlist) or not there; a directory that cannot be removed leaves its files and a
warning (`warned`). The retrieval tools are added to the tools in place when the
first file is, and cannot be called if two MCP tools have their name already. The
calls of a round have their results all at once here; their concurrency is
ToolExecution.

### Quota — limiters, usage history, scheduler and requests
One action per SQL statement, as each runs in its own transaction. A request goes
`check` / `init` per limiter, `llm`, `store`, `history`, `consume` per limiter, `reply`;
`fail` and `disconnect` can end it wherever the code can raise or be cancelled. A
sweep of a replica runs two statements per limiter (`2l-1` increase, `2l` reset); its
connection may break, which the code logs and never repairs, and the process may be
restarted. Limiters of the same type share a row, as the primary key
`(id, subject)` says. `created_at`, `updates` and `granted` are history variables.

### HistoryCompression — the requests of one conversation
An entry is the set of turns it tells about, so a summary is an entry with several
turns and `NothingLost` is a statement about coverage. `Fitting` and `keep_entries`
are `_split_entries_by_token_budget` and the slices of
`compress_conversation_history`. `_rewrite_cache` is one step per cache call. A
summary that fails for good, or is empty, leaves the stored history alone; with
compression disabled a request does to the stored history what a fitting one does.

### Auth and QueryRequest — the endpoints from header to last byte
`Auth` has the three authentication modules as sets of possible outcomes, and the
client singleton as a state machine (`none`, `building`, `ready`, `broken`).
`QueryRequest` runs requests of any endpoint through it and then through
`process_request`, the answer or the stream, `store_conversation_history`,
`store_transcript`, `consume_tokens`, the closing audit event (`complete`) and, after it,
the reply or the end event (`answer`), one action per step, each with the failure the
code has for it; conversation endpoints, feedback and
`/authorized` run beside them. A text is a sequence of fragments, some of which the
filters look for, and `seen` collects what left the service. Every user has one
conversation.

### McpTools — who talks to which server
Servers differ by the placeholders in their headers. Every `await` of
`get_mcp_tools` is a step: the flag `k8s_tools_resolved`, the population of the shared
index, the search, and the second gathering with the request's own headers. A search
finds any documents in scope. Any subset of the servers answers.

### Configuration and Service — from file to readiness
`Configuration` is the acceptance of a document as one predicate per class of
`config.py`, and what the accepted document means for TLS: which connections can use
it (`Encrypted`: the service unless it has no certificates, a database unless its
`ssl_mode` is `disable`) and the least version of each. A document is a record of what
is missing, what is malformed and the values that decide something. `Service` starts a
process from a document, starts the thread that loads indexes, and answers readiness
probes in overlapping threads; `AppConfig` creates the index loader and the
conversation cache on first use, without a lock. The disk changes while loaders are at
work, so that of two racing ones either may fail or read less. The connection of the
Postgres cache is opened when the cache is created, lost with the database, seen but
not opened by `ready()`, and opened again only by a request (`use_cache`).

## 3. Runs

Passing runs (two workers; the longest takes about a minute and a half):

| Run | Instance | Shows |
|---|---|---|
| `in_memory_cache` | 1 user, 3 conversations, 2 messages, capacity 3, 4 messages counted per conversation | structures agree, total exact, in capacity, refinement of ConversationStore |
| `in_memory_threads` | 2 threads, 2 conversations, capacity 2 | the counter and the listing survive every race; every operation ends and gives the lock back |
| `postgres_cache` | 2 replicas, 2 conversations, capacity 2, 5 operations | appends survive, overshoot bounded, tables agree, waits end |
| `tool_round` | 2 calls, 2 retries, all policies and annotations, streaming or not | fail closed, one result per call, honest results, store cleaned up, the round ends |
| `agent_loop` | 30 tokens, of which 12 for tools and 4 for the answer; 3 rounds, up to 2 documents, messages and calls | every call answered, bounded, refusals explained, offloaded output reachable while tools may be called, and removed or reported |
| `quota` | 1 user, 2 concurrent requests, user and cluster limiter, 2 replicas, clock to 2 | debits land, overdraft bounded, history covers debits, once per period |
| `history_compression` | 1 request at a time, 5 turns, entries of 1-2 tokens, budget 1-4, 2 entries kept, 3 attempts | compression tells all turns in order and once, nothing lost, stored in order, every request ends |
| `query_request` | 2 requests, 2 tokens, 2 filters, 1 attachment, all endpoints and modules | only admitted users, nothing unredacted, audit agrees, completed is durable, no made-up conversation |
| `mcp_tools` | 2 requests, 3 servers with each kind of header, 2 tools of one name | own credentials only, the default scope is common |
| `service` | 1300 documents, 2 probes, 2 indexes, expiry after 2 or never | one TLS floor for all connections, old successes forgotten, eventually ready |

Why the bounds suffice. Capacity 3 with 3 conversations of up to 4 messages reaches
eviction of one message and of a whole conversation, with every recency order of the
three. Two threads are enough for every race of the in-memory cache, as the lock
admits one writer, and the deque is disturbed by one unlocked `get` at a time. In
`postgres_cache` two operations fill the capacity of 2, two more overlap at the limit,
which allows for 4 entries, and the fifth is the one that could exceed what the first
four allowed: with four operations in all the bound on the overshoot would hold for
their number alone. A deadlock needs two rows and two inserts that wait for each other
crosswise, which is four operations. Calls of a round interact only through the store and
the result stream, so two show every interaction; three attempts (two retries)
include a first, a middle and a last one. In the agent loop the lengths 1, 9 and 13
fit, nearly fill and exceed each budget (14 for the prompt, 12 for tools, 7 for a
round) in every combination; three rounds have a first, a middle and a final one, the
configured limit is below the default, as it may be. With limits of 1 and 2 tokens
every debit of the quota run is at the boundary, and two requests are enough to
overdraw; periods are 1, so the clock sees two of them. Five turns with two kept let
a history be compressed twice, so that a summary is summarized again. In
`query_request` what the first filter writes the second looks for; two requests are
enough for the race to build the client and for an update overtaken by a deletion.
The documents of `service` vary one accepted document around every limit of
`Configuration`, leave out and spoil every key once, and combine TLS profiles and
versions with `disable_tls`, missing certificates and the `ssl_mode` of both databases;
three more are about what readiness depends on: with or without indexes, a database,
an expiry.
`MaxMessages`, `MaxUsage`, `MaxTurns`, `MaxTime`, `MaxOps`, `MaxItems`,
`MaxAttachments` and `MaxConnections` only stop counters or bound inputs. Deadlock is
not checked where the system may stop: a round or a set of requests that is over, a
process that was refused its configuration, operations that are used up.

Symmetry is used for requests, users and replicas in runs without liveness.

Runs that expect a violation state what a document of the repository promises and
show that the code does otherwise:

| Run | Promise | What happens |
|---|---|---|
| `concurrent_turn` | concurrent access to a conversation is serialized (conversation-history.md) | a turn stored during another request's summary is lost |
| `acknowledged_is_stored` | `_tx_lock` serializes all operations and reconnections (cache.md, conversation-history.md) | one thread replaces the connection inside another's transaction: the commit goes to the new one, and the write is gone |

**Fairness.** `ToolExecution` and `HistoryCompression`: weak fairness of each
coroutine's next step, since the event loop runs whatever is ready, timers fire, and a
tool, a model call or a cache call returns or raises. Users, clients and deletions
are under no fairness. `InMemoryCacheThreads`: weak fairness of the rest of an
operation that was begun, since the interpreter schedules every runnable thread; no
fairness for beginning one. `PostgresCache` has none: that a statement is answered and
a deadlock broken is up to the server, as the code sets no statement timeout, although
conversation-history.md (rule 21) asks for one. What the code has to do for waits to
end is stated as safety (`WaitsEnd`).
`Service`: weak fairness of every thread, which for probes includes the kubelet's
next probe; none for start-up, the clock, the environment or requests, as a service
that is not ready gets none. What the environment has to do is the premise of
`EventuallyReady`: the process serves, loaders find some configured index, embedding
model, LLM and database work from some time on (`Recovered`), and a lost connection
does not stay lost. `Quota` has no liveness property: the scheduler never
reconnects, so the code promises no eventual grant.

## 4. Proofs

The proofs hold for every value of the constants under the named assumptions of the
modules: a natural capacity and retry count, at least one conversation, "none" values
that are not values, well-formed limiter configurations, finitely many concurrent
requests, answers of at least one token (for the quotas), documents whose indexes exist
and whose expiry is an integer, filters and texts that are sequences, texts whose lengths are naturals. The
specifications are those of the runs, with their fairness, which safety
proofs do not use. Each inductive invariant was first checked by TLC on the instance
of its run.

* **InMemoryCache_proofs.** `IInv` conjoins the five invariants; none is inductive
  alone: the counter is exact after an eviction only because the deque's last key is
  cached, and stays within capacity only because it is exact. The lemmas say what
  `RemoveFirst`, `Front` and pushing do to a duplicate-free sequence and what
  appending, dropping and clearing do to the number of stored messages;
  `insert_or_append` is proved in two halves, insertion and eviction.
  `CacheImplementsStore` is the refinement: with `IInv`, each action is `Read`,
  `Store` or `Remove` of ConversationStore or a stutter, where the recency relation of
  the state after is computed from that before (`OlderIn`, `Used`, `Without`). With
  threads (`TotalWithThreads`, `ListedWithThreads`) nothing is left of the order in the
  deque; `ThreadInv` says instead by which one message the counter and the metadata
  lag behind the history at each statement of the lock's holder, and that nobody else
  writes them.
* **PostgresCache_proofs.** `CacheInv` rests on two exclusions: transactions that hold the
  advisory lock of a conversation are one at a time (`Exclusive`), and so are those in
  the middle of changing an uncontended conversation (`Alone`), since whoever meets
  them there contends. Hence what a transaction read is still what is stored, and
  `Told` and `Tallied` can relate its uncommitted rows to the log it will have
  extended. One lemma per statement; `Steps` shares what all of them have to say of
  the other replicas, `Publishing` what both commits do. `EndsWith` is `IsSuffix`
  without reversal. `OvershootBounded` says nothing of rows that are read but not yet
  written back, so `BoundInv` counts the places of entries that are stored or that a
  transaction has seen and can still commit again (`Slots`): no statement adds one, a
  commit adds one at most. An insert that met nobody adds none above the capacity, since
  it sees exactly what is stored (`Exact`): it counts right, finds an oldest row and
  gives up an entry that is there. `WaitsEnd` follows from which tables a transaction can
  have written at each statement (`OwnDrafts`): in a circle without an eviction nobody can
  be at the advisory lock, as nobody waits for one who holds nothing; hence nobody before
  the first row, and hence nobody before the metadata.
* **ToolExecution_proofs.** `FailsClosed` needs `Gate`: a call that can execute was
  approved or needs no approval. `OneResult` and `ResultsTrue` rest on `Progress`
  (attempts per label) and on lemmas about appending one result. `FirstAnswerStays`
  is an action property.
* **AgentLoop_proofs.** `Counted` ties the number of questions to the round and the place
  in it, which `LoopIsBounded` alone does not know; `Kept` follows offloaded files
  through registration and the end of the request, where they are gone or the failure
  to remove them was logged; `Answered` says that the messages
  appended in a round are the calls of that round, each once, skipped ones first. It
  needs that `Listing` enumerates a finite set of positions without repetition.
  `TooLongExplained` needs `Budgeted`: at each stage of the prompt, what is charged so far
  leaves something of the budget unless documents exceeded it, later stages are not
  charged yet, and the history taken fits what is left (`HistoryFits`). The sums are
  recursive functions, about which lemmas say that they exist and add up. The last part is about the history that the prompt is given: HistoryCompression with one request
  at a time (`OneAtATime`; `concurrent_turn` shows what two do to each other), a positive
  `entries_to_keep` and everything else arbitrary. `HistoryInv` says at each place of a compression what the locals hold: the newest
  entries of what was read, then a replacement that tells the same turns in the same
  order and each once, then the rest of it still to be inserted. The stored entries followed by that rest never change
  during a rewrite, and are in order and complete; a deletion in between drops the
  stored part and counts its turns as deleted.
* **Quota_proofs.** `DebitsLand` needs `Checked`: while a request is at limiter `i` the
  rows of the limiters before `i` exist, and rows are never removed. `OncePerPeriod`
  needs `Paced`, which counts up to `revoked_at` and so relates the timestamp on which
  the statement's condition depends to the number of changes; each change then pays
  for one more period. The two sums over requests are written as cardinalities:
  `OverdraftBounded` from `Backed` (balance minus what is pending against a row stays
  above the floor: passing a check needs a positive balance, a debit takes one pending
  debit away), `HistoryCoversDebits` from `Recorded` (what was debited plus the recorded
  tokens not yet debited is at most what the history shows). Both need `Placed`, the
  position at which a request's debits start.
* **QueryRequest_proofs.** The properties speak of requests under way or over; `QueryInv`
  says for every place of the handlers for whom a request is served (`Identified`),
  what its client was told and what was audited (`Told`, which also says that
  nothing closes the log before `complete`, and that between `complete` and `answer`
  the one closing event is "completed"), and what it has stored
  (`Durable`); `Existing` adds that a request about to list a conversation has seen a
  turn of it, which no later deletion takes back. `NothingLeaks` needs `Redacted`: query
  and attachments consist of clean fragments from their redaction on, and only such
  texts are seen. That `redact` returns a clean text is an induction over the filters:
  after filter `i` nothing is left that one of the first `i` looks for and none from it
  on writes.
* **McpTools_proofs.** `OwnCredentials` becomes inductive once a request that has yet to
  come is known to have contacted nobody. The lemmas say which servers
  `build_mcp_config` yields and that `deduplicate` keeps one tool of each name.
* **Service_proofs.** The lemmas about Configuration say that an accepted profile found
  in the tables has a version of at least 1.2, and that service and databases, which
  look it up separately, arrive at the same one; `Configured` (the configuration is
  that of an accepted document, and its profile was found) carries that to a serving
  process (`TLSFloor`). `StaleSuccess` is about any number of
  probes between reading the time, resetting and storing the state.

Induction over data is available in one form: that every non-empty set of naturals has
a least element (`WFMin` of the library, as lemma `LeastNumber`). It gives facts about
positions and cardinalities, and about a recursive function over the filters of a list
or its elements: that such a function exists up to each length, and what it returns.

Every safety invariant and action property of a passing run is thereby proved for every
value of the constants. Only model-checked are the liveness properties (`RoundEnds`,
`RequestEnds`, `EveryOperationEnds`, `EventuallyReady`), which are out of the prover's
reach, and the two violations.

## 5. Observations

Behaviours that the models contain, that differ from what one of the repository's
documents says or that a reader may not expect, and that have no run of their own:

* `InMemoryCache.get` edits the deque without the lock (`in_memory_cache.py:60`), though
  conversation-history.md wants a mutex for all mutations. After a race the deque may
  hold a key twice or miss one; an eviction may then raise, and the cache stays above
  its capacity.
* A stream closed at the approval event leaves the pending approval in the store
  (`tools.py:426`); tools.md wants it cleaned up. An approval that arrives after the timer has
  cancelled the wait, but before the waiter has run, is answered with 200 and dropped
  (the call fails closed).
* A limiter with both options is increased and then not reset, because the increase
  moves `revoked_at` (`quota_scheduler.py:89`); the README of the service says it is reset to
  the sum. Limiters of one type share a row, so in that README's example of two user
  limiters the daily increase keeps the monthly reset from ever being due.
* Of two concurrent first requests of a subject one fails (`revokable_quota_limiter.py:82`).
* A request whose answer was produced may end, by a disconnect or a failing
  statement, before every limiter is debited.
* A conversation deleted while a compression waits for the model is written back
  (`history_support.py:104`). When at most `entries_to_keep` entries fit the budget, the
  oldest of them is summarized too.
* `_cleanup` of the Postgres cache evicts one message at most (`postgres_cache.py:476`), though
  its docstring and rule 8 of conversation-history.md say that it goes on until the
  entries are within capacity: what overlapping inserts have added stays. When it evicts
  the last message of a conversation it leaves the metadata (`postgres_cache.py:490`), so that
  the conversation is still listed; the same rule wants both removed, as the in-memory
  cache does. `CountMatchesHistory` says nothing of such a conversation.
* `PostgresCache.ready` sees a closed connection and does not open it (`postgres_cache.py:398`,
  with a comment that it should); only another operation of the cache would. A service
  that gets no requests because it is not ready stays so after the database is back,
  until it is restarted: without its premise about the connection `EventuallyReady` is
  violated. Rule 22 of conversation-history.md wants a loop that reconnects.
* Clean-up and deletion in Postgres take no advisory lock: an append that meets one of
  them on its conversation may be lost, and two clean-ups may evict the same entry.
  `AppendsSurvive`, `CountMatchesHistory` and
  `OvershootBounded` say exactly in which cases.
* Documents that were truncated to fit are charged a tenth more than fits
  (`truncate_rag_context` cuts plain tokens, `charge` counts weighted ones); a request can
  then be refused as too long, which `TooLongIsExplained` pins to this cause.
* Output moved to a file in the round before the final one cannot be read, as the final
  round binds its tools with `tool_choice` "none" (`llm_execution_agent.py:435`). Two MCP
  tools with the name of a retrieval tool make it uncallable for the request.
* An `os.write` that fails leaves the begun file until the clean-up
  (`offloaded_content.py:132`), and the number of bytes it wrote is not looked at. A
  directory that cannot be removed is logged and left (`offloaded_content.py:163`).
* `search_offloaded_content` limits a search with `signal.SIGALRM`, which Python refuses
  outside the main thread, where `/query` runs its requests.
* Tools are filtered by name and by server separately, so that a request may be
  offered a tool of the same name from another server than the one that was found.
* If no server answers the first request, the default scope of tool searches stays empty
  until the process is restarted (`mcp_utils.py:310`).
* Readiness expires by the time since the last probe (`health.py:36`): while probes come more
  often than the expiry, an old success is never checked again.
* Probes and the loading thread may each construct an index loader (`config.py:165`). One
  that could read no index, by a failure that has passed since, stays, also in the place
  of a better one: probes answer "Index is not ready" until the process is restarted,
  although `vector_indexes` logs that the service goes on without it.
* A custom TLS profile without a version passes validation and stops the start
  (`uvicorn.py:38`); the profile of a provider is not validated. A `minTLSVersion` without
  a profile type is validated and then not used. With `disable_tls` and certificates the
  service still serves TLS.
* A stream whose end event fails is audited as completed and then as failed
  (`streaming_ols.py:546`); a query whose reply cannot be built is answered with 500 and
  stays audited as completed (`ols.py:234`).
* A request rejected in `process_request` after its start was audited has no closing
  audit event.
* The Azure token and its expiry are written by two statements without a lock
  (`azure_openai.py:122`); not modelled.

## 6. Not modelled

* LLM providers (`src/llms`): parameter tables for external services.
* Ranking (`src/rag`, `solr_support.py`, `skills_rag.py`): numerical, or a client of an
  external service; the models take any result.
* `app/models/models.py`, prompts, metrics, tracing, logging, the demo UI, the
  middleware of `app/main.py`, telemetry of the configuration, build and release scripts
  under `scripts/`: no protocol state.
* Lazily created objects of `AppConfig` other than the index loader and the conversation
  cache: they follow the same pattern.
* Within modelled parts: texts and formats, timestamps that only sort listings, the
  contents of tool output, back-off times, `RevokableQuotaLimiter.revoke_quota` and
  `increase_quota` (no callers).
* `ConversationStore` is not the abstract specification of PostgresCache: clean-up by
  `updated_at` of replicas that overlap does not implement it.

## 7. Plan

Modelling is complete along the plan above, and so are the proofs of the safety
properties that the runs check. What could still be added is a positive statement about
PostgresConnection, of which only the violation is shown: what the threads can rely on
as long as the connection does not break; and, once the documented reconnection loop
exists, readiness after a lost connection without the premise about requests.
