------------------------------- MODULE Quota -------------------------------
(***************************************************************************)
(* Token quotas: ols/src/quota (the limiters and the token usage history), *)
(* ols/runners/quota_scheduler.py, and the places where the query          *)
(* endpoints use them (check_tokens_available before the model is asked,   *)
(* consume_tokens after it answered).                                      *)
(*                                                                         *)
(* All state is in two Postgres tables that every replica shares.  A       *)
(* statement is atomic; everything between two statements is not.  A row   *)
(* of quota_limits belongs to a (subject id, subject type): the limiters   *)
(* of one type share it, whatever their names.                             *)
(***************************************************************************)
EXTENDS Integers, Sequences, FiniteSets

CONSTANTS
    User,
    Cluster,    \* the subject of the cluster-wide row (the empty subject id)
    None,       \* an option that is not set
    Limiters,   \* config.quota_handlers.limiters: a sequence of LimiterConfig
    Request,    \* request slots: how many requests run at the same time
    Replica,    \* service processes, each with a scheduler thread
    MaxTokens,  \* bound: tokens of one request
    MaxUsage,   \* bound: a user with this many tokens in the history sends no more
    MaxTime     \* bound: the clock

LimiterConfig ==
    [type : {"u", "c"}, initial_quota : Nat, quota_increase : Nat \cup {None}, period : Nat]

ASSUME SubjectAssumption == Cluster \notin User
ASSUME OptionAssumption == None \notin Nat
ASSUME LimitersAssumption == Limiters \in Seq(LimiterConfig)
ASSUME MaxTokensAssumption == MaxTokens \in Nat \ {0}
ASSUME RequestAssumption == IsFiniteSet(Request)
ASSUME MaxUsageAssumption == MaxUsage \in Nat
ASSUME MaxTimeAssumption == MaxTime \in Nat

VARIABLES
    now,            \* the clock of the database
    rows,           \* the subjects that have a row in quota_limits
    available,      \* Row -> quota_limits.available
    revoked_at,     \* Row -> quota_limits.revoked_at
    token_usage,    \* User -> tokens in the history
    pc,             \* Request -> where its handler is
    user,           \* Request -> user_id
    index,          \* Request -> position in `for quota_limiter in quota_limiters'
    tokens,         \* Request -> input and output tokens of the answer
    statement,      \* Replica -> next statement of the scheduler's sweep, 0: asleep
    alive,          \* Replica -> whether the scheduler's connection works
    created_at,     \* history: Row -> when the row was inserted
    updates,        \* history: Row -> how often the scheduler has changed it
    granted         \* history: Row -> tokens put on it so far, less those taken by resets

tables == <<rows, available, revoked_at, token_usage>>
requestVars == <<pc, user, index, tokens>>
schedulerVars == <<statement, alive>>
historyVars == <<created_at, updates, granted>>
vars == <<now, rows, available, revoked_at, token_usage, pc, user, index, tokens,
          statement, alive, created_at, updates, granted>>

Row == User \cup {Cluster}

Label == {"idle", "check", "init", "llm", "store", "history", "consume", "reply",
          "done", "refused", "failed", "gone"}

\* A handler that has returned, in one of four ways.
Ended == {"done", "refused", "failed", "gone"}

\* The row of a subject for limiter l: the cluster limiter ignores the user.
Subject(l, u) == IF Limiters[l].type = "c" THEN Cluster ELSE u

\* The limiters that row x belongs to.
LimitersOf(x) == {l \in 1..Len(Limiters) : Limiters[l].type = "c" <=> x = Cluster}

Init ==
    /\ now = 0
    /\ rows = {}
    /\ available = [x \in Row |-> 0]
    /\ revoked_at = [x \in Row |-> 0]
    /\ token_usage = [u \in User |-> 0]
    /\ pc = [r \in Request |-> "idle"]
    /\ user \in [Request -> User]
    /\ index = [r \in Request |-> 1]
    /\ tokens = [r \in Request |-> 0]
    /\ statement = [p \in Replica |-> 0]
    /\ alive = [p \in Replica |-> TRUE]
    /\ created_at = [x \in Row |-> 0]
    /\ updates = [x \in Row |-> 0]
    /\ granted = [x \in Row |-> 0]

Goto(r, label) == pc' = [pc EXCEPT ![r] = label]

-----------------------------------------------------------------------------
(* Before the model is asked: check_tokens_available *)

arrive(r, u) ==
    /\ pc[r] \in {"idle"} \cup Ended
    /\ token_usage[u] < MaxUsage
    /\ user' = [user EXCEPT ![r] = u]
    /\ index' = [index EXCEPT ![r] = 1]
    /\ tokens' = [tokens EXCEPT ![r] = 0]
    /\ Goto(r, IF Limiters = <<>> THEN "llm" ELSE "check")
    /\ UNCHANGED <<now, tables, schedulerVars, historyVars>>

\* Mutant: zero tokens are still enough.
ensure_available_quota_AllowsZero(r, balance) ==
    IF balance < 0
      THEN Goto(r, "refused") /\ UNCHANGED index
      ELSE /\ index' = [index EXCEPT ![r] = @ + 1]
           /\ Goto(r, IF index[r] = Len(Limiters) THEN "llm" ELSE "check")

\* Mutant: the first limiter that agrees is enough.
ensure_available_quota_FirstOnly(r, balance) ==
    IF balance <= 0
      THEN Goto(r, "refused") /\ UNCHANGED index
      ELSE /\ index' = [index EXCEPT ![r] = @ + 1]
           /\ Goto(r, "llm")

\* Refuse the request, or go on to the next limiter and finally to the model.
ensure_available_quota(r, balance) ==
    IF balance <= 0
      THEN Goto(r, "refused") /\ UNCHANGED index
      ELSE /\ index' = [index EXCEPT ![r] = @ + 1]
           /\ Goto(r, IF index[r] = Len(Limiters) THEN "llm" ELSE "check")

\* SELECT_QUOTA; without a row _init_quota comes next, as another statement.
available_quota(r) ==
    LET x == Subject(index[r], user[r]) IN
    /\ pc[r] = "check"
    /\ IF x \in rows
         THEN ensure_available_quota(r, available[x])
         ELSE Goto(r, "init") /\ UNCHANGED index
    /\ UNCHANGED <<now, tables, user, tokens, schedulerVars, historyVars>>

\* INIT_QUOTA: a plain INSERT.  If somebody else inserted the row meanwhile, the
\* primary key makes it fail and the request ends with status 500.
init_quota(r) ==
    LET x == Subject(index[r], user[r])
        q == Limiters[index[r]].initial_quota
    IN
    /\ pc[r] = "init"
    /\ IF x \in rows
         THEN /\ Goto(r, "failed")
              /\ UNCHANGED <<index, rows, available, revoked_at, historyVars>>
         ELSE /\ rows' = rows \cup {x}
              /\ available' = [available EXCEPT ![x] = q]
              /\ revoked_at' = [revoked_at EXCEPT ![x] = now]
              /\ created_at' = [created_at EXCEPT ![x] = now]
              /\ granted' = [granted EXCEPT ![x] = q]
              /\ ensure_available_quota(r, q)
              /\ UNCHANGED updates
    /\ UNCHANGED <<now, token_usage, user, tokens, schedulerVars>>

-----------------------------------------------------------------------------
(* After the answer: store_conversation_history, consume_tokens *)

\* The model has answered, at the price of n tokens.
generate_response(r, n) ==
    /\ pc[r] = "llm"
    /\ tokens' = [tokens EXCEPT ![r] = n]
    /\ index' = [index EXCEPT ![r] = 1]
    /\ Goto(r, "store")
    /\ UNCHANGED <<now, tables, user, schedulerVars, historyVars>>

\* The client of a streaming response goes away: nothing after the stream runs.
disconnect(r) ==
    /\ pc[r] \in {"llm", "store"}
    /\ Goto(r, "gone")
    /\ UNCHANGED <<now, tables, user, index, tokens, schedulerVars, historyVars>>

\* Mutant: the usage is not recorded.
store_conversation_history_NoHistory(r) ==
    /\ pc[r] = "store"
    /\ Goto(r, IF Limiters = <<>> THEN "reply" ELSE "consume")
    /\ UNCHANGED <<now, tables, user, index, tokens, schedulerVars, historyVars>>

store_conversation_history(r) ==
    /\ pc[r] = "store"
    /\ Goto(r, "history")
    /\ UNCHANGED <<now, tables, user, index, tokens, schedulerVars, historyVars>>

\* TokenUsageHistory.consume_tokens: one upsert.
consume_tokens_history(r) ==
    /\ pc[r] = "history"
    /\ token_usage' = [token_usage EXCEPT ![user[r]] = @ + tokens[r]]
    /\ Goto(r, IF Limiters = <<>> THEN "reply" ELSE "consume")
    /\ UNCHANGED <<now, rows, available, revoked_at, user, index, tokens, schedulerVars,
                   historyVars>>

\* RevokableQuotaLimiter.consume_tokens of the next limiter: one UPDATE, which
\* changes nothing if there is no row.
consume_tokens(r) ==
    LET x == Subject(index[r], user[r]) IN
    /\ pc[r] = "consume"
    /\ available' = [available EXCEPT ![x] = IF x \in rows THEN @ - tokens[r] ELSE @]
    /\ index' = [index EXCEPT ![r] = @ + 1]
    /\ Goto(r, IF index[r] = Len(Limiters) THEN "reply" ELSE "consume")
    /\ UNCHANGED <<now, rows, revoked_at, token_usage, user, tokens, schedulerVars,
                   historyVars>>

\* get_available_quotas reads every row once more, and the handler returns.
get_available_quotas(r) ==
    /\ pc[r] = "reply"
    /\ Goto(r, "done")
    /\ UNCHANGED <<now, tables, user, index, tokens, schedulerVars, historyVars>>

\* A statement of this request, the model or the conversation cache fails.
fail(r) ==
    /\ pc[r] \in {"check", "init", "llm", "store", "history", "consume", "reply"}
    /\ Goto(r, "failed")
    /\ UNCHANGED <<now, tables, user, index, tokens, schedulerVars, historyVars>>

-----------------------------------------------------------------------------
(* quota_scheduler: quota_revocation of each limiter, with two statements each *)

\* Mutant: off by one at the end of the period.
Due_Early(l) ==
    {x \in rows : l \in LimitersOf(x) /\ revoked_at[x] <= now - Limiters[l].period}

\* The subjects of limiter l whose period is over: revoked_at < NOW() - INTERVAL.
Due(l) ==
    {x \in rows : l \in LimitersOf(x) /\ revoked_at[x] < now - Limiters[l].period}

\* The sweep goes to statement k + 1, or back to sleep.
Advance(p, k) ==
    statement' = [statement EXCEPT ![p] = IF k = 2 * Len(Limiters) THEN 0 ELSE k + 1]

wake(p) ==
    /\ statement[p] = 0
    /\ Limiters # <<>>
    /\ statement' = [statement EXCEPT ![p] = 1]
    /\ UNCHANGED <<now, tables, requestVars, alive, historyVars>>

\* One UPDATE ... SET available=balance, revoked_at=NOW() over the rows in S.
Apply(S, balance) ==
    /\ available' = [x \in Row |-> IF x \in S THEN balance[x] ELSE available[x]]
    /\ revoked_at' = [x \in Row |-> IF x \in S THEN now ELSE revoked_at[x]]
    /\ updates' = [x \in Row |-> IF x \in S THEN updates[x] + 1 ELSE updates[x]]
    /\ granted' = [x \in Row |-> IF x \in S THEN granted[x] + balance[x] - available[x]
                                 ELSE granted[x]]
    /\ UNCHANGED <<rows, created_at>>

\* INCREASE_QUOTA_STATEMENT, if the limiter has an increase.  A broken connection
\* raises; the sweep logs that and goes on with the next limiter.
increase_quota(p, l) ==
    /\ statement[p] = 2 * l - 1
    /\ IF alive[p] /\ Limiters[l].quota_increase # None
         THEN Apply(Due(l), [x \in Due(l) |-> available[x] + Limiters[l].quota_increase])
         ELSE UNCHANGED <<rows, available, revoked_at, historyVars>>
    /\ Advance(p, 2 * l - 1)
    /\ UNCHANGED <<now, token_usage, requestVars, alive>>

\* RESET_QUOTA_STATEMENT, if the limiter has an initial quota.
reset_quota(p, l) ==
    /\ statement[p] = 2 * l
    /\ IF alive[p] /\ Limiters[l].initial_quota > 0
         THEN Apply(Due(l), [x \in Due(l) |-> Limiters[l].initial_quota])
         ELSE UNCHANGED <<rows, available, revoked_at, historyVars>>
    /\ Advance(p, 2 * l)
    /\ UNCHANGED <<now, token_usage, requestVars, alive>>

\* The scheduler connects once, when it starts, and never again.
connection_lost(p) ==
    /\ alive[p]
    /\ alive' = [alive EXCEPT ![p] = FALSE]
    /\ UNCHANGED <<now, tables, requestVars, statement, historyVars>>

\* The process is replaced, with a new connection and a new sweep.
restart(p) ==
    /\ statement' = [statement EXCEPT ![p] = 0]
    /\ alive' = [alive EXCEPT ![p] = TRUE]
    /\ UNCHANGED <<now, tables, requestVars, historyVars>>

tick ==
    /\ now < MaxTime
    /\ now' = now + 1
    /\ UNCHANGED <<tables, requestVars, schedulerVars, historyVars>>

-----------------------------------------------------------------------------

Handle(r) ==
    \/ \E u \in User : arrive(r, u)
    \/ available_quota(r)
    \/ init_quota(r)
    \/ \E n \in 0..MaxTokens : generate_response(r, n)
    \/ disconnect(r)
    \/ store_conversation_history(r)
    \/ consume_tokens_history(r)
    \/ consume_tokens(r)
    \/ get_available_quotas(r)
    \/ fail(r)

Schedule(p) ==
    \/ wake(p)
    \/ \E l \in 1..Len(Limiters) : increase_quota(p, l) \/ reset_quota(p, l)
    \/ connection_lost(p)
    \/ restart(p)

Next ==
    \/ \E r \in Request : Handle(r)
    \/ \E p \in Replica : Schedule(p)
    \/ tick

Spec == Init /\ [][Next]_vars

-----------------------------------------------------------------------------
(* Properties *)

\* The columns keep their types, and a sweep of the scheduler is always at one of
\* the two statements of a configured limiter, or asleep.
TypeOK ==
    /\ now \in 0..MaxTime
    /\ rows \in SUBSET Row
    /\ available \in [Row -> Int]
    /\ revoked_at \in [Row -> Nat]
    /\ token_usage \in [User -> Nat]
    /\ pc \in [Request -> Label]
    /\ user \in [Request -> User]
    /\ index \in [Request -> Nat \ {0}]
    /\ tokens \in [Request -> 0..MaxTokens]
    /\ statement \in [Replica -> 0..2 * Len(Limiters)]
    /\ alive \in [Replica -> BOOLEAN]
    /\ created_at \in [Row -> Nat]
    /\ updates \in [Row -> Nat]
    /\ granted \in [Row -> Int]

\* Debits are never lost: whoever has passed check_tokens_available finds a row
\* for every limiter, so the UPDATE of consume_tokens always changes one.
DebitsLand ==
    \A r \in Request :
        pc[r] \in {"llm", "store", "history", "consume"} =>
            \A l \in 1..Len(Limiters) : Subject(l, user[r]) \in rows

\* The check is not a reservation, but the overdraft is bounded: a balance never
\* falls below what the requests that can run at the same time may cost.
OverdraftBounded ==
    \A x \in rows :
        available[x] > -(Cardinality(Request) * Cardinality(LimitersOf(x)) * MaxTokens)

\* The scheduler's guard: with any number of replicas, restarts and broken
\* connections, a row is changed at most once in each of the shortest period of
\* its limiters, counted from its insertion.
OncePerPeriod ==
    \A x \in rows, l \in 1..Len(Limiters) :
        /\ l \in LimitersOf(x)
        /\ \A m \in LimitersOf(x) : Limiters[l].period <= Limiters[m].period
        => updates[x] * (Limiters[l].period + 1) <= now - created_at[x]

\* The two tables agree in one direction whatever fails between the statements of
\* consume_tokens: what was taken off a user's balance is in the usage history.
HistoryCoversDebits ==
    \A u \in User :
        granted[u] - available[u] <= Cardinality(LimitersOf(u)) * token_usage[u]

=============================================================================
