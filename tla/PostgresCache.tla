--------------------------- MODULE PostgresCache ---------------------------
(***************************************************************************)
(* ols/src/cache/postgres_cache.py: the conversation cache in Postgres,    *)
(* shared by several replicas of the service.  A replica runs one          *)
(* operation at a time (_tx_lock); one action is one SQL statement, run    *)
(* READ COMMITTED: it sees what is committed and its own writes, waits for *)
(* a row that another transaction has written, and fails when it is part   *)
(* of a circle of waiters.  A session can be lost at any point.            *)
(*                                                                         *)
(* The clock counts operations: the time at which an operation started is  *)
(* CURRENT_TIMESTAMP in all its statements, and names the message that it  *)
(* stores.                                                                 *)
(***************************************************************************)
EXTENDS Integers, Sequences, FiniteSets, FiniteSetsExt, SequencesExt

CONSTANTS
    Replica,        \* replicas of the service, one connection each
    Key,            \* conversations
    capacity,       \* config.max_entries
    Clean,          \* marks a row that a transaction has not written
    MaxOps          \* bound: operations

ASSUME CapacityAssumption == capacity \in Nat \ {0}
ASSUME KeyAssumption == Key # {}

NoRow == -1
Row == [value : Seq(Nat), updated_at : Nat]
ASSUME CleanAssumption == Clean \notin Row /\ Clean \notin Int

VARIABLES
    cache,          \* Key -> the committed history and its updated_at; <<>> is no row
    conversations,  \* Key -> committed message_count, or NoRow
    now,            \* operations started so far
    pc,             \* Replica -> its next statement
    key,            \* Replica -> the conversation it works on
    started,        \* Replica -> when its operation started
    old_value,      \* Replica -> the history that its SELECT returned
    victim,         \* Replica -> keys that _cleanup chose: none or one
    draft,          \* Replica -> uncommitted rows of cache
    draft_meta,     \* Replica -> uncommitted rows of conversations
    log,            \* history: Key -> messages committed since the last deletion
    contended,      \* history: keys where a clean-up or deletion met another operation
    overlap,        \* history: Replica -> another operation ran during this one
    overlapped      \* history: committed inserts that overlapped another operation

tables == <<cache, conversations>>
locals == <<key, started, old_value, victim>>
drafts == <<draft, draft_meta>>
ghosts == <<log, contended, overlap, overlapped>>
vars == <<tables, now, pc, locals, drafts, ghosts>>

Empty == [value |-> <<>>, updated_at |-> 0]
Untouched == [k \in Key |-> Clean]

\* What a statement of p sees.
Seen(p, k) == IF draft[p][k] = Clean THEN cache[k] ELSE draft[p][k]
SeenMeta(p, k) == IF draft_meta[p][k] = Clean THEN conversations[k] ELSE draft_meta[p][k]
Present(p) == {k \in Key : Seen(p, k).value # <<>>}

\* The places of a table's entries: the i-th of each conversation.
Places(rows) == UNION {{k} \X (1..Len(rows[k].value)) : k \in Key}

\* QUERY_TOTAL_ENTRIES
total_entries(p) == Cardinality(Places([k \in Key |-> Seen(p, k)]))

\* SELECT_OLDEST_ROW: rows of the same time may come in any order.
Oldest(p) ==
    {k \in Present(p) : \A j \in Present(p) : Seen(p, k).updated_at <= Seen(p, j).updated_at}

Init ==
    /\ cache = [k \in Key |-> Empty]
    /\ conversations = [k \in Key |-> NoRow]
    /\ now = 0
    /\ pc = [p \in Replica |-> "idle"]
    /\ key \in [Replica -> {CHOOSE k \in Key : TRUE}]
    /\ started = [p \in Replica |-> 0]
    /\ old_value = [p \in Replica |-> <<>>]
    /\ victim = [p \in Replica |-> {}]
    /\ draft = [p \in Replica |-> Untouched]
    /\ draft_meta = [p \in Replica |-> Untouched]
    /\ log = [k \in Key |-> <<>>]
    /\ contended = {}
    /\ overlap = [p \in Replica |-> FALSE]
    /\ overlapped = 0

-----------------------------------------------------------------------------
(* Locks *)

\* Mutant: the advisory lock is gone as soon as its statement has run, which
\* is what autocommit would do.
advisory_holders_Autocommit(k) == {}

\* Transactions that hold pg_advisory_xact_lock of k.
advisory_holders(k) ==
    {p \in Replica : key[p] = k /\ pc[p] \in
        {"select", "write", "upsert", "count", "oldest", "evict", "commit"}}

RowHolders(k) == {p \in Replica : draft[p][k] # Clean}
MetaHolders(k) == {p \in Replica : draft_meta[p][k] # Clean}

\* Other transactions that the next statement of p waits for.
Blockers(p) ==
    CASE pc[p] = "lock"                    -> advisory_holders(key[p])
      [] pc[p] \in {"write", "delete_row"} -> RowHolders(key[p]) \ {p}
      [] pc[p] \in {"upsert", "delete_meta"} -> MetaHolders(key[p]) \ {p}
      [] pc[p] = "evict"                   -> UNION {RowHolders(k) : k \in victim[p]} \ {p}
      [] OTHER                             -> {}

\* p waits in a circle.
Deadlocked(p) ==
    \E S \in SUBSET Replica : p \in S /\ UNION {Blockers(q) : q \in S} = S

\* Conversations that q is cleaning up or deleting, and those it is appending to.
Destroys(q) ==
    victim[q] \cup (IF pc[q] \in {"delete_meta", "delete_commit"} THEN {key[q]} ELSE {})
Appends(q) ==
    IF pc[q] \in {"write", "upsert", "count", "oldest", "evict", "commit"} THEN {key[q]} ELSE {}

\* p turns to the conversations K, which others may be in the middle of.
Contend(p, K, Others(_)) ==
    contended' = contended \cup
                 {k \in K : \E q \in Replica \ {p} : k \in Others(q)}
Works(q) == Destroys(q) \cup Appends(q)

At(p, label) == pc[p] = label /\ Blockers(p) = {}
Goto(p, label) == pc' = [pc EXCEPT ![p] = label]

WriteRow(p, k, v) ==
    draft' = [draft EXCEPT ![p][k] = [value |-> v, updated_at |-> started[p]]]

\* The transaction of p is over: its locks and its local state are gone.
Over(p) ==
    /\ Goto(p, "idle")
    /\ old_value' = [old_value EXCEPT ![p] = <<>>]
    /\ victim' = [victim EXCEPT ![p] = {}]
    /\ draft' = [draft EXCEPT ![p] = Untouched]
    /\ draft_meta' = [draft_meta EXCEPT ![p] = Untouched]
    /\ overlap' = [overlap EXCEPT ![p] = FALSE]
    /\ UNCHANGED <<now, key, started>>

\* rollback(): the operation ends with a CacheError.
rollback(p) == Over(p) /\ UNCHANGED <<tables, log, contended, overlapped>>

-----------------------------------------------------------------------------
(* insert_or_append *)

Start(p, k, label) ==
    LET busy == {q \in Replica : pc[q] # "idle"} IN
    /\ pc[p] = "idle"
    /\ now < MaxOps
    /\ now' = now + 1
    /\ Goto(p, label)
    /\ key' = [key EXCEPT ![p] = k]
    /\ started' = [started EXCEPT ![p] = now']
    /\ overlap' = [q \in Replica |->
                     overlap[q] \/ (busy # {} /\ q \in busy \cup {p})]
    /\ UNCHANGED <<tables, old_value, victim, drafts, log, contended, overlapped>>

insert_or_append(p, k) == Start(p, k, "lock")

advisory_lock(p) ==
    /\ At(p, "lock")
    /\ Goto(p, "select")
    /\ UNCHANGED <<tables, now, locals, drafts, ghosts>>

_select(p) ==
    /\ At(p, "select")
    /\ old_value' = [old_value EXCEPT ![p] = Seen(p, key[p]).value]
    /\ Contend(p, {key[p]}, Destroys)
    /\ Goto(p, "write")
    /\ UNCHANGED <<tables, now, key, started, victim, drafts, log, overlap, overlapped>>

\* An UPDATE whose row has gone meanwhile changes nothing.
_update(p) ==
    /\ At(p, "write")
    /\ old_value[p] # <<>>
    /\ IF key[p] \in Present(p)
         THEN WriteRow(p, key[p], Append(old_value[p], started[p]))
         ELSE UNCHANGED draft
    /\ Goto(p, "upsert")
    /\ UNCHANGED <<tables, now, locals, draft_meta, ghosts>>

_insert(p) ==
    /\ At(p, "write")
    /\ old_value[p] = <<>>
    /\ key[p] \notin Present(p)
    /\ WriteRow(p, key[p], <<started[p]>>)
    /\ Goto(p, "upsert")
    /\ UNCHANGED <<tables, now, locals, draft_meta, ghosts>>

\* UPSERT_CONVERSATION_STATEMENT
upsert_conversation(p) ==
    LET n == SeenMeta(p, key[p]) IN
    /\ At(p, "upsert")
    /\ draft_meta' = [draft_meta EXCEPT ![p][key[p]] = IF n = NoRow THEN 1 ELSE n + 1]
    /\ Goto(p, "count")
    /\ UNCHANGED <<tables, now, locals, draft, ghosts>>

\* Mutant: one entry too many is let in.
cleanup_count_OffByOne(p) ==
    /\ At(p, "count")
    /\ Goto(p, IF total_entries(p) > capacity + 1 THEN "oldest" ELSE "commit")
    /\ UNCHANGED <<tables, now, locals, drafts, ghosts>>

\* _cleanup, its first statement: is there anything to give up?
cleanup_count(p) ==
    /\ At(p, "count")
    /\ Goto(p, IF total_entries(p) > capacity THEN "oldest" ELSE "commit")
    /\ UNCHANGED <<tables, now, locals, drafts, ghosts>>

\* _cleanup, its second statement.  With no row left there is no victim.
cleanup_oldest(p) ==
    /\ At(p, "oldest")
    /\ \/ /\ Oldest(p) = {}
          /\ UNCHANGED <<old_value, victim, contended>>
       \/ \E k \in Oldest(p) :
             /\ victim' = [victim EXCEPT ![p] = {k}]
             /\ old_value' = [old_value EXCEPT ![p] = Seen(p, k).value]
             /\ Contend(p, {k}, Works)
    /\ Goto(p, "evict")
    /\ UNCHANGED <<tables, now, key, started, drafts, log, overlap, overlapped>>

\* _cleanup, its last statement: the row without its first entry is written
\* back, or deleted if that was its only one.  The metadata stays.
cleanup_evict(p) ==
    /\ At(p, "evict")
    /\ \A k \in victim[p] :
          k \in Present(p) => WriteRow(p, k, Tail(old_value[p]))
    /\ victim[p] \cap Present(p) = {} => UNCHANGED draft
    /\ Goto(p, "commit")
    /\ UNCHANGED <<tables, now, locals, draft_meta, ghosts>>

\* What COMMIT publishes.
Published(p) ==
    /\ cache' = [k \in Key |-> Seen(p, k)]
    /\ conversations' = [k \in Key |-> SeenMeta(p, k)]

\* The caller may not hear of it: whether the answer arrives makes no difference
\* to the tables.
commit(p) ==
    /\ At(p, "commit")
    /\ Published(p)
    /\ log' = [log EXCEPT ![key[p]] = Append(@, started[p])]
    /\ overlapped' = overlapped + (IF overlap[p] THEN 1 ELSE 0)
    /\ Over(p)
    /\ UNCHANGED contended

-----------------------------------------------------------------------------
(* The other operations *)

\* get and list only read and are left out.
delete(p, k) == Start(p, k, "delete_row")

delete_row(p) ==
    /\ At(p, "delete_row")
    /\ IF key[p] \in Present(p) THEN WriteRow(p, key[p], <<>>) ELSE UNCHANGED draft
    /\ Contend(p, {key[p]}, Works)
    /\ Goto(p, "delete_meta")
    /\ UNCHANGED <<tables, now, locals, draft_meta, log, overlap, overlapped>>

\* Mutant: the metadata row stays.
delete_metadata_Kept(p) ==
    /\ At(p, "delete_meta")
    /\ Goto(p, "delete_commit")
    /\ UNCHANGED <<tables, now, locals, drafts, ghosts>>

delete_metadata(p) ==
    /\ At(p, "delete_meta")
    /\ IF SeenMeta(p, key[p]) # NoRow
         THEN draft_meta' = [draft_meta EXCEPT ![p][key[p]] = NoRow]
         ELSE UNCHANGED draft_meta
    /\ Goto(p, "delete_commit")
    /\ UNCHANGED <<tables, now, locals, draft, ghosts>>

delete_commit(p) ==
    /\ At(p, "delete_commit")
    /\ Published(p)
    /\ log' = [log EXCEPT ![key[p]] = <<>>]
    /\ Over(p)
    /\ UNCHANGED <<contended, overlapped>>

\* One autocommitted statement; it creates the metadata row if there is none.
set_topic_summary(p, k) ==
    /\ pc[p] = "idle"
    /\ now < MaxOps
    /\ now' = now + 1
    /\ MetaHolders(k) = {}
    /\ conversations' = [conversations EXCEPT ![k] = IF @ = NoRow THEN 0 ELSE @]
    /\ UNCHANGED <<cache, pc, locals, drafts, ghosts>>

-----------------------------------------------------------------------------
(* Failures *)

\* The database breaks the circle by failing one of its statements.
deadlock_detected(p) == Deadlocked(p) /\ rollback(p)

\* The session ends; the server rolls its transaction back.
connection_lost(p) == pc[p] # "idle" /\ rollback(p)

\* Mutant: `finally' does not look whether a transaction is still open, so the
\* rows that it wrote stay locked.
decode_error_LeavesOpen(p) ==
    /\ \/ pc[p] = "write" /\ old_value[p] # <<>>
       \/ pc[p] = "evict" /\ victim[p] # {}
    /\ Goto(p, "idle")
    /\ old_value' = [old_value EXCEPT ![p] = <<>>]
    /\ victim' = [victim EXCEPT ![p] = {}]
    /\ overlap' = [overlap EXCEPT ![p] = FALSE]
    /\ UNCHANGED <<tables, now, key, started, drafts, log, contended, overlapped>>

\* A history that was read cannot be decoded.  No except clause catches that;
\* `finally' finds the transaction open and rolls it back.
decode_error(p) ==
    /\ \/ pc[p] = "write" /\ old_value[p] # <<>>
       \/ pc[p] = "evict" /\ victim[p] # {}
    /\ rollback(p)

Step(p) ==
    \/ advisory_lock(p) \/ _select(p) \/ _update(p) \/ _insert(p)
    \/ upsert_conversation(p) \/ cleanup_count(p) \/ cleanup_oldest(p)
    \/ cleanup_evict(p) \/ commit(p)
    \/ delete_row(p) \/ delete_metadata(p) \/ delete_commit(p)

Next ==
    \E p \in Replica :
        \/ Step(p)
        \/ deadlock_detected(p)
        \/ connection_lost(p)
        \/ decode_error(p)
        \/ \E k \in Key :
              insert_or_append(p, k) \/ delete(p, k) \/ set_topic_summary(p, k)

Spec == Init /\ [][Next]_vars

-----------------------------------------------------------------------------
(* Properties *)

\* The advisory lock of insert_or_append is enough for appends: a stored
\* history is the newest part of what was committed to the conversation, in
\* commit order, as long as no clean-up or deletion of another replica touched
\* the conversation in the middle of an operation on it.  (Those take no
\* advisory lock, and then even acknowledged messages can be lost.)
AppendsSurvive ==
    \A k \in Key \ contended : IsSuffix(cache[k].value, log[k])

\* One eviction per insert keeps the table within its capacity, except for
\* inserts that overlapped another operation: each of those can add one entry
\* for good, because two clean-ups may give up the same entry.
OvershootBounded ==
    Cardinality(Places(cache)) <= capacity + overlapped

\* The two tables go together, although a deletion runs in two statements and
\* _cleanup touches only one table: message_count of a readable conversation
\* is the number of messages committed since the last deletion, and a deleted
\* one starts anew, unless a deletion or clean-up met another operation on the
\* conversation.  (The metadata of a conversation whose last message was
\* evicted stays, contrary to conversation-history.md, rule 8.)
CountMatchesHistory ==
    \A k \in Key \ contended :
        cache[k].value # <<>> \/ log[k] = <<>> =>
            Max({conversations[k], 0}) = Len(log[k])

\* A wait ends when the operations waited for do.  Locks belong to operations under way only: one that
\* fails, be it by an exception that no except clause of insert_or_append
\* catches, leaves no transaction open.  And every circle of waiting
\* transactions has one in it that is about to evict: append and deletion lock
\* row and metadata in the same order, and _cleanup alone, which goes on to
\* another conversation with its own locked, can close a circle, which the
\* database then has to break.
WaitsEnd ==
    /\ \A k \in Key : \A p \in RowHolders(k) \cup MetaHolders(k) : pc[p] # "idle"
    /\ \A S \in SUBSET Replica :
          S # {} /\ UNION {Blockers(p) : p \in S} = S => \E p \in S : pc[p] = "evict"
=============================================================================
