------------------------ MODULE HistoryCompression ------------------------
(***************************************************************************)
(* ols/src/query_helpers/history_support.py: what the requests of one      *)
(* conversation do to its stored history.  A request reads the history,    *)
(* replaces it by a summary and the newest entries if it is too long for   *)
(* the prompt, asks the model, and appends its own turn.  Each call of the *)
(* conversation cache is atomic; the awaits and the gaps between two calls *)
(* let other requests, the delete endpoint and other replicas in.          *)
(*                                                                         *)
(* An entry is the set of turns it tells about: one for a stored exchange, *)
(* several for a summary.  Capacity is large enough for the conversation.  *)
(***************************************************************************)
EXTENDS Integers, Sequences, FiniteSets, FiniteSetsExt, SequencesExt

CONSTANTS
    Request,            \* request slots of the conversation
    entries_to_keep,    \* newest entries that a compression leaves alone
    max_attempts,       \* attempts to get a summary
    MaxTokens,          \* bound: tokens of an entry
    MaxBudget,          \* bound: tokens the prompt leaves for the history
    MaxTurns            \* bound: turns of the conversation

\* With 0 the slice [-entries_to_keep:] would keep everything; the code has 5.
ASSUME KeepAssumption == entries_to_keep \in Nat \ {0}
ASSUME AttemptsAssumption == max_attempts \in Nat \ {0}

VARIABLES
    cached,     \* the stored history, oldest first
    place,      \* Request -> where it is
    full,       \* Request -> full_cache_entries, the history it read
    keep,       \* Request -> keep_entries
    attempt,    \* Request -> attempt of summarize_entries
    todo,       \* Request -> entries that _rewrite_cache has still to insert
    turns,      \* history: how many turns were stored
    deleted,    \* history: turns that the user deleted
    torn        \* history: whether a rewrite failed half-way

local == <<place, full, keep, attempt, todo>>
historyVars == <<cached, place, full, keep, attempt, todo, turns, deleted, torn>>

\* The turns that a history tells about.
Covered(h) == UNION {h[i].turns : i \in 1..Len(h)}

-----------------------------------------------------------------------------
(* Deciding what to keep *)

\* Tokens of the k newest entries.
Newest(h, k) == MapThenSumSet(LAMBDA i : h[i].tokens, (Len(h) - k + 1)..Len(h))

\* _split_entries_by_token_budget: how many entries, from the newest on, fit.
Fitting(h, budget) ==
    Max({k \in 0..Len(h) : \A j \in 1..k : Newest(h, j) <= budget})

LastN(h, k) == SubSeq(h, Len(h) - k + 1, Len(h))

\* Of few fitting entries the oldest goes into the summary too; of many, only
\* entries_to_keep stay as they are.
keep_entries(h, budget) ==
    LET k == Fitting(h, budget) IN
    LastN(h, IF k > entries_to_keep THEN entries_to_keep ELSE Max({k - 1, 0}))

entries_to_summarize(h, kept) == SubSeq(h, 1, Len(h) - Len(kept))

\* Mutant: the summary is appended to the entries kept.
compressed_entries_SummaryLast(h, kept, n) ==
    kept \o <<[turns |-> Covered(entries_to_summarize(h, kept)), tokens |-> n]>>

\* What replaces the history: a summary, of n tokens, and the entries kept.
compressed_entries(h, kept, n) ==
    <<[turns |-> Covered(entries_to_summarize(h, kept)), tokens |-> n]>> \o kept

HistoryInit ==
    /\ cached = <<>>
    /\ place = [r \in Request |-> "idle"]
    /\ full = [r \in Request |-> <<>>]
    /\ keep = [r \in Request |-> <<>>]
    /\ attempt = [r \in Request |-> 0]
    /\ todo = [r \in Request |-> <<>>]
    /\ turns = 0
    /\ deleted = {}
    /\ torn = FALSE

Goto(r, label) == place' = [place EXCEPT ![r] = label]

\* The request forgets its locals.
End(r) ==
    /\ Goto(r, "idle")
    /\ full' = [full EXCEPT ![r] = <<>>]
    /\ keep' = [keep EXCEPT ![r] = <<>>]
    /\ attempt' = [attempt EXCEPT ![r] = 0]
    /\ todo' = [todo EXCEPT ![r] = <<>>]

-----------------------------------------------------------------------------
(* prepare_history *)

\* Read the history; compress it only if it is too long for the budget.
prepare_history(r, budget) ==
    /\ place[r] = "idle"
    /\ IF Fitting(cached, budget) = Len(cached)
         THEN /\ Goto(r, "answer")
              /\ UNCHANGED <<full, keep, attempt>>
         ELSE /\ Goto(r, "summarize")
              /\ full' = [full EXCEPT ![r] = cached]
              /\ keep' = [keep EXCEPT ![r] = keep_entries(cached, budget)]
              /\ attempt' = [attempt EXCEPT ![r] = 1]
    /\ UNCHANGED <<cached, todo, turns, deleted, torn>>

\* The model returned a summary; what is stored next is known from here on.
summarize_entries(r, n) ==
    /\ place[r] = "summarize"
    /\ todo' = [todo EXCEPT ![r] = compressed_entries(full[r], keep[r], n)]
    /\ Goto(r, "rewrite_delete")
    /\ UNCHANGED <<cached, full, keep, attempt, turns, deleted, torn>>

\* Mutant: the count of the attempts starts again.
summarize_fails_Recounts(r, transient) ==
    /\ place[r] = "summarize"
    /\ IF transient
         THEN attempt' = [attempt EXCEPT ![r] = (@ % max_attempts) + 1] /\ UNCHANGED place
         ELSE Goto(r, "answer") /\ UNCHANGED attempt
    /\ UNCHANGED <<cached, full, keep, todo, turns, deleted, torn>>

\* A transient failure is retried; after the last one, or an empty summary, the
\* stored history stays as it is and the prompt takes what fits.
summarize_fails(r, transient) ==
    /\ place[r] = "summarize"
    /\ IF transient /\ attempt[r] < max_attempts
         THEN attempt' = [attempt EXCEPT ![r] = @ + 1] /\ UNCHANGED place
         ELSE Goto(r, "answer") /\ UNCHANGED attempt
    /\ UNCHANGED <<cached, full, keep, todo, turns, deleted, torn>>

-----------------------------------------------------------------------------
(* _rewrite_cache: delete, then one insert_or_append per entry *)

rewrite_delete(r) ==
    /\ place[r] = "rewrite_delete"
    /\ cached' = <<>>
    /\ Goto(r, "rewrite_insert")
    /\ UNCHANGED <<full, keep, attempt, todo, turns, deleted, torn>>

\* Mutant: the entries go in newest first.
rewrite_insert_Reversed(r) ==
    /\ place[r] = "rewrite_insert"
    /\ cached' = Append(cached, Last(todo[r]))
    /\ todo' = [todo EXCEPT ![r] = Front(@)]
    /\ Goto(r, IF Len(todo[r]) = 1 THEN "answer" ELSE "rewrite_insert")
    /\ UNCHANGED <<full, keep, attempt, turns, deleted, torn>>

\* Mutant: the last entry is forgotten.
rewrite_insert_StopsShort(r) ==
    /\ place[r] = "rewrite_insert"
    /\ cached' = Append(cached, Head(todo[r]))
    /\ todo' = [todo EXCEPT ![r] = Tail(@)]
    /\ Goto(r, IF Len(todo[r]) <= 2 THEN "answer" ELSE "rewrite_insert")
    /\ UNCHANGED <<full, keep, attempt, turns, deleted, torn>>

\* The next entry of the replacement history.
rewrite_insert(r) ==
    /\ place[r] = "rewrite_insert"
    /\ cached' = Append(cached, Head(todo[r]))
    /\ todo' = [todo EXCEPT ![r] = Tail(@)]
    /\ Goto(r, IF Len(todo[r]) = 1 THEN "answer" ELSE "rewrite_insert")
    /\ UNCHANGED <<full, keep, attempt, turns, deleted, torn>>

\* An exception of the cache is logged; the request goes on.
rewrite_fails(r) ==
    /\ place[r] \in {"rewrite_delete", "rewrite_insert"}
    /\ torn' = (torn \/ place[r] = "rewrite_insert")
    /\ todo' = [todo EXCEPT ![r] = <<>>]
    /\ Goto(r, "answer")
    /\ UNCHANGED <<cached, full, keep, attempt, turns, deleted>>

-----------------------------------------------------------------------------
(* The rest of the request, and the delete endpoint *)

\* store_conversation_history: the turn that was just answered.
store_conversation_history(r, n) ==
    /\ place[r] = "answer"
    /\ turns < MaxTurns
    /\ turns' = turns + 1
    /\ cached' = Append(cached, [turns |-> {turns + 1}, tokens |-> n])
    /\ End(r)
    /\ UNCHANGED <<deleted, torn>>

\* The model fails, or the client goes away while the request awaits something.
abandon(r) ==
    /\ place[r] \in {"summarize", "answer"}
    /\ End(r)
    /\ UNCHANGED <<cached, turns, deleted, torn>>

delete_conversation ==
    /\ cached # <<>>
    /\ cached' = <<>>
    /\ deleted' = deleted \cup Covered(cached)
    /\ UNCHANGED <<local, turns, torn>>

-----------------------------------------------------------------------------

HistoryStep(r) ==
    \/ \E n \in 1..MaxTokens : summarize_entries(r, n)
    \/ \E transient \in BOOLEAN : summarize_fails(r, transient)
    \/ rewrite_delete(r)
    \/ rewrite_insert(r)
    \/ rewrite_fails(r)
    \/ \E n \in 1..MaxTokens : store_conversation_history(r, n)
    \/ abandon(r)

HistoryNext ==
    \/ \E r \in Request, budget \in 1..MaxBudget : prepare_history(r, budget)
    \/ \E r \in Request : HistoryStep(r)
    \/ delete_conversation

\* A request that was begun goes on: attempts have a timeout, and the cache and
\* the model return or raise.
HistoryFairness == \A r \in Request : WF_historyVars(HistoryStep(r))

HistorySpec == HistoryInit /\ [][HistoryNext]_historyVars /\ HistoryFairness

-----------------------------------------------------------------------------
(* Properties *)

Rewriting == \E r \in Request : place[r] = "rewrite_insert"

\* A compression tells about every turn of the history that it read, in order
\* and each once, and does not make it longer: shorter as soon as it can be.
CompressionFaithful ==
    \A r \in Request : place[r] = "rewrite_delete" =>
        /\ Covered(todo[r]) = Covered(full[r])
        /\ \A i, j \in 1..Len(todo[r]) : i < j =>
              \A s \in todo[r][i].turns, t \in todo[r][j].turns : s < t
        /\ Len(todo[r]) <= Len(full[r])
        /\ Len(full[r]) > 1 => Len(todo[r]) < Len(full[r])

\* Every turn that was stored is in the history, verbatim or summarized, unless
\* the user deleted it or a rewrite failed half-way; so it is after any number
\* of compressions, failed summaries and abandoned requests.
NothingLost ==
    ~Rewriting /\ ~torn => 1..turns \subseteq Covered(cached) \cup deleted

\* The history is told in the order in which it happened, also while a rewrite
\* or a deletion is under way.
InOrder ==
    \A i, j \in 1..Len(cached) : i < j =>
        \A s \in cached[i].turns, t \in cached[j].turns : s < t

\* No request goes on for ever, however often the summary fails.
RequestEnds == \A r \in Request : place[r] # "idle" ~> place[r] = "idle"

=============================================================================
