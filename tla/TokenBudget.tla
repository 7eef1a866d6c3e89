----------------------------- MODULE TokenBudget -----------------------------
(***************************************************************************)
(* ols/utils/token_handler.py and the token arithmetic of                  *)
(* ols/src/tools/tools.py.  A text is the number of its tokens; four       *)
(* characters are taken as one token, as the code's estimate does.         *)
(***************************************************************************)
EXTENDS Integers, Sequences, FiniteSets, FiniteSetsExt, SequencesExt

CONSTANTS
    context_window_size,
    max_response_tokens,        \* tokens kept for the answer
    max_tool_tokens,            \* tokens kept for tool calls and results
    round_cap_percent,          \* round_cap_fraction, in percent
    MINIMUM_CONTEXT_TOKEN_LIMIT,
    WarningTokens               \* length of _TRUNCATION_WARNING

ASSUME TokensAssumption ==
    /\ {context_window_size, max_response_tokens, max_tool_tokens,
        MINIMUM_CONTEXT_TOKEN_LIMIT, WarningTokens} \subseteq Nat
    /\ max_response_tokens + max_tool_tokens < context_window_size
    /\ round_cap_percent \in 30..80

Category == {"PROMPT", "RAG", "SKILL", "HISTORY", "TOOL_DEFINITIONS", "AI_ROUND", "TOOL_RESULT"}

\* The sum of a sequence, from the last element on.
SumSeq(s) ==
    LET sum[k \in 0..Len(s)] == IF k = 0 THEN 0 ELSE sum[k - 1] + s[Len(s) - k + 1]
    IN  sum[Len(s)]

\* _get_token_count: n tokens and a tenth more, rounded up.
count_tokens(n) == (11 * n + 9) \div 10

\* The tokens of several texts.
counted(texts) == SumSeq([i \in DOMAIN texts |-> count_tokens(texts[i])])

-----------------------------------------------------------------------------
(* TokenBudgetTracker, over its usage *)

prompt_budget == context_window_size - max_response_tokens - max_tool_tokens
total_used(u) ==
    u["PROMPT"] + u["RAG"] + u["SKILL"] + u["HISTORY"] + u["TOOL_DEFINITIONS"]
        + u["AI_ROUND"] + u["TOOL_RESULT"]
history_budget(u) == prompt_budget - u["PROMPT"] - u["RAG"] - u["SKILL"]
prompt_budget_remaining(u) == prompt_budget - total_used(u)
tool_budget_used(u) == u["AI_ROUND"] + u["TOOL_RESULT"]
tool_budget_remaining(u) == Max({0, max_tool_tokens - tool_budget_used(u)})
tools_round_budget(u) == (tool_budget_remaining(u) * round_cap_percent) \div 100

-----------------------------------------------------------------------------
(* Fitting texts into what is left *)

\* truncate_rag_context: the nodes are taken in order, each with at most what
\* is left, until one scores too low or would be too short; a node is
\* <<whether it scores high enough, its tokens>>.
truncate_rag_context(nodes, max_tokens) ==
    LET left[i \in 0..Len(nodes)] ==
            IF i = 0 THEN max_tokens
            ELSE left[i - 1] - Min({count_tokens(nodes[i][2]) + 1, left[i - 1]})
        available(i) == left[i - 1] - left[i]
        n == Max({k \in 0..Len(nodes) : \A i \in 1..k :
                    nodes[i][1] /\ available(i) >= MINIMUM_CONTEXT_TOKEN_LIMIT})
    IN  [i \in 1..n |-> Min({nodes[i][2], available(i)})]

\* limit_conversation_history: the newest messages that fit, whole.
limit_conversation_history(history, limit) ==
    LET cost[k \in 0..Len(history)] ==
            IF k = 0 THEN 0
            ELSE cost[k - 1] + (count_tokens(history[Len(history) - k + 1]) + 1)
        n == Max({k \in 0..Len(history) : \A j \in 1..k : cost[j] <= limit})
    IN  SubSeq(history, Len(history) - n + 1, Len(history))

\* _extract_text_from_tool_output, of one text: cut to the budget, with a notice.
_extract_text_from_tool_output(n, tools_token_budget) ==
    IF n <= tools_token_budget THEN n ELSE Max({tools_token_budget, 0}) + WarningTokens

\* The limits of enforce_tool_token_budget: the longest message alone gives up
\* the excess if that leaves it half its length, otherwise all are scaled.
Limits(counts, budget) ==
    LET excess == SumSeq(counts) - budget
        longest == CHOOSE i \in DOMAIN counts :
                       /\ \A j \in DOMAIN counts : counts[j] <= counts[i]
                       /\ \A j \in 1..(i - 1) : counts[j] < counts[i]
    IN  IF counts[longest] \div 2 >= excess
          THEN [counts EXCEPT ![longest] = @ - excess]
          ELSE [i \in DOMAIN counts |-> Max({1, (counts[i] * budget) \div SumSeq(counts)})]

\* What is left of messages of these lengths.  The slice is one of plain
\* tokens, while its limit is one of counted ones.
enforce_tool_token_budget(tokens, budget) ==
    LET counts == [i \in DOMAIN tokens |-> count_tokens(tokens[i])]
        limits == Limits(counts, budget)
        short(i) == Min({tokens[i], Max({0, limits[i] - count_tokens(WarningTokens)})})
    IN  IF \/ tokens = <<>>
           \/ SumSeq(tokens) <= (9 * budget) \div 10
           \/ SumSeq(counts) <= budget
          THEN tokens
          ELSE [i \in DOMAIN tokens |->
                  IF counts[i] <= limits[i] THEN tokens[i] ELSE short(i) + WarningTokens]
=============================================================================
