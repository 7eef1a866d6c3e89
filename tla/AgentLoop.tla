------------------------------ MODULE AgentLoop ------------------------------
(***************************************************************************)
(* One request in ols/src/query_helpers/docs_summarizer.py and             *)
(* llm_execution_agent.py: the prompt is put together within the token     *)
(* budget, the model is asked, the tools it calls are run and the model is *)
(* asked again, round after round.  Large tool output goes to files        *)
(* (ols/src/tools/offloaded_content.py) that the request must not leave    *)
(* behind.                                                                 *)
(*                                                                         *)
(* How the calls of one round run concurrently and are approved is in      *)
(* ToolExecution; here a round has its results all at once.                *)
(***************************************************************************)
EXTENDS TokenBudget

CONSTANTS
    ToolName,                   \* names of MCP tools
    RetrievalTool,              \* _RETRIEVAL_TOOL_NAMES; an MCP tool may have such a name too
    max_iterations,             \* configured limit of rounds, 0 if not set
    mode_default,               \* MAX_ITERATIONS_BY_MODE
    MIN_TOOL_EXECUTION_TOKENS,
    NoticeTokens,               \* length of a notice or a placeholder
    Lengths,                    \* bound: lengths of prompts, documents and messages
    OutputLengths,              \* bound: lengths of tool outputs
    MaxItems                    \* bound: documents, history messages, calls of a round

ASSUME RoundsAssumption == max_iterations \in Nat /\ mode_default \in Nat \ {0}
ASSUME ItemsAssumption == MaxItems \in Nat
ASSUME LengthsAssumption == Lengths \subseteq Nat

VARIABLES
    pc,         \* where the request is
    usage,      \* tracker._usage
    overcharged,\* history: the documents, truncated to fit, were charged more than fits
    offers,     \* how many of the MCP tools resolved for the request have a name
    round,      \* i of _iterate_with_tools
    calls,      \* tool_calls of the round
    answered,   \* tool_call_ids of the messages that followed the calls
    executed,   \* history: rounds in which a tool ran
    invoked,    \* history: how often the model was asked
    files,      \* offloaded outputs on disk
    allowlist,  \* offload_manager._allowlist
    registered, \* offload_manager.retrieval_tools_registered
    warned,     \* history: a directory of offloaded files could not be removed
    outcome     \* how the request ended

offload == <<files, allowlist, registered, warned>>
loop == <<calls, answered, executed, invoked>>
vars == <<pc, usage, overcharged, offers, round, loop, offload, outcome>>

\* _get_max_iterations: the configuration can raise the limit, never lower it.
max_rounds == Max({max_iterations, mode_default})

Charged(c, n) == usage' = [usage EXCEPT ![c] = @ + n]

Names == ToolName \cup RetrievalTool

\* _dedupe_tools_by_name, once at the start of the loop
duplicate_tool_names == {t \in Names : offers[t] > 1}

\* What build_retrieval_tools has added to the tools of the request; it takes
\* the place of an MCP tool of the same name.
retrieval_tools == IF registered THEN RetrievalTool ELSE {}

\* The names that all_tools_dict resolves.
callable == ({t \in Names : offers[t] > 0} \cup retrieval_tools) \ duplicate_tool_names
any_tool == retrieval_tools # {} \/ \E t \in Names : offers[t] > 0

Init ==
    /\ pc = "prompt"
    /\ usage = [c \in Category |-> 0]
    /\ overcharged = FALSE
    /\ offers = [t \in Names |-> 0]
    /\ round = 0
    /\ calls = <<>>
    /\ answered = <<>>
    /\ executed = {}
    /\ invoked = 0
    /\ files = {}
    /\ allowlist = {}
    /\ registered = FALSE
    /\ warned = FALSE
    /\ outcome = "none"

\* Mutant: the files that the allowlist names are removed, one by one.
cleanup_AllowedOnly ==
    /\ files' = files \ allowlist
    /\ allowlist' = {}
    /\ UNCHANGED <<registered, warned>>

\* offload_manager.cleanup: the directory of the request goes with all that is
\* in it.  If rmtree fails, on the way, that is logged and nothing else.
cleanup ==
    /\ \/ files' = {} /\ UNCHANGED warned
       \/ files # {} /\ files' \in SUBSET files /\ warned' = TRUE
    /\ allowlist' = {}
    /\ UNCHANGED registered

Ends(o) == pc' = "over" /\ outcome' = o

-----------------------------------------------------------------------------
(* generate_response: putting the prompt together *)

prepare_prompt ==
    /\ pc = "prompt"
    /\ \E n \in Lengths :
          IF count_tokens(n) > prompt_budget
            THEN Ends("prompt too long") /\ UNCHANGED usage
            ELSE /\ Charged("PROMPT", count_tokens(n))
                 /\ pc' = "rag"
                 /\ UNCHANGED outcome
    /\ UNCHANGED <<overcharged, offers, round, loop, offload>>

prepare_rag ==
    /\ pc = "rag"
    /\ \E nodes \in BoundedSeq(BOOLEAN \X Lengths, MaxItems) :
          LET chunks == truncate_rag_context(nodes, history_budget(usage))
          IN  /\ Charged("RAG", counted(chunks))
              /\ overcharged' = (counted(chunks) > history_budget(usage))
    /\ pc' = "skill"
    /\ UNCHANGED <<offers, round, loop, offload, outcome>>

\* Mutant: whatever its length, a skill goes into the prompt.
select_skill_Always ==
    /\ pc = "skill"
    /\ \E n \in Lengths \cup {0} : Charged("SKILL", count_tokens(n))
    /\ pc' = "history"
    /\ UNCHANGED <<overcharged, offers, round, loop, offload, outcome>>

\* A skill that would take more than four fifths of the rest is skipped.
select_skill ==
    /\ pc = "skill"
    /\ \E n \in Lengths \cup {0} :
          IF 5 * count_tokens(n) > 4 * prompt_budget_remaining(usage)
            THEN UNCHANGED usage
            ELSE Charged("SKILL", count_tokens(n))
    /\ pc' = "history"
    /\ UNCHANGED <<overcharged, offers, round, loop, offload, outcome>>

\* The last check before the tools are known.
_build_final_prompt ==
    IF total_used(usage') > prompt_budget
      THEN Ends("too long")
      ELSE pc' = "tools" /\ UNCHANGED outcome

take_history ==
    /\ pc = "history"
    /\ \E history \in BoundedSeq(Lengths, MaxItems) :
          Charged("HISTORY", counted(limit_conversation_history(history, history_budget(usage))))
    /\ _build_final_prompt
    /\ UNCHANGED <<overcharged, offers, round, loop, offload>>

\* Nothing is charged if there are no tools.
_charge_tool_definitions_tokens(n) ==
    Charged("TOOL_DEFINITIONS", IF any_tool' THEN n ELSE 0)

\* The tools of the request, their definitions' share of the prompt budget, and
\* the start of the loop.
resolve_tools ==
    /\ pc = "tools"
    /\ offers' \in [Names -> 0..2]
    /\ UNCHANGED <<overcharged, loop, offload>>
    /\ \E n \in Lengths :
          LET defs == IF any_tool' THEN count_tokens(n) ELSE 0 IN
          IF total_used(usage) + defs > prompt_budget
            THEN Ends("tools too long") /\ UNCHANGED <<usage, round>>
            ELSE /\ _charge_tool_definitions_tokens(defs)
                 /\ pc' = "llm"
                 /\ round' = 1
                 /\ UNCHANGED outcome

-----------------------------------------------------------------------------
(* _iterate_with_tools *)

\* Mutant: one round more.
is_final_round_Late == ~any_tool \/ round = max_rounds + 1

is_final_round == ~any_tool \/ round = max_rounds

Asked == pc = "llm" /\ invoked' = invoked + 1

\* The stream ends with text, a stop signal or the timeout of the round: END follows.
llm_answers ==
    /\ Asked
    /\ Ends("answered")
    /\ cleanup
    /\ UNCHANGED <<usage, overcharged, offers, round, calls, answered, executed>>

llm_raises ==
    /\ Asked
    /\ Ends("error")
    /\ cleanup
    /\ UNCHANGED <<usage, overcharged, offers, round, calls, answered, executed>>

\* The model asks for tools, by name; "other" is a call with no name, an unknown
\* one, or arguments that cannot be used.  In the final round that is ignored.
\* Chunks that add up to no call leave no message.
llm_calls_tools ==
    /\ Asked
    /\ \E cs \in BoundedSeq(Names \cup {"other"}, MaxItems) :
          \/ /\ is_final_round
             /\ Ends("answered")
             /\ cleanup
             /\ UNCHANGED <<usage, round, calls, answered>>
          \/ /\ ~is_final_round
             /\ cs = <<>>
             /\ pc' = "round end"
             /\ UNCHANGED <<usage, round, calls, answered, offload, outcome>>
          \/ /\ ~is_final_round
             /\ cs # <<>>
             /\ calls' = cs
             /\ answered' = <<>>
             /\ \E n \in Lengths : Charged("AI_ROUND", count_tokens(n))
             /\ pc' = "process"
             /\ UNCHANGED <<round, offload, outcome>>
    /\ UNCHANGED <<overcharged, offers, executed>>

-----------------------------------------------------------------------------
(* _process_tool_calls_for_round *)

\* _resolve_tool_call_definitions: the calls that can be executed.
tool_call_definitions == {i \in DOMAIN calls : calls[i] \in callable}

\* The calls with these positions, in the order of the message.
Listing(S) ==
    CHOOSE ids \in SetToSeqs(S) : \A i, j \in DOMAIN ids : i < j => ids[i] < ids[j]

Skipped == Listing(DOMAIN calls \ tool_call_definitions)

\* _tool_result_chunk_for_message: what a message costs.
content_token_count(n) == count_tokens(n)

\* Mutant: the skipped calls get no message.
Answer_ExecutedOnly(ids, tokens) ==
    /\ answered' = SelectSeq(ids, LAMBDA i : i \in tool_call_definitions)
    /\ Charged("TOOL_RESULT", SumSeq([i \in DOMAIN tokens |-> content_token_count(tokens[i])]))

\* Messages for these calls, of these lengths, are appended and charged.
Answer(ids, tokens) ==
    /\ answered' = ids
    /\ Charged("TOOL_RESULT", SumSeq([i \in DOMAIN tokens |-> content_token_count(tokens[i])]))

Notices(n) == [i \in 1..n |-> NoticeTokens]
Enforced(tokens, budget) ==
    IF budget > 0 THEN enforce_tool_token_budget(tokens, budget) ELSE tokens

\* Nothing to execute, or too little budget for it: notices only.
skip_tools ==
    LET remaining == tools_round_budget(usage)
        ids == Skipped \o Listing(tool_call_definitions)
    IN
    /\ pc = "process"
    /\ tool_call_definitions = {} \/ remaining < MIN_TOOL_EXECUTION_TOKENS
    /\ Answer(ids, Enforced(Notices(Len(ids)), remaining))
    /\ pc' = "round end"
    /\ UNCHANGED <<overcharged, offers, round, calls, executed, invoked, offload, outcome>>

\* What a call leaves in its message: a placeholder if its output went to a
\* file, otherwise as much as its share of the budget allows.
Content(i, n, share, saved) ==
    IF i \in saved THEN NoticeTokens ELSE _extract_text_from_tool_output(n, share)

\* try_offload
TooLarge(i, n, share) == calls[i] \notin RetrievalTool /\ n > share

\* The lines of an offloaded output, if it is one of this request.
_load_lines_or_error(ref) == ref \in allowlist \cap files

\* What a search of offloaded output may come to: lines of a file, or a message
\* that there is no such reference, no match, or no time.
_search_offloaded ==
    {NoticeTokens} \cup
    IF \E ref \in files : _load_lines_or_error(ref) THEN OutputLengths ELSE {}

\* execute_tool_calls_stream.  An output that cannot be written falls back to
\* truncation; if it is os.write that fails, the file is there already, and
\* stays, though nothing refers to it.
execute_tools ==
    LET remaining == tools_round_budget(usage)
        share == Max({1, remaining \div Cardinality(tool_call_definitions)})
        run == Listing(tool_call_definitions)
        ids == Skipped \o run
    IN
    /\ pc = "process"
    /\ tool_call_definitions # {}
    /\ remaining >= MIN_TOOL_EXECUTION_TOKENS
    /\ \E out \in [tool_call_definitions -> OutputLengths \cup {NoticeTokens}] :
       /\ \A i \in tool_call_definitions :
             calls[i] \in retrieval_tools => out[i] \in _search_offloaded
       /\ \E created \in SUBSET {i \in tool_call_definitions : TooLarge(i, out[i], share)} :
          \E saved \in SUBSET created :
             LET tokens == Enforced(Notices(Len(Skipped)) \o
                                    [j \in DOMAIN run |-> Content(run[j], out[run[j]], share, saved)],
                                    remaining)
             IN  /\ Answer(ids, tokens)
                 /\ files' = files \cup {<<round, i>> : i \in created}
                 /\ allowlist' = allowlist \cup {<<round, i>> : i \in saved}
    /\ executed' = executed \cup {round}
    /\ pc' = "round end"
    /\ UNCHANGED <<overcharged, offers, round, calls, invoked, registered, warned, outcome>>

\* An exception while tools run: an apology instead of an answer, and END.
tools_fail ==
    /\ pc = "process"
    /\ Ends("answered")
    /\ cleanup
    /\ UNCHANGED <<usage, overcharged, offers, round, loop>>

\* Mutant: the tools are registered when there is nothing to retrieve.
register_retrieval_tools_Inverted == registered' = (registered \/ allowlist = {})

\* The tools that read offloaded output join those of the request as soon as
\* something has been offloaded.
register_retrieval_tools == registered' = (registered \/ allowlist # {})

next_round ==
    /\ pc = "round end"
    /\ register_retrieval_tools
    /\ round' = round + 1
    /\ pc' = "llm"
    /\ UNCHANGED <<usage, overcharged, offers, loop, files, allowlist, warned, outcome>>

-----------------------------------------------------------------------------
(* Going away *)

\* The consumer closes the generator, or an exception leaves it; its finally
\* clause runs.
disconnect ==
    /\ pc \notin {"over", "down"}
    /\ Ends("closed")
    /\ cleanup
    /\ UNCHANGED <<usage, overcharged, offers, round, loop>>

\* The process dies; only what is on disk remains.
crash ==
    /\ pc \notin {"over", "down"}
    /\ pc' = "down"
    /\ UNCHANGED <<usage, overcharged, offers, round, loop, offload, outcome>>

\* cleanup_offload_storage, when the service starts again.
restart ==
    /\ pc = "down"
    /\ Ends("closed")
    /\ cleanup
    /\ UNCHANGED <<usage, overcharged, offers, round, loop>>

Step ==
    \/ prepare_prompt \/ prepare_rag \/ select_skill \/ take_history \/ resolve_tools
    \/ llm_answers \/ llm_raises \/ llm_calls_tools
    \/ skip_tools \/ execute_tools \/ tools_fail \/ next_round
    \/ restart

\* A request that is over stays as it is.
Over == pc = "over" /\ UNCHANGED vars

Next == Step \/ disconnect \/ crash \/ Over

Spec == Init /\ [][Next]_vars

-----------------------------------------------------------------------------
(* Properties *)

\* Before the model is asked again, every tool call of its last message has
\* been answered exactly once, whether it was executed, skipped for its name
\* or arguments, or skipped for want of budget: providers refuse a dialogue
\* with a call left open.
CallsAnswered ==
    pc = "llm" => /\ Len(answered) = Len(calls)
                  /\ ToSet(answered) = DOMAIN calls

\* The model is asked at most max_rounds times, and no tool runs in the last
\* of them, whatever the model keeps asking for.
LoopIsBounded ==
    invoked <= max_rounds /\ executed \subseteq 1..(max_rounds - 1)

\* Besides the question and the tools, only documents can make a request too
\* long (truncate_rag_context slices plain tokens up to a limit of counted
\* ones); history and skills are always made to fit.
TooLongIsExplained ==
    outcome = "too long" => overcharged

\* Output that was moved to a file can be retrieved whenever the model is asked
\* again and may call tools: the file is there, allowed, and the tools to read
\* it are resolved, also when an MCP tool has the same name, unless two have.
\* (In the final round tools are bound with tool_choice "none", so what the
\* round before it moved to a file is never read.)
OffloadedIsReachable ==
    (pc = "llm" /\ ~is_final_round /\ allowlist # {}) =>
        /\ RetrievalTool \subseteq callable \cup duplicate_tool_names
        /\ allowlist \subseteq files

\* No file outlives its request, however it ends, not even one that was only
\* begun, unless the directory could not be removed, which is logged; after a
\* crash that is so from the next start on.
NoFileLeftBehind == pc = "over" => files = {} \/ warned
=============================================================================
