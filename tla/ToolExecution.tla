--------------------------- MODULE ToolExecution ---------------------------
(***************************************************************************)
(* ols/src/tools/tools.py and ols/src/tools/approval.py: one round of tool *)
(* calls that the model asked for, run concurrently on the event loop.     *)
(* Each call may have to wait for the user, who answers through another    *)
(* endpoint (ols/app/endpoints/tool_approvals.py), or not at all; then the *)
(* tool runs, with retries.                                                *)
(*                                                                         *)
(* An approval_id is a fresh UUID per call, so the call itself names it.   *)
(* The event of a PendingApproval is set exactly when its decision is, and *)
(* the waiter holds the object itself: `decision' is the object, `stored'  *)
(* says whether the store still finds it.                                  *)
(***************************************************************************)
EXTENDS Integers, Sequences, FiniteSets

CONSTANTS
    Call,                   \* the tool calls of the round
    MAX_TOOL_CALL_RETRIES

ASSUME RetriesAssumption == MAX_TOOL_CALL_RETRIES \in Nat

VARIABLES
    streaming,      \* whether the request came through the streaming endpoint
    approval_type,  \* config.tools_approval.approval_type
    annotation,     \* Call -> what the metadata of its tool says
    connected,      \* whether the client still reads the response
    pc,             \* Call -> where its coroutine is
    stored,         \* the approval ids in InMemoryPendingApprovalStore._items
    decision,       \* Call -> PendingApproval.decision
    attempts,       \* Call -> how many times the tool was invoked
    messages        \* the tool results, in the order in which they arrived

configVars == <<streaming, approval_type, annotation>>
vars == <<streaming, approval_type, annotation, connected, pc, stored, decision,
          attempts, messages>>

ApprovalType == {"never", "always", "tool_annotations"}

\* normalize_tool_annotation leaves nothing, a readOnlyHint that is the Boolean
\* true, or something else.
Annotation == {"absent", "readOnlyHint", "other"}

Outcome == {"success", "error", "rejected", "timeout"}

Label == {"new", "offered", "waiting", "expired", "ready", "invoked", "done", "closed"}

-----------------------------------------------------------------------------
(* Policy *)

is_approval_enabled == streaming /\ approval_type \in {"always", "tool_annotations"}

need_validation(c) ==
    /\ is_approval_enabled
    /\ approval_type = "tool_annotations" => annotation[c] # "readOnlyHint"

Init ==
    /\ streaming \in BOOLEAN
    /\ approval_type \in ApprovalType
    /\ annotation \in [Call -> Annotation]
    /\ connected = TRUE
    /\ pc = [c \in Call |-> "new"]
    /\ stored = {}
    /\ decision = [c \in Call |-> "none"]
    /\ attempts = [c \in Call |-> 0]
    /\ messages = <<>>

Goto(c, label) == pc' = [pc EXCEPT ![c] = label]

\* The call yields its tool_result event and is over.
Emit(c, outcome) ==
    /\ messages' = Append(messages, [call |-> c, outcome |-> outcome])
    /\ Goto(c, "done")

-----------------------------------------------------------------------------
(* Asking the user: _evaluate_and_emit_approval_event *)

\* No approval needed: straight to the execution.
skip_approval(c) ==
    /\ pc[c] = "new"
    /\ ~need_validation(c)
    /\ Goto(c, "ready")
    /\ UNCHANGED <<configVars, connected, stored, decision, attempts, messages>>

\* Register the request, then yield approval_required: the coroutine is
\* suspended at the yield until the client has been sent the event.
register_pending_approval(c) ==
    /\ pc[c] = "new"
    /\ need_validation(c)
    /\ stored' = stored \cup {c}
    /\ Goto(c, "offered")
    /\ UNCHANGED <<configVars, connected, decision, attempts, messages>>

\* get_approval_decision up to its await.  A request that is not in the store
\* is an error, which the caller treats as a rejection.
await_decision(c) ==
    /\ pc[c] = "offered"
    /\ IF c \in stored
         THEN Goto(c, "waiting") /\ UNCHANGED messages
         ELSE Emit(c, "rejected")
    /\ UNCHANGED <<configVars, connected, stored, decision, attempts>>

\* The endpoint: set_decision of a pending request that has no decision yet
\* (APPLIED).  NOT_FOUND and ALREADY_RESOLVED change nothing.
set_decision(c, d) ==
    /\ c \in stored
    /\ decision[c] = "none"
    /\ decision' = [decision EXCEPT ![c] = d]
    /\ UNCHANGED <<configVars, connected, pc, stored, attempts, messages>>

\* Mutant: the rejection is yielded but nothing is raised.
take_decision_NoRaise(c) ==
    /\ pc[c] = "waiting"
    /\ decision[c] # "none"
    /\ stored' = stored \ {c}
    /\ Goto(c, "ready")
    /\ messages' = IF decision[c] = "approved" THEN messages
                   ELSE Append(messages, [call |-> c, outcome |-> "rejected"])
    /\ UNCHANGED <<configVars, connected, decision, attempts>>

\* The waiter runs after the event was set; finally: store.delete.  A call that
\* is not approved yields the rejection and raises: it never gets to execute.
take_decision(c) ==
    /\ pc[c] = "waiting"
    /\ decision[c] # "none"
    /\ stored' = stored \ {c}
    /\ IF decision[c] = "approved"
         THEN Goto(c, "ready") /\ UNCHANGED messages
         ELSE Emit(c, "rejected")
    /\ UNCHANGED <<configVars, connected, decision, attempts>>

\* Mutant: the wait has no timeout.
timer_fires_Never(c) ==
    /\ pc[c] = "waiting"
    /\ FALSE
    /\ UNCHANGED vars

\* The timer of asyncio.wait_for cancels the wait; the coroutine runs later, so
\* a decision can come in between, or may have come just before.
timer_fires(c) ==
    /\ pc[c] = "waiting"
    /\ Goto(c, "expired")
    /\ UNCHANGED <<configVars, connected, stored, decision, attempts, messages>>

\* Mutant: the timeout path returns without the clean-up.
return_timeout_NoDelete(c) ==
    /\ pc[c] = "expired"
    /\ Emit(c, "timeout")
    /\ UNCHANGED <<configVars, connected, stored, decision, attempts>>

\* except TimeoutError: TIMEOUT; finally: store.delete.
return_timeout(c) ==
    /\ pc[c] = "expired"
    /\ stored' = stored \ {c}
    /\ Emit(c, "timeout")
    /\ UNCHANGED <<configVars, connected, decision, attempts>>

-----------------------------------------------------------------------------
(* Running the tool: _execute_with_retries *)

execute_tool_call(c) ==
    /\ pc[c] = "ready"
    /\ attempts' = [attempts EXCEPT ![c] = @ + 1]
    /\ Goto(c, "invoked")
    /\ UNCHANGED <<configVars, connected, stored, decision, messages>>

tool_succeeds(c) ==
    /\ pc[c] = "invoked"
    /\ Emit(c, "success")
    /\ UNCHANGED <<configVars, connected, stored, decision, attempts>>

\* Mutant: one retry too many.
tool_fails_OffByOne(c, retriable) ==
    /\ pc[c] = "invoked"
    /\ IF retriable /\ attempts[c] <= MAX_TOOL_CALL_RETRIES + 1
         THEN Goto(c, "ready") /\ UNCHANGED messages
         ELSE Emit(c, "error")
    /\ UNCHANGED <<configVars, connected, stored, decision, attempts>>

\* A transient or rate-limit error is retried while attempts are left.
tool_fails(c, retriable) ==
    /\ pc[c] = "invoked"
    /\ IF retriable /\ attempts[c] <= MAX_TOOL_CALL_RETRIES
         THEN Goto(c, "ready") /\ UNCHANGED messages
         ELSE Emit(c, "error")
    /\ UNCHANGED <<configVars, connected, stored, decision, attempts>>

-----------------------------------------------------------------------------
(* The client goes away *)

\* A streaming response is cancelled and every generator closed.  The `finally'
\* of get_approval_decision runs for the calls that wait; the yield of
\* approval_required has none.
disconnect ==
    /\ streaming
    /\ connected
    /\ connected' = FALSE
    /\ pc' = [c \in Call |-> IF pc[c] = "done" THEN "done" ELSE "closed"]
    /\ stored' = {c \in stored : pc[c] \notin {"waiting", "expired"}}
    /\ UNCHANGED <<configVars, decision, attempts, messages>>

-----------------------------------------------------------------------------

Step(c) ==
    \/ skip_approval(c)
    \/ register_pending_approval(c)
    \/ await_decision(c)
    \/ take_decision(c)
    \/ timer_fires(c)
    \/ return_timeout(c)
    \/ execute_tool_call(c)
    \/ tool_succeeds(c)
    \/ \E retriable \in BOOLEAN : tool_fails(c, retriable)

Next ==
    \/ \E c \in Call : Step(c)
    \/ \E c \in Call, d \in {"approved", "rejected"} : set_decision(c, d)
    \/ disconnect

\* The event loop runs every ready coroutine, timers fire and a tool returns or
\* fails (its transport has a timeout); users may never answer.
Fairness == \A c \in Call : WF_vars(Step(c))

Spec == Init /\ [][Next]_vars /\ Fairness

-----------------------------------------------------------------------------
(* Properties *)

\* The approval store, the coroutines and their results keep their types; a result
\* has one of the four outcomes that the agent tells apart.
TypeOK ==
    /\ streaming \in BOOLEAN
    /\ approval_type \in ApprovalType
    /\ annotation \in [Call -> Annotation]
    /\ connected \in BOOLEAN
    /\ pc \in [Call -> Label]
    /\ stored \in SUBSET Call
    /\ decision \in [Call -> {"none", "approved", "rejected"}]
    /\ attempts \in [Call -> Nat]
    /\ messages \in Seq([call : Call, outcome : Outcome])

\* Fail closed: a tool that needs validation was invoked only if the user's
\* approval of that very call had been applied, whatever the timer, the other
\* calls of the round and late or repeated answers did.
NeverRunsUnapproved ==
    \A c \in Call : attempts[c] > 0 /\ need_validation(c) => decision[c] = "approved"

\* A call yields at most one tool result, and one exactly when it is over: the
\* next request to the model pairs every tool call with one tool message.
OneResultPerCall ==
    /\ \A i, j \in 1..Len(messages) : messages[i].call = messages[j].call => i = j
    /\ \A c \in Call : pc[c] = "done" <=> \E i \in 1..Len(messages) : messages[i].call = c

\* A result of the tool itself means the tool ran, and a refusal means it did
\* not; no call is tried more often than the retry policy allows.
ResultsMatchExecution ==
    /\ \A i \in 1..Len(messages) :
          messages[i].outcome \in {"success", "error"} <=> attempts[messages[i].call] > 0
    /\ \A c \in Call : attempts[c] <= MAX_TOOL_CALL_RETRIES + 1

\* The store holds a request only while its call can still be answered: every
\* way out of the wait removes it as long as the client stays.
StoreIsCleanedUp ==
    connected => stored = {c \in Call : pc[c] \in {"offered", "waiting", "expired"}}

\* An answer that was applied is final: no later answer and no timeout changes it.
DecisionIsFinal ==
    [][\A c \in Call : decision[c] # "none" => decision'[c] = decision[c]]_vars

\* No call waits for ever, also when the user never answers: the round ends.
RoundEnds == <>(\A c \in Call : pc[c] \in {"done", "closed"})

=============================================================================
