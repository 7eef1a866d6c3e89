----------------------- MODULE ToolExecution_proofs -----------------------
(***************************************************************************)
(* The guarantees of a round of tool calls, for any number of calls and    *)
(* any retry limit.                                                        *)
(*                                                                         *)
(* NeverRunsUnapproved speaks of calls that have run; that it survives the *)
(* next step depends on the calls that are about to run (`Gate').          *)
(***************************************************************************)
EXTENDS ToolExecution, SequenceTheorems, TLAPS

\* A call that needs validation gets past the gate only with an approval.
Gate ==
    \A c \in Call :
        need_validation(c) /\ (pc[c] \in {"ready", "invoked"} \/ attempts[c] > 0)
            => decision[c] = "approved"

SafetyInv == TypeOK /\ Gate

LEMMA TypeStep == TypeOK /\ [Next]_vars => TypeOK'
<1> SUFFICES ASSUME TypeOK, [Next]_vars PROVE TypeOK'
  OBVIOUS
<1> USE DEF TypeOK, configVars, Goto, Emit, Label, Outcome
<1>1. ASSUME NEW c \in Call, skip_approval(c) PROVE TypeOK'
  BY <1>1 DEF skip_approval
<1>2. ASSUME NEW c \in Call, register_pending_approval(c) PROVE TypeOK'
  BY <1>2 DEF register_pending_approval
<1>3. ASSUME NEW c \in Call, await_decision(c) PROVE TypeOK'
  <2>1. CASE c \in stored
    BY <1>3, <2>1 DEF await_decision
  <2>2. CASE c \notin stored
    <3>1. Emit(c, "rejected") /\ UNCHANGED <<configVars, connected, stored, decision, attempts>>
      BY <1>3, <2>2, Zenon DEF await_decision
    <3>2. QED
      BY <3>1
  <2>3. QED
    BY <2>1, <2>2
<1>4. ASSUME NEW c \in Call, NEW d \in {"approved", "rejected"}, set_decision(c, d)
      PROVE  TypeOK'
  BY <1>4 DEF set_decision
<1>5. ASSUME NEW c \in Call, take_decision(c) PROVE TypeOK'
  <2>1. CASE decision[c] = "approved"
    BY <1>5, <2>1 DEF take_decision
  <2>2. CASE decision[c] # "approved"
    <3>1. Emit(c, "rejected") /\ UNCHANGED <<configVars, connected, decision, attempts>> /\ stored' = stored \ {c}
      BY <1>5, <2>2, Zenon DEF take_decision
    <3>2. QED
      BY <3>1
  <2>3. QED
    BY <2>1, <2>2
<1>6. ASSUME NEW c \in Call, timer_fires(c) PROVE TypeOK'
  BY <1>6 DEF timer_fires
<1>7. ASSUME NEW c \in Call, return_timeout(c) PROVE TypeOK'
  BY <1>7 DEF return_timeout
<1>8. ASSUME NEW c \in Call, execute_tool_call(c) PROVE TypeOK'
  BY <1>8 DEF execute_tool_call
<1>9. ASSUME NEW c \in Call, tool_succeeds(c) PROVE TypeOK'
  BY <1>9 DEF tool_succeeds
<1>10. ASSUME NEW c \in Call, NEW r \in BOOLEAN, tool_fails(c, r) PROVE TypeOK'
  <2>1. CASE r /\ attempts[c] <= MAX_TOOL_CALL_RETRIES
    BY <1>10, <2>1 DEF tool_fails
  <2>2. CASE ~(r /\ attempts[c] <= MAX_TOOL_CALL_RETRIES)
    <3>1. Emit(c, "error") /\ UNCHANGED <<configVars, connected, stored, decision, attempts>>
      BY <1>10, <2>2, Zenon DEF tool_fails
    <3>2. QED
      BY <3>1
  <2>3. QED
    BY <2>1, <2>2
<1>11. ASSUME disconnect PROVE TypeOK'
  BY <1>11 DEF disconnect
<1>12. CASE UNCHANGED vars
  BY <1>12 DEF vars
<1>13. QED
  BY <1>1, <1>2, <1>3, <1>4, <1>5, <1>6, <1>7, <1>8, <1>9, <1>10, <1>11, <1>12
     DEF Next, Step

LEMMA GateStep == SafetyInv /\ [Next]_vars => Gate'
<1> SUFFICES ASSUME TypeOK, Gate, [Next]_vars PROVE Gate'
  BY DEF SafetyInv
<1> USE DEF TypeOK, Gate, configVars, Goto, Emit, need_validation, is_approval_enabled
<1>1. ASSUME NEW c \in Call, skip_approval(c) PROVE Gate'
  BY <1>1 DEF skip_approval
<1>2. ASSUME NEW c \in Call, register_pending_approval(c) PROVE Gate'
  BY <1>2 DEF register_pending_approval
<1>3. ASSUME NEW c \in Call, await_decision(c) PROVE Gate'
  BY <1>3 DEF await_decision
<1>4. ASSUME NEW c \in Call, NEW d \in {"approved", "rejected"}, set_decision(c, d)
      PROVE  Gate'
  BY <1>4 DEF set_decision
<1>5. ASSUME NEW c \in Call, take_decision(c) PROVE Gate'
  BY <1>5 DEF take_decision
<1>6. ASSUME NEW c \in Call, timer_fires(c) PROVE Gate'
  BY <1>6 DEF timer_fires
<1>7. ASSUME NEW c \in Call, return_timeout(c) PROVE Gate'
  BY <1>7 DEF return_timeout
<1>8. ASSUME NEW c \in Call, execute_tool_call(c) PROVE Gate'
  BY <1>8 DEF execute_tool_call
<1>9. ASSUME NEW c \in Call, tool_succeeds(c) PROVE Gate'
  BY <1>9 DEF tool_succeeds
<1>10. ASSUME NEW c \in Call, NEW r \in BOOLEAN, tool_fails(c, r) PROVE Gate'
  BY <1>10 DEF tool_fails
<1>11. ASSUME disconnect PROVE Gate'
  BY <1>11 DEF disconnect
<1>12. CASE UNCHANGED vars
  BY <1>12 DEF vars
<1>13. QED
  BY <1>1, <1>2, <1>3, <1>4, <1>5, <1>6, <1>7, <1>8, <1>9, <1>10, <1>11, <1>12
     DEF Next, Step

\* The fields of a round keep their types.
THEOREM TypeCorrect == Spec => []TypeOK
<1>1. Init => TypeOK
  BY DEF Init, TypeOK, Label
<1>2. QED
  BY <1>1, TypeStep, PTL DEF Spec

\* Fail closed: no tool that needs validation runs without an applied approval
\* of that call, for any number of concurrent calls and any retry limit.
THEOREM FailsClosed == Spec => []NeverRunsUnapproved
<1>1. Init => SafetyInv
  BY DEF Init, SafetyInv, TypeOK, Gate, Label
<1>2. SafetyInv /\ [Next]_vars => SafetyInv'
  BY TypeStep, GateStep DEF SafetyInv
<1>3. SafetyInv => NeverRunsUnapproved
  BY DEF SafetyInv, Gate, NeverRunsUnapproved
<1>4. QED
  BY <1>1, <1>2, <1>3, PTL DEF Spec
-----------------------------------------------------------------------------
(* What the results say of the calls *)

\* The tool has not run before the gate, has run once it is invoked, and there
\* is an attempt left whenever it may be invoked again.
Progress ==
    \A c \in Call :
        /\ attempts[c] <= MAX_TOOL_CALL_RETRIES + 1
        /\ pc[c] = "ready" => attempts[c] <= MAX_TOOL_CALL_RETRIES
        /\ pc[c] = "invoked" => attempts[c] > 0
        /\ pc[c] \in {"new", "offered", "waiting", "expired"} => attempts[c] = 0

\* The first half of ResultsMatchExecution.
ResultsAreTrue ==
    \A i \in 1..Len(messages) :
        messages[i].outcome \in {"success", "error"} <=> attempts[messages[i].call] > 0

ResultInv == TypeOK /\ Progress /\ OneResultPerCall /\ ResultsAreTrue

LEMMA StoreStep == TypeOK /\ StoreIsCleanedUp /\ [Next]_vars => StoreIsCleanedUp'
<1> SUFFICES ASSUME TypeOK, StoreIsCleanedUp, [Next]_vars PROVE StoreIsCleanedUp'
  OBVIOUS
<1> USE DEF TypeOK, StoreIsCleanedUp, configVars, Goto, Emit
<1>1. ASSUME NEW c \in Call, skip_approval(c) PROVE StoreIsCleanedUp'
  BY <1>1 DEF skip_approval
<1>2. ASSUME NEW c \in Call, register_pending_approval(c) PROVE StoreIsCleanedUp'
  BY <1>2 DEF register_pending_approval
<1>3. ASSUME NEW c \in Call, await_decision(c) PROVE StoreIsCleanedUp'
  BY <1>3 DEF await_decision
<1>4. ASSUME NEW c \in Call, NEW d \in {"approved", "rejected"}, set_decision(c, d) PROVE StoreIsCleanedUp'
  BY <1>4 DEF set_decision
<1>5. ASSUME NEW c \in Call, take_decision(c) PROVE StoreIsCleanedUp'
  BY <1>5 DEF take_decision
<1>6. ASSUME NEW c \in Call, timer_fires(c) PROVE StoreIsCleanedUp'
  BY <1>6 DEF timer_fires
<1>7. ASSUME NEW c \in Call, return_timeout(c) PROVE StoreIsCleanedUp'
  BY <1>7 DEF return_timeout
<1>8. ASSUME NEW c \in Call, execute_tool_call(c) PROVE StoreIsCleanedUp'
  BY <1>8 DEF execute_tool_call
<1>9. ASSUME NEW c \in Call, tool_succeeds(c) PROVE StoreIsCleanedUp'
  BY <1>9 DEF tool_succeeds
<1>10. ASSUME NEW c \in Call, NEW r \in BOOLEAN, tool_fails(c, r) PROVE StoreIsCleanedUp'
  BY <1>10 DEF tool_fails
<1>11. ASSUME disconnect PROVE StoreIsCleanedUp'
  BY <1>11 DEF disconnect
<1>12. CASE UNCHANGED vars
  BY <1>12 DEF vars
<1>13. QED
  BY <1>1, <1>2, <1>3, <1>4, <1>5, <1>6, <1>7, <1>8, <1>9, <1>10, <1>11, <1>12
     DEF Next, Step

LEMMA ProgressStep == TypeOK /\ Progress /\ [Next]_vars => Progress'
<1> SUFFICES ASSUME TypeOK, Progress, [Next]_vars PROVE Progress'
  OBVIOUS
<1> USE RetriesAssumption DEF TypeOK, Progress, configVars, Goto, Emit
<1>1. ASSUME NEW c \in Call, skip_approval(c) PROVE Progress'
  BY <1>1 DEF skip_approval
<1>2. ASSUME NEW c \in Call, register_pending_approval(c) PROVE Progress'
  BY <1>2 DEF register_pending_approval
<1>3. ASSUME NEW c \in Call, await_decision(c) PROVE Progress'
  BY <1>3 DEF await_decision
<1>4. ASSUME NEW c \in Call, NEW d \in {"approved", "rejected"}, set_decision(c, d) PROVE Progress'
  BY <1>4 DEF set_decision
<1>5. ASSUME NEW c \in Call, take_decision(c) PROVE Progress'
  BY <1>5 DEF take_decision
<1>6. ASSUME NEW c \in Call, timer_fires(c) PROVE Progress'
  BY <1>6 DEF timer_fires
<1>7. ASSUME NEW c \in Call, return_timeout(c) PROVE Progress'
  BY <1>7 DEF return_timeout
<1>8. ASSUME NEW c \in Call, execute_tool_call(c) PROVE Progress'
  BY <1>8 DEF execute_tool_call
<1>9. ASSUME NEW c \in Call, tool_succeeds(c) PROVE Progress'
  BY <1>9 DEF tool_succeeds
<1>10. ASSUME NEW c \in Call, NEW r \in BOOLEAN, tool_fails(c, r) PROVE Progress'
  BY <1>10 DEF tool_fails
<1>11. ASSUME disconnect PROVE Progress'
  BY <1>11 DEF disconnect
<1>12. CASE UNCHANGED vars
  BY <1>12 DEF vars
<1>13. QED
  BY <1>1, <1>2, <1>3, <1>4, <1>5, <1>6, <1>7, <1>8, <1>9, <1>10, <1>11, <1>12
     DEF Next, Step

\* Appending a result leaves the earlier ones where they are.
LEMMA Appended ==
    ASSUME TypeOK, NEW c \in Call, NEW o \in Outcome, Emit(c, o)
    PROVE  /\ Len(messages) \in Nat
           /\ Len(messages') = Len(messages) + 1
           /\ \A i \in 1..Len(messages) : messages'[i] = messages[i]
           /\ messages'[Len(messages')] = [call |-> c, outcome |-> o]
           /\ pc' = [pc EXCEPT ![c] = "done"]
<1>1. messages' = Append(messages, [call |-> c, outcome |-> o])
  BY DEF Emit
<1>2. pc' = [pc EXCEPT ![c] = "done"]
  BY DEF Emit, Goto
<1> DEFINE T == [call : Call, outcome : Outcome]
           r == [call |-> c, outcome |-> o]
<1>3. r \in T
  OBVIOUS
<1>4. messages \in Seq(T)
  BY Zenon DEF TypeOK
<1> HIDE DEF T, r
<1>5. messages' = Append(messages, r)
  BY <1>1 DEF r
<1>6. /\ Len(messages) \in Nat
      /\ Len(messages') = Len(messages) + 1
      /\ \A i \in 1..Len(messages) : messages'[i] = messages[i]
      /\ messages'[Len(messages')] = r
  BY <1>3, <1>4, <1>5
<1>7. messages'[Len(messages')] = [call |-> c, outcome |-> o]
  <2>1. r = [call |-> c, outcome |-> o]
    BY Zenon DEF r
  <2>2. QED
    BY <1>6, <2>1, Zenon
<1>8. QED
  BY <1>2, <1>6, <1>7, Zenon

\* A call that emits its first result is done, and nothing else is.
LEMMA EmitOnce ==
    ASSUME TypeOK, OneResultPerCall, NEW c \in Call, NEW o \in Outcome, Emit(c, o), pc[c] # "done"
    PROVE  OneResultPerCall'
<1>1. \A i \in 1..Len(messages) : messages[i].call # c
  BY DEF OneResultPerCall
<1>2. \A i \in 1..Len(messages) : messages'[i].call = messages[i].call
  BY Appended
<1>3. messages'[Len(messages')].call = c
  <2>1. messages'[Len(messages')] = [call |-> c, outcome |-> o]
    BY Appended, Zenon
  <2>2. QED
    BY <2>1
<1> DEFINE n == Len(messages)
<1>4. n \in Nat /\ Len(messages') = n + 1 /\ pc' = [pc EXCEPT ![c] = "done"]
  BY Appended
<1>5. \A i, j \in 1..Len(messages') : messages'[i].call = messages'[j].call => i = j
  BY <1>1, <1>2, <1>3, <1>4 DEF OneResultPerCall
<1>6. ASSUME NEW d \in Call
      PROVE  pc'[d] = "done" <=> \E i \in 1..Len(messages') : messages'[i].call = d
  <2>1. CASE d = c
    BY <1>3, <1>4, <2>1 DEF TypeOK
  <2>2. CASE d # c
    <3>1. pc'[d] = pc[d]
      BY <1>4, <2>2 DEF TypeOK
    <3>2. (\E i \in 1..(n + 1) : messages'[i].call = d)
            <=> \E i \in 1..n : messages[i].call = d
      BY <1>2, <1>3, <1>4, <2>2
    <3>3. QED
      BY <1>4, <3>1, <3>2 DEF OneResultPerCall
  <2>3. QED
    BY <2>1, <2>2
<1>7. QED
  BY <1>5, <1>6 DEF OneResultPerCall

\* A new result that tells the truth does not disturb the others.
LEMMA EmitTruly ==
    ASSUME TypeOK, ResultsAreTrue, NEW c \in Call, NEW o \in Outcome, Emit(c, o),
           UNCHANGED attempts, o \in {"success", "error"} <=> attempts[c] > 0
    PROVE  ResultsAreTrue'
<1> DEFINE n == Len(messages)
<1>1. n \in Nat /\ Len(messages') = n + 1
  BY Appended
<1>2. \A i \in 1..n : messages'[i] = messages[i]
  BY Appended
<1>3. messages'[n + 1].outcome = o /\ messages'[n + 1].call = c
  <2>1. messages'[n + 1] = [call |-> c, outcome |-> o]
    BY <1>1, Appended, Zenon
  <2>2. QED
    BY <2>1
<1>4. ASSUME NEW i \in 1..(n + 1)
      PROVE  messages'[i].outcome \in {"success", "error"}
               <=> attempts[messages'[i].call] > 0
  <2>1. CASE i = n + 1
    BY <1>3, <2>1
  <2>2. CASE i # n + 1
    <3>1. i \in 1..n
      BY <1>1, <2>2
    <3>2. QED
      BY <1>2, <3>1 DEF ResultsAreTrue
  <2>3. QED
    BY <2>1, <2>2
<1>5. QED
  BY <1>1, <1>4 DEF ResultsAreTrue

\* Every step keeps the results one to a call and true.
LEMMA ResultStep ==
    ResultInv /\ [Next]_vars => OneResultPerCall' /\ ResultsAreTrue'
<1> SUFFICES ASSUME TypeOK, Progress, OneResultPerCall, ResultsAreTrue, [Next]_vars
             PROVE  OneResultPerCall' /\ ResultsAreTrue'
  BY DEF ResultInv
\* A step that adds no result ...
<1>a. ASSUME UNCHANGED <<messages, attempts>>,
             \A d \in Call : pc'[d] = "done" <=> pc[d] = "done"
      PROVE  OneResultPerCall' /\ ResultsAreTrue'
  BY <1>a DEF OneResultPerCall, ResultsAreTrue
\* ... and a step that adds one.
<1>b. ASSUME NEW c \in Call, NEW o \in Outcome, Emit(c, o), UNCHANGED attempts,
             pc[c] # "done", o \in {"success", "error"} <=> attempts[c] > 0
      PROVE  OneResultPerCall' /\ ResultsAreTrue'
  BY <1>b, EmitOnce, EmitTruly
<1>1. ASSUME NEW c \in Call, skip_approval(c)
      PROVE  OneResultPerCall' /\ ResultsAreTrue'
  <2>1. UNCHANGED <<messages, attempts>>
    BY <1>1 DEF skip_approval
  <2>2. \A d \in Call : pc'[d] = "done" <=> pc[d] = "done"
    BY <1>1 DEF skip_approval, Goto, TypeOK
  <2>3. QED
    BY <2>1, <2>2, <1>a
<1>2. ASSUME NEW c \in Call, register_pending_approval(c)
      PROVE  OneResultPerCall' /\ ResultsAreTrue'
  <2>1. UNCHANGED <<messages, attempts>>
    BY <1>2 DEF register_pending_approval
  <2>2. \A d \in Call : pc'[d] = "done" <=> pc[d] = "done"
    BY <1>2 DEF register_pending_approval, Goto, TypeOK
  <2>3. QED
    BY <2>1, <2>2, <1>a
<1>3. ASSUME NEW c \in Call, await_decision(c)
      PROVE  OneResultPerCall' /\ ResultsAreTrue'
  <2>1. CASE c \in stored
    <3>1. UNCHANGED <<messages, attempts>>
      BY <1>3, <2>1 DEF await_decision
    <3>2. \A d \in Call : pc'[d] = "done" <=> pc[d] = "done"
      BY <1>3, <2>1 DEF await_decision, Goto, TypeOK
    <3>3. QED
      BY <3>1, <3>2, <1>a
  <2>2. CASE c \notin stored
    <3>1. Emit(c, "rejected") /\ UNCHANGED attempts /\ pc[c] # "done"
      BY <1>3, <2>2 DEF await_decision
    <3>2. ~(attempts[c] > 0)
      BY <1>3 DEF await_decision, Progress, TypeOK
    <3>3. QED
      BY <3>1, <3>2, <1>b DEF Outcome
  <2>3. QED
    BY <2>1, <2>2
<1>4. ASSUME NEW c \in Call, NEW d \in {"approved", "rejected"}, set_decision(c, d)
      PROVE  OneResultPerCall' /\ ResultsAreTrue'
  <2>1. UNCHANGED <<messages, attempts>>
    BY <1>4 DEF set_decision
  <2>2. \A e \in Call : pc'[e] = "done" <=> pc[e] = "done"
    BY <1>4 DEF set_decision, Goto, TypeOK
  <2>3. QED
    BY <2>1, <2>2, <1>a
<1>5. ASSUME NEW c \in Call, take_decision(c)
      PROVE  OneResultPerCall' /\ ResultsAreTrue'
  <2>1. CASE decision[c] = "approved"
    <3>1. UNCHANGED <<messages, attempts>>
      BY <1>5, <2>1 DEF take_decision
    <3>2. \A d \in Call : pc'[d] = "done" <=> pc[d] = "done"
      BY <1>5, <2>1 DEF take_decision, Goto, TypeOK
    <3>3. QED
      BY <3>1, <3>2, <1>a
  <2>2. CASE decision[c] # "approved"
    <3>1. Emit(c, "rejected") /\ UNCHANGED attempts /\ pc[c] # "done"
      BY <1>5, <2>2 DEF take_decision
    <3>2. ~(attempts[c] > 0)
      BY <1>5 DEF take_decision, Progress, TypeOK
    <3>3. QED
      BY <3>1, <3>2, <1>b DEF Outcome
  <2>3. QED
    BY <2>1, <2>2
<1>6. ASSUME NEW c \in Call, timer_fires(c)
      PROVE  OneResultPerCall' /\ ResultsAreTrue'
  <2>1. UNCHANGED <<messages, attempts>>
    BY <1>6 DEF timer_fires
  <2>2. \A d \in Call : pc'[d] = "done" <=> pc[d] = "done"
    BY <1>6 DEF timer_fires, Goto, TypeOK
  <2>3. QED
    BY <2>1, <2>2, <1>a
<1>7. ASSUME NEW c \in Call, return_timeout(c)
      PROVE  OneResultPerCall' /\ ResultsAreTrue'
  <2>1. Emit(c, "timeout") /\ UNCHANGED attempts /\ pc[c] # "done"
    BY <1>7 DEF return_timeout
  <2>2. ~(attempts[c] > 0)
    BY <1>7 DEF return_timeout, Progress, TypeOK
  <2>3. QED
    BY <2>1, <2>2, <1>b DEF Outcome
<1>8. ASSUME NEW c \in Call, execute_tool_call(c)
      PROVE  OneResultPerCall' /\ ResultsAreTrue'
  <2>1. pc' = [pc EXCEPT ![c] = "invoked"] /\ UNCHANGED messages
    BY <1>8 DEF execute_tool_call, Goto
  <2>2. \A d \in Call : pc'[d] = "done" <=> pc[d] = "done"
    BY <1>8, <2>1 DEF execute_tool_call, TypeOK
  <2>3. ASSUME NEW i \in 1..Len(messages)
        PROVE  messages[i].call # c /\ messages[i].call \in Call
    <3>1. messages[i] \in [call : Call, outcome : Outcome]
      BY ElementOfSeq, Zenon DEF TypeOK
    <3>2. pc[c] # "done"
      BY <1>8 DEF execute_tool_call
    <3>3. messages[i].call # c
      BY <3>2, Zenon DEF OneResultPerCall
    <3>4. QED
      BY <3>1, <3>3
  <2>4. \A d \in Call : d # c => attempts'[d] = attempts[d]
    BY <1>8 DEF execute_tool_call, TypeOK
  <2>5. OneResultPerCall'
    BY <2>1, <2>2 DEF OneResultPerCall
  <2>6. ResultsAreTrue'
    BY <2>1, <2>3, <2>4 DEF ResultsAreTrue
  <2>7. QED
    BY <2>5, <2>6
<1>9. ASSUME NEW c \in Call, tool_succeeds(c)
      PROVE  OneResultPerCall' /\ ResultsAreTrue'
  <2>1. Emit(c, "success") /\ UNCHANGED attempts /\ pc[c] # "done"
    BY <1>9 DEF tool_succeeds
  <2>2. attempts[c] > 0
    BY <1>9 DEF tool_succeeds, Progress, TypeOK
  <2>3. QED
    BY <2>1, <2>2, <1>b DEF Outcome
<1>10. ASSUME NEW c \in Call, NEW r \in BOOLEAN, tool_fails(c, r)
      PROVE  OneResultPerCall' /\ ResultsAreTrue'
  <2>1. CASE r /\ attempts[c] <= MAX_TOOL_CALL_RETRIES
    <3>1. UNCHANGED <<messages, attempts>>
      BY <1>10, <2>1 DEF tool_fails
    <3>2. \A d \in Call : pc'[d] = "done" <=> pc[d] = "done"
      BY <1>10, <2>1 DEF tool_fails, Goto, TypeOK
    <3>3. QED
      BY <3>1, <3>2, <1>a
  <2>2. CASE ~(r /\ attempts[c] <= MAX_TOOL_CALL_RETRIES)
    <3>1. Emit(c, "error") /\ UNCHANGED attempts /\ pc[c] # "done"
      BY <1>10, <2>2 DEF tool_fails
    <3>2. attempts[c] > 0
      BY <1>10 DEF tool_fails, Progress, TypeOK
    <3>3. QED
      BY <3>1, <3>2, <1>b DEF Outcome
  <2>3. QED
    BY <2>1, <2>2
<1>11. ASSUME disconnect PROVE OneResultPerCall' /\ ResultsAreTrue'
  <2>1. UNCHANGED <<messages, attempts>>
    BY <1>11 DEF disconnect
  <2>2. ASSUME NEW d \in Call PROVE pc'[d] = "done" <=> pc[d] = "done"
    <3>1. pc'[d] = IF pc[d] = "done" THEN "done" ELSE "closed"
      BY <1>11 DEF disconnect
    <3>2. QED
      BY <3>1
  <2>3. QED
    BY <2>1, <2>2, <1>a
<1>12. CASE UNCHANGED vars
  BY <1>12, <1>a DEF vars
<1>13. QED
  BY <1>1, <1>2, <1>3, <1>4, <1>5, <1>6, <1>7, <1>8, <1>9, <1>10, <1>11, <1>12
     DEF Next, Step

LEMMA ResultsInvariant == Spec => []ResultInv
<1>1. Init => ResultInv
  BY RetriesAssumption
     DEF Init, ResultInv, TypeOK, Label, Progress, OneResultPerCall, ResultsAreTrue
<1>2. ResultInv /\ [Next]_vars => ResultInv'
  BY TypeStep, ProgressStep, ResultStep DEF ResultInv
<1>3. QED
  BY <1>1, <1>2, PTL DEF Spec

\* One tool message per call, when the call is over and not before: the pairing
\* that execute_tool_calls_stream promises to the agent, for any set of calls.
THEOREM OneResult == Spec => []OneResultPerCall
<1>1. ResultInv => OneResultPerCall
  BY DEF ResultInv
<1>2. QED
  BY <1>1, ResultsInvariant, PTL

\* A result tells whether the tool ran, and _execute_with_retries never exceeds
\* its budget of attempts.
THEOREM ResultsTrue == Spec => []ResultsMatchExecution
<1>1. ResultInv => ResultsMatchExecution
  BY DEF ResultInv, ResultsAreTrue, Progress, ResultsMatchExecution
<1>2. QED
  BY <1>1, ResultsInvariant, PTL

\* While the client is there, the approval store holds exactly the requests that
\* can still be answered: every path out of the wait runs store.delete.
THEOREM StoreCorrect == Spec => []StoreIsCleanedUp
<1>1. Init => TypeOK /\ StoreIsCleanedUp
  BY DEF Init, TypeOK, Label, StoreIsCleanedUp
<1>2. TypeOK /\ StoreIsCleanedUp /\ [Next]_vars => TypeOK' /\ StoreIsCleanedUp'
  BY TypeStep, StoreStep
<1>3. QED
  BY <1>1, <1>2, PTL DEF Spec

\* An applied answer is never overwritten: of two answers, and of an answer and
\* the timeout, the first applied stays (set_decision, ALREADY_RESOLVED).
THEOREM FirstAnswerStays == Spec => DecisionIsFinal
<1>1. TypeOK /\ [Next]_vars
        => [\A c \in Call : decision[c] # "none" => decision'[c] = decision[c]]_vars
  <2> SUFFICES ASSUME TypeOK, Next, NEW e \in Call, decision[e] # "none"
               PROVE  decision'[e] = decision[e]
    OBVIOUS
  <2>1. ASSUME NEW c \in Call, NEW d \in {"approved", "rejected"}, set_decision(c, d)
        PROVE  decision'[e] = decision[e]
    BY <2>1 DEF set_decision, TypeOK
  <2>2. ASSUME NEW c \in Call, Step(c) PROVE decision'[e] = decision[e]
    BY <2>2, Zenon
       DEF Step, skip_approval, register_pending_approval, await_decision, take_decision,
           timer_fires, return_timeout, execute_tool_call, tool_succeeds, tool_fails
  <2>3. CASE disconnect
    BY <2>3 DEF disconnect
  <2>4. QED
    BY <2>1, <2>2, <2>3 DEF Next
<1>2. QED
  BY <1>1, TypeCorrect, PTL DEF Spec, DecisionIsFinal
=============================================================================
