-------------------------- MODULE AgentLoop_proofs --------------------------
(***************************************************************************)
(* Guarantees of the tool loop for any limits, tools and token lengths,    *)
(* and of the history that its prompt is given.                            *)
(*                                                                         *)
(* Counted says which round the loop is in and how often the model was     *)
(* asked, Kept where the offloaded output is and who can read it, Answered *)
(* that the calls of a round have their messages when the round ends,      *)
(* Budgeted what the parts of the prompt leave of the token budget.        *)
(* HistoryInv says of every place of a compression that what is stored or  *)
(* about to be stored is in order and complete.                            *)
(***************************************************************************)
EXTENDS AgentLoop, HistoryCompression, FiniteSetTheorems, SequenceTheorems, WellFoundedInduction, TLAPS

Preparing == {"prompt", "rag", "skill", "history", "tools"}
Looping == {"llm", "process", "round end"}

TypeOK ==
    /\ pc \in Preparing \cup Looping \cup {"over", "down"}
    /\ offers \in [Names -> 0..2]
    /\ round \in Nat
    /\ invoked \in Nat
    /\ calls \in Seq(Names \cup {"other"})
    /\ registered \in BOOLEAN

\* The model was asked once in every round before this one, and in this one if
\* it has answered; a round in which it may call tools is not the last.
Counted ==
    /\ pc \in Preparing => invoked = 0 /\ executed = {}
    /\ pc \in Looping => round \in 1..max_rounds
    /\ pc = "llm" => invoked = round - 1
    /\ pc \in {"process", "round end"} => invoked = round /\ round < max_rounds
    /\ invoked <= max_rounds
    /\ executed \subseteq 1..(max_rounds - 1)

\* What is allowed is on disk; nothing is before the loop, nor after the request
\* unless its removal failed; and when the model is asked again the tools to read
\* it are registered.
Kept ==
    /\ allowlist \subseteq files
    /\ pc \in Preparing => files = {}
    /\ pc = "over" => files = {} \/ warned = TRUE
    /\ pc \in {"llm", "process"} /\ allowlist # {} => registered

\* The calls of the last message have their answers when the round ends.
Answered ==
    pc \in Preparing \cup {"llm", "round end"} =>
        Len(answered) = Len(calls) /\ ToSet(answered) = DOMAIN calls

LoopInv == TypeOK /\ Counted /\ Kept /\ Answered

-----------------------------------------------------------------------------
(* Positions in order *)

\* The least-number principle, for sets.
LEMMA LeastNumber ==
    ASSUME NEW T, T \subseteq Nat, T # {}
    PROVE  \E x \in T : \A y \in T : x <= y
<1>1. PICK x \in T : \A y \in T : ~ (<<y, x>> \in OpToRel(<, Nat))
  BY NatLessThanWellFounded, WFMin, Zenon
<1>2. \A y \in T : ~(y < x)
  BY <1>1 DEF OpToRel
<1>3. QED
  BY <1>2

Ascending(f, n, S) ==
    /\ f \in [1..n -> S]
    /\ \A i, j \in 1..n : i < j => f[i] < f[j]

\* A finite set of numbers can be listed in ascending order.
LEMMA AscendingExists ==
    ASSUME NEW S \in SUBSET Nat, IsFiniteSet(S)
    PROVE  \E f : Ascending(f, Cardinality(S), S)
<1> DEFINE Sets(n) == {R \in SUBSET Nat : IsFiniteSet(R) /\ Cardinality(R) = n}
           Bad == {n \in Nat : \E R \in Sets(n) : ~ \E f : Ascending(f, n, R)}
<1>1. SUFFICES ASSUME Bad # {} PROVE FALSE
  <2>1. Cardinality(S) \in Nat
    BY FS_CardinalityType
  <2>2. S \in Sets(Cardinality(S))
    OBVIOUS
  <2>3. QED
    BY <1>1, <2>1, <2>2
<1>2. PICK n \in Bad : \A m \in Bad : n <= m
  <2>1. Bad \subseteq Nat
    OBVIOUS
  <2> HIDE DEF Bad
  <2>2. QED
    BY <1>1, <2>1, LeastNumber
<1>3. PICK R \in Sets(n) : ~ \E f : Ascending(f, n, R)
  OBVIOUS
<1>4. n \in Nat /\ R \subseteq Nat /\ IsFiniteSet(R) /\ Cardinality(R) = n
  OBVIOUS
<1>5. n # 0
  <2>1. SUFFICES ASSUME n = 0 PROVE FALSE
    OBVIOUS
  <2>2. Ascending([i \in 1..0 |-> i], 0, R)
    BY DEF Ascending
  <2>3. QED
    BY <1>3, <2>1, <2>2
<1>6. R # {}
  BY <1>4, <1>5, FS_EmptySet
<1>7. PICK least \in R : \A y \in R : least <= y
  BY <1>4, <1>6, LeastNumber
<1>8. n - 1 \in Nat /\ R \ {least} \in Sets(n - 1)
  BY <1>4, <1>5, <1>7, FS_RemoveElement
<1>9. n - 1 \notin Bad
  BY <1>2, <1>4
<1>10. PICK g : Ascending(g, n - 1, R \ {least})
  BY <1>8, <1>9
<1> HIDE DEF Bad, Sets
<1> DEFINE f == [i \in 1..n |-> IF i = 1 THEN least ELSE g[i - 1]]
<1>11. \A i \in 1..n : i # 1 => g[i - 1] \in R \ {least}
  BY <1>4, <1>10 DEF Ascending
<1>12. f \in [1..n -> R]
  BY <1>7, <1>11
<1>13. ASSUME NEW i \in 1..n, NEW j \in 1..n, i < j PROVE f[i] < f[j]
  <2>1. j # 1 /\ f[j] = g[j - 1]
    BY <1>4, <1>13
  <2>2. CASE i = 1
    <3>1. g[j - 1] \in R /\ g[j - 1] # least /\ f[i] = least
      BY <1>11, <2>1, <2>2
    <3>2. least \in Nat /\ g[j - 1] \in Nat /\ least <= g[j - 1]
      BY <1>4, <1>7, <3>1
    <3> HIDE DEF f
    <3>3. QED
      BY <2>1, <3>1, <3>2
  <2>3. CASE i # 1
    <3>1. i - 1 \in 1..(n - 1) /\ j - 1 \in 1..(n - 1) /\ i - 1 < j - 1 /\ f[i] = g[i - 1]
      BY <1>4, <1>13, <2>3
    <3>2. g[i - 1] < g[j - 1]
      BY <1>10, <3>1 DEF Ascending
    <3>3. QED
      BY <2>1, <3>1, <3>2
  <2>4. QED
    BY <2>2, <2>3
<1> HIDE DEF f
<1>14. Ascending(f, n, R)
  BY <1>12, <1>13 DEF Ascending
<1>15. QED
  BY <1>3, <1>14

\* A listing of a set has its length and its elements.
LEMMA SeqsListing ==
    ASSUME NEW S, IsFiniteSet(S), NEW ids \in SetToSeqs(S)
    PROVE  ids \in Seq(S) /\ Len(ids) = Cardinality(S) /\ ToSet(ids) = S
<1> DEFINE n == Cardinality(S)
<1>1. n \in Nat
  BY FS_CardinalityType
<1>2. ids \in [1..n -> S] /\ \A i, j \in 1..n : i # j => ids[i] # ids[j]
  BY DEF SetToSeqs
<1> HIDE DEF n
<1>3. ids \in Injection(1..n, S)
  BY <1>2 DEF Injection, IsInjective
<1>4. Cardinality(1..n) = n
  BY <1>1, FS_Interval
<1>5. ids \in Surjection(1..n, S)
  BY <1>3, <1>4, FS_Injection DEF n
<1>6. ToSet(ids) = S
  BY <1>2, <1>5 DEF Surjection, ToSet
<1>7. ids \in Seq(S) /\ Len(ids) = n
  BY <1>1, <1>2
<1>8. QED
  BY <1>6, <1>7 DEF n

LEMMA ListingOrdered ==
    ASSUME NEW S \in SUBSET Nat, IsFiniteSet(S)
    PROVE  Listing(S) \in Seq(S) /\ Len(Listing(S)) = Cardinality(S) /\ ToSet(Listing(S)) = S
<1> DEFINE n == Cardinality(S)
<1>1. PICK f : Ascending(f, n, S)
  BY AscendingExists
<1>2. n \in Nat
  BY FS_CardinalityType
<1> HIDE DEF n
<1>3. f \in [1..n -> S] /\ \A i, j \in 1..n : i # j => f[i] # f[j]
  <2>1. f \in [1..n -> S] /\ \A i, j \in 1..n : i < j => f[i] < f[j]
    BY <1>1 DEF Ascending
  <2>2. ASSUME NEW i \in 1..n, NEW j \in 1..n, i # j PROVE f[i] # f[j]
    <3>1. i < j \/ j < i
      BY <1>2, <2>2
    <3>2. f[i] < f[j] \/ f[j] < f[i]
      BY <2>1, <3>1
    <3>3. f[i] \in Nat /\ f[j] \in Nat
      BY <2>1
    <3>4. QED
      BY <3>2, <3>3
  <2>3. QED
    BY <2>1, <2>2
<1>4. f \in SetToSeqs(S)
  BY <1>3 DEF SetToSeqs, n
<1>5. \A i, j \in DOMAIN f : i < j => f[i] < f[j]
  BY <1>1 DEF Ascending
<1>6. Listing(S) \in SetToSeqs(S)
  BY <1>4, <1>5 DEF Listing
<1>7. QED
  BY <1>6, SeqsListing

LEMMA IntervalSize ==
    ASSUME NEW n \in Nat
    PROVE  IsFiniteSet(1..n) /\ Cardinality(1..n) = n
  BY FS_Interval

LEMMA SeqWider ==
    ASSUME NEW S, NEW T, S \subseteq T, NEW s \in Seq(S)
    PROVE  s \in Seq(T)
<1>1. s \in [1..Len(s) -> T] /\ Len(s) \in Nat
  OBVIOUS
<1>2. QED
  BY <1>1

\* The messages for the calls: the skipped ones, then the others.
LEMMA AllAnswered ==
    ASSUME calls \in Seq(Names \cup {"other"}), NEW ids,
           ids = Skipped \o Listing(tool_call_definitions)
    PROVE  Len(ids) = Len(calls) /\ ToSet(ids) = DOMAIN calls
<1> DEFINE all == DOMAIN calls
           run == tool_call_definitions
           first == Listing(all \ run)
           last == Listing(run)
<1>1. all = 1..Len(calls) /\ Len(calls) \in Nat /\ run \subseteq all
  BY DEF tool_call_definitions
<1>2. IsFiniteSet(all) /\ Cardinality(all) = Len(calls) /\ all \subseteq Nat
  BY <1>1, IntervalSize
<1> HIDE DEF all, run
<1>3. IsFiniteSet(run) /\ IsFiniteSet(all \ run) /\ Cardinality(run) \in Nat
  BY <1>1, <1>2, FS_Subset, FS_Difference, FS_CardinalityType
<1>4. all \cap run = run
  BY <1>1
<1>5. Cardinality(all \ run) = Len(calls) - Cardinality(run)
  <2>1. Cardinality(all \ run) = Cardinality(all) - Cardinality(all \cap run)
    BY <1>2, FS_Difference
  <2>2. QED
    BY <1>2, <1>4, <2>1
<1>6. /\ first \in Seq(all \ run) /\ Len(first) = Cardinality(all \ run) /\ ToSet(first) = all \ run
      /\ last \in Seq(run) /\ Len(last) = Cardinality(run) /\ ToSet(last) = run
  BY <1>1, <1>2, <1>3, ListingOrdered
<1>7. ids = first \o last
  BY DEF Skipped, all, run
<1> HIDE DEF first, last
<1>8. first \in Seq(Nat) /\ last \in Seq(Nat)
  <2>1. (all \ run) \subseteq Nat /\ run \subseteq Nat
    BY <1>1, <1>2
  <2>2. QED
    BY <1>6, <2>1, SeqWider
<1>9. Len(ids) = Len(first) + Len(last)
  BY <1>7, <1>8
<1>10. ToSet(ids) = ToSet(first) \cup ToSet(last)
  <2>1. /\ DOMAIN ids = 1..(Len(first) + Len(last))
        /\ \A i \in 1..Len(first) : ids[i] = first[i]
        /\ \A i \in 1..Len(last) : ids[Len(first) + i] = last[i]
        /\ \A i \in (Len(first) + 1)..(Len(first) + Len(last)) : ids[i] = last[i - Len(first)]
    BY <1>7, <1>8
  <2>2. DOMAIN first = 1..Len(first) /\ DOMAIN last = 1..Len(last)
        /\ Len(first) \in Nat /\ Len(last) \in Nat
    BY <1>8
  <2>3. ASSUME NEW x \in ToSet(ids) PROVE x \in ToSet(first) \cup ToSet(last)
    <3>1. PICK i \in DOMAIN ids : x = ids[i]
      BY <2>3 DEF ToSet
    <3>2. CASE i \in 1..Len(first)
      BY <2>1, <2>2, <3>1, <3>2 DEF ToSet
    <3>3. CASE i \notin 1..Len(first)
      <4>1. i \in (Len(first) + 1)..(Len(first) + Len(last)) /\ i - Len(first) \in 1..Len(last)
        BY <2>1, <2>2, <3>3
      <4>2. QED
        BY <2>1, <2>2, <3>1, <4>1 DEF ToSet
    <3>4. QED
      BY <3>2, <3>3
  <2>4. ASSUME NEW x \in ToSet(first) PROVE x \in ToSet(ids)
    <3>1. PICK i \in 1..Len(first) : x = first[i]
      BY <2>2, <2>4 DEF ToSet
    <3>2. i \in DOMAIN ids /\ x = ids[i]
      BY <2>1, <2>2, <3>1
    <3>3. QED
      BY <3>2 DEF ToSet
  <2>5. ASSUME NEW x \in ToSet(last) PROVE x \in ToSet(ids)
    <3>1. PICK i \in 1..Len(last) : x = last[i]
      BY <2>2, <2>5 DEF ToSet
    <3>2. Len(first) + i \in DOMAIN ids /\ x = ids[Len(first) + i]
      BY <2>1, <2>2, <3>1
    <3>3. QED
      BY <3>2 DEF ToSet
  <2>6. QED
    BY <2>3, <2>4, <2>5
<1>11. QED
  BY <1>1, <1>3, <1>5, <1>6, <1>9, <1>10 DEF all

-----------------------------------------------------------------------------
(* Steps *)

LEMMA MaxRounds == max_rounds \in Nat \ {0}
<1>1. \E x \in {max_iterations, mode_default} : \A y \in {max_iterations, mode_default} : x >= y
  BY RoundsAssumption
<1>2. /\ max_rounds \in {max_iterations, mode_default}
      /\ \A y \in {max_iterations, mode_default} : max_rounds >= y
  BY <1>1 DEF max_rounds, Max
<1>3. QED
  BY <1>2, RoundsAssumption

\* The limit of rounds is the same in every state.
LEMMA SameLimit == max_rounds' = max_rounds
  BY DEF max_rounds

LEMMA OneMore == ASSUME NEW n \in Nat PROVE n + 1 \in Nat
  OBVIOUS

LEMMA BelowTheLast ==
    ASSUME NEW m \in Nat \ {0}, NEW r \in 1..m
    PROVE  /\ r # m => r < m
           /\ r <= m
           /\ r < m => r \in 1..(m - 1) /\ r + 1 \in 1..m
  OBVIOUS

LEMMA CallsType ==
    ASSUME NEW cs \in BoundedSeq(Names \cup {"other"}, MaxItems)
    PROVE  cs \in Seq(Names \cup {"other"})
  BY ItemsAssumption DEF BoundedSeq, SeqOf

\* The prompt is being put together, and the loop has not begun.
LEMMA Prepares ==
    ASSUME LoopInv, pc \in Preparing, pc' \in Preparing \cup {"over", "down"},
           UNCHANGED <<offers, round, loop, offload>>
    PROVE  LoopInv'
<1> USE MaxRounds DEF loop, offload, Preparing, Looping
<1>1. TypeOK'
  BY DEF LoopInv, TypeOK
<1>2. Counted'
  BY DEF LoopInv, Counted
<1>3. Kept'
  BY DEF LoopInv, Kept
<1>4. Answered'
  BY DEF LoopInv, Answered
<1>5. QED
  BY <1>1, <1>2, <1>3, <1>4 DEF LoopInv

\* However the request ends, the files go.
LEMMA Leaves ==
    ASSUME LoopInv, pc' = "over", cleanup, UNCHANGED <<offers, round, calls, answered, executed>>,
           invoked' \in {invoked, invoked + 1}, invoked' <= max_rounds
    PROVE  LoopInv'
<1> USE MaxRounds DEF Preparing, Looping
<1>1. TypeOK'
  <2>1. invoked \in Nat
    BY DEF LoopInv, TypeOK
  <2>2. invoked' \in Nat
    BY <2>1, OneMore, Zenon
  <2>3. QED
    BY <2>2 DEF LoopInv, TypeOK, cleanup
<1>2. Counted'
  BY DEF LoopInv, Counted
<1>3. Kept'
  BY DEF LoopInv, Kept, cleanup
<1>4. Answered'
  BY DEF Answered
<1>5. QED
  BY <1>1, <1>2, <1>3, <1>4 DEF LoopInv

\* The model has been asked in this round.
LEMMA AskedOnce ==
    ASSUME LoopInv, pc = "llm"
    PROVE  round \in 1..max_rounds /\ invoked = round - 1 /\ invoked + 1 <= max_rounds
<1>1. round \in 1..max_rounds /\ invoked = round - 1
  BY DEF LoopInv, Counted, Looping
<1>2. QED
  BY <1>1, MaxRounds

\* The calls of a round get their messages, and output may go to files.
LEMMA RoundEnds ==
    ASSUME LoopInv, pc = "process", pc' = "round end",
           UNCHANGED <<offers, round, calls, invoked, registered>>,
           executed' \subseteq executed \cup {round},
           allowlist' \subseteq files', Len(answered') = Len(calls), ToSet(answered') = DOMAIN calls
    PROVE  LoopInv'
<1> USE MaxRounds DEF Preparing, Looping
<1>1. TypeOK'
  BY DEF LoopInv, TypeOK
<1>2. Counted'
  <2>1. round \in 1..max_rounds /\ round < max_rounds /\ invoked = round
    BY DEF LoopInv, Counted
  <2>2. round \in 1..(max_rounds - 1)
    BY <2>1, MaxRounds, BelowTheLast, Zenon
  <2>3. executed' \subseteq 1..(max_rounds - 1)
    BY <2>2 DEF LoopInv, Counted
  <2>4. QED
    <3>1. invoked' = round /\ round' = round /\ round <= max_rounds
      BY <2>1, MaxRounds, BelowTheLast, Zenon
    <3>2. QED
      BY <2>1, <2>3, <3>1, SameLimit, Zenon DEF Counted, Preparing, Looping
<1>3. Kept'
  BY DEF LoopInv, Kept
<1>4. Answered'
  BY DEF Answered
<1>5. QED
  BY <1>1, <1>2, <1>3, <1>4 DEF LoopInv

LEMMA LoopStep == LoopInv /\ [Next]_vars => LoopInv'
<1> SUFFICES ASSUME LoopInv, [Next]_vars PROVE LoopInv'
  OBVIOUS
<1> USE DEF Ends, loop, offload
<1>1. CASE prepare_prompt
  <2>1. pc = "prompt" /\ pc' \in {"over", "rag"} /\ UNCHANGED <<offers, round, loop, offload>>
    BY <1>1 DEF prepare_prompt
  <2>2. QED
    BY <2>1, Prepares DEF Preparing
<1>2. CASE prepare_rag
  BY <1>2, Prepares DEF prepare_rag, Preparing
<1>3. CASE select_skill
  BY <1>3, Prepares DEF select_skill, Preparing
<1>4. CASE take_history
  <2>1. pc = "history" /\ pc' \in {"over", "tools"} /\ UNCHANGED <<offers, round, loop, offload>>
    BY <1>4 DEF take_history, _build_final_prompt
  <2>2. QED
    BY <2>1, Prepares DEF Preparing
<1>5. CASE resolve_tools
  <2>1. /\ pc = "tools" /\ offers' \in [Names -> 0..2]
        /\ (pc' = "over" /\ UNCHANGED round) \/ (pc' = "llm" /\ round' = 1)
        /\ UNCHANGED <<calls, answered, executed, invoked, files, allowlist, registered>>
    BY <1>5 DEF resolve_tools
  <2>2. TypeOK'
    <3>1. pc' \in {"over", "llm"} /\ round' \in Nat
      BY <2>1 DEF LoopInv, TypeOK
    <3>2. QED
      BY <2>1, <3>1 DEF LoopInv, TypeOK, Preparing, Looping
  <2>3. Counted'
    <3>1. invoked = 0 /\ executed = {}
      BY <2>1 DEF LoopInv, Counted, Preparing
    <3>2. 1 \in 1..max_rounds /\ 0 <= max_rounds
      BY MaxRounds
    <3>3. QED
      <4>1. CASE pc' = "over"
        BY <2>1, <3>1, <3>2, <4>1, SameLimit DEF Counted, Preparing, Looping
      <4>2. CASE pc' = "llm" /\ round' = 1
        <5>1. round' - 1 = 0
          BY <4>2
        <5>2. invoked' = 0 /\ executed' = {}
          BY <2>1, <3>1
        <5>3. pc' \notin Preparing /\ pc' \notin {"process", "round end"}
          BY <4>2 DEF Preparing
        <5>4. QED
          BY <3>2, <4>2, <5>1, <5>2, <5>3, SameLimit, Zenon DEF Counted
      <4>3. QED
        BY <2>1, <4>1, <4>2
  <2>4. Kept'
    BY <2>1 DEF LoopInv, Kept, Preparing
  <2>5. Answered'
    BY <2>1 DEF LoopInv, Answered, Preparing
  <2>6. QED
    BY <2>2, <2>3, <2>4, <2>5 DEF LoopInv
<1>6. CASE llm_answers
  BY <1>6, AskedOnce, Leaves DEF llm_answers, Asked
<1>7. CASE llm_raises
  BY <1>7, AskedOnce, Leaves DEF llm_raises, Asked
<1>8. CASE llm_calls_tools
  <2>1. /\ pc = "llm" /\ invoked' = invoked + 1 /\ UNCHANGED <<offers, executed>>
    BY <1>8 DEF llm_calls_tools, Asked
  <2>2. CASE /\ pc' = "over" /\ cleanup /\ UNCHANGED <<round, calls, answered>>
    BY <2>1, <2>2, AskedOnce, Leaves
  <2>3. CASE /\ ~is_final_round /\ UNCHANGED <<round, files, allowlist, registered>>
             /\ \/ pc' = "round end" /\ UNCHANGED <<calls, answered>>
                \/ pc' = "process" /\ calls' \in Seq(Names \cup {"other"})
    <3>1. TypeOK'
      <4>1. pc' \in Looping
        BY <2>3 DEF Looping
      <4>2. invoked \in Nat
        BY DEF LoopInv, TypeOK
      <4>3. pc' \in Looping /\ invoked' \in Nat
        BY <2>1, <4>1, <4>2, OneMore, Zenon
      <4>4. calls' \in Seq(Names \cup {"other"})
        BY <2>3 DEF LoopInv, TypeOK
      <4>5. QED
        BY <2>1, <2>3, <4>3, <4>4 DEF LoopInv, TypeOK
    <3>2. Counted'
      <4>1. round \in 1..max_rounds /\ invoked = round - 1
        BY <2>1, AskedOnce
      <4>2. invoked' = round
        BY <2>1, <4>1
      <4>3. round \in 1..max_rounds /\ invoked' = round /\ round # max_rounds
        BY <2>3, <4>1, <4>2, Zenon DEF is_final_round
      <4>4. round < max_rounds
        BY <4>3, MaxRounds, BelowTheLast, Zenon
      <4>5. round <= max_rounds
        BY <4>3, MaxRounds, BelowTheLast, Zenon
      <4>6. pc' \in {"process", "round end"} /\ pc' # "llm" /\ pc' \notin Preparing
        BY <2>3 DEF Preparing
      <4>7. QED
        BY <2>1, <2>3, <4>3, <4>4, <4>5, <4>6, SameLimit, Zenon DEF LoopInv, Counted, Preparing, Looping
    <3>3. Kept'
      BY <2>1, <2>3 DEF LoopInv, Kept, Preparing
    <3>4. Answered'
      BY <2>1, <2>3 DEF LoopInv, Answered, Preparing
    <3>5. QED
      BY <3>1, <3>2, <3>3, <3>4 DEF LoopInv
  <2>4. QED
    <3>1. PICK cs \in BoundedSeq(Names \cup {"other"}, MaxItems) :
          \/ pc' = "over" /\ cleanup /\ UNCHANGED <<round, calls, answered>>
          \/ /\ ~is_final_round /\ UNCHANGED <<round, files, allowlist, registered>>
             /\ \/ pc' = "round end" /\ UNCHANGED <<calls, answered>>
                \/ pc' = "process" /\ calls' = cs
      BY <1>8 DEF llm_calls_tools
    <3>2. cs \in Seq(Names \cup {"other"})
      BY CallsType
    <3>3. QED
      BY <2>2, <2>3, <3>1, <3>2
<1>9. CASE skip_tools
  <2>1. /\ pc = "process" /\ pc' = "round end"
        /\ UNCHANGED <<offers, round, calls, invoked, registered, executed, files, allowlist>>
        /\ answered' = Skipped \o Listing(tool_call_definitions)
    BY <1>9 DEF skip_tools, Answer
  <2>2. allowlist' \subseteq files'
    BY <2>1 DEF LoopInv, Kept
  <2>3. QED
    BY <2>1, <2>2, RoundEnds, AllAnswered DEF LoopInv, TypeOK
<1>10. CASE execute_tools
  <2>1. /\ pc = "process" /\ pc' = "round end"
        /\ UNCHANGED <<offers, round, calls, invoked, registered>>
        /\ executed' = executed \cup {round}
    BY <1>10 DEF execute_tools
  <2>2. /\ answered' = Skipped \o Listing(tool_call_definitions)
        /\ \E created : \E saved \in SUBSET created :
              /\ files' = files \cup {<<round, i>> : i \in created}
              /\ allowlist' = allowlist \cup {<<round, i>> : i \in saved}
    BY <1>10 DEF execute_tools, Answer
  <2>3. allowlist' \subseteq files'
    BY <2>2 DEF LoopInv, Kept
  <2>4. QED
    BY <2>1, <2>2, <2>3, RoundEnds, AllAnswered DEF LoopInv, TypeOK
<1>11. CASE tools_fail
  BY <1>11, Leaves DEF tools_fail, LoopInv, Counted
<1>12. CASE next_round
  <2>1. /\ pc = "round end" /\ pc' = "llm" /\ round' = round + 1 /\ register_retrieval_tools
        /\ UNCHANGED <<calls, answered, executed, invoked, files, allowlist>>
    BY <1>12 DEF next_round
  <2>2. /\ offers' \in [Names -> 0..2] /\ registered' \in BOOLEAN
        /\ allowlist # {} => registered'
    BY <1>12, <2>1 DEF next_round, register_retrieval_tools, LoopInv, TypeOK
  <2>3. TypeOK'
    <3>1. pc' \in Looping
      BY <2>1 DEF Looping
    <3>2. round \in Nat
      BY DEF LoopInv, TypeOK
    <3>3. pc' \in Looping /\ round' \in Nat
      BY <2>1, <3>1, <3>2, OneMore, Zenon
    <3>4. QED
      BY <2>1, <2>2, <3>3 DEF LoopInv, TypeOK
  <2>4. Counted'
    <3>1. round \in 1..max_rounds /\ round < max_rounds /\ invoked = round
      BY <2>1 DEF LoopInv, Counted, Looping
    <3>2. round + 1 \in 1..max_rounds /\ invoked = (round + 1) - 1
      BY <3>1, MaxRounds
    <3>3. QED
      BY <2>1, <3>1, <3>2 DEF LoopInv, Counted, max_rounds, Preparing, Looping
  <2>5. Kept'
    BY <2>1, <2>2 DEF LoopInv, Kept, Preparing
  <2>6. Answered'
    BY <2>1 DEF LoopInv, Answered
  <2>7. QED
    BY <2>3, <2>4, <2>5, <2>6 DEF LoopInv
<1>13. CASE disconnect \/ restart
  BY <1>13, Leaves DEF disconnect, restart, LoopInv, Counted
<1>14. CASE crash
  <2>1. pc' = "down" /\ UNCHANGED <<offers, round, calls, answered, executed, invoked, files, allowlist, registered>>
    BY <1>14 DEF crash
  <2>2. TypeOK' /\ Answered'
    BY <2>1 DEF LoopInv, TypeOK, Answered, Preparing, Looping
  <2>3. Counted'
    BY <2>1 DEF LoopInv, Counted, max_rounds, Preparing, Looping
  <2>4. Kept'
    BY <2>1 DEF LoopInv, Kept, Preparing
  <2>5. QED
    BY <2>2, <2>3, <2>4 DEF LoopInv
<1>15. CASE Over \/ UNCHANGED vars
  <2>1. UNCHANGED vars
    BY <1>15 DEF Over
  <2>2. TypeOK' /\ Answered'
    BY <2>1 DEF vars, LoopInv, TypeOK, Answered
  <2>3. Counted'
    BY <2>1 DEF vars, LoopInv, Counted, max_rounds
  <2>4. Kept'
    BY <2>1 DEF vars, LoopInv, Kept
  <2>5. QED
    BY <2>2, <2>3, <2>4 DEF LoopInv
<1>16. QED
  BY <1>1, <1>2, <1>3, <1>4, <1>5, <1>6, <1>7, <1>8, <1>9, <1>10, <1>11, <1>12, <1>13,
     <1>14, <1>15 DEF Next, Step

LEMMA LoopInitial == Init => LoopInv
<1> SUFFICES ASSUME Init PROVE LoopInv
  OBVIOUS
<1> USE DEF Init, Preparing, Looping
<1>1. TypeOK
  <2>1. calls \in Seq(Names \cup {"other"})
    OBVIOUS
  <2>2. offers \in [Names -> 0..2]
    OBVIOUS
  <2>3. pc \in Preparing /\ registered \in BOOLEAN
    OBVIOUS
  <2>4. QED
    BY <2>1, <2>2, <2>3 DEF TypeOK
<1>2. Counted
  BY MaxRounds DEF Counted
<1>3. Kept
  BY DEF Kept
<1>4. Answered
  BY DEF Answered, ToSet
<1>5. QED
  BY <1>1, <1>2, <1>3, <1>4 DEF LoopInv

LEMMA LoopInvariant == Spec => []LoopInv
  BY LoopInitial, LoopStep, PTL DEF Spec

-----------------------------------------------------------------------------
(* What the loop guarantees *)

\* Whatever the model keeps asking for, _iterate_with_tools asks it at most as
\* often as _get_max_iterations allows, and runs no tool in the last round.
THEOREM BoundedLoop == Spec => []LoopIsBounded
<1>1. LoopInv => LoopIsBounded
  BY DEF LoopInv, Counted, LoopIsBounded
<1>2. QED
  BY <1>1, LoopInvariant, PTL

\* _process_tool_calls_for_round leaves no call of the model's message without
\* its answer, and answers none twice, before the model is asked again.
THEOREM EveryCallAnswered == Spec => []CallsAnswered
<1>1. LoopInv => CallsAnswered
  BY DEF LoopInv, Answered, CallsAnswered
<1>2. QED
  BY <1>1, LoopInvariant, PTL

\* When the model is asked again in a round in which it may call tools, offloaded
\* output is on disk, allowed, and the tools of build_retrieval_tools to read it
\* are resolved under their own names, whatever MCP tools are called, unless
\* two of them have such a name; files that could not be written do not matter.
THEOREM OffloadedReachable == Spec => []OffloadedIsReachable
<1>1. LoopInv => OffloadedIsReachable
  BY DEF LoopInv, Kept, OffloadedIsReachable, callable, retrieval_tools
<1>2. QED
  BY <1>1, LoopInvariant, PTL

\* offload_manager.cleanup, or cleanup_offload_storage after a crash, has removed
\* the files of a request that is over, those that were only begun and are in no
\* allowlist too, or has logged that it could not.
THEOREM NoFileLeft == Spec => []NoFileLeftBehind
<1>1. LoopInv => NoFileLeftBehind
  BY DEF LoopInv, Kept, NoFileLeftBehind
<1>2. QED
  BY <1>1, LoopInvariant, PTL

-----------------------------------------------------------------------------
(* Sums over texts *)

\* What g makes of a, one step of F after the other.
Iterates(g, a, F, n) ==
    /\ g \in [0..n -> Int]
    /\ g[0] = a
    /\ \A k \in 1..n : g[k] = F[k][g[k - 1]]

LEMMA IterationExists ==
    ASSUME NEW n \in Nat, NEW a \in Int, NEW F \in [1..n -> [Int -> Int]]
    PROVE  \E g : Iterates(g, a, F, n)
<1> DEFINE T == {m \in 0..n : ~\E g : Iterates(g, a, F, m)}
<1> SUFFICES ASSUME T # {} PROVE FALSE
  <2>1. n \in 0..n
    OBVIOUS
  <2>2. QED
    BY <2>1, Zenon
<1>1. T \subseteq Nat
  OBVIOUS
<1>2. PICK m \in T : \A y \in T : m <= y
  BY <1>1, LeastNumber
<1>3. CASE m = 0
  <2>1. PICK g : g = [i \in 0..m |-> a]
    OBVIOUS
  <2>2. Iterates(g, a, F, m)
    BY <1>3, <2>1 DEF Iterates
  <2>3. QED
    BY <2>2
<1>4. CASE m # 0
  <2>1. m - 1 \in 0..n /\ m - 1 \notin T /\ m \in 1..n
    <3>1. m \in 0..n
      OBVIOUS
    <3> HIDE DEF T
    <3>2. QED
      BY <1>1, <1>2, <1>4, <3>1
  <2>2. PICK g : Iterates(g, a, F, m - 1)
    BY <2>1
  <2>3. PICK x \in Int : x = F[m][g[m - 1]]
    <3>1. g[m - 1] \in Int
      BY <2>1, <2>2 DEF Iterates
    <3>2. QED
      BY <2>1, <3>1
  <2>4. PICK h : h = [i \in 0..m |-> IF i = m THEN x ELSE g[i]]
    OBVIOUS
  <2>5. ASSUME NEW i \in 0..m, i # m PROVE i \in 0..(m - 1) /\ h[i] = g[i] /\ g[i] \in Int
    <3>1. i \in 0..(m - 1)
      BY <2>1, <2>5
    <3>2. QED
      BY <2>2, <2>4, <2>5, <3>1 DEF Iterates
  <2>6. h \in [0..m -> Int]
    BY <2>4, <2>5
  <2>7. h[0] = a
    BY <2>1, <2>2, <2>4, <1>4 DEF Iterates
  <2>8. ASSUME NEW k \in 1..m PROVE h[k] = F[k][h[k - 1]]
    <3>1. k - 1 \in 0..m /\ k - 1 # m /\ k \in 0..m
      BY <2>1
    <3>2. h[k - 1] = g[k - 1]
      BY <2>5, <3>1
    <3>3. CASE k = m
      BY <2>3, <2>4, <3>1, <3>2, <3>3
    <3>4. CASE k # m
      <4>1. k \in 1..(m - 1) /\ h[k] = g[k]
        BY <2>1, <2>5, <3>1, <3>4
      <4>2. QED
        BY <2>2, <3>2, <4>1 DEF Iterates
    <3>5. QED
      BY <3>3, <3>4
  <2>9. Iterates(h, a, F, m)
    BY <2>6, <2>7, <2>8 DEF Iterates
  <2>10. QED
    BY <2>9
<1>5. QED
  BY <1>3, <1>4

\* Running totals are numbers, and there are such totals.
Totals(g, w, n) == g = [k \in 0..n |-> IF k = 0 THEN 0 ELSE g[k - 1] + w[k]]

LEMMA TotalsExist ==
    ASSUME NEW n \in Nat, NEW w \in [1..n -> Int]
    PROVE  \E g : Totals(g, w, n)
<1>1. PICK F : F = [k \in 1..n |-> [x \in Int |-> x + w[k]]]
  OBVIOUS
<1>2. \A k \in 1..n, x \in Int : F[k][x] = x + w[k] /\ x + w[k] \in Int
  BY <1>1
<1>3. F \in [1..n -> [Int -> Int]]
  BY <1>1
<1>4. PICK g : Iterates(g, 0, F, n)
  <2>1. 0 \in Int
    OBVIOUS
  <2>2. QED
    BY <1>3, <2>1, IterationExists, Zenon
<1>5. ASSUME NEW k \in 0..n PROVE g[k] = IF k = 0 THEN 0 ELSE g[k - 1] + w[k]
  <2>1. CASE k = 0
    BY <1>4, <2>1 DEF Iterates
  <2>2. CASE k # 0
    <3>1. k \in 1..n /\ k - 1 \in 0..n
      BY <2>2
    <3>2. g[k - 1] \in Int /\ g[k] = F[k][g[k - 1]]
      BY <1>4, <3>1 DEF Iterates
    <3>3. QED
      BY <1>2, <2>2, <3>1, <3>2
  <2>3. QED
    BY <2>1, <2>2
<1>6. g = [k \in 0..n |-> IF k = 0 THEN 0 ELSE g[k - 1] + w[k]]
  BY <1>4, <1>5 DEF Iterates
<1>7. QED
  BY <1>6 DEF Totals

LEMMA TotalsType ==
    ASSUME NEW n \in Nat, NEW w \in [1..n -> Int], NEW g, Totals(g, w, n)
    PROVE  /\ g \in [0..n -> Int] /\ g[0] = 0
           /\ \A k \in 1..n : k - 1 \in 0..n /\ g[k] = g[k - 1] + w[k]
<1>1. /\ DOMAIN g = 0..n /\ g = [k \in 0..n |-> g[k]] /\ g[0] = 0
      /\ \A k \in 1..n : k - 1 \in 0..n /\ g[k] = g[k - 1] + w[k]
  <2>1. \A k \in 1..n : k \in 0..n /\ k # 0 /\ k - 1 \in 0..n
    OBVIOUS
  <2>2. 0 \in 0..n
    OBVIOUS
  <2>3. QED
    BY <2>1, <2>2, Zenon DEF Totals
<1> DEFINE T == {k \in 0..n : g[k] \notin Int}
<1>2. T = {}
  <2> SUFFICES ASSUME T # {} PROVE FALSE
    OBVIOUS
  <2>1. PICK m \in T : \A y \in T : m <= y
    <3>1. T \subseteq Nat
      OBVIOUS
    <3>2. QED
      BY <3>1, LeastNumber
  <2>2. m # 0
    BY <1>1
  <2>3. m \in 1..n /\ m - 1 \in 0..n /\ m - 1 \notin T
    BY <2>1, <2>2
  <2>4. g[m - 1] \in Int /\ w[m] \in Int /\ g[m] = g[m - 1] + w[m]
    BY <1>1, <2>3
  <2>5. QED
    BY <2>4
<1>3. g \in [0..n -> Int]
  BY <1>1, <1>2
<1>4. QED
  BY <1>1, <1>3

\* What SumSeq returns.
LEMMA SumSeqTotals ==
    ASSUME NEW n \in Nat, NEW s \in [1..n -> Int]
    PROVE  \E g : /\ Totals(g, [k \in 1..n |-> s[n - k + 1]], n)
                  /\ SumSeq(s) = g[n]
<1>1. PICK w : w = [k \in 1..n |-> s[n - k + 1]]
  OBVIOUS
<1>2. w \in [1..n -> Int]
  <2>1. \A k \in 1..n : n - k + 1 \in 1..n
    OBVIOUS
  <2>2. QED
    BY <1>1, <2>1
<1>3. Len(s) = n
  OBVIOUS
<1>4. \A g : Totals(g, w, n) <=> g = [k \in 0..n |-> IF k = 0 THEN 0 ELSE g[k - 1] + s[n - k + 1]]
  <2> TAKE g
  <2>1. \A k \in 0..n : k # 0 => k \in 1..n
    OBVIOUS
  <2>2. \A k \in 0..n : k # 0 => w[k] = s[n - k + 1]
    BY <1>1, <2>1
  <2>3. [k \in 0..n |-> IF k = 0 THEN 0 ELSE g[k - 1] + w[k]]
           = [k \in 0..n |-> IF k = 0 THEN 0 ELSE g[k - 1] + s[n - k + 1]]
    BY <2>2
  <2>4. QED
    BY <2>3, Zenon DEF Totals
<1>5. \E g : g = [k \in 0..n |-> IF k = 0 THEN 0 ELSE g[k - 1] + s[n - k + 1]]
  BY <1>2, <1>4, TotalsExist
<1>6. PICK g : /\ g = [k \in 0..n |-> IF k = 0 THEN 0 ELSE g[k - 1] + s[n - k + 1]]
               /\ SumSeq(s) = g[n]
  BY <1>3, <1>5, Zenon DEF SumSeq
<1>7. QED
  BY <1>1, <1>4, <1>6

LEMMA CountTokens == \A n \in Int : count_tokens(n) \in Int
  BY DEF count_tokens

\* What the texts of a sequence add up to, whatever they are.
LEMMA CountedTotals ==
    ASSUME NEW n \in Nat, NEW t \in [1..n -> Int]
    PROVE  \E g, w : /\ w = [k \in 1..n |-> count_tokens(t[n - k + 1])]
                     /\ w \in [1..n -> Int] /\ Totals(g, w, n) /\ counted(t) = g[n]
<1>1. PICK s : s = [i \in 1..n |-> count_tokens(t[i])]
  OBVIOUS
<1>2. s \in [1..n -> Int]
  BY <1>1, CountTokens
<1>3. counted(t) = SumSeq(s)
  BY <1>1 DEF counted
<1>4. PICK w : w = [k \in 1..n |-> s[n - k + 1]]
  OBVIOUS
<1>5. PICK g : Totals(g, w, n) /\ SumSeq(s) = g[n]
  BY <1>2, <1>4, SumSeqTotals
<1>6. \A k \in 1..n : n - k + 1 \in 1..n
  OBVIOUS
<1>7. w = [k \in 1..n |-> count_tokens(t[n - k + 1])] /\ w \in [1..n -> Int]
  BY <1>1, <1>2, <1>4, <1>6
<1>8. QED
  BY <1>3, <1>5, <1>7

LEMMA CountedType ==
    ASSUME NEW n \in Nat, NEW t \in [1..n -> Int]
    PROVE  counted(t) \in Int
<1>1. PICK g, w : w \in [1..n -> Int] /\ Totals(g, w, n) /\ counted(t) = g[n]
  BY CountedTotals
<1>2. g \in [0..n -> Int]
  BY <1>1, TotalsType
<1>3. QED
  BY <1>1, <1>2

LEMMA Greatest ==
    ASSUME NEW n \in Nat, NEW K \in SUBSET (0..n), K # {}
    PROVE  Max(K) \in K
<1>1. \E x \in K : \A y \in K : x >= y
  <2>1. PICK T : T = {n - k : k \in K}
    OBVIOUS
  <2>2. T \subseteq Nat /\ T # {}
    <3>1. \A k \in K : k \in 0..n /\ n - k \in Nat
      OBVIOUS
    <3>2. QED
      BY <2>1, <3>1
  <2>3. PICK m \in T : \A y \in T : m <= y
    BY <2>2, LeastNumber
  <2>4. PICK x \in K : m = n - x
    BY <2>1, <2>3
  <2>5. \A y \in K : n - x <= n - y
    BY <2>1, <2>3, <2>4
  <2>6. QED
    BY <2>5
<1>2. QED
  BY <1>1, Zenon DEF Max

\* The messages that limit_conversation_history keeps fit the limit.
LEMMA HistoryFits ==
    ASSUME NEW N \in Nat, NEW history \in [1..N -> Nat], NEW limit \in Int,
           NEW kept, kept = limit_conversation_history(history, limit)
    PROVE  counted(kept) \in Int /\ (limit >= 0 => counted(kept) <= limit)
<1>1. PICK wc : wc = [k \in 1..N |-> count_tokens(history[N - k + 1]) + 1]
  OBVIOUS
<1>2. \A k \in 1..N : N - k + 1 \in 1..N
  OBVIOUS
<1>3. wc \in [1..N -> Int]
  <2>1. \A k \in 1..N : count_tokens(history[N - k + 1]) \in Int
    BY <1>2, CountTokens
  <2>2. QED
    BY <1>1, <2>1
<1>4. \A g : Totals(g, wc, N) <=>
          g = [k \in 0..N |-> IF k = 0 THEN 0 ELSE g[k - 1] + (count_tokens(history[N - k + 1]) + 1)]
  <2> TAKE g
  <2>1. \A k \in 0..N : k # 0 => k \in 1..N
    OBVIOUS
  <2>2. \A k \in 0..N : k # 0 => wc[k] = count_tokens(history[N - k + 1]) + 1
    BY <1>1, <2>1
  <2>3. [k \in 0..N |-> IF k = 0 THEN 0 ELSE g[k - 1] + wc[k]]
           = [k \in 0..N |-> IF k = 0 THEN 0 ELSE g[k - 1] + (count_tokens(history[N - k + 1]) + 1)]
    BY <2>2
  <2>4. QED
    BY <2>3, Zenon DEF Totals
<1>5. \E g : g = [k \in 0..N |-> IF k = 0 THEN 0
                                 ELSE g[k - 1] + (count_tokens(history[N - k + 1]) + 1)]
  BY <1>3, <1>4, TotalsExist
<1>6. Len(history) = N
  OBVIOUS
<1>7. PICK g : /\ g = [k \in 0..N |-> IF k = 0 THEN 0
                                       ELSE g[k - 1] + (count_tokens(history[N - k + 1]) + 1)]
               /\ kept = SubSeq(history, N - Max({k \in 0..N : \A j \in 1..k : g[j] <= limit}) + 1, N)
  <2> DEFINE G == CHOOSE g : g = [k \in 0..Len(history) |->
                 IF k = 0 THEN 0
                 ELSE g[k - 1] + (count_tokens(history[Len(history) - k + 1]) + 1)]
  <2>1. kept = SubSeq(history,
                      Len(history) - Max({k \in 0..Len(history) : \A j \in 1..k : G[j] <= limit}) + 1,
                      Len(history))
    BY Zenon DEF limit_conversation_history
  <2>2. G = [k \in 0..Len(history) |->
                 IF k = 0 THEN 0
                 ELSE G[k - 1] + (count_tokens(history[Len(history) - k + 1]) + 1)]
    <3>1. \E g : g = [k \in 0..Len(history) |->
                       IF k = 0 THEN 0
                       ELSE g[k - 1] + (count_tokens(history[Len(history) - k + 1]) + 1)]
      BY <1>5, <1>6
    <3>2. QED
      BY <3>1, Zenon
  <2> HIDE DEF G
  <2>3. QED
    BY <1>6, <2>1, <2>2
<1>8. Totals(g, wc, N)
  BY <1>4, <1>7
<1>9. /\ g \in [0..N -> Int] /\ g[0] = 0
      /\ \A k \in 1..N : k - 1 \in 0..N /\ g[k] = g[k - 1] + wc[k]
  BY <1>3, <1>8, TotalsType
<1>10. PICK n \in 0..N : kept = SubSeq(history, N - n + 1, N) /\ \A j \in 1..n : g[j] <= limit
  <2>1. PICK K : K = {k \in 0..N : \A j \in 1..k : g[j] <= limit}
    OBVIOUS
  <2>2. K \in SUBSET (0..N) /\ 0 \in K
    BY <2>1
  <2>3. Max(K) \in K
    BY <2>2, Greatest
  <2>4. kept = SubSeq(history, N - Max(K) + 1, N)
    BY <1>7, <2>1, Zenon
  <2>5. QED
    BY <2>1, <2>3, <2>4
<1>11. kept \in [1..n -> Int] /\ \A i \in 1..n : kept[i] = history[N - n + i]
  <2>1. history \in Seq(Nat)
    OBVIOUS
  <2>2. PICK m \in Int : m = N - n + 1
    OBVIOUS
  <2>3. m \in 1..(N + 1) /\ N \in (m - 1)..N /\ N - m + 1 = n
    BY <2>2
  <2>4. /\ kept \in Seq(Nat) /\ Len(kept) = n
        /\ \A i \in 1..n : kept[i] = history[m + i - 1]
    BY <1>6, <1>10, <2>1, <2>2, <2>3, SubSeqProperties
  <2>5. \A i \in 1..n : m + i - 1 = N - n + i
    BY <2>2
  <2>6. kept \in [1..n -> Int]
    BY <2>4
  <2>7. QED
    BY <2>4, <2>5, <2>6
<1>12. PICK h, v : /\ v = [k \in 1..n |-> count_tokens(kept[n - k + 1])]
                   /\ v \in [1..n -> Int] /\ Totals(h, v, n) /\ counted(kept) = h[n]
  <2>1. n \in Nat
    OBVIOUS
  <2>2. QED
    BY <1>11, <2>1, CountedTotals
<1>13. /\ h \in [0..n -> Int] /\ h[0] = 0
       /\ \A k \in 1..n : k - 1 \in 0..n /\ h[k] = h[k - 1] + v[k]
  <2>1. n \in Nat
    OBVIOUS
  <2>2. QED
    BY <1>12, <2>1, TotalsType
<1>14. ASSUME NEW k \in 1..n PROVE wc[k] = v[k] + 1
  <2>1. n - k + 1 \in 1..n /\ N - n + (n - k + 1) = N - k + 1 /\ k \in 1..N
    BY <1>10
  <2>2. kept[n - k + 1] = history[N - k + 1]
    BY <1>11, <2>1
  <2>3. QED
    BY <1>1, <1>12, <2>1, <2>2
<1>15. \A k \in 0..n : h[k] <= g[k]
  <2> DEFINE T == {k \in 0..n : ~(h[k] <= g[k])}
  <2> SUFFICES ASSUME T # {} PROVE FALSE
    OBVIOUS
  <2>1. PICK m \in T : \A y \in T : m <= y
    <3>1. T \subseteq Nat
      BY <1>10
    <3>2. QED
      BY <3>1, LeastNumber
  <2>2. m # 0
    BY <1>9, <1>13
  <2>3. m \in 1..n /\ m \in 1..N /\ m - 1 \in 0..n /\ m - 1 \in 0..N /\ m - 1 \notin T
    BY <1>10, <2>1, <2>2
  <2>4. h[m - 1] <= g[m - 1] /\ h[m - 1] \in Int /\ g[m - 1] \in Int /\ v[m] \in Int
    BY <1>9, <1>12, <1>13, <2>3
  <2>5. g[m] = g[m - 1] + (v[m] + 1) /\ h[m] = h[m - 1] + v[m] /\ ~(h[m] <= g[m])
    BY <1>9, <1>13, <1>14, <2>3
  <2>6. QED
    BY <2>4, <2>5
<1>16. h[n] \in Int /\ g[n] \in Int /\ h[n] <= g[n]
  BY <1>9, <1>10, <1>13, <1>15
<1>17. limit >= 0 => g[n] <= limit
  BY <1>9, <1>10
<1>18. QED
  BY <1>12, <1>16, <1>17

LEMMA MinOfTwo == \A a, b \in Int : Min({a, b}) \in Int
<1> SUFFICES ASSUME NEW a \in Int, NEW b \in Int PROVE Min({a, b}) \in Int
  OBVIOUS
<1>1. \E x \in {a, b} : \A y \in {a, b} : x <= y
  OBVIOUS
<1>2. Min({a, b}) \in {a, b}
  BY <1>1, Zenon DEF Min
<1>3. QED
  BY <1>2

\* What truncate_rag_context returns are lengths of texts.
LEMMA TruncatedType ==
    ASSUME NEW N \in Nat, NEW nodes \in [1..N -> BOOLEAN \X Nat], NEW limit \in Int,
           NEW chunks, chunks = truncate_rag_context(nodes, limit)
    PROVE  \E n \in Nat : chunks \in [1..n -> Int]
<1>1. Len(nodes) = N
  OBVIOUS
<1>2. PICK c : c = [i \in 1..N |-> count_tokens(nodes[i][2]) + 1]
  OBVIOUS
<1>3. \A i \in 1..N : nodes[i][2] \in Int /\ c[i] \in Int
  <2>1. \A i \in 1..N : nodes[i][2] \in Nat
    OBVIOUS
  <2>2. \A i \in 1..N : nodes[i][2] \in Int /\ count_tokens(nodes[i][2]) \in Int
    BY <2>1, CountTokens
  <2>3. QED
    BY <1>2, <2>2
<1>4. PICK F : F = [i \in 1..N |-> [x \in Int |-> x - Min({c[i], x})]]
  OBVIOUS
<1>5. \A i \in 1..N, x \in Int : F[i][x] = x - Min({c[i], x})
  BY <1>4
<1>6. F \in [1..N -> [Int -> Int]]
  <2>1. ASSUME NEW i \in 1..N, NEW x \in Int PROVE x - Min({c[i], x}) \in Int
    <3>1. PICK y \in Int : y = Min({c[i], x})
      BY <1>3, MinOfTwo
    <3>2. QED
      BY <3>1
  <2>2. QED
    BY <1>4, <2>1
<1> DEFINE Left(g) == g = [i \in 0..N |-> IF i = 0 THEN limit
                           ELSE g[i - 1] - Min({count_tokens(nodes[i][2]) + 1, g[i - 1]})]
<1>7. \E g : Left(g)
  <2>1. PICK g : Iterates(g, limit, F, N)
    BY <1>6, IterationExists, Zenon
  <2>2. ASSUME NEW i \in 0..N
        PROVE  g[i] = IF i = 0 THEN limit
                      ELSE g[i - 1] - Min({count_tokens(nodes[i][2]) + 1, g[i - 1]})
    <3>1. CASE i = 0
      BY <2>1, <3>1 DEF Iterates
    <3>2. CASE i # 0
      <4>1. i \in 1..N /\ i - 1 \in 0..N
        BY <3>2
      <4>2. g[i - 1] \in Int /\ g[i] = F[i][g[i - 1]]
        BY <2>1, <4>1 DEF Iterates
      <4>3. c[i] = count_tokens(nodes[i][2]) + 1
        BY <1>2, <4>1
      <4>4. g[i] = g[i - 1] - Min({count_tokens(nodes[i][2]) + 1, g[i - 1]})
        BY <1>5, <4>1, <4>2, <4>3
      <4>5. QED
        BY <3>2, <4>4
    <3>3. QED
      BY <3>1, <3>2
  <2>3. QED
    BY <2>1, <2>2 DEF Iterates
<1>8. PICK g, n : Left(g) /\ n \in Nat /\ n <= N
                  /\ chunks = [i \in 1..n |-> Min({nodes[i][2], g[i - 1] - g[i]})]
  <2> DEFINE G == CHOOSE g : g = [i \in 0..Len(nodes) |-> IF i = 0 THEN limit
                           ELSE g[i - 1] - Min({count_tokens(nodes[i][2]) + 1, g[i - 1]})]
  <2>1. PICK K : K = {k \in 0..Len(nodes) : \A i \in 1..k :
                        nodes[i][1] /\ G[i - 1] - G[i] >= MINIMUM_CONTEXT_TOKEN_LIMIT}
    OBVIOUS
  <2>2. chunks = [i \in 1..Max(K) |-> Min({nodes[i][2], G[i - 1] - G[i]})]
    BY <2>1, Zenon DEF truncate_rag_context
  <2>3. Left(G)
    BY <1>1, <1>7, Zenon
  <2> HIDE DEF G
  <2>4. K \in SUBSET (0..N) /\ 0 \in K
    BY <1>1, <2>1
  <2>5. Max(K) \in 0..N
    BY <2>4, Greatest
  <2>6. Max(K) \in Nat /\ Max(K) <= N
    BY <2>5
  <2> HIDE DEF Left
  <2>7. QED
    BY <2>2, <2>3, <2>6, Zenon
<1>9. /\ g[0] = limit
      /\ \A i \in 1..N : i - 1 \in 0..N /\ g[i] = g[i - 1] - Min({c[i], g[i - 1]})
  <2>1. \A i \in 1..N : i \in 0..N /\ i # 0 /\ i - 1 \in 0..N
    OBVIOUS
  <2>2. 0 \in 0..N
    OBVIOUS
  <2>3. \A i \in 1..N : c[i] = count_tokens(nodes[i][2]) + 1
    BY <1>2
  <2>4. \A i \in 0..N : g[i] = IF i = 0 THEN limit
                               ELSE g[i - 1] - Min({count_tokens(nodes[i][2]) + 1, g[i - 1]})
    BY <1>8, Zenon
  <2>5. QED
    BY <2>1, <2>2, <2>3, <2>4
<1> HIDE DEF Left
<1>10. \A i \in 0..N : g[i] \in Int
  <2> DEFINE T == {k \in 0..N : g[k] \notin Int}
  <2> SUFFICES ASSUME T # {} PROVE FALSE
    OBVIOUS
  <2>1. PICK m \in T : \A y \in T : m <= y
    <3>1. T \subseteq Nat
      OBVIOUS
    <3>2. QED
      BY <3>1, LeastNumber
  <2>2. m # 0
    BY <1>9
  <2>3. m \in 1..N /\ m - 1 \in 0..N /\ m - 1 \notin T
    BY <2>1, <2>2
  <2>4. g[m - 1] \in Int /\ c[m] \in Int /\ g[m] = g[m - 1] - Min({c[m], g[m - 1]})
    BY <1>3, <1>9, <2>3
  <2>5. Min({c[m], g[m - 1]}) \in Int
    BY <2>4, MinOfTwo
  <2>6. QED
    BY <2>4, <2>5
<1>11. ASSUME NEW i \in 1..n PROVE Min({nodes[i][2], g[i - 1] - g[i]}) \in Int
  <2>1. i \in 1..N /\ i \in 0..N /\ i - 1 \in 0..N
    BY <1>8
  <2>2. nodes[i][2] \in Int /\ g[i - 1] - g[i] \in Int
    BY <1>3, <1>10, <2>1
  <2>3. QED
    BY <2>2, MinOfTwo
<1>12. chunks \in [1..n -> Int]
  BY <1>8, <1>11
<1>13. QED
  BY <1>8, <1>12

-----------------------------------------------------------------------------
(* The prompt budget *)

\* While the prompt is put together, only the parts taken so far are charged, and
\* they leave something of the budget, unless the documents exceeded it.
Budgeted ==
    /\ pc \in Preparing =>
          /\ usage \in [Category -> Int]
          /\ usage["TOOL_DEFINITIONS"] = 0 /\ usage["AI_ROUND"] = 0 /\ usage["TOOL_RESULT"] = 0
          /\ outcome = "none"
    /\ pc \in {"prompt", "rag", "skill", "history"} => usage["HISTORY"] = 0
    /\ pc \in {"prompt", "rag", "skill"} => usage["SKILL"] = 0
    /\ pc \in {"prompt", "rag"} => usage["RAG"] = 0
    /\ pc = "prompt" => usage["PROMPT"] = 0
    /\ pc \in {"rag", "skill", "history"} => overcharged \/ history_budget(usage) >= 0
    /\ TooLongIsExplained

LEMMA PromptBudget == prompt_budget \in Int
  BY TokensAssumption DEF prompt_budget

LEMMA Charging ==
    ASSUME usage \in [Category -> Int], NEW c \in Category, NEW n \in Int, Charged(c, n)
    PROVE  /\ usage' \in [Category -> Int] /\ usage'[c] = usage[c] + n
           /\ \A d \in Category : d # c => usage'[d] = usage[d]
  BY DEF Charged

LEMMA BudgetStep == Budgeted /\ [Next]_vars => Budgeted'
<1> SUFFICES ASSUME Budgeted, [Next]_vars PROVE Budgeted'
  OBVIOUS
<1> USE PromptBudget DEF Preparing, Category
<1>1. ASSUME pc' \notin Preparing, overcharged' = overcharged,
             outcome' = outcome \/ outcome' # "too long"
      PROVE  Budgeted'
  BY <1>1 DEF Budgeted, TooLongIsExplained
<1>2. CASE prepare_prompt
  <2>1. pc = "prompt" /\ overcharged' = overcharged
    BY <1>2 DEF prepare_prompt
  <2>2. PICK n \in Lengths :
          \/ Ends("prompt too long")
          \/ /\ ~(count_tokens(n) > prompt_budget) /\ Charged("PROMPT", count_tokens(n))
             /\ pc' = "rag" /\ UNCHANGED outcome
    BY <1>2 DEF prepare_prompt
  <2>3. count_tokens(n) \in Int
    BY LengthsAssumption, CountTokens
  <2>4. CASE Ends("prompt too long")
    BY <1>1, <2>1, <2>4 DEF Ends
  <2>5. CASE /\ ~(count_tokens(n) > prompt_budget) /\ Charged("PROMPT", count_tokens(n))
             /\ pc' = "rag" /\ UNCHANGED outcome
    <3>1. /\ usage \in [Category -> Int] /\ usage["PROMPT"] = 0 /\ usage["RAG"] = 0
          /\ usage["SKILL"] = 0 /\ usage["HISTORY"] = 0
          /\ usage["TOOL_DEFINITIONS"] = 0 /\ usage["AI_ROUND"] = 0 /\ usage["TOOL_RESULT"] = 0
          /\ outcome = "none"
      BY <2>1 DEF Budgeted
    <3>2. /\ usage' \in [Category -> Int] /\ usage'["PROMPT"] = count_tokens(n)
          /\ \A d \in Category : d # "PROMPT" => usage'[d] = usage[d]
      BY <2>3, <2>5, <3>1, Charging
    <3>3. history_budget(usage') >= 0
      BY <2>3, <2>5, <3>1, <3>2 DEF history_budget
    <3>4. QED
      BY <2>5, <3>1, <3>2, <3>3 DEF Budgeted, TooLongIsExplained
  <2>6. QED
    BY <2>2, <2>4, <2>5
<1>3. CASE prepare_rag
  <2>1. pc = "rag" /\ pc' = "skill" /\ UNCHANGED outcome
    BY <1>3 DEF prepare_rag
  <2>2. /\ usage \in [Category -> Int] /\ usage["RAG"] = 0 /\ usage["PROMPT"] \in Int
        /\ usage["SKILL"] = 0 /\ usage["HISTORY"] = 0
        /\ usage["TOOL_DEFINITIONS"] = 0 /\ usage["AI_ROUND"] = 0 /\ usage["TOOL_RESULT"] = 0
        /\ outcome = "none"
    BY <2>1 DEF Budgeted
  <2>3. history_budget(usage) \in Int
    BY <2>2 DEF history_budget
  <2>4. PICK nodes \in BoundedSeq(BOOLEAN \X Lengths, MaxItems) :
          /\ Charged("RAG", counted(truncate_rag_context(nodes, history_budget(usage))))
          /\ overcharged' = (counted(truncate_rag_context(nodes, history_budget(usage)))
                                > history_budget(usage))
    BY <1>3 DEF prepare_rag
  <2>5. PICK N \in Nat : nodes \in [1..N -> BOOLEAN \X Nat]
    <3>1. PICK N \in 0..MaxItems : nodes \in [1..N -> BOOLEAN \X Lengths]
      BY <2>4 DEF BoundedSeq, SeqOf
    <3>2. N \in Nat
      BY ItemsAssumption
    <3>3. QED
      BY <3>1, <3>2, LengthsAssumption
  <2>6. PICK chunks : chunks = truncate_rag_context(nodes, history_budget(usage))
    OBVIOUS
  <2>7. PICK n \in Nat : chunks \in [1..n -> Int]
    BY <2>3, <2>5, <2>6, TruncatedType
  <2>8. PICK t \in Int : t = counted(chunks)
    BY <2>7, CountedType
  <2>9. Charged("RAG", t) /\ overcharged' = (t > history_budget(usage))
    BY <2>4, <2>6, <2>8
  <2>10. /\ usage' \in [Category -> Int] /\ usage'["RAG"] = t
         /\ \A d \in Category : d # "RAG" => usage'[d] = usage[d]
    BY <2>2, <2>9, Charging
  <2>11. overcharged' \/ history_budget(usage') >= 0
    <3>1. history_budget(usage') = history_budget(usage) - t
      BY <2>2, <2>10 DEF history_budget
    <3>2. CASE t > history_budget(usage)
      BY <2>9, <3>2
    <3>3. CASE ~(t > history_budget(usage))
      BY <2>3, <3>1, <3>3
    <3>4. QED
      BY <3>2, <3>3
  <2>12. QED
    BY <2>1, <2>2, <2>10, <2>11 DEF Budgeted, TooLongIsExplained
<1>4. CASE select_skill
  <2>1. pc = "skill" /\ pc' = "history" /\ UNCHANGED <<outcome, overcharged>>
    BY <1>4 DEF select_skill
  <2>2. /\ usage \in [Category -> Int] /\ usage["RAG"] \in Int /\ usage["PROMPT"] \in Int
        /\ usage["SKILL"] = 0 /\ usage["HISTORY"] = 0
        /\ usage["TOOL_DEFINITIONS"] = 0 /\ usage["AI_ROUND"] = 0 /\ usage["TOOL_RESULT"] = 0
        /\ outcome = "none" /\ (overcharged \/ history_budget(usage) >= 0)
    BY <2>1 DEF Budgeted
  <2>3. PICK n \in Lengths \cup {0} :
          \/ UNCHANGED usage
          \/ /\ ~(5 * count_tokens(n) > 4 * prompt_budget_remaining(usage))
             /\ Charged("SKILL", count_tokens(n))
    BY <1>4 DEF select_skill
  <2>4. CASE UNCHANGED usage
    BY <2>1, <2>2, <2>4 DEF Budgeted, TooLongIsExplained
  <2>5. CASE /\ ~(5 * count_tokens(n) > 4 * prompt_budget_remaining(usage))
             /\ Charged("SKILL", count_tokens(n))
    <3>1. PICK t \in Int : t = count_tokens(n)
      BY LengthsAssumption, CountTokens
    <3>2. /\ usage' \in [Category -> Int] /\ usage'["SKILL"] = t
          /\ \A d \in Category : d # "SKILL" => usage'[d] = usage[d]
      BY <2>2, <2>5, <3>1, Charging
    <3>3. prompt_budget_remaining(usage) = history_budget(usage) /\ history_budget(usage) \in Int
      BY <2>2 DEF prompt_budget_remaining, history_budget, total_used
    <3>4. history_budget(usage') = history_budget(usage) - t
      BY <2>2, <3>2 DEF history_budget
    <3>5. overcharged \/ history_budget(usage') >= 0
      BY <2>2, <2>5, <3>1, <3>3, <3>4
    <3>6. QED
      BY <2>1, <2>2, <3>2, <3>5 DEF Budgeted, TooLongIsExplained
  <2>6. QED
    BY <2>3, <2>4, <2>5
<1>5. CASE take_history
  <2>1. pc = "history" /\ UNCHANGED overcharged
    BY <1>5 DEF take_history
  <2>2. /\ usage \in [Category -> Int] /\ usage["RAG"] \in Int /\ usage["PROMPT"] \in Int
        /\ usage["SKILL"] \in Int /\ usage["HISTORY"] = 0
        /\ usage["TOOL_DEFINITIONS"] = 0 /\ usage["AI_ROUND"] = 0 /\ usage["TOOL_RESULT"] = 0
        /\ outcome = "none" /\ (overcharged \/ history_budget(usage) >= 0)
    BY <2>1 DEF Budgeted
  <2>3. PICK b \in Int : b = history_budget(usage)
    BY <2>2 DEF history_budget
  <2>4. PICK history \in BoundedSeq(Lengths, MaxItems) :
          Charged("HISTORY", counted(limit_conversation_history(history, b)))
    BY <1>5, <2>3 DEF take_history
  <2>5. PICK N \in Nat : history \in [1..N -> Nat]
    <3>1. PICK N \in 0..MaxItems : history \in [1..N -> Lengths]
      BY <2>4 DEF BoundedSeq, SeqOf
    <3>2. N \in Nat
      BY ItemsAssumption
    <3>3. QED
      BY <3>1, <3>2, LengthsAssumption
  <2>6. PICK kept : kept = limit_conversation_history(history, b)
    OBVIOUS
  <2>7. PICK t \in Int : t = counted(kept) /\ (b >= 0 => t <= b)
    BY <2>5, <2>6, HistoryFits
  <2>8. /\ usage' \in [Category -> Int] /\ usage'["HISTORY"] = t
        /\ \A d \in Category : d # "HISTORY" => usage'[d] = usage[d]
    BY <2>2, <2>4, <2>6, <2>7, Charging
  <2>9. total_used(usage') = prompt_budget - b + t
    BY <2>2, <2>3, <2>8 DEF total_used, history_budget
  <2>10. CASE total_used(usage') > prompt_budget
    <3>1. overcharged'
      BY <2>1, <2>2, <2>3, <2>7, <2>9, <2>10
    <3>2. pc' = "over"
      BY <1>5, <2>10 DEF take_history, _build_final_prompt, Ends
    <3>3. QED
      BY <3>1, <3>2 DEF Budgeted, TooLongIsExplained
  <2>11. CASE ~(total_used(usage') > prompt_budget)
    <3>1. pc' = "tools" /\ outcome' = "none"
      BY <1>5, <2>2, <2>11 DEF take_history, _build_final_prompt
    <3>2. QED
      BY <2>2, <2>8, <3>1 DEF Budgeted, TooLongIsExplained
  <2>12. QED
    BY <2>10, <2>11
<1>6. CASE resolve_tools
  BY <1>1, <1>6 DEF resolve_tools, Ends
<1>7. CASE llm_answers \/ llm_raises \/ llm_calls_tools
  BY <1>1, <1>7 DEF llm_answers, llm_raises, llm_calls_tools, Ends
<1>8. CASE skip_tools \/ execute_tools \/ tools_fail \/ next_round
  BY <1>1, <1>8 DEF skip_tools, execute_tools, tools_fail, next_round, Ends
<1>9. CASE restart \/ disconnect \/ crash
  BY <1>1, <1>9 DEF restart, disconnect, crash, Ends
<1>10. CASE UNCHANGED vars
  BY <1>10 DEF vars, Budgeted, TooLongIsExplained, history_budget
<1>11. QED
  BY <1>2, <1>3, <1>4, <1>5, <1>6, <1>7, <1>8, <1>9, <1>10 DEF Next, Step, Over

\* generate_response refuses a request as too long, its question and its tools
\* aside, only if its documents, truncated to fit, were charged more than fits.
THEOREM TooLongExplained == Spec => []TooLongIsExplained
<1>1. Init => Budgeted
  BY DEF Init, Budgeted, Preparing, Category, TooLongIsExplained
<1>2. Budgeted => TooLongIsExplained
  BY DEF Budgeted
<1>3. QED
  BY <1>1, <1>2, BudgetStep, PTL DEF Spec

-----------------------------------------------------------------------------
(* The history that the prompt is given: HistoryCompression for one request *)
(* at a time, with any number of turns, failures and deletions in between.  *)

\* The requests of the conversation come one at a time: there is one slot.
request == CHOOSE r \in Request : TRUE
OneAtATime == Request = {request}

\* The turns an entry tells about, and its length.
Entry == [turns : SUBSET Nat, tokens : Int]

Ordered(h) ==
    \A i, j \in 1..Len(h) : i < j => \A s \in h[i].turns, t \in h[j].turns : s < t

\* A history in order that tells about stored turns, and one that misses none but
\* those deleted.
Sound(h) == Ordered(h) /\ Covered(h) \subseteq 1..turns
Complete(h) == torn \/ 1..turns \subseteq Covered(h) \cup deleted

HistoryTypes ==
    /\ cached \in Seq(Entry)
    /\ place \in [{request} -> {"idle", "summarize", "rewrite_delete", "rewrite_insert", "answer"}]
    /\ full \in [{request} -> Seq(Entry)]
    /\ keep \in [{request} -> Seq(Entry)]
    /\ todo \in [{request} -> Seq(Entry)]
    /\ turns \in Nat
    /\ torn \in BOOLEAN

\* The newest k entries of h can be kept: what is left to summarize makes the
\* history shorter, or not longer if it has one entry.
Keepable(h, k) == k \in 0..(Len(h) - 1) /\ (Len(h) > 1 => k < Len(h) - 1)

Summarizing ==
    /\ Sound(full[request]) /\ Complete(full[request])
    /\ \E k \in Nat : Keepable(full[request], k) /\ keep[request] = LastN(full[request], k)

Deleting ==
    /\ Sound(todo[request]) /\ Complete(todo[request])
    /\ Covered(todo[request]) = Covered(full[request])
    /\ Len(todo[request]) >= 1 /\ Len(todo[request]) <= Len(full[request])
    /\ Len(full[request]) > 1 => Len(todo[request]) < Len(full[request])

Inserting ==
    /\ Sound(cached \o todo[request]) /\ Complete(cached \o todo[request])
    /\ Len(todo[request]) >= 1

\* What is stored is in order; it is complete except while a rewrite is under way,
\* and then together with the entries still to be inserted.
HistoryInv ==
    /\ HistoryTypes
    /\ Sound(cached)
    /\ place[request] = "summarize" => Summarizing
    /\ place[request] = "rewrite_delete" => Deleting
    /\ place[request] = "rewrite_insert" => Inserting
    /\ place[request] # "rewrite_insert" => Complete(cached)

\* Facts about histories.
LEMMA CoveredMember ==
    ASSUME NEW h, NEW t
    PROVE  t \in Covered(h) <=> \E i \in 1..Len(h) : t \in h[i].turns
  BY DEF Covered

\* What the concatenation of two histories tells, entry by entry and in all.
LEMMA Joined ==
    ASSUME NEW a \in Seq(Entry), NEW b \in Seq(Entry)
    PROVE  /\ a \o b \in Seq(Entry) /\ Len(a \o b) = Len(a) + Len(b)
           /\ \A i \in 1..Len(a) : (a \o b)[i] = a[i]
           /\ \A i \in 1..Len(b) : (a \o b)[Len(a) + i] = b[i]
           /\ \A i \in 1..Len(a \o b) : i > Len(a) => i - Len(a) \in 1..Len(b)
           /\ Covered(a \o b) = Covered(a) \cup Covered(b)
<1>1. Len(a) \in Nat /\ Len(b) \in Nat
  OBVIOUS
<1>2. /\ a \o b \in Seq(Entry) /\ Len(a \o b) = Len(a) + Len(b)
      /\ \A i \in 1..(Len(a) + Len(b)) : (a \o b)[i] = IF i <= Len(a) THEN a[i] ELSE b[i - Len(a)]
  OBVIOUS
<1>3. \A i \in 1..Len(a) : i \in 1..(Len(a) + Len(b)) /\ (a \o b)[i] = a[i]
  BY <1>1, <1>2
<1>4. \A i \in 1..Len(b) : Len(a) + i \in 1..(Len(a) + Len(b)) /\ (a \o b)[Len(a) + i] = b[i]
  BY <1>1, <1>2
<1>5. \A i \in 1..Len(a \o b) : i > Len(a) => i - Len(a) \in 1..Len(b)
  BY <1>1, <1>2
<1>6. ASSUME NEW t, t \in Covered(a \o b) PROVE t \in Covered(a) \cup Covered(b)
  <2>1. PICK i \in 1..Len(a \o b) : t \in (a \o b)[i].turns
    BY <1>6, CoveredMember
  <2>2. CASE i <= Len(a)
    <3>1. i \in 1..Len(a) /\ (a \o b)[i] = a[i]
      BY <1>1, <1>2, <2>2
    <3>2. QED
      BY <2>1, <3>1, CoveredMember
  <2>3. CASE ~(i <= Len(a))
    <3>1. i - Len(a) \in 1..Len(b) /\ (a \o b)[i] = b[i - Len(a)]
      BY <1>1, <1>2, <2>3
    <3>2. QED
      BY <2>1, <3>1, CoveredMember
  <2>4. QED
    BY <2>2, <2>3
<1>7. ASSUME NEW t, t \in Covered(a) PROVE t \in Covered(a \o b)
  BY <1>2, <1>3, <1>7, CoveredMember
<1>8. ASSUME NEW t, t \in Covered(b) PROVE t \in Covered(a \o b)
  <2>1. PICK i \in 1..Len(b) : t \in b[i].turns
    BY <1>8, CoveredMember
  <2>2. Len(a) + i \in 1..Len(a \o b) /\ t \in (a \o b)[Len(a) + i].turns
    BY <1>2, <1>4, <2>1
  <2>3. QED
    BY <2>2, CoveredMember
<1>9. QED
  BY <1>2, <1>3, <1>4, <1>5, <1>6, <1>7, <1>8

\* The entries of a rewrite are those stored and those still to be stored,
\* wherever it is.
LEMMA InsertJoins ==
    ASSUME NEW a \in Seq(Entry), NEW b \in Seq(Entry), Len(b) >= 1
    PROVE  /\ Append(a, Head(b)) \in Seq(Entry) /\ Tail(b) \in Seq(Entry)
           /\ Append(a, Head(b)) \o Tail(b) = a \o b
           /\ Len(Tail(b)) = Len(b) - 1
           /\ Len(b) = 1 => Append(a, Head(b)) = a \o b
<1>1. Len(a) \in Nat /\ Len(b) \in Nat /\ b # <<>>
  OBVIOUS
<1>2. Head(b) = b[1] /\ b[1] \in Entry
  BY <1>1
<1>3. /\ Tail(b) \in Seq(Entry) /\ Len(Tail(b)) = Len(b) - 1
      /\ \A i \in 1..(Len(b) - 1) : Tail(b)[i] = b[i + 1]
  BY <1>1
<1>4. PICK c \in Seq(Entry) : c = Append(a, Head(b))
  <2>1. PICK e \in Entry : e = Head(b)
    BY <1>2
  <2>2. Append(a, e) \in Seq(Entry)
    BY AppendProperties
  <2>3. QED
    BY <2>1, <2>2
<1>5. Len(c) = Len(a) + 1 /\ \A i \in 1..(Len(a) + 1) : c[i] = IF i <= Len(a) THEN a[i] ELSE b[1]
  BY <1>1, <1>2, <1>4
<1>6. /\ c \o Tail(b) \in Seq(Entry) /\ Len(c \o Tail(b)) = Len(a) + Len(b)
      /\ a \o b \in Seq(Entry) /\ Len(a \o b) = Len(a) + Len(b)
  BY <1>1, <1>3, <1>5
<1>7. ASSUME NEW i \in 1..(Len(a) + Len(b)) PROVE (c \o Tail(b))[i] = (a \o b)[i]
  <2>1. (a \o b)[i] = IF i <= Len(a) THEN a[i] ELSE b[i - Len(a)]
    BY <1>1
  <2>2. (c \o Tail(b))[i] = IF i <= Len(a) + 1 THEN c[i] ELSE Tail(b)[i - (Len(a) + 1)]
    <3>1. PICK d \in Seq(Entry) : d = Tail(b)
      BY <1>3
    <3>2. i \in 1..(Len(c) + Len(d))
      BY <1>1, <1>3, <1>5, <3>1
    <3>3. (c \o d)[i] = IF i <= Len(c) THEN c[i] ELSE d[i - Len(c)]
      BY <3>2, ConcatProperties
    <3>4. QED
      BY <1>5, <3>1, <3>3
  <2>3. CASE i <= Len(a) + 1
    <3>1. i \in 1..(Len(a) + 1)
      BY <1>1, <2>3
    <3>2. ~(i <= Len(a)) => i - Len(a) = 1
      BY <1>1, <2>3
    <3>3. QED
      BY <1>5, <2>1, <2>2, <2>3, <3>1, <3>2
  <2>4. CASE ~(i <= Len(a) + 1)
    <3>1. i - (Len(a) + 1) \in 1..(Len(b) - 1) /\ i - (Len(a) + 1) + 1 = i - Len(a) /\ ~(i <= Len(a))
      BY <1>1, <2>4
    <3>2. QED
      BY <1>3, <2>1, <2>2, <2>4, <3>1
  <2>5. QED
    BY <2>3, <2>4
<1>8. c \o Tail(b) = a \o b
  BY <1>1, <1>6, <1>7, SeqEqual
<1>9. ASSUME Len(b) = 1 PROVE c = a \o b
  <2>1. Tail(b) = <<>>
    <3>1. PICK d \in Seq(Entry) : d = Tail(b)
      BY <1>3
    <3>2. Len(d) = 0
      BY <1>3, <1>9, <3>1
    <3>3. QED
      BY <3>1, <3>2, EmptySeq
  <2>2. c \o <<>> = c
    OBVIOUS
  <2>3. QED
    BY <1>8, <2>1, <2>2
<1>10. QED
  BY <1>3, <1>4, <1>8, <1>9

\* Both parts of a history in order are in order.
LEMMA JoinedOrdered ==
    ASSUME NEW a \in Seq(Entry), NEW b \in Seq(Entry), Ordered(a \o b)
    PROVE  Ordered(a) /\ Ordered(b)
<1>1. Len(a) \in Nat /\ Len(b) \in Nat
  OBVIOUS
<1>2. /\ Len(a \o b) = Len(a) + Len(b)
      /\ \A i \in 1..Len(a) : (a \o b)[i] = a[i]
      /\ \A i \in 1..Len(b) : (a \o b)[Len(a) + i] = b[i]
  BY Joined
<1>3. Ordered(a)
  <2>1. \A i \in 1..Len(a) : i \in 1..Len(a \o b)
    BY <1>1, <1>2
  <2>2. QED
    BY <1>2, <2>1 DEF Ordered
<1>4. Ordered(b)
  <2>1. \A i \in 1..Len(b) : Len(a) + i \in 1..Len(a \o b)
    BY <1>1, <1>2
  <2>2. \A i, j \in 1..Len(b) : i < j => Len(a) + i < Len(a) + j
    BY <1>1
  <2>3. QED
    BY <1>2, <2>1, <2>2 DEF Ordered
<1>5. QED
  BY <1>3, <1>4

\* _split_entries_by_token_budget keeps between none and all of the entries.
LEMMA FittingType ==
    ASSUME NEW h \in Seq(Entry), NEW budget
    PROVE  Fitting(h, budget) \in 0..Len(h)
<1>1. PICK n \in Nat : n = Len(h)
  OBVIOUS
<1>2. PICK K : K = {k \in 0..Len(h) : \A j \in 1..k : Newest(h, j) <= budget}
  OBVIOUS
<1>3. K \subseteq 0..n /\ 0 \in K
  BY <1>1, <1>2
<1>4. Max(K) \in K
  BY <1>3, Greatest
<1>5. QED
  BY <1>1, <1>2, <1>3, <1>4, Zenon DEF Fitting

\* What is kept of a history that does not fit leaves something to summarize.
LEMMA KeepEntries ==
    ASSUME NEW h \in Seq(Entry), NEW budget, Fitting(h, budget) # Len(h)
    PROVE  \E k \in Nat : Keepable(h, k) /\ keep_entries(h, budget) = LastN(h, k)
<1>1. PICK n \in Nat : n = Len(h)
  OBVIOUS
<1>2. PICK k : k = Fitting(h, budget)
  OBVIOUS
<1>3. k \in 0..n /\ k # n
  BY <1>1, <1>2, FittingType
<1>4. Max({k - 1, 0}) = IF k = 0 THEN 0 ELSE k - 1
  <2>1. PICK m : m = IF k = 0 THEN 0 ELSE k - 1
    OBVIOUS
  <2>2. m \in {k - 1, 0} /\ \A y \in {k - 1, 0} : m >= y
    BY <1>3, <2>1
  <2>3. \A x \in {k - 1, 0} : (\A y \in {k - 1, 0} : x >= y) => x = m
    BY <1>3, <2>1
  <2>4. Max({k - 1, 0}) = m
    BY <2>2, <2>3 DEF Max
  <2>5. QED
    BY <2>1, <2>4
<1>5. PICK m : m = IF k > entries_to_keep THEN entries_to_keep ELSE IF k = 0 THEN 0 ELSE k - 1
  OBVIOUS
<1>6. m \in Nat /\ Keepable(h, m)
  BY <1>1, <1>3, <1>5, KeepAssumption DEF Keepable
<1>7. keep_entries(h, budget) = LastN(h, m)
  BY <1>2, <1>4, <1>5 DEF keep_entries
<1>8. QED
  BY <1>6, <1>7

\* What replaces the history tells about the same turns, in order, and is shorter.
LEMMA Compressed ==
    ASSUME NEW h \in Seq(Entry), Ordered(h), NEW k \in Nat, Keepable(h, k), NEW n \in Int
    PROVE  LET c == compressed_entries(h, LastN(h, k), n) IN
           /\ LastN(h, k) \in Seq(Entry)
           /\ c \in Seq(Entry) /\ Len(c) = k + 1
           /\ Covered(c) = Covered(h) /\ Ordered(c)
<1>1. PICK N \in Nat : N = Len(h)
  OBVIOUS
<1>2. k \in 0..(N - 1) /\ N - k \in 1..N /\ N - k \in Nat
  BY <1>1 DEF Keepable
<1>3. PICK b : b = LastN(h, k)
  OBVIOUS
<1>4. b \in Seq(Entry) /\ Len(b) = k /\ \A i \in 1..k : b[i] = h[N - k + i]
  <2>1. b = SubSeq(h, N - k + 1, N)
    BY <1>1, <1>3 DEF LastN
  <2>2. N - k + 1 \in 1..(N + 1) /\ N \in 0..N
    BY <1>2
  <2>3. \A j \in (N - k + 1)..N : j \in 1..N
    BY <1>2
  <2>4. b \in Seq(Entry) /\ Len(b) = k
    BY <1>1, <1>2, <2>1, <2>2, <2>3
  <2>5. \A i \in 1..k : b[i] = h[N - k + i]
    BY <1>1, <1>2, <2>1, <2>2
  <2>6. QED
    BY <2>4, <2>5
<1>5. PICK a : a = SubSeq(h, 1, N - k)
  OBVIOUS
<1>6. a \in Seq(Entry) /\ Len(a) = N - k /\ \A i \in 1..(N - k) : a[i] = h[i]
  BY <1>1, <1>2, <1>5
<1>7. PICK e : e = [turns |-> Covered(a), tokens |-> n]
  OBVIOUS
<1>8. e \in Entry /\ e.turns = Covered(a)
  <2>1. \A i \in 1..Len(a) : a[i].turns \in SUBSET Nat
    <3>1. \A i \in 1..Len(a) : a[i] \in Entry
      BY <1>6
    <3>2. QED
      BY <3>1 DEF Entry
  <2>2. Covered(a) \in SUBSET Nat
    BY <2>1, CoveredMember
  <2>3. QED
    BY <1>7, <2>2 DEF Entry
<1>9. PICK c : c = <<e>> \o b
  OBVIOUS
<1>10. c = compressed_entries(h, b, n)
  BY <1>1, <1>4, <1>5, <1>7, <1>9 DEF compressed_entries, entries_to_summarize
<1>11. /\ c \in Seq(Entry) /\ Len(c) = k + 1 /\ c[1] = e
       /\ \A i \in 2..(k + 1) : c[i] = h[N - k + i - 1]
  <2>1. <<e>> \in Seq(Entry) /\ Len(<<e>>) = 1 /\ <<e>>[1] = e
    BY <1>8
  <2>2. PICK d \in Seq(Entry) : d = <<e>> /\ Len(d) = 1 /\ d[1] = e
    BY <2>1
  <2>3. /\ c \in Seq(Entry) /\ Len(c) = 1 + k
        /\ \A i \in 1..(1 + k) : c[i] = IF i <= 1 THEN d[i] ELSE b[i - 1]
    BY <1>4, <1>9, <2>2, ConcatProperties
  <2>4. ASSUME NEW i \in 2..(k + 1) PROVE c[i] = h[N - k + i - 1]
    <3>1. i \in 1..(1 + k) /\ ~(i <= 1) /\ i - 1 \in 1..k /\ N - k + (i - 1) = N - k + i - 1
      BY <1>2
    <3>2. QED
      BY <1>4, <2>3, <3>1
  <2>5. c[1] = e
    BY <2>2, <2>3
  <2>6. QED
    BY <2>3, <2>4, <2>5
<1>12. \A i \in 2..(k + 1) : N - k + i - 1 \in (N - k + 1)..N
  BY <1>2
<1>13. \A t : t \in e.turns <=> \E i \in 1..(N - k) : t \in h[i].turns
  BY <1>6, <1>8, CoveredMember
<1>14. Ordered(c)
  <2> SUFFICES ASSUME NEW i \in 1..(k + 1), NEW j \in 1..(k + 1), i < j,
                      NEW s \in c[i].turns, NEW t \in c[j].turns
               PROVE  s < t
    BY <1>11 DEF Ordered
  <2>1. PICK q \in 1..N : t \in h[q].turns /\ q = N - k + j - 1
    <3>1. j \in 2..(k + 1)
      OBVIOUS
    <3>2. QED
      BY <1>2, <1>11, <1>12, <3>1
  <2>2. PICK p \in 1..N : s \in h[p].turns /\ p < q
    <3>1. CASE i = 1
      <4>1. PICK p \in 1..(N - k) : s \in h[p].turns
        BY <1>11, <1>13, <3>1
      <4>2. p \in Int /\ q \in Int /\ j \in Int /\ k \in Int /\ N \in Int /\ j >= 2
            /\ p >= 1 /\ p <= N - k
        BY <1>2, <3>1
      <4>3. p \in 1..N /\ p < q
        BY <1>2, <2>1, <4>2
      <4>4. QED
        BY <4>1, <4>3
    <3>2. CASE i # 1
      <4>1. i \in 2..(k + 1)
        BY <3>2
      <4>2. N - k + i - 1 \in 1..N /\ N - k + i - 1 < q
        BY <1>2, <1>12, <2>1, <4>1
      <4>3. s \in h[N - k + i - 1].turns
        BY <1>11, <4>1
      <4>4. QED
        BY <4>2, <4>3
    <3>3. QED
      BY <3>1, <3>2
  <2>3. QED
    BY <1>1, <2>1, <2>2 DEF Ordered
<1>15. ASSUME NEW t, t \in Covered(c) PROVE t \in Covered(h)
  <2>1. PICK i \in 1..(k + 1) : t \in c[i].turns
    BY <1>11, <1>15, CoveredMember
  <2>2. CASE i = 1
    <3>1. PICK p \in 1..(N - k) : t \in h[p].turns
      BY <1>11, <1>13, <2>1, <2>2
    <3>2. p \in 1..Len(h)
      BY <1>1, <1>2
    <3>3. QED
      BY <3>1, <3>2, CoveredMember
  <2>3. CASE i # 1
    <3>1. i \in 2..(k + 1)
      BY <2>3
    <3>2. N - k + i - 1 \in 1..Len(h) /\ t \in h[N - k + i - 1].turns
      BY <1>1, <1>2, <1>11, <1>12, <2>1, <3>1
    <3>3. QED
      BY <3>2, CoveredMember
  <2>4. QED
    BY <2>2, <2>3
<1>16. ASSUME NEW t, t \in Covered(h) PROVE t \in Covered(c)
  <2>1. PICK i \in 1..N : t \in h[i].turns
    BY <1>1, <1>16, CoveredMember
  <2>2. CASE i <= N - k
    <3>1. i \in 1..(N - k)
      BY <1>2, <2>2
    <3>2. 1 \in 1..Len(c) /\ t \in c[1].turns
      BY <1>2, <1>11, <1>13, <2>1, <3>1
    <3>3. QED
      BY <3>2, CoveredMember
  <2>3. CASE ~(i <= N - k)
    <3>1. PICK j \in Int : j = i - (N - k) + 1
      BY <1>2
    <3>2. j \in 2..(k + 1) /\ N - k + j - 1 = i
      BY <1>2, <2>3, <3>1
    <3>3. j \in 1..Len(c) /\ t \in c[j].turns
      <4>1. j \in 1..Len(c)
        BY <1>11, <3>2
      <4>2. c[j] = h[i]
        BY <1>11, <3>2
      <4>3. QED
        BY <2>1, <4>1, <4>2
    <3>4. QED
      BY <3>3, CoveredMember
  <2>4. QED
    BY <2>2, <2>3
<1>17. QED
  BY <1>3, <1>4, <1>10, <1>11, <1>14, <1>15, <1>16

-----------------------------------------------------------------------------
(* The requests of the conversation *)

LEMMA SoundEmpty == turns \in Nat => Sound(<<>>)
<1>1. Covered(<<>>) = {}
  BY DEF Covered
<1>2. Ordered(<<>>)
  BY DEF Ordered
<1>3. QED
  BY <1>1, <1>2 DEF Sound

\* Every place of the request, and the deletion of the conversation at any point of
\* it, keeps what is stored in order and complete.
LEMMA HistorySteps ==
    ASSUME OneAtATime, HistoryInv, [HistoryNext]_historyVars
    PROVE  HistoryInv'
<1> USE DEF HistoryTypes
<1>1. /\ HistoryTypes /\ Sound(cached)
      /\ place[request] = "summarize" => Summarizing
      /\ place[request] = "rewrite_delete" => Deleting
      /\ place[request] = "rewrite_insert" => Inserting
      /\ place[request] # "rewrite_insert" => Complete(cached)
  BY DEF HistoryInv
<1>2. PICK H : H = Seq(Entry)
  OBVIOUS
<1>3. <<>> \in H
  BY <1>2, EmptySeq
<1>4. /\ cached \in H /\ full \in [{request} -> H] /\ keep \in [{request} -> H]
      /\ todo \in [{request} -> H] /\ turns \in Nat /\ torn \in BOOLEAN
  BY <1>1, <1>2, Zenon
<1>5. ASSUME NEW budget, prepare_history(request, budget) PROVE HistoryInv'
  <2>1. UNCHANGED <<cached, todo, turns, deleted, torn>> /\ place[request] = "idle"
    BY <1>5 DEF prepare_history
  <2>2. Sound(cached)' /\ Complete(cached)'
    BY <1>1, <2>1 DEF Sound, Complete
  <2>3. CASE Fitting(cached, budget) = Len(cached)
    <3>1. place' = [place EXCEPT ![request] = "answer"] /\ UNCHANGED <<full, keep>>
      BY <1>5, <2>3 DEF prepare_history, Goto
    <3>2. place'[request] = "answer" /\ HistoryTypes'
      BY <1>1, <2>1, <3>1
    <3>3. QED
      BY <2>2, <3>2 DEF HistoryInv
  <2>4. CASE Fitting(cached, budget) # Len(cached)
    <3>1. PICK k \in Nat : Keepable(cached, k) /\ keep_entries(cached, budget) = LastN(cached, k)
      BY <1>1, <2>4, KeepEntries
    <3>2. PICK b : b = LastN(cached, k)
      OBVIOUS
    <3>3. b \in H
      BY <1>1, <1>2, <3>1, <3>2, Compressed DEF Sound
    <3>4. /\ place' = [place EXCEPT ![request] = "summarize"] /\ full' = [full EXCEPT ![request] = cached]
          /\ keep' = [keep EXCEPT ![request] = b]
      BY <1>5, <2>4, <3>1, <3>2 DEF prepare_history, Goto
    <3>5. full'[request] = cached /\ keep'[request] = b /\ place'[request] = "summarize"
      BY <1>1, <1>4, <3>4
    <3>6. full' \in [{request} -> H] /\ keep' \in [{request} -> H]
      BY <1>4, <3>3, <3>4
    <3>7. HistoryTypes'
      BY <1>1, <1>2, <2>1, <3>4, <3>6
    <3>8. Summarizing'
      <4>1. Sound(full[request])' /\ Complete(full[request])'
        BY <2>1, <2>2, <3>5 DEF Sound, Complete
      <4>2. Keepable(full'[request], k) /\ keep'[request] = LastN(full'[request], k)
        BY <3>1, <3>2, <3>5
      <4>3. QED
        BY <4>1, <4>2 DEF Summarizing
    <3>9. QED
      BY <2>2, <3>5, <3>7, <3>8 DEF HistoryInv
  <2>5. QED
    BY <2>3, <2>4
<1>6. ASSUME NEW n \in 1..MaxTokens, summarize_entries(request, n) PROVE HistoryInv'
  <2>1. place[request] = "summarize" /\ UNCHANGED <<cached, full, keep, turns, deleted, torn>>
    BY <1>6 DEF summarize_entries
  <2>2. PICK h \in Seq(Entry) : h = full[request]
    BY <1>1
  <2>3. PICK k \in Nat : Keepable(h, k) /\ keep[request] = LastN(h, k)
    BY <1>1, <2>1, <2>2 DEF Summarizing
  <2>4. Sound(h) /\ Complete(h)
    BY <1>1, <2>1, <2>2 DEF Summarizing
  <2>5. PICK c : c = compressed_entries(h, LastN(h, k), n)
    OBVIOUS
  <2>6. n \in Int
    OBVIOUS
  <2>7. c \in Seq(Entry) /\ Len(c) = k + 1 /\ Covered(c) = Covered(h) /\ Ordered(c)
    BY <2>3, <2>4, <2>5, <2>6, Compressed DEF Sound
  <2>8. /\ todo' = [todo EXCEPT ![request] = c]
        /\ place' = [place EXCEPT ![request] = "rewrite_delete"]
    BY <1>6, <2>2, <2>3, <2>5 DEF summarize_entries, Goto
  <2>9. todo' \in [{request} -> H] /\ todo'[request] = c /\ place'[request] = "rewrite_delete"
    BY <1>1, <1>2, <1>4, <2>7, <2>8
  <2>10. HistoryTypes'
    BY <1>1, <1>2, <2>1, <2>8, <2>9
  <2>11. Sound(cached)' /\ Complete(cached)'
    BY <1>1, <2>1 DEF Sound, Complete
  <2>12. Deleting'
    <3>1. Sound(todo[request])' /\ Complete(todo[request])'
      BY <2>1, <2>4, <2>7, <2>9 DEF Sound, Complete
    <3>2. full'[request] = h
      BY <2>1, <2>2
    <3>3. k + 1 >= 1 /\ k + 1 <= Len(h) /\ (Len(h) > 1 => k + 1 < Len(h))
      BY <2>3 DEF Keepable
    <3>4. QED
      BY <2>7, <2>9, <3>1, <3>2, <3>3 DEF Deleting
  <2>13. QED
    BY <2>9, <2>10, <2>11, <2>12 DEF HistoryInv
<1>7. ASSUME NEW transient, summarize_fails(request, transient) PROVE HistoryInv'
  <2>1. place[request] = "summarize" /\ UNCHANGED <<cached, full, keep, todo, turns, deleted, torn>>
    BY <1>7 DEF summarize_fails
  <2>2. place' = place \/ place' = [place EXCEPT ![request] = "answer"]
    BY <1>7 DEF summarize_fails, Goto
  <2>3. HistoryTypes' /\ place'[request] \in {"summarize", "answer"}
    BY <1>1, <2>1, <2>2
  <2>4. Sound(cached)' /\ Complete(cached)' /\ Summarizing'
    BY <1>1, <2>1 DEF Sound, Complete, Summarizing
  <2>5. QED
    BY <2>3, <2>4 DEF HistoryInv
<1>8. ASSUME rewrite_delete(request) PROVE HistoryInv'
  <2>1. /\ place[request] = "rewrite_delete" /\ cached' = <<>>
        /\ UNCHANGED <<full, keep, todo, turns, deleted, torn>>
        /\ place' = [place EXCEPT ![request] = "rewrite_insert"]
    BY <1>8 DEF rewrite_delete, Goto
  <2>2. cached' \in H /\ place'[request] = "rewrite_insert"
    BY <1>1, <1>3, <2>1
  <2>3. HistoryTypes'
    BY <1>1, <1>2, <2>1, <2>2
  <2>4. PICK c \in Seq(Entry) : c = todo[request]
    BY <1>1
  <2>5. <<>> \o c = c
    OBVIOUS
  <2>6. Sound(c) /\ Complete(c) /\ Len(c) >= 1
    BY <1>1, <2>1, <2>4 DEF Deleting
  <2>7. cached' \o todo'[request] = c
    BY <2>1, <2>4, <2>5
  <2>8. Inserting'
    BY <2>1, <2>4, <2>6, <2>7 DEF Inserting, Sound, Complete
  <2>9. Sound(cached)'
    BY <1>4, <2>1, SoundEmpty DEF Sound
  <2>10. QED
    BY <2>2, <2>3, <2>8, <2>9 DEF HistoryInv
<1>9. ASSUME rewrite_insert(request) PROVE HistoryInv'
  <2>1. PICK a \in Seq(Entry) : a = cached
    BY <1>1
  <2>2. PICK b \in Seq(Entry) : b = todo[request]
    BY <1>1
  <2>3. /\ place[request] = "rewrite_insert" /\ cached' = Append(a, Head(b))
        /\ todo' = [todo EXCEPT ![request] = Tail(b)]
        /\ UNCHANGED <<full, keep, turns, deleted, torn>>
    BY <1>9, <2>1, <2>2 DEF rewrite_insert
  <2>4. place' = [place EXCEPT ![request] = IF Len(b) = 1 THEN "answer" ELSE "rewrite_insert"]
    BY <1>9, <2>2 DEF rewrite_insert, Goto
  <2>5. Sound(a \o b) /\ Complete(a \o b) /\ Len(b) >= 1
    BY <1>1, <2>1, <2>2, <2>3 DEF Inserting
  <2>6. /\ Append(a, Head(b)) \in Seq(Entry) /\ Tail(b) \in Seq(Entry)
        /\ Append(a, Head(b)) \o Tail(b) = a \o b
        /\ Len(Tail(b)) = Len(b) - 1
        /\ Len(b) = 1 => Append(a, Head(b)) = a \o b
    BY <2>5, InsertJoins
  <2>7. PICK c \in Seq(Entry) : c = Append(a, Head(b))
    BY <2>6
  <2>8. PICK d \in Seq(Entry) : d = Tail(b)
    BY <2>6
  <2>9. cached' = c /\ todo'[request] = d /\ todo' \in [{request} -> H]
    BY <1>2, <1>4, <2>3, <2>7, <2>8
  <2>10. HistoryTypes'
    BY <1>1, <1>2, <2>3, <2>4, <2>9
  <2>11. c \o d = a \o b /\ Len(d) = Len(b) - 1 /\ (Len(b) = 1 => c = a \o b)
    BY <2>6, <2>7, <2>8
  <2>12. Sound(cached)'
    <3>1. PICK q : q = c \o d
      OBVIOUS
    <3>2. Ordered(q) /\ Covered(q) \subseteq 1..turns
      BY <2>5, <2>11, <3>1 DEF Sound
    <3>3. Covered(c) \subseteq 1..turns
      BY <3>1, <3>2, Joined
    <3>4. Ordered(c)
      BY <3>1, <3>2, JoinedOrdered
    <3>5. QED
      BY <2>3, <2>9, <3>3, <3>4 DEF Sound
  <2>13. CASE Len(b) = 1
    <3>1. place'[request] = "answer" /\ cached' = a \o b
      BY <1>1, <2>4, <2>9, <2>11, <2>13
    <3>2. Complete(cached)'
      BY <2>3, <2>5, <3>1 DEF Complete
    <3>3. QED
      BY <2>10, <2>12, <3>1, <3>2 DEF HistoryInv
  <2>14. CASE Len(b) # 1
    <3>1. place'[request] = "rewrite_insert" /\ Len(d) >= 1
      BY <1>1, <2>4, <2>5, <2>11, <2>14
    <3>2. cached' \o todo'[request] = a \o b
      BY <2>9, <2>11
    <3>3. Inserting'
      BY <2>3, <2>5, <2>9, <3>1, <3>2 DEF Inserting, Sound, Complete
    <3>4. QED
      BY <2>10, <2>12, <3>1, <3>3 DEF HistoryInv
  <2>15. QED
    BY <2>13, <2>14
<1>10. ASSUME rewrite_fails(request) PROVE HistoryInv'
  <2>1. /\ UNCHANGED <<cached, full, keep, turns, deleted>>
        /\ torn' = (torn \/ place[request] = "rewrite_insert")
        /\ todo' = [todo EXCEPT ![request] = <<>>]
        /\ place' = [place EXCEPT ![request] = "answer"]
    BY <1>10 DEF rewrite_fails, Goto
  <2>2. todo' \in [{request} -> H] /\ place'[request] = "answer" /\ torn' \in BOOLEAN
    BY <1>1, <1>3, <1>4, <2>1
  <2>3. HistoryTypes'
    BY <1>1, <1>2, <2>1, <2>2
  <2>4. Sound(cached)'
    BY <1>1, <2>1 DEF Sound
  <2>5. Complete(cached)'
    BY <1>1, <2>1 DEF Complete
  <2>6. QED
    BY <2>2, <2>3, <2>4, <2>5 DEF HistoryInv
<1>11. ASSUME NEW n \in 1..MaxTokens, store_conversation_history(request, n)
       PROVE  HistoryInv'
  <2>1. PICK a \in Seq(Entry) : a = cached
    BY <1>1
  <2>2. PICK e : e = [turns |-> {turns + 1}, tokens |-> n]
    OBVIOUS
  <2>3. e \in Entry /\ e.turns = {turns + 1}
    BY <1>4, <2>2 DEF Entry
  <2>4. /\ place[request] = "answer" /\ turns' = turns + 1 /\ cached' = Append(a, e)
        /\ place' = [place EXCEPT ![request] = "idle"] /\ UNCHANGED <<deleted, torn>>
        /\ full' = [full EXCEPT ![request] = <<>>] /\ keep' = [keep EXCEPT ![request] = <<>>]
        /\ todo' = [todo EXCEPT ![request] = <<>>]
    BY <1>11, <2>1, <2>2 DEF store_conversation_history, End, Goto
  <2>5. PICK c \in Seq(Entry) : c = Append(a, e)
    <3>1. PICK x \in Entry : x = e
      BY <2>3
    <3>2. Append(a, x) \in Seq(Entry)
      OBVIOUS
    <3>3. QED
      BY <3>1, <3>2
  <2>6. /\ Len(a) \in Nat /\ Len(c) = Len(a) + 1 /\ c[Len(a) + 1] = e
        /\ \A i \in 1..Len(a) : c[i] = a[i]
    BY <2>3, <2>5
  <2>7. /\ full' \in [{request} -> H] /\ keep' \in [{request} -> H] /\ todo' \in [{request} -> H]
        /\ cached' \in H /\ turns' \in Nat /\ place'[request] = "idle"
    BY <1>1, <1>2, <1>3, <1>4, <2>4, <2>5
  <2>8. HistoryTypes'
    BY <1>1, <1>2, <2>4, <2>7
  <2>9. Sound(a) /\ Complete(a)
    BY <1>1, <2>1, <2>4
  <2>10. \A t : t \in Covered(c) <=> t \in Covered(a) \/ t = turns + 1
    <3>1. ASSUME NEW t PROVE t \in Covered(c) => t \in Covered(a) \/ t = turns + 1
      <4>1. SUFFICES ASSUME NEW i \in 1..(Len(a) + 1), t \in c[i].turns
                     PROVE  t \in Covered(a) \/ t = turns + 1
        BY <2>6, CoveredMember
      <4>2. CASE i = Len(a) + 1
        BY <2>3, <2>6, <4>1, <4>2
      <4>3. CASE i # Len(a) + 1
        <5>1. i \in 1..Len(a)
          BY <2>6, <4>3
        <5>2. QED
          BY <2>6, <4>1, <5>1, CoveredMember
      <4>4. QED
        BY <4>2, <4>3
    <3>2. ASSUME NEW t, t \in Covered(a) PROVE t \in Covered(c)
      <4>1. PICK i \in 1..Len(a) : t \in a[i].turns
        BY <3>2, CoveredMember
      <4>2. i \in 1..Len(c) /\ t \in c[i].turns
        BY <2>6, <4>1
      <4>3. QED
        BY <4>2, CoveredMember
    <3>3. turns + 1 \in Covered(c)
      <4>1. Len(a) + 1 \in 1..Len(c) /\ turns + 1 \in c[Len(a) + 1].turns
        BY <2>3, <2>6
      <4>2. QED
        BY <4>1, CoveredMember
    <3>4. QED
      BY <3>1, <3>2, <3>3
  <2>11. Ordered(c)
    <3> SUFFICES ASSUME NEW i \in 1..(Len(a) + 1), NEW j \in 1..(Len(a) + 1), i < j,
                        NEW s \in c[i].turns, NEW t \in c[j].turns
                 PROVE  s < t
      BY <2>6 DEF Ordered
    <3>1. i \in 1..Len(a) /\ s \in a[i].turns
      BY <2>6
    <3>2. CASE j \in 1..Len(a)
      BY <2>6, <2>9, <3>1, <3>2 DEF Sound, Ordered
    <3>3. CASE j \notin 1..Len(a)
      <4>1. j = Len(a) + 1
        BY <2>6, <3>3
      <4>2. t = turns + 1
        BY <2>3, <2>6, <4>1
      <4>3. s \in 1..turns
        BY <2>9, <3>1, CoveredMember DEF Sound
      <4>4. QED
        BY <1>4, <4>2, <4>3
    <3>4. QED
      BY <3>2, <3>3
  <2>12. Sound(cached)'
    <3>1. Covered(c) \subseteq 1..(turns + 1)
      BY <1>4, <2>9, <2>10 DEF Sound
    <3>2. QED
      BY <2>4, <2>5, <2>11, <3>1 DEF Sound
  <2>13. Complete(cached)'
    <3>1. \A t \in 1..(turns + 1) : t \in 1..turns \/ t = turns + 1
      BY <1>4
    <3>2. torn \/ 1..(turns + 1) \subseteq Covered(c) \cup deleted
      BY <2>9, <2>10, <3>1 DEF Complete
    <3>3. QED
      BY <2>4, <2>5, <3>2 DEF Complete
  <2>14. QED
    BY <2>7, <2>8, <2>12, <2>13 DEF HistoryInv
<1>12. ASSUME abandon(request) PROVE HistoryInv'
  <2>1. /\ place[request] \in {"summarize", "answer"} /\ UNCHANGED <<cached, turns, deleted, torn>>
        /\ place' = [place EXCEPT ![request] = "idle"]
        /\ full' = [full EXCEPT ![request] = <<>>] /\ keep' = [keep EXCEPT ![request] = <<>>]
        /\ todo' = [todo EXCEPT ![request] = <<>>]
    BY <1>12 DEF abandon, End, Goto
  <2>2. /\ full' \in [{request} -> H] /\ keep' \in [{request} -> H] /\ todo' \in [{request} -> H]
        /\ place'[request] = "idle"
    BY <1>1, <1>3, <1>4, <2>1
  <2>3. HistoryTypes'
    BY <1>1, <1>2, <2>1, <2>2
  <2>4. Sound(cached)' /\ Complete(cached)'
    BY <1>1, <2>1 DEF Sound, Complete
  <2>5. QED
    BY <2>2, <2>3, <2>4 DEF HistoryInv
<1>13. ASSUME delete_conversation PROVE HistoryInv'
  <2>1. /\ cached' = <<>> /\ deleted' = deleted \cup Covered(cached)
        /\ UNCHANGED <<place, full, keep, todo, turns, torn>>
    BY <1>13 DEF delete_conversation, local
  <2>2. HistoryTypes'
    BY <1>1, <1>2, <1>3, <2>1
  <2>3. Sound(cached)'
    BY <1>4, <2>1, SoundEmpty DEF Sound
  <2>4. ASSUME NEW h, Complete(h) PROVE torn \/ 1..turns \subseteq Covered(h) \cup deleted'
    BY <2>1, <2>4 DEF Complete
  <2>5. Complete(cached) => Complete(cached)'
    BY <2>1 DEF Complete
  <2>6. Summarizing => Summarizing'
    BY <2>1, <2>4 DEF Summarizing, Sound, Complete
  <2>7. Deleting => Deleting'
    BY <2>1, <2>4 DEF Deleting, Sound, Complete
  <2>8. Inserting => Inserting'
    <3> SUFFICES ASSUME Inserting PROVE Inserting'
      OBVIOUS
    <3>1. PICK a \in Seq(Entry) : a = cached
      BY <1>1
    <3>2. PICK b \in Seq(Entry) : b = todo[request]
      BY <1>1
    <3>3. Sound(a \o b) /\ Complete(a \o b) /\ Len(b) >= 1
      BY <3>1, <3>2 DEF Inserting
    <3>4. Ordered(b) /\ Covered(b) \subseteq 1..turns
      <4>1. PICK q : q = a \o b
        OBVIOUS
      <4>2. Ordered(q) /\ Covered(q) \subseteq 1..turns
        BY <3>3, <4>1 DEF Sound
      <4>3. Covered(b) \subseteq 1..turns
        BY <4>1, <4>2, Joined
      <4>4. Ordered(b)
        BY <4>1, <4>2, JoinedOrdered
      <4>5. QED
        BY <4>3, <4>4
    <3>5. torn \/ 1..turns \subseteq Covered(b) \cup deleted'
      BY <2>1, <3>1, <3>3, Joined DEF Complete
    <3>6. cached' \o todo'[request] = b
      <4>1. <<>> \o b = b
        OBVIOUS
      <4>2. QED
        BY <2>1, <3>2, <4>1
    <3>7. QED
      BY <2>1, <3>2, <3>3, <3>4, <3>5, <3>6 DEF Inserting, Sound, Complete
  <2>9. QED
    BY <1>1, <2>1, <2>2, <2>3, <2>5, <2>6, <2>7, <2>8 DEF HistoryInv
<1>14. CASE UNCHANGED historyVars
  <2>1. UNCHANGED <<cached, place, full, keep, todo, turns, deleted, torn>>
    BY <1>14 DEF historyVars
  <2>2. QED
    BY <1>1, <2>1 DEF HistoryInv, Sound, Complete, Summarizing, Deleting, Inserting
<1>15. QED
  BY <1>5, <1>6, <1>7, <1>8, <1>9, <1>10, <1>11, <1>12, <1>13, <1>14
     DEF HistoryNext, HistoryStep, OneAtATime

\* The invariant of the compressions holds for every conversation.
LEMMA HistoryAlways ==
    ASSUME OneAtATime
    PROVE  HistorySpec => []HistoryInv
<1>1. HistoryInit => HistoryInv
  <2> SUFFICES ASSUME HistoryInit PROVE HistoryInv
    OBVIOUS
  <2>1. PICK H : H = Seq(Entry)
    OBVIOUS
  <2>2. <<>> \in H
    BY <2>1, EmptySeq
  <2>3. /\ cached = <<>> /\ turns = 0 /\ torn = FALSE /\ place = [r \in {request} |-> "idle"]
        /\ full = [r \in {request} |-> <<>>] /\ keep = [r \in {request} |-> <<>>]
        /\ todo = [r \in {request} |-> <<>>]
    BY DEF HistoryInit, OneAtATime
  <2>4. place[request] = "idle" /\ 1..turns = {}
    BY <2>3
  <2>5. HistoryTypes
    BY <2>1, <2>2, <2>3 DEF HistoryTypes
  <2>6. Sound(cached) /\ Complete(cached)
    BY <2>3, <2>4, SoundEmpty DEF Complete
  <2>7. QED
    BY <2>4, <2>5, <2>6 DEF HistoryInv
<1>2. HistoryInv /\ [HistoryNext]_historyVars => HistoryInv'
  BY HistorySteps
<1>3. QED
  BY <1>1, <1>2, PTL DEF HistorySpec

\* prepare_history, one request at a time: the summary and the entries kept tell
\* about every turn that was read, each once, and take no more entries than it did.
THEOREM CompressionIsFaithful ==
    ASSUME OneAtATime
    PROVE  HistorySpec => []CompressionFaithful
<1>1. HistoryInv => CompressionFaithful
  <2> SUFFICES ASSUME HistoryInv, place[request] = "rewrite_delete"
               PROVE  /\ Covered(todo[request]) = Covered(full[request])
                      /\ \A i, j \in 1..Len(todo[request]) : i < j =>
                           \A s \in todo[request][i].turns, t \in todo[request][j].turns : s < t
                      /\ Len(todo[request]) <= Len(full[request])
                      /\ Len(full[request]) > 1 => Len(todo[request]) < Len(full[request])
    BY DEF CompressionFaithful, OneAtATime
  <2>1. Deleting
    BY DEF HistoryInv
  <2>2. PICK c \in Seq(Entry) : c = todo[request]
    BY DEF HistoryInv, HistoryTypes
  <2>3. Ordered(c)
    BY <2>1, <2>2 DEF Deleting, Sound
  <2>4. \A i, j \in 1..Len(c) : i < j => \A s \in c[i].turns, t \in c[j].turns : s < t
    BY <2>3 DEF Ordered
  <2>5. QED
    BY <2>1, <2>2, <2>4 DEF Deleting
<1>2. QED
  BY <1>1, HistoryAlways, PTL

\* _rewrite_cache and store_conversation_history, one request at a time: whatever
\* number of compressions, failed summaries and abandoned requests came before,
\* every stored turn is in the history, unless it was deleted or a rewrite failed.
THEOREM NoTurnLost ==
    ASSUME OneAtATime
    PROVE  HistorySpec => []NothingLost
<1>1. HistoryInv => NothingLost
  BY DEF HistoryInv, Complete, NothingLost, Rewriting, OneAtATime
<1>2. QED
  BY <1>1, HistoryAlways, PTL

\* The stored history is in order in every state, also between the delete and the
\* last insert of _rewrite_cache and after a deletion in between.
THEOREM HistoryInOrder ==
    ASSUME OneAtATime
    PROVE  HistorySpec => []InOrder
<1>1. HistoryInv => InOrder
  BY DEF HistoryInv, Sound, Ordered, InOrder
<1>2. QED
  BY <1>1, HistoryAlways, PTL
=============================================================================
