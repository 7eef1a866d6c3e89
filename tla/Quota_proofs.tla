---------------------------- MODULE Quota_proofs ----------------------------
(***************************************************************************)
(* Guarantees of the quota tables for any users, limiters, replicas and    *)
(* concurrent requests.                                                    *)
(*                                                                         *)
(* DebitsLand needs to know how far the check has come: the rows of the    *)
(* limiters before `index' exist (Checked).  OncePerPeriod needs the age   *)
(* of the last update rather than the clock (Paced).  OverdraftBounded and *)
(* HistoryCoversDebits are about sums over the requests, written here as   *)
(* cardinalities: of the debits that are still pending against a row       *)
(* (Backed), and of the recorded tokens not yet debited (Recorded), both   *)
(* of which need to know where a request's debits start (Placed).          *)
(***************************************************************************)
EXTENDS Quota, FiniteSetTheorems, TLAPS

\* The limiters that a request has already asked have a row for its subject.
Checked ==
    \A r \in Request :
        pc[r] \in {"check", "init"} =>
            /\ index[r] \in 1..Len(Limiters)
            /\ \A l \in 1..Len(Limiters) : l < index[r] => Subject(l, user[r]) \in rows

\* The scheduler's changes to a row fit between its insertion and its last change.
Paced ==
    /\ \A x \in Row \ rows : updates[x] = 0
    /\ \A x \in rows : created_at[x] <= revoked_at[x] /\ revoked_at[x] <= now
    /\ \A x \in rows, l \in 1..Len(Limiters) :
          /\ l \in LimitersOf(x)
          /\ \A m \in LimitersOf(x) : Limiters[l].period <= Limiters[m].period
          => updates[x] * (Limiters[l].period + 1) <= revoked_at[x] - created_at[x]

\* The limiters of row x that request r may still debit: having passed one of
\* them it may come to debit them all, and then debits one after the other.
Owes(r, x) ==
    {l \in LimitersOf(x) :
        /\ Subject(l, user[r]) = x
        /\ \/ pc[r] \in {"llm", "store", "history"}
           \/ pc[r] \in {"check", "init"} /\ \E m \in LimitersOf(x) : m < index[r]
           \/ pc[r] = "consume" /\ index[r] <= l}

Pending(x) == {d \in Request \X (1..Len(Limiters)) : d[2] \in Owes(d[1], x)}

\* What is pending against a row costs no more than its balance may fall.
Floor(x) == Cardinality(Request) * Cardinality(LimitersOf(x)) * MaxTokens
Backed == \A x \in rows : available[x] > MaxTokens * Cardinality(Pending(x)) - Floor(x)

\* The debits of a request start at the first limiter.
Placed ==
    \A r \in Request :
        /\ pc[r] \in {"store", "history"} => index[r] = 1
        /\ pc[r] = "consume" => index[r] \in 1..Len(Limiters)

\* The tokens, one by one, that are in the history of u and not yet debited.
Unpaid(u) ==
    {t \in (Request \X (1..Len(Limiters))) \X (1..MaxTokens) :
        LET r == t[1][1]
            l == t[1][2]
        IN  /\ pc[r] = "consume" /\ user[r] = u
            /\ l \in LimitersOf(u) /\ index[r] <= l
            /\ t[2] <= tokens[r]}

Recorded ==
    /\ \A x \in Row \ rows : granted[x] = available[x]
    /\ \A u \in User : granted[u] - available[u] + Cardinality(Unpaid(u))
                          <= Cardinality(LimitersOf(u)) * token_usage[u]

-----------------------------------------------------------------------------
(* Facts about the configuration *)

LEMMA LimiterType ==
    ASSUME NEW l \in 1..Len(Limiters)
    PROVE  Limiters[l] \in LimiterConfig
  BY LimitersAssumption

LEMMA LimiterFields ==
    ASSUME NEW l \in 1..Len(Limiters)
    PROVE  /\ Limiters[l].initial_quota \in Nat
           /\ Limiters[l].quota_increase \in Nat \cup {None}
           /\ Limiters[l].period \in Nat
  BY LimiterType DEF LimiterConfig

LEMMA SubjectType ==
    ASSUME NEW l, NEW u \in User
    PROVE  Subject(l, u) \in Row
  BY DEF Subject, Row

LEMMA LengthType == Len(Limiters) \in Nat /\ (Limiters = <<>> <=> Len(Limiters) = 0)
  BY LimitersAssumption

-----------------------------------------------------------------------------
(* Types *)

LEMMA ApplyType ==
    ASSUME TypeOK, NEW S \in SUBSET rows, NEW b \in [S -> Int], Apply(S, b)
    PROVE  /\ rows' \in SUBSET Row
           /\ available' \in [Row -> Int]
           /\ revoked_at' \in [Row -> Nat]
           /\ created_at' \in [Row -> Nat]
           /\ updates' \in [Row -> Nat]
           /\ granted' \in [Row -> Int]
  BY MaxTimeAssumption DEF Apply, TypeOK

LEMMA AdvanceType ==
    ASSUME TypeOK, NEW p \in Replica, NEW k \in 1..2 * Len(Limiters), Advance(p, k)
    PROVE  statement' \in [Replica -> 0..2 * Len(Limiters)]
<1>1. 2 * Len(Limiters) \in Nat
  BY LengthType
<1> DEFINE last == 2 * Len(Limiters)
<1>2. statement' = [statement EXCEPT ![p] = IF k = last THEN 0 ELSE k + 1]
  BY DEF Advance
<1>3. statement \in [Replica -> 0..last]
  BY DEF TypeOK
<1> HIDE DEF last
<1>4. k \in 1..last /\ last \in Nat
  BY <1>1 DEF last
<1>5. statement' \in [Replica -> 0..last]
  BY <1>2, <1>3, <1>4
<1>6. QED
  BY <1>5 DEF last

LEMMA EnsureType ==
    ASSUME TypeOK, NEW r \in Request, NEW balance, ensure_available_quota(r, balance)
    PROVE  pc' \in [Request -> Label] /\ index' \in [Request -> Nat \ {0}]
<1>1. CASE balance <= 0
  BY <1>1 DEF ensure_available_quota, Goto, TypeOK, Label
<1>2. CASE ~(balance <= 0)
  BY <1>2 DEF ensure_available_quota, Goto, TypeOK, Label
<1>3. QED
  BY <1>1, <1>2

LEMMA TypeStep == TypeOK /\ Checked /\ [Next]_vars => TypeOK'
<1> SUFFICES ASSUME TypeOK, Checked, [Next]_vars PROVE TypeOK'
  OBVIOUS
<1> USE MaxTokensAssumption, MaxTimeAssumption
    DEF TypeOK, tables, requestVars, schedulerVars, historyVars, Goto, Label, Ended
<1>1. ASSUME NEW r \in Request, NEW u \in User, arrive(r, u) PROVE TypeOK'
  BY <1>1 DEF arrive
<1>2. ASSUME NEW r \in Request, available_quota(r) PROVE TypeOK'
  <2> DEFINE x == Subject(index[r], user[r])
  <2>1. CASE x \in rows
    <3>1. ensure_available_quota(r, available[x])
      BY <1>2, <2>1, Zenon DEF available_quota
    <3>2. QED
      BY <1>2, <3>1, EnsureType DEF available_quota
  <2>2. CASE x \notin rows
    BY <1>2, <2>2 DEF available_quota
  <2>3. QED
    BY <2>1, <2>2
<1>3. ASSUME NEW r \in Request, init_quota(r) PROVE TypeOK'
  <2> DEFINE x == Subject(index[r], user[r])
             q == Limiters[index[r]].initial_quota
  <2>1. CASE x \in rows
    BY <1>3, <2>1 DEF init_quota
  <2>2. CASE x \notin rows
    <3>1. x \in Row
      BY SubjectType
    <3>2. q \in Nat
      BY <1>3, LimiterFields DEF init_quota, Checked
    <3>3. /\ rows' = rows \cup {x}
          /\ available' = [available EXCEPT ![x] = q]
          /\ revoked_at' = [revoked_at EXCEPT ![x] = now]
          /\ created_at' = [created_at EXCEPT ![x] = now]
          /\ granted' = [granted EXCEPT ![x] = q]
          /\ ensure_available_quota(r, q)
          /\ UNCHANGED <<now, token_usage, user, tokens, statement, alive, updates>>
      BY <1>3, <2>2 DEF init_quota
    <3> HIDE DEF x, q
    <3>4. pc' \in [Request -> Label] /\ index' \in [Request -> Nat \ {0}]
      BY <3>3, EnsureType, Zenon
    <3>5. /\ available' \in [Row -> Int]
          /\ revoked_at' \in [Row -> Nat]
          /\ created_at' \in [Row -> Nat]
          /\ granted' \in [Row -> Int]
      BY <3>1, <3>2, <3>3
    <3>6. rows' \in SUBSET Row
      BY <3>1, <3>3
    <3>7. QED
      BY <3>3, <3>4, <3>5, <3>6
  <2>3. QED
    BY <2>1, <2>2
<1>4. ASSUME NEW r \in Request, NEW n \in 0..MaxTokens, generate_response(r, n) PROVE TypeOK'
  BY <1>4 DEF generate_response
<1>5. ASSUME NEW r \in Request, disconnect(r) PROVE TypeOK'
  BY <1>5 DEF disconnect
<1>6. ASSUME NEW r \in Request, store_conversation_history(r) PROVE TypeOK'
  BY <1>6 DEF store_conversation_history
<1>7. ASSUME NEW r \in Request, consume_tokens_history(r) PROVE TypeOK'
  BY <1>7 DEF consume_tokens_history
<1>8. ASSUME NEW r \in Request, consume_tokens(r) PROVE TypeOK'
  <2> DEFINE x == Subject(index[r], user[r])
  <2>1. available' = [available EXCEPT ![x] = IF x \in rows THEN @ - tokens[r] ELSE @]
    BY <1>8 DEF consume_tokens
  <2>2. x \in Row /\ tokens[r] \in Int
    BY SubjectType
  <2>3. available' \in [Row -> Int]
    BY <2>1, <2>2
  <2>4. pc' \in [Request -> Label]
    <3>1. pc' = [pc EXCEPT ![r] = "reply"] \/ pc' = [pc EXCEPT ![r] = "consume"]
      BY <1>8, Zenon DEF consume_tokens, Goto
    <3>2. QED
      BY <3>1
  <2>5. index' \in [Request -> Nat \ {0}]
    BY <1>8 DEF consume_tokens
  <2>6. UNCHANGED <<now, rows, revoked_at, token_usage, user, tokens, statement, alive,
                    created_at, updates, granted>>
    BY <1>8 DEF consume_tokens
  <2>7. QED
    BY <2>3, <2>4, <2>5, <2>6
<1>9. ASSUME NEW r \in Request, get_available_quotas(r) PROVE TypeOK'
  BY <1>9 DEF get_available_quotas
<1>10. ASSUME NEW r \in Request, fail(r) PROVE TypeOK'
  BY <1>10 DEF fail
<1>11. ASSUME NEW p \in Replica, NEW l \in 1..Len(Limiters), increase_quota(p, l)
       PROVE  TypeOK'
  <2>1. statement' \in [Replica -> 0..2 * Len(Limiters)]
    <3>1. 2 * l - 1 \in 1..2 * Len(Limiters)
      BY LengthType
    <3>2. QED
      BY <1>11, <3>1, AdvanceType DEF increase_quota
  <2>2. CASE alive[p] /\ Limiters[l].quota_increase # None
    <3>1. Due(l) \in SUBSET rows
      BY DEF Due
    <3> DEFINE b == [x \in Due(l) |-> available[x] + Limiters[l].quota_increase]
    <3>2. b \in [Due(l) -> Int]
      BY <2>2, <3>1, LimiterFields DEF TypeOK
    <3>3. Apply(Due(l), b)
      BY <1>11, <2>2 DEF increase_quota
    <3> HIDE DEF b
    <3>4. QED
      BY <1>11, <2>1, <3>1, <3>2, <3>3, ApplyType DEF increase_quota, TypeOK, requestVars
  <2>3. CASE ~(alive[p] /\ Limiters[l].quota_increase # None)
    BY <1>11, <2>1, <2>3 DEF increase_quota, TypeOK, requestVars, historyVars
  <2>4. QED
    BY <2>2, <2>3
<1>12. ASSUME NEW p \in Replica, NEW l \in 1..Len(Limiters), reset_quota(p, l)
       PROVE  TypeOK'
  <2>1. statement' \in [Replica -> 0..2 * Len(Limiters)]
    <3>1. 2 * l \in 1..2 * Len(Limiters)
      BY LengthType
    <3>2. QED
      BY <1>12, <3>1, AdvanceType DEF reset_quota
  <2>2. CASE alive[p] /\ Limiters[l].initial_quota > 0
    <3>1. Due(l) \in SUBSET rows
      BY DEF Due
    <3> DEFINE b == [x \in Due(l) |-> Limiters[l].initial_quota]
    <3>2. b \in [Due(l) -> Int]
      BY <2>2, <3>1, LimiterFields DEF TypeOK
    <3>3. Apply(Due(l), b)
      BY <1>12, <2>2 DEF reset_quota
    <3> HIDE DEF b
    <3>4. QED
      BY <1>12, <2>1, <3>1, <3>2, <3>3, ApplyType DEF reset_quota, TypeOK, requestVars
  <2>3. CASE ~(alive[p] /\ Limiters[l].initial_quota > 0)
    BY <1>12, <2>1, <2>3 DEF reset_quota, TypeOK, requestVars, historyVars
  <2>4. QED
    BY <2>2, <2>3
<1>13. ASSUME NEW p \in Replica, wake(p) \/ connection_lost(p) \/ restart(p) PROVE TypeOK'
  <2>1. CASE wake(p)
    <3>1. 1 \in 0..2 * Len(Limiters)
      BY <2>1, LengthType DEF wake
    <3>2. QED
      BY <2>1, <3>1 DEF wake
  <2>2. CASE connection_lost(p)
    BY <2>2 DEF connection_lost
  <2>3. CASE restart(p)
    <3>1. 0 \in 0..2 * Len(Limiters)
      BY LengthType
    <3>2. QED
      BY <2>3, <3>1 DEF restart
  <2>4. QED
    BY <1>13, <2>1, <2>2, <2>3
<1>14. ASSUME tick PROVE TypeOK'
  BY <1>14 DEF tick
<1>15. CASE UNCHANGED vars
  BY <1>15 DEF vars
<1>16. QED
  BY <1>1, <1>2, <1>3, <1>4, <1>5, <1>6, <1>7, <1>8, <1>9, <1>10, <1>11, <1>12, <1>13, <1>14,
     <1>15 DEF Next, Handle, Schedule

-----------------------------------------------------------------------------
(* The checks and the rows *)

\* A limiter that agrees: its subject has a row, and the request goes on.
LEMMA EnsureChecked ==
    ASSUME TypeOK, Checked, DebitsLand, NEW r \in Request, NEW balance,
           pc[r] \in {"check", "init"}, ensure_available_quota(r, balance),
           rows \subseteq rows', Subject(index[r], user[r]) \in rows', UNCHANGED user
    PROVE  Checked' /\ DebitsLand'
<1>1. index[r] \in 1..Len(Limiters) /\ index[r] \in Nat /\ Len(Limiters) \in Nat
  BY LengthType DEF Checked, TypeOK
<1>2. \A l \in 1..Len(Limiters) : l < index[r] + 1 => Subject(l, user[r]) \in rows'
  BY <1>1 DEF Checked
<1>3. CASE balance <= 0
  BY <1>3 DEF ensure_available_quota, Goto, TypeOK, Checked, DebitsLand
<1>4. CASE ~(balance <= 0)
  <2>1. index' = [index EXCEPT ![r] = index[r] + 1]
    BY <1>4 DEF ensure_available_quota
  <2>2. CASE index[r] = Len(Limiters)
    <3>1. pc' = [pc EXCEPT ![r] = "llm"]
      BY <1>4, <2>2 DEF ensure_available_quota, Goto
    <3>2. \A l \in 1..Len(Limiters) : Subject(l, user[r]) \in rows'
      BY <1>1, <1>2, <2>2
    <3>3. Checked'
      BY <2>1, <3>1 DEF TypeOK, Checked
    <3>4. DebitsLand'
      BY <3>1, <3>2 DEF TypeOK, DebitsLand
    <3>5. QED
      BY <3>3, <3>4
  <2>3. CASE index[r] # Len(Limiters)
    <3>1. pc' = [pc EXCEPT ![r] = "check"]
      BY <1>4, <2>3 DEF ensure_available_quota, Goto
    <3>2. index[r] + 1 \in 1..Len(Limiters)
      BY <1>1, <2>3
    <3>3. Checked'
      BY <1>2, <2>1, <3>1, <3>2 DEF TypeOK, Checked
    <3>4. DebitsLand'
      BY <3>1 DEF TypeOK, DebitsLand
    <3>5. QED
      BY <3>3, <3>4
  <2>4. QED
    BY <2>2, <2>3
<1>5. QED
  BY <1>3, <1>4

LEMMA CheckedStep == TypeOK /\ Checked /\ DebitsLand /\ [Next]_vars => Checked' /\ DebitsLand'
<1> SUFFICES ASSUME TypeOK, Checked, DebitsLand, [Next]_vars PROVE Checked' /\ DebitsLand'
  OBVIOUS
\* Steps of the scheduler and of the clock: rows stay.
<1>a. ASSUME UNCHANGED <<pc, user, index, rows>> PROVE Checked' /\ DebitsLand'
  BY <1>a DEF Checked, DebitsLand
\* Steps of a request that has passed the check.
<1>b. ASSUME NEW r \in Request, NEW label, UNCHANGED <<user, rows>>,
             label \notin {"check", "init"}, Goto(r, label),
             \A t \in Request : t # r => index'[t] = index[t],
             label \in {"llm", "store", "history", "consume"} =>
                pc[r] \in {"llm", "store", "history", "consume"}
      PROVE  Checked' /\ DebitsLand'
  BY <1>b DEF Goto, TypeOK, Checked, DebitsLand
<1>1. ASSUME NEW r \in Request, NEW u \in User, arrive(r, u) PROVE Checked' /\ DebitsLand'
  <2>1. CASE Limiters = <<>>
    BY <1>1, <2>1, LengthType DEF arrive, Goto, TypeOK, Checked, DebitsLand, tables
  <2>2. CASE Limiters # <<>>
    <3>1. 1 \in 1..Len(Limiters) /\ \A l \in 1..Len(Limiters) : ~(l < 1)
      BY <2>2, LengthType
    <3>2. /\ pc' = [pc EXCEPT ![r] = "check"]
          /\ user' = [user EXCEPT ![r] = u]
          /\ index' = [index EXCEPT ![r] = 1]
          /\ rows' = rows
      BY <1>1, <2>2 DEF arrive, Goto, tables
    <3>3. QED
      BY <3>1, <3>2 DEF TypeOK, Checked, DebitsLand
  <2>3. QED
    BY <2>1, <2>2
<1>2. ASSUME NEW r \in Request, available_quota(r) PROVE Checked' /\ DebitsLand'
  <2> DEFINE x == Subject(index[r], user[r])
  <2>1. UNCHANGED <<rows, user>> /\ pc[r] = "check"
    BY <1>2 DEF available_quota, tables
  <2>2. CASE x \in rows
    <3>1. ensure_available_quota(r, available[x])
      BY <1>2, <2>2, Zenon DEF available_quota
    <3>2. QED
      BY <2>1, <2>2, <3>1, EnsureChecked
  <2>3. CASE x \notin rows
    BY <1>2, <2>1, <2>3 DEF available_quota, Goto, TypeOK, Checked, DebitsLand
  <2>4. QED
    BY <2>2, <2>3
<1>3. ASSUME NEW r \in Request, init_quota(r) PROVE Checked' /\ DebitsLand'
  <2> DEFINE x == Subject(index[r], user[r])
             q == Limiters[index[r]].initial_quota
  <2>1. UNCHANGED user /\ pc[r] = "init"
    BY <1>3 DEF init_quota
  <2>2. CASE x \in rows
    BY <1>3, <2>2, <1>b DEF init_quota
  <2>3. CASE x \notin rows
    <3>1. ensure_available_quota(r, q) /\ rows' = rows \cup {x}
      BY <1>3, <2>3 DEF init_quota
    <3>2. QED
      BY <2>1, <3>1, EnsureChecked
  <2>4. QED
    BY <2>2, <2>3
<1>4. ASSUME NEW r \in Request, NEW n \in 0..MaxTokens, generate_response(r, n) PROVE Checked' /\ DebitsLand'
  BY <1>4, <1>b DEF generate_response, tables, TypeOK
<1>5. ASSUME NEW r \in Request, disconnect(r) PROVE Checked' /\ DebitsLand'
  BY <1>5, <1>b DEF disconnect, tables, TypeOK
<1>6. ASSUME NEW r \in Request, store_conversation_history(r) PROVE Checked' /\ DebitsLand'
  BY <1>6, <1>b DEF store_conversation_history, tables, TypeOK
<1>7. ASSUME NEW r \in Request, consume_tokens_history(r) PROVE Checked' /\ DebitsLand'
  BY <1>7, <1>b DEF consume_tokens_history
<1>8. ASSUME NEW r \in Request, consume_tokens(r) PROVE Checked' /\ DebitsLand'
  BY <1>8, <1>b DEF consume_tokens, TypeOK
<1>9. ASSUME NEW r \in Request, get_available_quotas(r) PROVE Checked' /\ DebitsLand'
  BY <1>9, <1>b DEF get_available_quotas, tables, TypeOK
<1>10. ASSUME NEW r \in Request, fail(r) PROVE Checked' /\ DebitsLand'
  BY <1>10, <1>b DEF fail, tables, TypeOK
<1>11. ASSUME NEW p \in Replica, NEW l \in 1..Len(Limiters), increase_quota(p, l)
       PROVE  Checked' /\ DebitsLand'
  BY <1>11, <1>a DEF increase_quota, Apply, tables, requestVars, schedulerVars, historyVars
<1>12. ASSUME NEW p \in Replica, NEW l \in 1..Len(Limiters), reset_quota(p, l)
       PROVE  Checked' /\ DebitsLand'
  BY <1>12, <1>a DEF reset_quota, Apply, tables, requestVars, schedulerVars, historyVars
<1>13. ASSUME NEW p \in Replica, wake(p) \/ connection_lost(p) \/ restart(p) PROVE Checked' /\ DebitsLand'
  BY <1>13, <1>a DEF wake, connection_lost, restart, Apply, tables, requestVars, schedulerVars, historyVars
<1>14. ASSUME tick PROVE Checked' /\ DebitsLand'
  BY <1>14, <1>a DEF tick, Apply, tables, requestVars, schedulerVars, historyVars
<1>15. CASE UNCHANGED vars
  BY <1>15, <1>a DEF vars
<1>16. QED
  BY <1>1, <1>2, <1>3, <1>4, <1>5, <1>6, <1>7, <1>8, <1>9, <1>10, <1>11, <1>12, <1>13, <1>14,
     <1>15 DEF Next, Handle, Schedule

-----------------------------------------------------------------------------
(* The scheduler's pace *)

LEMMA OneMorePeriod ==
    ASSUME NEW n \in Nat, NEW P \in Nat, NEW a \in Int, NEW d \in Int,
           n * (P + 1) <= a, P + 1 <= d
    PROVE  (n + 1) * (P + 1) <= a + d
<1>1. (n + 1) * (P + 1) = n * (P + 1) + (P + 1)
  OBVIOUS
<1>2. n * (P + 1) \in Int
  OBVIOUS
<1>3. QED
  BY <1>1, <1>2

\* A row that is due has not been changed for longer than the period of the
\* limiter, hence of the limiter with the shortest one.
LEMMA ApplyPaced ==
    ASSUME TypeOK, Paced, NEW l \in 1..Len(Limiters), NEW b, Apply(Due(l), b), UNCHANGED now
    PROVE  Paced'
<1>1. /\ rows' = rows
      /\ created_at' = created_at
      /\ updates' = [x \in Row |-> IF x \in Due(l) THEN updates[x] + 1 ELSE updates[x]]
      /\ revoked_at' = [x \in Row |-> IF x \in Due(l) THEN now ELSE revoked_at[x]]
  BY DEF Apply
<1>2. Due(l) \subseteq rows /\ rows \subseteq Row /\ now \in Int
  BY MaxTimeAssumption DEF Due, TypeOK
<1>3. \A x \in Row \ rows : updates'[x] = 0
  BY <1>1, <1>2 DEF Paced
<1>4. \A x \in rows : created_at[x] <= revoked_at'[x] /\ revoked_at'[x] <= now
  BY <1>1, <1>2 DEF Paced, TypeOK
<1>5. ASSUME NEW x \in rows, NEW m \in 1..Len(Limiters), m \in LimitersOf(x),
             \A k \in LimitersOf(x) : Limiters[m].period <= Limiters[k].period
      PROVE  updates'[x] * (Limiters[m].period + 1) <= revoked_at'[x] - created_at[x]
  <2> DEFINE P == Limiters[m].period
  <2>1. P \in Nat /\ updates[x] \in Nat /\ revoked_at[x] \in Nat /\ created_at[x] \in Nat
    BY <1>2, LimiterFields DEF TypeOK
  <2>2. updates[x] * (P + 1) <= revoked_at[x] - created_at[x]
    BY <1>5 DEF Paced
  <2>3. CASE x \in Due(l)
    <3>1. P <= Limiters[l].period /\ revoked_at[x] < now - Limiters[l].period
      BY <1>5, <2>3 DEF Due
    <3>2. Limiters[l].period \in Nat
      BY LimiterFields
    <3> HIDE DEF P
    <3>3. P + 1 <= now - revoked_at[x]
      BY <1>2, <2>1, <3>1, <3>2
    <3>4. (updates[x] + 1) * (P + 1)
            <= (revoked_at[x] - created_at[x]) + (now - revoked_at[x])
      BY <1>2, <2>1, <2>2, <3>3, OneMorePeriod, SMTT(30)
    <3>5. updates'[x] = updates[x] + 1 /\ revoked_at'[x] = now
      BY <1>1, <1>2, <2>3
    <3>6. (revoked_at[x] - created_at[x]) + (now - revoked_at[x]) = now - created_at[x]
      BY <1>2, <2>1
    <3>7. updates'[x] * (P + 1) <= revoked_at'[x] - created_at[x]
      BY <3>4, <3>5, <3>6
    <3>8. QED
      BY <3>7 DEF P
  <2>4. CASE x \notin Due(l)
    <3>1. updates'[x] = updates[x] /\ revoked_at'[x] = revoked_at[x]
      BY <1>1, <1>2, <2>4
    <3>2. QED
      BY <2>2, <3>1
  <2>5. QED
    BY <2>3, <2>4
<1>6. QED
  BY <1>1, <1>3, <1>4, <1>5 DEF Paced

LEMMA PacedStep == TypeOK /\ Checked /\ Paced /\ [Next]_vars => Paced'
<1> SUFFICES ASSUME TypeOK, Checked, Paced, [Next]_vars PROVE Paced'
  OBVIOUS
\* Steps that leave the scheduler's columns alone.
<1>a. ASSUME UNCHANGED <<now, rows, revoked_at, created_at, updates>> PROVE Paced'
  BY <1>a DEF Paced
<1>1. ASSUME NEW r \in Request, NEW u \in User, arrive(r, u) PROVE Paced'
  BY <1>1, <1>a DEF arrive, tables, historyVars
<1>2. ASSUME NEW r \in Request, available_quota(r) PROVE Paced'
  BY <1>2, <1>a DEF available_quota, tables, historyVars
<1>3. ASSUME NEW r \in Request, init_quota(r) PROVE Paced'
  <2> DEFINE x == Subject(index[r], user[r])
  <2>1. CASE x \in rows
    BY <1>3, <2>1, <1>a DEF init_quota, historyVars
  <2>2. CASE x \notin rows
    <3>1. /\ rows' = rows \cup {x}
          /\ revoked_at' = [revoked_at EXCEPT ![x] = now]
          /\ created_at' = [created_at EXCEPT ![x] = now]
          /\ UNCHANGED <<now, updates>>
      BY <1>3, <2>2 DEF init_quota
    <3>2. x \in Row /\ updates[x] = 0 /\ now \in Int
      BY <2>2, SubjectType, MaxTimeAssumption DEF Paced, TypeOK
    <3> HIDE DEF x
    <3>3. revoked_at'[x] = now /\ created_at'[x] = now
      BY <3>1, <3>2 DEF TypeOK
    <3>4. \A y \in rows : revoked_at'[y] = revoked_at[y] /\ created_at'[y] = created_at[y]
      BY <2>2, <3>1, <3>2 DEF TypeOK, x
    <3>5. \A l \in 1..Len(Limiters) : 0 * (Limiters[l].period + 1) <= now - now
      BY <3>2, LimiterFields
    <3>6. QED
      BY <3>1, <3>2, <3>3, <3>4, <3>5 DEF Paced
  <2>3. QED
    BY <2>1, <2>2
<1>4. ASSUME NEW r \in Request, NEW n \in 0..MaxTokens, generate_response(r, n) PROVE Paced'
  BY <1>4, <1>a DEF generate_response, tables, historyVars
<1>5. ASSUME NEW r \in Request, disconnect(r) PROVE Paced'
  BY <1>5, <1>a DEF disconnect, tables, historyVars
<1>6. ASSUME NEW r \in Request, store_conversation_history(r) PROVE Paced'
  BY <1>6, <1>a DEF store_conversation_history, tables, historyVars
<1>7. ASSUME NEW r \in Request, consume_tokens_history(r) PROVE Paced'
  BY <1>7, <1>a DEF consume_tokens_history, tables, historyVars
<1>8. ASSUME NEW r \in Request, consume_tokens(r) PROVE Paced'
  BY <1>8, <1>a DEF consume_tokens, tables, historyVars
<1>9. ASSUME NEW r \in Request, get_available_quotas(r) PROVE Paced'
  BY <1>9, <1>a DEF get_available_quotas, tables, historyVars
<1>10. ASSUME NEW r \in Request, fail(r) PROVE Paced'
  BY <1>10, <1>a DEF fail, tables, historyVars
<1>11. ASSUME NEW p \in Replica, NEW l \in 1..Len(Limiters), increase_quota(p, l)
       PROVE  Paced'
  <2>1. CASE Apply(Due(l), [x \in Due(l) |-> available[x] + Limiters[l].quota_increase])
    BY <2>1, <1>11, ApplyPaced DEF increase_quota
  <2>2. CASE UNCHANGED <<rows, revoked_at, historyVars>>
    BY <2>2, <1>11, <1>a DEF increase_quota, historyVars
  <2>3. QED
    BY <1>11, <2>1, <2>2 DEF increase_quota
<1>12. ASSUME NEW p \in Replica, NEW l \in 1..Len(Limiters), reset_quota(p, l)
       PROVE  Paced'
  <2>1. CASE Apply(Due(l), [x \in Due(l) |-> Limiters[l].initial_quota])
    BY <2>1, <1>12, ApplyPaced DEF reset_quota
  <2>2. CASE UNCHANGED <<rows, revoked_at, historyVars>>
    BY <2>2, <1>12, <1>a DEF reset_quota, historyVars
  <2>3. QED
    BY <1>12, <2>1, <2>2 DEF reset_quota
<1>13. ASSUME NEW p \in Replica, wake(p) \/ connection_lost(p) \/ restart(p) PROVE Paced'
  BY <1>13, <1>a DEF wake, connection_lost, restart, tables, historyVars
<1>14. ASSUME tick PROVE Paced'
  <2>1. UNCHANGED <<rows, revoked_at, created_at, updates>> /\ now' = now + 1
    BY <1>14 DEF tick, tables, historyVars
  <2>2. now \in Int /\ \A x \in rows : revoked_at[x] \in Int
    BY MaxTimeAssumption DEF TypeOK
  <2>3. QED
    BY <2>1, <2>2 DEF Paced
<1>15. CASE UNCHANGED vars
  BY <1>15, <1>a DEF vars
<1>16. QED
  BY <1>1, <1>2, <1>3, <1>4, <1>5, <1>6, <1>7, <1>8, <1>9, <1>10, <1>11, <1>12, <1>13, <1>14,
     <1>15 DEF Next, Handle, Schedule

-----------------------------------------------------------------------------
(* Pending debits *)

LEMMA LimitersOfType ==
    ASSUME NEW x
    PROVE  /\ LimitersOf(x) \subseteq 1..Len(Limiters)
           /\ IsFiniteSet(LimitersOf(x)) /\ Cardinality(LimitersOf(x)) \in Nat
<1>1. LimitersOf(x) \in SUBSET (1..Len(Limiters))
  BY DEF LimitersOf
<1>2. IsFiniteSet(1..Len(Limiters))
  BY LengthType, FS_Interval
<1>3. IsFiniteSet(LimitersOf(x))
  BY <1>1, <1>2, FS_Subset
<1>4. QED
  BY <1>1, <1>3, FS_CardinalityType

LEMMA Multiply ==
    ASSUME NEW a \in Nat, NEW b \in Nat, NEW c \in Nat, a <= b
    PROVE  c * a \in Nat /\ c * a <= c * b /\ c * (b - 1) = c * b - c
<1>1. b - a \in Nat /\ c * b = c * a + c * (b - a) /\ c * (b - a) \in Nat
  OBVIOUS
<1>2. QED
  BY <1>1

LEMMA Positive ==
    ASSUME NEW a \in Nat \ {0}, NEW b \in Nat \ {0}
    PROVE  a * b \in Nat \ {0}
  OBVIOUS

\* All that can be pending against a row costs at most its floor.
LEMMA WithinFloor ==
    ASSUME NEW x, NEW S \in SUBSET (Request \X LimitersOf(x))
    PROVE  /\ IsFiniteSet(S) /\ Cardinality(S) \in Nat /\ Floor(x) \in Nat
           /\ MaxTokens * Cardinality(S) \in Nat /\ MaxTokens * Cardinality(S) <= Floor(x)
<1> DEFINE R == Cardinality(Request)
           L == Cardinality(LimitersOf(x))
           n == Cardinality(S)
<1>1. R \in Nat /\ L \in Nat /\ IsFiniteSet(Request) /\ IsFiniteSet(LimitersOf(x))
  BY RequestAssumption, LimitersOfType, FS_CardinalityType
<1>2. IsFiniteSet(Request \X LimitersOf(x)) /\ Cardinality(Request \X LimitersOf(x)) = R * L
  BY <1>1, FS_Product
<1>3. IsFiniteSet(S) /\ n <= R * L /\ n \in Nat
  BY <1>2, FS_Subset, FS_CardinalityType
<1> HIDE DEF R, L, n
<1>4. PICK p \in Nat : p = R * L
  BY <1>1
<1>5. MaxTokens \in Nat
  BY MaxTokensAssumption
<1>6. MaxTokens * n \in Nat /\ MaxTokens * n <= MaxTokens * p
  BY <1>3, <1>4, <1>5, Multiply
<1>7. Floor(x) = p * MaxTokens
  BY <1>4 DEF Floor, R, L
<1>8. Floor(x) \in Nat /\ Floor(x) = MaxTokens * p
  BY <1>4, <1>5, <1>7
<1>9. QED
  BY <1>3, <1>6, <1>8 DEF n

LEMMA FloorConstant ==
    ASSUME NEW x
    PROVE  Floor(x)' = Floor(x)
  BY DEF Floor, LimitersOf

LEMMA PendingType ==
    ASSUME NEW x
    PROVE  Pending(x) \in SUBSET (Request \X LimitersOf(x))
  BY DEF Pending, Owes

LEMMA PendingTypeNext ==
    ASSUME NEW x
    PROVE  Pending(x)' \in SUBSET (Request \X LimitersOf(x))
  BY DEF Pending, Owes

\* What keeps a row backed: a balance that is positive, that does not fall, or
\* that falls by a debit that was pending.
LEMMA StaysBacked ==
    ASSUME NEW x \in rows, Backed, TypeOK, available'[x] \in Int,
           \/ available'[x] > 0
           \/ Pending(x)' \subseteq Pending(x) /\ available'[x] >= available[x]
           \/ \E d \in Pending(x) : /\ Pending(x)' \subseteq Pending(x) \ {d}
                                    /\ available'[x] >= available[x] - MaxTokens
    PROVE  available'[x] > MaxTokens * Cardinality(Pending(x)') - Floor(x)
<1>1. PICK S : S = Pending(x)
  OBVIOUS
<1>2. PICK T : T = Pending(x)'
  OBVIOUS
<1>3. PICK n \in Nat : n = Cardinality(S)
  BY <1>1, PendingType, WithinFloor
<1>4. PICK m \in Nat : m = Cardinality(T)
  BY <1>2, PendingTypeNext, WithinFloor
<1>5. IsFiniteSet(S) /\ IsFiniteSet(T) /\ Floor(x) \in Nat
      /\ MaxTokens * m \in Nat /\ MaxTokens * m <= Floor(x) /\ MaxTokens * n \in Nat
  BY <1>1, <1>2, <1>3, <1>4, PendingType, PendingTypeNext, WithinFloor
<1>6. available[x] > MaxTokens * n - Floor(x) /\ available[x] \in Int /\ MaxTokens \in Nat
  BY <1>1, <1>3, MaxTokensAssumption DEF Backed, TypeOK
<1>7. CASE available'[x] > 0
  BY <1>2, <1>4, <1>5, <1>7
<1>8. CASE T \subseteq S /\ available'[x] >= available[x]
  <2>1. m <= n
    BY <1>3, <1>4, <1>5, <1>8, FS_Subset
  <2>2. MaxTokens * m <= MaxTokens * n
    BY <1>6, <2>1, Multiply
  <2>3. QED
    BY <1>2, <1>4, <1>5, <1>6, <1>8, <2>2
<1>9. ASSUME NEW d \in S, T \subseteq S \ {d}, available'[x] >= available[x] - MaxTokens
      PROVE  available'[x] > MaxTokens * Cardinality(Pending(x)') - Floor(x)
  <2>1. IsFiniteSet(S \ {d}) /\ Cardinality(S \ {d}) = n - 1
    BY <1>3, <1>5, FS_RemoveElement
  <2>2. m <= n - 1 /\ n - 1 \in Nat
    BY <1>4, <1>9, <2>1, FS_Subset, FS_CardinalityType
  <2>3. MaxTokens * m <= MaxTokens * (n - 1) /\ MaxTokens * (n - 1) = MaxTokens * n - MaxTokens
    BY <1>6, <2>2, Multiply
  <2>4. QED
    BY <1>2, <1>4, <1>5, <1>6, <1>9, <2>3
<1>10. QED
  BY <1>1, <1>2, <1>7, <1>8, <1>9

\* Only the debits of r may change.
Elsewhere(r) ==
    \A q \in Request \ {r} : pc'[q] = pc[q] /\ user'[q] = user[q] /\ index'[q] = index[q]

LEMMA PendingOf ==
    ASSUME NEW r \in Request, NEW x, Elsewhere(r), Owes(r, x)' \subseteq Owes(r, x)
    PROVE  Pending(x)' \subseteq Pending(x)
<1>1. ASSUME NEW q \in Request, q # r PROVE Owes(q, x)' = Owes(q, x)
  BY <1>1 DEF Elsewhere, Owes, Subject, LimitersOf
<1>2. \A q \in Request : Owes(q, x)' \subseteq Owes(q, x)
  BY <1>1
<1>3. QED
  BY <1>2 DEF Pending

LEMMA OwesNothing ==
    ASSUME NEW r, NEW x, pc'[r] \notin {"check", "init", "llm", "store", "history", "consume"}
    PROVE  Owes(r, x)' = {}
  BY DEF Owes

\* A request without further business against a row leaves its backing alone.
LEMMA RequestBacked ==
    ASSUME TypeOK, Backed, NEW r \in Request, Elsewhere(r), rows' = rows, available' = available,
           \A x \in rows : Owes(r, x)' \subseteq Owes(r, x)
    PROVE  Backed'
<1>1. \A x \in rows : available[x] \in Int /\ available[x] >= available[x]
  BY DEF TypeOK
<1>2. \A x \in rows : Pending(x)' \subseteq Pending(x)
  BY PendingOf
<1>3. \A x \in rows : available'[x] > MaxTokens * Cardinality(Pending(x)') - Floor(x)
  BY <1>1, <1>2, StaysBacked
<1>4. QED
  BY <1>3, FloorConstant DEF Backed

\* Passing the check of one row commits a request to that row only.
LEMMA EnsureOwes ==
    ASSUME TypeOK, Checked, NEW r \in Request, pc[r] \in {"check", "init"},
           NEW balance \in Int, ensure_available_quota(r, balance), user' = user
    PROVE  /\ Elsewhere(r)
           /\ balance <= 0 => \A x : Owes(r, x)' = {}
           /\ \A x : x # Subject(index[r], user[r]) => Owes(r, x)' \subseteq Owes(r, x)
<1>1. CASE balance <= 0
  <2>1. pc' = [pc EXCEPT ![r] = "refused"] /\ index' = index
    BY <1>1 DEF ensure_available_quota, Goto
  <2>2. pc'[r] \notin {"check", "init", "llm", "store", "history", "consume"} /\ Elsewhere(r)
    BY <2>1 DEF TypeOK, Elsewhere
  <2>3. QED
    BY <2>2, OwesNothing
<1>2. CASE ~(balance <= 0)
  <2>1. index' = [index EXCEPT ![r] = index[r] + 1]
    BY <1>2 DEF ensure_available_quota
  <2>2. PICK label \in {"llm", "check"} :
            pc' = [pc EXCEPT ![r] = label] /\ (label = "llm" => index[r] = Len(Limiters))
    BY <1>2 DEF ensure_available_quota, Goto
  <2>3. pc'[r] = label /\ index'[r] = index[r] + 1 /\ Elsewhere(r)
    BY <2>1, <2>2 DEF TypeOK, Elsewhere
  <2>4. index[r] \in 1..Len(Limiters) /\ Len(Limiters) \in Nat
    BY LengthType DEF Checked
  <2>5. ASSUME NEW x, x # Subject(index[r], user[r]), NEW l \in Owes(r, x)'
        PROVE  l \in Owes(r, x)
    <3>1. l \in LimitersOf(x) /\ Subject(l, user[r]) = x
      BY DEF Owes, Subject, LimitersOf
    <3>2. \A m \in LimitersOf(x) : Subject(m, user[r]) = x
      BY <3>1 DEF LimitersOf, Subject
    <3>3. \A m \in LimitersOf(x) : m \in 1..Len(Limiters) /\ m # index[r]
      BY <2>5, <3>2, LimitersOfType
    <3>4. \E m \in LimitersOf(x) : m < index[r]
      <4>1. CASE label = "llm"
        BY <2>2, <2>4, <3>1, <3>3, <4>1
      <4>2. CASE label = "check"
        <5>1. PICK m \in LimitersOf(x) : m < index[r] + 1
          BY <2>3, <2>5, <4>2 DEF Owes, LimitersOf
        <5>2. QED
          BY <2>4, <3>3, <5>1
      <4>3. QED
        BY <4>1, <4>2
    <3>5. QED
      BY <3>1, <3>4 DEF Owes
  <2>6. QED
    BY <1>2, <2>3, <2>5
<1>3. QED
  BY <1>1, <1>2

\* Nothing is pending against a row that does not exist.
LEMMA NoRowNoDebt ==
    ASSUME TypeOK, Checked, DebitsLand, NEW x, x \notin rows
    PROVE  Pending(x) = {}
<1>1. ASSUME NEW r \in Request, NEW l \in Owes(r, x) PROVE FALSE
  <2>1. l \in LimitersOf(x) /\ Subject(l, user[r]) = x /\ l \in 1..Len(Limiters)
    BY LimitersOfType DEF Owes
  <2>2. pc[r] \notin {"llm", "store", "history", "consume"}
    BY <2>1 DEF DebitsLand
  <2>3. PICK m \in LimitersOf(x) : m < index[r] /\ pc[r] \in {"check", "init"}
    BY <2>2 DEF Owes
  <2>4. Subject(m, user[r]) = x /\ m \in 1..Len(Limiters)
    BY <2>1, LimitersOfType DEF LimitersOf, Subject
  <2>5. QED
    BY <2>3, <2>4 DEF Checked
<1>2. QED
  BY <1>1 DEF Pending

\* A debit of r, with the row that it goes to.
LEMMA DebitBacked ==
    ASSUME TypeOK, Backed, Placed, NEW r \in Request, consume_tokens(r)
    PROVE  Backed'
<1>1. PICK x : x = Subject(index[r], user[r])
  OBVIOUS
<1>2. PICK label \in {"reply", "consume"} : pc' = [pc EXCEPT ![r] = label]
  BY DEF consume_tokens, Goto
<1>3. /\ pc[r] = "consume" /\ index' = [index EXCEPT ![r] = index[r] + 1] /\ rows' = rows /\ user' = user
      /\ available' = [available EXCEPT ![x] = IF x \in rows THEN available[x] - tokens[r] ELSE available[x]]
  BY <1>1, SubjectType DEF consume_tokens, TypeOK
<1>4. index[r] \in 1..Len(Limiters) /\ index[r] \in Nat /\ user[r] \in User /\ tokens[r] \in 0..MaxTokens
  BY <1>3 DEF Placed, TypeOK
<1>5. Elsewhere(r) /\ pc'[r] = label /\ index'[r] = index[r] + 1
  BY <1>2, <1>3 DEF TypeOK, Elsewhere
<1>6. \A y : Owes(r, y)' \subseteq Owes(r, y) \ {index[r]}
  <2> SUFFICES ASSUME NEW y, NEW l \in Owes(r, y)' PROVE l \in Owes(r, y) /\ l # index[r]
    OBVIOUS
  <2>1. l \in LimitersOf(y) /\ Subject(l, user[r]) = y /\ pc'[r] = "consume" /\ index[r] + 1 <= l
    BY <1>3, <1>5 DEF Owes, Subject, LimitersOf
  <2>2. l \in Nat
    BY <2>1, LimitersOfType, LengthType
  <2>3. index[r] <= l /\ l # index[r]
    BY <1>4, <2>1, <2>2
  <2>4. QED
    BY <1>3, <2>1, <2>3 DEF Owes
<1>7. \A y : Pending(y)' \subseteq Pending(y)
  BY <1>5, <1>6, PendingOf
<1>8. ASSUME NEW y \in rows, y # x
      PROVE  available'[y] > MaxTokens * Cardinality(Pending(y)') - Floor(y)
  <2>1. available'[y] = available[y] /\ available[y] \in Int /\ available[y] >= available[y]
    BY <1>3, <1>8 DEF TypeOK
  <2>2. QED
    BY <1>7, <2>1, StaysBacked
<1>9. ASSUME x \in rows
      PROVE  available'[x] > MaxTokens * Cardinality(Pending(x)') - Floor(x)
  <2>1. available'[x] \in Int /\ available'[x] >= available[x] - MaxTokens
    <3>1. available[x] \in Int /\ available'[x] = available[x] - tokens[r]
      BY <1>3, <1>9 DEF TypeOK
    <3>2. QED
      BY <1>4, <3>1, MaxTokensAssumption
  <2>2. PICK d : d = <<r, index[r]>>
    OBVIOUS
  <2>3. index[r] \in LimitersOf(x) /\ index[r] <= index[r]
    BY <1>1, <1>4, SubjectAssumption DEF LimitersOf, Subject
  <2>4. d \in Pending(x)
    BY <1>1, <1>3, <1>4, <2>2, <2>3 DEF Pending, Owes
  <2>5. d \notin Pending(x)'
    BY <1>6, <2>2 DEF Pending
  <2>6. QED
    BY <1>7, <1>9, <2>1, <2>4, <2>5, StaysBacked
<1>10. QED
  BY <1>3, <1>8, <1>9, FloorConstant DEF Backed

\* The scheduler increases a balance, or sets it to a positive one.
LEMMA ApplyBacked ==
    ASSUME TypeOK, Backed, NEW l \in 1..Len(Limiters), NEW b, Apply(Due(l), b),
           UNCHANGED <<pc, user, index>>,
           \A x \in Due(l) : b[x] \in Int /\ (b[x] > 0 \/ b[x] >= available[x])
    PROVE  Backed'
<1>1. /\ rows' = rows
      /\ available' = [x \in Row |-> IF x \in Due(l) THEN b[x] ELSE available[x]]
  BY DEF Apply
<1>2. \A x : Pending(x)' = Pending(x)
  BY DEF Pending, Owes, Subject, LimitersOf
<1>3. \A x \in rows : available[x] \in Int /\ available[x] >= available[x] /\ x \in Row
  BY DEF TypeOK
<1>4. \A x \in rows : available'[x] \in Int /\ (available'[x] > 0 \/ available'[x] >= available[x])
  BY <1>1, <1>3
<1>5. \A x \in rows : available'[x] > MaxTokens * Cardinality(Pending(x)') - Floor(x)
  BY <1>2, <1>4, StaysBacked
<1>6. QED
  BY <1>1, <1>5, FloorConstant DEF Backed

LEMMA InitBacked ==
    ASSUME TypeOK, Checked, DebitsLand, Backed, NEW r \in Request, init_quota(r)
    PROVE  Backed'
<1>1. PICK x : x = Subject(index[r], user[r])
  OBVIOUS
<1>2. PICK q : q = Limiters[index[r]].initial_quota
  OBVIOUS
<1>3. pc[r] = "init" /\ user' = user /\ user[r] \in User
  BY DEF init_quota, TypeOK
<1>4. index[r] \in 1..Len(Limiters) /\ q \in Nat /\ x \in Row
  BY <1>1, <1>2, <1>3, LimiterFields, SubjectType DEF Checked
<1>5. CASE x \in rows
  <2>1. pc' = [pc EXCEPT ![r] = "failed"] /\ index' = index /\ rows' = rows /\ available' = available
    BY <1>1, <1>5 DEF init_quota, Goto
  <2>2. Elsewhere(r) /\ pc'[r] = "failed"
    BY <1>3, <2>1 DEF Elsewhere, TypeOK
  <2>3. QED
    BY <2>1, <2>2, OwesNothing, RequestBacked
<1>6. CASE x \notin rows
  <2>1. /\ rows' = rows \cup {x} /\ available' = [available EXCEPT ![x] = q]
        /\ ensure_available_quota(r, q)
    BY <1>1, <1>2, <1>6 DEF init_quota
  <2>2. q \in Int
    BY <1>4
  <2>3. /\ Elsewhere(r)
        /\ q <= 0 => \A y : Owes(r, y)' = {}
        /\ \A y : y # x => Owes(r, y)' \subseteq Owes(r, y)
    BY <1>1, <1>3, <2>1, <2>2, EnsureOwes
  <2>4. ASSUME NEW y \in rows PROVE available'[y] > MaxTokens * Cardinality(Pending(y)') - Floor(y)
    <3>1. y # x /\ available'[y] = available[y] /\ available[y] \in Int /\ available[y] >= available[y]
      BY <1>6, <2>1 DEF TypeOK
    <3>2. Pending(y)' \subseteq Pending(y)
      BY <2>3, <3>1, PendingOf
    <3>3. QED
      BY <3>1, <3>2, StaysBacked
  <2>5. available'[x] = q
    BY <1>4, <2>1 DEF TypeOK
  <2>6. available'[x] > MaxTokens * Cardinality(Pending(x)') - Floor(x)
    <3>1. CASE q > 0
      <4>1. PICK c \in Nat : c = MaxTokens * Cardinality(Pending(x)')
        BY PendingTypeNext, WithinFloor
      <4>2. c <= Floor(x) /\ Floor(x) \in Nat
        BY <4>1, PendingTypeNext, WithinFloor
      <4>3. q > c - Floor(x)
        BY <1>4, <3>1, <4>2
      <4>4. QED
        BY <2>5, <4>1, <4>3
    <3>2. CASE ~(q > 0)
      <4>1. q = 0 /\ q <= 0
        BY <1>4, <3>2
      <4>2. Pending(x)' \subseteq Pending(x)
        BY <2>3, <4>1, PendingOf
      <4>3. Cardinality(Pending(x)') = 0
        BY <1>6, <4>2, NoRowNoDebt, FS_EmptySet
      <4>4. index[r] \in LimitersOf(x)
        BY <1>1, <1>3, <1>4, SubjectAssumption DEF LimitersOf, Subject
      <4>5. Cardinality(LimitersOf(x)) \in Nat \ {0}
        BY <4>4, LimitersOfType, FS_EmptySet
      <4>6. Cardinality(Request) \in Nat \ {0}
        BY RequestAssumption, FS_EmptySet, FS_CardinalityType
      <4>7. PICK n \in Nat \ {0} : n = Cardinality(Request) * Cardinality(LimitersOf(x))
        BY <4>5, <4>6, Positive
      <4>8. n * MaxTokens \in Nat \ {0}
        BY MaxTokensAssumption, Positive
      <4>9. Floor(x) = n * MaxTokens
        BY <4>7 DEF Floor
      <4>10. MaxTokens * 0 = 0
        BY MaxTokensAssumption
      <4>11. QED
        BY <2>5, <4>1, <4>3, <4>8, <4>9, <4>10
    <3>3. QED
      BY <3>1, <3>2
  <2>7. QED
    BY <2>1, <2>4, <2>6, FloorConstant DEF Backed
<1>7. QED
  BY <1>5, <1>6

LEMMA BackedStep ==
    ASSUME TypeOK, Checked, DebitsLand, Placed, Backed, [Next]_vars
    PROVE  Backed'
\* Steps of the scheduler that change no balance, and of the clock.
<1>1. ASSUME UNCHANGED <<pc, user, index, rows, available>> PROVE Backed'
  <2>1. \A x : Pending(x)' = Pending(x)
    BY <1>1 DEF Pending, Owes, Subject, LimitersOf
  <2>2. QED
    BY <1>1, <2>1, FloorConstant DEF Backed
\* A request ends.
<1>2. ASSUME NEW r \in Request, NEW label \in Ended \cup {"reply"}, Goto(r, label),
             UNCHANGED <<user, index, rows, available>>
      PROVE  Backed'
  <2>1. pc'[r] = label /\ Elsewhere(r)
    BY <1>2 DEF Goto, Elsewhere, TypeOK
  <2>2. \A x : Owes(r, x)' = {}
    BY <2>1, OwesNothing DEF Ended
  <2>3. QED
    BY <1>2, <2>1, <2>2, RequestBacked
\* A request goes on towards its debits.
<1>3. ASSUME NEW r \in Request, NEW label \in {"store", "history", "consume"}, Goto(r, label),
             pc[r] \in {"llm", "store", "history"}, UNCHANGED <<user, rows, available>>,
             \A q \in Request \ {r} : index'[q] = index[q]
      PROVE  Backed'
  <2>1. pc'[r] = label /\ Elsewhere(r)
    BY <1>3 DEF Goto, Elsewhere, TypeOK
  <2>2. \A x : Owes(r, x)' \subseteq Owes(r, x)
    BY <1>3, <2>1 DEF Owes, Subject, LimitersOf
  <2>3. QED
    BY <1>3, <2>1, <2>2, RequestBacked
<1>4. ASSUME NEW r \in Request, NEW u \in User, arrive(r, u) PROVE Backed'
  <2>1. /\ user' = [user EXCEPT ![r] = u] /\ index' = [index EXCEPT ![r] = 1]
        /\ rows' = rows /\ available' = available
    BY <1>4 DEF arrive, tables
  <2>2. PICK label \in {"llm", "check"} :
            pc' = [pc EXCEPT ![r] = label] /\ (label = "llm" => Limiters = <<>>)
    BY <1>4 DEF arrive, Goto
  <2>3. pc'[r] = label /\ index'[r] = 1 /\ Elsewhere(r)
    BY <2>1, <2>2 DEF Elsewhere, TypeOK
  <2>4. \A x : \A m \in LimitersOf(x) : label # "llm" /\ ~(m < 1)
    BY <2>2, LimitersOfType, LengthType
  <2>5. \A x : Owes(r, x)' = {}
    BY <2>3, <2>4 DEF Owes, LimitersOf
  <2>6. QED
    BY <2>1, <2>3, <2>5, RequestBacked
<1>5. ASSUME NEW r \in Request, available_quota(r) PROVE Backed'
  <2>1. PICK x : x = Subject(index[r], user[r])
    OBVIOUS
  <2>2. pc[r] = "check" /\ UNCHANGED <<rows, available, user>>
    BY <1>5 DEF available_quota, tables
  <2>3. CASE x \in rows
    <3>1. ensure_available_quota(r, available[x]) /\ available[x] \in Int
      BY <1>5, <2>1, <2>3, Zenon DEF available_quota, TypeOK
    <3>2. /\ Elsewhere(r)
          /\ available[x] <= 0 => \A y : Owes(r, y)' = {}
          /\ \A y : y # x => Owes(r, y)' \subseteq Owes(r, y)
      BY <2>1, <2>2, <3>1, EnsureOwes
    <3>3. ASSUME NEW y \in rows PROVE available'[y] > MaxTokens * Cardinality(Pending(y)') - Floor(y)
      <4>1. available'[y] = available[y] /\ available[y] \in Int /\ available[y] >= available[y]
        BY <2>2 DEF TypeOK
      <4>2. CASE y = x /\ available[x] > 0
        BY <4>1, <4>2, StaysBacked
      <4>3. CASE ~(y = x /\ available[x] > 0)
        <5>1. Owes(r, y)' \subseteq Owes(r, y)
          BY <3>1, <3>2, <4>3
        <5>2. Pending(y)' \subseteq Pending(y)
          BY <3>2, <5>1, PendingOf
        <5>3. QED
          BY <4>1, <5>2, StaysBacked
      <4>4. QED
        BY <4>2, <4>3
    <3>4. QED
      BY <2>2, <3>3, FloorConstant DEF Backed
  <2>4. CASE x \notin rows
    <3>1. pc' = [pc EXCEPT ![r] = "init"] /\ index' = index
      BY <1>5, <2>1, <2>4 DEF available_quota, Goto
    <3>2. pc'[r] = "init" /\ Elsewhere(r)
      BY <2>2, <3>1 DEF Elsewhere, TypeOK
    <3>3. \A y : Owes(r, y)' \subseteq Owes(r, y)
      BY <2>2, <3>1, <3>2 DEF Owes, Subject, LimitersOf
    <3>4. QED
      BY <2>2, <3>2, <3>3, RequestBacked
  <2>5. QED
    BY <2>3, <2>4
<1>6. ASSUME NEW r \in Request, init_quota(r) PROVE Backed'
  BY <1>6, InitBacked
<1>7. ASSUME NEW r \in Request, NEW n \in 0..MaxTokens, generate_response(r, n) PROVE Backed'
  BY <1>3, <1>7 DEF generate_response, tables, TypeOK
<1>8. ASSUME NEW r \in Request, disconnect(r) PROVE Backed'
  BY <1>2, <1>8 DEF disconnect, tables, Ended
<1>9. ASSUME NEW r \in Request, store_conversation_history(r) PROVE Backed'
  BY <1>3, <1>9 DEF store_conversation_history, tables
<1>10. ASSUME NEW r \in Request, consume_tokens_history(r) PROVE Backed'
  <2>1. CASE Limiters = <<>>
    BY <1>2, <1>10, <2>1 DEF consume_tokens_history
  <2>2. CASE Limiters # <<>>
    BY <1>3, <1>10, <2>2 DEF consume_tokens_history
  <2>3. QED
    BY <2>1, <2>2
<1>11. ASSUME NEW r \in Request, consume_tokens(r) PROVE Backed'
  BY <1>11, DebitBacked
<1>12. ASSUME NEW r \in Request, get_available_quotas(r) PROVE Backed'
  BY <1>2, <1>12 DEF get_available_quotas, tables, Ended
<1>13. ASSUME NEW r \in Request, fail(r) PROVE Backed'
  BY <1>2, <1>13 DEF fail, tables, Ended
<1>14. ASSUME NEW p \in Replica, NEW l \in 1..Len(Limiters), increase_quota(p, l) PROVE Backed'
  <2>1. CASE alive[p] /\ Limiters[l].quota_increase # None
    <3>1. PICK b : b = [x \in Due(l) |-> available[x] + Limiters[l].quota_increase]
      OBVIOUS
    <3>2. Apply(Due(l), b) /\ UNCHANGED <<pc, user, index>>
      BY <1>14, <2>1, <3>1 DEF increase_quota, requestVars
    <3>3. Limiters[l].quota_increase \in Nat
      BY <2>1, LimiterFields
    <3>4. \A x \in Due(l) : available[x] \in Int
      BY DEF Due, TypeOK
    <3>5. \A x \in Due(l) : b[x] \in Int /\ b[x] >= available[x]
      BY <3>1, <3>3, <3>4
    <3>6. QED
      BY <3>2, <3>5, ApplyBacked
  <2>2. CASE ~(alive[p] /\ Limiters[l].quota_increase # None)
    BY <1>1, <1>14, <2>2 DEF increase_quota, requestVars
  <2>3. QED
    BY <2>1, <2>2
<1>15. ASSUME NEW p \in Replica, NEW l \in 1..Len(Limiters), reset_quota(p, l) PROVE Backed'
  <2>1. CASE alive[p] /\ Limiters[l].initial_quota > 0
    <3>1. PICK b : b = [x \in Due(l) |-> Limiters[l].initial_quota]
      OBVIOUS
    <3>2. Apply(Due(l), b) /\ UNCHANGED <<pc, user, index>>
      BY <1>15, <2>1, <3>1 DEF reset_quota, requestVars
    <3>3. Limiters[l].initial_quota \in Nat
      BY LimiterFields
    <3>4. \A x \in Due(l) : b[x] \in Int /\ b[x] > 0
      BY <2>1, <3>1, <3>3
    <3>5. QED
      BY <3>2, <3>4, ApplyBacked
  <2>2. CASE ~(alive[p] /\ Limiters[l].initial_quota > 0)
    BY <1>1, <1>15, <2>2 DEF reset_quota, requestVars
  <2>3. QED
    BY <2>1, <2>2
<1>16. ASSUME NEW p \in Replica, wake(p) \/ connection_lost(p) \/ restart(p) PROVE Backed'
  BY <1>1, <1>16 DEF wake, connection_lost, restart, tables, requestVars
<1>17. ASSUME tick PROVE Backed'
  BY <1>1, <1>17 DEF tick, tables, requestVars
<1>18. CASE UNCHANGED vars
  BY <1>1, <1>18 DEF vars
<1>19. QED
  BY <1>4, <1>5, <1>6, <1>7, <1>8, <1>9, <1>10, <1>11, <1>12, <1>13, <1>14, <1>15, <1>16, <1>17,
     <1>18 DEF Next, Handle, Schedule

-----------------------------------------------------------------------------
(* Recorded debits *)

LEMMA PlacedStep ==
    ASSUME TypeOK, Placed, [Next]_vars
    PROVE  Placed'
<1>1. ASSUME UNCHANGED <<pc, index>> PROVE Placed'
  BY <1>1 DEF Placed
\* A request goes to a place where its position does not matter.
<1>2. ASSUME NEW r \in Request, pc'[r] \notin {"store", "history", "consume"},
             \A q \in Request \ {r} : pc'[q] = pc[q] /\ index'[q] = index[q]
      PROVE  Placed'
  BY <1>2 DEF Placed
<1>3. ASSUME NEW r \in Request, NEW balance, ensure_available_quota(r, balance) PROVE Placed'
  <2>1. PICK label \in {"refused", "llm", "check"} : pc' = [pc EXCEPT ![r] = label]
    BY <1>3 DEF ensure_available_quota, Goto
  <2>2. \A q \in Request \ {r} : index'[q] = index[q]
    BY <1>3 DEF ensure_available_quota, TypeOK
  <2>3. QED
    BY <1>2, <2>1, <2>2 DEF TypeOK
<1>4. ASSUME NEW r \in Request, NEW u \in User, arrive(r, u) PROVE Placed'
  <2>1. PICK label \in {"llm", "check"} : pc' = [pc EXCEPT ![r] = label]
    BY <1>4 DEF arrive, Goto
  <2>2. QED
    BY <1>2, <1>4, <2>1 DEF arrive, TypeOK
<1>5. ASSUME NEW r \in Request, available_quota(r) PROVE Placed'
  <2>1. CASE Subject(index[r], user[r]) \in rows
    BY <1>3, <1>5, <2>1 DEF available_quota
  <2>2. CASE Subject(index[r], user[r]) \notin rows
    BY <1>2, <1>5, <2>2 DEF available_quota, Goto, TypeOK
  <2>3. QED
    BY <2>1, <2>2
<1>6. ASSUME NEW r \in Request, init_quota(r) PROVE Placed'
  <2>1. CASE Subject(index[r], user[r]) \in rows
    BY <1>2, <1>6, <2>1 DEF init_quota, Goto, TypeOK
  <2>2. CASE Subject(index[r], user[r]) \notin rows
    BY <1>3, <1>6, <2>2 DEF init_quota
  <2>3. QED
    BY <2>1, <2>2
<1>7. ASSUME NEW r \in Request, NEW n \in 0..MaxTokens, generate_response(r, n) PROVE Placed'
  BY <1>7 DEF generate_response, Goto, Placed, TypeOK
<1>8. ASSUME NEW r \in Request, store_conversation_history(r) PROVE Placed'
  BY <1>8 DEF store_conversation_history, Goto, Placed, TypeOK
<1>9. ASSUME NEW r \in Request, consume_tokens_history(r) PROVE Placed'
  <2>1. index' = index /\ pc[r] = "history" /\ index[r] = 1
    BY <1>9 DEF consume_tokens_history, Placed
  <2>2. CASE Limiters = <<>>
    BY <1>2, <1>9, <2>1, <2>2 DEF consume_tokens_history, Goto, TypeOK
  <2>3. CASE Limiters # <<>>
    <3>1. pc' = [pc EXCEPT ![r] = "consume"] /\ 1 \in 1..Len(Limiters)
      BY <1>9, <2>3, LengthType DEF consume_tokens_history, Goto
    <3>2. QED
      BY <2>1, <3>1 DEF Placed, TypeOK
  <2>4. QED
    BY <2>2, <2>3
<1>10. ASSUME NEW r \in Request, consume_tokens(r) PROVE Placed'
  <2>1. index' = [index EXCEPT ![r] = index[r] + 1] /\ pc[r] = "consume" /\ index[r] \in 1..Len(Limiters)
    BY <1>10 DEF consume_tokens, Placed
  <2>2. CASE index[r] = Len(Limiters)
    <3>1. pc' = [pc EXCEPT ![r] = "reply"]
      BY <1>10, <2>2 DEF consume_tokens, Goto
    <3>2. QED
      BY <1>2, <2>1, <3>1 DEF TypeOK
  <2>3. CASE index[r] # Len(Limiters)
    <3>1. pc' = [pc EXCEPT ![r] = "consume"] /\ index[r] + 1 \in 1..Len(Limiters)
      BY <1>10, <2>1, <2>3, LengthType DEF consume_tokens, Goto
    <3>2. QED
      BY <2>1, <3>1 DEF Placed, TypeOK
  <2>4. QED
    BY <2>2, <2>3
<1>11. ASSUME NEW r \in Request, disconnect(r) \/ get_available_quotas(r) \/ fail(r) PROVE Placed'
  BY <1>2, <1>11 DEF disconnect, get_available_quotas, fail, Goto, TypeOK
<1>12. ASSUME NEW p \in Replica, Schedule(p) PROVE Placed'
  BY <1>1, <1>12 DEF Schedule, wake, increase_quota, reset_quota, connection_lost, restart,
     requestVars
<1>13. CASE tick
  BY <1>1, <1>13 DEF tick, requestVars
<1>14. CASE UNCHANGED vars
  BY <1>1, <1>14 DEF vars
<1>15. QED
  BY <1>4, <1>5, <1>6, <1>7, <1>8, <1>9, <1>10, <1>11, <1>12, <1>13, <1>14 DEF Next, Handle

\* Sets of single tokens: what a new answer adds and what a debit takes away.
LEMMA TokensType ==
    ASSUME NEW S \in SUBSET ((Request \X (1..Len(Limiters))) \X (1..MaxTokens))
    PROVE  IsFiniteSet(S) /\ Cardinality(S) \in Nat
<1>1. IsFiniteSet(1..Len(Limiters)) /\ IsFiniteSet(1..MaxTokens)
  BY LengthType, MaxTokensAssumption, FS_Interval
<1>2. IsFiniteSet(Request \X (1..Len(Limiters)))
  BY <1>1, RequestAssumption, FS_Product
<1>3. IsFiniteSet((Request \X (1..Len(Limiters))) \X (1..MaxTokens))
  BY <1>1, <1>2, FS_Product
<1>4. QED
  BY <1>3, FS_Subset, FS_CardinalityType

LEMMA Count ==
    ASSUME NEW t \in Nat
    PROVE  IsFiniteSet(1..t) /\ Cardinality(1..t) = t
  BY FS_Interval

LEMMA TokensAdded ==
    ASSUME NEW S, NEW T, NEW L, IsFiniteSet(S), IsFiniteSet(L), NEW r, NEW t \in Nat,
           T \subseteq S \cup (({r} \X L) \X (1..t))
    PROVE  Cardinality(T) <= Cardinality(S) + Cardinality(L) * t
<1>1. PICK N : N = ({r} \X L) \X (1..t)
  OBVIOUS
<1>2. PICK c \in Nat : c = Cardinality(L)
  BY FS_CardinalityType
<1>3. IsFiniteSet({r}) /\ Cardinality({r}) = 1
  BY FS_Singleton
<1>4. IsFiniteSet({r} \X L) /\ Cardinality({r} \X L) = 1 * c
  BY <1>2, <1>3, FS_Product
<1>5. Cardinality({r} \X L) = c
  BY <1>2, <1>4
<1>6. IsFiniteSet(N) /\ Cardinality(N) = c * t
  <2>1. PICK J : J = 1..t
    OBVIOUS
  <2>2. IsFiniteSet(J) /\ Cardinality(J) = t
    BY <2>1, Count
  <2>3. N = ({r} \X L) \X J
    BY <1>1, <2>1
  <2>4. QED
    BY <1>4, <1>5, <2>2, <2>3, FS_Product
<1>7. /\ IsFiniteSet(S \cup N) /\ IsFiniteSet(S \cap N)
      /\ Cardinality(S \cup N) = Cardinality(S) + Cardinality(N) - Cardinality(S \cap N)
  BY <1>6, FS_Union, FS_Subset
<1>8. Cardinality(T) <= Cardinality(S \cup N) /\ IsFiniteSet(T)
  BY <1>1, <1>7, FS_Subset
<1>9. /\ Cardinality(S) \in Nat /\ Cardinality(N) \in Nat /\ Cardinality(S \cap N) \in Nat
      /\ Cardinality(T) \in Nat
  BY <1>6, <1>7, <1>8, FS_CardinalityType
<1>10. Cardinality(T) <= Cardinality(S) + Cardinality(N)
  BY <1>7, <1>8, <1>9
<1>11. QED
  BY <1>2, <1>6, <1>10

LEMMA TokensTaken ==
    ASSUME NEW S, NEW T, IsFiniteSet(S), NEW d, NEW t \in Nat,
           {d} \X (1..t) \subseteq S, T \subseteq S \ ({d} \X (1..t))
    PROVE  Cardinality(T) + t <= Cardinality(S)
<1>1. PICK B : B = {d} \X (1..t)
  OBVIOUS
<1>2. IsFiniteSet({d}) /\ Cardinality({d}) = 1
  BY FS_Singleton
<1>3. IsFiniteSet(B) /\ Cardinality(B) = 1 * t
  <2>1. PICK J : J = 1..t
    OBVIOUS
  <2>2. IsFiniteSet(J) /\ Cardinality(J) = t
    BY <2>1, Count
  <2>3. B = {d} \X J
    BY <1>1, <2>1
  <2>4. QED
    BY <1>2, <2>2, <2>3, FS_Product
<1>4. S \cap B = B
  BY <1>1
<1>5. IsFiniteSet(S \ B) /\ Cardinality(S \ B) = Cardinality(S) - Cardinality(B)
  BY <1>4, FS_Difference
<1>6. IsFiniteSet(T) /\ Cardinality(T) <= Cardinality(S \ B)
  BY <1>1, <1>5, FS_Subset
<1>7. Cardinality(S) \in Nat /\ Cardinality(T) \in Nat
  BY <1>6, FS_CardinalityType
<1>8. QED
  BY <1>3, <1>5, <1>6, <1>7

LEMMA UnpaidType ==
    ASSUME NEW u
    PROVE  IsFiniteSet(Unpaid(u)) /\ Cardinality(Unpaid(u)) \in Nat
<1>1. Unpaid(u) \in SUBSET ((Request \X (1..Len(Limiters))) \X (1..MaxTokens))
  BY DEF Unpaid
<1>2. QED
  BY <1>1, TokensType

LEMMA UnpaidTypeNext ==
    ASSUME NEW u
    PROVE  IsFiniteSet(Unpaid(u)') /\ Cardinality(Unpaid(u)') \in Nat
<1>1. Unpaid(u)' \in SUBSET ((Request \X (1..Len(Limiters))) \X (1..MaxTokens))
  BY DEF Unpaid
<1>2. QED
  BY <1>1, TokensType

\* The books of one user.
Covered(u) == granted[u] - available[u] + Cardinality(Unpaid(u))
                  <= Cardinality(LimitersOf(u)) * token_usage[u]

LEMMA LimitersConstant ==
    ASSUME NEW u
    PROVE  LimitersOf(u)' = LimitersOf(u)
  BY DEF LimitersOf

\* Nothing is charged to u, and nothing more is owed.
LEMMA StaysCovered ==
    ASSUME TypeOK, NEW u \in User, Covered(u), Unpaid(u)' \subseteq Unpaid(u),
           granted'[u] - available'[u] = granted[u] - available[u],
           token_usage'[u] = token_usage[u]
    PROVE  Covered(u)'
<1>1. PICK n \in Nat : n = Cardinality(Unpaid(u))
  BY UnpaidType
<1>2. PICK m \in Nat : m = Cardinality(Unpaid(u)')
  BY UnpaidTypeNext
<1>3. m <= n
  BY <1>1, <1>2, UnpaidType, FS_Subset
<1>4. PICK debt : debt = granted[u] - available[u]
  OBVIOUS
<1>5. debt \in Int
  BY <1>4 DEF TypeOK, Row
<1>6. PICK c \in Nat : c = Cardinality(LimitersOf(u))
  BY LimitersOfType
<1>7. PICK k : k = c * token_usage[u]
  OBVIOUS
<1>8. k \in Int
  BY <1>6, <1>7 DEF TypeOK
<1>9. debt + n <= k
  BY <1>1, <1>4, <1>6, <1>7, Zenon DEF Covered
<1>10. debt + m <= k
  BY <1>3, <1>5, <1>8, <1>9
<1>11. Cardinality(LimitersOf(u))' * token_usage'[u] = k
  BY <1>6, <1>7, LimitersConstant
<1>12. granted'[u] - available'[u] + m <= k
  BY <1>4, <1>10
<1>13. QED
  BY <1>2, <1>11, <1>12 DEF Covered

\* A request that is not debiting owes nothing that is recorded.
LEMMA UnpaidOf ==
    ASSUME TypeOK, NEW r \in Request, Elsewhere(r), pc'[r] # "consume",
           \A q \in Request \ {r} : tokens'[q] = tokens[q], NEW u
    PROVE  Unpaid(u)' \subseteq Unpaid(u)
  BY DEF Unpaid, Elsewhere, LimitersOf

LEMMA HistoryRecorded ==
    ASSUME TypeOK, Placed, Recorded, NEW r \in Request, consume_tokens_history(r)
    PROVE  Recorded'
<1>1. /\ pc[r] = "history" /\ UNCHANGED <<rows, available, granted, user, index, tokens>>
      /\ token_usage' = [token_usage EXCEPT ![user[r]] = token_usage[user[r]] + tokens[r]]
  BY DEF consume_tokens_history, historyVars
<1>2. PICK label \in {"reply", "consume"} : pc' = [pc EXCEPT ![r] = label]
  BY DEF consume_tokens_history, Goto
<1>3. user[r] \in User /\ tokens[r] \in 0..MaxTokens /\ tokens[r] \in Nat
  BY MaxTokensAssumption DEF TypeOK
<1>4. ASSUME NEW u \in User, u # user[r] PROVE Covered(u)'
  <2>1. Unpaid(u)' \subseteq Unpaid(u)
    BY <1>1, <1>2, <1>4 DEF Unpaid, LimitersOf, TypeOK
  <2>2. token_usage'[u] = token_usage[u] /\ Covered(u)
    BY <1>1, <1>4 DEF Recorded, Covered, TypeOK
  <2>3. QED
    BY <1>1, <2>1, <2>2, StaysCovered
<1>5. ASSUME NEW u \in User, u = user[r] PROVE Covered(u)'
  <2>1. u = user[r]
    BY <1>5
  <2>2. PICK t \in Nat : t = tokens[r]
    BY <1>3
  <2>3. Unpaid(u)' \subseteq Unpaid(u) \cup (({r} \X LimitersOf(u)) \X (1..t))
    BY <1>1, <1>2, <2>1, <2>2 DEF Unpaid, LimitersOf, TypeOK
  <2>4. Cardinality(Unpaid(u)') <= Cardinality(Unpaid(u)) + Cardinality(LimitersOf(u)) * t
    BY <2>3, UnpaidType, LimitersOfType, TokensAdded
  <2>5. PICK n \in Nat : n = Cardinality(Unpaid(u))
    BY UnpaidType
  <2>6. PICK m \in Nat : m = Cardinality(Unpaid(u)')
    BY UnpaidTypeNext
  <2>7. PICK c \in Nat : c = Cardinality(LimitersOf(u))
    BY LimitersOfType
  <2>8. PICK k \in Nat : k = token_usage[u]
    BY DEF TypeOK
  <2>9. PICK debt \in Int : debt = granted[u] - available[u]
    BY DEF TypeOK, Row
  <2>10. debt + n <= c * k
    BY <2>5, <2>7, <2>8, <2>9 DEF Recorded
  <2>11. m <= n + c * t
    BY <2>4, <2>5, <2>6, <2>7
  <2>12. c * (k + t) = c * k + c * t /\ c * k \in Nat /\ c * t \in Nat
    OBVIOUS
  <2>13. debt + m <= c * (k + t)
    BY <2>10, <2>11, <2>12
  <2>14. token_usage'[u] = k + t
    BY <1>1, <2>1, <2>2, <2>8 DEF TypeOK
  <2>15. Cardinality(LimitersOf(u))' = c
    BY <2>7, LimitersConstant
  <2>16. granted'[u] - available'[u] = debt
    BY <1>1, <2>9
  <2>17. QED
    BY <2>6, <2>13, <2>14, <2>15, <2>16 DEF Covered
<1>6. \A u \in User : Covered(u)'
  BY <1>4, <1>5
<1>7. \A x \in Row \ rows' : granted'[x] = available'[x]
  BY <1>1 DEF Recorded
<1>8. QED
  BY <1>6, <1>7 DEF Recorded, Covered, Row

LEMMA DebitRecorded ==
    ASSUME TypeOK, Placed, Recorded, NEW r \in Request, consume_tokens(r)
    PROVE  Recorded'
<1>1. PICK x : x = Subject(index[r], user[r])
  OBVIOUS
<1>2. PICK label \in {"reply", "consume"} : pc' = [pc EXCEPT ![r] = label]
  BY DEF consume_tokens, Goto
<1>3. /\ pc[r] = "consume" /\ index' = [index EXCEPT ![r] = index[r] + 1]
      /\ UNCHANGED <<rows, user, tokens, granted, token_usage>>
      /\ available' = [available EXCEPT ![x] = IF x \in rows THEN available[x] - tokens[r] ELSE available[x]]
  BY <1>1, SubjectType DEF consume_tokens, historyVars, TypeOK
<1>4. index[r] \in 1..Len(Limiters) /\ index[r] \in Nat /\ user[r] \in User /\ tokens[r] \in 0..MaxTokens
  BY <1>3 DEF Placed, TypeOK
<1>5. Elsewhere(r) /\ pc'[r] = label /\ index'[r] = index[r] + 1
  BY <1>2, <1>3 DEF TypeOK, Elsewhere
<1>6. PICK d : d = <<r, index[r]>>
  OBVIOUS
<1>7. ASSUME NEW u, NEW e \in Unpaid(u)' PROVE e \in Unpaid(u) /\ e[1] # d
  <2>1. PICK q \in Request, l \in 1..Len(Limiters), i \in 1..MaxTokens : e = <<<<q, l>>, i>>
    BY DEF Unpaid
  <2>2. /\ pc'[q] = "consume" /\ user[q] = u /\ l \in LimitersOf(u) /\ index'[q] <= l
        /\ i <= tokens[q]
    BY <1>3, <2>1 DEF Unpaid, LimitersOf
  <2>3. pc[q] = "consume" /\ index[q] <= l /\ (q = r => l # index[r])
    <3>1. CASE q = r
      <4>1. index[r] + 1 <= l /\ l \in Nat
        BY <1>5, <2>2, <3>1, LengthType
      <4>2. QED
        BY <1>3, <1>4, <3>1, <4>1
    <3>2. CASE q # r
      BY <1>5, <2>2, <3>2 DEF Elsewhere
    <3>3. QED
      BY <3>1, <3>2
  <2>4. e[1] # d
    BY <1>6, <2>1, <2>3
  <2>5. e \in Unpaid(u)
    BY <2>1, <2>2, <2>3 DEF Unpaid
  <2>6. QED
    BY <2>4, <2>5
<1>8. \A u : Unpaid(u)' \subseteq Unpaid(u)
  BY <1>7
<1>9. ASSUME NEW u \in User, u # x \/ x \notin rows PROVE Covered(u)'
  <2>1. granted'[u] = granted[u] /\ available'[u] = available[u] /\ token_usage'[u] = token_usage[u]
    BY <1>3, <1>9 DEF TypeOK
  <2>2. Covered(u)
    BY DEF Recorded, Covered
  <2>3. QED
    BY <1>8, <2>1, <2>2, StaysCovered
<1>10. ASSUME x \in User, x \in rows PROVE Covered(x)'
  <2>1. PICK t \in Nat : t = tokens[r]
    BY <1>4, MaxTokensAssumption
  <2>2. x = user[r] /\ index[r] \in LimitersOf(x) /\ index[r] <= index[r]
    BY <1>1, <1>4, <1>10, SubjectAssumption DEF Subject, LimitersOf
  <2>3. {d} \X (1..t) \subseteq Unpaid(x)
    <3>1. \A i \in 1..t : i \in 1..MaxTokens /\ i <= tokens[r]
      BY <1>4, <2>1, MaxTokensAssumption
    <3>2. QED
      BY <1>3, <1>4, <1>6, <2>2, <3>1 DEF Unpaid
  <2>4. Unpaid(x)' \subseteq Unpaid(x) \ ({d} \X (1..t))
    BY <1>7
  <2>5. Cardinality(Unpaid(x)') + t <= Cardinality(Unpaid(x))
    BY <2>3, <2>4, UnpaidType, TokensTaken
  <2>6. PICK n \in Nat : n = Cardinality(Unpaid(x))
    BY UnpaidType
  <2>7. PICK m \in Nat : m = Cardinality(Unpaid(x)')
    BY UnpaidTypeNext
  <2>8. PICK k : k = Cardinality(LimitersOf(x)) * token_usage[x]
    OBVIOUS
  <2>9. k \in Int
    BY <1>10, <2>8, LimitersOfType DEF TypeOK
  <2>10. PICK debt \in Int : debt = granted[x] - available[x]
    BY <1>10 DEF TypeOK, Row
  <2>11. debt + n <= k
    BY <1>10, <2>6, <2>8, <2>10 DEF Recorded
  <2>12. granted'[x] - available'[x] = debt + t
    <3>1. available[x] \in Int /\ granted[x] \in Int /\ available'[x] = available[x] - t
      BY <1>3, <1>10, <2>1 DEF TypeOK
    <3>2. QED
      BY <1>3, <2>10, <3>1
  <2>13. debt + t + m <= k
    BY <2>5, <2>6, <2>7, <2>9, <2>11
  <2>14. Cardinality(LimitersOf(x))' * token_usage'[x] = k
    BY <1>3, <2>8, LimitersConstant
  <2>15. QED
    BY <2>7, <2>12, <2>13, <2>14 DEF Covered
<1>11. \A u \in User : Covered(u)'
  BY <1>9, <1>10
<1>12. \A y \in Row \ rows' : granted'[y] = available'[y]
  BY <1>3 DEF Recorded, TypeOK
<1>13. QED
  BY <1>11, <1>12 DEF Recorded, Covered, Row

\* Where no debt changes the books stay balanced.
LEMMA BooksUnchanged ==
    ASSUME TypeOK, Recorded, rows \subseteq rows', token_usage' = token_usage,
           \A u \in User : Unpaid(u)' \subseteq Unpaid(u),
           \A x \in Row : granted'[x] - available'[x] = granted[x] - available[x],
           \A x \in Row : granted'[x] \in Int /\ available'[x] \in Int
    PROVE  Recorded'
<1>1. \A u \in User : Covered(u) /\ u \in Row
  BY DEF Recorded, Covered, Row
<1>2. \A u \in User : Covered(u)'
  BY <1>1, StaysCovered
<1>3. ASSUME NEW x \in Row, x \notin rows' PROVE granted'[x] = available'[x]
  <2>1. granted[x] = available[x] /\ available[x] \in Int
    BY <1>3 DEF Recorded, TypeOK
  <2>2. granted'[x] - available'[x] = 0
    BY <2>1
  <2>3. QED
    BY <2>2
<1>4. QED
  BY <1>2, <1>3 DEF Recorded, Covered, Row

LEMMA RecordedStep ==
    ASSUME TypeOK, TypeOK', Checked, Placed, Recorded, [Next]_vars
    PROVE  Recorded'
<1>1. \A x \in Row : granted'[x] \in Int /\ available'[x] \in Int
  BY DEF TypeOK, Row
<1>2. \A x \in Row : granted[x] \in Int /\ available[x] \in Int
  BY DEF TypeOK
<1>3. ASSUME UNCHANGED <<pc, user, index, tokens, rows, token_usage, available, granted>> PROVE Recorded'
  <2>1. \A u : Unpaid(u)' = Unpaid(u)
    BY <1>3 DEF Unpaid, LimitersOf
  <2>2. QED
    BY <1>1, <1>3, <2>1, BooksUnchanged
\* A request moves without debiting.
<1>4. ASSUME NEW r \in Request, pc'[r] # "consume", Elsewhere(r),
             \A q \in Request \ {r} : tokens'[q] = tokens[q],
             UNCHANGED <<rows, token_usage, available, granted>>
      PROVE  Recorded'
  <2>1. \A u : Unpaid(u)' \subseteq Unpaid(u)
    BY <1>4, UnpaidOf
  <2>2. QED
    BY <1>1, <1>4, <2>1, BooksUnchanged
<1>5. ASSUME NEW r \in Request, NEW balance, ensure_available_quota(r, balance), user' = user
      PROVE  pc'[r] # "consume" /\ Elsewhere(r)
  <2>1. PICK label \in {"refused", "llm", "check"} : pc' = [pc EXCEPT ![r] = label]
    BY <1>5 DEF ensure_available_quota, Goto
  <2>2. \A q \in Request \ {r} : index'[q] = index[q]
    BY <1>5 DEF ensure_available_quota, TypeOK
  <2>3. QED
    BY <1>5, <2>1, <2>2 DEF Elsewhere, TypeOK
<1>6. ASSUME NEW r \in Request, NEW u \in User, arrive(r, u) PROVE Recorded'
  <2>1. PICK label \in {"llm", "check"} : pc' = [pc EXCEPT ![r] = label]
    BY <1>6 DEF arrive, Goto
  <2>2. /\ user' = [user EXCEPT ![r] = u] /\ index' = [index EXCEPT ![r] = 1]
        /\ tokens' = [tokens EXCEPT ![r] = 0]
        /\ UNCHANGED <<rows, token_usage, available, granted>>
    BY <1>6 DEF arrive, tables, historyVars
  <2>3. pc'[r] # "consume" /\ Elsewhere(r) /\ \A q \in Request \ {r} : tokens'[q] = tokens[q]
    BY <2>1, <2>2 DEF Elsewhere, TypeOK
  <2>4. QED
    BY <1>4, <2>2, <2>3
<1>7. ASSUME NEW r \in Request, available_quota(r) PROVE Recorded'
  <2>1. UNCHANGED <<rows, token_usage, available, granted, user, tokens>>
    BY <1>7 DEF available_quota, tables, historyVars
  <2>2. CASE Subject(index[r], user[r]) \in rows
    BY <1>4, <1>5, <1>7, <2>1, <2>2 DEF available_quota
  <2>3. CASE Subject(index[r], user[r]) \notin rows
    BY <1>4, <1>7, <2>1, <2>3 DEF available_quota, Goto, Elsewhere, TypeOK
  <2>4. QED
    BY <2>2, <2>3
<1>8. ASSUME NEW r \in Request, init_quota(r) PROVE Recorded'
  <2>1. PICK x : x = Subject(index[r], user[r])
    OBVIOUS
  <2>2. PICK q : q = Limiters[index[r]].initial_quota
    OBVIOUS
  <2>3. pc[r] = "init" /\ UNCHANGED <<token_usage, user, tokens>> /\ user[r] \in User
    BY <1>8 DEF init_quota, TypeOK
  <2>4. x \in Row /\ q \in Nat
    BY <2>1, <2>2, <2>3, SubjectType, LimiterFields DEF Checked
  <2>5. CASE x \in rows
    <3>1. /\ pc' = [pc EXCEPT ![r] = "failed"]
          /\ UNCHANGED <<index, rows, available, granted>>
      BY <1>8, <2>1, <2>5 DEF init_quota, Goto, historyVars
    <3>2. pc'[r] # "consume" /\ Elsewhere(r)
      BY <2>3, <3>1 DEF Elsewhere, TypeOK
    <3>3. QED
      BY <1>4, <2>3, <3>1, <3>2
  <2>6. CASE x \notin rows
    <3>1. /\ rows' = rows \cup {x} /\ available' = [available EXCEPT ![x] = q]
          /\ granted' = [granted EXCEPT ![x] = q] /\ ensure_available_quota(r, q)
      BY <1>8, <2>1, <2>2, <2>6 DEF init_quota
    <3>2. \A u : Unpaid(u)' \subseteq Unpaid(u)
      BY <1>5, <2>3, <3>1, UnpaidOf
    <3>3. ASSUME NEW y \in Row PROVE granted'[y] - available'[y] = granted[y] - available[y]
      <4>1. CASE y # x
        BY <3>1, <4>1 DEF TypeOK
      <4>2. CASE y = x
        <5>1. granted[x] = available[x] /\ available[x] \in Int
          BY <2>4, <2>6 DEF Recorded, TypeOK
        <5>2. granted'[x] = q /\ available'[x] = q
          BY <2>4, <3>1 DEF TypeOK
        <5>3. q - q = available[x] - available[x]
          BY <2>4, <5>1
        <5>4. QED
          BY <4>2, <5>1, <5>2, <5>3
      <4>3. QED
        BY <4>1, <4>2
    <3>4. QED
      BY <1>1, <2>3, <3>1, <3>2, <3>3, BooksUnchanged
  <2>7. QED
    BY <2>5, <2>6
<1>9. ASSUME NEW r \in Request, NEW n \in 0..MaxTokens, generate_response(r, n) PROVE Recorded'
  <2>1. /\ pc' = [pc EXCEPT ![r] = "store"] /\ index' = [index EXCEPT ![r] = 1]
        /\ tokens' = [tokens EXCEPT ![r] = n] /\ user' = user
        /\ UNCHANGED <<rows, token_usage, available, granted>>
    BY <1>9 DEF generate_response, Goto, tables, historyVars
  <2>2. pc'[r] # "consume" /\ Elsewhere(r) /\ \A q \in Request \ {r} : tokens'[q] = tokens[q]
    BY <2>1 DEF Elsewhere, TypeOK
  <2>3. QED
    BY <1>4, <2>1, <2>2
<1>10. ASSUME NEW r \in Request, \/ disconnect(r) \/ store_conversation_history(r)
                                 \/ get_available_quotas(r) \/ fail(r)
       PROVE  Recorded'
  <2>1. UNCHANGED <<rows, token_usage, available, granted, user, index, tokens>>
    BY <1>10 DEF disconnect, store_conversation_history, get_available_quotas, fail, tables, historyVars
  <2>2. PICK label \in {"gone", "history", "done", "failed"} : pc' = [pc EXCEPT ![r] = label]
    BY <1>10 DEF disconnect, store_conversation_history, get_available_quotas, fail, Goto
  <2>3. pc'[r] # "consume" /\ Elsewhere(r)
    BY <2>1, <2>2 DEF Elsewhere, TypeOK
  <2>4. QED
    BY <1>4, <2>1, <2>3
<1>11. ASSUME NEW r \in Request, consume_tokens_history(r) PROVE Recorded'
  BY <1>11, HistoryRecorded
<1>12. ASSUME NEW r \in Request, consume_tokens(r) PROVE Recorded'
  BY <1>12, DebitRecorded
\* A statement of the scheduler puts on a row what it notes as granted.
<1>13. ASSUME NEW l \in 1..Len(Limiters), NEW b \in [Due(l) -> Int], Apply(Due(l), b),
              UNCHANGED <<token_usage, pc, user, index, tokens>>
       PROVE  Recorded'
  <2>1. \A u : Unpaid(u)' = Unpaid(u)
    BY <1>13 DEF Unpaid, LimitersOf
  <2>2. ASSUME NEW x \in Row PROVE granted'[x] - available'[x] = granted[x] - available[x]
    <3>1. CASE x \in Due(l)
      <4>1. granted'[x] = granted[x] + b[x] - available[x] /\ available'[x] = b[x] /\ b[x] \in Int
        BY <1>13, <3>1 DEF Apply
      <4>2. QED
        BY <1>2, <4>1
    <3>2. CASE x \notin Due(l)
      BY <1>13, <3>2 DEF Apply
    <3>3. QED
      BY <3>1, <3>2
  <2>3. QED
    BY <1>1, <1>13, <2>1, <2>2, BooksUnchanged DEF Apply
<1>14. ASSUME NEW p \in Replica, NEW l \in 1..Len(Limiters), increase_quota(p, l) PROVE Recorded'
  <2>1. CASE alive[p] /\ Limiters[l].quota_increase # None
    <3>1. PICK b : b = [x \in Due(l) |-> available[x] + Limiters[l].quota_increase]
      OBVIOUS
    <3>2. Apply(Due(l), b) /\ UNCHANGED <<token_usage, pc, user, index, tokens>>
      BY <1>14, <2>1, <3>1 DEF increase_quota, requestVars
    <3>3. Limiters[l].quota_increase \in Nat
      BY <2>1, LimiterFields
    <3>4. \A x \in Due(l) : available[x] + Limiters[l].quota_increase \in Int
      <4>1. \A x \in Due(l) : available[x] \in Int
        BY DEF Due, TypeOK
      <4>2. QED
        BY <3>3, <4>1
    <3>5. b \in [Due(l) -> Int]
      BY <3>1, <3>4
    <3>6. QED
      BY <1>13, <3>2, <3>5
  <2>2. CASE ~(alive[p] /\ Limiters[l].quota_increase # None)
    BY <1>3, <1>14, <2>2 DEF increase_quota, requestVars, historyVars
  <2>3. QED
    BY <2>1, <2>2
<1>15. ASSUME NEW p \in Replica, NEW l \in 1..Len(Limiters), reset_quota(p, l) PROVE Recorded'
  <2>1. CASE alive[p] /\ Limiters[l].initial_quota > 0
    <3>1. PICK b : b = [x \in Due(l) |-> Limiters[l].initial_quota]
      OBVIOUS
    <3>2. Apply(Due(l), b) /\ UNCHANGED <<token_usage, pc, user, index, tokens>>
      BY <1>15, <2>1, <3>1 DEF reset_quota, requestVars
    <3>3. b \in [Due(l) -> Int]
      BY <3>1, LimiterFields
    <3>4. QED
      BY <1>13, <3>2, <3>3
  <2>2. CASE ~(alive[p] /\ Limiters[l].initial_quota > 0)
    BY <1>3, <1>15, <2>2 DEF reset_quota, requestVars, historyVars
  <2>3. QED
    BY <2>1, <2>2
<1>16. ASSUME NEW p \in Replica, wake(p) \/ connection_lost(p) \/ restart(p) PROVE Recorded'
  BY <1>3, <1>16 DEF wake, connection_lost, restart, tables, requestVars, historyVars
<1>17. CASE tick
  BY <1>3, <1>17 DEF tick, tables, requestVars, historyVars
<1>18. CASE UNCHANGED vars
  BY <1>3, <1>18 DEF vars
<1>19. QED
  BY <1>6, <1>7, <1>8, <1>9, <1>10, <1>11, <1>12, <1>14, <1>15, <1>16, <1>17, <1>18
     DEF Next, Handle, Schedule

-----------------------------------------------------------------------------

\* The inductive invariant.
QuotaInv == TypeOK /\ Checked /\ DebitsLand /\ Paced /\ Placed /\ Backed /\ Recorded

LEMMA QuotaInvariant == Spec => []QuotaInv
<1>1. Init => QuotaInv
  <2> SUFFICES ASSUME Init PROVE QuotaInv
    OBVIOUS
  <2>1. TypeOK
    BY MaxTokensAssumption, MaxTimeAssumption, LengthType DEF Init, TypeOK, Label
  <2>2. Checked /\ DebitsLand /\ Paced /\ Placed /\ Backed
    BY DEF Init, Checked, DebitsLand, Paced, Placed, Backed
  <2>3. Recorded
    <3>1. \A u : Unpaid(u) = {}
      BY DEF Init, Unpaid
    <3>2. \A u : Cardinality(Unpaid(u)) = 0
      BY <3>1, FS_EmptySet
    <3>3. \A x \in Row : granted[x] = 0 /\ available[x] = 0
      BY DEF Init
    <3>4. ASSUME NEW u \in User
          PROVE  granted[u] - available[u] + Cardinality(Unpaid(u))
                     <= Cardinality(LimitersOf(u)) * token_usage[u]
      <4>1. granted[u] = 0 /\ available[u] = 0 /\ token_usage[u] = 0
        BY <3>3 DEF Init, Row
      <4>2. Cardinality(LimitersOf(u)) * 0 = 0
        BY LimitersOfType
      <4>3. QED
        BY <3>2, <4>1, <4>2
    <3>5. QED
      BY <3>3, <3>4 DEF Recorded
  <2>4. QED
    BY <2>1, <2>2, <2>3 DEF QuotaInv
<1>2. QuotaInv /\ [Next]_vars => QuotaInv'
  <2> SUFFICES ASSUME QuotaInv, [Next]_vars PROVE QuotaInv'
    OBVIOUS
  <2>1. TypeOK /\ Checked /\ DebitsLand /\ Paced /\ Placed /\ Backed /\ Recorded
    BY DEF QuotaInv
  <2>2. TypeOK' /\ Checked' /\ DebitsLand' /\ Paced'
    BY <2>1, TypeStep, CheckedStep, PacedStep
  <2>3. Placed' /\ Backed'
    BY <2>1, PlacedStep, BackedStep
  <2>4. Recorded'
    BY <2>1, <2>2, RecordedStep
  <2>5. QED
    BY <2>2, <2>3, <2>4 DEF QuotaInv
<1>3. QED
  BY <1>1, <1>2, PTL DEF Spec

\* The tables, the handlers and the schedulers keep their types.
THEOREM QuotaTypeCorrect == Spec => []TypeOK
<1>1. QuotaInv => TypeOK
  BY DEF QuotaInv
<1>2. QED
  BY <1>1, QuotaInvariant, PTL

\* No debit is lost for want of a row, with any number of limiters, users and
\* concurrent first requests (check_tokens_available, consume_tokens).
THEOREM DebitsAlwaysLand == Spec => []DebitsLand
<1>1. QuotaInv => DebitsLand
  BY DEF QuotaInv
<1>2. QED
  BY <1>1, QuotaInvariant, PTL

\* The scheduler's guard against double application, for any number of replicas:
\* the statements' condition on revoked_at is enough, no lock is needed.
THEOREM AtMostOncePerPeriod == Spec => []OncePerPeriod
<1>1. QuotaInv => OncePerPeriod
  <2> SUFFICES ASSUME QuotaInv, NEW x \in rows, NEW l \in 1..Len(Limiters), l \in LimitersOf(x),
                      \A m \in LimitersOf(x) : Limiters[l].period <= Limiters[m].period
               PROVE  updates[x] * (Limiters[l].period + 1) <= now - created_at[x]
    BY DEF OncePerPeriod
  <2>1. updates[x] * (Limiters[l].period + 1) <= revoked_at[x] - created_at[x]
    BY DEF QuotaInv, Paced
  <2>2. revoked_at[x] <= now
    BY DEF QuotaInv, Paced
  <2>3. /\ now \in Int /\ revoked_at[x] \in Int /\ created_at[x] \in Int
        /\ updates[x] \in Nat /\ Limiters[l].period \in Nat
    BY LimiterFields, MaxTimeAssumption DEF QuotaInv, TypeOK
  <2>4. updates[x] * (Limiters[l].period + 1) \in Int
    BY <2>3
  <2>5. QED
    BY <2>1, <2>2, <2>3, <2>4
<1>2. QED
  BY <1>1, QuotaInvariant, PTL

\* The overdraft of a row is bounded although the check reserves nothing: however
\* many requests pass check_tokens_available before the first of them debits, the
\* debits pending against a row cost no more than its floor leaves.
THEOREM OverdraftWithinBound == Spec => []OverdraftBounded
<1>1. QuotaInv => OverdraftBounded
  <2> SUFFICES ASSUME QuotaInv, NEW x \in rows PROVE available[x] > -Floor(x)
    BY DEF OverdraftBounded, Floor
  <2>1. PICK c \in Nat : c = MaxTokens * Cardinality(Pending(x))
    BY PendingType, WithinFloor
  <2>2. available[x] > c - Floor(x) /\ available[x] \in Int
    BY <2>1 DEF QuotaInv, Backed, TypeOK
  <2>3. Floor(x) \in Nat
    BY PendingType, WithinFloor
  <2>4. QED
    BY <2>2, <2>3
<1>2. QED
  BY <1>1, QuotaInvariant, PTL

\* Whatever fails between the upsert of the usage history and the last UPDATE of
\* the limiters, no user was debited for tokens that the history does not show.
THEOREM HistoryAlwaysCovers == Spec => []HistoryCoversDebits
<1>1. QuotaInv => HistoryCoversDebits
  <2> SUFFICES ASSUME QuotaInv, NEW u \in User
               PROVE  granted[u] - available[u] <= Cardinality(LimitersOf(u)) * token_usage[u]
    BY DEF HistoryCoversDebits
  <2>1. PICK n \in Nat : n = Cardinality(Unpaid(u))
    BY UnpaidType
  <2>2. PICK debt \in Int : debt = granted[u] - available[u]
    BY DEF QuotaInv, TypeOK, Row
  <2>3. PICK k : k = Cardinality(LimitersOf(u)) * token_usage[u]
    OBVIOUS
  <2>4. k \in Int
    BY <2>3, LimitersOfType DEF QuotaInv, TypeOK
  <2>5. debt + n <= k
    BY <2>1, <2>2, <2>3 DEF QuotaInv, Recorded
  <2>6. QED
    BY <2>2, <2>3, <2>4, <2>5
<1>2. QED
  BY <1>1, QuotaInvariant, PTL
=============================================================================
