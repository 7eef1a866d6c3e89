------------------------ MODULE PostgresCache_proofs ------------------------
(***************************************************************************)
(* What the tables of the Postgres cache hold, for any number of replicas  *)
(* and conversations, under any interleaving of their statements, lost     *)
(* sessions and detected deadlocks.                                        *)
(*                                                                         *)
(* A conversation that is not contended has at most one transaction at     *)
(* work on it (Alone): appends exclude each other by the advisory lock     *)
(* (Exclusive), and whoever else meets them contends.  So what that        *)
(* transaction has read is still what is stored, and what it has written   *)
(* (Told, Tallied) goes with the log when it is committed.                 *)
(*                                                                         *)
(* The size of the table is bounded through the places of its entries,     *)
(* those included that a transaction has seen and can still write back     *)
(* (Slots).  They are finitely many, no statement adds one, and a commit   *)
(* adds one at most, which an insert that nobody overlapped has made up    *)
(* for by its eviction (Exact).                                            *)
(***************************************************************************)
EXTENDS PostgresCache, SequenceTheorems, FiniteSetTheorems, WellFoundedInduction, TLAPS

Inserting == {"upsert", "count", "oldest", "evict", "commit"}
Deleting == {"delete_meta", "delete_commit"}

TypeOK ==
    /\ cache \in [Key -> Row]
    /\ conversations \in [Key -> Nat \cup {NoRow}]
    /\ now \in Nat
    /\ pc \in [Replica -> {"idle", "lock", "select", "write", "delete_row"} \cup Inserting \cup Deleting]
    /\ key \in [Replica -> Key]
    /\ started \in [Replica -> Nat]
    /\ old_value \in [Replica -> Seq(Nat)]
    /\ victim \in [Replica -> SUBSET Key]
    /\ draft \in [Replica -> [Key -> Row \cup {Clean}]]
    /\ draft_meta \in [Replica -> [Key -> Nat \cup {NoRow, Clean}]]
    /\ log \in [Key -> Seq(Nat)]
    /\ contended \subseteq Key

\* p holds the advisory lock of its conversation.
Holds(p) == pc[p] \in {"select", "write"} \cup Inserting

Exclusive == \A p, q \in Replica : Holds(p) /\ Holds(q) /\ key[p] = key[q] => p = q

\* The transaction of p is in the middle of changing k.
Busy(p, k) ==
    \/ k \in victim[p]
    \/ k = key[p] /\ pc[p] \in {"write"} \cup Inserting \cup Deleting

Alone == \A k \in Key \ contended : \A p, q \in Replica : Busy(p, k) /\ Busy(q, k) => p = q

\* A transaction has written only what it is busy with, and its victim had
\* an entry.
OwnDrafts(p) ==
    \A k \in Key :
        /\ draft[p][k] # Clean => k \in victim[p] \/ (k = key[p] /\ pc[p] \in Inserting \cup Deleting)
        /\ draft_meta[p][k] # Clean =>
              k = key[p] /\ pc[p] \in {"count", "oldest", "evict", "commit", "delete_commit"}
        /\ k \in victim[p] => pc[p] \in {"evict", "commit"} /\ old_value[p] # <<>>

\* s is the end of t.
EndsWith(t, s) ==
    Len(s) <= Len(t) /\ \A i \in 1..Len(s) : s[i] = t[Len(t) - Len(s) + i]

\* What p has read and written of the history of k.
Told(p, k) ==
    /\ k = key[p] /\ pc[p] = "write" => old_value[p] = cache[k].value
    /\ k = key[p] /\ pc[p] \in Inserting => EndsWith(Append(log[k], started[p]), Seen(p, k).value)
    /\ k = key[p] /\ pc[p] \in Deleting => Seen(p, k).value = <<>>
    /\ k # key[p] /\ k \in victim[p] => EndsWith(log[k], Seen(p, k).value)
    /\ k \in victim[p] /\ pc[p] = "evict" => Seen(p, k).value = old_value[p]

\* What p has made of the message_count of k.
Tallied(p, k) ==
    /\ k = key[p] /\ pc[p] \in {"count", "oldest", "evict", "commit"} =>
          draft_meta[p][k] # Clean /\ SeenMeta(p, k) = Len(log[k]) + 1
    /\ k = key[p] /\ pc[p] = "delete_commit" => SeenMeta(p, k) \in {NoRow, 0}

\* The rows of k agree with the log.
Right(k) ==
    /\ EndsWith(log[k], cache[k].value)
    /\ conversations[k] = Len(log[k]) \/ (conversations[k] = NoRow /\ log[k] = <<>>)

CacheInv ==
    /\ TypeOK
    /\ Exclusive
    /\ Alone
    /\ \A p \in Replica : OwnDrafts(p)
    /\ \A k \in Key \ contended : Right(k)
    /\ \A k \in Key \ contended : \A p \in Replica : Told(p, k) /\ Tallied(p, k)

-----------------------------------------------------------------------------
(* Ends of histories *)

LEMMA EndsWithSuffix ==
    ASSUME NEW s \in Seq(Nat), NEW t \in Seq(Nat), EndsWith(t, s)
    PROVE  IsSuffix(s, t)
<1> DEFINE n == Len(s)
           rs == Reverse(s)
           rt == Reverse(t)
<1>1. n \in Nat /\ Len(t) \in Nat /\ n <= Len(t) /\ \A i \in 1..n : s[i] = t[Len(t) - n + i]
  BY LenProperties DEF EndsWith
<1>2. rs \in Seq(Nat) /\ Len(rs) = n /\ \A i \in 1..n : rs[i] = s[(n - i) + 1]
  BY <1>1, SMTT(30) DEF Reverse
<1>3. rt \in Seq(Nat) /\ Len(rt) = Len(t) /\ \A i \in 1..Len(t) : rt[i] = t[(Len(t) - i) + 1]
  BY <1>1, SMTT(30) DEF Reverse
<1> HIDE DEF rs, rt
<1>4. \A i \in 1..n : rs[i] = rt[i]
  <2> TAKE i \in 1..n
  <2>1. (n - i) + 1 \in 1..n /\ i \in 1..Len(t) /\ Len(t) - n + ((n - i) + 1) = (Len(t) - i) + 1
    BY <1>1
  <2>2. QED
    BY <1>1, <1>2, <1>3, <2>1
<1>5. SubSeq(rs, 1, Len(rs)) = SubSeq(rt, 1, Len(rs))
  <2>1. /\ SubSeq(rs, 1, n) = [i \in 1..n |-> rs[i]]
        /\ SubSeq(rt, 1, n) = [i \in 1..n |-> rt[i]]
    BY <1>1, <1>2, <1>3
  <2>2. QED
    BY <1>2, <1>4, <2>1
<1>6. IsPrefix(rs, rt)
  BY <1>1, <1>2, <1>3, <1>5 DEF IsPrefix
<1>7. QED
  BY <1>6 DEF IsSuffix, rs, rt

LEMMA EndsWithAppend ==
    ASSUME NEW s \in Seq(Nat), NEW t \in Seq(Nat), NEW x \in Nat, EndsWith(t, s)
    PROVE  EndsWith(Append(t, x), Append(s, x))
<1>1. /\ Len(s) \in Nat /\ Len(t) \in Nat
      /\ Len(Append(s, x)) = Len(s) + 1 /\ Len(Append(t, x)) = Len(t) + 1
      /\ \A i \in 1..(Len(s) + 1) : Append(s, x)[i] = IF i <= Len(s) THEN s[i] ELSE x
      /\ \A i \in 1..(Len(t) + 1) : Append(t, x)[i] = IF i <= Len(t) THEN t[i] ELSE x
  BY LenProperties, AppendProperties
<1>2. ASSUME NEW i \in 1..(Len(s) + 1)
      PROVE  Append(s, x)[i] = Append(t, x)[(Len(t) + 1) - (Len(s) + 1) + i]
  <2>1. Len(s) <= Len(t) /\ \A j \in 1..Len(s) : s[j] = t[Len(t) - Len(s) + j]
    BY DEF EndsWith
  <2>2. (Len(t) + 1) - (Len(s) + 1) + i = Len(t) - Len(s) + i /\ Len(t) - Len(s) + i \in 1..(Len(t) + 1)
    BY <1>1, <2>1
  <2>3. CASE i <= Len(s)
    <3>1. i \in 1..Len(s) /\ Len(t) - Len(s) + i <= Len(t)
      BY <1>1, <2>3
    <3>2. QED
      BY <1>1, <2>1, <2>2, <2>3, <3>1
  <2>4. CASE ~(i <= Len(s))
    <3>1. ~(Len(t) - Len(s) + i <= Len(t))
      BY <1>1, <2>4
    <3>2. QED
      BY <1>1, <2>2, <2>4, <3>1
  <2>5. QED
    BY <2>3, <2>4
<1>3. Len(s) + 1 <= Len(t) + 1
  BY <1>1 DEF EndsWith
<1>4. QED
  BY <1>1, <1>2, <1>3 DEF EndsWith

LEMMA EndsWithLast ==
    ASSUME NEW t \in Seq(Nat), NEW x \in Nat
    PROVE  EndsWith(Append(t, x), <<x>>)
<1>1. /\ Len(t) \in Nat /\ Len(Append(t, x)) = Len(t) + 1 /\ Append(t, x)[Len(t) + 1] = x
  BY LenProperties, AppendProperties
<1>2. QED
  BY <1>1 DEF EndsWith

LEMMA EndsWithTail ==
    ASSUME NEW s \in Seq(Nat), NEW t \in Seq(Nat), s # <<>>, EndsWith(t, s)
    PROVE  EndsWith(t, Tail(s))
<1>1. /\ Len(s) \in Nat \ {0} /\ Len(t) \in Nat /\ Len(Tail(s)) = Len(s) - 1
      /\ \A i \in 1..(Len(s) - 1) : Tail(s)[i] = s[i + 1]
  BY LenProperties, EmptySeq, HeadTailProperties
<1>2. QED
  BY <1>1 DEF EndsWith

LEMMA EndsWithNothing ==
    ASSUME NEW t \in Seq(Nat)
    PROVE  EndsWith(t, <<>>)
  BY LenProperties DEF EndsWith

-----------------------------------------------------------------------------
(* One replica at a time *)

\* The replicas other than p stay as they are.
Elsewhere(p) ==
    \A q \in Replica \ {p} :
        /\ pc'[q] = pc[q] /\ key'[q] = key[q] /\ started'[q] = started[q]
        /\ old_value'[q] = old_value[q] /\ victim'[q] = victim[q]
        /\ draft'[q] = draft[q] /\ draft_meta'[q] = draft_meta[q]

\* Who is not busy with a conversation has nothing to say of it.
LEMMA NotBusy ==
    ASSUME NEW p, NEW k, ~Busy(p, k)
    PROVE  Told(p, k) /\ Tallied(p, k)
  BY DEF Busy, Told, Tallied, Inserting, Deleting

LEMMA NotBusyNext ==
    ASSUME NEW p, NEW k, ~Busy(p, k)'
    PROVE  Told(p, k)' /\ Tallied(p, k)'
  BY DEF Busy, Told, Tallied, Inserting, Deleting

\* What p may change without concern of the others.
LEMMA Steps ==
    ASSUME CacheInv, NEW p \in Replica, TypeOK', Elsewhere(p), contended \subseteq contended',
           \A q \in Replica \ {p} : Holds(p)' /\ Holds(q) => key'[p] # key[q],
           \A k \in Key \ contended' : \A q \in Replica \ {p} : Busy(p, k)' => ~Busy(q, k),
           \A k \in Key \ contended' : \A q \in Replica \ {p} : Busy(q, k) =>
               cache'[k] = cache[k] /\ conversations'[k] = conversations[k] /\ log'[k] = log[k],
           OwnDrafts(p)',
           \A k \in Key \ contended' : Right(k)' /\ Told(p, k)' /\ Tallied(p, k)'
    PROVE  CacheInv'
<1>1. \A q \in Replica \ {p} : /\ Holds(q)' = Holds(q) /\ key'[q] = key[q]
                               /\ \A k : Busy(q, k)' = Busy(q, k)
  BY DEF Elsewhere, Holds, Busy
<1>2. Exclusive'
  BY <1>1 DEF CacheInv, Exclusive
<1>3. Alone'
  BY <1>1 DEF CacheInv, Alone
<1>4. \A q \in Replica : OwnDrafts(q)'
  BY DEF CacheInv, OwnDrafts, Elsewhere
<1>5. ASSUME NEW k \in Key \ contended', NEW q \in Replica \ {p} PROVE Told(q, k)' /\ Tallied(q, k)'
  <2>1. CASE ~Busy(q, k)
    BY <1>1, <2>1, NotBusyNext
  <2>2. CASE Busy(q, k)
    <3>1. Told(q, k) /\ Tallied(q, k)
      BY DEF CacheInv
    <3>2. cache'[k] = cache[k] /\ conversations'[k] = conversations[k] /\ log'[k] = log[k]
      BY <2>2
    <3>3. Seen(q, k)' = Seen(q, k) /\ SeenMeta(q, k)' = SeenMeta(q, k)
      BY <3>2 DEF Elsewhere, Seen, SeenMeta
    <3>4. QED
      BY <3>1, <3>2, <3>3 DEF Elsewhere, Told, Tallied
  <2>3. QED
    BY <2>1, <2>2
<1>6. QED
  BY <1>2, <1>3, <1>4, <1>5 DEF CacheInv

\* The value of a row is a history, of a metadata row a number.
LEMMA SeenTypes ==
    ASSUME TypeOK, NEW p \in Replica, NEW k \in Key
    PROVE  Seen(p, k) \in Row /\ SeenMeta(p, k) \in Nat \cup {NoRow}
<1>1. draft[p][k] \in Row \cup {Clean} /\ draft_meta[p][k] \in Nat \cup {NoRow, Clean}
  BY DEF TypeOK
<1>2. cache[k] \in Row /\ conversations[k] \in Nat \cup {NoRow}
  BY DEF TypeOK
<1>3. QED
  BY <1>1, <1>2 DEF Seen, SeenMeta

\* A row that a statement writes.
LEMMA WrittenRow ==
    ASSUME NEW v \in Seq(Nat), NEW n \in Nat
    PROVE  LET r == [value |-> v, updated_at |-> n] IN r \in Row /\ r # Clean /\ r.value = v
  BY CleanAssumption DEF Row

\* Before its first write, and when it is idle, p has no drafts.
LEMMA NoDrafts ==
    ASSUME CacheInv, NEW p \in Replica, NEW k \in Key
    PROVE  /\ pc[p] \notin {"evict", "commit"} => victim[p] = {}
           /\ pc[p] \notin Inserting \cup Deleting => draft[p][k] = Clean
           /\ pc[p] \notin {"count", "oldest", "evict", "commit", "delete_commit"} => draft_meta[p][k] = Clean
<1>1. victim[p] \subseteq Key /\ OwnDrafts(p)
  BY DEF CacheInv, TypeOK
<1>2. QED
  BY <1>1 DEF OwnDrafts, Inserting

\* The transaction of p at an end or before its first statement.
LEMMA AtRest ==
    ASSUME CacheInv, NEW p \in Replica, TypeOK', Elsewhere(p), contended' = contended,
           pc'[p] \in {"idle", "lock", "delete_row"}, victim'[p] = {},
           \A k \in Key : draft'[p][k] = Clean /\ draft_meta'[p][k] = Clean,
           \A k \in Key \ contended : \A q \in Replica \ {p} : Busy(q, k) =>
               cache'[k] = cache[k] /\ conversations'[k] = conversations[k] /\ log'[k] = log[k],
           \A k \in Key \ contended : Right(k)'
    PROVE  CacheInv'
<1>1. ~Holds(p)'
  BY DEF Holds, Inserting
<1>2. \A k : ~Busy(p, k)'
  BY DEF Busy, Inserting, Deleting
<1>3. OwnDrafts(p)'
  BY DEF OwnDrafts
<1>4. \A k \in Key : Told(p, k)' /\ Tallied(p, k)'
  BY <1>2, NotBusyNext
<1>5. QED
  BY <1>1, <1>2, <1>3, <1>4, Steps

\* The end of a transaction.
LEMMA Ended ==
    ASSUME TypeOK, NEW p \in Replica, cache' \in [Key -> Row],
           conversations' \in [Key -> Nat \cup {NoRow}], log' \in [Key -> Seq(Nat)],
           contended' = contended, Over(p)
    PROVE  /\ TypeOK' /\ Elsewhere(p) /\ pc'[p] = "idle" /\ victim'[p] = {}
           /\ \A k \in Key : draft'[p][k] = Clean /\ draft_meta'[p][k] = Clean
<1>1. /\ pc' = [pc EXCEPT ![p] = "idle"] /\ old_value' = [old_value EXCEPT ![p] = <<>>]
      /\ victim' = [victim EXCEPT ![p] = {}] /\ draft' = [draft EXCEPT ![p] = Untouched]
      /\ draft_meta' = [draft_meta EXCEPT ![p] = Untouched]
      /\ now' = now /\ key' = key /\ started' = started
  BY DEF Over, Goto
<1>2. pc' \in [Replica -> {"idle", "lock", "select", "write", "delete_row"} \cup Inserting \cup Deleting]
  BY <1>1 DEF TypeOK
<1>3. Untouched \in [Key -> Row \cup {Clean}] /\ Untouched \in [Key -> Nat \cup {NoRow, Clean}]
      /\ \A k \in Key : Untouched[k] = Clean
  BY DEF Untouched
<1>4. old_value' \in [Replica -> Seq(Nat)] /\ victim' \in [Replica -> SUBSET Key]
  BY <1>1 DEF TypeOK
<1>5. draft' \in [Replica -> [Key -> Row \cup {Clean}]]
  BY <1>1, <1>3 DEF TypeOK
<1>6. draft_meta' \in [Replica -> [Key -> Nat \cup {NoRow, Clean}]]
  BY <1>1, <1>3 DEF TypeOK
<1>7. TypeOK'
  BY <1>1, <1>2, <1>4, <1>5, <1>6 DEF TypeOK
<1>8. Elsewhere(p)
  BY <1>1 DEF Elsewhere, TypeOK
<1>9. pc'[p] = "idle" /\ victim'[p] = {} /\ draft'[p] = Untouched /\ draft_meta'[p] = Untouched
  BY <1>1 DEF TypeOK
<1>10. QED
  BY <1>3, <1>7, <1>8, <1>9

LEMMA StartStep ==
    ASSUME CacheInv, NEW p \in Replica, NEW k \in Key, NEW label \in {"lock", "delete_row"},
           Start(p, k, label)
    PROVE  CacheInv'
<1>1. /\ pc[p] = "idle" /\ now' = now + 1 /\ pc' = [pc EXCEPT ![p] = label]
      /\ key' = [key EXCEPT ![p] = k] /\ started' = [started EXCEPT ![p] = now']
      /\ cache' = cache /\ conversations' = conversations /\ old_value' = old_value
      /\ victim' = victim /\ draft' = draft /\ draft_meta' = draft_meta
      /\ log' = log /\ contended' = contended
  BY DEF Start, Goto, tables, drafts
<1>2. TypeOK
  BY DEF CacheInv
<1>3. now' \in Nat /\ started' \in [Replica -> Nat] /\ key' \in [Replica -> Key]
  BY <1>1, <1>2 DEF TypeOK
<1>4. pc' \in [Replica -> {"idle", "lock", "select", "write", "delete_row"} \cup Inserting \cup Deleting]
  BY <1>1, <1>2 DEF TypeOK
<1>5. TypeOK'
  BY <1>1, <1>2, <1>3, <1>4 DEF TypeOK
<1>6. Elsewhere(p)
  BY <1>1, <1>2 DEF Elsewhere, TypeOK
<1>7. pc'[p] \in {"idle", "lock", "delete_row"}
  BY <1>1, <1>2 DEF TypeOK
<1>8. victim'[p] = {} /\ \A j \in Key : draft'[p][j] = Clean /\ draft_meta'[p][j] = Clean
  BY <1>1, NoDrafts DEF Inserting, Deleting
<1>9. \A j \in Key \ contended : Right(j)'
  BY <1>1 DEF CacheInv, Right
<1>10. QED
  BY <1>1, <1>5, <1>6, <1>7, <1>8, <1>9, AtRest

LEMMA RollbackStep ==
    ASSUME CacheInv, NEW p \in Replica, rollback(p)
    PROVE  CacheInv'
<1>1. Over(p) /\ cache' = cache /\ conversations' = conversations /\ log' = log /\ contended' = contended
  BY DEF rollback, tables
<1>2. TypeOK
  BY DEF CacheInv
<1>3. TypeOK' /\ Elsewhere(p) /\ pc'[p] = "idle" /\ victim'[p] = {}
      /\ \A j \in Key : draft'[p][j] = Clean /\ draft_meta'[p][j] = Clean
  <2>1. cache' \in [Key -> Row] /\ conversations' \in [Key -> Nat \cup {NoRow}] /\ log' \in [Key -> Seq(Nat)]
    BY <1>1, <1>2 DEF TypeOK
  <2>2. QED
    BY <1>1, <1>2, <2>1, Ended
<1>4. \A j \in Key \ contended : Right(j)'
  BY <1>1 DEF CacheInv, Right
<1>5. QED
  BY <1>1, <1>3, <1>4, AtRest

-----------------------------------------------------------------------------
(* The statements of insert_or_append *)

Label == {"idle", "lock", "select", "write", "delete_row"} \cup Inserting \cup Deleting

\* p runs a statement inside its transaction: the tables and the log stay.
Statement(p, label) ==
    /\ pc' = [pc EXCEPT ![p] = label]
    /\ cache' = cache /\ conversations' = conversations /\ log' = log
    /\ now' = now /\ key' = key /\ started' = started
    /\ \/ old_value' = old_value
       \/ \E s \in Seq(Nat) : old_value' = [old_value EXCEPT ![p] = s]
    /\ \/ victim' = victim
       \/ \E k \in Key : victim' = [victim EXCEPT ![p] = {k}]
    /\ \/ draft' = draft
       \/ \E k \in Key, r \in Row : draft' = [draft EXCEPT ![p][k] = r]
    /\ \/ draft_meta' = draft_meta
       \/ \E k \in Key, n \in Nat \cup {NoRow} : draft_meta' = [draft_meta EXCEPT ![p][k] = n]
    /\ contended \subseteq contended' /\ contended' \subseteq Key

LEMMA StatementTypes ==
    ASSUME CacheInv, NEW p \in Replica, NEW label \in Label, Statement(p, label)
    PROVE  TypeOK' /\ Elsewhere(p) /\ pc'[p] = label /\ \A k \in Key \ contended' : Right(k)'
<1>1. TypeOK
  BY DEF CacheInv
<1>2. pc' \in [Replica -> Label] /\ pc'[p] = label /\ \A q \in Replica \ {p} : pc'[q] = pc[q]
  BY <1>1 DEF Statement, TypeOK, Label
<1>3. old_value' \in [Replica -> Seq(Nat)] /\ \A q \in Replica \ {p} : old_value'[q] = old_value[q]
  <2>1. CASE old_value' = old_value
    BY <1>1, <2>1 DEF TypeOK
  <2>2. ASSUME NEW s \in Seq(Nat), old_value' = [old_value EXCEPT ![p] = s] PROVE <1>3
    BY <1>1, <2>2 DEF TypeOK
  <2>3. QED
    BY <2>1, <2>2 DEF Statement
<1>4. victim' \in [Replica -> SUBSET Key] /\ \A q \in Replica \ {p} : victim'[q] = victim[q]
  <2>1. CASE victim' = victim
    BY <1>1, <2>1 DEF TypeOK
  <2>2. ASSUME NEW k \in Key, victim' = [victim EXCEPT ![p] = {k}] PROVE <1>4
    BY <1>1, <2>2 DEF TypeOK
  <2>3. QED
    BY <2>1, <2>2 DEF Statement
<1>5. draft' \in [Replica -> [Key -> Row \cup {Clean}]] /\ \A q \in Replica \ {p} : draft'[q] = draft[q]
  <2>1. CASE draft' = draft
    BY <1>1, <2>1 DEF TypeOK
  <2>2. ASSUME NEW k \in Key, NEW r \in Row, draft' = [draft EXCEPT ![p][k] = r] PROVE <1>5
    BY <1>1, <2>2 DEF TypeOK
  <2>3. QED
    BY <2>1, <2>2 DEF Statement
<1>6. /\ draft_meta' \in [Replica -> [Key -> Nat \cup {NoRow, Clean}]]
      /\ \A q \in Replica \ {p} : draft_meta'[q] = draft_meta[q]
  <2>1. CASE draft_meta' = draft_meta
    BY <1>1, <2>1 DEF TypeOK
  <2>2. ASSUME NEW k \in Key, NEW n \in Nat \cup {NoRow}, draft_meta' = [draft_meta EXCEPT ![p][k] = n]
        PROVE  <1>6
    BY <1>1, <2>2 DEF TypeOK
  <2>3. QED
    BY <2>1, <2>2 DEF Statement
<1>7. TypeOK'
  BY <1>1, <1>2, <1>3, <1>4, <1>5, <1>6 DEF Statement, TypeOK, Label
<1>8. Elsewhere(p)
  BY <1>2, <1>3, <1>4, <1>5, <1>6 DEF Statement, Elsewhere
<1>9. \A k \in Key \ contended' : Right(k)'
  BY DEF CacheInv, Right, Statement
<1>10. QED
  BY <1>2, <1>7, <1>8, <1>9

\* A statement keeps the invariant if what p holds, is busy with and has
\* written is in order.
LEMMA StatementStep ==
    ASSUME CacheInv, NEW p \in Replica, NEW label \in Label, Statement(p, label),
           \A q \in Replica \ {p} : Holds(p)' /\ Holds(q) => key[p] # key[q],
           \A k \in Key \ contended' : \A q \in Replica \ {p} : Busy(p, k)' => ~Busy(q, k),
           OwnDrafts(p)',
           \A k \in Key \ contended' : Busy(p, k)' => Told(p, k)' /\ Tallied(p, k)'
    PROVE  CacheInv'
<1>1. TypeOK' /\ Elsewhere(p) /\ \A k \in Key \ contended' : Right(k)'
  BY StatementTypes
<1>2. /\ cache' = cache /\ conversations' = conversations /\ log' = log /\ key' = key
      /\ contended \subseteq contended'
  BY DEF Statement
<1>3. \A k \in Key \ contended' : Told(p, k)' /\ Tallied(p, k)'
  BY NotBusyNext
<1>4. QED
  BY <1>1, <1>2, <1>3, Steps

LEMMA LockStep ==
    ASSUME CacheInv, NEW p \in Replica, advisory_lock(p)
    PROVE  CacheInv'
<1>1. pc[p] = "lock" /\ Blockers(p) = {} /\ key[p] \in Key
  BY DEF advisory_lock, At, CacheInv, TypeOK
<1>2. advisory_holders(key[p]) = {}
  BY <1>1 DEF Blockers
<1>3. Statement(p, "select") /\ contended' = contended /\ key' = key
      /\ victim' = victim /\ draft' = draft /\ draft_meta' = draft_meta
  BY DEF advisory_lock, Goto, Statement, tables, locals, drafts, ghosts, CacheInv, TypeOK
<1>4. "select" \in Label
  BY DEF Label
<1>5. pc'[p] = "select"
  BY <1>3, <1>4, StatementTypes
<1>6. \A q \in Replica : Holds(q) => key[q] # key[p]
  BY <1>2 DEF advisory_holders, Holds, Inserting
<1>7. victim[p] = {} /\ \A k \in Key : draft[p][k] = Clean /\ draft_meta[p][k] = Clean
  BY <1>1, NoDrafts DEF Inserting, Deleting
<1>8. \A k \in Key : ~Busy(p, k)'
  BY <1>3, <1>5, <1>7 DEF Busy, Inserting, Deleting
<1>9. OwnDrafts(p)'
  BY <1>3, <1>7 DEF OwnDrafts
<1>10. QED
  BY <1>3, <1>4, <1>6, <1>8, <1>9, StatementStep

\* Who turns to K contends where others are at work.
LEMMA Contending ==
    ASSUME CacheInv, NEW p \in Replica, NEW k \in Key, NEW q \in Replica \ {p}
    PROVE  /\ k \in Destroys(q) <=> k \in victim[q] \/ (k = key[q] /\ pc[q] \in Deleting)
           /\ k \in Works(q) <=> Busy(q, k)
<1>1. k \in Destroys(q) <=> k \in victim[q] \/ (k = key[q] /\ pc[q] \in Deleting)
  BY DEF Destroys, Deleting
<1>2. k \in Appends(q) <=> k = key[q] /\ pc[q] \in {"write"} \cup Inserting
  BY DEF Appends, Inserting
<1>3. k \in Works(q) <=> k \in Destroys(q) \/ k \in Appends(q)
  BY DEF Works
<1>4. k \in Works(q) <=> Busy(q, k)
  BY <1>1, <1>2, <1>3 DEF Busy
<1>5. QED
  BY <1>1, <1>4

LEMMA SelectStep ==
    ASSUME CacheInv, NEW p \in Replica, _select(p)
    PROVE  CacheInv'
<1>1. PICK k \in Key : k = key[p]
  BY DEF CacheInv, TypeOK
<1>2. pc[p] = "select"
  BY DEF _select, At
<1>3. victim[p] = {} /\ \A j \in Key : draft[p][j] = Clean /\ draft_meta[p][j] = Clean
  BY <1>2, NoDrafts DEF Inserting, Deleting
<1>4. Seen(p, k) = cache[k] /\ cache[k].value \in Seq(Nat) /\ key[p] = k
  BY <1>1, <1>3 DEF Seen, CacheInv, TypeOK, Row
<1>5. /\ pc' = [pc EXCEPT ![p] = "write"] /\ old_value' = [old_value EXCEPT ![p] = cache[k].value]
      /\ cache' = cache /\ conversations' = conversations /\ log' = log /\ now' = now
      /\ key' = key /\ started' = started /\ victim' = victim /\ draft' = draft /\ draft_meta' = draft_meta
      /\ contended' = contended \cup {j \in {k} : \E q \in Replica \ {p} : j \in Destroys(q)}
  BY <1>4 DEF _select, Goto, tables, drafts, Contend
<1>6. contended \subseteq contended' /\ contended' \subseteq Key
  BY <1>2, <1>5 DEF CacheInv, TypeOK
<1>7. Statement(p, "write")
  BY <1>4, <1>5, <1>6 DEF Statement
<1>8. "write" \in Label
  BY DEF Label
<1>9. pc'[p] = "write" /\ old_value'[p] = cache'[k].value
  BY <1>5 DEF CacheInv, TypeOK
<1>10. \A q \in Replica \ {p} : Holds(q) => key[q] # key[p]
  BY <1>2 DEF CacheInv, Exclusive, Holds
<1>11. \A j \in Key : Busy(p, j)' => j = k
  BY <1>1, <1>3, <1>5 DEF Busy
<1>12. k \notin contended' => \A q \in Replica \ {p} : ~Busy(q, k)
  <2> SUFFICES ASSUME k \notin contended', NEW q \in Replica \ {p} PROVE ~Busy(q, k)
    OBVIOUS
  <2>1. k \notin Destroys(q)
    BY <1>5
  <2>2. k \notin victim[q] /\ ~(k = key[q] /\ pc[q] \in Deleting)
    BY <1>2, <2>1, Contending
  <2>3. ~(k = key[q] /\ pc[q] \in {"write"} \cup Inserting)
    BY <1>1, <1>10 DEF Holds
  <2>4. QED
    BY <2>2, <2>3 DEF Busy
<1>13. OwnDrafts(p)'
  BY <1>3, <1>5 DEF OwnDrafts
<1>14. Told(p, k)' /\ Tallied(p, k)'
  BY <1>3, <1>5, <1>9 DEF Told, Tallied, Inserting, Deleting
<1>15. \A j \in Key \ contended' : Busy(p, j)' =>
          Told(p, j)' /\ Tallied(p, j)' /\ \A q \in Replica \ {p} : ~Busy(q, j)
  BY <1>11, <1>12, <1>14
<1>16. QED
  BY <1>7, <1>8, <1>10, <1>13, <1>15, StatementStep

\* A later statement: p was already busy with what it is busy with.
LEMMA LaterStep ==
    ASSUME CacheInv, NEW p \in Replica, NEW label \in Label, Statement(p, label),
           contended' = contended, Holds(p)' => Holds(p),
           \A k \in Key : Busy(p, k)' => Busy(p, k),
           OwnDrafts(p)',
           \A k \in Key \ contended : Busy(p, k) => Told(p, k)' /\ Tallied(p, k)'
    PROVE  CacheInv'
<1>1. \A q \in Replica \ {p} : Holds(p)' /\ Holds(q) => key[p] # key[q]
  BY DEF CacheInv, Exclusive
<1>2. \A k \in Key \ contended' : \A q \in Replica \ {p} : Busy(p, k)' => ~Busy(q, k)
  BY DEF CacheInv, Alone
<1>3. \A k \in Key \ contended' : Busy(p, k)' => Told(p, k)' /\ Tallied(p, k)'
  OBVIOUS
<1>4. QED
  BY <1>1, <1>2, <1>3, StatementStep

\* The write of p, an UPDATE or an INSERT, which stores v if it writes.
LEMMA WriteStep ==
    ASSUME CacheInv, NEW p \in Replica, NEW k \in Key, k = key[p], pc[p] = "write",
           NEW v \in Seq(Nat),
           draft' = draft \/ WriteRow(p, k, v),
           k \notin contended => EndsWith(Append(log[k], started[p]), v) /\ WriteRow(p, k, v),
           Goto(p, "upsert"),
           UNCHANGED <<tables, now, locals, draft_meta, ghosts>>
    PROVE  CacheInv'
<1> DEFINE r == [value |-> v, updated_at |-> started[p]]
<1>1. /\ pc' = [pc EXCEPT ![p] = "upsert"] /\ cache' = cache /\ conversations' = conversations
      /\ log' = log /\ now' = now /\ key' = key /\ started' = started /\ old_value' = old_value
      /\ victim' = victim /\ draft_meta' = draft_meta /\ contended' = contended
  BY DEF Goto, tables, locals, ghosts
<1>2. TypeOK
  BY DEF CacheInv
<1>3. r \in Row /\ r # Clean /\ r.value = v
  BY <1>2, CleanAssumption DEF TypeOK, Row
<1> HIDE DEF r
<1>4. draft' = draft \/ draft' = [draft EXCEPT ![p][k] = r]
  BY DEF WriteRow, r
<1>5. k \notin contended => draft'[p][k] = r
  BY <1>2 DEF WriteRow, r, TypeOK
<1>6. Statement(p, "upsert")
  BY <1>1, <1>2, <1>3, <1>4 DEF Statement, TypeOK
<1>7. "upsert" \in Label
  BY DEF Label, Inserting
<1>8. pc'[p] = "upsert"
  BY <1>6, <1>7, StatementTypes
<1>9. victim[p] = {} /\ \A j \in Key : draft[p][j] = Clean /\ draft_meta[p][j] = Clean
  BY NoDrafts DEF Inserting, Deleting
<1>10. \A j \in Key : Busy(p, j) => j = k
  BY <1>9 DEF Busy
<1>11. \A j \in Key : Busy(p, j)' => Busy(p, j)
  BY <1>1, <1>9 DEF Busy
<1>12. Holds(p)
  BY DEF Holds
<1>13. \A j \in Key : draft'[p][j] # Clean => j = k
  BY <1>2, <1>4, <1>9 DEF TypeOK
<1>14. OwnDrafts(p)'
  BY <1>1, <1>8, <1>9, <1>13 DEF OwnDrafts, Inserting
<1>15. k \notin contended => Told(p, k)' /\ Tallied(p, k)'
  <2> SUFFICES ASSUME k \notin contended PROVE Told(p, k)' /\ Tallied(p, k)'
    OBVIOUS
  <2>1. Seen(p, k)'.value = v
    BY <1>3, <1>5 DEF Seen
  <2>2. EndsWith(Append(log[k], started[p]), Seen(p, k)'.value)
    BY <2>1
  <2>3. QED
    BY <1>1, <1>8, <1>9, <2>2 DEF Told, Tallied, Deleting
<1>16. \A j \in Key \ contended : Busy(p, j) => Told(p, j)' /\ Tallied(p, j)'
  BY <1>10, <1>15
<1>17. QED
  BY <1>1, <1>6, <1>7, <1>11, <1>12, <1>14, <1>16, LaterStep

LEMMA UpdateStep ==
    ASSUME CacheInv, NEW p \in Replica, _update(p)
    PROVE  CacheInv'
<1>1. PICK k \in Key : k = key[p]
  BY DEF CacheInv, TypeOK
<1>2. pc[p] = "write" /\ old_value[p] # <<>>
  BY DEF _update, At
<1>3. old_value[p] \in Seq(Nat) /\ started[p] \in Nat /\ log[k] \in Seq(Nat)
      /\ cache[k].value \in Seq(Nat)
  BY DEF CacheInv, TypeOK, Row
<1>4. Append(old_value[p], started[p]) \in Seq(Nat)
  BY <1>3
<1>5. ASSUME k \notin contended
      PROVE  /\ EndsWith(Append(log[k], started[p]), Append(old_value[p], started[p]))
             /\ WriteRow(p, k, Append(old_value[p], started[p]))
  <2>1. old_value[p] = cache[k].value /\ EndsWith(log[k], cache[k].value)
    BY <1>1, <1>2, <1>5 DEF CacheInv, Told, Right
  <2>2. Seen(p, k) = cache[k]
    BY <1>2, NoDrafts DEF Seen, Inserting, Deleting
  <2>3. k \in Present(p)
    BY <1>2, <2>1, <2>2 DEF Present
  <2>4. QED
    BY <1>1, <1>3, <2>1, <2>3, EndsWithAppend DEF _update
<1>6. draft' = draft \/ WriteRow(p, k, Append(old_value[p], started[p]))
  BY <1>1 DEF _update
<1>7. Goto(p, "upsert") /\ UNCHANGED <<tables, now, locals, draft_meta, ghosts>>
  BY DEF _update
<1>8. QED
  BY <1>1, <1>2, <1>4, <1>5, <1>6, <1>7, WriteStep

LEMMA InsertStep ==
    ASSUME CacheInv, NEW p \in Replica, _insert(p)
    PROVE  CacheInv'
<1>1. PICK k \in Key : k = key[p]
  BY DEF CacheInv, TypeOK
<1>2. pc[p] = "write" /\ WriteRow(p, k, <<started[p]>>)
  BY <1>1 DEF _insert, At
<1>3. started[p] \in Nat /\ log[k] \in Seq(Nat)
  BY DEF CacheInv, TypeOK
<1>4. <<started[p]>> \in Seq(Nat) /\ EndsWith(Append(log[k], started[p]), <<started[p]>>)
  BY <1>3, EndsWithLast
<1>5. Goto(p, "upsert") /\ UNCHANGED <<tables, now, locals, draft_meta, ghosts>>
  BY DEF _insert
<1>6. QED
  BY <1>1, <1>2, <1>4, <1>5, WriteStep

LEMMA UpsertStep ==
    ASSUME CacheInv, NEW p \in Replica, upsert_conversation(p)
    PROVE  CacheInv'
<1>1. PICK k \in Key : k = key[p]
  BY DEF CacheInv, TypeOK
<1>2. PICK n : n = IF SeenMeta(p, k) = NoRow THEN 1 ELSE SeenMeta(p, k) + 1
  OBVIOUS
<1>3. pc[p] = "upsert" /\ TypeOK
  BY DEF upsert_conversation, At, CacheInv
<1>4. n \in Nat /\ n # Clean
  <2>1. SeenMeta(p, k) \in Nat \cup {NoRow}
    BY <1>3, SeenTypes
  <2>2. n \in Nat
    BY <1>2, <2>1 DEF NoRow
  <2>3. QED
    BY <2>2, CleanAssumption
<1>5. /\ pc' = [pc EXCEPT ![p] = "count"] /\ cache' = cache /\ conversations' = conversations
      /\ log' = log /\ now' = now /\ key' = key /\ started' = started /\ old_value' = old_value
      /\ victim' = victim /\ draft' = draft /\ contended' = contended
      /\ draft_meta' = [draft_meta EXCEPT ![p][k] = n]
  BY <1>1, <1>2 DEF upsert_conversation, Goto, tables, locals, ghosts
<1>6. Statement(p, "count")
  BY <1>3, <1>4, <1>5 DEF Statement, TypeOK
<1>7. "count" \in Label
  BY DEF Label, Inserting
<1>8. pc'[p] = "count" /\ draft_meta'[p][k] = n
  BY <1>3, <1>5 DEF TypeOK
<1>9. victim[p] = {} /\ \A j \in Key : draft_meta[p][j] = Clean
  BY <1>3, NoDrafts
<1>10. \A j \in Key : Busy(p, j) => j = k
  BY <1>1, <1>9 DEF Busy
<1>11. \A j \in Key : Busy(p, j)' => Busy(p, j)
  BY <1>3, <1>5, <1>9 DEF Busy, Inserting
<1>12. Holds(p)
  BY <1>3 DEF Holds, Inserting
<1>13. \A j \in Key : draft_meta'[p][j] # Clean => j = k
  BY <1>3, <1>5, <1>9 DEF TypeOK
<1>14. OwnDrafts(p)'
  <2>1. \A j \in Key : draft'[p][j] # Clean => j = key'[p]
    BY <1>3, <1>5, <1>9 DEF CacheInv, OwnDrafts
  <2>2. QED
    BY <1>1, <1>5, <1>8, <1>9, <1>13, <2>1 DEF OwnDrafts, Inserting
<1>15. k \notin contended => Told(p, k)' /\ Tallied(p, k)'
  <2> SUFFICES ASSUME k \notin contended PROVE Told(p, k)' /\ Tallied(p, k)'
    OBVIOUS
  <2>1. Told(p, k) /\ Right(k) /\ Len(log[k]) \in Nat
    BY LenProperties DEF CacheInv, TypeOK
  <2>2. Seen(p, k)' = Seen(p, k)
    BY <1>5 DEF Seen
  <2>3. Told(p, k)'
    BY <1>1, <1>3, <1>5, <1>8, <1>9, <2>1, <2>2 DEF Told, Inserting, Deleting
  <2>4. SeenMeta(p, k)' = n
    BY <1>4, <1>8 DEF SeenMeta
  <2>5. SeenMeta(p, k) = conversations[k]
    BY <1>9 DEF SeenMeta
  <2>6. log[k] = <<>> => Len(log[k]) = 0
    OBVIOUS
  <2>7. n = Len(log[k]) + 1
    BY <1>2, <2>1, <2>5, <2>6 DEF Right, NoRow
  <2>8. Tallied(p, k)'
    BY <1>4, <1>5, <1>8, <2>4, <2>7 DEF Tallied
  <2>9. QED
    BY <2>3, <2>8
<1>16. \A j \in Key \ contended : Busy(p, j) => Told(p, j)' /\ Tallied(p, j)'
  BY <1>10, <1>15
<1>17. QED
  BY <1>5, <1>6, <1>7, <1>11, <1>12, <1>14, <1>16, LaterStep

LEMMA CountStep ==
    ASSUME CacheInv, NEW p \in Replica, cleanup_count(p)
    PROVE  CacheInv'
<1>1. PICK label \in {"oldest", "commit"} : Goto(p, label)
  BY DEF cleanup_count
<1>2. pc[p] = "count" /\ TypeOK
  BY DEF cleanup_count, At, CacheInv
<1>3. /\ pc' = [pc EXCEPT ![p] = label] /\ cache' = cache /\ conversations' = conversations
      /\ log' = log /\ now' = now /\ key' = key /\ started' = started /\ old_value' = old_value
      /\ victim' = victim /\ draft' = draft /\ contended' = contended /\ draft_meta' = draft_meta
  BY <1>1 DEF cleanup_count, Goto, tables, locals, drafts, ghosts
<1>4. Statement(p, label)
  BY <1>2, <1>3 DEF Statement, TypeOK
<1>5. label \in Label /\ label \in Inserting
  BY DEF Label, Inserting
<1>6. pc'[p] = label
  BY <1>2, <1>3 DEF TypeOK
<1>7. victim[p] = {}
  <2>1. key[p] \in Key
    BY <1>2 DEF TypeOK
  <2>2. QED
    BY <1>2, <2>1, NoDrafts
<1>8. pc[p] \in Inserting
  BY <1>2 DEF Inserting
<1>9. \A j \in Key : Busy(p, j)' => Busy(p, j)
  BY <1>3, <1>7, <1>8 DEF Busy
<1>10. Holds(p)
  BY <1>8 DEF Holds
<1>11. OwnDrafts(p)'
  BY <1>2, <1>3, <1>5, <1>6, <1>7 DEF CacheInv, OwnDrafts
<1>12. ASSUME NEW k \in Key \ contended PROVE Told(p, k)' /\ Tallied(p, k)'
  <2>1. Told(p, k) /\ Tallied(p, k) /\ Seen(p, k)' = Seen(p, k) /\ SeenMeta(p, k)' = SeenMeta(p, k)
    BY <1>3 DEF CacheInv, Seen, SeenMeta
  <2>2. label \notin Deleting /\ label # "write" /\ label # "evict" /\ label # "delete_commit"
    BY DEF Deleting
  <2>3. Told(p, k)'
    BY <1>3, <1>6, <1>7, <1>8, <2>1, <2>2 DEF Told
  <2>4. Tallied(p, k)'
    BY <1>2, <1>3, <1>6, <2>1, <2>2 DEF Tallied
  <2>5. QED
    BY <2>3, <2>4
<1>13. QED
  BY <1>3, <1>4, <1>5, <1>9, <1>10, <1>11, <1>12, LaterStep

\* The SELECT of _cleanup, with the victims V that it returned.
LEMMA OldestStep ==
    ASSUME CacheInv, NEW p \in Replica, cleanup_oldest(p)
    PROVE  CacheInv'
<1>1. pc[p] = "oldest" /\ TypeOK /\ key[p] \in Key
  BY DEF cleanup_oldest, At, CacheInv, TypeOK
<1>2. /\ pc' = [pc EXCEPT ![p] = "evict"] /\ cache' = cache /\ conversations' = conversations
      /\ log' = log /\ now' = now /\ key' = key /\ started' = started
      /\ draft' = draft /\ draft_meta' = draft_meta
  BY DEF cleanup_oldest, Goto, tables, drafts
<1>3. "evict" \in Label /\ "evict" \in Inserting /\ "oldest" \in Inserting /\ "evict" \notin Deleting
  BY DEF Label, Inserting, Deleting
<1>4. victim[p] = {} /\ Holds(p)
  BY <1>1, <1>3, NoDrafts DEF Holds
<1>5. pc'[p] = "evict"
  BY <1>1, <1>2 DEF TypeOK
<1>6. CASE Oldest(p) = {} /\ UNCHANGED <<old_value, victim, contended>>
  <2>1. Statement(p, "evict")
    BY <1>1, <1>2, <1>6 DEF Statement, TypeOK
  <2>2. \A j \in Key : Busy(p, j)' => Busy(p, j)
    BY <1>1, <1>2, <1>3, <1>4, <1>6 DEF Busy
  <2>3. OwnDrafts(p)'
    BY <1>1, <1>2, <1>3, <1>4, <1>5, <1>6 DEF CacheInv, OwnDrafts
  <2>4. ASSUME NEW k \in Key \ contended PROVE Told(p, k)' /\ Tallied(p, k)'
    <3>1. Told(p, k) /\ Tallied(p, k) /\ Seen(p, k)' = Seen(p, k) /\ SeenMeta(p, k)' = SeenMeta(p, k)
      BY <1>2 DEF CacheInv, Seen, SeenMeta
    <3>2. Told(p, k)'
      BY <1>1, <1>2, <1>3, <1>4, <1>5, <1>6, <3>1 DEF Told
    <3>3. Tallied(p, k)'
      BY <1>1, <1>2, <1>5, <3>1 DEF Tallied
    <3>4. QED
      BY <3>2, <3>3
  <2>5. QED
    BY <1>3, <1>4, <1>6, <2>1, <2>2, <2>3, <2>4, LaterStep
<1>7. ASSUME NEW v \in Oldest(p), victim' = [victim EXCEPT ![p] = {v}],
             old_value' = [old_value EXCEPT ![p] = Seen(p, v).value], Contend(p, {v}, Works)
      PROVE  CacheInv'
  <2>1. v \in Key /\ Seen(p, v) \in Row /\ Seen(p, v).value \in Seq(Nat)
    <3>1. v \in Key
      BY DEF Oldest, Present
    <3>2. QED
      BY <1>1, <3>1, SeenTypes DEF Row
  <2>2. contended' = contended \cup {k \in {v} : \E q \in Replica \ {p} : k \in Works(q)}
    BY <1>7 DEF Contend
  <2>3. contended \subseteq contended' /\ contended' \subseteq Key
    BY <1>1, <2>1, <2>2 DEF TypeOK
  <2>4. Statement(p, "evict")
    BY <1>2, <1>7, <2>1, <2>3 DEF Statement
  <2>5. victim'[p] = {v} /\ old_value'[p] = Seen(p, v).value
    BY <1>1, <1>7 DEF TypeOK
  <2>6. \A k \in Key : Busy(p, k)' => k = v \/ Busy(p, k)
    BY <1>1, <1>2, <1>3, <2>5 DEF Busy
  <2>7. v \notin contended' => \A q \in Replica \ {p} : ~Busy(q, v)
    BY <2>1, <2>2, Contending
  <2>8. \A k \in Key \ contended' : \A q \in Replica \ {p} : Busy(p, k)' => ~Busy(q, k)
    BY <2>3, <2>6, <2>7 DEF CacheInv, Alone
  <2>9. \A q \in Replica \ {p} : Holds(p)' /\ Holds(q) => key[p] # key[q]
    BY <1>4 DEF CacheInv, Exclusive
  <2>10. OwnDrafts(p)'
    <3>1. Seen(p, v).value # <<>>
      BY DEF Oldest, Present
    <3>2. QED
      BY <1>1, <1>2, <1>3, <1>4, <1>5, <2>5, <3>1 DEF CacheInv, OwnDrafts
  <2>11. ASSUME NEW k \in Key \ contended' PROVE Told(p, k)' /\ Tallied(p, k)'
    <3>1. Told(p, k) /\ Tallied(p, k) /\ Right(k)
      BY <2>3 DEF CacheInv
    <3>2. Seen(p, k)' = Seen(p, k) /\ SeenMeta(p, k)' = SeenMeta(p, k)
      BY <1>2 DEF Seen, SeenMeta
    <3>3. k # key[p] => Seen(p, k) = cache[k]
      BY <1>4 DEF CacheInv, OwnDrafts, Seen
    <3>4. k # key[p] => EndsWith(log[k], Seen(p, k).value)
      BY <3>1, <3>3 DEF Right
    <3>5. Told(p, k)'
      BY <1>1, <1>2, <1>3, <1>5, <2>5, <3>1, <3>2, <3>4 DEF Told
    <3>6. Tallied(p, k)'
      BY <1>1, <1>2, <1>5, <3>1, <3>2 DEF Tallied
    <3>7. QED
      BY <3>5, <3>6
  <2>12. QED
    BY <1>3, <2>4, <2>8, <2>9, <2>10, <2>11, StatementStep
<1>8. QED
  BY <1>6, <1>7 DEF cleanup_oldest

LEMMA EvictStep ==
    ASSUME CacheInv, NEW p \in Replica, cleanup_evict(p)
    PROVE  CacheInv'
<1>1. pc[p] = "evict" /\ TypeOK /\ key[p] \in Key
  BY DEF cleanup_evict, At, CacheInv, TypeOK
<1>2. /\ pc' = [pc EXCEPT ![p] = "commit"] /\ cache' = cache /\ conversations' = conversations
      /\ log' = log /\ now' = now /\ key' = key /\ started' = started
      /\ old_value' = old_value /\ victim' = victim
      /\ draft_meta' = draft_meta /\ contended' = contended
  BY DEF cleanup_evict, Goto, tables, locals, ghosts
<1>3. "commit" \in Label /\ "evict" \in Inserting /\ "commit" \in Inserting /\ "commit" \notin Deleting
  BY DEF Label, Inserting, Deleting
<1>4. Holds(p)
  BY <1>1, <1>3 DEF Holds
<1>5. pc'[p] = "commit"
  BY <1>1, <1>2 DEF TypeOK
<1>6. \A j \in Key : Busy(p, j)' => Busy(p, j)
  BY <1>1, <1>2, <1>3 DEF Busy
<1>7. CASE draft' = draft /\ victim[p] \cap Present(p) = {}
  <2>1. Statement(p, "commit")
    BY <1>1, <1>2, <1>7 DEF Statement, TypeOK
  <2>2. OwnDrafts(p)'
    BY <1>1, <1>2, <1>3, <1>5, <1>7 DEF CacheInv, OwnDrafts
  <2>3. ASSUME NEW k \in Key \ contended PROVE Told(p, k)' /\ Tallied(p, k)'
    <3>1. Told(p, k) /\ Tallied(p, k) /\ Seen(p, k)' = Seen(p, k) /\ SeenMeta(p, k)' = SeenMeta(p, k)
      BY <1>2, <1>7 DEF CacheInv, Seen, SeenMeta
    <3>2. Told(p, k)'
      BY <1>1, <1>2, <1>3, <1>5, <3>1 DEF Told
    <3>3. Tallied(p, k)'
      BY <1>1, <1>2, <1>5, <3>1 DEF Tallied
    <3>4. QED
      BY <3>2, <3>3
  <2>4. QED
    BY <1>2, <1>3, <1>4, <1>6, <2>1, <2>2, <2>3, LaterStep
<1>8. ASSUME NEW v \in victim[p] \cap Present(p), WriteRow(p, v, Tail(old_value[p]))
      PROVE  CacheInv'
  <2>1. PICK r : r = [value |-> Tail(old_value[p]), updated_at |-> started[p]]
    OBVIOUS
  <2>2. v \in Key /\ v \in victim[p] /\ Seen(p, v).value # <<>>
    BY DEF Present
  <2>3. draft' = [draft EXCEPT ![p][v] = r]
    BY <1>8, <2>1 DEF WriteRow
  <2>4. r \in Row /\ r # Clean /\ r.value = Tail(old_value[p])
    <3>1. Tail(old_value[p]) \in Seq(Nat)
      <4>1. old_value[p] \in Seq(Nat) /\ old_value[p] # <<>>
        BY <1>1, <2>2 DEF TypeOK, CacheInv, OwnDrafts
      <4>2. QED
        BY <4>1
    <3>2. started[p] \in Nat
      BY <1>1 DEF TypeOK
    <3>3. QED
      BY <2>1, <3>1, <3>2, WrittenRow
  <2>5. Statement(p, "commit")
    BY <1>1, <1>2, <2>2, <2>3, <2>4 DEF Statement, TypeOK
  <2>6. draft'[p][v] = r /\ \A k \in Key \ {v} : draft'[p][k] = draft[p][k]
    BY <1>1, <2>2, <2>3 DEF TypeOK
  <2>7. OwnDrafts(p)'
    BY <1>1, <1>2, <1>3, <1>5, <2>2, <2>6 DEF CacheInv, OwnDrafts
  <2>8. ASSUME NEW k \in Key \ contended PROVE Told(p, k)' /\ Tallied(p, k)'
    <3>1. Told(p, k) /\ Tallied(p, k) /\ SeenMeta(p, k)' = SeenMeta(p, k)
      BY <1>2 DEF CacheInv, SeenMeta
    <3>2. Tallied(p, k)'
      BY <1>1, <1>2, <1>5, <3>1 DEF Tallied
    <3>3. CASE k # v
      <4>1. Seen(p, k)' = Seen(p, k)
        BY <1>2, <2>6, <3>3 DEF Seen
      <4>2. QED
        BY <1>1, <1>2, <1>3, <1>5, <3>1, <3>2, <4>1 DEF Told
    <3>4. CASE k = v
      <4>1. Seen(p, k)'.value = Tail(old_value[p]) /\ Seen(p, k).value = old_value[p]
        BY <1>1, <2>2, <2>4, <2>6, <3>1, <3>4 DEF Seen, Told
      <4>2. /\ old_value[p] \in Seq(Nat) /\ old_value[p] # <<>> /\ log[k] \in Seq(Nat)
            /\ started[p] \in Nat /\ Append(log[k], started[p]) \in Seq(Nat)
        BY <1>1, <2>2, <3>4, <4>1 DEF TypeOK
      <4>3. k = key[p] => EndsWith(Append(log[k], started[p]), Tail(old_value[p]))
        BY <1>1, <1>3, <3>1, <4>1, <4>2, EndsWithTail DEF Told
      <4>4. k # key[p] => EndsWith(log[k], Tail(old_value[p]))
        BY <2>2, <3>1, <3>4, <4>1, <4>2, EndsWithTail DEF Told
      <4>5. QED
        BY <1>2, <1>3, <1>5, <3>2, <4>1, <4>3, <4>4 DEF Told
    <3>5. QED
      BY <3>3, <3>4
  <2>9. QED
    BY <1>2, <1>3, <1>4, <1>6, <2>5, <2>7, <2>8, LaterStep
<1>9. QED
  BY <1>7, <1>8 DEF cleanup_evict

\* A COMMIT leaves the conversations alone that others are busy with.
LEMMA Publishing ==
    ASSUME CacheInv, NEW p \in Replica, Published(p), Over(p), contended' = contended,
           pc[p] \in {"commit", "delete_commit"},
           NEW s \in Seq(Nat), log' = [log EXCEPT ![key[p]] = s],
           key[p] \in contended \/ Right(key[p])'
    PROVE  CacheInv'
<1>1. PICK k \in Key : k = key[p]
  BY DEF CacheInv, TypeOK
<1>2. TypeOK
  BY DEF CacheInv
<1>3. /\ \A j \in Key : cache'[j] = Seen(p, j) /\ conversations'[j] = SeenMeta(p, j)
      /\ cache' \in [Key -> Row] /\ conversations' \in [Key -> Nat \cup {NoRow}]
  BY <1>2, SeenTypes DEF Published
<1>4. log' \in [Key -> Seq(Nat)] /\ \A j \in Key \ {k} : log'[j] = log[j]
  BY <1>1, <1>2 DEF TypeOK
<1>5. TypeOK' /\ Elsewhere(p) /\ pc'[p] = "idle" /\ victim'[p] = {}
      /\ \A j \in Key : draft'[p][j] = Clean /\ draft_meta'[p][j] = Clean
  BY <1>2, <1>3, <1>4, Ended
<1>6. Busy(p, k)
  BY <1>1 DEF Busy, Inserting, Deleting
<1>7. \A j \in Key : draft_meta[p][j] # Clean => j = k
  BY <1>1 DEF CacheInv, OwnDrafts
<1>8. \A j \in Key : draft[p][j] # Clean => j \in victim[p] \/ j = k
  BY <1>1 DEF CacheInv, OwnDrafts
<1>9. ASSUME NEW j \in Key \ contended, NEW q \in Replica \ {p}, Busy(q, j)
      PROVE  cache'[j] = cache[j] /\ conversations'[j] = conversations[j] /\ log'[j] = log[j]
  <2>1. ~Busy(p, j)
    BY <1>9 DEF CacheInv, Alone
  <2>2. j # k /\ j \notin victim[p]
    BY <1>6, <2>1 DEF Busy
  <2>3. QED
    BY <1>3, <1>4, <1>7, <1>8, <2>2 DEF Seen, SeenMeta
<1>10. ASSUME NEW j \in Key \ contended, j # k PROVE Right(j)'
  <2>1. Right(j) /\ Told(p, j)
    BY DEF CacheInv
  <2>2. conversations'[j] = conversations[j] /\ log'[j] = log[j]
    BY <1>3, <1>4, <1>7, <1>10 DEF SeenMeta
  <2>3. EndsWith(log[j], Seen(p, j).value)
    <3>1. CASE j \in victim[p]
      BY <1>1, <1>10, <2>1, <3>1 DEF Told
    <3>2. CASE j \notin victim[p]
      BY <1>8, <1>10, <2>1, <3>2 DEF Right, Seen
    <3>3. QED
      BY <3>1, <3>2
  <2>4. QED
    BY <1>3, <2>1, <2>2, <2>3 DEF Right
<1>11. k \in contended \/ Right(k)'
  <2>1. key' = key
    BY DEF Over
  <2>2. QED
    BY <1>1, <2>1
<1>12. \A j \in Key \ contended : Right(j)'
  BY <1>10, <1>11
<1>13. QED
  BY <1>5, <1>9, <1>12, AtRest

LEMMA CommitStep ==
    ASSUME CacheInv, NEW p \in Replica, commit(p)
    PROVE  CacheInv'
<1>1. PICK k \in Key : k = key[p]
  BY DEF CacheInv, TypeOK
<1>2. TypeOK /\ pc[p] = "commit" /\ key' = key
  BY DEF CacheInv, commit, At, Over
<1>3. PICK s \in Seq(Nat) : s = Append(log[k], started[p])
  <2>1. log[k] \in Seq(Nat) /\ started[p] \in Nat
    BY <1>2 DEF TypeOK
  <2>2. Append(log[k], started[p]) \in Seq(Nat)
    BY <2>1
  <2>3. QED
    BY <2>2
<1>4. log' = [log EXCEPT ![key[p]] = s]
  BY <1>1, <1>3 DEF commit
<1>5. ASSUME k \notin contended PROVE Right(k)'
  <2>1. Told(p, k) /\ Tallied(p, k)
    BY <1>5 DEF CacheInv
  <2>2. EndsWith(s, Seen(p, k).value) /\ SeenMeta(p, k) = Len(log[k]) + 1
    BY <1>1, <1>2, <1>3, <2>1 DEF Told, Tallied, Inserting
  <2>3. cache'[k] = Seen(p, k) /\ conversations'[k] = SeenMeta(p, k)
    BY DEF commit, Published
  <2>4. log'[k] = s /\ Len(s) = Len(log[k]) + 1
    BY <1>1, <1>2, <1>3, <1>4 DEF TypeOK
  <2>5. QED
    BY <2>2, <2>3, <2>4 DEF Right
<1>6. key[p] \in contended \/ Right(key[p])'
  BY <1>1, <1>2, <1>5
<1>7. Published(p) /\ Over(p) /\ contended' = contended
  BY DEF commit
<1>8. QED
  BY <1>2, <1>4, <1>6, <1>7, Publishing

-----------------------------------------------------------------------------
(* The other operations *)

LEMMA DeleteRowStep ==
    ASSUME CacheInv, NEW p \in Replica, delete_row(p)
    PROVE  CacheInv'
<1>1. PICK k \in Key : k = key[p]
  BY DEF CacheInv, TypeOK
<1>2. pc[p] = "delete_row" /\ TypeOK
  BY DEF delete_row, At, CacheInv
<1>3. /\ pc' = [pc EXCEPT ![p] = "delete_meta"] /\ cache' = cache /\ conversations' = conversations
      /\ log' = log /\ now' = now /\ key' = key /\ started' = started
      /\ old_value' = old_value /\ victim' = victim /\ draft_meta' = draft_meta
      /\ contended' = contended \cup {j \in {k} : \E q \in Replica \ {p} : j \in Works(q)}
  BY <1>1 DEF delete_row, Goto, Contend, tables, locals
<1>4. "delete_meta" \in Label /\ "delete_meta" \in Deleting /\ "delete_meta" \notin Inserting
  BY DEF Label, Inserting, Deleting
<1>5. pc'[p] = "delete_meta"
  BY <1>2, <1>3 DEF TypeOK
<1>6. contended \subseteq contended' /\ contended' \subseteq Key
  BY <1>2, <1>3 DEF TypeOK
<1>7. victim[p] = {} /\ \A j \in Key : draft[p][j] = Clean /\ draft_meta[p][j] = Clean
  BY <1>2, NoDrafts DEF Inserting, Deleting
<1>8. PICK r : r = [value |-> <<>>, updated_at |-> started[p]] /\ r \in Row /\ r # Clean /\ r.value = <<>>
  <2>1. started[p] \in Nat /\ <<>> \in Seq(Nat)
    BY <1>2, EmptySeq DEF TypeOK
  <2>2. QED
    BY <2>1, WrittenRow
<1>9. /\ k \in Present(p) => draft' = [draft EXCEPT ![p][k] = r]
      /\ k \notin Present(p) => draft' = draft
  BY <1>1, <1>8 DEF delete_row, WriteRow
<1>10. Statement(p, "delete_meta")
  BY <1>3, <1>6, <1>8, <1>9 DEF Statement
<1>11. \A j \in Key : draft'[p][j] # Clean => j = k
  BY <1>2, <1>7, <1>9 DEF TypeOK
<1>12. Seen(p, k)'.value = <<>>
  <2>1. CASE k \in Present(p)
    <3>1. draft'[p][k] = r /\ r # Clean /\ r.value = <<>>
      BY <1>2, <1>8, <1>9, <2>1 DEF TypeOK
    <3>2. QED
      BY <3>1 DEF Seen
  <2>2. CASE k \notin Present(p)
    BY <1>3, <1>9, <2>2 DEF Present, Seen
  <2>3. QED
    BY <2>1, <2>2
<1>13. OwnDrafts(p)'
  BY <1>1, <1>3, <1>4, <1>5, <1>7, <1>11 DEF OwnDrafts
<1>14. ~Holds(p)'
  BY <1>5 DEF Holds, Inserting
<1>15. \A j \in Key : Busy(p, j)' => j = k
  BY <1>1, <1>3, <1>7 DEF Busy
<1>16. Told(p, k)' /\ Tallied(p, k)'
  BY <1>3, <1>4, <1>5, <1>7, <1>12 DEF Told, Tallied
<1>17. k \notin contended' => \A q \in Replica \ {p} : ~Busy(q, k)
  BY <1>3, Contending
<1>18. \A j \in Key \ contended' : Busy(p, j)' =>
          Told(p, j)' /\ Tallied(p, j)' /\ \A q \in Replica \ {p} : ~Busy(q, j)
  BY <1>15, <1>16, <1>17
<1>19. QED
  BY <1>4, <1>10, <1>13, <1>14, <1>18, StatementStep

LEMMA DeleteMetadataStep ==
    ASSUME CacheInv, NEW p \in Replica, delete_metadata(p)
    PROVE  CacheInv'
<1>1. PICK k \in Key : k = key[p]
  BY DEF CacheInv, TypeOK
<1>2. pc[p] = "delete_meta" /\ TypeOK
  BY DEF delete_metadata, At, CacheInv
<1>3. /\ pc' = [pc EXCEPT ![p] = "delete_commit"] /\ cache' = cache /\ conversations' = conversations
      /\ log' = log /\ now' = now /\ key' = key /\ started' = started
      /\ old_value' = old_value /\ victim' = victim /\ draft' = draft /\ contended' = contended
      /\ SeenMeta(p, k) # NoRow => draft_meta' = [draft_meta EXCEPT ![p][k] = NoRow]
      /\ SeenMeta(p, k) = NoRow => draft_meta' = draft_meta
  BY <1>1 DEF delete_metadata, Goto, tables, locals, ghosts
<1>4. "delete_commit" \in Label /\ "delete_meta" \in Deleting /\ "delete_commit" \in Deleting
      /\ "delete_commit" \notin Inserting
  BY DEF Label, Inserting, Deleting
<1>5. pc'[p] = "delete_commit"
  BY <1>2, <1>3 DEF TypeOK
<1>6. victim[p] = {} /\ \A j \in Key : draft_meta[p][j] = Clean
  BY <1>2, NoDrafts
<1>7. Statement(p, "delete_commit")
  BY <1>2, <1>3 DEF Statement, TypeOK
<1>8. \A j \in Key : draft_meta'[p][j] # Clean => j = k
  BY <1>2, <1>3, <1>6 DEF TypeOK
<1>9. SeenMeta(p, k)' = NoRow
  <2>1. CASE SeenMeta(p, k) # NoRow
    <3>1. draft_meta'[p][k] = NoRow /\ NoRow # Clean
      BY <1>2, <1>3, <2>1, CleanAssumption DEF TypeOK, NoRow
    <3>2. QED
      BY <3>1 DEF SeenMeta
  <2>2. CASE SeenMeta(p, k) = NoRow
    BY <1>3, <2>2 DEF SeenMeta
  <2>3. QED
    BY <2>1, <2>2
<1>10. OwnDrafts(p)'
  <2>1. \A j \in Key : draft'[p][j] # Clean => j = key'[p]
    BY <1>3, <1>6 DEF CacheInv, OwnDrafts
  <2>2. QED
    BY <1>1, <1>3, <1>4, <1>5, <1>6, <1>8, <2>1 DEF OwnDrafts
<1>11. ~Holds(p)'
  BY <1>5 DEF Holds, Inserting
<1>12. \A j \in Key : Busy(p, j)' => Busy(p, j) /\ j = k
  BY <1>1, <1>2, <1>3, <1>4, <1>6 DEF Busy
<1>13. ASSUME k \notin contended PROVE Told(p, k)' /\ Tallied(p, k)'
  <2>1. Seen(p, k).value = <<>>
    BY <1>1, <1>2, <1>4, <1>13 DEF CacheInv, Told
  <2>2. Seen(p, k)' = Seen(p, k)
    BY <1>3 DEF Seen
  <2>3. QED
    BY <1>3, <1>4, <1>5, <1>6, <1>9, <2>1, <2>2 DEF Told, Tallied
<1>14. \A j \in Key \ contended : Busy(p, j) => j = k
  BY <1>1, <1>6 DEF Busy
<1>15. \A j \in Key \ contended : Busy(p, j) => Told(p, j)' /\ Tallied(p, j)'
  BY <1>13, <1>14
<1>16. QED
  BY <1>3, <1>4, <1>7, <1>10, <1>11, <1>12, <1>15, LaterStep

LEMMA DeleteCommitStep ==
    ASSUME CacheInv, NEW p \in Replica, delete_commit(p)
    PROVE  CacheInv'
<1>1. PICK k \in Key : k = key[p]
  BY DEF CacheInv, TypeOK
<1>2. TypeOK /\ pc[p] = "delete_commit" /\ key' = key
  BY DEF CacheInv, delete_commit, At, Over
<1>3. PICK s \in Seq(Nat) : s = <<>>
  BY EmptySeq
<1>4. log' = [log EXCEPT ![key[p]] = s]
  BY <1>3 DEF delete_commit
<1>5. ASSUME k \notin contended PROVE Right(k)'
  <2>1. Told(p, k) /\ Tallied(p, k)
    BY <1>5 DEF CacheInv
  <2>2. Seen(p, k).value = <<>> /\ SeenMeta(p, k) \in {NoRow, 0}
    BY <1>1, <1>2, <2>1 DEF Told, Tallied, Deleting
  <2>3. cache'[k] = Seen(p, k) /\ conversations'[k] = SeenMeta(p, k)
    BY DEF delete_commit, Published
  <2>4. log'[k] = <<>> /\ Len(<<>>) = 0
    BY <1>1, <1>2, <1>3, <1>4 DEF TypeOK
  <2>5. EndsWith(<<>>, <<>>)
    BY EndsWithNothing, EmptySeq
  <2>6. QED
    BY <2>2, <2>3, <2>4, <2>5 DEF Right
<1>6. key[p] \in contended \/ Right(key[p])'
  BY <1>1, <1>2, <1>5
<1>7. Published(p) /\ Over(p) /\ contended' = contended
  BY DEF delete_commit
<1>8. QED
  BY <1>2, <1>4, <1>6, <1>7, Publishing

\* set_topic_summary finds no uncommitted metadata row, and creates an empty one.
LEMMA TopicStep ==
    ASSUME CacheInv, NEW p \in Replica, NEW k \in Key, set_topic_summary(p, k)
    PROVE  CacheInv'
<1>1. /\ now' = now + 1 /\ cache' = cache /\ pc' = pc /\ key' = key /\ started' = started
      /\ old_value' = old_value /\ victim' = victim /\ draft' = draft /\ draft_meta' = draft_meta
      /\ log' = log /\ contended' = contended
  BY DEF set_topic_summary, locals, drafts, ghosts
<1>2. \A q \in Replica : draft_meta[q][k] = Clean
  BY DEF set_topic_summary, MetaHolders
<1>3. TypeOK
  BY DEF CacheInv
<1>4. /\ conversations' \in [Key -> Nat \cup {NoRow}]
      /\ \A j \in Key : \/ conversations'[j] = conversations[j]
                        \/ j = k /\ conversations[j] = NoRow /\ conversations'[j] = 0
  <2>1. PICK n : n = IF conversations[k] = NoRow THEN 0 ELSE conversations[k]
    OBVIOUS
  <2>2. conversations \in [Key -> Nat \cup {NoRow}]
    BY <1>3 DEF TypeOK
  <2>3. conversations' = [conversations EXCEPT ![k] = n]
    BY <2>1, <2>2 DEF set_topic_summary
  <2>4. n \in Nat \cup {NoRow}
    BY <2>1, <2>2
  <2>5. conversations'[k] = n /\ \A j \in Key \ {k} : conversations'[j] = conversations[j]
    BY <2>2, <2>3
  <2>6. conversations' \in [Key -> Nat \cup {NoRow}]
    BY <2>2, <2>3, <2>4
  <2>7. conversations'[k] = conversations[k] \/ (conversations[k] = NoRow /\ conversations'[k] = 0)
    BY <2>1, <2>5
  <2>8. \A j \in Key : \/ conversations'[j] = conversations[j]
                       \/ j = k /\ conversations[j] = NoRow /\ conversations'[j] = 0
    BY <2>5, <2>7, Zenon
  <2>9. QED
    BY <2>6, <2>8
<1>5. now' \in Nat
  BY <1>1, <1>3 DEF TypeOK
<1>6. TypeOK'
  BY <1>1, <1>3, <1>4, <1>5 DEF TypeOK
<1>7. Exclusive' /\ Alone' /\ \A q \in Replica : OwnDrafts(q)'
  BY <1>1 DEF CacheInv, Exclusive, Holds, Alone, Busy, OwnDrafts
<1>8. ASSUME NEW j \in Key \ contended PROVE Right(j)'
  <2>1. Right(j) /\ Len(<<>>) = 0 /\ Len(log[j]) # NoRow
    BY <1>3, LenProperties DEF CacheInv, TypeOK, NoRow
  <2>2. QED
    BY <1>1, <1>4, <2>1 DEF Right
<1>9. ASSUME NEW j \in Key \ contended, NEW q \in Replica PROVE Told(q, j)' /\ Tallied(q, j)'
  <2>1. Told(q, j) /\ Tallied(q, j) /\ Seen(q, j)' = Seen(q, j)
    BY <1>1 DEF CacheInv, Seen
  <2>2. SeenMeta(q, j)' = SeenMeta(q, j)
        \/ (draft_meta[q][j] = Clean /\ SeenMeta(q, j) = NoRow /\ SeenMeta(q, j)' = 0)
    BY <1>1, <1>2, <1>4 DEF SeenMeta
  <2>3. Told(q, j)'
    BY <1>1, <2>1 DEF Told
  <2>4. Tallied(q, j)'
    BY <1>1, <2>1, <2>2 DEF Tallied
  <2>5. QED
    BY <2>3, <2>4
<1>10. QED
  BY <1>1, <1>6, <1>7, <1>8, <1>9 DEF CacheInv

-----------------------------------------------------------------------------
(* The invariant and the properties *)

LEMMA CacheInvInit == Init => CacheInv
<1> SUFFICES ASSUME Init PROVE CacheInv
  OBVIOUS
<1>1. Empty \in Row /\ Empty.value = <<>>
  BY DEF Empty, Row
<1>2. (CHOOSE k \in Key : TRUE) \in Key
  BY KeyAssumption
<1>3. Untouched \in [Key -> Row \cup {Clean}] /\ Untouched \in [Key -> Nat \cup {NoRow, Clean}]
      /\ \A k \in Key : Untouched[k] = Clean
  BY DEF Untouched
<1>4. cache \in [Key -> Row] /\ conversations \in [Key -> Nat \cup {NoRow}]
      /\ \A k \in Key : cache[k].value = <<>> /\ conversations[k] = NoRow
  BY <1>1 DEF Init
<1>5. key \in [Replica -> Key]
  BY <1>2 DEF Init
<1>6. now \in Nat /\ started \in [Replica -> Nat] /\ old_value \in [Replica -> Seq(Nat)]
      /\ log \in [Key -> Seq(Nat)] /\ contended \subseteq Key /\ \A k \in Key : log[k] = <<>>
  BY DEF Init
<1>7. victim \in [Replica -> SUBSET Key] /\ \A p \in Replica : victim[p] = {}
  BY DEF Init
<1>8. pc \in [Replica -> {"idle", "lock", "select", "write", "delete_row"} \cup Inserting \cup Deleting]
      /\ \A p \in Replica : pc[p] = "idle"
  BY DEF Init
<1>9. draft \in [Replica -> [Key -> Row \cup {Clean}]] /\ \A p \in Replica : draft[p] = Untouched
  BY <1>3 DEF Init
<1>10. draft_meta \in [Replica -> [Key -> Nat \cup {NoRow, Clean}]] /\ \A p \in Replica : draft_meta[p] = Untouched
  BY <1>3 DEF Init
<1>11. TypeOK
  BY <1>4, <1>5, <1>6, <1>7, <1>8, <1>9, <1>10 DEF TypeOK
<1>12. \A p \in Replica : ~Holds(p) /\ \A k \in Key : ~Busy(p, k)
  BY <1>7, <1>8 DEF Holds, Busy, Inserting, Deleting
<1>13. Exclusive /\ Alone
  BY <1>12 DEF Exclusive, Alone
<1>14. \A p \in Replica : OwnDrafts(p)
  BY <1>3, <1>7, <1>9, <1>10 DEF OwnDrafts
<1>15. \A k \in Key : Right(k)
  <2>1. EndsWith(<<>>, <<>>)
    BY EndsWithNothing, EmptySeq
  <2>2. QED
    BY <1>4, <1>6, <2>1 DEF Right
<1>16. \A p \in Replica : \A k \in Key : Told(p, k) /\ Tallied(p, k)
  BY <1>12, NotBusy
<1>17. QED
  BY <1>11, <1>13, <1>14, <1>15, <1>16 DEF CacheInv

LEMMA CacheInvNext == CacheInv /\ [Next]_vars => CacheInv'
<1> SUFFICES ASSUME CacheInv, [Next]_vars PROVE CacheInv'
  OBVIOUS
<1>1. CASE UNCHANGED vars
  <2>1. /\ cache' = cache /\ conversations' = conversations /\ now' = now /\ pc' = pc
        /\ key' = key /\ started' = started /\ old_value' = old_value /\ victim' = victim
        /\ draft' = draft /\ draft_meta' = draft_meta /\ log' = log /\ contended' = contended
    BY <1>1 DEF vars, tables, locals, drafts, ghosts
  <2>2. TypeOK'
    BY <2>1 DEF CacheInv, TypeOK
  <2>3. Exclusive' /\ Alone' /\ \A q \in Replica : OwnDrafts(q)'
    BY <2>1 DEF CacheInv, Exclusive, Holds, Alone, Busy, OwnDrafts
  <2>4. \A k \in Key \ contended : Right(k)'
    BY <2>1 DEF CacheInv, Right
  <2>5. \A k \in Key \ contended : \A q \in Replica : Told(q, k)' /\ Tallied(q, k)'
    <3> SUFFICES ASSUME NEW k \in Key \ contended, NEW q \in Replica PROVE Told(q, k)' /\ Tallied(q, k)'
      OBVIOUS
    <3>1. Seen(q, k)' = Seen(q, k) /\ SeenMeta(q, k)' = SeenMeta(q, k)
      BY <2>1 DEF Seen, SeenMeta
    <3>2. QED
      BY <2>1, <3>1 DEF CacheInv, Told, Tallied
  <2>6. QED
    BY <2>1, <2>2, <2>3, <2>4, <2>5 DEF CacheInv
<1>2. ASSUME NEW p \in Replica, Step(p) PROVE CacheInv'
  <2>1. CASE advisory_lock(p)
    BY <2>1, LockStep
  <2>2. CASE _select(p)
    BY <2>2, SelectStep
  <2>3. CASE _update(p)
    BY <2>3, UpdateStep
  <2>4. CASE _insert(p)
    BY <2>4, InsertStep
  <2>5. CASE upsert_conversation(p)
    BY <2>5, UpsertStep
  <2>6. CASE cleanup_count(p)
    BY <2>6, CountStep
  <2>7. CASE cleanup_oldest(p)
    BY <2>7, OldestStep
  <2>8. CASE cleanup_evict(p)
    BY <2>8, EvictStep
  <2>9. CASE commit(p)
    BY <2>9, CommitStep
  <2>10. CASE delete_row(p)
    BY <2>10, DeleteRowStep
  <2>11. CASE delete_metadata(p)
    BY <2>11, DeleteMetadataStep
  <2>12. CASE delete_commit(p)
    BY <2>12, DeleteCommitStep
  <2>13. QED
    BY <1>2, <2>1, <2>2, <2>3, <2>4, <2>5, <2>6, <2>7, <2>8, <2>9, <2>10, <2>11, <2>12 DEF Step
<1>3. ASSUME NEW p \in Replica, deadlock_detected(p) \/ connection_lost(p) \/ decode_error(p) PROVE CacheInv'
  BY <1>3, RollbackStep DEF deadlock_detected, connection_lost, decode_error
<1>4. ASSUME NEW p \in Replica, NEW k \in Key, insert_or_append(p, k) \/ delete(p, k) PROVE CacheInv'
  BY <1>4, StartStep DEF insert_or_append, delete
<1>5. ASSUME NEW p \in Replica, NEW k \in Key, set_topic_summary(p, k) PROVE CacheInv'
  BY <1>5, TopicStep
<1>6. QED
  BY <1>1, <1>2, <1>3, <1>4, <1>5 DEF Next

LEMMA CacheInvAlways == Spec => []CacheInv
  BY CacheInvInit, CacheInvNext, PTL DEF Spec

\* The advisory lock, taken before the SELECT of insert_or_append and held to
\* the COMMIT, is enough for any number of replicas: in a conversation that no
\* clean-up or deletion of another replica met half-way, what is stored is the
\* newest part of what was committed, in commit order, and no committed
\* message is missing in between.
THEOREM AppendsKept == Spec => []AppendsSurvive
<1>1. CacheInv => AppendsSurvive
  <2> SUFFICES ASSUME CacheInv, NEW k \in Key \ contended PROVE IsSuffix(cache[k].value, log[k])
    BY DEF AppendsSurvive
  <2>1. cache[k].value \in Seq(Nat) /\ log[k] \in Seq(Nat)
    BY DEF CacheInv, TypeOK, Row
  <2>2. EndsWith(log[k], cache[k].value)
    BY DEF CacheInv, Right
  <2>3. QED
    BY <2>1, <2>2, EndsWithSuffix
<1>2. QED
  BY <1>1, CacheInvAlways, PTL

\* upsert_conversation, _cleanup and the two statements of delete keep
\* message_count at the number of messages committed since the last deletion,
\* in every such conversation that is readable or deleted, whatever topic
\* summaries are set meanwhile.
THEOREM CountsAgree == Spec => []CountMatchesHistory
<1>1. CacheInv => CountMatchesHistory
  <2> SUFFICES ASSUME CacheInv, NEW k \in Key \ contended
               PROVE  Max({conversations[k], 0}) = Len(log[k])
    BY DEF CountMatchesHistory
  <2>1. Len(log[k]) \in Nat /\ Len(<<>>) = 0
    BY LenProperties DEF CacheInv, TypeOK
  <2>2. conversations[k] = Len(log[k]) \/ (conversations[k] = -1 /\ Len(log[k]) = 0)
    BY <2>1 DEF CacheInv, Right, NoRow
  <2>3. \A x \in {conversations[k], 0} : x <= Len(log[k])
    BY <2>1, <2>2
  <2>4. Len(log[k]) \in {conversations[k], 0}
    BY <2>2
  <2>5. \A x \in {conversations[k], 0} :
            (\A y \in {conversations[k], 0} : x >= y) => x = Len(log[k])
    BY <2>1, <2>2
  <2>6. \A y \in {conversations[k], 0} : Len(log[k]) >= y
    BY <2>1, <2>2
  <2>7. QED
    BY <2>4, <2>5, <2>6 DEF Max
<1>2. QED
  BY <1>1, CacheInvAlways, PTL

-----------------------------------------------------------------------------
(* The size of the table *)

\* p may yet commit an i-th entry of k, not counting the one that it adds.
Reaches(p, k, i) ==
    \/ pc[p] = "write" /\ k = key[p] /\ i <= Len(old_value[p])
    \/ draft[p][k] # Clean /\ i <= Len(draft[p][k].value) - (IF k = key[p] THEN 1 ELSE 0)
    \/ pc[p] = "evict" /\ k \in victim[p] /\ i < Len(old_value[p])

\* The places that are taken, or can be taken again by a transaction that saw them.
Taken(k, i) == i <= Len(cache[k].value) \/ \E p \in Replica : Reaches(p, k, i)
Slots == {x \in Key \X (Nat \ {0}) : Taken(x[1], x[2])}

Visible(p) == Places([k \in Key |-> Seen(p, k)])

\* What p sees if no other operation ran since it started.
Exact(p) ==
    /\ pc[p] = "write" => old_value[p] = cache[key[p]].value
    /\ pc[p] \in Inserting \ {"commit"} => \E x : Visible(p) \subseteq Places(cache) \cup {x}
    /\ pc[p] \in {"oldest", "evict"} => Cardinality(Visible(p)) > capacity
    /\ pc[p] = "evict" => \E k \in Key : /\ victim[p] = {k} /\ old_value[p] # <<>>
                                         /\ Seen(p, k).value = old_value[p]
    /\ pc[p] = "commit" => \/ Cardinality(Visible(p)) <= capacity
                           \/ Cardinality(Visible(p)) <= Cardinality(Places(cache))

BoundInv ==
    /\ overlap \in [Replica -> BOOLEAN]
    /\ overlapped \in Nat
    /\ IsFiniteSet(Slots)
    /\ Cardinality(Slots) <= capacity + overlapped
    /\ \A p \in Replica : pc[p] \in Deleting =>
          \A k \in Key : draft[p][k] # Clean => draft[p][k].value = <<>>
    /\ \A p \in Replica : pc[p] # "idle" /\ ~overlap[p] =>
          Exact(p) /\ \A q \in Replica \ {p} : pc[q] = "idle"

\* What it is to be a place.
LEMMA PlaceOf ==
    ASSUME NEW rows, NEW x
    PROVE  x \in Places(rows) <=> \E k \in Key : \E i \in 1..Len(rows[k].value) : x = <<k, i>>
  BY DEF Places

LEMMA SlotOf ==
    ASSUME NEW x
    PROVE  x \in Slots <=> \E k \in Key, i \in Nat \ {0} : x = <<k, i>> /\ Taken(k, i)
  BY DEF Slots

LEMMA VisiblePlace ==
    ASSUME NEW p, NEW x
    PROVE  x \in Visible(p) <=> \E k \in Key : \E i \in 1..Len(Seen(p, k).value) : x = <<k, i>>
<1>1. PICK rows : rows = [k \in Key |-> Seen(p, k)]
  OBVIOUS
<1>2. \A k \in Key : rows[k] = Seen(p, k)
  BY <1>1
<1>3. x \in Visible(p) <=> \E k \in Key : \E i \in 1..Len(rows[k].value) : x = <<k, i>>
  BY <1>1, PlaceOf DEF Visible
<1>4. QED
  BY <1>2, <1>3

\* Histories have lengths.
LEMMA HasLength ==
    ASSUME TypeOK, NEW p \in Replica, NEW k \in Key
    PROVE  /\ Len(cache[k].value) \in Nat /\ Len(old_value[p]) \in Nat
           /\ Len(Seen(p, k).value) \in Nat
           /\ draft[p][k] # Clean => Len(draft[p][k].value) \in Nat
<1>1. cache[k] \in Row /\ old_value[p] \in Seq(Nat) /\ draft[p][k] \in Row \cup {Clean}
  BY DEF TypeOK
<1>2. \A r \in Row : Len(r.value) \in Nat
  BY LenProperties DEF Row
<1>3. Seen(p, k) \in Row
  BY SeenTypes
<1>4. QED
  BY <1>1, <1>2, <1>3, LenProperties

\* Every entry of the table is in a place that is taken.
LEMMA StoredTaken == TypeOK => Places(cache) \subseteq Slots
<1> SUFFICES ASSUME TypeOK, NEW x \in Places(cache) PROVE x \in Slots
  OBVIOUS
<1>1. PICK k \in Key : \E i \in 1..Len(cache[k].value) : x = <<k, i>>
  BY PlaceOf
<1> PICK i \in 1..Len(cache[k].value) : x = <<k, i>>
  BY <1>1
<1>2. cache[k] \in Row
  BY DEF TypeOK
<1>3. Len(cache[k].value) \in Nat
  BY <1>2, LenProperties DEF Row
<1>4. i \in Nat \ {0} /\ Taken(k, i)
  BY <1>3 DEF Taken
<1>5. QED
  BY <1>4, SlotOf

\* The table as p sees it takes one place at most that is not taken.
LEMMA VisibleTaken ==
    ASSUME TypeOK, NEW p \in Replica
    PROVE  \E x : Visible(p) \subseteq Slots \cup {x}
<1>1. PICK y : y = <<key[p], Len(Seen(p, key[p]).value)>>
  OBVIOUS
<1>2. ASSUME NEW x \in Visible(p) PROVE x \in Slots \cup {y}
  <2>0. PICK k \in Key : \E i \in 1..Len(Seen(p, k).value) : x = <<k, i>>
    BY VisiblePlace
  <2>1. PICK i \in 1..Len(Seen(p, k).value) : x = <<k, i>>
    BY <2>0
  <2>2. /\ Len(cache[k].value) \in Nat /\ Len(Seen(p, k).value) \in Nat
        /\ draft[p][k] # Clean => Len(draft[p][k].value) \in Nat
    BY HasLength
  <2>3. i \in Nat \ {0} /\ i <= Len(Seen(p, k).value)
    BY <2>2
  <2>4. CASE draft[p][k] = Clean
    <3>1. Taken(k, i)
      BY <2>3, <2>4 DEF Seen, Taken
    <3>2. QED
      BY <2>1, <2>3, <3>1, SlotOf
  <2>5. CASE draft[p][k] # Clean
    <3>1. Seen(p, k) = draft[p][k]
      BY <2>5 DEF Seen
    <3>2. CASE k = key[p] /\ i = Len(Seen(p, k).value)
      BY <1>1, <2>1, <3>2
    <3>3. CASE ~(k = key[p] /\ i = Len(Seen(p, k).value))
      <4>1. i <= Len(draft[p][k].value) - (IF k = key[p] THEN 1 ELSE 0)
        BY <2>2, <2>3, <2>5, <3>1, <3>3
      <4>2. Reaches(p, k, i)
        BY <2>5, <4>1 DEF Reaches
      <4>3. Taken(k, i)
        BY <4>2 DEF Taken
      <4>4. QED
        BY <2>1, <2>3, <4>3, SlotOf
    <3>4. QED
      BY <3>2, <3>3
  <2>6. QED
    BY <2>4, <2>5
<1>3. QED
  BY <1>2

-----------------------------------------------------------------------------

\* If p takes no new place, no place is taken anew.
LEMMA SlotsAfter ==
    ASSUME NEW p \in Replica, Elsewhere(p),
           \A k \in Key, i \in Nat \ {0} : i <= Len(cache'[k].value) => Taken(k, i),
           \A k \in Key, i \in Nat \ {0} : Reaches(p, k, i)' => Taken(k, i)
    PROVE  Slots' \subseteq Slots
<1> SUFFICES ASSUME NEW x \in Slots' PROVE x \in Slots
  OBVIOUS
<1>1. PICK k \in Key, i \in Nat \ {0} : x = <<k, i>> /\ Taken(k, i)'
  BY DEF Slots
<1>2. CASE i <= Len(cache'[k].value)
  BY <1>1, <1>2, SlotOf
<1>3. ASSUME NEW q \in Replica, Reaches(q, k, i)' PROVE x \in Slots
  <2>1. Taken(k, i)
    <3>1. CASE q = p
      BY <1>3, <3>1
    <3>2. CASE q # p
      <4>1. Reaches(q, k, i)
        BY <1>3, <3>2 DEF Elsewhere, Reaches
      <4>2. QED
        BY <4>1 DEF Taken
    <3>3. QED
      BY <3>1, <3>2
  <2>2. QED
    BY <1>1, <2>1, SlotOf
<1>4. QED
  BY <1>1, <1>2, <1>3 DEF Taken

LEMMA VisibleSame ==
    ASSUME NEW p, cache' = cache, draft'[p] = draft[p]
    PROVE  Visible(p)' = Visible(p) /\ Places(cache)' = Places(cache)
           /\ \A k : Seen(p, k)' = Seen(p, k)
  BY DEF Visible, Places, Seen

\* A statement that takes no new place.
LEMMA Within ==
    ASSUME TypeOK, BoundInv, NEW p \in Replica, Elsewhere(p), pc[p] # "idle", cache' = cache,
           overlap' = overlap, overlapped' = overlapped,
           \A k \in Key, i \in Nat \ {0} : Reaches(p, k, i)' => Taken(k, i),
           pc'[p] \in Deleting => \A k \in Key : draft'[p][k] # Clean => draft'[p][k].value = <<>>,
           ~overlap[p] => Exact(p)'
    PROVE  BoundInv'
<1>1. Slots' \subseteq Slots
  <2>1. \A k \in Key, i \in Nat \ {0} : i <= Len(cache'[k].value) => Taken(k, i)
    BY DEF Taken
  <2>2. QED
    BY <2>1, SlotsAfter
<1>2. /\ IsFiniteSet(Slots) /\ Cardinality(Slots) <= capacity + overlapped
      /\ overlap \in [Replica -> BOOLEAN] /\ overlapped \in Nat /\ capacity \in Nat
  BY CapacityAssumption DEF BoundInv
<1>3. IsFiniteSet(Slots') /\ Cardinality(Slots') <= Cardinality(Slots)
  BY <1>1, <1>2, FS_Subset
<1>4. Cardinality(Slots') \in Nat /\ Cardinality(Slots) \in Nat
  BY <1>2, <1>3, FS_CardinalityType
<1>5. Cardinality(Slots') <= capacity + overlapped'
  BY <1>2, <1>3, <1>4
<1>6. ASSUME NEW q \in Replica, pc'[q] \in Deleting, NEW k \in Key, draft'[q][k] # Clean
      PROVE  draft'[q][k].value = <<>>
  BY <1>6 DEF Elsewhere, BoundInv
<1>7. ASSUME NEW q \in Replica, pc'[q] # "idle", ~overlap'[q]
      PROVE  Exact(q)' /\ \A r \in Replica \ {q} : pc'[r] = "idle"
  <2>1. q = p
    BY <1>7 DEF Elsewhere, BoundInv
  <2>2. QED
    BY <1>7, <2>1 DEF Elsewhere, BoundInv
<1>8. QED
  BY <1>2, <1>3, <1>5, <1>6, <1>7 DEF BoundInv

LEMMA FinitelyMany ==
    ASSUME TypeOK, BoundInv, NEW p \in Replica
    PROVE  /\ IsFiniteSet(Visible(p)) /\ IsFiniteSet(Places(cache))
           /\ Cardinality(Visible(p)) \in Nat /\ Cardinality(Places(cache)) \in Nat
<1>1. IsFiniteSet(Slots)
  BY DEF BoundInv
<1>2. PICK x : Visible(p) \subseteq Slots \cup {x}
  BY VisibleTaken
<1>3. IsFiniteSet(Slots \cup {x})
  BY <1>1, FS_AddElement
<1>4. IsFiniteSet(Visible(p))
  BY <1>2, <1>3, FS_Subset
<1>5. IsFiniteSet(Places(cache))
  BY <1>1, StoredTaken, FS_Subset
<1>6. QED
  BY <1>4, <1>5, FS_CardinalityType

\* Without drafts p sees what is stored.
LEMMA VisibleClean ==
    ASSUME NEW p, \A k \in Key : draft[p][k] = Clean
    PROVE  Visible(p) = Places(cache)
<1>1. \A k \in Key : Seen(p, k) = cache[k]
  BY DEF Seen
<1>2. \A x : x \in Visible(p) <=> x \in Places(cache)
  BY <1>1, VisiblePlace, PlaceOf
<1>3. QED
  BY <1>2

\* A statement that writes no row and reads no history.
LEMMA QuietStep ==
    ASSUME CacheInv, BoundInv, NEW p \in Replica, NEW label \in Label \ {"write", "evict", "idle"},
           pc[p] # "idle", Goto(p, label), cache' = cache, key' = key, started' = started,
           old_value' = old_value, victim' = victim, draft' = draft,
           \A q \in Replica \ {p} : draft_meta'[q] = draft_meta[q],
           overlap' = overlap, overlapped' = overlapped,
           label \in Deleting => pc[p] \in Deleting,
           ~overlap[p] => Exact(p)'
    PROVE  BoundInv'
<1>1. TypeOK
  BY DEF CacheInv
<1>2. pc'[p] = label /\ \A q \in Replica \ {p} : pc'[q] = pc[q]
  BY <1>1 DEF Goto, TypeOK
<1>3. Elsewhere(p)
  BY <1>2 DEF Elsewhere
<1>4. ASSUME NEW k \in Key, NEW i \in Nat \ {0}, Reaches(p, k, i)' PROVE Taken(k, i)
  <2>1. Reaches(p, k, i)
    BY <1>2, <1>4 DEF Reaches
  <2>2. QED
    BY <2>1 DEF Taken
<1>5. pc'[p] \in Deleting => \A k \in Key : draft'[p][k] # Clean => draft'[p][k].value = <<>>
  BY <1>2 DEF BoundInv
<1>6. QED
  BY <1>1, <1>3, <1>4, <1>5, Within

LEMMA LockBound == ASSUME CacheInv, BoundInv, NEW p \in Replica, advisory_lock(p) PROVE BoundInv'
<1>1. pc[p] = "lock" /\ Goto(p, "select") /\ TypeOK
  BY DEF advisory_lock, At, CacheInv
<1>2. /\ cache' = cache /\ key' = key /\ started' = started /\ old_value' = old_value
      /\ victim' = victim /\ draft' = draft /\ draft_meta' = draft_meta
      /\ overlap' = overlap /\ overlapped' = overlapped
  BY DEF advisory_lock, tables, locals, drafts, ghosts
<1>3. pc'[p] = "select"
  BY <1>1 DEF Goto, TypeOK
<1>4. Exact(p)'
  BY <1>3 DEF Exact, Inserting
<1>5. "select" \in Label \ {"write", "evict", "idle"} /\ "select" \notin Deleting
  BY DEF Label, Deleting
<1>6. QED
  BY <1>1, <1>2, <1>4, <1>5, QuietStep

LEMMA UpsertBound == ASSUME CacheInv, BoundInv, NEW p \in Replica, upsert_conversation(p) PROVE BoundInv'
<1>1. pc[p] = "upsert" /\ Goto(p, "count") /\ TypeOK
  BY DEF upsert_conversation, At, CacheInv
<1>2. /\ cache' = cache /\ key' = key /\ started' = started /\ old_value' = old_value
      /\ victim' = victim /\ draft' = draft /\ overlap' = overlap /\ overlapped' = overlapped
  BY DEF upsert_conversation, tables, locals, ghosts
<1>3. \A q \in Replica \ {p} : draft_meta'[q] = draft_meta[q]
  BY <1>1 DEF upsert_conversation, TypeOK
<1>4. pc'[p] = "count"
  BY <1>1 DEF Goto, TypeOK
<1>5. ASSUME ~overlap[p] PROVE Exact(p)'
  <2>1. \E x : Visible(p) \subseteq Places(cache) \cup {x}
    BY <1>1, <1>5 DEF BoundInv, Exact, Inserting
  <2>2. Visible(p)' = Visible(p) /\ Places(cache)' = Places(cache)
    BY <1>2, VisibleSame
  <2>3. QED
    BY <1>4, <2>1, <2>2 DEF Exact
<1>6. "count" \in Label \ {"write", "evict", "idle"} /\ "count" \notin Deleting
  BY DEF Label, Deleting, Inserting
<1>7. QED
  BY <1>1, <1>2, <1>3, <1>5, <1>6, QuietStep

LEMMA CountBound == ASSUME CacheInv, BoundInv, NEW p \in Replica, cleanup_count(p) PROVE BoundInv'
<1>1. pc[p] = "count" /\ TypeOK
  BY DEF cleanup_count, At, CacheInv
<1>2. PICK label \in {"oldest", "commit"} :
          Goto(p, label) /\ (label = "oldest" <=> Cardinality(Visible(p)) > capacity)
  BY DEF cleanup_count, total_entries, Visible
<1>3. /\ cache' = cache /\ key' = key /\ started' = started /\ old_value' = old_value
      /\ victim' = victim /\ draft' = draft /\ draft_meta' = draft_meta
      /\ overlap' = overlap /\ overlapped' = overlapped
  BY DEF cleanup_count, tables, locals, drafts, ghosts
<1>4. pc'[p] = label
  BY <1>1, <1>2 DEF Goto, TypeOK
<1>5. ASSUME ~overlap[p] PROVE Exact(p)'
  <2>1. \E x : Visible(p) \subseteq Places(cache) \cup {x}
    BY <1>1, <1>5 DEF BoundInv, Exact, Inserting
  <2>2. Visible(p)' = Visible(p) /\ Places(cache)' = Places(cache)
    BY <1>3, VisibleSame
  <2>3. Cardinality(Visible(p)) \in Nat /\ capacity \in Nat
    BY <1>1, FinitelyMany, CapacityAssumption
  <2>4. label = "commit" => Cardinality(Visible(p)) <= capacity
    BY <1>2, <2>3
  <2>5. QED
    BY <1>2, <1>4, <2>1, <2>2, <2>4 DEF Exact
<1>6. label \in Label \ {"write", "evict", "idle"} /\ label \notin Deleting
  BY DEF Label, Deleting, Inserting
<1>7. QED
  BY <1>1, <1>2, <1>3, <1>5, <1>6, QuietStep

LEMMA DeleteMetadataBound == ASSUME CacheInv, BoundInv, NEW p \in Replica, delete_metadata(p) PROVE BoundInv'
<1>1. pc[p] = "delete_meta" /\ Goto(p, "delete_commit") /\ TypeOK
  BY DEF delete_metadata, At, CacheInv
<1>2. /\ cache' = cache /\ key' = key /\ started' = started /\ old_value' = old_value
      /\ victim' = victim /\ draft' = draft /\ overlap' = overlap /\ overlapped' = overlapped
  BY DEF delete_metadata, tables, locals, ghosts
<1>3. \A q \in Replica \ {p} : draft_meta'[q] = draft_meta[q]
  BY <1>1 DEF delete_metadata, TypeOK
<1>4. pc'[p] = "delete_commit"
  BY <1>1 DEF Goto, TypeOK
<1>5. Exact(p)'
  BY <1>4 DEF Exact, Inserting
<1>6. "delete_commit" \in Label \ {"write", "evict", "idle"} /\ pc[p] \in Deleting
  BY <1>1 DEF Label, Deleting
<1>7. QED
  BY <1>1, <1>2, <1>3, <1>5, <1>6, QuietStep

LEMMA SelectBound == ASSUME CacheInv, BoundInv, NEW p \in Replica, _select(p) PROVE BoundInv'
<1>1. TypeOK /\ pc[p] = "select" /\ Goto(p, "write")
  BY DEF _select, At, CacheInv
<1>2. PICK k \in Key : k = key[p]
  BY <1>1 DEF TypeOK
<1>3. /\ cache' = cache /\ key' = key /\ started' = started /\ victim' = victim /\ draft' = draft
      /\ draft_meta' = draft_meta /\ overlap' = overlap /\ overlapped' = overlapped
      /\ old_value' = [old_value EXCEPT ![p] = Seen(p, k).value]
  BY <1>2 DEF _select, tables, drafts
<1>4. \A j \in Key : draft[p][j] = Clean
  BY <1>1, NoDrafts DEF Inserting, Deleting
<1>5. Seen(p, k) = cache[k]
  BY <1>4 DEF Seen
<1>6. pc'[p] = "write" /\ old_value'[p] = cache[k].value
      /\ \A q \in Replica \ {p} : pc'[q] = pc[q] /\ old_value'[q] = old_value[q]
  BY <1>1, <1>3, <1>5 DEF Goto, TypeOK
<1>7. Elsewhere(p)
  BY <1>3, <1>6 DEF Elsewhere
<1>8. ASSUME NEW j \in Key, NEW i \in Nat \ {0}, Reaches(p, j, i)' PROVE Taken(j, i)
  BY <1>2, <1>3, <1>4, <1>6, <1>8 DEF Reaches, Taken
<1>9. Exact(p)'
  BY <1>2, <1>3, <1>6 DEF Exact, Inserting
<1>10. pc'[p] \notin Deleting
  BY <1>6 DEF Deleting
<1>11. QED
  BY <1>1, <1>3, <1>7, <1>8, <1>9, <1>10, Within

\* A longer history adds its last entry.
LEMMA OneMore ==
    ASSUME NEW rows, NEW seen, NEW k \in Key,
           \A j \in Key : Len(rows[j].value) \in Nat /\ Len(seen[j].value) \in Nat,
           \A j \in Key \ {k} : seen[j] = rows[j],
           Len(seen[k].value) <= Len(rows[k].value) + 1
    PROVE  \E x : Places(seen) \subseteq Places(rows) \cup {x}
<1>1. PICK y : y = <<k, Len(rows[k].value) + 1>>
  OBVIOUS
<1>2. ASSUME NEW x \in Places(seen) PROVE x \in Places(rows) \cup {y}
  <2>1. PICK j \in Key : \E i \in 1..Len(seen[j].value) : x = <<j, i>>
    BY PlaceOf
  <2>2. PICK i \in 1..Len(seen[j].value) : x = <<j, i>>
    BY <2>1
  <2>3. i \in 1..Len(rows[j].value) \/ x = y
    BY <1>1, <2>2
  <2>4. QED
    BY <2>2, <2>3, PlaceOf
<1>3. QED
  BY <1>2

\* The UPDATE or INSERT of insert_or_append.
LEMMA WriteBound ==
    ASSUME CacheInv, BoundInv, NEW p \in Replica, NEW k \in Key, k = key[p], pc[p] = "write",
           NEW v \in Seq(Nat), Len(v) <= Len(old_value[p]) + 1,
           draft' = draft \/ WriteRow(p, k, v),
           Goto(p, "upsert"),
           UNCHANGED <<tables, now, locals, draft_meta, ghosts>>
    PROVE  BoundInv'
<1>1. /\ cache' = cache /\ key' = key /\ started' = started /\ old_value' = old_value
      /\ victim' = victim /\ draft_meta' = draft_meta
      /\ overlap' = overlap /\ overlapped' = overlapped
  BY DEF tables, locals, ghosts
<1>2. TypeOK /\ started[p] \in Nat
  BY DEF CacheInv, TypeOK
<1>3. \A j \in Key : draft[p][j] = Clean
  BY NoDrafts DEF Inserting, Deleting
<1>4. PICK r : r = [value |-> v, updated_at |-> started[p]]
  OBVIOUS
<1>5. r \in Row /\ r # Clean /\ r.value = v
  BY <1>2, <1>4, WrittenRow
<1>6. draft' = draft \/ draft' = [draft EXCEPT ![p][k] = r]
  BY <1>4 DEF WriteRow
<1>7. /\ \A j \in Key \ {k} : draft'[p][j] = Clean
      /\ draft'[p][k] = Clean \/ draft'[p][k] = r
      /\ \A q \in Replica \ {p} : draft'[q] = draft[q]
  BY <1>2, <1>3, <1>6 DEF TypeOK
<1>8. pc'[p] = "upsert" /\ \A q \in Replica \ {p} : pc'[q] = pc[q]
  BY <1>2 DEF Goto, TypeOK
<1>9. Elsewhere(p)
  BY <1>1, <1>7, <1>8 DEF Elsewhere
<1>10. Len(v) \in Nat /\ Len(old_value[p]) \in Nat /\ Len(cache[k].value) \in Nat
  BY <1>2, HasLength, LenProperties
<1>11. ASSUME NEW j \in Key, NEW i \in Nat \ {0}, Reaches(p, j, i)' PROVE Taken(j, i)
  <2>1. draft'[p][j] # Clean /\ i <= Len(draft'[p][j].value) - (IF j = key[p] THEN 1 ELSE 0)
    BY <1>1, <1>8, <1>11 DEF Reaches
  <2>2. j = k /\ draft'[p][j] = r
    BY <1>7, <2>1
  <2>3. i <= Len(old_value[p])
    BY <1>5, <1>10, <2>1, <2>2
  <2>4. Reaches(p, j, i)
    BY <2>2, <2>3 DEF Reaches
  <2>5. QED
    BY <2>4 DEF Taken
<1>12. ASSUME ~overlap[p] PROVE Exact(p)'
  <2>1. old_value[p] = cache[k].value
    BY <1>12 DEF BoundInv, Exact
  <2>2. PICK seen : seen = [j \in Key |-> Seen(p, j)']
    OBVIOUS
  <2>3. \A j \in Key : seen[j] = IF j = k /\ draft'[p][j] = r THEN r ELSE cache[j]
    BY <1>1, <1>5, <1>7, <2>2 DEF Seen
  <2>4. \A j \in Key : Len(cache[j].value) \in Nat
    BY <1>2, HasLength
  <2>5. \E x : Places(seen) \subseteq Places(cache) \cup {x}
    <3>1. \A j \in Key : Len(seen[j].value) \in Nat
      BY <1>5, <1>10, <2>3, <2>4
    <3>2. \A j \in Key \ {k} : seen[j] = cache[j]
      BY <2>3
    <3>3. Len(seen[k].value) <= Len(cache[k].value) + 1
      BY <1>5, <1>10, <2>1, <2>3
    <3>4. QED
      BY <2>4, <3>1, <3>2, <3>3, OneMore
  <2>6. Visible(p)' = Places(seen) /\ Places(cache)' = Places(cache)
    BY <1>1, <2>2 DEF Visible, Places
  <2>7. \E x : Visible(p)' \subseteq Places(cache)' \cup {x}
    BY <2>5, <2>6
  <2>8. pc'[p] \notin {"write", "oldest", "evict", "commit"}
    BY <1>8
  <2>9. QED
    BY <2>7, <2>8 DEF Exact
<1>13. pc'[p] \notin Deleting
  BY <1>8 DEF Deleting
<1>14. QED
  BY <1>1, <1>2, <1>9, <1>11, <1>12, <1>13, Within

LEMMA UpdateBound == ASSUME CacheInv, BoundInv, NEW p \in Replica, _update(p) PROVE BoundInv'
<1>1. PICK k \in Key : k = key[p]
  BY DEF CacheInv, TypeOK
<1>2. PICK v : v = Append(old_value[p], started[p])
  OBVIOUS
<1>3. old_value[p] \in Seq(Nat) /\ started[p] \in Nat
  BY DEF CacheInv, TypeOK
<1>4. v \in Seq(Nat) /\ Len(v) = Len(old_value[p]) + 1 /\ Len(old_value[p]) \in Nat
  BY <1>2, <1>3, AppendProperties, LenProperties
<1>5. /\ pc[p] = "write" /\ (draft' = draft \/ WriteRow(p, k, v)) /\ Goto(p, "upsert")
      /\ UNCHANGED <<tables, now, locals, draft_meta, ghosts>>
  BY <1>1, <1>2 DEF _update, At
<1>6. Len(v) <= Len(old_value[p]) + 1
  BY <1>4
<1>7. QED
  BY <1>1, <1>4, <1>5, <1>6, WriteBound

LEMMA InsertBound == ASSUME CacheInv, BoundInv, NEW p \in Replica, _insert(p) PROVE BoundInv'
<1>1. PICK k \in Key : k = key[p]
  BY DEF CacheInv, TypeOK
<1>2. PICK v : v = <<started[p]>>
  OBVIOUS
<1>3. started[p] \in Nat /\ old_value[p] = <<>>
  BY DEF CacheInv, TypeOK, _insert
<1>4. v \in Seq(Nat) /\ Len(v) <= Len(old_value[p]) + 1
  BY <1>2, <1>3
<1>5. /\ pc[p] = "write" /\ WriteRow(p, k, v) /\ Goto(p, "upsert")
      /\ UNCHANGED <<tables, now, locals, draft_meta, ghosts>>
  BY <1>1, <1>2 DEF _insert, At
<1>6. QED
  BY <1>1, <1>4, <1>5, WriteBound

LEMMA DeleteRowBound == ASSUME CacheInv, BoundInv, NEW p \in Replica, delete_row(p) PROVE BoundInv'
<1>1. PICK k \in Key : k = key[p]
  BY DEF CacheInv, TypeOK
<1>2. TypeOK /\ pc[p] = "delete_row" /\ Goto(p, "delete_meta") /\ started[p] \in Nat
  BY DEF delete_row, At, CacheInv, TypeOK
<1>3. /\ cache' = cache /\ key' = key /\ started' = started /\ old_value' = old_value
      /\ victim' = victim /\ draft_meta' = draft_meta
      /\ overlap' = overlap /\ overlapped' = overlapped
  BY DEF delete_row, tables, locals
<1>4. \A j \in Key : draft[p][j] = Clean
  BY <1>2, NoDrafts DEF Inserting, Deleting
<1>5. PICK r : r = [value |-> <<>>, updated_at |-> started[p]]
  OBVIOUS
<1>6. r # Clean /\ r.value = <<>>
  <2>1. <<>> \in Seq(Nat)
    OBVIOUS
  <2>2. QED
    BY <1>2, <1>5, <2>1, WrittenRow
<1>7. draft' = draft \/ draft' = [draft EXCEPT ![p][k] = r]
  BY <1>1, <1>5 DEF delete_row, WriteRow
<1>8. /\ \A j \in Key : draft'[p][j] = Clean \/ draft'[p][j] = r
      /\ \A q \in Replica \ {p} : draft'[q] = draft[q]
  BY <1>2, <1>4, <1>7 DEF TypeOK
<1>9. pc'[p] = "delete_meta" /\ \A q \in Replica \ {p} : pc'[q] = pc[q]
  BY <1>2 DEF Goto, TypeOK
<1>10. Elsewhere(p)
  BY <1>3, <1>8, <1>9 DEF Elsewhere
<1>11. ASSUME NEW j \in Key, NEW i \in Nat \ {0} PROVE ~Reaches(p, j, i)'
  <2>1. Reaches(p, j, i)' =>
          draft'[p][j] # Clean /\ i <= Len(draft'[p][j].value) - (IF j = key'[p] THEN 1 ELSE 0)
    BY <1>9 DEF Reaches
  <2>2. draft'[p][j] # Clean => Len(draft'[p][j].value) = 0
    BY <1>6, <1>8
  <2>3. QED
    BY <2>1, <2>2
<1>12. Exact(p)'
  BY <1>9 DEF Exact, Inserting
<1>13. \A j \in Key : draft'[p][j] # Clean => draft'[p][j].value = <<>>
  BY <1>6, <1>8
<1>14. QED
  BY <1>2, <1>3, <1>10, <1>11, <1>12, <1>13, Within

LEMMA LeastNumber ==
    ASSUME NEW T, T \subseteq Nat, T # {}
    PROVE  \E x \in T : \A y \in T : x <= y
<1>1. PICK x \in T : \A y \in T : ~ (<<y, x>> \in OpToRel(<, Nat))
  BY NatLessThanWellFounded, WFMin, Zenon
<1>2. \A y \in T : ~(y < x)
  BY <1>1 DEF OpToRel
<1>3. QED
  BY <1>2

\* Some row is the oldest, if there is one.
LEMMA OldestExists ==
    ASSUME TypeOK, NEW p \in Replica, Present(p) # {}
    PROVE  Oldest(p) # {}
<1> DEFINE T == {Seen(p, k).updated_at : k \in Present(p)}
<1>1. Present(p) \subseteq Key
  BY DEF Present
<1>2. \A k \in Present(p) : Seen(p, k).updated_at \in Nat
  BY <1>1, SeenTypes DEF Row
<1>3. T \subseteq Nat /\ T # {}
  BY <1>2
<1>4. PICK t \in T : \A u \in T : t <= u
  <2> HIDE DEF T
  <2>1. QED
    BY <1>3, LeastNumber
<1>5. PICK k \in Present(p) : t = Seen(p, k).updated_at
  BY <1>4
<1>6. \A j \in Present(p) : Seen(p, k).updated_at <= Seen(p, j).updated_at
  BY <1>4, <1>5
<1>7. k \in Oldest(p)
  BY <1>6 DEF Oldest
<1>8. QED
  BY <1>7

\* A table that is not empty has a row.
LEMMA VisibleRow ==
    ASSUME TypeOK, NEW p \in Replica, Visible(p) # {}
    PROVE  Present(p) # {}
<1>1. PICK x \in Visible(p) : TRUE
  OBVIOUS
<1>2. PICK k \in Key : \E i \in 1..Len(Seen(p, k).value) : x = <<k, i>>
  BY VisiblePlace
<1>3. Seen(p, k).value # <<>>
  BY <1>2
<1>4. QED
  BY <1>3 DEF Present

LEMMA OldestBound == ASSUME CacheInv, BoundInv, NEW p \in Replica, cleanup_oldest(p) PROVE BoundInv'
<1>1. TypeOK /\ pc[p] = "oldest" /\ Goto(p, "evict") /\ key[p] \in Key
  BY DEF cleanup_oldest, At, CacheInv, TypeOK
<1>2. /\ cache' = cache /\ key' = key /\ started' = started /\ draft' = draft
      /\ draft_meta' = draft_meta /\ overlap' = overlap /\ overlapped' = overlapped
  BY DEF cleanup_oldest, tables, drafts
<1>3. pc'[p] = "evict" /\ pc'[p] \notin Deleting /\ \A q \in Replica \ {p} : pc'[q] = pc[q]
  BY <1>1 DEF Goto, TypeOK, Deleting
<1>4. victim[p] = {}
  BY <1>1, NoDrafts
<1>5. ASSUME ~overlap[p]
      PROVE  /\ \E x : Visible(p) \subseteq Places(cache) \cup {x}
             /\ Cardinality(Visible(p)) > capacity
             /\ Oldest(p) # {}
  <2>1. /\ \E x : Visible(p) \subseteq Places(cache) \cup {x}
        /\ Cardinality(Visible(p)) > capacity
    BY <1>1, <1>5 DEF BoundInv, Exact, Inserting
  <2>2. Visible(p) # {}
    BY <2>1, FS_EmptySet, CapacityAssumption
  <2>3. QED
    BY <1>1, <2>1, <2>2, VisibleRow, OldestExists
<1>6. Visible(p)' = Visible(p) /\ Places(cache)' = Places(cache) /\ \A k : Seen(p, k)' = Seen(p, k)
  BY <1>2, VisibleSame
<1>7. CASE Oldest(p) = {} /\ UNCHANGED <<old_value, victim, contended>>
  <2>1. Elsewhere(p)
    BY <1>2, <1>3, <1>7 DEF Elsewhere
  <2>2. ASSUME NEW j \in Key, NEW i \in Nat \ {0}, Reaches(p, j, i)' PROVE Taken(j, i)
    <3>1. Reaches(p, j, i)
      BY <1>2, <1>3, <1>4, <1>7, <2>2 DEF Reaches
    <3>2. QED
      BY <3>1 DEF Taken
  <2>3. overlap[p]
    BY <1>5, <1>7
  <2>4. QED
    BY <1>1, <1>2, <1>3, <2>1, <2>2, <2>3, Within
<1>8. ASSUME NEW v \in Oldest(p), victim' = [victim EXCEPT ![p] = {v}],
             old_value' = [old_value EXCEPT ![p] = Seen(p, v).value]
      PROVE  BoundInv'
  <2>1. v \in Key /\ Seen(p, v).value # <<>>
    BY DEF Oldest, Present
  <2>2. /\ victim'[p] = {v} /\ old_value'[p] = Seen(p, v).value
        /\ \A q \in Replica \ {p} : victim'[q] = victim[q] /\ old_value'[q] = old_value[q]
    BY <1>1, <1>8 DEF TypeOK
  <2>3. Elsewhere(p)
    BY <1>2, <1>3, <2>2 DEF Elsewhere
  <2>4. ASSUME NEW j \in Key, NEW i \in Nat \ {0}, Reaches(p, j, i)' PROVE Taken(j, i)
    <3>1. /\ Len(cache[j].value) \in Nat /\ Len(Seen(p, j).value) \in Nat
          /\ draft[p][j] # Clean => Len(draft[p][j].value) \in Nat
      BY <1>1, HasLength
    <3>2. CASE draft[p][j] # Clean /\ i <= Len(draft[p][j].value) - (IF j = key[p] THEN 1 ELSE 0)
      BY <3>2 DEF Reaches, Taken
    <3>3. CASE j = v /\ i < Len(Seen(p, v).value)
      <4>1. CASE draft[p][j] = Clean
        BY <3>1, <3>3, <4>1 DEF Seen, Taken
      <4>2. CASE draft[p][j] # Clean
        <5>1. PICK n \in Nat : n = Len(draft[p][j].value)
          BY <3>1, <4>2
        <5>2. i < n
          BY <3>3, <4>2, <5>1 DEF Seen
        <5>3. i <= n - (IF j = key[p] THEN 1 ELSE 0)
          BY <5>2
        <5>4. QED
          BY <4>2, <5>1, <5>3 DEF Reaches, Taken
      <4>3. QED
        BY <4>1, <4>2
    <3>4. QED
      BY <1>2, <1>3, <2>2, <2>4, <3>2, <3>3 DEF Reaches
  <2>5. ASSUME ~overlap[p] PROVE Exact(p)'
    BY <1>3, <1>5, <1>6, <2>1, <2>2, <2>5 DEF Exact
  <2>6. QED
    BY <1>1, <1>2, <1>3, <2>3, <2>4, <2>5, Within
<1>9. QED
  BY <1>7, <1>8 DEF cleanup_oldest

\* A history without its first entry gives up its last place.
LEMMA OneLess ==
    ASSUME NEW rows, NEW seen, NEW k \in Key, NEW n \in Nat,
           n + 1 = Len(rows[k].value), Len(seen[k].value) = n,
           \A j \in Key \ {k} : seen[j] = rows[j]
    PROVE  Places(seen) \subseteq Places(rows) \ {<<k, n + 1>>} /\ <<k, n + 1>> \in Places(rows)
<1>1. ASSUME NEW x \in Places(seen) PROVE x \in Places(rows) /\ x # <<k, n + 1>>
  <2>1. PICK j \in Key : \E i \in 1..Len(seen[j].value) : x = <<j, i>>
    BY PlaceOf
  <2>2. PICK i \in 1..Len(seen[j].value) : x = <<j, i>>
    BY <2>1
  <2>3. i \in 1..Len(rows[j].value) /\ (j = k => i # n + 1)
    BY <2>2
  <2>4. QED
    BY <2>2, <2>3, PlaceOf
<1>2. n + 1 \in 1..Len(rows[k].value)
  OBVIOUS
<1>3. <<k, n + 1>> \in Places(rows)
  BY <1>2, PlaceOf
<1>4. QED
  BY <1>1, <1>3

LEMMA EvictBound == ASSUME CacheInv, BoundInv, NEW p \in Replica, cleanup_evict(p) PROVE BoundInv'
<1>1. TypeOK /\ pc[p] = "evict" /\ Goto(p, "commit") /\ key[p] \in Key /\ started[p] \in Nat
  BY DEF cleanup_evict, At, CacheInv, TypeOK
<1>2. /\ cache' = cache /\ key' = key /\ started' = started /\ old_value' = old_value
      /\ victim' = victim /\ draft_meta' = draft_meta
      /\ overlap' = overlap /\ overlapped' = overlapped
  BY DEF cleanup_evict, tables, locals, ghosts
<1>3. pc'[p] = "commit" /\ pc'[p] \notin Deleting /\ \A q \in Replica \ {p} : pc'[q] = pc[q]
  BY <1>1 DEF Goto, TypeOK, Deleting
<1>4. CASE draft' = draft /\ victim[p] \cap Present(p) = {}
  <2>1. Elsewhere(p)
    BY <1>2, <1>3, <1>4 DEF Elsewhere
  <2>2. ASSUME NEW j \in Key, NEW i \in Nat \ {0}, Reaches(p, j, i)' PROVE Taken(j, i)
    <3>1. Reaches(p, j, i)
      BY <1>2, <1>3, <1>4, <2>2 DEF Reaches
    <3>2. QED
      BY <3>1 DEF Taken
  <2>3. overlap[p]
    <3>1. ~overlap[p] => \E k \in Key : victim[p] = {k} /\ Seen(p, k).value # <<>>
      BY <1>1 DEF BoundInv, Exact
    <3>2. QED
      BY <1>4, <3>1 DEF Present
  <2>4. QED
    BY <1>1, <1>2, <1>3, <2>1, <2>2, <2>3, Within
<1>5. ASSUME NEW v \in victim[p] \cap Present(p), WriteRow(p, v, Tail(old_value[p]))
      PROVE  BoundInv'
  <2>1. v \in Key /\ v \in victim[p]
    BY DEF Present
  <2>2. old_value[p] \in Seq(Nat) /\ old_value[p] # <<>>
    BY <1>1, <2>1 DEF TypeOK, CacheInv, OwnDrafts
  <2>3. Tail(old_value[p]) \in Seq(Nat) /\ Len(Tail(old_value[p])) = Len(old_value[p]) - 1
    BY <2>2, HeadTailProperties
  <2>4. PICK r : r = [value |-> Tail(old_value[p]), updated_at |-> started[p]]
    OBVIOUS
  <2>5. r # Clean /\ r.value = Tail(old_value[p])
    BY <1>1, <2>3, <2>4, WrittenRow
  <2>6. PICK n \in Nat : Len(old_value[p]) = n + 1 /\ Len(r.value) = n
    <3>1. Len(old_value[p]) \in Nat \ {0}
      BY <2>2, LenProperties, EmptySeq
    <3>2. Len(old_value[p]) - 1 \in Nat /\ Len(old_value[p]) = (Len(old_value[p]) - 1) + 1
      BY <3>1
    <3>3. QED
      BY <2>3, <2>5, <3>2
  <2>7. draft' = [draft EXCEPT ![p][v] = r]
    BY <1>5, <2>4 DEF WriteRow
  <2>8. /\ draft'[p][v] = r /\ \A k \in Key \ {v} : draft'[p][k] = draft[p][k]
        /\ \A q \in Replica \ {p} : draft'[q] = draft[q]
    BY <1>1, <2>1, <2>7 DEF TypeOK
  <2>9. Elsewhere(p)
    BY <1>2, <1>3, <2>8 DEF Elsewhere
  <2>10. ASSUME NEW j \in Key, NEW i \in Nat \ {0}, Reaches(p, j, i)' PROVE Taken(j, i)
    <3>1. draft'[p][j] # Clean /\ i <= Len(draft'[p][j].value) - (IF j = key[p] THEN 1 ELSE 0)
      BY <1>2, <1>3, <2>10 DEF Reaches
    <3>2. CASE j = v
      <4>1. i <= n - (IF j = key[p] THEN 1 ELSE 0)
        BY <2>6, <2>8, <3>1, <3>2
      <4>2. i < n + 1
        BY <4>1
      <4>3. Reaches(p, j, i)
        BY <1>1, <2>1, <2>6, <3>2, <4>2 DEF Reaches
      <4>4. QED
        BY <4>3 DEF Taken
    <3>3. CASE j # v
      BY <2>8, <3>1, <3>3 DEF Reaches, Taken
    <3>4. QED
      BY <3>2, <3>3
  <2>11. ASSUME ~overlap[p] PROVE Exact(p)'
    <3>1. /\ \E x : Visible(p) \subseteq Places(cache) \cup {x}
          /\ \E k \in Key : victim[p] = {k} /\ Seen(p, k).value = old_value[p]
      BY <1>1, <2>11 DEF BoundInv, Exact, Inserting
    <3>2. Seen(p, v).value = old_value[p]
      BY <2>1, <3>1
    <3>3. PICK rows, seen : rows = [k \in Key |-> Seen(p, k)] /\ seen = [k \in Key |-> Seen(p, k)']
      OBVIOUS
    <3>4. \A k \in Key : rows[k] = Seen(p, k) /\ seen[k] = IF k = v THEN r ELSE rows[k]
      BY <1>2, <2>5, <2>8, <3>3 DEF Seen
    <3>5. Visible(p) = Places(rows) /\ Visible(p)' = Places(seen) /\ Places(cache)' = Places(cache)
      BY <1>2, <3>3 DEF Visible, Places
    <3>6. Places(seen) \subseteq Places(rows) \ {<<v, n + 1>>} /\ <<v, n + 1>> \in Places(rows)
      <4>1. n + 1 = Len(rows[v].value) /\ Len(seen[v].value) = n /\ \A j \in Key \ {v} : seen[j] = rows[j]
        BY <2>1, <2>6, <3>2, <3>4
      <4>2. QED
        BY <2>1, <4>1, OneLess
    <3>7. /\ IsFiniteSet(Places(rows)) /\ IsFiniteSet(Places(cache))
          /\ Cardinality(Places(rows)) \in Nat /\ Cardinality(Places(cache)) \in Nat
      BY <1>1, <3>5, FinitelyMany
    <3>8. Cardinality(Places(rows)) <= Cardinality(Places(cache)) + 1
      <4>1. PICK x : Places(rows) \subseteq Places(cache) \cup {x}
        BY <3>1, <3>5
      <4>2. /\ IsFiniteSet(Places(cache) \cup {x})
            /\ Cardinality(Places(cache) \cup {x}) <= Cardinality(Places(cache)) + 1
            /\ Cardinality(Places(cache) \cup {x}) \in Nat
        <5>1. /\ IsFiniteSet(Places(cache) \cup {x})
              /\ \/ Cardinality(Places(cache) \cup {x}) = Cardinality(Places(cache))
                 \/ Cardinality(Places(cache) \cup {x}) = Cardinality(Places(cache)) + 1
          BY <3>7, FS_AddElement, Zenon
        <5>2. QED
          BY <3>7, <5>1
      <4>3. Cardinality(Places(rows)) <= Cardinality(Places(cache) \cup {x})
        BY <4>1, <4>2, FS_Subset
      <4>4. QED
        BY <3>7, <4>2, <4>3
    <3>9. /\ IsFiniteSet(Places(rows) \ {<<v, n + 1>>})
          /\ Cardinality(Places(rows) \ {<<v, n + 1>>}) = Cardinality(Places(rows)) - 1
      BY <3>6, <3>7, FS_RemoveElement
    <3>10. /\ Cardinality(Places(seen)) <= Cardinality(Places(rows) \ {<<v, n + 1>>})
           /\ Cardinality(Places(seen)) \in Nat
      BY <3>6, <3>9, FS_Subset, FS_CardinalityType
    <3>11. Cardinality(Places(seen)) <= Cardinality(Places(cache))
      BY <3>7, <3>8, <3>9, <3>10
    <3>12. QED
      BY <1>3, <3>5, <3>11 DEF Exact
  <2>12. QED
    BY <1>1, <1>2, <1>3, <2>9, <2>10, <2>11, Within
<1>6. QED
  BY <1>4, <1>5 DEF cleanup_evict

\* Whoever ends a transaction leaves the others as they are.
LEMMA EndBound ==
    ASSUME TypeOK, BoundInv, NEW p \in Replica, Elsewhere(p), pc[p] # "idle", pc'[p] = "idle",
           overlap' = [overlap EXCEPT ![p] = FALSE], overlapped' \in Nat,
           IsFiniteSet(Slots'), Cardinality(Slots') <= capacity + overlapped'
    PROVE  BoundInv'
<1>1. overlap' \in [Replica -> BOOLEAN] /\ \A q \in Replica \ {p} : overlap'[q] = overlap[q]
  BY DEF BoundInv
<1>2. ASSUME NEW q \in Replica, pc'[q] \in Deleting, NEW k \in Key, draft'[q][k] # Clean
      PROVE  draft'[q][k].value = <<>>
  <2>1. q # p
    BY <1>2 DEF Deleting
  <2>2. QED
    BY <1>2, <2>1 DEF Elsewhere, BoundInv
<1>3. ASSUME NEW q \in Replica, pc'[q] # "idle" PROVE overlap'[q]
  BY <1>1, <1>3 DEF Elsewhere, BoundInv
<1>4. QED
  BY <1>1, <1>2, <1>3 DEF BoundInv

\* An end that takes no new place.
LEMMA EndWithin ==
    ASSUME TypeOK, BoundInv, NEW p \in Replica, Elsewhere(p), pc[p] # "idle", pc'[p] = "idle",
           overlap' = [overlap EXCEPT ![p] = FALSE], overlapped' = overlapped,
           \A k \in Key : draft'[p][k] = Clean,
           \A k \in Key : cache'[k] = cache[k] \/ cache'[k].value = <<>>
    PROVE  BoundInv'
<1>1. ASSUME NEW k \in Key, NEW i \in Nat \ {0} PROVE ~Reaches(p, k, i)'
  BY DEF Reaches
<1>2. ASSUME NEW k \in Key, NEW i \in Nat \ {0}, i <= Len(cache'[k].value) PROVE Taken(k, i)
  <2>1. cache'[k] = cache[k]
    BY <1>2
  <2>2. QED
    BY <1>2, <2>1 DEF Taken
<1>3. Slots' \subseteq Slots
  BY <1>1, <1>2, SlotsAfter
<1>4. /\ IsFiniteSet(Slots) /\ Cardinality(Slots) <= capacity + overlapped
      /\ overlapped \in Nat /\ capacity \in Nat
  BY CapacityAssumption DEF BoundInv
<1>5. IsFiniteSet(Slots') /\ Cardinality(Slots') <= Cardinality(Slots)
  BY <1>3, <1>4, FS_Subset
<1>6. Cardinality(Slots') \in Nat /\ Cardinality(Slots) \in Nat
  BY <1>4, <1>5, FS_CardinalityType
<1>7. Cardinality(Slots') <= capacity + overlapped'
  BY <1>4, <1>5, <1>6
<1>8. QED
  BY <1>4, <1>5, <1>7, EndBound

LEMMA RollbackBound ==
    ASSUME CacheInv, BoundInv, NEW p \in Replica, pc[p] # "idle", rollback(p)
    PROVE  BoundInv'
<1>1. Over(p) /\ cache' = cache /\ conversations' = conversations /\ log' = log
      /\ contended' = contended /\ overlapped' = overlapped /\ TypeOK
  BY DEF rollback, tables, CacheInv
<1>2. overlap' = [overlap EXCEPT ![p] = FALSE]
  BY <1>1 DEF Over
<1>3. cache' \in [Key -> Row] /\ conversations' \in [Key -> Nat \cup {NoRow}] /\ log' \in [Key -> Seq(Nat)]
  BY <1>1 DEF TypeOK
<1>4. Elsewhere(p) /\ pc'[p] = "idle" /\ \A k \in Key : draft'[p][k] = Clean
  BY <1>1, <1>3, Ended
<1>5. QED
  BY <1>1, <1>2, <1>4, EndWithin

\* What COMMIT leaves.
LEMMA Committed ==
    ASSUME CacheInv, NEW p \in Replica, Published(p), Over(p), contended' = contended,
           NEW s \in Seq(Nat), log' = [log EXCEPT ![key[p]] = s]
    PROVE  /\ Elsewhere(p) /\ pc'[p] = "idle" /\ overlap' = [overlap EXCEPT ![p] = FALSE]
           /\ \A k \in Key : draft'[p][k] = Clean /\ cache'[k] = Seen(p, k)
<1>1. TypeOK
  BY DEF CacheInv
<1>2. /\ \A j \in Key : cache'[j] = Seen(p, j)
      /\ cache' \in [Key -> Row] /\ conversations' \in [Key -> Nat \cup {NoRow}]
  BY <1>1, SeenTypes DEF Published
<1>3. log' \in [Key -> Seq(Nat)]
  BY <1>1 DEF TypeOK
<1>4. Elsewhere(p) /\ pc'[p] = "idle" /\ \A k \in Key : draft'[p][k] = Clean
  BY <1>1, <1>2, <1>3, Ended
<1>5. overlap' = [overlap EXCEPT ![p] = FALSE]
  BY DEF Over
<1>6. QED
  BY <1>2, <1>4, <1>5

LEMMA DeleteCommitBound == ASSUME CacheInv, BoundInv, NEW p \in Replica, delete_commit(p) PROVE BoundInv'
<1>1. /\ pc[p] = "delete_commit" /\ Published(p) /\ Over(p) /\ contended' = contended
      /\ overlapped' = overlapped /\ TypeOK
  BY DEF delete_commit, At, CacheInv
<1>2. PICK s \in Seq(Nat) : log' = [log EXCEPT ![key[p]] = s]
  BY EmptySeq DEF delete_commit
<1>3. /\ Elsewhere(p) /\ pc'[p] = "idle" /\ overlap' = [overlap EXCEPT ![p] = FALSE]
      /\ \A k \in Key : draft'[p][k] = Clean /\ cache'[k] = Seen(p, k)
  BY <1>1, <1>2, Committed
<1>4. \A k \in Key : draft[p][k] # Clean => draft[p][k].value = <<>>
  BY <1>1 DEF BoundInv, Deleting
<1>5. \A k \in Key : cache'[k] = cache[k] \/ cache'[k].value = <<>>
  BY <1>3, <1>4 DEF Seen
<1>6. QED
  BY <1>1, <1>3, <1>5, EndWithin

LEMMA CommitBound == ASSUME CacheInv, BoundInv, NEW p \in Replica, commit(p) PROVE BoundInv'
<1>1. /\ pc[p] = "commit" /\ Published(p) /\ Over(p) /\ contended' = contended
      /\ overlapped' = overlapped + (IF overlap[p] THEN 1 ELSE 0) /\ TypeOK
  BY DEF commit, At, CacheInv
<1>2. PICK s \in Seq(Nat) : log' = [log EXCEPT ![key[p]] = s]
  <2>1. key[p] \in Key /\ Append(log[key[p]], started[p]) \in Seq(Nat)
    BY DEF CacheInv, TypeOK
  <2>2. log' = [log EXCEPT ![key[p]] = Append(log[key[p]], started[p])]
    BY <2>1 DEF commit
  <2>3. QED
    BY <2>1, <2>2
<1>3. /\ Elsewhere(p) /\ pc'[p] = "idle" /\ overlap' = [overlap EXCEPT ![p] = FALSE]
      /\ \A k \in Key : draft'[p][k] = Clean /\ cache'[k] = Seen(p, k)
  BY <1>1, <1>2, Committed
<1>4. /\ IsFiniteSet(Slots) /\ Cardinality(Slots) \in Nat /\ Cardinality(Slots) <= capacity + overlapped
      /\ overlapped \in Nat /\ overlap \in [Replica -> BOOLEAN] /\ capacity \in Nat
  BY CapacityAssumption, FS_CardinalityType DEF BoundInv
<1>5. ASSUME NEW x \in Slots'
      PROVE  \/ x \in Visible(p)
             \/ \E q \in Replica \ {p} : \E k \in Key, i \in Nat \ {0} : x = <<k, i>> /\ Reaches(q, k, i)
  <2>1. PICK k \in Key, i \in Nat \ {0} : x = <<k, i>> /\ Taken(k, i)'
    BY DEF Slots
  <2>2. CASE i <= Len(cache'[k].value)
    <3>1. Len(Seen(p, k).value) \in Nat /\ i <= Len(Seen(p, k).value)
      BY <1>1, <1>3, <2>2, HasLength
    <3>2. i \in 1..Len(Seen(p, k).value)
      BY <3>1
    <3>3. QED
      BY <2>1, <3>2, VisiblePlace
  <2>3. ASSUME NEW q \in Replica, Reaches(q, k, i)' PROVE q # p /\ Reaches(q, k, i)
    <3>1. q # p
      BY <1>3, <2>3 DEF Reaches
    <3>2. QED
      BY <1>3, <2>3, <3>1 DEF Elsewhere, Reaches
  <2>4. QED
    BY <2>1, <2>2, <2>3 DEF Taken
<1>6. CASE overlap[p]
  <2>1. PICK x : Visible(p) \subseteq Slots \cup {x}
    BY <1>1, VisibleTaken
  <2>2. ASSUME NEW q \in Replica, NEW k \in Key, NEW i \in Nat \ {0}, Reaches(q, k, i)
        PROVE  <<k, i>> \in Slots
    BY <2>2, SlotOf DEF Taken
  <2>3. Slots' \subseteq Slots \cup {x}
    BY <1>5, <2>1, <2>2
  <2>4. /\ IsFiniteSet(Slots \cup {x})
        /\ \/ Cardinality(Slots \cup {x}) = Cardinality(Slots)
           \/ Cardinality(Slots \cup {x}) = Cardinality(Slots) + 1
    BY <1>4, FS_AddElement, Zenon
  <2>5. IsFiniteSet(Slots') /\ Cardinality(Slots') <= Cardinality(Slots \cup {x})
    BY <2>3, <2>4, FS_Subset
  <2>6. Cardinality(Slots') \in Nat
    BY <2>5, FS_CardinalityType
  <2>7. overlapped' = overlapped + 1
    BY <1>1, <1>6
  <2>8. Cardinality(Slots') <= capacity + overlapped' /\ overlapped' \in Nat
    BY <1>4, <2>4, <2>5, <2>6, <2>7
  <2>9. QED
    BY <1>1, <1>3, <2>5, <2>8, EndBound
<1>7. CASE ~overlap[p]
  <2>1. Exact(p) /\ \A q \in Replica \ {p} : pc[q] = "idle"
    BY <1>1, <1>7 DEF BoundInv
  <2>2. ASSUME NEW q \in Replica \ {p}, NEW k \in Key, NEW i \in Nat \ {0} PROVE ~Reaches(q, k, i)
    <3>1. draft[q][k] = Clean /\ pc[q] = "idle"
      BY <2>1, NoDrafts DEF Inserting, Deleting
    <3>2. QED
      BY <3>1 DEF Reaches
  <2>3. Slots' \subseteq Visible(p)
    BY <1>5, <2>2
  <2>4. /\ IsFiniteSet(Visible(p)) /\ Cardinality(Visible(p)) \in Nat
        /\ Cardinality(Places(cache)) \in Nat
    BY <1>1, FinitelyMany
  <2>5. IsFiniteSet(Slots') /\ Cardinality(Slots') <= Cardinality(Visible(p))
    BY <2>3, <2>4, FS_Subset
  <2>6. Cardinality(Slots') \in Nat
    BY <2>5, FS_CardinalityType
  <2>7. Cardinality(Places(cache)) <= Cardinality(Slots)
    BY <1>1, <1>4, StoredTaken, FS_Subset
  <2>8. \/ Cardinality(Visible(p)) <= capacity
        \/ Cardinality(Visible(p)) <= Cardinality(Places(cache))
    BY <1>1, <2>1 DEF Exact
  <2>9. overlapped' = overlapped
    BY <1>1, <1>4, <1>7
  <2>10. Cardinality(Slots') <= capacity + overlapped'
    BY <1>4, <2>4, <2>5, <2>6, <2>7, <2>8, <2>9
  <2>11. QED
    BY <1>1, <1>3, <1>4, <2>5, <2>9, <2>10, EndBound
<1>8. QED
  BY <1>6, <1>7

\* Only a transaction can be waited for.
LEMMA WaitedFor ==
    ASSUME CacheInv, NEW p \in Replica, Deadlocked(p)
    PROVE  pc[p] # "idle"
<1>1. PICK q \in Replica : p \in Blockers(q)
  BY DEF Deadlocked
<1>2. key[q] \in Key /\ victim[q] \subseteq Key
  BY DEF CacheInv, TypeOK
<1>3. \A k \in Key : p \in advisory_holders(k) => pc[p] # "idle"
  BY DEF advisory_holders
<1>4. \A k \in Key : p \in RowHolders(k) \cup MetaHolders(k) => pc[p] # "idle"
  BY NoDrafts DEF RowHolders, MetaHolders, Inserting, Deleting
<1>5. \E k \in Key : p \in advisory_holders(k) \cup RowHolders(k) \cup MetaHolders(k)
  <2> USE <1>1, <1>2
  <2>1. CASE pc[q] = "lock"
    BY <2>1 DEF Blockers
  <2>2. CASE pc[q] \in {"write", "delete_row"}
    BY <2>2 DEF Blockers
  <2>3. CASE pc[q] \in {"upsert", "delete_meta"}
    BY <2>3 DEF Blockers
  <2>4. CASE pc[q] = "evict"
    BY <2>4 DEF Blockers
  <2>5. CASE pc[q] \notin {"lock", "write", "delete_row", "upsert", "delete_meta", "evict"}
    BY <2>5 DEF Blockers
  <2>6. QED
    BY <2>1, <2>2, <2>3, <2>4, <2>5
<1>6. QED
  BY <1>3, <1>4, <1>5

LEMMA StartBound ==
    ASSUME CacheInv, BoundInv, NEW p \in Replica, NEW k \in Key, NEW label \in {"lock", "delete_row"},
           Start(p, k, label)
    PROVE  BoundInv'
<1> DEFINE busy == {q \in Replica : pc[q] # "idle"}
<1>1. /\ TypeOK /\ pc[p] = "idle" /\ Goto(p, label) /\ cache' = cache
      /\ key' = [key EXCEPT ![p] = k] /\ started' = [started EXCEPT ![p] = now']
      /\ old_value' = old_value /\ victim' = victim /\ draft' = draft /\ draft_meta' = draft_meta
      /\ overlapped' = overlapped
  BY DEF Start, tables, drafts, CacheInv
<1>2. overlap' = [q \in Replica |-> overlap[q] \/ (busy # {} /\ q \in busy \cup {p})]
  BY DEF Start
<1>3. pc'[p] = label /\ \A q \in Replica \ {p} : pc'[q] = pc[q]
  BY <1>1 DEF Goto, TypeOK
<1>4. Elsewhere(p)
  BY <1>1, <1>3 DEF Elsewhere, TypeOK
<1>5. \A j \in Key : draft'[p][j] = Clean
  BY <1>1, NoDrafts DEF Inserting, Deleting
<1>6. ASSUME NEW j \in Key, NEW i \in Nat \ {0} PROVE ~Reaches(p, j, i)'
  BY <1>3, <1>5 DEF Reaches
<1>7. \A j \in Key, i \in Nat \ {0} : i <= Len(cache'[j].value) => Taken(j, i)
  BY <1>1 DEF Taken
<1>8. Slots' \subseteq Slots
  BY <1>4, <1>6, <1>7, SlotsAfter
<1>9. /\ IsFiniteSet(Slots) /\ Cardinality(Slots) <= capacity + overlapped
      /\ overlapped \in Nat /\ capacity \in Nat
  BY CapacityAssumption DEF BoundInv
<1>10. IsFiniteSet(Slots') /\ Cardinality(Slots') <= Cardinality(Slots)
  BY <1>8, <1>9, FS_Subset
<1>11. Cardinality(Slots') \in Nat /\ Cardinality(Slots) \in Nat
  BY <1>9, <1>10, FS_CardinalityType
<1>12. Cardinality(Slots') <= capacity + overlapped'
  BY <1>1, <1>9, <1>10, <1>11
<1>13. overlap' \in [Replica -> BOOLEAN]
  BY <1>2 DEF BoundInv
<1>14. ASSUME NEW q \in Replica, pc'[q] \in Deleting, NEW j \in Key, draft'[q][j] # Clean
       PROVE  draft'[q][j].value = <<>>
  BY <1>1, <1>4, <1>5, <1>14 DEF Elsewhere, BoundInv
<1>15. ASSUME NEW q \in Replica, pc'[q] # "idle", ~overlap'[q]
       PROVE  Exact(q)' /\ \A r \in Replica \ {q} : pc'[r] = "idle"
  <2>1. ~(busy # {} /\ q \in busy \cup {p})
    BY <1>2, <1>15
  <2>2. q = p
    BY <1>3, <1>15, <2>1
  <2>3. busy = {}
    BY <2>1, <2>2
  <2>4. Exact(p)'
    BY <1>3 DEF Exact, Inserting
  <2>5. QED
    BY <1>3, <2>2, <2>3, <2>4
<1>16. QED
  BY <1>1, <1>9, <1>10, <1>12, <1>13, <1>14, <1>15 DEF BoundInv

\* What the bound is about does not change.
LEMMA BoundSame ==
    ASSUME BoundInv, cache' = cache, pc' = pc, key' = key, old_value' = old_value, victim' = victim,
           draft' = draft, overlap' = overlap, overlapped' = overlapped
    PROVE  BoundInv'
<1>1. \A p, k, i : Reaches(p, k, i)' <=> Reaches(p, k, i)
  BY DEF Reaches
<1>2. \A k, i : Taken(k, i)' <=> Taken(k, i)
  BY <1>1 DEF Taken
<1>3. Slots' = Slots
  BY <1>2 DEF Slots
<1>4. ASSUME NEW p \in Replica, Exact(p) PROVE Exact(p)'
  <2>1. Visible(p)' = Visible(p) /\ Places(cache)' = Places(cache) /\ \A k : Seen(p, k)' = Seen(p, k)
    BY VisibleSame
  <2>2. pc'[p] = pc[p] /\ key'[p] = key[p] /\ old_value'[p] = old_value[p] /\ victim'[p] = victim[p]
    OBVIOUS
  <2>3. pc[p] = "evict" => \E k \in Key : /\ victim'[p] = {k} /\ old_value'[p] # <<>>
                                          /\ Seen(p, k)'.value = old_value'[p]
    BY <1>4, <2>1 DEF Exact
  <2>4. (pc[p] = "write" => old_value'[p] = cache'[key'[p]].value)
    BY <1>4 DEF Exact
  <2>5. pc[p] \in Inserting \ {"commit"} => \E x : Visible(p)' \subseteq Places(cache)' \cup {x}
    BY <1>4, <2>1 DEF Exact
  <2>6. /\ pc[p] \in {"oldest", "evict"} => Cardinality(Visible(p)') > capacity
        /\ pc[p] = "commit" => \/ Cardinality(Visible(p)') <= capacity
                               \/ Cardinality(Visible(p)') <= Cardinality(Places(cache)')
    BY <1>4, <2>1 DEF Exact
  <2>7. QED
    BY <2>2, <2>3, <2>4, <2>5, <2>6 DEF Exact
<1>5. QED
  BY <1>3, <1>4 DEF BoundInv

LEMMA BoundInit == Init => BoundInv
<1> SUFFICES ASSUME Init PROVE BoundInv
  OBVIOUS
<1>1. \A k \in Key : Len(cache[k].value) = 0
  BY DEF Init, Empty
<1>2. \A p \in Replica : pc[p] = "idle" /\ overlap[p] = FALSE /\ \A k \in Key : draft[p][k] = Clean
  BY DEF Init, Untouched
<1>3. \A p \in Replica, k \in Key, i \in Nat \ {0} : ~Reaches(p, k, i)
  BY <1>2 DEF Reaches
<1>4. \A k \in Key, i \in Nat \ {0} : ~Taken(k, i)
  BY <1>1, <1>3 DEF Taken
<1>5. Slots = {}
  BY <1>4, SlotOf
<1>6. overlapped = 0 /\ overlap \in [Replica -> BOOLEAN]
  BY DEF Init
<1>7. IsFiniteSet(Slots) /\ Cardinality(Slots) <= capacity + overlapped
  BY <1>5, <1>6, FS_EmptySet, CapacityAssumption
<1>8. QED
  BY <1>2, <1>6, <1>7 DEF BoundInv, Deleting

LEMMA BoundNext == CacheInv /\ BoundInv /\ [Next]_vars => BoundInv'
<1> SUFFICES ASSUME CacheInv, BoundInv, [Next]_vars PROVE BoundInv'
  OBVIOUS
<1>1. CASE UNCHANGED vars
  BY <1>1, BoundSame DEF vars, tables, locals, drafts, ghosts
<1>2. ASSUME NEW p \in Replica, Step(p) PROVE BoundInv'
  BY <1>2, LockBound, SelectBound, UpdateBound, InsertBound, UpsertBound, CountBound, OldestBound,
     EvictBound, CommitBound, DeleteRowBound, DeleteMetadataBound, DeleteCommitBound DEF Step
<1>3. ASSUME NEW p \in Replica, deadlock_detected(p) \/ connection_lost(p) \/ decode_error(p) PROVE BoundInv'
  BY <1>3, RollbackBound, WaitedFor DEF deadlock_detected, connection_lost, decode_error
<1>4. ASSUME NEW p \in Replica, NEW k \in Key, insert_or_append(p, k) \/ delete(p, k) PROVE BoundInv'
  BY <1>4, StartBound DEF insert_or_append, delete
<1>5. ASSUME NEW p \in Replica, NEW k \in Key, set_topic_summary(p, k) PROVE BoundInv'
  BY <1>5, BoundSame DEF set_topic_summary, locals, drafts, ghosts
<1>6. QED
  BY <1>1, <1>2, <1>3, <1>4, <1>5 DEF Next

\* Counting the entries in one statement, giving up one per insert and
\* taking no lock that covers both keeps the table within its capacity all the
\* same, for any number of replicas, conversations and operations, but for one
\* entry for each committed insert that overlapped another operation.
THEOREM OvershootWithinBound == Spec => []OvershootBounded
<1>1. TypeOK /\ BoundInv => OvershootBounded
  <2> SUFFICES ASSUME TypeOK, BoundInv PROVE OvershootBounded
    OBVIOUS
  <2>1. /\ IsFiniteSet(Slots) /\ Cardinality(Slots) <= capacity + overlapped
        /\ overlapped \in Nat /\ capacity \in Nat
    BY CapacityAssumption DEF BoundInv
  <2>2. IsFiniteSet(Places(cache)) /\ Cardinality(Places(cache)) <= Cardinality(Slots)
    BY <2>1, StoredTaken, FS_Subset
  <2>3. Cardinality(Places(cache)) \in Nat /\ Cardinality(Slots) \in Nat
    BY <2>1, <2>2, FS_CardinalityType
  <2>4. Cardinality(Places(cache)) <= capacity + overlapped
    BY <2>1, <2>2, <2>3
  <2>5. QED
    BY <2>4 DEF OvershootBounded
<1>2. CacheInv => TypeOK
  BY DEF CacheInv
<1>3. QED
  BY <1>1, <1>2, BoundInit, BoundNext, CacheInvAlways, PTL DEF Spec

-----------------------------------------------------------------------------
(* Waiting *)

\* Any number of replicas wait for operations under way only, and never in a
\* circle without a clean-up: before a transaction writes a table it holds
\* nothing of it (OwnDrafts), so whoever waits for the advisory lock, a row or
\* metadata of its own conversation waits for somebody further on.
THEOREM WaitsAreShort == Spec => []WaitsEnd
<1>1. CacheInv => WaitsEnd
  <2> SUFFICES ASSUME CacheInv PROVE WaitsEnd
    OBVIOUS
  <2>1. TypeOK /\ \A p \in Replica : OwnDrafts(p)
    BY DEF CacheInv
  <2>2. \A p \in Replica, k \in Key :
           /\ p \in RowHolders(k) => pc[p] \in Inserting \cup Deleting
           /\ p \in MetaHolders(k) => pc[p] \in {"count", "oldest", "evict", "commit", "delete_commit"}
    BY <2>1 DEF OwnDrafts, RowHolders, MetaHolders, Inserting
  <2>3. \A k \in Key : \A p \in RowHolders(k) \cup MetaHolders(k) : pc[p] # "idle"
    BY <2>2 DEF RowHolders, MetaHolders, Inserting, Deleting
  <2>4. ASSUME NEW S \in SUBSET Replica, S # {}, UNION {Blockers(p) : p \in S} = S,
               \A p \in S : pc[p] # "evict"
        PROVE  FALSE
    <3>1. \A q \in S : \E p \in S : q \in Blockers(p)
      BY <2>4
    <3>2. \A p \in S : key[p] \in Key
      BY <2>1 DEF TypeOK
    <3>3. \A p \in S : \A q \in Blockers(p) :
             \/ pc[p] = "lock" /\ pc[q] \in {"select", "write", "upsert", "count", "oldest", "evict", "commit"}
             \/ pc[p] \in {"write", "delete_row"} /\ pc[q] \in Inserting \cup Deleting
             \/ /\ pc[p] \in {"upsert", "delete_meta"}
                /\ pc[q] \in {"count", "oldest", "evict", "commit", "delete_commit"}
      <4> SUFFICES ASSUME NEW p \in S, NEW q \in Blockers(p)
                   PROVE  \/ pc[p] = "lock" /\ pc[q] \in {"select", "write", "upsert", "count", "oldest", "evict", "commit"}
                          \/ pc[p] \in {"write", "delete_row"} /\ pc[q] \in Inserting \cup Deleting
                          \/ /\ pc[p] \in {"upsert", "delete_meta"}
                             /\ pc[q] \in {"count", "oldest", "evict", "commit", "delete_commit"}
        OBVIOUS
      <4>1. key[p] \in Key /\ pc[p] # "evict"
        BY <2>4, <3>2
      <4>2. CASE pc[p] = "lock"
        BY <4>2 DEF Blockers, advisory_holders
      <4>3. CASE pc[p] \in {"write", "delete_row"}
        BY <2>2, <4>1, <4>3 DEF Blockers, RowHolders
      <4>4. CASE pc[p] \in {"upsert", "delete_meta"}
        BY <2>2, <4>1, <4>4 DEF Blockers, MetaHolders
      <4>5. CASE pc[p] \notin {"lock", "write", "delete_row", "upsert", "delete_meta", "evict"}
        BY <4>5 DEF Blockers
      <4>6. QED
        BY <4>1, <4>2, <4>3, <4>4, <4>5
    <3>4. \A p \in S : pc[p] \in {"lock", "write", "delete_row", "upsert", "delete_meta"}
      BY <2>4, <3>1, <3>3 DEF Inserting, Deleting
    <3>5. \A q \in S : pc[q] # "lock"
      BY <3>1, <3>3 DEF Inserting, Deleting
    <3>6. \A q \in S : pc[q] \notin {"write", "delete_row"}
      BY <3>1, <3>3, <3>5 DEF Inserting, Deleting
    <3>7. \A q \in S : pc[q] \notin {"upsert", "delete_meta"}
      BY <3>1, <3>3, <3>5, <3>6
    <3>8. QED
      BY <2>4, <3>4, <3>5, <3>6, <3>7
  <2>5. QED
    BY <2>3, <2>4 DEF WaitsEnd
<1>2. QED
  BY <1>1, CacheInvAlways, PTL
=============================================================================
