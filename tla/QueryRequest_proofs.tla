------------------------ MODULE QueryRequest_proofs ------------------------
(***************************************************************************)
(* Guarantees of the endpoints for any users, tokens, filters and number   *)
(* of concurrent requests.                                                 *)
(*                                                                         *)
(* The properties speak of requests that are under way or over; what makes *)
(* them inductive is how far each request has come.  Identified says who   *)
(* it is served for, Told what its client was told and what was audited at *)
(* each place of the handlers, Durable what it has stored and paid for,    *)
(* Redacted which texts have been through the filters.                     *)
(***************************************************************************)
EXTENDS QueryRequest, SequenceTheorems, WellFoundedInduction, TLAPS

Processing == {"redact query", "attachments", "redact attachments", "validate",
               "check quota", "generate"}
Answering == {"stream", "store", "transcript", "consume", "complete"}
Label == Kind \cup Processing \cup Answering
              \cup {"set summary", "answer", "new", "auth", "client", "over", "gone"}
Processed == {"generate", "answer", "over", "gone"} \cup Answering
Served == Label \ {"new", "auth", "client", "over", "gone"}
Event == {"auth", "started", "completed", "failed"}

TypeOK ==
    /\ auth_module \in {"k8s", "noop", "noop-with-token"}
    /\ disable_auth \in BOOLEAN
    /\ pc \in [Request -> Label]
    /\ kind \in [Request -> Kind]
    /\ header \in [Request -> Token \cup {Nobody}]
    /\ user \in [Request -> Users \cup {Nobody}]
    /\ status \in [Request -> Nat]
    /\ sent \in [Request -> Seq({"start", "chunk", "end", "error"})]
    /\ audit \in [Request -> Seq(Event)]
    /\ done \in [Request -> SUBSET {"processed", "stored", "transcript", "consumed", "feedback"}]
    /\ turns \in [Users -> Nat]
    /\ listed \in SUBSET Users
    /\ existed \in SUBSET Users
    /\ transcripts_disabled \in BOOLEAN

\* A request under way is served for a user, whom authentication by Kubernetes
\* has let in.
IdentifiedRequest(r) ==
    pc[r] \in Served =>
        /\ user[r] \in Users
        /\ (auth_module = "k8s" /\ ~disable_auth) =>
              /\ header[r] \in Token
              /\ owner[header[r]] \in allowed
              /\ user[r] = uid(owner[header[r]])

Identified == \A r \in Request : IdentifiedRequest(r)

\* What the client of a request was told, and what was audited: for a request of
\* this kind at this place, with this status, stream and audit log, that has
\* finished these steps.  Until request_completed the log is not closed; the
\* answer is built behind it.
Consistent(place, k, reply, stream, events, finished) ==
    /\ place \in Kind => k = place
    /\ place \in Processing \cup Answering \cup {"answer"} => k \in Queries
    /\ place = "set summary" => k = "update"
    /\ place \notin Answering \cup {"answer", "over", "gone"} => reply = 0
    /\ place \in Answering \cup {"answer"} => reply = IF k = "streaming_query" THEN 200 ELSE 0
    /\ place # "over" => "error" \notin ToSet(stream)
    /\ place \notin {"answer", "over", "gone"} => Closing(events) = {}
    /\ place = "answer" => Closing(events) = {Len(events)} /\ events[Len(events)] = "completed"
    /\ "processed" \in finished => place \in Processed
    /\ \A i, j \in Closing(events) :
          i < j => k = "streaming_query" /\ events[i] = "completed" /\ events[j] = "failed"
    /\ (place = "over" /\ "processed" \in finished) =>
          \/ events[Len(events)] = IF reply = 200 /\ "error" \notin ToSet(stream)
                                     THEN "completed" ELSE "failed"
          \/ k # "streaming_query" /\ reply = 500 /\ events[Len(events)] = "completed"

ToldRequest(r) == Consistent(pc[r], kind[r], status[r], sent[r], audit[r], done[r])

Told == \A r \in Request : ToldRequest(r)

\* What a request has stored, transcribed and paid for.
StoredRequest(r) ==
    /\ pc[r] \in {"transcript", "consume", "complete", "answer"} => "stored" \in done[r]
    /\ pc[r] \in {"consume", "complete", "answer"} /\ ~transcripts_disabled => "transcript" \in done[r]
    /\ pc[r] \in {"complete", "answer"} => "consumed" \in done[r]
    /\ \A i \in DOMAIN audit[r] : audit[r][i] = "completed" =>
          /\ "stored" \in done[r]
          /\ "consumed" \in done[r]
          /\ ~transcripts_disabled => "transcript" \in done[r]

Durable == \A r \in Request : StoredRequest(r)

\* What is listed, has turns or is about to be listed had a turn at some time.
Existing ==
    /\ listed \subseteq existed
    /\ \A u \in Users : turns[u] > 0 => u \in existed
    /\ \A r \in Request : pc[r] = "set summary" => user[r] \in existed

QueryInv == TypeOK /\ Identified /\ Told /\ Durable /\ Existing

-----------------------------------------------------------------------------
(* Authentication *)

LEMMA AuthType ==
    ASSUME NEW h, NEW u \in Users, NEW a \in AuthDependency(h, u),
           a.status = 200, auth_module \in {"k8s", "noop", "noop-with-token"},
           disable_auth \in BOOLEAN
    PROVE  /\ a.user \in Users
           /\ (auth_module = "k8s" /\ ~disable_auth) =>
                /\ h \in Token
                /\ owner[h] \in allowed
                /\ a.user = uid(owner[h])
<1> USE DEF Admitted, Refused
<1>1. CASE disable_auth
  BY <1>1 DEF AuthDependency, Users
<1>2. CASE ~disable_auth /\ auth_module = "noop"
  BY <1>2 DEF AuthDependency, noop
<1>3. CASE ~disable_auth /\ auth_module = "noop-with-token"
  <2>1. a \in noop_with_token(h, u)
    BY <1>3 DEF AuthDependency
  <2>2. QED
    BY <1>3, <2>1 DEF noop_with_token
<1>4. CASE ~disable_auth /\ auth_module = "k8s"
  <2>1. a \in k8s(h)
    BY <1>4 DEF AuthDependency
  <2>2. h \in Token
    BY <2>1 DEF k8s
  <2>3. PICK v \in {owner[h], Nobody} :
            a \in IF v = Nobody THEN {Refused(403)}
                  ELSE {IF ok THEN Admitted(uid(v)) ELSE Refused(403) : ok \in {(v \in allowed), FALSE}}
    BY <2>1, <2>2 DEF k8s, get_user_info, subject_access_review
  <2>4. v # Nobody /\ v = owner[h]
    BY <2>3
  <2>5. PICK ok \in {(v \in allowed), FALSE} : a = IF ok THEN Admitted(uid(v)) ELSE Refused(403)
    BY <2>3, <2>4
  <2>6. v \in allowed /\ a = Admitted(uid(v))
    <3>1. CASE ok
      <4>1. v \in allowed
        BY <3>1, ZenonT(30)
      <4>2. QED
        BY <2>5, <3>1, <4>1
    <3>2. CASE ~ok
      <4>1. a = Refused(403)
        BY <2>5, <3>2, ZenonT(30)
      <4>2. QED
        BY <4>1
    <3>3. QED
      BY <3>1, <3>2
  <2>7. uid(v) \in Users
    BY <2>6, AuthAssumption DEF Users
  <2>8. QED
    BY <2>2, <2>4, <2>6, <2>7
<1>5. QED
  BY <1>1, <1>2, <1>3, <1>4

LEMMA AuthStatus ==
    ASSUME NEW h, NEW u, NEW a \in AuthDependency(h, u),
           auth_module \in {"k8s", "noop", "noop-with-token"}, disable_auth \in BOOLEAN
    PROVE  a.status \in Nat
<1> USE DEF Admitted, Refused
<1>1. CASE disable_auth
  BY <1>1 DEF AuthDependency
<1>2. CASE ~disable_auth /\ auth_module = "noop"
  BY <1>2 DEF AuthDependency, noop
<1>3. CASE ~disable_auth /\ auth_module = "noop-with-token"
  <2>1. a \in noop_with_token(h, u)
    BY <1>3 DEF AuthDependency
  <2>2. QED
    BY <2>1 DEF noop_with_token
<1>4. CASE ~disable_auth /\ auth_module = "k8s"
  <2>1. a \in k8s(h)
    BY <1>4 DEF AuthDependency
  <2>2. CASE a = Refused(401) \/ a = Refused(500)
    BY <2>2
  <2>3. CASE ~(a = Refused(401) \/ a = Refused(500))
    <3>1. PICK v \in {owner[h], Nobody} :
              a \in IF v = Nobody THEN {Refused(403)}
                    ELSE {IF ok THEN Admitted(uid(v)) ELSE Refused(403) : ok \in {(v \in allowed), FALSE}}
      BY <2>1, <2>3 DEF k8s, get_user_info, subject_access_review
    <3>2. a = Refused(403) \/ a = Admitted(uid(v))
      BY <3>1, Zenon
    <3>3. QED
      BY <3>2
  <2>4. QED
    BY <2>2, <2>3
<1>5. QED
  BY <1>1, <1>2, <1>3, <1>4

-----------------------------------------------------------------------------
(* The audit log and the stream *)

LEMMA ClosingExtended ==
    ASSUME NEW a \in Seq(Event), NEW e \in Event
    PROVE  /\ a \o <<e>> \in Seq(Event) /\ Len(a) \in Nat
           /\ Len(a \o <<e>>) = Len(a) + 1 /\ (a \o <<e>>)[Len(a) + 1] = e
           /\ e \notin {"completed", "failed"} => Closing(a \o <<e>>) = Closing(a)
           /\ e \in {"completed", "failed"} => Closing(a \o <<e>>) = Closing(a) \cup {Len(a) + 1}
           /\ Closing(a) \subseteq 1..Len(a)
           /\ \A i \in 1..Len(a) : (a \o <<e>>)[i] = a[i]
           /\ DOMAIN (a \o <<e>>) = 1..(Len(a) + 1) /\ DOMAIN a = 1..Len(a)
<1> DEFINE b == a \o <<e>>
<1>1. b \in Seq(Event) /\ Len(b) = Len(a) + 1 /\ Len(a) \in Nat
  OBVIOUS
<1>2. \A i \in 1..Len(a) : b[i] = a[i]
  OBVIOUS
<1>3. b[Len(a) + 1] = e
  OBVIOUS
<1>4. DOMAIN b = 1..(Len(a) + 1) /\ DOMAIN a = 1..Len(a)
  BY <1>1
<1> HIDE DEF b
<1>5. Closing(b) = Closing(a) \cup {i \in {Len(a) + 1} : e \in {"completed", "failed"}}
  BY <1>1, <1>2, <1>3, <1>4 DEF Closing
<1>6. Closing(a) \subseteq 1..Len(a)
  BY <1>4 DEF Closing
<1>7. QED
  BY <1>1, <1>2, <1>3, <1>4, <1>5, <1>6 DEF b

StreamEvent == {"start", "chunk", "end", "error"}

LEMMA SentExtended ==
    ASSUME NEW s \in Seq(StreamEvent), NEW e \in StreamEvent
    PROVE  /\ Append(s, e) \in Seq(StreamEvent)
           /\ "error" \in ToSet(Append(s, e)) <=> ("error" \in ToSet(s) \/ e = "error")
<1> DEFINE b == Append(s, e)
<1>1. b \in Seq(StreamEvent) /\ Len(b) = Len(s) + 1 /\ Len(s) \in Nat
  OBVIOUS
<1>2. (\A i \in 1..Len(s) : b[i] = s[i]) /\ b[Len(s) + 1] = e
  OBVIOUS
<1>3. DOMAIN b = 1..(Len(s) + 1) /\ DOMAIN s = 1..Len(s)
  BY <1>1
<1> HIDE DEF b
<1>4. ToSet(b) = ToSet(s) \cup {e}
  BY <1>1, <1>2, <1>3 DEF ToSet
<1>5. QED
  BY <1>1, <1>4 DEF b

-----------------------------------------------------------------------------
(* One request moves, the others stay: the invariant holds again if it does for the one. *)

Same(q) ==
    /\ pc'[q] = pc[q] /\ kind'[q] = kind[q] /\ header'[q] = header[q] /\ user'[q] = user[q]
    /\ status'[q] = status[q] /\ sent'[q] = sent[q] /\ audit'[q] = audit[q] /\ done'[q] = done[q]

Settings == <<auth_module, disable_auth, transcripts_disabled>>

LEMMA LocalStep ==
    ASSUME QueryInv, NEW r \in Request, UNCHANGED Settings, TypeOK', Existing',
           \A q \in Request \ {r} : Same(q),
           IdentifiedRequest(r)', ToldRequest(r)', StoredRequest(r)'
    PROVE  QueryInv'
<1>1. ASSUME NEW q \in Request \ {r}
      PROVE  IdentifiedRequest(q)' /\ ToldRequest(q)' /\ StoredRequest(q)'
  <2>1. IdentifiedRequest(q)'
    BY DEF QueryInv, Identified, IdentifiedRequest, Same, Settings
  <2>2. ToldRequest(q)'
    BY DEF QueryInv, Told, ToldRequest, Same
  <2>3. StoredRequest(q)'
    BY DEF QueryInv, Durable, StoredRequest, Same, Settings
  <2>4. QED
    BY <2>1, <2>2, <2>3
<1>2. QED
  BY <1>1 DEF QueryInv, Identified, Told, Durable

\* What a request whose audit log is not closed has not done yet.
LEMMA NotOver ==
    ASSUME QueryInv, NEW r \in Request, pc[r] \notin {"answer", "over", "gone"}
    PROVE  /\ Closing(audit[r]) = {}
           /\ "error" \notin ToSet(sent[r])
           /\ \A i \in DOMAIN audit[r] : audit[r][i] # "completed"
<1>1. ToldRequest(r)
  BY DEF QueryInv, Told
<1>2. Closing(audit[r]) = {} /\ "error" \notin ToSet(sent[r])
  BY <1>1 DEF ToldRequest, Consistent
<1>3. QED
  BY <1>2 DEF Closing

\* A request that has not got past process_request.
LEMMA Unprocessed ==
    ASSUME QueryInv, NEW r \in Request, pc[r] \notin Processed
    PROVE  "processed" \notin done[r] /\ pc[r] \notin {"answer", "over", "gone"}
  BY DEF QueryInv, Told, ToldRequest, Consistent, Processed

quiet == <<Settings, kind, sent, audit, done, cache>>

\* A refusal: no audit event, and nothing done.
LEMMA Refuses ==
    ASSUME QueryInv, NEW r \in Request, NEW s \in Nat \ {200}, pc[r] \notin Processed,
           Replies(r, s), UNCHANGED quiet
    PROVE  QueryInv'
<1> USE DEF Replies, Leaves, To, quiet, cache, Settings
<1>1. TypeOK'
  BY DEF QueryInv, TypeOK, Label
<1>2. Existing'
  BY DEF QueryInv, TypeOK, Existing
<1>3. \A q \in Request \ {r} : Same(q)
  BY DEF QueryInv, TypeOK, Same
<1>4. pc'[r] = "over" /\ status'[r] = s /\ audit'[r] = audit[r] /\ sent'[r] = sent[r] /\ done'[r] = done[r]
  BY DEF QueryInv, TypeOK
<1>5. IdentifiedRequest(r)'
  BY <1>4 DEF IdentifiedRequest, Served
<1>6. ToldRequest(r)'
  BY <1>4, NotOver, Unprocessed DEF ToldRequest, Consistent, Kind, Queries, Processing, Answering
<1>7. StoredRequest(r)'
  BY <1>4, NotOver, Unprocessed DEF StoredRequest
<1>8. QED
  BY <1>1, <1>2, <1>3, <1>5, <1>6, <1>7, LocalStep

\* An error once process_request is over: audited, and answered by a status or,
\* if the stream has begun, by an event.
LEMMA Fails ==
    ASSUME QueryInv, NEW r \in Request, NEW s \in Nat \ {200},
           pc[r] \in {"generate", "answer"} \cup Answering,
           pc[r] = "answer" => kind[r] = "streaming_query",
           fails(r, s), UNCHANGED <<Settings, kind, done, cache>>
    PROVE  QueryInv'
<1>1. pc[r] # "over" /\ kind[r] \in Queries
  BY DEF QueryInv, Told, ToldRequest, Consistent, Answering, Processing
<1>2. Leaves(r, "over")
  BY DEF fails, Replies
<1>3. \A q \in Request \ {r} : pc'[q] = pc[q] /\ header'[q] = header[q] /\ user'[q] = user[q]
  BY <1>2 DEF Leaves, To, QueryInv, TypeOK
<1>4. pc'[r] = "over" /\ kind'[r] = kind[r] /\ done'[r] = done[r]
  BY <1>2 DEF Leaves, To, QueryInv, TypeOK
<1> DEFINE log == audit[r] \o <<"failed">>
<1>5. /\ log \in Seq(Event)
      /\ log[Len(log)] = "failed"
      /\ \A i, j \in Closing(log) :
            i < j => kind[r] = "streaming_query" /\ log[i] = "completed" /\ log[j] = "failed"
      /\ \A i \in DOMAIN log : log[i] = "completed" => i \in DOMAIN audit[r] /\ audit[r][i] = "completed"
  <2>1. audit[r] \in Seq(Event) /\ "failed" \in Event
    BY DEF QueryInv, TypeOK, Event
  <2>2. PICK n \in Nat : n = Len(audit[r])
    BY <2>1
  <2>3. /\ log \in Seq(Event) /\ Len(log) = n + 1 /\ log[n + 1] = "failed"
        /\ Closing(log) = Closing(audit[r]) \cup {n + 1}
        /\ Closing(audit[r]) \subseteq 1..n
        /\ \A i \in 1..n : log[i] = audit[r][i]
        /\ DOMAIN log = 1..(n + 1) /\ DOMAIN audit[r] = 1..n
    <3>1. PICK a \in Seq(Event) : a = audit[r]
      BY <2>1
    <3>2. QED
      BY <2>1, <2>2, <3>1, ClosingExtended
  <2>4. \/ Closing(audit[r]) = {}
        \/ pc[r] = "answer" /\ Closing(audit[r]) = {n} /\ audit[r][n] = "completed"
    <3>1. CASE pc[r] = "answer"
      <4>1. ToldRequest(r)
        BY DEF QueryInv, Told
      <4>2. QED
        BY <2>2, <3>1, <4>1 DEF ToldRequest, Consistent
    <3>2. CASE pc[r] # "answer"
      BY <3>2, NotOver DEF Answering
    <3>3. QED
      BY <3>1, <3>2
  <2> HIDE DEF log
  <2>5. QED
    BY <2>3, <2>4
<1>6. audit' = [audit EXCEPT ![r] = log]
  BY DEF fails, Audits
<1> HIDE DEF log
<1>7. /\ audit' \in [Request -> Seq(Event)]
      /\ audit'[r] = log
      /\ \A q \in Request \ {r} : audit'[q] = audit[q]
  BY <1>5, <1>6 DEF QueryInv, TypeOK
<1>8. /\ status' \in [Request -> Nat] /\ sent' \in [Request -> Seq(StreamEvent)]
      /\ \A q \in Request \ {r} : status'[q] = status[q] /\ sent'[q] = sent[q]
      /\ ~(status'[r] = 200 /\ "error" \notin ToSet(sent'[r]))
  <2>1. CASE status[r] = 200
    <3>1. UNCHANGED status /\ sent' = [sent EXCEPT ![r] = Append(sent[r], "error")]
      BY <2>1 DEF fails, generic_llm_error
    <3>2. /\ Append(sent[r], "error") \in Seq(StreamEvent)
          /\ "error" \in ToSet(Append(sent[r], "error"))
      BY SentExtended DEF QueryInv, TypeOK, StreamEvent
    <3>3. QED
      BY <3>1, <3>2 DEF QueryInv, TypeOK, StreamEvent
  <2>2. CASE status[r] # 200
    <3>1. UNCHANGED sent /\ status' = [status EXCEPT ![r] = s]
      BY <2>2 DEF fails, Replies
    <3>2. QED
      BY <3>1 DEF QueryInv, TypeOK, StreamEvent
  <2>3. QED
    BY <2>1, <2>2
<1>9. TypeOK'
  BY <1>2, <1>7, <1>8 DEF Leaves, To, Label, cache, Settings, QueryInv, TypeOK, StreamEvent
<1>10. \A q \in Request \ {r} : Same(q)
  BY <1>3, <1>7, <1>8 DEF Same
<1>11. Existing'
  BY <1>3, <1>4 DEF cache, QueryInv, Existing
<1>12. IdentifiedRequest(r)'
  BY <1>4 DEF IdentifiedRequest, Served
<1>13. ToldRequest(r)'
  BY <1>4, <1>5, <1>7, <1>8
  DEF ToldRequest, Consistent, Kind, Queries, Processing, Answering, Processed
<1>14. StoredRequest(r)'
  BY <1>4, <1>5, <1>7 DEF StoredRequest, QueryInv, Durable, Settings
<1>15. QED
  BY <1>9, <1>10, <1>11, <1>12, <1>13, <1>14, LocalStep DEF Settings

\* The answer to a query that was audited as completed.
LEMMA Replied ==
    ASSUME QueryInv, NEW r \in Request, pc[r] = "answer", Leaves(r, "over"),
           UNCHANGED <<Settings, kind, audit, done, cache>>,
           status' \in [Request -> Nat], sent' \in [Request -> Seq(StreamEvent)],
           \A q \in Request \ {r} : status'[q] = status[q] /\ sent'[q] = sent[q],
           \/ status'[r] = 200 /\ "error" \notin ToSet(sent'[r])
           \/ status'[r] = 500 /\ kind[r] # "streaming_query"
    PROVE  QueryInv'
<1>1. /\ Closing(audit[r]) = {Len(audit[r])} /\ audit[r][Len(audit[r])] = "completed"
      /\ audit[r] \in Seq(Event)
  <2>1. ToldRequest(r) /\ audit[r] \in Seq(Event)
    BY DEF QueryInv, Told, TypeOK
  <2>2. QED
    BY <2>1 DEF ToldRequest, Consistent
<1>2. \A q \in Request \ {r} : pc'[q] = pc[q] /\ header'[q] = header[q] /\ user'[q] = user[q]
  BY DEF Leaves, To, QueryInv, TypeOK
<1>3. pc'[r] = "over" /\ kind'[r] = kind[r] /\ done'[r] = done[r] /\ audit'[r] = audit[r]
  BY DEF Leaves, To, QueryInv, TypeOK
<1>4. TypeOK'
  <2>1. "over" \in Label
    BY DEF Label
  <2>2. UNCHANGED <<auth_module, disable_auth, transcripts_disabled, turns, listed, existed>>
    BY DEF cache, Settings
  <2>3. UNCHANGED <<kind, audit, done>>
    OBVIOUS
  <2>4. /\ pc' \in [Request -> Label] /\ header' \in [Request -> Token \cup {Nobody}]
        /\ user' \in [Request -> Users \cup {Nobody}]
    BY <2>1 DEF Leaves, To, QueryInv, TypeOK
  <2>5. QED
    BY <2>2, <2>3, <2>4 DEF QueryInv, TypeOK, StreamEvent
<1>5. \A q \in Request \ {r} : Same(q)
  BY <1>2 DEF Same
<1>6. Existing'
  <2>1. UNCHANGED <<turns, listed, existed>>
    BY DEF cache
  <2>2. Existing
    BY DEF QueryInv
  <2>3. listed' \subseteq existed' /\ \A u \in Users : turns'[u] > 0 => u \in existed'
    BY <2>1, <2>2 DEF Existing
  <2>4. ASSUME NEW q \in Request, pc'[q] = "set summary" PROVE user'[q] \in existed'
    <3>1. q \in Request \ {r}
      BY <1>3, <2>4
    <3>2. pc[q] = "set summary" /\ user'[q] = user[q]
      BY <1>2, <2>4, <3>1, Zenon
    <3>3. user[q] \in existed
      BY <2>2, <3>2 DEF Existing
    <3>4. QED
      BY <2>1, <3>2, <3>3
  <2>5. QED
    BY <2>3, <2>4 DEF Existing
<1>7. IdentifiedRequest(r)'
  BY <1>3 DEF IdentifiedRequest, Served
<1>8. ToldRequest(r)'
  BY <1>1, <1>3 DEF ToldRequest, Consistent, Kind, Queries, Processing, Answering, Processed
<1>9. StoredRequest(r)'
  BY <1>3 DEF StoredRequest, QueryInv, Durable, Settings
<1>10. QED
  BY <1>4, <1>5, <1>6, <1>7, <1>8, <1>9, LocalStep DEF Settings

LEMMA AnswerStep ==
    ASSUME QueryInv, NEW r \in Request, answer(r)
    PROVE  QueryInv'
<1>1. pc[r] = "answer" /\ UNCHANGED <<Settings, kind, done, cache>>
  BY DEF answer, At, answering, auth_vars, conf, Settings
<1>2. /\ status[r] = IF kind[r] = "streaming_query" THEN 200 ELSE 0
      /\ "error" \notin ToSet(sent[r])
  BY <1>1 DEF QueryInv, Told, ToldRequest, Consistent, Answering
<1>3. CASE Streaming(r) /\ fails(r, 500)
  BY <1>1, <1>3, Fails DEF Streaming
<1>4. CASE ~Streaming(r) /\ Replies(r, 500) /\ UNCHANGED <<audit, sent>>
  <2>1. Leaves(r, "over") /\ status' = [status EXCEPT ![r] = 500]
    BY <1>4 DEF Replies
  <2>2. /\ status' \in [Request -> Nat] /\ sent' \in [Request -> Seq(StreamEvent)]
        /\ \A q \in Request \ {r} : status'[q] = status[q] /\ sent'[q] = sent[q]
        /\ status'[r] = 500
    BY <1>4, <2>1 DEF QueryInv, TypeOK, StreamEvent
  <2>3. QED
    BY <1>1, <1>4, <2>1, <2>2, Replied DEF Streaming
<1>5. CASE Answers(r) /\ UNCHANGED audit
  <2>1. Leaves(r, "over")
    BY <1>5 DEF Answers, Replies
  <2>2. /\ status' \in [Request -> Nat] /\ sent' \in [Request -> Seq(StreamEvent)]
        /\ \A q \in Request \ {r} : status'[q] = status[q] /\ sent'[q] = sent[q]
        /\ status'[r] = 200 /\ "error" \notin ToSet(sent'[r])
    <3>1. CASE Streaming(r)
      <4>1. UNCHANGED status /\ sent' = [sent EXCEPT ![r] = Append(sent[r], "end")]
        BY <1>5, <3>1 DEF Answers
      <4>2. /\ Append(sent[r], "end") \in Seq(StreamEvent)
            /\ "error" \notin ToSet(Append(sent[r], "end"))
        BY <1>2, SentExtended DEF QueryInv, TypeOK, StreamEvent
      <4>3. QED
        BY <1>2, <3>1, <4>1, <4>2 DEF QueryInv, TypeOK, StreamEvent, Streaming
    <3>2. CASE ~Streaming(r)
      <4>1. UNCHANGED sent /\ status' = [status EXCEPT ![r] = 200]
        BY <1>5, <3>2 DEF Answers, Replies
      <4>2. QED
        BY <1>2, <4>1 DEF QueryInv, TypeOK, StreamEvent
    <3>3. QED
      BY <3>1, <3>2
  <2>3. QED
    BY <1>1, <1>5, <2>1, <2>2, Replied
<1>6. QED
  BY <1>3, <1>4, <1>5 DEF answer

\* request_completed: the audit log is closed, and the answer comes next.
LEMMA Completes ==
    ASSUME QueryInv, NEW r \in Request, pc[r] = "complete", Stays(r, "answer"),
           Audits(r, <<"completed">>), UNCHANGED <<Settings, kind, status, sent, done, cache>>
    PROVE  QueryInv'
<1>1. /\ kind[r] \in Queries /\ status[r] = IF kind[r] = "streaming_query" THEN 200 ELSE 0
      /\ "error" \notin ToSet(sent[r])
  BY DEF QueryInv, Told, ToldRequest, Consistent, Answering
<1>2. \A q \in Request \ {r} : pc'[q] = pc[q] /\ header'[q] = header[q] /\ user'[q] = user[q]
  BY DEF Stays, To, QueryInv, TypeOK
<1>3. pc'[r] = "answer" /\ UNCHANGED <<header, user>>
  BY DEF Stays, To, QueryInv, TypeOK
<1> DEFINE log == audit[r] \o <<"completed">>
<1>4. /\ log \in Seq(Event)
      /\ Closing(log) = {Len(log)}
      /\ log[Len(log)] = "completed" /\ Len(log) \in Nat
  <2>1. audit[r] \in Seq(Event) /\ "completed" \in Event /\ Closing(audit[r]) = {}
    BY NotOver DEF QueryInv, TypeOK, Event
  <2>2. QED
    BY <2>1, ClosingExtended
<1>5. audit' = [audit EXCEPT ![r] = log]
  BY DEF Audits
<1> HIDE DEF log
<1>6. /\ audit' \in [Request -> Seq(Event)]
      /\ audit'[r] = log
      /\ \A q \in Request \ {r} : audit'[q] = audit[q]
  BY <1>4, <1>5 DEF QueryInv, TypeOK
<1>7. TypeOK'
  BY <1>3, <1>6 DEF Stays, To, Label, cache, Settings, QueryInv, TypeOK
<1>8. \A q \in Request \ {r} : Same(q)
  BY <1>2, <1>6 DEF Same
<1>9. Existing'
  BY <1>2, <1>3 DEF cache, QueryInv, Existing
<1>10. IdentifiedRequest(r)'
  <2>1. "complete" \in Served
    BY DEF Served, Label, Answering
  <2>2. QED
    BY <1>3, <2>1 DEF IdentifiedRequest, QueryInv, Identified, Settings
<1>11. ToldRequest(r)'
  BY <1>1, <1>3, <1>4, <1>6 DEF ToldRequest, Consistent, Kind, Queries, Processing, Answering, Processed
<1>12. StoredRequest(r)'
  BY <1>3 DEF StoredRequest, QueryInv, Durable, Settings
<1>13. QED
  BY <1>7, <1>8, <1>9, <1>10, <1>11, <1>12, LocalStep DEF Settings

CacheType == turns \in [Users -> Nat] /\ listed \in SUBSET Users /\ existed \in SUBSET Users
DoneType == done \in [Request -> SUBSET {"processed", "stored", "transcript", "consumed", "feedback"}]

\* The reply of an endpoint that is not a query.
LEMMA Serves ==
    ASSUME QueryInv, NEW r \in Request, NEW s \in Nat, pc[r] \notin Processed, kind[r] \notin Queries,
           Replies(r, s), UNCHANGED <<Settings, kind, sent, audit>>,
           DoneType', "processed" \in done'[r] => "processed" \in done[r],
           \A q \in Request \ {r} : done'[q] = done[q],
           CacheType', listed' \subseteq existed', \A u \in Users : turns'[u] > 0 => u \in existed',
           existed \subseteq existed'
    PROVE  QueryInv'
<1> USE DEF Replies, Leaves, To, Settings
<1>1. TypeOK'
  BY DEF QueryInv, TypeOK, Label, CacheType, DoneType
<1>2. pc'[r] = "over" /\ status'[r] = s /\ audit'[r] = audit[r] /\ sent'[r] = sent[r]
  BY DEF QueryInv, TypeOK
<1>3. \A q \in Request \ {r} : Same(q)
  BY DEF QueryInv, TypeOK, Same
<1>4. Existing'
  BY <1>2, <1>3 DEF QueryInv, Existing, Same
<1>5. IdentifiedRequest(r)'
  BY <1>2 DEF IdentifiedRequest, Served
<1>6. ToldRequest(r)'
  BY <1>2, NotOver, Unprocessed DEF ToldRequest, Consistent, Kind, Queries, Processing, Answering
<1>7. StoredRequest(r)'
  BY <1>2, NotOver, Unprocessed DEF StoredRequest
<1>8. QED
  BY <1>1, <1>3, <1>4, <1>5, <1>6, <1>7, LocalStep

\* A request goes on: it is served for the same user, and its client is told nothing.
LEMMA GoesOn ==
    ASSUME QueryInv, NEW r \in Request, NEW p \in Label \ Kind,
           {pc[r], p} \cap {"new", "answer", "over", "gone"} = {},
           p \in Served => pc[r] \in Served,
           p \in Processing \cup Answering => kind[r] \in Queries,
           p = "set summary" => kind[r] = "update",
           status[r] = IF p \in Answering /\ kind[r] = "streaming_query" THEN 200 ELSE 0,
           To(r, p), UNCHANGED <<Settings, kind, header, user, status, sent>>,
           audit' \in [Request -> Seq(Event)], Closing(audit'[r]) = {},
           \A q \in Request \ {r} : audit'[q] = audit[q],
           DoneType', \A q \in Request \ {r} : done'[q] = done[q],
           "processed" \in done'[r] => p \in {"generate"} \cup Answering,
           StoredRequest(r)', CacheType', Existing'
    PROVE  QueryInv'
<1> USE DEF To, Settings
<1>1. TypeOK'
  BY DEF QueryInv, TypeOK, CacheType, DoneType
<1>2. \A q \in Request \ {r} : Same(q)
  BY DEF QueryInv, TypeOK, Same
<1>3. /\ pc'[r] = p /\ kind'[r] = kind[r] /\ status'[r] = status[r] /\ sent'[r] = sent[r]
      /\ user'[r] = user[r] /\ header'[r] = header[r]
  BY DEF QueryInv, TypeOK
<1>4. IdentifiedRequest(r)'
  BY <1>3 DEF QueryInv, Identified, IdentifiedRequest
<1>5. ToldRequest(r)'
  BY <1>3, NotOver, ZenonT(30) DEF ToldRequest, Consistent, Processed
<1>6. QED
  BY <1>1, <1>2, <1>4, <1>5, LocalStep

LEMMA Moves ==
    ASSUME QueryInv, NEW r \in Request, NEW p \in Label \ Kind,
           {pc[r], p} \cap {"new", "answer", "over", "gone"} = {},
           p \in Served => pc[r] \in Served,
           p \in Processing \cup Answering => kind[r] \in Queries,
           p = "set summary" => kind[r] = "update" /\ user[r] \in existed,
           status[r] = IF p \in Answering /\ kind[r] = "streaming_query" THEN 200 ELSE 0,
           Stays(r, p), UNCHANGED <<quiet, status>>,
           p \notin {"transcript", "consume", "complete"},
           pc[r] \in Processed => p \in Answering
    PROVE  QueryInv'
<1>1. /\ To(r, p) /\ UNCHANGED <<Settings, kind, header, user, status, sent>>
      /\ UNCHANGED <<audit, done, turns, listed, existed, transcripts_disabled>>
  BY DEF Stays, quiet, cache, Settings
<1>2. audit' \in [Request -> Seq(Event)] /\ DoneType' /\ CacheType'
  BY <1>1 DEF QueryInv, TypeOK, DoneType, CacheType
<1>3. Closing(audit'[r]) = {}
  BY <1>1, NotOver
<1>4. StoredRequest(r)'
  BY <1>1, NotOver DEF StoredRequest, QueryInv, TypeOK, To
<1>5. Existing'
  BY <1>1 DEF Existing, QueryInv, TypeOK, To
<1>6. "processed" \in done'[r] => p \in {"generate"} \cup Answering
  BY <1>1, Unprocessed
<1>7. QED
  BY <1>1, <1>2, <1>3, <1>4, <1>5, <1>6, GoesOn

-----------------------------------------------------------------------------
(* Every step keeps the invariant *)

LEMMA Labels ==
    {"redact query", "attachments", "redact attachments", "validate", "check quota",
     "generate", "stream", "store", "transcript", "consume", "complete", "answer", "set summary",
     "auth", "client", "over", "gone"} \subseteq Label \ Kind
  BY DEF Label, Processing, Answering, Kind, Queries

LEMMA ArriveStep ==
    ASSUME QueryInv, NEW r \in Request, arrive(r)
    PROVE  QueryInv'
<1>1. PICK k \in Kind :
         /\ kind' = [kind EXCEPT ![r] = k]
         /\ \/ /\ k = "feedback" /\ feedback_disabled
               /\ Replies(r, 403)
            \/ /\ k = "feedback" => ~feedback_disabled
               /\ \E h \in Token \cup {Nobody} : header' = [header EXCEPT ![r] = h]
               /\ To(r, "auth")
               /\ UNCHANGED <<user, query, attachments, status>>
  BY DEF arrive
<1>2. UNCHANGED <<Settings, sent, audit, done, turns, listed, existed>> /\ pc[r] = "new"
  BY DEF arrive, auth_vars, cache, conf, Settings, At
<1>3. status[r] = 0 /\ pc[r] \notin Processed
  BY <1>2 DEF QueryInv, Told, ToldRequest, Consistent, Answering, Processed
<1>4. /\ kind' \in [Request -> Kind] /\ kind'[r] = k
      /\ \A q \in Request \ {r} : kind'[q] = kind[q]
  BY <1>1 DEF QueryInv, TypeOK
<1>5. /\ \A q \in Request \ {r} :
            /\ pc'[q] = pc[q] /\ header'[q] = header[q] /\ user'[q] = user[q] /\ status'[q] = status[q]
      /\ pc' \in [Request -> Label] /\ user' \in [Request -> Users \cup {Nobody}]
      /\ header' \in [Request -> Token \cup {Nobody}] /\ status' \in [Request -> Nat]
      /\ (pc'[r] = "over" /\ status'[r] = 403) \/ (pc'[r] = "auth" /\ status'[r] = 0)
  <2>1. CASE Replies(r, 403)
    <3>1. pc'[r] = "over" /\ status'[r] = 403
      BY <2>1 DEF Replies, Leaves, To, QueryInv, TypeOK
    <3>2. pc' \in [Request -> Label] /\ status' \in [Request -> Nat]
      <4>1. "over" \in Label
        BY Labels
      <4>2. QED
        BY <2>1, <4>1 DEF Replies, Leaves, To, QueryInv, TypeOK
    <3>3. /\ user' \in [Request -> Users \cup {Nobody}]
          /\ header' \in [Request -> Token \cup {Nobody}]
      BY <2>1 DEF Replies, Leaves, QueryInv, TypeOK
    <3>4. QED
      BY <2>1, <3>1, <3>2, <3>3 DEF Replies, Leaves, To, QueryInv, TypeOK
  <2>2. CASE /\ \E h \in Token \cup {Nobody} : header' = [header EXCEPT ![r] = h]
             /\ To(r, "auth")
             /\ UNCHANGED <<user, query, attachments, status>>
    <3>1. pc'[r] = "auth" /\ status'[r] = 0
      BY <1>3, <2>2 DEF To, QueryInv, TypeOK
    <3>2. QED
      BY <2>2, <3>1, Labels DEF To, QueryInv, TypeOK
  <2>3. QED
    BY <1>1, <2>1, <2>2
<1>6. TypeOK'
  BY <1>2, <1>4, <1>5 DEF QueryInv, TypeOK, Settings
<1>7. \A q \in Request \ {r} : Same(q)
  BY <1>2, <1>4, <1>5 DEF Same
<1>8. Existing'
  BY <1>2, <1>5 DEF QueryInv, Existing
<1>9. IdentifiedRequest(r)'
  BY <1>5 DEF IdentifiedRequest, Served
<1>10. ToldRequest(r)'
  <2>1. /\ audit'[r] = audit[r] /\ sent'[r] = sent[r] /\ done'[r] = done[r]
        /\ Closing(audit[r]) = {} /\ "error" \notin ToSet(sent[r])
        /\ "processed" \notin done[r]
    BY <1>2, <1>3, NotOver, Unprocessed
  <2>2. CASE pc'[r] = "over" /\ status'[r] = 403
    BY <2>1, <2>2 DEF ToldRequest, Consistent, Kind, Queries, Processing, Answering
  <2>3. CASE pc'[r] = "auth" /\ status'[r] = 0
    BY <2>1, <2>3 DEF ToldRequest, Consistent, Kind, Queries, Processing, Answering
  <2>4. QED
    BY <1>5, <2>2, <2>3
<1>11. StoredRequest(r)'
  BY <1>2, <1>3, <1>5, NotOver DEF StoredRequest
<1>12. QED
  BY <1>2, <1>6, <1>7, <1>8, <1>9, <1>10, <1>11, LocalStep

LEMMA AuthenticateStep ==
    ASSUME QueryInv, NEW r \in Request, authenticate(r)
    PROVE  QueryInv'
<1>1. /\ pc[r] = "auth"
      /\ UNCHANGED <<Settings, kind, sent, audit, done, cache>>
  BY DEF authenticate, At, auth_vars, conf, Settings
<1>2. auth_module \in {"k8s", "noop", "noop-with-token"} /\ disable_auth \in BOOLEAN
  BY DEF QueryInv, TypeOK
<1> DEFINE Result(u) == IF NeedsClient(header[r]) /\ client # "ready"
                          THEN {Refused(500)} ELSE AuthDependency(header[r], u)
           Done_(a) == IF a.status = 200
                         THEN /\ user' = [user EXCEPT ![r] = a.user]
                              /\ To(r, kind[r])
                              /\ UNCHANGED <<header, query, attachments, status>>
                         ELSE Replies(r, a.status)
<1>3. PICK u \in Users : \E a \in Result(u) : Done_(a)
  BY DEF authenticate
<1>4. PICK a \in Result(u) : Done_(a)
  BY <1>3
<1>5. CASE a.status = 200
  <2>1. a \in AuthDependency(header[r], u)
    BY <1>5 DEF Refused
  <2>2. /\ a.user \in Users
        /\ (auth_module = "k8s" /\ ~disable_auth) =>
             /\ header[r] \in Token
             /\ owner[header[r]] \in allowed
             /\ a.user = uid(owner[header[r]])
    BY <1>2, <1>5, <2>1, AuthType
  <2>3. user' = [user EXCEPT ![r] = a.user] /\ pc' = [pc EXCEPT ![r] = kind[r]]
        /\ UNCHANGED <<header, status>>
    BY <1>4, <1>5 DEF To
  <2>4. TypeOK'
    BY <1>1, <2>2, <2>3 DEF QueryInv, TypeOK, Settings, cache, Label
  <2>5. \A q \in Request \ {r} : Same(q)
    BY <1>1, <2>3 DEF QueryInv, TypeOK, Same
  <2>6. /\ user'[r] = a.user /\ pc'[r] = kind[r] /\ kind'[r] = kind[r] /\ header'[r] = header[r]
        /\ kind[r] \in Kind /\ status[r] = 0
    <3>1. ToldRequest(r)
      BY DEF QueryInv, Told
    <3>2. status[r] = 0
      BY <1>1, <3>1 DEF ToldRequest, Consistent, Answering
    <3>3. QED
      BY <1>1, <2>3, <3>2 DEF QueryInv, TypeOK
  <2>7. IdentifiedRequest(r)'
    BY <1>1, <2>2, <2>6 DEF IdentifiedRequest, Settings
  <2>8. ToldRequest(r)'
    <3>1. pc[r] \notin Processed
      BY <1>1 DEF Processed, Answering
    <3>2. QED
      BY <1>1, <2>3, <2>6, <3>1, NotOver, Unprocessed
      DEF ToldRequest, Consistent, Kind, Queries, Processing, Answering
  <2>9. StoredRequest(r)'
    BY <1>1, <2>6, NotOver DEF StoredRequest, Kind, Queries
  <2>10. Existing'
    BY <1>1, <2>3, <2>6 DEF QueryInv, TypeOK, Existing, cache, Kind, Queries
  <2>11. QED
    BY <1>1, <2>4, <2>5, <2>7, <2>8, <2>9, <2>10, LocalStep
<1>6. CASE a.status # 200
  <2>1. a.status \in Nat
    <3>1. CASE a \in AuthDependency(header[r], u)
      BY <1>2, <3>1, AuthStatus
    <3>2. CASE a \notin AuthDependency(header[r], u)
      BY <3>2 DEF Refused
    <3>3. QED
      BY <3>1, <3>2
  <2>2. Replies(r, a.status)
    BY <1>4, <1>6
  <2>3. pc[r] \notin Processed
    BY <1>1 DEF Processed, Answering
  <2>4. QED
    BY <1>1, <1>6, <2>1, <2>2, <2>3, Refuses DEF quiet
<1>7. QED
  BY <1>5, <1>6

LEMMA StartStreamStep ==
    ASSUME QueryInv, NEW r \in Request, start_stream(r)
    PROVE  QueryInv'
<1>1. /\ pc[r] = "generate" /\ kind[r] = "streaming_query"
      /\ UNCHANGED <<Settings, kind, done, cache>>
  BY DEF start_stream, At, Streaming, answering, auth_vars, conf, Settings
<1>2. ASSUME NEW s \in parse_generic_llm_error, fails(r, s)
      PROVE  QueryInv'
  BY <1>1, <1>2, Fails DEF parse_generic_llm_error
<1>3. ASSUME NEW events \in {<<>>, <<"start">>}, sent' = [sent EXCEPT ![r] = events],
             status' = [status EXCEPT ![r] = 200], Stays(r, "stream"), UNCHANGED audit
      PROVE  QueryInv'
  <2>1. pc' = [pc EXCEPT ![r] = "stream"] /\ UNCHANGED <<header, user>>
    BY <1>3 DEF Stays, To
  <2>2. "stream" \in Label
    BY Labels
  <2>3. events \in Seq(StreamEvent) /\ "error" \notin ToSet(events)
    <3>1. CASE events = <<>>
      BY <3>1 DEF StreamEvent, ToSet
    <3>2. CASE events = <<"start">>
      BY <3>2 DEF StreamEvent, ToSet
    <3>3. QED
      BY <3>1, <3>2
  <2>4. TypeOK'
    BY <1>1, <1>3, <2>1, <2>2, <2>3 DEF QueryInv, TypeOK, Settings, cache, StreamEvent
  <2>5. \A q \in Request \ {r} : Same(q)
    BY <1>1, <1>3, <2>1 DEF QueryInv, TypeOK, Same
  <2>6. /\ pc'[r] = "stream" /\ kind'[r] = kind[r] /\ header'[r] = header[r] /\ user'[r] = user[r]
        /\ status'[r] = 200 /\ sent'[r] = events /\ audit'[r] = audit[r]
    BY <1>1, <1>3, <2>1 DEF QueryInv, TypeOK
  <2>7. IdentifiedRequest(r)'
    <3>1. pc[r] \in Served
      BY <1>1 DEF Served, Label, Processing
    <3>2. QED
      BY <1>1, <2>6, <3>1 DEF QueryInv, Identified, IdentifiedRequest, Settings
  <2>8. ToldRequest(r)'
    BY <1>1, <2>3, <2>6, NotOver
    DEF ToldRequest, Consistent, Kind, Queries, Processing, Answering, Processed
  <2>9. StoredRequest(r)'
    BY <1>1, <2>6, NotOver DEF StoredRequest
  <2>10. Existing'
    <3>1. Existing /\ UNCHANGED <<turns, listed, existed>>
      BY <1>1 DEF QueryInv, cache
    <3>2. \A q \in Request : pc'[q] = "set summary" => pc[q] = "set summary" /\ user'[q] = user[q]
      BY <2>5, <2>6 DEF Same
    <3>3. QED
      BY <3>1, <3>2 DEF Existing
  <2>11. QED
    BY <1>1, <2>4, <2>5, <2>7, <2>8, <2>9, <2>10, LocalStep
<1>4. QED
  BY <1>2, <1>3 DEF start_stream

LEMMA StreamEventStep ==
    ASSUME QueryInv, NEW r \in Request, stream_event(r)
    PROVE  QueryInv'
<1>1. /\ pc[r] = "stream" /\ sent' = [sent EXCEPT ![r] = Append(sent[r], "chunk")]
      /\ UNCHANGED <<Settings, pc, kind, header, user, status, audit, done, turns, listed, existed>>
  BY DEF stream_event, At, auth_vars, conf, Settings, request, cache
<1>2. /\ Append(sent[r], "chunk") \in Seq(StreamEvent)
      /\ "error" \notin ToSet(Append(sent[r], "chunk"))
  BY <1>1, NotOver, SentExtended DEF QueryInv, TypeOK, StreamEvent
<1>3. sent'[r] = Append(sent[r], "chunk") /\ sent' \in [Request -> Seq(StreamEvent)]
  BY <1>1, <1>2 DEF QueryInv, TypeOK, StreamEvent
<1>4. TypeOK'
  BY <1>1, <1>3 DEF QueryInv, TypeOK, Settings, StreamEvent
<1>5. \A q \in Request \ {r} : Same(q)
  BY <1>1 DEF QueryInv, TypeOK, Same
<1>6. IdentifiedRequest(r)'
  BY <1>1 DEF QueryInv, Identified, IdentifiedRequest, Settings
<1>7. ToldRequest(r)'
  <2>1. ToldRequest(r)
    BY DEF QueryInv, Told
  <2>2. /\ pc[r] = "stream" /\ pc'[r] = pc[r] /\ kind'[r] = kind[r] /\ status'[r] = status[r]
        /\ audit'[r] = audit[r] /\ done'[r] = done[r]
    BY <1>1
  <2>3. "error" \notin ToSet(sent'[r])
    BY <1>2, <1>3
  <2>4. QED
    BY <2>1, <2>2, <2>3 DEF ToldRequest, Consistent
<1>8. StoredRequest(r)'
  BY <1>1 DEF QueryInv, Durable, StoredRequest, Settings
<1>9. Existing'
  BY <1>1 DEF QueryInv, Existing
<1>10. QED
  BY <1>1, <1>4, <1>5, <1>6, <1>7, <1>8, <1>9, LocalStep

LEMMA DisconnectStep ==
    ASSUME QueryInv, NEW r \in Request, disconnect(r)
    PROVE  QueryInv'
<1>1. /\ pc[r] \in {"stream", "answer"} /\ Leaves(r, "gone")
      /\ UNCHANGED <<Settings, kind, status, sent, audit, done, turns, listed, existed>>
  BY DEF disconnect, At, answering, auth_vars, conf, Settings, cache
<1>2. "gone" \in Label
  BY Labels
<1>3. TypeOK'
  BY <1>1, <1>2 DEF Leaves, To, QueryInv, TypeOK, Settings
<1>4. \A q \in Request \ {r} : Same(q)
  BY <1>1 DEF Leaves, To, QueryInv, TypeOK, Same
<1>5. pc'[r] = "gone"
  BY <1>1 DEF Leaves, To, QueryInv, TypeOK
<1>6. IdentifiedRequest(r)'
  BY <1>5 DEF IdentifiedRequest, Served
<1>7. ToldRequest(r)'
  <2>1. ToldRequest(r)
    BY DEF QueryInv, Told
  <2>2. /\ kind'[r] = kind[r] /\ status'[r] = status[r] /\ sent'[r] = sent[r]
        /\ audit'[r] = audit[r] /\ done'[r] = done[r]
    BY <1>1
  <2>3. QED
    BY <1>1, <1>5, <2>1, <2>2
    DEF ToldRequest, Consistent, Kind, Queries, Processing, Answering, Processed
<1>8. StoredRequest(r)'
  BY <1>1, <1>5 DEF QueryInv, Durable, StoredRequest, Settings
<1>9. Existing'
  BY <1>1, <1>4, <1>5 DEF QueryInv, Existing, Same
<1>10. QED
  BY <1>1, <1>3, <1>4, <1>6, <1>7, <1>8, <1>9, LocalStep

\* Where a request is tells its kind and what its client has received.
LEMMA Place ==
    ASSUME QueryInv, NEW r \in Request
    PROVE  /\ pc[r] \in Kind => kind[r] = pc[r] /\ status[r] = 0
           /\ pc[r] \in Processing => kind[r] \in Queries /\ status[r] = 0
           /\ pc[r] \in Answering =>
                 kind[r] \in Queries /\ status[r] = IF kind[r] = "streaming_query" THEN 200 ELSE 0
           /\ pc[r] \in {"auth", "client"} => status[r] = 0
           /\ pc[r] = "set summary" => kind[r] = "update"
           /\ pc[r] \in Kind \cup Processing \cup Answering \cup {"set summary"} =>
                 pc[r] \in Served /\ user[r] \in Users
           /\ pc[r] \in (Kind \cup Processing \cup {"auth", "client", "set summary"}) \ {"generate"} =>
                 pc[r] \notin Processed
<1>1. ToldRequest(r) /\ IdentifiedRequest(r)
  BY DEF QueryInv, Told, Identified
<1>2. Kind \cup Processing \cup Answering \cup {"set summary"} \subseteq Served
  BY DEF Served, Label, Kind, Queries, Processing, Answering
<1>3. pc[r] \in Kind \cup Processing \cup {"auth", "client", "set summary"} =>
          pc[r] \notin Answering \cup {"answer", "over", "gone"}
  BY DEF Kind, Queries, Processing, Answering
<1>4. pc[r] \in (Kind \cup Processing \cup {"auth", "client", "set summary"}) \ {"generate"} =>
          pc[r] \notin Processed
  <2>1. \A x \in Kind : x \notin Processed
    BY DEF Kind, Queries, Processed, Answering
  <2>2. \A x \in Processing \ {"generate"} : x \notin Processed
    BY DEF Processing, Processed, Answering
  <2>3. \A x \in {"auth", "client", "set summary"} : x \notin Processed
    BY DEF Processed, Answering
  <2>4. QED
    BY <2>1, <2>2, <2>3
<1>5. pc[r] \in Served => user[r] \in Users
  BY <1>1 DEF IdentifiedRequest
<1>6. /\ pc[r] \in Kind => kind[r] = pc[r]
      /\ pc[r] \in Processing \cup Answering => kind[r] \in Queries
      /\ pc[r] = "set summary" => kind[r] = "update"
  BY <1>1, Zenon DEF ToldRequest, Consistent
<1>7. /\ pc[r] \notin Answering \cup {"answer", "over", "gone"} => status[r] = 0
      /\ pc[r] \in Answering => status[r] = IF kind[r] = "streaming_query" THEN 200 ELSE 0
  BY <1>1, Zenon DEF ToldRequest, Consistent
<1>8. QED
  BY <1>2, <1>3, <1>4, <1>5, <1>6, <1>7, Zenon

LEMMA PlaceNames ==
    /\ {"redact query", "attachments", "redact attachments", "validate", "check quota",
        "generate"} = Processing
    /\ {"stream", "store", "transcript", "consume", "complete"} = Answering
    /\ {"query", "streaming_query", "get", "list", "delete", "update", "feedback",
        "authorized"} = Kind
  BY DEF Processing, Answering, Kind, Queries

LEMMA Rejects ==
    ASSUME QueryInv, NEW r \in Request, pc[r] \in (Queries \cup Processing) \ {"generate"},
           rejected(r, 400) \/ rejected(r, 422) \/ rejected(r, 500),
           UNCHANGED <<Settings, kind, sent, done, cache>>
    PROVE  QueryInv'
<1>1. UNCHANGED quiet /\ (Replies(r, 400) \/ Replies(r, 422) \/ Replies(r, 500))
  BY DEF rejected, quiet
<1>2. pc[r] \notin Processed
  BY Place DEF Kind
<1>3. 400 \in Nat \ {200} /\ 422 \in Nat \ {200} /\ 500 \in Nat \ {200}
  OBVIOUS
<1>4. QED
  BY <1>1, <1>2, <1>3, Refuses

LEMMA Proceeds ==
    ASSUME QueryInv, NEW r \in Request, NEW p \in Processing, pc[r] \in Processing \ {"generate"},
           To(r, p), UNCHANGED <<Settings, kind, header, user, status, sent, audit, cache>>,
           \/ UNCHANGED done
           \/ Done(r, "processed") /\ p = "generate"
    PROVE  QueryInv'
<1>1. UNCHANGED <<audit, turns, listed, existed, transcripts_disabled>>
  BY DEF cache, Settings
<1>2. audit' \in [Request -> Seq(Event)] /\ DoneType' /\ CacheType'
  BY <1>1 DEF QueryInv, TypeOK, DoneType, CacheType, Done
<1>3. {pc[r], p} \cap {"new", "answer", "over", "gone"} = {}
      /\ p \in Label \ Kind /\ p \notin Answering /\ p # "set summary"
      /\ p \notin {"transcript", "consume", "complete"}
  BY DEF Processing, Answering, Label, Kind, Queries
<1>4. Closing(audit'[r]) = {}
  BY <1>1, <1>3, NotOver
<1>5. StoredRequest(r)'
  BY <1>1, <1>3, NotOver DEF StoredRequest, QueryInv, TypeOK, To
<1>6. Existing'
  BY <1>1, <1>3 DEF Existing, QueryInv, TypeOK, To
<1>7. /\ p \in Served => pc[r] \in Served
      /\ p \in Processing \cup Answering => kind[r] \in Queries
      /\ status[r] = IF p \in Answering /\ kind[r] = "streaming_query" THEN 200 ELSE 0
  BY <1>3, Place
<1>8. /\ \A q \in Request \ {r} : done'[q] = done[q]
      /\ "processed" \in done'[r] => p \in {"generate"} \cup Answering
  <2>1. "processed" \notin done[r]
    BY Place, Unprocessed
  <2>2. QED
    BY <2>1 DEF Done, QueryInv, TypeOK
<1>9. QED
  BY <1>1, <1>2, <1>3, <1>4, <1>5, <1>6, <1>7, <1>8, GoesOn

\* process_request notes something in the audit log and goes on.
LEMMA Notes ==
    ASSUME QueryInv, NEW r \in Request, NEW p \in Processing, NEW e \in {"auth", "started"},
           pc[r] \in (Queries \cup Processing) \ {"generate"}, To(r, p), Audits(r, <<e>>),
           UNCHANGED <<Settings, kind, header, user, status, sent, done, turns, listed, existed>>
    PROVE  QueryInv'
<1>1. /\ {pc[r], p} \cap {"new", "answer", "over", "gone"} = {} /\ p # "set summary"
      /\ p \in Label \ Kind /\ p \notin Answering
      /\ p \notin {"transcript", "consume", "complete"}
  BY DEF Processing, Answering, Label, Kind, Queries
<1> DEFINE log == audit[r] \o <<e>>
<1>2. log \in Seq(Event) /\ Closing(log) = {} /\ \A i \in DOMAIN log : log[i] # "completed"
  <2>1. audit[r] \in Seq(Event) /\ e \in Event /\ e \notin {"completed", "failed"}
    BY DEF QueryInv, TypeOK, Event
  <2>2. Closing(audit[r]) = {}
    BY <1>1, NotOver
  <2>3. log \in Seq(Event) /\ Closing(log) = {}
    BY <2>1, <2>2, ClosingExtended, Zenon
  <2>4. QED
    BY <2>3 DEF Closing
<1>3. audit' = [audit EXCEPT ![r] = log]
  BY DEF Audits
<1> HIDE DEF log
<1>4. /\ audit' \in [Request -> Seq(Event)] /\ audit'[r] = log
      /\ \A q \in Request \ {r} : audit'[q] = audit[q]
  BY <1>2, <1>3 DEF QueryInv, TypeOK
<1>5. DoneType' /\ CacheType'
  BY DEF QueryInv, TypeOK, DoneType, CacheType
<1>6. pc'[r] = p
  BY DEF QueryInv, TypeOK, To
<1>7. StoredRequest(r)'
  BY <1>1, <1>2, <1>4, <1>6 DEF StoredRequest
<1>8. Existing'
  BY <1>1 DEF Existing, QueryInv, TypeOK, To
<1>9. pc[r] \in Served /\ kind[r] \in Queries /\ status[r] = 0
  BY Place DEF Kind
<1>10. "processed" \notin done'[r]
  BY Place, Unprocessed DEF Kind
<1>11. QED
  BY <1>1, <1>2, <1>4, <1>5, <1>7, <1>8, <1>9, <1>10, GoesOn

\* A step of the storing and accounting of a query is done.
LEMMA Adds ==
    ASSUME QueryInv, NEW r \in Request, NEW p \in {"transcript", "consume", "complete"},
           pc[r] \in Answering, goes_on(r, p), UNCHANGED <<Settings, kind>>,
           DoneType', \A q \in Request \ {r} : done'[q] = done[q],
           "stored" \in done'[r],
           p \in {"consume", "complete"} /\ ~transcripts_disabled => "transcript" \in done'[r],
           p = "complete" => "consumed" \in done'[r],
           CacheType', Existing'
    PROVE  QueryInv'
<1>1. To(r, p) /\ UNCHANGED <<header, user, status, sent, audit>>
  BY DEF goes_on, Stays
<1>2. /\ p \in Label \ Kind /\ p \in Answering /\ p # "set summary"
      /\ {pc[r], p} \cap {"new", "answer", "over", "gone"} = {}
  BY DEF Answering, Label, Kind, Queries
<1>3. audit' \in [Request -> Seq(Event)] /\ Closing(audit'[r]) = {}
  BY <1>1, <1>2, NotOver DEF QueryInv, TypeOK
<1>4. pc'[r] = p
  BY <1>1 DEF QueryInv, TypeOK, To
<1>5. StoredRequest(r)'
  BY <1>1, <1>2, <1>4, NotOver DEF StoredRequest, Settings
<1>6. /\ pc[r] \in Served /\ kind[r] \in Queries
      /\ status[r] = IF kind[r] = "streaming_query" THEN 200 ELSE 0
  BY Place
<1>7. QED
  BY <1>1, <1>2, <1>3, <1>5, <1>6, GoesOn

LEMMA AddsKept ==
    ASSUME QueryInv, NEW r \in Request, NEW p \in {"consume", "complete"}, NEW w,
           <<pc[r], p, w>> \in {<<"transcript", "consume", {"transcript"}>>,
                                <<"consume", "complete", {"consumed"}>>}
             \/ (transcripts_disabled /\ <<pc[r], p, w>> = <<"transcript", "consume", {}>>),
           goes_on(r, p), done' = [done EXCEPT ![r] = @ \cup w],
           UNCHANGED <<Settings, kind, turns, listed, existed>>
    PROVE  QueryInv'
<1>1. w \subseteq {"transcript", "consumed"} /\ pc[r] \in {"transcript", "consume"}
  OBVIOUS
<1>2. /\ DoneType' /\ done'[r] = done[r] \cup w
      /\ \A q \in Request \ {r} : done'[q] = done[q]
  BY <1>1 DEF DoneType, QueryInv, TypeOK
<1>3. /\ "stored" \in done'[r]
      /\ p \in {"consume", "complete"} /\ ~transcripts_disabled => "transcript" \in done'[r]
      /\ p = "complete" => "consumed" \in done'[r]
  BY <1>2 DEF QueryInv, Durable, StoredRequest
<1>4. CacheType'
  BY DEF CacheType, QueryInv, TypeOK
<1>5. pc' = [pc EXCEPT ![r] = p] /\ UNCHANGED user
  BY DEF goes_on, Stays, To
<1>6. Existing'
  BY <1>5 DEF Existing, QueryInv, TypeOK
<1>7. QED
  BY <1>1, <1>2, <1>3, <1>4, <1>6, Adds DEF Answering

LEMMA ServesOnly ==
    ASSUME QueryInv, NEW r \in Request, NEW s \in Nat,
           pc[r] \in {"list", "get", "authorized"}, Replies(r, s),
           UNCHANGED <<Settings, kind, sent, audit, done, cache>>
    PROVE  QueryInv'
<1>1. pc[r] \notin Processed /\ kind[r] \notin Queries
  BY Place, PlaceNames DEF Queries
<1>2. DoneType' /\ CacheType'
  BY DEF cache, DoneType, CacheType, QueryInv, TypeOK
<1>3. listed' \subseteq existed' /\ \A u \in Users : turns'[u] > 0 => u \in existed'
  BY DEF cache, QueryInv, Existing
<1>4. QED
  BY <1>1, <1>2, <1>3, Serves DEF cache

LEMMA QueryStep == QueryInv /\ [Next]_vars => QueryInv'
<1> SUFFICES ASSUME QueryInv, [Next]_vars PROVE QueryInv'
  OBVIOUS
<1>1. ASSUME NEW r \in Request, arrive(r) PROVE QueryInv'
  BY <1>1, ArriveStep
<1>2. ASSUME NEW r \in Request, auth_client(r) PROVE QueryInv'
  <2>1. pc[r] = "auth" /\ Stays(r, "client") /\ UNCHANGED <<quiet, status>>
    BY <1>2 DEF auth_client, At, conf, Settings, quiet
  <2>2. QED
    BY <2>1, Labels, Place, Moves DEF Served, Processing, Answering, Processed
<1>3. ASSUME NEW r \in Request, auth_client_built(r) PROVE QueryInv'
  <2>1. pc[r] = "client" /\ UNCHANGED quiet
    BY <1>3 DEF auth_client_built, At, conf, Settings, quiet
  <2>2. CASE Stays(r, "auth") /\ UNCHANGED status
    BY <2>1, <2>2, Labels, Place, Moves DEF Served, Processing, Answering, Processed
  <2>3. CASE Replies(r, 500)
    <3>1. pc[r] \notin Processed
      BY <2>1 DEF Processed, Answering
    <3>2. QED
      BY <2>1, <2>3, <3>1, Refuses
  <2>4. QED
    BY <1>3, <2>2, <2>3 DEF auth_client_built
<1>4. ASSUME NEW r \in Request, authenticate(r) PROVE QueryInv'
  BY <1>4, AuthenticateStep
<1>5. ASSUME NEW r \in Request, retrieve_conversation_id(r) PROVE QueryInv'
  <2>1. /\ pc[r] \in Queries
        /\ UNCHANGED <<Settings, kind, sent, done, turns, listed, existed>>
    BY <1>5 DEF retrieve_conversation_id, processing, auth_vars, conf, cache, Settings
  <2>2. CASE rejected(r, 400)
    BY <2>1, <2>2, Rejects DEF cache, Queries
  <2>3. CASE Stays(r, "redact query") /\ Audits(r, <<"auth">>) /\ UNCHANGED status
    <3>1. pc[r] \in (Queries \cup Processing) \ {"generate"} /\ "redact query" \in Processing
      BY <2>1 DEF Queries, Processing
    <3>2. To(r, "redact query") /\ UNCHANGED <<header, user>>
      BY <2>3 DEF Stays
    <3>3. QED
      BY <2>1, <2>3, <3>1, <3>2, Notes
  <2>4. QED
    BY <1>5, <2>2, <2>3 DEF retrieve_conversation_id
<1>6. ASSUME NEW r \in Request, redact_query(r) PROVE QueryInv'
  <2>1. pc[r] = "redact query" /\ UNCHANGED <<Settings, kind, sent, done, cache>>
    BY <1>6 DEF redact_query, At, processing, auth_vars, conf, Settings
  <2>2. CASE rejected(r, 500)
    <3>1. pc[r] \in (Queries \cup Processing) \ {"generate"}
      BY <2>1 DEF Processing
    <3>2. QED
      BY <2>1, <2>2, <3>1, Rejects
  <2>3. CASE To(r, "attachments") /\ UNCHANGED <<header, user, status, audit>>
    BY <2>1, <2>3, Proceeds DEF Processing
  <2>4. QED
    BY <1>6, <2>2, <2>3 DEF redact_query
<1>7. ASSUME NEW r \in Request, retrieve_attachments(r) PROVE QueryInv'
  <2>1. pc[r] = "attachments" /\ UNCHANGED <<Settings, kind, sent, done, cache>>
    BY <1>7 DEF retrieve_attachments, At, processing, auth_vars, conf, Settings
  <2>2. CASE rejected(r, 422)
    <3>1. pc[r] \in (Queries \cup Processing) \ {"generate"}
      BY <2>1 DEF Processing
    <3>2. QED
      BY <2>1, <2>2, <3>1, Rejects
  <2>3. CASE To(r, "redact attachments") /\ UNCHANGED <<header, user, status, audit>>
    BY <2>1, <2>3, Proceeds DEF Processing
  <2>4. QED
    BY <1>7, <2>2, <2>3 DEF retrieve_attachments
<1>8. ASSUME NEW r \in Request, redact_attachments(r) PROVE QueryInv'
  <2>1. /\ pc[r] = "redact attachments"
        /\ UNCHANGED <<Settings, kind, sent, done, turns, listed, existed>>
    BY <1>8 DEF redact_attachments, At, processing, auth_vars, conf, cache, Settings
  <2>2. CASE rejected(r, 500)
    <3>1. pc[r] \in (Queries \cup Processing) \ {"generate"}
      BY <2>1 DEF Processing
    <3>2. QED
      BY <2>1, <2>2, <3>1, Rejects DEF cache
  <2>3. CASE To(r, "validate") /\ Audits(r, <<"started">>) /\ UNCHANGED <<header, user, status>>
    BY <2>1, <2>3, Notes DEF Processing
  <2>4. QED
    BY <1>8, <2>2, <2>3 DEF redact_attachments
<1>9. ASSUME NEW r \in Request, validate_requested_provider_model(r) PROVE QueryInv'
  <2>1. pc[r] = "validate" /\ UNCHANGED <<Settings, kind, sent, done, cache>>
    BY <1>9 DEF validate_requested_provider_model, At, processing, auth_vars, conf, Settings
  <2>2. CASE rejected(r, 422)
    <3>1. pc[r] \in (Queries \cup Processing) \ {"generate"}
      BY <2>1 DEF Processing
    <3>2. QED
      BY <2>1, <2>2, <3>1, Rejects
  <2>3. CASE passes(r, "check quota")
    BY <2>1, <2>3, Proceeds DEF passes, Stays, Processing
  <2>4. QED
    BY <1>9, <2>2, <2>3 DEF validate_requested_provider_model
<1>10. ASSUME NEW r \in Request, check_tokens_available(r) PROVE QueryInv'
  <2>1. pc[r] = "check quota" /\ UNCHANGED <<Settings, kind, sent, cache>>
    BY <1>10 DEF check_tokens_available, At, auth_vars, conf, Settings
  <2>2. CASE rejected(r, 500) /\ UNCHANGED done
    <3>1. pc[r] \in (Queries \cup Processing) \ {"generate"}
      BY <2>1 DEF Processing
    <3>2. QED
      BY <2>1, <2>2, <3>1, Rejects
  <2>3. CASE passes(r, "generate") /\ Done(r, "processed")
    BY <2>1, <2>3, Proceeds DEF passes, Stays, Processing
  <2>4. QED
    BY <1>10, <2>2, <2>3 DEF check_tokens_available
<1>11. ASSUME NEW r \in Request, generate_response(r) PROVE QueryInv'
  <2>1. /\ pc[r] = "generate" /\ kind[r] # "streaming_query"
        /\ UNCHANGED <<Settings, kind, done, cache>>
    BY <1>11 DEF generate_response, At, Streaming, answering, auth_vars, conf, Settings
  <2>2. CASE goes_on(r, "store")
    BY <2>1, <2>2, Labels, Place, Moves, PlaceNames DEF goes_on, quiet, Served
  <2>3. CASE fails(r, 413)
    BY <2>1, <2>3, Fails
  <2>4. CASE \E s \in parse_generic_llm_error : fails(r, s)
    BY <2>1, <2>4, Fails DEF parse_generic_llm_error
  <2>5. goes_on(r, "store") \/ fails(r, 413) \/ \E s \in parse_generic_llm_error : fails(r, s)
    BY <1>11, Zenon DEF generate_response
  <2>6. QED
    BY <2>2, <2>3, <2>4, <2>5
<1>12. ASSUME NEW r \in Request, start_stream(r) PROVE QueryInv'
  BY <1>12, StartStreamStep
<1>13. ASSUME NEW r \in Request, stream_event(r) PROVE QueryInv'
  BY <1>13, StreamEventStep
<1>14. ASSUME NEW r \in Request, stream_ends(r) PROVE QueryInv'
  <2>1. pc[r] = "stream" /\ UNCHANGED <<Settings, kind, done, cache>>
    BY <1>14 DEF stream_ends, At, answering, auth_vars, conf, Settings
  <2>2. CASE goes_on(r, "store")
    BY <2>1, <2>2, Labels, Place, Moves, PlaceNames DEF goes_on, quiet, Served
  <2>3. CASE fails(r, 500)
    BY <2>1, <2>3, Fails DEF Answering
  <2>4. QED
    BY <1>14, <2>2, <2>3 DEF stream_ends
<1>15. ASSUME NEW r \in Request, disconnect(r) PROVE QueryInv'
  BY <1>15, DisconnectStep
<1>16. ASSUME NEW r \in Request, store_conversation_history(r) PROVE QueryInv'
  <2>1. pc[r] = "store" /\ UNCHANGED <<Settings, kind>>
    BY <1>16 DEF store_conversation_history, At, answering, auth_vars, conf, Settings
  <2>2. CASE Stored(r) /\ goes_on(r, "transcript")
    <3>1. user[r] \in Users
      BY <2>1, Place, PlaceNames
    <3>2. /\ turns' = [turns EXCEPT ![user[r]] = @ + 1]
          /\ listed' = listed \cup {user[r]}
          /\ existed' = existed \cup {user[r]}
          /\ done' = [done EXCEPT ![r] = @ \cup {"stored"}]
          /\ goes_on(r, "transcript")
      BY <2>2 DEF Stored, Done
    <3>3. CacheType'
      BY <3>1, <3>2 DEF CacheType, QueryInv, TypeOK
    <3>4. pc' = [pc EXCEPT ![r] = "transcript"] /\ UNCHANGED user
      BY <3>2 DEF goes_on, Stays, To
    <3>5. Existing'
      BY <3>1, <3>2, <3>4 DEF Existing, QueryInv, TypeOK
    <3>6. /\ DoneType' /\ "stored" \in done'[r]
          /\ \A q \in Request \ {r} : done'[q] = done[q]
      BY <3>2 DEF DoneType, QueryInv, TypeOK
    <3>7. pc[r] \in Answering
      BY <2>1 DEF Answering
    <3>8. QED
      BY <2>1, <3>2, <3>3, <3>5, <3>6, <3>7, Adds
  <2>3. CASE fails(r, 500) /\ UNCHANGED <<done, cache>>
    BY <2>1, <2>3, Fails DEF Answering
  <2>4. QED
    BY <1>16, <2>2, <2>3 DEF store_conversation_history
<1>17. ASSUME NEW r \in Request, store_transcript(r) PROVE QueryInv'
  <2>1. pc[r] = "transcript" /\ UNCHANGED <<Settings, kind, turns, listed, existed>>
    BY <1>17 DEF store_transcript, At, answering, auth_vars, conf, cache, Settings
  <2>2. CASE transcripts_disabled /\ goes_on(r, "consume") /\ UNCHANGED done
    <3>1. done' = [done EXCEPT ![r] = done[r] \cup {}]
      BY <2>2 DEF QueryInv, TypeOK
    <3>2. QED
      BY <2>1, <2>2, <3>1, AddsKept
  <2>3. CASE Done(r, "transcript") /\ goes_on(r, "consume")
    BY <2>1, <2>3, AddsKept DEF Done
  <2>4. CASE fails(r, 500) /\ UNCHANGED done
    BY <2>1, <2>4, Fails DEF Answering, cache
  <2>5. QED
    BY <1>17, <2>2, <2>3, <2>4 DEF store_transcript
<1>18. ASSUME NEW r \in Request, consume_tokens(r) PROVE QueryInv'
  <2>1. pc[r] = "consume" /\ UNCHANGED <<Settings, kind, turns, listed, existed>>
    BY <1>18 DEF consume_tokens, At, answering, auth_vars, conf, cache, Settings
  <2>2. CASE Done(r, "consumed") /\ goes_on(r, "complete")
    BY <2>1, <2>2, AddsKept DEF Done
  <2>3. CASE fails(r, 500) /\ UNCHANGED done
    BY <2>1, <2>3, Fails DEF Answering, cache
  <2>4. QED
    BY <1>18, <2>2, <2>3 DEF consume_tokens
<1>19. ASSUME NEW r \in Request, complete(r) PROVE QueryInv'
  <2>1. pc[r] = "complete" /\ UNCHANGED <<Settings, kind, done, cache>>
    BY <1>19 DEF complete, At, answering, auth_vars, conf, Settings
  <2>2. CASE Audits(r, <<"completed">>) /\ Stays(r, "answer") /\ UNCHANGED <<status, sent>>
    BY <2>1, <2>2, Completes
  <2>3. CASE fails(r, 500)
    BY <2>1, <2>3, Fails DEF Answering
  <2>4. QED
    BY <1>19, <2>2, <2>3 DEF complete
<1>20. ASSUME NEW r \in Request, conversation_error(r) PROVE QueryInv'
  <2>1. pc[r] \notin Processed /\ UNCHANGED quiet
    BY <1>20, Place, PlaceNames DEF conversation_error, serving, auth_vars, conf, Settings, quiet
  <2>2. QED
    BY <1>20, <2>1, Refuses DEF conversation_error
<1>21. ASSUME NEW r \in Request, list_conversations(r) PROVE QueryInv'
  <2>1. pc[r] = "list" /\ UNCHANGED <<Settings, kind, sent, audit, done, cache>>
    BY <1>21 DEF list_conversations, At, serving, auth_vars, conf, Settings
  <2>2. QED
    BY <1>21, <2>1, ServesOnly DEF list_conversations
<1>22. ASSUME NEW r \in Request, get_conversation(r) PROVE QueryInv'
  <2>1. pc[r] = "get" /\ UNCHANGED <<Settings, kind, sent, audit, done, cache>>
    BY <1>22 DEF get_conversation, At, serving, auth_vars, conf, Settings
  <2>2. QED
    BY <1>22, <2>1, ServesOnly DEF get_conversation
<1>23. ASSUME NEW r \in Request, delete_conversation(r) PROVE QueryInv'
  <2>1. /\ pc[r] = "delete" /\ Replies(r, 200)
        /\ UNCHANGED <<Settings, kind, sent, audit, done, existed>>
        /\ turns' = [turns EXCEPT ![user[r]] = 0] /\ listed' = listed \ {user[r]}
    BY <1>23 DEF delete_conversation, At, serving, auth_vars, conf, Settings
  <2>2. CacheType' /\ DoneType'
    BY <2>1 DEF CacheType, DoneType, QueryInv, TypeOK
  <2>3. listed' \subseteq existed' /\ \A u \in Users : turns'[u] > 0 => u \in existed'
    <3>1. \A u \in Users : turns'[u] = IF u = user[r] THEN 0 ELSE turns[u]
      BY <2>1 DEF QueryInv, TypeOK
    <3>2. \A u \in Users : turns'[u] > 0 => u \in existed
      <4>1. \A u \in Users : turns'[u] > 0 => turns[u] > 0
        BY <3>1
      <4>2. QED
        BY <4>1 DEF QueryInv, Existing
    <3>3. QED
      BY <2>1, <3>2 DEF QueryInv, Existing
  <2>4. pc[r] \notin Processed /\ kind[r] \notin Queries
    BY <2>1, Place, PlaceNames DEF Queries
  <2>5. QED
    BY <2>1, <2>2, <2>3, <2>4, Serves
<1>24. ASSUME NEW r \in Request, update_conversation(r) PROVE QueryInv'
  <2>1. pc[r] = "update" /\ UNCHANGED quiet
    BY <1>24 DEF update_conversation, At, serving, auth_vars, conf, Settings, quiet
  <2>2. CASE turns[user[r]] > 0
    <3>1. user[r] \in existed
      BY <2>1, <2>2, Place, PlaceNames DEF QueryInv, Existing
    <3>2. Stays(r, "set summary") /\ UNCHANGED status
      BY <1>24, <2>2 DEF update_conversation
    <3>3. "set summary" \notin Processing \cup Answering
      BY DEF Processing, Answering
    <3>4. QED
      BY <2>1, <3>1, <3>2, <3>3, Labels, Place, PlaceNames, Moves
  <2>3. CASE ~(turns[user[r]] > 0)
    <3>1. Replies(r, 404)
      BY <1>24, <2>3 DEF update_conversation
    <3>2. pc[r] \notin Processed
      BY <2>1, Place, PlaceNames
    <3>3. QED
      BY <2>1, <3>1, <3>2, Refuses
  <2>4. QED
    BY <2>2, <2>3
<1>25. ASSUME NEW r \in Request, set_topic_summary(r) PROVE QueryInv'
  <2>1. /\ pc[r] = "set summary"
        /\ UNCHANGED <<Settings, kind, sent, audit, done, turns, existed>>
    BY <1>25 DEF set_topic_summary, At, serving, auth_vars, conf, Settings
  <2>2. CASE listed' = listed \cup {user[r]} /\ Replies(r, 200)
    <3>1. user[r] \in existed /\ existed \subseteq Users
      BY <2>1 DEF QueryInv, Existing, TypeOK
    <3>2. CacheType' /\ DoneType'
      BY <2>1, <2>2, <3>1 DEF CacheType, DoneType, QueryInv, TypeOK
    <3>3. listed' \subseteq existed' /\ \A u \in Users : turns'[u] > 0 => u \in existed'
      BY <2>1, <2>2, <3>1 DEF QueryInv, TypeOK, Existing
    <3>4. pc[r] \notin Processed /\ kind[r] \notin Queries
      BY <2>1, Place DEF Queries
    <3>5. 200 \in Nat
      OBVIOUS
    <3>6. UNCHANGED Settings /\ UNCHANGED <<kind, sent, audit, done, existed>>
      BY <2>1
    <3>7. UNCHANGED <<Settings, kind, sent, audit>>
      BY <3>6
    <3>8. /\ existed \subseteq existed' /\ \A q \in Request \ {r} : done'[q] = done[q]
          /\ "processed" \in done'[r] => "processed" \in done[r]
      BY <3>6
    <3>9. QED
      BY <2>2, <3>2, <3>3, <3>4, <3>5, <3>7, <3>8, Serves, ZenonT(30)
  <2>3. CASE Replies(r, 500) /\ UNCHANGED listed
    <3>1. UNCHANGED quiet /\ pc[r] \notin Processed
      BY <2>1, <2>3, Place, PlaceNames DEF quiet, cache
    <3>2. QED
      BY <2>3, <3>1, Refuses
  <2>4. QED
    BY <1>25, <2>2, <2>3 DEF set_topic_summary
<1>26. ASSUME NEW r \in Request, store_user_feedback(r) PROVE QueryInv'
  <2>1. pc[r] = "feedback" /\ UNCHANGED <<Settings, kind, sent, audit, turns, listed, existed>>
    BY <1>26 DEF store_user_feedback, At, serving, auth_vars, conf, Settings, cache
  <2>2. CASE Done(r, "feedback") /\ Replies(r, 200)
    <3>1. /\ DoneType' /\ \A q \in Request \ {r} : done'[q] = done[q]
          /\ "processed" \in done'[r] => "processed" \in done[r]
      BY <2>2 DEF Done, DoneType, QueryInv, TypeOK
    <3>2. CacheType' /\ listed' \subseteq existed' /\ \A u \in Users : turns'[u] > 0 => u \in existed'
      BY <2>1 DEF CacheType, QueryInv, TypeOK, Existing
    <3>3. pc[r] \notin Processed /\ kind[r] \notin Queries
      BY <2>1, Place, PlaceNames DEF Queries
    <3>4. QED
      BY <2>1, <2>2, <3>1, <3>2, <3>3, Serves
  <2>3. CASE Replies(r, 500) /\ UNCHANGED done
    <3>1. UNCHANGED quiet /\ pc[r] \notin Processed
      BY <2>1, <2>3, Place, PlaceNames DEF quiet, cache
    <3>2. QED
      BY <2>3, <3>1, Refuses
  <2>4. QED
    BY <1>26, <2>2, <2>3 DEF store_user_feedback
<1>27. ASSUME NEW r \in Request, is_user_authorized(r) PROVE QueryInv'
  <2>1. pc[r] = "authorized" /\ UNCHANGED <<Settings, kind, sent, audit, done, cache>>
    BY <1>27 DEF is_user_authorized, At, serving, auth_vars, conf, Settings
  <2>2. QED
    BY <1>27, <2>1, ServesOnly DEF is_user_authorized
<1>28. ASSUME NEW r \in Request, answer(r) PROVE QueryInv'
  BY <1>28, AnswerStep
<1>29. CASE UNCHANGED vars
  <2> USE <1>29 DEF vars, auth_vars, request, cache, conf
  <2>1. TypeOK'
    BY DEF QueryInv, TypeOK
  <2>2. Identified'
    BY DEF QueryInv, Identified, IdentifiedRequest
  <2>3. Told'
    BY DEF QueryInv, Told, ToldRequest
  <2>4. Durable' /\ Existing'
    BY DEF QueryInv, Durable, StoredRequest, Existing
  <2>5. QED
    BY <2>1, <2>2, <2>3, <2>4 DEF QueryInv
<1>30. QED
  BY <1>1, <1>2, <1>3, <1>4, <1>5, <1>6, <1>7, <1>8, <1>9, <1>10, <1>11, <1>12, <1>13,
     <1>14, <1>15, <1>16, <1>17, <1>18, <1>19, <1>20, <1>21, <1>22, <1>23, <1>24,
     <1>25, <1>26, <1>27, <1>28, <1>29 DEF Next

LEMMA QueryInitial == Init => QueryInv
<1> SUFFICES ASSUME Init PROVE QueryInv
  OBVIOUS
<1>1. TypeOK
  BY DEF Init, AuthInit, TypeOK, Label, Kind, Queries
<1>2. \A r \in Request : /\ pc[r] = "new" /\ status[r] = 0
                         /\ Closing(audit[r]) = {} /\ "error" \notin ToSet(sent[r])
                         /\ DOMAIN audit[r] = {} /\ done[r] = {}
  BY DEF Init, Closing, ToSet
<1>3. Identified
  BY <1>2 DEF Identified, IdentifiedRequest, Served
<1>4. Told
  BY <1>2 DEF Told, ToldRequest, Consistent, Kind, Queries, Processing, Answering
<1>5. Durable
  BY <1>2 DEF Durable, StoredRequest
<1>6. Existing
  BY <1>2 DEF Existing, Init
<1>7. QED
  BY <1>1, <1>3, <1>4, <1>5, <1>6 DEF QueryInv

LEMMA QueryInvariant == Spec => []QueryInv
  BY QueryInitial, QueryStep, PTL DEF Spec

-----------------------------------------------------------------------------
(* What the endpoints guarantee *)

\* Every handler of ols/app/endpoints keeps the state of its requests, of the
\* conversation cache and of the audit log well typed.
THEOREM QueryTypes == Spec => []TypeOK
  BY QueryInvariant, PTL DEF QueryInv

\* Behind Kubernetes authentication no handler works on a request unless its own
\* token was found valid and its user let in, and it works in that user's name
\* (k8s.AuthDependency.__call__), for any number of requests racing for the client.
THEOREM Admission == Spec => []OnlyAdmitted
<1>1. QueryInv => OnlyAdmitted
  BY DEF QueryInv, TypeOK, Identified, IdentifiedRequest, OnlyAdmitted, Served
<1>2. QED
  BY <1>1, QueryInvariant, PTL

\* Of both endpoints: every query that process_request let pass and whose client
\* stayed has a closing audit event, the last of its log, which agrees with the
\* status or the stream its client got; but for the reply of conversation_request
\* that cannot be built, a 500 behind request_completed.  Only a stream can be
\* closed twice: completed, and then failed for the end event.
THEOREM AuditAgreement == Spec => []AuditAgreesWithClient
<1>1. QueryInv => AuditAgreesWithClient
  BY DEF QueryInv, Told, ToldRequest, Consistent, AuditAgreesWithClient, Streaming, Last
<1>2. QED
  BY <1>1, QueryInvariant, PTL

\* A query audited as completed has been stored in the conversation cache,
\* transcribed where transcripts are kept, and paid for.
THEOREM Durability == Spec => []CompletedIsDurable
<1>1. QueryInv => CompletedIsDurable
  <2> SUFFICES ASSUME QueryInv, NEW r \in Request, "completed" \in ToSet(audit[r])
               PROVE  {"stored", "consumed"} \cup (IF transcripts_disabled THEN {} ELSE {"transcript"})
                         \subseteq done[r]
    BY DEF CompletedIsDurable
  <2>1. PICK i \in DOMAIN audit[r] : audit[r][i] = "completed"
    BY DEF ToSet
  <2>2. /\ "stored" \in done[r] /\ "consumed" \in done[r]
        /\ ~transcripts_disabled => "transcript" \in done[r]
    BY <2>1 DEF QueryInv, Durable, StoredRequest
  <2>3. QED
    BY <2>2
<1>2. QED
  BY <1>1, QueryInvariant, PTL

\* update_conversation checks and later assigns; whatever happens in between, it
\* lists no conversation that never had a turn.
THEOREM ListedExisted == Spec => []ListedHasExisted
<1>1. QueryInv => ListedHasExisted
  BY DEF QueryInv, Existing, ListedHasExisted
<1>2. QED
  BY <1>1, QueryInvariant, PTL

-----------------------------------------------------------------------------
(* Redaction *)

\* The fragments that texts are made of, those that no text keeps, and the rest.
Fragment == (UNION {ToSet(t) : t \in Text}) \cup {filters[i].replace_with : i \in 1..Len(filters)}

Final(i) == \A j \in i..Len(filters) : filters[j].replace_with # filters[i].pattern

Hidden == {filters[i].pattern : i \in {j \in 1..Len(filters) : Final(j)}}

Clean == Fragment \ Hidden

\* A query is clean from the moment it is kept; attachments are as they came for
\* one step only.
Redacted ==
    /\ seen \subseteq Clean
    /\ query \in [Request -> Seq(Clean)]
    /\ attachments \in [Request -> Seq(Seq(Fragment))]
    /\ \A r \in Request : pc[r] # "redact attachments" => attachments[r] \in Seq(Seq(Clean))

LEMMA LeastNumber ==
    ASSUME NEW T, T \subseteq Nat, T # {}
    PROVE  \E x \in T : \A y \in T : x <= y
<1>1. PICK x \in T : \A y \in T : ~ (<<y, x>> \in OpToRel(<, Nat))
  BY NatLessThanWellFounded, WFMin, Zenon
<1>2. \A y \in T : ~(y < x)
  BY <1>1 DEF OpToRel
<1>3. QED
  BY <1>2

LEMMA SeqElements ==
    ASSUME NEW S, NEW s \in Seq(S)
    PROVE  Len(s) \in Nat /\ DOMAIN s = 1..Len(s) /\ \A i \in 1..Len(s) : s[i] \in S
  OBVIOUS

LEMMA FunctionSeq ==
    ASSUME NEW S, NEW m \in Nat, NEW s \in [1..m -> S]
    PROVE  s \in Seq(S)
  OBVIOUS

LEMMA LastIndex == \A n \in Nat : n \in 0..n
  OBVIOUS

LEMMA ReplacementType ==
    ASSUME NEW i \in 1..Len(filters)
    PROVE  filters[i].replace_with \in Fragment
  BY DEF Fragment

LEMMA FiltersLength == Len(filters) \in Nat /\ DOMAIN filters = 1..Len(filters)
  BY FiltersAssumption

\* The texts of Redactor.redact after each of the first m filters.
Filtering(g, t, m) == g = [i \in 0..m |-> IF i = 0 THEN t ELSE subn(filters[i], g[i - 1])]

LEMMA FilteringExists ==
    ASSUME NEW t, NEW n \in Nat
    PROVE  \E g : Filtering(g, t, n)
<1> DEFINE T == {m \in Nat : ~\E g : Filtering(g, t, m)}
<1> SUFFICES ASSUME T # {} PROVE FALSE
  OBVIOUS
<1>1. PICK m \in T : \A y \in T : m <= y
  BY LeastNumber
<1>2. CASE m = 0
  <2>1. PICK g : g = [i \in 0..m |-> t]
    OBVIOUS
  <2>2. \A i \in 0..m : i = 0
    BY <1>2
  <2>3. Filtering(g, t, m)
    BY <2>1, <2>2 DEF Filtering
  <2>4. QED
    BY <2>3
<1>3. CASE m # 0
  <2>1. m - 1 \in Nat /\ m - 1 \notin T
    BY <1>1, <1>3
  <2>2. PICK g : Filtering(g, t, m - 1)
    BY <2>1
  <2>3. PICK h : h = [i \in 0..m |-> IF i = m THEN subn(filters[m], g[m - 1]) ELSE g[i]]
    OBVIOUS
  <2>4. ASSUME NEW i \in 0..m PROVE h[i] = IF i = 0 THEN t ELSE subn(filters[i], h[i - 1])
    <3>1. CASE i = m
      <4>1. i - 1 \in 0..m /\ i - 1 # m /\ i # 0
        BY <1>3, <3>1
      <4>2. h[i - 1] = g[m - 1]
        BY <2>3, <3>1, <4>1
      <4>3. QED
        BY <2>3, <3>1, <4>1, <4>2
    <3>2. CASE i # m
      <4>1. i \in 0..(m - 1)
        BY <3>2
      <4>2. h[i] = g[i]
        BY <2>3, <3>2
      <4>3. g[i] = IF i = 0 THEN t ELSE subn(filters[i], g[i - 1])
        BY <2>2, <4>1 DEF Filtering
      <4>4. CASE i = 0
        BY <4>2, <4>3, <4>4
      <4>5. CASE i # 0
        <5>1. i - 1 \in 0..m /\ i - 1 # m
          BY <3>2, <4>5
        <5>2. h[i - 1] = g[i - 1]
          BY <2>3, <5>1
        <5>3. QED
          BY <4>2, <4>3, <4>5, <5>2
      <4>6. QED
        BY <4>4, <4>5
    <3>3. QED
      BY <3>1, <3>2
  <2>5. h = [i \in 0..m |-> IF i = 0 THEN t ELSE subn(filters[i], h[i - 1])]
    BY <2>3, <2>4
  <2>6. QED
    BY <2>5 DEF Filtering
<1>4. QED
  BY <1>2, <1>3

\* What redact computes: no fragment is left that a filter looks for and no
\* later one writes.
LEMMA RedactClean ==
    ASSUME NEW t \in Seq(Fragment)
    PROVE  redact(t) \in Seq(Clean)
<1>1. PICK n \in Nat : n = Len(filters)
  BY FiltersLength
<1>2. PICK g : Filtering(g, t, n) /\ redact(t) = g[n]
  <2>1. PICK g : g = CHOOSE f : Filtering(f, t, n)
    OBVIOUS
  <2>2. Filtering(g, t, n)
    BY <2>1, FilteringExists
  <2>3. redact(t) = g[n]
    BY <1>1, <2>1, Zenon DEF redact, Filtering
  <2>4. QED
    BY <2>2, <2>3
<1>3. PICK k \in Nat : k = Len(t)
  OBVIOUS
<1> DEFINE Good(i) == /\ g[i] \in [1..k -> Fragment]
                      /\ \A h \in 1..i, p \in 1..k : Final(h) => g[i][p] # filters[h].pattern
<1>4. \A i \in 0..n : Good(i)
  <2> DEFINE T == {i \in 0..n : ~Good(i)}
  <2> SUFFICES ASSUME T # {} PROVE FALSE
    OBVIOUS
  <2>1. T \subseteq Nat
    OBVIOUS
  <2> HIDE DEF T
  <2>2. PICK i \in T : \A y \in T : i <= y
    BY <2>1, LeastNumber
  <2> USE DEF T
  <2>3. CASE i = 0
    <3>1. g[0] = t
      BY <1>2 DEF Filtering
    <3>2. t \in [1..k -> Fragment]
      BY <1>3
    <3>3. QED
      BY <2>2, <2>3, <3>1, <3>2
  <2>4. CASE i # 0
    <3>1. i \in 1..n /\ i - 1 \in 0..n /\ i - 1 \notin T
      BY <2>2, <2>4
    <3>2. Good(i - 1)
      BY <3>1
    <3>3. g[i] = subn(filters[i], g[i - 1])
      BY <1>2, <2>4 DEF Filtering
    <3>4. PICK s \in [1..k -> Fragment] : s = g[i - 1]
      BY <3>2
    <3>5. g[i] = [p \in 1..k |-> IF s[p] = filters[i].pattern THEN filters[i].replace_with ELSE s[p]]
      BY <3>3, <3>4 DEF subn
    <3>6. filters[i].replace_with \in Fragment
      <4>1. i \in 1..Len(filters)
        BY <1>1, <3>1
      <4>2. QED
        BY <4>1, ReplacementType
    <3>7. g[i] \in [1..k -> Fragment]
      BY <3>5, <3>6
    <3>8. ASSUME NEW h \in 1..i, NEW p \in 1..k, Final(h) PROVE g[i][p] # filters[h].pattern
      <4>1. i \in h..Len(filters)
        BY <1>1, <3>1
      <4>2. filters[i].replace_with # filters[h].pattern
        BY <3>8, <4>1 DEF Final
      <4>3. CASE s[p] = filters[i].pattern
        BY <3>5, <4>2, <4>3
      <4>4. CASE s[p] # filters[i].pattern
        <5>1. g[i][p] = s[p]
          BY <3>5, <4>4
        <5>2. CASE h = i
          BY <4>4, <5>1, <5>2
        <5>3. CASE h # i
          <6>1. h \in 1..(i - 1)
            BY <3>1, <5>3
          <6>2. QED
            BY <3>2, <3>4, <3>8, <5>1, <6>1
        <5>4. QED
          BY <5>2, <5>3
      <4>5. QED
        BY <4>3, <4>4
    <3>9. QED
      BY <3>7, <3>8
  <2>5. QED
    BY <2>3, <2>4
<1>5. g[n] \in [1..k -> Fragment] /\ \A p \in 1..k : g[n][p] \notin Hidden
  BY <1>1, <1>4 DEF Hidden
<1>6. g[n] \in [1..k -> Clean]
  BY <1>5 DEF Clean
<1>7. QED
  BY <1>2, <1>6

\* Appending clean attachments to a clean query.
LEMMA AppendClean ==
    ASSUME NEW S, NEW q \in Seq(S), NEW as \in Seq(Seq(S))
    PROVE  append_attachments_to_query(q, as) \in Seq(S)
<1> DEFINE Output(g, m) == g = [i \in 0..m |-> IF i = 0 THEN q ELSE g[i - 1] \o as[i]]
<1>1. PICK Q : Q = Seq(S)
  OBVIOUS
<1>2. PICK n \in Nat : n = Len(as) /\ \A i \in 1..n : as[i] \in Q
  <2>1. as \in Seq(Q)
    BY <1>1
  <2>2. QED
    BY <2>1, SeqElements, Zenon
<1>3. \A m \in Nat : \E g : Output(g, m)
  <2> DEFINE T == {m \in Nat : ~\E g : Output(g, m)}
  <2> SUFFICES ASSUME T # {} PROVE FALSE
    OBVIOUS
  <2>1. T \subseteq Nat
    OBVIOUS
  <2> HIDE DEF T
  <2>2. PICK m \in T : \A y \in T : m <= y
    BY <2>1, LeastNumber
  <2>3. m \in Nat
    BY <2>1
  <2>4. m # 0 => m - 1 \in Nat /\ m - 1 \notin T
    BY <2>2, <2>3
  <2> USE DEF T
  <2>5. CASE m = 0
    <3>1. PICK g : g = [i \in 0..m |-> q]
      OBVIOUS
    <3>2. \A i \in 0..m : i = 0
      BY <2>5
    <3>3. Output(g, m)
      BY <3>1, <3>2
    <3>4. QED
      BY <3>3
  <2>6. CASE m # 0
    <3>1. m - 1 \in Nat /\ m - 1 \notin T
      BY <2>6, <2>4
    <3>2. PICK g : Output(g, m - 1)
      BY <3>1
    <3>3. PICK h : h = [i \in 0..m |-> IF i = m THEN g[m - 1] \o as[m] ELSE g[i]]
      OBVIOUS
    <3>4. ASSUME NEW i \in 0..m PROVE h[i] = IF i = 0 THEN q ELSE h[i - 1] \o as[i]
      <4>1. CASE i = m
        <5>1. i - 1 \in 0..m /\ i - 1 # m /\ i # 0
          BY <2>6, <4>1
        <5>2. h[i - 1] = g[m - 1]
          BY <3>3, <4>1, <5>1
        <5>3. QED
          BY <3>3, <4>1, <5>1, <5>2
      <4>2. CASE i # m
        <5>1. i \in 0..(m - 1)
          BY <4>2
        <5>2. h[i] = g[i]
          BY <3>3, <4>2
        <5>3. g[i] = IF i = 0 THEN q ELSE g[i - 1] \o as[i]
          BY <3>2, <5>1
        <5>4. CASE i = 0
          BY <5>2, <5>3, <5>4
        <5>5. CASE i # 0
          <6>1. i - 1 \in 0..m /\ i - 1 # m
            BY <4>2, <5>5
          <6>2. h[i - 1] = g[i - 1]
            BY <3>3, <6>1
          <6>3. QED
            BY <5>2, <5>3, <5>5, <6>2
        <5>6. QED
          BY <5>4, <5>5
      <4>3. QED
        BY <4>1, <4>2
    <3>5. Output(h, m)
      BY <3>3, <3>4
    <3>6. QED
      BY <3>5
  <2>7. QED
    BY <2>5, <2>6
<1>4. PICK g : Output(g, n) /\ append_attachments_to_query(q, as) = g[n]
  <2>1. PICK g : g = CHOOSE f : Output(f, n)
    OBVIOUS
  <2>2. Output(g, n)
    BY <1>3, <2>1
  <2>3. append_attachments_to_query(q, as) = g[n]
    BY <1>2, <2>1, Zenon DEF append_attachments_to_query
  <2>4. QED
    BY <2>2, <2>3
<1>5. \A i \in 0..n : g[i] \in Seq(S)
  <2> DEFINE T == {i \in 0..n : g[i] \notin Seq(S)}
  <2> SUFFICES ASSUME T # {} PROVE FALSE
    OBVIOUS
  <2>1. T \subseteq Nat
    OBVIOUS
  <2> HIDE DEF T
  <2>2. PICK i \in T : \A y \in T : i <= y
    BY <2>1, LeastNumber
  <2> USE DEF T
  <2>3. CASE i = 0
    <3>1. g[0] = q
      BY <1>4
    <3>2. QED
      BY <2>2, <2>3, <3>1
  <2>4. CASE i # 0
    <3>1. i \in 1..n /\ i - 1 \in 0..n /\ i - 1 \notin T
      BY <2>2, <2>4
    <3>2. g[i - 1] \in Seq(S)
      BY <3>1
    <3>3. as[i] \in Seq(S)
      BY <1>1, <1>2, <3>1
    <3>4. g[i] = g[i - 1] \o as[i]
      BY <1>4, <2>4
    <3>5. g[i] \in Seq(S)
      BY <3>2, <3>3, <3>4, ConcatProperties
    <3>6. QED
      BY <2>2, <3>5
  <2>5. QED
    BY <2>3, <2>4
<1>6. n \in 0..n
  BY LastIndex, Zenon
<1>7. QED
  BY <1>4, <1>5, <1>6, Zenon

LEMMA FragmentsClean ==
    ASSUME NEW q \in Seq(Clean), NEW as \in Seq(Seq(Clean))
    PROVE  Fragments({q}) \subseteq Clean /\ Fragments({q} \cup ToSet(as)) \subseteq Clean
<1>1. PICK Q : Q = Seq(Clean)
  OBVIOUS
<1>2. as \in Seq(Q) /\ q \in Q
  BY <1>1
<1>3. \A i \in DOMAIN as : as[i] \in Q
  BY <1>2, SeqElements, Zenon
<1>4. \A t \in {q} \cup ToSet(as) : t \in Q
  BY <1>2, <1>3 DEF ToSet
<1>5. ASSUME NEW t \in Seq(Clean) PROVE ToSet(t) \subseteq Clean
  BY DEF ToSet
<1>6. \A t \in {q} \cup ToSet(as) : ToSet(t) \subseteq Clean
  BY <1>1, <1>4, <1>5
<1>7. QED
  BY <1>6 DEF Fragments

LEMMA TextType ==
    ASSUME NEW as \in BoundedSeq(Text, MaxAttachments)
    PROVE  as \in Seq(Seq(Fragment))
<1>1. \A t \in Text : t \in Seq(Fragment)
  <2> SUFFICES ASSUME NEW t \in Text PROVE t \in Seq(Fragment)
    OBVIOUS
  <2>1. t \in Seq(ToSet(t))
    BY TextAssumption
  <2>2. ToSet(t) \subseteq Fragment
    BY Zenon DEF Fragment
  <2>3. QED
    BY <2>1, <2>2
<1>2. PICK m \in 0..MaxAttachments : as \in [1..m -> Text]
  BY DEF BoundedSeq, SeqOf
<1>3. m \in Nat
  BY AttachmentsAssumption
<1>4. PICK Q : Q = Seq(Fragment)
  OBVIOUS
<1>5. as \in [1..m -> Q]
  BY <1>1, <1>2, <1>4
<1>6. as \in Seq(Q)
  BY <1>3, <1>5, FunctionSeq, Zenon
<1>7. QED
  BY <1>4, <1>6

LEMMA RedactedAttachments ==
    ASSUME NEW as \in Seq(Seq(Fragment))
    PROVE  redacted(as) \in Seq(Seq(Clean))
<1>1. PICK Q : Q = Seq(Fragment)
  OBVIOUS
<1>2. PICK n \in Nat : n = Len(as) /\ DOMAIN as = 1..n /\ \A i \in 1..n : as[i] \in Q
  BY <1>1, SeqElements, Zenon
<1>3. PICK C : C = Seq(Clean)
  OBVIOUS
<1>4. \A i \in 1..n : redact(as[i]) \in C
  BY <1>1, <1>2, <1>3, RedactClean, Zenon
<1>5. redacted(as) \in [1..n -> C]
  BY <1>2, <1>4 DEF redacted
<1>6. QED
  BY <1>3, <1>5, FunctionSeq, Zenon

\* A request keeps its texts, leaves them behind, or sees them.
LEMMA KeepsTexts ==
    ASSUME TypeOK, Redacted, NEW r \in Request, NEW p, p # "redact attachments",
           pc' = [pc EXCEPT ![r] = p],
           \/ UNCHANGED <<query, attachments>> /\ pc[r] # "redact attachments"
           \/ /\ query' = [query EXCEPT ![r] = <<>>]
              /\ attachments' = [attachments EXCEPT ![r] = <<>>],
           \/ seen' = seen
           \/ pc[r] # "redact attachments" /\ Sees({query[r]})
           \/ pc[r] # "redact attachments" /\ Sees({query[r]} \cup ToSet(attachments[r]))
    PROVE  Redacted'
<1>1. PICK C : C = Seq(Clean)
  OBVIOUS
<1>2. PICK A : A = Seq(Seq(Fragment))
  OBVIOUS
<1>3. PICK B : B = Seq(Seq(Clean))
  OBVIOUS
<1>4. <<>> \in C /\ <<>> \in A /\ <<>> \in B
  <2>1. \A S : <<>> \in Seq(S)
    BY EmptySeq, Zenon
  <2>2. QED
    BY <1>1, <1>2, <1>3, <2>1, Zenon
<1>5. /\ query \in [Request -> C] /\ attachments \in [Request -> A] /\ seen \subseteq Clean
      /\ \A q \in Request : pc[q] # "redact attachments" => attachments[q] \in B
  BY <1>1, <1>2, <1>3, Zenon DEF Redacted
<1>6. seen' \subseteq Clean
  <2>1. CASE seen' = seen
    BY <1>5, <2>1
  <2>2. CASE pc[r] # "redact attachments" /\ seen' # seen
    <3>1. query[r] \in C /\ attachments[r] \in B
      BY <1>5, <2>2
    <3>2. /\ Fragments({query[r]}) \subseteq Clean
          /\ Fragments({query[r]} \cup ToSet(attachments[r])) \subseteq Clean
      BY <1>1, <1>3, <3>1, FragmentsClean, Zenon
    <3>3. Sees({query[r]}) \/ Sees({query[r]} \cup ToSet(attachments[r]))
      BY <2>2, Zenon
    <3>4. QED
      BY <1>5, <3>2, <3>3, Zenon DEF Sees
  <2>3. QED
    BY <2>1, <2>2
<1>7. query' \in [Request -> C] /\ attachments' \in [Request -> A]
  BY <1>4, <1>5
<1>8. \A q \in Request : pc'[q] # "redact attachments" => attachments'[q] \in B
  BY <1>4, <1>5 DEF TypeOK
<1>9. QED
  BY <1>1, <1>2, <1>3, <1>6, <1>7, <1>8, Zenon DEF Redacted

\* What the service takes of r's texts in a step.
Notices(r) ==
    \/ seen' = seen
    \/ pc[r] # "redact attachments" /\ Sees({query[r]})
    \/ pc[r] # "redact attachments" /\ Sees({query[r]} \cup ToSet(attachments[r]))

LEMMA LeavesClean ==
    ASSUME TypeOK, Redacted, NEW r \in Request, NEW p, p # "redact attachments",
           Leaves(r, p), Notices(r)
    PROVE  Redacted'
<1>1. /\ pc' = [pc EXCEPT ![r] = p] /\ query' = [query EXCEPT ![r] = <<>>]
      /\ attachments' = [attachments EXCEPT ![r] = <<>>]
  BY Zenon DEF Leaves, To
<1>2. QED
  BY <1>1, KeepsTexts, Zenon DEF Notices

LEMMA StaysClean ==
    ASSUME TypeOK, Redacted, NEW r \in Request, NEW p, p # "redact attachments",
           pc[r] # "redact attachments", To(r, p), query' = query, attachments' = attachments,
           Notices(r)
    PROVE  Redacted'
<1>1. pc' = [pc EXCEPT ![r] = p] /\ UNCHANGED <<query, attachments>>
  BY Zenon DEF To
<1>2. QED
  BY <1>1, KeepsTexts, Zenon DEF Notices

LEMMA RedactQueryClean ==
    ASSUME TypeOK, Redacted, NEW r \in Request, redact_query(r)
    PROVE  Redacted'
<1>1. CASE rejected(r, 500)
  BY <1>1, LeavesClean, Zenon DEF rejected, Replies, Notices
<1>2. CASE ~rejected(r, 500)
  <2>1. PICK t \in Text : query' = [query EXCEPT ![r] = redact(t)]
    BY <1>2, Zenon DEF redact_query
  <2>2. /\ pc[r] = "redact query" /\ pc' = [pc EXCEPT ![r] = "attachments"]
        /\ attachments' = attachments /\ seen' = seen
    BY <1>2, Zenon DEF redact_query, At, To
  <2>3. PICK C : C = Seq(Clean)
    OBVIOUS
  <2>4. redact(t) \in C
    <3>1. t \in Seq(ToSet(t)) /\ ToSet(t) \subseteq Fragment
      BY TextAssumption DEF Fragment
    <3>2. t \in Seq(Fragment)
      BY <3>1
    <3>3. QED
      BY <2>3, <3>2, RedactClean, Zenon
  <2>5. query \in [Request -> C]
    BY <2>3, Zenon DEF Redacted
  <2>6. query' \in [Request -> C]
    BY <2>1, <2>4, <2>5
  <2>7. PICK B : B = Seq(Seq(Clean))
    OBVIOUS
  <2>8. \A q \in Request : pc[q] # "redact attachments" => attachments[q] \in B
    BY <2>7, Zenon DEF Redacted
  <2>9. \A q \in Request : pc'[q] # "redact attachments" => attachments'[q] \in B
    BY <2>2, <2>8 DEF TypeOK
  <2>10. QED
    BY <2>2, <2>3, <2>6, <2>7, <2>9, Zenon DEF Redacted
<1>3. QED
  BY <1>1, <1>2

LEMMA RetrieveAttachmentsClean ==
    ASSUME TypeOK, Redacted, NEW r \in Request, retrieve_attachments(r)
    PROVE  Redacted'
<1>1. CASE rejected(r, 422)
  BY <1>1, LeavesClean, Zenon DEF rejected, Replies, Notices
<1>2. CASE ~rejected(r, 422)
  <2>1. PICK as \in BoundedSeq(Text, MaxAttachments) : attachments' = [attachments EXCEPT ![r] = as]
    BY <1>2, Zenon DEF retrieve_attachments
  <2>2. pc' = [pc EXCEPT ![r] = "redact attachments"] /\ query' = query /\ seen' = seen
    BY <1>2, Zenon DEF retrieve_attachments, To
  <2>3. PICK A : A = Seq(Seq(Fragment))
    OBVIOUS
  <2>4. as \in A
    BY <2>3, TextType, Zenon
  <2>5. attachments \in [Request -> A]
    BY <2>3, Zenon DEF Redacted
  <2>6. attachments' \in [Request -> A]
    BY <2>1, <2>4, <2>5
  <2>7. PICK B : B = Seq(Seq(Clean))
    OBVIOUS
  <2>8. \A q \in Request : pc[q] # "redact attachments" => attachments[q] \in B
    BY <2>7, Zenon DEF Redacted
  <2>9. \A q \in Request : pc'[q] # "redact attachments" => attachments'[q] \in B
    BY <2>1, <2>2, <2>5, <2>8 DEF TypeOK
  <2>10. QED
    BY <2>2, <2>3, <2>6, <2>7, <2>9, Zenon DEF Redacted
<1>3. QED
  BY <1>1, <1>2

LEMMA RedactAttachmentsClean ==
    ASSUME TypeOK, Redacted, NEW r \in Request, redact_attachments(r)
    PROVE  Redacted'
<1>1. CASE rejected(r, 500)
  BY <1>1, LeavesClean, Zenon DEF rejected, Replies, Notices
<1>2. CASE ~rejected(r, 500)
  <2>1. PICK as : as = redacted(attachments[r])
    OBVIOUS
  <2>2. /\ Sees({query[r]} \cup ToSet(as)) /\ attachments' = [attachments EXCEPT ![r] = as]
        /\ query' = [query EXCEPT ![r] = append_attachments_to_query(query[r], as)]
        /\ pc' = [pc EXCEPT ![r] = "validate"]
    BY <1>2, <2>1, Zenon DEF redact_attachments, To
  <2>3. PICK C : C = Seq(Clean)
    OBVIOUS
  <2>4. PICK A : A = Seq(Seq(Fragment))
    OBVIOUS
  <2>5. PICK B : B = Seq(Seq(Clean))
    OBVIOUS
  <2>6. /\ query \in [Request -> C] /\ attachments \in [Request -> A] /\ seen \subseteq Clean
        /\ \A q \in Request : pc[q] # "redact attachments" => attachments[q] \in B
    BY <2>3, <2>4, <2>5, Zenon DEF Redacted
  <2>7. query[r] \in C /\ attachments[r] \in A
    BY <2>6
  <2>8. as \in B
    BY <2>1, <2>4, <2>5, <2>7, RedactedAttachments, Zenon
  <2>9. B \subseteq A
    <3>1. C \subseteq Seq(Fragment)
      BY <2>3 DEF Clean
    <3>2. PICK Q : Q = Seq(Fragment)
      OBVIOUS
    <3>3. Seq(C) \subseteq Seq(Q)
      BY <3>1, <3>2
    <3>4. QED
      BY <2>3, <2>4, <2>5, <3>2, <3>3, Zenon
  <2>10. append_attachments_to_query(query[r], as) \in C
    BY <2>3, <2>5, <2>7, <2>8, AppendClean, Zenon
  <2>11. Fragments({query[r]} \cup ToSet(as)) \subseteq Clean
    BY <2>3, <2>5, <2>7, <2>8, FragmentsClean, Zenon
  <2>12. seen' \subseteq Clean
    BY <2>2, <2>6, <2>11 DEF Sees
  <2>13. query' \in [Request -> C] /\ attachments' \in [Request -> A]
    BY <2>2, <2>6, <2>8, <2>9, <2>10
  <2>14. \A q \in Request : pc'[q] # "redact attachments" => attachments'[q] \in B
    BY <2>2, <2>6, <2>8 DEF TypeOK
  <2>15. QED
    BY <2>3, <2>4, <2>5, <2>12, <2>13, <2>14, Zenon DEF Redacted
<1>3. QED
  BY <1>1, <1>2

\* An error ends the request, with a status or on the stream.
LEMMA FailsClean ==
    ASSUME TypeOK, Redacted, NEW r \in Request, NEW c, fails(r, c), Notices(r)
    PROVE  Redacted'
<1>1. Leaves(r, "over")
  BY Zenon DEF fails, Replies
<1>2. QED
  BY <1>1, LeavesClean

LEMMA RepliesClean ==
    ASSUME TypeOK, Redacted, NEW r \in Request, NEW c, Replies(r, c), Notices(r)
    PROVE  Redacted'
  BY LeavesClean DEF Replies

LEMMA RedactedStep ==
    ASSUME TypeOK, Redacted, [Next]_vars
    PROVE  Redacted'
<1>1. ASSUME UNCHANGED vars PROVE Redacted'
  <2>1. UNCHANGED <<pc, query, attachments, seen>>
    BY <1>1, Zenon DEF vars, request
  <2>2. QED
    BY <2>1, Zenon DEF Redacted
<1>2. ASSUME NEW r \in Request,
             \/ arrive(r) \/ auth_client(r) \/ auth_client_built(r) \/ authenticate(r)
             \/ retrieve_conversation_id(r) \/ validate_requested_provider_model(r)
             \/ check_tokens_available(r) \/ start_stream(r) \/ disconnect(r)
             \/ consume_tokens(r) \/ complete(r) \/ answer(r)
             \/ conversation_error(r) \/ list_conversations(r) \/ get_conversation(r)
             \/ delete_conversation(r) \/ update_conversation(r) \/ set_topic_summary(r)
             \/ store_user_feedback(r) \/ is_user_authorized(r)
      PROVE  /\ seen' = seen /\ pc[r] # "redact attachments"
             /\ \/ \E c : Replies(r, c) \/ fails(r, c)
                \/ Leaves(r, "over") \/ Leaves(r, "gone")
                \/ \E p \in Label \ {"redact attachments"} :
                      To(r, p) /\ query' = query /\ attachments' = attachments
  <2> USE DEF Label, Kind, Queries, Processing, Answering, At, Stays
  <2>1. CASE arrive(r)
    BY <2>1, Zenon DEF arrive
  <2>2. CASE auth_client(r)
    BY <2>2, Zenon DEF auth_client
  <2>3. CASE auth_client_built(r)
    BY <2>3, Zenon DEF auth_client_built
  <2>4. CASE authenticate(r)
    <3>1. kind[r] \in Label \ {"redact attachments"}
      BY DEF TypeOK
    <3>2. QED
      BY <2>4, <3>1, Zenon DEF authenticate
  <2>5. CASE retrieve_conversation_id(r)
    BY <2>5, Zenon DEF retrieve_conversation_id, rejected
  <2>6. CASE validate_requested_provider_model(r) \/ check_tokens_available(r)
    BY <2>6, Zenon DEF validate_requested_provider_model, check_tokens_available, rejected, passes
  <2>7. CASE start_stream(r)
    BY <2>7, Zenon DEF start_stream
  <2>8. CASE disconnect(r)
    BY <2>8, Zenon DEF disconnect
  <2>9. CASE consume_tokens(r)
    BY <2>9, Zenon DEF consume_tokens, goes_on
  <2>10. CASE complete(r) \/ answer(r)
    <3>1. CASE complete(r)
      BY <3>1, Zenon DEF complete
    <3>2. CASE answer(r)
      BY <3>2, ZenonT(30) DEF answer, Answers
    <3>3. QED
      BY <2>10, <3>1, <3>2
  <2>11. CASE conversation_error(r)
    BY <2>11, ZenonT(30) DEF conversation_error, serving
  <2>12. CASE list_conversations(r)
    BY <2>12, ZenonT(30) DEF list_conversations, serving
  <2>13. CASE get_conversation(r)
    BY <2>13, ZenonT(30) DEF get_conversation, serving
  <2>14. CASE delete_conversation(r)
    BY <2>14, ZenonT(30) DEF delete_conversation, serving
  <2>15. CASE update_conversation(r)
    BY <2>15, ZenonT(30) DEF update_conversation, serving
  <2>16. CASE set_topic_summary(r)
    BY <2>16, ZenonT(30) DEF set_topic_summary, serving
  <2>17. CASE store_user_feedback(r)
    BY <2>17, ZenonT(30) DEF store_user_feedback, serving
  <2>18. CASE is_user_authorized(r)
    BY <2>18, ZenonT(30) DEF is_user_authorized, serving
  <2>19. QED
    BY <1>2, <2>1, <2>2, <2>3, <2>4, <2>5, <2>6, <2>7, <2>8, <2>9, <2>10, <2>11, <2>12, <2>13,
       <2>14, <2>15, <2>16, <2>17, <2>18, Zenon
<1>3. ASSUME NEW r \in Request, Notices(r), pc[r] # "redact attachments",
             \/ \E c : Replies(r, c) \/ fails(r, c)
             \/ Leaves(r, "over") \/ Leaves(r, "gone")
             \/ \E p \in Label \ {"redact attachments"} :
                   To(r, p) /\ query' = query /\ attachments' = attachments
      PROVE  Redacted'
  <2>1. CASE \E c : Replies(r, c) \/ fails(r, c)
    BY <1>3, <2>1, RepliesClean, FailsClean, Zenon
  <2>2. CASE Leaves(r, "over") \/ Leaves(r, "gone")
    BY <1>3, <2>2, LeavesClean
  <2>3. CASE \E p \in Label \ {"redact attachments"} :
                To(r, p) /\ query' = query /\ attachments' = attachments
    BY <1>3, <2>3, StaysClean, Zenon
  <2>4. QED
    BY <1>3, <2>1, <2>2, <2>3
\* The steps that take the texts somewhere.
<1>4. ASSUME NEW r \in Request,
             \/ generate_response(r) \/ stream_event(r) \/ stream_ends(r)
             \/ store_conversation_history(r) \/ store_transcript(r)
      PROVE  /\ Notices(r) /\ pc[r] # "redact attachments"
             /\ \/ \E c : Replies(r, c) \/ fails(r, c)
                \/ Leaves(r, "over") \/ Leaves(r, "gone")
                \/ \E p \in Label \ {"redact attachments"} :
                      To(r, p) /\ query' = query /\ attachments' = attachments
  <2>1. {"store", "stream", "transcript", "consume"} \subseteq Label \ {"redact attachments"}
    BY DEF Label, Answering
  <2> USE DEF At, Stays, goes_on, Notices
  <2>2. CASE generate_response(r)
    BY <2>1, <2>2, Zenon DEF generate_response
  <2>3. CASE stream_event(r)
    <3>1. pc[r] = "stream" /\ UNCHANGED <<pc, query, attachments>> /\ Sees({query[r]})
      BY <2>3, Zenon DEF stream_event, request
    <3>2. To(r, "stream")
      BY <3>1 DEF To, TypeOK
    <3>3. pc[r] # "redact attachments"
      BY <3>1
    <3>4. QED
      BY <2>1, <3>1, <3>2, <3>3, Zenon
  <2>4. CASE stream_ends(r)
    BY <2>1, <2>4, Zenon DEF stream_ends
  <2>5. CASE store_conversation_history(r)
    BY <2>1, <2>5, Zenon DEF store_conversation_history, Stored
  <2>6. CASE store_transcript(r)
    BY <2>1, <2>6, Zenon DEF store_transcript
  <2>7. QED
    BY <1>4, <2>2, <2>3, <2>4, <2>5, <2>6
<1>5. ASSUME NEW r \in Request, redact_query(r) \/ retrieve_attachments(r) \/ redact_attachments(r)
      PROVE  Redacted'
  BY <1>5, RedactQueryClean, RetrieveAttachmentsClean, RedactAttachmentsClean
<1>6. CASE Next
  <2>1. PICK r \in Request :
        \/ arrive(r) \/ auth_client(r) \/ auth_client_built(r) \/ authenticate(r)
        \/ retrieve_conversation_id(r) \/ redact_query(r) \/ retrieve_attachments(r)
        \/ redact_attachments(r) \/ validate_requested_provider_model(r)
        \/ check_tokens_available(r)
        \/ generate_response(r) \/ start_stream(r) \/ stream_event(r) \/ stream_ends(r)
        \/ disconnect(r) \/ store_conversation_history(r) \/ store_transcript(r)
        \/ consume_tokens(r) \/ complete(r) \/ answer(r)
        \/ conversation_error(r) \/ list_conversations(r) \/ get_conversation(r)
        \/ delete_conversation(r) \/ update_conversation(r) \/ set_topic_summary(r)
        \/ store_user_feedback(r) \/ is_user_authorized(r)
    BY <1>6, Zenon DEF Next
  <2>2. seen' = seen => Notices(r)
    BY DEF Notices
  <2>3. QED
    BY <1>2, <1>3, <1>4, <1>5, <2>1, <2>2, ZenonT(30)
<1>7. QED
  BY <1>1, <1>6

\* For any filters and any number of them: what a filter looks for, and no later
\* one writes, is in no prompt, cache entry, transcript or audit event, whichever
\* variable of the handlers each of them takes the texts from.
THEOREM NothingLeaks == Spec => []NothingUnredacted
<1>1. Init => Redacted
  <2> SUFFICES ASSUME Init PROVE Redacted
    OBVIOUS
  <2>1. \A S : <<>> \in Seq(S)
    BY EmptySeq, Zenon
  <2>2. PICK C : C = Seq(Clean)
    OBVIOUS
  <2>3. PICK A : A = Seq(Seq(Fragment))
    OBVIOUS
  <2>4. PICK B : B = Seq(Seq(Clean))
    OBVIOUS
  <2>5. <<>> \in C /\ <<>> \in A /\ <<>> \in B
    BY <2>1, <2>2, <2>3, <2>4, Zenon
  <2>6. /\ query = [r \in Request |-> <<>>] /\ attachments = [r \in Request |-> <<>>]
        /\ seen = {}
    BY Zenon DEF Init
  <2>7. query \in [Request -> C] /\ attachments \in [Request -> A]
    BY <2>5, <2>6
  <2>8. \A r \in Request : attachments[r] \in B
    BY <2>5, <2>6
  <2>9. seen \subseteq Clean
    BY <2>6
  <2>10. QED
    BY <2>2, <2>3, <2>4, <2>7, <2>8, <2>9, Zenon DEF Redacted
<1>2. QueryInv => TypeOK
  BY DEF QueryInv
<1>3. TypeOK /\ Redacted /\ [Next]_vars => Redacted'
  BY RedactedStep
<1>4. Redacted => NothingUnredacted
  <2> SUFFICES ASSUME Redacted, NEW i \in DOMAIN filters,
                      \A j \in i..Len(filters) : filters[j].replace_with # filters[i].pattern
               PROVE  filters[i].pattern \notin seen
    BY DEF NothingUnredacted
  <2>1. i \in 1..Len(filters) /\ Final(i)
    BY FiltersLength DEF Final
  <2>2. filters[i].pattern \in Hidden
    BY <2>1, Zenon DEF Hidden
  <2>3. QED
    BY <2>2 DEF Redacted, Clean
<1>5. QED
  BY <1>1, <1>2, <1>3, <1>4, QueryInvariant, PTL DEF Spec
=============================================================================
