---------------------------- MODULE QueryRequest ----------------------------
(***************************************************************************)
(* The endpoints of ols/app/endpoints: ols.py, streaming_ols.py,           *)
(* conversations.py, feedback.py and authorized.py, from authentication to *)
(* the last byte of the answer, with everything a request leaves behind:   *)
(* turns in the conversation cache, transcripts, feedback, debited tokens  *)
(* and audit events.                                                       *)
(*                                                                         *)
(* A text is a sequence of fragments; some fragments are what the          *)
(* configured filters look for.  The model, the cache and the quota tables *)
(* are used as a whole; AgentLoop, PostgresCache and Quota open them up.   *)
(* Every user has one conversation.  Inputs are chosen where the code      *)
(* first reads them, and forgotten with the request.                       *)
(***************************************************************************)
EXTENDS Auth, Sequences, SequencesExt, FiniteSets

CONSTANTS
    Request,
    filters,        \* query_filters: a sequence of [pattern, replace_with]
    Text,           \* bound: queries and contents of attachments
    MaxAttachments  \* bound

ASSUME FiltersAssumption == filters \in Seq(ToSet(filters))
ASSUME TextAssumption == \A t \in Text : t \in Seq(ToSet(t))
ASSUME AttachmentsAssumption == MaxAttachments \in Nat

VARIABLES
    pc,             \* where the request is
    kind,           \* its endpoint
    header,         \* its Authorization header
    user,           \* auth[0]
    query,          \* llm_request.query, once it is redacted
    attachments,    \* attachments of processed_request, before that llm_request's
    status,         \* HTTP status of the reply, 0 before
    sent,           \* events sent on the stream
    audit,          \* audit events of the request
    done,           \* history: what the request has completed
    turns,          \* the conversation cache, by user
    listed,         \* its metadata
    existed,        \* history: users that ever had a turn stored
    seen,           \* history: fragments in any prompt, cache entry, transcript, audit event
    transcripts_disabled,
    feedback_disabled

conf == <<transcripts_disabled, feedback_disabled>>
request == <<kind, header, user, query, attachments>>
cache == <<turns, listed, existed>>
vars == <<auth_vars, pc, request, status, sent, audit, done, cache, seen, conf>>

Queries == {"query", "streaming_query"}
Kind == Queries \cup {"get", "list", "delete", "update", "feedback", "authorized"}
Users == {uid(u) : u \in Username} \cup {DefaultUser}

Init ==
    /\ AuthInit
    /\ pc = [r \in Request |-> "new"]
    /\ kind = [r \in Request |-> "query"]
    /\ header = [r \in Request |-> Nobody]
    /\ user = [r \in Request |-> Nobody]
    /\ query = [r \in Request |-> <<>>]
    /\ attachments = [r \in Request |-> <<>>]
    /\ status = [r \in Request |-> 0]
    /\ sent = [r \in Request |-> <<>>]
    /\ audit = [r \in Request |-> <<>>]
    /\ done = [r \in Request |-> {}]
    /\ turns = [u \in Users |-> 0]
    /\ listed = {}
    /\ existed = {}
    /\ seen = {}
    /\ transcripts_disabled \in BOOLEAN
    /\ feedback_disabled \in BOOLEAN

To(r, p) == pc' = [pc EXCEPT ![r] = p]
At(r, p) == pc[r] = p

\* A request is over; its objects are gone.
Leaves(r, p) ==
    /\ To(r, p)
    /\ header' = [header EXCEPT ![r] = Nobody]
    /\ user' = [user EXCEPT ![r] = Nobody]
    /\ query' = [query EXCEPT ![r] = <<>>]
    /\ attachments' = [attachments EXCEPT ![r] = <<>>]

Replies(r, s) == Leaves(r, "over") /\ status' = [status EXCEPT ![r] = s]
Stays(r, p) == To(r, p) /\ UNCHANGED <<header, user, query, attachments>>
Audits(r, events) == audit' = [audit EXCEPT ![r] = @ \o events]
Done(r, what) == done' = [done EXCEPT ![r] = @ \cup {what}]
Fragments(texts) == UNION {ToSet(t) : t \in texts}
Sees(texts) == seen' = seen \cup Fragments(texts)

-----------------------------------------------------------------------------
(* Authentication *)

\* A request comes in; feedback is refused first where it is disabled.
arrive(r) ==
    /\ At(r, "new")
    /\ \E k \in Kind :
         /\ kind' = [kind EXCEPT ![r] = k]
         /\ \/ /\ k = "feedback" /\ feedback_disabled
               /\ Replies(r, 403)
            \/ /\ k = "feedback" => ~feedback_disabled
               /\ \E h \in Token \cup {Nobody} : header' = [header EXCEPT ![r] = h]
               /\ To(r, "auth")
               /\ UNCHANGED <<user, query, attachments, status>>
    /\ UNCHANGED <<auth_vars, sent, audit, done, cache, seen, conf>>

\* The first request that needs the client builds it.
auth_client(r) ==
    /\ At(r, "auth")
    /\ NeedsClient(header[r])
    /\ client_new
    /\ Stays(r, "client")
    /\ UNCHANGED <<auth_module, disable_auth, kind, status, sent, audit, done, cache, seen, conf>>

auth_client_built(r) ==
    /\ At(r, "client")
    /\ \/ client_built /\ Stays(r, "auth") /\ UNCHANGED status
       \/ client_failed /\ Replies(r, 500)
    /\ UNCHANGED <<auth_module, disable_auth, kind, sent, audit, done, cache, seen, conf>>

\* A client that is not ready raises AttributeError.
authenticate(r) ==
    /\ At(r, "auth")
    /\ NeedsClient(header[r]) => client # "none"
    /\ \E user_id \in Users :
       \E a \in IF NeedsClient(header[r]) /\ client # "ready"
                  THEN {Refused(500)}
                  ELSE AuthDependency(header[r], user_id) :
          IF a.status = 200
            THEN /\ user' = [user EXCEPT ![r] = a.user]
                 /\ To(r, kind[r])
                 /\ UNCHANGED <<header, query, attachments, status>>
            ELSE Replies(r, a.status)
    /\ UNCHANGED <<auth_vars, kind, sent, audit, done, cache, seen, conf>>

-----------------------------------------------------------------------------
(* process_request *)

processing == <<auth_vars, kind, sent, done, cache, conf>>

\* An exception here is answered, and leaves no audit event.
rejected(r, s) == Replies(r, s) /\ UNCHANGED <<audit, seen>>

\* process_request goes on.
passes(r, p) == Stays(r, p) /\ UNCHANGED <<status, audit, seen>>

retrieve_conversation_id(r) ==
    /\ pc[r] \in Queries
    /\ \/ rejected(r, 400)
       \/ Stays(r, "redact query") /\ Audits(r, <<"auth">>) /\ UNCHANGED <<status, seen>>
    /\ UNCHANGED processing

\* regex_filter.pattern.subn
subn(f, t) == [i \in DOMAIN t |-> IF t[i] = f.pattern THEN f.replace_with ELSE t[i]]

\* Redactor.redact: the filters one after the other.
redact(t) ==
    LET after[i \in 0..Len(filters)] == IF i = 0 THEN t ELSE subn(filters[i], after[i - 1])
    IN  after[Len(filters)]

redact_query(r) ==
    /\ At(r, "redact query")
    /\ \/ rejected(r, 500)
       \/ /\ \E t \in Text : query' = [query EXCEPT ![r] = redact(t)]
          /\ To(r, "attachments")
          /\ UNCHANGED <<header, user, attachments, status, audit, seen>>
    /\ UNCHANGED processing

\* retrieve_attachments: their types have to be known ones.
retrieve_attachments(r) ==
    /\ At(r, "attachments")
    /\ \/ rejected(r, 422)
       \/ /\ \E as \in BoundedSeq(Text, MaxAttachments) :
                attachments' = [attachments EXCEPT ![r] = as]
          /\ To(r, "redact attachments")
          /\ UNCHANGED <<header, user, query, status, audit, seen>>
    /\ UNCHANGED processing

\* append_attachments_to_query; what format_attachment adds is not modelled.
append_attachments_to_query(q, as) ==
    LET output[i \in 0..Len(as)] == IF i = 0 THEN q ELSE output[i - 1] \o as[i]
    IN  output[Len(as)]

\* redact_attachments
redacted(as) == [i \in DOMAIN as |-> redact(as[i])]

\* Mutant: the attachments are appended as they came.
redact_attachments_Discarded(r) ==
    /\ At(r, "redact attachments")
    /\ \/ rejected(r, 500)
       \/ LET as == redacted(attachments[r]) IN
          /\ Audits(r, <<"started">>)
          /\ Sees({query[r]} \cup ToSet(as))
          /\ attachments' = [attachments EXCEPT ![r] = as]
          /\ query' = [query EXCEPT ![r] = append_attachments_to_query(@, attachments[r])]
          /\ To(r, "validate")
          /\ UNCHANGED <<header, user, status>>
    /\ UNCHANGED processing

\* redact_attachments; the start of the request is audited, and the query
\* extended.
redact_attachments(r) ==
    /\ At(r, "redact attachments")
    /\ \/ rejected(r, 500)
       \/ LET as == redacted(attachments[r]) IN
          /\ Audits(r, <<"started">>)
          /\ Sees({query[r]} \cup ToSet(as))
          /\ attachments' = [attachments EXCEPT ![r] = as]
          /\ query' = [query EXCEPT ![r] = append_attachments_to_query(@, as)]
          /\ To(r, "validate")
          /\ UNCHANGED <<header, user, status>>
    /\ UNCHANGED processing

validate_requested_provider_model(r) ==
    /\ At(r, "validate")
    /\ rejected(r, 422) \/ passes(r, "check quota")
    /\ UNCHANGED processing

\* The last check: process_request returns.
check_tokens_available(r) ==
    /\ At(r, "check quota")
    /\ \/ rejected(r, 500) /\ UNCHANGED done
       \/ passes(r, "generate") /\ Done(r, "processed")
    /\ UNCHANGED <<auth_vars, kind, sent, cache, conf>>

-----------------------------------------------------------------------------
(* The answer, its storage and its accounting *)

Streaming(r) == kind[r] = "streaming_query"
answering == <<auth_vars, kind, conf>>
\* conversation_request goes on to its next step: nothing was raised.
goes_on(r, p) == Stays(r, p) /\ UNCHANGED <<status, sent, audit>>

\* parse_generic_llm_error: a network error is 502, an error of the backend
\* keeps its own status, anything else is 500.
parse_generic_llm_error == {502, 400, 500}

\* generic_llm_error, prompt_too_long_error: the event that ends a stream.
generic_llm_error(r) == sent' = [sent EXCEPT ![r] = Append(@, "error")]

\* request_failed, and an error event or a status, depending on what the client
\* has received so far.
fails(r, s) ==
    /\ Audits(r, <<"failed">>)
    /\ IF status[r] = 200
         THEN /\ generic_llm_error(r)
              /\ Leaves(r, "over")
              /\ UNCHANGED status
         ELSE Replies(r, s) /\ UNCHANGED sent

\* DocsSummarizer.create_response: the generator is drained, or raises.
create_response == {"answer", "prompt too long", "error"}

\* generate_response of the query endpoint.
generate_response(r) ==
    /\ At(r, "generate")
    /\ ~Streaming(r)
    /\ Sees({query[r]})
    /\ \E response \in create_response :
          \/ response = "answer" /\ goes_on(r, "store")
          \/ response = "prompt too long" /\ fails(r, 413)
          \/ response = "error" /\ \E s \in parse_generic_llm_error : fails(r, s)
    /\ UNCHANGED <<answering, done, cache>>

\* conversation_request of the streaming endpoint returns the stream, which
\* begins with an event if it is JSON.
start_stream(r) ==
    /\ At(r, "generate")
    /\ Streaming(r)
    /\ \/ \E s \in parse_generic_llm_error : fails(r, s)
       \/ /\ status' = [status EXCEPT ![r] = 200]
          /\ sent' \in {[sent EXCEPT ![r] = events] : events \in {<<>>, <<"start">>}}
          /\ Stays(r, "stream")
          /\ UNCHANGED audit
    /\ UNCHANGED <<answering, done, cache, seen>>

\* A chunk of response_processing_wrapper; one stands for many.
stream_event(r) ==
    /\ At(r, "stream")
    /\ "chunk" \notin ToSet(sent[r])
    /\ Sees({query[r]})
    /\ sent' = [sent EXCEPT ![r] = Append(@, "chunk")]
    /\ UNCHANGED <<auth_vars, request, conf, pc, status, audit, done, cache>>

\* The generator ends, or raises.
stream_ends(r) ==
    /\ At(r, "stream")
    /\ Sees({query[r]})
    /\ goes_on(r, "store") \/ fails(r, 500)
    /\ UNCHANGED <<answering, done, cache>>

\* The client closes the connection, and with it the generator, which waits
\* at one of its yields: of an event of the answer, or of the end event.
disconnect(r) ==
    /\ At(r, "stream") \/ (At(r, "answer") /\ Streaming(r))
    /\ Leaves(r, "gone")
    /\ UNCHANGED <<answering, status, sent, audit, done, cache, seen>>

Stored(r) ==
    /\ Sees({query[r]} \cup ToSet(attachments[r]))
    /\ turns' = [turns EXCEPT ![user[r]] = @ + 1]
    /\ listed' = listed \cup {user[r]}
    /\ existed' = existed \cup {user[r]}
    /\ Done(r, "stored")

\* Mutant: a failure to store is logged and passed over.
store_conversation_history_Lenient(r) ==
    /\ At(r, "store")
    /\ goes_on(r, "transcript")
    /\ Stored(r) \/ UNCHANGED <<done, cache, seen>>
    /\ UNCHANGED answering

store_conversation_history(r) ==
    /\ At(r, "store")
    /\ \/ Stored(r) /\ goes_on(r, "transcript")
       \/ fails(r, 500) /\ UNCHANGED <<done, cache, seen>>
    /\ UNCHANGED answering

\* The query is stored without the attachments, which follow.
store_transcript(r) ==
    /\ At(r, "transcript")
    /\ \/ /\ transcripts_disabled
          /\ goes_on(r, "consume")
          /\ UNCHANGED <<done, seen>>
       \/ /\ ~transcripts_disabled
          /\ Sees({query[r]} \cup ToSet(attachments[r]))
          /\ Done(r, "transcript")
          /\ goes_on(r, "consume")
       \/ /\ ~transcripts_disabled
          /\ fails(r, 500)
          /\ UNCHANGED <<done, seen>>
    /\ UNCHANGED <<answering, cache>>

consume_tokens(r) ==
    /\ At(r, "consume")
    /\ \/ Done(r, "consumed") /\ goes_on(r, "complete")
       \/ fails(r, 500) /\ UNCHANGED done
    /\ UNCHANGED <<answering, cache, seen>>

\* The reply of one endpoint, the end event of the other.
Answers(r) ==
    IF Streaming(r)
      THEN /\ sent' = [sent EXCEPT ![r] = Append(@, "end")]
           /\ Leaves(r, "over")
           /\ UNCHANGED status
      ELSE Replies(r, 200) /\ UNCHANGED sent

\* Mutant: a failure to read the quotas is audited, and passed over.
complete_Hides(r) ==
    /\ At(r, "complete")
    /\ \E e \in {"completed", "failed"} : Audits(r, <<e>>)
    /\ Stays(r, "answer")
    /\ UNCHANGED <<answering, status, sent, done, cache, seen>>

\* get_available_quotas and request_completed.
complete(r) ==
    /\ At(r, "complete")
    /\ \/ Audits(r, <<"completed">>) /\ Stays(r, "answer") /\ UNCHANGED <<status, sent>>
       \/ fails(r, 500)
    /\ UNCHANGED <<answering, done, cache, seen>>

\* The answer is built after the event, and that may fail: stream_end_event
\* in the stream's try, LLMResponse behind the query's.
answer(r) ==
    /\ At(r, "answer")
    /\ \/ Answers(r) /\ UNCHANGED audit
       \/ Streaming(r) /\ fails(r, 500)
       \/ ~Streaming(r) /\ Replies(r, 500) /\ UNCHANGED <<audit, sent>>
    /\ UNCHANGED <<answering, done, cache, seen>>

-----------------------------------------------------------------------------
(* conversations.py, feedback.py and authorized.py *)

serving == <<auth_vars, kind, sent, audit, seen, conf>>

\* The id may be improper, and the cache may fail.
conversation_error(r) ==
    /\ pc[r] \in {"get", "list", "delete", "update"}
    /\ \/ pc[r] # "list" /\ Replies(r, 400)
       \/ Replies(r, 500)
    /\ UNCHANGED <<serving, done, cache>>

list_conversations(r) ==
    /\ At(r, "list")
    /\ Replies(r, 200)
    /\ UNCHANGED <<serving, done, cache>>

get_conversation(r) ==
    /\ At(r, "get")
    /\ Replies(r, IF turns[user[r]] > 0 THEN 200 ELSE 404)
    /\ UNCHANGED <<serving, done, cache>>

delete_conversation(r) ==
    /\ At(r, "delete")
    /\ turns' = [turns EXCEPT ![user[r]] = 0]
    /\ listed' = listed \ {user[r]}
    /\ Replies(r, 200)
    /\ UNCHANGED <<serving, done, existed>>

\* Mutant: the conversation need not exist.
update_conversation_Unchecked(r) ==
    /\ At(r, "update")
    /\ Stays(r, "set summary")
    /\ UNCHANGED <<serving, status, done, cache>>

\* update_conversation: the check, and later the assignment.
update_conversation(r) ==
    /\ At(r, "update")
    /\ IF turns[user[r]] > 0
         THEN Stays(r, "set summary") /\ UNCHANGED status
         ELSE Replies(r, 404)
    /\ UNCHANGED <<serving, done, cache>>

set_topic_summary(r) ==
    /\ At(r, "set summary")
    /\ \/ listed' = listed \cup {user[r]} /\ Replies(r, 200)
       \/ Replies(r, 500) /\ UNCHANGED listed
    /\ UNCHANGED <<serving, done, turns, existed>>

store_user_feedback(r) ==
    /\ At(r, "feedback")
    /\ \/ Done(r, "feedback") /\ Replies(r, 200)
       \/ Replies(r, 500) /\ UNCHANGED done
    /\ UNCHANGED <<serving, cache>>

is_user_authorized(r) ==
    /\ At(r, "authorized")
    /\ Replies(r, 200)
    /\ UNCHANGED <<serving, done, cache>>

Next ==
    \E r \in Request :
        \/ arrive(r) \/ auth_client(r) \/ auth_client_built(r) \/ authenticate(r)
        \/ retrieve_conversation_id(r) \/ redact_query(r) \/ retrieve_attachments(r)
        \/ redact_attachments(r) \/ validate_requested_provider_model(r)
        \/ check_tokens_available(r)
        \/ generate_response(r) \/ start_stream(r) \/ stream_event(r) \/ stream_ends(r)
        \/ disconnect(r) \/ store_conversation_history(r) \/ store_transcript(r)
        \/ consume_tokens(r) \/ complete(r) \/ answer(r)
        \/ conversation_error(r) \/ list_conversations(r) \/ get_conversation(r)
        \/ delete_conversation(r) \/ update_conversation(r) \/ set_topic_summary(r)
        \/ store_user_feedback(r) \/ is_user_authorized(r)

Spec == Init /\ [][Next]_vars

-----------------------------------------------------------------------------
(* Properties *)

\* With Kubernetes authentication, nothing happens for a request unless its own
\* token was found valid and its user allowed in, and then it happens in that
\* user's name: whatever call to the API fails, and however far the building of
\* the shared client has come.
OnlyAdmitted ==
    (auth_module = "k8s" /\ ~disable_auth) =>
        \A r \in Request :
            pc[r] \notin {"new", "auth", "client", "over", "gone"} =>
                /\ owner[header[r]] \in allowed
                /\ user[r] = uid(owner[header[r]])

\* What the filters look for never gets into a prompt, the conversation cache,
\* a transcript or the audit log, be it in the query or in an attachment.  (A
\* filter may write what an earlier one looks for; that is left as it is.)
NothingUnredacted ==
    \A i \in DOMAIN filters :
        (\A j \in i..Len(filters) : filters[j].replace_with # filters[i].pattern) =>
            filters[i].pattern \notin seen

\* The closing events of an audit log, by position.
Closing(events) == {i \in DOMAIN events : events[i] \in {"completed", "failed"}}

\* Every query that got past process_request and whose client stayed has a
\* closing audit event, and the last one says what the client was told:
\* completed for an answer, failed for an error.  It is the only one, except
\* that a stream whose end event could not be built is audited as completed
\* and then as failed; and a query whose reply could not be built is answered
\* 500 although it stays audited as completed.
AuditAgreesWithClient ==
    \A r \in Request :
        /\ \A i, j \in Closing(audit[r]) :
              i < j => Streaming(r) /\ audit[r][i] = "completed" /\ audit[r][j] = "failed"
        /\ (pc[r] = "over" /\ "processed" \in done[r]) =>
              \/ Last(audit[r]) = IF status[r] = 200 /\ "error" \notin ToSet(sent[r])
                                    THEN "completed" ELSE "failed"
              \/ ~Streaming(r) /\ status[r] = 500 /\ Last(audit[r]) = "completed"

\* A query reported as completed has been stored, transcribed where transcripts
\* are kept, and paid for.
CompletedIsDurable ==
    \A r \in Request :
        "completed" \in ToSet(audit[r]) =>
            {"stored", "consumed"} \cup (IF transcripts_disabled THEN {} ELSE {"transcript"})
                \subseteq done[r]

\* Updating a conversation's summary cannot make up a conversation.  At worst,
\* overtaken by a deletion, it lists one again that has been deleted.
ListedHasExisted == listed \subseteq existed
=============================================================================
