--------------------------- MODULE InMemoryCache ---------------------------
(***************************************************************************)
(* ols/src/cache/in_memory_cache.py: the in-memory conversation cache, one *)
(* operation at a time (InMemoryCacheThreads interleaves them).            *)
(*                                                                         *)
(* A conversation is a key <<user_id, conversation_id>>, the pair that     *)
(* construct_key joins.  A dictionary is a total function: cache[k] = <<>> *)
(* stands for "k not in self.cache" (the code never keeps an empty list),  *)
(* conversations[k] = NoConversation for "k not in self._conversations".   *)
(* Timestamps, which only order the answer of list(), are left out.        *)
(***************************************************************************)
EXTENDS Integers, Sequences, FiniteSets, SequencesExt

CONSTANTS
    User, Conversation, \* identifiers, already validated as UUIDs
    Entry,              \* exchanges (CacheEntry)
    Topic,              \* topic summaries, "" among them
    NoConversation,     \* no metadata record
    capacity,           \* config.max_entries
    MaxMessages         \* bound on message_count

ASSUME CapacityAssumption == capacity \in Nat
ASSUME MaxMessagesAssumption == MaxMessages \in Nat
\* The summary of a conversation that nobody named.
NoTopic == ""

ASSUME TopicAssumption == NoTopic \in Topic

VARIABLES
    cache,          \* self.cache: the exchanges of each conversation, oldest first
    deque,          \* self.deque: keys, most recently used first
    total_entries,  \* self.total_entries
    conversations   \* self._conversations: the metadata of each conversation

vars == <<cache, deque, total_entries, conversations>>

construct_key(u, c) == <<u, c>>

Key == {construct_key(u, c) : u \in User, c \in Conversation}

ConversationData == [topic_summary : Topic, message_count : Nat]

ASSUME NoConversationAssumption == NoConversation \notin ConversationData

-----------------------------------------------------------------------------
(* Helpers *)

InCache(k) == cache[k] # <<>>

LiveKeys == {k \in Key : InCache(k)}

\* The positions of all stored exchanges; there are \sum_k Len(cache[k]) of them.
Slots(c) == UNION {{k} \X (1..Len(c[k])) : k \in Key}

\* Mutant: appendleft without the remove.
MoveToFront_NoRemove(dq, k) == <<k>> \o dq

\* deque.remove(k); deque.appendleft(k)
MoveToFront(dq, k) == <<k>> \o RemoveFirst(dq, k)

\* The metadata of k after one more message.
Counted(k) ==
    IF conversations[k] = NoConversation
      THEN [topic_summary |-> NoTopic, message_count |-> 1]
      ELSE [topic_summary |-> conversations[k].topic_summary,
            message_count |-> conversations[k].message_count + 1]

-----------------------------------------------------------------------------
(* Operations *)

initialize_cache ==
    /\ cache = [k \in Key |-> <<>>]
    /\ deque = <<>>
    /\ total_entries = 0
    /\ conversations = [k \in Key |-> NoConversation]

\* get of an absent key changes nothing.
get(k) ==
    /\ InCache(k)
    /\ deque' = MoveToFront(deque, k)
    /\ UNCHANGED <<cache, total_entries, conversations>>

\* Mutant: a new message does not refresh the recency of its conversation.
Inserted_NoTouch(k, e) ==
    [cache         |-> [cache EXCEPT ![k] = Append(@, e)],
     deque         |-> IF InCache(k) THEN deque ELSE <<k>> \o deque,
     conversations |-> [conversations EXCEPT ![k] = Counted(k)]]

\* The state insert_or_append reaches before it looks at the capacity.
Inserted(k, e) ==
    [cache         |-> [cache EXCEPT ![k] = Append(@, e)],
     deque         |-> IF InCache(k) THEN MoveToFront(deque, k) ELSE <<k>> \o deque,
     conversations |-> [conversations EXCEPT ![k] = Counted(k)]]

\* Mutant: eviction forgets the metadata of the conversation it empties.
Evicted_KeepsMetadata(s) ==
    LET oldest_key == s.deque[Len(s.deque)]
        rest       == Tail(s.cache[oldest_key])
    IN  [cache         |-> [s.cache EXCEPT ![oldest_key] = rest],
         deque         |-> IF rest = <<>> THEN Front(s.deque) ELSE s.deque,
         conversations |-> s.conversations]

\* One message of the least recently used conversation goes; with its last
\* message the conversation and its metadata go.
Evicted(s) ==
    LET oldest_key == s.deque[Len(s.deque)]
        rest       == Tail(s.cache[oldest_key])
        emptied    == rest = <<>>
    IN  [cache         |-> [s.cache EXCEPT ![oldest_key] = rest],
         deque         |-> IF emptied THEN Front(s.deque) ELSE s.deque,
         conversations |-> IF emptied
                             THEN [s.conversations EXCEPT ![oldest_key] = NoConversation]
                             ELSE s.conversations]

\* Mutant: the capacity is compared before the new message is counted.
insert_or_append_OffByOne(k, e) ==
    /\ Counted(k).message_count <= MaxMessages
    /\ LET inserted == Inserted(k, e)
           full     == total_entries > capacity
           after    == IF full THEN Evicted(inserted) ELSE inserted
       IN  /\ cache' = after.cache
           /\ deque' = after.deque
           /\ conversations' = after.conversations
           /\ total_entries' = IF full THEN total_entries ELSE total_entries + 1

insert_or_append(k, e) ==
    /\ Counted(k).message_count <= MaxMessages
    /\ LET inserted == Inserted(k, e)
           full     == total_entries + 1 > capacity
           after    == IF full THEN Evicted(inserted) ELSE inserted
       IN  /\ cache' = after.cache
           /\ deque' = after.deque
           /\ conversations' = after.conversations
           /\ total_entries' = IF full THEN total_entries ELSE total_entries + 1

\* Mutant: delete discounts one message, not all of them.
delete_DiscountsOne(k) ==
    /\ InCache(k)
    /\ total_entries' = total_entries - 1
    /\ cache' = [cache EXCEPT ![k] = <<>>]
    /\ deque' = RemoveFirst(deque, k)
    /\ conversations' = [conversations EXCEPT ![k] = NoConversation]

\* delete of an absent key returns False and changes nothing, not even metadata.
delete(k) ==
    /\ InCache(k)
    /\ total_entries' = total_entries - Len(cache[k])
    /\ cache' = [cache EXCEPT ![k] = <<>>]
    /\ deque' = RemoveFirst(deque, k)
    /\ conversations' = [conversations EXCEPT ![k] = NoConversation]

set_topic_summary(k, t) ==
    /\ conversations' = [conversations EXCEPT ![k] =
            IF @ = NoConversation
              THEN [topic_summary |-> t, message_count |-> 0]
              ELSE [topic_summary |-> t, message_count |-> @.message_count]]
    /\ UNCHANGED <<cache, deque, total_entries>>

\* list: the conversations of a user that have metadata.
Listed(u) == {c \in Conversation : conversations[construct_key(u, c)] # NoConversation}

Init == initialize_cache

Next ==
    \E k \in Key :
        \/ get(k)
        \/ delete(k)
        \/ \E e \in Entry : insert_or_append(k, e)
        \/ \E t \in Topic : set_topic_summary(k, t)

Spec == Init /\ [][Next]_vars

-----------------------------------------------------------------------------
(* Properties *)

\* The fields of the cache keep their types.
TypeOK ==
    /\ cache \in [Key -> Seq(Entry)]
    /\ deque \in Seq(Key)
    /\ total_entries \in Nat
    /\ conversations \in [Key -> ConversationData \cup {NoConversation}]

\* The deque orders exactly the cached conversations, each once: every
\* deque.remove finds its key and every eviction finds a message to drop.
DequeMatchesCache ==
    /\ \A i, j \in 1..Len(deque) : deque[i] = deque[j] => i = j
    /\ \A k \in Key : InCache(k) <=> \E i \in 1..Len(deque) : deque[i] = k

\* The running counter is the number of stored messages, whatever mix of
\* inserts, evictions and deletes led here.
TotalIsExact == total_entries = Cardinality(Slots(cache))

\* insert_or_append evicts with `if', not `while': one eviction per insert
\* is enough to keep the total within the capacity for ever.
WithinCapacity == total_entries <= capacity

\* A conversation can be read exactly when its metadata counts a message, and
\* the count never falls below what can be read.  (It may exceed it: eviction
\* does not count down.)
MetadataMatchesHistory ==
    \A k \in Key :
        /\ InCache(k) <=> conversations[k] # NoConversation /\ conversations[k].message_count > 0
        /\ InCache(k) => conversations[k].message_count >= Len(cache[k])

\* Recency as the abstract specification sees it.
Older == {p \in Key \X Key : \E i, j \in 1..Len(deque) :
             i > j /\ p = <<deque[i], deque[j]>>}

Store == INSTANCE ConversationStore WITH hist <- cache, older <- Older

\* The class implements the abstract store: a bounded history per conversation
\* that gives up only the oldest message of the least recently used one.
ImplementsStore == Store!Spec
=============================================================================
