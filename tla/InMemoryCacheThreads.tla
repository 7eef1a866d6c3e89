----------------------- MODULE InMemoryCacheThreads -----------------------
(***************************************************************************)
(* ols/src/cache/in_memory_cache.py as its threads run it.  The endpoints  *)
(* that use the cache are plain functions, so the server runs them in a    *)
(* pool of threads.  insert_or_append, delete and set_topic_summary hold   *)
(* _lock; get takes no lock although it edits the deque.                   *)
(*                                                                         *)
(* A step is the longest run of statements that no other thread can tell   *)
(* from one statement: get touches only the deque and reads the cache, and *)
(* everything else is under the lock, so an operation is cut exactly at    *)
(* its accesses to the deque.  An exception ends the request; `with'       *)
(* releases the lock on that path too.                                     *)
(***************************************************************************)
EXTENDS InMemoryCache

CONSTANTS
    Thread,
    None        \* no thread, no key, no message

ASSUME ThreadAssumption == None \notin Thread

VARIABLES
    lock,       \* the holder of _lock, or None
    op          \* what each thread executes: the next statement and its locals

threadVars == <<vars, lock, op>>

Idle == [at |-> "idle", key |-> None, entry |-> None, oldest |-> None]

At(t, label) == op[t].at = label

Goto(t, label) == op' = [op EXCEPT ![t].at = label]

\* The operation returns, or raises, and gives up the lock if it holds it.
Finish(t) ==
    /\ op' = [op EXCEPT ![t] = Idle]
    /\ lock' = IF lock = t THEN None ELSE lock

InDeque(k) == \E i \in 1..Len(deque) : deque[i] = k

-----------------------------------------------------------------------------
(* get: no lock *)

\* if key not in self.cache: return None (no effect, so only the other case)
get_check(t, k) ==
    /\ At(t, "idle")
    /\ InCache(k)
    /\ op' = [op EXCEPT ![t] = [Idle EXCEPT !.at = "get_remove", !.key = k]]
    /\ UNCHANGED <<vars, lock>>

\* self.deque.remove(key), a ValueError when the key is not there
get_remove(t) ==
    /\ At(t, "get_remove")
    /\ IF InDeque(op[t].key)
         THEN /\ deque' = RemoveFirst(deque, op[t].key)
              /\ Goto(t, "get_push")
              /\ UNCHANGED lock
         ELSE Finish(t) /\ UNCHANGED deque
    /\ UNCHANGED <<cache, total_entries, conversations>>

\* self.deque.appendleft(key); the copy that follows only reads
get_push(t) ==
    /\ At(t, "get_push")
    /\ deque' = <<op[t].key>> \o deque
    /\ Finish(t)
    /\ UNCHANGED <<cache, total_entries, conversations>>

-----------------------------------------------------------------------------
(* insert_or_append: under the lock *)

\* Take the lock; a new key is stored at once, a known one moves first.
insert_start(t, k, e) ==
    /\ At(t, "idle")
    /\ lock = None
    /\ Counted(k).message_count <= MaxMessages
    /\ lock' = t
    /\ IF InCache(k)
         THEN /\ op' = [op EXCEPT ![t] =
                    [Idle EXCEPT !.at = "insert_remove", !.key = k, !.entry = e]]
              /\ UNCHANGED cache
         ELSE /\ op' = [op EXCEPT ![t] =
                    [Idle EXCEPT !.at = "insert_push", !.key = k]]
              /\ cache' = [cache EXCEPT ![k] = <<e>>]
    /\ UNCHANGED <<deque, total_entries, conversations>>

\* Mutant: the message is counted before the deque.remove that may raise.
insert_remove_CountsFirst(t) ==
    /\ At(t, "insert_remove")
    /\ IF InDeque(op[t].key)
         THEN /\ deque' = RemoveFirst(deque, op[t].key)
              /\ cache' = [cache EXCEPT ![op[t].key] = Append(@, op[t].entry)]
              /\ op' = [op EXCEPT ![t].at = "insert_push", ![t].entry = None]
              /\ UNCHANGED <<lock, total_entries>>
         ELSE Finish(t) /\ total_entries' = total_entries + 1 /\ UNCHANGED <<cache, deque>>
    /\ UNCHANGED conversations

\* Mutant: the lock is released by hand after the last statement, which the
\* ValueError of deque.remove skips.
insert_remove_LeaksLock(t) ==
    /\ At(t, "insert_remove")
    /\ IF InDeque(op[t].key)
         THEN /\ deque' = RemoveFirst(deque, op[t].key)
              /\ cache' = [cache EXCEPT ![op[t].key] = Append(@, op[t].entry)]
              /\ op' = [op EXCEPT ![t].at = "insert_push", ![t].entry = None]
         ELSE op' = [op EXCEPT ![t] = Idle] /\ UNCHANGED <<cache, deque>>
    /\ UNCHANGED <<lock, total_entries, conversations>>

\* self.deque.remove(key), which may raise; self.cache[key].append(value)
insert_remove(t) ==
    /\ At(t, "insert_remove")
    /\ IF InDeque(op[t].key)
         THEN /\ deque' = RemoveFirst(deque, op[t].key)
              /\ cache' = [cache EXCEPT ![op[t].key] = Append(@, op[t].entry)]
              /\ op' = [op EXCEPT ![t].at = "insert_push", ![t].entry = None]
              /\ UNCHANGED lock
         ELSE Finish(t) /\ UNCHANGED <<cache, deque>>
    /\ UNCHANGED <<total_entries, conversations>>

\* self.deque.appendleft(key); the counter and the metadata follow.
insert_push(t) ==
    /\ At(t, "insert_push")
    /\ deque' = <<op[t].key>> \o deque
    /\ total_entries' = total_entries + 1
    /\ conversations' = [conversations EXCEPT ![op[t].key] = Counted(op[t].key)]
    /\ Goto(t, "insert_check")
    /\ UNCHANGED <<cache, lock>>

\* if self.total_entries > self.capacity and self.deque
insert_check(t) ==
    /\ At(t, "insert_check")
    /\ IF total_entries > capacity /\ deque # <<>>
         THEN Goto(t, "insert_evict") /\ UNCHANGED lock
         ELSE Finish(t)
    /\ UNCHANGED vars

\* oldest_key = self.deque[-1]; drop its first message.  An empty deque and a
\* key without messages both raise IndexError.
insert_evict(t) ==
    /\ At(t, "insert_evict")
    /\ IF deque = <<>> \/ ~InCache(Last(deque))
         THEN Finish(t) /\ UNCHANGED <<cache, total_entries>>
         ELSE LET oldest_key == Last(deque)
                  rest == Tail(cache[oldest_key])
              IN  /\ cache' = [cache EXCEPT ![oldest_key] = rest]
                  /\ total_entries' = total_entries - 1
                  /\ IF rest = <<>>
                       THEN /\ op' = [op EXCEPT ![t].at = "insert_pop",
                                                ![t].oldest = oldest_key]
                            /\ UNCHANGED lock
                       ELSE Finish(t)
    /\ UNCHANGED <<deque, conversations>>

\* Mutant: the metadata that goes is that of the key the pop returned.
insert_pop_WrongKey(t) ==
    /\ At(t, "insert_pop")
    /\ IF deque = <<>>
         THEN UNCHANGED <<deque, conversations>>
         ELSE /\ deque' = Front(deque)
              /\ conversations' = [conversations EXCEPT ![Last(deque)] = NoConversation]
    /\ Finish(t)
    /\ UNCHANGED <<cache, total_entries>>

\* self.deque.pop(), whatever is last by now; then the metadata of oldest_key.
\* Popping an empty deque raises IndexError.
insert_pop(t) ==
    /\ At(t, "insert_pop")
    /\ IF deque = <<>>
         THEN UNCHANGED <<deque, conversations>>
         ELSE /\ deque' = Front(deque)
              /\ conversations' = [conversations EXCEPT ![op[t].oldest] = NoConversation]
    /\ Finish(t)
    /\ UNCHANGED <<cache, total_entries>>

-----------------------------------------------------------------------------
(* delete and set_topic_summary: under the lock *)

\* Everything up to del self.cache[key]; an absent key returns False.
delete_start(t, k) ==
    /\ At(t, "idle")
    /\ lock = None
    /\ InCache(k)
    /\ lock' = t
    /\ total_entries' = total_entries - Len(cache[k])
    /\ cache' = [cache EXCEPT ![k] = <<>>]
    /\ op' = [op EXCEPT ![t] = [Idle EXCEPT !.at = "delete_remove", !.key = k]]
    /\ UNCHANGED <<deque, conversations>>

\* self.deque.remove(key), which may raise before the metadata is removed.
delete_remove(t) ==
    /\ At(t, "delete_remove")
    /\ IF InDeque(op[t].key)
         THEN /\ deque' = RemoveFirst(deque, op[t].key)
              /\ conversations' = [conversations EXCEPT ![op[t].key] = NoConversation]
         ELSE UNCHANGED <<deque, conversations>>
    /\ Finish(t)
    /\ UNCHANGED <<cache, total_entries>>

\* One critical section that does not touch the deque.
set_topic(t, k, topic) ==
    /\ At(t, "idle")
    /\ lock = None
    /\ set_topic_summary(k, topic)
    /\ UNCHANGED <<lock, op>>

-----------------------------------------------------------------------------

ThreadInit ==
    /\ Init
    /\ lock = None
    /\ op = [t \in Thread |-> Idle]

\* A thread goes on with the operation it is executing.
Step(t) ==
    \/ get_remove(t)
    \/ get_push(t)
    \/ insert_remove(t)
    \/ insert_push(t)
    \/ insert_check(t)
    \/ insert_evict(t)
    \/ insert_pop(t)
    \/ delete_remove(t)

Begin(t) ==
    \E k \in Key :
        \/ get_check(t, k)
        \/ delete_start(t, k)
        \/ \E e \in Entry : insert_start(t, k, e)
        \/ \E topic \in Topic : set_topic(t, k, topic)

ThreadNext == \E t \in Thread : Begin(t) \/ Step(t)

\* The interpreter schedules every runnable thread, so an operation that was
\* begun goes on; nothing makes a client begin one.
ThreadSpec ==
    /\ ThreadInit /\ [][ThreadNext]_threadVars
    /\ \A t \in Thread : WF_threadVars(Step(t))

-----------------------------------------------------------------------------
(* Properties *)

\* Whatever the unlocked reads do to the deque, and whichever operations they
\* make fail, the counter is the number of stored messages when no writer is
\* at work.
TotalSurvivesRaces == lock = None => TotalIsExact

\* Whatever fails on the way, a conversation that can be read is listed, and
\* its metadata counts at least what can be read.
ReadableIsListed ==
    lock = None =>
        \A u \in User, c \in Conversation :
            LET k == construct_key(u, c) IN
            InCache(k) => /\ c \in Listed(u)
                          /\ conversations[k].message_count >= Len(cache[k])

\* No failure leaves the lock taken: an operation that was begun ends, by a
\* return or by an exception of the deque, and _lock is free again, so that
\* the writers of the other threads go on.
EveryOperationEnds ==
    /\ \A t \in Thread : op[t].at # "idle" ~> op[t].at = "idle"
    /\ lock # None ~> lock = None

=============================================================================
