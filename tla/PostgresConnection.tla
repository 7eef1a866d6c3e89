------------------------- MODULE PostgresConnection -------------------------
(***************************************************************************)
(* ols/utils/postgres.py under ols/src/cache/postgres_cache.py: the        *)
(* threads of one replica share one connection object.  The decorator      *)
(* `connection' probes it, and replaces it when it is broken, before the   *)
(* operation takes _tx_lock; the statements of an operation go to the      *)
(* connection its cursor came from, while commit and the switches of       *)
(* autocommit go to whatever self.connection is at that moment.            *)
(*                                                                         *)
(* A thread performs one operation, an insert (a transaction) or a         *)
(* set_topic_summary (one statement), and its write bears its name.        *)
(***************************************************************************)
EXTENDS Integers, FiniteSets

CONSTANTS
    Thread,
    NoThread,
    MaxConnections      \* bound: connections opened

None == 0               \* self.connection = None

VARIABLES
    connection,     \* self.connection: the number of a connection, or None
    opened,         \* connections opened so far
    broken,         \* connections that the server or the network has ended
    autocommit,     \* connections in autocommit mode
    intrans,        \* connections with an open transaction
    pending,        \* connection -> writes of its open transaction
    stored,         \* writes that are committed
    _tx_lock,       \* its holder
    pc,             \* Thread -> next step
    cursor,         \* Thread -> the connection its cursor belongs to
    failing,        \* threads that leave their transaction with an exception
    acked           \* threads whose operation returned normally

conns == <<connection, opened, broken, autocommit, intrans, pending>>
vars == <<conns, stored, _tx_lock, pc, cursor, failing, acked>>

Usable(c) == c # None /\ c \notin broken
Goto(t, label) == pc' = [pc EXCEPT ![t] = label]

Init ==
    /\ connection = 1
    /\ opened = 1
    /\ broken = {}
    /\ autocommit = {1}
    /\ intrans = {}
    /\ pending = [c \in 1..MaxConnections |-> {}]
    /\ stored = {}
    /\ _tx_lock = NoThread
    /\ pc = [t \in Thread |-> "start"]
    /\ cursor = [t \in Thread |-> None]
    /\ failing = {}
    /\ acked = {}

\* A statement on c that writes W: committed at once in autocommit mode,
\* otherwise part of the transaction, which it opens if there is none.
Execute(c, W) ==
    IF c \in autocommit
      THEN stored' = stored \cup W /\ UNCHANGED <<intrans, pending>>
      ELSE /\ intrans' = intrans \cup {c}
           /\ pending' = [pending EXCEPT ![c] = @ \cup W]
           /\ UNCHANGED stored

Rollback(c) ==
    /\ intrans' = intrans \ {c}
    /\ pending' = [pending EXCEPT ![c] = {}]

Release(t) == _tx_lock' = IF _tx_lock = t THEN NoThread ELSE _tx_lock

\* The operation raises.
Raise(t) == Goto(t, "failed") /\ Release(t) /\ UNCHANGED acked

-----------------------------------------------------------------------------
(* The decorator *)

connected(t) ==
    /\ pc[t] = "start"
    /\ IF Usable(connection)
         THEN Execute(connection, {}) /\ Goto(t, "lock")
         ELSE Goto(t, "connect") /\ UNCHANGED <<intrans, pending, stored>>
    /\ UNCHANGED <<connection, opened, broken, autocommit, _tx_lock, cursor, failing, acked>>

connect(t) ==
    /\ pc[t] = "connect"
    /\ connection' = None
    /\ Goto(t, "open")
    /\ UNCHANGED <<opened, broken, autocommit, intrans, pending, stored, _tx_lock, cursor, failing, acked>>

connect_open(t) ==
    /\ pc[t] = "open"
    /\ opened < MaxConnections
    /\ opened' = opened + 1
    /\ connection' = opened'
    /\ Goto(t, "schema")
    /\ UNCHANGED <<broken, autocommit, intrans, pending, stored, _tx_lock, cursor, failing, acked>>

\* Schema, commit, autocommit = True: on self.connection, whoever set it last.
connect_schema(t) ==
    /\ pc[t] = "schema"
    /\ IF Usable(connection)
         THEN /\ stored' = stored \cup pending[connection]
              /\ Rollback(connection)
              /\ autocommit' = autocommit \cup {connection}
              /\ Goto(t, "lock")
              /\ UNCHANGED <<_tx_lock, acked>>
         ELSE Raise(t) /\ UNCHANGED <<stored, autocommit, intrans, pending>>
    /\ UNCHANGED <<connection, opened, broken, cursor, failing>>

-----------------------------------------------------------------------------
(* Under the lock *)

acquire(t) ==
    /\ pc[t] = "lock"
    /\ _tx_lock = NoThread
    /\ _tx_lock' = t
    /\ \E label \in {"begin", "topic"} : Goto(t, label)
    /\ UNCHANGED <<conns, stored, cursor, failing, acked>>

set_topic_summary(t) ==
    /\ pc[t] = "topic"
    /\ IF Usable(connection)
         THEN /\ Execute(connection, {t})
              /\ acked' = acked \cup {t}
              /\ Goto(t, "done")
              /\ Release(t)
         ELSE Raise(t) /\ UNCHANGED <<intrans, pending, stored>>
    /\ UNCHANGED <<connection, opened, broken, autocommit, cursor, failing>>

\* A left-over transaction is rolled back before autocommit is switched off.
insert_begin(t) ==
    /\ pc[t] = "begin"
    /\ IF Usable(connection)
         THEN /\ Rollback(connection)
              /\ autocommit' = autocommit \ {connection}
              /\ cursor' = [cursor EXCEPT ![t] = connection]
              /\ Goto(t, "write")
              /\ UNCHANGED <<_tx_lock, acked>>
         ELSE Raise(t) /\ UNCHANGED <<autocommit, intrans, pending, cursor>>
    /\ UNCHANGED <<connection, opened, broken, stored, failing>>

\* An exception inside the transaction: rollback of self.connection, and finally.
Fail(t) ==
    /\ failing' = failing \cup {t}
    /\ Goto(t, "finally")
    /\ IF Usable(connection) THEN Rollback(connection) ELSE UNCHANGED <<intrans, pending>>
    /\ UNCHANGED stored

\* The statements of the transaction, all of them on the cursor's connection.
insert_write(t) ==
    /\ pc[t] = "write"
    /\ IF Usable(cursor[t])
         THEN Execute(cursor[t], {t}) /\ Goto(t, "commit") /\ UNCHANGED failing
         ELSE Fail(t)
    /\ UNCHANGED <<connection, opened, broken, autocommit, _tx_lock, cursor, acked>>

insert_commit(t) ==
    /\ pc[t] = "commit"
    /\ IF Usable(connection)
         THEN /\ stored' = stored \cup pending[connection]
              /\ Rollback(connection)
              /\ Goto(t, "finally")
              /\ UNCHANGED failing
         ELSE Fail(t)
    /\ UNCHANGED <<connection, opened, broken, autocommit, _tx_lock, cursor, acked>>

\* The last look at the transaction status, and then autocommit = True.
insert_finally(t) ==
    /\ pc[t] = "finally"
    /\ IF Usable(connection)
         THEN Rollback(connection) /\ Goto(t, "switch") /\ UNCHANGED <<_tx_lock, acked>>
         ELSE Raise(t) /\ UNCHANGED <<intrans, pending>>
    /\ UNCHANGED <<connection, opened, broken, autocommit, stored, cursor, failing>>

\* set_session cannot be used inside a transaction, not even one that a probe
\* of another thread has opened.
insert_switch(t) ==
    /\ pc[t] = "switch"
    /\ IF Usable(connection) /\ connection \notin intrans
         THEN /\ autocommit' = autocommit \cup {connection}
              /\ IF t \in failing
                   THEN Raise(t)
                   ELSE acked' = acked \cup {t} /\ Goto(t, "done") /\ Release(t)
         ELSE Raise(t) /\ UNCHANGED autocommit
    /\ UNCHANGED <<connection, opened, broken, intrans, pending, stored, cursor, failing>>

\* The server or the network ends the connection, and with it its transaction.
breaks ==
    /\ Usable(connection)
    /\ opened < MaxConnections
    /\ broken' = broken \cup {connection}
    /\ Rollback(connection)
    /\ UNCHANGED <<connection, opened, autocommit, stored, _tx_lock, pc, cursor, failing, acked>>

Next ==
    \/ breaks
    \/ \E t \in Thread :
        \/ connected(t) \/ connect(t) \/ connect_open(t) \/ connect_schema(t)
        \/ acquire(t) \/ set_topic_summary(t) \/ insert_begin(t) \/ insert_write(t)
        \/ insert_commit(t) \/ insert_finally(t) \/ insert_switch(t)

Spec == Init /\ [][Next]_vars

-----------------------------------------------------------------------------

\* Operations that returned normally have stored their writes by the time all
\* of them are over, whatever other threads do to the shared connection
\* meanwhile: reconnection is transparent and thread-safe.
AcknowledgedIsStored ==
    (\A t \in Thread : pc[t] \in {"done", "failed"}) => acked \subseteq stored
=============================================================================
