------------------------- MODULE ConversationStore -------------------------
(***************************************************************************)
(* What the conversation cache promises, whatever stores it: every         *)
(* conversation is a sequence of exchanges, oldest first; the number of    *)
(* exchanges over all conversations never exceeds `capacity'; and the only *)
(* exchange that is ever given up for room is the oldest one of the        *)
(* conversation that was used least recently.                              *)
(*                                                                         *)
(* Recency is a relation here, not a data structure: <<a, b>> \in older    *)
(* says that b was used after a.                                           *)
(***************************************************************************)
EXTENDS Integers, Sequences, FiniteSets

CONSTANTS
    Key,        \* (user, conversation) pairs
    Entry,      \* exchanges
    capacity    \* the most exchanges kept

VARIABLES
    hist,       \* Key -> the conversation's exchanges, oldest first
    older       \* the recency relation on the conversations that have exchanges

vars == <<hist, older>>

LiveKeys(h) == {k \in Key : h[k] # <<>>}

\* The positions of all exchanges of h: its cardinality is their number.
Slots(h) == UNION {{k} \X (1..Len(h[k])) : k \in Key}

\* The recency relation after conversation k, among the live ones L, is used.
UsedLast(k, L) ==
    {p \in older : p[1] # k /\ p[2] # k} \cup {<<j, k>> : j \in L \ {k}}

Init ==
    /\ hist = [k \in Key |-> <<>>]
    /\ older = {}

Read(k) ==
    /\ hist[k] # <<>>
    /\ older' = UsedLast(k, LiveKeys(hist))
    /\ UNCHANGED hist

\* Store e; at the limit, give up the oldest exchange of the conversation v
\* that is older than all others.
Store(k, e) ==
    LET h == [hist EXCEPT ![k] = Append(@, e)]
        o == UsedLast(k, LiveKeys(hist))
    IN  \/ /\ Cardinality(Slots(h)) <= capacity
           /\ hist' = h
           /\ older' = o
        \/ /\ Cardinality(Slots(h)) > capacity
           /\ \E v \in LiveKeys(h) :
                /\ \A j \in LiveKeys(h) \ {v} : <<v, j>> \in o
                /\ hist' = [h EXCEPT ![v] = Tail(@)]
                /\ older' = IF Tail(h[v]) = <<>>
                              THEN {p \in o : p[1] # v /\ p[2] # v}
                              ELSE o

Remove(k) ==
    /\ hist[k] # <<>>
    /\ hist' = [hist EXCEPT ![k] = <<>>]
    /\ older' = {p \in older : p[1] # k /\ p[2] # k}

Next ==
    \E k \in Key :
        \/ Read(k)
        \/ Remove(k)
        \/ \E e \in Entry : Store(k, e)

Spec == Init /\ [][Next]_vars
=============================================================================
