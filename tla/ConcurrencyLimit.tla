--------------------------- MODULE ConcurrencyLimit ---------------------------
(***************************************************************************)
(* What concurrency_limit promises: never more than Limit[c] requests use  *)
(* credential c at once.  A request takes a free slot in one step and      *)
(* gives it back in another; a crash of the gateway empties every slot.    *)
(***************************************************************************)
EXTENDS Naturals, FiniteSets

CONSTANTS Requests, Creds, Limit, NoLimit

VARIABLE users   \* per credential: the requests that use it

HasSlot(c) == Limit[c] # NoLimit => Cardinality(users[c]) < Limit[c]

Init == users = [c \in Creds |-> {}]

Take(r, c) ==
    /\ \A d \in Creds : r \notin users[d]
    /\ HasSlot(c)
    /\ users' = [users EXCEPT ![c] = @ \cup {r}]

Give(r, c) ==
    /\ r \in users[c]
    /\ users' = [users EXCEPT ![c] = @ \ {r}]

Clear == users' = [c \in Creds |-> {}]

Next ==
    \/ \E r \in Requests, c \in Creds : Take(r, c) \/ Give(r, c)
    \/ Clear

Spec == Init /\ [][Next]_users
===============================================================================
