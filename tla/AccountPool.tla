----------------------------- MODULE AccountPool -----------------------------
(***************************************************************************)
(* What a pool of service accounts promises: an account that has been      *)
(* added is given to one customer, a customer is given one account, and an *)
(* account that is given is not free any more.  Only when the pool is      *)
(* empty may an account be passed on: the pool forgets, or will forget,    *)
(* the customer who has it, and nobody tells this customer.                *)
(***************************************************************************)
CONSTANTS Account, Customer

VARIABLES
    free,       \* the accounts that may be given
    reserved,   \* pairs of an account and the customer it has been given to
    taken       \* the pairs whose customer has been activated

vars == <<free, reserved, taken>>

Given == reserved \cup taken

Init == free = {} /\ reserved = {} /\ taken = {}

\* An account is added once.
Add(a) ==
    /\ a \notin free
    /\ \A c \in Customer : <<a, c>> \notin Given
    /\ free' = free \cup {a}
    /\ UNCHANGED <<reserved, taken>>

Reserve(a, c) ==
    /\ a \in free
    /\ \A b \in Account : <<b, c>> \notin Given
    /\ free' = free \ {a}
    /\ reserved' = reserved \cup {<<a, c>>}
    /\ UNCHANGED taken

\* An account has one entry among those reserved and one among those taken.
Assigned(pairs, a, c) == {p \in pairs : p[1] # a} \cup {<<a, c>>}

PassOn(a, c) ==
    /\ free = {}
    /\ \E d \in Customer : <<a, d>> \in Given
    /\ \A b \in Account : <<b, c>> \notin Given
    /\ reserved' = Assigned(reserved, a, c)
    /\ UNCHANGED <<free, taken>>

Take(a, c) ==
    /\ <<a, c>> \in reserved
    /\ reserved' = reserved \ {<<a, c>>}
    /\ taken' = Assigned(taken, a, c)
    /\ UNCHANGED free

Next ==
    \E a \in Account :
        Add(a) \/ \E c \in Customer : Reserve(a, c) \/ PassOn(a, c) \/ Take(a, c)

Spec == Init /\ [][Next]_vars
=============================================================================
