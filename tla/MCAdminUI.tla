------------------------------ MODULE MCAdminUI ------------------------------
(* A small instance of AdminUI for TLC. *)
EXTENDS AdminUI, TLC

MCInputs ==
    {[status |-> "disabled", expiry |-> "keep"],
     [status |-> "active", expiry |-> "new"],
     [status |-> None, expiry |-> "unreadable"]}

\* Sessions come and go with users, forms are posted twice with providers and
\* keys, other clients interfere with providers and models.
MCBounds ==
    [user |-> [time |-> 3, logins |-> 2, requests |-> 1, tokens |-> 0, others |-> 0],
     provider |-> [time |-> 0, logins |-> 1, requests |-> 2, tokens |-> 0, others |-> 1],
     model |-> [time |-> 0, logins |-> 1, requests |-> 1, tokens |-> 0, others |-> 1],
     key |-> [time |-> 1, logins |-> 1, requests |-> 2, tokens |-> 2, others |-> 0]]

Symmetry == Permutations(Requests)
=============================================================================
