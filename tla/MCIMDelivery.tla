---------------------------- MODULE MCIMDelivery ----------------------------
(* A small instance of IMDelivery. *)
EXTENDS IMDelivery, TLC

CONSTANTS r1, r2, w1, u1, u2

\* Two requests, and one account with two users.  An account that is logged in
\* again after it was deleted is another one, so there may be two at a time of
\* which targets speak.
MCRequests == {r1, r2}
MCLogins   == {w1}
MCUsers    == {u1, u2}
MCOwner    == w1 :> u1

\* At most two callers are under way at once: every two of them interleave.
MCTwoAtOnce == Cardinality({c \in Callers : ~At(c, "idle")}) <= 2

\* The two requests may be exchanged.
MCSymmetry == Permutations(MCRequests)

=============================================================================
