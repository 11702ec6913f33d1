------------------------- MODULE MCClaimController -------------------------
(* ClaimController on small instances: up to three claims, two addresses.   *)
EXTENDS ClaimRefinement, ClaimInvariant, TLC

CONSTANTS c1, c2, c3, a1, a2

\* Every claim has a name of its own, or the third follows the first under its name.
OwnNames == [c \in Claims |-> c]
NextName == [c \in Claims |-> IF c = c3 THEN c1 ELSE c]

View(state, prefixes, tag) ==
    [state |-> state, prefixes |-> prefixes, tag |-> tag, field |-> "uid"]

\* A pool that stays, one that is created late, edited and paused, and one whose ownership tag
\* is edited.
Both      == <<{a1}, {a2}>>
OnePrefix == {View("present", <<{a1}>>, "owned")}
Steady    == {View("present", Both, "owned")}
Changing  == Steady \cup {View("absent", <<>>, "owned"), View("paused", Both, "owned"),
                           View("present", <<{a1}>>, "owned")}
Retagged  == Steady \cup {View("present", Both, "renamed")}

MCSymmetry == Permutations({c1, c2})
=============================================================================
