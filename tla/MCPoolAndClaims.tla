--------------------------- MODULE MCPoolAndClaims ---------------------------
(* One claim and a pool with two prefixes of one address.                   *)
EXTENDS PoolAndClaimsInvariant

CONSTANT c1

OwnNames == [c \in Claims |-> c]

Row(id, host) == [id |-> id, cidr |-> [family |-> "v4", first |-> host, last |-> host],
                  vrf |-> 1, gateway |-> Blank]
Ref(id)       == [id |-> id, cidr |-> NoCIDR, vrf |-> 0, gateway |-> Blank]
PoolWith(refs) == [prefixes |-> refs, gateway |-> Blank, gatewayCustomField |-> FALSE]

\* The second prefix is removed or added by an edit.
Both == PoolWith(<<Ref(1), Ref(2)>>)
TwoSpecs == {Both, PoolWith(<<Ref(2)>>)}

Prefixes == [up |-> TRUE,
             secret |-> [exists |-> TRUE, url |-> "good", token |-> "good",
                         insecureSkipVerify |-> "absent", caBundle |-> "absent"],
             table |-> {Row(1, 1), Row(2, 2)}]
=============================================================================
