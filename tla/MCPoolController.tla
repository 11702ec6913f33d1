-------------------------- MODULE MCPoolController --------------------------
(* PoolController on small instances: one IPAddress, three prefixes.       *)
EXTENDS PoolInvariant

CONSTANT u1

IPv4(host) == [family |-> "v4", host |-> host]
IPv6(host) == [family |-> "v6", host |-> host]
Range4(first, last) == [family |-> "v4", first |-> first, last |-> last]
Row(id, cidr, vrf, gateway) == [id |-> id, cidr |-> cidr, vrf |-> vrf, gateway |-> gateway]
ByID(id, gateway)   == Row(id, NoCIDR, 0, gateway)
ByCIDR(cidr, vrf)   == Row(0, cidr, vrf, Blank)

\* Two adjacent prefixes, the second with a gateway of its own; the first exists once more in
\* another VRF, and the second is gone or has a gateway of the other family.
First4  == Range4(0, 1)
Second4 == Range4(2, 3)
Sound   == {Row(1, First4, 1, Blank), Row(2, Second4, 1, IPv4(3))}
Edited  == {Row(1, First4, 1, Blank), Row(2, Second4, 1, IPv6(0)), Row(3, First4, 2, Blank)}
Cut     == {Row(1, First4, 1, IPv4(1))}

GoodSecret == [exists |-> TRUE, url |-> "good", token |-> "good",
               insecureSkipVerify |-> "absent", caBundle |-> "absent"]
Up(table) == [up |-> TRUE, secret |-> GoodSecret, table |-> table]
Outages   == {Up(Sound), Up(Edited),
              [Up(Cut) EXCEPT !.up = FALSE, !.secret.caBundle = "malformed"]}

PoolWith(prefixes) == [prefixes |-> prefixes, gateway |-> IPv4(9), gatewayCustomField |-> TRUE]

\* The first prefix by its CIDR and the second by its ID; the first in its VRF; the first twice.
Two   == PoolWith(<<ByCIDR(First4, 0), ByID(2, Blank)>>)
One   == PoolWith(<<ByCIDR(First4, 1)>>)
Twice == PoolWith(<<ByID(1, IPv4(8)), ByCIDR(First4, 1)>>)
ThreeSpecs == {Two, One, Twice}
=============================================================================
