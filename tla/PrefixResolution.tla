-------------------------- MODULE PrefixResolution --------------------------
(***************************************************************************)
(* How a pool's spec becomes the prefixes that claims allocate from, and   *)
(* which gateway an address gets: the lookups of internal/netbox/client.go *)
(* that read prefixes, internal/netbox/gateway.go, buildResolvedPrefixes   *)
(* of the pool controller and the two ways in which the claim handler      *)
(* picks a gateway.  Pure operators over a table of NetBox prefixes.       *)
(*                                                                         *)
(* An IP address is a family and a number, a CIDR a family and a range.    *)
(* A string the program takes for an IP address may also be empty or       *)
(* malformed.                                                              *)
(***************************************************************************)
EXTENDS Naturals, Sequences, FiniteSets

Text      == [family : {"none", "malformed", "v4", "v6"}, host : Nat]
CIDR      == [family : {"none", "v4", "v6"}, first : Nat, last : Nat]
Blank     == [family |-> "none", host |-> 0]
Malformed == [family |-> "malformed", host |-> 0]
NoCIDR    == [family |-> "none", first |-> 0, last |-> 0]

\* A row of NetBox's prefix table, with the value of the gateway custom field.
Prefix  == [id : Nat, cidr : CIDR, vrf : Nat, gateway : Text]
Missing == [id |-> 0, cidr |-> NoCIDR, vrf |-> 0, gateway |-> Blank]

\* A reference has an id (0: unset) or a cidr with a vrf (0: any), and a static gateway.
PrefixReference == [id : Nat, cidr : CIDR, vrf : Nat, gateway : Text]

\* Of a spec: the references, the pool's static gateway, and whether GatewayCustomField names
\* a field.
PoolSpec == [prefixes : Seq(PrefixReference), gateway : Text, gatewayCustomField : BOOLEAN]

\* What the pool controller keeps of a prefix.
ResolvedPrefix == [id : Nat, cidr : CIDR, gateway : Text]

IDs(details)      == [i \in DOMAIN details |-> details[i].id]
Distinct(details) == \A i, j \in DOMAIN details : details[i].id = details[j].id => i = j

\* A faulty variant, which misses the last address, and the operator itself.
ContainsButLast(cidr, ip) == cidr.family = ip.family /\ cidr.first <= ip.host /\ ip.host < cidr.last

Contains(cidr, ip) == cidr.family = ip.family /\ ip.host \in cidr.first..cidr.last

-----------------------------------------------------------------------------
(* NetBox and the connection Secret.                                       *)

Value  == {"absent", "malformed", "good"}
Secret == [exists : BOOLEAN, url : Value, token : Value, insecureSkipVerify : Value, caBundle : Value]
NetBox == [up : BOOLEAN, secret : Secret, table : SUBSET Prefix]

LoadConnectionConfig(secret) ==
    /\ secret.exists
    /\ secret.url # "absent"
    /\ secret.token # "absent"
    /\ secret.insecureSkipVerify # "malformed"

\* NewHTTPClient needs a readable CA bundle, SplitBaseURL a scheme and a host.
NewClient(secret) == secret.caBundle # "malformed" /\ secret.url # "malformed"

\* A request gets an answer: the Secret makes a client, and NetBox is up.
Answers(n) == LoadConnectionConfig(n.secret) /\ NewClient(n.secret) /\ n.up

-----------------------------------------------------------------------------
(* ResolvePrefixIDs: a reference by ID is taken as it is, one by CIDR must *)
(* match exactly one prefix.  There is an ID for every reference, in order.*)

Matching(table, ref) ==
    {row \in table : row.cidr = ref.cidr /\ (ref.vrf = 0 \/ row.vrf = ref.vrf)}

Resolvable(table, refs) ==
    \A i \in DOMAIN refs : refs[i].id # 0 \/ Cardinality(Matching(table, refs[i])) = 1

ResolvePrefixIDs(table, refs) ==
    [i \in DOMAIN refs |->
        IF refs[i].id # 0 THEN refs[i].id ELSE (CHOOSE row \in Matching(table, refs[i]) : TRUE).id]

\* GetPrefixDetails leaves out what NetBox does not return; its caller then reads the zero
\* value of a detail.
PrefixDetail(table, id) ==
    IF \E row \in table : row.id = id THEN CHOOSE row \in table : row.id = id ELSE Missing

-----------------------------------------------------------------------------
(* Gateways.                                                               *)

First(indices) == CHOOSE i \in indices : \A j \in indices : i <= j

firstNonEmpty(values) ==
    LET set == {i \in DOMAIN values : values[i] # Blank}
    IN  IF set = {} THEN Blank ELSE values[First(set)]

\* CustomFieldString: an empty GatewayCustomField turns the lookup in NetBox off.
CustomFieldString(row, spec) == IF spec.gatewayCustomField THEN row.gateway ELSE Blank

\* The gateway of the i-th reference: NetBox's, the reference's own, or the pool's.
GatewayOf(spec, i, row) ==
    firstNonEmpty(<<CustomFieldString(row, spec), spec.prefixes[i].gateway, spec.gateway>>)

\* ResolveGateway rejects a gateway that is no IP address, whose prefix has no CIDR, or that
\* is not of its prefix's family.
GatewayValid(cidr, gateway) ==
    gateway = Blank \/ (gateway # Malformed /\ cidr # NoCIDR /\ gateway.family = cidr.family)

GatewaysValid(spec, ids, table) ==
    \A i \in DOMAIN ids :
        LET row == PrefixDetail(table, ids[i]) IN GatewayValid(row.cidr, GatewayOf(spec, i, row))

\* buildResolvedPrefixes, if every gateway is valid.
buildResolvedPrefixes(spec, ids, table) ==
    [i \in DOMAIN ids |->
        LET row == PrefixDetail(table, ids[i])
        IN  [id |-> ids[i], cidr |-> row.cidr, gateway |-> GatewayOf(spec, i, row)]]

\* What the claim handler looks up a gateway in: the details cached in the pool's status or,
\* as long as there are none, those NetBox has now for the prefixes it allocates from, which it
\* resolves first if it has none.  A lookup that fails leaves the address without a gateway.
gatewayDetails(cached, ids, spec, n) ==
    LET live  == IF ids # <<>> THEN ids ELSE ResolvePrefixIDs(n.table, spec.prefixes)
        found == /\ n.up
                 /\ ids = <<>> => Resolvable(n.table, spec.prefixes)
                 /\ GatewaysValid(spec, live, n.table)
    IN  CASE cached # <<>>           -> cached
          [] cached = <<>> /\ found  -> buildResolvedPrefixes(spec, live, n.table)
          [] cached = <<>> /\ ~found -> <<>>

\* The gateway of an address that has just been allocated from a prefix: that of the first
\* detail with its ID.
gatewayForPrefixID(details, id) ==
    LET set == {i \in DOMAIN details : details[i].id = id}
    IN  IF set = {} THEN Blank ELSE details[First(set)].gateway

\* The gateway of an address that is found again in NetBox, which does not say of which
\* prefix it is: that of the first detail with a gateway whose CIDR contains the address.
gatewayForAddress(details, ip) ==
    LET set == {i \in DOMAIN details : details[i].gateway # Blank /\ Contains(details[i].cidr, ip)}
    IN  IF set = {} THEN Blank ELSE details[First(set)].gateway
=============================================================================
