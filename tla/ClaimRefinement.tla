--------------------------- MODULE ClaimRefinement ---------------------------
(***************************************************************************)
(* The claim controller implements the address ledger: NetBox's records    *)
(* are the ledger, the IPAddress objects what is published, and the        *)
(* IPAddressClaim's deletion timestamp and existence its life.             *)
(***************************************************************************)
EXTENDS ClaimController

Reservations == {[owner |-> r.owner, address |-> r.address] : r \in records}

PublishedFor(c) == IF ipAddress[NameOf[c]].owner = c THEN ipAddress[NameOf[c]].address ELSE NoAddress

LifeOf(obj) == CASE obj.phase = "deleting" -> "closing"
                 [] obj.phase = "gone"     -> "closed"
                 [] OTHER                  -> "open"

Ledger == INSTANCE AddressLedger WITH
    ledger    <- Reservations,
    published <- [c \in Claims |-> PublishedFor(c)],
    life      <- [c \in Claims |-> LifeOf(claim[c])]

\* Every step of the controller, NetBox, the API server or a user is a step of the ledger or
\* leaves it alone: in particular an address is granted only when it is neither reserved nor
\* still published, is published only for its owner, and outlives no claim.
ImplementsLedger == Ledger!LedgerSpec
=============================================================================
