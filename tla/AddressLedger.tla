---------------------------- MODULE AddressLedger ----------------------------
(***************************************************************************)
(* What the provider promises to the users of IPAddressClaims (readme.md:  *)
(* it "creates a NetBox IP address record for every accepted claim, and    *)
(* deletes it when the claim is deleted"), without controllers, caches,    *)
(* finalizers or failures: a ledger of reservations, the addresses         *)
(* published for the claims, and the life of each claim.                   *)
(***************************************************************************)
CONSTANTS Claims, Addresses, NoAddress

VARIABLES
    ledger,     \* reservations: a set of [owner, address]
    published,  \* the address each claim's users see, or NoAddress
    life        \* "open", "closing" (deletion requested) or "closed" (gone)

ledgerVars == <<ledger, published, life>>

Holds(c) == {r \in ledger : r.owner = c}

\* Reserved for somebody, or still seen by somebody.
Taken(a) == (\E r \in ledger : r.address = a) \/ (\E c \in Claims : published[c] = a)

LedgerInit ==
    /\ ledger = {}
    /\ published = [c \in Claims |-> NoAddress]
    /\ life = [c \in Claims |-> "open"]

\* A claim without a reservation gets one, of an address nobody has.
Grant(c, a) ==
    /\ life[c] # "closed"
    /\ Holds(c) = {}
    /\ ~Taken(a)
    /\ ledger' = ledger \cup {[owner |-> c, address |-> a]}
    /\ UNCHANGED <<published, life>>

\* The reserved address becomes visible.
Publish(c, a) ==
    /\ published[c] = NoAddress
    /\ [owner |-> c, address |-> a] \in ledger
    /\ published' = [published EXCEPT ![c] = a]
    /\ UNCHANGED <<ledger, life>>

\* Only a closing claim loses its reservation, and then its published address.
Revoke(c) ==
    /\ life[c] = "closing"
    /\ Holds(c) # {}
    /\ ledger' = ledger \ Holds(c)
    /\ UNCHANGED <<published, life>>

Withdraw(c) ==
    /\ life[c] = "closing"
    /\ Holds(c) = {}
    /\ published[c] # NoAddress
    /\ published' = [published EXCEPT ![c] = NoAddress]
    /\ UNCHANGED <<ledger, life>>

RequestClose(c) ==
    /\ life[c] = "open"
    /\ life' = [life EXCEPT ![c] = "closing"]
    /\ UNCHANGED <<ledger, published>>

\* A claim goes only when it holds nothing and nothing is published for it.
Close(c) ==
    /\ life[c] # "closed"
    /\ Holds(c) = {}
    /\ published[c] = NoAddress
    /\ life' = [life EXCEPT ![c] = "closed"]
    /\ UNCHANGED <<ledger, published>>

LedgerNext ==
    \E c \in Claims :
        \/ \E a \in Addresses : Grant(c, a) \/ Publish(c, a)
        \/ Revoke(c) \/ Withdraw(c) \/ RequestClose(c) \/ Close(c)

LedgerSpec == LedgerInit /\ [][LedgerNext]_ledgerVars
=============================================================================
