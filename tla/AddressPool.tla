---------------------------- MODULE AddressPool ----------------------------
(***************************************************************************)
(* What address assignment promises, without handlers, caches or events.   *)
(* Every address is leased to one client at most.  A client that was told  *)
(* its address keeps it until it leaves; before that, the server may still *)
(* change its mind about the offer.  A client without a lease gets an      *)
(* empty one only if nothing in the pool is left.                          *)
(***************************************************************************)
CONSTANTS
  Clients,
  Addresses,   \* the addresses a client may be given
  Pool,        \* those of them the server finds by itself
  Reserved,    \* the initial leases, which are never released: a function
               \* from some of the clients to their addresses
  Empty,       \* a lease without an address
  None         \* the absence of a lease

VARIABLES
  lease,       \* the lease of each client
  told         \* the clients that know the address of their lease

vars == <<lease, told>>

Held == {lease[c] : c \in Clients}

\* The client is given an address, which it may believe in already.
Grant(c, a) ==
  /\ c \notin told
  /\ a \notin {lease[d] : d \in Clients \ {c}}
  /\ lease' = [lease EXCEPT ![c] = a]
  /\ told' \in {told, told \cup {c}}

GrantNothing(c) ==
  /\ c \notin told
  /\ lease[c] # None \/ Pool \subseteq Held
  /\ lease' = [lease EXCEPT ![c] = Empty]
  /\ UNCHANGED told

Acknowledge(c) ==
  /\ lease[c] \notin {Empty, None}
  /\ told' = told \cup {c}
  /\ UNCHANGED lease

\* The client declines its address, or is about to release it.
Leave(c) ==
  /\ told' = told \ {c}
  /\ UNCHANGED lease

Release(c) ==
  /\ c \notin told \cup DOMAIN Reserved
  /\ lease' = [lease EXCEPT ![c] = None]
  /\ UNCHANGED told

Init ==
  /\ lease = [c \in Clients |-> IF c \in DOMAIN Reserved THEN Reserved[c] ELSE None]
  /\ told = {}

Next ==
  \E c \in Clients :
    \/ \E a \in Addresses : Grant(c, a)
    \/ GrantNothing(c)
    \/ Acknowledge(c)
    \/ Leave(c)
    \/ Release(c)

Spec == Init /\ [][Next]_vars

=============================================================================
