---------------------------- MODULE MCDhcpServer ----------------------------
(***************************************************************************)
(* Values for TLC of the constants a cfg cannot write.                     *)
(***************************************************************************)
EXTENDS DhcpServer, TLC

CONSTANT c1   \* one of the clients

\* badger.prefix: unset, and as config.json ships it.
NoPrefix == <<>>
ShippedPrefix == <<"/", "enhance">>

\* No reservation, and one for c1 of the pool's first address.
NoReservations == [c \in {} |-> NoAddr]
FirstReserved == [c \in {c1} |-> RangeStart]

\* What the clients remember influences nothing the server does, and every step
\* that changes it changes pc too, so runs whose properties do not speak of acked
\* need not tell its values apart, not even to see that something happens.
WithoutAcked == <<store, entries, lastData, pend, chan, phase,
                  pc, msg, lease, fresh, cand>>

=============================================================================
