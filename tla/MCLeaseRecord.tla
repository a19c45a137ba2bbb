--------------------------- MODULE MCLeaseRecord ----------------------------
(***************************************************************************)
(* Symmetry and a view for TLC.                                            *)
(***************************************************************************)
EXTENDS LeaseRecord, TLC

ProcSymmetry == Permutations(Procs)

\* Where a record lies in memory does not matter, only what it holds and who
\* points to it.
Held(o) == IF o = Nil THEN NoLease ELSE heap[o]
Memory ==
  <<store, watchVars, Entries, now, pc, again, dur, raw,
    [p \in Procs |-> <<Held(match[p]), match[p] = cache,
                       {q \in Procs : match[q] = match[p]}>>],
    [p \in Procs |-> <<msg[p].type, msg[p].name>>],
    received>>

\* When the client's lease ends matters to RecordOutlivesClient alone, which says
\* nothing once a message was hasty or a write failed.
View ==
  <<Memory, names, overlapped, faults,
    IF hasty \/ failed THEN <<>> ELSE <<until, [p \in Procs |-> msg[p].at]>>>>

=============================================================================
