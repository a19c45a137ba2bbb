--------------------------- MODULE MCWatchedStore ---------------------------
(***************************************************************************)
(* Values for TLC: the values are the numbers of the writes.               *)
(***************************************************************************)
EXTENDS WatchedStore

MCValues == 1..(MaxWrites + 1)

=============================================================================
