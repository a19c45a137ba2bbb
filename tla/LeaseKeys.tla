------------------------------ MODULE LeaseKeys ------------------------------
(***************************************************************************)
(* The strings under which a lease travels: the key a handler builds, the  *)
(* key the storage client writes under its configured prefix, the key the  *)
(* watcher files the lease under, and the one FindLease looks up.  Three   *)
(* parties build these strings separately, so whether they agree depends   *)
(* on the configured prefix.                                               *)
(*                                                                         *)
(* A string is a sequence of tokens; "/" is a token, and so is every       *)
(* maximal part between two separators (a MAC address contains none).      *)
(***************************************************************************)
EXTENDS Integers, Sequences

CONSTANT ClientPrefix   \* Client.prefix, from badger.prefix of the config

ASSUME PrefixAssumption == ClientPrefix \in Seq(STRING)

SEP == "/"

\* strings.TrimPrefix.
TrimPrefix(s, p) ==
  IF Len(p) <= Len(s) /\ SubSeq(s, 1, Len(p)) = p
    THEN SubSeq(s, Len(p) + 1, Len(s))
    ELSE s

\* Key.String of parts that do not start with the separator.
KeyString(parts, prefix) ==
  LET n == 2 * Len(parts)
  IN [i \in 1..(IF prefix THEN n + 1 ELSE n) |->
        IF i % 2 = 1 THEN SEP ELSE parts[i \div 2]]

\* Client.getFullKey.
FullKey(key) ==
  IF ClientPrefix = <<>>
    THEN key
    ELSE TrimPrefix(ClientPrefix, <<SEP>>) \o <<SEP>> \o TrimPrefix(key, <<SEP>>)

\* The prefix the leases watcher is created with.
WatchKey == KeyString(<<"dhcp", "leases">>, TRUE)

\* The option WithPrefix is commented out where the watcher is created.
WithPrefix == FALSE

\* Lease.Put and Lease.Delete; GetWithPrefix builds the same key.
LeaseKey(id) == KeyString(<<"dhcp", "leases", id>>, FALSE)

\* The key in the store, which is also the key of the watcher's map (keyFunc
\* is the identity).
EntryKey(id) == FullKey(LeaseKey(id))

\* Lease.Identifier as leaseFromKV recovers it from a key of the store; the
\* client's prefix, where there is one, is not trimmed off.
Identifier(id) == TrimPrefix(EntryKey(id), WatchKey)

\* Whether the scan of the watched prefix meets the lease of id.
Scanned(id) ==
  LET p == FullKey(WatchKey)
  IN Len(p) <= Len(EntryKey(id)) /\ SubSeq(EntryKey(id), 1, Len(p)) = p

\* handleEvent's filter: without WithPrefix, a key that still contains a
\* separator once the watched prefix is trimmed is ignored.
Accepted(id) ==
  /\ Scanned(id)
  /\ WithPrefix \/ \A i \in DOMAIN Identifier(id) : Identifier(id)[i] # SEP

=============================================================================
