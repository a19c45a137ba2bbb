-------------------------------- MODULE Ipam --------------------------------
(***************************************************************************)
(* The address arithmetic of the internal IPAM.  Addresses are the numbers *)
(* 1..TopAddr of a small address space; 0 is netip's zero Addr, which      *)
(* sorts before every address and belongs to no subnet, and also the empty *)
(* Address of a lease that was given none.                                 *)
(***************************************************************************)
EXTENDS Integers

CONSTANTS
  TopAddr,      \* the last address of the address space (255.255.255.255)
  RangeStart,   \* InternalIPAM.Start
  RangeEnd,     \* InternalIPAM.End
  Subnet        \* the addresses of Scope.cidr

NoAddr == 0

Addr == 0..TopAddr

ASSUME IpamAssumption ==
  /\ TopAddr \in Nat \ {0}
  /\ RangeStart \in 1..TopAddr
  /\ RangeEnd \in 1..TopAddr
  /\ Subnet \subseteq 1..TopAddr

\* Mutant: the last address has a successor.
NextAddrNoWrap(a) == a + 1

\* netip.Addr.Next: past the last address comes the zero Addr.
NextAddr(a) == IF a = TopAddr THEN NoAddr ELSE a + 1

\* Mutant: the range check forgets the start.
OutOfRangeEnd(a) == RangeEnd < a

\* IsIPFree's range check.
OutOfRange(a) == RangeStart > a \/ RangeEnd < a

\* Mutant: the scan stops before the last address.
ScanEndedEarly(a) == RangeEnd <= a \/ a \notin Subnet

\* Mutant: the scan does not look at the subnet.
ScanEndedByRange(a) == RangeEnd < a

\* Where NextFreeAddress stops looking.
ScanEnded(a) == RangeEnd < a \/ a \notin Subnet

\* The addresses NextFreeAddress can reach.
Pool == {a \in RangeStart..RangeEnd : RangeStart..a \subseteq Subnet}

=============================================================================
