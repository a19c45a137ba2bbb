------------------------------- MODULE Masks --------------------------------
(***************************************************************************)
(* The two functions that turn the length of a prefix into octets: of      *)
(* package oui, for hardware addresses, and of package utils, for IPv4.    *)
(* Nothing else in the program calls the second.                           *)
(***************************************************************************)
EXTENDS Integers, Sequences

Octet == 0..255

\* oui.CIDRMask: n counts down by 8 while it lasts, the next octet takes what
\* is left of it (^byte(0xff >> n)), and the others nothing.
CIDRMask(ones, bits) ==
  [i \in 1..bits \div 8 |->
     LET n == ones - 8 * (i - 1)
     IN  IF n >= 8 THEN 255 ELSE IF n > 0 THEN 255 - (255 \div 2^n) ELSE 0]

\* utils.IPv4MaskLenToStr before it is printed: 0xff shifted left by what an
\* octet does not get, in a byte.  No mask for a length that is none.
IPv4Mask(maskLen) ==
  IF maskLen \notin 0..32 THEN <<>>
  ELSE [i \in 1..4 |->
          LET remaining == maskLen - 8 * (i - 1)
              bits == IF remaining < 8 THEN remaining ELSE 8
          IN  IF bits > 0 THEN (255 * 2^(8 - bits)) % 256 ELSE 0]

\* The two agree on every IPv4 prefix, 0 and 32 included.
ASSUME MasksAgree == \A len \in 0..32 : IPv4Mask(len) = CIDRMask(len, 32)

=============================================================================
