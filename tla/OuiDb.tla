------------------------------- MODULE OuiDb --------------------------------
(***************************************************************************)
(* The database of vendors (package oui): Load reads a file in Wireshark's *)
(* manuf format line by line into Blocks, and Lookup returns the first     *)
(* block that contains an address.  A line is reduced to what the two      *)
(* regular expressions and ParseOUI make of it.                            *)
(***************************************************************************)
EXTENDS Masks, SequencesExt

CONSTANTS
  Ouis,        \* what the lines name: sequences of 3 to 6 octets
  Vendors,     \* organizations
  Addresses,   \* hardware addresses looked up, of any length
  MaxLines,    \* bound on the file's lines
  NoBlock      \* Lookup found nothing

\* "skip": empty, a comment, or without an address; "short": without white space
\* after the second field, which the first expression does not match.  A line's
\* address need not be hexadecimal: the second expression takes any letters.
Line ==
  [kind : {"entry"}, prefix : Ouis, hex : BOOLEAN, org : Vendors]
    \cup [kind : {"skip", "short"}]

ASSUME OuiAssumption ==
  /\ \A oui \in Ouis : oui \in Seq(Octet) /\ Len(oui) \in 3..6
  /\ Addresses \subseteq Seq(Octet)
  /\ NoBlock \notin [oui : Seq(Octet), mask : {24}, org : Vendors]

VARIABLES
  file,      \* the lines read so far
  blocks,    \* OuiDb.Blocks
  load       \* "reading", "done", "panic"

ouiVars == <<file, blocks, load>>

OuiInit == file = <<>> /\ blocks = <<>> /\ load = "reading"

\* Mutant: a vendor's three octets are not a whole address.
ParseWholeOUI(l) == IF l.hex /\ Len(l.prefix) = 6 THEN l.prefix ELSE <<>>

\* ParseOUI(s, 6): the octets, and zeros to six of them; nil for what is not
\* hexadecimal.
ParseOUI(l) ==
  IF l.hex
    THEN [i \in 1..6 |-> IF i <= Len(l.prefix) THEN l.prefix[i] ELSE 0]
    ELSE <<>>

\* Mutant: the mask is left at the block's own length.
BlockUnmasked(l) == [oui |-> ParseOUI(l), mask |-> 48, org |-> l.org]

\* The group that s comes from ends before the slash, so that no length is ever
\* found in it, and the error of ParseOUI is dropped.
Block(l) == [oui |-> ParseOUI(l), mask |-> 24, org |-> l.org]

\* One turn of the loop of Load; a line the first expression does not match
\* ends it with an index out of range.
ReadLine(l) ==
  /\ load = "reading"
  /\ Len(file) < MaxLines
  /\ file' = Append(file, l)
  /\ blocks' = IF l.kind = "entry" THEN Append(blocks, Block(l)) ELSE blocks
  /\ load' = IF l.kind = "short" THEN "panic" ELSE "reading"

EndOfFile == load = "reading" /\ load' = "done" /\ UNCHANGED <<file, blocks>>

OuiNext == (\E l \in Line : ReadLine(l)) \/ EndOfFile

OuiSpec == OuiInit /\ [][OuiNext]_ouiVars

\* The operator & of two octets.
AndOctet(a, b) ==
  LET bit(v) == IF (a \div v) % 2 = 1 /\ (b \div v) % 2 = 1 THEN v ELSE 0
  IN  bit(1) + bit(2) + bit(4) + bit(8) + bit(16) + bit(32) + bit(64) + bit(128)

Mask(address, mask) ==
  IF Len(address) # Len(mask) THEN <<>>
  ELSE [i \in DOMAIN address |-> AndOctet(address[i], mask[i])]

BlockContains(b, address) ==
  Mask(address, CIDRMask(b.mask, 8 * Len(b.oui))) = b.oui

Containing(address) == {i \in DOMAIN blocks : BlockContains(blocks[i], address)}

Lookup(address) ==
  IF Containing(address) = {} THEN NoBlock ELSE blocks[Min(Containing(address))]

(***************************************************************************)
(* Properties.                                                             *)
(***************************************************************************)

\* The lines that name a vendor, and those whose octets an address starts with.
Entries == {i \in DOMAIN file : file[i].kind = "entry"}
Owners(address) == {i \in Entries : IsPrefix(file[i].prefix, address)}

\* Lookup finds the OUI an address belongs to, as its comment says, in a file
\* whose entries are all hexadecimal and of three octets: the first line about
\* it, and nothing for an address that no line is about.  (Longer prefixes are
\* never found, because the mask is 24 for them too, unless the octets after the
\* third are 0, and one line that is not hexadecimal is found for every address.)
VendorFound ==
  (load = "done" /\ \A i \in Entries : file[i].hex /\ Len(file[i].prefix) = 3)
    => \A a \in Addresses :
         IF Owners(a) = {} \/ Len(a) # 6
           THEN Lookup(a) = NoBlock
           ELSE Lookup(a) # NoBlock /\ Lookup(a).org = file[Min(Owners(a))].org

\* Whatever the lengths in the file, an address is attributed only to a vendor
\* of whose entries one begins with the address's first three octets, as long as
\* every entry is hexadecimal.
NeverMisattributed ==
  (load = "done" /\ \A i \in Entries : file[i].hex)
    => \A a \in Addresses :
         Lookup(a) # NoBlock
           => \E i \in Entries : /\ file[i].org = Lookup(a).org
                                 /\ SubSeq(file[i].prefix, 1, 3) = SubSeq(a, 1, 3)

=============================================================================
