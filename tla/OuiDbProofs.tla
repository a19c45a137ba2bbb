---------------------------- MODULE OuiDbProofs ----------------------------
(***************************************************************************)
(* Theorems about the vendor database, for files of any length and any     *)
(* addresses.  The blocks are the entries of the file in their order, so   *)
(* the first block that contains an address stems from the first entry     *)
(* whose block does.                                                       *)
(***************************************************************************)
EXTENDS OuiDb, SequenceTheorems, WellFoundedInduction, TLAPS

AddressBlock == [oui : Seq(Octet), mask : {24}, org : Vendors]

\* f says which line of the file each block was made of.
Origin(f) ==
  /\ f \in [DOMAIN blocks -> Entries]
  /\ \A i, j \in DOMAIN blocks : i < j => f[i] < f[j]
  /\ \A e \in Entries : \E i \in DOMAIN blocks : f[i] = e
  /\ \A i \in DOMAIN blocks : blocks[i] = Block(file[f[i]])

OuiInv ==
  /\ file \in Seq(Line)
  /\ blocks \in Seq(AddressBlock)
  /\ \E f : Origin(f)

(***************************************************************************)
(* The operators.                                                          *)
(***************************************************************************)

LEMMA AndAll == \A a \in Octet : AndOctet(a, 255) = a
BY DEF AndOctet, Octet

LEMMA AndNone == \A a \in Octet : AndOctet(a, 0) = 0
BY DEF AndOctet, Octet

\* A set of numbers has a least one, which is its minimum.
LEMMA MinIsLeast ==
  ASSUME NEW S, S \subseteq Nat, S # {}
  PROVE  Min(S) \in S /\ \A k \in S : Min(S) <= k
<1> DEFINE R == {ss \in Nat \X Nat : ss[1] < ss[2]}
<1>1. IsWellFoundedOn(R, Nat)
  BY NatLessThanWellFounded DEF OpToRel
<1>2. PICK m \in S : \A k \in S : ~(<<k, m>> \in R)
  <2> HIDE DEF R
  <2> QED BY <1>1, WFMin
<1>3. \A k \in S : ~(k < m)
  BY <1>2
<1>4. \A k \in S : m <= k
  <2> HIDE DEF R
  <2> QED BY <1>3
<1> QED BY <1>4 DEF Min

LEMMA MinIs ==
  ASSUME NEW S, S \subseteq Nat, NEW m \in S, \A k \in S : m <= k
  PROVE  Min(S) = m
<1>1. Min(S) \in S /\ Min(S) <= m
  BY MinIsLeast
<1>2. Min(S) \in Nat /\ m \in Nat /\ m <= Min(S)
  BY <1>1
<1> QED BY <1>1, <1>2

\* IsPrefix, and the equality of the first octets, one octet at a time.
LEMMA PrefixIs ==
  ASSUME NEW s \in Seq(Octet), NEW t \in Seq(Octet)
  PROVE  IsPrefix(s, t) <=> Len(s) <= Len(t) /\ \A i \in 1..Len(s) : s[i] = t[i]
<1>1. CASE Len(s) <= Len(t)
  <2>1. /\ SubSeq(s, 1, Len(s)) \in Seq(Octet) /\ Len(SubSeq(s, 1, Len(s))) = Len(s)
        /\ \A i \in 1..Len(s) : SubSeq(s, 1, Len(s))[i] = s[i]
    BY SubSeqProperties
  <2>2. /\ SubSeq(t, 1, Len(s)) \in Seq(Octet) /\ Len(SubSeq(t, 1, Len(s))) = Len(s)
        /\ \A i \in 1..Len(s) : SubSeq(t, 1, Len(s))[i] = t[i]
    BY <1>1, SubSeqProperties
  <2>3. (\A i \in 1..Len(s) : s[i] = t[i]) => SubSeq(s, 1, Len(s)) = SubSeq(t, 1, Len(s))
    BY <2>1, <2>2, SeqEqual
  <2>4. SubSeq(s, 1, Len(s)) = SubSeq(t, 1, Len(s)) => \A i \in 1..Len(s) : s[i] = t[i]
    BY <2>1, <2>2
  <2> QED BY <1>1, <2>3, <2>4 DEF IsPrefix
<1>2. CASE ~(Len(s) <= Len(t))
  BY <1>2 DEF IsPrefix
<1> QED BY <1>1, <1>2

LEMMA FirstThree ==
  ASSUME NEW s \in Seq(Octet), NEW t \in Seq(Octet), Len(s) >= 3, Len(t) >= 3,
         \A i \in 1..3 : s[i] = t[i]
  PROVE  SubSeq(s, 1, 3) = SubSeq(t, 1, 3)
<1>1. /\ SubSeq(s, 1, 3) \in Seq(Octet) /\ Len(SubSeq(s, 1, 3)) = 3
      /\ \A i \in 1..3 : SubSeq(s, 1, 3)[i] = s[i]
  BY SubSeqProperties
<1>2. /\ SubSeq(t, 1, 3) \in Seq(Octet) /\ Len(SubSeq(t, 1, 3)) = 3
      /\ \A i \in 1..3 : SubSeq(t, 1, 3)[i] = t[i]
  BY SubSeqProperties
<1> QED BY <1>1, <1>2, SeqEqual

\* Where the first three octets of a prefix of n lie, and where the others.
LEMMA Places ==
  ASSUME NEW n \in 3..6
  PROVE  /\ n >= 3
         /\ \A i \in 1..6 : i \in 1..3 \/ i \in 4..6
         /\ \A i \in 4..n : i \in 4..6 /\ i <= n
         /\ \A i \in 4..6 : i <= n => i \in 4..n
         /\ \A i \in 1..3 : i \in 1..6 /\ i <= 3 /\ i <= n
         /\ \A i \in 4..6 : i \in 1..6 /\ ~(i <= 3)
OBVIOUS

\* The mask of every block with six octets.
LEMMA Mask24 ==
  CIDRMask(24, 48) = [i \in 1..6 |-> IF i <= 3 THEN 255 ELSE 0]
BY DEF CIDRMask

\* The entry of a vendor, and the block it makes.
LEMMA EntryIs ==
  ASSUME NEW l \in Line, l.kind = "entry"
  PROVE  /\ l.hex \in BOOLEAN /\ l.org \in Vendors
         /\ l.prefix \in Seq(Octet) /\ Len(l.prefix) \in 3..6
         /\ Block(l) \in AddressBlock
         /\ Block(l).org = l.org /\ Block(l).mask = 24 /\ Block(l).oui = ParseOUI(l)
<1>1. l.hex \in BOOLEAN /\ l.org \in Vendors /\ l.prefix \in Ouis
  BY DEF Line
<1>2. l.prefix \in Seq(Octet) /\ Len(l.prefix) \in 3..6
  BY <1>1, OuiAssumption
<1>3. ParseOUI(l) \in Seq(Octet)
  <2>1. \A i \in 1..Len(l.prefix) : l.prefix[i] \in Octet
    BY <1>2, ElementOfSeq
  <2>2. CASE l.hex
    <3>1. ParseOUI(l) \in [1..6 -> Octet]
      <4>1. Len(l.prefix) \in Nat /\ 0 \in Octet
        BY <1>2 DEF Octet
      <4>2. \A i \in 1..6 : i <= Len(l.prefix) => i \in 1..Len(l.prefix)
        BY <4>1
      <4> QED BY <2>1, <2>2, <4>1, <4>2 DEF ParseOUI
    <3>2. 6 \in Nat
      OBVIOUS
    <3> HIDE DEF ParseOUI
    <3> QED BY <3>1, <3>2, SeqDef
  <2>3. CASE ~l.hex
    BY <2>3 DEF ParseOUI
  <2> QED BY <2>2, <2>3
<1> QED BY <1>1, <1>2, <1>3 DEF Block, AddressBlock

\* A hexadecimal entry's block contains the addresses of six octets that have its
\* first three, if its others are 0.
LEMMA ContainsIs ==
  ASSUME NEW l \in Line, l.kind = "entry", l.hex, NEW a \in Seq(Octet)
  PROVE  BlockContains(Block(l), a) <=>
           /\ Len(a) = 6
           /\ \A i \in 1..3 : a[i] = l.prefix[i]
           /\ \A i \in 4..Len(l.prefix) : l.prefix[i] = 0
<1> DEFINE oui == [i \in 1..6 |-> IF i <= Len(l.prefix) THEN l.prefix[i] ELSE 0]
           mask == [i \in 1..6 |-> IF i <= 3 THEN 255 ELSE 0]
<1>1. l.prefix \in Seq(Octet) /\ Len(l.prefix) \in 3..6
  BY EntryIs
<1>2. Block(l).oui = oui /\ Block(l).mask = 24
  BY EntryIs DEF ParseOUI
<1>3. Len(oui) = 6
  OBVIOUS
<1>4. BlockContains(Block(l), a) <=> Mask(a, mask) = oui
  <2>1. CIDRMask(Block(l).mask, 8 * Len(Block(l).oui)) = mask
    <3> HIDE DEF oui
    <3>1. 8 * Len(oui) = 48
      BY <1>3
    <3> QED BY <1>2, <3>1, Mask24
  <2> HIDE DEF oui, mask
  <2> QED BY <1>2, <2>1 DEF BlockContains
<1>5. Len(mask) = 6
  OBVIOUS
<1>6. CASE Len(a) # 6
  <2>1. Mask(a, mask) = <<>>
    BY <1>5, <1>6 DEF Mask
  <2>2. oui # <<>>
    BY <1>3
  <2> HIDE DEF oui, mask
  <2> QED BY <1>4, <1>6, <2>1, <2>2
<1>7. CASE Len(a) = 6
  <2> DEFINE out == [i \in 1..6 |-> IF i <= 3 THEN a[i] ELSE 0]
  <2>1. Mask(a, mask) = [i \in 1..6 |-> AndOctet(a[i], mask[i])]
    BY <1>5, <1>7 DEF Mask
  <2>2. \A i \in 1..6 : a[i] \in Octet
    BY <1>7, ElementOfSeq
  <2>3. \A i \in 1..6 : AndOctet(a[i], mask[i]) = IF i <= 3 THEN a[i] ELSE 0
    BY <2>2, AndAll, AndNone
  <2>4. Mask(a, mask) = out
    BY <2>1, <2>3
  <2>5. out = oui <=> \A i \in 1..6 : out[i] = oui[i]
    OBVIOUS
  <2>6. (\A i \in 1..6 : out[i] = oui[i]) <=>
           /\ \A i \in 1..3 : a[i] = l.prefix[i]
           /\ \A i \in 4..Len(l.prefix) : l.prefix[i] = 0
    <3>0. Len(l.prefix) \in 3..6
      BY <1>1
    <3>1. \A i \in 1..3 : out[i] = a[i] /\ oui[i] = l.prefix[i]
      BY <3>0, Places
    <3>2. \A i \in 4..6 : out[i] = 0 /\ oui[i] = IF i <= Len(l.prefix) THEN l.prefix[i] ELSE 0
      BY <3>0, Places
    <3>3. \A i \in 1..3 : out[i] = oui[i] <=> a[i] = l.prefix[i]
      <4> HIDE DEF oui, out
      <4> QED BY <3>1
    <3>4. \A i \in 4..6 : out[i] = oui[i] <=> (i <= Len(l.prefix) => l.prefix[i] = 0)
      <4> HIDE DEF oui, out
      <4> QED BY <3>2
    <3> QED BY <3>0, <3>3, <3>4, Places
  <2> HIDE DEF oui, mask, out
  <2> QED BY <1>4, <1>7, <2>4, <2>5, <2>6
<1> QED BY <1>6, <1>7


(***************************************************************************)
(* The blocks are the entries.                                             *)
(***************************************************************************)

LEMMA OuiInitial == OuiInit => OuiInv
<1> SUFFICES ASSUME OuiInit PROVE OuiInv
  OBVIOUS
<1>1. file = <<>> /\ blocks = <<>>
  BY DEF OuiInit
<1>2. Origin([i \in DOMAIN blocks |-> i])
  BY <1>1 DEF Origin, Entries
<1> QED BY <1>1, <1>2 DEF OuiInv

LEMMA OuiStep == OuiInv /\ [OuiNext]_ouiVars => OuiInv'
<1> SUFFICES ASSUME OuiInv, [OuiNext]_ouiVars PROVE OuiInv'
  OBVIOUS
<1>1. CASE UNCHANGED <<file, blocks>>
  BY <1>1 DEF OuiInv, Origin, Entries
<1>2. ASSUME NEW l \in Line, ReadLine(l) PROVE OuiInv'
  <2>1. /\ file \in Seq(Line) /\ blocks \in Seq(AddressBlock)
        /\ file' = Append(file, l)
        /\ blocks' = IF l.kind = "entry" THEN Append(blocks, Block(l)) ELSE blocks
    BY <1>2 DEF OuiInv, ReadLine
  <2>2. PICK f : Origin(f)
    BY DEF OuiInv
  <2>3. /\ file' \in Seq(Line) /\ Len(file') = Len(file) + 1
        /\ DOMAIN file' = DOMAIN file \cup {Len(file) + 1} /\ DOMAIN file = 1..Len(file)
        /\ \A i \in DOMAIN file : file'[i] = file[i]
        /\ file'[Len(file) + 1] = l
    BY <2>1
  <2>4. CASE l.kind # "entry"
    <3>1. Entries' = Entries /\ blocks' = blocks
      BY <2>1, <2>3, <2>4 DEF Entries
    <3>2. Origin(f)'
      BY <2>2, <2>3, <3>1 DEF Origin, Entries
    <3> QED BY <2>1, <2>3, <3>1, <3>2 DEF OuiInv
  <2>5. CASE l.kind = "entry"
    <3> DEFINE g == [i \in DOMAIN blocks' |-> IF i \in DOMAIN blocks THEN f[i] ELSE Len(file) + 1]
    <3>1. Entries' = Entries \cup {Len(file) + 1} /\ Entries \subseteq 1..Len(file)
      BY <2>1, <2>3, <2>5 DEF Entries
    <3>2. Block(l) \in AddressBlock
      BY <2>5, EntryIs
    <3>3. /\ blocks' \in Seq(AddressBlock) /\ DOMAIN blocks = 1..Len(blocks)
          /\ DOMAIN blocks' = DOMAIN blocks \cup {Len(blocks) + 1}
          /\ \A i \in DOMAIN blocks : blocks'[i] = blocks[i]
          /\ blocks'[Len(blocks) + 1] = Block(l)
      BY <2>1, <2>5, <3>2
    <3>4. /\ f \in [DOMAIN blocks -> Entries]
          /\ \A i, j \in DOMAIN blocks : i < j => f[i] < f[j]
          /\ \A e \in Entries : \E i \in DOMAIN blocks : f[i] = e
          /\ \A i \in DOMAIN blocks : blocks[i] = Block(file[f[i]])
      BY <2>2 DEF Origin
    <3>5. /\ DOMAIN g = DOMAIN blocks' /\ g = [i \in DOMAIN blocks' |-> g[i]]
          /\ \A i \in DOMAIN blocks : g[i] = f[i] /\ g[i] \in Entries
          /\ g[Len(blocks) + 1] = Len(file) + 1
      BY <2>1, <3>3, <3>4
    <3> HIDE DEF g
    <3>6. g \in [DOMAIN blocks' -> Entries']
      BY <3>1, <3>3, <3>5
    <3>7. \A i, j \in DOMAIN blocks' : i < j => g[i] < g[j]
      <4> SUFFICES ASSUME NEW i \in DOMAIN blocks', NEW j \in DOMAIN blocks', i < j
                   PROVE  g[i] < g[j]
        OBVIOUS
      <4>1. Len(blocks) \in Nat /\ Len(file) \in Nat
        BY <2>1
      <4>2. i \in DOMAIN blocks
        BY <3>3, <4>1
      <4>3. CASE j \in DOMAIN blocks
        BY <3>4, <3>5, <4>2, <4>3
      <4>4. CASE j = Len(blocks) + 1
        <5>1. g[i] \in 1..Len(file) /\ g[j] = Len(file) + 1
          BY <3>1, <3>5, <4>2, <4>4
        <5> QED BY <4>1, <5>1
      <4> QED BY <3>3, <4>3, <4>4
    <3>8. \A e \in Entries' : \E i \in DOMAIN blocks' : g[i] = e
      BY <3>1, <3>3, <3>4, <3>5
    <3>9. \A i \in DOMAIN blocks' : blocks'[i] = Block(file'[g[i]])
      <4> SUFFICES ASSUME NEW i \in DOMAIN blocks' PROVE blocks'[i] = Block(file'[g[i]])
        OBVIOUS
      <4>1. CASE i \in DOMAIN blocks
        <5>1. blocks'[i] = Block(file[f[i]]) /\ g[i] = f[i] /\ f[i] \in DOMAIN file
          BY <2>3, <3>1, <3>3, <3>4, <3>5, <4>1
        <5> QED BY <2>3, <5>1
      <4>2. CASE i = Len(blocks) + 1
        BY <2>3, <3>3, <3>5, <4>2
      <4> QED BY <3>3, <4>1, <4>2
    <3>10. PICK h : h = g
      OBVIOUS
    <3>11. Origin(h)'
      BY <3>6, <3>7, <3>8, <3>9, <3>10 DEF Origin
    <3> QED BY <2>3, <3>3, <3>11 DEF OuiInv
  <2> QED BY <2>4, <2>5
<1> QED BY <1>1, <1>2 DEF OuiNext, EndOfFile, ouiVars

(***************************************************************************)
(* What Lookup finds.                                                      *)
(***************************************************************************)

\* The first entry whose block contains the address.
LEMMA LookupIs ==
  ASSUME OuiInv, NEW a
  PROVE  LET S == {e \in Entries : BlockContains(Block(file[e]), a)}
         IN  /\ S = {} => Lookup(a) = NoBlock
             /\ S # {} => /\ Min(S) \in S /\ Lookup(a) = Block(file[Min(S)])
                          /\ Lookup(a) # NoBlock
<1> DEFINE S == {e \in Entries : BlockContains(Block(file[e]), a)}
           C == Containing(a)
<1>1. /\ file \in Seq(Line) /\ blocks \in Seq(AddressBlock)
      /\ DOMAIN file \subseteq Nat /\ DOMAIN blocks \subseteq Nat
  BY DEF OuiInv
<1>2. PICK f : Origin(f)
  BY DEF OuiInv
<1>3. C \subseteq DOMAIN blocks /\ S \subseteq Entries /\ C \subseteq Nat /\ S \subseteq Nat
  BY <1>1 DEF Containing, Entries
<1>4. /\ \A i \in C : f[i] \in S
      /\ \A e \in S : \E i \in C : f[i] = e
  BY <1>2 DEF Origin, Containing
<1>5. CASE C = {}
  <2>1. S = {}
    BY <1>4, <1>5
  <2> QED BY <1>5, <2>1 DEF Lookup
<1>6. CASE C # {}
  <2>1. Min(C) \in C /\ \A i \in C : Min(C) <= i
    BY <1>3, <1>6, MinIsLeast
  <2>2. f[Min(C)] \in S /\ \A e \in S : f[Min(C)] <= e
    <3> SUFFICES ASSUME NEW e \in S PROVE f[Min(C)] <= e
      BY <1>4, <2>1
    <3>1. PICK i \in C : f[i] = e
      BY <1>4
    <3>2. /\ Min(C) \in DOMAIN blocks /\ i \in DOMAIN blocks
          /\ Min(C) \in Nat /\ i \in Nat /\ Min(C) <= i
          /\ f[i] \in Nat /\ f[Min(C)] \in Nat
      BY <1>3, <1>4, <2>1
    <3>3. Min(C) < i => f[Min(C)] < f[i]
      BY <1>2, <3>2 DEF Origin
    <3> HIDE DEF C
    <3> QED BY <3>1, <3>2, <3>3
  <2> HIDE DEF C, S
  <2>3. Min(S) = f[Min(C)]
    BY <1>3, <2>2, MinIs
  <2>4. Lookup(a) = blocks[Min(C)]
    BY <1>6 DEF Lookup, C
  <2>5. blocks[Min(C)] = Block(file[f[Min(C)]]) /\ blocks[Min(C)] \in AddressBlock
    BY <1>1, <1>2, <1>3, <2>1, ElementOfSeq DEF Origin
  <2>6. Lookup(a) # NoBlock
    BY <2>4, <2>5, OuiAssumption DEF AddressBlock
  <2>7. S # {} /\ Min(S) \in S /\ Lookup(a) = Block(file[Min(S)])
    BY <2>2, <2>3, <2>4, <2>5
  <2> QED BY <2>6, <2>7 DEF S
<1> QED BY <1>5, <1>6

\* In a file of hexadecimal entries of three octets, whatever else its lines are,
\* an address of six octets is attributed to the first vendor that owns it, and
\* an address nobody owns to nobody.
THEOREM VendorsAreFound == OuiSpec => []VendorFound
<1>1. OuiInv => VendorFound
  <2> SUFFICES ASSUME OuiInv, \A e \in Entries : file[e].hex /\ Len(file[e].prefix) = 3,
                      NEW a \in Addresses
               PROVE  IF Owners(a) = {} \/ Len(a) # 6
                        THEN Lookup(a) = NoBlock
                        ELSE Lookup(a) # NoBlock /\ Lookup(a).org = file[Min(Owners(a))].org
    BY DEF VendorFound
  <2> DEFINE S == {e \in Entries : BlockContains(Block(file[e]), a)}
  <2>1. a \in Seq(Octet)
    BY OuiAssumption
  <2>2. ASSUME NEW e \in Entries
        PROVE  /\ file[e] \in Line /\ file[e].kind = "entry"
               /\ e \in S <=> Len(a) = 6 /\ e \in Owners(a)
    <3>1. file[e] \in Line /\ file[e].kind = "entry"
      BY ElementOfSeq DEF OuiInv, Entries
    <3>2. file[e].prefix \in Seq(Octet) /\ Len(file[e].prefix) = 3
      BY <3>1, EntryIs
    <3>3. BlockContains(Block(file[e]), a) <=>
            Len(a) = 6 /\ \A i \in 1..3 : a[i] = file[e].prefix[i]
      <4>1. BlockContains(Block(file[e]), a) <=>
              /\ Len(a) = 6
              /\ \A i \in 1..3 : a[i] = file[e].prefix[i]
              /\ \A i \in 4..Len(file[e].prefix) : file[e].prefix[i] = 0
        BY <2>1, <3>1, ContainsIs
      <4>2. \A i \in 4..Len(file[e].prefix) : FALSE
        BY <3>2
      <4> QED BY <4>1, <4>2
    <3>4. e \in Owners(a) <=> 3 <= Len(a) /\ \A i \in 1..3 : file[e].prefix[i] = a[i]
      <4> DEFINE s == file[e].prefix
      <4>1. IsPrefix(s, a) <=> Len(s) <= Len(a) /\ \A i \in 1..Len(s) : s[i] = a[i]
        BY <2>1, <3>2, PrefixIs
      <4>2. e \in Owners(a) <=> IsPrefix(s, a)
        BY DEF Owners
      <4> HIDE DEF s
      <4>3. Len(s) = 3
        BY <3>2 DEF s
      <4>4. e \in Owners(a) <=> 3 <= Len(a) /\ \A i \in 1..3 : s[i] = a[i]
        BY <4>1, <4>2, <4>3
      <4> QED BY <4>4 DEF s
    <3> QED BY <3>1, <3>3, <3>4
  <2>3. S = IF Len(a) = 6 THEN Owners(a) ELSE {}
    BY <2>2 DEF Owners
  <2>4. /\ S = {} => Lookup(a) = NoBlock
        /\ S # {} => /\ Min(S) \in S /\ Lookup(a) = Block(file[Min(S)])
                     /\ Lookup(a) # NoBlock
    BY LookupIs
  <2> HIDE DEF S
  <2>5. CASE S = {}
    BY <2>3, <2>4, <2>5
  <2>6. CASE S # {}
    <3>1. Len(a) = 6 /\ S = Owners(a) /\ Min(S) \in Entries
      BY <2>3, <2>4, <2>6 DEF Owners
    <3>2. Lookup(a).org = file[Min(S)].org
      BY <2>2, <2>4, <2>6, <3>1, EntryIs
    <3> QED BY <2>4, <2>6, <3>1, <3>2
  <2> QED BY <2>5, <2>6
<1>2. OuiSpec => []OuiInv
  BY OuiInitial, OuiStep, PTL DEF OuiSpec
<1> QED BY <1>1, <1>2, PTL

\* With entries of any length, an address is attributed only to a vendor one of
\* whose entries begins with its first three octets.
THEOREM NobodyMisattributed == OuiSpec => []NeverMisattributed
<1>1. OuiInv => NeverMisattributed
  <2> SUFFICES ASSUME OuiInv, \A e \in Entries : file[e].hex,
                      NEW a \in Addresses, Lookup(a) # NoBlock
               PROVE  \E e \in Entries : /\ file[e].org = Lookup(a).org
                                         /\ SubSeq(file[e].prefix, 1, 3) = SubSeq(a, 1, 3)
    BY DEF NeverMisattributed
  <2> DEFINE S == {e \in Entries : BlockContains(Block(file[e]), a)}
             e == Min(S)
  <2>1. e \in S /\ Lookup(a) = Block(file[e])
    BY LookupIs
  <2> HIDE DEF e
  <2>2. e \in Entries /\ file[e] \in Line /\ file[e].kind = "entry" /\ file[e].hex
    BY <2>1, ElementOfSeq DEF OuiInv, Entries
  <2>3. /\ file[e].prefix \in Seq(Octet) /\ Len(file[e].prefix) >= 3
        /\ Lookup(a).org = file[e].org
    <3>1. file[e].prefix \in Seq(Octet) /\ Len(file[e].prefix) \in 3..6
      BY <2>2, EntryIs
    <3>2. Lookup(a).org = file[e].org
      BY <2>1, <2>2, EntryIs
    <3> QED BY <3>1, <3>2, Places
  <2>4. a \in Seq(Octet)
    BY OuiAssumption
  <2>5. Len(a) = 6 /\ \A i \in 1..3 : a[i] = file[e].prefix[i]
    BY <2>1, <2>2, <2>4, ContainsIs
  <2>6. SubSeq(file[e].prefix, 1, 3) = SubSeq(a, 1, 3)
    BY <2>3, <2>4, <2>5, FirstThree
  <2> QED BY <2>2, <2>3, <2>6
<1>2. OuiSpec => []OuiInv
  BY OuiInitial, OuiStep, PTL DEF OuiSpec
<1> QED BY <1>1, <1>2, PTL

=============================================================================
