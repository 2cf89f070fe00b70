---------------------------- MODULE IPRanges ----------------------------
(***************************************************************************)
(* Addresses, prefixes and ranges as the dataset builder, its tries and    *)
(* the lookups compute with them (internal/boltstore, internal/ipkey).     *)
(*                                                                         *)
(* One IP version at a time: every key of the store begins with its        *)
(* version and nothing crosses it, so IPv4 and IPv6 are two copies of the  *)
(* same structure that differ in Bits.  An address is its number, a range  *)
(* a record of two addresses, a prefix a record of an address and a        *)
(* length.                                                                 *)
(***************************************************************************)
EXTENDS Integers, Sequences, FiniteSets

CONSTANT Bits   \* 32 or 128 in the code

ASSUME BitsAssumption == Bits \in Nat \ {0}

\* 2 ^ bits, by its recurrence: the provers know none of the exponential.
Power[bits \in 0 .. Bits] == IF bits = 0 THEN 1 ELSE 2 * Power[bits - 1]

\* The number of addresses in a prefix of this length.
Size(length) == Power[Bits - length]

Addresses == 0 .. Size(0) - 1

Ranges == [start : Addresses, end : Addresses]

\* The address with every bit after the first `length` cleared.
Masked(address, length) == address - (address % Size(length))

AllPrefixes == {prefix \in [address : Addresses, length : 0 .. Bits] :
                prefix.address = Masked(prefix.address, prefix.length)}

\* Bits are counted from the most significant one, from 0.
BitAt(address, bit) == (address \div Size(bit + 1)) % 2

\* How many leading bits two prefixes share, at most the shorter length.
CommonLength(left, right) ==
    LET limit == IF left.length < right.length THEN left.length ELSE right.length
        AgreeUpTo(n) == \A bit \in 0 .. n - 1 :
                            BitAt(left.address, bit) = BitAt(right.address, bit)
    IN  CHOOSE n \in 0 .. limit :
            AgreeUpTo(n) /\ (n < limit => ~ AgreeUpTo(n + 1))

Covers(prefix, address) ==
    CommonLength(prefix, [address |-> address, length |-> prefix.length]) = prefix.length

PrefixEnd(prefix) == prefix.address + Size(prefix.length) - 1

Width(range) == range.end - range.start

InRange(range, address) == range.start <= address /\ address <= range.end

\* Mutant: blocks that fit the range but not the alignment.
UnalignedBlockBits(current, end) ==
    CHOOSE bits \in 0 .. Bits :
        /\ current + Power[bits] - 1 <= end
        /\ \A larger \in bits + 1 .. Bits : current + Power[larger] - 1 > end

\* The host bits of the largest aligned block that begins at `current` and
\* does not pass `end`.
BlockBits(current, end) ==
    LET Fits(bits) == current % Power[bits] = 0 /\ current + Power[bits] - 1 <= end
    IN  CHOOSE bits \in 0 .. Bits :
            Fits(bits) /\ \A larger \in bits + 1 .. Bits : ~ Fits(larger)

\* A range cut into prefixes, greedily from its start.
RangePrefixes(range) ==
    LET cut[current \in range.start .. range.end + 1] ==
            IF current > range.end THEN <<>>
            ELSE LET bits == BlockBits(current, range.end)
                 IN  <<[address |-> current, length |-> Bits - bits]>>
                         \o cut[current + Power[bits]]
    IN  cut[range.start]

\* Whether a range is a CIDR, and which one: its size is a power of two and
\* its start a multiple of it.
IsCIDR(range) ==
    \E length \in 0 .. Bits :
        Width(range) + 1 = Size(length) /\ range.start % Size(length) = 0

PrefixForRange(range) ==
    [address |-> range.start,
     length  |-> CHOOSE length \in 0 .. Bits : Width(range) + 1 = Size(length)]

\* The elements of a finite set in the order Before, a strict total order on
\* them.
Ascending(set, Before(_, _)) ==
    LET from[rest \in SUBSET set] ==
            IF rest = {} THEN <<>>
            ELSE LET least == CHOOSE x \in rest :
                                  \A y \in rest \ {x} : Before(x, y)
                 IN  <<least>> \o from[rest \ {least}]
    IN  from[set]

=========================================================================
