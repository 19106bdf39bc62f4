------------------------------ MODULE Prefixes ------------------------------
(***************************************************************************)
(* IP addresses and prefixes (netip), with IPv4 addresses of Width bits.   *)
(* One address stands for all of IPv6; it sorts after the IPv4 ones.       *)
(***************************************************************************)
EXTENDS Integers

CONSTANT Width

ASSUME WidthAssumption == Width \in Nat \ {0}

Addresses4 == 0..(2^Width - 1)
Address6   == 2^Width
Addresses  == Addresses4 \cup {Address6}
Unspecified == 0

(* A prefix of full length; PrefixFrom(address, address.BitLen()). *)
Single(address) == [addr |-> address, bits |-> Width]

AllPrefixes == [addr : Addresses4, bits : 0..Width]

Masked(p) == [p EXCEPT !.addr = @ - (@ % 2^(Width - p.bits))]

(* The addresses a prefix contains. *)
Block(p) ==
    IF p.addr = Address6 THEN {Address6}
    ELSE LET base == Masked(p).addr IN base..(base + 2^(Width - p.bits) - 1)

Overlaps(p, q) == Block(p) \cap Block(q) # {}

IsSingleIP(p) == p.bits = Width

(* The addresses start..end as the largest aligned blocks that fit.        *)
LargestBlocks(start, end) ==
    LET within == {p \in AllPrefixes : p = Masked(p) /\ Block(p) \subseteq start..end}
    IN {p \in within : \A q \in within : Block(p) \subseteq Block(q) => q = p}
=============================================================================
