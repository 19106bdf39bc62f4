---------------------------- MODULE AddressRange ----------------------------
(***************************************************************************)
(* addressRangePrefixes of src/resource.go: the loop that turns a range of *)
(* IPv4 addresses into prefixes, on integers of Width bits that wrap.      *)
(***************************************************************************)
EXTENDS Prefixes, Sequences, FiniteSetsExt, Functions

(* A plausible slip in this function; nothing uses it. *)
AllAddressesForgotten(first, blockSize, last) == first + blockSize - 1 >= last
-----------------------------------------------------------------------------
(* bits.TrailingZeros32, and all bits for zero. *)
Alignment(n) == Max({s \in 0..Width : n % 2^s = 0})

(* bits.Len64(count), less one unless count fills it: the largest power of *)
(* two in count, which itself does not wrap.                               *)
Size(count) == Max({s \in 0..Width : 2^s <= count})

(* first + blockSize - 1 >= last, where a block of all addresses has size  *)
(* 2^Width = 0.                                                            *)
ReachesLast(first, blockSize, last) == (first + blockSize - 1) % 2^Width >= last

(* One round of the loop. *)
Step(loop, last) ==
    LET length    == Min({Alignment(loop.first), Size(last - loop.first + 1)})
        blockSize == 2^length % 2^Width
    IN [first    |-> (loop.first + blockSize) % 2^Width,
        prefixes |-> Append(loop.prefixes, [addr |-> loop.first, bits |-> Width - length]),
        returned |-> ReachesLast(loop.first, blockSize, last)]

(* Bound: more rounds than any range takes. *)
Rounds == 2 * Width

Loop(start, end) ==
    LET after[n \in 0..Rounds] ==
            IF n = 0
            THEN [first |-> start, prefixes |-> <<>>, returned |-> start > end]
            ELSE LET before == after[n - 1] IN IF before.returned THEN before ELSE Step(before, end)
    IN after

addressRangePrefixes(start, end) == Loop(start, end)[Rounds].prefixes
-----------------------------------------------------------------------------
(* The loop ends, though first and blockSize wrap, and its prefixes are    *)
(* the largest blocks of the range, in order and each once.                *)
Covered(start, end) ==
    LET loop == Loop(start, end)[Rounds] IN
    /\ loop.returned
    /\ Range(loop.prefixes) = IF start <= end THEN LargestBlocks(start, end) ELSE {}
    /\ \A i \in 1..(Len(loop.prefixes) - 1) : loop.prefixes[i].addr < loop.prefixes[i + 1].addr
=============================================================================
