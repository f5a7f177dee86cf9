-------------------------- MODULE MCDescriptorChains --------------------------
(* Instances of DescriptorChains for TLC.                                  *)
EXTENDS DescriptorChains, TLC

CONSTANTS r1, r2, r3, r4

MCRequests == {r1, r2, r3, r4}
Symmetry == Permutations(MCRequests)

(* Either buffer alone, both; one or several segments.                     *)
MCShapes == {<<1, 0>>, <<0, 2>>, <<1, 1>>, <<2, 1>>, <<1, 3>>}

(* A direct queue, and one with indirect tables that can be too small.     *)
DirectOrIndirect == {0, 3}
Direct == {0}

HandledFaults == {PrepareReadable, GenAfterSome, PrepareTable}
UnhandledFaults == {PrepareWritable, GenBeforeAny}

(* Contents that no action reads before writing them: table entries and    *)
(* completions of descriptors that are not in a chain or not at its head.  *)
LiveState ==
  LET live == UNION {Chain(h) : h \in in_flight} IN
  <<indirect_desc_per_request, listVars, dmaVars, in_flight, pending, result,
    [h \in in_flight |-> completion[h]],
    [d \in live |-> descriptor_table[d]]>>

=============================================================================
