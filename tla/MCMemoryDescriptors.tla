------------------------ MODULE MCMemoryDescriptors ------------------------
(* A small instance of MemoryDescriptors: pages of four bytes, chains that *)
(* cross pages and hold an empty mbuf, pages that follow each other in     *)
(* memory and pages that do not.                                           *)
EXTENDS MemoryDescriptors

MCPageMaps == {[p \in 0 .. 3 |-> p + 4], [p \in 0 .. 3 |-> 9 - p]}
MCChains ==
  {<<[data |-> 1, len |-> 3]>>,
   <<[data |-> 2, len |-> 5], [data |-> 9, len |-> 2]>>,
   <<[data |-> 3, len |-> 0], [data |-> 3, len |-> 2]>>,
   <<[data |-> 0, len |-> 2], [data |-> 5, len |-> 0], [data |-> 6, len |-> 7]>>}
MCDataBuffers == {<<60, 61, 62>>, <<60, 61, 70, 71>>, <<60, 71, 72, 80>>}
MCOwn == [mem |-> <<50, 51, 52, 53>>, header |-> <<90, 91>>, status |-> <<95>>,
          task |-> <<100, 101, 102, 103>>]
MCParts == [packet_header |-> [offset |-> 0, length |-> 2],
            to_device |-> [offset |-> 0, length |-> 2],
            from_device |-> [offset |-> 2, length |-> 1]]
=============================================================================
