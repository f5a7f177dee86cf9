--------------------------- MODULE MCPCITransport ---------------------------
EXTENDS PCITransport

Cap(type, len, cfg, bar, size, off, length, mult) ==
  [cap_type |-> type, cap_len |-> len, cfg_type |-> cfg, bar_type |-> bar,
   bar_size |-> size, bar_offset |-> off, bar_length |-> length,
   notify_off_multiplier |-> mult]

(* A capability that is not virtio's, and structures of every type: usable *)
(* ones, and ones that fail by one in length, by the multiplier not being  *)
(* a power of two, and by the BAR's size.                                  *)
MCContents ==
  { Cap("other", 0, 0, "none", 0, 0, 0, 0),
    Cap("vendor_specific", 16, 1, "memory", 64, 0, 56, 0),
    Cap("vendor_specific", 16, 1, "memory", 64, 0, 55, 0),
    Cap("vendor_specific", 20, 2, "memory", 64, 6, 2, 6),
    Cap("vendor_specific", 16, 3, "memory", 64, 1, 1, 0),
    Cap("vendor_specific", 16, 4, "memory", 16, 4, 32, 0) }

=============================================================================
