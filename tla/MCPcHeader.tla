---------------------------- MODULE MCPcHeader ----------------------------
(* PcHeader on 32-bit and 64-bit files.                                    *)
EXTENDS PcHeader

mcPtrSizes == {4, 8}
=============================================================================
