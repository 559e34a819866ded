----------------------------- MODULE MCPcbFlow -----------------------------
(* A board whose zynq, ad9361, peripherals and connectors sheets come late. *)
EXTENDS PcbFlow

LateSheets == {"zynq", "ad9361", "peripherals", "connectors"}
=============================================================================
