------------------------- MODULE MCAdapterRegistry -------------------------
(***************************************************************************)
(* Two kinds of CAD application of which one can be started, two threads   *)
(* of which one is initialised for COM by other code.                      *)
(***************************************************************************)
EXTENDS AdapterRegistry

MCTypes == {"zwcad", "autocad"}
MCPriorities == <<"zwcad", "autocad">>
=============================================================================
