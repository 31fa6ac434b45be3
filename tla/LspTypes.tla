------------------------------ MODULE LspTypes ------------------------------
(***************************************************************************)
(* The codes and the numbers of lsp_types.h that the other modules return  *)
(* and compare.                                                            *)
(* They keep their values: LSP_ERR_INVALID and LSP_ERR_RESOURCE_IN_USE are *)
(* one, so that no caller can tell them apart.                             *)
(***************************************************************************)

LSP_ERR_NONE            == 0
LSP_ERR_MUTEX           == 3
LSP_ERR_TIMEOUT         == 4
LSP_ERR_INVALID         == 5
LSP_ERR_RESOURCE_IN_USE == 5
LSP_ERR_QUEUE_FULL      == 10
LSP_ERR_QUEUE_EMPTY     == 11

LSP_PORT_ANY            == 255
LSP_CONN_PRIO_DEF       == 4
LSP_PACKET_PORT_MAX     == 31

(***************************************************************************)
(* A uint32_t timeout in milliseconds, reduced to what the code tells      *)
(* apart: 0 (do not wait), LSP_TIMEOUT_MAX (wait for ever) and any other   *)
(* value.                                                                  *)
(***************************************************************************)
LSP_TIMEOUT_MAX == "max"
NoTimeout       == "zero"
FiniteTimeout   == "finite"
Timeouts        == {NoTimeout, FiniteTimeout, LSP_TIMEOUT_MAX}
=============================================================================
