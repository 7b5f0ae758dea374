--------------------------- MODULE BmdTxEngineMC ---------------------------
(***************************************************************************)
(* Small transfers for the transmit engine.  Three or four TLPs reach the  *)
(* first, a middle and the last TLP of each initiator; three double words  *)
(* per write reach a header beat, a full payload beat and the end of TLP.  *)
(***************************************************************************)
EXTENDS BmdTxEngine
=============================================================================
