--------------------------- MODULE MCSqliteFlusher --------------------------
(***************************************************************************)
(* Small instances of SqliteFlusher.                                       *)
(***************************************************************************)
EXTENDS SqliteFlusher
=============================================================================
