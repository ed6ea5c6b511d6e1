--------------------------- MODULE MCExternalSync ---------------------------
(* Model checking of the external sync. *)
EXTENDS ExternalSyncProperties
=============================================================================
