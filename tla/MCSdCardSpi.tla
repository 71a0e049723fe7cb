----------------------------- MODULE MCSdCardSpi -----------------------------
(* Model checking instances of SdCardSpi.                                  *)
EXTENDS SdCardSpi
=============================================================================
