---------------------------- MODULE MCSdCardMedia ----------------------------
(* Model checking instances of SdCardMedia.                                *)
EXTENDS SdCardMedia
=============================================================================
