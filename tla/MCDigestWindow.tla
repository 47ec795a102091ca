--------------------------- MODULE MCDigestWindow ---------------------------
(* Small instances of DigestWindow for TLC.                                *)
EXTENDS DigestWindow
=============================================================================
