------------------------- MODULE MCDesktopShutdown --------------------------
(* Model-checking instances of DesktopShutdown.                            *)
EXTENDS DesktopShutdown
=============================================================================
