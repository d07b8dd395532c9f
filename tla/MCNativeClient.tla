--------------------------- MODULE MCNativeClient ---------------------------
(***************************************************************************)
(* Small instances of NativeClient: three requests over two ports.         *)
(***************************************************************************)
EXTENDS NativeClient
==============================================================================
