----------------------------- MODULE MCStdioWrap -----------------------------
(***************************************************************************)
(* Small instances of StdioWrap: pipes of one or two lines, so that every  *)
(* writer meets a full pipe.                                               *)
(***************************************************************************)
EXTENDS StdioWrap
=============================================================================
