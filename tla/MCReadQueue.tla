---------------------------- MODULE MCReadQueue ----------------------------
(***************************************************************************)
(* Small instances of the queued read path: whose reads may be cancelled.  *)
(***************************************************************************)
EXTENDS ReadQueue

Everybody == Irp
=============================================================================
