----------------------------- MODULE MCReadPath -----------------------------
(***************************************************************************)
(* A small instance of the whole read path: two reads of one process and   *)
(* one of another.                                                         *)
(***************************************************************************)
EXTENDS ReadPath, TLC

CONSTANTS i1, i2, i3, proc1, proc2

MCIrp == {i1, i2, i3}
MCProcess == {proc1, proc2}
MCProcessOf == i1 :> proc1 @@ i2 :> proc1 @@ i3 :> proc2
OnlyProc1 == {proc1}
Nobody == {}
=============================================================================
