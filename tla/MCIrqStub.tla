----------------------------- MODULE MCIrqStub -----------------------------
(* An instance of IrqStub for TLC. *)
EXTENDS IrqStub
AllVectors == 0 .. 42
=============================================================================
