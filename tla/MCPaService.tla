---------------------------- MODULE MCPaService ----------------------------
(* Small instances of PaService. The byte width and PA_MAX_DATA_SIZE are       *)
(* scaled down to 32 and 12; with a BASE of 9 bytes one byte of payload fits.  *)
EXTENDS PaService

Status       == <<1, 0>>
SendA        == <<4, 16, 0, 1, 5>>
SendB        == <<4, 16, 0, 1, 6>>
SendOversize == <<5, 16, 0, 2, 5, 6>>
SendSid1     == <<4, 16, 1, 1, 7>>
SendEmpty    == <<3, 16, 0, 0>>
UnknownOp    == <<2, 3, 0>>

WellFormedFrames == {Status, SendA, SendB, SendSid1, SendEmpty}
OddFrames        == {SendA, SendOversize, UnknownOp}
DataFrames       == {SendA, SendB}

ButtonPayload == <<9>>

=============================================================================
