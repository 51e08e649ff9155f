------------------------------ MODULE MCUartRx ------------------------------
(* UartRx with the 256 values of a byte scaled down to 32. PA_MAX_DATA_SIZE is *)
(* the largest that still satisfies PA_MAX_DATA_SIZE + 3 < BYTE, as 252 does   *)
(* for 256.                                                                    *)
EXTENDS UartRx

Zeros(n) == [i \in 1 .. n |-> 0]

Status == <<1, 0>>
Send(n) == <<3 + n, 16, 0, n>> \o Zeros(n)

\* Requests of every length class the UART can carry.
CarriedFrames == {Status, Send(0), Send(1), Send(5), Send(27)}
\* With the longest payload pa_protocol.h allows.
LongestFrames == {Status, Send(28)}
\* Byte strings no PC application should send: empty, wrapping and torn frames.
NoiseFrames   == {<<0>>, <<31>>, <<1>>, <<4, 16>>, <<4, 16, 0, 1, 9>>, <<5, 16, 0, 28>>, <<30>>}
AnyFrames     == CarriedFrames \cup NoiseFrames
=============================================================================
