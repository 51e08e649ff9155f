-------------------------- MODULE MCAudioDatapath --------------------------
(* AudioDatapath with frames of 4 blocks and a FIFO of 12; a block is 2 units of *)
(* time. As in the code, as many data points are averaged as a frame has blocks. *)
EXTENDS AudioDatapath

\* What the theorem on steady streams asks of the constants holds of the run's too.
ASSUME MarginsOfTheRun == Margins
=============================================================================
