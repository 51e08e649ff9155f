----------------------------- MODULE PaProtocol -----------------------------
(* What the firmware promises the PC, with nothing of how it keeps it: the     *)
(* messages it sends, in order, and whether an accepted PA Data Send Request   *)
(* still owes its completion. PaService is shown to implement it.              *)
EXTENDS PaCmdParser

VARIABLES log,     \* every frame sent to the PC so far
          open     \* a request was accepted and not yet completed

protocolVars == <<log, open>>

Init == /\ log = << >>
        /\ open = FALSE

Send(m) == log' = Append(log, m)

\* A status report, whatever it reports, can be sent at any time.
Report == /\ Len(log') = Len(log) + 1
          /\ Send(log'[Len(log')])
          /\ log'[Len(log')][2] = STATUS_GET_RSP
          /\ UNCHANGED open

\* A second request is never accepted before the first one is completed.
Accept == /\ ~open
          /\ Send(DataSendRsp(PA_RESULT_SUCCESS))
          /\ open' = TRUE

\* While a request is open the refusal is BUSY, and BUSY means just that.
Refuse(result) == /\ open <=> (result = PA_RESULT_BUSY)
                  /\ Send(DataSendRsp(result))
                  /\ UNCHANGED open

Complete == /\ open
            /\ Send(DataSendComplete)
            /\ open' = FALSE

Next == \/ Report
        \/ Accept
        \/ \E result \in Results \ {PA_RESULT_SUCCESS} : Refuse(result)
        \/ Complete

Spec == Init /\ [][Next]_protocolVars

\* An accepted request is completed.
Completion == open ~> ~open
=============================================================================
