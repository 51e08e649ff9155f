-------------------------- MODULE MCBluetoothParts --------------------------
(* The parts of the Bluetooth side that share no state, each in a small instance; *)
(* one of them runs in a behaviour, as in MCAudioParts.                          *)
EXTENDS Advertising, BroadcastScan, ConnScan, UnicastClient, UnicastServer, VolumeControl

VARIABLE part
Parts == {"adv", "scan", "conn_scan", "client", "server", "volume"}
partsVars == <<part, advVars, scanVars, connScanVars, uniVars, serverVars, volVars>>

\* BroadcastScan: two sources of different names.
Names == [s \in Sources |-> IF s = "a" THEN "n" ELSE "m"]
\* UnicastClient: the left headset also has a microphone and prefers a shorter delay.
LeftTalks == [c \in Conns |-> IF c = "l" THEN {"sink", "source"} ELSE {"sink"}]
OwnPd == [c \in Conns |-> IF c = "l" THEN 1 ELSE 2]

\* A part with several initial states has one of them while another part runs.
PartsInit ==
  /\ part \in Parts
  /\ ConnScanInit /\ (part # "conn_scan" => gateway_bonds = {})
  /\ AdvInit /\ ScanInit /\ UniInit /\ ServerInit /\ VolInit

Runs(p, next, kept) == IF part = p THEN next ELSE kept
PartsNext == /\ UNCHANGED part
             /\ Runs("adv", AdvNext, UNCHANGED advVars)
             /\ Runs("scan", ScanNext, UNCHANGED scanVars)
             /\ Runs("conn_scan", ConnScanNext, UNCHANGED connScanVars)
             /\ Runs("client", UniNext, UNCHANGED uniVars)
             /\ Runs("server", ServerNext, UNCHANGED serverVars)
             /\ Runs("volume", VolNext, UNCHANGED volVars)
PartsSpec == /\ PartsInit /\ [][PartsNext]_partsVars
             /\ AdvFairness /\ ScanFairness /\ UniFairness /\ WF_volVars(Delivery)

\* The type invariants of the parts.
BluetoothTypesOK == AdvTypeOK /\ ScanTypeOK /\ ConnScanTypeOK /\ UniTypeOK /\ ServerTypeOK /\ VolTypeOK
=============================================================================
