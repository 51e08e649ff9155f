------------------------------ MODULE ConnScan ------------------------------
(* bt_mgmt_scan_for_conn.c and the central's half of bt_mgmt.c: a gateway scans *)
(* for headsets by name, by set key or by bond, stops the scan to connect, and   *)
(* scans again after every connection that fails or ends.                      *)
(*                                                                             *)
(* All handlers run in the cooperative Bluetooth receive thread: each is a step. *)
EXTENDS Integers, FiniteSets

CONSTANTS Headsets, Named, SetMembers,  \* who sends the name, who the set's key
          BT_MAX_PAIRED,
          MaxDials, MaxScanFaults       \* bounds: connections, failing host calls
ASSUME ConnScanAssumption == IsFiniteSet(Headsets) /\ BT_MAX_PAIRED \in Nat

VARIABLES acl,              \* "none", "connecting", "connected" per headset
          conn_refs,        \* references to its bt_conn that this code holds
          gateway_bonds,
          conn_scan,        \* the host scans, scan_callback is registered, bonded_num
          server_sirk,
          gave_up,          \* a scan could not be started
          dials, scan_faults
connScanVars == <<acl, conn_refs, gateway_bonds, conn_scan, server_sirk, gave_up, dials, scan_faults>>

HasAcl(h) == acl[h] = "connected"

ConnScanInit == /\ acl = [h \in Headsets |-> "none"] /\ conn_refs = [h \in Headsets |-> 0]
                /\ gateway_bonds \in {B \in SUBSET Headsets : Cardinality(B) <= BT_MAX_PAIRED}
                /\ conn_scan = [on |-> TRUE, cb |-> TRUE, bonded_num |-> Cardinality(gateway_bonds)]
                /\ server_sirk = FALSE /\ gave_up = FALSE /\ dials = 0 /\ scan_faults = 0
-----------------------------------------------------------------------------
\* Mutant: the bonds of the last scan are counted once more.
CountedAgain(num, bonded) == num + Cardinality(bonded)
Counted(num, bonded) == Cardinality(bonded)

\* bt_mgmt_scan_start(BT_MGMT_SCAN_TYPE_CONN): ok, with a host call that fails, or ended
\* early as a running scan could not be stopped.
ScanStarted(scan, how) ==
  IF how = "stop_fails" THEN scan
  ELSE [on |-> how # "start_fails", cb |-> TRUE, bonded_num |-> Counted(scan.bonded_num, gateway_bonds)]

Faulty(how) == /\ scan_faults' = scan_faults + (IF how = "ok" THEN 0 ELSE 1)
               /\ scan_faults' <= MaxScanFaults
Hows == {"ok", "start_fails", "stop_fails"}

ScanAgain(scan, how) == /\ how = "stop_fails" => scan.cb
                        /\ conn_scan' = ScanStarted(scan, how) /\ Faulty(how)
                        /\ gave_up' = (gave_up \/ how # "ok")

\* Mutant: a connection that cannot be created ends the search.
NoScanAgain(scan, how) == conn_scan' = scan /\ Faulty(how) /\ UNCHANGED gave_up
CreateFailed(scan, how) == ScanAgain(scan, how)

\* The end of device_name_check(), csip_found() and bond_connect(): no callback, no scan
\* unless it cannot be stopped, and a connection unless the host refuses one.
CreateConnection(h) ==
  \E stopped \in BOOLEAN :
    LET scan == [conn_scan EXCEPT !.cb = FALSE, !.on = ~stopped]
    IN /\ dials < MaxDials /\ dials' = dials + 1
       /\ \/ /\ \A g \in Headsets : acl[g] # "connecting"
             /\ acl[h] = "none"
             /\ acl' = [acl EXCEPT ![h] = "connecting"]
             /\ conn_refs' = [conn_refs EXCEPT ![h] = @ + 1]
             /\ conn_scan' = scan /\ UNCHANGED <<gave_up, scan_faults>>
          \/ /\ \E how \in Hows : CreateFailed(scan, how)
             /\ UNCHANGED <<acl, conn_refs>>
       /\ UNCHANGED gateway_bonds

\* A headset whose link is lost advertises before its supervision time-out is over, so a
\* connected one can be seen.
Seen(h) == conn_scan.on /\ conn_scan.cb /\ ~HasAcl(h)

device_name_check(h) == /\ h \in Named /\ server_sirk = FALSE /\ Seen(h)
                        /\ CreateConnection(h) /\ UNCHANGED server_sirk
csip_found(h) == /\ h \in SetMembers /\ server_sirk /\ Seen(h)
                 /\ CreateConnection(h) /\ server_sirk' = FALSE
bond_connect(h) == /\ h \in gateway_bonds /\ Seen(h)
                   /\ CreateConnection(h) /\ UNCHANGED server_sirk

scan_recv_cb(h, directed) ==
  IF directed \/ conn_scan.bonded_num >= BT_MAX_PAIRED THEN bond_connect(h)
  ELSE device_name_check(h) \/ csip_found(h)
-----------------------------------------------------------------------------
\* Mutant: the reference is kept.
NotUnreferenced(h) == UNCHANGED conn_refs
Unreferenced(h) == conn_refs' = [conn_refs EXCEPT ![h] = @ - 1]

\* connected_cb() with an error and disconnected_cb() of a central.
AclEnds(h) == /\ acl[h] # "none" /\ acl' = [acl EXCEPT ![h] = "none"]
              /\ Unreferenced(h)
              /\ \E how \in Hows : ScanAgain(conn_scan, how)
              /\ UNCHANGED <<gateway_bonds, server_sirk, dials>>

AclConnected(h) == /\ acl[h] = "connecting" /\ acl' = [acl EXCEPT ![h] = "connected"]
                   /\ UNCHANGED <<conn_refs, gateway_bonds, conn_scan, server_sirk, gave_up, dials, scan_faults>>

\* security_changed_cb() without an error; with one, the link ends.
Paired(h) == /\ HasAcl(h) /\ h \notin gateway_bonds /\ Cardinality(gateway_bonds) < BT_MAX_PAIRED
             /\ gateway_bonds' = gateway_bonds \cup {h}
             /\ UNCHANGED <<acl, conn_refs, conn_scan, server_sirk, gave_up, dials, scan_faults>>

\* The application looks for the next headset, by its set key or by name.
NextHeadset == /\ \E h \in Headsets : HasAcl(h)
               /\ server_sirk' \in BOOLEAN
               /\ \E how \in Hows : ScanAgain(conn_scan, how)
               /\ UNCHANGED <<acl, conn_refs, gateway_bonds, dials>>
-----------------------------------------------------------------------------
ConnScanNext == \/ \E h \in Headsets : \/ \E directed \in BOOLEAN : scan_recv_cb(h, directed)
                                       \/ AclConnected(h) \/ AclEnds(h) \/ Paired(h)
                \/ NextHeadset
ConnScanSpec == ConnScanInit /\ [][ConnScanNext]_connScanVars
-----------------------------------------------------------------------------
ConnScanTypeOK ==
  /\ acl \in [Headsets -> {"none", "connecting", "connected"}]
  /\ conn_refs \in [Headsets -> Int] /\ gateway_bonds \subseteq Headsets
  /\ conn_scan \in [on : BOOLEAN, cb : BOOLEAN, bonded_num : 0 .. BT_MAX_PAIRED]
  /\ server_sirk \in BOOLEAN /\ gave_up \in BOOLEAN

\* A gateway without a headset looks for one, whatever connections failed, ended or met
\* each other: only a scan that the host refuses to start, or to stop, ends the search.
NeverIdle == (\A h \in Headsets : acl[h] = "none") => gave_up \/ (conn_scan.on /\ conn_scan.cb)

\* A reference is held from the creation of a connection to its end, by whichever of the
\* three searches it was made, and given back once.
RefsFollowLinks == \A h \in Headsets : conn_refs[h] = (IF acl[h] = "none" THEN 0 ELSE 1)

\* A gateway neither stops looking nor runs out of connections.
GatewayLooks == NeverIdle /\ RefsFollowLinks
=============================================================================
