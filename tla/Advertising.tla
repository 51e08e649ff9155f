---------------------------- MODULE Advertising ----------------------------
(* bt_mgmt_adv.c and the connection callbacks of bt_mgmt.c on a peripheral: one *)
(* connectable advertising set, restarted after every connection, directed at a *)
(* bonded peer first and open to everybody when that times out.                *)
(*                                                                             *)
(* Callbacks run in the Bluetooth receive thread, the worker in a work queue of *)
(* lower priority: they interleave wherever the worker waits for the host.     *)
EXTENDS Naturals, Sequences

CONSTANTS Peers,
          MAX_ADV_SET,      \* CONFIG_BT_EXT_ADV_MAX_ADV_SET
          MAX_PAIRED,       \* CONFIG_BT_MAX_PAIRED
          Open,             \* not a peer: an advertisement for everybody
          MaxHostErrors     \* bound: calls of the host that fail

ASSUME AdvAssumption == /\ MAX_ADV_SET \in Nat \ {0} /\ MAX_PAIRED \in Nat
                        /\ MaxHostErrors \in Nat
                        /\ Open \notin Peers /\ "none" \notin Peers \cup {Open}

VARIABLES adv_q,            \* length of the queue of set indexes: only set 0 is used
          adv_work,         \* the work item is pending
          adv_pc,           \* "idle", "create" and "start" of the worker; "fatal" after ERR_CHK
          target,           \* what the worker is about to advertise to
          dir_adv_timed_out,
          adv_local,        \* advertising data have been stored
          ext_adv,          \* the host's set: absent, or whom it is directed at and its data
          advertising,      \* the set is enabled
          leaked,           \* sets that the host still holds and nobody names
          bonds, conn,
          host_errors
advVars == <<adv_q, adv_work, adv_pc, target, dir_adv_timed_out, adv_local, ext_adv,
             advertising, leaked, bonds, conn, host_errors>>

NoSet == [to |-> "none", data |-> FALSE]
NewSet == [to |-> Open, data |-> FALSE]
Nobody == Open
\* Mutant: the host always has room for another set.
RoomAlways(held) == TRUE
Room(held) == held < MAX_ADV_SET

AdvInit == /\ adv_q = 0 /\ adv_work = FALSE /\ adv_pc = "idle" /\ target = Open
           /\ dir_adv_timed_out = FALSE /\ adv_local = FALSE
           /\ ext_adv = NoSet /\ advertising = FALSE /\ leaked = 0
           /\ bonds = <<>> /\ conn = Nobody /\ host_errors = 0

\* A call of the host that may fail.
HostSays(ok) == /\ ok \/ host_errors < MaxHostErrors
                /\ host_errors' = host_errors + (IF ok THEN 0 ELSE 1)
-----------------------------------------------------------------------------
(* bt_mgmt_adv_start(): the queue of indexes holds one entry per set; a work    *)
(* item that is pending already is not queued again.                           *)
PutIndex == IF adv_q < MAX_ADV_SET
            THEN adv_q' = adv_q + 1 /\ adv_work' = TRUE
            ELSE UNCHANGED <<adv_q, adv_work>>
RestartFails == ~adv_local \/ adv_q >= MAX_ADV_SET
Restart == IF RestartFails THEN UNCHANGED <<adv_q, adv_work>> ELSE PutIndex

\* main() of the sink starts advertising once, with data.
StartAdvertising == /\ ~adv_local
                    /\ adv_local' = TRUE /\ ext_adv' = NewSet /\ PutIndex
                    /\ UNCHANGED <<adv_pc, target, dir_adv_timed_out, advertising, leaked, bonds,
                                   conn, host_errors>>
-----------------------------------------------------------------------------
(* advertising_process(), in three steps. bond_find() queues the bonded peers   *)
(* that are not connected; the first one is advertised to.                     *)
Candidates == {i \in DOMAIN bonds : bonds[i] # conn}
Directed == Candidates # {} /\ ~dir_adv_timed_out

\* Mutant: the index stays in the queue.
LeaveIndex == UNCHANGED adv_q
RemoveIndex == adv_q' = adv_q - 1

TakeIndex == /\ adv_pc = "idle" /\ adv_work /\ adv_q > 0
             /\ adv_work' = FALSE /\ RemoveIndex
             /\ IF Directed
                THEN \E i \in Candidates : (\A j \in Candidates : i <= j) /\ target' = bonds[i]
                ELSE target' = Open
             /\ adv_pc' = "create"
             /\ UNCHANGED <<dir_adv_timed_out, adv_local, ext_adv, advertising, leaked, bonds, conn,
                            host_errors>>

\* What a failing call leaves of the set is not modelled: nothing starts it again.
\* direct_adv_create() clears the data and redirects the set; extended_adv_create()
\* sets the data and leaves the parameters of the set as they are.
Create(ok) ==
  /\ adv_pc = "create" /\ HostSays(ok)
  /\ adv_pc' = IF ok THEN "start" ELSE "idle"
  /\ \/ /\ ok /\ target # Open
        /\ ext_adv' = [to |-> target, data |-> FALSE] /\ UNCHANGED dir_adv_timed_out
     \/ /\ ok /\ target = Open
        /\ ext_adv' = [ext_adv EXCEPT !.data = TRUE] /\ dir_adv_timed_out' = FALSE
     \/ ~ok /\ UNCHANGED <<ext_adv, dir_adv_timed_out>>
  /\ UNCHANGED <<adv_q, adv_work, target, adv_local, advertising, leaked, bonds, conn>>

Launch(ok) == /\ adv_pc = "start" /\ HostSays(ok)
              /\ advertising' = (ok /\ ext_adv # NoSet) /\ adv_pc' = "idle"
              /\ UNCHANGED <<adv_q, adv_work, target, dir_adv_timed_out, adv_local, ext_adv, leaked,
                             bonds, conn>>
-----------------------------------------------------------------------------
(* The callbacks of the connections.                                           *)
Connected(p) == /\ advertising /\ adv_pc # "fatal" /\ ext_adv.to \in {Open, p}
                /\ advertising' = FALSE /\ conn' = p
                /\ UNCHANGED <<adv_q, adv_work, adv_pc, target, dir_adv_timed_out, adv_local,
                               ext_adv, leaked, bonds, host_errors>>

\* Mutants: the directed set is used again; the time-out is not remembered.
SameSet(room) == UNCHANGED ext_adv
SetForEverybody(room) == ext_adv' = IF room THEN NewSet ELSE NoSet
ForgetTimeout == UNCHANGED dir_adv_timed_out
RememberTimeout == dir_adv_timed_out' = TRUE

\* connected_cb() with BT_HCI_ERR_ADV_TIMEOUT: bt_mgmt_dir_adv_timed_out() deletes
\* the set, creates one that is open, and restarts. A set whose deletion fails stays.
DirectedTimeout(deleted) ==
  LET left == leaked + (IF deleted THEN 0 ELSE 1)
      room == Room(left)
  IN /\ advertising /\ adv_pc # "fatal" /\ ext_adv.to # Open /\ HostSays(deleted)
     /\ advertising' = FALSE /\ RememberTimeout /\ leaked' = left
     /\ SetForEverybody(room)
     /\ IF room THEN Restart ELSE UNCHANGED <<adv_q, adv_work>>
     /\ UNCHANGED <<adv_pc, target, adv_local, bonds, conn>>

\* disconnected_cb(): ERR_CHK on the restart.
Disconnected == /\ conn # Nobody /\ adv_pc # "fatal"
                /\ conn' = Nobody
                /\ Restart
                /\ adv_pc' = IF RestartFails THEN "fatal" ELSE adv_pc
                /\ UNCHANGED <<target, dir_adv_timed_out, adv_local, ext_adv, advertising, leaked,
                               bonds, host_errors>>

\* The host stores a bond when a connected peer has paired.
Bonded == /\ conn # Nobody /\ adv_pc # "fatal"
          /\ \A i \in DOMAIN bonds : bonds[i] # conn
          /\ Len(bonds) < MAX_PAIRED
          /\ bonds' = Append(bonds, conn)
          /\ UNCHANGED <<adv_q, adv_work, adv_pc, target, dir_adv_timed_out, adv_local, ext_adv,
                         advertising, leaked, conn, host_errors>>
-----------------------------------------------------------------------------
AdvWorker == TakeIndex \/ (\E ok \in BOOLEAN : Create(ok) \/ Launch(ok))
AdvTimeout == \E ok \in BOOLEAN : DirectedTimeout(ok)
AdvNext == \/ StartAdvertising \/ AdvWorker \/ AdvTimeout \/ Disconnected \/ Bonded
           \/ \E p \in Peers : Connected(p)

\* The work queue runs, and the controller ends directed advertising after 1.28 s.
AdvFairness == WF_advVars(AdvWorker) /\ WF_advVars(AdvTimeout)
AdvSpec == AdvInit /\ [][AdvNext]_advVars /\ AdvFairness
-----------------------------------------------------------------------------
AdvTypeOK == /\ adv_q \in 0 .. MAX_ADV_SET /\ adv_work \in BOOLEAN
             /\ adv_pc \in {"idle", "create", "start", "fatal"}
             /\ target \in Peers \cup {Open} /\ dir_adv_timed_out \in BOOLEAN
             /\ adv_local \in BOOLEAN
             /\ ext_adv \in [to : Peers \cup {Open, "none"}, data : BOOLEAN]
             /\ advertising \in BOOLEAN
             /\ leaked \in 0 .. MAX_ADV_SET /\ (ext_adv # NoSet => leaked < MAX_ADV_SET)
             /\ bonds \in Seq(Peers) /\ conn \in Peers \cup {Open} /\ host_errors \in Nat

\* Restarting is handed on from the connection to the queue, from the queue to the
\* worker, from the worker to the set and back: there is never a second index in the
\* queue, so the restart of disconnected_cb(), whose error resets the device, has room.
Bit(b) == IF b THEN 1 ELSE 0
HandedOn == adv_q + Bit(adv_pc \in {"create", "start"}) + Bit(advertising)
              + Bit(conn # Nobody)
OneRestartAtATime == HandedOn <= 1 /\ adv_pc # "fatal"

\* An advertisement for everybody carries the stored data, and one for a peer is sent
\* for a bonded peer that is not connected: the parameters of the set, which
\* extended_adv_create() does not touch, are those of the kind of advertisement the
\* worker chose.
SetMatchesKind == advertising => /\ ext_adv.to = target
                                 /\ ext_adv.data = (target = Open)
                                 /\ target # Open => \E i \in DOMAIN bonds : bonds[i] = target

\* Whatever peer is bonded and never comes back, other peers can connect in the end:
\* unless the host has failed, the device always gets connected or advertises openly.
Reachable == [](adv_local => <>(\/ conn # Nobody \/ host_errors > 0
                                \/ advertising /\ ext_adv.to = Open))
=============================================================================
