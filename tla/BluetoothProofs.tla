--------------------------- MODULE BluetoothProofs ---------------------------
(* The headset's advertising, its search for broadcasts and its unicast endpoints; *)
(* the gateway's search for headsets, its unicast client and the volume it shares    *)
(* between them; and all of these together: for any peers, sources, headsets,       *)
(* controllers and numbers of operations.                                          *)
EXTENDS MCBluetoothParts, SequenceTheorems, FiniteSetTheorems, WellFoundedInduction, TLAPS

(* Advertising: the restart of the advertising set.                               *)

\* At most one of the places holds the restart: the queue, the worker, the set, a link.
OnePlace == /\ adv_q \in {0, 1} /\ adv_pc \in {"idle", "create", "start"}
            /\ adv_q = 1 => adv_pc = "idle" /\ ~advertising /\ conn = Open
            /\ adv_pc # "idle" => ~advertising /\ conn = Open
            /\ advertising => conn = Open

\* Before the start, and after the host has no set left, nobody holds it.
NowhereWithout == /\ ~adv_local \/ ext_adv = NoSet =>
                       adv_q = 0 /\ adv_pc = "idle" /\ ~advertising /\ conn = Open
                  /\ ~adv_local => leaked = 0

\* The set is directed only as long as there is a bond and no time-out: the worker then
\* redirects it, and otherwise finds it open.
Peer == target \in Peers /\ \E i \in DOMAIN bonds : bonds[i] = target
DirectedByBond ==
  /\ ext_adv # NoSet /\ ext_adv.to # Open => bonds # <<>> /\ ~dir_adv_timed_out
  /\ adv_pc \in {"create", "start"} /\ target # Open => Peer
  /\ adv_pc = "create" /\ target # Open => ~dir_adv_timed_out
  /\ adv_pc = "create" /\ target = Open => ext_adv.to = Open
  /\ adv_pc = "start" => ext_adv.to = target /\ ext_adv.data = (target = Open)

AdvInv == AdvTypeOK /\ OnePlace /\ NowhereWithout /\ DirectedByBond /\ SetMatchesKind

LEMMA AdvInitInv == AdvInit => AdvInv
<1> SUFFICES ASSUME AdvInit PROVE AdvInv
    OBVIOUS
<1>1. AdvTypeOK
    <2>1. ext_adv = NoSet /\ leaked = 0 /\ adv_q = 0
        BY DEF AdvInit
    <2>2. leaked \in 0 .. MAX_ADV_SET /\ adv_q \in 0 .. MAX_ADV_SET
        BY <2>1, AdvAssumption
    <2>3. ext_adv \in [to : Peers \cup {Open, "none"}, data : BOOLEAN]
        BY <2>1 DEF NoSet
    <2>4. bonds \in Seq(Peers)
        BY DEF AdvInit
    <2> QED
        BY <2>1, <2>2, <2>3, <2>4 DEF AdvInit, AdvTypeOK, Nobody
<1>2. OnePlace /\ NowhereWithout /\ SetMatchesKind
    BY DEF AdvInit, OnePlace, NowhereWithout, Nobody, SetMatchesKind
<1>3. DirectedByBond
    BY DEF AdvInit, DirectedByBond, NoSet
<1> QED
    BY <1>1, <1>2, <1>3 DEF AdvInv

LEMMA TakeIndexInv == AdvInv /\ TakeIndex => AdvInv'
<1> SUFFICES ASSUME AdvInv, TakeIndex PROVE AdvInv'
    OBVIOUS
<1>1. adv_q = 1 /\ adv_q' = 0 /\ adv_pc' = "create"
    BY DEF AdvInv, OnePlace, TakeIndex, RemoveIndex
<1>2. ext_adv # NoSet /\ ~advertising /\ conn = Open /\ adv_local
    BY <1>1 DEF AdvInv, OnePlace, NowhereWithout
<1>3. UNCHANGED <<ext_adv, advertising, conn, adv_local, bonds, dir_adv_timed_out, leaked, host_errors>>
    BY DEF TakeIndex
<1>4. OnePlace' /\ NowhereWithout' /\ SetMatchesKind'
    BY <1>1, <1>2, <1>3 DEF OnePlace, NowhereWithout, SetMatchesKind, NoSet
<1>5. /\ (target' \in Peers /\ Peer' /\ ~dir_adv_timed_out) \/ (target' = Open /\ ext_adv.to = Open)
    <2>1. CASE Directed
        <3>1. PICK i \in DOMAIN bonds : target' = bonds[i]
            BY <2>1 DEF TakeIndex, Candidates
        <3>2. bonds[i] \in Peers
            BY DEF AdvInv, AdvTypeOK
        <3> QED
            BY <1>3, <2>1, <3>1, <3>2 DEF Peer, Directed
    <2>2. CASE ~Directed
        <3>1. target' = Open
            BY <2>2 DEF TakeIndex
        <3>2. ASSUME bonds # <<>> PROVE Candidates # {}
            <4>1. bonds \in Seq(Peers)
                BY DEF AdvInv, AdvTypeOK
            <4>2. Len(bonds) \in Nat \ {0} /\ DOMAIN bonds = 1 .. Len(bonds)
                BY <3>2, <4>1, EmptySeq, LenProperties
            <4>3. 1 \in DOMAIN bonds /\ bonds[1] \in Peers
                BY <4>1, <4>2
            <4> QED
                BY <1>2, <4>3, AdvAssumption DEF Candidates
        <3>3. bonds = <<>> \/ dir_adv_timed_out
            BY <2>2, <3>2 DEF Directed
        <3> QED
            BY <1>2, <3>1, <3>3 DEF AdvInv, DirectedByBond
    <2> QED
        BY <2>1, <2>2
<1>6. DirectedByBond'
    BY <1>1, <1>2, <1>3, <1>5, AdvAssumption DEF AdvInv, DirectedByBond
<1>7. AdvTypeOK'
    <2>1. adv_q' \in 0 .. MAX_ADV_SET
        BY <1>1, AdvAssumption
    <2>2. adv_work' \in BOOLEAN /\ target' \in Peers \cup {Open}
        BY <1>5 DEF TakeIndex
    <2> QED
        BY <1>1, <1>3, <2>1, <2>2 DEF AdvInv, AdvTypeOK
<1> QED
    BY <1>4, <1>6, <1>7 DEF AdvInv

LEMMA AdvCreateInv == ASSUME NEW ok \in BOOLEAN, AdvInv, Create(ok) PROVE AdvInv'
<1>1. /\ adv_pc = "create" /\ UNCHANGED <<adv_q, adv_work, target, adv_local, advertising, leaked, bonds, conn>>
      /\ adv_pc' \in {"start", "idle"}
    BY DEF Create
<1>2. adv_q = 0 /\ ~advertising /\ conn = Open /\ adv_local /\ ext_adv # NoSet
    BY <1>1 DEF AdvInv, OnePlace, NowhereWithout
<1>3. /\ ext_adv' \in [to : Peers \cup {Open, "none"}, data : BOOLEAN] /\ ext_adv' # NoSet
      /\ dir_adv_timed_out' \in BOOLEAN
    <2>1. CASE ok /\ target # Open
        <3>1. ext_adv' = [to |-> target, data |-> FALSE] /\ dir_adv_timed_out' = dir_adv_timed_out
            BY <2>1 DEF Create
        <3>2. target \in Peers /\ target # "none"
            BY <2>1, AdvAssumption DEF AdvInv, AdvTypeOK
        <3>3. ext_adv' \in [to : Peers \cup {Open, "none"}, data : BOOLEAN] /\ ext_adv' # NoSet
            BY <3>1, <3>2 DEF NoSet
        <3> QED
            BY <3>1, <3>3 DEF AdvInv, AdvTypeOK
    <2>2. CASE ok /\ target = Open
        <3>1. ext_adv' = [ext_adv EXCEPT !.data = TRUE] /\ dir_adv_timed_out' = FALSE
            BY <2>2 DEF Create
        <3>2. ext_adv.to = Open /\ ext_adv \in [to : Peers \cup {Open, "none"}, data : BOOLEAN]
            BY <1>1, <2>2 DEF AdvInv, AdvTypeOK, DirectedByBond
        <3>3. ext_adv' \in [to : Peers \cup {Open, "none"}, data : BOOLEAN] /\ ext_adv'.data = TRUE
            BY <3>1, <3>2
        <3>4. ext_adv' # NoSet
            BY <3>3 DEF NoSet
        <3> QED
            BY <3>1, <3>3, <3>4
    <2>3. CASE ~ok
        BY <1>2, <2>3 DEF Create, AdvInv, AdvTypeOK
    <2> QED
        BY <2>1, <2>2, <2>3
<1>4. OnePlace' /\ NowhereWithout' /\ SetMatchesKind'
    BY <1>1, <1>2, <1>3 DEF OnePlace, NowhereWithout, SetMatchesKind
<1>5. host_errors' \in Nat
    BY DEF Create, HostSays, AdvInv, AdvTypeOK
<1>6. AdvTypeOK'
    BY <1>1, <1>2, <1>3, <1>5 DEF AdvInv, AdvTypeOK
<1>7. DirectedByBond'
    <2>1. CASE ok /\ target # Open
        <3>1. ext_adv' = [to |-> target, data |-> FALSE] /\ ~dir_adv_timed_out' /\ adv_pc' = "start"
            BY <1>1, <2>1 DEF Create, AdvInv, DirectedByBond
        <3>2. Peer /\ bonds # <<>>
            BY <1>1, <2>1 DEF AdvInv, DirectedByBond, Peer, AdvTypeOK
        <3> QED
            BY <1>1, <2>1, <3>1, <3>2 DEF DirectedByBond, Peer
    <2>2. CASE ok /\ target = Open
        <3>1. ext_adv' = [ext_adv EXCEPT !.data = TRUE] /\ adv_pc' = "start"
            BY <1>1, <2>2 DEF Create
        <3>2. ext_adv.to = Open /\ ext_adv'.to = Open /\ ext_adv'.data = TRUE
            BY <1>1, <2>2, <3>1 DEF AdvInv, DirectedByBond, AdvTypeOK
        <3> QED
            BY <1>1, <2>2, <3>1, <3>2 DEF DirectedByBond
    <2>3. CASE ~ok
        BY <1>1, <2>3 DEF Create, AdvInv, DirectedByBond
    <2> QED
        BY <2>1, <2>2, <2>3
<1> QED
    BY <1>4, <1>6, <1>7 DEF AdvInv

LEMMA LaunchInv == ASSUME NEW ok \in BOOLEAN, AdvInv, Launch(ok) PROVE AdvInv'
<1>1. /\ adv_pc = "start" /\ adv_pc' = "idle" /\ advertising' \in BOOLEAN
      /\ UNCHANGED <<adv_q, adv_work, target, dir_adv_timed_out, adv_local, ext_adv, leaked, bonds, conn>>
    BY DEF Launch
<1>2. adv_q = 0 /\ ~advertising /\ conn = Open /\ adv_local /\ ext_adv # NoSet
    BY <1>1 DEF AdvInv, OnePlace, NowhereWithout
<1>3. OnePlace' /\ NowhereWithout' /\ DirectedByBond'
    BY <1>1, <1>2 DEF AdvInv, OnePlace, NowhereWithout, DirectedByBond, Peer
<1>4. SetMatchesKind'
    BY <1>1 DEF AdvInv, DirectedByBond, SetMatchesKind, Peer
<1>5. host_errors' \in Nat
    BY DEF Launch, HostSays, AdvInv, AdvTypeOK
<1>6. AdvTypeOK'
    BY <1>1, <1>5 DEF AdvInv, AdvTypeOK
<1> QED
    BY <1>3, <1>4, <1>6 DEF AdvInv

LEMMA StartAdvertisingInv == AdvInv /\ StartAdvertising => AdvInv'
<1> SUFFICES ASSUME AdvInv, StartAdvertising PROVE AdvInv'
    OBVIOUS
<1>1. adv_q = 0 /\ adv_pc = "idle" /\ ~advertising /\ conn = Open
    BY DEF AdvInv, NowhereWithout, StartAdvertising
<1>2. adv_q' = 1 /\ adv_local' /\ ext_adv' = NewSet
    BY <1>1, AdvAssumption DEF StartAdvertising, PutIndex
<1>3. UNCHANGED <<adv_pc, target, dir_adv_timed_out, advertising, leaked, bonds, conn, host_errors>>
    BY DEF StartAdvertising
<1>4. ext_adv' # NoSet /\ ext_adv'.to = Open
      /\ ext_adv' \in [to : Peers \cup {Open, "none"}, data : BOOLEAN]
    BY <1>2, AdvAssumption DEF NewSet, NoSet
<1>5. OnePlace' /\ NowhereWithout' /\ SetMatchesKind' /\ DirectedByBond'
    BY <1>1, <1>2, <1>3, <1>4 DEF OnePlace, NowhereWithout, SetMatchesKind, DirectedByBond
<1>6. AdvTypeOK'
    <2>1. adv_work' \in BOOLEAN /\ adv_local' \in BOOLEAN
        BY DEF StartAdvertising, PutIndex, AdvInv, AdvTypeOK
    <2>2. leaked' \in 0 .. MAX_ADV_SET /\ leaked' < MAX_ADV_SET
        BY <1>3, AdvAssumption DEF AdvInv, NowhereWithout, StartAdvertising
    <2>3. adv_q' \in 0 .. MAX_ADV_SET
        BY <1>2, AdvAssumption
    <2> QED
        BY <1>3, <1>4, <2>1, <2>2, <2>3 DEF AdvInv, AdvTypeOK
<1> QED
    BY <1>5, <1>6 DEF AdvInv

LEMMA DirectedTimeoutInv == ASSUME NEW deleted \in BOOLEAN, AdvInv, DirectedTimeout(deleted)
                            PROVE  AdvInv'
<1> DEFINE left == leaked + (IF deleted THEN 0 ELSE 1)
<1>1. advertising /\ ext_adv.to # Open /\ ~advertising' /\ leaked' = left
      /\ UNCHANGED <<adv_pc, target, adv_local, bonds, conn>>
    BY DEF DirectedTimeout
<1>2. adv_q = 0 /\ adv_pc = "idle" /\ conn = Open /\ adv_local /\ ext_adv # NoSet
    BY <1>1 DEF AdvInv, OnePlace, NowhereWithout
<1>3. left \in 0 .. MAX_ADV_SET
    <2>1. leaked \in 0 .. MAX_ADV_SET /\ leaked < MAX_ADV_SET
        BY <1>2 DEF AdvInv, AdvTypeOK
    <2> QED
        BY <2>1, AdvAssumption
<1>4. \/ left < MAX_ADV_SET /\ ext_adv' = NewSet /\ adv_q' = 1 /\ adv_work' = TRUE
      \/ left >= MAX_ADV_SET /\ ext_adv' = NoSet /\ adv_q' = 0 /\ adv_work' = adv_work
    <2>1. CASE left < MAX_ADV_SET
        <3>1. ~RestartFails
            BY <1>2, AdvAssumption DEF RestartFails
        <3>2. ext_adv' = NewSet /\ Restart
            BY <2>1 DEF DirectedTimeout, SetForEverybody, Room
        <3>3. adv_q' = 1 /\ adv_work' = TRUE
            BY <1>2, <3>1, <3>2, AdvAssumption DEF Restart, PutIndex
        <3> QED
            BY <2>1, <3>2, <3>3
    <2>2. CASE ~(left < MAX_ADV_SET)
        <3>1. ext_adv' = NoSet /\ adv_q' = adv_q /\ adv_work' = adv_work
            BY <2>2 DEF DirectedTimeout, SetForEverybody, Room
        <3> QED
            BY <1>2, <1>3, <2>2, <3>1, AdvAssumption
    <2> QED
        BY <2>1, <2>2
<1>5. NewSet # NoSet /\ NewSet.to = Open /\ NoSet.to = "none"
      /\ {NewSet, NoSet} \subseteq [to : Peers \cup {Open, "none"}, data : BOOLEAN]
    BY AdvAssumption DEF NewSet, NoSet
<1> HIDE DEF left
<1>6. OnePlace' /\ NowhereWithout' /\ SetMatchesKind'
    BY <1>1, <1>2, <1>4, <1>5 DEF OnePlace, NowhereWithout, SetMatchesKind
<1>7. DirectedByBond'
    BY <1>1, <1>2, <1>4, <1>5 DEF DirectedByBond
<1>8. AdvTypeOK'
    <2>1. adv_q' \in 0 .. MAX_ADV_SET /\ (ext_adv' # NoSet => leaked' < MAX_ADV_SET)
        BY <1>1, <1>4, AdvAssumption
    <2>2. adv_work' \in BOOLEAN
        BY <1>4 DEF AdvInv, AdvTypeOK
    <2>3. dir_adv_timed_out' \in BOOLEAN
        BY DEF DirectedTimeout, RememberTimeout
    <2>4. ext_adv' \in [to : Peers \cup {Open, "none"}, data : BOOLEAN]
        BY <1>4, <1>5
    <2>5. host_errors' \in Nat
        <3>1. HostSays(deleted)
            BY DEF DirectedTimeout
        <3> QED
            BY <3>1 DEF HostSays, AdvInv, AdvTypeOK
    <2>6. advertising' \in BOOLEAN
        BY DEF DirectedTimeout
    <2>7. leaked' \in 0 .. MAX_ADV_SET
        BY <1>1, <1>3
    <2> QED
        BY <1>1, <2>1, <2>2, <2>3, <2>4, <2>5, <2>6, <2>7 DEF AdvInv, AdvTypeOK
<1> QED
    BY <1>6, <1>7, <1>8 DEF AdvInv

LEMMA DisconnectedInv == AdvInv /\ Disconnected => AdvInv'
<1> SUFFICES ASSUME AdvInv, Disconnected PROVE AdvInv'
    OBVIOUS
<1>1. conn # Open /\ conn' = Open
      /\ UNCHANGED <<target, dir_adv_timed_out, adv_local, ext_adv, advertising, leaked, bonds, host_errors>>
    BY DEF Disconnected, Nobody
<1>2. adv_q = 0 /\ adv_pc = "idle" /\ ~advertising /\ adv_local /\ ext_adv # NoSet
    BY <1>1 DEF AdvInv, OnePlace, NowhereWithout
<1>3. ~RestartFails
    BY <1>2, AdvAssumption DEF RestartFails
<1>4. adv_q' = 1 /\ adv_work' = TRUE /\ adv_pc' = adv_pc
    BY <1>2, <1>3, AdvAssumption DEF Disconnected, Restart, PutIndex
<1>5. OnePlace' /\ NowhereWithout' /\ SetMatchesKind' /\ DirectedByBond'
    BY <1>1, <1>2, <1>4 DEF AdvInv, OnePlace, NowhereWithout, SetMatchesKind, DirectedByBond
<1>6. AdvTypeOK'
    <2>1. adv_q' \in 0 .. MAX_ADV_SET /\ adv_work' \in BOOLEAN
        BY <1>4, AdvAssumption
    <2> QED
        BY <1>1, <1>2, <1>4, <2>1 DEF AdvInv, AdvTypeOK
<1> QED
    BY <1>5, <1>6 DEF AdvInv

LEMMA ConnectedInv == ASSUME NEW p \in Peers, AdvInv, Connected(p) PROVE AdvInv'
<1>1. advertising /\ ~advertising' /\ conn' = p
      /\ UNCHANGED <<adv_q, adv_work, adv_pc, target, dir_adv_timed_out, adv_local, ext_adv, leaked, bonds, host_errors>>
    BY DEF Connected
<1>2. adv_q = 0 /\ adv_pc = "idle" /\ adv_local /\ ext_adv # NoSet
    BY <1>1 DEF AdvInv, OnePlace, NowhereWithout
<1>3. OnePlace' /\ NowhereWithout' /\ SetMatchesKind' /\ DirectedByBond'
    BY <1>1, <1>2 DEF AdvInv, OnePlace, NowhereWithout, SetMatchesKind, DirectedByBond
<1>4. advertising' \in BOOLEAN
    BY DEF Connected
<1>5. AdvTypeOK'
    BY <1>1, <1>4 DEF AdvInv, AdvTypeOK
<1> QED
    BY <1>3, <1>5 DEF AdvInv

LEMMA BondedInv == AdvInv /\ Bonded => AdvInv'
<1> SUFFICES ASSUME AdvInv, Bonded PROVE AdvInv'
    OBVIOUS
<1>1. conn # Open /\ bonds' = Append(bonds, conn) /\ bonds \in Seq(Peers) /\ conn \in Peers
      /\ UNCHANGED <<adv_q, adv_work, adv_pc, target, dir_adv_timed_out, adv_local, ext_adv, advertising, leaked, conn, host_errors>>
    BY DEF Bonded, Nobody, AdvInv, AdvTypeOK
<1>2. bonds' \in Seq(Peers) /\ bonds' # <<>>
    BY <1>1
<1>3. adv_q = 0 /\ adv_pc = "idle" /\ ~advertising /\ adv_local /\ ext_adv # NoSet
    BY <1>1 DEF AdvInv, OnePlace, NowhereWithout
<1>4. OnePlace' /\ NowhereWithout' /\ SetMatchesKind'
    BY <1>1, <1>3 DEF AdvInv, OnePlace, NowhereWithout, SetMatchesKind
<1>5. DirectedByBond'
    BY <1>1, <1>2, <1>3 DEF AdvInv, DirectedByBond
<1>6. AdvTypeOK'
    BY <1>1, <1>2 DEF AdvInv, AdvTypeOK
<1> QED
    BY <1>4, <1>5, <1>6 DEF AdvInv

LEMMA AdvStutterInv == AdvInv /\ UNCHANGED advVars => AdvInv'
BY DEF AdvInv, advVars, AdvTypeOK, OnePlace, NowhereWithout, DirectedByBond, Peer, SetMatchesKind

LEMMA AdvStep == AdvInv /\ [AdvNext]_advVars => AdvInv'
BY TakeIndexInv, AdvCreateInv, LaunchInv, StartAdvertisingInv, DirectedTimeoutInv, DisconnectedInv,
   ConnectedInv, BondedInv, AdvStutterInv DEF AdvNext, AdvWorker, AdvTimeout

LEMMA AdvInvariant == AdvSpec => []AdvInv
BY AdvInitInv, AdvStep, PTL DEF AdvSpec

\* A connection, a work item and a time-out hand the restart on to each other, and
\* never hold it twice: the restart of disconnected_cb() always has room.
THEOREM RestartsOnce == AdvSpec => []OneRestartAtATime
<1>1. AdvInv => OneRestartAtATime
    <2> SUFFICES ASSUME AdvInv PROVE OneRestartAtATime
        OBVIOUS
    <2>1. adv_q \in {0, 1} /\ adv_pc # "fatal"
        BY DEF AdvInv, OnePlace
    <2>2. Bit(TRUE) = 1 /\ Bit(FALSE) = 0
        BY DEF Bit
    <2>3. \/ adv_q = 1 /\ Bit(adv_pc \in {"create", "start"}) = 0 /\ Bit(advertising) = 0 /\ Bit(conn # Nobody) = 0
          \/ adv_q = 0 /\ Bit(adv_pc \in {"create", "start"}) = 1 /\ Bit(advertising) = 0 /\ Bit(conn # Nobody) = 0
          \/ adv_q = 0 /\ Bit(adv_pc \in {"create", "start"}) = 0 /\ Bit(advertising) = 1 /\ Bit(conn # Nobody) = 0
          \/ adv_q = 0 /\ Bit(adv_pc \in {"create", "start"}) = 0 /\ Bit(advertising) = 0 /\ Bit(conn # Nobody) \in {0, 1}
        BY DEF AdvInv, OnePlace, AdvTypeOK, Bit, Nobody
    <2> QED
        BY <2>1, <2>3 DEF OneRestartAtATime, HandedOn
<1> QED
    BY AdvInvariant, <1>1, PTL

\* The parameters and the data of the set that is advertised are those of the kind of
\* advertisement that the worker chose, for a bonded peer or for everybody.
THEOREM SetMatches == AdvSpec => [](AdvTypeOK /\ SetMatchesKind)
<1>1. AdvInv => AdvTypeOK /\ SetMatchesKind
    BY DEF AdvInv
<1> QED
    BY AdvInvariant, <1>1, PTL
-----------------------------------------------------------------------------
(* ConnScan: a gateway keeps looking for headsets and gives every connection back. *)

\* The types that the argument needs: of the links and of the references to them.
LinkTypes == /\ acl \in [Headsets -> {"none", "connecting", "connected"}]
             /\ conn_refs \in [Headsets -> Int]

LinkInv == LinkTypes /\ NeverIdle /\ RefsFollowLinks

LEMMA LinkInit == ConnScanInit => LinkInv
BY DEF ConnScanInit, LinkInv, LinkTypes, NeverIdle, RefsFollowLinks

LEMMA LinkUnchanged == LinkInv /\ UNCHANGED connScanVars => LinkInv'
BY DEF LinkInv, LinkTypes, NeverIdle, RefsFollowLinks, connScanVars

\* A scan that is asked for runs with its callback, or the search is given up for good.
LEMMA SearchGoesOn ==
    ASSUME NEW scan, NEW how \in Hows, ScanAgain(scan, how)
    PROVE  gave_up' \/ (conn_scan.on /\ conn_scan.cb)'
<1>1. CASE how = "ok"
    BY <1>1 DEF ScanAgain, ScanStarted
<1>2. CASE how # "ok"
    BY <1>2 DEF ScanAgain
<1> QED
    BY <1>1, <1>2

\* One reference more for the link that begins, and no reference for one the host refuses.
LEMMA ConnCreateInv == ASSUME NEW h \in Headsets, LinkInv, CreateConnection(h) PROVE LinkInv'
<1>1. CASE \E scan : \E how \in Hows : CreateFailed(scan, how) /\ UNCHANGED <<acl, conn_refs>>
    <2>1. gave_up' \/ (conn_scan.on /\ conn_scan.cb)'
        BY <1>1, SearchGoesOn DEF CreateFailed
    <2>2. LinkTypes' /\ RefsFollowLinks'
        BY <1>1 DEF LinkInv, LinkTypes, RefsFollowLinks
    <2> QED
        BY <2>1, <2>2 DEF LinkInv, NeverIdle
<1>2. CASE /\ acl[h] = "none"
           /\ acl' = [acl EXCEPT ![h] = "connecting"]
           /\ conn_refs' = [conn_refs EXCEPT ![h] = @ + 1]
    <2>1. LinkTypes' /\ acl'[h] = "connecting"
        BY <1>2 DEF LinkInv, LinkTypes
    <2>2. NeverIdle'
        BY <2>1 DEF NeverIdle
    <2>3. RefsFollowLinks'
        BY <1>2 DEF LinkInv, LinkTypes, RefsFollowLinks
    <2> QED
        BY <2>1, <2>2, <2>3 DEF LinkInv
<1> QED
    BY <1>1, <1>2 DEF CreateConnection

LEMMA SeenInv == ASSUME NEW h \in Headsets, NEW directed \in BOOLEAN, LinkInv, scan_recv_cb(h, directed)
                 PROVE  LinkInv'
<1>1. CreateConnection(h)
    BY DEF scan_recv_cb, bond_connect, device_name_check, csip_found
<1> QED
    BY <1>1, ConnCreateInv

\* The one reference of a link that ends is given back, and the search begins again.
LEMMA AclEndsInv == ASSUME NEW h \in Headsets, LinkInv, AclEnds(h) PROVE LinkInv'
<1>1. gave_up' \/ (conn_scan.on /\ conn_scan.cb)'
    BY SearchGoesOn DEF AclEnds
<1>2. LinkTypes' /\ RefsFollowLinks'
    BY DEF AclEnds, Unreferenced, LinkInv, LinkTypes, RefsFollowLinks
<1> QED
    BY <1>1, <1>2 DEF LinkInv, NeverIdle

LEMMA AclConnectedInv == ASSUME NEW h \in Headsets, LinkInv, AclConnected(h) PROVE LinkInv'
<1>1. LinkTypes' /\ acl'[h] = "connected"
    BY DEF AclConnected, LinkInv, LinkTypes
<1>2. NeverIdle'
    BY <1>1 DEF NeverIdle
<1>3. RefsFollowLinks'
    BY DEF AclConnected, LinkInv, LinkTypes, RefsFollowLinks
<1> QED
    BY <1>1, <1>2, <1>3 DEF LinkInv

LEMMA PairedInv == ASSUME NEW h \in Headsets, LinkInv, Paired(h) PROVE LinkInv'
BY DEF Paired, LinkInv, LinkTypes, NeverIdle, RefsFollowLinks

LEMMA NextHeadsetInv == LinkInv /\ NextHeadset => LinkInv'
<1> SUFFICES ASSUME LinkInv, NextHeadset PROVE LinkInv'
    OBVIOUS
<1>1. gave_up' \/ (conn_scan.on /\ conn_scan.cb)'
    BY SearchGoesOn DEF NextHeadset
<1>2. LinkTypes' /\ RefsFollowLinks'
    BY DEF NextHeadset, LinkInv, LinkTypes, RefsFollowLinks
<1> QED
    BY <1>1, <1>2 DEF LinkInv, NeverIdle

LEMMA LinkStep == LinkInv /\ [ConnScanNext]_connScanVars => LinkInv'
<1> SUFFICES ASSUME LinkInv, [ConnScanNext]_connScanVars PROVE LinkInv'
    OBVIOUS
<1>1. ASSUME NEW h \in Headsets, NEW directed \in BOOLEAN, scan_recv_cb(h, directed) PROVE LinkInv'
    BY <1>1, SeenInv
<1>2. ASSUME NEW h \in Headsets, AclConnected(h) \/ AclEnds(h) \/ Paired(h) PROVE LinkInv'
    BY <1>2, AclConnectedInv, AclEndsInv, PairedInv
<1>3. CASE NextHeadset
    BY <1>3, NextHeadsetInv
<1>4. CASE UNCHANGED connScanVars
    BY <1>4, LinkUnchanged
<1> QED
    BY <1>1, <1>2, <1>3, <1>4 DEF ConnScanNext

\* What the gateway knows of its bonds and of its scan.
ScanRecord == [on : BOOLEAN, cb : BOOLEAN, bonded_num : 0 .. BT_MAX_PAIRED]
BondTypes == /\ gateway_bonds \subseteq Headsets /\ Cardinality(gateway_bonds) <= BT_MAX_PAIRED
             /\ conn_scan \in ScanRecord
             /\ server_sirk \in BOOLEAN /\ gave_up \in BOOLEAN

LEMMA BondsCounted ==
    ASSUME NEW B \in SUBSET Headsets
    PROVE  Cardinality(B) \in Nat /\ IsFiniteSet(B)
BY FS_Subset, FS_CardinalityType, ConnScanAssumption

LEMMA BondInit == ConnScanInit => BondTypes
<1> SUFFICES ASSUME ConnScanInit PROVE BondTypes
    OBVIOUS
<1>1. gateway_bonds \subseteq Headsets /\ Cardinality(gateway_bonds) <= BT_MAX_PAIRED
    BY DEF ConnScanInit
<1>2. Cardinality(gateway_bonds) \in 0 .. BT_MAX_PAIRED
    BY <1>1, BondsCounted, ConnScanAssumption
<1>3. conn_scan \in ScanRecord
    BY <1>2 DEF ConnScanInit, ScanRecord
<1>4. server_sirk \in BOOLEAN /\ gave_up \in BOOLEAN
    BY Zenon DEF ConnScanInit
<1> QED
    BY <1>1, <1>3, <1>4 DEF BondTypes

\* A scan that is asked for counts the bonds of its own time.
LEMMA ScanAgainTypes ==
    ASSUME BondTypes, NEW scan \in ScanRecord, NEW how \in Hows, ScanAgain(scan, how)
    PROVE  conn_scan' \in ScanRecord /\ gave_up' \in BOOLEAN
<1>1. Cardinality(gateway_bonds) \in 0 .. BT_MAX_PAIRED
    BY BondsCounted, ConnScanAssumption DEF BondTypes
<1>2. CASE how = "stop_fails"
    BY <1>2 DEF ScanAgain, ScanStarted
<1>3. CASE how = "start_fails"
    <2>1. conn_scan' = [on |-> FALSE, cb |-> TRUE, bonded_num |-> Cardinality(gateway_bonds)]
        BY <1>3 DEF ScanAgain, ScanStarted, Counted
    <2>2. gave_up' = TRUE
        BY <1>3 DEF ScanAgain
    <2> QED
        BY <1>1, <2>1, <2>2 DEF ScanRecord
<1>4. CASE how = "ok"
    <2>1. conn_scan' = [on |-> TRUE, cb |-> TRUE, bonded_num |-> Cardinality(gateway_bonds)]
        BY <1>4 DEF ScanAgain, ScanStarted, Counted
    <2>2. conn_scan' \in ScanRecord
        BY <1>1, <2>1 DEF ScanRecord
    <2>3. gave_up' \in BOOLEAN
        BY Zenon DEF ScanAgain
    <2> QED
        BY <2>2, <2>3
<1>5. gave_up' \in BOOLEAN
    BY Zenon DEF ScanAgain
<1> QED
    BY <1>2, <1>3, <1>4, <1>5 DEF Hows

LEMMA BondKept == BondTypes /\ [ConnScanNext]_connScanVars => BondTypes'
<1> SUFFICES ASSUME BondTypes, [ConnScanNext]_connScanVars PROVE BondTypes'
    OBVIOUS
<1>1. ASSUME NEW h \in Headsets, CreateConnection(h), server_sirk' \in BOOLEAN
      PROVE  BondTypes'
    <2>1. PICK stopped \in BOOLEAN :
             \/ conn_scan' = [conn_scan EXCEPT !.cb = FALSE, !.on = ~stopped] /\ UNCHANGED gave_up
             \/ \E how \in Hows : CreateFailed([conn_scan EXCEPT !.cb = FALSE, !.on = ~stopped], how)
        BY <1>1, Zenon DEF CreateConnection
    <2> DEFINE scan == [conn_scan EXCEPT !.cb = FALSE, !.on = ~stopped]
    <2>2. scan \in ScanRecord
        <3>1. (~stopped) \in BOOLEAN
            BY SMT
        <3> QED
            BY <3>1 DEF BondTypes, ScanRecord
    <2>3. conn_scan' \in ScanRecord /\ gave_up' \in BOOLEAN
        <3>1. CASE conn_scan' = scan /\ UNCHANGED gave_up
            <4>1. gave_up' \in BOOLEAN
                BY <3>1, Zenon DEF BondTypes
            <4> QED
                BY <2>2, <3>1, <4>1
        <3>2. CASE \E how \in Hows : CreateFailed(scan, how)
            <4> HIDE DEF scan
            <4> QED
                BY <2>2, <3>2, ScanAgainTypes DEF CreateFailed
        <3> QED
            BY <2>1, <3>1, <3>2
    <2>4. UNCHANGED gateway_bonds
        BY <1>1 DEF CreateConnection
    <2> QED
        BY <1>1, <2>3, <2>4 DEF BondTypes
<1>2. ASSUME NEW h \in Headsets, NEW directed \in BOOLEAN, scan_recv_cb(h, directed)
      PROVE  BondTypes'
    <2>1. CreateConnection(h)
        BY <1>2 DEF scan_recv_cb, bond_connect, device_name_check, csip_found
    <2>2. server_sirk' = FALSE \/ UNCHANGED server_sirk
        BY <1>2 DEF scan_recv_cb, bond_connect, device_name_check, csip_found
    <2>3. server_sirk' \in BOOLEAN
        BY <2>2, Zenon DEF BondTypes
    <2> QED
        BY <1>1, <2>1, <2>3
<1>3. ASSUME NEW how \in Hows, ScanAgain(conn_scan, how), UNCHANGED gateway_bonds,
             server_sirk' \in BOOLEAN
      PROVE  BondTypes'
    <2>1. conn_scan' \in ScanRecord /\ gave_up' \in BOOLEAN
        BY <1>3, ScanAgainTypes DEF BondTypes
    <2> QED
        BY <1>3, <2>1 DEF BondTypes
<1>4. ASSUME NEW h \in Headsets, AclEnds(h) PROVE BondTypes'
    <2>1. server_sirk' \in BOOLEAN
        BY <1>4, Zenon DEF AclEnds, BondTypes
    <2> QED
        BY <1>3, <1>4, <2>1 DEF AclEnds
<1>5. CASE NextHeadset
    <2>1. server_sirk' \in BOOLEAN
        BY <1>5, Zenon DEF NextHeadset
    <2> QED
        BY <1>3, <1>5, <2>1 DEF NextHeadset
<1>6. ASSUME NEW h \in Headsets, Paired(h) PROVE BondTypes'
    <2>1. Cardinality(gateway_bonds \cup {h}) = Cardinality(gateway_bonds) + 1
        BY <1>6, BondsCounted, FS_AddElement DEF Paired, BondTypes
    <2>2. Cardinality(gateway_bonds) \in Nat
        BY BondsCounted DEF BondTypes
    <2>3. Cardinality(gateway_bonds') <= BT_MAX_PAIRED
        BY <1>6, <2>1, <2>2, ConnScanAssumption DEF Paired
    <2>4. gave_up' \in BOOLEAN /\ server_sirk' \in BOOLEAN
        BY <1>6, Zenon DEF Paired, BondTypes
    <2> QED
        BY <1>6, <2>3, <2>4 DEF Paired, BondTypes
<1>7. CASE (\E h \in Headsets : AclConnected(h)) \/ UNCHANGED connScanVars
    <2>1. UNCHANGED <<gateway_bonds, conn_scan, server_sirk, gave_up>>
        BY <1>7 DEF AclConnected, connScanVars
    <2>2. gave_up' \in BOOLEAN /\ server_sirk' \in BOOLEAN
        BY <2>1, Zenon DEF BondTypes
    <2> QED
        BY <2>1, <2>2 DEF BondTypes
<1> QED
    BY <1>2, <1>4, <1>5, <1>6, <1>7 DEF ConnScanNext

\* A gateway without a headset looks for one unless the host refused a scan, and it holds
\* one reference to each link it has and none to any other: bt_mgmt_scan_for_conn.c and
\* the central's connected_cb() and disconnected_cb() of bt_mgmt.c.
THEOREM SearchNeverEnds == ConnScanSpec => []GatewayLooks
<1>1. LinkInv => GatewayLooks
    BY DEF LinkInv, GatewayLooks
<1> QED
    BY <1>1, LinkInit, LinkStep, PTL DEF ConnScanSpec
-----------------------------------------------------------------------------
(* UnicastServer: endpoints have a stream each, the headset sends to the source's   *)
(* stream, and nobody waits for a stream that has ended.                           *)

\* The sending side follows the source from its configuration on, not only while it streams:
\* the host may start the stream any time after.
TxFollowsSource == ase_state["source"] # "idle" => cap_tx_stream = ase_stream["source"]
Told == le_told = [a \in Ases |-> le_told[a]]

ServerInv == ServerTypeOK /\ Told /\ TxFollowsSource /\ BelievedStreaming

LEMMA ServerInitInv == ServerInit => ServerInv
BY DEF ServerInit, ServerInv, ServerTypeOK, Told, TxFollowsSource, BelievedStreaming,
       Ases, ServerStreams, NoStream

LEMMA ServerUnchanged == ServerInv /\ UNCHANGED serverVars => ServerInv'
BY DEF ServerInv, ServerTypeOK, Told, TxFollowsSource, BelievedStreaming, serverVars

\* The first vacant stream is one that no endpoint has.
LEMMA FirstVacant ==
    ASSUME NEW vacant \in SUBSET ServerStreams, vacant # {}
    PROVE  (CHOOSE s \in vacant : \A t \in vacant : s <= t) \in vacant
<1>1. \A t \in vacant : t = 1 \/ t = 2
    BY DEF ServerStreams
<1>2. \E s \in vacant : \A t \in vacant : s <= t
    <2>1. CASE 1 \in vacant
        <3>1. \A t \in vacant : 1 <= t
            BY <1>1
        <3> QED
            BY <2>1, <3>1
    <2>2. CASE 1 \notin vacant
        <3>1. 2 \in vacant
            BY <1>1, <2>2
        <3>2. \A t \in vacant : 2 <= t
            BY <1>1, <2>2
        <3> QED
            BY <3>1, <3>2
    <2> QED
        BY <2>1, <2>2
<1> QED
    BY <1>2

LEMMA ConfigInv ==
    ASSUME NEW a \in Ases, NEW supported \in BOOLEAN, ServerInv, lc3_config_cb(a, supported)
    PROVE  ServerInv'
<1> DEFINE vacant == {s \in ServerStreams : Vacant(s)}
           stream == CHOOSE s \in vacant : \A t \in vacant : s <= t
<1>1. CASE supported /\ vacant # {}
    <2>1. stream \in vacant
        BY <1>1, FirstVacant
    <2>2. stream \in ServerStreams /\ \A b \in Ases : ase_stream[b] # stream
        BY <2>1 DEF Vacant
    <2>3. /\ ase_state' = [ase_state EXCEPT ![a] = "codec"]
          /\ le_told' = [le_told EXCEPT ![a] = "CONFIG_RECEIVED"]
          /\ ase_stream' = [ase_stream EXCEPT ![a] = stream]
          /\ cap_tx_stream' = IF a = "source" THEN stream ELSE cap_tx_stream
        BY <1>1 DEF lc3_config_cb, Moves, Tell, TxStream
    <2> HIDE DEF stream
    <2>4. ServerTypeOK'
        BY <2>2, <2>3 DEF ServerInv, ServerTypeOK, Ases, ServerStreams, NoStream
    <2>5. Told' /\ BelievedStreaming'
        BY <2>3 DEF ServerInv, ServerTypeOK, Told, BelievedStreaming
    <2>6. TxFollowsSource'
        BY <2>3 DEF ServerInv, ServerTypeOK, TxFollowsSource, Ases
    <2> QED
        BY <2>4, <2>5, <2>6 DEF ServerInv
<1>2. CASE ~(supported /\ vacant # {})
    <2>1. UNCHANGED <<ase_state, ase_stream, cap_tx_stream, le_told>>
        BY <1>2 DEF lc3_config_cb
    <2> QED
        BY <2>1 DEF ServerInv, ServerTypeOK, Told, TxFollowsSource, BelievedStreaming
<1> QED
    BY <1>1, <1>2

\* An endpoint in use that stays in use keeps its stream; what it is, and what is told of it,
\* changes together, or it neither streamed nor is told to.
LEMMA KeepInv ==
    ASSUME NEW a \in Ases, ServerInv, KeepStreams,
           ase_state[a] # "idle",
           NEW to \in {"codec", "qos", "enabling", "streaming", "disabling"},
           ase_state' = [ase_state EXCEPT ![a] = to],
           \/ le_told' = le_told /\ ase_state[a] # "streaming"
           \/ \E event \in {"PRES_DELAY_SET", "NOT_STREAMING"} : Tell(a, event)
           \/ Tell(a, "STREAMING") /\ to = "streaming"
    PROVE  ServerInv'
<1>1. ServerTypeOK' /\ TxFollowsSource'
    BY DEF KeepStreams, ServerInv, ServerTypeOK, TxFollowsSource
<1>2. Told' /\ BelievedStreaming'
    BY DEF Tell, ServerInv, ServerTypeOK, Told, BelievedStreaming
<1> QED
    BY <1>1, <1>2 DEF ServerInv

LEMMA ReleaseInv == ASSUME NEW a \in Ases, ServerInv, lc3_release_cb(a) PROVE ServerInv'
<1>1. ServerTypeOK' /\ TxFollowsSource'
    BY DEF lc3_release_cb, Moves, ServerInv, ServerTypeOK, TxFollowsSource
<1>2. Told' /\ BelievedStreaming'
    BY DEF lc3_release_cb, Moves, Tell, ServerInv, ServerTypeOK, Told, BelievedStreaming
<1> QED
    BY <1>1, <1>2 DEF ServerInv

LEMMA LinkLostInv == ServerInv /\ LinkLost => ServerInv'
BY DEF LinkLost, ServerInv, ServerTypeOK, Told, TxFollowsSource, BelievedStreaming, Ases, NoStream

LEMMA ServerStep == ServerInv /\ [ServerNext]_serverVars => ServerInv'
<1> SUFFICES ASSUME ServerInv, [ServerNext]_serverVars PROVE ServerInv'
    OBVIOUS
<1>1. ASSUME NEW a \in Ases, NEW supported \in BOOLEAN, lc3_config_cb(a, supported) PROVE ServerInv'
    BY <1>1, ConfigInv
<1>2. ASSUME NEW a \in Ases, lc3_reconfig_cb(a) PROVE ServerInv'
    BY <1>2, KeepInv DEF lc3_reconfig_cb, Moves
<1>3. ASSUME NEW a \in Ases, lc3_qos_cb(a) PROVE ServerInv'
    BY <1>3, KeepInv DEF lc3_qos_cb, Moves
<1>4. ASSUME NEW a \in Ases, lc3_enable_cb(a) PROVE ServerInv'
    BY <1>4, KeepInv DEF lc3_enable_cb, Moves
<1>5. ASSUME NEW a \in Ases, lc3_disable_cb(a) PROVE ServerInv'
    <2>1. (IF a = "sink" THEN "qos" ELSE "disabling") \in {"qos", "disabling"}
        OBVIOUS
    <2> QED
        BY <1>5, <2>1, KeepInv DEF lc3_disable_cb, Moves
<1>6. ASSUME NEW a \in Ases, lc3_stop_cb(a) PROVE ServerInv'
    BY <1>6, KeepInv DEF lc3_stop_cb, Moves
<1>7. ASSUME NEW a \in Ases, lc3_release_cb(a) PROVE ServerInv'
    BY <1>7, ReleaseInv
<1>8. ASSUME NEW a \in Ases, stream_started_cb(a) PROVE ServerInv'
    BY <1>8, KeepInv DEF stream_started_cb, Moves
<1>9. ASSUME NEW a \in Ases, stream_stopped_cb(a) PROVE ServerInv'
    BY <1>9, KeepInv DEF stream_stopped_cb, Moves, StopsTold
<1>10. CASE LinkLost
    BY <1>10, LinkLostInv
<1>11. CASE UNCHANGED serverVars
    BY <1>11, ServerUnchanged
<1> QED
    BY <1>1, <1>2, <1>3, <1>4, <1>5, <1>6, <1>7, <1>8, <1>9, <1>10, <1>11 DEF ServerNext

\* Whatever a client configures, enables, disables and releases, and whichever streams and
\* links end, the endpoints never share a stream, what is sent goes to the source's, and a
\* direction believed to stream does: the callbacks of unicast_server.c.
THEOREM ServerFollows == ServerSpec => [](ServerTypeOK /\ ServerFollowsClient)
<1>1. ServerInv => ServerTypeOK /\ ServerFollowsClient
    BY DEF ServerInv, TxFollowsSource, ServerFollowsClient, SourceIsSent
<1> QED
    BY <1>1, ServerInitInv, ServerStep, PTL DEF ServerSpec
-----------------------------------------------------------------------------
(* VolumeControl: whatever slots are left behind, a discovered headset has one.   *)

\* The first slots, objects and stream indexes that the code looks for exist.
LEMMA LeastExists ==
    ASSUME NEW S \in SUBSET Nat, S # {}
    PROVE  \E i \in S : \A j \in S : i <= j
<1>1. PICK i \in S : \A j \in S : ~(<<j, i>> \in OpToRel(<, Nat))
    BY WFMin, NatLessThanWellFounded, Zenon
<1>2. \A j \in S : ~(j < i)
    BY <1>1 DEF OpToRel
<1> QED
    BY <1>2

LEMMA LowestIn ==
    ASSUME NEW S \in SUBSET VcpConns, S # {}
    PROVE  Lowest(S) \in S
<1>1. S \in SUBSET Nat
    BY VolAssumption DEF VcpConns
<1>2. \E i \in S : \A j \in S : i <= j
    BY <1>1, LeastExists
<1> QED
    BY <1>2 DEF Lowest

\* The first conjunct of VolumeIsShared: a discovered headset has a controller.
Controlled == \A c \in VcpConns : vcp_link[c] = "discovered" => c \in SlotsOf(VcpConns)

\* A volume under way to a headset, and what a headset has reported.
Wired == /\ \A c \in VcpConns : writing[c] = <<>> \/ \E v \in Volumes : writing[c] = <<v>>
         /\ writing = [c \in VcpConns |-> writing[c]]
         /\ reported \in [VcpConns -> Seq(Volumes)]
         /\ \A c \in VcpConns : vcp_link[c] # "discovered" => writing[c] = <<>> /\ reported[c] = <<>>
VolTables == /\ vcp_link \in [VcpConns -> {"none", "up", "discovered"}]
             /\ vcs_client_peer \in [VcpConns -> VcpConns \cup {NoVcs}]
             /\ volume \in [VcpConns -> Volumes]
VolInv == VolTables /\ Wired /\ Controlled

LEMMA VolInitInv == VolInit => VolInv
<1> SUFFICES ASSUME VolInit PROVE VolInv
    OBVIOUS
<1>1. VolTables /\ Wired
    BY VolAssumption DEF VolInit, VolTables, Wired, NoVcs
<1>2. Controlled
    BY DEF VolInit, Controlled
<1> QED
    BY <1>1, <1>2 DEF VolInv

LEMMA VolInvType == VolInv => VolTypeOK
<1> SUFFICES ASSUME VolInv PROVE VolTypeOK
    OBVIOUS
<1>1. \A c \in VcpConns : Len(writing[c]) <= 1
    <2> SUFFICES ASSUME NEW c \in VcpConns PROVE Len(writing[c]) <= 1
        OBVIOUS
    <2>1. writing[c] = <<>> \/ \E v \in Volumes : writing[c] = <<v>>
        BY DEF VolInv, Wired
    <2>2. Len(<<>>) = 0 /\ \A v \in Volumes : Len(<<v>>) = 1
        OBVIOUS
    <2>3. CASE writing[c] = <<>>
        BY <2>2, <2>3
    <2>4. ASSUME NEW v \in Volumes, writing[c] = <<v>> PROVE Len(writing[c]) <= 1
        BY <2>2, <2>4
    <2> QED
        BY <2>1, <2>3, <2>4
<1> QED
    BY <1>1 DEF VolInv, VolTypeOK, VolTables, Wired

LEMMA VolUnchanged == VolInv /\ UNCHANGED volVars => VolInv'
BY DEF VolInv, VolTables, Wired, Controlled, SlotsOf, volVars, remoteVars

\* Writing a volume to some headsets touches only those that are discovered.
LEMMA WriteWired ==
    ASSUME VolInv, NEW S, NEW v \in Volumes, Write(S, v), UNCHANGED vcp_link,
           \/ UNCHANGED reported
           \/ \E c \in VcpConns : reported[c] # <<>> /\ reported' = [reported EXCEPT ![c] = Tail(@)]
    PROVE  Wired'
<1>1. \A c \in VcpConns : writing'[c] = IF c \in S /\ Ready(c) THEN <<v>> ELSE writing[c]
    BY DEF Write
<1>2. \A c \in VcpConns : writing'[c] = <<>> \/ \E w \in Volumes : writing'[c] = <<w>>
    BY <1>1 DEF VolInv, Wired
<1>3. writing' = [c \in VcpConns |-> writing'[c]]
    BY DEF Write
<1>4. /\ reported' \in [VcpConns -> Seq(Volumes)]
      /\ \A c \in VcpConns : reported[c] = <<>> => reported'[c] = <<>>
    <2>1. CASE UNCHANGED reported
        BY <2>1 DEF VolInv, Wired
    <2>2. ASSUME NEW c \in VcpConns, reported[c] # <<>>,
                 reported' = [reported EXCEPT ![c] = Tail(@)]
          PROVE  <1>4!1 /\ <1>4!2
        <3>1. reported[c] \in Seq(Volumes)
            BY DEF VolInv, Wired
        <3>2. Tail(reported[c]) \in Seq(Volumes)
            BY <2>2, <3>1, HeadTailProperties
        <3> QED
            BY <2>2, <3>2 DEF VolInv, Wired
    <2> QED
        BY <2>1, <2>2
<1>5. \A c \in VcpConns : vcp_link'[c] # "discovered" => writing'[c] = <<>> /\ reported'[c] = <<>>
    BY <1>1, <1>4 DEF VolInv, Wired, Ready
<1> QED
    BY <1>2, <1>3, <1>4, <1>5 DEF Wired

LEMMA VcpLinkInv == VolInv /\ VcpLinkUp => VolInv'
<1> SUFFICES ASSUME VolInv, VcpLinkUp PROVE VolInv'
    OBVIOUS
<1> DEFINE free == {c \in VcpConns : vcp_link[c] = "none"}
           c == Lowest(free)
<1>1. c \in VcpConns /\ vcp_link[c] = "none"
    <2>1. free \in SUBSET VcpConns /\ free # {}
        BY DEF VcpLinkUp
    <2>2. c \in free
        BY <2>1, LowestIn
    <2> QED
        BY <2>2
<1>2. /\ vcp_link' = [vcp_link EXCEPT ![c] = "up"]
      /\ \E v \in Volumes : volume' = [volume EXCEPT ![c] = v]
      /\ UNCHANGED <<vcs_client_peer, writing, reported>>
    BY DEF VcpLinkUp
<1> HIDE DEF c
<1>3. VolTables' /\ Wired'
    BY <1>1, <1>2 DEF VolInv, VolTables, Wired
<1>4. Controlled'
    BY <1>1, <1>2 DEF VolInv, VolTables, Controlled, SlotsOf
<1> QED
    BY <1>3, <1>4 DEF VolInv

LEMMA LinkDownInv == ASSUME VolInv, NEW c \in VcpConns, VcpLinkDown(c) PROVE VolInv'
<1>1. /\ vcp_link' = [vcp_link EXCEPT ![c] = "none"]
      /\ writing' = [writing EXCEPT ![c] = <<>>] /\ reported' = [reported EXCEPT ![c] = <<>>]
      /\ UNCHANGED <<vcs_client_peer, volume>>
    BY DEF VcpLinkDown
<1>2. VolTables'
    BY <1>1 DEF VolInv, VolTables
<1>3. Wired'
    <2>1. <<>> \in Seq(Volumes)
        OBVIOUS
    <2>2. reported' \in [VcpConns -> Seq(Volumes)]
        BY <1>1, <2>1 DEF VolInv, Wired
    <2>3. /\ writing' = [d \in VcpConns |-> IF d = c THEN <<>> ELSE writing[d]]
          /\ reported' = [d \in VcpConns |-> IF d = c THEN <<>> ELSE reported[d]]
          /\ vcp_link' = [d \in VcpConns |-> IF d = c THEN "none" ELSE vcp_link[d]]
        BY <1>1 DEF VolInv, VolTables, Wired
    <2> QED
        BY <2>2, <2>3 DEF VolInv, Wired
<1>4. Controlled'
    BY <1>1 DEF VolInv, VolTables, Controlled, SlotsOf
<1> QED
    BY <1>2, <1>3, <1>4 DEF VolInv

\* The slot that a discovery frees is one of no discovered headset.
LEMMA StaleOnly ==
    ASSUME VolInv, NEW c \in VcpConns, vcp_link[c] # "discovered"
    PROVE  /\ WithoutStale(c) \in [VcpConns -> VcpConns \cup {NoVcs}]
           /\ \A d \in VcpConns : vcp_link[d] = "discovered" =>
                 \E i \in VcpConns : WithoutStale(c)[i] = d
<1>1. CASE Deciding(c) = {}
    BY <1>1 DEF WithoutStale, VolInv, VolTables, Controlled, SlotsOf
<1>2. CASE Deciding(c) # {}
    <2> DEFINE k == Lowest(Deciding(c))
    <2>1. k \in Deciding(c)
        BY <1>2, LowestIn DEF Deciding
    <2>2. WithoutStale(c) = [vcs_client_peer EXCEPT ![k] = NoVcs]
        BY <1>2 DEF WithoutStale
    <2>3. k \in VcpConns /\ vcp_link[vcs_client_peer[k]] # "discovered"
        BY <2>1 DEF Deciding, Frees
    <2> HIDE DEF k
    <2>4. WithoutStale(c) \in [VcpConns -> VcpConns \cup {NoVcs}]
        BY <2>2, <2>3 DEF VolInv, VolTables
    <2>5. ASSUME NEW d \in VcpConns, vcp_link[d] = "discovered"
          PROVE  \E i \in VcpConns : WithoutStale(c)[i] = d
        <3>1. PICK i \in VcpConns : vcs_client_peer[i] = d
            BY <2>5 DEF VolInv, Controlled, SlotsOf
        <3>2. i # k
            BY <2>3, <2>5, <3>1
        <3> QED
            BY <2>2, <3>1, <3>2 DEF VolInv, VolTables
    <2> QED
        BY <2>4, <2>5
<1> QED
    BY <1>1, <1>2

LEMMA VolDiscoverInv ==
    ASSUME VolInv, NEW c \in VcpConns, NEW ok \in BOOLEAN, VolDiscover(c, ok)
    PROVE  VolInv'
<1> DEFINE peers == WithoutStale(c)
           free == {i \in VcpConns : peers[i] = NoVcs}
<1>1. vcp_link[c] = "up"
    BY DEF VolDiscover
<1>2. /\ peers \in [VcpConns -> VcpConns \cup {NoVcs}]
      /\ \A d \in VcpConns : vcp_link[d] = "discovered" => \E i \in VcpConns : peers[i] = d
    BY <1>1, StaleOnly
<1>3. UNCHANGED remoteVars
    BY DEF VolDiscover
<1>4. ~\E d \in VcpConns : d = NoVcs
    BY DEF VcpConns, NoVcs
<1>5. CASE ok /\ free # {}
    <2> DEFINE k == Lowest(free)
    <2>1. k \in free
        <3>1. free \in SUBSET VcpConns
            OBVIOUS
        <3> QED
            BY <1>5, <3>1, LowestIn
    <2>2. /\ vcs_client_peer' = [peers EXCEPT ![k] = c]
          /\ vcp_link' = [vcp_link EXCEPT ![c] = "discovered"]
        BY <1>5 DEF VolDiscover
    <2>3. k \in VcpConns /\ peers[k] = NoVcs
        BY <2>1
    <2> HIDE DEF k, peers
    <2>4. VolTables'
        BY <1>2, <1>3, <2>2, <2>3 DEF VolInv, VolTables, remoteVars
    <2>5. Wired'
        BY <1>1, <1>3, <2>2 DEF VolInv, VolTables, Wired, remoteVars
    <2>6. ASSUME NEW d \in VcpConns, vcp_link'[d] = "discovered"
          PROVE  d \in SlotsOf(VcpConns)'
        <3>1. \E i \in VcpConns : vcs_client_peer'[i] = d
            <4>1. CASE d = c
                BY <1>2, <2>2, <2>3, <4>1
            <4>2. CASE d # c
                <5>1. vcp_link[d] = "discovered"
                    BY <2>2, <2>6, <4>2 DEF VolInv, VolTables
                <5>2. PICK i \in VcpConns : peers[i] = d
                    BY <1>2, <5>1
                <5>3. i # k
                    BY <1>4, <2>3, <5>2
                <5> QED
                    BY <1>2, <2>2, <5>2, <5>3
            <4> QED
                BY <4>1, <4>2
        <3> QED
            BY <1>4, <3>1 DEF SlotsOf
    <2> QED
        BY <2>4, <2>5, <2>6 DEF VolInv, Controlled
<1>6. CASE ~(ok /\ free # {})
    <2>1. vcs_client_peer' = peers /\ UNCHANGED vcp_link
        BY <1>6 DEF VolDiscover
    <2> HIDE DEF peers
    <2>2. VolTables' /\ Wired'
        BY <1>2, <1>3, <2>1 DEF VolInv, VolTables, Wired, remoteVars
    <2>3. Controlled'
        BY <1>2, <1>4, <2>1 DEF Controlled, SlotsOf
    <2> QED
        BY <2>2, <2>3 DEF VolInv
<1> QED
    BY <1>5, <1>6

\* Steps that leave links and slots alone.
LEMMA SlotsKept ==
    ASSUME VolInv, UNCHANGED <<vcp_link, vcs_client_peer>>, volume' \in [VcpConns -> Volumes], Wired'
    PROVE  VolInv'
BY DEF VolInv, VolTables, Controlled, SlotsOf

LEMMA TakesWired ==
    ASSUME VolInv, NEW c \in VcpConns, NEW v \in Volumes, Takes(c, v), vcp_link[c] = "discovered"
    PROVE  /\ volume' \in [VcpConns -> Volumes]
           /\ reported' \in [VcpConns -> Seq(Volumes)]
           /\ \A d \in VcpConns : vcp_link[d] # "discovered" => reported'[d] = reported[d]
<1>1. volume' \in [VcpConns -> Volumes]
    BY DEF Takes, VolInv, VolTables
<1>2. CASE volume[c] = v
    BY <1>1, <1>2 DEF Takes, VolInv, Wired
<1>3. CASE volume[c] # v
    <2>1. Append(reported[c], v) \in Seq(Volumes)
        BY AppendProperties DEF VolInv, Wired
    <2>2. reported' = [reported EXCEPT ![c] = Append(reported[c], v)]
        BY <1>3 DEF Takes
    <2> QED
        BY <1>1, <2>1, <2>2 DEF VolInv, Wired
<1> QED
    BY <1>2, <1>3

LEMMA VolKept == VolInv /\ [VolNext]_volVars => VolInv'
<1> SUFFICES ASSUME VolInv, [VolNext]_volVars PROVE VolInv'
    OBVIOUS
<1>1. CASE VcpLinkUp
    BY <1>1, VcpLinkInv
<1>2. ASSUME NEW v \in Volumes, VolSet(v) PROVE VolInv'
    <2>1. Wired'
        BY <1>2, WriteWired DEF VolSet
    <2> QED
        BY <1>2, <2>1, SlotsKept DEF VolSet, VolInv, VolTables
<1>3. ASSUME NEW c \in VcpConns, HeadsetTakes(c) PROVE VolInv'
    <2>1. vcp_link[c] = "discovered"
        BY <1>3 DEF HeadsetTakes, VolInv, Wired
    <2>2. PICK v \in Volumes : writing[c] = <<v>>
        BY <1>3 DEF HeadsetTakes, VolInv, Wired
    <2>3. Takes(c, v)
        BY <1>3, <2>2 DEF HeadsetTakes
    <2>4. /\ volume' \in [VcpConns -> Volumes]
          /\ reported' \in [VcpConns -> Seq(Volumes)]
          /\ \A d \in VcpConns : vcp_link[d] # "discovered" => reported'[d] = reported[d]
        BY <2>1, <2>3, TakesWired
    <2>5. Wired'
        BY <1>3, <2>4 DEF HeadsetTakes, VolInv, Wired
    <2> QED
        BY <1>3, <2>4, <2>5, SlotsKept DEF HeadsetTakes
<1>4. ASSUME NEW c \in VcpConns, NEW v \in Volumes, HeadsetButton(c, v) PROVE VolInv'
    <2>1. /\ volume' \in [VcpConns -> Volumes]
          /\ reported' \in [VcpConns -> Seq(Volumes)]
          /\ \A d \in VcpConns : vcp_link[d] # "discovered" => reported'[d] = reported[d]
        BY <1>4, TakesWired DEF HeadsetButton
    <2>2. Wired'
        BY <1>4, <2>1 DEF HeadsetButton, VolInv, Wired
    <2> QED
        BY <1>4, <2>1, <2>2, SlotsKept DEF HeadsetButton
<1>5. ASSUME NEW c \in VcpConns, vcs_state_ctlr_cb_handler(c) PROVE VolInv'
    <2>1. reported[c] # <<>> /\ reported[c] \in Seq(Volumes)
        BY <1>5 DEF vcs_state_ctlr_cb_handler, VolInv, Wired
    <2>2. Head(reported[c]) \in Volumes
        BY <2>1, HeadTailProperties
    <2>3. Wired'
        BY <1>5, <2>2, WriteWired DEF vcs_state_ctlr_cb_handler
    <2> QED
        BY <1>5, <2>3, SlotsKept DEF vcs_state_ctlr_cb_handler, VolInv, VolTables
<1>6. ASSUME NEW c \in VcpConns, VcpLinkDown(c) PROVE VolInv'
    BY <1>6, LinkDownInv
<1>7. ASSUME NEW c \in VcpConns, NEW ok \in BOOLEAN, VolDiscover(c, ok) PROVE VolInv'
    BY <1>7, VolDiscoverInv
<1>8. CASE UNCHANGED volVars
    BY <1>8, VolUnchanged
<1> QED
    BY <1>1, <1>2, <1>3, <1>4, <1>5, <1>6, <1>7, <1>8 DEF VolNext, Delivery

\* bt_vol_ctlr_discover() cleans up one slot only, that of a controller without a connection:
\* whatever links end, a headset that was discovered is controlled as long as it is connected.
THEOREM DiscoveredAreControlled == VolSpec => [](VolTypeOK /\ Controlled)
<1>1. VolInv => VolTypeOK /\ Controlled
    BY VolInvType DEF VolInv
<1> QED
    BY <1>1, VolInitInv, VolKept, PTL DEF VolSpec
-----------------------------------------------------------------------------
(* BroadcastScan: what the application is told of a sync.                         *)

ScanFlags == /\ scan_cb_registered \in BOOLEAN /\ scanning \in BOOLEAN
             /\ pa_sync_timer \in BOOLEAN /\ scan_restart_work \in BOOLEAN
             /\ pa_timer \in BOOLEAN /\ wanted \in BOOLEAN /\ crossed \in BOOLEAN
ScanTables ==
  /\ srch_name \in ScanNames \cup {NotUsed} /\ srch_brdcast_id \in Id
  /\ pa_sync \in Syncs \cup {NotUsed}
  /\ syncs \in [Syncs -> [state : {"free", "pending", "synced"}, source : Id]]
  /\ brcast_src_info \in Id /\ asked \in Id /\ told_sync \in [Syncs -> Id]
  /\ pa_sync_state \in {"none", "not_synced", "info_req", "synced", "no_past", "failed"}

\* The first conjunct of ScansAreAnswered.
ToldOfSyncs == \A y \in Syncs : ToldAsSynced(y)

\* The ID that is published with the next sync is that of the source it is created for.
PendingKnown == \A y \in Syncs : syncs[y].state = "pending" =>
  brcast_src_info \in Sources /\ (~crossed => syncs[y].source = brcast_src_info)

\* Nothing else is under way while the assistant's offer of a transfer stands.
OfferKnown == pa_sync_state = "info_req" =>
  /\ asked \in Sources /\ brcast_src_info \in Sources
  /\ ~crossed => /\ asked = brcast_src_info /\ ~scan_cb_registered
                 /\ ~pa_sync_timer /\ ~scan_restart_work /\ SyncsPending = {}

ScanInv == ScanFlags /\ ScanTables /\ ToldOfSyncs /\ PendingKnown /\ OfferKnown

LEMMA ScanInitInv == ScanInit => ScanInv
<1> SUFFICES ASSUME ScanInit PROVE ScanInv
    OBVIOUS
<1>1. ScanFlags
    BY Zenon DEF ScanInit, ScanFlags
<1>2. ScanTables
    BY DEF ScanInit, ScanTables, Unused, Id
<1>3. ToldOfSyncs /\ PendingKnown /\ OfferKnown
    BY DEF ScanInit, ToldOfSyncs, ToldAsSynced, PendingKnown, OfferKnown, Unused
<1> QED
    BY <1>1, <1>2, <1>3 DEF ScanInv

LEMMA ScanUnchanged == ScanInv /\ UNCHANGED scanVars => ScanInv'
BY DEF ScanInv, ScanFlags, ScanTables, ToldOfSyncs, ToldAsSynced, PendingKnown, OfferKnown,
   SyncsPending, scanVars, searchVars, syncVars, delegatorVars, ghostVars

\* What is pending makes the search busy, and so does an offer.
LEMMA PendingIsBusy ==
    /\ ~Busy => SyncsPending = {} /\ ~pa_sync_timer /\ ~scan_restart_work
    /\ ~Busy => pa_sync_state # "info_req"
    /\ SyncsPending = {} <=> \A y \in Syncs : syncs[y].state # "pending"
BY DEF Busy, SyncsPending

LEMMA SearchTypes ==
    ASSUME ScanInv, NEW name \in ScanNames \cup {NotUsed}, NEW id \in Id, NEW ok \in BOOLEAN,
           Search(name, id, ok)
    PROVE  /\ scan_cb_registered' \in BOOLEAN /\ scanning' \in BOOLEAN
           /\ srch_name' \in ScanNames \cup {NotUsed} /\ srch_brdcast_id' \in Id
<1>1. scan_cb_registered' \in BOOLEAN /\ scanning' \in BOOLEAN
    BY Zenon DEF Search, ScanInv, ScanFlags
<1>2. srch_name' \in ScanNames \cup {NotUsed} /\ srch_brdcast_id' \in Id
    BY DEF Search, ScanInv, ScanTables
<1> QED
    BY <1>1, <1>2

LEMMA StartSearchInv ==
    ASSUME ScanInv, NEW name \in ScanNames \cup {NotUsed}, NEW id \in Id, NEW ok \in BOOLEAN,
           StartSearch(name, id, ok)
    PROVE  ScanInv'
<1>1. /\ wanted' = TRUE /\ (crossed' = (crossed \/ ~ok \/ Busy)) /\ UNCHANGED <<syncVars, delegatorVars>>
      /\ Search(name, id, ok)
    BY DEF StartSearch
<1>2. ScanFlags'
    <2>1. crossed' \in BOOLEAN
        BY <1>1, Zenon DEF ScanInv, ScanFlags
    <2> QED
        BY <1>1, <2>1, SearchTypes DEF ScanInv, ScanFlags, syncVars, delegatorVars
<1>3. ScanTables'
    BY <1>1, SearchTypes DEF ScanInv, ScanTables, syncVars, delegatorVars
<1>4. (crossed => crossed') /\ (~crossed' => ~Busy)
    BY <1>1, Zenon
<1>5. ToldOfSyncs' /\ PendingKnown' /\ OfferKnown'
    BY <1>1, <1>4, PendingIsBusy DEF ScanInv, ToldOfSyncs, ToldAsSynced, PendingKnown, OfferKnown,
       syncVars, delegatorVars
<1> QED
    BY <1>2, <1>3, <1>5 DEF ScanInv

\* A sync that is deleted is forgotten by both sides.
LEMMA DeletedBoth ==
    ASSUME ScanInv, NEW y \in Syncs \cup {NotUsed}, syncs' = Deleted(y), told_sync' = Untold(y)
    PROVE  /\ syncs' \in [Syncs -> [state : {"free", "pending", "synced"}, source : Id]]
           /\ told_sync' \in [Syncs -> Id]
           /\ (crossed => crossed') => ToldOfSyncs'
           /\ \A z \in Syncs : syncs'[z].state = "pending" => syncs'[z] = syncs[z]
           /\ SyncsPending = {} => SyncsPending' = {}
<1>1. CASE y \notin Syncs
    BY <1>1 DEF Deleted, Untold, ScanInv, ScanTables, ToldOfSyncs, ToldAsSynced, SyncsPending
<1>2. CASE y \in Syncs
    <2>1. /\ syncs' = [z \in Syncs |-> IF z = y THEN Unused ELSE syncs[z]]
          /\ told_sync' = [z \in Syncs |-> IF z = y THEN NotUsed ELSE told_sync[z]]
        BY <1>2 DEF Deleted, Untold, ScanInv, ScanTables
    <2>2. /\ Unused \in [state : {"free", "pending", "synced"}, source : Id]
          /\ Unused.state = "free" /\ NotUsed \in Id
        BY DEF Unused, Id
    <2> QED
        BY <2>1, <2>2 DEF ScanInv, ScanTables, ToldOfSyncs, ToldAsSynced, SyncsPending
<1> QED
    BY <1>1, <1>2

LEMMA FoundInv == ASSUME ScanInv, NEW s \in Sources, Found(s) PROVE ScanInv'
<1>1. /\ scan_cb_registered /\ scan_cb_registered' = FALSE /\ pa_sync_timer' = TRUE
      /\ UNCHANGED <<scanning, srch_name, srch_brdcast_id, scan_restart_work, asked, pa_sync_state,
                     pa_timer, wanted, crossed>>
    BY Zenon DEF Found, delegatorVars, ghostVars
<1>2. ScanFlags'
    BY <1>1, Zenon DEF ScanInv, ScanFlags
<1>3. pa_sync_state = "info_req" => crossed
    BY <1>1, Zenon DEF ScanInv, OfferKnown
<1>4. ASSUME NEW y \in Syncs, SyncsPending = {}, syncs[y].state = "free",
             syncs' = [syncs EXCEPT ![y] = [state |-> "pending", source |-> s]],
             pa_sync' = y, brcast_src_info' = s, UNCHANGED told_sync
      PROVE  ScanInv'
    <2>1. syncs' = [z \in Syncs |-> IF z = y THEN [state |-> "pending", source |-> s] ELSE syncs[z]]
        BY <1>4 DEF ScanInv, ScanTables
    <2>2. ScanTables'
        BY <1>1, <1>4, <2>1 DEF ScanInv, ScanTables, Id
    <2>3. ToldOfSyncs'
        BY <1>1, <1>4, <2>1 DEF ScanInv, ToldOfSyncs, ToldAsSynced
    <2>4. PendingKnown'
        BY <1>4, <2>1 DEF PendingKnown, SyncsPending
    <2>5. OfferKnown'
        BY <1>1, <1>3, <1>4 DEF ScanInv, OfferKnown
    <2> QED
        BY <1>2, <2>2, <2>3, <2>4, <2>5 DEF ScanInv
<1>5. ASSUME syncs' = Deleted(pa_sync), told_sync' = Untold(pa_sync),
             UNCHANGED <<pa_sync, brcast_src_info>>
      PROVE  ScanInv'
    <2>1. pa_sync \in Syncs \cup {NotUsed}
        BY DEF ScanInv, ScanTables
    <2>2. /\ syncs' \in [Syncs -> [state : {"free", "pending", "synced"}, source : Id]]
          /\ told_sync' \in [Syncs -> Id]
          /\ (crossed => crossed') => ToldOfSyncs'
          /\ \A z \in Syncs : syncs'[z].state = "pending" => syncs'[z] = syncs[z]
        BY <1>5, <2>1, DeletedBoth
    <2>3. ScanTables'
        BY <1>1, <1>5, <2>2 DEF ScanInv, ScanTables
    <2>4. ToldOfSyncs' /\ PendingKnown' /\ OfferKnown'
        BY <1>1, <1>3, <1>5, <2>2 DEF ScanInv, PendingKnown, OfferKnown
    <2> QED
        BY <1>2, <2>3, <2>4 DEF ScanInv
<1> QED
    BY <1>4, <1>5 DEF Found

\* An announced sync is told with the ID that is published, which is that of its source.
LEMMA AnnounceTold ==
    ASSUME ScanInv, NEW y \in Syncs, NEW s \in Id, Announce(y, s),
           UNCHANGED brcast_src_info, brcast_src_info \in Sources,
           crossed => crossed', ~crossed' => s = brcast_src_info
    PROVE  /\ syncs' \in [Syncs -> [state : {"free", "pending", "synced"}, source : Id]]
           /\ told_sync' \in [Syncs -> Id]
           /\ ToldOfSyncs' /\ PendingKnown'
           /\ SyncsPending = {} => SyncsPending' = {}
<1>1. /\ syncs' = [z \in Syncs |-> IF z = y THEN [state |-> "synced", source |-> s] ELSE syncs[z]]
      /\ told_sync' = [z \in Syncs |-> IF z = y THEN brcast_src_info ELSE told_sync[z]]
    BY DEF Announce, ScanInv, ScanTables
<1>2. syncs' \in [Syncs -> [state : {"free", "pending", "synced"}, source : Id]]
    BY <1>1 DEF ScanInv, ScanTables, Id
<1>3. told_sync' \in [Syncs -> Id] /\ brcast_src_info # NotUsed
    BY <1>1, ScanAssumption DEF ScanInv, ScanTables, Id
<1>4. ToldOfSyncs'
    <2> SUFFICES ASSUME NEW z \in Syncs PROVE ToldAsSynced(z)'
        BY DEF ToldOfSyncs
    <2>1. CASE z = y
        BY <1>1, <1>3, <2>1 DEF ToldAsSynced
    <2>2. CASE z # y
        BY <1>1, <2>2 DEF ScanInv, ToldOfSyncs, ToldAsSynced
    <2> QED
        BY <2>1, <2>2
<1>5. PendingKnown' /\ (SyncsPending = {} => SyncsPending' = {})
    BY <1>1 DEF ScanInv, PendingKnown, SyncsPending
<1> QED
    BY <1>2, <1>3, <1>4, <1>5

LEMMA EstablishedInv == ScanInv /\ SyncEstablished => ScanInv'
<1> SUFFICES ASSUME ScanInv, NEW y \in SyncsPending, Announce(y, syncs[y].source),
                    pa_sync_state' = (IF syncs[y].source = asked THEN "synced" ELSE pa_sync_state),
                    UNCHANGED <<scan_cb_registered, srch_name, srch_brdcast_id, pa_sync,
                                scan_restart_work, brcast_src_info, asked, pa_timer, crossed>>
             PROVE  ScanInv'
    BY DEF SyncEstablished
<1>1. y \in Syncs /\ syncs[y].state = "pending" /\ SyncsPending # {}
    BY DEF SyncsPending
<1>2. pa_sync_timer' = FALSE /\ scanning' = FALSE /\ wanted' = FALSE
    BY DEF Announce
<1>3. ScanFlags'
    BY <1>2, Zenon DEF ScanInv, ScanFlags
<1>4. brcast_src_info \in Sources /\ (~crossed => syncs[y].source = brcast_src_info)
    BY <1>1 DEF ScanInv, PendingKnown
<1>5. pa_sync_state' = "info_req" => pa_sync_state = "info_req"
    OBVIOUS
<1>6. OfferKnown'
    BY <1>1, <1>4, <1>5 DEF ScanInv, OfferKnown
<1>7. syncs[y].source \in Id
    BY <1>1 DEF ScanInv, ScanTables
<1>8. /\ syncs' \in [Syncs -> [state : {"free", "pending", "synced"}, source : Id]]
      /\ told_sync' \in [Syncs -> Id] /\ ToldOfSyncs' /\ PendingKnown'
    BY <1>1, <1>4, <1>7, AnnounceTold
<1>9. ScanTables'
    BY <1>8 DEF ScanInv, ScanTables
<1> QED
    BY <1>3, <1>6, <1>8, <1>9 DEF ScanInv

LEMMA TransferredInv == ScanInv /\ Transferred => ScanInv'
<1> SUFFICES ASSUME ScanInv, NEW y \in Syncs, pa_sync_state = "info_req", Announce(y, asked),
                    pa_sync_state' = "synced", (crossed' = (crossed \/ scan_cb_registered)),
                    UNCHANGED <<scan_cb_registered, srch_name, srch_brdcast_id, pa_sync,
                                scan_restart_work, brcast_src_info, asked, pa_timer>>
             PROVE  ScanInv'
    BY DEF Transferred
<1>1. pa_sync_timer' = FALSE /\ scanning' = FALSE /\ wanted' = FALSE
    BY DEF Announce
<1>2. ScanFlags'
    BY <1>1, Zenon DEF ScanInv, ScanFlags
<1>3. asked \in Id /\ brcast_src_info \in Sources /\ (~crossed => asked = brcast_src_info)
    BY DEF ScanInv, OfferKnown, ScanTables
<1>4. (crossed => crossed') /\ (~crossed' => ~crossed)
    BY Zenon
<1>5. /\ syncs' \in [Syncs -> [state : {"free", "pending", "synced"}, source : Id]]
      /\ told_sync' \in [Syncs -> Id] /\ ToldOfSyncs' /\ PendingKnown'
    BY <1>3, <1>4, AnnounceTold
<1>6. ScanTables' /\ OfferKnown'
    BY <1>5 DEF ScanInv, ScanTables, OfferKnown
<1> QED
    BY <1>2, <1>5, <1>6 DEF ScanInv

LEMMA SyncLostInv == ASSUME ScanInv, NEW y \in Syncs, SyncLost(y) PROVE ScanInv'
<1>1. /\ syncs' = Deleted(y) /\ told_sync' = Untold(y)
      /\ pa_sync_state' = IF syncs[y].source = asked THEN "not_synced" ELSE pa_sync_state
      /\ UNCHANGED <<scan_cb_registered, scanning, srch_name, srch_brdcast_id, pa_sync,
                     pa_sync_timer, scan_restart_work, brcast_src_info, asked, pa_timer,
                     wanted, crossed>>
    BY DEF SyncLost, searchVars, ghostVars
<1>2. /\ syncs' \in [Syncs -> [state : {"free", "pending", "synced"}, source : Id]]
      /\ told_sync' \in [Syncs -> Id] /\ ToldOfSyncs'
      /\ \A z \in Syncs : syncs'[z].state = "pending" => syncs'[z] = syncs[z]
      /\ SyncsPending = {} => SyncsPending' = {}
    BY <1>1, DeletedBoth
<1>3. ScanFlags'
    BY <1>1, Zenon DEF ScanInv, ScanFlags
<1>4. ScanTables' /\ PendingKnown' /\ OfferKnown'
    BY <1>1, <1>2 DEF ScanInv, ScanTables, PendingKnown, OfferKnown
<1> QED
    BY <1>2, <1>3, <1>4 DEF ScanInv

LEMMA TimeoutInv == ASSUME ScanInv, NEW dead \in BOOLEAN, PaSyncTimeout(dead) PROVE ScanInv'
<1>1. /\ pa_sync_timer /\ pa_sync_timer' = FALSE /\ scan_restart_work' = TRUE
      /\ UNCHANGED <<scan_cb_registered, scanning, srch_name, srch_brdcast_id, pa_sync, syncs,
                     brcast_src_info, told_sync, asked, pa_sync_state, pa_timer, wanted, crossed>>
    BY Zenon DEF PaSyncTimeout, searchVars, delegatorVars, ghostVars
<1>2. ScanFlags'
    BY <1>1, Zenon DEF ScanInv, ScanFlags
<1>3. pa_sync_state = "info_req" => crossed
    BY <1>1, Zenon DEF ScanInv, OfferKnown
<1>4. ScanTables' /\ ToldOfSyncs' /\ PendingKnown' /\ OfferKnown'
    BY <1>1, <1>3 DEF ScanInv, ScanTables, ToldOfSyncs, ToldAsSynced, PendingKnown, OfferKnown
<1> QED
    BY <1>2, <1>4 DEF ScanInv

LEMMA RestartInv == ASSUME ScanInv, NEW ok \in BOOLEAN, RestartWorker(ok) PROVE ScanInv'
<1>1. /\ scan_restart_work /\ scan_restart_work' = FALSE
      /\ syncs' = Deleted(pa_sync) /\ told_sync' = Untold(pa_sync)
      /\ (crossed' = (crossed \/ ~ok)) /\ (wanted' = (wanted \/ pa_sync \in PaSynced))
      /\ UNCHANGED <<srch_name, srch_brdcast_id, pa_sync, pa_sync_timer, brcast_src_info,
                     asked, pa_sync_state, pa_timer>>
    BY Zenon DEF RestartWorker, delegatorVars
<1>2. ScanFlags'
    <2>1. crossed' \in BOOLEAN
        BY <1>1, Zenon
    <2>2. wanted' \in BOOLEAN
        BY <1>1, Zenon
    <2>3. scanning' \in BOOLEAN /\ scan_cb_registered' \in BOOLEAN
        BY Zenon DEF RestartWorker, SearchAgain, ScanInv, ScanFlags
    <2> QED
        BY <1>1, <2>1, <2>2, <2>3, Zenon DEF ScanInv, ScanFlags
<1>3. (crossed => crossed') /\ (~crossed' => ~crossed) /\ (pa_sync_state = "info_req" => crossed)
    BY <1>1, Zenon DEF ScanInv, OfferKnown
<1>4. pa_sync \in Syncs \cup {NotUsed}
    BY DEF ScanInv, ScanTables
<1>5. /\ syncs' \in [Syncs -> [state : {"free", "pending", "synced"}, source : Id]]
      /\ told_sync' \in [Syncs -> Id] /\ ToldOfSyncs'
      /\ \A z \in Syncs : syncs'[z].state = "pending" => syncs'[z] = syncs[z]
    BY <1>1, <1>3, <1>4, DeletedBoth
<1>6. ScanTables' /\ PendingKnown' /\ OfferKnown'
    BY <1>1, <1>3, <1>5 DEF ScanInv, ScanTables, PendingKnown, OfferKnown
<1> QED
    BY <1>2, <1>5, <1>6 DEF ScanInv

LEMMA SyncRequestInv ==
    ASSUME ScanInv, NEW s \in Sources, NEW past \in BOOLEAN, NEW ok \in BOOLEAN,
           SyncRequest(s, past, ok)
    PROVE  ScanInv'
<1>1. /\ asked' = s /\ brcast_src_info' = s
      /\ (crossed' = (crossed \/ ~ok \/ Busy \/ (past /\ scan_cb_registered)))
      /\ UNCHANGED <<pa_sync, syncs, pa_sync_timer, scan_restart_work, told_sync>>
    BY Zenon DEF SyncRequest
<1>2. (crossed => crossed') /\ (~crossed' => ~crossed /\ ~Busy /\ ~(past /\ scan_cb_registered))
    BY <1>1, Zenon
<1>3. crossed' \in BOOLEAN /\ NotUsed \in Id /\ s \in Id
    BY <1>1, Zenon DEF Id
<1>4. /\ UNCHANGED pa_timer \/ pa_timer' = TRUE
      /\ pa_sync_state' \in {"info_req", "not_synced"}
      /\ wanted' = TRUE \/ UNCHANGED wanted
      /\ pa_sync_state' = "info_req" => past /\ UNCHANGED scan_cb_registered
    <2>1. CASE past
        BY <2>1 DEF SyncRequest, OfferEnds, searchVars
    <2>2. CASE ~past
        BY <2>2 DEF SyncRequest, OfferEnds
    <2> QED
        BY <2>1, <2>2
<1>5. /\ scan_cb_registered' \in BOOLEAN /\ scanning' \in BOOLEAN
      /\ srch_name' \in ScanNames \cup {NotUsed} /\ srch_brdcast_id' \in Id
    <2>1. CASE past
        <3>1. UNCHANGED <<scan_cb_registered, scanning, srch_name, srch_brdcast_id>>
            BY <2>1, Zenon DEF SyncRequest, searchVars
        <3> QED
            BY <3>1, Zenon DEF ScanInv, ScanFlags, ScanTables
    <2>2. CASE ~past
        <3>1. Search(NotUsed, s, ok)
            BY <2>2, Zenon DEF SyncRequest
        <3> QED
            BY <1>3, <3>1, SearchTypes
    <2> QED
        BY <2>1, <2>2
<1>6. ScanFlags'
    BY <1>1, <1>3, <1>4, <1>5, Zenon DEF ScanInv, ScanFlags
<1>7. ScanTables'
    BY <1>1, <1>3, <1>4, <1>5 DEF ScanInv, ScanTables
<1>8. ToldOfSyncs'
    BY <1>1, <1>2 DEF ScanInv, ToldOfSyncs, ToldAsSynced
<1>9. PendingKnown'
    BY <1>1, <1>2, PendingIsBusy DEF PendingKnown
<1>10. OfferKnown'
    <2> SUFFICES ASSUME pa_sync_state' = "info_req" PROVE OfferKnown!2'
        BY DEF OfferKnown
    <2>1. past /\ UNCHANGED scan_cb_registered
        BY <1>4
    <2>2. ~crossed' => ~scan_cb_registered'
        BY <1>2, <2>1, Zenon
    <2>3. ~crossed' => ~pa_sync_timer' /\ ~scan_restart_work' /\ SyncsPending' = {}
        BY <1>1, <1>2, PendingIsBusy DEF SyncsPending
    <2> QED
        BY <1>1, <2>2, <2>3
<1> QED
    BY <1>6, <1>7, <1>8, <1>9, <1>10 DEF ScanInv

LEMMA GiveUpInv == ScanInv /\ GiveUpTransfer => ScanInv'
<1> SUFFICES ASSUME ScanInv, GiveUpTransfer PROVE ScanInv'
    OBVIOUS
<1>1. /\ pa_timer' = FALSE /\ pa_sync_state' \in {"no_past", "failed"}
      /\ UNCHANGED <<scan_cb_registered, scanning, srch_name, srch_brdcast_id, pa_sync, syncs,
                     pa_sync_timer, scan_restart_work, brcast_src_info, told_sync, asked,
                     wanted, crossed>>
    BY DEF GiveUpTransfer, searchVars, syncVars, ghostVars
<1>2. ScanFlags'
    BY <1>1, Zenon DEF ScanInv, ScanFlags
<1>3. ScanTables' /\ ToldOfSyncs' /\ PendingKnown' /\ OfferKnown'
    BY <1>1 DEF ScanInv, ScanTables, ToldOfSyncs, ToldAsSynced, PendingKnown, OfferKnown
<1> QED
    BY <1>2, <1>3 DEF ScanInv

LEMMA ScanKept == ScanInv /\ [ScanNext]_scanVars => ScanInv'
BY StartSearchInv, FoundInv, EstablishedInv, TransferredInv, SyncLostInv, TimeoutInv, RestartInv,
   SyncRequestInv, GiveUpInv, ScanUnchanged DEF ScanNext

LEMMA ScanInvType == ScanInv => ScanTypeOK
BY DEF ScanInv, ScanFlags, ScanTables, ScanTypeOK

\* However searches, time-outs, losses and the assistant's requests interleave, the application
\* believes in exactly the syncs that the host has; and the ID that pa_synced_cb() publishes,
\* which is written when the creation starts, is that of the source, unless requests crossed.
THEOREM SyncsToldRight == ScanSpec => [](ScanTypeOK /\ ToldOfSyncs)
<1>1. ScanInv => ScanTypeOK /\ ToldOfSyncs
    BY ScanInvType DEF ScanInv
<1> QED
    BY <1>1, ScanInitInv, ScanKept, PTL DEF ScanSpec
-----------------------------------------------------------------------------
(* UnicastClient: one slot for a headset, no stream without one, nothing told of  *)
(* streams that have ended.                                                       *)

\* The largest of the values of finitely many slots.
LEMMA BoundExists ==
    ASSUME NEW f \in [Slots -> Nat]
    PROVE  \E b \in Nat : \A j \in Slots : f[j] <= b
<1> DEFINE Bounded(n) == \E b \in Nat : \A j \in Slots : j <= n => f[j] <= b
           unbounded == {n \in 0 .. MAX_CONN : ~Bounded(n)}
<1>1. Slots = 1 .. MAX_CONN /\ MAX_CONN \in Nat
    BY UniAssumption DEF Slots
<1>2. Bounded(0)
    <2>1. \A j \in Slots : j <= 0 => f[j] <= 0
        BY <1>1
    <2> QED
        BY <2>1
<1>3. ASSUME NEW n \in 1 .. MAX_CONN, Bounded(n - 1)
      PROVE  Bounded(n)
    <2>1. PICK b \in Nat : \A j \in Slots : j <= n - 1 => f[j] <= b
        BY <1>3
    <2>2. n \in Slots /\ f[n] \in Nat
        BY <1>1
    <2>3. PICK c \in Nat : b <= c /\ f[n] <= c
        BY <2>2
    <2>4. ASSUME NEW j \in Slots, j <= n
          PROVE  f[j] <= c
        <3>1. j \in Nat /\ f[j] \in Nat
            BY <1>1
        <3>2. CASE j = n
            BY <2>3, <3>2
        <3>3. CASE j # n
            <4>1. j <= n - 1
                BY <1>1, <2>4, <3>1, <3>3
            <4>2. f[j] <= b
                BY <2>1, <4>1
            <4> QED
                BY <2>3, <3>1, <4>2
        <3> QED
            BY <3>2, <3>3
    <2> QED
        BY <2>4
<1> HIDE DEF Bounded
<1>4. CASE unbounded # {}
    <2>1. unbounded \in SUBSET Nat
        BY <1>1
    <2>2. PICK n \in unbounded : \A m \in unbounded : n <= m
        BY <1>4, <2>1, LeastExists
    <2>3. n \in 1 .. MAX_CONN
        BY <1>1, <1>2, <2>2
    <2>4. n - 1 \notin unbounded /\ n - 1 \in 0 .. MAX_CONN
        BY <1>1, <2>2, <2>3
    <2> QED
        BY <1>3, <2>2, <2>3, <2>4
<1>5. CASE unbounded = {}
    <2>1. Bounded(MAX_CONN)
        BY <1>1, <1>5
    <2> QED
        BY <1>1, <2>1 DEF Bounded
<1> QED
    BY <1>4, <1>5

LEMMA LargestExists ==
    ASSUME NEW f \in [Slots -> Nat], NEW K \in SUBSET Slots, K # {}
    PROVE  \E x \in K : \A y \in K : f[x] >= f[y]
<1> DEFINE above == {b \in Nat : \A j \in K : f[j] <= b}
<1>1. above # {} /\ above \in SUBSET Nat
    BY BoundExists
<1>2. PICK m \in above : \A a \in above : m <= a
    BY <1>1, LeastExists
<1>3. m \in Nat /\ \A j \in K : f[j] \in Nat /\ f[j] <= m
    BY <1>2
<1>4. ASSUME \A x \in K : f[x] # m
      PROVE  FALSE
    <2>1. \A j \in K : f[j] \in Nat /\ f[j] <= m - 1
        BY <1>3, <1>4
    <2>2. m - 1 \in Nat
        BY <1>3, <2>1
    <2>3. m - 1 \in above
        BY <2>1, <2>2
    <2> QED
        BY <1>2, <1>3, <2>3
<1> QED
    BY <1>3, <1>4

\* The loops over the slots meet as many as there are.
LEMMA NthSlotIn ==
    ASSUME NEW S \in SUBSET Slots, NEW n \in 1 .. Cardinality(S)
    PROVE  NthSlot(S, n) \in S
<1> DEFINE before(i) == {j \in S : j < i}
           f == [i \in S |-> Cardinality(before(i))]
           T == 0 .. (Cardinality(S) - 1)
<1>1. IsFiniteSet(S) /\ Cardinality(S) \in Nat
    <2>1. IsFiniteSet(Slots)
        BY FS_Interval, UniAssumption DEF Slots
    <2> QED
        BY <2>1, FS_Subset, FS_CardinalityType
<1>2. IsFiniteSet(T) /\ Cardinality(T) = Cardinality(S)
    <2>1. 0 \in Int /\ Cardinality(S) - 1 \in Int
        BY <1>1
    <2>2. /\ IsFiniteSet(T)
          /\ Cardinality(T) = IF 0 > Cardinality(S) - 1 THEN 0 ELSE (Cardinality(S) - 1) - 0 + 1
        BY <2>1, FS_Interval
    <2> QED
        BY <1>1, <2>2
<1>3. \A i \in S : i \in Int
    BY UniAssumption DEF Slots
<1>4. ASSUME NEW i \in S
      PROVE  IsFiniteSet(before(i)) /\ Cardinality(before(i)) \in Nat
    BY <1>1, FS_Subset, FS_CardinalityType
<1>5. ASSUME NEW i \in S
      PROVE  Cardinality(before(i)) \in T
    <2>1. before(i) \in SUBSET (S \ {i})
        BY <1>3
    <2>2. IsFiniteSet(S \ {i}) /\ Cardinality(S \ {i}) = Cardinality(S) - 1
        BY <1>1, FS_RemoveElement
    <2>3. Cardinality(before(i)) <= Cardinality(S) - 1
        BY <2>1, <2>2, FS_Subset
    <2> QED
        BY <1>1, <1>4, <2>3
<1>6. ASSUME NEW i \in S, NEW k \in S, i < k
      PROVE  Cardinality(before(i)) < Cardinality(before(k))
    <2>1. before(i) \cup {i} \in SUBSET before(k) /\ i \notin before(i)
        BY <1>3, <1>6
    <2>2. Cardinality(before(i) \cup {i}) = Cardinality(before(i)) + 1
        BY <1>4, <2>1, FS_AddElement
    <2>3. Cardinality(before(i) \cup {i}) <= Cardinality(before(k))
        BY <1>4, <2>1, FS_Subset
    <2>4. Cardinality(before(i)) \in Nat /\ Cardinality(before(k)) \in Nat
        BY <1>4
    <2> HIDE DEF before
    <2> QED
        BY <2>2, <2>3, <2>4
<1> HIDE DEF before
<1>7. f \in [S -> T] /\ \A i \in S : f[i] = Cardinality(before(i))
    BY <1>5
<1>8. \A i, k \in S : f[i] = f[k] => i = k
    <2> SUFFICES ASSUME NEW i \in S, NEW k \in S, f[i] = f[k], i # k PROVE FALSE
        OBVIOUS
    <2>1. i < k \/ k < i
        BY <1>3
    <2>2. /\ f[i] = Cardinality(before(i)) /\ f[k] = Cardinality(before(k))
          /\ Cardinality(before(i)) \in Nat /\ Cardinality(before(k)) \in Nat
        BY <1>4, <1>7
    <2> QED
        BY <1>6, <2>1, <2>2
<1> HIDE DEF f
<1>9. f \in Injection(S, T)
    BY <1>7, <1>8 DEF Injection, IsInjective
<1>10. f \in Surjection(S, T)
    BY <1>1, <1>2, <1>9, FS_Injection
<1>11. n - 1 \in T
    BY <1>1
<1>12. PICK i \in S : f[i] = n - 1
    BY <1>10, <1>11 DEF Surjection
<1>13. \E k \in S : Cardinality({j \in S : j < k}) = n - 1
    BY <1>7, <1>12 DEF before
<1> QED
    BY <1>13 DEF NthSlot

LEMMA FirstSlot ==
    ASSUME NEW S \in SUBSET Slots, S # {}
    PROVE  Min(S) \in S
<1>1. S \in SUBSET Nat
    BY UniAssumption DEF Slots
<1>2. \E i \in S : \A j \in S : i <= j
    BY <1>1, LeastExists
<1> QED
    BY <1>2 DEF Min

UniServers == servers \in [Slots -> [conn : Conns \cup {NoConn}, eps : SUBSET Dirs,
                                     waiting : SUBSET Dirs, qos_reconfigure : BOOLEAN, pd : Nat]]
UniQueue == cap_start_q \in Seq(Slots) /\ Len(cap_start_q) <= ISO_MAX_CHAN
UniFlags == cap_start_work \in BOOLEAN /\ playing_state \in BOOLEAN
UniHost == /\ ep_state \in [Streams -> {"idle", "configured", "qos", "streaming"}]
           /\ cap \in [op : {"none", "start", "stop"}, streams : SUBSET Streams]
           /\ link \in [Conns -> {"off", "on", "lost"}]
           /\ discovering \in [Conns -> Dirs \cup {"none"}]
UniRest == /\ temp_cap \subseteq Conns /\ group \subseteq Dirs /\ preset_pd \in Nat
           /\ told \in {"STREAMING", "NOT_STREAMING"}

OneSlot == \A i, j \in Slots :
  servers[i].conn = servers[j].conn /\ servers[i].conn # NoConn => i = j
EmptyWithout == \A i \in Slots : servers[i].conn = NoConn => servers[i].eps = {}
\* A stream that the host has configured, or is asked to start or stop, belongs to a slot
\* whose headset is linked.
OnLink == \A i \in Slots, d \in Dirs :
  ep_state[<<i, d>>] # "idle" \/ <<i, d>> \in cap.streams =>
    servers[i].conn # NoConn /\ link[servers[i].conn] = "on"

\* What HeadsetsAreStarted says of every state.
HeadsetsKept == OneSlotEach /\ ToldWhenSilent

UniTypes == UniServers /\ UniQueue /\ UniFlags /\ UniHost /\ UniRest
UniInv == UniTypes /\ OneSlot /\ EmptyWithout /\ OnLink /\ ToldWhenSilent

LEMMA UniInitInv == UniInit => UniInv
<1> SUFFICES ASSUME UniInit PROVE UniInv
    OBVIOUS
<1>1. UniServers
    BY DEF UniInit, UniServers, VacantSlots
<1>2. UniQueue
    <2>1. <<>> \in Seq(Slots) /\ Len(<<>>) = 0
        OBVIOUS
    <2> QED
        BY <2>1, UniAssumption DEF UniInit, UniQueue
<1>3. UniFlags
    BY Zenon DEF UniInit, UniFlags
<1>4. UniHost /\ UniRest
    BY DEF UniInit, UniHost, UniRest, NoProc
<1>5. \A i \in Slots, d \in Dirs : <<i, d>> \in Streams
    BY DEF Streams
<1>6. OneSlot /\ EmptyWithout /\ OnLink /\ ToldWhenSilent
    BY <1>5 DEF UniInit, OneSlot, EmptyWithout, OnLink, ToldWhenSilent, NoProc, VacantSlots
<1> QED
    BY <1>1, <1>2, <1>3, <1>4, <1>6 DEF UniInv, UniTypes

LEMMA UniUnchanged == UniInv /\ UNCHANGED uniVars => UniInv'
BY DEF UniInv, UniTypes, UniServers, UniQueue, UniFlags, UniHost, UniRest, OneSlot, EmptyWithout,
   OnLink, ToldWhenSilent, Streaming, uniVars, clientVars, aseVars

LEMMA UniInvType == UniInv => UniTypeOK
BY DEF UniInv, UniTypes, UniServers, UniQueue, UniFlags, UniHost, UniRest, UniTypeOK

LEMMA StreamOf ==
    ASSUME NEW s \in Streams
    PROVE  s = <<s[1], s[2]>> /\ s[1] \in Slots /\ s[2] \in Dirs
BY DEF Streams

\* What the invariant says of a stream.
LEMMA OnLinkOf ==
    ASSUME UniInv, NEW s \in Streams, ep_state[s] # "idle" \/ s \in cap.streams
    PROVE  servers[s[1]].conn \in Conns /\ link[servers[s[1]].conn] = "on"
<1>1. s = <<s[1], s[2]>> /\ s[1] \in Slots /\ s[2] \in Dirs
    BY StreamOf
<1> QED
    BY <1>1, Zenon DEF UniInv, UniTypes, UniServers, OnLink

LEMMA UniInvKeeps ==
    UniInv => HeadsetsKept
<1> SUFFICES ASSUME UniInv PROVE HeadsetsKept
    OBVIOUS
<1>1. ASSUME NEW c \in Conns
      PROVE  Cardinality(HeadsetSlots(c)) <= 1
    <2>1. CASE HeadsetSlots(c) = {}
        BY <2>1, FS_EmptySet
    <2>2. ASSUME NEW i \in HeadsetSlots(c)
          PROVE  Cardinality(HeadsetSlots(c)) = 1
        <3>1. \A j \in HeadsetSlots(c) : j = i
            BY UniAssumption DEF HeadsetSlots, UniInv, OneSlot
        <3>2. HeadsetSlots(c) = {i}
            BY <3>1
        <3> QED
            BY <3>2, FS_Singleton
    <2> QED
        BY <2>1, <2>2
<1>2. ASSUME NEW s \in Streaming(ep_state)
      PROVE  servers[s[1]].conn # NoConn
    BY OnLinkOf, UniAssumption DEF Streaming
<1> QED
    BY <1>1, <1>2 DEF HeadsetsKept, OneSlotEach, UniInv

\* Steps that give no slot away.
LEMMA ConnsKept ==
    ASSUME UniInv, \A i \in Slots : servers'[i].conn = servers[i].conn,
           \A i \in Slots : servers[i].conn = NoConn => servers'[i].eps = {}
    PROVE  OneSlot' /\ EmptyWithout'
BY DEF UniInv, OneSlot, EmptyWithout

\* Streams that a step configures or asks the host for have a linked headset already.
LEMMA OnLinkKept ==
    ASSUME UniInv, \A i \in Slots : servers'[i].conn = servers[i].conn, UNCHANGED link,
           \A s \in Streams : ep_state'[s] # "idle" \/ s \in cap'.streams =>
               \/ ep_state[s] # "idle" \/ s \in cap.streams
               \/ servers[s[1]].conn \in Conns /\ link[servers[s[1]].conn] = "on"
    PROVE  OnLink'
<1> SUFFICES ASSUME NEW i \in Slots, NEW d \in Dirs,
                    ep_state'[<<i, d>>] # "idle" \/ <<i, d>> \in cap'.streams
             PROVE  servers'[i].conn # NoConn /\ link'[servers'[i].conn] = "on"
    BY DEF OnLink
<1>1. <<i, d>> \in Streams
    BY DEF Streams
<1>2. servers[i].conn \in Conns /\ link[servers[i].conn] = "on"
    <2>1. CASE ep_state[<<i, d>>] # "idle" \/ <<i, d>> \in cap.streams
        BY <1>1, <2>1, OnLinkOf
    <2>2. CASE ~(ep_state[<<i, d>>] # "idle" \/ <<i, d>> \in cap.streams)
        BY <1>1, <2>2
    <2> QED
        BY <2>1, <2>2
<1> QED
    BY <1>2, UniAssumption

\* Steps that end no stream and tell nothing.
LEMMA ToldKept ==
    ASSUME UniInv, UNCHANGED told,
           \A s \in Streams : ep_state[s] = "streaming" => ep_state'[s] = "streaming"
    PROVE  ToldWhenSilent'
BY DEF UniInv, ToldWhenSilent, Streaming

LEMMA HeadsetSlotIn ==
    ASSUME UniInv, NEW c \in Conns \cup {NoConn}, HeadsetSlots(c) # {}
    PROVE  DeviceIndex(c) \in Slots /\ servers[DeviceIndex(c)].conn = c
<1>1. HeadsetSlots(c) \in SUBSET Slots
    BY DEF HeadsetSlots
<1>2. DeviceIndex(c) \in HeadsetSlots(c)
    BY <1>1, FirstSlot DEF DeviceIndex
<1> QED
    BY <1>2 DEF HeadsetSlots

LEMMA ConnectsInv == ASSUME UniInv, NEW c \in Conns, HeadsetConnects(c) PROVE UniInv'
<1>1. /\ link[c] = "off" /\ link' = [link EXCEPT ![c] = "on"]
      /\ UNCHANGED <<clientVars, discovering, ep_state, cap, told>>
    BY DEF HeadsetConnects
<1>2. UniTypes'
    BY <1>1 DEF UniInv, UniTypes, UniServers, UniQueue, UniFlags, UniHost, UniRest, clientVars
<1>3. OneSlot' /\ EmptyWithout' /\ ToldWhenSilent'
    BY <1>1 DEF UniInv, OneSlot, EmptyWithout, ToldWhenSilent, Streaming, clientVars
<1>4. OnLink'
    BY <1>1 DEF UniInv, UniTypes, UniHost, OnLink, clientVars
<1> QED
    BY <1>2, <1>3, <1>4 DEF UniInv

LEMMA UniDiscoverInv ==
    ASSUME UniInv, NEW c \in Conns, NEW dirs \in SUBSET Dirs, NEW ok \in BOOLEAN,
           NEW begun \in BOOLEAN, Discover(c, dirs, ok, begun)
    PROVE  UniInv'
<1> DEFINE i == DeviceIndex(NoConn)
           w == IF ok THEN servers[i].waiting \cup dirs ELSE servers[i].waiting
<1>1. HeadsetSlots(c) = {} /\ HeadsetSlots(NoConn) # {} /\ link[c] = "on" /\ dirs # {}
    BY DEF Discover, Accepts
<1>2. i \in Slots /\ servers[i].conn = NoConn
    BY <1>1, HeadsetSlotIn
<1>3. /\ servers' = [servers EXCEPT ![i].conn = c, ![i].waiting = IF ok THEN @ \cup dirs ELSE @]
      /\ discovering' = [discovering EXCEPT ![c] = IF ~ok \/ ~begun THEN "none"
                                                   ELSE IF "sink" \in dirs THEN "sink" ELSE "source"]
      /\ UNCHANGED <<temp_cap, cap_start_q, cap_start_work, group, playing_state, preset_pd, link,
                     ep_state, cap, told>>
    BY DEF Discover
<1> HIDE DEF i
<1>4. servers' = [j \in Slots |-> IF j = i THEN [servers[i] EXCEPT !.conn = c, !.waiting = w]
                                           ELSE servers[j]]
    BY <1>2, <1>3 DEF UniInv, UniTypes, UniServers
<1>5. /\ servers'[i].conn = c /\ servers'[i].eps = servers[i].eps
      /\ \A j \in Slots : j # i => servers'[j] = servers[j]
    BY <1>2, <1>4 DEF UniInv, UniTypes, UniServers
<1>6. UniServers'
    <2>1. w \in SUBSET Dirs
        BY <1>2 DEF UniInv, UniTypes, UniServers
    <2> HIDE DEF w
    <2> QED
        BY <1>2, <1>4, <2>1 DEF UniInv, UniTypes, UniServers
<1>7. UniQueue' /\ UniRest'
    BY <1>3 DEF UniInv, UniTypes, UniQueue, UniRest
<1>8. UniFlags'
    BY <1>3, Zenon DEF UniInv, UniTypes, UniFlags
<1>9. UniHost'
    BY <1>3 DEF UniInv, UniTypes, UniHost, Dirs
<1>10. OneSlot' /\ EmptyWithout'
    BY <1>1, <1>2, <1>5, UniAssumption DEF UniInv, OneSlot, EmptyWithout, HeadsetSlots
<1>11. OnLink'
    <2> SUFFICES ASSUME NEW j \in Slots, NEW d \in Dirs,
                        ep_state[<<j, d>>] # "idle" \/ <<j, d>> \in cap.streams
                 PROVE  servers'[j].conn # NoConn /\ link[servers'[j].conn] = "on"
        BY <1>3 DEF OnLink
    <2>1. servers[j].conn # NoConn /\ link[servers[j].conn] = "on"
        BY DEF UniInv, OnLink
    <2> QED
        BY <1>2, <1>5, <2>1
<1>12. ToldWhenSilent'
    BY <1>3, ToldKept
<1> QED
    BY <1>6, <1>7, <1>8, <1>9, <1>10, <1>11, <1>12 DEF UniInv, UniTypes

LEMMA RecordsInv == ASSUME UniInv, NEW c \in Conns, Records(c) PROVE UniInv'
<1> DEFINE i == DeviceIndex(c)
<1>1. /\ discovering[c] \in Endpoints[c]
      /\ temp_cap' = temp_cap \/ temp_cap' = temp_cap \cup {c}
      /\ UNCHANGED <<cap_start_q, cap_start_work, group, playing_state, preset_pd, link,
                     discovering, ep_state, cap, told>>
    BY DEF Records, aseVars
<1>2. discovering[c] \in Dirs
    BY <1>1, UniAssumption DEF Dirs
<1>3. UniServers' /\ (\A j \in Slots : servers'[j].conn = servers[j].conn)
      /\ (\A j \in Slots : servers[j].conn = NoConn => servers'[j].eps = {})
    <2>1. CASE HeadsetSlots(c) = {}
        BY <2>1 DEF Records, UniInv, UniTypes, UniServers, EmptyWithout
    <2>2. CASE HeadsetSlots(c) # {}
        <3>1. i \in Slots /\ servers[i].conn = c
            BY <2>2, HeadsetSlotIn
        <3>2. servers' = [servers EXCEPT ![i].eps = @ \cup {discovering[c]}]
            BY <2>2 DEF Records
        <3> DEFINE e == servers[i].eps \cup {discovering[c]}
        <3> HIDE DEF i
        <3>3. servers' = [j \in Slots |-> IF j = i THEN [servers[i] EXCEPT !.eps = e] ELSE servers[j]]
            BY <3>1, <3>2 DEF UniInv, UniTypes, UniServers
        <3>4. e \in SUBSET Dirs
            BY <1>2, <3>1 DEF UniInv, UniTypes, UniServers
        <3> HIDE DEF e
        <3>5. UniServers'
            BY <3>1, <3>3, <3>4 DEF UniInv, UniTypes, UniServers
        <3>6. \A j \in Slots : servers'[j].conn = servers[j].conn
            BY <3>1, <3>3 DEF UniInv, UniTypes, UniServers
        <3>7. \A j \in Slots : servers[j].conn = NoConn => servers'[j].eps = {}
            BY <3>1, <3>3, UniAssumption DEF UniInv, EmptyWithout
        <3> QED
            BY <3>5, <3>6, <3>7
    <2> QED
        BY <2>1, <2>2
<1>4. UniQueue' /\ UniHost' /\ UniRest'
    BY <1>1 DEF UniInv, UniTypes, UniQueue, UniHost, UniRest
<1>5. UniFlags'
    BY <1>1, Zenon DEF UniInv, UniTypes, UniFlags
<1>6. OneSlot' /\ EmptyWithout'
    BY <1>3, ConnsKept
<1>7. OnLink'
    BY <1>1, <1>3, OnLinkKept
<1>8. ToldWhenSilent'
    BY <1>1, ToldKept
<1> QED
    BY <1>3, <1>4, <1>5, <1>6, <1>7, <1>8 DEF UniInv, UniTypes

LEMMA PutStartQueue ==
    ASSUME UniInv, NEW i \in Slots, PutStart(i) \/ UNCHANGED <<cap_start_q, cap_start_work>>
    PROVE  UniQueue' /\ cap_start_work' \in BOOLEAN
<1>1. UniQueue'
    <2>1. CASE Len(cap_start_q) < ISO_MAX_CHAN /\ PutStart(i)
        <3>1. cap_start_q' = Append(cap_start_q, i)
            BY <2>1 DEF PutStart
        <3>2. cap_start_q \in Seq(Slots) /\ Len(cap_start_q) \in Nat
            BY LenProperties DEF UniInv, UniTypes, UniQueue
        <3>3. Append(cap_start_q, i) \in Seq(Slots) /\ Len(Append(cap_start_q, i)) = Len(cap_start_q) + 1
            BY <3>2, AppendProperties
        <3> QED
            BY <2>1, <3>1, <3>2, <3>3, UniAssumption DEF UniQueue
    <2>2. CASE ~(Len(cap_start_q) < ISO_MAX_CHAN /\ PutStart(i))
        <3>1. UNCHANGED cap_start_q
            BY <2>2 DEF PutStart
        <3> QED
            BY <3>1 DEF UniInv, UniTypes, UniQueue
    <2> QED
        BY <2>1, <2>2
<1>2. cap_start_work' \in BOOLEAN
    BY Zenon DEF PutStart, UniInv, UniTypes, UniFlags
<1> QED
    BY <1>1, <1>2

LEMMA DiscoveredInv ==
    ASSUME UniInv, NEW c \in Conns, NEW ok \in BOOLEAN, NEW valid \in BOOLEAN, NEW asked0 \in BOOLEAN,
           Discovered(c, ok, valid, asked0)
    PROVE  UniInv'
<1> DEFINE i == DeviceIndex(c)
           d == discovering[c]
           left == servers[i].waiting \ {d}
           e == IF valid THEN servers[i].eps ELSE servers[i].eps \ {d}
<1>1. UNCHANGED <<group, playing_state, preset_pd, link, ep_state, cap, told>>
    BY DEF Discovered
<1>2. \/ /\ discovering' = [discovering EXCEPT ![c] = "none"]
         /\ UNCHANGED <<servers, temp_cap, cap_start_q, cap_start_work>>
      \/ /\ HeadsetSlots(c) # {}
         /\ servers' = [servers EXCEPT ![i].waiting = left, ![i].eps = IF valid THEN @ ELSE @ \ {d}]
         /\ temp_cap' = temp_cap \ {c}
         /\ \/ discovering' = [discovering EXCEPT ![c] = "source"]
            \/ discovering' = [discovering EXCEPT ![c] = "none"]
         /\ PutStart(i) \/ UNCHANGED <<cap_start_q, cap_start_work>>
    <2>1. CASE HeadsetSlots(c) = {} \/ ~ok \/ (c \notin temp_cap /\ Cardinality(temp_cap) = ISO_MAX_CHAN)
        BY <2>1, Zenon DEF Discovered
    <2>2. CASE ~(HeadsetSlots(c) = {} \/ ~ok \/ (c \notin temp_cap /\ Cardinality(temp_cap) = ISO_MAX_CHAN))
        BY <2>2 DEF Discovered
    <2> QED
        BY <2>1, <2>2
<1>3. UniHost' /\ UniRest'
    BY <1>1, <1>2 DEF UniInv, UniTypes, UniHost, UniRest, Dirs
<1>4. /\ UniServers' /\ UniQueue' /\ cap_start_work' \in BOOLEAN
      /\ \A j \in Slots : servers'[j].conn = servers[j].conn
      /\ \A j \in Slots : servers[j].conn = NoConn => servers'[j].eps = {}
    <2>1. CASE UNCHANGED <<servers, cap_start_q, cap_start_work>>
        <3>1. cap_start_work' \in BOOLEAN
            BY <2>1, Zenon DEF UniInv, UniTypes, UniFlags
        <3> QED
            BY <2>1, <3>1 DEF UniInv, UniTypes, UniServers, UniQueue, EmptyWithout
    <2>2. CASE /\ HeadsetSlots(c) # {}
               /\ servers' = [servers EXCEPT ![i].waiting = left, ![i].eps = IF valid THEN @ ELSE @ \ {d}]
               /\ PutStart(i) \/ UNCHANGED <<cap_start_q, cap_start_work>>
        <3>1. i \in Slots /\ servers[i].conn = c
            BY <2>2, HeadsetSlotIn
        <3>2. UniQueue' /\ cap_start_work' \in BOOLEAN
            BY <2>2, <3>1, PutStartQueue
        <3>3. left \in SUBSET Dirs /\ e \in SUBSET Dirs
            BY <3>1 DEF UniInv, UniTypes, UniServers
        <3> HIDE DEF i, left
        <3>4. servers' = [j \in Slots |-> IF j = i THEN [servers[i] EXCEPT !.waiting = left, !.eps = e]
                                                   ELSE servers[j]]
            BY <2>2, <3>1 DEF UniInv, UniTypes, UniServers
        <3> HIDE DEF e
        <3>5. UniServers'
            BY <3>1, <3>3, <3>4 DEF UniInv, UniTypes, UniServers
        <3>6. \A j \in Slots : servers'[j].conn = servers[j].conn
            BY <3>1, <3>4 DEF UniInv, UniTypes, UniServers
        <3>7. \A j \in Slots : servers[j].conn = NoConn => servers'[j].eps = {}
            BY <3>1, <3>4, UniAssumption DEF UniInv, EmptyWithout
        <3> QED
            BY <3>2, <3>5, <3>6, <3>7
    <2> QED
        BY <1>2, <2>1, <2>2
<1>5. UniFlags'
    BY <1>1, <1>4, Zenon DEF UniInv, UniTypes, UniFlags
<1>6. OneSlot' /\ EmptyWithout'
    BY <1>4, ConnsKept
<1>7. OnLink'
    BY <1>1, <1>4, OnLinkKept
<1>8. ToldWhenSilent'
    BY <1>1, ToldKept
<1> QED
    BY <1>3, <1>4, <1>5, <1>6, <1>7, <1>8 DEF UniInv, UniTypes

LEMMA CapTypes ==
    ASSUME NEW op \in {"none", "start", "stop"}, NEW streams \in SUBSET Streams
    PROVE  [op |-> op, streams |-> streams] \in [op : {"none", "start", "stop"}, streams : SUBSET Streams]
OBVIOUS

\* What the host is asked to start belongs to headsets that are linked.
LEMMA HostStartsCap ==
    ASSUME UniInv, NEW streams \in SUBSET Streams, NEW ok \in BOOLEAN, HostStarts(streams, ok),
           \A s \in streams : s[2] \in servers[s[1]].eps
    PROVE  /\ cap' \in [op : {"none", "start", "stop"}, streams : SUBSET Streams]
           /\ \A s \in Streams : s \in cap'.streams =>
                 \/ s \in cap.streams
                 \/ servers[s[1]].conn \in Conns /\ link[servers[s[1]].conn] = "on"
<1>1. CASE UNCHANGED cap
    BY <1>1 DEF UniInv, UniTypes, UniHost
<1>2. CASE ~UNCHANGED cap
    <2>1. /\ cap' = [op |-> "start", streams |-> streams]
          /\ \A s \in streams : link[servers[s[1]].conn] = "on"
        BY <1>2 DEF HostStarts
    <2>2. cap' \in [op : {"none", "start", "stop"}, streams : SUBSET Streams]
        BY <2>1, CapTypes
    <2>3. ASSUME NEW s \in streams
          PROVE  servers[s[1]].conn \in Conns /\ link[servers[s[1]].conn] = "on"
        <3>1. s \in Streams /\ s[1] \in Slots
            BY StreamOf
        <3>2. servers[s[1]].eps # {} /\ servers[s[1]].conn \in Conns \cup {NoConn}
            BY <3>1 DEF UniInv, UniTypes, UniServers
        <3>3. servers[s[1]].conn # NoConn
            BY <3>1, <3>2 DEF UniInv, EmptyWithout
        <3> QED
            BY <2>1, <3>2, <3>3
    <2>4. cap'.streams = streams
        BY <2>1
    <2> QED
        BY <2>2, <2>3, <2>4
<1> QED
    BY <1>1, <1>2

LEMMA WorkerInv == ASSUME UniInv, NEW ok \in BOOLEAN, CapStartWorker(ok) PROVE UniInv'
<1>1. /\ cap_start_work' = FALSE
      /\ UNCHANGED <<servers, temp_cap, playing_state, preset_pd, link, discovering, ep_state, told>>
    BY DEF CapStartWorker
<1>2. cap_start_q \in Seq(Slots) /\ Len(cap_start_q) \in Nat /\ Len(cap_start_q) <= ISO_MAX_CHAN
    BY LenProperties DEF UniInv, UniTypes, UniQueue
<1>3. cap_start_q # <<>> => /\ Head(cap_start_q) \in Slots
                            /\ Tail(cap_start_q) \in Seq(Slots)
                            /\ Len(Tail(cap_start_q)) = Len(cap_start_q) - 1
    BY <1>2, HeadTailProperties
<1>4. CASE cap_start_q = <<>> \/ servers[Head(cap_start_q)].eps = {}
    <2>1. /\ cap_start_q' = IF cap_start_q = <<>> THEN <<>> ELSE Tail(cap_start_q)
          /\ UNCHANGED <<group, cap>>
        BY <1>4 DEF CapStartWorker
    <2>2. UniQueue'
        <3>1. CASE cap_start_q = <<>>
            BY <1>2, <2>1, <3>1 DEF UniQueue
        <3>2. CASE cap_start_q # <<>>
            BY <1>2, <1>3, <2>1, <3>2, UniAssumption DEF UniQueue
        <3> QED
            BY <3>1, <3>2
    <2>3. UniHost' /\ UniRest' /\ UniServers'
        BY <1>1, <2>1 DEF UniInv, UniTypes, UniHost, UniRest, UniServers
    <2>4. UniFlags'
        BY <1>1, Zenon DEF UniInv, UniTypes, UniFlags
    <2>5. OneSlot' /\ EmptyWithout' /\ OnLink' /\ ToldWhenSilent'
        BY <1>1, <2>1 DEF UniInv, OneSlot, EmptyWithout, OnLink, ToldWhenSilent, Streaming
    <2> QED
        BY <2>2, <2>3, <2>4, <2>5 DEF UniInv, UniTypes
<1>5. CASE cap_start_q # <<>> /\ servers[Head(cap_start_q)].eps # {}
    <2> DEFINE i == Head(cap_start_q)
    <2>1. i \in Slots
        BY <1>3, <1>5
    <2>2. /\ group' = IF group = {} THEN servers[i].eps ELSE group
          /\ cap_start_q' = IF cap.op # "none" THEN Append(Tail(cap_start_q), i)
                                               ELSE Tail(cap_start_q)
          /\ HostStarts(StreamsOf(i), ok)
        BY <1>5, Zenon DEF CapStartWorker, PutBack
    <2>3. UniQueue'
        <3>1. /\ Append(Tail(cap_start_q), i) \in Seq(Slots)
              /\ Len(Append(Tail(cap_start_q), i)) = Len(Tail(cap_start_q)) + 1
            BY <1>3, <1>5, AppendProperties
        <3> HIDE DEF i
        <3> QED
            BY <1>2, <1>3, <1>5, <2>2, <3>1, UniAssumption DEF UniQueue
    <2>4. /\ StreamsOf(i) \in SUBSET Streams
          /\ \A s \in StreamsOf(i) : s[2] \in servers[s[1]].eps
        BY <2>1 DEF StreamsOf, Streams, UniInv, UniTypes, UniServers
    <2>5. /\ cap' \in [op : {"none", "start", "stop"}, streams : SUBSET Streams]
          /\ \A s \in Streams : s \in cap'.streams =>
                \/ s \in cap.streams
                \/ servers[s[1]].conn \in Conns /\ link[servers[s[1]].conn] = "on"
        BY <2>2, <2>4, HostStartsCap
    <2>6. group' \subseteq Dirs
        BY <2>1, <2>2 DEF UniInv, UniTypes, UniServers, UniRest
    <2>7. UniHost' /\ UniRest' /\ UniServers'
        BY <1>1, <2>5, <2>6 DEF UniInv, UniTypes, UniHost, UniRest, UniServers
    <2>8. UniFlags'
        BY <1>1, Zenon DEF UniInv, UniTypes, UniFlags
    <2>9. OneSlot' /\ EmptyWithout' /\ ToldWhenSilent'
        BY <1>1 DEF UniInv, OneSlot, EmptyWithout, ToldWhenSilent, Streaming
    <2>10. OnLink'
        BY <1>1, <2>5, OnLinkKept
    <2> QED
        BY <2>3, <2>7, <2>8, <2>9, <2>10 DEF UniInv, UniTypes
<1> QED
    BY <1>4, <1>5

\* The delay that is found is one of a headset.
LEMMA PresDelayNat ==
    ASSUME UniInv, NEW i \in Slots, servers[i].conn \in Conns
    PROVE  PresDelay(i) \in Nat
<1> DEFINE K == {i} \cup {k \in Slots : QosConfigured(k)}
           f == [j \in Slots |-> IF servers[j].conn \in Conns THEN PrefPd[servers[j].conn] ELSE 0]
           T == {PrefPd[servers[j].conn] : j \in K}
<1>1. \A j \in K : servers[j].conn \in Conns
    <2> SUFFICES ASSUME NEW j \in Slots, QosConfigured(j) PROVE servers[j].conn \in Conns
        OBVIOUS
    <2>1. <<j, "sink">> \in Streams /\ ep_state[<<j, "sink">>] # "idle"
        BY DEF Streams, Dirs, QosConfigured
    <2>2. <<j, "sink">>[1] = j
        OBVIOUS
    <2> QED
        BY <2>1, <2>2, OnLinkOf
<1>2. K \in SUBSET Slots /\ i \in K
    OBVIOUS
<1> HIDE DEF K
<1>3. f \in [Slots -> Nat] /\ \A j \in K : f[j] = PrefPd[servers[j].conn]
    BY <1>1, <1>2, UniAssumption
<1> HIDE DEF f
<1>4. PICK x \in K : \A y \in K : f[x] >= f[y]
    BY <1>2, <1>3, LargestExists
<1>5. f[x] \in T /\ f[x] \in Nat /\ \A t \in T : t \in Nat /\ f[x] >= t
    BY <1>2, <1>3, <1>4
<1>6. Max(T) \in T
    BY <1>5 DEF Max
<1>7. Max(T) \in Nat
    BY <1>5, <1>6
<1> QED
    BY <1>7 DEF PresDelay, K

LEMMA ConfiguredInv == ASSUME UniInv, NEW s \in Streams, Configured(s) PROVE UniInv'
<1> DEFINE i == s[1]
           pd == PresDelay(i)
<1>1. /\ s \in cap.streams /\ ep_state' = [ep_state EXCEPT ![s] = "configured"]
      /\ UNCHANGED <<temp_cap, cap_start_q, cap_start_work, group, playing_state, link, discovering,
                     cap, told>>
    BY DEF Configured
<1>2. i \in Slots /\ servers[i].conn \in Conns
    BY <1>1, StreamOf, OnLinkOf
<1>3. pd \in Nat
    BY <1>2, PresDelayNat
<1> HIDE DEF pd
<1>4. \/ UNCHANGED <<preset_pd, servers>>
      \/ /\ preset_pd' = pd
         /\ servers' = [j \in Slots |-> IF j \notin Reconfigured(i, pd) THEN servers[j]
                                        ELSE [servers[j] EXCEPT !.qos_reconfigure = TRUE, !.pd = pd]]
    BY DEF Configured, pd
<1>5. preset_pd' \in Nat
    BY <1>3, <1>4 DEF UniInv, UniTypes, UniRest
<1>6. /\ UniServers' /\ \A j \in Slots : servers'[j].conn = servers[j].conn
      /\ \A j \in Slots : servers[j].conn = NoConn => servers'[j].eps = {}
    <2>1. CASE UNCHANGED servers
        BY <2>1 DEF UniInv, UniTypes, UniServers, EmptyWithout
    <2>2. CASE servers' = [j \in Slots |-> IF j \notin Reconfigured(i, pd) THEN servers[j]
                                  ELSE [servers[j] EXCEPT !.qos_reconfigure = TRUE, !.pd = pd]]
        <3>1. ASSUME NEW j \in Slots
              PROVE  /\ servers'[j] \in [conn : Conns \cup {NoConn}, eps : SUBSET Dirs,
                                         waiting : SUBSET Dirs, qos_reconfigure : BOOLEAN, pd : Nat]
                     /\ servers'[j].conn = servers[j].conn /\ servers'[j].eps = servers[j].eps
            BY <1>3, <2>2 DEF UniInv, UniTypes, UniServers
        <3>2. UniServers'
            BY <2>2, <3>1 DEF UniServers
        <3> QED
            BY <3>1, <3>2 DEF UniInv, EmptyWithout
    <2> QED
        BY <1>4, <2>1, <2>2
<1>7. UniQueue' /\ UniHost' /\ UniRest'
    BY <1>1, <1>5 DEF UniInv, UniTypes, UniQueue, UniHost, UniRest
<1>8. UniFlags'
    BY <1>1, Zenon DEF UniInv, UniTypes, UniFlags
<1>9. OneSlot' /\ EmptyWithout'
    BY <1>6, ConnsKept
<1>10. OnLink'
    BY <1>1, <1>6, OnLinkKept DEF UniInv, UniTypes, UniHost
<1>11. ToldWhenSilent'
    <2>1. ep_state[s] = "idle"
        BY DEF Configured
    <2> QED
        BY <1>1, <2>1, ToldKept DEF UniInv, UniTypes, UniHost
<1> QED
    BY <1>6, <1>7, <1>8, <1>9, <1>10, <1>11 DEF UniInv, UniTypes

LEMMA QosSetInv == ASSUME UniInv, NEW s \in Streams, QosSet(s) PROVE UniInv'
<1> DEFINE i == s[1]
<1>1. /\ s \in cap.streams /\ ep_state[s] = "configured" /\ ep_state' = [ep_state EXCEPT ![s] = "qos"]
      /\ UNCHANGED <<temp_cap, cap_start_q, cap_start_work, group, playing_state, link, discovering,
                     cap, told>>
    BY DEF QosSet
<1>2. i \in Slots
    BY StreamOf
<1>3. \/ UNCHANGED <<preset_pd, servers>>
      \/ /\ preset_pd' = servers[i].pd
         /\ servers' = [servers EXCEPT ![i].qos_reconfigure = FALSE]
    BY DEF QosSet
<1> HIDE DEF i
<1>4. preset_pd' \in Nat
    BY <1>2, <1>3 DEF UniInv, UniTypes, UniRest, UniServers
<1>5. /\ UniServers' /\ \A j \in Slots : servers'[j].conn = servers[j].conn
      /\ \A j \in Slots : servers[j].conn = NoConn => servers'[j].eps = {}
    <2>1. CASE UNCHANGED servers
        BY <2>1 DEF UniInv, UniTypes, UniServers, EmptyWithout
    <2>2. CASE servers' = [servers EXCEPT ![i].qos_reconfigure = FALSE]
        <3>1. servers' = [j \in Slots |-> IF j = i THEN [servers[i] EXCEPT !.qos_reconfigure = FALSE]
                                                   ELSE servers[j]]
            BY <1>2, <2>2 DEF UniInv, UniTypes, UniServers
        <3>2. UniServers'
            BY <1>2, <3>1 DEF UniInv, UniTypes, UniServers
        <3>3. \A j \in Slots : servers'[j].conn = servers[j].conn /\ servers'[j].eps = servers[j].eps
            BY <1>2, <3>1 DEF UniInv, UniTypes, UniServers
        <3> QED
            BY <3>2, <3>3 DEF UniInv, EmptyWithout
    <2> QED
        BY <1>3, <2>1, <2>2
<1>6. UniQueue' /\ UniHost' /\ UniRest'
    BY <1>1, <1>4 DEF UniInv, UniTypes, UniQueue, UniHost, UniRest
<1>7. UniFlags'
    BY <1>1, Zenon DEF UniInv, UniTypes, UniFlags
<1>8. OneSlot' /\ EmptyWithout'
    BY <1>5, ConnsKept
<1>9. OnLink'
    BY <1>1, <1>5, OnLinkKept DEF UniInv, UniTypes, UniHost
<1>10. ToldWhenSilent'
    BY <1>1, ToldKept DEF UniInv, UniTypes, UniHost
<1> QED
    BY <1>5, <1>6, <1>7, <1>8, <1>9, <1>10 DEF UniInv, UniTypes

LEMMA StartPendingFlag == UniInv /\ StartPending => cap_start_work' \in BOOLEAN
BY Zenon DEF StartPending

LEMMA StartedInv == ASSUME UniInv, NEW s \in Streams, Started(s) PROVE UniInv'
<1>1. /\ s \in cap.streams /\ ep_state' = [ep_state EXCEPT ![s] = "streaming"] /\ told' = "STREAMING"
      /\ UNCHANGED <<servers, temp_cap, cap_start_q, group, playing_state, preset_pd, link, discovering>>
    BY DEF Started
<1>2. \/ cap' = NoProc /\ StartPending
      \/ UNCHANGED <<cap, cap_start_work>>
    BY DEF Started
<1>3. UniServers' /\ UniQueue' /\ UniRest'
    BY <1>1 DEF UniInv, UniTypes, UniServers, UniQueue, UniRest
<1>4. cap' \in [op : {"none", "start", "stop"}, streams : SUBSET Streams] /\ cap'.streams \in SUBSET cap.streams
    BY <1>2 DEF NoProc, UniInv, UniTypes, UniHost
<1>5. UniHost'
    BY <1>1, <1>4 DEF UniInv, UniTypes, UniHost
<1>6. UniFlags'
    <2>1. cap_start_work' \in BOOLEAN
        BY <1>2, StartPendingFlag, Zenon DEF UniInv, UniTypes, UniFlags
    <2> QED
        BY <1>1, <2>1, Zenon DEF UniInv, UniTypes, UniFlags
<1>7. OneSlot' /\ EmptyWithout'
    BY <1>1 DEF UniInv, OneSlot, EmptyWithout
<1>8. OnLink'
    BY <1>1, <1>4, OnLinkKept DEF UniInv, UniTypes, UniHost
<1>9. ToldWhenSilent'
    <2>1. s \in Streaming(ep_state')
        BY <1>1 DEF Streaming, UniInv, UniTypes, UniHost
    <2> QED
        BY <2>1 DEF ToldWhenSilent
<1> QED
    BY <1>3, <1>5, <1>6, <1>7, <1>8, <1>9 DEF UniInv, UniTypes

\* What is told when a stream ends is right in itself.
LEMMA SilencedTold == Silenced => ToldWhenSilent'
BY DEF Silenced, ToldWhenSilent

\* The slots that are configured again fit into the room that the queue has.
LEMMA AgainQueue ==
    ASSUME UniInv, NEW again \in SUBSET Slots,
           cap_start_q' = cap_start_q \o [n \in 1 .. Min({ISO_MAX_CHAN - Len(cap_start_q), Cardinality(again)})
                                          |-> NthSlot(again, n)]
    PROVE  UniQueue'
<1> DEFINE room == ISO_MAX_CHAN - Len(cap_start_q)
           m == Min({room, Cardinality(again)})
           q == [n \in 1 .. m |-> NthSlot(again, n)]
<1>1. cap_start_q \in Seq(Slots) /\ Len(cap_start_q) \in Nat /\ room \in Nat
    BY LenProperties, UniAssumption DEF UniInv, UniTypes, UniQueue
<1>2. Cardinality(again) \in Nat
    <2>1. IsFiniteSet(Slots)
        BY FS_Interval, UniAssumption DEF Slots
    <2> QED
        BY <2>1, FS_Subset, FS_CardinalityType
<1>3. m \in Nat /\ m <= room /\ m <= Cardinality(again)
    <2> HIDE DEF room
    <2>1. \E x \in {room, Cardinality(again)} : \A y \in {room, Cardinality(again)} : x =< y
        BY <1>1, <1>2
    <2>2. /\ m \in {room, Cardinality(again)}
          /\ \A y \in {room, Cardinality(again)} : m =< y
        BY <2>1 DEF Min
    <2> QED
        BY <1>1, <1>2, <2>2
<1> HIDE DEF m
<1>4. q \in Seq(Slots) /\ Len(q) = m
    <2>1. \A n \in 1 .. m : NthSlot(again, n) \in Slots
        BY <1>2, <1>3, NthSlotIn
    <2>2. q \in [1 .. m -> Slots]
        BY <2>1
    <2> HIDE DEF q
    <2>3. q \in Seq(Slots)
        BY <1>3, <2>2
    <2>4. Len(q) = m
        BY <1>3, <2>2, <2>3, LenProperties
    <2> QED
        BY <2>3, <2>4
<1>5. cap_start_q' = cap_start_q \o q
    BY DEF m
<1> HIDE DEF q
<1>6. cap_start_q \o q \in Seq(Slots) /\ Len(cap_start_q \o q) = Len(cap_start_q) + Len(q)
    BY <1>1, <1>4, ConcatProperties
<1>7. Len(cap_start_q) + m <= ISO_MAX_CHAN
    BY <1>1, <1>3, UniAssumption
<1>8. cap_start_q' \in Seq(Slots) /\ Len(cap_start_q') = Len(cap_start_q) + m
    BY <1>4, <1>5, <1>6
<1> QED
    BY <1>7, <1>8 DEF UniQueue

LEMMA StoppedInv == ASSUME UniInv, NEW s \in Streams, Stopped(s) PROVE UniInv'
<1> DEFINE again == {i \in Slots : servers[i].qos_reconfigure /\ playing_state}
<1>1. /\ ep_state' = [ep_state EXCEPT ![s] = "idle"] /\ Silenced
      /\ UNCHANGED <<servers, temp_cap, group, playing_state, preset_pd, link, discovering>>
    BY DEF Stopped
<1>2. cap' = NoProc \/ cap' = [cap EXCEPT !.streams = @ \ {s}]
    BY DEF Stopped
<1>3. \/ UNCHANGED <<cap_start_q, cap_start_work>>
      \/ /\ cap_start_q' = cap_start_q \o [n \in 1 .. Min({ISO_MAX_CHAN - Len(cap_start_q), Cardinality(again)})
                                           |-> NthSlot(again, n)]
         /\ cap_start_work' = (cap_start_work \/ again # {})
    BY Zenon DEF Stopped
<1>4. UniQueue'
    <2>1. CASE UNCHANGED cap_start_q
        BY <2>1 DEF UniInv, UniTypes, UniQueue
    <2> HIDE DEF again
    <2>2. again \in SUBSET Slots
        BY DEF again
    <2> QED
        BY <1>3, <2>1, <2>2, AgainQueue
<1>5. UniFlags'
    <2>1. cap_start_work' \in BOOLEAN
        BY <1>3, Zenon DEF UniInv, UniTypes, UniFlags
    <2> QED
        BY <1>1, <2>1, Zenon DEF UniInv, UniTypes, UniFlags
<1>6. /\ cap' \in [op : {"none", "start", "stop"}, streams : SUBSET Streams]
      /\ cap'.streams \in SUBSET cap.streams
    BY <1>2 DEF NoProc, UniInv, UniTypes, UniHost
<1>7. UniServers' /\ UniHost'
    BY <1>1, <1>6 DEF UniInv, UniTypes, UniServers, UniHost
<1>8. UniRest'
    BY <1>1 DEF UniInv, UniTypes, UniRest, Silenced
<1>9. OneSlot' /\ EmptyWithout'
    BY <1>1 DEF UniInv, OneSlot, EmptyWithout
<1>10. OnLink'
    BY <1>1, <1>6, OnLinkKept DEF UniInv, UniTypes, UniHost
<1>11. ToldWhenSilent'
    BY <1>1, SilencedTold
<1> QED
    BY <1>4, <1>5, <1>7, <1>8, <1>9, <1>10, <1>11 DEF UniInv, UniTypes

LEMMA StartAllInv == ASSUME UniInv, NEW ok \in BOOLEAN, StartAll(ok) PROVE UniInv'
<1> DEFINE streams == {s \in Streams : /\ s[2] \in servers[s[1]].eps /\ "sink" \in servers[s[1]].eps
                                       /\ ep_state[s] = "idle"}
<1>1. /\ HostStarts(streams, ok) /\ (playing_state' = (playing_state \/ cap' # cap))
      /\ UNCHANGED <<servers, temp_cap, cap_start_q, cap_start_work, group, preset_pd, link,
                     discovering, ep_state, told>>
    BY DEF StartAll
<1>2. streams \in SUBSET Streams /\ \A s \in streams : s[2] \in servers[s[1]].eps
    OBVIOUS
<1> HIDE DEF streams
<1>3. /\ cap' \in [op : {"none", "start", "stop"}, streams : SUBSET Streams]
      /\ \A s \in Streams : s \in cap'.streams =>
            \/ s \in cap.streams
            \/ servers[s[1]].conn \in Conns /\ link[servers[s[1]].conn] = "on"
    BY <1>1, <1>2, HostStartsCap
<1>4. UniServers' /\ UniQueue' /\ UniHost' /\ UniRest'
    BY <1>1, <1>3 DEF UniInv, UniTypes, UniServers, UniQueue, UniHost, UniRest
<1>5. UniFlags'
    <2>1. playing_state' \in BOOLEAN
        BY <1>1, Zenon
    <2> QED
        BY <1>1, <2>1, Zenon DEF UniInv, UniTypes, UniFlags
<1>6. OneSlot' /\ EmptyWithout' /\ ToldWhenSilent'
    BY <1>1 DEF UniInv, OneSlot, EmptyWithout, ToldWhenSilent, Streaming
<1>7. OnLink'
    BY <1>1, <1>3, OnLinkKept
<1> QED
    BY <1>4, <1>5, <1>6, <1>7 DEF UniInv, UniTypes

LEMMA StopAllInv == ASSUME UniInv, NEW ok \in BOOLEAN, StopAll(ok) PROVE UniInv'
<1> DEFINE streams == {s \in Streaming(ep_state) : s[2] \in servers[s[1]].eps}
           stops == streams # {} /\ cap.op = "none" /\ ok
<1>1. /\ told' = "NOT_STREAMING" /\ (playing_state' = (playing_state /\ ~stops))
      /\ UNCHANGED <<servers, temp_cap, cap_start_q, cap_start_work, group, preset_pd, link,
                     discovering, ep_state>>
    BY DEF StopAll
<1>2. cap' = [op |-> "stop", streams |-> streams] \/ UNCHANGED cap
    BY DEF StopAll
<1>3. streams \in SUBSET Streams /\ \A s \in streams : ep_state[s] # "idle"
    BY DEF Streaming
<1>4. UniFlags'
    <2>1. playing_state' \in BOOLEAN
        BY <1>1, Zenon
    <2> QED
        BY <1>1, <2>1, Zenon DEF UniInv, UniTypes, UniFlags
<1> HIDE DEF streams, stops
<1>5. /\ cap' \in [op : {"none", "start", "stop"}, streams : SUBSET Streams]
      /\ \A s \in Streams : s \in cap'.streams => s \in cap.streams \/ ep_state[s] # "idle"
    <2>1. CASE cap' = [op |-> "stop", streams |-> streams]
        BY <1>3, <2>1, CapTypes
    <2>2. CASE UNCHANGED cap
        BY <2>2 DEF UniInv, UniTypes, UniHost
    <2> QED
        BY <1>2, <2>1, <2>2
<1>6. UniServers' /\ UniQueue' /\ UniHost' /\ UniRest'
    BY <1>1, <1>5 DEF UniInv, UniTypes, UniServers, UniQueue, UniHost, UniRest
<1>7. OneSlot' /\ EmptyWithout' /\ ToldWhenSilent'
    BY <1>1 DEF UniInv, OneSlot, EmptyWithout, ToldWhenSilent
<1>8. OnLink'
    BY <1>1, <1>5, OnLinkKept
<1> QED
    BY <1>4, <1>6, <1>7, <1>8 DEF UniInv, UniTypes

LEMMA LostInv == ASSUME UniInv, NEW c \in Conns, Lost(c) PROVE UniInv'
<1> DEFINE gone == {s \in Streams : servers[s[1]].conn = c}
           rest == cap.streams \ gone
<1>1. /\ link[c] = "on"
      /\ link' = [link EXCEPT ![c] = "lost"] /\ discovering' = [discovering EXCEPT ![c] = "none"]
      /\ ep_state' = [s \in Streams |-> IF s \in gone THEN "idle" ELSE ep_state[s]]
      /\ IF \E s \in gone : ep_state[s] = "streaming" THEN Silenced ELSE UNCHANGED told
      /\ UNCHANGED <<servers, temp_cap, cap_start_q, group, playing_state, preset_pd>>
    BY Zenon DEF Lost
<1>2. /\ cap' = NoProc \/ cap' = [cap EXCEPT !.streams = rest]
      /\ StartPending \/ UNCHANGED cap_start_work
    BY Zenon DEF Lost
<1>3. /\ cap' \in [op : {"none", "start", "stop"}, streams : SUBSET Streams]
      /\ cap'.streams \in SUBSET rest
    BY <1>2 DEF NoProc, UniInv, UniTypes, UniHost
<1>4. UniServers' /\ UniQueue' /\ UniHost'
    BY <1>1, <1>3 DEF UniInv, UniTypes, UniServers, UniQueue, UniHost
<1>5. UniRest'
    BY <1>1 DEF UniInv, UniTypes, UniRest, Silenced
<1>6. UniFlags'
    <2>1. cap_start_work' \in BOOLEAN
        BY <1>2, StartPendingFlag, Zenon DEF UniInv, UniTypes, UniFlags
    <2> QED
        BY <1>1, <2>1, Zenon DEF UniInv, UniTypes, UniFlags
<1>7. OneSlot' /\ EmptyWithout'
    BY <1>1 DEF UniInv, OneSlot, EmptyWithout
<1>8. OnLink'
    <2> SUFFICES ASSUME NEW i \in Slots, NEW d \in Dirs,
                        ep_state'[<<i, d>>] # "idle" \/ <<i, d>> \in cap'.streams
                 PROVE  servers'[i].conn # NoConn /\ link'[servers'[i].conn] = "on"
        BY DEF OnLink
    <2>1. <<i, d>> \in Streams /\ <<i, d>>[1] = i
        BY DEF Streams
    <2>2. /\ <<i, d>> \notin gone
          /\ ep_state[<<i, d>>] # "idle" \/ <<i, d>> \in cap.streams
        BY <1>1, <1>3, <2>1
    <2>3. servers[i].conn \in Conns /\ link[servers[i].conn] = "on"
        BY <2>1, <2>2, OnLinkOf
    <2>4. servers[i].conn # c
        BY <2>1, <2>2
    <2> QED
        BY <1>1, <2>3, <2>4, UniAssumption DEF UniInv, UniTypes, UniHost
<1>9. ToldWhenSilent'
    <2>1. CASE \E s \in gone : ep_state[s] = "streaming"
        BY <1>1, <2>1, SilencedTold
    <2>2. CASE ~\E s \in gone : ep_state[s] = "streaming"
        BY <1>1, <2>2, ToldKept
    <2> QED
        BY <2>1, <2>2
<1> QED
    BY <1>4, <1>5, <1>6, <1>7, <1>8, <1>9 DEF UniInv, UniTypes

LEMMA LostHandledInv == ASSUME UniInv, NEW c \in Conns, LostHandled(c) PROVE UniInv'
<1>1. /\ link[c] = "lost" /\ link' = [link EXCEPT ![c] = "off"]
      /\ servers' = [i \in Slots |-> IF servers[i].conn # c THEN servers[i]
                                     ELSE [servers[i] EXCEPT !.conn = NoConn, !.eps = {}]]
      /\ UNCHANGED <<temp_cap, cap_start_q, cap_start_work, group, playing_state, preset_pd,
                     discovering, ep_state, cap, told>>
    BY DEF LostHandled
<1>2. ASSUME NEW i \in Slots
      PROVE  /\ servers'[i] \in [conn : Conns \cup {NoConn}, eps : SUBSET Dirs,
                                 waiting : SUBSET Dirs, qos_reconfigure : BOOLEAN, pd : Nat]
             /\ servers[i].conn # c => servers'[i] = servers[i]
             /\ servers[i].conn = c => servers'[i].conn = NoConn /\ servers'[i].eps = {}
    BY <1>1 DEF UniInv, UniTypes, UniServers
<1>3. UniServers'
    BY <1>1, <1>2 DEF UniServers
<1>4. UniQueue' /\ UniHost' /\ UniRest'
    BY <1>1 DEF UniInv, UniTypes, UniQueue, UniHost, UniRest
<1>5. UniFlags'
    BY <1>1, Zenon DEF UniInv, UniTypes, UniFlags
<1>6. OneSlot' /\ EmptyWithout'
    BY <1>2 DEF UniInv, OneSlot, EmptyWithout
<1>7. OnLink'
    <2> SUFFICES ASSUME NEW i \in Slots, NEW d \in Dirs,
                        ep_state[<<i, d>>] # "idle" \/ <<i, d>> \in cap.streams
                 PROVE  servers'[i].conn # NoConn /\ link'[servers'[i].conn] = "on"
        BY <1>1 DEF OnLink
    <2>1. <<i, d>> \in Streams /\ <<i, d>>[1] = i
        BY DEF Streams
    <2>2. servers[i].conn \in Conns /\ link[servers[i].conn] = "on"
        BY <2>1, OnLinkOf
    <2>3. servers[i].conn # c
        BY <1>1, <2>2
    <2> QED
        BY <1>1, <1>2, <2>2, <2>3, UniAssumption DEF UniInv, UniTypes, UniHost
<1>8. ToldWhenSilent'
    BY <1>1, ToldKept
<1> QED
    BY <1>3, <1>4, <1>5, <1>6, <1>7, <1>8 DEF UniInv, UniTypes

LEMMA UniKept == UniInv /\ [UniNext]_uniVars => UniInv'
<1> SUFFICES ASSUME UniInv, [UniNext]_uniVars PROVE UniInv'
    OBVIOUS
<1>1. CASE HostStep
    BY <1>1, RecordsInv, DiscoveredInv, ConfiguredInv, QosSetInv, StartedInv, StoppedInv DEF HostStep
<1>2. ASSUME NEW c \in Conns, NEW ok \in BOOLEAN, NEW valid \in BOOLEAN, NEW a \in BOOLEAN,
             Discovered(c, ok, valid, a)
      PROVE  UniInv'
    BY <1>2, DiscoveredInv
<1>3. CASE ~HostStep /\ UniNext
    BY <1>2, <1>3, ConnectsInv, LostInv, LostHandledInv, UniDiscoverInv, WorkerInv, StartAllInv,
       StopAllInv DEF UniNext
<1> QED
    BY <1>1, <1>3, UniUnchanged

\* A headset has one slot of unicast_servers, no stream of a slot outlives its connection, and
\* the application is told when the last stream ends: whatever discoveries, procedures of the
\* host and lost links overlap, for any number of headsets and any length of the start queue.
THEOREM HeadsetsAlwaysKept == UniSpec => [](UniTypeOK /\ HeadsetsKept)
<1>1. UniInv => UniTypeOK /\ HeadsetsKept
    BY UniInvType, UniInvKeeps
<1> QED
    BY <1>1, UniInitInv, UniKept, PTL DEF UniSpec
-----------------------------------------------------------------------------
(* The parts together, as MCBluetoothParts runs them.                              *)

PartsInv == AdvInv /\ ScanInv /\ LinkInv /\ BondTypes /\ UniInv /\ ServerInv /\ VolInv

LEMMA PartsStep == PartsInv /\ [PartsNext]_partsVars => PartsInv'
<1> SUFFICES ASSUME PartsInv, [PartsNext]_partsVars PROVE PartsInv'
    OBVIOUS
<1>1. CASE PartsNext
    <2>1. /\ AdvNext \/ UNCHANGED advVars
          /\ ScanNext \/ UNCHANGED scanVars
          /\ ConnScanNext \/ UNCHANGED connScanVars
          /\ UniNext \/ UNCHANGED uniVars
          /\ ServerNext \/ UNCHANGED serverVars
          /\ VolNext \/ UNCHANGED volVars
        BY <1>1 DEF PartsNext, Runs
    <2> QED
        BY <2>1, AdvStep, ScanKept, LinkStep, BondKept, UniKept, ServerStep, VolKept DEF PartsInv
<1>2. CASE UNCHANGED partsVars
    <2>1. UNCHANGED <<advVars, scanVars, connScanVars, uniVars, serverVars, volVars>>
        BY <1>2 DEF partsVars
    <2> QED
        BY <2>1, AdvStep, ScanKept, LinkStep, BondKept, UniKept, ServerStep, VolKept DEF PartsInv
<1> QED
    BY <1>1, <1>2

LEMMA PartsInvariant == PartsSpec => []PartsInv
<1>1. PartsInit => PartsInv
    BY AdvInitInv, ScanInitInv, LinkInit, BondInit, UniInitInv, ServerInitInv, VolInitInv
    DEF PartsInit, PartsInv
<1> QED
    BY <1>1, PartsStep, PTL DEF PartsSpec

\* The tables, queues and flags of the Bluetooth side keep their types and sizes: the start
\* queue of unicast_client.c and the bonds that a scan counts among them.
THEOREM BluetoothTypesCorrect == PartsSpec => []BluetoothTypesOK
<1>1. PartsInv => BluetoothTypesOK
    BY ScanInvType, UniInvType, VolInvType
    DEF PartsInv, BluetoothTypesOK, AdvInv, LinkInv, LinkTypes, BondTypes, ScanRecord, ConnScanTypeOK,
        ServerInv
<1> QED
    BY <1>1, PartsInvariant, PTL
=============================================================================
