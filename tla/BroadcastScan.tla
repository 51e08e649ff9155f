---------------------------- MODULE BroadcastScan ----------------------------
(* bt_mgmt_scan.c and bt_mgmt_scan_for_broadcast.c: searching a broadcaster by  *)
(* name or by ID, synchronising to its periodic advertising with a timeout, and *)
(* the requests of a Broadcast Assistant (the scan delegator).                 *)
(*                                                                             *)
(* Callbacks of the host run in the Bluetooth receive thread, the timer in an   *)
(* interrupt and the restart in the system work queue.                         *)
EXTENDS Naturals, FiniteSets

CONSTANTS Sources,          \* broadcasters in range; a source stands for its ID
          NameOf,           \* name of each source
          Syncs,            \* the host's pool of sync objects
          NotUsed,          \* BRDCAST_ID_NOT_USED; also "no name", "no object", "no source"
          MaxStarts,        \* bound: calls of bt_mgmt_scan_start() by the application
          MaxRequests,      \* bound: requests of the assistant
          MaxLosses         \* bound: syncs lost, creations that time out, host errors
ASSUME ScanAssumption == NotUsed \notin Sources

ScanNames == {NameOf[s] : s \in Sources}
Id == Sources \cup {NotUsed}

VARIABLES scan_cb_registered, scanning,
          srch_name, srch_brdcast_id,
          pa_sync,          \* the object bt_le_per_adv_sync_create() returned last
          syncs,            \* host: state and source of each object
          pa_sync_timer, scan_restart_work,
          brcast_src_info,  \* the ID that will be published
          asked,            \* the source of the assistant's receive state
          pa_sync_state,    \* the state the receive state shows the assistant
          pa_timer,         \* the delayed work that gives up on a transfer (PAST)
          told_sync,        \* the application's view: what PA_SYNCED said of each object
          wanted,           \* the application or the assistant waits for a sync
          crossed,          \* something has crossed the search that the code does not expect
          starts, requests, losses
searchVars == <<scan_cb_registered, scanning, srch_name, srch_brdcast_id>>
syncVars == <<pa_sync, syncs, pa_sync_timer, scan_restart_work, brcast_src_info, told_sync>>
delegatorVars == <<asked, pa_sync_state, pa_timer>>
ghostVars == <<wanted, crossed>>
boundVars == <<starts, requests, losses>>
scanVars == <<searchVars, syncVars, delegatorVars, ghostVars, boundVars>>

Unused == [state |-> "free", source |-> NotUsed]
SyncsPending == {y \in Syncs : syncs[y].state = "pending"}
PaSynced == {y \in Syncs : syncs[y].state = "synced"}

ScanInit ==
  /\ scan_cb_registered = FALSE /\ scanning = FALSE
  /\ srch_name = NotUsed /\ srch_brdcast_id = NotUsed
  /\ pa_sync = NotUsed /\ syncs = [y \in Syncs |-> Unused]
  /\ pa_sync_timer = FALSE /\ scan_restart_work = FALSE /\ brcast_src_info = NotUsed
  /\ asked = NotUsed /\ pa_sync_state = "none" /\ pa_timer = FALSE
  /\ told_sync = [y \in Syncs |-> NotUsed] /\ wanted = FALSE /\ crossed = FALSE
  /\ starts = 0 /\ requests = 0 /\ losses = 0

Loses(lost) == /\ ~lost \/ losses < MaxLosses
               /\ losses' = losses + (IF lost THEN 1 ELSE 0)
-----------------------------------------------------------------------------
(* bt_mgmt_scan_start() and bt_mgmt_scan_for_broadcast_start(). The name is a   *)
(* static buffer, so that a search that is registered and gives no ID counts as *)
(* under way.                                                                  *)
AlreadySearching(id) == scan_cb_registered /\ srch_name # NotUsed /\ id = NotUsed

Search(name, id, ok) ==
  /\ srch_name' = IF name = NotUsed THEN srch_name ELSE name
  /\ IF AlreadySearching(id)
     THEN UNCHANGED <<scan_cb_registered, srch_brdcast_id, scanning>>
     ELSE /\ scan_cb_registered' = TRUE
          /\ srch_brdcast_id' = IF id = NotUsed THEN srch_brdcast_id ELSE id
          /\ scanning' = ok

\* Mutant: the search after a time-out is only registered.
SearchAgainLater(ok) == scan_cb_registered' = TRUE /\ UNCHANGED scanning

\* The search of scan_restart_worker(), by the name or the ID that is set.
SearchAgain(ok) == IF AlreadySearching(NotUsed)
                   THEN scanning' = FALSE /\ UNCHANGED scan_cb_registered
                   ELSE scanning' = ok /\ scan_cb_registered' = TRUE

\* Ghost: a search that meets one that is not over.
Busy == \/ SyncsPending # {} \/ pa_sync_timer \/ scan_restart_work
        \/ pa_sync_state = "info_req"

StartSearch(name, id, ok) ==
  /\ starts < MaxStarts /\ starts' = starts + 1
  /\ name # NotUsed \/ srch_name # NotUsed
  /\ Loses(~ok) /\ Search(name, id, ok)
  /\ wanted' = TRUE /\ crossed' = (crossed \/ ~ok \/ Busy)
  /\ UNCHANGED <<syncVars, delegatorVars, requests>>
-----------------------------------------------------------------------------
(* bt_le_per_adv_sync_delete(): an established sync is terminated and reported, *)
(* a pending creation is cancelled, anything else is an error.                 *)
Deleted(y) == IF y \in Syncs THEN [syncs EXCEPT ![y] = Unused] ELSE syncs
\* Mutants: the loss is not reported; a loss reports another source.
UntoldKept(y) == told_sync
UntoldOther(y) == IF y \in Syncs THEN [told_sync EXCEPT ![y] = pa_sync] ELSE told_sync
Untold(y) == IF y \in Syncs THEN [told_sync EXCEPT ![y] = NotUsed] ELSE told_sync

Matches(s) == IF srch_brdcast_id # NotUsed THEN s = srch_brdcast_id
              ELSE NameOf[s] = srch_name

(* scan_recv_cb() and periodic_adv_sync(): the host creates one sync at a time. *)
Found(s) ==
  LET free == {y \in Syncs : syncs[y].state = "free"}
  IN /\ scanning /\ scan_cb_registered /\ Matches(s)
     /\ scan_cb_registered' = FALSE /\ pa_sync_timer' = TRUE
     /\ IF SyncsPending = {} /\ free # {}
        THEN \E y \in free : /\ syncs' = [syncs EXCEPT ![y] = [state |-> "pending", source |-> s]]
                             /\ pa_sync' = y /\ brcast_src_info' = s /\ UNCHANGED told_sync
        ELSE /\ syncs' = Deleted(pa_sync) /\ told_sync' = Untold(pa_sync)
             /\ UNCHANGED <<pa_sync, brcast_src_info>>
     /\ UNCHANGED <<scanning, srch_name, srch_brdcast_id, scan_restart_work, delegatorVars,
                    ghostVars, boundVars>>

(* pa_synced_cb(), for a sync that was created or transferred.                  *)
Announce(y, s) == /\ syncs' = [syncs EXCEPT ![y] = [state |-> "synced", source |-> s]]
                  /\ told_sync' = [told_sync EXCEPT ![y] = brcast_src_info]
                  /\ pa_sync_timer' = FALSE /\ scanning' = FALSE /\ wanted' = FALSE
SyncEstablished == \E y \in SyncsPending :
  /\ Announce(y, syncs[y].source)
  /\ pa_sync_state' = IF syncs[y].source = asked THEN "synced" ELSE pa_sync_state
  /\ UNCHANGED <<scan_cb_registered, srch_name, srch_brdcast_id, pa_sync, scan_restart_work,
                 brcast_src_info, asked, pa_timer, crossed, boundVars>>
Transferred == \E y \in Syncs :
  /\ pa_sync_state = "info_req" /\ syncs[y].state = "free"
  /\ Announce(y, asked) /\ pa_sync_state' = "synced"
  /\ crossed' = (crossed \/ scan_cb_registered)
  /\ UNCHANGED <<scan_cb_registered, srch_name, srch_brdcast_id, pa_sync, scan_restart_work,
                 brcast_src_info, asked, pa_timer, boundVars>>

(* pa_sync_terminated_cb(): the broadcaster is gone.                            *)
SyncLost(y) == /\ Loses(TRUE) /\ y \in PaSynced
               /\ syncs' = Deleted(y) /\ told_sync' = Untold(y)
               /\ pa_sync_state' = IF syncs[y].source = asked THEN "not_synced"
                                   ELSE pa_sync_state
               /\ UNCHANGED <<searchVars, pa_sync, pa_sync_timer, scan_restart_work,
                              brcast_src_info, asked, pa_timer, ghostVars, starts, requests>>
-----------------------------------------------------------------------------
(* pa_sync_timeout() submits the work, which k_timer_stop() does not take back; *)
(* scan_restart_worker() deletes the sync and searches again.                   *)
PaSyncTimeout(dead) == /\ pa_sync_timer /\ Loses(dead)
                       /\ dead \/ SyncsPending = {} \* a creation that would succeed beats the timer
                       /\ pa_sync_timer' = FALSE /\ scan_restart_work' = TRUE
                       /\ UNCHANGED <<searchVars, pa_sync, syncs, brcast_src_info, told_sync, delegatorVars,
                                      ghostVars, starts, requests>>
RestartWorker(ok) ==
  /\ scan_restart_work /\ scan_restart_work' = FALSE /\ Loses(~ok)
  /\ syncs' = Deleted(pa_sync) /\ told_sync' = Untold(pa_sync)
  /\ crossed' = (crossed \/ ~ok)
  /\ wanted' = (wanted \/ pa_sync \in PaSynced)
  /\ SearchAgain(ok)
  /\ UNCHANGED <<srch_name, srch_brdcast_id, pa_sync, pa_sync_timer, brcast_src_info,
                 delegatorVars, starts, requests>>
-----------------------------------------------------------------------------
\* Mutant: nothing gives up on a transfer.
OfferForEver == UNCHANGED pa_timer
OfferEnds == pa_timer' = TRUE

(* pa_sync_req_cb(): the assistant adds source s. With a transfer on offer the  *)
(* receive state asks for it and a delayed work gives up on it; otherwise the   *)
(* source is searched for by its ID.                                           *)
SyncRequest(s, past, ok) ==
  /\ requests < MaxRequests /\ requests' = requests + 1 /\ srch_name # NotUsed
  /\ pa_sync_state \notin {"synced", "info_req"}
  /\ Loses(~ok)
  /\ asked' = s /\ brcast_src_info' = s
  /\ crossed' = (crossed \/ ~ok \/ Busy \/ (past /\ scan_cb_registered))
  /\ IF past
     THEN /\ IF ok THEN OfferEnds /\ pa_sync_state' = "info_req"
                    ELSE pa_sync_state' = "not_synced" /\ UNCHANGED pa_timer
          /\ UNCHANGED <<searchVars, wanted>>
     ELSE /\ Search(NotUsed, s, ok) /\ pa_sync_state' = "not_synced"
          /\ wanted' = TRUE /\ UNCHANGED pa_timer
  /\ UNCHANGED <<pa_sync, syncs, pa_sync_timer, scan_restart_work, told_sync, starts>>

(* pa_timer_handler(). Nothing cancels the work when the transfer succeeds.     *)
GiveUpTransfer ==
  /\ pa_timer /\ pa_timer' = FALSE
  /\ pa_sync_state' = IF pa_sync_state = "info_req" THEN "no_past" ELSE "failed"
  /\ UNCHANGED <<searchVars, syncVars, asked, ghostVars, boundVars>>
-----------------------------------------------------------------------------
ScanNext ==
  \/ \E name \in ScanNames \cup {NotUsed}, id \in Id, ok \in BOOLEAN : StartSearch(name, id, ok)
  \/ \E s \in Sources : Found(s)
  \/ SyncEstablished \/ Transferred \/ GiveUpTransfer
  \/ \E y \in Syncs : SyncLost(y)
  \/ \E b \in BOOLEAN : PaSyncTimeout(b) \/ RestartWorker(b)
  \/ \E s \in Sources, past, ok \in BOOLEAN : SyncRequest(s, past, ok)

\* The broadcasters go on advertising, the host answers and the timers expire.
ScanFairness == /\ WF_scanVars(\E s \in Sources : Found(s)) /\ WF_scanVars(SyncEstablished)
                /\ WF_scanVars(PaSyncTimeout(FALSE)) /\ WF_scanVars(RestartWorker(TRUE))
                /\ WF_scanVars(GiveUpTransfer)
ScanSpec == ScanInit /\ [][ScanNext]_scanVars /\ ScanFairness
-----------------------------------------------------------------------------
ScanTypeOK == /\ scan_cb_registered \in BOOLEAN /\ scanning \in BOOLEAN
              /\ srch_name \in ScanNames \cup {NotUsed} /\ srch_brdcast_id \in Id
              /\ pa_sync \in Syncs \cup {NotUsed}
              /\ syncs \in [Syncs -> [state : {"free", "pending", "synced"}, source : Id]]
              /\ pa_sync_timer \in BOOLEAN /\ scan_restart_work \in BOOLEAN
              /\ brcast_src_info \in Id /\ asked \in Id
              /\ pa_sync_state \in {"none", "not_synced", "info_req", "synced", "no_past", "failed"}
              /\ pa_timer \in BOOLEAN /\ told_sync \in [Syncs -> Id]
              /\ wanted \in BOOLEAN /\ crossed \in BOOLEAN

\* What the application was told of a sync is what the host has, with the ID of the
\* source it is synchronised to; only requests that overlap mix the IDs up.
ToldAsSynced(y) == /\ syncs[y].state = "synced" <=> told_sync[y] # NotUsed
                   /\ ~crossed /\ told_sync[y] # NotUsed => told_sync[y] = syncs[y].source

\* A search for a source in range ends with a sync, whatever creations time out on the
\* way, unless one of these has crossed it: a host error, a transferred sync, or a
\* search that starts before the creation of a sync is over.
InRange == IF srch_brdcast_id # NotUsed THEN TRUE
           ELSE \E s \in Sources : NameOf[s] = srch_name
SearchEnds == [](wanted /\ ~crossed => <>(~wanted \/ crossed \/ ~InRange))

\* Searches end, the application knows how, and an assistant is never left waiting for the
\* answer to its offer of a transfer.
ScansAreAnswered == /\ [](\A y \in Syncs : ToldAsSynced(y))
                    /\ SearchEnds
                    /\ (pa_sync_state = "info_req") ~> (pa_sync_state # "info_req")
=============================================================================
