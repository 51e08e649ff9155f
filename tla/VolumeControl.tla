---------------------------- MODULE VolumeControl ----------------------------
(* bt_vol_ctlr.c: a gateway sets the volume of its headsets, and passes the      *)
(* volume that one of them reports to the others.                              *)
(*                                                                             *)
(* vcs_client_peer[] holds pointers to the host's volume controllers, of which   *)
(* there is one per connection object: 1 .. MAX_VCP_CONN stand for both.        *)
EXTENDS Integers, Sequences, FiniteSets

CONSTANTS MAX_VCP_CONN,     \* CONFIG_BT_MAX_CONN
          Volumes,          \* an interval from 0
          MaxVcpLinks, MaxVolumeChanges     \* bounds
ASSUME VolAssumption == MAX_VCP_CONN \in Nat /\ 0 \in Volumes

VcpConns == 1 .. MAX_VCP_CONN
NoVcs == 0

VARIABLES vcp_link,         \* per connection object: none, up, discovered
          vcs_client_peer,  \* per slot: a controller or NoVcs
          volume,           \* per connection: the volume of the headset
          writing,          \* per connection: << >>, or the volume that is being written
          reported,         \* per connection: volumes reported and not received yet
          settled_from,     \* everybody had the same volume, or someone was changed, since
          vcp_links, volume_changes
remoteVars == <<volume, writing, reported>>
volVars == <<vcp_link, vcs_client_peer, remoteVars, settled_from, vcp_links, volume_changes>>

VolInit == /\ vcp_link = [c \in VcpConns |-> "none"]
           /\ vcs_client_peer = [i \in VcpConns |-> NoVcs]
           /\ volume = [c \in VcpConns |-> 0] /\ writing = [c \in VcpConns |-> <<>>]
           /\ reported = [c \in VcpConns |-> <<>>]
           /\ settled_from = FALSE /\ vcp_links = 0 /\ volume_changes = 0

Lowest(S) == CHOOSE i \in S : \A j \in S : i <= j
-----------------------------------------------------------------------------
\* The host takes its first free connection object; the headset has a volume of its own.
VcpLinkUp == LET free == {c \in VcpConns : vcp_link[c] = "none"} IN
  /\ free # {} /\ vcp_links < MaxVcpLinks /\ vcp_links' = vcp_links + 1
  /\ vcp_link' = [vcp_link EXCEPT ![Lowest(free)] = "up"]
  /\ \E v \in Volumes : volume' = [volume EXCEPT ![Lowest(free)] = v]
  /\ UNCHANGED <<vcs_client_peer, writing, reported, settled_from, volume_changes>>

\* A link ends, and with it the controller; its slot is freed by a later discovery.
VcpLinkDown(c) ==
  /\ vcp_link[c] # "none" /\ vcp_link' = [vcp_link EXCEPT ![c] = "none"]
  /\ writing' = [writing EXCEPT ![c] = <<>>] /\ reported' = [reported EXCEPT ![c] = <<>>]
  /\ UNCHANGED <<vcs_client_peer, volume, settled_from, vcp_links, volume_changes>>

\* Mutant: the slot of another headset is freed, connected or not.
FreesOther(c, p) == p # c
\* vcs_client_peer_exists(): the first slot that decides, which is freed when its
\* controller has no connection any more.
Frees(c, p) == p = c \/ vcp_link[p] # "discovered"
Deciding(c) == {i \in VcpConns : vcs_client_peer[i] # NoVcs /\ Frees(c, vcs_client_peer[i])}
WithoutStale(c) == IF Deciding(c) = {} THEN vcs_client_peer
                   ELSE [vcs_client_peer EXCEPT ![Lowest(Deciding(c))] = NoVcs]

\* bt_vol_ctlr_discover(), called once per connection; the host may refuse.
VolDiscover(c, ok) ==
  LET peers == WithoutStale(c)
      free == {i \in VcpConns : peers[i] = NoVcs}
  IN /\ vcp_link[c] = "up"
     /\ IF ok /\ free # {}
        THEN /\ vcs_client_peer' = [peers EXCEPT ![Lowest(free)] = c]
             /\ vcp_link' = [vcp_link EXCEPT ![c] = "discovered"]
             /\ settled_from' = FALSE
        ELSE vcs_client_peer' = peers /\ UNCHANGED <<vcp_link, settled_from>>
     /\ UNCHANGED <<remoteVars, vcp_links, volume_changes>>
-----------------------------------------------------------------------------
\* Mutant: a controller without a connection takes the command.
ReadyWhenGone(c) == writing[c] = <<>>
\* The controllers behind the slots that take a command: those that are not busy.
Ready(c) == vcp_link[c] = "discovered" /\ writing[c] = <<>>
SlotsOf(S) == {vcs_client_peer[i] : i \in S} \ {NoVcs}
Write(S, v) == writing' = [c \in VcpConns |-> IF c \in S /\ Ready(c) THEN <<v>> ELSE writing[c]]

\* bt_vol_ctlr_set(): every headset, an error is only logged.
VolSet(v) == /\ volume_changes < MaxVolumeChanges /\ volume_changes' = volume_changes + 1
             /\ Write(SlotsOf(VcpConns), v) /\ settled_from' = TRUE
             /\ UNCHANGED <<vcp_link, vcs_client_peer, volume, reported, vcp_links>>

\* The headset takes a volume, from the gateway or from its own button, and reports it
\* when it is another one.
Takes(c, v) == /\ volume' = [volume EXCEPT ![c] = v]
               /\ reported' = IF volume[c] = v THEN reported
                              ELSE [reported EXCEPT ![c] = Append(@, v)]
HeadsetTakes(c) == /\ writing[c] # <<>> /\ Takes(c, writing[c][1])
                   /\ writing' = [writing EXCEPT ![c] = <<>>]
                   /\ UNCHANGED <<vcp_link, vcs_client_peer, settled_from, vcp_links, volume_changes>>
HeadsetButton(c, v) == /\ vcp_link[c] = "discovered" /\ v # volume[c]
                       /\ volume_changes < MaxVolumeChanges /\ volume_changes' = volume_changes + 1
                       /\ Takes(c, v) /\ settled_from' = TRUE
                       /\ UNCHANGED <<vcp_link, vcs_client_peer, writing, vcp_links>>

\* Mutant: only the slots behind the one that reports are told.
SlotsBehind(c) == {i \in VcpConns : \E j \in VcpConns : j < i /\ vcs_client_peer[j] = c}
OtherSlots(c) == {i \in VcpConns : vcs_client_peer[i] # c}

vcs_state_ctlr_cb_handler(c) ==
  /\ reported[c] # <<>> /\ reported' = [reported EXCEPT ![c] = Tail(@)]
  /\ Write(SlotsOf(OtherSlots(c)), Head(reported[c]))
  /\ UNCHANGED <<vcp_link, vcs_client_peer, volume, settled_from, vcp_links, volume_changes>>
-----------------------------------------------------------------------------
Delivery == \E c \in VcpConns : HeadsetTakes(c) \/ vcs_state_ctlr_cb_handler(c)
VolNext == \/ VcpLinkUp \/ Delivery \/ \E v \in Volumes : VolSet(v)
           \/ \E c \in VcpConns : \/ VcpLinkDown(c) \/ \E ok \in BOOLEAN : VolDiscover(c, ok)
                                  \/ \E v \in Volumes : HeadsetButton(c, v)
VolSpec == VolInit /\ [][VolNext]_volVars /\ WF_volVars(Delivery)
-----------------------------------------------------------------------------
VolTypeOK ==
  /\ vcp_link \in [VcpConns -> {"none", "up", "discovered"}]
  /\ vcs_client_peer \in [VcpConns -> VcpConns \cup {NoVcs}]
  /\ volume \in [VcpConns -> Volumes]
  /\ \A c \in VcpConns : /\ Len(writing[c]) <= 1
                         /\ vcp_link[c] # "discovered" => writing[c] = <<>> /\ reported[c] = <<>>

\* Although a link that ends leaves its slot behind and a discovery cleans up only the first
\* such slot, a headset that is discovered is controlled from then on, whatever links end and
\* whichever controllers are used again.  A volume reaches every headset, unless two volumes
\* are under way at once: then each report undoes the other, possibly for ever.
InFlight == UNION {{writing[c][k] : k \in DOMAIN writing[c]} \cup {reported[c][k] : k \in DOMAIN reported[c]}
                   : c \in VcpConns}
Agreed == \A c, d \in VcpConns :
  vcp_link[c] = "discovered" /\ vcp_link[d] = "discovered" => volume[c] = volume[d]
VolumeIsShared ==
  /\ [](\A c \in VcpConns : vcp_link[c] = "discovered" => c \in SlotsOf(VcpConns))
  /\ [](Cardinality(InFlight) <= 1) => <>[](settled_from => Agreed)
=============================================================================
