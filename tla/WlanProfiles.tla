---------------------------- MODULE WlanProfiles ----------------------------
(***************************************************************************)
(* The network-profile store of the WLAN Connection Manager (wlan.c): the  *)
(* array wlan.networks of WLAN_MAX_KNOWN_NETWORKS slots and its counter    *)
(* num_networks.  User threads change it with wlan_add_network and         *)
(* wlan_remove_network, which take no lock.  The dispatcher reads it by    *)
(* index: wlan_connect looks a name up and posts the slot index, the       *)
(* CONNECT handler makes it cur_network_idx, and assoc_timer_cb re-posts   *)
(* a connect deferred by a MIC pause as network 0.  wlan_start_network and *)
(* wlan_stop_network post the uAP requests to the same queue, and          *)
(* uap_state_machine makes the posted index cur_uap_network_idx.           *)
(* wlan_ieeeps_on/off and wlan_deepsleepps_on/off post the power-save      *)
(* requests there too; the dispatcher turns them into firmware commands,   *)
(* and the firmware's IEEE_PS, DEEP_SLEEP and AWAKE events reach the       *)
(* handlers and the two power-save machines of WlanPsFsm.                  *)
(*                                                                         *)
(* The STA side is WlanSta's pipeline projected onto the fields the store  *)
(* reads: sta_state, cur_network_idx and the MIC pause.  A connect request *)
(* carries, besides its slot index, the ghost field "name": the name the   *)
(* user passed to wlan_connect.                                            *)
(***************************************************************************)
EXTENDS Integers, Sequences, FiniteSetsExt, TLC, WlanPsFsm

CONSTANTS
    Names,                    \* network names a caller passes (1..32 chars)
    Inputs,                   \* the struct wlan_network values callers pass
    WLAN_MAX_KNOWN_NETWORKS,  \* CONFIG_WLAN_KNOWN_NETWORKS
    MAX_EVENTS,               \* capacity of the wlan.events queue
    Users,                    \* application threads calling the API
    MaxCalls,                 \* bound on the API calls of a behaviour
    UINT_MAX,                 \* largest value of an unsigned int
    UAP_DEFAULT_CHANNEL       \* the driver's channel for an auto-channel uAP

VARIABLES
    networks,      \* wlan.networks
    num_networks,  \* wlan.num_networks, an unsigned int
    sta,           \* the STA fields the connect path reads and sets
    uap,           \* the uAP fields, and what the firmware and IP stack owe
    events,        \* wlan.events: the STA user requests
    pc,            \* where each user thread is inside an API call
    calls,         \* API calls made so far
    ps,            \* the power-save fields of wlan, and ieee_ps_sleep_cb_sent
    fwps           \* the firmware: power-save commands queued, modes it is in

vars == <<networks, num_networks, sta, uap, events, pc, calls, ps, fwps>>

(* The modes wlan_ieeeps_on and wlan_deepsleepps_on post (WLAN_IEEE and   *)
(* WLAN_DEEP_SLEEP of enum wlan_ps_mode).                                  *)
PsModes == {"IEEE", "DEEP_SLEEP"}

(* unsigned int arithmetic: ++ and -- wrap around.                        *)
Inc(x) == IF x = UINT_MAX THEN 0 ELSE x + 1
Dec(x) == IF x = 0 THEN UINT_MAX ELSE x - 1

(* enum wlan_security_type, without CONFIG_WPA_SUPP and CONFIG_OWE.        *)
SecurityTypes == {"NONE", "WEP_OPEN", "WEP_SHARED", "WPA", "WPA2",
                  "WPA2_SHA256", "WPA_WPA2_MIXED", "WILDCARD", "WPA3_SAE",
                  "WPA2_WPA3_SAE_MIXED"}

WLAN_PSK_MIN_LENGTH == 8
WLAN_PSK_MAX_LENGTH == 65
WLAN_PASSWORD_MIN_LENGTH == 8
WLAN_PASSWORD_MAX_LENGTH == 255

(* enum address_types.                                                     *)
AddressTypes == {"STATIC", "DHCP", "LLA"}

(* struct wlan_network_security, reduced to what wlan_add_network tests:   *)
(* the key lengths, whether a 64-character PSK is all hexadecimal digits,  *)
(* and the PMF flags.                                                      *)
NetworkSecurity ==
    [type : SecurityTypes, psk_len : 0..WLAN_PSK_MAX_LENGTH,
     psk_hex : BOOLEAN, password_len : 0..WLAN_PASSWORD_MAX_LENGTH + 1,
     mfpc : BOOLEAN, mfpr : BOOLEAN]

(* struct ipv4_config inside struct wlan_ip_config: the address type and   *)
(* whether gw equals address, the one relation wlan_add_network tests.     *)
IpConfig == [addr_type : AddressTypes, gw_is_address : BOOLEAN]

(* The public fields of struct wlan_network a caller fills in: the role,   *)
(* whether an SSID and a BSSID are given, the channel, the security and IP *)
(* configuration.                                                          *)
Network == [role : {"sta", "uap"}, ssid : BOOLEAN, bssid : BOOLEAN,
            channel : {0, 6, UAP_DEFAULT_CHANNEL}, security : NetworkSecurity, ip : IpConfig]

(* A slot of wlan.networks: the name, the network as copied in, and the   *)
(* private specificity bits wlan_add_network sets.                         *)
Slot == [name : Names \cup {""}, net : Network,
         ssid_specific : BOOLEAN, bssid_specific : BOOLEAN,
         channel_specific : BOOLEAN, security_specific : BOOLEAN]

(* A slot after memset(0): no name, all bits clear, and a network that     *)
(* reads as the zero of every enum: WLAN_SECURITY_NONE, ADDR_TYPE_STATIC,  *)
(* and the driver's role 0, WLAN_BSS_ROLE_STA; gw equals address (0.0.0.0).*)
Cleared ==
    [name |-> "", ssid_specific |-> FALSE, bssid_specific |-> FALSE,
     channel_specific |-> FALSE, security_specific |-> FALSE,
     net |-> [role |-> "sta", ssid |-> FALSE, bssid |-> FALSE, channel |-> 0,
              security |-> [type |-> "NONE", psk_len |-> 0, psk_hex |-> FALSE,
                            password_len |-> 0, mfpc |-> FALSE,
                            mfpr |-> FALSE],
              ip |-> [addr_type |-> "STATIC", gw_is_address |-> TRUE]]]

Slots == 0..WLAN_MAX_KNOWN_NETWORKS - 1

(* wlan_is_key_valid: a WPA-family PSK is 8..64 characters and a          *)
(* 64-character one is hexadecimal; WPA2/WPA3 mixed falls through to the  *)
(* SAE password check; WEP is refused.                                     *)
KeyValid(net) ==
    LET sec == net.security
        pskOk == /\ sec.psk_len >= WLAN_PSK_MIN_LENGTH
                 /\ sec.psk_len < WLAN_PSK_MAX_LENGTH
                 /\ sec.psk_len = WLAN_PSK_MAX_LENGTH - 1 => sec.psk_hex
        passwordOk == sec.password_len \in
                          WLAN_PASSWORD_MIN_LENGTH..WLAN_PASSWORD_MAX_LENGTH
    IN  CASE sec.type \in {"WPA", "WPA2", "WPA_WPA2_MIXED", "WPA2_SHA256"}
               -> pskOk
          [] sec.type = "WPA2_WPA3_SAE_MIXED" -> pskOk /\ passwordOk
          [] sec.type = "WPA3_SAE" -> passwordOk
          [] sec.type \in {"NONE", "WILDCARD"} -> TRUE
          [] OTHER -> FALSE

(* Mutant of AddValid: the PMF-required test of WPA3-SAE left out.        *)
AddValidNoMfpr(net) ==
    LET sec == net.security IN
    /\ net.ssid \/ net.bssid
    /\ net.role = "uap" => net.ip.gw_is_address
    /\ sec.type \in {"WPA2_SHA256", "WPA2_WPA3_SAE_MIXED"} => sec.mfpc
    /\ sec.type = "WPA3_SAE" => sec.mfpc
    /\ KeyValid(net)

(* The checks wlan_add_network makes of the network before it looks for a  *)
(* slot: an SSID or a BSSID, a uAP's gateway equal to its address, PMF     *)
(* capable for WPA2-SHA256 and WPA2/WPA3 mixed, PMF capable and required   *)
(* for WPA3-SAE, and a valid key.                                          *)
AddValid(net) ==
    LET sec == net.security IN
    /\ net.ssid \/ net.bssid
    /\ net.role = "uap" => net.ip.gw_is_address
    /\ sec.type \in {"WPA2_SHA256", "WPA2_WPA3_SAE_MIXED"} => sec.mfpc
    /\ sec.type = "WPA3_SAE" => sec.mfpc /\ sec.mfpr
    /\ KeyValid(net)

(* STA connection states the store's callers test (enum cm_sta_state);     *)
(* OBTAINING_ADDRESS is folded into REQUESTING_ADDRESS.                    *)
StaStates == {"IDLE", "SCANNING", "ASSOCIATING", "ASSOCIATED",
              "REQUESTING_ADDRESS", "CONNECTED"}

Msg(ev, data, name) == [ev |-> ev, data |-> data, name |-> name]

Idle == [op |-> "idle", pos |-> 0, name |-> "", net |-> <<>>]

(* wlan_start: the static wlan struct is zero, so every slot is clear and  *)
(* both power-save machines are in INIT; wlan_start clears the configured  *)
(* flags and sets cm_ps_state to AWAKE.                                    *)
Init ==
    /\ networks = [i \in Slots |-> Cleared]
    /\ num_networks = 0
    /\ sta = [sta_state |-> "IDLE", cur_network_idx |-> -1,
              assoc_paused |-> FALSE, pending_assoc_request |-> FALSE,
              assoc_timer |-> FALSE, session |-> "", pending |-> ""]
    /\ uap = [uap_state |-> "INITIALIZING", cur_uap_network_idx |-> -1,
              session |-> "", fw_ap |-> FALSE, started_owed |-> FALSE,
              addr_owed |-> FALSE]
    /\ events = <<>>
    /\ pc = [u \in Users |-> Idle]
    /\ calls = 0
    /\ ps = [configured |-> [m \in PsModes |-> FALSE],
             ieee_ps_sleep_cb_sent |-> FALSE, skip_ds_exit_cb |-> FALSE,
             ieeeps_state |-> "INIT", ieeeps_prev_state |-> "INIT",
             deepsleepps_state |-> "INIT", cm_ps_state |-> "AWAKE",
             g_req_sl_confirm |-> FALSE]
    /\ fwps = [cmds |-> << >>, on |-> [m \in PsModes |-> FALSE]]

FreeSlots == {i \in Slots : networks[i].name = ""}

NamedSlots(n) == {i \in Slots : networks[i].name = n}

(* Mutant of Send: a post that ignores the queue's capacity.              *)
SendUnbounded(m) == events' = Append(events, m)

(* send_user_request: posted with OS_NO_WAIT, lost when the queue is full. *)
Send(m) == events' = IF Len(events) < MAX_EVENTS THEN Append(events, m)
                                                  ELSE events

(* wlan_add_network refuses a STA network unless the STA is IDLE,          *)
(* ASSOCIATED or CONNECTED.                                                *)
StaAddAllowed(net) ==
    net.role = "sta" => sta.sta_state \in {"IDLE", "ASSOCIATED", "CONNECTED"}

(* The slot wlan_add_network fills: the network and its specificity bits. *)
Stored(n, net) ==
    [name |-> n, net |-> net, ssid_specific |-> net.ssid,
     bssid_specific |-> net.bssid, channel_specific |-> net.channel # 0,
     security_specific |-> net.security.type # "WILDCARD"]

(* A STA network with a key makes wlan_add_network clear the firmware's    *)
(* cached PSK, a command that can fail.                                    *)
NeedsClearPsk(net) ==
    net.role = "sta" /\ net.security.type \notin {"NONE", "WEP_OPEN"}

Called(u) == pc[u].op = "idle" /\ calls < MaxCalls /\ calls' = calls + 1

(***************************************************************************)
(* User threads.                                                           *)
(***************************************************************************)

(* Mutant of AddNetwork: the slot search stops at the first free slot, so *)
(* a taken name in a later slot goes unseen.                               *)
AddNetworkNoDupCheck(u, n, net) ==
    /\ Called(u)
    /\ IF StaAddAllowed(net) /\ AddValid(net) /\ FreeSlots # {}
          /\ NamedSlots(n) \cap 0..Min(FreeSlots) = {}
       THEN pc' = [pc EXCEPT ![u] = [op |-> "add", pos |-> Min(FreeSlots),
                                     name |-> n, net |-> net]]
       ELSE UNCHANGED pc
    /\ UNCHANGED <<ps, fwps, networks, num_networks, sta, uap, events>>

(* wlan_add_network up to its slot search: the state and validity checks,  *)
(* then one pass over the slots that refuses a taken name and picks the    *)
(* first free slot.  No lock is held: the copy into the slot is the next   *)
(* step.                                                                   *)
AddNetwork(u, n, net) ==
    /\ Called(u)
    /\ IF StaAddAllowed(net) /\ AddValid(net) /\ NamedSlots(n) = {}
          /\ FreeSlots # {}
       THEN pc' = [pc EXCEPT ![u] = [op |-> "add", pos |-> Min(FreeSlots),
                                     name |-> n, net |-> net]]
       ELSE UNCHANGED pc
    /\ UNCHANGED <<ps, fwps, networks, num_networks, sta, uap, events>>

(* The rest of wlan_add_network: copy the network into the slot, set its   *)
(* private fields, clear the cached PSK, and count it.  A failed clear     *)
(* returns WLAN_ERROR_ACTION after the copy and before the count.          *)
AddNetworkCommit(u) ==
    LET a == pc[u] IN
    /\ a.op = "add"
    /\ networks' = [networks EXCEPT ![a.pos] = Stored(a.name, a.net)]
    /\ \/ num_networks' = Inc(num_networks)
       \/ NeedsClearPsk(a.net) /\ UNCHANGED num_networks
    /\ pc' = [pc EXCEPT ![u] = Idle]
    /\ UNCHANGED <<ps, fwps, sta, uap, events, calls>>

(* wlan_remove_network: clear the first slot of that name unless it is the *)
(* current STA network while the STA is CONNECTED, or the current uAP      *)
(* network while the uAP is IP_UP.                                         *)
RemoveNetwork(u, n) ==
    /\ Called(u)
    /\ LET i == Min(NamedSlots(n)) IN
       IF NamedSlots(n) # {}
          /\ ~(sta.cur_network_idx = i /\ sta.sta_state = "CONNECTED")
          /\ ~(uap.cur_uap_network_idx = i /\ uap.uap_state = "IP_UP")
       THEN /\ networks' = [networks EXCEPT ![i] = Cleared]
            /\ num_networks' = Dec(num_networks)
       ELSE UNCHANGED <<networks, num_networks>>
    /\ UNCHANGED <<ps, fwps, sta, uap, events, pc>>

(* wlan_connect up to its wait for the scan lock: refuse when num_networks *)
(* is 0 or no slot has the name, else remember the slot found.             *)
ApiConnect(u, n) ==
    /\ Called(u)
    /\ IF num_networks # 0 /\ NamedSlots(n) # {}
       THEN pc' = [pc EXCEPT ![u] = [Idle EXCEPT !.op = "connect",
                                     !.pos = Min(NamedSlots(n)), !.name = n]]
       ELSE UNCHANGED pc
    /\ UNCHANGED <<ps, fwps, networks, num_networks, sta, uap, events>>

(* wlan_connect once the scan lock is granted: post the slot found before  *)
(* the wait.                                                               *)
ConnectPost(u) ==
    /\ pc[u].op = "connect"
    /\ Send(Msg("Connect", pc[u].pos, pc[u].name))
    /\ pc' = [pc EXCEPT ![u] = Idle]
    /\ UNCHANGED <<ps, fwps, networks, num_networks, sta, uap, calls>>

(* wlan_disconnect.                                                        *)
ApiDisconnect(u) ==
    /\ Called(u)
    /\ Send(Msg("Disconnect", 0, ""))
    /\ UNCHANGED <<ps, fwps, networks, num_networks, sta, uap, pc>>

(* is_sta_connecting: past ASSOCIATING and not beyond CONNECTED.           *)
IsStaConnecting ==
    sta.sta_state \in {"ASSOCIATED", "REQUESTING_ADDRESS", "CONNECTED"}

(* The slot wlan_start_network and wlan_stop_network accept for a name: a  *)
(* uAP profile with an SSID.                                               *)
UapSlot(n) ==
    {i \in NamedSlots(n) : networks[i].net.role = "uap"
                           /\ networks[i].ssid_specific}

(* wlan_start_network: refused when num_networks is 0, when the uAP is     *)
(* IP_UP (is_uap_started), or when a fixed-channel uAP would start while  *)
(* the STA is connecting; else the slot index is posted.                   *)
ApiStartNetwork(u, n) ==
    /\ Called(u)
    /\ IF /\ num_networks # 0
          /\ uap.uap_state # "IP_UP"
          /\ UapSlot(n) # {}
          /\ ~(networks[Min(UapSlot(n))].channel_specific /\ IsStaConnecting)
       THEN Send(Msg("UapStart", Min(UapSlot(n)), n))
       ELSE UNCHANGED events
    /\ UNCHANGED <<ps, fwps, networks, num_networks, sta, uap, pc>>

(* wlan_stop_network: post a stop request for a uAP profile of that name.  *)
ApiStopNetwork(u, n) ==
    /\ Called(u)
    /\ IF num_networks # 0 /\ UapSlot(n) # {}
       THEN Send(Msg("UapStop", Min(UapSlot(n)), n))
       ELSE UNCHANGED events
    /\ UNCHANGED <<ps, fwps, networks, num_networks, sta, uap, pc>>

(* wlan_get_uap_connection_state: STARTED and IP_UP are WLAN_UAP_STARTED.  *)
UapConnectionState ==
    IF uap.uap_state \in {"STARTED", "IP_UP"} THEN "WLAN_UAP_STARTED"
                                             ELSE "WLAN_UAP_STOPPED"

(* wlan_ieeeps_on and wlan_deepsleepps_on: refused while the uAP is        *)
(* started or when the mode's configured flag is already set; else the     *)
(* PS_ENTER request is posted.  The flag is set by the dispatcher.         *)
ApiPsOn(u, m) ==
    /\ Called(u)
    /\ IF UapConnectionState # "WLAN_UAP_STARTED" /\ ~ps.configured[m]
       THEN Send(Msg("PsEnter", m, ""))
       ELSE UNCHANGED events
    /\ UNCHANGED <<ps, fwps, networks, num_networks, sta, uap, pc>>

(* wlan_ieeeps_off and wlan_deepsleepps_off: post PS_EXIT when the mode's  *)
(* configured flag is set.                                                 *)
ApiPsOff(u, m) ==
    /\ Called(u)
    /\ IF ps.configured[m] THEN Send(Msg("PsExit", m, ""))
                           ELSE UNCHANGED events
    /\ UNCHANGED <<ps, fwps, networks, num_networks, sta, uap, pc>>

(***************************************************************************)
(* The dispatcher, cm_main, and the STA pipeline as far as it reads the    *)
(* store.  Each step takes the head of the queue or a firmware event and   *)
(* runs its handler to completion.                                         *)
(***************************************************************************)

Received == Head(events)

(* CONNECT (handle_message): deferred while a MIC pause runs; otherwise    *)
(* wlcm_request_connect makes the posted index cur_network_idx and         *)
(* do_connect starts the connect scan.                                     *)
DispatchConnect ==
    /\ events # << >>
    /\ Received.ev = "Connect"
    /\ events' = Tail(events)
    /\ sta' = IF sta.assoc_paused
              THEN [sta EXCEPT !.pending_assoc_request = TRUE,
                               !.pending = Received.name]
              ELSE [sta EXCEPT !.pending_assoc_request = FALSE,
                               !.cur_network_idx = Received.data,
                               !.sta_state = "SCANNING",
                               !.session = Received.name]
    /\ UNCHANGED <<ps, fwps, networks, num_networks, uap, pc, calls>>

(* DISCONNECT: wlcm_request_disconnect leaves the STA IDLE.                *)
DispatchDisconnect ==
    /\ events # << >>
    /\ Received.ev = "Disconnect"
    /\ events' = Tail(events)
    /\ sta' = [sta EXCEPT !.sta_state = "IDLE"]
    /\ UNCHANGED <<ps, fwps, networks, num_networks, uap, pc, calls>>

StaStep(from, to) ==
    /\ sta.sta_state \in from
    /\ sta' = [sta EXCEPT !.sta_state = to]
    /\ UNCHANGED <<ps, fwps, networks, num_networks, uap, events, pc, calls>>

(* The scan result: handle_scan_results starts the association, or         *)
(* do_connect_failed ends the attempt.                                     *)
StaScanResult == \E to \in {"ASSOCIATING", "IDLE"} : StaStep({"SCANNING"}, to)

(* The association result.                                                 *)
StaAssociation ==
    \E to \in {"ASSOCIATED", "IDLE"} : StaStep({"ASSOCIATING"}, to)

(* A successful authentication requests an address.                        *)
StaAuthenticated == StaStep({"ASSOCIATED"}, "REQUESTING_ADDRESS")

(* The address and DHCP reports.                                           *)
StaAddressed == StaStep({"REQUESTING_ADDRESS"}, "CONNECTED")

(* A failed authentication while linked: the STA goes IDLE, and a MIC      *)
(* failure also starts the 60 s pause of the BAD_MIC timer.                *)
StaAuthFailed ==
    /\ sta.sta_state \in {"ASSOCIATED", "REQUESTING_ADDRESS", "CONNECTED"}
    /\ \E mic \in BOOLEAN :
          sta' = [sta EXCEPT !.sta_state = "IDLE",
                             !.assoc_paused = @ \/ mic,
                             !.assoc_timer = @ \/ mic]
    /\ UNCHANGED <<ps, fwps, networks, num_networks, uap, events, pc, calls>>

(* assoc_timer_cb: the pause ends, and a connect deferred during it is     *)
(* posted again, for network 0.                                            *)
AssocTimerExpiry ==
    /\ sta.assoc_timer
    /\ sta' = [sta EXCEPT !.assoc_paused = FALSE, !.assoc_timer = FALSE]
    /\ IF sta.pending_assoc_request
       THEN Send(Msg("Connect", 0, sta.pending))
       ELSE UNCHANGED events
    /\ UNCHANGED <<ps, fwps, networks, num_networks, uap, pc, calls>>

(* The channel do_start gives an auto-channel uAP: the STA's channel when  *)
(* the STA is CONNECTED or ASSOCIATED, else UAP_DEFAULT_CHANNEL.           *)
AutoChannel ==
    IF sta.sta_state \in {"CONNECTED", "ASSOCIATED"}
    THEN networks[sta.cur_network_idx].net.channel
    ELSE UAP_DEFAULT_CHANNEL

(* CM_UAP_USER_REQUEST_START (uap_state_machine): the posted index becomes *)
(* cur_uap_network_idx, then do_start.  For a uAP profile do_start writes  *)
(* the channel of an auto-channel profile into it and asks the firmware to *)
(* start the BSS; "started" is a fixed channel being allowed and           *)
(* wifi_uap_start succeeding, after which the uAP is CONFIGURED and the     *)
(* firmware owes WIFI_EVENT_UAP_STARTED.  A slot that no longer holds a    *)
(* uAP profile makes do_start do nothing.                                  *)
DispatchUapStart ==
    /\ events # << >>
    /\ Received.ev = "UapStart"
    /\ events' = Tail(events)
    /\ LET i == Received.data
           isUap == networks[i].net.role = "uap"
       IN  /\ networks' = IF isUap /\ ~networks[i].channel_specific
                          THEN [networks EXCEPT ![i].net.channel = AutoChannel]
                          ELSE networks
           /\ \E started \in BOOLEAN :
                 LET up == isUap /\ started IN
                 uap' = [uap EXCEPT !.cur_uap_network_idx = i,
                                    !.session = Received.name,
                                    !.uap_state = IF up THEN "CONFIGURED" ELSE @,
                                    !.fw_ap = @ \/ up,
                                    !.started_owed = @ \/ up]
    /\ UNCHANGED <<ps, fwps, num_networks, sta, pc, calls>>

(* CM_UAP_USER_REQUEST_STOP: ignored below CONFIGURED; otherwise do_stop   *)
(* on cur_uap_network_idx (not on the posted index), which acts only on a  *)
(* uAP profile; a successful wifi_uap_stop returns to INITIALIZING.        *)
DispatchUapStop ==
    /\ events # << >>
    /\ Received.ev = "UapStop"
    /\ events' = Tail(events)
    /\ IF /\ uap.uap_state # "INITIALIZING"
          /\ networks[uap.cur_uap_network_idx].net.role = "uap"
       THEN \E stopped \in BOOLEAN :
               uap' = IF stopped
                      THEN [uap EXCEPT !.uap_state = "INITIALIZING",
                                       !.fw_ap = FALSE]
                      ELSE uap
       ELSE UNCHANGED uap
    /\ UNCHANGED <<ps, fwps, networks, num_networks, sta, pc, calls>>

(* WIFI_EVENT_UAP_STARTED: acted on only in CONFIGURED.  On success the    *)
(* uAP MAC is copied into the profile's BSSID and net_configure_address is *)
(* called; when it succeeds the uAP is STARTED and the IP stack owes       *)
(* WIFI_EVENT_UAP_NET_ADDR_CONFIG.  A failure report means the firmware    *)
(* did not start the BSS; the state is left as it is.                      *)
UapStartedEvent ==
    /\ uap.started_owed
    /\ \E success, addrOk \in BOOLEAN :
          LET i == uap.cur_uap_network_idx
              ok == uap.uap_state = "CONFIGURED" /\ success
          IN  /\ networks' = IF ok /\ networks[i].net.role = "uap"
                             THEN [networks EXCEPT ![i].net.bssid = TRUE]
                             ELSE networks
              /\ uap' = [uap EXCEPT !.started_owed = FALSE,
                                    !.fw_ap = @ /\ success,
                                    !.uap_state = IF ok /\ addrOk
                                                  THEN "STARTED" ELSE @,
                                    !.addr_owed = @ \/ (ok /\ addrOk)]
    /\ UNCHANGED <<ps, fwps, num_networks, sta, events, pc, calls>>

(* WIFI_EVENT_UAP_NET_ADDR_CONFIG: acted on only in STARTED.  A success    *)
(* for a profile whose address type is ADDR_TYPE_STATIC makes the uAP      *)
(* IP_UP; anything else sets INITIALIZING.                                 *)
UapAddrConfigEvent ==
    /\ uap.addr_owed
    /\ \E ok \in BOOLEAN :
          LET static ==
                networks[uap.cur_uap_network_idx].net.ip.addr_type = "STATIC"
          IN  uap' = [uap EXCEPT !.addr_owed = FALSE,
                                 !.uap_state =
                                    IF @ # "STARTED" THEN @
                                    ELSE IF ok /\ static THEN "IP_UP"
                                    ELSE "INITIALIZING"]
    /\ UNCHANGED <<ps, fwps, networks, num_networks, sta, events, pc, calls>>

(* The firmware commands wifi_enter_*_power_save and                      *)
(* wifi_exit_*_power_save send for a mode.                                 *)
EnterCmd == [m \in PsModes |-> IF m = "IEEE" THEN "enter_ieee" ELSE "enter_ds"]
ExitCmd == [m \in PsModes |-> IF m = "IEEE" THEN "exit_ieee" ELSE "exit_ds"]

(* CM_STA_USER_REQUEST_PS_ENTER (handle_message): ignored while the STA is *)
(* between SCANNING and OBTAINING_ADDRESS; otherwise                       *)
(* wlan_enable_power_save sets the mode's configured flag and sends the    *)
(* enter command, whose result it ignores.                                 *)
DispatchPsEnter ==
    /\ events # << >>
    /\ Received.ev = "PsEnter"
    /\ events' = Tail(events)
    /\ LET m == Received.data IN
       IF sta.sta_state \in {"SCANNING", "ASSOCIATING", "ASSOCIATED",
                             "REQUESTING_ADDRESS"}
       THEN UNCHANGED <<ps, fwps>>
       ELSE /\ ps' = [ps EXCEPT !.configured[m] = TRUE]
            /\ fwps' = [fwps EXCEPT !.cmds = Append(@, EnterCmd[m])]
    /\ UNCHANGED <<networks, num_networks, sta, uap, pc, calls>>

(* CM_STA_USER_REQUEST_PS_EXIT: wlan_disable_power_save sends the exit     *)
(* command; the flag stays set until the firmware reports DIS_AUTO_PS.     *)
DispatchPsExit ==
    /\ events # << >>
    /\ Received.ev = "PsExit"
    /\ events' = Tail(events)
    /\ fwps' = [fwps EXCEPT !.cmds = Append(@, ExitCmd[Received.data])]
    /\ UNCHANGED <<ps, networks, num_networks, sta, uap, pc, calls>>

(* enum ENH_PS_MODES: the actions a WIFI_EVENT_IEEE_PS or                  *)
(* WIFI_EVENT_DEEP_SLEEP report carries.                                   *)
EnhPsModes == {"GET_PS", "SLEEP_CONFIRM", "DIS_AUTO_PS", "EN_AUTO_PS"}

(* The firmware runs the enter command at the head of its queue and       *)
(* reports EN_AUTO_PS, with success or failure; the handlers act on        *)
(* neither.                                                                *)
FwPsEnabled(m) ==
    /\ fwps.cmds # << >>
    /\ Head(fwps.cmds) = EnterCmd[m]
    /\ \E ok \in BOOLEAN :
          fwps' = [cmds |-> Tail(fwps.cmds),
                   on |-> [fwps.on EXCEPT ![m] = @ \/ ok]]
    /\ UNCHANGED <<ps, networks, num_networks, sta, uap, events, pc, calls>>

(* The firmware runs the exit command at the head of its queue and         *)
(* reports DIS_AUTO_PS.  On success wlcm_process_ieeeps_event clears       *)
(* cm_ieeeps_configured and ieee_ps_sleep_cb_sent and reports PS_EXIT;     *)
(* wlcm_process_deepsleep_event clears cm_deepsleepps_configured and       *)
(* reports PS_EXIT unless skip_ds_exit_cb, which it clears instead.  A     *)
(* failure report is ignored.                                              *)
FwPsDisabled(m) ==
    /\ fwps.cmds # << >>
    /\ Head(fwps.cmds) = ExitCmd[m]
    /\ \E ok \in BOOLEAN :
          LET skip == m = "DEEP_SLEEP" /\ ps.skip_ds_exit_cb IN
          /\ fwps' = [cmds |-> Tail(fwps.cmds),
                      on |-> [fwps.on EXCEPT ![m] = @ /\ ~ok]]
          /\ ps' = IF ok
                   THEN [ps EXCEPT !.configured[m] = FALSE,
                                   !.ieee_ps_sleep_cb_sent =
                                       IF m = "IEEE" THEN FALSE ELSE @,
                                   !.skip_ds_exit_cb = IF skip THEN FALSE ELSE @]
                   ELSE ps
    /\ UNCHANGED <<networks, num_networks, sta, uap, events, pc, calls>>

(* The firmware, in power save, sleeps and reports SLEEP_CONFIRM.  The     *)
(* IEEE handler reports PS_ENTER only while ieee_ps_sleep_cb_sent is       *)
(* clear, and sets it; the deep-sleep handler reports it every time.      *)
FwSleepConfirm(m) ==
    /\ fwps.on[m]
    /\ ps' = [ps EXCEPT !.ieee_ps_sleep_cb_sent = IF m = "IEEE" THEN TRUE ELSE @]
    /\ UNCHANGED <<fwps, networks, num_networks, sta, uap, events, pc, calls>>

(* WIFI_EVENT_AWAKE, from a firmware in power save:                        *)
(* wlcm_process_awake_event sets cm_ps_state to AWAKE and gives AWAKE to   *)
(* wlan_ieeeps_sm and then to wlan_deepsleepps_sm, which share             *)
(* cm_ps_state and g_req_sl_confirm; the commands they issue go to the     *)
(* firmware.  Whether a transfer is pending and host sleep is configured   *)
(* and accepted is the driver's.                                           *)
FwAwake ==
    /\ \E m \in PsModes : fwps.on[m]
    /\ \E xfer, hs, hsOk \in BOOLEAN :
          LET env == [xfer_pending |-> xfer, hs_configured |-> hs,
                      hs_ok |-> hsOk, uap_started |-> uap.uap_state = "IP_UP",
                      sta_connected |-> sta.sta_state = "CONNECTED"]
              i == IeeePsSm([state |-> ps.ieeeps_state,
                             prev |-> ps.ieeeps_prev_state,
                             cm_ps_state |-> "AWAKE",
                             g_req_sl_confirm |-> ps.g_req_sl_confirm,
                             sent |-> << >>], "AWAKE", env)
              d == DeepSleepPsSm([i EXCEPT !.state = ps.deepsleepps_state],
                                 "AWAKE")
          IN  /\ ps' = [ps EXCEPT !.ieeeps_state = i.state,
                                  !.ieeeps_prev_state = i.prev,
                                  !.deepsleepps_state = d.state,
                                  !.cm_ps_state = d.cm_ps_state,
                                  !.g_req_sl_confirm = d.g_req_sl_confirm]
              /\ fwps' = [fwps EXCEPT !.cmds = @ \o d.sent]
    /\ UNCHANGED <<networks, num_networks, sta, uap, events, pc, calls>>

Dispatch == DispatchConnect \/ DispatchDisconnect
            \/ DispatchUapStart \/ DispatchUapStop
            \/ DispatchPsEnter \/ DispatchPsExit

Firmware == \/ StaScanResult \/ StaAssociation \/ StaAuthenticated
            \/ StaAddressed \/ StaAuthFailed
            \/ UapStartedEvent \/ UapAddrConfigEvent
            \/ FwAwake
            \/ \E m \in PsModes : \/ FwPsEnabled(m) \/ FwPsDisabled(m)
                                 \/ FwSleepConfirm(m)

User(u) ==
    \/ \E n \in Names : \/ \E net \in Inputs : AddNetwork(u, n, net)
                        \/ RemoveNetwork(u, n)
                        \/ ApiConnect(u, n)
                        \/ ApiStartNetwork(u, n)
                        \/ ApiStopNetwork(u, n)
    \/ AddNetworkCommit(u)
    \/ ConnectPost(u)
    \/ ApiDisconnect(u)
    \/ \E m \in PsModes : ApiPsOn(u, m) \/ ApiPsOff(u, m)

Next == Dispatch \/ Firmware \/ AssocTimerExpiry \/ \E u \in Users : User(u)

Spec == Init /\ [][Next]_vars

(***************************************************************************)
(* Properties.                                                             *)
(***************************************************************************)

TypeOK ==
    /\ networks \in [Slots -> Slot]
    /\ num_networks \in 0..UINT_MAX
    /\ sta.sta_state \in StaStates
    /\ sta.cur_network_idx \in Slots \cup {-1}
    /\ uap \in [uap_state : {"INITIALIZING", "CONFIGURED", "STARTED", "IP_UP"},
               cur_uap_network_idx : Slots \cup {-1}, session : Names \cup {""},
               fw_ap : BOOLEAN, started_owed : BOOLEAN, addr_owed : BOOLEAN]
    /\ \A k \in DOMAIN events :
          /\ events[k].ev \in {"Connect", "Disconnect", "UapStart", "UapStop",
                               "PsEnter", "PsExit"}
          /\ events[k].data \in IF events[k].ev \in {"PsEnter", "PsExit"}
                                THEN PsModes ELSE Slots
          /\ events[k].name \in Names \cup {""}
    /\ Len(events) <= MAX_EVENTS
    /\ ps \in [configured : [PsModes -> BOOLEAN],
               ieee_ps_sleep_cb_sent : BOOLEAN, skip_ds_exit_cb : BOOLEAN,
               ieeeps_state : PsFsmStates, ieeeps_prev_state : PsFsmStates,
               deepsleepps_state : PsFsmStates, cm_ps_state : PsStates,
               g_req_sl_confirm : BOOLEAN]
    /\ fwps.on \in [PsModes -> BOOLEAN]

Occupied == Slots \ FreeSlots

(* Spec 4.1 and invariant 4: no two slots hold the same name.  Duplicate   *)
(* names are refused by wlan_add_network's single pass over the slots,     *)
(* which must see every taken name before it settles on the free slot.     *)
NamesUnique ==
    \A i, j \in Occupied : i # j => networks[i].name # networks[j].name

(* The network a caller gave for a slot.  do_start and the UAP_STARTED     *)
(* handler write the channel and BSSID of a uAP profile only where the     *)
(* caller left them unset, so the specificity bits recover what was given. *)
Given(slot) ==
    [slot.net EXCEPT !.channel = IF slot.channel_specific THEN @ ELSE 0,
                     !.bssid = slot.bssid_specific]

(* The store as a map from names to the networks the callers gave.         *)
StoreView ==
    [n \in {networks[i].name : i \in Occupied} |->
        Given(networks[CHOOSE i \in Occupied : networks[i].name = n])]

ABS == INSTANCE ProfileStore
           WITH Names <- Names, Profiles <- Inputs,
                Capacity <- WLAN_MAX_KNOWN_NETWORKS, store <- StoreView

(* wlan_add_network and wlan_remove_network implement the store of spec    *)
(* 4.1: every profile the code accepts satisfies the spec's validity rules *)
(* (the code's checks are no weaker than spec 3), names stay unique,       *)
(* capacity is respected, and a stored profile changes only by removal.    *)
StoreRefinement == ABS!Spec

(* Spec 5, 4.4 and invariant 5: connect(name) connects the STA to the     *)
(* profile of that name and start_network(name) brings the uAP up on it,   *)
(* and while the STA is CONNECTED or the uAP IP_UP that profile is still   *)
(* the one in the slot.  Both paths carry a slot index, not a name, from   *)
(* the API call through the queue (and through the MIC pause), and         *)
(* wlan_remove_network refuses only once the session is up.                *)
SessionOnRequestedProfile ==
    /\ sta.sta_state = "CONNECTED"
          => networks[sta.cur_network_idx].name = sta.session
    /\ uap.uap_state = "IP_UP"
          => networks[uap.cur_uap_network_idx].name = uap.session

(* Spec 4.4: a running uAP is stopped by stop_network (IP_UP, STARTED and  *)
(* CONFIGURED all go to INIT on USER_STOP), and spec 7 says a failed step  *)
(* never leaves the FSM inconsistent.  While the firmware runs the BSS the *)
(* uAP is therefore not INITIALIZING, the state in which the STOP handler  *)
(* ignores the request.                                                    *)
UapStoppable == uap.fw_ap => uap.uap_state # "INITIALIZING"
(* wlan_get_ps_mode: the mode reported from the two configured flags.     *)
PsMode ==
    CASE ps.configured["IEEE"] /\ ps.configured["DEEP_SLEEP"] -> "WLAN_IEEE_DEEP_SLEEP"
      [] ps.configured["DEEP_SLEEP"] -> "WLAN_DEEP_SLEEP"
      [] ps.configured["IEEE"] -> "WLAN_IEEE"
      [] OTHER -> "WLAN_ACTIVE"

(* enum wlan_ps_mode: the power-save modes each value stands for.          *)
ModesOf == [WLAN_ACTIVE |-> {}, WLAN_IEEE |-> {"IEEE"},
            WLAN_DEEP_SLEEP |-> {"DEEP_SLEEP"},
            WLAN_IEEE_DEEP_SLEEP |-> {"IEEE", "DEEP_SLEEP"}]

(* Spec 7 (a failed step never leaves the FSM inconsistent) for power     *)
(* save: wlan_get_ps_mode never reports a mode off while the firmware is   *)
(* in it.  The configured flag is set when PS_ENTER is dispatched, before  *)
(* the firmware answers, and cleared only by a successful DIS_AUTO_PS; the *)
(* commands reach the firmware in the order the dispatcher sends them.     *)
PsModeCoversFirmware ==
    {m \in PsModes : fwps.on[m]} \subseteq ModesOf[PsMode]

====
