------------------------------- MODULE WlanSta -------------------------------
(***************************************************************************)
(* The station (STA) side of the WLAN Connection Manager of wlan.c, built  *)
(* without CONFIG_WPA_SUPP (the legacy do_connect path) and with           *)
(* CONFIG_HOST_SLEEP (the wake lock).                                      *)
(*                                                                         *)
(* One dispatcher thread, cm_main, takes messages from the bounded queue   *)
(* wlan.events and runs one handler per message to completion.  User      *)
(* threads post requests through the wlan_* API; the firmware and the IP   *)
(* stack post events; the bad-MIC timer posts a connect request.  Every    *)
(* post uses OS_NO_WAIT and is lost when the queue is full.                *)
(*                                                                         *)
(* The variable w is the wlan struct (plus the queue, the scan-lock        *)
(* semaphore and the wake-lock count) and every C helper is an operator    *)
(* from a value of w to a value of w, so that a handler is the composition *)
(* of the helpers it calls, in the order the code calls them.  What the    *)
(* firmware and the IP stack still owe the manager is kept in w as well:   *)
(* fw_pipe (commands the firmware has accepted and will answer, in order), *)
(* fw_link (the firmware is associated), ip_owed and dhcp_on.             *)
(***************************************************************************)
EXTENDS Integers, Sequences, FiniteSets

CONSTANTS
    Nets,            \* indices of wlan.networks[] holding profiles
    Role,            \* network->role, "sta" or "uap"
    AddrType,        \* network->ip.ipv4.addr_type, "static" or "dhcp"
    SsidSpecific,    \* network->ssid_specific: a hidden-SSID probe is possible
    Users,           \* application threads calling the wlan_* API
    MAX_EVENTS,      \* capacity of the wlan.events queue
    WLAN_RESCAN_LIMIT,
    WLAN_RECONNECT_LIMIT,
    ReassocControl,  \* wlan.reassoc_control (wlan_set_reassoc_control)
    StartState,      \* "INITIALIZING" at wlan_start, or "IDLE" once the
                     \* interface configuration has succeeded
    NoNet,           \* cur_network_idx == -1 before the first connect
    MaxCalls,        \* bound on the number of API calls in a behaviour
    MaxDrops         \* bound on the number of link losses in a behaviour

ASSUME /\ 0 \in Nets
       /\ Role \in [Nets -> {"sta", "uap"}]
       /\ AddrType \in [Nets -> {"static", "dhcp"}]
       /\ SsidSpecific \in [Nets -> BOOLEAN]
       /\ MAX_EVENTS \in Nat \ {0}
       /\ WLAN_RESCAN_LIMIT \in Nat \ {0}
       /\ WLAN_RECONNECT_LIMIT \in Nat
       /\ ReassocControl \in BOOLEAN
       /\ StartState \in {"INITIALIZING", "IDLE"}
       /\ NoNet \notin Nets
       /\ MaxCalls \in Nat /\ MaxDrops \in Nat

VARIABLES
    w,    \* the wlan struct and what the firmware and IP stack owe it
    pc,   \* per user thread: the API call it is blocked in, if any
    calls, \* API calls made so far, bounded by MaxCalls
    drops  \* links dropped by the firmware so far, bounded by MaxDrops

vars == <<w, pc, calls, drops>>

-----------------------------------------------------------------------------
(* enum cm_sta_state, in declaration order: the code compares states with *)
(* < and >=, so each state is given its rank.                             *)
StaStates == <<"INITIALIZING", "IDLE", "SCANNING", "SCANNING_USER",
               "ASSOCIATING", "ASSOCIATED", "REQUESTING_ADDRESS",
               "OBTAINING_ADDRESS", "CONNECTED">>

Rank(st) == CHOOSE i \in DOMAIN StaStates : StaStates[i] = st

StaState == {StaStates[i] : i \in DOMAIN StaStates}

(* IEEE reason codes carried in msg->data by a failed authentication or  *)
(* a link loss: IEEEtypes_REASON_MIC_FAILURE, ..._4WAY_HANDSHK_TIMEOUT    *)
(* and an unspecified reason.                                             *)
MIC_FAILURE == 14
HANDSHAKE_TIMEOUT == 15
UNSPECIFIED == 1

Reasons == {MIC_FAILURE, HANDSHAKE_TIMEOUT, UNSPECIFIED}

Events == {"Connect", "Disconnect", "Scan", "ScanResult", "Association",
           "Authentication", "LinkLoss", "Disassociation", "AddrConfig",
           "DhcpConfig", "NetIfConfig"}

(* struct wifi_message: event, reason (ok), data (a network index, an    *)
(* IEEE reason code, or 0).                                               *)
Msg(ev, ok, arg) == [ev |-> ev, ok |-> ok, arg |-> arg]

Message == [ev : Events, ok : BOOLEAN, arg : Nets \cup Reasons \cup {0}]

(* What the firmware will send back, in order.                           *)
FwItem == {"scan", "assoc", "auth", "linkloss", "disassoc"}

Idle == [op |-> "idle", net |-> 0]

-----------------------------------------------------------------------------
(* is_user_scanning and is_state (lines 551-564): during a user scan the  *)
(* state that counts is the one the scan returns to.                      *)
IsUserScanning(s) == s.sta_state = "SCANNING_USER"

IsState(s, st) == IF IsUserScanning(s) THEN s.sta_return_to = st
                                       ELSE s.sta_state = st

(* is_running and is_scanning_allowed (lines 1390-1409).                  *)
IsRunning(s) == Rank(s.sta_state) >= Rank("IDLE")

IsScanningAllowed(s) == IsState(s, "IDLE") \/ IsState(s, "CONNECTED")

(* wlan_get_connection_state (lines 6746-6795): during a user scan the     *)
(* state reported is the one the scan returns to.                          *)
ConnState(s) ==
    LET cur == IF IsUserScanning(s) THEN s.sta_return_to ELSE s.sta_state
    IN  IF ~IsRunning(s) THEN "NOT_RUNNING"
        ELSE CASE cur = "SCANNING" -> "WLAN_SCANNING"
               [] cur = "ASSOCIATING" -> "WLAN_ASSOCIATING"
               [] cur = "ASSOCIATED" -> "WLAN_ASSOCIATED"
               [] cur \in {"REQUESTING_ADDRESS", "OBTAINING_ADDRESS"} ->
                     "WLAN_CONNECTING"
               [] cur = "CONNECTED" -> "WLAN_CONNECTED"
               [] OTHER -> "WLAN_DISCONNECTED"

(* CONNECTION_EVENT(r, ...): the callback runs in the dispatcher, before  *)
(* cm_main stores *next, so what it sees is the struct at the call.       *)
Report(s, r) == [s EXCEPT !.cb = Append(@, [reason |-> r, state |-> ConnState(s)])]

(* os_queue_send(&wlan.events, ..., OS_NO_WAIT): the message is lost when *)
(* the queue is full (send_user_request, wlan_wlcmgr_send_msg).           *)
CanSend(s) == Len(s.events) < MAX_EVENTS

Send(s, m) == IF CanSend(s) THEN [s EXCEPT !.events = Append(@, m)] ELSE s

(* Mutant: a counting semaphore in place of the binary one.              *)
PutScanLockCounting(s) == [s EXCEPT !.scan_lock = @ + 1, !.clear_owed = TRUE]

(* os_semaphore_put(&wlan.scan_lock) and then wlan.is_scan_lock = 0, two  *)
(* statements (e.g. lines 2334-2335): the put may wake a thread blocked   *)
(* on the lock before the dispatcher clears the flag, so the clear is a   *)
(* step of its own (ClearScanLockFlag) that the dispatcher owes before it *)
(* takes the next message.  The scan lock is created by                   *)
(* os_semaphore_create, a binary semaphore: a put on a free lock leaves   *)
(* it free.                                                               *)
PutScanLock(s) == [s EXCEPT !.scan_lock = 1, !.clear_owed = TRUE]

(* The connect wake lock is put and forgotten (several handlers).         *)
PutConnectWakelock(s) ==
    IF s.connect_wakelock_taken
    THEN [s EXCEPT !.wakelock = @ - 1, !.connect_wakelock_taken = FALSE]
    ELSE s

(* wifi_deauthenticate: the firmware drops the link and abandons the     *)
(* association or authentication it was running.                          *)
Cancel(p) == SelectSeq(p, LAMBDA e : e \notin {"assoc", "auth"})

Deauth(s) == [s EXCEPT !.fw_link = FALSE, !.fw_pipe = Cancel(@)]

(* net_interface_dhcp_stop and net_interface_down.                        *)
IfDown(s) == [s EXCEPT !.dhcp_on = FALSE]

-----------------------------------------------------------------------------
DoScan(s, cmdOk) ==
    LET s1 == [s EXCEPT !.sta_state = "SCANNING"]
    IN  IF cmdOk
        THEN [s1 EXCEPT !.fw_pipe = Append(@, "scan"),
                        !.scan_count = @ + 1]
        ELSE Send(s1, Msg("ScanResult", FALSE, 0))

(* do_hidden_scan (lines 1501-1539): as do_scan, but scan_count is kept.  *)
DoHiddenScan(s, cmdOk) ==
    LET s1 == [s EXCEPT !.sta_state = "SCANNING"]
    IN  IF cmdOk
        THEN [s1 EXCEPT !.fw_pipe = Append(@, "scan")]
        ELSE Send(s1, Msg("ScanResult", FALSE, 0))

(* do_connect_failed (lines 1714-1744): the connect wake lock is put but  *)
(* connect_wakelock_taken is left set; IDLE is stored, then the reason is  *)
(* reported.                                                               *)
DoConnectFailed(s, r) ==
    Report([s EXCEPT !.wakelock = IF s.connect_wakelock_taken THEN @ - 1 ELSE @,
                     !.sta_return_to = IF IsUserScanning(s) THEN "IDLE" ELSE @,
                     !.sta_state = "IDLE"], r)

(* wlan_disconnect (lines 6241-6257) called by the dispatcher itself: a   *)
(* wake lock is taken and a disconnect request is posted, result ignored. *)
WlanDisconnect(s) ==
    Send([s EXCEPT !.wakelock = @ + 1], Msg("Disconnect", TRUE, 0))

(* do_connect (lines 1550-1570): only a STA profile is connected to.      *)
DoConnect(s, n, cmdOk) ==
    DoScan([s EXCEPT !.cur_network_idx = n, !.scan_count = 0], cmdOk)

(* wlcm_request_connect (lines 4207-4276): take the connect wake lock,    *)
(* deauthenticate unless this is a roam, then do_connect; if do_connect   *)
(* refuses the profile the scan lock is released and CONNECT_FAILED is    *)
(* reported.                                                              *)
RequestConnect(s, n, cmdOk) ==
    LET s1 == [s EXCEPT !.wakelock = @ + 1, !.connect_wakelock_taken = TRUE]
        s2 == IF ~s1.roam_reassoc /\ Rank(s1.sta_state) >= Rank("ASSOCIATING")
                 /\ Role[n] = "sta"
              THEN Deauth(s1) ELSE s1
    IN  IF Role[n] = "sta" THEN DoConnect(s2, n, cmdOk)
        ELSE Report(IF s2.is_scan_lock THEN PutScanLock(s2) ELSE s2,
                    "CONNECT_FAILED")

(* wlcm_request_reconnect (lines 4278-4306): retry the current network    *)
(* up to WLAN_RECONNECT_LIMIT times, then report CONNECT_FAILED and give   *)
(* up with wlan_disconnect.                                               *)
RequestReconnect(s, cmdOk) ==
    IF s.reassoc_count < WLAN_RECONNECT_LIMIT
    THEN RequestConnect([s EXCEPT !.reassoc_request = TRUE,
                                  !.reassoc_count = @ + 1],
                        s.cur_network_idx, cmdOk)
    ELSE WlanDisconnect(Report([s EXCEPT !.reassoc_request = FALSE,
                                         !.reassoc_count = 0], "CONNECT_FAILED"))

(* The "if (wlan.reassoc_control) wlcm_request_reconnect(...)" that ends  *)
(* every failure path.                                                    *)
MaybeReconnect(s, cmdOk) ==
    IF ReassocControl THEN RequestReconnect(s, cmdOk) ELSE s

(* Resetting the reconnect counter on success (several handlers).         *)
ReassocDone(s) ==
    IF ReassocControl /\ s.reassoc_request
    THEN [s EXCEPT !.reassoc_count = 0, !.reassoc_request = FALSE]
    ELSE s

(* The STA is connected with an address (addr-config, DHCP handlers).     *)
Connected(s) ==
    ReassocDone([s EXCEPT !.sta_state = "CONNECTED",
                          !.sta_ipv4_state = "CONNECTED"])

(* start_association (lines 1932-1966): configure_security and then the   *)
(* association command; either failing is do_connect_failed.              *)
StartAssociationOk(secOk, assocOk) == secOk /\ assocOk

StartAssociation(s, secOk, assocOk) ==
    LET s1 == [s EXCEPT !.roam_reassoc = FALSE]
    IN  IF StartAssociationOk(secOk, assocOk)
        THEN [s1 EXCEPT !.fw_pipe = Append(@, "assoc")]
        ELSE DoConnectFailed(s1, "NETWORK_NOT_FOUND")

(* Mutant: the rescan limit tested with <=.                               *)
NoAssociationOffByOne(s, cmdOk) ==
    IF s.roam_reassoc
    THEN [s EXCEPT !.sta_state = "CONNECTED", !.roam_reassoc = FALSE]
    ELSE IF s.scan_count <= WLAN_RESCAN_LIMIT
    THEN DoScan([s EXCEPT !.hidden_scan_on = FALSE], cmdOk)
    ELSE MaybeReconnect(DoConnectFailed(s, "NETWORK_NOT_FOUND"), cmdOk)

(* The tail of handle_scan_results (lines 2135-2169) when no association  *)
(* was started: end a roam, rescan while scans remain, else fail.         *)
NoAssociation(s, cmdOk) ==
    IF s.roam_reassoc
    THEN [s EXCEPT !.sta_state = "CONNECTED", !.roam_reassoc = FALSE]
    ELSE IF s.scan_count < WLAN_RESCAN_LIMIT
    THEN DoScan([s EXCEPT !.hidden_scan_on = FALSE], cmdOk)
    ELSE MaybeReconnect(DoConnectFailed(s, "NETWORK_NOT_FOUND"), cmdOk)

(* handle_scan_results (lines 1977-2170).  The scan results are not       *)
(* modelled one by one: r says whether some result matches the profile    *)
(* (r.match), whether it is the BSS a roam started from (r.same), whether *)
(* a hidden SSID was seen (r.hidden), and whether the buffer for the best *)
(* AP could be allocated (r.mem).                                         *)
HandleScanResults(s, r, c) ==
    LET n  == s.cur_network_idx
        s1 == [s EXCEPT !.sta_state = "ASSOCIATING"]
        s2 == StartAssociation(s1, c.secOk, c.assocOk)
    IN  IF ~r.mem THEN s
        ELSE IF r.match
        THEN IF s1.roam_reassoc /\ r.same
             THEN [s1 EXCEPT !.sta_state = "CONNECTED", !.roam_reassoc = FALSE]
             ELSE IF StartAssociationOk(c.secOk, c.assocOk) THEN s2
                  ELSE NoAssociation(s2, c.scanOk)
        ELSE IF r.hidden /\ SsidSpecific[n] /\ ~s.hidden_scan_on
        THEN DoHiddenScan([s1 EXCEPT !.hidden_scan_on = TRUE], c.scanOk)
        ELSE NoAssociation(s1, c.scanOk)

-----------------------------------------------------------------------------
(* The handlers run by handle_message (lines 4382-4652).  Each returns    *)
(* the struct after the handler with sta_state already set to the *next   *)
(* that cm_main stores (lines 4720-4726).                                 *)

(* CM_STA_USER_REQUEST_CONNECT (lines 4395-4404).                         *)
HandleConnect(s, m, cmdOk) ==
    IF ~s.assoc_paused
    THEN RequestConnect([s EXCEPT !.pending_assoc_request = FALSE], m.arg, cmdOk)
    ELSE [s EXCEPT !.pending_assoc_request = TRUE]

(* Mutant: a disconnect during a connect scan leaves SCANNING alone.       *)
RequestDisconnectNoScanning(s, noIf) ==
    LET s1 == IfDown(s)
        s2 == IF Rank(s1.sta_state) >= Rank("ASSOCIATING") /\ ~IsUserScanning(s1)
              THEN [Deauth(s1) EXCEPT !.sta_state = "IDLE", !.sta_ipv4_state = "IDLE"]
              ELSE s1
    IN  IF noIf \/ Rank(s1.sta_state) < Rank("IDLE") \/ IsState(s1, "IDLE")
        THEN [s1 EXCEPT !.wakelock = @ - 1]
        ELSE [PutConnectWakelock(s2) EXCEPT !.wakelock = @ - 1]

(* wlcm_request_disconnect (lines 4078-4205).  noIf: net_get_mlan_handle  *)
(* was not called because curr_nw->type was read as not STA; with         *)
(* cur_network_idx == -1 that read is of wlan.networks[-1].               *)
RequestDisconnect(s, noIf) ==
    LET s1 == IfDown(s)
        s2 == IF IsUserScanning(s1) /\ s1.sta_return_to # "IDLE"
              THEN IF Rank(s1.sta_return_to) >= Rank("ASSOCIATING")
                   THEN [Deauth(s1) EXCEPT !.sta_return_to = "IDLE",
                                           !.sta_state = "IDLE",
                                           !.sta_ipv4_state = "IDLE"]
                   ELSE s1
              ELSE IF Rank(s1.sta_state) >= Rank("ASSOCIATING")
              THEN LET d == Deauth(s1)
                       t == IF d.is_scan_lock THEN PutScanLock(d) ELSE d
                   IN  [t EXCEPT !.sta_state = "IDLE", !.sta_ipv4_state = "IDLE"]
              ELSE IF s1.sta_state = "SCANNING"
              THEN [s1 EXCEPT !.sta_state = "IDLE", !.sta_ipv4_state = "IDLE"]
              ELSE s1
        r2 == Report(s2, "USER_DISCONNECT")
        s3 == IF ReassocControl /\ r2.reassoc_request
              THEN [r2 EXCEPT !.scan_count = WLAN_RESCAN_LIMIT,
                              !.reassoc_count = WLAN_RECONNECT_LIMIT,
                              !.reassoc_request = FALSE]
              ELSE r2
    IN  IF noIf THEN [s EXCEPT !.wakelock = @ - 1]
        ELSE IF Rank(s1.sta_state) < Rank("IDLE") \/ IsState(s1, "IDLE")
        THEN [s1 EXCEPT !.wakelock = @ - 1]
        ELSE [PutConnectWakelock(s3) EXCEPT !.wakelock = @ - 1]

(* Mutant: a refused user scan keeps the scan lock.                       *)
RequestScanLeak(s, cmdOk) ==
    IF ~IsScanningAllowed(s) THEN PutScanLock(s)
    ELSE IF ~cmdOk THEN s
    ELSE [s EXCEPT !.fw_pipe = Append(@, "scan"), !.scan_cb = TRUE,
                   !.sta_return_to = s.sta_state, !.sta_state = "SCANNING_USER"]

(* wlcm_request_scan (lines 4003-4061).                                   *)
RequestScan(s, cmdOk) ==
    IF ~IsScanningAllowed(s) \/ ~cmdOk
    THEN PutScanLock(s)
    ELSE [s EXCEPT !.fw_pipe = Append(@, "scan"),
                   !.scan_cb = TRUE,
                   !.sta_return_to = s.sta_state,
                   !.sta_state = "SCANNING_USER"]

(* wlcm_process_scan_result_event (lines 2287-2336); report_scan_results  *)
(* (lines 1746-1758) calls and clears the user's scan callback.           *)
ProcessScanResult(s, r, c) ==
    IF s.sta_state = "SCANNING"
    THEN PutScanLock(HandleScanResults(s, r, c))
    ELSE IF s.sta_state = "SCANNING_USER"
    THEN PutScanLock([s EXCEPT !.scan_cb = FALSE, !.sta_state = s.sta_return_to])
    ELSE IF s.roam_reassoc /\ s.sta_state = "CONNECTED"
    THEN HandleScanResults(s, r, c)
    ELSE PutScanLock(s)

(* wlcm_process_association_event (lines 2545-2604).                      *)
ProcessAssociation(s, m, cmdOk) ==
    IF ~IsState(s, "ASSOCIATING") THEN s
    ELSE IF m.ok
    THEN [s EXCEPT !.sta_state = "ASSOCIATED", !.scan_count = 0]
    ELSE IF s.scan_count < WLAN_RESCAN_LIMIT
    THEN DoScan(s, cmdOk)
    ELSE MaybeReconnect(DoConnectFailed(s, "NETWORK_NOT_FOUND"), cmdOk)

(* wlcm_process_authentication_event (lines 2620-2757).  addrOk is the    *)
(* result of net_configure_address, which starts the static or DHCP       *)
(* configuration answered by NET_STA_ADDR_CONFIG.                         *)
ProcessAuthentication(s, m, addrOk, cmdOk) ==
    LET n == s.cur_network_idx
        f1 == IF m.arg = MIC_FAILURE
              THEN [s EXCEPT !.assoc_paused = TRUE, !.assoc_timer = TRUE]
              ELSE s
        f2 == IF IsState(f1, "REQUESTING_ADDRESS") \/ IsState(f1, "OBTAINING_ADDRESS")
              THEN IfDown(f1) ELSE f1
        f3 == IF IsState(f2, "ASSOCIATED") THEN Deauth(f2) ELSE f2
        f4 == DoConnectFailed([f3 EXCEPT !.sta_state = "IDLE",
                                         !.sta_ipv4_state = "IDLE"],
                              "NETWORK_AUTH_FAILED")
        ok == Report(s, "AUTH_SUCCESS")
    IN  IF \A st \in {"ASSOCIATING", "ASSOCIATED", "REQUESTING_ADDRESS",
                      "OBTAINING_ADDRESS", "CONNECTED"} : ~IsState(s, st)
        THEN PutConnectWakelock(s)
        ELSE IF m.ok
        THEN IF addrOk
             THEN [ok EXCEPT !.sta_state = "REQUESTING_ADDRESS",
                             !.sta_ipv4_state = "REQUESTING_ADDRESS",
                             !.ip_owed = @ \cup {"addr"},
                             !.dhcp_on = (AddrType[n] = "dhcp")]
             ELSE DoConnectFailed(ok, "ADDRESS_FAILED")
        ELSE MaybeReconnect(f4, cmdOk)

(* wlcm_process_sta_addr_config_event (lines 2338-2419).                  *)
ProcessAddrConfig(s, m) ==
    IF ~IsState(s, "REQUESTING_ADDRESS") THEN PutConnectWakelock(s)
    ELSE IF ~m.ok THEN DoConnectFailed(s, "ADDRESS_FAILED")
    ELSE IF AddrType[s.cur_network_idx] = "static"
    THEN Report(PutConnectWakelock(Connected(s)), "SUCCESS")
    ELSE [s EXCEPT !.sta_state = "OBTAINING_ADDRESS",
                   !.sta_ipv4_state = "OBTAINING_ADDRESS"]

(* wlcm_process_net_dhcp_config (lines 3232-3361): the guard is the IPv4  *)
(* address state, not sta_state; otherwise it is a lease renewal.         *)
ProcessDhcpConfig(s, m, cmdOk) ==
    IF s.sta_ipv4_state = "OBTAINING_ADDRESS"
    THEN LET s1 == PutConnectWakelock(s)
         IN  IF ~m.ok
             THEN MaybeReconnect(DoConnectFailed(s1, "ADDRESS_FAILED"), cmdOk)
             ELSE Report(Connected(s1), "SUCCESS")
    ELSE IF ~m.ok /\ s.sta_ipv4_state = "CONNECTED"
    THEN MaybeReconnect(DoConnectFailed(s, "ADDRESS_FAILED"), cmdOk)
    ELSE IF m.ok THEN Report(s, "ADDRESS_SUCCESS")
    ELSE s

(* wlcm_process_link_loss_event (lines 3107-3200).                        *)
ProcessLinkLoss(s, m, cmdOk) ==
    LET s1 == IfDown(s)
        s2 == IF IsState(s1, "CONNECTED")
              THEN LET t == [s1 EXCEPT !.sta_state = "IDLE",
                                       !.sta_ipv4_state = "IDLE"]
                   IN  Report(IF m.arg = MIC_FAILURE THEN WlanDisconnect(t) ELSE t,
                              "LINK_LOST")
              ELSE DoConnectFailed(s1, IF m.arg = HANDSHAKE_TIMEOUT
                                       THEN "NETWORK_AUTH_FAILED"
                                       ELSE "NETWORK_NOT_FOUND")
    IN  IF IsState(s, "IDLE") THEN s ELSE MaybeReconnect(s2, cmdOk)

(* wlcm_process_disassoc_event (lines 3203-3224).                         *)
ProcessDisassoc(s, cmdOk) ==
    MaybeReconnect(DoConnectFailed([s EXCEPT !.sta_state = "IDLE"],
                                   "NETWORK_AUTH_FAILED"), cmdOk)

(* wlcm_process_net_if_config_event (lines 3729-3790).                    *)
ProcessNetIfConfig(s, m) ==
    IF s.sta_state = "INITIALIZING" /\ m.ok
    THEN [s EXCEPT !.sta_state = "IDLE"]
    ELSE s

-----------------------------------------------------------------------------
(* wlan_start (lines 4950-5101): INITIALIZING, the scan lock created      *)
(* free, and net_wlan_init in cm_main owing the interface configuration;  *)
(* or the IDLE state that a successful NET_INTERFACE_CONFIG leads to.     *)
Init ==
    /\ w = [sta_state |-> StartState, sta_ipv4_state |-> "IDLE",
            sta_return_to |-> "IDLE", cur_network_idx |-> NoNet,
            scan_count |-> 0, hidden_scan_on |-> FALSE,
            roam_reassoc |-> FALSE, reassoc_count |-> 0,
            reassoc_request |-> FALSE, assoc_paused |-> FALSE,
            pending_assoc_request |-> FALSE, assoc_timer |-> FALSE,
            scan_lock |-> 1, is_scan_lock |-> FALSE, scan_cb |-> FALSE,
            wakelock |-> 0, connect_wakelock_taken |-> FALSE,
            events |-> <<>>, fw_pipe |-> <<>>, fw_link |-> FALSE,
            ip_owed |-> IF StartState = "INITIALIZING" THEN {"ifcfg"} ELSE {},
            dhcp_on |-> FALSE, cb |-> <<>>, clear_owed |-> FALSE]
    /\ pc = [u \in Users |-> Idle]
    /\ calls = 0
    /\ drops = 0

(* One iteration of cm_main (lines 4678-4745) for a STA message: the head *)
(* of the queue is removed before its handler runs, so the handler's own  *)
(* posts land behind the rest of the queue.                               *)
Received(ev) == ~w.clear_owed /\ w.events # <<>> /\ Head(w.events).ev = ev

(* wlan.cb is called from inside the handler, so the reports a step      *)
(* makes are those of that step alone.                                    *)
Quiet == [w EXCEPT !.cb = <<>>]

Rest == [Quiet EXCEPT !.events = Tail(@)]

ScanResultsSeen ==
    [match : BOOLEAN, same : BOOLEAN, hidden : BOOLEAN, mem : {TRUE}]

CommandResults == [secOk : BOOLEAN, assocOk : BOOLEAN, scanOk : BOOLEAN]

DispatchConnect ==
    /\ Received("Connect")
    /\ \E ok \in BOOLEAN : w' = HandleConnect(Rest, Head(w.events), ok)
    /\ UNCHANGED <<pc, calls, drops>>

DispatchDisconnect ==
    /\ Received("Disconnect")
    /\ \E noIf \in IF w.cur_network_idx = NoNet THEN BOOLEAN ELSE {FALSE} :
           w' = RequestDisconnect(Rest, noIf)
    /\ UNCHANGED <<pc, calls, drops>>

DispatchScan ==
    /\ Received("Scan")
    /\ \E ok \in BOOLEAN : w' = RequestScan(Rest, ok)
    /\ UNCHANGED <<pc, calls, drops>>

DispatchScanResult ==
    /\ Received("ScanResult")
    /\ \E r \in ScanResultsSeen, c \in CommandResults :
           w' = ProcessScanResult(Rest, r, c)
    /\ UNCHANGED <<pc, calls, drops>>

DispatchAssociation ==
    /\ Received("Association")
    /\ \E ok \in BOOLEAN : w' = ProcessAssociation(Rest, Head(w.events), ok)
    /\ UNCHANGED <<pc, calls, drops>>

DispatchAuthentication ==
    /\ Received("Authentication")
    /\ \E addrOk, ok \in BOOLEAN :
           w' = ProcessAuthentication(Rest, Head(w.events), addrOk, ok)
    /\ UNCHANGED <<pc, calls, drops>>

DispatchAddrConfig ==
    /\ Received("AddrConfig")
    /\ w' = ProcessAddrConfig(Rest, Head(w.events))
    /\ UNCHANGED <<pc, calls, drops>>

DispatchDhcpConfig ==
    /\ Received("DhcpConfig")
    /\ \E ok \in BOOLEAN : w' = ProcessDhcpConfig(Rest, Head(w.events), ok)
    /\ UNCHANGED <<pc, calls, drops>>

DispatchLinkLoss ==
    /\ Received("LinkLoss")
    /\ \E ok \in BOOLEAN : w' = ProcessLinkLoss(Rest, Head(w.events), ok)
    /\ UNCHANGED <<pc, calls, drops>>

DispatchDisassoc ==
    /\ Received("Disassociation")
    /\ \E ok \in BOOLEAN : w' = ProcessDisassoc(Rest, ok)
    /\ UNCHANGED <<pc, calls, drops>>

DispatchNetIfConfig ==
    /\ Received("NetIfConfig")
    /\ w' = ProcessNetIfConfig(Rest, Head(w.events))
    /\ UNCHANGED <<pc, calls, drops>>

-----------------------------------------------------------------------------
(* The firmware answers the commands it accepted, in order.  Its events   *)
(* are assumed to wait for room in the queue rather than be dropped.      *)
FwHead == Head(w.fw_pipe)

FwReady(ev) == w.fw_pipe # <<>> /\ FwHead = ev /\ CanSend(w)

FwAnswer(m) == [Quiet EXCEPT !.fw_pipe = Tail(@), !.events = Append(@, m)]

FwScanDone ==
    /\ FwReady("scan")
    /\ \E ok \in BOOLEAN : w' = FwAnswer(Msg("ScanResult", ok, 0))
    /\ UNCHANGED <<pc, calls, drops>>

(* A successful association brings the link up and the firmware then      *)
(* runs the authentication / 4-way handshake.                             *)
FwAssocResult ==
    /\ FwReady("assoc")
    /\ \E ok \in BOOLEAN :
           w' = IF ok
                THEN [FwAnswer(Msg("Association", TRUE, 0)) EXCEPT
                        !.fw_link = TRUE,
                        !.fw_pipe = Append(@, "auth")]
                ELSE FwAnswer(Msg("Association", FALSE, 0))
    /\ UNCHANGED <<pc, calls, drops>>

FwAuthResult ==
    /\ FwReady("auth")
    /\ \/ w' = FwAnswer(Msg("Authentication", TRUE, 0))
       \/ \E r \in {MIC_FAILURE, UNSPECIFIED} :
             w' = [FwAnswer(Msg("Authentication", FALSE, r)) EXCEPT !.fw_link = FALSE]
    /\ UNCHANGED <<pc, calls, drops>>

(* The link drops on its own: beacon loss, a bad MIC, a handshake timeout *)
(* or a disassociation by the AP.                                         *)
FwLinkDown ==
    /\ w.fw_link /\ drops < MaxDrops
    /\ drops' = drops + 1
    /\ \E ev \in {"linkloss", "disassoc"} :
           w' = [Quiet EXCEPT !.fw_link = FALSE,
                          !.fw_pipe = Append(Cancel(@), ev)]
    /\ UNCHANGED <<pc, calls>>

FwLinkEvent ==
    /\ \/ /\ FwReady("linkloss")
          /\ \E r \in Reasons : w' = FwAnswer(Msg("LinkLoss", FALSE, r))
       \/ /\ FwReady("disassoc")
          /\ w' = FwAnswer(Msg("Disassociation", FALSE, 0))
    /\ UNCHANGED <<pc, calls, drops>>

(* The IP stack answers net_wlan_init and net_configure_address, and the  *)
(* DHCP client reports each lease it obtains or fails to obtain.          *)
IpIfConfig ==
    /\ "ifcfg" \in w.ip_owed /\ CanSend(w)
    /\ \E ok \in BOOLEAN :
           w' = [Quiet EXCEPT !.ip_owed = @ \ {"ifcfg"},
                          !.events = Append(@, Msg("NetIfConfig", ok, 0))]
    /\ UNCHANGED <<pc, calls, drops>>

IpAddrConfig ==
    /\ "addr" \in w.ip_owed /\ CanSend(w)
    /\ \E ok \in BOOLEAN :
           w' = [Quiet EXCEPT !.ip_owed = @ \ {"addr"},
                          !.events = Append(@, Msg("AddrConfig", ok, 0))]
    /\ UNCHANGED <<pc, calls, drops>>

(* A DHCP report is only generated while the manager is obtaining or     *)
(* holding an IPv4 address: in any other IPv4 state the handler ignores   *)
(* it, and it is the same as a report generated later.                    *)
IpDhcpResult ==
    /\ w.dhcp_on /\ CanSend(w)
    /\ w.sta_ipv4_state \in {"OBTAINING_ADDRESS", "CONNECTED"}
    /\ \A i \in DOMAIN w.events : w.events[i].ev # "DhcpConfig"
    /\ \E ok \in BOOLEAN :
           w' = [Quiet EXCEPT !.events = Append(@, Msg("DhcpConfig", ok, 0))]
    /\ UNCHANGED <<pc, calls, drops>>

(* assoc_timer_cb (lines 4902-4910), BAD_MIC_TIMEOUT after a MIC failure: *)
(* the pause ends and a pending connect is re-posted for network 0.       *)
AssocTimerExpiry ==
    /\ w.assoc_timer
    /\ w' = LET s == [Quiet EXCEPT !.assoc_timer = FALSE, !.assoc_paused = FALSE]
            IN  IF s.pending_assoc_request THEN Send(s, Msg("Connect", TRUE, 0))
                                           ELSE s
    /\ UNCHANGED <<pc, calls, drops>>

-----------------------------------------------------------------------------
(* The user API.  The calls that take the scan lock block on it with      *)
(* OS_WAIT_FOREVER, so each is split at the os_semaphore_get: the checks  *)
(* before it and the rest after it.                                       *)

(* A user thread enters the API.                                         *)
Called == calls < MaxCalls /\ calls' = calls + 1 /\ drops' = drops

(* wlan_connect (lines 6259-6312), up to the lock: roam_reassoc is        *)
(* cleared before the thread blocks.                                      *)
ApiConnect(u, n) ==
    /\ pc[u] = Idle /\ Called
    /\ w' = [Quiet EXCEPT !.roam_reassoc = FALSE]
    /\ pc' = [pc EXCEPT ![u] = [op |-> "connect", net |-> n]]

(* wlan_connect after the lock: a request that cannot be posted returns   *)
(* -WM_FAIL still holding the lock.                                       *)
ConnectGotLock(u) ==
    /\ pc[u].op = "connect"
    /\ w.scan_lock > 0
    /\ w' = Send([Quiet EXCEPT !.scan_lock = @ - 1, !.is_scan_lock = TRUE,
                           !.reassoc_count = 0],
                 Msg("Connect", TRUE, pc[u].net))
    /\ pc' = [pc EXCEPT ![u] = Idle]
    /\ UNCHANGED <<calls, drops>>

(* wlan_reassociate (lines 6314-6367), up to the lock.                    *)
ApiReassociate(u) ==
    /\ pc[u] = Idle /\ Called
    /\ w.sta_state = "CONNECTED"
    /\ pc' = [pc EXCEPT ![u] = [op |-> "reassoc", net |-> 0]]
    /\ w' = Quiet

(* wlan_reassociate after the lock: a failed post gives the lock back     *)
(* (lines 6358-6363), and the thread clears is_scan_lock only after the   *)
(* put, in ReassociateClearFlag.                                          *)
ReassociateGotLock(u) ==
    /\ pc[u].op = "reassoc"
    /\ w.scan_lock > 0
    /\ IF CanSend(w)
       THEN /\ w' = Send([Quiet EXCEPT !.scan_lock = @ - 1, !.is_scan_lock = TRUE,
                                      !.roam_reassoc = TRUE],
                         Msg("Connect", TRUE, w.cur_network_idx))
            /\ pc' = [pc EXCEPT ![u] = Idle]
       ELSE /\ w' = [Quiet EXCEPT !.roam_reassoc = FALSE, !.is_scan_lock = TRUE]
            /\ pc' = [pc EXCEPT ![u] = [op |-> "clear", net |-> 0]]
    /\ UNCHANGED <<calls, drops>>

ReassociateClearFlag(u) ==
    /\ pc[u].op = "clear"
    /\ w' = [Quiet EXCEPT !.is_scan_lock = FALSE]
    /\ pc' = [pc EXCEPT ![u] = Idle]
    /\ UNCHANGED <<calls, drops>>

(* wlan_scan_with_opt (lines 6699-6744), up to the lock: the state is     *)
(* checked before the thread blocks.                                      *)
ApiScan(u) ==
    /\ pc[u] = Idle /\ Called
    /\ IsRunning(w) /\ IsScanningAllowed(w)
    /\ pc' = [pc EXCEPT ![u] = [op |-> "scan", net |-> 0]]
    /\ w' = Quiet

(* wlan_scan_with_opt after the lock: a failed post keeps the lock.       *)
ScanGotLock(u) ==
    /\ pc[u].op = "scan"
    /\ w.scan_lock > 0
    /\ w' = Send([Quiet EXCEPT !.scan_lock = @ - 1, !.is_scan_lock = TRUE],
                 Msg("Scan", TRUE, 0))
    /\ pc' = [pc EXCEPT ![u] = Idle]
    /\ UNCHANGED <<calls, drops>>

(* wlan_disconnect (lines 6241-6257) from a user thread.                  *)
ApiDisconnect(u) ==
    /\ pc[u] = Idle /\ Called
    /\ w' = WlanDisconnect(Quiet)
    /\ UNCHANGED pc

(* The dispatcher's wlan.is_scan_lock = 0 after its put of the lock.     *)
ClearScanLockFlag ==
    /\ w.clear_owed
    /\ w' = [Quiet EXCEPT !.is_scan_lock = FALSE, !.clear_owed = FALSE]
    /\ UNCHANGED <<pc, calls, drops>>

-----------------------------------------------------------------------------
Dispatch ==
    \/ ClearScanLockFlag \/ DispatchConnect \/ DispatchDisconnect \/ DispatchScan
    \/ DispatchScanResult \/ DispatchAssociation \/ DispatchAuthentication
    \/ DispatchAddrConfig \/ DispatchDhcpConfig \/ DispatchLinkLoss
    \/ DispatchDisassoc \/ DispatchNetIfConfig

Firmware ==
    FwScanDone \/ FwAssocResult \/ FwAuthResult \/ FwLinkDown \/ FwLinkEvent

IpStack == IpIfConfig \/ IpAddrConfig \/ IpDhcpResult

User(u) ==
    \/ \E n \in Nets : ApiConnect(u, n)
    \/ ConnectGotLock(u) \/ ApiReassociate(u) \/ ReassociateGotLock(u)
    \/ ReassociateClearFlag(u)
    \/ ApiScan(u) \/ ScanGotLock(u) \/ ApiDisconnect(u)

Next ==
    \/ Dispatch \/ Firmware \/ IpStack \/ AssocTimerExpiry
    \/ \E u \in Users : User(u)

Spec == Init /\ [][Next]_vars

(* cm_main never stops taking messages; the firmware and the IP stack     *)
(* answer what they accepted; the one-shot timer fires; a thread blocked  *)
(* in os_semaphore_get is woken by a put that finds it waiting.           *)
FairSpec ==
    /\ Spec
    /\ WF_vars(Dispatch) /\ WF_vars(Firmware) /\ WF_vars(IpStack)
    /\ WF_vars(AssocTimerExpiry)
    /\ \A u \in Users :
          /\ SF_vars(ConnectGotLock(u) \/ ReassociateGotLock(u) \/ ScanGotLock(u))
          /\ WF_vars(ReassociateClearFlag(u))

-----------------------------------------------------------------------------
(* The callback contract of wlan.h, seen through wlan_get_connection_state *)
(* and the reports wlan.cb receives.                                      *)
Api == INSTANCE WlanStaApi
           WITH conn <- ConnState(w), cb <- w.cb, roaming <- w.roam_reassoc

(* Every field of the struct keeps the type the code gives it.            *)
TypeOK ==
    /\ w.sta_state \in StaState /\ w.sta_return_to \in StaState
    /\ w.sta_ipv4_state \in StaState
    /\ w.cur_network_idx \in Nets \cup {NoNet}
    /\ w.scan_count \in Nat /\ w.reassoc_count \in Nat
    /\ w.scan_lock \in {0, 1} /\ w.wakelock \in Int
    /\ {w.hidden_scan_on, w.roam_reassoc, w.reassoc_request, w.assoc_paused,
        w.pending_assoc_request, w.assoc_timer, w.is_scan_lock, w.scan_cb,
        w.connect_wakelock_taken, w.fw_link, w.dhcp_on, w.clear_owed} \subseteq BOOLEAN
    /\ w.events \in Seq(Message) /\ Len(w.events) <= MAX_EVENTS
    /\ w.fw_pipe \in Seq(FwItem)
    /\ w.ip_owed \subseteq {"ifcfg", "addr"}
    /\ w.cb \in Seq(Api!Reports)
    /\ pc \in [Users -> [op : {"idle", "connect", "reassoc", "scan", "clear"}, net : Nets \cup {NoNet}]]

(* Scans the firmware has accepted and whose results the dispatcher has   *)
(* not yet consumed.                                                      *)
ScansOutstanding ==
    Len(SelectSeq(w.fw_pipe, LAMBDA e : e = "scan"))
      + Len(SelectSeq(w.events, LAMBDA m : m.ev = "ScanResult" /\ m.ok))

InPipe(e) == \E i \in DOMAIN w.fw_pipe : w.fw_pipe[i] = e

Queued(ev) == \E i \in DOMAIN w.events : w.events[i].ev = ev

(* The firmware or the queue still carries news that the link is gone.   *)
LinkEventPending ==
    \/ InPipe("linkloss") \/ InPipe("disassoc")
    \/ \E ev \in {"LinkLoss", "Disassociation", "Authentication", "Disconnect"} :
          Queued(ev)

(* The retry counters of do_scan, handle_scan_results and                 *)
(* wlcm_request_reconnect never pass their limits (spec 8.6): the rescan  *)
(* test "scan_count < WLAN_RESCAN_LIMIT" and the reconnect test           *)
(* "reassoc_count < WLAN_RECONNECT_LIMIT" guard every increment.          *)
RetryCountsBounded ==
    /\ w.scan_count <= WLAN_RESCAN_LIMIT
    /\ w.reassoc_count <= WLAN_RECONNECT_LIMIT

(* The scan lock admits one scan at a time (spec 4.2, 8.1): the firmware  *)
(* is never running, or holding results of, two scans at once, whether    *)
(* issued by do_scan for a connect or by wlcm_request_scan for a user.    *)
OneScanInFlight == ScansOutstanding <= 1

(* Every put of the wake lock matches an earlier get (spec 8.7): the      *)
(* connect wake lock taken by wlcm_request_connect is put once, by         *)
(* do_connect_failed or by the handler that completes the connection.     *)
WakelockPutsMatchGets == w.wakelock >= 0

(* When cm_main sets CONNECTED the firmware holds the link, or news that   *)
(* the link is gone is on its way (link loss, disassociation, a failed    *)
(* authentication or a disconnect request).                               *)
ConnectedMeansLinked == w.sta_state = "CONNECTED" => w.fw_link \/ LinkEventPending

(* A scan callback stashed by wlcm_request_scan is still owed only while  *)
(* the STA is in SCANNING_USER: wlcm_process_scan_result_event delivers   *)
(* it there and nowhere else (spec 4.2).                                   *)
UserScanCallbackDelivered == w.scan_cb => IsUserScanning(w)

(* A user scan returns to the stable state it was started from, IDLE or   *)
(* CONNECTED, as is_scanning_allowed requires (spec 4.2).                 *)
UserScanReturnsToStableState ==
    IsUserScanning(w) => w.sta_return_to \in {"IDLE", "CONNECTED"}

(* CONNECTED is reached with an IPv4 address: the address-config and DHCP *)
(* handlers set both states together, and a roam ends in CONNECTED only   *)
(* from a connection that had its address.                                *)
ConnectedHasAddress ==
    w.sta_state = "CONNECTED" => w.sta_ipv4_state = "CONNECTED"

(* While the association is paused after a MIC failure (spec 4.3), no     *)
(* dispatcher step issues an association command.                         *)
NoAssociationWhilePaused ==
    [][w.assoc_paused /\ w'.assoc_paused =>
         Len(SelectSeq(w'.fw_pipe, LAMBDA e : e = "assoc"))
           <= Len(SelectSeq(w.fw_pipe, LAMBDA e : e = "assoc"))]_vars

LockGranted == \A u \in Users : pc[u].op # "idle" ~> pc[u].op = "idle"

(* A disconnect request queued while the STA runs (is_running: past      *)
(* INITIALIZING) brings it to IDLE (spec 5, cancellation) through         *)
(* wlcm_request_disconnect.                                               *)
DisconnectReachesIdle ==
    Queued("Disconnect") /\ IsRunning(w) ~> IsState(w, "IDLE")

(* Whenever the scan lock is taken, the thread that took it has set      *)
(* is_scan_lock, or the put that will free it is already under way: the    *)
(* conditional puts of wlcm_request_disconnect and wlcm_request_connect     *)
(* (if (wlan.is_scan_lock)) rely on it to free the lock (spec 8.2).         *)
ScanLockOwned ==
    w.scan_lock = 0 => w.is_scan_lock \/ w.clear_owed

(* Every step of the manager keeps the promises wlan.h makes about the    *)
(* callback: each CONNECTION_EVENT is made in the state its reason        *)
(* documents, do_connect_failed and the address handlers report before    *)
(* the application can see WLAN_DISCONNECTED, and every way into          *)
(* CM_STA_CONNECTED calls back with WLAN_REASON_SUCCESS.                  *)
CallbackContract == Api!Spec
=============================================================================
