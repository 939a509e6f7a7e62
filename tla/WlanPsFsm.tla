------------------------------ MODULE WlanPsFsm ------------------------------
(***************************************************************************)
(* The two power-save state machines of wlan.c, wlan_ieeeps_sm and         *)
(* wlan_deepsleepps_sm, as pure operators.  Each takes the machine's       *)
(* fields and an event, runs the switch of its current state, and, when    *)
(* the state changed, runs again with the event ENTER (the while loop).    *)
(* The fields are a record                                                 *)
(*   [state, prev, cm_ps_state, g_req_sl_confirm, sent]                    *)
(* where prev is wlan.ieeeps_prev_state and sent the firmware commands the *)
(* calls issued, in order.  The world they read is a record env:           *)
(* whether the driver has a transfer pending, host sleep is configured,    *)
(* the host-sleep command succeeds, the uAP is started, the STA is         *)
(* CONNECTED.                                                              *)
(***************************************************************************)
EXTENDS Sequences, SequencesExt

(* enum wlan_ieeeps_state and enum wlan_deepsleepps_state.                 *)
PsFsmStates == {"INIT", "CONFIGURING", "AWAKE", "PRE_SLEEP", "SLEEP",
                "PRE_DISABLE", "DISABLING"}

(* enum wlan_ieeeps_event and enum wlan_deepsleepps_event.                 *)
PsFsmEvents == {"ENTER", "ENABLE", "ENABLE_DONE", "AWAKE", "SLEEP",
                "SLP_CFM", "DISABLE", "DISABLE_DONE"}

(* enum wlan_ps_state: the driver-facing sleep state cm_ps_state.          *)
PsStates == {"AWAKE", "PRE_SLEEP", "SLEEP_CFM", "SLEEP"}

Envs == [xfer_pending : BOOLEAN, hs_configured : BOOLEAN, hs_ok : BOOLEAN,
         uap_started : BOOLEAN, sta_connected : BOOLEAN]

Issue(f, cmd) == [f EXCEPT !.sent = Append(@, cmd)]

(* wlan_host_sleep_and_sleep_confirm: with a transfer pending, or when the *)
(* host-sleep command fails or neither interface is up, the sleep confirm  *)
(* is deferred to the dispatcher's next timeout; otherwise it is sent.     *)
HostSleepAndSleepConfirm(f, env) ==
    LET hs == IF env.hs_configured THEN Issue(f, "host_sleep") ELSE f
    IN  IF \/ env.xfer_pending
           \/ env.hs_configured
              /\ (~env.hs_ok \/ (~env.uap_started /\ ~env.sta_connected))
        THEN [IF env.xfer_pending THEN f ELSE hs
              EXCEPT !.g_req_sl_confirm = TRUE]
        ELSE [Issue(hs, "sleep_confirm")
              EXCEPT !.cm_ps_state = "SLEEP_CFM", !.g_req_sl_confirm = FALSE]

(* The state changes of wlan_ieeeps_sm, as <<state, event, next state>>.   *)
(* DISABLE in SLEEP passes through PRE_DISABLE when the STA is CONNECTED.  *)
IeeePsMoves(connected) ==
    { <<"INIT", "ENABLE_DONE", "CONFIGURING">>,
      <<"CONFIGURING", "AWAKE", "AWAKE">>,
      <<"CONFIGURING", "SLEEP", "PRE_SLEEP">>,
      <<"CONFIGURING", "DISABLE", "DISABLING">>,
      <<"AWAKE", "SLEEP", "PRE_SLEEP">>,
      <<"AWAKE", "DISABLE", "DISABLING">>,
      <<"PRE_SLEEP", "SLP_CFM", "SLEEP">>,
      <<"PRE_SLEEP", "DISABLE", "DISABLING">>,
      <<"SLEEP", "AWAKE", "AWAKE">>,
      <<"SLEEP", "SLEEP", "PRE_SLEEP">>,
      <<"SLEEP", "DISABLE", IF connected THEN "PRE_DISABLE" ELSE "DISABLING">>,
      <<"PRE_DISABLE", "ENTER", "DISABLING">>,
      <<"DISABLING", "DISABLE_DONE", "INIT">> }

(* The state changes of wlan_deepsleepps_sm: DISABLE is handled in SLEEP   *)
(* only.                                                                   *)
DeepSleepPsMoves ==
    { <<"INIT", "ENABLE_DONE", "CONFIGURING">>,
      <<"CONFIGURING", "SLEEP", "PRE_SLEEP">>,
      <<"AWAKE", "SLEEP", "PRE_SLEEP">>,
      <<"PRE_SLEEP", "SLP_CFM", "SLEEP">>,
      <<"SLEEP", "AWAKE", "AWAKE">>,
      <<"SLEEP", "DISABLE", "PRE_DISABLE">>,
      <<"PRE_DISABLE", "ENTER", "DISABLING">>,
      <<"DISABLING", "DISABLE_DONE", "INIT">> }

(* The next state a move table gives; a state with no move for the event  *)
(* stays.                                                                  *)
Target(moves, s, e) ==
    IF \E m \in moves : m[1] = s /\ m[2] = e
    THEN (CHOOSE m \in moves : m[1] = s /\ m[2] = e)[3]
    ELSE s

(* The side effects of one pass of wlan_ieeeps_sm's switch.  DISABLING     *)
(* exits IEEE power save on entry from an active state, and on the AWAKE   *)
(* that follows a DISABLE during PRE_SLEEP.                                *)
IeeePsEffect(f, e, env) ==
    CASE f.state = "INIT" /\ e = "ENABLE" -> Issue(f, "enter_ieee")
      [] f.state = "AWAKE" /\ e = "ENTER" -> [f EXCEPT !.cm_ps_state = "AWAKE"]
      [] f.state = "PRE_SLEEP" /\ e \in {"ENTER", "SLEEP"} ->
            HostSleepAndSleepConfirm(f, env)
      [] f.state = "PRE_SLEEP" /\ e = "DISABLE" ->
            [f EXCEPT !.g_req_sl_confirm = FALSE]
      [] f.state = "SLEEP" /\ e = "ENTER" -> [f EXCEPT !.g_req_sl_confirm = FALSE]
      [] f.state = "DISABLING"
         /\ \/ f.prev \in {"CONFIGURING", "AWAKE", "SLEEP", "PRE_DISABLE"} /\ e = "ENTER"
            \/ f.prev = "PRE_SLEEP" /\ e = "AWAKE" -> Issue(f, "exit_ieee")
      [] OTHER -> f

(* The side effects of one pass of wlan_deepsleepps_sm's switch.  Entering *)
(* PRE_SLEEP sends the sleep confirm at once (wlan_send_sleep_confirm).    *)
DeepSleepPsEffect(f, e) ==
    CASE f.state = "INIT" /\ e = "ENABLE" -> Issue(f, "enter_ds")
      [] f.state = "AWAKE" /\ e = "ENTER" -> [f EXCEPT !.cm_ps_state = "AWAKE"]
      [] f.state = "PRE_SLEEP" /\ e = "ENTER" ->
            [Issue(f, "sleep_confirm") EXCEPT !.cm_ps_state = "SLEEP_CFM"]
      [] f.state = "PRE_SLEEP" /\ e = "SLP_CFM" ->
            [f EXCEPT !.g_req_sl_confirm = FALSE]
      [] f.state = "DISABLING" /\ e = "ENTER" -> Issue(f, "exit_ds")
      [] OTHER -> f

(* wlan_ieeeps_sm: run the switch; on a state change remember the old     *)
(* state in ieeeps_prev_state and run again with ENTER.                    *)
RECURSIVE IeeePsSm(_, _, _)
IeeePsSm(f, e, env) ==
    LET g == IeeePsEffect(f, e, env)
        next == Target(IeeePsMoves(env.sta_connected), f.state, e)
    IN  IF next = f.state THEN g
        ELSE IeeePsSm([g EXCEPT !.prev = f.state, !.state = next], "ENTER", env)

(* wlan_deepsleepps_sm: the same loop, without a previous state.           *)
RECURSIVE DeepSleepPsSm(_, _)
DeepSleepPsSm(f, e) ==
    LET g == DeepSleepPsEffect(f, e)
        next == Target(DeepSleepPsMoves, f.state, e)
    IN  IF next = f.state THEN g
        ELSE DeepSleepPsSm([g EXCEPT !.state = next], "ENTER")

====
