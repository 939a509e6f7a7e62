----------------------------- MODULE WlanStaApi -----------------------------
(***************************************************************************)
(* What wlan.h promises an application about the station: the connection  *)
(* state wlan_get_connection_state reports, and the events the manager     *)
(* passes to the callback given to wlan_start.  A step of the manager      *)
(* may change the state and make any number of callback reports; each     *)
(* report carries the reason and the state the manager was in when it     *)
(* called back.  The promises are the ones the header's comments make:    *)
(* the state each event reason says the manager "is now in" (enum          *)
(* wlan_event_reason), that a connection attempt that succeeds is          *)
(* notified with WLAN_REASON_SUCCESS (wlan_connect, wlan_reassociate), and *)
(* that a connection that is lost, fails or is cancelled is notified       *)
(* before the application can see the station disconnected (wlan_connect,  *)
(* wlan_disconnect), and that a connect made while connecting or          *)
(* connected first reports the old attempt's end (wlan_connect).          *)
(***************************************************************************)
EXTENDS Sequences

VARIABLES
    conn,   \* the state wlan_get_connection_state would return
    cb,     \* the reports of the last step, in the order they were made
    roaming \* a wlan_reassociate attempt is under way

vars == <<conn, cb, roaming>>

(* The station's event reasons, the WLAN_REASON_ values.                  *)
EventReasons == {"SUCCESS", "AUTH_SUCCESS", "CONNECT_FAILED",
                 "NETWORK_NOT_FOUND", "NETWORK_AUTH_FAILED",
                 "ADDRESS_SUCCESS", "ADDRESS_FAILED", "LINK_LOST",
                 "USER_DISCONNECT"}

(* enum wlan_connection_state for the station, and the WLAN_ERROR_STATE   *)
(* returned while the manager is not running.                             *)
ConnStates == {"WLAN_DISCONNECTED", "WLAN_SCANNING", "WLAN_ASSOCIATING",
               "WLAN_ASSOCIATED", "WLAN_CONNECTING", "WLAN_CONNECTED",
               "NOT_RUNNING"}

Reports == [reason : EventReasons, state : ConnStates]

(* The state the comment of each reason says the manager is in when it is  *)
(* reported.  CONNECT_FAILED also covers a profile rejected before any     *)
(* attempt, LINK_LOST and ADDRESS_SUCCESS name no state.                   *)
DocState(r) ==
    CASE r = "SUCCESS"      -> {"WLAN_CONNECTED"}
      [] r = "AUTH_SUCCESS" -> {"WLAN_ASSOCIATED"}
      [] r \in {"NETWORK_NOT_FOUND", "NETWORK_AUTH_FAILED", "ADDRESS_FAILED",
                "USER_DISCONNECT"} -> {"WLAN_DISCONNECTED"}
      [] OTHER              -> ConnStates

Reported(r) == \E i \in DOMAIN cb' : cb'[i].reason = r

Init ==
    /\ conn \in {"NOT_RUNNING", "WLAN_DISCONNECTED"}
    /\ cb = <<>>
    /\ roaming = FALSE

(* One step of the manager.                                               *)
Step ==
    /\ conn' \in ConnStates
    /\ cb' \in Seq(Reports)
    /\ roaming' \in BOOLEAN
    \* every report is made in the state its reason documents
    /\ \A i \in DOMAIN cb' : cb'[i].state \in DocState(cb'[i].reason)
    \* entering WLAN_CONNECTED is notified with WLAN_REASON_SUCCESS, unless
    \* a reassociation returns to the AP it started from
    /\ conn' = "WLAN_CONNECTED" /\ conn # "WLAN_CONNECTED" /\ ~roaming
         => Reported("SUCCESS")
    \* falling back to WLAN_DISCONNECTED from an attempt or a connection is
    \* notified
    /\ conn' = "WLAN_DISCONNECTED" /\ conn \notin {"WLAN_DISCONNECTED", "NOT_RUNNING"}
         => cb' # <<>>
    \* a new attempt started from WLAN_CONNECTING or WLAN_CONNECTED first
    \* cancels or disconnects the old one with a report (wlan_connect)
    /\ conn \in {"WLAN_CONNECTING", "WLAN_CONNECTED"} /\ ~roaming'
       /\ conn' \in {"WLAN_SCANNING", "WLAN_ASSOCIATING"}
         => cb' # <<>>

Spec == Init /\ [][Step]_vars
=============================================================================
