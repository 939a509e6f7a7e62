---------------------------- MODULE ProfileStore ----------------------------
(***************************************************************************)
(* What the network-profile store of the connection manager promises its  *)
(* callers (spec 3 and 4.1): a map from unique names to profiles of at     *)
(* most Capacity entries.  add inserts a profile that satisfies the spec's *)
(* validity rules under a name not yet taken; remove deletes a name unless *)
(* it is the profile of a CONNECTED STA session (a guard this module      *)
(* leaves to the implementation); a stored profile is never rewritten.    *)
(***************************************************************************)
EXTENDS Naturals, FiniteSets, TLC

CONSTANTS Names, Profiles, Capacity

VARIABLE store

(* The spec's validity rules for a profile (spec 3 and 4.1), the reference  *)
(* the code's checks are compared with.                                    *)
PskOk(sec) == \/ sec.psk_len \in 8..63
              \/ sec.psk_len = 64 /\ sec.psk_hex
PasswordOk(sec) == sec.password_len \in 8..255
SpecValid(p) ==
    LET sec == p.security IN
    /\ p.ssid \/ p.bssid
    /\ p.role = "uap" => p.ip.gw_is_address
    /\ sec.type \in {"WPA", "WPA2", "WPA_WPA2_MIXED"} => PskOk(sec)
    /\ sec.type \in {"WPA3_SAE", "WPA2_WPA3_SAE_MIXED"} => PasswordOk(sec)
    /\ sec.type \in {"WPA3_SAE", "WPA2_SHA256"} => sec.mfpc
    /\ sec.type = "WPA3_SAE" => sec.mfpr

Init == store = <<>>

Add(n, p) ==
    /\ n \notin DOMAIN store
    /\ Cardinality(DOMAIN store) < Capacity
    /\ SpecValid(p)
    /\ store' = store @@ (n :> p)

Remove(n) ==
    /\ n \in DOMAIN store
    /\ store' = [m \in DOMAIN store \ {n} |-> store[m]]

Next == \E n \in Names : Remove(n) \/ \E p \in Profiles : Add(n, p)

Spec == Init /\ [][Next]_store
=============================================================================
