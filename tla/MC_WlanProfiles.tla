-------------------------- MODULE MC_WlanProfiles --------------------------
(* Constants of WlanProfiles for TLC.                                      *)
EXTENDS WlanProfiles

CONSTANTS n1, n2

MC_Names == {n1, n2}

Sec(type, psk, hex, password, mfpc, mfpr) ==
    [type |-> type, psk_len |-> psk, psk_hex |-> hex,
     password_len |-> password, mfpc |-> mfpc, mfpr |-> mfpr]

Net(role, channel, sec, addrType, gwIsAddress) ==
    [role |-> role, ssid |-> TRUE, bssid |-> FALSE, channel |-> channel,
     security |-> sec, ip |-> [addr_type |-> addrType,
                               gw_is_address |-> gwIsAddress]]

(* The networks callers pass: a WPA2 network with an 8-character          *)
(* passphrase, an open network on channel 6, a WPA3-SAE network that is   *)
(* PMF capable but not PMF required, a WEP network, and an auto-channel   *)
(* WPA2 uAP with a static address.                                         *)
MC_Inputs ==
    { Net("sta", 0, Sec("WPA2", 8, FALSE, 0, FALSE, FALSE), "DHCP", TRUE),
      Net("sta", 6, Sec("NONE", 0, FALSE, 0, FALSE, FALSE), "DHCP", TRUE),
      Net("sta", 0, Sec("WPA3_SAE", 0, FALSE, 8, TRUE, FALSE), "DHCP", TRUE),
      Net("sta", 0, Sec("WEP_OPEN", 0, FALSE, 0, FALSE, FALSE), "DHCP", TRUE),
      Net("uap", 0, Sec("WPA2", 8, FALSE, 0, FALSE, FALSE), "STATIC", TRUE) }

NameSymmetry == Permutations(MC_Names)
=============================================================================
