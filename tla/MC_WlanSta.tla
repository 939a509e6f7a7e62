------------------------------ MODULE MC_WlanSta ------------------------------
(* Instances of WlanSta for TLC: one profile slot (two where a uAP         *)
(* profile is wanted), one or two user threads and a queue of two.         *)
EXTENDS WlanSta, TLC

UserSymmetry == Permutations(Users)

(* Slot 0 uses DHCP, so both the static and the DHCP address paths are    *)
(* reached when a second slot is present.                                  *)
MC_AddrType == [n \in Nets |-> IF n = 0 THEN "dhcp" ELSE "static"]

(* Every slot static: no DHCP client runs.                              *)
MC_AddrStatic == [n \in Nets |-> "static"]

MC_Role == [n \in Nets |-> "sta"]

(* Slot 1, when present, holds a uAP profile.                             *)
MC_RoleMixed == [n \in Nets |-> IF n = 0 THEN "sta" ELSE "uap"]

MC_SsidSpecific == [n \in Nets |-> FALSE]

(* Profiles given with an SSID, so a hidden-SSID probe is possible.       *)
MC_SsidGiven == [n \in Nets |-> TRUE]

(* The wake-lock count and the firmware pipe only grow without limit on   *)
(* paths already reported by a violated property.                         *)
StateBound ==
    /\ w.wakelock \in -1..2
    /\ Len(w.fw_pipe) <= 2
====
