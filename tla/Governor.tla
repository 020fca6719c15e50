------------------------------ MODULE Governor ------------------------------
(***************************************************************************)
(* The bandwidth governor of a class (crates/xlb/src/bandwidth.rs): two    *)
(* flags, set by the application's power events or by probing the host,    *)
(* that replace the policy's caps by the passive ones.                     *)
(*                                                                         *)
(* Caps stand for their up_mbit; nothing reads down_mbit.                  *)
(***************************************************************************)
EXTENDS Integers

CONSTANTS Tier,     \* PeerTier
          policy,   \* BandwidthPolicy: the caps, numbers, of some of the tiers
          Power,    \* what /sys/class/power_supply may list: statuses, in its order
          Unknown   \* detect_battery's None

VARIABLES power,      \* the supplies of the host, which change without notice
          on_battery, metered,
          probe       \* what a probe under way has detected: {} or one answer

governorVars == <<power, on_battery, metered, probe>>

passive        == 0
caps_for(tier) == IF tier \in DOMAIN policy THEN policy[tier] ELSE passive

is_passive           == on_battery \/ metered
effective_caps(tier) == IF is_passive THEN passive ELSE caps_for(tier)

\* Linux: the first entry with a telling status decides; an entry that cannot
\* be listed ends the search.
Telling == {"Discharging", "Charging", "Full", "error"}
First(entries) == CHOOSE i \in DOMAIN entries :
                     /\ entries[i] \in Telling
                     /\ \A j \in 1 .. i - 1 : entries[j] \notin Telling
detect_battery(entries) ==
    IF \A i \in DOMAIN entries : entries[i] \notin Telling THEN Unknown
    ELSE CASE entries[First(entries)] = "Discharging" -> TRUE
           [] entries[First(entries)] = "error"       -> Unknown
           [] OTHER                                   -> FALSE

flagged(flag, detected) == IF detected = Unknown THEN flag ELSE detected

-----------------------------------------------------------------------------
\* AssetClass::register: on AC and unmetered, then probed.
GovernorInit ==
    /\ power \in Power
    /\ on_battery = flagged(FALSE, detect_battery(power))
    /\ metered = FALSE
    /\ probe = {}

PowerChanges ==
    /\ power' \in Power \ {power}
    /\ UNCHANGED <<on_battery, metered, probe>>

set_battery(b) == on_battery' = b /\ UNCHANGED <<power, metered, probe>>
set_metered(b) == metered' = b /\ UNCHANGED <<power, on_battery, probe>>

\* probe_os: the host is read, and the flag set with what it said then.
ProbeReads ==
    /\ probe = {}
    /\ probe' = {detect_battery(power)}
    /\ UNCHANGED <<power, on_battery, metered>>

ProbeSets ==
    /\ \E detected \in probe : on_battery' = flagged(on_battery, detected)
    /\ probe' = {}
    /\ UNCHANGED <<power, metered>>

GovernorNext ==
    \/ PowerChanges \/ ProbeReads \/ ProbeSets
    \/ \E b \in BOOLEAN : set_battery(b) \/ set_metered(b)
=============================================================================
