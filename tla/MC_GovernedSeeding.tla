------------------------- MODULE MC_GovernedSeeding -------------------------
(***************************************************************************)
(* One connection to a laptop, plugged in, unplugged, or with a battery    *)
(* that is held at its level.                                              *)
(***************************************************************************)
EXTENDS GovernedSeeding, TLC

CONSTANTS workstation, mobile

MCPolicy == workstation :> 1

MCPower == {<<"none", "Charging">>, <<"none", "Discharging">>, <<"none", "Not charging">>}
=============================================================================
