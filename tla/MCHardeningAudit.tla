-------------------------- MODULE MCHardeningAudit --------------------------
(* Two concurrent requests on one device: three rules over two endpoints,  *)
(* one of them about the chassis, and a device with or without its root.   *)
EXTENDS HardeningAudit

CONSTANTS a1, a2, v1, v2, Telnet, Interfaces, Admins

MCNameOf == (v1 :> "root") @@ (v2 :> "dmz")
MCNameOfRootless == v2 :> "dmz"

MCEndpointOf == (Telnet :> "global") @@ (Interfaces :> "interface") @@ (Admins :> "interface")
MCScopeOf == (Telnet :> "GLOBAL") @@ (Interfaces :> "VDOM") @@ (Admins :> "VDOM")

\* One unit of three is below the threshold, one of two is not.
MCUnits == (Telnet :> 1) @@ (Interfaces :> 3) @@ (Admins :> 2)
MCOutcomes ==
  (Telnet :> {Other("no_block"), Met(1)})
    @@ (Interfaces :> {Met(1), Met(3)})
    @@ (Admins :> {Other("no_items"), Met(1)})
=============================================================================
