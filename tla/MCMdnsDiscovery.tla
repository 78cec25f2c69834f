-------------------------- MODULE MCMdnsDiscovery --------------------------
(* Two cameras, of which the second has IPv6 only, and a host with one       *)
(* address of each family beside its loopback.                               *)
EXTENDS MdnsDiscovery, TLC

CONSTANTS c1, c2

MCCameras == {c1, c2}
MCFamilies == (c1 :> {IPv4, IPv6}) @@ (c2 :> {IPv6})
MCShapes == {<<"PTR", "A", "AAAA">>, <<"PTR">>}
Iface(f, lo) == [fam |-> f, loopback |-> lo, up |-> TRUE, preferred |-> TRUE,
                 teredo |-> FALSE]
MCInterfaces == <<Iface(IPv4, TRUE), Iface(IPv4, FALSE), Iface(IPv6, FALSE)>>
=============================================================================
