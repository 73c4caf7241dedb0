------------------------------- MODULE MCVpn --------------------------------
(* Small instances of Vpn and of Settings for TLC. *)
EXTENDS Vpn

Host(family, id) == [family |-> family, kind |-> "host", id |-> id]
Unspecified == [family |-> 4, kind |-> "unspecified", id |-> 0]
Multicast == [family |-> 6, kind |-> "multicast", id |-> 0]

Ifconfig(a) == [name |-> "ifconfig", address |-> a]
Ifconfig6(a) == [name |-> "ifconfig-ipv6", address |-> a]
Dns(addresses) == [name |-> "dns", addresses |-> addresses]
Mtu(n) == [name |-> "tun-mtu", value |-> n]
Other == [name |-> "other"]
Garbled == [name |-> "garbled"]

\* A tunnel of each family, and a list that is refused.
MCPushed == { << Ifconfig(Host(4, 1)), Dns(<<Host(4, 2)>>) >>,
              << Ifconfig6(Host(6, 1)), Mtu(1300) >>,
              << Other >> }
MCOverride == <<>>

\* Lists of up to three lines of these, each with every configured MTU below.
MCLines == { Ifconfig(Host(4, 1)), Ifconfig(Host(4, 2)), Ifconfig(Host(6, 1)),
           Ifconfig(Unspecified), Ifconfig6(Host(6, 1)), Ifconfig6(Multicast),
           Dns(<<Host(4, 1), Host(6, 1), Host(6, 1)>>), Dns(<<Host(4, 1)>>),
           Dns(<<Multicast>>), Mtu(1279), Mtu(576), Mtu(9000), Other, Garbled }
MCLists == UNION { [1 .. n -> MCLines] : n \in 0 .. 3 }
MCMtus == {0, 575, 576, 1280, 1500, 9000, 9001}
MCOverrides == { <<>>, << Host(4, 2), Host(4, 2) >>, << Host(6, 2), Unspecified >> }
=============================================================================
