--------------------------- MODULE MCNetInterface ---------------------------
(***************************************************************************)
(* A small instance of NetInterface for TLC.                                 *)
(***************************************************************************)
EXTENDS NetInterface

\* linux/if_ether.h: 0x0806 and 0x0800, low byte first.
ETH_P_ARP == <<6, 8>>
ETH_P_IP  == <<0, 8>>

MCMacAddr == {"00:00:00:00:00:00", "peer", "broadcast"}
MCContent == {"zeros", "arp", "echo"}

\* receive_echo_request answering a default ping, 84 bytes of IP packet.
EchoReply == [content |-> "echo", len |-> 84, dst_mac |-> "peer",
              protocol |-> ETH_P_IP, exits |-> FALSE]

\* arp_resolve_ipv4 for an unknown peer, then exit(1) in ip_send_packet.
ArpRequest == [content |-> "arp", len |-> 28, dst_mac |-> "broadcast",
               protocol |-> ETH_P_ARP, exits |-> TRUE]

GrowAndExit == {EchoReply, ArpRequest}
=============================================================================
