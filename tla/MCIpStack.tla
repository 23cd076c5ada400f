----------------------------- MODULE MCIpStack -----------------------------
(***************************************************************************)
(* Frames for IpStack, composed as their senders do.                       *)
(***************************************************************************)
EXTENDS IpStack

\* 10.0.0.4, which is us, 10.0.0.5 and 10.0.0.253; their MAC addresses.
Us == <<10, 1024>>
HostA == <<10, 1280>>
HostB == <<10, 64768>>
MCAddresses == {Us, HostA, HostB}
Zero == <<0, 0, 0, 0, 0, 0>>
MacOf(a) == IF a = HostA THEN <<2, 0, 0, 0, 0, 5>> ELSE <<2, 0, 0, 0, 0, 253>>
MCMacs == {MacOf(HostA), MacOf(HostB), Zero, mac, Broadcast}

\* "00:0c:29:6d:50:25".
MCSrcMac == <<48, 48, 58, 48, 99, 58, 50, 57, 58, 54, 100, 58, 53, 48, 58, 50, 53>>

ArpFrame(from, to, opcode, hw_type) ==
  [ether_type |-> htons(ETH_P_ARP),
   payload |-> [hw_type |-> htons(hw_type), hw_size |-> 6,
                pro_type |-> htons(ETH_P_IP), pro_size |-> 4,
                opcode |-> htons(opcode), src_mac |-> MacOf(from), src_ip |-> from,
                dst_mac |-> Zero, dst_ip |-> to]]

\* bytes: the length of the payload; error: what is added to the checksum on the
\* way.
IpFrame(from, protocol_id, bytes, payload, error) ==
  LET h == [version_and_tos |-> 69, len |-> htons(20 + bytes),
            index |-> 7, flags |-> 64, ttl_and_protocol |-> 64 + 256 * protocol_id,
            checksum |-> 0, src_addr |-> from, dst_addr |-> Us,
            payload |-> payload]
      sum == 65535 - OnesComplementSum(ip_words(h))
  IN  [ether_type |-> htons(ETH_P_IP),
       payload |-> [h EXCEPT !.checksum = (sum + error) % 65536]]

\* Data of an odd length ends in a word below 256.
IcmpFrame(from, type, data, ip_error, error) ==
  LET c == [type |-> type, code |-> 0, checksum |-> 0, data |-> data]
      sum == 65535 - OnesComplementSum(icmp_words(c))
      sealed == [c EXCEPT !.checksum = (sum + error) % 65536]
      odd == IF Len(data) > 2 /\ data[Len(data)] < 256 THEN 1 ELSE 0
  IN  IpFrame(from, PROTOCOL_ICMP, 2 * Len(icmp_words(c)) - odd, sealed, ip_error)

\* offset: the number of 32-bit words in the header; bits: the control bits.
TcpFrame(from, offset, bits, error) ==
  LET s == [src_port |-> 80, dst_port |-> 14597, seq_num |-> <<1, 2>>,
            ack_num |-> <<0, 0>>, reserved |-> 16 * offset + 256 * bits,
            window |-> 4, checksum |-> 0, urgent_ptr |-> 0,
            data |-> [n \in 1..(2 * (offset - 5)) |-> 258]]
      pseudo == from \o Us \o <<htons(2 * Len(tcp_words(s))), htons(PROTOCOL_TCP)>>
      sum == 65535 - OnesComplementSum(tcp_words(s) \o pseudo)
      sealed == [s EXCEPT !.checksum = (sum + error) % 65536]
  IN  IpFrame(from, PROTOCOL_TCP, 2 * Len(tcp_words(s)), sealed, 0)

SYN == 2
ACK == 16

\* Identifier, sequence number and data of echo requests: sums of zero, of
\* 65535, and such that adding the carry carries again; no data, one byte and
\* four.
EdgeWords == {0, 1, 255, 256, 32768, 65527, 65535}
EchoData == {<<id, seq>> \o data : id \in EdgeWords, seq \in EdgeWords,
                                   data \in {<<>>, <<97>>, <<65535, 65535>>}}

ArpFrames ==
  {ArpFrame(a, Us, op, 1) : a \in {HostA, HostB}, op \in {ARP_REQUEST, ARP_REPLY}}
    \cup {ArpFrame(HostA, HostB, ARP_REQUEST, 1), ArpFrame(HostA, Us, 3, 1),
          ArpFrame(HostA, Us, ARP_REQUEST, 6)}

IcmpFrames ==
  {IcmpFrame(HostA, 8, data, 0, 0) : data \in EchoData}
    \cup {IcmpFrame(HostB, 8, <<1, 256>>, 0, 0), IcmpFrame(HostA, 0, <<1, 256>>, 0, 0),
          IcmpFrame(HostA, 8, <<1, 256>>, 1, 0), IcmpFrame(HostA, 8, <<1, 256>>, 0, 1)}

\* UDP as the code numbers it, and as it is numbered.
UdpFrames ==
  {IpFrame(HostA, p, 8, [data |-> <<1, 2, 3, 4>>], 0) : p \in {PROTOCOL_UDP, 17}}

OtherFrame == [ether_type |-> htons(34525), payload |-> None]

TcpFrames == {TcpFrame(HostA, 5, SYN, 0), TcpFrame(HostA, 6, SYN, 0),
              TcpFrame(HostA, 5, ACK, 1)}

AllFrames == ArpFrames \cup IcmpFrames \cup UdpFrames \cup TcpFrames \cup {OtherFrame}

\* Payloads of no, one and two words, to known and unknown hosts.
MCSends == {[dst |-> a, payload |-> w, protocol |-> p] :
              a \in {HostA, HostB}, w \in {<<>>, <<65535>>, <<1, 65527>>},
              p \in {PROTOCOL_UDP, 255}}

NoSends == {}

\* A valid segment from 10.0.0.253.
HighAddress == {TcpFrame(HostB, 5, SYN, 0)}
=============================================================================
