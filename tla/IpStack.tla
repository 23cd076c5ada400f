------------------------------ MODULE IpStack ------------------------------
(***************************************************************************)
(* The protocol handlers one thread of main.c runs on the buffer it reads  *)
(* frames into: process_io, handle_frame, arp_receive, ip_receive,         *)
(* icmp_receive, tcp_receive, udp_receive and ip_send_packet.  They convert *)
(* and answer in place, and a read that fails leaves the buffer as the     *)
(* last handler left it.  ip_send, which nothing in the program calls yet, *)
(* is called between two frames.                                           *)
(*                                                                         *)
(* Every field keeps its byte order: it is the word, or pair of words, in  *)
(* memory.  The cache is used by one thread here, and the sending is one   *)
(* step; modules ArpCache and NetInterface model what other threads do to  *)
(* them.                                                                   *)
(***************************************************************************)
EXTENDS InternetChecksum

CONSTANTS Frames,         \* the frames that arrive
          Sends,          \* the arguments ip_send is called with
          Addresses,      \* the IPv4 addresses in them
          Macs,           \* the MAC addresses in them
          src_ip,         \* the arguments of net_interface_init: the address
          src_mac,        \*   ... and the characters of the MAC address
          NULL, None

\* ether_type is all the code reads of an Ethernet header.
ETH_P_IP == 2048
ETH_P_ARP == 2054

PROTOCOL_ICMP == 1
PROTOCOL_TCP == 6
PROTOCOL_UDP == 16

ARP_REQUEST == 1
ARP_REPLY == 2

\* net_interface_init copies the first six characters.
mac == SubSeq(src_mac, 1, 6)

Broadcast == <<255, 255, 255, 255, 255, 255>>

ArpHeader ==
  [hw_type : Word, hw_size : Byte, pro_type : Word, pro_size : Byte,
   opcode : Word, src_mac : Macs, src_ip : Addresses, dst_mac : Macs,
   dst_ip : Addresses]

IcmpMessage == [type : Byte, code : Byte, checksum : Word, data : Seq(Word)]

TcpSegment ==
  [src_port : Word, dst_port : Word, seq_num : Long, ack_num : Long,
   reserved : Word, window : Word, checksum : Word, urgent_ptr : Word,
   data : Seq(Word)]

\* payload: what follows the header.  version and tos, and ttl and protocol,
\* share a word.
IpHeader ==
  [version_and_tos : Word, len : Word, index : Word, flags : Word,
   ttl_and_protocol : Word, checksum : Word, src_addr : Long, dst_addr : Long,
   payload : IcmpMessage \cup TcpSegment \cup [data : Seq(Word)]]

protocol(h) == h.ttl_and_protocol \div 256

EthHeader == [ether_type : Word, payload : ArpHeader \cup IpHeader \cup {None}]

\* The type of a frame in memory, before or after its conversion.
Carries(f, ether_type) == ether_type \in {f.ether_type, htons(f.ether_type)}

\* The frame is as long as its headers say, and comes from a known address.
WellFormed(f) ==
  /\ Carries(f, ETH_P_ARP) => f.payload \in ArpHeader
  /\ Carries(f, ETH_P_IP) =>
       LET h == f.payload IN
       /\ h \in IpHeader /\ h.src_addr \in Addresses
       /\ protocol(h) = PROTOCOL_ICMP =>
            /\ h.payload \in IcmpMessage
            /\ (htons(h.len) - 20 + 1) \div 2 = 2 + Len(h.payload.data)
       /\ protocol(h) = PROTOCOL_TCP => h.payload \in TcpSegment

\* What ip_send is asked to send: dst is in network order here, and its caller
\* converts it; the payload is given as words, and the datagram's length fits
\* its field.
SendArguments == [dst : Addresses, payload : Seq(Word), protocol : Byte]

ASSUME StackAssumption ==
  /\ src_ip \in Addresses /\ Addresses \subseteq Long
  /\ mac \in Macs /\ Broadcast \in Macs /\ NULL \notin Macs
  /\ Frames \subseteq EthHeader /\ None \notin Frames /\ \A f \in Frames : WellFormed(f)
  /\ Sends \subseteq SendArguments /\ None \notin Sends
  /\ \A a \in Sends : 20 + 2 * Len(a.payload) \in Word

VARIABLES pc,       \* the handler that runs next
          buf,      \* the thread's buffer
          cache,    \* the ARP cache: a MAC address, or NULL
          out,      \* the frame sent last while handling the buffer, or None
          request,  \* history: the frame read last, as it arrived
          answers,  \* history: how many frames were sent since then
          tcp,      \* what tcp_receive reported, or None
          own       \* history: the arguments of the ip_send that sent out, or None

vars == <<pc, buf, cache, out, request, answers, tcp, own>>

Handler == {"read", "handle_frame", "arp_receive", "ip_receive",
            "icmp_receive", "tcp_receive", "udp_receive", "ip_send_packet",
            "exit"}

TypeOK ==
  /\ pc \in Handler
  /\ buf \in EthHeader
  /\ cache \in [Addresses -> Macs \cup {NULL}]
  /\ request \in Frames \cup {None}
  /\ answers \in Nat
  /\ tcp \in {None, "dropped", "accepted", "syn"}
  /\ own \in Sends \cup {None}
  /\ out # None => out.ether_type \in Word /\ out.dst_mac \in Macs

Init ==
  /\ pc = "read"
  /\ buf = [ether_type |-> 0, payload |-> None]
  /\ cache = [a \in Addresses |-> NULL]
  /\ out = None /\ request = None /\ answers = 0 /\ tcp = None /\ own = None

-----------------------------------------------------------------------------
(***************************************************************************)
(* Headers.                                                                *)
(***************************************************************************)

eth_header_ntoh(f) == [f EXCEPT !.ether_type = htons(@)]

\* arp_header_ntoh and arp_header_hton.
arp_header_ntoh(a) == [a EXCEPT !.opcode = htons(@), !.hw_type = htons(@),
                                !.pro_type = htons(@)]

\* ip_header_ntoh and ip_header_hton.
ip_header_ntoh(h) == [h EXCEPT !.src_addr = htonl(@), !.dst_addr = htonl(@),
                               !.len = htons(@)]

ip_words(h) ==
  <<h.version_and_tos, h.len, h.index, h.flags, h.ttl_and_protocol, h.checksum,
    h.src_addr[1], h.src_addr[2], h.dst_addr[1], h.dst_addr[2]>>

\* A faulty ip_header_update_checksum that does not clear the field first.
UpdateUncleared(h) == [h EXCEPT !.checksum = internet_checksum(ip_words(h))]

ip_header_update_checksum(h) ==
  [h EXCEPT !.checksum = internet_checksum(ip_words([h EXCEPT !.checksum = 0]))]

ip_header_check(h) == internet_checksum(ip_words(h)) = 0

\* The words of the payload, as many as the (converted) header says.
payload_words(h, words) == SubSeq(words, 1, (h.len - 20 + 1) \div 2)

\* type and code share a word.
icmp_words(c) == <<c.type + 256 * c.code, c.checksum>> \o c.data

\* A faulty icmp_receive that takes every packet.
IcmpUnchecked(h) == TRUE

icmp_check(h) == internet_checksum(payload_words(h, icmp_words(h.payload))) = 0

\* An echo request with a wrong checksum is left in host order.  When its
\* buffer is handled again, the header's checksum is taken to be wrong.  It is
\* right if the sum of the words ip_header_ntoh has swapped is divisible by 257,
\* as it is for about one combination of addresses and length in 257;
\* icmp_receive would then go by a length whose bytes are swapped, past the end
\* of the message, where the model has no words.
ASSUME StaleAssumption ==
  \A f \in Frames :
    LET h == ip_header_ntoh(f.payload) IN
    /\ Carries(f, ETH_P_IP) /\ protocol(h) = PROTOCOL_ICMP
    /\ h.payload.type = 8 /\ ~ icmp_check(h)
    => ~ ip_header_check(h)

tcp_words(s) ==
  <<s.src_port, s.dst_port>> \o s.seq_num \o s.ack_num
    \o <<s.reserved, s.window, s.checksum, s.urgent_ptr>> \o s.data

\* The 32-bit sum of longs: the carry out of the upper word is lost.
Sum32(ls) ==
  LET low == Total([n \in DOMAIN ls |-> ls[n][1]])
      high == Total([n \in DOMAIN ls |-> ls[n][2]])
  IN  <<low % 65536, (high + (low \div 65536)) % 65536>>

\* htonl undoes the ntohl of ip_header_ntoh.
tcp_header_check(h) ==
  LET segment == payload_words(h, tcp_words(h.payload))
      sum == Sum32(<< <<sum16(segment), 0>>, <<htons(h.len - 20), 0>>,
                      <<htons(PROTOCOL_TCP), 0>>, htonl(h.src_addr),
                      htonl(h.dst_addr) >>)
  IN  internet_checksum(sum) = 0

\* ntohs on a 32-bit field keeps the lower half only.
tcp_header_ntoh(s) ==
  [s EXCEPT !.seq_num = <<htons(@[1]), 0>>, !.ack_num = <<htons(@[1]), 0>>,
            !.src_port = htons(@), !.dst_port = htons(@)]

control_bits(s) == s.reserved % 64

TCP_CONTROL_SYN == 32

-----------------------------------------------------------------------------
(***************************************************************************)
(* Handlers.                                                               *)
(***************************************************************************)

\* net_interface_send, to a MAC address.
Send(dst_mac, ether_type, payload) ==
  /\ out' = [dst_mac |-> dst_mac, ether_type |-> htons(ether_type),
             payload |-> payload]
  /\ answers' = answers + 1

\* process_io: a frame is read and its type converted.
Read(f) ==
  /\ pc = "read"
  /\ buf' = eth_header_ntoh(f)
  /\ pc' = "handle_frame"
  /\ request' = f
  /\ out' = None /\ answers' = 0 /\ tcp' = None /\ own' = None
  /\ UNCHANGED cache

\* process_io: the read fails; whatever is in the buffer is handled again.
ReadFails ==
  /\ pc = "read"
  /\ buf' = eth_header_ntoh(buf)
  /\ pc' = "handle_frame"
  /\ out' = None /\ tcp' = None /\ own' = None
  /\ UNCHANGED <<cache, request, answers>>

handle_frame ==
  /\ pc = "handle_frame"
  /\ pc' = CASE buf.ether_type = ETH_P_ARP -> "arp_receive"
             [] buf.ether_type = ETH_P_IP -> "ip_receive"
             [] OTHER -> "read"
  /\ UNCHANGED <<buf, cache, out, request, answers, tcp, own>>

\* arp_receive supports the hardware and the protocol.
ArpKnown(a) == /\ a.hw_type = 1 /\ a.hw_size = 6
               /\ a.pro_type = ETH_P_IP /\ a.pro_size = 4

\* The sender is merged when it is in the cache, and added when we are the
\* target.
ArpRecords(a) ==
  cache' = IF ArpKnown(a) /\ (cache[a.src_ip] # NULL \/ a.dst_ip = src_ip)
             THEN [cache EXCEPT ![a.src_ip] = a.src_mac]
             ELSE cache

ArpAsksUs(a) == ArpKnown(a) /\ a.dst_ip = src_ip /\ a.opcode = ARP_REQUEST

\* arp_reply composes the answer in place.
arp_reply(a) ==
  arp_header_ntoh([a EXCEPT !.dst_ip = a.src_ip, !.dst_mac = a.src_mac,
                            !.src_ip = src_ip, !.src_mac = mac,
                            !.opcode = ARP_REPLY])

\* A faulty arp_receive that answers from a copy of the request.
ArpAnswersFromCopy ==
  /\ pc = "arp_receive"
  /\ LET a == arp_header_ntoh(buf.payload) IN
     /\ ArpRecords(a)
     /\ buf' = [buf EXCEPT !.payload = a]
     /\ \/ ArpAsksUs(a) /\ Send(a.src_mac, ETH_P_ARP, arp_reply(a))
        \/ ~ ArpAsksUs(a) /\ UNCHANGED <<out, answers>>
  /\ pc' = "read"
  /\ UNCHANGED <<request, tcp, own>>

arp_receive ==
  /\ pc = "arp_receive"
  /\ LET a == arp_header_ntoh(buf.payload) IN
     /\ ArpRecords(a)
     /\ \/ /\ ArpAsksUs(a)
           /\ buf' = [buf EXCEPT !.payload = arp_reply(a)]
           /\ Send(a.src_mac, ETH_P_ARP, arp_reply(a))
        \/ /\ ~ ArpAsksUs(a)
           /\ buf' = [buf EXCEPT !.payload = a]
           /\ UNCHANGED <<out, answers>>
  /\ pc' = "read"
  /\ UNCHANGED <<request, tcp, own>>

\* ip_receive: a header whose checksum is wrong is left as it is.
IpDropped ==
  /\ pc = "ip_receive"
  /\ ~ ip_header_check(buf.payload)
  /\ pc' = "read"
  /\ UNCHANGED <<buf, cache, out, request, answers, tcp, own>>

ip_receive ==
  /\ pc = "ip_receive"
  /\ ip_header_check(buf.payload)
  /\ buf' = [buf EXCEPT !.payload = ip_header_ntoh(@)]
  /\ pc' = CASE protocol(buf.payload) = PROTOCOL_TCP -> "tcp_receive"
             [] protocol(buf.payload) = PROTOCOL_UDP -> "udp_receive"
             [] protocol(buf.payload) = PROTOCOL_ICMP -> "icmp_receive"
             [] OTHER -> "read"
  /\ UNCHANGED <<cache, out, request, answers, tcp, own>>

\* receive_echo_request: the reply, before ip_send_packet.
echo_reply(h) ==
  LET cleared == [h.payload EXCEPT !.type = 0, !.checksum = 0]
      sum == internet_checksum(payload_words(h, icmp_words(cleared)))
  IN  [h EXCEPT !.payload = [cleared EXCEPT !.checksum = sum],
                !.dst_addr = h.src_addr, !.src_addr = htonl(src_ip)]

\* icmp_receive leaves every other message alone.
IcmpIgnored ==
  /\ pc = "icmp_receive"
  /\ ~ icmp_check(buf.payload) \/ buf.payload.payload.type # 8
  /\ pc' = "read"
  /\ UNCHANGED <<buf, cache, out, request, answers, tcp, own>>

icmp_receive ==
  /\ pc = "icmp_receive"
  /\ icmp_check(buf.payload)
  /\ buf.payload.payload.type = 8
  /\ buf' = [buf EXCEPT !.payload = echo_reply(@)]
  /\ pc' = "ip_send_packet"
  /\ UNCHANGED <<cache, out, request, answers, tcp, own>>

\* What ip_send_packet sends for a header in host order.
Outgoing(h) == ip_header_update_checksum(ip_header_ntoh(h))

\* The frame arp_resolve_ipv4 broadcasts when it does not know an address.
arp_request(dst_ip) ==
  [dst_mac |-> Broadcast, ether_type |-> htons(ETH_P_ARP),
   payload |-> arp_header_ntoh(
     [hw_type |-> 1, hw_size |-> 6, pro_type |-> ETH_P_IP, pro_size |-> 4,
      opcode |-> ARP_REQUEST, src_mac |-> mac, src_ip |-> src_ip,
      dst_mac |-> Broadcast, dst_ip |-> dst_ip])]

\* A faulty ip_send_packet that does not test the address for NULL.
SendUnresolved ==
  /\ pc = "ip_send_packet"
  /\ LET h == Outgoing(buf.payload) IN
     /\ buf' = [buf EXCEPT !.payload = h]
     /\ Send(cache[htonl(buf.payload.dst_addr)], ETH_P_IP, h)
  /\ pc' = "read"
  /\ UNCHANGED <<cache, request, tcp, own>>

\* ip_send_packet: arp_resolve_ipv4 finds the address and the packet is sent,
\* in network order again ...
ip_send_packet ==
  /\ pc = "ip_send_packet"
  /\ LET dst_mac == cache[htonl(buf.payload.dst_addr)]
         h == Outgoing(buf.payload)
     IN  /\ dst_mac # NULL
         /\ buf' = [buf EXCEPT !.payload = h]
         /\ Send(dst_mac, ETH_P_IP, h)
  /\ pc' = "read"
  /\ UNCHANGED <<cache, request, tcp, own>>

\* ... or broadcasts an ARP request, and the process exits.
Unresolved ==
  /\ pc = "ip_send_packet"
  /\ LET dst_ip == htonl(buf.payload.dst_addr) IN
     /\ cache[dst_ip] = NULL
     /\ out' = arp_request(dst_ip)
  /\ pc' = "exit"
  /\ UNCHANGED <<buf, cache, request, answers, tcp, own>>

\* A faulty ip_header_alloc that leaves the header out of the length.
AllocPayloadOnly(len) ==
  [version_and_tos |-> 69, len |-> len % 65536, index |-> 7, flags |-> 0,
   ttl_and_protocol |-> 64, checksum |-> 0, src_addr |-> <<0, 0>>,
   dst_addr |-> <<0, 0>>, payload |-> [data |-> <<>>]]

\* The checksum it also computes is computed again before the header is used.
ip_header_alloc(len) ==
  [version_and_tos |-> 69, len |-> (20 + len) % 65536, index |-> 7, flags |-> 0,
   ttl_and_protocol |-> 64, checksum |-> 0, src_addr |-> <<0, 0>>,
   dst_addr |-> <<0, 0>>, payload |-> [data |-> <<>>]]

\* The header ip_send composes, and its payload.
Composed(a) ==
  [ip_header_alloc(2 * Len(a.payload)) EXCEPT
     !.ttl_and_protocol = @ + 256 * a.protocol, !.src_addr = htonl(src_ip),
     !.dst_addr = htonl(a.dst), !.payload = [data |-> a.payload]]

\* ip_send(htonl(a.dst), ...), with the ip_send_packet it calls on a header of its own.
ip_send(a) ==
  /\ pc = "read"
  /\ LET dst_ip == htonl(Composed(a).dst_addr)
         dst_mac == cache[dst_ip]
     IN  \/ /\ dst_mac # NULL
            /\ out' = [dst_mac |-> dst_mac, ether_type |-> htons(ETH_P_IP),
                       payload |-> Outgoing(Composed(a))]
            /\ UNCHANGED pc
         \/ /\ dst_mac = NULL
            /\ out' = arp_request(dst_ip)
            /\ pc' = "exit"
  /\ own' = a
  /\ UNCHANGED <<buf, cache, request, answers, tcp>>

TcpDropped ==
  /\ pc = "tcp_receive"
  /\ ~ tcp_header_check(buf.payload)
  /\ tcp' = "dropped"
  /\ pc' = "read"
  /\ UNCHANGED <<buf, cache, out, request, answers, own>>

tcp_receive ==
  /\ pc = "tcp_receive"
  /\ tcp_header_check(buf.payload)
  /\ LET s == tcp_header_ntoh(buf.payload.payload) IN
     /\ buf' = [buf EXCEPT !.payload.payload = s]
     /\ tcp' = IF control_bits(s) = TCP_CONTROL_SYN THEN "syn" ELSE "accepted"
  /\ pc' = "read"
  /\ UNCHANGED <<cache, out, request, answers, own>>

udp_receive ==
  /\ pc = "udp_receive"
  /\ pc' = "read"
  /\ UNCHANGED <<buf, cache, out, request, answers, tcp, own>>

Exited == pc = "exit" /\ UNCHANGED vars

Next ==
  \/ \E f \in Frames : Read(f)
  \/ ReadFails
  \/ \E a \in Sends : ip_send(a)
  \/ handle_frame
  \/ arp_receive
  \/ IpDropped \/ ip_receive
  \/ IcmpIgnored \/ icmp_receive
  \/ ip_send_packet \/ Unresolved
  \/ TcpDropped \/ tcp_receive
  \/ udp_receive
  \/ Exited

Spec == Init /\ [][Next]_vars

-----------------------------------------------------------------------------
(***************************************************************************)
(* Properties.                                                             *)
(***************************************************************************)

PacketSent == out # None /\ out.ether_type = htons(ETH_P_IP)

EchoSent == PacketSent /\ own = None

\* Both checksums of what is sent satisfy a receiver, after all the changes
\* made in place and back in network order (icmp.c:67-69, ip.c:144-145).
RepliesAreIntact ==
  EchoSent => Intact(ip_words(out.payload)) /\ Intact(icmp_words(out.payload.payload))

\* An echo reply is what the request asked for: back to where it came from,
\* from us, with the same code, identifier, sequence number and data, and it
\* answers no packet with a wrong checksum (icmp.c:60-119, ip.c:85-148).
EchoAnswersRequest ==
  EchoSent =>
    LET q == request.payload
        r == out.payload
    IN  /\ out.dst_mac = cache[q.src_addr]
        /\ r.dst_addr = q.src_addr /\ r.src_addr = src_ip /\ r.len = q.len
        /\ r.payload.type = 0 /\ r.payload.code = q.payload.code
        /\ r.payload.data = q.payload.data
        /\ Intact(ip_words(q)) /\ Intact(icmp_words(q.payload))

\* What ip_send was asked to send leaves as a datagram that a receiver accepts:
\* to the MAC address of its destination, with an intact header in network
\* order, the length of what follows, and the payload (ip.c:22-36, 124-160).
SentAsAsked ==
  PacketSent /\ own # None =>
    LET r == out.payload IN
    /\ out.dst_mac = cache[r.dst_addr]
    /\ r.dst_addr = own.dst /\ r.src_addr = src_ip
    /\ Intact(ip_words(r)) /\ protocol(r) = own.protocol
    /\ payload_words(ip_header_ntoh(r), r.payload.data) = own.payload
    /\ htons(r.len) = 20 + 2 * Len(own.payload)

\* However often reads fail afterwards and the buffer, converted again each
\* time, is handled once more, a frame is answered at most once (main.c:50-55).
AtMostOneAnswer == answers <= 1

\* sum16 is the sum of RFC 1071 on every header that is checked
\* (protocols.c:3-4, 20-22).
SumsAgree ==
  pc \in {"ip_receive", "icmp_receive"} =>
    LET h == buf.payload
        ws == IF pc = "ip_receive" THEN ip_words(h) ELSE icmp_words(h.payload)
    IN  sum16(ws) = OnesComplementSum(ws)

\* The checksum of a TCP segment covers a pseudo header.
TcpIntact(h) ==
  Intact(tcp_words(h.payload) \o h.src_addr \o h.dst_addr
           \o <<htons(htons(h.len) - 20), htons(PROTOCOL_TCP)>>)

\* A segment reported to have an "Invalid checksum" (tcp.c:64) has one.  This
\* does not hold.
DroppedIsInvalid == tcp = "dropped" => ~ TcpIntact(request.payload)
=============================================================================
