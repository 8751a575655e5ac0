--------------------------------- MODULE Net ---------------------------------
(***************************************************************************)
(* The network services: the ARP cache (src/services/arp.c), the building  *)
(* and receiving of IP packets (ip.c, net_utils.c), echo requests (icmp.c) *)
(* and the table of TCP connections (tcp.c).  Routes are left out: they    *)
(* are stored and ip_send does not look at them.                           *)
(*                                                                         *)
(* Nothing is transmitted in this version: ip_send builds a packet,        *)
(* reports success and drops it.  sent and got show what the call that    *)
(* returns now built and received.                                         *)
(*                                                                         *)
(* Bytes are digits of base Base in place of 256, an address is one byte.  *)
(* A packet is                                                             *)
(*    <<ver_ihl, total_len, ttl, protocol, checksum low, high, src, dst>>  *)
(* and the ICMP message <<type, id>> behind it.  The values 1, 2 and 3 of  *)
(* ver_ihl stand for IPv4 with the usual header, a shorter and a longer    *)
(* one, the others for another version.                                    *)
(***************************************************************************)
EXTENDS Integers, Sequences, FiniteSets

CONSTANTS
    Base,                   \* values of a byte
    ARP_CACHE_SIZE, MAX_TCP_CONNS,
    Hosts,                  \* IP addresses
    Macs,
    LocalIp,                \* the address ip_set_local is called with
    Ids                     \* identifiers of echo requests

ASSUME NetAssumption ==
    /\ Base \in Nat /\ Base > 3 /\ Hosts \subseteq 1 .. Base - 2 /\ LocalIp \in Hosts
    /\ ARP_CACHE_SIZE \in Nat \ {0} /\ Ids \subseteq 0 .. Base - 1
    /\ MAX_TCP_CONNS \in 1 .. Base - 1   \* the sequence numbers 1, 2, ... are bytes

VARIABLES arp_cache,        \* slot -> [valid, ip, mac]
          local_ip,
          sent,             \* the packet ip_send built in the last call
          got,              \* [byte, changed, outcome] of the packet the last call received
          conns,            \* fd -> hdr.seq; the other fields are written and not read
          learned, evicted  \* history: the last reply of each host, entries overwritten

arpVars == <<arp_cache, learned, evicted>>
ipVars == <<local_ip, sent, got>>
vars == <<arpVars, ipVars, conns>>

Byte == 0 .. Base - 1
None == "none"
Slots == 1 .. ARP_CACHE_SIZE
Fds == 0 .. MAX_TCP_CONNS - 1
Nothing == [byte |-> 0, changed |-> FALSE, outcome |-> None]

NetTypeOK ==
    /\ arp_cache \in [Slots -> [valid: BOOLEAN, ip: Hosts \cup {0}, mac: Macs \cup {None}]]
    /\ sent \in Seq(Byte) /\ local_ip \in Hosts \cup {0}
    /\ conns \in [Fds -> Nat]

\* The kernel's boot code opens a socket and never closes it.
Init ==
    /\ arp_cache = [i \in Slots |-> [valid |-> FALSE, ip |-> 0, mac |-> None]]
    /\ learned = [ip \in Hosts |-> None] /\ evicted = {}
    /\ sent = << >> /\ got = Nothing /\ local_ip = 0
    /\ conns = [[i \in Fds |-> 0] EXCEPT ![0] = 1]

Idle == sent = << >> /\ got = Nothing
Quiet == Idle /\ UNCHANGED ipVars

\* The caller has seen the outcome of its call.
Return == ~Idle /\ sent' = << >> /\ got' = Nothing /\ UNCHANGED <<arpVars, local_ip, conns>>

(***************************************************************************)
(* ARP.                                                                    *)
(***************************************************************************)
First(S) == {i \in S : \A j \in S : i <= j}

arp_find_entry(ip) == First({i \in Slots : arp_cache[i].valid /\ arp_cache[i].ip = ip})

\* The slot a reply is stored in: the host's own, the first free one, or the
\* one that is called the oldest.
Mut_arp_slot(ip) ==
    LET free == First({i \in Slots : ~arp_cache[i].valid})
    IN  IF free # {} THEN free
        ELSE IF arp_find_entry(ip) # {} THEN arp_find_entry(ip) ELSE {1}

arp_slot(ip) ==
    LET free == First({i \in Slots : ~arp_cache[i].valid})
    IN  IF arp_find_entry(ip) # {} THEN arp_find_entry(ip)
        ELSE IF free # {} THEN free ELSE {1}

arp_add_entry(ip, mac) ==
    \E i \in arp_slot(ip) :
        /\ arp_cache' = [arp_cache EXCEPT ![i] = [valid |-> TRUE, ip |-> ip, mac |-> mac]]
        /\ evicted' = (evicted \ {ip}) \cup
                         (IF arp_cache[i].valid /\ arp_cache[i].ip # ip THEN {arp_cache[i].ip} ELSE {})

\* A reply is learned from; a request changes nothing.
arp_receive ==
    /\ \E ip \in Hosts, mac \in Macs :
         arp_add_entry(ip, mac) /\ learned' = [learned EXCEPT ![ip] = mac]
    /\ Quiet /\ UNCHANGED conns

arp_resolve(ip) ==
    LET i == arp_find_entry(ip) IN IF i = {} THEN None ELSE arp_cache[CHOOSE x \in i : TRUE].mac

-----------------------------------------------------------------------------
(***************************************************************************)
(* IP.  The checksum is computed over pairs with the first byte high and   *)
(* stored with the low byte first.                                         *)
(***************************************************************************)
Word == Base * Base

\* The end-around sum, and its complement.
fold(n) == IF n = 0 THEN 0 ELSE ((n - 1) % (Word - 1)) + 1

pairs(p, n) ==
    LET sum[k \in 0 .. n] == IF k = 0 THEN 0 ELSE sum[k - 1] + p[2 * k - 1] * Base + p[2 * k]
    IN  sum[n]

net_checksum(p, n) == Word - 1 - fold(pairs(p, n))

HeaderPairs == 4
ihl(p) == <<HeaderPairs, HeaderPairs - 1, HeaderPairs + 1>>[p[1]]

ECHO_REQUEST == 1
ECHO_REPLY == 0
ICMP == 1
TCP == 2

net_build_ip(src, dst, proto, data) ==
    LET zero == <<1, Len(data), Base - 1, proto, 0, 0, src, dst>> \o data
        sum == net_checksum(zero, HeaderPairs)
    IN  [zero EXCEPT ![5] = sum % Base, ![6] = sum \div Base]

\* Two bytes of the payload are in the model.
ip_send(dst, proto, data) == sent' = net_build_ip(local_ip, dst, proto, data)

\* A seeded slip: the high byte of the checksum is left in the sum.
Mut_verified(p) == net_checksum([p EXCEPT ![5] = 0], ihl(p)) = p[5] + p[6] * Base

verified(p) == LET zero == [p EXCEPT ![5] = 0, ![6] = 0]
               IN  net_checksum(zero, ihl(p)) = p[5] + p[6] * Base

for_us(p) == p[8] \in {local_ip, Base - 1}
data_of(p) == SubSeq(p, 2 * ihl(p) + 1, Len(p))

\* icmp_receive: an echo request is answered by icmp_send_echo, whose message
\* is an echo request, too.
icmp_receive(data, src) ==
    IF Len(data) >= 2 /\ data[1] = ECHO_REQUEST
    THEN ip_send(src, ICMP, <<ECHO_REQUEST, data[2]>>) ELSE sent' = << >>

Outcome(p) ==
    IF p[1] \notin 1 .. 3 THEN "version" ELSE IF ~verified(p) THEN "checksum"
    ELSE IF ~for_us(p) THEN "other" ELSE "accepted"

(***************************************************************************)
(* A packet another host built the way this one does arrives, whole or     *)
(* with one byte changed.  It is never shorter than the header it states,  *)
(* for which data_len (ip.c:85) would wrap around.                         *)
(***************************************************************************)
ip_receive ==
    \E src \in Hosts, dst \in Hosts \cup {Base - 1}, proto \in {ICMP, TCP},
       type \in {ECHO_REQUEST, ECHO_REPLY}, id \in Ids, k \in 0 .. 2 * HeaderPairs, b \in Byte :
      LET whole == net_build_ip(src, dst, proto, <<type, id>>)
          p == IF k = 0 THEN whole ELSE [whole EXCEPT ![k] = b]
      IN  /\ Idle
          /\ k = 0 => b = 0
          /\ got' = [byte |-> k, changed |-> p # whole, outcome |-> Outcome(p)]
          /\ IF Outcome(p) = "accepted" /\ p[4] = ICMP THEN icmp_receive(data_of(p), p[7])
             ELSE sent' = << >>
          /\ UNCHANGED <<arpVars, local_ip, conns>>

\* The boot code leaves the address 0.
ip_set_local ==
    /\ Idle /\ local_ip' = LocalIp
    /\ UNCHANGED <<arpVars, sent, got, conns>>

-----------------------------------------------------------------------------
(***************************************************************************)
(* TCP.  A connection is free when its sequence number is 0.  tcp_connect  *)
(* and tcp_send take any descriptor in range.  tcp_send sends to address 0.*)
(***************************************************************************)
find_free_conn == First({i \in Fds : conns[i] = 0})

tcp_socket ==
    /\ \E i \in find_free_conn : conns' = [conns EXCEPT ![i] = 1 + i]
    /\ Quiet /\ UNCHANGED arpVars

tcp_connect ==
    /\ Idle
    /\ \E i \in Fds, dst \in Hosts :
         ip_send(dst, TCP, <<conns[i], 0>>)
    /\ got' = got /\ UNCHANGED <<arpVars, local_ip, conns>>

tcp_send ==
    /\ Idle
    /\ \E i \in Fds : ip_send(0, TCP, <<conns[i], 0>>)
    /\ got' = got /\ UNCHANGED <<arpVars, local_ip, conns>>

\* tcp_close does not look at its argument (tcp.c:95); with one out of range it
\* clears memory outside the table, and only those in range are modelled.
tcp_close ==
    /\ \E i \in Fds : conns' = [conns EXCEPT ![i] = 0]
    /\ Quiet /\ UNCHANGED arpVars

Next ==
    \/ Return
    \/ arp_receive \/ ip_receive \/ ip_set_local
    \/ tcp_socket \/ tcp_connect \/ tcp_send \/ tcp_close

Spec == Init /\ [][Next]_vars

-----------------------------------------------------------------------------
(***************************************************************************)
(* The ARP cache answers with what a host said last, or not at all when    *)
(* its entry was overwritten since: updates, free slots and evictions in   *)
(* any order leave no second, older entry of a host to be found first.     *)
(***************************************************************************)
ArpKnows ==
    /\ NetTypeOK
    /\ \A ip \in Hosts : arp_resolve(ip) = IF ip \in evicted THEN None ELSE learned[ip]

(***************************************************************************)
(* What net_build_ip builds ip_receive accepts, also the packet this host  *)
(* answers with, and a change of any one byte of the header is noticed;    *)
(* but for the first byte, which says how many bytes are summed.           *)
(***************************************************************************)
ChecksumGuards ==
    /\ got.byte = 0 => got.outcome \in {None, "accepted", "other"}
    /\ got.changed /\ got.byte # 1 => got.outcome = "checksum"
    /\ sent # << >> => verified(sent)
=============================================================================
