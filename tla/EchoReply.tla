------------------------------ MODULE EchoReply ------------------------------
(***************************************************************************)
(* What the echo example makes of a frame: the handlers of                 *)
(* examples/echo/main.rs, as operators of the host that runs it and the    *)
(* frame it received.                                                      *)
(*                                                                         *)
(* Frames are records with the fields the handlers read or write; MAC and  *)
(* protocol addresses and ports are numbers, so that a checksum is what it *)
(* is in the code, a sum over the words it covers (ones' complement folds  *)
(* the carry, which no property here depends on).  Fields a protocol does  *)
(* not have are 0.                                                         *)
(*                                                                         *)
(* An operator named ...Faulty is a bug one could put in its place; it is  *)
(* used by no specification, only to see that a property would notice.     *)
(***************************************************************************)
EXTENDS Integers

None == 0      \* no address, no option
EchoPort == 7

\* ARP operations, ICMP and ICMPv6 types.
Request == 1      Reply == 2
EchoRequest == 8  EchoReply4 == 0
EchoRequest6 == 128  EchoReply6 == 129
Solicit == 135    Advert == 136

\* Flags of an advertisement, and the types of its option.
SolicitedOverride == 96
SourceLLAddr == 1  TargetLLAddr == 2

(***************************************************************************)
(* The fields of a frame:                                                  *)
(*   esrc, edst     Ethernet addresses                                     *)
(*   type           "arp", "ipv4", "ipv6" or another ethertype             *)
(*   proto          "icmp", "udp", "icmpv6" or another protocol            *)
(*   src, dst       IP addresses; for ARP sender's and target's            *)
(*   hsrc, hdst     ARP hardware addresses of sender and target            *)
(*   op             ARP operation, ICMP or ICMPv6 type                     *)
(*   sport, dport   UDP ports                                              *)
(*   flags, target, option, lladdr   neighbor discovery                    *)
(*   sum, isum      checksums of the transport and of the IPv4 header      *)
(***************************************************************************)
Frame ==
  {f \in [esrc : Nat, edst : Nat, type : STRING, proto : STRING, src : Nat,
          dst : Nat, hsrc : Nat, hdst : Nat, op : Nat, sport : Nat, dport : Nat,
          flags : Nat, target : Nat, option : Nat, lladdr : Nat, sum : Nat,
          isum : Nat] :
     /\ f.type = "arp" => f.sum = 0 /\ f.isum = 0
     /\ f.type = "arp" \/ f.proto # "udp" => f.sport = None /\ f.dport = None
     /\ f.op # None => f.type = "arp" \/ f.proto \in {"icmp", "icmpv6"}}

IpSum(f) == IF f.type = "ipv4" THEN f.src + f.dst ELSE 0

\* Over IPv6 and for UDP the checksum covers the addresses, too.
Words(f) == f.op + f.sport + f.dport + f.flags + f.target + f.option + f.lladdr
Checksum(f) == IF f.type = "arp" THEN 0
               ELSE Words(f) + IF f.proto = "icmp" THEN 0 ELSE f.src + f.dst

Summed(f) == [f EXCEPT !.sum = Checksum(f), !.isum = IpSum(f)]

\* The result of a handler: a frame to send, nothing, or a panic.
Sent(f) == [kind |-> "sent", frame |-> f]
Ignored == [kind |-> "ignored"]
Panicked == [kind |-> "panicked"]

-----------------------------------------------------------------------------
\* The target's protocol address is left what it was, the address asked for.
ArpFaulty(h, f) ==
  Sent([f EXCEPT !.op = Reply, !.hdst = f.hsrc, !.hsrc = h.mac, !.src = f.dst])
Arp(h, f) ==
  IF f.op # Request THEN Ignored
  ELSE Sent([f EXCEPT !.op = Reply, !.hdst = f.hsrc, !.hsrc = h.mac,
                      !.src = f.dst])

IcmpFaulty(f) ==
  IF f.op # EchoRequest THEN Ignored
  ELSE Sent([Summed(f) EXCEPT !.op = EchoReply4])
Icmp(f) ==
  IF f.op # EchoRequest THEN Ignored
  ELSE Sent(Summed([f EXCEPT !.op = EchoReply4]))

\* process_udp and process_udpv6, which has no header checksum to set.
UdpFaulty(f) ==
  IF f.dport # EchoPort THEN Ignored
  ELSE Sent(Summed([f EXCEPT !.dport = f.sport, !.sport = f.sport]))
Udp(f) ==
  IF f.dport # EchoPort THEN Ignored
  ELSE Sent(Summed([f EXCEPT !.dport = f.sport, !.sport = f.dport]))

\* process_ndp writes the host's address over the first option, which must be
\* there; what is solicited is not looked at.
Ndp(f) ==
  IF f.option = None THEN Panicked
  ELSE Sent(Summed([f EXCEPT !.op = Advert, !.flags = SolicitedOverride,
                             !.option = TargetLLAddr, !.lladdr = f.esrc]))

Icmpv6(f) ==
  CASE f.op = Solicit -> Ndp(f)
    [] f.op = EchoRequest6 -> Sent(Summed([f EXCEPT !.op = EchoReply6]))
    [] OTHER -> Ignored

\* Only frames for the host's own address are answered ...
Ipv4(h, f) ==
  LET g == [f EXCEPT !.dst = f.src, !.src = h.ip4]
  IN  IF h.ip4 = None THEN Panicked
      ELSE CASE f.dst # h.ip4 -> Ignored
             [] f.dst = h.ip4 /\ f.proto = "icmp" -> Icmp(g)
             [] f.dst = h.ip4 /\ f.proto = "udp" -> Udp(g)
             [] OTHER -> Ignored

\* ... which over IPv6 nobody checks.
Ipv6(h, f) ==
  LET g == [f EXCEPT !.dst = f.src, !.src = h.ip6]
  IN  IF h.ip6 = None THEN Panicked
      ELSE CASE f.proto = "udp" -> Udp(g)
             [] f.proto = "icmpv6" -> Icmpv6(g)
             [] OTHER -> Ignored

\* process_packet.
Answer(h, f) ==
  LET g == [f EXCEPT !.edst = f.esrc, !.esrc = h.mac]
  IN  CASE f.type = "arp" -> Arp(h, g)
        [] f.type = "ipv4" -> Ipv4(h, g)
        [] f.type = "ipv6" -> Ipv6(h, g)
        [] OTHER -> Ignored
=============================================================================
