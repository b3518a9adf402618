------------------------------ MODULE MCRewrite ------------------------------
(* Hosts, frames and texts for Rewrite.                                    *)
EXTENDS Rewrite

\* Two hosts with both addresses, one with neither.  Everyone is 99, and 9 the
\* address of a host that does not run echo.
MCHosts == {[mac |-> 1, ip4 |-> 10, ip6 |-> 20],
            [mac |-> 2, ip4 |-> 11, ip6 |-> 21],
            [mac |-> 3, ip4 |-> None, ip6 |-> None]}

\* Requests come from that host or from one that runs echo, too; they go to a
\* host or, like those for an address no one has (90), to everyone.
Senders == {[mac |-> 9, ip4 |-> 19, ip6 |-> 29],
            [mac |-> 2, ip4 |-> 11, ip6 |-> 21]}
Plain(s, edst, type, proto, src, dst) ==
  [esrc |-> s.mac, edst |-> edst, type |-> type, proto |-> proto,
   src |-> src, dst |-> dst, hsrc |-> None, hdst |-> None, op |-> None,
   sport |-> None, dport |-> None, flags |-> 0, target |-> None,
   option |-> None, lladdr |-> None, sum |-> 0, isum |-> 0]
Macs == {1, 2, 3, 99}
Ports == {EchoPort, 5}

ArpFrames ==
  {[Plain(s, edst, "arp", "none", s.ip4, dst) EXCEPT !.op = op, !.hsrc = s.mac]
     : s \in Senders, edst \in Macs, dst \in {10, 11, 90},
       op \in {Request, Reply}}
Ipv4Frames == 
  {Plain(s, edst, "ipv4", proto, s.ip4, dst)
     : s \in Senders, edst \in Macs, proto \in {"icmp", "udp", "tcp"},
       dst \in {10, 11, 90}}
Ipv6Frames ==
  {Plain(s, edst, "ipv6", proto, s.ip6, dst)
     : s \in Senders, edst \in Macs, proto \in {"icmpv6", "udp", "tcp"},
       dst \in {20, 21, 90}}
OfProto(frames, proto) == {f \in frames : f.proto = proto}
IcmpFrames == {[f EXCEPT !.op = op] : f \in OfProto(Ipv4Frames, "icmp"),
                                      op \in {EchoRequest, EchoReply4}}
UdpFrames ==
  {[f EXCEPT !.sport = sport, !.dport = dport]
     : f \in OfProto(Ipv4Frames \cup Ipv6Frames, "udp"),
       sport \in Ports, dport \in Ports}
Icmpv6Frames ==
  {[f EXCEPT !.op = op] : f \in OfProto(Ipv6Frames, "icmpv6"),
                          op \in {EchoRequest6, EchoReply6, Advert}}
  \cup {[f EXCEPT !.op = Solicit, !.target = target, !.option = option,
                  !.lladdr = IF option = None THEN None ELSE f.esrc]
          : f \in OfProto(Ipv6Frames, "icmpv6"), target \in {20, 90},
            option \in {None, SourceLLAddr}}
MCRequests ==
  {Summed(f) : f \in ArpFrames \cup IcmpFrames \cup UdpFrames \cup Icmpv6Frames
                     \cup OfProto(Ipv4Frames \cup Ipv6Frames, "tcp")}

\* Texts over two letters, overlapping words among the source words, and zeros
\* as padding.
Texts == BoundedSeq({"a", "b"}, 4)
MCEdits == [source : {<<"a">>, <<"a", "a">>, <<"b", "a">>},
            target : {<<>>, <<"b">>, <<"a", "b", "a">>},
            cut : BOOLEAN]
MCDatagrams ==
  {[data |-> text \o [i \in 1..pad |-> "0"],
    ulen |-> UdpHeader + Len(text),
    total |-> IpHeader + UdpHeader + Len(text), fresh |-> fresh]
     : text \in Texts, pad \in {0, 3}, fresh \in BOOLEAN}

\* Options: end of list, no operation, MSS, window scale, SACK permitted, and
\* one whose data look like an MSS option.
TcpOptions == {<<Eol>>, <<Nop>>, <<Mss, 4, 5, 180>>, <<3, 3, 7>>, <<4, 2>>,
               <<8, 6, Mss, 4, 5, 5>>}
MCSegments ==
  {[type |-> type, proto |-> proto, options |-> options,
    raw |-> FlattenSeq(options), fresh |-> fresh]
     : type \in {"ipv4", "ipv6"}, proto \in {"tcp", "udp"}, options \in BoundedSeq(TcpOptions, 3),
       fresh \in BOOLEAN}

MCMms == <<5, 138>>     \* 1418
=============================================================================
