------------------------------- MODULE Rewrite -------------------------------
(***************************************************************************)
(* The examples that rewrite packets in place, at work on a frame: echo,   *)
(* change_word and tunnel.  What they do to one frame are the operators of *)
(* EchoReply, WordChange and MssOption; here frames are given to them and  *)
(* what they send is looked at with the eyes of whoever receives it.       *)
(*                                                                         *)
(* The answer of an echo host may reach another echo host on the same      *)
(* link, which may answer it; so for echo a run is a conversation, of as   *)
(* many frames as the hosts keep it up.                                    *)
(***************************************************************************)
EXTENDS EchoReply, WordChange, MssOption, SequencesExt

CONSTANTS
  EchoHosts,   \* the hosts on a link that run echo: records of mac, ip4, ip6
  Everyone,    \* the Ethernet address that reaches all of them
  Requests,    \* frames put on that link
  Edits,       \* settings of change_word: source, target, and cut, whether
               \* pnet ends the UDP payload where the IP header says
  Datagrams,   \* datagrams given to change_word
  Segments     \* frames given to the tunnel

ASSUME EchoAssumption ==
  EchoHosts \subseteq [mac : Nat, ip4 : Nat, ip6 : Nat] /\ Requests \subseteq Frame

\* A datagram's lengths agree, and behind its text it may be padded.
ASSUME DatagramAssumption ==
  /\ Edits \subseteq [source : Seq(Symbol) \ {<<>>}, target : Seq(Symbol),
                     cut : BOOLEAN]
  /\ Datagrams \subseteq [data : Seq(Symbol), ulen : Nat, total : Nat,
                         fresh : BOOLEAN]
  /\ \A d \in Datagrams : /\ d.ulen \in UdpHeader..(UdpHeader + Len(d.data))
                           /\ d.total = IpHeader + d.ulen

\* Padding is no part of a source word, where pnet does not cut it off.
ASSUME PaddingAssumption ==
  \A e \in Edits, d \in Datagrams :
    ~e.cut => \A i \in (d.ulen - UdpHeader + 1)..Len(d.data) :
                \A j \in 1..Len(e.source) : d.data[i] # e.source[j]

ASSUME SegmentAssumption ==
  /\ Segments \subseteq [type : STRING, proto : STRING, options : Seq(Option),
                        raw : Seq(Byte), fresh : BOOLEAN]
  /\ \A f \in Segments : f.raw = FlattenSeq(f.options)

VARIABLES
  program,   \* the example considered
  wire,      \* pairs of a receiver and a frame on its way to it
  handled    \* the last frame handled, if any, in a sequence of at most one:
             \* by whom, what was given, what came out

vars == <<program, wire, handled>>

\* Who receives an Ethernet frame: a record of EchoHosts.
Reached(f) ==
  {h \in EchoHosts : h.mac # f.esrc /\ f.edst \in {h.mac, Everyone}}
ToHosts(f) == {<<h, f>> : h \in Reached(f)}

Init ==
  /\ handled = <<>>
  /\ \/ program = "echo" /\ \E f \in Requests : wire = ToHosts(f)
     \/ /\ program = "change_word"
        /\ \E e \in Edits, d \in Datagrams : wire = {<<e, d>>}
     \/ program = "tunnel" /\ \E f \in Segments : wire = {<<None, f>>}

\* A panic ends the process, which receives nothing more.
Handled(m, out, onward) ==
  /\ wire' = IF out.kind = "panicked" THEN {n \in wire : n[1] # m[1]}
             ELSE (wire \ {m}) \cup onward
  /\ handled' = <<[by |-> m[1], given |-> m[2], out |-> out]>>
  /\ UNCHANGED program

Echo(m) ==
  LET out == Answer(m[1], m[2])
  IN  /\ program = "echo"
      /\ Handled(m, out, IF out.kind = "sent" THEN ToHosts(out.frame) ELSE {})

Change(m) ==
  /\ program = "change_word"
  /\ Handled(m, ChangeWord(m[2], m[1].source, m[1].target, m[1].cut), {})

Clamp(m) ==
  /\ program = "tunnel"
  /\ Handled(m, Sent(SetMms(m[2])), {})

Next == \E m \in wire : Echo(m) \/ Change(m) \/ Clamp(m)

Spec == Init /\ [][Next]_vars /\ WF_vars(Next)

-----------------------------------------------------------------------------
(* Properties of echo                                                      *)

last == handled[1]
Came(example, kind) ==
  program = example /\ handled # <<>> /\ last.out.kind = kind

\* What a frame asks for, and the kind of frame that answers it.
Answers == {<<Request, Reply>>, <<EchoRequest, EchoReply4>>,
            <<EchoRequest6, EchoReply6>>, <<Solicit, Advert>>, <<None, None>>}

\* r goes back to where f came from and is of the kind that answers it.
Returns(f, r) ==
  /\ <<f.op, r.op>> \in Answers
  /\ r.edst = f.esrc
  /\ r.sport = f.dport /\ r.dport = f.sport

\* The sender of the IP packet f takes r for the answer.
Takes(f, r) ==
  /\ Returns(f, r)
  /\ r.dst = f.src
  /\ f.op # Solicit => r.src = f.dst
  /\ f.op = Solicit => /\ r.target = f.target
                       /\ r.option = TargetLLAddr /\ r.lladdr = r.esrc

\* The ARP reply r tells who has the address that f asks for, in the fields
\* about its sender.  Whom it names as its target is left to ArpAddressed.
Teaches(f, r) ==
  /\ Returns(f, r)
  /\ r.src = f.dst /\ r.hsrc = r.esrc
  /\ r.hdst = f.hsrc

(***************************************************************************)
(* Whoever pings echo, sends it a datagram or solicits a neighbor gets an  *)
(* answer it takes for one, and whoever asks by ARP can learn from the     *)
(* reply's sender fields what it asked, though each handler edits the      *)
(* request field by field.  Over IPv6 that goes for the host's own         *)
(* address: packets to another one are answered in the host's name.        *)
(***************************************************************************)
AnswerTaken ==
  Came("echo", "sent") =>
    LET f == last.given
        r == last.out.frame
    IN  \/ f.type = "arp" /\ Teaches(f, r)
        \/ f.type # "arp" /\ Takes(f, r)
        \/ f.type = "ipv6" /\ f.op # Solicit /\ f.dst # last.by.ip6

(***************************************************************************)
(* The checksums of an answer are those of what it says now, not of the    *)
(* request it was made from.                                               *)
(***************************************************************************)
SumsRight ==
  Came("echo", "sent") => last.out.frame = Summed(last.out.frame)

(***************************************************************************)
(* Echo hosts on one link do not keep answering each other: a request that *)
(* is not itself sent from the echo port ends in silence.                  *)
(***************************************************************************)
Conversation == \E m \in wire : m[2].sport # EchoPort \/ m[2].dport # EchoPort
FallsSilent ==
  program = "echo" /\ Conversation => <>[](wire = {})

(***************************************************************************)
(* examples/README.md: echo answers ARP, to be tested with arping, which   *)
(* looks for its own address in the reply's target field.                  *)
(***************************************************************************)
ArpAddressed ==
  Came("echo", "sent") /\ last.given.type = "arp" =>
    last.out.frame.dst = last.given.src

-----------------------------------------------------------------------------
(* Properties of change_word and tunnel                                    *)

Text(d) == SubSeq(d.data, 1, d.ulen - UdpHeader)

(***************************************************************************)
(* The receiver of a changed datagram reads the sender's text with every   *)
(* source word replaced, whether the frame was padded or not: both length  *)
(* fields, the frame's size and the bytes moved agree.  The checksum is    *)
(* that of this text where pnet cuts the padding off, as it does.          *)
(***************************************************************************)
ChangeArrives ==
  Came("change_word", "sent") =>
    LET r == last.out.frame
    IN  /\ Text(r) = Replace(Text(last.given), last.by.source, last.by.target)
        /\ r.total = IpHeader + r.ulen
        /\ Len(r.data) >= r.ulen - UdpHeader
        /\ last.by.cut => r.fresh

(***************************************************************************)
(* change_word panics only when the changed frame does not fit its chunk:  *)
(* the two slices it copies between have fitting lengths.                  *)
(***************************************************************************)
OnlyFullPanics ==
  Came("change_word", "panicked") =>
    LET text == Text(last.given)
        grown == Len(Replace(text, last.by.source, last.by.target)) - Len(text)
    IN  Headers + Len(last.given.data) + grown > BufferSize

(***************************************************************************)
(* Of the options of a TCP header the tunnel changes the size in the first *)
(* MSS option and nothing else, however the options are mixed, and leaves  *)
(* the checksum right.                                                     *)
(***************************************************************************)
FirstMssAt(options, k) ==
  options[k][1] = Mss /\ \A j \in 1..(k - 1) : options[j][1] # Mss
MssClamped ==
  Came("tunnel", "sent") =>
    LET f == last.given
        r == last.out.frame
        tcp == f.type = "ipv4" /\ f.proto = "tcp"
        first == {k \in DOMAIN f.options : tcp /\ FirstMssAt(f.options, k)}
        sized(k) == [f.options EXCEPT ![k] = <<Mss, 4, Mms[1], Mms[2]>>]
    IN  /\ IF first = {} THEN r.raw = f.raw
           ELSE \A k \in first : r.raw = FlattenSeq(sized(k))
        /\ r.fresh = (tcp \/ f.fresh)
=============================================================================
