--------------------------- MODULE RewriteProofs ---------------------------
(***************************************************************************)
(* Theorems of Rewrite.                                                    *)
(*                                                                         *)
(* What a run shows is the outcome of a frame or of a pair of settings and *)
(* a datagram that there may be (Inv).  What matters is therefore what the *)
(* handlers make of any frame, any text and words, any mix of options:     *)
(* EchoGood, ChangeGood and ClampGood.  The last two speak of functions    *)
(* defined by recursion over a text and over a list of options; they are   *)
(* shown to exist (Recursion) and then compared, position by position, by  *)
(* induction (Induct).                                                     *)
(***************************************************************************)
EXTENDS Rewrite, TLAPS, FiniteSetTheorems, SequenceTheorems

-----------------------------------------------------------------------------
(* Induction and recursion on the natural numbers                          *)

\* Induction: a set of naturals with 0 and every successor is all of them.
LEMMA Induct ==
  ASSUME NEW T, 0 \in T, \A n \in Nat : n \in T => n + 1 \in T
  PROVE  Nat \subseteq T
<1> SUFFICES ASSUME NEW m \in Nat, m \notin T PROVE FALSE
  OBVIOUS
<1> DEFINE U == {0..k : k \in Nat \ T} \cap SUBSET (0..m)
<1>1. 0..m \in U
  OBVIOUS
<1>2. U \subseteq FiniteSubsetsOf(0..m)
  <2>1. \A k \in Nat : IsFiniteSet(0..k)
    BY FS_Interval
  <2> QED BY <2>1 DEF FiniteSubsetsOf
<1>3. IsWellFoundedOn(StrictSubsetOrdering(0..m), FiniteSubsetsOf(0..m))
  BY FS_StrictSubsetOrderingWellFounded
<1> HIDE DEF U
<1>4. PICK W \in U : \A R \in U : <<R, W>> \notin StrictSubsetOrdering(0..m)
  BY <1>1, <1>2, <1>3, WFMin
<1>5. PICK x \in Nat \ T : W = 0..x /\ 0..x \subseteq 0..m
  BY <1>4 DEF U
<1>6. x - 1 \in Nat \ T
  BY <1>5
<1>7. 0..(x - 1) \subseteq 0..x /\ 0..(x - 1) # 0..x /\ 0..(x - 1) \in U
  BY <1>5, <1>6 DEF U
<1>8. <<0..(x - 1), W>> \notin StrictSubsetOrdering(0..m)
  BY ONLY <1>4, <1>7
<1>9. <<0..(x - 1), 0..x>> \in StrictSubsetOrdering(0..m)
  BY ONLY <1>5, <1>7 DEF StrictSubsetOrdering
<1> QED BY ONLY <1>5, <1>8, <1>9

\* A function on D with values in V given by recursion: a value at the points
\* of Ends, and at every other one a step from the value at the next, whose
\* rank is smaller.
Recursive(D, V, rank, M, Ends, base, next, step) ==
  /\ M \in Nat /\ rank \in [D -> Nat] /\ \A i \in D : rank[i] < M
  /\ base \in [D -> V] /\ step \in [D -> [V -> V]]
  /\ next \in [D -> D] /\ \A i \in D \ Ends : rank[next[i]] < rank[i]
Defines(g, D, V, Ends, base, next, step) ==
  /\ g \in [D -> V]
  /\ \A i \in D : g[i] = IF i \in Ends THEN base[i] ELSE step[i][g[next[i]]]

LEMMA Recursion ==
  ASSUME NEW D, NEW V, NEW rank, NEW M, NEW Ends, NEW base, NEW next, NEW step,
         Recursive(D, V, rank, M, Ends, base, next, step)
  PROVE  \E g : Defines(g, D, V, Ends, base, next, step)
<1> USE DEF Recursive
<1> DEFINE Below(n) == {i \in D : rank[i] < n}
           Solves(g, n) ==
             \A i \in Below(n) :
               g[i] = IF i \in Ends THEN base[i] ELSE step[i][g[next[i]]]
           T == {n \in Nat : \E g \in [Below(n) -> V] : Solves(g, n)}
<1>1. 0 \in T
  <2>1. Below(0) = {}
    OBVIOUS
  <2>2. [i \in Below(0) |-> base[i]] \in [Below(0) -> V]
    OBVIOUS
  <2> QED BY <2>1, <2>2
<1>2. ASSUME NEW n \in Nat, n \in T PROVE n + 1 \in T
  <2>1. PICK g \in [Below(n) -> V] : Solves(g, n)
    BY <1>2
  <2> DEFINE h == [i \in Below(n + 1) |->
                     IF i \in Ends THEN base[i] ELSE step[i][g[next[i]]]]
  <2>2. \A i \in Below(n + 1) \ Ends : next[i] \in Below(n)
    OBVIOUS
  <2>3. h \in [Below(n + 1) -> V]
    BY <2>2
  <2>4. \A i \in Below(n) : i \in Below(n + 1) /\ h[i] = g[i]
    BY <2>1
  <2> HIDE DEF Below
  <2>5. Solves(h, n + 1)
    <3> SUFFICES ASSUME NEW i \in Below(n + 1)
                 PROVE  h[i] = IF i \in Ends THEN base[i] ELSE step[i][h[next[i]]]
      OBVIOUS
    <3>1. CASE i \in Ends
      BY <3>1
    <3>2. CASE i \notin Ends
      BY <3>2, <2>2, <2>4
    <3> QED BY <3>1, <3>2
  <2> HIDE DEF h, Solves
  <2>6. \E f \in [Below(n + 1) -> V] : Solves(f, n + 1)
    BY <2>3, <2>5
  <2> QED BY <2>6
<1> HIDE DEF T
<1>3. M \in T
  BY <1>1, <1>2, Induct
<1>4. Below(M) = D
  OBVIOUS
<1>5. \E g \in [Below(M) -> V] : Solves(g, M)
  BY <1>3 DEF T
<1> QED BY <1>4, <1>5 DEF Defines

\* The same for the numbers up to N, the step going to m.
LEMMA InductTo ==
  ASSUME NEW N \in Nat, NEW T, 0 \in T, \A m \in 1..N : m - 1 \in T => m \in T
  PROVE  0..N \subseteq T
<1> DEFINE U == {n \in Nat : n <= N => n \in T}
<1>1. 0 \in U
  OBVIOUS
<1>2. ASSUME NEW n \in Nat, n \in U PROVE n + 1 \in U
  <2> SUFFICES ASSUME n + 1 <= N PROVE n + 1 \in T
    OBVIOUS
  <2> DEFINE m == n + 1
  <2>1. m \in 1..N /\ m - 1 = n /\ n \in T
    BY <1>2
  <2> HIDE DEF m
  <2>2. m \in T
    BY <2>1
  <2> QED BY <2>2 DEF m
<1> HIDE DEF U
<1>3. Nat \subseteq U
  BY <1>1, <1>2, Induct
<1> QED BY <1>3 DEF U

\* A nonempty set of naturals has a least member.
LEMMA LeastMember ==
  ASSUME NEW X, X \subseteq Nat, X # {}
  PROVE  Min(X) \in X /\ \A y \in X : Min(X) <= y
<1> DEFINE T == {n \in Nat : \A m \in 0..n : m \notin X}
<1>1. ASSUME ~\E m \in X : \A y \in X : m <= y PROVE FALSE
  <2>1. 0 \in T
    <3>1. 0 \in X => \A y \in X : 0 <= y
      OBVIOUS
    <3> QED BY <1>1, <3>1
  <2>2. ASSUME NEW n \in Nat, n \in T PROVE n + 1 \in T
    <3>1. n + 1 \in X => \A y \in X : n + 1 <= y
      BY <2>2
    <3>2. n + 1 \notin X
      BY <1>1, <3>1
    <3> QED BY <2>2, <3>2
  <2> HIDE DEF T
  <2>3. Nat \subseteq T
    BY <2>1, <2>2, Induct
  <2>4. PICK x \in X : x \in Nat
    OBVIOUS
  <2> QED BY <2>3, <2>4 DEF T
<1> QED BY <1>1 DEF Min

-----------------------------------------------------------------------------
(* echo                                                                    *)

\* A result of echo, and what is to be shown of it.
Good(h, f, r) ==
  \/ r = Ignored
  \/ r = Panicked
  \/ /\ r.kind = "sent" /\ r.frame \in Frame
     /\ r.frame = Summed(r.frame)
     /\ \/ f.type = "arp" /\ Teaches(f, r.frame)
        \/ f.type # "arp" /\ Takes(f, r.frame)
        \/ f.type = "ipv6" /\ f.op # Solicit /\ f.dst # h.ip6

\* Setting the checksums changes nothing else, and again changes nothing.
LEMMA SummedFrame ==
  ASSUME NEW f \in Frame, f.type # "arp"
  PROVE  /\ Summed(f) \in Frame
         /\ Summed(Summed(f)) = Summed(f)
         /\ Summed(f) = [f EXCEPT !.sum = Checksum(f), !.isum = IpSum(f)]
<1>1. Summed(f) = [f EXCEPT !.sum = Checksum(f), !.isum = IpSum(f)]
  BY DEF Summed
<1>2. Checksum(f) \in Nat /\ IpSum(f) \in Nat
  BY DEF Checksum, Words, IpSum, Frame
<1>3. Summed(f) \in Frame
  <2> DEFINE R == [esrc : Nat, edst : Nat, type : STRING, proto : STRING, src : Nat,
                   dst : Nat, hsrc : Nat, hdst : Nat, op : Nat, sport : Nat,
                   dport : Nat, flags : Nat, target : Nat, option : Nat,
                   lladdr : Nat, sum : Nat, isum : Nat]
             s == Summed(f)
  <2>1. f \in R
    BY DEF Frame
  <2>2. s \in R
    BY ONLY <1>1, <1>2, <2>1
  <2>3. /\ s.type = f.type /\ s.proto = f.proto /\ s.op = f.op
        /\ s.sport = f.sport /\ s.dport = f.dport
    BY <1>1, <2>1
  <2>4. /\ f.type # "arp" /\ (f.proto # "udp" => f.sport = None /\ f.dport = None)
        /\ f.op # None => f.proto \in {"icmp", "icmpv6"}
    BY DEF Frame
  <2> HIDE DEF s, R
  <2>5. /\ s.type # "arp" /\ (s.proto # "udp" => s.sport = None /\ s.dport = None)
        /\ s.op # None => s.proto \in {"icmp", "icmpv6"}
    BY ONLY <2>3, <2>4
  <2> QED BY ONLY <2>2, <2>5 DEF Frame, s, R
<1> DEFINE g == Summed(f)
<1>4. Checksum(g) = Checksum(f) /\ IpSum(g) = IpSum(f)
  BY <1>1 DEF Checksum, Words, IpSum, Frame
<1>5. [g EXCEPT !.sum = Checksum(g), !.isum = IpSum(g)] = g
  <2>1. g.sum = Checksum(f) /\ g.isum = IpSum(f)
    BY <1>1 DEF Frame
  <2>2. [g EXCEPT !.sum = g.sum] = g
    BY <1>3 DEF Frame
  <2>3. [g EXCEPT !.isum = g.isum] = g
    BY <1>3 DEF Frame
  <2> HIDE DEF g
  <2> QED BY <2>1, <1>3, <1>4, <2>2, <2>3
<1> QED BY <1>1, <1>3, <1>5 DEF Summed

LEMMA ArpGood ==
  ASSUME NEW h \in EchoHosts, NEW f \in Frame, f.type = "arp"
  PROVE  Good(h, f, Answer(h, f))
<1>1. CASE f.op # Request
  BY <1>1 DEF Answer, Arp, Good, Frame
<1>2. CASE f.op = Request
  <2> DEFINE r == Answer(h, f).frame
  <2>0. h.mac \in Nat /\ h.ip4 \in Nat
    BY EchoAssumption
  <2>1. /\ Answer(h, f).kind = "sent"
        /\ r = [[f EXCEPT !.edst = f.esrc, !.esrc = h.mac]
                EXCEPT !.op = Reply, !.hdst = f.hsrc, !.hsrc = h.mac, !.src = f.dst]
    BY <1>2, <2>0 DEF Answer, Arp, Sent, Frame
  <2> HIDE DEF r
  <2>2. /\ r \in Frame /\ r.type = "arp" /\ r.op = Reply /\ r.hdst = f.hsrc
        /\ r.hsrc = h.mac /\ r.src = f.dst /\ r.edst = f.esrc /\ r.esrc = h.mac
        /\ r.sport = None /\ r.dport = None /\ r.sum = 0 /\ r.isum = 0
    BY <2>0, <2>1 DEF Frame, None, Reply
  <2>3. f.sport = None /\ f.dport = None
    BY DEF Frame
  <2>4. Teaches(f, r)
    BY <1>2, <2>2, <2>3 DEF Teaches, Returns, Answers, Request, Reply
  <2>5. r = Summed(r)
    <3>1. Checksum(r) = 0 /\ IpSum(r) = 0
      BY <2>2 DEF Checksum, IpSum
    <3> QED BY <2>2, <3>1 DEF Summed, Frame
  <2> QED BY <2>1, <2>2, <2>4, <2>5 DEF Good, r
<1> QED BY <1>1, <1>2

\* The frame a handler above IP is given.
Turned(h, f, own) ==
  [[f EXCEPT !.edst = f.esrc, !.esrc = h.mac] EXCEPT !.dst = f.src, !.src = own]

LEMMA TurnedFrame ==
  ASSUME NEW h \in EchoHosts, NEW f \in Frame, f.type # "arp", NEW own \in Nat
  PROVE  LET g == Turned(h, f, own)
         IN  /\ g \in Frame /\ g.type = f.type /\ g.proto = f.proto
             /\ g.edst = f.esrc /\ g.esrc = h.mac
             /\ g.dst = f.src /\ g.src = own /\ g.op = f.op
             /\ g.sport = f.sport /\ g.dport = f.dport
             /\ g.target = f.target /\ g.option = f.option
<1>1. h.mac \in Nat
  BY EchoAssumption
<1> QED BY <1>1 DEF Turned, Frame

\* What the handlers above IP make of it.
LEMMA PingSent ==
  ASSUME NEW f \in Frame, f.type # "arp", f.proto \in {"icmp", "icmpv6"},
         NEW reply \in Nat
  PROVE  LET r == Summed([f EXCEPT !.op = reply])
         IN  /\ r \in Frame /\ r = Summed(r) /\ r.op = reply
             /\ r.edst = f.edst /\ r.src = f.src /\ r.dst = f.dst
             /\ r.sport = None /\ r.dport = None
<1> DEFINE g == [f EXCEPT !.op = reply]
<1>1. /\ g \in Frame /\ g.type # "arp" /\ g.op = reply /\ g.edst = f.edst
      /\ g.src = f.src /\ g.dst = f.dst /\ g.sport = None /\ g.dport = None
  BY DEF Frame
<1> HIDE DEF g
<1>2. /\ Summed(g) \in Frame
      /\ Summed(Summed(g)) = Summed(g)
      /\ Summed(g) = [g EXCEPT !.sum = Checksum(g), !.isum = IpSum(g)]
  BY <1>1, SummedFrame
<1>3. /\ Summed(g).op = g.op /\ Summed(g).edst = g.edst /\ Summed(g).src = g.src
      /\ Summed(g).dst = g.dst /\ Summed(g).sport = g.sport
      /\ Summed(g).dport = g.dport
  BY <1>1, <1>2 DEF Frame
<1> QED BY <1>1, <1>2, <1>3 DEF g

Swapped(f) == [f EXCEPT !.dport = f.sport, !.sport = f.dport]

LEMMA UdpSent ==
  ASSUME NEW f \in Frame, f.type # "arp", f.proto = "udp"
  PROVE  LET r == Summed(Swapped(f))
         IN  /\ r \in Frame /\ r = Summed(r) /\ r.op = None /\ f.op = None
             /\ r.edst = f.edst /\ r.src = f.src /\ r.dst = f.dst
             /\ r.sport = f.dport /\ r.dport = f.sport
<1> DEFINE g == Swapped(f)
<1>1. /\ g \in Frame /\ g.type # "arp" /\ g.op = None /\ g.edst = f.edst
      /\ g.src = f.src /\ g.dst = f.dst /\ g.sport = f.dport
      /\ g.dport = f.sport /\ f.op = None
  BY DEF Swapped, Frame
<1> HIDE DEF g
<1>2. /\ Summed(g) \in Frame
      /\ Summed(Summed(g)) = Summed(g)
      /\ Summed(g) = [g EXCEPT !.sum = Checksum(g), !.isum = IpSum(g)]
  BY <1>1, SummedFrame
<1>3. /\ Summed(g).op = g.op /\ Summed(g).edst = g.edst /\ Summed(g).src = g.src
      /\ Summed(g).dst = g.dst /\ Summed(g).sport = g.sport
      /\ Summed(g).dport = g.dport
  BY <1>1, <1>2 DEF Frame
<1> QED BY <1>1, <1>2, <1>3 DEF g

Advertising(f) ==
  [f EXCEPT !.op = Advert, !.flags = SolicitedOverride,
            !.option = TargetLLAddr, !.lladdr = f.esrc]

LEMMA AdvertSent ==
  ASSUME NEW f \in Frame, f.type # "arp", f.proto = "icmpv6"
  PROVE  LET r == Summed(Advertising(f))
         IN  /\ r \in Frame /\ r = Summed(r) /\ r.op = Advert
             /\ r.edst = f.edst /\ r.src = f.src /\ r.dst = f.dst
             /\ r.sport = None /\ r.dport = None /\ r.target = f.target
             /\ r.option = TargetLLAddr /\ r.lladdr = r.esrc
<1> DEFINE g == Advertising(f)
<1>1. /\ g \in Frame /\ g.type # "arp" /\ g.op = Advert /\ g.edst = f.edst
      /\ g.src = f.src /\ g.dst = f.dst /\ g.sport = None /\ g.dport = None
      /\ g.target = f.target /\ g.option = TargetLLAddr /\ g.lladdr = g.esrc
  <2> DEFINE a == [f EXCEPT !.op = Advert, !.flags = SolicitedOverride]
  <2>0. Advert \in Nat /\ SolicitedOverride \in Nat /\ TargetLLAddr \in Nat
    BY DEF Advert, SolicitedOverride, TargetLLAddr
  <2>1. /\ a \in Frame /\ a.type = f.type /\ a.proto = f.proto /\ a.op = Advert
        /\ a.edst = f.edst /\ a.src = f.src /\ a.dst = f.dst
        /\ a.target = f.target /\ a.esrc = f.esrc
    BY <2>0 DEF Frame
  <2>2. g = [a EXCEPT !.option = TargetLLAddr, !.lladdr = f.esrc]
    BY DEF Advertising
  <2> HIDE DEF a, g
  <2>3. /\ g \in Frame /\ g.type = a.type /\ g.proto = a.proto /\ g.op = a.op
        /\ g.edst = a.edst /\ g.src = a.src /\ g.dst = a.dst
        /\ g.target = a.target /\ g.esrc = a.esrc
        /\ g.option = TargetLLAddr /\ g.lladdr = f.esrc
    BY <2>0, <2>1, <2>2 DEF Frame
  <2>4. g.sport = None /\ g.dport = None
    BY <2>1, <2>3 DEF Frame
  <2> QED BY <2>1, <2>3, <2>4
<1> HIDE DEF g
<1>2. /\ Summed(g) \in Frame
      /\ Summed(Summed(g)) = Summed(g)
      /\ Summed(g) = [g EXCEPT !.sum = Checksum(g), !.isum = IpSum(g)]
  BY <1>1, SummedFrame
<1>3. /\ Summed(g).op = g.op /\ Summed(g).edst = g.edst /\ Summed(g).src = g.src
      /\ Summed(g).dst = g.dst /\ Summed(g).sport = g.sport
      /\ Summed(g).dport = g.dport /\ Summed(g).target = g.target
      /\ Summed(g).option = g.option /\ Summed(g).lladdr = g.lladdr
      /\ Summed(g).esrc = g.esrc
  BY <1>1, <1>2 DEF Frame
<1> QED BY <1>1, <1>2, <1>3 DEF g

LEMMA Ipv4Good ==
  ASSUME NEW h \in EchoHosts, NEW f \in Frame, f.type = "ipv4"
  PROVE  Good(h, f, Answer(h, f))
<1> DEFINE g == Turned(h, f, h.ip4)
<1>0. h.ip4 \in Nat
  BY EchoAssumption
<1>1. Answer(h, f) = IF h.ip4 = None THEN Panicked
                     ELSE IF f.dst # h.ip4 THEN Ignored
                     ELSE IF f.proto = "icmp" THEN Icmp(g)
                     ELSE IF f.proto = "udp" THEN Udp(g) ELSE Ignored
  BY <1>0 DEF Answer, Ipv4, Turned, Frame
<1>2. /\ g \in Frame /\ g.type = "ipv4" /\ g.proto = f.proto
      /\ g.edst = f.esrc /\ g.dst = f.src /\ g.src = h.ip4 /\ g.op = f.op
      /\ g.sport = f.sport /\ g.dport = f.dport
  BY <1>0, TurnedFrame
<1> HIDE DEF g
<1>3. CASE /\ h.ip4 # None /\ f.dst = h.ip4 /\ f.proto = "icmp"
           /\ f.op = EchoRequest
  <2> DEFINE r == Summed([g EXCEPT !.op = EchoReply4])
  <2>1. Answer(h, f) = Sent(r)
    BY <1>1, <1>2, <1>3 DEF Icmp
  <2>2. /\ r \in Frame /\ r = Summed(r) /\ r.op = EchoReply4
        /\ r.edst = g.edst /\ r.src = g.src /\ r.dst = g.dst
        /\ r.sport = None /\ r.dport = None
    BY <1>2, <1>3, PingSent DEF EchoReply4
  <2> HIDE DEF r
  <2>3. f.sport = None /\ f.dport = None
    BY <1>3 DEF Frame
  <2>4. Takes(f, r)
    BY <1>2, <1>3, <2>2, <2>3 DEF Takes, Returns, Answers, Solicit, EchoRequest
  <2> QED BY <2>1, <2>2, <2>4 DEF Good, Sent
<1>4. CASE /\ h.ip4 # None /\ f.dst = h.ip4 /\ f.proto = "udp"
           /\ f.dport = EchoPort
  <2> DEFINE r == Summed(Swapped(g))
  <2>1. Answer(h, f) = Sent(r)
    BY <1>1, <1>2, <1>4 DEF Udp, Swapped
  <2>2. /\ r \in Frame /\ r = Summed(r) /\ r.op = None /\ g.op = None
        /\ r.edst = g.edst /\ r.src = g.src /\ r.dst = g.dst
        /\ r.sport = g.dport /\ r.dport = g.sport
    BY <1>2, <1>4, UdpSent
  <2> HIDE DEF r
  <2>3. Takes(f, r)
    BY <1>2, <1>4, <2>2 DEF Takes, Returns, Answers, Solicit, None
  <2> QED BY <2>1, <2>2, <2>3 DEF Good, Sent
<1> QED BY <1>1, <1>2, <1>3, <1>4 DEF Good, Icmp, Udp

LEMMA Ipv6Good ==
  ASSUME NEW h \in EchoHosts, NEW f \in Frame, f.type = "ipv6"
  PROVE  Good(h, f, Answer(h, f))
<1> DEFINE g == Turned(h, f, h.ip6)
<1>0. h.ip6 \in Nat
  BY EchoAssumption
<1>1. Answer(h, f) = IF h.ip6 = None THEN Panicked
                     ELSE IF f.proto = "udp" THEN Udp(g)
                     ELSE IF f.proto = "icmpv6" THEN Icmpv6(g) ELSE Ignored
  BY <1>0 DEF Answer, Ipv6, Turned, Frame
<1>2. /\ g \in Frame /\ g.type = "ipv6" /\ g.proto = f.proto
      /\ g.edst = f.esrc /\ g.dst = f.src /\ g.src = h.ip6 /\ g.op = f.op
      /\ g.sport = f.sport /\ g.dport = f.dport
      /\ g.target = f.target /\ g.option = f.option
  BY <1>0, TurnedFrame
<1> HIDE DEF g
<1>3. CASE h.ip6 # None /\ f.proto = "udp" /\ f.dport = EchoPort
  <2> DEFINE r == Summed(Swapped(g))
  <2>1. Answer(h, f) = Sent(r)
    BY <1>1, <1>2, <1>3 DEF Udp, Swapped
  <2>2. /\ r \in Frame /\ r = Summed(r) /\ r.op = None /\ g.op = None
        /\ r.edst = g.edst /\ r.src = g.src /\ r.dst = g.dst
        /\ r.sport = g.dport /\ r.dport = g.sport
    BY <1>2, <1>3, UdpSent
  <2> HIDE DEF r
  <2>3. f.dst = h.ip6 => Takes(f, r)
    BY <1>2, <1>3, <2>2 DEF Takes, Returns, Answers, Solicit, None
  <2> QED BY <1>2, <2>1, <2>2, <2>3 DEF Good, Sent, Solicit, None
<1>4. CASE h.ip6 # None /\ f.proto = "icmpv6"
  <2>0. f.sport = None /\ f.dport = None
    BY <1>4 DEF Frame
  <2>1. CASE f.op = Solicit /\ f.option # None
    <3> DEFINE r == Summed(Advertising(g))
    <3>1. Answer(h, f) = Sent(r)
      BY <1>1, <1>2, <1>4, <2>1 DEF Icmpv6, Ndp, Advertising, Solicit, EchoRequest6
    <3>2. /\ r \in Frame /\ r = Summed(r) /\ r.op = Advert
          /\ r.edst = g.edst /\ r.src = g.src /\ r.dst = g.dst
          /\ r.sport = None /\ r.dport = None /\ r.target = g.target
          /\ r.option = TargetLLAddr /\ r.lladdr = r.esrc
      BY <1>2, <1>4, AdvertSent
    <3> HIDE DEF r
    <3>3. Takes(f, r)
      BY <1>2, <2>0, <2>1, <3>2 DEF Takes, Returns, Answers
    <3> QED BY <3>1, <3>2, <3>3 DEF Good, Sent
  <2>2. CASE f.op = EchoRequest6
    <3> DEFINE r == Summed([g EXCEPT !.op = EchoReply6])
    <3>1. Answer(h, f) = Sent(r)
      BY <1>1, <1>2, <1>4, <2>2 DEF Icmpv6, Solicit, EchoRequest6
    <3>2. /\ r \in Frame /\ r = Summed(r) /\ r.op = EchoReply6
          /\ r.edst = g.edst /\ r.src = g.src /\ r.dst = g.dst
          /\ r.sport = None /\ r.dport = None
      BY <1>2, <1>4, PingSent DEF EchoReply6
    <3> HIDE DEF r
    <3>3. f.dst = h.ip6 => Takes(f, r)
      BY <1>2, <2>0, <2>2, <3>2 DEF Takes, Returns, Answers, Solicit, EchoRequest6
    <3> QED BY <2>2, <3>1, <3>2, <3>3 DEF Good, Sent, Solicit, EchoRequest6
  <2>3. CASE f.op = Solicit /\ f.option = None
    <3>1. Answer(h, f) = Panicked
      BY <1>1, <1>2, <1>4, <2>3 DEF Icmpv6, Ndp, Solicit, EchoRequest6
    <3> QED BY <2>3, <3>1 DEF Good
  <2>4. CASE f.op \notin {Solicit, EchoRequest6}
    <3>1. Answer(h, f) = Ignored
      BY <1>1, <1>2, <1>4, <2>4 DEF Icmpv6
    <3> QED BY <3>1 DEF Good
  <2> QED BY <2>1, <2>2, <2>3, <2>4
<1> QED BY <1>1, <1>2, <1>3, <1>4 DEF Good, Udp

LEMMA EchoGood ==
  ASSUME NEW h \in EchoHosts, NEW f \in Frame
  PROVE  Good(h, f, Answer(h, f))
<1>1. CASE f.type \notin {"arp", "ipv4", "ipv6"}
  <2>1. [f EXCEPT !.edst = f.esrc, !.esrc = h.mac].type = f.type
    BY DEF Frame
  <2> QED BY <1>1, <2>1 DEF Good, Answer
<1> QED BY <1>1, ArpGood, Ipv4Good, Ipv6Good

-----------------------------------------------------------------------------
(* change_word                                                             *)

\* A sequence put together from pieces, each of which names the next.
Chained(L, next, piece) ==
  /\ L \in Nat
  /\ next \in [1..L -> 1..(L + 1)] /\ \A i \in 1..L : i < next[i]
  /\ piece \in [1..L -> Seq(Symbol)]
ChainOf(g, L, next, piece) ==
  [i \in 1..(L + 1) |-> IF i > L THEN <<>> ELSE piece[i] \o g[next[i]]]
IsChain(g, L, next, piece) == g = ChainOf(g, L, next, piece)
Joins(g, L, next, piece) ==
  /\ g \in [1..(L + 1) -> Seq(Symbol)]
  /\ g[L + 1] = <<>>
  /\ \A i \in 1..L : g[i] = piece[i] \o g[next[i]]

LEMMA ChainExists ==
  ASSUME NEW L, NEW next, NEW piece, Chained(L, next, piece)
  PROVE  \E g : IsChain(g, L, next, piece)
<1> USE DEF Chained
<1> DEFINE D == 1..(L + 1)
           rank == [i \in D |-> L + 1 - i]
           base == [i \in D |-> <<>>]
           onward == [i \in D |-> IF i > L THEN i ELSE next[i]]
           step == [i \in D |-> [v \in Seq(Symbol) |-> IF i > L THEN v ELSE piece[i] \o v]]
<1>1. rank \in [D -> Nat] /\ \A i \in D : rank[i] < L + 1
  OBVIOUS
<1>2. base \in [D -> Seq(Symbol)]
  OBVIOUS
<1>3. onward \in [D -> D] /\ \A i \in D \ {L + 1} : rank[onward[i]] < rank[i]
  <2> SUFFICES ASSUME NEW i \in D
               PROVE  /\ onward[i] \in D
                      /\ i # L + 1 => rank[onward[i]] < rank[i]
    OBVIOUS
  <2>1. CASE i = L + 1
    BY <2>1
  <2>2. CASE i \in 1..L
    <3>1. onward[i] = next[i] /\ next[i] \in D /\ i < next[i]
      BY <2>2
    <3> QED BY <2>2, <3>1
  <2> QED BY <2>1, <2>2
<1>4. step \in [D -> [Seq(Symbol) -> Seq(Symbol)]]
  <2> SUFFICES ASSUME NEW i \in 1..L, NEW v \in Seq(Symbol) PROVE piece[i] \o v \in Seq(Symbol)
    OBVIOUS
  <2> QED OBVIOUS
<1>5. L + 1 \in Nat
  OBVIOUS
<1> DEFINE M == L + 1
           Ends == {L + 1}
<1>a. M \in Nat /\ rank \in [D -> Nat] /\ \A i \in D : rank[i] < M
  BY <1>1
<1>b. \A i \in D \ Ends : rank[onward[i]] < rank[i]
  BY <1>3
<1>c. onward \in [D -> D]
  BY <1>3
<1> HIDE DEF D, rank, base, onward, step, M, Ends
<1>d. Recursive(D, Seq(Symbol), rank, M, Ends, base, onward, step)
  BY <1>2, <1>4, <1>a, <1>b, <1>c DEF Recursive
<1>e. PICK g : Defines(g, D, Seq(Symbol), Ends, base, onward, step)
  BY <1>d, Recursion
<1>6. /\ g \in [D -> Seq(Symbol)]
      /\ \A i \in D : g[i] = IF i \in Ends THEN base[i] ELSE step[i][g[onward[i]]]
  BY <1>e DEF Defines
<1>7. ASSUME NEW i \in D
      PROVE  g[i] = IF i > L THEN <<>> ELSE piece[i] \o g[next[i]]
  <2>1. CASE i = L + 1
    <3>1. i > L /\ g[i] = base[i] /\ base[i] = <<>>
      BY <1>6, <2>1 DEF base, D, Ends
    <3> QED BY <3>1
  <2>2. CASE i \in 1..L
    <3>1. ~(i > L) /\ i \notin Ends /\ i \in D
      BY <2>2 DEF D, Ends
    <3>2. g[i] = step[i][g[onward[i]]] /\ onward[i] = next[i] /\ g[onward[i]] \in Seq(Symbol)
      BY <1>c, <1>6, <3>1 DEF onward
    <3>3. step[i][g[onward[i]]] = piece[i] \o g[onward[i]]
      BY <3>1, <3>2 DEF step
    <3> QED BY <3>1, <3>2, <3>3
  <2>3. i = L + 1 \/ i \in 1..L
    BY DEF D
  <2> QED BY ONLY <2>1, <2>2, <2>3
<1>8. g = [i \in D |-> IF i > L THEN <<>> ELSE piece[i] \o g[next[i]]]
  BY ONLY <1>6, <1>7
<1> QED BY <1>8 DEF D, ChainOf, IsChain

LEMMA ChainType ==
  ASSUME NEW L, NEW next, NEW piece, Chained(L, next, piece),
         NEW F, IsChain(F, L, next, piece)
  PROVE  Joins(F, L, next, piece)
<1> USE DEF Chained
<1>0. F = [i \in 1..(L + 1) |-> IF i > L THEN <<>> ELSE piece[i] \o F[next[i]]]
  BY DEF ChainOf, IsChain
<1> DEFINE D == 1..(L + 1)
           T == {k \in Nat : \A i \in D : L + 1 - i < k => F[i] \in Seq(Symbol)}
<1>1. F[L + 1] = <<>>
  BY <1>0
<1>2. ASSUME NEW i \in 1..L PROVE F[i] = piece[i] \o F[next[i]]
  <2>1. i \in 1..(L + 1) /\ ~(i > L)
    OBVIOUS
  <2>2. F[i] = IF i > L THEN <<>> ELSE piece[i] \o F[next[i]]
    BY ONLY <1>0, <2>1, Zenon
  <2> QED BY <2>1, <2>2
<1>3. 0 \in T
  OBVIOUS
<1>4. ASSUME NEW k \in Nat, k \in T PROVE k + 1 \in T
  <2> SUFFICES ASSUME NEW i \in D, L + 1 - i < k + 1 PROVE F[i] \in Seq(Symbol)
    OBVIOUS
  <2>0. <<>> \in Seq(Symbol)
    OBVIOUS
  <2>1. CASE i = L + 1
    BY ONLY <1>1, <2>0, <2>1
  <2>2. CASE i \in 1..L
    <3>1. next[i] \in D /\ i < next[i] /\ F[next[i]] \in Seq(Symbol)
      BY <1>4, <2>2
    <3>2. piece[i] \in Seq(Symbol)
      BY <2>2
    <3>3. F[i] = piece[i] \o F[next[i]]
      BY <1>2, <2>2
    <3> QED BY ONLY <3>1, <3>2, <3>3
  <2> QED BY <2>1, <2>2
<1> HIDE DEF T
<1>5. L + 2 \in T
  <2>1. L + 2 \in Nat
    OBVIOUS
  <2>2. Nat \subseteq T
    BY <1>3, <1>4, Induct
  <2> QED BY <2>1, <2>2
<1>6. \A i \in D : F[i] \in Seq(Symbol)
  BY <1>5 DEF T
<1>7. F \in [D -> Seq(Symbol)]
  BY <1>0, <1>6
<1> QED BY <1>1, <1>2, <1>7 DEF Joins

\* The source word is found at i; and what replacing yields from there on.
FoundAt(text, source, i) ==
  i + Len(source) - 1 <= Len(text) /\ SubSeq(text, i, i + Len(source) - 1) = source
Replaces(F, text, source, target) ==
  /\ F \in [1..(Len(text) + 1) -> Seq(Symbol)]
  /\ F[Len(text) + 1] = <<>>
  /\ \A i \in 1..Len(text) :
       F[i] = IF FoundAt(text, source, i) THEN target \o F[i + Len(source)]
              ELSE <<text[i]>> \o F[i + 1]

LEMMA ReplaceFrom ==
  ASSUME NEW text \in Seq(Symbol), NEW source \in Seq(Symbol), source # <<>>,
         NEW target \in Seq(Symbol)
  PROVE  \E F : /\ Replaces(F, text, source, target)
                /\ Replace(text, source, target) = F[1]
<1> DEFINE n == Len(source)
           L == Len(text)
           D == 1..(L + 1)
           Match(i) == i + n - 1 <= L /\ SubSeq(text, i, i + n - 1) = source
           Found(g, i) == IF Match(i) THEN target \o g[i + n] ELSE <<text[i]>> \o g[i + 1]
           next == [i \in 1..L |-> IF Match(i) THEN i + n ELSE i + 1]
           piece == [i \in 1..L |-> IF Match(i) THEN target ELSE <<text[i]>>]
           Body(g) == [i \in D |-> IF i > L THEN <<>> ELSE Found(g, i)]
           Chain(g) == ChainOf(g, L, next, piece)
           F == CHOOSE g : g = Body(g)
<1>1. Replace(text, source, target) = F[1]
  BY DEF Replace
<1>2. L \in Nat /\ n \in Nat \ {0}
  BY EmptySeq
<1>3. next \in [1..L -> 1..(L + 1)] /\ \A i \in 1..L : i < next[i]
  BY <1>2
<1>4. piece \in [1..L -> Seq(Symbol)]
  <2>1. \A i \in 1..L : <<text[i]>> \in Seq(Symbol)
    OBVIOUS
  <2> QED BY <2>1
<1>5. ASSUME NEW g, NEW i \in 1..L
      PROVE  Found(g, i) = piece[i] \o g[next[i]]
  <2>1. CASE Match(i)
    <3>1. piece[i] = target /\ next[i] = i + n
      BY <2>1
    <3> HIDE DEF piece, next, Match
    <3> QED BY <2>1, <3>1
  <2>2. CASE ~Match(i)
    <3>1. piece[i] = <<text[i]>> /\ next[i] = i + 1
      BY <2>2
    <3> HIDE DEF piece, next, Match
    <3> QED BY <2>2, <3>1
  <2> QED BY <2>1, <2>2
<1> HIDE DEF Found, piece, next
<1>6. ASSUME NEW g PROVE Body(g) = Chain(g)
  <2>1. ASSUME NEW i \in D
        PROVE  (IF i > L THEN <<>> ELSE Found(g, i))
                 = (IF i > L THEN <<>> ELSE piece[i] \o g[next[i]])
    <3>1. CASE i > L
      BY <3>1
    <3>2. CASE i \in 1..L
      <4>1. Found(g, i) = piece[i] \o g[next[i]]
        BY <1>5, <3>2
      <4> QED BY <4>1
    <3> QED BY <1>2, <3>1, <3>2
  <2> HIDE DEF L
  <2> QED BY ONLY <2>1, Zenon DEF ChainOf
<1> HIDE DEF L
<1>a. Chained(L, next, piece)
  BY ONLY <1>2, <1>3, <1>4 DEF Chained
<1>7. \E g : g = Chain(g)
  BY <1>a, ChainExists DEF IsChain
<1> HIDE DEF Body
<1>8. F = Body(F)
  <2>1. \E g : g = Body(g)
    BY <1>6, <1>7
  <2> QED BY <2>1
<1> HIDE DEF F
<1>9. IsChain(F, L, next, piece)
  BY <1>6, <1>8 DEF IsChain
<1>b. Joins(F, L, next, piece)
  BY <1>a, <1>9, ChainType
<1>10. /\ F \in [D -> Seq(Symbol)]
       /\ F[L + 1] = <<>>
       /\ \A i \in 1..L : F[i] = piece[i] \o F[next[i]]
  BY ONLY <1>b DEF Joins
<1>11. \A i \in 1..L : F[i] = Found(F, i)
  BY <1>5, <1>10
<1>12. Replaces(F, text, source, target)
  BY <1>10, <1>11 DEF Found, L, Replaces, FoundAt
<1> QED BY <1>1, <1>12

\* Replacing words gives a text.
LEMMA ReplaceSeq ==
  ASSUME NEW text \in Seq(Symbol), NEW source \in Seq(Symbol), source # <<>>,
         NEW target \in Seq(Symbol)
  PROVE  Replace(text, source, target) \in Seq(Symbol)
<1>1. PICK F : /\ Replaces(F, text, source, target)
               /\ Replace(text, source, target) = F[1]
  BY ReplaceFrom
<1>2. 1 \in 1..(Len(text) + 1)
  OBVIOUS
<1> QED BY <1>1, <1>2 DEF Replaces

\* Whether a word is found is a matter of its letters.
LEMMA FoundLetters ==
  ASSUME NEW text \in Seq(Symbol), NEW source \in Seq(Symbol), source # <<>>,
         NEW i \in 1..Len(text)
  PROVE  FoundAt(text, source, i)
         <=> (/\ i + Len(source) - 1 <= Len(text)
              /\ \A j \in 1..Len(source) : text[i + j - 1] = source[j])
<1>1. Len(source) \in Nat \ {0}
  BY EmptySeq
<1> SUFFICES ASSUME i + Len(source) - 1 <= Len(text)
             PROVE  SubSeq(text, i, i + Len(source) - 1) = source
                    <=> \A j \in 1..Len(source) : text[i + j - 1] = source[j]
  BY DEF FoundAt
<1> DEFINE word == SubSeq(text, i, i + Len(source) - 1)
<1>2. /\ word \in Seq(Symbol) /\ Len(word) = Len(source)
      /\ \A j \in 1..Len(source) : word[j] = text[i + j - 1]
  BY <1>1, SubSeqProperties
<1> HIDE DEF word
<1>3. word = source <=> \A j \in 1..Len(source) : word[j] = source[j]
  BY <1>2, SeqEqual
<1> QED BY <1>2, <1>3 DEF word

\* Padding that has no letter of the source word stays behind the text.
Foreign(pad, source) ==
  \A i \in 1..Len(pad) : \A j \in 1..Len(source) : pad[i] # source[j]

LEMMA PadFound ==
  ASSUME NEW text \in Seq(Symbol), NEW pad \in Seq(Symbol),
         NEW source \in Seq(Symbol), source # <<>>, Foreign(pad, source)
  PROVE  /\ \A i \in 1..Len(text) :
              FoundAt(text \o pad, source, i) <=> FoundAt(text, source, i)
         /\ \A i \in (Len(text) + 1)..(Len(text) + Len(pad)) :
              ~FoundAt(text \o pad, source, i)
<1> DEFINE n == Len(source)
           L == Len(text)
           P == Len(pad)
           long == text \o pad
<1>1. /\ n \in Nat \ {0} /\ L \in Nat /\ P \in Nat
  BY EmptySeq
<1>2. /\ long \in Seq(Symbol) /\ Len(long) = L + P
      /\ \A i \in 1..L : long[i] = text[i]
      /\ \A i \in (L + 1)..(L + P) : long[i] = pad[i - L]
  BY ConcatProperties
<1>3. \A i \in 1..P, j \in 1..n : pad[i] # source[j]
  BY DEF Foreign
<1>4. ASSUME NEW i \in 1..(L + P), FoundAt(long, source, i)
      PROVE  i + n - 1 <= L + P /\ \A j \in 1..n : long[i + j - 1] = source[j]
  <2>1. i \in 1..Len(long)
    BY <1>2
  <2>2. i + n - 1 <= Len(long) /\ \A j \in 1..n : long[i + j - 1] = source[j]
    BY <1>2, <1>4, <2>1, FoundLetters
  <2> QED BY <1>2, <2>2
<1>5. \A i \in 1..(L + P) :
        (i + n - 1 <= L + P /\ \A j \in 1..n : long[i + j - 1] = source[j])
          => FoundAt(long, source, i)
  BY <1>1, <1>2, FoundLetters
<1>6. \A i \in 1..L : FoundAt(text, source, i) <=>
        i + n - 1 <= L /\ \A j \in 1..n : text[i + j - 1] = source[j]
  BY <1>1, <1>2, FoundLetters
<1> HIDE DEF n, L, P, long
<1>7. ASSUME NEW i \in 1..L PROVE FoundAt(long, source, i) <=> FoundAt(text, source, i)
  <2>0. i \in 1..(L + P)
    BY <1>1
  <2>1. CASE i + n - 1 <= L
    <3>1. \A j \in 1..n : i + j - 1 \in 1..L
      BY <1>1, <2>1
    <3>2. \A j \in 1..n : long[i + j - 1] = text[i + j - 1]
      BY <1>2, <3>1
    <3>3. i + n - 1 <= L + P
      BY <1>1, <2>1
    <3> QED BY <1>4, <1>5, <1>6, <2>0, <2>1, <3>2, <3>3
  <2>2. CASE i + n - 1 > L
    <3>1. ~FoundAt(text, source, i)
      BY <1>1, <1>6, <2>2
    <3>2. ASSUME FoundAt(long, source, i) PROVE FALSE
      <4> DEFINE j == L + 2 - i
      <4>1. i + n - 1 <= L + P /\ \A k \in 1..n : long[i + k - 1] = source[k]
        BY <1>4, <2>0, <3>2
      <4>2. j \in 1..n /\ i + j - 1 = L + 1 /\ 1 \in 1..P
            /\ L + 1 \in (L + 1)..(L + P) /\ L + 1 - L = 1
        BY <1>1, <2>2, <4>1
      <4> HIDE DEF j
      <4>3. long[L + 1] = pad[L + 1 - L]
        BY <1>1, <1>2, <4>2
      <4>4. long[L + 1] = source[j]
        BY <4>1, <4>2
      <4> QED BY <1>3, <4>2, <4>3, <4>4
    <3> QED BY <3>1, <3>2
  <2> QED BY <1>1, <2>1, <2>2
<1>8. ASSUME NEW i \in (L + 1)..(L + P) PROVE ~FoundAt(long, source, i)
  <2>1. i \in 1..(L + P) /\ 1 \in 1..n /\ i - L \in 1..P /\ i + 1 - 1 = i
    BY <1>1
  <2>2. long[i] # source[1]
    BY <1>2, <1>3, <2>1
  <2> QED BY <1>4, <2>1, <2>2
<1> QED BY <1>7, <1>8 DEF long, L, P

LEMMA Associative ==
  ASSUME NEW a \in Seq(Symbol), NEW b \in Seq(Symbol), NEW c \in Seq(Symbol)
  PROVE  (a \o b) \o c = a \o (b \o c)
BY ConcatAssociative

\* Padding with none of the source's letters is left as it is.
PadStays(text, pad, source, target) ==
  Replace(text \o pad, source, target) = Replace(text, source, target) \o pad

LEMMA ReplacePad ==
  ASSUME NEW text \in Seq(Symbol), NEW pad \in Seq(Symbol),
         NEW source \in Seq(Symbol), source # <<>>, NEW target \in Seq(Symbol),
         Foreign(pad, source)
  PROVE  PadStays(text, pad, source, target)
<1> DEFINE n == Len(source)
           L == Len(text)
           P == Len(pad)
           long == text \o pad
<1>1. /\ n \in Nat \ {0} /\ L \in Nat /\ P \in Nat
  BY EmptySeq
<1>2. /\ long \in Seq(Symbol) /\ Len(long) = L + P
      /\ \A i \in 1..L : long[i] = text[i]
      /\ \A i \in (L + 1)..(L + P) : long[i] = pad[i - L]
  BY ConcatProperties
<1>3. PICK f : /\ Replaces(f, text, source, target)
               /\ Replace(text, source, target) = f[1]
  BY ReplaceFrom
<1>4. PICK F : /\ Replaces(F, long, source, target)
               /\ Replace(long, source, target) = F[1]
  BY <1>2, ReplaceFrom
<1>5. /\ \A i \in 1..L : FoundAt(long, source, i) <=> FoundAt(text, source, i)
      /\ \A i \in (L + 1)..(L + P) : ~FoundAt(long, source, i)
  BY PadFound
<1>6. /\ f \in [1..(L + 1) -> Seq(Symbol)] /\ f[L + 1] = <<>>
      /\ \A i \in 1..L : f[i] = IF FoundAt(text, source, i) THEN target \o f[i + n]
                                ELSE <<text[i]>> \o f[i + 1]
  BY <1>3 DEF Replaces
<1> HIDE DEF long
<1>7. /\ F[L + P + 1] = <<>>
      /\ \A i \in 1..(L + P) : F[i] = IF FoundAt(long, source, i) THEN target \o F[i + n]
                                      ELSE <<long[i]>> \o F[i + 1]
  BY <1>2, <1>4 DEF Replaces
<1>8. \A i \in 1..L : FoundAt(text, source, i) => i + n - 1 <= L
  BY DEF FoundAt
<1>9. \A i \in 1..L : <<text[i]>> \in Seq(Symbol)
  OBVIOUS
<1>10. \A x \in 1..P : SubSeq(pad, x, P) = <<pad[x]>> \o SubSeq(pad, x + 1, P)
  BY SubSeqRecursiveFirst
<1>11. SubSeq(pad, P + 1, P) = <<>> /\ SubSeq(pad, 1, P) = pad
  BY SubSeqEmpty, SubSeqFull
<1>a. \A a, b, c \in Seq(Symbol) : (a \o b) \o c = a \o (b \o c)
  BY Associative
<1> HIDE DEF n, L, P
\* Behind the text nothing is replaced ...
<1>12. F[L + 1] = pad
  <2> DEFINE T == {m \in Nat : m <= P => F[L + P + 1 - m] = SubSeq(pad, P + 1 - m, P)}
  <2>1. 0 \in T
    <3>1. L + P + 1 - 0 = L + P + 1 /\ P + 1 - 0 = P + 1
      BY <1>1
    <3>2. F[L + P + 1 - 0] = SubSeq(pad, P + 1 - 0, P)
      BY <1>7, <1>11, <3>1
    <3> QED BY <3>2
  <2>2. ASSUME NEW m \in Nat, m \in T PROVE m + 1 \in T
    <3> SUFFICES ASSUME m + 1 <= P
                 PROVE  F[L + P + 1 - (m + 1)] = SubSeq(pad, P + 1 - (m + 1), P)
      OBVIOUS
    <3> DEFINE x == P - m
               i == L + P - m
    <3>1. /\ x \in 1..P /\ i \in (L + 1)..(L + P) /\ i \in 1..(L + P) /\ i - L = x
          /\ i + 1 = L + P + 1 - m /\ i = L + P + 1 - (m + 1)
          /\ x + 1 = P + 1 - m /\ x = P + 1 - (m + 1)
      BY <1>1
    <3> HIDE DEF x, i
    <3>2. m <= P
      BY <1>1
    <3>3. F[i + 1] = SubSeq(pad, x + 1, P)
      BY <2>2, <3>1, <3>2
    <3>4. F[i] = <<long[i]>> \o F[i + 1] /\ long[i] = pad[x]
      BY <1>2, <1>5, <1>7, <3>1
    <3>5. F[i] = SubSeq(pad, x, P)
      BY <1>10, <3>1, <3>3, <3>4
    <3> QED BY <3>1, <3>5
  <2> HIDE DEF T
  <2>3. P \in T
    BY <1>1, <2>1, <2>2, Induct
  <2>4. F[L + P + 1 - P] = SubSeq(pad, P + 1 - P, P)
    BY <1>1, <2>3 DEF T
  <2>5. L + P + 1 - P = L + 1 /\ P + 1 - P = 1
    BY <1>1
  <2> QED BY <1>11, <2>4, <2>5
\* ... and in the text what is replaced without padding.
<1>13. F[1] = f[1] \o pad
  <2> DEFINE T == {m \in Nat : \A i \in 1..(L + 1) :
                     L + 1 - i < m => F[i] = f[i] \o pad}
  <2>1. 0 \in T
    BY <1>1
  <2>2. ASSUME NEW m \in Nat, m \in T PROVE m + 1 \in T
    <3> SUFFICES ASSUME NEW i \in 1..(L + 1), L + 1 - i < m + 1
                 PROVE  F[i] = f[i] \o pad
      OBVIOUS
    <3>1. CASE i = L + 1
      <4>1. f[i] = <<>> /\ F[i] = pad
        BY <1>6, <1>12, <3>1
      <4> QED BY <4>1, ConcatEmptySeq
    <3>2. CASE i \in 1..L /\ FoundAt(text, source, i)
      <4>1. i + n \in 1..(L + 1) /\ L + 1 - (i + n) < m /\ i \in 1..(L + P)
        BY <1>1, <1>8, <3>2
      <4>2. F[i] = target \o F[i + n] /\ f[i] = target \o f[i + n]
        BY <1>5, <1>6, <1>7, <3>2, <4>1
      <4>3. F[i + n] = f[i + n] \o pad /\ f[i + n] \in Seq(Symbol)
        BY <1>6, <2>2, <4>1
      <4>4. target \o (f[i + n] \o pad) = (target \o f[i + n]) \o pad
        BY ONLY <1>1, <1>a, <4>3
      <4> QED BY ONLY <4>2, <4>3, <4>4, Zenon
    <3>3. CASE i \in 1..L /\ ~FoundAt(text, source, i)
      <4>1. i + 1 \in 1..(L + 1) /\ L + 1 - (i + 1) < m /\ i \in 1..(L + P)
        BY <1>1, <3>3
      <4>2. F[i] = <<text[i]>> \o F[i + 1] /\ f[i] = <<text[i]>> \o f[i + 1]
        BY <1>2, <1>5, <1>6, <1>7, <3>3, <4>1
      <4>3. F[i + 1] = f[i + 1] \o pad /\ f[i + 1] \in Seq(Symbol)
        BY <1>6, <2>2, <4>1
      <4> DEFINE head == <<text[i]>>
      <4>4. head \in Seq(Symbol)
        BY <1>9, <3>3
      <4> HIDE DEF head
      <4>5. head \o (f[i + 1] \o pad) = (head \o f[i + 1]) \o pad
        BY ONLY <1>a, <4>3, <4>4
      <4>6. F[i] = head \o F[i + 1] /\ f[i] = head \o f[i + 1]
        BY ONLY <4>2, Zenon DEF head
      <4> QED BY ONLY <4>3, <4>5, <4>6, Zenon
    <3> QED BY <1>1, <3>1, <3>2, <3>3
  <2> HIDE DEF T
  <2>3. L + 1 \in T
    <3>1. L + 1 \in Nat
      BY <1>1
    <3>2. Nat \subseteq T
      BY <2>1, <2>2, Induct
    <3> QED BY <3>1, <3>2
  <2>4. 1 \in 1..(L + 1) /\ L + 1 - 1 < L + 1
    BY <1>1
  <2> QED BY <2>3, <2>4 DEF T
<1> QED BY <1>3, <1>4, <1>13 DEF PadStays, long

\* The settings and datagrams considered.
Edit == [source : Seq(Symbol) \ {<<>>}, target : Seq(Symbol), cut : BOOLEAN]
Datagram ==
  {d \in [data : Seq(Symbol), ulen : Nat, total : Nat, fresh : BOOLEAN] :
     /\ d.ulen \in UdpHeader..(UdpHeader + Len(d.data))
     /\ d.total = IpHeader + d.ulen}
Padded(e, d) ==
    ~e.cut => \A i \in (d.ulen - UdpHeader + 1)..Len(d.data) :
                \A j \in 1..Len(e.source) : d.data[i] # e.source[j]

LEMMA MinOfTwo ==
  ASSUME NEW a \in Int, NEW b \in Int, b <= a
  PROVE  Min({a, b}) = b
<1>1. \E x \in {a, b} : \A y \in {a, b} : x <= y
  OBVIOUS
<1> QED BY <1>1 DEF Min

\* What is made of the payload: the text changed and the padding, if the
\* payload has it, unchanged.
LEMMA ChangedText ==
  ASSUME NEW e \in Edit, NEW d \in Datagram, Padded(e, d)
  PROVE  \E pad \in Seq(Symbol) :
           /\ Changed(d, e.source, e.target, e.cut)
                = Replace(Text(d), e.source, e.target) \o pad
           /\ PayloadLen(d, e.cut) = d.ulen - UdpHeader + Len(pad)
           /\ IF e.cut THEN pad = <<>>
              ELSE d.ulen - UdpHeader + Len(pad) = Len(d.data)
<1> DEFINE k == d.ulen - UdpHeader
           L == Len(d.data)
           text == Text(d)
           rest == SubSeq(d.data, k + 1, L)
<1>1. /\ d.data \in Seq(Symbol) /\ L \in Nat /\ k \in 0..L
      /\ d.total - IpHeader - UdpHeader = k
      /\ e.source \in Seq(Symbol) /\ e.source # <<>> /\ e.target \in Seq(Symbol)
  BY DEF Datagram, Edit, UdpHeader, IpHeader
<1>2. text \in Seq(Symbol)
  BY <1>1 DEF Text
<1>3. CASE e.cut
  <2>1. PayloadLen(d, e.cut) = k
    BY <1>1, <1>3, MinOfTwo DEF PayloadLen
  <2>2. Changed(d, e.source, e.target, e.cut) = Replace(text, e.source, e.target)
    BY <2>1 DEF Changed, Payload, Text
  <2>3. Replace(text, e.source, e.target) \in Seq(Symbol)
    BY <1>1, <1>2, ReplaceSeq
  <2>4. Replace(text, e.source, e.target) \o <<>> = Replace(text, e.source, e.target)
    BY <2>3, ConcatEmptySeq
  <2>5. <<>> \in Seq(Symbol) /\ Len(<<>>) = 0 /\ k + 0 = k
    BY <1>1
  <2> HIDE DEF k, L, text
  <2> QED BY <1>3, <2>1, <2>2, <2>4, <2>5 DEF text, k
<1>4. CASE ~e.cut
  <2>1. PayloadLen(d, e.cut) = L
    BY <1>4 DEF PayloadLen
  <2>2. SubSeq(d.data, 1, L) = d.data
    BY <1>1, SubSeqFull
  <2>3. /\ rest \in Seq(Symbol) /\ Len(rest) = L - k
        /\ \A i \in 1..(L - k) : rest[i] = d.data[k + i]
    <3>1. \A i \in (k + 1)..L : d.data[i] \in Symbol
      BY <1>1
    <3> HIDE DEF k, L
    <3>2. /\ rest \in Seq(Symbol)
          /\ Len(rest) = IF k + 1 <= L THEN L - (k + 1) + 1 ELSE 0
          /\ \A i \in 1..(L - (k + 1) + 1) : rest[i] = d.data[k + 1 + i - 1]
      BY <1>1, <3>1, SubSeqProperties
    <3>3. ASSUME NEW i \in 1..(L - k) PROVE rest[i] = d.data[k + i]
      <4>1. i \in 1..(L - (k + 1) + 1) /\ k + 1 + i - 1 = k + i
        BY <1>1
      <4>2. rest[i] = d.data[k + 1 + i - 1]
        BY <3>2, <4>1
      <4> QED BY ONLY <4>1, <4>2
    <3>4. Len(rest) = L - k
      BY <1>1, <3>2
    <3> QED BY ONLY <3>2, <3>3, <3>4
  <2>4. text \o rest = d.data
    <3>1. /\ d.data \in Seq(Symbol) /\ 1 \in 1..(Len(d.data) + 1)
          /\ k \in 1 - 1..Len(d.data) /\ L \in k..Len(d.data)
      BY <1>1
    <3> HIDE DEF k
    <3>2. SubSeq(d.data, 1, k) \o SubSeq(d.data, k + 1, L) = SubSeq(d.data, 1, L)
      BY <3>1, ConcatAdjacentSubSeq
    <3> QED BY <2>2, <3>2 DEF Text, k
  <2>5. Foreign(rest, e.source)
    <3> SUFFICES ASSUME NEW i \in 1..(L - k), NEW j \in 1..Len(e.source)
                 PROVE  rest[i] # e.source[j]
      BY <2>3 DEF Foreign
    <3>1. k + i \in (k + 1)..L
      BY <1>1
    <3> QED BY <1>4, <2>3, <3>1 DEF Padded
  <2> HIDE DEF text, rest, k, L
  <2>6. Changed(d, e.source, e.target, e.cut)
          = Replace(text, e.source, e.target) \o rest
    <3>1. Changed(d, e.source, e.target, e.cut) = Replace(d.data, e.source, e.target)
      BY <2>1, <2>2 DEF Changed, Payload
    <3>2. Replace(text \o rest, e.source, e.target)
            = Replace(text, e.source, e.target) \o rest
      <4>1. PadStays(text, rest, e.source, e.target)
        BY ONLY <1>1, <1>2, <2>3, <2>5, ReplacePad
      <4> QED BY ONLY <4>1 DEF PadStays
    <3> QED BY <2>4, <3>1, <3>2
  <2>7. k + Len(rest) = L
    BY <1>1, <2>3
  <2> QED BY <1>4, <2>1, <2>3, <2>6, <2>7 DEF text, k, L
<1> QED BY <1>3, <1>4

Arrived(e, d, r) ==
  \/ /\ r.kind = "panicked"
     /\ Headers + Len(d.data)
          + (Len(Replace(Text(d), e.source, e.target)) - Len(Text(d))) > BufferSize
  \/ /\ r.kind = "sent"
     /\ Text(r.frame) = Replace(Text(d), e.source, e.target)
     /\ r.frame.total = IpHeader + r.frame.ulen
     /\ Len(r.frame.data) >= r.frame.ulen - UdpHeader
     /\ e.cut => r.frame.fresh

LEMMA InWidth ==
  ASSUME NEW n \in Nat, n < 65536
  PROVE  U16(n) = n
BY DEF U16

\* Resizing keeps a text and gives it its length.
LEMMA ResizedLen ==
  ASSUME NEW data \in Seq(Symbol), NEW diff \in Int, Len(data) + diff \in Nat
  PROVE  /\ Resized(data, diff) \in Seq(Symbol)
         /\ Len(Resized(data, diff)) = Len(data) + diff
<1>1. CASE diff < 0
  <2> DEFINE n == Len(data) + diff
  <2>1. n \in Nat /\ n <= Len(data) /\ Resized(data, diff) = SubSeq(data, 1, n)
    BY <1>1 DEF Resized
  <2> HIDE DEF n
  <2>2. \A i \in 1..n : data[i] \in Symbol
    BY <2>1
  <2>3. /\ SubSeq(data, 1, n) \in Seq(Symbol)
        /\ Len(SubSeq(data, 1, n)) = IF 1 <= n THEN n - 1 + 1 ELSE 0
    BY <2>1, <2>2, SubSeqProperties
  <2>4. Len(SubSeq(data, 1, n)) = n
    BY <2>1, <2>3
  <2> QED BY <2>1, <2>3, <2>4 DEF n
<1>2. CASE diff \in Nat
  <2> DEFINE stale == [i \in 1..diff |-> Stale]
  <2>1. stale \in Seq(Symbol) /\ Len(stale) = diff
    BY <1>2, WordAssumption
  <2> HIDE DEF stale
  <2>2. Resized(data, diff) = data \o stale
    BY <1>2 DEF Resized, stale
  <2>3. /\ data \o stale \in Seq(Symbol)
        /\ Len(data \o stale) = Len(data) + Len(stale)
    BY <2>1, ConcatProperties
  <2> QED BY <2>1, <2>2, <2>3
<1> QED BY <1>1, <1>2

LEMMA ChangeGood ==
  ASSUME NEW e \in Edit, NEW d \in Datagram, Padded(e, d)
  PROVE  Arrived(e, d, ChangeWord(d, e.source, e.target, e.cut))
<1> DEFINE k == d.ulen - UdpHeader
           L == Len(d.data)
           new == Changed(d, e.source, e.target, e.cut)
           right == Replace(Text(d), e.source, e.target)
           R == Len(right)
           diff == Diff(d, e.source, e.target, e.cut)
           r == [WithLengths(d, diff) EXCEPT !.data = Resized(d.data, diff)]
           room == PayloadLen(r, e.cut)
           out == ChangeWord(d, e.source, e.target, e.cut)
<1>1. /\ d.data \in Seq(Symbol) /\ L \in Nat /\ k \in 0..L
      /\ d.total = IpHeader + UdpHeader + k /\ d.ulen = UdpHeader + k
      /\ d.total \in Nat /\ d.ulen \in Nat
      /\ e.source \in Seq(Symbol) /\ e.source # <<>> /\ e.target \in Seq(Symbol)
  BY DEF Datagram, Edit, UdpHeader, IpHeader
<1>2. Text(d) \in Seq(Symbol) /\ Len(Text(d)) = k
  BY <1>1 DEF Text
<1>3. right \in Seq(Symbol) /\ R \in Nat
  BY <1>1, <1>2, ReplaceSeq
<1>4. PICK pad \in Seq(Symbol) :
        /\ new = right \o pad
        /\ PayloadLen(d, e.cut) = k + Len(pad)
        /\ IF e.cut THEN pad = <<>> ELSE k + Len(pad) = L
  BY ChangedText
<1> DEFINE P == Len(pad)
<1>5. /\ P \in Nat /\ k + P <= L /\ new \in Seq(Symbol) /\ Len(new) = R + P
      /\ diff = R - k
      /\ IF e.cut THEN P = 0 ELSE k + P = L
  <2> HIDE DEF right
  <2> QED BY <1>1, <1>3, <1>4 DEF Diff
<1>0. Headers = 42 /\ IpHeader = 20 /\ UdpHeader = 8 /\ BufferSize \in Nat /\ BufferSize < 65536
  BY WordAssumption DEF Headers, EthHeader, IpHeader, UdpHeader
<1>a. Fits(d, diff) <=> Headers + L + diff <= BufferSize
  BY DEF Fits
<1> HIDE DEF new, right, R, diff, P, L, k
<1>6. CASE ~Fits(d, diff)
  <2>1. out.kind = "panicked"
    BY <1>6 DEF ChangeWord, diff
  <2>2. Headers + L + (R - k) > BufferSize
    <3>1. ~(Headers + L + diff <= BufferSize) /\ diff = R - k
      BY <1>a, <1>5, <1>6
    <3>2. L \in Nat /\ R \in Nat /\ k \in Nat
      BY <1>1, <1>3
    <3> QED BY ONLY <1>0, <3>1, <3>2
  <2> QED BY <1>2, <2>1, <2>2 DEF Arrived, R, right, L
<1>7. CASE Fits(d, diff)
  <2>1. L + R - k < 65536 - 42 /\ L + R - k \in Nat
    <3>1. Headers + L + diff <= BufferSize /\ diff = R - k
      BY <1>a, <1>5, <1>7
    <3>2. L \in Nat /\ R \in Nat /\ k \in Nat /\ k <= L
      BY <1>1, <1>3
    <3> QED BY ONLY <1>0, <3>1, <3>2
  <2>2. U16(d.total + diff) = IpHeader + UdpHeader + R /\ U16(d.ulen + diff) = UdpHeader + R
    <3>1. /\ d.total + diff = 28 + R /\ 28 + R \in Nat /\ 28 + R < 65536
          /\ d.ulen + diff = 8 + R /\ 8 + R \in Nat /\ 8 + R < 65536
      BY <1>0, <1>1, <1>3, <1>5, <2>1
    <3>2. U16(28 + R) = 28 + R /\ U16(8 + R) = 8 + R
      BY <3>1, InWidth
    <3> QED BY <1>0, <1>3, <3>1, <3>2
  <2>3. /\ Resized(d.data, diff) \in Seq(Symbol)
        /\ Len(Resized(d.data, diff)) = L + R - k
    <3>1. L = Len(d.data) /\ diff \in Int /\ L + diff \in Nat /\ L + diff = L + R - k
      BY <1>1, <1>3, <1>5, <2>1 DEF L
    <3> QED BY <1>1, <3>1, ResizedLen
  <2>4. /\ r.data = Resized(d.data, diff)
        /\ r.total = IpHeader + UdpHeader + R /\ r.ulen = UdpHeader + R
    BY <2>2 DEF WithLengths, Datagram
  <2> HIDE DEF r
  <2>5. room = R + P
    <3>1. CASE e.cut
      <4>1. Len(r.data) = L + R - k /\ r.total - IpHeader - UdpHeader = R
        BY <1>0, <1>3, <2>3, <2>4
      <4>2. room = Min({L + R - k, R})
        BY <3>1, <4>1 DEF PayloadLen
      <4>3. R <= L + R - k /\ P = 0
        BY <1>1, <1>3, <1>5, <3>1
      <4> HIDE DEF room
      <4>4. Min({L + R - k, R}) = R
        BY <1>3, <2>1, <4>3, MinOfTwo
      <4> QED BY <1>3, <4>2, <4>3, <4>4
    <3>2. CASE ~e.cut
      BY <1>1, <1>3, <1>5, <2>3, <2>4, <3>2 DEF PayloadLen
    <3> QED BY <3>1, <3>2
  <2> HIDE DEF room
  <2>6. Copies(room, new, diff)
    BY <1>3, <1>5, <2>5 DEF Copies
  <2> DEFINE behind == SubSeq(r.data, room + 1, Len(r.data))
             data == SubSeq(new, 1, room) \o behind
  <2>7. behind \in Seq(Symbol)
    BY <1>3, <1>5, <2>3, <2>4, <2>5
  <2>8. SubSeq(new, 1, room) = new
    BY <1>5, <2>5, SubSeqFull
  <2> HIDE DEF behind
  <2>9. /\ data \in Seq(Symbol) /\ Len(data) >= R
        /\ SubSeq(data, 1, R) = right
    <3>1. data = (right \o pad) \o behind
      BY <1>4, <2>8
    <3>2. data = right \o (pad \o behind)
      BY <1>3, <2>7, <3>1, Associative
    <3>3. pad \o behind \in Seq(Symbol)
      BY <2>7
    <3> DEFINE tail == pad \o behind
    <3> HIDE DEF tail
    <3>4. /\ tail \in Seq(Symbol) /\ data = right \o tail
      BY <3>2, <3>3 DEF tail
    <3> HIDE DEF data
    <3>5. data \in Seq(Symbol) /\ Len(data) = R + Len(tail) /\ Len(tail) \in Nat
      BY <1>3, <3>4 DEF R
    <3>6. SubSeq(right \o tail, 1, Len(right)) = right
      BY <1>3, <3>4, SubSeqOfConcat1, SubSeqFull
    <3> QED BY <1>3, <3>4, <3>5, <3>6 DEF R
  <2> HIDE DEF data
  <2>10. /\ out.kind = "sent"
         /\ out.frame = [r EXCEPT !.data = data, !.fresh = (room = r.ulen - UdpHeader)]
    BY <1>7, <2>6 DEF ChangeWord, data, behind, room, r, new, diff
  <2> HIDE DEF out
  <2>11. /\ out.frame.data = data /\ (e.cut => out.frame.fresh)
         /\ out.frame.total = IpHeader + UdpHeader + R
         /\ out.frame.ulen = UdpHeader + R
    <3>1. r \in [data : Seq(Symbol), ulen : Int, total : Int, fresh : BOOLEAN]
      <4>1. IpHeader + UdpHeader + R \in Int /\ UdpHeader + R \in Int
        BY <1>0, <1>3
      <4>2. d \in [data : Seq(Symbol), ulen : Nat, total : Nat, fresh : BOOLEAN]
        BY DEF Datagram
      <4> QED BY <2>2, <2>3, <4>1, <4>2 DEF r, WithLengths
    <3>2. e.cut => room = r.ulen - UdpHeader
      BY <1>0, <1>3, <1>5, <2>4, <2>5
    <3> QED BY <2>4, <2>10, <3>1, <3>2
  <2>12. Text(out.frame) = right
    <3>1. out.frame.ulen - UdpHeader = R /\ out.frame.data = data
      BY <1>0, <1>3, <2>11
    <3>2. Text(out.frame) = SubSeq(data, 1, R)
      BY ONLY <3>1, Zenon DEF Text
    <3> QED BY <2>9, <3>2
  <2>13. out.frame.total = IpHeader + out.frame.ulen
    BY <1>3, <2>11 DEF IpHeader, UdpHeader
  <2>14. Len(out.frame.data) >= out.frame.ulen - UdpHeader
    BY <1>3, <2>9, <2>11 DEF UdpHeader
  <2>15. Arrived(e, d, out)
    BY <2>10, <2>11, <2>12, <2>13, <2>14 DEF Arrived, right
  <2> QED BY <2>15 DEF out
<1> QED BY <1>6, <1>7

-----------------------------------------------------------------------------
(* tunnel                                                                  *)

\* The bytes before each option, and all of them.
OptionBytes(P, seqs) ==
  /\ P \in [0..Len(seqs) -> Seq(Byte)]
  /\ P[0] = <<>> /\ P[Len(seqs)] = FlattenSeq(seqs)
  /\ \A i \in 1..Len(seqs) : P[i] = P[i - 1] \o seqs[i]

LEMMA Positive ==
  ASSUME NEW n \in Nat, n # 0
  PROVE  n > 0
OBVIOUS

LEMMA FlattenExists ==
  ASSUME NEW seqs \in Seq(Seq(Byte)), NEW N \in Nat, N = Len(seqs), N > 0
  PROVE  \E g : g = [i \in 1..N |-> IF i = 1 THEN seqs[i] ELSE g[i - 1] \o seqs[i]]
<1> DEFINE D == 1..N
           V == Seq(Byte)
           M == N + 1
           rank == [i \in D |-> i]
           Ends == {1}
           base == [i \in D |-> seqs[1]]
           next == [i \in D |-> IF i = 1 THEN 1 ELSE i - 1]
           step == [i \in D |-> [v \in V |-> v \o seqs[i]]]
<1>1. \A i \in D : seqs[i] \in V
  OBVIOUS
<1>2. M \in Nat /\ rank \in [D -> Nat] /\ \A i \in D : rank[i] < M
  OBVIOUS
<1>3. base \in [D -> V]
  BY <1>1
<1>4. next \in [D -> D] /\ \A i \in D \ Ends : rank[next[i]] < rank[i]
  OBVIOUS
<1>5. step \in [D -> [V -> V]]
  <2>1. \A i \in D, v \in V : v \o seqs[i] \in V
    BY <1>1
  <2> QED BY <2>1
<1>6. 1 \in D /\ \A i \in D \ {1} : ~(i = 1) /\ next[i] = i - 1
  OBVIOUS
<1>7. \A i \in D, v \in V : step[i][v] = v \o seqs[i] /\ base[i] = seqs[1]
  OBVIOUS
<1> HIDE DEF D, V, M, rank, base, next, step
<1>8. Recursive(D, V, rank, M, Ends, base, next, step)
  BY <1>2, <1>3, <1>4, <1>5 DEF Recursive
<1>9. PICK g : Defines(g, D, V, Ends, base, next, step)
  BY <1>8, Recursion
<1>10. ASSUME NEW i \in D
       PROVE  g[i] = IF i = 1 THEN seqs[i] ELSE g[i - 1] \o seqs[i]
  <2>1. CASE i = 1
    <3>1. g[i] = base[i]
      BY <1>9, <2>1 DEF Defines
    <3>2. \E v : v \in V
      BY <1>1
    <3> QED BY <1>7, <2>1, <3>1, <3>2
  <2>2. CASE i # 1
    <3>1. g[i] = step[i][g[next[i]]] /\ g[next[i]] \in V /\ next[i] = i - 1
      BY <1>4, <1>6, <1>9, <2>2 DEF Defines
    <3>2. step[i][g[next[i]]] = g[next[i]] \o seqs[i]
      BY <1>7, <3>1
    <3> QED BY <2>2, <3>1, <3>2
  <2> QED BY <2>1, <2>2
<1>11. g = [i \in D |-> IF i = 1 THEN seqs[i] ELSE g[i - 1] \o seqs[i]]
  BY <1>9, <1>10 DEF Defines
<1> QED BY <1>11 DEF D

LEMMA FlattenFrom ==
  ASSUME NEW seqs \in Seq(Seq(Byte))
  PROVE  \E P : OptionBytes(P, seqs)
<1> DEFINE N == Len(seqs)
<1>0. N \in Nat
  OBVIOUS
<1>1. CASE N = 0
  <2> DEFINE P == [i \in 0..0 |-> <<>>]
  <2>1. FlattenSeq(seqs) = <<>>
    BY <1>1, EmptySeq DEF FlattenSeq
  <2>2. P[0] = <<>> /\ P \in [0..0 -> Seq(Byte)]
    OBVIOUS
  <2> HIDE DEF P
  <2>3. OptionBytes(P, seqs)
    BY <1>1, <2>1, <2>2 DEF OptionBytes
  <2> QED BY <2>3
<1>2. CASE N # 0
  <2> DEFINE Body(g) == [i \in 1..N |-> IF i = 1 THEN seqs[i] ELSE g[i - 1] \o seqs[i]]
             F == CHOOSE g : g = Body(g)
             P == [i \in 0..N |-> IF i = 0 THEN <<>> ELSE F[i]]
  <2>1. FlattenSeq(seqs) = F[N]
    BY <1>2 DEF FlattenSeq
  <2> HIDE DEF N
  <2>2. N \in Nat /\ N > 0
    BY ONLY <1>0, <1>2, Positive, Zenon
  <2>3. F = Body(F)
    <3>1. \E g : g = Body(g)
      BY <2>2, FlattenExists, Zenon DEF N
    <3> QED BY ONLY <3>1, Zenon
  <2>4. \A i \in 1..N : seqs[i] \in Seq(Byte)
    BY DEF N
  <2> HIDE DEF F
  <2>5. F[1] = seqs[1]
    <3>1. 1 \in 1..N
      BY <2>2
    <3> QED BY ONLY <2>3, <3>1, Zenon
  <2>6. ASSUME NEW i \in 2..N PROVE F[i] = F[i - 1] \o seqs[i]
    <3>1. i \in 1..N /\ ~(i = 1)
      BY ONLY <2>2
    <3>2. F[i] = IF i = 1 THEN seqs[i] ELSE F[i - 1] \o seqs[i]
      BY ONLY <2>3, <3>1, Zenon
    <3> QED BY <3>1, <3>2
  <2> HIDE DEF Body
  <2>7. \A i \in 1..N : F[i] \in Seq(Byte)
    <3> DEFINE T == {m \in Nat : m \in 1..N => F[m] \in Seq(Byte)}
    <3>1. 0 \in T
      OBVIOUS
    <3>2. ASSUME NEW m \in 1..N, m - 1 \in T PROVE m \in T
      <4>1. CASE m = 1
        BY <2>4, <2>5, <4>1
      <4>2. CASE m # 1
        <5>1. m \in 2..N /\ m - 1 \in 1..N
          BY <2>2, <4>2
        <5>2. F[m] = F[m - 1] \o seqs[m] /\ F[m - 1] \in Seq(Byte)
          BY <2>6, <3>2, <5>1
        <5>3. seqs[m] \in Seq(Byte)
          BY <2>4
        <5>4. F[m] \in Seq(Byte)
          BY ONLY <5>2, <5>3
        <5> QED BY <5>4
      <4> QED BY <4>1, <4>2
    <3> HIDE DEF T
    <3>3. 0..N \subseteq T
      BY <2>2, <3>1, <3>2, InductTo
    <3> QED BY <2>2, <3>3 DEF T
  <2>8. P[0] = <<>> /\ \A i \in 1..N : P[i] = F[i]
    BY <2>2
  <2>9. P \in [0..N -> Seq(Byte)]
    <3>1. <<>> \in Seq(Byte)
      OBVIOUS
    <3> QED BY <2>2, <2>7, <3>1
  <2> HIDE DEF P
  <2>10. ASSUME NEW i \in 1..N PROVE P[i] = P[i - 1] \o seqs[i]
    <3>1. CASE i = 1
      <4>1. i - 1 = 0 /\ F[i] = seqs[i] /\ <<>> \o seqs[i] = seqs[i]
        BY <2>4, <2>5, <3>1, ConcatEmptySeq
      <4> QED BY <2>8, <4>1
    <3>2. CASE i # 1
      <4>1. i \in 2..N /\ i - 1 \in 1..N
        BY <2>2, <3>2
      <4> QED BY <2>6, <2>8, <4>1
    <3> QED BY <3>1, <3>2
  <2>11. P[N] = FlattenSeq(seqs)
    BY <2>1, <2>2, <2>8
  <2>12. OptionBytes(P, seqs)
    BY <2>8, <2>9, <2>10, <2>11 DEF OptionBytes, N
  <2> QED BY <2>12
<1> QED BY <1>1, <1>2

\* The index of set_mms at an option counts the bytes before it.
LEMMA IndexAt ==
  ASSUME NEW options \in Seq(Option), NEW P, OptionBytes(P, options),
         NEW k \in 1..Len(options)
  PROVE  IndexOf(options, k) = Len(P[k - 1])
<1> DEFINE N == Len(options)
           Body(g) == [j \in 1..N |-> IF j = 1 THEN 0
                                      ELSE g[j - 1] + Advance(options[j - 1])]
           G == CHOOSE g : g = Body(g)
           H == [j \in 1..N |-> Len(P[j - 1])]
<1>1. IndexOf(options, k) = G[k]
  BY DEF IndexOf
<1>2. \A j \in 1..N : options[j] \in Option
  OBVIOUS
<1>3. \A j \in 1..N : Advance(options[j]) = Len(options[j]) /\ options[j] \in Seq(Byte)
  BY <1>2 DEF Advance, Option
<1>4. N \in Nat /\ k \in 1..N /\ P[0] = <<>>
  BY DEF OptionBytes
<1>5. ASSUME NEW j \in 1..N
      PROVE  P[j - 1] \in Seq(Byte) /\ Len(P[j]) = Len(P[j - 1]) + Len(options[j])
  <2>1. j - 1 \in 0..N
    BY <1>4
  <2>2. P[j - 1] \in Seq(Byte) /\ P[j] = P[j - 1] \o options[j]
    BY <2>1 DEF OptionBytes
  <2>3. options[j] \in Seq(Byte)
    BY <1>3
  <2> QED BY ONLY <2>2, <2>3
<1> HIDE DEF N
<1>6. ASSUME NEW j \in 1..N
      PROVE  H[j] = IF j = 1 THEN 0 ELSE H[j - 1] + Advance(options[j - 1])
  <2>1. CASE j = 1
    <3>1. H[j] = Len(P[0]) /\ Len(P[0]) = 0
      BY <1>4, <2>1
    <3> QED BY <2>1, <3>1
  <2>2. CASE j # 1
    <3>1. j - 1 \in 1..N
      BY <1>4, <2>2
    <3>2. H[j] = Len(P[j - 1]) /\ H[j - 1] = Len(P[j - 1 - 1])
      BY <3>1
    <3>3. Len(P[j - 1]) = Len(P[j - 1 - 1]) + Len(options[j - 1])
      BY <1>5, <3>1
    <3> QED BY <1>3, <2>2, <3>1, <3>2, <3>3
  <2> QED BY <2>1, <2>2
<1>7. \A j \in 1..N : H[j] = Len(P[j - 1])
  OBVIOUS
<1>8. H = Body(H)
  <2>1. H = [j \in 1..N |-> H[j]]
    OBVIOUS
  <2> HIDE DEF H
  <2> QED BY <1>6, <2>1
<1>9. G = Body(G)
  BY <1>8
<1> HIDE DEF G, H
<1>10. ASSUME NEW j \in 1..N
       PROVE  G[j] = IF j = 1 THEN 0 ELSE G[j - 1] + Advance(options[j - 1])
  BY ONLY <1>9, Zenon
<1> HIDE DEF Body
<1> DEFINE T == {m \in Nat : m \in 1..N => G[m] = H[m]}
<1>11. 0 \in T
  OBVIOUS
<1>12. ASSUME NEW m \in 1..N, m - 1 \in T PROVE m \in T
  <2>1. CASE m = 1
    BY <1>6, <1>10, <2>1
  <2>2. CASE m # 1
    <3>1. m - 1 \in 1..N
      BY <1>4, <2>2
    <3>2. G[m - 1] = H[m - 1]
      BY <1>12, <3>1
    <3>3. G[m] = H[m]
      BY <1>6, <1>10, <2>2, <3>2
    <3> QED BY <3>3
  <2> QED BY <2>1, <2>2
<1> HIDE DEF T
<1>13. 0..N \subseteq T
  BY <1>4, <1>11, <1>12, InductTo
<1> QED BY <1>1, <1>4, <1>7, <1>13 DEF T

\* Two sequences joined, position by position.
Join(r, v, w) ==
  /\ r \in Seq(Byte) /\ Len(r) = Len(v) + Len(w)
  /\ \A i \in 1..Len(v) : r[i] = v[i]
  /\ \A i \in (Len(v) + 1)..(Len(v) + Len(w)) : r[i] = w[i - Len(v)]

LEMMA Joined ==
  ASSUME NEW v \in Seq(Byte), NEW w \in Seq(Byte)
  PROVE  Join(v \o w, v, w)
BY ConcatProperties DEF Join

\* What is written, and what is not.
LEMMA WriteAtBytes ==
  ASSUME NEW w \in Seq(Byte), NEW i \in Nat, i + 2 <= Len(w)
  PROVE  LET u == WriteAt(w, i)
         IN  /\ u \in Seq(Byte) /\ Len(u) = Len(w)
             /\ \A j \in 1..Len(w) :
                  u[j] = IF j = i + 2 THEN Mms[2]
                         ELSE IF j = i + 1 THEN Mms[1] ELSE w[j]
<1>1. Mms[1] \in Byte /\ Mms[2] \in Byte
  BY MmsAssumption
<1> QED BY <1>1 DEF WriteAt

\* Written behind a prefix, over the last bytes of an MSS option.
Own == <<Mss, 4, Mms[1], Mms[2]>>

LEMMA OwnBytes == Own \in Seq(Byte)
<1>1. Mms[1] \in Byte /\ Mms[2] \in Byte
  BY MmsAssumption
<1>2. Mss \in Byte /\ 4 \in Byte
  BY DEF Mss, Byte
<1> QED BY <1>1, <1>2 DEF Own

LEMMA WriteHere ==
  ASSUME NEW v \in Seq(Byte), NEW o \in Seq(Byte),
         Len(o) = 4, o[1] = Mss, o[2] = 4
  PROVE  WriteAt(v \o o, Len(v) + 2) = v \o Own
<1> DEFINE n == Len(v)
           w == v \o o
           l == WriteAt(w, n + 2)
           r == v \o Own
<1>0. n \in Nat /\ n = Len(v)
  OBVIOUS
<1>2. /\ Own \in Seq(Byte) /\ Len(Own) = 4
      /\ Own[1] = Mss /\ Own[2] = 4 /\ Own[3] = Mms[1] /\ Own[4] = Mms[2]
  BY OwnBytes DEF Own
<1>a. Join(w, v, o) /\ Join(r, v, Own)
  BY <1>2, Joined
<1> HIDE DEF n, w, r
<1>1. /\ n \in Nat /\ w \in Seq(Byte) /\ Len(w) = n + 4
      /\ \A i \in 1..n : w[i] = v[i]
      /\ \A i \in (n + 1)..(n + 4) : w[i] = o[i - n]
  BY <1>0, <1>a DEF Join
<1>3. /\ r \in Seq(Byte) /\ Len(r) = n + 4
      /\ \A i \in 1..n : r[i] = v[i]
      /\ \A i \in (n + 1)..(n + 4) : r[i] = Own[i - n]
  BY <1>0, <1>2, <1>a DEF Join
<1>4. /\ l \in Seq(Byte) /\ Len(l) = n + 4
      /\ \A j \in 1..(n + 4) :
           l[j] = IF j = n + 2 + 2 THEN Mms[2]
                  ELSE IF j = n + 2 + 1 THEN Mms[1] ELSE w[j]
  <2>1. n + 2 \in Nat /\ n + 2 + 2 <= Len(w)
    BY <1>1
  <2> QED BY <1>1, <2>1, WriteAtBytes
<1> HIDE DEF l
<1>5. ASSUME NEW j \in 1..(n + 4) PROVE l[j] = r[j]
  <2>1. CASE j \in 1..n
    BY <1>1, <1>3, <1>4, <2>1
  <2> DEFINE x == j - n
  <2>2. CASE j \in (n + 1)..(n + 4)
    <3>1. x \in 1..4 /\ j = n + x /\ x = j - n
      BY <1>1, <2>2
    <3> HIDE DEF x
    <3>2. l[j] = IF x = 4 THEN Mms[2] ELSE IF x = 3 THEN Mms[1] ELSE w[j]
      BY <1>1, <1>4, <3>1
    <3>3. w[j] = o[x] /\ r[j] = Own[x]
      BY <1>1, <1>3, <2>2, <3>1
    <3>4. x = 1 \/ x = 2 \/ x = 3 \/ x = 4
      BY <3>1
    <3> QED BY <1>2, <3>2, <3>3, <3>4
  <2> QED BY <1>1, <2>1, <2>2
<1>6. l = r
  BY <1>1, <1>3, <1>4, <1>5, SeqEqual
<1> QED BY <1>6 DEF l, r, n, w

\* Writing within a prefix leaves what follows.
LEMMA WriteBefore ==
  ASSUME NEW v \in Seq(Byte), NEW w \in Seq(Byte), NEW i \in Nat, i + 2 <= Len(v)
  PROVE  WriteAt(v \o w, i) = WriteAt(v, i) \o w
<1> DEFINE a == Len(v)
           b == Len(w)
           vw == v \o w
           l == WriteAt(vw, i)
           u == WriteAt(v, i)
           r == u \o w
<1>1. a \in Nat /\ b \in Nat /\ i + 2 <= a
  OBVIOUS
<1>2. /\ u \in Seq(Byte) /\ Len(u) = a
      /\ \A j \in 1..a : u[j] = IF j = i + 2 THEN Mms[2]
                                ELSE IF j = i + 1 THEN Mms[1] ELSE v[j]
  BY WriteAtBytes
<1>3. /\ vw \in Seq(Byte) /\ Len(vw) = a + b
      /\ \A j \in 1..a : vw[j] = v[j]
      /\ \A j \in (a + 1)..(a + b) : vw[j] = w[j - a]
  BY ConcatProperties
<1> HIDE DEF u, vw
<1>4. /\ r \in Seq(Byte) /\ Len(r) = Len(u) + Len(w)
      /\ \A j \in 1..Len(u) : r[j] = u[j]
      /\ \A j \in (Len(u) + 1)..(Len(u) + Len(w)) : r[j] = w[j - Len(u)]
  BY <1>2, Joined DEF Join
<1> HIDE DEF r
<1>5. /\ Len(r) = a + b /\ \A j \in 1..a : r[j] = u[j]
      /\ \A j \in (a + 1)..(a + b) : r[j] = w[j - a]
  BY <1>2, <1>4
<1> HIDE DEF a, b
<1>6. /\ l \in Seq(Byte) /\ Len(l) = a + b
      /\ \A j \in 1..(a + b) : l[j] = IF j = i + 2 THEN Mms[2]
                                      ELSE IF j = i + 1 THEN Mms[1] ELSE vw[j]
  <2>1. i + 2 <= Len(vw)
    BY <1>1, <1>3
  <2> QED BY <1>3, <2>1, WriteAtBytes
<1> HIDE DEF l
<1>7. ASSUME NEW j \in 1..(a + b) PROVE l[j] = r[j]
  <2>1. CASE j \in 1..a
    <3>1. j \in 1..(a + b) /\ u[j] = r[j] /\ vw[j] = v[j]
      BY <1>1, <1>3, <1>5, <2>1
    <3> QED BY <1>2, <1>6, <2>1, <3>1
  <2>2. CASE j \in (a + 1)..(a + b)
    <3>1. j # i + 1 /\ j # i + 2
      BY <1>1, <2>2
    <3> QED BY <1>1, <1>3, <1>5, <1>6, <2>2, <3>1
  <2> QED BY <1>1, <2>1, <2>2
<1>8. l = r
  BY <1>4, <1>5, <1>6, <1>7, SeqEqual
<1> QED BY <1>8 DEF l, r, u, vw

\* Changed at option k, the options make the bytes that set_mms leaves.
LEMMA ClampedAt ==
  ASSUME NEW options \in Seq(Option), NEW k \in 1..Len(options), options[k][1] = Mss
  PROVE  WriteAt(FlattenSeq(options), IndexOf(options, k) + 2)
           = FlattenSeq([options EXCEPT ![k] = Own])
<1> DEFINE N == Len(options)
           new == [options EXCEPT ![k] = Own]
<1>1. \A i \in 1..N : options[i] \in Option /\ options[i] \in Seq(Byte)
  BY DEF Option
<1>2. Len(options[k]) = 4 /\ options[k][2] = 4
  BY <1>1 DEF Option, Mss, Eol, Nop
<1>3. options \in Seq(Seq(Byte))
  BY DEF Option
<1>4. Own \in Seq(Byte)
  BY OwnBytes
<1>5. /\ new \in Seq(Seq(Byte)) /\ Len(new) = N
      /\ \A i \in 1..N : i # k => new[i] = options[i]
      /\ new[k] = Own
  BY <1>3, <1>4
<1>6. PICK P : OptionBytes(P, options)
  BY <1>3, FlattenFrom
<1> HIDE DEF new
<1>7. PICK Q : OptionBytes(Q, new)
  BY <1>5, FlattenFrom
<1> DEFINE at == Len(P[k - 1]) + 2
<1>8. IndexOf(options, k) = Len(P[k - 1])
  BY <1>6, IndexAt
<1>9. /\ P \in [0..N -> Seq(Byte)] /\ P[0] = <<>> /\ P[N] = FlattenSeq(options)
      /\ \A i \in 1..N : P[i] = P[i - 1] \o options[i]
  BY <1>6 DEF OptionBytes
<1>10. /\ Q \in [0..N -> Seq(Byte)] /\ Q[0] = <<>> /\ Q[N] = FlattenSeq(new)
       /\ \A i \in 1..N : Q[i] = Q[i - 1] \o new[i]
  BY <1>5, <1>7 DEF OptionBytes
<1>11. N \in Nat /\ k \in 1..N
  OBVIOUS
<1>12. P[k - 1] \in Seq(Byte) /\ at \in Nat
  BY <1>9, <1>11
<1> HIDE DEF N, at
<1> DEFINE Same(i) == Q[i] = P[i]
           Written(i) == Q[i] = WriteAt(P[i], at) /\ at + 2 <= Len(P[i])
           T == {m \in Nat : IF m < k THEN Same(m) ELSE Written(m)}
<1>13. 0 \in T
  BY <1>9, <1>10, <1>11
<1>14. ASSUME NEW m \in 1..N, m - 1 \in T PROVE m \in T
  <2> DEFINE p == m - 1
             o == options[m]
  <2>1. p \in 0..N /\ (p < k <=> m <= k) /\ m \in Nat
    BY <1>11
  <2>2. IF p < k THEN Same(p) ELSE Written(p)
    BY <1>14
  <2>3. P[p] \in Seq(Byte) /\ P[m] = P[p] \o o /\ o \in Seq(Byte)
    BY <1>1, <1>9, <2>1
  <2>4. Q[m] = Q[p] \o new[m]
    BY <1>10
  <2>5. Len(P[m]) = Len(P[p]) + Len(o) /\ Len(P[p]) \in Nat /\ Len(o) \in Nat
    BY <2>3, ConcatProperties
  <2> HIDE DEF p
  <2>6. CASE m < k
    <3>1. Q[p] = P[p]
      BY <1>11, <2>1, <2>2, <2>6
    <3>2. new[m] = o
      BY <1>5, <1>11, <2>6
    <3>3. Same(m)
      BY <2>3, <2>4, <3>1, <3>2
    <3> QED BY <2>1, <2>6, <3>3
  <2>7. CASE m = k
    <3>1. Q[p] = P[p] /\ new[m] = Own /\ at = Len(P[p]) + 2
      BY <1>5, <1>11, <2>1, <2>2, <2>7 DEF at, p
    <3>2. Len(o) = 4 /\ o[1] = Mss /\ o[2] = 4
      BY <1>2, <2>7
    <3>3. WriteAt(P[p] \o o, Len(P[p]) + 2) = P[p] \o Own
      BY <2>3, <3>2, WriteHere
    <3>4. Written(m)
      BY <2>3, <2>4, <2>5, <3>1, <3>2, <3>3
    <3> QED BY <1>11, <2>1, <2>7, <3>4
  <2>8. CASE m > k
    <3>1. Q[p] = WriteAt(P[p], at) /\ at + 2 <= Len(P[p])
      BY <1>11, <2>1, <2>2, <2>8
    <3>2. new[m] = o
      BY <1>5, <1>11, <2>8
    <3>3. WriteAt(P[p] \o o, at) = WriteAt(P[p], at) \o o
      BY <1>12, <2>3, <3>1, WriteBefore
    <3>4. Written(m)
      <4>1. at + 2 <= Len(P[m])
        <5> DEFINE x == Len(P[p])
                   y == Len(o)
        <5>1. x \in Nat /\ y \in Nat /\ at + 2 <= x /\ Len(P[m]) = x + y
          BY <2>5, <3>1
        <5> HIDE DEF x, y, at
        <5> QED BY ONLY <1>12, <5>1
      <4>2. Q[m] = WriteAt(P[m], at)
        BY <2>3, <2>4, <3>1, <3>2, <3>3
      <4> QED BY <4>1, <4>2
    <3> QED BY <1>11, <2>1, <2>8, <3>4
  <2> QED BY <1>11, <2>6, <2>7, <2>8
<1> HIDE DEF T
<1>15. 0..N \subseteq T
  BY <1>11, <1>13, <1>14, InductTo
<1>16. Q[N] = WriteAt(P[N], at)
  <2>1. N \in T /\ ~(N < k)
    BY <1>11, <1>15
  <2> QED BY <1>11, <2>1 DEF T
<1> QED BY <1>8, <1>9, <1>10, <1>16 DEF at, new

\* What the tunnel leaves of a frame.
Clamps(f, r) ==
  LET tcp == f.type = "ipv4" /\ f.proto = "tcp"
      first == {k \in DOMAIN f.options : tcp /\ FirstMssAt(f.options, k)}
      sized(k) == [f.options EXCEPT ![k] = Own]
  IN  /\ IF first = {} THEN r.raw = f.raw
         ELSE \A k \in first : r.raw = FlattenSeq(sized(k))
      /\ r.fresh = (tcp \/ f.fresh)

LEMMA ClampGood ==
  ASSUME NEW f \in Segments
  PROVE  Clamps(f, SetMms(f))
<1> DEFINE N == Len(f.options)
           tcp == f.type = "ipv4" /\ f.proto = "tcp"
           first == {k \in DOMAIN f.options : tcp /\ FirstMssAt(f.options, k)}
           found == {k \in DOMAIN f.options : f.options[k][1] = Mss}
           m == Min(found)
<1>1. /\ f \in [type : STRING, proto : STRING, options : Seq(Option),
                raw : Seq(Byte), fresh : BOOLEAN]
      /\ f.raw = FlattenSeq(f.options)
  BY SegmentAssumption
<1>2. f.options \in Seq(Option) /\ DOMAIN f.options = 1..N /\ N \in Nat
  BY <1>1
<1>3. CASE ~tcp
  <2>1. SetMms(f) = f
    BY <1>3 DEF SetMms
  <2>2. first = {} /\ f.fresh = (tcp \/ f.fresh)
    BY <1>1, <1>3
  <2> QED BY <2>1, <2>2 DEF Clamps
<1>4. CASE tcp
  <2>1. SetMms(f).raw = Clamped(f.raw, f.options) /\ SetMms(f).fresh = TRUE
    BY <1>1, <1>4 DEF SetMms
  <2>2. CASE found = {}
    <3>1. first = {}
      BY <2>2 DEF FirstMssAt
    <3>2. Clamped(f.raw, f.options) = f.raw
      BY <2>2 DEF Clamped, FirstMss
    <3> QED BY <1>4, <2>1, <3>1, <3>2 DEF Clamps
  <2>3. CASE found # {}
    <3>1. found \subseteq Nat
      BY <1>2
    <3> HIDE DEF found
    <3>2. m \in found /\ \A y \in found : m <= y
      BY <2>3, <3>1, LeastMember
    <3>3. m \in 1..N /\ f.options[m][1] = Mss
      BY <1>2, <3>2 DEF found
    <3>4. m # 0
      BY <1>2, <3>3
    <3>5. Clamped(f.raw, f.options) = WriteAt(f.raw, IndexOf(f.options, m) + 2)
      BY <2>3, <3>4 DEF Clamped, FirstMss, found
    <3> HIDE DEF m
    <3>6. WriteAt(f.raw, IndexOf(f.options, m) + 2)
            = FlattenSeq([f.options EXCEPT ![m] = Own])
      BY <1>1, <1>2, <3>3, ClampedAt
    <3>7. ASSUME NEW k \in first PROVE k = m
      <4>1. k \in found /\ k \in 1..N /\ \A j \in 1..(k - 1) : f.options[j][1] # Mss
        BY <1>2 DEF FirstMssAt, found
      <4>2. m \notin 1..(k - 1)
        BY <3>3, <4>1
      <4> QED BY <1>2, <3>2, <3>3, <4>1, <4>2
    <3>8. m \in first
      <4>1. \A j \in 1..(m - 1) : f.options[j][1] # Mss
        BY <1>2, <3>2, <3>3 DEF found
      <4> QED BY <1>2, <1>4, <3>3, <4>1 DEF FirstMssAt
    <3>9. /\ first # {}
          /\ \A k \in first : SetMms(f).raw = FlattenSeq([f.options EXCEPT ![k] = Own])
      BY <2>1, <3>5, <3>6, <3>7, <3>8
    <3>10. SetMms(f).fresh = (tcp \/ f.fresh)
      BY <1>4, <2>1
    <3> QED BY <3>9, <3>10 DEF Clamps
  <2> QED BY <2>2, <2>3
<1> QED BY <1>3, <1>4

-----------------------------------------------------------------------------
(* The specification                                                       *)

\* What an example makes of a pair on the wire.
Outcome(m) ==
  CASE program = "echo" -> Answer(m[1], m[2])
    [] program = "change_word" ->
         ChangeWord(m[2], m[1].source, m[1].target, m[1].cut)
    [] program = "tunnel" -> Sent(SetMms(m[2]))

\* The pairs there may be.
Pairs ==
  CASE program = "echo" -> EchoHosts \X Frame
    [] program = "change_word" -> Edits \X Datagrams
    [] program = "tunnel" -> {None} \X Segments

Inv ==
  /\ program \in {"echo", "change_word", "tunnel"}
  /\ wire \subseteq Pairs
  /\ \/ handled = <<>>
     \/ \E m \in Pairs :
          handled = <<[by |-> m[1], given |-> m[2], out |-> Outcome(m)]>>


\* Whatever may be on the wire, its outcome is a right one.
LEMMA EchoPair ==
  ASSUME program = "echo", NEW m \in Pairs
  PROVE  /\ m[1] \in EchoHosts /\ m[2] \in Frame
         /\ Outcome(m) = Answer(m[1], m[2])
         /\ Good(m[1], m[2], Outcome(m))
BY EchoGood DEF Pairs, Outcome

LEMMA ChangePair ==
  ASSUME program = "change_word", NEW m \in Pairs
  PROVE  /\ m[1] \in Edits /\ m[2] \in Datagrams
         /\ Outcome(m) = ChangeWord(m[2], m[1].source, m[1].target, m[1].cut)
         /\ Arrived(m[1], m[2], Outcome(m))
<1>1. m[1] \in Edits /\ m[2] \in Datagrams
  BY DEF Pairs
<1>2. Outcome(m) = ChangeWord(m[2], m[1].source, m[1].target, m[1].cut)
  BY DEF Outcome
<1>3. m[1] \in Edit /\ m[2] \in Datagram /\ Padded(m[1], m[2])
  BY <1>1, DatagramAssumption, PaddingAssumption DEF Edit, Datagram, Padded
<1> QED BY <1>1, <1>2, <1>3, ChangeGood

LEMMA ClampPair ==
  ASSUME program = "tunnel", NEW m \in Pairs
  PROVE  /\ m[2] \in Segments
         /\ Outcome(m) = Sent(SetMms(m[2]))
         /\ Clamps(m[2], SetMms(m[2]))
BY ClampGood DEF Pairs, Outcome

\* Inv holds at first ...
LEMMA InitInv == Init => Inv
<1> SUFFICES ASSUME Init PROVE Inv
  OBVIOUS
<1>1. CASE program = "echo" /\ \E f \in Requests : wire = ToHosts(f)
  <2>1. wire \subseteq EchoHosts \X Frame
    BY <1>1, EchoAssumption DEF ToHosts, Reached
  <2> QED BY <1>1, <2>1 DEF Init, Inv, Pairs
<1>2. CASE program = "change_word" /\ \E e \in Edits, d \in Datagrams : wire = {<<e, d>>}
  BY <1>2 DEF Init, Inv, Pairs
<1>3. CASE program = "tunnel" /\ \E f \in Segments : wire = {<<None, f>>}
  BY <1>3 DEF Init, Inv, Pairs
<1> QED BY <1>1, <1>2, <1>3 DEF Init

\* ... and a step handles a pair and puts frames of the link on the wire.
LEMMA StepInv == Inv /\ [Next]_vars => Inv'
<1> SUFFICES ASSUME Inv, [Next]_vars PROVE Inv'
  OBVIOUS
<1>1. CASE UNCHANGED vars
  BY <1>1 DEF Inv, vars, Pairs, Outcome
<1>2. ASSUME NEW m \in wire, Echo(m) \/ Change(m) \/ Clamp(m) PROVE Inv'
  <2>1. m \in Pairs /\ program' = program
    BY <1>2 DEF Inv, Echo, Change, Clamp, Handled
  <2>2. Pairs' = Pairs /\ \A n : Outcome(n)' = Outcome(n)
    BY <2>1 DEF Pairs, Outcome
  <2>3. handled' = <<[by |-> m[1], given |-> m[2], out |-> Outcome(m)]>>
    BY <1>2 DEF Echo, Change, Clamp, Handled, Outcome
  <2>4. wire' \subseteq Pairs
    <3>1. CASE Echo(m)
      <4> DEFINE out == Answer(m[1], m[2])
                 onward == IF out.kind = "sent" THEN ToHosts(out.frame) ELSE {}
      <4>1. program = "echo" /\ Pairs = EchoHosts \X Frame
        BY <3>1 DEF Echo, Pairs
      <4>2. Good(m[1], m[2], out)
        BY <2>1, <4>1, EchoPair
      <4>3. out.kind = "sent" => out.frame \in Frame
        BY <4>2 DEF Good, Ignored, Panicked
      <4>4. onward \subseteq Pairs
        BY <4>1, <4>3 DEF ToHosts, Reached
      <4>5. wire' \subseteq wire \cup onward
        BY <3>1 DEF Echo, Handled
      <4> QED BY <4>4, <4>5 DEF Inv
    <3>2. CASE Change(m) \/ Clamp(m)
      BY <3>2 DEF Change, Clamp, Handled, Inv
    <3> QED BY <1>2, <3>1, <3>2
  <2> QED BY <2>1, <2>2, <2>3, <2>4 DEF Inv
<1> QED BY <1>1, <1>2 DEF Next

LEMMA Invariance == Spec => []Inv
BY InitInv, StepInv, PTL DEF Spec

\* What came last is the outcome of a pair.
LEMMA CameFrom ==
  ASSUME Inv, handled # <<>>
  PROVE  \E m \in Pairs :
           last.by = m[1] /\ last.given = m[2] /\ last.out = Outcome(m)
BY DEF Inv, last

(***************************************************************************)
(* Every answer of echo to an IP packet for the host is one the asker      *)
(* takes for an answer, and every ARP reply tells, in its sender fields,   *)
(* who has the address asked for.  That the reply is addressed to the      *)
(* asker is not claimed, and is not so.                                    *)
(***************************************************************************)
THEOREM EchoAnswers == Spec => []AnswerTaken
<1>1. Inv => AnswerTaken
  <2> DEFINE f == last.given
             r == last.out.frame
  <2> SUFFICES ASSUME Inv, Came("echo", "sent")
               PROVE  \/ f.type = "arp" /\ Teaches(f, r)
                      \/ f.type # "arp" /\ Takes(f, r)
                      \/ f.type = "ipv6" /\ f.op # Solicit /\ f.dst # last.by.ip6
    BY DEF AnswerTaken
  <2>1. PICK m \in Pairs :
          last.by = m[1] /\ last.given = m[2] /\ last.out = Outcome(m)
    BY CameFrom DEF Came
  <2>2. Good(m[1], m[2], last.out) /\ last.out.kind = "sent"
    BY <2>1, EchoPair DEF Came
  <2> QED BY <2>1, <2>2 DEF Good, Ignored, Panicked
<1> QED BY <1>1, Invariance, PTL

(***************************************************************************)
(* Every answer of echo carries the checksums of its own contents.         *)
(***************************************************************************)
THEOREM EchoSums == Spec => []SumsRight
<1>1. Inv => SumsRight
  <2> SUFFICES ASSUME Inv, Came("echo", "sent")
               PROVE  last.out.frame = Summed(last.out.frame)
    BY DEF SumsRight
  <2>1. PICK m \in Pairs :
          last.by = m[1] /\ last.given = m[2] /\ last.out = Outcome(m)
    BY CameFrom DEF Came
  <2>2. Good(m[1], m[2], last.out) /\ last.out.kind = "sent"
    BY <2>1, EchoPair DEF Came
  <2> QED BY <2>2 DEF Good, Ignored, Panicked
<1> QED BY <1>1, Invariance, PTL

(***************************************************************************)
(* Whatever the text, the words and the padding, the receiver of what      *)
(* change_word sends reads the text with every source word replaced.       *)
(***************************************************************************)
THEOREM WordsArrive == Spec => []ChangeArrives
<1>1. Inv => ChangeArrives
  <2> DEFINE r == last.out.frame
  <2> SUFFICES ASSUME Inv, Came("change_word", "sent")
               PROVE  /\ Text(r) = Replace(Text(last.given), last.by.source, last.by.target)
                      /\ r.total = IpHeader + r.ulen
                      /\ Len(r.data) >= r.ulen - UdpHeader
                      /\ last.by.cut => r.fresh
    BY DEF ChangeArrives
  <2>1. PICK m \in Pairs :
          last.by = m[1] /\ last.given = m[2] /\ last.out = Outcome(m)
    BY CameFrom DEF Came
  <2>2. Arrived(m[1], m[2], last.out) /\ last.out.kind = "sent"
    BY <2>1, ChangePair DEF Came
  <2> QED BY <2>1, <2>2 DEF Arrived
<1> QED BY <1>1, Invariance, PTL

(***************************************************************************)
(* change_word panics on no frame that fits its chunk once changed.        *)
(***************************************************************************)
THEOREM FullChunksPanic == Spec => []OnlyFullPanics
<1>1. Inv => OnlyFullPanics
  <2> SUFFICES ASSUME Inv, Came("change_word", "panicked")
               PROVE  Headers + Len(last.given.data)
                        + (Len(Replace(Text(last.given), last.by.source, last.by.target))
                           - Len(Text(last.given))) > BufferSize
    BY DEF OnlyFullPanics
  <2>1. PICK m \in Pairs :
          last.by = m[1] /\ last.given = m[2] /\ last.out = Outcome(m)
    BY CameFrom DEF Came
  <2>2. Arrived(m[1], m[2], last.out) /\ last.out.kind = "panicked"
    BY <2>1, ChangePair DEF Came
  <2> QED BY <2>1, <2>2 DEF Arrived
<1> QED BY <1>1, Invariance, PTL

(***************************************************************************)
(* Whatever options a TCP header has, the tunnel overwrites the size in    *)
(* the first MSS option and no other byte.                                 *)
(***************************************************************************)
THEOREM SizesClamped == Spec => []MssClamped
<1>1. Inv => MssClamped
  <2> SUFFICES ASSUME Inv, Came("tunnel", "sent") PROVE Clamps(last.given, last.out.frame)
    BY DEF MssClamped, Clamps, Own
  <2>1. PICK m \in Pairs :
          last.by = m[1] /\ last.given = m[2] /\ last.out = Outcome(m)
    BY CameFrom DEF Came
  <2>2. Outcome(m) = Sent(SetMms(m[2])) /\ Clamps(m[2], SetMms(m[2]))
    BY <2>1, ClampPair DEF Came
  <2>3. last.out.frame = SetMms(m[2])
    BY <2>1, <2>2 DEF Sent
  <2> QED BY <2>1, <2>2, <2>3
<1> QED BY <1>1, Invariance, PTL
=============================================================================
