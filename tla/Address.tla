------------------------------ MODULE Address ------------------------------
(***************************************************************************)
(* The classification of addresses in the guard of outbound requests       *)
(* (src/web/src/lib/ssrf.ts).                                              *)
(*                                                                         *)
(* An IPv4 address is its four octets.  An IPv6 address is its text: the   *)
(* hextets before and after "::", whether "::" occurs, and the octets of a *)
(* dotted tail.                                                            *)
(***************************************************************************)
EXTENDS Integers, Sequences

V4(octets) == [family |-> 4, octets |-> octets]
V6(head, gap, tail, dotted) ==
    [family |-> 6, head |-> head, gap |-> gap, tail |-> tail, dotted |-> dotted]

\* What isIP accepts is among these.
Dotted == [1 .. 4 -> 0 .. 255]
Hextet == {n \in Nat : n < 65536}
IpAddress ==
    [family : {4}, octets : Dotted] \cup
    [family : {6}, head : Seq(Hextet), gap : BOOLEAN, tail : Seq(Hextet),
     dotted : {<<>>} \cup Dotted]

\* The mutant has 172.16/12 end one network too early.
IsPrivateV4Short(o) ==
    \/ o[1] \in {0, 10, 127} \/ o[1] >= 224
    \/ o[1] = 169 /\ o[2] = 254
    \/ o[1] = 172 /\ o[2] \in 16 .. 30
    \/ o[1] = 192 /\ o[2] = 168
    \/ o[1] = 100 /\ o[2] \in 64 .. 127
    \/ o[1] = 198 /\ o[2] \in {18, 19}

IsPrivateV4(o) ==
    \/ o[1] \in {0, 10, 127} \/ o[1] >= 224
    \/ o[1] = 169 /\ o[2] = 254
    \/ o[1] = 172 /\ o[2] \in 16 .. 31
    \/ o[1] = 192 /\ o[2] = 168
    \/ o[1] = 100 /\ o[2] \in 64 .. 127
    \/ o[1] = 198 /\ o[2] \in {18, 19}

Hextets(o) == IF o = <<>> THEN <<>> ELSE <<o[1] * 256 + o[2], o[3] * 256 + o[4]>>
Octets(g, h) == <<g \div 256, g % 256, h \div 256, h % 256>>

\* The eight groups the text stands for; the empty set stands for null.  The
\* dotted tail is rewritten as two hextets of the part it ends.
Ipv6ToGroups(a) ==
    LET head == IF a.gap THEN a.head ELSE a.head \o Hextets(a.dotted)
        tail == IF a.gap THEN a.tail \o Hextets(a.dotted) ELSE <<>>
        fill == 8 - Len(head) - Len(tail)
    IN  IF fill = 0 \/ (a.gap /\ fill > 0)
        THEN {head \o [i \in 1 .. fill |-> 0] \o tail}
        ELSE {}

Zero(g, first, last) == \A i \in first .. last : g[i] = 0

\* The tests in the order of the code: each of the embeddings returns.
IsPrivateGroups(g) ==
    IF Zero(g, 1, 7) /\ g[8] \in {0, 1} THEN TRUE
    ELSE IF \/ Zero(g, 1, 5) /\ g[6] = 65535
            \/ Zero(g, 1, 6)
            \/ g[1] = 100 /\ g[2] = 65435 /\ Zero(g, 3, 6)
    THEN IsPrivateV4(Octets(g[7], g[8]))
    ELSE IF g[1] = 8194 THEN IsPrivateV4(Octets(g[2], g[3]))
    ELSE g[1] \div 64 = 1018 \/ g[1] \div 512 = 126 \/ g[1] \div 256 = 255

\* What cannot be parsed is unsafe.
IsPrivateAddress(a) ==
    IF a.family = 4 THEN IsPrivateV4(a.octets)
    ELSE \A g \in Ipv6ToGroups(a) : IsPrivateGroups(g)

-----------------------------------------------------------------------------
(* The networks that the comments name, as prefixes of groups of 16 bits.  *)

Within(prefix, g) ==
    LET whole == prefix.bits \div 16
        shift == 2 ^ (16 - (prefix.bits % 16))
    IN  /\ \A i \in 1 .. whole : g[i] = prefix.at[i]
        /\ (prefix.bits % 16) # 0 =>
               g[whole + 1] \div shift = prefix.at[whole + 1] \div shift

Net4(a, b, bits) == [at |-> <<a * 256 + b>>, bits |-> bits]

ReservedV4 == {Net4(10, 0, 8), Net4(127, 0, 8), Net4(0, 0, 8), Net4(169, 254, 16),
               Net4(172, 16, 12), Net4(192, 168, 16), Net4(100, 64, 10),
               Net4(198, 18, 15), Net4(224, 0, 3)}

ReservedV6 == {[at |-> <<65152>>, bits |-> 10], [at |-> <<64512>>, bits |-> 7],
               [at |-> <<65280>>, bits |-> 8]}

\* ::/96, ::ffff:0:0/96, 64:ff9b::/96 and 2002::/16, with the group at which
\* the IPv4 address they carry begins.
Carriers == {[at |-> <<0, 0, 0, 0, 0, 0>>, bits |-> 96, v4 |-> 7],
             [at |-> <<0, 0, 0, 0, 0, 65535>>, bits |-> 96, v4 |-> 7],
             [at |-> <<100, 65435, 0, 0, 0, 0>>, bits |-> 96, v4 |-> 7],
             [at |-> <<8194>>, bits |-> 16, v4 |-> 2]}

ReservedGroups(g) ==
    \/ \E n \in ReservedV6 : Within(n, g)
    \/ \E c \in Carriers :
           Within(c, g) /\ \E n \in ReservedV4 : Within(n, SubSeq(g, c.v4, c.v4 + 1))

Reserved(a) ==
    IF a.family = 4 THEN \E n \in ReservedV4 : Within(n, Hextets(a.octets))
    ELSE Ipv6ToGroups(a) = {} \/ \E g \in Ipv6ToGroups(a) : ReservedGroups(g)
=============================================================================
