---------------------------- MODULE WorkerProofs ----------------------------
(***************************************************************************)
(* Proofs about what the worker does with one notification and about its   *)
(* work loop.  Of Delivery: the guard refuses exactly the networks that    *)
(* its comments name, no attempt connects to one of them, the policy of    *)
(* Retry spaces the attempts, and a dispatch is given up early only for    *)
(* cause.  Of WakeUp: due work sits through at most one idle sleep,        *)
(* whatever the batch sizes, the backlog and the fate of the notifications.*)
(***************************************************************************)
EXTENDS Delivery, WakeUp, FiniteSetTheorems, SequenceTheorems, TLAPS

-----------------------------------------------------------------------------
(* The guard of outbound requests refuses exactly the reserved networks.   *)

\* A network given by the first bits of one group has size addresses in it.
LEMMA InNetworkOfOneGroup ==
    ASSUME NEW at, NEW bits, NEW size,
           <<bits, size>> \in {<<3, 8192>>, <<7, 512>>, <<8, 256>>, <<10, 64>>, <<12, 16>>,
                                <<15, 2>>},
           NEW g
    PROVE  Within([at |-> <<at>>, bits |-> bits], g) <=> g[1] \div size = at \div size
<1> DEFINE n == [at |-> <<at>>, bits |-> bits]
<1>1. n.bits \div 16 = 0 /\ n.bits % 16 # 0 /\ n.at[1] = at
    BY SMT
<1>2. 2 ^ (16 - (n.bits % 16)) = size
    <2> DEFINE free == 16 - (n.bits % 16)
    <2>1. \/ free = 13 /\ 2 ^ 13 = size
          \/ free = 9 /\ 2 ^ 9 = size
          \/ free = 8 /\ 2 ^ 8 = size
          \/ free = 6 /\ 2 ^ 6 = size
          \/ free = 4 /\ 2 ^ 4 = size
          \/ free = 1 /\ 2 ^ 1 = size
        BY SMT
    <2> HIDE DEF free
    <2>2. 2 ^ free = size
        BY ONLY <2>1, Zenon
    <2> QED BY <2>2 DEF free
<1> HIDE DEF n
<1>3. Within(n, g) <=>
        /\ \A i \in 1 .. (n.bits \div 16) : g[i] = n.at[i]
        /\ n.bits % 16 # 0 =>
             g[(n.bits \div 16) + 1] \div (2 ^ (16 - (n.bits % 16))) =
                 n.at[(n.bits \div 16) + 1] \div (2 ^ (16 - (n.bits % 16)))
    BY DEF Within
<1>4. Within(n, g) <=>
        /\ \A i \in 1 .. 0 : g[i] = n.at[i]
        /\ g[0 + 1] \div size = n.at[0 + 1] \div size
    BY ONLY <1>1, <1>2, <1>3, Zenon
<1>5. Within(n, g) <=> g[1] \div size = at \div size
    BY <1>1, <1>4
<1> QED BY <1>5 DEF n

\* A network of whole groups.
LEMMA InNetworkOfGroups ==
    ASSUME NEW n, NEW k \in Nat, n.bits = 16 * k, NEW g
    PROVE  Within(n, g) <=> \A i \in 1 .. k : g[i] = n.at[i]
<1>1. n.bits \div 16 = k /\ n.bits % 16 = 0
    BY SMT
<1> QED BY <1>1 DEF Within

\* Of IPv4.
LEMMA GuardKnowsV4 ==
    ASSUME NEW g, g[1] \in Hextet, g[2] \in Hextet
    PROVE  IsPrivateV4(Octets(g[1], g[2])) <=> \E n \in ReservedV4 : Within(n, g)
<1> DEFINE o == Octets(g[1], g[2])
           h == g[1]
<1>1. o[1] = h \div 256 /\ o[2] = h % 256
    BY DEF Octets
<1>2. h \in Nat /\ h < 65536
    BY DEF Hextet
<1>3. \A n : n \in ReservedV4 <=>
          \/ n = [at |-> <<2560>>, bits |-> 8] \/ n = [at |-> <<32512>>, bits |-> 8]
          \/ n = [at |-> <<0>>, bits |-> 8] \/ n = [at |-> <<43518>>, bits |-> 16]
          \/ n = [at |-> <<44048>>, bits |-> 12] \/ n = [at |-> <<49320>>, bits |-> 16]
          \/ n = [at |-> <<25664>>, bits |-> 10] \/ n = [at |-> <<50706>>, bits |-> 15]
          \/ n = [at |-> <<57344>>, bits |-> 3]
    BY DEF ReservedV4, Net4
<1>4. \A at \in Hextet : Within([at |-> <<at>>, bits |-> 16], g) <=> h = at
    <2> SUFFICES ASSUME NEW at \in Hextet
                 PROVE  Within([at |-> <<at>>, bits |-> 16], g) <=> h = at
        OBVIOUS
    <2> DEFINE n == [at |-> <<at>>, bits |-> 16]
    <2>1. n.bits = 16 * 1 /\ n.at[1] = at
        OBVIOUS
    <2> HIDE DEF n
    <2>2. Within(n, g) <=> \A i \in 1 .. 1 : g[i] = n.at[i]
        BY <2>1, InNetworkOfGroups
    <2> QED BY <2>1, <2>2 DEF n
<1>5. /\ \A at \in Hextet : Within([at |-> <<at>>, bits |-> 8], g) <=> h \div 256 = at \div 256
      /\ \A at \in Hextet : Within([at |-> <<at>>, bits |-> 12], g) <=> h \div 16 = at \div 16
      /\ \A at \in Hextet : Within([at |-> <<at>>, bits |-> 10], g) <=> h \div 64 = at \div 64
      /\ \A at \in Hextet : Within([at |-> <<at>>, bits |-> 15], g) <=> h \div 2 = at \div 2
      /\ \A at \in Hextet : Within([at |-> <<at>>, bits |-> 3], g) <=> h \div 8192 = at \div 8192
    BY InNetworkOfOneGroup
<1>6. (\E n \in ReservedV4 : Within(n, g)) <=>
          \/ h \div 256 \in {10, 127, 0} \/ h \in {43518, 49320} \/ h \div 16 = 2753
          \/ h \div 64 = 401 \/ h \div 2 = 25353 \/ h \div 8192 = 7
    <2>1. /\ Within([at |-> <<2560>>, bits |-> 8], g) <=> h \div 256 = 10
          /\ Within([at |-> <<32512>>, bits |-> 8], g) <=> h \div 256 = 127
          /\ Within([at |-> <<0>>, bits |-> 8], g) <=> h \div 256 = 0
        BY <1>5 DEF Hextet
    <2>2. /\ Within([at |-> <<43518>>, bits |-> 16], g) <=> h = 43518
          /\ Within([at |-> <<49320>>, bits |-> 16], g) <=> h = 49320
        BY <1>4 DEF Hextet
    <2>3. /\ Within([at |-> <<44048>>, bits |-> 12], g) <=> h \div 16 = 2753
          /\ Within([at |-> <<25664>>, bits |-> 10], g) <=> h \div 64 = 401
          /\ Within([at |-> <<50706>>, bits |-> 15], g) <=> h \div 2 = 25353
          /\ Within([at |-> <<57344>>, bits |-> 3], g) <=> h \div 8192 = 7
        BY <1>5 DEF Hextet
    <2> HIDE DEF h
    <2> QED BY <1>3, <2>1, <2>2, <2>3
<1>7. IsPrivateV4(o) <=>
          \/ h \div 256 \in {0, 10, 127} \/ h \div 256 >= 224
          \/ h \div 256 = 169 /\ h % 256 = 254
          \/ h \div 256 = 172 /\ h % 256 \in 16 .. 31
          \/ h \div 256 = 192 /\ h % 256 = 168
          \/ h \div 256 = 100 /\ h % 256 \in 64 .. 127
          \/ h \div 256 = 198 /\ h % 256 \in {18, 19}
    <2> HIDE DEF o, h
    <2> QED BY <1>1 DEF IsPrivateV4
<1> HIDE DEF h, o
<1>8. /\ (h \div 256 >= 224) <=> (h \div 8192 = 7)
      /\ (h \div 256 = 169 /\ h % 256 = 254) <=> (h = 43518)
      /\ (h \div 256 = 172 /\ h % 256 \in 16 .. 31) <=> (h \div 16 = 2753)
      /\ (h \div 256 = 192 /\ h % 256 = 168) <=> (h = 49320)
      /\ (h \div 256 = 100 /\ h % 256 \in 64 .. 127) <=> (h \div 64 = 401)
      /\ (h \div 256 = 198 /\ h % 256 \in {18, 19}) <=> (h \div 2 = 25353)
    BY <1>2, SMT
<1>9. IsPrivateV4(o) <=> \E n \in ReservedV4 : Within(n, g)
    BY <1>6, <1>7, <1>8
<1> QED BY <1>9 DEF o

\* Two neighbouring groups, as an IPv4 address.
LEMMA TwoGroups ==
    ASSUME NEW g \in Seq(Hextet), Len(g) = 8, NEW k \in {2, 7}
    PROVE  IsPrivateV4(Octets(g[k], g[k + 1])) <=>
               \E n \in ReservedV4 : Within(n, SubSeq(g, k, k + 1))
<1> DEFINE s == SubSeq(g, k, k + 1)
<1>1. s[1] = g[k] /\ s[2] = g[k + 1] /\ g[k] \in Hextet /\ g[k + 1] \in Hextet
    <2>1. k \in 1 .. 8 /\ k + 1 \in 1 .. 8 /\ k + 1 <= Len(g)
        OBVIOUS
    <2>2. g[k] \in Hextet /\ g[k + 1] \in Hextet
        BY <2>1
    <2>3. s[1] = g[k] /\ s[2] = g[k + 1]
        BY <2>1, SubSeqProperties
    <2> QED BY <2>2, <2>3
<1> HIDE DEF s
<1>2. IsPrivateV4(Octets(s[1], s[2])) <=> \E n \in ReservedV4 : Within(n, s)
    BY <1>1, GuardKnowsV4
<1> QED BY <1>1, <1>2 DEF s

\* Of IPv6: the networks and those that carry an IPv4 address exclude one
\* another, so that the early returns of the code leave nothing out.
LEMMA GuardKnowsGroups ==
    ASSUME NEW g \in Seq(Hextet), Len(g) = 8
    PROVE  IsPrivateGroups(g) <=> ReservedGroups(g)
<1> DEFINE low == IsPrivateV4(Octets(g[7], g[8]))
           high == IsPrivateV4(Octets(g[2], g[3]))
           compat == Zero(g, 1, 6)
           mapped == Zero(g, 1, 5) /\ g[6] = 65535
           nat64 == g[1] = 100 /\ g[2] = 65435 /\ Zero(g, 3, 6)
           own == g[1] \div 64 = 1018 \/ g[1] \div 512 = 126 \/ g[1] \div 256 = 255
<1>1. \A i \in 1 .. 8 : g[i] \in Nat /\ g[i] < 65536
    <2>1. \A i \in 1 .. Len(g) : g[i] \in Hextet
        BY ElementOfSeq
    <2> QED BY <2>1 DEF Hextet
<1>2. compat <=> /\ g[1] = 0 /\ g[2] = 0 /\ g[3] = 0
                 /\ g[4] = 0 /\ g[5] = 0 /\ g[6] = 0
    BY DEF Zero
<1>3. mapped <=> /\ g[1] = 0 /\ g[2] = 0 /\ g[3] = 0
                 /\ g[4] = 0 /\ g[5] = 0 /\ g[6] = 65535
    BY DEF Zero
<1>4. nat64 <=> /\ g[1] = 100 /\ g[2] = 65435 /\ g[3] = 0
                /\ g[4] = 0 /\ g[5] = 0 /\ g[6] = 0
    BY DEF Zero
<1>5. ReservedGroups(g) <=>
          \/ own
          \/ (compat \/ mapped \/ nat64) /\ low
          \/ g[1] = 8194 /\ high
    <2>1. (\E n \in ReservedV6 : Within(n, g)) <=> own
        <3>1. /\ \A at : Within([at |-> <<at>>, bits |-> 10], g) <=> g[1] \div 64 = at \div 64
              /\ \A at : Within([at |-> <<at>>, bits |-> 7], g) <=> g[1] \div 512 = at \div 512
              /\ \A at : Within([at |-> <<at>>, bits |-> 8], g) <=> g[1] \div 256 = at \div 256
            BY InNetworkOfOneGroup
        <3>2. /\ Within([at |-> <<65152>>, bits |-> 10], g) <=> g[1] \div 64 = 1018
              /\ Within([at |-> <<64512>>, bits |-> 7], g) <=> g[1] \div 512 = 126
              /\ Within([at |-> <<65280>>, bits |-> 8], g) <=> g[1] \div 256 = 255
            BY <3>1
        <3> QED BY <3>2 DEF ReservedV6
    <2>2. /\ low <=> \E n \in ReservedV4 : Within(n, SubSeq(g, 7, 7 + 1))
          /\ high <=> \E n \in ReservedV4 : Within(n, SubSeq(g, 2, 2 + 1))
        BY TwoGroups
    <2> DEFINE c1 == [at |-> <<0, 0, 0, 0, 0, 0>>, bits |-> 96, v4 |-> 7]
               c2 == [at |-> <<0, 0, 0, 0, 0, 65535>>, bits |-> 96, v4 |-> 7]
               c3 == [at |-> <<100, 65435, 0, 0, 0, 0>>, bits |-> 96, v4 |-> 7]
               c4 == [at |-> <<8194>>, bits |-> 16, v4 |-> 2]
    <2>3. \A c : c \in Carriers <=> c = c1 \/ c = c2 \/ c = c3 \/ c = c4
        BY DEF Carriers
    <2>4. /\ c1.v4 = 7 /\ c2.v4 = 7 /\ c3.v4 = 7 /\ c4.v4 = 2
          /\ c1.bits = 16 * 6 /\ c2.bits = 16 * 6 /\ c3.bits = 16 * 6 /\ c4.bits = 16 * 1
          /\ c1.at = <<0, 0, 0, 0, 0, 0>> /\ c2.at = <<0, 0, 0, 0, 0, 65535>>
          /\ c3.at = <<100, 65435, 0, 0, 0, 0>> /\ c4.at = <<8194>>
        OBVIOUS
    <2> HIDE DEF c1, c2, c3, c4, low, high, compat, mapped, nat64, own
    <2>5. /\ \A n : n.bits = 16 * 6 => (Within(n, g) <=> \A i \in 1 .. 6 : g[i] = n.at[i])
          /\ \A n : n.bits = 16 * 1 => (Within(n, g) <=> \A i \in 1 .. 1 : g[i] = n.at[i])
        <3>1. ASSUME NEW n, NEW k \in Nat, n.bits = 16 * k
              PROVE  Within(n, g) <=> \A i \in 1 .. k : g[i] = n.at[i]
            BY <3>1, InNetworkOfGroups
        <3> QED BY <3>1
    <2>6. Within(c1, g) <=> compat
        BY <1>2, <2>4, <2>5
    <2>7. Within(c2, g) <=> mapped
        BY <1>3, <2>4, <2>5
    <2>8. Within(c3, g) <=> nat64
        BY <1>4, <2>4, <2>5
    <2>9. Within(c4, g) <=> g[1] = 8194
        BY <2>4, <2>5
    <2> DEFINE In4(c) == \E n \in ReservedV4 : Within(n, SubSeq(g, c.v4, c.v4 + 1))
    <2>10. (In4(c1) <=> low) /\ (In4(c2) <=> low) /\ (In4(c3) <=> low) /\ (In4(c4) <=> high)
        BY <2>2, <2>4
    <2> HIDE DEF In4
    <2>11. (\E c \in Carriers :
               Within(c, g) /\ In4(c))
           <=> \/ (compat \/ mapped \/ nat64) /\ low
               \/ g[1] = 8194 /\ high
        BY <2>3, <2>6, <2>7, <2>8, <2>9, <2>10
    <2> QED BY <2>1, <2>11 DEF ReservedGroups, In4
<1>6. Zero(g, 1, 7) /\ g[8] \in {0, 1} => compat /\ low
    <2> SUFFICES ASSUME Zero(g, 1, 7), g[8] \in {0, 1}
                 PROVE  compat /\ low
        OBVIOUS
    <2>1. g[7] = 0 /\ compat
        BY DEF Zero
    <2>2. Octets(g[7], g[8])[1] = 0
        BY <2>1 DEF Octets
    <2> QED BY <2>1, <2>2 DEF IsPrivateV4
<1>7. IsPrivateGroups(g) <=>
          IF Zero(g, 1, 7) /\ g[8] \in {0, 1} THEN TRUE
          ELSE IF compat \/ mapped \/ nat64 THEN low
          ELSE IF g[1] = 8194 THEN high ELSE own
    BY DEF IsPrivateGroups
<1>8. /\ compat \/ mapped \/ nat64 => ~own /\ g[1] # 8194
      /\ g[1] = 8194 => ~own
    <2>1. compat \/ mapped \/ nat64 => g[1] = 0 \/ g[1] = 100
        BY <1>2, <1>3, <1>4
    <2>2. ASSUME NEW h \in Nat, h \div 64 = 1018 \/ h \div 512 = 126 \/ h \div 256 = 255
          PROVE  h > 8194
        BY <2>2
    <2>3. own => g[1] > 8194
        <3>1. g[1] \in Nat
            BY <1>1
        <3>2. own <=> g[1] \div 64 = 1018 \/ g[1] \div 512 = 126 \/ g[1] \div 256 = 255
            OBVIOUS
        <3> HIDE DEF own
        <3> QED BY <2>2, <3>1, <3>2
    <2> HIDE DEF compat, mapped, nat64, own
    <2> QED BY <1>1, <2>1, <2>3
<1> HIDE DEF low, high, compat, mapped, nat64, own
<1> QED BY <1>5, <1>6, <1>7, <1>8

\* A text that stands for an address at all stands for eight groups.
LEMMA EightGroups ==
    ASSUME NEW a \in IpAddress, a.family = 6
    PROVE  \/ Ipv6ToGroups(a) = {}
           \/ \E g \in Seq(Hextet) : Len(g) = 8 /\ Ipv6ToGroups(a) = {g}
<1>1. a.head \in Seq(Hextet) /\ a.tail \in Seq(Hextet) /\ a.dotted \in {<<>>} \cup Dotted
    BY DEF IpAddress
<1>2. Hextets(a.dotted) \in Seq(Hextet)
    <2>1. CASE a.dotted = <<>>
        BY <2>1 DEF Hextets
    <2>2. CASE a.dotted # <<>>
        <3>1. a.dotted \in Dotted
            BY <1>1, <2>2
        <3>2. /\ a.dotted[1] \in 0 .. 255 /\ a.dotted[2] \in 0 .. 255
              /\ a.dotted[3] \in 0 .. 255 /\ a.dotted[4] \in 0 .. 255
            BY <3>1 DEF Dotted
        <3>3. \A x, y \in 0 .. 255 : x * 256 + y \in Hextet
            BY DEF Hextet
        <3>4. /\ a.dotted[1] * 256 + a.dotted[2] \in Hextet
              /\ a.dotted[3] * 256 + a.dotted[4] \in Hextet
            BY <3>2, <3>3
        <3>5. Hextets(a.dotted) =
                  <<a.dotted[1] * 256 + a.dotted[2], a.dotted[3] * 256 + a.dotted[4]>>
            BY <2>2 DEF Hextets
        <3> QED BY <3>4, <3>5
    <2> QED BY <2>1, <2>2
<1> DEFINE head == IF a.gap THEN a.head ELSE a.head \o Hextets(a.dotted)
           tail == IF a.gap THEN a.tail \o Hextets(a.dotted) ELSE <<>>
           fill == 8 - Len(head) - Len(tail)
           zeros == [i \in 1 .. fill |-> 0]
<1>3. head \in Seq(Hextet)
    BY <1>1, <1>2
<1>4. tail \in Seq(Hextet)
    BY <1>1, <1>2
<1>5. Ipv6ToGroups(a) = IF fill = 0 \/ (a.gap /\ fill > 0) THEN {head \o zeros \o tail} ELSE {}
    BY DEF Ipv6ToGroups
<1> HIDE DEF head, tail
<1>6. Len(head) \in Nat /\ Len(tail) \in Nat /\ fill \in Int
    BY <1>3, <1>4
<1>7. ASSUME fill >= 0
      PROVE  /\ head \o zeros \o tail \in Seq(Hextet)
             /\ Len(head \o zeros \o tail) = 8
    <2>1. zeros \in Seq(Hextet) /\ Len(zeros) = fill
        <3>1. fill \in Nat /\ 0 \in Hextet
            BY <1>6, <1>7 DEF Hextet
        <3> HIDE DEF fill
        <3>2. zeros \in [1 .. fill -> Hextet]
            BY <3>1
        <3> QED BY <3>1, <3>2
    <2>2. fill = 8 - Len(head) - Len(tail)
        OBVIOUS
    <2> HIDE DEF zeros, fill
    <2> QED BY <1>3, <1>4, <1>6, <2>1, <2>2
<1>8. CASE fill = 0 \/ (a.gap /\ fill > 0)
    <2>1. fill >= 0
        BY <1>6, <1>8
    <2> HIDE DEF zeros, fill
    <2> QED BY <1>5, <1>7, <1>8, <2>1
<1>9. CASE ~(fill = 0 \/ (a.gap /\ fill > 0))
    BY <1>5, <1>9
<1> QED BY <1>8, <1>9

\* isPrivateAddress holds of the addresses of the reserved networks, in every
\* notation, of what stands for no address, and of no other.
THEOREM GuardIsExact ==
    ASSUME NEW a \in IpAddress
    PROVE  IsPrivateAddress(a) <=> Reserved(a)
<1>1. CASE a.family = 4
    <2> DEFINE o == a.octets
               g == Hextets(o)
    <2>1. o \in Dotted
        BY <1>1 DEF IpAddress
    <2>2. o[1] \in 0 .. 255 /\ o[2] \in 0 .. 255 /\ o[3] \in 0 .. 255 /\ o[4] \in 0 .. 255
        BY <2>1 DEF Dotted
    <2>3. g[1] = o[1] * 256 + o[2] /\ g[2] = o[3] * 256 + o[4]
        <3>1. o # <<>>
            <4>1. DOMAIN o = 1 .. 4
                BY <2>1 DEF Dotted
            <4>2. 1 \in DOMAIN o /\ 1 \notin DOMAIN <<>>
                BY <4>1
            <4> QED BY <4>2
        <3> HIDE DEF o
        <3> QED BY <3>1 DEF Hextets
    <2>4. \A x, y \in 0 .. 255 :
              /\ x * 256 + y \in Hextet
              /\ (x * 256 + y) \div 256 = x /\ (x * 256 + y) % 256 = y
        BY DEF Hextet
    <2> HIDE DEF o, g
    <2>5. /\ g[1] \in Hextet /\ g[2] \in Hextet
          /\ g[1] \div 256 = o[1] /\ g[1] % 256 = o[2]
        <3>1. /\ o[1] * 256 + o[2] \in Hextet
              /\ (o[1] * 256 + o[2]) \div 256 = o[1] /\ (o[1] * 256 + o[2]) % 256 = o[2]
            <4>1. PICK x \in 0 .. 255, y \in 0 .. 255 : x = o[1] /\ y = o[2]
                BY <2>2
            <4>2. /\ x * 256 + y \in Hextet
                  /\ (x * 256 + y) \div 256 = x /\ (x * 256 + y) % 256 = y
                BY ONLY <2>4, x \in 0 .. 255, y \in 0 .. 255
            <4> QED BY ONLY <4>1, <4>2
        <3>2. o[3] * 256 + o[4] \in Hextet
            BY <2>2, <2>4
        <3> QED BY ONLY <2>3, <3>1, <3>2
    <2>6. IsPrivateV4(Octets(g[1], g[2])) <=> \E n \in ReservedV4 : Within(n, g)
        BY <2>5, GuardKnowsV4
    <2>7. Octets(g[1], g[2])[1] = o[1] /\ Octets(g[1], g[2])[2] = o[2]
        BY <2>5 DEF Octets
    <2>8. IsPrivateV4(o) <=> IsPrivateV4(Octets(g[1], g[2]))
        BY <2>7 DEF IsPrivateV4
    <2> QED BY <1>1, <2>6, <2>8 DEF IsPrivateAddress, Reserved, o, g
<1>2. CASE a.family # 4
    <2>1. a.family = 6
        BY <1>2 DEF IpAddress
    <2>2. CASE Ipv6ToGroups(a) = {}
        BY <1>2, <2>2 DEF IsPrivateAddress, Reserved
    <2>3. ASSUME NEW g \in Seq(Hextet), Len(g) = 8, Ipv6ToGroups(a) = {g}
          PROVE  IsPrivateAddress(a) <=> Reserved(a)
        <3>1. IsPrivateGroups(g) <=> ReservedGroups(g)
            BY <2>3, GuardKnowsGroups
        <3> QED BY <1>2, <2>3, <3>1 DEF IsPrivateAddress, Reserved
    <2> QED BY <2>1, <2>2, <2>3, EightGroups
<1> QED BY <1>1, <1>2

-----------------------------------------------------------------------------
(* The delays of the policy.                                               *)

LEMMA MinOfTwo ==
    ASSUME NEW a \in Int, NEW b \in Int
    PROVE  Min({a, b}) = IF a <= b THEN a ELSE b
BY DEF Min

LEMMA MaxOfTwo ==
    ASSUME NEW a \in Int, NEW b \in Int
    PROVE  Max({a, b}) = IF a >= b THEN a ELSE b
BY DEF Max

\* The ladder of the five attempts: 1, 5, 25 and then 60 minutes.
LEMMA Ladder ==
    /\ BackoffSec(1) = 60 /\ BackoffSec(2) = 300 /\ BackoffSec(3) = 1500
    /\ BackoffSec(4) = 3600 /\ BackoffSec(5) = 3600
<1>1. /\ Max({0, 1 - 1}) = 0 /\ Max({0, 2 - 1}) = 1 /\ Max({0, 3 - 1}) = 2
      /\ Max({0, 4 - 1}) = 3 /\ Max({0, 5 - 1}) = 4
  BY MaxOfTwo
<1>2. 5 ^ 0 = 1 /\ 5 ^ 1 = 5 /\ 5 ^ 2 = 25 /\ 5 ^ 3 = 125 /\ 5 ^ 4 = 625
  BY SMT
<1>3. /\ Min({3600, 60 * 1}) = 60 /\ Min({3600, 60 * 5}) = 300 /\ Min({3600, 60 * 25}) = 1500
      /\ Min({3600, 60 * 125}) = 3600 /\ Min({3600, 60 * 625}) = 3600
  BY MinOfTwo
<1>4. QED
  BY <1>1, <1>2, <1>3 DEF BackoffSec, MAX_RETRY_DELAY_SEC

\* The policy of lib/retry.ts gives each of the five attempts a delay of at
\* least a second and at most an hour, and one no shorter than a hint of at
\* most an hour: RetryDelayAssumption of Dispatcher holds of it, and so does
\* the hypothesis of ProvidersAreGivenTheirTime as long as no provider asks
\* for more.
THEOREM DelaysOfThePolicy ==
    ASSUME NEW a \in 1 .. 5, NEW h \in Nat
    PROVE  /\ RetryDelaySec(a, h) \in 1 .. MAX_RETRY_DELAY_SEC
           /\ h <= MAX_RETRY_DELAY_SEC => RetryDelaySec(a, h) >= h
           /\ h > MAX_RETRY_DELAY_SEC => RetryDelaySec(a, h) = MAX_RETRY_DELAY_SEC
<1> DEFINE step == BackoffSec(a)
           delayOf == RetryDelaySec(a, h)
<1>1. a = 1 \/ a = 2 \/ a = 3 \/ a = 4 \/ a = 5
  OBVIOUS
<1>2. step \in 1 .. 3600
  BY <1>1, Ladder
<1>3. PICK s : s \in 1 .. 3600 /\ s = step
  BY <1>2
<1>4. s \in 1 .. 3600
  BY <1>3
<1>5. delayOf = IF h <= 0 THEN s ELSE Min({3600, Max({s, h})})
  BY <1>3 DEF RetryDelaySec, MAX_RETRY_DELAY_SEC
<1> HIDE DEF step, delayOf
<1>6. Min({3600, Max({s, h})}) = IF s >= h THEN s ELSE IF 3600 <= h THEN 3600 ELSE h
  <2>1. Max({s, h}) = IF s >= h THEN s ELSE h
    BY <1>4, MaxOfTwo
  <2>2. CASE s >= h
    <3>1. Min({3600, s}) = IF 3600 <= s THEN 3600 ELSE s
      BY <1>4, MinOfTwo
    <3>2. s = 3600 \/ ~(3600 <= s)
      BY <1>4
    <3>3. QED
      BY <2>1, <2>2, <3>1, <3>2
  <2>3. CASE ~(s >= h)
    <3>1. Min({3600, h}) = IF 3600 <= h THEN 3600 ELSE h
      BY MinOfTwo
    <3>2. QED
      BY <2>1, <2>3, <3>1
  <2>4. QED
    BY <2>2, <2>3
<1>7. delayOf = IF h <= 0 THEN s
                ELSE IF s >= h THEN s ELSE IF 3600 <= h THEN 3600 ELSE h
  BY <1>4, <1>5, <1>6
<1>8. /\ delayOf \in 1 .. 3600 /\ (h <= 3600 => delayOf >= h)
      /\ h > 3600 => delayOf = 3600
  BY <1>4, <1>7
<1>9. QED
  BY <1>8 DEF delayOf, MAX_RETRY_DELAY_SEC

\* The hint of a 429 is at least what each of its headers asks for.
LEMMA HintIsEnough ==
    ASSUME DeliveryAssumption, NEW a \in Answer
    PROVE  /\ RetryAfterHintSec(a.status, a.retryAfter, a.reset) \in Nat
           /\ a.status = 429 =>
                \A h \in {a.retryAfter, a.reset} :
                    /\ Asked(h) \in Int
                    /\ Asked(h) <= RetryAfterHintSec(a.status, a.retryAfter, a.reset)
<1> DEFINE ra == a.retryAfter
           re == a.reset
           hints == {NoHint} \cup ParseRetryAfterSec(ra) \cup ResetSec(re)
<1>1. \/ ra.kind \in {"absent", "garbage"}
      \/ ra.kind = "date" /\ ra.n \in Int
      \/ ra.kind = "seconds" /\ ra.n \in Nat
    BY DEF Answer, Header, Absent, DeliveryAssumption
<1>2. \/ re.kind = "absent"
      \/ re.kind = "tenths" /\ re.n \in Int
    BY DEF Answer, Header, Absent, DeliveryAssumption
<1> HIDE DEF ra, re
<1>3. PICK x \in Nat : /\ {NoHint} \cup ParseRetryAfterSec(ra) = {0, x}
                        /\ Asked(ra) \in Int /\ Asked(ra) <= x
    <2>1. CASE ra.kind \in {"absent", "garbage"}
        <3>1. ParseRetryAfterSec(ra) = {} /\ Asked(ra) = 0
            BY <2>1 DEF ParseRetryAfterSec, Asked
        <3> QED BY <3>1 DEF NoHint
    <2>2. CASE ra.kind = "date" /\ ra.n \in Int
        <3>1. ParseRetryAfterSec(ra) = {Max({0, ra.n})} /\ Asked(ra) = ra.n
            BY <2>2 DEF ParseRetryAfterSec, Asked
        <3>2. Max({0, ra.n}) = IF 0 >= ra.n THEN 0 ELSE ra.n
            BY <2>2, MaxOfTwo
        <3> DEFINE m == Max({0, ra.n})
        <3>3. m \in Nat /\ ra.n <= m
            BY <2>2, <3>2
        <3> HIDE DEF m
        <3> QED BY <2>2, <3>1, <3>3 DEF NoHint, m
    <2>3. CASE ra.kind = "seconds" /\ ra.n \in Nat
        <3>1. ParseRetryAfterSec(ra) = {ra.n} /\ Asked(ra) = ra.n
            BY <2>3 DEF ParseRetryAfterSec, Asked
        <3> QED BY <2>3, <3>1 DEF NoHint
    <2> QED BY <1>1, <2>1, <2>2, <2>3
<1>4. PICK y \in Nat : {0} \cup ResetSec(re) = {0, y} /\ Asked(re) \in Int /\ Asked(re) <= y
    <2>1. CASE re.kind = "absent"
        <3>1. ResetSec(re) = {} /\ Asked(re) = 0
            BY <2>1 DEF ResetSec, Asked
        <3> QED BY <3>1
    <2>2. CASE re.kind = "tenths" /\ re.n \in Int
        <3> DEFINE n == re.n
                   up == (n \div 10) + (IF n % 10 = 0 THEN 0 ELSE 1)
        <3>1. Asked(re) = up
            BY <2>2 DEF Asked
        <3>2. ResetSec(re) = IF n > 0 THEN {(n + 9) \div 10} ELSE {}
            BY <2>2 DEF ResetSec, CeilTenths
        <3> HIDE DEF n
        <3>3. up \in Int /\ up = (n + 9) \div 10
            BY <2>2 DEF n
        <3>4. n > 0 => up \in Nat
            BY <2>2, <3>3 DEF n
        <3>5. ~(n > 0) => up <= 0
            BY <2>2 DEF n
        <3> HIDE DEF up
        <3>6. CASE n > 0
            BY <3>1, <3>2, <3>3, <3>4, <3>6
        <3>7. CASE ~(n > 0)
            BY <3>1, <3>2, <3>3, <3>5, <3>7
        <3> QED BY <3>6, <3>7
    <2> QED BY <1>2, <2>1, <2>2
<1>5. hints = {0, x, y}
    BY <1>3, <1>4 DEF NoHint
<1>6. Max({0, x, y}) \in Nat /\ Max({0, x, y}) >= x /\ Max({0, x, y}) >= y
    <2>1. \E m \in {0, x, y} : \A z \in {0, x, y} : z <= m
        <3>1. CASE x <= y
            BY <3>1
        <3>2. CASE y <= x
            BY <3>2
        <3> QED BY <3>1, <3>2
    <2>2. Max({0, x, y}) \in {0, x, y} /\ \A z \in {0, x, y} : z <= Max({0, x, y})
        BY <2>1 DEF Max
    <2> QED BY <2>2
<1>7. RetryAfterHintSec(a.status, a.retryAfter, a.reset) =
          IF a.status = 429 THEN Max({0, x, y}) ELSE 0
    BY <1>5 DEF RetryAfterHintSec, NoHint, ra, re
<1>8. \A h \in {a.retryAfter, a.reset} : h = ra \/ h = re
    BY DEF ra, re
<1> HIDE DEF hints
<1> QED BY <1>3, <1>4, <1>6, <1>7, <1>8

-----------------------------------------------------------------------------
(* The attempts at a notification.                                         *)

\* DeliveryTypeOK without the delay; a redirect to be validated is within the limit,
\* and while there are attempts left the dispatch is not settled.
Framed ==
    /\ kind \in {"guarded", "resend"}
    /\ state \in {"pending", "processing", "sent", "failed"}
    /\ (state = "processing") = (fetch.pc # "none")
    /\ attempts \in 0 .. MaxAttempts
    /\ state \in {"pending", "processing"} => attempts < MaxAttempts
    /\ answer \in Answer \cup {NoAnswer}
    /\ fetch \in Fetch
    /\ fetch.pc = "recheck" => fetch.hop < MaxRedirects

\* What is connected to has passed the guard.
Guarded == \A a \in fetch.conn : ~IsPrivateAddress(a)

\* With no more attempts than there are rungs.
InTime == MaxAttempts <= 5 => delay \in 0 .. MAX_RETRY_DELAY_SEC /\ ProviderIsGivenItsTime

IInv == Framed /\ Guarded /\ GivesUpOnlyForCause /\ InTime

Why == {"no", "not ready", "private", "unresolved", "scheme"}

\* What ends the dispatch for good.
ForCause(a, why) == a.status \in (400 .. 499) \ {429} \/ why # "no"

LEMMA Limits ==
    ASSUME DeliveryAssumption
    PROVE  MaxAttempts \in Nat /\ MaxAttempts > 0 /\ MaxRedirects \in Nat
BY DEF DeliveryAssumption

\* Between two attempts there is no request.
LEMMA NoFetchFields ==
    ASSUME DeliveryAssumption, NEW why \in Why, NEW e, e = [NoFetch EXCEPT !.refused = why]
    PROVE  /\ NoFetch \in Fetch /\ NoFetch.pc = "none" /\ NoFetch.conn = {}
           /\ e \in Fetch /\ e.pc = "none" /\ e.conn = {} /\ e.refused = why
<1>1. 0 \in 0 .. MaxRedirects
    BY Limits
<1>2. /\ NoFetch.pc = "none" /\ NoFetch.method = "POST" /\ NoFetch.hop = 0
      /\ NoFetch.pinned = {} /\ NoFetch.conn = {} /\ NoFetch.refused = "no"
    BY DEF NoFetch
<1>3. NoFetch \in Fetch
    BY <1>1 DEF Fetch, NoFetch
<1>4. e = [pc |-> "none", method |-> "POST", hop |-> 0, pinned |-> {}, conn |-> {},
           refused |-> why]
    BY DEF NoFetch
<1>5. e \in Fetch
    <2>1. why \in {"no", "not ready", "private", "unresolved", "scheme"}
        BY DEF Why
    <2>2. {} \in {{}} \cup Records /\ {} \in {{}} \cup {{a} : a \in UNION Records}
        OBVIOUS
    <2>3. [pc |-> "none", method |-> "POST", hop |-> 0, pinned |-> {}, conn |-> {},
           refused |-> why] \in Fetch
        <3> DEFINE P == {{}} \cup Records
                   C == {{}} \cup {{a} : a \in UNION Records}
        <3>1. Fetch = [pc : {"none", "request", "pinned", "connected", "sent", "recheck"},
                       method : {"POST", "GET"}, hop : 0 .. MaxRedirects, pinned : P, conn : C,
                       refused : {"no", "not ready", "private", "unresolved", "scheme"}]
            BY DEF Fetch
        <3>2. {} \in P /\ {} \in C
            BY <2>2
        <3> HIDE DEF P, C
        <3> QED BY <1>1, <2>1, <3>1, <3>2
    <2> QED BY <1>4, <2>3
<1> QED BY <1>2, <1>3, <1>4, <1>5

\* Whatever ends an attempt, it is judged by the code and the answer.
LEMMA FailKeeps ==
    ASSUME DeliveryAssumption, IInv, state = "processing", NEW code,
           NEW a \in Answer \cup {NoAnswer}, Fail(code, a),
           NEW why \in Why, Ended(why), UNCHANGED kind,
           IsPermanentFailure(code) => ForCause(a, why)
    PROVE  IInv'
<1>1. /\ attempts' = attempts + 1 /\ answer' = a /\ attempts < MaxAttempts
      /\ attempts \in Nat /\ MaxAttempts \in Nat
    <2>1. attempts' = attempts + 1 /\ answer' = a
        BY DEF Fail, Counted
    <2>2. attempts \in 0 .. MaxAttempts /\ attempts < MaxAttempts
        BY DEF IInv, Framed
    <2> QED BY <2>1, <2>2, Limits
<1> DEFINE over == GivesUp(code)
           hint == RetryAfterHintSec(a.status, a.retryAfter, a.reset)
           e == [NoFetch EXCEPT !.refused = why]
<1>2. /\ over => state' = "failed" /\ delay' = 0
      /\ ~over => state' = "pending" /\ delay' = RetryDelaySec(attempts', hint)
    BY DEF Fail
<1>3. fetch' = IF state' = "pending" THEN NoFetch ELSE e
    BY DEF Ended
<1>4. /\ NoFetch \in Fetch /\ NoFetch.pc = "none" /\ NoFetch.conn = {}
      /\ e \in Fetch /\ e.pc = "none" /\ e.conn = {} /\ e.refused = why
    BY NoFetchFields
<1>5. over <=> IsPermanentFailure(code) \/ attempts + 1 >= MaxAttempts
    BY DEF GivesUp
<1> HIDE DEF over, hint, e
<1>6. Framed'
    <2>1. kind' \in {"guarded", "resend"}
        BY DEF IInv, Framed
    <2>2. /\ state' \in {"pending", "failed"}
          /\ state' = "pending" => attempts' < MaxAttempts
          /\ attempts' \in 0 .. MaxAttempts
        BY <1>1, <1>2, <1>5
    <2>3. fetch' \in Fetch /\ fetch'.pc = "none"
        BY <1>3, <1>4
    <2> QED BY <1>1, <2>1, <2>2, <2>3 DEF Framed
<1>7. Guarded'
    BY <1>3, <1>4 DEF Guarded
<1>8. GivesUpOnlyForCause'
    <2> SUFFICES ASSUME state' = "failed", attempts' < MaxAttempts
                 PROVE  a.status \in (400 .. 499) \ {429} \/ fetch'.refused # "no"
        BY <1>1 DEF GivesUpOnlyForCause
    <2>1. ForCause(a, why)
        BY <1>1, <1>2, <1>5
    <2>2. fetch'.refused = why
        BY <1>3, <1>4
    <2> QED BY <2>1, <2>2 DEF ForCause
<1>9. InTime'
    <2> SUFFICES ASSUME MaxAttempts <= 5
                 PROVE  delay' \in 0 .. MAX_RETRY_DELAY_SEC /\ ProviderIsGivenItsTime'
        BY DEF InTime
    <2>3. MAX_RETRY_DELAY_SEC \in Nat
        BY DEF MAX_RETRY_DELAY_SEC
    <2>1. CASE over
        BY <1>2, <2>3, <2>1 DEF ProviderIsGivenItsTime, Waiting
    <2>2. CASE ~over
        <3>1. attempts' \in 1 .. 5
            BY <1>1
        <3>2. hint \in Nat
            <4>1. CASE a \in Answer
                BY <4>1, HintIsEnough DEF hint
            <4>2. CASE a = NoAnswer
                BY <4>2 DEF hint, NoAnswer, RetryAfterHintSec, NoHint
            <4> QED BY <4>1, <4>2
        <3>3. /\ delay' \in 1 .. MAX_RETRY_DELAY_SEC
              /\ hint <= MAX_RETRY_DELAY_SEC => delay' >= hint
              /\ hint > MAX_RETRY_DELAY_SEC => delay' = MAX_RETRY_DELAY_SEC
            BY <1>2, <2>2, <3>1, <3>2, DelaysOfThePolicy
        <3>4. ProviderIsGivenItsTime'
            <4> SUFFICES ASSUME a.status = 429, NEW h \in {a.retryAfter, a.reset}
                         PROVE  delay' >= Min({MAX_RETRY_DELAY_SEC, Asked(h)})
                BY <1>1 DEF ProviderIsGivenItsTime
            <4>1. a \in Answer
                BY DEF NoAnswer
            <4>2. Asked(h) \in Int /\ Asked(h) <= hint
                BY <4>1, HintIsEnough DEF hint
            <4>3. Min({MAX_RETRY_DELAY_SEC, Asked(h)}) =
                      IF MAX_RETRY_DELAY_SEC <= Asked(h) THEN MAX_RETRY_DELAY_SEC ELSE Asked(h)
                BY <4>2, <2>3, MinOfTwo
            <4> QED BY <2>3, <3>2, <3>3, <4>2, <4>3
        <3> QED BY <2>3, <3>3, <3>4
    <2> QED BY <2>1, <2>2
<1> QED BY <1>6, <1>7, <1>8, <1>9 DEF IInv

LEMMA FetchFields ==
    ASSUME NEW f \in Fetch
    PROVE  /\ f = [pc |-> f.pc, method |-> f.method, hop |-> f.hop, pinned |-> f.pinned,
                   conn |-> f.conn, refused |-> f.refused]
           /\ f.method \in {"POST", "GET"} /\ f.hop \in 0 .. MaxRedirects
           /\ f.pinned \in {{}} \cup Records
           /\ f.conn \in {{}} \cup {{a} : a \in UNION Records}
           /\ f.refused \in Why
BY DEF Fetch, Why

\* The states of a request, field by field.
LEMMA InFetch ==
    ASSUME NEW pc \in {"none", "request", "pinned", "connected", "sent", "recheck"},
           NEW method \in {"POST", "GET"}, NEW hop \in 0 .. MaxRedirects,
           NEW pinned \in {{}} \cup Records, NEW conn \in {{}} \cup {{a} : a \in UNION Records},
           NEW refused \in Why
    PROVE  [pc |-> pc, method |-> method, hop |-> hop, pinned |-> pinned, conn |-> conn,
            refused |-> refused] \in Fetch
<1> DEFINE P == {{}} \cup Records
           C == {{}} \cup {{a} : a \in UNION Records}
<1>1. Fetch = [pc : {"none", "request", "pinned", "connected", "sent", "recheck"},
               method : {"POST", "GET"}, hop : 0 .. MaxRedirects, pinned : P, conn : C,
               refused : Why]
    BY DEF Fetch, Why
<1>2. pinned \in P /\ conn \in C
    OBVIOUS
<1> HIDE DEF P, C
<1> QED BY <1>1, <1>2

\* A step within an attempt.
LEMMA GoesOn ==
    ASSUME IInv, state = "processing", UNCHANGED <<kind, state, attempts, answer, delay>>,
           NEW f, f \in Fetch, fetch' = f, f.pc # "none",
           f.pc = "recheck" => f.hop < MaxRedirects,
           \A a \in f.conn : ~IsPrivateAddress(a)
    PROVE  IInv'
<1>1. Framed'
    BY DEF IInv, Framed
<1>2. Guarded' /\ GivesUpOnlyForCause' /\ ProviderIsGivenItsTime'
    BY DEF Guarded, GivesUpOnlyForCause, ProviderIsGivenItsTime, Waiting
<1>3. InTime'
    BY <1>2 DEF IInv, InTime
<1> QED BY <1>1, <1>2, <1>3 DEF IInv

LEMMA BlockKeeps ==
    ASSUME DeliveryAssumption, IInv, state = "processing", UNCHANGED kind,
           NEW why \in Why, why # "no", Block(why)
    PROVE  IInv'
<1>1. Fail(Named("ssrf-blocked"), NoAnswer) /\ Ended(why)
    BY DEF Block
<1>2. ForCause(NoAnswer, why)
    BY DEF ForCause
<1> QED BY <1>1, <1>2, FailKeeps

LEMMA NetworkErrorKeeps ==
    ASSUME DeliveryAssumption, IInv, state = "processing", UNCHANGED kind, NetworkError
    PROVE  IInv'
<1>1. Fail(Named("network"), NoAnswer) /\ Ended("no")
    BY DEF NetworkError
<1>2. ~IsPermanentFailure(Named("network"))
    BY DEF IsPermanentFailure, Named
<1>3. "no" \in Why
    BY DEF Why
<1> QED BY <1>1, <1>2, <1>3, FailKeeps

LEMMA InitDelivery == ASSUME DeliveryAssumption, DeliveryInit PROVE IInv
<1>1. NoFetch \in Fetch /\ NoFetch.pc = "none" /\ NoFetch.conn = {}
    <2>1. "no" \in Why
        BY DEF Why
    <2> QED BY <2>1, NoFetchFields
<1>2. Framed
    BY <1>1, Limits DEF DeliveryInit, Framed
<1>3. Guarded /\ GivesUpOnlyForCause /\ ProviderIsGivenItsTime
    BY <1>1 DEF DeliveryInit, Guarded, GivesUpOnlyForCause, ProviderIsGivenItsTime, Waiting
<1>4. MAX_RETRY_DELAY_SEC \in Nat
    BY DEF MAX_RETRY_DELAY_SEC
<1> QED BY <1>2, <1>3, <1>4 DEF DeliveryInit, InTime, IInv

LEMMA NextKeepsDelivery ==
    ASSUME DeliveryAssumption, IInv, [Attempt]_deliveryVars
    PROVE  IInv'
<1> USE DeliveryAssumption
<1> DEFINE f == fetch
<1>1. /\ Framed /\ fetch \in Fetch /\ Guarded
      /\ fetch.pc # "none" => state = "processing"
    BY DEF IInv, Framed
<1>2. /\ f = [pc |-> f.pc, method |-> f.method, hop |-> f.hop, pinned |-> f.pinned,
              conn |-> f.conn, refused |-> f.refused]
      /\ f.method \in {"POST", "GET"} /\ f.hop \in 0 .. MaxRedirects
      /\ f.pinned \in {{}} \cup Records
      /\ f.conn \in {{}} \cup {{a} : a \in UNION Records}
      /\ f.refused \in Why
    BY <1>1, FetchFields
<1>3. /\ "unresolved" \in Why /\ "private" \in Why /\ "scheme" \in Why /\ "not ready" \in Why
      /\ "no" \in Why
    BY DEF Why
<1>4. CASE Start
    <2>1. state = "pending" /\ fetch' = [NoFetch EXCEPT !.pc = fetch'.pc]
          /\ fetch'.pc \in {"sent", "request"}
          /\ state' = "processing" /\ answer' = NoAnswer /\ delay' = 0
          /\ UNCHANGED <<kind, attempts>>
        BY <1>4 DEF Start, NoFetch
    <2>2. fetch' = [pc |-> fetch'.pc, method |-> "POST", hop |-> 0, pinned |-> {}, conn |-> {},
                    refused |-> "no"]
        BY <2>1 DEF NoFetch
    <2>3. fetch' \in Fetch
        <3> DEFINE pc == fetch'.pc
                   e == [pc |-> pc, method |-> "POST", hop |-> 0, pinned |-> {}, conn |-> {},
                         refused |-> "no"]
        <3>1. 0 \in 0 .. MaxRedirects
            BY Limits
        <3>2. {} \in {{}} \cup Records /\ {} \in {{}} \cup {{a} : a \in UNION Records}
            OBVIOUS
        <3>3. fetch' = e
            BY <2>2
        <3>4. pc \in {"none", "request", "pinned", "connected", "sent", "recheck"}
            BY <2>1
        <3> HIDE DEF pc
        <3>5. e \in Fetch
            BY <1>3, <3>1, <3>2, <3>4, InFetch
        <3> QED BY <3>3, <3>5
    <2>4. fetch'.conn = {} /\ fetch'.hop = 0
        BY <2>2
    <2>5. Framed'
        BY <1>1, <2>1, <2>3 DEF Framed
    <2>6. Guarded' /\ GivesUpOnlyForCause' /\ ProviderIsGivenItsTime'
        BY <2>1, <2>4 DEF Guarded, GivesUpOnlyForCause, ProviderIsGivenItsTime, Waiting
    <2>7. MAX_RETRY_DELAY_SEC \in Nat
        BY DEF MAX_RETRY_DELAY_SEC
    <2> QED BY <2>1, <2>5, <2>6, <2>7 DEF IInv, InTime
<1>5. ASSUME NEW name, NotReady(name)
      PROVE  IInv'
    <2>1. /\ fetch.pc # "none" /\ Fail(Named(name), NoAnswer) /\ Ended("not ready")
          /\ UNCHANGED kind
        BY <1>5 DEF NotReady
    <2>2. ForCause(NoAnswer, "not ready")
        BY DEF ForCause
    <2> QED BY <1>1, <1>3, <2>1, <2>2, FailKeeps
<1>6. CASE Lookup
    <2>1. fetch.pc = "request" /\ UNCHANGED kind /\ state = "processing"
        BY <1>1, <1>6 DEF Lookup
    <2>2. CASE Block("unresolved") \/ Block("private") \/ Block("scheme")
        BY <1>3, <2>1, <2>2, BlockKeeps
    <2>3. ASSUME NEW records \in Records,
                 fetch' = [fetch EXCEPT !.pc = "pinned", !.pinned = records],
                 UNCHANGED <<state, attempts, answer, delay>>
          PROVE  IInv'
        <3> DEFINE e == [pc |-> "pinned", method |-> f.method, hop |-> f.hop, pinned |-> records,
                         conn |-> f.conn, refused |-> f.refused]
        <3>1. fetch' = e
            <4> DEFINE g == [f EXCEPT !.pc = "pinned"]
            <4>1. g = [pc |-> "pinned", method |-> f.method, hop |-> f.hop,
                       pinned |-> f.pinned, conn |-> f.conn, refused |-> f.refused]
                BY <1>2
            <4>2. [g EXCEPT !.pinned = records] = e
                <5> HIDE DEF g
                <5> QED BY <4>1
            <4> QED BY <2>3, <4>2
        <3>2. e \in Fetch
            <4>1. records \in {{}} \cup Records
                OBVIOUS
            <4> HIDE DEF f
            <4> QED BY <1>2, <4>1, InFetch
        <3>3. e.pc = "pinned" /\ e.conn = f.conn
            OBVIOUS
        <3> HIDE DEF e
        <3> QED BY <1>1, <2>1, <2>3, <3>1, <3>2, <3>3, GoesOn DEF Guarded
    <2> QED BY <1>6, <2>2, <2>3 DEF Lookup
<1>7. CASE Connect
    <2>1. fetch.pc = "pinned" /\ UNCHANGED kind /\ state = "processing"
        BY <1>1, <1>7 DEF Connect
    <2>2. CASE NetworkError
        BY <2>1, <2>2, NetworkErrorKeeps
    <2>3. ASSUME NEW want, NEW a \in Usable(want),
                 fetch' = [fetch EXCEPT !.pc = "connected", !.pinned = {}, !.conn = {a}],
                 UNCHANGED <<state, attempts, answer, delay>>
          PROVE  IInv'
        <3> DEFINE e == [pc |-> "connected", method |-> f.method, hop |-> f.hop, pinned |-> {},
                         conn |-> {a}, refused |-> f.refused]
        <3>1. fetch' = e
            BY <1>2, <2>3
        <3>2. a \in fetch.pinned /\ ~IsPrivateAddress(a)
            BY DEF Usable
        <3>3. {a} \in {{}} \cup {{x} : x \in UNION Records}
            BY <1>2, <3>2
        <3>4. e \in Fetch
            <4>1. {} \in {{}} \cup Records
                OBVIOUS
            <4> HIDE DEF f
            <4> QED BY <1>2, <3>3, <4>1, InFetch
        <3>5. e.pc = "connected" /\ e.conn = {a}
            OBVIOUS
        <3> HIDE DEF e
        <3> QED BY <2>1, <2>3, <3>1, <3>2, <3>4, <3>5, GoesOn
    <2> QED BY <1>7, <2>2, <2>3 DEF Connect
<1>8. CASE Send
    <2>1. /\ fetch.pc = "connected" /\ UNCHANGED <<kind, state, attempts, answer, delay>>
          /\ fetch' = [fetch EXCEPT !.pc = "sent", !.conn = {}] /\ state = "processing"
        BY <1>1, <1>8 DEF Send
    <2> DEFINE e == [pc |-> "sent", method |-> f.method, hop |-> f.hop, pinned |-> f.pinned,
                     conn |-> {}, refused |-> f.refused]
    <2>2. fetch' = e
        BY <1>2, <2>1
    <2>3. e \in Fetch /\ e.pc = "sent" /\ e.conn = {}
        <3>1. {} \in {{}} \cup {{a} : a \in UNION Records}
            OBVIOUS
        <3> HIDE DEF f
        <3> QED BY <1>2, <3>1, InFetch
    <2> HIDE DEF e
    <2> QED BY <2>1, <2>2, <2>3, GoesOn
<1>9. ASSUME NEW a \in Answer, Receive(a)
      PROVE  IInv'
    <2>1. fetch.pc = "sent" /\ UNCHANGED kind /\ state = "processing" /\ Ended("no")
        BY <1>1, <1>9 DEF Receive
    <2>2. CASE Deliver
        <3> DEFINE e == [NoFetch EXCEPT !.refused = "no"]
        <3>1. /\ state' = "sent" /\ delay' = 0 /\ answer' = NoAnswer /\ attempts' = attempts + 1
              /\ fetch' = e
            BY <2>1, <2>2 DEF Deliver, Ended
        <3>2. e \in Fetch /\ e.pc = "none" /\ e.conn = {}
            BY <1>3, NoFetchFields
        <3> HIDE DEF e
        <3>3. attempts \in 0 .. MaxAttempts /\ attempts < MaxAttempts
            BY <1>1, <2>1 DEF Framed
        <3>4. attempts' \in 0 .. MaxAttempts
            BY <3>1, <3>3, Limits
        <3>5. Framed'
            BY <1>1, <2>1, <3>1, <3>2, <3>4 DEF Framed
        <3>6. Guarded' /\ GivesUpOnlyForCause' /\ ProviderIsGivenItsTime'
            BY <3>1, <3>2 DEF Guarded, GivesUpOnlyForCause, ProviderIsGivenItsTime, Waiting
        <3>7. MAX_RETRY_DELAY_SEC \in Nat
            BY DEF MAX_RETRY_DELAY_SEC
        <3> QED BY <3>1, <3>5, <3>6, <3>7 DEF IInv, InTime
    <2>3. CASE Fail(Http(a.status), a)
        <3>1. IsPermanentFailure(Http(a.status)) => ForCause(a, "no")
            BY DEF IsPermanentFailure, Http, ForCause
        <3> QED BY <1>3, <2>1, <2>3, <3>1, FailKeeps
    <2> QED BY <1>9, <2>2, <2>3 DEF Receive
<1>10. ASSUME NEW status, Redirect(status)
       PROVE  IInv'
    <2>1. fetch.pc = "sent" /\ UNCHANGED kind /\ state = "processing"
        BY <1>1, <1>10 DEF Redirect
    <2>2. CASE NetworkError
        BY <2>1, <2>2, NetworkErrorKeeps
    <2>3. CASE Block("scheme")
        BY <1>3, <2>1, <2>3, BlockKeeps
    <2>4. ASSUME fetch.hop < MaxRedirects,
                 fetch' = [fetch EXCEPT !.pc = "recheck", !.method = NextMethod(status)],
                 UNCHANGED <<state, attempts, answer, delay>>
          PROVE  IInv'
        <3> DEFINE m == NextMethod(status)
                   e == [pc |-> "recheck", method |-> m, hop |-> f.hop,
                         pinned |-> f.pinned, conn |-> f.conn, refused |-> f.refused]
        <3>1. m \in {"POST", "GET"}
            BY <1>2 DEF NextMethod
        <3>2. fetch' = e
            BY <1>2, <2>4
        <3> HIDE DEF m
        <3>3. e \in Fetch
            BY <1>2, <3>1, InFetch
        <3>4. e.pc = "recheck" /\ e.hop = fetch.hop /\ e.conn = fetch.conn
            OBVIOUS
        <3> HIDE DEF e
        <3> QED BY <1>1, <2>1, <2>4, <3>2, <3>3, <3>4, GoesOn DEF Guarded
    <2> QED BY <1>10, <2>2, <2>3, <2>4 DEF Redirect
<1>11. CASE Recheck
    <2>1. fetch.pc = "recheck" /\ UNCHANGED kind /\ state = "processing"
        BY <1>1, <1>11 DEF Recheck
    <2>2. CASE Block("unresolved") \/ Block("private")
        BY <1>3, <2>1, <2>2, BlockKeeps
    <2>3. ASSUME fetch' = [fetch EXCEPT !.pc = "request", !.hop = @ + 1],
                 UNCHANGED <<state, attempts, answer, delay>>
          PROVE  IInv'
        <3> DEFINE h == f.hop + 1
                   e == [pc |-> "request", method |-> f.method, hop |-> h,
                         pinned |-> f.pinned, conn |-> f.conn, refused |-> f.refused]
        <3>1. h \in 0 .. MaxRedirects
            <4>1. fetch.hop < MaxRedirects
                BY <1>1, <2>1 DEF Framed
            <4> QED BY <1>2, <4>1, Limits
        <3>2. fetch' = e
            BY <1>2, <2>3
        <3> HIDE DEF h
        <3>3. e \in Fetch
            BY <1>2, <3>1, InFetch
        <3>4. e.pc = "request" /\ e.conn = fetch.conn
            OBVIOUS
        <3> HIDE DEF e
        <3> QED BY <1>1, <2>1, <2>3, <3>2, <3>3, <3>4, GoesOn DEF Guarded
    <2> QED BY <1>11, <2>2, <2>3 DEF Recheck
<1>12. CASE RequestFails
    <2>1. UNCHANGED kind /\ state = "processing" /\ NetworkError
        BY <1>1, <1>12 DEF RequestFails
    <2> QED BY <2>1, NetworkErrorKeeps
<1>13. CASE UNCHANGED deliveryVars
    <2>1. Framed'
        BY <1>1, <1>13 DEF deliveryVars, Framed
    <2>2. Guarded' /\ GivesUpOnlyForCause'
        BY <1>13 DEF deliveryVars, IInv, Guarded, GivesUpOnlyForCause
    <2>3. InTime'
        BY <1>13 DEF deliveryVars, IInv, InTime, ProviderIsGivenItsTime, Waiting
    <2> QED BY <2>1, <2>2, <2>3 DEF IInv
<1> QED BY <1>4, <1>5, <1>6, <1>7, <1>8, <1>9, <1>10, <1>11, <1>12, <1>13 DEF Attempt

\* The invariant of the attempts holds in every state.
LEMMA DeliveryAlways == DeliverySpec => []IInv
<1>1. DeliveryInit => IInv
    BY DeliveryAssumption, InitDelivery
<1>2. IInv /\ [Attempt]_deliveryVars => IInv'
    BY DeliveryAssumption, NextKeepsDelivery
<1> QED BY <1>1, <1>2, PTL DEF DeliverySpec

\* No connection is made to an address of a reserved network, whatever the
\* lookups answer and however often they change their answer between the
\* validation, the pinning and the next hop.
THEOREM OnlyPublicIsConnected == DeliverySpec => []ConnectedIsPublic
<1>1. IInv => ConnectedIsPublic
    <2> SUFFICES ASSUME IInv, NEW a \in fetch.conn
                 PROVE  ~Reserved(a)
        BY DEF ConnectedIsPublic
    <2>1. ~IsPrivateAddress(a)
        BY DEF IInv, Guarded
    <2>2. a \in IpAddress
        <3>1. fetch \in Fetch
            BY DEF IInv, Framed
        <3>2. fetch.conn \in {{}} \cup {{x} : x \in UNION Records}
            BY <3>1, FetchFields
        <3> QED BY <3>2, DeliveryAssumption DEF DeliveryAssumption
    <2> QED BY <2>1, <2>2, GuardIsExact
<1> QED BY <1>1, DeliveryAlways, PTL

\* Every state of an attempt is well-typed, with at most as many attempts as the
\* ladder has rungs.
THEOREM AttemptsAreTyped == ASSUME MaxAttempts <= 5
                            PROVE  DeliverySpec => []DeliveryTypeOK
<1>1. IInv => DeliveryTypeOK
    BY DEF IInv, Framed, InTime, DeliveryTypeOK
<1> QED BY <1>1, DeliveryAlways, PTL

\* A notification is given up before its last attempt only for a failure that
\* will not fix itself.
THEOREM GivenUpOnlyForCause == DeliverySpec => []GivesUpOnlyForCause
<1>1. IInv => GivesUpOnlyForCause
    BY DEF IInv
<1> QED BY <1>1, DeliveryAlways, PTL

\* A provider that answers 429 is not asked again before either of its headers
\* allows it, up to an hour, with at most as many attempts as the ladder has
\* rungs.
THEOREM RateLimitsAreRespected == ASSUME MaxAttempts <= 5
                                  PROVE  DeliverySpec => []ProviderIsGivenItsTime
<1>1. IInv => ProviderIsGivenItsTime
    BY DEF IInv, InTime
<1> QED BY <1>1, DeliveryAlways, PTL

-----------------------------------------------------------------------------
(* The work loop.                                                          *)

\* Work that is not due yet has not been slept over.
FreshUnslept == \A x \in Work : work[x] \in {"absent", "open"} => waits[x] = 0

\* The loop has looked at the feeds and found none: those due now are new.
PollFoundNothing ==
    phase = "dispatch" /\ ~did => \A x \in DueOf("poll") : waits[x] = 0

\* The loop is about to sleep: whatever is due now is new.
RoundFoundNothing == phase = "decide" /\ ~did => \A x \in Due : waits[x] = 0

SleepInv ==
    /\ TypeOK /\ FreshUnslept /\ PollFoundNothing /\ RoundFoundNothing
    /\ AtMostOneIdleSleep

\* An empty batch means that nothing of its kind was due.
LEMMA EmptyBatch ==
    ASSUME NEW k, NEW size \in Nat \ {0}, {} \in Batches(k, size)
    PROVE  DueOf(k) = {}
<1>1. Cardinality({}) = 0
  BY FS_EmptySet
<1>2. CASE Cardinality(DueOf(k)) <= size
  BY <1>2 DEF Batches
<1>3. CASE ~(Cardinality(DueOf(k)) <= size)
  BY <1>1, <1>3 DEF Batches
<1> QED
  BY <1>2, <1>3

\* Finishing a batch makes nothing due that was not.
LEMMA FinishEffect ==
    ASSUME TypeOK, NEW B \in SUBSET Due, Finish(B)
    PROVE  /\ work' \in [Work -> WorkState]
           /\ faults' \in Nat
           /\ Due' \subseteq Due
           /\ \A x \in Work : work'[x] \in {"absent", "open"} => work'[x] = work[x]
<1>1. PICK left \in SUBSET B :
        /\ IF left = {} THEN UNCHANGED faults ELSE Fails
        /\ work' = [x \in Work |-> IF x \in B \ left THEN "done" ELSE work[x]]
  BY DEF Finish
<1>2. faults' \in Nat
  BY <1>1 DEF Fails, TypeOK
<1> QED
  BY <1>1, <1>2 DEF TypeOK, WorkState, Due

LEMMA SleepInitially == Init => SleepInv
<1> SUFFICES ASSUME Init PROVE SleepInv
  OBVIOUS
<1>1. TypeOK
  BY WakeUpAssumption DEF Init, TypeOK, Phase, WorkState, NoteState
<1>2. FreshUnslept /\ PollFoundNothing /\ RoundFoundNothing
  BY DEF Init, FreshUnslept, PollFoundNothing, RoundFoundNothing
<1>3. AtMostOneIdleSleep
  BY DEF Init, AtMostOneIdleSleep, Due
<1> QED
  BY <1>1, <1>2, <1>3 DEF SleepInv

LEMMA SleepStep == SleepInv /\ [Next]_vars => SleepInv'
<1> SUFFICES ASSUME SleepInv, [Next]_vars PROVE SleepInv'
  OBVIOUS
<1> USE DEF SleepInv
\* Work that falls due is new, and its state is all that matters here.
<1>1. ASSUME NEW x \in Work, FallDue(x) \/ CommitWithNote(x) \/ Open(x) \/ Commit(x)
      PROVE  SleepInv'
  <2>1. /\ UNCHANGED <<phase, did, waits, faults>>
        /\ \E s \in {"open", "due"} : work' = [work EXCEPT ![x] = s]
        /\ note' \in [Work -> NoteState]
        /\ work[x] \in {"absent", "open"}
    BY <1>1 DEF FallDue, CommitWithNote, Open, Commit, TypeOK, NoteState
  <2>2. TypeOK'
    BY <2>1 DEF TypeOK, WorkState
  <2>3. FreshUnslept'
    BY <2>1 DEF FreshUnslept, TypeOK
  <2>4. \A y \in Due' : y \in Due \/ waits[y] = 0
    BY <2>1 DEF FreshUnslept, TypeOK, Due
  <2>5. PollFoundNothing' /\ RoundFoundNothing' /\ AtMostOneIdleSleep'
    BY <2>1, <2>4 DEF PollFoundNothing, RoundFoundNothing, AtMostOneIdleSleep, DueOf, TypeOK
  <2> QED
    BY <2>2, <2>3, <2>5
<1>2. ASSUME NEW x \in Work, Notify(x) \/ NoteIsLost(x)
      PROVE  SleepInv'
  BY <1>2 DEF Notify, NoteIsLost, Fails, TypeOK, NoteState, FreshUnslept,
     PollFoundNothing, RoundFoundNothing, AtMostOneIdleSleep, Due, DueOf
<1>3. ASSUME NEW x \in Work, Kick(x)
      PROVE  SleepInv'
  <2>1. TypeOK'
    BY <1>3 DEF Kick, TypeOK, Phase, NoteState
  <2> QED
    BY <1>3, <2>1 DEF Kick, FreshUnslept, PollFoundNothing, RoundFoundNothing,
       AtMostOneIdleSleep, Due, DueOf
<1>4. CASE PollDueFeeds
  <2>1. PICK B \in Batches("poll", PollBatch) : Finish(B) /\ did' = (B # {})
    BY <1>4 DEF PollDueFeeds
  <2>2. B \in SUBSET Due
    BY <2>1 DEF Batches, DueOf
  <2>3. /\ work' \in [Work -> WorkState] /\ faults' \in Nat /\ Due' \subseteq Due
        /\ \A x \in Work : work'[x] \in {"absent", "open"} => work'[x] = work[x]
    BY <2>1, <2>2, FinishEffect
  <2>4. TypeOK'
    BY <1>4, <2>1, <2>3 DEF PollDueFeeds, TypeOK, Phase
  <2>5. PollFoundNothing'
    BY <1>4, <2>1, <2>3, EmptyBatch, WakeUpAssumption DEF PollDueFeeds, PollFoundNothing, DueOf
  <2>6. FreshUnslept' /\ RoundFoundNothing' /\ AtMostOneIdleSleep'
    BY <1>4, <2>3 DEF PollDueFeeds, FreshUnslept, RoundFoundNothing, AtMostOneIdleSleep
  <2> QED
    BY <2>4, <2>5, <2>6
<1>5. CASE DispatchPending
  <2>1. PICK B \in Batches("dispatch", DispatchBatch) :
          Finish(B) /\ did' = (did \/ B # {})
    BY <1>5 DEF DispatchPending
  <2>2. B \in SUBSET Due
    BY <2>1 DEF Batches, DueOf
  <2>3. /\ work' \in [Work -> WorkState] /\ faults' \in Nat /\ Due' \subseteq Due
        /\ \A x \in Work : work'[x] \in {"absent", "open"} => work'[x] = work[x]
    BY <2>1, <2>2, FinishEffect
  <2>4. TypeOK'
    <3>1. did' \in BOOLEAN
      BY <2>1 DEF TypeOK
    <3> QED
      BY <1>5, <2>3, <3>1 DEF DispatchPending, TypeOK, Phase
  <2>5. RoundFoundNothing'
    <3> SUFFICES ASSUME ~did', NEW x \in Due' PROVE waits'[x] = 0
      BY DEF RoundFoundNothing
    <3>1. B = {} /\ ~did
      BY <2>1
    <3>2. DueOf("dispatch") = {}
      BY <3>1, EmptyBatch, WakeUpAssumption
    <3>3. x \in Due /\ KindOf[x] \in {"poll", "dispatch"}
      BY <2>3, WakeUpAssumption DEF Due
    <3>4. x \in DueOf("poll")
      BY <3>2, <3>3 DEF DueOf
    <3> QED
      BY <1>5, <3>1, <3>4 DEF DispatchPending, PollFoundNothing
  <2>6. FreshUnslept' /\ PollFoundNothing' /\ AtMostOneIdleSleep'
    BY <1>5, <2>3 DEF DispatchPending, FreshUnslept, PollFoundNothing, AtMostOneIdleSleep
  <2> QED
    BY <2>4, <2>5, <2>6
<1>6. CASE Sleep
  <2>1. TypeOK'
    BY <1>6 DEF Sleep, TypeOK, Phase
  <2>2. FreshUnslept'
    BY <1>6 DEF Sleep, FreshUnslept, Due, TypeOK
  <2>3. AtMostOneIdleSleep'
    BY <1>6 DEF Sleep, RoundFoundNothing, AtMostOneIdleSleep, Due, TypeOK
  <2> QED
    BY <1>6, <2>1, <2>2, <2>3 DEF Sleep, PollFoundNothing, RoundFoundNothing
<1>7. CASE GoOn \/ Timeout \/ Restart \/ RoundFails \/ Crash
  <2>1. TypeOK'
    BY <1>7 DEF GoOn, Timeout, Restart, RoundFails, Crash, Fails, TypeOK, Phase
  <2> QED
    BY <1>7, <2>1 DEF GoOn, Timeout, Restart, RoundFails, Crash, FreshUnslept,
       PollFoundNothing, RoundFoundNothing, AtMostOneIdleSleep, Due
<1>8. CASE UNCHANGED vars
  BY <1>8 DEF vars, TypeOK, FreshUnslept, PollFoundNothing, RoundFoundNothing,
     AtMostOneIdleSleep, Due, DueOf
<1> QED
  BY <1>1, <1>2, <1>3, <1>4, <1>5, <1>6, <1>7, <1>8 DEF Next, Loop

\* Work that is due sits through at most one idle sleep of the work loop:
\* lost kicks, failed rounds and restarts cannot make it wait for two.
THEOREM OneIdleSleepAtMost == Spec => []AtMostOneIdleSleep
<1>1. SleepInv => AtMostOneIdleSleep
  BY DEF SleepInv
<1> QED
  BY <1>1, SleepInitially, SleepStep, PTL DEF Spec
=============================================================================
