---------------------------- MODULE MCDelivery ----------------------------
(* Header values on both sides of every boundary of the retry policy, and   *)
(* addresses on both sides of every boundary of the guard, alone and with a *)
(* routable one beside them.                                                *)
EXTENDS Delivery

EdgeSeconds == {-5, 0, 1, 59, 60, 61, 1500, 3599, 3600, 3601}
EdgeTenths == {-1, 0, 1, 9, 10, 11, 605, 35999, 36001}

EdgeOctets ==
    {<<a, b, c, c>> : a \in {0, 10, 127, 223, 224, 255}, b \in {0}, c \in {1}} \cup
    {<<p[1], p[2], 255, 255>> :
        p \in {<<9, 255>>, <<11, 0>>, <<126, 255>>, <<128, 0>>, <<1, 0>>,
               <<169, 253>>, <<169, 254>>, <<169, 255>>, <<172, 15>>, <<172, 16>>,
               <<172, 31>>, <<172, 32>>, <<192, 167>>, <<192, 168>>, <<192, 169>>,
               <<100, 63>>, <<100, 64>>, <<100, 127>>, <<100, 128>>,
               <<198, 17>>, <<198, 18>>, <<198, 19>>, <<198, 20>>}}

EdgeGroups ==
    {V6(<<>>, TRUE, <<>>, <<>>), V6(<<>>, TRUE, <<1>>, <<>>),
     V6(<<0, 0, 0, 0, 0, 0, 0>>, TRUE, <<1>>, <<>>),
     V6(<<65151>>, TRUE, <<1>>, <<>>), V6(<<65152>>, TRUE, <<1>>, <<>>),
     V6(<<65215>>, TRUE, <<1>>, <<>>), V6(<<65216>>, TRUE, <<1>>, <<>>),
     V6(<<64511>>, TRUE, <<1>>, <<>>), V6(<<64512>>, TRUE, <<1>>, <<>>),
     V6(<<65023>>, TRUE, <<1>>, <<>>), V6(<<65280>>, TRUE, <<1>>, <<>>),
     V6(<<9735, 63488>>, TRUE, <<>>, <<>>),
     V6(<<8194, 2560, 1>>, TRUE, <<>>, <<>>), V6(<<8194, 2303, 1>>, TRUE, <<>>, <<>>)} \cup
    {V6(head, TRUE, <<>>, o) : head \in {<<>>, <<0, 0, 0, 0, 0, 65535>>, <<100, 65435>>},
                               o \in {<<10, 0, 0, 1>>, <<172, 31, 0, 1>>, <<8, 8, 8, 8>>}} \cup
    {V6(<<0, 0, 0, 0, 0, 65535>>, FALSE, <<>>, o) : o \in {<<10, 0, 0, 1>>, <<8, 8, 8, 8>>}}

EdgeAddress == {V4(o) : o \in EdgeOctets} \cup EdgeGroups
Dns == V4(<<9, 9, 9, 9>>)
EdgeRecords == {{a} : a \in EdgeAddress} \cup {{a, Dns} : a \in EdgeAddress}
=============================================================================
