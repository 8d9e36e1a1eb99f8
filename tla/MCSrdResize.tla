---------------------------- MODULE MCSrdResize ----------------------------
(* Instances of SrdResize for TLC: a chain of two parts, sectors of 48 bits *)
(* (four 12 bit or three 16 bit FAT entries), disks of 8 to 13 sectors.     *)
EXTENDS SrdResize

Live(name, c) == [file |-> name, clusters |-> c, gone |-> FALSE]
Gone(name, c) == [file |-> name, clusters |-> c, gone |-> TRUE]

XmsEms == <<"xms", "ems">>
EmsXms == <<"ems", "xms">>
McMaxK == <<16, 16>>
McDisks == [size : {8, 11, 13}, fats : {1, 2}, dirs : {1, 2}]

\* Fragmented files, a deleted one between others, an empty one.
McLayouts == { <<Live("a", <<2, 4>>), Live("b", <<3>>)>>,
               <<Live("a", <<2>>), Gone("d", <<4>>), Live("b", <<6, 5>>)>>,
               <<Live("a", <<>>), Live("b", <<8, 3>>)>> }
\* The first entry is that of a deleted file whose cluster is in use again.
DeletedFirst == {<<Gone("d", <<2>>), Live("a", <<2, 3>>), Live("b", <<4>>)>>}

McSplits == {<<8, 0>>, <<4, 4>>, <<11, 2>>, <<0, 12>>, <<5, 8>>}
EmsSplits == {<<8, 0>>, <<4, 4>>, <<8, 3>>, <<4, 9>>}
McFree == [xms : {0, 3, 16}, ems : {0, 4}]
=============================================================================
