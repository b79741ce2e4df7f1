---------------------------- MODULE MCDiscovery ----------------------------
(* Discovery on listings in which every branch of the resolution is taken.  *)
EXTENDS Discovery, TLC

CONSTANTS d1, d2, d3

West == [id |-> <<"id1">>, name |-> <<"west", "ltd">>, usable |-> TRUE]
WestBank == [id |-> <<"id2">>, name |-> <<"west", "bank">>, usable |-> TRUE]
Renamed == [id |-> <<"id1">>, name |-> <<"the", "west", "bank">>, usable |-> TRUE]
JustBank == [id |-> <<"id3">>, name |-> <<"bank">>, usable |-> TRUE]
Broken == [id |-> <<"id1">>, name |-> <<"west">>, usable |-> FALSE]
Host == [id |-> <<"fallback:west">>, name |-> <<"api", "west", "au">>, usable |-> TRUE]

MCPublished == {<<Broken>>, <<West, JustBank>>, <<WestBank, West>>,
                <<WestBank, Broken, Renamed>>}
MCFallbackLists == {<< >>, <<Host>>}
MCAllowlists == {<< >>, << <<"the", "west">>, <<"bank">> >>, << <<"west", "bank">>, <<"id1">> >>}
MCNoise == {"the", "ltd"}
MCTooGeneric == {<<"bank">>}
Alike == Permutations(Discoveries)
=============================================================================
