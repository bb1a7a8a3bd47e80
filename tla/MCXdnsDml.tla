----------------------------- MODULE MCXdnsDml -----------------------------
(* Small instances of XdnsDml.                                             *)
EXTENDS XdnsDml, TLC

\* "m2/x" is a masked MAC that begins with m2; "wide" is a tag that an entry has
\* room for unless the IPv6 address is written out, and "long" one it has not;
\* sscanf reads the two in pieces of 63 characters
Words == {"dnsoverride", "empty", "00", "m2", "m2/x", "M2/X", "bad",
          "a4", "c4", "x.4", "a6", "c6", "x:6", "t", "wide", "long",
          "piece", "rest"}

MCLower == [w \in Words \cup {""} |-> IF w = "M2/X" THEN "m2/x" ELSE w]

MCWidth == [w \in Words \cup {""} |->
              CASE w = "" -> 0
                [] w = "dnsoverride" -> 11
                [] w = "piece" -> 63
                [] w \in {"m2/x", "M2/X"} -> 35
                [] w = "c6" -> 39 [] w = "wide" -> 180 [] w = "long" -> 200
                [] OTHER -> 17]
MCPieces == [w \in Words |->
               CASE w = "wide" -> <<"piece", "piece", "rest">>
                 [] w = "long" -> <<"piece", "piece", "piece", "rest">>
                 [] OTHER -> <<w>>]
MCParts == [w \in Words |->
              {w} \cup (IF w = "m2/x" THEN {"m2"} ELSE {})
                  \cup (IF w \in {"wide", "long"} THEN {"piece", "rest"} ELSE {})]

Primary == <<"dnsoverride", "00", "a4", "a6", "t">>
Device(m) == <<"dnsoverride", m, "a4", "a6", "wide">>
\* an address that has a dot but is refused
Mistyped == <<"dnsoverride", "00", "x.4", "a6", "t">>
\* as in the IPv4-only format: no IPv6 word
OldDevice(m) == <<"dnsoverride", m, "a4">>

NothingFor(F) == [f \in F |-> {}]

FaultyDefaults == [v4 |-> {"c4", "bad"}, v6 |-> {"c6", TooLong}, s4 |-> {},
                   s6 |-> {"a6"}, tag |-> {"long"}]
GoodDefaults == [v4 |-> {"a4", "c4", ""}, v6 |-> {"a6", "c6", ""}, s4 |-> {"a4", ""},
                 s6 |-> {"a6", ""}, tag |-> {"t", "long"}]
SomeRows == [mac |-> {"M2/X", "00"}, v4 |-> {"c4"}, v6 |-> {"c6", "bad"}, tag |-> {}]
NoDefaultsIn == NothingFor(DefaultFields)
NoRowsIn == NothingFor(RowFields)

BothServers == {[v4 |-> "a4", v6 |-> "a6"]}
SomeServers == {[v4 |-> "a4", v6 |-> "a6"], [v4 |-> "c4", v6 |-> ""]}

FewConfs == {<< >>, <<Mistyped, Device("m2")>>, <<OldDevice("00"), OldDevice("00")>>}
WellFormedConfs == {<< >>, <<Primary>>}
OneConf == {<<Primary, Device("m2")>>}

=============================================================================
