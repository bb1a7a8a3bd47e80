-------------------------- MODULE MCXdnsWebconfig --------------------------
(* Small instances of XdnsWebconfig.                                       *)
EXTENDS XdnsWebconfig, TLC

\* "wide" is a tag that a line has room for and the cache has not: sscanf reads
\* it in two pieces
Words == {"dnsoverride", "empty", "use", "00", "m1", "m2", "a4", "c4", "l4", "a6", "c6", "l6",
          "t", "wide", "piece", "rest", "junk"}

MCLower == [w \in Words \cup {""} |-> w]
MCWidth == [w \in Words \cup {""} |->
              CASE w = "" -> 0
                [] w = "dnsoverride" -> 11
                [] w = "wide" -> 80 [] w = "piece" -> 63
                [] OTHER -> 17]
MCParts == [w \in Words |-> IF w = "wide" THEN {w, "piece", "rest"} ELSE {w}]
MCPieces == [w \in Words |-> IF w = "wide" THEN <<"piece", "rest">> ELSE <<w>>]

Tagged(m, tag) == <<"dnsoverride", m, "a4", "a6", tag>>
Line4(m) == Tagged(m, "t")

NothingFor(F) == [f \in F |-> {}]
NoDefaultsIn == NothingFor(DefaultFields)
NoRowsIn == NothingFor(RowFields)
NewPrimary == [NoDefaultsIn EXCEPT !["v4"] = {"c4"}]

DualServers == {[v4 |-> "a4", v6 |-> "a6"]}
\* the second is MAP-T, with the IPv6 resolvers in front
TwoServers == DualServers \cup {[v4 |-> "", v6 |-> "a6"]}
Servers == [v4 : V4 \cup {""}, v6 : V6 \cup {""}]
AllLists == [ns \in Servers |->
               IF ns.v4 = "" THEN <<"a6", "a6">> ELSE <<"a4", "a4", "a6", "a6">>]
DualLists == [ns \in Servers |-> <<"a4", "a4", "a6", "a6">>]

Confs == {<<Line4("00"), Line4("m1")>>, <<Line4("00")>>}
WideConfs == Confs \cup {<<Line4("00"), Tagged("m1", "wide"), Line4("m2")>>,
                         <<Tagged("00", "wide"), Line4("m1")>>}
OneConf == {<<Line4("00")>>}

Doc(on, v4, v6, table) == [enable |-> on, v4 |-> v4, v6 |-> v6, tag |-> "t", table |-> table]
Device(m, v4, v6) == [mac |-> m, v4 |-> v4, v6 |-> v6, tag |-> "t"]

OnDoc == Doc(TRUE, "c4", "c6", <<Device("m2", "c4", "c6"), Device("m1", "a4", "c6")>>)
OffDoc == Doc(FALSE, "a4", "a6", << >>)
DeviceDoc == Doc(TRUE, "use", "c6", <<Device("m1", "c4", "a6")>>)
BadMacDoc == Doc(TRUE, "c4", "c6", <<Device("m2", "c4", "c6"), Device("junk", "c4", "c6")>>)
BadIpDoc == Doc(FALSE, "junk", "c6", << >>)
FamilyDoc == Doc(TRUE, "a6", "a4", <<Device("m1", "c4", "c6")>>)
\* the tag was decoded before the MAC
NoMacDoc == Doc(TRUE, "c4", "c6", <<Device(Missing, Missing, Missing)>>)
NoAddressDoc == Doc(TRUE, "c4", "c6", <<Device("m1", "c4", Missing)>>)
WideDoc == [OffDoc EXCEPT !.tag = "wide"]

GoodDocs == {OnDoc, OffDoc, BadMacDoc, BadIpDoc, NoAddressDoc, Doc(TRUE, "c4", Missing, << >>)}
RaceDocs == {FamilyDoc, NoMacDoc}
RefusedDocs == {BadMacDoc, OffDoc}
AnyDeviceDocs == {DeviceDoc, Doc(FALSE, "use", "use", << >>), FamilyDoc, WideDoc}

=============================================================================
