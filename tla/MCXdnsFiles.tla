---------------------------- MODULE MCXdnsFiles ----------------------------
(* Small instances of XdnsFiles.                                           *)
EXTENDS XdnsFiles, TLC

Words == {"dnsoverride", "empty", "00", "m1", "m2", "a4", "c4", "x.4", "a6", "t"}

MCWidth == [w \in Words \cup {""} |-> IF w = "" THEN 0 ELSE 17]
MCParts == [w \in Words |-> {w}]

Both == [v4 |-> "a4", v6 |-> "a6"]
Primary == <<"dnsoverride", "00", "a4", "a6", "t">>
Secondary == <<"dnsoverride", "00", "c4", "a6", "t">>
Device(v4) == <<"dnsoverride", "m2", v4, "a6", "t">>
\* left by the format before: refused by inet_pton
Mistyped == <<"dnsoverride", "m1", "x.4", "a6">>

Boots == [resolv : {Missing, Holding(Both, << >>)},
          conf : {Missing, Holding(Missing.ns, <<Primary, Mistyped>>),
                  Holding(Missing.ns, <<Device("a4")>>)}]
OneBoot == {[resolv |-> Holding(Both, << >>),
             conf |-> Holding(Missing.ns, <<Primary, Mistyped>>)]}

Plain(op) == [op |-> op, mac |-> "", lines |-> << >>]
Replace(mac, lines) == [op |-> "replace", mac |-> mac, lines |-> lines]

AllCalls ==
  [t \in Threads |->
     {Plain(op) : op \in {"refresh", "enable", "disable", "set", "unset"}}
     \cup {Replace("m2", <<Device("c4")>>), Replace("00", <<Primary, Secondary>>)}]

\* the worker thread of webconfig ends with CosaXDNSInitialize
TwoThreads == [main |-> {Replace("m2", <<Device("c4")>>)}, worker |-> {Plain("refresh")}]

=============================================================================
