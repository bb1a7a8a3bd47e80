----------------------------- MODULE MCXdnsWan -----------------------------
(* A small instance of XdnsWan.                                            *)
EXTENDS XdnsWan, TLC

Words == {"dnsoverride", "empty", "00", "m2", "a4", "c4", "a6", "t"}

MCLower == [w \in Words \cup {""} |-> w]
MCWidth == [w \in Words \cup {""} |-> IF w = "" THEN 0 ELSE IF w = "dnsoverride" THEN 11 ELSE 17]
MCPieces == [w \in Words |-> <<w>>]
MCParts == [w \in Words |-> {w}]

NothingFor(F) == [f \in F |-> {}]
NewPrimary == [NothingFor(DefaultFields) EXCEPT !["v4"] = {"c4"}]
NoRowsIn == NothingFor(RowFields)

Servers == {[v4 |-> "a4", v6 |-> "a6"]}

\* the second has no default line
Confs == {<<<<"dnsoverride", "00", "a4", "a6", "t">>>>,
          <<<<"dnsoverride", "m2", "a4", "a6", "t">>>>}

OneDocument == {[lines |-> <<<<"dnsoverride", "00", "a4", "a6", "t">>>>, enable |-> b] : b \in BOOLEAN}

=============================================================================
