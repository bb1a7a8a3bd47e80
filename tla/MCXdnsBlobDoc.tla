--------------------------- MODULE MCXdnsBlobDoc ---------------------------
(* A small instance of XdnsBlobDoc.                                        *)
EXTENDS XdnsBlobDoc, TLC

\* "": the beginning of every name
MCKeys == DocNames \cup RowNames \cup {"", "DNSMappingIPv", "other"}
MCBegins ==
  [k \in MCKeys |->
     CASE k = "" -> DocNames \cup RowNames
       [] k = "DNSMappingIPv" -> {"DNSMappingIPv4", "DNSMappingIPv6"}
       [] k = "other" -> {}
       [] OTHER -> {k}]

Upto(n, S) == UNION {[1..i -> S] : i \in 0..n}
S(k, v) == [key |-> k, kind |-> "str", val |-> v]
R(k, v) == [key |-> k, val |-> v]
On(b) == [key |-> "EnableXDNS", kind |-> "bool", val |-> b]
TableOf(rows) == [key |-> "xdnsTable", kind |-> "array", val |-> rows]

Rows == Upto(3, {R("DNSMappingMac", "m"), R("DNSMappingIPv", "a"), R("DNSMappingTag", "t"),
                 R("DNSMappingTag", "u"), R("", "a"), R("other", "a")})
Tagged == <<R("DNSMappingMac", "m"), R("DNSMappingTag", "t")>>

\* every map of at most four of these entries, and every element of a table
MCMessages ==
  Upto(4, {On(TRUE), S("DefaultDeviceDnsIPv4", "a"), S("DefaultDeviceDnsIPv4", "m"),
           S("EnableXDNS", "t"), S("", "u"), TableOf(<< >>), TableOf(<<Tagged, << >>>>)})
  \cup {<<TableOf(<<Tagged, r>>), On(FALSE), S("DefaultDeviceTag", "t")>> : r \in Rows}
  \cup {<<On(TRUE), TableOf(<<NotAMap>>)>>}

=============================================================================
