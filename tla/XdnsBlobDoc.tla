---------------------------- MODULE XdnsBlobDoc ----------------------------
(***************************************************************************)
(* Decoding: the msgpack map "xdns" of a message becomes the xdnsdoc_t     *)
(* that XdnsWebconfig executes.  Both loops of xdns_param.c read a map     *)
(* entry by entry, until the bits that were set at the start are cleared   *)
(* or the map ends; some fields have no such bit.  A key is compared over  *)
(* its own length only (match), so it names every field it is the          *)
(* beginning of.                                                           *)
(*                                                                         *)
(* A message carries the map and its version; the framework always sends   *)
(* them.  Memory is not exhausted.                                         *)
(***************************************************************************)
EXTENDS Integers, Sequences

CONSTANTS
  Messages,   \* the maps that may be sent
  Keys,       \* keys of their entries
  Begins,     \* [key -> the field names that begin with it]
  Values,     \* strings
  Missing,    \* a pointer that is NULL
  NotAMap     \* an element of the table that is no map

DocNames == {"EnableXDNS", "DefaultDeviceDnsIPv4", "DefaultDeviceDnsIPv6",
             "DefaultDeviceTag", "xdnsTable"}
RowNames == {"DNSMappingMac", "DNSMappingIPv4", "DNSMappingIPv6", "DNSMappingTag"}

\* objects_left at the start: 0x05 and 0x04
Required == {"EnableXDNS", "xdnsTable"}
RequiredInRow == {"DNSMappingTag"}

RowMap == Seq([key : Keys, val : Values])
Entry == [key : Keys, kind : {"str"}, val : Values]
         \cup [key : Keys, kind : {"bool"}, val : BOOLEAN]
         \cup [key : Keys, kind : {"array"}, val : Seq(RowMap \cup {NotAMap})]

ASSUME DecoderAssumption ==
  /\ Messages \subseteq Seq(Entry)
  /\ Begins \in [Keys -> SUBSET (DocNames \cup RowNames)]
  /\ NotAMap \notin RowMap

VARIABLES
  msg,     \* the map
  pos,     \* entries of it that have been read
  left,    \* the bits of objects_left in process_xdnsparams
  doc,     \* xdnsdoc_t
  row,     \* the element of the table being read, 0 outside of it
  rowPos,  \* entries of that element that have been read
  rowLeft, \* the bits of objects_left in process_dnsparams
  status   \* what xdnsdoc_convert has returned, or "reading"

decVars == <<msg, pos, left, doc, row, rowPos, rowLeft, status>>

KindOf(f) == CASE f = "EnableXDNS" -> "bool"
               [] f = "xdnsTable" -> "array"
               [] OTHER -> "str"

\* The fields an entry of the map sets...
Hits(e) == {f \in DocNames : KindOf(f) = e.kind /\ f \in Begins[e.key]}

\* ... and an entry of an element of the table, if it is a string.
RowHits(e) == RowNames \cap Begins[e.key]

NoDoc == [f \in DocNames |-> IF f = "EnableXDNS" THEN FALSE ELSE Missing]

\* Mutant: the elements are not cleared after malloc.
JunkRow == [f \in RowNames |-> NotAMap]

NoRow == [f \in RowNames |-> Missing]

(***************************************************************************)
(* The steps.                                                              *)
(***************************************************************************)
DecInit ==
  /\ msg \in Messages
  /\ pos = 0 /\ left = Required /\ doc = NoDoc
  /\ row = 0 /\ rowPos = 0 /\ rowLeft = RequiredInRow
  /\ status = "reading"

\* comp_helper_convert clears the document.
Begin ==
  /\ status # "reading"
  /\ msg' \in Messages
  /\ pos' = 0 /\ left' = Required /\ doc' = NoDoc
  /\ row' = 0 /\ rowPos' = 0 /\ rowLeft' = RequiredInRow
  /\ status' = "reading"

\* The loop condition of process_xdnsparams.
More == status = "reading" /\ row = 0 /\ left # {} /\ pos < Len(msg)

ReadEntry ==
  LET e == msg[pos + 1]
      hits == Hits(e)
  IN /\ More
     /\ "xdnsTable" \notin hits
     /\ doc' = [f \in DocNames |-> IF f \in hits THEN e.val ELSE doc[f]]
     /\ left' = left \ hits
     /\ pos' = pos + 1
     /\ UNCHANGED <<msg, row, rowPos, rowLeft, status>>

\* The elements are allocated and cleared.
OpenTable ==
  LET e == msg[pos + 1]
  IN /\ More
     /\ "xdnsTable" \in Hits(e)
     /\ doc' = [doc EXCEPT !["xdnsTable"] = [i \in DOMAIN e.val |-> NoRow]]
     /\ row' = 1 /\ rowPos' = 0 /\ rowLeft' = RequiredInRow
     /\ UNCHANGED <<msg, pos, left, status>>

Table == msg[pos + 1].val
InRow == status = "reading" /\ row # 0 /\ row <= Len(Table)
\* The loop condition of process_dnsparams.
MoreInRow == InRow /\ Table[row] # NotAMap /\ rowLeft # {} /\ rowPos < Len(Table[row])

\* Mutant: a field that has been read is not read again.
FirstWins(r, e) == [f \in RowNames |-> IF f \in RowHits(e) /\ r[f] = Missing THEN e.val ELSE r[f]]

RowWith(r, e) == [f \in RowNames |-> IF f \in RowHits(e) THEN e.val ELSE r[f]]

ReadRowEntry ==
  LET e == Table[row][rowPos + 1]
  IN /\ MoreInRow
     /\ doc' = [doc EXCEPT !["xdnsTable"][row] = RowWith(@, e)]
     /\ rowLeft' = rowLeft \ RowHits(e)
     /\ rowPos' = rowPos + 1
     /\ UNCHANGED <<msg, pos, left, row, status>>

\* Mutant: what process_dnsparams returns is not looked at.
AnyRow ==
  /\ InRow /\ ~ MoreInRow
  /\ row' = row + 1 /\ rowPos' = 0 /\ rowLeft' = RequiredInRow
  /\ UNCHANGED <<msg, pos, left, doc, status>>

\* The document is refused for one element without a tag.
EndRow ==
  /\ InRow /\ ~ MoreInRow
  /\ IF rowLeft = {}
     THEN /\ row' = row + 1 /\ rowPos' = 0 /\ rowLeft' = RequiredInRow
          /\ UNCHANGED status
     ELSE /\ status' = "refused"
          /\ UNCHANGED <<row, rowPos, rowLeft>>
  /\ UNCHANGED <<msg, pos, left, doc>>

\* Mutant: the bit of the table is not cleared.
CloseTableForgets ==
  /\ status = "reading" /\ row # 0 /\ row = Len(Table) + 1
  /\ row' = 0 /\ rowPos' = 0 /\ rowLeft' = RequiredInRow
  /\ pos' = pos + 1
  /\ UNCHANGED <<msg, left, doc, status>>

CloseTable ==
  /\ status = "reading" /\ row # 0 /\ row = Len(Table) + 1
  /\ row' = 0 /\ rowPos' = 0 /\ rowLeft' = RequiredInRow
  /\ left' = left \ {"xdnsTable"}
  /\ pos' = pos + 1
  /\ UNCHANGED <<msg, doc, status>>

End ==
  /\ status = "reading" /\ row = 0 /\ ~ More
  /\ status' = IF left = {} THEN "accepted" ELSE "refused"
  /\ UNCHANGED <<msg, pos, left, doc, row, rowPos, rowLeft>>

DecNext == Begin \/ ReadEntry \/ OpenTable \/ ReadRowEntry \/ EndRow \/ CloseTable \/ End

DecSpec == DecInit /\ [][DecNext]_decVars

(***************************************************************************)
(* Properties.                                                             *)
(***************************************************************************)

\* Type invariant of the module.
DecTypeOK ==
  /\ msg \in Messages
  /\ pos \in 0..Len(msg) /\ row \in Nat /\ rowPos \in Nat
  /\ left \subseteq Required /\ rowLeft \subseteq RequiredInRow
  /\ status \in {"reading", "accepted", "refused"}
  /\ doc["EnableXDNS"] \in BOOLEAN
  /\ \A f \in DocNames \ {"EnableXDNS", "xdnsTable"} : doc[f] \in Values \cup {Missing}
  /\ doc["xdnsTable"] \in Seq([RowNames -> Values \cup {Missing}]) \cup {Missing}

\* The first n entries of the map set field f.
SetWithin(f, n) == \E i \in 1..n : f \in Hits(msg[i])

\* Entry k is the last of the first n that sets f.
LastSet(f, k, n) ==
  k \in 1..n /\ f \in Hits(msg[k]) /\ \A i \in k+1..n : f \notin Hits(msg[i])

RowSetWithin(m, f, n) == \E i \in 1..n : f \in RowHits(m[i])
RowLastSet(m, f, k, n) ==
  k \in 1..n /\ f \in RowHits(m[k]) /\ \A i \in k+1..n : f \notin RowHits(m[i])

\* r is what the element m says up to its first key for the tag, the last
\* entry for a field being the one that counts.
RowRead(m, r) ==
  \E n \in 1..Len(m) :
    /\ RowSetWithin(m, "DNSMappingTag", n) /\ ~ RowSetWithin(m, "DNSMappingTag", n - 1)
    /\ \A f \in RowNames :
         \/ ~ RowSetWithin(m, f, n) /\ r[f] = Missing
         \/ \E k \in 1..n : RowLastSet(m, f, k, n) /\ r[f] = m[k].val

\* "Convert the msgpack map into the doc_t structure": an accepted document
\* holds, for every field, the last value that the map gives it up to the entry
\* with which the flag and the table are both there, and nothing that comes
\* later; and its table has every element of the map's, none without a tag.
DecodedUpToRequired ==
  status = "accepted" =>
    /\ \A f \in Required : SetWithin(f, pos)
    /\ \E f \in Required : ~ SetWithin(f, pos - 1)
    /\ \A f \in DocNames \ {"xdnsTable"} :
         \/ ~ SetWithin(f, pos) /\ doc[f] = NoDoc[f]
         \/ \E k \in 1..pos : LastSet(f, k, pos) /\ doc[f] = msg[k].val
    /\ \E k \in 1..pos :
         /\ LastSet("xdnsTable", k, pos)
         /\ Len(doc["xdnsTable"]) = Len(msg[k].val)
         /\ \A i \in DOMAIN msg[k].val :
              msg[k].val[i] # NotAMap /\ RowRead(msg[k].val[i], doc["xdnsTable"][i])

\* A document is refused only for a reason: the flag or the table is missing,
\* or some table of the map has an element that is no map or has no tag.
RefusedForReason ==
  status = "refused" =>
    \/ \E f \in Required : ~ SetWithin(f, Len(msg))
    \/ \E k \in DOMAIN msg :
         /\ "xdnsTable" \in Hits(msg[k])
         /\ \E i \in DOMAIN msg[k].val :
              LET m == msg[k].val[i]
              IN m = NotAMap \/ ~ RowSetWithin(m, "DNSMappingTag", Len(m))

=============================================================================
