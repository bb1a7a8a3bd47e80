------------------------- MODULE XdnsBlobDocProofs -------------------------
(***************************************************************************)
(* What decoding returns, for every map: the loops of xdns_param.c read no *)
(* further than the fields they wait for, the last value of a field counts *)
(* and a document is refused only for something that is missing.           *)
(***************************************************************************)
EXTENDS XdnsBlobDoc, SequenceTheorems, TLAPS

-----------------------------------------------------------------------------
(***************************************************************************)
(* A field after the first n entries of the map m: never set and still     *)
(* none, or as the last of them that sets it says.                         *)
(***************************************************************************)
SetIn(m, f, n) == \E i \in 1..n : f \in Hits(m[i])
LastIn(m, f, k, n) == k \in 1..n /\ f \in Hits(m[k]) /\ \A i \in k+1..n : f \notin Hits(m[i])
Given(m, f, n, v, none) ==
  \/ ~ SetIn(m, f, n) /\ v = none
  \/ \E k \in 1..n : LastIn(m, f, k, n) /\ v = m[k].val

LEMMA SetNext ==
  ASSUME NEW m, NEW f, NEW n \in Nat
  PROVE  SetIn(m, f, n + 1) <=> SetIn(m, f, n) \/ f \in Hits(m[n+1])
BY DEF SetIn

LEMMA GivenNext ==
  ASSUME NEW m, NEW f, NEW n \in Nat, NEW v, NEW none, Given(m, f, n, v, none)
  PROVE  Given(m, f, n + 1, IF f \in Hits(m[n+1]) THEN m[n+1].val ELSE v, none)
<1>1. CASE f \in Hits(m[n+1])
  <2>1. LastIn(m, f, n + 1, n + 1)
    BY <1>1 DEF LastIn
  <2> QED
    BY <1>1, <2>1 DEF Given
<1>2. CASE f \notin Hits(m[n+1]) /\ ~ SetIn(m, f, n) /\ v = none
  BY <1>2, SetNext DEF Given
<1>3. ASSUME f \notin Hits(m[n+1]), NEW k \in 1..n, LastIn(m, f, k, n), v = m[k].val
      PROVE  Given(m, f, n + 1, v, none)
  <2>1. LastIn(m, f, k, n + 1) /\ k \in 1..n+1
    BY <1>3 DEF LastIn
  <2> QED
    BY <1>3, <2>1 DEF Given
<1> QED
  BY <1>1, <1>2, <1>3 DEF Given

\* The same for an element of the table.
RowGiven(m, f, n, v) ==
  \/ ~ RowSetWithin(m, f, n) /\ v = Missing
  \/ \E k \in 1..n : RowLastSet(m, f, k, n) /\ v = m[k].val

LEMMA RowSetNext ==
  ASSUME NEW m, NEW f, NEW n \in Nat
  PROVE  RowSetWithin(m, f, n + 1) <=> RowSetWithin(m, f, n) \/ f \in RowHits(m[n+1])
BY DEF RowSetWithin

LEMMA RowGivenNext ==
  ASSUME NEW m, NEW f, NEW n \in Nat, NEW v, RowGiven(m, f, n, v)
  PROVE  RowGiven(m, f, n + 1, IF f \in RowHits(m[n+1]) THEN m[n+1].val ELSE v)
<1>1. CASE f \in RowHits(m[n+1])
  <2>1. RowLastSet(m, f, n + 1, n + 1)
    BY <1>1 DEF RowLastSet
  <2> QED
    BY <1>1, <2>1 DEF RowGiven
<1>2. CASE f \notin RowHits(m[n+1]) /\ ~ RowSetWithin(m, f, n) /\ v = Missing
  BY <1>2, RowSetNext DEF RowGiven
<1>3. ASSUME f \notin RowHits(m[n+1]), NEW k \in 1..n, RowLastSet(m, f, k, n), v = m[k].val
      PROVE  RowGiven(m, f, n + 1, v)
  <2>1. RowLastSet(m, f, k, n + 1) /\ k \in 1..n+1
    BY <1>3 DEF RowLastSet
  <2> QED
    BY <1>3, <2>1 DEF RowGiven
<1> QED
  BY <1>1, <1>2, <1>3 DEF RowGiven

\* An entry that holds a table sets the table and nothing else.
LEMMA KindsApart ==
  ASSUME NEW e, "xdnsTable" \in Hits(e)
  PROVE  Hits(e) = {"xdnsTable"}
BY DEF Hits, KindOf, DocNames

\* An entry of the map, and what it may set.
LEMMA EntryValue ==
  ASSUME NEW e \in Entry
  PROVE  /\ "EnableXDNS" \in Hits(e) => e.val \in BOOLEAN
         /\ "xdnsTable" \in Hits(e) => e.val \in Seq(RowMap \cup {NotAMap})
         /\ \A f \in DocNames \ {"EnableXDNS", "xdnsTable"} : f \in Hits(e) => e.val \in Values
BY DEF Entry, Hits, KindOf, DocNames

LEMMA MessageType ==
  ASSUME NEW m \in Messages
  PROVE  m \in Seq(Entry) /\ Len(m) \in Nat /\ \A i \in 1..Len(m) : m[i] \in Entry
<1>1. m \in Seq(Entry)
  BY DecoderAssumption
<1> QED
  BY <1>1, LenProperties, ElementOfSeq

-----------------------------------------------------------------------------
(***************************************************************************)
(* The inductive invariant.                                                *)
(***************************************************************************)
RowType == [RowNames -> Values \cup {Missing}]

\* The bits that are left are those of the fields that were not there yet,
\* and an entry is read only while one is left.
Waiting(m, n, l) ==
  /\ l = {f \in Required : ~ SetIn(m, f, n)}
  /\ n > 0 => \E f \in Required : ~ SetIn(m, f, n - 1)

\* The element m after n entries.
RowSoFar(m, r, n, l) ==
  /\ m = NotAMap => l # {}
  /\ m # NotAMap =>
       /\ n \in 0..Len(m)
       /\ l = {f \in RequiredInRow : ~ RowSetWithin(m, f, n)}
       /\ n > 0 => ~ RowSetWithin(m, "DNSMappingTag", n - 1)
       /\ \A f \in RowNames : RowGiven(m, f, n, r[f])

RowDone(m, r) == m # NotAMap /\ RowRead(m, r)

TableDone(t, rs) == Len(rs) = Len(t) /\ \A i \in DOMAIN t : RowDone(t[i], rs[i])

\* The table while its element r is read.
TableSoFar(t, rs, r, n, l) ==
  /\ rs \in Seq(RowType) /\ Len(rs) = Len(t)
  /\ r \in 1..Len(t)+1
  /\ \A i \in 1..r-1 : RowDone(t[i], rs[i])
  /\ r <= Len(t) => RowSoFar(t[r], rs[r], n, l)
  /\ \A i \in r+1..Len(t) : rs[i] = NoRow

DocSoFar(m, n, d) ==
  \A f \in DocNames \ {"xdnsTable"} : Given(m, f, n, d[f], NoDoc[f])

TableGiven(m, n, d) ==
  \/ ~ SetIn(m, "xdnsTable", n)
  \/ \E k \in 1..n : LastIn(m, "xdnsTable", k, n) /\ TableDone(m[k].val, d["xdnsTable"])

\* The table whose elements are read is that of the next entry.
AtTable(m, n) == n < Len(m) /\ "xdnsTable" \in Hits(m[n+1])

IsDoc(d) == DOMAIN d = DocNames /\ d = [f \in DocNames |-> d[f]]

DecInv ==
  /\ DecTypeOK
  /\ IsDoc(doc)
  /\ Waiting(msg, pos, left)
  /\ DocSoFar(msg, pos, doc)
  /\ row = 0 => TableGiven(msg, pos, doc)
  /\ row # 0 => /\ AtTable(msg, pos) /\ left # {}
                /\ TableSoFar(msg[pos+1].val, doc["xdnsTable"], row, rowPos, rowLeft)
  /\ status = "accepted" => left = {} /\ row = 0
  /\ RefusedForReason

\* Where reading starts, nothing is set and everything is waited for.
LEMMA NothingYet ==
  ASSUME NEW m
  PROVE  /\ Waiting(m, 0, Required)
         /\ DocSoFar(m, 0, NoDoc)
         /\ TableGiven(m, 0, NoDoc)
<1>1. \A f : ~ SetIn(m, f, 0)
  BY DEF SetIn
<1> QED
  BY <1>1 DEF Waiting, DocSoFar, TableGiven, Given

LEMMA NoDocType ==
  /\ IsDoc(NoDoc)
  /\ NoDoc["EnableXDNS"] \in BOOLEAN /\ NoDoc["xdnsTable"] = Missing
  /\ \A f \in DocNames \ {"EnableXDNS", "xdnsTable"} : NoDoc[f] = Missing
BY DEF NoDoc, DocNames, IsDoc

LEMMA DecInitInv ==
  ASSUME DecInit
  PROVE  DecInv
<1>1. msg \in Messages /\ Len(msg) \in Nat
  BY MessageType DEF DecInit
<1>2. DecTypeOK
  BY <1>1, NoDocType DEF DecInit, DecTypeOK
<1> QED
  BY <1>2, NothingYet, NoDocType DEF DecInit, DecInv, RefusedForReason

LEMMA BeginInv ==
  ASSUME Begin
  PROVE  DecInv'
<1>1. msg' \in Messages /\ Len(msg') \in Nat
  BY MessageType DEF Begin
<1>2. DecTypeOK'
  BY <1>1, NoDocType DEF Begin, DecTypeOK
<1> QED
  BY <1>2, NothingYet, NoDocType DEF Begin, DecInv, RefusedForReason

\* What is waited for after one more entry.
LEMMA WaitingNext ==
  ASSUME NEW m, NEW n \in Nat, NEW l, Waiting(m, n, l), l # {}
  PROVE  Waiting(m, n + 1, l \ Hits(m[n+1]))
<1>1. (n + 1) - 1 = n
  OBVIOUS
<1>2. \E f \in Required : ~ SetIn(m, f, n)
  BY DEF Waiting
<1>3. l \ Hits(m[n+1]) = {f \in Required : ~ SetIn(m, f, n + 1)}
  BY SetNext DEF Waiting
<1> QED
  BY <1>1, <1>2, <1>3 DEF Waiting

LEMMA ReadEntryInv ==
  ASSUME DecInv, ReadEntry
  PROVE  DecInv'
<1> DEFINE e == msg[pos+1]
<1>1. /\ msg \in Messages /\ pos \in Nat /\ Len(msg) \in Nat /\ pos < Len(msg) /\ e \in Entry
      /\ row = 0 /\ left # {} /\ status = "reading" /\ "xdnsTable" \notin Hits(e)
  BY MessageType DEF DecInv, DecTypeOK, ReadEntry, More
<1>2. /\ doc' = [f \in DocNames |-> IF f \in Hits(e) THEN e.val ELSE doc[f]]
      /\ left' = left \ Hits(e) /\ pos' = pos + 1
      /\ msg' = msg /\ row' = row /\ rowPos' = rowPos /\ rowLeft' = rowLeft /\ status' = status
  BY DEF ReadEntry
<1> HIDE DEF e
<1>3. DecTypeOK'
  <2>1. doc'["EnableXDNS"] \in BOOLEAN
    BY <1>1, <1>2, EntryValue DEF DecInv, DecTypeOK, DocNames
  <2>2. \A f \in DocNames \ {"EnableXDNS", "xdnsTable"} : doc'[f] \in Values \cup {Missing}
    BY <1>1, <1>2, EntryValue DEF DecInv, DecTypeOK
  <2>3. doc'["xdnsTable"] = doc["xdnsTable"]
    BY <1>1, <1>2 DEF DocNames
  <2>4. pos' \in 0..Len(msg') /\ left' \subseteq Required
    BY <1>1, <1>2 DEF DecInv, DecTypeOK
  <2> QED
    BY <1>1, <1>2, <2>1, <2>2, <2>3, <2>4 DEF DecInv, DecTypeOK
<1>4. IsDoc(doc')
  BY <1>2 DEF IsDoc
<1>5. Waiting(msg', pos', left')
  BY <1>1, <1>2, WaitingNext DEF DecInv, e
<1>6. DocSoFar(msg', pos', doc')
  <2>1. ASSUME NEW f \in DocNames \ {"xdnsTable"} PROVE Given(msg, f, pos + 1, doc'[f], NoDoc[f])
    <3>1. Given(msg, f, pos, doc[f], NoDoc[f])
      BY DEF DecInv, DocSoFar
    <3>2. Given(msg, f, pos + 1, IF f \in Hits(e) THEN e.val ELSE doc[f], NoDoc[f])
      BY <1>1, <3>1, GivenNext DEF e
    <3> QED
      BY <1>2, <3>2
  <2> QED
    BY <1>2, <2>1 DEF DocSoFar
<1>7. TableGiven(msg', pos', doc')
  <2>1. doc'["xdnsTable"] = doc["xdnsTable"]
    BY <1>1, <1>2 DEF DocNames
  <2>2. TableGiven(msg, pos, doc)
    BY <1>1 DEF DecInv
  <2>3. CASE ~ SetIn(msg, "xdnsTable", pos)
    <3>1. ~ SetIn(msg, "xdnsTable", pos + 1)
      BY <1>1, <2>3, SetNext DEF e
    <3> QED
      BY <1>2, <3>1 DEF TableGiven
  <2>4. ASSUME NEW k \in 1..pos, LastIn(msg, "xdnsTable", k, pos),
               TableDone(msg[k].val, doc["xdnsTable"])
        PROVE  TableGiven(msg', pos', doc')
    <3>1. LastIn(msg, "xdnsTable", k, pos + 1) /\ k \in 1..pos+1
      BY <1>1, <2>4 DEF LastIn, e
    <3> QED
      BY <1>2, <2>1, <2>4, <3>1 DEF TableGiven
  <2> QED
    BY <2>2, <2>3, <2>4 DEF TableGiven
<1> QED
  BY <1>1, <1>2, <1>3, <1>4, <1>5, <1>6, <1>7 DEF DecInv, RefusedForReason

-----------------------------------------------------------------------------
(***************************************************************************)
(* The table.                                                              *)
(***************************************************************************)

\* An element that has not been read yet.
LEMMA RowFresh ==
  ASSUME NEW m \in RowMap \cup {NotAMap}
  PROVE  RowSoFar(m, NoRow, 0, RequiredInRow)
<1>1. \A f : ~ RowSetWithin(m, f, 0)
  BY DEF RowSetWithin
<1>2. m # NotAMap => Len(m) \in Nat
  BY LenProperties DEF RowMap
<1> QED
  BY <1>1, <1>2 DEF RowSoFar, RowGiven, RequiredInRow, NoRow

LEMMA OpenTableInv ==
  ASSUME DecInv, OpenTable
  PROVE  DecInv'
<1> DEFINE e == msg[pos+1]
           t == e.val
           rs == [i \in DOMAIN t |-> NoRow]
<1>1. /\ msg \in Messages /\ pos \in Nat /\ Len(msg) \in Nat /\ pos < Len(msg) /\ e \in Entry
      /\ row = 0 /\ left # {} /\ status = "reading" /\ "xdnsTable" \in Hits(e)
  BY MessageType DEF DecInv, DecTypeOK, OpenTable, More
<1>2. /\ doc' = [doc EXCEPT !["xdnsTable"] = rs]
      /\ row' = 1 /\ rowPos' = 0 /\ rowLeft' = RequiredInRow
      /\ msg' = msg /\ pos' = pos /\ left' = left /\ status' = status
  BY DEF OpenTable
<1>3. t \in Seq(RowMap \cup {NotAMap})
  BY <1>1, EntryValue
<1>4. /\ Len(t) \in Nat /\ DOMAIN t = 1..Len(t)
      /\ \A i \in 1..Len(t) : t[i] \in RowMap \cup {NotAMap}
  BY <1>3, LenProperties, ElementOfSeq
<1>5. NoRow \in RowType
  BY DEF NoRow, RowType
<1>6. rs \in Seq(RowType) /\ Len(rs) = Len(t) /\ \A i \in 1..Len(t) : rs[i] = NoRow
  <2>1. rs = [i \in 1..Len(t) |-> NoRow]
    BY <1>4
  <2> HIDE DEF t, rs
  <2>2. rs \in Seq(RowType)
    BY <1>4, <1>5, <2>1, IsASeq
  <2> QED
    BY <1>4, <2>1, <2>2, LenProperties
<1> HIDE DEF rs, t, e
<1>7. /\ doc'["xdnsTable"] = rs /\ IsDoc(doc')
      /\ \A f \in DocNames \ {"xdnsTable"} : doc'[f] = doc[f]
  BY <1>2 DEF DecInv, IsDoc, DocNames
<1>8. TableSoFar(t, rs, 1, 0, RequiredInRow)
  <2>1. 1 <= Len(t) => RowSoFar(t[1], rs[1], 0, RequiredInRow)
    BY <1>4, <1>6, RowFresh
  <2> QED
    BY <1>4, <1>6, <2>1 DEF TableSoFar
<1>9. DecTypeOK'
  BY <1>1, <1>2, <1>6, <1>7 DEF DecInv, DecTypeOK, RowType, DocNames
<1>10. DocSoFar(msg', pos', doc')
  BY <1>2, <1>7 DEF DecInv, DocSoFar
<1>11. AtTable(msg', pos') /\ left' # {} /\ msg'[pos'+1].val = t
  BY <1>1, <1>2 DEF AtTable, e, t
<1> QED
  BY <1>1, <1>2, <1>7, <1>8, <1>9, <1>10, <1>11 DEF DecInv, RefusedForReason

\* The element being read, and the table it belongs to.
LEMMA InTable ==
  ASSUME DecInv, row # 0
  PROVE  /\ msg \in Messages /\ pos \in Nat /\ Len(msg) \in Nat /\ pos < Len(msg)
         /\ "xdnsTable" \in Hits(msg[pos+1]) /\ left # {}
         /\ Table \in Seq(RowMap \cup {NotAMap}) /\ Len(Table) \in Nat
         /\ DOMAIN Table = 1..Len(Table)
         /\ \A i \in 1..Len(Table) : Table[i] \in RowMap \cup {NotAMap}
         /\ TableSoFar(Table, doc["xdnsTable"], row, rowPos, rowLeft)
<1>1. /\ msg \in Messages /\ pos \in Nat /\ Len(msg) \in Nat /\ pos < Len(msg)
      /\ "xdnsTable" \in Hits(msg[pos+1]) /\ left # {}
  BY MessageType DEF DecInv, DecTypeOK, AtTable
<1>2. msg[pos+1] \in Entry
  BY <1>1, MessageType
<1>3. Table \in Seq(RowMap \cup {NotAMap})
  BY <1>1, <1>2, EntryValue DEF Table
<1>4. Len(Table) \in Nat /\ DOMAIN Table = 1..Len(Table)
      /\ \A i \in 1..Len(Table) : Table[i] \in RowMap \cup {NotAMap}
  BY <1>3, LenProperties, ElementOfSeq
<1>5. TableSoFar(Table, doc["xdnsTable"], row, rowPos, rowLeft)
  BY DEF DecInv, Table
<1> QED
  BY <1>1, <1>3, <1>4, <1>5

LEMMA ReadRowEntryInv ==
  ASSUME DecInv, ReadRowEntry
  PROVE  DecInv'
<1> DEFINE m == Table[row]
           e == m[rowPos+1]
           rs == doc["xdnsTable"]
           new == [rs EXCEPT ![row] = RowWith(@, e)]
<1>1. /\ row \in 1..Len(Table) /\ m # NotAMap /\ rowLeft # {} /\ rowPos < Len(m)
      /\ row # 0 /\ row \in Nat /\ rowPos \in Nat /\ status = "reading"
  BY DEF ReadRowEntry, MoreInRow, InRow, DecInv, DecTypeOK
<1>2. /\ doc' = [doc EXCEPT !["xdnsTable"] = new]
      /\ rowLeft' = rowLeft \ RowHits(e) /\ rowPos' = rowPos + 1
      /\ msg' = msg /\ pos' = pos /\ left' = left /\ row' = row /\ status' = status
  <2>1. doc' = [doc EXCEPT !["xdnsTable"] = new]
    BY DEF ReadRowEntry
  <2>2. rowLeft' = rowLeft \ RowHits(e) /\ rowPos' = rowPos + 1
    BY DEF ReadRowEntry
  <2>3. msg' = msg /\ pos' = pos /\ left' = left /\ row' = row /\ status' = status
    BY DEF ReadRowEntry
  <2> QED
    BY <2>1, <2>2, <2>3, Zenon
<1>3. m \in RowMap /\ Len(m) \in Nat /\ e.val \in Values
  <2>1. m \in RowMap
    BY <1>1, InTable
  <2>2. Len(m) \in Nat /\ \A i \in 1..Len(m) : m[i] \in [key : Keys, val : Values]
    BY <2>1, LenProperties, ElementOfSeq DEF RowMap
  <2>3. rowPos + 1 \in 1..Len(m)
    BY <1>1, <2>2
  <2> QED
    BY <2>1, <2>2, <2>3
<1>4. /\ rs \in Seq(RowType) /\ Len(rs) = Len(Table) /\ Len(Table) \in Nat
      /\ \A i \in 1..row-1 : RowDone(Table[i], rs[i])
      /\ RowSoFar(m, rs[row], rowPos, rowLeft)
      /\ \A i \in row+1..Len(Table) : rs[i] = NoRow
  BY <1>1, InTable DEF TableSoFar
<1> HIDE DEF e, m, rs
<1>5. RowWith(rs[row], e) \in RowType
  <2>1. rs[row] \in RowType
    BY <1>1, <1>4, ElementOfSeq
  <2> QED
    BY <1>3, <2>1 DEF RowWith, RowType
<1>6. /\ new \in Seq(RowType) /\ Len(new) = Len(Table)
      /\ new[row] = RowWith(rs[row], e)
      /\ \A i \in 1..Len(Table) : i # row => new[i] = rs[i]
  BY <1>1, <1>4, <1>5, ExceptSeq, LenProperties
<1>7. RowSoFar(m, RowWith(rs[row], e), rowPos + 1, rowLeft \ RowHits(e))
  <2>1. rowLeft = {f \in RequiredInRow : ~ RowSetWithin(m, f, rowPos)}
    BY <1>1, <1>4 DEF RowSoFar
  <2>2. ~ RowSetWithin(m, "DNSMappingTag", rowPos)
    BY <1>1, <2>1 DEF RequiredInRow
  <2>3. rowLeft \ RowHits(e) = {f \in RequiredInRow : ~ RowSetWithin(m, f, rowPos + 1)}
    BY <1>1, <2>1, RowSetNext DEF e
  <2>4. ASSUME NEW f \in RowNames PROVE RowGiven(m, f, rowPos + 1, RowWith(rs[row], e)[f])
    <3>1. RowGiven(m, f, rowPos, rs[row][f])
      BY <1>1, <1>4 DEF RowSoFar
    <3>2. RowGiven(m, f, rowPos + 1, IF f \in RowHits(e) THEN e.val ELSE rs[row][f])
      BY <1>1, <3>1, RowGivenNext DEF e
    <3> QED
      BY <3>2 DEF RowWith
  <2>5. (rowPos + 1) - 1 = rowPos /\ rowPos + 1 \in 0..Len(m)
    BY <1>1, <1>3
  <2> QED
    BY <1>1, <2>2, <2>3, <2>4, <2>5 DEF RowSoFar
<1> HIDE DEF new
<1>8. TableSoFar(Table, new, row, rowPos + 1, rowLeft \ RowHits(e))
  <2>1. \A i \in 1..row-1 : RowDone(Table[i], new[i])
    BY <1>1, <1>4, <1>6
  <2>2. \A i \in row+1..Len(Table) : new[i] = NoRow
    BY <1>1, <1>4, <1>6
  <2> QED
    BY <1>1, <1>4, <1>6, <1>7, <2>1, <2>2 DEF TableSoFar, m
<1>9. /\ doc'["xdnsTable"] = new /\ IsDoc(doc')
      /\ \A f \in DocNames \ {"xdnsTable"} : doc'[f] = doc[f]
  BY <1>2 DEF DecInv, IsDoc, DocNames
<1>10. DecTypeOK'
  BY <1>1, <1>2, <1>6, <1>9 DEF DecInv, DecTypeOK, RowType, DocNames
<1>11. DocSoFar(msg', pos', doc')
  BY <1>2, <1>9 DEF DecInv, DocSoFar
<1> QED
  BY <1>1, <1>2, <1>8, <1>9, <1>10, <1>11 DEF DecInv, RefusedForReason, Table

\* An element that has its tag has been read up to the tag.
LEMMA RowReadWhole ==
  ASSUME NEW m \in RowMap, NEW r, NEW n, RowSoFar(m, r, n, {})
  PROVE  RowRead(m, r)
<1>1. m # NotAMap /\ n \in 0..Len(m) /\ Len(m) \in Nat
  BY DecoderAssumption, LenProperties DEF RowSoFar, RowMap
<1>2. RowSetWithin(m, "DNSMappingTag", n)
  BY <1>1 DEF RowSoFar, RequiredInRow
<1>3. n > 0
  BY <1>1, <1>2 DEF RowSetWithin
<1>4. ~ RowSetWithin(m, "DNSMappingTag", n - 1) /\ n \in 1..Len(m)
  BY <1>1, <1>3 DEF RowSoFar
<1>5. \A f \in RowNames :
        \/ ~ RowSetWithin(m, f, n) /\ r[f] = Missing
        \/ \E k \in 1..n : RowLastSet(m, f, k, n) /\ r[f] = m[k].val
  BY <1>1 DEF RowSoFar, RowGiven
<1> QED
  BY <1>2, <1>4, <1>5 DEF RowRead

LEMMA EndRowInv ==
  ASSUME DecInv, EndRow
  PROVE  DecInv'
<1> DEFINE m == Table[row]
           rs == doc["xdnsTable"]
<1>1. /\ row \in 1..Len(Table) /\ row # 0 /\ row \in Nat /\ rowPos \in Nat /\ status = "reading"
      /\ ~ (m # NotAMap /\ rowLeft # {} /\ rowPos < Len(m))
      /\ msg' = msg /\ pos' = pos /\ left' = left /\ doc' = doc
  BY DEF EndRow, MoreInRow, InRow, DecInv, DecTypeOK
<1>2. m \in RowMap \cup {NotAMap}
  BY <1>1, InTable
<1>3. /\ rs \in Seq(RowType) /\ Len(rs) = Len(Table) /\ Len(Table) \in Nat
      /\ \A i \in 1..row-1 : RowDone(Table[i], rs[i])
      /\ RowSoFar(m, rs[row], rowPos, rowLeft)
      /\ \A i \in row+1..Len(Table) : rs[i] = NoRow
  BY <1>1, InTable DEF TableSoFar
<1>4. CASE rowLeft = {}
  <2>1. row' = row + 1 /\ rowPos' = 0 /\ rowLeft' = RequiredInRow /\ status' = status
    BY <1>4 DEF EndRow
  <2>2. m # NotAMap /\ m \in RowMap
    BY <1>2, <1>3, <1>4 DEF RowSoFar
  <2>3. RowDone(m, rs[row])
    BY <1>3, <1>4, <2>2, RowReadWhole DEF RowDone
  <2>4. \A i \in 1..row : RowDone(Table[i], rs[i])
    BY <1>1, <1>3, <2>3
  <2>5. row + 1 <= Len(Table) => RowSoFar(Table[row+1], rs[row+1], 0, RequiredInRow)
    <3>1. SUFFICES ASSUME row + 1 <= Len(Table)
                   PROVE  RowSoFar(Table[row+1], rs[row+1], 0, RequiredInRow)
      OBVIOUS
    <3>2. rs[row+1] = NoRow /\ Table[row+1] \in RowMap \cup {NotAMap}
      BY <1>1, <1>3, <3>1, InTable
    <3> QED
      BY <3>2, RowFresh
  <2> HIDE DEF rs, m
  <2>6. TableSoFar(Table, rs, row + 1, 0, RequiredInRow)
    BY <1>1, <1>3, <2>4, <2>5 DEF TableSoFar
  <2>7. DecTypeOK'
    BY <1>1, <2>1 DEF DecInv, DecTypeOK
  <2> QED
    BY <1>1, <2>1, <2>6, <2>7 DEF DecInv, RefusedForReason, Table, rs
<1>5. CASE rowLeft # {}
  <2>1. status' = "refused" /\ row' = row /\ rowPos' = rowPos /\ rowLeft' = rowLeft
    BY <1>5 DEF EndRow
  <2>2. m = NotAMap \/ ~ RowSetWithin(m, "DNSMappingTag", Len(m))
    <3>1. SUFFICES ASSUME m # NotAMap PROVE ~ RowSetWithin(m, "DNSMappingTag", Len(m))
      OBVIOUS
    <3>2. Len(m) \in Nat
      BY <1>2, <3>1, LenProperties DEF RowMap
    <3>3. rowPos = Len(m) /\ rowLeft = {f \in RequiredInRow : ~ RowSetWithin(m, f, rowPos)}
      BY <1>1, <1>3, <1>5, <3>1, <3>2 DEF RowSoFar
    <3> QED
      BY <1>5, <3>3 DEF RequiredInRow
  <2>3. /\ pos + 1 \in DOMAIN msg /\ "xdnsTable" \in Hits(msg[pos+1])
        /\ row \in DOMAIN msg[pos+1].val
    <3>1. DOMAIN msg = 1..Len(msg)
      BY InTable, <1>1, MessageType, LenProperties
    <3> QED
      BY <1>1, <3>1, InTable DEF Table
  <2>4. RefusedForReason'
    BY <1>1, <2>2, <2>3 DEF RefusedForReason, Table
  <2>5. DecTypeOK'
    BY <1>1, <2>1 DEF DecInv, DecTypeOK
  <2> QED
    BY <1>1, <2>1, <2>4, <2>5 DEF DecInv
<1> QED
  BY <1>4, <1>5

LEMMA CloseTableInv ==
  ASSUME DecInv, CloseTable
  PROVE  DecInv'
<1> DEFINE rs == doc["xdnsTable"]
<1>1. /\ row = Len(Table) + 1 /\ row # 0 /\ status = "reading"
      /\ row' = 0 /\ rowPos' = 0 /\ rowLeft' = RequiredInRow
      /\ left' = left \ {"xdnsTable"} /\ pos' = pos + 1
      /\ msg' = msg /\ doc' = doc /\ status' = status
  BY DEF CloseTable
<1>2. Hits(msg[pos+1]) = {"xdnsTable"}
  BY <1>1, InTable, KindsApart
<1>3. Waiting(msg, pos + 1, left \ {"xdnsTable"})
  <2>1. Waiting(msg, pos + 1, left \ Hits(msg[pos+1]))
    BY <1>1, InTable, WaitingNext DEF DecInv
  <2> QED
    BY <1>2, <2>1
<1>4. DocSoFar(msg, pos + 1, doc)
  <2>1. ASSUME NEW f \in DocNames \ {"xdnsTable"} PROVE Given(msg, f, pos + 1, doc[f], NoDoc[f])
    <3>1. Given(msg, f, pos, doc[f], NoDoc[f]) /\ f \notin Hits(msg[pos+1])
      BY <1>2 DEF DecInv, DocSoFar
    <3>2. pos \in Nat
      BY <1>1, InTable
    <3>3. Given(msg, f, pos + 1, IF f \in Hits(msg[pos+1]) THEN msg[pos+1].val ELSE doc[f], NoDoc[f])
      BY <3>1, <3>2, GivenNext
    <3> QED
      BY <3>1, <3>3
  <2> QED
    BY <2>1 DEF DocSoFar
<1>5. TableDone(Table, rs)
  <2>1. Len(rs) = Len(Table) /\ Len(Table) \in Nat /\ DOMAIN Table = 1..Len(Table)
        /\ \A i \in 1..row-1 : RowDone(Table[i], rs[i])
    BY <1>1, InTable DEF TableSoFar
  <2> HIDE DEF rs
  <2>2. row - 1 = Len(Table)
    BY <1>1, <2>1
  <2> QED
    BY <2>1, <2>2 DEF TableDone
<1>6. TableGiven(msg, pos + 1, doc)
  <2>1. pos \in Nat
    BY <1>1, InTable
  <2>2. LastIn(msg, "xdnsTable", pos + 1, pos + 1) /\ pos + 1 \in 1..pos+1
    BY <1>2, <2>1 DEF LastIn
  <2> QED
    BY <1>5, <2>2 DEF TableGiven, Table
<1>7. DecTypeOK'
  <2>1. pos + 1 \in 0..Len(msg)
    BY <1>1, InTable
  <2> QED
    BY <1>1, <2>1 DEF DecInv, DecTypeOK
<1> QED
  BY <1>1, <1>3, <1>4, <1>6, <1>7 DEF DecInv, RefusedForReason

LEMMA EndInv ==
  ASSUME DecInv, End
  PROVE  DecInv'
<1>1. /\ status = "reading" /\ row = 0 /\ ~ (left # {} /\ pos < Len(msg))
      /\ status' = IF left = {} THEN "accepted" ELSE "refused"
      /\ UNCHANGED <<msg, pos, left, doc, row, rowPos, rowLeft>>
  BY DEF End, More
<1>2. DecTypeOK'
  BY <1>1 DEF DecInv, DecTypeOK
<1>3. RefusedForReason'
  <2>1. SUFFICES ASSUME left # {} PROVE \E f \in Required : ~ SetWithin(f, Len(msg))
    BY <1>1 DEF RefusedForReason, SetWithin
  <2>2. pos = Len(msg)
    BY <1>1, <2>1, MessageType DEF DecInv, DecTypeOK
  <2>3. left = {f \in Required : ~ SetIn(msg, f, pos)}
    BY DEF DecInv, Waiting
  <2> QED
    BY <2>1, <2>2, <2>3 DEF SetWithin, SetIn
<1> QED
  BY <1>1, <1>2, <1>3 DEF DecInv

LEMMA DecStepInv ==
  ASSUME DecInv, [DecNext]_decVars
  PROVE  DecInv'
<1>1. CASE UNCHANGED decVars
  BY <1>1 DEF decVars, DecInv, DecTypeOK, RefusedForReason, SetWithin
<1> QED
  BY <1>1, BeginInv, ReadEntryInv, OpenTableInv, ReadRowEntryInv, EndRowInv, CloseTableInv, EndInv
     DEF DecNext

-----------------------------------------------------------------------------
(***************************************************************************)
(* The theorems.                                                           *)
(***************************************************************************)

\* What an accepted document holds.
LEMMA AcceptedDecoded ==
  ASSUME DecInv
  PROVE  DecodedUpToRequired
<1> SUFFICES ASSUME status = "accepted" PROVE DecodedUpToRequired
  BY DEF DecodedUpToRequired
<1>1. /\ left = {} /\ row = 0 /\ pos \in Nat
      /\ Waiting(msg, pos, left) /\ DocSoFar(msg, pos, doc) /\ TableGiven(msg, pos, doc)
  BY DEF DecInv, DecTypeOK
<1>2. \A f \in Required : SetWithin(f, pos)
  BY <1>1 DEF Waiting, SetIn, SetWithin
<1>3. pos > 0
  BY <1>1, <1>2 DEF SetWithin, Required
<1>4. \E f \in Required : ~ SetWithin(f, pos - 1)
  BY <1>1, <1>3 DEF Waiting, SetIn, SetWithin
<1>5. \A f \in DocNames \ {"xdnsTable"} :
        \/ ~ SetWithin(f, pos) /\ doc[f] = NoDoc[f]
        \/ \E k \in 1..pos : LastSet(f, k, pos) /\ doc[f] = msg[k].val
  BY <1>1, Zenon DEF DocSoFar, Given, SetIn, SetWithin, LastIn, LastSet
<1>6. SetIn(msg, "xdnsTable", pos)
  BY <1>2 DEF Required, SetIn, SetWithin
<1>7. PICK k \in 1..pos : LastIn(msg, "xdnsTable", k, pos) /\ TableDone(msg[k].val, doc["xdnsTable"])
  BY <1>1, <1>6 DEF TableGiven
<1>8. /\ LastSet("xdnsTable", k, pos)
      /\ Len(doc["xdnsTable"]) = Len(msg[k].val)
      /\ \A i \in DOMAIN msg[k].val :
           msg[k].val[i] # NotAMap /\ RowRead(msg[k].val[i], doc["xdnsTable"][i])
  BY <1>7, Zenon DEF LastIn, LastSet, TableDone, RowDone
<1> QED
  BY <1>2, <1>4, <1>5, <1>8, Zenon DEF DecodedUpToRequired

\* The inductive invariant holds for every message.
THEOREM DecInvariant == DecSpec => []DecInv
<1>1. DecInit => DecInv
  BY DecInitInv
<1>2. DecInv /\ [DecNext]_decVars => DecInv'
  BY DecStepInv
<1> QED
  BY <1>1, <1>2, PTL DEF DecSpec

\* Types of the decoder's state: its loops never read behind the end of a map.
THEOREM DecTypeCorrect == DecSpec => []DecTypeOK
<1>1. DecInv => DecTypeOK
  BY DEF DecInv
<1> QED
  BY <1>1, DecInvariant, PTL

\* An accepted document is what the map says up to the entry with which the
\* flag and the table are both there.
THEOREM DecodedAsSent == DecSpec => []DecodedUpToRequired
<1>1. DecInv => DecodedUpToRequired
  BY AcceptedDecoded
<1> QED
  BY <1>1, DecInvariant, PTL

\* No message is refused that has the flag, the table, and a tag in every
\* element of every table.
THEOREM RefusedOnlyIncomplete == DecSpec => []RefusedForReason
<1>1. DecInv => RefusedForReason
  BY DEF DecInv
<1> QED
  BY <1>1, DecInvariant, PTL

=============================================================================
