------------------------ MODULE XdnsWebconfigProofs ------------------------
(***************************************************************************)
(* Theorems about XdnsWebconfig: what still holds of the data model and of *)
(* resolv.conf when documents from the cloud replace the policy next to    *)
(* the management thread.                                                  *)
(***************************************************************************)
EXTENDS XdnsWebconfig, XdnsKeyProofs

-----------------------------------------------------------------------------
(***************************************************************************)
(* What is read from a document and from the device is text.               *)
(***************************************************************************)

Pair == [v4 : Text, v6 : Text]

LEMMA WordsAreText ==
  /\ Loopback4 \in Text /\ Loopback6 \in Text /\ Token \subseteq Text /\ Ip \subseteq Text
  /\ WebMac \subseteq Text /\ "" \in Text
BY WebAssumption, WordsAssumption DEF Text, Ip

LEMMA DeviceType ==
  ASSUME NEW list \in Seq(Token)
  PROVE  xdns_read_dns_ip(list) \in Pair
<1> DEFINE at13 == {i \in {1, 3} : i <= Len(list)}
           four == {i \in at13 : list[i] \in Dotted}
           six == {i \in at13 : list[i] \in Compressed}
           a == IF 3 \in four THEN list[3] ELSE IF 1 \in four THEN list[1] ELSE ""
           b == IF 3 \in six THEN list[3] ELSE ""
<1>1. \A i \in at13 : list[i] \in Text
  <2> SUFFICES ASSUME NEW i \in {1, 3}, i <= Len(list) PROVE list[i] \in Text
    OBVIOUS
  <2>1. list[i] \in Token
    BY ElementOfSeq
  <2> QED
    BY <2>1, WordsAreText
<1>2. a \in Text /\ b \in Text
  BY <1>1, WordsAreText
<1>3. CASE 1 \in six
  <2>1. xdns_read_dns_ip(list) = [v4 |-> Loopback4, v6 |-> list[1]]
    BY <1>3 DEF xdns_read_dns_ip
  <2>2. list[1] \in Text /\ Loopback4 \in Text
    BY <1>1, <1>3, WordsAreText
  <2> QED
    BY <2>1, <2>2 DEF Pair
<1>4. CASE 1 \notin six
  <2>1. xdns_read_dns_ip(list) = [v4 |-> a, v6 |-> b]
    BY <1>4 DEF xdns_read_dns_ip
  <2> HIDE DEF a, b
  <2> QED
    BY <1>2, <2>1 DEF Pair
<1> QED
  BY <1>3, <1>4

LEMMA LoadType ==
  ASSUME NEW mode, NEW pair \in Pair
  PROVE  xdns_load_dns_ip(mode, pair).v4 \in Text /\ xdns_load_dns_ip(mode, pair).v6 \in Text
<1> DEFINE four == IF mode = 1 THEN Loopback4 ELSE pair.v4
           six == IF mode = 0 THEN Loopback6 ELSE pair.v6
           ok4 == mode \in KnownModes /\ Width[four] < STR_SIZE
           ok6 == ok4 /\ Width[six] < IPV6_STR_SIZE
           a == IF ok4 THEN four ELSE ""
           b == IF ok6 THEN six ELSE ""
<1>1. four \in Text /\ six \in Text /\ "" \in Text
  BY WordsAreText DEF Pair
<1> HIDE DEF four, six
<1>2. a \in Text /\ b \in Text
  BY <1>1
<1>3. xdns_load_dns_ip(mode, pair) = [ok |-> ok6, v4 |-> a, v6 |-> b]
  BY Zenon DEF xdns_load_dns_ip, four, six
<1> HIDE DEF a, b, ok6
<1> QED
  BY <1>2, <1>3

LEMMA NameserverType ==
  ASSUME NEW fs \in Files
  PROVE  Nameservers[fs.ns] \in Seq(Token)
<1> DEFINE narrow == {w \in Token : Width[w] < STR_SIZE}
<1>1. Nameservers[fs.ns] \in Seq(narrow)
  BY WebAssumption DEF Files
<1>2. narrow \subseteq Token
  OBVIOUS
<1> HIDE DEF narrow
<1> QED
  BY <1>1, <1>2, SeqMonotonic

LEMMA ReadLoadType ==
  ASSUME NEW fs \in Files, NEW mode, NEW v4, NEW v6
  PROVE  /\ xdns_read_load_dns_ip(fs, mode, v4, v6).v4 \in Text
         /\ xdns_read_load_dns_ip(fs, mode, v4, v6).v6 \in Text
<1> DEFINE device == xdns_read_dns_ip(Nameservers[fs.ns])
           usable == fs.resolvExists /\ device.v4 \in Ip /\ device.v6 \in Ip
           pair == IF v4 \in Ip THEN [device EXCEPT !.v4 = v4]
                   ELSE IF v6 \in Ip THEN [device EXCEPT !.v6 = v6]
                   ELSE device
<1>1. Nameservers[fs.ns] \in Seq(Token)
  BY NameserverType
<1>2. device \in Pair
  BY <1>1, DeviceType
<1>3. pair \in Pair
  <2> HIDE DEF device
  <2> QED
    BY <1>2, WordsAreText DEF Pair
<1>4. xdns_read_load_dns_ip(fs, mode, v4, v6)
        = IF usable THEN xdns_load_dns_ip(mode, pair)
          ELSE [ok |-> fs.resolvExists, v4 |-> "", v6 |-> ""]
  BY Zenon DEF xdns_read_load_dns_ip
<1> HIDE DEF pair, usable
<1>5. CASE usable
  BY <1>3, <1>4, <1>5, LoadType
<1>6. CASE ~ usable
  <2> DEFINE there == fs.resolvExists
             out == [ok |-> there, v4 |-> "", v6 |-> ""]
  <2>1. xdns_read_load_dns_ip(fs, mode, v4, v6) = out
    BY <1>4, <1>6
  <2> HIDE DEF there
  <2>2. out.v4 = "" /\ out.v6 = ""
    OBVIOUS
  <2> HIDE DEF out
  <2> QED
    BY <2>1, <2>2, WordsAreText
<1> QED
  BY <1>5, <1>6

\* A row of a document.
BlobRow == [mac : Given, v4 : Given, v6 : Given, tag : Given \cup {TooLong}]

LEMMA CopiedType ==
  ASSUME NEW row \in BlobRow
  PROVE  Copied(row) \in [RowFields -> Text]
<1> DEFINE val(f) ==
             CASE f = "mac" -> IF row.mac \in WebMac THEN row.mac ELSE ""
               [] f \in {"v4", "v6"} ->
                    IF row.mac \in WebMac /\ {row.v4, row.v6} \subseteq Ip THEN row[f] ELSE ""
               [] f = "tag" -> IF RowVerdict(row) = "ok" THEN row.tag ELSE ""
<1>2. RowVerdict(row) = "ok" => row.tag \in Text
  BY DEF RowVerdict, Cacheable
<1>3. val("mac") \in Text /\ val("v4") \in Text /\ val("v6") \in Text /\ val("tag") \in Text
  BY <1>2, WordsAreText
<1>4. Copied(row) = [f \in RowFields |-> val(f)]
  BY Zenon DEF Copied
<1> HIDE DEF val
<1> QED
  BY <1>3, <1>4 DEF RowFields

\* Whatever the document holds, the cache holds text.
LEMMA SetConfType ==
  ASSUME NEW blob \in Blob, NEW fs \in Files, NEW mode
  PROVE  /\ set_xdns_conf(blob, fs, mode).cache \in Cache
         /\ set_xdns_conf(blob, fs, mode).verdict \in {"ok", "invalid", "ignored", "crash"}
<1> DEFINE loaded == xdns_read_load_dns_ip(fs, mode, blob.v4, blob.v6)
           pair == IF {blob.v4, blob.v6} \subseteq Ip THEN [v4 |-> blob.v4, v6 |-> blob.v6]
                   ELSE IF {blob.v4, blob.v6} \subseteq Ip \cup {UseRdkDefault}
                   THEN [v4 |-> loaded.v4, v6 |-> loaded.v6]
                   ELSE [v4 |-> "", v6 |-> ""]
           first == DefaultVerdict(blob, loaded)
           bad == {i \in DOMAIN blob.table : RowVerdict(blob.table[i]) # "ok"}
           upTo(i) == \A j \in bad : i <= j
           stop == CHOOSE i \in bad : upTo(i)
           table == IF first # "ok" THEN << >>
                    ELSE [i \in DOMAIN blob.table |->
                            IF upTo(i) THEN Copied(blob.table[i]) ELSE NoRow]
           tag == IF first = "ok" THEN blob.tag ELSE ""
           verdict == IF first # "ok" THEN first
                      ELSE IF bad # {} THEN RowVerdict(blob.table[stop]) ELSE "ok"
<1>1. blob.enable \in BOOLEAN /\ blob.table \in Seq(BlobRow)
  BY DEF Blob, BlobRow
<1>2. pair.v4 \in Text /\ pair.v6 \in Text
  <2>1. loaded.v4 \in Text /\ loaded.v6 \in Text
    BY ReadLoadType
  <2> HIDE DEF loaded
  <2> QED
    BY <1>1, <2>1, WordsAreText
<1>3. tag \in Text
  <2> HIDE DEF loaded
  <2>1. first = "ok" => blob.tag \in Text
    BY DEF DefaultVerdict, Cacheable
  <2> QED
    BY <2>1, WordsAreText
<1>4. table \in Seq([RowFields -> Text])
  <2>1. DOMAIN blob.table = 1..Len(blob.table) /\ Len(blob.table) \in Nat
    BY <1>1, LenProperties
  <2>2. ASSUME NEW i \in DOMAIN blob.table
        PROVE  (IF upTo(i) THEN Copied(blob.table[i]) ELSE NoRow) \in [RowFields -> Text]
    <3>1. blob.table[i] \in BlobRow
      BY <1>1, <2>1, ElementOfSeq
    <3>2. NoRow \in [RowFields -> Text]
      BY WordsAreText DEF NoRow
    <3> QED
      BY <3>1, <3>2, CopiedType
  <2> HIDE DEF upTo, first
  <2> QED
    BY <2>1, <2>2
<1>5. verdict \in {"ok", "invalid", "ignored", "crash"}
  BY DEF DefaultVerdict, RowVerdict
<1>6. set_xdns_conf(blob, fs, mode) =
        [verdict |-> verdict,
         cache |-> [enable |-> blob.enable, v4 |-> pair.v4, v6 |-> pair.v6, tag |-> tag,
                    table |-> table]]
  BY Zenon DEF set_xdns_conf
<1> HIDE DEF pair, tag, table, verdict
<1> QED
  BY <1>1, <1>2, <1>3, <1>4, <1>5, <1>6 DEF Cache

LEMMA ClearType == clear_xdns_cache \in Cache
BY EmptySeq, WordsAreText DEF clear_xdns_cache, Cache

LEMMA LoadedType ==
  ASSUME NEW mode, NEW val, val["v4"] \in Text, val["v6"] \in Text
  PROVE  Loaded(mode, val).v4 \in Text /\ Loaded(mode, val).v6 \in Text
<1>1. [v4 |-> val["v4"], v6 |-> val["v6"]] \in Pair
  BY DEF Pair
<1> QED
  BY <1>1, LoadType DEF Loaded

LEMMA RowLoadedType ==
  ASSUME NEW mode, NEW val \in [RowFields -> Text]
  PROVE  RowLoaded(mode, val) \in [RowFields -> Text]
<1> DEFINE macOk == Width[val["mac"]] < STR_SIZE
           new(f) == CASE f = "mac" -> IF macOk THEN val["mac"] ELSE ""
                       [] f = "v4" -> IF macOk THEN Loaded(mode, val).v4 ELSE ""
                       [] f = "v6" -> IF macOk THEN Loaded(mode, val).v6 ELSE ""
                       [] f = "tag" -> IF RowLoads(mode, val) THEN val["tag"] ELSE ""
<1>1. /\ val["mac"] \in Text /\ val["v4"] \in Text /\ val["v6"] \in Text /\ val["tag"] \in Text
      /\ "" \in Text
  BY WordsAreText DEF RowFields
<1>2. Loaded(mode, val).v4 \in Text /\ Loaded(mode, val).v6 \in Text
  BY <1>1, LoadedType
<1>3. new("mac") \in Text /\ new("v4") \in Text /\ new("v6") \in Text /\ new("tag") \in Text
  <2> HIDE DEF macOk
  <2> QED
    BY <1>1, <1>2
<1>4. RowLoaded(mode, val) = [f \in RowFields |-> new(f)]
  BY Zenon DEF RowLoaded
<1> HIDE DEF new
<1> QED
  BY <1>3, <1>4 DEF RowFields

LEMMA InitCacheType ==
  ASSUME NEW mode, NEW flg, NEW d \in Defaults, NEW list \in Seq(Row)
  PROVE  init_xdns_cache(mode, flg, d, list) \in Cache
<1> DEFINE bad == {i \in DOMAIN list : ~ RowLoads(mode, list[i].val)}
           upTo(i) == \A j \in bad : i <= j
           table == IF ~ DefaultLoads(mode, d) THEN << >>
                    ELSE [i \in DOMAIN list |->
                            IF upTo(i) THEN RowLoaded(mode, list[i].val) ELSE NoRow]
           tag == IF DefaultLoads(mode, d) THEN d["tag"] ELSE ""
           a == Loaded(mode, d).v4
           b == Loaded(mode, d).v6
           on == flg = "1"
<1>1. d["v4"] \in Text /\ d["v6"] \in Text /\ tag \in Text
  BY WordsAreText DEF Defaults, DefaultFields
<1>2. a \in Text /\ b \in Text
  BY <1>1, LoadedType
<1>3. table \in Seq([RowFields -> Text])
  <2>1. DOMAIN list = 1..Len(list) /\ Len(list) \in Nat
    BY LenProperties
  <2>2. ASSUME NEW i \in DOMAIN list
        PROVE  (IF upTo(i) THEN RowLoaded(mode, list[i].val) ELSE NoRow) \in [RowFields -> Text]
    <3>1. list[i].val \in [RowFields -> Text]
      BY InsType DEF Row
    <3>2. NoRow \in [RowFields -> Text]
      BY WordsAreText DEF NoRow
    <3> HIDE DEF upTo
    <3> QED
      BY <3>1, <3>2, RowLoadedType
  <2> HIDE DEF upTo
  <2> QED
    BY <2>1, <2>2
<1>4. init_xdns_cache(mode, flg, d, list)
        = [enable |-> on, v4 |-> a, v6 |-> b, tag |-> tag, table |-> table]
  BY Zenon DEF init_xdns_cache
<1>5. on \in BOOLEAN
  OBVIOUS
<1> HIDE DEF on, a, b, tag, table
<1> QED
  BY <1>1, <1>2, <1>3, <1>4, <1>5 DEF Cache

LEMMA DefaultRowType ==
  ASSUME NEW c \in Cache
  PROVE  DefaultRow(c) \in [RowFields -> Text]
<1>1. DefaultMac \in Text /\ c.v4 \in Text /\ c.v6 \in Text /\ c.tag \in Text
  BY AddressesAreText DEF Cache
<1> QED
  BY <1>1 DEF DefaultRow, RowFields

LEMMA PrintedType ==
  ASSUME NEW list \in Seq([RowFields -> Text])
  PROVE  Printed(list) \in Seq(Line)
<1> DEFINE kept == Keep(list, Fitting)
           line(i) == Override(kept[i]["mac"], kept[i]["v4"], kept[i]["v6"], kept[i]["tag"])
<1>1. kept \in Seq([RowFields -> Text])
  BY KeepSub
<1> HIDE DEF kept
<1>2. DOMAIN kept = 1..Len(kept) /\ Len(kept) \in Nat
  BY <1>1, LenProperties
<1>3. ASSUME NEW i \in DOMAIN kept PROVE line(i) \in Line
  <2>1. kept[i] \in [RowFields -> Text]
    BY <1>1, <1>2, ElementOfSeq
  <2>2. /\ kept[i]["mac"] \in Text /\ kept[i]["v4"] \in Text
        /\ kept[i]["v6"] \in Text /\ kept[i]["tag"] \in Text
    BY <2>1 DEF RowFields
  <2> QED
    BY <2>2, OverrideType
<1>4. Printed(list) = [i \in DOMAIN kept |-> line(i)]
  BY Zenon DEF Printed, kept
<1> HIDE DEF line
<1> QED
  BY <1>2, <1>3, <1>4

LEMMA PolicyLinesType ==
  ASSUME NEW c \in Cache
  PROVE  PolicyLines(c) \in Seq(Line)
<1> DEFINE row == DefaultRow(c)
           R == [RowFields -> Text]
<1>1. row \in R /\ c.table \in Seq(R)
  BY DefaultRowType DEF Cache
<1> HIDE DEF row, R
<1>2. <<row>> \in Seq(R)
  BY <1>1
<1>3. <<row>> \o c.table \in Seq(R)
  BY <1>1, <1>2, ConcatProperties
<1> QED
  BY <1>3, PrintedType DEF PolicyLines, row, R

-----------------------------------------------------------------------------
(***************************************************************************)
(* The inductive invariant.  A document replaces the rows by those of the  *)
(* files and starts the instance numbers again, so the order of the list   *)
(* needs no more than it does in XdnsDml.                                  *)
(***************************************************************************)
WorkerOK ==
  /\ cache \in Cache /\ bck \in Cache
  /\ at \in Phases /\ undo \in BOOLEAN
  /\ doc \in Blobs \cup {NoBlob}
  /\ at # "idle" => doc \in Blobs
  /\ prior \in [conf : Seq(Line), flag : Flag]

WebInv == DmlInv /\ WorkerOK

LEMMA NoPolicyType == NoPolicy \in [conf : Seq(Line), flag : Flag]
BY EmptySeq DEF NoPolicy, Flag

LEMMA AppliedOK ==
  ASSUME WorkerOK, at # "idle", NEW success \in BOOLEAN, Applied(success),
         UNCHANGED bck
  PROVE  WorkerOK'
<1>1. CASE undo
  BY <1>1, NoPolicyType DEF Applied, WorkerOK, Phases
<1>2. CASE ~ undo
  BY <1>2 DEF Applied, WorkerOK, Phases
<1> QED
  BY <1>1, <1>2

LEMMA SourceType ==
  ASSUME WorkerOK
  PROVE  Source \in Cache
BY DEF WorkerOK, Source

LEMMA DmlFiles ==
  ASSUME DmlInv, files' \in Files, UNCHANGED <<flag, flash, dflt, changed, rows, nextIns>>
  PROVE  DmlInv'
<1>1. TypeOK'
  BY DEF DmlInv, TypeOK
<1> QED
  BY <1>1, OrderUnchanged

LEMMA ProcessInv ==
  ASSUME WebInv, NEW blob \in Blobs, NEW mode, Process_XDNS_WebConfigRequest(blob, mode)
  PROVE  WebInv' /\ files' = files
<1> DEFINE read == set_xdns_conf(blob, files, mode)
<1>1. /\ read.verdict # "crash"
      /\ doc' = blob /\ bck' = cache /\ cache' = read.cache
      /\ at' = CASE read.verdict = "ok" -> "open"
                  [] read.verdict = "invalid" -> "refused"
                  [] read.verdict = "ignored" -> "done"
      /\ prior' = [conf |-> files.conf, flag |-> flag]
      /\ UNCHANGED <<files, flag, flash, dflt, changed, rows, nextIns, undo>>
  BY DEF Process_XDNS_WebConfigRequest, vars
<1>2. blob \in Blob /\ files \in Files /\ flag \in Flag
  BY WebAssumption DEF WebInv, DmlInv, TypeOK
<1>3. read.cache \in Cache /\ read.verdict \in {"ok", "invalid", "ignored", "crash"}
  BY <1>2, SetConfType
<1> HIDE DEF read
<1>4. DmlInv'
  BY <1>1, <1>2, DmlFiles DEF WebInv
<1>5. prior' \in [conf : Seq(Line), flag : Flag]
  BY <1>1, <1>2 DEF Files
<1>6. WorkerOK'
  BY <1>1, <1>3, <1>5 DEF WebInv, WorkerOK, Phases
<1> QED
  BY <1>1, <1>4, <1>6 DEF WebInv

LEMMA OpenInv ==
  ASSUME WebInv, OpenConf
  PROVE  WebInv' /\ files' \in {files, [files EXCEPT !.confExists = TRUE, !.conf = << >>]}
<1>1. files \in Files
  BY DEF WebInv, DmlInv, TypeOK
<1>2. [files EXCEPT !.confExists = TRUE, !.conf = << >>] \in Files
  BY <1>1, EmptySeq DEF Files
<1>3. /\ at = "open"
      /\ UNCHANGED <<flag, flash, dflt, changed, rows, nextIns, bck>>
      /\ \/ /\ files' = [files EXCEPT !.confExists = TRUE, !.conf = << >>]
            /\ at' = "fill" /\ UNCHANGED <<undo, cache, doc, prior>>
         \/ files' = files /\ Applied(FALSE)
  BY DEF OpenConf
<1>4. DmlInv'
  BY <1>1, <1>2, <1>3, DmlFiles DEF WebInv
<1>5. WorkerOK'
  BY <1>3, AppliedOK DEF WebInv, WorkerOK, Phases
<1> QED
  BY <1>3, <1>4, <1>5 DEF WebInv

LEMMA FillInv ==
  ASSUME WebInv, FillConf
  PROVE  WebInv' /\ files' = [files EXCEPT !.conf = PolicyLines(Source)]
<1>1. files \in Files /\ PolicyLines(Source) \in Seq(Line)
  BY SourceType, PolicyLinesType DEF WebInv, DmlInv, TypeOK
<1>2. [files EXCEPT !.conf = PolicyLines(Source)] \in Files
  BY <1>1 DEF Files
<1>3. /\ at = "fill" /\ at' = "switch"
      /\ files' = [files EXCEPT !.conf = PolicyLines(Source)]
      /\ UNCHANGED <<flag, flash, dflt, changed, rows, nextIns, cache, bck, undo, doc, prior>>
  BY DEF FillConf
<1>4. DmlInv'
  BY <1>2, <1>3, DmlFiles DEF WebInv
<1>5. WorkerOK'
  BY <1>3 DEF WebInv, WorkerOK, Phases
<1> QED
  BY <1>3, <1>4, <1>5 DEF WebInv

LEMMA SwitchInv ==
  ASSUME WebInv, SwitchFiles
  PROVE  WebInv' /\ files' \in {files, SetXdnsConfig(files).fs, UnsetXdnsConfig(files)}
<1>1. files \in Files
  BY DEF WebInv, DmlInv, TypeOK
<1>2. /\ at = "switch" /\ at' \in {"restart", "save"}
      /\ files' \in {files, SetXdnsConfig(files).fs, UnsetXdnsConfig(files)}
      /\ UNCHANGED <<flag, flash, dflt, changed, rows, nextIns, cache, bck, undo, doc, prior>>
  BY DEF SwitchFiles
<1>3. DmlInv'
  BY <1>1, <1>2, SetType, UnsetType, DmlFiles DEF WebInv
<1>4. WorkerOK'
  BY <1>2 DEF WebInv, WorkerOK, Phases
<1> QED
  BY <1>2, <1>3, <1>4 DEF WebInv

LEMMA StoreInv ==
  ASSUME WebInv, StoreFlag
  PROVE  WebInv' /\ files' = files
<1>1. /\ at = "save"
      /\ UNCHANGED <<files, dflt, changed, rows, nextIns, bck>>
      /\ \/ at' = "restart" /\ UNCHANGED <<undo, cache, doc, prior>>
         \/ Applied(FALSE)
  BY DEF StoreFlag
<1>2. flag' \in Flag /\ flash' \in Flag
  BY DEF StoreFlag, WebInv, DmlInv, TypeOK, Flag
<1>3. TypeOK'
  BY <1>1, <1>2 DEF WebInv, DmlInv, TypeOK
<1>4. DmlInv'
  BY <1>1, <1>3, OrderUnchanged DEF WebInv
<1>5. WorkerOK'
  BY <1>1, AppliedOK DEF WebInv, WorkerOK, Phases
<1> QED
  BY <1>1, <1>4, <1>5 DEF WebInv

LEMMA ReinitializeInv ==
  ASSUME WebInv, Reinitialize
  PROVE  WebInv' /\ files' = CosaXDNSInitialize(files, flag, dflt).fs
<1> DEFINE s == CosaXDNSInitialize(files, flag, dflt)
<1>1. /\ at = "restart" /\ Applied(TRUE)
      /\ files' = s.fs /\ dflt' = s.dflt /\ rows' = s.rows /\ nextIns' = s.nextIns
      /\ UNCHANGED <<flag, flash, changed, bck>>
  BY DEF Reinitialize
<1>2. files \in Files /\ dflt \in Defaults
  BY DEF WebInv, DmlInv, TypeOK, Defaults
<1>3. /\ s.fs \in Files
      /\ s.dflt \in Defaults
      /\ s.rows \in Seq(Row)
      /\ s.nextIns \in Nat \ {0}
      /\ \A i \in DOMAIN s.rows : s.rows[i].ins = i /\ i < s.nextIns
  BY <1>2, InitializeType
<1> HIDE DEF s
<1>4. TypeOK'
  BY <1>1, <1>3 DEF WebInv, DmlInv, TypeOK, Defaults
<1>5. InstanceOrder'
  BY <1>1, <1>3 DEF InstanceOrder
<1>6. WorkerOK'
  BY <1>1, AppliedOK DEF WebInv
<1> QED
  BY <1>1, <1>4, <1>5, <1>6 DEF WebInv, DmlInv, s

LEMMA AcknowledgeInv ==
  ASSUME WebInv, Acknowledge
  PROVE  WebInv' /\ files' = files
<1>1. /\ at = "done" /\ at' = "idle" /\ doc' = NoBlob /\ prior' = NoPolicy
      /\ flash' \in {flag, flash}
      /\ UNCHANGED <<files, flag, dflt, changed, rows, nextIns, cache, bck, undo>>
  BY DEF Acknowledge
<1>2. TypeOK'
  BY <1>1 DEF WebInv, DmlInv, TypeOK
<1>3. DmlInv'
  BY <1>1, <1>2, OrderUnchanged DEF WebInv
<1>4. WorkerOK'
  BY <1>1, NoPolicyType DEF WebInv, WorkerOK, Phases
<1> QED
  BY <1>1, <1>3, <1>4 DEF WebInv

LEMMA RefuseInv ==
  ASSUME WebInv, Refuse
  PROVE  WebInv' /\ files' = files
<1>1. /\ at = "refused" /\ at' = "open" /\ undo' = TRUE
      /\ UNCHANGED <<files, flag, flash, dflt, changed, rows, nextIns, cache, bck, doc, prior>>
  BY DEF Refuse, vars
<1>2. DmlInv'
  BY <1>1, DmlFiles DEF WebInv, DmlInv, TypeOK
<1>3. WorkerOK'
  BY <1>1 DEF WebInv, WorkerOK, Phases
<1> QED
  BY <1>1, <1>2, <1>3 DEF WebInv

LEMMA ManagementInv ==
  ASSUME WebInv, Management
  PROVE  WebInv' /\ Next
<1>1. Next /\ UNCHANGED webVars
  BY DEF Management, Next
<1>2. DmlInv'
  BY <1>1, StepInv DEF WebInv
<1>3. WorkerOK'
  BY <1>1 DEF WebInv, WorkerOK, webVars
<1> QED
  BY <1>1, <1>2, <1>3 DEF WebInv

\* An address that is NULL is one more way to start again.
LEMMA NullStarts ==
  ASSUME NEW blob, NEW mode, NullAddress(blob, mode)
  PROVE  ProcessStart
BY DEF NullAddress, ProcessStart, StartAgain

LEMMA ProcessStartInv ==
  ASSUME WebInv, ProcessStart
  PROVE  WebInv' /\ Next
<1>1. Next
  BY DEF ProcessStart, Next
<1>2. DmlInv'
  BY <1>1, StepInv DEF WebInv
<1>3. PICK mode \in RouterModes : cache' = init_xdns_cache(mode, flag', dflt', rows')
  BY DEF ProcessStart, WorkerStarts
<1>4. dflt' \in Defaults /\ rows' \in Seq(Row)
  BY <1>2 DEF DmlInv, TypeOK, Defaults
<1>5. cache' \in Cache
  BY <1>3, <1>4, InitCacheType
<1>6. WorkerOK'
  BY <1>5, ClearType, NoPolicyType DEF ProcessStart, WorkerStarts, WorkerOK, Phases
<1> QED
  BY <1>1, <1>2, <1>6 DEF WebInv

LEMMA WebInitInv ==
  ASSUME WebInit
  PROVE  WebInv
<1>1. DmlInv
  BY InitInv DEF WebInit
<1>2. PICK mode \in RouterModes : cache = init_xdns_cache(mode, flag, dflt, rows)
  BY DEF WebInit
<1>3. cache \in Cache
  BY <1>1, <1>2, InitCacheType DEF DmlInv, TypeOK, Defaults
<1>4. WorkerOK
  BY <1>3, ClearType, NoPolicyType DEF WebInit, WorkerOK, Phases
<1> QED
  BY <1>1, <1>4 DEF WebInv

LEMMA WebStepInv ==
  ASSUME WebInv, [WebNext]_allVars
  PROVE  WebInv'
<1>1. ASSUME NEW blob \in Blobs, NEW mode \in RouterModes,
             Process_XDNS_WebConfigRequest(blob, mode)
      PROVE  WebInv'
  BY <1>1, ProcessInv
<1>2. CASE WorkerStep
  BY <1>2, OpenInv, FillInv, SwitchInv, StoreInv, ReinitializeInv, AcknowledgeInv, RefuseInv
     DEF WorkerStep
<1>3. CASE Management
  BY <1>3, ManagementInv
<1>4. CASE ProcessStart
  BY <1>4, ProcessStartInv
<1>5. CASE UNCHANGED allVars
  BY <1>5 DEF allVars, vars, webVars, WebInv, DmlInv, TypeOK, InstanceOrder, WorkerOK
<1> QED
  BY <1>1, <1>2, <1>3, <1>4, <1>5, NullStarts DEF WebNext

THEOREM WebInvariant == WebSpec => []WebInv
<1>1. WebInit => WebInv
  BY WebInitInv
<1>2. WebInv /\ [WebNext]_allVars => WebInv'
  BY WebStepInv
<1> QED
  BY <1>1, <1>2, PTL DEF WebSpec

\* The caches hold text, and a worker that is not idle has a document.
THEOREM WebTypeCorrect == WebSpec => []WebTypeOK
<1>1. WebInv => WebTypeOK
  BY DEF WebInv, DmlInv, WorkerOK, WebTypeOK
<1> QED
  BY <1>1, WebInvariant, PTL

\* The device table stays sorted below the next instance number, also when a
\* document replaces it between or during the calls of the management thread,
\* and when the process dies before it is done.
THEOREM WebInstancesOrdered == WebSpec => []InstanceOrder
<1>1. WebInv => InstanceOrder
  BY DEF WebInv, DmlInv
<1> QED
  BY <1>1, WebInvariant, PTL

-----------------------------------------------------------------------------
(***************************************************************************)
(* What dnsmasq is given.                                                  *)
(***************************************************************************)
LEMMA WorkerValid ==
  ASSUME WebInv, GivenValid(files), WorkerStep
  PROVE  GivenValid(files')
<1>1. files \in Files /\ dflt \in Defaults
  BY DEF WebInv, DmlInv, TypeOK, Defaults
<1>2. CASE OpenConf
  BY <1>1, <1>2, OpenInv DEF GivenValid, Files
<1>3. CASE FillConf
  BY <1>1, <1>3, FillInv DEF GivenValid, Files
<1>4. CASE SwitchFiles
  <2>1. GivenValid(UnsetXdnsConfig(files))
    BY <1>1, EmptySeq DEF GivenValid, UnsetXdnsConfig, Files
  <2> QED
    BY <1>1, <1>4, <2>1, SwitchInv, SetValid
<1>5. CASE StoreFlag \/ Acknowledge \/ Refuse
  BY <1>5, StoreInv, AcknowledgeInv, RefuseInv
<1>6. CASE Reinitialize
  BY <1>1, <1>6, ReinitializeInv, InitializeValid
<1> QED
  BY <1>2, <1>3, <1>4, <1>5, <1>6 DEF WorkerStep

LEMMA WebStepValid ==
  ASSUME WebInv, GivenValid(files), [WebNext]_allVars
  PROVE  GivenValid(files')
<1>1. ASSUME NEW blob \in Blobs, NEW mode \in RouterModes,
             Process_XDNS_WebConfigRequest(blob, mode)
      PROVE  GivenValid(files')
  BY <1>1, ProcessInv
<1>2. CASE WorkerStep
  BY <1>2, WorkerValid
<1>3. CASE Management
  BY <1>3, ManagementInv, StepValid DEF WebInv
<1>4. CASE ProcessStart
  BY <1>4, ProcessStartInv, StepValid DEF WebInv
<1>5. CASE UNCHANGED allVars
  BY <1>5 DEF allVars, vars
<1> QED
  BY <1>1, <1>2, <1>3, <1>4, <1>5, NullStarts DEF WebNext

\* dnsmasq is never given an override line with an address inet_pton refuses,
\* whatever the documents hold, however the two threads interleave at the
\* worker's steps, whatever fails and wherever the process dies.
THEOREM WebOverridesValid == WebSpec => []OnlyValidOverrides
<1> DEFINE Inv == WebInv /\ GivenValid(files)
<1>1. WebInit => Inv
  <2> SUFFICES ASSUME WebInit PROVE Inv
    OBVIOUS
  <2>1. PICK fs \in Files : fs.overrides = << >> /\ files = CosaXDNSInitialize(fs, flag, NoDefaults).fs
    BY InitFiles DEF WebInit
  <2>2. GivenValid(fs)
    BY <2>1, EmptySeq DEF GivenValid
  <2> QED
    BY <2>1, <2>2, InitializeValid, NoDefaultsType, WebInitInv
<1>2. Inv /\ [WebNext]_allVars => Inv'
  BY WebStepInv, WebStepValid DEF GivenValid
<1>3. Inv => OnlyValidOverrides
  <2> SUFFICES ASSUME files.overrides \in Seq(ValidLines),
                      NEW i \in DOMAIN files.overrides
               PROVE  files.overrides[i] \in ValidLines
    BY DEF GivenValid, OnlyValidOverrides
  <2> QED
    BY LenProperties, ElementOfSeq
<1> QED
  BY <1>1, <1>2, <1>3, PTL DEF WebSpec

-----------------------------------------------------------------------------
(***************************************************************************)
(* The two files between two documents.  While a document is executed they *)
(* are out of step; what is kept is that dnsmasq_servers.conf exists from  *)
(* the first step on, and that resolv.conf has no override lines while the *)
(* flag, or the value about to be stored in it, is off.  The refresh of    *)
(* CosaXDNSInitialize then needs no more.                                  *)
(***************************************************************************)
Settling ==
  /\ at \in {"idle", "open", "refused", "done"} => Agree(files, flag)
  /\ at \in {"fill", "switch", "save", "restart"} => files.confExists
  /\ at \in {"fill", "switch", "restart"} => CleanWhenOff(files, flag)
  /\ at = "save" => CleanWhenOff(files, IF Source.enable THEN "1" ELSE "0")

LEMMA AgreeIsClean ==
  ASSUME NEW fs, NEW flg, Agree(fs, flg)
  PROVE  CleanWhenOff(fs, flg)
BY DEF Agree, CleanWhenOff

LEMMA WorkerSettling ==
  ASSUME SyscfgOutcomes \subseteq {"ok"}, WebInv, Settling, WorkerStep
  PROVE  Settling'
<1>1. files \in Files /\ dflt \in Defaults
  BY DEF WebInv, DmlInv, TypeOK, Defaults
<1>2. CASE OpenConf
  <2>1. at = "open" /\ flag' = flag /\ Agree(files, flag) /\ CleanWhenOff(files, flag)
    BY <1>2, AgreeIsClean DEF OpenConf, Settling
  <2>2. CASE files' = [files EXCEPT !.confExists = TRUE, !.conf = << >>] /\ at' = "fill"
    <3>1. files'.confExists /\ CleanWhenOff(files', flag')
      BY <1>1, <2>1, <2>2 DEF CleanWhenOff, Files
    <3> QED
      BY <2>2, <3>1 DEF Settling
  <2>3. CASE files' = files /\ Applied(FALSE)
    <3>1. at' \in {"idle", "refused"}
      BY <2>3 DEF Applied
    <3> QED
      BY <2>1, <2>3, <3>1 DEF Settling
  <2> QED
    BY <1>2, <2>2, <2>3 DEF OpenConf
<1>3. CASE FillConf
  <2>1. at = "fill" /\ at' = "switch" /\ flag' = flag
        /\ files' = [files EXCEPT !.conf = PolicyLines(Source)]
    BY <1>3 DEF FillConf
  <2>2. files.confExists /\ CleanWhenOff(files, flag)
    BY <2>1 DEF Settling
  <2>3. files'.confExists /\ CleanWhenOff(files', flag')
    BY <1>1, <2>1, <2>2 DEF CleanWhenOff, Files
  <2> QED
    BY <2>1, <2>3 DEF Settling
<1>4. CASE SwitchFiles
  <2>1. at = "switch" /\ flag' = flag /\ Source' = Source
        /\ files.confExists /\ CleanWhenOff(files, flag)
    BY <1>4 DEF SwitchFiles, Settling, Source
  <2>2. CASE at' = "restart" /\ files' = files
    BY <2>1, <2>2 DEF Settling
  <2>3. CASE at' = "save" /\ Source.enable /\ files' = SetXdnsConfig(files).fs
    <3>1. files'.confExists
      BY <1>1, <2>1, <2>3 DEF SetXdnsConfig, Files
    <3>2. CleanWhenOff(files', "1")
      BY DEF CleanWhenOff
    <3> QED
      BY <2>1, <2>3, <3>1, <3>2 DEF Settling
  <2>4. CASE at' = "save" /\ ~ Source.enable /\ files' = UnsetXdnsConfig(files)
    <3>1. files'.confExists /\ CleanWhenOff(files', "0")
      BY <1>1, <2>1, <2>4 DEF UnsetXdnsConfig, CleanWhenOff, Files
    <3> QED
      BY <2>1, <2>4, <3>1 DEF Settling
  <2> QED
    BY <1>4, <2>2, <2>3, <2>4 DEF SwitchFiles
<1>5. CASE StoreFlag
  <2>1. /\ at = "save" /\ at' = "restart" /\ files' = files
        /\ flag' = IF Source.enable THEN "1" ELSE "0"
    BY <1>5 DEF StoreFlag
  <2>2. files.confExists /\ CleanWhenOff(files', flag')
    BY <2>1 DEF Settling
  <2> QED
    BY <2>1, <2>2 DEF Settling
<1>6. CASE Reinitialize
  <2>1. /\ at = "restart" /\ at' \in {"idle", "done"} /\ flag' = flag
        /\ files' = CosaXDNSInitialize(files, flag, dflt).fs
    BY <1>6 DEF Reinitialize, Applied
  <2>2. files.confExists /\ CleanWhenOff(files, flag)
    BY <2>1 DEF Settling
  <2>3. Agree(files', flag')
    BY <1>1, <2>1, <2>2, InitializeAgree
  <2> QED
    BY <2>1, <2>3 DEF Settling
<1>7. CASE Acknowledge
  <2>1. at = "done" /\ at' = "idle" /\ files' = files /\ flag' = flag
    BY <1>7 DEF Acknowledge
  <2> QED
    BY <2>1 DEF Settling
<1>8. CASE Refuse
  <2>1. at = "refused" /\ at' = "open" /\ files' = files /\ flag' = flag
    BY <1>8 DEF Refuse, vars
  <2> QED
    BY <2>1 DEF Settling
<1> QED
  BY <1>2, <1>3, <1>4, <1>5, <1>6, <1>7, <1>8 DEF WorkerStep

LEMMA WebStepSettling ==
  ASSUME SyscfgOutcomes \subseteq {"ok"}, Interference \subseteq {"management"},
         WebInv, Settling, [WebNext]_allVars
  PROVE  Settling'
<1>1. ASSUME at = "idle", at' = "idle", Next
      PROVE  Settling'
  BY <1>1, StepAgree DEF Settling, WebInv
<1>2. ASSUME NEW blob \in Blobs, NEW mode \in RouterModes,
             Process_XDNS_WebConfigRequest(blob, mode)
      PROVE  Settling'
  <2>1. at = "idle" /\ files' = files /\ flag' = flag
    BY <1>2 DEF Process_XDNS_WebConfigRequest, vars
  <2>2. at' \in {"open", "refused", "done"}
    <3> DEFINE verdict == set_xdns_conf(blob, files, mode).verdict
    <3>1. /\ blob \in Blob /\ files \in Files
      BY WebAssumption DEF WebInv, DmlInv, TypeOK
    <3>2. verdict \in {"ok", "invalid", "ignored", "crash"}
      BY <3>1, SetConfType
    <3>3. verdict # "crash" /\ at' = CASE verdict = "ok" -> "open"
                  [] verdict = "invalid" -> "refused"
                  [] verdict = "ignored" -> "done"
      BY <1>2 DEF Process_XDNS_WebConfigRequest
    <3> HIDE DEF verdict
    <3> QED
      BY <3>2, <3>3
  <2> QED
    BY <2>1, <2>2 DEF Settling
<1>3. CASE WorkerStep
  BY <1>3, WorkerSettling
<1>4. CASE Management
  <2>1. at = "idle" /\ at' = "idle"
    BY <1>4 DEF Management, webVars
  <2> QED
    BY <1>1, <1>4, <2>1, ManagementInv
<1>5. CASE ProcessStart
  <2>1. at = "idle" /\ at' = "idle"
    BY <1>5 DEF ProcessStart, WorkerStarts
  <2> QED
    BY <1>1, <1>5, <2>1, ProcessStartInv
<1>6. CASE UNCHANGED allVars
  BY <1>6 DEF allVars, vars, webVars, Settling, Source
<1> QED
  BY <1>2, <1>3, <1>4, <1>5, <1>6, NullStarts DEF WebNext

\* With a syscfg that works, on erouter0, and with handlers of the management
\* thread only between two documents: a document may be refused at any point,
\* ignored or rolled back, and the two files are in step when it has ended.
THEOREM WebSettled ==
  ASSUME SyscfgOutcomes \subseteq {"ok"}, WanStates \subseteq {"erouter"},
         Interference \subseteq {"management"}
  PROVE  WebSpec => []SettledInStep
<1> DEFINE Inv == WebInv /\ Settling
<1>1. WebInit => Inv
  <2> SUFFICES ASSUME WebInit PROVE Inv
    OBVIOUS
  <2>1. Agree(files, flag) /\ at = "idle"
    BY InitFiles, FreshAgree DEF WebInit
  <2> QED
    BY <2>1, WebInitInv DEF Settling
<1>2. Inv /\ [WebNext]_allVars => Inv'
  BY WebStepInv, WebStepSettling
<1>3. Inv => SettledInStep
  BY DEF Settling, Agree, SettledInStep, FilesInStep
<1> QED
  BY <1>1, <1>2, <1>3, PTL DEF WebSpec


-----------------------------------------------------------------------------
(***************************************************************************)
(* When the commit of the flag fails.  apply_XDNS_cache_ToDB then returns  *)
(* before it runs CosaXDNSInitialize, and the flag may be on although      *)
(* SetXdnsConfig has refused a stored policy without a valid default line. *)
(* That is the only way the files can be out of step, it lasts until       *)
(* something refreshes resolv.conf, and no handler makes it worse.         *)
(***************************************************************************)
NoDefaultLine(fs) == \A i \in DOMAIN fs.conf : fs.conf[i] \notin ValidDefaults

Undecided(fs, flg) == fs.confExists /\ CleanWhenOff(fs, flg) /\ NoDefaultLine(fs)

Settled(fs, flg) == Agree(fs, flg) \/ Undecided(fs, flg)

LEMMA SettledClean ==
  ASSUME NEW fs, NEW flg, Settled(fs, flg)
  PROVE  CleanWhenOff(fs, flg) /\ (~ fs.confExists => Agree(fs, flg))
BY AgreeIsClean DEF Settled, Undecided

\* SetXdnsConfig that finds no valid default line leaves resolv.conf alone.
LEMMA SetSettled ==
  ASSUME NEW fs \in Files, NEW flg, flg # "1", CleanWhenOff(fs, flg), fs.confExists
  PROVE  /\ SetXdnsConfig(fs).result => Agree(SetXdnsConfig(fs).fs, "1")
         /\ ~ SetXdnsConfig(fs).result =>
              /\ Settled(SetXdnsConfig(fs).fs, flg)
              /\ Settled(SetXdnsConfig(fs).fs, "1")
<1>1. CASE ~ fs.resolvExists
  BY <1>1 DEF SetXdnsConfig, Settled, Agree
<1>2. CASE fs.resolvExists
  <2> DEFINE valid == Keep(fs.conf, ValidLines)
  <2>1. Agree(fs, flg)
    BY <1>2 DEF Agree, CleanWhenOff
  <2>2. /\ SetXdnsConfig(fs).result => Agree(SetXdnsConfig(fs).fs, "1")
        /\ SetXdnsConfig(fs).result <=> Keep(valid, ValidDefaults) # << >>
    BY <1>2, <2>1, SetAgree DEF SetXdnsConfig
  <2>3. ASSUME Keep(valid, ValidDefaults) = << >>
        PROVE  Undecided(SetXdnsConfig(fs).fs, flg) /\ Undecided(SetXdnsConfig(fs).fs, "1")
    <3>1. SetXdnsConfig(fs).fs = [fs EXCEPT !.conf = valid, !.overrides = fs.overrides]
      BY <1>2, <2>3 DEF SetXdnsConfig, Files
    <3>2. valid \in Seq(Line)
      BY KeepSub DEF Files
    <3>3. \A i \in DOMAIN valid : valid[i] \notin ValidDefaults
      <4> HIDE DEF valid
      <4> QED
        BY <2>3, <3>2, KeepFinds
    <3> HIDE DEF valid
    <3>4. /\ SetXdnsConfig(fs).fs.conf = valid /\ SetXdnsConfig(fs).fs.overrides = fs.overrides
          /\ SetXdnsConfig(fs).fs.confExists
      BY <3>1 DEF Files
    <3>5. fs.overrides = << >>
      BY <1>2 DEF CleanWhenOff
    <3> QED
      BY <3>3, <3>4, <3>5, Zenon DEF Undecided, CleanWhenOff, NoDefaultLine
  <2> QED
    BY <2>2, <2>3 DEF Settled
<1> QED
  BY <1>1, <1>2

LEMMA ReplaceSettled ==
  ASSUME NEW fs \in Files, NEW flg, NEW mac, NEW lines \in Seq(Line), Settled(fs, flg)
  PROVE  Settled(ReplaceDnsmasqConfEntry(fs, flg, mac, lines), flg)
<1> DEFINE kept == [fs EXCEPT !.conf = Keep(@, Line \ Mentioning(mac))]
<1>1. Keep(fs.conf, Line \ Mentioning(mac)) \in Seq(Line)
  BY KeepSub DEF Files
<1>2. kept \in Files /\ CleanWhenOff(kept, flg)
  BY <1>1, SettledClean DEF Files, CleanWhenOff
<1>3. CASE mac = ""
  BY <1>3 DEF ReplaceDnsmasqConfEntry
<1>4. CASE mac # ""
  <2>1. ReplaceDnsmasqConfEntry(fs, flg, mac, lines)
          = RefreshResolvConfEntry(AppendDnsmasqConfEntry(kept, lines), flg)
    BY <1>4 DEF ReplaceDnsmasqConfEntry
  <2> HIDE DEF kept
  <2> QED
    BY <1>2, <2>1, ChangedAgree DEF Settled
<1> QED
  BY <1>3, <1>4

LEMMA CreateSettled ==
  ASSUME NEW fs \in Files, NEW flg, NEW d \in Defaults, Settled(fs, flg)
  PROVE  Settled(CreateDnsmasqServerConf(fs, flg, d).fs, flg)
<1>1. CleanWhenOff(fs, flg)
  BY SettledClean
<1>2. ASSUME NEW lines \in Seq(EntriesOf(DefaultMac)),
             CreateDnsmasqServerConf(fs, flg, d).fs
               = RefreshResolvConfEntry(AppendDnsmasqConfEntry(fs, lines), flg)
      PROVE  Settled(CreateDnsmasqServerConf(fs, flg, d).fs, flg)
  BY <1>1, <1>2, EntriesAreLines, ChangedAgree DEF Settled
<1> QED
  BY <1>2, CreateCases

\* Every handler, restart and reboot leaves the files in step, or undecided.
LEMMA StepSettled ==
  ASSUME "setFails" \notin SyscfgOutcomes, DmlInv, Settled(files, flag), [Next]_vars
  PROVE  Settled(files', flag')
<1>0. CASE Agree(files, flag)
  BY <1>0, StepAgree DEF Settled
<1> SUFFICES ASSUME Undecided(files, flag) PROVE Settled(files', flag')
  BY <1>0 DEF Settled
<1>1. FileStep /\ files \in Files /\ dflt \in Defaults
  BY StepFiles DEF DmlInv, TypeOK, Defaults
<1>2. CASE FilesKept
  BY <1>2 DEF FilesKept
<1>3. CASE FilesReplaced
  BY <1>1, <1>3, EntriesAreLines, ReplaceSettled DEF FilesReplaced
<1>4. CASE FilesCreated
  BY <1>1, <1>4, CreateSettled DEF FilesCreated
<1>5. CASE FilesSet
  <2>1. PICK fs \in Files :
          /\ fs = files \/ fs = CreateDnsmasqServerConf(files, flag, dflt).fs
          /\ files' = SetXdnsConfig(fs).fs
          /\ IF SetXdnsConfig(fs).result THEN SaveFlag("1") ELSE flag' = flag
    BY <1>5 DEF FilesSet
  <2>2. Settled(fs, flag) /\ flag # "1"
    BY <1>1, <1>5, <2>1, CreateSettled DEF FilesSet
  <2>3. /\ SetXdnsConfig(fs).result => Agree(SetXdnsConfig(fs).fs, "1")
        /\ ~ SetXdnsConfig(fs).result => Settled(SetXdnsConfig(fs).fs, flag)
    <3>1. CASE fs.confExists
      BY <2>2, <3>1, SettledClean, SetSettled
    <3>2. CASE ~ fs.confExists
      BY <2>2, <3>2, SettledClean, SetAgree DEF Settled
    <3> QED
      BY <3>1, <3>2
  <2> QED
    BY <2>1, <2>3, SaveFlagOk DEF Settled
<1>6. CASE FlagOnly
  <2>1. flag' = "1" /\ files' = files
    BY <1>6, SaveFlagOk DEF FlagOnly
  <2> QED
    BY <2>1 DEF Settled, Undecided, CleanWhenOff
<1>7. CASE FilesUnset
  <2>1. flag' = "0" /\ files' = [files EXCEPT !.overrides = << >>]
    BY <1>7, SaveFlagOk DEF FilesUnset, UnsetXdnsConfig
  <2> QED
    BY <1>1, <2>1 DEF Settled, Undecided, CleanWhenOff, NoDefaultLine, Files
<1>8. CASE FilesBooted
  <2>1. PICK fs \in Files :
          /\ \/ fs = files /\ flag' = flag
             \/ \E ns \in BootNameservers, here \in BOOLEAN : fs = BootFiles(files, ns, here)
          /\ files' = CosaXDNSInitialize(fs, flag', NoDefaults).fs
    BY <1>8 DEF FilesBooted
  <2>2. CASE fs = files /\ flag' = flag
    BY <2>1, <2>2, SettledClean, InitializeAgree, NoDefaultsType DEF Settled
  <2>3. CASE \E ns \in BootNameservers, here \in BOOLEAN : fs = BootFiles(files, ns, here)
    <3>1. fs.overrides = << >> /\ fs.confExists
      BY <1>1, <2>3 DEF Undecided, BootFiles, Files
    <3> QED
      BY <2>1, <3>1, FreshAgree DEF Settled
  <2> QED
    BY <2>1, <2>2, <2>3
<1> QED
  BY <1>1, <1>2, <1>3, <1>4, <1>5, <1>6, <1>7, <1>8 DEF FileStep

\* What the worker keeps of the two files, when a commit may fail.
Committing ==
  /\ at \in {"idle", "open", "refused", "done"} => Settled(files, flag)
  /\ at \in {"fill", "switch", "save", "restart"} => files.confExists
  /\ at \in {"fill", "switch", "restart"} => CleanWhenOff(files, flag)
  /\ at = "save" => Settled(files, IF Source.enable THEN "1" ELSE "0")

LEMMA WorkerCommitting ==
  ASSUME "setFails" \notin SyscfgOutcomes, WebInv, Committing, WorkerStep
  PROVE  Committing'
<1>1. files \in Files /\ dflt \in Defaults
  BY DEF WebInv, DmlInv, TypeOK, Defaults
<1>2. CASE OpenConf
  <2>1. at = "open" /\ flag' = flag /\ Settled(files, flag) /\ CleanWhenOff(files, flag)
    BY <1>2, SettledClean DEF OpenConf, Committing
  <2>2. CASE files' = [files EXCEPT !.confExists = TRUE, !.conf = << >>] /\ at' = "fill"
    <3>1. files'.confExists /\ CleanWhenOff(files', flag')
      BY <1>1, <2>1, <2>2 DEF CleanWhenOff, Files
    <3> QED
      BY <2>2, <3>1 DEF Committing
  <2>3. CASE files' = files /\ Applied(FALSE)
    <3>1. at' \in {"idle", "refused"}
      BY <2>3 DEF Applied
    <3> QED
      BY <2>1, <2>3, <3>1 DEF Committing
  <2> QED
    BY <1>2, <2>2, <2>3 DEF OpenConf
<1>3. CASE FillConf
  <2>1. at = "fill" /\ at' = "switch" /\ flag' = flag
        /\ files' = [files EXCEPT !.conf = PolicyLines(Source)]
    BY <1>3 DEF FillConf
  <2>2. files.confExists /\ CleanWhenOff(files, flag)
    BY <2>1 DEF Committing
  <2>3. files'.confExists /\ CleanWhenOff(files', flag')
    BY <1>1, <2>1, <2>2 DEF CleanWhenOff, Files
  <2> QED
    BY <2>1, <2>3 DEF Committing
<1>4. CASE SwitchFiles
  <2>1. at = "switch" /\ flag' = flag /\ Source' = Source
        /\ files.confExists /\ CleanWhenOff(files, flag)
    BY <1>4 DEF SwitchFiles, Committing, Source
  <2>2. CASE at' = "restart" /\ files' = files
    BY <2>1, <2>2 DEF Committing
  <2>3. CASE at' = "save" /\ Source.enable /\ flag # "1" /\ files' = SetXdnsConfig(files).fs
    <3>1. files'.confExists
      BY <1>1, <2>1, <2>3 DEF SetXdnsConfig, Files
    <3>2. Settled(files', "1")
      BY <1>1, <2>1, <2>3, SetSettled DEF Settled
    <3> QED
      BY <2>1, <2>3, <3>1, <3>2 DEF Committing
  <2>4. CASE at' = "save" /\ ~ Source.enable /\ files' = UnsetXdnsConfig(files)
    <3>1. files'.confExists /\ Agree(files', "0")
      BY <1>1, <2>1, <2>4 DEF UnsetXdnsConfig, Agree, Files
    <3> QED
      BY <2>1, <2>4, <3>1 DEF Committing, Settled
  <2>5. Source.enable \in BOOLEAN
    BY SourceType DEF WebInv, Cache
  <2> QED
    BY <1>4, <2>2, <2>3, <2>4, <2>5 DEF SwitchFiles
<1>5. CASE StoreFlag
  <2>1. /\ at = "save" /\ files' = files
        /\ flag' = IF Source.enable THEN "1" ELSE "0"
        /\ at' = "restart" \/ Applied(FALSE)
    BY <1>5 DEF StoreFlag
  <2>2. at' \in {"idle", "refused", "restart"}
    BY <2>1 DEF Applied
  <2>3. files'.confExists /\ Settled(files', flag') /\ CleanWhenOff(files', flag')
    BY <2>1, SettledClean DEF Committing
  <2> QED
    BY <2>2, <2>3 DEF Committing
<1>6. CASE Reinitialize
  <2>1. /\ at = "restart" /\ at' \in {"idle", "done"} /\ flag' = flag
        /\ files' = CosaXDNSInitialize(files, flag, dflt).fs
    BY <1>6 DEF Reinitialize, Applied
  <2>2. files.confExists /\ CleanWhenOff(files, flag)
    BY <2>1 DEF Committing
  <2>3. Agree(files', flag')
    BY <1>1, <2>1, <2>2, InitializeAgree
  <2> QED
    BY <2>1, <2>3 DEF Committing, Settled
<1>7. CASE Acknowledge
  <2>1. at = "done" /\ at' = "idle" /\ files' = files /\ flag' = flag
    BY <1>7 DEF Acknowledge
  <2> QED
    BY <2>1 DEF Committing
<1>8. CASE Refuse
  <2>1. at = "refused" /\ at' = "open" /\ files' = files /\ flag' = flag
    BY <1>8 DEF Refuse, vars
  <2> QED
    BY <2>1 DEF Committing
<1> QED
  BY <1>2, <1>3, <1>4, <1>5, <1>6, <1>7, <1>8 DEF WorkerStep

LEMMA TakenPhase ==
  ASSUME WebInv, NEW blob \in Blobs, NEW mode, Process_XDNS_WebConfigRequest(blob, mode)
  PROVE  LET verdict == set_xdns_conf(blob, files, mode).verdict
         IN /\ verdict \in {"ok", "invalid", "ignored"}
            /\ at' = CASE verdict = "ok" -> "open"
                       [] verdict = "invalid" -> "refused"
                       [] verdict = "ignored" -> "done"
            /\ at' \in {"open", "refused", "done"}
<1> DEFINE verdict == set_xdns_conf(blob, files, mode).verdict
<1>1. blob \in Blob /\ files \in Files
  BY WebAssumption DEF WebInv, DmlInv, TypeOK
<1>2. verdict \in {"ok", "invalid", "ignored"}
  <2>1. verdict # "crash"
    BY DEF Process_XDNS_WebConfigRequest
  <2> QED
    BY <1>1, <2>1, SetConfType
<1>3. at' = CASE verdict = "ok" -> "open"
              [] verdict = "invalid" -> "refused"
              [] verdict = "ignored" -> "done"
  BY DEF Process_XDNS_WebConfigRequest
<1> HIDE DEF verdict
<1>4. at' \in {"open", "refused", "done"}
  BY <1>2, <1>3
<1> QED
  BY <1>2, <1>3, <1>4 DEF verdict

LEMMA WebStepCommitting ==
  ASSUME "setFails" \notin SyscfgOutcomes, Interference \subseteq {"management"},
         WebInv, Committing, [WebNext]_allVars
  PROVE  Committing'
<1>1. ASSUME at = "idle", at' = "idle", Next
      PROVE  Committing'
  BY <1>1, StepSettled DEF Committing, WebInv
<1>2. ASSUME NEW blob \in Blobs, NEW mode \in RouterModes,
             Process_XDNS_WebConfigRequest(blob, mode)
      PROVE  Committing'
  <2>1. at = "idle" /\ files' = files /\ flag' = flag
    BY <1>2 DEF Process_XDNS_WebConfigRequest, vars
  <2>2. at' \in {"open", "refused", "done"}
    BY <1>2, TakenPhase
  <2> QED
    BY <2>1, <2>2 DEF Committing
<1>3. CASE WorkerStep
  BY <1>3, WorkerCommitting
<1>4. CASE Management
  <2>1. at = "idle" /\ at' = "idle"
    BY <1>4 DEF Management, webVars
  <2> QED
    BY <1>1, <1>4, <2>1, ManagementInv
<1>5. CASE ProcessStart
  <2>1. at = "idle" /\ at' = "idle"
    BY <1>5 DEF ProcessStart, WorkerStarts
  <2> QED
    BY <1>1, <1>5, <2>1, ProcessStartInv
<1>6. CASE UNCHANGED allVars
  BY <1>6 DEF allVars, vars, webVars, Committing, Source
<1> QED
  BY <1>2, <1>3, <1>4, <1>5, <1>6, NullStarts DEF WebNext

\* Between two documents the two files are in step as soon as the stored
\* policy has a valid default line, also when the commit of the flag fails
\* while a document is executed or rolled back.
THEOREM WebSettledWithDefault ==
  ASSUME "setFails" \notin SyscfgOutcomes, WanStates \subseteq {"erouter"},
         Interference \subseteq {"management"}
  PROVE  WebSpec => []SettledWithDefault
<1> DEFINE Inv == WebInv /\ Committing
<1>1. WebInit => Inv
  <2> SUFFICES ASSUME WebInit PROVE Inv
    OBVIOUS
  <2>1. Agree(files, flag) /\ at = "idle"
    BY InitFiles, FreshAgree DEF WebInit
  <2> QED
    BY <2>1, WebInitInv DEF Committing, Settled
<1>2. Inv /\ [WebNext]_allVars => Inv'
  BY WebStepInv, WebStepCommitting
<1>3. Inv => SettledWithDefault
  BY DEF Committing, Settled, Undecided, NoDefaultLine, Agree, SettledWithDefault, FilesInStep
<1> QED
  BY <1>1, <1>2, <1>3, PTL DEF WebSpec

-----------------------------------------------------------------------------
(***************************************************************************)
(* What the worker has done.  While no handler runs during a document, the *)
(* cache holds what set_xdns_conf made of it, dnsmasq_servers.conf holds   *)
(* the lines of the cache that is being applied, all of them or the valid  *)
(* ones, and a document that is reported as executed is in force, or has   *)
(* been ignored.                                                           *)
(***************************************************************************)
Written(conf, c) == conf \in {PolicyLines(c), Keep(PolicyLines(c), ValidLines)}

\* The data model has been read again from the files.
InForce ==
  /\ Written(files.conf, cache)
  /\ (flag = "1") = cache.enable
  /\ rows = RowsIn(files.conf)
  /\ \E d \in Defaults : dflt = DefaultsIn(files.conf, d)
  /\ files.resolvExists /\ flag = "1" => files.overrides = Keep(files.conf, ValidLines)

Taken(mode) ==
  LET read == set_xdns_conf(doc, files, mode)
  IN /\ cache = read.cache
     /\ at \in {"open", "fill", "switch", "save", "restart"} => read.verdict = "ok"
     /\ at = "done" => read.verdict = "ignored" \/ (read.verdict = "ok" /\ InForce)

Executing ==
  /\ at \in {"idle", "refused", "done"} => ~ undo
  /\ at \in {"fill", "switch", "save", "restart"} => files.confExists
  /\ at \in {"switch", "save", "restart"} => Written(files.conf, Source)
  /\ at = "restart" => (flag = "1") = Source.enable
  /\ at # "idle" /\ ~ undo => \E mode \in RouterModes : Taken(mode)

\* The worker leaves the nameservers of resolv.conf alone.
SameDevice(fs, fs1) == fs1.ns = fs.ns /\ fs1.resolvExists = fs.resolvExists

\* Of the files a document is read with only the nameservers matter.
LEMMA SameReading ==
  ASSUME NEW fs, NEW fs1, SameDevice(fs, fs1), NEW blob, NEW mode
  PROVE  set_xdns_conf(blob, fs1, mode) = set_xdns_conf(blob, fs, mode)
<1>1. xdns_read_load_dns_ip(fs1, mode, blob.v4, blob.v6)
        = xdns_read_load_dns_ip(fs, mode, blob.v4, blob.v6)
  BY DEF SameDevice, xdns_read_load_dns_ip
<1> DEFINE F(loaded) ==
      LET pair == IF {blob.v4, blob.v6} \subseteq Ip THEN [v4 |-> blob.v4, v6 |-> blob.v6]
                  ELSE IF {blob.v4, blob.v6} \subseteq Ip \cup {UseRdkDefault}
                   THEN [v4 |-> loaded.v4, v6 |-> loaded.v6]
                  ELSE [v4 |-> "", v6 |-> ""]
          first == DefaultVerdict(blob, loaded)
          bad == {i \in DOMAIN blob.table : RowVerdict(blob.table[i]) # "ok"}
          upTo(i) == \A j \in bad : i <= j
          stop == CHOOSE i \in bad : upTo(i)
      IN [verdict |-> IF first # "ok" THEN first
                      ELSE IF bad # {} THEN RowVerdict(blob.table[stop]) ELSE "ok",
          cache |-> [enable |-> blob.enable, v4 |-> pair.v4, v6 |-> pair.v6,
                     tag |-> IF first = "ok" THEN blob.tag ELSE "",
                     table |-> IF first # "ok" THEN << >>
                               ELSE [i \in DOMAIN blob.table |->
                                       IF upTo(i) THEN Copied(blob.table[i]) ELSE NoRow]]]
<1>2. \A g : set_xdns_conf(blob, g, mode) = F(xdns_read_load_dns_ip(g, mode, blob.v4, blob.v6))
  BY Zenon DEF set_xdns_conf
<1> HIDE DEF F
<1> QED
  BY <1>1, <1>2, Zenon

\* A document that is still to be applied, or that was refused.
LEMMA StillTaken ==
  ASSUME SameDevice(files, files'), NEW mode, Taken(mode), cache' = cache, doc' = doc,
         at' \in {"open", "fill", "switch", "save", "restart"}
           => at \in {"open", "fill", "switch", "save", "restart"},
         at' # "done"
  PROVE  Taken(mode)'
<1>1. set_xdns_conf(doc', files', mode) = set_xdns_conf(doc, files, mode)
  BY SameReading
<1> QED
  BY <1>1 DEF Taken

LEMMA WrittenAgain ==
  ASSUME NEW c \in Cache, NEW conf, Written(conf, c)
  PROVE  Written(Keep(conf, ValidLines), c)
<1>1. PolicyLines(c) \in Seq(Line)
  BY PolicyLinesType
<1>2. Keep(Keep(PolicyLines(c), ValidLines), ValidLines) = Keep(PolicyLines(c), ValidLines)
  BY <1>1, KeepValid, KeepAll
<1> QED
  BY <1>2 DEF Written

\* A refresh of a file that is there.
LEMMA RefreshSame ==
  ASSUME NEW fs \in Files, NEW flg, fs.confExists
  PROVE  LET new == RefreshResolvConfEntry(fs, flg)
         IN /\ new.conf = fs.conf /\ SameDevice(fs, new)
            /\ fs.resolvExists /\ flg = "1" => new.overrides = Keep(fs.conf, ValidLines)
<1>1. CASE flg = "1" /\ fs.resolvExists
  <2> DEFINE kept == Keep(fs.conf, ValidLines)
  <2>1. RefreshResolvConfEntry(fs, flg) = [fs EXCEPT !.overrides = kept]
    BY <1>1 DEF RefreshResolvConfEntry
  <2> HIDE DEF kept
  <2>2. /\ [fs EXCEPT !.overrides = kept].conf = fs.conf
        /\ [fs EXCEPT !.overrides = kept].ns = fs.ns
        /\ [fs EXCEPT !.overrides = kept].resolvExists = fs.resolvExists
        /\ [fs EXCEPT !.overrides = kept].overrides = kept
    BY DEF Files
  <2> QED
    BY <2>1, <2>2, Zenon DEF SameDevice, kept
<1>2. CASE ~ (flg = "1" /\ fs.resolvExists)
  BY <1>2 DEF RefreshResolvConfEntry, SameDevice
<1> QED
  BY <1>1, <1>2

LEMMA WorkerExecuting ==
  ASSUME WebInv, Executing, WorkerStep
  PROVE  Executing'
<1>1. files \in Files /\ dflt \in Defaults /\ Source \in Cache /\ Source.enable \in BOOLEAN
  BY SourceType DEF WebInv, DmlInv, TypeOK, Defaults, Cache
<1>a. ASSUME at \notin {"idle", "refused", "done"}, Applied(FALSE), files' = files
      PROVE  Executing'
  <2>1. CASE undo
    BY <1>a, <2>1 DEF Applied, Executing
  <2>2. CASE ~ undo
    <3>1. at' = "refused" /\ undo' = undo /\ cache' = cache /\ doc' = doc
      BY <1>a, <2>2 DEF Applied
    <3>2. PICK mode \in RouterModes : Taken(mode)
      BY <1>a, <2>2 DEF Executing
    <3>3. SameDevice(files, files')
      BY <1>a DEF SameDevice
    <3>4. Taken(mode)'
      BY <3>1, <3>2, <3>3, StillTaken
    <3> QED
      BY <2>2, <3>1, <3>4 DEF Executing
  <2> QED
    BY <2>1, <2>2
<1>b. ASSUME at \in {"open", "fill", "switch", "save"}, at' \in {"fill", "switch", "save", "restart"},
             UNCHANGED <<undo, cache, bck, doc>>, SameDevice(files, files')
      PROVE  /\ Source' = Source
             /\ at' # "idle" /\ ~ undo' => \E mode \in RouterModes : Taken(mode)'
  <2>1. Source' = Source
    BY <1>b DEF Source
  <2>2. ASSUME ~ undo PROVE \E mode \in RouterModes : Taken(mode)'
    <3>1. PICK mode \in RouterModes : Taken(mode)
      BY <1>b, <2>2 DEF Executing
    <3>2. Taken(mode)'
      BY <1>b, <3>1, StillTaken
    <3> QED
      BY <3>2
  <2> QED
    BY <1>b, <2>1, <2>2
<1>2. CASE OpenConf
  <2>1. CASE files' = [files EXCEPT !.confExists = TRUE, !.conf = << >>]
             /\ at' = "fill" /\ UNCHANGED <<undo, cache, doc, prior>>
    <3>1. at = "open" /\ UNCHANGED <<undo, cache, bck, doc>> /\ SameDevice(files, files')
          /\ files'.confExists
      BY <1>1, <1>2, <2>1 DEF OpenConf, SameDevice, Files
    <3> QED
      BY <1>b, <2>1, <3>1 DEF Executing
  <2>2. CASE files' = files /\ Applied(FALSE)
    <3>1. at = "open"
      BY <1>2 DEF OpenConf
    <3> QED
      BY <1>a, <2>2, <3>1
  <2> QED
    BY <1>2, <2>1, <2>2 DEF OpenConf
<1>3. CASE FillConf
  <2>1. /\ at = "fill" /\ at' = "switch" /\ UNCHANGED <<undo, cache, bck, doc>>
        /\ files' = [files EXCEPT !.conf = PolicyLines(Source)]
    BY <1>3 DEF FillConf
  <2>2. /\ files'.conf = PolicyLines(Source) /\ files'.confExists = files.confExists
        /\ SameDevice(files, files')
    BY <1>1, <2>1 DEF SameDevice, Files
  <2>3. /\ Source' = Source
        /\ at' # "idle" /\ ~ undo' => \E mode \in RouterModes : Taken(mode)'
    BY <1>b, <2>1, <2>2
  <2>4. files'.confExists
    BY <1>1, <2>1, <2>2 DEF Executing
  <2> QED
    BY <2>1, <2>2, <2>3, <2>4 DEF Executing, Written
<1>4. CASE SwitchFiles
  <2>1. /\ at = "switch" /\ UNCHANGED <<undo, cache, bck, doc>> /\ flag' = flag
        /\ files.confExists /\ Written(files.conf, Source)
        /\ \/ Source.enable = (flag = "1") /\ at' = "restart" /\ files' = files
           \/ at' = "save" /\ files' \in {SetXdnsConfig(files).fs, UnsetXdnsConfig(files)}
    BY <1>4 DEF SwitchFiles, Executing
  <2>2. files'.conf \in {files.conf, Keep(files.conf, ValidLines)}
        /\ files'.confExists = files.confExists /\ SameDevice(files, files')
    BY <1>1, <2>1 DEF SetXdnsConfig, UnsetXdnsConfig, SameDevice, Files
  <2>3. /\ Source' = Source
        /\ at' # "idle" /\ ~ undo' => \E mode \in RouterModes : Taken(mode)'
    BY <1>b, <2>1, <2>2
  <2>4. Written(files'.conf, Source)
    BY <1>1, <2>1, <2>2, WrittenAgain
  <2> QED
    BY <2>1, <2>2, <2>3, <2>4 DEF Executing
<1>5. CASE StoreFlag
  <2>1. /\ at = "save" /\ files' = files /\ bck' = bck
        /\ files.confExists /\ Written(files.conf, Source)
        /\ \/ Applied(FALSE)
           \/ /\ at' = "restart" /\ UNCHANGED <<undo, cache, doc>>
              /\ flag' = IF Source.enable THEN "1" ELSE "0"
    BY <1>5 DEF StoreFlag, Executing
  <2>2. CASE Applied(FALSE)
    BY <1>a, <2>1, <2>2
  <2>3. CASE /\ at' = "restart" /\ UNCHANGED <<undo, cache, doc>>
             /\ flag' = IF Source.enable THEN "1" ELSE "0"
    <3>1. SameDevice(files, files')
      BY <2>1 DEF SameDevice
    <3>2. /\ Source' = Source
          /\ at' # "idle" /\ ~ undo' => \E mode \in RouterModes : Taken(mode)'
      BY <1>b, <2>1, <2>3, <3>1
    <3>3. (flag' = "1") = Source.enable
      BY <1>1, <2>3
    <3> QED
      BY <2>1, <2>3, <3>2, <3>3 DEF Executing
  <2> QED
    BY <2>1, <2>2, <2>3
<1>6. CASE Reinitialize
  <2> DEFINE s == CosaXDNSInitialize(files, flag, dflt)
  <2>1. /\ at = "restart" /\ Applied(TRUE) /\ flag' = flag
        /\ files' = s.fs /\ dflt' = s.dflt /\ rows' = s.rows
        /\ files.confExists /\ Written(files.conf, Source) /\ (flag = "1") = Source.enable
    BY <1>6 DEF Reinitialize, Executing
  <2>2. CASE undo
    BY <2>1, <2>2 DEF Applied, Executing
  <2>3. CASE ~ undo
    <3>1. /\ at' = "done" /\ ~ undo' /\ cache' = cache /\ doc' = doc /\ Source = cache
      BY <2>1, <2>3 DEF Applied, Source
    <3>2. /\ s.fs = RefreshResolvConfEntry(files, flag)
          /\ s.rows = RowsIn(files.conf) /\ s.dflt = DefaultsIn(files.conf, dflt)
      BY <2>1 DEF CosaXDNSInitialize, CosaDmlGetSelfHealCfg
    <3>3. /\ files'.conf = files.conf /\ SameDevice(files, files')
          /\ files'.resolvExists /\ flag' = "1" => files'.overrides = Keep(files'.conf, ValidLines)
      <4> HIDE DEF s
      <4>1. files' = RefreshResolvConfEntry(files, flag)
        BY <2>1, <3>2
      <4>2. /\ files'.conf = files.conf /\ SameDevice(files, files')
            /\ files.resolvExists /\ flag = "1" => files'.overrides = Keep(files.conf, ValidLines)
        BY <1>1, <2>1, <4>1, RefreshSame
      <4> QED
        BY <2>1, <4>2 DEF SameDevice
    <3>4. InForce'
      <4> HIDE DEF s
      <4> QED
        BY <1>1, <2>1, <3>1, <3>2, <3>3 DEF InForce
    <3>5. PICK mode \in RouterModes : Taken(mode)
      BY <2>1, <2>3 DEF Executing
    <3>6. set_xdns_conf(doc', files', mode) = set_xdns_conf(doc, files, mode)
      BY <3>1, <3>3, SameReading
    <3>7. Taken(mode)'
      BY <2>1, <3>1, <3>4, <3>5, <3>6 DEF Taken
    <3> QED
      BY <3>1, <3>7 DEF Executing
  <2> QED
    BY <2>2, <2>3
<1>7. CASE Acknowledge
  <2>1. at = "done" /\ at' = "idle" /\ undo' = undo
    BY <1>7 DEF Acknowledge
  <2> QED
    BY <2>1 DEF Executing
<1>8. CASE Refuse
  <2>1. at = "refused" /\ at' = "open" /\ undo' = TRUE
    BY <1>8 DEF Refuse
  <2> QED
    BY <2>1 DEF Executing
<1> QED
  BY <1>2, <1>3, <1>4, <1>5, <1>6, <1>7, <1>8 DEF WorkerStep

LEMMA WebStepExecuting ==
  ASSUME "overlap" \notin Interference, WebInv, Executing, [WebNext]_allVars
  PROVE  Executing'
<1>1. ASSUME at' = "idle", undo' = FALSE
      PROVE  Executing'
  BY <1>1 DEF Executing
<1>2. ASSUME NEW blob \in Blobs, NEW mode \in RouterModes,
             Process_XDNS_WebConfigRequest(blob, mode)
      PROVE  Executing'
  <2> DEFINE read == set_xdns_conf(blob, files, mode)
  <2>1. /\ at = "idle" /\ files' = files /\ undo' = undo /\ cache' = read.cache /\ doc' = blob
    BY <1>2 DEF Process_XDNS_WebConfigRequest, vars
  <2>2. /\ read.verdict \in {"ok", "invalid", "ignored"}
        /\ at' = CASE read.verdict = "ok" -> "open"
                   [] read.verdict = "invalid" -> "refused"
                   [] read.verdict = "ignored" -> "done"
        /\ at' \in {"open", "refused", "done"}
    BY <1>2, TakenPhase
  <2>3. set_xdns_conf(doc', files', mode) = read
    BY <2>1
  <2> HIDE DEF read
  <2>4. Taken(mode)'
    BY <2>1, <2>2, <2>3 DEF Taken
  <2>5. ~ undo'
    BY <2>1 DEF Executing
  <2> QED
    BY <2>2, <2>4, <2>5 DEF Executing
<1>3. CASE WorkerStep
  BY <1>3, WorkerExecuting
<1>4. CASE Management
  <2>1. at = "idle" /\ UNCHANGED webVars
    BY <1>4 DEF Management
  <2>2. at' = "idle" /\ undo' = FALSE
    BY <2>1 DEF webVars, Executing, WebInv, WorkerOK
  <2> QED
    BY <1>1, <2>2
<1>5. CASE ProcessStart
  BY <1>1, <1>5 DEF ProcessStart, WorkerStarts
<1>6. CASE UNCHANGED allVars
  BY <1>6 DEF allVars, vars, webVars, Executing, Taken, InForce, Source
<1> QED
  BY <1>2, <1>3, <1>4, <1>5, <1>6, NullStarts DEF WebNext

\* The progress of the worker, when no handler runs during a document.
THEOREM DocumentsExecuted ==
  ASSUME "overlap" \notin Interference
  PROVE  WebSpec => [](WebInv /\ Executing)
<1> DEFINE Inv == WebInv /\ Executing
<1>1. WebInit => Inv
  BY WebInitInv DEF WebInit, Executing
<1>2. Inv /\ [WebNext]_allVars => Inv'
  BY WebStepInv, WebStepExecuting
<1> QED
  BY <1>1, <1>2, PTL DEF WebSpec

-----------------------------------------------------------------------------
(***************************************************************************)
(* The lines that are written for a cache, and what is read back of them.  *)
(***************************************************************************)

\* An empty field leaves no word.
Piece(word) == IF word = "" THEN << >> ELSE <<word>>

\* A piece is what split_words leaves of one field.
LEMMA PieceKept ==
  ASSUME NEW word \in Text
  PROVE  Keep(<<word>>, Token) = Piece(word) /\ Piece(word) \in Seq(Text) /\ <<word>> \in Seq(Text)
<1> DEFINE one == <<word>>
           X == {word}
<1>1. one \in Seq(X) /\ one \in Seq(Text) /\ << >> \in Seq(Text)
  BY EmptySeq
<1>2. CASE word = ""
  <2>1. X \cap Token = {}
    BY <1>2, WordsAssumption
  <2> HIDE DEF one, X
  <2>2. Keep(one, Token) = << >>
    BY <1>1, <2>1, KeepNone
  <2> QED
    BY <1>1, <1>2, <2>2 DEF Piece, one
<1>3. CASE word # ""
  <2>1. X \subseteq Token
    BY <1>3 DEF Text
  <2> HIDE DEF one, X
  <2>2. Keep(one, Token) = one
    BY <1>1, <2>1, KeepAll
  <2> QED
    BY <1>1, <1>3, <2>2 DEF Piece, one
<1> QED
  BY <1>2, <1>3

\* Words next to each other.
LEMMA WordsJoined ==
  ASSUME NEW X, NEW s \in Seq(X), NEW t \in Seq(X), NEW u \in Seq(X),
         Len(u) = Len(s) + Len(t),
         \A i \in 1..Len(s) : u[i] = s[i],
         \A i \in 1..Len(t) : u[Len(s) + i] = t[i]
  PROVE  s \o t = u
<1>1. Len(s) \in Nat /\ Len(t) \in Nat
  BY LenProperties
<1>2. /\ s \o t \in Seq(X) /\ Len(s \o t) = Len(s) + Len(t)
      /\ \A i \in 1 .. Len(s) + Len(t) :
           (s \o t)[i] = IF i <= Len(s) THEN s[i] ELSE t[i - Len(s)]
  BY ConcatProperties
<1> DEFINE v == s \o t
<1> HIDE DEF v
<1>3. \A i \in 1..Len(u) : v[i] = u[i]
  <2> SUFFICES ASSUME NEW i \in 1..Len(u) PROVE v[i] = u[i]
    OBVIOUS
  <2>1. CASE i <= Len(s)
    BY <1>1, <1>2, <2>1 DEF v
  <2>2. CASE ~ i <= Len(s)
    <3>1. i - Len(s) \in 1..Len(t) /\ Len(s) + (i - Len(s)) = i
      BY <1>1, <2>2
    <3>2. v[i] = t[i - Len(s)]
      BY <1>1, <1>2, <2>2 DEF v
    <3>3. u[Len(s) + (i - Len(s))] = t[i - Len(s)]
      BY <3>1
    <3> QED
      BY <3>1, <3>2, <3>3
  <2> QED
    BY <2>1, <2>2
<1>4. v \in Seq(X) /\ Len(v) = Len(u)
  BY <1>2 DEF v
<1>5. v = u
  BY <1>3, <1>4, SeqEqual
<1> QED
  BY <1>5 DEF v

Joined(p, q, r) == p \o q = r

\* The pieces of a line, one behind the other.
LEMMA WordsNext ==
  ASSUME NEW a \in Text, NEW b \in Text, NEW c \in Text, NEW d \in Text, NEW e \in Text
  PROVE  /\ Joined(<<a, b>>, <<c, d>>, <<a, b, c, d>>)
         /\ Joined(<<a, b, c, d>>, <<e>>, <<a, b, c, d, e>>)
         /\ Joined(<<a, b>>, <<c>>, <<a, b, c>>)
<1>1. <<a, b>> \o <<c, d>> = <<a, b, c, d>>
  <2> DEFINE s == <<a, b>>
             t == <<c, d>>
             u == <<a, b, c, d>>
  <2>1. s \in Seq(Text) /\ t \in Seq(Text) /\ u \in Seq(Text)
    OBVIOUS
  <2>2. Len(s) = 2 /\ Len(t) = 2 /\ Len(u) = 4
    OBVIOUS
  <2>3. u[1] = s[1] /\ u[2] = s[2]
    OBVIOUS
  <2>4. u[3] = t[1] /\ u[4] = t[2]
    OBVIOUS
  <2> HIDE DEF s, t, u
  <2>5. \A i \in 1..Len(s) : u[i] = s[i]
    BY <2>2, <2>3
  <2>6. \A i \in 1..Len(t) : u[Len(s) + i] = t[i]
    BY <2>2, <2>4
  <2>7. Len(u) = Len(s) + Len(t)
    BY <2>2
  <2>8. s \o t = u
    BY <2>1, <2>5, <2>6, <2>7, WordsJoined, Zenon
  <2> QED
    BY <2>8 DEF s, t, u
<1>2. <<a, b, c, d>> \o <<e>> = <<a, b, c, d, e>>
  <2> DEFINE s == <<a, b, c, d>>
             t == <<e>>
             u == <<a, b, c, d, e>>
  <2>1. s \in Seq(Text) /\ t \in Seq(Text) /\ u \in Seq(Text)
    OBVIOUS
  <2>2. Len(s) = 4 /\ Len(t) = 1 /\ Len(u) = 5
    OBVIOUS
  <2>3. u[1] = s[1] /\ u[2] = s[2] /\ u[3] = s[3] /\ u[4] = s[4]
    OBVIOUS
  <2>4. u[5] = t[1]
    OBVIOUS
  <2> HIDE DEF s, t, u
  <2>5. \A i \in 1..Len(s) : u[i] = s[i]
    BY <2>2, <2>3
  <2>6. \A i \in 1..Len(t) : u[Len(s) + i] = t[i]
    BY <2>2, <2>4
  <2>7. Len(u) = Len(s) + Len(t)
    BY <2>2
  <2>8. s \o t = u
    BY <2>1, <2>5, <2>6, <2>7, WordsJoined, Zenon
  <2> QED
    BY <2>8 DEF s, t, u
<1>3. <<a, b>> \o <<c>> = <<a, b, c>>
  <2> DEFINE s == <<a, b>>
             t == <<c>>
             u == <<a, b, c>>
  <2>1. s \in Seq(Text) /\ t \in Seq(Text) /\ u \in Seq(Text)
    OBVIOUS
  <2>2. Len(s) = 2 /\ Len(t) = 1 /\ Len(u) = 3
    OBVIOUS
  <2>3. u[1] = s[1] /\ u[2] = s[2]
    OBVIOUS
  <2>4. u[3] = t[1]
    OBVIOUS
  <2> HIDE DEF s, t, u
  <2>5. \A i \in 1..Len(s) : u[i] = s[i]
    BY <2>2, <2>3
  <2>6. \A i \in 1..Len(t) : u[Len(s) + i] = t[i]
    BY <2>2, <2>4
  <2>7. Len(u) = Len(s) + Len(t)
    BY <2>2
  <2>8. s \o t = u
    BY <2>1, <2>5, <2>6, <2>7, WordsJoined, Zenon
  <2> QED
    BY <2>8 DEF s, t, u
<1> QED
  BY <1>1, <1>2, <1>3 DEF Joined

\* The words of a line with both addresses.
LEMMA LineParts ==
  ASSUME NEW mac \in Token, NEW v4 \in Token, NEW v6 \in Token, NEW tag \in Text
  PROVE  Override(mac, v4, v6, tag)
           = IF tag = "" THEN <<"dnsoverride", mac, v4, v6>>
             ELSE <<"dnsoverride", mac, v4, v6, tag>>
<1> DEFINE front == <<"dnsoverride", mac>>
           both == <<v4, v6>>
           last == <<tag>>
           l == Override(mac, v4, v6, tag)
<1>1. /\ Token \subseteq Text /\ v4 \in Text /\ v6 \in Text /\ mac \in Text
      /\ "dnsoverride" \in Text
  BY WordsAssumption DEF Text
<1>2. l = front \o Keep(<<v4, v6, tag>>, Token)
  BY <1>1, OverrideWords
<1>3. /\ both \in Seq(Text) /\ both \in Seq(Token) /\ front \in Seq(Text)
  BY <1>1
<1>4. <<v4, v6, tag>> = both \o last
  <2>1. Joined(<<v4, v6>>, <<tag>>, <<v4, v6, tag>>)
    BY <1>1, WordsNext
  <2> QED
    BY <2>1 DEF Joined
<1>5. /\ last \in Seq(Text) /\ Keep(last, Token) = Piece(tag) /\ Piece(tag) \in Seq(Text)
  BY PieceKept
<1>6. /\ front \o both = <<"dnsoverride", mac, v4, v6>>
      /\ <<"dnsoverride", mac, v4, v6>> \o last = <<"dnsoverride", mac, v4, v6, tag>>
  <2> DEFINE dns == "dnsoverride"
  <2>1. dns \in Text
    BY <1>1
  <2> HIDE DEF dns
  <2>2. /\ Joined(<<dns, mac>>, <<v4, v6>>, <<dns, mac, v4, v6>>)
        /\ Joined(<<dns, mac, v4, v6>>, <<tag>>, <<dns, mac, v4, v6, tag>>)
    BY <1>1, <2>1, WordsNext
  <2> QED
    BY <2>2, Zenon DEF dns, Joined
<1>7. Piece(tag) = IF tag = "" THEN << >> ELSE last
  BY DEF Piece
<1> HIDE DEF both, last, front, l
<1>8. Keep(both \o last, Token) = both \o Piece(tag)
  <2>1. Keep(both, Token) = both
    BY <1>3, KeepAll
  <2>2. Keep(both \o last, Token) = Keep(both, Token) \o Keep(last, Token)
    BY <1>3, <1>5, KeepConcat
  <2> QED
    BY <1>5, <2>1, <2>2
<1>9. l = (front \o both) \o Piece(tag)
  <2>1. front \o (both \o Piece(tag)) = (front \o both) \o Piece(tag)
    BY <1>3, <1>5, ConcatAssociative
  <2> QED
    BY <1>2, <1>4, <1>8, <2>1
<1>10. (front \o both) \o << >> = front \o both
  <2>1. front \o both \in Seq(Text)
    BY <1>3, ConcatProperties
  <2> QED
    BY <2>1, ConcatEmptySeq
<1>11. l = IF tag = "" THEN front \o both ELSE (front \o both) \o last
  BY <1>7, <1>9, <1>10
<1> QED
  BY <1>6, <1>11 DEF l

NotDefault == Clean({DefaultMac})

\* strstr finds the default MAC in none of them.
LEMMA NotDefaultWords ==
  ASSUME NEW l \in Line, \A i \in DOMAIN l : l[i] \in NotDefault \cup {"dnsoverride"}
  PROVE  l \notin Mentioning(DefaultMac)
<1> SUFFICES ASSUME NEW i \in DOMAIN l, DefaultMac \in Parts[l[i]] PROVE FALSE
  BY DEF Mentioning
<1>1. DefaultMac \notin Parts["dnsoverride"] /\ "" \notin Token
  BY WordsAssumption
<1>2. l[i] \in Token
  BY LenProperties, ElementOfSeq DEF Line
<1>3. CASE l[i] \in NotDefault
  BY <1>1, <1>2, <1>3 DEF NotDefault, Clean
<1>4. CASE l[i] = "dnsoverride"
  BY <1>1, <1>4
<1> QED
  BY <1>3, <1>4

FullWords(l, mac, v4, v6, tag) ==
  /\ l \in Line /\ Len(l) >= 4 /\ Len(l) <= 5
  /\ l[2] = mac /\ l[3] = v4 /\ l[4] = v6
  /\ Word(l, 2) = mac /\ Word(l, 3) = v4 /\ Word(l, 4) = v6 /\ Word(l, 5) = tag
  /\ l \in Mentioning(mac)
  /\ {mac, v4, v6, tag} \subseteq NotDefault => l \notin Mentioning(DefaultMac)
  /\ \A i \in DOMAIN l : l[i] \in {mac, v4, v6, tag} \cup {"dnsoverride"}

\* With both addresses every word of a line is in its own place.
LEMMA FullLine ==
  ASSUME NEW mac \in Token, NEW v4 \in Token, NEW v6 \in Token, NEW tag \in Text
  PROVE  FullWords(Override(mac, v4, v6, tag), mac, v4, v6, tag)
<1> DEFINE l == Override(mac, v4, v6, tag)
<1>1. mac \in Text /\ v4 \in Text /\ v6 \in Text /\ v4 # "" /\ v6 # ""
  BY WordsAssumption DEF Text
<1>2. l \in Line
  BY <1>1, OverrideType
<1>3. CASE tag = ""
  <2>1. l = <<"dnsoverride", mac, v4, v6>>
    BY <1>3, LineParts, Zenon
  <2> HIDE DEF l
  <2>2. /\ Len(l) = 4 /\ l[2] = mac /\ l[3] = v4 /\ l[4] = v6 /\ DOMAIN l = 1..4
        /\ \A i \in DOMAIN l : l[i] \in {mac, v4, v6} \cup {"dnsoverride"}
    BY <2>1
  <2>3. l \in Mentioning(mac)
    <3>1. mac \in Parts[mac]
      BY WordsAssumption
    <3> QED
      BY <1>2, <2>2, <3>1 DEF Mentioning
  <2>4. {mac, v4, v6, tag} \subseteq NotDefault => l \notin Mentioning(DefaultMac)
    BY <1>2, <2>2, NotDefaultWords
  <2>5. Word(l, 2) = mac /\ Word(l, 3) = v4 /\ Word(l, 4) = v6 /\ Word(l, 5) = tag
    <3>1. Len(l) >= 2 /\ Len(l) >= 3 /\ Len(l) >= 4 /\ ~ Len(l) >= 5
      BY <2>2
    <3> QED
      BY <1>3, <2>2, <3>1, Zenon DEF Word
  <2> QED
    BY <1>2, <2>2, <2>3, <2>4, <2>5 DEF l, FullWords
<1>4. CASE tag # ""
  <2>1. l = <<"dnsoverride", mac, v4, v6, tag>>
    BY <1>4, LineParts, Zenon
  <2> HIDE DEF l
  <2>2. /\ Len(l) = 5 /\ l[2] = mac /\ l[3] = v4 /\ l[4] = v6 /\ l[5] = tag /\ DOMAIN l = 1..5
        /\ \A i \in DOMAIN l : l[i] \in {mac, v4, v6, tag} \cup {"dnsoverride"}
    BY <2>1
  <2>3. l \in Mentioning(mac)
    <3>1. mac \in Parts[mac]
      BY WordsAssumption
    <3> QED
      BY <1>2, <2>2, <3>1 DEF Mentioning
  <2>4. {mac, v4, v6, tag} \subseteq NotDefault => l \notin Mentioning(DefaultMac)
    BY <1>2, <2>2, NotDefaultWords
  <2>5. Word(l, 2) = mac /\ Word(l, 3) = v4 /\ Word(l, 4) = v6 /\ Word(l, 5) = tag
    BY <2>2 DEF Word
  <2> QED
    BY <1>2, <2>2, <2>3, <2>4, <2>5 DEF l, FullWords
<1> QED
  BY <1>3, <1>4

\* A line names what it is written for.
LEMMA OverrideMentions ==
  ASSUME NEW mac \in Token, NEW v4 \in Text, NEW v6 \in Text, NEW tag \in Text
  PROVE  Override(mac, v4, v6, tag) \in Mentioning(mac)
<1> DEFINE front == <<"dnsoverride", mac>>
           r == Keep(<<v4, v6, tag>>, Token)
           l == Override(mac, v4, v6, tag)
<1>0. Token \subseteq Text /\ mac \in Text /\ "dnsoverride" \in Text
  BY WordsAssumption DEF Text
<1>1. l \in Line /\ l = front \o r
  BY <1>0, OverrideType, OverrideWords
<1>2. /\ front \in Seq(Text) /\ Len(front) = 2 /\ front[2] = mac
      /\ <<v4, v6, tag>> \in Seq(Text)
  BY <1>0
<1>3. r \in Seq(Text) /\ Len(r) \in Nat
  BY <1>2, KeepSub, LenProperties
<1> HIDE DEF front, r, l
<1>4. /\ Len(front \o r) = Len(front) + Len(r)
      /\ \A i \in 1 .. Len(front) + Len(r) :
           (front \o r)[i] = IF i <= Len(front) THEN front[i] ELSE r[i - Len(front)]
  BY <1>2, <1>3, ConcatProperties
<1>5. Len(l) >= 2 /\ Len(l) \in Nat /\ l[2] = mac
  BY <1>1, <1>2, <1>3, <1>4
<1>6. 2 \in DOMAIN l
  BY <1>1, <1>5, LenProperties DEF Line
<1>7. mac \in Parts[mac]
  BY WordsAssumption
<1> QED
  BY <1>1, <1>5, <1>6, <1>7 DEF Mentioning, l

DefaultOf(c) == Override(DefaultMac, c.v4, c.v6, c.tag)

LineOf(val) == Override(val["mac"], val["v4"], val["v6"], val["tag"])

TableOf(c) == [i \in DOMAIN c.table |-> LineOf(c.table[i])]

\* What has room in a cache and then in the line that is made of it.
Narrow(val) ==
  /\ \A f \in RowFields : Width[val[f]] < STR_SIZE
  /\ Fits(val["mac"], val["v4"], val["v6"], val["tag"])

Roomy(c) == Narrow(DefaultRow(c)) /\ \A i \in DOMAIN c.table : Narrow(c.table[i])

\* No line of such a cache is lost: the default one comes first, then one per row.
LEMMA PolicyIs ==
  ASSUME NEW c \in Cache, Roomy(c)
  PROVE  PolicyLines(c) = <<DefaultOf(c)>> \o TableOf(c)
<1> DEFINE row == DefaultRow(c)
           first == <<row>>
           t == c.table
           list == first \o t
           s == <<DefaultOf(c)>>
           u == [i \in DOMAIN list |-> LineOf(list[i])]
<1>1. row \in Fitting /\ LineOf(row) = DefaultOf(c)
  <2>1. row \in [RowFields -> Text]
    BY DefaultRowType
  <2>2. Fits(row["mac"], row["v4"], row["v6"], row["tag"])
    BY DEF Roomy, Narrow
  <2>3. LineOf(row) = DefaultOf(c)
    BY DEF LineOf, DefaultOf, DefaultRow
  <2> QED
    BY <2>1, <2>2, <2>3 DEF Fitting
<1>2. t \in Seq([RowFields -> Text]) /\ \A i \in DOMAIN t : Narrow(t[i])
  BY DEF Cache, Roomy
<1> HIDE DEF row, t
<1>3. t \in Seq(Fitting) /\ Len(t) \in Nat /\ DOMAIN t = 1..Len(t)
  <2>1. DOMAIN t = 1..Len(t) /\ Len(t) \in Nat
    BY <1>2, LenProperties
  <2>2. ASSUME NEW i \in 1..Len(t) PROVE t[i] \in Fitting
    <3>1. t[i] \in [RowFields -> Text]
      BY <1>2, ElementOfSeq
    <3> QED
      BY <1>2, <2>1, <3>1 DEF Narrow, Fitting
  <2>3. t = [i \in 1..Len(t) |-> t[i]]
    BY <1>2
  <2> QED
    BY <2>1, <2>2, <2>3
<1>4. first \in Seq(Fitting) /\ Len(first) = 1 /\ first[1] = row
  <2> DEFINE F == Fitting
  <2>1. row \in F
    BY <1>1
  <2> HIDE DEF F
  <2>2. first \in Seq(F) /\ Len(first) = 1 /\ first[1] = row
    BY <2>1
  <2> QED
    BY <2>2 DEF F
<1> HIDE DEF first
<1>5. /\ list \in Seq(Fitting) /\ Len(list) = Len(first) + Len(t)
      /\ \A i \in 1 .. Len(first) + Len(t) :
           list[i] = IF i <= Len(first) THEN first[i] ELSE t[i - Len(first)]
  BY <1>3, <1>4, ConcatProperties
<1> HIDE DEF list
<1>6. Keep(list, Fitting) = list
  BY <1>5, KeepAll
<1>7. Printed(list) = u
  BY <1>6, Zenon DEF Printed, LineOf
<1>8. DOMAIN list = 1..Len(list) /\ Len(list) = 1 + Len(t)
  BY <1>4, <1>5, LenProperties
<1>9. ASSUME NEW val \in Fitting PROVE LineOf(val) \in Line
  <2>1. /\ val["mac"] \in Text /\ val["v4"] \in Text /\ val["v6"] \in Text
        /\ val["tag"] \in Text
    BY DEF Fitting, RowFields
  <2> QED
    BY <2>1, OverrideType DEF LineOf
<1>10. u \in Seq(Line) /\ Len(u) = 1 + Len(t)
  <2>1. \A i \in 1..Len(list) : list[i] \in Fitting
    BY <1>5, ElementOfSeq
  <2>2. \A i \in 1..Len(list) : LineOf(list[i]) \in Line
    BY <1>9, <2>1
  <2>3. Len(list) \in Nat
    BY <1>3, <1>8
  <2>4. u = [i \in 1..Len(list) |-> LineOf(list[i])]
    BY <1>8
  <2>5. u \in Seq(Line) /\ Len(u) = Len(list)
    BY <2>2, <2>3, <2>4
  <2> QED
    BY <1>8, <2>5
<1>11. s \in Seq(Line) /\ Len(s) = 1 /\ s[1] = LineOf(row)
  <2> DEFINE d == DefaultOf(c)
  <2>1. d \in Line
    BY <1>1, <1>9
  <2> HIDE DEF d
  <2>2. <<d>> \in Seq(Line) /\ Len(<<d>>) = 1 /\ <<d>>[1] = d
    BY <2>1
  <2> QED
    BY <1>1, <2>2 DEF d
<1>12. TableOf(c) \in Seq(Line) /\ Len(TableOf(c)) = Len(t)
       /\ \A i \in 1..Len(t) : TableOf(c)[i] = LineOf(t[i])
  <2>1. \A i \in 1..Len(t) : LineOf(t[i]) \in Line
    <3>1. \A i \in 1..Len(t) : t[i] \in Fitting
      BY <1>3, ElementOfSeq
    <3> QED
      BY <1>9, <3>1
  <2>2. TableOf(c) = [i \in 1..Len(t) |-> LineOf(t[i])]
    BY <1>3 DEF TableOf, t
  <2> QED
    BY <1>3, <2>1, <2>2
<1>13. \A i \in 1..Len(s) : u[i] = s[i]
  <2>1. 1 \in DOMAIN list /\ list[1] = row
    BY <1>3, <1>4, <1>5, <1>8
  <2>2. u[1] = LineOf(row)
    BY <2>1
  <2> HIDE DEF u, s
  <2> QED
    BY <1>11, <2>2
<1>14. \A i \in 1..Len(TableOf(c)) : u[Len(s) + i] = TableOf(c)[i]
  <2> SUFFICES ASSUME NEW i \in 1..Len(t) PROVE u[1 + i] = LineOf(t[i])
    <3> HIDE DEF u, s
    <3> QED
      BY <1>11, <1>12
  <2>1. 1 + i \in DOMAIN list /\ list[1 + i] = t[i]
    BY <1>3, <1>4, <1>5, <1>8
  <2> QED
    BY <2>1
<1>15. Len(u) = Len(s) + Len(TableOf(c))
  BY <1>10, <1>11, <1>12
<1> HIDE DEF u, s
<1>16. s \o TableOf(c) = u
  BY <1>10, <1>11, <1>12, <1>13, <1>14, <1>15, WordsJoined
<1> QED
  BY <1>7, <1>16 DEF PolicyLines, list, first, t, row, s

LEMMA PolicyParts ==
  ASSUME NEW c \in Cache, Roomy(c), NEW S, \A i \in DOMAIN c.table : LineOf(c.table[i]) \in S
  PROVE  /\ PolicyLines(c) = <<DefaultOf(c)>> \o TableOf(c)
         /\ TableOf(c) \in Seq(S) /\ Len(TableOf(c)) = Len(c.table)
         /\ \A i \in 1..Len(c.table) : TableOf(c)[i] = LineOf(c.table[i])
<1>1. c.table \in Seq([RowFields -> Text])
  BY DEF Cache
<1>2. DOMAIN c.table = 1..Len(c.table) /\ Len(c.table) \in Nat
  BY <1>1, LenProperties
<1>3. PolicyLines(c) = <<DefaultOf(c)>> \o TableOf(c)
  BY PolicyIs
<1>4. /\ TableOf(c) \in Seq(S) /\ Len(TableOf(c)) = Len(c.table)
      /\ \A i \in 1..Len(c.table) : TableOf(c)[i] = LineOf(c.table[i])
  BY <1>2 DEF TableOf
<1> QED
  BY <1>3, <1>4

\* Where every row has its own MAC and two addresses, its line is neither the
\* default one nor cut short.
FullRow(val) ==
  /\ val \in [RowFields -> Text]
  /\ val["mac"] # "" /\ val["v4"] # "" /\ val["v6"] # ""
  /\ \A f \in RowFields : val[f] \in NotDefault
  /\ Narrow(val)

\* So it is in the line of a row with both addresses.
LEMMA FullRowLine ==
  ASSUME NEW val, FullRow(val)
  PROVE  /\ LineOf(val) \in DeviceLines /\ Len(LineOf(val)) <= 5
         /\ Scanned(LineOf(val)) = LineOf(val)
         /\ Word(LineOf(val), 2) = val["mac"] /\ Word(LineOf(val), 3) = val["v4"]
         /\ Word(LineOf(val), 4) = val["v6"] /\ Word(LineOf(val), 5) = val["tag"]
         /\ val["v4"] \in V4 /\ val["v6"] \in V6 => LineOf(val) \in ValidLines
<1> DEFINE m == val["mac"]
           a == val["v4"]
           b == val["v6"]
           t == val["tag"]
           l == LineOf(val)
<1>1. m \in Token /\ a \in Token /\ b \in Token /\ t \in Text
      /\ {m, a, b, t} \subseteq NotDefault
  BY DEF FullRow, RowFields, Text
<1>8. \A w \in {m, a, b, t, "dnsoverride"} : Width[w] < 64
  <2>1. Width["dnsoverride"] = 11
    BY DmlAssumption, Zenon
  <2>2. Width[m] < 64 /\ Width[a] < 64 /\ Width[b] < 64 /\ Width[t] < 64
    BY DEF FullRow, Narrow, RowFields, STR_SIZE
  <2> HIDE DEF m, a, b, t
  <2>3. Width["dnsoverride"] < 64
    BY <2>1
  <2> QED
    BY <2>2, <2>3, Zenon
<1>2. l = Override(m, a, b, t)
  BY DEF LineOf
<1> HIDE DEF m, a, b, t, l
<1>3. /\ l \in Line /\ Len(l) >= 4 /\ Len(l) <= 5
      /\ Word(l, 2) = m /\ Word(l, 3) = a /\ Word(l, 4) = b /\ Word(l, 5) = t
      /\ l[3] = a /\ l[4] = b
      /\ l \notin Mentioning(DefaultMac)
      /\ \A i \in DOMAIN l : l[i] \in {m, a, b, t, "dnsoverride"}
  <2>1. FullWords(Override(m, a, b, t), m, a, b, t)
    BY <1>1, FullLine
  <2> QED
    BY <1>1, <1>2, <2>1 DEF FullWords
<1>4. Len(l) \in Nat
  BY <1>3, LenProperties DEF Line
<1>5. Len(l) >= 3
  BY <1>3, <1>4
<1>6. Scanned(l) = l
  <2>1. \A i \in DOMAIN l : Width[l[i]] < 64
    BY <1>3, <1>8, Zenon
  <2> QED
    BY <1>3, <2>1, ScannedWhole
<1>7. l \in DeviceLines /\ (a \in V4 /\ b \in V6 => l \in ValidLines)
  BY <1>1, <1>3, <1>5, <1>6 DEF DeviceLines, ValidLines, WithWord
<1> QED
  BY <1>3, <1>7, <1>6 DEF m, a, b, t, l

\* The rows that are read back are those of the cache.
LEMMA RowsOfPolicy ==
  ASSUME NEW c \in Cache, Narrow(DefaultRow(c)), \A i \in DOMAIN c.table : FullRow(c.table[i])
  PROVE  LET list == RowsIn(PolicyLines(c))
         IN /\ Len(list) = Len(c.table)
            /\ \A i \in DOMAIN list : \A f \in RowFields : list[i].val[f] = c.table[i][f]
<1> DEFINE d == DefaultOf(c)
           first == <<d>>
           t == TableOf(c)
           list == RowsIn(PolicyLines(c))
<1>1. c.table \in Seq([RowFields -> Text]) /\ c.v4 \in Text /\ c.v6 \in Text /\ c.tag \in Text
  BY DEF Cache
<1>2. DOMAIN c.table = 1..Len(c.table) /\ Len(c.table) \in Nat
  BY <1>1, LenProperties
<1>3. \A i \in DOMAIN c.table : LineOf(c.table[i]) \in DeviceLines
  BY FullRowLine
<1>4. /\ PolicyLines(c) = first \o t
      /\ t \in Seq(DeviceLines) /\ Len(t) = Len(c.table)
      /\ \A i \in 1..Len(c.table) : t[i] = LineOf(c.table[i])
  <2>1. Roomy(c)
    BY DEF Roomy, FullRow
  <2> QED
    BY <1>3, <2>1, PolicyParts
<1>6. d \in Mentioning(DefaultMac) /\ d \in Line
  <2>1. DefaultMac \in Token /\ DefaultMac \in Text
    BY WordsAssumption DEF Text
  <2>2. d \in Mentioning(DefaultMac)
    BY <1>1, <2>1, OverrideMentions DEF DefaultOf
  <2> QED
    BY <2>2 DEF Mentioning
<1>7. first \in Seq({d}) /\ first \in Seq(Line)
  <2> HIDE DEF d
  <2> QED
    BY <1>6
<1>8. DeviceLines \subseteq Line /\ {d} \cap DeviceLines = {}
  BY <1>6 DEF DeviceLines, WithWord
<1> HIDE DEF d, first, t
<1>9. t \in Seq(Line)
  BY <1>4, <1>8, SeqMonotonic
<1>10. Keep(PolicyLines(c), DeviceLines) = t
  <2>1. Keep(first \o t, DeviceLines) = Keep(first, DeviceLines) \o Keep(t, DeviceLines)
    BY <1>7, <1>9, KeepConcat
  <2>2. Keep(first, DeviceLines) = << >>
    BY <1>7, <1>8, KeepNone
  <2>3. Keep(t, DeviceLines) = t
    BY <1>4, KeepAll
  <2>4. << >> \o t = t
    BY <1>9, ConcatEmptySeq
  <2> QED
    BY <1>4, <2>1, <2>2, <2>3, <2>4
<1>11. list = [i \in 1..Len(t) |->
                 [ins |-> i,
                  val |-> [f \in RowFields |->
                             CASE f = "mac" -> Word(Scanned(t[i]), 2)
                               [] f = "v4"  -> Word(Scanned(t[i]), 3)
                               [] f = "v6"  -> Word(Scanned(t[i]), 4)
                               [] f = "tag" -> Word(Scanned(t[i]), 5)],
                  changed |-> {}]]
  <2> DEFINE R(device) == [i \in 1..Len(device) |->
                 [ins |-> i,
                  val |-> [f \in RowFields |->
                             CASE f = "mac" -> Word(Scanned(device[i]), 2)
                               [] f = "v4"  -> Word(Scanned(device[i]), 3)
                               [] f = "v6"  -> Word(Scanned(device[i]), 4)
                               [] f = "tag" -> Word(Scanned(device[i]), 5)],
                  changed |-> {}]]
  <2>1. list = R(Keep(PolicyLines(c), DeviceLines))
    BY Zenon DEF RowsIn
  <2> HIDE DEF R, list
  <2>3. list = R(t)
    BY <1>10, <2>1
  <2> QED
    BY <2>3 DEF R
<1> HIDE DEF list
<1>12. Len(list) = Len(c.table) /\ DOMAIN list = 1..Len(c.table)
  BY <1>2, <1>4, <1>11
<1>13. ASSUME NEW i \in 1..Len(c.table), NEW f \in RowFields
       PROVE  list[i].val[f] = c.table[i][f]
  <2> DEFINE w(g) == CASE g = "mac" -> Word(Scanned(t[i]), 2)
                       [] g = "v4"  -> Word(Scanned(t[i]), 3)
                       [] g = "v6"  -> Word(Scanned(t[i]), 4)
                       [] g = "tag" -> Word(Scanned(t[i]), 5)
  <2>1. list[i].val = [g \in RowFields |-> w(g)]
    BY <1>4, <1>11
  <2>2. FullRow(c.table[i]) /\ t[i] = LineOf(c.table[i])
    BY <1>2, <1>4
  <2>3. /\ Word(Scanned(t[i]), 2) = c.table[i]["mac"] /\ Word(Scanned(t[i]), 3) = c.table[i]["v4"]
        /\ Word(Scanned(t[i]), 4) = c.table[i]["v6"] /\ Word(Scanned(t[i]), 5) = c.table[i]["tag"]
    BY <2>2, FullRowLine
  <2>4. w(f) = c.table[i][f]
    BY <2>3 DEF RowFields
  <2> HIDE DEF w
  <2> QED
    BY <2>1, <2>4
<1> QED
  BY <1>12, <1>13 DEF list

-----------------------------------------------------------------------------
(***************************************************************************)
(* A document that has been read without an error.                         *)
(***************************************************************************)

\* Indices that are not ok have a first one.
LEMMA FirstIndex ==
  ASSUME NEW S, S \subseteq Nat, S # {}
  PROVE  \E x \in S : \A y \in S : x <= y
<1>1. PICK x \in S : \A y \in S : ~ (<<y, x>> \in OpToRel(<, Nat))
  BY NatLessThanWellFounded, WFMin
<1>2. \A y \in S : ~ (y < x)
  BY <1>1 DEF OpToRel
<1> QED
  BY <1>2

\* A row without an error is copied as it is.
LEMMA OkCopied ==
  ASSUME NEW row, RowVerdict(row) = "ok"
  PROVE  /\ row.mac \in WebMac /\ row.v4 \in Ip /\ row.v6 \in Ip /\ Cacheable(row.tag)
         /\ Copied(row)["mac"] = row["mac"] /\ Copied(row)["v4"] = row["v4"]
         /\ Copied(row)["v6"] = row["v6"] /\ Copied(row)["tag"] = row["tag"]
<1>1. /\ row.mac \in WebMac /\ {row.v4, row.v6} \subseteq Ip /\ Cacheable(row.tag)
  BY DEF RowVerdict
<1> DEFINE val(f) ==
             CASE f = "mac" -> IF row.mac \in WebMac THEN row.mac ELSE ""
               [] f \in {"v4", "v6"} ->
                    IF row.mac \in WebMac /\ {row.v4, row.v6} \subseteq Ip THEN row[f] ELSE ""
               [] f = "tag" -> IF RowVerdict(row) = "ok" THEN row.tag ELSE ""
<1>2. Copied(row) = [f \in RowFields |-> val(f)]
  BY Zenon DEF Copied
<1>3. /\ val("mac") = row["mac"] /\ val("v4") = row["v4"]
      /\ val("v6") = row["v6"] /\ val("tag") = row["tag"]
  BY <1>1
<1> HIDE DEF val
<1> QED
  BY <1>1, <1>2, <1>3 DEF RowFields

AsRead(c, blob, loaded) ==
  /\ c.enable = blob.enable /\ c.tag = blob.tag /\ Cacheable(blob.tag)
  /\ {blob.v4, blob.v6} \subseteq Ip \cup {UseRdkDefault}
  /\ {blob.v4, blob.v6} \subseteq Ip => c.v4 = blob.v4 /\ c.v6 = blob.v6
  /\ ~ {blob.v4, blob.v6} \subseteq Ip =>
       loaded.ok /\ c.v4 = loaded.v4 /\ c.v6 = loaded.v6
  /\ c.table = [i \in DOMAIN blob.table |-> Copied(blob.table[i])]
  /\ \A i \in DOMAIN blob.table : RowVerdict(blob.table[i]) = "ok"

\* A document without an error is read as it is, but for what it leaves to the device.
LEMMA OkReading ==
  ASSUME NEW blob \in Blob, NEW fs, NEW mode, set_xdns_conf(blob, fs, mode).verdict = "ok"
  PROVE  AsRead(set_xdns_conf(blob, fs, mode).cache, blob,
                xdns_read_load_dns_ip(fs, mode, blob.v4, blob.v6))
<1> DEFINE loaded == xdns_read_load_dns_ip(fs, mode, blob.v4, blob.v6)
           pair == IF {blob.v4, blob.v6} \subseteq Ip THEN [v4 |-> blob.v4, v6 |-> blob.v6]
                   ELSE IF {blob.v4, blob.v6} \subseteq Ip \cup {UseRdkDefault}
                   THEN [v4 |-> loaded.v4, v6 |-> loaded.v6]
                   ELSE [v4 |-> "", v6 |-> ""]
           first == DefaultVerdict(blob, loaded)
           bad == {i \in DOMAIN blob.table : RowVerdict(blob.table[i]) # "ok"}
           upTo(i) == \A j \in bad : i <= j
           stop == CHOOSE i \in bad : upTo(i)
           table == IF first # "ok" THEN << >>
                    ELSE [i \in DOMAIN blob.table |->
                            IF upTo(i) THEN Copied(blob.table[i]) ELSE NoRow]
           tag == IF first = "ok" THEN blob.tag ELSE ""
           verdict == IF first # "ok" THEN first
                      ELSE IF bad # {} THEN RowVerdict(blob.table[stop]) ELSE "ok"
           c == set_xdns_conf(blob, fs, mode).cache
<1>1. set_xdns_conf(blob, fs, mode) =
        [verdict |-> verdict,
         cache |-> [enable |-> blob.enable, v4 |-> pair.v4, v6 |-> pair.v6, tag |-> tag,
                    table |-> table]]
  BY Zenon DEF set_xdns_conf
<1>2. /\ verdict = "ok"
      /\ c.enable = blob.enable /\ c.v4 = pair.v4 /\ c.v6 = pair.v6 /\ c.tag = tag
      /\ c.table = table
  <2> HIDE DEF verdict, pair, tag, table
  <2> QED
    BY <1>1
<1>3. first = "ok" /\ (bad # {} => RowVerdict(blob.table[stop]) = "ok")
  <2> HIDE DEF first, bad, stop
  <2> QED
    BY <1>2
<1>4. bad \subseteq Nat
  <2>1. DOMAIN blob.table \subseteq Nat
    <3>1. blob.table \in Seq(BlobRow)
      BY DEF Blob, BlobRow
    <3>2. DOMAIN blob.table = 1..Len(blob.table) /\ Len(blob.table) \in Nat
      BY <3>1, LenProperties
    <3> QED
      BY <3>2
  <2> QED
    BY <2>1
<1>5. bad = {}
  <2> SUFFICES ASSUME bad # {} PROVE FALSE
    OBVIOUS
  <2>1. \E i \in bad : upTo(i)
    <3> HIDE DEF bad
    <3> QED
      BY <1>4, FirstIndex
  <2>2. stop \in bad
    <3> HIDE DEF bad, upTo
    <3> QED
      BY <2>1, Zenon
  <2>3. RowVerdict(blob.table[stop]) # "ok"
    <3> HIDE DEF stop
    <3> QED
      BY <2>2
  <2> QED
    BY <1>3, <2>3
<1>6. table = [i \in DOMAIN blob.table |-> Copied(blob.table[i])]
  <2>1. \A i : upTo(i)
    BY <1>5
  <2> HIDE DEF upTo, first
  <2> QED
    BY <1>3, <2>1
<1>7. \A i \in DOMAIN blob.table : RowVerdict(blob.table[i]) = "ok"
  BY <1>5
<1>8. /\ {blob.v4, blob.v6} \subseteq Ip \cup {UseRdkDefault} /\ Cacheable(blob.tag)
      /\ {blob.v4, blob.v6} \subseteq Ip \/ loaded.ok
  <2> HIDE DEF loaded
  <2> QED
    BY <1>3 DEF DefaultVerdict
<1>9. /\ {blob.v4, blob.v6} \subseteq Ip => pair.v4 = blob.v4 /\ pair.v6 = blob.v6
      /\ ~ {blob.v4, blob.v6} \subseteq Ip =>
           pair.v4 = loaded.v4 /\ pair.v6 = loaded.v6
  <2> HIDE DEF loaded
  <2> QED
    BY <1>8
<1>10. tag = blob.tag
  <2> HIDE DEF first
  <2> QED
    BY <1>3
<1> HIDE DEF loaded, pair, tag, table, first, bad, verdict, c
<1>11. /\ c.enable = blob.enable /\ c.tag = blob.tag /\ Cacheable(blob.tag)
       /\ {blob.v4, blob.v6} \subseteq Ip \cup {UseRdkDefault}
       /\ {blob.v4, blob.v6} \subseteq Ip => c.v4 = blob.v4 /\ c.v6 = blob.v6
       /\ ~ {blob.v4, blob.v6} \subseteq Ip =>
            loaded.ok /\ c.v4 = loaded.v4 /\ c.v6 = loaded.v6
       /\ c.table = [i \in DOMAIN blob.table |-> Copied(blob.table[i])]
  BY <1>2, <1>6, <1>8, <1>9, <1>10
<1> QED
  BY <1>7, <1>11, Zenon DEF loaded, c, AsRead

\* A document is ignored for its first line or for one of its rows.
LEMMA IgnoredReading ==
  ASSUME NEW blob \in Blob, NEW fs, NEW mode, set_xdns_conf(blob, fs, mode).verdict = "ignored"
  PROVE  \/ DefaultVerdict(blob, xdns_read_load_dns_ip(fs, mode, blob.v4, blob.v6)) = "ignored"
         \/ /\ DefaultVerdict(blob, xdns_read_load_dns_ip(fs, mode, blob.v4, blob.v6)) = "ok"
            /\ \E i \in DOMAIN blob.table : RowVerdict(blob.table[i]) = "ignored"
<1> DEFINE loaded == xdns_read_load_dns_ip(fs, mode, blob.v4, blob.v6)
           pair == IF {blob.v4, blob.v6} \subseteq Ip THEN [v4 |-> blob.v4, v6 |-> blob.v6]
                   ELSE IF {blob.v4, blob.v6} \subseteq Ip \cup {UseRdkDefault}
                   THEN [v4 |-> loaded.v4, v6 |-> loaded.v6]
                   ELSE [v4 |-> "", v6 |-> ""]
           first == DefaultVerdict(blob, loaded)
           bad == {i \in DOMAIN blob.table : RowVerdict(blob.table[i]) # "ok"}
           upTo(i) == \A j \in bad : i <= j
           stop == CHOOSE i \in bad : upTo(i)
           table == IF first # "ok" THEN << >>
                    ELSE [i \in DOMAIN blob.table |->
                            IF upTo(i) THEN Copied(blob.table[i]) ELSE NoRow]
           tag == IF first = "ok" THEN blob.tag ELSE ""
           verdict == IF first # "ok" THEN first
                      ELSE IF bad # {} THEN RowVerdict(blob.table[stop]) ELSE "ok"
<1>1. set_xdns_conf(blob, fs, mode) =
        [verdict |-> verdict,
         cache |-> [enable |-> blob.enable, v4 |-> pair.v4, v6 |-> pair.v6, tag |-> tag,
                    table |-> table]]
  BY Zenon DEF set_xdns_conf
<1>2. verdict = "ignored"
  <2> HIDE DEF verdict, pair, tag, table
  <2> QED
    BY <1>1
<1>3. first = "ignored" \/ (first = "ok" /\ bad # {} /\ RowVerdict(blob.table[stop]) = "ignored")
  <2> HIDE DEF first, bad, stop
  <2> QED
    BY <1>2
<1>4. bad \subseteq Nat
  <2>1. blob.table \in Seq(BlobRow)
    BY DEF Blob, BlobRow
  <2>2. DOMAIN blob.table = 1..Len(blob.table) /\ Len(blob.table) \in Nat
    BY <2>1, LenProperties
  <2> QED
    BY <2>2
<1>5. bad # {} => stop \in DOMAIN blob.table
  <2> SUFFICES ASSUME bad # {} PROVE stop \in DOMAIN blob.table
    OBVIOUS
  <2>1. \E i \in bad : upTo(i)
    <3> HIDE DEF bad
    <3> QED
      BY <1>4, FirstIndex
  <2>2. stop \in bad
    <3> HIDE DEF bad, upTo
    <3> QED
      BY <2>1, Zenon
  <2> HIDE DEF stop
  <2> QED
    BY <2>2
<1> HIDE DEF bad, stop
<1> QED
  BY <1>3, <1>5 DEF first, loaded

\* A row that is copied has room in its line.
LEMMA OkNarrow ==
  ASSUME NEW row \in BlobRow, RowVerdict(row) = "ok"
  PROVE  Narrow(Copied(row))
<1> DEFINE val == Copied(row)
           m == row["mac"]
           a == row["v4"]
           b == row["v6"]
           g == row["tag"]
<1>1. /\ row.mac \in WebMac /\ row.v4 \in Ip /\ row.v6 \in Ip /\ Cacheable(row.tag)
      /\ val["mac"] = m /\ val["v4"] = a /\ val["v6"] = b /\ val["tag"] = g
  BY OkCopied
<1>2. m = row.mac /\ a = row.v4 /\ b = row.v6 /\ g = row.tag
  OBVIOUS
<1> HIDE DEF val, m, a, b, g
<1>3. m \in Text /\ a \in Text /\ b \in Text /\ g \in Text
  BY <1>1, <1>2, WordsAreText DEF Cacheable
<1>4. /\ Width[m] \in Nat /\ Width[a] \in Nat /\ Width[b] \in Nat /\ Width[g] \in Nat
  BY <1>3, WordsAssumption DEF Text
<1>5. Width[m] \in {17, 35} /\ Width[a] < 46 /\ Width[b] < 46 /\ Width[g] < 64
  BY <1>1, <1>2, WebAssumption DEF Ip, Cacheable, STR_SIZE
<1>6. Fits(m, a, b, g)
  BY <1>4, <1>5 DEF Fits, MAX_BUF_SIZE
<1>7. Width[m] < 64 /\ Width[a] < 64 /\ Width[b] < 64 /\ Width[g] < 64
  BY <1>4, <1>5
<1> QED
  BY <1>1, <1>6, <1>7 DEF val, Narrow, RowFields, STR_SIZE

\* So has a default line with two addresses and a tag the cache has room for.
IpOrNone == Ip \cup {""}

LEMMA DefaultNarrow ==
  ASSUME NEW c \in Cache, Cacheable(c.v4), c.v6 \in IpOrNone, Cacheable(c.tag)
  PROVE  Narrow(DefaultRow(c))
<1> DEFINE row == DefaultRow(c)
           a == c.v4
           b == c.v6
           g == c.tag
<1>1. a \in Text /\ b \in Text /\ g \in Text /\ DefaultMac \in Text
  BY AddressesAreText DEF Cache
<1>2. row["mac"] = DefaultMac /\ row["v4"] = a /\ row["v6"] = b /\ row["tag"] = g
  BY DEF DefaultRow
<1>3. Width[a] < 64 /\ Width[g] < 64
  BY DEF Cacheable, STR_SIZE
<1>b. b \in V4 \cup V6 \cup {""}
  BY DEF IpOrNone, Ip
<1> HIDE DEF row, a, b, g
<1>4. /\ Width[a] \in Nat /\ Width[b] \in Nat /\ Width[g] \in Nat
      /\ Width[DefaultMac] \in Nat /\ Width[DefaultMac] \in {17}
  BY <1>1, WordsAssumption, WebAssumption DEF Text
<1>5. Width[b] < 46
  BY <1>b, WebAssumption
<1>6. Fits(DefaultMac, a, b, g)
  BY <1>3, <1>4, <1>5 DEF Fits, MAX_BUF_SIZE
<1>7. Width[b] < 64 /\ Width[DefaultMac] < 64
  BY <1>4, <1>5
<1> QED
  BY <1>2, <1>3, <1>6, <1>7 DEF row, Narrow, RowFields, STR_SIZE

\* What was read without an error has room in the lines.
LEMMA ReadRoomy ==
  ASSUME NEW blob \in Blob, NEW loaded, NEW c \in Cache, AsRead(c, blob, loaded),
         c.v4 \in Ip, c.v6 \in Ip
  PROVE  Roomy(c)
<1>1. /\ c.tag = blob.tag /\ Cacheable(blob.tag)
      /\ c.table = [i \in DOMAIN blob.table |-> Copied(blob.table[i])]
      /\ \A i \in DOMAIN blob.table : RowVerdict(blob.table[i]) = "ok"
  BY DEF AsRead
<1>2. Narrow(DefaultRow(c))
  <2>1. c.v4 \in V4 \cup V6
    BY DEF Ip
  <2>2. Width[c.v4] < 46 /\ Width[c.v4] \in Nat
    BY <2>1, WordsAssumption, WebAssumption
  <2>3. Cacheable(c.v4) /\ Cacheable(c.tag)
    <3>1. Width[c.v4] < STR_SIZE
      BY <2>2 DEF STR_SIZE
    <3>2. c.v4 \in Text
      BY DEF Cache
    <3> QED
      BY <1>1, <3>1, <3>2 DEF Cacheable
  <2> QED
    BY <2>3, DefaultNarrow DEF IpOrNone
<1>3. \A i \in DOMAIN blob.table : blob.table[i] \in BlobRow
  <2>1. blob.table \in Seq(BlobRow)
    BY DEF Blob, BlobRow
  <2> QED
    BY <2>1, LenProperties, ElementOfSeq
<1>4. \A i \in DOMAIN c.table : Narrow(c.table[i])
  BY <1>1, <1>3, OkNarrow
<1> QED
  BY <1>2, <1>4 DEF Roomy

\* The addresses are in the fields of their family, tags have room in the cache,
\* and in no row strstr finds the default MAC; or CheckIfIpIsValid refuses the
\* document, or does not survive it.
OwnRow(row) ==
  /\ row.mac # Missing
  /\ row.mac \in WebMac /\ {row.v4, row.v6} \subseteq Ip =>
       /\ row.mac \in NotDefault /\ row.v4 \in V4 /\ row.v6 \in V6
       /\ Cacheable(row.tag) /\ row.tag \in NotDefault

OwnFields(blob) ==
  \/ ~ {blob.v4, blob.v6} \subseteq Ip \cup {UseRdkDefault}
  \/ /\ blob.v4 \in V4 /\ blob.v6 \in V6 /\ Cacheable(blob.tag)
     /\ \A i \in DOMAIN blob.table : OwnRow(blob.table[i])

\* A cache of which every line is valid.
ProperRow(val) == FullRow(val) /\ val["v4"] \in V4 /\ val["v6"] \in V6

Proper(c) ==
  /\ c \in Cache /\ c.v4 \in V4 /\ c.v6 \in V6 /\ Narrow(DefaultRow(c))
  /\ \A i \in DOMAIN c.table : ProperRow(c.table[i])

LEMMA ProperRoomy ==
  ASSUME NEW c, Narrow(DefaultRow(c)), \A i \in DOMAIN c.table : ProperRow(c.table[i])
  PROVE  Roomy(c)
BY DEF Roomy, ProperRow, FullRow

\* The cache says what the document says.
SaysRows(c, blob) ==
  /\ Len(c.table) = Len(blob.table) /\ DOMAIN c.table = DOMAIN blob.table
  /\ \A i \in DOMAIN c.table : \A f \in RowFields : c.table[i][f] = blob.table[i][f]

Says(c, blob) ==
  c.enable = blob.enable /\ c.v4 = blob.v4 /\ c.v6 = blob.v6 /\ SaysRows(c, blob)

\* A row that is copied without an error can be read back from its line.
LEMMA OwnCopied ==
  ASSUME Ip \subseteq NotDefault, NEW row \in BlobRow, RowVerdict(row) = "ok", OwnRow(row)
  PROVE  ProperRow(Copied(row)) /\ \A f \in RowFields : Copied(row)[f] = row[f]
<1> DEFINE val == Copied(row)
<1>1. /\ row.mac \in WebMac /\ row.v4 \in Ip /\ row.v6 \in Ip
      /\ val["mac"] = row["mac"] /\ val["v4"] = row["v4"]
      /\ val["v6"] = row["v6"] /\ val["tag"] = row["tag"]
  BY OkCopied
<1>2. val \in [RowFields -> Text] /\ Narrow(val)
  BY CopiedType, OkNarrow
<1>3. /\ row.mac \in NotDefault /\ row.v4 \in V4 /\ row.v6 \in V6 /\ row.tag \in NotDefault
  BY <1>1 DEF OwnRow
<1>4. row.mac # "" /\ row.v4 # "" /\ row.v6 # ""
  <2>1. row.mac \in Token /\ row.v4 \in Token /\ row.v6 \in Token /\ "" \notin Token
    BY <1>1, <1>3, WebAssumption, WordsAssumption
  <2> HIDE DEF val
  <2> QED
    BY <2>1
<1>5. row.v4 \in NotDefault /\ row.v6 \in NotDefault
  BY <1>1
<1>6. /\ row["mac"] = row.mac /\ row["v4"] = row.v4 /\ row["v6"] = row.v6 /\ row["tag"] = row.tag
  OBVIOUS
<1> HIDE DEF val
<1>7. FullRow(val)
  BY <1>1, <1>2, <1>3, <1>4, <1>5, <1>6 DEF FullRow, RowFields
<1>8. ProperRow(val) /\ \A f \in RowFields : val[f] = row[f]
  BY <1>1, <1>3, <1>6, <1>7 DEF ProperRow, RowFields
<1> QED
  BY <1>8 DEF val

\* A document with addresses of its own is refused, or read into a proper cache
\* that says what the document says.
LEMMA OwnReading ==
  ASSUME Ip \subseteq NotDefault, NEW blob \in Blob, OwnFields(blob), NEW fs \in Files, NEW mode
  PROVE  LET read == set_xdns_conf(blob, fs, mode)
         IN /\ read.verdict \in {"ok", "invalid", "crash"}
            /\ read.verdict = "ok" =>
                 /\ Proper(read.cache) /\ Says(read.cache, blob)
                 /\ {blob.v4, blob.v6} \subseteq Ip
<1> DEFINE read == set_xdns_conf(blob, fs, mode)
           loaded == xdns_read_load_dns_ip(fs, mode, blob.v4, blob.v6)
           c == read.cache
<1>1. read.cache \in Cache /\ read.verdict \in {"ok", "invalid", "ignored", "crash"}
  BY SetConfType
<1>2. blob.table \in Seq(BlobRow)
  BY DEF Blob, BlobRow
<1>3. DOMAIN blob.table = 1..Len(blob.table) /\ Len(blob.table) \in Nat
  BY <1>2, LenProperties
<1>4. \A i \in DOMAIN blob.table : blob.table[i] \in BlobRow
  BY <1>2, <1>3, ElementOfSeq
<1>6. ASSUME {blob.v4, blob.v6} \subseteq Ip \cup {UseRdkDefault}
      PROVE  /\ blob.v4 \in V4 /\ blob.v6 \in V6 /\ Cacheable(blob.tag)
             /\ {blob.v4, blob.v6} \subseteq Ip
             /\ \A i \in DOMAIN blob.table : OwnRow(blob.table[i])
  BY <1>6 DEF OwnFields, Ip
<1>7. read.verdict # "ignored"
  <2> SUFFICES ASSUME read.verdict = "ignored" PROVE FALSE
    OBVIOUS
  <2>1. DefaultVerdict(blob, loaded) # "ignored"
    <3> HIDE DEF loaded
    <3> QED
      BY <1>6 DEF DefaultVerdict
  <2>2. /\ DefaultVerdict(blob, loaded) = "ok"
        /\ \E i \in DOMAIN blob.table : RowVerdict(blob.table[i]) = "ignored"
    BY <2>1, IgnoredReading
  <2>3. {blob.v4, blob.v6} \subseteq Ip \cup {UseRdkDefault}
    <3> HIDE DEF loaded
    <3> QED
      BY <2>2 DEF DefaultVerdict
  <2>4. PICK i \in DOMAIN blob.table : RowVerdict(blob.table[i]) = "ignored"
    BY <2>2
  <2>5. OwnRow(blob.table[i])
    BY <1>6, <2>3
  <2> QED
    BY <2>4, <2>5 DEF OwnRow, RowVerdict
<1>8. ASSUME read.verdict = "ok"
      PROVE  Proper(c) /\ Says(c, blob) /\ {blob.v4, blob.v6} \subseteq Ip
  <2>1. /\ c.enable = blob.enable
        /\ {blob.v4, blob.v6} \subseteq Ip \cup {UseRdkDefault}
        /\ {blob.v4, blob.v6} \subseteq Ip => c.v4 = blob.v4 /\ c.v6 = blob.v6
        /\ c.table = [i \in DOMAIN blob.table |-> Copied(blob.table[i])]
        /\ \A i \in DOMAIN blob.table : RowVerdict(blob.table[i]) = "ok"
        /\ AsRead(c, blob, loaded)
    <3>1. AsRead(c, blob, loaded)
      BY <1>8, OkReading
    <3> HIDE DEF c, read, loaded
    <3> QED
      BY <3>1 DEF AsRead
  <2>6. Narrow(DefaultRow(c))
    <3> HIDE DEF loaded, c, read
    <3>1. c.v4 \in Ip /\ c.v6 \in Ip /\ c \in Cache
      BY <1>1, <1>6, <2>1 DEF c
    <3> QED
      BY <2>1, <3>1, ReadRoomy DEF Roomy
  <2> HIDE DEF c, read
  <2>2. \A i \in DOMAIN blob.table :
          ProperRow(Copied(blob.table[i]))
          /\ \A f \in RowFields : Copied(blob.table[i])[f] = blob.table[i][f]
    BY <1>4, <1>6, <2>1, OwnCopied
  <2>3. DOMAIN c.table = 1..Len(blob.table) /\ Len(c.table) = Len(blob.table)
    BY <1>3, <2>1
  <2>4. \A i \in DOMAIN c.table : c.table[i] = Copied(blob.table[i]) /\ i \in DOMAIN blob.table
    BY <1>3, <2>1
  <2>5. SaysRows(c, blob) /\ \A i \in DOMAIN c.table : ProperRow(c.table[i])
    BY <1>3, <2>2, <2>3, <2>4 DEF SaysRows
  <2> QED
    BY <1>1, <1>6, <2>1, <2>5, <2>6 DEF Proper, Says, c
<1> QED
  BY <1>1, <1>7, <1>8

\* Every line of such a cache is valid, and one is for the default.
LEMMA ProperPolicy ==
  ASSUME NEW c, Proper(c)
  PROVE  /\ PolicyLines(c) \in Seq(ValidLines)
         /\ Keep(PolicyLines(c), ValidLines) = PolicyLines(c)
         /\ 1 \in DOMAIN PolicyLines(c) /\ PolicyLines(c)[1] \in ValidDefaults
         /\ DefaultLines(PolicyLines(c)) = <<DefaultOf(c)>>
         /\ DefaultOf(c) \in ValidDefaults
         /\ Word(DefaultOf(c), 3) = c.v4 /\ Word(DefaultOf(c), 4) = c.v6
<1> DEFINE d == DefaultOf(c)
           first == <<d>>
           t == TableOf(c)
<1>1. c \in Cache /\ c.v4 \in V4 /\ c.v6 \in V6 /\ c.tag \in Text
  BY DEF Proper, Cache
<1>2. c.v4 \in Token /\ c.v6 \in Token /\ DefaultMac \in Token
  BY <1>1, WordsAssumption
<1>3. /\ d \in Line /\ Len(d) >= 4 /\ Len(d) <= 5 /\ d[2] = DefaultMac /\ d[3] = c.v4 /\ d[4] = c.v6
      /\ Word(d, 3) = c.v4 /\ Word(d, 4) = c.v6 /\ d \in Mentioning(DefaultMac)
  <2> DEFINE a == c.v4
             b == c.v6
             g == c.tag
  <2>1. a \in Token /\ b \in Token /\ g \in Text /\ d = Override(DefaultMac, a, b, g)
    BY <1>1, <1>2 DEF DefaultOf
  <2> HIDE DEF a, b, g, d
  <2>2. FullWords(Override(DefaultMac, a, b, g), DefaultMac, a, b, g)
    BY <1>2, <2>1, FullLine
  <2>3. FullWords(d, DefaultMac, a, b, g)
    BY <2>1, <2>2
  <2> QED
    BY <2>3 DEF FullWords, a, b
<1>4. \A i \in DOMAIN c.table : LineOf(c.table[i]) \in ValidLines \cap DeviceLines
  BY FullRowLine DEF Proper, ProperRow
<1>5. /\ PolicyLines(c) = first \o t
      /\ t \in Seq(ValidLines \cap DeviceLines)
  <2>1. Roomy(c)
    BY ProperRoomy DEF Proper
  <2> QED
    BY <1>1, <1>4, <2>1, PolicyParts
<1> HIDE DEF d
<1>6. d \in ValidLines /\ d \in ValidDefaults
  <2>1. Len(d) \in Nat
    BY <1>3, LenProperties DEF Line
  <2>2. Len(d) >= 3
    BY <1>3, <2>1
  <2> QED
    BY <1>1, <1>3, <2>2 DEF ValidDefaults, ValidLines, WithWord
<1>7. first \in Seq(ValidLines) /\ Len(first) = 1 /\ first[1] = d /\ first \in Seq({d})
  BY <1>6
<1> HIDE DEF first, t
<1>8. t \in Seq(ValidLines) /\ t \in Seq(DeviceLines)
  BY <1>5, SeqMonotonic, ValidLines \cap DeviceLines \subseteq ValidLines,
     ValidLines \cap DeviceLines \subseteq DeviceLines
<1>9. /\ first \o t \in Seq(ValidLines) /\ Len(first \o t) = Len(first) + Len(t)
      /\ \A i \in 1 .. Len(first) + Len(t) :
           (first \o t)[i] = IF i <= Len(first) THEN first[i] ELSE t[i - Len(first)]
  BY <1>7, <1>8, ConcatProperties
<1>10. Len(t) \in Nat
  BY <1>8, LenProperties
<1>11. 1 \in DOMAIN (first \o t) /\ (first \o t)[1] = d
  <2> DEFINE u == first \o t
  <2>1. u \in Seq(ValidLines) /\ Len(u) = 1 + Len(t)
    BY <1>7, <1>9
  <2>2. u[1] = d
    BY <1>7, <1>9, <1>10
  <2> HIDE DEF u
  <2>3. 1 \in DOMAIN u
    BY <1>10, <2>1, LenProperties
  <2> QED
    BY <2>2, <2>3 DEF u
<1>12. Keep(first \o t, ValidLines) = first \o t
  BY <1>9, KeepAll
<1>13. Keep(first \o t, Mentioning(DefaultMac)) = first
  <2>1. Keep(first \o t, Mentioning(DefaultMac))
          = Keep(first, Mentioning(DefaultMac)) \o Keep(t, Mentioning(DefaultMac))
    BY <1>7, <1>8, KeepConcat
  <2>2. Keep(first, Mentioning(DefaultMac)) = first
    BY <1>3, <1>7, KeepAll, {d} \subseteq Mentioning(DefaultMac)
  <2>3. Keep(t, Mentioning(DefaultMac)) = << >>
    BY <1>8, KeepNone, DeviceLines \cap Mentioning(DefaultMac) = {} DEF DeviceLines
  <2>4. first \o << >> = first
    BY <1>7, ConcatEmptySeq
  <2> QED
    BY <2>1, <2>2, <2>3, <2>4
<1>14. /\ PolicyLines(c) \in Seq(ValidLines)
       /\ Keep(PolicyLines(c), ValidLines) = PolicyLines(c)
       /\ 1 \in DOMAIN PolicyLines(c) /\ PolicyLines(c)[1] \in ValidDefaults
       /\ DefaultLines(PolicyLines(c)) = first
  BY <1>5, <1>6, <1>9, <1>11, <1>12, <1>13 DEF DefaultLines
<1> QED
  BY <1>3, <1>6, <1>14 DEF first, d

\* What is read back of the default line.
LEMMA ProperDefaults ==
  ASSUME NEW c, Proper(c), NEW e
  PROVE  /\ DefaultsIn(PolicyLines(c), e)["v4"] = c.v4
         /\ DefaultsIn(PolicyLines(c), e)["v6"] = c.v6
<1> DEFINE d == DefaultOf(c)
           D == DefaultLines(PolicyLines(c))
           new == DefaultsIn(PolicyLines(c), e)
<1>1. D = <<d>> /\ d \in ValidDefaults /\ Word(d, 3) = c.v4 /\ Word(d, 4) = c.v6
  BY ProperPolicy
<1>2. V4 \in SUBSET Dotted /\ V6 \in SUBSET Coloned
  BY WordsAssumption
<1>3. d \in Pairs(V4, V6)
  BY <1>1 DEF ValidDefaults, ValidLines, Pairs
<1> HIDE DEF d, D, new
<1>4. D \in Seq(Pairs(V4, V6)) /\ D # << >> /\ D[1] = d
  <2> DEFINE P == Pairs(V4, V6)
  <2>1. d \in P
    BY <1>3
  <2> HIDE DEF P
  <2>2. D \in Seq(P) /\ D # << >> /\ D[1] = d
    BY <1>1, <2>1
  <2> QED
    BY <2>2 DEF P
<1>5. /\ new["v4"] = IF D # << >> THEN Word(D[1], 3) ELSE e["v4"]
      /\ new["v6"] = IF D # << >> THEN Word(D[1], 4) ELSE e["v6"]
  BY <1>2, <1>4, DefaultsFrom DEF D, new
<1>6. new["v4"] = c.v4 /\ new["v6"] = c.v6
  BY <1>1, <1>4, <1>5
<1> QED
  BY <1>6 DEF new

\* Both kinds of file that the worker leaves hold all lines.
LEMMA ProperWritten ==
  ASSUME NEW c, Proper(c), NEW conf, Written(conf, c)
  PROVE  conf = PolicyLines(c)
BY ProperPolicy DEF Written

\* What is in force when such a document is reported as executed.
Answered ==
  /\ Proper(cache) /\ Says(cache, doc)
  /\ files.conf = PolicyLines(cache)
  /\ (flag = "1") = doc.enable
  /\ Len(rows) = Len(doc.table)
  /\ \A i \in DOMAIN rows : \A f \in RowFields : rows[i].val[f] = doc.table[i][f]
  /\ dflt["v4"] = doc.v4 /\ dflt["v6"] = doc.v6
  /\ files.resolvExists /\ doc.enable => files.overrides = PolicyLines(cache)

\* When the worker is done with a document that was not undone, it is in force.
LEMMA DoneAnswered ==
  ASSUME Ip \subseteq NotDefault, \A blob \in Blobs : OwnFields(blob), WebInv, Executing, at = "done"
  PROVE  Answered
<1>1. doc \in Blobs /\ doc \in Blob /\ files \in Files /\ ~ undo
  <2>1. files \in Files
    BY DEF WebInv, DmlInv, TypeOK
  <2>2. doc \in Blobs
    BY DEF WebInv, WorkerOK
  <2>3. doc \in Blob
    BY <2>2, WebAssumption
  <2>4. ~ undo
    BY DEF Executing
  <2> QED
    BY <2>1, <2>2, <2>3, <2>4
<1>2. PICK mode \in RouterModes : Taken(mode)
  BY <1>1 DEF Executing
<1> DEFINE read == set_xdns_conf(doc, files, mode)
<1>3. /\ cache = read.cache
      /\ read.verdict = "ignored" \/ (read.verdict = "ok" /\ InForce)
  BY <1>2 DEF Taken
<1>4. /\ read.verdict \in {"ok", "invalid", "crash"}
      /\ read.verdict = "ok" => Proper(read.cache) /\ Says(read.cache, doc)
  BY <1>1, OwnReading
<1> HIDE DEF read
<1>5. InForce /\ Proper(cache) /\ Says(cache, doc)
  BY <1>3, <1>4
<1>6. files.conf = PolicyLines(cache)
  BY <1>5, ProperWritten DEF InForce
<1>7. (flag = "1") = doc.enable
  BY <1>5 DEF InForce, Says
<1>8. /\ Len(rows) = Len(doc.table)
      /\ \A i \in DOMAIN rows : \A f \in RowFields : rows[i].val[f] = doc.table[i][f]
  <2>1. rows = RowsIn(PolicyLines(cache))
    BY <1>5, <1>6 DEF InForce
  <2>2. cache \in Cache /\ Narrow(DefaultRow(cache)) /\ \A i \in DOMAIN cache.table : FullRow(cache.table[i])
    BY <1>5 DEF Proper, ProperRow
  <2>3. /\ Len(rows) = Len(cache.table)
        /\ \A i \in DOMAIN rows : \A f \in RowFields : rows[i].val[f] = cache.table[i][f]
    BY <2>1, <2>2, RowsOfPolicy
  <2>4. DOMAIN rows = DOMAIN cache.table
    <3>1. rows \in Seq(Row)
      BY DEF WebInv, DmlInv, TypeOK
    <3>2. cache.table \in Seq([RowFields -> Text])
      BY <2>2 DEF Cache
    <3> QED
      BY <2>3, <3>1, <3>2, LenProperties
  <2> QED
    BY <1>5, <2>3, <2>4 DEF Says, SaysRows
<1>9. dflt["v4"] = doc.v4 /\ dflt["v6"] = doc.v6
  <2>1. PICK d \in Defaults : dflt = DefaultsIn(PolicyLines(cache), d)
    BY <1>5, <1>6 DEF InForce
  <2>2. dflt["v4"] = cache.v4 /\ dflt["v6"] = cache.v6
    BY <1>5, <2>1, ProperDefaults
  <2> QED
    BY <1>5, <2>2 DEF Says
<1>10. files.resolvExists /\ doc.enable => files.overrides = PolicyLines(cache)
  BY <1>5, <1>6, <1>7, ProperPolicy DEF InForce
<1> QED
  BY <1>5, <1>6, <1>7, <1>8, <1>9, <1>10 DEF Answered

\* A document that is reported as executed is in force, when no address has the
\* default MAC in it.
THEOREM DocumentsInForce ==
  ASSUME Ip \subseteq NotDefault, \A blob \in Blobs : OwnFields(blob), "overlap" \notin Interference
  PROVE  WebSpec => AckedInForce
<1> DEFINE Inv == WebInv /\ Executing
<1>1. WebInit => Inv
  BY WebInitInv DEF WebInit, Executing
<1>2. Inv /\ [WebNext]_allVars => Inv'
  BY WebStepInv, WebStepExecuting
<1>3. Inv /\ Acknowledge =>
        /\ (flag = "1") = doc.enable
        /\ Len(rows) = Len(doc.table)
        /\ \A i \in DOMAIN rows : \A f \in RowFields : rows[i].val[f] = doc.table[i][f]
        /\ {doc.v4, doc.v6} \subseteq Ip => dflt["v4"] = doc.v4 /\ dflt["v6"] = doc.v6
        /\ files.resolvExists /\ doc.enable => files.overrides = PolicyLines(cache)
  BY DoneAnswered DEF Answered, Acknowledge
<1> QED
  BY <1>1, <1>2, <1>3, PTL DEF WebSpec, AckedInForce

\* Where the device names both kinds of resolver, both are found.
LEMMA BothRead ==
  ASSUME NEW list \in Seq(Token), NamesBoth(list)
  PROVE  xdns_read_dns_ip(list).v4 \in V4 /\ xdns_read_dns_ip(list).v6 \in V6
<1> DEFINE at13 == {i \in {1, 3} : i <= Len(list)}
           four == {i \in at13 : list[i] \in Dotted}
           six == {i \in at13 : list[i] \in Compressed}
           a == IF 3 \in four THEN list[3] ELSE IF 1 \in four THEN list[1] ELSE ""
           b == IF 3 \in six THEN list[3] ELSE ""
<1>1. xdns_read_dns_ip(list) = IF 1 \in six THEN [v4 |-> Loopback4, v6 |-> list[1]]
                               ELSE [v4 |-> a, v6 |-> b]
  BY DEF xdns_read_dns_ip
<1>2. Len(list) \in Nat
  BY LenProperties
<1>3. Loopback4 \in V4 /\ Compressed \cap Dotted = {} /\ V4 \subseteq Dotted
  BY WebAssumption, WordsAssumption
<1>4. CASE 1 \in six
  <2>1. list[1] \in Compressed
    BY <1>4
  <2>2. list[1] \in V6
    BY <1>3, <2>1 DEF NamesBoth
  <2> HIDE DEF six, a, b
  <2> QED
    BY <1>1, <1>3, <1>4, <2>2
<1>5. CASE 1 \notin six
  <2>1. Len(list) >= 3 /\ list[1] \in V4 /\ list[3] \in V6 \cap Compressed
    BY <1>2, <1>5 DEF NamesBoth
  <2>2. 3 \in six /\ 1 \in four /\ 3 \notin four
    BY <1>2, <1>3, <2>1
  <2> HIDE DEF six, four
  <2> QED
    BY <1>1, <1>5, <2>1, <2>2
<1> QED
  BY <1>4, <1>5

\* Then the default line of the document is a valid one.
LEMMA BothLoaded ==
  ASSUME NEW fs \in Files, fs.resolvExists, NEW mode \in KnownModes, NamesBoth(Nameservers[fs.ns]),
         NEW v4 \in V4 \cup {UseRdkDefault}, NEW v6 \in V6 \cup {UseRdkDefault}
  PROVE  LET loaded == xdns_read_load_dns_ip(fs, mode, v4, v6)
         IN loaded.ok /\ loaded.v4 \in V4 /\ loaded.v6 \in V6
<1> DEFINE device == xdns_read_dns_ip(Nameservers[fs.ns])
           usable == fs.resolvExists /\ device.v4 \in Ip /\ device.v6 \in Ip
           pair == IF v4 \in Ip THEN [device EXCEPT !.v4 = v4]
                   ELSE IF v6 \in Ip THEN [device EXCEPT !.v6 = v6]
                   ELSE device
<1>1. Nameservers[fs.ns] \in Seq(Token)
  BY NameserverType
<1>2. device \in Pair /\ device.v4 \in V4 /\ device.v6 \in V6
  BY <1>1, DeviceType, BothRead
<1>3. V4 \subseteq Ip /\ V6 \subseteq Ip /\ UseRdkDefault \notin Ip
  BY WebAssumption DEF Ip
<1>4. xdns_read_load_dns_ip(fs, mode, v4, v6)
        = IF usable THEN xdns_load_dns_ip(mode, pair)
          ELSE [ok |-> fs.resolvExists, v4 |-> "", v6 |-> ""]
  BY Zenon DEF xdns_read_load_dns_ip
<1> HIDE DEF device
<1>5. usable
  BY <1>2, <1>3
<1>6. pair.v4 \in V4 /\ pair.v6 \in V6
  BY <1>2, <1>3 DEF Pair
<1> HIDE DEF usable, pair
<1> DEFINE four == IF mode = 1 THEN Loopback4 ELSE pair.v4
           six == IF mode = 0 THEN Loopback6 ELSE pair.v6
           ok4 == mode \in KnownModes /\ Width[four] < STR_SIZE
           ok6 == ok4 /\ Width[six] < IPV6_STR_SIZE
           a == IF ok4 THEN four ELSE ""
           b == IF ok6 THEN six ELSE ""
<1>7. xdns_load_dns_ip(mode, pair) = [ok |-> ok6, v4 |-> a, v6 |-> b]
  BY Zenon DEF xdns_load_dns_ip
<1>8. four \in V4 /\ six \in V6
  BY <1>6, WebAssumption
<1> HIDE DEF four, six
<1>9. Width[four] < 46 /\ Width[six] < 46 /\ Width[four] \in Nat /\ Width[six] \in Nat
  BY <1>8, WebAssumption, WordsAssumption
<1>10. ok4 /\ ok6
  BY <1>9 DEF STR_SIZE, IPV6_STR_SIZE
<1>11. a = four /\ b = six
  BY <1>10
<1> HIDE DEF ok4, ok6, a, b
<1> QED
  BY <1>4, <1>5, <1>7, <1>8, <1>10, <1>11

\* Whatever the rows are, the default line is written first.
LEMMA FirstWritten ==
  ASSUME NEW c \in Cache, c.v4 \in V4, c.v6 \in V6, Roomy(c), NEW conf, Written(conf, c)
  PROVE  1 \in DOMAIN conf /\ conf[1] \in ValidDefaults
<1> DEFINE d == DefaultOf(c)
           first == <<d>>
           t == TableOf(c)
           a == c.v4
           b == c.v6
           g == c.tag
<1>1. a \in Token /\ b \in Token /\ g \in Text /\ DefaultMac \in Token /\ a \in V4 /\ b \in V6
      /\ d = Override(DefaultMac, a, b, g)
  BY WordsAssumption DEF Cache, DefaultOf
<1>2. PolicyLines(c) = first \o t /\ t \in Seq(Line)
  <2>1. \A i \in DOMAIN c.table : LineOf(c.table[i]) \in Line
    <3> SUFFICES ASSUME NEW i \in DOMAIN c.table PROVE LineOf(c.table[i]) \in Line
      OBVIOUS
    <3>1. c.table \in Seq([RowFields -> Text])
      BY DEF Cache
    <3>2. c.table[i] \in [RowFields -> Text]
      BY <3>1, LenProperties, ElementOfSeq
    <3>3. /\ c.table[i]["mac"] \in Text /\ c.table[i]["v4"] \in Text
          /\ c.table[i]["v6"] \in Text /\ c.table[i]["tag"] \in Text
      BY <3>2 DEF RowFields
    <3> QED
      BY <3>3, OverrideType DEF LineOf
  <2> QED
    BY <2>1, PolicyParts
<1> HIDE DEF a, b, g, d
<1>3. FullWords(d, DefaultMac, a, b, g)
  BY <1>1, FullLine
<1>4. d \in ValidLines /\ d \in ValidDefaults /\ d \in Line
  <2>1. Len(d) \in Nat
    BY <1>3, LenProperties DEF Line, FullWords
  <2>2. Len(d) >= 3
    BY <1>3, <2>1 DEF FullWords
  <2> QED
    BY <1>1, <1>3, <2>2 DEF ValidDefaults, ValidLines, WithWord, FullWords
<1>5. first \in Seq(Line) /\ Len(first) = 1 /\ first[1] = d /\ first \in Seq({d})
  BY <1>4
<1> HIDE DEF first, t
<1>6. ASSUME NEW s \in Seq(Line)
      PROVE  1 \in DOMAIN (first \o s) /\ (first \o s)[1] = d
  <2> DEFINE u == first \o s
  <2>1. /\ u \in Seq(Line) /\ Len(u) = Len(first) + Len(s)
        /\ \A i \in 1 .. Len(first) + Len(s) :
             u[i] = IF i <= Len(first) THEN first[i] ELSE s[i - Len(first)]
    BY <1>5, ConcatProperties
  <2>2. Len(s) \in Nat
    BY LenProperties
  <2> HIDE DEF u
  <2>3. DOMAIN u = 1..Len(u)
    BY <2>1, LenProperties
  <2> QED
    BY <1>5, <2>1, <2>2, <2>3 DEF u
<1>7. Keep(first \o t, ValidLines) = first \o Keep(t, ValidLines)
  <2>1. Keep(first \o t, ValidLines) = Keep(first, ValidLines) \o Keep(t, ValidLines)
    BY <1>2, <1>5, KeepConcat
  <2>2. Keep(first, ValidLines) = first
    BY <1>4, <1>5, KeepAll, {d} \subseteq ValidLines
  <2> QED
    BY <2>1, <2>2
<1>8. Keep(t, ValidLines) \in Seq(Line)
  BY <1>2, KeepSub
<1> QED
  BY <1>2, <1>4, <1>6, <1>7, <1>8 DEF Written

\* A complete document that is reported as executed was not ignored.
LEMMA DoneComplete ==
  ASSUME WebInv, Executing, at = "done", Complete(doc)
  PROVE  /\ InForce /\ cache \in Cache /\ Roomy(cache)
         /\ cache.enable = doc.enable /\ cache.v4 \in V4 /\ cache.v6 \in V6
<1>1. files \in Files /\ cache \in Cache
  BY DEF WebInv, DmlInv, TypeOK, WorkerOK
<1>2. doc \in Blob
  BY WebAssumption DEF WebInv, WorkerOK
<1>3. PICK mode \in RouterModes : Taken(mode)
  BY DEF Executing
<1> DEFINE read == set_xdns_conf(doc, files, mode)
           loaded == xdns_read_load_dns_ip(files, mode, doc.v4, doc.v6)
           given == {doc.v4, doc.v6}
<1>4. /\ cache = read.cache
      /\ read.verdict = "ignored" \/ (read.verdict = "ok" /\ InForce)
  BY <1>3 DEF Taken
<1>5. /\ doc.v4 \in V4 \cup {UseRdkDefault} /\ doc.v6 \in V6 \cup {UseRdkDefault}
      /\ Cacheable(doc.tag)
      /\ \A i \in DOMAIN doc.table : doc.table[i].mac # Missing /\ Cacheable(doc.table[i].tag)
  BY DEF Complete
<1>6. V4 \subseteq Ip /\ V6 \subseteq Ip /\ UseRdkDefault \notin Ip
  BY WebAssumption DEF Ip
<1>7. UseRdkDefault \in given => loaded.ok /\ loaded.v4 \in V4 /\ loaded.v6 \in V6
  <2> SUFFICES ASSUME UseRdkDefault \in given
               PROVE  loaded.ok /\ loaded.v4 \in V4 /\ loaded.v6 \in V6
    OBVIOUS
  <2>1. mode \in KnownModes /\ files.resolvExists /\ NamesBoth(Nameservers[files.ns])
    BY DEF Complete
  <2> QED
    BY <1>1, <1>5, <2>1, BothLoaded
<1> HIDE DEF loaded
<1>8. given \subseteq Ip \/ UseRdkDefault \in given
  BY <1>5, <1>6
<1>9. read.verdict = "ok" /\ InForce
  <2>1. DefaultVerdict(doc, loaded) # "ignored"
    BY <1>5, <1>7, <1>8 DEF DefaultVerdict
  <2>2. \A i \in DOMAIN doc.table : RowVerdict(doc.table[i]) # "ignored"
    BY <1>5 DEF RowVerdict
  <2>3. read.verdict # "ignored"
    BY <1>2, <2>1, <2>2, IgnoredReading DEF loaded
  <2> HIDE DEF read
  <2> QED
    BY <1>4, <2>3
<1>10. AsRead(cache, doc, loaded)
  <2>1. AsRead(read.cache, doc, loaded)
    BY <1>2, <1>9, OkReading DEF loaded
  <2> HIDE DEF read
  <2> QED
    BY <1>4, <2>1
<1> HIDE DEF read
<1>11. cache.enable = doc.enable /\ cache.v4 \in V4 /\ cache.v6 \in V6
  <2>1. CASE given \subseteq Ip
    BY <1>5, <1>6, <1>10, <2>1 DEF AsRead
  <2>2. CASE ~ given \subseteq Ip
    BY <1>7, <1>8, <1>10, <2>2 DEF AsRead
  <2> QED
    BY <2>1, <2>2
<1>12. Roomy(cache)
  BY <1>1, <1>2, <1>6, <1>10, <1>11, ReadRoomy
<1> QED
  BY <1>1, <1>9, <1>11, <1>12

\* A document with each address in the field of its family, or left to a device
\* that names both kinds of resolver, never switches XDNS on without a valid
\* default line in resolv.conf: whatever the other documents are.
THEOREM DocumentsHaveDefault ==
  ASSUME "overlap" \notin Interference
  PROVE  WebSpec => AckedHasDefault
<1> DEFINE Inv == WebInv /\ Executing
<1>1. WebInit => Inv
  BY WebInitInv DEF WebInit, Executing
<1>2. Inv /\ [WebNext]_allVars => Inv'
  BY WebStepInv, WebStepExecuting
<1>3. Inv /\ Acknowledge /\ doc.enable /\ Complete(doc) /\ files.resolvExists =>
        \E i \in DOMAIN files.overrides : files.overrides[i] \in ValidDefaults
  <2> SUFFICES ASSUME Inv, Acknowledge, doc.enable, Complete(doc), files.resolvExists
               PROVE  \E i \in DOMAIN files.overrides : files.overrides[i] \in ValidDefaults
    OBVIOUS
  <2>1. /\ InForce /\ cache \in Cache /\ Roomy(cache)
        /\ cache.enable = doc.enable /\ cache.v4 \in V4 /\ cache.v6 \in V6
    BY DoneComplete DEF Acknowledge
  <2>2. Written(files.conf, cache) /\ files.overrides = Keep(files.conf, ValidLines)
    BY <2>1 DEF InForce
  <2>3. Written(files.overrides, cache)
    BY <2>1, <2>2, WrittenAgain
  <2>4. 1 \in DOMAIN files.overrides /\ files.overrides[1] \in ValidDefaults
    BY <2>1, <2>3, FirstWritten
  <2> QED
    BY <2>4
<1> QED
  BY <1>1, <1>2, <1>3, PTL DEF WebSpec, AckedHasDefault

\* Such a document that leaves an address to the device begins the stored policy
\* with a valid default line.
THEOREM DevicesLoaded ==
  ASSUME "overlap" \notin Interference
  PROVE  WebSpec => DeviceLoaded
<1> DEFINE Inv == WebInv /\ Executing
<1>1. WebInit => Inv
  BY WebInitInv DEF WebInit, Executing
<1>2. Inv /\ [WebNext]_allVars => Inv'
  BY WebStepInv, WebStepExecuting
<1>3. Inv /\ Acknowledge /\ UseRdkDefault \in {doc.v4, doc.v6} /\ Complete(doc)
        => files.conf[1] \in ValidDefaults
  <2> SUFFICES ASSUME Inv, Acknowledge, Complete(doc) PROVE files.conf[1] \in ValidDefaults
    OBVIOUS
  <2>1. InForce /\ cache \in Cache /\ Roomy(cache) /\ cache.v4 \in V4 /\ cache.v6 \in V6
    BY DoneComplete DEF Acknowledge
  <2> QED
    BY <2>1, FirstWritten DEF InForce
<1> QED
  BY <1>1, <1>2, <1>3, PTL DEF WebSpec, DeviceLoaded

-----------------------------------------------------------------------------
(***************************************************************************)
(* A rollback writes the policy that was there.                            *)
(***************************************************************************)

\* What is in front of the rows when the default pair is not known: lines for
\* the default of which a start reads no IPv6 address, and an IPv4 address that
\* has room in the cache.
BlankLines ==
  Mentioning(DefaultMac) \cap {l \in Line : Word(l, 4) \notin Coloned /\ Cacheable(Word(l, 3))}

\* What may be in front of the rows of c.
Heads(c) ==
  (IF c.v4 \in V4 /\ c.v6 \in V6 THEN {<<DefaultOf(c)>>} ELSE {})
  \cup (IF DefaultOf(c) \in BlankLines THEN Seq(BlankLines) ELSE {})

\* conf is what is stored when the cache is c.
StoredAs(c, conf) ==
  /\ c \in Cache /\ Narrow(DefaultRow(c)) /\ \A i \in DOMAIN c.table : ProperRow(c.table[i])
  /\ \E head \in Heads(c) : conf = head \o TableOf(c)

\* The default line of any cache is a line for the default.
LEMMA DefaultIsLine ==
  ASSUME NEW c \in Cache
  PROVE  DefaultOf(c) \in Line /\ DefaultOf(c) \in Mentioning(DefaultMac)
<1>1. c.v4 \in Text /\ c.v6 \in Text /\ c.tag \in Text /\ DefaultMac \in Token
  BY WordsAssumption DEF Cache
<1>2. DefaultOf(c) \in Mentioning(DefaultMac)
  BY <1>1, OverrideMentions DEF DefaultOf
<1> QED
  BY <1>2 DEF Mentioning

\* Blank lines are for the default, and no valid ones.
LEMMA BlankKept ==
  ASSUME NEW head \in Seq(BlankLines)
  PROVE  /\ head \in Seq(Line)
         /\ Keep(head, ValidLines) = << >> /\ Keep(head, DeviceLines) = << >>
         /\ Keep(head, Mentioning(DefaultMac)) = head
<1>1. BlankLines \subseteq Line /\ BlankLines \subseteq Mentioning(DefaultMac)
  BY DEF BlankLines
<1>2. BlankLines \cap DeviceLines = {}
  BY DEF BlankLines, DeviceLines
<1>3. BlankLines \cap ValidLines = {}
  BY WordsAssumption DEF BlankLines, ValidLines, WithWord, Word
<1>4. head \in Seq(Line)
  BY <1>1, SeqMonotonic
<1>5. Keep(head, ValidLines) = << >>
  BY <1>3, KeepNone
<1>6. Keep(head, DeviceLines) = << >>
  BY <1>2, KeepNone
<1>7. Keep(head, Mentioning(DefaultMac)) = head
  BY <1>1, KeepAll
<1> QED
  BY <1>4, <1>5, <1>6, <1>7

\* Whichever head it is, it is for the default, and it has as many valid lines
\* as the default line of the cache.
LEMMA HeadKept ==
  ASSUME NEW c \in Cache, \A i \in DOMAIN c.table : ProperRow(c.table[i]), NEW head \in Heads(c)
  PROVE  /\ head \in Seq(Line)
         /\ Keep(head, ValidLines) = Keep(<<DefaultOf(c)>>, ValidLines)
         /\ Keep(head, DeviceLines) = << >>
         /\ Keep(head, Mentioning(DefaultMac)) = head
<1> DEFINE d == DefaultOf(c)
           first == <<d>>
<1>1. d \in Line /\ d \in Mentioning(DefaultMac)
  BY DefaultIsLine
<1>2. CASE head = first
  <2> HIDE DEF d
  <2>1. first \in Seq(Line) /\ first \in Seq({d})
    BY <1>1
  <2>2. {d} \cap DeviceLines = {} /\ {d} \subseteq Mentioning(DefaultMac)
    BY <1>1 DEF DeviceLines
  <2> HIDE DEF first
  <2>3. Keep(first, DeviceLines) = << >>
    BY <2>1, <2>2, KeepNone
  <2>4. Keep(first, Mentioning(DefaultMac)) = first
    BY <2>1, <2>2, KeepAll
  <2> QED
    BY <1>2, <2>1, <2>3, <2>4 DEF first, d
<1>3. CASE d \in BlankLines /\ head \in Seq(BlankLines)
  <2>1. first \in Seq(BlankLines)
    <3> DEFINE B == BlankLines
    <3>1. d \in B
      BY <1>3
    <3> HIDE DEF B, d
    <3>2. first \in Seq(B)
      BY <3>1
    <3> QED
      BY <3>2 DEF B
  <2> HIDE DEF first
  <2>2. Keep(first, ValidLines) = << >>
    BY <2>1, BlankKept
  <2>3. /\ head \in Seq(Line)
        /\ Keep(head, ValidLines) = << >> /\ Keep(head, DeviceLines) = << >>
        /\ Keep(head, Mentioning(DefaultMac)) = head
    BY <1>3, BlankKept
  <2> QED
    BY <2>2, <2>3 DEF first, d
<1>4. head = first \/ (d \in BlankLines /\ head \in Seq(BlankLines))
  <2> HIDE DEF first
  <2>1. (c.v4 \in V4 /\ c.v6 \in V6 /\ head \in {first}) \/ (d \in BlankLines /\ head \in Seq(BlankLines))
    BY DEF Heads, first, d
  <2> QED
    BY <2>1
<1> QED
  BY <1>2, <1>3, <1>4

\* The lines of proper rows are valid, and none is for the default.
LEMMA TableKept ==
  ASSUME NEW c \in Cache, Narrow(DefaultRow(c)), \A i \in DOMAIN c.table : ProperRow(c.table[i])
  PROVE  /\ PolicyLines(c) = <<DefaultOf(c)>> \o TableOf(c)
         /\ TableOf(c) \in Seq(Line)
         /\ Keep(TableOf(c), ValidLines) = TableOf(c)
         /\ Keep(TableOf(c), DeviceLines) = TableOf(c)
         /\ Keep(TableOf(c), Mentioning(DefaultMac)) = << >>
<1> DEFINE t == TableOf(c)
           S == ValidLines \cap DeviceLines
<1>1. \A i \in DOMAIN c.table : LineOf(c.table[i]) \in S
  BY FullRowLine DEF ProperRow
<1>2. PolicyLines(c) = <<DefaultOf(c)>> \o t /\ t \in Seq(S)
  <2>1. Roomy(c)
    BY ProperRoomy
  <2> QED
    BY <1>1, <2>1, PolicyParts
<1>3. /\ S \subseteq Line /\ S \subseteq ValidLines /\ S \subseteq DeviceLines
      /\ S \cap Mentioning(DefaultMac) = {}
  BY ValidLinesAreLines DEF DeviceLines
<1> HIDE DEF t, S
<1>4. t \in Seq(Line)
  BY <1>2, <1>3, SeqMonotonic
<1>5. Keep(t, ValidLines) = t
  BY <1>2, <1>3, KeepAll
<1>6. Keep(t, DeviceLines) = t
  BY <1>2, <1>3, KeepAll
<1>7. Keep(t, Mentioning(DefaultMac)) = << >>
  BY <1>2, <1>3, KeepNone
<1> QED
  BY <1>2, <1>4, <1>5, <1>6, <1>7 DEF t

\* What is found in such a file.
LEMMA StoredKept ==
  ASSUME NEW c \in Cache, Narrow(DefaultRow(c)), \A i \in DOMAIN c.table : ProperRow(c.table[i]),
         NEW head \in Heads(c)
  PROVE  /\ Keep(head \o TableOf(c), ValidLines) = Keep(PolicyLines(c), ValidLines)
         /\ Keep(head \o TableOf(c), DeviceLines) = TableOf(c)
         /\ Keep(head \o TableOf(c), DeviceLines) = Keep(PolicyLines(c), DeviceLines)
         /\ DefaultLines(head \o TableOf(c)) = head
<1> DEFINE d == DefaultOf(c)
           first == <<d>>
           t == TableOf(c)
           M == Mentioning(DefaultMac)
<1>1. /\ PolicyLines(c) = first \o t /\ t \in Seq(Line) /\ Keep(t, ValidLines) = t
      /\ Keep(t, DeviceLines) = t /\ Keep(t, M) = << >>
  BY TableKept
<1>2. /\ head \in Seq(Line) /\ Keep(head, ValidLines) = Keep(first, ValidLines)
      /\ Keep(head, DeviceLines) = << >> /\ Keep(head, M) = head
  BY HeadKept
<1>3. first \in Seq(Line) /\ Keep(first, DeviceLines) = << >>
  <2>1. d \in Line /\ d \in M
    BY DefaultIsLine
  <2> HIDE DEF d
  <2>2. first \in Seq(Line) /\ first \in Seq({d}) /\ {d} \cap DeviceLines = {}
    BY <2>1 DEF DeviceLines
  <2> HIDE DEF first
  <2> QED
    BY <2>2, KeepNone
<1> HIDE DEF first, t, M
<1>p. head \in Seq(Line) /\ first \in Seq(Line) /\ t \in Seq(Line)
  BY <1>1, <1>2, <1>3
<1>4. Keep(head \o t, ValidLines) = Keep(first \o t, ValidLines)
  <2>1. Keep(head \o t, ValidLines) = Keep(head, ValidLines) \o Keep(t, ValidLines)
    BY <1>p, KeepConcat
  <2>2. Keep(first \o t, ValidLines) = Keep(first, ValidLines) \o Keep(t, ValidLines)
    BY <1>p, KeepConcat
  <2> QED
    BY <1>2, <2>1, <2>2
<1>5. << >> \o t = t /\ head \o << >> = head
  BY <1>1, <1>2, ConcatEmptySeq
<1>6. Keep(head \o t, DeviceLines) = t
  <2>1. Keep(head \o t, DeviceLines) = Keep(head, DeviceLines) \o Keep(t, DeviceLines)
    BY <1>p, KeepConcat
  <2> QED
    BY <1>1, <1>2, <1>5, <2>1
<1>7. Keep(first \o t, DeviceLines) = t
  <2>1. Keep(first \o t, DeviceLines) = Keep(first, DeviceLines) \o Keep(t, DeviceLines)
    BY <1>p, KeepConcat
  <2> QED
    BY <1>1, <1>3, <1>5, <2>1
<1>8. Keep(head \o t, M) = head
  <2>1. Keep(head \o t, M) = Keep(head, M) \o Keep(t, M)
    BY <1>p, KeepConcat
  <2> QED
    BY <1>1, <1>2, <1>5, <2>1
<1> QED
  BY <1>1, <1>4, <1>6, <1>7, <1>8 DEF t, DefaultLines, M

-----------------------------------------------------------------------------
(***************************************************************************)
(* What a start reads of such a file.                                      *)
(***************************************************************************)

\* Two words make a sequence of two.
LEMMA TwoWords ==
  ASSUME NEW a \in Text, NEW b \in Text
  PROVE  <<a>> \o <<b>> = <<a, b>> /\ <<a, b>> \in Seq(Text)
<1> DEFINE s == <<a>>
           t == <<b>>
           u == <<a, b>>
<1>1. /\ s \in Seq(Text) /\ t \in Seq(Text) /\ u \in Seq(Text)
      /\ Len(s) = 1 /\ Len(t) = 1 /\ Len(u) = 2
      /\ s[1] = a /\ t[1] = b /\ u[1] = a /\ u[2] = b
  OBVIOUS
<1> HIDE DEF s, t, u
<1>2. Len(u) = Len(s) + Len(t)
  BY <1>1
<1>3. \A i \in 1..Len(s) : u[i] = s[i]
  BY <1>1
<1>4. \A i \in 1..Len(t) : u[Len(s) + i] = t[i]
  BY <1>1
<1>5. s \o t = u
  BY <1>1, <1>2, <1>3, <1>4, WordsJoined
<1> QED
  BY <1>1, <1>5 DEF s, t, u

\* With an address missing there is one word at most in front of the tag.
LEMMA HalfWords ==
  ASSUME NEW a \in Text, NEW b \in Text, NEW tag \in Text
  PROVE  a = "" \/ b = "" =>
           \E x \in {a, b} : Keep(<<a, b, tag>>, Token) = Piece(x) \o Piece(tag)
<1> DEFINE first == <<a>>
           second == <<b>>
           both == <<a, b>>
           last == <<tag>>
           all == <<a, b, tag>>
<1>1. /\ first \in Seq(Text) /\ Keep(first, Token) = Piece(a) /\ Piece(a) \in Seq(Text)
      /\ second \in Seq(Text) /\ Keep(second, Token) = Piece(b) /\ Piece(b) \in Seq(Text)
      /\ last \in Seq(Text) /\ Keep(last, Token) = Piece(tag) /\ Piece(tag) \in Seq(Text)
  BY PieceKept
<1>2. both = first \o second /\ both \in Seq(Text)
  BY TwoWords
<1>3. all = both \o last
  <2>1. Joined(<<a, b>>, <<tag>>, <<a, b, tag>>)
    BY WordsNext
  <2> QED
    BY <2>1 DEF Joined
<1> HIDE DEF first, second, both, last, all
<1>4. Keep(all, Token) = Keep(both, Token) \o Piece(tag)
  <2>1. Keep(both \o last, Token) = Keep(both, Token) \o Keep(last, Token)
    <3>1. both \in Seq(Text) /\ last \in Seq(Text)
      BY <1>1, <1>2
    <3> QED
      BY <3>1, KeepConcat
  <2> QED
    BY <1>1, <1>3, <2>1
<1>5. Keep(both, Token) = Piece(a) \o Piece(b)
  <2>1. Keep(first \o second, Token) = Keep(first, Token) \o Keep(second, Token)
    <3>1. first \in Seq(Text) /\ second \in Seq(Text)
      BY <1>1
    <3> QED
      BY <3>1, KeepConcat
  <2> QED
    BY <1>1, <1>2, <2>1
<1>6. a = "" \/ b = "" => \E x \in {a, b} : Piece(a) \o Piece(b) = Piece(x)
  <2>1. CASE a = ""
    <3>1. Piece(a) = << >>
      BY <2>1 DEF Piece
    <3>2. << >> \o Piece(b) = Piece(b)
      BY <1>1, ConcatEmptySeq
    <3> QED
      BY <3>1, <3>2
  <2>2. CASE b = ""
    <3>1. Piece(b) = << >>
      BY <2>2 DEF Piece
    <3>2. Piece(a) \o << >> = Piece(a)
      BY <1>1, ConcatEmptySeq
    <3> QED
      BY <3>1, <3>2
  <2> QED
    BY <2>1, <2>2
<1> QED
  BY <1>4, <1>5, <1>6 DEF all

LEMMA EmptyCacheable == Cacheable("")
<1>1. "" \in Text /\ Width[""] \in Nat /\ Width[""] < 46
  BY WordsAssumption, WebAssumption DEF Text
<1> DEFINE n == Width[""]
<1>2. n \in Nat /\ n < 46
  BY <1>1
<1> HIDE DEF n
<1>3. n < 64
  BY <1>2
<1> QED
  BY <1>1, <1>3 DEF Cacheable, STR_SIZE, n

\* A piece has one word at most.
LEMMA PieceShape ==
  ASSUME NEW word
  PROVE  /\ Len(Piece(word)) = 0 \/ Len(Piece(word)) = 1
         /\ Len(Piece(word)) = 0 \/ (Len(Piece(word)) = 1 /\ Piece(word)[1] = word)
<1>1. CASE word = ""
  BY <1>1 DEF Piece
<1>2. CASE word # ""
  BY <1>2 DEF Piece
<1> QED
  BY <1>1, <1>2

\* So the fourth word of such a line is the tag, or there is none, and the third
\* is the address that is left, or the tag.
LEMMA HalfLine ==
  ASSUME NEW a \in Text, NEW b \in Text, NEW tag \in Text,
         Cacheable(a), Cacheable(b), Cacheable(tag)
  PROVE  (a = "" \/ b = "") /\ tag \notin Coloned =>
           Override(DefaultMac, a, b, tag) \in BlankLines
<1> DEFINE l == Override(DefaultMac, a, b, tag)
           front == <<"dnsoverride", DefaultMac>>
<1>1. /\ DefaultMac \in Token /\ "" \notin Coloned /\ "" \notin Token
      /\ "dnsoverride" \in Text /\ DefaultMac \in Text
  BY WordsAssumption DEF Text
<1>2. l \in Mentioning(DefaultMac) /\ l \in Line
  BY <1>1, OverrideMentions DEF Mentioning
<1>3. ASSUME NEW x \in Text, l = front \o (Piece(x) \o Piece(tag))
      PROVE  /\ Len(l) >= 4 => l[4] = tag
             /\ Len(l) >= 3 => l[3] = x \/ l[3] = tag
  <2> DEFINE p == Piece(x)
             q == Piece(tag)
             r == p \o q
  <2>1. p \in Seq(Text) /\ q \in Seq(Text)
    BY PieceKept
  <2>2. /\ Len(p) = 0 \/ (Len(p) = 1 /\ p[1] = x)
        /\ Len(q) = 0 \/ (Len(q) = 1 /\ q[1] = tag)
    BY PieceShape
  <2>3. front \in Seq(Text) /\ Len(front) = 2
    <3> DEFINE dns == "dnsoverride"
    <3>1. dns \in Text /\ DefaultMac \in Text
      BY <1>1
    <3> HIDE DEF dns
    <3>2. <<dns, DefaultMac>> \in Seq(Text) /\ Len(<<dns, DefaultMac>>) = 2
      BY <3>1
    <3> QED
      BY <3>2 DEF dns
  <2> HIDE DEF p, q, front
  <2>4. /\ r \in Seq(Text) /\ Len(r) = Len(p) + Len(q)
        /\ \A i \in 1 .. Len(p) + Len(q) : r[i] = IF i <= Len(p) THEN p[i] ELSE q[i - Len(p)]
    BY <2>1, ConcatProperties
  <2> HIDE DEF r
  <2>5. /\ front \o r \in Seq(Text) /\ Len(front \o r) = Len(front) + Len(r)
        /\ \A i \in 1 .. Len(front) + Len(r) :
             (front \o r)[i] = IF i <= Len(front) THEN front[i] ELSE r[i - Len(front)]
    <3>1. front \in Seq(Text) /\ r \in Seq(Text)
      BY <2>3, <2>4
    <3> QED
      BY <3>1, ConcatProperties
  <2>6. l = front \o r
    BY <1>3 DEF r, p, q
  <2> HIDE DEF l
  <2>7. Len(l) = 2 + Len(r)
    BY <2>3, <2>5, <2>6
  <2>8. Len(l) >= 4 => Len(p) = 1 /\ Len(q) = 1 /\ Len(r) = 2
    BY <2>2, <2>4, <2>7
  <2>9. Len(l) >= 4 => l[4] = tag
    <3> SUFFICES ASSUME Len(l) >= 4 PROVE l[4] = tag
      OBVIOUS
    <3>1. l[4] = r[2]
      BY <2>3, <2>5, <2>6, <2>8
    <3>2. r[2] = q[1]
      BY <2>4, <2>8
    <3> QED
      BY <2>2, <2>8, <3>1, <3>2
  <2>10. Len(l) >= 3 => l[3] = x \/ l[3] = tag
    <3> SUFFICES ASSUME Len(l) >= 3 PROVE l[3] = x \/ l[3] = tag
      OBVIOUS
    <3>1. Len(r) >= 1 /\ Len(r) \in {0, 1, 2}
      BY <2>2, <2>4, <2>7
    <3>2. l[3] = r[1]
      BY <2>3, <2>5, <2>6, <3>1
    <3>3. CASE Len(p) = 1
      <4>1. r[1] = p[1]
        BY <2>2, <2>4, <3>3
      <4> QED
        BY <2>2, <3>2, <3>3, <4>1
    <3>4. CASE Len(p) = 0
      <4>1. Len(q) = 1
        BY <2>2, <2>4, <3>1, <3>4
      <4>2. r[1] = q[1]
        BY <2>4, <3>4, <4>1
      <4> QED
        BY <2>2, <3>2, <4>1, <4>2
    <3> QED
      BY <2>2, <3>3, <3>4
  <2> QED
    BY <2>9, <2>10
<1>4. a = "" \/ b = "" => \E x \in {a, b} : l = front \o (Piece(x) \o Piece(tag))
  <2>1. l = front \o Keep(<<a, b, tag>>, Token)
    BY <1>1, OverrideWords
  <2>2. a = "" \/ b = "" =>
          \E x \in {a, b} : Keep(<<a, b, tag>>, Token) = Piece(x) \o Piece(tag)
    BY HalfWords
  <2> HIDE DEF l, front
  <2> QED
    BY <2>1, <2>2, Zenon
<1> HIDE DEF l, front
<1>5. ASSUME a = "" \/ b = "", tag \notin Coloned
      PROVE  Word(l, 4) \notin Coloned /\ Cacheable(Word(l, 3))
  <2>1. PICK x \in {a, b} : l = front \o (Piece(x) \o Piece(tag))
    BY <1>4, <1>5
  <2>2. x \in Text /\ Cacheable(x)
    OBVIOUS
  <2>3. /\ Len(l) >= 4 => l[4] = tag
        /\ Len(l) >= 3 => l[3] = x \/ l[3] = tag
    BY <1>3, <2>1, <2>2
  <2>4. Cacheable("")
    BY EmptyCacheable
  <2> QED
    BY <1>1, <1>5, <2>2, <2>3, <2>4 DEF Word
<1>6. (a = "" \/ b = "") /\ tag \notin Coloned => l \in BlankLines
  BY <1>2, <1>5 DEF BlankLines
<1> QED
  BY <1>6 DEF l

\* The lines that are searched for the addresses, and for the tag.
FourOf(D) == Keep(D, WithWord(3, Dotted))
SixOf(D) == Keep(FourOf(D), WithWord(4, Coloned))
TagsOf(D) == Keep(SixOf(D), WithWord(5, Token))

\* What is read into a field when no line has it is what it was.
LEMMA FieldsRead ==
  ASSUME NEW conf, NEW d
  PROVE  LET D == DefaultLines(conf)
             new == DefaultsIn(conf, d)
         IN /\ new["v4"] = IF FourOf(D) # << >> THEN Word(FourOf(D)[1], 3) ELSE d["v4"]
            /\ new["s4"] = IF Len(FourOf(D)) > 1 THEN Word(FourOf(D)[Len(FourOf(D))], 3) ELSE d["s4"]
            /\ new["v6"] = IF SixOf(D) # << >> THEN Word(SixOf(D)[1], 4) ELSE d["v6"]
            /\ new["s6"] = IF Len(SixOf(D)) > 1 THEN Word(SixOf(D)[Len(SixOf(D))], 4) ELSE d["s6"]
            /\ new["tag"] = IF TagsOf(D) # << >> THEN Word(TagsOf(D)[Len(TagsOf(D))], 5) ELSE d["tag"]
<1> DEFINE four == FourOf(DefaultLines(conf))
           six  == SixOf(DefaultLines(conf))
           tags == TagsOf(DefaultLines(conf))
           new == DefaultsIn(conf, d)
<1>1. new =
        [f \in DefaultFields |->
           CASE f = "v4" /\ four # << >> -> Word(four[1], 3)
             [] f = "s4" /\ Len(four) > 1 -> Word(four[Len(four)], 3)
             [] f = "v6" /\ six # << >> -> Word(six[1], 4)
             [] f = "s6" /\ Len(six) > 1 -> Word(six[Len(six)], 4)
             [] f = "tag" /\ tags # << >> -> Word(tags[Len(tags)], 5)
             [] OTHER -> d[f]]
  BY DEF DefaultsIn, DefaultLines, FourOf, SixOf, TagsOf
<1> HIDE DEF four, six, tags, new
<1>2. /\ new["v4"] = IF four # << >> THEN Word(four[1], 3) ELSE d["v4"]
      /\ new["s4"] = IF Len(four) > 1 THEN Word(four[Len(four)], 3) ELSE d["s4"]
      /\ new["v6"] = IF six # << >> THEN Word(six[1], 4) ELSE d["v6"]
      /\ new["s6"] = IF Len(six) > 1 THEN Word(six[Len(six)], 4) ELSE d["s6"]
      /\ new["tag"] = IF tags # << >> THEN Word(tags[Len(tags)], 5) ELSE d["tag"]
  BY <1>1 DEF DefaultFields
<1> QED
  BY <1>2 DEF four, six, tags, new

\* What a start reads of the default has room in the cache.
Held(d) == \A f \in DefaultFields : Width[d[f]] < STR_SIZE

\* A start reads no IPv6 address and no tag from blank lines.
LEMMA BlankRead ==
  ASSUME NEW conf, DefaultLines(conf) \in Seq(BlankLines)
  PROVE  LET d == DefaultsIn(conf, NoDefaults)
         IN d["v6"] = "" /\ d["tag"] = "" /\ Held(d)
<1> DEFINE D == DefaultLines(conf)
           d == DefaultsIn(conf, NoDefaults)
           four == FourOf(D)
<1>1. four \in Seq(BlankLines)
  BY KeepSub DEF FourOf
<1>2. BlankLines \cap WithWord(4, Coloned) = {}
  BY DEF BlankLines, WithWord, Word
<1>3. NoDefaults["v4"] = "" /\ NoDefaults["s4"] = "" /\ NoDefaults["v6"] = ""
      /\ NoDefaults["s6"] = "" /\ NoDefaults["tag"] = ""
  BY DEF NoDefaults, DefaultFields
<1>4. SixOf(D) = << >>
  <2> HIDE DEF four
  <2>1. Keep(four, WithWord(4, Coloned)) = << >>
    BY <1>1, <1>2, KeepNone
  <2> QED
    BY <2>1 DEF SixOf, four
<1>5. TagsOf(D) = << >>
  BY <1>4, KeepEmpty DEF TagsOf
<1>6. /\ d["v4"] = IF four # << >> THEN Word(four[1], 3) ELSE ""
      /\ d["s4"] = IF Len(four) > 1 THEN Word(four[Len(four)], 3) ELSE ""
      /\ d["v6"] = "" /\ d["s6"] = "" /\ d["tag"] = ""
  <2> HIDE DEF four, D, d
  <2>1. /\ d["v4"] = IF FourOf(D) # << >> THEN Word(FourOf(D)[1], 3) ELSE ""
        /\ d["s4"] = IF Len(FourOf(D)) > 1 THEN Word(FourOf(D)[Len(FourOf(D))], 3) ELSE ""
        /\ d["v6"] = IF SixOf(D) # << >> THEN Word(SixOf(D)[1], 4) ELSE ""
        /\ d["s6"] = IF Len(SixOf(D)) > 1 THEN Word(SixOf(D)[Len(SixOf(D))], 4) ELSE ""
        /\ d["tag"] = IF TagsOf(D) # << >> THEN Word(TagsOf(D)[Len(TagsOf(D))], 5) ELSE ""
    BY <1>3, FieldsRead DEF D, d
  <2>2. ~ Len(<< >>) > 1
    OBVIOUS
  <2> QED
    BY <1>4, <1>5, <2>1, <2>2 DEF four
<1> HIDE DEF four, d
<1>7. Len(four) \in Nat /\ (four # << >> => Len(four) >= 1)
  BY <1>1, LenProperties, EmptySeq
<1>8. \A i \in 1..Len(four) : Width[Word(four[i], 3)] < STR_SIZE
  <2>1. \A i \in 1..Len(four) : four[i] \in BlankLines
    BY <1>1, ElementOfSeq
  <2> QED
    BY <2>1 DEF BlankLines, Cacheable
<1>9. Width[""] < STR_SIZE
  BY EmptyCacheable DEF Cacheable
<1>10. Width[d["v4"]] < STR_SIZE /\ Width[d["s4"]] < STR_SIZE
  <2>1. CASE four # << >>
    <3>1. 1 \in 1..Len(four) /\ Len(four) \in 1..Len(four)
      BY <1>7, <2>1
    <3> QED
      BY <1>6, <1>8, <1>9, <3>1
  <2>2. CASE four = << >>
    <3>1. ~ Len(four) > 1
      BY <2>2
    <3> QED
      BY <1>6, <1>9, <2>2, <3>1
  <2> QED
    BY <2>1, <2>2
<1>11. Held(d)
  BY <1>6, <1>9, <1>10 DEF Held, DefaultFields
<1> QED
  BY <1>6, <1>11 DEF d

\* The tag of the default line is read back, and there is no second line.
LEMMA ProperTag ==
  ASSUME NEW c, Proper(c)
  PROVE  LET new == DefaultsIn(PolicyLines(c), NoDefaults)
         IN new["tag"] = c.tag /\ new["s4"] = "" /\ new["s6"] = ""
<1> DEFINE d == DefaultOf(c)
           one == <<d>>
           tagged == WithWord(5, Token)
<1>1. DefaultLines(PolicyLines(c)) = one /\ d \in ValidDefaults
  BY ProperPolicy
<1>2. d \in Line /\ Word(d, 5) = c.tag /\ c.tag \in Text
  <2>1. c.v4 \in Token /\ c.v6 \in Token /\ c.tag \in Text /\ DefaultMac \in Token
    BY WordsAssumption DEF Proper, Cache
  <2>2. FullWords(d, DefaultMac, c.v4, c.v6, c.tag)
    BY <2>1, FullLine DEF DefaultOf
  <2> QED
    BY <2>1, <2>2 DEF FullWords
<1>3. d \in WithWord(3, Dotted) /\ d \in WithWord(4, Coloned)
  BY <1>1, WordsAssumption DEF ValidDefaults, ValidLines, WithWord
<1>4. d \in tagged <=> c.tag # ""
  <2>1. "" \notin Token
    BY WordsAssumption
  <2>2. CASE Len(d) >= 5
    <3>1. d[5] = c.tag /\ d[5] \in Token
      BY <1>2, <2>2, LenProperties DEF Word, Line
    <3>2. d \in tagged
      BY <1>2, <2>2, <3>1 DEF WithWord
    <3> QED
      BY <2>1, <3>1, <3>2
  <2>3. CASE ~ Len(d) >= 5
    <3>1. c.tag = "" /\ d \notin tagged
      BY <1>2, <2>3 DEF WithWord, Word
    <3> QED
      BY <3>1
  <2> QED
    BY <2>2, <2>3
<1> HIDE DEF d, tagged
<1>5. one \in Seq({d}) /\ one # << >> /\ Len(one) = 1 /\ one[1] = d
  OBVIOUS
<1> HIDE DEF one
<1>6. FourOf(one) = one /\ SixOf(one) = one
  <2>1. Keep(one, WithWord(3, Dotted)) = one
    BY <1>3, <1>5, KeepAll, {d} \subseteq WithWord(3, Dotted)
  <2>2. Keep(one, WithWord(4, Coloned)) = one
    BY <1>3, <1>5, KeepAll, {d} \subseteq WithWord(4, Coloned)
  <2> QED
    BY <2>1, <2>2 DEF FourOf, SixOf
<1>7. TagsOf(one) = IF c.tag # "" THEN one ELSE << >>
  <2>1. CASE c.tag # ""
    <3>1. Keep(one, tagged) = one
      BY <1>4, <1>5, <2>1, KeepAll, {d} \subseteq tagged
    <3> QED
      BY <1>6, <2>1, <3>1 DEF TagsOf, tagged
  <2>2. CASE c.tag = ""
    <3>1. Keep(one, tagged) = << >>
      BY <1>4, <1>5, <2>2, KeepNone, {d} \cap tagged = {}
    <3> QED
      BY <1>6, <2>2, <3>1 DEF TagsOf, tagged
  <2> QED
    BY <2>1, <2>2
<1>8. NoDefaults["tag"] = "" /\ NoDefaults["s4"] = "" /\ NoDefaults["s6"] = ""
  BY DEF NoDefaults, DefaultFields
<1> DEFINE new == DefaultsIn(PolicyLines(c), NoDefaults)
<1> HIDE DEF new
<1>9. /\ new["tag"] = IF TagsOf(one) # << >> THEN Word(TagsOf(one)[Len(TagsOf(one))], 5) ELSE ""
      /\ new["s4"] = IF Len(FourOf(one)) > 1 THEN Word(FourOf(one)[Len(FourOf(one))], 3) ELSE ""
      /\ new["s6"] = IF Len(SixOf(one)) > 1 THEN Word(SixOf(one)[Len(SixOf(one))], 4) ELSE ""
  BY <1>1, <1>8, FieldsRead DEF new
<1>10. ~ Len(one) > 1
  BY <1>5
<1>11. new["s4"] = "" /\ new["s6"] = ""
  BY <1>6, <1>9, <1>10
<1>12. new["tag"] = c.tag
  BY <1>2, <1>5, <1>7, <1>9
<1> QED
  BY <1>11, <1>12 DEF new

\* Rows are read from the lines for devices only.
LEMMA SameRows ==
  ASSUME NEW a, NEW b, Keep(a, DeviceLines) = Keep(b, DeviceLines)
  PROVE  RowsIn(a) = RowsIn(b)
<1> DEFINE R(device) == [i \in 1..Len(device) |->
                 [ins |-> i,
                  val |-> [f \in RowFields |->
                             CASE f = "mac" -> Word(Scanned(device[i]), 2)
                               [] f = "v4"  -> Word(Scanned(device[i]), 3)
                               [] f = "v6"  -> Word(Scanned(device[i]), 4)
                               [] f = "tag" -> Word(Scanned(device[i]), 5)],
                  changed |-> {}]]
<1>1. RowsIn(a) = R(Keep(a, DeviceLines)) /\ RowsIn(b) = R(Keep(b, DeviceLines))
  BY Zenon DEF RowsIn
<1> HIDE DEF R
<1> QED
  BY <1>1

\* The two kinds of head.
LEMMA HeadIs ==
  ASSUME NEW c, NEW head
  PROVE  head \in Heads(c) <=>
           \/ c.v4 \in V4 /\ c.v6 \in V6 /\ head = <<DefaultOf(c)>>
           \/ DefaultOf(c) \in BlankLines /\ head \in Seq(BlankLines)
<1> DEFINE first == <<DefaultOf(c)>>
           blank == Seq(BlankLines)
           own == c.v4 \in V4 /\ c.v6 \in V6
           none == DefaultOf(c) \in BlankLines
<1>1. Heads(c) = (IF own THEN {first} ELSE {}) \cup (IF none THEN blank ELSE {})
  BY DEF Heads
<1> HIDE DEF first, blank, own, none
<1>2. head \in Heads(c) <=> (own /\ head = first) \/ (none /\ head \in blank)
  BY <1>1
<1> QED
  BY <1>2 DEF first, blank, own, none

\* On a dual-stack device the cache is the data model, if it has room for it.
LEMMA DualLoaded ==
  ASSUME NEW val, Width[val["v4"]] < STR_SIZE, Width[val["v6"]] < STR_SIZE,
         Width[val["v6"]] \in Nat
  PROVE  /\ Loaded(DualStack, val).ok
         /\ Loaded(DualStack, val).v4 = val["v4"] /\ Loaded(DualStack, val).v6 = val["v6"]
<1>1. DualStack \in KnownModes /\ DualStack # 0 /\ DualStack # 1
  BY DEF DualStack, KnownModes
<1> DEFINE a == val["v4"]
           b == val["v6"]
<1>2. Width[a] < STR_SIZE /\ Width[b] < IPV6_STR_SIZE
  BY DEF STR_SIZE, IPV6_STR_SIZE
<1> HIDE DEF a, b
<1> DEFINE pair == [v4 |-> a, v6 |-> b]
<1>3. pair.v4 = a /\ pair.v6 = b
  OBVIOUS
<1> HIDE DEF pair
<1>4. /\ xdns_load_dns_ip(DualStack, pair).ok
      /\ xdns_load_dns_ip(DualStack, pair).v4 = a /\ xdns_load_dns_ip(DualStack, pair).v6 = b
  BY <1>1, <1>2, <1>3 DEF xdns_load_dns_ip
<1> QED
  BY <1>4 DEF Loaded, pair, a, b

LEMMA DualCache ==
  ASSUME NEW flg, NEW d \in Defaults, NEW list \in Seq(Row), Held(d),
         \A i \in DOMAIN list : \A f \in RowFields : Width[list[i].val[f]] < STR_SIZE
  PROVE  LET c == init_xdns_cache(DualStack, flg, d, list)
         IN /\ c \in Cache /\ c.enable = (flg = "1")
            /\ c.v4 = d["v4"] /\ c.v6 = d["v6"] /\ c.tag = d["tag"]
            /\ c.table = [i \in DOMAIN list |-> list[i].val]
<1> DEFINE default == Loaded(DualStack, d)
           loads == DefaultLoads(DualStack, d)
           bad == {i \in DOMAIN list : ~ RowLoads(DualStack, list[i].val)}
           row(i) == IF \A j \in bad : i <= j THEN RowLoaded(DualStack, list[i].val) ELSE NoRow
           rowTable == [i \in DOMAIN list |-> row(i)]
           table == IF ~ loads THEN << >> ELSE rowTable
           tag == IF loads THEN d["tag"] ELSE ""
           on == flg = "1"
           c == init_xdns_cache(DualStack, flg, d, list)
<1>1. \A w \in Text : Width[w] \in Nat
  BY WordsAssumption DEF Text
<1>2. /\ loads /\ default.v4 = d["v4"] /\ default.v6 = d["v6"]
  <2>1. \A f \in DefaultFields : Width[d[f]] < STR_SIZE /\ Width[d[f]] \in Nat
    BY <1>1 DEF Held, Defaults
  <2>2. /\ Width[d["v4"]] < STR_SIZE /\ Width[d["v6"]] < STR_SIZE /\ Width[d["tag"]] < STR_SIZE
        /\ Width[d["s4"]] < STR_SIZE /\ Width[d["s6"]] < STR_SIZE
        /\ Width[d["v6"]] \in Nat /\ Width[d["s6"]] \in Nat
    BY <2>1 DEF DefaultFields
  <2>3. default.ok /\ default.v4 = d["v4"] /\ default.v6 = d["v6"]
    BY <2>2, DualLoaded
  <2>4. Width[d["s6"]] < IPV6_STR_SIZE
    BY <2>2 DEF STR_SIZE, IPV6_STR_SIZE
  <2> QED
    BY <2>2, <2>3, <2>4 DEF DefaultLoads
<1>3. ASSUME NEW i \in DOMAIN list
      PROVE  /\ RowLoads(DualStack, list[i].val)
             /\ RowLoaded(DualStack, list[i].val) = list[i].val
  <2> DEFINE val == list[i].val
             loaded == Loaded(DualStack, val)
  <2>1. val \in [RowFields -> Text] /\ \A f \in RowFields : Width[val[f]] < STR_SIZE
    BY InsType DEF Row
  <2> HIDE DEF val
  <2>2. /\ Width[val["mac"]] < STR_SIZE /\ Width[val["v4"]] < STR_SIZE
        /\ Width[val["v6"]] < STR_SIZE /\ Width[val["tag"]] < STR_SIZE
        /\ Width[val["v6"]] \in Nat
    BY <1>1, <2>1 DEF RowFields
  <2>3. loaded.ok /\ loaded.v4 = val["v4"] /\ loaded.v6 = val["v6"]
    BY <2>2, DualLoaded
  <2>4. RowLoads(DualStack, val)
    BY <2>2, <2>3 DEF RowLoads
  <2>5. val = [f \in RowFields |-> val[f]]
    BY <2>1
  <2> DEFINE got == RowLoaded(DualStack, val)
  <2>6. got = [f \in RowFields |->
                CASE f = "mac" -> IF Width[val["mac"]] < STR_SIZE THEN val["mac"] ELSE ""
                  [] f = "v4" -> IF Width[val["mac"]] < STR_SIZE THEN loaded.v4 ELSE ""
                  [] f = "v6" -> IF Width[val["mac"]] < STR_SIZE THEN loaded.v6 ELSE ""
                  [] f = "tag" -> IF RowLoads(DualStack, val) THEN val["tag"] ELSE ""]
    BY Zenon DEF RowLoaded
  <2> HIDE DEF got, loaded
  <2>7. ASSUME NEW f \in RowFields PROVE got[f] = val[f]
    <3>1. f = "mac" \/ f = "v4" \/ f = "v6" \/ f = "tag"
      BY DEF RowFields
    <3> QED
      BY <2>2, <2>3, <2>4, <2>6, <3>1
  <2>8. got = val
    BY <2>5, <2>6, <2>7
  <2> QED
    BY <2>4, <2>8 DEF got, val
<1>4. c \in Cache
  BY InitCacheType
<1>5. c = [enable |-> on, v4 |-> default.v4, v6 |-> default.v6, tag |-> tag, table |-> table]
  BY Zenon DEF init_xdns_cache
<1>6. rowTable = [i \in DOMAIN list |-> list[i].val]
  <2>1. bad = {}
    BY <1>3
  <2> HIDE DEF bad
  <2>2. \A i \in DOMAIN list : row(i) = list[i].val
    BY <1>3, <2>1
  <2> HIDE DEF row
  <2> QED
    BY <2>2
<1> HIDE DEF rowTable
<1>7. table = rowTable /\ tag = d["tag"]
  BY <1>2
<1> HIDE DEF table, tag, default, loads, on, c
<1>8. /\ c.v4 = default.v4 /\ c.v6 = default.v6 /\ c.tag = tag /\ c.table = table
  BY <1>5
<1>9. c.enable = on
  BY <1>5, Zenon
<1>10. /\ c.v4 = d["v4"] /\ c.v6 = d["v6"] /\ c.tag = d["tag"]
       /\ c.table = [i \in DOMAIN list |-> list[i].val]
  BY <1>2, <1>6, <1>7, <1>8
<1> QED
  BY <1>4, <1>9, <1>10 DEF c, on

\* The rows of the cache are those that were stored.
LEMMA RowsReadAgain ==
  ASSUME NEW c \in Cache, Narrow(DefaultRow(c)), \A i \in DOMAIN c.table : ProperRow(c.table[i]),
         NEW list \in Seq(Row), list = RowsIn(PolicyLines(c))
  PROVE  [i \in DOMAIN list |-> list[i].val] = c.table
<1> DEFINE table == c.table
<1>1. table \in Seq([RowFields -> Text])
  BY DEF Cache
<1>2. DOMAIN table = 1..Len(table) /\ Len(table) \in Nat
  BY <1>1, LenProperties
<1>3. /\ Len(list) = Len(table)
      /\ \A i \in DOMAIN list : \A f \in RowFields : list[i].val[f] = table[i][f]
  BY RowsOfPolicy DEF ProperRow
<1>4. DOMAIN list = DOMAIN table
  BY <1>2, <1>3, LenProperties
<1> HIDE DEF table
<1>5. ASSUME NEW i \in DOMAIN list
      PROVE  list[i].val = table[i]
  <2>1. list[i].val \in [RowFields -> Text]
    BY InsType DEF Row
  <2>2. table[i] \in [RowFields -> Text]
    BY <1>1, <1>2, <1>4, ElementOfSeq
  <2>3. \A f \in RowFields : list[i].val[f] = table[i][f]
    BY <1>3
  <2> QED
    BY <2>1, <2>2, <2>3
<1>6. table = [i \in 1..Len(table) |-> table[i]]
  BY <1>1
<1> QED
  BY <1>2, <1>4, <1>5, <1>6 DEF table

\* What is stored as a cache is read back into one it is stored as, too.
LEMMA ReadAgain ==
  ASSUME NEW c, NEW conf, StoredAs(c, conf), NEW flg
  PROVE  LET read == init_xdns_cache(DualStack, flg, DefaultsIn(conf, NoDefaults), RowsIn(conf))
         IN StoredAs(read, conf) /\ read.enable = (flg = "1")
<1> DEFINE d == DefaultsIn(conf, NoDefaults)
           list == RowsIn(conf)
           read == init_xdns_cache(DualStack, flg, d, list)
           own(head) == c.v4 \in V4 /\ c.v6 \in V6 /\ head = <<DefaultOf(c)>>
<1>1. c \in Cache /\ Narrow(DefaultRow(c)) /\ \A i \in DOMAIN c.table : ProperRow(c.table[i])
  BY DEF StoredAs
<1>2. PICK head \in Heads(c) : conf = head \o TableOf(c)
  BY DEF StoredAs
<1>3. conf \in Seq(Line)
  <2>1. head \in Seq(Line) /\ TableOf(c) \in Seq(Line)
    BY <1>1, HeadKept, TableKept
  <2>2. head \o TableOf(c) \in Seq(Line)
    BY <2>1, ConcatProperties
  <2> QED
    BY <1>2, <2>2
<1>4. /\ Keep(conf, DeviceLines) = Keep(PolicyLines(c), DeviceLines)
      /\ DefaultLines(conf) = head
  BY <1>1, <1>2, StoredKept
<1>5. list = RowsIn(PolicyLines(c))
  BY <1>4, SameRows
<1>6. list \in Seq(Row) /\ d \in Defaults
  BY <1>3, RowsInType, DefaultsInType, NoDefaultsType
<1>7. [i \in DOMAIN list |-> list[i].val] = c.table
  BY <1>1, <1>5, <1>6, RowsReadAgain
<1>8. \A i \in DOMAIN list : \A f \in RowFields : Width[list[i].val[f]] < STR_SIZE
  <2> DEFINE vals == [i \in DOMAIN list |-> list[i].val]
  <2>1. \A i \in DOMAIN vals : ProperRow(vals[i])
    <3> HIDE DEF vals, list
    <3>1. vals = c.table
      BY <1>7 DEF vals
    <3> QED
      BY <1>1, <3>1
  <2>2. \A i \in DOMAIN list : ProperRow(list[i].val)
    <3> HIDE DEF list
    <3> QED
      BY <2>1
  <2> QED
    BY <2>2 DEF ProperRow, FullRow, Narrow
<1>9. own(head) \/ head \in Seq(BlankLines)
  BY HeadIs
<1>10. ASSUME own(head)
       PROVE  d["v4"] = c.v4 /\ d["v6"] = c.v6 /\ d["tag"] = c.tag /\ Held(d)
  <2>1. Proper(c)
    BY <1>1, <1>10 DEF Proper
  <2>2. conf = PolicyLines(c)
    BY <1>1, <1>2, <1>10, TableKept
  <2>3. /\ DefaultsIn(PolicyLines(c), NoDefaults)["v4"] = c.v4
        /\ DefaultsIn(PolicyLines(c), NoDefaults)["v6"] = c.v6
    BY <2>1, ProperDefaults
  <2>4. /\ DefaultsIn(PolicyLines(c), NoDefaults)["tag"] = c.tag
        /\ DefaultsIn(PolicyLines(c), NoDefaults)["s4"] = ""
        /\ DefaultsIn(PolicyLines(c), NoDefaults)["s6"] = ""
    BY <2>1, ProperTag
  <2>5. /\ d["v4"] = c.v4 /\ d["v6"] = c.v6 /\ d["tag"] = c.tag
        /\ d["s4"] = "" /\ d["s6"] = ""
    BY <2>2, <2>3, <2>4
  <2>6. /\ Width[c.v4] < STR_SIZE /\ Width[c.v6] < STR_SIZE /\ Width[c.tag] < STR_SIZE
    BY <1>1 DEF Narrow, DefaultRow, RowFields
  <2>7. Width[""] < STR_SIZE
    BY EmptyCacheable DEF Cacheable
  <2> HIDE DEF d
  <2>8. Held(d)
    BY <2>5, <2>6, <2>7 DEF Held, DefaultFields
  <2> QED
    BY <2>5, <2>8
<1>11. ASSUME head \in Seq(BlankLines)
       PROVE  d["v6"] = "" /\ d["tag"] = "" /\ Held(d)
  BY <1>4, <1>11, BlankRead
<1>12. Held(d)
  BY <1>9, <1>10, <1>11
<1> HIDE DEF list, d
<1>13. /\ read \in Cache /\ read.enable = (flg = "1")
       /\ read.v4 = d["v4"] /\ read.v6 = d["v6"] /\ read.tag = d["tag"]
       /\ read.table = [i \in DOMAIN list |-> list[i].val]
  BY <1>6, <1>8, <1>12, DualCache
<1> HIDE DEF read
<1>14. read.table = c.table
  BY <1>7, <1>13
<1>15. TableOf(read) = TableOf(c)
  BY <1>14, Zenon DEF TableOf
<1>16. Width[d["v4"]] < STR_SIZE /\ Width[d["tag"]] < STR_SIZE
  BY <1>12 DEF Held, DefaultFields
<1>17. ASSUME own(head)
       PROVE  head \in Heads(read) /\ Narrow(DefaultRow(read))
  <2>1. DefaultOf(read) = DefaultOf(c)
    BY <1>10, <1>13, <1>17, Zenon DEF DefaultOf
  <2>2. read.v4 \in V4 /\ read.v6 \in V6 /\ head = <<DefaultOf(read)>>
    BY <1>10, <1>13, <1>17, <2>1
  <2>3. DefaultRow(read) = DefaultRow(c)
    BY <1>10, <1>13, <1>17, Zenon DEF DefaultRow
  <2> QED
    BY <1>1, <2>2, <2>3, HeadIs
<1>18. ASSUME head \in Seq(BlankLines)
       PROVE  head \in Heads(read) /\ Narrow(DefaultRow(read))
  <2>1. d["v4"] \in Text /\ "" \in Text /\ "" \notin Coloned
    BY <1>6, WordsAssumption DEF Defaults, DefaultFields, Text
  <2>2. Cacheable(d["v4"]) /\ Cacheable("")
    BY <1>16, <2>1, EmptyCacheable DEF Cacheable
  <2>3. Override(DefaultMac, d["v4"], "", "") \in BlankLines
    BY <2>1, <2>2, HalfLine
  <2>4. read.v6 = "" /\ read.tag = ""
    BY <1>11, <1>13, <1>18
  <2>5. DefaultOf(read) = Override(DefaultMac, d["v4"], "", "")
    BY <1>13, <2>4 DEF DefaultOf
  <2>6. head \in Heads(read)
    BY <1>18, <2>3, <2>5, HeadIs
  <2>7. Narrow(DefaultRow(read))
    BY <1>13, <2>2, <2>4, DefaultNarrow DEF IpOrNone
  <2> QED
    BY <2>6, <2>7
<1>19. head \in Heads(read) /\ Narrow(DefaultRow(read))
  BY <1>9, <1>17, <1>18
<1>20. \A i \in DOMAIN read.table : ProperRow(read.table[i])
  BY <1>1, <1>14
<1>21. StoredAs(read, conf)
  BY <1>2, <1>13, <1>15, <1>19, <1>20 DEF StoredAs
<1> QED
  BY <1>13, <1>21 DEF read, list, d

\* A policy that is made from the nameservers is stored as the cache made of it.
LEMMA FreshStored ==
  ASSUME "empty" \notin Coloned, Cacheable("empty"),
         NEW conf, NEW d \in Defaults, Made(<< >>, NoDefaults, conf, d), NEW flg
  PROVE  LET read == init_xdns_cache(DualStack, flg, d, << >>)
         IN StoredAs(read, conf) /\ read.enable = (flg = "1")
<1> DEFINE none == << >>
           read == init_xdns_cache(DualStack, flg, d, none)
<1>1. none \in Seq(Row) /\ none \in Seq(BlankLines) /\ DOMAIN none = {}
  BY EmptySeq
<1> HIDE DEF none
<1>f. /\ d["v4"] \in V4 \cup {""} /\ d["v6"] \in V6 \cup {""}
      /\ d["s4"] = "" /\ d["s6"] = "" /\ d["tag"] \in {"", "empty"}
  <2>1. /\ NoDefaults["v4"] = "" /\ NoDefaults["v6"] = "" /\ NoDefaults["tag"] = ""
        /\ NoDefaults["s4"] = "" /\ NoDefaults["s6"] = ""
    BY DEF NoDefaults, DefaultFields
  <2>2. d = NoDefaults \/ Fresh(NoDefaults, d)
    BY DEF Made
  <2> QED
    BY <2>1, <2>2 DEF Fresh
<1>w. Cacheable(d["v4"]) /\ Cacheable(d["v6"]) /\ Cacheable(d["tag"])
  <2>1. d["v4"] \in Text /\ d["v6"] \in Text
    BY DEF Defaults, DefaultFields
  <2>2. d["v4"] \in V4 \cup V6 \cup {""} /\ d["v6"] \in V4 \cup V6 \cup {""}
    BY <1>f
  <2>3. Width[d["v4"]] < 46 /\ Width[d["v6"]] < 46
    BY <2>2, WebAssumption
  <2>4. Width[d["v4"]] \in Nat /\ Width[d["v6"]] \in Nat
    BY <2>1, WordsAssumption DEF Text
  <2>5. Cacheable(d["tag"])
    BY <1>f, EmptyCacheable
  <2> QED
    BY <2>1, <2>3, <2>4, <2>5 DEF Cacheable, STR_SIZE
<1>h. Held(d)
  BY <1>f, <1>w, EmptyCacheable DEF Held, Cacheable, DefaultFields
<1>2. /\ read \in Cache /\ read.enable = (flg = "1")
      /\ read.v4 = d["v4"] /\ read.v6 = d["v6"] /\ read.tag = d["tag"]
      /\ read.table = [i \in DOMAIN none |-> none[i].val]
  <2>1. none \in Seq(Row) /\ d \in Defaults
    BY <1>1
  <2>2. \A i \in DOMAIN none : \A f \in RowFields : Width[none[i].val[f]] < STR_SIZE
    BY <1>1
  <2> QED
    BY <1>h, <2>1, <2>2, DualCache
<1> HIDE DEF read
<1>3. TableOf(read) = << >> /\ \A i \in DOMAIN read.table : ProperRow(read.table[i])
  <2>1. DOMAIN read.table = {}
    BY <1>1, <1>2
  <2>2. TableOf(read) = [i \in {} |-> LineOf(read.table[i])]
    BY <2>1, Zenon DEF TableOf
  <2>3. TableOf(read) = << >>
    BY <2>2
  <2> QED
    BY <2>1, <2>3
<1>4. /\ d["v4"] \in Text /\ d["v6"] \in Text /\ d["tag"] \in Text
      /\ "" \notin Coloned
  BY WordsAssumption DEF Defaults, DefaultFields
<1>5. DefaultOf(read) = Override(DefaultMac, d["v4"], d["v6"], d["tag"])
  BY <1>2, Zenon DEF DefaultOf
<1>n. Narrow(DefaultRow(read))
  <2>1. Cacheable(read.v4) /\ read.v6 \in IpOrNone /\ Cacheable(read.tag)
    BY <1>2, <1>f, <1>w DEF IpOrNone, Ip
  <2> QED
    BY <1>2, <2>1, DefaultNarrow
<1>6. NoDefaults["v4"] = "" /\ NoDefaults["tag"] = ""
  BY DEF NoDefaults, DefaultFields
<1>7. ASSUME d["v4"] = "" \/ d["v6"] = "", d["tag"] \notin Coloned, conf = << >>
      PROVE  StoredAs(read, conf)
  <2>1. DefaultOf(read) \in BlankLines
    BY <1>4, <1>5, <1>7, <1>w, HalfLine
  <2>2. none \in Heads(read)
    BY <1>1, <2>1, HeadIs
  <2>3. conf = none \o TableOf(read)
    <3>1. << >> \o << >> = << >>
      OBVIOUS
    <3> QED
      BY <1>3, <1>7, <3>1 DEF none
  <2> QED
    BY <1>2, <1>3, <1>n, <2>2, <2>3 DEF StoredAs
<1>8. ASSUME Fresh(NoDefaults, d), d["v4"] # "" /\ d["v6"] # "",
             conf = << >> \o FreshLines(d)
      PROVE  StoredAs(read, conf)
  <2>1. d["v4"] \in V4 /\ d["v6"] \in V6
    BY <1>8 DEF Fresh
  <2>f. Fits(DefaultMac, d["v4"], d["v6"], d["tag"])
    <3>1. Fits(DefaultRow(read)["mac"], DefaultRow(read)["v4"], DefaultRow(read)["v6"],
               DefaultRow(read)["tag"])
      BY <1>n DEF Narrow
    <3>2. /\ DefaultRow(read)["mac"] = DefaultMac /\ DefaultRow(read)["v4"] = d["v4"]
          /\ DefaultRow(read)["v6"] = d["v6"] /\ DefaultRow(read)["tag"] = d["tag"]
      BY <1>2 DEF DefaultRow
    <3> QED
      BY <3>1, <3>2
  <2>2. FreshLines(d) = <<DefaultOf(read)>>
    BY <1>5, <2>f DEF FreshLines, Entry
  <2> DEFINE line == DefaultOf(read)
             first == <<line>>
  <2>3. line \in Line
    BY <1>2, DefaultIsLine
  <2>4. first \in Heads(read)
    BY <1>2, <2>1, HeadIs
  <2> HIDE DEF line
  <2>5. first \in Seq(Line)
    BY <2>3
  <2> HIDE DEF first
  <2>6. << >> \o first = first /\ first \o << >> = first
    BY <2>5, ConcatEmptySeq
  <2>7. conf = first \o TableOf(read)
    BY <1>3, <1>8, <2>2, <2>6 DEF first, line
  <2> QED
    BY <1>2, <1>3, <1>n, <2>4, <2>7 DEF StoredAs
<1>9. StoredAs(read, conf)
  <2>1. CASE conf = << >> /\ d = NoDefaults
    BY <1>4, <1>6, <1>7, <2>1
  <2>2. CASE /\ Fresh(NoDefaults, d)
             /\ conf = IF d["v4"] = "" \/ d["v6"] = "" THEN << >> ELSE << >> \o FreshLines(d)
    <3>1. d["tag"] \notin Coloned
      BY <1>4, <1>6, <2>2 DEF Fresh
    <3> QED
      BY <1>7, <1>8, <2>2, <3>1
  <2> QED
    BY <2>1, <2>2 DEF Made
<1> QED
  BY <1>2, <1>9 DEF read, none

\* A start leaves a policy, and a cache it is stored as.
LEMMA StartStored ==
  ASSUME "empty" \notin Coloned, Cacheable("empty"), NEW fs \in Files, NoFileNoLine(fs), NEW c,
         StoredAs(c, fs.conf), NEW flg
  PROVE  LET s == CosaXDNSInitialize(fs, flg, NoDefaults)
             read == init_xdns_cache(DualStack, flg, s.dflt, s.rows)
         IN StoredAs(read, s.fs.conf) /\ read.enable = (flg = "1")
<1> DEFINE s == CosaXDNSInitialize(fs, flg, NoDefaults)
           read == init_xdns_cache(DualStack, flg, s.dflt, s.rows)
           on == flg = "1"
<1>1. /\ s.rows = IF fs.confExists THEN RowsIn(fs.conf) ELSE << >>
      /\ s.dflt \in Defaults
  <2>1. s.dflt \in Defaults
    BY NoDefaultsType, InitializeType
  <2>2. s.rows = IF fs.confExists THEN RowsIn(fs.conf) ELSE << >>
    BY DEF CosaXDNSInitialize
  <2> QED
    BY <2>1, <2>2
<1>2. IF fs.confExists THEN s.fs.conf = fs.conf /\ s.dflt = DefaultsIn(fs.conf, NoDefaults)
      ELSE Made(fs.conf, NoDefaults, s.fs.conf, s.dflt)
  BY NoDefaultsType, StartConf
<1> HIDE DEF s
<1>3. CASE fs.confExists
  <2> DEFINE same == init_xdns_cache(DualStack, flg, DefaultsIn(fs.conf, NoDefaults), RowsIn(fs.conf))
  <2>1. StoredAs(same, fs.conf) /\ same.enable = (flg = "1")
    BY ReadAgain
  <2>2. read = same /\ s.fs.conf = fs.conf
    BY <1>1, <1>2, <1>3
  <2> HIDE DEF same, read, on
  <2>3. StoredAs(read, s.fs.conf)
    BY <2>1, <2>2
  <2>4. same.enable = on
    BY <2>1 DEF on
  <2>5. read.enable = on
    BY <2>2, <2>4
  <2> QED
    BY <2>3, <2>5 DEF read, s, on
<1>4. CASE ~ fs.confExists
  <2> DEFINE same == init_xdns_cache(DualStack, flg, s.dflt, << >>)
             conf == s.fs.conf
             d == s.dflt
  <2>1. Made(<< >>, NoDefaults, conf, d) /\ d \in Defaults /\ s.rows = << >>
    BY <1>1, <1>2, <1>4 DEF NoFileNoLine
  <2> HIDE DEF conf, d
  <2>2. /\ StoredAs(init_xdns_cache(DualStack, flg, d, << >>), conf)
        /\ init_xdns_cache(DualStack, flg, d, << >>).enable = (flg = "1")
    BY <2>1, FreshStored
  <2>3. read = init_xdns_cache(DualStack, flg, d, << >>)
    BY <2>1 DEF d
  <2> HIDE DEF same, read
  <2> QED
    BY <2>2, <2>3 DEF read, s, conf
<1> QED
  BY <1>3, <1>4 DEF s

\* Written once more, it still is the policy of the cache.
LEMMA StoredAgain ==
  ASSUME NEW c, NEW conf, StoredAs(c, conf), NEW conf1, Written(conf1, c)
  PROVE  StoredAs(c, conf1)
<1> DEFINE d == DefaultOf(c)
           first == <<d>>
           t == TableOf(c)
<1>1. c \in Cache /\ Narrow(DefaultRow(c)) /\ \A i \in DOMAIN c.table : ProperRow(c.table[i])
  BY DEF StoredAs
<1>2. PICK head \in Heads(c) : conf = head \o t
  BY DEF StoredAs
<1>3. /\ PolicyLines(c) = first \o t
      /\ t \in Seq(Line) /\ Keep(t, ValidLines) = t
  BY <1>1, TableKept
<1>4. d \in Line
  BY <1>1, DefaultIsLine
<1>5. CASE c.v4 \in V4 /\ c.v6 \in V6
  <2>1. Proper(c)
    BY <1>1, <1>5 DEF Proper
  <2>2. conf1 = PolicyLines(c)
    BY <2>1, ProperWritten
  <2>3. first \in Heads(c)
    BY <1>5, HeadIs
  <2> HIDE DEF first, t
  <2>4. conf1 = first \o t
    BY <1>3, <2>2
  <2> QED
    BY <1>1, <2>3, <2>4 DEF StoredAs, t
<1>6. CASE d \in BlankLines
  <2> DEFINE B == BlankLines
             none == << >>
  <2>1. d \in B
    BY <1>6
  <2> HIDE DEF B, d
  <2>2. first \in Seq(B) /\ none \in Seq(B)
    BY <2>1
  <2> HIDE DEF none, first, t
  <2>3. first \in Heads(c) /\ none \in Heads(c)
    BY <1>6, <2>2, HeadIs DEF B, d
  <2>4. Keep(first, ValidLines) = none
    BY <2>2, BlankKept DEF B, none
  <2>5. Keep(first \o t, ValidLines) = none \o t
    <3>1. first \in Seq(Line) /\ t \in Seq(Line)
      BY <1>3, <2>2, BlankKept DEF B
    <3>2. Keep(first \o t, ValidLines) = Keep(first, ValidLines) \o Keep(t, ValidLines)
      BY <3>1, KeepConcat
    <3> QED
      BY <1>3, <2>4, <3>2
  <2>6. conf1 \in {first \o t, none \o t}
    BY <1>3, <2>5 DEF Written
  <2>7. \E h \in Heads(c) : conf1 = h \o t
    BY <2>3, <2>6
  <2> QED
    BY <1>1, <2>7 DEF StoredAs, t
<1>7. (c.v4 \in V4 /\ c.v6 \in V6) \/ d \in BlankLines
  BY <1>2, HeadIs
<1> QED
  BY <1>5, <1>6, <1>7

\* A proper cache is stored as its lines.
LEMMA ProperStored ==
  ASSUME NEW c, Proper(c)
  PROVE  StoredAs(c, PolicyLines(c))
<1> DEFINE first == <<DefaultOf(c)>>
           t == TableOf(c)
<1>1. /\ c \in Cache /\ c.v4 \in V4 /\ c.v6 \in V6 /\ Narrow(DefaultRow(c))
      /\ \A i \in DOMAIN c.table : ProperRow(c.table[i])
  BY DEF Proper
<1>2. PolicyLines(c) = first \o t
  BY <1>1, TableKept
<1>3. first \in Heads(c)
  BY <1>1, HeadIs
<1> HIDE DEF first, t
<1> QED
  BY <1>1, <1>2, <1>3 DEF StoredAs, t

\* An empty file is what a cleared cache is stored as.
LEMMA EmptyStored == StoredAs(clear_xdns_cache, << >>)
<1> DEFINE c == clear_xdns_cache
           none == << >>
           blank == ""
<1>1. /\ c \in Cache /\ c.v4 = blank /\ c.v6 = blank /\ c.tag = blank /\ c.table = none
  BY ClearType DEF clear_xdns_cache
<1>2. blank \in Text /\ blank \notin Coloned
  BY WordsAssumption DEF Text
<1> HIDE DEF c
<1>3. DefaultOf(c) = Override(DefaultMac, blank, blank, blank)
  BY <1>1, Zenon DEF DefaultOf
<1>4. DefaultOf(c) \in BlankLines
  BY <1>2, <1>3, EmptyCacheable, HalfLine DEF blank
<1>n. Narrow(DefaultRow(c))
  <2>1. Cacheable(c.v4) /\ c.v6 \in IpOrNone /\ Cacheable(c.tag)
    BY <1>1, EmptyCacheable DEF IpOrNone
  <2> QED
    BY <1>1, <2>1, DefaultNarrow
<1>5. none \in Seq(BlankLines) /\ DOMAIN none = {}
  BY EmptySeq
<1>6. none \in Heads(c)
  BY <1>4, <1>5, HeadIs
<1>7. TableOf(c) = none /\ \A i \in DOMAIN c.table : ProperRow(c.table[i])
  <2>1. TableOf(c) = [i \in {} |-> LineOf(c.table[i])]
    BY <1>1, <1>5, Zenon DEF TableOf
  <2>2. TableOf(c) = none
    BY <2>1
  <2> QED
    BY <1>1, <1>5, <2>2
<1>8. none = none \o TableOf(c)
  BY <1>7
<1> QED
  BY <1>1, <1>n, <1>6, <1>7, <1>8 DEF StoredAs, c

-----------------------------------------------------------------------------
(***************************************************************************)
(* The invariant of rollback_XDNS.  The cache is kept in step with the     *)
(* files by the worker and by a start, so that the copy the worker takes   *)
(* of it says what the files hold.  Neither a handler of the management    *)
(* thread nor a syscfg that fails would leave it so.                       *)
(***************************************************************************)

\* Some cache is stored as conf: it has room for every word of the policy.
Storable(conf) == \E c : StoredAs(c, conf)

\* Between two documents the cache is what dnsmasq_servers.conf and the flag
\* say.  During one the copy in bck is what they said when the worker took it.
Mirrored ==
  /\ NoFileNoLine(files) /\ flash = flag
  /\ Storable(files.conf)
  /\ at = "idle" => StoredAs(cache, files.conf) /\ (cache.enable <=> flag = "1")
  /\ at # "idle" => StoredAs(bck, prior.conf) /\ (bck.enable <=> prior.flag = "1")
  /\ at \in {"refused", "open"} => files.conf = prior.conf /\ flag = prior.flag
  /\ undo => flag = prior.flag /\ at # "save"

\* What is known of the device, of the documents and of the first start.
Mirroring ==
  /\ Ip \subseteq NotDefault /\ "empty" \notin Coloned /\ Cacheable("empty")
  /\ RouterModes \subseteq {DualStack}
  /\ SyscfgOutcomes \subseteq {"ok"}
  /\ \A blob \in Blobs : OwnFields(blob)
  /\ \A conf \in BootConf : Storable(conf)

\* What is applied is stored as the cache it is made of.
LEMMA SourceStored ==
  ASSUME Mirroring, WebInv, Executing, Mirrored, at \in {"fill", "switch", "save", "restart"}
  PROVE  /\ \A conf : Written(conf, Source) => StoredAs(Source, conf)
         /\ Written(PolicyLines(Source), Source)
<1>1. \E conf : StoredAs(Source, conf)
  <2>1. CASE undo
    BY <2>1 DEF Mirrored, Source
  <2>2. CASE ~ undo
    <3> DEFINE read(mode) == set_xdns_conf(doc, files, mode)
    <3>1. PICK mode \in RouterModes : Taken(mode)
      BY <2>2 DEF Executing
    <3>2. doc \in Blob /\ files \in Files /\ OwnFields(doc) /\ Ip \subseteq NotDefault
      BY WebAssumption DEF WebInv, DmlInv, TypeOK, WorkerOK, Mirroring
    <3>3. cache = read(mode).cache /\ read(mode).verdict = "ok"
      BY <3>1 DEF Taken
    <3>4. Proper(cache)
      <4>1. read(mode).verdict = "ok" => Proper(read(mode).cache)
        BY <3>2, OwnReading
      <4> HIDE DEF read
      <4> QED
        BY <3>3, <4>1
    <3>5. StoredAs(cache, PolicyLines(cache))
      BY <3>4, ProperStored
    <3> QED
      BY <2>2, <3>5 DEF Source
  <2> QED
    BY <2>1, <2>2
<1>2. PICK old : StoredAs(Source, old)
  BY <1>1
<1>3. \A conf : Written(conf, Source) => StoredAs(Source, conf)
  BY <1>2, StoredAgain
<1> QED
  BY <1>3 DEF Written

\* The worker takes a copy of the cache.
LEMMA ProcessMirrored ==
  ASSUME WebInv, Mirrored, NEW blob \in Blobs, NEW mode, Executing,
         Process_XDNS_WebConfigRequest(blob, mode)
  PROVE  Mirrored'
<1>1. /\ at = "idle" /\ bck' = cache /\ undo' = undo
      /\ prior' = [conf |-> files.conf, flag |-> flag]
      /\ UNCHANGED <<files, flag, flash>>
  BY DEF Process_XDNS_WebConfigRequest, vars
<1>2. at' \in {"open", "refused", "done"}
  BY TakenPhase
<1>3. ~ undo
  BY <1>1 DEF Executing
<1>4. prior'.conf = files.conf /\ prior'.flag = flag
  BY <1>1
<1>5. StoredAs(cache, files.conf) /\ (cache.enable <=> flag = "1")
  BY <1>1 DEF Mirrored
<1>6. StoredAs(bck', prior'.conf) /\ (bck'.enable <=> prior'.flag = "1")
  BY <1>1, <1>4, <1>5
<1> QED
  BY <1>1, <1>2, <1>3, <1>4, <1>6 DEF Mirrored

\* An empty file is stored, too.
LEMMA OpenMirrored ==
  ASSUME WebInv, Executing, Mirrored, OpenConf
  PROVE  Mirrored'
<1>1. /\ at = "open" /\ flag' = flag /\ flash' = flash /\ bck' = bck
      /\ \/ /\ files' = [files EXCEPT !.confExists = TRUE, !.conf = << >>]
            /\ at' = "fill" /\ UNCHANGED <<undo, cache, doc, prior>>
         \/ files' = files /\ Applied(FALSE)
  BY DEF OpenConf
<1>2. /\ StoredAs(bck, files.conf) /\ (bck.enable <=> flag = "1")
      /\ StoredAs(bck, prior.conf) /\ (bck.enable <=> prior.flag = "1")
      /\ files.conf = prior.conf /\ flag = prior.flag
      /\ NoFileNoLine(files) /\ flash = flag /\ Storable(files.conf)
  BY <1>1 DEF Mirrored
<1>3. files \in Files
  BY DEF WebInv, DmlInv, TypeOK
<1>4. CASE /\ files' = [files EXCEPT !.confExists = TRUE, !.conf = << >>]
           /\ at' = "fill" /\ UNCHANGED <<undo, cache, doc, prior>>
  <2>1. files'.confExists /\ files'.conf = << >>
    BY <1>3, <1>4 DEF Files
  <2>2. Storable(files'.conf) /\ NoFileNoLine(files')
    BY <2>1, EmptyStored DEF Storable, NoFileNoLine
  <2> QED
    BY <1>1, <1>2, <1>4, <2>2 DEF Mirrored
<1>5. CASE files' = files /\ Applied(FALSE) /\ undo
  <2>1. at' = "idle" /\ undo' = FALSE /\ cache' = bck
    BY <1>5 DEF Applied
  <2>2. StoredAs(cache', files'.conf) /\ (cache'.enable <=> flag' = "1")
    BY <1>1, <1>2, <1>5, <2>1
  <2> QED
    BY <1>1, <1>2, <1>5, <2>1, <2>2 DEF Mirrored
<1>6. CASE files' = files /\ Applied(FALSE) /\ ~ undo
  <2>1. at' = "refused" /\ undo' = undo /\ prior' = prior
    BY <1>6 DEF Applied
  <2> QED
    BY <1>1, <1>2, <1>6, <2>1 DEF Mirrored
<1> QED
  BY <1>1, <1>4, <1>5, <1>6

\* The lines of a proper cache, or of the copy.
LEMMA FillMirrored ==
  ASSUME Mirroring, WebInv, Executing, Mirrored, FillConf
  PROVE  Mirrored'
<1>1. /\ at = "fill" /\ at' = "switch"
      /\ files' = [files EXCEPT !.conf = PolicyLines(Source)]
      /\ UNCHANGED <<flag, flash, bck, undo, prior>>
  BY DEF FillConf
<1>2. files.confExists /\ files \in Files
  BY <1>1 DEF Executing, WebInv, DmlInv, TypeOK
<1>3. files'.conf = PolicyLines(Source) /\ files'.confExists
  BY <1>1, <1>2 DEF Files
<1>4. StoredAs(Source, PolicyLines(Source))
  BY <1>1, SourceStored
<1>5. Storable(files'.conf) /\ NoFileNoLine(files')
  BY <1>3, <1>4 DEF Storable, NoFileNoLine
<1> QED
  BY <1>1, <1>5 DEF Mirrored

\* A rollback finds the flag as it was and goes straight to the start.
LEMMA SwitchMirrored ==
  ASSUME Mirroring, WebInv, Executing, Mirrored, SwitchFiles
  PROVE  Mirrored'
<1>1. /\ at = "switch" /\ at' \in {"restart", "save"}
      /\ UNCHANGED <<flag, flash, cache, bck, undo, prior>>
      /\ (Source.enable <=> flag = "1") => at' = "restart"
      /\ files' \in {files, SetXdnsConfig(files).fs, UnsetXdnsConfig(files)}
  <2> DEFINE on == Source.enable
             set == flag = "1"
  <2>1. on \in BOOLEAN
    BY SourceType DEF WebInv, Cache
  <2>2. /\ at = "switch" /\ UNCHANGED <<flag, flash, cache, bck, undo, prior>>
        /\ IF on = set THEN at' = "restart" /\ files' = files
           ELSE /\ at' = "save"
                /\ files' = IF on THEN SetXdnsConfig(files).fs ELSE UnsetXdnsConfig(files)
    BY DEF SwitchFiles
  <2> HIDE DEF on
  <2>3. (on <=> set) => on = set
    BY <2>1
  <2> QED
    BY <2>2, <2>3 DEF on
<1>2. files.confExists /\ files \in Files /\ Written(files.conf, Source) /\ Source \in Cache
  BY <1>1, SourceType DEF Executing, WebInv, DmlInv, TypeOK
<1>3. /\ files'.conf \in {files.conf, Keep(files.conf, ValidLines)}
      /\ files'.confExists
  BY <1>1, <1>2 DEF SetXdnsConfig, UnsetXdnsConfig, Files
<1>4. Written(files'.conf, Source)
  BY <1>2, <1>3, WrittenAgain
<1>5. StoredAs(Source, files'.conf)
  BY <1>1, <1>4, SourceStored
<1>6. Storable(files'.conf) /\ NoFileNoLine(files')
  BY <1>3, <1>5 DEF Storable, NoFileNoLine
<1>7. undo => at' = "restart"
  BY <1>1 DEF Mirrored, Source
<1> QED
  BY <1>1, <1>6, <1>7 DEF Mirrored

\* Only a document that is not undone stores the flag.
LEMMA StoreMirrored ==
  ASSUME Mirroring, Mirrored, StoreFlag
  PROVE  Mirrored'
<1> DEFINE value == IF Source.enable THEN "1" ELSE "0"
<1>1. /\ at = "save" /\ flag' = value /\ flash' = value
      /\ at' = "restart" /\ UNCHANGED <<undo, cache, bck, doc, prior, files>>
  BY DEF StoreFlag, Mirroring
<1> QED
  BY <1>1 DEF Mirrored

\* The data model is read again, and the files keep what was written.
LEMMA ReinitializeMirrored ==
  ASSUME Mirroring, WebInv, Executing, Mirrored, Reinitialize
  PROVE  Mirrored' /\ files'.conf = files.conf /\ Written(files.conf, Source)
<1> DEFINE s == CosaXDNSInitialize(files, flag, dflt)
<1>1. /\ at = "restart" /\ files' = s.fs /\ Applied(TRUE) /\ UNCHANGED <<flag, flash, bck>>
  BY DEF Reinitialize
<1>2. /\ files.confExists /\ files \in Files /\ dflt \in Defaults
      /\ Written(files.conf, Source) /\ NoFileNoLine(files)
  BY <1>1 DEF Executing, WebInv, DmlInv, TypeOK, Defaults, Mirrored
<1>3. s.fs.conf = files.conf /\ NoFileNoLine(s.fs)
  BY <1>2, StartConf, InitializeNoFile
<1> HIDE DEF s
<1>4. files'.conf = files.conf /\ NoFileNoLine(files')
  BY <1>1, <1>3
<1>5. Mirrored'
  <2>1. CASE undo
    <3>1. at' = "idle" /\ undo' = FALSE /\ cache' = bck /\ Source = bck
      BY <1>1, <2>1 DEF Applied, Source
    <3>2. StoredAs(bck, files.conf)
      BY <1>1, <1>2, <3>1, SourceStored
    <3>3. bck.enable <=> flag = "1"
      BY <1>1, <2>1 DEF Mirrored
    <3>4. StoredAs(cache', files'.conf) /\ (cache'.enable <=> flag' = "1")
      BY <1>1, <1>4, <3>1, <3>2, <3>3
    <3> QED
      BY <1>1, <1>4, <3>1, <3>4 DEF Mirrored, Storable
  <2>2. CASE ~ undo
    <3>1. at' = "done" /\ undo' = undo /\ prior' = prior
      BY <1>1, <2>2 DEF Applied
    <3> QED
      BY <1>1, <1>4, <2>2, <3>1 DEF Mirrored
  <2> QED
    BY <2>1, <2>2
<1> QED
  BY <1>2, <1>4, <1>5

\* A document that is in force is what the cache holds.
LEMMA AcknowledgeMirrored ==
  ASSUME Mirroring, WebInv, Executing, Mirrored, Acknowledge
  PROVE  Mirrored'
<1>1. /\ at = "done" /\ at' = "idle" /\ UNCHANGED <<files, flag, flash, cache, bck, undo>>
  BY DEF Acknowledge, Mirrored
<1>2. Answered /\ ~ undo
  BY <1>1, DoneAnswered DEF Mirroring, Executing
<1>3. /\ Proper(cache) /\ cache.enable = doc.enable /\ files.conf = PolicyLines(cache)
      /\ (flag = "1") = doc.enable
  BY <1>2 DEF Answered, Says
<1>4. StoredAs(cache, files.conf)
  BY <1>3, ProperStored
<1>5. cache.enable <=> flag = "1"
  BY <1>3
<1>6. StoredAs(cache', files'.conf) /\ (cache'.enable <=> flag' = "1")
  BY <1>1, <1>4, <1>5
<1> QED
  BY <1>1, <1>2, <1>6 DEF Mirrored

\* Nothing was written yet when a document is refused.
LEMMA RefuseMirrored ==
  ASSUME Mirrored, Refuse
  PROVE  Mirrored'
<1>1. /\ at = "refused" /\ at' = "open" /\ undo' = TRUE
      /\ UNCHANGED <<files, flag, flash, cache, bck, doc, prior>>
  BY DEF Refuse, vars
<1> QED
  BY <1>1 DEF Mirrored

\* A new process finds what the old one was writing, and makes its cache of it.
LEMMA StartMirrored ==
  ASSUME Mirroring, WebInv, Mirrored, ProcessStart
  PROVE  Mirrored'
<1>1. /\ at' = "idle" /\ undo' = FALSE
      /\ \E mode \in RouterModes : cache' = init_xdns_cache(mode, flag', dflt', rows')
      /\ Restart \/ Reboot
  BY DEF ProcessStart, WorkerStarts, StartAgain, RollbackOverrun, RowOverrun
<1>2. cache' = init_xdns_cache(DualStack, flag', dflt', rows')
  BY <1>1 DEF Mirroring
<1>3. files \in Files /\ flag = flash /\ NoFileNoLine(files) /\ Storable(files.conf)
  BY DEF WebInv, DmlInv, TypeOK, Mirrored
<1>4. PICK fs \in Files : /\ fs.conf = files.conf /\ fs.confExists = files.confExists
                          /\ StartOn(fs) /\ flag' = flag /\ flash' = flash
  <2>1. CASE Restart
    BY <1>3, <2>1 DEF Restart
  <2>2. CASE Reboot
    <3>1. PICK ns \in BootNameservers, here \in BOOLEAN : StartOn(BootFiles(files, ns, here))
      BY <2>2 DEF Reboot
    <3>2. /\ BootFiles(files, ns, here) \in Files
          /\ BootFiles(files, ns, here).conf = files.conf
          /\ BootFiles(files, ns, here).confExists = files.confExists
      BY <1>3, BootFilesType DEF BootFiles, Files
    <3>3. flag' = flag /\ flash' = flash
      BY <1>3, <2>2 DEF Reboot
    <3> QED
      BY <3>1, <3>2, <3>3
  <2> QED
    BY <1>1, <2>1, <2>2
<1> DEFINE s == CosaXDNSInitialize(fs, flag', NoDefaults)
           read == init_xdns_cache(DualStack, flag', s.dflt, s.rows)
<1>5. files' = s.fs /\ dflt' = s.dflt /\ rows' = s.rows
  BY <1>4 DEF StartOn
<1>6. NoFileNoLine(fs) /\ \E c : StoredAs(c, fs.conf)
  BY <1>3, <1>4 DEF NoFileNoLine, Storable
<1>7. StoredAs(read, s.fs.conf) /\ read.enable = (flag' = "1")
  <2>1. PICK c : StoredAs(c, fs.conf)
    BY <1>6
  <2>2. "empty" \notin Coloned /\ Cacheable("empty")
    BY DEF Mirroring
  <2> QED
    BY <1>6, <2>1, <2>2, StartStored
<1>8. NoFileNoLine(s.fs)
  BY <1>6, NoDefaultsType, InitializeNoFile
<1>9. cache' = read
  BY <1>2, <1>5
<1> HIDE DEF s, read
<1>10. read.enable <=> flag' = "1"
  BY <1>7
<1>11. StoredAs(cache', files'.conf) /\ (cache'.enable <=> flag' = "1")
  BY <1>5, <1>7, <1>9, <1>10
<1> QED
  BY <1>1, <1>3, <1>4, <1>5, <1>8, <1>11 DEF Mirrored, Storable

\* The first start.
LEMMA InitMirrored ==
  ASSUME Mirroring, WebInit
  PROVE  Mirrored
<1>1. /\ at = "idle" /\ undo = FALSE
      /\ \E mode \in RouterModes : cache = init_xdns_cache(mode, flag, dflt, rows)
      /\ Init /\ flash = flag
  BY DEF WebInit, Init
<1>2. cache = init_xdns_cache(DualStack, flag, dflt, rows)
  BY <1>1 DEF Mirroring
<1>3. PICK conf \in BootConf, confHere \in BOOLEAN, ns \in BootNameservers, here \in BOOLEAN :
        /\ confHere \/ conf = << >>
        /\ LET s == CosaXDNSInitialize(
                      [confExists |-> confHere, conf |-> conf, resolvExists |-> here,
                       ns |-> ns, overrides |-> << >>], flag, NoDefaults)
           IN files = s.fs /\ dflt = s.dflt /\ rows = s.rows
  BY <1>1 DEF Init
<1> DEFINE fs == [confExists |-> confHere, conf |-> conf, resolvExists |-> here,
                  ns |-> ns, overrides |-> << >>]
           s == CosaXDNSInitialize(fs, flag, NoDefaults)
           read == init_xdns_cache(DualStack, flag, s.dflt, s.rows)
<1>4. fs \in Files
  <2>1. conf \in Seq(Line) /\ ns \in [v4 : V4 \cup {""}, v6 : V6 \cup {""}]
    BY DmlAssumption
  <2> QED
    BY <2>1, EmptySeq DEF Files
<1>5. fs.conf = conf /\ fs.confExists = confHere
  OBVIOUS
<1>6. files = s.fs /\ dflt = s.dflt /\ rows = s.rows
  BY <1>3
<1> HIDE DEF fs
<1>7. NoFileNoLine(fs)
  BY <1>3, <1>5 DEF NoFileNoLine
<1>8. PICK c : StoredAs(c, fs.conf)
  BY <1>5 DEF Mirroring, Storable
<1>9. StoredAs(read, s.fs.conf) /\ read.enable = (flag = "1")
  <2>1. "empty" \notin Coloned /\ Cacheable("empty")
    BY DEF Mirroring
  <2> QED
    BY <1>4, <1>7, <1>8, <2>1, StartStored
<1>10. NoFileNoLine(s.fs)
  BY <1>4, <1>7, NoDefaultsType, InitializeNoFile
<1>11. cache = read
  BY <1>2, <1>6
<1> HIDE DEF s, read
<1>12. read.enable <=> flag = "1"
  BY <1>9
<1>13. StoredAs(cache, files.conf) /\ (cache.enable <=> flag = "1")
  BY <1>6, <1>9, <1>11, <1>12
<1> QED
  BY <1>1, <1>6, <1>10, <1>13 DEF Mirrored, Storable

\* Every step keeps cache, copy and files together.
LEMMA WebStepMirrored ==
  ASSUME Mirroring, "management" \notin Interference, WebInv, Executing, Mirrored,
         [WebNext]_allVars
  PROVE  Mirrored'
<1>1. ASSUME NEW blob \in Blobs, NEW mode \in RouterModes,
             Process_XDNS_WebConfigRequest(blob, mode)
      PROVE  Mirrored'
  BY <1>1, ProcessMirrored
<1>2. CASE WorkerStep
  BY <1>2, OpenMirrored, FillMirrored, SwitchMirrored, StoreMirrored, ReinitializeMirrored,
     AcknowledgeMirrored, RefuseMirrored DEF WorkerStep
<1>3. ~ Management
  BY DEF Management
<1>4. CASE ProcessStart
  BY <1>4, StartMirrored
<1>5. CASE UNCHANGED allVars
  BY <1>5 DEF allVars, vars, webVars, Mirrored, Storable, NoFileNoLine, StoredAs
<1> QED
  BY <1>1, <1>2, <1>3, <1>4, <1>5, NullStarts DEF WebNext

\* What a rollback writes has the valid lines of what was there.
LEMMA RolledBackLines ==
  ASSUME Mirroring, WebInv, Executing, Mirrored, undo, Reinitialize
  PROVE  /\ Keep(files'.conf, ValidLines) = Keep(prior.conf, ValidLines)
         /\ (flag' = "1") = (prior.flag = "1")
<1>1. /\ at = "restart" /\ flag' = flag /\ Source = bck
      /\ files'.conf = files.conf /\ Written(files.conf, bck)
  BY ReinitializeMirrored DEF Reinitialize, Source
<1>2. StoredAs(bck, files.conf) /\ StoredAs(bck, prior.conf) /\ flag = prior.flag
  BY <1>1, SourceStored DEF Mirrored
<1>3. ASSUME NEW conf, StoredAs(bck, conf)
      PROVE  Keep(conf, ValidLines) = Keep(PolicyLines(bck), ValidLines)
  <2>1. PICK head \in Heads(bck) : conf = head \o TableOf(bck)
    BY <1>3 DEF StoredAs
  <2>2. bck \in Cache /\ Narrow(DefaultRow(bck)) /\ \A i \in DOMAIN bck.table : ProperRow(bck.table[i])
    BY <1>3 DEF StoredAs
  <2>3. Keep(head \o TableOf(bck), ValidLines) = Keep(PolicyLines(bck), ValidLines)
    BY <2>2, StoredKept
  <2> QED
    BY <2>1, <2>3
<1>4. Keep(files.conf, ValidLines) = Keep(prior.conf, ValidLines)
  BY <1>2, <1>3
<1> QED
  BY <1>1, <1>2, <1>4

\* A rollback that returns 0 leaves the valid lines of the stored policy and
\* the flag as they were when the worker took the document.
THEOREM RollbacksRestore ==
  ASSUME Mirroring, "management" \notin Interference, "overlap" \notin Interference
  PROVE  WebSpec => RollbackRestores
<1> DEFINE Inv == WebInv /\ Executing /\ Mirrored
<1>1. WebInit => Inv
  BY WebInitInv, InitMirrored DEF WebInit, Executing
<1>2. Inv /\ [WebNext]_allVars => Inv'
  BY WebStepInv, WebStepExecuting, WebStepMirrored
<1>3. Inv /\ undo /\ Reinitialize =>
        /\ Keep(files'.conf, ValidLines) = Keep(prior.conf, ValidLines)
        /\ (flag' = "1") = (prior.flag = "1")
  BY RolledBackLines
<1> QED
  BY <1>1, <1>2, <1>3, PTL DEF WebSpec, RollbackRestores

=============================================================================
