--------------------------- MODULE XdnsWebconfig ---------------------------
(***************************************************************************)
(* Webconfig: a document from the cloud replaces the whole XDNS policy.    *)
(* A worker thread of the webconfig framework executes the documents one   *)
(* after the other, next to the management thread of XdnsDml.              *)
(*                                                                         *)
(* The worker gives up the processor between its reads and writes of what  *)
(* both threads use.  The secondary default addresses of the caches are    *)
(* left out: nothing is made of them.  So is the version the framework     *)
(* keeps of a document: it alone reads it.  A handler of the management    *)
(* thread is one step, and so is the rewriting of dnsmasq_servers.conf     *)
(* except that the process may die in the middle of it.                    *)
(***************************************************************************)
EXTENDS XdnsDml

CONSTANTS
  Blobs,          \* the documents the cloud may send
  NoBlob,         \* no document is being executed
  Missing,        \* a field the decoder has left NULL
  UseRdkDefault,  \* "USE_RDK_DEFAULT"
  Loopback4,      \* "127.0.0.1"
  Loopback6,      \* "::1"
  Compressed,     \* words in which strstr finds "::"
  WebMac,         \* words CheckIfMacIsValid accepts
  Nameservers,    \* the nameserver lines behind each kind of resolv.conf
  RouterModes,    \* what atoi may make of syscfg last_erouter_mode
  FileOutcomes,   \* whether dnsmasq_servers.conf can be opened for writing
  Interference    \* what may happen besides: "management" handlers between
                  \* two documents, "overlap": and during one, "crash":
                  \* the process dies during one

STR_SIZE == 64         \* of a MAC, an IPv4 address or a tag in a cache
IPV6_STR_SIZE == 129   \* of an IPv6 address

\* What the decoder may leave in a field: it does not insist on any text but
\* the tag of a row.
Given == Text \cup {Missing}

Blob == [enable : BOOLEAN,
         v4 : Given, v6 : Given, tag : Given \cup {TooLong},
         table : Seq([mac : Given, v4 : Given, v6 : Given, tag : Given \cup {TooLong}])]

ASSUME WebAssumption ==
  /\ Blobs \subseteq Blob /\ NoBlob \notin Blob
  /\ Missing \notin Text
  /\ UseRdkDefault \in Token /\ UseRdkDefault \notin V4 \cup V6
  /\ Loopback4 \in V4 /\ Loopback6 \in V6 \cap Compressed
  /\ Compressed \subseteq Token \ Dotted
  /\ WebMac \subseteq Token
  /\ \A w \in V4 \cup V6 \cup {""} : Width[w] < 46   \* INET6_ADDRSTRLEN
  /\ \A w \in WebMac : Width[w] \in {17, 35}
  /\ Width[DefaultMac] = 17
  /\ Nameservers \in [[v4 : V4 \cup {""}, v6 : V6 \cup {""}]
                       -> Seq({w \in Token : Width[w] < STR_SIZE})]
  /\ RouterModes \subseteq Nat
  /\ FileOutcomes \subseteq BOOLEAN
  /\ Interference \subseteq {"management", "overlap", "crash"}

VARIABLES
  cache,    \* XDNS_Data_Cache
  bck,      \* XDNS_tmp_bck
  at,       \* how far the worker is
  undo,     \* it is executing rollback_XDNS
  doc,      \* the document it executes
  prior     \* history: stored policy and flag when the worker took doc

webVars == <<cache, bck, at, undo, doc, prior>>
allVars == <<vars, webVars>>

Cache == [enable : BOOLEAN, v4 : Text, v6 : Text, tag : Text, table : Seq([RowFields -> Text])]

NoPolicy == [conf |-> << >>, flag |-> "unset"]

NoRow == [f \in RowFields |-> ""]

clear_xdns_cache == [enable |-> FALSE, v4 |-> "", v6 |-> "", tag |-> "", table |-> << >>]

(***************************************************************************)
(* The resolvers of the device itself.                                     *)
(***************************************************************************)
Ip == V4 \cup V6   \* CheckIfIpIsValid accepts either family

\* Mutant: MAP-T mode is not recognised.
ReadWithoutMapT(list) ==
  LET at13 == {i \in {1, 3} : i <= Len(list)}
      four == {i \in at13 : list[i] \in Dotted}
  IN [v4 |-> IF 3 \in four THEN list[3] ELSE IF 1 \in four THEN list[1] ELSE "",
      v6 |-> IF 3 \in at13 \ four THEN list[3] ELSE ""]

\* Lines one and three of the nameserver list; an IPv6 address in front means
\* MAP-T mode.
xdns_read_dns_ip(list) ==
  LET at13 == {i \in {1, 3} : i <= Len(list)}
      four == {i \in at13 : list[i] \in Dotted}
      six == {i \in at13 : list[i] \in Compressed}
  IN IF 1 \in six THEN [v4 |-> Loopback4, v6 |-> list[1]]
     ELSE [v4 |-> IF 3 \in four THEN list[3] ELSE IF 1 \in four THEN list[1] ELSE "",
           v6 |-> IF 3 \in six THEN list[3] ELSE ""]

DualStack == 3
KnownModes == {0, 1, DualStack}

\* erouter_mode_IPv6 (1) has no IPv4 resolver, erouter_mode_IPv4 (0) no IPv6
\* one.  The first address without room in the cache ends it.
xdns_load_dns_ip(mode, pair) ==
  LET four == IF mode = 1 THEN Loopback4 ELSE pair.v4
      six == IF mode = 0 THEN Loopback6 ELSE pair.v6
      ok4 == mode \in KnownModes /\ Width[four] < STR_SIZE
      ok6 == ok4 /\ Width[six] < IPV6_STR_SIZE
  IN [ok |-> ok6, v4 |-> IF ok4 THEN four ELSE "", v6 |-> IF ok6 THEN six ELSE ""]

\* What the document leaves open is taken from the device.  When one of the
\* device's own addresses is missing nothing is loaded, and that is no error.
xdns_read_load_dns_ip(fs, mode, v4, v6) ==
  LET device == xdns_read_dns_ip(Nameservers[fs.ns])
      usable == fs.resolvExists /\ device.v4 \in Ip /\ device.v6 \in Ip
      pair == IF v4 \in Ip THEN [device EXCEPT !.v4 = v4]
              ELSE IF v6 \in Ip THEN [device EXCEPT !.v6 = v6]
              ELSE device
  IN IF usable THEN xdns_load_dns_ip(mode, pair)
     ELSE [ok |-> fs.resolvExists, v4 |-> "", v6 |-> ""]

(***************************************************************************)
(* Reading a document into the cache.  The verdict is "ok", "invalid"      *)
(* (INVALID_IP, INVALID_MAC), "ignored": any other error code, which       *)
(* Process_XDNS_WebConfigRequest does not turn into an ErrorCode, or       *)
(* "crash": an address that is NULL is given to inet_pton or to strncmp.   *)
(***************************************************************************)
Cacheable(w) == w \in Text /\ Width[w] < STR_SIZE

\* The IPv6 address is only looked at after an IPv4 one that will do.
DefaultVerdict(blob, loaded) ==
  LET given == {blob.v4, blob.v6}
      known == Ip \cup {UseRdkDefault}
  IN IF blob.v4 = Missing \/ (blob.v4 \in known /\ blob.v6 = Missing) THEN "crash"
     ELSE IF ~ given \subseteq known THEN "invalid"
     ELSE IF ~ (given \subseteq Ip \/ loaded.ok) \/ ~ Cacheable(blob.tag) THEN "ignored"
     ELSE "ok"

\* CheckIfMacIsValid accepts NULL, copying it then fails
RowVerdict(row) ==
  IF row.mac = Missing THEN "ignored"
  ELSE IF row.mac \notin WebMac THEN "invalid"
  ELSE IF row.v4 = Missing \/ (row.v4 \in Ip /\ row.v6 = Missing) THEN "crash"
  ELSE IF ~ {row.v4, row.v6} \subseteq Ip THEN "invalid"
  ELSE IF ~ Cacheable(row.tag) THEN "ignored"
  ELSE "ok"

\* As much of a row as is copied before the first error.
Copied(row) ==
  LET macOk == row.mac \in WebMac
      ipOk == macOk /\ {row.v4, row.v6} \subseteq Ip
  IN [f \in RowFields |->
        CASE f = "mac" -> IF macOk THEN row.mac ELSE ""
          [] f \in {"v4", "v6"} -> IF ipOk THEN row[f] ELSE ""
          [] f = "tag" -> IF RowVerdict(row) = "ok" THEN row.tag ELSE ""]

set_xdns_conf(blob, fs, mode) ==
  LET loaded == xdns_read_load_dns_ip(fs, mode, blob.v4, blob.v6)
      pair == IF {blob.v4, blob.v6} \subseteq Ip THEN [v4 |-> blob.v4, v6 |-> blob.v6]
              ELSE IF {blob.v4, blob.v6} \subseteq Ip \cup {UseRdkDefault}
              THEN [v4 |-> loaded.v4, v6 |-> loaded.v6]
              ELSE [v4 |-> "", v6 |-> ""]
      first == DefaultVerdict(blob, loaded)
      bad == {i \in DOMAIN blob.table : RowVerdict(blob.table[i]) # "ok"}
      upTo(i) == \A j \in bad : i <= j
      stop == CHOOSE i \in bad : upTo(i)
  IN [verdict |-> IF first # "ok" THEN first
                  ELSE IF bad # {} THEN RowVerdict(blob.table[stop]) ELSE "ok",
      cache |-> [enable |-> blob.enable, v4 |-> pair.v4, v6 |-> pair.v6,
                 tag |-> IF first = "ok" THEN blob.tag ELSE "",
                 table |-> IF first # "ok" THEN << >>
                           ELSE [i \in DOMAIN blob.table |->
                                   IF upTo(i) THEN Copied(blob.table[i]) ELSE NoRow]]]

(***************************************************************************)
(* The cache of a process that has just started, from its data model.  The *)
(* fields of the data model have 256 bytes: the first text that does not   *)
(* fit ends it, and what comes behind stays empty.                         *)
(***************************************************************************)
Loaded(mode, val) == xdns_load_dns_ip(mode, [v4 |-> val["v4"], v6 |-> val["v6"]])

RowLoads(mode, val) ==
  Width[val["mac"]] < STR_SIZE /\ Loaded(mode, val).ok /\ Width[val["tag"]] < STR_SIZE

DefaultLoads(mode, d) ==
  /\ Loaded(mode, d).ok /\ Width[d["tag"]] < STR_SIZE
  /\ Width[d["s4"]] < STR_SIZE /\ Width[d["s6"]] < IPV6_STR_SIZE

RowLoaded(mode, val) ==
  LET macOk == Width[val["mac"]] < STR_SIZE
  IN [f \in RowFields |->
        CASE f = "mac" -> IF macOk THEN val["mac"] ELSE ""
          [] f = "v4" -> IF macOk THEN Loaded(mode, val).v4 ELSE ""
          [] f = "v6" -> IF macOk THEN Loaded(mode, val).v6 ELSE ""
          [] f = "tag" -> IF RowLoads(mode, val) THEN val["tag"] ELSE ""]

init_xdns_cache(mode, flg, d, list) ==
  LET bad == {i \in DOMAIN list : ~ RowLoads(mode, list[i].val)}
  IN [enable |-> flg = "1",
      v4 |-> Loaded(mode, d).v4, v6 |-> Loaded(mode, d).v6,
      tag |-> IF DefaultLoads(mode, d) THEN d["tag"] ELSE "",
      table |-> IF ~ DefaultLoads(mode, d) THEN << >>
                ELSE [i \in DOMAIN list |->
                        IF \A j \in bad : i <= j THEN RowLoaded(mode, list[i].val) ELSE NoRow]]

(***************************************************************************)
(* The worker.  It is                                                      *)
(*   idle     waiting for a document                                       *)
(*   open     about to open dnsmasq_servers.conf for writing               *)
(*   fill     about to write the lines                                     *)
(*   switch   about to compare the flag and to change resolv.conf          *)
(*   save     about to store the flag                                      *)
(*   restart  about to run CosaXDNSInitialize again                        *)
(*   refused  about to report an error to the framework                    *)
(*   done     about to report BLOB_EXEC_SUCCESS                            *)
(***************************************************************************)
Phases == {"idle", "open", "fill", "switch", "save", "restart", "refused", "done"}

Process_XDNS_WebConfigRequest(blob, mode) ==
  LET read == set_xdns_conf(blob, files, mode)
  IN /\ at = "idle" /\ read.verdict # "crash"
     /\ doc' = blob
     /\ bck' = cache
     /\ cache' = read.cache
     /\ at' = CASE read.verdict = "ok" -> "open"
                 [] read.verdict = "invalid" -> "refused"
                 [] read.verdict = "ignored" -> "done"
     /\ prior' = [conf |-> files.conf, flag |-> flag]
     /\ UNCHANGED <<vars, undo>>

\* What apply_XDNS_cache_ToDB is called with.
Source == IF undo THEN bck ELSE cache

DefaultRow(c) == [mac |-> DefaultMac, v4 |-> c.v4, v6 |-> c.v6, tag |-> c.tag]

\* sprintf_s leaves the buffer of 256 bytes empty when a line does not fit
Fitting == {val \in [RowFields -> Text] : Fits(val["mac"], val["v4"], val["v6"], val["tag"])}

Printed(list) ==
  LET kept == Keep(list, Fitting)
  IN [i \in DOMAIN kept |->
        Override(kept[i]["mac"], kept[i]["v4"], kept[i]["v6"], kept[i]["tag"])]

\* Mutant: the loop stops one row early.
LinesButLast(c) == Printed(<<DefaultRow(c)>> \o SubSeq(c.table, 1, Len(c.table) - 1))

\* Mutant: the default line is left to CosaXDNSInitialize.
RowsOnly(c) == Printed(c.table)

PolicyLines(c) == Printed(<<DefaultRow(c)>> \o c.table)

\* Mutant: a rollback that fails is asked for again.
RollbackRetried(success) ==
  IF undo /\ success
  THEN /\ at' = "idle" /\ undo' = FALSE /\ cache' = bck
       /\ doc' = NoBlob /\ prior' = NoPolicy
  ELSE /\ at' = IF success THEN "done" ELSE "refused"
       /\ UNCHANGED <<undo, cache, doc, prior>>

\* apply_XDNS_cache_ToDB returns: an error of rollback_XDNS ends it as well.
Applied(success) ==
  IF undo THEN /\ at' = "idle" /\ undo' = FALSE /\ cache' = bck
               /\ doc' = NoBlob /\ prior' = NoPolicy
          ELSE /\ at' = IF success THEN "done" ELSE "refused"
               /\ UNCHANGED <<undo, cache, doc, prior>>

\* fopen(DNSMASQ_SERVERS_CONF, "w")
OpenConf ==
  /\ at = "open"
  /\ \E opened \in FileOutcomes :
       IF opened
       THEN /\ files' = [files EXCEPT !.confExists = TRUE, !.conf = << >>]
            /\ at' = "fill"
            /\ UNCHANGED <<undo, cache, doc, prior>>
       ELSE UNCHANGED files /\ Applied(FALSE)
  /\ UNCHANGED <<flag, flash, dflt, changed, rows, nextIns, bck>>

\* Mutant: a rollback writes the new policy.
FillFromCache ==
  /\ at = "fill"
  /\ files' = [files EXCEPT !.conf = PolicyLines(cache)]
  /\ at' = "switch"
  /\ UNCHANGED <<flag, flash, dflt, changed, rows, nextIns, cache, bck, undo, doc, prior>>

FillConf ==
  /\ at = "fill"
  /\ files' = [files EXCEPT !.conf = PolicyLines(Source)]
  /\ at' = "switch"
  /\ UNCHANGED <<flag, flash, dflt, changed, rows, nextIns, cache, bck, undo, doc, prior>>

\* Mutant: switching off is left to the next start.
SwitchOnOnly ==
  /\ at = "switch"
  /\ at' = IF Source.enable = (flag = "1") THEN "restart" ELSE "save"
  /\ files' = IF Source.enable /\ flag # "1" THEN SetXdnsConfig(files).fs ELSE files
  /\ UNCHANGED <<flag, flash, dflt, changed, rows, nextIns, cache, bck, undo, doc, prior>>

\* What SetXdnsConfig and UnsetXdnsConfig return is not looked at.
SwitchFiles ==
  /\ at = "switch"
  /\ IF Source.enable = (flag = "1")
     THEN at' = "restart" /\ UNCHANGED files
     ELSE /\ at' = "save"
          /\ files' = IF Source.enable THEN SetXdnsConfig(files).fs ELSE UnsetXdnsConfig(files)
  /\ UNCHANGED <<flag, flash, dflt, changed, rows, nextIns, cache, bck, undo, doc, prior>>

StoreFlag ==
  LET value == IF Source.enable THEN "1" ELSE "0"
  IN /\ at = "save"
     /\ \E outcome \in SyscfgOutcomes :
          /\ flag' = IF outcome = "setFails" THEN flag ELSE value
          /\ flash' = IF outcome = "ok" THEN value ELSE flash
          /\ IF outcome = "ok" THEN at' = "restart" /\ UNCHANGED <<undo, cache, doc, prior>>
             ELSE Applied(FALSE)
     /\ UNCHANGED <<files, dflt, changed, rows, nextIns, bck>>

\* Mutant: ulXDNSNextInstanceNumber keeps its value.
ReinitializeKeepsCounter ==
  LET s == CosaXDNSInitialize(files, flag, dflt)
  IN /\ at = "restart"
     /\ files' = s.fs /\ dflt' = s.dflt /\ rows' = s.rows
     /\ Applied(TRUE)
     /\ UNCHANGED <<flag, flash, changed, nextIns, bck>>

\* The data model is read again from the files, without clearing the default
\* fields before.
Reinitialize ==
  LET s == CosaXDNSInitialize(files, flag, dflt)
  IN /\ at = "restart"
     /\ files' = s.fs /\ dflt' = s.dflt /\ rows' = s.rows /\ nextIns' = s.nextIns
     /\ Applied(TRUE)
     /\ UNCHANGED <<flag, flash, changed, bck>>

\* The framework stores the version of a document that was executed.  The commit
\* of it writes the flag as well, if that is not in flash yet...
Acknowledge ==
  /\ at = "done"
  /\ \E outcome \in SyscfgOutcomes : flash' = IF outcome = "ok" THEN flag ELSE flash
  /\ at' = "idle"
  /\ doc' = NoBlob /\ prior' = NoPolicy
  /\ UNCHANGED <<files, flag, dflt, changed, rows, nextIns, cache, bck, undo>>

\* Mutant: the document is freed before it is rolled back.
RefuseForgets ==
  /\ at = "refused"
  /\ at' = "open"
  /\ undo' = TRUE /\ doc' = NoBlob
  /\ UNCHANGED <<vars, cache, bck, prior>>

\* ... and calls rollback_XDNS for one that was not.
Refuse ==
  /\ at = "refused"
  /\ at' = "open"
  /\ undo' = TRUE
  /\ UNCHANGED <<vars, cache, bck, doc, prior>>

WorkerStep == OpenConf \/ FillConf \/ SwitchFiles \/ StoreFlag \/ Reinitialize
              \/ Acknowledge \/ Refuse

(***************************************************************************)
(* The system.                                                             *)
(***************************************************************************)
WebInit ==
  /\ Init
  /\ \E mode \in RouterModes : cache = init_xdns_cache(mode, flag, dflt, rows)
  /\ bck = clear_xdns_cache
  /\ at = "idle" /\ undo = FALSE /\ doc = NoBlob /\ prior = NoPolicy

\* A handler of the management thread, between two steps of the worker.
Management ==
  /\ "management" \in Interference
  /\ at = "idle" \/ ("overlap" \in Interference /\ at # "fill")
  /\ Handler
  /\ UNCHANGED webVars

WorkerStarts ==
  /\ \E mode \in RouterModes : cache' = init_xdns_cache(mode, flag', dflt', rows')
  /\ bck' = clear_xdns_cache
  /\ at' = "idle" /\ undo' = FALSE /\ doc' = NoBlob /\ prior' = NoPolicy

ProcessStart ==
  /\ at = "idle" \/ "crash" \in Interference
  /\ StartAgain
  /\ WorkerStarts

\* A document without an address ends the process.
NullAddress(blob, mode) ==
  /\ at = "idle"
  /\ set_xdns_conf(blob, files, mode).verdict = "crash"
  /\ Restart
  /\ WorkerStarts

WebNext ==
  \/ \E blob \in Blobs, mode \in RouterModes :
       Process_XDNS_WebConfigRequest(blob, mode) \/ NullAddress(blob, mode)
  \/ WorkerStep
  \/ Management
  \/ ProcessStart

WebSpec == WebInit /\ [][WebNext]_allVars

\* The worker thread is scheduled.
FairWebSpec == WebSpec /\ WF_allVars(WorkerStep)

(***************************************************************************)
(* Properties.                                                             *)
(***************************************************************************)

\* Type invariant of the module.
WebTypeOK ==
  /\ TypeOK
  /\ cache \in Cache /\ bck \in Cache
  /\ at \in Phases /\ undo \in BOOLEAN
  /\ doc \in Blobs \cup {NoBlob}
  /\ at # "idle" => doc \in Blobs
  /\ prior \in [conf : Seq(Line), flag : Flag]

\* With a syscfg that works, resolv.conf carries between two documents exactly
\* the valid lines of the stored policy while XDNS is on, and none while it is
\* off, also when a document was refused and rolled back.
SettledInStep == at = "idle" => FilesInStep

\* When the commit of the flag fails as well, the two files are still in step
\* as long as the stored policy has a valid default line: without one
\* SetXdnsConfig leaves resolv.conf alone, and apply_XDNS_cache_ToDB returns
\* before CosaXDNSInitialize would refresh it.
SettledWithDefault ==
  at = "idle" /\ (\E i \in DOMAIN files.conf : files.conf[i] \in ValidDefaults)
    => FilesInStep

\* When a document is reported as executed its policy is in force: the flag is
\* the one it asks for, the table has its rows and no others, the default pair
\* is its own unless it asked for the device's, and while XDNS is on dnsmasq
\* has been given a line for each of them.
AckedInForce ==
  [][Acknowledge =>
       /\ (flag = "1") = doc.enable
       /\ Len(rows) = Len(doc.table)
       /\ \A i \in DOMAIN rows : \A f \in RowFields : rows[i].val[f] = doc.table[i][f]
       /\ {doc.v4, doc.v6} \subseteq Ip => dflt["v4"] = doc.v4 /\ dflt["v6"] = doc.v6
       /\ files.resolvExists /\ doc.enable => files.overrides = PolicyLines(cache)
    ]_allVars

\* A stored line with words that have room in the cache, and then in the buffer
\* it is written from.
CacheableLine(l) ==
  /\ \A k \in 2..5 : Cacheable(Word(l, k))
  /\ Fits(Word(l, 2), Word(l, 3), Word(l, 4), Word(l, 5))

\* "Callback function to rollback when XDNS blob execution fails": a rollback
\* that returns 0 leaves the valid lines of the stored policy and the flag as
\* they were when the worker took the document, when the cache can hold them.
RollbackRestores ==
  [][/\ undo /\ Reinitialize
     /\ \A i \in DOMAIN prior.conf : CacheableLine(prior.conf[i])
     => /\ Keep(files'.conf, ValidLines) = Keep(prior.conf, ValidLines)
        /\ (flag' = "1") = (prior.flag = "1")]_allVars

NamesBoth(list) ==
  \/ Len(list) >= 1 /\ list[1] \in V6 \cap Compressed
  \/ Len(list) >= 3 /\ list[1] \in V4 /\ list[3] \in V6 \cap Compressed

\* A document with each address in the field of its family, or left to a device
\* in a mode xdns_load_dns_ip knows, whose resolv.conf names both kinds of
\* resolver where xdns_read_dns_ip looks for them; with a MAC in every row, and
\* tags the cache has room for.
Complete(blob) ==
  /\ blob.v4 \in V4 \cup {UseRdkDefault} /\ blob.v6 \in V6 \cup {UseRdkDefault}
  /\ UseRdkDefault \in {blob.v4, blob.v6} =>
       RouterModes \subseteq KnownModes /\ files.resolvExists /\ NamesBoth(Nameservers[files.ns])
  /\ Cacheable(blob.tag)
  /\ \A i \in DOMAIN blob.table :
       blob.table[i].mac # Missing /\ Cacheable(blob.table[i].tag)

\* "copy back to resolv.conf if default entry is not corrupt": such a document,
\* when it switches XDNS on and is reported as executed, leaves a valid default
\* line in resolv.conf, although nobody looks at what SetXdnsConfig returns.
AckedHasDefault ==
  [][Acknowledge /\ doc.enable /\ Complete(doc) /\ files.resolvExists =>
       \E i \in DOMAIN files.overrides : files.overrides[i] \in ValidDefaults]_allVars

\* Such a document that leaves an address to the device and is reported as
\* executed begins the stored policy with a valid default line.
DeviceLoaded ==
  [][Acknowledge /\ UseRdkDefault \in {doc.v4, doc.v6} /\ Complete(doc) =>
       files.conf[1] \in ValidDefaults]_allVars

\* A document the worker has taken is answered, unless the process dies.
BlobEnds == at # "idle" ~> at = "idle"

=============================================================================
