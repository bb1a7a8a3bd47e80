------------------------------ MODULE XdnsDml ------------------------------
(***************************************************************************)
(* The XDNS data model as the management thread drives it: the default     *)
(* resolver pair, the DNSMappingTable, the EnableXDNS flag, and the files  *)
(* they are stored in.  One action per handler, every file operation the   *)
(* handler makes included.  The management thread is alone here, so a      *)
(* handler is one step; XdnsFiles splits the file operations.              *)
(***************************************************************************)
EXTENDS XdnsLines, FiniteSets

CONSTANTS
  TooLong,         \* stands for a string that does not fit its buffer
  DefaultInputs,   \* [field -> what may be written to a default field]
  RowInputs,       \* [field -> what may be written to a table field]
  Lower,           \* tolower() of every word
  Pieces,          \* [word -> what "%63s" of sscanf, again and again, makes of it]
  WanStates,       \* what XDNSDeviceInfo_SetParamBoolValue may read
  SyscfgOutcomes,  \* how syscfg_set and syscfg_commit may end
  BootNameservers, \* what the boot scripts may put in resolv.conf
  BootConf,        \* what /nvram may hold before the first start
  MaxInstance,     \* bound: instance numbers handed out
  MaxStaged        \* bound: fields of one object changed and not applied

DefaultFields == {"v4", "v6", "s4", "s6", "tag"}
RowFields == {"mac", "v4", "v6", "tag"}

ASSUME DmlAssumption ==
  /\ TooLong \notin Text
  /\ DefaultInputs \in [DefaultFields -> SUBSET (Text \cup {TooLong})]
  /\ RowInputs \in [RowFields -> SUBSET (Text \cup {TooLong})]
  /\ Lower \in [Text -> Text]
  /\ Pieces \in [Token -> Seq(Token)]
  /\ \A w \in Token :
       /\ Width[w] < 64 => Pieces[w] = <<w>>
       /\ \A i \in DOMAIN Pieces[w] :
            Width[Pieces[w][i]] < 64 /\ Parts[Pieces[w][i]] \subseteq Parts[w]
  /\ Width["dnsoverride"] = 11
  /\ WanStates \subseteq {"erouter", "lte"}
  /\ SyscfgOutcomes \subseteq {"ok", "setFails", "commitFails"}
  /\ BootNameservers \subseteq [v4 : V4 \cup {""}, v6 : V6 \cup {""}]
  /\ BootConf \subseteq Seq(Line)
  /\ MaxInstance \in Nat /\ MaxStaged \in Nat

VARIABLES
  files,     \* dnsmasq_servers.conf and resolv.conf
  flag,      \* X_RDKCENTRAL-COM_XDNS as syscfg_get returns it
  flash,     \* the same as syscfg_commit last wrote it
  dflt,      \* the Default... fields of COSA_DATAMODEL_XDNS
  changed,   \* those whose ...Changed is TRUE
  rows,      \* XDNSDeviceList
  nextIns    \* ulXDNSNextInstanceNumber

vars == <<files, flag, flash, dflt, changed, rows, nextIns>>

Row == [ins : Nat \ {0}, val : [RowFields -> Text], changed : SUBSET RowFields]

\* Mutant: the length is not checked.
StoredWhole(v) == v

\* strcpy_s empties the destination when the string does not fit
Stored(v) == IF v = TooLong THEN "" ELSE v

(***************************************************************************)
(* Start-up: CosaXDNSInitialize.                                           *)
(***************************************************************************)

\* Take what is missing from the nameservers, forget the secondary pair, and
\* append a default line when both addresses are there.
CreateDnsmasqServerConf(fs, flg, d) ==
  LET new == [d EXCEPT !["v4"]  = IF @ \in V4 THEN @ ELSE fs.ns.v4,
                       !["v6"]  = IF @ \in V6 THEN @ ELSE fs.ns.v6,
                       !["s4"]  = "",
                       !["s6"]  = "",
                       !["tag"] = IF @ = "" THEN "empty" ELSE @]
      lines == Entry(DefaultMac, new["v4"], new["v6"], new["tag"])
  IN IF ~ fs.resolvExists THEN [fs |-> fs, dflt |-> d]
     ELSE IF new["v4"] = "" \/ new["v6"] = "" THEN [fs |-> fs, dflt |-> new]
     ELSE [fs |-> RefreshResolvConfEntry(
                    AppendDnsmasqConfEntry(fs, lines), flg),
           dflt |-> new]

\* The first usable word becomes the primary, every later one overwrites the
\* secondary; a line whose IPv4 word has no dot is not read any further.
DefaultsIn(conf, d) ==
  LET four == Keep(Keep(conf, Mentioning(DefaultMac)), WithWord(3, Dotted))
      six  == Keep(four, WithWord(4, Coloned))
      tags == Keep(six, WithWord(5, Token))
  IN [f \in DefaultFields |->
        CASE f = "v4" /\ four # << >> -> Word(four[1], 3)
          [] f = "s4" /\ Len(four) > 1 -> Word(four[Len(four)], 3)
          [] f = "v6" /\ six # << >> -> Word(six[1], 4)
          [] f = "s6" /\ Len(six) > 1 -> Word(six[Len(six)], 4)
          [] f = "tag" /\ tags # << >> -> Word(tags[Len(tags)], 5)
          [] OTHER -> d[f]]

\* XDNS_ENTRY_FORMAT: a word of 64 or more characters is read as several, and
\* what comes behind the fifth is not read.
ScannedUpTo(l) ==
  LET F[i \in 0..Len(l)] == IF i = 0 THEN << >> ELSE F[i-1] \o Pieces[l[i]]
  IN F

Scanned(l) == ScannedUpTo(l)[Len(l)]

\* every line that is not for the default and has four words (sscanf >= 4)
DeviceLines == {l \in Line \ Mentioning(DefaultMac) : Len(Scanned(l)) >= 4}

\* FillEntryInList for each of them
RowsIn(conf) ==
  LET device == Keep(conf, DeviceLines)
      word(i, k) == Word(Scanned(device[i]), k)
  IN [i \in 1..Len(device) |->
        [ins |-> i,
         val |-> [f \in RowFields |->
                    CASE f = "mac" -> word(i, 2)
                      [] f = "v4"  -> word(i, 3)
                      [] f = "v6"  -> word(i, 4)
                      [] f = "tag" -> word(i, 5)],
         changed |-> {}]]

NoDefaults == [f \in DefaultFields |-> ""]

\* Mutant: resolv.conf is left alone at start-up.
StartNotRefreshed(fs, flg, d) ==
  IF fs.confExists THEN [fs |-> fs, dflt |-> DefaultsIn(fs.conf, d)]
  ELSE CreateDnsmasqServerConf(fs, flg, d)

CosaDmlGetSelfHealCfg(fs, flg, d) ==
  IF fs.confExists
  THEN [fs |-> RefreshResolvConfEntry(fs, flg), dflt |-> DefaultsIn(fs.conf, d)]
  ELSE CreateDnsmasqServerConf(fs, flg, d)

(***************************************************************************)
(* The data model after a start with the files fs and the flag flg.  d is  *)
(* what the default fields hold before: they are not cleared.              *)
(***************************************************************************)
CosaXDNSInitialize(fs, flg, d) ==
  LET s == CosaDmlGetSelfHealCfg(fs, flg, d)
      r == IF fs.confExists THEN RowsIn(fs.conf) ELSE << >>
  IN [fs |-> s.fs, dflt |-> s.dflt, rows |-> r, nextIns |-> Len(r) + 1]

BootFiles(fs, ns, here) ==
  [fs EXCEPT !.resolvExists = here, !.ns = ns, !.overrides = << >>]

Init ==
  \E conf \in BootConf, confHere \in BOOLEAN, ns \in BootNameservers, here \in BOOLEAN :
    /\ confHere \/ conf = << >>
    /\ flag \in Flag
    /\ flash = flag
    /\ changed = {}
    /\ LET s == CosaXDNSInitialize(
                  [confExists |-> confHere, conf |-> conf, resolvExists |-> here,
                   ns |-> ns, overrides |-> << >>], flag, NoDefaults)
       IN /\ files = s.fs
          /\ dflt = s.dflt
          /\ rows = s.rows
          /\ nextIns = s.nextIns

StartOn(fs) ==
  LET s == CosaXDNSInitialize(fs, flag', NoDefaults)
  IN /\ files' = s.fs
     /\ dflt' = s.dflt
     /\ changed' = {}
     /\ rows' = s.rows
     /\ nextIns' = s.nextIns

\* The process died and was started again; the files are as it left them.
Restart ==
  /\ UNCHANGED <<flag, flash>>
  /\ StartOn(files)

\* The device rebooted: scripts write a new resolv.conf, syscfg is read
\* from flash again.
Reboot ==
  \E ns \in BootNameservers, here \in BOOLEAN :
    /\ flag' = flash
    /\ UNCHANGED flash
    /\ StartOn(BootFiles(files, ns, here))

(***************************************************************************)
(* Device.DeviceInfo: XDNSDeviceInfo_SetParamBoolValue.                    *)
(***************************************************************************)
SaveFlag(value) ==
  \E outcome \in SyscfgOutcomes :
    /\ flag' = IF outcome = "setFails" THEN flag ELSE value
    /\ flash' = IF outcome = "ok" THEN value ELSE flash

\* On a WAN that is not erouter0 only the flag is stored.
EnableXdns(wan) ==
  LET made == IF files.confExists THEN [fs |-> files, dflt |-> dflt]
              ELSE CreateDnsmasqServerConf(files, flag, dflt)
      set  == SetXdnsConfig(made.fs)
  IN /\ flag # "1"
     /\ \/ /\ wan = "erouter"
           /\ files' = set.fs
           /\ dflt' = made.dflt
           /\ IF set.result THEN SaveFlag("1") ELSE UNCHANGED <<flag, flash>>
        \/ /\ wan = "lte"
           /\ SaveFlag("1")
           /\ UNCHANGED <<files, dflt>>
     /\ UNCHANGED <<changed, rows, nextIns>>

DisableXdns ==
  /\ flag # "0"
  /\ files' = UnsetXdnsConfig(files)
  /\ SaveFlag("0")
  /\ UNCHANGED <<dflt, changed, rows, nextIns>>

(***************************************************************************)
(* X_RDKCENTRAL-COM_XDNS: the default resolver pair.                       *)
(***************************************************************************)
XDNS_SetParamStringValue(f, v) ==
  /\ Cardinality(changed \cup {f}) <= MaxStaged
  /\ dflt' = [dflt EXCEPT ![f] = Stored(v)]
  /\ changed' = changed \cup {f}
  /\ UNCHANGED <<files, flag, flash, rows, nextIns>>

Accepted(f) == CASE f \in {"v4", "s4"} -> V4
                 [] f \in {"v6", "s6"} -> V6
                 [] f = "mac" -> Mac
                 [] f = "tag" -> Text

\* Each changed field overwrites the verdict, so the last one judged decides.
LastVerdict(order, judged, val, none) ==
  LET at == {i \in DOMAIN order : order[i] \in judged}
  IN IF at = {} THEN none
     ELSE \E i \in at : /\ \A j \in at : j <= i
                        /\ val[order[i]] \in Accepted(order[i])

XDNS_Validate ==
  /\ \A f \in changed \cap {"v4", "v6"} : dflt[f] # ""
  /\ LastVerdict(<<"v4", "v6", "s4", "s6">>, {f \in changed : dflt[f] # ""}, dflt, TRUE)

\* Mutant: the secondary line is written first.
SecondaryFirst ==
  LET entry(a, b) == Entry(DefaultMac, dflt[a], dflt[b], dflt["tag"])
  IN (IF dflt["s4"] # "" /\ dflt["s6"] # "" THEN entry("s4", "s6") ELSE << >>)
     \o entry("v4", "v6")

DefaultEntries ==
  LET entry(a, b) == Entry(DefaultMac, dflt[a], dflt[b], dflt["tag"])
  IN entry("v4", "v6")
     \o (IF dflt["s4"] # "" /\ dflt["s6"] # "" THEN entry("s4", "s6") ELSE << >>)

XDNS_Commit ==
  /\ IF dflt["v4"] # "" /\ dflt["v6"] # ""
     THEN /\ files' = ReplaceDnsmasqConfEntry(files, flag, DefaultMac, DefaultEntries)
          /\ UNCHANGED dflt
     ELSE LET made == CreateDnsmasqServerConf(files, flag, dflt)
          IN files' = made.fs /\ dflt' = made.dflt
  /\ changed' = {}

\* The four words are restored one after the other, primary line p first; the
\* first that is missing or looks wrong ends it, and with a line missing
\* nothing is restored.  No ...Changed is ever reset.
XDNS_Rollback ==
  LET found == GetDnsMasqFileEntry(files, DefaultMac)
      p == found[1]
      s == found[MAX_XDNS_SERV]
      ok1 == Len(found) >= MAX_XDNS_SERV /\ p \in WithWord(3, Dotted)
      ok2 == ok1 /\ s \in WithWord(3, Dotted)
      ok3 == ok2 /\ p \in WithWord(4, Coloned)
      ok4 == ok3 /\ s \in WithWord(4, Coloned)
  IN /\ dflt' = [f \in DefaultFields |->
                   CASE f = "v4" /\ ok1 -> Word(p, 3)
                     [] f = "s4" /\ ok2 -> Word(s, 3)
                     [] f = "v6" /\ ok3 -> Word(p, 4)
                     [] f = "s6" /\ ok4 -> Word(s, 4)
                     [] f = "tag" /\ ok4 -> Word(p, 5)
                     [] OTHER -> dflt[f]]
     /\ UNCHANGED <<files, changed>>

\* The framework commits what validates and rolls back what does not.
ApplyDefaults ==
  /\ changed # {}
  /\ IF XDNS_Validate THEN XDNS_Commit ELSE XDNS_Rollback
  /\ UNCHANGED <<flag, flash, rows, nextIns>>

\* GetDnsMasqFileEntry copies a third default line behind the two entries the
\* caller has room for: the process may not survive it.
RollbackOverrun ==
  /\ changed # {} /\ ~ XDNS_Validate
  /\ Len(GetDnsMasqFileEntry(files, DefaultMac)) > MAX_XDNS_SERV
  /\ Restart

(***************************************************************************)
(* X_RDKCENTRAL-COM_XDNS.DNSMappingTable.{i}.                              *)
(***************************************************************************)
EmptyRow(n) == [ins |-> n, val |-> [f \in RowFields |-> ""], changed |-> {}]

\* CosaSListPushEntryByInsNum: in front of the first larger instance number
Pushed(list, row) ==
  LET before == {i \in DOMAIN list : list[i].ins <= row.ins}
      larger == {i \in DOMAIN list : row.ins < list[i].ins}
      at == IF larger = {} THEN Len(list) + 1
            ELSE CHOOSE i \in larger : \A j \in larger : i <= j
  IN [i \in 1..Len(list) + 1 |->
        IF i < at THEN list[i] ELSE IF i = at THEN row ELSE list[i-1]]

DNSMappingTable_AddEntry ==
  /\ nextIns <= MaxInstance
  /\ rows' = Pushed(rows, EmptyRow(nextIns))
  /\ nextIns' = nextIns + 1
  /\ UNCHANGED <<files, flag, flash, dflt, changed>>

\* Mutant: the instance number is given back.
DelReusesNumber(i) ==
  /\ rows' = SubSeq(rows, 1, i-1) \o SubSeq(rows, i+1, Len(rows))
  /\ nextIns' = nextIns - 1
  /\ UNCHANGED <<files, flag, flash, dflt, changed>>

\* The stored line stays: ReplaceDnsmasqConfEntry(mac, NULL, 1) returns early.
DNSMappingTable_DelEntry(i) ==
  /\ rows' = SubSeq(rows, 1, i-1) \o SubSeq(rows, i+1, Len(rows))
  /\ UNCHANGED <<files, flag, flash, dflt, changed, nextIns>>

\* A MAC is stored in lower case, and only while the row has none.
DNSMappingTable_SetParamStringValue(i, f, v) ==
  LET row == rows[i]
      new == IF f = "mac" THEN Lower[Stored(v)] ELSE Stored(v)
  IN /\ f = "mac" => row.val["mac"] = ""
     /\ Cardinality(row.changed \cup {f}) <= MaxStaged
     /\ rows' = [rows EXCEPT
                   ![i].val = [@ EXCEPT ![f] = new],
                   ![i].changed = IF v = TooLong THEN @ ELSE @ \cup {f}]
     /\ UNCHANGED <<files, flag, flash, dflt, changed, nextIns>>

\* Mutant: only an empty MAC is refused.
EmptyMacRefused(row) == "mac" \in row.changed /\ row.val["mac"] = ""

\* A new MAC that is empty, the default one or already stored is refused.
MacRefused(row) ==
  /\ "mac" \in row.changed
  /\ \/ row.val["mac"] \in {"", DefaultMac}
     \/ GetDnsMasqFileEntry(files, row.val["mac"]) # << >>

DNSMappingTable_Validate(row) ==
  /\ ~ MacRefused(row)
  /\ \A f \in row.changed \cap {"v4", "v6"} : row.val[f] # ""
  /\ LastVerdict(<<"mac", "v4", "v6", "tag">>, row.changed, row.val, FALSE)

DNSMappingTable_Commit(i) ==
  LET val == rows[i].val
  IN /\ files' = ReplaceDnsmasqConfEntry(files, flag, val["mac"],
                   Entry(val["mac"], val["v4"], val["v6"], val["tag"]))
     /\ rows' = [rows EXCEPT ![i].changed = {}]

\* Validate has emptied a refused MAC.  Without a stored line the changed
\* addresses and tag become empty (the MAC stays); with one they are read from
\* it, as far as its words look right.
RolledBack(row) ==
  LET mac == IF MacRefused(row) THEN "" ELSE row.val["mac"]
      found == GetDnsMasqFileEntry(files, mac)
      line == found[1]
      ok1 == found # << >> /\ line \in WithWord(3, Dotted)
      ok2 == ok1 /\ line \in WithWord(4, Coloned)
      val == [f \in RowFields |->
        CASE f = "mac" -> mac
          [] f # "mac" /\ f \in row.changed /\ found = << >> -> ""
          [] f = "v4" /\ f \in row.changed /\ ok1 -> Word(line, 3)
          [] f = "v6" /\ ok2 -> Word(line, 4)
          [] f = "tag" /\ f \in row.changed /\ ok2 -> Word(line, 5)
          [] OTHER -> row.val[f]]
  IN [row EXCEPT !.val = val,
                 !.changed = IF found = << >> \/ ok2 THEN {} ELSE @]

\* The same helper, called with room for one line: by Validate for a new MAC,
\* before it compares it with the default one, and by Rollback for any.
RowOverrun(i) ==
  /\ rows[i].changed # {}
  /\ "mac" \in rows[i].changed \/ ~ DNSMappingTable_Validate(rows[i])
  /\ Len(GetDnsMasqFileEntry(files, rows[i].val["mac"])) > 1
  /\ Restart

ApplyRow(i) ==
  /\ rows[i].changed # {}
  /\ IF DNSMappingTable_Validate(rows[i])
     THEN DNSMappingTable_Commit(i)
     ELSE /\ rows' = [rows EXCEPT ![i] = RolledBack(@)]
          /\ UNCHANGED files
  /\ UNCHANGED <<flag, flash, dflt, changed, nextIns>>

(***************************************************************************)
(* The system.                                                             *)
(***************************************************************************)
TableStep ==
  \/ DNSMappingTable_AddEntry
  \/ \E i \in DOMAIN rows :
       \/ DNSMappingTable_DelEntry(i)
       \/ \E f \in RowFields : \E v \in RowInputs[f] : DNSMappingTable_SetParamStringValue(i, f, v)
       \/ ApplyRow(i)

\* One call of the management thread.
Handler ==
  \/ \E wan \in WanStates : EnableXdns(wan)
  \/ DisableXdns
  \/ \E f \in DefaultFields : \E v \in DefaultInputs[f] : XDNS_SetParamStringValue(f, v)
  \/ ApplyDefaults
  \/ TableStep

\* One end of the process, and its new start.
StartAgain == RollbackOverrun \/ (\E i \in DOMAIN rows : RowOverrun(i)) \/ Restart \/ Reboot

Next == Handler \/ StartAgain

Spec == Init /\ [][Next]_vars

(***************************************************************************)
(* Properties.                                                             *)
(***************************************************************************)

\* Type invariant of the module.
TypeOK ==
  /\ files \in Files
  /\ flag \in Flag /\ flash \in Flag
  /\ dflt \in [DefaultFields -> Text]
  /\ changed \subseteq DefaultFields
  /\ rows \in Seq(Row)
  /\ nextIns \in Nat \ {0}

\* While XDNS is enabled resolv.conf carries exactly the valid lines of the
\* stored policy, and otherwise none: every handler that changes the policy
\* or the flag ends with the two files in step.
FilesInStep ==
  files.resolvExists =>
    files.overrides = IF flag = "1" THEN Keep(files.conf, ValidLines) ELSE << >>

\* On a WAN where XDNS is only noted in the flag resolv.conf may have no
\* override lines until the next commit, but never those of an older policy
\* and never any while the flag is off.
NeverStale ==
  files.resolvExists /\ files.overrides # << >> =>
    flag = "1" /\ files.overrides = Keep(files.conf, ValidLines)

\* Whatever was stored or failed to be stored, dnsmasq is never given an
\* override line with an address inet_pton refuses.
OnlyValidOverrides ==
  \A i \in DOMAIN files.overrides : files.overrides[i] \in ValidLines

\* XDNSDeviceList is sorted by instance number, without duplicates, and the next
\* number to be given is above those of the rows that are there.
InstanceOrder ==
  /\ \A i, j \in DOMAIN rows : i < j => rows[i].ins < rows[j].ins
  /\ \A i \in DOMAIN rows : rows[i].ins < nextIns

\* A deletion never gives its number back: only a start takes the counter back,
\* and otherwise a row that was not there before has a number from the counter,
\* so that no number names two devices one after the other.
NumbersNotReused ==
  [][\/ /\ nextIns' >= nextIns
        /\ \A i \in DOMAIN rows' :
             \/ nextIns <= rows'[i].ins /\ rows'[i].ins < nextIns'
             \/ \E j \in DOMAIN rows : rows[j].ins = rows'[i].ins
     \/ StartAgain]_vars

\* At most one stored line per device: the readers of a table row have room
\* for one match (GetDnsMasqFileEntry with a buffer of one entry).
OneLinePerDevice ==
  \A i, j \in DOMAIN files.conf :
    /\ Word(files.conf[i], 2) = Word(files.conf[j], 2)
    /\ Word(files.conf[i], 2) # DefaultMac
    => i = j

\* strstr finds no other MAC in the line than its own.
OwnLine(l) ==
  \A m \in {DefaultMac} \cup {rows[i].val["mac"] : i \in DOMAIN rows} :
    l \in Mentioning(m) => m = l[2]

\* What the data model has for mac is longer than the entry it is written to.
NoRoom(mac) ==
  \/ mac = DefaultMac /\ DefaultEntries = << >>
  \/ \E i \in DOMAIN rows :
       LET val == rows[i].val
       IN val["mac"] = mac /\ ~ Fits(mac, val["v4"], val["v6"], val["tag"])

\* A device, or the default, that has a valid stored line with no other MAC in
\* it keeps a stored line in every step, unless the one to replace it is too
\* long: no handler forgets a policy it was not asked to change.
PolicyKept ==
  [][\A i \in DOMAIN files.conf :
       files.conf[i] \in ValidLines /\ OwnLine(files.conf[i]) =>
         \/ \E j \in DOMAIN files'.conf : Word(files'.conf[j], 2) = files.conf[i][2]
         \/ NoRoom(files.conf[i][2])]_vars

\* On erouter0 the enable handler switches XDNS on only with a valid default
\* line in resolv.conf, without which devices that have no line of their own
\* would not be redirected.  (On another WAN it stores the flag alone.)
EnabledWithDefault ==
  [][EnableXdns("erouter") /\ flag' = "1" =>
       \E i \in DOMAIN files'.overrides : files'.overrides[i] \in ValidDefaults]_vars

\* No operation on the device table changes the stored default lines.
TableKeepsDefaults ==
  [][TableStep => Keep(files'.conf, Mentioning(DefaultMac))
                    = Keep(files.conf, Mentioning(DefaultMac))]_vars

\* With nothing staged, a complete primary pair that the data model reports,
\* and whose entry the tag leaves room for, is the one a restart would read
\* back from the stored policy, and so is such a secondary pair next to it.
ReportedIsStored ==
  LET stored == DefaultsIn(files.conf, NoDefaults)
      whole(f, g) == /\ dflt[f] # "" /\ dflt[g] # ""
                     /\ Fits(DefaultMac, dflt[f], dflt[g], dflt["tag"])
  IN changed = {} /\ whole("v4", "v6") =>
       /\ dflt["v4"] = stored["v4"] /\ dflt["v6"] = stored["v6"]
       /\ whole("s4", "s6") =>
            dflt["s4"] = stored["s4"] /\ dflt["s6"] = stored["s6"]

\* "Remove entery from the database" (DNSMappingTable_DelEntry): with the row
\* the stored line of the device goes.
DeletedDeviceGone ==
  [][\A i \in DOMAIN rows :
       DNSMappingTable_DelEntry(i) =>
         GetDnsMasqFileEntry(files', rows[i].val["mac"]) = << >>]_vars

\* "skip entry that match the mac addr, copy the rest to BAK": applying a row
\* leaves the stored lines of every device as they are whose MAC the row's is
\* no part of.  (Where no address or tag holds a MAC: strstr looks there too.)
RestCopied ==
  [][\A i \in DOMAIN rows : ApplyRow(i) =>
       \A k \in DOMAIN files.conf :
         Len(files.conf[k]) > 1 /\ rows[i].val["mac"] \notin Parts[files.conf[k][2]] =>
           \E j \in DOMAIN files'.conf : files'.conf[j] = files.conf[k]]_vars

\* There are at most MAX_XDNS_SERV default lines, a primary and a secondary.
AtMostTwoDefaults == Len(Keep(files.conf, Mentioning(DefaultMac))) <= MAX_XDNS_SERV

(***************************************************************************)
(* The store that the data model implements: the policy is the valid lines *)
(* of dnsmasq_servers.conf.                                                *)
(***************************************************************************)
Store == INSTANCE XdnsStore WITH policy <- Keep(files.conf, ValidLines),
                                 on     <- flag = "1",
                                 here   <- files.resolvExists,
                                 seen   <- files.overrides

\* Every handler, start and reboot is one step of the store, or none: where
\* syscfg works and erouter0 is the WAN, no call loses a line it was not asked
\* to replace, XDNS goes on only with a default line, and dnsmasq sees exactly
\* the stored policy.
ImplementsStore == Store!StoreSpec

=============================================================================
