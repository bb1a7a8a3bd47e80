-------------------------- MODULE XdnsStoreProofs --------------------------
(***************************************************************************)
(* The data model implements XdnsStore where syscfg works and erouter0 is  *)
(* the WAN: every handler, start and reboot is one step of the store.      *)
(***************************************************************************)
EXTENDS XdnsDmlProofs

-----------------------------------------------------------------------------
(***************************************************************************)
(* What the store's operators mean for the files.                          *)
(***************************************************************************)
Policy(fs) == Keep(fs.conf, ValidLines)

\* The store sees the same lines, and selects them in the same way.
LEMMA StoreKeep ==
  ASSUME NEW s, NEW S
  PROVE  Store!Keep(s, S) = Keep(s, S)
BY Zenon DEF Store!Keep, Store!KeepUpTo, Keep, KeepUpTo

LEMMA StoreValid == Store!ValidLines = ValidLines /\ Store!Line = Line
BY Zenon DEF Store!ValidLines, ValidLines, Store!WithWord, WithWord, Store!Line, Line

LEMMA StoreMentioning ==
  ASSUME NEW mac
  PROVE  Store!Mentioning(mac) = Mentioning(mac)
BY StoreValid, Zenon DEF Store!Mentioning, Mentioning

LEMMA StoreLinesOf ==
  ASSUME NEW mac
  PROVE  Store!LinesOf(mac) = ValidLines \cap {l \in Line : l[2] = mac}
BY StoreValid, Zenon DEF Store!LinesOf

\* A sequence of valid lines for mac may follow.
LEMMA StoreExtends ==
  ASSUME NEW mac, NEW p \in Seq(Line), NEW more \in Seq(ValidLines \cap EntriesOf(mac))
  PROVE  Store!Extends(p, p \o more, mac)
<1>1. ValidLines \cap EntriesOf(mac) \subseteq Line
  BY DEF EntriesOf
<1>2. more \in Seq(Line)
  BY <1>1, SeqMonotonic
<1>3. /\ Len(p) \in Nat /\ Len(more) \in Nat
      /\ Len(p \o more) = Len(p) + Len(more)
      /\ DOMAIN p = 1..Len(p)
      /\ \A i \in 1..Len(p) : (p \o more)[i] = p[i]
      /\ \A i \in Len(p)+1 .. Len(p) + Len(more) : (p \o more)[i] = more[i - Len(p)]
  BY <1>2, ConcatProperties, LenProperties
<1>4. ASSUME NEW i \in Len(p)+1 .. Len(p \o more)
      PROVE  (p \o more)[i] \in Store!LinesOf(mac)
  <2>1. i - Len(p) \in 1..Len(more) /\ (p \o more)[i] = more[i - Len(p)]
    BY <1>3
  <2>2. more[i - Len(p)] \in ValidLines \cap EntriesOf(mac)
    BY <2>1, ElementOfSeq
  <2> QED
    BY <2>1, <2>2, StoreLinesOf DEF EntriesOf
<1> QED
  BY <1>3, <1>4 DEF Store!Extends

\* What dnsmasq is given follows from the rest of the state.
Mirror(fs, flg) ==
  fs.overrides = IF flg = "1" /\ fs.resolvExists THEN Policy(fs) ELSE << >>

LEMMA StoreSeen ==
  ASSUME Mirror(files', flag')
  PROVE  Store!Seen
BY StoreKeep, StoreValid, Zenon DEF Mirror, Policy, Store!Seen

-----------------------------------------------------------------------------
(***************************************************************************)
(* What the helpers do to the policy.                                      *)
(***************************************************************************)
LEMMA PolicyType ==
  ASSUME NEW fs \in Files
  PROVE  Policy(fs) \in Seq(ValidLines) /\ Policy(fs) \in Seq(Line)
BY KeepValid, KeepSub DEF Policy, Files

LEMMA PolicyItself ==
  ASSUME NEW fs \in Files, NEW mac
  PROVE  Store!Extends(Policy(fs), Policy(fs), mac)
<1>1. << >> \in Seq(ValidLines \cap EntriesOf(mac))
  BY EmptySeq
<1>2. Policy(fs) \in Seq(Line) /\ Policy(fs) \o << >> = Policy(fs)
  BY PolicyType, ConcatEmptySeq
<1>3. Store!Extends(Policy(fs), Policy(fs) \o << >>, mac)
  BY <1>1, <1>2, StoreExtends
<1> QED
  BY <1>2, <1>3

\* Lines written for mac add valid lines for mac.
LEMMA PolicyOfJoined ==
  ASSUME NEW mac, NEW conf \in Seq(Line), NEW lines \in Seq(EntriesOf(mac))
  PROVE  Store!Extends(Keep(conf, ValidLines), Keep(conf \o lines, ValidLines), mac)
<1> DEFINE p == Keep(conf, ValidLines)
           more == Keep(lines, ValidLines)
<1>1. more \in Seq(EntriesOf(mac) \cap ValidLines)
  BY KeepType
<1>2. EntriesOf(mac) \cap ValidLines = ValidLines \cap EntriesOf(mac)
  OBVIOUS
<1>3. more \in Seq(ValidLines \cap EntriesOf(mac))
  BY <1>1, <1>2
<1>4. p \in Seq(Line)
  BY KeepSub
<1>5. lines \in Seq(Line)
  BY EntriesAreLines
<1>6. Keep(conf \o lines, ValidLines) = p \o more
  BY <1>5, KeepConcat
<1> HIDE DEF p, more
<1>7. Store!Extends(p, p \o more, mac)
  BY <1>3, <1>4, StoreExtends
<1> QED
  BY <1>6, <1>7 DEF p

LEMMA RefreshKeepsPolicy ==
  ASSUME NEW fs \in Files, NEW flg
  PROVE  /\ RefreshResolvConfEntry(fs, flg).conf = fs.conf
         /\ RefreshResolvConfEntry(fs, flg).resolvExists = fs.resolvExists
BY DEF RefreshResolvConfEntry, Files

LEMMA AppendPolicy ==
  ASSUME NEW mac, NEW fs \in Files, NEW lines \in Seq(EntriesOf(mac)), NEW flg
  PROVE  LET new == RefreshResolvConfEntry(AppendDnsmasqConfEntry(fs, lines), flg)
         IN /\ Store!Extends(Policy(fs), Policy(new), mac)
            /\ new.resolvExists = fs.resolvExists
<1> DEFINE appended == AppendDnsmasqConfEntry(fs, lines)
<1>1. lines \in Seq(Line) /\ fs.conf \in Seq(Line)
  BY EntriesAreLines DEF Files
<1>2. appended \in Files
  BY <1>1, AppendType
<1>3. appended.conf = fs.conf \o lines /\ appended.resolvExists = fs.resolvExists
  BY DEF AppendDnsmasqConfEntry, Files
<1>4. Store!Extends(Keep(fs.conf, ValidLines), Keep(fs.conf \o lines, ValidLines), mac)
  BY <1>1, PolicyOfJoined
<1> HIDE DEF appended
<1>5. /\ RefreshResolvConfEntry(appended, flg).conf = fs.conf \o lines
      /\ RefreshResolvConfEntry(appended, flg).resolvExists = fs.resolvExists
  BY <1>2, <1>3, RefreshKeepsPolicy
<1> QED
  BY <1>4, <1>5, Zenon DEF Policy, appended

LEMMA ReplacePolicy ==
  ASSUME NEW mac \in Token, NEW fs \in Files, NEW lines \in Seq(EntriesOf(mac)), NEW flg
  PROVE  LET new == ReplaceDnsmasqConfEntry(fs, flg, mac, lines)
         IN /\ Store!Extends(Keep(Policy(fs), Line \ Mentioning(mac)), Policy(new), mac)
            /\ new.resolvExists = fs.resolvExists
<1> DEFINE others == Keep(fs.conf, Line \ Mentioning(mac))
           kept == [fs EXCEPT !.conf = others]
           new == ReplaceDnsmasqConfEntry(fs, flg, mac, lines)
<1>1. fs.conf \in Seq(Line) /\ others \in Seq(Line)
  BY KeepSub DEF Files
<1>2. Keep(Policy(fs), Line \ Mentioning(mac)) = Keep(others, ValidLines)
  BY <1>1, KeepCommute DEF Policy
<1>3. mac # ""
  BY WordsAssumption
<1>4. new = RefreshResolvConfEntry(AppendDnsmasqConfEntry(kept, lines), flg)
  BY <1>3 DEF ReplaceDnsmasqConfEntry
<1> HIDE DEF others
<1>5. kept \in Files /\ kept.conf = others /\ kept.resolvExists = fs.resolvExists
  BY <1>1 DEF Files
<1> HIDE DEF kept, new
<1>6. Store!Extends(Policy(kept), Policy(new), mac) /\ new.resolvExists = kept.resolvExists
  BY <1>4, <1>5, AppendPolicy, Zenon
<1> QED
  BY <1>2, <1>5, <1>6, Zenon DEF Policy, new

LEMMA CreatePolicy ==
  ASSUME NEW fs \in Files, NEW flg, NEW d \in Defaults
  PROVE  LET new == CreateDnsmasqServerConf(fs, flg, d).fs
         IN /\ Store!Extends(Policy(fs), Policy(new), DefaultMac)
            /\ new.resolvExists = fs.resolvExists
<1> DEFINE new == CreateDnsmasqServerConf(fs, flg, d).fs
<1>1. \/ new = fs
      \/ \E lines \in Seq(EntriesOf(DefaultMac)) :
           new = RefreshResolvConfEntry(AppendDnsmasqConfEntry(fs, lines), flg)
  BY CreateCases
<1> HIDE DEF new
<1>2. CASE new = fs
  BY <1>2, PolicyItself DEF new
<1>3. ASSUME NEW lines \in Seq(EntriesOf(DefaultMac)),
             new = RefreshResolvConfEntry(AppendDnsmasqConfEntry(fs, lines), flg)
      PROVE  Store!Extends(Policy(fs), Policy(new), DefaultMac) /\ new.resolvExists = fs.resolvExists
  BY <1>3, AppendPolicy, Zenon
<1> QED
  BY <1>1, <1>2, <1>3, Zenon DEF new

\* Only lines are dropped that are not part of the policy.
LEMMA SetPolicy ==
  ASSUME NEW fs \in Files
  PROVE  LET set == SetXdnsConfig(fs)
         IN /\ Policy(set.fs) = Policy(fs) /\ set.fs.resolvExists = fs.resolvExists
            /\ set.result => fs.resolvExists /\ Store!HasDefault(Policy(set.fs))
<1> DEFINE valid == Keep(fs.conf, ValidLines)
           set == SetXdnsConfig(fs)
<1>1. valid \in Seq(ValidLines) /\ valid \in Seq(Line)
  BY KeepValid, KeepSub DEF Files
<1>2. Keep(valid, ValidLines) = valid
  BY <1>1, KeepAll
<1>3. set.fs.conf \in {fs.conf, valid} /\ set.fs.resolvExists = fs.resolvExists
  BY DEF SetXdnsConfig, Files
<1>4. Policy(set.fs) = Policy(fs)
  BY <1>2, <1>3 DEF Policy
<1>5. set.result => fs.resolvExists /\ Keep(valid, ValidDefaults) # << >>
  BY DEF SetXdnsConfig
<1>6. ASSUME set.result PROVE Store!HasDefault(Policy(fs))
  <2> HIDE DEF valid
  <2>1. \E i \in DOMAIN valid : valid[i] \in ValidDefaults
    BY <1>1, <1>5, <1>6, KeepFound
  <2>2. ValidDefaults = Store!LinesOf(DefaultMac)
    BY StoreLinesOf, Zenon DEF ValidDefaults
  <2> QED
    BY <2>1, <2>2, Zenon DEF valid, Policy, Store!HasDefault
<1> QED
  BY <1>3, <1>4, <1>5, <1>6, Zenon

LEMMA InitializePolicy ==
  ASSUME NEW fs \in Files, NEW flg, NEW d \in Defaults
  PROVE  LET new == CosaXDNSInitialize(fs, flg, d).fs
         IN Store!Extends(Policy(fs), Policy(new), DefaultMac)
<1> DEFINE new == CosaXDNSInitialize(fs, flg, d).fs
<1>1. new = IF fs.confExists THEN RefreshResolvConfEntry(fs, flg)
            ELSE CreateDnsmasqServerConf(fs, flg, d).fs
  BY InitializeFiles
<1>2. Store!Extends(Policy(fs), Policy(CreateDnsmasqServerConf(fs, flg, d).fs), DefaultMac)
  BY CreatePolicy, Zenon
<1>3. Policy(RefreshResolvConfEntry(fs, flg)) = Policy(fs)
  BY RefreshKeepsPolicy DEF Policy
<1>4. Store!Extends(Policy(fs), Policy(fs), DefaultMac)
  BY PolicyItself
<1> QED
  BY <1>1, <1>2, <1>3, <1>4, Zenon

-----------------------------------------------------------------------------
(***************************************************************************)
(* The inductive invariant: the files are in step, a missing resolv.conf   *)
(* has no lines, and flash holds the flag.                                 *)
(***************************************************************************)
NoneWithout(fs) == ~ fs.resolvExists => fs.overrides = << >>

StoreInv == DmlInv /\ Agree(files, flag) /\ NoneWithout(files) /\ flash = flag

Works == SyscfgOutcomes \subseteq {"ok"} /\ WanStates \subseteq {"erouter"}

LEMMA NoneAfterRefresh ==
  ASSUME NEW fs \in Files, NEW flg, NoneWithout(fs)
  PROVE  NoneWithout(RefreshResolvConfEntry(fs, flg))
BY DEF NoneWithout, RefreshResolvConfEntry, Files

LEMMA NoneAfterAppend ==
  ASSUME NEW fs \in Files, NEW lines \in Seq(Line), NEW flg, NoneWithout(fs)
  PROVE  NoneWithout(RefreshResolvConfEntry(AppendDnsmasqConfEntry(fs, lines), flg))
<1>1. AppendDnsmasqConfEntry(fs, lines) \in Files
  BY AppendType
<1>2. NoneWithout(AppendDnsmasqConfEntry(fs, lines))
  BY DEF NoneWithout, AppendDnsmasqConfEntry, Files
<1> QED
  BY <1>1, <1>2, NoneAfterRefresh

LEMMA NoneAfterReplace ==
  ASSUME NEW fs \in Files, NEW lines \in Seq(Line), NEW mac, NEW flg, NoneWithout(fs)
  PROVE  NoneWithout(ReplaceDnsmasqConfEntry(fs, flg, mac, lines))
<1> DEFINE kept == [fs EXCEPT !.conf = Keep(@, Line \ Mentioning(mac))]
<1>1. Keep(fs.conf, Line \ Mentioning(mac)) \in Seq(Line)
  BY KeepSub DEF Files
<1>2. kept \in Files /\ NoneWithout(kept)
  BY <1>1 DEF Files, NoneWithout
<1>3. ReplaceDnsmasqConfEntry(fs, flg, mac, lines)
        = IF mac = "" THEN fs ELSE RefreshResolvConfEntry(AppendDnsmasqConfEntry(kept, lines), flg)
  BY DEF ReplaceDnsmasqConfEntry
<1> HIDE DEF kept
<1> QED
  BY <1>2, <1>3, NoneAfterAppend

LEMMA NoneAfterCreate ==
  ASSUME NEW fs \in Files, NEW flg, NEW d \in Defaults, NoneWithout(fs)
  PROVE  NoneWithout(CreateDnsmasqServerConf(fs, flg, d).fs)
BY CreateCases, EntriesAreLines, NoneAfterAppend

LEMMA NoneAfterSet ==
  ASSUME NEW fs \in Files, NoneWithout(fs)
  PROVE  NoneWithout(SetXdnsConfig(fs).fs)
BY DEF NoneWithout, SetXdnsConfig, Files

LEMMA NoneAfterInitialize ==
  ASSUME NEW fs \in Files, NEW flg, NEW d \in Defaults, NoneWithout(fs)
  PROVE  NoneWithout(CosaXDNSInitialize(fs, flg, d).fs)
BY InitializeFiles, NoneAfterRefresh, NoneAfterCreate

LEMMA StepNone ==
  ASSUME DmlInv, NoneWithout(files), [Next]_vars
  PROVE  NoneWithout(files')
<1>1. FileStep /\ files \in Files /\ dflt \in Defaults
  BY StepFiles DEF DmlInv, TypeOK, Defaults
<1>2. CASE FilesKept \/ FlagOnly
  BY <1>2 DEF FilesKept, FlagOnly
<1>3. CASE FilesReplaced
  BY <1>1, <1>3, EntriesAreLines, NoneAfterReplace DEF FilesReplaced
<1>4. CASE FilesCreated
  BY <1>1, <1>4, NoneAfterCreate DEF FilesCreated
<1>5. CASE FilesSet
  <2>1. PICK fs \in Files :
          /\ fs = files \/ fs = CreateDnsmasqServerConf(files, flag, dflt).fs
          /\ files' = SetXdnsConfig(fs).fs
    BY <1>5 DEF FilesSet
  <2>2. NoneWithout(fs)
    BY <1>1, <2>1, NoneAfterCreate
  <2> QED
    BY <2>1, <2>2, NoneAfterSet
<1>6. CASE FilesUnset
  BY <1>1, <1>6 DEF FilesUnset, UnsetXdnsConfig, NoneWithout, Files
<1>7. CASE FilesBooted
  <2>1. PICK fs \in Files :
          /\ \/ fs = files
             \/ \E ns \in BootNameservers, here \in BOOLEAN : fs = BootFiles(files, ns, here)
          /\ files' = CosaXDNSInitialize(fs, flag', NoDefaults).fs
    BY <1>7 DEF FilesBooted
  <2>2. NoneWithout(fs)
    BY <1>1, <2>1 DEF NoneWithout, BootFiles, Files
  <2> QED
    BY <2>1, <2>2, NoneAfterInitialize, NoDefaultsType
<1> QED
  BY <1>1, <1>2, <1>3, <1>4, <1>5, <1>6, <1>7 DEF FileStep

\* A flag that is saved is saved in flash, too.
LEMMA StepFlash ==
  ASSUME Works, flash = flag, [Next]_vars
  PROVE  flash' = flag'
<1>1. ASSUME NEW value, SaveFlag(value) PROVE flag' = value /\ flash' = value
  BY <1>1 DEF SaveFlag, Works
<1>2. ASSUME NEW wan \in WanStates, EnableXdns(wan) PROVE flash' = flag'
  BY <1>1, <1>2 DEF EnableXdns
<1>3. CASE DisableXdns
  BY <1>1, <1>3 DEF DisableXdns
<1>4. CASE \/ \E f \in DefaultFields : \E v \in DefaultInputs[f] : XDNS_SetParamStringValue(f, v)
           \/ ApplyDefaults
  BY <1>4 DEF XDNS_SetParamStringValue, ApplyDefaults
<1>5. CASE TableStep
  BY <1>5 DEF TableStep, DNSMappingTable_AddEntry, DNSMappingTable_DelEntry,
              DNSMappingTable_SetParamStringValue, ApplyRow
<1>6. CASE StartAgain
  BY <1>6 DEF StartAgain, RollbackOverrun, RowOverrun, Restart, Reboot
<1>7. CASE UNCHANGED vars
  BY <1>7 DEF vars
<1> QED
  BY <1>2, <1>3, <1>4, <1>5, <1>6, <1>7 DEF Next, Handler

LEMMA StoreInvInit ==
  ASSUME Init
  PROVE  StoreInv
<1>1. PICK fs \in Files : /\ fs.overrides = << >>
                          /\ files = CosaXDNSInitialize(fs, flag, NoDefaults).fs
  BY InitFiles
<1>2. NoneWithout(files)
  BY <1>1, NoneAfterInitialize, NoDefaultsType DEF NoneWithout
<1>3. Agree(files, flag)
  BY InitFiles, FreshAgree
<1> QED
  BY <1>2, <1>3, InitInv DEF Init, StoreInv

LEMMA StoreInvStep ==
  ASSUME Works, StoreInv, [Next]_vars
  PROVE  StoreInv'
<1>1. "setFails" \notin SyscfgOutcomes
  BY DEF Works
<1>2. DmlInv' /\ Agree(files', flag') /\ NoneWithout(files') /\ flash' = flag'
  BY <1>1, StepInv, StepAgree, StepNone, StepFlash DEF StoreInv
<1> QED
  BY <1>2 DEF StoreInv, Agree, NoneWithout

LEMMA InvMirror ==
  ASSUME Works, NEW fs, NEW flg, Agree(fs, flg), NoneWithout(fs)
  PROVE  Mirror(fs, flg)
<1>1. "lte" \notin WanStates
  BY DEF Works
<1> QED
  BY <1>1 DEF Agree, NoneWithout, Mirror, Policy

-----------------------------------------------------------------------------
(***************************************************************************)
(* The simulation.                                                         *)
(***************************************************************************)

\* A step that adds at most default lines is one of the store.
LEMMA AddsDefault ==
  ASSUME Store!Extends(Policy(files), Policy(files'), DefaultMac),
         (flag' = "1") = (flag = "1"), files'.resolvExists = files.resolvExists,
         Mirror(files', flag')
  PROVE  Store!StoreNext
<1>1. Store!AddDefault
  BY StoreKeep, StoreValid, StoreSeen, Zenon DEF Policy, Store!AddDefault
<1> QED
  BY <1>1, Zenon DEF Store!StoreNext

LEMMA StepSimulated ==
  ASSUME Works, StoreInv, StoreInv', [Next]_vars
  PROVE  [Store!StoreNext]_(Store!storeVars)
<1> SUFFICES ASSUME ~ FilesKept PROVE Store!StoreNext
  BY Zenon DEF FilesKept, Store!storeVars
<1>1. /\ FileStep /\ files \in Files /\ files' \in Files /\ dflt \in Defaults /\ flag \in Flag
      /\ flash = flag
  BY StepFiles DEF StoreInv, DmlInv, TypeOK, Defaults
<1>2. Mirror(files', flag')
  <2>1. Agree(files', flag') /\ NoneWithout(files')
    BY DEF StoreInv, Agree, NoneWithout
  <2> QED
    BY <2>1, InvMirror
<1>3. CASE FilesReplaced
  <2>1. PICK mac \in Token : \E lines \in Seq(EntriesOf(mac)) :
          files' = ReplaceDnsmasqConfEntry(files, flag, mac, lines)
    BY <1>3 DEF FilesReplaced
  <2>2. /\ Store!Extends(Keep(Policy(files), Line \ Mentioning(mac)), Policy(files'), mac)
        /\ files'.resolvExists = files.resolvExists
    BY <1>1, <2>1, ReplacePolicy
  <2>3. Store!Put(mac)
    BY <1>2, <1>3, <2>2, StoreKeep, StoreValid, StoreMentioning, StoreSeen, Zenon
       DEF FilesReplaced, Policy, Store!Put
  <2> QED
    BY <2>3, Zenon DEF Store!StoreNext
<1>4. CASE FilesCreated
  <2>1. /\ Store!Extends(Policy(files), Policy(files'), DefaultMac)
        /\ files'.resolvExists = files.resolvExists /\ flag' = flag
    BY <1>1, <1>4, CreatePolicy, Zenon DEF FilesCreated
  <2> QED
    BY <1>2, <2>1, AddsDefault
<1>5. CASE FilesSet
  <2>1. PICK fs \in Files :
          /\ fs = files \/ fs = CreateDnsmasqServerConf(files, flag, dflt).fs
          /\ files' = SetXdnsConfig(fs).fs
          /\ IF SetXdnsConfig(fs).result THEN SaveFlag("1") ELSE flag' = flag
    BY <1>5 DEF FilesSet
  <2>2. /\ Store!Extends(Policy(files), Policy(fs), DefaultMac)
        /\ fs.resolvExists = files.resolvExists
    BY <1>1, <2>1, PolicyItself, CreatePolicy, Zenon
  <2>3. /\ Policy(files') = Policy(fs) /\ files'.resolvExists = fs.resolvExists
        /\ SetXdnsConfig(fs).result => fs.resolvExists /\ Store!HasDefault(Policy(files'))
    BY <2>1, SetPolicy, Zenon
  <2>4. CASE ~ SetXdnsConfig(fs).result
    <3>1. flag' = flag
      BY <2>1, <2>4
    <3> QED
      BY <1>2, <2>2, <2>3, <3>1, AddsDefault
  <2>5. CASE SetXdnsConfig(fs).result
    <3>1. flag' = "1" /\ flag # "1"
      BY <1>5, <2>1, <2>5, SaveFlagOk DEF FilesSet, Works
    <3>2. /\ Store!Extends(Policy(files), Policy(files'), DefaultMac)
          /\ files'.resolvExists = files.resolvExists
          /\ files.resolvExists /\ Store!HasDefault(Policy(files'))
      BY <2>2, <2>3, <2>5
    <3>3. (flag' = "1") = TRUE /\ ~ (flag = "1")
      BY <3>1
    <3>4. Store!SwitchOn
      BY <1>2, <3>2, <3>3, StoreKeep, StoreValid, StoreSeen, Zenon DEF Policy, Store!SwitchOn
    <3> QED
      BY <3>4, Zenon DEF Store!StoreNext
  <2> QED
    BY <2>4, <2>5
<1>6. CASE FilesUnset
  <2>1. flag' = "0" /\ files' = UnsetXdnsConfig(files)
    BY <1>6, SaveFlagOk DEF FilesUnset, Works
  <2>2. files'.conf = files.conf /\ files'.resolvExists = files.resolvExists
    BY <1>1, <2>1 DEF UnsetXdnsConfig, Files
  <2>3. Policy(files') = Policy(files)
    BY <2>2 DEF Policy
  <2>4. CASE flag = "1"
    <3>1. (flag' = "1") = FALSE
      BY <2>1
    <3>2. Store!SwitchOff
      BY <1>2, <2>2, <2>3, <2>4, <3>1, StoreKeep, StoreValid, StoreSeen, Zenon
         DEF Policy, Store!SwitchOff
    <3> QED
      BY <3>2, Zenon DEF Store!StoreNext
  <2>5. CASE flag # "1"
    <3>1. (flag' = "1") = (flag = "1")
      BY <2>1, <2>5
    <3>2. Store!Extends(Policy(files), Policy(files'), DefaultMac)
      BY <1>1, <2>3, PolicyItself
    <3> QED
      BY <1>2, <2>2, <3>1, <3>2, AddsDefault
  <2> QED
    BY <2>4, <2>5
<1>7. CASE FilesBooted
  <2>1. PICK fs \in Files :
          /\ \/ fs = files /\ flag' = flag
             \/ /\ flag' = flash
                /\ \E ns \in BootNameservers, here \in BOOLEAN : fs = BootFiles(files, ns, here)
          /\ files' = CosaXDNSInitialize(fs, flag', NoDefaults).fs
    BY <1>7 DEF FilesBooted
  <2>2. flag' = flag /\ fs.conf = files.conf
    BY <1>1, <2>1 DEF BootFiles, Files
  <2>3. Store!Extends(Policy(fs), Policy(files'), DefaultMac)
    BY <2>1, InitializePolicy, NoDefaultsType, Zenon
  <2>4. Store!Extends(Policy(files), Policy(files'), DefaultMac)
    BY <2>2, <2>3 DEF Policy
  <2>5. files'.resolvExists \in BOOLEAN
    BY <1>1 DEF Files
  <2>6. Store!Boot
    BY <1>2, <2>2, <2>4, <2>5, StoreKeep, StoreValid, StoreSeen, Zenon DEF Policy, Store!Boot
  <2> QED
    BY <2>6, Zenon DEF Store!StoreNext
<1>8. ~ FlagOnly
  BY DEF FlagOnly, Works
<1> QED
  BY <1>1, <1>3, <1>4, <1>5, <1>6, <1>7, <1>8 DEF FileStep

LEMMA InitSimulated ==
  ASSUME Works, StoreInv
  PROVE  Store!StoreInit
<1>1. files \in Files /\ Mirror(files, flag)
  BY InvMirror DEF StoreInv, DmlInv, TypeOK
<1>2. Policy(files) \in Seq(ValidLines) /\ files.resolvExists \in BOOLEAN
  BY <1>1, PolicyType DEF Files
<1>3. (flag = "1") \in BOOLEAN
  OBVIOUS
<1> QED
  BY <1>1, <1>2, <1>3, StoreKeep, StoreValid, Zenon DEF Store!StoreInit, Policy, Mirror

\* Where syscfg works and erouter0 is the WAN, the data model keeps what
\* XdnsStore promises: no call loses a line it was not asked to replace, XDNS
\* goes on only with a default line, nothing is lost in a restart or reboot,
\* and dnsmasq sees exactly the stored policy.
THEOREM StoreImplemented ==
  ASSUME SyscfgOutcomes \subseteq {"ok"}, WanStates \subseteq {"erouter"}
  PROVE  Spec => ImplementsStore
<1>1. Works
  BY DEF Works
<1>2. Init => StoreInv
  BY StoreInvInit
<1>3. StoreInv /\ [Next]_vars => StoreInv'
  BY <1>1, StoreInvStep
<1>4. Init => Store!StoreInit
  BY <1>1, <1>2, InitSimulated
<1>5. StoreInv /\ StoreInv' /\ [Next]_vars => [Store!StoreNext]_(Store!storeVars)
  BY <1>1, StepSimulated
<1> QED
  BY <1>2, <1>3, <1>4, <1>5, PTL DEF Spec, ImplementsStore, Store!StoreSpec

=============================================================================
