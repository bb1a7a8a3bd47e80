--------------------------- MODULE XdnsWanProofs ---------------------------
(***************************************************************************)
(* What resolv.conf carries when the active WAN changes, for every set of  *)
(* interface names, documents, inputs and bounds.                          *)
(***************************************************************************)
EXTENDS XdnsWan, XdnsDmlProofs

-----------------------------------------------------------------------------
(***************************************************************************)
(* The files, as the WAN erouter0 wants them.  On it the lines may miss    *)
(* only while no default line is stored: the listener then leaves          *)
(* resolv.conf alone.                                                      *)
(***************************************************************************)
HasDefault(conf) == \E i \in DOMAIN conf : conf[i] \in ValidDefaults

Forced(fs, flg) ==
  fs.resolvExists =>
    IF flg = "1" THEN HasDefault(fs.conf) => fs.overrides = Keep(fs.conf, ValidLines)
    ELSE fs.overrides = << >>

Blank(fs) == ~ fs.confExists => fs.conf = << >>

Tidy(fs, flg) == CleanWhenOff(fs, flg) /\ Blank(fs)

\* What syscfg and the WAN read by the handlers of XdnsDml may be here.
Working == "setFails" \notin SyscfgOutcomes /\ "lte" \notin WanStates

LEMMA AgreeForced ==
  ASSUME Working, NEW fs, NEW flg, Agree(fs, flg)
  PROVE  Forced(fs, flg) /\ Tidy(fs, flg)
BY DEF Working, Agree, Forced, Tidy, Blank, CleanWhenOff

\* While XDNS is off nothing is missing in files that carry no overrides.
LEMMA OffAgrees ==
  ASSUME NEW fs, NEW flg, flg # "1", Tidy(fs, flg)
  PROVE  Agree(fs, flg)
BY DEF Agree, Tidy, Blank, CleanWhenOff

LEMMA ForcedWithoutPolicy ==
  ASSUME NEW fs, NEW flg, Tidy(fs, flg), ~ fs.confExists
  PROVE  Forced(fs, flg)
<1>1. fs.conf = << >> /\ ~ HasDefault(fs.conf)
  BY DEF Tidy, Blank, HasDefault
<1> QED
  BY <1>1 DEF Forced, Tidy, CleanWhenOff

LEMMA CreateForced ==
  ASSUME Working, NEW fs \in Files, NEW flg, NEW d \in Defaults, Tidy(fs, flg)
  PROVE  LET new == CreateDnsmasqServerConf(fs, flg, d).fs
         IN /\ Tidy(new, flg)
            /\ Forced(fs, flg) => Forced(new, flg)
<1> DEFINE new == CreateDnsmasqServerConf(fs, flg, d).fs
<1>1. new = fs \/ Agree(new, flg)
  BY CreateCases, EntriesAreLines, ChangedAgree DEF Tidy
<1> HIDE DEF new
<1>2. Tidy(new, flg) /\ (Forced(fs, flg) => Forced(new, flg))
  BY <1>1, AgreeForced
<1> QED
  BY <1>2 DEF new

\* A start that finds no override lines while XDNS is off brings them back if
\* it is on.
LEMMA InitializeForced ==
  ASSUME Working, NEW fs \in Files, NEW flg, NEW d \in Defaults, Tidy(fs, flg)
  PROVE  LET new == CosaXDNSInitialize(fs, flg, d).fs
         IN Tidy(new, flg) /\ Forced(new, flg)
<1> DEFINE new == CosaXDNSInitialize(fs, flg, d).fs
<1>1. CASE fs.confExists
  <2>1. Agree(new, flg)
    BY <1>1, InitializeFiles, RefreshAgree DEF Tidy
  <2> QED
    BY <2>1, AgreeForced
<1>2. CASE ~ fs.confExists
  <2>1. new = CreateDnsmasqServerConf(fs, flg, d).fs
    BY <1>2, InitializeFiles
  <2>2. Forced(fs, flg)
    BY <1>2, ForcedWithoutPolicy
  <2> QED
    BY <2>1, <2>2, CreateForced
<1> QED
  BY <1>1, <1>2

LEMMA ReplaceForced ==
  ASSUME Working, NEW fs \in Files, NEW flg, NEW mac \in Token, NEW lines \in Seq(Line),
         Tidy(fs, flg)
  PROVE  Agree(ReplaceDnsmasqConfEntry(fs, flg, mac, lines), flg)
<1> DEFINE kept == [fs EXCEPT !.conf = Keep(@, Line \ Mentioning(mac))]
<1>1. Keep(fs.conf, Line \ Mentioning(mac)) \in Seq(Line)
  BY KeepSub DEF Files
<1>2. kept \in Files /\ CleanWhenOff(kept, flg)
  BY <1>1 DEF Files, Tidy, CleanWhenOff
<1>3. ReplaceDnsmasqConfEntry(fs, flg, mac, lines)
        = RefreshResolvConfEntry(AppendDnsmasqConfEntry(kept, lines), flg)
  BY WordsAssumption DEF ReplaceDnsmasqConfEntry
<1> HIDE DEF kept
<1> QED
  BY <1>2, <1>3, ChangedAgree

-----------------------------------------------------------------------------
(***************************************************************************)
(* One step of the management thread, or a start.                          *)
(***************************************************************************)
HandlerFiles == FilesKept \/ FilesReplaced \/ FilesCreated \/ FilesSet \/ FilesUnset

LEMMA BootedForced ==
  ASSUME Working, DmlInv, Tidy(files, flag), FilesBooted
  PROVE  Tidy(files', flag') /\ Forced(files', flag')
<1>1. PICK fs \in Files :
        /\ \/ fs = files /\ flag' = flag
           \/ \E ns \in BootNameservers, here \in BOOLEAN : fs = BootFiles(files, ns, here)
        /\ files' = CosaXDNSInitialize(fs, flag', NoDefaults).fs
  BY DEF FilesBooted
<1>2. Tidy(fs, flag')
  <2>1. CASE fs = files /\ flag' = flag
    BY <2>1
  <2>2. CASE \E ns \in BootNameservers, here \in BOOLEAN : fs = BootFiles(files, ns, here)
    <3>1. /\ fs.overrides = << >> /\ fs.confExists = files.confExists
          /\ fs.conf = files.conf
      BY <2>2 DEF BootFiles, DmlInv, TypeOK, Files
    <3> QED
      BY <3>1 DEF Tidy, CleanWhenOff, Blank
  <2> QED
    BY <1>1, <2>1, <2>2
<1> QED
  BY <1>1, <1>2, InitializeForced, NoDefaultsType

LEMMA HandlerForced ==
  ASSUME Working, DmlInv, Tidy(files, flag), HandlerFiles
  PROVE  /\ Tidy(files', flag')
         /\ Forced(files, flag) => Forced(files', flag')
<1>1. files \in Files /\ dflt \in Defaults
  BY DEF DmlInv, TypeOK, Defaults
<1>2. CASE FilesKept
  BY <1>2 DEF FilesKept
<1>3. CASE FilesReplaced
  <2>1. flag' = flag /\ Agree(files', flag)
    BY <1>1, <1>3, EntriesAreLines, ReplaceForced DEF FilesReplaced
  <2> QED
    BY <2>1, AgreeForced
<1>4. CASE FilesCreated
  BY <1>1, <1>4, CreateForced DEF FilesCreated
<1>5. CASE FilesSet
  <2>1. Agree(files, flag) /\ flag # "1"
    BY <1>5, OffAgrees DEF FilesSet
  <2>2. PICK fs \in Files :
          /\ fs = files \/ fs = CreateDnsmasqServerConf(files, flag, dflt).fs
          /\ files' = SetXdnsConfig(fs).fs
          /\ IF SetXdnsConfig(fs).result THEN SaveFlag("1") ELSE flag' = flag
    BY <1>5 DEF FilesSet
  <2>3. Agree(fs, flag)
    BY <1>1, <2>1, <2>2, CreateAgree
  <2>4. CASE SetXdnsConfig(fs).result
    <3>1. flag' = "1" /\ Agree(files', "1")
      BY <2>1, <2>2, <2>3, <2>4, SetAgree, SaveFlagOk DEF Working
    <3> QED
      BY <3>1, AgreeForced
  <2>5. CASE ~ SetXdnsConfig(fs).result
    <3>1. flag' = flag /\ Agree(files', flag)
      BY <2>1, <2>2, <2>3, <2>5, SetAgree
    <3> QED
      BY <3>1, AgreeForced
  <2> QED
    BY <2>4, <2>5
<1>6. CASE FilesUnset
  <2>1. flag' = "0" /\ files' = [files EXCEPT !.overrides = << >>]
    BY <1>6, SaveFlagOk DEF FilesUnset, UnsetXdnsConfig, Working
  <2>2. Agree(files', flag')
    BY <1>1, <2>1 DEF Agree, Tidy, Blank, Files
  <2> QED
    BY <2>2, AgreeForced
<1> QED
  BY <1>2, <1>3, <1>4, <1>5, <1>6 DEF HandlerFiles

LEMMA OtherHandlerFiles ==
  ASSUME DmlInv, OtherHandler
  PROVE  HandlerFiles
<1>1. CASE DisableXdns
  BY <1>1 DEF DisableXdns, FilesUnset, HandlerFiles
<1>2. ASSUME NEW f \in DefaultFields, NEW v \in DefaultInputs[f], XDNS_SetParamStringValue(f, v)
      PROVE  HandlerFiles
  BY <1>2 DEF XDNS_SetParamStringValue, FilesKept, HandlerFiles
<1>3. CASE ApplyDefaults
  BY <1>3, ApplyDefaultsFiles DEF HandlerFiles
<1>4. CASE TableStep
  BY <1>4, TableStepFiles DEF HandlerFiles
<1> QED
  BY <1>1, <1>2, <1>3, <1>4 DEF OtherHandler

LEMMA OtherHandlerInv ==
  ASSUME DmlInv, OtherHandler
  PROVE  DmlInv'
<1>1. Next
  BY DEF OtherHandler, Next, Handler
<1> QED
  BY <1>1, StepInv

LEMMA WanStartFiles ==
  ASSUME DmlInv, WanStart
  PROVE  DmlInv' /\ FilesBooted
<1>1. Restart \/ Reboot
  BY DEF WanStart, RollbackOverrun
<1> QED
  BY <1>1, RestartInv, RebootInv, RestartFiles, RebootFiles

-----------------------------------------------------------------------------
(***************************************************************************)
(* A document fills the stored policy, switches and reads everything back. *)
(***************************************************************************)
LEMMA DocumentFiles ==
  ASSUME DmlInv, NEW d \in Documents, Document(d)
  PROVE  /\ flag' \in Flag /\ flash' \in Flag
         /\ \E fs \in Files :
              /\ fs.confExists
              /\ CleanWhenOff(files, flag) => CleanWhenOff(fs, flag')
              /\ LET s == CosaXDNSInitialize(fs, flag', dflt)
                 IN /\ files' = s.fs /\ dflt' = s.dflt
                    /\ rows' = s.rows /\ nextIns' = s.nextIns
<1> DEFINE filled == [files EXCEPT !.confExists = TRUE, !.conf = d.lines]
           same == d.enable = (flag = "1")
           switched == IF same THEN filled
                       ELSE IF d.enable THEN SetXdnsConfig(filled).fs ELSE UnsetXdnsConfig(filled)
           value == IF same THEN flag ELSE IF d.enable THEN "1" ELSE "0"
           s == CosaXDNSInitialize(switched, value, dflt)
<1>1. /\ files \in Files /\ flag \in Flag /\ flash \in Flag
      /\ d.lines \in Seq(Line) /\ d.enable \in BOOLEAN
  BY WanAssumption DEF DmlInv, TypeOK
<1>2. /\ filled \in Files /\ filled.confExists
      /\ CleanWhenOff(files, flag) => CleanWhenOff(filled, flag)
  BY <1>1 DEF Files, CleanWhenOff
<1>3. /\ flag' = value
      /\ flash' = IF same THEN flash ELSE value
      /\ files' = s.fs /\ dflt' = s.dflt /\ rows' = s.rows /\ nextIns' = s.nextIns
  BY DEF Document
<1>4. value \in Flag
  BY <1>1 DEF Flag
<1> HIDE DEF filled
<1>5. /\ switched \in Files /\ switched.confExists
      /\ CleanWhenOff(files, flag) => CleanWhenOff(switched, value)
  <2>1. CASE same
    BY <1>2, <2>1
  <2>2. CASE ~ same /\ d.enable
    <3>1. switched = SetXdnsConfig(filled).fs /\ value = "1"
      BY <2>2
    <3>2. SetXdnsConfig(filled).fs.confExists
      <4> DEFINE valid == Keep(filled.conf, ValidLines)
                 found == Keep(valid, ValidDefaults) # << >>
      <4>1. \/ SetXdnsConfig(filled).fs = filled
            \/ SetXdnsConfig(filled).fs
                 = [filled EXCEPT !.conf = valid, !.overrides = IF found THEN valid ELSE @]
        BY DEF SetXdnsConfig
      <4> HIDE DEF valid, found
      <4> QED
        BY <1>2, <4>1 DEF Files
    <3> QED
      BY <1>2, <3>1, <3>2, SetType DEF CleanWhenOff
  <2>3. CASE ~ same /\ ~ d.enable
    <3>1. switched = UnsetXdnsConfig(filled)
      BY <2>3
    <3>2. /\ UnsetXdnsConfig(filled).confExists
          /\ UnsetXdnsConfig(filled).overrides = << >>
      BY <1>2 DEF UnsetXdnsConfig, Files
    <3> QED
      BY <1>2, <3>1, <3>2, UnsetType DEF CleanWhenOff
  <2> QED
    BY <2>1, <2>2, <2>3
<1>6. flash' \in Flag
  BY <1>1, <1>3, <1>4
<1> HIDE DEF switched, value, same
<1> QED
  BY <1>3, <1>4, <1>5, <1>6

LEMMA DocumentInv ==
  ASSUME DmlInv, NEW d \in Documents, Document(d)
  PROVE  DmlInv'
<1>1. PICK fs \in Files :
        LET s == CosaXDNSInitialize(fs, flag', dflt)
        IN /\ files' = s.fs /\ dflt' = s.dflt
           /\ rows' = s.rows /\ nextIns' = s.nextIns
  BY DocumentFiles
<1> DEFINE s == CosaXDNSInitialize(fs, flag', dflt)
<1>2. files' = s.fs /\ dflt' = s.dflt /\ rows' = s.rows /\ nextIns' = s.nextIns
  BY <1>1
<1>3. dflt \in Defaults
  BY DEF DmlInv, TypeOK, Defaults
<1>4. /\ s.fs \in Files /\ s.dflt \in Defaults /\ s.rows \in Seq(Row)
      /\ s.nextIns \in Nat \ {0}
      /\ \A i \in DOMAIN s.rows : s.rows[i].ins = i /\ i < s.nextIns
  BY <1>3, InitializeType
<1>5. flag' \in Flag /\ flash' \in Flag /\ changed' \subseteq DefaultFields
  BY DocumentFiles DEF Document, DmlInv, TypeOK
<1> HIDE DEF s
<1>6. TypeOK'
  BY <1>2, <1>4, <1>5 DEF TypeOK, Defaults
<1>7. InstanceOrder'
  BY <1>2, <1>4 DEF InstanceOrder
<1> QED
  BY <1>6, <1>7 DEF DmlInv

LEMMA DocumentForced ==
  ASSUME Working, DmlInv, Tidy(files, flag), NEW d \in Documents, Document(d)
  PROVE  Tidy(files', flag') /\ Forced(files', flag')
<1>1. PICK fs \in Files :
        /\ fs.confExists
        /\ CleanWhenOff(files, flag) => CleanWhenOff(fs, flag')
        /\ files' = CosaXDNSInitialize(fs, flag', dflt).fs
  BY DocumentFiles
<1>2. Tidy(fs, flag') /\ dflt \in Defaults
  BY <1>1 DEF Tidy, Blank, DmlInv, TypeOK, Defaults
<1> QED
  BY <1>1, <1>2, InitializeForced

-----------------------------------------------------------------------------
(***************************************************************************)
(* Types.                                                                  *)
(***************************************************************************)
ListenerOK ==
  /\ wan \in WanNames /\ prev \in WanNames
  /\ listening \in BOOLEAN /\ astray \in BOOLEAN
  /\ pending \in Seq(WanNames)
  /\ event = Nothing \/ event \in [name : WanNames, flag : Flag, crossed : BOOLEAN]
  /\ enabling \in {"no", "erouter", "lte"}

WanInv == DmlInv /\ ListenerOK

LEMMA PrimaryIsName == Primary \in WanNames /\ << >> \in Seq(WanNames)
BY WanAssumption, EmptySeq

LEMMA CrossesType ==
  ASSUME ListenerOK, Crosses
  PROVE  /\ astray' \in BOOLEAN
         /\ event' = Nothing \/ event' \in [name : WanNames, flag : Flag, crossed : BOOLEAN]
BY DEF ListenerOK, Crosses

LEMMA NotificationInv ==
  ASSUME WanInv, HandleNotification
  PROVE  WanInv'
<1>1. event \in [name : WanNames, flag : Flag, crossed : BOOLEAN]
  BY DEF HandleNotification, WanInv, ListenerOK
<1>2. files' \in Files
  <2>1. files \in Files
    BY DEF WanInv, DmlInv, TypeOK
  <2>2. files' = files \/ files' = SetXdnsConfig(files).fs \/ files' = UnsetXdnsConfig(files)
    BY DEF HandleNotification, FilesOn
  <2> QED
    BY <2>1, <2>2, SetType, UnsetType
<1>3. /\ UNCHANGED <<flag, flash, dflt, changed, rows, nextIns>>
      /\ event' = Nothing /\ prev' = event.name
      /\ UNCHANGED <<wan, listening, pending, enabling>>
  BY DEF HandleNotification, NewPrev
<1>4. TypeOK'
  BY <1>2, <1>3 DEF WanInv, DmlInv, TypeOK
<1>5. DmlInv'
  BY <1>3, <1>4, OrderUnchanged DEF WanInv
<1>6. astray' \in BOOLEAN
  BY <1>1, Zenon DEF HandleNotification, WanInv, ListenerOK
<1>7. ListenerOK'
  BY <1>1, <1>3, <1>6 DEF WanInv, ListenerOK
<1> QED
  BY <1>5, <1>7 DEF WanInv

LEMMA SameDml ==
  ASSUME DmlInv, UNCHANGED vars
  PROVE  DmlInv'
BY DEF DmlInv, TypeOK, InstanceOrder, vars

LEMMA WanStepInv ==
  ASSUME WanInv, [WanNext]_allWanVars
  PROVE  WanInv'
<1>1. ASSUME NEW n \in WanNames, WanChanges(n) PROVE WanInv'
  <2>1. pending' \in Seq(WanNames)
    BY <1>1, AppendProperties DEF WanChanges, WanInv, ListenerOK
  <2>2. astray' \in BOOLEAN
    BY <1>1 DEF WanChanges, WanInv, ListenerOK
  <2>3. ListenerOK'
    BY <1>1, <2>1, <2>2 DEF WanChanges, WanInv, ListenerOK
  <2> QED
    BY <1>1, <2>3, SameDml DEF WanChanges, WanInv
<1>2. CASE Register
  <2>1. ListenerOK'
    BY <1>2 DEF Register, WanInv, ListenerOK
  <2> QED
    BY <1>2, <2>1, SameDml DEF Register, WanInv
<1>3. CASE Receive
  <2>1. Head(pending) \in WanNames /\ Tail(pending) \in Seq(WanNames) /\ flag \in Flag
    BY <1>3, HeadTailProperties DEF Receive, WanInv, ListenerOK, DmlInv, TypeOK
  <2>2. ListenerOK'
    BY <1>3, <2>1 DEF Receive, WanInv, ListenerOK
  <2> QED
    BY <1>3, <2>2, SameDml DEF Receive, WanInv
<1>4. CASE HandleNotification
  BY <1>4, NotificationInv
<1>5. CASE StartEnable
  <2>1. ListenerOK'
    BY <1>5 DEF StartEnable, WanInv, ListenerOK
  <2> QED
    BY <1>5, <2>1, SameDml DEF StartEnable, WanInv
<1>6. CASE FinishEnable
  <2>1. EnableXdns(enabling) /\ Crosses /\ enabling' = "no"
        /\ UNCHANGED <<wan, listening, pending, prev>>
    BY <1>6 DEF FinishEnable
  <2>2. DmlInv'
    BY <2>1, EnableInv DEF WanInv
  <2>3. ListenerOK'
    BY <2>1, CrossesType DEF WanInv, ListenerOK
  <2> QED
    BY <2>2, <2>3 DEF WanInv
<1>7. CASE OtherHandler
  <2>1. Crosses /\ UNCHANGED <<wan, listening, pending, prev, enabling>>
    BY <1>7 DEF OtherHandler
  <2>2. DmlInv'
    BY <1>7, OtherHandlerInv DEF WanInv
  <2>3. ListenerOK'
    BY <2>1, CrossesType DEF WanInv, ListenerOK
  <2> QED
    BY <2>2, <2>3 DEF WanInv
<1>8. ASSUME NEW d \in Documents, Document(d) PROVE WanInv'
  <2>1. /\ prev' = Primary
        /\ event' = IF event = Nothing THEN Nothing ELSE [event EXCEPT !.crossed = TRUE]
        /\ astray' = (astray \/ wan # Primary \/ enabling # "no")
        /\ UNCHANGED <<wan, listening, pending, enabling>>
    BY <1>8 DEF Document
  <2>2. ListenerOK'
    BY <2>1, PrimaryIsName DEF WanInv, ListenerOK
  <2> QED
    BY <1>8, <2>2, DocumentInv DEF WanInv
<1>9. CASE WanStart
  <2>1. /\ astray' \in BOOLEAN /\ listening' = FALSE /\ pending' = << >>
        /\ event' = Nothing /\ prev' = Primary /\ enabling' = "no" /\ wan' = wan
    BY <1>9 DEF WanStart, WanInv, ListenerOK
  <2>2. ListenerOK'
    BY <2>1, PrimaryIsName DEF WanInv, ListenerOK
  <2> QED
    BY <1>9, <2>2, WanStartFiles DEF WanInv
<1>10. CASE UNCHANGED allWanVars
  <2>1. UNCHANGED vars /\ UNCHANGED wanVars
    BY <1>10 DEF allWanVars
  <2>2. ListenerOK'
    BY <2>1 DEF wanVars, WanInv, ListenerOK
  <2> QED
    BY <2>1, <2>2, SameDml DEF WanInv
<1> QED
  BY <1>1, <1>2, <1>3, <1>4, <1>5, <1>6, <1>7, <1>8, <1>9, <1>10 DEF WanNext, Listener

THEOREM WanInvariant == WanSpec => []WanInv
<1>1. WanInit => WanInv
  <2> SUFFICES ASSUME WanInit PROVE WanInv
    OBVIOUS
  <2>1. DmlInv
    BY InitInv DEF WanInit
  <2>2. ListenerOK
    BY PrimaryIsName DEF WanInit, ListenerOK
  <2> QED
    BY <2>1, <2>2 DEF WanInv
<1>2. WanInv /\ [WanNext]_allWanVars => WanInv'
  BY WanStepInv
<1> QED
  BY <1>1, <1>2, PTL DEF WanSpec

\* The listener next to the management thread leaves every variable of both
\* well-typed, on every interface and for every document.
THEOREM WanTypeCorrect == WanSpec => []WanTypeOK
<1>1. WanInv => WanTypeOK
  BY DEF WanInv, ListenerOK, DmlInv, WanTypeOK
<1> QED
  BY <1>1, WanInvariant, PTL

-----------------------------------------------------------------------------
(***************************************************************************)
(* An absent stored policy is an empty one, whatever has crossed what.     *)
(***************************************************************************)
LEMMA RefreshBlank ==
  ASSUME NEW fs \in Files, NEW flg, Blank(fs)
  PROVE  Blank(RefreshResolvConfEntry(fs, flg))
BY DEF Blank, RefreshResolvConfEntry, Files

LEMMA AppendBlank ==
  ASSUME NEW fs \in Files, NEW lines \in Seq(Line), NEW flg
  PROVE  Blank(RefreshResolvConfEntry(AppendDnsmasqConfEntry(fs, lines), flg))
<1>1. Blank(AppendDnsmasqConfEntry(fs, lines))
  BY DEF Blank, AppendDnsmasqConfEntry, Files
<1> QED
  BY <1>1, AppendType, RefreshBlank

LEMMA ReplaceBlank ==
  ASSUME NEW fs \in Files, NEW flg, NEW mac, NEW lines \in Seq(Line), Blank(fs)
  PROVE  Blank(ReplaceDnsmasqConfEntry(fs, flg, mac, lines))
<1> DEFINE kept == [fs EXCEPT !.conf = Keep(@, Line \ Mentioning(mac))]
<1>1. Keep(fs.conf, Line \ Mentioning(mac)) \in Seq(Line)
  BY KeepSub DEF Files
<1>2. kept \in Files
  BY <1>1 DEF Files
<1>3. \/ ReplaceDnsmasqConfEntry(fs, flg, mac, lines) = fs
      \/ ReplaceDnsmasqConfEntry(fs, flg, mac, lines)
            = RefreshResolvConfEntry(AppendDnsmasqConfEntry(kept, lines), flg)
  BY DEF ReplaceDnsmasqConfEntry
<1> HIDE DEF kept
<1> QED
  BY <1>2, <1>3, AppendBlank

LEMMA CreateBlank ==
  ASSUME NEW fs \in Files, NEW flg, NEW d \in Defaults, Blank(fs)
  PROVE  Blank(CreateDnsmasqServerConf(fs, flg, d).fs)
BY CreateCases, EntriesAreLines, AppendBlank

LEMMA SetBlank ==
  ASSUME NEW fs \in Files, Blank(fs)
  PROVE  Blank(SetXdnsConfig(fs).fs)
<1> DEFINE valid == Keep(fs.conf, ValidLines)
           found == Keep(valid, ValidDefaults) # << >>
<1>1. \/ SetXdnsConfig(fs).fs = fs
      \/ /\ fs.confExists
         /\ SetXdnsConfig(fs).fs
              = [fs EXCEPT !.conf = valid, !.overrides = IF found THEN valid ELSE @]
  BY DEF SetXdnsConfig
<1> HIDE DEF valid, found
<1> QED
  BY <1>1 DEF Blank, Files

LEMMA UnsetBlank ==
  ASSUME NEW fs \in Files, Blank(fs)
  PROVE  Blank(UnsetXdnsConfig(fs))
BY DEF Blank, UnsetXdnsConfig, Files

LEMMA StepBlank ==
  ASSUME DmlInv, Blank(files), HandlerFiles \/ FilesBooted
  PROVE  Blank(files')
<1>1. files \in Files /\ dflt \in Defaults
  BY DEF DmlInv, TypeOK, Defaults
<1>2. CASE FilesKept
  BY <1>2 DEF FilesKept
<1>3. CASE FilesReplaced
  BY <1>1, <1>3, EntriesAreLines, ReplaceBlank DEF FilesReplaced
<1>4. CASE FilesCreated
  BY <1>1, <1>4, CreateBlank DEF FilesCreated
<1>5. CASE FilesSet
  BY <1>1, <1>5, CreateBlank, SetBlank DEF FilesSet
<1>6. CASE FilesUnset
  BY <1>1, <1>6, UnsetBlank DEF FilesUnset
<1>7. CASE FilesBooted
  <2>1. PICK fs \in Files :
          /\ \/ fs = files
             \/ \E ns \in BootNameservers, here \in BOOLEAN : fs = BootFiles(files, ns, here)
          /\ files' = CosaXDNSInitialize(fs, flag', NoDefaults).fs
    BY <1>7 DEF FilesBooted
  <2>2. Blank(fs)
    BY <1>1, <2>1 DEF BootFiles, Blank, Files
  <2> QED
    BY <2>1, <2>2, InitializeFiles, RefreshBlank, CreateBlank, NoDefaultsType
<1> QED
  BY <1>2, <1>3, <1>4, <1>5, <1>6, <1>7 DEF HandlerFiles

LEMMA DocumentBlank ==
  ASSUME DmlInv, NEW d \in Documents, Document(d)
  PROVE  Blank(files')
<1>1. PICK fs \in Files :
        fs.confExists /\ files' = CosaXDNSInitialize(fs, flag', dflt).fs
  BY DocumentFiles
<1>2. files' = RefreshResolvConfEntry(fs, flag') /\ Blank(fs)
  BY <1>1, InitializeFiles DEF Blank
<1> QED
  BY <1>2, RefreshBlank

-----------------------------------------------------------------------------
(***************************************************************************)
(* The listener follows the WAN.  What it will act on last is the active   *)
(* WAN, and as long as it has nothing new to hear resolv.conf is as the    *)
(* WAN it acted on last wants it.                                          *)
(***************************************************************************)
ForName(n, fs, flg) ==
  IF n = Primary THEN Forced(fs, flg) ELSE fs.resolvExists => fs.overrides = << >>

\* The listener has only been told what it knows already.
Quiet == /\ event # Nothing => event.name = prev
         /\ \A i \in DOMAIN pending : pending[i] = prev

Latest == IF pending # << >> THEN pending[Len(pending)]
          ELSE IF event # Nothing THEN event.name ELSE prev

Known == pending # << >> \/ event # Nothing \/ ~ astray => wan = Latest

Following ==
  /\ Blank(files)
  /\ ~ listening => pending = << >> /\ event = Nothing
  /\ Known
  /\ event # Nothing /\ ~ event.crossed => event.flag = flag
  /\ ~ astray => CleanWhenOff(files, flag)
  /\ ~ astray /\ Quiet => ForName(prev, files, flag) /\ (enabling = "lte" => prev # Primary)

\* A listener that has been told nothing new knows the active WAN.
LEMMA QuietIsKnown ==
  ASSUME WanInv, Following, Quiet, ~ astray
  PROVE  wan = prev
<1>1. pending \in Seq(WanNames) /\ wan = Latest
  BY DEF WanInv, ListenerOK, Following, Known
<1>2. CASE pending # << >>
  <2>1. Len(pending) \in DOMAIN pending
    BY <1>1, <1>2, LenProperties, EmptySeq
  <2> QED
    BY <1>1, <1>2, <2>1 DEF Latest, Quiet
<1>3. CASE pending = << >>
  BY <1>1, <1>3 DEF Latest, Quiet
<1> QED
  BY <1>2, <1>3

LEMMA WanChangesFollowed ==
  ASSUME WanInv, Following, NEW n \in WanNames, WanChanges(n)
  PROVE  Following'
<1>1. /\ wan' = n /\ UNCHANGED <<files, flag, listening, event, prev, enabling>>
      /\ pending \in Seq(WanNames)
  BY DEF WanChanges, vars, WanInv, ListenerOK
<1>2. CASE listening
  <2>1. pending' = Append(pending, n) /\ astray' = astray
    BY <1>2 DEF WanChanges
  <2>2. /\ pending' # << >> /\ pending'[Len(pending')] = n
        /\ DOMAIN pending \subseteq DOMAIN pending'
        /\ \A i \in DOMAIN pending : pending'[i] = pending[i]
    <3>1. /\ Len(pending') = Len(pending) + 1 /\ pending'[Len(pending) + 1] = n
          /\ \A i \in 1..Len(pending) : pending'[i] = pending[i]
          /\ pending' \in Seq(WanNames)
      BY <1>1, <2>1, AppendProperties
    <3> QED
      BY <1>1, <3>1, LenProperties
  <2>3. Quiet' => Quiet
    BY <1>1, <2>2 DEF Quiet
  <2>4. Known'
    BY <1>1, <2>2 DEF Known, Latest
  <2> QED
    BY <1>1, <1>2, <2>1, <2>3, <2>4 DEF Following
<1>3. CASE ~ listening
  <2>1. /\ pending = << >> /\ event = Nothing
        /\ UNCHANGED pending /\ astray' = (astray \/ n # prev)
    BY <1>3 DEF WanChanges, Following
  <2>2. Known'
    BY <1>1, <2>1 DEF Known, Latest
  <2>3. Quiet' => Quiet
    BY <1>1, <2>1 DEF Quiet
  <2> QED
    BY <1>1, <1>3, <2>1, <2>2, <2>3 DEF Following
<1> QED
  BY <1>2, <1>3

LEMMA ReceiveFollowed ==
  ASSUME WanInv, Following, Receive
  PROVE  Following'
<1>1. /\ UNCHANGED <<files, flag, wan, listening, prev, enabling, astray>>
      /\ pending # << >> /\ event = Nothing /\ pending' = Tail(pending)
      /\ event' = [name |-> Head(pending), flag |-> flag, crossed |-> FALSE]
      /\ pending \in Seq(WanNames)
  BY DEF Receive, vars, WanInv, ListenerOK
<1>2. /\ event' # Nothing /\ event'.name = pending[1] /\ event'.flag = flag
  <2>1. Head(pending) = pending[1] /\ Head(pending) \in WanNames
    BY <1>1, HeadTailProperties
  <2>2. event'.name = pending[1] /\ event'.name # ""
    BY <1>1, <2>1, WanAssumption
  <2> QED
    BY <1>1, <2>2 DEF Nothing
<1>3. /\ Len(pending') = Len(pending) - 1 /\ Len(pending) \in Nat \ {0}
      /\ \A i \in 1..Len(pending) - 1 : pending'[i] = pending[i+1]
      /\ DOMAIN pending = 1..Len(pending) /\ DOMAIN pending' = 1..Len(pending')
  BY <1>1, HeadTailProperties, LenProperties, EmptySeq
<1>4. Latest' = Latest
  <2>1. CASE Len(pending) = 1
    <3>1. pending' = << >>
      BY <1>1, <1>3, <2>1, HeadTailProperties, EmptySeq
    <3> QED
      BY <1>1, <1>2, <2>1, <3>1 DEF Latest
  <2>2. CASE Len(pending) # 1
    <3>1. pending'[Len(pending')] = pending[Len(pending)] /\ pending' # << >>
      BY <1>3, <2>2
    <3> QED
      BY <1>1, <3>1 DEF Latest
  <2> QED
    BY <2>1, <2>2
<1>5. Known'
  BY <1>1, <1>4 DEF Known, Following
<1>6. Quiet' => Quiet
  <2> SUFFICES ASSUME Quiet', NEW i \in DOMAIN pending PROVE pending[i] = prev
    BY <1>1 DEF Quiet
  <2>1. CASE i = 1
    BY <1>1, <1>2, <2>1 DEF Quiet
  <2>2. CASE i # 1
    <3>1. i - 1 \in DOMAIN pending' /\ pending'[i-1] = pending[i]
      BY <1>3, <2>2
    <3> QED
      BY <1>1, <3>1 DEF Quiet
  <2> QED
    BY <2>1, <2>2
<1>7. listening
  BY <1>1 DEF Following
<1> QED
  BY <1>1, <1>2, <1>5, <1>6, <1>7 DEF Following

\* SetXdnsConfig leaves the lines out only where no default line is stored.
LEMMA SetForced ==
  ASSUME NEW fs \in Files, Blank(fs)
  PROVE  Forced(SetXdnsConfig(fs).fs, "1")
<1> DEFINE valid == Keep(fs.conf, ValidLines)
           found == Keep(valid, ValidDefaults) # << >>
           set == [fs EXCEPT !.conf = valid, !.overrides = IF found THEN valid ELSE @]
<1>1. CASE ~ (fs.resolvExists /\ fs.confExists)
  <2>1. SetXdnsConfig(fs).fs = fs
    BY <1>1 DEF SetXdnsConfig
  <2>2. ~ fs.confExists => ~ HasDefault(fs.conf)
    BY DEF Blank, HasDefault
  <2> QED
    BY <1>1, <2>1, <2>2 DEF Forced
<1>2. CASE fs.resolvExists /\ fs.confExists
  <2>1. SetXdnsConfig(fs) = [fs |-> set, result |-> found]
    BY <1>2 DEF SetXdnsConfig
  <2>2. valid \in Seq(ValidLines) /\ Keep(valid, ValidLines) = valid
    BY KeepValid, KeepAll DEF Files
  <2>3. HasDefault(valid) => found
    <3> HIDE DEF valid
    <3> QED
      BY <2>2, KeepFinds DEF HasDefault
  <2> HIDE DEF valid, found
  <2>4. set.conf = valid /\ (found => set.overrides = valid)
    BY DEF Files
  <2>5. SetXdnsConfig(fs).fs = set
    BY <2>1
  <2> HIDE DEF set
  <2> QED
    BY <2>2, <2>3, <2>4, <2>5 DEF Forced
<1> QED
  BY <1>1, <1>2

LEMMA FilesOnForced ==
  ASSUME files \in Files, Blank(files), NEW n
  PROVE  ForName(n, FilesOn(n), "1") /\ Blank(FilesOn(n))
<1>1. CASE n = Primary
  BY <1>1, SetForced, SetBlank DEF FilesOn, ForName
<1>2. CASE n # Primary
  <2>1. FilesOn(n) = UnsetXdnsConfig(files)
    BY <1>2 DEF FilesOn
  <2>2. UnsetXdnsConfig(files).overrides = << >>
    BY DEF UnsetXdnsConfig, Files
  <2> QED
    BY <1>2, <2>1, <2>2, UnsetBlank DEF ForName
<1> QED
  BY <1>1, <1>2

\* Acted on, the notification brings the files in line with its name; not
\* acted on, it says what the listener knew, or XDNS is off and resolv.conf
\* clean.
LEMMA NotificationFollowed ==
  ASSUME WanInv, Following, HandleNotification
  PROVE  Following'
<1> DEFINE acts == event.flag = "1" /\ event.name # prev
<1>1. /\ event # Nothing /\ event' = Nothing /\ prev' = event.name
      /\ files' = IF acts THEN FilesOn(event.name) ELSE files
      /\ astray' = (event.crossed \/ enabling # "no" \/ (astray /\ ~ acts))
      /\ UNCHANGED <<flag, wan, listening, pending, enabling>>
  BY DEF HandleNotification, NewPrev
<1>2. event.crossed \in BOOLEAN /\ files \in Files /\ Blank(files)
  BY <1>1 DEF WanInv, ListenerOK, DmlInv, TypeOK, Following
<1>3. Blank(files')
  BY <1>1, <1>2, FilesOnForced
<1>4. Known'
  BY <1>1 DEF Known, Latest, Following
<1>5. ASSUME ~ astray'
      PROVE  /\ ~ event.crossed /\ enabling = "no" /\ (~ astray \/ acts)
             /\ event.flag = flag
  BY <1>1, <1>2, <1>5 DEF Following
<1>6. ASSUME ~ astray', acts
      PROVE  CleanWhenOff(files', flag') /\ ForName(prev', files', flag')
  <2>1. flag' = "1" /\ files' = FilesOn(event.name)
    BY <1>1, <1>5, <1>6
  <2> QED
    BY <1>1, <1>2, <2>1, FilesOnForced DEF CleanWhenOff
<1>7. ASSUME ~ astray', ~ acts
      PROVE  CleanWhenOff(files', flag')
  BY <1>1, <1>5, <1>7 DEF Following
<1>8. ASSUME ~ astray', ~ acts, Quiet'
      PROVE  ForName(prev', files', flag')
  <2>1. ~ astray /\ CleanWhenOff(files, flag)
    BY <1>5, <1>8 DEF Following
  <2>2. CASE event.name = prev
    <3>1. Quiet
      BY <1>1, <1>8, <2>2 DEF Quiet
    <3> QED
      BY <1>1, <1>8, <2>1, <2>2, <3>1 DEF Following
  <2>3. CASE flag # "1"
    BY <1>1, <1>8, <2>1, <2>3 DEF ForName, Forced, CleanWhenOff
  <2> QED
    BY <1>5, <1>8, <2>2, <2>3
<1>9. ~ astray' => enabling' # "lte"
  BY <1>1, <1>5
<1>10. listening
  BY <1>1 DEF Following
<1> QED
  BY <1>1, <1>3, <1>4, <1>6, <1>7, <1>8, <1>9, <1>10 DEF Following

LEMMA HandlerFollowed ==
  ASSUME Working, WanInv, Following, Crosses,
         UNCHANGED <<wan, listening, pending, prev>>, enabling' \in {"no", enabling},
         \/ HandlerFiles
         \/ enabling = "lte" /\ flag' = "1" /\ files' = files
  PROVE  Following'
<1>1. /\ event' = IF event = Nothing THEN Nothing ELSE [event EXCEPT !.crossed = TRUE]
      /\ astray' = (astray \/ (wan # Primary /\ files'.overrides # << >>))
      /\ astray \in BOOLEAN
  BY DEF Crosses, WanInv, ListenerOK
<1>2. /\ event' # Nothing <=> event # Nothing
      /\ event # Nothing => event'.name = event.name /\ event'.crossed
  BY <1>1 DEF WanInv, ListenerOK, Nothing
<1>3. Blank(files')
  BY StepBlank DEF WanInv, Following
<1>4. Known'
  BY <1>1, <1>2 DEF Known, Latest, Following
<1>5. Quiet' <=> Quiet
  BY <1>2 DEF Quiet
<1>6. ASSUME ~ astray'
      PROVE  /\ ~ astray /\ Tidy(files, flag)
             /\ wan = Primary \/ files'.overrides = << >>
  BY <1>1, <1>6 DEF Following, Tidy
<1>7. ASSUME ~ astray'
      PROVE  CleanWhenOff(files', flag')
  BY <1>6, <1>7, HandlerForced DEF Tidy, CleanWhenOff, WanInv
<1>8. ASSUME ~ astray', Quiet'
      PROVE  ForName(prev', files', flag') /\ (enabling' = "lte" => prev' # Primary)
  <2>1. /\ wan = prev /\ ForName(prev, files, flag)
        /\ enabling = "lte" => prev # Primary
    BY <1>5, <1>6, <1>8, QuietIsKnown DEF Following
  <2>2. CASE prev = Primary
    <3>1. HandlerFiles /\ Forced(files, flag)
      BY <2>1, <2>2 DEF ForName
    <3>2. Forced(files', flag')
      BY <1>6, <1>8, <3>1, HandlerForced DEF WanInv
    <3> QED
      BY <2>1, <2>2, <3>2 DEF ForName
  <2>3. CASE prev # Primary
    BY <1>6, <1>8, <2>1, <2>3 DEF ForName
  <2> QED
    BY <2>2, <2>3
<1> QED
  BY <1>2, <1>3, <1>4, <1>7, <1>8 DEF Following

LEMMA FinishEnableFollowed ==
  ASSUME Working, WanInv, Following, FinishEnable
  PROVE  Following'
<1>1. /\ EnableXdns(enabling) /\ Crosses /\ enabling' = "no"
      /\ UNCHANGED <<wan, listening, pending, prev>>
  BY DEF FinishEnable
<1>2. FilesSet \/ (enabling = "lte" /\ SaveFlag("1") /\ files' = files)
  BY <1>1, EnableFiles DEF WanInv
<1>3. HandlerFiles \/ (enabling = "lte" /\ flag' = "1" /\ files' = files)
  BY <1>2, SaveFlagOk DEF HandlerFiles, Working
<1> QED
  BY <1>1, <1>3, HandlerFollowed

LEMMA OtherHandlerFollowed ==
  ASSUME Working, WanInv, Following, OtherHandler
  PROVE  Following'
<1>1. Crosses /\ UNCHANGED <<wan, listening, pending, prev, enabling>>
  BY DEF OtherHandler
<1> QED
  BY <1>1, OtherHandlerFiles, HandlerFollowed DEF WanInv

LEMMA StartEnableFollowed ==
  ASSUME WanInv, Following, StartEnable
  PROVE  Following'
<1>1. /\ enabling' = IF wan \in ErouterNames THEN "erouter" ELSE "lte"
      /\ UNCHANGED <<files, flag, wan, listening, pending, event, prev, astray>>
  BY DEF StartEnable, vars
<1>2. Known' /\ (Quiet' <=> Quiet)
  BY <1>1 DEF Known, Latest, Quiet, Following
<1>3. ASSUME ~ astray, Quiet, enabling' = "lte"
      PROVE  prev # Primary
  BY <1>1, <1>3, QuietIsKnown, WanAssumption
<1> QED
  BY <1>1, <1>2, <1>3 DEF Following

LEMMA DocumentFollowed ==
  ASSUME Working, WanInv, Following, NEW d \in Documents, Document(d)
  PROVE  Following'
<1>1. /\ prev' = Primary
      /\ event' = IF event = Nothing THEN Nothing ELSE [event EXCEPT !.crossed = TRUE]
      /\ astray' = (astray \/ wan # Primary \/ enabling # "no")
      /\ UNCHANGED <<wan, listening, pending, enabling>>
  BY DEF Document
<1>2. /\ event' # Nothing <=> event # Nothing
      /\ event # Nothing => event'.name = event.name /\ event'.crossed
  BY <1>1 DEF WanInv, ListenerOK, Nothing
<1>3. Blank(files')
  BY DocumentBlank DEF WanInv
<1>4. Known'
  BY <1>1, <1>2 DEF Known, Latest, Following
<1>5. ASSUME ~ astray'
      PROVE  CleanWhenOff(files', flag') /\ ForName(prev', files', flag') /\ enabling' # "lte"
  <2>1. ~ astray /\ enabling = "no" /\ Tidy(files, flag)
    BY <1>1, <1>5 DEF Following, Tidy
  <2> QED
    BY <1>1, <2>1, DocumentForced DEF WanInv, ForName, Tidy
<1> QED
  BY <1>1, <1>2, <1>3, <1>4, <1>5 DEF Following

LEMMA RebootForced ==
  ASSUME Working, DmlInv, Blank(files), Reboot
  PROVE  CleanWhenOff(files', flag') /\ Forced(files', flag')
<1>1. PICK ns \in BootNameservers, here \in BOOLEAN : StartOn(BootFiles(files, ns, here))
  BY DEF Reboot
<1> DEFINE fs == BootFiles(files, ns, here)
<1>2. /\ fs \in Files /\ fs.overrides = << >>
      /\ ~ fs.confExists => fs.conf = << >>
  <2>1. files \in Files
    BY DEF DmlInv, TypeOK
  <2> QED
    BY <2>1, BootFilesType DEF BootFiles, Blank, Files
<1>3. files' = CosaXDNSInitialize(fs, flag', NoDefaults).fs
  BY <1>1 DEF StartOn
<1> HIDE DEF fs
<1> QED
  BY <1>2, <1>3, FreshAgree, AgreeForced DEF Tidy

LEMMA WanStartFollowed ==
  ASSUME Working, WanInv, Following, WanStart
  PROVE  Following'
<1>1. /\ listening' = FALSE /\ pending' = << >> /\ event' = Nothing
      /\ prev' = Primary /\ enabling' = "no" /\ wan' = wan
      /\ astray \in BOOLEAN
  BY DEF WanStart, WanInv, ListenerOK
<1>2. \/ Restart /\ astray' = (astray \/ wan # Primary)
      \/ Reboot /\ astray' = (wan # Primary)
  BY DEF WanStart, RollbackOverrun
<1>3. Blank(files')
  BY WanStartFiles, StepBlank DEF WanInv, Following
<1>4. Known'
  BY <1>1, <1>2 DEF Known, Latest
<1>5. ASSUME ~ astray'
      PROVE  CleanWhenOff(files', flag') /\ ForName(prev', files', flag')
  <2>1. CASE Reboot
    BY <1>1, <2>1, RebootForced DEF WanInv, Following, ForName
  <2>2. CASE Restart /\ astray' = (astray \/ wan # Primary)
    <3>1. Tidy(files, flag) /\ FilesBooted
      BY <1>1, <1>5, <2>2, RestartFiles DEF Following, Tidy, WanInv
    <3> QED
      BY <1>1, <3>1, BootedForced DEF WanInv, ForName, Tidy
  <2> QED
    BY <1>2, <2>1, <2>2
<1> QED
  BY <1>1, <1>3, <1>4, <1>5 DEF Following

LEMMA WanStepFollowed ==
  ASSUME Working, WanInv, Following, [WanNext]_allWanVars
  PROVE  Following'
<1>1. CASE Register
  <2>1. /\ listening' /\ UNCHANGED <<files, flag, wan, pending, event, prev, enabling, astray>>
    BY <1>1 DEF Register, vars
  <2> QED
    BY <2>1 DEF Following, Known, Latest, Quiet
<1>2. CASE UNCHANGED allWanVars
  BY <1>2 DEF allWanVars, wanVars, vars, Following, Known, Latest, Quiet
<1> QED
  BY <1>1, <1>2, WanChangesFollowed, ReceiveFollowed, NotificationFollowed,
     StartEnableFollowed, FinishEnableFollowed, OtherHandlerFollowed, DocumentFollowed,
     WanStartFollowed DEF WanNext, Listener

LEMMA WanInitFollowed ==
  ASSUME Working, WanInit
  PROVE  Following
<1>1. PICK fs \in Files : /\ fs.overrides = << >>
                          /\ ~ fs.confExists => fs.conf = << >>
                          /\ files = CosaXDNSInitialize(fs, flag, NoDefaults).fs
  BY InitFiles DEF WanInit
<1>2. Forced(files, flag) /\ Tidy(files, flag)
  BY <1>1, FreshAgree, AgreeForced
<1>3. /\ listening = FALSE /\ pending = << >> /\ event = Nothing
      /\ prev = Primary /\ enabling = "no" /\ astray = (wan # Primary)
  BY DEF WanInit
<1> QED
  BY <1>2, <1>3 DEF Following, Known, Latest, ForName, Tidy

\* With a syscfg that takes what it is given: once the listener has nothing
\* left to do, and nobody has crossed its way, resolv.conf is as the active
\* WAN wants it, for any interfaces, any number of changes and any policy.
THEOREM WanFollowedAtRest ==
  ASSUME "setFails" \notin SyscfgOutcomes, "lte" \notin WanStates
  PROVE  WanSpec => []WanSettled
<1>1. Working
  BY DEF Working
<1>2. WanInit => Following
  BY <1>1, WanInitFollowed
<1>3. WanInv /\ Following /\ [WanNext]_allWanVars => Following'
  BY <1>1, WanStepFollowed
<1>4. WanInv /\ Following => WanSettled
  <2> SUFFICES ASSUME WanInv, Following, event = Nothing, pending = << >>, ~ astray
               PROVE  InForce
    BY DEF WanSettled
  <2>1. Quiet
    BY DEF Quiet
  <2>2. wan = prev /\ ForName(prev, files, flag) /\ CleanWhenOff(files, flag)
    BY <2>1, QuietIsKnown DEF Following
  <2> QED
    BY <2>2 DEF InForce, ForName, Forced, HasDefault, CleanWhenOff
<1> QED
  BY <1>2, <1>3, <1>4, WanInvariant, PTL DEF WanSpec

=============================================================================
