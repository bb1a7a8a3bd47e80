--------------------------- MODULE XdnsKeyProofs ---------------------------
(***************************************************************************)
(* The lines of dnsmasq_servers.conf belong to a device, or to the         *)
(* default, each: where the words used as MACs are used as nothing else,   *)
(* strstr finds the lines of one of them and no others.  From that follows *)
(* what every handler, start and reboot does to the stored policy: it      *)
(* forgets no one, copies the lines of every other device, keeps one line  *)
(* per device and at most two for the default, and the pair that is        *)
(* reported is the stored one.                                             *)
(***************************************************************************)
EXTENDS XdnsDmlProofs

-----------------------------------------------------------------------------
(***************************************************************************)
(* Lines with one key.  Keys are the words that are used as MACs; a line   *)
(* has one of them, in second place, and strstr finds none in the other    *)
(* words, nor another one in that one.                                     *)
(***************************************************************************)
Clean(Keys) == {""} \cup {w \in Token : Parts[w] \cap Keys = {}}

KeyedLine(Keys) ==
  {l \in Line : /\ Len(l) >= 2 /\ l[2] \in Keys /\ Parts[l[2]] \cap Keys = {l[2]}
                /\ Width[l[1]] < 64
                /\ \A j \in DOMAIN l : j # 2 => l[j] \in Clean(Keys)}

\* The keyed lines that are written for mac.
KeyedEntries(Keys, mac) == KeyedLine(Keys) \cap EntriesOf(mac)

LEMMA KeyedLinesAreLines ==
  ASSUME NEW Keys, NEW mac
  PROVE  /\ KeyedLine(Keys) \subseteq Line
         /\ KeyedEntries(Keys, mac) \subseteq Line
         /\ KeyedEntries(Keys, mac) \subseteq KeyedLine(Keys)
         /\ KeyedEntries(Keys, mac) \subseteq EntriesOf(mac)
BY DEF KeyedLine, KeyedEntries

\* strstr finds a MAC in the lines of that device only.
LEMMA KeyedMention ==
  ASSUME NEW Keys, NEW mac \in Keys, NEW l \in KeyedLine(Keys)
  PROVE  /\ l \in Mentioning(mac) <=> l[2] = mac
         /\ Word(l, 2) = l[2] /\ l[2] \in Keys
<1>1. l \in Line /\ Len(l) \in Nat /\ Len(l) >= 2 /\ DOMAIN l = 1..Len(l)
  BY LenProperties DEF KeyedLine, Line
<1>2. /\ l[2] \in Keys /\ Parts[l[2]] \cap Keys = {l[2]}
      /\ \A j \in DOMAIN l : j # 2 => l[j] \in Clean(Keys)
  BY DEF KeyedLine
<1>3. 2 \in DOMAIN l
  BY <1>1
<1>4. \A j \in DOMAIN l : l[j] \in Token
  BY <1>1, ElementOfSeq DEF Line
<1>5. \A j \in DOMAIN l : j # 2 => mac \notin Parts[l[j]]
  BY <1>2, <1>4, WordsAssumption DEF Clean
<1>6. mac \in Parts[l[2]] <=> l[2] = mac
  BY <1>2
<1>7. l \in Mentioning(mac) <=> l[2] = mac
  BY <1>1, <1>3, <1>5, <1>6 DEF Mentioning
<1>8. Word(l, 2) = l[2]
  BY <1>1 DEF Word
<1> QED
  BY <1>2, <1>7, <1>8

\* No address or tag that is read from a line has a MAC in it.
LEMMA KeyedWord ==
  ASSUME NEW Keys \in SUBSET Token, NEW l \in KeyedLine(Keys), NEW i \in Nat \ {0, 2}
  PROVE  Word(l, i) \in Clean(Keys)
<1>1. l \in Line /\ Len(l) \in Nat /\ DOMAIN l = 1..Len(l)
  BY LenProperties DEF KeyedLine, Line
<1>2. CASE Len(l) >= i
  <2>1. i \in DOMAIN l
    BY <1>1, <1>2
  <2> QED
    BY <1>2, <2>1 DEF KeyedLine, Word
<1>3. CASE ~ (Len(l) >= i)
  BY <1>3 DEF Word, Clean
<1> QED
  BY <1>2, <1>3

\* The words of a line that Override writes.
LEMMA OverrideWords ==
  ASSUME NEW mac \in Token, NEW v4 \in Text, NEW v6 \in Text, NEW tag \in Text
  PROVE  Override(mac, v4, v6, tag)
           = <<"dnsoverride", mac>> \o Keep(<<v4, v6, tag>>, Token)
<1> DEFINE rest == <<v4, v6, tag>>
           word == <<mac>>
           first == <<"dnsoverride">>
<1>0. Token \subseteq Text /\ "dnsoverride" \in Text
  BY WordsAssumption DEF Text
<1>1. /\ rest \in Seq(Text) /\ word \in Seq(Text) /\ word \in Seq(Token)
      /\ first \in Seq(Text)
  BY <1>0
<1>2. <<mac, v4, v6, tag>> = word \o rest /\ <<"dnsoverride", mac>> = first \o word
  OBVIOUS
<1> HIDE DEF rest, word, first
<1>3. Keep(word, Token) = word
  BY <1>1, KeepAll
<1>4. Keep(word \o rest, Token) = Keep(word, Token) \o Keep(rest, Token)
  BY <1>1, KeepConcat
<1>5. Keep(rest, Token) \in Seq(Text)
  BY <1>1, KeepSub
<1>6. first \o (word \o Keep(rest, Token)) = (first \o word) \o Keep(rest, Token)
  BY <1>1, <1>5, ConcatAssociative
<1> QED
  BY <1>2, <1>3, <1>4, <1>6 DEF Override, first, rest

\* strstr finds no other device in a line that is written for one.
LEMMA OverrideKeyed ==
  ASSUME NEW Keys \in SUBSET Token, "dnsoverride" \in Clean(Keys),
         NEW mac \in Keys, Parts[mac] \cap Keys = {mac},
         NEW v4 \in Clean(Keys), NEW v6 \in Clean(Keys), NEW tag \in Clean(Keys)
  PROVE  Override(mac, v4, v6, tag) \in KeyedEntries(Keys, mac)
<1> DEFINE r == Keep(<<v4, v6, tag>>, Token)
           front == <<"dnsoverride", mac>>
           l == Override(mac, v4, v6, tag)
<1>0. Clean(Keys) \subseteq Text
  BY DEF Clean, Text
<1>1. l = front \o r
  BY <1>0, OverrideWords
<1>2. <<v4, v6, tag>> \in Seq(Clean(Keys))
  <2> DEFINE U == Clean(Keys)
  <2>1. v4 \in U /\ v6 \in U /\ tag \in U
    OBVIOUS
  <2> HIDE DEF U
  <2>2. <<v4, v6, tag>> \in Seq(U)
    BY <2>1
  <2> QED
    BY <2>2 DEF U
<1>3. r \in Seq(Clean(Keys))
  BY <1>2, KeepSub
<1>4. /\ front \in Seq(Text) /\ Len(front) = 2
      /\ front[1] = "dnsoverride" /\ front[2] = mac
  <2>1. mac \in Text /\ "dnsoverride" \in Text
    BY WordsAssumption DEF Text
  <2> QED
    BY <2>1
<1>5. r \in Seq(Text) /\ Len(r) \in Nat
  <2> QED
    BY <1>0, <1>3, SeqMonotonic, LenProperties
<1> HIDE DEF r, front
<1>6. /\ l \in Seq(Text) /\ Len(l) = 2 + Len(r)
      /\ l[1] = "dnsoverride" /\ l[2] = mac
      /\ \A j \in 3 .. 2 + Len(r) : l[j] = r[j - 2]
  <2>1. /\ front \o r \in Seq(Text) /\ Len(front \o r) = Len(front) + Len(r)
        /\ \A j \in 1 .. Len(front) + Len(r) :
             (front \o r)[j] = IF j <= Len(front) THEN front[j] ELSE r[j - Len(front)]
    BY <1>4, <1>5, ConcatProperties
  <2> HIDE DEF l
  <2> QED
    BY <1>1, <1>4, <1>5, <2>1
<1>7. ASSUME NEW j \in DOMAIN l, j # 2 PROVE l[j] \in Clean(Keys)
  <2>1. j \in 1 .. 2 + Len(r)
    BY <1>6, LenProperties
  <2>2. CASE j = 1
    BY <1>6, <2>2
  <2>3. CASE j # 1
    <3>1. j \in 3 .. 2 + Len(r) /\ j - 2 \in 1..Len(r)
      BY <1>5, <1>7, <2>1, <2>3
    <3>2. r[j - 2] \in Clean(Keys)
      BY <1>3, <3>1, ElementOfSeq
    <3> QED
      BY <1>6, <3>1, <3>2
  <2> QED
    BY <2>2, <2>3
<1>8. l \in EntriesOf(mac)
  BY <1>0, OverrideEntry
<1> HIDE DEF l
<1>9. l \in KeyedLine(Keys)
  <2>1. Width["dnsoverride"] < 64
    <3>1. Width["dnsoverride"] = 11
      BY DmlAssumption, Zenon
    <3> QED
      BY <3>1
  <2>2. Width[l[1]] < 64
    <3>1. l[1] = "dnsoverride"
      BY <1>6
    <3> QED
      BY <2>1, <3>1, Zenon
  <2> QED
    BY <1>5, <1>6, <1>7, <1>8, <2>2 DEF KeyedLine, EntriesOf
<1> QED
  BY <1>8, <1>9 DEF KeyedEntries, l

LEMMA EntryKeyed ==
  ASSUME NEW Keys \in SUBSET Token, "dnsoverride" \in Clean(Keys),
         NEW mac \in Keys, Parts[mac] \cap Keys = {mac},
         NEW v4 \in Clean(Keys), NEW v6 \in Clean(Keys), NEW tag \in Clean(Keys)
  PROVE  /\ Entry(mac, v4, v6, tag) \in Seq(KeyedEntries(Keys, mac))
         /\ Len(Entry(mac, v4, v6, tag)) <= 1
<1> DEFINE line == Override(mac, v4, v6, tag)
           E == KeyedEntries(Keys, mac)
<1>1. line \in E
  BY OverrideKeyed
<1>2. Entry(mac, v4, v6, tag) = <<line>> \/ Entry(mac, v4, v6, tag) = << >>
  BY DEF Entry
<1> HIDE DEF line, E
<1>3. <<line>> \in Seq(E) /\ << >> \in Seq(E) /\ Len(<<line>>) <= 1 /\ Len(<< >>) <= 1
  BY <1>1, EmptySeq
<1> QED
  BY <1>2, <1>3 DEF E

\* Lines appended for mac add to its own selection and to no other.
LEMMA JoinedSelection ==
  ASSUME NEW Keys, NEW mac \in Keys, NEW m \in Keys,
         NEW conf \in Seq(KeyedLine(Keys)), NEW lines \in Seq(KeyedEntries(Keys, mac))
  PROVE  Keep(conf \o lines, Mentioning(m))
           = Keep(conf, Mentioning(m)) \o (IF m = mac THEN lines ELSE << >>)
<1> DEFINE E == KeyedEntries(Keys, mac)
<1>1. lines \in Seq(KeyedLine(Keys))
  BY KeyedLinesAreLines, SeqMonotonic
<1>2. Keep(conf \o lines, Mentioning(m)) = Keep(conf, Mentioning(m)) \o Keep(lines, Mentioning(m))
  BY <1>1, KeepConcat
<1>3. \A l \in E : l \in KeyedLine(Keys) /\ l[2] = mac
  BY DEF KeyedEntries, EntriesOf
<1>4. CASE m = mac
  <2>1. E \subseteq Mentioning(m)
    BY <1>3, <1>4, KeyedMention
  <2>2. Keep(lines, Mentioning(m)) = lines
    BY <2>1, KeepAll
  <2> QED
    BY <1>2, <1>4, <2>2
<1>5. CASE m # mac
  <2>1. E \cap Mentioning(m) = {}
    BY <1>3, <1>5, KeyedMention
  <2>2. Keep(lines, Mentioning(m)) = << >>
    BY <2>1, KeepNone
  <2> QED
    BY <1>2, <1>5, <2>2
<1> QED
  BY <1>4, <1>5

\* Replacing the lines of mac leaves those of every other key as they are.
LEMMA ReplacedSelection ==
  ASSUME NEW Keys, NEW mac \in Keys, NEW m \in Keys,
         NEW conf \in Seq(KeyedLine(Keys)), NEW lines \in Seq(KeyedEntries(Keys, mac))
  PROVE  Keep(Keep(conf, Line \ Mentioning(mac)) \o lines, Mentioning(m))
           = IF m = mac THEN lines ELSE Keep(conf, Mentioning(m))
<1> DEFINE others == Keep(conf, Line \ Mentioning(mac))
           mine == Keep(conf, Mentioning(m))
<1>1. others \in Seq(KeyedLine(Keys)) /\ mine \in Seq(KeyedLine(Keys) \cap Mentioning(m))
  BY KeepSub, KeepType
<1>2. Keep(others \o lines, Mentioning(m))
        = Keep(others, Mentioning(m)) \o (IF m = mac THEN lines ELSE << >>)
  <2>1. \A c \in Seq(KeyedLine(Keys)) :
          Keep(c \o lines, Mentioning(m))
            = Keep(c, Mentioning(m)) \o (IF m = mac THEN lines ELSE << >>)
    BY JoinedSelection
  <2> HIDE DEF others, mine
  <2> QED
    BY <1>1, <2>1
<1>3. Keep(others, Mentioning(m)) = Keep(mine, Line \ Mentioning(mac))
  BY KeepCommute
<1> HIDE DEF others, mine
<1>4. CASE m = mac
  <2>1. (KeyedLine(Keys) \cap Mentioning(m)) \cap (Line \ Mentioning(mac)) = {}
    BY <1>4
  <2>2. Keep(mine, Line \ Mentioning(mac)) = << >>
    BY <1>1, <2>1, KeepNone
  <2>3. lines \in Seq(Line)
    BY KeyedLinesAreLines, SeqMonotonic
  <2> QED
    BY <1>2, <1>3, <1>4, <2>2, <2>3, ConcatEmptySeq DEF others
<1>5. CASE m # mac
  <2>1. KeyedLine(Keys) \cap Mentioning(m) \subseteq Line \ Mentioning(mac)
    BY <1>5, KeyedMention, KeyedLinesAreLines
  <2>2. Keep(mine, Line \ Mentioning(mac)) = mine
    BY <1>1, <2>1, KeepAll
  <2>3. mine \o << >> = mine
    BY <1>1, ConcatEmptySeq
  <2> QED
    BY <1>2, <1>3, <1>5, <2>2, <2>3 DEF others, mine
<1> QED
  BY <1>4, <1>5

-----------------------------------------------------------------------------
(***************************************************************************)
(* What a step does to the stored policy and to the default fields.        *)
(***************************************************************************)

\* The default fields as CreateDnsmasqServerConf fills them from d.
Fresh(d, new) ==
  /\ new \in Defaults
  /\ new["v4"] \in V4 \cup {""} /\ new["v6"] \in V6 \cup {""}
  /\ new["s4"] = "" /\ new["s6"] = ""
  /\ new["tag"] \in {d["tag"], "empty"}

\* The line that is appended when both nameservers are known, if it fits.
FreshLines(new) == Entry(DefaultMac, new["v4"], new["v6"], new["tag"])

\* CreateDnsmasqServerConf makes the policy conf1 of conf, and the fields d1 of d.
Made(conf, d, conf1, d1) ==
  \/ conf1 = conf /\ d1 = d
  \/ /\ Fresh(d, d1)
     /\ conf1 = IF d1["v4"] = "" \/ d1["v6"] = "" THEN conf ELSE conf \o FreshLines(d1)

\* CreateDnsmasqServerConf makes what Made says, also where it returns early.
LEMMA CreateMade ==
  ASSUME NEW fs \in Files, NEW flg, NEW d \in Defaults
  PROVE  Made(fs.conf, d, CreateDnsmasqServerConf(fs, flg, d).fs.conf,
              CreateDnsmasqServerConf(fs, flg, d).dflt)
<1> DEFINE new == [d EXCEPT !["v4"]  = IF @ \in V4 THEN @ ELSE fs.ns.v4,
                            !["v6"]  = IF @ \in V6 THEN @ ELSE fs.ns.v6,
                            !["s4"]  = "",
                            !["s6"]  = "",
                            !["tag"] = IF @ = "" THEN "empty" ELSE @]
           lines == Entry(DefaultMac, new["v4"], new["v6"], new["tag"])
           appended == AppendDnsmasqConfEntry(fs, lines)
           res == CreateDnsmasqServerConf(fs, flg, d)
<1>1. fs.ns.v4 \in V4 \cup {""} /\ fs.ns.v6 \in V6 \cup {""}
  BY DEF Files
<1>2. Fresh(d, new)
  BY <1>1, AddressesAreText DEF Defaults, DefaultFields, Fresh
<1>3. new["v4"] \in Text /\ new["v6"] \in Text /\ new["tag"] \in Text
  BY <1>2 DEF Fresh, Defaults, DefaultFields
<1> HIDE DEF new
<1>4. lines \in Seq(Line)
  BY <1>3, EntryType, AddressesAreText
<1>5. appended \in Files /\ appended.conf = fs.conf \o lines
  <2> HIDE DEF lines
  <2> QED
    BY <1>4, AppendType DEF AppendDnsmasqConfEntry, Files
<1>6. \/ res = [fs |-> fs, dflt |-> d]
      \/ (new["v4"] = "" \/ new["v6"] = "") /\ res = [fs |-> fs, dflt |-> new]
      \/ /\ ~ (new["v4"] = "" \/ new["v6"] = "")
         /\ res = [fs |-> RefreshResolvConfEntry(appended, flg), dflt |-> new]
  BY Zenon DEF CreateDnsmasqServerConf, new, lines
<1>7. RefreshResolvConfEntry(appended, flg).conf = fs.conf \o lines
  <2> HIDE DEF appended
  <2> QED
    BY <1>5 DEF RefreshResolvConfEntry, Files
<1>8. lines = FreshLines(new)
  BY DEF FreshLines
<1> HIDE DEF lines, appended, res
<1>9. \/ res.fs.conf = fs.conf /\ res.dflt = d
      \/ (new["v4"] = "" \/ new["v6"] = "") /\ res.fs.conf = fs.conf /\ res.dflt = new
      \/ /\ ~ (new["v4"] = "" \/ new["v6"] = "")
         /\ res.fs.conf = fs.conf \o lines /\ res.dflt = new
  <2>1. CASE res = [fs |-> fs, dflt |-> d]
    BY <2>1
  <2>2. CASE (new["v4"] = "" \/ new["v6"] = "") /\ res = [fs |-> fs, dflt |-> new]
    BY <2>2
  <2>3. CASE /\ ~ (new["v4"] = "" \/ new["v6"] = "")
             /\ res = [fs |-> RefreshResolvConfEntry(appended, flg), dflt |-> new]
    <3>1. res.fs = RefreshResolvConfEntry(appended, flg) /\ res.dflt = new
      BY <2>3
    <3> QED
      BY <1>7, <2>3, <3>1
  <2> QED
    BY <1>6, <2>1, <2>2, <2>3
<1>10. Made(fs.conf, d, res.fs.conf, res.dflt)
  BY <1>2, <1>8, <1>9 DEF Made
<1> QED
  BY <1>10 DEF res

\* A handler or a start that leaves the policy and the default fields alone.
Untouched == files'.conf = files.conf /\ UNCHANGED <<dflt, changed>>

DefaultStaged ==
  /\ files'.conf = files.conf
  /\ \E f \in DefaultFields : \E v \in DefaultInputs[f] :
       dflt' = [dflt EXCEPT ![f] = Stored(v)] /\ changed' = changed \cup {f}

\* The lines of mac make room for at most one.
LineStored(Keys, mac) ==
  \E lines \in Seq(KeyedEntries(Keys, mac)) :
    /\ Len(lines) <= 1
    /\ files'.conf = Keep(files.conf, Line \ Mentioning(mac)) \o lines

\* A row that is committed writes one line, if it fits, and never one for the
\* default.
RowStored(Keys) ==
  /\ UNCHANGED <<dflt, changed>>
  /\ \E mac \in Keys \ {DefaultMac} : LineStored(Keys, mac)

\* XDNS_Commit with both addresses known: at most two lines in place of the old.
PairStored ==
  /\ dflt["v4"] # "" /\ dflt["v6"] # ""
  /\ files'.conf = Keep(files.conf, Line \ Mentioning(DefaultMac)) \o DefaultEntries
  /\ dflt' = dflt /\ changed' = {}

\* XDNS_Commit with one of them unknown, after XDNS_Validate let it pass.
PairMade ==
  /\ dflt["v4"] = "" \/ dflt["v6"] = ""
  /\ \A f \in changed \cap {"v4", "v6"} : dflt[f] # ""
  /\ Made(files.conf, dflt, files'.conf, dflt')
  /\ changed' = {}

\* XDNS_Validate refused, and the stored pair is read back.
PairRestored == changed # {} /\ files' = files /\ XDNS_Rollback

\* Enabling makes a file that is missing, and may clean it of invalid lines.
SwitchedOn ==
  /\ changed' = changed
  /\ \E conf \in Seq(Line) :
       /\ IF files.confExists THEN conf = files.conf /\ dflt' = dflt
          ELSE Made(files.conf, dflt, conf, dflt')
       /\ files'.conf \in {conf, Keep(conf, ValidLines)}

\* A start reads the stored policy, or makes one.
Started ==
  /\ changed' = {}
  /\ IF files.confExists
     THEN files'.conf = files.conf /\ dflt' = DefaultsIn(files.conf, NoDefaults)
     ELSE Made(files.conf, NoDefaults, files'.conf, dflt')

\* Every step of the data model is one of these.
PolicyStep(Keys) ==
  \/ Untouched \/ DefaultStaged \/ RowStored(Keys)
  \/ PairStored \/ PairMade \/ PairRestored
  \/ SwitchedOn \/ Started

\* ReplaceDnsmasqConfEntry appends the new lines after those of the others.
LEMMA ReplacedConf ==
  ASSUME NEW fs \in Files, NEW flg, NEW mac \in Token, NEW lines \in Seq(Line)
  PROVE  /\ ReplaceDnsmasqConfEntry(fs, flg, mac, lines).conf
              = Keep(fs.conf, Line \ Mentioning(mac)) \o lines
         /\ ReplaceDnsmasqConfEntry(fs, flg, mac, lines).confExists
<1> DEFINE others == Keep(fs.conf, Line \ Mentioning(mac))
           kept == [fs EXCEPT !.conf = others]
           new == AppendDnsmasqConfEntry(kept, lines)
<1>1. others \in Seq(Line) /\ mac # ""
  BY KeepSub, WordsAssumption DEF Files
<1>2. ReplaceDnsmasqConfEntry(fs, flg, mac, lines) = RefreshResolvConfEntry(new, flg)
  BY <1>1 DEF ReplaceDnsmasqConfEntry
<1> HIDE DEF others
<1>3. kept \in Files /\ kept.conf = others
  BY <1>1 DEF Files
<1> HIDE DEF kept
<1>4. new \in Files /\ new.conf = others \o lines /\ new.confExists
  BY <1>3, AppendType DEF AppendDnsmasqConfEntry, Files
<1> HIDE DEF new
<1>5. /\ RefreshResolvConfEntry(new, flg).conf = new.conf
      /\ RefreshResolvConfEntry(new, flg).confExists = new.confExists
  BY <1>4 DEF RefreshResolvConfEntry, Files
<1> QED
  BY <1>2, <1>4, <1>5 DEF others

\* CosaXDNSInitialize reads the policy of a file that is there.
LEMMA StartConf ==
  ASSUME NEW fs \in Files, NEW flg, NEW d \in Defaults
  PROVE  LET s == CosaXDNSInitialize(fs, flg, d)
         IN IF fs.confExists THEN s.fs.conf = fs.conf /\ s.dflt = DefaultsIn(fs.conf, d)
            ELSE Made(fs.conf, d, s.fs.conf, s.dflt)
<1> DEFINE s == CosaXDNSInitialize(fs, flg, d)
           c == CosaDmlGetSelfHealCfg(fs, flg, d)
<1>1. s.fs = c.fs /\ s.dflt = c.dflt
  BY DEF CosaXDNSInitialize
<1>2. CASE fs.confExists
  <2>1. c = [fs |-> RefreshResolvConfEntry(fs, flg), dflt |-> DefaultsIn(fs.conf, d)]
    BY <1>2 DEF CosaDmlGetSelfHealCfg
  <2>2. RefreshResolvConfEntry(fs, flg).conf = fs.conf
    BY DEF RefreshResolvConfEntry, Files
  <2> HIDE DEF s, c
  <2>3. c.fs.conf = fs.conf /\ c.dflt = DefaultsIn(fs.conf, d)
    BY <2>1, <2>2
  <2> QED
    BY <1>1, <1>2, <2>3 DEF s
<1>3. CASE ~ fs.confExists
  <2>1. c = CreateDnsmasqServerConf(fs, flg, d)
    BY <1>3 DEF CosaDmlGetSelfHealCfg
  <2> HIDE DEF s, c
  <2>2. Made(fs.conf, d, c.fs.conf, c.dflt)
    BY <2>1, CreateMade
  <2> QED
    BY <1>1, <1>3, <2>2 DEF s
<1> QED
  BY <1>2, <1>3

-----------------------------------------------------------------------------
(***************************************************************************)
(* The words that are used as MACs, and what is assumed of them: strstr    *)
(* finds none in an address, tag or name that the system is given, nor     *)
(* another one in a MAC.                                                   *)
(***************************************************************************)
KeysApart(Keys) ==
  /\ DefaultMac \in Keys /\ Keys \subseteq Token
  /\ \A k \in Keys : Parts[k] \cap Keys = {k} /\ Width[k] < 64
  /\ {"dnsoverride", "empty"} \cup V4 \cup V6 \subseteq Clean(Keys)
  /\ Lower[""] = "" /\ \A v \in RowInputs["mac"] : Lower[Stored(v)] \in Keys \cup {""}
  /\ \A f \in RowFields \ {"mac"} : RowInputs[f] \subseteq Clean(Keys) \cup {TooLong}
  /\ \A f \in DefaultFields : DefaultInputs[f] \subseteq Clean(Keys) \cup {TooLong}
  /\ BootConf \subseteq Seq(KeyedLine(Keys))

\* A row whose MAC is the default one has it still to be judged.
KeyedRow(Keys, row) ==
  /\ row.val["mac"] \in Keys \cup {""}
  /\ \A f \in RowFields \ {"mac"} : row.val[f] \in Clean(Keys)
  /\ row.val["mac"] = DefaultMac => "mac" \in row.changed

KeyedRows(Keys, list) == \A i \in DOMAIN list : KeyedRow(Keys, list[i])

\* The default fields hold addresses and a tag, with no MAC in them.
KeyedFields(Keys, d) == \A f \in DefaultFields : d[f] \in Clean(Keys)

\* The words of the stored lines, the default fields and the table stay apart.
\* The row clause is inductive only with the changed set: a row may be told
\* the default MAC, and Validate has still to refuse it.
KeyedInv(Keys) ==
  /\ DmlInv
  /\ files.conf \in Seq(KeyedLine(Keys))
  /\ ~ files.confExists => files.conf = << >>
  /\ KeyedFields(Keys, dflt)
  /\ KeyedRows(Keys, rows)

\* Restarts and reboots are starts on what is stored.
LEMMA StartedPolicy ==
  ASSUME NEW fs \in Files, fs.conf = files.conf, fs.confExists = files.confExists, StartOn(fs)
  PROVE  Started
<1> DEFINE s == CosaXDNSInitialize(fs, flag', NoDefaults)
<1>1. files' = s.fs /\ dflt' = s.dflt /\ changed' = {}
  BY DEF StartOn
<1>2. IF fs.confExists THEN s.fs.conf = fs.conf /\ s.dflt = DefaultsIn(fs.conf, NoDefaults)
      ELSE Made(fs.conf, NoDefaults, s.fs.conf, s.dflt)
  BY StartConf, NoDefaultsType
<1> HIDE DEF s
<1> QED
  BY <1>1, <1>2 DEF Started

LEMMA RestartPolicy ==
  ASSUME DmlInv, Restart
  PROVE  Started
BY StartedPolicy DEF Restart, DmlInv, TypeOK

LEMMA RebootPolicy ==
  ASSUME DmlInv, Reboot
  PROVE  Started
<1>1. PICK ns \in BootNameservers, here \in BOOLEAN : StartOn(BootFiles(files, ns, here))
  BY DEF Reboot
<1>2. /\ files \in Files /\ BootFiles(files, ns, here) \in Files
      /\ BootFiles(files, ns, here).conf = files.conf
      /\ BootFiles(files, ns, here).confExists = files.confExists
  <2>1. files \in Files
    BY DEF DmlInv, TypeOK
  <2> QED
    BY <2>1, BootFilesType DEF BootFiles, Files
<1> QED
  BY <1>1, <1>2, StartedPolicy

LEMMA EnablePolicy ==
  ASSUME DmlInv, NEW wan, EnableXdns(wan)
  PROVE  Untouched \/ SwitchedOn
<1> DEFINE create == CreateDnsmasqServerConf(files, flag, dflt)
           made == IF files.confExists THEN [fs |-> files, dflt |-> dflt] ELSE create
<1>1. files \in Files /\ dflt \in Defaults
  BY DEF DmlInv, TypeOK, Defaults
<1>2. create.fs \in Files /\ Made(files.conf, dflt, create.fs.conf, create.dflt)
  BY <1>1, CreateType, CreateMade
<1> HIDE DEF create
<1>3. /\ made.fs \in Files
      /\ IF files.confExists THEN made.fs.conf = files.conf /\ made.dflt = dflt
         ELSE Made(files.conf, dflt, made.fs.conf, made.dflt)
  BY <1>1, <1>2
<1>4. /\ changed' = changed
      /\ \/ files' = SetXdnsConfig(made.fs).fs /\ dflt' = made.dflt
         \/ files' = files /\ dflt' = dflt
  BY DEF EnableXdns, create
<1> HIDE DEF made
<1>5. CASE files' = SetXdnsConfig(made.fs).fs /\ dflt' = made.dflt
  <2>1. made.fs.conf \in Seq(Line)
    BY <1>3 DEF Files
  <2>2. SetXdnsConfig(made.fs).fs.conf \in {made.fs.conf, Keep(made.fs.conf, ValidLines)}
    BY <1>3 DEF SetXdnsConfig, Files
  <2> QED
    BY <1>3, <1>4, <1>5, <2>1, <2>2 DEF SwitchedOn
<1>6. CASE files' = files /\ dflt' = dflt
  BY <1>4, <1>6 DEF Untouched
<1> QED
  BY <1>4, <1>5, <1>6

LEMMA ApplyDefaultsPolicy ==
  ASSUME DmlInv, ApplyDefaults
  PROVE  PairStored \/ PairMade \/ PairRestored
<1>1. files \in Files /\ dflt \in Defaults /\ changed # {}
  BY DEF DmlInv, TypeOK, Defaults, ApplyDefaults
<1>2. CASE XDNS_Validate /\ XDNS_Commit
  <2>1. changed' = {} /\ \A f \in changed \cap {"v4", "v6"} : dflt[f] # ""
    BY <1>2 DEF XDNS_Validate, XDNS_Commit
  <2>2. CASE dflt["v4"] # "" /\ dflt["v6"] # ""
    <3>1. /\ files' = ReplaceDnsmasqConfEntry(files, flag, DefaultMac, DefaultEntries)
          /\ dflt' = dflt
      BY <1>2, <2>2 DEF XDNS_Commit
    <3>2. files'.conf = Keep(files.conf, Line \ Mentioning(DefaultMac)) \o DefaultEntries
      <4>1. DefaultEntries \in Seq(Line) /\ DefaultMac \in Token
        BY <1>1, DefaultEntriesType, WordsAssumption
      <4>2. ReplaceDnsmasqConfEntry(files, flag, DefaultMac, DefaultEntries).conf
              = Keep(files.conf, Line \ Mentioning(DefaultMac)) \o DefaultEntries
        BY <1>1, <4>1, ReplacedConf
      <4> QED
        BY <3>1, <4>2
    <3> QED
      BY <2>1, <2>2, <3>1, <3>2 DEF PairStored
  <2>3. CASE ~ (dflt["v4"] # "" /\ dflt["v6"] # "")
    <3>1. /\ files' = CreateDnsmasqServerConf(files, flag, dflt).fs
          /\ dflt' = CreateDnsmasqServerConf(files, flag, dflt).dflt
      BY <1>2, <2>3 DEF XDNS_Commit
    <3>2. Made(files.conf, dflt, files'.conf, dflt')
      BY <1>1, <3>1, CreateMade
    <3> QED
      BY <2>1, <2>3, <3>2 DEF PairMade
  <2> QED
    BY <2>2, <2>3
<1>3. CASE XDNS_Rollback
  BY <1>1, <1>3 DEF XDNS_Rollback, PairRestored
<1> QED
  BY <1>2, <1>3 DEF ApplyDefaults

\* A row that is applied changes the lines of its own MAC, if any.
LEMMA ApplyRowPolicy ==
  ASSUME NEW Keys, KeysApart(Keys), KeyedInv(Keys), NEW i \in DOMAIN rows, ApplyRow(i)
  PROVE  /\ UNCHANGED <<dflt, changed>>
         /\ \/ files'.conf = files.conf
            \/ /\ rows[i].val["mac"] \in Keys \ {DefaultMac}
               /\ LineStored(Keys, rows[i].val["mac"])
<1> DEFINE val == rows[i].val
           lines == Entry(val["mac"], val["v4"], val["v6"], val["tag"])
<1>1. /\ files \in Files /\ rows[i] \in Row /\ KeyedRow(Keys, rows[i])
      /\ UNCHANGED <<dflt, changed>>
  BY InsType DEF KeyedInv, KeyedRows, DmlInv, TypeOK, ApplyRow
<1>2. CASE files' = files
  BY <1>1, <1>2
<1>3. CASE DNSMappingTable_Validate(rows[i]) /\ DNSMappingTable_Commit(i)
  <2>1. files' = ReplaceDnsmasqConfEntry(files, flag, val["mac"], lines)
    BY <1>3 DEF DNSMappingTable_Commit
  <2>2. val["mac"] \in Keys \cup {""} /\ val["mac"] # DefaultMac
    BY <1>1, <1>3 DEF KeyedRow, DNSMappingTable_Validate, MacRefused
  <2>3. CASE val["mac"] = ""
    BY <1>1, <2>1, <2>3 DEF ReplaceDnsmasqConfEntry
  <2>4. CASE val["mac"] # ""
    <3>1. val["mac"] \in Keys \ {DefaultMac} /\ val["mac"] \in Token
      BY <2>2, <2>4 DEF KeysApart
    <3>2. val["v4"] \in Clean(Keys) /\ val["v6"] \in Clean(Keys) /\ val["tag"] \in Clean(Keys)
      BY <1>1 DEF KeyedRow, RowFields
    <3>3. lines \in Seq(KeyedEntries(Keys, val["mac"])) /\ Len(lines) <= 1
      BY <3>1, <3>2, EntryKeyed DEF KeysApart
    <3> HIDE DEF lines, val
    <3>4. lines \in Seq(Line)
      BY <3>3, KeyedLinesAreLines, SeqMonotonic
    <3>5. files'.conf = Keep(files.conf, Line \ Mentioning(val["mac"])) \o lines
      <4>1. \A mac \in Token, new \in Seq(Line) :
              ReplaceDnsmasqConfEntry(files, flag, mac, new).conf
                = Keep(files.conf, Line \ Mentioning(mac)) \o new
        BY <1>1, ReplacedConf
      <4> QED
        BY <2>1, <3>1, <3>4, <4>1
    <3>6. LineStored(Keys, val["mac"])
      BY <3>3, <3>5 DEF LineStored
    <3> QED
      BY <1>1, <3>1, <3>6 DEF val
  <2> QED
    BY <2>3, <2>4
<1> QED
  BY <1>2, <1>3 DEF ApplyRow

LEMMA TableStepPolicy ==
  ASSUME NEW Keys, KeysApart(Keys), KeyedInv(Keys), TableStep
  PROVE  Untouched \/ RowStored(Keys)
<1>1. CASE DNSMappingTable_AddEntry
  BY <1>1 DEF DNSMappingTable_AddEntry, Untouched
<1>2. ASSUME NEW i \in DOMAIN rows, DNSMappingTable_DelEntry(i) PROVE Untouched
  BY <1>2 DEF DNSMappingTable_DelEntry, Untouched
<1>3. ASSUME NEW i \in DOMAIN rows, NEW f \in RowFields, NEW v \in RowInputs[f],
             DNSMappingTable_SetParamStringValue(i, f, v)
      PROVE  Untouched
  BY <1>3 DEF DNSMappingTable_SetParamStringValue, Untouched
<1>4. ASSUME NEW i \in DOMAIN rows, ApplyRow(i) PROVE Untouched \/ RowStored(Keys)
  <2>1. /\ UNCHANGED <<dflt, changed>>
        /\ \/ files'.conf = files.conf
           \/ /\ rows[i].val["mac"] \in Keys \ {DefaultMac}
              /\ LineStored(Keys, rows[i].val["mac"])
    BY <1>4, ApplyRowPolicy
  <2> QED
    BY <2>1, Zenon DEF Untouched, RowStored
<1> QED
  BY <1>1, <1>2, <1>3, <1>4 DEF TableStep

LEMMA StepPolicy ==
  ASSUME NEW Keys, KeysApart(Keys), KeyedInv(Keys), [Next]_vars
  PROVE  PolicyStep(Keys)
<1>0. DmlInv
  BY DEF KeyedInv
<1>1. ASSUME NEW wan \in WanStates, EnableXdns(wan) PROVE PolicyStep(Keys)
  BY <1>0, <1>1, EnablePolicy DEF PolicyStep
<1>2. CASE DisableXdns
  BY <1>0, <1>2 DEF DisableXdns, UnsetXdnsConfig, DmlInv, TypeOK, Files, Untouched, PolicyStep
<1>3. ASSUME NEW f \in DefaultFields, NEW v \in DefaultInputs[f], XDNS_SetParamStringValue(f, v)
      PROVE  PolicyStep(Keys)
  BY <1>3 DEF XDNS_SetParamStringValue, DefaultStaged, PolicyStep
<1>4. CASE ApplyDefaults
  BY <1>0, <1>4, ApplyDefaultsPolicy DEF PolicyStep
<1>5. CASE RollbackOverrun
  BY <1>0, <1>5, RestartPolicy DEF RollbackOverrun, PolicyStep
<1>6. CASE TableStep
  BY <1>6, TableStepPolicy DEF PolicyStep
<1>7. CASE Restart
  BY <1>0, <1>7, RestartPolicy DEF PolicyStep
<1>8. CASE Reboot
  BY <1>0, <1>8, RebootPolicy DEF PolicyStep
<1>9. CASE UNCHANGED vars
  BY <1>9 DEF vars, Untouched, PolicyStep
<1>10. ASSUME NEW i \in DOMAIN rows, RowOverrun(i) PROVE PolicyStep(Keys)
  BY <1>0, <1>10, RestartPolicy DEF RowOverrun, PolicyStep
<1> QED
  BY <1>1, <1>2, <1>3, <1>4, <1>5, <1>6, <1>7, <1>8, <1>9, <1>10
     DEF Next, Handler, StartAgain

-----------------------------------------------------------------------------
(***************************************************************************)
(* The keys stay apart: fields.                                            *)
(***************************************************************************)

\* What is read from the first or the last of some keyed lines is no MAC.
LEMMA KeyedReading ==
  ASSUME NEW Keys \in SUBSET Token, NEW s \in Seq(KeyedLine(Keys)), s # << >>
  PROVE  \A i \in {3, 4, 5} : Word(s[1], i) \in Clean(Keys) /\ Word(s[Len(s)], i) \in Clean(Keys)
<1>1. Len(s) \in Nat \ {0}
  BY EmptySeq
<1>2. s[1] \in KeyedLine(Keys) /\ s[Len(s)] \in KeyedLine(Keys)
  BY <1>1, ElementOfSeq
<1> QED
  BY <1>2, KeyedWord

\* Nor is anything in the fields before the first start.
LEMMA NoDefaultsKeyed ==
  ASSUME NEW Keys \in SUBSET Token
  PROVE  KeyedFields(Keys, NoDefaults)
BY DEF KeyedFields, NoDefaults, Clean

\* What a start reads into the default fields is no MAC.
LEMMA DefaultsInKeyed ==
  ASSUME NEW Keys \in SUBSET Token, NEW conf \in Seq(KeyedLine(Keys)),
         NEW d \in Defaults, KeyedFields(Keys, d)
  PROVE  KeyedFields(Keys, DefaultsIn(conf, d))
<1> DEFINE four == Keep(Keep(conf, Mentioning(DefaultMac)), WithWord(3, Dotted))
           six  == Keep(four, WithWord(4, Coloned))
           tags == Keep(six, WithWord(5, Token))
           K == KeyedLine(Keys)
<1>1. four \in Seq(K) /\ six \in Seq(K) /\ tags \in Seq(K)
  BY KeepSub
<1>2. ASSUME NEW s \in Seq(K), s # << >>
      PROVE  \A i \in {3, 4, 5} : Word(s[1], i) \in Clean(Keys) /\ Word(s[Len(s)], i) \in Clean(Keys)
  BY <1>2, KeyedReading
<1>3. Len(<< >>) = 0
  OBVIOUS
<1>4. DefaultsIn(conf, d) =
        [f \in DefaultFields |->
           CASE f = "v4" /\ four # << >> -> Word(four[1], 3)
             [] f = "s4" /\ Len(four) > 1 -> Word(four[Len(four)], 3)
             [] f = "v6" /\ six # << >> -> Word(six[1], 4)
             [] f = "s6" /\ Len(six) > 1 -> Word(six[Len(six)], 4)
             [] f = "tag" /\ tags # << >> -> Word(tags[Len(tags)], 5)
             [] OTHER -> d[f]]
  BY DEF DefaultsIn
<1> HIDE DEF four, six, tags, K
<1>5. \A f \in DefaultFields : DefaultsIn(conf, d)[f] \in Clean(Keys)
  BY <1>1, <1>2, <1>3, <1>4 DEF KeyedFields, DefaultFields
<1> QED
  BY <1>5 DEF KeyedFields

\* Nor is what CreateDnsmasqServerConf puts in them, and its line is keyed.
LEMMA FreshKeyed ==
  ASSUME NEW Keys, KeysApart(Keys), NEW d \in Defaults, KeyedFields(Keys, d),
         NEW new, Fresh(d, new)
  PROVE  /\ KeyedFields(Keys, new)
         /\ FreshLines(new) \in Seq(KeyedEntries(Keys, DefaultMac))
<1>1. /\ new["v4"] \in Clean(Keys) /\ new["v6"] \in Clean(Keys) /\ new["tag"] \in Clean(Keys)
      /\ new["s4"] \in Clean(Keys) /\ new["s6"] \in Clean(Keys)
  <2>1. "" \in Clean(Keys)
    BY DEF Clean
  <2> QED
    BY <2>1 DEF Fresh, KeysApart, KeyedFields, DefaultFields
<1>2. FreshLines(new) \in Seq(KeyedEntries(Keys, DefaultMac))
  BY <1>1, EntryKeyed DEF FreshLines, KeysApart
<1> QED
  BY <1>1, <1>2 DEF KeyedFields, DefaultFields

\* The policy it makes is keyed.
LEMMA MadeKeyed ==
  ASSUME NEW Keys, KeysApart(Keys), NEW conf \in Seq(KeyedLine(Keys)),
         NEW d \in Defaults, KeyedFields(Keys, d), NEW conf1, NEW d1, Made(conf, d, conf1, d1)
  PROVE  conf1 \in Seq(KeyedLine(Keys)) /\ KeyedFields(Keys, d1)
<1>1. CASE conf1 = conf /\ d1 = d
  BY <1>1
<1>2. CASE /\ Fresh(d, d1)
           /\ conf1 = IF d1["v4"] = "" \/ d1["v6"] = "" THEN conf ELSE conf \o FreshLines(d1)
  <2>1. KeyedFields(Keys, d1) /\ FreshLines(d1) \in Seq(KeyedLine(Keys))
    BY <1>2, FreshKeyed, KeyedLinesAreLines, SeqMonotonic
  <2>2. conf \o FreshLines(d1) \in Seq(KeyedLine(Keys))
    BY <2>1, ConcatProperties
  <2> QED
    BY <1>2, <2>1, <2>2
<1> QED
  BY <1>1, <1>2 DEF Made

\* So are the lines XDNS_Commit writes for the default.
LEMMA EntriesKeyed ==
  ASSUME NEW Keys, KeysApart(Keys), KeyedFields(Keys, dflt)
  PROVE  DefaultEntries \in Seq(KeyedEntries(Keys, DefaultMac))
<1> DEFINE one == Entry(DefaultMac, dflt["v4"], dflt["v6"], dflt["tag"])
           two == Entry(DefaultMac, dflt["s4"], dflt["s6"], dflt["tag"])
           E == KeyedEntries(Keys, DefaultMac)
<1>1. \A f \in DefaultFields : dflt[f] \in Clean(Keys)
  BY DEF KeyedFields
<1>2. one \in Seq(E) /\ two \in Seq(E)
  BY <1>1, EntryKeyed DEF DefaultFields, KeysApart
<1>3. DefaultEntries = one \o (IF dflt["s4"] # "" /\ dflt["s6"] # "" THEN two ELSE << >>)
  BY DEF DefaultEntries
<1> HIDE DEF one, two, E
<1> QED
  BY <1>2, <1>3, EmptySeq, ConcatProperties DEF E

\* XDNS_Rollback reads addresses back, no MAC.
LEMMA RestoredKeyed ==
  ASSUME NEW Keys, KeysApart(Keys), KeyedInv(Keys), XDNS_Rollback
  PROVE  KeyedFields(Keys, dflt')
<1> DEFINE found == GetDnsMasqFileEntry(files, DefaultMac)
           p == found[1]
           s == found[MAX_XDNS_SERV]
           ok1 == Len(found) >= MAX_XDNS_SERV /\ p \in WithWord(3, Dotted)
           ok2 == ok1 /\ s \in WithWord(3, Dotted)
           ok3 == ok2 /\ p \in WithWord(4, Coloned)
           ok4 == ok3 /\ s \in WithWord(4, Coloned)
<1>1. Keys \in SUBSET Token
  BY DEF KeysApart
<1>2. found \in Seq(KeyedLine(Keys))
  BY KeepSub, EmptySeq DEF GetDnsMasqFileEntry, KeyedInv
<1>3. \A f \in DefaultFields : dflt[f] \in Clean(Keys)
  BY DEF KeyedInv, KeyedFields
<1>4. dflt' = [f \in DefaultFields |->
                 CASE f = "v4" /\ ok1 -> Word(p, 3)
                   [] f = "s4" /\ ok2 -> Word(s, 3)
                   [] f = "v6" /\ ok3 -> Word(p, 4)
                   [] f = "s6" /\ ok4 -> Word(s, 4)
                   [] f = "tag" /\ ok4 -> Word(p, 5)
                   [] OTHER -> dflt[f]]
  BY DEF XDNS_Rollback
<1> HIDE DEF found
<1>5. ASSUME Len(found) >= MAX_XDNS_SERV
      PROVE  \A i \in {3, 4, 5} : Word(p, i) \in Clean(Keys) /\ Word(s, i) \in Clean(Keys)
  <2>1. 1 \in 1..Len(found) /\ 2 \in 1..Len(found)
    BY <1>2, <1>5, LenProperties DEF MAX_XDNS_SERV
  <2>2. p \in KeyedLine(Keys) /\ s \in KeyedLine(Keys)
    BY <1>2, <2>1, ElementOfSeq DEF MAX_XDNS_SERV
  <2> QED
    BY <1>1, <2>2, KeyedWord
<1>6. /\ ok1 => Len(found) >= MAX_XDNS_SERV
      /\ ok2 => Len(found) >= MAX_XDNS_SERV
      /\ ok3 => Len(found) >= MAX_XDNS_SERV
      /\ ok4 => Len(found) >= MAX_XDNS_SERV
  OBVIOUS
<1> HIDE DEF p, s, ok1, ok2, ok3, ok4
<1>7. \A f \in DefaultFields : dflt'[f] \in Clean(Keys)
  BY <1>3, <1>4, <1>5, <1>6 DEF DefaultFields
<1> QED
  BY <1>7 DEF KeyedFields

\* The stored policy and the default fields after a step.
LEMMA PolicyKeyed ==
  ASSUME NEW Keys, KeysApart(Keys), KeyedInv(Keys), PolicyStep(Keys)
  PROVE  files'.conf \in Seq(KeyedLine(Keys)) /\ KeyedFields(Keys, dflt')
<1> DEFINE K == KeyedLine(Keys)
<1>1. /\ Keys \in SUBSET Token /\ files.conf \in Seq(K)
      /\ dflt \in Defaults /\ KeyedFields(Keys, dflt)
  BY DEF KeysApart, KeyedInv, DmlInv, TypeOK, Defaults
<1>2. CASE Untouched
  BY <1>1, <1>2 DEF Untouched
<1>3. CASE DefaultStaged
  <2>1. PICK f \in DefaultFields : \E v \in DefaultInputs[f] : dflt' = [dflt EXCEPT ![f] = Stored(v)]
    BY <1>3 DEF DefaultStaged
  <2>2. PICK v \in DefaultInputs[f] : dflt' = [dflt EXCEPT ![f] = Stored(v)]
    BY <2>1
  <2>3. Stored(v) \in Clean(Keys)
    BY DEF Stored, KeysApart, Clean
  <2> QED
    BY <1>1, <1>3, <2>2, <2>3 DEF DefaultStaged, KeyedFields, Defaults
<1>4. CASE RowStored(Keys)
  <2>1. PICK mac \in Keys : LineStored(Keys, mac)
    BY <1>4 DEF RowStored
  <2>2. PICK lines \in Seq(KeyedEntries(Keys, mac)) :
          files'.conf = Keep(files.conf, Line \ Mentioning(mac)) \o lines
    BY <2>1 DEF LineStored
  <2>3. Keep(files.conf, Line \ Mentioning(mac)) \in Seq(K) /\ lines \in Seq(K)
    BY <1>1, KeepSub, KeyedLinesAreLines, SeqMonotonic
  <2>4. files'.conf \in Seq(K)
    BY <2>2, <2>3, ConcatProperties
  <2> QED
    BY <1>1, <1>4, <2>4 DEF RowStored
<1>5. CASE PairStored
  <2>1. Keep(files.conf, Line \ Mentioning(DefaultMac)) \in Seq(K) /\ DefaultEntries \in Seq(K)
    <3>1. DefaultEntries \in Seq(KeyedEntries(Keys, DefaultMac))
      BY <1>1, EntriesKeyed
    <3> QED
      BY <1>1, <3>1, KeepSub, KeyedLinesAreLines, SeqMonotonic
  <2>2. files'.conf \in Seq(K)
    BY <1>5, <2>1, ConcatProperties DEF PairStored
  <2> QED
    BY <1>1, <1>5, <2>2 DEF PairStored
<1>6. CASE PairMade
  BY <1>1, <1>6, MadeKeyed DEF PairMade
<1>7. CASE PairRestored
  BY <1>1, <1>7, RestoredKeyed DEF PairRestored
<1>8. CASE SwitchedOn
  <2>1. PICK conf \in Seq(Line) :
          /\ IF files.confExists THEN conf = files.conf /\ dflt' = dflt
             ELSE Made(files.conf, dflt, conf, dflt')
          /\ files'.conf \in {conf, Keep(conf, ValidLines)}
    BY <1>8 DEF SwitchedOn
  <2>2. conf \in Seq(K) /\ KeyedFields(Keys, dflt')
    BY <1>1, <2>1, MadeKeyed
  <2> QED
    BY <2>1, <2>2, KeepSub
<1>9. CASE Started
  BY <1>1, <1>9, DefaultsInKeyed, NoDefaultsKeyed, NoDefaultsType, MadeKeyed DEF Started
<1> QED
  BY <1>2, <1>3, <1>4, <1>5, <1>6, <1>7, <1>8, <1>9 DEF PolicyStep

-----------------------------------------------------------------------------
(***************************************************************************)
(* Without dnsmasq_servers.conf there is no stored line.                   *)
(***************************************************************************)
NoFileNoLine(fs) == ~ fs.confExists => fs.conf = << >>

LEMMA CreateNoFile ==
  ASSUME NEW fs \in Files, NEW flg, NEW d \in Defaults, NoFileNoLine(fs)
  PROVE  NoFileNoLine(CreateDnsmasqServerConf(fs, flg, d).fs)
<1> DEFINE new == CreateDnsmasqServerConf(fs, flg, d).fs
<1>1. \/ new = fs
      \/ \E lines \in Seq(EntriesOf(DefaultMac)) :
           new = RefreshResolvConfEntry(AppendDnsmasqConfEntry(fs, lines), flg)
  BY CreateCases
<1>2. \A lines \in Seq(EntriesOf(DefaultMac)) :
        RefreshResolvConfEntry(AppendDnsmasqConfEntry(fs, lines), flg).confExists
  BY DEF RefreshResolvConfEntry, AppendDnsmasqConfEntry, Files
<1> HIDE DEF new
<1> QED
  BY <1>1, <1>2 DEF NoFileNoLine, new

LEMMA InitializeNoFile ==
  ASSUME NEW fs \in Files, NEW flg, NEW d \in Defaults, NoFileNoLine(fs)
  PROVE  NoFileNoLine(CosaXDNSInitialize(fs, flg, d).fs)
<1>1. CASE fs.confExists
  BY <1>1, InitializeFiles DEF RefreshResolvConfEntry, NoFileNoLine, Files
<1>2. CASE ~ fs.confExists
  <2>1. CosaXDNSInitialize(fs, flg, d).fs = CreateDnsmasqServerConf(fs, flg, d).fs
    BY <1>2, InitializeFiles
  <2> QED
    BY <2>1, CreateNoFile
<1> QED
  BY <1>1, <1>2

\* No step takes the lines of a file that is not there.
LEMMA StepNoFile ==
  ASSUME DmlInv, NoFileNoLine(files), [Next]_vars
  PROVE  NoFileNoLine(files')
<1>1. FileStep /\ files \in Files /\ dflt \in Defaults
  BY StepFiles DEF DmlInv, TypeOK, Defaults
<1>2. CASE FilesKept
  BY <1>2 DEF FilesKept
<1>3. CASE FilesReplaced
  <2>1. PICK mac \in Token : \E lines \in Seq(EntriesOf(mac)) :
          files' = ReplaceDnsmasqConfEntry(files, flag, mac, lines)
    BY <1>3 DEF FilesReplaced
  <2>2. PICK lines \in Seq(EntriesOf(mac)) :
          files' = ReplaceDnsmasqConfEntry(files, flag, mac, lines)
    BY <2>1
  <2>3. lines \in Seq(Line)
    BY EntriesAreLines
  <2>4. ReplaceDnsmasqConfEntry(files, flag, mac, lines).confExists
    BY <1>1, <2>3, ReplacedConf
  <2> QED
    BY <2>2, <2>4 DEF NoFileNoLine
<1>4. CASE FilesCreated
  BY <1>1, <1>4, CreateNoFile DEF FilesCreated
<1>5. CASE FilesSet
  <2>1. PICK fs \in Files :
          /\ fs = files \/ fs = CreateDnsmasqServerConf(files, flag, dflt).fs
          /\ files' = SetXdnsConfig(fs).fs
    BY <1>5 DEF FilesSet
  <2>2. NoFileNoLine(fs)
    BY <1>1, <2>1, CreateNoFile
  <2> QED
    BY <2>1, <2>2 DEF NoFileNoLine, SetXdnsConfig, Files
<1>6. CASE FlagOnly
  BY <1>6 DEF FlagOnly
<1>7. CASE FilesUnset
  BY <1>1, <1>7 DEF FilesUnset, UnsetXdnsConfig, NoFileNoLine, Files
<1>8. CASE FilesBooted
  <2>1. PICK fs \in Files :
          /\ \/ fs = files
             \/ \E ns \in BootNameservers, here \in BOOLEAN : fs = BootFiles(files, ns, here)
          /\ files' = CosaXDNSInitialize(fs, flag', NoDefaults).fs
    BY <1>8 DEF FilesBooted
  <2>2. NoFileNoLine(fs)
    BY <1>1, <2>1 DEF NoFileNoLine, BootFiles, Files
  <2> QED
    BY <2>1, <2>2, InitializeNoFile, NoDefaultsType
<1> QED
  BY <1>1, <1>2, <1>3, <1>4, <1>5, <1>6, <1>7, <1>8 DEF FileStep

-----------------------------------------------------------------------------
(***************************************************************************)
(* The keys stay apart: rows.                                              *)
(***************************************************************************)
\* A row is read from the words of its line, those behind the MAC perhaps in
\* pieces.
LEMMA KeyedScan ==
  ASSUME NEW Keys, KeysApart(Keys), NEW l \in KeyedLine(Keys)
  PROVE  /\ Word(Scanned(l), 2) = l[2]
         /\ \A k \in {3, 4, 5} : Word(Scanned(l), k) \in Clean(Keys)
<1> DEFINE C == Clean(Keys)
<1>1. /\ l \in Line /\ Len(l) >= 2 /\ Width[l[1]] < 64 /\ Width[l[2]] < 64
      /\ \A i \in DOMAIN l : i # 2 => l[i] \in C
  BY DEF KeyedLine, KeysApart
<1>2. ASSUME NEW w \in Token \cap C, NEW i \in DOMAIN Pieces[w]
      PROVE  Pieces[w][i] \in C
  <2>1. w # "" /\ Parts[w] \cap Keys = {}
    BY WordsAssumption DEF Clean
  <2>2. Pieces[w] \in Seq(Token) /\ Parts[Pieces[w][i]] \subseteq Parts[w]
    BY DmlAssumption
  <2>3. Pieces[w][i] \in Token
    BY <2>2, ElementOfSeq, LenProperties
  <2> QED
    BY <2>1, <2>2, <2>3 DEF Clean
<1> HIDE DEF C
<1>3. /\ Len(Scanned(l)) \in Nat /\ Len(Scanned(l)) >= 2 /\ Scanned(l)[2] = l[2]
      /\ \A i \in 3..Len(Scanned(l)) : Scanned(l)[i] \in C
  BY <1>1, <1>2, ScannedFront
<1>4. "" \in C
  BY DEF C, Clean
<1> DEFINE s == Scanned(l)
<1>5. /\ Len(s) \in Nat /\ Len(s) >= 2 /\ s[2] = l[2]
      /\ \A i \in 3..Len(s) : s[i] \in C
  BY <1>3
<1> HIDE DEF s
<1>6. Word(s, 2) = l[2]
  BY <1>5 DEF Word
<1>7. ASSUME NEW k \in {3, 4, 5} PROVE Word(s, k) \in C
  <2>1. CASE Len(s) >= k
    <3>1. k \in 3..Len(s)
      BY <1>5, <2>1
    <3> QED
      BY <1>5, <2>1, <3>1 DEF Word
  <2>2. CASE ~ (Len(s) >= k)
    BY <1>4, <2>2 DEF Word
  <2> QED
    BY <2>1, <2>2
<1> QED
  BY <1>6, <1>7 DEF C, s

\* The rows a start makes of keyed lines: none is for the default.
LEMMA RowsInKeyed ==
  ASSUME NEW Keys, KeysApart(Keys), NEW conf \in Seq(KeyedLine(Keys))
  PROVE  KeyedRows(Keys, RowsIn(conf))
<1> DEFINE device == Keep(conf, DeviceLines)
           K == KeyedLine(Keys) \cap DeviceLines
<1>1. device \in Seq(K) /\ Len(device) \in Nat
  BY KeepType, LenProperties
<1>2. RowsIn(conf) = [i \in 1..Len(device) |->
        [ins |-> i,
         val |-> [f \in RowFields |->
                    CASE f = "mac" -> Word(Scanned(device[i]), 2)
                      [] f = "v4"  -> Word(Scanned(device[i]), 3)
                      [] f = "v6"  -> Word(Scanned(device[i]), 4)
                      [] f = "tag" -> Word(Scanned(device[i]), 5)],
         changed |-> {}]]
  BY DEF RowsIn
<1>3. Keys \in SUBSET Token /\ DefaultMac \in Keys
  BY DEF KeysApart
<1> HIDE DEF device
<1>4. ASSUME NEW i \in DOMAIN RowsIn(conf)
      PROVE  KeyedRow(Keys, RowsIn(conf)[i])
  <2>1. i \in 1..Len(device)
    BY <1>2
  <2>2. device[i] \in K
    BY <1>1, <2>1, ElementOfSeq
  <2>3. device[i] \in KeyedLine(Keys) /\ device[i] \notin Mentioning(DefaultMac)
    BY <2>2 DEF DeviceLines
  <2>4. device[i][2] \in Keys /\ device[i][2] # DefaultMac
    BY <1>3, <2>3, KeyedMention
  <2>5. /\ Word(Scanned(device[i]), 2) = device[i][2]
        /\ \A k \in {3, 4, 5} : Word(Scanned(device[i]), k) \in Clean(Keys)
    BY <2>3, KeyedScan
  <2>6. /\ RowsIn(conf)[i].val["mac"] = Word(Scanned(device[i]), 2)
        /\ RowsIn(conf)[i].val["v4"] = Word(Scanned(device[i]), 3)
        /\ RowsIn(conf)[i].val["v6"] = Word(Scanned(device[i]), 4)
        /\ RowsIn(conf)[i].val["tag"] = Word(Scanned(device[i]), 5)
    BY <1>2, <2>1 DEF RowFields
  <2> QED
    BY <2>4, <2>5, <2>6 DEF KeyedRow, RowFields
<1> QED
  BY <1>4 DEF KeyedRows

LEMMA StartedRows ==
  ASSUME NEW Keys, KeysApart(Keys), NEW fs \in Files, fs.conf \in Seq(KeyedLine(Keys)),
         NEW flg, NEW d
  PROVE  KeyedRows(Keys, CosaXDNSInitialize(fs, flg, d).rows)
<1>1. CosaXDNSInitialize(fs, flg, d).rows = IF fs.confExists THEN RowsIn(fs.conf) ELSE << >>
  BY DEF CosaXDNSInitialize
<1>2. KeyedRows(Keys, << >>)
  BY DEF KeyedRows
<1> QED
  BY <1>1, <1>2, RowsInKeyed

LEMMA StartOnRows ==
  ASSUME NEW Keys, KeysApart(Keys), NEW fs \in Files, fs.conf \in Seq(KeyedLine(Keys)),
         StartOn(fs)
  PROVE  KeyedRows(Keys, rows')
BY StartedRows DEF StartOn

LEMMA AddEntryRows ==
  ASSUME NEW Keys, KeysApart(Keys), KeyedInv(Keys), DNSMappingTable_AddEntry
  PROVE  KeyedRows(Keys, rows')
<1> DEFINE row == EmptyRow(nextIns)
<1>1. /\ rows \in Seq(Row) /\ nextIns \in Nat \ {0} /\ KeyedRows(Keys, rows)
      /\ \A i \in DOMAIN rows : rows[i].ins < nextIns
  BY DEF KeyedInv, DmlInv, TypeOK, InstanceOrder
<1>2. row \in Row /\ row.ins = nextIns
  BY <1>1, EmptyRowType
<1>3. KeyedRow(Keys, row)
  BY WordsAssumption DEF KeyedRow, EmptyRow, RowFields, KeysApart, Clean
<1> HIDE DEF row
<1>4. /\ Pushed(rows, row) = [i \in 1..Len(rows) + 1 |->
                                IF i < Len(rows) + 1 THEN rows[i] ELSE row]
      /\ DOMAIN Pushed(rows, row) = 1..Len(rows) + 1
  BY <1>1, <1>2, PushedLast
<1>5. rows' = Pushed(rows, row) /\ Len(rows) \in Nat /\ DOMAIN rows = 1..Len(rows)
  BY <1>1, LenProperties DEF DNSMappingTable_AddEntry, row
<1>6. ASSUME NEW i \in DOMAIN rows' PROVE KeyedRow(Keys, rows'[i])
  <2>1. i \in 1..Len(rows) + 1 /\ rows'[i] = IF i < Len(rows) + 1 THEN rows[i] ELSE row
    BY <1>4, <1>5
  <2> QED
    BY <1>1, <1>3, <1>5, <2>1 DEF KeyedRows
<1> QED
  BY <1>6 DEF KeyedRows

LEMMA DelEntryRows ==
  ASSUME NEW Keys, KeyedInv(Keys), NEW i \in DOMAIN rows, DNSMappingTable_DelEntry(i)
  PROVE  KeyedRows(Keys, rows')
<1> DEFINE KRow == {row \in Row : KeyedRow(Keys, row)}
           front == SubSeq(rows, 1, i-1)
           back == SubSeq(rows, i+1, Len(rows))
<1>1. /\ rows \in Seq(Row) /\ KeyedRows(Keys, rows)
      /\ Len(rows) \in Nat /\ DOMAIN rows = 1..Len(rows) /\ i \in 1..Len(rows)
  BY LenProperties DEF KeyedInv, DmlInv, TypeOK
<1>2. \A k \in 1..Len(rows) : rows[k] \in KRow
  BY <1>1, ElementOfSeq DEF KeyedRows
<1>3. front \in Seq(KRow) /\ back \in Seq(KRow)
  <2>1. (\A k \in 1..i-1 : rows[k] \in KRow) /\ (\A k \in i+1..Len(rows) : rows[k] \in KRow)
    BY <1>1, <1>2
  <2> HIDE DEF KRow
  <2> QED
    BY <1>1, <2>1, SubSeqProperties
<1>4. rows' = front \o back
  BY DEF DNSMappingTable_DelEntry
<1> HIDE DEF KRow, front, back
<1>5. rows' \in Seq(KRow)
  BY <1>3, <1>4, ConcatProperties
<1>6. \A k \in DOMAIN rows' : rows'[k] \in KRow
  BY <1>5, LenProperties, ElementOfSeq
<1> QED
  BY <1>6 DEF KRow, KeyedRows

\* A table of which one row is replaced by a keyed one.
LEMMA RowKeyed ==
  ASSUME NEW Keys, NEW i \in DOMAIN rows, KeyedRows(Keys, rows), rows \in Seq(Row),
         NEW row, KeyedRow(Keys, row), rows' = [rows EXCEPT ![i] = row]
  PROVE  KeyedRows(Keys, rows')
<1>1. DOMAIN rows' = DOMAIN rows
      /\ \A k \in DOMAIN rows : rows'[k] = IF k = i THEN row ELSE rows[k]
  OBVIOUS
<1> QED
  BY <1>1 DEF KeyedRows

\* A MAC that is set is marked as changed, so the default one is not stored.
LEMMA SetFieldRows ==
  ASSUME NEW Keys, KeysApart(Keys), KeyedInv(Keys),
         NEW i \in DOMAIN rows, NEW f \in RowFields, NEW v \in RowInputs[f],
         DNSMappingTable_SetParamStringValue(i, f, v)
  PROVE  KeyedRows(Keys, rows')
<1> DEFINE new == IF f = "mac" THEN Lower[Stored(v)] ELSE Stored(v)
           row == [rows[i] EXCEPT !.val = [@ EXCEPT ![f] = new],
                                  !.changed = IF v = TooLong THEN @ ELSE @ \cup {f}]
<1>1. /\ rows \in Seq(Row) /\ rows[i] \in Row
      /\ KeyedRows(Keys, rows) /\ KeyedRow(Keys, rows[i])
  BY InsType DEF KeyedInv, KeyedRows, DmlInv, TypeOK
<1>2. f = "mac" => new \in Keys \cup {""}
  BY DEF KeysApart
<1>3. f # "mac" => new \in Clean(Keys)
  BY DEF KeysApart, Stored, Clean
<1>4. f = "mac" /\ new = DefaultMac => v # TooLong
  BY WordsAssumption DEF KeysApart, Stored
<1>5. rows' = [rows EXCEPT ![i] = row]
  BY <1>1 DEF DNSMappingTable_SetParamStringValue
<1> HIDE DEF new
<1>6. KeyedRow(Keys, row)
  <2>1. row.val = [rows[i].val EXCEPT ![f] = new]
        /\ row.changed = IF v = TooLong THEN rows[i].changed ELSE rows[i].changed \cup {f}
    BY <1>1 DEF Row
  <2> HIDE DEF row
  <2>2. \A g \in RowFields : row.val[g] = IF g = f THEN new ELSE rows[i].val[g]
    BY <1>1, <2>1 DEF Row
  <2> QED
    BY <1>1, <1>2, <1>3, <1>4, <2>1, <2>2 DEF KeyedRow, RowFields
<1> HIDE DEF row
<1> QED
  BY <1>1, <1>5, <1>6, RowKeyed

\* DNSMappingTable_Rollback restores what is stored for the row.
LEMMA RolledBackKeyed ==
  ASSUME NEW Keys, KeysApart(Keys), KeyedInv(Keys), NEW row \in Row, KeyedRow(Keys, row)
  PROVE  KeyedRow(Keys, RolledBack(row))
<1> DEFINE mac == IF MacRefused(row) THEN "" ELSE row.val["mac"]
           found == GetDnsMasqFileEntry(files, mac)
           line == found[1]
           ok1 == found # << >> /\ line \in WithWord(3, Dotted)
           ok2 == ok1 /\ line \in WithWord(4, Coloned)
           val == [f \in RowFields |->
             CASE f = "mac" -> mac
               [] f # "mac" /\ f \in row.changed /\ found = << >> -> ""
               [] f = "v4" /\ f \in row.changed /\ ok1 -> Word(line, 3)
               [] f = "v6" /\ ok2 -> Word(line, 4)
               [] f = "tag" /\ f \in row.changed /\ ok2 -> Word(line, 5)
               [] OTHER -> row.val[f]]
           new == [row EXCEPT !.val = val,
                              !.changed = IF found = << >> \/ ok2 THEN {} ELSE @]
<1>1. Keys \in SUBSET Token /\ DefaultMac \in Keys /\ DefaultMac # "" /\ "" \notin Keys
  BY WordsAssumption DEF KeysApart
<1>2. mac \in Keys \cup {""} /\ mac # DefaultMac
  BY <1>1 DEF KeyedRow, MacRefused
<1>3. found \in Seq(KeyedLine(Keys))
  BY KeepSub, EmptySeq DEF GetDnsMasqFileEntry, KeyedInv
<1>4. RolledBack(row) = new
  BY DEF RolledBack
<1> HIDE DEF mac, found
<1>5. ASSUME found # << >>
      PROVE  \A j \in {3, 4, 5} : Word(line, j) \in Clean(Keys)
  BY <1>1, <1>3, <1>5, KeyedReading
<1>6. (ok1 => found # << >>) /\ (ok2 => found # << >>)
  OBVIOUS
<1> HIDE DEF line, ok1, ok2
<1>7. /\ val["mac"] = mac
      /\ \A f \in RowFields \ {"mac"} : val[f] \in Clean(Keys)
  <2>1. "" \in Clean(Keys)
    BY DEF Clean
  <2> QED
    BY <1>1, <1>5, <1>6, <2>1 DEF KeyedRow, RowFields
<1> HIDE DEF val
<1>8. new.val = val
  BY DEF Row
<1> HIDE DEF new
<1> QED
  BY <1>2, <1>4, <1>7, <1>8 DEF KeyedRow

\* A row that is committed has passed Validate, which refuses the default MAC.
LEMMA ApplyRowRows ==
  ASSUME NEW Keys, KeysApart(Keys), KeyedInv(Keys), NEW i \in DOMAIN rows, ApplyRow(i)
  PROVE  KeyedRows(Keys, rows')
<1>1. /\ rows \in Seq(Row) /\ rows[i] \in Row
      /\ KeyedRows(Keys, rows) /\ KeyedRow(Keys, rows[i])
  BY InsType DEF KeyedInv, KeyedRows, DmlInv, TypeOK
<1>2. CASE DNSMappingTable_Validate(rows[i]) /\ DNSMappingTable_Commit(i)
  <2> DEFINE row == [rows[i] EXCEPT !.changed = {}]
  <2>1. rows[i].val["mac"] # DefaultMac
    BY <1>1, <1>2 DEF KeyedRow, DNSMappingTable_Validate, MacRefused
  <2>2. row.val = rows[i].val
    BY <1>1 DEF Row
  <2>3. rows' = [rows EXCEPT ![i] = row]
    BY <1>1, <1>2 DEF DNSMappingTable_Commit
  <2> HIDE DEF row
  <2>4. KeyedRow(Keys, row)
    BY <1>1, <2>1, <2>2 DEF KeyedRow
  <2> QED
    BY <1>1, <2>3, <2>4, RowKeyed
<1>3. CASE rows' = [rows EXCEPT ![i] = RolledBack(@)]
  <2>1. KeyedRow(Keys, RolledBack(rows[i]))
    BY <1>1, RolledBackKeyed
  <2>2. rows' = [rows EXCEPT ![i] = RolledBack(rows[i])]
    BY <1>3
  <2> QED
    BY <1>1, <2>1, <2>2, RowKeyed
<1> QED
  BY <1>2, <1>3 DEF ApplyRow

LEMMA TableStepRows ==
  ASSUME NEW Keys, KeysApart(Keys), KeyedInv(Keys), TableStep
  PROVE  KeyedRows(Keys, rows')
BY AddEntryRows, DelEntryRows, SetFieldRows, ApplyRowRows DEF TableStep

\* The rows after any step.
LEMMA StepRows ==
  ASSUME NEW Keys, KeysApart(Keys), KeyedInv(Keys), [Next]_vars
  PROVE  KeyedRows(Keys, rows')
<1>1. KeyedRows(Keys, rows) /\ files \in Files /\ files.conf \in Seq(KeyedLine(Keys))
  BY DEF KeyedInv, DmlInv, TypeOK
<1>2. CASE UNCHANGED rows
  BY <1>1, <1>2
<1>3. CASE Restart
  BY <1>1, <1>3, StartOnRows DEF Restart
<1>4. CASE Reboot
  <2>1. PICK ns \in BootNameservers, here \in BOOLEAN : StartOn(BootFiles(files, ns, here))
    BY <1>4 DEF Reboot
  <2>2. BootFiles(files, ns, here) \in Files /\ BootFiles(files, ns, here).conf = files.conf
    BY <1>1, BootFilesType DEF BootFiles, Files
  <2> QED
    BY <1>1, <2>1, <2>2, StartOnRows
<1>5. CASE TableStep
  BY <1>5, TableStepRows
<1>6. (\E wan \in WanStates : EnableXdns(wan)) \/ DisableXdns \/ ApplyDefaults
        \/ (\E f \in DefaultFields : \E v \in DefaultInputs[f] : XDNS_SetParamStringValue(f, v))
        \/ UNCHANGED vars
      => UNCHANGED rows
  BY DEF EnableXdns, DisableXdns, ApplyDefaults, XDNS_SetParamStringValue, vars
<1>7. (RollbackOverrun \/ \E i \in DOMAIN rows : RowOverrun(i)) => Restart
  BY DEF RollbackOverrun, RowOverrun
<1> QED
  BY <1>2, <1>3, <1>4, <1>5, <1>6, <1>7 DEF Next, Handler, StartAgain

-----------------------------------------------------------------------------
\* What the first start finds, and what it makes of it.
LEMMA InitMade ==
  ASSUME Init
  PROVE  \E conf \in BootConf, here \in BOOLEAN, fs \in Files :
           /\ here \/ conf = << >>
           /\ fs.conf = conf /\ fs.confExists = here
           /\ files = CosaXDNSInitialize(fs, flag, NoDefaults).fs
           /\ rows = CosaXDNSInitialize(fs, flag, NoDefaults).rows
           /\ IF here THEN files.conf = conf /\ dflt = DefaultsIn(conf, NoDefaults)
              ELSE Made(conf, NoDefaults, files.conf, dflt)
<1>1. PICK conf \in BootConf, confHere \in BOOLEAN, ns \in BootNameservers, here \in BOOLEAN :
        /\ confHere \/ conf = << >>
        /\ LET s == CosaXDNSInitialize(
                      [confExists |-> confHere, conf |-> conf, resolvExists |-> here,
                       ns |-> ns, overrides |-> << >>], flag, NoDefaults)
           IN files = s.fs /\ dflt = s.dflt /\ rows = s.rows
  BY DEF Init
<1> DEFINE fs == [confExists |-> confHere, conf |-> conf, resolvExists |-> here,
                  ns |-> ns, overrides |-> << >>]
           s == CosaXDNSInitialize(fs, flag, NoDefaults)
<1>2. fs \in Files
  <2>1. conf \in Seq(Line) /\ ns \in [v4 : V4 \cup {""}, v6 : V6 \cup {""}]
    BY DmlAssumption
  <2> QED
    BY <2>1, EmptySeq DEF Files
<1>3. fs.conf = conf /\ fs.confExists = confHere
  OBVIOUS
<1>4. files = s.fs /\ dflt = s.dflt /\ rows = s.rows
  BY <1>1
<1> HIDE DEF fs
<1>5. IF fs.confExists THEN s.fs.conf = fs.conf /\ s.dflt = DefaultsIn(fs.conf, NoDefaults)
      ELSE Made(fs.conf, NoDefaults, s.fs.conf, s.dflt)
  BY <1>2, NoDefaultsType, StartConf
<1> HIDE DEF s
<1>6. IF confHere THEN files.conf = conf /\ dflt = DefaultsIn(conf, NoDefaults)
      ELSE Made(conf, NoDefaults, files.conf, dflt)
  BY <1>3, <1>4, <1>5
<1> QED
  BY <1>1, <1>2, <1>3, <1>4, <1>6 DEF s

\* The invariant of the keys holds after the first start, and every step keeps it.
LEMMA KeyedInit ==
  ASSUME NEW Keys, KeysApart(Keys), Init
  PROVE  KeyedInv(Keys)
<1>1. PICK conf \in BootConf, here \in BOOLEAN, fs \in Files :
        /\ here \/ conf = << >>
        /\ fs.conf = conf /\ fs.confExists = here
        /\ files = CosaXDNSInitialize(fs, flag, NoDefaults).fs
        /\ rows = CosaXDNSInitialize(fs, flag, NoDefaults).rows
        /\ IF here THEN files.conf = conf /\ dflt = DefaultsIn(conf, NoDefaults)
           ELSE Made(conf, NoDefaults, files.conf, dflt)
  BY InitMade
<1>2. /\ fs.conf \in Seq(KeyedLine(Keys)) /\ NoFileNoLine(fs)
      /\ Keys \in SUBSET Token /\ KeyedFields(Keys, NoDefaults) /\ NoDefaults \in Defaults
  BY <1>1, NoDefaultsKeyed, NoDefaultsType DEF KeysApart, NoFileNoLine
<1>3. KeyedRows(Keys, rows) /\ NoFileNoLine(files)
  BY <1>1, <1>2, StartedRows, InitializeNoFile
<1>4. files.conf \in Seq(KeyedLine(Keys)) /\ KeyedFields(Keys, dflt)
  <2>1. CASE here
    BY <1>1, <1>2, <2>1, DefaultsInKeyed
  <2>2. CASE ~ here
    BY <1>1, <1>2, <2>2, MadeKeyed
  <2> QED
    BY <2>1, <2>2
<1> QED
  BY <1>3, <1>4, InitInv DEF KeyedInv, NoFileNoLine

LEMMA KeyedStep ==
  ASSUME NEW Keys, KeysApart(Keys), KeyedInv(Keys), [Next]_vars
  PROVE  KeyedInv(Keys)'
<1>1. PolicyStep(Keys)
  BY StepPolicy
<1>2. files'.conf \in Seq(KeyedLine(Keys)) /\ KeyedFields(Keys, dflt')
  BY <1>1, PolicyKeyed
<1>3. KeyedRows(Keys, rows')
  BY StepRows
<1>4. NoFileNoLine(files')
  BY StepNoFile DEF KeyedInv, NoFileNoLine
<1>5. DmlInv'
  BY StepInv DEF KeyedInv
<1> QED
  BY <1>2, <1>3, <1>4, <1>5 DEF KeyedInv, NoFileNoLine, KeyedFields, KeyedRows

\* The stored lines, the default fields and the table never mix up their
\* words: what is a MAC in one of them is none of the addresses of another.
THEOREM KeysStayApart ==
  ASSUME NEW Keys, KeysApart(Keys)
  PROVE  Spec => []KeyedInv(Keys)
<1>1. Init => KeyedInv(Keys)
  BY KeyedInit
<1>2. KeyedInv(Keys) /\ [Next]_vars => KeyedInv(Keys)'
  BY KeyedStep
<1> QED
  BY <1>1, <1>2, PTL DEF Spec

-----------------------------------------------------------------------------
(***************************************************************************)
(* What becomes of the stored lines.                                       *)
(***************************************************************************)

\* CreateDnsmasqServerConf does to the default lines what it does to the file,
\* and nothing to the lines of a device.
LEMMA MadeSelection ==
  ASSUME NEW Keys, KeysApart(Keys), NEW conf \in Seq(KeyedLine(Keys)),
         NEW d \in Defaults, KeyedFields(Keys, d), NEW conf1, NEW d1, Made(conf, d, conf1, d1)
  PROVE  /\ \A m \in Keys \ {DefaultMac} : Keep(conf1, Mentioning(m)) = Keep(conf, Mentioning(m))
         /\ Made(Keep(conf, Mentioning(DefaultMac)), d, Keep(conf1, Mentioning(DefaultMac)), d1)
<1> DEFINE D(c) == Keep(c, Mentioning(DefaultMac))
           new == FreshLines(d1)
<1>1. CASE conf1 = conf /\ d1 = d
  BY <1>1 DEF Made
<1>2. CASE Fresh(d, d1) /\ conf1 = conf
           /\ (d1["v4"] = "" \/ d1["v6"] = "")
  BY <1>2 DEF Made
<1>3. CASE Fresh(d, d1) /\ conf1 = conf \o new
           /\ ~ (d1["v4"] = "" \/ d1["v6"] = "")
  <2>1. new \in Seq(KeyedEntries(Keys, DefaultMac))
    BY <1>3, FreshKeyed
  <2> HIDE DEF new
  <2>2. DefaultMac \in Keys
    BY DEF KeysApart
  <2>3. \A m \in Keys : Keep(conf1, Mentioning(m))
          = Keep(conf, Mentioning(m)) \o (IF m = DefaultMac THEN new ELSE << >>)
    <3>1. \A m \in Keys : \A lines \in Seq(KeyedEntries(Keys, DefaultMac)) :
            Keep(conf \o lines, Mentioning(m))
              = Keep(conf, Mentioning(m)) \o (IF m = DefaultMac THEN lines ELSE << >>)
      BY <2>2, JoinedSelection
    <3> QED
      BY <1>3, <2>1, <3>1, Zenon
  <2>4. ASSUME NEW m \in Keys \ {DefaultMac}
        PROVE  Keep(conf1, Mentioning(m)) = Keep(conf, Mentioning(m))
    <3>1. Keep(conf, Mentioning(m)) \in Seq(KeyedLine(Keys))
      BY KeepSub
    <3>2. Keep(conf1, Mentioning(m)) = Keep(conf, Mentioning(m)) \o << >>
      BY <2>3
    <3> QED
      BY <3>1, <3>2, ConcatEmptySeq
  <2>5. D(conf1) = D(conf) \o new
    BY <2>2, <2>3
  <2>6. Made(D(conf), d, D(conf1), d1)
    BY <1>3, <2>5 DEF Made, new
  <2> QED
    BY <2>4, <2>6
<1> QED
  BY <1>1, <1>2, <1>3 DEF Made

\* The stored policy has the line l.
Holds(conf, l) == \E j \in DOMAIN conf : conf[j] = l

\* Replacing the lines of mac keeps every line of another key.
LEMMA OtherLineKept ==
  ASSUME NEW Keys, NEW mac \in Keys, NEW conf \in Seq(KeyedLine(Keys)),
         NEW lines \in Seq(KeyedLine(Keys)), NEW l \in KeyedLine(Keys),
         Holds(conf, l), Word(l, 2) # mac
  PROVE  Holds(Keep(conf, Line \ Mentioning(mac)) \o lines, l)
<1> DEFINE K == KeyedLine(Keys)
           rest == Line \ Mentioning(mac)
           others == Keep(conf, rest)
           new == others \o lines
<1>1. PICK k \in DOMAIN conf : conf[k] = l
  BY DEF Holds
<1>2. conf[k] \in rest
  <2>1. (l \in Mentioning(mac) <=> l[2] = mac) /\ Word(l, 2) = l[2]
    BY KeyedMention
  <2> QED
    BY <1>1, <2>1, KeyedLinesAreLines
<1> HIDE DEF K, rest
<1>3. conf \in Seq(K) /\ lines \in Seq(K)
  BY DEF K
<1>4. others \in Seq(K) /\ \E j \in DOMAIN others : others[j] = conf[k]
  BY <1>2, <1>3, KeepHas, KeepSub
<1> HIDE DEF others
<1>5. PICK j \in DOMAIN others : others[j] = conf[k]
  BY <1>4
<1>6. j \in DOMAIN new /\ new[j] = others[j]
  BY <1>3, <1>4, ConcatProperties, LenProperties
<1> QED
  BY <1>1, <1>5, <1>6 DEF others, rest, Holds

\* A policy that is made or started keeps the lines it is made from.
LEMMA MadeHolds ==
  ASSUME NEW fs \in Files, NEW flg, NEW d \in Defaults, NEW l, Holds(fs.conf, l)
  PROVE  /\ Holds(CreateDnsmasqServerConf(fs, flg, d).fs.conf, l)
         /\ Holds(CosaXDNSInitialize(fs, flg, d).fs.conf, l)
<1>1. fs.conf \in Seq(Line)
  BY DEF Files
<1>2. ASSUME NEW lines \in Seq(Line) PROVE Holds(fs.conf \o lines, l)
  <2> DEFINE conf == fs.conf
  <2>1. PICK k \in DOMAIN conf : conf[k] = l
    BY DEF Holds
  <2>2. conf \in Seq(Line)
    BY <1>1
  <2> HIDE DEF conf
  <2>3. k \in DOMAIN (conf \o lines) /\ (conf \o lines)[k] = conf[k]
    BY <2>2, ConcatProperties, LenProperties
  <2> QED
    BY <2>1, <2>3 DEF Holds, conf
<1>3. \A conf, d1 : Made(fs.conf, d, conf, d1) => Holds(conf, l)
  <2> SUFFICES ASSUME NEW conf, NEW d1, Made(fs.conf, d, conf, d1) PROVE Holds(conf, l)
    OBVIOUS
  <2>1. CASE conf = fs.conf
    BY <2>1
  <2>2. CASE Fresh(d, d1) /\ conf = fs.conf \o FreshLines(d1)
    <3>1. FreshLines(d1) \in Seq(Line)
      BY <2>2, EntryType, AddressesAreText, WordsAssumption
         DEF FreshLines, Fresh, Defaults, DefaultFields, Text
    <3> QED
      BY <1>2, <2>2, <3>1
  <2> QED
    BY <2>1, <2>2 DEF Made
<1>4. Holds(CreateDnsmasqServerConf(fs, flg, d).fs.conf, l)
  BY <1>3, CreateMade
<1>5. Holds(CosaXDNSInitialize(fs, flg, d).fs.conf, l)
  BY <1>3, StartConf, Zenon
<1> QED
  BY <1>4, <1>5

\* Replacing the lines that mention mac keeps the others, and the new ones.
LEMMA ReplacedHolds ==
  ASSUME NEW conf \in Seq(Line), NEW mac, NEW lines \in Seq(Line)
  PROVE  /\ \A l \in Line : Holds(conf, l) /\ l \notin Mentioning(mac)
               => Holds(Keep(conf, Line \ Mentioning(mac)) \o lines, l)
         /\ \A l : Holds(lines, l) => Holds(Keep(conf, Line \ Mentioning(mac)) \o lines, l)
<1> DEFINE rest == Line \ Mentioning(mac)
           others == Keep(conf, rest)
           new == others \o lines
<1>1. others \in Seq(Line)
  BY KeepSub
<1>2. /\ \A k \in DOMAIN others : k \in DOMAIN new /\ new[k] = others[k]
      /\ \A k \in DOMAIN lines :
           Len(others) + k \in DOMAIN new /\ new[Len(others) + k] = lines[k]
  <2> HIDE DEF others
  <2> QED
    BY <1>1, ConcatProperties, LenProperties
<1>3. ASSUME NEW l \in Line, Holds(conf, l), l \notin Mentioning(mac) PROVE Holds(new, l)
  <2>1. PICK k \in DOMAIN conf : conf[k] = l
    BY <1>3 DEF Holds
  <2>2. conf[k] \in rest
    BY <1>3, <2>1
  <2> HIDE DEF rest
  <2>3. \E j \in DOMAIN others : others[j] = conf[k]
    BY <2>2, KeepHas
  <2> HIDE DEF others, new
  <2> QED
    BY <1>2, <2>1, <2>3 DEF Holds
<1>4. ASSUME NEW l, Holds(lines, l) PROVE Holds(new, l)
  <2> HIDE DEF others, new
  <2> QED
    BY <1>2, <1>4 DEF Holds
<1> QED
  BY <1>3, <1>4

\* A step keeps the valid lines, or replaces those that mention the MAC of a row
\* or of the default.
LEMMA LineKept ==
  ASSUME DmlInv, [Next]_vars, NEW l \in ValidLines, Holds(files.conf, l)
  PROVE  \/ Holds(files'.conf, l)
         \/ \E mac \in Token : \E lines \in Seq(EntriesOf(mac)) :
              /\ Asked(mac, lines) /\ l \in Mentioning(mac)
              /\ \A new : Holds(lines, new) => Holds(files'.conf, new)
<1>1. FileStep /\ files \in Files /\ dflt \in Defaults /\ l \in Line
  BY StepFiles DEF DmlInv, TypeOK, Defaults, ValidLines, WithWord
<1>2. CASE FilesKept
  BY <1>2 DEF FilesKept
<1>3. CASE FilesReplaced
  <2>1. PICK mac \in Token : \E lines \in Seq(EntriesOf(mac)) :
          /\ Asked(mac, lines)
          /\ files' = ReplaceDnsmasqConfEntry(files, flag, mac, lines)
    BY <1>3 DEF FilesReplaced
  <2>2. PICK lines \in Seq(EntriesOf(mac)) :
          /\ Asked(mac, lines)
          /\ files' = ReplaceDnsmasqConfEntry(files, flag, mac, lines)
    BY <2>1
  <2>3. lines \in Seq(Line) /\ files.conf \in Seq(Line)
    BY <1>1, EntriesAreLines DEF Files
  <2>4. files'.conf = Keep(files.conf, Line \ Mentioning(mac)) \o lines
    BY <1>1, <2>2, <2>3, ReplacedConf
  <2>5. /\ l \notin Mentioning(mac) => Holds(files'.conf, l)
        /\ \A new : Holds(lines, new) => Holds(files'.conf, new)
    BY <1>1, <2>3, <2>4, ReplacedHolds, Zenon
  <2> QED
    BY <2>2, <2>5
<1>4. CASE FilesCreated
  BY <1>1, <1>4, MadeHolds DEF FilesCreated
<1>5. CASE FilesSet
  <2>1. PICK fs \in Files :
          /\ fs = files \/ fs = CreateDnsmasqServerConf(files, flag, dflt).fs
          /\ files' = SetXdnsConfig(fs).fs
    BY <1>5 DEF FilesSet
  <2>2. Holds(fs.conf, l)
    BY <1>1, <2>1, MadeHolds
  <2>3. fs.conf \in Seq(Line) /\ files'.conf \in {fs.conf, Keep(fs.conf, ValidLines)}
    BY <2>1 DEF SetXdnsConfig, Files
  <2>4. Holds(Keep(fs.conf, ValidLines), l)
    BY <2>2, <2>3, KeepHas DEF Holds
  <2> QED
    BY <2>2, <2>3, <2>4
<1>6. CASE FlagOnly
  BY <1>6 DEF FlagOnly
<1>7. CASE FilesUnset
  BY <1>1, <1>7 DEF FilesUnset, UnsetXdnsConfig, Files
<1>8. CASE FilesBooted
  <2>1. PICK fs \in Files :
          /\ \/ fs = files
             \/ \E ns \in BootNameservers, here \in BOOLEAN : fs = BootFiles(files, ns, here)
          /\ files' = CosaXDNSInitialize(fs, flag', NoDefaults).fs
    BY <1>8 DEF FilesBooted
  <2>2. fs.conf = files.conf
    BY <1>1, <2>1 DEF BootFiles, Files
  <2> QED
    BY <2>1, <2>2, MadeHolds, NoDefaultsType
<1> QED
  BY <1>1, <1>2, <1>3, <1>4, <1>5, <1>6, <1>7, <1>8 DEF FileStep

\* No handler, start or reboot forgets a device, or the default, that has a
\* valid stored line with no other MAC in it, unless the line to replace it is
\* too long.
THEOREM PoliciesKept == Spec => PolicyKept
<1> DEFINE kept == \A i \in DOMAIN files.conf :
                     files.conf[i] \in ValidLines /\ OwnLine(files.conf[i]) =>
                       \/ \E j \in DOMAIN files'.conf : Word(files'.conf[j], 2) = files.conf[i][2]
                       \/ NoRoom(files.conf[i][2])
<1>1. DmlInv /\ [Next]_vars => kept
  <2> SUFFICES ASSUME DmlInv, [Next]_vars, NEW i \in DOMAIN files.conf,
                      files.conf[i] \in ValidLines, OwnLine(files.conf[i])
               PROVE  \/ \E j \in DOMAIN files'.conf : Word(files'.conf[j], 2) = files.conf[i][2]
                      \/ NoRoom(files.conf[i][2])
    OBVIOUS
  <2> DEFINE l == files.conf[i]
  <2>1. Holds(files.conf, l) /\ l \in ValidLines /\ Word(l, 2) = l[2]
    <3>1. Holds(files.conf, l) /\ l \in ValidLines
      BY DEF Holds
    <3> HIDE DEF l
    <3>2. l \in Seq(Token) /\ Len(l) >= 3
      BY <3>1 DEF ValidLines, WithWord, Line
    <3>3. Len(l) \in Nat
      BY <3>2, LenProperties
    <3>5. Len(l) >= 2
      BY <3>2, <3>3
    <3>4. Word(l, 2) = l[2]
      BY <3>5, Zenon DEF Word
    <3> QED
      BY <3>1, <3>4
  <2>2. OwnLine(l)
    OBVIOUS
  <2> HIDE DEF l
  <2>3. ASSUME Holds(files'.conf, l)
        PROVE  \/ \E j \in DOMAIN files'.conf : Word(files'.conf[j], 2) = l[2]
               \/ NoRoom(l[2])
    BY <2>1, <2>3 DEF Holds
  <2>4. ASSUME NEW mac \in Token, NEW lines \in Seq(EntriesOf(mac)),
               Asked(mac, lines), l \in Mentioning(mac),
               \A new : Holds(lines, new) => Holds(files'.conf, new)
        PROVE  \/ \E j \in DOMAIN files'.conf : Word(files'.conf[j], 2) = l[2]
               \/ NoRoom(l[2])
    <3>1. mac = l[2]
      BY <2>2, <2>4 DEF OwnLine, Asked
    <3>2. CASE lines = << >>
      BY <2>4, <3>1, <3>2 DEF Asked
    <3>3. CASE lines # << >>
      <4>1. 1 \in DOMAIN lines /\ lines[1] \in EntriesOf(mac)
        BY <3>3, EmptySeq, LenProperties, ElementOfSeq
      <4>2. Word(lines[1], 2) = mac
        BY <4>1 DEF EntriesOf, Word
      <4>3. Holds(files'.conf, lines[1])
        BY <2>4, <4>1 DEF Holds
      <4> QED
        BY <3>1, <4>2, <4>3 DEF Holds
    <3> QED
      BY <3>2, <3>3
  <2>5. \/ \E j \in DOMAIN files'.conf : Word(files'.conf[j], 2) = l[2]
        \/ NoRoom(l[2])
    <3>1. \/ Holds(files'.conf, l)
          \/ \E mac \in Token : \E lines \in Seq(EntriesOf(mac)) :
               /\ Asked(mac, lines) /\ l \in Mentioning(mac)
               /\ \A new : Holds(lines, new) => Holds(files'.conf, new)
      BY <2>1, LineKept
    <3>2. CASE ~ Holds(files'.conf, l)
      <4>1. PICK mac \in Token : \E lines \in Seq(EntriesOf(mac)) :
               /\ Asked(mac, lines) /\ l \in Mentioning(mac)
               /\ \A new : Holds(lines, new) => Holds(files'.conf, new)
        BY <3>1, <3>2
      <4>2. PICK lines \in Seq(EntriesOf(mac)) :
               /\ Asked(mac, lines) /\ l \in Mentioning(mac)
               /\ \A new : Holds(lines, new) => Holds(files'.conf, new)
        BY <4>1
      <4> QED
        BY <2>4, <4>2
    <3> QED
      BY <2>3, <3>2
  <2> QED
    BY <2>5 DEF l
<1>2. DmlInv /\ [Next]_vars => [kept]_vars
  BY <1>1
<1>3. Init => DmlInv
  BY InitInv
<1>4. DmlInv /\ [Next]_vars => DmlInv'
  BY StepInv
<1> QED
  BY <1>2, <1>3, <1>4, PTL DEF Spec, PolicyKept

\* Applying a row of the table copies the stored lines of every other device.
THEOREM OthersCopied ==
  ASSUME NEW Keys, KeysApart(Keys)
  PROVE  Spec => RestCopied
<1>1. ASSUME KeyedInv(Keys), NEW i \in DOMAIN rows, ApplyRow(i), NEW k \in DOMAIN files.conf,
             Len(files.conf[k]) > 1, rows[i].val["mac"] \notin Parts[files.conf[k][2]]
      PROVE  \E j \in DOMAIN files'.conf : files'.conf[j] = files.conf[k]
  <2> DEFINE mac == rows[i].val["mac"]
             others == Keep(files.conf, Line \ Mentioning(mac))
             K == KeyedLine(Keys)
  <2>1. files.conf \in Seq(K) /\ files.conf[k] \in K
    BY <1>1, LenProperties, ElementOfSeq DEF KeyedInv
  <2>2. \/ files'.conf = files.conf
        \/ mac \in Keys /\ LineStored(Keys, mac)
    BY <1>1, ApplyRowPolicy
  <2>3. CASE files'.conf = files.conf
    BY <2>3
  <2>4. ASSUME mac \in Keys, NEW new \in Seq(KeyedEntries(Keys, mac)),
               files'.conf = others \o new
        PROVE  \E j \in DOMAIN files'.conf : files'.conf[j] = files.conf[k]
    <3> DEFINE l == files.conf[k]
    <3>1. new \in Seq(K) /\ l \in K
      BY <2>1, <2>4, KeyedLinesAreLines, SeqMonotonic
    <3>2. Holds(files.conf, l) /\ Word(l, 2) # mac
      <4>1. Word(l, 2) = l[2]
        BY <2>4, <3>1, KeyedMention
      <4>2. l[2] \in Token
        BY <3>1, ElementOfSeq, LenProperties DEF KeyedLine, Line
      <4> QED
        BY <1>1, <4>1, <4>2, WordsAssumption DEF Holds
    <3> HIDE DEF mac, l
    <3>3. Holds(Keep(files.conf, Line \ Mentioning(mac)) \o new, l)
      BY <2>1, <2>4, <3>1, <3>2, OtherLineKept
    <3> QED
      BY <2>4, <3>3 DEF Holds, l
  <2> QED
    BY <2>2, <2>3, <2>4 DEF LineStored
<1>2. KeyedInv(Keys) /\ [Next]_vars =>
        [\A i \in DOMAIN rows : ApplyRow(i) =>
           \A k \in DOMAIN files.conf :
             Len(files.conf[k]) > 1 /\ rows[i].val["mac"] \notin Parts[files.conf[k][2]] =>
               \E j \in DOMAIN files'.conf : files'.conf[j] = files.conf[k]]_vars
  BY <1>1
<1> QED
  BY <1>2, KeysStayApart, PTL DEF Spec, RestCopied

\* The handlers of the device table leave the stored default lines as they are.
THEOREM TableLeavesDefaults ==
  ASSUME NEW Keys, KeysApart(Keys)
  PROVE  Spec => TableKeepsDefaults
<1>1. ASSUME KeyedInv(Keys), TableStep
      PROVE  Keep(files'.conf, Mentioning(DefaultMac)) = Keep(files.conf, Mentioning(DefaultMac))
  <2>1. files.conf \in Seq(KeyedLine(Keys)) /\ DefaultMac \in Keys
    BY <1>1 DEF KeyedInv, KeysApart
  <2>2. CASE Untouched
    BY <2>2 DEF Untouched
  <2>3. CASE RowStored(Keys)
    <3>1. PICK mac \in Keys \ {DefaultMac} : LineStored(Keys, mac)
      BY <2>3 DEF RowStored
    <3>2. PICK lines \in Seq(KeyedEntries(Keys, mac)) :
            files'.conf = Keep(files.conf, Line \ Mentioning(mac)) \o lines
      BY <3>1 DEF LineStored
    <3> QED
      BY <2>1, <3>2, ReplacedSelection
  <2> QED
    BY <1>1, <2>2, <2>3, TableStepPolicy
<1>2. KeyedInv(Keys) /\ [Next]_vars =>
        [TableStep => Keep(files'.conf, Mentioning(DefaultMac))
                        = Keep(files.conf, Mentioning(DefaultMac))]_vars
  BY <1>1
<1> QED
  BY <1>2, KeysStayApart, PTL DEF Spec, TableKeepsDefaults

-----------------------------------------------------------------------------
(***************************************************************************)
(* One line per device: OneLinePerDevice.                                  *)
(***************************************************************************)
\* What OneLinePerDevice says of the stored policy, of any file.
OneLineEach(conf) ==
  \A i, j \in DOMAIN conf :
    Word(conf[i], 2) = Word(conf[j], 2) /\ Word(conf[i], 2) # DefaultMac => i = j

\* The same, counted per device.
OneFound(Keys, conf) ==
  \A m \in Keys \ {DefaultMac} : Len(Keep(conf, Mentioning(m))) <= 1

\* The two ways of saying it are the same, for keyed lines.
LEMMA OneLineFound ==
  ASSUME NEW Keys, DefaultMac \in Keys, NEW conf \in Seq(KeyedLine(Keys))
  PROVE  OneLineEach(conf) <=> OneFound(Keys, conf)
<1>1. \A i \in DOMAIN conf : conf[i] \in KeyedLine(Keys)
  BY LenProperties, ElementOfSeq
<1>2. \A i \in DOMAIN conf : /\ Word(conf[i], 2) \in Keys
                             /\ \A m \in Keys : conf[i] \in Mentioning(m) <=> Word(conf[i], 2) = m
  BY <1>1, KeyedMention
<1>3. ASSUME NEW m \in Keys
      PROVE  Len(Keep(conf, Mentioning(m))) <= 1
               <=> \A i, j \in DOMAIN conf : Word(conf[i], 2) = m /\ Word(conf[j], 2) = m => i = j
  <2>1. Len(Keep(conf, Mentioning(m))) <= 1
          <=> \A i, j \in DOMAIN conf :
                conf[i] \in Mentioning(m) /\ conf[j] \in Mentioning(m) => i = j
    BY KeepUnique
  <2> QED
    BY <1>2, <2>1
<1> QED
  BY <1>2, <1>3 DEF OneLineEach, OneFound

\* Cleaning the stored policy adds no line to the selection of a device.
LEMMA CleanedOne ==
  ASSUME NEW Keys, NEW conf \in Seq(KeyedLine(Keys)), OneFound(Keys, conf)
  PROVE  OneFound(Keys, Keep(conf, ValidLines))
<1> DEFINE K == KeyedLine(Keys)
<1>1. ASSUME NEW m \in Keys \ {DefaultMac}
      PROVE  Len(Keep(Keep(conf, ValidLines), Mentioning(m))) <= 1
  <2> DEFINE mine == Keep(conf, Mentioning(m))
  <2>1. mine \in Seq(K) /\ Len(mine) <= 1 /\ Len(mine) \in Nat
    BY KeepSub, LenProperties DEF OneFound
  <2>2. Keep(Keep(conf, ValidLines), Mentioning(m)) = Keep(mine, ValidLines)
    BY KeepCommute
  <2> HIDE DEF mine, K
  <2>3. Len(Keep(mine, ValidLines)) <= Len(mine) /\ Len(Keep(mine, ValidLines)) \in Nat
    BY <2>1, KeepShorter, KeepSub, LenProperties
  <2> QED
    BY <2>1, <2>2, <2>3
<1> QED
  BY <1>1 DEF OneFound

\* A new default line is no line of a device.
LEMMA MadeOne ==
  ASSUME NEW Keys, KeysApart(Keys), NEW conf \in Seq(KeyedLine(Keys)),
         NEW d \in Defaults, KeyedFields(Keys, d), NEW conf1, NEW d1, Made(conf, d, conf1, d1),
         OneFound(Keys, conf)
  PROVE  OneFound(Keys, conf1)
<1>1. \A m \in Keys \ {DefaultMac} : Keep(conf1, Mentioning(m)) = Keep(conf, Mentioning(m))
  BY MadeSelection
<1> QED
  BY <1>1 DEF OneFound

\* A row replaces all lines of its device by at most one; no other step adds one.
LEMMA OneStep ==
  ASSUME NEW Keys, KeysApart(Keys), KeyedInv(Keys), PolicyStep(Keys),
         OneFound(Keys, files.conf)
  PROVE  OneFound(Keys, files'.conf)
<1>1. /\ files.conf \in Seq(KeyedLine(Keys)) /\ dflt \in Defaults /\ KeyedFields(Keys, dflt)
      /\ DefaultMac \in Keys
  BY DEF KeyedInv, DmlInv, TypeOK, Defaults, KeysApart
<1>2. CASE files'.conf = files.conf
  BY <1>2
<1>3. CASE RowStored(Keys)
  <2>1. PICK mac \in Keys \ {DefaultMac} : LineStored(Keys, mac)
    BY <1>3 DEF RowStored
  <2>2. PICK lines \in Seq(KeyedEntries(Keys, mac)) :
          /\ Len(lines) <= 1
          /\ files'.conf = Keep(files.conf, Line \ Mentioning(mac)) \o lines
    BY <2>1 DEF LineStored
  <2>3. \A m \in Keys : Keep(files'.conf, Mentioning(m))
          = IF m = mac THEN lines ELSE Keep(files.conf, Mentioning(m))
    BY <1>1, <2>2, ReplacedSelection
  <2> QED
    BY <2>2, <2>3 DEF OneFound
<1>4. CASE PairStored
  <2>1. DefaultEntries \in Seq(KeyedEntries(Keys, DefaultMac))
    BY <1>1, EntriesKeyed
  <2>2. \A m \in Keys \ {DefaultMac} :
          Keep(Keep(files.conf, Line \ Mentioning(DefaultMac)) \o DefaultEntries, Mentioning(m))
            = Keep(files.conf, Mentioning(m))
    BY <1>1, <2>1, ReplacedSelection
  <2> QED
    BY <1>4, <2>2 DEF PairStored, OneFound
<1>5. CASE PairMade
  BY <1>1, <1>5, MadeOne DEF PairMade
<1>6. CASE SwitchedOn
  <2>1. PICK conf \in Seq(Line) :
          /\ IF files.confExists THEN conf = files.conf /\ dflt' = dflt
             ELSE Made(files.conf, dflt, conf, dflt')
          /\ files'.conf \in {conf, Keep(conf, ValidLines)}
    BY <1>6 DEF SwitchedOn
  <2>2. conf \in Seq(KeyedLine(Keys)) /\ OneFound(Keys, conf)
    BY <1>1, <2>1, MadeOne, MadeKeyed
  <2> QED
    BY <2>1, <2>2, CleanedOne
<1>7. CASE Started
  BY <1>1, <1>7, NoDefaultsKeyed, NoDefaultsType, MadeOne DEF Started, KeysApart
<1> QED
  BY <1>2, <1>3, <1>4, <1>5, <1>6, <1>7
     DEF PolicyStep, Untouched, DefaultStaged, PairRestored

\* The first start neither.
LEMMA OneInit ==
  ASSUME NEW Keys, KeysApart(Keys), \A conf \in BootConf : OneLineEach(conf), Init
  PROVE  OneFound(Keys, files.conf)
<1>1. PICK conf \in BootConf : files.conf = conf \/ Made(conf, NoDefaults, files.conf, dflt)
  BY InitMade
<1>2. /\ conf \in Seq(KeyedLine(Keys)) /\ NoDefaults \in Defaults
      /\ KeyedFields(Keys, NoDefaults) /\ DefaultMac \in Keys
  BY NoDefaultsKeyed, NoDefaultsType DEF KeysApart
<1>3. OneFound(Keys, conf)
  BY <1>2, OneLineFound
<1> QED
  BY <1>1, <1>2, <1>3, MadeOne

\* At most one stored line per device, where the file has no more before the
\* first start.
THEOREM OneLineStored ==
  ASSUME NEW Keys, KeysApart(Keys), \A conf \in BootConf : OneLineEach(conf)
  PROVE  Spec => []OneLinePerDevice
<1> DEFINE Inv == KeyedInv(Keys) /\ OneFound(Keys, files.conf)
<1>1. Init => Inv
  BY KeyedInit, OneInit
<1>2. Inv /\ [Next]_vars => Inv'
  BY KeyedStep, StepPolicy, OneStep DEF OneFound
<1>3. Inv => OneLinePerDevice
  BY OneLineFound DEF KeyedInv, KeysApart, OneLineEach, OneLinePerDevice
<1> QED
  BY <1>1, <1>2, <1>3, PTL DEF Spec

-----------------------------------------------------------------------------
(***************************************************************************)
(* The default pair.  What is stored for the default is known as long as   *)
(* its lines have both addresses in the words P4 and P6 that are read      *)
(* back: with a dot or a colon, or only those that inet_pton accepts.      *)
(***************************************************************************)
\* The lines with an address of P4 and one of P6.
Pairs(P4, P6) == WithWord(3, P4) \cap WithWord(4, P6)

\* What a restart looks for: the lines that mention the default MAC.
DefaultLines(conf) == Keep(conf, Mentioning(DefaultMac))

\* The addresses that the default is told, and those stored before the first
\* start, are of P4 and P6, or none, or one that does not fit its buffer.
AddressesFrom(P4, P6) ==
  /\ V4 \subseteq P4 /\ P4 \subseteq Dotted
  /\ V6 \subseteq P6 /\ P6 \subseteq Coloned
  /\ \A f \in {"v4", "s4"} : DefaultInputs[f] \subseteq P4 \cup {"", TooLong}
  /\ \A f \in {"v6", "s6"} : DefaultInputs[f] \subseteq P6 \cup {"", TooLong}
  /\ \A conf \in BootConf :
       DefaultLines(conf) \in Seq(Pairs(P4, P6)) /\ Len(DefaultLines(conf)) <= MAX_XDNS_SERV

\* So are those in the default fields.
FieldsFrom(P4, P6, d) ==
  /\ d["v4"] \in P4 \cup {""} /\ d["s4"] \in P4 \cup {""}
  /\ d["v6"] \in P6 \cup {""} /\ d["s6"] \in P6 \cup {""}

\* With a default line stored, an address of the pair is missing only while it
\* is being changed.
Known(P4, P6, D, d, staged) ==
  /\ D \in Seq(Pairs(P4, P6)) /\ Len(D) <= MAX_XDNS_SERV
  /\ FieldsFrom(P4, P6, d)
  /\ D # << >> => \A f \in {"v4", "v6"} : d[f] = "" => f \in staged

\* A line with both addresses.
LEMMA PairLine ==
  ASSUME NEW mac \in Token, NEW v4 \in Token, NEW v6 \in Token, NEW tag \in Text
  PROVE  LET l == Override(mac, v4, v6, tag)
         IN l \in Line /\ Len(l) >= 4 /\ l[3] = v4 /\ l[4] = v6
<1> DEFINE front == <<"dnsoverride", mac>>
           both == <<v4, v6>>
           last == <<tag>>
           end == Keep(last, Token)
           l == Override(mac, v4, v6, tag)
<1>1. /\ Token \subseteq Text /\ v4 \in Text /\ v6 \in Text /\ mac \in Text
      /\ "dnsoverride" \in Text
  BY WordsAssumption DEF Text
<1>2. l = front \o Keep(<<v4, v6, tag>>, Token) /\ l \in Line
  BY <1>1, OverrideWords, OverrideType
<1>3. /\ both \in Seq(Text) /\ both \in Seq(Token) /\ last \in Seq(Text) /\ front \in Seq(Text)
      /\ Len(both) = 2 /\ both[1] = v4 /\ both[2] = v6 /\ Len(front) = 2
  BY <1>1
<1>4. <<v4, v6, tag>> = both \o last
  OBVIOUS
<1> HIDE DEF both, last, front, l
<1>5. Keep(both \o last, Token) = both \o end /\ end \in Seq(Text) /\ Len(end) \in Nat
  <2>1. Keep(both, Token) = both
    BY <1>3, KeepAll
  <2>2. Keep(both \o last, Token) = Keep(both, Token) \o end
    BY <1>3, KeepConcat
  <2> QED
    BY <1>3, <2>1, <2>2, KeepSub, LenProperties
<1> HIDE DEF end
<1>6. /\ both \o end \in Seq(Text) /\ Len(both \o end) = 2 + Len(end)
      /\ (both \o end)[1] = v4 /\ (both \o end)[2] = v6
  <2>1. /\ both \o end \in Seq(Text) /\ Len(both \o end) = Len(both) + Len(end)
        /\ \A i \in 1 .. Len(both) + Len(end) :
             (both \o end)[i] = IF i <= Len(both) THEN both[i] ELSE end[i - Len(both)]
    BY <1>3, <1>5, ConcatProperties
  <2>2. 1 \in 1 .. Len(both) + Len(end) /\ 2 \in 1 .. Len(both) + Len(end)
    BY <1>3, <1>5
  <2> QED
    BY <1>3, <2>1, <2>2
<1>7. l = front \o (both \o end)
  BY <1>2, <1>4, <1>5
<1> DEFINE r == both \o end
<1> HIDE DEF r
<1>8. r \in Seq(Text) /\ Len(r) = 2 + Len(end) /\ r[1] = v4 /\ r[2] = v6 /\ l = front \o r
  BY <1>6, <1>7 DEF r
<1>9. Len(l) = 4 + Len(end) /\ l[3] = r[1] /\ l[4] = r[2]
  <2>1. /\ Len(front \o r) = Len(front) + Len(r)
        /\ \A i \in 1 .. Len(front) + Len(r) :
             (front \o r)[i] = IF i <= Len(front) THEN front[i] ELSE r[i - Len(front)]
    <3>1. front \in Seq(Text) /\ r \in Seq(Text)
      BY <1>3, <1>8
    <3> QED
      BY <3>1, ConcatProperties
  <2>2. 3 \in 1 .. Len(front) + Len(r) /\ 4 \in 1 .. Len(front) + Len(r)
    BY <1>3, <1>5, <1>8
  <2> QED
    BY <1>3, <1>5, <1>8, <2>1, <2>2
<1> QED
  BY <1>2, <1>5, <1>8, <1>9 DEF l

LEMMA PairLineFrom ==
  ASSUME NEW P4 \in SUBSET Token, NEW P6 \in SUBSET Token, NEW mac \in Token
  PROVE  \A v4 \in P4, v6 \in P6, tag \in Text :
           /\ Override(mac, v4, v6, tag) \in Pairs(P4, P6)
           /\ Word(Override(mac, v4, v6, tag), 3) = v4
           /\ Word(Override(mac, v4, v6, tag), 4) = v6
<1> SUFFICES ASSUME NEW v4 \in P4, NEW v6 \in P6, NEW tag \in Text
             PROVE  /\ Override(mac, v4, v6, tag) \in Pairs(P4, P6)
                    /\ Word(Override(mac, v4, v6, tag), 3) = v4
                    /\ Word(Override(mac, v4, v6, tag), 4) = v6
  OBVIOUS
<1> DEFINE l == Override(mac, v4, v6, tag)
<1>1. l \in Line /\ Len(l) >= 4 /\ l[3] = v4 /\ l[4] = v6
  BY PairLine
<1> HIDE DEF l
<1>2. Len(l) \in Nat
  BY <1>1, LenProperties DEF Line
<1>3. Len(l) >= 3
  BY <1>1, <1>2
<1>4. l \in Pairs(P4, P6) /\ Word(l, 3) = v4 /\ Word(l, 4) = v6
  BY <1>1, <1>3 DEF Pairs, WithWord, Word
<1> QED
  BY <1>4 DEF l

\* The addresses that are read from such a line.
LEMMA PairWords ==
  ASSUME NEW P4, NEW P6, NEW l \in Pairs(P4, P6)
  PROVE  /\ Word(l, 3) \in P4 /\ Word(l, 4) \in P6
         /\ l \in Line
<1>1. l \in Line /\ Len(l) \in Nat /\ Len(l) >= 4 /\ l[3] \in P4 /\ l[4] \in P6
  BY LenProperties DEF Pairs, WithWord, Line
<1>2. Len(l) >= 3
  BY <1>1
<1> QED
  BY <1>1, <1>2 DEF Word

\* What a restart reads back is the first and the last default line.
LEMMA DefaultsFrom ==
  ASSUME NEW P4 \in SUBSET Dotted, NEW P6 \in SUBSET Coloned, NEW conf, NEW d,
         DefaultLines(conf) \in Seq(Pairs(P4, P6))
  PROVE  LET D == DefaultLines(conf)
             new == DefaultsIn(conf, d)
         IN /\ new["v4"] = IF D # << >> THEN Word(D[1], 3) ELSE d["v4"]
            /\ new["v6"] = IF D # << >> THEN Word(D[1], 4) ELSE d["v6"]
            /\ new["s4"] = IF Len(D) > 1 THEN Word(D[Len(D)], 3) ELSE d["s4"]
            /\ new["s6"] = IF Len(D) > 1 THEN Word(D[Len(D)], 4) ELSE d["s6"]
<1> DEFINE D == DefaultLines(conf)
           four == Keep(D, WithWord(3, Dotted))
           six  == Keep(four, WithWord(4, Coloned))
           tags == Keep(six, WithWord(5, Token))
           P == Pairs(P4, P6)
<1>1. P \subseteq WithWord(3, Dotted) /\ P \subseteq WithWord(4, Coloned)
  BY DEF Pairs, WithWord
<1>2. four = D
  BY <1>1, KeepAll
<1>3. six = D
  <2> HIDE DEF four
  <2>1. Keep(D, WithWord(4, Coloned)) = D
    BY <1>1, KeepAll
  <2> QED
    BY <1>2, <2>1
<1>4. DefaultsIn(conf, d) =
        [f \in DefaultFields |->
           CASE f = "v4" /\ four # << >> -> Word(four[1], 3)
             [] f = "s4" /\ Len(four) > 1 -> Word(four[Len(four)], 3)
             [] f = "v6" /\ six # << >> -> Word(six[1], 4)
             [] f = "s6" /\ Len(six) > 1 -> Word(six[Len(six)], 4)
             [] f = "tag" /\ tags # << >> -> Word(tags[Len(tags)], 5)
             [] OTHER -> d[f]]
  BY DEF DefaultsIn, DefaultLines
<1> HIDE DEF four, six, tags, P, D
<1>5. DefaultsIn(conf, d) =
        [f \in DefaultFields |->
           CASE f = "v4" /\ D # << >> -> Word(D[1], 3)
             [] f = "s4" /\ Len(D) > 1 -> Word(D[Len(D)], 3)
             [] f = "v6" /\ D # << >> -> Word(D[1], 4)
             [] f = "s6" /\ Len(D) > 1 -> Word(D[Len(D)], 4)
             [] f = "tag" /\ tags # << >> -> Word(tags[Len(tags)], 5)
             [] OTHER -> d[f]]
  BY <1>2, <1>3, <1>4, Zenon
<1> DEFINE new == DefaultsIn(conf, d)
<1> HIDE DEF new
<1>6. /\ new["v4"] = IF D # << >> THEN Word(D[1], 3) ELSE d["v4"]
      /\ new["v6"] = IF D # << >> THEN Word(D[1], 4) ELSE d["v6"]
      /\ new["s4"] = IF Len(D) > 1 THEN Word(D[Len(D)], 3) ELSE d["s4"]
      /\ new["s6"] = IF Len(D) > 1 THEN Word(D[Len(D)], 4) ELSE d["s6"]
  BY <1>5 DEF DefaultFields, new
<1> QED
  BY <1>6 DEF new, D

\* Some lines, their first and, if the secondary pair is whole, their last line.
Telling(D, v4, v6, s4, s6, whole) ==
  /\ D # << >> /\ v4 = Word(D[1], 3) /\ v6 = Word(D[1], 4)
  /\ whole => Len(D) > 1 /\ s4 = Word(D[Len(D)], 3) /\ s6 = Word(D[Len(D)], 4)

\* Two fields hold a pair of addresses, and its entry fits.
Whole(d, f, g) == d[f] # "" /\ d[g] # "" /\ Fits(DefaultMac, d[f], d[g], d["tag"])

\* The lines tell the pairs that are whole.
Tells(D, d) ==
  Whole(d, "v4", "v6") =>
    Telling(D, d["v4"], d["v6"], d["s4"], d["s6"], Whole(d, "s4", "s6"))

\* Joining with nothing.
LEMMA EmptyFirst ==
  ASSUME NEW one
  PROVE  << >> \o <<one>> = <<one>> /\ <<one>> \o << >> = <<one>>
<1>1. <<one>> \in Seq({one})
  OBVIOUS
<1> QED
  BY <1>1, ConcatEmptySeq

\* One line, and two, of which the addresses are known.
LEMMA OneLine ==
  ASSUME NEW P, NEW one \in P
  PROVE  /\ <<one>> \in Seq(P) /\ Len(<<one>>) = 1 /\ Len(<<one>>) <= MAX_XDNS_SERV
         /\ <<one>> # << >> /\ <<one>>[1] = one
BY DEF MAX_XDNS_SERV

LEMMA OneTells ==
  ASSUME NEW P, NEW one \in P, NEW s4, NEW s6
  PROVE  Telling(<<one>>, Word(one, 3), Word(one, 4), s4, s6, FALSE)
<1> DEFINE s == <<one>>
<1>1. s # << >> /\ s[1] = one
  BY OneLine
<1> HIDE DEF s
<1>2. Telling(s, Word(one, 3), Word(one, 4), s4, s6, FALSE)
  BY <1>1 DEF Telling
<1> QED
  BY <1>2 DEF s

LEMMA TwoLines ==
  ASSUME NEW P, NEW one \in P, NEW two \in P
  PROVE  /\ <<one>> \o <<two>> \in Seq(P) /\ Len(<<one>> \o <<two>>) = 2
         /\ Len(<<one>> \o <<two>>) <= MAX_XDNS_SERV
         /\ <<one>> \o <<two>> # << >>
         /\ (<<one>> \o <<two>>)[1] = one /\ (<<one>> \o <<two>>)[2] = two
<1> DEFINE a == <<one>>
           b == <<two>>
<1>1. a \in Seq(P) /\ b \in Seq(P) /\ Len(a) = 1 /\ Len(b) = 1 /\ a[1] = one /\ b[1] = two
  BY OneLine
<1> HIDE DEF a, b
<1>2. /\ a \o b \in Seq(P) /\ Len(a \o b) = Len(a) + Len(b)
      /\ \A i \in 1 .. Len(a) + Len(b) : (a \o b)[i] = IF i <= Len(a) THEN a[i] ELSE b[i - Len(a)]
  BY <1>1, ConcatProperties
<1>3. Len(a \o b) = 2 /\ (a \o b)[1] = one /\ (a \o b)[2] = two
  BY <1>1, <1>2
<1>4. a \o b # << >> /\ Len(a \o b) <= MAX_XDNS_SERV
  BY <1>2, <1>3, EmptySeq DEF MAX_XDNS_SERV
<1> QED
  BY <1>2, <1>3, <1>4 DEF a, b

LEMMA TwoTell ==
  ASSUME NEW P, NEW one \in P, NEW two \in P
  PROVE  Telling(<<one>> \o <<two>>, Word(one, 3), Word(one, 4), Word(two, 3), Word(two, 4), TRUE)
<1> DEFINE s == <<one>> \o <<two>>
<1>1. s # << >> /\ s[1] = one /\ s[2] = two /\ Len(s) = 2
  BY TwoLines
<1> HIDE DEF s
<1>2. Len(s) > 1 /\ s[Len(s)] = two
  BY <1>1
<1>3. Telling(s, Word(one, 3), Word(one, 4), Word(two, 3), Word(two, 4), TRUE)
  BY <1>1, <1>2, Zenon DEF Telling
<1> QED
  BY <1>3 DEF s

LEMMA DefaultLineFrom ==
  ASSUME NEW P4 \in SUBSET Token, NEW P6 \in SUBSET Token
  PROVE  \A a \in P4, b \in P6, c \in Text :
           /\ Override(DefaultMac, a, b, c) \in Pairs(P4, P6)
           /\ Word(Override(DefaultMac, a, b, c), 3) = a
           /\ Word(Override(DefaultMac, a, b, c), 4) = b
<1>1. DefaultMac \in Token
  BY WordsAssumption
<1> QED
  BY <1>1, PairLineFrom

LEMMA LenEmpty == Len(<< >>) <= MAX_XDNS_SERV
BY DEF MAX_XDNS_SERV

\* The entries with a pair of addresses.
PairEntries(P4, P6) ==
  \A a \in P4, b \in P6, c \in Text :
    /\ Override(DefaultMac, a, b, c) \in Pairs(P4, P6)
    /\ Word(Override(DefaultMac, a, b, c), 3) = a
    /\ Word(Override(DefaultMac, a, b, c), 4) = b
    /\ Entry(DefaultMac, a, b, c)
         = IF Fits(DefaultMac, a, b, c) THEN <<Override(DefaultMac, a, b, c)>> ELSE << >>

LEMMA PairEntry ==
  ASSUME NEW P4 \in SUBSET Token, NEW P6 \in SUBSET Token
  PROVE  PairEntries(P4, P6)
<1>1. \A a \in P4, b \in P6, c \in Text :
        /\ Override(DefaultMac, a, b, c) \in Pairs(P4, P6)
        /\ Word(Override(DefaultMac, a, b, c), 3) = a
        /\ Word(Override(DefaultMac, a, b, c), 4) = b
  BY DefaultLineFrom
<1> QED
  BY <1>1, Zenon DEF Entry, PairEntries

\* The lines that XDNS_Commit stores.
LEMMA EntriesFrom ==
  ASSUME NEW P4 \in SUBSET Token, NEW P6 \in SUBSET Token, dflt \in Defaults,
         FieldsFrom(P4, P6, dflt), dflt["v4"] # "", dflt["v6"] # ""
  PROVE  /\ DefaultEntries \in Seq(Pairs(P4, P6)) /\ Len(DefaultEntries) <= MAX_XDNS_SERV
         /\ Tells(DefaultEntries, dflt)
<1> DEFINE p4 == dflt["v4"]  p6 == dflt["v6"]  q4 == dflt["s4"]  q6 == dflt["s6"]
           word == dflt["tag"]
           one == Override(DefaultMac, p4, p6, word)
           two == Override(DefaultMac, q4, q6, word)
           fits == Fits(DefaultMac, p4, p6, word)
           both == q4 # "" /\ q6 # "" /\ Fits(DefaultMac, q4, q6, word)
           P == Pairs(P4, P6)
<1>1. /\ word \in Text /\ p4 \in P4 /\ p6 \in P6
      /\ q4 # "" => q4 \in P4
      /\ q6 # "" => q6 \in P6
  BY DEF FieldsFrom, Defaults, DefaultFields
<1>2. DefaultEntries = Entry(DefaultMac, p4, p6, word)
        \o (IF q4 # "" /\ q6 # "" THEN Entry(DefaultMac, q4, q6, word) ELSE << >>)
  BY DEF DefaultEntries
<1>3. Whole(dflt, "v4", "v6") <=> p4 # "" /\ p6 # "" /\ fits
  BY DEF Whole
<1>4. Whole(dflt, "s4", "s6") <=> both
  BY DEF Whole
<1>5. Tells(DefaultEntries, dflt) <=>
        (Whole(dflt, "v4", "v6") =>
           Telling(DefaultEntries, p4, p6, q4, q6, Whole(dflt, "s4", "s6")))
  BY Zenon DEF Tells
<1> HIDE DEF p4, p6, q4, q6, word
<1>12. PairEntries(P4, P6)
  BY PairEntry
<1>6. /\ one \in P /\ Word(one, 3) = p4 /\ Word(one, 4) = p6
      /\ Entry(DefaultMac, p4, p6, word) = IF fits THEN <<one>> ELSE << >>
  BY <1>1, <1>12, Zenon DEF PairEntries
<1>7. q4 # "" /\ q6 # "" =>
        /\ two \in P /\ Word(two, 3) = q4 /\ Word(two, 4) = q6
        /\ Entry(DefaultMac, q4, q6, word)
             = IF Fits(DefaultMac, q4, q6, word) THEN <<two>> ELSE << >>
  <2> SUFFICES ASSUME q4 # "", q6 # ""
               PROVE  /\ two \in P /\ Word(two, 3) = q4 /\ Word(two, 4) = q6
                      /\ Entry(DefaultMac, q4, q6, word)
                           = IF Fits(DefaultMac, q4, q6, word) THEN <<two>> ELSE << >>
    OBVIOUS
  <2>1. q4 \in P4 /\ q6 \in P6 /\ word \in Text
    BY <1>1
  <2> QED
    BY <1>12, <2>1, Zenon DEF PairEntries
<1>8. DefaultEntries = (IF fits THEN <<one>> ELSE << >>) \o (IF both THEN <<two>> ELSE << >>)
  BY <1>2, <1>6, <1>7, Zenon
<1>9. both => two \in P /\ Word(two, 3) = q4 /\ Word(two, 4) = q6
  BY <1>7
<1> HIDE DEF one, two, P, fits, both
<1>10. /\ DefaultEntries \in Seq(P) /\ Len(DefaultEntries) <= MAX_XDNS_SERV
       /\ fits => Telling(DefaultEntries, p4, p6, q4, q6, both)
  <2>1. CASE fits /\ both
    <3> DEFINE s == <<one>> \o <<two>>
    <3>1. DefaultEntries = s
      BY <1>8, <2>1, Zenon
    <3>2. s \in Seq(P) /\ Len(s) <= MAX_XDNS_SERV
      BY <1>6, <1>9, <2>1, TwoLines
    <3>3. Telling(s, p4, p6, q4, q6, TRUE)
      BY <1>6, <1>9, <2>1, TwoTell, Zenon
    <3> HIDE DEF s
    <3> QED
      BY <2>1, <3>1, <3>2, <3>3 DEF Telling
  <2>2. CASE fits /\ ~ both
    <3> DEFINE s == <<one>>
    <3>1. DefaultEntries = s
      BY <1>8, <2>2, EmptyFirst, Zenon
    <3>2. s \in Seq(P) /\ Len(s) <= MAX_XDNS_SERV
      BY <1>6, OneLine
    <3>3. Telling(s, p4, p6, q4, q6, FALSE)
      BY <1>6, OneTells, Zenon
    <3> HIDE DEF s
    <3> QED
      BY <2>2, <3>1, <3>2, <3>3 DEF Telling
  <2>3. CASE ~ fits /\ both
    <3> DEFINE s == <<two>>
    <3>1. DefaultEntries = s
      BY <1>8, <2>3, EmptyFirst, Zenon
    <3>2. s \in Seq(P) /\ Len(s) <= MAX_XDNS_SERV
      BY <1>9, <2>3, OneLine
    <3> HIDE DEF s
    <3> QED
      BY <2>3, <3>1, <3>2
  <2>4. CASE ~ fits /\ ~ both
    <3>1. DefaultEntries = << >> \o << >>
      BY <1>8, <2>4, Zenon
    <3>2. << >> \in Seq(P) /\ Len(<< >>) <= MAX_XDNS_SERV
      <4>1. << >> \in Seq(P)
        BY EmptySeq
      <4> QED
        BY <4>1, LenEmpty, Zenon
    <3>3. << >> \o << >> = << >>
      BY <3>2, ConcatEmptySeq
    <3> QED
      BY <2>4, <3>1, <3>2, <3>3
  <2> QED
    BY <2>1, <2>2, <2>3, <2>4
<1>11. Tells(DefaultEntries, dflt)
  BY <1>3, <1>4, <1>5, <1>10 DEF Telling
<1> QED
  BY <1>10, <1>11 DEF P

\* The line that CreateDnsmasqServerConf makes where none is stored, if it fits.
LEMMA MadeFrom ==
  ASSUME NEW P4 \in SUBSET Token, NEW P6 \in SUBSET Token, V4 \subseteq P4, V6 \subseteq P6,
         NEW d \in Defaults, FieldsFrom(P4, P6, d), NEW D1, NEW d1, Made(<< >>, d, D1, d1)
  PROVE  /\ FieldsFrom(P4, P6, d1)
         /\ D1 \in Seq(ValidLines) /\ D1 \in Seq(Pairs(P4, P6)) /\ Len(D1) <= 1
         /\ D1 # << >> => d1["v4"] # "" /\ d1["v6"] # ""
         /\ (D1 = << >> /\ d1 = d) \/ Tells(D1, d1)
<1>0. << >> \in Seq(ValidLines) /\ << >> \in Seq(Pairs(P4, P6)) /\ Len(<< >>) <= 1
  BY EmptySeq
<1>1. CASE D1 = << >> /\ d1 = d
  BY <1>0, <1>1
<1>2. CASE Fresh(d, d1) /\ D1 = << >> /\ (d1["v4"] = "" \/ d1["v6"] = "")
  BY <1>0, <1>2 DEF Fresh, FieldsFrom, Tells, Whole
<1>3. CASE Fresh(d, d1) /\ D1 = << >> \o FreshLines(d1) /\ ~ (d1["v4"] = "" \/ d1["v6"] = "")
  <2> DEFINE p4 == d1["v4"]  p6 == d1["v6"]  word == d1["tag"]
             line == Override(DefaultMac, p4, p6, word)
             fits == Fits(DefaultMac, p4, p6, word)
  <2>1. /\ word \in Text /\ p4 \in V4 /\ p6 \in V6 /\ d1["s4"] = ""
        /\ V4 \in SUBSET Token /\ V6 \in SUBSET Token
    BY <1>3, WordsAssumption DEF Fresh, Defaults, DefaultFields
  <2>2. FreshLines(d1) = Entry(DefaultMac, p4, p6, word)
    BY DEF FreshLines
  <2>3. FieldsFrom(P4, P6, d1)
    BY <1>3 DEF Fresh, FieldsFrom
  <2>4. /\ Whole(d1, "v4", "v6") <=> p4 # "" /\ p6 # "" /\ fits
        /\ ~ Whole(d1, "s4", "s6")
    BY <2>1 DEF Whole
  <2>5. p4 # "" /\ p6 # ""
    BY <1>3
  <2>6. Tells(D1, d1) <=>
          (Whole(d1, "v4", "v6") =>
             Telling(D1, p4, p6, d1["s4"], d1["s6"], Whole(d1, "s4", "s6")))
    BY Zenon DEF Tells
  <2> HIDE DEF p4, p6, word
  <2>7. /\ line \in Pairs(V4, V6) /\ Word(line, 3) = p4 /\ Word(line, 4) = p6
        /\ Entry(DefaultMac, p4, p6, word) = IF fits THEN <<line>> ELSE << >>
    <3>1. PairEntries(V4, V6)
      BY <2>1, PairEntry
    <3> QED
      BY <2>1, <3>1, Zenon DEF PairEntries
  <2>8. Pairs(V4, V6) \subseteq ValidLines /\ Pairs(V4, V6) \subseteq Pairs(P4, P6)
    BY DEF Pairs, ValidLines, WithWord
  <2>9. line \in ValidLines /\ line \in Pairs(P4, P6)
    BY <2>7, <2>8
  <2> HIDE DEF line, fits
  <2>10. CASE fits
    <3> DEFINE s == <<line>>
    <3>1. D1 = s
      BY <1>3, <2>2, <2>7, <2>10, EmptyFirst, Zenon
    <3>2. s \in Seq(ValidLines) /\ s \in Seq(Pairs(P4, P6)) /\ Len(s) = 1
      BY <2>9, OneLine
    <3>3. Telling(s, p4, p6, d1["s4"], d1["s6"], FALSE)
      BY <2>7, OneTells, Zenon
    <3> HIDE DEF s
    <3>4. Tells(D1, d1)
      BY <2>4, <2>6, <3>1, <3>3 DEF Telling
    <3> QED
      <4>1. d1["v4"] # "" /\ d1["v6"] # ""
        BY <1>3
      <4>2. Len(D1) <= 1 /\ D1 \in Seq(ValidLines) /\ D1 \in Seq(Pairs(P4, P6))
        BY <3>1, <3>2
      <4> QED
        BY <2>3, <3>4, <4>1, <4>2
  <2>11. CASE ~ fits
    <3>1. << >> \o << >> = << >>
      BY <1>0, ConcatEmptySeq
    <3>2. D1 = << >>
      BY <1>3, <2>2, <2>7, <2>11, <3>1, Zenon
    <3>3. Tells(D1, d1)
      BY <2>4, <2>6, <2>11
    <3> QED
      BY <1>0, <2>3, <3>2, <3>3
  <2> QED
    BY <2>10, <2>11
<1> QED
  BY <1>1, <1>2, <1>3 DEF Made

(***************************************************************************)
(* A step, as the default lines see it.                                    *)
(***************************************************************************)
SelectionStep(D, D1) ==
  \/ D1 = D /\ UNCHANGED <<dflt, changed>>
  \/ /\ D1 = D
     /\ \E f \in DefaultFields : \E v \in DefaultInputs[f] :
          dflt' = [dflt EXCEPT ![f] = Stored(v)] /\ changed' = changed \cup {f}
  \/ /\ dflt["v4"] # "" /\ dflt["v6"] # ""
     /\ D1 = DefaultEntries /\ dflt' = dflt /\ changed' = {}
  \/ /\ dflt["v4"] = "" \/ dflt["v6"] = ""
     /\ \A f \in changed \cap {"v4", "v6"} : dflt[f] # ""
     /\ Made(D, dflt, D1, dflt') /\ changed' = {}
  \/ D1 = D /\ changed # {} /\ XDNS_Rollback
  \/ /\ changed' = changed
     /\ \E made : /\ \/ made = D /\ dflt' = dflt
                     \/ D = << >> /\ Made(D, dflt, made, dflt')
                  /\ D1 \in {made, Keep(made, ValidLines)}
  \/ /\ changed' = {}
     /\ \/ D1 = D /\ dflt' = DefaultsIn(files.conf, NoDefaults)
        \/ D = << >> /\ Made(D, NoDefaults, D1, dflt')

LEMMA StepSelection ==
  ASSUME NEW Keys, KeysApart(Keys), KeyedInv(Keys), PolicyStep(Keys)
  PROVE  SelectionStep(DefaultLines(files.conf), DefaultLines(files'.conf))
<1> DEFINE K == KeyedLine(Keys)
           D == DefaultLines(files.conf)
           D1 == DefaultLines(files'.conf)
<1>1. /\ files.conf \in Seq(K) /\ dflt \in Defaults /\ KeyedFields(Keys, dflt)
      /\ DefaultMac \in Keys /\ (~ files.confExists => files.conf = << >>)
  BY DEF KeyedInv, DmlInv, TypeOK, Defaults, KeysApart
<1>2. ~ files.confExists => D = << >>
  BY <1>1, KeepEmpty DEF DefaultLines
<1>3. ASSUME NEW d \in Defaults, KeyedFields(Keys, d), NEW conf, NEW d1, Made(files.conf, d, conf, d1)
      PROVE  Made(D, d, DefaultLines(conf), d1)
  BY <1>1, <1>3, MadeSelection DEF DefaultLines
<1>4. CASE Untouched
  BY <1>4 DEF Untouched, SelectionStep
<1>5. CASE DefaultStaged
  <2>1. D1 = D
    BY <1>5 DEF DefaultStaged
  <2> HIDE DEF D, D1
  <2> QED
    BY <1>5, <2>1 DEF DefaultStaged, SelectionStep, D, D1
<1>6. CASE RowStored(Keys)
  <2>1. PICK mac \in Keys \ {DefaultMac} : LineStored(Keys, mac)
    BY <1>6 DEF RowStored
  <2>2. PICK lines \in Seq(KeyedEntries(Keys, mac)) :
          files'.conf = Keep(files.conf, Line \ Mentioning(mac)) \o lines
    BY <2>1 DEF LineStored
  <2>3. D1 = D
    BY <1>1, <2>2, ReplacedSelection DEF DefaultLines
  <2> QED
    BY <1>6, <2>3 DEF RowStored, SelectionStep
<1>7. CASE PairStored
  <2>1. DefaultEntries \in Seq(KeyedEntries(Keys, DefaultMac))
    BY <1>1, EntriesKeyed
  <2>2. Keep(Keep(files.conf, Line \ Mentioning(DefaultMac)) \o DefaultEntries, Mentioning(DefaultMac))
          = DefaultEntries
    BY <1>1, <2>1, ReplacedSelection
  <2>3. D1 = DefaultEntries
    BY <1>7, <2>2 DEF PairStored, DefaultLines
  <2> HIDE DEF D, D1
  <2> QED
    BY <1>7, <2>3 DEF PairStored, SelectionStep, D, D1
<1>8. CASE PairMade
  <2>1. Made(D, dflt, D1, dflt')
    BY <1>1, <1>3, <1>8 DEF PairMade
  <2> HIDE DEF D, D1
  <2> QED
    BY <1>8, <2>1 DEF PairMade, SelectionStep, D, D1
<1>9. CASE PairRestored
  BY <1>9 DEF PairRestored, SelectionStep
<1>10. CASE SwitchedOn
  <2>1. PICK conf \in Seq(Line) :
          /\ IF files.confExists THEN conf = files.conf /\ dflt' = dflt
             ELSE Made(files.conf, dflt, conf, dflt')
          /\ files'.conf \in {conf, Keep(conf, ValidLines)}
    BY <1>10 DEF SwitchedOn
  <2> DEFINE made == DefaultLines(conf)
  <2>2. \/ made = D /\ dflt' = dflt
        \/ D = << >> /\ Made(D, dflt, made, dflt')
    BY <1>1, <1>2, <1>3, <2>1
  <2>3. D1 \in {made, Keep(made, ValidLines)}
    BY <2>1, KeepCommute DEF DefaultLines
  <2> HIDE DEF D, D1, made
  <2> QED
    BY <1>10, <2>2, <2>3 DEF SwitchedOn, SelectionStep, D, D1
<1>11. CASE Started
  <2>1. KeyedFields(Keys, NoDefaults) /\ NoDefaults \in Defaults
    BY NoDefaultsKeyed, NoDefaultsType DEF KeysApart
  <2>2. \/ D1 = D /\ dflt' = DefaultsIn(files.conf, NoDefaults)
        \/ D = << >> /\ Made(D, NoDefaults, D1, dflt')
    BY <1>2, <1>3, <1>11, <2>1 DEF Started
  <2> HIDE DEF D, D1
  <2> QED
    BY <1>11, <2>2 DEF Started, SelectionStep, D, D1
<1> QED
  BY <1>4, <1>5, <1>6, <1>7, <1>8, <1>9, <1>10, <1>11 DEF PolicyStep

-----------------------------------------------------------------------------
(***************************************************************************)
(* What is known of the default lines, after a step.                       *)
(***************************************************************************)

\* A start with some default lines stored.
LEMMA ReadKnown ==
  ASSUME NEW P4 \in SUBSET Dotted, NEW P6 \in SUBSET Coloned, NEW conf,
         DefaultLines(conf) \in Seq(Pairs(P4, P6)), Len(DefaultLines(conf)) <= MAX_XDNS_SERV
  PROVE  Known(P4, P6, DefaultLines(conf), DefaultsIn(conf, NoDefaults), {})
<1> DEFINE D == DefaultLines(conf)
           new == DefaultsIn(conf, NoDefaults)
<1>1. /\ new["v4"] = IF D # << >> THEN Word(D[1], 3) ELSE NoDefaults["v4"]
      /\ new["v6"] = IF D # << >> THEN Word(D[1], 4) ELSE NoDefaults["v6"]
      /\ new["s4"] = IF Len(D) > 1 THEN Word(D[Len(D)], 3) ELSE NoDefaults["s4"]
      /\ new["s6"] = IF Len(D) > 1 THEN Word(D[Len(D)], 4) ELSE NoDefaults["s6"]
  BY DefaultsFrom
<1>2. \A f \in {"v4", "v6", "s4", "s6"} : NoDefaults[f] = ""
  BY DEF NoDefaults, DefaultFields
<1>3. D \in Seq(Pairs(P4, P6)) /\ Len(D) <= MAX_XDNS_SERV /\ Len(D) \in Nat
  BY LenProperties
<1>4. "" \notin P4 /\ "" \notin P6
  BY WordsAssumption
<1> HIDE DEF D, new
<1>5. ASSUME NEW i \in 1..Len(D)
      PROVE  Word(D[i], 3) \in P4 /\ Word(D[i], 4) \in P6
  <2>1. D[i] \in Pairs(P4, P6)
    BY <1>3, <1>5, ElementOfSeq
  <2> QED
    BY <2>1, PairWords
<1>6. D # << >> => 1 \in 1..Len(D) /\ Len(D) \in 1..Len(D)
  BY <1>3, EmptySeq
<1>7. Len(D) > 1 => D # << >>
  BY <1>3, EmptySeq
<1>8. FieldsFrom(P4, P6, new)
  BY <1>1, <1>2, <1>5, <1>6, <1>7 DEF FieldsFrom
<1>9. D # << >> => new["v4"] # "" /\ new["v6"] # ""
  BY <1>1, <1>4, <1>5, <1>6
<1> QED
  BY <1>3, <1>8, <1>9 DEF Known, D, new

\* A field that is staged.
LEMMA StagedKnown ==
  ASSUME NEW P4, NEW P6, AddressesFrom(P4, P6), dflt \in Defaults, NEW D,
         Known(P4, P6, D, dflt, changed),
         NEW f \in DefaultFields, NEW v \in DefaultInputs[f]
  PROVE  Known(P4, P6, D, [dflt EXCEPT ![f] = Stored(v)], changed \cup {f})
<1> DEFINE new == [dflt EXCEPT ![f] = Stored(v)]
<1>1. /\ f \in {"v4", "s4"} => Stored(v) \in P4 \cup {""}
      /\ f \in {"v6", "s6"} => Stored(v) \in P6 \cup {""}
  BY DEF AddressesFrom, Stored
<1>2. \A g \in DefaultFields : new[g] = IF g = f THEN Stored(v) ELSE dflt[g]
  BY DEF Defaults
<1> HIDE DEF new
<1>3. FieldsFrom(P4, P6, new)
  BY <1>1, <1>2 DEF Known, FieldsFrom, DefaultFields
<1>4. D # << >> => \A g \in {"v4", "v6"} : new[g] = "" => g \in changed \cup {f}
  BY <1>2 DEF Known, DefaultFields
<1> QED
  BY <1>3, <1>4 DEF Known, new

\* A pair that is restored.
LEMMA RestoredKnown ==
  ASSUME NEW P4, NEW P6, P4 \subseteq Dotted, P6 \subseteq Coloned, NEW D,
         D = DefaultLines(files.conf), Known(P4, P6, D, dflt, changed), XDNS_Rollback
  PROVE  Known(P4, P6, D, dflt', changed')
<1> DEFINE found == GetDnsMasqFileEntry(files, DefaultMac)
           p == found[1]
           s == found[MAX_XDNS_SERV]
           ok1 == Len(found) >= MAX_XDNS_SERV /\ p \in WithWord(3, Dotted)
           ok2 == ok1 /\ s \in WithWord(3, Dotted)
           ok3 == ok2 /\ p \in WithWord(4, Coloned)
           ok4 == ok3 /\ s \in WithWord(4, Coloned)
<1>1. found = D \/ found = << >>
  BY DEF GetDnsMasqFileEntry, DefaultLines
<1>2. dflt' = [f \in DefaultFields |->
                 CASE f = "v4" /\ ok1 -> Word(p, 3)
                   [] f = "s4" /\ ok2 -> Word(s, 3)
                   [] f = "v6" /\ ok3 -> Word(p, 4)
                   [] f = "s6" /\ ok4 -> Word(s, 4)
                   [] f = "tag" /\ ok4 -> Word(p, 5)
                   [] OTHER -> dflt[f]]
      /\ changed' = changed
  BY DEF XDNS_Rollback
<1> HIDE DEF found
<1>3. found \in Seq(Pairs(P4, P6)) /\ Len(found) \in Nat
  <2>1. D \in Seq(Pairs(P4, P6)) /\ << >> \in Seq(Pairs(P4, P6))
    BY EmptySeq DEF Known
  <2>2. found \in Seq(Pairs(P4, P6))
    BY <1>1, <2>1
  <2> QED
    BY <2>2, LenProperties
<1>4. ASSUME Len(found) >= MAX_XDNS_SERV
      PROVE  /\ Word(p, 3) \in P4 \ {""} /\ Word(p, 4) \in P6 \ {""}
             /\ Word(s, 3) \in P4 \ {""} /\ Word(s, 4) \in P6 \ {""}
  <2>1. 1 \in 1..Len(found) /\ MAX_XDNS_SERV \in 1..Len(found)
    BY <1>3, <1>4 DEF MAX_XDNS_SERV
  <2>2. p \in Pairs(P4, P6) /\ s \in Pairs(P4, P6)
    BY <1>3, <2>1, ElementOfSeq
  <2>3. "" \notin P4 /\ "" \notin P6
    BY WordsAssumption
  <2>4. \A l \in Pairs(P4, P6) : Word(l, 3) \in P4 /\ Word(l, 4) \in P6
    BY PairWords
  <2> HIDE DEF p, s
  <2> QED
    BY <2>2, <2>3, <2>4
<1>5. /\ ok1 => Len(found) >= MAX_XDNS_SERV
      /\ ok2 => Len(found) >= MAX_XDNS_SERV
      /\ ok3 => Len(found) >= MAX_XDNS_SERV
      /\ ok4 => Len(found) >= MAX_XDNS_SERV
  OBVIOUS
<1> HIDE DEF p, s, ok1, ok2, ok3, ok4
<1>6. /\ dflt'["v4"] \in P4 \ {""} \/ dflt'["v4"] = dflt["v4"]
      /\ dflt'["v6"] \in P6 \ {""} \/ dflt'["v6"] = dflt["v6"]
      /\ dflt'["s4"] \in P4 \ {""} \/ dflt'["s4"] = dflt["s4"]
      /\ dflt'["s6"] \in P6 \ {""} \/ dflt'["s6"] = dflt["s6"]
  BY <1>2, <1>4, <1>5 DEF DefaultFields
<1> QED
  BY <1>2, <1>6 DEF Known, FieldsFrom

\* What CreateDnsmasqServerConf makes where no default line is stored.
LEMMA MadeKnown ==
  ASSUME NEW P4, NEW P6, AddressesFrom(P4, P6), NEW d \in Defaults, FieldsFrom(P4, P6, d),
         NEW D1, NEW d1, Made(<< >>, d, D1, d1), NEW staged
  PROVE  Known(P4, P6, D1, d1, staged) /\ Known(P4, P6, Keep(D1, ValidLines), d1, staged)
<1>1. P4 \in SUBSET Token /\ P6 \in SUBSET Token /\ V4 \subseteq P4 /\ V6 \subseteq P6
  BY WordsAssumption DEF AddressesFrom
<1>2. /\ FieldsFrom(P4, P6, d1)
      /\ D1 \in Seq(ValidLines) /\ D1 \in Seq(Pairs(P4, P6)) /\ Len(D1) <= 1
      /\ D1 # << >> => d1["v4"] # "" /\ d1["v6"] # ""
  <2>1. /\ FieldsFrom(P4, P6, d1)
        /\ D1 \in Seq(ValidLines) /\ D1 \in Seq(Pairs(P4, P6)) /\ Len(D1) <= 1
        /\ D1 # << >> => d1["v4"] # "" /\ d1["v6"] # ""
        /\ (D1 = << >> /\ d1 = d) \/ Tells(D1, d1)
    BY <1>1, MadeFrom
  <2> QED
    BY <2>1, Zenon
<1>3. Keep(D1, ValidLines) = D1
  BY <1>2, KeepAll
<1>4. Known(P4, P6, D1, d1, staged)
  <2>1. Len(D1) <= MAX_XDNS_SERV
    <3>1. D1 \in Seq(ValidLines) /\ Len(D1) <= 1
      BY <1>2
    <3>2. Len(D1) \in Nat
      BY <3>1, LenProperties
    <3> QED
      BY <3>1, <3>2 DEF MAX_XDNS_SERV
  <2> QED
    BY <1>2, <2>1 DEF Known
<1> QED
  BY <1>3, <1>4

\* After any step as much is known of the default lines.
LEMMA KnownStep ==
  ASSUME NEW P4, NEW P6, AddressesFrom(P4, P6), dflt \in Defaults, NEW D, NEW D1,
         D = DefaultLines(files.conf), Known(P4, P6, D, dflt, changed), SelectionStep(D, D1)
  PROVE  Known(P4, P6, D1, dflt', changed')
<1>1. /\ P4 \in SUBSET Dotted /\ P6 \in SUBSET Coloned
      /\ P4 \in SUBSET Token /\ P6 \in SUBSET Token
  BY WordsAssumption DEF AddressesFrom
<1>2. CASE D1 = D /\ UNCHANGED <<dflt, changed>>
  BY <1>2
<1>3. CASE /\ D1 = D
           /\ \E f \in DefaultFields : \E v \in DefaultInputs[f] :
                dflt' = [dflt EXCEPT ![f] = Stored(v)] /\ changed' = changed \cup {f}
  <2>1. PICK f \in DefaultFields : \E v \in DefaultInputs[f] :
          dflt' = [dflt EXCEPT ![f] = Stored(v)] /\ changed' = changed \cup {f}
    BY <1>3
  <2>2. PICK v \in DefaultInputs[f] :
          dflt' = [dflt EXCEPT ![f] = Stored(v)] /\ changed' = changed \cup {f}
    BY <2>1
  <2>3. Known(P4, P6, D, [dflt EXCEPT ![f] = Stored(v)], changed \cup {f})
    BY StagedKnown
  <2> QED
    BY <1>3, <2>2, <2>3
<1>4. CASE /\ dflt["v4"] # "" /\ dflt["v6"] # ""
           /\ D1 = DefaultEntries /\ dflt' = dflt /\ changed' = {}
  BY <1>1, <1>4, EntriesFrom DEF Known
<1>5. CASE /\ dflt["v4"] = "" \/ dflt["v6"] = ""
           /\ \A f \in changed \cap {"v4", "v6"} : dflt[f] # ""
           /\ Made(D, dflt, D1, dflt') /\ changed' = {}
  <2>1. D = << >> /\ FieldsFrom(P4, P6, dflt)
    BY <1>5 DEF Known
  <2> QED
    BY <1>5, <2>1, MadeKnown
<1>6. CASE D1 = D /\ changed # {} /\ XDNS_Rollback
  BY <1>1, <1>6, RestoredKnown
<1>7. CASE /\ changed' = changed
           /\ \E made : /\ \/ made = D /\ dflt' = dflt
                           \/ D = << >> /\ Made(D, dflt, made, dflt')
                        /\ D1 \in {made, Keep(made, ValidLines)}
  <2>1. PICK made : /\ \/ made = D /\ dflt' = dflt
                       \/ D = << >> /\ Made(D, dflt, made, dflt')
                    /\ D1 \in {made, Keep(made, ValidLines)}
    BY <1>7
  <2>2. CASE made = D /\ dflt' = dflt
    <3>1. D \in Seq(Pairs(P4, P6)) /\ Len(D) <= MAX_XDNS_SERV /\ MAX_XDNS_SERV \in Nat
      BY DEF Known, MAX_XDNS_SERV
    <3>2. /\ Keep(D, ValidLines) \in Seq(Pairs(P4, P6)) /\ Len(Keep(D, ValidLines)) <= Len(D)
          /\ Len(D) \in Nat /\ Len(Keep(D, ValidLines)) \in Nat
      BY <3>1, KeepSub, KeepShorter, LenProperties
    <3>3. Len(Keep(D, ValidLines)) <= MAX_XDNS_SERV
      BY <3>1, <3>2
    <3>4. D = << >> => Keep(D, ValidLines) = << >>
      BY KeepEmpty
    <3> QED
      BY <1>7, <2>1, <2>2, <3>1, <3>2, <3>3, <3>4 DEF Known
  <2>3. CASE D = << >> /\ Made(D, dflt, made, dflt')
    <3>1. FieldsFrom(P4, P6, dflt) /\ Made(<< >>, dflt, made, dflt')
      BY <2>3 DEF Known
    <3>2. Known(P4, P6, made, dflt', changed') /\ Known(P4, P6, Keep(made, ValidLines), dflt', changed')
      BY <3>1, MadeKnown
    <3> QED
      BY <2>1, <3>2
  <2> QED
    BY <2>1, <2>2, <2>3
<1>8. CASE /\ changed' = {}
           /\ \/ D1 = D /\ dflt' = DefaultsIn(files.conf, NoDefaults)
              \/ D = << >> /\ Made(D, NoDefaults, D1, dflt')
  <2>1. CASE D1 = D /\ dflt' = DefaultsIn(files.conf, NoDefaults)
    <3>1. DefaultLines(files.conf) \in Seq(Pairs(P4, P6)) /\ Len(DefaultLines(files.conf)) <= MAX_XDNS_SERV
      BY DEF Known
    <3>2. Known(P4, P6, DefaultLines(files.conf), DefaultsIn(files.conf, NoDefaults), {})
      BY <1>1, <3>1, ReadKnown
    <3> QED
      BY <1>8, <2>1, <3>2
  <2>2. CASE D = << >> /\ Made(D, NoDefaults, D1, dflt')
    <3>1. NoDefaults \in Defaults /\ FieldsFrom(P4, P6, NoDefaults)
      BY NoDefaultsType DEF FieldsFrom, NoDefaults, DefaultFields
    <3> QED
      BY <2>2, <3>1, MadeKnown
  <2> QED
    BY <1>8, <2>1, <2>2
<1> QED
  BY <1>2, <1>3, <1>4, <1>5, <1>6, <1>7, <1>8 DEF SelectionStep

-----------------------------------------------------------------------------
(***************************************************************************)
(* With nothing staged, a pair that is reported and fits is the stored one.*)
(***************************************************************************)
Told(D, d, staged) == staged = {} => Tells(D, d)

\* A start reports what it reads.
LEMMA ReadTold ==
  ASSUME NEW P4 \in SUBSET Dotted, NEW P6 \in SUBSET Coloned, NEW conf,
         DefaultLines(conf) \in Seq(Pairs(P4, P6)), NEW staged
  PROVE  Told(DefaultLines(conf), DefaultsIn(conf, NoDefaults), staged)
<1> DEFINE D == DefaultLines(conf)
           new == DefaultsIn(conf, NoDefaults)
<1>1. /\ new["v4"] = IF D # << >> THEN Word(D[1], 3) ELSE NoDefaults["v4"]
      /\ new["v6"] = IF D # << >> THEN Word(D[1], 4) ELSE NoDefaults["v6"]
      /\ new["s4"] = IF Len(D) > 1 THEN Word(D[Len(D)], 3) ELSE NoDefaults["s4"]
      /\ new["s6"] = IF Len(D) > 1 THEN Word(D[Len(D)], 4) ELSE NoDefaults["s6"]
  BY DefaultsFrom
<1>2. \A f \in {"v4", "v6", "s4", "s6"} : NoDefaults[f] = ""
  BY DEF NoDefaults, DefaultFields
<1> HIDE DEF D, new
<1>3. new["v4"] # "" => D # << >>
  BY <1>1, <1>2
<1>4. new["s4"] # "" => Len(D) > 1
  BY <1>1, <1>2
<1>5. Told(D, new, staged)
  BY <1>1, <1>3, <1>4, Zenon DEF Told, Tells, Telling, Whole
<1> QED
  BY <1>5 DEF D, new

\* CreateDnsmasqServerConf reports the pair that it stores.
LEMMA MadeTold ==
  ASSUME NEW d \in Defaults, FieldsFrom(V4, V6, d), NEW D1, NEW d1, Made(<< >>, d, D1, d1),
         NEW staged, Told(<< >>, d, staged)
  PROVE  Told(D1, d1, staged) /\ Told(Keep(D1, ValidLines), d1, staged)
<1>1. V4 \in SUBSET Token /\ V6 \in SUBSET Token
  BY WordsAssumption
<1>2. /\ D1 \in Seq(ValidLines)
      /\ (D1 = << >> /\ d1 = d) \/ Tells(D1, d1)
  BY <1>1, MadeFrom, Zenon
<1>3. Keep(D1, ValidLines) = D1
  BY <1>2, KeepAll
<1>4. Told(D1, d1, staged)
  BY <1>2 DEF Told
<1> QED
  BY <1>3, <1>4

\* XDNS_Commit stores what is reported, a step that stages nothing stores nothing.
LEMMA ToldStep ==
  ASSUME AddressesFrom(V4, V6), dflt \in Defaults, NEW D, NEW D1,
         D = DefaultLines(files.conf), Known(V4, V6, D, dflt, changed), Told(D, dflt, changed),
         SelectionStep(D, D1)
  PROVE  Told(D1, dflt', changed')
<1>1. /\ V4 \in SUBSET Dotted /\ V6 \in SUBSET Coloned
      /\ V4 \in SUBSET Token /\ V6 \in SUBSET Token
  BY WordsAssumption
<1>2. CASE D1 = D /\ UNCHANGED <<dflt, changed>>
  BY <1>2
<1>3. CASE \E f \in DefaultFields : changed' = changed \cup {f}
  BY <1>3 DEF Told
<1>4. CASE /\ dflt["v4"] # "" /\ dflt["v6"] # ""
           /\ D1 = DefaultEntries /\ dflt' = dflt /\ changed' = {}
  <2>1. FieldsFrom(V4, V6, dflt)
    BY DEF Known
  <2>2. Tells(DefaultEntries, dflt)
    BY <1>1, <1>4, <2>1, EntriesFrom
  <2> QED
    BY <1>4, <2>2 DEF Told
<1>5. CASE /\ dflt["v4"] = "" \/ dflt["v6"] = ""
           /\ \A f \in changed \cap {"v4", "v6"} : dflt[f] # ""
           /\ Made(D, dflt, D1, dflt') /\ changed' = {}
  <2>1. D = << >> /\ FieldsFrom(V4, V6, dflt) /\ Told(<< >>, dflt, {})
    BY <1>5 DEF Known, Told, Tells, Whole
  <2> QED
    BY <1>5, <2>1, MadeTold
<1>6. CASE changed # {} /\ XDNS_Rollback
  BY <1>6 DEF XDNS_Rollback, Told
<1>7. CASE /\ changed' = changed
           /\ \E made : /\ \/ made = D /\ dflt' = dflt
                           \/ D = << >> /\ Made(D, dflt, made, dflt')
                        /\ D1 \in {made, Keep(made, ValidLines)}
  <2>1. PICK made : /\ \/ made = D /\ dflt' = dflt
                       \/ D = << >> /\ Made(D, dflt, made, dflt')
                    /\ D1 \in {made, Keep(made, ValidLines)}
    BY <1>7
  <2>2. CASE made = D /\ dflt' = dflt
    <3>1. D \in Seq(Pairs(V4, V6)) /\ Pairs(V4, V6) \subseteq ValidLines
      BY DEF Known, Pairs, ValidLines
    <3>2. Keep(D, ValidLines) = D
      BY <3>1, KeepAll
    <3> QED
      BY <1>7, <2>1, <2>2, <3>2
  <2>3. CASE D = << >> /\ Made(D, dflt, made, dflt')
    <3>1. FieldsFrom(V4, V6, dflt) /\ Made(<< >>, dflt, made, dflt') /\ Told(<< >>, dflt, changed)
      BY <2>3 DEF Known
    <3>2. Told(made, dflt', changed) /\ Told(Keep(made, ValidLines), dflt', changed)
      BY <3>1, MadeTold
    <3> QED
      BY <1>7, <2>1, <3>2
  <2> QED
    BY <2>1, <2>2, <2>3
<1>8. CASE /\ changed' = {}
           /\ \/ D1 = D /\ dflt' = DefaultsIn(files.conf, NoDefaults)
              \/ D = << >> /\ Made(D, NoDefaults, D1, dflt')
  <2>1. CASE D1 = D /\ dflt' = DefaultsIn(files.conf, NoDefaults)
    <3>1. DefaultLines(files.conf) \in Seq(Pairs(V4, V6))
      BY DEF Known
    <3>2. Told(DefaultLines(files.conf), DefaultsIn(files.conf, NoDefaults), {})
      BY <1>1, <3>1, ReadTold
    <3> QED
      BY <1>8, <2>1, <3>2
  <2>2. CASE D = << >> /\ Made(D, NoDefaults, D1, dflt')
    <3>1. NoDefaults \in Defaults /\ FieldsFrom(V4, V6, NoDefaults) /\ Told(<< >>, NoDefaults, {})
      BY NoDefaultsType DEF FieldsFrom, NoDefaults, DefaultFields, Told, Tells, Whole
    <3> QED
      BY <1>8, <2>2, <3>1, MadeTold
  <2> QED
    BY <1>8, <2>1, <2>2
<1> QED
  BY <1>2, <1>3, <1>4, <1>5, <1>6, <1>7, <1>8 DEF SelectionStep

(***************************************************************************)
(* The invariant of the default pair.                                      *)
(***************************************************************************)
PairInv(Keys, P4, P6) ==
  /\ KeyedInv(Keys)
  /\ Known(P4, P6, DefaultLines(files.conf), dflt, changed)

\* Both hold after the first start, and every step keeps them.
LEMMA KnownInit ==
  ASSUME NEW Keys, KeysApart(Keys), NEW P4, NEW P6, AddressesFrom(P4, P6), Init
  PROVE  /\ Known(P4, P6, DefaultLines(files.conf), dflt, changed)
         /\ P4 = V4 /\ P6 = V6 => Told(DefaultLines(files.conf), dflt, changed)
<1>1. PICK conf \in BootConf, here \in BOOLEAN :
        /\ here \/ conf = << >>
        /\ IF here THEN files.conf = conf /\ dflt = DefaultsIn(conf, NoDefaults)
           ELSE Made(conf, NoDefaults, files.conf, dflt)
  BY InitMade
<1>2. /\ P4 \in SUBSET Dotted /\ P6 \in SUBSET Coloned /\ changed = {}
      /\ DefaultLines(conf) \in Seq(Pairs(P4, P6)) /\ Len(DefaultLines(conf)) <= MAX_XDNS_SERV
  BY DEF AddressesFrom, Init
<1>3. CASE here
  <2>1. Known(P4, P6, DefaultLines(conf), DefaultsIn(conf, NoDefaults), {})
    BY <1>2, ReadKnown
  <2>2. Told(DefaultLines(conf), DefaultsIn(conf, NoDefaults), {})
    BY <1>2, ReadTold
  <2> QED
    BY <1>1, <1>2, <1>3, <2>1, <2>2
<1>4. CASE ~ here
  <2>1. /\ NoDefaults \in Defaults /\ FieldsFrom(P4, P6, NoDefaults)
        /\ Told(<< >>, NoDefaults, {})
    BY NoDefaultsType DEF FieldsFrom, NoDefaults, DefaultFields, Told, Tells, Whole
  <2>2. Made(<< >>, NoDefaults, DefaultLines(files.conf), dflt)
    <3>1. KeyedFields(Keys, NoDefaults) /\ << >> \in Seq(KeyedLine(Keys))
      BY NoDefaultsKeyed, EmptySeq DEF KeysApart
    <3>2. Made(<< >>, NoDefaults, files.conf, dflt)
      BY <1>1, <1>4
    <3>3. Made(Keep(<< >>, Mentioning(DefaultMac)), NoDefaults,
               Keep(files.conf, Mentioning(DefaultMac)), dflt)
      BY <2>1, <3>1, <3>2, MadeSelection
    <3> QED
      BY <3>3, KeepEmpty DEF DefaultLines
  <2>3. Known(P4, P6, DefaultLines(files.conf), dflt, {})
    BY <2>1, <2>2, MadeKnown
  <2>4. P4 = V4 /\ P6 = V6 => Told(DefaultLines(files.conf), dflt, {})
    BY <2>1, <2>2, MadeTold
  <2> QED
    BY <1>2, <2>3, <2>4
<1> QED
  BY <1>3, <1>4

LEMMA PairStep ==
  ASSUME NEW Keys, KeysApart(Keys), NEW P4, NEW P6, AddressesFrom(P4, P6),
         PairInv(Keys, P4, P6), [Next]_vars
  PROVE  /\ KeyedInv(Keys)'
         /\ SelectionStep(DefaultLines(files.conf), DefaultLines(files'.conf))
         /\ Known(P4, P6, DefaultLines(files'.conf), dflt', changed')
<1>1. KeyedInv(Keys) /\ Known(P4, P6, DefaultLines(files.conf), dflt, changed) /\ dflt \in Defaults
  BY DEF PairInv, KeyedInv, DmlInv, TypeOK, Defaults
<1>2. PolicyStep(Keys)
  BY <1>1, StepPolicy
<1>3. SelectionStep(DefaultLines(files.conf), DefaultLines(files'.conf))
  BY <1>1, <1>2, StepSelection
<1>4. KeyedInv(Keys)'
  BY <1>1, KeyedStep
<1>5. Known(P4, P6, DefaultLines(files'.conf), dflt', changed')
  BY <1>1, <1>3, KnownStep
<1> QED
  BY <1>3, <1>4, <1>5

LEMMA PairPreserved ==
  ASSUME NEW Keys, KeysApart(Keys), NEW P4, NEW P6, AddressesFrom(P4, P6)
  PROVE  /\ Init => PairInv(Keys, P4, P6)
         /\ PairInv(Keys, P4, P6) /\ [Next]_vars => PairInv(Keys, P4, P6)'
<1>1. Init => PairInv(Keys, P4, P6)
  BY KeyedInit, KnownInit DEF PairInv
<1>2. ASSUME PairInv(Keys, P4, P6), [Next]_vars PROVE PairInv(Keys, P4, P6)'
  <2>1. KeyedInv(Keys)' /\ Known(P4, P6, DefaultLines(files'.conf), dflt', changed')
    BY <1>2, PairStep
  <2> QED
    BY <2>1 DEF PairInv, Known, FieldsFrom, DefaultLines
<1> QED
  BY <1>1, <1>2

\* What is stored for the default is known, at every time.
THEOREM DefaultsKnown ==
  ASSUME NEW Keys, KeysApart(Keys), NEW P4, NEW P6, AddressesFrom(P4, P6)
  PROVE  Spec => []PairInv(Keys, P4, P6)
<1>1. Init => PairInv(Keys, P4, P6)
  BY PairPreserved
<1>2. PairInv(Keys, P4, P6) /\ [Next]_vars => PairInv(Keys, P4, P6)'
  BY PairPreserved
<1> QED
  BY <1>1, <1>2, PTL DEF Spec

\* There are never more than two default lines.
THEOREM DefaultsFit ==
  ASSUME NEW Keys, KeysApart(Keys), AddressesFrom(Dotted, Coloned)
  PROVE  Spec => []AtMostTwoDefaults
<1>1. Init => PairInv(Keys, Dotted, Coloned)
  BY PairPreserved
<1>2. PairInv(Keys, Dotted, Coloned) /\ [Next]_vars => PairInv(Keys, Dotted, Coloned)'
  BY PairPreserved
<1>3. PairInv(Keys, Dotted, Coloned) => AtMostTwoDefaults
  BY DEF PairInv, Known, DefaultLines, AtMostTwoDefaults
<1> QED
  BY <1>1, <1>2, <1>3, PTL DEF Spec

\* ReportedIsStored is Told of the stored default lines.
LEMMA ToldIsStored ==
  ASSUME Known(V4, V6, DefaultLines(files.conf), dflt, changed),
         Told(DefaultLines(files.conf), dflt, changed)
  PROVE  ReportedIsStored
<1> DEFINE D == DefaultLines(files.conf)
           stored == DefaultsIn(files.conf, NoDefaults)
<1>1. V4 \in SUBSET Dotted /\ V6 \in SUBSET Coloned /\ D \in Seq(Pairs(V4, V6))
  BY WordsAssumption DEF Known
<1>2. /\ stored["v4"] = IF D # << >> THEN Word(D[1], 3) ELSE NoDefaults["v4"]
      /\ stored["v6"] = IF D # << >> THEN Word(D[1], 4) ELSE NoDefaults["v6"]
      /\ stored["s4"] = IF Len(D) > 1 THEN Word(D[Len(D)], 3) ELSE NoDefaults["s4"]
      /\ stored["s6"] = IF Len(D) > 1 THEN Word(D[Len(D)], 4) ELSE NoDefaults["s6"]
  BY <1>1, DefaultsFrom
<1> HIDE DEF D, stored
<1>3. Told(D, dflt, changed)
  BY DEF D
<1>4. changed = {} /\ Whole(dflt, "v4", "v6") =>
        /\ dflt["v4"] = stored["v4"] /\ dflt["v6"] = stored["v6"]
        /\ Whole(dflt, "s4", "s6") =>
             dflt["s4"] = stored["s4"] /\ dflt["s6"] = stored["s6"]
  BY <1>2, <1>3 DEF Told, Tells, Telling
<1> QED
  BY <1>4, Zenon DEF ReportedIsStored, Whole, stored

\* A complete pair that is reported, with nothing staged and short enough for
\* its entry, is the stored one.
THEOREM ReportsStored ==
  ASSUME NEW Keys, KeysApart(Keys), AddressesFrom(V4, V6)
  PROVE  Spec => []ReportedIsStored
<1> DEFINE Inv == PairInv(Keys, V4, V6) /\ Told(DefaultLines(files.conf), dflt, changed)
<1>1. Init => Inv
  BY KeyedInit, KnownInit DEF PairInv
<1>2. Inv /\ [Next]_vars => Inv'
  <2> SUFFICES ASSUME Inv, [Next]_vars PROVE Inv'
    OBVIOUS
  <2>1. /\ KeyedInv(Keys)'
        /\ SelectionStep(DefaultLines(files.conf), DefaultLines(files'.conf))
        /\ Known(V4, V6, DefaultLines(files'.conf), dflt', changed')
    BY PairStep
  <2>2. Known(V4, V6, DefaultLines(files.conf), dflt, changed) /\ dflt \in Defaults
    BY DEF PairInv, KeyedInv, DmlInv, TypeOK, Defaults
  <2>3. Told(DefaultLines(files'.conf), dflt', changed')
    BY <2>1, <2>2, ToldStep
  <2> QED
    BY <2>1, <2>3 DEF PairInv, Known, FieldsFrom, DefaultLines, Told, Tells, Whole, Telling
<1>3. Inv => ReportedIsStored
  BY ToldIsStored DEF PairInv
<1> QED
  BY <1>1, <1>2, <1>3, PTL DEF Spec
=============================================================================
