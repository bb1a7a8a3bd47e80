-------------------------- MODULE XdnsFilesProofs --------------------------
(***************************************************************************)
(* Theorems about XdnsFiles with one thread: a call that nothing refuses   *)
(* does what XdnsLines says in one step, and at every instant, also where  *)
(* the process dies, each file is old, new or empty.                       *)
(***************************************************************************)
EXTENDS XdnsFiles, XdnsLinesProofs

(***************************************************************************)
(* What is left of a call at each operation.                               *)
(***************************************************************************)
Cons(s, q) == <<s>> \o q

IsSet(op) == op \in {"set", "enable"}
IsUnset(op) == op \in {"unset", "disable"}

GatherName(op) == IF IsSet(op) THEN "gatherSet"
                  ELSE IF IsUnset(op) THEN "gatherUnset" ELSE "gatherRefresh"

ToSave(op) == IF op = "enable" THEN Cons("saveOn", << >>)
              ELSE IF op = "disable" THEN Cons("saveOff", << >>) ELSE << >>
ToFlushResolv(op) == Cons("flushResolv", ToSave(op))
ToFlushConf(op) == Cons("flushConf", ToFlushResolv(op))
ToRead(op) == Cons("readBak", IF IsSet(op) THEN ToFlushConf(op) ELSE ToFlushResolv(op))
ToCutConf(op) == Cons("truncConf", ToRead(op))
ToCut(op) == Cons("truncResolv", IF IsSet(op) THEN ToCutConf(op) ELSE ToRead(op))
ToFlushBak(op) == Cons("flushBak", ToCut(op))
ToGather(op) == Cons(GatherName(op), ToFlushBak(op))
ToFlushAppend(op) == Cons("flushAppend", ToGather(op))
ToOpenAppend(op) == Cons("openAppend", ToFlushAppend(op))
ToCreate(op) == Cons("create", ToGather(op))
ToRename(op) == Cons("rename", ToGather(op))
ToFillBak(op) == Cons("flushBak", ToRename(op))
ToUnlink(op) == Cons("unlinkConf", ToFillBak(op))
ToReplace(op) == Cons("gatherReplace", ToUnlink(op))

\* Putting s in front of q is undone by Head and Tail.
LEMMA ConsIs ==
  ASSUME NEW X, NEW s \in X, NEW q \in Seq(X)
  PROVE  /\ Cons(s, q) \in Seq(X) /\ Cons(s, q) # << >>
         /\ Head(Cons(s, q)) = s /\ Tail(Cons(s, q)) = q
<1>1. <<s>> \in Seq(X) /\ Len(<<s>>) = 1 /\ <<s>>[1] = s
  OBVIOUS
<1>2. /\ Cons(s, q) \in Seq(X) /\ Len(Cons(s, q)) = 1 + Len(q)
      /\ Cons(s, q)[1] = s /\ \A i \in 1..Len(q) : Cons(s, q)[i+1] = q[i]
  BY <1>1, ConcatProperties, LenProperties DEF Cons
<1>3. Len(q) \in Nat
  BY LenProperties
<1>4. Cons(s, q) # << >>
  BY <1>2, <1>3
<1>5. /\ Tail(Cons(s, q)) \in Seq(X) /\ Len(Tail(Cons(s, q))) = Len(q)
      /\ \A i \in 1..Len(q) : Tail(Cons(s, q))[i] = Cons(s, q)[i+1]
  BY <1>2, <1>3, <1>4, HeadTailProperties
<1>6. Tail(Cons(s, q)) = q
  BY <1>2, <1>3, <1>5, SeqEqual
<1>7. Head(Cons(s, q)) = s
  BY <1>2, <1>4, HeadTailProperties
<1> QED
  BY <1>2, <1>4, <1>6, <1>7

Names == {"create", "openAppend", "flushAppend", "gatherRefresh", "gatherSet",
          "gatherUnset", "gatherReplace", "flushBak", "unlinkConf", "rename",
          "truncResolv", "truncConf", "readBak", "flushConf", "flushResolv",
          "saveOn", "saveOff"}

StartsWith(p, s, q) == p \in Seq(Names) /\ p # << >> /\ Head(p) = s /\ Tail(p) = q

\* What is left of a call begins with the operation it is named after.
LEMMA ListFacts ==
  ASSUME NEW op \in Ops
  PROVE  /\ ToSave(op) \in Seq(Names)
         /\ op = "enable" => StartsWith(ToSave(op), "saveOn", << >>)
         /\ op = "disable" => StartsWith(ToSave(op), "saveOff", << >>)
         /\ op \notin {"enable", "disable"} => ToSave(op) = << >>
         /\ StartsWith(ToFlushResolv(op), "flushResolv", ToSave(op))
         /\ StartsWith(ToFlushConf(op), "flushConf", ToFlushResolv(op))
         /\ StartsWith(ToRead(op), "readBak",
                       IF IsSet(op) THEN ToFlushConf(op) ELSE ToFlushResolv(op))
         /\ StartsWith(ToCutConf(op), "truncConf", ToRead(op))
         /\ StartsWith(ToCut(op), "truncResolv",
                       IF IsSet(op) THEN ToCutConf(op) ELSE ToRead(op))
         /\ StartsWith(ToFlushBak(op), "flushBak", ToCut(op))
         /\ StartsWith(ToGather(op), GatherName(op), ToFlushBak(op))
         /\ StartsWith(ToFlushAppend(op), "flushAppend", ToGather(op))
         /\ StartsWith(ToOpenAppend(op), "openAppend", ToFlushAppend(op))
         /\ StartsWith(ToCreate(op), "create", ToGather(op))
         /\ StartsWith(ToRename(op), "rename", ToGather(op))
         /\ StartsWith(ToFillBak(op), "flushBak", ToRename(op))
         /\ StartsWith(ToUnlink(op), "unlinkConf", ToFillBak(op))
         /\ StartsWith(ToReplace(op), "gatherReplace", ToUnlink(op))
<1>0. ASSUME NEW s \in Names, NEW q \in Seq(Names)
      PROVE  StartsWith(Cons(s, q), s, q)
  BY ConsIs DEF StartsWith
<1>1. /\ ToSave(op) \in Seq(Names)
      /\ op = "enable" => StartsWith(ToSave(op), "saveOn", << >>)
      /\ op = "disable" => StartsWith(ToSave(op), "saveOff", << >>)
      /\ op \notin {"enable", "disable"} => ToSave(op) = << >>
  <2>1. << >> \in Seq(Names) /\ "saveOn" \in Names /\ "saveOff" \in Names
    BY EmptySeq DEF Names
  <2>2. /\ StartsWith(Cons("saveOn", << >>), "saveOn", << >>)
        /\ StartsWith(Cons("saveOff", << >>), "saveOff", << >>)
    BY <1>0, <2>1
  <2> QED
    BY <2>1, <2>2 DEF ToSave, StartsWith
<1>2. StartsWith(ToFlushResolv(op), "flushResolv", ToSave(op))
  BY <1>0, <1>1 DEF ToFlushResolv, StartsWith, Names
<1>3. StartsWith(ToFlushConf(op), "flushConf", ToFlushResolv(op))
  BY <1>0, <1>2 DEF ToFlushConf, StartsWith, Names
<1>4. StartsWith(ToRead(op), "readBak",
                 IF IsSet(op) THEN ToFlushConf(op) ELSE ToFlushResolv(op))
  <2>1. (IF IsSet(op) THEN ToFlushConf(op) ELSE ToFlushResolv(op)) \in Seq(Names)
    BY <1>2, <1>3 DEF StartsWith
  <2>2. "readBak" \in Names
    BY DEF Names
  <2> QED
    BY <1>0, <2>1, <2>2 DEF ToRead
<1>5. StartsWith(ToCutConf(op), "truncConf", ToRead(op))
  BY <1>0, <1>4 DEF ToCutConf, StartsWith, Names
<1>6. StartsWith(ToCut(op), "truncResolv",
                 IF IsSet(op) THEN ToCutConf(op) ELSE ToRead(op))
  <2>1. (IF IsSet(op) THEN ToCutConf(op) ELSE ToRead(op)) \in Seq(Names)
    BY <1>4, <1>5 DEF StartsWith
  <2>2. "truncResolv" \in Names
    BY DEF Names
  <2> QED
    BY <1>0, <2>1, <2>2 DEF ToCut
<1>7. StartsWith(ToFlushBak(op), "flushBak", ToCut(op))
  BY <1>0, <1>6 DEF ToFlushBak, StartsWith, Names
<1>8. GatherName(op) \in Names
  BY DEF GatherName, Names
<1>9. StartsWith(ToGather(op), GatherName(op), ToFlushBak(op))
  BY <1>0, <1>7, <1>8 DEF ToGather, StartsWith
<1>10. StartsWith(ToFlushAppend(op), "flushAppend", ToGather(op))
  BY <1>0, <1>9 DEF ToFlushAppend, StartsWith, Names
<1>11. StartsWith(ToOpenAppend(op), "openAppend", ToFlushAppend(op))
  BY <1>0, <1>10 DEF ToOpenAppend, StartsWith, Names
<1>12. StartsWith(ToCreate(op), "create", ToGather(op))
  BY <1>0, <1>9 DEF ToCreate, StartsWith, Names
<1>13. StartsWith(ToRename(op), "rename", ToGather(op))
  BY <1>0, <1>9 DEF ToRename, StartsWith, Names
<1>14. StartsWith(ToFillBak(op), "flushBak", ToRename(op))
  BY <1>0, <1>13 DEF ToFillBak, StartsWith, Names
<1>15. StartsWith(ToUnlink(op), "unlinkConf", ToFillBak(op))
  BY <1>0, <1>14 DEF ToUnlink, StartsWith, Names
<1>16. StartsWith(ToReplace(op), "gatherReplace", ToUnlink(op))
  BY <1>0, <1>15 DEF ToReplace, StartsWith, Names
<1> QED
  BY <1>1, <1>2, <1>3, <1>4, <1>5, <1>6, <1>7, <1>9, <1>10, <1>11, <1>12, <1>13,
     <1>14, <1>15, <1>16

\* What a call begins with, and what a refused or absent policy leads back to.
LEMMA FirstSteps ==
  /\ Steps("start") = ToCreate("start")
  /\ Steps("refresh") = ToGather("refresh")
  /\ Steps("replace") = ToReplace("replace")
  /\ Steps("enable") = ToCreate("enable")
  /\ Steps("disable") = ToGather("disable")
  /\ Steps("set") = ToGather("set")
  /\ Steps("unset") = ToGather("unset")
  /\ <<"openAppend", "flushAppend">> \o RefreshSteps = ToOpenAppend("replace")
<1> USE DEF Steps, RefreshSteps, SetSteps, UnsetSteps, ReplaceSteps, Cons, IsSet, IsUnset,
            GatherName, ToSave, ToFlushResolv, ToFlushConf, ToRead, ToCutConf, ToCut,
            ToFlushBak, ToGather
<1>1. Steps("start") = ToCreate("start")
  BY DEF ToCreate
<1>2. Steps("refresh") = ToGather("refresh")
  OBVIOUS
<1>3. Steps("replace") = ToReplace("replace")
  BY DEF ToReplace, ToUnlink, ToFillBak, ToRename
<1>4. Steps("enable") = ToCreate("enable")
  BY DEF ToCreate
<1>5. Steps("disable") = ToGather("disable")
  OBVIOUS
<1>6. Steps("set") = ToGather("set")
  OBVIOUS
<1>7. Steps("unset") = ToGather("unset")
  OBVIOUS
<1>8. <<"openAppend", "flushAppend">> \o RefreshSteps = ToOpenAppend("replace")
  BY DEF ToOpenAppend, ToFlushAppend
<1> QED
  BY <1>1, <1>2, <1>3, <1>4, <1>5, <1>6, <1>7, <1>8

(***************************************************************************)
(* Records written out.                                                    *)
(***************************************************************************)
AFile(h, n, l) == [here |-> h, ns |-> n, lines |-> l]
TwoFiles(ce, c, re, n, o) ==
  [confExists |-> ce, conf |-> c, resolvExists |-> re, ns |-> n, overrides |-> o]

LEMMA FileFields ==
  ASSUME NEW h, NEW n, NEW l, NEW f, f = AFile(h, n, l)
  PROVE  /\ f.here = h /\ f.ns = n /\ f.lines = l
         /\ \A x : [f EXCEPT !.here = x] = AFile(x, n, l)
         /\ \A x : [f EXCEPT !.ns = x] = AFile(h, x, l)
         /\ \A x : [f EXCEPT !.lines = x] = AFile(h, n, x)
<1>1. DOMAIN f = {"here", "ns", "lines"}
  BY DEF AFile
<1>2. f.here = h /\ f.ns = n /\ f.lines = l
  BY DEF AFile
<1>3. \A x : [f EXCEPT !.here = x] = AFile(x, n, l)
  BY <1>1, <1>2 DEF AFile
<1>4. \A x : [f EXCEPT !.ns = x] = AFile(h, x, l)
  BY <1>1, <1>2 DEF AFile
<1>5. \A x : [f EXCEPT !.lines = x] = AFile(h, n, x)
  BY <1>1, <1>2 DEF AFile
<1> QED
  BY <1>2, <1>3, <1>4, <1>5

LEMMA TwoFilesFields ==
  ASSUME NEW ce, NEW c, NEW re, NEW n, NEW o, NEW fs, fs = TwoFiles(ce, c, re, n, o)
  PROVE  /\ fs.confExists = ce /\ fs.conf = c /\ fs.resolvExists = re
         /\ fs.ns = n /\ fs.overrides = o
         /\ \A x : [fs EXCEPT !.conf = x] = TwoFiles(ce, x, re, n, o)
         /\ \A x : [fs EXCEPT !.confExists = x] = TwoFiles(x, c, re, n, o)
         /\ \A x : [fs EXCEPT !.overrides = x] = TwoFiles(ce, c, re, n, x)
<1>1. DOMAIN fs = {"confExists", "conf", "resolvExists", "ns", "overrides"}
  BY DEF TwoFiles
<1>2. /\ fs.confExists = ce /\ fs.conf = c /\ fs.resolvExists = re
      /\ fs.ns = n /\ fs.overrides = o
  BY DEF TwoFiles
<1>3. \A x : [fs EXCEPT !.conf = x] = TwoFiles(ce, x, re, n, o)
  BY <1>1, <1>2 DEF TwoFiles
<1>4. \A x : [fs EXCEPT !.confExists = x] = TwoFiles(x, c, re, n, o)
  BY <1>1, <1>2 DEF TwoFiles
<1>5. \A x : [fs EXCEPT !.overrides = x] = TwoFiles(ce, c, re, n, x)
  BY <1>1, <1>2 DEF TwoFiles
<1> QED
  BY <1>2, <1>3, <1>4, <1>5

LEMMA FilesAreTwo ==
  ASSUME NEW fs \in Files
  PROVE  fs = TwoFiles(fs.confExists, fs.conf, fs.resolvExists, fs.ns, fs.overrides)
BY DEF Files, TwoFiles

LEMMA TwoChanges ==
  ASSUME NEW fs \in Files, NEW x, NEW y
  PROVE  /\ [fs EXCEPT !.conf = x, !.overrides = y]
               = TwoFiles(fs.confExists, x, fs.resolvExists, fs.ns, y)
         /\ [fs EXCEPT !.confExists = x, !.conf = y]
               = TwoFiles(x, y, fs.resolvExists, fs.ns, fs.overrides)
<1> DEFINE a == [fs EXCEPT !.conf = x]
           b == [fs EXCEPT !.confExists = x]
<1>1. /\ a = TwoFiles(fs.confExists, x, fs.resolvExists, fs.ns, fs.overrides)
      /\ b = TwoFiles(x, fs.conf, fs.resolvExists, fs.ns, fs.overrides)
  BY FilesAreTwo, TwoFilesFields
<1>2. /\ [fs EXCEPT !.conf = x, !.overrides = y] = [a EXCEPT !.overrides = y]
      /\ [fs EXCEPT !.confExists = x, !.conf = y] = [b EXCEPT !.conf = y]
  OBVIOUS
<1> HIDE DEF a, b
<1> QED
  BY <1>1, <1>2, TwoFilesFields

(***************************************************************************)
(* What a call makes of the files, in two steps.                           *)
(***************************************************************************)

\* After the first: the stored policy is changed, resolv.conf is not.
Created(b) ==
  IF ~ b.confExists /\ b.resolvExists /\ b.ns.v4 # "" /\ b.ns.v6 # ""
  THEN AppendDnsmasqConfEntry(b, <<Override(DefaultMac, b.ns.v4, b.ns.v6, "empty")>>)
  ELSE b

Mid(c, b) ==
  IF c.op \in {"start", "enable"} THEN Created(b)
  ELSE IF c.op = "replace"
       THEN AppendDnsmasqConfEntry([b EXCEPT !.conf = Keep(@, Line \ Mentioning(c.mac))], c.lines)
       ELSE b

\* The lines of the second, whether it happens, and whether they are used.
Copied(c, b) == IF IsUnset(c.op) THEN << >> ELSE Keep(Mid(c, b).conf, ValidLines)

Ready(c, b, f) ==
  /\ b.resolvExists
  /\ ~ IsUnset(c.op) => Mid(c, b).confExists
  /\ ~ IsUnset(c.op) /\ ~ IsSet(c.op) => f = "1"

Skips(c, b) == IsSet(c.op) /\ Keep(Copied(c, b), ValidDefaults) = << >>

\* What is absent is empty.
Blank(b) ==
  /\ ~ b.confExists => b.conf = << >>
  /\ ~ b.resolvExists => b.ns = Missing.ns /\ b.overrides = << >>

CallOK(c) == c \in Call /\ (c.op = "replace" => c.mac # "")

\* The default line made from the nameservers is a valid one.
LEMMA DefaultIsValid ==
  ASSUME NEW v4 \in V4, NEW v6 \in V6
  PROVE  <<Override(DefaultMac, v4, v6, "empty")>> \in Seq(ValidLines)
<1> DEFINE w == <<DefaultMac, v4, v6, "empty">>
<1>1. DefaultMac \in Token /\ v4 \in Token /\ v6 \in Token /\ "empty" \in Token
      /\ "dnsoverride" \in Token
  BY WordsAssumption
<1>2. w \in Seq(Token)
  BY <1>1
<1>3. Keep(w, Token) = w
  BY <1>2, KeepAll
<1>4. Override(DefaultMac, v4, v6, "empty") = <<"dnsoverride">> \o w
  BY <1>3 DEF Override
<1>5. <<"dnsoverride">> \in Seq(Token) /\ Len(<<"dnsoverride">>) = 1
  BY <1>1
<1>6. Len(w) = 4 /\ w[2] = v4 /\ w[3] = v6
  OBVIOUS
<1> DEFINE a == <<"dnsoverride">>
           l == a \o w
<1>7. l \in Seq(Token) /\ Len(l) = 5 /\ l[3] = v4 /\ l[4] = v6
  <2> HIDE DEF a, w
  <2>1. /\ a \o w \in Seq(Token) /\ Len(a \o w) = Len(a) + Len(w)
        /\ \A i \in 1..Len(a) + Len(w) :
             (a \o w)[i] = IF i <= Len(a) THEN a[i] ELSE w[i - Len(a)]
    BY <1>2, <1>5, ConcatProperties DEF a
  <2>2. Len(a) = 1
    BY <1>5 DEF a
  <2> QED
    BY <1>6, <2>1, <2>2
<1>8. l \in ValidLines
  <2>1. l \in Line /\ Len(l) >= 3 /\ Len(l) >= 4 /\ l[3] \in V4 /\ l[4] \in V6
    BY <1>7 DEF Line
  <2> HIDE DEF l
  <2> QED
    BY <2>1, Zenon DEF ValidLines, WithWord
<1> HIDE DEF l
<1>9. <<l>> \in Seq(ValidLines)
  BY <1>8
<1> QED
  BY <1>4, <1>9 DEF l

\* A default line is appended to nothing, or the files stay as they are.
LEMMA CreatedFacts ==
  ASSUME NEW b \in Files, Blank(b)
  PROVE  /\ Created(b) \in Files
         /\ Created(b).resolvExists = b.resolvExists
         /\ Created(b).ns = b.ns /\ Created(b).overrides = b.overrides
         /\ \/ Created(b) = b
            \/ /\ ~ b.confExists
               /\ Created(b).confExists /\ Created(b).conf \in Seq(ValidLines)
<1> DEFINE d == <<Override(DefaultMac, b.ns.v4, b.ns.v6, "empty")>>
<1>1. CASE Created(b) = b
  BY <1>1 DEF Files
<1>2. CASE ~ b.confExists /\ b.resolvExists /\ b.ns.v4 # "" /\ b.ns.v6 # ""
  <2>1. d \in Seq(ValidLines)
    BY <1>2, DefaultIsValid DEF Files
  <2>2. d \in Seq(Line)
    BY <2>1, ValidLinesAreLines, SeqMonotonic
  <2>3. Created(b) = AppendDnsmasqConfEntry(b, d)
    BY <1>2 DEF Created
  <2>4. << >> \o d = d
    BY <2>2, ConcatEmptySeq
  <2> HIDE DEF d
  <2>5. Created(b) = [b EXCEPT !.confExists = TRUE, !.conf = d]
    BY <1>2, <2>3, <2>4 DEF AppendDnsmasqConfEntry, Blank
  <2>6. Created(b) \in Files
    BY <2>2, <2>3, AppendType
  <2>7. /\ Created(b).confExists /\ Created(b).conf = d
        /\ Created(b).resolvExists = b.resolvExists
        /\ Created(b).ns = b.ns /\ Created(b).overrides = b.overrides
    BY <2>5 DEF Files
  <2> QED
    BY <1>2, <2>1, <2>6, <2>7
<1> QED
  BY <1>1, <1>2 DEF Created

LEMMA MidFacts ==
  ASSUME NEW c, CallOK(c), NEW b \in Files, Blank(b)
  PROVE  /\ Mid(c, b) \in Files
         /\ Mid(c, b).resolvExists = b.resolvExists
         /\ Mid(c, b).ns = b.ns /\ Mid(c, b).overrides = b.overrides
         /\ c.op = "replace" => Mid(c, b).confExists
         /\ c.op \notin {"start", "enable", "replace"} => Mid(c, b) = b
         /\ c.op # "replace" => \/ Mid(c, b) = b
                               \/ /\ Mid(c, b).confExists /\ Mid(c, b).conf \in Seq(ValidLines)
                                  /\ ~ b.confExists
<1>1. CASE c.op \in {"start", "enable"}
  BY <1>1, CreatedFacts DEF Mid
<1>2. CASE c.op = "replace"
  <2> DEFINE kept == [b EXCEPT !.conf = Keep(@, Line \ Mentioning(c.mac))]
  <2>1. Keep(b.conf, Line \ Mentioning(c.mac)) \in Seq(Line)
    BY KeepSub DEF Files
  <2>2. kept \in Files
    BY <2>1 DEF Files
  <2>3. c.lines \in Seq(Line)
    BY DEF CallOK, Call
  <2>4. Mid(c, b) = AppendDnsmasqConfEntry(kept, c.lines)
    BY <1>2 DEF Mid
  <2>5. Mid(c, b) \in Files
    BY <2>2, <2>3, <2>4, AppendType
  <2>6. Mid(c, b) = [b EXCEPT !.confExists = TRUE, !.conf = kept.conf \o c.lines]
    BY <2>4 DEF AppendDnsmasqConfEntry, Files
  <2>7. /\ Mid(c, b).confExists /\ Mid(c, b).resolvExists = b.resolvExists
        /\ Mid(c, b).ns = b.ns /\ Mid(c, b).overrides = b.overrides
    BY <2>6 DEF Files
  <2> QED
    BY <1>2, <2>5, <2>7
<1>3. CASE c.op \notin {"start", "enable", "replace"}
  BY <1>3 DEF Mid, Files
<1> QED
  BY <1>1, <1>2, <1>3

LEMMA CopiedFacts ==
  ASSUME NEW c, CallOK(c), NEW b \in Files, Blank(b)
  PROVE  /\ Copied(c, b) \in Seq(ValidLines) /\ Copied(c, b) \in Seq(Line)
         /\ Mid(c, b).conf \in Seq(ValidLines) /\ ~ IsUnset(c.op) => Copied(c, b) = Mid(c, b).conf
<1>1. Mid(c, b).conf \in Seq(Line)
  BY MidFacts DEF Files
<1>2. Keep(Mid(c, b).conf, ValidLines) \in Seq(ValidLines)
  BY <1>1, KeepValid
<1>3. Copied(c, b) \in Seq(ValidLines)
  BY <1>2, EmptySeq DEF Copied
<1>4. Copied(c, b) \in Seq(Line)
  BY <1>3, ValidLinesAreLines, SeqMonotonic
<1>5. ASSUME Mid(c, b).conf \in Seq(ValidLines), ~ IsUnset(c.op)
      PROVE  Copied(c, b) = Mid(c, b).conf
  BY <1>5, KeepAll DEF Copied
<1> QED
  BY <1>3, <1>4, <1>5

\* The whole call, as XdnsLines has it, is the two steps one after the other.
LEMMA EffectIs ==
  ASSUME NEW c, CallOK(c), NEW b \in Files, Blank(b)
  PROVE  /\ Ready(c, b, flag) =>
              Effect(c, b) = [Mid(c, b) EXCEPT
                                !.conf = IF IsSet(c.op) THEN Copied(c, b) ELSE @,
                                !.overrides = IF Skips(c, b) THEN @ ELSE Copied(c, b)]
         /\ ~ Ready(c, b, flag) => Effect(c, b) = Mid(c, b)
<1> DEFINE m == Mid(c, b)
<1>0. m \in Files /\ m.resolvExists = b.resolvExists
  BY MidFacts
<1>1. CASE c.op \in {"start", "refresh", "replace"}
  <2>1. Effect(c, b) = RefreshResolvConfEntry(m, flag)
    BY <1>1, Zenon DEF Effect, Mid, Created, ReplaceDnsmasqConfEntry, CallOK
  <2> HIDE DEF m
  <2>2. ~ IsSet(c.op) /\ ~ IsUnset(c.op)
    BY <1>1 DEF IsSet, IsUnset
  <2>3. Ready(c, b, flag) <=> (flag = "1" /\ m.resolvExists /\ m.confExists)
    BY <1>0, <2>2 DEF Ready, m
  <2>4. Copied(c, b) = Keep(m.conf, ValidLines) /\ ~ Skips(c, b)
    BY <2>2 DEF Copied, Skips, m
  <2>5. Effect(c, b) = IF Ready(c, b, flag) THEN [m EXCEPT !.overrides = Copied(c, b)] ELSE m
    BY <2>1, <2>3, <2>4 DEF RefreshResolvConfEntry
  <2> QED
    BY <1>0, <2>2, <2>4, <2>5 DEF m, Files
<1>2. CASE c.op \in {"set", "enable"}
  <2>1. Effect(c, b) = SetXdnsConfig(m).fs
    BY <1>2 DEF Effect, Mid, Created
  <2> HIDE DEF m
  <2>2. IsSet(c.op) /\ ~ IsUnset(c.op)
    BY <1>2 DEF IsSet, IsUnset
  <2>3. Ready(c, b, flag) <=> (m.resolvExists /\ m.confExists)
    BY <1>0, <2>2 DEF Ready, m
  <2>4. Copied(c, b) = Keep(m.conf, ValidLines)
    BY <2>2 DEF Copied, m
  <2>5. Effect(c, b) = IF Ready(c, b, flag)
                       THEN [m EXCEPT !.conf = Copied(c, b),
                                      !.overrides = IF Skips(c, b) THEN @ ELSE Copied(c, b)]
                       ELSE m
    BY <1>0, <2>1, <2>2, <2>3, <2>4 DEF SetXdnsConfig, Skips, Files
  <2> QED
    BY <2>2, <2>5 DEF m
<1>3. CASE c.op \in {"disable", "unset"}
  <2>1. Effect(c, b) = UnsetXdnsConfig(b) /\ m = b
    BY <1>3 DEF Effect, Mid
  <2>2. IsUnset(c.op) /\ ~ IsSet(c.op)
    BY <1>3 DEF IsSet, IsUnset
  <2>3. Copied(c, b) = << >> /\ ~ Skips(c, b) /\ (Ready(c, b, flag) <=> b.resolvExists)
    BY <2>2 DEF Copied, Skips, Ready
  <2>4. b = [b EXCEPT !.conf = @] /\ (b.overrides = << >> => [b EXCEPT !.overrides = << >>] = b)
    BY DEF Files
  <2>5. Effect(c, b) = [b EXCEPT !.overrides = << >>]
    BY <2>1 DEF UnsetXdnsConfig
  <2>6. ~ Ready(c, b, flag) => Effect(c, b) = b
    BY <2>3, <2>4, <2>5 DEF Blank
  <2>7. [b EXCEPT !.conf = @, !.overrides = << >>] = [b EXCEPT !.overrides = << >>]
    BY DEF Files
  <2>8. m = b
    BY <2>1
  <2> HIDE DEF m
  <2> QED
    BY <2>2, <2>3, <2>5, <2>6, <2>7, <2>8 DEF m
<1> QED
  BY <1>1, <1>2, <1>3 DEF CallOK, Call, Ops

\* At either step each file is old or as the call is to leave it.
LEMMA OldOrNew ==
  ASSUME NEW c, CallOK(c), NEW b \in Files, Blank(b)
  PROVE  /\ Mid(c, b).conf \in {b.conf, Effect(c, b).conf}
         /\ IsSet(c.op) /\ Ready(c, b, flag) => Copied(c, b) = Effect(c, b).conf
         /\ Effect(c, b).ns = b.ns
         /\ Ready(c, b, flag) /\ ~ Skips(c, b) => Effect(c, b).overrides = Copied(c, b)
<1> DEFINE m == Mid(c, b)
           e == Effect(c, b)
<1>1. m \in Files /\ m.ns = b.ns
  BY MidFacts
<1>2. CASE ~ Ready(c, b, flag)
  BY <1>1, <1>2, EffectIs
<1>3. CASE Ready(c, b, flag)
  <2>1. e = [m EXCEPT !.conf = IF IsSet(c.op) THEN Copied(c, b) ELSE @,
                      !.overrides = IF Skips(c, b) THEN @ ELSE Copied(c, b)]
    BY <1>3, EffectIs
  <2>2. IsSet(c.op) => c.op # "replace" /\ ~ IsUnset(c.op)
    BY DEF IsSet, IsUnset
  <2>3. IsSet(c.op) => m = b \/ m.conf \in Seq(ValidLines)
    BY <2>2, MidFacts
  <2>4. IsSet(c.op) => m = b \/ m.conf = Copied(c, b)
    BY <2>2, <2>3, CopiedFacts
  <2> HIDE DEF m, e
  <2>5. /\ e.ns = m.ns
        /\ e.conf = IF IsSet(c.op) THEN Copied(c, b) ELSE m.conf
        /\ ~ Skips(c, b) => e.overrides = Copied(c, b)
    BY <1>1, <2>1 DEF Files
  <2>6. m.conf \in {b.conf, e.conf}
    BY <2>4, <2>5
  <2> QED
    BY <1>1, <1>3, <2>5, <2>6 DEF m, e
<1> QED
  BY <1>2, <1>3

(***************************************************************************)
(* The inductive invariant: where the only thread is in its call, and what *)
(* is on disk and in its memory then.                                      *)
(***************************************************************************)
OneThread == Threads = {Main}

Op == call[Main].op
Old == before[Main]
New == Effect(call[Main], before[Main])
Half == Mid(call[Main], before[Main])
Lines == Copied(call[Main], before[Main])
IsReady == Ready(call[Main], before[Main], flag)
Skipping == Skips(call[Main], before[Main])

Left(list) == todo[Main] = list /\ handle[Main] = "gone"

\* The policy has been removed and the new one is not there.
Gone(b) == TwoFiles(FALSE, << >>, b.resolvExists, b.ns, b.overrides)

\* resolv.conf has been truncated, unless it is not to be written.
Cut(lines) ==
  TwoFiles(Half.confExists, lines, TRUE, IF Skipping THEN Old.ns ELSE Missing.ns,
           IF Skipping THEN Old.overrides ELSE << >>)

InMemory(ns, lines) == buf[Main] = [ns |-> ns, lines |-> lines]
InBackup(ns, lines) == disk.bak = Holding(ns, lines)

OldNewOrEmpty ==
  /\ disk.conf.lines \in {Old.conf, << >>, New.conf}
  /\ disk.resolv.lines \in {Old.overrides, << >>, New.overrides}
  /\ disk.resolv.ns \in {Old.ns, Missing.ns}

Resting ==
  /\ Left(<< >>)
  /\ OldNewOrEmpty
  /\ ~ spoilt[Main] => OnDisk = New

Saving ==
  /\ Op \in {"enable", "disable"}
  /\ Left(ToSave(Op))
  /\ OnDisk = New
  /\ IF Op = "enable" THEN Keep(disk.resolv.lines, ValidDefaults) # << >>
     ELSE disk.resolv.lines = << >>

Creating ==
  /\ Op \in {"start", "enable"}
  /\ Left(ToCreate(Op))
  /\ OnDisk = Old

Appends == Op \in {"start", "enable", "replace"}

Appending(list) ==
  /\ Appends /\ ~ Old.confExists
  /\ Left(list)
  /\ Half = AppendDnsmasqConfEntry(Old, buf[Main].lines)

OpeningToAppend == Appending(ToOpenAppend(Op)) /\ OnDisk = Old
FlushingAppend ==
  /\ Appending(ToFlushAppend(Op))
  /\ OnDisk = TwoFiles(TRUE, << >>, Old.resolvExists, Old.ns, Old.overrides)

Gathering ==
  /\ Left(ToGather(Op))
  /\ \/ OnDisk = Half
     \/ OnDisk = Gone(Old) /\ Appends /\ spoilt[Main]

FlushingBak ==
  /\ IsReady
  /\ todo[Main] = ToFlushBak(Op) /\ handle[Main] = "bak" /\ disk.bak = Empty
  /\ OnDisk = Half /\ InMemory(Old.ns, Lines)

CuttingResolv ==
  /\ IsReady
  /\ Left(ToCut(Op))
  /\ OnDisk = Half /\ InMemory(Old.ns, Lines) /\ InBackup(Old.ns, Lines)

CuttingConf ==
  /\ IsReady /\ IsSet(Op)
  /\ Left(ToCutConf(Op))
  /\ OnDisk = Cut(Half.conf) /\ InBackup(Old.ns, Lines)

Reading ==
  /\ IsReady
  /\ Left(ToRead(Op))
  /\ OnDisk = Cut(IF IsSet(Op) THEN << >> ELSE Half.conf)
  /\ InBackup(Old.ns, Lines)

FlushingConf ==
  /\ IsReady /\ IsSet(Op)
  /\ Left(ToFlushConf(Op))
  /\ OnDisk = Cut(<< >>) /\ InMemory(Old.ns, Lines)

FlushingResolv ==
  /\ IsReady
  /\ Left(ToFlushResolv(Op))
  /\ OnDisk = Cut(IF IsSet(Op) THEN Lines ELSE Half.conf)
  /\ InMemory(Old.ns, Lines)

Replacing == Op = "replace" /\ Left(ToReplace(Op)) /\ OnDisk = Old

Unlinking ==
  /\ Op = "replace"
  /\ todo[Main] = ToUnlink(Op) /\ handle[Main] = "bak" /\ disk.bak = Empty
  /\ OnDisk = Old /\ InMemory(Missing.ns, Half.conf)

FillingBak ==
  /\ Op = "replace"
  /\ todo[Main] = ToFillBak(Op) /\ handle[Main] = "bak" /\ disk.bak = Empty
  /\ OnDisk = Gone(Old) /\ InMemory(Missing.ns, Half.conf)

Renaming ==
  /\ Op = "replace"
  /\ Left(ToRename(Op))
  /\ OnDisk = Gone(Old) /\ InBackup(Missing.ns, Half.conf)

Places ==
  \/ Resting \/ Saving
  \/ Creating \/ OpeningToAppend \/ FlushingAppend
  \/ Gathering \/ FlushingBak \/ CuttingResolv \/ CuttingConf \/ Reading
  \/ FlushingConf \/ FlushingResolv
  \/ Replacing \/ Unlinking \/ FillingBak \/ Renaming

Servers == [v4 : V4 \cup {""}, v6 : V6 \cup {""}]

CallTypes ==
  /\ flag \in Flag
  /\ todo \in [Threads -> Seq(Names)]
  /\ call \in [Threads -> Call] /\ CallOK(call[Main])
  /\ buf \in [Threads -> [ns : Servers, lines : Seq(Line)]]
  /\ handle \in [Threads -> {"conf", "bak", "gone"}]
  /\ before \in [Threads -> Files] /\ Blank(before[Main])
  /\ spoilt \in [Threads -> BOOLEAN]

DiskTypes ==
  /\ disk \in [{"conf", "bak", "resolv"} -> File]
  /\ disk.conf.ns = Missing.ns
  /\ disk.resolv.lines \in Seq(ValidLines)

FilesInv == CallTypes /\ DiskTypes /\ Places

(***************************************************************************)
(* Facts that every step uses.                                             *)
(***************************************************************************)

\* The next operation tells where the thread is.
LEMMA WhereIs ==
  ASSUME FilesInv
  PROVE  /\ Idle(Main) => Resting
         /\ At(Main, "create") => Creating
         /\ At(Main, "openAppend") => OpeningToAppend
         /\ At(Main, "flushAppend") => FlushingAppend
         /\ At(Main, "gatherReplace") => Replacing
         /\ At(Main, "gatherRefresh") => Gathering /\ ~ IsSet(Op) /\ ~ IsUnset(Op)
         /\ At(Main, "gatherSet") => Gathering /\ IsSet(Op)
         /\ At(Main, "gatherUnset") => Gathering /\ IsUnset(Op)
         /\ At(Main, "flushBak") => FlushingBak \/ FillingBak
         /\ At(Main, "unlinkConf") => Unlinking
         /\ At(Main, "rename") => Renaming
         /\ At(Main, "truncResolv") => CuttingResolv
         /\ At(Main, "truncConf") => CuttingConf
         /\ At(Main, "readBak") => Reading
         /\ At(Main, "flushConf") => FlushingConf
         /\ At(Main, "flushResolv") => FlushingResolv
         /\ At(Main, "saveOn") => Saving /\ Op = "enable"
         /\ At(Main, "saveOff") => Saving /\ Op = "disable"
<1> DEFINE Next1(s) == todo[Main] # << >> /\ Head(todo[Main]) = s
<1>0. Op \in Ops
  BY DEF FilesInv, CallTypes, CallOK, Call, Op
<1>1. Resting => todo[Main] = << >>
  BY DEF Resting, Left
<1>2. Saving => \/ Op = "enable" /\ Next1("saveOn")
                \/ Op = "disable" /\ Next1("saveOff")
  <2>1. /\ Op = "enable" => StartsWith(ToSave(Op), "saveOn", << >>)
        /\ Op = "disable" => StartsWith(ToSave(Op), "saveOff", << >>)
    BY <1>0, ListFacts
  <2>2. Saving => Op \in {"enable", "disable"} /\ todo[Main] = ToSave(Op)
    BY DEF Saving, Left
  <2> QED
    BY <2>1, <2>2 DEF StartsWith
<1>3. Creating => Next1("create")
  <2>1. StartsWith(ToCreate(Op), "create", ToGather(Op))
    BY <1>0, ListFacts
  <2>2. Creating => todo[Main] = ToCreate(Op)
    BY DEF Creating, Left
  <2> QED
    BY <2>1, <2>2 DEF StartsWith
<1>4. OpeningToAppend => Next1("openAppend")
  BY <1>0, ListFacts DEF OpeningToAppend, Appending, Left, StartsWith
<1>5. FlushingAppend => Next1("flushAppend")
  BY <1>0, ListFacts DEF FlushingAppend, Appending, Left, StartsWith
<1>6. Gathering => Next1(GatherName(Op))
  BY <1>0, ListFacts DEF Gathering, Left, StartsWith
<1>7. FlushingBak => Next1("flushBak")
  BY <1>0, ListFacts DEF FlushingBak, StartsWith
<1>8. CuttingResolv => Next1("truncResolv")
  BY <1>0, ListFacts DEF CuttingResolv, Left, StartsWith
<1>9. CuttingConf => Next1("truncConf")
  BY <1>0, ListFacts DEF CuttingConf, Left, StartsWith
<1>10. Reading => Next1("readBak")
  BY <1>0, ListFacts DEF Reading, Left, StartsWith
<1>11. FlushingConf => Next1("flushConf")
  BY <1>0, ListFacts DEF FlushingConf, Left, StartsWith
<1>12. FlushingResolv => Next1("flushResolv")
  BY <1>0, ListFacts DEF FlushingResolv, Left, StartsWith
<1>13. Replacing => Next1("gatherReplace")
  BY <1>0, ListFacts DEF Replacing, Left, StartsWith
<1>14. Unlinking => Next1("unlinkConf")
  BY <1>0, ListFacts DEF Unlinking, StartsWith
<1>15. FillingBak => Next1("flushBak")
  BY <1>0, ListFacts DEF FillingBak, StartsWith
<1>16. Renaming => Next1("rename")
  BY <1>0, ListFacts DEF Renaming, Left, StartsWith
<1>17. GatherName(Op) = IF IsSet(Op) THEN "gatherSet"
                        ELSE IF IsUnset(Op) THEN "gatherUnset" ELSE "gatherRefresh"
  BY DEF GatherName
<1>18. IsSet(Op) => ~ IsUnset(Op)
  BY DEF IsSet, IsUnset
<1>19. \A s : At(Main, s) <=> Next1(s)
  BY DEF At, Idle
<1>20. Idle(Main) <=> todo[Main] = << >>
  BY DEF Idle
<1> HIDE DEF Next1
<1>21. \A s, r : Next1(s) /\ Next1(r) => s = r /\ todo[Main] # << >>
  BY DEF Next1
<1> QED
  BY <1>1, <1>2, <1>3, <1>4, <1>5, <1>6, <1>7, <1>8, <1>9, <1>10, <1>11, <1>12, <1>13,
     <1>14, <1>15, <1>16, <1>17, <1>18, <1>19, <1>20, <1>21 DEF FilesInv, Places

\* The call goes on: what it is about stays what it was.
LEMMA SameCall ==
  ASSUME OneThread, CallTypes, UNCHANGED <<call, before>>, flag' \in Flag,
         NEW q \in Seq(Names), todo' = [todo EXCEPT ![Main] = q],
         buf' \in [Threads -> [ns : Servers, lines : Seq(Line)]],
         handle' \in [Threads -> {"conf", "bak", "gone"}],
         spoilt' \in [Threads -> BOOLEAN]
  PROVE  /\ CallTypes' /\ todo'[Main] = q
         /\ Op' = Op /\ Old' = Old /\ Half' = Half /\ Lines' = Lines
         /\ Skipping' = Skipping /\ Appends' = Appends
         /\ flag' = flag => New' = New /\ IsReady' = IsReady
<1>1. CallTypes' /\ todo'[Main] = q
  BY DEF OneThread, CallTypes, CallOK, Blank
<1>2. Op' = Op /\ Old' = Old
  BY DEF Op, Old
<1>3. Half' = Half /\ Lines' = Lines /\ Skipping' = Skipping /\ Appends' = Appends
  BY <1>2 DEF Half, Lines, Skipping, Appends, Mid, Created, Copied, Skips
<1>4. flag' = flag => New' = New /\ IsReady' = IsReady
  BY DEF New, IsReady, Effect, Ready
<1> QED
  BY <1>1, <1>2, <1>3, <1>4

LEMMA Proceeds ==
  ASSUME OneThread, CallTypes, NEW s, NEW q, StartsWith(todo[Main], s, q), q \in Seq(Names)
  PROVE  /\ Continue(Main) => todo' = [todo EXCEPT ![Main] = q]
         /\ Return(Main) => todo' = [todo EXCEPT ![Main] = << >>]
BY DEF Continue, Return, StartsWith, CallTypes, OneThread

\* With one thread a call is spoilt by a refusal only.
LEMMA Spoils ==
  ASSUME OneThread, CallTypes
  PROVE  /\ Undisturbed(Main) => /\ spoilt' \in [Threads -> BOOLEAN]
                                 /\ spoilt'[Main] <=> spoilt[Main]
         /\ Refused(Main) => spoilt' \in [Threads -> BOOLEAN] /\ spoilt'[Main]
BY DEF Undisturbed, Refused, OneThread, CallTypes

LEMMA FileTypes ==
  ASSUME NEW f \in File
  PROVE  /\ f.here \in BOOLEAN /\ f.ns \in Servers /\ f.lines \in Seq(Line)
         /\ f = AFile(f.here, f.ns, f.lines)
         /\ ~ f.here => f = Missing
<1>1. CASE f = Missing
  BY <1>1, EmptySeq DEF Missing, Servers, AFile
<1>2. CASE f \in [here : {TRUE}, ns : Servers, lines : Seq(Line)]
  BY <1>2 DEF AFile
<1> QED
  BY <1>1, <1>2 DEF File, Servers

LEMMA SetLines ==
  ASSUME NEW f \in File, NEW x
  PROVE  [f EXCEPT !.lines = x] = AFile(f.here, f.ns, x)
<1>1. f = AFile(f.here, f.ns, f.lines)
  BY FileTypes
<1>2. \A h, n, l : f = AFile(h, n, l) => [f EXCEPT !.lines = x] = AFile(h, n, x)
  BY FileFields
<1> QED
  BY <1>1, <1>2, Zenon

LEMMA HoldingIsFile ==
  ASSUME NEW ns \in Servers, NEW lines \in Seq(Line)
  PROVE  Holding(ns, lines) \in File /\ Empty \in File /\ Missing \in File
BY EmptySeq DEF Holding, File, Empty, Missing, Servers

LEMMA DiskFiles ==
  ASSUME DiskTypes
  PROVE  /\ OnDisk \in Files /\ Blank(OnDisk)
         /\ disk.conf \in File /\ disk.bak \in File /\ disk.resolv \in File
<1>1. disk.conf \in File /\ disk.bak \in File /\ disk.resolv \in File
  BY DEF DiskTypes
<1>2. OnDisk \in Files
  BY <1>1, FileTypes DEF OnDisk, Files, Servers
<1>3. /\ ~ disk.conf.here => disk.conf = Missing
      /\ ~ disk.resolv.here => disk.resolv = Missing
  BY <1>1, FileTypes
<1>4. Missing.lines = << >>
  BY DEF Missing
<1>5. Blank(OnDisk)
  BY <1>3, <1>4 DEF OnDisk, Blank
<1> QED
  BY <1>1, <1>2, <1>5

\* Replacing one of the files keeps the types.
LEMMA ChangeDisk ==
  ASSUME DiskTypes, NEW c \in File, NEW k \in File, NEW r \in File,
         c.ns = Missing.ns, r.lines \in Seq(ValidLines),
         disk' = [disk EXCEPT !.conf = c, !.bak = k, !.resolv = r]
  PROVE  /\ DiskTypes'
         /\ disk'.conf = c /\ disk'.bak = k /\ disk'.resolv = r
         /\ OnDisk' = TwoFiles(c.here, c.lines, r.here, r.ns, r.lines)
BY DEF DiskTypes, OnDisk, TwoFiles

\* What the call is about, seen from its steps.
LEMMA CallFacts ==
  ASSUME CallTypes
  PROVE  /\ Op \in Ops
         /\ Old \in Files /\ Blank(Old)
         /\ Half \in Files /\ Half.resolvExists = Old.resolvExists
         /\ Half.ns = Old.ns /\ Half.overrides = Old.overrides
         /\ Op = "replace" => Half.confExists
         /\ ~ Appends => Half = Old
         /\ Half.conf \in {Old.conf, New.conf}
         /\ Lines \in Seq(ValidLines) /\ Lines \in Seq(Line)
         /\ New.ns = Old.ns
         /\ IsReady => /\ Half.resolvExists /\ (IsSet(Op) => Half.confExists)
                       /\ New = TwoFiles(Half.confExists, IF IsSet(Op) THEN Lines ELSE Half.conf,
                                         TRUE, Old.ns, IF Skipping THEN Old.overrides ELSE Lines)
                       /\ IsSet(Op) => New.conf = Lines
                       /\ ~ IsSet(Op) => New.conf = Half.conf
                       /\ ~ Skipping => New.overrides = Lines
         /\ ~ IsReady => New = Half
         /\ Main \in Threads
<1>0. Main \in Threads
  BY FilesAssumption
<1>1. CallOK(call[Main]) /\ before[Main] \in Files /\ Blank(before[Main])
  BY <1>0 DEF CallTypes
<1>2. Op \in Ops /\ Old \in Files /\ Blank(Old)
  BY <1>1 DEF Op, Old, CallOK, Call
<1>3. /\ Half \in Files /\ Half.resolvExists = Old.resolvExists
      /\ Half.ns = Old.ns /\ Half.overrides = Old.overrides
      /\ Op = "replace" => Half.confExists
      /\ ~ Appends => Half = Old
  BY <1>1, MidFacts DEF Half, Old, Op, Appends
<1>4. Half.conf \in {Old.conf, New.conf} /\ New.ns = Old.ns
  BY <1>1, OldOrNew DEF Half, Old, New
<1>5. Lines \in Seq(ValidLines) /\ Lines \in Seq(Line)
  BY <1>1, CopiedFacts DEF Lines
<1>6. /\ IsReady => New = TwoFiles(Half.confExists, IF IsSet(Op) THEN Lines ELSE Half.conf,
                                  Half.resolvExists, Old.ns, IF Skipping THEN Old.overrides ELSE Lines)
      /\ ~ IsReady => New = Half
  <2>1. /\ IsReady => New = [Half EXCEPT !.conf = IF IsSet(Op) THEN Lines ELSE @,
                                         !.overrides = IF Skipping THEN @ ELSE Lines]
        /\ ~ IsReady => New = Half
    BY <1>1, EffectIs DEF IsReady, New, Half, Op, Lines, Skipping
  <2>2. ASSUME IsReady
        PROVE  /\ New \in Files
               /\ New.confExists = Half.confExists /\ New.resolvExists = Half.resolvExists
               /\ New.ns = Half.ns
               /\ New.conf = IF IsSet(Op) THEN Lines ELSE Half.conf
               /\ New.overrides = IF Skipping THEN Half.overrides ELSE Lines
    BY <1>3, <1>5, <2>1, <2>2 DEF Files
  <2>3. ASSUME IsReady
        PROVE  New = TwoFiles(New.confExists, New.conf, New.resolvExists, New.ns, New.overrides)
    BY <2>2, <2>3, FilesAreTwo
  <2> QED
    BY <1>3, <2>1, <2>2, <2>3
<1>7. IsReady => Half.resolvExists /\ (IsSet(Op) => Half.confExists)
  BY <1>3 DEF IsReady, Ready, Half, Op, Old, IsSet, IsUnset
<1>8. IsReady => /\ IsSet(Op) => New.conf = Lines
                 /\ ~ IsSet(Op) => New.conf = Half.conf
                 /\ ~ Skipping => New.overrides = Lines
  BY <1>3, <1>6, TwoFilesFields
<1> QED
  BY <1>0, <1>2, <1>3, <1>4, <1>5, <1>6, <1>7, <1>8

LEMMA OnDiskFields ==
  /\ OnDisk.confExists = disk.conf.here /\ OnDisk.conf = disk.conf.lines
  /\ OnDisk.resolvExists = disk.resolv.here /\ OnDisk.ns = disk.resolv.ns
  /\ OnDisk.overrides = disk.resolv.lines
BY DEF OnDisk

LEMMA SameDisk ==
  ASSUME DiskTypes, disk' = disk
  PROVE  DiskTypes' /\ OnDisk' = OnDisk
BY DEF DiskTypes, OnDisk

LEMMA TwoInFront ==
  ASSUME NEW q \in Seq(Names)
  PROVE  <<"openAppend", "flushAppend">> \o q = Cons("openAppend", Cons("flushAppend", q))
<1>1. <<"openAppend">> \in Seq(Names) /\ <<"flushAppend">> \in Seq(Names)
  BY DEF Names
<1>2. <<"openAppend", "flushAppend">> = <<"openAppend">> \o <<"flushAppend">>
  OBVIOUS
<1>3. (<<"openAppend">> \o <<"flushAppend">>) \o q = <<"openAppend">> \o (<<"flushAppend">> \o q)
  BY <1>1, ConcatAssociative
<1> QED
  BY <1>2, <1>3 DEF Cons

-----------------------------------------------------------------------------
(***************************************************************************)
(* The steps that make or extend the stored policy.                        *)
(***************************************************************************)

\* A default line is made exactly when XdnsLines makes one.
LEMMA CreateInv ==
  ASSUME OneThread, FilesInv, CreateSteps(Main)
  PROVE  FilesInv'
<1> DEFINE ns == disk.resolv.ns
           appends == ~ disk.conf.here /\ disk.resolv.here /\ ns.v4 # "" /\ ns.v6 # ""
           line == <<Override(DefaultMac, ns.v4, ns.v6, "empty")>>
<1>1. CallTypes /\ DiskTypes /\ Creating
  BY WhereIs DEF CreateSteps, FilesInv
<1>2. Op \in {"start", "enable"} /\ handle[Main] = "gone" /\ OnDisk = Old /\ Appends
  BY <1>1 DEF Creating, Left, Appends
<1>3. ns \in Servers /\ disk.conf \in File /\ disk.resolv \in File
  BY <1>1, DiskFiles, FileTypes
<1>4. StartsWith(todo[Main], "create", ToGather(Op)) /\ ToGather(Op) \in Seq(Names)
      /\ ToFlushAppend(Op) \in Seq(Names) /\ ToOpenAppend(Op) \in Seq(Names)
  BY <1>1, CallFacts, ListFacts DEF Creating, Left, StartsWith
<1>5. Tail(todo[Main]) = ToGather(Op)
  BY <1>4 DEF StartsWith
<1>6. /\ spoilt' \in [Threads -> BOOLEAN] /\ disk' = disk /\ flag' = flag
      /\ UNCHANGED <<call, before>> /\ handle' = handle
      /\ handle' \in [Threads -> {"conf", "bak", "gone"}]
  BY <1>1, Spoils DEF CreateSteps, CallTypes
<1>7. Half = IF appends THEN AppendDnsmasqConfEntry(Old, line) ELSE Old
  <2>1. Half = Created(Old)
    BY <1>2 DEF Half, Mid, Op, Old
  <2>2. /\ Old.confExists = disk.conf.here /\ Old.resolvExists = disk.resolv.here
        /\ Old.ns = ns
    BY <1>2 DEF OnDisk
  <2> QED
    BY <2>1, <2>2 DEF Created
<1>8. DiskTypes' /\ OnDisk' = OnDisk
  BY <1>1, <1>6, SameDisk
<1>9. CASE appends
  <2>1. line \in Seq(Line)
    <3>1. ns.v4 \in V4 /\ ns.v6 \in V6
      BY <1>3, <1>9 DEF Servers
    <3>2. line \in Seq(ValidLines)
      BY <3>1, DefaultIsValid
    <3> QED
      BY <3>2, ValidLinesAreLines, SeqMonotonic
  <2> HIDE DEF line
  <2>2. buf' = [buf EXCEPT ![Main].lines = line]
    BY <1>9 DEF CreateSteps, line
  <2>3. buf' \in [Threads -> [ns : Servers, lines : Seq(Line)]] /\ buf'[Main].lines = line
    BY <1>1, <2>1, <2>2 DEF CallTypes, OneThread
  <2>4. <<"openAppend", "flushAppend">> \o ToGather(Op) = ToOpenAppend(Op)
    BY <1>4, TwoInFront DEF ToOpenAppend, ToFlushAppend
  <2>5. todo' = [todo EXCEPT ![Main] = ToOpenAppend(Op)]
    BY <1>5, <1>9, <2>4 DEF CreateSteps
  <2>6. /\ CallTypes' /\ todo'[Main] = ToOpenAppend(Op)
        /\ Op' = Op /\ Old' = Old /\ Half' = Half /\ Appends' = Appends
    BY <1>1, <1>4, <1>6, <2>3, <2>5, SameCall DEF CallTypes
  <2>7. ~ Old.confExists
    BY <1>2, <1>9 DEF OnDisk
  <2>8. OpeningToAppend'
    BY <1>2, <1>6, <1>7, <1>8, <1>9, <2>3, <2>6, <2>7
       DEF OpeningToAppend, Appending, Left
  <2> QED
    BY <1>8, <2>6, <2>8 DEF FilesInv, Places
<1>10. CASE ~ appends
  <2>1. buf' = buf
    BY <1>10 DEF CreateSteps
  <2>2. buf' \in [Threads -> [ns : Servers, lines : Seq(Line)]]
    BY <1>1, <2>1 DEF CallTypes
  <2>3. << >> \o ToGather(Op) = ToGather(Op)
    BY <1>4, ConcatEmptySeq
  <2>4. todo' = [todo EXCEPT ![Main] = ToGather(Op)]
    BY <1>5, <1>10, <2>3 DEF CreateSteps
  <2>5. /\ CallTypes' /\ todo'[Main] = ToGather(Op)
        /\ Op' = Op /\ Half' = Half
    BY <1>1, <1>4, <1>6, <2>2, <2>4, SameCall DEF CallTypes
  <2>6. Gathering'
    BY <1>2, <1>6, <1>7, <1>8, <1>10, <2>5 DEF Gathering, Left
  <2> QED
    BY <1>8, <2>5, <2>6 DEF FilesInv, Places
<1> QED
  BY <1>9, <1>10

\* The policy is there now, and empty; or the file is refused.
LEMMA OpenAppendInv ==
  ASSUME OneThread, FilesInv, OpenAppend(Main)
  PROVE  FilesInv'
<1>1. CallTypes /\ DiskTypes /\ OpeningToAppend
  BY WhereIs DEF OpenAppend, FilesInv
<1>2. /\ Appends /\ ~ Old.confExists /\ handle[Main] = "gone" /\ OnDisk = Old
      /\ Half = AppendDnsmasqConfEntry(Old, buf[Main].lines)
      /\ todo[Main] = ToOpenAppend(Op)
  BY <1>1 DEF OpeningToAppend, Appending, Left
<1>3. /\ StartsWith(todo[Main], "openAppend", ToFlushAppend(Op))
      /\ StartsWith(ToFlushAppend(Op), "flushAppend", ToGather(Op))
      /\ ToFlushAppend(Op) \in Seq(Names) /\ ToGather(Op) \in Seq(Names)
  <2>1. Op \in Ops
    BY <1>1, CallFacts
  <2>2. /\ StartsWith(ToOpenAppend(Op), "openAppend", ToFlushAppend(Op))
        /\ StartsWith(ToFlushAppend(Op), "flushAppend", ToGather(Op))
        /\ StartsWith(ToGather(Op), GatherName(Op), ToFlushBak(Op))
    BY <2>1, ListFacts
  <2> QED
    BY <1>2, <2>2 DEF StartsWith
<1>4. /\ flag' = flag /\ UNCHANGED <<call, before>> /\ handle' = handle /\ buf' = buf
      /\ handle' \in [Threads -> {"conf", "bak", "gone"}]
      /\ buf' \in [Threads -> [ns : Servers, lines : Seq(Line)]]
  BY <1>1 DEF OpenAppend, CallTypes
<1>5. CASE disk' = [disk EXCEPT !.conf.here = TRUE] /\ Continue(Main) /\ Undisturbed(Main)
  <2>1. spoilt' \in [Threads -> BOOLEAN]
    BY <1>1, <1>5, Spoils
  <2>2. todo' = [todo EXCEPT ![Main] = ToFlushAppend(Op)]
    BY <1>1, <1>3, <1>5, Proceeds
  <2>3. /\ CallTypes' /\ todo'[Main] = ToFlushAppend(Op)
        /\ Op' = Op /\ Old' = Old /\ Half' = Half /\ Appends' = Appends
    BY <1>1, <1>3, <1>4, <2>1, <2>2, SameCall DEF CallTypes
  <2>4. disk.conf = Missing
    BY <1>1, <1>2, DiskFiles, FileTypes DEF OnDisk
  <2>5. disk' = [disk EXCEPT !.conf = Empty]
    BY <1>1, <1>5, <2>4 DEF Empty, DiskTypes, Missing
  <2>6. DiskTypes' /\ OnDisk' = TwoFiles(TRUE, << >>, Old.resolvExists, Old.ns, Old.overrides)
    <3>1. Empty \in File /\ Empty.ns = Missing.ns /\ Empty.here /\ Empty.lines = << >>
      BY <1>1, HoldingIsFile, FileTypes, EmptySeq DEF Empty, Missing, File
    <3>2. disk' = [disk EXCEPT !.conf = Empty, !.bak = disk.bak, !.resolv = disk.resolv]
      BY <1>1, <2>5 DEF DiskTypes
    <3>3. DiskTypes' /\ OnDisk' = TwoFiles(Empty.here, Empty.lines, disk.resolv.here,
                                          disk.resolv.ns, disk.resolv.lines)
      BY <1>1, <3>1, <3>2, DiskFiles, ChangeDisk DEF DiskTypes
    <3> QED
      BY <1>2, <3>1, <3>3, TwoFilesFields DEF OnDisk, TwoFiles
  <2>7. FlushingAppend'
    BY <1>2, <1>4, <2>3, <2>6 DEF FlushingAppend, Appending, Left
  <2> QED
    BY <2>3, <2>6, <2>7 DEF FilesInv, Places
<1>6. CASE disk' = disk /\ todo' = [todo EXCEPT ![Main] = Tail(Tail(@))] /\ Refused(Main)
  <2>1. spoilt' \in [Threads -> BOOLEAN] /\ spoilt'[Main]
    BY <1>1, <1>6, Spoils
  <2>2. todo' = [todo EXCEPT ![Main] = ToGather(Op)]
    BY <1>3, <1>6 DEF StartsWith
  <2>3. /\ CallTypes' /\ todo'[Main] = ToGather(Op)
        /\ Op' = Op /\ Old' = Old /\ Half' = Half /\ Appends' = Appends
    BY <1>1, <1>3, <1>4, <2>1, <2>2, SameCall DEF CallTypes
  <2>4. DiskTypes' /\ OnDisk' = OnDisk
    BY <1>1, <1>6, SameDisk
  <2>5. Old = Gone(Old)
    BY <1>1, <1>2, CallFacts, FilesAreTwo DEF Gone, Blank, Files
  <2>6. Gathering'
    BY <1>2, <1>4, <2>1, <2>3, <2>4, <2>5 DEF Gathering, Left
  <2> QED
    BY <2>3, <2>4, <2>6 DEF FilesInv, Places
<1> QED
  BY <1>5, <1>6 DEF OpenAppend

\* The policy is what the first half of the call is to make of it.
LEMMA FlushAppendInv ==
  ASSUME OneThread, FilesInv, FlushAppend(Main)
  PROVE  FilesInv'
<1>1. CallTypes /\ DiskTypes /\ FlushingAppend
  BY WhereIs DEF FlushAppend, FilesInv
<1>2. /\ Appends /\ ~ Old.confExists /\ handle[Main] = "gone"
      /\ OnDisk = TwoFiles(TRUE, << >>, Old.resolvExists, Old.ns, Old.overrides)
      /\ Half = AppendDnsmasqConfEntry(Old, buf[Main].lines)
      /\ todo[Main] = ToFlushAppend(Op)
  BY <1>1 DEF FlushingAppend, Appending, Left
<1>3. /\ StartsWith(todo[Main], "flushAppend", ToGather(Op)) /\ ToGather(Op) \in Seq(Names)
  BY <1>1, <1>2, CallFacts, ListFacts DEF StartsWith
<1>4. /\ flag' = flag /\ UNCHANGED <<call, before>> /\ handle' = handle /\ buf' = buf
      /\ handle' \in [Threads -> {"conf", "bak", "gone"}]
      /\ buf' \in [Threads -> [ns : Servers, lines : Seq(Line)]]
      /\ spoilt' \in [Threads -> BOOLEAN] /\ Continue(Main)
      /\ disk' = [disk EXCEPT !.conf.lines = IF disk.conf.here THEN @ \o buf[Main].lines ELSE @]
  BY <1>1, Spoils DEF FlushAppend, CallTypes
<1>5. todo' = [todo EXCEPT ![Main] = ToGather(Op)]
  BY <1>1, <1>3, <1>4, Proceeds
<1>6. /\ CallTypes' /\ todo'[Main] = ToGather(Op) /\ Op' = Op /\ Half' = Half
  BY <1>1, <1>3, <1>4, <1>5, SameCall DEF CallTypes
<1>7. Old \in Files /\ buf[Main].lines \in Seq(Line)
  BY <1>1, CallFacts DEF CallTypes
<1>8. disk.conf.here /\ disk.conf.lines = Old.conf
  BY <1>1, <1>2, CallFacts DEF OnDisk, TwoFiles, Blank
<1> DEFINE new == Holding(Missing.ns, Old.conf \o buf[Main].lines)
<1>9. new \in File /\ new.ns = Missing.ns /\ new.here
      /\ new.lines = Old.conf \o buf[Main].lines
  <2>1. Old.conf \o buf[Main].lines \in Seq(Line)
    BY <1>7, ConcatProperties DEF Files
  <2>2. Missing.ns \in Servers
    BY DEF Missing, Servers
  <2> QED
    BY <2>1, <2>2, HoldingIsFile DEF Holding
<1>10. disk' = [disk EXCEPT !.conf = new, !.bak = disk.bak, !.resolv = disk.resolv]
  <2>1. disk.conf \in File /\ disk.conf.here = TRUE /\ disk.conf.ns = Missing.ns
    BY <1>1, <1>8, DiskFiles, FileTypes DEF DiskTypes
  <2>2. disk' = [disk EXCEPT !.conf = new]
    <3>1. disk' = [disk EXCEPT !.conf = [disk.conf EXCEPT !.lines = Old.conf \o buf[Main].lines]]
      BY <1>1, <1>4, <1>8 DEF DiskTypes
    <3>2. [disk.conf EXCEPT !.lines = Old.conf \o buf[Main].lines]
            = AFile(TRUE, Missing.ns, Old.conf \o buf[Main].lines)
      BY <2>1, SetLines
    <3> QED
      BY <3>1, <3>2 DEF Holding, AFile
  <2> QED
    BY <1>1, <2>2 DEF DiskTypes
<1> HIDE DEF new
<1>11. DiskTypes' /\ OnDisk' = TwoFiles(new.here, new.lines, disk.resolv.here,
                                       disk.resolv.ns, disk.resolv.lines)
  BY <1>1, <1>9, <1>10, DiskFiles, ChangeDisk DEF DiskTypes
<1>12. OnDisk' = Half
  <2>1. /\ disk.resolv.here = Old.resolvExists /\ disk.resolv.ns = Old.ns
        /\ disk.resolv.lines = Old.overrides
    BY <1>2 DEF OnDisk, TwoFiles
  <2>2. Half = TwoFiles(TRUE, Old.conf \o buf[Main].lines, Old.resolvExists, Old.ns, Old.overrides)
    BY <1>2, <1>7, TwoChanges DEF AppendDnsmasqConfEntry
  <2> QED
    BY <1>9, <1>11, <2>1, <2>2
<1>13. Gathering'
  BY <1>2, <1>4, <1>6, <1>12 DEF Gathering, Left
<1> QED
  BY <1>6, <1>11, <1>13 DEF FilesInv, Places

-----------------------------------------------------------------------------
(***************************************************************************)
(* Giving up, and the changes of one file.                                 *)
(***************************************************************************)

LEMMA ChangeBak ==
  ASSUME DiskTypes, NEW k \in File, disk' = [disk EXCEPT !.bak = k]
  PROVE  DiskTypes' /\ OnDisk' = OnDisk /\ disk'.bak = k
                    /\ disk'.conf = disk.conf /\ disk'.resolv = disk.resolv
BY DEF DiskTypes, OnDisk

LEMMA ChangeConf ==
  ASSUME DiskTypes, NEW c \in File, c.ns = Missing.ns, disk' = [disk EXCEPT !.conf = c]
  PROVE  /\ DiskTypes' /\ disk'.bak = disk.bak /\ disk'.conf = c
         /\ OnDisk' = TwoFiles(c.here, c.lines, disk.resolv.here, disk.resolv.ns, disk.resolv.lines)
BY DEF DiskTypes, OnDisk, TwoFiles

LEMMA ChangeResolv ==
  ASSUME DiskTypes, NEW r \in File, r.lines \in Seq(ValidLines),
         disk' = [disk EXCEPT !.resolv = r]
  PROVE  /\ DiskTypes' /\ disk'.bak = disk.bak /\ disk'.resolv = r
         /\ OnDisk' = TwoFiles(disk.conf.here, disk.conf.lines, r.here, r.ns, r.lines)
BY DEF DiskTypes, OnDisk, TwoFiles

\* Every place keeps the promise of NoMixture.
LEMMA PlacesUnmixed ==
  ASSUME FilesInv
  PROVE  OldNewOrEmpty
<1>1. CallTypes /\ DiskTypes /\ Places
  BY DEF FilesInv
<1>2. /\ Half.conf \in {Old.conf, New.conf}
      /\ Half.ns = Old.ns /\ Half.overrides = Old.overrides
      /\ New.ns = Old.ns
      /\ IsReady => /\ IsSet(Op) => New.conf = Lines
                    /\ ~ Skipping => New.overrides = Lines
  BY <1>1, CallFacts
<1>3. /\ OnDisk.conf = disk.conf.lines /\ OnDisk.ns = disk.resolv.ns
      /\ OnDisk.overrides = disk.resolv.lines
  BY OnDiskFields
<1>4. \/ Resting
      \/ OnDisk = Old \/ OnDisk = New \/ OnDisk = Half
      \/ OnDisk = Gone(Old)
      \/ OnDisk = TwoFiles(TRUE, << >>, Old.resolvExists, Old.ns, Old.overrides)
      \/ OnDisk = Cut(Half.conf) \/ OnDisk = Cut(<< >>)
      \/ IsReady /\ IsSet(Op) /\ OnDisk = Cut(Lines)
  BY <1>1 DEF Places, Saving, Creating, OpeningToAppend, FlushingAppend, Gathering,
              FlushingBak, CuttingResolv, CuttingConf, Reading, FlushingConf,
              FlushingResolv, Replacing, Unlinking, FillingBak, Renaming
<1>5. CASE Resting
  BY <1>5 DEF Resting
<1>6. CASE OnDisk = Old \/ OnDisk = New \/ OnDisk = Half
  BY <1>2, <1>3, <1>6 DEF OldNewOrEmpty
<1>7. CASE OnDisk = Gone(Old)
  <2>1. OnDisk.conf = << >> /\ OnDisk.ns = Old.ns /\ OnDisk.overrides = Old.overrides
    BY <1>7 DEF Gone, TwoFiles
  <2> QED
    BY <1>3, <2>1 DEF OldNewOrEmpty
<1>8. CASE OnDisk = TwoFiles(TRUE, << >>, Old.resolvExists, Old.ns, Old.overrides)
  <2>1. OnDisk.conf = << >> /\ OnDisk.ns = Old.ns /\ OnDisk.overrides = Old.overrides
    BY <1>8 DEF TwoFiles
  <2> QED
    BY <1>3, <2>1 DEF OldNewOrEmpty
<1>9. ASSUME NEW lines, lines \in {Old.conf, << >>, New.conf}, OnDisk = Cut(lines)
      PROVE  OldNewOrEmpty
  <2>1. /\ OnDisk.conf = lines
        /\ OnDisk.ns \in {Old.ns, Missing.ns}
        /\ OnDisk.overrides \in {Old.overrides, << >>}
    BY <1>9 DEF Cut, TwoFiles
  <2> QED
    BY <1>3, <1>9, <2>1 DEF OldNewOrEmpty
<1> QED
  BY <1>2, <1>4, <1>5, <1>6, <1>7, <1>8, <1>9

\* A helper that returns at a refusal leaves what there is.
LEMMA GivesUp ==
  ASSUME OneThread, FilesInv, UNCHANGED <<call, before, flag>>,
         todo' = [todo EXCEPT ![Main] = << >>],
         DiskTypes', disk'.conf = disk.conf, disk'.resolv = disk.resolv,
         buf' \in [Threads -> [ns : Servers, lines : Seq(Line)]],
         handle' \in [Threads -> {"conf", "bak", "gone"}], handle'[Main] = "gone",
         Refused(Main)
  PROVE  FilesInv'
<1>1. spoilt' \in [Threads -> BOOLEAN] /\ spoilt'[Main]
  BY Spoils DEF FilesInv
<1>2. << >> \in Seq(Names)
  BY EmptySeq
<1>3. /\ CallTypes' /\ todo'[Main] = << >> /\ Old' = Old /\ New' = New
  BY <1>1, <1>2, SameCall DEF FilesInv, CallTypes
<1>4. OldNewOrEmpty'
  BY <1>3, PlacesUnmixed DEF OldNewOrEmpty
<1>5. Resting'
  BY <1>1, <1>3, <1>4 DEF Resting, Left
<1> QED
  BY <1>3, <1>5 DEF FilesInv, Places

-----------------------------------------------------------------------------
(***************************************************************************)
(* Gathering.                                                              *)
(***************************************************************************)

\* What Gather does when nothing is refused.
Gathers(s) ==
  /\ disk' = [disk EXCEPT !.bak = NewBackup]
  /\ handle' = [Orphaned("bak") EXCEPT ![Main] = "bak"]
  /\ buf' = [buf EXCEPT ![Main] = Gathered(Main, s)]
  /\ Continue(Main) /\ Undisturbed(Main)

LEMMA GathersFacts ==
  ASSUME OneThread, CallTypes, DiskTypes, NEW s, Gathers(s)
  PROVE  /\ DiskTypes' /\ OnDisk' = OnDisk /\ disk'.bak = Empty
         /\ handle' \in [Threads -> {"conf", "bak", "gone"}] /\ handle'[Main] = "bak"
         /\ spoilt' \in [Threads -> BOOLEAN] /\ (spoilt'[Main] <=> spoilt[Main])
         /\ buf'[Main] = Gathered(Main, s)
         /\ Gathered(Main, s) \in [ns : Servers, lines : Seq(Line)]
              => buf' \in [Threads -> [ns : Servers, lines : Seq(Line)]]
<1>1. Empty \in File
  BY HoldingIsFile, EmptySeq DEF Missing, File, Empty
<1>2. DiskTypes' /\ OnDisk' = OnDisk /\ disk'.bak = Empty
  BY <1>1, ChangeBak DEF Gathers, NewBackup
<1>3. handle' \in [Threads -> {"conf", "bak", "gone"}] /\ handle'[Main] = "bak"
  BY DEF Gathers, Orphaned, OneThread, CallTypes
<1>4. buf'[Main] = Gathered(Main, s)
      /\ (Gathered(Main, s) \in [ns : Servers, lines : Seq(Line)]
           => buf' \in [Threads -> [ns : Servers, lines : Seq(Line)]])
  BY DEF Gathers, OneThread, CallTypes
<1> QED
  BY <1>2, <1>3, <1>4, Spoils DEF Gathers

\* The valid lines and the nameservers are in memory, the backup is new.
LEMMA GatherLinesInv ==
  ASSUME OneThread, FilesInv, UNCHANGED <<flag, call, before>>,
         NEW s \in {"gatherRefresh", "gatherSet", "gatherUnset"},
         At(Main, s), Readable(s), Gathers(s)
  PROVE  FilesInv'
<1>1. CallTypes /\ DiskTypes /\ Gathering
  BY WhereIs DEF FilesInv
<1>2. /\ s = "gatherRefresh" => ~ IsSet(Op) /\ ~ IsUnset(Op)
      /\ s = "gatherSet" => IsSet(Op)
      /\ s = "gatherUnset" => IsUnset(Op)
  BY WhereIs
<1>3. IsSet(Op) => ~ IsUnset(Op)
  BY DEF IsSet, IsUnset
<1>4. Appends => ~ IsUnset(Op)
  BY DEF Appends, IsUnset
<1>5. disk.resolv.here /\ (~ IsUnset(Op) => disk.conf.here)
      /\ (~ IsUnset(Op) /\ ~ IsSet(Op) => flag = "1")
  BY <1>2 DEF Readable
<1>6. OnDisk = Half
  <2>1. OnDisk = Gone(Old) => ~ disk.conf.here
    BY DEF Gone, TwoFiles, OnDisk
  <2> QED
    BY <1>1, <1>4, <1>5, <2>1 DEF Gathering
<1>7. /\ disk.conf.lines = Half.conf /\ disk.resolv.ns = Old.ns
      /\ disk.conf.here = Half.confExists /\ disk.resolv.here = Old.resolvExists
  BY <1>1, <1>6, CallFacts, OnDiskFields
<1>8. IsReady
  BY <1>5, <1>7 DEF IsReady, Ready, Half, Op, Old
<1>9. Gathered(Main, s) = [ns |-> Old.ns, lines |-> Lines]
  <2>1. Lines = IF IsUnset(Op) THEN << >> ELSE Keep(disk.conf.lines, ValidLines)
    BY <1>7 DEF Lines, Copied, Half, Op
  <2> QED
    BY <1>2, <1>3, <1>7, <2>1 DEF Gathered
<1>10. [ns |-> Old.ns, lines |-> Lines] \in [ns : Servers, lines : Seq(Line)]
  BY <1>1, CallFacts DEF Files, Servers
<1>11. /\ DiskTypes' /\ OnDisk' = OnDisk /\ disk'.bak = Empty
       /\ handle' \in [Threads -> {"conf", "bak", "gone"}] /\ handle'[Main] = "bak"
       /\ spoilt' \in [Threads -> BOOLEAN]
       /\ buf'[Main] = [ns |-> Old.ns, lines |-> Lines]
       /\ buf' \in [Threads -> [ns : Servers, lines : Seq(Line)]]
  BY <1>1, <1>9, <1>10, GathersFacts
<1>12. StartsWith(todo[Main], GatherName(Op), ToFlushBak(Op)) /\ ToFlushBak(Op) \in Seq(Names)
  <2>1. Op \in Ops /\ todo[Main] = ToGather(Op)
    BY <1>1, CallFacts DEF Gathering, Left
  <2> QED
    BY <2>1, ListFacts DEF StartsWith
<1>13. todo' = [todo EXCEPT ![Main] = ToFlushBak(Op)]
  BY <1>1, <1>12, Proceeds DEF Gathers
<1>14. /\ CallTypes' /\ todo'[Main] = ToFlushBak(Op)
       /\ Op' = Op /\ Old' = Old /\ Half' = Half /\ Lines' = Lines /\ IsReady' = IsReady
  BY <1>1, <1>11, <1>12, <1>13, SameCall DEF CallTypes
<1>15. FlushingBak'
  BY <1>6, <1>8, <1>11, <1>14 DEF FlushingBak, InMemory
<1> QED
  BY <1>11, <1>14, <1>15 DEF FilesInv, Places

\* The new policy is in memory, the stored one is still there.
LEMMA GatherPolicyInv ==
  ASSUME OneThread, FilesInv, UNCHANGED <<flag, call, before>>,
         At(Main, "gatherReplace"), Readable("gatherReplace"), Gathers("gatherReplace")
  PROVE  FilesInv'
<1>1. CallTypes /\ DiskTypes /\ Replacing
  BY WhereIs DEF FilesInv
<1>2. Op = "replace" /\ OnDisk = Old /\ todo[Main] = ToReplace(Op) /\ Op \in Ops
  BY <1>1, CallFacts DEF Replacing, Left
<1>3. Half = AppendDnsmasqConfEntry(
               [Old EXCEPT !.conf = Keep(@, Line \ Mentioning(call[Main].mac))], call[Main].lines)
  BY <1>2 DEF Half, Mid, Op, Old
<1>4. Half.conf = Keep(Old.conf, Line \ Mentioning(call[Main].mac)) \o call[Main].lines
  BY <1>1, <1>3, CallFacts DEF AppendDnsmasqConfEntry, Files
<1>5. Gathered(Main, "gatherReplace") = [ns |-> Missing.ns, lines |-> Half.conf]
  <2>1. disk.conf.lines = Old.conf /\ disk.conf.ns = Missing.ns
    BY <1>1, <1>2, OnDiskFields DEF DiskTypes
  <2> QED
    BY <1>4, <2>1 DEF Gathered
<1>6. [ns |-> Missing.ns, lines |-> Half.conf] \in [ns : Servers, lines : Seq(Line)]
  BY <1>1, CallFacts DEF Files, Servers, Missing
<1>7. /\ DiskTypes' /\ OnDisk' = OnDisk /\ disk'.bak = Empty
      /\ handle' \in [Threads -> {"conf", "bak", "gone"}] /\ handle'[Main] = "bak"
      /\ spoilt' \in [Threads -> BOOLEAN]
      /\ buf'[Main] = [ns |-> Missing.ns, lines |-> Half.conf]
      /\ buf' \in [Threads -> [ns : Servers, lines : Seq(Line)]]
  BY <1>1, <1>5, <1>6, GathersFacts
<1>8. StartsWith(todo[Main], "gatherReplace", ToUnlink(Op)) /\ ToUnlink(Op) \in Seq(Names)
  <2>1. /\ StartsWith(ToReplace(Op), "gatherReplace", ToUnlink(Op))
        /\ StartsWith(ToUnlink(Op), "unlinkConf", ToFillBak(Op))
    BY <1>2, ListFacts
  <2> QED
    BY <1>2, <2>1 DEF StartsWith
<1>9. todo' = [todo EXCEPT ![Main] = ToUnlink(Op)]
  BY <1>1, <1>8, Proceeds DEF Gathers
<1>10. /\ CallTypes' /\ todo'[Main] = ToUnlink(Op)
       /\ Op' = Op /\ Old' = Old /\ Half' = Half
  BY <1>1, <1>7, <1>8, <1>9, SameCall DEF CallTypes
<1>11. Unlinking'
  BY <1>2, <1>7, <1>10 DEF Unlinking, InMemory
<1> QED
  BY <1>7, <1>10, <1>11 DEF FilesInv, Places

LEMMA GatherInv ==
  ASSUME OneThread, FilesInv, Gather(Main)
  PROVE  FilesInv'
<1>1. PICK s \in {"gatherRefresh", "gatherSet", "gatherUnset", "gatherReplace"} :
        /\ At(Main, s) /\ Readable(s)
        /\ \/ Gathers(s)
           \/ /\ disk' = [disk EXCEPT !.bak = Missing]
              /\ handle' = Orphaned("bak")
              /\ Return(Main) /\ Refused(Main) /\ UNCHANGED buf
        /\ UNCHANGED <<flag, call, before>>
  BY DEF Gather, Gathers
<1>2. CASE Gathers(s)
  BY <1>1, <1>2, GatherLinesInv, GatherPolicyInv
<1>3. CASE /\ disk' = [disk EXCEPT !.bak = Missing]
           /\ handle' = Orphaned("bak")
           /\ Return(Main) /\ Refused(Main) /\ UNCHANGED buf
  <2>1. Gathering \/ Replacing
    BY <1>1, WhereIs
  <2>2. handle[Main] = "gone"
    BY <2>1 DEF Gathering, Replacing, Left
  <2>3. handle' \in [Threads -> {"conf", "bak", "gone"}] /\ handle'[Main] = "gone"
    BY <1>3, <2>2 DEF Orphaned, OneThread, FilesInv, CallTypes
  <2>4. Missing \in File
    BY DEF File
  <2>5. DiskTypes' /\ disk'.conf = disk.conf /\ disk'.resolv = disk.resolv
    BY <1>3, <2>4, ChangeBak DEF FilesInv
  <2> QED
    BY <1>1, <1>3, <2>3, <2>5, GivesUp DEF FilesInv, CallTypes, Return
<1> QED
  BY <1>1, <1>2, <1>3

\* What a step that changes no file and takes no handle leaves as it is.
LEMMA Undone ==
  ASSUME OneThread, CallTypes, DiskTypes, UNCHANGED <<disk, flag, call, handle, before>>,
         Undisturbed(Main)
  PROVE  /\ DiskTypes' /\ OnDisk' = OnDisk
         /\ handle' \in [Threads -> {"conf", "bak", "gone"}]
         /\ spoilt' \in [Threads -> BOOLEAN] /\ (spoilt'[Main] <=> spoilt[Main])
<1>1. DiskTypes' /\ OnDisk' = OnDisk
  BY SameDisk
<1> QED
  BY <1>1, Spoils DEF CallTypes

\* Nothing is gathered: a new policy is appended to, or the call is over.
LEMMA NothingToGatherInv ==
  ASSUME OneThread, FilesInv, NothingToGather(Main)
  PROVE  FilesInv'
<1>1. CallTypes /\ DiskTypes
  BY DEF FilesInv
<1>2. /\ DiskTypes' /\ OnDisk' = OnDisk
      /\ handle' \in [Threads -> {"conf", "bak", "gone"}]
      /\ spoilt' \in [Threads -> BOOLEAN] /\ (spoilt'[Main] <=> spoilt[Main])
  BY <1>1, Undone DEF NothingToGather
<1>3. UNCHANGED <<disk, flag, call, handle, before>>
  BY DEF NothingToGather
<1>4. PICK s \in {"gatherRefresh", "gatherSet", "gatherUnset", "gatherReplace"} :
        /\ At(Main, s) /\ ~ Readable(s)
        /\ IF s = "gatherReplace"
           THEN /\ todo' = [todo EXCEPT ![Main] = <<"openAppend", "flushAppend">> \o RefreshSteps]
                /\ buf' = [buf EXCEPT ![Main].lines = call[Main].lines]
           ELSE /\ todo' = [todo EXCEPT ![Main] =
                              IF call[Main].op = "disable" THEN <<"saveOff">> ELSE << >>]
                /\ UNCHANGED buf
  BY DEF NothingToGather
<1>5. CASE s = "gatherReplace"
  <2>1. /\ Op = "replace" /\ OnDisk = Old /\ handle[Main] = "gone" /\ Appends
        /\ ~ disk.conf.here /\ Op \in Ops
    BY <1>1, <1>4, <1>5, WhereIs, CallFacts DEF Replacing, Left, Appends, Readable
  <2>2. ~ Old.confExists /\ Old.conf = << >> /\ Old \in Files
    BY <1>1, <2>1, CallFacts, OnDiskFields DEF Blank
  <2>3. call[Main].lines \in Seq(Line) /\ call[Main].op = "replace"
    BY <1>1, <2>1 DEF CallTypes, CallOK, Call, Op
  <2>4. buf' \in [Threads -> [ns : Servers, lines : Seq(Line)]]
        /\ buf'[Main].lines = call[Main].lines
    <3>1. buf' = [buf EXCEPT ![Main].lines = call[Main].lines]
      BY <1>4, <1>5
    <3> QED
      BY <1>1, <2>3, <3>1 DEF CallTypes, OneThread
  <2>5. todo' = [todo EXCEPT ![Main] = ToOpenAppend(Op)]
    BY <1>4, <1>5, <2>1, FirstSteps
  <2>6. ToOpenAppend(Op) \in Seq(Names)
    BY <2>1, ListFacts DEF StartsWith
  <2>7. /\ CallTypes' /\ todo'[Main] = ToOpenAppend(Op)
        /\ Op' = Op /\ Old' = Old /\ Half' = Half /\ Appends' = Appends
    BY <1>1, <1>2, <1>3, <2>4, <2>5, <2>6, SameCall DEF CallTypes
  <2>8. Half = AppendDnsmasqConfEntry(Old, call[Main].lines)
    <3>1. Keep(Old.conf, Line \ Mentioning(call[Main].mac)) = Old.conf
      BY <2>2, KeepEmpty
    <3>2. [Old EXCEPT !.conf = Old.conf] = Old
      BY <2>2 DEF Files
    <3>3. Half = AppendDnsmasqConfEntry(
                   [Old EXCEPT !.conf = Keep(@, Line \ Mentioning(call[Main].mac))],
                   call[Main].lines)
      BY <2>3 DEF Half, Mid, Old
    <3> QED
      BY <3>1, <3>2, <3>3
  <2>9. OpeningToAppend'
    BY <1>2, <1>3, <2>1, <2>2, <2>4, <2>7, <2>8 DEF OpeningToAppend, Appending, Left
  <2> QED
    BY <1>2, <2>7, <2>9 DEF FilesInv, Places
<1>6. CASE s # "gatherReplace"
  <2>1. Gathering /\ handle[Main] = "gone" /\ Op \in Ops
    BY <1>1, <1>4, <1>6, WhereIs, CallFacts DEF Gathering, Left
  <2>2. /\ s = "gatherRefresh" => ~ IsSet(Op) /\ ~ IsUnset(Op)
        /\ s = "gatherSet" => IsSet(Op)
        /\ s = "gatherUnset" => IsUnset(Op)
    BY <1>4, WhereIs
  <2>3. OnDisk = Half => OnDisk = New
    <3>1. ASSUME OnDisk = Half, IsReady
          PROVE  Readable(s)
      <4>1. /\ disk.resolv.here
            /\ ~ IsUnset(Op) => disk.conf.here
            /\ ~ IsUnset(Op) /\ ~ IsSet(Op) => flag = "1"
        BY <1>1, <3>1, CallFacts, OnDiskFields DEF IsReady, Ready, Half, Op, Old
      <4> QED
        BY <1>4, <1>6, <2>2, <4>1 DEF Readable, IsSet, IsUnset
    <3> QED
      BY <1>1, <1>4, <3>1, CallFacts
  <2>4. ~ spoilt[Main] => OnDisk = New
    BY <2>1, <2>3 DEF Gathering
  <2>5. buf' \in [Threads -> [ns : Servers, lines : Seq(Line)]]
    BY <1>1, <1>4, <1>6 DEF CallTypes
  <2>6. CASE Op = "disable"
    <3>1. todo' = [todo EXCEPT ![Main] = ToSave(Op)] /\ ToSave(Op) \in Seq(Names)
      <4>1. <<"saveOff">> = Cons("saveOff", << >>)
        BY DEF Cons
      <4>2. todo' = [todo EXCEPT ![Main] = <<"saveOff">>]
        BY <1>4, <1>6, <2>6 DEF Op
      <4> QED
        BY <2>1, <2>6, <4>1, <4>2, ListFacts DEF ToSave
    <3>2. /\ CallTypes' /\ todo'[Main] = ToSave(Op) /\ Op' = Op /\ New' = New
      BY <1>1, <1>2, <1>3, <2>5, <3>1, SameCall DEF CallTypes
    <3>3. OnDisk = New /\ disk.resolv.lines = << >>
      <4>1. s = "gatherUnset" /\ ~ Appends
        BY <1>4, <1>6, <2>2, <2>6 DEF IsSet, IsUnset, Appends
      <4>2. ~ disk.resolv.here
        BY <1>4, <4>1 DEF Readable
      <4>3. disk.resolv.lines = << >>
        BY <1>1, <4>2, DiskFiles, OnDiskFields DEF Blank
      <4> QED
        BY <2>1, <2>3, <4>1, <4>3 DEF Gathering
    <3>4. disk' = disk
      BY <1>3
    <3>5. Saving'
      BY <1>2, <1>3, <2>1, <2>6, <3>2, <3>3, <3>4 DEF Saving, Left
    <3> QED
      BY <1>2, <3>2, <3>5 DEF FilesInv, Places
  <2>7. CASE Op # "disable"
    <3>1. todo' = [todo EXCEPT ![Main] = << >>] /\ << >> \in Seq(Names)
      BY <1>4, <1>6, <2>7, EmptySeq DEF Op
    <3>2. /\ CallTypes' /\ todo'[Main] = << >> /\ Old' = Old /\ New' = New
      BY <1>1, <1>2, <1>3, <2>5, <3>1, SameCall DEF CallTypes
    <3>3. OldNewOrEmpty'
      BY <1>3, <3>2, PlacesUnmixed DEF OldNewOrEmpty
    <3>4. Resting'
      BY <1>2, <1>3, <2>1, <2>4, <3>2, <3>3 DEF Resting, Left
    <3> QED
      BY <1>2, <3>2, <3>4 DEF FilesInv, Places
  <2> QED
    BY <2>6, <2>7
<1> QED
  BY <1>5, <1>6

-----------------------------------------------------------------------------
(***************************************************************************)
(* The backup, and the policy that takes its name.                         *)
(***************************************************************************)

\* The backup holds what was in memory.
LEMMA BackupFilled ==
  ASSUME OneThread, CallTypes, DiskTypes, FlushBak(Main),
         handle[Main] = "bak", disk.bak = Empty,
         NEW ns \in Servers, NEW lines \in Seq(Line),
         buf[Main] = [ns |-> ns, lines |-> lines]
  PROVE  /\ DiskTypes' /\ OnDisk' = OnDisk /\ disk'.bak = Holding(ns, lines)
         /\ handle' \in [Threads -> {"conf", "bak", "gone"}] /\ handle'[Main] = "gone"
         /\ spoilt' \in [Threads -> BOOLEAN] /\ (spoilt'[Main] <=> spoilt[Main])
<1>1. buf[Main].ns = ns /\ buf[Main].lines = lines
  OBVIOUS
<1>2. Empty = AFile(TRUE, Missing.ns, << >>)
  BY DEF Empty, Missing, AFile
<1>3. << >> \o lines = lines
  BY ConcatEmptySeq
<1> DEFINE b1 == [disk.bak EXCEPT !.ns = ns]
<1>4. disk' = [disk EXCEPT !.bak = [b1 EXCEPT !.lines = @ \o lines]]
  <2>1. Empty.ns = Missing.ns
    BY DEF Empty, Missing
  <2>2. disk' = [disk EXCEPT !["bak"].ns = IF buf[Main].ns = Missing.ns THEN @ ELSE buf[Main].ns,
                             !["bak"].lines = @ \o buf[Main].lines]
    BY DEF FlushBak
  <2>3. (IF buf[Main].ns = Missing.ns THEN disk.bak.ns ELSE buf[Main].ns) = ns
    BY <1>1, <2>1
  <2> QED
    BY <1>1, <2>2, <2>3 DEF DiskTypes
<1>5. b1 = AFile(TRUE, ns, << >>)
  <2>1. \A h, n, l : disk.bak = AFile(h, n, l) => [disk.bak EXCEPT !.ns = ns] = AFile(h, ns, l)
    BY FileFields
  <2>2. disk.bak = AFile(TRUE, Missing.ns, << >>)
    BY <1>2
  <2> QED
    BY <2>1, <2>2, Zenon
<1>6. [b1 EXCEPT !.lines = @ \o lines] = Holding(ns, lines)
  <2> HIDE DEF b1
  <2>1. b1.lines = << >> /\ [b1 EXCEPT !.lines = lines] = AFile(TRUE, ns, lines)
    <3>1. \A h, n, l : b1 = AFile(h, n, l) =>
                         b1.lines = l /\ [b1 EXCEPT !.lines = lines] = AFile(h, n, lines)
      BY FileFields
    <3> QED
      BY <1>5, <3>1, Zenon
  <2>2. [b1 EXCEPT !.lines = b1.lines \o lines] = AFile(TRUE, ns, lines)
    BY <1>3, <2>1
  <2> QED
    BY <2>2 DEF Holding, AFile
<1> HIDE DEF b1
<1>7. Holding(ns, lines) \in File
  BY HoldingIsFile
<1>8. DiskTypes' /\ OnDisk' = OnDisk /\ disk'.bak = Holding(ns, lines)
  BY <1>4, <1>6, <1>7, ChangeBak
<1>9. handle' \in [Threads -> {"conf", "bak", "gone"}] /\ handle'[Main] = "gone"
  BY DEF FlushBak, CallTypes, OneThread
<1> QED
  BY <1>8, <1>9, Spoils DEF FlushBak

LEMMA FlushBakInv ==
  ASSUME OneThread, FilesInv, FlushBak(Main)
  PROVE  FilesInv'
<1>1. CallTypes /\ DiskTypes /\ (FlushingBak \/ FillingBak)
  BY WhereIs DEF FlushBak, FilesInv
<1>2. /\ UNCHANGED <<flag, call, before>> /\ buf' = buf /\ Continue(Main)
      /\ buf' \in [Threads -> [ns : Servers, lines : Seq(Line)]]
  BY <1>1 DEF FlushBak, CallTypes
<1>3. handle[Main] = "bak" /\ disk.bak = Empty
  BY <1>1 DEF FlushingBak, FillingBak
<1>4. CASE FlushingBak
  <2>1. /\ IsReady /\ OnDisk = Half /\ InMemory(Old.ns, Lines)
        /\ todo[Main] = ToFlushBak(Op) /\ Op \in Ops
    BY <1>1, <1>4, CallFacts DEF FlushingBak
  <2>2. Old.ns \in Servers /\ Lines \in Seq(Line)
    BY <1>1, CallFacts DEF Files, Servers
  <2>3. /\ DiskTypes' /\ OnDisk' = OnDisk /\ disk'.bak = Holding(Old.ns, Lines)
        /\ handle' \in [Threads -> {"conf", "bak", "gone"}] /\ handle'[Main] = "gone"
        /\ spoilt' \in [Threads -> BOOLEAN]
    BY <1>1, <1>3, <2>1, <2>2, BackupFilled DEF InMemory
  <2>4. StartsWith(todo[Main], "flushBak", ToCut(Op)) /\ ToCut(Op) \in Seq(Names)
    <3>1. /\ StartsWith(ToFlushBak(Op), "flushBak", ToCut(Op))
          /\ StartsWith(ToCut(Op), "truncResolv", IF IsSet(Op) THEN ToCutConf(Op) ELSE ToRead(Op))
      BY <2>1, ListFacts
    <3> QED
      BY <2>1, <3>1 DEF StartsWith
  <2>5. todo' = [todo EXCEPT ![Main] = ToCut(Op)]
    BY <1>1, <1>2, <2>4, Proceeds
  <2>6. /\ CallTypes' /\ todo'[Main] = ToCut(Op) /\ Op' = Op /\ Old' = Old
        /\ Half' = Half /\ Lines' = Lines /\ IsReady' = IsReady
    BY <1>1, <1>2, <2>3, <2>4, <2>5, SameCall DEF CallTypes
  <2>7. CuttingResolv'
    BY <1>2, <2>1, <2>3, <2>6 DEF CuttingResolv, Left, InMemory, InBackup
  <2> QED
    BY <2>3, <2>6, <2>7 DEF FilesInv, Places
<1>5. CASE FillingBak
  <2>1. /\ Op = "replace" /\ OnDisk = Gone(Old) /\ InMemory(Missing.ns, Half.conf)
        /\ todo[Main] = ToFillBak(Op) /\ Op \in Ops
    BY <1>1, <1>5, CallFacts DEF FillingBak
  <2>2. Missing.ns \in Servers /\ Half.conf \in Seq(Line)
    BY <1>1, CallFacts DEF Files, Servers, Missing
  <2>3. /\ DiskTypes' /\ OnDisk' = OnDisk /\ disk'.bak = Holding(Missing.ns, Half.conf)
        /\ handle' \in [Threads -> {"conf", "bak", "gone"}] /\ handle'[Main] = "gone"
        /\ spoilt' \in [Threads -> BOOLEAN]
    BY <1>1, <1>3, <2>1, <2>2, BackupFilled DEF InMemory
  <2>4. StartsWith(todo[Main], "flushBak", ToRename(Op)) /\ ToRename(Op) \in Seq(Names)
    <3>1. /\ StartsWith(ToFillBak(Op), "flushBak", ToRename(Op))
          /\ StartsWith(ToRename(Op), "rename", ToGather(Op))
      BY <2>1, ListFacts
    <3> QED
      BY <2>1, <3>1 DEF StartsWith
  <2>5. todo' = [todo EXCEPT ![Main] = ToRename(Op)]
    BY <1>1, <1>2, <2>4, Proceeds
  <2>6. /\ CallTypes' /\ todo'[Main] = ToRename(Op) /\ Op' = Op /\ Old' = Old /\ Half' = Half
    BY <1>1, <1>2, <2>3, <2>4, <2>5, SameCall DEF CallTypes
  <2>7. Renaming'
    <3>1. Gone(Old)' = Gone(Old)
      BY <2>6 DEF Gone
    <3> QED
      BY <2>1, <2>3, <2>6, <3>1 DEF Renaming, Left, InBackup
  <2> QED
    BY <2>3, <2>6, <2>7 DEF FilesInv, Places
<1> QED
  BY <1>1, <1>4, <1>5

LEMMA UnlinkConfInv ==
  ASSUME OneThread, FilesInv, UnlinkConf(Main)
  PROVE  FilesInv'
<1>1. CallTypes /\ DiskTypes /\ Unlinking
  BY WhereIs DEF UnlinkConf, FilesInv
<1>2. /\ UNCHANGED <<flag, call, before>> /\ buf' = buf /\ Continue(Main)
      /\ buf' \in [Threads -> [ns : Servers, lines : Seq(Line)]]
      /\ spoilt' \in [Threads -> BOOLEAN]
  BY <1>1, Spoils DEF UnlinkConf, CallTypes
<1>3. /\ Op = "replace" /\ todo[Main] = ToUnlink(Op) /\ handle[Main] = "bak"
      /\ disk.bak = Empty /\ OnDisk = Old /\ InMemory(Missing.ns, Half.conf) /\ Op \in Ops
  BY <1>1, CallFacts DEF Unlinking
<1>4. handle' \in [Threads -> {"conf", "bak", "gone"}] /\ handle'[Main] = "bak"
  BY <1>1, <1>3 DEF UnlinkConf, Orphaned, OneThread, CallTypes
<1>5. Missing \in File /\ ~ Missing.here /\ Missing.lines = << >>
  BY DEF File, Missing
<1>6. /\ DiskTypes' /\ disk'.bak = disk.bak
      /\ OnDisk' = TwoFiles(Missing.here, Missing.lines, disk.resolv.here,
                           disk.resolv.ns, disk.resolv.lines)
  BY <1>1, <1>5, ChangeConf DEF UnlinkConf
<1>7. OnDisk' = Gone(Old)
  BY <1>3, <1>5, <1>6, OnDiskFields DEF Gone, Missing
<1>8. StartsWith(todo[Main], "unlinkConf", ToFillBak(Op)) /\ ToFillBak(Op) \in Seq(Names)
  <2>1. /\ StartsWith(ToUnlink(Op), "unlinkConf", ToFillBak(Op))
        /\ StartsWith(ToFillBak(Op), "flushBak", ToRename(Op))
    BY <1>3, ListFacts
  <2> QED
    BY <1>3, <2>1 DEF StartsWith
<1>9. todo' = [todo EXCEPT ![Main] = ToFillBak(Op)]
  BY <1>1, <1>2, <1>8, Proceeds
<1>10. /\ CallTypes' /\ todo'[Main] = ToFillBak(Op) /\ Op' = Op /\ Old' = Old /\ Half' = Half
  BY <1>1, <1>2, <1>4, <1>8, <1>9, SameCall DEF CallTypes
<1>11. FillingBak'
  <2>1. Gone(Old)' = Gone(Old)
    BY <1>10 DEF Gone
  <2> QED
    BY <1>2, <1>3, <1>4, <1>6, <1>7, <1>10, <2>1 DEF FillingBak, InMemory, Empty
<1> QED
  BY <1>6, <1>10, <1>11 DEF FilesInv, Places

\* The new policy takes the place of the old one, or there is none.
LEMMA RenameInv ==
  ASSUME OneThread, FilesInv, Rename(Main)
  PROVE  FilesInv'
<1>1. CallTypes /\ DiskTypes /\ Renaming
  BY WhereIs DEF Rename, FilesInv
<1>2. /\ UNCHANGED <<flag, call, before>> /\ buf' = buf /\ Continue(Main)
      /\ buf' \in [Threads -> [ns : Servers, lines : Seq(Line)]]
  BY <1>1 DEF Rename, CallTypes
<1>3. /\ Op = "replace" /\ todo[Main] = ToRename(Op) /\ handle[Main] = "gone"
      /\ OnDisk = Gone(Old) /\ disk.bak = Holding(Missing.ns, Half.conf)
      /\ Op \in Ops /\ Appends
  BY <1>1, CallFacts DEF Renaming, Left, InBackup, Appends
<1>4. StartsWith(todo[Main], "rename", ToGather(Op)) /\ ToGather(Op) \in Seq(Names)
  <2>1. /\ StartsWith(ToRename(Op), "rename", ToGather(Op))
        /\ StartsWith(ToGather(Op), GatherName(Op), ToFlushBak(Op))
    BY <1>3, ListFacts
  <2> QED
    BY <1>3, <2>1 DEF StartsWith
<1>5. todo' = [todo EXCEPT ![Main] = ToGather(Op)]
  BY <1>1, <1>2, <1>4, Proceeds
<1>6. ASSUME handle' \in [Threads -> {"conf", "bak", "gone"}],
             spoilt' \in [Threads -> BOOLEAN]
      PROVE  /\ CallTypes' /\ todo'[Main] = ToGather(Op) /\ Op' = Op /\ Old' = Old
             /\ Half' = Half /\ Appends' = Appends
  BY <1>1, <1>2, <1>4, <1>5, <1>6, SameCall DEF CallTypes
<1>7. CASE /\ disk' = [disk EXCEPT !.conf = disk.bak, !.bak = Missing]
           /\ handle' = [u \in Threads |-> IF handle[u] = "bak" THEN "conf"
                                           ELSE Orphaned("conf")[u]]
           /\ Undisturbed(Main)
  <2>1. handle' \in [Threads -> {"conf", "bak", "gone"}] /\ handle'[Main] = "gone"
    BY <1>1, <1>3, <1>7 DEF Orphaned, OneThread, CallTypes
  <2>2. spoilt' \in [Threads -> BOOLEAN]
    BY <1>1, <1>7, Spoils
  <2>3. /\ disk.bak \in File /\ Missing \in File /\ disk.resolv \in File
        /\ disk.bak.ns = Missing.ns /\ disk.bak.here /\ disk.bak.lines = Half.conf
        /\ disk.resolv.lines \in Seq(ValidLines)
    <3>1. disk.bak.ns = Missing.ns /\ disk.bak.here /\ disk.bak.lines = Half.conf
      BY <1>3 DEF Holding
    <3>2. Missing \in File
      BY DEF File
    <3> QED
      BY <1>1, <3>1, <3>2, DiskFiles DEF DiskTypes
  <2>4. disk' = [disk EXCEPT !.conf = disk.bak, !.bak = Missing, !.resolv = disk.resolv]
    BY <1>1, <1>7 DEF DiskTypes
  <2>5. /\ DiskTypes'
        /\ OnDisk' = TwoFiles(disk.bak.here, disk.bak.lines, disk.resolv.here,
                             disk.resolv.ns, disk.resolv.lines)
    BY <1>1, <2>3, <2>4, ChangeDisk
  <2>6. OnDisk' = Half
    <3>1. /\ disk.resolv.here = Old.resolvExists /\ disk.resolv.ns = Old.ns
          /\ disk.resolv.lines = Old.overrides
      BY <1>3 DEF OnDisk, Gone, TwoFiles
    <3>2. /\ Half = TwoFiles(Half.confExists, Half.conf, Half.resolvExists, Half.ns, Half.overrides)
          /\ Half.confExists = TRUE /\ Half.resolvExists = Old.resolvExists
          /\ Half.ns = Old.ns /\ Half.overrides = Old.overrides
      BY <1>1, <1>3, CallFacts, FilesAreTwo DEF Files
    <3> QED
      BY <2>3, <2>5, <3>1, <3>2
  <2>7. Gathering'
    BY <1>6, <2>1, <2>2, <2>6 DEF Gathering, Left
  <2> QED
    BY <1>6, <2>1, <2>2, <2>5, <2>7 DEF FilesInv, Places
<1>8. CASE UNCHANGED <<disk, handle>> /\ Refused(Main)
  <2>1. spoilt' \in [Threads -> BOOLEAN] /\ spoilt'[Main]
    BY <1>1, <1>8, Spoils
  <2>2. handle' \in [Threads -> {"conf", "bak", "gone"}] /\ handle'[Main] = "gone"
    BY <1>1, <1>3, <1>8 DEF CallTypes
  <2>3. DiskTypes' /\ OnDisk' = OnDisk
    BY <1>1, <1>8, SameDisk
  <2>4. Gone(Old)' = Gone(Old)
    BY <1>6, <2>1, <2>2 DEF Gone
  <2>5. Gathering'
    BY <1>3, <1>6, <2>1, <2>2, <2>3, <2>4 DEF Gathering, Left
  <2> QED
    BY <1>6, <2>1, <2>2, <2>3, <2>5 DEF FilesInv, Places
<1> QED
  BY <1>7, <1>8 DEF Rename

-----------------------------------------------------------------------------
(***************************************************************************)
(* Truncating and reading the backup.                                      *)
(***************************************************************************)

\* resolv.conf is cut before the policy is.
LEMMA TruncResolvInv ==
  ASSUME OneThread, FilesInv, UNCHANGED <<flag, call, buf, handle, before>>,
         At(Main, "truncResolv"), Continue(Main), Undisturbed(Main),
         IF Skipped(Main, "truncResolv") THEN disk' = disk
         ELSE disk' = [disk EXCEPT !.resolv = Empty]
  PROVE  FilesInv'
<1>1. CallTypes /\ DiskTypes /\ CuttingResolv
  BY WhereIs DEF FilesInv
<1>2. /\ IsReady /\ todo[Main] = ToCut(Op) /\ handle[Main] = "gone" /\ OnDisk = Half
      /\ buf[Main] = [ns |-> Old.ns, lines |-> Lines]
      /\ disk.bak = Holding(Old.ns, Lines) /\ Op \in Ops
  BY <1>1, CallFacts DEF CuttingResolv, Left, InMemory, InBackup
<1>3. Skipped(Main, "truncResolv") <=> Skipping
  BY <1>2 DEF Skipped, Skipping, Skips, IsSet, Lines
<1>4. /\ Half = TwoFiles(Half.confExists, Half.conf, TRUE, Old.ns, Old.overrides)
      /\ Half.resolvExists = TRUE
  BY <1>1, <1>2, CallFacts, FilesAreTwo DEF Files
<1>5. DiskTypes' /\ disk'.bak = disk.bak /\ OnDisk' = Cut(Half.conf)
  <2>1. CASE Skipping
    BY <1>1, <1>2, <1>3, <1>4, <2>1, SameDisk DEF Cut
  <2>2. CASE ~ Skipping
    <3>1. disk' = [disk EXCEPT !.resolv = Empty]
      BY <1>3, <2>2
    <3>2. Empty \in File /\ Empty.lines = << >> /\ Empty.ns = Missing.ns /\ Empty.here = TRUE
          /\ << >> \in Seq(ValidLines)
      BY <1>1, HoldingIsFile, EmptySeq DEF Empty, Missing, File
    <3>3. /\ DiskTypes' /\ disk'.bak = disk.bak
          /\ OnDisk' = TwoFiles(disk.conf.here, disk.conf.lines, TRUE, Missing.ns, << >>)
      BY <1>1, <3>1, <3>2, ChangeResolv
    <3> QED
      BY <1>2, <2>2, <3>3, OnDiskFields DEF Cut
  <2> QED
    BY <2>1, <2>2
<1>6. DEFINE rest == IF IsSet(Op) THEN ToCutConf(Op) ELSE ToRead(Op)
<1>7. StartsWith(todo[Main], "truncResolv", rest) /\ rest \in Seq(Names)
  <2>1. /\ StartsWith(ToCut(Op), "truncResolv", rest)
        /\ StartsWith(ToCutConf(Op), "truncConf", ToRead(Op))
        /\ StartsWith(ToRead(Op), "readBak", IF IsSet(Op) THEN ToFlushConf(Op) ELSE ToFlushResolv(Op))
    BY <1>2, ListFacts
  <2> QED
    BY <1>2, <2>1 DEF StartsWith
<1> HIDE DEF rest
<1>8. todo' = [todo EXCEPT ![Main] = rest]
  BY <1>1, <1>7, Proceeds
<1>9. /\ spoilt' \in [Threads -> BOOLEAN]
      /\ buf' \in [Threads -> [ns : Servers, lines : Seq(Line)]]
      /\ handle' \in [Threads -> {"conf", "bak", "gone"}] /\ handle'[Main] = "gone"
  BY <1>1, <1>2, Spoils DEF CallTypes
<1>10. /\ CallTypes' /\ todo'[Main] = rest /\ Op' = Op /\ Old' = Old /\ Half' = Half
       /\ Lines' = Lines /\ Skipping' = Skipping /\ IsReady' = IsReady
  BY <1>1, <1>7, <1>8, <1>9, SameCall DEF CallTypes
<1>11. OnDisk' = Cut(Half.conf)'
  BY <1>5, <1>10 DEF Cut
<1>12. CASE IsSet(Op)
  <2>1. CuttingConf'
    BY <1>2, <1>5, <1>9, <1>10, <1>11, <1>12 DEF CuttingConf, Left, InBackup, rest
  <2> QED
    BY <1>5, <1>10, <2>1 DEF FilesInv, Places
<1>13. CASE ~ IsSet(Op)
  <2>1. Reading'
    BY <1>2, <1>5, <1>9, <1>10, <1>11, <1>13 DEF Reading, Left, InBackup, rest
  <2> QED
    BY <1>5, <1>10, <2>1 DEF FilesInv, Places
<1> QED
  BY <1>12, <1>13

LEMMA TruncConfInv ==
  ASSUME OneThread, FilesInv, UNCHANGED <<flag, call, buf, handle, before>>,
         At(Main, "truncConf"), Continue(Main), Undisturbed(Main),
         disk' = [disk EXCEPT !.conf = Empty]
  PROVE  FilesInv'
<1>1. CallTypes /\ DiskTypes /\ CuttingConf
  BY WhereIs DEF FilesInv
<1>2. /\ IsReady /\ IsSet(Op) /\ todo[Main] = ToCutConf(Op) /\ handle[Main] = "gone"
      /\ OnDisk = Cut(Half.conf) /\ disk.bak = Holding(Old.ns, Lines) /\ Op \in Ops
  BY <1>1, CallFacts DEF CuttingConf, Left, InBackup
<1>3. Half.confExists = TRUE
  BY <1>1, <1>2, CallFacts DEF Files
<1>4. Empty \in File /\ Empty.lines = << >> /\ Empty.ns = Missing.ns /\ Empty.here = TRUE
  BY <1>1, HoldingIsFile, EmptySeq DEF Empty, Missing, File
<1>5. /\ DiskTypes' /\ disk'.bak = disk.bak
      /\ OnDisk' = TwoFiles(TRUE, << >>, disk.resolv.here, disk.resolv.ns, disk.resolv.lines)
  BY <1>1, <1>4, ChangeConf
<1>6. OnDisk' = Cut(<< >>)
  <2>1. /\ disk.resolv.here = Cut(Half.conf).resolvExists
        /\ disk.resolv.ns = Cut(Half.conf).ns /\ disk.resolv.lines = Cut(Half.conf).overrides
    BY <1>2, OnDiskFields
  <2> QED
    BY <1>3, <1>5, <2>1 DEF Cut, TwoFiles
<1>7. StartsWith(todo[Main], "truncConf", ToRead(Op)) /\ ToRead(Op) \in Seq(Names)
  <2>1. /\ StartsWith(ToCutConf(Op), "truncConf", ToRead(Op))
        /\ StartsWith(ToRead(Op), "readBak", IF IsSet(Op) THEN ToFlushConf(Op) ELSE ToFlushResolv(Op))
    BY <1>2, ListFacts
  <2> QED
    BY <1>2, <2>1 DEF StartsWith
<1>8. todo' = [todo EXCEPT ![Main] = ToRead(Op)]
  BY <1>1, <1>7, Proceeds
<1>9. /\ spoilt' \in [Threads -> BOOLEAN]
      /\ buf' \in [Threads -> [ns : Servers, lines : Seq(Line)]]
      /\ handle' \in [Threads -> {"conf", "bak", "gone"}] /\ handle'[Main] = "gone"
  BY <1>1, <1>2, Spoils DEF CallTypes
<1>10. /\ CallTypes' /\ todo'[Main] = ToRead(Op) /\ Op' = Op /\ Old' = Old /\ Half' = Half
       /\ Lines' = Lines /\ Skipping' = Skipping /\ IsReady' = IsReady
  BY <1>1, <1>7, <1>8, <1>9, SameCall DEF CallTypes
<1>11. OnDisk' = Cut(<< >>)'
  BY <1>6, <1>10 DEF Cut
<1>12. Reading'
  BY <1>2, <1>5, <1>9, <1>10, <1>11 DEF Reading, Left, InBackup
<1> QED
  BY <1>5, <1>10, <1>12 DEF FilesInv, Places

LEMMA TruncateInv ==
  ASSUME OneThread, FilesInv, Truncate(Main)
  PROVE  FilesInv'
<1>1. PICK s \in {"truncResolv", "truncConf"} :
        /\ At(Main, s)
        /\ \/ /\ ~ Skipped(Main, s)
              /\ disk' = IF s = "truncResolv" THEN [disk EXCEPT !.resolv = Empty]
                         ELSE [disk EXCEPT !.conf = Empty]
              /\ Continue(Main) /\ Undisturbed(Main)
           \/ /\ Skipped(Main, s)
              /\ Continue(Main) /\ Undisturbed(Main) /\ UNCHANGED disk
           \/ Return(Main) /\ Refused(Main) /\ UNCHANGED disk
        /\ UNCHANGED <<flag, call, buf, handle, before>>
  BY DEF Truncate
<1>2. ~ Skipped(Main, "truncConf")
  BY DEF Skipped
<1>3. CASE Continue(Main) /\ s = "truncResolv" /\ Undisturbed(Main)
           /\ (IF Skipped(Main, s) THEN disk' = disk ELSE disk' = [disk EXCEPT !.resolv = Empty])
  BY <1>1, <1>3, TruncResolvInv
<1>4. CASE Continue(Main) /\ s = "truncConf" /\ Undisturbed(Main)
           /\ disk' = [disk EXCEPT !.conf = Empty]
  BY <1>1, <1>4, TruncConfInv
<1>5. CASE Return(Main) /\ Refused(Main) /\ UNCHANGED disk
  <2>1. CuttingResolv \/ CuttingConf
    BY <1>1, WhereIs
  <2>2. handle'[Main] = "gone" /\ handle' \in [Threads -> {"conf", "bak", "gone"}]
        /\ buf' \in [Threads -> [ns : Servers, lines : Seq(Line)]]
    BY <1>1, <2>1 DEF CuttingResolv, CuttingConf, Left, FilesInv, CallTypes
  <2>3. DiskTypes'
    BY <1>5, SameDisk DEF FilesInv
  <2> QED
    BY <1>1, <1>5, <2>2, <2>3, GivesUp DEF Return
<1> QED
  BY <1>1, <1>2, <1>3, <1>4, <1>5

\* What comes back from the backup is what was put there.
LEMMA ReadBakInv ==
  ASSUME OneThread, FilesInv, ReadBak(Main)
  PROVE  FilesInv'
<1>1. CallTypes /\ DiskTypes /\ Reading
  BY WhereIs DEF ReadBak, FilesInv
<1>2. /\ IsReady /\ todo[Main] = ToRead(Op) /\ handle[Main] = "gone"
      /\ OnDisk = Cut(IF IsSet(Op) THEN << >> ELSE Half.conf)
      /\ disk.bak = Holding(Old.ns, Lines) /\ Op \in Ops
  BY <1>1, CallFacts DEF Reading, Left, InBackup
<1>3. disk.bak.here /\ disk.bak.ns = Old.ns /\ disk.bak.lines = Lines
  BY <1>2 DEF Holding
<1>4. /\ buf' = [buf EXCEPT ![Main] = [ns |-> Old.ns, lines |-> Lines]]
      /\ Continue(Main) /\ Undisturbed(Main) /\ UNCHANGED <<disk, flag, call, handle, before>>
  BY <1>3 DEF ReadBak
<1>5. [ns |-> Old.ns, lines |-> Lines] \in [ns : Servers, lines : Seq(Line)]
  BY <1>1, CallFacts DEF Files, Servers
<1>6. buf' \in [Threads -> [ns : Servers, lines : Seq(Line)]]
      /\ buf'[Main] = [ns |-> Old.ns, lines |-> Lines]
  BY <1>1, <1>4, <1>5 DEF CallTypes, OneThread
<1>7. DEFINE rest == IF IsSet(Op) THEN ToFlushConf(Op) ELSE ToFlushResolv(Op)
<1>8. StartsWith(todo[Main], "readBak", rest) /\ rest \in Seq(Names)
  <2>1. /\ StartsWith(ToRead(Op), "readBak", rest)
        /\ StartsWith(ToFlushConf(Op), "flushConf", ToFlushResolv(Op))
        /\ StartsWith(ToFlushResolv(Op), "flushResolv", ToSave(Op))
    BY <1>2, ListFacts
  <2> QED
    BY <1>2, <2>1 DEF StartsWith
<1> HIDE DEF rest
<1>9. todo' = [todo EXCEPT ![Main] = rest]
  BY <1>1, <1>4, <1>8, Proceeds
<1>10. /\ DiskTypes' /\ OnDisk' = OnDisk
       /\ handle' \in [Threads -> {"conf", "bak", "gone"}]
       /\ spoilt' \in [Threads -> BOOLEAN]
  BY <1>1, <1>4, Undone
<1>11. /\ CallTypes' /\ todo'[Main] = rest /\ Op' = Op /\ Old' = Old /\ Half' = Half
       /\ Lines' = Lines /\ Skipping' = Skipping /\ IsReady' = IsReady
  BY <1>1, <1>4, <1>6, <1>8, <1>9, <1>10, SameCall DEF CallTypes
<1>12. CASE IsSet(Op)
  <2>1. Cut(<< >>)' = Cut(<< >>)
    BY <1>11 DEF Cut
  <2>2. FlushingConf'
    BY <1>2, <1>4, <1>6, <1>10, <1>11, <1>12, <2>1 DEF FlushingConf, Left, InMemory, rest
  <2> QED
    BY <1>10, <1>11, <2>2 DEF FilesInv, Places
<1>13. CASE ~ IsSet(Op)
  <2>1. Cut(Half.conf)' = Cut(Half.conf)
    BY <1>11 DEF Cut
  <2>2. FlushingResolv'
    BY <1>2, <1>4, <1>6, <1>10, <1>11, <1>13, <2>1 DEF FlushingResolv, Left, InMemory, rest
  <2> QED
    BY <1>10, <1>11, <2>2 DEF FilesInv, Places
<1> QED
  BY <1>12, <1>13

-----------------------------------------------------------------------------
(***************************************************************************)
(* Copying back.                                                           *)
(***************************************************************************)
LEMMA OverNothing ==
  ASSUME NEW lines \in Seq(Line)
  PROVE  Over(<< >>, lines) = lines
<1>1. Len(lines) \in Nat /\ Len(<< >>) = 0
  BY LenProperties
<1>2. SubSeq(<< >>, Len(lines) + 1, Len(<< >>)) = << >>
  BY <1>1
<1>3. lines \o << >> = lines
  BY ConcatEmptySeq
<1> QED
  BY <1>2, <1>3 DEF Over

LEMMA FlushConfInv ==
  ASSUME OneThread, FilesInv, FlushConf(Main)
  PROVE  FilesInv'
<1>1. CallTypes /\ DiskTypes /\ FlushingConf
  BY WhereIs DEF FlushConf, FilesInv
<1>2. /\ IsReady /\ IsSet(Op) /\ todo[Main] = ToFlushConf(Op) /\ handle[Main] = "gone"
      /\ OnDisk = Cut(<< >>) /\ buf[Main] = [ns |-> Old.ns, lines |-> Lines] /\ Op \in Ops
      /\ Lines \in Seq(Line)
  BY <1>1, CallFacts DEF FlushingConf, Left, InMemory
<1>3. Half.confExists = TRUE
  BY <1>1, <1>2, CallFacts DEF Files
<1>4. disk.conf.here = TRUE /\ disk.conf.lines = << >> /\ disk.conf.ns = Missing.ns
  BY <1>1, <1>2, <1>3, OnDiskFields DEF Cut, TwoFiles, DiskTypes
<1>5. disk' = [disk EXCEPT !.conf = Holding(Missing.ns, Lines)]
  <2>1. [disk.conf EXCEPT !.lines = Lines] = AFile(TRUE, Missing.ns, Lines)
    BY <1>1, <1>4, SetLines, DiskFiles
  <2>2. Over(disk.conf.lines, buf[Main].lines) = Lines
    BY <1>2, <1>4, OverNothing
  <2>3. disk' = [disk EXCEPT !.conf.lines = Lines]
    BY <1>4, <2>2 DEF FlushConf
  <2>4. disk' = [disk EXCEPT !.conf = [disk.conf EXCEPT !.lines = Lines]]
    BY <1>1, <2>3 DEF DiskTypes
  <2> QED
    BY <2>1, <2>4 DEF Holding, AFile
<1>6. Holding(Missing.ns, Lines) \in File
  BY <1>2, HoldingIsFile DEF Missing, Servers
<1>7. /\ DiskTypes'
      /\ OnDisk' = TwoFiles(TRUE, Lines, disk.resolv.here, disk.resolv.ns, disk.resolv.lines)
  BY <1>1, <1>5, <1>6, ChangeConf DEF Holding
<1>8. OnDisk' = Cut(Lines)
  <2>1. /\ disk.resolv.here = Cut(<< >>).resolvExists
        /\ disk.resolv.ns = Cut(<< >>).ns /\ disk.resolv.lines = Cut(<< >>).overrides
    BY <1>2, OnDiskFields
  <2> QED
    BY <1>3, <1>7, <2>1 DEF Cut, TwoFiles
<1>9. StartsWith(todo[Main], "flushConf", ToFlushResolv(Op)) /\ ToFlushResolv(Op) \in Seq(Names)
  <2>1. /\ StartsWith(ToFlushConf(Op), "flushConf", ToFlushResolv(Op))
        /\ StartsWith(ToFlushResolv(Op), "flushResolv", ToSave(Op))
    BY <1>2, ListFacts
  <2> QED
    BY <1>2, <2>1 DEF StartsWith
<1>10. todo' = [todo EXCEPT ![Main] = ToFlushResolv(Op)]
  BY <1>1, <1>9, Proceeds DEF FlushConf
<1>11. /\ spoilt' \in [Threads -> BOOLEAN]
       /\ buf' \in [Threads -> [ns : Servers, lines : Seq(Line)]] /\ buf' = buf
       /\ handle' \in [Threads -> {"conf", "bak", "gone"}] /\ handle'[Main] = "gone"
       /\ UNCHANGED <<flag, call, before>>
  BY <1>1, <1>2, Spoils DEF CallTypes, FlushConf
<1>12. /\ CallTypes' /\ todo'[Main] = ToFlushResolv(Op) /\ Op' = Op /\ Old' = Old
       /\ Half' = Half /\ Lines' = Lines /\ Skipping' = Skipping /\ IsReady' = IsReady
  BY <1>1, <1>9, <1>10, <1>11, SameCall DEF CallTypes
<1>13. OnDisk' = Cut(Lines)'
  BY <1>8, <1>12 DEF Cut
<1>14. FlushingResolv'
  BY <1>2, <1>11, <1>12, <1>13 DEF FlushingResolv, Left, InMemory
<1> QED
  BY <1>7, <1>12, <1>14 DEF FilesInv, Places

\* The last of the files: what the call is to leave is there.
LEMMA FlushResolvInv ==
  ASSUME OneThread, FilesInv, FlushResolv(Main)
  PROVE  FilesInv'
<1>1. CallTypes /\ DiskTypes /\ FlushingResolv
  BY WhereIs DEF FlushResolv, FilesInv
<1>2. /\ IsReady /\ todo[Main] = ToFlushResolv(Op) /\ handle[Main] = "gone"
      /\ OnDisk = Cut(IF IsSet(Op) THEN Lines ELSE Half.conf)
      /\ buf[Main] = [ns |-> Old.ns, lines |-> Lines] /\ Op \in Ops
      /\ Lines \in Seq(Line) /\ Lines \in Seq(ValidLines)
  BY <1>1, CallFacts DEF FlushingResolv, Left, InMemory
<1>3. Skipped(Main, "flushResolv") <=> Skipping
  BY <1>2 DEF Skipped, Skipping, Skips, IsSet, Lines
<1>4. New = TwoFiles(Half.confExists, IF IsSet(Op) THEN Lines ELSE Half.conf,
                     TRUE, Old.ns, IF Skipping THEN Old.overrides ELSE Lines)
  BY <1>1, <1>2, CallFacts
<1>5. /\ spoilt' \in [Threads -> BOOLEAN]
      /\ buf' \in [Threads -> [ns : Servers, lines : Seq(Line)]] /\ buf' = buf
      /\ handle' \in [Threads -> {"conf", "bak", "gone"}] /\ handle'[Main] = "gone"
      /\ UNCHANGED <<flag, call, before>>
  BY <1>1, <1>2, Spoils DEF CallTypes, FlushResolv
<1>6. StartsWith(todo[Main], "flushResolv", ToSave(Op)) /\ ToSave(Op) \in Seq(Names)
  BY <1>2, ListFacts
<1>7. ASSUME NEW q \in Seq(Names), todo' = [todo EXCEPT ![Main] = q]
      PROVE  CallTypes' /\ todo'[Main] = q /\ Op' = Op /\ Old' = Old /\ New' = New
  BY <1>1, <1>5, <1>7, SameCall DEF CallTypes
<1>8. ASSUME DiskTypes', OnDisk' = New, todo' = [todo EXCEPT ![Main] = << >>]
      PROVE  FilesInv'
  <2>1. CallTypes' /\ todo'[Main] = << >> /\ New' = New
    BY <1>7, <1>8, EmptySeq
  <2>2. /\ disk'.conf.lines = New.conf /\ disk'.resolv.lines = New.overrides
        /\ disk'.resolv.ns = Old.ns
    BY <1>1, <1>8, CallFacts DEF OnDisk
  <2>3. OldNewOrEmpty'
    BY <1>5, <2>1, <2>2 DEF OldNewOrEmpty, Old
  <2>4. Resting'
    BY <1>5, <1>8, <2>1, <2>3 DEF Resting, Left
  <2> QED
    BY <1>8, <2>1, <2>4 DEF FilesInv, Places
<1>9. CASE Skipping
  <2>1. disk' = disk /\ todo' = [todo EXCEPT ![Main] = << >>]
    BY <1>3, <1>9 DEF FlushResolv, Return
  <2>2. DiskTypes' /\ OnDisk' = OnDisk
    BY <1>1, <2>1, SameDisk
  <2>3. OnDisk' = New
    BY <1>2, <1>4, <1>9, <2>2 DEF Cut
  <2> QED
    BY <1>8, <2>1, <2>2, <2>3
<1>10. CASE ~ Skipping
  <2>1. disk.resolv.here = TRUE /\ disk.resolv.lines = << >>
    BY <1>2, <1>10, OnDiskFields DEF Cut, TwoFiles
  <2>2. disk' = [disk EXCEPT !.resolv = Holding(Old.ns, Lines)]
    <3> DEFINE r1 == [disk.resolv EXCEPT !.ns = Old.ns]
    <3>1. disk' = [disk EXCEPT !.resolv.ns = buf[Main].ns,
                              !.resolv.lines = Over(@, buf[Main].lines)]
      BY <1>3, <1>10 DEF FlushResolv
    <3>2. buf[Main].ns = Old.ns /\ buf[Main].lines = Lines
      BY <1>2
    <3>3. disk' = [disk EXCEPT !.resolv = [r1 EXCEPT !.lines = Over(r1.lines, Lines)]]
      BY <1>1, <3>1, <3>2 DEF DiskTypes
    <3>4. disk.resolv = AFile(TRUE, disk.resolv.ns, << >>)
      BY <1>1, <2>1, DiskFiles, FileTypes
    <3>5. r1 = AFile(TRUE, Old.ns, << >>)
      <4>1. \A h, n, l : disk.resolv = AFile(h, n, l) =>
              [disk.resolv EXCEPT !.ns = Old.ns] = AFile(h, Old.ns, l)
        BY FileFields
      <4> QED
        BY <3>4, <4>1, Zenon
    <3> HIDE DEF r1
    <3>6. r1.lines = << >> /\ [r1 EXCEPT !.lines = Lines] = AFile(TRUE, Old.ns, Lines)
      <4>1. \A h, n, l : r1 = AFile(h, n, l) =>
              r1.lines = l /\ [r1 EXCEPT !.lines = Lines] = AFile(h, n, Lines)
        BY FileFields
      <4> QED
        BY <3>5, <4>1, Zenon
    <3>7. Over(r1.lines, Lines) = Lines
      BY <1>2, <3>6, OverNothing
    <3> QED
      BY <3>3, <3>6, <3>7 DEF Holding, AFile
  <2>3. Holding(Old.ns, Lines) \in File
    BY <1>1, <1>2, CallFacts, HoldingIsFile DEF Files, Servers
  <2>4. /\ DiskTypes' /\ disk'.resolv = Holding(Old.ns, Lines)
        /\ OnDisk' = TwoFiles(disk.conf.here, disk.conf.lines, TRUE, Old.ns, Lines)
    BY <1>1, <1>2, <2>2, <2>3, ChangeResolv DEF Holding
  <2>5. OnDisk' = New
    <3>1. /\ disk.conf.here = Half.confExists
          /\ disk.conf.lines = IF IsSet(Op) THEN Lines ELSE Half.conf
      BY <1>2, OnDiskFields DEF Cut, TwoFiles
    <3> QED
      BY <1>4, <1>10, <2>4, <3>1
  <2>6. todo' = [todo EXCEPT ![Main] = ToSave(Op)]
    BY <1>1, <1>3, <1>6, <1>10, Proceeds DEF FlushResolv
  <2>7. CASE Op \in {"enable", "disable"}
    <3>1. /\ CallTypes' /\ todo'[Main] = ToSave(Op) /\ Op' = Op /\ New' = New
      BY <1>6, <1>7, <2>6
    <3>2. disk'.resolv.lines = Lines
      BY <2>4 DEF Holding
    <3>3. IF Op = "enable" THEN Keep(Lines, ValidDefaults) # << >> ELSE Lines = << >>
      <4>1. CASE Op = "enable"
        BY <1>10, <4>1 DEF Skipping, Skips, Lines, IsSet, Op
      <4>2. CASE Op = "disable"
        BY <4>2 DEF Lines, Copied, IsUnset, Op
      <4> QED
        BY <2>7, <4>1, <4>2
    <3>4. Saving'
      BY <1>5, <2>5, <2>7, <3>1, <3>2, <3>3 DEF Saving, Left
    <3> QED
      BY <2>4, <3>1, <3>4 DEF FilesInv, Places
  <2>8. CASE Op \notin {"enable", "disable"}
    <3>1. ToSave(Op) = << >>
      BY <1>2, <2>8, ListFacts
    <3> QED
      BY <1>8, <2>4, <2>5, <2>6, <3>1
  <2> QED
    BY <2>7, <2>8
<1> QED
  BY <1>9, <1>10

-----------------------------------------------------------------------------
(***************************************************************************)
(* The flag, new calls, crashes and the start.                             *)
(***************************************************************************)

\* What the two handlers that store the flag make of the files does not depend
\* on it.
LEMMA FlagFree ==
  ASSUME Op \in {"enable", "disable"}, UNCHANGED <<call, before>>
  PROVE  New' = New
<1>1. Op' = Op /\ Old' = Old
  BY DEF Op, Old
<1>2. CASE Op = "enable"
  <2>1. New = SetXdnsConfig(Created(Old)).fs
    BY <1>2 DEF New, Effect, Created, Op, Old
  <2>2. New' = SetXdnsConfig(Created(Old')).fs
    BY <1>1, <1>2 DEF New, Effect, Created, Op, Old
  <2> QED
    BY <1>1, <2>1, <2>2
<1>3. CASE Op = "disable"
  <2>1. New = UnsetXdnsConfig(Old)
    BY <1>3 DEF New, Effect, Op, Old
  <2>2. New' = UnsetXdnsConfig(Old')
    BY <1>1, <1>3 DEF New, Effect, Op, Old
  <2> QED
    BY <1>1, <2>1, <2>2
<1> QED
  BY <1>2, <1>3

LEMMA SaveFlagInv ==
  ASSUME OneThread, FilesInv, SaveFlag(Main)
  PROVE  FilesInv'
<1>1. PICK s \in {"saveOn", "saveOff"} :
        At(Main, s) /\ flag' = IF s = "saveOn" THEN "1" ELSE "0"
  BY DEF SaveFlag
<1>2. CallTypes /\ DiskTypes /\ Saving /\ OldNewOrEmpty
  BY <1>1, WhereIs, PlacesUnmixed DEF FilesInv
<1>3. /\ Continue(Main) /\ Undisturbed(Main) /\ UNCHANGED <<disk, call, buf, handle, before>>
  BY DEF SaveFlag
<1>4. flag' \in Flag
  BY <1>1 DEF Flag
<1>5. /\ Op \in {"enable", "disable"} /\ todo[Main] = ToSave(Op) /\ handle[Main] = "gone"
      /\ OnDisk = New /\ Op \in Ops
  BY <1>2, CallFacts DEF Saving, Left
<1>6. StartsWith(todo[Main], Head(todo[Main]), << >>)
  <2>1. /\ Op = "enable" => StartsWith(ToSave(Op), "saveOn", << >>)
        /\ Op = "disable" => StartsWith(ToSave(Op), "saveOff", << >>)
    BY <1>5, ListFacts
  <2> QED
    BY <1>5, <2>1 DEF StartsWith
<1>7. << >> \in Seq(Names)
  BY EmptySeq
<1>8. todo' = [todo EXCEPT ![Main] = << >>]
  BY <1>2, <1>3, <1>6, <1>7, Proceeds
<1>9. /\ spoilt' \in [Threads -> BOOLEAN]
      /\ buf' \in [Threads -> [ns : Servers, lines : Seq(Line)]]
      /\ handle' \in [Threads -> {"conf", "bak", "gone"}] /\ handle'[Main] = "gone"
  BY <1>2, <1>3, <1>5, Spoils DEF CallTypes
<1>10. CallTypes' /\ todo'[Main] = << >> /\ Old' = Old
  BY <1>2, <1>3, <1>4, <1>7, <1>8, <1>9, SameCall DEF CallTypes
<1>11. New' = New
  BY <1>3, <1>5, FlagFree
<1>12. DiskTypes' /\ OnDisk' = OnDisk
  BY <1>2, <1>3, SameDisk
<1>13. OldNewOrEmpty'
  BY <1>2, <1>3, <1>10, <1>11 DEF OldNewOrEmpty
<1>14. Resting'
  BY <1>5, <1>9, <1>10, <1>11, <1>12, <1>13 DEF Resting, Left
<1> QED
  BY <1>10, <1>12, <1>14 DEF FilesInv, Places

\* What is on disk makes a record of two files.
LEMMA FilesOf ==
  ASSUME NEW f \in File, NEW r \in File,
         NEW fs, fs = TwoFiles(f.here, f.lines, r.here, r.ns, r.lines)
  PROVE  fs \in Files /\ Blank(fs)
<1>1. /\ f.here \in BOOLEAN /\ f.lines \in Seq(Line)
      /\ r.here \in BOOLEAN /\ r.ns \in Servers /\ r.lines \in Seq(Line)
  BY FileTypes
<1>2. fs \in Files
  BY <1>1 DEF TwoFiles, Files, Servers
<1>3. (~ f.here => f = Missing) /\ (~ r.here => r = Missing) /\ Missing.lines = << >>
  BY FileTypes DEF Missing
<1>4. /\ fs.confExists = f.here /\ fs.conf = f.lines /\ fs.resolvExists = r.here
      /\ fs.ns = r.ns /\ fs.overrides = r.lines
  BY TwoFilesFields
<1>5. Blank(fs)
  BY <1>3, <1>4 DEF Blank
<1> QED
  BY <1>2, <1>5

LEMMA BeginCallInv ==
  ASSUME OneThread, FilesInv, NEW c \in Calls[Main], BeginCall(Main, c)
  PROVE  FilesInv'
<1>1. CallTypes /\ DiskTypes /\ Resting
  BY WhereIs DEF BeginCall, FilesInv
<1>2. /\ call' = [call EXCEPT ![Main] = c] /\ todo' = [todo EXCEPT ![Main] = Steps(c.op)]
      /\ before' = [before EXCEPT ![Main] = OnDisk]
      /\ spoilt' = [spoilt EXCEPT ![Main] = \E u \in Threads \ {Main} : ~ Idle(u)]
      /\ disk' = disk /\ flag' = flag /\ buf' = buf /\ handle' = handle
      /\ c.op = "replace" => c.mac # ""
  BY DEF BeginCall
<1>3. c \in Call /\ c.op \in Ops /\ CallOK(c)
  <2>1. Main \in Threads /\ Calls \in [Threads -> SUBSET Call]
    BY FilesAssumption
  <2>2. c \in Call
    BY <2>1
  <2> QED
    BY <1>2, <2>2 DEF CallOK, Call
<1>4. OnDisk \in Files /\ Blank(OnDisk)
  BY <1>1, DiskFiles
<1>5. /\ call' \in [Threads -> Call] /\ call'[Main] = c
      /\ before' \in [Threads -> Files] /\ before'[Main] = OnDisk
  BY <1>1, <1>2, <1>3, <1>4 DEF CallTypes, OneThread
<1>6. spoilt' \in [Threads -> BOOLEAN]
  BY <1>1, <1>2 DEF CallTypes, OneThread
<1>7. Op' = c.op /\ Old' = OnDisk
  BY <1>5 DEF Op, Old
<1>8. DiskTypes' /\ OnDisk' = OnDisk
  BY <1>1, <1>2, SameDisk
<1>9. /\ ToCreate(c.op) \in Seq(Names) /\ ToGather(c.op) \in Seq(Names)
      /\ ToReplace(c.op) \in Seq(Names)
  <2>1. /\ StartsWith(ToCreate(c.op), "create", ToGather(c.op))
        /\ StartsWith(ToGather(c.op), GatherName(c.op), ToFlushBak(c.op))
        /\ StartsWith(ToReplace(c.op), "gatherReplace", ToUnlink(c.op))
    BY <1>3, ListFacts
  <2> QED
    BY <2>1 DEF StartsWith
<1>10. Steps(c.op) = IF c.op \in {"start", "enable"} THEN ToCreate(c.op)
                     ELSE IF c.op = "replace" THEN ToReplace(c.op) ELSE ToGather(c.op)
  BY <1>3, FirstSteps DEF Ops
<1>11. todo' \in [Threads -> Seq(Names)] /\ todo'[Main] = Steps(c.op)
  BY <1>1, <1>2, <1>9, <1>10 DEF CallTypes, OneThread
<1>12. handle'[Main] = "gone"
  BY <1>1, <1>2 DEF Resting, Left
<1>13. CallTypes'
  BY <1>1, <1>2, <1>3, <1>4, <1>5, <1>6, <1>11 DEF CallTypes
<1>14. CASE c.op \in {"start", "enable"}
  <2>1. Creating'
    BY <1>7, <1>8, <1>10, <1>11, <1>12, <1>14 DEF Creating, Left
  <2> QED
    BY <1>8, <1>13, <2>1 DEF FilesInv, Places
<1>15. CASE c.op = "replace"
  <2>1. Replacing'
    BY <1>7, <1>8, <1>10, <1>11, <1>12, <1>15 DEF Replacing, Left
  <2> QED
    BY <1>8, <1>13, <2>1 DEF FilesInv, Places
<1>16. CASE c.op \notin {"start", "enable", "replace"}
  <2>1. Mid(c, OnDisk) = OnDisk
    BY <1>3, <1>4, <1>16, MidFacts
  <2>2. Half' = OnDisk'
    BY <1>5, <1>8, <2>1 DEF Half
  <2>3. Gathering'
    BY <1>7, <1>10, <1>11, <1>12, <1>16, <2>2 DEF Gathering, Left
  <2> QED
    BY <1>8, <1>13, <2>3 DEF FilesInv, Places
<1> QED
  BY <1>14, <1>15, <1>16

LEMMA StartCall ==
  /\ Start \in Call /\ CallOK(Start) /\ Start.op = "start"
  /\ ToCreate("start") \in Seq(Names) /\ << >> \in Seq(Names)
  /\ [ns |-> Missing.ns, lines |-> << >>] \in [ns : Servers, lines : Seq(Line)]
<1>1. Start \in Call /\ Start.op = "start"
  BY EmptySeq DEF Start, Call, Ops, Text
<1>2. CallOK(Start)
  BY <1>1 DEF CallOK
<1>3. ToCreate("start") \in Seq(Names)
  <2>1. "start" \in Ops
    BY DEF Ops
  <2>2. StartsWith(ToCreate("start"), "create", ToGather("start"))
    BY <2>1, ListFacts
  <2> QED
    BY <2>2 DEF StartsWith
<1>4. [ns |-> Missing.ns, lines |-> << >>] \in [ns : Servers, lines : Seq(Line)]
  BY EmptySeq DEF Missing, Servers
<1> QED
  BY <1>1, <1>2, <1>3, <1>4, EmptySeq

LEMMA CrashInv ==
  ASSUME OneThread, FilesInv, Crash
  PROVE  FilesInv'
<1>1. CallTypes /\ DiskTypes
  BY DEF FilesInv
<1>2. PICK r \in File : r.lines \in Seq(ValidLines) /\ disk' = [disk EXCEPT !.resolv = r]
  <2>1. CASE UNCHANGED disk
    <3>1. disk.resolv \in File /\ disk.resolv.lines \in Seq(ValidLines)
          /\ disk = [disk EXCEPT !.resolv = disk.resolv]
      BY <1>1, DiskFiles DEF DiskTypes
    <3> QED
      BY <2>1, <3>1
  <2>2. CASE \E b \in BootFiles : disk' = [disk EXCEPT !.resolv = b.resolv]
    <3>1. PICK b \in BootFiles : disk' = [disk EXCEPT !.resolv = b.resolv]
      BY <2>2
    <3>2. b.resolv \in File /\ b.resolv.lines = << >>
      BY FilesAssumption
    <3>3. << >> \in Seq(ValidLines)
      BY EmptySeq
    <3> QED
      BY <3>1, <3>2, <3>3
  <2> QED
    BY <2>1, <2>2 DEF Crash
<1>3. /\ DiskTypes'
      /\ OnDisk' = TwoFiles(disk.conf.here, disk.conf.lines, r.here, r.ns, r.lines)
  BY <1>1, <1>2, ChangeResolv
<1>4. OnDisk' \in Files /\ Blank(OnDisk')
  BY <1>1, <1>3, FilesOf, DiskFiles
<1>5. /\ todo' = Starting /\ call' = [t \in Threads |-> Start] /\ buf' = NothingRead
      /\ handle' = NoHandle /\ before' = [t \in Threads |-> OnDisk']
      /\ spoilt' = [t \in Threads |-> FALSE] /\ flag' = flag
  BY DEF Crash
<1>6. Steps("start") = ToCreate("start")
  BY FirstSteps
<1>7. /\ todo' \in [Threads -> Seq(Names)] /\ todo'[Main] = ToCreate("start")
      /\ handle' \in [Threads -> {"conf", "bak", "gone"}] /\ handle'[Main] = "gone"
      /\ buf' \in [Threads -> [ns : Servers, lines : Seq(Line)]]
      /\ spoilt' \in [Threads -> BOOLEAN]
      /\ call' \in [Threads -> Call] /\ call'[Main] = Start
      /\ before' \in [Threads -> Files] /\ before'[Main] = OnDisk'
  BY <1>4, <1>5, <1>6, StartCall DEF Starting, NothingRead, NoHandle, OneThread
<1>8. CallTypes'
  BY <1>1, <1>4, <1>5, <1>7, StartCall DEF CallTypes
<1>9. Creating'
  BY <1>7, StartCall DEF Creating, Left, Op, Old
<1> QED
  BY <1>3, <1>8, <1>9 DEF FilesInv, Places

LEMMA InitInv ==
  ASSUME OneThread, FilesInit
  PROVE  FilesInv
<1>1. PICK b \in BootFiles : disk = [conf |-> b.conf, bak |-> Missing, resolv |-> b.resolv]
  BY DEF FilesInit
<1>2. /\ b.conf \in File /\ b.conf.ns = Missing.ns
      /\ b.resolv \in File /\ b.resolv.lines = << >> /\ << >> \in Seq(ValidLines)
      /\ Missing \in File
  BY FilesAssumption, EmptySeq DEF File
<1>3. DiskTypes
  <2>1. /\ DOMAIN disk = {"conf", "bak", "resolv"} /\ disk = [x \in DOMAIN disk |-> disk[x]]
        /\ disk.conf = b.conf /\ disk.bak = Missing /\ disk.resolv = b.resolv
    BY <1>1
  <2>2. \A x \in {"conf", "bak", "resolv"} : disk[x] \in File
    BY <1>2, <2>1
  <2>3. disk \in [{"conf", "bak", "resolv"} -> File]
    BY <2>1, <2>2
  <2> QED
    BY <1>2, <2>1, <2>3 DEF DiskTypes
<1>4. OnDisk \in Files /\ Blank(OnDisk)
  BY <1>3, DiskFiles
<1>5. /\ todo = Starting /\ call = [t \in Threads |-> Start] /\ buf = NothingRead
      /\ handle = NoHandle /\ before = [t \in Threads |-> OnDisk]
      /\ spoilt = [t \in Threads |-> FALSE] /\ flag \in Flag
  BY DEF FilesInit
<1>6. Steps("start") = ToCreate("start")
  BY FirstSteps
<1>7. /\ todo \in [Threads -> Seq(Names)] /\ todo[Main] = ToCreate("start")
      /\ handle \in [Threads -> {"conf", "bak", "gone"}] /\ handle[Main] = "gone"
      /\ buf \in [Threads -> [ns : Servers, lines : Seq(Line)]]
      /\ spoilt \in [Threads -> BOOLEAN]
      /\ call \in [Threads -> Call] /\ call[Main] = Start
      /\ before \in [Threads -> Files] /\ before[Main] = OnDisk
  BY <1>4, <1>5, <1>6, StartCall DEF Starting, NothingRead, NoHandle, OneThread
<1>8. CallTypes
  BY <1>4, <1>5, <1>7, StartCall DEF CallTypes
<1>9. Creating
  BY <1>7, StartCall DEF Creating, Left, Op, Old
<1> QED
  BY <1>3, <1>8, <1>9 DEF FilesInv, Places

-----------------------------------------------------------------------------
(***************************************************************************)
(* The theorems.                                                           *)
(***************************************************************************)
LEMMA StepFilesInv ==
  ASSUME OneThread, FilesInv, [FilesNext]_fileVars
  PROVE  FilesInv'
<1>1. CASE UNCHANGED fileVars
  <2>1. UNCHANGED <<disk, flag, todo, call, buf, handle, before, spoilt>>
    BY <1>1 DEF fileVars
  <2>2. CallTypes' /\ DiskTypes'
    BY <2>1 DEF FilesInv, CallTypes, DiskTypes, CallOK, Blank
  <2>3. Op' = Op /\ Old' = Old /\ OnDisk' = OnDisk
    BY <2>1 DEF Op, Old, OnDisk
  <2>4. /\ New' = New /\ Half' = Half /\ Lines' = Lines /\ IsReady' = IsReady
        /\ Skipping' = Skipping
    BY <2>1 DEF New, Half, Lines, IsReady, Skipping, Effect, Ready
  <2>5. Gone(Old)' = Gone(Old)
    BY <2>3 DEF Gone
  <2>6. /\ Cut(Half.conf)' = Cut(Half.conf) /\ Cut(<< >>)' = Cut(<< >>)
        /\ Cut(Lines)' = Cut(Lines)
    BY <2>3, <2>4 DEF Cut
  <2>7. (Resting => Resting') /\ (Saving => Saving') /\ (Creating => Creating')
    BY <2>1, <2>3, <2>4 DEF Resting, Saving, Creating, Left, OldNewOrEmpty
  <2>8. (OpeningToAppend => OpeningToAppend') /\ (FlushingAppend => FlushingAppend')
    BY <2>1, <2>3, <2>4 DEF OpeningToAppend, FlushingAppend, Appending, Appends, Left
  <2>9. (Gathering => Gathering') /\ (FlushingBak => FlushingBak')
        /\ (CuttingResolv => CuttingResolv')
    BY <2>1, <2>3, <2>4, <2>5 DEF Gathering, FlushingBak, CuttingResolv, Appends, Left,
                                  InMemory, InBackup
  <2>10. (CuttingConf => CuttingConf') /\ (Reading => Reading')
    BY <2>1, <2>3, <2>4, <2>6 DEF CuttingConf, Reading, Left, InBackup
  <2>11. (FlushingConf => FlushingConf') /\ (FlushingResolv => FlushingResolv')
    BY <2>1, <2>3, <2>4, <2>6 DEF FlushingConf, FlushingResolv, Left, InMemory
  <2>12. (Replacing => Replacing') /\ (Unlinking => Unlinking')
         /\ (FillingBak => FillingBak') /\ (Renaming => Renaming')
    BY <2>1, <2>3, <2>4, <2>5 DEF Replacing, Unlinking, FillingBak, Renaming, Left,
                                  InMemory, InBackup
  <2> QED
    BY <2>2, <2>7, <2>8, <2>9, <2>10, <2>11, <2>12 DEF FilesInv, Places
<1>2. CASE Operation(Main)
  BY <1>2, CreateInv, OpenAppendInv, FlushAppendInv, GatherInv, NothingToGatherInv,
     FlushBakInv, UnlinkConfInv, RenameInv, TruncateInv, ReadBakInv, FlushConfInv,
     FlushResolvInv, SaveFlagInv DEF Operation
<1>3. CASE \E c \in Calls[Main] : BeginCall(Main, c)
  BY <1>3, BeginCallInv
<1>4. CASE Crash
  BY <1>4, CrashInv
<1> QED
  BY <1>1, <1>2, <1>3, <1>4 DEF FilesNext, OneThread

LEMMA FilesInvariant ==
  ASSUME OneThread
  PROVE  FilesSpec => []FilesInv
<1>1. FilesInit => FilesInv
  BY InitInv
<1>2. FilesInv /\ [FilesNext]_fileVars => FilesInv'
  BY StepFilesInv
<1> QED
  BY <1>1, <1>2, PTL DEF FilesSpec

\* The types of the three files and of a call of the only thread, and that a
\* backup is written to during a call only.
THEOREM FilesTypeCorrect ==
  ASSUME Threads = {Main}
  PROVE  FilesSpec => []FilesTypeOK
<1>1. OneThread
  BY DEF OneThread
<1>2. FilesInv => FilesTypeOK
  <2> SUFFICES ASSUME FilesInv PROVE FilesTypeOK
    OBVIOUS
  <2>1. ASSUME handle[Main] # "gone"
        PROVE  ~ Idle(Main)
    BY <2>1, WhereIs DEF Resting, Left
  <2> QED
    BY <1>1, <2>1 DEF FilesTypeOK, OneThread, FilesInv, CallTypes, DiskTypes
<1> QED
  BY <1>1, <1>2, FilesInvariant, PTL

\* With one thread: at every instant, also where the process dies, each of the
\* two files is old, as the call is to leave it, or empty.
THEOREM FilesNeverMixed ==
  ASSUME Threads = {Main}
  PROVE  FilesSpec => []NoMixture
<1>1. OneThread
  BY DEF OneThread
<1>2. FilesInv => NoMixture
  BY <1>1, PlacesUnmixed
     DEF NoMixture, OldNewOrEmpty, Old, New, OneThread, FilesInv, DiskTypes
<1> QED
  BY <1>1, <1>2, FilesInvariant, PTL

\* With one thread: dnsmasq is never given a line whose addresses inet_pton
\* refuses, whatever policy is stored and wherever the process dies.
THEOREM OnlyValidLinesCopied ==
  ASSUME Threads = {Main}
  PROVE  FilesSpec => []OnlyValidLines
<1>1. OneThread
  BY DEF OneThread
<1>2. FilesInv => OnlyValidLines
  BY DEF OnlyValidLines, FilesInv, DiskTypes
<1> QED
  BY <1>1, <1>2, FilesInvariant, PTL

\* Between its steps a call that nothing has spoilt has left what it is to.
AtRest == Idle(Main) /\ ~ spoilt[Main] => OnDisk = New

LEMMA OperationKeepsCall ==
  ASSUME Operation(Main)
  PROVE  UNCHANGED <<call, before>> /\ (flag' = flag \/ SaveFlag(Main))
BY DEF Operation, CreateSteps, OpenAppend, FlushAppend, Gather, NothingToGather, FlushBak,
       UnlinkConf, Rename, Truncate, ReadBak, FlushConf, FlushResolv, SaveFlag

\* With one thread: a call that nothing refuses leaves exactly the files that
\* XdnsLines says, one file operation at a time.
THEOREM WholeCallIsOneStep ==
  ASSUME Threads = {Main}
  PROVE  FilesSpec => WholeCall
<1>1. OneThread
  BY DEF OneThread
<1>2. FilesInv => AtRest
  BY WhereIs DEF AtRest, Resting
<1>3. ASSUME FilesInv, AtRest', FilesNext, NEW t \in Threads,
             ~ Idle(t), todo'[t] = << >>, ~ spoilt'[t]
      PROVE  OnDisk' = Effect(call[t], before[t])
  <2>1. t = Main
    BY <1>1 DEF OneThread
  <2>2. OnDisk' = New'
    BY <1>3, <2>1 DEF AtRest, Idle
  <2>3. ~ Crash
    <3>1. Steps("start") # << >>
      <4>1. StartsWith(ToCreate("start"), "create", ToGather("start"))
        BY ListFacts DEF Ops
      <4> QED
        BY <4>1, FirstSteps DEF StartsWith
    <3> QED
      BY <1>3, <2>1, <3>1 DEF Crash, Starting
  <2>4. Operation(Main)
    BY <1>1, <1>3, <2>1, <2>3 DEF FilesNext, BeginCall, OneThread
  <2>5. New' = New
    <3>1. CASE flag' = flag
      BY <2>4, <3>1, OperationKeepsCall DEF New, Effect
    <3>2. CASE SaveFlag(Main)
      <4>1. Op \in {"enable", "disable"}
        BY <1>3, <3>2, WhereIs DEF SaveFlag, Saving
      <4> QED
        BY <2>4, <4>1, OperationKeepsCall, FlagFree
    <3> QED
      BY <2>4, <3>1, <3>2, OperationKeepsCall
  <2> QED
    BY <2>1, <2>2, <2>5 DEF New
<1>4. FilesInv /\ AtRest' /\ [FilesNext]_fileVars =>
        [\A t \in Threads : ~ Idle(t) /\ todo'[t] = << >> /\ ~ spoilt'[t]
                              => OnDisk' = Effect(call[t], before[t])]_fileVars
  BY <1>3
<1> QED
  BY <1>1, <1>2, <1>4, FilesInvariant, PTL DEF FilesSpec, WholeCall

\* With one thread: the flag is stored after the files have been switched, on
\* with a valid default line, off with no line left.
THEOREM FlagStoredLast ==
  ASSUME Threads = {Main}
  PROVE  FilesSpec => FlagAfterFiles
<1>1. OneThread
  BY DEF OneThread
<1>2. ASSUME FilesInv, FilesNext, flag' # flag
      PROVE  IF flag' = "1" THEN Keep(disk.resolv.lines, ValidDefaults) # << >>
             ELSE disk.resolv.lines = << >>
  <2>1. SaveFlag(Main)
    BY <1>1, <1>2, OperationKeepsCall DEF FilesNext, BeginCall, Crash, OneThread
  <2>2. PICK s \in {"saveOn", "saveOff"} :
          At(Main, s) /\ flag' = IF s = "saveOn" THEN "1" ELSE "0"
    BY <2>1 DEF SaveFlag
  <2>3. Saving /\ (s = "saveOn" => Op = "enable") /\ (s = "saveOff" => Op = "disable")
    BY <1>2, <2>2, WhereIs
  <2> QED
    BY <2>2, <2>3 DEF Saving
<1>3. FilesInv /\ [FilesNext]_fileVars =>
        [flag' # flag => IF flag' = "1" THEN Keep(disk.resolv.lines, ValidDefaults) # << >>
                         ELSE disk.resolv.lines = << >>]_fileVars
  BY <1>2
<1> QED
  BY <1>1, <1>3, FilesInvariant, PTL DEF FilesSpec, FlagAfterFiles

=============================================================================
