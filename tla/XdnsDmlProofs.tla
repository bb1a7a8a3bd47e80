--------------------------- MODULE XdnsDmlProofs ---------------------------
(***************************************************************************)
(* Theorems about XdnsDml for every set of words, inputs, boot states and  *)
(* bounds: its types, and what dnsmasq is given.  The override lines of    *)
(* resolv.conf are valid whatever happens, and they are those of the       *)
(* stored policy as long as syscfg_set does not fail.                      *)
(***************************************************************************)
EXTENDS XdnsDml, XdnsLinesProofs

Defaults == [DefaultFields -> Text]

-----------------------------------------------------------------------------
(***************************************************************************)
(* Start-up.                                                               *)
(***************************************************************************)

LEMMA AddressesAreText ==
  V4 \subseteq Text /\ V6 \subseteq Text /\ "" \in Text /\ "empty" \in Text /\ DefaultMac \in Text
BY WordsAssumption DEF Text

LEMMA CreateType ==
  ASSUME NEW fs \in Files, NEW flg, NEW d \in Defaults
  PROVE  /\ CreateDnsmasqServerConf(fs, flg, d).fs \in Files
         /\ CreateDnsmasqServerConf(fs, flg, d).dflt \in Defaults
<1> DEFINE new == [d EXCEPT !["v4"]  = IF @ \in V4 THEN @ ELSE fs.ns.v4,
                            !["v6"]  = IF @ \in V6 THEN @ ELSE fs.ns.v6,
                            !["s4"]  = "",
                            !["s6"]  = "",
                            !["tag"] = IF @ = "" THEN "empty" ELSE @]
           lines == Entry(DefaultMac, new["v4"], new["v6"], new["tag"])
<1>1. fs.ns.v4 \in Text /\ fs.ns.v6 \in Text
  BY AddressesAreText DEF Files
<1>2. new \in Defaults
  BY <1>1, AddressesAreText DEF Defaults, DefaultFields
<1>3. lines \in Seq(Line)
  <2>1. new["v4"] \in Text /\ new["v6"] \in Text /\ new["tag"] \in Text
    <3> HIDE DEF new
    <3> QED
      BY <1>2 DEF Defaults, DefaultFields
  <2> HIDE DEF new
  <2> QED
    BY <2>1, EntryType, AddressesAreText
<1>4. RefreshResolvConfEntry(AppendDnsmasqConfEntry(fs, lines), flg) \in Files
  <2> HIDE DEF lines
  <2> QED
    BY <1>3, AppendType, RefreshType
<1> DEFINE made == RefreshResolvConfEntry(AppendDnsmasqConfEntry(fs, lines), flg)
<1>5. CreateDnsmasqServerConf(fs, flg, d) =
        IF ~ fs.resolvExists THEN [fs |-> fs, dflt |-> d]
        ELSE IF new["v4"] = "" \/ new["v6"] = "" THEN [fs |-> fs, dflt |-> new]
        ELSE [fs |-> made, dflt |-> new]
  BY Zenon DEF CreateDnsmasqServerConf
<1> HIDE DEF new, lines, made
<1>6. made \in Files
  BY <1>4 DEF made
<1> DEFINE res == CreateDnsmasqServerConf(fs, flg, d)
<1>7. CASE ~ fs.resolvExists
  <2>1. res = [fs |-> fs, dflt |-> d]
    BY <1>5, <1>7
  <2> QED
    BY <2>1
<1>8. CASE fs.resolvExists /\ (new["v4"] = "" \/ new["v6"] = "")
  <2>1. res = [fs |-> fs, dflt |-> new]
    BY <1>5, <1>8, Zenon
  <2> QED
    BY <1>2, <2>1
<1>9. CASE fs.resolvExists /\ ~ (new["v4"] = "" \/ new["v6"] = "")
  <2>1. res = [fs |-> made, dflt |-> new]
    BY <1>5, <1>9, Zenon
  <2> QED
    BY <1>2, <1>6, <2>1
<1> QED
  BY <1>7, <1>8, <1>9

LEMMA DefaultsInType ==
  ASSUME NEW conf \in Seq(Line), NEW d \in Defaults
  PROVE  DefaultsIn(conf, d) \in Defaults
<1> DEFINE four == Keep(Keep(conf, Mentioning(DefaultMac)), WithWord(3, Dotted))
           six  == Keep(four, WithWord(4, Coloned))
           tags == Keep(six, WithWord(5, Token))
<1>1. four \in Seq(Line) /\ six \in Seq(Line) /\ tags \in Seq(Line)
  BY KeepSub
<1>2. ASSUME NEW s \in Seq(Line), s # << >>, NEW i \in Nat \ {0}
      PROVE  Word(s[1], i) \in Text /\ Word(s[Len(s)], i) \in Text
  <2>1. Len(s) \in Nat \ {0}
    BY <1>2, EmptySeq
  <2>2. s[1] \in Line /\ s[Len(s)] \in Line
    BY <2>1, ElementOfSeq
  <2> QED
    BY <2>2, WordType
<1>3. ASSUME NEW s \in Seq(Line), Len(s) > 1
      PROVE  s # << >>
  BY <1>3, EmptySeq
<1>4. DefaultsIn(conf, d) =
        [f \in DefaultFields |->
          CASE f = "v4" /\ four # << >> -> Word(four[1], 3)
            [] f = "s4" /\ Len(four) > 1 -> Word(four[Len(four)], 3)
            [] f = "v6" /\ six # << >> -> Word(six[1], 4)
            [] f = "s6" /\ Len(six) > 1 -> Word(six[Len(six)], 4)
            [] f = "tag" /\ tags # << >> -> Word(tags[Len(tags)], 5)
            [] OTHER -> d[f]]
  BY Zenon DEF DefaultsIn
<1> HIDE DEF four, six, tags
<1>5. /\ four # << >> => Word(four[1], 3) \in Text
      /\ Len(four) > 1 => Word(four[Len(four)], 3) \in Text
      /\ six # << >> => Word(six[1], 4) \in Text
      /\ Len(six) > 1 => Word(six[Len(six)], 4) \in Text
      /\ tags # << >> => Word(tags[Len(tags)], 5) \in Text
  BY <1>1, <1>2, <1>3
<1>6. \A f \in DefaultFields : d[f] \in Text
  BY DEF Defaults
<1>7. ASSUME NEW f \in DefaultFields
      PROVE  (CASE f = "v4" /\ four # << >> -> Word(four[1], 3)
                [] f = "s4" /\ Len(four) > 1 -> Word(four[Len(four)], 3)
                [] f = "v6" /\ six # << >> -> Word(six[1], 4)
                [] f = "s6" /\ Len(six) > 1 -> Word(six[Len(six)], 4)
                [] f = "tag" /\ tags # << >> -> Word(tags[Len(tags)], 5)
                [] OTHER -> d[f]) \in Text
  BY <1>5, <1>6 DEF DefaultFields
<1> QED
  BY <1>4, <1>7 DEF Defaults

-----------------------------------------------------------------------------
(***************************************************************************)
(* What sscanf makes of a line.                                            *)
(***************************************************************************)

\* The recursive function of ScannedUpTo exists.
LEMMA ScannedUpToDef ==
  ASSUME NEW l, Len(l) \in Nat
  PROVE  \A i \in 0..Len(l) :
           ScannedUpTo(l)[i] = IF i = 0 THEN << >> ELSE ScannedUpTo(l)[i-1] \o Pieces[l[i]]
<1> DEFINE Body(f, n) ==
      [i \in 0..n |-> IF i = 0 THEN << >> ELSE f[i-1] \o Pieces[l[i]]]
           T == {n \in Nat : \E f : f = Body(f, n)}
<1>1. 0 \in T
  <2> DEFINE f == [i \in 0..0 |-> << >>]
  <2>1. f = Body(f, 0)
    OBVIOUS
  <2> QED
    BY <2>1
<1>2. ASSUME NEW n \in Nat, n \in T PROVE n + 1 \in T
  <2>1. PICK f : f = Body(f, n)
    BY <1>2
  <2> DEFINE last == f[n] \o Pieces[l[n+1]]
             g == [i \in 0..n+1 |-> IF i = n + 1 THEN last ELSE f[i]]
  <2>2. ASSUME NEW i \in 0..n+1 PROVE g[i] = Body(g, n+1)[i]
    <3>1. CASE i = n + 1
      <4>1. g[n] = f[n]
        OBVIOUS
      <4> HIDE DEF g
      <4>2. n + 1 \in 0..n+1 /\ n + 1 # 0 /\ (n + 1) - 1 = n
        OBVIOUS
      <4>3. Body(g, n+1)[n+1]
              = IF n + 1 = 0 THEN << >> ELSE g[(n+1)-1] \o Pieces[l[n+1]]
        BY <4>2, Zenon
      <4>4. Body(g, n+1)[n+1] = g[n] \o Pieces[l[n+1]]
        BY <4>2, <4>3, Zenon
      <4>5. g[n+1] = last
        BY DEF g
      <4> QED
        BY <3>1, <4>1, <4>4, <4>5
    <3>2. CASE i \in 0..n
      <4>1. g[i] = f[i]
        BY <3>2
      <4>2. f[i] = Body(f, n)[i]
        BY <2>1
      <4>3. i # 0 => g[i-1] = f[i-1]
        BY <3>2
      <4> QED
        BY <3>2, <4>1, <4>2, <4>3
    <3> QED
      BY <3>1, <3>2
  <2>3. g = Body(g, n+1)
    BY <2>2
  <2>4. \E h : h = Body(h, n+1)
    <3> HIDE DEF g
    <3> QED
      BY <2>3
  <2> QED
    BY <2>4
<1>3. Len(l) \in T
  <2> HIDE DEF T
  <2> QED
    BY <1>1, <1>2, Induction
<1>4. \E f : f = Body(f, Len(l))
  BY <1>3
<1>5. ScannedUpTo(l) = Body(ScannedUpTo(l), Len(l))
  BY <1>4 DEF ScannedUpTo
<1> QED
  BY <1>5

\* The same, one word at a time.
LEMMA ScannedStep ==
  ASSUME NEW l \in Line
  PROVE  /\ Len(l) \in Nat
         /\ ScannedUpTo(l)[0] = << >>
         /\ \A n \in 0..Len(l)-1 :
              /\ l[n+1] \in Token /\ Pieces[l[n+1]] \in Seq(Token)
              /\ ScannedUpTo(l)[n+1] = ScannedUpTo(l)[n] \o Pieces[l[n+1]]
<1>1. Len(l) \in Nat
  BY LenProperties DEF Line
<1>2. \A i \in 0..Len(l) :
        ScannedUpTo(l)[i] = IF i = 0 THEN << >> ELSE ScannedUpTo(l)[i-1] \o Pieces[l[i]]
  BY <1>1, ScannedUpToDef
<1>3. ScannedUpTo(l)[0] = << >>
  <2>1. 0 \in 0..Len(l)
    BY <1>1
  <2>2. ScannedUpTo(l)[0] = IF 0 = 0 THEN << >> ELSE ScannedUpTo(l)[0-1] \o Pieces[l[0]]
    BY <1>2, <2>1, Zenon
  <2> QED
    BY <2>2
<1>4. ASSUME NEW n \in 0..Len(l)-1
      PROVE  /\ l[n+1] \in Token /\ Pieces[l[n+1]] \in Seq(Token)
             /\ ScannedUpTo(l)[n+1] = ScannedUpTo(l)[n] \o Pieces[l[n+1]]
  <2>1. n + 1 \in 0..Len(l) /\ n + 1 # 0 /\ (n + 1) - 1 = n /\ n + 1 \in 1..Len(l)
    BY <1>1
  <2>2. ScannedUpTo(l)[n+1] =
          IF n + 1 = 0 THEN << >> ELSE ScannedUpTo(l)[(n+1)-1] \o Pieces[l[n+1]]
    BY <1>2, <2>1, Zenon
  <2>3. ScannedUpTo(l)[n+1] = ScannedUpTo(l)[n] \o Pieces[l[n+1]]
    BY <2>1, <2>2, Zenon
  <2>4. l[n+1] \in Token
    BY <2>1, ElementOfSeq DEF Line
  <2> QED
    BY <2>3, <2>4, DmlAssumption
<1> QED
  BY <1>1, <1>3, <1>4

LEMMA ScannedType ==
  ASSUME NEW l \in Line
  PROVE  Scanned(l) \in Line
<1> DEFINE T == {n \in Nat : n <= Len(l) => ScannedUpTo(l)[n] \in Seq(Token)}
<1>1. 0 \in T
  <2>1. ScannedUpTo(l)[0] = << >>
    BY ScannedStep
  <2> QED
    BY <2>1, EmptySeq
<1>2. ASSUME NEW n \in Nat, n \in T PROVE n + 1 \in T
  <2> SUFFICES ASSUME n + 1 <= Len(l) PROVE ScannedUpTo(l)[n+1] \in Seq(Token)
    OBVIOUS
  <2>1. Len(l) \in Nat
    BY ScannedStep
  <2>2. n \in 0..Len(l)-1 /\ ScannedUpTo(l)[n] \in Seq(Token)
    BY <1>2, <2>1
  <2>3. /\ Pieces[l[n+1]] \in Seq(Token)
        /\ ScannedUpTo(l)[n+1] = ScannedUpTo(l)[n] \o Pieces[l[n+1]]
    BY <2>2, ScannedStep
  <2> QED
    BY <2>2, <2>3, ConcatProperties
<1>3. Len(l) \in T
  <2> HIDE DEF T
  <2>1. Len(l) \in Nat
    BY ScannedStep
  <2> QED
    BY <1>1, <1>2, <2>1, Induction
<1>4. Len(l) \in Nat
  BY ScannedStep
<1> QED
  BY <1>3, <1>4 DEF Scanned, Line

\* One more word.
LEMMA OneMore ==
  ASSUME NEW p \in Seq(Token), NEW w \in Token
  PROVE  /\ p \o <<w>> \in Seq(Token) /\ Len(p \o <<w>>) = Len(p) + 1 /\ Len(p) \in Nat
         /\ \A i \in 1..Len(p)+1 : (p \o <<w>>)[i] = IF i <= Len(p) THEN p[i] ELSE w
<1> DEFINE one == <<w>>
<1>1. one \in Seq(Token) /\ Len(one) = 1 /\ one[1] = w
  OBVIOUS
<1>2. Len(p) \in Nat
  BY LenProperties
<1> HIDE DEF one
<1>3. /\ p \o one \in Seq(Token) /\ Len(p \o one) = Len(p) + Len(one)
      /\ \A i \in 1..Len(p) + Len(one) :
           (p \o one)[i] = IF i <= Len(p) THEN p[i] ELSE one[i - Len(p)]
  BY <1>1, ConcatProperties
<1>4. ASSUME NEW i \in 1..Len(p)+1 PROVE (p \o one)[i] = IF i <= Len(p) THEN p[i] ELSE w
  <2>1. i \in 1..Len(p) + Len(one) /\ (~ (i <= Len(p)) => i - Len(p) = 1)
    BY <1>1, <1>2
  <2> QED
    BY <1>1, <1>3, <2>1
<1> QED
  BY <1>1, <1>2, <1>3, <1>4 DEF one

\* A line without a word that is too wide is read as it is.
LEMMA ScannedWhole ==
  ASSUME NEW l \in Line, \A i \in DOMAIN l : Width[l[i]] < 64
  PROVE  Scanned(l) = l
<1> DEFINE IsPrefix(p, n) == p \in Line /\ Len(p) = n /\ \A i \in 1..n : p[i] = l[i]
           T == {n \in Nat : n <= Len(l) => IsPrefix(ScannedUpTo(l)[n], n)}
<1>1. Len(l) \in Nat /\ DOMAIN l = 1..Len(l)
  BY ScannedStep, LenProperties DEF Line
<1>2. 0 \in T
  <2>1. ScannedUpTo(l)[0] = << >>
    BY ScannedStep
  <2>2. << >> \in Line /\ Len(<< >>) = 0
    BY EmptySeq DEF Line
  <2>3. IsPrefix(ScannedUpTo(l)[0], 0)
    BY <2>1, <2>2
  <2> QED
    BY <2>3
<1>3. ASSUME NEW n \in Nat, n \in T PROVE n + 1 \in T
  <2> SUFFICES ASSUME n + 1 <= Len(l) PROVE IsPrefix(ScannedUpTo(l)[n+1], n + 1)
    OBVIOUS
  <2> DEFINE p == ScannedUpTo(l)[n]
             w == l[n+1]
             q == p \o <<w>>
  <2>1. n \in 0..Len(l)-1 /\ IsPrefix(p, n)
    BY <1>1, <1>3
  <2>2. w \in Token /\ ScannedUpTo(l)[n+1] = p \o Pieces[w]
    BY <2>1, ScannedStep
  <2>3. Width[w] < 64
    BY <1>1
  <2>4. Pieces[w] = <<w>>
    BY <2>2, <2>3, DmlAssumption
  <2> HIDE DEF p, w
  <2>5. p \in Seq(Token) /\ Len(p) = n /\ \A i \in 1..n : p[i] = l[i]
    BY <2>1 DEF Line
  <2>6. /\ q \in Seq(Token) /\ Len(q) = n + 1
        /\ \A i \in 1..n+1 : q[i] = IF i <= n THEN p[i] ELSE w
    BY <2>2, <2>5, OneMore
  <2>7. ScannedUpTo(l)[n+1] = q
    BY <2>2, <2>4
  <2> HIDE DEF q
  <2>8. ASSUME NEW i \in 1..n+1 PROVE q[i] = l[i]
    <3>1. CASE i <= n
      BY <2>5, <2>6, <3>1
    <3>2. CASE i = n + 1
      BY <2>6, <3>2 DEF w
    <3> QED
      BY <3>1, <3>2
  <2> QED
    BY <2>6, <2>7, <2>8 DEF Line
<1>4. Len(l) \in T
  <2> HIDE DEF T
  <2> QED
    BY <1>1, <1>2, <1>3, Induction
<1>5. IsPrefix(Scanned(l), Len(l))
  BY <1>1, <1>4 DEF Scanned
<1> QED
  BY <1>1, <1>5, SeqEqual DEF Line

\* The first two words are read as they are if neither is too wide, and what
\* is read behind them is in C with the words there.
LEMMA ScannedFront ==
  ASSUME NEW l \in Line, Len(l) >= 2, Width[l[1]] < 64, Width[l[2]] < 64,
         NEW C, \A i \in DOMAIN l : i # 2 => l[i] \in C,
         \A w \in Token \cap C : \A i \in DOMAIN Pieces[w] : Pieces[w][i] \in C
  PROVE  /\ Len(Scanned(l)) \in Nat /\ Len(Scanned(l)) >= 2
         /\ Scanned(l)[1] = l[1] /\ Scanned(l)[2] = l[2]
         /\ \A i \in 3..Len(Scanned(l)) : Scanned(l)[i] \in C
<1> DEFINE Good(p) == /\ p \in Line /\ Len(p) \in Nat /\ Len(p) >= 2
                      /\ p[1] = l[1] /\ p[2] = l[2]
                      /\ \A i \in 3..Len(p) : p[i] \in C
           T == {n \in Nat : n + 2 <= Len(l) => Good(ScannedUpTo(l)[n+2])}
<1>1. Len(l) \in Nat /\ DOMAIN l = 1..Len(l)
  BY ScannedStep, LenProperties DEF Line
<1>2. 0 \in T
  <2> DEFINE a == l[1]
             b == l[2]
             one == <<a>>
             two == <<b>>
  <2>1. 0 \in 0..Len(l)-1 /\ 1 \in 0..Len(l)-1
    BY <1>1
  <2>2. /\ ScannedUpTo(l)[0] = << >>
        /\ l[0+1] \in Token /\ ScannedUpTo(l)[0+1] = ScannedUpTo(l)[0] \o Pieces[l[0+1]]
        /\ l[1+1] \in Token /\ ScannedUpTo(l)[1+1] = ScannedUpTo(l)[1] \o Pieces[l[1+1]]
    BY <2>1, ScannedStep
  <2>3. /\ a \in Token /\ b \in Token
        /\ ScannedUpTo(l)[1] = << >> \o Pieces[a]
        /\ ScannedUpTo(l)[2] = ScannedUpTo(l)[1] \o Pieces[b]
    <3>1. 0 + 1 = 1 /\ 1 + 1 = 2
      OBVIOUS
    <3> QED
      BY <2>2, <3>1, Zenon
  <2>4. Pieces[a] = one /\ Pieces[b] = two
    BY <2>3, DmlAssumption
  <2>5. one \in Seq(Token) /\ << >> \o one = one
    BY <2>3
  <2>6. ScannedUpTo(l)[2] = one \o two
    BY <2>3, <2>4, <2>5
  <2>7. one \in Seq(Token) /\ Len(one) = 1 /\ one[1] = a
    BY <2>3
  <2> HIDE DEF a, b, one
  <2>8. /\ one \o two \in Seq(Token) /\ Len(one \o two) = 2
        /\ \A i \in 1..2 : (one \o two)[i] = IF i <= 1 THEN one[i] ELSE b
    <3>1. one \in Seq(Token) /\ b \in Token
      BY <2>3, <2>7
    <3>2. /\ one \o two \in Seq(Token) /\ Len(one \o two) = Len(one) + 1
          /\ \A i \in 1..Len(one)+1 : (one \o two)[i] = IF i <= Len(one) THEN one[i] ELSE b
      BY <3>1, OneMore
    <3> HIDE DEF two
    <3> QED
      BY <2>7, <3>2
  <2> DEFINE p == one \o two
  <2>9. p \in Line /\ Len(p) = 2 /\ p[1] = a /\ p[2] = b
    BY <2>7, <2>8 DEF Line
  <2> HIDE DEF p
  <2>10. Good(p)
    BY <2>9 DEF a, b
  <2>11. ScannedUpTo(l)[2] = p
    BY <2>6 DEF p
  <2>12. Good(ScannedUpTo(l)[0 + 2])
    <3>1. 0 + 2 = 2
      OBVIOUS
    <3> HIDE DEF Good
    <3> QED
      BY <2>10, <2>11, <3>1, Zenon
  <2> HIDE DEF Good
  <2> QED
    BY <2>12
<1>3. ASSUME NEW n \in Nat, n \in T PROVE n + 1 \in T
  <2> SUFFICES ASSUME n + 3 <= Len(l) PROVE Good(ScannedUpTo(l)[n+3])
    OBVIOUS
  <2> DEFINE p == ScannedUpTo(l)[n+2]
             w == l[n+3]
             q == Pieces[w]
  <2>1. n + 2 \in 0..Len(l)-1 /\ (n + 2) + 1 = n + 3 /\ Good(p)
    BY <1>1, <1>3
  <2>2. w \in Token /\ q \in Seq(Token) /\ ScannedUpTo(l)[n+3] = p \o q
    <3>1. /\ l[(n+2)+1] \in Token /\ Pieces[l[(n+2)+1]] \in Seq(Token)
          /\ ScannedUpTo(l)[(n+2)+1] = ScannedUpTo(l)[n+2] \o Pieces[l[(n+2)+1]]
      BY <2>1, ScannedStep
    <3> QED
      BY <2>1, <3>1, Zenon
  <2>3. w \in C
    <3>1. n + 3 \in DOMAIN l /\ n + 3 # 2
      BY <1>1
    <3> QED
      BY <3>1
  <2>4. \A i \in DOMAIN q : q[i] \in C
    BY <2>2, <2>3
  <2> HIDE DEF p, w, q
  <2>5. Len(q) \in Nat /\ DOMAIN q = 1..Len(q)
    BY <2>2, LenProperties
  <2>6. /\ p \o q \in Seq(Token) /\ Len(p \o q) = Len(p) + Len(q)
        /\ \A i \in 1..Len(p) + Len(q) :
             (p \o q)[i] = IF i <= Len(p) THEN p[i] ELSE q[i - Len(p)]
    BY <2>1, <2>2, ConcatProperties DEF Line
  <2>7. Len(p \o q) \in Nat /\ Len(p \o q) >= 2
    BY <2>1, <2>5, <2>6
  <2>8. (p \o q)[1] = l[1] /\ (p \o q)[2] = l[2]
    BY <2>1, <2>5, <2>6
  <2>9. ASSUME NEW i \in 3..Len(p \o q) PROVE (p \o q)[i] \in C
    <3>1. i \in 1..Len(p) + Len(q)
      BY <2>1, <2>5, <2>6
    <3>2. CASE i <= Len(p)
      BY <2>1, <2>6, <3>1, <3>2
    <3>3. CASE ~ (i <= Len(p))
      <4>1. i - Len(p) \in DOMAIN q
        BY <2>1, <2>5, <3>1, <3>3
      <4> QED
        BY <2>4, <2>6, <3>1, <3>3, <4>1
    <3> QED
      BY <3>2, <3>3
  <2> QED
    BY <2>2, <2>6, <2>7, <2>8, <2>9 DEF Line
<1>4. Len(l) - 2 \in T
  <2>1. Nat \subseteq T
    <3> HIDE DEF T
    <3> QED
      BY <1>2, <1>3, Induction
  <2> HIDE DEF T
  <2>2. Len(l) - 2 \in Nat
    BY <1>1
  <2> QED
    BY <2>1, <2>2
<1>5. Good(ScannedUpTo(l)[Len(l)])
  <2>1. (Len(l) - 2) + 2 = Len(l)
    BY <1>1
  <2> HIDE DEF Good
  <2>2. Good(ScannedUpTo(l)[(Len(l) - 2) + 2])
    BY <1>1, <1>4
  <2> QED
    BY <2>1, <2>2
<1> QED
  BY <1>5 DEF Scanned

LEMMA RowsInType ==
  ASSUME NEW conf \in Seq(Line)
  PROVE  /\ RowsIn(conf) \in Seq(Row)
         /\ Len(RowsIn(conf)) \in Nat
         /\ \A i \in 1..Len(RowsIn(conf)) : RowsIn(conf)[i].ins = i
<1> DEFINE device == Keep(conf, DeviceLines)
           row(i) == [ins |-> i,
                      val |-> [f \in RowFields |->
                                 CASE f = "mac" -> Word(Scanned(device[i]), 2)
                                   [] f = "v4"  -> Word(Scanned(device[i]), 3)
                                   [] f = "v6"  -> Word(Scanned(device[i]), 4)
                                   [] f = "tag" -> Word(Scanned(device[i]), 5)],
                      changed |-> {}]
<1>1. device \in Seq(Line) /\ Len(device) \in Nat
  BY KeepSub, LenProperties
<1>2. RowsIn(conf) = [i \in 1..Len(device) |-> row(i)]
  BY DEF RowsIn
<1> HIDE DEF device
<1>3. ASSUME NEW i \in 1..Len(device)
      PROVE  row(i) \in Row /\ row(i).ins = i
  <2>1. Scanned(device[i]) \in Line
    BY <1>1, ElementOfSeq, ScannedType
  <2>2. /\ Word(Scanned(device[i]), 2) \in Text /\ Word(Scanned(device[i]), 3) \in Text
        /\ Word(Scanned(device[i]), 4) \in Text /\ Word(Scanned(device[i]), 5) \in Text
    BY <2>1, WordType
  <2>3. row(i).val \in [RowFields -> Text]
    BY <2>2 DEF RowFields
  <2>4. i \in Nat \ {0}
    BY <1>1
  <2> QED
    BY <2>3, <2>4 DEF Row
<1> HIDE DEF row
<1>4. RowsIn(conf) \in [1..Len(device) -> Row]
  BY <1>2, <1>3
<1>5. RowsIn(conf) \in Seq(Row)
  BY <1>1, <1>4, SeqDef
<1>6. Len(RowsIn(conf)) = Len(device)
  BY <1>1, <1>4, <1>5, LenProperties
<1> QED
  BY <1>1, <1>2, <1>3, <1>5, <1>6

LEMMA NoDefaultsType == NoDefaults \in Defaults
BY AddressesAreText DEF NoDefaults, Defaults

\* Whatever the files and the fields hold, a start leaves a well-typed data
\* model whose rows are numbered from 1 and whose next instance number is
\* still free.
LEMMA InitializeType ==
  ASSUME NEW fs \in Files, NEW flg, NEW d \in Defaults
  PROVE  LET s == CosaXDNSInitialize(fs, flg, d)
         IN /\ s.fs \in Files
            /\ s.dflt \in Defaults
            /\ s.rows \in Seq(Row)
            /\ s.nextIns \in Nat \ {0}
            /\ \A i \in DOMAIN s.rows : s.rows[i].ins = i /\ i < s.nextIns
<1> DEFINE c == CosaDmlGetSelfHealCfg(fs, flg, d)
           r == IF fs.confExists THEN RowsIn(fs.conf) ELSE << >>
<1>1. c.fs \in Files /\ c.dflt \in Defaults
  <2>1. fs.conf \in Seq(Line)
    BY DEF Files
  <2>2. CASE fs.confExists
    BY <2>1, <2>2, RefreshType, DefaultsInType DEF CosaDmlGetSelfHealCfg
  <2>3. CASE ~ fs.confExists
    <3>1. c = CreateDnsmasqServerConf(fs, flg, d)
      BY <2>3 DEF CosaDmlGetSelfHealCfg
    <3> QED
      BY <3>1, CreateType
  <2> QED
    BY <2>2, <2>3
<1>2. r \in Seq(Row) /\ Len(r) \in Nat /\ \A i \in 1..Len(r) : r[i].ins = i
  <2>1. fs.conf \in Seq(Line)
    BY DEF Files
  <2>2. CASE fs.confExists
    BY <2>1, <2>2, RowsInType
  <2>3. CASE ~ fs.confExists
    BY <2>3, EmptySeq
  <2> QED
    BY <2>2, <2>3
<1>3. CosaXDNSInitialize(fs, flg, d)
        = [fs |-> c.fs, dflt |-> c.dflt, rows |-> r, nextIns |-> Len(r) + 1]
  BY DEF CosaXDNSInitialize
<1> HIDE DEF c, r
<1>4. DOMAIN r = 1..Len(r)
  BY <1>2, LenProperties
<1> QED
  BY <1>1, <1>2, <1>3, <1>4

-----------------------------------------------------------------------------
(***************************************************************************)
(* The inductive invariant.  CosaSListPushEntryByInsNum puts a new row at  *)
(* the end only because every listed number is below the next one, so the  *)
(* types and the order of the list are proved together.                    *)
(***************************************************************************)
DmlInv == TypeOK /\ InstanceOrder

LEMMA StartOnInv ==
  ASSUME NEW fs \in Files, flag' \in Flag, flash' \in Flag, StartOn(fs)
  PROVE  DmlInv'
<1> DEFINE s == CosaXDNSInitialize(fs, flag', NoDefaults)
<1>1. /\ files' = s.fs /\ dflt' = s.dflt /\ changed' = {}
      /\ rows' = s.rows /\ nextIns' = s.nextIns
  BY DEF StartOn
<1>2. /\ s.fs \in Files
      /\ s.dflt \in Defaults
      /\ s.rows \in Seq(Row)
      /\ s.nextIns \in Nat \ {0}
      /\ \A i \in DOMAIN s.rows : s.rows[i].ins = i /\ i < s.nextIns
  BY InitializeType, NoDefaultsType
<1> HIDE DEF s
<1>3. TypeOK'
  BY <1>1, <1>2 DEF TypeOK, Defaults
<1>4. InstanceOrder'
  BY <1>1, <1>2 DEF InstanceOrder
<1> QED
  BY <1>3, <1>4 DEF DmlInv

LEMMA InitInv ==
  ASSUME Init
  PROVE  DmlInv
<1>1. PICK conf \in BootConf, confHere \in BOOLEAN, ns \in BootNameservers, here \in BOOLEAN :
        /\ flag \in Flag /\ flash = flag /\ changed = {}
        /\ LET s == CosaXDNSInitialize(
                      [confExists |-> confHere, conf |-> conf, resolvExists |-> here,
                       ns |-> ns, overrides |-> << >>], flag, NoDefaults)
           IN files = s.fs /\ dflt = s.dflt /\ rows = s.rows /\ nextIns = s.nextIns
  BY DEF Init
<1> DEFINE fs == [confExists |-> confHere, conf |-> conf, resolvExists |-> here,
                  ns |-> ns, overrides |-> << >>]
           s == CosaXDNSInitialize(fs, flag, NoDefaults)
<1>2. fs \in Files
  <2>1. conf \in Seq(Line) /\ ns \in [v4 : V4 \cup {""}, v6 : V6 \cup {""}]
    BY DmlAssumption
  <2> QED
    BY <2>1, EmptySeq DEF Files
<1>3. /\ s.fs \in Files
      /\ s.dflt \in Defaults
      /\ s.rows \in Seq(Row)
      /\ s.nextIns \in Nat \ {0}
      /\ \A i \in DOMAIN s.rows : s.rows[i].ins = i /\ i < s.nextIns
  BY <1>2, InitializeType, NoDefaultsType
<1>4. files = s.fs /\ dflt = s.dflt /\ rows = s.rows /\ nextIns = s.nextIns
  BY <1>1
<1> HIDE DEF s
<1>5. TypeOK
  BY <1>1, <1>3, <1>4 DEF TypeOK, Defaults
<1>6. InstanceOrder
  BY <1>3, <1>4 DEF InstanceOrder
<1> QED
  BY <1>5, <1>6 DEF DmlInv

LEMMA SaveFlagType ==
  ASSUME NEW value \in Flag, flag \in Flag, flash \in Flag, SaveFlag(value)
  PROVE  flag' \in Flag /\ flash' \in Flag
BY DEF SaveFlag

LEMMA BootFilesType ==
  ASSUME NEW fs \in Files, NEW ns \in BootNameservers, NEW here \in BOOLEAN
  PROVE  BootFiles(fs, ns, here) \in Files
<1>1. ns \in [v4 : V4 \cup {""}, v6 : V6 \cup {""}]
  BY DmlAssumption
<1> QED
  BY <1>1, EmptySeq DEF BootFiles, Files

LEMMA StoredType ==
  ASSUME NEW v \in Text \cup {TooLong}
  PROVE  Stored(v) \in Text
BY AddressesAreText DEF Stored

LEMMA RestartInv ==
  ASSUME DmlInv, Restart
  PROVE  DmlInv'
BY StartOnInv DEF Restart, DmlInv, TypeOK

LEMMA RebootInv ==
  ASSUME DmlInv, Reboot
  PROVE  DmlInv'
<1>1. PICK ns \in BootNameservers, here \in BOOLEAN :
        flag' = flash /\ UNCHANGED flash /\ StartOn(BootFiles(files, ns, here))
  BY DEF Reboot
<1>2. BootFiles(files, ns, here) \in Files
  BY BootFilesType DEF DmlInv, TypeOK
<1> QED
  BY <1>1, <1>2, StartOnInv DEF DmlInv, TypeOK

\* While the table is left alone its order cannot change.
LEMMA OrderUnchanged ==
  ASSUME DmlInv, UNCHANGED <<rows, nextIns>>, TypeOK'
  PROVE  DmlInv'
BY DEF DmlInv, InstanceOrder

LEMMA EnableInv ==
  ASSUME DmlInv, NEW wan, EnableXdns(wan)
  PROVE  DmlInv'
<1> DEFINE made == IF files.confExists THEN [fs |-> files, dflt |-> dflt]
                   ELSE CreateDnsmasqServerConf(files, flag, dflt)
           set  == SetXdnsConfig(made.fs)
<1>1. /\ flag \in Flag /\ flash \in Flag /\ files \in Files /\ dflt \in Defaults
      /\ UNCHANGED <<changed, rows, nextIns>> /\ TypeOK
  BY DEF DmlInv, TypeOK, EnableXdns, Defaults
<1>2. made.fs \in Files /\ made.dflt \in Defaults
  <2>1. CASE files.confExists
    BY <1>1, <2>1
  <2>2. CASE ~ files.confExists
    <3>1. made = CreateDnsmasqServerConf(files, flag, dflt)
      BY <2>2
    <3> QED
      BY <1>1, <3>1, CreateType
  <2> QED
    BY <2>1, <2>2
<1>3. set.fs \in Files
  <2> HIDE DEF made
  <2> QED
    BY <1>2, SetType
<1>4. \/ files' = set.fs /\ dflt' = made.dflt
      \/ UNCHANGED <<files, dflt>>
  BY DEF EnableXdns
<1>5. SaveFlag("1") \/ UNCHANGED <<flag, flash>>
  BY DEF EnableXdns
<1>6. flag' \in Flag /\ flash' \in Flag
  BY <1>1, <1>5, SaveFlagType DEF Flag
<1> HIDE DEF made, set
<1>7. TypeOK'
  BY <1>1, <1>2, <1>3, <1>4, <1>6 DEF TypeOK, Defaults
<1> QED
  BY <1>1, <1>7, OrderUnchanged

LEMMA DisableInv ==
  ASSUME DmlInv, DisableXdns
  PROVE  DmlInv'
<1>1. flag' \in Flag /\ flash' \in Flag
  BY SaveFlagType DEF DisableXdns, DmlInv, TypeOK, Flag
<1>2. files' \in Files
  BY UnsetType DEF DisableXdns, DmlInv, TypeOK
<1>3. TypeOK' /\ UNCHANGED <<rows, nextIns>>
  BY <1>1, <1>2 DEF DisableXdns, DmlInv, TypeOK
<1> QED
  BY <1>3, OrderUnchanged

LEMMA SetDefaultInv ==
  ASSUME DmlInv, NEW f \in DefaultFields, NEW v \in DefaultInputs[f],
         XDNS_SetParamStringValue(f, v)
  PROVE  DmlInv'
<1>1. Stored(v) \in Text
  BY StoredType, DmlAssumption
<1>2. dflt' \in [DefaultFields -> Text]
  BY <1>1 DEF XDNS_SetParamStringValue, DmlInv, TypeOK
<1>3. TypeOK' /\ UNCHANGED <<rows, nextIns>>
  BY <1>2 DEF XDNS_SetParamStringValue, DmlInv, TypeOK
<1> QED
  BY <1>3, OrderUnchanged

LEMMA DefaultEntriesType ==
  ASSUME dflt \in Defaults
  PROVE  DefaultEntries \in Seq(Line)
<1> DEFINE entry(a, b) == Entry(DefaultMac, dflt[a], dflt[b], dflt["tag"])
<1>1. ASSUME NEW a \in DefaultFields, NEW b \in DefaultFields
      PROVE  entry(a, b) \in Seq(Line)
  <2>1. dflt[a] \in Text /\ dflt[b] \in Text /\ dflt["tag"] \in Text
    BY DEF Defaults, DefaultFields
  <2> QED
    BY <2>1, EntryType, AddressesAreText
<1>2. entry("v4", "v6") \in Seq(Line) /\ entry("s4", "s6") \in Seq(Line)
  <2> HIDE DEF entry
  <2> QED
    BY <1>1 DEF DefaultFields
<1>3. DefaultEntries = entry("v4", "v6")
        \o (IF dflt["s4"] # "" /\ dflt["s6"] # "" THEN entry("s4", "s6") ELSE << >>)
  BY DEF DefaultEntries
<1> HIDE DEF entry
<1> QED
  BY <1>2, <1>3, EmptySeq, ConcatProperties

LEMMA CommitInv ==
  ASSUME DmlInv, XDNS_Commit, UNCHANGED <<flag, flash, rows, nextIns>>
  PROVE  DmlInv'
<1>1. files \in Files /\ dflt \in Defaults /\ TypeOK
  BY DEF DmlInv, TypeOK, Defaults
<1>2. files' \in Files /\ dflt' \in Defaults
  <2>1. CASE dflt["v4"] # "" /\ dflt["v6"] # ""
    <3>1. files' = ReplaceDnsmasqConfEntry(files, flag, DefaultMac, DefaultEntries)
          /\ UNCHANGED dflt
      BY <2>1 DEF XDNS_Commit
    <3> QED
      BY <1>1, <3>1, DefaultEntriesType, ReplaceType
  <2>2. CASE ~ (dflt["v4"] # "" /\ dflt["v6"] # "")
    <3>1. files' = CreateDnsmasqServerConf(files, flag, dflt).fs
          /\ dflt' = CreateDnsmasqServerConf(files, flag, dflt).dflt
      BY <2>2 DEF XDNS_Commit
    <3> QED
      BY <1>1, <3>1, CreateType
  <2> QED
    BY <2>1, <2>2
<1>3. TypeOK'
  BY <1>1, <1>2 DEF XDNS_Commit, TypeOK, Defaults
<1> QED
  BY <1>3, OrderUnchanged

LEMMA RollbackInv ==
  ASSUME DmlInv, XDNS_Rollback, UNCHANGED <<flag, flash, rows, nextIns>>
  PROVE  DmlInv'
<1> DEFINE found == GetDnsMasqFileEntry(files, DefaultMac)
           p == found[1]
           s == found[MAX_XDNS_SERV]
           enough == Len(found) >= MAX_XDNS_SERV
<1>1. files \in Files /\ dflt \in Defaults /\ TypeOK
  BY DEF DmlInv, TypeOK, Defaults
<1>2. found \in Seq(Line)
  BY <1>1, GetEntryType
<1> HIDE DEF found
<1>3. ASSUME enough PROVE p \in Line /\ s \in Line
  <2>1. Len(found) \in Nat
    BY <1>2, LenProperties
  <2>2. 1 \in 1..Len(found) /\ MAX_XDNS_SERV \in 1..Len(found)
    BY <1>3, <2>1 DEF MAX_XDNS_SERV
  <2> QED
    BY <1>2, <2>2, ElementOfSeq
<1>4. ASSUME enough
      PROVE  /\ Word(p, 3) \in Text /\ Word(s, 3) \in Text
             /\ Word(p, 4) \in Text /\ Word(s, 4) \in Text /\ Word(p, 5) \in Text
  BY <1>3, <1>4, WordType
<1>5. \A f \in DefaultFields : dflt[f] \in Text
  BY <1>1 DEF Defaults
<1>6. dflt' \in Defaults
  BY <1>4, <1>5 DEF XDNS_Rollback, Defaults, DefaultFields, found
<1>7. TypeOK'
  BY <1>1, <1>6 DEF XDNS_Rollback, TypeOK, Defaults
<1> QED
  BY <1>7, OrderUnchanged DEF XDNS_Rollback

LEMMA ApplyDefaultsInv ==
  ASSUME DmlInv, ApplyDefaults
  PROVE  DmlInv'
BY CommitInv, RollbackInv DEF ApplyDefaults

-----------------------------------------------------------------------------
(***************************************************************************)
(* The steps of the device table.                                          *)
(***************************************************************************)

\* Every row of a list has a number.
LEMMA InsType ==
  ASSUME NEW list \in Seq(Row)
  PROVE  \A i \in DOMAIN list : list[i] \in Row /\ list[i].ins \in Nat
<1> TAKE i \in DOMAIN list
<1>1. i \in 1..Len(list)
  BY LenProperties
<1>2. list[i] \in Row
  BY <1>1, ElementOfSeq
<1> QED
  BY <1>2 DEF Row

\* The counter does not go back, and new numbers come from it.
Numbering ==
  /\ nextIns' >= nextIns
  /\ \A i \in DOMAIN rows' :
       \/ nextIns <= rows'[i].ins /\ rows'[i].ins < nextIns'
       \/ \E j \in DOMAIN rows : rows[j].ins = rows'[i].ins

LEMMA SameNumbering ==
  ASSUME DmlInv, UNCHANGED <<rows, nextIns>>
  PROVE  Numbering
BY DEF DmlInv, TypeOK, Numbering

\* With no larger number in the list a new row goes to its end.
LEMMA PushedLast ==
  ASSUME NEW list \in Seq(Row), NEW row \in Row,
         \A i \in DOMAIN list : list[i].ins < row.ins
  PROVE  /\ Pushed(list, row) = [i \in 1..Len(list) + 1 |->
                                   IF i < Len(list) + 1 THEN list[i] ELSE row]
         /\ Pushed(list, row) \in Seq(Row)
         /\ DOMAIN Pushed(list, row) = 1..Len(list) + 1
<1> DEFINE larger == {i \in DOMAIN list : row.ins < list[i].ins}
           new == [i \in 1..Len(list) + 1 |->
                     IF i < Len(list) + 1 THEN list[i] ELSE row]
<1>1. Len(list) \in Nat /\ DOMAIN list = 1..Len(list)
  BY LenProperties
<1>2. \A i \in DOMAIN list : list[i].ins \in Nat /\ row.ins \in Nat
  BY InsType DEF Row
<1>3. larger = {}
  BY <1>2
<1>4. Pushed(list, row) =
        [i \in 1..Len(list) + 1 |->
           IF i < Len(list) + 1 THEN list[i]
           ELSE IF i = Len(list) + 1 THEN row ELSE list[i-1]]
  BY <1>3 DEF Pushed
<1>5. Pushed(list, row) = new
  BY <1>1, <1>4
<1>6. new \in [1..Len(list) + 1 -> Row]
  BY <1>1, ElementOfSeq
<1>7. new \in Seq(Row)
  BY <1>1, <1>6, SeqDef
<1> QED
  BY <1>5, <1>7

LEMMA EmptyRowType ==
  ASSUME NEW n \in Nat \ {0}
  PROVE  EmptyRow(n) \in Row /\ EmptyRow(n).ins = n
BY AddressesAreText DEF EmptyRow, Row

LEMMA AddEntryInv ==
  ASSUME DmlInv, DNSMappingTable_AddEntry
  PROVE  DmlInv' /\ Numbering
<1>1. /\ rows \in Seq(Row) /\ nextIns \in Nat \ {0} /\ TypeOK /\ InstanceOrder
      /\ Len(rows) \in Nat /\ DOMAIN rows = 1..Len(rows)
  BY LenProperties DEF DmlInv, TypeOK
<1>2. EmptyRow(nextIns) \in Row /\ EmptyRow(nextIns).ins = nextIns
  BY <1>1, EmptyRowType
<1>3. \A i \in DOMAIN rows : rows[i].ins < nextIns /\ rows[i].ins \in Nat
  BY <1>1, InsType DEF InstanceOrder
<1> DEFINE new == EmptyRow(nextIns)
<1> HIDE DEF new
<1>4. /\ rows' = [i \in 1..Len(rows) + 1 |->
                    IF i < Len(rows) + 1 THEN rows[i] ELSE new]
      /\ rows' \in Seq(Row)
      /\ DOMAIN rows' = 1..Len(rows) + 1
  BY <1>1, <1>2, <1>3, PushedLast DEF DNSMappingTable_AddEntry, new
<1>5. nextIns' = nextIns + 1
  BY DEF DNSMappingTable_AddEntry
<1>6. TypeOK'
  BY <1>1, <1>4, <1>5 DEF TypeOK, DNSMappingTable_AddEntry
<1>7. new.ins = nextIns
  BY <1>2 DEF new
<1>8. \A i \in DOMAIN rows' : rows'[i] = IF i < Len(rows) + 1 THEN rows[i] ELSE new
  BY <1>4
<1>9. \A i \in DOMAIN rows' : rows'[i].ins < nextIns'
  BY <1>1, <1>3, <1>4, <1>5, <1>7, <1>8
<1>10. ASSUME NEW i \in DOMAIN rows', NEW j \in DOMAIN rows', i < j
       PROVE  rows'[i].ins < rows'[j].ins
  <2>1. i \in DOMAIN rows /\ rows'[i] = rows[i]
    BY <1>1, <1>4, <1>8, <1>10
  <2>2. CASE j \in DOMAIN rows
    <3>1. rows'[j] = rows[j]
      BY <1>1, <1>8, <2>2
    <3> QED
      BY <1>1, <1>10, <2>1, <2>2, <3>1 DEF InstanceOrder
  <2>3. CASE j = Len(rows) + 1
    BY <1>3, <1>7, <1>8, <2>1, <2>3
  <2> QED
    BY <1>1, <1>4, <2>2, <2>3
<1>11. InstanceOrder'
  BY <1>9, <1>10 DEF InstanceOrder
<1>12. ASSUME NEW i \in DOMAIN rows'
       PROVE  \/ nextIns <= rows'[i].ins /\ rows'[i].ins < nextIns'
              \/ \E j \in DOMAIN rows : rows[j].ins = rows'[i].ins
  <2>1. CASE i < Len(rows) + 1
    BY <1>1, <1>4, <1>8, <2>1
  <2>2. CASE ~ (i < Len(rows) + 1)
    BY <1>1, <1>5, <1>7, <1>8, <2>2
  <2> QED
    BY <2>1, <2>2
<1>13. Numbering
  BY <1>1, <1>5, <1>12 DEF Numbering
<1> QED
  BY <1>6, <1>11, <1>13 DEF DmlInv

LEMMA DelEntryInv ==
  ASSUME DmlInv, NEW i \in DOMAIN rows, DNSMappingTable_DelEntry(i)
  PROVE  DmlInv' /\ Numbering
<1> DEFINE front == SubSeq(rows, 1, i-1)
           back == SubSeq(rows, i+1, Len(rows))
<1>1. /\ rows \in Seq(Row) /\ nextIns \in Nat \ {0} /\ TypeOK /\ InstanceOrder
      /\ Len(rows) \in Nat /\ DOMAIN rows = 1..Len(rows) /\ i \in 1..Len(rows)
  BY LenProperties DEF DmlInv, TypeOK
<1>2. \A k \in 1..Len(rows) : rows[k] \in Row
  BY <1>1, ElementOfSeq
<1>3. /\ front \in Seq(Row) /\ Len(front) = i - 1
      /\ \A k \in 1..i-1 : front[k] = rows[k]
  <2>1. \A k \in 1..i-1 : rows[k] \in Row
    BY <1>1, <1>2
  <2>2. front \in Seq(Row) /\ Len(front) = (IF 1 <= i-1 THEN i-1-1+1 ELSE 0)
        /\ \A k \in 1..i-1-1+1 : front[k] = rows[1+k-1]
    BY <1>1, <2>1, SubSeqProperties
  <2> QED
    BY <1>1, <2>2
<1>4. /\ back \in Seq(Row) /\ Len(back) = Len(rows) - i
      /\ \A k \in 1..Len(rows) - i : back[k] = rows[i+k]
  <2>1. \A k \in i+1..Len(rows) : rows[k] \in Row
    BY <1>1, <1>2
  <2>2. back \in Seq(Row) /\ Len(back) = (IF i+1 <= Len(rows) THEN Len(rows)-(i+1)+1 ELSE 0)
        /\ \A k \in 1..Len(rows)-(i+1)+1 : back[k] = rows[(i+1)+k-1]
    BY <1>1, <2>1, SubSeqProperties
  <2> QED
    BY <1>1, <2>2
<1>5. rows' = front \o back
  BY DEF DNSMappingTable_DelEntry
<1> HIDE DEF front, back
<1>6. /\ rows' \in Seq(Row) /\ Len(rows') = Len(rows) - 1
      /\ \A k \in 1..Len(rows) - 1 : rows'[k] = IF k < i THEN rows[k] ELSE rows[k+1]
  <2>1. /\ rows' \in Seq(Row) /\ Len(rows') = Len(front) + Len(back)
        /\ \A k \in 1..Len(front) + Len(back) :
             rows'[k] = IF k <= Len(front) THEN front[k] ELSE back[k - Len(front)]
    BY <1>3, <1>4, <1>5, ConcatProperties
  <2>2. Len(rows') = Len(rows) - 1
    BY <1>1, <1>3, <1>4, <2>1
  <2>3. ASSUME NEW k \in 1..Len(rows) - 1
        PROVE  rows'[k] = IF k < i THEN rows[k] ELSE rows[k+1]
    <3>1. rows'[k] = IF k <= Len(front) THEN front[k] ELSE back[k - Len(front)]
      BY <2>1, <2>2
    <3>2. CASE k < i
      BY <1>1, <1>3, <3>1, <3>2
    <3>3. CASE ~ (k < i)
      <4>1. k - (i - 1) \in 1..Len(rows) - i /\ i + (k - (i - 1)) = k + 1
        BY <1>1, <3>3
      <4>2. back[k - (i - 1)] = rows[k + 1]
        BY <1>4, <4>1
      <4> QED
        BY <1>1, <1>3, <3>1, <3>3, <4>2
    <3> QED
      BY <3>2, <3>3
  <2> QED
    BY <2>1, <2>2, <2>3
<1>7. DOMAIN rows' = 1..Len(rows) - 1
  BY <1>6, LenProperties
<1>8. TypeOK'
  BY <1>1, <1>6 DEF TypeOK, DNSMappingTable_DelEntry
<1> DEFINE old(k) == IF k < i THEN k ELSE k + 1
<1>9. \A k \in DOMAIN rows' : old(k) \in DOMAIN rows /\ rows'[k] = rows[old(k)]
  BY <1>1, <1>6, <1>7
<1>10. \A k, l \in DOMAIN rows' : k < l => old(k) < old(l)
  BY <1>1, <1>7
<1>11. nextIns' = nextIns
  BY DEF DNSMappingTable_DelEntry
<1> HIDE DEF old
<1>12. InstanceOrder'
  BY <1>1, <1>9, <1>10, <1>11 DEF InstanceOrder
<1>13. Numbering
  BY <1>1, <1>9, <1>11 DEF Numbering
<1> QED
  BY <1>8, <1>12, <1>13 DEF DmlInv

\* A row may change as long as it keeps its number.
LEMMA RowChanged ==
  ASSUME DmlInv, NEW i \in DOMAIN rows, NEW row \in Row, row.ins = rows[i].ins,
         rows' = [rows EXCEPT ![i] = row], files' \in Files,
         UNCHANGED <<flag, flash, dflt, changed, nextIns>>
  PROVE  DmlInv' /\ Numbering
<1>1. /\ rows \in Seq(Row) /\ TypeOK /\ InstanceOrder
      /\ Len(rows) \in Nat /\ DOMAIN rows = 1..Len(rows)
  BY LenProperties DEF DmlInv, TypeOK
<1>2. rows' \in Seq(Row)
  BY <1>1, ExceptSeq
<1>3. DOMAIN rows' = DOMAIN rows /\ \A k \in DOMAIN rows : rows'[k].ins = rows[k].ins
  BY <1>1
<1>4. TypeOK'
  BY <1>1, <1>2 DEF TypeOK
<1>5. InstanceOrder'
  BY <1>1, <1>3 DEF InstanceOrder
<1>6. Numbering
  BY <1>1, <1>3 DEF Numbering, TypeOK
<1> QED
  BY <1>4, <1>5, <1>6 DEF DmlInv

LEMMA SetFieldInv ==
  ASSUME DmlInv, NEW i \in DOMAIN rows, NEW f \in RowFields, NEW v \in RowInputs[f],
         DNSMappingTable_SetParamStringValue(i, f, v)
  PROVE  DmlInv' /\ Numbering
<1> DEFINE new == IF f = "mac" THEN Lower[Stored(v)] ELSE Stored(v)
           row == [rows[i] EXCEPT !.val = [@ EXCEPT ![f] = new],
                                  !.changed = IF v = TooLong THEN @ ELSE @ \cup {f}]
<1>1. rows \in Seq(Row) /\ rows[i] \in Row /\ files \in Files
  BY LenProperties, ElementOfSeq DEF DmlInv, TypeOK
<1>2. new \in Text
  BY StoredType, DmlAssumption
<1>3. row \in Row /\ row.ins = rows[i].ins
  <2> HIDE DEF new
  <2> QED
    BY <1>1, <1>2 DEF Row
<1>4. rows' = [rows EXCEPT ![i] = row]
  BY <1>1 DEF DNSMappingTable_SetParamStringValue
<1>5. files' \in Files /\ UNCHANGED <<flag, flash, dflt, changed, nextIns>>
  BY <1>1 DEF DNSMappingTable_SetParamStringValue
<1> HIDE DEF row
<1> QED
  BY <1>3, <1>4, <1>5, RowChanged

LEMMA RolledBackType ==
  ASSUME DmlInv, NEW row \in Row
  PROVE  RolledBack(row) \in Row /\ RolledBack(row).ins = row.ins
<1> DEFINE mac == IF MacRefused(row) THEN "" ELSE row.val["mac"]
           found == GetDnsMasqFileEntry(files, mac)
           line == found[1]
           ok1 == found # << >> /\ line \in WithWord(3, Dotted)
           ok2 == ok1 /\ line \in WithWord(4, Coloned)
           val == [f \in RowFields |->
             CASE f = "mac" -> mac
               [] f # "mac" /\ f \in row.changed /\ found = << >> -> ""
               [] f = "v4" /\ f \in row.changed /\ ok1 -> Word(line, 3)
               [] f = "v6" /\ ok2 -> Word(line, 4)
               [] f = "tag" /\ f \in row.changed /\ ok2 -> Word(line, 5)
               [] OTHER -> row.val[f]]
           new == [row EXCEPT !.val = val,
                              !.changed = IF found = << >> \/ ok2 THEN {} ELSE @]
<1>1. mac \in Text /\ \A f \in RowFields : row.val[f] \in Text
  BY AddressesAreText DEF Row, RowFields
<1>2. found \in Seq(Line)
  BY GetEntryType DEF DmlInv, TypeOK
<1>3. ASSUME found # << >>
      PROVE  Word(line, 3) \in Text /\ Word(line, 4) \in Text /\ Word(line, 5) \in Text
  <2> HIDE DEF found
  <2>1. Len(found) \in Nat \ {0}
    BY <1>2, <1>3, EmptySeq
  <2>2. line \in Line
    BY <1>2, <2>1, ElementOfSeq
  <2> QED
    BY <2>2, WordType
<1>4. RolledBack(row) = new
  BY DEF RolledBack
<1> HIDE DEF mac, found
<1>5. val \in [RowFields -> Text]
  BY <1>1, <1>3, AddressesAreText DEF RowFields
<1> HIDE DEF val
<1>6. new \in Row /\ new.ins = row.ins
  BY <1>5 DEF Row
<1> QED
  BY <1>4, <1>6

LEMMA ApplyRowInv ==
  ASSUME DmlInv, NEW i \in DOMAIN rows, ApplyRow(i)
  PROVE  DmlInv' /\ Numbering
<1>1. rows \in Seq(Row) /\ rows[i] \in Row /\ files \in Files
  BY LenProperties, ElementOfSeq DEF DmlInv, TypeOK
<1>2. UNCHANGED <<flag, flash, dflt, changed, nextIns>>
  BY DEF ApplyRow
<1>3. CASE DNSMappingTable_Commit(i)
  <2> DEFINE val == rows[i].val
             lines == Entry(val["mac"], val["v4"], val["v6"], val["tag"])
             row == [rows[i] EXCEPT !.changed = {}]
  <2>1. val["mac"] \in Text /\ val["v4"] \in Text /\ val["v6"] \in Text /\ val["tag"] \in Text
    BY <1>1 DEF Row, RowFields
  <2>2. lines \in Seq(Line)
    <3> HIDE DEF val
    <3> QED
      BY <2>1, EntryType
  <2>3. files' \in Files
    BY <1>1, <1>3, <2>2, ReplaceType DEF DNSMappingTable_Commit
  <2>4. row \in Row /\ row.ins = rows[i].ins /\ rows' = [rows EXCEPT ![i] = row]
    BY <1>1, <1>3 DEF Row, DNSMappingTable_Commit
  <2> HIDE DEF row
  <2> QED
    BY <1>2, <2>3, <2>4, RowChanged
<1>4. CASE rows' = [rows EXCEPT ![i] = RolledBack(@)] /\ UNCHANGED files
  <2>1. RolledBack(rows[i]) \in Row /\ RolledBack(rows[i]).ins = rows[i].ins
    BY <1>1, RolledBackType
  <2>2. rows' = [rows EXCEPT ![i] = RolledBack(rows[i])]
    BY <1>4
  <2> QED
    BY <1>1, <1>2, <1>4, <2>1, <2>2, RowChanged
<1> QED
  BY <1>3, <1>4 DEF ApplyRow

-----------------------------------------------------------------------------
\* Every step of the component keeps the types and the order of the list.
LEMMA StepInv ==
  ASSUME DmlInv, [Next]_vars
  PROVE  DmlInv'
<1>1. ASSUME NEW wan \in WanStates, EnableXdns(wan) PROVE DmlInv'
  BY <1>1, EnableInv
<1>2. CASE DisableXdns
  BY <1>2, DisableInv
<1>3. ASSUME NEW f \in DefaultFields, NEW v \in DefaultInputs[f], XDNS_SetParamStringValue(f, v)
      PROVE  DmlInv'
  BY <1>3, SetDefaultInv
<1>4. CASE ApplyDefaults
  BY <1>4, ApplyDefaultsInv
<1>5. CASE RollbackOverrun
  BY <1>5, RestartInv DEF RollbackOverrun
<1>6. CASE TableStep
  <2>1. CASE DNSMappingTable_AddEntry
    BY <2>1, AddEntryInv
  <2>2. ASSUME NEW i \in DOMAIN rows, DNSMappingTable_DelEntry(i) PROVE DmlInv'
    BY <2>2, DelEntryInv
  <2>3. ASSUME NEW i \in DOMAIN rows, NEW f \in RowFields, NEW v \in RowInputs[f],
               DNSMappingTable_SetParamStringValue(i, f, v)
        PROVE  DmlInv'
    BY <2>3, SetFieldInv
  <2>4. ASSUME NEW i \in DOMAIN rows, ApplyRow(i) PROVE DmlInv'
    BY <2>4, ApplyRowInv
  <2> QED
    BY <1>6, <2>1, <2>2, <2>3, <2>4 DEF TableStep
<1>7. CASE Restart
  BY <1>7, RestartInv
<1>8. CASE Reboot
  BY <1>8, RebootInv
<1>9. CASE UNCHANGED vars
  BY <1>9 DEF vars, DmlInv, TypeOK, InstanceOrder
<1>10. ASSUME NEW i \in DOMAIN rows, RowOverrun(i) PROVE DmlInv'
  BY <1>10, RestartInv DEF RowOverrun
<1> QED
  BY <1>1, <1>2, <1>3, <1>4, <1>5, <1>6, <1>7, <1>8, <1>9, <1>10 DEF Next, Handler, StartAgain

LEMMA StepNumbers ==
  ASSUME DmlInv, [Next]_vars
  PROVE  Numbering \/ StartAgain \/ UNCHANGED vars
<1>1. ASSUME NEW wan \in WanStates, EnableXdns(wan) PROVE Numbering
  BY <1>1, SameNumbering DEF EnableXdns
<1>2. CASE DisableXdns
  BY <1>2, SameNumbering DEF DisableXdns
<1>3. ASSUME NEW f \in DefaultFields, NEW v \in DefaultInputs[f], XDNS_SetParamStringValue(f, v)
      PROVE  Numbering
  BY <1>3, SameNumbering DEF XDNS_SetParamStringValue
<1>4. CASE ApplyDefaults
  BY <1>4, SameNumbering DEF ApplyDefaults
<1>5. CASE TableStep
  <2>1. CASE DNSMappingTable_AddEntry
    BY <2>1, AddEntryInv
  <2>2. ASSUME NEW i \in DOMAIN rows, DNSMappingTable_DelEntry(i) PROVE Numbering
    BY <2>2, DelEntryInv
  <2>3. ASSUME NEW i \in DOMAIN rows, NEW f \in RowFields, NEW v \in RowInputs[f],
               DNSMappingTable_SetParamStringValue(i, f, v)
        PROVE  Numbering
    BY <2>3, SetFieldInv
  <2>4. ASSUME NEW i \in DOMAIN rows, ApplyRow(i) PROVE Numbering
    BY <2>4, ApplyRowInv
  <2> QED
    BY <1>5, <2>1, <2>2, <2>3, <2>4 DEF TableStep
<1> QED
  BY <1>1, <1>2, <1>3, <1>4, <1>5 DEF Next, Handler

\* The state of the data model and of both files is well-typed in every
\* reachable state, and the instance numbers of XDNSDeviceList increase and
\* stay below the next one to be handed out.
THEOREM DmlInvariant == Spec => []DmlInv
<1>1. Init => DmlInv
  BY InitInv
<1>2. DmlInv /\ [Next]_vars => DmlInv'
  BY StepInv
<1> QED
  BY <1>1, <1>2, PTL DEF Spec

\* Types: a string that does not fit its buffer never reaches a field.
THEOREM TypeCorrect == Spec => []TypeOK
<1>1. DmlInv => TypeOK
  BY DEF DmlInv
<1> QED
  BY <1>1, DmlInvariant, PTL

\* The list of CosaSListPushEntryByInsNum stays sorted, and the next number to
\* be handed out is above those of the rows.
THEOREM InstancesOrdered == Spec => []InstanceOrder
<1>1. DmlInv => InstanceOrder
  BY DEF DmlInv
<1> QED
  BY <1>1, DmlInvariant, PTL

\* No number is handed out twice between two starts: a row that was not there
\* before the step has its number from the counter, and the counter never goes
\* back while the process lives.
THEOREM NumbersOnce == Spec => NumbersNotReused
<1> USE DEF NumbersNotReused
<1>1. DmlInv /\ [Next]_vars => Numbering \/ StartAgain \/ UNCHANGED vars
  BY StepNumbers
<1>2. Numbering => \/ /\ nextIns' >= nextIns
                      /\ \A i \in DOMAIN rows' :
                           \/ nextIns <= rows'[i].ins /\ rows'[i].ins < nextIns'
                           \/ \E j \in DOMAIN rows : rows[j].ins = rows'[i].ins
                   \/ StartAgain
  BY DEF Numbering
<1> QED
  BY <1>1, <1>2, DmlInvariant, PTL DEF Spec

-----------------------------------------------------------------------------
(***************************************************************************)
(* The lines that are written for a device, or for the default.            *)
(***************************************************************************)
EntriesOf(mac) == {l \in Line : Len(l) >= 2 /\ l[2] = mac}

LEMMA EntriesAreLines ==
  ASSUME NEW mac, NEW lines \in Seq(EntriesOf(mac))
  PROVE  lines \in Seq(Line)
<1>1. EntriesOf(mac) \subseteq Line
  BY DEF EntriesOf
<1> QED
  BY <1>1, SeqMonotonic

\* The second word of a line is the MAC it was written for.
LEMMA OverrideEntry ==
  ASSUME NEW mac \in Token, NEW v4 \in Text, NEW v6 \in Text, NEW tag \in Text
  PROVE  Override(mac, v4, v6, tag) \in EntriesOf(mac)
<1> DEFINE rest == <<v4, v6, tag>>
           r == Keep(rest, Token)
           word == <<mac>>
           first == <<"dnsoverride">>
<1>0. Token \subseteq Text /\ "dnsoverride" \in Text
  BY WordsAssumption DEF Text
<1>1. rest \in Seq(Text) /\ word \in Seq(Text) /\ word \in Seq(Token)
  BY <1>0
<1>2. <<mac, v4, v6, tag>> = word \o rest
  OBVIOUS
<1>3. first \in Seq(Text)
  BY <1>0
<1>4. Len(word) = 1 /\ word[1] = mac /\ Len(first) = 1
  OBVIOUS
<1> HIDE DEF rest, word, first
<1>5. r \in Seq(Text)
  BY <1>1, KeepSub
<1>6. Keep(word, Token) = word
  BY <1>1, KeepAll
<1>7. Keep(word \o rest, Token) = word \o r
  <2>1. Keep(word \o rest, Token) = Keep(word, Token) \o Keep(rest, Token)
    BY <1>1, KeepConcat
  <2> QED
    BY <1>6, <2>1
<1>8. Override(mac, v4, v6, tag) = first \o (word \o r)
  BY <1>2, <1>7 DEF Override, first
<1> HIDE DEF r
<1>9. word \o r \in Seq(Text) /\ Len(word \o r) >= 1 /\ (word \o r)[1] = mac
  BY <1>1, <1>4, <1>5, ConcatProperties, LenProperties
<1>10. (first \o (word \o r))[2] = mac /\ Len(first \o (word \o r)) >= 2
  BY <1>3, <1>4, <1>9, ConcatProperties
<1>11. Override(mac, v4, v6, tag) \in Line
  BY <1>0, OverrideType
<1> QED
  BY <1>8, <1>10, <1>11 DEF EntriesOf

LEMMA EntryFitting ==
  ASSUME NEW mac, NEW v4, NEW v6, NEW tag, Entry(mac, v4, v6, tag) = << >>
  PROVE  ~ Fits(mac, v4, v6, tag)
<1> DEFINE line == Override(mac, v4, v6, tag)
<1>1. Entry(mac, v4, v6, tag) = IF Fits(mac, v4, v6, tag) THEN <<line>> ELSE << >>
  BY DEF Entry
<1> HIDE DEF line
<1> QED
  BY <1>1

LEMMA EntryFor ==
  ASSUME NEW mac \in Token, NEW v4 \in Text, NEW v6 \in Text, NEW tag \in Text
  PROVE  Entry(mac, v4, v6, tag) \in Seq(EntriesOf(mac))
<1> DEFINE line == Override(mac, v4, v6, tag)
<1>1. line \in EntriesOf(mac)
  BY OverrideEntry
<1>2. Entry(mac, v4, v6, tag) = <<line>> \/ Entry(mac, v4, v6, tag) = << >>
  BY DEF Entry
<1> HIDE DEF line
<1>3. <<line>> \in Seq(EntriesOf(mac)) /\ << >> \in Seq(EntriesOf(mac))
  BY <1>1, EmptySeq
<1> QED
  BY <1>2, <1>3

-----------------------------------------------------------------------------
(***************************************************************************)
(* Every step of the component does one of seven things to the files.      *)
(***************************************************************************)
FilesKept == UNCHANGED <<files, flag>>

\* Lines are written for the default, or for the MAC of a row; none is written
\* only where what the data model has for it is longer than the entry.
Asked(mac, lines) ==
  /\ mac = DefaultMac \/ \E i \in DOMAIN rows : rows[i].val["mac"] = mac
  /\ lines = << >> => NoRoom(mac)

FilesReplaced ==
  /\ flag' = flag
  /\ \E mac \in Token : \E lines \in Seq(EntriesOf(mac)) :
       /\ Asked(mac, lines)
       /\ files' = ReplaceDnsmasqConfEntry(files, flag, mac, lines)

FilesCreated == flag' = flag /\ files' = CreateDnsmasqServerConf(files, flag, dflt).fs

FilesSet ==
  /\ flag # "1"
  /\ \E fs \in Files :
       /\ fs = files \/ fs = CreateDnsmasqServerConf(files, flag, dflt).fs
       /\ files' = SetXdnsConfig(fs).fs
       /\ IF SetXdnsConfig(fs).result THEN SaveFlag("1") ELSE flag' = flag

FlagOnly == "lte" \in WanStates /\ flag # "1" /\ SaveFlag("1") /\ files' = files

FilesUnset == files' = UnsetXdnsConfig(files) /\ SaveFlag("0")

FilesBooted ==
  /\ flag' \in Flag
  /\ \E fs \in Files :
       /\ \/ fs = files /\ flag' = flag
          \/ /\ flag' = flash
             /\ \E ns \in BootNameservers, here \in BOOLEAN : fs = BootFiles(files, ns, here)
       /\ files' = CosaXDNSInitialize(fs, flag', NoDefaults).fs

FileStep == \/ FilesKept \/ FilesReplaced \/ FilesCreated \/ FilesSet
            \/ FlagOnly \/ FilesUnset \/ FilesBooted

LEMMA RestartFiles ==
  ASSUME DmlInv, Restart
  PROVE  FilesBooted
<1>1. /\ flag' = flag /\ flag \in Flag /\ files \in Files
      /\ files' = CosaXDNSInitialize(files, flag', NoDefaults).fs
  BY DEF Restart, StartOn, DmlInv, TypeOK
<1> QED
  BY <1>1 DEF FilesBooted

LEMMA RebootFiles ==
  ASSUME DmlInv, Reboot
  PROVE  FilesBooted
<1>1. PICK ns \in BootNameservers, here \in BOOLEAN :
        flag' = flash /\ StartOn(BootFiles(files, ns, here))
  BY DEF Reboot
<1>2. BootFiles(files, ns, here) \in Files /\ flag' \in Flag
  BY <1>1, BootFilesType DEF DmlInv, TypeOK
<1>3. files' = CosaXDNSInitialize(BootFiles(files, ns, here), flag', NoDefaults).fs
  BY <1>1 DEF StartOn
<1> QED
  BY <1>1, <1>2, <1>3 DEF FilesBooted

LEMMA EnableFiles ==
  ASSUME DmlInv, NEW wan, EnableXdns(wan)
  PROVE  FilesSet \/ (wan = "lte" /\ flag # "1" /\ SaveFlag("1") /\ files' = files)
<1> DEFINE made == IF files.confExists THEN [fs |-> files, dflt |-> dflt]
                   ELSE CreateDnsmasqServerConf(files, flag, dflt)
<1>1. files \in Files /\ dflt \in Defaults
  BY DEF DmlInv, TypeOK, Defaults
<1>2. /\ made.fs = files \/ made.fs = CreateDnsmasqServerConf(files, flag, dflt).fs
      /\ made.fs \in Files
  BY <1>1, CreateType
<1>3. \/ /\ flag # "1" /\ files' = SetXdnsConfig(made.fs).fs
         /\ IF SetXdnsConfig(made.fs).result THEN SaveFlag("1") ELSE UNCHANGED <<flag, flash>>
      \/ wan = "lte" /\ flag # "1" /\ SaveFlag("1") /\ files' = files
  BY DEF EnableXdns
<1> HIDE DEF made
<1>4. CASE /\ flag # "1" /\ files' = SetXdnsConfig(made.fs).fs
           /\ IF SetXdnsConfig(made.fs).result THEN SaveFlag("1") ELSE UNCHANGED <<flag, flash>>
  <2>1. IF SetXdnsConfig(made.fs).result THEN SaveFlag("1") ELSE flag' = flag
    BY <1>4
  <2> QED
    BY <1>2, <1>4, <2>1, Zenon DEF FilesSet
<1> QED
  BY <1>3, <1>4

LEMMA DefaultEntriesAreDefault ==
  ASSUME dflt \in Defaults
  PROVE  DefaultEntries \in Seq(EntriesOf(DefaultMac))
<1> DEFINE one == Entry(DefaultMac, dflt["v4"], dflt["v6"], dflt["tag"])
           two == Entry(DefaultMac, dflt["s4"], dflt["s6"], dflt["tag"])
<1>1. \A f \in DefaultFields : dflt[f] \in Text
  BY DEF Defaults
<1>2. one \in Seq(EntriesOf(DefaultMac)) /\ two \in Seq(EntriesOf(DefaultMac))
  BY <1>1, EntryFor, WordsAssumption DEF DefaultFields
<1>3. DefaultEntries = one \o (IF dflt["s4"] # "" /\ dflt["s6"] # "" THEN two ELSE << >>)
  BY DEF DefaultEntries
<1> HIDE DEF one, two
<1> QED
  BY <1>2, <1>3, EmptySeq, ConcatProperties

LEMMA ApplyDefaultsFiles ==
  ASSUME DmlInv, ApplyDefaults
  PROVE  FilesKept \/ FilesReplaced \/ FilesCreated
<1>1. flag' = flag /\ (XDNS_Commit \/ XDNS_Rollback)
  BY DEF ApplyDefaults
<1>2. DefaultEntries \in Seq(EntriesOf(DefaultMac)) /\ DefaultMac \in Token
  BY DefaultEntriesAreDefault, WordsAssumption DEF DmlInv, TypeOK, Defaults
<1>3. CASE XDNS_Commit
  <2>1. Asked(DefaultMac, DefaultEntries)
    BY DEF Asked, NoRoom
  <2> QED
    BY <1>1, <1>2, <1>3, <2>1, Zenon DEF XDNS_Commit, FilesReplaced, FilesCreated
<1>4. CASE XDNS_Rollback
  BY <1>1, <1>4 DEF XDNS_Rollback, FilesKept
<1> QED
  BY <1>1, <1>3, <1>4

LEMMA ApplyRowFiles ==
  ASSUME DmlInv, NEW i \in DOMAIN rows, ApplyRow(i)
  PROVE  FilesKept \/ FilesReplaced
<1> DEFINE val == rows[i].val
           lines == Entry(val["mac"], val["v4"], val["v6"], val["tag"])
<1>1. flag' = flag /\ (DNSMappingTable_Commit(i) \/ files' = files)
  BY DEF ApplyRow
<1>2. rows[i] \in Row
  BY InsType DEF DmlInv, TypeOK
<1>3. \A f \in RowFields : val[f] \in Text
  BY <1>2 DEF Row
<1>4. ASSUME val["mac"] \in Token PROVE lines \in Seq(EntriesOf(val["mac"]))
  BY <1>3, <1>4, EntryFor DEF RowFields
<1>5. CASE DNSMappingTable_Commit(i)
  <2>1. files' = ReplaceDnsmasqConfEntry(files, flag, val["mac"], lines)
    BY <1>5 DEF DNSMappingTable_Commit
  <2>2. val["mac"] \in Token \/ val["mac"] = ""
    BY <1>3 DEF RowFields, Text
  <2>5. Asked(val["mac"], lines)
    <3>1. lines = << >> => ~ Fits(val["mac"], val["v4"], val["v6"], val["tag"])
      BY <1>3, EntryFitting DEF RowFields
    <3> HIDE DEF lines
    <3> QED
      BY <3>1, Zenon DEF Asked, NoRoom
  <2> HIDE DEF val, lines
  <2>3. CASE val["mac"] \in Token
    BY <1>1, <1>4, <2>1, <2>3, <2>5, Zenon DEF FilesReplaced
  <2>4. CASE val["mac"] = ""
    BY <1>1, <2>1, <2>4 DEF ReplaceDnsmasqConfEntry, FilesKept
  <2> QED
    BY <2>2, <2>3, <2>4
<1>6. CASE files' = files
  BY <1>1, <1>6 DEF FilesKept
<1> QED
  BY <1>1, <1>5, <1>6

LEMMA TableStepFiles ==
  ASSUME DmlInv, TableStep
  PROVE  FilesKept \/ FilesReplaced
<1>1. CASE DNSMappingTable_AddEntry
  BY <1>1 DEF DNSMappingTable_AddEntry, FilesKept
<1>2. ASSUME NEW i \in DOMAIN rows, DNSMappingTable_DelEntry(i) PROVE FilesKept
  BY <1>2 DEF DNSMappingTable_DelEntry, FilesKept
<1>3. ASSUME NEW i \in DOMAIN rows, NEW f \in RowFields, NEW v \in RowInputs[f],
             DNSMappingTable_SetParamStringValue(i, f, v)
      PROVE  FilesKept
  BY <1>3 DEF DNSMappingTable_SetParamStringValue, FilesKept
<1>4. ASSUME NEW i \in DOMAIN rows, ApplyRow(i) PROVE FilesKept \/ FilesReplaced
  BY <1>4, ApplyRowFiles
<1> QED
  BY <1>1, <1>2, <1>3, <1>4 DEF TableStep

LEMMA StepFiles ==
  ASSUME DmlInv, [Next]_vars
  PROVE  FileStep
<1>1. ASSUME NEW wan \in WanStates, EnableXdns(wan) PROVE FileStep
  BY <1>1, EnableFiles DEF FlagOnly, FileStep
<1>2. CASE DisableXdns
  BY <1>2 DEF DisableXdns, FilesUnset, FileStep
<1>3. ASSUME NEW f \in DefaultFields, NEW v \in DefaultInputs[f], XDNS_SetParamStringValue(f, v)
      PROVE  FileStep
  BY <1>3 DEF XDNS_SetParamStringValue, FilesKept, FileStep
<1>4. CASE ApplyDefaults
  BY <1>4, ApplyDefaultsFiles DEF FileStep
<1>5. CASE RollbackOverrun
  BY <1>5, RestartFiles DEF RollbackOverrun, FileStep
<1>6. CASE TableStep
  BY <1>6, TableStepFiles DEF FileStep
<1>7. CASE Restart
  BY <1>7, RestartFiles DEF FileStep
<1>8. CASE Reboot
  BY <1>8, RebootFiles DEF FileStep
<1>9. CASE UNCHANGED vars
  BY <1>9 DEF vars, FilesKept, FileStep
<1>10. ASSUME NEW i \in DOMAIN rows, RowOverrun(i) PROVE FileStep
  BY <1>10, RestartFiles DEF RowOverrun, FileStep
<1> QED
  BY <1>1, <1>2, <1>3, <1>4, <1>5, <1>6, <1>7, <1>8, <1>9, <1>10 DEF Next, Handler, StartAgain

-----------------------------------------------------------------------------
(***************************************************************************)
(* Valid overrides: whatever fails, no helper copies a line whose          *)
(* addresses inet_pton refuses.                                            *)
(***************************************************************************)
GivenValid(fs) == fs.overrides \in Seq(ValidLines)

LEMMA RefreshValid ==
  ASSUME NEW fs \in Files, NEW flg, GivenValid(fs)
  PROVE  GivenValid(RefreshResolvConfEntry(fs, flg))
<1>1. Keep(fs.conf, ValidLines) \in Seq(ValidLines)
  BY KeepValid DEF Files
<1> QED
  BY <1>1 DEF GivenValid, RefreshResolvConfEntry, Files

LEMMA AppendValid ==
  ASSUME NEW fs \in Files, NEW lines \in Seq(Line), GivenValid(fs)
  PROVE  GivenValid(AppendDnsmasqConfEntry(fs, lines))
BY DEF GivenValid, AppendDnsmasqConfEntry, Files

LEMMA ReplaceValid ==
  ASSUME NEW fs \in Files, NEW flg, NEW mac, NEW lines \in Seq(Line), GivenValid(fs)
  PROVE  GivenValid(ReplaceDnsmasqConfEntry(fs, flg, mac, lines))
<1> DEFINE kept == [fs EXCEPT !.conf = Keep(@, Line \ Mentioning(mac))]
<1>1. Keep(fs.conf, Line \ Mentioning(mac)) \in Seq(Line)
  BY KeepSub DEF Files
<1>2. kept \in Files /\ GivenValid(kept)
  BY <1>1 DEF Files, GivenValid
<1>3. /\ AppendDnsmasqConfEntry(kept, lines) \in Files
      /\ GivenValid(AppendDnsmasqConfEntry(kept, lines))
  BY <1>2, AppendType, AppendValid
<1> QED
  BY <1>3, RefreshValid DEF ReplaceDnsmasqConfEntry

\* CreateDnsmasqServerConf leaves the files alone or appends one line, or
\* none that has no room, to the stored policy and refreshes resolv.conf.
LEMMA CreateCases ==
  ASSUME NEW fs \in Files, NEW flg, NEW d \in Defaults
  PROVE  \/ CreateDnsmasqServerConf(fs, flg, d).fs = fs
         \/ \E lines \in Seq(EntriesOf(DefaultMac)) :
              CreateDnsmasqServerConf(fs, flg, d).fs
                = RefreshResolvConfEntry(AppendDnsmasqConfEntry(fs, lines), flg)
<1> DEFINE new == [d EXCEPT !["v4"]  = IF @ \in V4 THEN @ ELSE fs.ns.v4,
                            !["v6"]  = IF @ \in V6 THEN @ ELSE fs.ns.v6,
                            !["s4"]  = "",
                            !["s6"]  = "",
                            !["tag"] = IF @ = "" THEN "empty" ELSE @]
           lines == Entry(DefaultMac, new["v4"], new["v6"], new["tag"])
           res == CreateDnsmasqServerConf(fs, flg, d)
<1>1. fs.ns.v4 \in Text /\ fs.ns.v6 \in Text
  BY AddressesAreText DEF Files
<1>2. new["v4"] \in Text /\ new["v6"] \in Text /\ new["tag"] \in Text
  BY <1>1, AddressesAreText DEF Defaults, DefaultFields
<1> HIDE DEF new
<1>4. lines \in Seq(EntriesOf(DefaultMac))
  BY <1>2, EntryFor, WordsAssumption
<1>5. \/ res = [fs |-> fs, dflt |-> d]
      \/ res = [fs |-> fs, dflt |-> new]
      \/ res = [fs |-> RefreshResolvConfEntry(AppendDnsmasqConfEntry(fs, lines), flg),
                dflt |-> new]
  BY Zenon DEF CreateDnsmasqServerConf, new, lines
<1> HIDE DEF lines, res
<1>6. \/ res.fs = fs
      \/ res.fs = RefreshResolvConfEntry(AppendDnsmasqConfEntry(fs, lines), flg)
  BY <1>5
<1> QED
  BY <1>4, <1>6 DEF res

LEMMA CreateValid ==
  ASSUME NEW fs \in Files, NEW flg, NEW d \in Defaults, GivenValid(fs)
  PROVE  GivenValid(CreateDnsmasqServerConf(fs, flg, d).fs)
BY CreateCases, EntriesAreLines, AppendType, AppendValid, RefreshValid

LEMMA SetValid ==
  ASSUME NEW fs \in Files, GivenValid(fs)
  PROVE  GivenValid(SetXdnsConfig(fs).fs)
<1>1. Keep(fs.conf, ValidLines) \in Seq(ValidLines)
  BY KeepValid DEF Files
<1> QED
  BY <1>1 DEF GivenValid, SetXdnsConfig, Files

\* What a start does to the files.
LEMMA InitializeFiles ==
  ASSUME NEW fs \in Files, NEW flg, NEW d
  PROVE  CosaXDNSInitialize(fs, flg, d).fs
           = IF fs.confExists THEN RefreshResolvConfEntry(fs, flg)
             ELSE CreateDnsmasqServerConf(fs, flg, d).fs
BY DEF CosaXDNSInitialize, CosaDmlGetSelfHealCfg

LEMMA InitializeValid ==
  ASSUME NEW fs \in Files, NEW flg, NEW d \in Defaults, GivenValid(fs)
  PROVE  GivenValid(CosaXDNSInitialize(fs, flg, d).fs)
BY InitializeFiles, RefreshValid, CreateValid

LEMMA BootFilesValid ==
  ASSUME NEW fs \in Files, NEW ns, NEW here
  PROVE  GivenValid(BootFiles(fs, ns, here))
BY EmptySeq DEF GivenValid, BootFiles, Files

LEMMA StepValid ==
  ASSUME DmlInv, GivenValid(files), [Next]_vars
  PROVE  GivenValid(files')
<1>1. FileStep /\ files \in Files /\ dflt \in Defaults
  BY StepFiles DEF DmlInv, TypeOK, Defaults
<1>2. CASE FilesKept
  BY <1>2 DEF FilesKept
<1>3. CASE FilesReplaced
  BY <1>1, <1>3, EntriesAreLines, ReplaceValid DEF FilesReplaced
<1>4. CASE FilesCreated
  BY <1>1, <1>4, CreateValid DEF FilesCreated
<1>5. CASE FilesSet
  <2>1. PICK fs \in Files :
          /\ fs = files \/ fs = CreateDnsmasqServerConf(files, flag, dflt).fs
          /\ files' = SetXdnsConfig(fs).fs
    BY <1>5 DEF FilesSet
  <2>2. GivenValid(fs)
    BY <1>1, <2>1, CreateValid
  <2> QED
    BY <2>1, <2>2, SetValid
<1>6. CASE FlagOnly
  BY <1>6 DEF FlagOnly
<1>7. CASE FilesUnset
  BY <1>1, <1>7, EmptySeq DEF FilesUnset, UnsetXdnsConfig, GivenValid, Files
<1>8. CASE FilesBooted
  <2>1. PICK fs \in Files :
          /\ \/ fs = files
             \/ \E ns \in BootNameservers, here \in BOOLEAN : fs = BootFiles(files, ns, here)
          /\ files' = CosaXDNSInitialize(fs, flag', NoDefaults).fs
    BY <1>8 DEF FilesBooted
  <2>2. GivenValid(fs)
    BY <1>1, <2>1, BootFilesValid
  <2> QED
    BY <2>1, <2>2, InitializeValid, NoDefaultsType
<1> QED
  BY <1>1, <1>2, <1>3, <1>4, <1>5, <1>6, <1>7, <1>8 DEF FileStep

\* The files before the first start have no override lines, CosaXDNSInitialize
\* makes the initial ones from them.
LEMMA InitFiles ==
  ASSUME Init
  PROVE  \E fs \in Files : /\ fs.overrides = << >>
                           /\ ~ fs.confExists => fs.conf = << >>
                           /\ files = CosaXDNSInitialize(fs, flag, NoDefaults).fs
<1>1. PICK conf \in BootConf, confHere \in BOOLEAN, ns \in BootNameservers, here \in BOOLEAN :
        /\ confHere \/ conf = << >>
        /\ files = CosaXDNSInitialize(
                     [confExists |-> confHere, conf |-> conf, resolvExists |-> here,
                      ns |-> ns, overrides |-> << >>], flag, NoDefaults).fs
  BY DEF Init
<1> DEFINE fs == [confExists |-> confHere, conf |-> conf, resolvExists |-> here,
                  ns |-> ns, overrides |-> << >>]
<1>2. fs \in Files
  <2>1. conf \in Seq(Line) /\ ns \in [v4 : V4 \cup {""}, v6 : V6 \cup {""}]
    BY DmlAssumption
  <2> QED
    BY <2>1, EmptySeq DEF Files
<1>3. fs.overrides = << >> /\ (~ fs.confExists => fs.conf = << >>)
      /\ files = CosaXDNSInitialize(fs, flag, NoDefaults).fs
  BY <1>1
<1> HIDE DEF fs
<1> QED
  BY <1>2, <1>3

\* dnsmasq is never given an override line with an address inet_pton refuses,
\* whatever is written to the data model, found at boot, or fails.
THEOREM OverridesValid == Spec => []OnlyValidOverrides
<1> DEFINE Inv == DmlInv /\ GivenValid(files)
<1>1. Init => Inv
  <2> SUFFICES ASSUME Init PROVE Inv
    OBVIOUS
  <2>1. PICK fs \in Files : fs.overrides = << >> /\ files = CosaXDNSInitialize(fs, flag, NoDefaults).fs
    BY InitFiles
  <2>2. GivenValid(fs)
    BY <2>1, EmptySeq DEF GivenValid
  <2> QED
    BY <2>1, <2>2, InitializeValid, NoDefaultsType, InitInv
<1>2. Inv /\ [Next]_vars => Inv'
  BY StepInv, StepValid DEF GivenValid
<1>3. Inv => OnlyValidOverrides
  <2> SUFFICES ASSUME files.overrides \in Seq(ValidLines),
                      NEW i \in DOMAIN files.overrides
               PROVE  files.overrides[i] \in ValidLines
    BY DEF GivenValid, OnlyValidOverrides
  <2> QED
    BY LenProperties, ElementOfSeq
<1> QED
  BY <1>1, <1>2, <1>3, PTL DEF Spec

-----------------------------------------------------------------------------
(***************************************************************************)
(* The two files in step.  A system whose syscfg_set may fail can switch   *)
(* resolv.conf without the flag, so it is excluded by assumption.          *)
(***************************************************************************)
Agree(fs, flg) ==
  /\ fs.resolvExists =>
       \/ flg = "1" /\ fs.overrides = Keep(fs.conf, ValidLines)
       \/ (flg # "1" \/ "lte" \in WanStates) /\ fs.overrides = << >>
  /\ ~ fs.confExists => fs.conf = << >>

\* resolv.conf carries no override lines while the flag is off.
CleanWhenOff(fs, flg) == flg # "1" /\ fs.resolvExists => fs.overrides = << >>

LEMMA RefreshAgree ==
  ASSUME NEW fs \in Files, NEW flg, CleanWhenOff(fs, flg), fs.confExists
  PROVE  Agree(RefreshResolvConfEntry(fs, flg), flg)
BY DEF Agree, CleanWhenOff, RefreshResolvConfEntry, Files

\* Whatever was appended to or removed from the stored policy before.
LEMMA ChangedAgree ==
  ASSUME NEW fs \in Files, NEW flg, NEW lines \in Seq(Line), CleanWhenOff(fs, flg)
  PROVE  Agree(RefreshResolvConfEntry(AppendDnsmasqConfEntry(fs, lines), flg), flg)
<1>1. AppendDnsmasqConfEntry(fs, lines) \in Files
  BY AppendType
<1>2. /\ CleanWhenOff(AppendDnsmasqConfEntry(fs, lines), flg)
      /\ AppendDnsmasqConfEntry(fs, lines).confExists
  BY DEF CleanWhenOff, AppendDnsmasqConfEntry, Files
<1> QED
  BY <1>1, <1>2, RefreshAgree

LEMMA ReplaceAgree ==
  ASSUME NEW fs \in Files, NEW flg, NEW mac, NEW lines \in Seq(Line), Agree(fs, flg)
  PROVE  Agree(ReplaceDnsmasqConfEntry(fs, flg, mac, lines), flg)
<1> DEFINE kept == [fs EXCEPT !.conf = Keep(@, Line \ Mentioning(mac))]
<1>1. Keep(fs.conf, Line \ Mentioning(mac)) \in Seq(Line)
  BY KeepSub DEF Files
<1>2. kept \in Files /\ CleanWhenOff(kept, flg)
  BY <1>1 DEF Files, Agree, CleanWhenOff
<1>3. CASE mac = ""
  BY <1>3 DEF ReplaceDnsmasqConfEntry
<1>4. CASE mac # ""
  <2>1. ReplaceDnsmasqConfEntry(fs, flg, mac, lines)
          = RefreshResolvConfEntry(AppendDnsmasqConfEntry(kept, lines), flg)
    BY <1>4 DEF ReplaceDnsmasqConfEntry
  <2> HIDE DEF kept
  <2> QED
    BY <1>2, <2>1, ChangedAgree
<1> QED
  BY <1>3, <1>4

LEMMA CreateAgree ==
  ASSUME NEW fs \in Files, NEW flg, NEW d \in Defaults, Agree(fs, flg)
  PROVE  Agree(CreateDnsmasqServerConf(fs, flg, d).fs, flg)
<1>1. CleanWhenOff(fs, flg)
  BY DEF Agree, CleanWhenOff
<1> QED
  BY <1>1, CreateCases, EntriesAreLines, ChangedAgree

\* The flag is off, so resolv.conf had no override lines before.
LEMMA SetAgree ==
  ASSUME NEW fs \in Files, NEW flg, flg # "1", Agree(fs, flg)
  PROVE  /\ ~ SetXdnsConfig(fs).result => Agree(SetXdnsConfig(fs).fs, flg)
         /\ SetXdnsConfig(fs).result => Agree(SetXdnsConfig(fs).fs, "1")
<1> DEFINE valid == Keep(fs.conf, ValidLines)
           found == Keep(valid, ValidDefaults) # << >>
<1>1. valid \in Seq(ValidLines)
  BY KeepValid DEF Files
<1>2. Keep(valid, ValidLines) = valid
  BY <1>1, KeepAll
<1>3. CASE ~ (fs.resolvExists /\ fs.confExists)
  BY <1>3 DEF SetXdnsConfig
<1>4. CASE fs.resolvExists /\ fs.confExists
  <2>1. SetXdnsConfig(fs) =
          [fs |-> [fs EXCEPT !.conf = valid,
                             !.overrides = IF found THEN valid ELSE @],
           result |-> found]
    BY <1>4 DEF SetXdnsConfig
  <2> DEFINE new == SetXdnsConfig(fs).fs
             set == [fs EXCEPT !.conf = valid, !.overrides = IF found THEN valid ELSE @]
  <2>2. /\ set.conf = valid /\ set.overrides = IF found THEN valid ELSE fs.overrides
        /\ set.confExists = fs.confExists /\ set.resolvExists = fs.resolvExists
    <3> HIDE DEF valid, found
    <3> QED
      BY DEF Files
  <2>3. SetXdnsConfig(fs) = [fs |-> set, result |-> found]
    BY <2>1
  <2> HIDE DEF valid, found, set
  <2>4. new = set
    BY <2>3
  <2>5. SetXdnsConfig(fs).result <=> found
    BY <1>4 DEF SetXdnsConfig, found, valid
  <2> HIDE DEF new
  <2>6. CASE found
    <3>1. Agree(new, "1")
      BY <1>2, <1>4, <2>6, <2>2, <2>4 DEF Agree
    <3> QED
      BY <2>6, <2>5, <3>1 DEF new
  <2>7. CASE ~ found
    <3>1. Agree(new, flg)
      BY <1>4, <2>7, <2>2, <2>4 DEF Agree
    <3> QED
      BY <2>7, <2>5, <3>1 DEF new
  <2> QED
    BY <2>6, <2>7
<1> QED
  BY <1>3, <1>4

\* A start needs to find no override lines unless the flag is on and they are
\* those of an existing file.
LEMMA InitializeAgree ==
  ASSUME NEW fs \in Files, NEW flg, NEW d \in Defaults, CleanWhenOff(fs, flg),
         ~ fs.confExists => Agree(fs, flg)
  PROVE  Agree(CosaXDNSInitialize(fs, flg, d).fs, flg)
<1>1. CASE fs.confExists
  BY <1>1, InitializeFiles, RefreshAgree
<1>2. CASE ~ fs.confExists
  BY <1>2, InitializeFiles, CreateAgree
<1> QED
  BY <1>1, <1>2

\* Before the first start and after a reboot resolv.conf is free of override
\* lines, and an absent stored policy is an empty one.
LEMMA FreshAgree ==
  ASSUME NEW fs \in Files, NEW flg, fs.overrides = << >>,
         ~ fs.confExists => fs.conf = << >>
  PROVE  Agree(CosaXDNSInitialize(fs, flg, NoDefaults).fs, flg)
<1>1. CleanWhenOff(fs, flg)
  BY DEF CleanWhenOff
<1>2. ~ fs.confExists => Agree(fs, flg)
  BY KeepEmpty DEF Agree
<1> QED
  BY <1>1, <1>2, InitializeAgree, NoDefaultsType

LEMMA SaveFlagOk ==
  ASSUME "setFails" \notin SyscfgOutcomes, NEW value, SaveFlag(value)
  PROVE  flag' = value
BY DEF SaveFlag

LEMMA StepAgree ==
  ASSUME "setFails" \notin SyscfgOutcomes, DmlInv, Agree(files, flag), [Next]_vars
  PROVE  Agree(files', flag')
<1>1. FileStep /\ files \in Files /\ dflt \in Defaults
  BY StepFiles DEF DmlInv, TypeOK, Defaults
<1>2. CASE FilesKept
  BY <1>2 DEF FilesKept
<1>3. CASE FilesReplaced
  BY <1>1, <1>3, EntriesAreLines, ReplaceAgree DEF FilesReplaced
<1>4. CASE FilesCreated
  BY <1>1, <1>4, CreateAgree DEF FilesCreated
<1>5. CASE FilesSet
  <2>1. PICK fs \in Files :
          /\ fs = files \/ fs = CreateDnsmasqServerConf(files, flag, dflt).fs
          /\ files' = SetXdnsConfig(fs).fs
          /\ IF SetXdnsConfig(fs).result THEN SaveFlag("1") ELSE flag' = flag
    BY <1>5 DEF FilesSet
  <2>2. Agree(fs, flag) /\ flag # "1"
    BY <1>1, <1>5, <2>1, CreateAgree DEF FilesSet
  <2>3. CASE SetXdnsConfig(fs).result
    BY <2>1, <2>2, <2>3, SetAgree, SaveFlagOk
  <2>4. CASE ~ SetXdnsConfig(fs).result
    BY <2>1, <2>2, <2>4, SetAgree
  <2> QED
    BY <2>3, <2>4
<1>6. CASE FlagOnly
  <2>1. flag' = "1" /\ files' = files /\ flag # "1" /\ "lte" \in WanStates
    BY <1>6, SaveFlagOk DEF FlagOnly
  <2> QED
    BY <2>1 DEF Agree
<1>7. CASE FilesUnset
  <2>1. flag' = "0" /\ files' = [files EXCEPT !.overrides = << >>]
    BY <1>7, SaveFlagOk DEF FilesUnset, UnsetXdnsConfig
  <2> QED
    BY <1>1, <2>1 DEF Agree, Files
<1>8. CASE FilesBooted
  <2>1. PICK fs \in Files :
          /\ \/ fs = files /\ flag' = flag
             \/ \E ns \in BootNameservers, here \in BOOLEAN : fs = BootFiles(files, ns, here)
          /\ files' = CosaXDNSInitialize(fs, flag', NoDefaults).fs
    BY <1>8 DEF FilesBooted
  <2>2. CASE fs = files /\ flag' = flag
    <3>1. CleanWhenOff(fs, flag') /\ (~ fs.confExists => Agree(fs, flag'))
      BY <2>2 DEF Agree, CleanWhenOff
    <3> QED
      BY <2>1, <3>1, InitializeAgree, NoDefaultsType
  <2>3. CASE \E ns \in BootNameservers, here \in BOOLEAN : fs = BootFiles(files, ns, here)
    <3>1. fs.overrides = << >> /\ (~ fs.confExists => fs.conf = << >>)
      BY <1>1, <2>3 DEF Agree, BootFiles, Files
    <3> QED
      BY <2>1, <3>1, FreshAgree
  <2> QED
    BY <2>1, <2>2, <2>3
<1> QED
  BY <1>1, <1>2, <1>3, <1>4, <1>5, <1>6, <1>7, <1>8 DEF FileStep

THEOREM FilesAgree ==
  ASSUME "setFails" \notin SyscfgOutcomes
  PROVE  Spec => [](DmlInv /\ Agree(files, flag))
<1> DEFINE Inv == DmlInv /\ Agree(files, flag)
<1>1. Init => Inv
  BY InitInv, InitFiles, FreshAgree
<1>2. Inv /\ [Next]_vars => Inv'
  BY StepInv, StepAgree DEF Agree
<1> QED
  BY <1>1, <1>2, PTL DEF Spec

\* With a syscfg that takes what it is given, dnsmasq never reads the override
\* lines of an older policy, nor any while XDNS is off.
THEOREM NoStalePolicy ==
  ASSUME "setFails" \notin SyscfgOutcomes
  PROVE  Spec => []NeverStale
<1>1. DmlInv /\ Agree(files, flag) => NeverStale
  BY DEF Agree, NeverStale
<1> QED
  BY <1>1, FilesAgree, PTL

\* On erouter0 the two files are in step after every handler, also when the
\* commit of the flag to flash fails and a reboot brings back the old one.
THEOREM StoresInStep ==
  ASSUME "setFails" \notin SyscfgOutcomes, WanStates \subseteq {"erouter"}
  PROVE  Spec => []FilesInStep
<1>1. "lte" \notin WanStates
  OBVIOUS
<1>2. DmlInv /\ Agree(files, flag) => FilesInStep
  BY <1>1 DEF Agree, FilesInStep
<1> QED
  BY <1>2, FilesAgree, PTL

-----------------------------------------------------------------------------
(***************************************************************************)
(* Switching on.                                                           *)
(***************************************************************************)

LEMMA SetFindsDefault ==
  ASSUME NEW fs \in Files, SetXdnsConfig(fs).result
  PROVE  \E i \in DOMAIN SetXdnsConfig(fs).fs.overrides :
           SetXdnsConfig(fs).fs.overrides[i] \in ValidDefaults
<1> DEFINE valid == Keep(fs.conf, ValidLines)
           found == Keep(valid, ValidDefaults) # << >>
<1>1. valid \in Seq(Line)
  BY KeepSub DEF Files
<1>2. /\ fs.resolvExists /\ fs.confExists /\ found
      /\ SetXdnsConfig(fs).fs = [fs EXCEPT !.conf = valid, !.overrides = valid]
  BY DEF SetXdnsConfig
<1>3. \E i \in DOMAIN valid : valid[i] \in ValidDefaults
  <2> HIDE DEF valid
  <2> QED
    BY <1>1, <1>2, KeepFound
<1>4. SetXdnsConfig(fs).fs.overrides = valid
  <2> HIDE DEF valid
  <2> QED
    BY <1>2 DEF Files
<1> QED
  BY <1>3, <1>4, Zenon

\* On erouter0 the enable handler stores the flag only with a valid default line
\* in resolv.conf, whatever syscfg does: the line that SetXdnsConfig has found is
\* among those it copies.  On another WAN it stores the flag alone.
THEOREM DefaultWhenEnabled == Spec => EnabledWithDefault
<1>1. ASSUME DmlInv, EnableXdns("erouter"), flag' = "1"
      PROVE  \E i \in DOMAIN files'.overrides : files'.overrides[i] \in ValidDefaults
  <2> DEFINE made == IF files.confExists THEN [fs |-> files, dflt |-> dflt]
                     ELSE CreateDnsmasqServerConf(files, flag, dflt)
  <2>1. files \in Files /\ dflt \in Defaults
    BY <1>1 DEF DmlInv, TypeOK, Defaults
  <2>2. made.fs \in Files
    BY <2>1, CreateType
  <2>3. /\ files' = SetXdnsConfig(made.fs).fs /\ flag # "1"
        /\ ~ SetXdnsConfig(made.fs).result => flag' = flag
    BY <1>1 DEF EnableXdns
  <2> HIDE DEF made
  <2>4. SetXdnsConfig(made.fs).result
    BY <1>1, <2>3
  <2> QED
    BY <2>2, <2>3, <2>4, SetFindsDefault
<1>2. DmlInv /\ [Next]_vars =>
        [EnableXdns("erouter") /\ flag' = "1" =>
           \E i \in DOMAIN files'.overrides : files'.overrides[i] \in ValidDefaults]_vars
  BY <1>1
<1> QED
  BY <1>2, DmlInvariant, PTL DEF Spec, EnabledWithDefault
=============================================================================
