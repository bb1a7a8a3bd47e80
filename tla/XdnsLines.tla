----------------------------- MODULE XdnsLines -----------------------------
(***************************************************************************)
(* The two files the XDNS component maintains, and what its helpers in     *)
(* cosa_xdns_apis.c do to their contents when nothing interferes:          *)
(*                                                                         *)
(*   dnsmasq_servers.conf   the stored policy, one line per device          *)
(*                            dnsoverride <mac> <ipv4> <ipv6> [<tag>]       *)
(*   resolv.conf            what dnsmasq reads: the nameservers of the WAN  *)
(*                          and, while XDNS is on, a copy of the valid      *)
(*                          lines of the stored policy                      *)
(*                                                                         *)
(* A line is the sequence of its words, because every reader splits it at  *)
(* blanks: an empty field leaves no word and shifts those behind it.  Of   *)
(* a nameserver list the code only uses the first address with a dot and   *)
(* the first with a colon.  Every writer puts the nameservers first and    *)
(* the override lines after them, so the two parts are kept apart here.    *)
(* A tag is modelled up to a trailing newline (XDNS_Rollback copies the    *)
(* newline of the line into it; readers skip the blank line it causes).    *)
(***************************************************************************)
EXTENDS Integers, Sequences

CONSTANTS
  Token,       \* the words a line may hold, none of them empty
  Dotted,      \* words with a '.', which strstr(token, ".") accepts
  Coloned,     \* words with a ':', which strstr(token, ":") accepts
  V4,          \* words inet_pton(AF_INET) accepts
  V6,          \* words inet_pton(AF_INET6) accepts
  Mac,         \* words isValidMacAddress accepts
  DefaultMac,  \* "00:00:00:00:00:00", the key of the default lines
  Width,       \* [word -> its length in characters]
  Parts        \* [word -> the words strstr finds in it]

ASSUME WordsAssumption ==
  /\ "" \notin Token
  /\ {"dnsoverride", "empty", DefaultMac} \subseteq Token
  /\ Dotted \subseteq Token /\ Coloned \subseteq Token /\ Mac \subseteq Token
  /\ V4 \subseteq Dotted /\ V6 \subseteq Coloned
  /\ "dnsoverride" \notin Mac /\ DefaultMac # "dnsoverride"
  /\ Width \in [Token \cup {""} -> Nat]
  /\ Parts \in [Token -> SUBSET Token]
  /\ \A w \in Token : w \in Parts[w]
  /\ DefaultMac \notin Parts["dnsoverride"]

MAX_XDNS_SERV == 2
MAX_BUF_SIZE == 256

Text == Token \cup {""}
Line == Seq(Token)

(***************************************************************************)
(* The elements of s that lie in S, in their order: SelectSeq, written     *)
(* with a recursive function so that theorems can be proved about it.      *)
(***************************************************************************)
KeepUpTo(s, S) ==
  LET F[i \in 0..Len(s)] ==
        IF i = 0 THEN << >>
        ELSE IF s[i] \in S THEN Append(F[i-1], s[i]) ELSE F[i-1]
  IN F

Keep(s, S) == KeepUpTo(s, S)[Len(s)]

(***************************************************************************)
(* Lines.                                                                  *)
(***************************************************************************)

\* sprintf("dnsoverride %s %s %s %s\n", ...): empty fields leave no word
Override(mac, v4, v6, tag) ==
  <<"dnsoverride">> \o Keep(<<mac, v4, v6, tag>>, Token)

\* "dnsoverride %s %s %s %s\n" and the terminating zero have room in the entry
Fits(mac, v4, v6, tag) ==
  16 + Width[mac] + Width[v4] + Width[v6] + Width[tag] < MAX_BUF_SIZE

\* The line a handler adds.  sprintf_s leaves an entry empty that does not fit:
\* the error is only logged, and writing the entry then writes nothing.
Entry(mac, v4, v6, tag) ==
  IF Fits(mac, v4, v6, tag) THEN <<Override(mac, v4, v6, tag)>> ELSE << >>

\* strstr(line, mac): the helpers look for the MAC anywhere in the line, also
\* inside a longer word (a masked MAC, an IPv6 address, a tag)
Mentioning(mac) == {l \in Line : \E i \in DOMAIN l : mac \in Parts[l[i]]}

\* word i of the line exists and is accepted by strstr(token, ".") or ":"
WithWord(i, S) == {l \in Line : Len(l) >= i /\ l[i] \in S}

\* the lines that Refresh and SetXdnsConfig copy to resolv.conf
ValidLines == WithWord(3, V4) \cap WithWord(4, V6)

ValidDefaults == ValidLines \cap {l \in Line : l[2] = DefaultMac}

Word(l, i) == IF Len(l) >= i THEN l[i] ELSE ""

(***************************************************************************)
(* The files.  conf is empty while dnsmasq_servers.conf does not exist.    *)
(***************************************************************************)
Files == [confExists   : BOOLEAN,
          conf         : Seq(Line),
          resolvExists : BOOLEAN,
          ns           : [v4 : V4 \cup {""}, v6 : V6 \cup {""}],
          overrides    : Seq(Line)]

Flag == {"unset", "0", "1"}   \* syscfg X_RDKCENTRAL-COM_XDNS

\* Mutant: the addresses of a line are not checked before it is copied.
RefreshUnchecked(fs, flag) ==
  IF flag = "1" /\ fs.resolvExists /\ fs.confExists
  THEN [fs EXCEPT !.overrides = fs.conf] ELSE fs

\* Copy the valid lines to resolv.conf; only while the flag is "1" and
\* both files can be opened.
RefreshResolvConfEntry(fs, flag) ==
  IF flag = "1" /\ fs.resolvExists /\ fs.confExists
  THEN [fs EXCEPT !.overrides = Keep(fs.conf, ValidLines)]
  ELSE fs

\* Mutant: the file is opened with "w" instead of "a".
AppendTruncating(fs, lines) == [fs EXCEPT !.confExists = TRUE, !.conf = lines]

AppendDnsmasqConfEntry(fs, lines) ==
  [fs EXCEPT !.confExists = TRUE, !.conf = @ \o lines]

\* Mutant: the old lines are left in the file.
ReplaceKeepsOld(fs, flag, mac, lines) ==
  IF mac = "" THEN fs
  ELSE RefreshResolvConfEntry(AppendDnsmasqConfEntry(fs, lines), flag)

\* Mutant: resolv.conf is not refreshed.
ReplaceNotRefreshed(fs, flag, mac, lines) ==
  IF mac = "" THEN fs
  ELSE AppendDnsmasqConfEntry([fs EXCEPT !.conf = Keep(@, Line \ Mentioning(mac))], lines)

\* Mutant: no early return for an empty MAC, which strstr finds in every line.
ReplaceAnyMac(fs, flag, mac, lines) ==
  RefreshResolvConfEntry(
    AppendDnsmasqConfEntry(
      [fs EXCEPT !.conf = IF mac = "" THEN << >> ELSE Keep(@, Line \ Mentioning(mac))],
      lines), flag)

\* Replace every line that mentions mac by the given ones.  DelEntry passes
\* NULL for the lines: the early return is then taken and nothing changes.
ReplaceDnsmasqConfEntry(fs, flag, mac, lines) ==
  IF mac = "" THEN fs
  ELSE RefreshResolvConfEntry(
         AppendDnsmasqConfEntry(
           [fs EXCEPT !.conf = Keep(@, Line \ Mentioning(mac))], lines), flag)

\* Mutant: any valid line does, the default one is not looked for.
SetAnyLine(fs) ==
  LET valid == Keep(fs.conf, ValidLines)
  IN IF ~ (fs.resolvExists /\ fs.confExists)
     THEN [fs |-> fs, result |-> FALSE]
     ELSE [fs |-> [fs EXCEPT !.conf = valid, !.overrides = valid], result |-> TRUE]

\* Mutant: the lines are copied without a check of their addresses.
SetUnchecked(fs) ==
  IF ~ (fs.resolvExists /\ fs.confExists)
  THEN [fs |-> fs, result |-> FALSE]
  ELSE [fs |-> [fs EXCEPT !.overrides = fs.conf],
        result |-> Keep(fs.conf, ValidDefaults) # << >>]

\* "copy dnsoverride entries from dnsmasq_servers.conf to resolv.conf,
\* validate and cleanup": result is what the function returns.
SetXdnsConfig(fs) ==
  LET valid == Keep(fs.conf, ValidLines)
      found == Keep(valid, ValidDefaults) # << >>
  IN IF ~ (fs.resolvExists /\ fs.confExists)
     THEN [fs |-> fs, result |-> FALSE]
     ELSE [fs |-> [fs EXCEPT !.conf = valid,
                             !.overrides = IF found THEN valid ELSE @],
           result |-> found]

\* Mutant: the default lines stay.
UnsetDevicesOnly(fs) == [fs EXCEPT !.overrides = Keep(@, Mentioning(DefaultMac))]

\* Drop the override lines of resolv.conf; nothing to do without the file.
UnsetXdnsConfig(fs) == [fs EXCEPT !.overrides = << >>]

\* The lines of dnsmasq_servers.conf that mention mac, in file order.
GetDnsMasqFileEntry(fs, mac) ==
  IF mac = "" \/ ~ fs.confExists THEN << >> ELSE Keep(fs.conf, Mentioning(mac))

=============================================================================
