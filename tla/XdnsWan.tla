------------------------------ MODULE XdnsWan ------------------------------
(***************************************************************************)
(* WAN failover (builds with WAN_FAILOVER_SUPPORTED).  The override lines  *)
(* belong into resolv.conf only while erouter0 is the active WAN.  Two     *)
(* threads see to it: the handler that enables XDNS asks sysevent for the  *)
(* active WAN, and a listener is notified when it changes.  This module    *)
(* runs the listener next to the management thread of XdnsDml.             *)
(*                                                                         *)
(* The listener reads the flag and acts on it in a second step; the        *)
(* enabling handler reads the WAN and acts on it in a second step.  What   *)
(* the helpers do to the files is one step.                                *)
(***************************************************************************)
EXTENDS XdnsDml

CONSTANTS
  WanNames,     \* interfaces that may be the active WAN
  ErouterNames, \* those whose first eight characters are "erouter0"
  Documents,    \* webconfig documents: the lines and the flag they ask for
  MaxPending    \* bound: notifications on their way

Primary == "erouter0"   \* XDNS_PRIMARY_WAN_IF_NAME

ASSUME WanAssumption ==
  /\ Primary \in ErouterNames /\ ErouterNames \subseteq WanNames
  /\ WanNames \subseteq STRING /\ "" \notin WanNames
  /\ Documents \subseteq [lines : Seq(Line), enable : BOOLEAN]
  /\ MaxPending \in Nat

VARIABLES
  wan,        \* sysevent current_wan_ifname
  listening,  \* sysevent_setnotification has succeeded
  pending,    \* notifications sent to the listener and not received
  event,      \* the one it has received and the flag it has read, or Nothing
  prev,       \* prevWanIfname
  enabling,   \* the WAN the enabling handler has read, or "no"
  astray      \* history: listener, handlers and documents have crossed each
              \* other, and no notification has been acted on since

wanVars == <<wan, listening, pending, event, prev, enabling, astray>>
allWanVars == <<vars, wanVars>>

Nothing == [name |-> "", flag |-> "unset", crossed |-> FALSE]

(***************************************************************************)
(* The active WAN.                                                         *)
(***************************************************************************)

\* sysevent keeps nothing for a client that has not registered yet.
WanChanges(n) ==
  /\ wan' = n
  /\ IF listening
     THEN /\ Len(pending) < MaxPending
          /\ pending' = Append(pending, n)
          /\ UNCHANGED astray
     ELSE /\ UNCHANGED pending
          /\ astray' = (astray \/ n # prev)
  /\ UNCHANGED <<vars, listening, event, prev, enabling>>

(***************************************************************************)
(* The listener: xdns_sysevent_handler_th.                                 *)
(***************************************************************************)

\* xdns_sysevent_init; the value the WAN has now is not asked for.
Register ==
  /\ ~ listening
  /\ listening' = TRUE
  /\ UNCHANGED <<vars, wan, pending, event, prev, enabling, astray>>

\* sysevent_getnotification, then syscfg_get of the flag
Receive ==
  /\ pending # << >> /\ event = Nothing
  /\ event' = [name |-> Head(pending), flag |-> flag, crossed |-> FALSE]
  /\ pending' = Tail(pending)
  /\ UNCHANGED <<vars, wan, listening, prev, enabling, astray>>

\* Mutant: only a change away from erouter0 is acted on.
UnsetOnly(name) == IF name = Primary THEN files ELSE UnsetXdnsConfig(files)

\* strncmp with sizeof(XDNS_PRIMARY_WAN_IF_NAME): the whole name counts here
FilesOn(name) == IF name = Primary THEN SetXdnsConfig(files).fs ELSE UnsetXdnsConfig(files)

\* Mutant: while XDNS is off the name is not remembered.
PrevWhenOn(e) == IF e.flag = "1" THEN e.name ELSE prev

\* The name is remembered whether it was acted on or not.
NewPrev(e) == e.name

\* The rest of xdns_handle_sysevent_notification.
HandleNotification ==
  LET acts == event.flag = "1" /\ event.name # prev
  IN /\ event # Nothing
     /\ files' = IF acts THEN FilesOn(event.name) ELSE files
     /\ prev' = NewPrev(event)
     /\ event' = Nothing
     /\ astray' = (event.crossed \/ enabling # "no" \/ (astray /\ ~ acts))
     /\ UNCHANGED <<flag, flash, dflt, changed, rows, nextIns,
                    wan, listening, pending, enabling>>

Listener == Register \/ Receive \/ HandleNotification

(***************************************************************************)
(* The management thread.                                                  *)
(***************************************************************************)

\* A handler has changed files or flag: the listener may hold an older flag,
\* and a handler that commits writes the override lines on any WAN.
Crosses ==
  /\ event' = IF event = Nothing THEN Nothing ELSE [event EXCEPT !.crossed = TRUE]
  /\ astray' = (astray \/ (wan # Primary /\ files'.overrides # << >>))

\* Enabling compares eight characters of the name with strncmp...
StartEnable ==
  /\ enabling = "no" /\ flag # "1"
  /\ enabling' = IF wan \in ErouterNames THEN "erouter" ELSE "lte"
  /\ UNCHANGED <<vars, wan, listening, pending, event, prev, astray>>

\* ... and goes on with what it has read.
FinishEnable ==
  /\ enabling # "no"
  /\ EnableXdns(enabling)
  /\ enabling' = "no"
  /\ Crosses
  /\ UNCHANGED <<wan, listening, pending, prev>>

OtherHandler ==
  /\ enabling = "no"
  /\ \/ DisableXdns
     \/ \E f \in DefaultFields : \E v \in DefaultInputs[f] : XDNS_SetParamStringValue(f, v)
     \/ ApplyDefaults
     \/ TableStep
  /\ Crosses
  /\ UNCHANGED <<wan, listening, pending, prev, enabling>>

\* The webconfig worker executes a document (XdnsWebconfig has its steps): it
\* does not ask for the WAN, and ends with CosaXDNSInitialize, which sets
\* prevWanIfname to erouter0 whatever the listener has heard.
Document(d) ==
  LET filled == [files EXCEPT !.confExists = TRUE, !.conf = d.lines]
      same == d.enable = (flag = "1")
      switched == IF same THEN filled
                  ELSE IF d.enable THEN SetXdnsConfig(filled).fs ELSE UnsetXdnsConfig(filled)
      value == IF same THEN flag ELSE IF d.enable THEN "1" ELSE "0"
      s == CosaXDNSInitialize(switched, value, dflt)
  IN /\ files' = s.fs /\ dflt' = s.dflt /\ rows' = s.rows /\ nextIns' = s.nextIns
     /\ flag' = value
     /\ flash' = IF same THEN flash ELSE value
     /\ prev' = Primary
     /\ event' = IF event = Nothing THEN Nothing ELSE [event EXCEPT !.crossed = TRUE]
     /\ astray' = (astray \/ wan # Primary \/ enabling # "no")
     /\ UNCHANGED <<changed, wan, listening, pending, enabling>>

(***************************************************************************)
(* Start-up.                                                               *)
(***************************************************************************)
\* Mutant: prevWanIfname is not set.
NoPrevInit ==
  /\ Init
  /\ wan \in WanNames
  /\ listening = FALSE /\ pending = << >> /\ event = Nothing
  /\ prev = "" /\ enabling = "no"
  /\ astray = (wan # Primary)

WanInit ==
  /\ Init
  /\ wan \in WanNames
  /\ listening = FALSE /\ pending = << >> /\ event = Nothing
  /\ prev = Primary /\ enabling = "no"
  /\ astray = (wan # Primary)

\* CosaXDNSInitialize assumes erouter0, and brings the override lines back
\* whatever the active WAN is.  It takes none away: only a reboot does.
WanStart ==
  /\ \/ /\ Restart \/ RollbackOverrun
        /\ astray' = (astray \/ wan # Primary)
     \/ /\ Reboot
        /\ astray' = (wan # Primary)
  /\ listening' = FALSE /\ pending' = << >> /\ event' = Nothing
  /\ prev' = Primary /\ enabling' = "no"
  /\ UNCHANGED wan

WanNext ==
  \/ \E n \in WanNames : WanChanges(n)
  \/ Listener
  \/ StartEnable \/ FinishEnable \/ OtherHandler
  \/ \E d \in Documents : Document(d)
  \/ WanStart

WanSpec == WanInit /\ [][WanNext]_allWanVars

\* The listener is scheduled, and syseventd answers it in the end.
FairWanSpec == WanSpec /\ WF_allWanVars(Listener)

(***************************************************************************)
(* Properties.                                                             *)
(***************************************************************************)

\* Type invariant of the module.
WanTypeOK ==
  /\ TypeOK
  /\ wan \in WanNames /\ prev \in WanNames
  /\ listening \in BOOLEAN /\ astray \in BOOLEAN
  /\ pending \in Seq(WanNames)
  /\ event = Nothing \/ event \in [name : WanNames, flag : Flag, crossed : BOOLEAN]
  /\ enabling \in {"no", "erouter", "lte"}

\* What resolv.conf should carry on the active WAN.
InForce ==
  files.resolvExists =>
    IF flag = "1" /\ wan = Primary
    THEN (\E i \in DOMAIN files.conf : files.conf[i] \in ValidDefaults)
           => files.overrides = Keep(files.conf, ValidLines)
    ELSE files.overrides = << >>

\* When the listener has nothing left to do, and it, the handlers and the
\* documents have not crossed each other, resolv.conf is as the active WAN
\* wants it: with the lines of the stored policy on erouter0 while XDNS is on,
\* and without any override line on another WAN or while XDNS is off, whatever
\* the order in which the WAN changed, XDNS was switched and policies were
\* stored.
WanSettled ==
  event = Nothing /\ pending = << >> /\ ~ astray => InForce

\* Unless listener, handlers and documents keep crossing each other,
\* resolv.conf is in the end as the WAN that stays active wants it.
WanFollowed ==
  \A n \in WanNames : <>[](wan = n /\ ~ astray) => <>[]InForce

=============================================================================
