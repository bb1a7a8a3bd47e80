----------------------------- MODULE XdnsStore -----------------------------
(***************************************************************************)
(* What the XDNS data model promises to those who use it, on erouter0 and  *)
(* while syscfg works: it keeps a policy, line by line, and while XDNS is  *)
(* on dnsmasq sees all of it and nothing else.                             *)
(***************************************************************************)
EXTENDS XdnsLines

VARIABLES
  policy,   \* the valid lines that are stored
  on,       \* XDNS is on
  here,     \* there is a resolv.conf
  seen      \* the lines dnsmasq is given

storeVars == <<policy, on, here, seen>>

LinesOf(mac) == ValidLines \cap {l \in Line : l[2] = mac}

HasDefault(p) == \E i \in DOMAIN p : p[i] \in LinesOf(DefaultMac)

\* q begins with p, and goes on with lines for mac only.
Extends(p, q, mac) ==
  /\ Len(p) <= Len(q)
  /\ \A i \in DOMAIN p : q[i] = p[i]
  /\ \A i \in Len(p)+1 .. Len(q) : q[i] \in LinesOf(mac)

Seen == seen' = IF on' /\ here' THEN policy' ELSE << >>

StoreInit ==
  /\ policy \in Seq(ValidLines)
  /\ on \in BOOLEAN /\ here \in BOOLEAN
  /\ seen = IF on /\ here THEN policy ELSE << >>

\* The lines in which mac occurs give way to those of a new policy for it.
Put(mac) ==
  /\ Extends(Keep(policy, Line \ Mentioning(mac)), policy', mac)
  /\ UNCHANGED <<on, here>>
  /\ Seen

\* A default line from the nameservers of the WAN is added.
AddDefault ==
  /\ Extends(policy, policy', DefaultMac)
  /\ UNCHANGED <<on, here>>
  /\ Seen

\* Only with a default policy, which may have been made for the occasion.
SwitchOn ==
  /\ ~ on /\ here
  /\ Extends(policy, policy', DefaultMac)
  /\ HasDefault(policy')
  /\ on' = TRUE
  /\ UNCHANGED here
  /\ Seen

SwitchOff ==
  /\ on /\ on' = FALSE
  /\ UNCHANGED <<policy, here>>
  /\ Seen

\* Nothing is lost with the process or with the power.
Boot ==
  /\ here' \in BOOLEAN
  /\ Extends(policy, policy', DefaultMac)
  /\ UNCHANGED on
  /\ Seen

StoreNext == (\E mac \in Token : Put(mac)) \/ AddDefault \/ SwitchOn \/ SwitchOff \/ Boot

StoreSpec == StoreInit /\ [][StoreNext]_storeVars

=============================================================================
