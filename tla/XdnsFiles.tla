----------------------------- MODULE XdnsFiles -----------------------------
(***************************************************************************)
(* The single file operations of the helpers that XdnsLines treats as one  *)
(* step.  Every helper rewrites dnsmasq_servers.conf or resolv.conf by way *)
(* of dnsmasq_servers.bak: gather what is to stay, write it to the backup, *)
(* truncate or remove the old file, and copy back or rename.  The process  *)
(* may die between any two operations, a file may fail to open for         *)
(* writing, and nothing keeps two threads apart: every pthread_mutex_lock  *)
(* of the source is commented out.                                         *)
(*                                                                         *)
(* fopen("w") takes effect at once.  What is printed to a file stays in    *)
(* the buffer of stdio until fclose, as long as it fits; the files here    *)
(* do.  A file that exists can be read.  Opening files to read them,       *)
(* reading them, and making a new backup is one step.                      *)
(***************************************************************************)
EXTENDS XdnsLines

CONSTANTS
  Threads,    \* threads of the process that call the helpers
  Main,       \* the one that runs CosaXDNSInitialize
  Calls,      \* [thread -> what it may call]
  Faults,     \* "open", "rename": what the file system may refuse
  BootFiles   \* resolv.conf as the boot scripts make it, and the policy at
              \* the first start

Missing == [here |-> FALSE, ns |-> [v4 |-> "", v6 |-> ""], lines |-> << >>]
File == {Missing}
        \cup [here : {TRUE}, ns : [v4 : V4 \cup {""}, v6 : V6 \cup {""}], lines : Seq(Line)]
Holding(ns, lines) == [here |-> TRUE, ns |-> ns, lines |-> lines]

Ops == {"start", "refresh", "replace", "enable", "disable", "set", "unset"}
Call == [op : Ops, mac : Text, lines : Seq(Line)]
Start == [op |-> "start", mac |-> "", lines |-> << >>]

ASSUME FilesAssumption ==
  /\ Main \in Threads
  /\ Calls \in [Threads -> SUBSET Call]
  /\ Faults \subseteq {"open", "rename"}
  /\ BootFiles \subseteq [resolv : {f \in File : f.lines = << >>},
                           conf : {f \in File : f.ns = Missing.ns}]

VARIABLES
  disk,    \* dnsmasq_servers.conf, dnsmasq_servers.bak and resolv.conf
  flag,    \* X_RDKCENTRAL-COM_XDNS
  todo,    \* [thread -> the operations left of its call]
  call,    \* [thread -> its last call]
  buf,     \* [thread -> what it has gathered]
  handle,  \* [thread -> the name of the file its backup handle writes to]
  before,  \* history: [thread -> the files when its last call began]
  spoilt   \* history: [thread -> an operation of that call was refused, or
           \* another thread had a step during it]

fileVars == <<disk, flag, todo, call, buf, handle, before, spoilt>>

(***************************************************************************)
(* What a helper does, operation by operation.                             *)
(***************************************************************************)
RefreshSteps == <<"gatherRefresh", "flushBak", "truncResolv", "readBak", "flushResolv">>
UnsetSteps == <<"gatherUnset", "flushBak", "truncResolv", "readBak", "flushResolv">>
SetSteps == <<"gatherSet", "flushBak", "truncResolv", "truncConf", "readBak",
              "flushConf", "flushResolv">>
\* Mutant: resolv.conf is not made again after the policy has changed.
ReplaceWithoutRefresh == <<"gatherReplace", "unlinkConf", "flushBak", "rename">>

ReplaceSteps == <<"gatherReplace", "unlinkConf", "flushBak", "rename">> \o RefreshSteps

\* Mutant: the flag is stored before the files are changed.
StepsFlagFirst(op) ==
  CASE op = "start"   -> <<"create">> \o RefreshSteps
    [] op = "refresh" -> RefreshSteps
    [] op = "replace" -> ReplaceSteps
    [] op = "enable"  -> <<"create", "saveOn">> \o SetSteps
    [] op = "disable" -> <<"saveOff">> \o UnsetSteps
    [] op = "set"     -> SetSteps
    [] op = "unset"   -> UnsetSteps

Steps(op) ==
  CASE op = "start"   -> <<"create">> \o RefreshSteps
    [] op = "refresh" -> RefreshSteps
    [] op = "replace" -> ReplaceSteps
    [] op = "enable"  -> <<"create">> \o SetSteps \o <<"saveOn">>
    [] op = "disable" -> UnsetSteps \o <<"saveOff">>
    [] op = "set"     -> SetSteps
    [] op = "unset"   -> UnsetSteps

OnDisk == [confExists |-> disk.conf.here, conf |-> disk.conf.lines,
           resolvExists |-> disk.resolv.here, ns |-> disk.resolv.ns,
           overrides |-> disk.resolv.lines]

Idle(t) == todo[t] = << >>

\* t is at the operation s.
At(t, s) == ~ Idle(t) /\ Head(todo[t]) = s

Continue(t) == todo' = [todo EXCEPT ![t] = Tail(@)]
Return(t) == todo' = [todo EXCEPT ![t] = << >>]

Undisturbed(t) == spoilt' = [u \in Threads |-> spoilt[u] \/ (u # t /\ ~ Idle(u))]
Refused(t) == spoilt' = [u \in Threads |-> spoilt[u] \/ u = t \/ ~ Idle(u)]

\* The file name now names nothing: handles on it write to nowhere.
Orphaned(name) == [u \in Threads |-> IF handle[u] = name THEN "gone" ELSE handle[u]]

BeginCall(t, c) ==
  /\ Idle(t)
  /\ c.op = "enable" => flag # "1"
  /\ c.op = "disable" => flag # "0"
  /\ c.op = "replace" => c.mac # ""
  /\ call' = [call EXCEPT ![t] = c]
  /\ todo' = [todo EXCEPT ![t] = Steps(c.op)]
  /\ before' = [before EXCEPT ![t] = OnDisk]
  /\ spoilt' = [spoilt EXCEPT ![t] = \E u \in Threads \ {t} : ~ Idle(u)]
  /\ UNCHANGED <<disk, flag, buf, handle>>

\* CreateDnsmasqServerConf while the address fields of the data model are empty
CreateSteps(t) ==
  LET ns == disk.resolv.ns
      appends == ~ disk.conf.here /\ disk.resolv.here /\ ns.v4 # "" /\ ns.v6 # ""
  IN /\ At(t, "create")
     /\ todo' = [todo EXCEPT ![t] =
                   (IF appends THEN <<"openAppend", "flushAppend">> ELSE << >>) \o Tail(@)]
     /\ buf' = IF appends
               THEN [buf EXCEPT ![t].lines = <<Override(DefaultMac, ns.v4, ns.v6, "empty")>>]
               ELSE buf
     /\ Undisturbed(t)
     /\ UNCHANGED <<disk, flag, call, handle, before>>

\* AppendDnsmasqConfEntry, which says nothing when the file cannot be opened.
OpenAppend(t) ==
  /\ At(t, "openAppend")
  /\ \/ /\ disk' = [disk EXCEPT !.conf.here = TRUE]
        /\ Continue(t) /\ Undisturbed(t)
     \/ /\ "open" \in Faults
        /\ todo' = [todo EXCEPT ![t] = Tail(Tail(@))]
        /\ Refused(t) /\ UNCHANGED disk
  /\ UNCHANGED <<flag, call, buf, handle, before>>

FlushAppend(t) ==
  /\ At(t, "flushAppend")
  /\ disk' = [disk EXCEPT !.conf.lines = IF disk.conf.here THEN @ \o buf[t].lines ELSE @]
  /\ Continue(t) /\ Undisturbed(t)
  /\ UNCHANGED <<flag, call, buf, handle, before>>

(***************************************************************************)
(* Opening and gathering.                                                  *)
(***************************************************************************)

\* Mutant: a refresh takes the lines as they are stored.
GatheredUnchecked(t, s) ==
  [ns |-> disk.resolv.ns, lines |-> disk.conf.lines]

\* What is gathered for the backup, when the files it comes from are there.
Gathered(t, s) ==
  LET c == call[t]
  IN CASE s = "gatherRefresh" -> [ns |-> disk.resolv.ns, lines |-> Keep(disk.conf.lines, ValidLines)]
       [] s = "gatherSet"     -> [ns |-> disk.resolv.ns, lines |-> Keep(disk.conf.lines, ValidLines)]
       [] s = "gatherUnset"   -> [ns |-> disk.resolv.ns, lines |-> << >>]
       [] s = "gatherReplace" -> [ns |-> disk.conf.ns,
                                  lines |-> Keep(disk.conf.lines, Line \ Mentioning(c.mac)) \o c.lines]

\* RefreshResolvConfEntry looks at the flag first.
Readable(s) ==
  /\ s # "gatherReplace" => disk.resolv.here
  /\ s # "gatherUnset" => disk.conf.here
  /\ s = "gatherRefresh" => flag = "1"

\* fopen("w")
Empty == [Missing EXCEPT !.here = TRUE]

\* Mutant: a backup that is still there is written on.
KeptBackup == IF disk.bak.here THEN disk.bak ELSE Empty

\* unlink, then fopen("a")
NewBackup == Empty

Gather(t) ==
  \E s \in {"gatherRefresh", "gatherSet", "gatherUnset", "gatherReplace"} :
    /\ At(t, s)
    /\ Readable(s)
    /\ \/ /\ disk' = [disk EXCEPT !.bak = NewBackup]
          /\ handle' = [Orphaned("bak") EXCEPT ![t] = "bak"]
          /\ buf' = [buf EXCEPT ![t] = Gathered(t, s)]
          /\ Continue(t) /\ Undisturbed(t)
       \/ /\ "open" \in Faults
          /\ disk' = [disk EXCEPT !.bak = Missing]
          /\ handle' = Orphaned("bak")
          /\ Return(t) /\ Refused(t) /\ UNCHANGED buf
    /\ UNCHANGED <<flag, call, before>>

\* With a file missing the helper returns, except that ReplaceDnsmasqConfEntry
\* appends to a policy that is not there yet.  Whether the backup is removed
\* before makes no difference to anyone.
NothingToGather(t) ==
  /\ \E s \in {"gatherRefresh", "gatherSet", "gatherUnset", "gatherReplace"} :
       /\ At(t, s)
       /\ ~ Readable(s)
       /\ IF s = "gatherReplace"
          THEN /\ todo' = [todo EXCEPT ![t] = <<"openAppend", "flushAppend">> \o RefreshSteps]
               /\ buf' = [buf EXCEPT ![t].lines = call[t].lines]
          ELSE /\ todo' = [todo EXCEPT ![t] =
                             IF call[t].op = "disable" THEN <<"saveOff">> ELSE << >>]
               /\ UNCHANGED buf
  /\ Undisturbed(t)
  /\ UNCHANGED <<disk, flag, call, handle, before>>

(***************************************************************************)
(* Writing.                                                                *)
(***************************************************************************)

\* Mutant: the stream is used again after the backup is complete.
FlushBakKeepsHandle(t) ==
  /\ At(t, "flushBak")
  /\ disk' = IF handle[t] = "gone" THEN disk
             ELSE [disk EXCEPT ![handle[t]].lines = @ \o buf[t].lines]
  /\ Continue(t) /\ Undisturbed(t)
  /\ UNCHANGED <<flag, call, buf, handle, before>>

\* fclose of the backup: to whatever name its file has now
FlushBak(t) ==
  /\ At(t, "flushBak")
  /\ disk' = IF handle[t] = "gone" THEN disk
             ELSE [disk EXCEPT ![handle[t]].ns = IF buf[t].ns = Missing.ns THEN @ ELSE buf[t].ns,
                               ![handle[t]].lines = @ \o buf[t].lines]
  /\ handle' = [handle EXCEPT ![t] = "gone"]
  /\ Continue(t) /\ Undisturbed(t)
  /\ UNCHANGED <<flag, call, buf, before>>

UnlinkConf(t) ==
  /\ At(t, "unlinkConf")
  /\ disk' = [disk EXCEPT !.conf = Missing]
  /\ handle' = Orphaned("conf")
  /\ Continue(t) /\ Undisturbed(t)
  /\ UNCHANGED <<flag, call, buf, before>>

\* A failure is only logged, and the old policy is gone by then.
Rename(t) ==
  /\ At(t, "rename")
  /\ \/ /\ disk.bak.here
        /\ disk' = [disk EXCEPT !.conf = disk.bak, !.bak = Missing]
        /\ handle' = [u \in Threads |-> IF handle[u] = "bak" THEN "conf"
                                        ELSE Orphaned("conf")[u]]
        /\ Undisturbed(t)
     \/ /\ ~ disk.bak.here \/ "rename" \in Faults
        /\ UNCHANGED <<disk, handle>>
        /\ Refused(t)
  /\ Continue(t)
  /\ UNCHANGED <<flag, call, buf, before>>

\* SetXdnsConfig rewrites resolv.conf only when it has found a default line.
Skipped(t, s) ==
  s \in {"truncResolv", "flushResolv"} /\ call[t].op \in {"set", "enable"}
  /\ Keep(buf[t].lines, ValidDefaults) = << >>

Truncate(t) ==
  \E s \in {"truncResolv", "truncConf"} :
    /\ At(t, s)
    /\ \/ /\ ~ Skipped(t, s)
          /\ disk' = IF s = "truncResolv" THEN [disk EXCEPT !.resolv = Empty]
                     ELSE [disk EXCEPT !.conf = Empty]
          /\ Continue(t) /\ Undisturbed(t)
       \/ /\ Skipped(t, s)
          /\ Continue(t) /\ Undisturbed(t) /\ UNCHANGED disk
       \/ /\ ~ Skipped(t, s) /\ "open" \in Faults
          /\ Return(t) /\ Refused(t) /\ UNCHANGED disk
    /\ UNCHANGED <<flag, call, buf, handle, before>>

\* Another thread may have taken the backup away or put its own in its place.
ReadBak(t) ==
  /\ At(t, "readBak")
  /\ IF disk.bak.here
     THEN /\ buf' = [buf EXCEPT ![t] = [ns |-> disk.bak.ns, lines |-> disk.bak.lines]]
          /\ Continue(t) /\ Undisturbed(t)
     ELSE Return(t) /\ Refused(t) /\ UNCHANGED buf
  /\ UNCHANGED <<disk, flag, call, handle, before>>

\* What another thread has written behind the position stays.
Over(old, new) == new \o SubSeq(old, Len(new) + 1, Len(old))

FlushConf(t) ==
  /\ At(t, "flushConf")
  /\ disk' = [disk EXCEPT !.conf.lines = IF disk.conf.here THEN Over(@, buf[t].lines) ELSE @]
  /\ Continue(t) /\ Undisturbed(t)
  /\ UNCHANGED <<flag, call, buf, handle, before>>

\* SetXdnsConfig without a default line returns 0, and XDNS stays off.
FlushResolv(t) ==
  /\ At(t, "flushResolv")
  /\ IF Skipped(t, "flushResolv")
     THEN Return(t) /\ UNCHANGED disk
     ELSE /\ disk' = [disk EXCEPT !.resolv.ns = buf[t].ns,
                                  !.resolv.lines = Over(@, buf[t].lines)]
          /\ Continue(t)
  /\ Undisturbed(t)
  /\ UNCHANGED <<flag, call, buf, handle, before>>

SaveFlag(t) ==
  \E s \in {"saveOn", "saveOff"} :
    /\ At(t, s)
    /\ flag' = IF s = "saveOn" THEN "1" ELSE "0"
    /\ Continue(t) /\ Undisturbed(t)
    /\ UNCHANGED <<disk, call, buf, handle, before>>

Operation(t) ==
  \/ CreateSteps(t) \/ OpenAppend(t) \/ FlushAppend(t)
  \/ Gather(t) \/ NothingToGather(t)
  \/ FlushBak(t) \/ UnlinkConf(t) \/ Rename(t)
  \/ Truncate(t) \/ ReadBak(t) \/ FlushConf(t) \/ FlushResolv(t)
  \/ SaveFlag(t)

(***************************************************************************)
(* The system.                                                             *)
(***************************************************************************)
NoHandle == [t \in Threads |-> "gone"]
NothingRead == [t \in Threads |-> [ns |-> Missing.ns, lines |-> << >>]]
Starting == [t \in Threads |-> IF t = Main THEN Steps("start") ELSE << >>]

FilesInit ==
  /\ \E b \in BootFiles : disk = [conf |-> b.conf, bak |-> Missing, resolv |-> b.resolv]
  /\ flag \in Flag
  /\ todo = Starting
  /\ call = [t \in Threads |-> Start]
  /\ buf = NothingRead /\ handle = NoHandle
  /\ before = [t \in Threads |-> OnDisk]
  /\ spoilt = [t \in Threads |-> FALSE]

\* The process dies, and with it what stdio has not written; it is started
\* again, on a resolv.conf that a reboot may have made new.
Crash ==
  /\ \/ UNCHANGED disk
     \/ \E b \in BootFiles : disk' = [disk EXCEPT !.resolv = b.resolv]
  /\ todo' = Starting
  /\ call' = [t \in Threads |-> Start]
  /\ buf' = NothingRead /\ handle' = NoHandle
  /\ before' = [t \in Threads |-> OnDisk']
  /\ spoilt' = [t \in Threads |-> FALSE]
  /\ UNCHANGED flag

FilesNext ==
  \/ \E t \in Threads : Operation(t) \/ \E c \in Calls[t] : BeginCall(t, c)
  \/ Crash

FilesSpec == FilesInit /\ [][FilesNext]_fileVars

(***************************************************************************)
(* Properties.                                                             *)
(***************************************************************************)

\* What XdnsLines says that a whole call makes of the files fs.
Effect(c, fs) ==
  LET default == <<Override(DefaultMac, fs.ns.v4, fs.ns.v6, "empty")>>
      created == IF ~ fs.confExists /\ fs.resolvExists /\ fs.ns.v4 # "" /\ fs.ns.v6 # ""
                 THEN AppendDnsmasqConfEntry(fs, default) ELSE fs
  IN CASE c.op = "start"   -> RefreshResolvConfEntry(created, flag)
       [] c.op = "refresh" -> RefreshResolvConfEntry(fs, flag)
       [] c.op = "replace" -> ReplaceDnsmasqConfEntry(fs, flag, c.mac, c.lines)
       [] c.op = "enable"  -> SetXdnsConfig(created).fs
       [] c.op = "set"     -> SetXdnsConfig(fs).fs
       [] c.op \in {"disable", "unset"} -> UnsetXdnsConfig(fs)

\* Type invariant of the module.
FilesTypeOK ==
  /\ disk \in [{"conf", "bak", "resolv"} -> File]
  /\ flag \in Flag
  /\ call \in [Threads -> Call]
  /\ before \in [Threads -> Files]
  /\ handle \in [Threads -> {"conf", "bak", "gone"}]
  /\ \A t \in Threads : handle[t] # "gone" => ~ Idle(t)

\* A call that nothing refuses and nobody disturbs leaves exactly the files
\* that XdnsLines says it leaves, whatever crashes and failed calls have left
\* behind before it, old backups included.
WholeCall ==
  [][\A t \in Threads :
       ~ Idle(t) /\ todo'[t] = << >> /\ ~ spoilt'[t]
         => OnDisk' = Effect(call[t], before[t])]_fileVars

\* At every instant, also where the process dies or a file cannot be opened,
\* each of the two files is as it was before the call, as the call is to leave
\* it, or empty: a policy is never mixed with an older one, with the
\* nameservers, or with what a backup was left with.
NoMixture ==
  \A t \in Threads :
    LET old == before[t]
        new == Effect(call[t], old)
    IN /\ disk.conf.lines \in {old.conf, << >>, new.conf}
       /\ disk.conf.ns = Missing.ns
       /\ disk.resolv.lines \in {old.overrides, << >>, new.overrides}
       /\ disk.resolv.ns \in {old.ns, Missing.ns}

\* The flag is stored after the files, and only when they have been switched:
\* on with a valid default line for dnsmasq, off with no line left.
FlagAfterFiles ==
  [][flag' # flag =>
       IF flag' = "1" THEN Keep(disk.resolv.lines, ValidDefaults) # << >>
       ELSE disk.resolv.lines = << >>]_fileVars

\* "write valid dnsoverride entries to tmp file": dnsmasq is never given a line
\* whose addresses inet_pton refuses.
OnlyValidLines ==
  \A i \in DOMAIN disk.resolv.lines : disk.resolv.lines[i] \in ValidLines

=============================================================================
