# CCSP XDNS in TLA+

XDNS redirects the DNS queries of the devices behind a gateway. The component
(`CcspXdnsSsp` with the plugin in `source/dmlxdns`) keeps, per device MAC, the
IPv4 and IPv6 resolver dnsmasq has to use, and a default pair for all other
devices. dnsmasq itself is not part of the repository: all the component can do
for it is to write the right lines into the right file at the right time. This
directory models that, checks it with TLC and proves the main results with
TLAPS.

## 1. The system

### Components, state and operations

| Component | Source | State | Operations |
|---|---|---|---|
| Policy files and their helpers | `cosa_xdns_apis.c` 368-963, 1409-1728 | `dnsmasq_servers.conf` (`/nvram`, the stored policy), `resolv.conf` (what dnsmasq reads), `dnsmasq_servers.bak` (scratch file) | `RefreshResolvConfEntry`, `ReplaceDnsmasqConfEntry`, `AppendDnsmasqConfEntry`, `CreateDnsmasqServerConf`, `SetXdnsConfig`, `UnsetXdnsConfig`, `GetDnsMasqFileEntry` |
| XDNS data model | `cosa_xdns_dml.c`, `cosa_xdns_apis.c` 965-1356, `cosa_apis_util.c` 222-293 | default resolver fields and their `...Changed` flags, `XDNSDeviceList`, `ulXDNSNextInstanceNumber`, syscfg `X_RDKCENTRAL-COM_XDNS` | `Set`, `Validate`, `Commit`, `Rollback` of the default pair and of a row, `AddEntry`, `DelEntry`, enable and disable, start-up |
| Webconfig blobs | `cosa_xdns_webconfig_api.c` | `XDNS_Data_Cache`, `XDNS_tmp_bck` (64 bytes for a MAC, an IPv4 address or a tag) | decode, validate and apply a whole policy, roll back |
| Blob decoding | `xdns_param.c`, `xdns_comp_helpers.c` | position in the map, the bits of `objects_left`, the `xdnsdoc_t` being filled | walk of a msgpack map and of the maps of its table |
| WAN failover thread | `cosa_xdns_apis.c` 114-366 | `prevWanIfname`, the registration with sysevent, the notification being handled | switches the files when `current_wan_ifname` changes |
| resolv.conf monitor | `cosa_xdns_apis.c` 618-706 | none | never started (its `pthread_create` is commented out) |
| Plugin and SSP process | `plugin_main*.c`, `XdnsSsp/` | handles | register handlers, connect to the bus |

### Interaction

The message bus calls the data model handlers one at a time on the management
thread. For an object whose parameters were set it calls `Validate` and then
either `Commit` or `Rollback`. The handlers call the file helpers; these have no
lock (every `pthread_mutex_lock` is commented out). Two more threads call the
same helpers: the webconfig worker and the sysevent thread. All three share the
scratch file `dnsmasq_servers.bak`. `syscfg` is a key value store with a volatile
copy and one in flash; boot scripts write `resolv.conf` anew at each boot.

### What is hard

* Two files hold the same policy, every handler must leave them in step, and a
  flag in a third place says whether the copy should exist at all.
* Values are staged field by field, and refused values are rolled back from the
  file, whose lines lose empty fields when they are written.
* Lines are found with `strstr`, readers have fixed room for matches.
* One text has four limits: 256 bytes in a data model field, 256 for the whole line
  it is printed into, 64 in a cache, 63 characters for `sscanf` when a row is read
  back. What happens at each differs.
* `syscfg` may fail between two steps; only the log knows.
* Three threads without a lock; a process that may be killed between `unlink`
  and `rename`, or with a file truncated and its new contents in a buffer.
* A WAN change races with the handler that has just read which WAN is active, and
  with the flag the listener has just read; notifications sent before the listener
  has registered are lost, and start-up assumes `erouter0`.
* The decoder stops before the end of the map, and compares a key over the key's
  own length.

The hazards are listed with their lines in `PROJECT.json`.

### What makes each component correct

* Files: dnsmasq gets only lines with two valid addresses; it gets exactly those
  of the stored policy while XDNS is on and none while it is off; no helper drops
  a line it was not asked to replace.
* Data model: what is reported is what a restart reads back; a device has one
  stored line; a deletion does not give its instance number back; deleting a row
  deletes the policy; invalid values are not stored.
* Webconfig: a blob is applied as a whole or not at all, and only what was applied is
  reported as executed.
* Decoding: a document is accepted with what the map says of it, and refused only
  for something that is missing.
* WAN: no override lines on a WAN other than `erouter0`, and the policy is back
  when `erouter0` is.
* All of the data model: what it promises to its users, the store of section 2.

## 2. Modules

| Module | Models |
|---|---|
| `XdnsLines` | lines, the two files, and what each file helper does to their contents when it runs undisturbed. Pure operators |
| `XdnsFiles` | the same helpers file operation by file operation, with refused operations, crashes and several threads |
| `XdnsDml` | the management thread: one action per handler with every file operation it makes |
| `XdnsWebconfig` | the webconfig worker next to the management thread; extends `XdnsDml` |
| `XdnsWan` | the WAN failover listener next to the management thread; extends `XdnsDml` |
| `XdnsBlobDoc` | the decoding of a document |
| `XdnsStore` | what the data model promises, without files; `XdnsDml` is shown to implement it |
| `MC...` | small instances for TLC |
| `...Proofs` | theorems, section 5 |

`XdnsLines` is under everything: `XdnsDml` and the modules that extend it use its
operators as single steps, and `XdnsFiles` shows when that is justified
(`WholeCall`) and what is left when it is not (`NoMixture`).

### XdnsLines

A line is the sequence of its words, because every reader splits at blanks; an
empty field therefore leaves no word and moves the ones behind it to the left, as
`sprintf` and `strtok` do together. `Mentioning(mac)` is `strstr(line, mac)`: `Parts`
gives for each word the words `strstr` finds in it, so a masked MAC may contain a shorter
one and a tag any. `Width` is the length of a word. `Entry` is the line a handler prints
into its 256-byte entry: when it does not fit, `sprintf_s` leaves the entry empty, the
error is only logged, and `ReplaceDnsmasqConfEntry` drops the old lines and writes
nothing.
`Dotted` and `Coloned` are the weak tests some readers make (`strstr(word, ".")`),
`V4` and `V6` what `inet_pton` accepts; they are different sets, and the instances
contain words that pass one and not the other. A tag is modelled up to a newline:
`XDNS_Rollback` copies the newline of the line into the tag, and readers skip the
blank line that comes of it. `Files` also says whether each file can be opened.

### XdnsFiles

`todo` is what is left of a thread's call, a sequence of operation names that
`Steps` gives in the order of the source; each name is one action. `disk` holds the
three files, `handle` the name the thread's backup stream writes to at the moment,
since another thread may unlink or rename the file under it.

| Action | Code (`cosa_xdns_apis.c`) |
|---|---|
| `BeginCall` | a handler, a document or the listener calls a helper, and the guards that handler has already passed |
| `CreateSteps`, `OpenAppend`, `FlushAppend` | `CreateDnsmasqServerConf`, `AppendDnsmasqConfEntry` |
| `Gather`, `NothingToGather` | `unlink` and `fopen("a")` of the backup, reading the files; the early return when one is absent |
| `FlushBak` | `fclose` of the backup |
| `UnlinkConf`, `Rename` | the end of `ReplaceDnsmasqConfEntry`, whose failed `rename` is only logged |
| `Truncate` | `fopen("w")` of either file |
| `ReadBak`, `FlushConf`, `FlushResolv` | the copy back |
| `SaveFlag` | the `syscfg_set` with which a handler follows the helper |
| `Crash` | the process dies with all that stdio has not written, and is started again; `resolv.conf` may be new |

`before` and `spoilt` are history variables: the files when the call began, and
whether an operation of it was refused or another thread had a step during it.

### XdnsDml

| Action | Handler |
|---|---|
| `EnableXdns`, `DisableXdns` | `XDNSDeviceInfo_SetParamBoolValue` |
| `XDNS_SetParamStringValue` | the same; `TooLong` stands for a string `strcpy_s` refuses, which empties the field |
| `ApplyDefaults` | the framework calls `XDNS_Validate`, then `XDNS_Commit` or `XDNS_Rollback` |
| `DNSMappingTable_AddEntry`, `_DelEntry`, `_SetParamStringValue` | the same |
| `ApplyRow` | `DNSMappingTable_Validate`, then `_Commit` or `_Rollback` |
| `RollbackOverrun` | `GetDnsMasqFileEntry` copies a third default line behind a buffer of two: the process may die. `ApplyDefaults` is the outcome in which it does not |
| `RowOverrun` | the same for a row's buffer of one, in `Validate` of a new MAC and in `Rollback`; `ApplyRow` is the other outcome |
| `Restart` | the process is started again, files and syscfg are as it left them |
| `Reboot` | boot scripts wrote `resolv.conf`, syscfg is read from flash |

`Init` is the state after the first start on any contents of `/nvram` the instance
names, including lines left by older formats. `Next` is `Handler \/ StartAgain`, so
that the modules that extend this one can put conditions of their own on each.

A start reads device lines with `sscanf`, five words of at most 63 characters: a longer
word is read as several (`Pieces`, `Scanned`), and what comes behind the fifth is lost. The
default lines are read with `strtok`, whose words are not cut.

### XdnsStore

The abstract specification: `policy` (the valid stored lines), `on`, and `seen` (what
dnsmasq is given). Its actions are what a user of the data model asks for: `Put` the
lines of a device, `SwitchOn` only with a default, `SwitchOff`, `Boot` without losing
anything. `Seen` is the promise: while XDNS is on and there is a `resolv.conf`,
dnsmasq sees the whole policy and nothing else. The refinement mapping of `XdnsDml`
(`Store`) takes `policy` for the valid lines of the stored file and `seen` for the
override lines of `resolv.conf`.

### XdnsWebconfig

A document replaces the whole policy. The worker thread of the webconfig framework
takes one document at a time; `at` says how far it is, and each action ends where
the code next reads or writes something the management thread uses too.

| Action | Code |
|---|---|
| `Process_XDNS_WebConfigRequest` | copies the cache to `XDNS_tmp_bck` and reads the document into the cache (`set_xdns_conf`, `xdns_read_load_dns_ip`). Its verdict is "ok", "invalid", "ignored" (every error the function does not turn into an `ErrorCode`) or "crash" |
| `NullAddress` | a document without an address, which the decoder does not insist on: NULL reaches `inet_pton` or `strncmp`, and the process is started again |
| `OpenConf` | `fopen(DNSMASQ_SERVERS_CONF, "w")` of `apply_XDNS_cache_ToDB`, which empties the stored policy |
| `FillConf` | the default line and one line per row |
| `SwitchFiles` | the comparison with the flag, `SetXdnsConfig` or `UnsetXdnsConfig`, whose results are not looked at |
| `StoreFlag` | `syscfg_set`, `syscfg_commit` |
| `Reinitialize` | `CosaXDNSInitialize`, on default fields that are not cleared first |
| `Acknowledge` | the framework stores the version of an executed document; the version itself is left out, its `syscfg_commit` is not: it writes a flag that an earlier commit failed to write |
| `Refuse` | the framework calls `rollback_XDNS`, which goes through the actions from `OpenConf` on with `XDNS_tmp_bck` (`undo`) |
| `Management` | any handler of `XdnsDml` |
| `ProcessStart` | `Restart`, `Reboot` or an overrun of `XdnsDml`, and `init_xdns_cache` |

`Missing` is a field the decoder has left NULL. `Cacheable` are the words that fit the 64
bytes of a cache. `init_xdns_cache` returns at the first text of the data model that does
not (`DefaultLoads`, `RowLoads`): what comes behind it stays empty. `PolicyLines` are the
lines that fit the buffer they are printed into.

`Applied` is every return of `apply_XDNS_cache_ToDB`. `prior` is a history variable,
the stored policy and the flag when the worker took the document, and occurs in no
guard. `Interference` says what an instance lets happen besides the worker:
"management" handlers between two documents, "overlap" also while a document is
executed, "crash" a process that dies while one is. An overlapping handler is one
step; it is not put between `OpenConf` and `FillConf`, where `stdio` decides how much
of the file the handler would read.

### XdnsWan

| Action | Code |
|---|---|
| `WanChanges` | another process sets sysevent `current_wan_ifname`; before the registration nobody is told |
| `Register` | `xdns_sysevent_init`, `sysevent_setnotification` |
| `Receive` | `sysevent_getnotification` and the `syscfg_get` of the flag |
| `HandleNotification` | the rest of `xdns_handle_sysevent_notification`, on the flag read before |
| `StartEnable`, `FinishEnable` | `XDNSDeviceInfo_SetParamBoolValue`: asking for the WAN, and acting on the answer |
| `OtherHandler` | the other handlers of `XdnsDml` |
| `Document` | a document of `XdnsWebconfig` as one step; it sets `prevWanIfname` to `erouter0` |
| `WanStart` | `StartAgain` of `XdnsDml`, and `prevWanIfname` set by `CosaXDNSInitialize` |

`ErouterNames` are the names the handler's `strncmp` over eight characters takes for
`erouter0`; the listener compares the whole name. `astray` is a history variable: the
listener, a handler and a document have crossed each other (one of them acted on what
another had changed meanwhile), and the listener has acted on no notification since.

### XdnsBlobDoc

The two nested loops of `xdns_param.c` (`process_xdnsparams`, `process_dnsparams`) over
a map, one action per entry. `left` and `rowLeft` are the bits of `objects_left`, as
sets of the fields the loop still waits for. `Begins` is `match()`: a key matches every
field name it is the beginning of, the empty key all of them.

## 3. Runs

| Run | Question | States |
|---|---|---|
| `defaults` | The default pair under good, mistyped and overlong input, and a tag its line has no room for: files in step, only valid overrides, no policy lost but by such a tag, enabled on erouter0 only with a default, and every handler a step of `XdnsStore` | 121 177 |
| `table` | Two rows in every order of operations, a masked MAC that begins with another device's: one line per device, numbers not given back by deletions, the default and the lines of other devices untouched | 28 938 |
| `wellformed` | What is reported is what a restart reads back, with `syscfg_commit` failing before a reboot; no stale policy when XDNS is switched on another WAN; never more default lines than readers have room for | 437 043 |
| `web_blobs` | Good documents, documents with a bad MAC or address, documents without an address, an `fopen` that fails, and stored tags the cache has no room for, with nobody else using the data model: what was acknowledged is in force, what was rolled back left no trace, the files are in step, and the worker comes to an end | 1 472 |
| `web_device` | Documents that leave addresses to the device, on dual-stack and MAP-T lists, with failures of `fopen` and of the commit, handlers between documents, and documents with swapped addresses or too long a tag: files in step while there is a valid default, and a complete document that switches XDNS on leaves one, also where the device has to name it | 1 031 540 |
| `web_overlap` | Handlers and crashes anywhere in a document, `syscfg_set` failing, two WANs, documents with swapped addresses or without a MAC: dnsmasq still gets valid lines only, and the live rows are still sorted below the next number | 86 852 |
| `wan` | Three interfaces, one of which only begins like `erouter0`, notifications in flight, repeated or lost, handlers between the listener's steps, restarts, reboots: unless crossed, `resolv.conf` ends as the active WAN wants it | 172 398 |
| `files` | One thread, each call of each helper, `fopen` and `rename` refused, a crash between any two operations: a whole call does what `XdnsLines` says, and at every instant each file is old, new or empty | 115 599 |
| `decode` | Every map of up to four entries and every element of up to three, with repeated, missing, mistyped and abbreviated keys: what comes out, and what is refused | 21 455 |
| `delete`, `web_refused`, `files_shared` | three disagreements, section 6 | |

The runs of `XdnsWebconfig` become weaker in what they promise as more may go wrong:
`SettledInStep` needs a working syscfg and no overlap, `SettledWithDefault` a valid
default line, and with overlap and crashes only `OnlyValidOverrides` and
`InstanceOrder` are left. Section 6 names the executions that separate them. In the
same way `WholeCall` speaks of calls that nobody disturbs, `NoMixture` of every instant
of one thread, and with two threads not even `OnlyValidLines` is left.

Bounds. `MaxStaged` bounds the fields of one object that are staged and not
applied: verdicts and rollbacks depend on pairs of fields, so 2 is the smallest
interesting value; `web_overlap` and `wan` use 1 and `web_device` 0, because there the
question is another one. `MaxInstance` bounds the rows a handler may add: 2 gives two
rows next to each other, which is what order and overwriting need, and a number that could
be given back after a deletion; `defaults` and `web_device` are not about rows and use 1. Documents
have at most two rows, and there is at least one for each verdict and each value of the
flag. `MaxPending` bounds the notifications on their way: with 2 the one being handled
is neither the first nor the last. Stored lines are not bounded: the inputs are few and
the reachable contents finite. Three lengths are enough for the limits: words that fit
everywhere, tags that a line has room for and the cache not ("wide"; with the longer IPv6
address the line has no room either), and tags no line has room for ("long"). Two valid
addresses per family tell old from new; one word per family passes only the weak test.
`Nameservers` gives each kind of
`resolv.conf` a list of nameservers of the shape boot scripts write, `RouterModes` are
erouter modes. In `decode` three entries for one field are needed to see that the last
one counts and one that comes after the end does not; four leave room for the table.

Fairness. No liveness is claimed of `XdnsDml` and `XdnsFiles`: the management system
need not call any handler. `FairWebSpec` assumes `WF_allVars(WorkerStep)`: a document,
once taken, is executed by a thread of the framework that waits for nobody (no lock, no
message), so it only has to be scheduled. Nothing is assumed of the arrival of
documents, the handlers or `fopen`. `BlobEnds` then says that a failing rollback does
not start another one. `FairWanSpec` assumes `WF_allWanVars(Listener)`: the thread is
scheduled, and syseventd answers it in the end; its loop sleeps and tries again when it
does not. Nothing is assumed of handlers or of the WAN. `WanFollowed` says that the
files follow once the WAN stays as it is, provided that crossings come to an end.

Deadlock is checked in all runs.

## 4. Left out

* `printf` and telemetry, `XDNSEntryCount`, the sysevents that restart dnsmasq or
  the firewall and the `ip rule` calls: no state of the component depends on them.
* The feature flag `XDNS-Refactor`: a stored value nobody in the component reads.
* `MonitorResolvConfForChanges`: its `pthread_create` is commented out.
* Loading the plugin, the SSP process, the message bus: registration of the handlers
  and I/O with external services, without state of the policy.
* `sysevent_open` failing in the enable handler: it returns before any change.
* Failures of memory allocation, of `fclose` and of a full disk: results of `fclose` and
  `fputs` are not looked at anywhere. `XdnsFiles` has `fopen` for writing and `rename`
  refused; a file that exists can be read, and each file fits one buffer of stdio.
* The refresh with which `CreateDnsmasqServerConf` ends: in the enable handler it finds
  the flag off and does nothing, and at start-up it is repeated at once.
* The `_COSA_FOR_BCI_` variant (a third kind of line, handled like nameservers).
* The secondary default addresses of the webconfig caches: they are copied between
  caches and written to no file.
* The queue and the timeouts of the webconfig framework, which are not in this
  repository, and the limit of 256 rows in a document, far beyond an instance.
* A message without its wrapper or its version, which the framework always sends, and the
  stored version (`xdns_version`), which the framework alone reads; above 2^31 it would be
  written as an unsigned number and read with `atoi`.
* The check `strlen(tag) > 255`: the field holds 255 characters, it cannot fire.
* The 256 bytes into which a start or a refresh reads one line at a time (`fgets`): every
  line the component writes fits them, and so do those of the instances' `/nvram`.

## 5. Proofs

The assumptions on the constants are `WordsAssumption` (the sorts of words) and
`DmlAssumption`, `FilesAssumption`, `WebAssumption`, `WanAssumption`, `DecoderAssumption` (the types of the
constants, and that the words the code compares with are of the kind they look like);
the runs evaluate them. Further assumptions are part of the theorems that need them.

**`XdnsLinesProofs`** proves what `Keep`, the selection of lines all helpers are made
of, returns. Induction is over a set of numbers (`Induction`, from the well-founded
order of `Nat`), because the library's induction theorems take an operator, which
no installed prover can instantiate; for the same reason `Keep` is a recursive
function and its existence is a lemma (`KeepUpToDef`).

**`XdnsDmlProofs`**: `DmlInv == TypeOK /\ InstanceOrder` is inductive. The two belong
together: that `CosaSListPushEntryByInsNum` puts a new row at the end follows from
the order. Results: `TypeCorrect`, `InstancesOrdered`. The first speaks of the rows that
are there; that a number is not given back after a deletion is an action property,
`NumbersOnce`: outside of starts the counter only grows, and a new row has its number from
it.

The second half of the module is about the two files: `StepFiles` shows that each step
does one of seven things to them; two invariants are then proved over these. `GivenValid` (the override lines
are a sequence of valid lines) needs no assumption: `OverridesValid`. `Agree` says
that the override lines are those of the stored policy while the flag is on, or
none; it also needs that an absent stored policy is an empty one, because a start
without that file refreshes nothing. It is false when `syscfg_set` can fail, hence
the assumption of `NoStalePolicy` and `StoresInStep`; the latter also assumes that
only `erouter0` is used. `DefaultWhenEnabled` is an action property of enabling on
`erouter0`; on another WAN the handler stores the flag alone.

**`XdnsKeyProofs`** is about which lines are stored, and for whom. The helpers find the
lines of a device with `strstr`, which looks at the whole line, so everything here rests
on one fact, the invariant `KeyedInv(Keys)` (`KeysStayApart`): in every stored line a
word of `Keys`, the words used as MACs, is the second word, and `strstr` finds none of them
in the other words, nor another one in that one. It is inductive only together with the
same of what is staged in the rows and in the default fields, because a commit writes
those. `KeysApart` asks this of the inputs and of the first contents of `/nvram` only, and
that MACs are shorter than 64 characters, so that `sscanf` reads them whole; the tag that
contains a MAC and the masked MAC that begins with another one (section 6) are what it
excludes. `KeyedScan` carries it through `sscanf`, whose pieces contain no more than the
word they come from (`ScannedType`, `ScannedWhole`, `ScannedFront`). `StepPolicy` then
reduces every handler and start to one of eight things it does to the stored lines (`PolicyStep`), and the results need one argument each over these:
`OthersCopied` and `TableLeavesDefaults` directly; `OneLineStored` with
`OneFound`, at most one line per MAC, given it of the initial file (`OneLineEach`).
`DefaultsFit` and `ReportsStored` relate the default fields to the stored default lines,
`PairInv`: what is known of an address and not staged is in one of at most two lines. It
needs `AddressesFrom(P4, P6)`, that default addresses are of two sets the readers accept,
`Dotted` and `Coloned` for `DefaultsFit`, `V4` and `V6` for `ReportsStored`: a default
address without a dot is stored and not read back (section 6, `RollbackOverrun`).
`SelectionStep` is `PolicyStep` seen from the default lines alone. A pair whose line the
tag leaves no room for is stored as no line: `DefaultsKnown` and `ReportsStored` say nothing
of it. `PoliciesKept` needs none of these hypotheses: what it says of a line carries its
own condition, that `strstr` finds its own MAC alone in it and that the line to replace it
fits. The constants of `wellformed` satisfy `KeysApart` and `AddressesFrom`; those of
`table`, with a masked MAC, go beyond `KeysApart`, and TLC finds the properties to hold
there as well.

**`XdnsStoreProofs`**: `StoreImplemented` is the refinement, where syscfg works and
`erouter0` is the WAN. The invariant is `DmlInv`, `Agree`, `NoneWithout` (without
`resolv.conf` there are no override lines) and equal flags in memory and flash. Each of
the seven things a step does to the files is then mapped: a commit to `Put` of its MAC, or
to nothing when it names none; enabling to `SwitchOn`; a start to `Boot`, whose only
new line is the default made from the nameservers. The lemmas underneath say that
selecting valid lines commutes with dropping those of a MAC.

**`XdnsWebconfigProofs`**: `WebInv == DmlInv /\ WorkerOK` is inductive, `WorkerOK` being
the types of the worker's own state. Handlers and starts preserve `DmlInv` by the
lemmas of `XdnsDmlProofs`, whatever the worker does in between, hence `WebTypeCorrect`
and `WebInstancesOrdered` hold for every `Interference`. So does `WebOverridesValid`:
only `SetXdnsConfig` and the refresh write override lines, and both select valid ones,
so that no interleaving and no crash can give dnsmasq another line. `WebSettled`
(`SettledInStep`) is for a syscfg that works, `erouter0` only and handlers between two
documents. Between `OpenConf` and `Reinitialize` the files are not in step, so the
invariant `Settling` says `Agree` at rest, and in between only what the rest of the
document relies on: the stored file exists, and there are no override lines while the
flag, or the value about to be stored at "save", is off. `Reinitialize` re-establishes
`Agree` because a start with the flag on refreshes the copy from the stored file.
`WebSettledWithDefault` drops the assumption on the commit. `Agree` is then too strong:
`Settled` also admits `Undecided`, a stored policy without a valid default line and no
override lines while the flag is off, and `Committing` is `Settling` with that.

What is reported as executed is the other half. `Executing` says of each place in the
document what has been done of it: the cache is what `set_xdns_conf` made of the document
in hand on some router mode (`Taken`), the stored file is what the cache says from
"switch" on, the flag from "restart" on, and at "done" the document was ignored or is
`InForce`. `DocumentsExecuted` has it for every `Interference` without overlap: also with
failures of `fopen` and syscfg and a process that dies. From `InForce` to the promise in
terms of the document is a question of what is read back of the lines that were written.
`PolicyLines` loses empty fields, and `strstr` finds the word of the default line
anywhere; `RowsOfPolicy` and `ProperDefaults` show that neither happens for a `Proper`
cache, and `OwnReading` that a document with `OwnFields` (addresses of their own family,
a MAC in every row, tags the cache has room for and without the default's MAC in them) is
either refused, or ends the process, or is read into one. Words of less than 64 characters
make lines that fit (`PolicyIs`) and that `sscanf` reads as they are. Hence
`DocumentsInForce` (`AckedInForce`), which also assumes that no address contains the
default MAC: nothing keeps an IPv6 address from doing so.
`DocumentsHaveDefault` (`AckedHasDefault`) and `DevicesLoaded` (`DeviceLoaded`) have no
hypothesis but that no handler runs during a document. Their condition, `Complete`, is of the
document in hand and of the device, and is part of the properties: each address belongs to
its field's family or is left to a device that names both, on a known router mode; the tags
fit the cache; every row has a MAC. `BothRead` follows `xdns_read_dns_ip` through the
nameserver list, and whatever the rows are the default line is the first one written
(`FirstWritten`). The constants of `web_blobs` satisfy the hypotheses of `DocumentsInForce`,
those of `web_device` the others, with documents that are not complete next to those that
are.

`RollbacksRestore` (`RollbackRestores`) needs to know what the copy in `XDNS_tmp_bck` says
about the files: `rollback_XDNS` writes lines made from it, never the lines that were there.
`StoredAs(c, conf)` says that `conf` is the rows of `c` behind one of its `Heads`: its
default line, or any number of `BlankLines`, lines for the default of which a start reads
no IPv6 address, if `c` has no pair. All of these have the same valid lines (`StoredKept`),
and a start reads `conf` into a cache that `conf` is stored as again (`ReadAgain`), or makes
such a pair of file and cache when there is none (`FreshStored`); that is where
`HalfLine` is needed, an address missing from the default line leaves a line that cannot be
read as a pair. `Mirrored` is the invariant: the cache is what file and flag say between two
documents, the copy is what they said when the worker took it, nothing has been written yet
at "refused", and what is in the file at any time can be stored as some cache, so that a
process that dies half way starts in step again. `Mirroring` and the absence of management
handlers are its hypotheses. They ask `OwnFields` of the documents, that no address contains
the default MAC, and that the first `dnsmasq_servers.conf` can be stored as some cache
(`Storable`): its words are shorter than the 64 bytes the cache has for them, so that
`init_xdns_cache` never returns early. They also exclude three things, and TLC finds the
property violated with each: a handler stores what the cache does not know
(`web_refused`), a syscfg that fails leaves flag and cache apart, and on a router mode other
than dual stack a start puts loopback addresses into the cache that are not in the file.
The constants of `web_blobs` satisfy them but for the stored tags that are too long for the
cache; there the property's own premise (`CacheableLine`) speaks.

**`XdnsWanProofs`**: `WanSettled` speaks of the moment the listener is at rest and says
nothing of what it is about to do, so the inductive invariant `Following` adds: the name
the listener acts on last (the end of the queue, the notification in hand, or `prev`) is
the active WAN unless astray (`Known`); the flag it has read is the flag unless a handler
crossed it; while XDNS is off there are no override lines unless astray; and with nothing
in hand `resolv.conf` is what the listener last acted on (`ForName`). `WanFollowedAtRest`
follows for any interfaces and any number of notifications.

**`XdnsBlobDocProofs`**: the invariant `DecInv` describes the loops half way: `doc` is what
the first `pos` entries say, `left` the required fields not among them, the elements
before `row` are complete and the one at `row` is what its first `rowPos` entries say.
Results: `DecTypeCorrect` (no loop reads behind a map's end), `DecodedAsSent`,
`RefusedOnlyIncomplete`, for maps of every length.

**`XdnsFilesProofs`** is about one thread (`Threads = {Main}`): section 6 shows that with two
not even `OnlyValidLines` is left. `Mid` splits what XdnsLines says of a call into the change of the
stored policy and the copy to `resolv.conf` (`EffectIs`). The invariant `FilesInv`
has one disjunct per place in a call, named for what comes next (`FlushingBak`,
`CuttingResolv`, ...), and says of each what is on disk, in the backup and in memory,
relative to the files with which the call began. It is that long because nothing shorter
is inductive: that a copy back is right depends on what was gathered four operations
earlier. `ListFacts` and `WhereIs` turn the list of operations left into the place;
each operation then leads from its place to the next, or to rest. `FilesNeverMixed`,
`OnlyValidLinesCopied`, `WholeCallIsOneStep` and `FlagStoredLast` follow, for policies of
any length and crashes and refusals anywhere.

Only model-checked:

* Where theorems have hypotheses, what happens outside of them: the runs do not have
  them, and section 6 tells of executions they exclude.
* `BlobEnds` and `WanFollowed`: liveness under fairness is beyond this prover.

## 6. Disagreements

Three runs show one each:

* `delete`: `DNSMappingTable_DelEntry` announces "Remove entery from the database"
  and removes nothing.
* `web_refused`: a refused document has changed nothing, but it is rolled back from
  the cache, which knows start-up and documents only. What the data model has stored
  since is lost.
* `files_shared`: two threads use one backup file. A refresh that another thread's
  `ReplaceDnsmasqConfEntry` gets in the way of copies that thread's backup to
  `resolv.conf`, lines with refused addresses included and the nameservers not.

Others were met while modelling. They are listed as hazards; the properties named
above are stated so that these executions are outside of their premises, or the
instances leave the inputs out.

Data model

* `XDNS_Validate` keeps only the verdict on the last changed field, so that an invalid
  default can be stored. `OnlyValidOverrides` shows that it does not reach dnsmasq.
* `CreateDnsmasqServerConf` appends a default line next to ones it cannot read; with two
  of those, readers with room for two copy a third (`RollbackOverrun`).
* `strstr` looks at the whole line: a device whose tag contains another device's MAC
  loses its line when that other device is changed. So does one with a masked MAC (35
  characters, `isValidMacAddress` accepts both lengths) that begins with the other's, when
  the other was stored before it; afterwards its MAC would be refused as known. An IPv6
  address may contain the default MAC. `PolicyKept` leaves all such lines out by its
  premise, `RestCopied` masked MACs; no tag and no address of its run contains a MAC.
* A tag may have 255 characters, its line with MAC and addresses as well. From about 190
  on `sprintf_s` empties the entry, the error is only logged, and the commit drops the old
  line and writes none: the policy of the device, or the default, is forgotten.
  `PolicyKept` and `ReportedIsStored` name this exception (`NoRoom`, `Fits`).
* A row's tag of 64 or more characters is stored, but a start reads its first 63.
* A `syscfg_set` that fails is only logged: the lines are in `resolv.conf` and the flag is
  off, or the other way round, and a commit does not refresh them.
* On a WAN that is not `erouter0` enabling sets the flag only ("Not enabled due to LTE
  WAN"), and the next commit, start or document writes the override lines all the same.

Documents

* One that cannot be loaded, because it leaves an address to a device without
  `resolv.conf` or with an unknown router mode, or because a string is too long or
  the MAC of a row or a tag is absent, is reported as executed. Its version is stored and
  it is not sent again.
* One without an address ends the process: the decoder asks for the flag and the table
  only, and `set_xdns_conf` gives the NULL to `inet_pton` or `strncmp`. Its version is not
  stored, so that the framework may send it again.
* The caches have 64 bytes where the data model has 256. When the stored tag of the default
  is longer, `init_xdns_cache` returns at a start before it has looked at the rows; a
  rollback then writes a policy without them. A row's tag does not get that far: `sscanf`
  has cut it to 63 characters, and a rollback writes the cut one. `RollbackRestores` has
  the premise that every stored word fits (`CacheableLine`).
* `CheckIfIpIsValid` accepts either family in either field. A document with its default
  addresses in each other's field is executed, the flag is switched on and dnsmasq has
  no default line, the state the enable handler refuses to enter. `AckedHasDefault` has
  `Complete` as its premise, which excludes such a document and no other one around it.
* A document has no secondary default, and the default fields are not cleared before
  the data model is read again: the secondary of the old policy is still reported.
* When `syscfg_set` fails in a document that switches XDNS on, `resolv.conf` has been
  written and the flag stays off. The rollback compares with the flag, finds nothing
  to switch and leaves the override lines there. The same is left by a process that
  dies between `SetXdnsConfig` and `syscfg_set`, and no start takes them away.
* When the commit of the flag fails in a document without a valid default line,
  the volatile flag is on and `SetXdnsConfig` has left `resolv.conf` alone; if then
  `fopen` fails in the rollback, nothing brings the files back in step.

WAN

* The listener reads the flag and acts on it later. A `DisableXdns` in between is undone:
  the override lines are back with the flag off, and no restart removes them.
* A document sets `prevWanIfname` to `erouter0` while another WAN is active. The
  notification that `erouter0` is back is then taken for a repetition and ignored.
* A WAN whose name only begins with `erouter0` is `erouter0` for the enable handler and
  another WAN for the listener.

Files

* A process that dies between the truncation of `dnsmasq_servers.conf` in
  `SetXdnsConfig` and its `fclose` leaves an empty policy. `CreateDnsmasqServerConf`
  makes a default line for an absent file only, so XDNS stays on without one.
* A failed `rename` comes after the `unlink` of the policy: the policy is gone.

## 7. What is left

Every part of the component that changes the policy, the flag or what dnsmasq is given
is modelled. Worth adding, in this order: two threads in `XdnsFilesProofs`, for the calls
that do not share the backup file; the order-dependence of `XdnsWan` with the steps of a
document instead of the whole one.
