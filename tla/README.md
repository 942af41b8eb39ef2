# SIPMediaGW in TLA+

SIPMediaGW lets SIP room systems and recorders join web conferences: each call
runs in a container (baresip, a browser, ffmpeg) on a virtual machine. A proxy
hands containers out, a scaler orders and destroys the machines, Kamailio
routes the SIP calls, a manager keeps the history. These modules model the parts
of it that keep shared state, from the code in `src/`.

    tlc -workers 2 -config MCMediaPool.cfg MCMediaPool.tla
    tlc -workers 2 -config MCCallReport.cfg CallReport.tla
    tlapm CallReport_proofs.tla

## The system

| component | state it keeps | operations | talks to | module |
|---|---|---|---|---|
| proxy, registry (`deploy/proxyAPI/proxy.py`) | `gateway:<id>` in Redis: state, room, address | /start, /stop, /status, /register, /unregister, the monitor | launchers over HTTP, Redis | `GatewayRegistry` |
| proxy, pairing codes (same file) | `pairing:<code>`, `codetries:<address>` in Redis | /register, /pairing/resolve, /interact | Redis, gateways | `Pairing` |
| launcher (`HTTPLauncher.py`, `SIPMediaGW.sh`) | the containers of one machine | start, stop, status, the watcher of recordings | docker, history files | `GatewayRegistry`, `Recording` |
| container (`entrypoint.sh`, `src/ivr.py`) | its run, its history file | registers, boots, joins, exits | proxy, launcher (through the file) | `GatewayRegistry` (life cycle) |
| media scaler (`ScalerMedia.py`, `webService.py`, `scale.sh`) | the iteration under way; marks in Redis | cleanup, scale, upScale, downScale | Redis, the provider | `MediaPool` |
| scaling policy (`Scaler.py`) | none | target capacity, size of machines | | `ScalerPolicy` |
| cloud provider (`outscale.py`) | instances and public addresses | create, enumerate, destroy | | `MediaPool` |
| SIP scaler, Kamailio (`ScalerSIP.py`, `request_gw.py`, `kamailioRun.py`) | `location` rows with `locked`, `to_stop`; dialogs | lock for a call, unlock, mark, expire | MySQL | `SipPool` |
| call handling (`event_handler.py`, `netstring.py`, `browsing.py`, `eventServer.py`) | the call, the browsing thread | baresip events, page monitors, orders | baresip, the browser | `GatewayCall` |
| call history (`logParse.py`) | `gw<n>_history` | append, read, post, truncate | manager | `CallReport` |
| manager, ingest (`manager/ingest/`) | the table `calls` | a push is refused or stored | | `CallReport`, `CallLedger` |
| manager, accounts (`users.py`, `auth.py`, `api/users.py`) | `manager_users`, `user_audit`, session cookies | sign-in and out, password, an administrator's edits | PostgreSQL | `ManagerAccounts` |
| manager, organisation rules (`api/org_units.py`) | `org_unit_rules` | create, update, delete, order; resolve a caller | PostgreSQL | `OrgUnitRules` |
| recording, transcription (`recording/`, `transcript/`) | segments, texts, the upload | record, transcribe, merge, send, keep | FileSender, the transcription service | `Recording` |
| manager's sampler, reports and views; pages and injected scripts; TURN | | | | not modelled |

What makes each of them correct:

* **Registry.** An entry never shows a conference where there is none to find;
  a conference that runs is shown in the end; a gateway taken out of the pool
  comes back; the entries of lost machines go. The proxy is a single asyncio
  thread with a synchronous Redis client, so the hard part is what happens
  across an `await`: every handler reads an entry, waits for a launcher, and
  writes.
* **Pairing codes.** A code leads to the screen it was read on, whatever expires
  or restarts between its drawing and its use; guessing is bounded, and a
  lock-out ends.
* **Launcher and container.** They are slow, they fail halfway, and their
  answers get lost. The history file outlives the container and feeds the
  room of the *previous* call to the next status request.
* **Media scaler.** A second process on the same entries, with a read and a write
  per entry and no transaction; any exception ends the iteration in the middle.
  It must not cut a conference, must leave the idle buffer alone, must not stop
  for good, must not leave a machine behind.
* **Policy.** Two counts taken at different moments, a ratio, a floor, a buffer
  and a maximum, rounded up.
* **Kamailio and the SIP scaler.** A gateway locked twice, locked for ever, or
  destroyed while it rings.
* **Call handling.** The end of a call crosses its answer, the menu and the
  opening of the browser; no gateway may stay in a conference for nobody, and
  its container has to end.
* **History and ingest.** Two processes append to one file, read it, post it and
  truncate it; a call counts once, as it was, or not at all.
* **Accounts.** A request is several transactions: the last administrator stays,
  revoked sessions end, the audit tells what happened.
* **Organisation rules.** A list with ties and missing positions decides as it is
  shown, and an order is not written by halves.
* **Recording.** What is sent is whole; what is lost is lost in a known way;
  what can be processed is.

`PROJECT.json` lists the hazards behind these at their lines, with the
properties that cover them.

## GatewayRegistry

| variable | in the code |
|---|---|
| `entry` | the JSON value of `gateway:<id>`: `gw_state` and `room`; an absent key is `Absent` |
| `host` | a virtual machine: not booted, there, gone. Machines get new identifiers at each boot, so one that went does not return |
| `box` | a container as its launcher sees it, and the room it was launched for (or a caller chose). A container that exited is `DownBox`; one whose number was taken, or that was pruned, `GoneBox` |
| `hist` | `logs/gw<n>_history`, by container number: the room in it, none, or no such file |
| `task` | a coroutine: the gateway it picked, the request it sent, the answer |
| `todo` | the keys the monitor's `scan_iter` has yet to yield |
| `faults` | bounds lost answers and /unregister |
| `served` | not in the code: the rooms the containers of a number were ever sent to |

Each handler is two actions around its `await`, and the launcher's action lies
between them: `StartBegins` / `LauncherStarts` / `StartEnds`, `StopBegins` /
`LauncherStops` / `StopEnds`, and `StatusBegins` or `MonitorVisits` /
`LauncherReports` / `PollEnds`. The launcher itself takes two steps, as it looks for the
container before it acts (`LauncherLooks`, an error if there is none). `Register` and `Unregister` have no await after
the body is read and are one step. `NoAnswer` and `AnswerLost` are the HTTP client's
exceptions. What an action writes is what the code writes: /start reads
the entry again and sets two fields, /stop writes back what it read before the
await, a poll replaces state and room or deletes the entry.

A gateway is a GW_NAME; the history file and the lock belong to the container number,
`NumberOf`. `Firsts` are the names that `start_all_gateways.bash` gives when the machine
boots; the others are those that the loop of a SIP gateway takes when its container has
ended (`Relaunches`): same number, same history, new name, new entry. The new container
registers first and empties the file later (`Register`, `BoxReady`), so that a poll in
between shows the room of the container before it.

Abstracted: `gw_ip` and `gw_type` are functions of the gateway; the peer,
browsing and progress fields follow the room; a scan yields the keys there are
when it begins. A recreated entry without `gw_type` is not told apart.

`RoomOnlyWhenStarted`, `RoomTruthful` and `CreatedOnlyFromNothing` are about
stale writes; `RoomTruthful` is about the number, since of a single name it does not hold; `ConferenceShown`, `DeletedReturns` and `DeadForgotten` about
what the monitor repairs.

## ScalerPolicy and MediaPool

`ScalerPolicy` is `Scaler.scale` as operators. Loads are percentages, and the
ceiling of the difference is taken on the quotient, the only term that is not an integer.
`SizeFor` takes the instance types in the order of the code's string sort.

`MediaPool` adds the scaler to the registry: `scaler.pc` walks through
`IterationBegins`, the visits of the cleanup, `Reap`, the two counts,
`Decides`, then `Orders` or `ShrinkReads` / `ShrinkMarks` and `Destroys`. Each
Redis command and each provider call is a step, and the proxy's steps fall
between them. `ShrinkMarks` writes the entry as it was read, whatever it has
become. An exception is `Failed`: the iteration ends, what it did stays.
The provider fails at most `MaxMishaps` times: before, after or between the
calls that concern an address.

## SipPool

| variable | in the code |
|---|---|
| `reg` | per contact: its row of `location` (`locked`, `to_stop`) and the container behind it. There is a row as long as `run` is not "off" |
| `call` | per caller: the contacts lockGw has yet to try, then the gateway the INVITE was rewritten to; "talks" is a row of `dialog` |
| `unlocks` | missed calls in Kamailio's log that kamailioRun.py has not read |
| `host` | a machine: never ordered, ordered, booted, gone |
| `scaler` | the iteration under way; `list` is what downScale selected |
| `crashes`, `mishaps` | bound the containers that die and the failures of database and provider |

A step is a transaction. lockGw is `CallArrives` (both SELECT, which share a
snapshot) and then, per contact, `Locks` or `LockMisses`; downScale is
`ShrinkSelects` and then, per machine, `ShrinkMarks` (commit) or `ShrinkSkips`
(rollback). After the lock the code only keeps the user name, so the container
that answers may be another one than that whose row was locked. `scaler.blind`
and `scaler.joined` are observers.

Abstracted: user names are compared as wholes where the SQL uses LIKE; the base
class's cleanup destroys nothing here, as every machine has its address (that is
`MediaPool`'s `Reap`); a REGISTER that renews a row changes nothing the model
keeps. Two timings are assumed: a container takes longer to come back than a
logged line to be read, and a contact is not used again while a lockGw that read
it runs (contacts are new at each start).

## GatewayCall

| variable | in the code |
|---|---|
| `app` | MAIN_APP: baresip, or the event server of a recording |
| `container`, `alive` | the containers of one gateway, one after the other; the call of a container has its number |
| `sip` | the SIP client: idle, ringing (or a call from a foreign address), up, closed, quit |
| `sock`, `orders` | events on the event socket not read yet; commands on the control port not obeyed yet |
| `handler`, `stopped` | the main thread of `event_handler.py`: its loop, then endBrowse, then the exit; SIGTERM came |
| `browse`, `room` | the browsing thread: menu, gap between the two browsers, opening, joining, meeting, over; `browsing.room` |
| `reading`, `asked` | the thread that asks for media statistics |
| `slides` | a presentation has come into play, and with it a second video stream |
| `pipe` | what was printed and a log parser has not read, by parser |
| `carried` | observer: the containers that were offered a call |

One action per event read (`Accepts`, `Refuses`, `Establishes`, `Closes`,
`Ignores`), per order obeyed (`HangsUp`, `Quits`), per stage of the browsing
thread (`MenuEnds`, `Attends`, `Opens`, `Joins`, `BrowsingFails`,
`ConferenceEnds`) and of the exit (`LoopEnds` or `Stopped`, `EndsBrowse`,
`Exits`, `ContainerEnds`). `Tables` is what /video_debug and the end of a call print: one
table, or two once someone presents (`Presents`). The answer of a reading is printed by the
event handler in its turn, or lost, at any time (`Answered`). `Killed` is docker's SIGKILL, or a fault, at any
time. `EndsBrowse` finds a different browser at each stage of the thread: before
the object that browses exists it quits the menu's browser only, and the thread
goes on. The event server of a recording takes any order for /quit.

Abstracted: DTMF, chat, sharing of slides, the classes for each conference
site, and how long anything takes. baresip is external: what it does is read
off the events and commands of `src/`.

## CallReport and CallLedger

`CallReport` adds to the call the reports about it.

| variable | in the code |
|---|---|
| `file` | `gw<n>_history`, a sequence of records of the kinds of `recordType` |
| `push` | where `pushHistory` is, in each of the two parsers: closing, reading, waiting, the answer |
| `requests` | posts on their way to the manager, each with the payload it was given |
| `calls` | the rows of the table `calls` |

`Parses`, `ParsesEnd` and `DatesEnd` append records, `Pushes` builds the payload
(`Payload` is `buildPayloadFromLines`) and posts it, `Ingests`, `Refused` and
`RequestLost` are the manager's answers, `PushTimesOut` the parser's patience,
`PushEnds` the truncation. A request outlives the parser and the container that
sent it. `RowFor`, `Conflicts` and `VideoEntries` are `calls_set_outcome`, the
two unique indexes with ON CONFLICT DO NOTHING, and `_videoEntries`.

`CallLedger` is the abstract specification: a call is none, open, ended, counted
or lost, and only advances. `KeepsLedger` is the refinement, with `StatusOf` as
the mapping: the status of a call is read off its row, its requests, and the
state of its container.

`OwnVideo` has a condition the code imposes: on a call without a sample and without a
presentation, the table of a reading whose answer was lost is stored as a stream (Known
divergences). `Above` says whether the counters of one stream exceed another's, which
`looksCumulative` may come to compare when a presentation begins between two readings.

Left out: participants, devices, languages and recording marks, whose records
the properties do not tell apart; one record stands for a table. Bounds: what a
container posted is handled before the next one starts, the steps of the
browser and of foreign calls (`BrowserSteps`, `ForeignSteps`), which report
nothing, do not happen, and the first container alone asks for readings.

## Pairing

| variable | in the code |
|---|---|
| `screen` | the code in `/etc/environment` of a gateway, which its page shows |
| `owner` | `pairing:<code>`, the gateway a code leads to |
| `entry` | `gateway:<id>`, reduced to whose address is in it |
| `visit` | a visitor: holds a code, has passed the throttle, knows a name, drives a gateway. `of` is an observer: the screen the code was read on |
| `tries`, `armed` | `codetries:<address>` and whether it has a lifetime |

/register is `Renews`, `Enrols` or `Misses`, by what Redis says of the code the
gateway sends; `heard` is whether the answer arrives. /pairing/resolve is
`AsksResolve` (the throttle), the await of the body, `Resolves`; /interact has no
await and is one step. `DiesCounting` is the proxy between INCR and EXPIRE. A code is
drawn without a look at those in use, and takes the mapping (`Draws`); the observer `shared`
has the gateways to which that happened, and `DrivesWhatItRead` speaks of the others.

## ManagerAccounts

| variable | in the code |
|---|---|
| `account`, `nextId` | the rows of `manager_users` by name, and the sequence of their ids |
| `cookie` | the session of each browser: user and epoch (`of`, the row's id, is an observer: the cookie does not have it) |
| `request` | the request a browser has under way: what it read, what is left to check |
| `failures` | `auth._failures` of the one address |
| `told` | observer: the table as `user_audit` tells it |
| `outdated` | observer: sessions and sign-ins whose account has changed since the password was checked |

Every function of `users.py` is a transaction and a step; requests interleave
between them: `LoginBegins` / `Bootstraps` / `Judges` / `LoginEnds`, `ChangeBegins` /
`Changes`, `Admitted` / `Reads` / `Counts` / `Updates` (or `Resets`, `Deletes`,
`Creates`). `Logout` does not ask whether its cookie was still good.
Abstracted: names, hashes and hours; lock-outs end at any time. The identity
provider and the command-line tool are left out.

## OrgUnitRules

| variable | in the code |
|---|---|
| `rules`, `nextId` | the table `org_unit_rules`, with NULL positions, and its sequence |
| `enabled` | the active entities |
| `request` | what a console has under way; `crossed` observes the writes of others meanwhile |

A statement of PostgreSQL reads the table as it was when it began, so writing is
two steps (`Inserts` / `Inserted`, `Orders` / `Ordered`) after the check in a
transaction of its own (`AsksRule`, `AsksUpdate`, `AsksOrder`). An UPDATE that
waited for a row looks at it again (`Ordered`), and two that wait for each other
are a deadlock that the database ends (`Deadlocked`). `Shown` and `Winner` are
what the console shows, each rule at its `Place`, and tests, `Resolve` is `resolve_org_unit`. Patterns are
values with a fold (`lower`) and the callers they match.

## Recording

| variable | in the code |
|---|---|
| `mode`, `doing` | the container: exited, recording, processing and then the step of `entrypoint.sh` |
| `start`, `watch` | the recordings of this gateway, and the background job each leaves behind in `SIPMediaGW.sh`: docker wait, restart, docker wait, stop |
| `service`, `audioOnly` | the transcription container; AUDIO_ONLY of the last recording |
| `entry`, `poll` | the state in the proxy's entry; the launcher's answer on its way to it |
| `starting` | the /start of each caller: its gateway picked, its container launched |
| `told` | observer, in the entry, the answer and the starts: written or read knowing of the last recording |
| `segments`, `merged`, `subtitles` | what is on the container's disk |
| `pending`, `unanswered` | the segment between its text and its new name; those given up |
| `unread` | observer: the segment whose length ended `transcript.py` |
| `upload`, `transfer` | where `filesender.py` is, and what the server has |
| `logs`, `halted`, `faults` | recordings kept in the log directory; a processing that was stopped; the bound on failures |

A request of `filesender.py` may fail done or not done (`Asks`); every error goes
to the handler that deletes the transfer (`DeletesTransfer`). /start is `Picks`, `Launches`
and `Marks`, with the awaits between them; a poll is `Polls` and `Stores`, or `PollFails`, which
removes the entry that the running container then registers as created (`Registers`).
`Launches` recreates the container, whatever it does, and so its disk; `Restarts` keeps it.
`Assembles` writes the transcript up to the first segment whose length cannot be read, and goes
on; of a recording of sound only that is the first with a text (`BreaksOff`). `Merges` may
leave a part. `Reported` is the launcher's
answer: docker compose names the states of all the containers of the project,
and it looks for "exited" in them.

Simplified: segments are of equal length, mv and rm are one step, and a
configuration without a transcription server is left out. Live captions are not
modelled.

## Runs

| run | instance | shows |
|---|---|---|
| `registry` | a SIP gateway and the name its loop gives its number next, one client, the monitor, one fault | no stale write leaves a room on an entry that is not started, or one its number was never sent to; `created` never returns; the entries of lost machines and of replaced containers go for good |
| `registry_live` | one SIP gateway, two rooms, one client, two faults | conferences are shown, `deleted` is transient |
| `media_pool` | two machines of one gateway, two slots (one wants two idle gateways, the other one), a provider failure | the scaler keeps the same invariant, and shrinking spares the buffer |
| `media_pool_live` | the same, with fairness, without callers | failing iterations block nothing, marks go, machines without an address are destroyed |
| `sip_pool` | one machine of two gateways, two callers, one crash, one failure | calls are kept apart by the lock; a shrink spares called gateways; a failed count takes nothing off; marks lead to the end of the machine |
| `gateway_call` | a SIP gateway or a recording, two containers, one reading | no gateway stays in a conference without its call; a container whose call or browsing is over, or that docker stops, ends |
| `call_report` | a SIP gateway, two containers, one reading, with a presentation or without, two parsers | a call counts once and as it was; its video is that of the call, not of a reading; its history is kept until it is counted; the ledger is implemented |
| `pairing` | two gateways, two visitors of one address, two codes, a limit of one, one death of the proxy | a code leads to no other screen than the one it was read on, if that gateway never had a code in common with another; misses are bounded; a lock-out ends; a gateway shows a code that works again and again |
| `accounts` | an administrator and another account, two browsers, epochs up to 2, two rows | revoked sessions are refused, also those being opened; the audit replays to the table; the last administrator goes in a race only |
| `rules` | two consoles, two entities, up to three rules, the first two with positions or without | the list decides as shown; a new rule wins; an order is written whole unless another crosses it; twins come of crossing checks only |
| `recording` | two recordings, of up to two segments and two chunks, one fault, one caller, with and without transcription | what can be downloaded is whole; subtitles are at their time; what can be processed is; losses are those listed |
| `start_preempts` | one gateway, two clients | expected violation: two concurrent /start get the same gateway |

`PROJECT.json` quotes, under "findings", the line of the documentation that
`start_preempts` refutes.

Bounds. Two names of one number are enough for the history of one container to be read as
that of the next, and for /start, the loop and a late write to meet; one client with the monitor
for two coroutines to hold stale data of the same entry; two rooms tell a late room from the
right one. A machine boots once and goes once. Two time slots, chosen freely at each
iteration, make the pool grow and shrink in one behaviour. `media_pool` has no
/start: its rooms come from the voice menu (`CallerPicks`), which the proxy
learns from polls. `sip_pool` needs two gateways on one machine for the counts
of downScale to differ from yes and no, two callers for the lock, and one
contact per gateway, which its next container takes over once nothing refers to it.

In `call_report` two containers are enough for one to find the other's file, its
late requests and its row; one reading gives the two tables of a reading beside
those of the end, in each order of the two pipes, and is asked for in the first
container only. That is up to four tables, the fewest for which the manager compares the
streams with one another. `Above` has one value in the run, both in the theorems. In
`pairing`, with a limit of one and two visitors, the throttle is passed by both at once. Two
gateways and two codes are enough for a gateway to show one code while an older one of its own
lives or is in a hand, and for a code that is free again to lead to the other gateway. (With
three of each and one visitor, 423,476 states up to symmetry, `DrivesWhatItRead` holds as well,
of a third gateway beside two that share a code.) In `accounts` two accounts and
two browsers make every pair of crossing requests; epoch and rows bound the
requests that may start, not those under way, and the epoch distinguishes the
first session, a revoked and a renewed one. Browsers are symmetric. In `rules` three
rules allow an order to be crossed by an insertion and a deletion. In
`recording` the second start meets the watcher of the first, or destroys it. The one fault
is of any kind: a request to the proxy or its answer, a poll, the transcription, the merge,
the upload. (With two callers, three segments and two chunks, 7,431,146 states up to
symmetry, the safety properties hold as well, which is when two starts cross and one
segment is written, one transcribed and one given up; and with one caller and two faults,
9,795,958 states, `CompleteIsWhole` and `SubtitlesInTime` do.)

CHECK_DEADLOCK is off where the system may really stop: no more containers to
start (`gateway_call`, `call_report`, `recording`).

Fairness. asyncio resumes a coroutine whose request ended, and a request ends:
the launcher answers or the connection breaks (`Launcher`, `Resume`). The monitor
loops for ever (`MonitorStep`, its loop catches everything). A container
registers every thirty seconds while it runs and its entrypoint's waits have
timeouts (`Register`, `LeavesBoot`). scale.sh never stops asking
(`ScalerStep`). `Reap` is strongly fair: it is enabled only during a cleanup,
and the instance is older than ten minutes in every one from some point on.
In `SipPool` only the scaler runs for ever and the rows of dead containers expire.
In `GatewayCall` the processes of a container run: events are read, orders obeyed,
the exit goes on, the thread opens its browser (with a timeout) or fails;
`Joins`, and the end of menu and conference, are not promised. In `Pairing` lifetimes
end, answers arrive and visitors go on; a gateway registers every thirty
seconds, so that `Enrols(g, TRUE)`, which an answer that gets lost interrupts,
is strongly fair. In `Recording` the capture has a longest time, and the watcher
and the processing are shell scripts that go on; `RecordingEnds`, `Watches` and
`Processes` are weakly fair, the transcription while recording is not.
Nothing is assumed of clients, callers, polls, the end of calls, docker stop, crashes,
boots or the loop that starts a gateway again.

## Known divergences

What the models show the code to do against a comment or a document, beside the
run above, or against what one would expect of it. No property claims the
contrary.

* A machine hosts several gateways; the scaler marks the idle one and destroys
  the machine of all (`ScalerMedia.py:57-58`, `:68`). `Terminate` does so, and
  `media_pool` has one gateway per machine.
* A call that starts between the scaler's read and its write (`ScalerMedia.py:50`,
  `:64`) is cut with its machine.
* The cleanup of entries left in `stopping` compares a time without zone
  (`ScalerMedia.py:62`) with one that has one (`:74`, `:84`), which raises: it fails
  on the very entries that `proxy.py:61-63` says it finds. `CleanVisits` fails there;
  `CleanupGetsThrough` and `MarkTransient` hold as entries are rewritten or go.
* lockGw takes one contact of each machine (`request_gw.py:67`): of two calls that
  arrive together one can be refused though another gateway is free, while
  `docs/call_flow.md:24` says that a free one is selected.
* The SIP scaler locks what is registered now and compares the number with an
  earlier one (`ScalerSIP.py:52`): a gateway that registers makes up for one that
  is called, and the call is cut (`scaler.md:56`). `ShrinkSparesCalls` excepts it.
* `docs/scaler_logic.md:22-24`: the running capacity is no safeguard in the code,
  and a machine that never registers goes only if it has no address.
* The check for the last administrator and the change are two transactions
  (`api/users.py:157`): two administrators that demote each other leave none.
  `LostOnlyInRace` says that there is no other way.
* A user's change of password writes the new epoch into the cookie of the browser that
  made it, whatever crossed it: if an administrator reset the password meanwhile, this
  one browser stays signed in. `Outdates` leaves its session out.
* An account deleted and created again under its name starts at epoch 0
  (`api/users.py:222`): a cookie of the former one may be accepted. `OutdatedRefused`
  speaks of cookies of the same row.
* The SIGTERM handler uses a module that is not imported (`netstring.py:18-21`); the
  loop takes the error for the end of the socket, the events not yet read are
  lost, and the report of a stopped call has no Call-ID: the manager refuses it
  (`router.py:130-132`). In the ledger such a call is lost.
* The handler of a failed upload deletes the transfer and lets the script succeed
  (`filesender.py:341-349`), for which `entrypoint.sh:144` removes the recording.
  ffmpeg's failure is not looked at either (`entrypoint.sh:132`), and a service that
  died makes the launcher report a recording as over. `LossesKnown` lists these ways.
* A concat that ends early leaves a file that is sent as if it were the whole, and the
  segments are removed (`entrypoint.sh:132-134`). `CompleteIsWhole` says that what was
  merged arrives whole, not that all was merged.
* A recording of sound only has a transcript of its first text: `transcript.py:175` adds
  the length of a segment's video stream, which there is none of, and `float('')` raises;
  `entrypoint.sh:117-123` goes on with what was written. `SubtitlesInTime` speaks of what
  precedes the segment that could not be read (`unread`).
* A poll that fails removes the entry (`proxy.py:540-545`), and a container that records
  registers it anew as `created` (`:1032-1047`). The next /start takes it, and
  `SIPMediaGW.sh:174` (`--force-recreate`) destroys the recording; two /start that cross
  at their await do the same. `LossesKnown` lists both.
* A pairing code is drawn without a look at those in use (`proxy.py:993-994`) and takes
  over the mapping (`:1019-1023`): who read it on the first screen then drives the second
  gateway. With 36^5 codes this is rare; `DrivesWhatItRead` excepts the gateways to which
  it happened.
* On a call without a sample and without a presentation, the table of a reading whose
  answer was lost (`baresipCmd.py:29-37`) is stored as a stream of the call: two tables
  with nothing between them look like the two streams of one report (`mapping.py:152-154`).
  `OwnVideo` leaves these calls out.
* The container that follows another under its number registers before it empties the
  history (`entrypoint.sh:32-41`, `:153-154`), so that for a while its entry shows the room
  of the container before it. `RoomTruthful` speaks of the rooms of the number.
* The loop may take a number, under a new name, between the answer of the launcher's check and a
  /start of the old name (`SIPMediaGW.sh:225-233`): the entry of the old name then says
  `started` with a room that no container has, until a poll fails.
* `api/org_units.py:263-266` says that a check of the whole list keeps two consoles from
  interleaving; it is a transaction before the one that writes, and two orders that cross
  can both pass it. `OrderAsAsked` excepts an order that another write crossed.

## Proofs

`MediaPool_proofs` proves first of the registry by itself, for any gateways, machines,
rooms, clients and faults, under `RegistryAssumption`:

* `TypeCorrect`: `TypeOK`, by one lemma per group of actions.
* `RoomsAreStarted`: inductive with `TypeOK` alone. `OnlyWriters` says which
  four forms a written entry has.
* `CreatedIsABeginning`: an action property from the same lemma.
* `RoomsAreTrue`: `RoomTruthful` is not inductive, since an answer in flight
  carries a room that will be written later. `RoomInv` adds that the containers and
  the history of a number only know rooms the number was sent to (`KnownRooms`), and that the
  room of an answer is one of these (`HonestAnswer`): for a /start only once the
  launcher said ok, because the room the request carries has been sent nowhere before.

`ScalerPolicy_proofs` proves, for any settings and counts, even contradictory
ones, that a shrinking iteration takes no more than the idle gateways beyond the buffer
or what exceeds the maximum (`ShrinkSparesTheBuffer`), and that a target below the
maximum satisfies floor, buffer and load ratio (`TargetIsEnough`). Its lemmas
`IncreaseType` and `SizeForFits` type the iteration of both scalers: when there is an
instance type of one gateway, upScale finds one for any number left to order, and none
that is larger than that number.

`MediaPool_proofs` then carries what is proved of the registry over to the pool, for any
machines, slots and failures of the provider, under `PoolAssumption` (which says that
the gateways are finitely many: the scaler counts entries). The scaler touches the
registry in two ways only, a machine goes or an entry is marked, and both keep the
lemmas of the registry:

* `PoolTypeCorrect`: with `HeldIsCounted` (`PoolInv`), as a shrink that holds a gateway
  still has one to mark, and counts down from there.
* `PoolRoomsAreStarted`, `PoolRoomsAreTrue`, `PoolCreatedIsABeginning`: the invariants
  and the action property of the registry hold with the scaler's stale write.
* `PoolShrinkSparesBuffer`: from `ShrinkSparesTheBuffer` of the policy.

`SipPool_proofs` proves that no gateway gets two calls, nor one while it quits,
as long as no container crashed (`GatewaysTakeOneCall`), and the types of calls and
rows (`CallsAndRowsTyped`). The property `OneCallPerGateway` says nothing of the table, so the
invariant does: the rows of a gateway with a call are locked and its container is ready,
unless the machine went (`CallIsLocked`); one that quits keeps its lock until its
row goes (`EndingIsLocked`); a gateway has one row (`OneRow`), containers die with
their machine only (`DeadAreGone`), and an unlock that is due finds nobody
(`UnlockIsDue`). A crash breaks `OneRow`, and with it the property: two rows of
one user name can be locked for two calls.

Of the SIP scaler it proves, on `ScalerInv`:

* `SipTypeCorrect`: every variable has its type.
* `SipBlindSparesPool`: `CountsFromZero` says that a count is 0 until it is read, and stays 0
  when the reading failed; with an empty count the policy takes off no more than what
  exceeds a maximum.
* `SipShrinkSparesCalls`: `SelectedAll` says that the machines under way have no more
  rows than their SELECT counted, but for those that registered since; a row locked by a
  call is then missing from the free ones the UPDATE finds. The property speaks of
  machines that are there (`host[h] = "on"`): the rows of a machine that went expire one
  by one, and when that of a ringing call has, an unlocked row of the same machine makes
  up the count; what is marked then is gone anyway. Two gateways per machine do not show
  this, three do.

`CallReport_proofs` proves of the call, for any application, containers and
readings, `NoGuestIsLeft`. The property speaks of a browsing thread and an end under
way; the invariant `GuestInv` of what the socket still holds: before a call is accepted
nobody browses and no CALL_ESTABLISHED is on its way (`NotYetBrowsing`), a call that
is over has been told of (`ClosedIsTold`), a thread that is over has ordered the
hang-up (`DoneHangsUp`). Of the reports it proves, under `CallAssumption`:

* `ToldAsItWas`: the events, the lines and the records that are anywhere under way
  are of the container's own call, and CALL_CLOSED is among them only when the call
  is over (`TrueEvents`, `TrueLines`); so a push that names a call comes from its
  container after its end (`RequestInv`), and a parser that was told "accepted" knows
  its call counted (`PushInv`). `Kept` says once for all the steps of the gateway what
  they leave alone. The others rest on this one.
* `ReportsKeepLedger`: every step is a step of `CallLedger` or a stutter, the refinement;
  `OneAdvances` reduces it to the one call whose status moves.
* `HistoryIsKept`: a history is kept until its call is counted.
* `CallsAreCountedOnce`: the unique indexes keep two rows of one call apart only if the
  pushes of both parsers agree on whether it came up, since a row with a start and a
  row without one do not conflict. `StoryInv` follows the order that makes them agree,
  from the socket through the pipe to the file: the end of the call is told once, its
  start before it (`Before`), and once the end is recorded, in the file, a request or
  a row, nothing of the two is still to come (`Recorded`). Then every request and row
  of a call, and the file as long as it tells the end, say the same start (`SaysStart` in
  `BooksInv`), and a second push conflicts (`CountedConflicts`). That start and
  streams are the call's own comes from `ToldAsItWas`.
* `ReportTypeCorrect`: the types, and that a row has no more streams than the readings
  and the end of the call give, by counting the tables in pipe and file (`TablesOK`).
* `OwnVideoIsStored`: `VideoInv` follows the tables over file and pipe together. Those of the
  end are printed once, and no table of a reading comes after one of a later reading or of
  the end (`Orderly`); a call that goes on has no table beyond its last reading (`Within`), so
  that the next to be printed is again the last. With samples, what is kept are the tables of
  the end (`SampledVideo`). Without, nothing is forgotten (`UnsampledVideo`); if the tables come
  by pairs, the streams only go up from one pair to the next (`TablesGoUp`), `looksCumulative`
  says so, and the last pair is stored (`PairsAreRepeated`), which is that of the end
  (`ClosingAreTwo`).

`Pairing_proofs` proves the types (`PairingTyped`) and

* `CodesLeadHome`: `CodesInv` follows a code from its drawing to a hand, for the gateways
  that never had one in common with another (`shared`): no other screen shows it
  (`ScreensApart`), it is mapped to its gateway or not at all (`ScreensTrue`), an entry has
  its own gateway's address (`EntriesTrue`), and a code read there is mapped to where it
  was read, or to nothing (`HandsTrue`). A code that is drawn while it is in use puts both
  gateways in `shared`, and with them whoever holds it.
* `MissesAreBounded`: the misses and those who have passed the throttle make, together,
  at most the limit and all visitors but one (`MissesInv`), for any number of visitors.

`ManagerAccounts_proofs` proves the types (`AccountsTyped`) and

* `AuditTellsTheTable`: with the types inductive as it stands (`RecordsInv`).
* `OutdatedAreRefused`: `SessionsInv` says that no cookie, and no sign-in under way, has a
  higher epoch than the row it is of, and a strictly lower one when it is outdated; and
  that the ids in cookies were given out.
* `LastAdminLostInRace`: `SelfInv`, what a request that passed `Reads` can no longer do
  to the account it comes from. The count of lastAdmin is not needed for this: who is
  admitted is an administrator, and cannot remove itself.

`OrgUnitRules_proofs` proves the four properties of the rules, under `RulesAssumption`.
First the list: `Above` orders the rules strictly (`AboveOrders`), so that the places,
which count the rules above, are those from one to the number of rules, each once
(`PlacesOrder`, `ShownIsTheList`). Then

* `CallsAreDecidedAsShown`: of any table. The deciding rule with the greatest place is
  the only one ahead of all the others.
* `RulesInv` is about time: what a console was told by its checks, or computed, still
  holds as long as no write that could change it has crossed. `StillAlone` is the duplicate
  that was not there, `StillBottom` the position below the list, `StillPlaced` the rows that
  the snapshot of an order had in their place. `IdsGiven` and `Apart` keep the id of a rule
  under way out of the table and of every list under way. `CrossingKeeps` says it once for
  the four kinds of writes: each changes only what its name in `crossed` lets go.
* `NewRulesDecide`, `OrdersAreKept` and `TwinsComeOfRaces` follow from `StillBottom`,
  `StillPlaced` and `StillAlone`.

`Recording_proofs` proves the types (`RecordingTyped`) and

* `CompleteMeansWhole`: `UploadInv` ties the position of the upload to what the server has.
* `LossesAreKnown`: `LossInv`. As long as the watcher of a recording waits, the entry, the
  answer on its way and the /start that has picked do not take the recording for over if
  they were told of it (`WatcherInv`); an entry that was removed, and the one registered in
  its place, were told nothing (`ForgottenInv`). What destroys a recording is then one of
  those that were not told, which is what the list says.
* `SubtitlesAreInTime`: a segment that counts as processed has its text or was given up
  (`TagsAnswered`), whichever container wrote it and whichever transcribed it; the place
  of a text is the number of texts before it, which is its number less one when none
  was given up. The transcript ends with the segment that could not be read (`unread`), if any.

Only model-checked: every liveness property (they rest on fairness, which the
prover does not handle) and the expected violation. Every safety invariant and action
property of the runs is a theorem. The type invariants of `Pairing`, `ManagerAccounts`
and `Recording`, and that of the rules (`RulesInv`), are proved and in no run.

## Not modelled, and why

* The manager's sampler, reports and views: they read, and the sampler appends.
* The pages and injected scripts: they present state and drive third-party sites.
* TURN: a start script of an external server.
* Of modelled components: live captions (a stream of texts nobody reads back), sign-in
  through an identity provider and the command-line tool of the accounts, the
  launcher's /command and file routes, the wire protocol of the cloud's SDK, quality samples
  and derived columns of the ingest, SIP routing beyond the choice of a gateway.

## Left

1. A composition of `GatewayRegistry` and `GatewayCall`: the history that the launcher reads
   is the one the parsers write.
