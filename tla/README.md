# A TLA+ model of icwmpd

icwmpd is a TR-069 (CWMP) client for home gateways. It collects *events*
(boot, periodic, value change, a finished download, ...), opens a *session*
with an auto-configuration server (ACS), reports the events in an Inform,
answers the requests of the ACS, and tries again when the session fails.
Events that must survive a reboot are kept in an XML backup file.

This directory holds TLA+ models of the daemon's own logic: the life of an
Inform event through sessions, failures, the backup file and restarts; the
threads that run transfers, scheduled work and deployment units; the services
beside the session (value changes, periodic Inform, connection requests,
XMPP); the configuration; and the transactions of the data model. TLC checks
each on small instances, and TLAPS proves, for every value of the constants,
the invariants of the session engine, the refinement of an abstract
specification of event delivery, and the invariants of the transfer threads, of the
services and of the data model.

All source paths below are relative to `src/`.

## 1. Inventory

### Threads and locks

| Thread | Code | What it does |
|---|---|---|
| main | `cwmp.c` `main`, `cwmp_schedule_session` | start-up, then the session loop for ever |
| connection request server | `http.c` | authenticates a connection request, raises event 6 |
| XMPP client (optional) | `xmpp_cr.c` | the same for an XMPP stanza |
| ubus | `ubus.c` | methods inform, command, notify, status; netlink messages |
| periodic | `event.c` `thread_event_periodic` | raises event 2 |
| notify | `event.c` `thread_handle_notify` | polls parameters with notification, raises event 4 |
| scheduleInform | `xml.c` | raises events 3 and "M ScheduleInform" |
| download, upload, schedule download, apply, DU state | `xml.c` | run transfers and report them |
| exit | `cwmp.c` `thread_exit_program` | ends the process |

`mutex_session_queue` protects the queue of sessions, the events and the RPCs
of the queued session. `mutex_session_send` is held by the scheduler for a whole
session and by a transfer thread for a whole transfer. The condition variable
`threshold_session_send` wakes the scheduler. `mutex_backup_session` protects
each operation on the backup tree. `mutex_periodic`, `mutex_handle_notify`,
`mutex_value_change` and one mutex per list of transfers protect the rest.

### Components

| Component | State | Operations | Correct when |
|---|---|---|---|
| Session scheduler (`cwmp.c`) | `head_session_queue`, `session_send`, `head_event_container`, `retry_count_session`, `cwmp_cr_event` | choose, send, converse, close, requeue, merge, destroy | one session at a time, one queued; what a failed session owed is owed by the next; queued sessions start |
| Inform events (`event.c`) | the event list of a session, the static id, `list_value_change` | add, save, remove, root causes at start-up, producers | sorted lists, SINGLE events once, parameters not lost |
| Backup (`backupSession.c`) | the XML tree and the file | insert, delete, rename, save, load | the file holds what is pending and nothing that was delivered |
| RPC methods (`xml.c`) | the message trees, `end_session` | one handler per method | the effect happens once, at the right time of the session |
| Transfer, schedule and DU threads (`xml.c`) | `list_download`, `list_upload`, ..., `count_download_queue` | accept, launch, apply, report, expire, discard | each request is run and reported once, across a reboot too |
| ScheduleInform thread (`xml.c`) | `list_schedule_inform` and its counter | accept, raise, discard | every entry raises its event when it is due |
| ubus object (`ubus.c`) | `count_handle_notify` | inform, command, notify, status | what the reply says happens |
| Connection request server (`http.c`) | the accepted requests of the last period | accept, authenticate | an accepted request leads to a session, the limit is kept |
| XMPP (`xmpp_cr.c`, `dm/dmtree/common/xmpp.c`) | connection sections, attempts, request counter | connect, retry, give up, answer | the client settles, requests are limited |
| Interface monitor (`netlink.c`) | the address of the WAN interface | address message, first dump | a new address leads to a value change |
| Configuration (`config.c`) | `conf` | load, reload, set by the ACS | `conf` is what the files say, the ACS keeps its own settings |
| Data model (`dm/`) | UCI options, notification lists, aliases and instance numbers | get, set, add, delete, commit, revert | a set is all or nothing, attributes stick, instances are fresh |
| Diagnostics (`diagnostic.c`, `scripts/functions/*_launch`) | DiagnosticsState and results in UCI | request, run, stop, analyse, report | one test for each request, its own measures |
| External scripts (`external.c`, `scripts/`) | the action of one pipe | launch, read the answer | reduced to their outcomes |
| HTTP client, SOAP (`http.c`, `xml.c`) | a curl handle | init, send, exit | reduced to their outcomes |
| Digest, MD5, zlib, jshn, log, time, installation scripts | - | - | libraries, support and packaging |

Components interact through shared memory under the mutexes above (producers
and scheduler), through the condition variables, through the files (one process
and the next, other programs and the daemon), and through callbacks of the RPC
table (`extra_clean`, by which an answered or destroyed Inform removes the
events of its session).

### Hard behaviours

`PROJECT.json` lists forty under `hazards`, each at its line. In short: signals
sent without the mutex the waiter holds; heads of lists read without their lock
and used after a wait; producers that add to the next session while the present
one fails and is merged with it; a crash between the steps of raising, sending and
acknowledging, or inside a save; ids that start again in a new process; locals
that outlive the turn of the loop that set them; mutexes locked and unlocked
under different names; a configuration that is loaded while it is used; and
searches by the position of keys.

## 2. Modules

| Module | Models | Extends or uses |
|---|---|---|
| `EventTable` | the EVENT_CONST table, `cwmp_add_event_container` | |
| `BackupTree` | the operations of `backupSession.c` the session engine needs, on event, transfer and ACS records | `EventTable` |
| `CwmpSession` | the scheduler, the producers, the end of sessions, crash and start-up | `BackupTree` |
| `EventDelivery` | abstract: events are owed until an Inform is answered | |
| `SessionDelivery` | the refinement mapping from `CwmpSession` | `CwmpSession`, INSTANCE `EventDelivery` |
| `Transfers` | Download, Upload, CancelTransfer, their threads, records and reload | |
| `ScheduleInform` | the handler, the thread, the removal of all entries | |
| `ScheduleDownload` | the handler, its two threads and their windows | |
| `ChangeDuState` | the handler and the thread of deployment units | |
| `BackupFile` | records of pending work: searched by position of keys, saved in place, read again | |
| `Configuration` | the UCI options, their load by two threads, ManagementServer | |
| `DataModel` | one RPC at a time on one object: walks, aliases, notification lists, the UCI transaction | |
| `VoiceServices` | VoiceService profiles, lines, codecs and parameters | |
| `Diagnostics` | the request, run, stop and report of ping, download and upload tests | |
| `DiagnosticTrace` | what the analysis reads out of the captured packets | |
| `Notifications` | the ubus call notify, the comparison of values, the sessions that report them | |
| `PeriodicInform` | the periodic thread while its settings are loaded again | |
| `ConnectionRequests` | the server, its limit and its answers | |
| `Xmpp` | the connection objects, the client thread, requests over XMPP | |
| `MCCwmpSession`, `MCSessions`, `MCTransfers`, `MCScheduleInform`, `MCScheduleDownload`, `MCChangeDuState`, `MCFiles`, `MCDataModel`, `MCServices` | instances for TLC | |
| `SequenceLemmas` | facts on sequences the proofs share | |
| `SessionDelivery_proofs` | proofs about `EventTable`, `BackupTree`, `CwmpSession` and `SessionDelivery` | |
| `Transfers_proofs`, `ScheduleInform_proofs`, `ScheduleDownload_proofs`, `ChangeDuState_proofs`, `DataModel_proofs` | proofs about the module each is named after | |
| `Services_proofs` | proofs about `Notifications`, `ConnectionRequests`, `Xmpp` and `Configuration` | |

`MCFiles`, `MCDataModel` and `MCServices` put components side by side. A variable
`scenario` or `part`, chosen at the start, says which one moves; the others stay
as they are, so that a run asks its question of each component and their
states do not multiply. The models do not share state: what one assumes of another
(a session begins and ends, the queue is locked, the ACS URL changes) is a step
of its environment that may happen at any time the code allows.

### EventTable

An event is a record of code, command key, id and parameters. Codes are the
indices of `EVENT_CONST`. The sets `Single`, `RetryAfterReboot`,
`RetryAfterTransmitFail` and `NoRetry` are the columns of that table. `AddEvent`
works on a record `[evs, id, at]`: the list, the id counter, and the index of the
container the function returns. It is a value, so that a critical section
which adds several events is a composition of calls. The field `saved` is
history: it remembers that `cwmp_save_event_container` has promised to keep
the event. No modelled guard reads it.

### BackupTree

A tree is the sequence of children of `<cwmp>`. `Matches` keeps a property of
`bkp_session_node_found` that matters: the search starts at the first element
of the name asked for but walks on over all siblings, so an event record of
the other status with the same id is found too. Command keys are single
words here; `BackupFile` looks at the others.

### CwmpSession

| Variable | Code |
|---|---|
| `queue`, `send`, `head` | `head_session_queue`, `session_send`, `head_event_container` |
| `events`, `rpcs`, `ends` | lists and `end_session` of each session structure |
| `nextId` | the static id of `cwmp_add_event_container` |
| `vc` | `list_value_change` |
| `url` | `conf.acsurl` |
| `session`, `retry`, `err`, `crEvent`, `retryCount` | locals of `cwmp_schedule_session`, `session->error`, `cwmp_cr_event`, `retry_count_session` |
| `pc`, `idx` | where main's thread is, and its loop position |
| `npc` | where `cwmp_add_notification` is |
| `bkp`, `file` | `bkp_tree` and `CWMP_BKP_FILE` |
| `reqs`, `restarts` | counters for the bounds |

*Granularity.* A producer's critical section under `mutex_session_queue` is one
action: no other thread can observe it half done. A crash inside a section
has the same effect as a crash before or after the last save in it, except
where a section saves twice or changes the tree after a save; those
are split (`merge_*`, `destroy_*`, `bootstrap_*`, `event_remove_all_event_container`). The
signal is part of the producer's action: the code sends it right after the
unlock, and its effect is the same at any later moment while the scheduler is
blocked. The scheduler moves its `pc` between any two statements
where another thread, a crash or the network can come in. In particular the test of the queue
(`sched_lock`) and the start of the wait (`sched_sleep`) are two steps, as nothing
a producer holds excludes it from the gap.

*The session.* `sched_*`, `cwmp_prepare_value_change`,
`cwmp_move_session_to_session_send` start it; `http_client_init`, `rpc_*`, `xml_send_*`,
`xml_handle_message` and `cwmp_handle_rpc_cpe_*` are `cwmp_schedule_rpc`;
`event_remove_noretry_event_container` is its failure path; `end_*` is `run_session_end_func`;
`requeue_session`, `merge_*` and `destroy_*` are the two ways to close. Every outcome of the
network is possible at every exchange. Of the producers, `cwmp_handle_command` is the ubus
command, which sets a flag of the queued or the sent session, and `netlink_new_msg` and
`freecwmp_netlink_interface` raise the event of a new address.

*Start-up.* `Init` is main after `cwmp_init` on a device without a backup file.
`restart` and `load_*` read the file that a previous process left; `cwmp_root_cause_*`
and `connection_request_port_value_change` follow in main's order.
`crash`, `end_reboot`, `end_factory_reset` and `transfer_exit` end the process.

*Abstractions.* SOAP, HTTP, the data model and the scripts are reduced to
their outcomes. A save is atomic (`BackupFile` takes it apart). Memory allocation does not
fail. A spurious return of `pthread_cond_timedwait` is not modelled: it has the effect of a signal
sent by a thread that queued nothing new (`transfer_silent`). `time_t` has
64 bits, so that MAX_INT32 seconds (`inc/cwmp.h`) means "for ever". The boot marker file
is not modelled: whether a start raises BOOT is a free choice.

### EventDelivery and SessionDelivery

`EventDelivery` knows a phase (recovering, running, answered, switching, down), the events
*owed* to the ACS and those *stored* in the file. Events enter `owed` when they are raised or read
back (`Raise`); one leaves it while an answered Inform is being acknowledged (`Acknowledge`), when
the ACS is another one than before (`Abandon`), or with the process (`Stop`). Only owed events enter the
file, a restart owes nothing but what the file brings back (`Restart`), and start-up is not
over before all of it is owed again (`Recovered`). `SessionDelivery` maps `pc` to the phase, the
pending events that `EVENT_CONST` retries after a failure to `owed`, and the event records of
`file` to `stored`. Sessions, failures, requeues, merges and destructions all map to
stuttering or to `Raise`.

### Transfers, ScheduleInform, ScheduleDownload, ChangeDuState

The threads of `xml.c` share a pattern: look at the head of a list without its lock, block, then go
on with the pointer that was read. Each blocking call, and each point where a crash leaves
something else in the file, is a step boundary; `cur` is the pointer, and a structure that is
freed meanwhile is used with the content it had. `tree` and `file` are the records before and
after a save. The variables `accepted`, `raised`, `reported`, `dropped`, `removed`, ... are history: they
say what became of each request, and no guard reads them but the ones that bound the run.

* `Transfers` has both threads, main as the thread that runs the sessions (it handles Download,
  Upload and CancelTransfer, and discards every request when the ACS URL changes), four mutexes,
  and the counter the threads share. A thread reads the counter and writes it back in two steps where
  the code holds a mutex of its own kind only. The removal of all requests (`remove_begin`, `remove_all`)
  and the reload (`restart`, `load_request`, with `rest` for the records not read yet) go one request at a
  time, so that a crash may fall between any two.
* `ScheduleInform` has one thread. Entries of the same time are raised together.
* `ScheduleDownload` has the thread that chooses among the windows and the one that applies a
  file between sessions. `min_time` and the chosen request outlive a turn of the loop, as in the code.
  A walk (`Look`, `Visit`, `Decide`) goes from entry to entry; for one that is over it locks its list (`Expire`) and then
  waits for `mutex_session_queue` to report it (`Expired`). The removal of all requests at a change of the ACS URL
  (`cwmp_root_cause_event_bootstrap`, `remove_all`) holds `mutex_session_queue` in two critical sections and takes the
  mutex of each list in turn. Hence the circular wait `Deadlock`.
* `ChangeDuState` keeps what the lookups of `uuid` and `url` find (nothing: the options are
  called UUID and URL), the write through a null pointer after an install, and the clock that may be set back.

### BackupFile and Configuration

`BackupFile` has eight kinds of records with the keys of each in the order of their insertion and the
keys each search asks for; the search of `apply_schedule_download` asks in another order than its record
has (`Disordered`) and finds nothing. A save truncates the file and writes it in a second step; what is
read again is the first word of each text, and a record of `change_du_state` is read without its request
waiting again (`Misread`): it stays on file as an orphan.

`Configuration` reads 36 options in the order of `get_global_config` over a structure that keeps
what is not there any more. Two threads load: the scheduler at the end of a session, the
ubus thread at the command reload, which tests `last_status` without a lock. Other programs commit
changes meanwhile, and an option may be unreadable. ManagementServer's setters and getters are one
step. Simplifications: the path of the DHCP option is always configured, the three reads
of the URL step are one, and an empty text is an absent one.

### DataModel, VoiceServices, Diagnostics, DiagnosticTrace

`DataModel` is the transaction of `dm/dmentry.c` on one object with instances, each with a
parameter that is stored, one that is read-only, and an alias. `dm_entry_param_method` checks every entry
and browses (which numbers sections and gives them aliases), `dm_entry_apply` applies the list or stops at
the first fault, `dmuci_commit` and `dmuci_revert` end it, and `dm_entry_restart_services` restarts what
was changed at the end of the session. Other programs change the same sections between RPCs.

`VoiceServices` is the largest object with state of its own: profiles own the lines whose
`sip_account` is theirs, and codecs are rewritten from what asterisk answers in each walk. Instance mode is number,
lines are numbered when they are given, and an RPC is atomic.

`Diagnostics` has the states and results of the three tests, the launch scripts and what stops
them; `DiagnosticTrace` follows the sequence numbers of one connection through a capture as `diagnostic.c` does.

### Notifications, PeriodicInform, ConnectionRequests, Xmpp

`Notifications` relates the value of a parameter, what the lists know of it, what has been
reported, and the counter and signal between the ubus call and the notify thread. Its sessions
are reduced to what they do with changes. SetParameterValues sets one value after the other
(`dm_update_enabled_notify_byname`), of which the first list learns at once, and is then committed or
reverted. The lists are loaded again at the end of a session, and by the command reload (`cwmp_handle_command_reload`,
`cwmp_config_reloaded`), which looks whether a session runs and loads them later, also under a comparison. `odd` names
the parameters of which the list has learnt otherwise than by a report, `lost` a signal that nobody waited for. `PeriodicInform` lets the clock run modulo a round and the
load fill in one setting at a time. `ConnectionRequests` counts clients in seconds. `Xmpp` has
the two functions that call each other with a counter each, and the check of senders against the
allowed JIDs, as sequences of characters because the code compares them by length.

## 3. Properties

| Property | Statement | What could break it |
|---|---|---|
| `RetryTimed` | a scheduler that holds a session back for its retry has one to retry and a wait that times out; failures are counted only while what failed is queued or sent | a merge, a destroyed session |
| `QueueShape` | at most one queued session, it is `head`, it is never the one sent; no FATAL | a stale `head_event_container` |
| `InformFirst` | a queued session has one Inform, first | requeue and merge |
| `EventsOrdered` | events sorted, SINGLE codes once | insertions from many places |
| `Durable` | until the first restart, a saved pending event has a record of its own in the file | a crash after raising |
| `NoReplay` | until the first restart, between sessions, each event record belongs to a pending event | an Inform repeated after a reboot |
| `Reloaded` | after start-up, each record of the file is pending again | a crash anywhere |
| `EventsDelivered` | the session engine implements `EventDelivery` | failure, merge, destruction, restart |
| `ParamsKept` | a changed parameter stays until an Inform with it is answered | splice and merge |
| `ReportsKept` | the same for reports of transfers, apart from the case below | failure after the Inform |
| `QueuedStarts` | with the periodic thread, a queued session is started | lost signals, retry |
| `GrmStarts` | a session with GetRPCMethods starts, as the ubus reply says | lost signals |
| `ListsConsistent` of `Transfers` | lists are in order, no request is both pending and done on file, none runs or is reported twice; the counter is right as long as one kind of request is accepted and none removed, because the threads of both count under different mutexes and count a removed request again | counters adjusted in ten places, under different mutexes |
| `ListsConsistent` of `ScheduleDownload` | no request is both pending and done on file, but for missed ones; each of the four mutexes is held only between a lock and its unlock, until a fetch in mode 2 fails or thread `apply` has waited for a second window. It does not say that nothing runs twice: an idle request that is done can be started again from the values the loop has kept | hand-overs between two threads, mutexes unlocked under another name |
| `ListConsistent` | the same of ScheduleInform entries; none is lost | crash between event and record |
| `NothingLost` | an accepted request is pending, reported, or on file, but for the crashes the property names | crash between request and report |
| `CancelSticks` | what CancelTransfer removed is not on file | a thread that has read it |
| `NotEarly` | nothing runs before its window opens | values kept from the last turn |
| `ReportedOnce` | a DU request is reported once, with a result for each operation | reload, clock |
| `SessionUndisturbed` | the DU thread unlocks `mutex_session_send` under a session only in the cases named | clock set back, reload |
| `SleptForIsDone`, `LaunchedIsReported` | what a thread waits for or has chosen is dealt with; in `ScheduleDownload` until a fetch in mode 2 fails or the removal of all requests and a thread wait for each other | lost signals, mutexes never released |
| `RemovalEnds` | the removal of all requests ends, when nothing expires | waits in a circle |
| `RecordsMatch` | each request that waits has a record that is deleted with it, and there are no others; an insertion finds the record it made, for every kind but `apply_schedule_download` | search by position, null keys |
| `Recovered` | what waited at the last completed save waits again after a restart, unless the process ends inside a save; a `change_du_state` request is only on record | words, kinds of records |
| `ConfigurationSound` | `conf` is what the files said when it was loaded, a session uses one configuration, the ACS reads back what it set | a reload during a session |
| `SetAllOrNothing`, `AttributesStick`, `FreshInstance`, `ServicesFollow` | a set RPC changes all or nothing; an attribute is kept as set; a new instance inherits nothing; services restarted are those whose options changed | registers and lists that outlive an RPC |
| `VoiceSound`, `DiagnosticsSound` | lines, profiles and codecs agree; one test for each request, with its own measures | walks that write, statics |
| `ChangesReported` | an announced change is compared, or its signal was lost; what the list knows and the ACS does not is on its way, but for what a reload or a reverted set has put there and what an older report overtakes; an active change has a session | counter and comparison race, sets that are reverted, reloads |
| `PeriodicGoesOn` | with periodic Inform enabled, event 2 comes on time | settings read during a load |
| `RestrictionHolds` | the limit on connection requests holds and recovers | the period is restarted by refusals |
| `XmppSound`, `ClientSettles` | a period takes half of CONNECTION_REQUEST_RESTRICT_REQUEST requests before one is refused, and never more than that constant; the client keeps to its attempts and intervals, and connects or gives up | counters that are reset |

`Durable` and `NoReplay` stop at the first restart on purpose. The id counter
starts again at 0 while reloaded events keep their ids, so a new event can be
taken for a saved one; the promise does not hold then.

`ReportsKept` names an exception of the code instead of hiding it. `cwmp_cr_event` is
set when a failed session contained a connection request and is never
cleared. A later session that fails after its Inform was answered is then
destroyed with the reports it still had.

Other properties have exceptions that are the code's, each in the comment of the property. The
ones a reader of the code should know:

* A crash while the script of a transfer runs loses the request (`xml.c:2249`), as does one after a
  failed launch (`xml.c:2471`); two requests with equal fields share a record.
* A request that is cancelled or discarded after the thread has read it is counted down twice, and two
  threads adjust `count_download_queue` under different mutexes; so the counter is compared for
  one kind of transfer, and until the first cancellation.
* An expired upload leaves its mutex locked (`xml.c:3470`). The removal of all requests holds
  `mutex_session_queue` while it waits for the mutex of a list (`event.c:492`, `xml.c:3724`, `xml.c:3761`); a thread that
  reports an expired request holds the mutex of its list while it waits for `mutex_session_queue` (`xml.c:2451`,
  `xml.c:2610`, `event.c:508`). They can wait for each other for ever, with downloads and uploads (`RemovalEnds` excepts
  an expiry) and with scheduled downloads (`SleptForIsDone` excepts `Deadlock`).
* A reloaded DU request gets its operations linked into the list of requests (`backupSession.c:1683`) and never runs,
  and one dated ahead of the clock is skipped with a mutex unlocked that was not locked (`xml.c:3031`).
  The record of either stays on file, which `NothingLost` takes for pending.
* The insertion of an entry to be applied searches its keys in another order than the record has them
  (`backupSession.c:367`, `backupSession.c:390`): an equal entry gets a second record.
* The notification thread tests its counter and then waits (`event.c:620`). It tests again after a comparison, so that
  a change announced meanwhile is seen; but a signal that falls between the test and the wait is lost, and none follows,
  because `ubus.c:48` signals only when the count was 0.
* A reload takes the current values for known ones, so that a change that was announced and not compared is never
  reported (`config.c:1216`, `ubus.c:104`). SetParameterValues enters each value in the list of notifications when it
  is set (`dm/dmcwmp.c:1200`); a later entry that fails reverts the options (`dm/dmentry.c:215`) and leaves the list with values
  that are neither stored nor told. A retried session reports its older value after a newer one (`cwmp.c:175`).
  `NothingForgotten` excepts these (`odd`) until the thread notices the next change of the parameter.
* A reload fills the configuration in while other threads use it (`config.c:1207`): the periodic thread may
  take a period of zero, a connection request may get 503 for want of credentials (`http.c:332`), and
  the interface monitor may compare with an interface name that is not there (`netlink.c:76`). The command reload
  tests `last_status` and then loads (`ubus.c:96`); it takes the mutex of the backup twice when the URL has
  changed (`ubus.c:103`).
* The retry interval: the range tests of `config.c:630` and `config.c:647` always succeed, and a
  multiplier below 1000 divides by zero in `cwmp_get_retry_interval` (`cwmp.c:149`).
* XMPP: Domain and Password share an option, so a connection the ACS adds cannot be enabled; senders
  are compared over the length of the first allowed JID; requests after the first of a period are counted twice
  (`xmpp_cr.c:135`, `xmpp_cr.c:145`), so that half of what CONNECTION_REQUEST_RESTRICT_REQUEST says is served.
* Diagnostics: the ping's stop script ends itself and never writes None; a failing ping is not reported; an
  upload is measured with statics of the last download (`diagnostic.c:356`).
* Voice: an exchange of lines leaves a call line with the old account (`voice_services.c:1436`); a walk before asterisk
  answers clears the codecs; a codec enabled with all slots taken replaces another.

## 4. Runs

| Run | Module | Instance | Checks | Result |
|---|---|---|---|---|
| `session` | `MCSessions` | one long life (periodic, connection requests, downloads, retries), or two short ones with crashes and a second ACS URL | RetryTimed, QueueShape, InformFirst, NoReplay, Reloaded, EventsDelivered, ReportsKept | holds, 449 thousand states |
| `producers` | `MCCwmpSession` | all producers but transfers, 2 parameters, ubus commands; no restart | EventsOrdered, Durable, ParamsKept | holds |
| `starts` | `MCCwmpSession` | periodic and connection requests, fairness, deadlock checked | QueuedStarts | holds |
| `wakeup` | `MCCwmpSession` | GetRPCMethods from ubus, periodic disabled, fairness | GrmStarts | violated |
| `transfers` | `MCTransfers` | five scenarios of downloads and uploads | ListsConsistent, NothingLost, CancelSticks | holds |
| `transfers_live` | `MCTransfers` | three scenarios of downloads, fairness | SleptForIsDone, RemovalEnds | holds |
| `informs` | `MCScheduleInform` | three entries, delays 0 to 2, a change of ACS, a crash | ListConsistent, SleptForIsDone | holds, 307 thousand states |
| `schedule` | `MCScheduleDownload` | three kinds of windows, both modes, failures, a crash, a change of ACS | NotEarly, ListsConsistent, NothingLost, SleptForIsDone | holds, 152 thousand states |
| `du_state` | `MCChangeDuState` | two requests, every operation, a crash, a clock that is set back | NothingLost, ReportedOnce, SessionUndisturbed, LaunchedIsReported | holds, 186 thousand states |
| `files` | `MCFiles` | four kinds of records; or the configuration with two loaders | RecordsMatch, Recovered, ConfigurationSound | holds, 610 thousand states |
| `data_model` | `MCDataModel` | eight scenarios of RPCs, voice, diagnostics and captures | SetAllOrNothing, AttributesStick, FreshInstance, ServicesFollow, DiagnosticsSound, VoiceSound | holds, 644 thousand states |
| `services` | `MCServices` | each of the services by itself | ChangesReported, RestrictionHolds, PeriodicGoesOn, XmppSound, ClientSettles | holds, 307 thousand states |

Run one with `tlc -config session.cfg MCSessions`.

### Bounds

* `session`: `Sid` has three addresses: one session sent or torn down, one queued, and
  a spare one, so that a freed address is not forced to be the next one. `MaxId` stops the
  producers after so many new events in one process. Five events let a session with its own
  three be overtaken by a newer one that must be merged with it. The action constraint `Lives` keeps
  either to one process with one ACS and five ids, or to two processes with three ids and two
  records, which is what a crash can lose and a reload can mix up. `MaxRpcs` 3: an Inform and two more, so
  that the merge loop removes an element and goes on. `MaxReq` 1: one request of the ACS in a session; its
  handlers leave no state behind but flags and one event. `MaxRetry` 1: `retry_count_session` is tested
  against zero only. `MaxRestarts` 1: one file written by one process and read by another.
  Transfers report a download (14) and a DU change (17), the two kinds of record.
* `producers`: three events and two parameters; the violations under the mutants need two.
* `MAX_INT_ID` is 100 where ids do not wrap. It is 1 in `starts` and 3 in `wakeup`,
  below `MaxId`, so that producers never stop and liveness is asked of
  a system that goes on.
* `transfers`, `informs`, `schedule`, `du_state`: two or three requests (an order of two, and one more that is
  refused by a queue of two), a clock of three or four ticks (before, at and after the time, and after the grace),
  one restart. `schedule` combines them in three scenarios: one request of either mode with a crash and the
  restart of an image; one with failed fetches and a change of ACS while it waits; two at a time.
* `files`: four kinds of records with all the fields of their searches (one searched and saved as it should be, one
  without a search, the disordered and the misread one), two command keys (two words, and none), two
  times; two changes by others and one value the ACS sets at a time, of every parameter.
* `data_model`: two instances and lists of two entries tell the first, the repeated and the last entry apart; three
  RPCs let the third find what the second left of the first. Two lines, two profiles, three codecs for two
  slots; captures of up to three segments.
* `services`: three parameters with the three kinds of attributes and two changes; periods of 2 and 3 in a
  round of 6; five clients against a limit of two in two seconds; four XMPP requests in five seconds.

`CHECK_DEADLOCK FALSE` is set everywhere but in `starts`, because requests stop at their bound
and the threads then rightly wait for one that does not come. `starts` has no
such bound, and there TLC checks that the system never stops.

### Fairness

The session engine has weak fairness of main's thread, `WF_vars(Scheduler)`: the mutexes
it needs are held by other threads for a finite time, its exchanges
with the ACS have timeouts, and its waits end by a signal or a timeout, which are
actions of their own. It never assumes that the network succeeds. The periodic
thread is weakly fair when periodic Inform is enabled, because its only wait is a timer. No other producer
is fair.

The transfer, schedule and DU threads are strongly fair: they compete for mutexes that are
free again and again, and a thread that is never given one is not what the code can be blamed
for. The clock goes on (`WF` of `tick`), main ends the sessions and removals it begins, and procd starts a process
again that has ended (`respawn`, `init/icwmpd.init:182`). In `services` the periodic and the XMPP threads
are weakly fair while it is their part.

### The lost signal

Producers signal `threshold_session_send` after they release
`mutex_session_queue`, without `mutex_session_send`. The trace of `wakeup`: the scheduler finds
the queue empty; the ubus thread queues a session with GetRPCMethods, signals, and
answers "Session with GetRPCMethods will start" (`ubus.c:282`); the
scheduler starts to wait for MAX_INT32 seconds (`cwmp.c:157`, `cwmp.c:201`). The session
sits in the queue until another event arrives. `starts` shows that periodic
Inform masks the defect: a later signal starts the session.

### Mutants

Each property of a passing run has a mutant, an operator of the same module that changes a
definition the way a plausible mistake would (`PROJECT.json`, `mutants`). For
instance `StickyDuplicate` does not reset `dup` in the merge loop, `AcceptUnsaved` forgets a save,
`SleepForEver` takes the wait without a timeout, and `ChangedAfter` looks for changed packages
after the commit. TLC finds the property violated under each.

## 5. Proofs

`tlapm` checks these for every value of the constants, that is for any number of addresses, URLs,
keys, parameters, requests, restarts and ticks:

| Module | Theorem | Property or statement |
|---|---|---|
| `SessionDelivery_proofs` | `Invariant` | `Spec => []Inv` |
| | `TypeCorrect` | `TypeOK` |
| | `QueueShapeHolds` | `QueueShape` |
| | `InformFirstHolds` | `InformFirst` |
| | `EventsOrderedHolds` | `EventsOrdered` |
| | `RetryTimedHolds` | `RetryTimed` |
| | `AddEventOrdered` | adding an event keeps a list well-formed |
| | `OwingInvariant` | `Spec => []Owing` |
| | `EventsAlwaysDelivered` | `EventsDelivered`: `CwmpSession` implements `EventDelivery` |
| | `ParamsAlwaysKept` | `ParamsKept` (action property) |
| | `ReportsAlwaysKept` | `ReportsKept` (action property) |
| | `ReloadedHolds` | `Reloaded` |
| | `RecordInvariant` | `Spec /\ []FewIds => []RecordPart` |
| | `DurableHolds` | `Spec /\ []FewIds => []Durable` |
| | `NoReplayHolds` | `Spec /\ []FewIds => []NoReplay` |
| `Transfers_proofs` | `ListsAlwaysConsistent` | `ListsConsistent` |
| | `NothingEverLost` | `NothingLost` |
| | `CancelAlwaysSticks` | `CancelSticks` |
| `ScheduleInform_proofs` | `ListAlwaysConsistent` | `ListConsistent` |
| `ChangeDuState_proofs` | `NothingEverLost` | `NothingLost` |
| | `AlwaysReportedOnce` | `ReportedOnce` |
| | `SessionNeverDisturbed` | `SessionUndisturbed` (action property) |
| `ScheduleDownload_proofs` | `ScheduleInvariant` | `Spec => []ScheduleInv` |
| | `NotEarlyHolds` | `NotEarly` |
| | `ListsConsistentHolds` | `ListsConsistent` |
| | `NothingLostHolds` | `NothingLost` |
| `Services_proofs` | `ChangesAlwaysReported` | `ChangesReported` |
| | `RestrictionAlwaysHolds` | `RestrictionHolds` |
| | `XmppAlwaysSound` | `XmppSound` (action property) |
| | `ConfigurationAlwaysSound` | `ConfigurationSound` (action property) |
| `DataModel_proofs` | `DataAlwaysSound` | `Spec => []DataInvariant` |
| | `SetAllOrNothingHolds` | `SetAllOrNothing` |
| | `AttributesStickHolds` | `AttributesStick` |
| | `FreshInstanceHolds` | `FreshInstance` |
| | `ServicesFollowHolds` | `ServicesFollow` |

`SequenceLemmas` holds what the proofs share about `Append`, `RemoveAt`, `InsertAt`, `RemoveFirst`, sorted
sequences and the sets of their elements, and `AllNumbers` and `UpTo`, induction over the naturals for
a set instead of an operator: what a recursive function of a list computes is the set of positions it is
right at.

*Assumptions.* They are the named ones of the modules. `SidAssumption`: NULL is not a session, and there
is always an address that is neither of any two given ones (three addresses are enough).
`UrlAssumption`: NULL is not a URL. `CodeAssumption`: the codes are codes of the table.
`MaxIntIdAssumption`: MAX_INT_ID is positive. `RestrictAssumption`: the limit is positive.
`KindsAssumption`, `NumbersAssumption`, `WindowsAssumption`: downloads and uploads, modes of windows, and naturals.
`NoteAssumption`: attributes are 0 to 6, and there is a value. `InformAssumption`,
`UnitsAssumption`, `BoundAssumption`: bounds are naturals, and what is known is among what there
is. `NamesAssumption`, `ValuesAssumption`: the ACS names parameters and objects of the tree, there is a value, and
attributes are 0 to 6. `XmppAssumption`: period and limit are naturals, the limit positive. `XmppSetsAssumption`: the ACS sets parameters that exist, to
numbers where numbers are meant, and `MaxFailures`, the bound of a history variable, is beyond every number of
attempts it sets. `OptionsAssumption`: every option has a value or is absent, and the ACS sets
parameters of ManagementServer, a time to a number of seconds and the lightweight notification protocols to UDP, the
only one there is, or to none. TLC evaluates all of them.

One hypothesis is about a behaviour: `FewIds`, that the counter of event ids is two short of
its wrap, `MAX_INT_ID` (`inc/cwmp.h`, `event.c:116`). A critical section of the modelled code draws two ids at
most. The process would have to raise 2^31 events without a restart before it fails. It cannot be dropped: with `MAX_INT_ID` = 2
TLC finds a behaviour in which a new event is taken for a saved one and has no record of
its own, which is what `event.c:116` allows after the wrap.

### The session engine

*The invariant.* `QueueShape` is not inductive. That the queue is free of the session being sent
depends on which session main's thread holds, and only its place in the program
says that. `Phase` states it: during an exchange the scheduler holds
`session_send`; while it merges it holds a session that is neither queued nor sent, and the queue
is not empty; while it waits it holds none. `InformFirst` needs two more facts. A failed session
goes back to the queue with whatever its exchange left, so
`SendRpcs` says that no Inform stands behind the first RPC of the session being sent; and
`EnsureInform` supplies the missing one. A merge removes the Inform of the old
session, because the queued one has its own. `EventsOrdered` needs the list
lemma for every place that adds events, and that removal keeps order. `RetryTimed` (`RetryPart`) needs that a session is only held back
before the scheduler waits, and that one which is merged, or freed after that, has failed and stands beside a queued one.

*The layout.* `SessionDelivery_proofs` begins with what `Stop` and `AddEvent` do to a list of any length,
then types the tree operations and proves `QueuedInv` (a critical section that adds to the queued session keeps the
invariant) and, from it, one lemma per group of actions: `ProduceStep`, `ScheduleStep`,
`ConverseStep`, `CloseStep`, `StartStep`, `EndStep`, and `NextInv`, which combines them.

### Delivery

That an event is owed until it is answered is a statement about two lists, a tree and a
file at once, so the invariant `Owing` relates them. It is `Inv` with four parts:

* `EventsPart`: an event that is SINGLE has no key, and only VALUE CHANGE has parameters. So
  an `AddEvent` that finds the code present has nothing to add but parameters.
* `TreePart`: the file records what the tree records, except while events are being removed and not saved yet.
* `SessionPart`: a session keeps its Inform until its events are reported, and while a failed session
  is merged, what was moved already is held by the queued one.
* `LoadPart`: start-up has raised again what stands before its position in the file.

`Keeping` says what a step may do to the pending events, parameters and reports, and one lemma turns it into
a step of the abstract specification and the two action properties at once
(`Delivery!Next`, `ParamsOK`, `ReportsOK`). The module then has a lemma per action, grouped as
the actions are: lists of events, the backup tree, the critical sections of the producers,
the exchange, requeue, merge and destruction, removal, start-up.

*The records of events.* `Durable` and `NoReplay` compare the pending events with the records of the file, which
`backupSession.c` finds by name and id alone. `Ledger` keeps their books: ids are no larger than the
counter (`Numbered`), no two pending events share one (`Apart`), nor do two event records (`OneEach`); each saved
event has its record (`Kept`), and each record is that of a pending event and has the name
its session's status asks for (`Owned`). `Elsewhere` says that only the queued session and
the one main holds have events, so that these two are all the owners there are.
`FilePart` takes it from the tree to the file. Each operation on records has a lemma that says what it does to
the books: insertion, the two renamings, deletion, and the critical sections of the producers, which add events
to the queued session and save. The requeue of a failed session is one, since it renames all records and changes the owner of each. The merge of
a failed session into the queued one is the hard case: an event that is dropped because its
code is pending already takes its record with it, and one that is kept takes its record with it to the other name.
`Ledger` is about the first life of the process, as the two properties are.

### Transfers

The theorems are about `Spec`, with both threads and every request, cancellation, removal and crash at once;
the runs take them a scenario at a time. `TransferInv` has, beside `ListsConsistent`:

* `Numbered`, `Known`, `Distinct`: a request is known by its number, everything in a list, on record or in the
  hand of a thread was accepted, no two records are found by the same search. Only so does
  `bkp_session_delete` remove the record that is meant.
* `Pending`, for the tree and for the file: a recorded request was not run, done or cancelled. `NeverBoth` and
  `CancelSticks` follow. It is inductive because `Launch` deletes the record before it
  runs the script, and because nothing inserts a record but the handler that numbers the request.
* `Places`, `Waiting`, `SendHeld`: what each place of a thread knows of the request it has read, although its
  list is not locked. A request in a list waits, or its own thread has it in hand. That gives `AtMostOnce`: a
  thread that has run a request removes it from the list before it looks again.
* `Kept`: what `NothingLost` says of a running process, for the tree and the file as well, so that it
  holds again after a crash. `Loading` carries it through a reload that is itself cut short: a record is in
  `rest` or in its list.
* `Counted`: what the counter counts while its threads exclude each other. It needs who holds the mutex of a
  list, which ceases to be known when the upload thread releases `mutex_download` (`xml.c:3470`); with one kind of
  request nobody else is there to be misled.

### ScheduleDownload

`backupSession.c` finds a record by its fields, so that two requests with the same fields, *twins*, may take each
other's record: an entry that is applied deletes the record of its twin, and a reload finds one
record for both. `NeverBoth` survives this because of an order, which is the heart of `ScheduleInv`:

* `InOrder`, `FirstOfTwins`, `FirstOver`, `HandedFirst`: of twins, the one accepted first stands first in both lists and
  in the records of entries, is chosen first (the walk replaces its choice only for a smaller
  beginning, `xml.c:2593`), is over first, and is handed to thread `apply` first. So it is launched and deleted first, and a
  deletion by fields takes the record of the first or, when that is gone already, of a twin that is pending still.
* `Books`, `Listed`: no two records of requests are twins, a record of an entry is older
  than the record of its twin, and what is on record is in a list.
* `Settled`: a request that is done and was not missed is not chosen again. It is the one in hand, or was
  chosen for a window of another mode and taken from the list.
* `Chosen`, `Way`: `min_time` is the beginning of a window of the request in `current_download`, whatever
  turn of the loop set it, and `launch` is reached only after it has come. `NotEarly` follows, because the windows of a
  request do not overlap (`Numbered`).
* `Walked`: what a walk has passed is not over, and `min_time` is no later than the windows it has seen. A walk takes many
  steps, between which the other thread, main and the clock move; `here` is the entry it has come to.
* `Mutexes`: `MutexesReleased`, with the mutex of the list of requests while thread `apply` records its result, and
  that main holds `mutex_session_queue` only within a removal.
* `Ended`, `Kept`: where a request is in the tree, in the file and in the process, at each place of the
  threads; only so does `NothingLost` hold again after a crash at any point. Twins are excepted, as the property says.

The module goes by the parts of the code. It shows that `RemoveFirst`, the records' searches and
deletions keep order; then what the removal of all requests and the
reload compute for a list of any length, by `AllNumbers`; then what a step of the threads may move at all (`Move`,
`Onward`), from which the mutexes follow; then one lemma per action and part (`WalkKeeps`,
`ExpireKeeps`, `RemoveAllKeeps`, `HandKeeps`, ...), which `ScheduleStep` combines.

The proof showed that `MutexesReleased` was stated too narrowly. The wait for a second window locks
`mutex_apply_schedule_download` and never unlocks it (`xml.c:2985`). The property excepted the states in which such a
wait was in sight. An entry that is handed over between the thread's look and its decision leads to the
same wait, so the property now excepts what is meant, that thread `apply` has left its mutex
locked, and says nothing less while it has not.

### The other components

* `ScheduleInform`: `InformInv` adds to the list's order and limit that entries are numbered as they are
  accepted (`Numbered`, `Known`), that no two records are the same (`Apart`), where the entry is
  that the thread holds (`Tracked`, `Due`, `Settled`), what the counter counts (`Counted`), and that an accepted entry
  is in list and file, raised, dropped or removed (`Kept`).
* `ChangeDuState`: `DuInv` says what each place of the thread knows of its request and of the mutex (`Turn`),
  that requests on file are those in the list (`Linked`, `Recorded`), and which are not reported
  yet (`Unreported`).
* `Notifications`: `NoteInv` follows a change by its stages: announced (`Heard`), not slept over unless its signal was
  lost (`Awake`), known to the list and then the last thing that the values being set, the list of changes or the lists of
  a session say of the parameter (`Carried`), and with a session when it is active (`Started`). `Stages` says which of
  these are empty while a session is at each of its steps. The parameters of `odd` are outside `Carried`.
* `ConnectionRequests`: the property speaks of all arrivals so far; `RequestInv` says what the start of the
  period and the count know of them (`NoPeriod`, `Counting`, `Refusing`, `Owed`).
* `Xmpp`: requests over XMPP are limited by code of their own, which counts every request but the first of a
  period twice: `CountedTwice` and `RefusedLast` say what the counter knows of the requests of this period and
  the one before. Hence the two bounds of `RequestsLimited`. `ClientInv` has the types and a retry counter that is never ahead of the failures, which `Patient` needs.
* `Configuration`: `ConfInv` says what is right in the middle of a load. Two loads may overlap, and each clears
  the structure first, so what counts is the set of options read since the last clearing (`Following`, `Right`).
  Some options are read by what others gave (the version, the URL of the ACS), and `BeforeClosed` shows
  that the order of the code reads those first; each field that is only set while its option is there, or
  while the version allows it, has its cleared value or the final one (`KeptRight`). Hence `Settled`, when
  the last load ends. `AcsServed` follows what the ACS sets: it is committed, and it is loaded
  or the reload at the end of the session is still to come. `Loaders` has the threads exclude each other: a
  session that is served meets no load of the command unless the command looked before it began (`late`).

Each was checked by TLC as an invariant of its run before it was proved.

### The data model

`DataInvariant` relates the committed data (`Disk`, with sections that are `Sound`: numbered upwards) to what the last RPC found and
answered: `SetOutcome`, `NoteOutcome` and `AddOutcome` are the three properties, stated of any two states of the
data. The work is in the loops. An RPC checks its entries one after the other and then applies them, and every
walk numbers sections and names aliases on its way, so the sections change under the names that follow.

* `Like` says what browsing leaves alone: the sections that `Full` would show when all had been browsed. Every check and every walk
  keeps it (`CheckedRun`, `WalkedLike`), so a name means the same section at the end of an RPC as at its beginning
  (`SameTarget`). An entry that sets an alias changes that, which is the exception `Renames`.
* `SetUpTo` and `NotedUpTo` say what the first `k` entries have done to the sections and to the lists. `SetNext` and
  `AboveNext` are the step, and `SetAll` and `NoteAll` carry them through a list of any length, with `Iterated` (a
  recursive function over positions is defined) and `UpTo` (what holds at 0 and with each next position holds up to the last).
* `Covers` is a partial order on paths (`CoversAgain`, `CoversChain`), from which `SetIs` follows: after
  `set_parameter_notification` every path below the one given has the new value and all others what they had.

### Only model-checked

Liveness (`QueuedStarts`, `GrmStarts`, `SleptForIsDone`, `RemovalEnds`, `LaunchedIsReported`,
`PeriodicGoesOn`, `ClientSettles`) is out of the prover's reach. So is induction over data with the
library's theorems, whose parameter is an operator; where the code's loop is a recursive function of positions,
`AllNumbers` or `UpTo` takes its place (removal and reload in `ScheduleDownload`, the entries of an RPC in `DataModel`).
`RecordsMatch`, `Recovered`, `VoiceSound` and `DiagnosticsSound` stay with TLC: they say what folds over the fields of
records, over lines and codecs and over packets compute, in `BackupFile`, `VoiceServices`, `Diagnostics` and
`DiagnosticTrace`.

## 6. Plan

| Order | Theorem | What it needs |
|---|---|---|
| 1 | `RecordsMatch` of `BackupFile` | the fields of a record as a function instead of a fold |

## 7. Not modelled

SOAP, XML and HTTP formats, digest authentication, logging, compression, time formatting and the JSON glue
have no state on which the modelled behaviour depends; what they return is a free choice. The
objects of `dm/dmtree` other than ManagementServer, VoiceService, XMPP and the diagnostics are
tables of accessors that read and write options or call ubus. Lightweight notifications are
sent and forgotten. The exit command and the answer of `status`, `tcpdump`, `ping` and the commands of
the scripts are external. `PROJECT.json` lists every component with its status.
