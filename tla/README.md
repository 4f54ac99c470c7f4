# TLA+ models of the HiWiFi root file system

The repository is the root file system of a HiWiFi router: an OpenWrt system
with the vendor's own services in Lua and shell, and the pages by which a browser
administers it.  Most of the services are short programs that cron, a cloud
agent, a web request or a kernel event starts, and that meet in files under
`/etc`, `/tmp` and the flash.  No memory is shared and there is no server in
between, so the errors that matter are those of programs that read, write and
unlink the same files at the same time, hold a lock that is not one, or die half
way.  In the pages there is one thread, and the errors that matter are those of
callbacks: answers, timers, loads of images and frames, animations and the user's
own events, which come in any order and find the state that others have left.
These modules model both.

Lines are quoted as `file:line`; a Lua module `hiwifi.x` is the file
`usr/lib/lua/hiwifi/x.lua`, and a page is a file under
`usr/lib/lua/luci/view` or `www/turbo-static/turbo`.

## 1. The system

| Component | State it keeps | Operations | What makes it correct |
|---|---|---|---|
| File locks, `hiwifi.lock` | a POSIX record lock on `/tmp/lock/<name>`, open files of each process | `lock`/`unlock(name)`, `flock`/`trylock`/`unlock(handle)`, `test_lock` | exclusion; no lock outlives its program; a holder keeps it |
| Message queue, `hiwifi.mq` | index of services, flag `processing`, one inbox file per message, two locks | `init_service`, `add`, `process`, `clear_inbox`, `init_mq` | one processor works; no message is lost silently or sent twice without cause; every message leaves its inbox |
| Firmware, `hiwifi.firmware`, `sbin/sysupgrade` | cached image, its metadata, locks `firmware` and `upgrade`, running sysupgrades | `download`, `wait_download`, `upgrade`, `wait_upgrade`, `atomic_download_upgrade`; check, kill, write | metadata tell the truth; only a verified image is started, and written |
| App market, `hiwifi.market`, `cmagent/conf.lua` | `/etc/market/<app>.script`, `.info`, what each app installed, lock `market` | `install`, `uninstall` | what is listed is installed and can be undone |
| MAC filter, `hiwifi.mac_filter` | ACL of each radio interface, uci `wireless`, `/etc/app/block_list` | `deny_mac`, `allow_mac`, `disable`, `save_setting` | a request that is alone takes effect or is refused; what is stored is applied |
| Internet state, `inet_chk.sh`, `net_update_actions.sh`, link events | `/tmp/state/inet_stat`, led, kproxy, dnsmasq, the switch `inet_chk` | `netup_action`, `netdown_action`, `inet_chk_switch` | led and kproxy follow the recorded state |
| Traffic page, `traffic.js`, `trafficinfo.htm` | requests, timers and a watchdog; a window of byte counters for each interface; tabs, numbers, drawing, cookie | `start`, `stop`, `refresh`, `loadData`, `showTab`, `reloadPage` | polling goes on and reloads only for a reason; the total is the traffic; one interface is displayed |
| Dialogs and home page, `artDialog`, `util.js`, `home.htm` | open dialogs, z-order, locks, timers, reused objects, frames; probes of the router | open, close, lock, drag, time; restart, `autoLink` | the box that waits for a restart is displayed, and goes |
| Search box, `jquery.autocomplete.js` | input, pending request, cache, suggestions, selection, mouse | typing, keys, mouse, blur, answers | no answer of an old query is displayed; return meets a selection that there is |
| Relay guide, `internet_relay.htm`, `jquery.dropkick` | select, list over it, inputs, refreshes under way | scan, fill, open, pick | what is displayed is submitted; a refresh ends |
| Network list, `net_setup.htm`, `jquery.dd.js` | select, title, marks, inputs | scan, mouse, keys, click | what is displayed is submitted |
| Mobile navigation, `jquery.mobile-1.1.0.js` | page, lock and queue of transitions, `urlHistory`, history of the browser, loading message | link, back and forward, load, failure, end of a transition | address and page agree; messages go; the queue is served |
| Mobile links, same file | address, base, hash | link, load, failure | a link leads where the browser would go |
| Mobile touches, same file | touch, list of refused clicks, timers, look of buttons | touch, move, scroll, click, reset | a tap acts once; nothing stays pressed |
| Mobile network form, `admin_mobile/network/net_setup.htm` | radios (attribute and property), boxes, select and its button | answers, scans, tabs, choice | what is displayed is submitted |
| Guest tracking, `wifi_event.lua`, `device_guest_check.lua` | `device_guest`, `device_names` | an association, the periodic check | every new guest is notified once |
| Timed jobs, `part_speedup.script`, `wifi_sleep.script` | `/etc/crontabs/root`, crond | `set_notice`, `remove`, `update`, `off`, `down`, `up` | no job is lost; one set of jobs of a kind |
| Periodic jobs, `cmagent/cron.lua`, `census.lua` | `/tmp/data/cron`, `/tmp/cron` | start of a job, cached upload | a job runs once per period; the last result is uploaded |
| Backup of the configuration, `hwf-config`, preinit | flash partition `hwf_config` | save, restore | after a cut, a whole backup or none, and none is taken for one |
| Open API, `openapi/callapi.lua` | a directory per client | `bind`, `unbind` | a bound client has its secret |
| Web sessions, `luci/sauth.lua` | session files | `read`, `write`, `clean`, `kill` | a session in use is not cleaned |
| Daemon watch, `hwf_health_chk.sh`, `dog_cmagent.sh` | pid files, samples | check, restart | what died is restarted |
| Wifi, `sbin/wifi`, `wisp_chk.sh` | `/var/run/wifi.pid`, uci | `enable`, `disable`, reconnect | the last restart completes |
| Device lists, boot, firewall, web API, vendored libraries | — | — | see "Not modelled" |

### How they interact

* cron starts `mq.process()` every minute; the event and check scripts of guest
  tracking, of wifi sleep and of the daily report are the queue's producers.
* `cmagent` receives a message of the cloud and starts `executor.lua`, which runs
  `conf.lua` (market), `firmware.lua` (upgrade), `setup.lua` and others each as a
  process with a directory of its own.  Two messages are two processes.
* the mobile API and the web API call the firmware module and the MAC filter from
  processes of their own.
* every one of them takes locks through `hiwifi.lock`, by one of its two
  interfaces.  The queue and the firmware use the handle interface, the market
  and the MAC filter the string interface.
* the link events and `inet_chk.sh` call the same functions of
  `net_update_actions.sh`; what these set is read by nobody but the user.
* the pages call the web API, which calls these modules.  A page knows of another only by
  cookies, by the address and, in a frame, by the dialogs of the page around it.
* `sysupgrade` is left in the background by a caller that exits.

### What is hard

* `lock(name)` and `unlock(name)` keep the locked file in a local variable.  It is
  garbage when `lock` returns, and its collection closes it and so gives the
  lock up (`lock.lua:16-24`).  A POSIX record lock belongs to the process, and
  closing any file on the path ends it.
* `fs.writefile` opens, which empties the file, and writes afterwards
  (`nixio/fs.lua:38-48`).  A reader without a lock sees the empty file.
* flags on disk survive the program that set them (`mq.lua:198-211`).
* several results in one answer, unlinked one by one after it (`mq.lua:417-432`).
* a background process that uses a file after the lock was given up
  (`firmware.lua:204-205`).
* scripts of apps that fail half way, with the script that undoes them elsewhere
  (`market.lua:134-143`).
* a lock that covers the file but not what is derived from it
  (`net_update_actions.sh:70,129,167`), or a list that is loaded before the lock
  (`mac_filter.lua:124,144`).
* a file that is written before what it depends on is checked
  (`mac_filter.lua:134,150`, and then `72-74`).
* in the pages: requests that are never aborted (`traffic.js:327`), objects that are reused
  under callbacks of their former life (`jquery.artDialog.js`), widgets that copy a select
  and have to be told when it changes, a property and an attribute that are both
  called "checked", and a browser whose clicks come after the touch that was
  already acted upon.

The hazards, each at its line and with the properties that cover it, are the list
`hazards` of `PROJECT.json`; those of programs that are not modelled are in section 6.

## 2. Modules

| Module | Models | Used by |
|---|---|---|
| `Mutex` | abstract specification: a set of holders, of at most one | FileLock, MessageQueue, Firmware implement it |
| `FileLock` | one lock name of `hiwifi.lock`, both interfaces | justifies the locks of the others |
| `MessageQueue` | `hiwifi.mq` with producers, processors, cleaners, clock, server | |
| `Firmware` | `hiwifi.firmware` and the sysupgrades it starts | |
| `Market` | `hiwifi.market` run by `conf.lua` | |
| `NetState` | `inet_chk.sh`, `net_update_actions.sh` and the link events | MCRouter |
| `MacFilter` | `hiwifi.mac_filter` run by requests | MCRouter |
| `TrafficPoll` | when `traffic.js` asks | MCWebLive |
| `TrafficHistory` | what is made of the answers | MCWebPages |
| `TrafficView` | tabs, numbers, drawing, cookie | MCWebPages |
| `Dialog` | the calls of artDialog, as operators | HomePage |
| `HomePage` | the restart, `autoLink`, the function windows | MCWebLive |
| `RelayGuide` | the choice of a network in the guide | MCWebLive |
| `Autocomplete` | the search box | MCWebPages |
| `DropDown` | the choice of a network in the settings | MCWebPages |
| `MobilePages` | navigation of the pages for telephones | MCWebPages, `mobile_queue` |
| `MobileLinks` | where their links lead | MCWebPages |
| `VirtualMouse` | touches, clicks and the look of buttons | MCWebPages |
| `MobileForm` | the form of the network on a telephone | MCWebPages |
| `MC*` | the small instances for TLC; `MCRouter`, `MCWebLive` and `MCWebPages` hold several components each | |
| `*Proofs` | the theorems about each; `RouterProofs`, `WebLiveProofs` and `WebPagesProofs` those of several components | |
| `Counting` | induction over the numbers up to n, for recursive functions | WebLiveProofs, WebPagesProofs |

Definitions marked `Mutant:` in a comment are wrong variants of the one that
follows them.  No specification uses them; each breaks one property, which
shows that the property depends on that piece of the code.

### Mutex

One variable, the set of processes that hold.  Enter is only possible when the
set is empty.  Three components implement it by a refinement mapping that
gives `holder`: for `FileLock` the users inside the handle interface, for
`MessageQueue` the processors between setting the flag and unlocking, for
`Firmware` the callers that work on the cache.

### FileLock

`owner` is the process that the kernel gives the record lock; `open[p]` says
whether `p` has files on the path that it still refers to (`kept`) or does not
(`dropped`); `inside[p]` is the bracket that the program is in.  One action per
function of `lock.lua`, plus `Abandon` (the return of `mq.lua:459-462` without
unlock), `Collect` (finalisation of a dropped file) and `Exit`.  `Freed` is the
rule that closing any file of the owner releases the lock.

The assumption `ApiAssumption` says that no program mixes, on one lock name, the
handle interface with the functions that leave an unreachable file.  It is
true of this tree, and it is necessary: `HandleOwnsLock` fails without it.
The string interface gives no exclusion, and no property says it does.

The module stands by itself because a model of all users of all locks would be a
product of unrelated state.  `MessageQueue` and `Firmware` use a lock variable
that `Exit` or a kill frees, which is what `HandleOwnsLock` and `NoOrphanLock`
allow them to.  `Market` uses the string interface and therefore has a
`Collect` action of its own.

### MessageQueue

* A producer is named after its message.  `prod[m]` is its place in `init_service`
  and `add`: lock, read the index, truncate it, write it, unlock, look the
  service up, make the file, open it, fill it.  Truncating and writing are two
  steps, as they are in `fs.writefile`.
* A processor has `at[c]`, the services of the round (`todo`), the listing not yet
  visited (`dir`), what it read (`batch`) and what it found too old
  (`expired`).  Files are read one by one and unlinked one by one.
* The answer to the POST is a choice: a code for all (unlink), a refusal, an answer
  without a code, no answer though it was received, nothing received.
* `Age` makes a file older than its timeout; `ClearFile` is one unlink of
  `clear_inbox`; `InitMq` resets the flag at any time.
* `kills` counts killed processes, with the bound `MaxKills`.

`got`, `blank`, `unanswered` and `excused` record what became of a message; the
properties are stated with them and no guard of an action reads them, but for
`got`, which stops at 2.

### Firmware

`image` is the file with whose bytes it holds and whether all of them; `info` is
its metadata.  `at[c]`, `op[c]` and `want[c]` are the caller's place,
function and firmware; `sys[c]` is the sysupgrade it left behind, which checks the
image (`SysCheck`), kills the other processes (`SysKill`) and writes the flash
(`SysFlash`).  `CallerDies` may happen at any step, between image and metadata
included.  The removal of image and metadata are two steps (`clean_cache`), as
are the reception of the image and the record of the metadata.
`Reboot` ends in an empty `/tmp`.

### Market

`script[a]` and `info[a]` are the files of `/etc/market`; `effect[a][v]` is what
version `v` of app `a` has on the router: nothing, its installation, or the remains of an
install() that failed or an uninstall() that was run.  An uninstall() is
not trusted: its remains may be anything, and `do_uninstall` does not look at its
result.  `at[c]` is the command's place; `after[c]` is where its call of
`do_uninstall` returns to: `install` for the call of line 134, `unlock` for that
of the rollback and of `uninstall`.

`Collect` takes the lock from a command at work, and `PowerCut` ends all of them.
The history variable `unsafe` records the apps that this happened to, and `AppWhole` and
`OnePerApp` except them: the lock that `market.lua:117` takes is garbage as soon as it is
taken, and a second install may then run over the first.

### NetState

The file is updated in one step, under its `flock`; the led, the port of kproxy and its
filter are set one by one after it, so that two updates interleave there.  `at[p]` is the
place of the checker or of a link event, `state[p]` the state of the net it was called for.
The agreement of the user, the switch `inet_chk` (with its time that runs out) and
the relay mode are inputs that change at any time.  What a check measures is any state.
`settled` records that the display is due: it is cleared by an overlap, by an
agreement given since, and by a led set with the switch off.

### MacFilter

A request loads (two reads), and saves interface by interface, each under a lock of the
string interface, which `Collect` may give up.  `applied[i]` is what interface `i`
filters by, `uci` what is stored, `block_list` the file of the blocked devices.
A request asks for any mode and names any string as an address; `Address` are those that
`datatypes.macaddr` knows.  `save_setting` returns false (`refused`) for what
`is_valid_setting` does not let through, and `deny_mac` and `allow_mac` have written
the file of the blocked devices by then.
`AloneTakesEffect` is about the request that met no other, and says what it leaves if it
returns true and if it returns false; the code promises nothing for others, since
it loads before it locks.

### TrafficPoll, TrafficHistory, TrafficView

The three halves of one page meet only in the answer, so they are three modules.
`TrafficPoll` has the timers (in seconds), the count of errors and the number
of open requests.  `TrafficHistory` has the values: a counter modulo `Modulus`, which
the router may restart, requests that are answered in any order, the window, and
the sums.  `TrafficView` has what is displayed, with the drawing that gets
ready at a time of its own and the cookie that another window may write.

### Dialog, HomePage

The callbacks of artDialog call one another without a break, so `Dialog` has no variables:
its operators take the state of all windows to the next.  `HomePage` has one action
per event.  An object of artDialog is used again after its dialog was closed, with whatever
was left on it: the question of the restart and the box that waits for it are the
same object.  Each call of `autoLink` is a probe with an interval of its own,
and images that fail or load in any order.

What a dialog says and what it was opened with are kept apart: `content()` rewrites the words
(`shows`) and leaves the buttons and the timer, which are those of `config`, so that
a box can still be confirmed after a failed image has written over its question.
`WaitsVisibly` leaves room for two things only.  `dismissed` is the user who closes the box;
a box that closes by its own timer (`TimeOver`) is not his doing.  `overtaken` is the outcome of
another call of `autoLink`: it is a dialog of the same id, and takes the place of the box that
is still waited in.

### RelayGuide, DropDown

In both pages a select is covered by a list that a library builds of it, and a scan
rebuilds the select.  The state is kept apart by who holds it: options and selected index,
list and label over them, and the inputs that are submitted.  For the network of a
bridge in use the router reads its configuration twice, for the status and for the address
(`luci/controller/api/wifi.lua:899-904`); the two are taken as one, so that the answer has an address
exactly if its status is 1.

### Autocomplete

The box, the request that is under way (after the delay), the cache, the
suggestions and the selection.  A text stands for what its case and inner characters
make of it, and `Results`, `Prefix` and `Trimmed` tell what the page's data do with it.
The pages of the repository give the widget an array (`lookup`) and never an address
(`serviceUrl`): the answers of a server are modelled as the widget's code handles them, but
no page asks for any.

### MobilePages, MobileLinks

`MobilePages` is about time: `changePage` with the lock `isPageTransitioning` and the queue
of requests, and the two histories that `pushState` keeps in step; a page is its
address.  `MobileLinks` is about names: an address is a sequence of parts, and
`makePathAbsolute`, `makeUrlAbsolute` and the click handler compute on it, against the resolution
that a browser would do.

### VirtualMouse, MobileForm

`VirtualMouse` has one finger, the clicks the browser has not sent yet, the list of
refused clicks and the timers.  `MobileForm` has both kinds of "checked" of the radios:
`value` is the one that the browser keeps, `network_type` those with the attribute, which
the page reads.

## 3. Runs

| Run | Instance | States | Shows |
|---|---|---|---|
| `file_lock` | 2 waiters, 2 runners that may return without unlock, 2 string users, 1 tester | 400 | exclusion, ownership, no orphans, every holder leaves; implements Mutex |
| `message_queue` | 2 messages of one service, 2 processors, clear_inbox, one kill of anyone | 1.5·10^6 | one processor, the flag has an owner, no silent loss, no double delivery; implements Mutex |
| `message_queue_index` | 2 messages of 2 services, 1 processor, one kill of it | 1.2·10^6 | the index is complete |
| `message_queue_live` | 1 message, 2 processors, no kills | 9·10^3 | a message that was added leaves its inbox |
| `message_queue_add` | 1 message | stops at once | finding: a file posted before it was written |
| `firmware` | 2 callers, 3 firmwares (running, new, one for another board) | 6·10^5 | truth of the metadata, verified launches, one flasher, a stable image; implements Mutex |
| `market` | 2 commands on 2 apps of one version, or on one app of 2 versions | 1.9·10^5 | whole apps, undo before removal, no overlap on an app |
| `market_rollback` | 1 app, 2 versions | stops at once | finding: the rollback undoes nothing |
| `router` | the checker and 2 link events; 3 requests, 2 at a time, for one device, or for a word that is no address, on 2 interfaces | 1.1·10^6 | led and kproxy follow the file; what is stored is in use; a request that is alone takes effect or is refused |
| `web_live` | traffic page with 5 requests; restart with 3 dialogs, 2 probes; guide with 4 networks, 2 refreshes | 3.8·10^5 | polling goes on, waiting and refreshes end; no reload without overlap; the wait is visible; what is shown is submitted |
| `web_pages` | 8 parts, see `MCWebPages.cfg` | 1.2·10^6 | totals, tabs, answers, forms, addresses, messages and touches agree with what was asked |
| `mobile_queue` | 3 pages | stops at once | finding: requests that stay in the queue |

Three runs hold several components.  A variable `part`, which no step changes, tells
which of them moves; the others stay in one of their initial states.  The components
share no variable, so that a behaviour of the run is a behaviour of one component, and
nothing of any of them is cut.  Some invariants of these runs are conjunctions of the
components' own (`ShownIsSubmitted`, `AddressIsRight`, `TapsSettle`), one conjunct for each.

### Why these bounds

* Locks: every property is about two processes and a third that disturbs them;
  there is one of each kind of user, and two of those that exclude each other.
* Queue: an error needs two processors, or a processor and a producer, or two
  producers that rewrite the index.  Two messages of one service make a POST carry
  two, so that it can be acknowledged half way; two services make the index and the
  round of services matter.  The index does not depend on the number of processors,
  so it has a run of its own.  `MaxKills = 1` keeps the instances in reach; the
  proofs cover any number.  `got` stops at 2: the second delivery is the event.
* Firmware: two firmwares are needed for a cache that holds the wrong one; the third
  fails the check of the board.  A third caller adds nothing to a lock of one.
* Market: two commands overlap or do not.  Two versions matter for one app, since an
  install removes what another has installed, and two apps only matter for the lock;
  `TwoOfOne` leaves out two apps of two versions.
* Net state: the errors are those of two updates; with the checker and two events
  a third one can come between the two.
* MAC filter: two requests at a time, out of three, so that one can follow two that have
  overlapped; two interfaces can differ; one device is in the list or not.  The other
  name of `Mac` is no address, and `save_setting` is asked for a mode that there is not, and for
  a list with that name, so that each half of `is_valid_setting` refuses.
  `Bound` stops behaviours after the collector has closed a lock file, for both
  properties except these.
* Traffic page: four errors make it reload, and five requests are one more.  The counter
  wraps at `Modulus` 3 instead of 2^32 and the window is 2 instead of 300, so that both
  overflow within `MaxBytes` 4; two open requests can be answered out of order.
* Home page: three dialogs are the box, the function window and one over it.  Two probes,
  for `autoLink` may be called again; each may have two images on their way
  (`Images`), so that one can fail after another has come.  `Limit` is 1 instead of 30:
  the limit is met and passed.
* Guide and network list: the scans find nothing, one network, two of the same name, or one
  that cannot be used; two refreshes (`Chain`) overlap; `MaxOptions` and `MaxBound` let a list
  grow twice.
* Search box: `SuggestionLimit` is 1 instead of 7, so that the line that counts appears and
  an index can be beyond the list.
* Telephone: three pages and `MaxHistory` 3 (4 for the finding) are the first page, one to go
  to and one to come from; `MaxQueue` 2 lets a request wait behind another.  The 14
  links have each form of address: absolute, relative, with dots, with a query, with a
  hash, of another host; `MaxDepth` 6 bounds what relative links let a path grow to.
  Two late clicks and two timers of a button are enough for one to meet another's touch.

`CHECK_DEADLOCK FALSE` stands where the system stops: in `firmware`, when the
image that was written was not whole and the router does not boot again; in `web_pages` and
`mobile_queue`, when the user has left for another host or the bounds on the
histories are reached; in `router`, when all three requests were served.

Symmetry: processors, callers, commands, apps and versions are interchangeable in
the runs that use it; the run with a liveness property uses none.

### Fairness

`Drained` assumes weak fairness of each producer, of each processor and of the
clock.  A processor's `Run` includes its start: cron starts `mq.process()` every
minute for ever, and each run has a bounded number of steps.  It assumes nothing of
the server, which may never answer, and nothing of `InitMq` and
`ClearFile`, which may never happen.  It is checked without kills, since
after a kill with the flag set every `process()` returns early until `init_mq`.
`HolderLeaves` assumes that a program runs from its lock to its unlock, or ends;
programs that return early are ended by their exit.

In the pages, `PollFairness`, `HomeFairness` and `RelayFairness` say that the browser's
timers and intervals fire, and
* for `PageKeepsPolling`, that of as many requests as the bound admits not all hang (a single
  one may hang for ever; the watchdog is there for it);
* for `WaitingEnds`, that an image comes or fails; that the router comes back is not assumed;
* for `RefreshEnds`, that the router answers a request or the request fails.

Nothing is assumed of the user, except that no property waits for him.  `PollsFairly` of
`MCWebLive` is `PollFairness` for the behaviours in which that page is the one displayed.

### Findings

1. `mq.lua:270`: `mktemp` makes the inbox file, and its content follows.  A processor
   that scans in between posts an empty message and unlinks the file; `add`
   writes into an unlinked file and returns an id.  `NoSilentLoss` states that this
   is the only such loss.
2. `market.lua:138`: the rollback has no script to run.
3. `jquery.mobile-1.1.0.js:3309`: a request that waits in the queue and is for the page that
   is displayed by then returns early without `releasePageTransitionLock`, so that the requests
   behind it stay in the queue, against the comment of lines 3214-3216.

Other things that the models do as the code does, and that the properties leave room for:
the image that a download replaces under a sysupgrade that was only started
(`firmware.lua:281`), `has_service` on a truncated index (`mq.lua:179`), a byte lost at each
wrap of a counter (`trafficinfo.htm:176`), a list of suggestions that stays for a query that finds
nothing (`jquery.autocomplete.js:431`), the file of the blocked devices after a request that
was refused (`mac_filter.lua:134`), the outcome of an earlier restart in the place of the box that
waits for a later one (`home.htm:530`), an answer that opens the wrong box of the form, and clicks
that come after the reset of the touches.  The notes of `hazards` in `PROJECT.json` say for each
hazard which of its cases a property excepts.

## 4. Proofs

Each `*Proofs` module proves its theorems for every value of the constants
allowed by the assumption named in the component's module.

| Module | Theorems | Inductive invariant |
|---|---|---|
| `FileLockProofs` | `TypeCorrect`, `OrphanFree`, `HandleKeepsLock`, `Exclusion`, `Refinement` | `IInv`: the types, `HandleOwnsLock`, `NoOrphanLock`, and `CleanStart`: by which interface a process is inside, and what it can have open there. Exclusion alone is not inductive, since `Freed` must not fire for a handle's owner |
| `MessageQueueProofs` | `TypeCorrect`, `ProcessorExclusion`, `IndexKeepsServices`, `AtMostOncePerAnswer`, `FlagOwned`, `NothingLostSilently`, `WorkRefinement` | `Locks` (who works has the queue's lock, who rewrites has the index's); for the index, that a rewriter's `seen` holds what was registered before; for deliveries, that what is in a batch and was already received is accounted for; for losses, `Explained` |
| `FirmwareProofs` | `TypeCorrect`, `InfoTruth`, `LaunchSafe`, `SingleFlasher`, `FlashSafe`, `CacheRefinement` | `Locked` and `Alone` (whoever works on the cache has the lock; past `SysKill` nobody is left), `Progress` and `Named` (what image and metadata hold at each place of a download), `Safe` |
| `MarketProofs` | `TypeCorrect`, `PerAppExclusion`, `WholeApps`, `UndoFirst` | `Owns` (a command for an app that is safe has the lock), `Progress` (what script, info and effects are at each place of a command), `AppWhole` |
| `RouterProofs` | `NetTypes`, `DisplayFollowsFile`, `MacTypes`, `StoredIsUsed`, `AloneTakes` | for the net state, `NetInv`: the types, `OneWrites` (while the display is due, one process updates), `Progress` (what it has set at each place is what the file tells), `Finished`; for the filter, `FilterInv`: the types, `Guarded` (the owner of the lock, and nobody else, is inside), `Saved` (what the one inside has set at each place; with nobody inside, some interface has what is stored); for a request that is alone, `Undisturbed`: `Loads` and `Saves` say what it has read, made and set at each place, up to a refusal, and `ValidSettings` that what is applied and stored is always valid |
| `WebLiveProofs` | `PollTypes`, `ReloadOverlap`, `SubmitsShown`, `WaitingIsVisible`, `LiveTypes` | `PollInv`: the types and `ErrorsAreOverlap`; `RelayInv`: `Apart` (refreshes that do not overlap are never in two places) and what inputs, select and list are to one another; `HomeInv`: `Calls`, `Screen` (list, stack, frames and timers of a window agree), which every call of artDialog keeps, `MaskedBox` (the box has its mask, and a timer only if it was opened for a success), and `WaitsVisibly` |
| `WebPagesProofs` | `TotalIsTransferred`, `AnswersAreFresh`, `SelectionAndListFit`, `ViewShowsOne`, `DropDisplaysSubmitted`, `FormSubmitsDisplayed`, `ButtonsAreReleased`, `TapsToggleOnce`, `LinkIsKept`, `MessagesGo`, `AddressesArePages`, `HistoryIsOfPage`, `LinksLeadRight`; and for the parts as they are checked `PagesAreTyped`, `FormsSubmitDisplayed`, `AddressesAreRight`, `TapsDoSettle` | one for each part: `HistoryInv`, `AutoInv`, `ViewInv`, `DropInv`, `FormInv`, `HoverOK` and `TouchesInv`, `PagesInv`, `LinksInv`; see below |
| `Counting` | lemmas only | — |

The modules of the pages hold several components in one, as the runs do.  A theorem about one
component is about its own specification; those at the end of a module, about `MCSpec`, are the
invariants that the run checks, and follow from `PartsRun`: a behaviour of the parts together is a
behaviour of each.

`InfoDescribesImage` is a good example: by itself it is not inductive, since a caller
that records metadata must have the lock, and must have received the
image whole since it took it.  `Progress` says so place by place, and
`Locked` keeps others from changing the file.

`IndexKeepsServices` has the hypothesis that no producer is mortal, and the run
`message_queue_index` kills processors only: a producer killed between truncating and
writing the index takes the other services out of it, until they register again.
The other theorems about the queue hold with any kills.

`NoSilentLoss` speaks of a message whose file is gone, and a processor unlinks a file at the end
of a round for what happened at its middle: the answer.  `Explained` therefore says
two things: that a file that is gone has a reason (`Kept`), and that whatever an answered
POST still has to unlink has its reason already (`Acked`).  The lemmas under it
go through the phases of a round.

`ReloadNeedsOverlap` is no induction by itself, since the fourth error says nothing
of the first three; `ErrorsAreOverlap` counts them: the errors since the last `start` and the
requests still open are at most as many as were open at once.

`AloneTakesEffect` is about the end of a request, and its invariant about every place from its
first read to its last interface: `Loads` (the setting is that of the first interface, then what the
request makes of it), and `Saves` (the interfaces behind it have the new setting, and the store has
it as soon as one has).  A refused setting is not valid, and what is stored or applied always is:
that is why it has reached no interface.  That a request which meets no other runs undisturbed is
`Running \subseteq {last}`.

`WaitsVisibly` is about two windows whose dialogs are closed, reused and locked under one
another's callbacks.  What makes it inductive is `Screen`, with one lemma for each call of artDialog, and
`MaskedBox`: a call that concerns another dialog keeps the box, its mask and its
`config` (`Keeps`), and a timer closes only a box that was opened for a success, which is one
that has `overtaken` whoever still waits.

`TotalIsTraffic` compares a sum of differences with a number of bytes.  `HoldsDifferences` says
that the window holds the differences of the readings taken, `CountsFromEpoch` that each reading is the
counter at some time since the router started; `WindowSum` adds the differences up, and
`OneTurn` is the arithmetic of one wrap.  As in the run, this is about answers that came in the
order they were read, with less than a turn of the counter between two of them (`InOrder`).

`LinksResolve` compares the loop of `makePathAbsolute`, which keeps a stack, with what remains of a path by
RFC 3986, stated without a stack: a name remains if the height of the path never falls below
it again.  `RemainPushes` says that this changes with one more part just as the stack does (the part
".." takes off the last name that remains), and `RemainIsPushed` that they are the same
for paths of any length.  `LinksInv` then carries the address of the page, the base and what is
loaded through links, loads and failures.

`TapTogglesOnce` and `ButtonsRelease` count what a touch still owes: a click on its way, or a timer that
will mark the button.  `AddressIsPage` needs `AddressOK`: how the requests in the queue are ordered, and
to which page the newest step back leads.

Recursion.  The library's induction theorems take an operator as a parameter, which no
installed prover can instantiate.  `Counting` has an induction over *sets* of numbers
(`UpTo`: a set that has 0 and with each number below n the next one has all up to n), by which the
recursive functions of the models are proved about: `Recursion` says that they have a
solution, `EndAlike` that two solutions agree.  The sums of the window, the paths, and the lists of the
guide are done so.

### What is only model-checked

* The liveness properties `Drained`, `HolderLeaves`, `PageKeepsPolling`, `WaitingEnds` and
  `RefreshEnds`: fairness and ENABLED are out of the prover's reach.
* The three findings are counterexamples.

Every invariant and every action property that a passing run checks is the statement of a
theorem; that of the run `message_queue_index` is proved under the hypothesis above.  `NetTypeOK`, `MacTypeOK`
and `HistoryIsPage` are proved, and are parts of the types or checked by no run.

### What the proofs asked of the models

Some invariants were true of the instances and not of all constants; the assumptions
that were missing are facts of the pages:
* `AutocompleteAssumption`: `MaxIndex` is at least the limit on suggestions, since the mouse
  selects up to the last line that is shown.
* `LinksAssumption`: the links of these pages are `Plain`: rooted paths have no dots, relative ones do not
  end in one, and no part in the middle is empty.  `LinksResolve` is false of others, since
  `makePathAbsolute` leaves a rooted path as it is, drops the last "/" behind "..", and splits
  an empty part like any other.
* `MouseAssumption` and `LinksAssumption`: the values that stand for nothing are not values of something.

`QuietListFits` used to except a query that starts with one in `badQueries`.  `clearCache` empties
these, so that the exception is not inductive: what matters is whether the query was refused when
it was typed, which `unanswered` now records.

## 5. Plan

What is left, in the order in which it is worth doing:

1. `GuestTracking` over `MessageQueue`'s `add`: every new guest is notified at most once, and
   which failures lose one.
2. `ConfigBackup`: save and restore over power cuts, with the two magic checks.
3. `CronTab` and `Jobs`: edits of the crontab by two scripts, the restart of crond, runs of
   a job per period.
4. `Wifi`, `HealthCheck`, `Bindings`, `Sessions`.

Components are to be proved about as they are written, so no module uses RECURSIVE operators:
recursive functions do, and can be proved about.

## 6. Not modelled

* `enable_service`, `disable_service` and the flag `has_job` of the queue: nothing
  calls the first two, nothing reads the last.
* `get_update_info`, `get_download_progress`, `get_cached_info`, `list`, `report`: they read.
* `call_function` of the market: it runs a function of the app itself.
* Firewall, netifd, boot: OpenWrt's scripts that translate a configuration into kernel calls.
* The web API: requests without state over the modules above and over uci.
* In the pages, everywhere: positions, sizes, animations, formatting and wording, and
  what a page sends of inputs that nothing else reads.  An animation is at its end when
  it begins, unless something can come between (the transitions of `MobilePages`).
* Dialogs: a mask fades at once; drags only of windows with a frame, for only
  these hide their content; the dialog that preloads images.
* Search box: `clear()`, which nothing calls.  Guide: the keyboard handlers of dropkick, which
  its page does not reach.  Network list: groups, several choices, and the methods nothing
  calls.  Traffic page: `switchDraw`, which no page reaches, and the unit of the scale.
* Telephone: dialogs, embedded pages, submission of a form through the navigation, gestures, and
  a second finger.  A change of the hash and its event are one step.  The hover look of
  buttons is a part of `VirtualMouse`, that of other widgets is not.
* The programs of section 5.  What is hard there, for whoever goes on: a guest that is recorded
  before its message is added (`wifi_event.lua:97`) and a file of guests that two devices rewrite
  (`device_guest.lua:52`); `sed -i` on the crontab by two programs (`wifi_sleep.script:2`);
  a job that outlives its period (`cron.lua:33`); a binding made of several file operations
  (`callapi.lua:178`); and a restart of wifi that kills another (`sbin/wifi:4`).  Pages that are
  not modelled register a handler twice (`admin_mobile/index.htm:170`).
* `luci`, `socket`, `ltn12`, `json`, `ssl`: vendored.
* Contents of messages, names, urls and scripts: no property depends on them.
