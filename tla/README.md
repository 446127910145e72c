# AIOCC in TLA+

AIOCC tunes the I/O congestion control of Lustre clients. A patched client
measures every bulk RPC, looks the measurement up in a table of rules and moves
three things: how many RPCs may be in flight to a server, how much dirty data
the client may cache for it, and how far apart its RPCs are. Scripts on a
control node search for the best table by benchmarking generated candidates.
Servers can limit bandwidth by rules of their own. A separate agent collects
metrics, and an experimental learning daemon chooses actions from them.

This directory holds models of the parts that decide something, their checks
with TLC, and proofs with TLAPS. Paths below are relative to `src/`;
`lfz/` stands for `code/patch/lfz/`, the patched Lustre files;
`source/build/lfz/` holds the same files for the build scripts.

## 1. Inventory

### Client: RPC engine (`lfz/osc_cache.c`, `lfz/osc_request.c`)
*State*, per client of one storage target (`struct client_obd`): the queues of
extents of every object (`oo_hp_exts`, `oo_urgent_exts`, `oo_rpc_exts`,
`oo_reading_exts`), four lists of objects (`cl_loi_hp_ready_list`,
`cl_loi_ready_list`, `cl_loi_write_list`, `cl_loi_read_list`), `cl_r_in_flight`,
`cl_w_in_flight`, `cl_max_rpcs_in_flight`, `cl_dirty_pages`,
`cl_dirty_max_pages`, `cl_cache_waiters`, and the requests.
*Operations*: reserve cache space or wait for it (`osc_enter_cache`), queue
pages (`osc_extent_release`, `osc_queue_sync_pages`), force them out
(`osc_flush_async_page`, `osc_cache_writeback_range`), plug the client
(`osc_io_unplug0`, `osc_check_rpcs`), build and send (`osc_build_rpc`),
interpret the reply (`brw_interpret`), send again (`osc_brw_redo_request`), give
up (`osc_import_event`).
*Hard*: application threads and ptlrpcd threads run all of this at once. The
list lock is dropped between the check of the window and the increment of the
count, and between taking an object off its list and relisting it; waiters are
woken, and time out, in the middle.
*Correct when* no slot and no extent is leaked or used twice, no page that could
be sent is left with nobody to send it, nobody waits for space that nobody will
give back, and limits are exceeded by a known amount at most.

### Client: window controller (`qos_adjust` in `lfz/osc_request.c`, `lfz/lproc_osc.c`, `lfz/genops.c`, `lfz/obd.h`)
*State*: `max_rpc_in_flight100` under `qos->lock`, `cl_max_rpcs_in_flight` and
`cl_dirty_max_pages` under `cl_loi_list_lock`, and the request pool of all
clients under no lock.
*Operations*: set-up of a client, a matching rule, a write to
`max_rpcs_in_flight` in procfs, disconnection.
*Hard*: each update is a sequence of critical sections under different locks.
*Correct when* the window stays in range, the pool within its maximum, and the
dirty limit follows the window.

### Client: rule table (`lfz/qos_rules.c`, `lfz/lproc_osc.c`, `qos_adjust`)
*State*: `rules`, `rule_no`, `used_times` and averages per rule, `smallest_rtt`.
*Operations*: write (parse), read and match. *Hard*: errors half-way through
parsing, `rule_no` doing duty as the size of an allocation, integer averages.
*Correct when* table and count fit together on every path, and the averages of a
rule lie where it matches, because `split_rule.py` splits it there.

### Client: RPC throttle (`lfz/metric.h`)
*State*: `min_usec_between_rpcs`, `last_rpc_time`. *Operation*: `qos_throttle`,
by every thread that sends. *Hard*: the sleep is outside of the lock, and the
time recorded is the one before it. *Correct when* the rate of a thread is bounded.

### Control node: rule search (`batch/aiocc/`)
*State*: only files: `epoch.cfg`, `round.cfg`, the summaries, `candidate_rules/`,
`tested_rules/`, `next_rule_sn.cfg`. *Operations*: start or
resume, deploy, benchmark, judge, select, generate, split, filter.
*Hard*: the script may be killed between any two writes, and between the two
halves of one; benchmarks fail or are unstable. *Correct when* nothing is lost,
reused or judged by another's numbers after a restart, nothing incomplete is
benchmarked, rounds end, and the best of a round is the best.

### Server: NRS token bucket filter (`lfz/nrs_tbf.c`, `lfz/service.c`)
*State*, per partition of a service: clients (NIDs or jobs) in a hash, each with
its rule, its tokens (`tc_ntoken`, `tc_check_time`) and its queue, a heap of
clients by deadline, the flag `nrs_throttling`, one hrtimer; a list of rules with
reference counts, `th_rule_sequence` and a generation per rule.
*Operations*: a request arrives, is given to a client (`nrs_tbf_res_get`), queued
(`nrs_tbf_req_add`), taken (`nrs_tbf_req_get`) and released; the timer fires; a
rule is started, changed or stopped by name.
*Hard*: the callback of the timer takes no lock; the service wakes one thread per
event; a rule is matched under one lock, stopped under another and given to a new
client under none.
*Correct when* the buckets hold, a partition that is throttled starts again, work
is never left with all threads asleep, rules are freed by the last that uses
them, and clients leave a stopped rule and learn of a changed one.

### Server: bandwidth throttle (`lfz/lfz.c`)
One counter of bytes per second under one lock. *Hard*: unsigned arithmetic.

### Agent (`code/AIOCCAgent`, Go)
Collectors put metrics into a channel of 500, one sender posts them by HTTP, a
receiver appends them to a file that it rotates. *Hard*: the full channel, the
failed POST, rotation under concurrent handlers.

### Learning daemon (`code/LustreQoS`, Python)
Monitoring agents send performance indicators through ZeroMQ to an interface
daemon that stores them by second in SQLite; a daemon reads observations and
broadcasts actions. *Hard*: late, missing and doubled messages, silent agents.

### The rest
`batch/ctrl` (signal files and remote execution), deployment, build,
installation and benchmark scripts, `code/FioAnalysis` (plots), collectors and
parsers of text; `code/lustre 2.9`, `code/patch/metric` and `code/tbf` are vendored or
earlier copies.

### How they interact
A reply runs `qos_adjust` on a ptlrpcd thread (rule table, then window
controller), then gives its slot back and plugs the client: the RPC engine reads
the new window, throttles and sends. Rules reach the table through procfs from
the search, which reads the counters and averages back the same way.

| pair | through |
|---|---|
| RPC engine → rule table | call of `qos_adjust` in `brw_interpret`, under no lock |
| rule table → window controller | `new_mrif`, after `qos->lock` was dropped |
| window controller → RPC engine | `cl_max_rpcs_in_flight`, `cl_dirty_max_pages` under `cl_loi_list_lock` |
| rule table → throttle | `min_usec_between_rpcs` under `qos->lock` |
| search → rule table | procfs file `qos_rules` |
| service threads → filter | `ptlrpc_server_request_get` under `scp_req_lock`; `nrs_throttling` and `scp_waitq` back |
| rules → buckets | `nrs_tbf_cli_reset_value` when a client asks for its resource |

## 2. Modules

| module | models | theorems in |
|---|---|---|
| `OscWindow` | RPC engine, one client | `OscWindow_proofs` (slots, window, lists), `OscPages_proofs` (pages, waiters) |
| `QosMath` | fixed-point arithmetic of the controller | used by the next two |
| `WindowUpdate` | every way the window is moved, all locks | `WindowUpdate_proofs` |
| `WindowRegister` | what the controller promises the engine | refined by `WindowUpdate`, read by `OscWindow` |
| `QosRules` | rule table: parse, show, match, average | `QosRules_proofs` |
| `QosThrottle` | `qos_throttle` and its two callers | `QosThrottle_proofs` |
| `AioccSearch` | the search for a rule set, file by file | `AioccSearch_proofs` |
| `TokenBucket` | what the filter promises to each client | refined by `TbfQueue` |
| `TbfQueue` | one partition: queues, buckets, heap, timer, service threads | `TbfQueue_proofs` |
| `TbfRules` | rules, clients and commands of the filter | `TbfRules_proofs` |

`MC*` modules give TLC the instances.

**OscWindow.** One action per stretch of code between two lock operations. A
thread's program counter `pc` names the place where it has dropped the lock:
`EnterCache`, `PlugForSpace`, `Resume`, `WaitTimesOut`, `GiveUp` are
`osc_enter_cache`; `CheckFull` and `CheckNext` are the loop of `osc_check_rpcs`
up to the unlock, `SendWrite`, `SendRead`, `BuildRpc`, `AddReq` the sending, and
`Relist` the end of the iteration; `Interpret`, `Adjust`, `Redo`, `FinishRpc`,
`ReleaseSlot` are `brw_interpret`. An extent holds one page. A request is named
by one of its extents. Server grants are not counted: a reservation may fail for
lack of grant at any time. Lists are sets, so any order of service is covered.
`SetWindow` installs any window in range and raises the dirty limit to it:
it is the step `Write` of `WindowRegister` (proved, `EngineReadsRegister`), with the
cap of an eighth of the memory larger than what any window asks for.

**WindowUpdate.** `job[t]` is the update a thread is in the middle of. `Compute`
is the part of `qos_adjust` under `qos->lock`, `CheckImport` takes `cl_sem`,
`ReadWindow`, `ReadPool`, `Populate` are the three unlocked accesses by which
the pool is topped up, `SetWindow` is the part under `cl_loi_list_lock`, `Track`
the end of the procfs handler. `Setup` registers the procfs files and so lets the
window move while `osc_setup` reads the count of the pool (`ReadRoom`) and then the
window, in the other order. Which rule matches is left open.

**QosRules.** `WriteRules` has one disjunct per outcome of `parse_qos_rules`;
`mem` counts what the allocator believes is allocated. `Adjust` measures, finds
the first match and counts it. The rate on the first line is any number but 0, and
`Gap` divides as C does; `ShowRules` takes a table with a gap of 0 for none, and
`hidden` records that. The two averages of times may have any value: the
weighted average decides which one, and no property is about that.

**QosThrottle.** Time is an integer that `Tick` advances. `Throttle` computes
the sleep under the lock, `Send` and `Queue` happen when it is over or later. The
lengths at which the kernel sleeps exactly, a microsecond short, or in whole
milliseconds are parameters.

**AioccSearch.** A step ends where a command has written a file, and `Kill` may
come between any two steps. The files of rules and `next_rule_sn.cfg` are truncated
in one step and written in another: `broken` and `empty` are the candidates in
between, `snFile` says what the number's file holds. `Parsed` is what
`parse_qos_rules` makes of a candidate that is empty, too short or whole. What
generated rules contain is left out: a rule set is its sequence number. Histories
(`scored`, `origin`, `lost`) exist for the properties only. `aiocc_stop.sh` is not
an action: it rewrites a file that a running script does not read.

**TbfQueue.** What happens under `scp_req_lock` is one step; the callback of the
timer is two, `Clear` and `Wake`. `TakeIn` and `Add` are
`ptlrpc_server_handle_req_in` before and after it locks the queue, `Get` is
`ptlrpc_server_request_get` with `Take` or `Throttle`, the two outcomes of
`nrs_tbf_req_get`; `Rearm` is what `nrs_tbf_req_add` does to the timer. Time is
relative to now: `elapsed[c]` is how far `tc_check_time` is past, up to a horizon
at which every bucket is full. `ResGet` leaves a client its rate or gives it any
other, as `TbfRules` may. `Level(c)` maps `tc_ntoken` and `tc_check_time` to the
level of a `TokenBucket`.

**TbfRules.** `job[h]` is a call of `nrs_tbf_res_get`: `Check` decides under
`scp_req_lock`, `Match`, `Walk`, `Take` are the walk under `th_rule_lock`,
`KeepRule`, `ResetRule`, `FirstRule` and `Marks` what is done with the rule,
`Insert` the race of two new clients, `Release` the end of the request. `command`
is the command in the middle of which `nrs_mutex` is held: `Start` and `Count`,
`Change` and `Generation`, `Stop`, `Unlink` and `Flag`. A rule is a place in
memory that may be freed and used again; `lbug` says that an assertion of a walk
has failed, which ends the run.

## 3. Runs

| run | question | instance |
|---|---|---|
| `osc_cache` | are slots and extents leaked, freed twice or carried twice, can work or a waiter be forgotten, is the dirty limit kept? | 2 applications, 2 ptlrpcd threads, 2 cached extents, a cache of 1 page that grows to 2 with the window, one resend, timeouts |
| `osc_objects` | do the readiness lists lose an object, is an extent carried twice, by how much is the window exceeded? | 6 direct requests of 2 objects, 2 threads, window 1, evictions |
| `osc_fair` | is everything urgent finished, and every waiter released without its timeout? | fair; 2 applications, one page |
| `window_pool` | is the window in range, the pool bounded, the register implemented? | 2 threads, 1 client, windows up to 4, room for 6 requests in the pool |
| `rules_table` | are the averages in the rule, is the memory accounted, is the ratio at least 1? | tables of 1 and 2 rules, rates below, above and under zero, 3 samples each |
| `throttle_pace` | what is the rate of a thread? | 2 threads, one gap of 5 in 10 units of time |
| `search_rounds` | what does a restart lose, is a rule whole and judged by its own counters, does a round end? | fair; 2 epochs of 2 rounds, 4 rule sets, benchmarks of every kind, 2 starts, 1 kill anywhere |
| `tbf_queue` | do the buckets hold, does throttling end, is everybody served? | fair; 2 clients, 2 threads, 2 rates, depth 1, 2 requests at a time, one change of rule |
| `tbf_rules` | are rules counted, left and freed? | fair; 1 client, 2 handlers, 2 rules, 2 starts, one change, purges |

**Why the bounds are enough.** Two threads of each kind that matters are needed
for any race here, since every critical section relates one thread to the rest;
the proofs cover more. A window of 1 to 2 has both a full and a growing window.
Two extents make one RPC of both or two RPCs, and six requests are what it takes
to attain the bound of `osc_objects` and to see it passed. A cache of one page
makes every second application wait, in `osc_fair` always and in `osc_cache` until
the window grows. One resend separates the original from the
replaced request. `One = 2` and a limit of 2 or 3 let the fixed-point value have
fractions and be clamped at both ends. Three samples are the first number at
which a truncated average is truncated twice. Two epochs of two
rounds contain both ways in which a round ends (better: generate, not better:
split) and what follows. In `rules_table`, rates of 4, 5 and -3 in a second of 4 units
give gaps of 1, 0 and -1, and a bound of 2 on `mem` before a write lets memory that was
forgotten be followed by another table. In `window_pool` the pool has room for one
largest share, of `MaxRif + 2`, and what is decided within it may be added twice.
Rates of 2 and 3 with a second of 4 units make tokens
that are not whole, and a deadline that is rounded down, so that the timer may fire
before the token is there. One client is enough for the counts of rules, where
handlers race for it; two starts of a rule in one place in memory show what a
pointer to the old one would do.
Every bound is a named constant (`MaxResends`, `MaxSamples`, `MaxMem`, `MaxTime`, `MaxSn`,
`MaxEpoch`, `MaxRound`, `MaxStarts`, `MaxKills`, `MaxQueued`, `MaxRules`,
`MaxChanges`, `Horizon`). `osc_fair` has a window that
does not move: with one that does, TLC does not finish in minutes, and what a
moving window could strand is covered by `NoStrandedWork`, checked and proved.
Deadlock is not checked: work is finite in every instance, so all of them may
stop. That nobody waits on everybody is stated by `NoStrandedWork`,
`WaitersWillWake`, `WaitersReleased`, `NobodySleepsOnWork`, `RequestsServed` and
`RoundEnds` instead.

**Fairness.** `OscWindow`: the kernel runs every thread that can run; ptlrpcd
picks up queued work; every request is answered, times out or is aborted, which
ptlrpc guarantees. Nothing is assumed of what an application may begin, of the
timeout of a waiter, of the import or of the administrator. `AioccSearch`: the
script goes on while it is not killed. `TbfQueue`: threads that can run do, timers
expire and callbacks end; that a client with tokens is taken in the end is strong
fairness, because a thread handles a request after every hundred it moves
(`counter` in `ptlrpc_main`) and the heap prefers whoever waits longest. Nothing is
assumed of arrivals. `TbfRules`: a thread goes on, and the two spin locks are given to
everybody in the end; nobody has to stop a rule.

### Where code and comments differ

Three runs are expected to find a violation; `PROJECT.json` quotes the comment.

* `osc_timeout_leak`: a waiter granted a page between its timeout and the lock
  falls back to synchronous I/O, and the page stays in the dirty accounting.
* `tbf_rate_change`: after any rule was started, a client whose newest match is the
  rule it has is matched again at each request, never takes over the sequence, and so
  never compares generations: it keeps its rate when the rule is changed.
* `search_best`: only the first candidate of a round is recorded in the summary,
  and so it is what is selected as the best. The retest loop of
  `get_best_round_score` cannot run for the same reason.

Others were met while modelling. The models have the behaviour, and as it shows in
a few steps of one actor no run is kept for it.

* Two updates of a window can interleave and leave the window and the tracked
  value different until the next update: `qos_adjust` and the procfs handler take the
  two locks in opposite orders (`SetWindow`, `Track`). Nothing else makes them differ
  (`OnlyOverlapsDisagree`).
* `nrs_tbf_rule_stop` takes a rule off the list without `th_rule_lock`; a walk that
  stands on it fails an assertion, or never ends (`Unlink`, `Walk`, `NextRule`). The
  lock there is all that is missing for the assertion (`OnlyUnlinkingFails`).
* A client that takes over a rate, or a `tc_nsecs`, just before it is changed and the
  generation just after keeps the old one (`Change`, `Generation`, `Marks`). It is the
  only way to have the generation of the rule and not its rate
  (`OnlyTornReadsAreStale`).
* The unsigned difference in `lfz/lfz.c:95` is never negative: nobody is throttled.
* The tracked value is taken before the window is set up (`lfz/genops.c:307`), so
  the first match of a rule that should keep the window sets it to 1 (`Init` of
  `WindowUpdate`).
* Failed writes leave the old rules, or a `rule_no` without rules, although the
  comment at `lfz/qos_rules.c:58` says there are none (`ParseGarbage`,
  `ParseNoMemory`).
* A table whose rate is above one per microsecond has a gap of 0. A read of the
  file takes it for no table and sets `rule_no` to 0 (`ShowRules`): the client then
  matches no rule, and whoever frees the table gives no memory back. Hence `hidden`
  in `MemoryAccounted`, whose other half says that no other way leads there and that
  never too much is given back.
* Two RPCs of a thread may be closer than `min_usec_between_rpcs`, because the
  time recorded is the one before the sleep (`Throttle`).
* The limit of tries does not hold for candidates without a line in the summary
  (`Recorded`, `GiveUpOn`), so an unstable one is tested for ever.
* A granted page that was lost (`osc_timeout_leak`) can leave a waiter with nothing
  to wake it but its own timeout. Three extents are needed: one lost, one that waits,
  one that was on its way when the waiter looked. Hence the hypothesis
  `ReservationFreed` of `WaitersWillWake`.
* Killed after the last candidate, the search goes back to epoch 0 (`StartAfresh`).
  If it was killed once before, while it split a rule, the number of that split is
  then given to a rule derived from another one. Hence `kills <= 1` in
  `NumbersNotReused`.
* Killed between writing `epoch.cfg` and making the directory of the epoch, the
  search goes on with whatever an earlier search left there (`AdvanceEpoch`,
  `MakeEpoch`).
* `next_rule_sn.cfg` is truncated and then written, by a Python program and again by
  the script. A kill in between leaves it empty, and the next run takes 1 for the
  number (`First`): it writes new candidates over the numbers of the old ones. Hence
  `lost` in `NumbersNotReused`.
* A Python program dies on the number that a kill between it and the script left
  ("5, 0"), and the script goes on to the next round with no candidates (`Die`).
* A start does not run `_candidate_filter`, so a candidate left incomplete by a kill
  is benchmarked: without any rules when lines are missing, with the rules of the one
  before when it is empty (`Resume`, `Parsed`). Its counters are its own in
  the first case, because there are none, and those of the other in the second. Hence
  `kills = 0` in `CandidatesWhole` and the exception in `MergedIsOwn`.
* `aiocc_stop.sh` writes `work_loop.cfg`, which a running script has read already and
  never reads again.

## 4. Proofs

All theorems hold for any number of threads, extents, objects, clients, rules,
samples and restarts, from the ASSUMEs in the modules (finite sets of threads,
extents and handlers, limits that are natural numbers of the obvious ranges).

Most are theorems about the specification that the runs check. Four name what a
defect of section 3 needs, and are about a program with one hypothesis more:
`OnlyOverlapsDisagree` watches, in a variable of its own, which updates ran alone
(`ApartSpec`, which restricts nothing), `OnlyUnlinkingFails` adds the lock that
`nrs_tbf_rule_stop` does not take (`LockedSpec`), `OnlyTornReadsAreStale` leaves
out the one interleaving of a change with a read (`UntornSpec`), and
`NumbersKeptByRestarts` the one step that begins again at epoch 0 over rules that are
half made (`Keeping`), and stops where the number was lost. TLC finds each violated on a small instance without its
hypothesis. `RateIsKept` and `HalfOfRateIsGiven` count the requests of a client in
variables of their own (`CountSpec`, which restricts nothing either).

* **OscWindow, slots and lists** (`OscWindow_proofs`). `TypeCorrect`, `SlotsAreConserved`, `InFlightIsBounded`,
  `NothingIsStranded`, `EngineReadsRegister`. The invariant is
  `TypeOK /\ Places /\ Owned /\ SlotsConserved /\ Listed /\ Queued /\ Watched`.
  *Owned*: a request that is neither free nor on the wire is in the hands of
  exactly one thread; without it two threads could free the same slot. The bound
  adds *Budget*: what is in flight plus the *turns* (threads that have passed the
  check of the window for a write or for a read and have not built yet) stays
  within the largest window and two per thread; a count alone is not inductive,
  since a thread that has passed the check will add to it whatever happened
  meanwhile. No stranded work needs that the lists are a correct cache except for
  objects in somebody's hand (*Listed*, *Queued*), and that while the lists hold
  anything somebody will look at them (*Watched*): a thread that finds the window
  full may stop looking because a full window is full of requests whose replies
  will look (`LiveRequestWatched`, from *Owned* and `SlotsConserved`).
  `EngineReadsRegister` joins the engine to the controller: a step of the engine that
  moves the window or the dirty limit is a write of the register that
  `WindowUpdate` implements, and every such write is one of its steps
  (`WritesAreSetWindow`), so what is proved of the engine holds for whatever the
  controller does.
* **OscWindow, pages and waiters** (`OscPages_proofs`). `ExtentsAreAccounted`,
  `ExtentsFinishFirst`, `DirtyStaysWithinMax`, `NoWaiterForgotten`. *Pages* follows
  an extent from the queue through the hands of one thread (*Apart*, *InPlace*,
  *Reserved*, *Carried*) into one request (*Sent*) and says that one taken off the
  queues is found in one of these places (*Found*); `PagesStep` proves it action by
  action, after a lemma that most actions move no page. A request gives its slot back
  only from the place in `brw_interpret` after its extents were finished (*Finished*).
  The dirty limit needs no more than that whoever counts a page has compared under the
  same lock, be it the waker for another. For the waiters, *Expecting* says that a
  list that is not empty has a dirty page, a write in flight or a thread about to
  unreserve behind it: each of these wakes all when the last one goes. With every
  dirty page on its way, and no page stranded (*Watched*, from the first module),
  somebody will get there.
* **WindowUpdate.** `WindowTypes`, `PoolIsBounded`, `WindowImplementsRegister`.
  The pool needs an invariant about decisions that are not yet carried out
  (`PoolOK`): the thread that read the count last had its addition cut to the
  limit, and each of the other threads about to add adds at most one share (the
  largest is that of a set-up whose window was raised meanwhile, `MaxRif + 2`), so
  the pool, that addition and one share for each other thread stay within the
  bound. `OnlyOverlapsDisagree`: when a client is up and nobody updates it, its window is
  the tracked value, unless two updates of it overlapped; the next update that
  runs alone mends it. The observer `apart` says whether the update under way is
  alone; what such an update has computed stays what is tracked until the window is
  set to it, in whichever of the two orders, and a step of another client
  leaves both alone (*LeavesAlone*).
* **QosRules.** `RulesTypes`, `AveragesStayInRule`, `MemoryIsAccounted`,
  `RatioIsAtLeastOne`. The memory holds because a table and its `rule_no` part in
  `ShowRules` only, and only when the gap is 0. The averages rest on a lemma on truncating division: moving by a quotient of the
  difference never passes the new sample.
* **QosThrottle.** `ThrottleTypes`, `AtMostTwoPerGap`: before a thread can
  throttle twice, the recorded time and its own last sends are ordered, and a
  sleep is short by less than a millisecond.
* **TbfQueue.** `QueueTypes`, `ThrottlingEnds`, `WorkFindsAThread`,
  `QueueImplementsBucket`. The invariant is
  `TypeOK /\ AddersHaveClients /\ ThrottleEnds`: whoever sets the flag starts the
  timer under the same lock, and a callback under way is about to clear it. The
  refinement maps a client's tokens and the time since they were counted to the level
  of a `TokenBucket`. It rests on two facts about rounding: a quotient multiplied
  again is at most what was divided, so taking a request always costs at least a
  token of the abstract bucket; and at the horizon every bucket is full, so time may
  stop being counted there. From the refinement follow two bounds over a whole
  execution, for a client whose rate may change at every request. `RateIsKept`:
  whenever one begins to count, what was served is at most a full bucket, what the rates
  of that time filled in, and a full bucket for every new rule (which refills it): the
  level of the bucket pays for the difference. `HalfOfRateIsGiven`: every draw
  throws away the time since `tc_check_time` that makes no whole token, but less of it
  than the token that is drawn is worth, so since its bucket was last full a client was
  given at least half of what its rate earned.
* **TbfRules.** `RulesTypes`, `ReferencesAreCounted`, `NoRuleFreedInUse`,
  `StoppedRulesAreLeft`, `OnlyUnlinkingFails`, `OnlyTornReadsAreStale`. The
  invariant says what each call of `nrs_tbf_res_get` holds at each place (*JobsOK*),
  what the command under way holds (*CommandOK*), that the list ends in the default
  rule (*ListOK*) and that the count of a rule is the number of its holders
  (`RefsCounted`). Each step moves one element in or out of the sets of holders
  (`OneElement`), and a put of n references frees exactly when the count was n
  (`PutEffect`), so a rule with a holder is never freed. That stopped rules are left
  needs a second invariant: one call at a time holds `scp_req_lock` (*Alone*), and
  what it has matched was not gone when the requests that are through came in
  (*Fresh*), because a stopped rule comes back only by being started anew
  (*StillGone*). The two others start from what any step may do to a rule, seen from
  the rule (`RuleStep`: free it when it is off the list, leave it, or obey the
  command). With the lock around `list_del_init` every rule of the list is listed and is
  there once, and a walk stands on one of them (*WalkInv*), so no assertion fails, although
  the flag and the puts still come after the lock. For the rates, the rate of a rule is
  its generation, or one ahead of it during a change (*Counted*), what was read of a
  rule that is not freed ages in a way that can be told (`Carries`), and that needs
  `NoRuleFreedInUse` before and after the step and *Alone* for the client.
* **AioccSearch.** `SearchTypes`, `CountersAreOwn`, `TestedAreWhole`,
  `NoCandidateIsSkipped`, `NumbersAreNotReused`, `NumbersKeptByRestarts`, for any
  number of kills and starts. *Running* says that a
  script that runs has an epoch, *Tested* that what is about to be deleted has a score
  and that a summary is not empty when its best line is selected, *Clean* that
  incomplete files are around only while they are written, unless the script was
  killed; the counters of a rule set are its own because nothing else is in force
  while it is measured, unless its file is empty (*Measuring*). For the numbers, either none from `next_rule_sn.cfg` on is given
  (*Free*), or the script is on its way to give them a second time from the same
  decision (*HalfMade*, *Decided*): the round's summary has only rules below that
  number (*Settled*), so the best line, and whether to generate or to split, are found
  again, and a Python program that runs twice over gives each number to the same child of
  the same rule. Only a number that was lost (`LostForGood`) or a fresh start breaks
  that, and the fresh start needs two kills (*AtHand*). That the best line is a line at
  all is `LastOfTheHighest`: finitely many lines have a greatest one.

**Only model-checked**: the liveness properties (`UrgentServed`, `WaitersReleased`,
`RoundEnds`, `RequestsServed`, `StoppedRuleFreed`), which are out of the reach of the
prover. Every invariant and every safety property of a passing run has its theorem.

## 5. Not modelled

*RPC engine*: growing, merging and splitting of extents (an extent of the model is
what results), grants the server gives back (a reservation may fail for lack of
grant at any time instead), the LRU of pages, truncation (`oe_trunc_pending` and
lockless), writes of `max_dirty_mb`. A resend is counted whatever its error:
`MaxResends` also bounds those after `-EINPROGRESS`, which the code never gives up.
*Rule table*: the values of the weighted averages, the bandwidth counters, a clock that
is set back, a round trip of 0 µs.
*Search*: the numbers in generated rules, the distribution of files to the clients,
`aiocc_stop.sh`; files other than the rule sets and `next_rule_sn.cfg` (`epoch.cfg`,
`round.cfg`, summaries, the best score) are written in one step, although a kill may
find them truncated too; and a kill takes the script and the Python program it runs at
once. *Token bucket filter*: a client that cannot be allocated, or put on the heap, for
lack of memory, whose request goes to the fallback policy; that a client takes
`tc_rpc_rate` from before a change and `tc_nsecs` from after it or the reverse (`rate`
stands for either, one at a time); the high-priority queue, which is a second
instance of the same code; stopping the policy or the service, with the forced
purge of the requests that are left (`lfz/service.c`); the SSCDT orders, whose
comparison functions take a client for a request and so read memory that is not
one; that `nrs_throttling` shares a word with other bits, whose updates under
another lock can undo its own.

*Server bandwidth throttle* (`lfz/lfz.c`): its one decision is always the same, as
said in section 3, so nothing is left to explore. *Agent*, *replay database*,
*interface daemon*, *learning daemon*: they observe and store, and nothing of the
deployed control path depends on them; the daemon is numerical code. *`batch/ctrl`*:
signal files with one writer and one reader each, used by installation. *Deployment,
build, installation, plots, parsers*: straight-line commands and pure functions of
text. `code/lustre 2.9` is third-party code, of which only what the patch touches is
modelled.

## 6. Plan

Built, in this order: `OscWindow` first, because everything else acts through it;
the controller that moves its window, the rule table that decides how, the throttle,
the search that writes the rules; then the server's filter, first the queue with its
buckets and timer, then the rules; and the proofs along the way.

What would come next: the high-priority queue and the shutdown of the filter;
`split_rule.py` as an operator, checked against a partition of the rule's box; the
agent's channel and the message loop of the interface daemon, if they become part of
the control path.
