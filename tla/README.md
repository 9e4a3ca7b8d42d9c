# gitea-ci-autoscaler: verification

TLA+ modules that model the autoscaler, TLC configurations that check them on small
instances, and TLAPS proofs for every size. Paths are relative to the repository; `nm`
stands for `src/node_manager.rs`.

```
tlc -workers 2 -config one_server.cfg MCControlLoop.tla     # any run: PROJECT.json names module and cfg
tlapm ControlLoopProofs.tla                                 # the proofs: any module named *Proofs
```

## 1. The system

One process, one task. `main` calls `run_loop_iteration` every `POLL_INTERVAL_SECS`; an
iteration lists jobs and runners from Gitea, servers from Hetzner, nodes and pods from
Kubernetes, decides, and calls these systems back. Nothing runs in parallel *inside* the
process, but every call is an await during which servers, nodes, runners and jobs change,
every call may fail or have its answer lost, and the process may be restarted between any
two of them. Nothing is persisted.

| component | state it keeps | operations |
|---|---|---|
| control loop (`main.rs`) | locals of an iteration: what was listed, indices still to visit | the fixed order list / reconcile / look up vanished / orphans / stuck / scale up / scale down / advance teardowns |
| reconciliation (`reconcile.rs`) | none; a function of the listings and the previous nodes | `reconcile`, `carry_forward_state` |
| node manager (`node_manager.rs`) | `nodes` with their state, `orphaned_since`, `pending_placements`, `unavailable_until` | `compute_scale_up`, `scale_up`, `drop_vanished_servers`, `find_orphaned_nodes`, `remove_orphaned_node`, `teardown_step`, `delete_stuck_server`, `find_teardown_candidates` |
| Hetzner, Gitea, Kubernetes clients | a connection pool | list calls (paged for Hetzner and Gitea), create, delete, deregister, drain |
| configuration, cloud-init | none after start-up | read the environment, fill in a template |
| metrics (`metrics.rs`) | `last_success_timestamp`, per-node gauges, counters; nothing reads them back | `Metrics::new` (seeds the timestamp), `update_metrics`, `push` |
| main loop (`main.rs`) | the failure count, which only log lines read | start-up calls, then iteration, push, sleep |

What is hard about it, and what correctness means:

* **Everything is a sample.** A runner listed idle may be busy when it is deregistered, a
  server may be missing from a listing because it is new, a timer may have run out for a
  node that joined a second ago. Decisions must rest on what *this* iteration listed, never
  on an older one (`TornDownOnlyWhenSeenIdle`, `OrphanServerGone`, `StuckHadNoRunner`).
* **Teardown is four calls spread over iterations**, each of which may fail, and a restart
  forgets where it was. The order of their effects must survive (`TeardownOrder`), and it must
  end (`TeardownEnds`).
* **Rented servers must be found again** after a restart or a lost answer, must be counted
  against `MAX_NODES`, and cleaned up (`NoServerForgotten`, `GrowthWithinMax`, `AliveWithinMax`,
  `GoneIsForgotten`, `StuckIsDeleted`, `OrphanIsRemoved`, `NoStaleRunner`).
* **Jobs must be served** although nodes fail (`JobsAreServed`) and although Hetzner refuses, or
  accepts and then drops, servers (`StockIsFound`).
* **Positions in a vector that shrinks.** The passes of an iteration hold indices of `nodes` while visits
  remove entries, and identifiers with repetitions (`VisitedOnce`, `IndicesStayValid`, `OneEntryEach`).
* **A listing is not a snapshot**: servers come and go between two pages (`NoneTwice`, `MissesBounded`).
* **Operators must see that it stopped working**, whatever stopped it (`OutageIsNoticed`,
  `RecoveryIsNoticed`).
* **Two timers with boundaries**: the cooldown of a placement and the last minutes of the
  billing hour (`CooldownIsKept`, `ReturnsToPreferred`, `NoHourWasted`, `TeardownIsEarned`).

`PROJECT.json` lists every hazard at its line with the properties that cover it, the ones no
property covers with the reason.

## 2. The modules

```
NodeLifecycle        the README's lifecycle of one server, told by effects outside the process
   ^ implemented by
ControlLoop          one replica and the three systems it drives    (uses ScaleUp)
   ControlLoopProperties   its properties, its inductive invariants, its refinement mapping
      MCControlLoop        for TLC
      ControlLoopProofs    for TLAPS: what holds under every fault
         ControlLoopFaultProofs    what holds as long as some kinds of fault do not occur
Fallback             placements, cooldowns, vanished servers         (uses ScaleUp)
   MCFallback           for TLC            FallbackProofs      for TLAPS
Billing              the idle timer and the billing window of one node
   BillingProofs        for TLAPS
Orders               filter, sort and dedup over a vector; a set in ascending order
   OrdersProofs         what they return
Paging               list_servers page by page                       (uses Orders)
   PagingProofs         lemmas about it                              (uses OrdersProofs)
   Passes               NodeManager.nodes as a vector, and the passes over it
      MainLoop             main: start-up, iterations made of the two above, push, sleep
         MainLoopProofs       for TLAPS                              (uses PagingProofs)
Visits               what a pass promises                           (implemented by Passes, so by MainLoop)
Metrics              the per-node gauges on their way to the Pushgateway
ScaleUp              compute_scale_up, and the bound on what it returns
```

### ControlLoop

State: `server`, `age`, `node`, `cordoned`, `runner`, `waiting` are the world;
`nodes`, `rested` (Idle nodes whose `idle_since` is `IDLE_TIMEOUT_MINS` ago) and `orphaned`
(`orphaned_since`) are `NodeManager`; `pc`, `saw`, `todo`, `cur`, `stuck`, `grow` are the locals of
`run_loop_iteration`; `stage` (how far the teardown of a server has come) and `calm` are history
and bookkeeping. A server, its node and its runner share an identifier, because `reconcile` joins
them by the server's name.

| code | actions |
|---|---|
| steps 1 to 3 of `run_loop_iteration`, one call each | `ListWaiting` `ListInProgress` `ListRunners` `ListServers` `ListNodes`, `ListFails` |
| `list_pods`, then `reconcile`, `carry_forward_state`, start of `drop_vanished_servers` (no await in between) | `Reconcile` |
| `server_exists` for each missing server | `LookUp` |
| `find_orphaned_nodes`; the two calls of `remove_orphaned_node` | `FindOrphans`; `OrphanRunner`, `OrphanNode` |
| the `DeleteStuckServer` actions | `StuckPhase`, `DeleteStuck` |
| `permanent_runner_capacity`, `compute_scale_up` | `Growth` |
| `scale_up` | `Create`, `CreateLost`, `CreateFails` |
| `find_teardown_candidates`, the two passes of `teardown_step` by state | `ScaleDown`, `Deregister`, `Advance`, `Drain`, `DeleteNode` with `DeleteAtOnce`, `DeleteServer` |
| the sleep; a restart | `EndIteration` and the clock actions `GrowOlder` `Rest` `OrphanDue`; `Crash` |
| Hetzner, Kubernetes, Gitea | `Listed` `Vanish` `Join` `NodeUp` `NodeDown` `Register` `JobTaken` `JobDone` `JobArrives` `JobWithdrawn` `Recycle` |

Every call that changes the world has up to three outcomes: it succeeds, it is refused (always if
what it is about is not there: a 404 is an error), or it takes effect and its answer is lost. `Faults`
says which kinds a run admits; the proofs leave it a parameter.

Time is relative. `now` is read once per iteration (`main.rs:172`), so a deadline might as well be
crossed while the loop sleeps, and that is where the clock actions are. They may be taken any
number of times and in any order, so no ratio of the timeouts is assumed, except that a server
older than the provisioning timeout (`age` 2) is also older than the vanish grace period (`age` 1).

Fault `partial` makes a listing leave out any part of what is there: the pages of `list_jobs` and
`list_servers` are not one snapshot, and `list_runners` asks for a single page.

The effects of a teardown are counted in `stage`. Removing an orphaned node leaves it alone: that a
node is not removed as orphaned while its server lives is what `OrphanServerGone` is for.

Abstracted: the billing window (any subset of the rested nodes may be in it), placements (a create
succeeds or fails), which pods a drain evicts (the runner's pod may or may not be lost), the order of
the vector `nodes` (in `Passes`), names and timestamps.

### Fallback

`stock` is what Hetzner has capacity for, `cloud` and `born` are its servers, `nodes`, `unavailable`
(`unavailable_until`, in ticks left) and `pending` (`pending_placements`) are the manager's, `want` and
`rank` the counters of `scale_up` and of the loop in `create_server`. `Reconcile` stands for what the
iteration does before `drop_vanished_servers` and ends with that function's first, synchronous half;
`LookUp` is one `server_exists`; `ScaleUp` is `compute_scale_up` and the `retain` at the head of
`scale_up`; `Create`, `CreateLost`, `CreateFails`, `Refused` and `Exhausted` are the outcomes of an
attempt. A placement without stock may refuse, or accept and drop. `fresh` and `quiet` are history:
servers created here that neither joined nor timed out, and the time since each placement failed.

A tick is the time within which Hetzner places or drops a server it accepted and the loop can find
out: `VANISH_GRACE_SECS` and one iteration with its sleep, 25 seconds by default. While faults go on an iteration may
take any number of ticks. Once they are over (`calm`) it takes one, and by its end every server has `Settled`:
placed or dropped, and old enough to be looked up. The cooldown of `StockIsFound` is measured against this.

### Billing

One node on a clock of minutes, `num_minutes() % 60` as in `is_in_billing_window`. `Poll` is
reconciliation, `carry_forward_state` and `find_teardown_candidates` for that node. `free` and `due`
are history: for how many minutes the polls have found the runner free, and whether that was long
enough when the window opened. A teardown begins when the node is chosen; its calls, which may be
refused, are `ControlLoop`'s.

### Orders, Paging, Passes, Visits, MainLoop

`Orders` defines `retain` and `filter` (`Picked`), `sort_by_key` (`Sorted`, which is stable) and
`dedup_by_key` (`Dedup`) by what they return: the entries at some positions, in the order of the
positions. The folds and selections of the community modules say the same by recursion, of which the
prover can show nothing.

`ControlLoop` has the calls of an iteration and their failures, with servers by identity; these
modules have its loops. `Paging`: `store` is what Hetzner would list, `page` the request under way, `got`
the vector of answers; servers appear at the end and disappear anywhere between two pages, and what
happened between two listings is a free choice of `StartListing`. `list_jobs` has the same loop, but
the code does not say in which order Gitea lists jobs, so nothing is claimed of it but what
`ControlLoop`'s fault `partial` allows and a waiting job counted twice.

`Passes`: `nodes` is the vector, with Busy and Idle as "Running" and Deregistering and Draining as
"Closing", because positions do not depend on the difference. `Reconcile` does what `reconcile`,
`carry_forward_state` and `drop_vanished_servers` do to the vector and to `all_actions` in the order in
which the code appends, sorts and drops duplicates; `DeleteStuck`, `Create`, `FindCandidates`,
`FindInTeardown` and `VisitNext` are the passes, `todo` the positions still to visit, taken from the end. A position
outside the vector would be a panic: `VisitNext` cannot take it, and `IndicesStayValid` says it never
has to. `Visits` is the abstract pass: a set of servers, each visited once, which alone may go. The
mapping takes positions to the identifiers that stand there.

`MainLoop` puts the two in sequence in `main`: `Start` and `StartFails`, then Gitea, Hetzner page by
page, Kubernetes, the passes, `Push`, `Sleep`. `up` says which of Hetzner and Kubernetes answer; calls
to the others fail, or hang (`Hang`), or succeed freely. `success` and `pushed` are the ages of
`last_success_timestamp` in the process and on the Pushgateway, in polls, up to `Stale`.

### Metrics

The gauges `node_age_seconds` and `node_idle_seconds` as sets of series, in the process and on the
Pushgateway. `Gathered` (the registry leaves out a gauge without series) and `Posted` (a POST replaces
only the metrics it contains) are what the `prometheus` crate and the Pushgateway document; the rest is
`update_metrics`, `push` and `main`.

## 3. What is checked

Passing runs:

| run | instance | shows |
|---|---|---|
| `one_server` | 1 server, 1 waiting job, 1 permanent runner, every fault | types, the inductive invariant `IInv`, `NoServerForgotten`; `TeardownOrder`: the control loop implements `NodeLifecycle`; `TornDownOnlyWhenSeenIdle` |
| `node_limit` | 2 servers, `MAX_NODES` 1, lagging listings and missed timeouts, no failing call | `GrowthWithinMax`, `AliveWithinMax`: two servers are never paid for at once; `AliveIsTracked` |
| `no_refusal` | 1 server, servers vanish, nodes flap and rejoin, answers are lost, the process restarts; no call is refused | `NoStaleRunner`: no registration outlives its pod; `RunnersAccounted`, `ListingHolds`; an orphan's server is gone, a stuck server had no runner when runners were listed |
| `cleanup` | 1 server, calls refused, answers lost, restarts, servers vanish or are listed late, then calm | what is gone or stuck is forgotten, deleted, removed; a stuck server that was not listed and whose deletion was refused is found again |
| `serving` | 1 server, calls refused, nodes flap and rejoin, runners re-register, then calm | a teardown ends; waiting jobs get a runner |
| `fallback` | 3 placements, 1 server, up to 2 jobs, cooldown of 2 ticks | `IInv`; the order of preference, what a cooldown needs to begin, how long it lasts; a placement with capacity is found though two others drop what they accept; the preferred one is used again |
| `main_loop` | 2 server identifiers, pages of 1, timestamps 0, 1 or 2 polls old, outages, hanging calls, restarts, failed pushes | `IInv`: listings and passes; an outage or a hang shows in the pushed timestamp, and recovery too |
| `billing` | timeout 5, window 5, polls up to 5 minutes apart | `IInv`; no hour is wasted, an idle node is torn down, and not before it has earned it |

Bounds. `MaxWaiting`, `MaxJobs` and `Permanent` bound counters that only enter `compute_scale_up`;
one more job than there are servers does not change what is created. Most properties of `ControlLoop`
speak of one server at a time, and the code treats servers alike and meets them only in
`compute_scale_up`, so one identifier, reused any number of times by `Recycle`, lets every
interleaving happen to it; `node_limit` has two because there the count is the question. Every
safety property is proved for every `Server` as well.

`fallback` needs three placements: with two, the one with capacity is next as soon as the other has failed, and
nothing depends on how long the first of several is left alone (`MCFallback` checks `Order` on the README's two
types and two locations). Two ticks are the shortest cooldown that outlasts the search among three
(`OutlastsSearch`); they let a cooldown outlive a sleep and distinguish one that goes on from one that ran out and is still in the
map. Failures of a placement overlap although there is one server: it is pending in a placement that refuses another
before it is found gone. With more servers the safety properties are theorems; the two "eventually" properties are
checked for one. `billing` uses the defaults of `IDLE_TIMEOUT_MINS` and
`BILLING_WINDOW_MINS`; the code polls every 5 seconds, and 5 minutes, the widest gap `NoHourWasted`
survives, allows for slow iterations.

`main_loop`: two identifiers and pages of one are the smallest instance in which a full last page, a
shifted page, a repeated stuck server that is not adjacent to its first occurrence, and two removals in
one pass happen; two is also where "stale" is not reached between one successful poll and the next.

Each property has a mutant in `PROJECT.json`: a definition of the model changed as a bug would change
the code. With it the property fails under the same configuration. The mutated forms stand next
to the definitions they replace.

Fairness, and why the code has it. `LoopFairness`: `main` loops forever and no await is conditional on
anything but the answer of a call; the clients set no timeout on their requests, so that every await ends
is an assumption. Time passes while the loop sleeps (strong fairness, since it is enabled on every
sleep only; `Fallback` holds the sleep until it has passed, see `Settled`). `CloudFairness`: Hetzner lists a server it created, Kubernetes marks the node of a dead
server NotReady. `ServingFairness` adds that servers join, runners register, take jobs and finish them:
without it no scaler can serve a job. Faults may happen any number of times and then end (`CalmDown`);
without an end no property of the form "eventually" could hold.

`MainLoop` assumes weak fairness of the process only, a start after a stop included (Kubernetes restarts
the pod). Outages, hangs, crashes and what comes and goes at Hetzner need not happen nor end; where a
property needs an end it says so in its premise. A hung process is never restarted by anybody.

`serving` admits neither a restart nor a lost answer, because with them `TeardownEnds` and
`JobsAreServed` do not hold: that is what the runs `provisioning_forever` and `removing_forever`
show.

### Findings

Each is a run that ends in a counterexample.

1. `removing_forever` (code bug, nm:464). `delete_server` turns the 404 for a server that is gone into an
   error, and `try_delete_hetzner_server` keeps the node in Removing on every error. After one lost
   answer the node is retried on every poll and occupies one of the `MAX_NODES` slots until the process
   restarts.
2. `provisioning_forever` (`reconcile.rs:87`). A restart after a runner is deregistered and before
   its node is cordoned leaves a server with a node and no runner; it is Provisioning, whatever
   its age, though the README says servers stuck in provisioning beyond a timeout are deleted.
3. `orphan_runner_left` (nm:344). The failed deregistration of an orphaned node's runner is only
   logged, the node is deleted, and nothing looks for the runner again.
4. `stale_series` (code bug, `metrics.rs:229`). `update_metrics` resets the per-node gauges "so deleted nodes
   stop emitting stale series", but a gauge that lost its last series is left out of the push, and a
   POST keeps what it does not mention: the age of the last node deleted stays on the Pushgateway until
   there is another node, and its idle time until another one is idle.

Seen while modelling, not made into runs:

* `PLACEMENT_COOLDOWN_SECS` has to outlast the search for capacity. A placement that accepts and drops servers is found
  out a round (`VANISH_GRACE_SECS` and a poll) later; if all but the last of *n* do, the first one's cooldown must
  not end within *n* - 2 rounds (nm:125), or it is tried again before the last gets its turn, and the jobs wait for
  ever beside a placement with capacity. `OutlastsSearch` is that bound and the premise of `StockIsFound`; with
  `Cooldown = 1` in `fallback.cfg` and without the premise TLC finds the first two placements alternating. The default of 300 seconds
  is enough for about a dozen placements; the configuration accepts any value, 0 included.
* A stuck server has left `nodes` before its deletion is tried (`reconcile.rs:117`, nm:491). If the deletion
  fails, the same iteration may create another server and more than `MAX_NODES` run:
  `AliveWithinMax` holds in `node_limit` because no call fails there.
* `last_success_timestamp` is "the last fully-successful control loop iteration" (`metrics.rs:130`), and is set
  when Gitea could not be reached, since that iteration returns `Ok` (`main.rs:68`, `main.rs:113`).
  `OutageIsNoticed` therefore assumes that Gitea does not go on failing.
* A server missing from one listing (a shifted page) is dropped unless it is Provisioning or Removing. A
  Deregistering node is then forgotten as by a restart, with the outcome of `provisioning_forever`, and
  a running one does not count against `MAX_NODES` until the next poll.
* A node that was NotReady when nodes were listed may be Ready by the time it is deleted as an orphan,
  if its server was missing from a lagging listing. The orphan grace period samples readiness once per
  poll, so a node that was Ready in between does not start it again.
* A runner that takes a job between `list_runners` and `delete_runner` is deregistered while busy
  (`TornDownOnlyWhenSeenIdle` is the strongest statement that holds).
* A server that is listed later than its provisioning timeout is deleted whatever runs on it, which is why
  `StuckHadNoRunner` assumes exact listings; and one whose deletion failed and that is never listed is
  rented for good, which is why `StuckIsDeleted` assumes that it is listed at some time.

## 4. What is proved

Every safety property that a passing run checks, invariant, action property or refinement, is a theorem, for every value of the
constants that the assumptions of its module allow: finite `Server` and `Id`, bounds in Nat, a page of
at least one server, non-empty lists of types and locations. What the code requires beyond that is
written into the theorem.

### ControlLoop

`ControlLoopProofs`, for every `Faults`:

| theorem | statement |
|---|---|
| `TypeCorrect` | `Spec => []TypeOK` |
| `Inductive` | `Spec => []IInv` |
| `ListedServersKept` | `Spec => []NoServerForgotten` |
| `ScaleDownSawIdle` | `Spec => TornDownOnlyWhenSeenIdle` |
| `ImplementsLifecycle` | `Spec => TeardownOrder`, that is, `ControlLoop` implements `NodeLifecycle` |
| `GrowthBounded` | `Spec => []GrowthWithinMax` |

None of these is inductive alone. A node the manager believes Draining must have
been cordoned for its deletion to be stage 3 after stage 2, which is a relation between memory and world
that a restart, a lost answer and a node that joins again must all keep: `TeardownHappened`. A
restarted process takes a cordoned node for Draining on the evidence of a listing, so `saw.cordoned`
must imply the stage as well, also for a node that was deleted since: `NothingOfFree`. A stuck server
is deleted without that order, so everything in `stuck` or on its way to deletion must be past
the timeout. `IdleWasSeen` says that between `Reconcile` and the end of scale-down every Idle node was
listed idle, which holds because `carry_forward_state` carries `idle_since` and never the state Idle.
`LocalsInPhase` ties each local to the phases in which it means anything. With `NoServerForgotten` and
`TypeOK` these make `IInv`, which the run `one_server` checks and `Inductive` proves, action by action.
The refinement then maps every action either to one action of `NodeLifecycle` or to a stutter;
`DeleteNode` reaches stage 3, `DeleteStuck` is a `Delete` by age. `GrowthWithinMax` is not in `IInv`:
it is kept by every step between `Growth` and the last `Create`, by `ScaleUpBound`, a lemma about
`ComputeScaleUp`, and a lemma that one more tracked node raises the count by at most one.

`ControlLoopFaultProofs`, as long as some kinds of fault do not occur, for every combination of the others:

| theorem | statement | without |
|---|---|---|
| `OrphansHaveNoServer` | `Spec => OrphanServerGone` | lag, partial (`ExactListings`) |
| `StuckIsIdle` | `Spec => StuckHadNoRunner` | lag, partial |
| `RunnersLeaveFirst` | `Spec => []NoStaleRunner` | lag, partial, reject, reregister (`NothingRefused`) |
| `PaidForWithinMax` | `Spec => []AliveWithinMax` | reject, lost, crash, partial (`NothingFails`) |
| `ListingsAge` | `Spec => []ListingHolds` | lag, partial |
| `AccountedAlways` | `Spec => [](RunnersAccounted /\ NoStaleRunner)` | as `RunnersLeaveFirst` |
| `TrackedAlways` | `Spec => []AliveIsTracked` | as `PaidForWithinMax` |

The hypotheses are about the systems outside and exclude what the findings of section 3 and the list below
them show to break the properties: listings that leave out living servers, a refused deregistration, a
stuck server whose deletion fails. `PaidForWithinMax` excludes restarts and lost answers as well, because
a server that is too new to be listed and not in memory either is not counted. Each proof needs to know
how a listing ages (`ListingHolds`, of two parts). `ListingExact`: a server that was *not* listed is gone or
was never there, and stays so until the listing is used up, because `Create` comes after all that uses it.
`RunnersOnNodes`: runners are listed before nodes, so a runner that was seen has a node in the later
listing, and a stuck server that is alive has none; had the code listed nodes first, this would not be so.
`RunnersAccounted`: a runner stays deregistered once a teardown has begun, and the runner of an orphaned
node was listed when its server had gone already, so that `remove_orphaned_node` finds it by its pod. This
survives lost answers and restarts, which is why `no_refusal` includes them. `AliveIsTracked`: an
untracked living server is one about to be deleted as stuck, a server that is missing from a listing is
still Provisioning, and the only way to add one is `Create`, of which `GrowthWithinMax` allows as many as
there is room for; the lemma `CreateFits` adds the two up.

### Billing, Fallback

| theorem | statement |
|---|---|
| `BillingInductive`, `BillingTypes` | `FairSpec => []IInv`, `[]TypeOK` |
| `TeardownEarned` | `FairSpec => TeardownIsEarned` |
| `HourNotWasted` | `MaxGap <= Window` implies `FairSpec => NoHourWasted` |
| `FallbackInductive`, `FallbackTypes` | `FairSpec => []IInv`, `[]TypeOK` |
| `PreferenceHolds` | `FairSpec => PreferredFirst` |
| `CooldownHolds` | `FairSpec => CooldownIsKept` |
| `CooldownCause` | `FairSpec => CooldownHasCause` |
| `BlameHolds` | `FairSpec => VanishedIsBlamed` |

`Billing`: an Idle node's timer equals the time for which the polls found it free (`TimerIsExact`), and a node that
is due was not polled since the window opened, so the time since the last poll exceeds the time since
then (`DueIsUnseen`). At the end of the hour that time is the whole window, which a gap of at most
`Window` cannot exceed. With a larger `MaxGap` the property is false, so the hypothesis is needed.

`Fallback`: `pending_placements` holds just the servers created here that have not been seen joined, each
with the placement it was created in (`BlameIsExact`); what is left of a cooldown and the time since the
placement last failed add up to the whole cooldown, also for a placement that is no longer in the map
(`CooldownsAreExact`); and `create_server` has passed over nothing that is not cooling down
(`TriedInOrder`). The order of preference is proved for all lists of types and locations: position
`(t - 1) * Len(Locations) + l` holds type `t` in location `l`.

### MainLoop

| theorem | statement |
|---|---|
| `LoopTypes` | `Spec => []TypeOK` |
| `LoopInductive` | `Spec => []IInv`, of `PagingInv` and `PassInv` |
| `ListedOnce`, `FewMissed` | `Spec => []NoneTwice`, `[]MissesBounded` |
| `NoIndexPanics`, `TrackedOnce` | `Spec => []IndicesStayValid`, `[]OneEntryEach` |
| `PassesVisitOnce` | `Spec => VisitedOnce`: the passes implement `Visits` |

A listing. Its pages are told by the rank of a server, how many are at or below it in the store. While
the listing goes on all its pages were full, and nothing that was read and is still there has a rank beyond them
(`PagesWereFull`), since new servers come at the end and a disappearance lowers ranks only; so the next
page repeats nothing. What has been there from the start and moved to a page already read, unseen, was moved
there by a disappearance, by at most one server each (`FewOverlooked`); that the last page was not full
makes this all that is missed.

A pass. The positions to visit are walked from the greatest, so a removal moves only what has been
visited: `RemoveAt` keeps the entry at every smaller position (`Removed`). That each server chosen is visited once
takes `OneEntryEach` too, for otherwise two positions hold the same one; and that in turn takes
`ListedOnce`, since `reconcile` makes an entry for whatever it is given. So the two halves are proved about
`MainLoop`, which hands the one's result to the other. For the stuck servers the lemma is
`DedupOfSorted`: what is left of a sorted vector after equal neighbours are dropped has no repetitions.
`OrdersProofs` shows first that there is an ascending order of every finite set of numbers and that
a stable sort exists; both are chosen by `CHOOSE` in the model, and without that nothing would be known of them.

### Only model-checked

* Liveness, out of the prover's reach: `GoneIsForgotten`, `StuckIsDeleted`, `OrphanIsRemoved`, `TeardownEnds`,
  `JobsAreServed`, `StockIsFound`, `ReturnsToPreferred`, `IdleIsTornDown`, `OutageIsNoticed`,
  `RecoveryIsNoticed`.
* The findings: a theorem does not show that something goes wrong, the counterexample does.

## 5. What is not modelled

* `consecutive_failures`, which only log lines read, and the metrics other than `last_success_timestamp`
  and the per-node gauges: set or counted, never read back.
* The order in which Gitea pages jobs, and the number of runners it puts on one page.
* Nodes cordoned by hand; two replicas at once (nothing in the repository suggests running two).
* Configuration parsing and the cloud-init template: no state, no interaction.
* `BILLING_WINDOW_MINS` 0, where `IdleIsTornDown` does not hold: a window of no minutes is never met. A
  `PLACEMENT_COOLDOWN_SECS` too short for the number of placements, 0 included, where `StockIsFound` without its premise does not.

## 6. Plan

1. `Fallback` and `ControlLoop` meet only in the outcomes of `Create`: an abstract `scale_up` that both
   implement would say so.
2. Steps towards liveness that are not temporal: that each visit of a pass makes the pass shorter, so that
   `LoopFairness` alone makes it end; that a failed step of a teardown leaves its retry possible.
3. `Metrics`: the statement about stale series that does hold, that they belong to a gauge that has lost its
   last series, with its proof.
