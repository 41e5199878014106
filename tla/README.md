# Connected Browser Bridge: TLA+ specifications and proofs

The repository is a bridge that lets an MCP client drive a real browser on
somebody's Windows machine. A **gateway** (Node, `apps/gateway`) answers MCP
calls on a server; a **Windows agent** (`apps/windows-agent`) dials out to it
over one WebSocket and executes commands in branded Chrome through Playwright
(`packages/browser-core`). This directory holds the specifications of the parts
where order, loss and concurrency decide whether the bridge is correct, the TLC
runs that check them and the proofs that hold for every size of the system.

## 1. Inventory

| Component | State it keeps | Operations | Interacts with | What is hard | What makes it correct |
|---|---|---|---|---|---|
| Device registry (`devices/registry.ts`) | `connections` (device to socket), `pending` calls with a deadline and an ack timer each, idempotency window, session owners | `register`, `unregister`, `resolveDeviceId`, `sendCommand`, `markAcked`, `settleResult`, `settleError`, `cancel` | called by the WebSocket handler and the broker | timers, results, send failures and closes race to settle a call; a new socket supersedes one that is still closing | one usable socket per device; each call is told one outcome and its timers end with it |
| WebSocket handler (`devices/wsHandler.ts`) | per socket: nonce, authenticated device, connection id, auth timeout, heartbeat interval | challenge, hello, ack, result, state report, close | registry, stores | handlers interleave at every `await`: a hello may finish after its socket has closed | an unauthenticated frame changes nothing; a late close takes nothing from the successor |
| Agent connection (`connection.ts`) | current socket, connection id, artifact token, backoff, `inFlight`, `recentResults`, `cancelled` | `connect`, `onDisconnect`, `onFrame`, `onCommand`, `sendStateReport`, `uploadArtifact` | gateway; executor | work outlives the socket it came on; the result goes to whatever socket is current | a command runs at most once; an agent always comes back |
| Session rows | rows of `browser_sessions`, `sessionOwners` | state report, disconnect, `session_open` | registry, broker, stores | three writers with awaits between their writes | rows agree with what the agent has open |
| Command broker (`broker.ts`, `offline.ts`) | none of its own | `call`: resolve, send, store artifacts, audit | registry, artifact store, audit log | a failure after the command succeeded | every call is audited once with its outcome |
| Executor (`executors.ts`, `jobs.ts`) | per-session queue, batch jobs and their progress | `executeCommand`, `runBatch`, `traverseOne`, `executeExtractMany` | session manager, browser session | a batch job runs beside other commands of its session; budgets and expiry | commands of a session do not interleave; a job ends with every item accounted for |
| Session manager (`sessionManager.ts`) | slot per profile, launch history, degraded flag | `open`, `current`, `launch`, `relaunchAfterCrash`, `close`, `forget` | launcher, lock | context-close events arrive late; launches overlap with close | one live context per slot; a relaunch is bounded |
| Profile lock (`browser-core/launcher.ts`) | lock file with pid and heartbeat | acquire, heartbeat, reclaim, release, sweep | other agent processes | inspect, remove and write are separate file operations | one owner per profile |
| Browser session (`browser-core/session.ts`) | tabs, page revisions, element references, serial queue | navigate, act, snapshot, adopt popups | Playwright page events | navigations and popups happen under a running command | an old element reference is never acted on |
| Countdown gate (`countdown/source.ts`) | balance, reserve, suspension, caches, workers | search, items, seller, status | upstream client | credits are read, then spent concurrently | the reserve is not spent; each item is answered |
| Countdown client (`source-countdown/client.ts`) | none | `call` with retries and deadline | upstream HTTP | retry of a paid request | no attempt after the deadline |
| Run checkpoints (`runs/checkpoints.ts`) | one row per run | `checkpoint`, `resume` | store | unserialised read, merge, write | no acknowledged step is lost; nobody resumes another's run |
| Artifacts, tokens (`artifacts/store.ts`, `agentAuth.ts`) | files, aggregate size, token expiry | `put`, `get`, `cleanupExpired`, `issue`, `verify` | broker, upload route | quota checked two awaits before the row it counts | the quota holds; a result never arrives without its artifact |
| Pairing, rate limits | token table, buckets | consume, pair; take | stores | single use; pruning | a token pairs one device |
| Policy (`packages/policy`) | none | URL, action and field decisions | executor, browser session | precedence of merged profiles | a denial is never lost in a merge |
| Page readers (`packages/site-*`) | none | one extractor per kind of page, pagination | executor | pages render the same fact in many ways, or beside facts of something else | nothing false is read; a field lost on a whole page is announced |
| Compaction (`packages/compact`) | none | window, filters, projection | executor; the caller's walk | offset, limit and filters together with the site's pages | a caller that follows the answers gets every match |
| MCP server, catalog | scopes of each tool | boundary and tool-layer checks | broker | a batched body passes the boundary unscreened | no command without its scope |
| Live-page readers, Countdown mappers, schemas, console, configuration, telemetry | none that others read | | | | display, declarations, what a browser computes: not modelled |

`PROJECT.json` lists the same components with their files and status, and under
`hazards` what in this code is hard to test, line by line.

## 2. Modules and plan

| Module | Models | Composed in | Run |
|---|---|---|---|
| `DeviceChannel`, `CallContract` | registry, handler and agent connection; the promise of a call | `MC_DeviceChannel` | `channel_*` |
| `ProfileLock`, `ExclusiveUse` | the lock file between processes; a lock | `MC_ProfileLock` | `lock_*` |
| `SessionManager` | slots, launches and locks of an agent | `MC_Agent` | `agent_host` |
| `BatchJobs` | batches, their queue, the job store and its pollers | `MC_Agent` | `agent_host` |
| `TabSession` | the queue of a session and its tab | | `tab_*` |
| `CountdownGate` | the gate of a paid source and its client | `MC_CountdownGate` | `gate_reserve` |
| `SessionRows`, `ArtifactFlow`, `RunCheckpoints`, `Admission`, `ToolCall` | what the gateway stores, lets in and records | `MC_Gateway` | `gateway_stores` |
| `PageText`, `EbayMoney`, `EbayCards`, `MyEbay`, `EbayOffers`, `EbayListing`, `KijijiCards`, `KijijiListing`, `ZazzleProduct` | the readers of pages | `PageReading` | `reading` |
| `Compaction`, `UrlPolicy` | what of a page is sent; what a session may visit | `SearchWalk` | `reading` |
| `PageReading` | `executeExtract`: which reader, which warnings | `SearchWalk`, `RenderedPages` | `reading` |
| `SearchWalk`, `RenderedPages` | a caller on a site; the pages a site may show of what is on sale | `MC_Reading` | `reading` |

Components that share no state share a run: `MC_Agent`, `MC_Gateway` and
`MC_Reading` take one component in each behaviour and let it move alone, so that
the state spaces add up and do not multiply.

Proofs about a component are in a module of their own, which extends it:
`DeviceChannel_proofs`, `ProfileLock_proofs`, `Agent_proofs` (session manager and batches),
`CountdownGate_proofs`, `TabSession_proofs`, `SearchWalk_proofs`, `UrlPolicy_proofs` and
`Gateway_proofs` (what the gateway stores and lets in). No module declares a RECURSIVE
operator, so that theorems can be stated about each of them. Every inductive invariant
a proof rests on was first checked by TLC, as an invariant of its component's instance.
Section 11 lists what is proved and what TLC alone checks.

Where a composition runs one component of several, the component has a specification of
its own for the theorems (`ManagerSpec`, `BatchesSpec`, `WalkSpec`, `RowsSpec` and so
on): its initial states and its steps, as the composition takes them.

## 3. DeviceChannel

One state machine for both ends of every socket of every agent.

* **Sockets.** `Socket == Device \X (1..MaxSockets)`: each agent dials from a
  pool. `ag` and `gw` are the `readyState` of the two ends, `link` the network
  between them, `toAg`/`toGw` the frames in flight, in order. A socket whose two
  ends have closed, and which nothing on the gateway still holds, returns to the
  pool, so reconnecting is unbounded. `hs` is how far the gateway's handler has
  got: `lookup` is the `await` of the device row (`wsHandler.ts:119`),
  `stamping` the `await` after registration (`:155`).
* **Gateway.** `conn`, `pending`, `deadlines`, `ackTimers` are the registry's
  maps and timers; `outcome` is what the caller's promise settled with.
* **Agent.** `ws`, `ready` (a connection id is known), `inFlight`, `recent`,
  `cancelled` are the fields of `AgentConnection`; `redial` is the armed
  reconnect timer; `reports` counts state reports whose tabs are still being
  listed; `execs` is a history variable.
* **Atomicity.** JavaScript runs a handler to its next `await`: one action is one
  such stretch. `OnHello`, `OnHelloVerified`/`OnHelloRefused` and `OnStamped` are
  the three stretches of the hello handler; `OnCommand` and `Finish` the two of
  `onCommand`. Any other action may happen between them.
* **Timers** are actions enabled while armed. Only the order the code's constants
  fix is kept: the deadline (every catalog timeout plus 2 s) is later than the ack
  timer (4 s).
* **Faults** (`Faults`, at most `MaxFaults`): a link is reset (both ends learn),
  goes silent (an end learns only from a heartbeat timer it has armed, from
  ws's close timeout, or from unacknowledged data of its own); a handshake is
  slower than 15 s; either process dies and is started again (compose's
  `restart: unless-stopped`, the Windows logon task); an operator revokes the
  device.
* **The agent's own end.** `FinishWhileConnecting` is `this.ws?.send` on a
  CONNECTING socket: `ws` throws, `onFrame` is not awaited by anybody
  (`connection.ts:139`), no `unhandledRejection` handler is installed, and the
  process exits.

**CallContract** is what the channel promises of one call, with no sockets in
it: refused or accepted, begun at most once, told one outcome, a result only
after the execution has ended. `Contract == INSTANCE CallContract WITH ...` maps
the channel's variables onto it and the property `KeepsContract` is its
specification.

Left out, because no property depends on it: heartbeat frames (their absence is
in `AgentLearnsOfClose` and `GatewayLearnsOfClose`), `device.token`, malformed
frames, signature checks other than the row being active, monitor and log
calls, `stop()`, the idempotency window (the broker never passes a key, so each
call gets a fresh one), pruning of `recentResults` (the gateway never sends a
command twice). Session rows belong to SessionRows.

Operators that no action uses (`RegisterKeepsOld`, `OnAckClearsDeadline`, ...)
are variants: the definition that follows with one plausible mistake in it.
`PROJECT.json` names under `mutants` the property that fails when a variant takes
the definition's place:

| Variant | Mistake | Property that notices |
|---|---|---|
| `ResolveToNull` | an unresolvable device id becomes null instead of itself | `TypeOK` |
| `RegisterKeepsOld` | a superseded socket is not closed | `OneLiveSocket` |
| `UnregisterWhoever` | any close of the device deletes the connection | `ReadyAgentIsRegistered` |
| `SendFailsRetries` | a failed send is repeated | `RunsAtMostOnce` |
| `SettleKeepsDeadline` | settling leaves the deadline timer armed | `TimersMatchPending` |
| `OnResultUnchecked` | a late result settles again | `AnswerIsFinal` |
| `UnregisterRejectsAll` | a close rejects calls that are settled | `KeepsContract` |
| `DeadlineCancelsEverywhere` | cancel is broadcast | `NoStrayCommand` |
| `OnAckClearsDeadline` | an ack clears both timers | `EveryCallEnds` |
| `OnDisconnectForGood` | no reconnect timer | `AgentsComeBack` |

### Runs

| Run | Instance | Question |
|---|---|---|
| `channel_recovery` | 1 agent, 2 sockets, 1 call, 2 faults of any kind | Do registration and supersession survive every order of hello, lookup, close, crash? `TypeOK`, `OneLiveSocket`, `ReadyAgentIsRegistered`, `RunsAtMostOnce` |
| `channel_calls` | 2 agents, 1 socket each, 2 calls, 1 reset | Is the book of calls right, and can a command or cancel reach the wrong device? `TimersMatchPending`, `NoStrayCommand`, `AnswerIsFinal`, `KeepsContract` |
| `channel_live` | fair, 1 agent, 2 sockets, 1 call, 1 fault | Is every caller told something, and does a paired agent always come back? `EveryCallEnds`, `AgentsComeBack` |
| `channel_superseded` | smallest that shows it | expected violation, see Findings |

Two sockets per agent are the interesting number: supersession is between a
socket and its successor, and a third only repeats the pair (the pool lets the
first be dialled again). Two calls are needed where a close settles several;
one call suffices where sockets are the question. Two devices are needed for
routing. Two faults let a recovery be disturbed itself. The
theorems below remove the bounds for the properties they name.

A system in which all calls are made and all agents are connected may rest, and
heartbeats are not modelled, so deadlock is not checked.

**Fairness** (`FairSpec`). Node's event loop runs every handler and expired
timer: weak fairness of each socket's two ends, of the ack and deadline timers,
and of the authentication timeout of a socket whose link is gone. A command need
not end: a page may hang, and the caller must be told all the same.
`AgentRestart` is fair because `install-logon-task.ps1` registers the task with a
restart count. Faults, calls and slow handshakes are not fair: nothing forces
them. `AgentsComeBack` excepts one state, named `WaitsInSilence`: an agent whose
link went silent before `device.ready` waits for ever: `connection.ts:224` arms
the heartbeat timer only then, and until then nothing of the agent's is under way
that TCP could fail to deliver.

### Findings

A finding is a run whose property says what a line of the repository says, and
which TLC refutes.

* `channel_superseded`: the close event of a superseded socket rejects the calls
  sent on its successor, which is open (`registry.ts:100`). After a silent loss
  the event comes up to ws's close timeout later.

Behaviours of the model that no run is spent on: the wait in silence above; a
state report collected for one socket is written to the next one before its
handshake, which the gateway answers by closing it (`connection.ts:288`,
`wsHandler.ts:171`); `"default"` does not resolve while a registered socket that
is no longer OPEN stands beside the one online device (`registry.ts:158`).

### Proofs (`DeviceChannel_proofs`)

For any sets of devices and calls, any number of sockets and faults, and every
choice of fault kinds (`ConstantsAssumption` only says that the null values are
not sockets or devices and the bounds are numbers):

* `TypeCorrect`: `TypeOK` is inductive.
* `OneLiveSocketHolds`: `OneLiveSocket` is inductive together with `SocketLife`,
  which says that a socket starts with a fresh handler and that a device is
  registered only with a socket of its own. Without the first part `Accept` could
  open a socket whose handler had been authenticated before; without the second
  `Register` could close another device's socket.
* `ChannelInvHolds`: the whole invariant `ChannelInv`. `RunsAtMostOnce` is not
  inductive: from a state with a command frame in flight and its execution begun,
  the next read begins it again. `CommandOnce` excludes that state (at most one
  frame of a command exists, on the socket it was sent on, and only before its
  execution), and it rests on `CallBook` (a call not yet made has left no trace, a
  pending one has been told nothing).
* `RunsAtMostOnceHolds`, `TimersMatchPendingHolds`: from `ChannelInv`.
* `AnswerIsFinalHolds`: the action property, since settling needs a pending call
  and a pending call has been told nothing.

* `ReadyAgentIsRegisteredHolds`: by `ReadyInv`, an agent that knows a connection id has
  it over a socket whose handshake is done, or whose gateway end has closed; an open socket
  whose handshake is done is authenticated, and so, by `OneLiveSocket`, the registered one.
  That `device.ready` only follows the registration rests on `HelloOnce` (one challenge and so one hello
  travels per socket: a second would undo the handshake of an open socket) and on
  `AgentSide` (an agent dials only when it has no socket).
* `NoStrayCommandHolds`: along the way from `sendCommand` to the executor, every command
  frame, every entry of `inFlight` and every entry of `cancelled` is at the device its call was
  resolved to, and a cancel exists only for a call whose caller has been told `TIMEOUT`
  (`Routed`).
* `ChannelKeepsContract`: the refinement. Every step of the channel is, under the mapping
  of `Contract`, a step of `CallContract` or a stutter. The contract's own guards are
  what has to be shown: an execution begins at most once (`CommandOnce`), a call is told
  something only while it is pending (`CallBook`), and a success only after the
  execution has ended, because a result frame exists only for an execution recorded in
  `execs` as ended, on any socket, in `recent` or in transit (`WorkInv`).

Only model-checked: the liveness properties `EveryCallEnds` and `AgentsComeBack`, which
are out of the prover's reach.

## 4. ProfileLock and ExclusiveUse

The lock file of one profile directory and the processes that want it. A
**process** is one run of the agent or of its preflight, which is also the
instance id it writes; its `pid` is lent by the operating system and may be lent
again, to another process or to a program that has nothing to do with the agent
(`programs`). `file` is the lock file: absent, created and still empty, garbage,
or a payload. Ages are one bit, `fresh`: refreshed within
`PROFILE_LOCK_STALE_AFTER_MS` or not; a lock ages only when its owner
is hung or gone, because the heartbeat is much more frequent than the threshold.

* **Atomicity.** The source is synchronous, so a process does nothing else between
  two file operations, but other processes do: every operation is a step. `pc`
  names the operation a process does next: `inspect`, `remove`, `recreate`, `write`
  of an acquisition, `reread` and `rename` of a heartbeat, `releaseRemove`,
  `sweep` and `sweepRemove`.
* **Faults.** A process crashes at any operation and leaves what it wrote; it
  hangs (its event loop is blocked, or the machine sleeps) and may wake.
* **MaxBusy** bounds the acquisitions and sweeps under way together. It is not
  only a bound: the code's promise holds for `MaxBusy = 1`, which the code does not
  ensure, and fails for 2, which is the finding of `lock_starters`. The proofs
  leave it open.
* **Histories.** `silenced` are the processes that were ever hung; `robbed` those whose lock a
  starter removed while they wrote, used or released it.

**ExclusiveUse** is the lock without a file: a set of users that is empty when
one takes it. `IsLock` is its specification under the mapping
`users <- CertainUsers`. While no process has fallen silent these are the
processes whose acquisition has returned and whose release has not begun.
After a silence nothing is claimed: `inspectProfileLock` gives a silent owner's
lock away on purpose.

| Variant | Mistake | Property that notices |
|---|---|---|
| `PayloadWithoutPid` | the lock does not say whose it is | `TypeOK` |
| `VerdictByInstance` | only the instance id is compared | `Exclusive` |
| `PidAliveIfOurs` | the pid probe misses live agents | `IsLock` |
| `VerdictByPid` | no instance id, so no heartbeat age | `DeadOwnerIsReplaced` |

`lock_owner` (three processes, two pids, crashes and hangs, one acquisition at a
time, fair) checks `TypeOK`, `Exclusive`, `IsLock` and the liveness property
`DeadOwnerIsReplaced`. Three processes are an owner, its successor, and a third
that meets what both left; two pids for three processes force reuse.
**Fairness**: a file operation that is due and not blocked by a hang happens; the
clock runs; and a running agent is asked for the profile again and again (strong
fairness of `TryWrite`, since the MCP client decides when; without requests nobody
looks at the lock and it stays, harmlessly). Nobody has to start, crash, hang or
wake.

**Finding** `lock_starters`: with two acquisitions under way, one process reads
the other's lock between its creation and its contents, takes it for unreadable,
removes it, and both own the profile (`launcher.ts:385`).

**Proofs** (`ProfileLock_proofs`, for any processes, pids and faults, and any number of acquisitions
and sweeps under way together).

* `TypeCorrect`.
* `OnlyRobberyBreaksTheLock`: `lock_starters` shows that starters who race each other break the
  lock; this says how far. Two processes use the profile together only after a starter removed the
  lock of a live process, at one of the two removals of the code (`launcher.ts:397`, 464), or
  after an owner fell silent (`ExclusiveUntilRobbed`). No heartbeat, release, crash or
  reused pid brings it about, so that a repair has those two removals to mend and nothing else.
* `InspectionCondemnsNoKeeper`: nor does the verdict before such a removal err. Until then no
  inspection finds the lock of a process that has the profile stale (`CondemnsNoKeeper`): the lock it
  condemned was another one, or the file was there and not written yet.
* `LockRefinesExclusiveUseUntilRobbed`: up to that removal the lock file implements `ExclusiveUse`.

Exclusion is not inductive: nothing in it keeps a process from removing the lock another
one uses. `IInv` holds while nobody has been robbed and no owner has been silent: the lock file is exactly
the payload of whoever keeps the profile, and so is what its heartbeat is about to
rename; a file being written is the writer's own; live processes have pids of
their own. From the first, `KeptIsNotStale`: whoever inspects a kept lock finds its owner
live; and `NotRobbedIsNobodys`: a removal that robs nobody leaves no keeper and no writer.

Only model-checked: `DeadOwnerIsReplaced`, and, for one acquisition or sweep at a time, `Exclusive` and
`IsLock` without regard to removals. Not modelled: locks of another host
(never stale, never removed), acquisition by a process that has the lock already
(the session manager does not do it), and launch plans, which are data. Known
limits, covered by "until an owner falls silent": a hung owner that wakes between
another's inspection and removal renames its payload over the new owner's
(`launcher.ts:415`), and with several sweeps at once one may remove, by path, a
lock it did not judge (`launcher.ts:464`).


## 5. SessionManager

The agent's browser sessions. `slot`, `opening`, `degraded` are the fields of
`SessionManager`; `holder` is who has each profile's lock, by what ProfileLock
promises; `browser` is Chrome, modelled from what the code relies on: it runs on
one directory, does not run twice on one, and reports its end by an event that is
delivered later. `open` is four stretches: `Open` (lock, launch window) to
`launchPersistent`, `Launched`/`LaunchFails`, then `Created`/`CreateFails` when
`BrowserSessionRuntime.create` returns. A browser that dies before the close
listener exists is `down` and nobody hears of it until `create` fails on it.
`closing` holds the sessions `close()` has taken out of the slots; they are closed
one after another, in any order.

| Variant | Mistake | Property that notices |
|---|---|---|
| `LaunchFailureKeepsLock` | a failed launch keeps its lock | `SessionsOwnTheirBrowsers` |

`SessionsOwnTheirBrowsers` has three parts: a lock is held exactly while its
profile is being opened, open or being closed (`LockFollowsSession`), a Chrome that
runs has the lock of its directory (`BrowserHasLock`), and a slot holds a
browser of its own profile that runs, or whose end is still to be delivered
(`SlotsAreAlive`).

`agent_host` has two profiles, so that the slots, locks and the shared launch
window of one agent are told apart, and three Chrome instances, so that one of
them may be a predecessor whose end is still being delivered; the window degrades at
the fourth launch. `BrowserFaults` leaves out `"create"`, for the property fails
with it: when `BrowserSessionRuntime.create` throws in a live browser, the catch
releases the lock and does not close the context (`sessionManager.ts:345`, against
12-14), so that Chrome runs on in a directory whose lock is free, and every later open of
the profile fails in Chrome until the agent is degraded.

Not modelled: `relaunchAfterCrash` has no caller in the repository, so the
relaunch `sessionManager.ts:3` promises never happens; challenge and handoff
state. A crash of the agent process is ProfileLock's concern. The window counts
launches, not crashes: enough healthy opens within it degrade the agent, as
modelled by `RecordLaunch`. While `close()` works through the slots a command may open a
profile and take its lock again, which the old handle then releases
(`sessionManager.ts:361`); the process exits right after, so nothing is claimed there.

**Proof** (`Agent_proofs`). `SessionsOwnTheirBrowsersHolds`, for any profiles, Chrome
instances, launches and deaths, on the assumption `"create" \notin BrowserFaults`, which is the
exception named above and not a convenience: with that fault TLC refutes the property. The
property says nothing of a launch under way and lets a running Chrome belong to anybody,
so it is not inductive. `ManagerInv` adds, while the agent serves (`Serving`), that every
Chrome with a session is the one of the slot of its profile, every Chrome without one that of a
launch of its profile (`Launches`), never both; and that an exited process has left nothing (`Ended`).

## 6. CountdownGate

The gateway spends a paid vendor's credits. The module sets what the source
remembers (`remaining`, `lastUsed`, `limit`, `suspended`, `stale`, the `probe` in
flight) beside what is so at the vendor (`account`), and runs tool calls against
both. `phase` and `time` belong to calls, `stage`, `attempts` and `answer` to the
vendor requests made for them (`Unit`: an item's slot, a half of a search, a
seller).

* **Stretches.** `Begin`, `CallResumes`, `TakeSlot`, `SlotResumes` are
  `assertCredits` to its first await and after the probe. `Serve` charges at the
  vendor; `Succeeds`, `ServerError`, `Exhausted`, `Suspends` are the answer's
  arrival, in any order between requests. A probe has the same two halves. An
  audit row is awaited after the memory has changed and changes nothing itself.
* **Deadlines.** `ample` means that another request fits (the launch headroom of
  the pool, the retry budget of the client). Disposing of a deadline aborts the
  requests in flight in the same turn; a retry that sleeps or a slot that waits for
  a probe finds out later. A request that was aborted or timed out after the
  vendor served it has been charged.
* **Start.** `startupProbe` is in flight.
* **Vendor.** It suspends and reinstates, tops up and renews, and leaves figures out of an answer
  (`"silent"`: a null does not overwrite what is remembered, but for the used of the account,
  `source.ts:852`; an answer that does not say how much was used passes the order rule, 990). These,
  errors and timeouts are `MaxFaults` together. An empty balance is refused with 402, and
  the account probe may be (`ProbeExhausted`, 879).

`ReserveHeld` is the property the component exists for. The gate decides on
what it remembers; the property speaks of the account: a request is sent only
while the balance, with the charges that the gateway cannot have seen yet, holds
the reserve. It therefore depends on the order rule of `remember`, on `foldCredits`
and on the re-check for every slot. It excepts what the code cannot know: charges whose answers were
abandoned, an answer or probe taken over without its figures, and a probe overtaken by newer answers,
until the next probe that states both.

| Variant | Mistake | Property that notices |
|---|---|---|
| `GateViewAtReserve` | the status compares with `<=` | `StatusTellsTheGate` |
| `RememberAnything` | an older answer overwrites a newer one | `ReserveHeld` |
| `AfterGateProbeUnchecked` | a suspension the probe learnt is ignored | `SuspensionRefuses` |

`gate_reserve`: any two (`MaxCalls`) of a batch of three items with one worker, a
search, a seller lookup and a status call; one fault; a reserve of a quarter of
the plan, or one that is not below the plan's limit until a top-up. Two calls are
what an interleaving needs, and three slots after one another let the second and
third be decided on the answers of the first. Slots are symmetric. No property is about
liveness and every system ends when its calls have ended, so deadlock is not
checked.

Two properties stand beside it: `StatusTellsTheGate`, that the status tool shows what
the gate would decide, and `SuspensionRefuses`, that no request is sent while the
gateway knows of a suspension.

A behaviour the properties leave out: the probe is stamped when it starts
(`source.ts:846`), so callers that come while it is in flight neither wait for it
nor join it (`source.ts:660-661`), and a search made during the startup probe is charged on an
unknown balance, although the comment at 630-632 says that nothing is decided on
nothing. `ReserveHeld` speaks of figures the gateway has.

Not modelled: the secondary role's declaration check (stateless), mapping of
payloads, audit rows. Once a plan is renewed, `remember` ignores charged answers
until `used` has caught up or a probe has read the account: the memory is then too
low, not too high, and `ReserveHeld` holds.

**Proofs** (`CountdownGate_proofs`), for any calls, requests per call, faults, prices within a
plan and reserves.

* `ReserveHeldHolds`. The property compares what the gate decides on with the account; the
  invariant `GateInv` says how far the two can be apart. `Covered(seen)`: the charges made at
  the vendor since the figure `seen` are no more than the requests whose answers are still
  to come with a higher figure (`Coming`). `Accounted` says that of `lastUsed`, or, before the
  source remembers anything, of every answer that may become the first. `MemoryWithin` keeps the remembered
  figures together below the plan's limit, which only rises, and before the first of them admits
  only a 402; and `Requests` orders the phases of
  calls and the stages of their requests.
* `SuspensionRefusesHolds`, `StatusTellsTheGateHolds`: from the types of the same invariant.

The invariant corrected the property. In an earlier form a probe's answer ended the exception for
lost charges whenever the number of requests outstanding accounted for the difference. TLC,
with two faults, found an execution in which a charge made before a renewal stood in for
one that had been lost after it, so that the reserve was thought held and was
not. `ReadAccount` now ends the exception only if `Covered(probe.used)` holds.

## 7. TabSession

One tab of one session. `page` is what Chrome shows, `tab` what the agent knows
of it (`TabState`: `rev`, `dirty`, `pin`, and the URL Playwright last heard),
`queue` the session's `SerialQueue`. A page is reduced to three version numbers:
`doc` (which document), `facts` (what an extractor can tell) and `bytes` (the
serialization, which a live page changes by itself); `shell` is a seller page
that has not rendered its listings, `stamps` the revisions whose references are
on its elements.

* **Chrome and the agent** talk over one ordered connection, as Playwright does:
  `news` holds navigation events and the answer to the one request a command
  waits for. A navigation that commits before a request is served is therefore
  heard before its answer, and one that commits later is not. `Serves*` are Chrome's
  halves of a request, `Hear*` the agent's, from one `await` to the next; `run` is
  the command that runs, where it waits and its locals.
* **Commands**: `visit` is `navigate` and `open_and_extract` (landing, refusal and
  parking on `about:blank` with one retry, title), `extract` with the hydration
  wait of a seller page and the destination control of a listing, `click` and
  `fill` (also select, keys and consent), `snapshot`, `wait` with its drift check,
  `handoff`. A command may expire while it queues.
* **The page** navigates, changes, redraws or closes at any moment (`MaxMoves`);
  any request may fail, an action also after it has taken effect.
* **Histories** state the properties: `wrote` and `waited` are the page as the last
  successful command and the last satisfied wait left it, `refs` the references
  handed out, `astray` those that acted on another document, `answers` the
  extractions.

| Variant | Mistake | Property that notices |
|---|---|---|
| `RefreshedInPlace` | a drifted page is pinned again without a new revision | `SameRevisionSameBytes` |
| `PausedQuietly` | a hand-off does not bump the revision | `ReadsAfterWrites` |
| `NotRefreshed` | a wait leaves the pin of before | `ReadsAfterWaits` |
| `RefAsGiven` | a reference's revision is not compared | `ActsOnWhatWasSeen` |

`tab_reads`: three commands of any kinds, two in the queue, one move of the page
by itself. Three commands are what the properties relate: one that reads, one
that changes or waits, one that reads again. A session without calls rests, so
deadlock is not checked.

**Finding** `tab_identical`: `executeExtract` reads the URL before it awaits the
content, so a navigation between the two yields an answer with the old URL and
the new page, under the new revision; the next call at that revision is served the
same bytes with the new URL (`executors.ts:629`, against 208-210). A second way to
two answers at one revision is in the model too: a seller page whose hydration
wait ends in vain is answered from the source captured before it, under whatever
revision the tab has by then (`executors.ts:761`); `SameRevisionSameBytes`
leaves out answers whose source is not of the revision they name.

`page.bytes` stands for all that a page states, so a property over it does not
depend on an extractor. Not modelled: several tabs and popups, navigations
within one document (`pushState`), challenge pages and policy-only hosts, which
answer from the same source, images and their registry, screenshots and markup,
scrolling (reads only). Batches
are BatchJobs. An action that fails after it has taken effect leaves the tab clean
(`actions.ts:312`), so `ReadsAfterWrites` speaks of commands that succeeded. Popups
are left out with the queue of refused popup URLs (`session.ts:217`), which one
navigation shifts an entry from whoever opened the popup.

**Proofs** (`TabSession_proofs`), for any number of commands, moves of the page and frames in flight:
`SameRevisionSameBytesHolds`, `ReadsAfterWritesHolds`, `ReadsAfterWaitsHolds`,
`ActsOnWhatWasSeenHolds`. All four follow from one invariant, `TabInv`, because what they
compare is made in several awaits with Chrome moving between them:

* `NewsOK`: at most one answer is under way, behind which nothing but navigations is still to
  be heard; each answer tells of the page as it was when it was served. `ChainOK`: the documents that
  the tab will have been told of, in the order it hears them, end with the one Chrome shows.
* `PinsOK`: of the current revision, while it is not dirty, the pin is older than neither
  the last write nor the last wait, and so is the answer that is going to be pinned.
  A landing is heard after a navigation that has dropped the pin, and a click that finds the
  tab where it was finds no pin either (`MovedOK`); what an extraction read before it began to
  wait is of its own revision's pin (`RunOK`).
* `AnswersOK`: every valid answer of the current revision was taken from the pin, and while
  one is pinned no second capture of the revision is being made. This is the part
  without which `SameRevisionSameBytes` is not inductive: two captures under way would be
  two serializations.
* `RefsOK`: references of the current revision are of the document that the tab is known to
  show, and if the page bears stamps of that revision it shows that document, unless the answer of
  the snapshot that put them there has not been heard.

## 8. BatchJobs

`browser_extract_many` and `browser_job_status`. A batch of URLs goes through
the queue of its session (`queue`), inline or as a job; `run` is what `runBatch` has
got to: the deadline, the URL it is at, the slots done. `jobs` is the
`BatchJobStore`, whose `Prune` runs on every creation, poll and console refresh.
`poller` is what each caller has been given; a poller asks for what follows what
it has. `now` is the clock all deadlines are read from.

A page is what a reader shows of it: a bot wall, a status, the mark of a removed
ad, a search where an ad was asked for. Each URL ends in a slot or in a failed
navigation; a session that dies fails all that follow, and its queue goes on.

| Variant | Mistake | Property that notices |
|---|---|---|
| `AllOfThem` | duplicates are not removed | `BatchesEndWhole` |
| `ProgressPastIt` | `sinceIndex` is taken for the last one seen | `PollerMissesNothing` |
| `EndItemOrBatch` | a dead session throws out of the loop | `JobsEnd` |

`agent_host`: two batches of up to two URLs (three in all, so that one has a duplicate while the
other runs or waits), one inline at most, a second session that polls jobs not its
own; a budget, a deadline and a retention of one tick in a clock of two, so that
each of them passes before, during and after a batch. **Fairness**: the event loop
runs what is due, and every await of a traversal ends, because each navigation has a timeout.
Nothing obliges callers, browsers or the clock.

Not claimed, because it does not hold: that a poller learns how its job ended.
`executors.ts:351` resolves the session before it looks for the job, so once
the session has died the outcome recorded for the poller (`executors.ts:1578-1580`)
cannot be read. `Poll` refuses it likewise.

**Proofs** (`Agent_proofs`), for any sessions, batches, URLs, pages and bounds:
`BatchesEndWholeHolds` and `PollerMissesNothingHolds`. `BatchesInv` is a page of books: for
each batch (`BookOK`) what its job record, its inline answer, its place in a queue and
its poller say of each other. A job in the queue is running, has no end, and has as results what
the loop has done so far; one that has left the queue has ended as its results say, or was pruned,
which prunes no running job; and what a poller has seen is a prefix of both. `SessionOK` says that a
batch stands in one queue once, and that the loop of a session works for the front of its queue.

## 9. Reading pages and walking searches

**Texts.** A reader asks a text, with one pattern after another, what it says first;
`PageText` gives a text as the function from the patterns of its reader to what
each finds first. Concatenation, precedence between elements, and words of
one element standing in another's text are kept; characters and regular
expressions are not. A page is a record of what its places hold, `Null` for an
absent one. The header of each module names the places.

**RenderedPages.** What is on sale, and the pages a site may show of it: a page of one
thing, or a list of two. A page starts as its plain rendering; each step renders one feature in another way: a
field moves, goes missing, or is joined by what looks like it, on the first row of a list or on
both. After every step the page is read by `ExecuteExtract`, the operator of `PageReading` for
`executeExtract`; the variable `reading` keeps its answer. A reader is staged as the code
stages it: what one stage computed is the parameter of the next.

* `NothingFalseIsRead`: of each thing a page shows, a reader never states a value that is not the
  thing's own, unless a warning or the row itself doubts that field (`Doubts`). The places where the
  readers do take for a thing's own what is not, in silence, are excepted one by one, each by its lines
  (`TakesForItsOwn`, and below).
* `UnreadFieldsAreAnnounced`: of the fields a routine buys, ranks or replies on
  (`Announces`), one that no row of the page states is announced by a warning that names it; so is a
  format, a status or a sender that a single row does not state (`CountedByRow`). A list of two
  tells the two apart. Of any other field that one row states and the other does not, the code says
  nothing (`nullCountsWarning`, `myebay.ts:733-740`; the `CARD_*_UNRENDERED` warnings), and the property claims
  nothing.
* `VerifiedNamesTheBuyersCode`: a shipping quote marked verified was quoted to the
  buyer's postal code.
* `OnlyDeadAdsAreRetired`: a batch retires an ad for a status element or a landing on
  a search, not for what its prose says while it can be answered.

**SearchWalk.** A caller follows `nextOffset` and `nextPageUrl` as
`docs/ROUTINE.md:150-160` tells it to, through the compaction of each page and the
policy check of each visit, which the site may answer with a redirect; then it reads an ad's
body window by window.

* `WalkReturnsEveryMatch`: at the end it has every listing that passes its filters, or
  was told on the way that it has not.
* `OwnProfileHolds`: where a session of several profiles comes to rest, each
  profile that admits the host allows the page.
* `WindowsReadWholeBody`: the windows make up the whole body, none is asked for past the
  end.

| Variant | Mistake | Property that notices |
|---|---|---|
| `AnySellerName` | a monogram or a control's label is a name | `NothingFalseIsRead` |
| `AllFieldsNull` | warn only when all rows lack all fields | `UnreadFieldsAreAnnounced` |
| `DestinationBySomeone` | any code on the page verifies | `VerifiedNamesTheBuyersCode` |
| `StatusByProse` | a status is found in the ad's prose | `OnlyDeadAdsAreRetired` |
| `WindowSize` | the end of a window is its size | `WindowsReadWholeBody` |
| `PriceInside` | the price bounds are exclusive | `WalkReturnsEveryMatch` |
| `MergeSitesOnly` | a merge joins the allowlists only | `OwnProfileHolds` |

`reading`: six kinds of page, lists of two rows (with one, "on all rows" and "on some row" would be the
same), up to three features changed together, on one row or on both (a field is
looked for in up to four places, and two that disagree need a third to be missing).
Every exception of `TakesForItsOwn`, every doubt and every announcement is met by some page of the run;
searches of five listings in pages of two or three, read in windows of one or two, so that
windows and pages end together and apart; nine ways to state, or not to state,
what follows; four loads, one more than the pages there are. Filters include a bound that
meets an amount and one that judges a row without an amount. Profiles
alone and together; redirects to each kind of refusal.

**Proof** (`UrlPolicy_proofs`): `CompositeDeniesMore`, for every set of profiles that
may be merged, every URL, control and field, in every context: what the member that
admits a host forbids there, the composite forbids (`mergeProfiles.ts:10-13`). The
lists of a composite contain the member's, which `MergedLists` states, and every check is
monotone in its lists; the allowlist, which is not, is a hypothesis.

**Proof** (`SearchWalk_proofs`): `OwnProfileAlwaysHolds`, the property `OwnProfileHolds` of every
reachable state, for any set of profiles, sites and redirects. The invariant says that an address
at which the tab rests was admitted by the composite as a redirect would be (`ChecksAgree`: what
a navigation is refused for, a redirect is refused for too); what the composite admits,
each member that admits the host admits (`MembersAgree`). `BodyIsReadWhole` is the property
`WindowsReadWholeBody`, for any lengths of body, window, excerpt and maximum. `AdAnswer` says
what of an ad's answer depends on its body: the window, and exactly two warnings; the lemmas before it
show that no other warning of the readers, of the reduction or of a search
page is one of the two (`Silence`). `BodyInv` then says that the windows read so far reach to
where the next one starts, before the end or at the start.

`VerifiedAlwaysNamesTheBuyersCode` and `OnlyDeadAdsAreEverRetired` are the properties of
`RenderedPages` for any plain page, any other ways to render its features and any number of
changes: the site may show anything at all in the places the reader looks at. `PagesInv` says
that the reading is that of the page shown. The first then follows the code through
`Destination`: what is verified matches the code expected, and a match of codes is an equality
of codes once both are normalised (`VerifiedDestination`). The second says what
`DetectKijijiListingStatus` makes of the banners and of an ad that can be answered (`StatusOfAd`).

`EveryMatchIsReturned` is the property `WalkReturnsEveryMatch`, for any listings, page size, limit and
filters, any of the nine ways to state what follows, and a reduction that may run out of time on any page.
The property is not inductive: it speaks of the end of a walk only. `MatchInv` says of every state,
unless the caller was told of a shortfall, that it has each wanted listing of the pages
before this one and each match of this page before `offset`. Its proof has four parts:

1. A reader keeps what the site shows: each row of a page tells of its own listing, by name, title,
   amount or silence (`Tells`, proved by `KijijiRow` and `EbayRow` through the sources of
   an amount and of a format), and no listing of the page is without a row (`KijijiRows`, `EbayRowsOfPage`).
2. A row passes the filters only if its listing is wanted, and fails wrongly only if its amount was not read,
   which is counted (`RowsAreJudged`).
3. The window that is sent holds every match between `offset` and `nextOffset`, and every
   later one when there is no `nextOffset` (`RowsSent`, `AnswerCovers`).
4. The answer leads to the next page, or says that it does not know what follows, or nothing
   does (`KijijiFollows`, `EbayFollows`, `FollowKeeps`): past its last page eBay serves
   that page again, and a reader that calls it clamped must not have missed one.

Rows are selected, and texts joined, by recursive functions on sequences. That such a function
has a value, and what it says, is proved by a least counterexample, which the library's
`WFMin` gives without an operator parameter (`KeptFcnExists`, `KeptUpto`, `TextsFcnExists`).
The hypotheses are `WalksAssumption`, which TLC evaluates on the walks of the run, and
`NullIsBare`: a null has no fields, as the readers rely on when they compare a record with null.
The listings of a walk have distinct ids and one of the two sites, and a format filter
takes in the fixed price and the word `unknown`: without the latter, rows are dropped uncounted (below).

Behaviours of the model that the properties leave out:

* **A walk that never ends.** Where a Kijiji page states its total in the title
  only, what was seen so far is the length of this page
  (`site-kijiji/src/traversal.ts:618`), so a next page is claimed on every page, the last one
  included. `tests/unit/kijijiLiveDefects.test.ts:167` says that none is claimed once
  the total has been seen; it looks at a first page only. `SearchWalk` ends such a walk
  at `MaxLoads`.
* **A truncated amount.** Where the hydration cache of a Kijiji ad states no price, the
  JSON-LD amount is believed, although it may be truncated and the rendered price stands
  beside it (`extract.ts:843-900`).
* **Somebody else's link.** The first profile link of an ad is its poster's, where neither the cache nor a
  labelled link names one (`site-kijiji/src/extract.ts:1071-1092`); the first `/usr/` link of an item page
  is its seller's, where the seller's own card links a store only
  (`site-ebay/src/extract.ts:104-111`, 868-883).
* **Titles with an element in them.** `traversal.ts:307` takes the title out of a card's text
  as one run. With an element nested in it, or a link around the whole card, its words stay, and
  a title that says sold, or names a price or a place, is read as the card. The
  reader warns that its selectors missed; `Doubts` is that warning.
* **Titles on signed-in pages.** A watch-list card is read as a whole, its title included
  (`myebay.ts:704-724`, 799-829): a title that says sold or ended is its state, one that names
  a countdown or a shipping figure is read where the card has no element for it. An amount in the title
  becomes the price where the price element is missing: only `snippetPriceSource` tells, no warning.
  So are an offer row's sender and, where it has no status token or price element, its state and its ask
  (`myebay.ts:1135-1164`).
* **Free shipping in a title.** On a search card without a shipping element, the words of the title
  count (`traversal.ts:481`).
* **Rows of no format.** `compact/src/index.ts:697-704` counts a row whose format is absent as
  `EXCLUDED_UNKNOWN_FORMAT`, and drops one whose format is the word `unknown`, as eBay's
  reader gives it, without counting; `docs/ROUTINE.md:139-141` says that such rows are counted.
* Promoted ads make `offset + results.length` overshoot
  (`site-kijiji/src/traversal.ts:616`), so a page before the last may seem to be the last.
* Zazzle's `canonicalUrl.source` names the first place that has a URL, not the one used
  (`site-zazzle/src/extract.ts:214`).

Not modelled: image lists but for their number, seller profiles, the classification of
IP addresses (whether an address is public is data), interception of subresource requests,
the research profile's contents, the reduction of single records.

## 10. What the gateway keeps and lets in

One run, `gateway_stores`, five components.

* **SessionRows.** `owner` is the registry's map of session owners, `row` the table. An open
  session is remembered, then written and awaited, then answered; a state report closes all rows
  of the device and reopens them one at a time; a closing socket marks them without waiting; a
  superseding socket reports while its predecessor's close is still to come. Rows are closed and
  never deleted, and `SessionOwner` ignores their status: hence `HandleKeepsItsDevice`.
  Two devices and two handles, one loss of a socket, of a write or of the gateway.
* **ArtifactFlow.** A command captures artifacts; large ones are uploaded while the call is
  pending, small ones come in the result. `put` is at its check, its file or its row; `sweep`
  deletes file first. `QuotaHolds` (the check is two awaits before the row), `UploadReachesCaller`
  (an artifact is gone only if it has expired), `FilesHaveRows`. Three artifacts of sizes below
  and above each limit, a lifetime that may end before the result arrives, a crash at any point.
  Orphan files of a put that died stay for ever: nothing lists the directory.
* **RunCheckpoints.** `write` is a checkpoint between its read and its write. Two owners choose one
  run id. `OwnRunsOnly`: nobody resumes another's run or finds its own entries in one.
  `AcknowledgedIsKept`: what a caller was told is stored stays stored, but for want of room or
  because another owner, who had read before this one's row was there, replaces the row wholesale. An owner drives one call at a time, as the
  routine does; with two calls of one owner under way the later write loses the earlier one's entries.
* **Admission.** Token buckets in the order their keys came, pruned at a bound; pairing tokens,
  consumed in one statement. `AdmitsNoMore`: no key passes more often than its bucket allows in
  any interval, also when its bucket was dropped and made again; a token pairs one device.
* **ToolCall.** One call of any tool with any scopes, from the boundary to the answer.
  `CallsAreAccountedFor`: what the audit log says happened. What it does not say: a call whose
  session row or artifact cannot be stored after the command succeeded ends without a final row
  (`broker.ts:205`), as do a handle that names no session (`broker.ts:112`) and the tools the
  gateway answers itself, although `packages/audit/src/index.ts:2-3` promises one event per
  `tools/call`.

| Variant | Mistake | Property that notices |
|---|---|---|
| `RememberAndAnswer` | the answer does not wait for the row | `HandleKeepsItsDevice` |
| `UploadAhead` | uploads are not awaited | `QuotaHolds`, `UploadReachesCaller` |
| `RowOnly` | clean-up deletes the row only | `FilesHaveRows` |
| `StartCheckpointUnowned` | the owner is not checked | `OwnRunsOnly` |
| `ReplacedOnly` | lists are replaced, not merged | `AcknowledgedIsKept` |
| `PruneRecent` | any bucket may be dropped | `AdmitsNoMore` |
| `AuditsSuccessesOnly` | a failed command has no row | `CallsAreAccountedFor` |

**Proofs** (`Gateway_proofs`), for any devices, handles, calls, sizes, owners of tokens and crashes.

* `HandleKeepsItsDeviceHolds`: `RowsInv` says that every mention of a handle, in the registry's map, the table,
  the agents and the work under way, is with the device that made it, and that an answered
  handle has a row.
* `FilesHaveRowsHolds`, `UploadReachesCallerHolds`, from `ArtifactInvHolds`. An artifact is put
  once, by the agent or by the broker: what the agent still has to send, what it has
  uploaded, what the broker still has to store and what is under way have ids of their own
  (`AgentOf`, `BrokerOf`), and an artifact that the broker expects to find is stored (`Owed`)
  until it has expired (`StoreSide`). Without the order in which an upload is
  awaited before the result is sent this is false.
* `QuotaIsKept`. `ArtifactFlow` sums the rows of a request with a fold; the proof first
  shows that it is the sum one gets by taking the rows away one at a time (`SumIs`, `SumFcnExists`: a
  least counterexample over the cardinality), hence what one row adds (`SumOfOneMore`).
  `QuotaInv` then says that the puts of a call are serial (`PutsAreSerial`: the
  agent awaits each upload before the next and before the result, the broker stores what came
  inline one by one after it) and that a put past its check leaves room for its
  row (`LeavesRoom`). Nothing else in the code keeps two puts from passing the check together.
* `OwnRunsOnlyHolds`, `AcknowledgedIsKeptHolds`, from `RunsInvHolds`. First what merging and trimming
  do to any payload: `MergedKeeps` (no verified id goes), `ShortenedKeeps` (a
  payload loses as many entries as it is asked to, always from a list that has some; by a least counterexample, the recursive
  function having been shown to exist in `ShorterFcnExists`) and `TrimmedFits` (within the bounds,
  and what leaves room has lost nothing). Then `RunsInv`: a checkpoint between its read and its write has seen
  a row of its own caller or none (`OwnRead`), and the row a caller was told of is its only
  one, stored until it has expired or another's has replaced it (`ToldOwners`). Since the
  owner check looks at the row read, not at the row replaced, the invariant has to speak of both.
* `AdmitsNoMoreHolds`. For a bucket, `RateInv` measures from each pass of a key how often
  the key may still pass by now (`Slack`), and states that its bucket holds no more than that
  (`Backed`); a key without a bucket may always pass a full one, because only a bucket that has refilled is
  dropped. For a token, `PairingInv` says that one not consumed has let nobody through, and
  that one request or one device stands for a consumed one.
* `CallsAreAccountedForHolds`: `Stage` says which rows each stretch of a call finds in the log.

## 11. Proved, checked, not modelled

Proved for every value of the constants, under the assumptions the modules name:

| Component | Theorems | Assumption beyond the constants' types |
|---|---|---|
| DeviceChannel | `TypeOK`, `OneLiveSocket`, `RunsAtMostOnce`, `TimersMatchPending`, `AnswerIsFinal`, `ReadyAgentIsRegistered`, `NoStrayCommand`, the refinement `KeepsContract` | |
| ProfileLock | `TypeOK`, exclusion and the refinement of `ExclusiveUse` up to the first removal of a live process's lock, `CondemnsNoKeeper` | |
| SessionManager | `SessionsOwnTheirBrowsers` | no session is refused by a Chrome that lives |
| CountdownGate | `ReserveHeld`, `SuspensionRefuses`, `StatusTellsTheGate` | |
| TabSession | `SameRevisionSameBytes`, `ReadsAfterWrites`, `ReadsAfterWaits`, `ActsOnWhatWasSeen` | |
| BatchJobs | `BatchesEndWhole`, `PollerMissesNothing` | |
| SearchWalk, UrlPolicy | `OwnProfileHolds`, `WindowsReadWholeBody`, `WalkReturnsEveryMatch`, `CompositeDeniesMore` | null is no number and no record and has no fields; a format filter takes in `fixed_price` and `unknown` |
| RenderedPages | `VerifiedNamesTheBuyersCode`, `OnlyDeadAdsAreRetired` | null is no status and has no fields |
| Gateway | `HandleKeepsItsDevice`, `FilesHaveRows`, `UploadReachesCaller`, `QuotaHolds`, `OwnRunsOnly`, `AcknowledgedIsKept`, `AdmitsNoMore`, `CallsAreAccountedFor` | |

Model-checked only:

* liveness: `EveryCallEnds`, `AgentsComeBack`, `DeadOwnerIsReplaced`, `JobsEnd`;
* `Exclusive` and `IsLock` of ProfileLock, for one acquisition or sweep at a time: the code does not
  ensure it, so what is proved is stated without it;
* what the readers compute: `NothingFalseIsRead` and `UnreadFieldsAreAnnounced`, whose content is the
  evaluation of a reader on every page of a finite set of renderings chosen to be
  honest about the thing on sale.

Twelve runs ask what the components are for; behaviours that a
run with another bound or fault would show violated are described in the section of
their component.

Not modelled: live-page readers (`images.ts`, `screenshot.ts`, `markup.ts`, `consent.ts`: what
they compute depends on the browser), Countdown mappers (field by field, without state), the
agent's console, key store and start-up, tool schemas, configuration, audit formatting,
telemetry, dashboards' HTTP client, measuring tools, SQL migrations.
