# telemt-panel in TLA+

telemt-panel creates telemt MTProto proxies on one Docker host, one container
per proxy, and shows their statistics in a browser. This directory models the
parts of it whose correctness depends on the order of steps: the sagas that keep
database, containers and configuration files together, the reconcile pass at
start-up, the statistics poller and the event streams to the browsers, the login
rate limiter, accounts and sessions, and the limits of a proxy on their way from a
form to the running telemt. TLC checks the models on small instances; TLAPS proves
the safety properties for any number of proxies, containers, handlers, tabs,
addresses and sessions.

    tlc -workers 2 -config concurrent.cfg MCProxyService
    tlapm ProxyServiceProofs.tla

## 1. The system

| part | state | operations | talks to |
| --- | --- | --- | --- |
| `internal/proxy` (service.go, lifecycle.go, ports.go) | none of its own; each handler holds a copy of a row | Create, Delete, UpdateLimits, Recreate, RemoveOrphan, Reconcile | store, Docker, `data/proxies/<id>/config.toml`, telemt's control API |
| `internal/store` | SQLite tables proxies, admins, sessions; one connection | one SQL statement per method | - |
| `internal/docker` | the daemon's containers | create, start, remove, inspect, list | Docker daemon |
| `internal/telemt/client` | none | Health, Users, PatchUser | telemt in a container |
| `internal/telemt/tconfig` | none | Render, validate | - |
| `internal/poller` | snapshots, failures, skips, subscribers | PollOnce every 5 s, Subscribe, Get, All | proxy service, control API |
| `internal/web/sse.go` | one handler per open tab | getEvents | poller, store |
| `internal/web/auth.go`, `store/admins.go` | attempts table, admins, sessions | Bootstrap, Login, Logout, ChangePassword | store |
| `internal/web` handlers, templates | none | forms to requests, pages | all of the above |
| `cmd/panel/main.go` | process life cycle | Reconcile, then poller, then HTTP server | all of the above |

Three stores have to agree and none has transactions across the others: the row
of a proxy (port, domain, limits, container id, state), its container (published
port, the configuration the process inside has read) and its directory. HTTP
handlers run concurrently and nothing locks a proxy. A request's context ends
when the browser goes away; commits that must not be lost use
`context.WithoutCancel`. `main` returns from `ListenAndServe` as soon as the
shutdown starts, so every SIGTERM is, for the handlers under way, a crash.

What is hard here: handlers of the same proxy interleaving (each writes back the
whole row it read earlier), a crash between two steps, Docker calls that fail or
do their work and lose the answer, the caller hanging up during the 30 s health
wait, Reconcile having to guess from rows and labels what had been going on; in
the poller, two critical sections with concurrent polls between them, backoff
counters in two maps, and channels that are closed while others send on them.
PROJECT.json lists each hazard with its line.

What makes each part correct:

- **store**: ids are unique, a port belongs to one row, an update never inserts.
- **proxy service**: a row names a container of its own; nobody removes a foreign
  container; deleted means gone; a saga that fails leaves nothing; a row that
  says running is served as it says; no proxy stays in a passing state.
- **reconcile**: after a start every proxy has a container or says it failed; a
  proxy that was ever acknowledged is not forgotten.
- **poller**: the cache is as fresh as the backoff promises and holds exactly the
  listed proxies; a recovered proxy is noticed; nothing is left of a deleted one.
- **event streams**: no tab misses a change; no send on a closed channel.
- **rate limiter**: the table of failed logins stays within its cap; a flood from
  other addresses neither frees a limited one nor locks out an innocent one. (An
  address is the connection's; behind a proxy all clients share one, and this holds
  for the proxy as a whole.)
- **sessions**: a cookie works from login to logout or expiry, no longer and no
  shorter; the printed password has to be replaced; somebody can log in.
- **limits**: row, config.toml and telemt say the same once the panel says "saved"
  and nothing else; a field nobody touched keeps its value.

## 2. Modules

| module | models | state |
| --- | --- | --- |
| `PanelData` | rows, config.toml, containers as records; constants | - |
| `ProxyStore` | the proxies table (`store/proxies.go`) | `rows`, `issued` |
| `DockerHost` | daemon, telemt processes, configuration directories (`docker/client.go`) | `ctr`, `cfg` |
| `ProxyService` | the sagas and Reconcile (`proxy/service.go`, `proxy/lifecycle.go`, `main.go`); composes the two above | `call`, `mode`, `todo`, `seen`, `acked` |
| `ProxyServiceProps` | its properties | - |
| `ProxyServiceInv` | its inductive invariants | - |
| `ProxyServiceProofs` | proofs | - |
| `Poller` | `poller/poller.go` | cache, counters, sweep, channels |
| `EventStream` | `web/sse.go`, one handler per tab, and the proxies that come and go; composes `Poller` | `tab` |
| `BackoffSchedule` | abstract: who is polled in a sweep | `lost`, `wait`, `sweep` |
| `EventStreamProofs` | proofs, refinement included | - |
| `PortLedger` | abstract: what the panel promises of the host's ports | `held`, `known` |
| `PortLedgerProofs` | `ProxyService` implements `PortLedger` | - |
| `AcknowledgedProofs` | an acknowledged proxy is not forgotten | - |
| `StoresProofs` | table, containers and directories agree; handlers end | - |
| `LoginLimiter` | `Auth.Login` and its attempts table (`web/auth.go`) | `attempts`, `login`, `recent` |
| `LoginLimiterProofs` | proofs | - |
| `Sessions` | Bootstrap, login, `authed`, `requirePassword`, password change, logout (`web/auth.go`, `web/server.go`, `store/admins.go`) | `admin`, `sessions`, `boot`, `req`, `now`; histories `known`, `issued`, `ended`, `cutOff` |
| `SessionsProofs` | proofs | - |
| `LimitsForm` | a limits form: page, `LimitsPatch`, config.toml, merge patch (`web/handlers_detail.go`, `UpdateLimits`, `apiPatch`, `telemt/client`) | `row`, `message`, `file`, `live`, `up`, `page`, `sub`, `outcome` |
| `LimitsFormProofs` | proofs | - |
| `MCSettles` | `ProxyService` from a stored proxy on, a bounded number of requests, interchangeable ids in a fixed order | `requests` |
| `MCProxyService`, `MCEventStream`, `MCLoginLimiter`, `MCSessions`, `MCLimitsForm` | instances for TLC | - |

**ProxyService.** `call[r]` is the stack frame of the handler in slot `r`: its
program counter, the proxy, its copy `p` of the row, and what it still has to
remember. Each database statement, file operation and Docker call is an action
named after the operation and the step (`RecreateCommit` is the second
UpdateProxy of Recreate). An action has one disjunct per outcome of the call; a
disjunct without a guard on `Faults` is a failure that can always occur (a
daemon error, a caller who hung up), since the code takes the same path for all
of them. The rarer faults are switched on per run by the constant `Faults`:
`crash`, `vanish` (a manual `docker rm -f`), `restart` (telemt dies, Docker
restarts it), `remove` (docker rm fails while Create unwinds, on a context no
caller can cancel; elsewhere it fails by choice), `lost` (work done, answer lost),
`list`, `skip` (Inspect fails inside List), `disk`, `db`.
startContainer and the terminal commits are shared by handlers and by the boot
slot, as in the code. `mode` is the process: `boot`, `reconciling`, `serving`;
a crash empties every frame and leaves rows, containers and files. Requests start
with the web handlers `PostCreate`, `PostDelete`, `PostLimits`, `PostRecreate` and
`PostRemoveOrphan`, which choose what the form says.

Abstracted: names, secrets and tokens (never compared); a domain and a set of
limits (ad tag included) are model values, some of which Render refuses
(`BadDomain`, `BadLimits`). CheckPort's bind test happens in the panel's own
network namespace and cannot see the host's ports, so only range and reserved
ports count. Writing config.toml is one step, since it ends in a rename; its
failures leave the old file, an empty directory, or nothing. A removed container
keeps its record because Docker does not reuse ids. Reconcile's two listings are
one step because nobody else runs then; it reads rows as they are for the same
reason. A health wait is one step with either outcome. Containers and proxy ids
are bounded by the sets `Cid` and `Proxy`: when they are used up no more can be
created, which is why those runs do not check deadlock (a panel without requests
does nothing, either).

**Poller and EventStream.** Each critical section under `mu` or `subMu` is one
action: `Decide`, `Commit`, `Notify`, `Subscribe`, `Unsubscribe`. The polls of a
sweep are `PollProxy` steps in any order; a proxy deleted meanwhile just fails.
`failures` saturates at the threshold, as it is only compared with it. A channel
is named by the tab that owns it; `token` holds the channels with a full buffer.
The cancel function has two halves, the removal under `subMu` (`Leave`) and the
close after the unlock (`Close`), and a tab that is leaving may be overtaken by a
sweep. `age` and `owed` are history variables: sweeps since a snapshot was
taken, tabs that have not rendered since the cache changed. A render whose
listing fails counts as one (`send` returns true, the browser keeps the old
page until the next token).

`BackoffSchedule` is what a proxy may rely on: polled in every sweep until
`Threshold` failures in a row, then once in `Period` sweeps. Its one action is a
whole sweep, which polls every listed proxy with nothing left to sit out and nobody
else, and records whom it listed and polled in `sweep`. `EventStream` implements it
under the mapping `lost <- failures`, `wait <-` sweeps still to be sat out, computed
from `skips` and `skip` (`Waiting`), `sweep <- last`; `last` is a history variable
that `Commit` takes from the polls that were really made.

**PortLedger** says what the rows are for as far as ports go: a proxy claims a
permitted port nobody holds, once; it may move; it gives the port back for good.
`ProxyServiceProps!LedgerKept` maps `held` to the ports of the rows and `known` to
the ids ever inserted. That a copy of a row read long ago, or a port given in a
request, is written by a later statement is what makes this more than
UNIQUE(port).

**LoginLimiter.** Each critical section under `mu` is one step, the password check
lies between two of them, and a login is in one of the slots `Slot`. A record is a
count and its age in ticks; ages past the window are one value. `evictExpiredLocked`
inspects `sweepScan` entries in Go's random map order: any set of that size. A
restart is `Init`, as the table is only in memory. `recent` is a history, for one
address: how often it failed in the last 0, 1, 2, ... ticks.

**Sessions.** Each database statement is one step. `admin` is the one row of the
table: a second CreateAdmin fails on the unique user name and ends the process, as
any error of Bootstrap does. A password is known (printed or chosen) or not; `cutOff`
remembers that a panel was stopped with a stored password not yet printed. Tokens are never drawn
twice. A cookie outlives the request, so that any issued token may be
presented at any time, after a restart or a logout too. `authed` reads the admin
once, and what follows works on that copy (`req[c].must`). Expiry compares two
RFC3339Nano texts: seconds have a fixed width, the fraction loses its trailing
zeros, and a text that ends sorts, by its final `Z`, after one that goes on.
`TextAfter` is that order in arithmetic: `Places` lists what each digit of the
fraction is worth, up to a whole second (a fraction of zero has no digit at all
and no point). The code has `Second` = 10^9 and ten places; the theorems hold for
any. `MaxSec` stops the clock.

**LimitsForm** takes one submission at a time, with every failure of its steps;
crossing submissions belong to `ProxyService`. The field `conns` stands for the
expiry and both caps, which travel alike (an absent field, nil, a value). A quota
is a number of bytes modulo `Wrap`, a multiple of `GB`, as 2^64 is of 2^30. `page`
is the row the page was loaded with; a form holds anything.

## 3. Runs

Sizes are of the largest instance that stays below a minute or so with two
workers; symmetry over proxies, containers, handler slots and tabs is used in
runs without liveness only.

| run | instance | shows | distinct states |
| --- | --- | --- | --- |
| `concurrent` | 2 proxies, 2 containers, 1 port, 2 handlers, 5 faults | TypeOK, RowOwnsContainer, RemovesOnlyItsOwn, DeletedStaysDeleted | 1.07 M |
| `sequential_restart` | 2 proxies, 2 containers, 3 ports (one reserved), 1 handler, crash and restart | NothingLeftBehind, CidHonest, RestartRecovers, AckedNeverLost, LedgerKept | 143 k |
| `serves_row` | 2 proxies, 3 containers, 2 ports, a domain Render refuses, 1 handler, 5 faults | ServesRow | 1.43 M |
| `settles` | 2 proxies, one of them stored, 3 containers, 2 ports, a domain Render refuses, 2 handlers, 3 requests, fairness | CreateSettles, RecreateSettles | 362 k |
| `event_stream` | 1 proxy, 2 tabs, thresholds 3 and 6 as in the code, fairness | TypeOK, NoStaleSnapshot, CacheMatchesListing, NoLostWakeup, NoSendOnClosed, KeepsSchedule, TabCatchesUp, RecoveryNoticed, DeletedForgotten | 131 k |
| `login_limiter` | 3 addresses, 2 slots, 2 attempts, window of 2 ticks, 2 records, a sweep of 1 | TypeOK, TableBounded, InFlightBound, LimitedWithCause, LiveRecordKept, UnrecordedOnlyInACrowd | 64 k |
| `sessions` | 2 requests, 2 tokens, 2 passwords, TTL 2 s, 4 ticks a second in two binary digits, 5 seconds | TypeOK, HonouredInTime, HonouredLongEnough, SomebodyCanLogIn, ForcedChange | 172 k |
| `limits_form` | quotas of 0 to 2 GB that wrap at 2 GB, one tag and one that is none, one number | TypeOK, SavedIsFiled, SilenceMeansServed, UntouchedKept | 2.54 M |

**Why these bounds.** Two proxies are needed for one to meet the container or the
port of another, two handlers for any race of the service (its conflicts are
between a reader that writes later and one other writer), and two containers per
contested proxy for a rebuilt one; a third container lets a proxy be rebuilt
twice. `concurrent` has one port, so that the rows of its two proxies follow one
another but never coexist; two ports take it beyond 20 million states. What two rows
at once could add, a row that names the other's container or an orphan of one
proxy removed beside the other's row, is left to the theorems, which know no
bound. The real thresholds 3 and 6 are used
everywhere. Two tabs let one subscribe or leave while the other is being
notified; the theorems cover more of them, and proxies do not meet in the poller.
Three addresses are one more than the table holds, and the sweep sees less than
the table. Two slots let attempts overlap at the limit. In `sessions` a TTL of two
seconds and four ticks a second make every pair of fractions meet at the expiry,
with zero, one and two digits. In `limits_form` 2 GB wrap to 0 bytes, so that no
quota, a quota of nothing and a real one occur.

`settles` asks for two handlers, two proxies, two ports and a form that Render
refuses at once, since that is where a Recreate may fail on the other's port or
lose its row to it. It begins with one proxy stored and running, boots, and takes
three requests: enough for a Recreate that holds a copy, a second request that
changes the row under it, and a third that takes the port. TLC's symmetry is unsound
for liveness; `MCSettles` uses ids and slots in a fixed order instead. UpdateLimits
is left out: with it `CreateSettles` fails, because a copy that says creating is
written back after Create ended (section 4).

**One handler or two.** `concurrent` holds whatever runs. `LedgerKept`
does, too, by the theorem. `NothingLeftBehind`,
`CidHonest`, `AckedNeverLost` and `ServesRow` do not hold with two handlers on
the same proxy (section 4 shows how), so their runs have one request at a time,
with faults. `ServesRow` leaves out `crash`, `disk` and `db`: with a crash it
fails (section 4), and a failed terminal commit leaves the row of before by
construction. `CreateSettles` and `RecreateSettles` are checked with two handlers,
without UpdateLimits. `RecreateSettles` speaks of a Recreate from startContainer
on: one that fails earlier leaves the row recreating (section 4). It ends when the
row has moved to another port, because then the commit of a port somebody else
has taken meanwhile may be refused.

**Fairness.** Weak fairness of every handler that has begun, and of Reconcile:
goroutines are scheduled, Docker calls and file operations return, the health
wait has a budget. No request has to arrive and no fault to strike. For the
poller: the ticker ticks and a poll ends (the control API's HTTP client has a
10 s timeout; Docker's Inspect has none, which is taken on trust here and listed
as a hazard); a handler runs on when it can. Nothing is assumed of browsers or
proxies. The other modules state safety only.

Every property has a mutant in PROJECT.json: a plausible bug in the mapped
definition for which the run finds a violation. Mutants stand before the
definitions they change, marked as such.

## 4. Where the code does not do what is said of it

Each of these runs checks one statement of the repository and TLC finds an
execution of the code's model that breaks it (PROJECT.json quotes the lines).

| run | what happens |
| --- | --- |
| `rejected_port` | Recreate onto another proxy's port: the old container is removed before UNIQUE(port) refuses the row. |
| `delete_during_create` | Delete during Create's health wait finds no container id in the row; the container survives its proxy. |
| `crash_mid_recreate` | A crash after Recreate's commit: Reconcile rebuilds on the new port with the old config.toml. |
| `stale_creating` | UpdateLimits reads the row during Create, Create succeeds, a Recreate reads the running row, marks it and removes the container, UpdateLimits writes its copy (creating, no container) over the mark, the panel dies before Recreate's second commit: Reconcile deletes the proxy. |

More disagreements came up while modelling and have no run of their own.

In `ProxyService`, where the model contains them:

- A crash between docker create and Create's commit: Reconcile finds the
  container, adopts it (lifecycle.go:370) and leaves the row at creating for good,
  where the design document (lines 224 and 244) says that it cleans up a
  half-built proxy.
- Two UpdateLimits on one proxy may cross, so that config.toml has one's limits and
  the row the other's (lifecycle.go:106 and 124).
- A crash between Recreate's first UpdateProxy and its docker rm leaves the row at
  recreating, and Reconcile, which the comment at lifecycle.go:221 counts on, does
  not clear it because it finds the container.
- No crash is needed for that: a Recreate that is refused its port by UNIQUE(port),
  asks for a domain Render refuses (lifecycle.go:206), or loses its caller during
  docker rm (lifecycle.go:192) returns an error and leaves the row recreating, until
  another Recreate or a start that finds no container.
- UpdateLimits may write a copy back that says creating after Create ended
  (lifecycle.go:124); the proxy runs and its row says creating until a Recreate.
- Create with a malformed ad tag rolls back the row but leaves an empty directory,
  because the compensation for it is registered only after writeConfig has
  succeeded (service.go:146); so does a disk that fails there.

In `Sessions`:

- A panel killed after CreateAdmin and before the log line (auth.go:184,
  main.go:66) has an admin whose password nobody knows, and no later start prints
  one; the repository's README says the first-boot password is in the log.
  `SomebodyCanLogIn` shows that this is the only way.
- "treating an expired session as absent" (admins.go:68) is off in either direction,
  because texts are compared, by less than the last digit that is left of a
  fraction is worth: a whole second when the fraction is zero, a nanosecond in nine
  cases of ten. `HonouredInTime` and `HonouredLongEnough` state exactly that.
- A logout whose DELETE fails is answered like one that worked (handlers_auth.go:41).

In `LoginLimiter`: the comment at auth.go:306 says that a failure goes untracked
"once the table is genuinely full of live (unexpired) entries". A sweep inspects
eight entries, so that the table may be full of expired ones as long as eight live
ones happen to be those inspected; `UnrecordedOnlyInACrowd` states what holds.

In `LimitsForm`: "a field left as-is round trips its current value"
(handlers_detail.go:89) is true of the value on the page, which may be older than
the row.

## 5. Proofs

Assumptions: only the named ASSUMEs of `PanelData`, `ProxyService`, `Poller`,
`LoginLimiter`, `Sessions` and `LimitsForm` (model values and sets are disjoint,
`Boot` is no request slot, thresholds, windows and caps are positive, the slots of
logins are finite, a gigabyte divides the wrap-around). No bound on
proxies, containers, handlers, tabs, addresses, tokens or quotas, and any subset
of faults, except for six theorems, which say in their ASSUME what they need
(below): `OneAtATime` (there is one handler slot), some faults absent, or both.

`ProxyServiceProofs`: `Spec => []IInv` and from it the four properties of the run
`concurrent`. The stored rows alone are not inductive: a handler may hold a copy
of a row, or a container id, that is arbitrarily old, and write it back at any
time. `IInv` (module `ProxyServiceInv`) therefore says of *every* copy what the
properties say of the table: each container id in any frame, row or listing was
created for that proxy (`LocalsOK`, `RowsOK`, `BootOK`). This stays true because
containers keep their proxy's label and ids are not reused. For RemoveOrphan the
frame remembers which proxies had rows when it looked, and an unlisted owner can
never get a row later, as an id is inserted once (`LabelsIssued`, `issued`). The
action properties follow from `IInv` step by step; `DeletedStaysDeleted` because
Create claims fresh ids and updates only change rows that exist.

`EventStreamProofs`: the invariant ties `age`, `skips`, `failures` and the sweep
under way together (`BackoffOK`), and each channel to its tab's program counter
(`ChannelOK`); with the two run properties `CacheMatchesListing` and
`NoLostWakeup` it is inductive. `ScheduleKept` proves the refinement: `Commit` is a `Sweep` step of the schedule and
every other step a stutter. `Decide` changes `skips` and `skip`, but not `Waiting`
(`DecideStutters`); that the polls between the two were made for exactly the proxies
due takes `ResultsOK` (only due proxies have results) and `BackoffOK`, and `Commit`
waits for all of them (`CommitSweeps`).

`PortLedgerProofs`: to `IInv` it adds `PortsChecked`: the port in every row, every
copy of a row and every request under way once passed CheckPort. An update then
maps to a move or, when the port is the old one, to a stutter; that it moves onto
no other proxy's port is UNIQUE(port), and that it changes rows of its own proxy
only is `LocalsOK`.

`AcknowledgedProofs`: `AckedSettled` says that neither the row of an acknowledged
proxy nor any copy that may still be written back says creating, and that no
handler that undoes or abandons a row is at work on one. It needs `OneAtATime`: a second
handler's copy taken during Create is the counterexample of `stale_creating`.

`StoresProofs` is about the three stores together. First, for any number of
handlers: a step of a handler leaves every other proxy's row, file and containers
alone (`ActsAtHome`), a proxy never has two containers and a port never two rows
(`OneContainer`, `OnePort`, with `IInv` called `Ground`). On these rest

- `RecoversFromRestart`, for any number of handlers and any state a crash leaves.
  `BootRecovers`: every proxy Reconcile is done with has a container or says error,
  and the rebuild under way holds a copy the database will take.
- `RowsNameContainers`, `LeavesNothing` and `RunningRowsServe`, with one handler.
  Their invariants have the same shape: what holds of a proxy nobody works on
  (`Honest`, `Clean`, `RowServed`), and, for each step of each saga, what has been
  achieved and what is still to be undone (`LocalsHonest`, `LocalsClean`,
  `LocalsServe`). The properties alone say nothing between two quiet states, which is
  where crashes, and telemt's restarts, happen. `CleanInv` needs `HonestInv`: Delete
  removes the container its row names, so that nothing is left only if that is the
  one there is. `ServesInv` relates four things at once (row, file, what Docker
  publishes, what telemt loaded).
- `SagasEnd` and `CreatingIsUnderway`, what `CreateSettles` needs besides fairness:
  `StepsLeft` falls with every step of a handler and nobody puts it back, and a row
  never says creating without a Create under way that will settle it. The first is
  half of `RecreateSettles`, too.

| theorem | assumes | faults it excludes | because |
| --- | --- | --- | --- |
| `AcknowledgedKept` | one handler | none | - |
| `RecoversFromRestart` | - | list, db, vanish | main.go only warns when Reconcile fails, and Reconcile only logs a failed update; somebody may remove what it has just seen |
| `RowsNameContainers` | one handler | lost, db, list, skip | a container whose creation seemed to fail has no row that names it |
| `LeavesNothing` | one handler | those, remove, disk, and forms Render refuses | (Delete's docker rm may fail; `remove` is that of Create's undoing.) Create ignores the errors of its undoing and registers the directory after rendering into it |
| `RunningRowsServe` | one handler | crash, disk, db | Reconcile adopts a container whatever it runs with; a failed commit leaves the old row |
| `CreatingIsUnderway` | one handler, or no UpdateLimits | crash, db | an adopted row stays creating, and so does one whose commit failed |

Nothing in this table is there for the proof's sake: with a second handler on the
same proxy, with any one of the excluded faults or with an ad tag Render refuses,
TLC finds a violation on an instance with one proxy, two containers and two ports
(the faults of the second to fourth row, and the second handler of the first, need a
crash as well). All faults that are not named are allowed in any combination.

`LoginLimiterProofs`: the count of a live record is bounded only together with the
logins that already passed the check. `CountedAndCounting` says that count plus
those logins stay below `maxAttempts` plus the slots; the cap, `TypeOK` and this are
inductive. For `LimitedWithCause`, `CauseInv` says that a live record counts no more
than the failures since it was opened, which is its age in ticks ago, and that more
happened in more ticks.

`SessionsProofs`: a row of sessions stands from its login to its logout and
expires TTL after its login (`SessionRows`), whoever has a session, a password or a
request has an account (`AccountKept`), and a request whose copy says that the
password was changed is right about it, however old the copy (`Copies`: the flag
never comes back). The admin's password is one that is known unless it waits to be
printed or was cut off (`PasswordKnown`); that CreateAdmin finds no admin there is
`AccountKept` and the guard of UNIQUE. The two bounds on expiry rest on
`LastPlaceOK` (the last place of a fraction is one of `Places` and divides it; the
maximum exists because `Places` is bounded) and `TextCloseToTime`: texts that
disagree with times are less than such a place apart.

`LimitsFormProofs`: `Underway` says what a submission has achieved at each step
(file written, live limits patched, or a message to say they are not). The two
properties are inductive with it because the form's patch leaves no field out.
`QuotaRoundTrip` is the arithmetic of a quota that wrapped: bytes are a multiple of
GB, and dividing and multiplying gives them back.

Every safety property of the passing runs is stated by a theorem. Only
model-checked: liveness (`CreateSettles`, `RecreateSettles`, `TabCatchesUp`,
`RecoveryNoticed`, `DeletedForgotten`), since fairness and ENABLED are beyond the
prover, and the disagreements of section 4, which are counterexamples.

## 6. Not modelled, and what is left

- **Hashing, random numbers**: cost and secrecy are no matter of states; the models
  take "fits or does not" and "drawn at most once".
- **Templates, CSS, routing, headers, number parsing, TOML and JSON text**: pure
  functions of one request without state.
- **`tg://` links** (`link.go`, ReconcileLink, linkFor): a choice between two strings
  and their formatting. With PublicHost unset the link is that of the last
  snapshot, hence of the old port for a while after a Recreate; the age of
  snapshots is modelled, their links are not.
- **`config.go`**: environment variables, read once; the constants of the models.
- **EnsureNetwork, Pull, Logs, Ping, Stop**: folded into the creation that may
  fail, without effect on the state, or never called.
- **The Docker fake**, deployment scripts, the image and static files.

Left to do: for the poller and the tabs, the safety halves of `TabCatchesUp` and
`RecoveryNoticed`, as `SagasEnd` and `CreatingIsUnderway` are for the service; and
which of the properties of one handler at a time survive several handlers that work
on different proxies.
